---------------------------- MODULE MCDraftUnits ----------------------------
\* Two modules; the second outline changes the entry of one and drops the other.
EXTENDS DraftUnits

CONSTANTS m1, m2, e1, e2, s1, s2

TheOutlines   == {[m \in Modules |-> e1], [m \in Modules |-> IF m = m1 THEN e2 ELSE None]}
TheSkeletons  == {[m \in Modules |-> s1], [m \in Modules |-> IF m = m1 THEN s2 ELSE s1],
                  [m \in Modules |-> IF m = m1 THEN s1 ELSE None]}
TheModules    == {m1, m2}
=============================================================================
