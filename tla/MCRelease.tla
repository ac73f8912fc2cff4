----------------------------- MODULE MCRelease -----------------------------
\* Two guides and two profiles: the second guide blocks the second profile.
EXTENDS Release, TLC

CONSTANTS g1, g2, p1, p2, f1, f2

TheFindings == [g \in Guides |-> [p \in Attached |->
    IF g = g1 THEN {f1} ELSE IF p = p2 THEN {f1, f2} ELSE {}]]

ThreadsAlike == Permutations(Threads)
=============================================================================
