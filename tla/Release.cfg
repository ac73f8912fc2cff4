SPECIFICATION Spec
CONSTANTS
    g1 = g1  g2 = g2  p1 = p1  p2 = p2  f1 = f1  f2 = f2
    Guides = {g1, g2}
    Profiles = {p1, p2}
    Goals = {p1}
    Found <- TheFindings
    Waivable = {f1, f2}
    Threads = {t1, t2}
    Commands = {c1}
    None = None
    MaxOps = 5
    MaxChanges = 1
    MaxDeaths = 1
SYMMETRY ThreadsAlike
\* The operations are bounded.
CHECK_DEADLOCK FALSE
INVARIANTS CurrentIsTrue GateIsHonest SomebodyGoesOn
PROPERTY WaiversStand
