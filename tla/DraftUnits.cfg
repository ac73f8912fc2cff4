\* The draft stage of a run ends.
CHECK_DEADLOCK FALSE
SPECIFICATION FairSpec
CONSTANTS
    m1 = m1
    m2 = m2
    e1 = e1
    e2 = e2
    s1 = s1
    s2 = s2
    None = None
    Skeleton = Skeleton
    Modules <- TheModules
    Outlines <- TheOutlines
    Skeletons <- TheSkeletons
    Broken = {}
    Texts = {good, fine, bad}
    Malformed = {bad}
    Requests = {r1}
    MaxMeddling = 2
    MaxBreaks = 1
INVARIANTS UnitsInv StageFollowsUnits
PROPERTIES HandWorkStands Converges
