SPECIFICATION FairSpec
CONSTANTS
    Topics = {t1}
    Streams = {s1, s2}
    Kinds = {"attach"}
    MaxStreams = 2
    MaxGen = 3
    MaxEdits = 1
INVARIANTS NothingLost StaleNeverScans
PROPERTY Told
CHECK_DEADLOCK FALSE
