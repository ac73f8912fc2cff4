SPECIFICATION FairDiscoverySpec
CONSTANTS
    Daemons = {d1, d2, d3}
    Commands = {k1}
    Absent = Absent
    MaxDeaths = 1
    MaxFailures = 1
INVARIANTS OneDaemon NothingLeftBehind
PROPERTY SomeoneServes
CHECK_DEADLOCK FALSE
