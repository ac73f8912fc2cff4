SPECIFICATION DiscoverySpec
CONSTANTS
    Daemons = {d1, d2, d3}
    Commands = {}
    Absent = Absent
    MaxDeaths = 1
    MaxFailures = 0
INVARIANT OneOwner
CHECK_DEADLOCK FALSE
