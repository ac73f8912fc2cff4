SPECIFICATION StoresSpec
CONSTANTS
    d1 = d1  d2 = d2  c1 = c1  c2 = c2
    daemon = daemon  cli1 = cli1  cli2 = cli2
    Calls <- MCCalls
    Blocks <- MCBlocks
    Procs = {daemon, cli1, cli2}
    Proc <- MCProc
    Daemon = daemon
    Blueprints = {"drill", "project"}
    Recommended = "drill"
    Nobody = Nobody
    None = None
    MaxCalls = 3
    MaxDeaths = 1
SYMMETRY Exchanges
CHECK_DEADLOCK FALSE
PROPERTIES ImplementsExclusion LocksKeepWrites RunStands
