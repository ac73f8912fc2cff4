SPECIFICATION FairSpec
CONSTANTS
    Stages = {"draft", "factcheck", "repair"}
    Sources <- MCSources
    Rank <- MCRank
    Draft = "draft"
    Late = "factcheck"
    Repair = "repair"
    Texts = {x, y}
    Requests = {r1, r2}
    Reviewer = r1
    Commands = {c1}
    Workers = {w1}
    None = None
    MaxMeddling = 1
    MaxBreaks = 1
INVARIANTS StaleIsTrue FinalIsApproved CommandsSpared
PROPERTY Converges
CHECK_DEADLOCK FALSE
