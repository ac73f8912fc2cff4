SPECIFICATION FairQueueSpec
CONSTANTS
    c1 = c1
    c2 = c2
    Topics = {c1, c2}
    Path <- ThePath
    Stuck <- Unclear
    Drivers = {d1, d2}
    Editors = {e1}
    MaxSteps = 2
    Absent = Absent
    MaxEdits = 2
    MaxFaults = 1
\* Everything may be driven and judged.
CHECK_DEADLOCK FALSE
INVARIANT QueueTypeOK
PROPERTIES PassesKeepToTheirCourse EveryCourseStops
