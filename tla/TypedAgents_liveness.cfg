\* A coder and a subagent, whose parents may be dropped.
SPECIFICATION FairSpec
CONSTANTS
    t1 = t1  t2 = t2  p1 = p1  p2 = p2
    Tasks = {t1, t2}
    NoTask = NoTask
    Paths = {p1}
    Scope <- MCCoderAndOther
    Subagents = {t2}
    ParentAborts = TRUE
    MaxCrashes = 0
PROPERTIES CancelStopsAgent ParentEndsSubagent
CHECK_DEADLOCK FALSE
