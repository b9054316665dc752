\* Two coders that share p1, whose parents see their spawns through.
SPECIFICATION Spec
CONSTANTS
    t1 = t1  t2 = t2  p1 = p1  p2 = p2
    Tasks = {t1, t2}
    NoTask = NoTask
    Paths = {p1, p2}
    Scope <- MCCoders
    Subagents = {}
    ParentAborts = FALSE
    MaxCrashes = 1
INVARIANTS RunningHoldsScope ScopesComeBack NoOrphanRecord 
CHECK_DEADLOCK FALSE
