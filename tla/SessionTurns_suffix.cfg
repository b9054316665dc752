\* Tools may fail for good: the hint splits a tool result from its call.
SPECIFICATION Spec
CONSTANTS
    t1 = t1
    t2 = t2
    t3 = t3
    c1 = c1
    cron = cron
    Turns = {t1}
    Steers = {m1}
    Agents = {a1}
    Tools <- MCTools
    Chats = {c1}
    HomeOf <- MCHome
    SessionOf <- MCSession
    KeepRecent = 2
    MaxIter = 1
    MaxFiles = 1
    Quirks = {"hint"}
INVARIANT StoredPaired
CHECK_DEADLOCK FALSE
