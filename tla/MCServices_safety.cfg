\* Two messages of one chat with two of a file command, a steering message and a background agent; two turns that ask for reviews; a client of the memory database with two faults.
SPECIFICATION ServicesSafety
CONSTANTS
    Services = {"message, no files", "message, no steering", "message, no agents", "learning", "memory"}
    c1 = c1
    Turns = {t1, t2}
    Steers = {m1}
    Agents = {a1}
    Tools <- MCTools
    Chats = {c1}
    HomeOf <- MCHome
    SessionOf <- MCHome
    KeepRecent = 2
    MaxIter = 1
    MaxFiles = 1
    Quirks = {}
    Dreamers = {}
    Nobody = Nobody
    MemoryFiles = {}
    MaxRuns = 2
    MaxSessions = 2
    MaxFaults = 3
    SessionGate = 1
    Conversations = {}
    Extractors = {}
    Layers = {"auto", "session"}
    MaxMessages = 2
    MaxExtractions = 2
    MaxMishaps = 2
    Callers = {}
    Askers = {}
    e1 = e1
    e2 = e2
    Entries = {}
    Nothing = Nothing
    Priority <- EntryPriority
    FailThreshold = 2
    MaxRetries = 2
    Users = {}
    MaxFailures = 2
    HalfOpenMaxCalls = 1
    MaxLost = 1
    Learners = {k1, k2}
    Reviewers = {r1}
    MaxReviews = 1
    SoftThreshold = 1
    LongTurns = FALSE
    Episodes = {}
    Ghosts = {}
    NoGhost = NoGhost
    Limit = 2
    Poison = {}
    MaxTroubles = 2
    Items = {i1, i2}
    Stores = {d1}
    MaxVersion = 2
    MaxStoreFaults = 2
SYMMETRY TurnSymmetry
INVARIANTS
    StoredPaired
    
    SlotsAreOwned
    DriftIsQueued
CHECK_DEADLOCK FALSE
