\* One message to its end, a dreamer with three faults, two extractions of one chat, a turn and another task on two pool entries, one user of a breaker, two ghost workers.
SPECIFICATION ServicesSpec
CONSTANTS
    Services = {"message", "dream", "extraction", "calls", "breaker", "ghost"}
    c1 = c1
    Turns = {t1}
    Steers = {m1}
    Agents = {}
    Tools <- MCTwoTools
    Chats = {c1}
    HomeOf <- MCHome
    SessionOf <- MCHome
    KeepRecent = 2
    MaxIter = 2
    MaxFiles = 0
    Quirks = {}
    Dreamers = {p1}
    Nobody = Nobody
    MemoryFiles = {f1, f2}
    MaxRuns = 2
    MaxSessions = 2
    MaxFaults = 3
    SessionGate = 1
    Conversations = {h1}
    Extractors = {x1, x2}
    Layers = {"auto", "session"}
    MaxMessages = 2
    MaxExtractions = 2
    MaxMishaps = 2
    Callers = {l1}
    Askers = {a1}
    e1 = e1
    e2 = e2
    Entries = {e1, e2}
    Nothing = Nothing
    Priority <- EntryPriority
    FailThreshold = 2
    MaxRetries = 2
    Users = {u1}
    MaxFailures = 2
    HalfOpenMaxCalls = 1
    MaxLost = 1
    Learners = {}
    Reviewers = {}
    MaxReviews = 1
    SoftThreshold = 1
    LongTurns = FALSE
    Episodes = {1, 2}
    Ghosts = {g1, g2}
    NoGhost = NoGhost
    Limit = 2
    Poison = {1}
    MaxTroubles = 2
    Items = {}
    Stores = {}
    MaxVersion = 1
    MaxStoreFaults = 0
INVARIANTS
    ReviewedOnce
    
    AutoExtractedStays
    ShownIsAnswer
PROPERTIES
    EpisodesGetReviewed
    
    RecordedStays
    FlagComesDown
    MarkerComesDown
    GivesUpLast
    
CHECK_DEADLOCK FALSE
