\* One worker process at a time, started twice.
SPECIFICATION FairSpec
CONSTANTS
    Workflows = {1, 2}
    Workers = {w1, w2}
    NoWorker = NoWorker
    MaxAttempts = 3
    Reporters = {r1}
    MaxEvos = 2
    MaxRetries = 1
    MaxLive = 1
    Torn = {}
INVARIANTS DeployedWasAudited RolledBackIsGone
  
CHECK_DEADLOCK FALSE
