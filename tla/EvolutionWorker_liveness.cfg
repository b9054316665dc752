\* Two workers; no call fails for ever.
SPECIFICATION FairSpec
CONSTANTS
    Workflows = {f1}
    Workers = {w1, w2}
    NoWorker = NoWorker
    MaxAttempts = 3
    NumSteps = 2
    MaxStalls = 2
    FaultyCalls = {}
PROPERTIES EventuallySettled
