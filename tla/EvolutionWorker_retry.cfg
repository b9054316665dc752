\* The retry that the third failure schedules.
SPECIFICATION FairSpec
CONSTANTS
    Workflows = {f1}
    Workers = {w1, w2}
    NoWorker = NoWorker
    MaxAttempts = 3
    NumSteps = 2
    MaxStalls = 2
    FaultyCalls = {}
PROPERTIES ScheduledRetryIsTaken
