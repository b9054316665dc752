\* A one-time job of the tool at time 1 and a repeated job of the service.
SPECIFICATION FairSpec
CONSTANTS
    a = a  e = e  None = None
    Jobs = {a, e}
    Kind <- MCKind
    At <- MCAt
    Every = 1
    RunImmediately = {e}
    DeleteAfterRun = {}
    ApiJobs = {e}
    MaxNow = 2
    MaxFaults = 1
    MaxRestarts = 1
INVARIANTS  NothingLost RemovedStaysRemoved 
PROPERTIES EveryKeepsItsPeriod DueJobFires
