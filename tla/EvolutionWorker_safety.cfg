\* Three workers on one workflow: a superseded worker can be superseded again.
SPECIFICATION Spec
CONSTANTS
    Workflows = {f1}
    Workers = {w1, w2, w3}
    NoWorker = NoWorker
    MaxAttempts = 3
    NumSteps = 2
    MaxStalls = 2
    FaultyCalls <- MCKeepsLease
SYMMETRY MCSymmetry
INVARIANTS PrerequisitesRan NoStrandedClaim
PROPERTIES ImplementsPipeline
