\* One message that replaces, one that may be steered.
SPECIFICATION FairSpec
CONSTANTS
    m1 = m1  m2 = m2  m3 = m3  c1 = c1  c2 = c2
    Tasks = {m1, m2}
    Convs = {c1}
    NoTask = NoTask
    ConvOf <- MCOneConv
    Steerable = {m2}
    WithReceipt = {m1, m2}
    Capacity = 1
PROPERTIES TaskReceiptsSettle CancelledWorkersStop FinishedTasksAreForgotten
CHECK_DEADLOCK FALSE
