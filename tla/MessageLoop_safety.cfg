\* m1 is never steered and replaces what runs; m2 and m3 may be steered.
SPECIFICATION Spec
CONSTANTS
    m1 = m1  m2 = m2  m3 = m3  c1 = c1  c2 = c2
    Tasks = {m1, m2, m3}
    Convs = {c1}
    NoTask = NoTask
    ConvOf <- MCOneConv
    Steerable = {m2, m3}
    WithReceipt = {m1, m2, m3}
    Capacity = 1
INVARIANTS WorkersAreOwned ReceiptIsHonest
SYMMETRY MCSymmetry
CHECK_DEADLOCK FALSE
