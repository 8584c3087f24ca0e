CONSTANTS
    Workers = {w1, w2}
    Operations = {"start", "stop"}
    Handed <- HandedOver
    Reports = {"broken"}
    LeaseSeconds = 1
    MaxTime = 2
    MaxToken = 3
    MaxSeq = 4
    MaxClear = 1
    NoDoc = NoDoc
    NoLease = NoLease
    NoTask = NoTask
    NoState = NoState
SPECIFICATION Spec
SYMMETRY Symmetry
CHECK_DEADLOCK FALSE
INVARIANTS TypeOK LeaseKept
PROPERTIES StaleReportRefused EpochGrows
