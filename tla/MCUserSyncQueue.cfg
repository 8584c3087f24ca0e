\* Two panels that deliver, push snapshots and fail.
CONSTANTS
    Panel = {p1, p2}
    MaxCommit = 2
    MaxSync = 1
    Faults = {"dispatch", "send", "ack", "crash", "push"}
    MaxFaults = 1
    NoDoc = NoDoc
SPECIFICATION FairSpec
CHECK_DEADLOCK FALSE
INVARIANTS TypeOK NothingForgotten OneDelivery
PROPERTIES Converges
