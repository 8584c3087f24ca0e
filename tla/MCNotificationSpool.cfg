CONSTANTS
    MaxItem = 3
    MaxSpool = 2
    MaxCrash = 2
    MaxStop = 2
    MaxFail = 1
    MultiWorker = {TRUE, FALSE}
    NoFile = NoFile
SPECIFICATION FairSpec
CHECK_DEADLOCK FALSE
INVARIANTS NoneLost SentAgain
PROPERTIES Delivered
