CONSTANTS
    node = node
    panel = panel
    resync = resync
    job = job
    Workers <- MCWorkers
    Panels = {panel}
    Cores = {c1}
    Callers <- MCCallers
    Attempts = 2
    MaxCommit = 2
    MaxLost = 1
    NoReload = NoReload
SPECIFICATION FairSpec
CHECK_DEADLOCK FALSE
PROPERTIES ReloadNeverStale Converges
