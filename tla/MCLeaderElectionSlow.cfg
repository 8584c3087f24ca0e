\* The code's times in seconds, and requests that take up to two seconds.
SPECIFICATION Spec
CONSTANTS
  Worker = {w1}
  Lease = 15
  Interval = 5
  RetryDelay = 1
  MaxRetries = 3
  OpTime = 2
  StopTime = 0
  ShutdownTime = 7
  Faults = {"network"}
  MaxFaults = 3
  NoDoc = NoDoc
  NoWrite = NoWrite
INVARIANTS ConcedesInTime
