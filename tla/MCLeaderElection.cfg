\* The code's times in units of HEARTBEAT_INTERVAL, 5 s: a request may take as
\* long as the default timeout of a JetStream request, 5 s.
SPECIFICATION FairSpec
CONSTANTS
  Worker = {w1, w2}
  Lease = 3
  Interval = 1
  RetryDelay = 0
  MaxRetries = 2
  OpTime = 1
  StopTime = 1
  ShutdownTime = 2
  Faults = {"network", "connect", "close", "crash", "stop"}
  MaxFaults = 2
  NoDoc = NoDoc
  NoWrite = NoWrite
INVARIANTS TypeOK ConcedesByThen StoppedForInterval
PROPERTIES JobsRunAlone SomeoneRuns
