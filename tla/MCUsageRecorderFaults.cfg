\* One recorder, a two-phase node and a legacy node, every fault, edited nodes.
SPECIFICATION FairSpec
CONSTANTS
  a = a
  b = b
  c1 = c1
  c2 = c2
  c3 = c3
  u1 = u1
  NoEpoch = NoEpoch
  ClaimEpoch = ClaimEpoch
  Panel = {p1}
  Node = {1, 2}
  Proc = {a, b}
  InitialProc <- Apart
  LegacyProc = {b}
  User = {u1}
  Chunk = {c1, c2}
  Owner <- OwnedByOne
  Faults = {"edit", "restart", "database", "answer", "request", "indoubt", "crash"}
  MaxFaults = 1
  MaxBoot = 2
  MaxReset = 1
  MaxAttempts = 2
  MaxConsecutive = 2
INVARIANTS TypeOK BilledOnce AllConserved OneRowPerNode
PROPERTIES BilledInThePeriodRead Settles
