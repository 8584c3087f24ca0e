\* Two recorders overlap on one two-phase node that does not restart.
SPECIFICATION Spec
CONSTANTS
  a = a
  b = b
  c1 = c1
  c2 = c2
  c3 = c3
  u1 = u1
  NoEpoch = NoEpoch
  ClaimEpoch = ClaimEpoch
  Panel = {p1, p2}
  Node = {1}
  Proc = {a}
  InitialProc <- Alone
  LegacyProc = {}
  User = {u1}
  Chunk = {c1, c2}
  Owner <- OwnedByOne
  Faults = {"delete", "database", "answer", "indoubt", "crash"}
  MaxFaults = 2
  MaxBoot = 2
  MaxReset = 1
  MaxAttempts = 2
  MaxConsecutive = 2
SYMMETRY Symmetric
INVARIANTS NoDoubleBilling EmptyAckOnce
