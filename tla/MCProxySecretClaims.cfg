CONSTANTS
    Users = {u1, u2, u3}
    Digests = {d1, d2, d3}
    Transactions = {t1, t2}
    MaxBegin = 4
    Batch = 2
    NoSecret = NoSecret
    NoClaim = NoClaim
    Nobody = Nobody
    Idle = Idle
SPECIFICATION Spec
SYMMETRY Symmetry
CHECK_DEADLOCK FALSE
INVARIANTS SecretsClaimed ClaimsStored
PROPERTIES NeverReassigned
