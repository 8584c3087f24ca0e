------------------------- MODULE ProxySecretClaims -------------------------
(***************************************************************************)
(* Why two users never share a proxy secret                                *)
(* (app/fork/proxy_secrets/claims.py).  Every flush that stores proxy      *)
(* settings of users also claims the digests of their secrets, in the same *)
(* transaction: it locks the active claims of the users, inserts the       *)
(* missing rows, locks the rows it wanted and gives up when one of them is *)
(* another user's or was retired; at last it retires what the users no     *)
(* longer store.  A row is never deleted.                                  *)
(*                                                                         *)
(* One kind of secret is modelled; the kinds are independent.  The database *)
(* (row locks, unique keys, ON DELETE SET NULL) is external.               *)
(***************************************************************************)
EXTENDS Naturals, FiniteSets

CONSTANTS
    Users, Digests, Transactions,
    MaxBegin,     \* bound: how many transactions are begun
    Batch,        \* bound: how many users one transaction changes
    NoSecret, NoClaim, Nobody, Idle

ASSUME ClaimsAssumption ==
    /\ MaxBegin \in Nat /\ Batch \in Nat \ {0}
    /\ Nobody \notin Users
    /\ NoClaim \notin [user: Users \cup {Nobody}, retired: BOOLEAN]

VARIABLES
    secret,   \* per user, the digest of the stored secret
    claim,    \* per digest, the committed row
    txn,      \* per transaction, what it is doing
    begun

vars == <<secret, claim, txn, begun>>

Row(u, retired) == [user |-> u, retired |-> retired]

ActiveOf(u) == {d \in Digests : claim[d] # NoClaim /\ claim[d] = Row(u, FALSE)}

\* The users and the rows a transaction has locked.
UsersOf(t) == IF txn[t] = Idle THEN {} ELSE DOMAIN txn[t].changes
RowsOf(t) == IF txn[t] = Idle THEN {} ELSE txn[t].rows

Free(t, rows) == \A o \in Transactions \ {t} : RowsOf(o) \cap rows = {}

Init ==
    /\ secret = [u \in Users |-> NoSecret]
    /\ claim = [d \in Digests |-> NoClaim]
    /\ txn = [t \in Transactions |-> Idle]
    /\ begun = 0

\* The changes one flush can hold: some users, each with a secret or without.
Changes ==
    UNION {[us -> Digests \cup {NoSecret}] :
               us \in {s \in SUBSET Users : s # {} /\ Cardinality(s) <= Batch}}

\* A flush writes the users, which locks their rows.
Flush(t, changes) ==
    /\ txn[t] = Idle /\ begun < MaxBegin
    /\ \A o \in Transactions : UsersOf(o) \cap DOMAIN changes = {}
    /\ begun' = begun + 1
    /\ txn' = [txn EXCEPT ![t] =
           [step |-> "active", changes |-> changes, rows |-> {},
            active |-> [u \in DOMAIN changes |-> {}], held |-> [d \in {} |-> NoClaim]]]
    /\ UNCHANGED <<secret, claim>>

\* _active_claims reads and locks the active rows of the users.
ActiveClaims(t) ==
    /\ txn[t] # Idle /\ txn[t].step = "active"
    /\ LET active == [u \in UsersOf(t) |-> ActiveOf(u)]
           rows == UNION {active[u] : u \in UsersOf(t)}
       IN  /\ Free(t, rows)
           /\ txn' = [txn EXCEPT ![t] = [txn[t] EXCEPT !.step = "claim", !.rows = rows, !.active = active]]
    /\ UNCHANGED <<secret, claim, begun>>

\* What the changes want claimed, and by whom.
Wanted(t) ==
    {<<txn[t].changes[u], u>> : u \in
        {v \in UsersOf(t) : /\ txn[t].changes[v] # NoSecret
                            /\ txn[t].changes[v] \notin txn[t].active[v]}}

\* _insert_missing and _held_rows: a key that is not there is inserted for
\* one of the users that want it, one that is there is left as it is, and both are
\* locked; an uncommitted row of another transaction is waited for.
InsertMissing(t) ==
    /\ txn[t] # Idle /\ txn[t].step = "claim"
    /\ LET keys == {p[1] : p \in Wanted(t)} IN
       /\ Free(t, keys)
       /\ \E first \in [keys -> UsersOf(t)] :
            /\ \A d \in keys : <<d, first[d]>> \in Wanted(t)
            /\ txn' = [txn EXCEPT ![t] =
                  [txn[t] EXCEPT !.step = "held", !.rows = txn[t].rows \cup keys,
                            !.held = [d \in keys |->
                                IF claim[d] = NoClaim THEN Row(first[d], FALSE) ELSE claim[d]]]]
    /\ UNCHANGED <<secret, claim, begun>>

\* Mutants of Conflicting: the holder is not compared, or only the holder is.
ConflictingAnyone(t) == \E p \in Wanted(t) : txn[t].held[p[1]].retired

ConflictingRetired(t) == \E p \in Wanted(t) : txn[t].held[p[1]].user # p[2]

\* A wanted row is another user's, nobody's, or was retired.
Conflicting(t) ==
    \E p \in Wanted(t) : txn[t].held[p[1]] # Row(p[2], FALSE)

\* Mutant of Stale: what the users stored before stays claimed.
StaleNone(t) == {}

\* What the users claimed and no longer store.
Stale(t) == UNION {txn[t].active[u] \ {txn[t].changes[u]} : u \in UsersOf(t)}

\* Mutant of Retired: the row of a secret that is given up is handed back.
RetiredFreed(row) == NoClaim

Retired(row) == Row(row.user, TRUE)

\* No conflict: _retire, and the transaction commits.
Commit(t) ==
    /\ txn[t] # Idle /\ txn[t].step = "held"
    /\ ~Conflicting(t)
    /\ claim' = [d \in Digests |->
           IF d \in Stale(t) THEN Retired(claim[d])
           ELSE IF d \in DOMAIN txn[t].held THEN txn[t].held[d]
           ELSE claim[d]]
    /\ secret' = [u \in Users |-> IF u \in UsersOf(t) THEN txn[t].changes[u] ELSE secret[u]]
    /\ txn' = [txn EXCEPT ![t] = Idle]
    /\ UNCHANGED begun

\* ProxySecretClaimConflict is raised and the transaction rolled back.
ClaimConflict(t) ==
    /\ txn[t] # Idle /\ txn[t].step = "held"
    /\ Conflicting(t)
    /\ txn' = [txn EXCEPT ![t] = Idle]
    /\ UNCHANGED <<secret, claim, begun>>

\* The transaction fails for another reason, or the database ends a deadlock.
Rollback(t) ==
    /\ txn[t] # Idle
    /\ txn' = [txn EXCEPT ![t] = Idle]
    /\ UNCHANGED <<secret, claim, begun>>

\* A user is deleted: its rows stay, and belong to nobody.
DeleteUser(u) ==
    /\ \A t \in Transactions : u \notin UsersOf(t)
    /\ LET rows == {d \in Digests : claim[d] # NoClaim /\ claim[d].user = u} IN
       /\ rows # {}
       /\ \A t \in Transactions : RowsOf(t) \cap rows = {}
       /\ claim' = [d \in Digests |-> IF d \in rows THEN Row(Nobody, claim[d].retired) ELSE claim[d]]
    /\ secret' = [secret EXCEPT ![u] = NoSecret]
    /\ UNCHANGED <<txn, begun>>

Next ==
    \/ \E t \in Transactions :
        \/ \E changes \in Changes : Flush(t, changes)
        \/ ActiveClaims(t) \/ InsertMissing(t)
        \/ Commit(t) \/ ClaimConflict(t) \/ Rollback(t)
    \/ \E u \in Users : DeleteUser(u)

Spec == Init /\ [][Next]_vars

----------------------------------------------------------------------------

\* Every variable has its type, and no row is locked by two transactions
\* (claim_proxy_secrets reads what it changes FOR UPDATE).
TypeOK ==
    /\ secret \in [Users -> Digests \cup {NoSecret}]
    /\ claim \in [Digests -> [user: Users \cup {Nobody}, retired: BOOLEAN] \cup {NoClaim}]
    /\ \A t \in Transactions : txn[t] = Idle \/ txn[t].step \in {"active", "claim", "held"}
    /\ \A t, o \in Transactions : t # o => RowsOf(t) \cap RowsOf(o) = {}

\* No two users store the same secret, whatever flushes, conflicts and
\* deletions interleave: each stored secret is the active claim of its user.
SecretsClaimed ==
    \A u \in Users : secret[u] # NoSecret => claim[secret[u]] = Row(u, FALSE)

\* A user holds no active claim on a secret it does not store, so a secret
\* that was given up is known to be retired.
ClaimsStored == \A u \in Users : ActiveOf(u) \subseteq {secret[u]}

\* A claimed secret never passes to another user, not even after it was
\* retired or its user was deleted: clients may still use it.
NeverReassigned ==
    [][\A d \in Digests : claim[d] # NoClaim =>
        /\ claim'[d] # NoClaim
        /\ claim'[d].user \in {claim[d].user, Nobody}
        /\ claim[d].retired => claim'[d].retired]_vars

============================================================================
