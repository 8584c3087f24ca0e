---------------------- MODULE ProxySecretClaims_proofs ----------------------
(***************************************************************************)
(* Proofs about the claims of proxy secrets, for any sets of users,        *)
(* digests and transactions: a stored secret is claimed by its user alone, *)
(* and a claimed secret never passes to another user.                      *)
(***************************************************************************)
EXTENDS ProxySecretClaims, TLAPS

-----------------------------------------------------------------------------
(* The inductive invariant. *)

Rows == [user: Users \cup {Nobody}, retired: BOOLEAN]

Types ==
    /\ secret \in [Users -> Digests \cup {NoSecret}]
    /\ claim \in [Digests -> Rows \cup {NoClaim}]
    /\ DOMAIN txn = Transactions

\* The users and rows of a transaction are locked by it alone.
Locked ==
    \A t, o \in Transactions : t # o =>
        UsersOf(t) \cap UsersOf(o) = {} /\ RowsOf(t) \cap RowsOf(o) = {}

\* What a transaction is about to store.
Changing(t) ==
    /\ txn[t] = [step |-> txn[t].step, changes |-> txn[t].changes, rows |-> txn[t].rows,
                 active |-> txn[t].active, held |-> txn[t].held]
    /\ UsersOf(t) \subseteq Users
    /\ \A u \in UsersOf(t) : txn[t].changes[u] \in Digests \cup {NoSecret}
    /\ RowsOf(t) \subseteq Digests
    /\ txn[t].step \in {"active", "claim", "held"}

\* The active claims it read are still those of its users, and locked.
Reading(t) ==
    txn[t].step # "active" =>
        \A u \in UsersOf(t) : txn[t].active[u] = ActiveOf(u) /\ ActiveOf(u) \subseteq RowsOf(t)

\* The rows it wants are locked; one that was there is as it was, one that was
\* not is inserted for a user that wants it.
Holding(t) ==
    txn[t].step = "held" =>
        /\ DOMAIN txn[t].held = {p[1] : p \in Wanted(t)}
        /\ DOMAIN txn[t].held \subseteq RowsOf(t)
        /\ \A d \in DOMAIN txn[t].held :
            /\ claim[d] # NoClaim => txn[t].held[d] = claim[d]
            /\ claim[d] = NoClaim =>
                \E u \in UsersOf(t) : <<d, u>> \in Wanted(t) /\ txn[t].held[d] = Row(u, FALSE)

Pending == \A t \in Transactions : txn[t] # Idle => Changing(t) /\ Reading(t) /\ Holding(t)

IInv == Types /\ Locked /\ Pending /\ SecretsClaimed /\ ClaimsStored

-----------------------------------------------------------------------------
(* What the steps have in common. *)

LEMMA RowFacts ==
    /\ \A u \in Users : Row(u, FALSE) \in Rows /\ Row(u, TRUE) \in Rows
    /\ Row(Nobody, FALSE) \in Rows /\ Row(Nobody, TRUE) \in Rows
    /\ \A u, v : Row(u, FALSE) = Row(v, FALSE) => u = v
    /\ \A u, v : Row(u, FALSE) # Row(v, TRUE)
    /\ \A d \in Rows : d # NoClaim
<1>1. ASSUME NEW u, NEW v PROVE (Row(u, FALSE) = Row(v, FALSE) => u = v) /\ Row(u, FALSE) # Row(v, TRUE)
  BY DEF Row
<1>2. \A u \in Users : Row(u, FALSE) \in Rows /\ Row(u, TRUE) \in Rows
  BY DEF Row, Rows
<1>3. Row(Nobody, FALSE) \in Rows /\ Row(Nobody, TRUE) \in Rows
  BY DEF Row, Rows
<1>4. \A d \in Rows : d # NoClaim
  BY ClaimsAssumption DEF Rows
<1> QED
  BY <1>1, <1>2, <1>3, <1>4

LEMMA RetiredRow == ASSUME NEW v PROVE Retired(Row(v, FALSE)) = Row(v, TRUE)
<1>1. Row(v, FALSE).user = v
  BY DEF Row
<1> QED
  BY <1>1 DEF Retired

LEMMA ActiveFacts ==
    ASSUME NEW u, NEW d
    PROVE  d \in ActiveOf(u) <=> d \in Digests /\ claim[d] # NoClaim /\ claim[d] = Row(u, FALSE)
BY DEF ActiveOf

LEMMA WantedFacts ==
    ASSUME NEW t, NEW d, NEW u
    PROVE  <<d, u>> \in Wanted(t) <=> /\ u \in UsersOf(t)
                                      /\ d = txn[t].changes[u]
                                      /\ d # NoSecret /\ d \notin txn[t].active[u]
BY DEF Wanted

\* Nothing changes for a transaction whose users' claims and rows stay.
LEMMA OthersKept ==
    ASSUME IInv, NEW o \in Transactions, txn[o] # Idle, txn'[o] = txn[o],
           \A u \in UsersOf(o) : ActiveOf(u)' = ActiveOf(u),
           \A d \in RowsOf(o) : claim'[d] = claim[d]
    PROVE  Changing(o)' /\ Reading(o)' /\ Holding(o)'
<1>1. UsersOf(o)' = UsersOf(o) /\ RowsOf(o)' = RowsOf(o)
  BY DEF UsersOf, RowsOf
<1>2. Wanted(o)' = Wanted(o)
  BY <1>1 DEF Wanted
<1>3. Changing(o) /\ Reading(o) /\ Holding(o)
  BY DEF IInv, Pending
<1>4. Changing(o)'
  BY <1>1, <1>3 DEF Changing
<1>5. Reading(o)'
  BY <1>1, <1>3 DEF Reading
<1>6. Holding(o)'
  BY <1>1, <1>2, <1>3 DEF Holding
<1> QED
  BY <1>4, <1>5, <1>6

\* A step of one transaction that changes neither claims nor secrets.
LEMMA OwnStep ==
    ASSUME IInv, NEW t \in Transactions, DOMAIN txn' = Transactions,
           \A o \in Transactions : o # t => txn'[o] = txn[o],
           UNCHANGED <<secret, claim>>,
           \A o \in Transactions : o # t =>
               UsersOf(t)' \cap UsersOf(o) = {} /\ RowsOf(t)' \cap RowsOf(o) = {},
           txn'[t] # Idle => Changing(t)' /\ Reading(t)' /\ Holding(t)'
    PROVE  IInv'
<1>1. \A o \in Transactions : o # t => UsersOf(o)' = UsersOf(o) /\ RowsOf(o)' = RowsOf(o)
  BY DEF UsersOf, RowsOf
<1>2. \A u : ActiveOf(u)' = ActiveOf(u)
  BY DEF ActiveOf
<1>3. Types'
  BY DEF IInv, Types
<1>4. Locked'
  BY <1>1 DEF IInv, Locked
<1>5. Pending'
  <2>1. SUFFICES ASSUME NEW o \in Transactions, txn'[o] # Idle
                 PROVE  Changing(o)' /\ Reading(o)' /\ Holding(o)'
    BY DEF Pending
  <2>2. CASE o = t
    BY <2>1, <2>2
  <2>3. CASE o # t
    BY <1>2, <2>1, <2>3, OthersKept
  <2> QED
    BY <2>2, <2>3
<1>6. SecretsClaimed' /\ ClaimsStored'
  BY <1>2 DEF IInv, SecretsClaimed, ClaimsStored
<1> QED
  BY <1>3, <1>4, <1>5, <1>6 DEF IInv

-----------------------------------------------------------------------------
(* The steps. *)

LEMMA FlushStep ==
    ASSUME IInv, NEW t \in Transactions, NEW changes \in Changes, Flush(t, changes)
    PROVE  IInv'
<1>1. DOMAIN changes \subseteq Users /\ \A u \in DOMAIN changes : changes[u] \in Digests \cup {NoSecret}
  BY DEF Changes
<1>2. /\ DOMAIN txn' = Transactions /\ UNCHANGED <<secret, claim>>
      /\ \A o \in Transactions : o # t => txn'[o] = txn[o]
      /\ txn'[t] = [step |-> "active", changes |-> changes, rows |-> {},
                    active |-> [u \in DOMAIN changes |-> {}], held |-> [d \in {} |-> NoClaim]]
  BY DEF IInv, Types, Flush
<1>3. UsersOf(t)' \subseteq DOMAIN changes /\ RowsOf(t)' = {}
  BY <1>2 DEF UsersOf, RowsOf
<1>4. \A o \in Transactions : UsersOf(o) \cap DOMAIN changes = {}
  BY DEF Flush
<1>5. txn'[t] # Idle => Changing(t)' /\ Reading(t)' /\ Holding(t)'
  BY <1>1, <1>2, <1>3 DEF Changing, Reading, Holding
<1> QED
  BY <1>2, <1>3, <1>4, <1>5, OwnStep

LEMMA ActiveClaimsStep ==
    ASSUME IInv, NEW t \in Transactions, ActiveClaims(t)
    PROVE  IInv'
<1> DEFINE active == [u \in UsersOf(t) |-> ActiveOf(u)]
           rows == UNION {active[u] : u \in UsersOf(t)}
<1>1. Changing(t) /\ txn[t] # Idle
  BY DEF IInv, Pending, ActiveClaims
<1>2. /\ DOMAIN txn' = Transactions /\ UNCHANGED <<secret, claim>>
      /\ \A o \in Transactions : o # t => txn'[o] = txn[o]
      /\ txn'[t] = [txn[t] EXCEPT !.step = "claim", !.rows = rows, !.active = active]
      /\ Free(t, rows)
  BY DEF IInv, Types, ActiveClaims
<1> HIDE DEF active, rows
<1>3. txn'[t] = [step |-> "claim", changes |-> txn[t].changes, rows |-> rows,
                 active |-> active, held |-> txn[t].held]
  BY <1>1, <1>2 DEF Changing
<1>4. rows \subseteq Digests /\ \A u \in UsersOf(t) : active[u] = ActiveOf(u) /\ ActiveOf(u) \subseteq rows
  BY DEF active, rows, ActiveOf
<1>5. \A u : ActiveOf(u)' = ActiveOf(u)
  BY <1>2 DEF ActiveOf
<1>6. CASE txn'[t] = Idle
  <2>1. UsersOf(t)' = {} /\ RowsOf(t)' = {}
    BY <1>6 DEF UsersOf, RowsOf
  <2> QED
    BY <1>2, <1>6, <2>1, OwnStep
<1>7. CASE txn'[t] # Idle
  <2>1. UsersOf(t)' = UsersOf(t) /\ RowsOf(t)' = rows
    BY <1>1, <1>3, <1>7 DEF UsersOf, RowsOf
  <2>2. \A o \in Transactions : o # t =>
            UsersOf(t)' \cap UsersOf(o) = {} /\ RowsOf(t)' \cap RowsOf(o) = {}
    BY <1>2, <2>1 DEF IInv, Locked, Free
  <2>3. Changing(t)'
    BY <1>1, <1>3, <1>4, <2>1 DEF Changing
  <2>4. Reading(t)'
    BY <1>3, <1>4, <1>5, <2>1 DEF Reading
  <2>5. Holding(t)'
    BY <1>3 DEF Holding
  <2> QED
    BY <1>2, <2>2, <2>3, <2>4, <2>5, OwnStep
<1> QED
  BY <1>6, <1>7

LEMMA InsertMissingStep ==
    ASSUME IInv, NEW t \in Transactions, InsertMissing(t)
    PROVE  IInv'
<1> DEFINE keys == {p[1] : p \in Wanted(t)}
<1>1. Changing(t) /\ Reading(t) /\ txn[t] # Idle /\ txn[t].step = "claim" /\ Free(t, keys)
  BY DEF IInv, Pending, InsertMissing
<1>2. PICK first \in [keys -> UsersOf(t)] :
        /\ \A d \in keys : <<d, first[d]>> \in Wanted(t)
        /\ txn' = [txn EXCEPT ![t] =
              [txn[t] EXCEPT !.step = "held", !.rows = txn[t].rows \cup keys,
                             !.held = [d \in keys |->
                                IF claim[d] = NoClaim THEN Row(first[d], FALSE) ELSE claim[d]]]]
  BY DEF InsertMissing
<1> DEFINE held == [d \in keys |-> IF claim[d] = NoClaim THEN Row(first[d], FALSE) ELSE claim[d]]
<1>3. /\ DOMAIN txn' = Transactions /\ UNCHANGED <<secret, claim>>
      /\ \A o \in Transactions : o # t => txn'[o] = txn[o]
      /\ txn'[t] = [txn[t] EXCEPT !.step = "held", !.rows = txn[t].rows \cup keys, !.held = held]
  BY <1>2 DEF IInv, Types, InsertMissing
<1>4. keys \subseteq Digests
  <2>1. ASSUME NEW p \in Wanted(t) PROVE p[1] \in Digests
    BY <1>1, <2>1 DEF Wanted, Changing
  <2> QED
    BY <2>1
<1>5. /\ DOMAIN held = keys
      /\ \A d \in keys : /\ claim[d] # NoClaim => held[d] = claim[d]
                         /\ claim[d] = NoClaim => held[d] = Row(first[d], FALSE)
      /\ \A d \in keys : first[d] \in UsersOf(t) /\ <<d, first[d]>> \in Wanted(t)
  BY <1>2
<1>5a. keys = {p[1] : p \in Wanted(t)}
  OBVIOUS
<1> HIDE DEF held, keys
<1>6. txn'[t] = [step |-> "held", changes |-> txn[t].changes, rows |-> txn[t].rows \cup keys,
                 active |-> txn[t].active, held |-> held]
  BY <1>1, <1>3 DEF Changing
<1>7. \A u : ActiveOf(u)' = ActiveOf(u)
  BY <1>3 DEF ActiveOf
<1>8. CASE txn'[t] = Idle
  <2>1. UsersOf(t)' = {} /\ RowsOf(t)' = {}
    BY <1>8 DEF UsersOf, RowsOf
  <2> QED
    BY <1>3, <1>8, <2>1, OwnStep
<1>9. CASE txn'[t] # Idle
  <2>1. UsersOf(t)' = UsersOf(t) /\ RowsOf(t)' = RowsOf(t) \cup keys
    BY <1>1, <1>6, <1>9 DEF UsersOf, RowsOf
  <2>2. \A o \in Transactions : o # t =>
            UsersOf(t)' \cap UsersOf(o) = {} /\ RowsOf(t)' \cap RowsOf(o) = {}
    BY <1>1, <2>1 DEF IInv, Locked, Free
  <2>3. Wanted(t)' = Wanted(t)
    BY <1>6, <2>1 DEF Wanted
  <2>4. Changing(t)'
    BY <1>1, <1>4, <1>6, <2>1 DEF Changing
  <2>5. Reading(t)'
    BY <1>1, <1>6, <1>7, <2>1 DEF Reading
  <2>6. Holding(t)'
    <3>1. txn'[t].held = held /\ claim' = claim /\ keys \subseteq RowsOf(t)'
      BY <1>3, <1>6, <2>1
    <3>2. DOMAIN txn'[t].held = {p[1] : p \in Wanted(t)'}
      BY <1>5, <1>5a, <2>3, <3>1
    <3>3. DOMAIN txn'[t].held \subseteq RowsOf(t)'
      BY <1>5, <3>1
    <3>4. ASSUME NEW d \in DOMAIN txn'[t].held
          PROVE  /\ claim'[d] # NoClaim => txn'[t].held[d] = claim'[d]
                 /\ claim'[d] = NoClaim =>
                     \E u \in UsersOf(t)' : <<d, u>> \in Wanted(t)' /\ txn'[t].held[d] = Row(u, FALSE)
      BY <1>5, <2>1, <2>3, <3>1
    <3> QED
      BY <3>2, <3>3, <3>4 DEF Holding
  <2> QED
    BY <1>3, <2>2, <2>4, <2>5, <2>6, OwnStep
<1> QED
  BY <1>8, <1>9

\* A transaction that ends without a commit.
LEMMA EndStep ==
    ASSUME IInv, NEW t \in Transactions, ClaimConflict(t) \/ Rollback(t)
    PROVE  IInv'
<1>1. /\ DOMAIN txn' = Transactions /\ UNCHANGED <<secret, claim>>
      /\ \A o \in Transactions : o # t => txn'[o] = txn[o]
      /\ txn'[t] = Idle
  BY DEF IInv, Types, ClaimConflict, Rollback
<1>2. UsersOf(t)' = {} /\ RowsOf(t)' = {}
  BY <1>1 DEF UsersOf, RowsOf
<1> QED
  BY <1>1, <1>2, OwnStep

\* What a commit makes of a row: it retires one that its users gave up, keeps
\* every other that is there, and inserts only what its users store.
Stored(t, d) ==
    \/ \E v \in UsersOf(t) : /\ claim[d] = Row(v, FALSE) /\ txn[t].changes[v] # d
                             /\ claim'[d] = Row(v, TRUE)
    \/ /\ claim'[d] = claim[d]
       /\ \A v \in UsersOf(t) : claim[d] # NoClaim /\ claim[d] = Row(v, FALSE) => txn[t].changes[v] = d
    \/ /\ claim[d] = NoClaim
       /\ \E v \in UsersOf(t) : txn[t].changes[v] = d /\ claim'[d] = Row(v, FALSE)

LEMMA CommitFacts ==
    ASSUME IInv, NEW t \in Transactions, Commit(t)
    PROVE  /\ \A d \in Digests : Stored(t, d)
           /\ \A d \in Digests : d \notin RowsOf(t) => claim'[d] = claim[d]
           /\ \A u \in UsersOf(t) : txn[t].changes[u] # NoSecret =>
                  claim'[txn[t].changes[u]] = Row(u, FALSE)
<1> DEFINE held == txn[t].held
<1>1. txn[t] # Idle /\ Changing(t) /\ Reading(t) /\ Holding(t) /\ txn[t].step = "held"
  BY DEF IInv, Pending, Commit
<1>2. \A d \in Digests : claim'[d] = IF d \in Stale(t) THEN Retired(claim[d])
                                     ELSE IF d \in DOMAIN held THEN held[d] ELSE claim[d]
  BY DEF Commit
<1>3. \A u \in UsersOf(t), d \in Digests :
          d \in txn[t].active[u] <=> claim[d] # NoClaim /\ claim[d] = Row(u, FALSE)
  BY <1>1 DEF Reading, ActiveOf
<1>4. \A d \in Digests : d \in Stale(t) <=>
          \E v \in UsersOf(t) : claim[d] # NoClaim /\ claim[d] = Row(v, FALSE) /\ txn[t].changes[v] # d
  <2>1. SUFFICES ASSUME NEW d \in Digests
                 PROVE  d \in Stale(t) <=> \E v \in UsersOf(t) :
                            claim[d] # NoClaim /\ claim[d] = Row(v, FALSE) /\ txn[t].changes[v] # d
    OBVIOUS
  <2>2. d \in Stale(t) <=> \E v \in UsersOf(t) : d \in txn[t].active[v] /\ d # txn[t].changes[v]
    BY DEF Stale
  <2> QED
    BY <1>3, <2>2
<1>5. \A v : Retired(Row(v, FALSE)) = Row(v, TRUE)
  BY RetiredRow
<1>6. \A d \in DOMAIN held :
          /\ claim[d] # NoClaim => held[d] = claim[d]
          /\ claim[d] = NoClaim => \E u \in UsersOf(t) : <<d, u>> \in Wanted(t) /\ held[d] = Row(u, FALSE)
  BY <1>1 DEF Holding
<1>7. ASSUME NEW d \in Digests PROVE Stored(t, d)
  <2>1. CASE d \in Stale(t)
    <3>1. PICK v \in UsersOf(t) : claim[d] # NoClaim /\ claim[d] = Row(v, FALSE) /\ txn[t].changes[v] # d
      BY <1>4, <2>1
    <3>2. claim'[d] = Row(v, TRUE)
      BY <1>2, <1>5, <2>1, <3>1
    <3> QED
      BY <3>1, <3>2 DEF Stored
  <2>2. CASE d \notin Stale(t) /\ claim[d] # NoClaim
    <3>1. claim'[d] = claim[d]
      BY <1>2, <1>6, <2>2
    <3> QED
      BY <1>4, <2>2, <3>1 DEF Stored
  <2>3. CASE d \notin Stale(t) /\ claim[d] = NoClaim /\ d \in DOMAIN held
    <3>1. PICK u \in UsersOf(t) : <<d, u>> \in Wanted(t) /\ held[d] = Row(u, FALSE)
      BY <1>6, <2>3
    <3>2. txn[t].changes[u] = d
      BY <3>1, WantedFacts
    <3>3. claim'[d] = Row(u, FALSE)
      BY <1>2, <2>3, <3>1
    <3> QED
      BY <2>3, <3>2, <3>3 DEF Stored
  <2>4. CASE d \notin Stale(t) /\ claim[d] = NoClaim /\ d \notin DOMAIN held
    BY <1>2, <2>4 DEF Stored
  <2> QED
    BY <2>1, <2>2, <2>3, <2>4
<1>8. ASSUME NEW d \in Digests, d \notin RowsOf(t) PROVE claim'[d] = claim[d]
  <2>1. d \notin DOMAIN held
    BY <1>1, <1>8 DEF Holding
  <2>2. d \notin Stale(t)
    BY <1>1, <1>8 DEF Reading, Stale
  <2> QED
    BY <1>2, <2>1, <2>2
<1>9. ASSUME NEW u \in UsersOf(t), txn[t].changes[u] # NoSecret
      PROVE  claim'[txn[t].changes[u]] = Row(u, FALSE)
  <2> DEFINE d == txn[t].changes[u]
  <2>1. d \in Digests
    BY <1>1, <1>9 DEF Changing
  <2>2. CASE d \in txn[t].active[u]
    <3>1. claim[d] # NoClaim /\ claim[d] = Row(u, FALSE)
      BY <1>3, <2>1, <2>2
    <3>2. d \notin Stale(t)
      BY <1>4, <2>1, <3>1, RowFacts
    <3> QED
      BY <1>2, <1>6, <2>1, <3>1, <3>2
  <2>3. CASE d \notin txn[t].active[u]
    <3>1. <<d, u>> \in Wanted(t)
      BY <1>9, <2>3, WantedFacts
    <3>2. held[d] = Row(u, FALSE)
      BY <3>1 DEF Commit, Conflicting
    <3>3. d \in DOMAIN held
      BY <1>1, <3>1 DEF Holding
    <3>4. d \notin Stale(t)
      <4>1. SUFFICES ASSUME NEW v \in UsersOf(t), claim[d] # NoClaim, claim[d] = Row(v, FALSE),
                            txn[t].changes[v] # d
                     PROVE  FALSE
        BY <1>4, <2>1
      <4>2. held[d] = claim[d]
        BY <1>6, <3>3, <4>1
      <4> QED
        BY <3>2, <4>1, <4>2, RowFacts
    <3> QED
      BY <1>2, <2>1, <3>2, <3>3, <3>4
  <2> QED
    BY <2>2, <2>3
<1> QED
  BY <1>7, <1>8, <1>9

LEMMA CommitStep ==
    ASSUME IInv, NEW t \in Transactions, Commit(t)
    PROVE  IInv'
<1>1. txn[t] # Idle /\ Changing(t) /\ Types /\ Locked /\ Pending /\ SecretsClaimed /\ ClaimsStored
  BY DEF IInv, Pending, Commit
<1>2. /\ DOMAIN txn' = Transactions /\ txn'[t] = Idle
      /\ \A o \in Transactions : o # t => txn'[o] = txn[o]
  BY <1>1 DEF Types, Commit
<1>3. /\ \A d \in Digests : Stored(t, d)
      /\ \A d \in Digests : d \notin RowsOf(t) => claim'[d] = claim[d]
      /\ \A u \in UsersOf(t) : txn[t].changes[u] # NoSecret =>
             claim'[txn[t].changes[u]] = Row(u, FALSE)
  BY CommitFacts
<1>4. \A u \in Users : secret'[u] = IF u \in UsersOf(t) THEN txn[t].changes[u] ELSE secret[u]
  BY DEF Commit
<1>5. Types'
  <2>1. \A d \in Digests : claim[d] \in Rows \cup {NoClaim}
    BY <1>1 DEF Types
  <2>2. UsersOf(t) \subseteq Users
    BY <1>1 DEF Changing
  <2>3. \A d \in Digests : claim'[d] \in Rows \cup {NoClaim}
    <3>1. SUFFICES ASSUME NEW d \in Digests PROVE claim'[d] \in Rows \cup {NoClaim}
      OBVIOUS
    <3>2. ASSUME NEW v \in UsersOf(t), claim'[d] = Row(v, TRUE) \/ claim'[d] = Row(v, FALSE)
          PROVE  claim'[d] \in Rows
      BY <2>2, <3>2, RowFacts
    <3>3. \/ claim'[d] = claim[d]
          \/ \E v \in UsersOf(t) : claim'[d] = Row(v, TRUE) \/ claim'[d] = Row(v, FALSE)
      BY <1>3 DEF Stored
    <3> QED
      BY <2>1, <3>2, <3>3
  <2>4. claim' \in [Digests -> Rows \cup {NoClaim}]
    BY <2>3 DEF Commit
  <2>5. secret' \in [Users -> Digests \cup {NoSecret}]
    BY <1>1 DEF Commit, Types, Changing
  <2> QED
    BY <1>2, <2>4, <2>5 DEF Types
<1>6. Locked'
  <2>1. UsersOf(t)' = {} /\ RowsOf(t)' = {}
    BY <1>2 DEF UsersOf, RowsOf
  <2>2. \A o \in Transactions : o # t => UsersOf(o)' = UsersOf(o) /\ RowsOf(o)' = RowsOf(o)
    BY <1>2 DEF UsersOf, RowsOf
  <2> QED
    BY <1>1, <2>1, <2>2 DEF Locked
<1>7. Pending'
  <2>1. SUFFICES ASSUME NEW o \in Transactions, txn'[o] # Idle
                 PROVE  Changing(o)' /\ Reading(o)' /\ Holding(o)'
    BY DEF Pending
  <2>2. o # t /\ txn'[o] = txn[o] /\ txn[o] # Idle
    BY <1>2, <2>1
  <2>3. UsersOf(t) \cap UsersOf(o) = {} /\ RowsOf(t) \cap RowsOf(o) = {} /\ RowsOf(o) \subseteq Digests
    BY <1>1, <2>2 DEF Locked, Pending, Changing
  <2>4. ASSUME NEW u \in UsersOf(o) PROVE ActiveOf(u)' = ActiveOf(u)
    <3>1. u \notin UsersOf(t)
      BY <2>3, <2>4
    <3>2. ASSUME NEW d \in Digests
          PROVE  (claim[d] # NoClaim /\ claim[d] = Row(u, FALSE))
                     <=> (claim'[d] # NoClaim /\ claim'[d] = Row(u, FALSE))
      <4>1. CASE claim'[d] = claim[d]
        BY <4>1
      <4>2. CASE claim'[d] # claim[d]
        <5>1. PICK v \in UsersOf(t) :
                 \/ claim[d] = Row(v, FALSE) /\ claim'[d] = Row(v, TRUE)
                 \/ claim[d] = NoClaim /\ claim'[d] = Row(v, FALSE)
          BY <1>3, <4>2 DEF Stored
        <5>2. u # v
          BY <3>1
        <5> QED
          BY <5>1, <5>2, RowFacts
      <4> QED
        BY <4>1, <4>2
    <3> QED
      BY <3>2 DEF ActiveOf
  <2>5. \A d \in RowsOf(o) : claim'[d] = claim[d]
    BY <1>3, <2>3
  <2> QED
    BY <2>2, <2>4, <2>5, OthersKept
<1>8. SecretsClaimed'
  <2>1. SUFFICES ASSUME NEW u \in Users, secret'[u] # NoSecret
                 PROVE  claim'[secret'[u]] = Row(u, FALSE)
    BY DEF SecretsClaimed
  <2>2. CASE u \in UsersOf(t)
    BY <1>3, <1>4, <2>1, <2>2
  <2>3. CASE u \notin UsersOf(t)
    <3>1. secret'[u] = secret[u] /\ claim[secret[u]] = Row(u, FALSE) /\ secret[u] \in Digests
      BY <1>1, <1>4, <2>1, <2>3 DEF SecretsClaimed, Types
    <3>2. Row(u, FALSE) # NoClaim
      BY RowFacts
    <3> QED
      <4>1. SUFFICES ASSUME claim'[secret[u]] # claim[secret[u]] PROVE FALSE
        BY <3>1
      <4>2. PICK v \in UsersOf(t) : \/ claim[secret[u]] = Row(v, FALSE)
                                    \/ claim[secret[u]] = NoClaim
        BY <1>3, <3>1, <4>1 DEF Stored
      <4>3. u # v
        BY <2>3
      <4> QED
        BY <3>1, <3>2, <4>2, <4>3, RowFacts
  <2> QED
    BY <2>2, <2>3
<1>9. ClaimsStored'
  <2>1. SUFFICES ASSUME NEW u \in Users, NEW d \in Digests,
                        claim'[d] # NoClaim, claim'[d] = Row(u, FALSE)
                 PROVE  d = secret'[u]
    BY DEF ClaimsStored, ActiveOf
  <2>2. CASE claim'[d] = claim[d] /\
             \A v \in UsersOf(t) : claim[d] # NoClaim /\ claim[d] = Row(v, FALSE) => txn[t].changes[v] = d
    <3>1. d \in ActiveOf(u)
      BY <2>1, <2>2, ActiveFacts
    <3>2. d = secret[u]
      BY <1>1, <3>1 DEF ClaimsStored
    <3> QED
      BY <1>4, <2>1, <2>2, <3>2
  <2>3. ASSUME NEW v \in UsersOf(t), txn[t].changes[v] = d, claim'[d] = Row(v, FALSE)
        PROVE  d = secret'[u]
    BY <1>4, <2>1, <2>3, RowFacts
  <2>4. ASSUME NEW v \in UsersOf(t), claim'[d] = Row(v, TRUE) PROVE FALSE
    BY <2>1, <2>4, RowFacts
  <2> QED
    BY <1>3, <2>2, <2>3, <2>4 DEF Stored
<1> QED
  BY <1>5, <1>6, <1>7, <1>8, <1>9 DEF IInv

\* What the deletion of a user makes of a row.
LEMMA DeleteUserFacts ==
    ASSUME IInv, NEW u \in Users, DeleteUser(u), NEW d \in Digests
    PROVE  \/ /\ claim[d] # NoClaim /\ claim[d].user = u
              /\ claim'[d] = Row(Nobody, claim[d].retired)
              /\ \A t \in Transactions : d \notin RowsOf(t)
           \/ /\ claim'[d] = claim[d]
              /\ claim[d] # NoClaim => claim[d].user # u
<1> DEFINE rows == {e \in Digests : claim[e] # NoClaim /\ claim[e].user = u}
<1>1. /\ claim'[d] = IF d \in rows THEN Row(Nobody, claim[d].retired) ELSE claim[d]
      /\ \A t \in Transactions : RowsOf(t) \cap rows = {}
  BY DEF DeleteUser
<1> QED
  BY <1>1

LEMMA DeleteUserStep ==
    ASSUME IInv, NEW u \in Users, DeleteUser(u)
    PROVE  IInv'
<1>1. Types /\ Locked /\ Pending /\ SecretsClaimed /\ ClaimsStored
  BY DEF IInv
<1>2. txn' = txn /\ \A t \in Transactions : u \notin UsersOf(t)
  BY DEF DeleteUser
<1>3. \A v \in Users : secret'[v] = IF v = u THEN NoSecret ELSE secret[v]
  BY <1>1 DEF DeleteUser, Types
<1>4. \A d \in Digests : claim[d] \in Rows \cup {NoClaim}
  BY <1>1 DEF Types
<1>5. \A v \in Users, d \in Digests :
         v # u => (claim'[d] = Row(v, FALSE) <=> claim[d] = Row(v, FALSE))
  <2>1. SUFFICES ASSUME NEW v \in Users, NEW d \in Digests, v # u
                 PROVE  claim'[d] = Row(v, FALSE) <=> claim[d] = Row(v, FALSE)
    OBVIOUS
  <2>2. /\ Row(v, FALSE).user = v
        /\ Row(Nobody, claim[d].retired).user = Nobody
    BY DEF Row
  <2>3. v # Nobody
    BY ClaimsAssumption
  <2>4. CASE claim[d].user = u /\ claim'[d] = Row(Nobody, claim[d].retired)
    BY <2>1, <2>2, <2>3, <2>4
  <2>5. CASE claim'[d] = claim[d]
    BY <2>5
  <2> QED
    BY <2>4, <2>5, DeleteUserFacts
<1>6. Types'
  <2>1. ASSUME NEW d \in Digests PROVE claim'[d] \in Rows \cup {NoClaim}
    <3>1. ASSUME claim[d] \in Rows PROVE Row(Nobody, claim[d].retired) \in Rows
      BY <3>1 DEF Row, Rows
    <3> QED
      BY <1>4, <3>1, DeleteUserFacts
  <2>2. claim' \in [Digests -> Rows \cup {NoClaim}]
    BY <2>1 DEF DeleteUser
  <2>3. secret' \in [Users -> Digests \cup {NoSecret}]
    BY <1>1 DEF DeleteUser, Types
  <2> QED
    BY <1>1, <1>2, <2>2, <2>3 DEF Types
<1>7. Locked'
  BY <1>1, <1>2 DEF Locked, UsersOf, RowsOf
<1>8. Pending'
  <2>1. SUFFICES ASSUME NEW o \in Transactions, txn'[o] # Idle
                 PROVE  Changing(o)' /\ Reading(o)' /\ Holding(o)'
    BY DEF Pending
  <2>2. txn'[o] = txn[o] /\ txn[o] # Idle
    BY <1>2, <2>1
  <2>3. UsersOf(o) \subseteq Users /\ RowsOf(o) \subseteq Digests
    BY <1>1, <2>2 DEF Pending, Changing
  <2>4. ASSUME NEW v \in UsersOf(o) PROVE ActiveOf(v)' = ActiveOf(v)
    <3>1. v \in Users /\ v # u /\ Row(v, FALSE) # NoClaim
      BY <1>2, <2>3, <2>4, RowFacts
    <3> QED
      BY <1>5, <3>1 DEF ActiveOf
  <2>5. \A d \in RowsOf(o) : claim'[d] = claim[d]
    BY <2>3, DeleteUserFacts
  <2> QED
    BY <2>2, <2>4, <2>5, OthersKept
<1>9. SecretsClaimed'
  <2>1. SUFFICES ASSUME NEW v \in Users, secret'[v] # NoSecret
                 PROVE  claim'[secret'[v]] = Row(v, FALSE)
    BY DEF SecretsClaimed
  <2>2. v # u /\ secret'[v] = secret[v] /\ secret[v] \in Digests /\ claim[secret[v]] = Row(v, FALSE)
    BY <1>1, <1>3, <2>1 DEF SecretsClaimed, Types
  <2> QED
    BY <1>5, <2>2
<1>10. ClaimsStored'
  <2>1. SUFFICES ASSUME NEW v \in Users, NEW d \in Digests,
                        claim'[d] # NoClaim, claim'[d] = Row(v, FALSE)
                 PROVE  d = secret'[v]
    BY DEF ClaimsStored, ActiveOf
  <2>2. /\ v # Nobody /\ Row(v, FALSE).user = v
        /\ Row(Nobody, claim[d].retired).user = Nobody
    BY ClaimsAssumption DEF Row
  <2>3. v # u
    <3>1. CASE claim'[d] = Row(Nobody, claim[d].retired)
      BY <2>1, <2>2, <3>1
    <3>2. CASE claim'[d] = claim[d] /\ (claim[d] # NoClaim => claim[d].user # u)
      BY <2>1, <2>2, <3>2
    <3> QED
      BY <3>1, <3>2, DeleteUserFacts
  <2>4. claim[d] = Row(v, FALSE) /\ Row(v, FALSE) # NoClaim
    BY <1>5, <2>1, <2>3
  <2>5. d = secret[v]
    BY <1>1, <2>4, ActiveFacts DEF ClaimsStored
  <2> QED
    BY <1>3, <2>3, <2>5
<1> QED
  BY <1>6, <1>7, <1>8, <1>9, <1>10 DEF IInv

-----------------------------------------------------------------------------
(* The theorems. *)

LEMMA InitInv == Init => IInv
<1> SUFFICES ASSUME Init PROVE IInv
  OBVIOUS
<1>1. Types
  BY DEF Init, Types
<1>2. \A t \in Transactions : txn[t] = Idle
  BY DEF Init
<1>3. Locked /\ Pending
  BY <1>2 DEF Locked, Pending, UsersOf, RowsOf
<1>4. SecretsClaimed /\ ClaimsStored
  BY DEF Init, SecretsClaimed, ClaimsStored, ActiveOf
<1> QED
  BY <1>1, <1>3, <1>4 DEF IInv

LEMMA NextInv == IInv /\ [Next]_vars => IInv'
<1> SUFFICES ASSUME IInv, [Next]_vars PROVE IInv'
  OBVIOUS
<1>1. CASE UNCHANGED vars
  <2>1. /\ secret' = secret /\ claim' = claim /\ txn' = txn
        /\ \A u : ActiveOf(u)' = ActiveOf(u)
    BY <1>1 DEF vars, ActiveOf
  <2>2. Types' /\ Locked'
    BY <2>1 DEF IInv, Types, Locked, UsersOf, RowsOf
  <2>3. SecretsClaimed' /\ ClaimsStored'
    BY <2>1 DEF IInv, SecretsClaimed, ClaimsStored
  <2>4. Pending'
    BY <2>1, OthersKept DEF Pending
  <2> QED
    BY <2>2, <2>3, <2>4 DEF IInv
<1>2. ASSUME NEW t \in Transactions, NEW changes \in Changes, Flush(t, changes) PROVE IInv'
  BY <1>2, FlushStep
<1>3. ASSUME NEW t \in Transactions, ActiveClaims(t) PROVE IInv'
  BY <1>3, ActiveClaimsStep
<1>4. ASSUME NEW t \in Transactions, InsertMissing(t) PROVE IInv'
  BY <1>4, InsertMissingStep
<1>5. ASSUME NEW t \in Transactions, Commit(t) PROVE IInv'
  BY <1>5, CommitStep
<1>6. ASSUME NEW t \in Transactions, ClaimConflict(t) \/ Rollback(t) PROVE IInv'
  BY <1>6, EndStep
<1>7. ASSUME NEW u \in Users, DeleteUser(u) PROVE IInv'
  BY <1>7, DeleteUserStep
<1> QED
  BY <1>1, <1>2, <1>3, <1>4, <1>5, <1>6, <1>7 DEF Next

\* A stored secret is the active claim of its user, and of nobody else
\* (claim_proxy_secrets), for any number of users, secrets and transactions.
THEOREM SecretsAreClaimed == Spec => []SecretsClaimed
<1>1. IInv => SecretsClaimed
  BY DEF IInv
<1> QED
  BY <1>1, InitInv, NextInv, PTL DEF Spec

\* A user holds no active claim on a secret it gave up (_retire).
THEOREM ClaimsAreStored == Spec => []ClaimsStored
<1>1. IInv => ClaimsStored
  BY DEF IInv
<1> QED
  BY <1>1, InitInv, NextInv, PTL DEF Spec

\* No two users store the same secret: what the claims are for.
THEOREM SecretsDiffer ==
    Spec => [](\A u, v \in Users : u # v /\ secret[u] = secret[v] => secret[u] = NoSecret)
<1>1. SecretsClaimed => \A u, v \in Users : u # v /\ secret[u] = secret[v] => secret[u] = NoSecret
  <2>1. SUFFICES ASSUME SecretsClaimed, NEW u \in Users, NEW v \in Users, u # v,
                        secret[u] = secret[v], secret[u] # NoSecret
                 PROVE  FALSE
    OBVIOUS
  <2>2. claim[secret[u]] = Row(u, FALSE) /\ claim[secret[u]] = Row(v, FALSE)
    BY <2>1 DEF SecretsClaimed
  <2> QED
    BY <2>1, <2>2, RowFacts
<1> QED
  BY <1>1, SecretsAreClaimed, PTL

\* A claimed secret never passes to another user, and a retired one stays
\* retired, through commits, conflicts and deletions.
THEOREM SecretsNeverPass == Spec => NeverReassigned
<1>1. Spec => []IInv
  BY InitInv, NextInv, PTL DEF Spec
<1>2. IInv /\ [Next]_vars =>
        [\A d \in Digests : claim[d] # NoClaim =>
            /\ claim'[d] # NoClaim
            /\ claim'[d].user \in {claim[d].user, Nobody}
            /\ claim[d].retired => claim'[d].retired]_vars
  <2> SUFFICES ASSUME IInv, [Next]_vars, NEW d \in Digests, claim[d] # NoClaim
               PROVE  /\ claim'[d] # NoClaim
                      /\ claim'[d].user \in {claim[d].user, Nobody}
                      /\ claim[d].retired => claim'[d].retired
    OBVIOUS
  <2>1. \A x, y : Row(x, y).user = x
    BY DEF Row
  <2>3. CASE claim'[d] = claim[d]
    BY <2>3
  <2>4. ASSUME NEW t \in Transactions, Commit(t), claim'[d] # claim[d]
        PROVE  /\ claim'[d] # NoClaim
               /\ claim'[d].user \in {claim[d].user, Nobody}
               /\ claim[d].retired => claim'[d].retired
    <3>1. Stored(t, d) /\ UsersOf(t) \subseteq Users
      BY <2>4, CommitFacts DEF IInv, Pending, Changing, UsersOf
    <3>2. PICK v \in UsersOf(t) : claim[d] = Row(v, FALSE) /\ claim'[d] = Row(v, TRUE)
      BY <2>4, <3>1 DEF Stored
    <3>3. Row(v, TRUE) # NoClaim
      BY <3>1, <3>2, RowFacts
    <3>4. Row(v, TRUE).user = v /\ Row(v, FALSE).user = v /\ Row(v, TRUE).retired
      BY DEF Row
    <3> QED
      BY <3>2, <3>3, <3>4
  <2>5. ASSUME NEW u \in Users, DeleteUser(u), claim'[d] # claim[d]
        PROVE  /\ claim'[d] # NoClaim
               /\ claim'[d].user \in {claim[d].user, Nobody}
               /\ claim[d].retired => claim'[d].retired
    <3>1. claim'[d] = Row(Nobody, claim[d].retired)
      BY <2>5, DeleteUserFacts
    <3>2. claim[d] \in Rows
      BY DEF IInv, Types
    <3>3. Row(Nobody, claim[d].retired) \in Rows /\ Row(Nobody, claim[d].retired).retired = claim[d].retired
      BY <3>2 DEF Rows, Row
    <3> QED
      BY <2>1, <3>1, <3>3, RowFacts
  <2> QED
    BY <2>3, <2>4, <2>5 DEF Next, vars, Flush, ActiveClaims, InsertMissing, ClaimConflict, Rollback
<1> QED
  BY <1>1, <1>2, PTL DEF Spec, NeverReassigned

============================================================================
