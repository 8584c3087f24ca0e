------------------------ MODULE UserSyncQueue_proofs ------------------------
(***************************************************************************)
(* Proofs about the queue of user updates of a node, for any finite set of *)
(* panels and any bounds: one delivery is in flight at a time, and no      *)
(* change is forgotten that the node does not have.                        *)
(***************************************************************************)
EXTENDS UserSyncQueue, FiniteSetTheorems, TLAPS

-----------------------------------------------------------------------------
(* The inductive invariant. *)

\* No version is ahead of the database.
Bounded ==
    /\ node <= db
    /\ \A p \in Panel : worker[p].fresh <= db /\ sync[p].snap <= db

\* A delivery in flight is covered by its claim in the document.
Covered == \A p \in Panel : InFlight(p) => Claimed /\ doc.claim = worker[p].claim

\* Claim ids are not shared, and the revision a worker claimed carries its claim.
Distinct ==
    /\ \A p, q \in Panel : worker[p].claim # 0 /\ worker[p].claim = worker[q].claim => p = q
    /\ \A p \in Panel : DeletedAt(worker[p].rev) => doc.claim = worker[p].claim

\* The captured revision is not claimed.
Untouched == \A p \in Panel : DeletedAt(sync[p].captured) => ~doc.live

\* A snapshot begun since a worker looked at the fence shows in the generation.
Seen ==
    \A p \in Panel :
        /\ worker[p].gen <= fence.gen
        /\ worker[p].step \in {"checked", "claimed", "read", "sent"} /\ fence.live => Crossed(p)

\* A version that is the last one, or the last one is still to be queued.
Current(v) == v = db \/ db \in dispatch \cup missed

\* A worker about to send or to acknowledge the revision it claimed, with no
\* snapshot since it looked at the fence, carries or has sent the last version.
Delivering ==
    \A p \in Panel : DeletedAt(worker[p].rev) =>
        /\ At(p, "read") => Current(worker[p].fresh) \/ Crossed(p)
        /\ At(p, "sent") => Current(node) \/ Crossed(p)
        /\ At(p, "ack") => Current(node)

\* The snapshot of the panel that holds the fence.
Loaded(p) == Holds(p) /\ sync[p].step \in {"loaded", "pushing"}

\* What it lacks is queued, and neither the revision it captured nor one about
\* to be acknowledged is the only trace of it.
Snapshotting ==
    \A p \in Panel :
        /\ Loaded(p) => Current(sync[p].snap) \/ doc # NoDoc
        /\ Loaded(p) /\ DeletedAt(sync[p].captured) => Current(sync[p].snap)
        /\ Holds(p) /\ sync[p].step = "pushed" /\ DeletedAt(sync[p].captured) => Current(node)
        /\ \A q \in Panel :
            Loaded(p) /\ At(q, "ack") /\ DeletedAt(worker[q].rev) => Current(sync[p].snap)

IInv ==
    /\ TypeOK /\ Bounded /\ Covered /\ Distinct /\ Untouched /\ Seen
    /\ Delivering /\ Snapshotting /\ NothingForgotten

-----------------------------------------------------------------------------
(* A fresh revision exists: fewer are remembered than there are. *)

LEMMA ImageBound ==
    ASSUME NEW S, IsFiniteSet(S), NEW f
    PROVE  /\ IsFiniteSet({f[x] : x \in S})
           /\ Cardinality({f[x] : x \in S}) <= Cardinality(S)
<1> DEFINE T == {f[x] : x \in S}
           g == [x \in S |-> f[x]]
<1>1. g \in Surjection(S, T)
  BY DEF Surjection
<1> QED
  BY <1>1, FS_Surjection

LEMMA UnionBound ==
    ASSUME NEW S, NEW T, IsFiniteSet(S), IsFiniteSet(T),
           NEW m \in Nat, NEW n \in Nat, Cardinality(S) <= m, Cardinality(T) <= n
    PROVE  IsFiniteSet(S \cup T) /\ Cardinality(S \cup T) <= m + n
<1>1. /\ IsFiniteSet(S \cup T)
      /\ Cardinality(S \cup T) = Cardinality(S) + Cardinality(T) - Cardinality(S \cap T)
  BY FS_Union
<1>2. IsFiniteSet(S \cap T)
  BY FS_Subset
<1>3. Cardinality(S) \in Nat /\ Cardinality(T) \in Nat /\ Cardinality(S \cap T) \in Nat
  BY <1>2, FS_CardinalityType
<1> QED
  BY <1>1, <1>3

LEMMA PairBound ==
    ASSUME NEW a, NEW b
    PROVE  IsFiniteSet({a, b}) /\ Cardinality({a, b}) <= 2
<1>1. IsFiniteSet({a}) /\ Cardinality({a}) <= 1 /\ IsFiniteSet({b}) /\ Cardinality({b}) <= 1
  BY FS_Singleton
<1>2. IsFiniteSet({a} \cup {b}) /\ Cardinality({a} \cup {b}) <= 1 + 1
  BY <1>1, UnionBound, 1 \in Nat, Zenon
<1>3. {a, b} = {a} \cup {b}
  OBVIOUS
<1> QED
  BY <1>2, <1>3

LEMMA PanelType == Cardinality(Panel) \in Nat
BY QueueAssumption, FS_CardinalityType

LEMMA RememberedFew ==
    IsFiniteSet(Remembered) /\ Cardinality(Remembered) <= 3 * Cardinality(Panel) + 2
<1> DEFINE n == Cardinality(Panel)
           D == IF doc = NoDoc THEN {} ELSE {doc.rev, doc.claim}
           R == {worker[p].rev : p \in Panel}
           C == {worker[p].claim : p \in Panel}
           S == {sync[p].captured : p \in Panel}
<1>1. n \in Nat /\ IsFiniteSet(Panel)
  BY QueueAssumption, PanelType
<1>2. IsFiniteSet(D) /\ Cardinality(D) <= 2
  <2>1. CASE doc = NoDoc
    BY <2>1, FS_EmptySet
  <2>2. CASE doc # NoDoc
    BY <2>2, PairBound
  <2> QED
    BY <2>1, <2>2
<1>3. IsFiniteSet(R) /\ Cardinality(R) <= n
  <2> DEFINE f == [p \in Panel |-> worker[p].rev]
  <2>1. R = {f[p] : p \in Panel}
    OBVIOUS
  <2> HIDE DEF f
  <2> QED
    BY <1>1, <2>1, ImageBound
<1>4. IsFiniteSet(C) /\ Cardinality(C) <= n
  <2> DEFINE f == [p \in Panel |-> worker[p].claim]
  <2>1. C = {f[p] : p \in Panel}
    OBVIOUS
  <2> HIDE DEF f
  <2> QED
    BY <1>1, <2>1, ImageBound
<1>5. IsFiniteSet(S) /\ Cardinality(S) <= n
  <2> DEFINE f == [p \in Panel |-> sync[p].captured]
  <2>1. S = {f[p] : p \in Panel}
    OBVIOUS
  <2> HIDE DEF f
  <2> QED
    BY <1>1, <2>1, ImageBound
<1> HIDE DEF n, D, R, C, S
<1>n. 2 + n \in Nat /\ (2 + n) + n \in Nat
  BY <1>1
<1>6. IsFiniteSet(D \cup R) /\ Cardinality(D \cup R) <= 2 + n
  BY <1>1, <1>2, <1>3, UnionBound
<1>7. IsFiniteSet((D \cup R) \cup C) /\ Cardinality((D \cup R) \cup C) <= (2 + n) + n
  BY <1>1, <1>n, <1>4, <1>6, UnionBound, Zenon
<1>8. /\ IsFiniteSet(((D \cup R) \cup C) \cup S)
      /\ Cardinality(((D \cup R) \cup C) \cup S) <= ((2 + n) + n) + n
  BY <1>1, <1>n, <1>5, <1>7, UnionBound, Zenon
<1>9. Remembered = ((D \cup R) \cup C) \cup S
  BY DEF Remembered, D, R, C, S
<1>10. ((2 + n) + n) + n = 3 * n + 2
  BY <1>1
<1> QED
  BY <1>8, <1>9, <1>10 DEF n

\* A write always finds a revision that nobody remembers.
LEMMA FreshIsFresh == Fresh \in Revisions /\ Fresh \notin Remembered
<1>1. IsFiniteSet(Revisions) /\ Cardinality(Revisions) = 3 * Cardinality(Panel) + 3
  BY PanelType, FS_Interval DEF Revisions
<1>2. ASSUME Revisions \subseteq Remembered PROVE FALSE
  <2>1. Cardinality(Revisions) <= Cardinality(Remembered)
    BY <1>2, RememberedFew, FS_Subset
  <2>2. Cardinality(Remembered) \in Nat
    BY RememberedFew, FS_CardinalityType
  <2> QED
    BY <1>1, <2>1, <2>2, RememberedFew, PanelType
<1>3. \E r \in Revisions : r \notin Remembered
  BY <1>2
<1> QED
  BY <1>3 DEF Fresh

\* What the steps use of it.
LEMMA FreshFacts ==
    /\ Fresh \in Revisions /\ Fresh # 0
    /\ \A p \in Panel : /\ Fresh # worker[p].rev
                        /\ Fresh # worker[p].claim
                        /\ Fresh # sync[p].captured
    /\ doc # NoDoc => Fresh # doc.rev /\ Fresh # doc.claim
<1>1. Fresh # 0
  BY FreshIsFresh, PanelType DEF Revisions
<1>2. \A p \in Panel : /\ worker[p].rev \in Remembered
                       /\ worker[p].claim \in Remembered
                       /\ sync[p].captured \in Remembered
  BY DEF Remembered
<1>3. doc # NoDoc => doc.rev \in Remembered /\ doc.claim \in Remembered
  BY DEF Remembered
<1> QED
  BY <1>1, <1>2, <1>3, FreshIsFresh

-----------------------------------------------------------------------------
(* What the steps have in common. *)

DocType == [rev: Revisions, marker: BOOLEAN, claim: Revisions \cup {0}, live: BOOLEAN]
WorkerType ==
    [step: WorkerSteps, rev: Revisions \cup {0}, claim: Revisions \cup {0},
     gen: 0..MaxSync, fresh: Versions]
SyncType == [step: SyncSteps, flush: BOOLEAN, captured: Revisions \cup {0}, snap: Versions]
FenceType == [gen: 0..MaxSync, holder: Panel \cup {NoDoc}, live: BOOLEAN]

DocOK == doc = NoDoc \/ (doc \in DocType /\ (doc.live => doc.claim # 0))
HistoryOK ==
    /\ db \in Versions /\ node \in Versions
    /\ dispatch \subseteq Versions /\ missed \subseteq Versions
    /\ faults \in 0..MaxFaults

LEMMA Types ==
    TypeOK <=> /\ HistoryOK /\ DocOK
               /\ worker \in [Panel -> WorkerType]
               /\ fence \in FenceType
               /\ sync \in [Panel -> SyncType]
BY DEF TypeOK, HistoryOK, DocOK, DocType, WorkerType, SyncType, FenceType

LEMMA TypesPrime ==
    TypeOK' <=> /\ HistoryOK' /\ DocOK'
                /\ worker' \in [Panel -> WorkerType]
                /\ fence' \in FenceType
                /\ sync' \in [Panel -> SyncType]
BY DEF TypeOK, HistoryOK, DocOK, DocType, WorkerType, SyncType, FenceType

LEMMA NotNoDoc == ASSUME NEW d \in DocType PROVE d # NoDoc
<1>1. Revisions \subseteq Nat /\ 0 \in Nat
  BY PanelType DEF Revisions
<1>2. d \in [rev: Nat, marker: BOOLEAN, claim: Nat, live: BOOLEAN]
  <2>1. /\ d = [rev |-> d.rev, marker |-> d.marker, claim |-> d.claim, live |-> d.live]
        /\ d.rev \in Revisions /\ d.marker \in BOOLEAN /\ d.claim \in Revisions \cup {0} /\ d.live \in BOOLEAN
    BY DEF DocType
  <2>2. d.rev \in Nat /\ d.claim \in Nat
    BY <1>1, <2>1
  <2> QED
    BY <2>1, <2>2
<1> QED
  BY <1>2, QueueAssumption

LEMMA Numbers ==
    ASSUME TypeOK
    PROVE  /\ db \in Nat /\ node \in Nat /\ fence.gen \in Nat
           /\ \A p \in Panel : /\ worker[p].fresh \in Nat
                               /\ worker[p].gen \in Nat
                               /\ sync[p].snap \in Nat
<1>1. \A n \in Versions : n \in Nat
  BY QueueAssumption DEF Versions
<1>2. \A n \in 0..MaxSync : n \in Nat
  BY QueueAssumption
<1>3. ASSUME NEW p \in Panel
      PROVE  worker[p].fresh \in Versions /\ worker[p].gen \in 0..MaxSync /\ sync[p].snap \in Versions
  <2>1. worker[p] \in WorkerType /\ sync[p] \in SyncType
    BY Types
  <2> QED
    BY <2>1 DEF WorkerType, SyncType
<1>4. db \in Versions /\ node \in Versions /\ fence.gen \in 0..MaxSync
  BY Types DEF HistoryOK, FenceType
<1> QED
  BY <1>1, <1>2, <1>3, <1>4

\* Only the worker whose claim is in the document has a delivery in flight.
LEMMA OnlyFlight ==
    ASSUME TypeOK, Covered, Distinct, NEW p \in Panel, NEW q \in Panel, InFlight(q),
           DeletedAt(worker[p].rev) \/ (doc # NoDoc /\ doc.claim = worker[p].claim)
    PROVE  q = p
<1>1. Claimed /\ doc.claim = worker[q].claim
  BY DEF Covered
<1>2. doc.claim = worker[p].claim
  BY DEF Distinct
<1>3. doc.claim # 0
  BY <1>1, Types DEF DocOK, Claimed
<1> QED
  BY <1>1, <1>2, <1>3 DEF Distinct

\* The node applies a version that is not ahead of the database.
LEMMA AppliedFacts ==
    ASSUME NEW v \in Versions, TypeOK, v <= db, Applied(v)
    PROVE  /\ node' = v /\ node' \in Versions
           /\ missed' \subseteq Versions
           /\ v # db /\ db \in missed => db \in missed'
<1>1. v \in Nat /\ db \in Nat
  BY Numbers, QueueAssumption DEF Versions
<1>2. missed \subseteq Versions
  BY Types DEF HistoryOK
<1>3. v # db => db \notin 0..v
  BY <1>1
<1> QED
  BY <1>2, <1>3 DEF Applied

\* The document was written anew, without a claim.
Rewritten ==
    doc' \in DocType /\ doc' # NoDoc /\ doc'.rev = Fresh /\ doc'.claim = 0 /\ doc'.live = FALSE

LEMMA RewrittenBy ==
    ASSUME NEW m \in BOOLEAN, doc' = Unclaimed(m)
    PROVE  Rewritten
<1>1. doc' \in DocType /\ doc'.rev = Fresh /\ doc'.claim = 0 /\ doc'.live = FALSE
  BY FreshFacts DEF Unclaimed, DocType
<1> QED
  BY <1>1, NotNoDoc DEF Rewritten

LEMMA ReleasedFacts ==
    ASSUME TypeOK, NEW p \in Panel, Released(worker[p].claim)
    PROVE  doc' = doc \/ (Rewritten /\ doc # NoDoc /\ doc.claim = worker[p].claim)
<1>1. CASE doc # NoDoc /\ doc.claim = worker[p].claim
  <2>1. doc.marker \in BOOLEAN
    BY <1>1, Types DEF DocOK, DocType
  <2> QED
    BY <1>1, <2>1, RewrittenBy DEF Released
<1>2. CASE ~(doc # NoDoc /\ doc.claim = worker[p].claim)
  BY <1>2 DEF Released
<1> QED
  BY <1>1, <1>2

-----------------------------------------------------------------------------
(* The steps. *)

\* The worker gives up its claim.
Leaves(p) ==
    /\ worker' \in [Panel -> WorkerType]
    /\ \A q \in Panel : q # p => worker'[q] = worker[q]
    /\ worker'[p].step \in {"idle", "unconfirmed"}
    /\ worker'[p].rev = 0 /\ worker'[p].claim = 0 /\ worker'[p].gen = 0 /\ worker'[p].fresh = 0

LEMMA CommitStep ==
    ASSUME IInv, Commit
    PROVE  IInv'
<1>1. TypeOK /\ Bounded /\ Covered /\ Distinct /\ Untouched /\ Seen
      /\ Delivering /\ Snapshotting /\ NothingForgotten
  BY DEF IInv
<1>2. db' = db + 1 /\ dispatch' = dispatch \cup {db + 1} /\ db + 1 \in Versions /\ UNCHANGED <<node, missed, doc, worker, fence, sync, faults>>
  BY <1>1, Types, QueueAssumption, Numbers DEF Commit, TypeOK, Versions
<1>3. TypeOK'
  BY <1>1, <1>2, Types, TypesPrime DEF HistoryOK, DocOK
<1>4. /\ db \in Nat /\ node \in Nat /\ fence.gen \in Nat
      /\ \A q \in Panel : worker[q].fresh \in Nat /\ sync[q].snap \in Nat /\ worker[q].gen \in Nat
      /\ doc # NoDoc => doc.rev # 0
  BY <1>1, Numbers, Types, PanelType DEF DocOK, DocType, Revisions
<1>5. Bounded'
  BY <1>1, <1>2, <1>4 DEF Bounded
<1>6. Covered'
  BY <1>1, <1>2, <1>4 DEF Covered, Claimed, InFlight, At
<1>7. Distinct'
  BY <1>1, <1>2, <1>4 DEF Distinct, DeletedAt
<1>8. Untouched'
  BY <1>1, <1>2, <1>4 DEF Untouched, DeletedAt
<1>9. Seen'
  BY <1>1, <1>2, <1>4 DEF Seen, Crossed, At
<1>10. Delivering'
  BY <1>1, <1>2, <1>4 DEF Delivering, DeletedAt, At, Crossed, Current
<1>11. Snapshotting'
  BY <1>1, <1>2, <1>4 DEF Snapshotting, Delivering, Loaded, Holds, DeletedAt, At, Current
<1>12. NothingForgotten'
  BY <1>1, <1>2, <1>4 DEF NothingForgotten
<1> QED
  BY <1>3, <1>5, <1>6, <1>7, <1>8, <1>9, <1>10, <1>11, <1>12 DEF IInv

LEMMA EnqueueStep ==
    ASSUME IInv, NEW v \in dispatch, Enqueue(v)
    PROVE  IInv'
<1>1. TypeOK /\ Bounded /\ Covered /\ Distinct /\ Untouched /\ Seen
      /\ Delivering /\ Snapshotting /\ NothingForgotten
  BY DEF IInv
<1>2. dispatch' = dispatch \ {v} /\ UNCHANGED <<db, node, missed, worker, fence, sync, faults>>
  BY <1>1, Types DEF Enqueue, TypeOK
<1>3. /\ doc' \in DocType /\ doc' # NoDoc /\ doc'.rev = Fresh /\ doc'.live = Claimed
      /\ doc'.claim = IF Claimed THEN doc.claim ELSE 0
      /\ Claimed => doc.claim # 0
  <2>1. Claimed => doc.claim \in Revisions /\ doc.claim # 0
    BY <1>1, Types DEF DocOK, DocType, Claimed
  <2>2. Claimed \in BOOLEAN
    BY <1>1, Types DEF DocOK, DocType, Claimed
  <2>3. /\ doc' \in DocType /\ doc'.rev = Fresh /\ doc'.live = Claimed
        /\ doc'.claim = IF Claimed THEN doc.claim ELSE 0
    BY <2>1, <2>2, FreshFacts DEF Enqueue, Enqueued, DocType
  <2> QED
    BY <2>1, <2>3, NotNoDoc
<1>4. TypeOK'
  BY <1>1, <1>2, <1>3, FreshFacts, Types, TypesPrime DEF HistoryOK, DocOK
<1>5. /\ db \in Nat /\ node \in Nat /\ fence.gen \in Nat
      /\ \A q \in Panel : worker[q].fresh \in Nat /\ sync[q].snap \in Nat /\ worker[q].gen \in Nat
      /\ doc # NoDoc => doc.rev # 0
  BY <1>1, Numbers, Types, PanelType DEF DocOK, DocType, Revisions
<1>6. Bounded'
  BY <1>1, <1>2, <1>3, <1>5, FreshFacts DEF Bounded
<1>7. Covered'
  BY <1>1, <1>2, <1>3, <1>5, FreshFacts DEF Covered, Claimed, InFlight, At
<1>8. Distinct'
  BY <1>1, <1>2, <1>3, <1>5, FreshFacts DEF Distinct, DeletedAt
<1>9. Untouched'
  BY <1>1, <1>2, <1>3, <1>5, FreshFacts DEF Untouched, DeletedAt
<1>10. Seen'
  BY <1>1, <1>2, <1>3, <1>5, FreshFacts DEF Seen, Crossed, At
<1>11. Delivering'
  BY <1>1, <1>2, <1>3, <1>5, FreshFacts DEF Delivering, DeletedAt, At, Crossed, Current
<1>12. Snapshotting'
  BY <1>1, <1>2, <1>3, <1>5, FreshFacts DEF Snapshotting, Delivering, Loaded, Holds, DeletedAt, At, Current
<1>13. NothingForgotten'
  BY <1>1, <1>2, <1>3, <1>5, FreshFacts DEF NothingForgotten
<1> QED
  BY <1>4, <1>6, <1>7, <1>8, <1>9, <1>10, <1>11, <1>12, <1>13 DEF IInv

LEMMA EnqueueFailsStep ==
    ASSUME IInv, NEW v \in dispatch, EnqueueFails(v)
    PROVE  IInv'
<1>1. TypeOK /\ Bounded /\ Covered /\ Distinct /\ Untouched /\ Seen
      /\ Delivering /\ Snapshotting /\ NothingForgotten
  BY DEF IInv
<1>2. dispatch' = dispatch \ {v} /\ missed' = missed \cup {v} /\ v \in Versions /\ faults' \in 0..MaxFaults /\ UNCHANGED <<db, node, doc, worker, fence, sync>>
  BY <1>1, Types, QueueAssumption DEF EnqueueFails, TypeOK, Fault, HistoryOK
<1>3. TypeOK'
  BY <1>1, <1>2, Types, TypesPrime DEF HistoryOK, DocOK
<1>4. /\ db \in Nat /\ node \in Nat /\ fence.gen \in Nat
      /\ \A q \in Panel : worker[q].fresh \in Nat /\ sync[q].snap \in Nat /\ worker[q].gen \in Nat
      /\ doc # NoDoc => doc.rev # 0
  BY <1>1, Numbers, Types, PanelType DEF DocOK, DocType, Revisions
<1>5. Bounded'
  BY <1>1, <1>2, <1>4 DEF Bounded
<1>6. Covered'
  BY <1>1, <1>2, <1>4 DEF Covered, Claimed, InFlight, At
<1>7. Distinct'
  BY <1>1, <1>2, <1>4 DEF Distinct, DeletedAt
<1>8. Untouched'
  BY <1>1, <1>2, <1>4 DEF Untouched, DeletedAt
<1>9. Seen'
  BY <1>1, <1>2, <1>4 DEF Seen, Crossed, At
<1>10. Delivering'
  BY <1>1, <1>2, <1>4 DEF Delivering, DeletedAt, At, Crossed, Current
<1>11. Snapshotting'
  BY <1>1, <1>2, <1>4 DEF Snapshotting, Delivering, Loaded, Holds, DeletedAt, At, Current
<1>12. NothingForgotten'
  BY <1>1, <1>2, <1>4 DEF NothingForgotten
<1> QED
  BY <1>3, <1>5, <1>6, <1>7, <1>8, <1>9, <1>10, <1>11, <1>12 DEF IInv

LEMMA CheckFenceStep ==
    ASSUME IInv, NEW p \in Panel, CheckFence(p)
    PROVE  IInv'
<1>1. TypeOK /\ Bounded /\ Covered /\ Distinct /\ Untouched /\ Seen
      /\ Delivering /\ Snapshotting /\ NothingForgotten
  BY DEF IInv
<1>2. ~fence.live /\ UNCHANGED <<db, node, dispatch, missed, doc, fence, sync, faults>>
  BY <1>1, Types DEF CheckFence, TypeOK
<1>3. /\ worker' \in [Panel -> WorkerType]
      /\ \A q \in Panel : q # p => worker'[q] = worker[q]
      /\ worker'[p].step = "checked"
      /\ worker'[p].rev = 0
      /\ worker'[p].claim = 0
      /\ worker'[p].gen = fence.gen
      /\ worker'[p].fresh = 0
  <2>1. /\ worker \in [Panel -> WorkerType] /\ worker[p] \in WorkerType /\ db \in Versions
        /\ fence.gen \in 0..MaxSync /\ 0 \in 0..MaxSync /\ 0 \in Versions
    BY <1>1, Types, QueueAssumption DEF HistoryOK, FenceType, Versions
  <2> QED
    BY <2>1 DEF CheckFence, NoWork, WorkerType, WorkerSteps
<1>4. TypeOK'
  BY <1>1, <1>2, <1>3, Types, TypesPrime DEF HistoryOK, DocOK
<1>5. /\ db \in Nat /\ node \in Nat /\ fence.gen \in Nat
      /\ \A q \in Panel : worker[q].fresh \in Nat /\ sync[q].snap \in Nat /\ worker[q].gen \in Nat
      /\ doc # NoDoc => doc.rev # 0
  BY <1>1, Numbers, Types, PanelType DEF DocOK, DocType, Revisions
<1>6. Bounded'
  BY <1>1, <1>2, <1>3, <1>5 DEF Bounded
<1>7. Covered'
  BY <1>1, <1>2, <1>3, <1>5 DEF Covered, Claimed, InFlight, At
<1>8. Distinct'
  BY <1>1, <1>2, <1>3, <1>5 DEF Distinct, DeletedAt
<1>9. Untouched'
  BY <1>1, <1>2, <1>3, <1>5 DEF Untouched, DeletedAt
<1>10. Seen'
  BY <1>1, <1>2, <1>3, <1>5 DEF Seen, Crossed, At
<1>11. Delivering'
  BY <1>1, <1>2, <1>3, <1>5 DEF Delivering, DeletedAt, At, Crossed, Current
<1>12. Snapshotting'
  BY <1>1, <1>2, <1>3, <1>5 DEF Snapshotting, Delivering, Loaded, Holds, DeletedAt, At, Current
<1>13. NothingForgotten'
  BY <1>1, <1>2, <1>3, <1>5 DEF NothingForgotten
<1> QED
  BY <1>4, <1>6, <1>7, <1>8, <1>9, <1>10, <1>11, <1>12, <1>13 DEF IInv

LEMMA ClaimStep ==
    ASSUME IInv, NEW p \in Panel, Claim(p)
    PROVE  IInv'
<1>1. TypeOK /\ Bounded /\ Covered /\ Distinct /\ Untouched /\ Seen
      /\ Delivering /\ Snapshotting /\ NothingForgotten
  BY DEF IInv
<1>2. At(p, "checked") /\ doc # NoDoc /\ ~doc.live /\ UNCHANGED <<db, node, dispatch, missed, fence, sync, faults>>
  BY <1>1, Types DEF Claim, TypeOK, Claimable
<1>3. /\ worker' \in [Panel -> WorkerType]
      /\ \A q \in Panel : q # p => worker'[q] = worker[q]
      /\ worker'[p].step = "claimed"
      /\ worker'[p].rev = Fresh
      /\ worker'[p].claim = Fresh
      /\ worker'[p].gen = worker[p].gen
      /\ worker'[p].fresh = worker[p].fresh
  <2>1. /\ worker \in [Panel -> WorkerType] /\ worker[p] \in WorkerType /\ db \in Versions
        /\ fence.gen \in 0..MaxSync /\ 0 \in 0..MaxSync /\ 0 \in Versions
    BY <1>1, Types, QueueAssumption DEF HistoryOK, FenceType, Versions
  <2> QED
    BY <2>1, FreshFacts DEF Claim, WorkerType, WorkerSteps
<1>4. doc' \in DocType /\ doc' # NoDoc /\ doc'.rev = Fresh /\ doc'.claim = Fresh /\ doc'.live = TRUE
  <2>1. doc' \in DocType /\ doc'.rev = Fresh /\ doc'.claim = Fresh /\ doc'.live = TRUE
    BY FreshFacts DEF Claim, DocType
  <2> QED
    BY <2>1, NotNoDoc
<1>5. TypeOK'
  BY <1>1, <1>2, <1>3, <1>4, FreshFacts, Types, TypesPrime DEF HistoryOK, DocOK
<1>6. /\ db \in Nat /\ node \in Nat /\ fence.gen \in Nat
      /\ \A q \in Panel : worker[q].fresh \in Nat /\ sync[q].snap \in Nat /\ worker[q].gen \in Nat
      /\ doc # NoDoc => doc.rev # 0
  BY <1>1, Numbers, Types, PanelType DEF DocOK, DocType, Revisions
<1>7. Bounded'
  BY <1>1, <1>2, <1>3, <1>4, <1>6, FreshFacts DEF Bounded
<1>8. Covered'
  BY <1>1, <1>2, <1>3, <1>4, <1>6, FreshFacts DEF Covered, Claimed, InFlight, At
<1>9. Distinct'
  BY <1>1, <1>2, <1>3, <1>4, <1>6, FreshFacts DEF Distinct, DeletedAt
<1>10. Untouched'
  BY <1>1, <1>2, <1>3, <1>4, <1>6, FreshFacts DEF Untouched, DeletedAt
<1>11. Seen'
  BY <1>1, <1>2, <1>3, <1>4, <1>6, FreshFacts DEF Seen, Crossed, At
<1>12. Delivering'
  BY <1>1, <1>2, <1>3, <1>4, <1>6, FreshFacts DEF Delivering, DeletedAt, At, Crossed, Current
<1>13. Snapshotting'
  BY <1>1, <1>2, <1>3, <1>4, <1>6, FreshFacts DEF Snapshotting, Delivering, Loaded, Holds, DeletedAt, At, Current
<1>14. NothingForgotten'
  BY <1>1, <1>2, <1>3, <1>4, <1>6, FreshFacts DEF NothingForgotten
<1> QED
  BY <1>5, <1>7, <1>8, <1>9, <1>10, <1>11, <1>12, <1>13, <1>14 DEF IInv

LEMMA NothingToClaimStep ==
    ASSUME IInv, NEW p \in Panel, NothingToClaim(p)
    PROVE  IInv'
<1>1. TypeOK /\ Bounded /\ Covered /\ Distinct /\ Untouched /\ Seen
      /\ Delivering /\ Snapshotting /\ NothingForgotten
  BY DEF IInv
<1>2. UNCHANGED <<db, node, dispatch, missed, doc, fence, sync, faults>>
  BY <1>1, Types DEF NothingToClaim, TypeOK
<1>3. /\ worker' \in [Panel -> WorkerType]
      /\ \A q \in Panel : q # p => worker'[q] = worker[q]
      /\ worker'[p].step = "idle"
      /\ worker'[p].rev = 0
      /\ worker'[p].claim = 0
      /\ worker'[p].gen = 0
      /\ worker'[p].fresh = 0
  <2>1. /\ worker \in [Panel -> WorkerType] /\ worker[p] \in WorkerType /\ db \in Versions
        /\ fence.gen \in 0..MaxSync /\ 0 \in 0..MaxSync /\ 0 \in Versions
    BY <1>1, Types, QueueAssumption DEF HistoryOK, FenceType, Versions
  <2> QED
    BY <2>1 DEF NothingToClaim, Done, NoWork, WorkerType, WorkerSteps
<1>4. TypeOK'
  BY <1>1, <1>2, <1>3, Types, TypesPrime DEF HistoryOK, DocOK
<1>5. /\ db \in Nat /\ node \in Nat /\ fence.gen \in Nat
      /\ \A q \in Panel : worker[q].fresh \in Nat /\ sync[q].snap \in Nat /\ worker[q].gen \in Nat
      /\ doc # NoDoc => doc.rev # 0
  BY <1>1, Numbers, Types, PanelType DEF DocOK, DocType, Revisions
<1>6. Bounded'
  BY <1>1, <1>2, <1>3, <1>5 DEF Bounded
<1>7. Covered'
  BY <1>1, <1>2, <1>3, <1>5 DEF Covered, Claimed, InFlight, At
<1>8. Distinct'
  BY <1>1, <1>2, <1>3, <1>5 DEF Distinct, DeletedAt
<1>9. Untouched'
  BY <1>1, <1>2, <1>3, <1>5 DEF Untouched, DeletedAt
<1>10. Seen'
  BY <1>1, <1>2, <1>3, <1>5 DEF Seen, Crossed, At
<1>11. Delivering'
  BY <1>1, <1>2, <1>3, <1>5 DEF Delivering, DeletedAt, At, Crossed, Current
<1>12. Snapshotting'
  BY <1>1, <1>2, <1>3, <1>5 DEF Snapshotting, Delivering, Loaded, Holds, DeletedAt, At, Current
<1>13. NothingForgotten'
  BY <1>1, <1>2, <1>3, <1>5 DEF NothingForgotten
<1> QED
  BY <1>4, <1>6, <1>7, <1>8, <1>9, <1>10, <1>11, <1>12, <1>13 DEF IInv

LEMMA ReadStateStep ==
    ASSUME IInv, NEW p \in Panel, ReadState(p)
    PROVE  IInv'
<1>1. TypeOK /\ Bounded /\ Covered /\ Distinct /\ Untouched /\ Seen
      /\ Delivering /\ Snapshotting /\ NothingForgotten
  BY DEF IInv
<1>2. At(p, "claimed") /\ UNCHANGED <<db, node, dispatch, missed, doc, fence, sync, faults>>
  BY <1>1, Types DEF ReadState, TypeOK
<1>3. /\ worker' \in [Panel -> WorkerType]
      /\ \A q \in Panel : q # p => worker'[q] = worker[q]
      /\ worker'[p].step = "read"
      /\ worker'[p].rev = worker[p].rev
      /\ worker'[p].claim = worker[p].claim
      /\ worker'[p].gen = worker[p].gen
      /\ worker'[p].fresh = db
  <2>1. /\ worker \in [Panel -> WorkerType] /\ worker[p] \in WorkerType /\ db \in Versions
        /\ fence.gen \in 0..MaxSync /\ 0 \in 0..MaxSync /\ 0 \in Versions
    BY <1>1, Types, QueueAssumption DEF HistoryOK, FenceType, Versions
  <2> QED
    BY <2>1 DEF ReadState, WorkerType, WorkerSteps
<1>4. TypeOK'
  BY <1>1, <1>2, <1>3, Types, TypesPrime DEF HistoryOK, DocOK
<1>5. /\ db \in Nat /\ node \in Nat /\ fence.gen \in Nat
      /\ \A q \in Panel : worker[q].fresh \in Nat /\ sync[q].snap \in Nat /\ worker[q].gen \in Nat
      /\ doc # NoDoc => doc.rev # 0
  BY <1>1, Numbers, Types, PanelType DEF DocOK, DocType, Revisions
<1>6. Bounded'
  BY <1>1, <1>2, <1>3, <1>5 DEF Bounded
<1>7. Covered'
  BY <1>1, <1>2, <1>3, <1>5 DEF Covered, Claimed, InFlight, At
<1>8. Distinct'
  BY <1>1, <1>2, <1>3, <1>5 DEF Distinct, DeletedAt
<1>9. Untouched'
  BY <1>1, <1>2, <1>3, <1>5 DEF Untouched, DeletedAt
<1>10. Seen'
  BY <1>1, <1>2, <1>3, <1>5 DEF Seen, Crossed, At
<1>11. Delivering'
  BY <1>1, <1>2, <1>3, <1>5 DEF Delivering, DeletedAt, At, Crossed, Current
<1>12. Snapshotting'
  BY <1>1, <1>2, <1>3, <1>5 DEF Snapshotting, Delivering, Loaded, Holds, DeletedAt, At, Current
<1>13. NothingForgotten'
  BY <1>1, <1>2, <1>3, <1>5 DEF NothingForgotten
<1> QED
  BY <1>4, <1>6, <1>7, <1>8, <1>9, <1>10, <1>11, <1>12, <1>13 DEF IInv

LEMMA SendStep ==
    ASSUME IInv, NEW p \in Panel, Send(p)
    PROVE  IInv'
<1>1. TypeOK /\ Bounded /\ Covered /\ Distinct /\ Untouched /\ Seen
      /\ Delivering /\ Snapshotting /\ NothingForgotten
  BY DEF IInv
<1>2. At(p, "read") /\ UNCHANGED <<db, dispatch, doc, fence, sync, faults>>
  BY <1>1, Types DEF Send, TypeOK
<1>3. /\ worker' \in [Panel -> WorkerType]
      /\ \A q \in Panel : q # p => worker'[q] = worker[q]
      /\ worker'[p].step = "sent"
      /\ worker'[p].rev = worker[p].rev
      /\ worker'[p].claim = worker[p].claim
      /\ worker'[p].gen = worker[p].gen
      /\ worker'[p].fresh = 0
  <2>1. /\ worker \in [Panel -> WorkerType] /\ worker[p] \in WorkerType /\ db \in Versions
        /\ fence.gen \in 0..MaxSync /\ 0 \in 0..MaxSync /\ 0 \in Versions
    BY <1>1, Types, QueueAssumption DEF HistoryOK, FenceType, Versions
  <2> QED
    BY <2>1 DEF Send, WorkerType, WorkerSteps
<1>4. doc # NoDoc /\ doc.live /\ doc.claim = worker[p].claim /\ doc.claim # 0
  BY <1>1, <1>2, Types DEF Covered, InFlight, At, Claimed, DocOK
<1>5. /\ node' = worker[p].fresh /\ node' \in Versions /\ missed' \subseteq Versions
      /\ worker[p].fresh # db /\ db \in missed => db \in missed'
  <2>1. worker[p].fresh \in Versions /\ worker[p].fresh <= db
    BY <1>1, Types DEF WorkerType, Bounded
  <2> QED
    BY <1>1, <2>1, AppliedFacts DEF Send
<1>6. TypeOK'
  BY <1>1, <1>2, <1>3, <1>4, <1>5, Types, TypesPrime DEF HistoryOK, DocOK
<1>7. /\ db \in Nat /\ node \in Nat /\ fence.gen \in Nat
      /\ \A q \in Panel : worker[q].fresh \in Nat /\ sync[q].snap \in Nat /\ worker[q].gen \in Nat
      /\ doc # NoDoc => doc.rev # 0
  BY <1>1, Numbers, Types, PanelType DEF DocOK, DocType, Revisions
<1>8. Bounded'
  BY <1>1, <1>2, <1>3, <1>4, <1>5, <1>7 DEF Bounded
<1>9. Covered'
  BY <1>1, <1>2, <1>3, <1>4, <1>5, <1>7 DEF Covered, Claimed, InFlight, At
<1>10. Distinct'
  BY <1>1, <1>2, <1>3, <1>4, <1>5, <1>7 DEF Distinct, DeletedAt
<1>11. Untouched'
  BY <1>1, <1>2, <1>3, <1>4, <1>5, <1>7 DEF Untouched, DeletedAt
<1>12. Seen'
  BY <1>1, <1>2, <1>3, <1>4, <1>5, <1>7 DEF Seen, Crossed, At
<1>13. Delivering'
  BY <1>1, <1>2, <1>3, <1>4, <1>5, <1>7 DEF Delivering, DeletedAt, At, Crossed, Current, Distinct
<1>14. Snapshotting'
  BY <1>1, <1>2, <1>3, <1>4, <1>5, <1>7 DEF Snapshotting, Delivering, Loaded, Holds, DeletedAt, At, Current, Distinct, Untouched
<1>15. NothingForgotten'
  BY <1>1, <1>2, <1>3, <1>4, <1>5, <1>7 DEF NothingForgotten
<1> QED
  BY <1>6, <1>8, <1>9, <1>10, <1>11, <1>12, <1>13, <1>14, <1>15 DEF IInv

LEMMA SendFailsStep ==
    ASSUME IInv, NEW p \in Panel, SendFails(p)
    PROVE  IInv'
<1>1. TypeOK /\ Bounded /\ Covered /\ Distinct /\ Untouched /\ Seen
      /\ Delivering /\ Snapshotting /\ NothingForgotten
  BY DEF IInv
<1>2. (At(p, "claimed") \/ At(p, "read")) /\ faults' \in 0..MaxFaults /\ UNCHANGED <<db, dispatch, doc, fence, sync>>
  BY <1>1, Types, QueueAssumption DEF SendFails, TypeOK, Fault, HistoryOK
<1>3. /\ worker' \in [Panel -> WorkerType]
      /\ \A q \in Panel : q # p => worker'[q] = worker[q]
      /\ worker'[p].step = "failed"
      /\ worker'[p].rev = worker[p].rev
      /\ worker'[p].claim = worker[p].claim
      /\ worker'[p].gen = 0
      /\ worker'[p].fresh = 0
  <2>1. /\ worker \in [Panel -> WorkerType] /\ worker[p] \in WorkerType /\ db \in Versions
        /\ fence.gen \in 0..MaxSync /\ 0 \in 0..MaxSync /\ 0 \in Versions
    BY <1>1, Types, QueueAssumption DEF HistoryOK, FenceType, Versions
  <2> QED
    BY <2>1 DEF SendFails, WorkerType, WorkerSteps
<1>4. doc # NoDoc /\ doc.live /\ doc.claim = worker[p].claim /\ doc.claim # 0
  BY <1>1, <1>2, Types DEF Covered, InFlight, At, Claimed, DocOK
<1>5. \/ UNCHANGED <<node, missed>>
      \/ /\ node' = worker[p].fresh /\ node' \in Versions /\ missed' \subseteq Versions
         /\ worker[p].fresh # db /\ db \in missed => db \in missed'
  <2>1. worker[p].fresh \in Versions /\ worker[p].fresh <= db
    BY <1>1, Types DEF WorkerType, Bounded
  <2>2. CASE Applied(worker[p].fresh)
    BY <1>1, <2>1, <2>2, AppliedFacts
  <2> QED
    BY <2>2 DEF SendFails
<1>6. node' \in Versions /\ missed' \subseteq Versions /\ node' <= db
  BY <1>1, <1>5, Types DEF HistoryOK, Bounded
<1>7. TypeOK'
  BY <1>1, <1>2, <1>3, <1>4, <1>5, <1>6, Types, TypesPrime DEF HistoryOK, DocOK
<1>8. /\ db \in Nat /\ node \in Nat /\ fence.gen \in Nat
      /\ \A q \in Panel : worker[q].fresh \in Nat /\ sync[q].snap \in Nat /\ worker[q].gen \in Nat
      /\ doc # NoDoc => doc.rev # 0
  BY <1>1, Numbers, Types, PanelType DEF DocOK, DocType, Revisions
<1>9. Bounded'
  BY <1>1, <1>2, <1>3, <1>4, <1>5, <1>6, <1>8 DEF Bounded
<1>10. Covered'
  BY <1>1, <1>2, <1>3, <1>4, <1>5, <1>6, <1>8 DEF Covered, Claimed, InFlight, At
<1>11. Distinct'
  BY <1>1, <1>2, <1>3, <1>4, <1>5, <1>6, <1>8 DEF Distinct, DeletedAt
<1>12. Untouched'
  BY <1>1, <1>2, <1>3, <1>4, <1>5, <1>6, <1>8 DEF Untouched, DeletedAt
<1>13. Seen'
  BY <1>1, <1>2, <1>3, <1>4, <1>5, <1>6, <1>8 DEF Seen, Crossed, At
<1>14. Delivering'
  BY <1>1, <1>2, <1>3, <1>4, <1>5, <1>6, <1>8 DEF Delivering, DeletedAt, At, Crossed, Current, Distinct
<1>15. Snapshotting'
  BY <1>1, <1>2, <1>3, <1>4, <1>5, <1>6, <1>8 DEF Snapshotting, Delivering, Loaded, Holds, DeletedAt, At, Current, Distinct, Untouched
<1>16. NothingForgotten'
  BY <1>1, <1>2, <1>3, <1>4, <1>5, <1>6, <1>8 DEF NothingForgotten
<1> QED
  BY <1>7, <1>9, <1>10, <1>11, <1>12, <1>13, <1>14, <1>15, <1>16 DEF IInv

LEMMA CompareGenerationStep ==
    ASSUME IInv, NEW p \in Panel, CompareGeneration(p)
    PROVE  IInv'
<1>1. TypeOK /\ Bounded /\ Covered /\ Distinct /\ Untouched /\ Seen
      /\ Delivering /\ Snapshotting /\ NothingForgotten
  BY DEF IInv
<1>2. At(p, "sent") /\ UNCHANGED <<db, node, dispatch, missed, doc, fence, sync, faults>>
  BY <1>1, Types DEF CompareGeneration, TypeOK
<1>3. /\ worker' \in [Panel -> WorkerType]
      /\ \A q \in Panel : q # p => worker'[q] = worker[q]
      /\ worker'[p].step = (IF Crossed(p) THEN "refresh" ELSE "ack")
      /\ worker'[p].rev = worker[p].rev
      /\ worker'[p].claim = worker[p].claim
      /\ worker'[p].gen = 0
      /\ worker'[p].fresh = worker[p].fresh
  <2>1. /\ worker \in [Panel -> WorkerType] /\ worker[p] \in WorkerType /\ db \in Versions
        /\ fence.gen \in 0..MaxSync /\ 0 \in 0..MaxSync /\ 0 \in Versions
    BY <1>1, Types, QueueAssumption DEF HistoryOK, FenceType, Versions
  <2> QED
    BY <2>1 DEF CompareGeneration, WorkerType, WorkerSteps
<1>4. TypeOK'
  BY <1>1, <1>2, <1>3, Types, TypesPrime DEF HistoryOK, DocOK
<1>5. /\ db \in Nat /\ node \in Nat /\ fence.gen \in Nat
      /\ \A q \in Panel : worker[q].fresh \in Nat /\ sync[q].snap \in Nat /\ worker[q].gen \in Nat
      /\ doc # NoDoc => doc.rev # 0
  BY <1>1, Numbers, Types, PanelType DEF DocOK, DocType, Revisions
<1>6. Bounded'
  BY <1>1, <1>2, <1>3, <1>5 DEF Bounded
<1>7. Covered'
  BY <1>1, <1>2, <1>3, <1>5 DEF Covered, Claimed, InFlight, At
<1>8. Distinct'
  BY <1>1, <1>2, <1>3, <1>5 DEF Distinct, DeletedAt
<1>9. Untouched'
  BY <1>1, <1>2, <1>3, <1>5 DEF Untouched, DeletedAt
<1>10. Seen'
  BY <1>1, <1>2, <1>3, <1>5 DEF Seen, Crossed, At
<1>11. Delivering'
  BY <1>1, <1>2, <1>3, <1>5 DEF Delivering, DeletedAt, At, Crossed, Current
<1>12. Snapshotting'
  BY <1>1, <1>2, <1>3, <1>5 DEF Snapshotting, Delivering, Loaded, Holds, DeletedAt, At, Current, Seen, Crossed
<1>13. NothingForgotten'
  BY <1>1, <1>2, <1>3, <1>5 DEF NothingForgotten
<1> QED
  BY <1>4, <1>6, <1>7, <1>8, <1>9, <1>10, <1>11, <1>12, <1>13 DEF IInv

\* The worker is done and the document stays.
LEMMA LeavesSame ==
    ASSUME IInv, NEW p \in Panel, Leaves(p), UNCHANGED <<db, node, dispatch, missed, fence, sync>>, faults' \in 0..MaxFaults, doc' = doc
    PROVE  IInv'
<1>1. TypeOK /\ Bounded /\ Covered /\ Distinct /\ Untouched /\ Seen
      /\ Delivering /\ Snapshotting /\ NothingForgotten
  BY DEF IInv
<1>2. UNCHANGED <<db, node, dispatch, missed, fence, sync>> /\ faults' \in 0..MaxFaults /\ doc' = doc
  OBVIOUS
<1>3. /\ worker' \in [Panel -> WorkerType]
      /\ \A q \in Panel : q # p => worker'[q] = worker[q]
      /\ worker'[p].step \in {"idle", "unconfirmed"}
      /\ worker'[p].rev = 0 /\ worker'[p].claim = 0 /\ worker'[p].gen = 0 /\ worker'[p].fresh = 0
  BY DEF Leaves
<1>4. TypeOK'
  BY <1>1, <1>2, <1>3, Types, TypesPrime DEF HistoryOK, DocOK, Rewritten
<1>5. /\ db \in Nat /\ node \in Nat /\ fence.gen \in Nat
      /\ \A q \in Panel : worker[q].fresh \in Nat /\ sync[q].snap \in Nat /\ worker[q].gen \in Nat
      /\ doc # NoDoc => doc.rev # 0
  BY <1>1, Numbers, Types, PanelType DEF DocOK, DocType, Revisions
<1>6. Bounded'
  BY <1>1, <1>2, <1>3, <1>5 DEF Bounded
<1>7. Covered'
  BY <1>1, <1>2, <1>3, <1>5 DEF Covered, Claimed, InFlight, At
<1>8. Distinct'
  BY <1>1, <1>2, <1>3, <1>5 DEF Distinct, DeletedAt
<1>9. Untouched'
  BY <1>1, <1>2, <1>3, <1>5 DEF Untouched, DeletedAt
<1>10. Seen'
  BY <1>1, <1>2, <1>3, <1>5 DEF Seen, Crossed, At
<1>11. Delivering'
  BY <1>1, <1>2, <1>3, <1>5 DEF Delivering, DeletedAt, At, Crossed, Current
<1>12. Snapshotting'
  BY <1>1, <1>2, <1>3, <1>5 DEF Snapshotting, Delivering, Loaded, Holds, DeletedAt, At, Current
<1>13. NothingForgotten'
  BY <1>1, <1>2, <1>3, <1>5 DEF NothingForgotten
<1> QED
  BY <1>4, <1>6, <1>7, <1>8, <1>9, <1>10, <1>11, <1>12, <1>13 DEF IInv

\* The worker is done and the document is written anew.
LEMMA LeavesRewritten ==
    ASSUME IInv, NEW p \in Panel, Leaves(p), UNCHANGED <<db, node, dispatch, missed, fence, sync>>, faults' \in 0..MaxFaults, Rewritten, \A q \in Panel : q # p => ~InFlight(q)
    PROVE  IInv'
<1>1. TypeOK /\ Bounded /\ Covered /\ Distinct /\ Untouched /\ Seen
      /\ Delivering /\ Snapshotting /\ NothingForgotten
  BY DEF IInv
<1>2. UNCHANGED <<db, node, dispatch, missed, fence, sync>> /\ faults' \in 0..MaxFaults /\ Rewritten /\ \A q \in Panel : q # p => ~InFlight(q)
  OBVIOUS
<1>3. /\ worker' \in [Panel -> WorkerType]
      /\ \A q \in Panel : q # p => worker'[q] = worker[q]
      /\ worker'[p].step \in {"idle", "unconfirmed"}
      /\ worker'[p].rev = 0 /\ worker'[p].claim = 0 /\ worker'[p].gen = 0 /\ worker'[p].fresh = 0
  BY DEF Leaves
<1>4. TypeOK'
  BY <1>1, <1>2, <1>3, FreshFacts, Types, TypesPrime DEF HistoryOK, DocOK, Rewritten
<1>5. /\ db \in Nat /\ node \in Nat /\ fence.gen \in Nat
      /\ \A q \in Panel : worker[q].fresh \in Nat /\ sync[q].snap \in Nat /\ worker[q].gen \in Nat
      /\ doc # NoDoc => doc.rev # 0
  BY <1>1, Numbers, Types, PanelType DEF DocOK, DocType, Revisions
<1>6. Bounded'
  BY <1>1, <1>2, <1>3, <1>5, FreshFacts DEF Bounded, Rewritten
<1>7. Covered'
  BY <1>1, <1>2, <1>3, <1>5, FreshFacts DEF Covered, Claimed, InFlight, At, Rewritten
<1>8. Distinct'
  BY <1>1, <1>2, <1>3, <1>5, FreshFacts DEF Distinct, DeletedAt, Rewritten
<1>9. Untouched'
  BY <1>1, <1>2, <1>3, <1>5, FreshFacts DEF Untouched, DeletedAt, Rewritten
<1>10. Seen'
  BY <1>1, <1>2, <1>3, <1>5, FreshFacts DEF Seen, Crossed, At, Rewritten
<1>11. Delivering'
  BY <1>1, <1>2, <1>3, <1>5, FreshFacts DEF Delivering, DeletedAt, At, Crossed, Current, Rewritten
<1>12. Snapshotting'
  BY <1>1, <1>2, <1>3, <1>5, FreshFacts DEF Snapshotting, Delivering, Loaded, Holds, DeletedAt, At, Current, Rewritten
<1>13. NothingForgotten'
  BY <1>1, <1>2, <1>3, <1>5, FreshFacts DEF NothingForgotten, Rewritten
<1> QED
  BY <1>4, <1>6, <1>7, <1>8, <1>9, <1>10, <1>11, <1>12, <1>13 DEF IInv

\* The worker is done and the document goes.
LEMMA LeavesDeleted ==
    ASSUME IInv, NEW p \in Panel, Leaves(p), UNCHANGED <<db, node, dispatch, missed, fence, sync>>, faults' \in 0..MaxFaults, doc' = NoDoc, At(p, "ack"), DeletedAt(worker[p].rev)
    PROVE  IInv'
<1>1. TypeOK /\ Bounded /\ Covered /\ Distinct /\ Untouched /\ Seen
      /\ Delivering /\ Snapshotting /\ NothingForgotten
  BY DEF IInv
<1>2. UNCHANGED <<db, node, dispatch, missed, fence, sync>> /\ faults' \in 0..MaxFaults /\ doc' = NoDoc /\ At(p, "ack") /\ DeletedAt(worker[p].rev)
  OBVIOUS
<1>3. /\ worker' \in [Panel -> WorkerType]
      /\ \A q \in Panel : q # p => worker'[q] = worker[q]
      /\ worker'[p].step \in {"idle", "unconfirmed"}
      /\ worker'[p].rev = 0 /\ worker'[p].claim = 0 /\ worker'[p].gen = 0 /\ worker'[p].fresh = 0
  BY DEF Leaves
<1>4. TypeOK'
  BY <1>1, <1>2, <1>3, Types, TypesPrime DEF HistoryOK, DocOK, Rewritten
<1>5. /\ db \in Nat /\ node \in Nat /\ fence.gen \in Nat
      /\ \A q \in Panel : worker[q].fresh \in Nat /\ sync[q].snap \in Nat /\ worker[q].gen \in Nat
      /\ doc # NoDoc => doc.rev # 0
  BY <1>1, Numbers, Types, PanelType DEF DocOK, DocType, Revisions
<1>6. \A q \in Panel : ~InFlight(q)
  BY <1>1, <1>2, OnlyFlight DEF At, InFlight
<1>7. Bounded'
  BY <1>1, <1>2, <1>3, <1>5, <1>6 DEF Bounded
<1>8. Covered'
  BY <1>1, <1>2, <1>3, <1>5, <1>6 DEF Covered, Claimed, InFlight, At
<1>9. Distinct'
  BY <1>1, <1>2, <1>3, <1>5, <1>6 DEF Distinct, DeletedAt
<1>10. Untouched'
  BY <1>1, <1>2, <1>3, <1>5, <1>6 DEF Untouched, DeletedAt
<1>11. Seen'
  BY <1>1, <1>2, <1>3, <1>5, <1>6 DEF Seen, Crossed, At
<1>12. Delivering'
  BY <1>1, <1>2, <1>3, <1>5, <1>6 DEF Delivering, DeletedAt, At, Crossed, Current
<1>13. Snapshotting'
  BY <1>1, <1>2, <1>3, <1>5, <1>6 DEF Snapshotting, Delivering, Loaded, Holds, DeletedAt, At, Current
<1>14. NothingForgotten'
  BY <1>1, <1>2, <1>3, <1>5, <1>6 DEF NothingForgotten, Delivering, Current, At
<1> QED
  BY <1>4, <1>7, <1>8, <1>9, <1>10, <1>11, <1>12, <1>13, <1>14 DEF IInv

LEMMA LeavesBy ==
    ASSUME TypeOK, NEW p \in Panel, Done(p) \/ Unconfirmed(p)
    PROVE  Leaves(p)
<1>1. worker \in [Panel -> WorkerType] /\ 0 \in Versions /\ 0 \in 0..MaxSync
  BY Types, QueueAssumption DEF Versions
<1> QED
  BY <1>1 DEF Done, Unconfirmed, NoWork, Leaves, WorkerType, WorkerSteps

\* Nothing else is in flight when a claim of the worker's own is given up.
LEMMA GivenUp ==
    ASSUME IInv, NEW p \in Panel, ~InFlight(p),
           DeletedAt(worker[p].rev) \/ (doc # NoDoc /\ doc.claim = worker[p].claim)
    PROVE  \A q \in Panel : q # p => ~InFlight(q)
BY OnlyFlight DEF IInv

LEMMA AckStep == ASSUME IInv, NEW p \in Panel, Ack(p) PROVE IInv'
<1>1. /\ TypeOK /\ ~InFlight(p) /\ At(p, "ack") /\ faults' \in 0..MaxFaults
      /\ UNCHANGED <<db, node, dispatch, missed, fence, sync>>
  BY Types DEF IInv, Ack, At, InFlight, HistoryOK
<1>2. Leaves(p)
  BY <1>1, LeavesBy DEF Ack
<1>3. CASE DeletedAt(worker[p].rev) /\ doc' = NoDoc
  BY <1>1, <1>2, <1>3, LeavesDeleted
<1>4. CASE doc' = doc
  BY <1>1, <1>2, <1>4, LeavesSame
<1>5. CASE Released(worker[p].claim)
  BY <1>1, <1>2, <1>4, <1>5, ReleasedFacts, GivenUp, LeavesRewritten
<1> QED
  BY <1>3, <1>4, <1>5 DEF Ack

LEMMA AckFailsStep == ASSUME IInv, NEW p \in Panel, AckFails(p) PROVE IInv'
<1>1. /\ TypeOK /\ ~InFlight(p) /\ faults' \in 0..MaxFaults
      /\ UNCHANGED <<db, node, dispatch, missed, fence, sync>>
  BY Types, QueueAssumption DEF IInv, AckFails, At, InFlight, Fault, HistoryOK
<1>2. Leaves(p)
  BY <1>1, LeavesBy DEF AckFails
<1>3. doc' = doc \/ (Rewritten /\ doc # NoDoc /\ doc.claim = worker[p].claim)
  BY <1>1, ReleasedFacts DEF AckFails
<1> QED
  BY <1>1, <1>2, <1>3, GivenUp, LeavesSame, LeavesRewritten

LEMMA RequestRefreshStep == ASSUME IInv, NEW p \in Panel, RequestRefresh(p) PROVE IInv'
<1>1. /\ TypeOK /\ ~InFlight(p) /\ faults' \in 0..MaxFaults
      /\ UNCHANGED <<db, node, dispatch, missed, fence, sync>>
  BY Types DEF IInv, RequestRefresh, At, InFlight, HistoryOK
<1>2. Leaves(p)
  BY <1>1, LeavesBy DEF RequestRefresh
<1>3. CASE doc = NoDoc
  <2>1. \A q \in Panel : ~InFlight(q)
    BY <1>3 DEF IInv, Covered, Claimed
  <2>2. Rewritten
    BY <1>3, RewrittenBy DEF RequestRefresh, Marked
  <2> QED
    BY <1>1, <1>2, <2>1, <2>2, LeavesRewritten
<1>4. CASE doc # NoDoc
  <2>1. doc' = doc
    BY <1>4 DEF RequestRefresh, Marked
  <2> QED
    BY <1>1, <1>2, <2>1, LeavesSame
<1> QED
  BY <1>3, <1>4

LEMMA RequeueStep == ASSUME IInv, NEW p \in Panel, Requeue(p) PROVE IInv'
<1>1. /\ TypeOK /\ ~InFlight(p) /\ faults' \in 0..MaxFaults
      /\ UNCHANGED <<db, node, dispatch, missed, fence, sync>>
  BY Types DEF IInv, Requeue, At, InFlight, HistoryOK
<1>2. Leaves(p)
  BY <1>1, LeavesBy DEF Requeue
<1>3. CASE DeletedAt(worker[p].rev)
  <2>1. Rewritten
    BY <1>3, RewrittenBy DEF Requeue
  <2> QED
    BY <1>1, <1>2, <1>3, <2>1, GivenUp, LeavesRewritten
<1>4. CASE ~DeletedAt(worker[p].rev)
  <2>1. doc' = doc \/ (Rewritten /\ doc # NoDoc /\ doc.claim = worker[p].claim)
    BY <1>1, <1>4, ReleasedFacts DEF Requeue
  <2> QED
    BY <1>1, <1>2, <2>1, GivenUp, LeavesSame, LeavesRewritten
<1> QED
  BY <1>3, <1>4

LEMMA RefreshClaimedStep == ASSUME IInv, NEW p \in Panel, RefreshClaimed(p) PROVE IInv'
<1>1. /\ TypeOK /\ ~InFlight(p) /\ faults' \in 0..MaxFaults
      /\ UNCHANGED <<db, node, dispatch, missed, fence, sync>>
  BY Types DEF IInv, RefreshClaimed, At, InFlight, HistoryOK
<1>2. Leaves(p)
  BY <1>1, LeavesBy DEF RefreshClaimed
<1>3. CASE DeletedAt(worker[p].rev) \/ doc = NoDoc
  <2>1. Rewritten
    BY <1>3, RewrittenBy DEF RefreshClaimed
  <2>2. \A q \in Panel : q # p => ~InFlight(q)
    BY <1>1, <1>3, GivenUp DEF IInv, Covered, Claimed
  <2> QED
    BY <1>1, <1>2, <2>1, <2>2, LeavesRewritten
<1>4. CASE ~(DeletedAt(worker[p].rev) \/ doc = NoDoc)
  <2>1. doc' = doc \/ (Rewritten /\ doc # NoDoc /\ doc.claim = worker[p].claim)
    BY <1>1, <1>4, ReleasedFacts DEF RefreshClaimed
  <2> QED
    BY <1>1, <1>2, <2>1, GivenUp, LeavesSame, LeavesRewritten
<1> QED
  BY <1>3, <1>4

LEMMA ClaimExpiresStep ==
    ASSUME IInv, ClaimExpires
    PROVE  IInv'
<1>1. TypeOK /\ Bounded /\ Covered /\ Distinct /\ Untouched /\ Seen
      /\ Delivering /\ Snapshotting /\ NothingForgotten
  BY DEF IInv
<1>2. doc # NoDoc /\ UNCHANGED <<db, node, dispatch, missed, worker, fence, sync, faults>>
  BY <1>1, Types DEF ClaimExpires, TypeOK, Claimed
<1>3. \A q \in Panel : ~InFlight(q)
  BY <1>1 DEF ClaimExpires, Covered
<1>4. doc' \in DocType /\ doc' # NoDoc /\ doc'.rev = doc.rev /\ doc'.claim = doc.claim /\ doc'.live = FALSE
  <2>1. doc \in DocType
    BY <1>1, <1>2, Types DEF DocOK
  <2>2. doc' \in DocType /\ doc'.rev = doc.rev /\ doc'.claim = doc.claim /\ doc'.live = FALSE
    BY <2>1 DEF ClaimExpires, DocType
  <2> QED
    BY <2>2, NotNoDoc
<1>5. TypeOK'
  BY <1>1, <1>2, <1>3, <1>4, Types, TypesPrime DEF HistoryOK, DocOK
<1>6. /\ db \in Nat /\ node \in Nat /\ fence.gen \in Nat
      /\ \A q \in Panel : worker[q].fresh \in Nat /\ sync[q].snap \in Nat /\ worker[q].gen \in Nat
      /\ doc # NoDoc => doc.rev # 0
  BY <1>1, Numbers, Types, PanelType DEF DocOK, DocType, Revisions
<1>7. Bounded'
  BY <1>1, <1>2, <1>3, <1>4, <1>6 DEF Bounded
<1>8. Covered'
  BY <1>1, <1>2, <1>3, <1>4, <1>6 DEF Covered, Claimed, InFlight, At
<1>9. Distinct'
  BY <1>1, <1>2, <1>3, <1>4, <1>6 DEF Distinct, DeletedAt
<1>10. Untouched'
  BY <1>1, <1>2, <1>3, <1>4, <1>6 DEF Untouched, DeletedAt
<1>11. Seen'
  BY <1>1, <1>2, <1>3, <1>4, <1>6 DEF Seen, Crossed, At
<1>12. Delivering'
  BY <1>1, <1>2, <1>3, <1>4, <1>6 DEF Delivering, DeletedAt, At, Crossed, Current
<1>13. Snapshotting'
  BY <1>1, <1>2, <1>3, <1>4, <1>6 DEF Snapshotting, Delivering, Loaded, Holds, DeletedAt, At, Current
<1>14. NothingForgotten'
  BY <1>1, <1>2, <1>3, <1>4, <1>6 DEF NothingForgotten
<1> QED
  BY <1>5, <1>7, <1>8, <1>9, <1>10, <1>11, <1>12, <1>13, <1>14 DEF IInv

LEMMA BeginStep ==
    ASSUME IInv, NEW p \in Panel, NEW flush \in BOOLEAN, Begin(p, flush)
    PROVE  IInv'
<1>1. TypeOK /\ Bounded /\ Covered /\ Distinct /\ Untouched /\ Seen
      /\ Delivering /\ Snapshotting /\ NothingForgotten
  BY DEF IInv
<1>2. ~fence.live /\ UNCHANGED <<db, node, dispatch, missed, doc, worker, faults>>
  BY <1>1, Types DEF Begin, TypeOK
<1>3. /\ sync' \in [Panel -> SyncType]
      /\ \A q \in Panel : q # p => sync'[q] = sync[q]
      /\ sync'[p].step = "begun"
      /\ sync'[p].flush = flush
      /\ sync'[p].captured = 0
      /\ sync'[p].snap = 0
  <2>1. /\ sync \in [Panel -> SyncType] /\ sync[p] \in SyncType /\ db \in Versions
        /\ 0 \in Versions /\ (doc # NoDoc => doc.rev \in Revisions)
    BY <1>1, Types, QueueAssumption DEF HistoryOK, Versions, DocOK, DocType
  <2> QED
    BY <2>1 DEF Begin, NoSync, SyncType, SyncSteps
<1>4. /\ fence' \in FenceType /\ fence'.gen = fence.gen + 1
      /\ fence'.holder = p /\ fence'.live = TRUE
  <2>1. fence.gen \in Nat /\ fence.gen < MaxSync
    BY <1>1, Numbers DEF Begin
  <2>2. fence.gen + 1 \in 0..MaxSync
    BY <2>1, QueueAssumption
  <2> QED
    BY <2>2 DEF Begin, FenceType
<1>5. TypeOK'
  BY <1>1, <1>2, <1>3, <1>4, Types, TypesPrime DEF HistoryOK, DocOK
<1>6. /\ db \in Nat /\ node \in Nat /\ fence.gen \in Nat
      /\ \A q \in Panel : worker[q].fresh \in Nat /\ sync[q].snap \in Nat /\ worker[q].gen \in Nat
      /\ doc # NoDoc => doc.rev # 0
  BY <1>1, Numbers, Types, PanelType DEF DocOK, DocType, Revisions
<1>7. Bounded'
  BY <1>1, <1>2, <1>3, <1>4, <1>6 DEF Bounded
<1>8. Covered'
  BY <1>1, <1>2, <1>3, <1>4, <1>6 DEF Covered, Claimed, InFlight, At
<1>9. Distinct'
  BY <1>1, <1>2, <1>3, <1>4, <1>6 DEF Distinct, DeletedAt
<1>10. Untouched'
  BY <1>1, <1>2, <1>3, <1>4, <1>6 DEF Untouched, DeletedAt
<1>11. Seen'
  BY <1>1, <1>2, <1>3, <1>4, <1>6 DEF Seen, Crossed, At
<1>12. Delivering'
  BY <1>1, <1>2, <1>3, <1>4, <1>6 DEF Delivering, DeletedAt, At, Crossed, Current, Seen
<1>13. Snapshotting'
  BY <1>1, <1>2, <1>3, <1>4, <1>6 DEF Snapshotting, Delivering, Loaded, Holds, DeletedAt, At, Current
<1>14. NothingForgotten'
  BY <1>1, <1>2, <1>3, <1>4, <1>6 DEF NothingForgotten
<1> QED
  BY <1>5, <1>7, <1>8, <1>9, <1>10, <1>11, <1>12, <1>13, <1>14 DEF IInv

LEMMA CaptureStep ==
    ASSUME IInv, NEW p \in Panel, Capture(p)
    PROVE  IInv'
<1>1. TypeOK /\ Bounded /\ Covered /\ Distinct /\ Untouched /\ Seen
      /\ Delivering /\ Snapshotting /\ NothingForgotten
  BY DEF IInv
<1>2. ~Claimed /\ sync[p].step = "begun" /\ UNCHANGED <<db, node, dispatch, missed, doc, worker, fence, faults>>
  BY <1>1, Types DEF Capture, TypeOK, Quiet
<1>3. /\ sync' \in [Panel -> SyncType]
      /\ \A q \in Panel : q # p => sync'[q] = sync[q]
      /\ sync'[p].step = "captured"
      /\ sync'[p].flush = sync[p].flush
      /\ sync'[p].captured = (IF doc # NoDoc /\ sync[p].flush THEN doc.rev ELSE 0)
      /\ sync'[p].snap = sync[p].snap
  <2>1. /\ sync \in [Panel -> SyncType] /\ sync[p] \in SyncType /\ db \in Versions
        /\ 0 \in Versions /\ (doc # NoDoc => doc.rev \in Revisions)
    BY <1>1, Types, QueueAssumption DEF HistoryOK, Versions, DocOK, DocType
  <2> QED
    BY <2>1 DEF Capture, SyncType, SyncSteps
<1>4. TypeOK'
  BY <1>1, <1>2, <1>3, Types, TypesPrime DEF HistoryOK, DocOK
<1>5. /\ db \in Nat /\ node \in Nat /\ fence.gen \in Nat
      /\ \A q \in Panel : worker[q].fresh \in Nat /\ sync[q].snap \in Nat /\ worker[q].gen \in Nat
      /\ doc # NoDoc => doc.rev # 0
  BY <1>1, Numbers, Types, PanelType DEF DocOK, DocType, Revisions
<1>6. Bounded'
  BY <1>1, <1>2, <1>3, <1>5 DEF Bounded
<1>7. Covered'
  BY <1>1, <1>2, <1>3, <1>5 DEF Covered, Claimed, InFlight, At
<1>8. Distinct'
  BY <1>1, <1>2, <1>3, <1>5 DEF Distinct, DeletedAt
<1>9. Untouched'
  BY <1>1, <1>2, <1>3, <1>5 DEF Untouched, DeletedAt, Claimed
<1>10. Seen'
  BY <1>1, <1>2, <1>3, <1>5 DEF Seen, Crossed, At
<1>11. Delivering'
  BY <1>1, <1>2, <1>3, <1>5 DEF Delivering, DeletedAt, At, Crossed, Current
<1>12. Snapshotting'
  BY <1>1, <1>2, <1>3, <1>5 DEF Snapshotting, Delivering, Loaded, Holds, DeletedAt, At, Current
<1>13. NothingForgotten'
  BY <1>1, <1>2, <1>3, <1>5 DEF NothingForgotten
<1> QED
  BY <1>4, <1>6, <1>7, <1>8, <1>9, <1>10, <1>11, <1>12, <1>13 DEF IInv

LEMMA ReadUsersStep ==
    ASSUME IInv, NEW p \in Panel, ReadUsers(p)
    PROVE  IInv'
<1>1. TypeOK /\ Bounded /\ Covered /\ Distinct /\ Untouched /\ Seen
      /\ Delivering /\ Snapshotting /\ NothingForgotten
  BY DEF IInv
<1>2. UNCHANGED <<db, node, dispatch, missed, doc, worker, fence, faults>>
  BY <1>1, Types DEF ReadUsers, TypeOK
<1>3. /\ sync' \in [Panel -> SyncType]
      /\ \A q \in Panel : q # p => sync'[q] = sync[q]
      /\ sync'[p].step = "loaded"
      /\ sync'[p].flush = sync[p].flush
      /\ sync'[p].captured = sync[p].captured
      /\ sync'[p].snap = db
  <2>1. /\ sync \in [Panel -> SyncType] /\ sync[p] \in SyncType /\ db \in Versions
        /\ 0 \in Versions /\ (doc # NoDoc => doc.rev \in Revisions)
    BY <1>1, Types, QueueAssumption DEF HistoryOK, Versions, DocOK, DocType
  <2> QED
    BY <2>1 DEF ReadUsers, SyncType, SyncSteps
<1>4. TypeOK'
  BY <1>1, <1>2, <1>3, Types, TypesPrime DEF HistoryOK, DocOK
<1>5. /\ db \in Nat /\ node \in Nat /\ fence.gen \in Nat
      /\ \A q \in Panel : worker[q].fresh \in Nat /\ sync[q].snap \in Nat /\ worker[q].gen \in Nat
      /\ doc # NoDoc => doc.rev # 0
  BY <1>1, Numbers, Types, PanelType DEF DocOK, DocType, Revisions
<1>6. Bounded'
  BY <1>1, <1>2, <1>3, <1>5 DEF Bounded
<1>7. Covered'
  BY <1>1, <1>2, <1>3, <1>5 DEF Covered, Claimed, InFlight, At
<1>8. Distinct'
  BY <1>1, <1>2, <1>3, <1>5 DEF Distinct, DeletedAt
<1>9. Untouched'
  BY <1>1, <1>2, <1>3, <1>5 DEF Untouched, DeletedAt
<1>10. Seen'
  BY <1>1, <1>2, <1>3, <1>5 DEF Seen, Crossed, At
<1>11. Delivering'
  BY <1>1, <1>2, <1>3, <1>5 DEF Delivering, DeletedAt, At, Crossed, Current
<1>12. Snapshotting'
  BY <1>1, <1>2, <1>3, <1>5 DEF Snapshotting, Delivering, Loaded, Holds, DeletedAt, At, Current
<1>13. NothingForgotten'
  BY <1>1, <1>2, <1>3, <1>5 DEF NothingForgotten
<1> QED
  BY <1>4, <1>6, <1>7, <1>8, <1>9, <1>10, <1>11, <1>12, <1>13 DEF IInv

LEMMA PushStep ==
    ASSUME IInv, NEW p \in Panel, Push(p)
    PROVE  IInv'
<1>1. TypeOK /\ Bounded /\ Covered /\ Distinct /\ Untouched /\ Seen
      /\ Delivering /\ Snapshotting /\ NothingForgotten
  BY DEF IInv
<1>2. sync[p].step = "loaded" /\ UNCHANGED <<db, node, dispatch, missed, doc, worker, fence, faults>>
  BY <1>1, Types DEF Push, TypeOK
<1>3. /\ sync' \in [Panel -> SyncType]
      /\ \A q \in Panel : q # p => sync'[q] = sync[q]
      /\ sync'[p].step = "pushing"
      /\ sync'[p].flush = sync[p].flush
      /\ sync'[p].captured = sync[p].captured
      /\ sync'[p].snap = sync[p].snap
  <2>1. /\ sync \in [Panel -> SyncType] /\ sync[p] \in SyncType /\ db \in Versions
        /\ 0 \in Versions /\ (doc # NoDoc => doc.rev \in Revisions)
    BY <1>1, Types, QueueAssumption DEF HistoryOK, Versions, DocOK, DocType
  <2> QED
    BY <2>1 DEF Push, SyncType, SyncSteps
<1>4. TypeOK'
  BY <1>1, <1>2, <1>3, Types, TypesPrime DEF HistoryOK, DocOK
<1>5. /\ db \in Nat /\ node \in Nat /\ fence.gen \in Nat
      /\ \A q \in Panel : worker[q].fresh \in Nat /\ sync[q].snap \in Nat /\ worker[q].gen \in Nat
      /\ doc # NoDoc => doc.rev # 0
  BY <1>1, Numbers, Types, PanelType DEF DocOK, DocType, Revisions
<1>6. Bounded'
  BY <1>1, <1>2, <1>3, <1>5 DEF Bounded
<1>7. Covered'
  BY <1>1, <1>2, <1>3, <1>5 DEF Covered, Claimed, InFlight, At
<1>8. Distinct'
  BY <1>1, <1>2, <1>3, <1>5 DEF Distinct, DeletedAt
<1>9. Untouched'
  BY <1>1, <1>2, <1>3, <1>5 DEF Untouched, DeletedAt
<1>10. Seen'
  BY <1>1, <1>2, <1>3, <1>5 DEF Seen, Crossed, At
<1>11. Delivering'
  BY <1>1, <1>2, <1>3, <1>5 DEF Delivering, DeletedAt, At, Crossed, Current
<1>12. Snapshotting'
  BY <1>1, <1>2, <1>3, <1>5 DEF Snapshotting, Delivering, Loaded, Holds, DeletedAt, At, Current
<1>13. NothingForgotten'
  BY <1>1, <1>2, <1>3, <1>5 DEF NothingForgotten
<1> QED
  BY <1>4, <1>6, <1>7, <1>8, <1>9, <1>10, <1>11, <1>12, <1>13 DEF IInv

LEMMA PushLandsStep ==
    ASSUME IInv, NEW p \in Panel, PushLands(p)
    PROVE  IInv'
<1>1. TypeOK /\ Bounded /\ Covered /\ Distinct /\ Untouched /\ Seen
      /\ Delivering /\ Snapshotting /\ NothingForgotten
  BY DEF IInv
<1>2. Holds(p) /\ sync[p].step = "pushing" /\ UNCHANGED <<db, dispatch, doc, worker, fence, faults>>
  BY <1>1, Types DEF PushLands, TypeOK
<1>3. /\ sync' \in [Panel -> SyncType]
      /\ \A q \in Panel : q # p => sync'[q] = sync[q]
      /\ sync'[p].step = "pushed"
      /\ sync'[p].flush = sync[p].flush
      /\ sync'[p].captured = sync[p].captured
      /\ sync'[p].snap = 0
  <2>1. /\ sync \in [Panel -> SyncType] /\ sync[p] \in SyncType /\ db \in Versions
        /\ 0 \in Versions /\ (doc # NoDoc => doc.rev \in Revisions)
    BY <1>1, Types, QueueAssumption DEF HistoryOK, Versions, DocOK, DocType
  <2> QED
    BY <2>1 DEF PushLands, SyncType, SyncSteps
<1>4. /\ node' = sync[p].snap /\ node' \in Versions /\ missed' \subseteq Versions
      /\ sync[p].snap # db /\ db \in missed => db \in missed'
  <2>1. sync[p].snap \in Versions /\ sync[p].snap <= db
    BY <1>1, Types DEF SyncType, Bounded
  <2> QED
    BY <1>1, <2>1, AppliedFacts DEF PushLands
<1>5. TypeOK'
  BY <1>1, <1>2, <1>3, <1>4, Types, TypesPrime DEF HistoryOK, DocOK
<1>6. /\ db \in Nat /\ node \in Nat /\ fence.gen \in Nat
      /\ \A q \in Panel : worker[q].fresh \in Nat /\ sync[q].snap \in Nat /\ worker[q].gen \in Nat
      /\ doc # NoDoc => doc.rev # 0
  BY <1>1, Numbers, Types, PanelType DEF DocOK, DocType, Revisions
<1>7. Bounded'
  BY <1>1, <1>2, <1>3, <1>4, <1>6 DEF Bounded
<1>8. Covered'
  BY <1>1, <1>2, <1>3, <1>4, <1>6 DEF Covered, Claimed, InFlight, At
<1>9. Distinct'
  BY <1>1, <1>2, <1>3, <1>4, <1>6 DEF Distinct, DeletedAt
<1>10. Untouched'
  BY <1>1, <1>2, <1>3, <1>4, <1>6 DEF Untouched, DeletedAt
<1>11. Seen'
  BY <1>1, <1>2, <1>3, <1>4, <1>6 DEF Seen, Crossed, At
<1>12. Delivering'
  BY <1>1, <1>2, <1>3, <1>4, <1>6 DEF Delivering, DeletedAt, At, Crossed, Current, Seen, Snapshotting, Loaded, Holds
<1>13. Snapshotting'
  BY <1>1, <1>2, <1>3, <1>4, <1>6 DEF Snapshotting, Delivering, Loaded, Holds, DeletedAt, At, Current
<1>14. NothingForgotten'
  BY <1>1, <1>2, <1>3, <1>4, <1>6 DEF NothingForgotten, Snapshotting, Loaded, Holds, Current
<1> QED
  BY <1>5, <1>7, <1>8, <1>9, <1>10, <1>11, <1>12, <1>13, <1>14 DEF IInv

LEMMA PushFailsStep ==
    ASSUME IInv, NEW p \in Panel, PushFails(p)
    PROVE  IInv'
<1>1. TypeOK /\ Bounded /\ Covered /\ Distinct /\ Untouched /\ Seen
      /\ Delivering /\ Snapshotting /\ NothingForgotten
  BY DEF IInv
<1>2. faults' \in 0..MaxFaults /\ UNCHANGED <<db, node, dispatch, missed, doc, worker, fence>>
  BY <1>1, Types, QueueAssumption DEF PushFails, TypeOK, Fault, HistoryOK
<1>3. /\ sync' \in [Panel -> SyncType]
      /\ \A q \in Panel : q # p => sync'[q] = sync[q]
      /\ sync'[p].step = "end"
      /\ sync'[p].flush = FALSE
      /\ sync'[p].captured = 0
      /\ sync'[p].snap = 0
  <2>1. /\ sync \in [Panel -> SyncType] /\ sync[p] \in SyncType /\ db \in Versions
        /\ 0 \in Versions /\ (doc # NoDoc => doc.rev \in Revisions)
    BY <1>1, Types, QueueAssumption DEF HistoryOK, Versions, DocOK, DocType
  <2> QED
    BY <2>1 DEF PushFails, Ending, NoSync, SyncType, SyncSteps
<1>4. TypeOK'
  BY <1>1, <1>2, <1>3, Types, TypesPrime DEF HistoryOK, DocOK
<1>5. /\ db \in Nat /\ node \in Nat /\ fence.gen \in Nat
      /\ \A q \in Panel : worker[q].fresh \in Nat /\ sync[q].snap \in Nat /\ worker[q].gen \in Nat
      /\ doc # NoDoc => doc.rev # 0
  BY <1>1, Numbers, Types, PanelType DEF DocOK, DocType, Revisions
<1>6. Bounded'
  BY <1>1, <1>2, <1>3, <1>5 DEF Bounded
<1>7. Covered'
  BY <1>1, <1>2, <1>3, <1>5 DEF Covered, Claimed, InFlight, At
<1>8. Distinct'
  BY <1>1, <1>2, <1>3, <1>5 DEF Distinct, DeletedAt
<1>9. Untouched'
  BY <1>1, <1>2, <1>3, <1>5 DEF Untouched, DeletedAt
<1>10. Seen'
  BY <1>1, <1>2, <1>3, <1>5 DEF Seen, Crossed, At
<1>11. Delivering'
  BY <1>1, <1>2, <1>3, <1>5 DEF Delivering, DeletedAt, At, Crossed, Current
<1>12. Snapshotting'
  BY <1>1, <1>2, <1>3, <1>5 DEF Snapshotting, Delivering, Loaded, Holds, DeletedAt, At, Current
<1>13. NothingForgotten'
  BY <1>1, <1>2, <1>3, <1>5 DEF NothingForgotten
<1> QED
  BY <1>4, <1>6, <1>7, <1>8, <1>9, <1>10, <1>11, <1>12, <1>13 DEF IInv

LEMMA HoldLostStep ==
    ASSUME IInv, NEW p \in Panel, HoldLost(p)
    PROVE  IInv'
<1>1. TypeOK /\ Bounded /\ Covered /\ Distinct /\ Untouched /\ Seen
      /\ Delivering /\ Snapshotting /\ NothingForgotten
  BY DEF IInv
<1>2. UNCHANGED <<db, node, dispatch, missed, doc, worker, fence, faults>>
  BY <1>1, Types DEF HoldLost, TypeOK
<1>3. /\ sync' \in [Panel -> SyncType]
      /\ \A q \in Panel : q # p => sync'[q] = sync[q]
      /\ sync'[p].step = "end"
      /\ sync'[p].flush = FALSE
      /\ sync'[p].captured = 0
      /\ sync'[p].snap = 0
  <2>1. /\ sync \in [Panel -> SyncType] /\ sync[p] \in SyncType /\ db \in Versions
        /\ 0 \in Versions /\ (doc # NoDoc => doc.rev \in Revisions)
    BY <1>1, Types, QueueAssumption DEF HistoryOK, Versions, DocOK, DocType
  <2> QED
    BY <2>1 DEF HoldLost, Ending, NoSync, SyncType, SyncSteps
<1>4. TypeOK'
  BY <1>1, <1>2, <1>3, Types, TypesPrime DEF HistoryOK, DocOK
<1>5. /\ db \in Nat /\ node \in Nat /\ fence.gen \in Nat
      /\ \A q \in Panel : worker[q].fresh \in Nat /\ sync[q].snap \in Nat /\ worker[q].gen \in Nat
      /\ doc # NoDoc => doc.rev # 0
  BY <1>1, Numbers, Types, PanelType DEF DocOK, DocType, Revisions
<1>6. Bounded'
  BY <1>1, <1>2, <1>3, <1>5 DEF Bounded
<1>7. Covered'
  BY <1>1, <1>2, <1>3, <1>5 DEF Covered, Claimed, InFlight, At
<1>8. Distinct'
  BY <1>1, <1>2, <1>3, <1>5 DEF Distinct, DeletedAt
<1>9. Untouched'
  BY <1>1, <1>2, <1>3, <1>5 DEF Untouched, DeletedAt
<1>10. Seen'
  BY <1>1, <1>2, <1>3, <1>5 DEF Seen, Crossed, At
<1>11. Delivering'
  BY <1>1, <1>2, <1>3, <1>5 DEF Delivering, DeletedAt, At, Crossed, Current
<1>12. Snapshotting'
  BY <1>1, <1>2, <1>3, <1>5 DEF Snapshotting, Delivering, Loaded, Holds, DeletedAt, At, Current
<1>13. NothingForgotten'
  BY <1>1, <1>2, <1>3, <1>5 DEF NothingForgotten
<1> QED
  BY <1>4, <1>6, <1>7, <1>8, <1>9, <1>10, <1>11, <1>12, <1>13 DEF IInv

LEMMA RetireStep ==
    ASSUME IInv, NEW p \in Panel, Retire(p)
    PROVE  IInv'
<1>1. TypeOK /\ Bounded /\ Covered /\ Distinct /\ Untouched /\ Seen
      /\ Delivering /\ Snapshotting /\ NothingForgotten
  BY DEF IInv
<1>2. Holds(p) /\ sync[p].step = "pushed" /\ UNCHANGED <<db, node, dispatch, missed, worker, fence, faults>>
  BY <1>1, Types DEF Retire, TypeOK
<1>3. /\ sync' \in [Panel -> SyncType]
      /\ \A q \in Panel : q # p => sync'[q] = sync[q]
      /\ sync'[p].step = "end"
      /\ sync'[p].flush = FALSE
      /\ sync'[p].captured = 0
      /\ sync'[p].snap = 0
  <2>1. /\ sync \in [Panel -> SyncType] /\ sync[p] \in SyncType /\ db \in Versions
        /\ 0 \in Versions /\ (doc # NoDoc => doc.rev \in Revisions)
    BY <1>1, Types, QueueAssumption DEF HistoryOK, Versions, DocOK, DocType
  <2> QED
    BY <2>1 DEF Retire, Ending, NoSync, SyncType, SyncSteps
<1>4. doc' = doc \/ (doc' = NoDoc /\ DeletedAt(sync[p].captured))
  BY DEF Retire
<1>5. doc' # doc => Current(node) /\ \A q \in Panel : ~InFlight(q)
  BY <1>1, <1>2, <1>4 DEF Snapshotting, Untouched, Covered, Claimed
<1>6. TypeOK'
  BY <1>1, <1>2, <1>3, <1>4, <1>5, Types, TypesPrime DEF HistoryOK, DocOK
<1>7. /\ db \in Nat /\ node \in Nat /\ fence.gen \in Nat
      /\ \A q \in Panel : worker[q].fresh \in Nat /\ sync[q].snap \in Nat /\ worker[q].gen \in Nat
      /\ doc # NoDoc => doc.rev # 0
  BY <1>1, Numbers, Types, PanelType DEF DocOK, DocType, Revisions
<1>8. Bounded'
  BY <1>1, <1>2, <1>3, <1>4, <1>5, <1>7 DEF Bounded
<1>9. Covered'
  BY <1>1, <1>2, <1>3, <1>4, <1>5, <1>7 DEF Covered, Claimed, InFlight, At
<1>10. Distinct'
  BY <1>1, <1>2, <1>3, <1>4, <1>5, <1>7 DEF Distinct, DeletedAt
<1>11. Untouched'
  BY <1>1, <1>2, <1>3, <1>4, <1>5, <1>7 DEF Untouched, DeletedAt
<1>12. Seen'
  BY <1>1, <1>2, <1>3, <1>4, <1>5, <1>7 DEF Seen, Crossed, At
<1>13. Delivering'
  BY <1>1, <1>2, <1>3, <1>4, <1>5, <1>7 DEF Delivering, DeletedAt, At, Crossed, Current
<1>14. Snapshotting'
  BY <1>1, <1>2, <1>3, <1>4, <1>5, <1>7 DEF Snapshotting, Delivering, Loaded, Holds, DeletedAt, At, Current
<1>15. NothingForgotten'
  BY <1>1, <1>2, <1>3, <1>4, <1>5, <1>7 DEF NothingForgotten, Current
<1> QED
  BY <1>6, <1>8, <1>9, <1>10, <1>11, <1>12, <1>13, <1>14, <1>15 DEF IInv

LEMMA EndStep ==
    ASSUME IInv, NEW p \in Panel, End(p)
    PROVE  IInv'
<1>1. TypeOK /\ Bounded /\ Covered /\ Distinct /\ Untouched /\ Seen
      /\ Delivering /\ Snapshotting /\ NothingForgotten
  BY DEF IInv
<1>2. UNCHANGED <<db, node, dispatch, missed, doc, worker, faults>>
  BY <1>1, Types DEF End, TypeOK
<1>3. /\ sync' \in [Panel -> SyncType]
      /\ \A q \in Panel : q # p => sync'[q] = sync[q]
      /\ sync'[p].step = "idle"
      /\ sync'[p].flush = FALSE
      /\ sync'[p].captured = 0
      /\ sync'[p].snap = 0
  <2>1. /\ sync \in [Panel -> SyncType] /\ sync[p] \in SyncType /\ db \in Versions
        /\ 0 \in Versions /\ (doc # NoDoc => doc.rev \in Revisions)
    BY <1>1, Types, QueueAssumption DEF HistoryOK, Versions, DocOK, DocType
  <2> QED
    BY <2>1 DEF End, NoSync, SyncType, SyncSteps
<1>4. /\ fence' \in FenceType /\ fence'.gen = fence.gen
      /\ fence'.live => fence.live /\ fence'.holder = fence.holder
  BY <1>1, Types DEF End, FenceType
<1>5. TypeOK'
  BY <1>1, <1>2, <1>3, <1>4, Types, TypesPrime DEF HistoryOK, DocOK
<1>6. /\ db \in Nat /\ node \in Nat /\ fence.gen \in Nat
      /\ \A q \in Panel : worker[q].fresh \in Nat /\ sync[q].snap \in Nat /\ worker[q].gen \in Nat
      /\ doc # NoDoc => doc.rev # 0
  BY <1>1, Numbers, Types, PanelType DEF DocOK, DocType, Revisions
<1>7. Bounded'
  BY <1>1, <1>2, <1>3, <1>4, <1>6 DEF Bounded
<1>8. Covered'
  BY <1>1, <1>2, <1>3, <1>4, <1>6 DEF Covered, Claimed, InFlight, At
<1>9. Distinct'
  BY <1>1, <1>2, <1>3, <1>4, <1>6 DEF Distinct, DeletedAt
<1>10. Untouched'
  BY <1>1, <1>2, <1>3, <1>4, <1>6 DEF Untouched, DeletedAt
<1>11. Seen'
  BY <1>1, <1>2, <1>3, <1>4, <1>6 DEF Seen, Crossed, At
<1>12. Delivering'
  BY <1>1, <1>2, <1>3, <1>4, <1>6 DEF Delivering, DeletedAt, At, Crossed, Current
<1>13. Snapshotting'
  BY <1>1, <1>2, <1>3, <1>4, <1>6 DEF Snapshotting, Delivering, Loaded, Holds, DeletedAt, At, Current
<1>14. NothingForgotten'
  BY <1>1, <1>2, <1>3, <1>4, <1>6 DEF NothingForgotten
<1> QED
  BY <1>5, <1>7, <1>8, <1>9, <1>10, <1>11, <1>12, <1>13, <1>14 DEF IInv

LEMMA FenceExpiresStep ==
    ASSUME IInv, FenceExpires
    PROVE  IInv'
<1>1. TypeOK /\ Bounded /\ Covered /\ Distinct /\ Untouched /\ Seen
      /\ Delivering /\ Snapshotting /\ NothingForgotten
  BY DEF IInv
<1>2. UNCHANGED <<db, node, dispatch, missed, doc, worker, sync, faults>>
  BY <1>1, Types DEF FenceExpires, TypeOK
<1>3. fence' \in FenceType /\ fence'.gen = fence.gen /\ fence'.live = FALSE
  BY <1>1, Types DEF FenceExpires, FenceType
<1>4. TypeOK'
  BY <1>1, <1>2, <1>3, Types, TypesPrime DEF HistoryOK, DocOK
<1>5. /\ db \in Nat /\ node \in Nat /\ fence.gen \in Nat
      /\ \A q \in Panel : worker[q].fresh \in Nat /\ sync[q].snap \in Nat /\ worker[q].gen \in Nat
      /\ doc # NoDoc => doc.rev # 0
  BY <1>1, Numbers, Types, PanelType DEF DocOK, DocType, Revisions
<1>6. Bounded'
  BY <1>1, <1>2, <1>3, <1>5 DEF Bounded
<1>7. Covered'
  BY <1>1, <1>2, <1>3, <1>5 DEF Covered, Claimed, InFlight, At
<1>8. Distinct'
  BY <1>1, <1>2, <1>3, <1>5 DEF Distinct, DeletedAt
<1>9. Untouched'
  BY <1>1, <1>2, <1>3, <1>5 DEF Untouched, DeletedAt
<1>10. Seen'
  BY <1>1, <1>2, <1>3, <1>5 DEF Seen, Crossed, At
<1>11. Delivering'
  BY <1>1, <1>2, <1>3, <1>5 DEF Delivering, DeletedAt, At, Crossed, Current
<1>12. Snapshotting'
  BY <1>1, <1>2, <1>3, <1>5 DEF Snapshotting, Delivering, Loaded, Holds, DeletedAt, At, Current
<1>13. NothingForgotten'
  BY <1>1, <1>2, <1>3, <1>5 DEF NothingForgotten
<1> QED
  BY <1>4, <1>6, <1>7, <1>8, <1>9, <1>10, <1>11, <1>12, <1>13 DEF IInv

LEMMA CrashStep ==
    ASSUME IInv, NEW p \in Panel, Crash(p)
    PROVE  IInv'
<1>1. TypeOK /\ Bounded /\ Covered /\ Distinct /\ Untouched /\ Seen
      /\ Delivering /\ Snapshotting /\ NothingForgotten
  BY DEF IInv
<1>2. faults' \in 0..MaxFaults /\ UNCHANGED <<db, node, dispatch, missed, doc, fence>>
  BY <1>1, Types, QueueAssumption DEF Crash, TypeOK, Fault, HistoryOK
<1>3. /\ worker' \in [Panel -> WorkerType]
      /\ \A q \in Panel : q # p => worker'[q] = worker[q]
      /\ worker'[p].step = "idle"
      /\ worker'[p].rev = 0
      /\ worker'[p].claim = 0
      /\ worker'[p].gen = 0
      /\ worker'[p].fresh = 0
  <2>1. /\ worker \in [Panel -> WorkerType] /\ worker[p] \in WorkerType /\ db \in Versions
        /\ fence.gen \in 0..MaxSync /\ 0 \in 0..MaxSync /\ 0 \in Versions
    BY <1>1, Types, QueueAssumption DEF HistoryOK, FenceType, Versions
  <2> QED
    BY <2>1 DEF Crash, NoWork, WorkerType, WorkerSteps
<1>4. /\ sync' \in [Panel -> SyncType]
      /\ \A q \in Panel : q # p => sync'[q] = sync[q]
      /\ sync'[p].step = "idle"
      /\ sync'[p].flush = FALSE
      /\ sync'[p].captured = 0
      /\ sync'[p].snap = 0
  <2>1. /\ sync \in [Panel -> SyncType] /\ sync[p] \in SyncType /\ db \in Versions
        /\ 0 \in Versions /\ (doc # NoDoc => doc.rev \in Revisions)
    BY <1>1, Types, QueueAssumption DEF HistoryOK, Versions, DocOK, DocType
  <2> QED
    BY <2>1 DEF Crash, NoSync, SyncType, SyncSteps
<1>5. TypeOK'
  BY <1>1, <1>2, <1>3, <1>4, Types, TypesPrime DEF HistoryOK, DocOK
<1>6. /\ db \in Nat /\ node \in Nat /\ fence.gen \in Nat
      /\ \A q \in Panel : worker[q].fresh \in Nat /\ sync[q].snap \in Nat /\ worker[q].gen \in Nat
      /\ doc # NoDoc => doc.rev # 0
  BY <1>1, Numbers, Types, PanelType DEF DocOK, DocType, Revisions
<1>7. Bounded'
  BY <1>1, <1>2, <1>3, <1>4, <1>6 DEF Bounded
<1>8. Covered'
  BY <1>1, <1>2, <1>3, <1>4, <1>6 DEF Covered, Claimed, InFlight, At
<1>9. Distinct'
  BY <1>1, <1>2, <1>3, <1>4, <1>6 DEF Distinct, DeletedAt
<1>10. Untouched'
  BY <1>1, <1>2, <1>3, <1>4, <1>6 DEF Untouched, DeletedAt
<1>11. Seen'
  BY <1>1, <1>2, <1>3, <1>4, <1>6 DEF Seen, Crossed, At
<1>12. Delivering'
  BY <1>1, <1>2, <1>3, <1>4, <1>6 DEF Delivering, DeletedAt, At, Crossed, Current
<1>13. Snapshotting'
  BY <1>1, <1>2, <1>3, <1>4, <1>6 DEF Snapshotting, Delivering, Loaded, Holds, DeletedAt, At, Current
<1>14. NothingForgotten'
  BY <1>1, <1>2, <1>3, <1>4, <1>6 DEF NothingForgotten
<1> QED
  BY <1>5, <1>7, <1>8, <1>9, <1>10, <1>11, <1>12, <1>13, <1>14 DEF IInv

-----------------------------------------------------------------------------
(* The theorems. *)

LEMMA IInvInit == ASSUME Init PROVE IInv
<1>1. 0 \in Versions /\ 0 \in 0..MaxSync /\ 0 \in 0..MaxFaults
  BY QueueAssumption DEF Versions
<1>2. \A p \in Panel : worker[p] = NoWork /\ sync[p] = NoSync
  BY DEF Init
<1>3. TypeOK
  BY <1>1, Types DEF Init, NoWork, NoSync, HistoryOK, DocOK, WorkerType, WorkerSteps, SyncType, SyncSteps, FenceType
<1>4. Bounded /\ Covered /\ Distinct /\ Untouched /\ Seen
  BY <1>2 DEF Init, NoWork, NoSync, Bounded, Covered, Distinct, Untouched, Seen, DeletedAt, InFlight
<1>5. Delivering /\ Snapshotting /\ NothingForgotten
  BY <1>2 DEF Init, NoWork, NoSync, Delivering, Snapshotting, NothingForgotten, DeletedAt, Loaded, Holds
<1> QED
  BY <1>3, <1>4, <1>5 DEF IInv

LEMMA IInvStep == ASSUME IInv, [Next]_vars PROVE IInv'
<1>1. CASE Commit \/ ClaimExpires \/ FenceExpires
  BY <1>1, CommitStep, ClaimExpiresStep, FenceExpiresStep
<1>2. ASSUME NEW v \in dispatch, Enqueue(v) \/ EnqueueFails(v) PROVE IInv'
  BY <1>2, EnqueueStep, EnqueueFailsStep
<1>3. ASSUME NEW p \in Panel,
             \/ CheckFence(p) \/ Claim(p) \/ NothingToClaim(p) \/ ReadState(p)
             \/ Send(p) \/ SendFails(p) \/ CompareGeneration(p)
      PROVE  IInv'
  BY <1>3, CheckFenceStep, ClaimStep, NothingToClaimStep, ReadStateStep, SendStep, SendFailsStep,
     CompareGenerationStep
<1>4. ASSUME NEW p \in Panel,
             Ack(p) \/ AckFails(p) \/ RequestRefresh(p) \/ Requeue(p) \/ RefreshClaimed(p)
      PROVE  IInv'
  BY <1>4, AckStep, AckFailsStep, RequestRefreshStep, RequeueStep, RefreshClaimedStep
<1>5. ASSUME NEW p \in Panel,
             \/ Begin(p, TRUE) \/ Begin(p, FALSE) \/ Capture(p) \/ ReadUsers(p) \/ Push(p)
             \/ PushLands(p)
      PROVE  IInv'
  BY <1>5, BeginStep, CaptureStep, ReadUsersStep, PushStep, PushLandsStep
<1>6. ASSUME NEW p \in Panel,
             PushFails(p) \/ HoldLost(p) \/ Retire(p) \/ End(p) \/ Crash(p)
      PROVE  IInv'
  BY <1>6, PushFailsStep, HoldLostStep, RetireStep, EndStep, CrashStep
<1>7. CASE UNCHANGED vars
  BY <1>7 DEF vars, IInv, TypeOK, Bounded, Covered, Distinct, Untouched, Seen, Delivering, Snapshotting,
     NothingForgotten, DeletedAt, Loaded, Holds, At, InFlight, Claimed, Crossed, Current
<1> QED
  BY <1>1, <1>2, <1>3, <1>4, <1>5, <1>6, <1>7 DEF Next

LEMMA IInvAlways == Spec => []IInv
BY IInvInit, IInvStep, PTL DEF Spec

\* Every variable keeps its type.
THEOREM TypeCorrect == Spec => []TypeOK
<1>1. IInv => TypeOK
  BY DEF IInv
<1> QED
  BY <1>1, IInvAlways, PTL

\* One delivery of the user is in flight at a time, whatever claims expire and
\* whichever panels die (claim_users, _enqueue_one, _release_claim).
THEOREM SingleDelivery == Spec => []OneDelivery
<1>1. ASSUME IInv PROVE OneDelivery
  <2>1. \A p \in Panel : InFlight(p) => doc # NoDoc /\ doc.claim = worker[p].claim
    BY <1>1 DEF IInv, Covered, Claimed
  <2> QED
    BY <1>1, <2>1, OnlyFlight DEF IInv, OneDelivery
<1> QED
  BY <1>1, IInvAlways, PTL

\* No acknowledgement, retirement or release removes the only trace of a change
\* the node does not have, for any number of panels, snapshots and faults
\* (_ack_one, _refresh_claimed_one, retire_captured, sync_full).
THEOREM ChangesAreKept == Spec => []NothingForgotten
<1>1. IInv => NothingForgotten
  BY DEF IInv
<1> QED
  BY <1>1, IInvAlways, PTL

=============================================================================
