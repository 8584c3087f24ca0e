--------------------------- MODULE UserSyncQueue ---------------------------
(***************************************************************************)
(* The shared queue of user updates of one node (app/node/nats_memory.py,  *)
(* app/node/bridge.py, NodeManager.sync_full): how the state of a user in  *)
(* the database reaches the node through one revision-guarded document,    *)
(* while several panel processes deliver updates and push full snapshots,  *)
(* lose their leases and die.                                              *)
(*                                                                         *)
(* Users do not interact except through the snapshot, which carries all of *)
(* them, so the module follows one user.  What a queued document holds is  *)
(* read again from the database before it is sent (_current_state): the    *)
(* document only marks the user as changed, and its payload is left out.   *)
(***************************************************************************)
EXTENDS Naturals, FiniteSets

CONSTANTS
    Panel,       \* panel processes: each has a delivery worker and may push snapshots
    MaxCommit,   \* bound: how often the user is changed
    MaxSync,     \* bound: how many full snapshots are begun
    Faults,      \* the faults to be checked
    MaxFaults,   \* bound: how many of them happen
    NoDoc

ASSUME QueueAssumption ==
    /\ IsFiniteSet(Panel)
    /\ MaxCommit \in Nat /\ MaxSync \in Nat /\ MaxFaults \in Nat
    /\ Faults \subseteq {"dispatch", "send", "ack", "crash", "push"}
    /\ NoDoc \notin [rev: Nat, marker: BOOLEAN, claim: Nat, live: BOOLEAN]

VARIABLES
    db,        \* the version of the user last committed
    node,      \* the version the node last applied
    dispatch,  \* versions whose update is still to be queued (asyncio tasks)
    missed,    \* history: versions whose update was never queued, nor sent since
    doc,       \* the document p.<node>.<user>: [rev, marker, claim, live], or NoDoc
    worker,    \* the delivery worker of each panel
    fence,     \* the document f.<node>.sync: [gen, holder, live]
    sync,      \* the sync_full of each panel
    faults

vars == <<db, node, dispatch, missed, doc, worker, fence, sync, faults>>

Versions == 0..MaxCommit

\* A worker's claim: the revision and claim id of its token, the fence
\* generation seen before it claimed and the state it read.
NoWork == [step |-> "idle", rev |-> 0, claim |-> 0, gen |-> 0, fresh |-> 0]
NoSync == [step |-> "idle", flush |-> FALSE, captured |-> 0, snap |-> 0]

Init ==
    /\ db = 0 /\ node = 0 /\ dispatch = {} /\ missed = {}
    /\ doc = NoDoc
    /\ worker = [p \in Panel |-> NoWork]
    /\ fence = [gen |-> 0, holder |-> NoDoc, live |-> FALSE]
    /\ sync = [p \in Panel |-> NoSync]
    /\ faults = 0

Fault(kind) == kind \in Faults /\ faults < MaxFaults /\ faults' = faults + 1

----------------------------------------------------------------------------
(* The document: every write is guarded by the revision it read. *)

Claimed == doc # NoDoc /\ doc.live

\* Revisions are only compared, so a write may take any that nobody remembers.
Revisions == 1..(3 * Cardinality(Panel) + 3)

Remembered ==
    (IF doc = NoDoc THEN {} ELSE {doc.rev, doc.claim}) \cup
    {worker[p].rev : p \in Panel} \cup {worker[p].claim : p \in Panel} \cup
    {sync[p].captured : p \in Panel}

Fresh == CHOOSE r \in Revisions : r \notin Remembered

Unclaimed(marker) == [rev |-> Fresh, marker |-> marker, claim |-> 0, live |-> FALSE]

\* Mutant of Enqueued: the newer payload takes the claim's place.
EnqueuedOver == Unclaimed(FALSE)

\* _enqueue_one keeps an unexpired claim visible.
Enqueued ==
    [rev |-> Fresh, marker |-> FALSE, claim |-> IF Claimed THEN doc.claim ELSE 0, live |-> Claimed]

\* _create_if_absent: a marker unless something is queued.
Marked == IF doc = NoDoc THEN doc' = Unclaimed(TRUE) ELSE UNCHANGED doc

\* Mutant of Released: the id of the claim goes and its lease stays.
ReleasedHalf(id) ==
    IF doc # NoDoc /\ doc.claim = id THEN doc' = [doc EXCEPT !.rev = Fresh, !.claim = 0]
    ELSE UNCHANGED doc

\* _release_claim drops the claim with this id and nothing else.
Released(id) ==
    IF doc # NoDoc /\ doc.claim = id THEN doc' = Unclaimed(doc.marker) ELSE UNCHANGED doc

\* A delete guarded by revision r finds it.
DeletedAt(r) == doc # NoDoc /\ doc.rev = r

----------------------------------------------------------------------------
(* The API. *)

\* A request commits a change and leaves its dispatch to a task (sync_user).
Commit ==
    /\ db < MaxCommit
    /\ db' = db + 1
    /\ dispatch' = dispatch \cup {db + 1}
    /\ UNCHANGED <<node, missed, doc, worker, fence, sync, faults>>

\* The task queues the user; tasks of two changes run in any order.
Enqueue(v) ==
    /\ v \in dispatch
    /\ dispatch' = dispatch \ {v}
    /\ doc' = Enqueued
    /\ UNCHANGED <<db, node, missed, worker, fence, sync, faults>>

\* It fails: the error is logged and the update is not queued.
EnqueueFails(v) ==
    /\ v \in dispatch /\ Fault("dispatch")
    /\ dispatch' = dispatch \ {v}
    /\ missed' = missed \cup {v}
    /\ UNCHANGED <<db, node, doc, worker, fence, sync>>

----------------------------------------------------------------------------
(* Delivery.  The loop that calls these steps is in the bridge package. *)

At(p, step) == worker[p].step = step
Done(p) == worker' = [worker EXCEPT ![p] = NoWork]
Unconfirmed(p) == worker' = [worker EXCEPT ![p] = [NoWork EXCEPT !.step = "unconfirmed"]]

\* No worker claims while a snapshot is under way here or elsewhere.
CheckFence(p) ==
    /\ At(p, "idle") /\ doc # NoDoc
    /\ ~fence.live /\ sync[p].step = "idle"
    /\ worker' = [worker EXCEPT ![p] = [NoWork EXCEPT !.step = "checked", !.gen = fence.gen]]
    /\ UNCHANGED <<db, node, dispatch, missed, doc, fence, sync, faults>>

\* Mutant of Claimable: refresh markers are left alone.
ClaimableUser == doc # NoDoc /\ ~doc.live /\ ~doc.marker

\* claim_users skips a document under an unexpired claim; a marker is replaced
\* by the user it stands for.
Claimable == doc # NoDoc /\ ~doc.live

Claim(p) ==
    /\ At(p, "checked") /\ Claimable
    /\ doc' = [rev |-> Fresh, marker |-> FALSE, claim |-> Fresh, live |-> TRUE]
    /\ worker' = [worker EXCEPT ![p].step = "claimed", ![p].rev = Fresh, ![p].claim = Fresh]
    /\ UNCHANGED <<db, node, dispatch, missed, fence, sync, faults>>

NothingToClaim(p) ==
    /\ At(p, "checked") /\ ~Claimable
    /\ Done(p)
    /\ UNCHANGED <<db, node, dispatch, missed, doc, fence, sync, faults>>

\* _current_state, after the claim.
ReadState(p) ==
    /\ At(p, "claimed")
    /\ worker' = [worker EXCEPT ![p].step = "read", ![p].fresh = db]
    /\ UNCHANGED <<db, node, dispatch, missed, doc, fence, sync, faults>>

Applied(v) == node' = v /\ missed' = missed \ (0..v)

Send(p) ==
    /\ At(p, "read")
    /\ Applied(worker[p].fresh)
    /\ worker' = [worker EXCEPT ![p].step = "sent", ![p].fresh = 0]
    /\ UNCHANGED <<db, dispatch, doc, fence, sync, faults>>

\* The read or the RPC fails, or the claim's time is over; the node may have
\* applied what was sent.
SendFails(p) ==
    /\ At(p, "claimed") \/ At(p, "read")
    /\ Fault("send")
    /\ \/ At(p, "read") /\ Applied(worker[p].fresh)
       \/ UNCHANGED <<node, missed>>
    /\ worker' = [worker EXCEPT ![p].step = "failed", ![p].fresh = 0, ![p].gen = 0]
    /\ UNCHANGED <<db, dispatch, doc, fence, sync>>

\* Mutant of Crossed: the generation is not compared.
CrossedNever(p) == FALSE

\* A snapshot was begun since the worker looked at the fence.
Crossed(p) == worker[p].gen # fence.gen

CompareGeneration(p) ==
    /\ At(p, "sent")
    /\ worker' = [worker EXCEPT ![p].step = IF Crossed(p) THEN "refresh" ELSE "ack", ![p].gen = 0]
    /\ UNCHANGED <<db, node, dispatch, missed, doc, fence, sync, faults>>

\* _ack_one: the claimed revision is removed; if it is gone already the user
\* is unconfirmed, and if it changed the claim on the newer one is released.
Ack(p) ==
    /\ At(p, "ack")
    /\ \/ /\ DeletedAt(worker[p].rev)
          /\ doc' = NoDoc
          /\ Done(p)
       \/ /\ doc = NoDoc
          /\ Unconfirmed(p)
          /\ UNCHANGED doc
       \/ /\ doc # NoDoc /\ ~DeletedAt(worker[p].rev)
          /\ Released(worker[p].claim)
          /\ Done(p)
    /\ UNCHANGED <<db, node, dispatch, missed, fence, sync, faults>>

\* The store refuses the delete: the document stays, without the claim.
AckFails(p) ==
    /\ At(p, "ack") /\ DeletedAt(worker[p].rev) /\ Fault("ack")
    /\ Released(worker[p].claim)
    /\ Done(p)
    /\ UNCHANGED <<db, node, dispatch, missed, fence, sync>>

\* request_refresh for what could not be confirmed or returned to the queue.
RequestRefresh(p) ==
    /\ At(p, "unconfirmed")
    /\ Marked
    /\ Done(p)
    /\ UNCHANGED <<db, node, dispatch, missed, fence, sync, faults>>

\* _requeue_one: the claim is dropped at its own revision, or the user is
\* reported and a claim on a newer document released.
Requeue(p) ==
    /\ At(p, "failed")
    /\ IF DeletedAt(worker[p].rev)
       THEN doc' = Unclaimed(FALSE) /\ Done(p)
       ELSE Released(worker[p].claim) /\ Unconfirmed(p)
    /\ UNCHANGED <<db, node, dispatch, missed, fence, sync, faults>>

\* _refresh_claimed_one: the claimed revision becomes a marker, or a marker is
\* created, or the claim on a newer document is released.
RefreshClaimed(p) ==
    /\ At(p, "refresh")
    /\ IF DeletedAt(worker[p].rev) \/ doc = NoDoc
       THEN doc' = Unclaimed(TRUE)
       ELSE Released(worker[p].claim)
    /\ Done(p)
    /\ UNCHANGED <<db, node, dispatch, missed, fence, sync, faults>>

\* The claim in the document outlives the delivery it stands for: nothing is
\* sent past the delivery deadline (_within_delivery_deadline).
InFlight(p) == worker[p].step \in {"claimed", "read"}

ClaimExpires ==
    /\ Claimed
    /\ \A p \in Panel : ~(InFlight(p) /\ worker[p].claim = doc.claim)
    /\ doc' = [doc EXCEPT !.live = FALSE]
    /\ UNCHANGED <<db, node, dispatch, missed, worker, fence, sync, faults>>

----------------------------------------------------------------------------
(* sync_full. *)

Ending(p) == sync' = [sync EXCEPT ![p] = [NoSync EXCEPT !.step = "end"]]
Holds(p) == fence.live /\ fence.holder = p

\* begin_full_sync
Begin(p, flush) ==
    /\ sync[p].step = "idle" /\ ~fence.live /\ fence.gen < MaxSync
    /\ fence' = [gen |-> fence.gen + 1, holder |-> p, live |-> TRUE]
    /\ sync' = [sync EXCEPT ![p] = [NoSync EXCEPT !.step = "begun", !.flush = flush]]
    /\ UNCHANGED <<db, node, dispatch, missed, doc, worker, faults>>

\* capture_queued_work waits until no delivery is in flight.
Quiet == ~Claimed

Capture(p) ==
    /\ sync[p].step = "begun" /\ Quiet
    /\ sync' = [sync EXCEPT ![p].step = "captured",
                            ![p].captured = IF doc # NoDoc /\ sync[p].flush THEN doc.rev ELSE 0]
    /\ UNCHANGED <<db, node, dispatch, missed, doc, worker, fence, faults>>

\* The users are read inside the fence.
ReadUsers(p) ==
    /\ sync[p].step = "captured"
    /\ sync' = [sync EXCEPT ![p].step = "loaded", ![p].snap = db]
    /\ UNCHANGED <<db, node, dispatch, missed, doc, worker, fence, faults>>

\* held.check, and the snapshot goes out.
Push(p) ==
    /\ sync[p].step = "loaded" /\ Holds(p)
    /\ sync' = [sync EXCEPT ![p].step = "pushing"]
    /\ UNCHANGED <<db, node, dispatch, missed, doc, worker, fence, faults>>

\* The node applies it.  The loss of the fence cancels the RPC.
PushLands(p) ==
    /\ sync[p].step = "pushing" /\ Holds(p)
    /\ Applied(sync[p].snap)
    /\ sync' = [sync EXCEPT ![p].step = "pushed", ![p].snap = 0]
    /\ UNCHANGED <<db, dispatch, doc, worker, fence, faults>>

PushFails(p) ==
    /\ sync[p].step \in {"begun", "captured", "pushing"} /\ Fault("push")
    /\ Ending(p)
    /\ UNCHANGED <<db, node, dispatch, missed, doc, worker, fence>>

\* The fence was lost: nothing is sent or retired.
HoldLost(p) ==
    /\ sync[p].step \in {"begun", "captured", "loaded", "pushing", "pushed"} /\ ~Holds(p)
    /\ Ending(p)
    /\ UNCHANGED <<db, node, dispatch, missed, doc, worker, fence, faults>>

\* retire_queued_work: exactly the captured revision goes, and only when the
\* caller asked for it.
Retire(p) ==
    /\ sync[p].step = "pushed" /\ Holds(p)
    /\ doc' = IF sync[p].captured # 0 /\ DeletedAt(sync[p].captured) THEN NoDoc ELSE doc
    /\ Ending(p)
    /\ UNCHANGED <<db, node, dispatch, missed, worker, fence, faults>>

\* end_full_sync
End(p) ==
    /\ sync[p].step = "end"
    /\ fence' = IF fence.holder = p THEN [fence EXCEPT !.live = FALSE, !.holder = NoDoc] ELSE fence
    /\ sync' = [sync EXCEPT ![p] = NoSync]
    /\ UNCHANGED <<db, node, dispatch, missed, doc, worker, faults>>

\* The fence is not renewed in time.
FenceExpires ==
    /\ fence.live
    /\ fence' = [fence EXCEPT !.live = FALSE]
    /\ UNCHANGED <<db, node, dispatch, missed, doc, worker, sync, faults>>

\* A panel dies with its delivery and its snapshot.
Crash(p) ==
    /\ Fault("crash")
    /\ worker[p] # NoWork \/ sync[p] # NoSync
    /\ worker' = [worker EXCEPT ![p] = NoWork]
    /\ sync' = [sync EXCEPT ![p] = NoSync]
    /\ UNCHANGED <<db, node, dispatch, missed, doc, fence>>

Deliver(p) ==
    \/ CheckFence(p) \/ Claim(p) \/ NothingToClaim(p) \/ ReadState(p) \/ Send(p)
    \/ CompareGeneration(p) \/ Ack(p) \/ RequestRefresh(p) \/ Requeue(p) \/ RefreshClaimed(p)

Snapshot(p) ==
    \/ Capture(p) \/ ReadUsers(p) \/ Push(p) \/ PushLands(p) \/ HoldLost(p) \/ Retire(p) \/ End(p)

Next ==
    \/ Commit \/ ClaimExpires \/ FenceExpires
    \/ \E v \in dispatch : Enqueue(v) \/ EnqueueFails(v)
    \/ \E p \in Panel :
        \/ CheckFence(p) \/ Claim(p) \/ NothingToClaim(p) \/ ReadState(p)
        \/ Send(p) \/ SendFails(p) \/ CompareGeneration(p) \/ Ack(p) \/ AckFails(p)
        \/ RequestRefresh(p) \/ Requeue(p) \/ RefreshClaimed(p)
        \/ Begin(p, TRUE) \/ Begin(p, FALSE) \/ Capture(p) \/ ReadUsers(p) \/ Push(p)
        \/ PushLands(p) \/ PushFails(p) \/ HoldLost(p) \/ Retire(p) \/ End(p)
        \/ Crash(p)

Spec == Init /\ [][Next]_vars

(* Tasks and workers run, requests end, and leases that nobody renews end. *)
FairSpec ==
    /\ Spec
    /\ WF_vars(\E v \in dispatch : Enqueue(v))
    /\ WF_vars(ClaimExpires) /\ WF_vars(FenceExpires)
    /\ \A p \in Panel : WF_vars(Deliver(p)) /\ WF_vars(Snapshot(p))

----------------------------------------------------------------------------

WorkerSteps == {"idle", "checked", "claimed", "read", "sent", "failed", "ack", "refresh", "unconfirmed"}
SyncSteps == {"idle", "begun", "captured", "loaded", "pushing", "pushed", "end"}

\* Every variable has its type, and an unexpired claim was taken by a claim of
\* some worker (_claim_doc).
TypeOK ==
    /\ db \in Versions /\ node \in Versions
    /\ dispatch \subseteq Versions /\ missed \subseteq Versions
    /\ doc = NoDoc \/ /\ doc \in [rev: Revisions, marker: BOOLEAN, claim: Revisions \cup {0}, live: BOOLEAN]
                      /\ doc.live => doc.claim # 0
    /\ worker \in [Panel -> [step: WorkerSteps, rev: Revisions \cup {0}, claim: Revisions \cup {0},
                             gen: 0..MaxSync, fresh: Versions]]
    /\ fence \in [gen: 0..MaxSync, holder: Panel \cup {NoDoc}, live: BOOLEAN]
    /\ sync \in [Panel -> [step: SyncSteps, flush: BOOLEAN, captured: Revisions \cup {0}, snap: Versions]]
    /\ faults \in 0..MaxFaults

\* The node is behind the database only while the user is queued, claimed, or
\* about to be queued: no acknowledgement, retirement or release removes the
\* only trace of a change the node does not have.  (A change whose dispatch
\* failed counts until the next delivery or snapshot that carries it.)
NothingForgotten == node # db => doc # NoDoc \/ db \in dispatch \cup missed

\* At most one worker has a delivery of the user in flight, so that an older
\* state never overtakes a newer one on its way to the node.
OneDelivery == \A p, q \in Panel : InFlight(p) /\ InFlight(q) => p = q

\* Once the changes, snapshots and faults are over, the node comes to hold
\* what the database holds, unless the last change was never queued.
Converges == <>[](node = db \/ db \in missed)

============================================================================
