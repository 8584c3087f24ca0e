--------------------------- MODULE NodeLifecycle ---------------------------
(***************************************************************************)
(* The lifecycle of one node as the panel's worker processes share it in a *)
(* NATS key-value bucket (app/node/nats_memory.py,                         *)
(* NatsNodeLifecycleCoordinator).  The document of the node holds its      *)
(* state (epoch, desired and observed status) and the lease of the worker  *)
(* that is starting, stopping or updating it.                              *)
(*                                                                         *)
(* Every operation reads the document with its revision, computes the next *)
(* document and writes it if the revision is still that one, up to 32      *)
(* times.  The read and the write are two steps here, so another worker    *)
(* may write between them; a write may also land and be reported lost.     *)
(***************************************************************************)
EXTENDS Naturals

CONSTANTS
    Workers,        \* the worker processes of the panel
    Operations,     \* what leases are taken for: "start", "stop" and the others
    Handed,         \* the states a release may hand over
    Reports,        \* the statuses update_observed may report
    LeaseSeconds,   \* how long a lease lasts without a heartbeat
    MaxTime,        \* bound: the clock stops here
    MaxToken,       \* bound: how many acquisitions are attempted
    MaxSeq,         \* bound: how many writes the bucket takes
    MaxClear,       \* bound: how often the node is removed
    NoDoc, NoLease, NoTask, NoState

ASSUME BoundsAssumption ==
    /\ LeaseSeconds \in Nat \ {0}
    /\ MaxTime \in Nat /\ MaxToken \in Nat /\ MaxSeq \in Nat /\ MaxClear \in Nat

Statuses == {"unknown", "healthy", "starting", "stopped", "stopping", "broken"}

ASSUME StatusAssumption ==
    /\ Handed \subseteq [desired: Statuses, observed: Statuses]
    /\ Reports \subseteq Statuses

Leases == [token: 1..MaxToken, until: Nat]
States == [epoch: Nat, desired: Statuses, observed: Statuses]
Docs == [state: States, lease: Leases \cup {NoLease}]

Held == [token: 1..MaxToken, epoch: Nat, until: Nat, cleared: 0..MaxClear]
Seen == [epoch: Nat, grants: Nat, cleared: 0..MaxClear]
Tasks == [kind: {"acquire", "release", "heartbeat", "observe"},
          rev: Nat, read: Docs \cup {NoDoc}, new: Docs, now: Nat, token: 0..MaxToken]

ASSUME MarksAssumption ==
    /\ NoDoc \notin Docs
    /\ NoLease \notin Leases \cup Held
    /\ NoTask \notin Tasks
    /\ NoState \notin Seen

VARIABLES
    doc,      \* the document of the node, NoDoc when the key is absent
    rev,      \* its revision, 0 when the key is absent
    seq,      \* the last revision the bucket gave out
    clock,
    tokens,   \* how many tokens (uuid4) were drawn
    task,     \* per worker, the write it is about to make
    lease,    \* per worker, the lease it believes it holds, and until when
    seen,     \* per worker, the epoch get_state told it
    grants,   \* history: how many acquisitions succeeded
    cleared   \* history: how often the document was deleted

vars == <<doc, rev, seq, clock, tokens, task, lease, seen, grants, cleared>>

----------------------------------------------------------------------------
(* The documents the operations compute from the one they read. *)

\* The document without a lease that a missing one stands for.
EmptyLifecycleDoc ==
    [state |-> [epoch |-> 0, desired |-> "unknown", observed |-> "unknown"],
     lease |-> NoLease]

DocOr(d) == IF d = NoDoc THEN EmptyLifecycleDoc ELSE d

\* Mutant of Leased: a lease is taken over whether or not it ran out.
LeasedNever(d, now) == d # NoDoc /\ d.lease # NoLease /\ FALSE

\* A lease that has not run out keeps every other worker away.
Leased(d, now) == d # NoDoc /\ d.lease # NoLease /\ d.lease.until > now

\* Mutant of Acquired: the epoch of the previous operation is kept.
AcquiredSameEpoch(d, op, token, now) ==
    LET s == DocOr(d).state IN
    [state |-> [epoch |-> IF s.epoch = 0 THEN 1 ELSE s.epoch,
                desired |-> s.desired, observed |-> s.observed],
     lease |-> [token |-> token, until |-> now + LeaseSeconds]]

\* try_acquire: the next epoch, and what the operation makes of the status.
Acquired(d, op, token, now) ==
    LET s == DocOr(d).state IN
    [state |-> [epoch    |-> s.epoch + 1,
                desired  |-> CASE op = "start" -> "healthy"
                               [] op = "stop" -> "stopped"
                               [] OTHER -> s.desired,
                observed |-> CASE op = "start" -> "starting"
                               [] op = "stop" -> "stopping"
                               [] OTHER -> s.observed],
     lease |-> [token |-> token, until |-> now + LeaseSeconds]]

\* Mutant of Released: the lease is emptied instead of dropped.
ReleasedEmpty(epoch, state) ==
    [state |-> [epoch |-> epoch, desired |-> state.desired, observed |-> state.observed],
     lease |-> [token |-> 0, until |-> 0]]

\* release: the state handed over (or the one it read), under the epoch of
\* the lease.
Released(epoch, state) ==
    [state |-> [epoch |-> epoch, desired |-> state.desired, observed |-> state.observed],
     lease |-> NoLease]

\* heartbeat: the same lease, for another lease_seconds.
Renewed(d, now) == [d EXCEPT !.lease = [@ EXCEPT !.until = now + LeaseSeconds]]

\* update_observed: only the observed status.
Observed(d, status) == [d EXCEPT !.state = [@ EXCEPT !.observed = status]]

\* Mutant of MayReport: a report is written whatever the epoch.
MayReportAny(d, w) == d # NoDoc

\* update_observed returns when the epoch is not the expected one; a state
\* is only ever read at an epoch an acquisition gave, so a missing document,
\* whose epoch is 0, never matches.
MayReport(d, w) == d # NoDoc /\ d.state.epoch = seen[w].epoch

HoldsToken(d, token) == d # NoDoc /\ d.lease # NoLease /\ d.lease.token = token

----------------------------------------------------------------------------

Init ==
    /\ doc = NoDoc /\ rev = 0 /\ seq = 0
    /\ clock = 0 /\ tokens = 0 /\ grants = 0 /\ cleared = 0
    /\ task = [w \in Workers |-> NoTask]
    /\ lease = [w \in Workers |-> NoLease]
    /\ seen = [w \in Workers |-> NoState]

\* What an operation is left with after its read: the document to write and
\* the revision it must still have.
WillWrite(w, kind, new, token) ==
    task' = [task EXCEPT ![w] =
        [kind |-> kind, rev |-> rev, read |-> doc, new |-> new, now |-> clock, token |-> token]]

\* try_acquire reads a document no one else has leased.
TryAcquire(w, op) ==
    /\ task[w] = NoTask /\ lease[w] = NoLease
    /\ tokens < MaxToken
    /\ ~Leased(doc, clock)
    /\ tokens' = tokens + 1
    /\ WillWrite(w, "acquire", Acquired(doc, op, tokens + 1, clock), tokens + 1)
    /\ UNCHANGED <<doc, rev, seq, clock, lease, seen, grants, cleared>>

\* release finds its token: the caller has given the lease up for good.
Release(w, state) ==
    /\ task[w] = NoTask /\ lease[w] # NoLease
    /\ HoldsToken(doc, lease[w].token)
    /\ WillWrite(w, "release", Released(lease[w].epoch, state), lease[w].token)
    /\ lease' = [lease EXCEPT ![w] = NoLease]
    /\ UNCHANGED <<doc, rev, seq, clock, tokens, seen, grants, cleared>>

\* release or heartbeat finds that the lease is another's, or none.
LeaseLost(w) ==
    /\ task[w] = NoTask /\ lease[w] # NoLease
    /\ ~HoldsToken(doc, lease[w].token)
    /\ lease' = [lease EXCEPT ![w] = NoLease]
    /\ UNCHANGED <<doc, rev, seq, clock, tokens, task, seen, grants, cleared>>

\* heartbeat finds its token and renews the lease, in time or late.
Heartbeat(w) ==
    /\ task[w] = NoTask /\ lease[w] # NoLease
    /\ HoldsToken(doc, lease[w].token)
    /\ WillWrite(w, "heartbeat", Renewed(doc, clock), lease[w].token)
    /\ UNCHANGED <<doc, rev, seq, clock, tokens, lease, seen, grants, cleared>>

\* get_state of a worker that checks the node's health or attaches to it.
GetState(w) ==
    /\ task[w] = NoTask /\ doc # NoDoc
    /\ seen' = [seen EXCEPT ![w] =
           [epoch |-> doc.state.epoch, grants |-> grants, cleared |-> cleared]]
    /\ UNCHANGED <<doc, rev, seq, clock, tokens, task, lease, grants, cleared>>

\* update_observed with the epoch get_state told, some time later.
UpdateObserved(w, status) ==
    /\ task[w] = NoTask /\ seen[w] # NoState
    /\ MayReport(doc, w)
    /\ WillWrite(w, "observe", Observed(doc, status), 0)
    /\ UNCHANGED <<doc, rev, seq, clock, tokens, lease, seen, grants, cleared>>

\* kv_cas_json: the write takes effect if no one wrote since the read.
CasHolds(w) == task[w].rev = rev /\ seq < MaxSeq

Written(w) ==
    /\ doc' = task[w].new
    /\ rev' = seq + 1
    /\ seq' = seq + 1
    /\ grants' = IF task[w].kind = "acquire" THEN grants + 1 ELSE grants

\* What the worker knows of its lease after the write it asked for.
Granted(w) ==
    [token |-> task[w].token, epoch |-> task[w].new.state.epoch,
     until |-> task[w].now + LeaseSeconds, cleared |-> cleared]

CasLands(w) ==
    /\ task[w] # NoTask /\ CasHolds(w)
    /\ Written(w)
    /\ task' = [task EXCEPT ![w] = NoTask]
    /\ lease' = IF task[w].kind \in {"acquire", "heartbeat"}
                THEN [lease EXCEPT ![w] = Granted(w)] ELSE lease
    /\ seen' = IF task[w].kind = "observe" THEN [seen EXCEPT ![w] = NoState] ELSE seen
    /\ UNCHANGED <<clock, tokens, cleared>>

\* The write lands, but both its answer and the read that would have told so
\* are lost: it is taken as lost and the operation reads again.  A released
\* lease is then found gone, and an acquisition finds its own lease in the way.
CasLandsUnknown(w) ==
    /\ task[w] # NoTask /\ CasHolds(w)
    /\ Written(w)
    /\ task' = [task EXCEPT ![w] = NoTask]
    /\ UNCHANGED <<clock, tokens, lease, seen, cleared>>

\* Another write came first (or the request was lost): the operation starts
\* over, or gives up after its last attempt.  A release that starts over reads
\* the document again and goes on only while the lease is still its own.
CasFails(w) ==
    /\ task[w] # NoTask
    /\ \/ task' = [task EXCEPT ![w] = NoTask]
       \/ /\ task[w].kind = "release" /\ HoldsToken(doc, task[w].token)
          /\ task' = [task EXCEPT ![w] = [@ EXCEPT !.rev = rev, !.read = doc, !.now = clock]]
    /\ UNCHANGED <<doc, rev, seq, clock, tokens, lease, seen, grants, cleared>>

\* The worker process dies and another takes its place.
Crash(w) ==
    /\ task[w] # NoTask \/ lease[w] # NoLease \/ seen[w] # NoState
    /\ task' = [task EXCEPT ![w] = NoTask]
    /\ lease' = [lease EXCEPT ![w] = NoLease]
    /\ seen' = [seen EXCEPT ![w] = NoState]
    /\ UNCHANGED <<doc, rev, seq, clock, tokens, grants, cleared>>

\* clear: the node was removed; the key is deleted at the revision just read.
Clear ==
    /\ doc # NoDoc
    /\ cleared < MaxClear /\ seq < MaxSeq
    /\ doc' = NoDoc /\ rev' = 0 /\ seq' = seq + 1
    /\ cleared' = cleared + 1
    /\ UNCHANGED <<clock, tokens, task, lease, seen, grants>>

Tick ==
    /\ clock < MaxTime
    /\ clock' = clock + 1
    /\ UNCHANGED <<doc, rev, seq, tokens, task, lease, seen, grants, cleared>>

Next ==
    \/ \E w \in Workers :
        \/ \E op \in Operations : TryAcquire(w, op)
        \/ \E state \in Handed : Release(w, state)
        \/ doc # NoDoc /\ Release(w, doc.state)
        \/ LeaseLost(w) \/ Heartbeat(w)
        \/ GetState(w)
        \/ \E s \in Reports : UpdateObserved(w, s)
        \/ CasLands(w) \/ CasLandsUnknown(w) \/ CasFails(w)
        \/ Crash(w)
    \/ Clear
    \/ Tick

Spec == Init /\ [][Next]_vars

----------------------------------------------------------------------------

\* Every variable has its type: what try_acquire, release and heartbeat write
\* is a document, and a lease is either absent or a real one.
TypeOK ==
    /\ doc \in Docs \cup {NoDoc}
    /\ rev \in Nat /\ seq \in Nat /\ clock \in Nat /\ grants \in Nat
    /\ tokens \in 0..MaxToken /\ cleared \in 0..MaxClear
    /\ task \in [Workers -> Tasks \cup {NoTask}]
    /\ lease \in [Workers -> Held \cup {NoLease}]
    /\ seen \in [Workers -> Seen \cup {NoState}]

\* A worker whose lease has not run out, by the last answer it got, still
\* holds the node: no other worker took it over, released it or renewed a
\* lease of its own over it, whatever they read before (try_acquire, release
\* and heartbeat).  Only the removal of the node may take it away.
InTime(w) ==
    /\ lease[w] # NoLease
    /\ lease[w].until > clock
    /\ lease[w].cleared = cleared

LeaseKept == \A w \in Workers : InTime(w) => HoldsToken(doc, lease[w].token)

\* So two workers never operate on the node at once (start while another stops).
OneOperator == \A v, w \in Workers : InTime(v) /\ InTime(w) => v = w

\* A status read before an operation began is not written over what that
\* operation set: the epoch get_state told is refused by update_observed once
\* another lease was granted, unless the document was deleted meanwhile (the
\* epochs start again from 1 then).
Reported(w) ==
    /\ task[w] # NoTask
    /\ task[w].kind = "observe"
    /\ seq' # seq
    /\ doc' = task[w].new
    /\ task'[w] = NoTask

StaleReportRefused ==
    [][\A w \in Workers :
        Reported(w) /\ seen[w].cleared = cleared => seen[w].grants = grants]_vars

\* An epoch is never reused while the node exists: every lease of it is under
\* an epoch of its own, and no release or report moves the epoch back.
EpochGrows ==
    [][doc # NoDoc /\ doc' # NoDoc =>
        /\ doc'.state.epoch >= doc.state.epoch
        /\ grants' # grants => doc'.state.epoch > doc.state.epoch]_vars

============================================================================
