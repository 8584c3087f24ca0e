------------------------ MODULE NodeLifecycle_proofs ------------------------
(***************************************************************************)
(* Proofs about the lifecycle document of a node, for any set of workers,  *)
(* any lease time and any bounds: a lease in time is kept, two workers are *)
(* never both in time, an epoch is never reused and a status read before   *)
(* an operation is not written over it.                                    *)
(***************************************************************************)
EXTENDS NodeLifecycle, TLAPS

-----------------------------------------------------------------------------
(* The inductive invariant. *)

\* The key is absent exactly at revision 0, and no revision is ahead of the
\* bucket's.
Revisions ==
    /\ rev <= seq
    /\ rev = 0 <=> doc = NoDoc
    /\ doc # NoDoc /\ doc.lease # NoLease => doc.lease.until <= clock + LeaseSeconds

\* What a worker read is still there as long as the revision is.
Fresh(w) ==
    task[w] # NoTask =>
        /\ task[w].rev <= seq
        /\ task[w].now <= clock
        /\ task[w].rev = 0 <=> task[w].read = NoDoc
        /\ task[w].rev = rev => task[w].read = doc

\* What each operation found when it read, and what it is about to write.
Planned(w) ==
    task[w] # NoTask =>
        /\ task[w].kind = "acquire" =>
            /\ ~Leased(task[w].read, task[w].now)
            /\ task[w].new.state.epoch = DocOr(task[w].read).state.epoch + 1
            /\ task[w].new.lease = [token |-> task[w].token, until |-> task[w].now + LeaseSeconds]
            /\ lease[w] = NoLease
        /\ task[w].kind = "release" =>
            /\ HoldsToken(task[w].read, task[w].token)
            /\ task[w].new.lease = NoLease
            /\ lease[w] = NoLease
            /\ task[w].new.state.epoch = task[w].read.state.epoch
        /\ task[w].kind = "heartbeat" =>
            /\ HoldsToken(task[w].read, task[w].token)
            /\ task[w].new.state = task[w].read.state
            /\ task[w].new.lease = [token |-> task[w].token, until |-> task[w].now + LeaseSeconds]
            /\ task[w].read.lease.until <= task[w].now + LeaseSeconds
            /\ lease[w] # NoLease
            /\ task[w].token = lease[w].token
        /\ task[w].kind = "observe" =>
            /\ task[w].read # NoDoc
            /\ task[w].new.lease = task[w].read.lease
            /\ task[w].new.state.epoch = task[w].read.state.epoch
            /\ seen[w] # NoState
            /\ seen[w].epoch = task[w].read.state.epoch

\* A token belongs to the one worker that drew it.
Owns(w, t) ==
    \/ lease[w] # NoLease /\ lease[w].token = t
    \/ task[w] # NoTask /\ task[w].kind # "observe" /\ task[w].token = t

OneOwner ==
    /\ \A w \in Workers, t \in 0..MaxToken : Owns(w, t) => t \in 1..tokens
    /\ \A v, w \in Workers, t \in 0..MaxToken : Owns(v, t) /\ Owns(w, t) => v = w

\* A lease found in the document is the worker's own, under its epoch and for
\* at least as long as the worker believes.
Known(w) ==
    lease[w] # NoLease =>
        /\ lease[w].cleared <= cleared
        /\ HoldsToken(doc, lease[w].token) => doc.state.epoch = lease[w].epoch
        /\ lease[w].cleared = cleared /\ HoldsToken(doc, lease[w].token) =>
            lease[w].until <= doc.lease.until

\* The epoch of a lease being released is still the document's.
Leaving(w) ==
    task[w] # NoTask /\ task[w].kind = "release" /\ HoldsToken(doc, task[w].token) =>
        doc.state.epoch = task[w].new.state.epoch

\* An epoch that was read is not ahead, and is behind once a lease was granted.
Behind(w) ==
    seen[w] # NoState =>
        /\ seen[w].cleared <= cleared
        /\ seen[w].cleared = cleared =>
            /\ doc # NoDoc
            /\ seen[w].epoch <= doc.state.epoch
            /\ seen[w].epoch = doc.state.epoch => seen[w].grants = grants

IInv ==
    /\ TypeOK
    /\ Revisions
    /\ \A w \in Workers : Fresh(w)
    /\ \A w \in Workers : Planned(w)
    /\ OneOwner
    /\ \A w \in Workers : Known(w)
    /\ \A w \in Workers : Leaving(w)
    /\ \A w \in Workers : Behind(w)
    /\ LeaseKept

-----------------------------------------------------------------------------
(* The documents and tasks the operations build. *)

USE DEF Docs, States, Leases, Held, Seen, Tasks

LEMMA DocTypes ==
    ASSUME NEW d \in Docs \cup {NoDoc}, NEW now \in Nat
    PROVE  /\ \A op \in Operations, t \in 1..MaxToken : Acquired(d, op, t, now) \in Docs
           /\ DocOr(d) \in Docs
           /\ \A e \in Nat, st \in [desired: Statuses, observed: Statuses] :
                Released(e, st) \in Docs
           /\ d # NoDoc /\ d.lease # NoLease => Renewed(d, now) \in Docs
           /\ \A st \in Statuses : d # NoDoc => Observed(d, st) \in Docs
<1>1. DocOr(d) \in Docs
  BY DEF DocOr, EmptyLifecycleDoc, Statuses
<1>2. ASSUME NEW op \in Operations, NEW t \in 1..MaxToken
      PROVE  Acquired(d, op, t, now) \in Docs
  <2>1. now + LeaseSeconds \in Nat
    BY BoundsAssumption
  <2>2. DocOr(d).state \in States
    BY <1>1
  <2>3. [epoch |-> DocOr(d).state.epoch + 1,
         desired |-> CASE op = "start" -> "healthy" [] op = "stop" -> "stopped"
                       [] OTHER -> DocOr(d).state.desired,
         observed |-> CASE op = "start" -> "starting" [] op = "stop" -> "stopping"
                       [] OTHER -> DocOr(d).state.observed] \in States
    BY <2>2 DEF Statuses
  <2> QED
    BY <2>1, <2>3 DEF Acquired
<1>3. ASSUME NEW e \in Nat, NEW st \in [desired: Statuses, observed: Statuses]
      PROVE  Released(e, st) \in Docs
  BY DEF Released
<1>4. ASSUME d # NoDoc, d.lease # NoLease PROVE Renewed(d, now) \in Docs
  <2>1. now + LeaseSeconds \in Nat
    BY BoundsAssumption
  <2> QED
    BY <1>4, <2>1 DEF Renewed
<1>5. ASSUME NEW st \in Statuses, d # NoDoc PROVE Observed(d, st) \in Docs
  BY <1>5 DEF Observed
<1> QED
  BY <1>1, <1>2, <1>3, <1>4, <1>5

\* What the read step of an operation leaves.
LEMMA WillWriteFacts ==
    ASSUME TypeOK, NEW w \in Workers, NEW kind \in {"acquire", "release", "heartbeat", "observe"},
           NEW new \in Docs, NEW token \in 0..MaxToken, WillWrite(w, kind, new, token)
    PROVE  /\ task' \in [Workers -> Tasks \cup {NoTask}]
           /\ task'[w] = [kind |-> kind, rev |-> rev, read |-> doc, new |-> new,
                          now |-> clock, token |-> token]
           /\ task'[w] # NoTask
           /\ \A v \in Workers : v # w => task'[v] = task[v]
BY MarksAssumption DEF WillWrite, TypeOK

LEMMA InitInv == Init => IInv
<1> SUFFICES ASSUME Init PROVE IInv
  OBVIOUS
<1>1. TypeOK
  BY BoundsAssumption DEF Init, TypeOK
<1>2. Revisions
  BY DEF Init, Revisions
<1>3. \A w \in Workers : task[w] = NoTask /\ lease[w] = NoLease /\ seen[w] = NoState
  BY DEF Init
<1> QED
  BY <1>1, <1>2, <1>3
  DEF IInv, Fresh, Planned, OneOwner, Owns, Known, Leaving, Behind, LeaseKept, InTime

LEMMA TryAcquireStep ==
    ASSUME IInv, NEW w \in Workers, NEW op \in Operations, TryAcquire(w, op)
    PROVE  IInv'
<1> DEFINE new == Acquired(doc, op, tokens + 1, clock)
<1>1. new \in Docs /\ tokens + 1 \in 0..MaxToken /\ "acquire" \in {"acquire", "release", "heartbeat", "observe"}
  <2>1. doc \in Docs \cup {NoDoc} /\ clock \in Nat
    BY DEF IInv, TypeOK
  <2>2. tokens + 1 \in 1..MaxToken
    BY BoundsAssumption DEF IInv, TypeOK, TryAcquire
  <2>3. new \in Docs
    BY <2>1, <2>2, DocTypes
  <2> QED
    BY <2>2, <2>3
<1>2. WillWrite(w, "acquire", new, tokens + 1)
  BY DEF TryAcquire
<1>3. TypeOK
  BY DEF IInv
<1> HIDE DEF new
<1>4. /\ task' \in [Workers -> Tasks \cup {NoTask}]
      /\ task'[w] = [kind |-> "acquire", rev |-> rev, read |-> doc, new |-> new,
                     now |-> clock, token |-> tokens + 1]
      /\ task'[w] # NoTask
      /\ \A v \in Workers : v # w => task'[v] = task[v]
  BY <1>1, <1>2, <1>3, WillWriteFacts
<1>5. TypeOK'
  BY <1>3, <1>4, BoundsAssumption DEF TypeOK, TryAcquire
<1>6. Revisions'
  BY DEF IInv, Revisions, TryAcquire
<1>7. \A v \in Workers : Fresh(v)'
  BY <1>3, <1>4 DEF IInv, TypeOK, Fresh, Revisions, TryAcquire
<1>8. \A v \in Workers : Planned(v)'
  BY <1>3, <1>4, DocTypes, BoundsAssumption DEF IInv, TypeOK, Planned, TryAcquire, new, Acquired, Released, Renewed, Observed, HoldsToken, Leased, MayReport, DocOr, Known, Revisions
<1>9. OneOwner'
  BY <1>3, <1>4 DEF IInv, TypeOK, OneOwner, Owns, TryAcquire
<1>10. \A v \in Workers : Known(v)'
  BY <1>3 DEF IInv, TypeOK, Known, HoldsToken, TryAcquire
<1>11. \A v \in Workers : Leaving(v)'
  BY <1>3, <1>4 DEF IInv, TypeOK, Leaving, HoldsToken, Known, TryAcquire, new, Released
<1>12. \A v \in Workers : Behind(v)'
  BY DEF IInv, Behind, TryAcquire
<1>13. LeaseKept'
  BY <1>3 DEF IInv, TypeOK, LeaseKept, InTime, HoldsToken, TryAcquire
<1> QED
  BY <1>5, <1>6, <1>7, <1>8, <1>9, <1>10, <1>11, <1>12, <1>13 DEF IInv

LEMMA ReleaseStep ==
    ASSUME IInv, NEW w \in Workers, NEW state \in [desired: Statuses, observed: Statuses], Release(w, state)
    PROVE  IInv'
<1> DEFINE new == Released(lease[w].epoch, state)
<1>1. new \in Docs /\ lease[w].token \in 0..MaxToken /\ "release" \in {"acquire", "release", "heartbeat", "observe"}
  <2>1. doc \in Docs \cup {NoDoc} /\ clock \in Nat
    BY DEF IInv, TypeOK
  <2>2. lease[w] \in Held
    BY DEF IInv, TypeOK, Release
  <2>3. lease[w].epoch \in Nat /\ lease[w].token \in 0..MaxToken
    BY <2>2
  <2>4. new \in Docs
    BY <2>1, <2>3, DocTypes
  <2> QED
    BY <2>3, <2>4
<1>2. WillWrite(w, "release", new, lease[w].token)
  BY DEF Release
<1>3. TypeOK
  BY DEF IInv
<1> HIDE DEF new
<1>4. /\ task' \in [Workers -> Tasks \cup {NoTask}]
      /\ task'[w] = [kind |-> "release", rev |-> rev, read |-> doc, new |-> new,
                     now |-> clock, token |-> lease[w].token]
      /\ task'[w] # NoTask
      /\ \A v \in Workers : v # w => task'[v] = task[v]
  BY <1>1, <1>2, <1>3, WillWriteFacts
<1>5. TypeOK'
  BY <1>3, <1>4, BoundsAssumption DEF TypeOK, Release
<1>6. Revisions'
  BY DEF IInv, Revisions, Release
<1>7. \A v \in Workers : Fresh(v)'
  BY <1>3, <1>4 DEF IInv, TypeOK, Fresh, Revisions, Release
<1>8. \A v \in Workers : Planned(v)'
  BY <1>3, <1>4, DocTypes, BoundsAssumption DEF IInv, TypeOK, Planned, Release, new, Acquired, Released, Renewed, Observed, HoldsToken, Leased, MayReport, DocOr, Known, Revisions
<1>9. OneOwner'
  BY <1>3, <1>4 DEF IInv, TypeOK, OneOwner, Owns, Release
<1>10. \A v \in Workers : Known(v)'
  BY <1>3 DEF IInv, TypeOK, Known, HoldsToken, Release
<1>11. \A v \in Workers : Leaving(v)'
  <2>1. new.state.epoch = lease[w].epoch
    BY DEF new, Released
  <2>2. Leaving(w)'
    BY <1>4, <2>1 DEF IInv, Leaving, HoldsToken, Known, Release
  <2>3. ASSUME NEW v \in Workers, v # w PROVE Leaving(v)'
    BY <1>4, <2>3 DEF IInv, Leaving, HoldsToken, Release
  <2> QED
    BY <2>2, <2>3
<1>12. \A v \in Workers : Behind(v)'
  BY DEF IInv, Behind, Release
<1>13. LeaseKept'
  BY <1>3 DEF IInv, TypeOK, LeaseKept, InTime, HoldsToken, Release
<1> QED
  BY <1>5, <1>6, <1>7, <1>8, <1>9, <1>10, <1>11, <1>12, <1>13 DEF IInv

LEMMA HeartbeatStep ==
    ASSUME IInv, NEW w \in Workers, Heartbeat(w)
    PROVE  IInv'
<1> DEFINE new == Renewed(doc, clock)
<1>1. new \in Docs /\ lease[w].token \in 0..MaxToken /\ "heartbeat" \in {"acquire", "release", "heartbeat", "observe"}
  <2>1. doc \in Docs \cup {NoDoc} /\ clock \in Nat
    BY DEF IInv, TypeOK
  <2>2. lease[w] \in Held
    BY DEF IInv, TypeOK, Heartbeat
  <2>3. lease[w].token \in 0..MaxToken
    BY <2>2
  <2>4. doc # NoDoc /\ doc.lease # NoLease
    BY DEF Heartbeat, HoldsToken
  <2>5. new \in Docs
    BY <2>1, <2>4, DocTypes
  <2> QED
    BY <2>3, <2>5
<1>2. WillWrite(w, "heartbeat", new, lease[w].token)
  BY DEF Heartbeat
<1>3. TypeOK
  BY DEF IInv
<1> HIDE DEF new
<1>4. /\ task' \in [Workers -> Tasks \cup {NoTask}]
      /\ task'[w] = [kind |-> "heartbeat", rev |-> rev, read |-> doc, new |-> new,
                     now |-> clock, token |-> lease[w].token]
      /\ task'[w] # NoTask
      /\ \A v \in Workers : v # w => task'[v] = task[v]
  BY <1>1, <1>2, <1>3, WillWriteFacts
<1>5. TypeOK'
  BY <1>3, <1>4, BoundsAssumption DEF TypeOK, Heartbeat
<1>6. Revisions'
  BY DEF IInv, Revisions, Heartbeat
<1>7. \A v \in Workers : Fresh(v)'
  BY <1>3, <1>4 DEF IInv, TypeOK, Fresh, Revisions, Heartbeat
<1>8. \A v \in Workers : Planned(v)'
  BY <1>3, <1>4, DocTypes, BoundsAssumption DEF IInv, TypeOK, Planned, Heartbeat, new, Acquired, Released, Renewed, Observed, HoldsToken, Leased, MayReport, DocOr, Known, Revisions
<1>9. OneOwner'
  BY <1>3, <1>4 DEF IInv, TypeOK, OneOwner, Owns, Heartbeat
<1>10. \A v \in Workers : Known(v)'
  BY <1>3 DEF IInv, TypeOK, Known, HoldsToken, Heartbeat
<1>11. \A v \in Workers : Leaving(v)'
  BY <1>3, <1>4 DEF IInv, TypeOK, Leaving, HoldsToken, Known, Heartbeat, new, Released
<1>12. \A v \in Workers : Behind(v)'
  BY DEF IInv, Behind, Heartbeat
<1>13. LeaseKept'
  BY <1>3 DEF IInv, TypeOK, LeaseKept, InTime, HoldsToken, Heartbeat
<1> QED
  BY <1>5, <1>6, <1>7, <1>8, <1>9, <1>10, <1>11, <1>12, <1>13 DEF IInv

LEMMA UpdateObservedStep ==
    ASSUME IInv, NEW w \in Workers, NEW st \in Reports, UpdateObserved(w, st)
    PROVE  IInv'
<1> DEFINE new == Observed(doc, st)
<1>1. new \in Docs /\ 0 \in 0..MaxToken /\ "observe" \in {"acquire", "release", "heartbeat", "observe"}
  BY DocTypes, BoundsAssumption, StatusAssumption, MarksAssumption DEF IInv, TypeOK, UpdateObserved, HoldsToken, MayReport
<1>2. WillWrite(w, "observe", new, 0)
  BY DEF UpdateObserved
<1>3. TypeOK
  BY DEF IInv
<1> HIDE DEF new
<1>4. /\ task' \in [Workers -> Tasks \cup {NoTask}]
      /\ task'[w] = [kind |-> "observe", rev |-> rev, read |-> doc, new |-> new,
                     now |-> clock, token |-> 0]
      /\ task'[w] # NoTask
      /\ \A v \in Workers : v # w => task'[v] = task[v]
  BY <1>1, <1>2, <1>3, WillWriteFacts
<1>5. TypeOK'
  BY <1>3, <1>4, BoundsAssumption DEF TypeOK, UpdateObserved
<1>6. Revisions'
  BY DEF IInv, Revisions, UpdateObserved
<1>7. \A v \in Workers : Fresh(v)'
  BY <1>3, <1>4 DEF IInv, TypeOK, Fresh, Revisions, UpdateObserved
<1>8. \A v \in Workers : Planned(v)'
  BY <1>3, <1>4, DocTypes, BoundsAssumption DEF IInv, TypeOK, Planned, UpdateObserved, new, Acquired, Released, Renewed, Observed, HoldsToken, Leased, MayReport, DocOr, Known, Revisions
<1>9. OneOwner'
  <2>1. \A v \in Workers, t \in 0..MaxToken : Owns(v, t)' => Owns(v, t)
    BY <1>4 DEF Owns, UpdateObserved
  <2> QED
    BY <2>1 DEF IInv, OneOwner, UpdateObserved
<1>10. \A v \in Workers : Known(v)'
  BY <1>3 DEF IInv, TypeOK, Known, HoldsToken, UpdateObserved
<1>11. \A v \in Workers : Leaving(v)'
  BY <1>3, <1>4 DEF IInv, TypeOK, Leaving, HoldsToken, Known, UpdateObserved, new, Released
<1>12. \A v \in Workers : Behind(v)'
  BY DEF IInv, Behind, UpdateObserved
<1>13. LeaseKept'
  BY <1>3 DEF IInv, TypeOK, LeaseKept, InTime, HoldsToken, UpdateObserved
<1> QED
  BY <1>5, <1>6, <1>7, <1>8, <1>9, <1>10, <1>11, <1>12, <1>13 DEF IInv

LEMMA LeaseLostStep ==
    ASSUME IInv, NEW w \in Workers, LeaseLost(w)
    PROVE  IInv'
<1>1. TypeOK'
  BY MarksAssumption, BoundsAssumption DEF IInv, TypeOK, LeaseLost
<1>2. Revisions'
  BY DEF IInv, TypeOK, Revisions, LeaseLost
<1>3. \A v \in Workers : Fresh(v)'
  BY DEF IInv, TypeOK, Fresh, Revisions, LeaseLost
<1>4. \A v \in Workers : Planned(v)'
  BY DEF IInv, TypeOK, Planned, LeaseLost
<1>5. OneOwner'
  BY DEF IInv, TypeOK, OneOwner, Owns, LeaseLost
<1>6. \A v \in Workers : Known(v)'
  BY DEF IInv, TypeOK, Known, HoldsToken, LeaseLost
<1>7. \A v \in Workers : Leaving(v)'
  BY DEF IInv, TypeOK, Leaving, HoldsToken, LeaseLost
<1>8. \A v \in Workers : Behind(v)'
  BY DEF IInv, TypeOK, Behind, LeaseLost
<1>9. LeaseKept'
  BY DEF IInv, TypeOK, LeaseKept, InTime, HoldsToken, LeaseLost
<1> QED
  BY <1>1, <1>2, <1>3, <1>4, <1>5, <1>6, <1>7, <1>8, <1>9 DEF IInv

LEMMA GetStateStep ==
    ASSUME IInv, NEW w \in Workers, GetState(w)
    PROVE  IInv'
<1>1. TypeOK'
  BY MarksAssumption, BoundsAssumption DEF IInv, TypeOK, GetState
<1>2. Revisions'
  BY DEF IInv, TypeOK, Revisions, GetState
<1>3. \A v \in Workers : Fresh(v)'
  BY DEF IInv, TypeOK, Fresh, Revisions, GetState
<1>4. \A v \in Workers : Planned(v)'
  BY DEF IInv, TypeOK, Planned, GetState
<1>5. OneOwner'
  BY DEF IInv, TypeOK, OneOwner, Owns, GetState
<1>6. \A v \in Workers : Known(v)'
  BY DEF IInv, TypeOK, Known, HoldsToken, GetState
<1>7. \A v \in Workers : Leaving(v)'
  BY DEF IInv, TypeOK, Leaving, HoldsToken, GetState
<1>8. \A v \in Workers : Behind(v)'
  BY DEF IInv, TypeOK, Behind, GetState
<1>9. LeaseKept'
  BY DEF IInv, TypeOK, LeaseKept, InTime, HoldsToken, GetState
<1> QED
  BY <1>1, <1>2, <1>3, <1>4, <1>5, <1>6, <1>7, <1>8, <1>9 DEF IInv

LEMMA CasFailsStep ==
    ASSUME IInv, NEW w \in Workers, CasFails(w)
    PROVE  IInv'
<1> DEFINE again == [task[w] EXCEPT !.rev = rev, !.read = doc, !.now = clock]
<1>1. /\ task[w] \in Tasks /\ task[w] # NoTask
      /\ UNCHANGED <<doc, rev, seq, clock, tokens, lease, seen, grants, cleared>>
  BY DEF IInv, TypeOK, CasFails
<1>2. CASE task' = [task EXCEPT ![w] = NoTask]
  <2>1. TypeOK'
    BY <1>1, <1>2 DEF IInv, TypeOK
  <2>2. task'[w] = NoTask /\ \A v \in Workers : v # w => task'[v] = task[v]
    BY <1>2 DEF IInv, TypeOK
  <2>3. Revisions' /\ LeaseKept'
    BY <1>1 DEF IInv, Revisions, LeaseKept, InTime, HoldsToken
  <2>4. ASSUME NEW v \in Workers
        PROVE  Fresh(v)' /\ Planned(v)' /\ Known(v)' /\ Leaving(v)' /\ Behind(v)'
    BY <1>1, <2>2 DEF IInv, Fresh, Planned, Known, Leaving, Behind, HoldsToken
  <2>5. OneOwner'
    BY <1>1, <2>2 DEF IInv, OneOwner, Owns
  <2> QED
    BY <2>1, <2>3, <2>4, <2>5 DEF IInv
<1>3. CASE /\ task[w].kind = "release" /\ HoldsToken(doc, task[w].token)
           /\ task' = [task EXCEPT ![w] = again]
  <2>1. /\ again \in Tasks /\ again # NoTask
        /\ again.kind = "release" /\ again.rev = rev /\ again.read = doc
        /\ again.now = clock /\ again.token = task[w].token /\ again.new = task[w].new
    <3>1. rev \in Nat /\ clock \in Nat /\ doc \in Docs \cup {NoDoc}
      BY DEF IInv, TypeOK
    <3>2. again \in Tasks
      BY <1>1, <3>1
    <3>3. again.kind = "release" /\ again.rev = rev /\ again.read = doc
      BY <1>1, <1>3
    <3>4. again.now = clock /\ again.token = task[w].token /\ again.new = task[w].new
      BY <1>1, <1>3
    <3> QED
      BY <3>2, <3>3, <3>4, MarksAssumption
  <2> HIDE DEF again
  <2>2. task'[w] = again /\ \A v \in Workers : v # w => task'[v] = task[v]
    BY <1>3 DEF IInv, TypeOK
  <2>3. TypeOK'
    BY <1>1, <1>3, <2>1 DEF IInv, TypeOK
  <2>4. Revisions' /\ LeaseKept'
    BY <1>1 DEF IInv, Revisions, LeaseKept, InTime, HoldsToken
  <2>5. Fresh(w)' /\ Planned(w)' /\ Leaving(w)'
    <3>1. Leaving(w) /\ Planned(w) /\ Revisions
      BY DEF IInv
    <3>2. Fresh(w)'
      BY <1>1, <2>1, <2>2, <3>1 DEF IInv, TypeOK, Fresh, Revisions
    <3>3. Planned(w)'
      BY <1>1, <1>3, <2>1, <2>2, <3>1 DEF Planned, Leaving, HoldsToken
    <3>4. Leaving(w)'
      BY <1>1, <1>3, <2>1, <2>2, <3>1 DEF Leaving, HoldsToken
    <3> QED
      BY <3>2, <3>3, <3>4
  <2>6. ASSUME NEW v \in Workers, v # w
        PROVE  Fresh(v)' /\ Planned(v)' /\ Leaving(v)'
    BY <1>1, <2>2, <2>6 DEF IInv, Fresh, Planned, Leaving, HoldsToken
  <2>7. ASSUME NEW v \in Workers PROVE Known(v)' /\ Behind(v)'
    BY <1>1 DEF IInv, Known, Behind, HoldsToken
  <2>8. OneOwner'
    <3>1. \A v \in Workers, t \in 0..MaxToken : Owns(v, t)' => Owns(v, t)
      BY <1>1, <1>3, <2>1, <2>2 DEF Owns
    <3> QED
      BY <1>1, <3>1 DEF IInv, OneOwner
  <2> QED
    BY <2>3, <2>4, <2>5, <2>6, <2>7, <2>8 DEF IInv
<1> QED
  BY <1>2, <1>3 DEF CasFails

LEMMA CrashStep ==
    ASSUME IInv, NEW w \in Workers, Crash(w)
    PROVE  IInv'
<1>1. TypeOK'
  BY MarksAssumption, BoundsAssumption DEF IInv, TypeOK, Crash
<1>2. Revisions'
  BY DEF IInv, TypeOK, Revisions, Crash
<1>3. \A v \in Workers : Fresh(v)'
  BY DEF IInv, TypeOK, Fresh, Revisions, Crash
<1>4. \A v \in Workers : Planned(v)'
  BY DEF IInv, TypeOK, Planned, Crash
<1>5. OneOwner'
  BY DEF IInv, TypeOK, OneOwner, Owns, Crash
<1>6. \A v \in Workers : Known(v)'
  BY DEF IInv, TypeOK, Known, HoldsToken, Crash
<1>7. \A v \in Workers : Leaving(v)'
  BY DEF IInv, TypeOK, Leaving, HoldsToken, Crash
<1>8. \A v \in Workers : Behind(v)'
  BY DEF IInv, TypeOK, Behind, Crash
<1>9. LeaseKept'
  BY DEF IInv, TypeOK, LeaseKept, InTime, HoldsToken, Crash
<1> QED
  BY <1>1, <1>2, <1>3, <1>4, <1>5, <1>6, <1>7, <1>8, <1>9 DEF IInv

LEMMA ClearStep ==
    ASSUME IInv, Clear
    PROVE  IInv'
<1>1. TypeOK'
  BY MarksAssumption, BoundsAssumption DEF IInv, TypeOK, Clear
<1>2. Revisions'
  BY DEF IInv, TypeOK, Revisions, Clear
<1>3. \A v \in Workers : Fresh(v)'
  BY DEF IInv, TypeOK, Fresh, Revisions, Clear
<1>4. \A v \in Workers : Planned(v)'
  BY DEF IInv, TypeOK, Planned, Clear
<1>5. OneOwner'
  BY DEF IInv, TypeOK, OneOwner, Owns, Clear
<1>6. \A v \in Workers : Known(v)'
  BY DEF IInv, TypeOK, Known, HoldsToken, Clear
<1>7. \A v \in Workers : Leaving(v)'
  BY DEF IInv, TypeOK, Leaving, HoldsToken, Clear
<1>8. \A v \in Workers : Behind(v)'
  BY DEF IInv, TypeOK, Behind, Clear
<1>9. LeaseKept'
  BY DEF IInv, TypeOK, LeaseKept, InTime, HoldsToken, Known, Clear
<1> QED
  BY <1>1, <1>2, <1>3, <1>4, <1>5, <1>6, <1>7, <1>8, <1>9 DEF IInv

LEMMA TickStep ==
    ASSUME IInv, Tick
    PROVE  IInv'
<1>1. TypeOK'
  BY MarksAssumption, BoundsAssumption DEF IInv, TypeOK, Tick
<1>2. Revisions'
  BY BoundsAssumption DEF IInv, TypeOK, Revisions, Tick
<1>3. \A v \in Workers : Fresh(v)'
  BY DEF IInv, TypeOK, Fresh, Revisions, Tick
<1>4. \A v \in Workers : Planned(v)'
  BY DEF IInv, TypeOK, Planned, Tick
<1>5. OneOwner'
  BY DEF IInv, TypeOK, OneOwner, Owns, Tick
<1>6. \A v \in Workers : Known(v)'
  BY DEF IInv, TypeOK, Known, HoldsToken, Tick
<1>7. \A v \in Workers : Leaving(v)'
  BY DEF IInv, TypeOK, Leaving, HoldsToken, Tick
<1>8. \A v \in Workers : Behind(v)'
  BY DEF IInv, TypeOK, Behind, Tick
<1>9. LeaseKept'
  BY DEF IInv, TypeOK, LeaseKept, InTime, HoldsToken, Tick
<1> QED
  BY <1>1, <1>2, <1>3, <1>4, <1>5, <1>6, <1>7, <1>8, <1>9 DEF IInv

\* What a write that takes effect finds and leaves.
LEMMA WrittenFacts ==
    ASSUME IInv, NEW w \in Workers, task[w] # NoTask, CasHolds(w), Written(w)
    PROVE  /\ task[w] \in Tasks
           /\ task[w].read = doc
           /\ doc' \in Docs /\ doc' # NoDoc /\ doc' = task[w].new
           /\ rev' = seq + 1 /\ seq' = seq + 1 /\ seq \in Nat
           /\ \A v \in Workers : task[v] # NoTask => task[v].rev < rev'
           /\ task[w].kind \in {"acquire", "release", "heartbeat", "observe"}
BY MarksAssumption DEF IInv, TypeOK, Fresh, CasHolds, Written

\* What holds after any write that takes effect, whatever the worker learns of
\* it: the facts about the other workers and about the document.
LEMMA WrittenStep ==
    ASSUME IInv, NEW w \in Workers, task[w] # NoTask, CasHolds(w), Written(w),
           UNCHANGED <<clock, tokens, cleared>>,
           task' = [task EXCEPT ![w] = NoTask],
           NEW v \in Workers, lease'[v] = lease[v], seen'[v] = seen[v]
    PROVE  /\ Known(v)'
           /\ Behind(v)'
           /\ InTime(v)' => HoldsToken(doc, lease[v].token)'
<1>1. /\ task[w] \in Tasks /\ task[w].read = doc
      /\ doc' \in Docs /\ doc' # NoDoc /\ doc' = task[w].new
      /\ task[w].kind \in {"acquire", "release", "heartbeat", "observe"}
  BY WrittenFacts
<1>2. /\ Planned(w) /\ Fresh(w) /\ Known(v) /\ Behind(v) /\ Revisions
      /\ InTime(v) => HoldsToken(doc, lease[v].token)
      /\ doc \in Docs \cup {NoDoc} /\ clock \in Nat /\ cleared \in Nat /\ grants \in Nat
      /\ lease[v] \in Held \cup {NoLease} /\ seen[v] \in Seen \cup {NoState}
  BY DEF IInv, TypeOK, LeaseKept
<1>3. lease[v] # NoLease /\ task[w].kind # "observe" /\ lease[v].token = task[w].token => v = w
  BY <1>1, <1>2 DEF IInv, OneOwner, Owns
<1> DEFINE mine == [token |-> task[w].token, until |-> task[w].now + LeaseSeconds]
<1>8. task[w].kind # "observe" => mine \in Leases /\ mine # NoLease
  <2>1. task[w].kind # "observe" => task[w].token \in 1..MaxToken
    BY <1>1, BoundsAssumption DEF IInv, TypeOK, OneOwner, Owns
  <2>2. task[w].now + LeaseSeconds \in Nat
    BY <1>1, BoundsAssumption
  <2> QED
    BY <2>1, <2>2, MarksAssumption
<1>4. CASE task[w].kind = "acquire"
  <2>1. /\ ~Leased(doc, task[w].now) /\ task[w].now \in Nat /\ task[w].now <= clock
        /\ doc'.state.epoch = DocOr(doc).state.epoch + 1
        /\ doc'.lease = [token |-> task[w].token, until |-> task[w].now + LeaseSeconds]
        /\ doc'.lease # NoLease /\ doc'.lease.token = task[w].token
        /\ lease[w] = NoLease
        /\ grants' = grants + 1
    BY <1>1, <1>2, <1>4, <1>8 DEF Planned, Fresh, Written
  <2>2. Known(v)'
    BY <1>2, <1>3, <1>4, <2>1 DEF Known, HoldsToken
  <2>3. Behind(v)'
    BY <1>1, <1>2, <2>1 DEF Behind, DocOr
  <2>4. ~InTime(v)'
    BY <1>2, <2>1 DEF InTime, HoldsToken, Leased, Known
  <2> QED
    BY <2>2, <2>3, <2>4
<1>5. CASE task[w].kind = "release"
  <2>1. /\ HoldsToken(doc, task[w].token) /\ doc'.lease = NoLease /\ lease[w] = NoLease
        /\ doc'.state.epoch = doc.state.epoch /\ grants' = grants
    BY <1>1, <1>2, <1>5 DEF Planned, Written
  <2>2. Known(v)' /\ Behind(v)'
    BY <1>1, <1>2, <2>1 DEF Known, Behind, HoldsToken
  <2>3. ~InTime(v)'
    BY <1>2, <1>3, <1>5, <2>1 DEF InTime, HoldsToken
  <2> QED
    BY <2>2, <2>3
<1>6. CASE task[w].kind = "heartbeat"
  <2>1. /\ HoldsToken(doc, task[w].token) /\ doc'.state = doc.state /\ grants' = grants
        /\ doc'.lease # NoLease /\ doc'.lease.token = task[w].token
        /\ doc'.lease.until = task[w].now + LeaseSeconds
        /\ doc.lease.until <= task[w].now + LeaseSeconds
        /\ task[w].now \in Nat
    BY <1>1, <1>2, <1>6, <1>8 DEF Planned, Written
  <2>2. Known(v)'
    BY <1>1, <1>2, <2>1, BoundsAssumption DEF Known, HoldsToken
  <2>3. Behind(v)' /\ (InTime(v)' => HoldsToken(doc, lease[v].token)')
    BY <1>1, <1>2, <2>1 DEF Behind, HoldsToken, InTime
  <2> QED
    BY <2>2, <2>3
<1>7. CASE task[w].kind = "observe"
  <2>1. /\ doc # NoDoc /\ doc'.lease = doc.lease /\ grants' = grants
        /\ doc'.state.epoch = doc.state.epoch
    BY <1>1, <1>2, <1>7 DEF Planned, Written
  <2> QED
    BY <1>1, <1>2, <2>1 DEF Known, Behind, HoldsToken, InTime
<1> QED
  BY <1>1, <1>4, <1>5, <1>6, <1>7

\* The facts about the document, the tasks left and the owners of the tokens.
LEMMA WrittenRest ==
    ASSUME IInv, NEW w \in Workers, task[w] # NoTask, CasHolds(w), Written(w),
           UNCHANGED <<clock, tokens, cleared>>,
           task' = [task EXCEPT ![w] = NoTask],
           \A v \in Workers : v # w => lease'[v] = lease[v] /\ seen'[v] = seen[v]
    PROVE  /\ Revisions'
           /\ \A v \in Workers : Fresh(v)' /\ Planned(v)' /\ Leaving(v)'
<1>1. /\ task[w] \in Tasks /\ task[w].read = doc
      /\ doc' \in Docs /\ doc' # NoDoc /\ doc' = task[w].new
      /\ rev' = seq + 1 /\ seq' = seq + 1 /\ seq \in Nat
      /\ \A v \in Workers : task[v] # NoTask => task[v].rev < rev'
      /\ task[w].kind \in {"acquire", "release", "heartbeat", "observe"}
  BY WrittenFacts
<1>2. task'[w] = NoTask /\ \A v \in Workers : v # w => task'[v] = task[v]
  BY DEF IInv, TypeOK
<1>3. Revisions'
  <2>1. doc'.lease # NoLease => doc'.lease.until <= clock + LeaseSeconds
    <3>1. /\ Planned(w) /\ Fresh(w) /\ Revisions
          /\ clock \in Nat /\ task[w].now \in Nat /\ doc \in Docs \cup {NoDoc}
      BY <1>1 DEF IInv, TypeOK
    <3> QED
      BY <1>1, <3>1, BoundsAssumption DEF Planned, Fresh, Revisions
  <2> QED
    BY <1>1, <2>1 DEF Revisions
<1>4. ASSUME NEW v \in Workers PROVE Fresh(v)' /\ Planned(v)'
  <2>1. CASE v = w
    BY <1>2, <2>1 DEF Fresh, Planned
  <2>2. CASE v # w
    <3>1. Fresh(v) /\ Planned(v) /\ task'[v] = task[v] /\ lease'[v] = lease[v] /\ seen'[v] = seen[v]
      BY <1>2, <2>2 DEF IInv
    <3>2. task[v] # NoTask => task[v] \in Tasks
      BY DEF IInv, TypeOK
    <3>3. Fresh(v)'
      BY <1>1, <3>1, <3>2 DEF Fresh
    <3>4. Planned(v)'
      BY <3>1 DEF Planned
    <3> QED
      BY <3>3, <3>4
  <2> QED
    BY <2>1, <2>2
<1>5. ASSUME NEW v \in Workers PROVE Leaving(v)'
  <2> SUFFICES ASSUME v # w, task[v] # NoTask, task[v].kind = "release",
                      HoldsToken(doc, task[v].token)'
               PROVE  doc'.state.epoch = task[v].new.state.epoch
    BY <1>2 DEF Leaving, HoldsToken
  <2>1. /\ Planned(w) /\ Leaving(v) /\ task[v] \in Tasks
    BY DEF IInv, TypeOK
  <2>2. task[w].kind # "observe" => task[v].token # task[w].token
    BY <1>1, <2>1 DEF IInv, OneOwner, Owns
  <2>3. doc'.lease # NoLease /\ doc'.lease.token = task[v].token
    BY DEF HoldsToken
  <2>4. task[w].kind = "observe"
    BY <1>1, <2>1, <2>2, <2>3 DEF Planned
  <2>5. doc # NoDoc /\ doc'.lease = doc.lease /\ doc'.state.epoch = doc.state.epoch
    BY <1>1, <2>1, <2>4 DEF Planned
  <2> QED
    BY <2>1, <2>3, <2>5 DEF Leaving, HoldsToken
<1> QED
  BY <1>3, <1>4, <1>5

LEMMA CasLandsUnknownStep ==
    ASSUME IInv, NEW w \in Workers, CasLandsUnknown(w)
    PROVE  IInv'
<1>1. /\ task[w] # NoTask /\ CasHolds(w) /\ Written(w)
      /\ task' = [task EXCEPT ![w] = NoTask]
      /\ UNCHANGED <<clock, tokens, cleared>> /\ UNCHANGED <<lease, seen>>
  BY DEF CasLandsUnknown
<1>2. TypeOK'
  <2>1. doc' \in Docs /\ rev' \in Nat /\ seq' \in Nat
    BY <1>1, WrittenFacts
  <2> QED
    BY <1>1, <2>1 DEF IInv, TypeOK, Written
<1>3. \A v \in Workers : Known(v)' /\ Behind(v)' /\ (InTime(v)' => HoldsToken(doc, lease[v].token)')
  BY <1>1, WrittenStep
<1>4. Revisions' /\ \A v \in Workers : Fresh(v)' /\ Planned(v)' /\ Leaving(v)'
  BY <1>1, WrittenRest
<1>5. OneOwner'
  <2>1. \A v \in Workers, t \in 0..MaxToken : Owns(v, t)' => Owns(v, t)
    BY <1>1 DEF IInv, TypeOK, Owns
  <2> QED
    BY <1>1, <2>1 DEF IInv, OneOwner
<1>6. LeaseKept'
  BY <1>3 DEF LeaseKept
<1> QED
  BY <1>2, <1>3, <1>4, <1>5, <1>6 DEF IInv

LEMMA CasLandsStep ==
    ASSUME IInv, NEW w \in Workers, CasLands(w)
    PROVE  IInv'
<1>1. /\ task[w] # NoTask /\ CasHolds(w) /\ Written(w)
      /\ task' = [task EXCEPT ![w] = NoTask]
      /\ UNCHANGED <<clock, tokens, cleared>>
      /\ lease' = IF task[w].kind \in {"acquire", "heartbeat"}
                  THEN [lease EXCEPT ![w] = Granted(w)] ELSE lease
      /\ seen' = IF task[w].kind = "observe" THEN [seen EXCEPT ![w] = NoState] ELSE seen
  BY DEF CasLands
<1>2. \A v \in Workers : v # w => lease'[v] = lease[v] /\ seen'[v] = seen[v]
  BY <1>1 DEF IInv, TypeOK
<1>3. /\ task[w] \in Tasks /\ task[w].read = doc
      /\ doc' \in Docs /\ doc' # NoDoc /\ doc' = task[w].new
      /\ rev' = seq + 1 /\ seq' = seq + 1 /\ seq \in Nat
      /\ task[w].kind \in {"acquire", "release", "heartbeat", "observe"}
  BY <1>1, WrittenFacts
<1>4. task[w].kind # "observe" => task[w].token \in 1..MaxToken /\ task[w].token \in 1..tokens
  BY <1>1, <1>3, BoundsAssumption DEF IInv, TypeOK, OneOwner, Owns
<1>5. task[w].kind # "observe" => Granted(w) \in Held /\ Granted(w) # NoLease
  <2>1. /\ task[w].now + LeaseSeconds \in Nat /\ cleared \in 0..MaxClear
        /\ task[w].new.state.epoch \in Nat
    BY <1>3, BoundsAssumption DEF IInv, TypeOK
  <2> QED
    BY <1>4, <2>1, MarksAssumption DEF Granted
<1>6. TypeOK'
  <2>1. lease' \in [Workers -> Held \cup {NoLease}]
    BY <1>1, <1>5 DEF IInv, TypeOK
  <2>2. seen' \in [Workers -> Seen \cup {NoState}]
    BY <1>1 DEF IInv, TypeOK
  <2> QED
    BY <1>1, <1>3, <2>1, <2>2 DEF IInv, TypeOK, Written
<1>7. Revisions' /\ \A v \in Workers : Fresh(v)' /\ Planned(v)' /\ Leaving(v)'
  BY <1>1, <1>2, WrittenRest
<1>8. ASSUME NEW v \in Workers, v # w
      PROVE  Known(v)' /\ Behind(v)' /\ (InTime(v)' => HoldsToken(doc, lease[v].token)')
  BY <1>1, <1>2, <1>8, WrittenStep
<1>9. CASE task[w].kind \in {"acquire", "heartbeat"}
  <2>1. /\ lease'[w] = Granted(w) /\ lease'[w] # NoLease
        /\ lease'[w].token = task[w].token /\ lease'[w].until = task[w].now + LeaseSeconds
        /\ lease'[w].cleared = cleared /\ lease'[w].epoch = doc'.state.epoch
        /\ seen'[w] = seen[w]
    BY <1>1, <1>3, <1>5, <1>9 DEF IInv, TypeOK, Granted
  <2>2. /\ doc'.lease = [token |-> task[w].token, until |-> task[w].now + LeaseSeconds]
    BY <1>1, <1>3, <1>9 DEF IInv, Planned
  <2>3. doc'.lease # NoLease /\ doc'.lease.token = task[w].token
        /\ doc'.lease.until = task[w].now + LeaseSeconds
    <3>1. doc'.lease \in Leases
      BY <1>3, <1>4, <1>9, <2>2, BoundsAssumption
    <3> QED
      BY <2>2, <3>1, MarksAssumption
  <2>4. Known(w)' /\ (InTime(w)' => HoldsToken(doc, lease[w].token)')
    <3>1. cleared' = cleared /\ cleared \in Nat /\ task[w].now + LeaseSeconds \in Nat
      BY <1>1, <1>3, BoundsAssumption DEF IInv, TypeOK
    <3> QED
      BY <1>3, <2>1, <2>3, <3>1 DEF Known, HoldsToken
  <2>5. Behind(w)'
    <3>1. Behind(w) /\ doc \in Docs \cup {NoDoc} /\ grants \in Nat /\ seen[w] \in Seen \cup {NoState}
      BY DEF IInv, TypeOK
    <3>2. CASE task[w].kind = "acquire"
      <4>1. doc'.state.epoch = DocOr(doc).state.epoch + 1
        BY <1>1, <1>3, <3>2 DEF IInv, Planned
      <4> QED
        BY <1>1, <1>3, <2>1, <3>1, <4>1 DEF Behind, DocOr
    <3>3. CASE task[w].kind = "heartbeat"
      <4>1. doc'.state = doc.state /\ doc # NoDoc /\ grants' = grants
        BY <1>1, <1>3, <3>3 DEF IInv, Planned, HoldsToken, Written
      <4> QED
        BY <1>1, <1>3, <2>1, <3>1, <4>1 DEF Behind
    <3> QED
      BY <1>9, <3>2, <3>3
  <2>6. OneOwner'
    <3>1. \A v \in Workers, t \in 0..MaxToken : Owns(v, t)' => Owns(v, t)
      BY <1>1, <1>2, <1>9, <2>1 DEF IInv, TypeOK, Owns
    <3> QED
      BY <1>1, <3>1 DEF IInv, OneOwner
  <2> QED
    BY <1>6, <1>7, <1>8, <2>4, <2>5, <2>6 DEF IInv, LeaseKept
<1>10. CASE task[w].kind = "release"
  <2>1. lease'[w] = lease[w] /\ seen'[w] = seen[w]
    BY <1>1, <1>10
  <2>2. Known(w)' /\ Behind(w)' /\ (InTime(w)' => HoldsToken(doc, lease[w].token)')
    BY <1>1, <2>1, WrittenStep
  <2>3. OneOwner'
    <3>1. \A v \in Workers, t \in 0..MaxToken : Owns(v, t)' => Owns(v, t)
      BY <1>1, <1>2, <2>1 DEF IInv, TypeOK, Owns
    <3> QED
      BY <1>1, <3>1 DEF IInv, OneOwner
  <2> QED
    BY <1>6, <1>7, <1>8, <2>2, <2>3 DEF IInv, LeaseKept
<1>11. CASE task[w].kind = "observe"
  <2>1. lease' = lease /\ seen'[w] = NoState
    BY <1>1, <1>11 DEF IInv, TypeOK
  <2>2. /\ doc # NoDoc /\ doc'.lease = doc.lease
        /\ doc'.state.epoch = doc.state.epoch
    BY <1>1, <1>3, <1>11 DEF IInv, Planned
  <2>3. Known(w)' /\ Behind(w)' /\ (InTime(w)' => HoldsToken(doc, lease[w].token)')
    BY <1>1, <1>3, <2>1, <2>2 DEF IInv, Known, Behind, HoldsToken, LeaseKept, InTime
  <2>4. OneOwner'
    <3>1. \A v \in Workers, t \in 0..MaxToken : Owns(v, t)' => Owns(v, t)
      BY <1>1, <2>1 DEF IInv, TypeOK, Owns
    <3> QED
      BY <1>1, <3>1 DEF IInv, OneOwner
  <2> QED
    BY <1>6, <1>7, <1>8, <2>3, <2>4 DEF IInv, LeaseKept
<1> QED
  BY <1>3, <1>9, <1>10, <1>11

LEMMA NextInv == IInv /\ [Next]_vars => IInv'
<1> SUFFICES ASSUME IInv, [Next]_vars PROVE IInv'
  OBVIOUS
<1>1. CASE UNCHANGED vars
  <2>1. /\ TypeOK' /\ Revisions' /\ OneOwner' /\ LeaseKept'
    BY <1>1 DEF IInv, vars, TypeOK, Revisions, OneOwner, Owns, LeaseKept, InTime, HoldsToken
  <2>2. ASSUME NEW v \in Workers
        PROVE  Fresh(v)' /\ Planned(v)' /\ Known(v)' /\ Leaving(v)' /\ Behind(v)'
    BY <1>1 DEF IInv, vars, Fresh, Planned, Known, Leaving, Behind, HoldsToken
  <2> QED
    BY <2>1, <2>2 DEF IInv
<1>2. ASSUME NEW w \in Workers,
             \/ \E op \in Operations : TryAcquire(w, op)
             \/ LeaseLost(w) \/ Heartbeat(w) \/ GetState(w)
             \/ \E s \in Reports : UpdateObserved(w, s)
             \/ CasLands(w) \/ CasLandsUnknown(w) \/ CasFails(w) \/ Crash(w)
      PROVE  IInv'
  BY <1>2, TryAcquireStep, LeaseLostStep, HeartbeatStep, GetStateStep, UpdateObservedStep,
     CasLandsStep, CasLandsUnknownStep, CasFailsStep, CrashStep
<1>3. ASSUME NEW w \in Workers, NEW state \in Handed, Release(w, state) PROVE IInv'
  <2>1. state \in [desired: Statuses, observed: Statuses]
    BY StatusAssumption
  <2> QED
    BY <1>3, <2>1, ReleaseStep
<1>4. ASSUME NEW w \in Workers, doc # NoDoc, Release(w, doc.state) PROVE IInv'
  <2> DEFINE kept == [desired |-> doc.state.desired, observed |-> doc.state.observed]
  <2>1. kept \in [desired: Statuses, observed: Statuses]
    BY <1>4 DEF IInv, TypeOK
  <2>2. Release(w, kept)
    BY <1>4 DEF Release, Released
  <2> QED
    BY <2>1, <2>2, ReleaseStep
<1> QED
  BY <1>1, <1>2, <1>3, <1>4, ClearStep, TickStep DEF Next

\* The types and the inductive invariant hold in every reachable state of the
\* lifecycle coordinator.
THEOREM TypeCorrect == Spec => []TypeOK
<1>1. Spec => []IInv
  BY InitInv, NextInv, PTL DEF Spec
<1>2. IInv => TypeOK
  BY DEF IInv
<1> QED
  BY <1>1, <1>2, PTL

\* A worker whose lease has not run out still holds the node's document,
\* whatever the other workers read before and write after (try_acquire,
\* release, heartbeat of NatsNodeLifecycleCoordinator).
THEOREM LeaseIsKept == Spec => []LeaseKept
<1>1. Spec => []IInv
  BY InitInv, NextInv, PTL DEF Spec
<1>2. IInv => LeaseKept
  BY DEF IInv
<1> QED
  BY <1>1, <1>2, PTL

\* Two workers are never both within their lease of the same node, so a start
\* and a stop of it never run at once.
THEOREM SingleOperator == Spec => []OneOperator
<1>1. Spec => []IInv
  BY InitInv, NextInv, PTL DEF Spec
<1>2. IInv => OneOperator
  <2> SUFFICES ASSUME IInv, NEW v \in Workers, NEW w \in Workers, InTime(v), InTime(w)
               PROVE  v = w
    BY DEF OneOperator
  <2>1. /\ lease[v].token = doc.lease.token /\ lease[w].token = doc.lease.token
        /\ lease[v] # NoLease /\ lease[w] # NoLease /\ lease[v] \in Held
    BY DEF IInv, TypeOK, LeaseKept, HoldsToken, InTime
  <2> QED
    BY <2>1 DEF IInv, OneOwner, Owns
<1> QED
  BY <1>1, <1>2, PTL

\* Only a write changes the document into another one.
LEMMA DocChange ==
    ASSUME IInv, [Next]_vars
    PROVE  \/ UNCHANGED <<doc, grants>>
           \/ doc' = NoDoc
           \/ \E w \in Workers : task[w] # NoTask /\ CasHolds(w) /\ Written(w)
BY DEF Next, vars, TryAcquire, Release, LeaseLost, Heartbeat, GetState, UpdateObserved,
       CasLands, CasLandsUnknown, CasFails, Crash, Clear, Tick

\* While the document exists its epoch never goes back, and every lease granted
\* on it raises it.
THEOREM EpochsGrow == Spec => EpochGrows
<1>1. Spec => []IInv
  BY InitInv, NextInv, PTL DEF Spec
<1>2. IInv /\ [Next]_vars =>
        [doc # NoDoc /\ doc' # NoDoc =>
            /\ doc'.state.epoch >= doc.state.epoch
            /\ grants' # grants => doc'.state.epoch > doc.state.epoch]_vars
  <2> SUFFICES ASSUME IInv, [Next]_vars, doc # NoDoc, doc' # NoDoc
               PROVE  /\ doc'.state.epoch >= doc.state.epoch
                      /\ grants' # grants => doc'.state.epoch > doc.state.epoch
    OBVIOUS
  <2>1. doc \in Docs /\ doc.state.epoch \in Nat
    BY DEF IInv, TypeOK
  <2>2. CASE UNCHANGED <<doc, grants>>
    BY <2>1, <2>2
  <2>3. ASSUME NEW w \in Workers, task[w] # NoTask, CasHolds(w), Written(w)
        PROVE  /\ doc'.state.epoch >= doc.state.epoch
               /\ grants' # grants => doc'.state.epoch > doc.state.epoch
    <3>1. /\ task[w].read = doc /\ doc' = task[w].new
          /\ task[w].kind \in {"acquire", "release", "heartbeat", "observe"}
      BY <2>3, WrittenFacts
    <3>2. Planned(w)
      BY DEF IInv
    <3>3. task[w].kind # "acquire" => grants' = grants
      BY <2>3 DEF Written
    <3> QED
      BY <2>1, <2>3, <3>1, <3>2, <3>3 DEF Planned, DocOr
  <2> QED
    BY <2>2, <2>3, DocChange
<1> QED
  BY <1>1, <1>2, PTL DEF Spec, EpochGrows

\* A status read before a lease was granted is never written after it
\* (update_observed with expected_epoch), as long as the node exists.
THEOREM ReportsAreFresh == Spec => StaleReportRefused
<1>1. Spec => []IInv
  BY InitInv, NextInv, PTL DEF Spec
<1>2. IInv /\ [Next]_vars =>
        [\A w \in Workers :
            Reported(w) /\ seen[w].cleared = cleared => seen[w].grants = grants]_vars
  <2> SUFFICES ASSUME IInv, [Next]_vars, NEW w \in Workers, Reported(w),
                      seen[w].cleared = cleared
               PROVE  seen[w].grants = grants
    OBVIOUS
  <2>1. /\ task[w] # NoTask /\ task[w].kind = "observe" /\ task[w] \in Tasks
        /\ seq' # seq /\ doc' = task[w].new /\ task'[w] = NoTask
    BY DEF Reported, IInv, TypeOK
  <2>2. doc' # NoDoc
    BY <2>1, MarksAssumption
  <2>3. CasHolds(w)
    <3>1. \E v \in Workers : /\ task[v] # NoTask /\ CasHolds(v)
                             /\ task' = [task EXCEPT ![v] = NoTask]
      BY <2>1, <2>2 DEF Next, vars, TryAcquire, Release, LeaseLost, Heartbeat, GetState,
         UpdateObserved, CasLands, CasLandsUnknown, CasFails, Crash, Clear, Tick
    <3> QED
      BY <2>1, <3>1 DEF IInv, TypeOK
  <2>4. task[w].read = doc
    BY <2>1, <2>3 DEF IInv, Fresh, CasHolds
  <2> QED
    BY <2>1, <2>4 DEF IInv, Planned, Behind
<1> QED
  BY <1>1, <1>2, PTL DEF Spec, StaleReportRefused

=============================================================================
