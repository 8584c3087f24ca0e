--------------------------- MODULE LeaderElection ---------------------------
(***************************************************************************)
(* Which of several workers runs the scheduled jobs.                       *)
(*                                                                         *)
(* The workers share one lease document in a NATS key-value bucket.  A     *)
(* worker creates it, or replaces it once it has expired, by a write that  *)
(* is conditional on the revision it read; the leader renews it from its   *)
(* heartbeat and concedes when it cannot.  A write may land although its   *)
(* reply is lost, or land late, after its sender gave up.                  *)
(*                                                                         *)
(* Time is discrete and relative: every timer counts down.  Workers run on *)
(* one host, so they read one clock.                                       *)
(***************************************************************************)
EXTENDS Integers

CONSTANTS
  Worker,
  Lease,       \* DEFAULT_LEASE_SECONDS
  Interval,    \* HEARTBEAT_INTERVAL
  RetryDelay,  \* HEARTBEAT_RETRY_DELAY
  MaxRetries,  \* HEARTBEAT_MAX_RETRIES
  OpTime,      \* longest duration of one request to the bucket
  StopTime,    \* longest time to stop the notification dispatcher
  ShutdownTime, \* SHUTDOWN_BUDGET_S, the time a graceful shutdown may take
  Faults,      \* the faults and operator actions that may happen
  MaxFaults,   \* bound on how many of them happen
  NoDoc, NoWrite

Doc   == [by : Worker, known : BOOLEAN, ttl : 0..Lease]
\* A write succeeds if the key is absent, or if no write came after the read
\* it is based on.
Write == [goal : {"create", "steal", "renew"}, ttl : 0..Lease,
          guard : {"absent", "current", "outdated"}]

ASSUME ConstantsAssumption ==
  /\ {Lease, Interval, RetryDelay, MaxRetries, OpTime, StopTime, ShutdownTime, MaxFaults} \subseteq Nat
  /\ MaxRetries > 0
  /\ NoDoc \notin Doc
  /\ NoWrite \notin Write

VARIABLES
  doc,       \* the lease: NoDoc, or its last writer, whether that worker still
             \* holds the token it wrote, and the time until expires_at
  pending,   \* [Worker -> NoWrite or a conditional write on its way]
  task,      \* [Worker -> the coroutine that takes part in the election]
  pc,        \* [Worker -> its step]
  goal,      \* [Worker -> what the current request is for]
  left,      \* [Worker -> time until the sleep ends or the request gives up]
  payload,   \* [Worker -> time until the expiry this attempt writes]
  expired,   \* [Worker -> the lease it found had expired when it started]
  result,    \* [Worker -> what became of its write at the server]
  failures,  \* [Worker -> consecutive_failures]
  isLeader,  \* [Worker -> _is_leader]
  sched,     \* [Worker -> state of the APScheduler]
  client,    \* [Worker -> state of the NATS client]
  stop,      \* [Worker -> progress of a graceful shutdown]
  budget,    \* [Worker -> time left to shut down]
  faults,
  until      \* [Worker -> time until the lease it last wrote ends]: the age of the
             \* lease a worker goes by, which no code reads

electionVars == <<doc, pending, task, pc, goal, left, payload, expired, result, failures,
                  isLeader, sched, client, stop, budget, faults>>
vars == <<electionVars, until>>

Less(t) == IF t > 0 THEN t - 1 ELSE 0

Fault(kind) ==
  /\ kind \in Faults
  /\ faults < MaxFaults
  /\ faults' = faults + 1

\* The lease carries the token of w.
Holds(w) == doc # NoDoc /\ doc.by = w /\ doc.known

\* The token is forgotten, so nobody can recognise the lease any more.
Forgotten(w) == IF doc # NoDoc /\ doc.by = w THEN [doc EXCEPT !.known = FALSE] ELSE doc

Init ==
  /\ doc = NoDoc
  /\ pending = [w \in Worker |-> NoWrite]
  /\ task = [w \in Worker |-> "none"]
  /\ pc = [w \in Worker |-> "down"]
  /\ goal = [w \in Worker |-> "create"]
  /\ left = [w \in Worker |-> 0]
  /\ payload = [w \in Worker |-> 0]
  /\ expired = [w \in Worker |-> FALSE]
  /\ result = [w \in Worker |-> "none"]
  /\ failures = [w \in Worker |-> 0]
  /\ isLeader = [w \in Worker |-> FALSE]
  /\ sched = [w \in Worker |-> "stopped"]
  /\ client = [w \in Worker |-> "none"]
  /\ stop = [w \in Worker |-> "no"]
  /\ budget = [w \in Worker |-> 0]
  /\ faults = 0
  /\ until = [w \in Worker |-> 0]

----------------------------------------------------------------------------
(* Steps shared by the coroutines *)

\* The coroutine of w goes on at step s, for at most t.
GoTo(w, s, t) ==
  /\ pc' = [pc EXCEPT ![w] = s]
  /\ left' = [left EXCEPT ![w] = t]

\* kv_cas_json sends a conditional write.  An older write of w that is still
\* on its way was on the same connection, so it will not arrive after this one.
Send(w, g, ttl, guard) ==
  /\ GoTo(w, "cas", OpTime)
  /\ goal' = [goal EXCEPT ![w] = g]
  /\ result' = [result EXCEPT ![w] = "none"]
  /\ pending' = [pending EXCEPT ![w] = [goal |-> g, ttl |-> ttl, guard |-> guard]]

\* try_become_leader is left, and its locals with it.
EndAttempt(w) ==
  /\ goal' = [goal EXCEPT ![w] = "create"]
  /\ payload' = [payload EXCEPT ![w] = 0]
  /\ expired' = [expired EXCEPT ![w] = FALSE]

\* try_become_leader returns True: the heartbeat starts and the jobs run.
Win(w) ==
  /\ GoTo(w, "beat", Interval)
  /\ task' = [task EXCEPT ![w] = "heartbeat"]
  /\ isLeader' = [isLeader EXCEPT ![w] = TRUE]
  /\ failures' = [failures EXCEPT ![w] = 0]
  /\ sched' = [sched EXCEPT ![w] = "running"]
  /\ EndAttempt(w)
  /\ UNCHANGED doc

\* try_become_leader returns False: the reclaim loop tries again later.
Lose(w) ==
  /\ GoTo(w, "sleep", Interval)
  /\ task' = [task EXCEPT ![w] = "reclaim"]
  /\ isLeader' = [isLeader EXCEPT ![w] = FALSE]
  /\ doc' = Forgotten(w)
  /\ EndAttempt(w)
  /\ UNCHANGED <<failures, sched>>

\* _concede_leadership: not the leader from now on; the callback first stops
\* the dispatcher, which takes time, and only then pauses the scheduler.
Concede(w) ==
  /\ GoTo(w, "concede", StopTime)
  /\ isLeader' = [isLeader EXCEPT ![w] = FALSE]
  /\ doc' = Forgotten(w)
  /\ failures' = [failures EXCEPT ![w] = 0]
  /\ UNCHANGED <<task, goal, payload, expired, sched>>

\* Mutant of RenewFailed: the retries are counted and never end.
RenewForever(w) ==
  /\ failures' = [failures EXCEPT ![w] = @ + 1]
  /\ GoTo(w, "beat", RetryDelay)
  /\ UNCHANGED <<doc, task, goal, payload, expired, isLeader, sched>>

\* Mutant of RenewFailed: the failures are not counted, so the heartbeat sleeps as
\* after a success.
RenewUncounted(w) ==
  /\ GoTo(w, "beat", Interval)
  /\ UNCHANGED <<doc, task, goal, payload, expired, failures, isLeader, sched>>

\* A failed renewal is tried again soon, MaxRetries times in a row at most.
RenewFailed(w) ==
  \/ /\ failures[w] + 1 < MaxRetries
     /\ failures' = [failures EXCEPT ![w] = @ + 1]
     /\ GoTo(w, "beat", RetryDelay)
     /\ UNCHANGED <<doc, task, goal, payload, expired, isLeader, sched>>
  \/ /\ failures[w] + 1 >= MaxRetries
     /\ Concede(w)

Renewed(w) ==
  /\ GoTo(w, "beat", Interval)
  /\ failures' = [failures EXCEPT ![w] = 0]
  /\ UNCHANGED <<doc, task, goal, payload, expired, isLeader, sched>>

\* What kv_cas_json returned.
Outcome(w, landed) ==
  /\ result' = [result EXCEPT ![w] = "none"]
  /\ CASE goal[w] = "renew"  -> IF landed THEN Renewed(w) ELSE RenewFailed(w)
       [] goal[w] = "steal"  -> IF landed THEN Win(w) ELSE Lose(w)
       [] goal[w] = "create" ->
            IF landed THEN Win(w)
            ELSE /\ GoTo(w, "get", OpTime)
                 /\ goal' = [goal EXCEPT ![w] = "steal"]
                 /\ UNCHANGED <<doc, task, payload, expired, failures, isLeader, sched>>

----------------------------------------------------------------------------
(* Acquiring the lease *)

\* A worker starts: the startup hook calls start_job_leader.
Boot(w) ==
  /\ pc[w] = "down"
  /\ task' = [task EXCEPT ![w] = "startup"]
  /\ GoTo(w, "open", OpTime)
  /\ UNCHANGED <<doc, pending, goal, payload, expired, result, failures, isLeader, sched, client,
                 stop, budget, faults>>

\* _ensure_kv, then the attempt to create the lease.  The expiry of the lease
\* and the time it is compared with are taken now.
EnsureKv(w) ==
  /\ pc[w] = "open"
  /\ client' = [client EXCEPT ![w] = "open"]
  /\ payload' = [payload EXCEPT ![w] = Lease]
  /\ expired' = [expired EXCEPT ![w] = doc # NoDoc /\ doc.ttl = 0]
  /\ Send(w, "create", Lease, "absent")
  /\ UNCHANGED <<doc, task, failures, isLeader, sched, stop, budget, faults>>

\* The bucket cannot be opened and _ensure_kv raises: at startup the worker
\* exits; in the reclaim loop the exception ends the task.  What closed the
\* client may also be why it cannot be opened again.
EnsureKvFails(w) ==
  /\ client[w] # "closed" => Fault("connect")
  /\ client[w] = "closed" => "connect" \in Faults /\ UNCHANGED faults
  /\ pc[w] = "open"
  /\ client[w] # "open"
  /\ GoTo(w, IF task[w] = "startup" THEN "down" ELSE "off", 0)
  /\ task' = [task EXCEPT ![w] = "none"]
  /\ UNCHANGED <<doc, pending, goal, payload, expired, result, failures, isLeader, sched, client, stop, budget>>

\* The client of a worker is closed for good.
ClientCloses(w) ==
  /\ Fault("close")
  /\ client[w] = "open"
  /\ client' = [client EXCEPT ![w] = "closed"]
  /\ UNCHANGED <<doc, pending, task, pc, goal, left, payload, expired, result, failures, isLeader,
                 sched, stop, budget>>

\* The revision changed: a write based on an earlier one will be refused.
Outdated(x) == IF x # NoWrite /\ x.guard = "current" THEN [x EXCEPT !.guard = "outdated"] ELSE x

Waiting(w) == pc[w] \in {"cas", "back"}

\* Mutant of Accepted: a write is not conditional on the revision read.
AcceptedAlways(w) == pending[w].guard = "absent" => doc = NoDoc

Accepted(w) == IF pending[w].guard = "absent" THEN doc = NoDoc ELSE pending[w].guard = "current"

\* The server processes a conditional write, perhaps after its sender gave up.
ServerApplies(w) ==
  LET ok == Accepted(w)
      known == Waiting(w) \/ (isLeader[w] /\ pending[w].goal = "renew")
  IN  /\ pending[w] # NoWrite
      /\ doc' = IF ok THEN [by |-> w, known |-> known, ttl |-> pending[w].ttl] ELSE doc
      /\ pending' = [v \in Worker |-> IF v = w THEN NoWrite
                                      ELSE IF ok THEN Outdated(pending[v]) ELSE pending[v]]
      /\ expired' = IF ok THEN [v \in Worker |-> FALSE] ELSE expired
      /\ result' = [result EXCEPT ![w] =
           IF ~Waiting(w) THEN @ ELSE IF ok THEN "landed" ELSE "refused"]
      /\ UNCHANGED <<task, pc, goal, left, payload, failures, isLeader, sched, client, stop, budget, faults>>

\* The reply to the write arrives.
CasReply(w) ==
  /\ pc[w] = "cas"
  /\ client[w] = "open"
  /\ result[w] # "none"
  /\ Outcome(w, result[w] = "landed")
  /\ UNCHANGED <<pending, client, stop, budget, faults>>

\* The write raises a transport error; the key is read back.
CasError(w) ==
  /\ client[w] = "open" => Fault("network")
  /\ client[w] # "open" => UNCHANGED faults
  /\ pc[w] = "cas"
  /\ GoTo(w, "back", OpTime)
  /\ UNCHANGED <<doc, pending, task, goal, payload, expired, result, failures, isLeader, sched, client, stop, budget>>

\* _cas_write_landed: the document is exactly what was written.
ReadBack(w) ==
  /\ pc[w] = "back"
  /\ client[w] = "open"
  /\ Outcome(w, result[w] = "landed" /\ doc # NoDoc /\ doc.by = w)
  /\ UNCHANGED <<pending, client, stop, budget, faults>>

\* The read fails too: the write is taken as lost.
ReadBackFails(w) ==
  /\ client[w] = "open" => Fault("network")
  /\ client[w] # "open" => UNCHANGED faults
  /\ pc[w] = "back"
  /\ Outcome(w, FALSE)
  /\ UNCHANGED <<pending, client, stop, budget>>

\* The lease is read: an absent or expired one is taken over.
ReadToSteal(w) ==
  /\ pc[w] = "get" /\ goal[w] = "steal"
  /\ client[w] = "open"
  /\ \/ /\ doc = NoDoc \/ expired[w]
        /\ Send(w, "steal", payload[w], IF doc = NoDoc THEN "absent" ELSE "current")
        /\ UNCHANGED <<doc, task, payload, expired, failures, isLeader, sched>>
     \/ /\ doc # NoDoc /\ ~expired[w]
        /\ Lose(w)
        /\ UNCHANGED <<pending, result>>
  /\ UNCHANGED <<client, stop, budget, faults>>

\* The heartbeat reads the lease: it concedes if it is gone or another's.
ReadToRenew(w) ==
  /\ pc[w] = "get" /\ goal[w] = "renew"
  /\ client[w] = "open"
  /\ \/ /\ Holds(w)
        /\ Send(w, "renew", Lease, "current")
        /\ UNCHANGED <<doc, task, payload, expired, failures, isLeader, sched>>
     \/ /\ ~Holds(w)
        /\ Concede(w)
        /\ UNCHANGED <<pending, result>>
  /\ UNCHANGED <<client, stop, budget, faults>>

\* The read raises.
ReadFails(w) ==
  /\ client[w] = "open" => Fault("network")
  /\ client[w] # "open" => UNCHANGED faults
  /\ pc[w] = "get"
  /\ \/ goal[w] = "steal" /\ Lose(w)
     \/ goal[w] = "renew" /\ RenewFailed(w)
  /\ UNCHANGED <<pending, result, client, stop, budget>>

----------------------------------------------------------------------------
(* Keeping and losing it *)

\* The heartbeat wakes up.
BeatWake(w) ==
  /\ pc[w] = "beat" /\ left[w] = 0
  /\ GoTo(w, "get", OpTime)
  /\ goal' = [goal EXCEPT ![w] = "renew"]
  /\ UNCHANGED <<doc, pending, task, payload, expired, result, failures, isLeader, sched, client,
                 stop, budget, faults>>

\* The reclaim loop wakes up.
ReclaimWake(w) ==
  /\ pc[w] = "sleep" /\ left[w] = 0
  /\ GoTo(w, "open", OpTime)
  /\ UNCHANGED <<doc, pending, task, goal, payload, expired, result, failures, isLeader, sched,
                 client, stop, budget, faults>>

\* Mutant of PauseJobs: the reclaim loop is not started.
PauseJobsForGood(w) ==
  /\ pc[w] = "concede"
  /\ sched' = [sched EXCEPT ![w] = IF @ = "running" THEN "paused" ELSE @]
  /\ task' = [task EXCEPT ![w] = "reclaim"]
  /\ GoTo(w, "off", 0)
  /\ UNCHANGED <<doc, pending, goal, payload, expired, result, failures, isLeader, client, stop, budget, faults>>

\* The dispatcher has stopped: the scheduler is paused, its running jobs are
\* cancelled and the reclaim loop starts.
PauseJobs(w) ==
  /\ pc[w] = "concede"
  /\ sched' = [sched EXCEPT ![w] = IF @ = "running" THEN "paused" ELSE @]
  /\ task' = [task EXCEPT ![w] = "reclaim"]
  /\ GoTo(w, "sleep", Interval)
  /\ UNCHANGED <<doc, pending, goal, payload, expired, result, failures, isLeader, client, stop, budget, faults>>

\* Mutant of StopBegin: the reclaim loop is not cancelled.
StopSchedulerOnly(w) ==
  /\ Fault("stop")
  /\ pc[w] # "down" /\ task[w] # "startup"
  /\ stop[w] = "no"
  /\ stop' = [stop EXCEPT ![w] = "drain"]
  /\ budget' = [budget EXCEPT ![w] = ShutdownTime]
  /\ sched' = [sched EXCEPT ![w] = "stopped"]
  /\ UNCHANGED <<pc, left, task, doc, goal, payload, expired, result, pending, failures, isLeader, client>>

\* The shutdown hook: the reclaim loop is cancelled, the scheduler shut down,
\* and the usage jobs are drained while the heartbeat goes on.
StopBegin(w) ==
  /\ Fault("stop")
  /\ pc[w] # "down" /\ task[w] # "startup"
  /\ stop[w] = "no"
  /\ stop' = [stop EXCEPT ![w] = "drain"]
  /\ budget' = [budget EXCEPT ![w] = ShutdownTime]
  /\ sched' = [sched EXCEPT ![w] = "stopped"]
  /\ IF task[w] = "reclaim"
       THEN /\ GoTo(w, "off", 0)
            /\ task' = [task EXCEPT ![w] = "none"]
            /\ doc' = Forgotten(w)
            /\ EndAttempt(w)
            /\ result' = [result EXCEPT ![w] = "none"]
       ELSE UNCHANGED <<pc, left, task, doc, goal, payload, expired, result>>
  /\ UNCHANGED <<pending, failures, isLeader, client>>

\* stop_job_leader: the heartbeat is cancelled, and the lease is deleted if it
\* still carries this worker's token, unless the request fails.  An attempt of
\* the reclaim loop goes on with the token it has.
Release(w, reached) ==
  /\ stop[w] = "drain"
  /\ stop' = [stop EXCEPT ![w] = "exit"]
  /\ IF reached /\ isLeader[w] /\ Holds(w)
       THEN /\ doc' = NoDoc
            /\ pending' = [v \in Worker |-> Outdated(pending[v])]
       ELSE /\ doc' = IF task[w] = "reclaim" THEN doc ELSE Forgotten(w)
            /\ UNCHANGED pending
  /\ isLeader' = [isLeader EXCEPT ![w] = FALSE]
  /\ IF task[w] = "heartbeat" THEN GoTo(w, "off", 0) /\ task' = [task EXCEPT ![w] = "none"]
                              ELSE UNCHANGED <<pc, left, task>>
  /\ client' = [client EXCEPT ![w] = "none"]
  /\ UNCHANGED <<goal, payload, expired, result, failures, sched, budget, faults>>

Gone(w) ==
  /\ GoTo(w, "down", 0)
  /\ doc' = Forgotten(w)
  /\ task' = [task EXCEPT ![w] = "none"]
  /\ isLeader' = [isLeader EXCEPT ![w] = FALSE]
  /\ sched' = [sched EXCEPT ![w] = "stopped"]
  /\ client' = [client EXCEPT ![w] = "none"]
  /\ stop' = [stop EXCEPT ![w] = "no"]
  /\ budget' = [budget EXCEPT ![w] = 0]
  /\ failures' = [failures EXCEPT ![w] = 0]
  /\ EndAttempt(w)
  /\ result' = [result EXCEPT ![w] = "none"]
  /\ UNCHANGED pending

\* The process ends after its shutdown, or dies.
Exit(w) == stop[w] = "exit" /\ Gone(w) /\ UNCHANGED faults
Crash(w) == Fault("crash") /\ pc[w] # "down" /\ Gone(w)

----------------------------------------------------------------------------
(* The specification *)

Timed(w) == pc[w] \notin {"down", "off"}

\* Time passes, unless some worker is due.
Tick ==
  /\ \A w \in Worker : /\ Timed(w) => left[w] > 0
                       /\ stop[w] # "no" => budget[w] > 0
  /\ left' = [w \in Worker |-> Less(left[w])]
  /\ budget' = [w \in Worker |-> Less(budget[w])]
  /\ payload' = [w \in Worker |-> Less(payload[w])]
  /\ doc' = IF doc = NoDoc THEN NoDoc ELSE [doc EXCEPT !.ttl = Less(@)]
  /\ pending' = [w \in Worker |-> IF pending[w] = NoWrite THEN NoWrite
                                  ELSE [pending[w] EXCEPT !.ttl = Less(@)]]
  /\ UNCHANGED <<task, pc, goal, expired, result, failures, isLeader, sched, client, stop, faults>>

WorkerStep(w) ==
  \/ EnsureKv(w) \/ CasReply(w) \/ ReadBack(w) \/ ReadToSteal(w) \/ ReadToRenew(w)
  \/ BeatWake(w) \/ ReclaimWake(w) \/ PauseJobs(w)
  \/ Release(w, TRUE) \/ Exit(w)

WorkerFault(w) ==
  \/ EnsureKvFails(w) \/ ClientCloses(w) \/ CasError(w) \/ ReadBackFails(w) \/ ReadFails(w)
  \/ StopBegin(w) \/ Release(w, FALSE) \/ Crash(w)

\* A worker that leads, runs the jobs, or is about to learn that it won.
Kept(w) == isLeader[w] \/ sched[w] = "running" \/ (Waiting(w) /\ result[w] = "landed")

\* The lease of every such worker: it ends with time, begins with each write of
\* the worker that is accepted, and ends when the worker gives it back.
Ages == until' = [w \in Worker |-> IF Kept(w) THEN until[w] - 1 ELSE 0]
Begins(w) ==
  until' = [until EXCEPT ![w] = IF Accepted(w) /\ Kept(w)' THEN pending[w].ttl ELSE @]
Ends ==
  LET givenBack(w) == doc # NoDoc /\ doc' = NoDoc /\ until[w] > 0
  IN  until' = [w \in Worker |-> IF Kept(w)' /\ ~givenBack(w) THEN until[w] ELSE 0]

Next ==
  \/ Tick /\ Ages
  \/ \E w \in Worker : \/ ServerApplies(w) /\ Begins(w)
                       \/ (Boot(w) \/ WorkerStep(w) \/ WorkerFault(w)) /\ Ends

Spec == Init /\ [][Next]_vars

\* No worker stops in the middle of its election step, requests to an open
\* client are answered, requests to a closed one raise, and a supervisor
\* starts workers that ended.  Faults carry no fairness.
Fairness ==
  /\ WF_electionVars(Tick)
  /\ \A w \in Worker :
       /\ WF_electionVars(Boot(w))
       /\ WF_electionVars(ServerApplies(w) /\ Waiting(w))
       /\ WF_electionVars(WorkerStep(w))
       /\ WF_electionVars(client[w] # "open" /\ (CasError(w) \/ ReadBackFails(w) \/ ReadFails(w)))

FairSpec == Spec /\ Fairness

----------------------------------------------------------------------------
(* Properties *)

TypeOK ==
  /\ doc \in Doc \cup {NoDoc}
  /\ pending \in [Worker -> Write \cup {NoWrite}]
  /\ task \in [Worker -> {"none", "startup", "heartbeat", "reclaim"}]
  /\ pc \in [Worker -> {"down", "open", "cas", "back", "get", "beat", "sleep", "concede", "off"}]
  /\ goal \in [Worker -> {"create", "steal", "renew"}]
  /\ left \in [Worker -> Nat]
  /\ payload \in [Worker -> 0..Lease]
  /\ expired \in [Worker -> BOOLEAN]
  /\ result \in [Worker -> {"none", "landed", "refused"}]
  /\ failures \in [Worker -> 0..(MaxRetries - 1)]
  /\ isLeader \in [Worker -> BOOLEAN]
  /\ sched \in [Worker -> {"stopped", "running", "paused"}]
  /\ client \in [Worker -> {"none", "open", "closed"}]
  /\ stop \in [Worker -> {"no", "drain", "exit"}]
  /\ budget \in [Worker -> Nat]
  /\ faults \in Nat
  /\ until \in [Worker -> Int]

\* The longest time a worker goes on after it computed the expiry of the lease
\* it has: five requests to win it, MaxRetries rounds of three requests that
\* fail to renew it, and the pause of the jobs.
WorstCase ==
  5 * OpTime + Interval + 3 * OpTime + (MaxRetries - 1) * (3 * OpTime + RetryDelay) + StopTime

Runners == {w \in Worker : sched[w] = "running"}

\* The jobs run in one worker at a time, as far as leases go: a scheduler whose
\* lease has neither expired nor been given back is the only such one, and the
\* next begins only after that one was paused, stopped, has died or has outlived
\* its lease.
Alone == INSTANCE SingleRunner WITH runners <- {w \in Runners : until[w] > 0}
JobsRunAlone == Alone!Spec

\* A leader that cannot renew its lease concedes, and its jobs are paused, at
\* most WorstCase after the last renewal that succeeded began: this bounds how
\* long two schedulers can run at once, by WorstCase - Lease.
ConcedesByThen ==
  \A w \in Worker : isLeader[w] \/ (sched[w] = "running" /\ stop[w] # "exit") =>
    Lease - until[w] <= WorstCase

\* "Worst-case time from last successful renew to concede must stay under the
\* lease": a leader concedes before its lease ends.
ConcedesInTime == \A w \in Worker : isLeader[w] => until[w] > 0

\* A worker that has begun to shut down does not run its scheduler again within
\* the first Interval, so that no tick of a job reads node counters while the
\* usage jobs are drained, unless the drain takes longer than that.
StoppedForInterval ==
  \A w \in Worker : stop[w] # "no" /\ sched[w] = "running" => budget[w] + Interval <= ShutdownTime

\* The reclaim loop of w was ended by an exception of _ensure_kv.
GaveUp(w) == pc[w] = "off" /\ task[w] = "none" /\ stop[w] = "no"

\* Once the faults are over, the jobs never stop for good: again and again some
\* worker runs them, unless an exception ended the reclaim loop of every worker,
\* which nothing starts again.
SomeoneRuns == []<>(Runners # {} \/ \A w \in Worker : GaveUp(w))
=============================================================================
