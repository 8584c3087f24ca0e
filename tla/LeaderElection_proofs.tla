----------------------- MODULE LeaderElection_proofs -----------------------
(***************************************************************************)
(* Theorems about LeaderElection, for every number of workers and faults   *)
(* and for every choice of the times.                                      *)
(***************************************************************************)
EXTENDS LeaderElection, TLAPS

----------------------------------------------------------------------------
(* Type correctness *)

LEMMA ForgottenType ==
  ASSUME TypeOK, NEW w \in Worker
  PROVE  Forgotten(w) \in Doc \cup {NoDoc}
BY DEF TypeOK, Forgotten, Doc

LEMMA SendType ==
  ASSUME TypeOK, NEW w \in Worker, NEW g \in {"create", "steal", "renew"}, NEW ttl \in 0..Lease,
         NEW guard \in {"absent", "current"}, Send(w, g, ttl, guard)
  PROVE  /\ pc' \in [Worker -> {"down", "open", "cas", "back", "get", "beat", "sleep", "concede", "off"}]
         /\ left' \in [Worker -> Nat]
         /\ goal' \in [Worker -> {"create", "steal", "renew"}]
         /\ result' \in [Worker -> {"none", "landed", "refused"}]
         /\ pending' \in [Worker -> Write \cup {NoWrite}]
<1>1. [goal |-> g, ttl |-> ttl, guard |-> guard] \in Write
  BY DEF Write
<1>2. pending' \in [Worker -> Write \cup {NoWrite}]
  BY <1>1 DEF Send, TypeOK
<1> QED BY <1>2, ConstantsAssumption DEF Send, GoTo, TypeOK

\* What the ends of the coroutines' steps leave well typed.
StepTyped ==
  /\ doc' \in Doc \cup {NoDoc}
  /\ task' \in [Worker -> {"none", "startup", "heartbeat", "reclaim"}]
  /\ pc' \in [Worker -> {"down", "open", "cas", "back", "get", "beat", "sleep", "concede", "off"}]
  /\ goal' \in [Worker -> {"create", "steal", "renew"}]
  /\ left' \in [Worker -> Nat]
  /\ payload' \in [Worker -> 0..Lease]
  /\ expired' \in [Worker -> BOOLEAN]
  /\ failures' \in [Worker -> 0..(MaxRetries - 1)]
  /\ isLeader' \in [Worker -> BOOLEAN]
  /\ sched' \in [Worker -> {"stopped", "running", "paused"}]

LEMMA WinType == ASSUME TypeOK, NEW w \in Worker, Win(w) PROVE StepTyped
BY ConstantsAssumption DEF TypeOK, StepTyped, Win, GoTo, EndAttempt

LEMMA LoseType == ASSUME TypeOK, NEW w \in Worker, Lose(w) PROVE StepTyped
BY ForgottenType, ConstantsAssumption DEF TypeOK, StepTyped, Lose, GoTo, EndAttempt

LEMMA ConcedeType == ASSUME TypeOK, NEW w \in Worker, Concede(w) PROVE StepTyped
BY ForgottenType, ConstantsAssumption DEF TypeOK, StepTyped, Concede, GoTo

LEMMA RenewFailedType == ASSUME TypeOK, NEW w \in Worker, RenewFailed(w) PROVE StepTyped
<1>1. CASE Concede(w)
  BY <1>1, ConcedeType
<1>2. CASE ~Concede(w)
  BY <1>2, ConstantsAssumption DEF TypeOK, StepTyped, RenewFailed, GoTo
<1> QED BY <1>1, <1>2

LEMMA OutcomeType ==
  ASSUME TypeOK, NEW w \in Worker, NEW landed \in BOOLEAN, Outcome(w, landed)
  PROVE  StepTyped /\ result' \in [Worker -> {"none", "landed", "refused"}]
<1>1. goal[w] \in {"create", "steal", "renew"}
  BY DEF TypeOK
<1>2. result' \in [Worker -> {"none", "landed", "refused"}]
  BY DEF Outcome, TypeOK
<1>3. CASE Win(w) \/ Lose(w) \/ RenewFailed(w)
  BY <1>2, <1>3, WinType, LoseType, RenewFailedType
<1>4. CASE Renewed(w)
  BY <1>2, <1>4, ConstantsAssumption DEF TypeOK, StepTyped, Renewed, GoTo
<1>5. CASE goal[w] = "create" /\ ~landed
  BY <1>2, <1>5, ConstantsAssumption DEF TypeOK, StepTyped, Outcome, GoTo
<1> QED BY <1>1, <1>3, <1>4, <1>5 DEF Outcome

LEMMA GoneType ==
  ASSUME TypeOK, NEW w \in Worker, Gone(w), faults' \in Nat, until' \in [Worker -> Int]
  PROVE  TypeOK'
<1>1. doc' \in Doc \cup {NoDoc} /\ 0 \in 0..Lease /\ 0 \in 0..(MaxRetries - 1)
  BY ForgottenType, ConstantsAssumption DEF Gone
<1>2. /\ pc' \in [Worker -> {"down", "open", "cas", "back", "get", "beat", "sleep", "concede", "off"}]
      /\ left' \in [Worker -> Nat]
      /\ goal' \in [Worker -> {"create", "steal", "renew"}]
      /\ payload' \in [Worker -> 0..Lease] /\ expired' \in [Worker -> BOOLEAN]
  BY <1>1 DEF Gone, GoTo, EndAttempt, TypeOK
<1> QED BY <1>1, <1>2 DEF TypeOK, Gone

LEMMA OutdatedType == ASSUME NEW x \in Write \cup {NoWrite} PROVE Outdated(x) \in Write \cup {NoWrite}
BY DEF Outdated, Write

LEMMA InitTypeOK == Init => TypeOK
BY ConstantsAssumption DEF Init, TypeOK

LEMMA ServerAppliesType ==
  ASSUME TypeOK, NEW w \in Worker, ServerApplies(w), until' \in [Worker -> Int]
  PROVE  TypeOK'
<1>1. pending[w] \in Write
  BY DEF TypeOK, ServerApplies
<1>2. doc' \in Doc \cup {NoDoc}
  BY <1>1 DEF ServerApplies, TypeOK, Doc, Write, Waiting
<1>3. pending' \in [Worker -> Write \cup {NoWrite}]
  BY OutdatedType DEF ServerApplies, TypeOK
<1>4. expired' \in [Worker -> BOOLEAN] /\ result' \in [Worker -> {"none", "landed", "refused"}]
  BY DEF ServerApplies, TypeOK
<1> QED BY <1>2, <1>3, <1>4 DEF ServerApplies, TypeOK

LEMMA ReleaseType ==
  ASSUME TypeOK, NEW w \in Worker, NEW reached \in BOOLEAN, Release(w, reached),
         until' \in [Worker -> Int]
  PROVE  TypeOK'
<1>1. doc' \in Doc \cup {NoDoc} /\ pending' \in [Worker -> Write \cup {NoWrite}]
  BY ForgottenType, OutdatedType DEF Release, TypeOK
<1>2. /\ pc' \in [Worker -> {"down", "open", "cas", "back", "get", "beat", "sleep", "concede", "off"}]
      /\ task' \in [Worker -> {"none", "startup", "heartbeat", "reclaim"}]
      /\ left' \in [Worker -> Nat]
  BY DEF Release, TypeOK, GoTo
<1> QED BY <1>1, <1>2 DEF Release, TypeOK

LEMMA TickType ==
  ASSUME TypeOK, Tick, until' \in [Worker -> Int]
  PROVE  TypeOK'
<1>1. \A t \in 0..Lease : Less(t) \in 0..Lease
  BY ConstantsAssumption DEF Less
<1>2. \A t \in Nat : Less(t) \in Nat
  BY DEF Less
<1>3. doc' \in Doc \cup {NoDoc}
  BY <1>1 DEF Tick, TypeOK, Doc
<1>4. pending' \in [Worker -> Write \cup {NoWrite}]
  <2>1. ASSUME NEW x \in Write PROVE [x EXCEPT !.ttl = Less(@)] \in Write
    BY <1>1, <2>1 DEF Write
  <2> QED BY <2>1 DEF Tick, TypeOK
<1>5. /\ left' \in [Worker -> Nat] /\ budget' \in [Worker -> Nat]
      /\ payload' \in [Worker -> 0..Lease]
  BY <1>1, <1>2 DEF Tick, TypeOK
<1> QED BY <1>3, <1>4, <1>5 DEF Tick, TypeOK

LEMMA WorkerStepType ==
  ASSUME TypeOK, NEW w \in Worker, WorkerStep(w), until' \in [Worker -> Int]
  PROVE  TypeOK'
<1>1. ASSUME EnsureKv(w) PROVE TypeOK'
  <2>1. Lease \in 0..Lease /\ "create" \in {"create", "steal", "renew"} /\ "absent" \in {"absent", "current"}
    BY ConstantsAssumption
  <2>2. /\ pc' \in [Worker -> {"down", "open", "cas", "back", "get", "beat", "sleep", "concede", "off"}]
        /\ left' \in [Worker -> Nat]
        /\ goal' \in [Worker -> {"create", "steal", "renew"}]
        /\ result' \in [Worker -> {"none", "landed", "refused"}]
        /\ pending' \in [Worker -> Write \cup {NoWrite}]
    BY <1>1, <2>1, SendType DEF EnsureKv
  <2>3. /\ payload' \in [Worker -> 0..Lease] /\ expired' \in [Worker -> BOOLEAN]
        /\ client' \in [Worker -> {"none", "open", "closed"}]
    BY <1>1, <2>1 DEF EnsureKv, TypeOK
  <2> QED BY <1>1, <2>2, <2>3 DEF EnsureKv, TypeOK
<1>2. ASSUME CasReply(w) \/ ReadBack(w) PROVE TypeOK'
  <2>1. \E landed \in BOOLEAN : Outcome(w, landed)
    BY <1>2 DEF CasReply, ReadBack
  <2>2. StepTyped /\ result' \in [Worker -> {"none", "landed", "refused"}]
    BY <2>1, OutcomeType
  <2> QED BY <1>2, <2>2 DEF CasReply, ReadBack, TypeOK, StepTyped
<1>3. ASSUME ReadToSteal(w) PROVE TypeOK'
  <2>1. CASE Lose(w) /\ UNCHANGED <<pending, result>>
    BY <1>3, <2>1, LoseType DEF ReadToSteal, TypeOK, StepTyped
  <2>2. CASE ~(Lose(w) /\ UNCHANGED <<pending, result>>)
    <3>1. /\ Send(w, "steal", payload[w], IF doc = NoDoc THEN "absent" ELSE "current")
          /\ UNCHANGED <<doc, task, payload, expired, failures, isLeader, sched, client, stop, budget, faults>>
      BY <1>3, <2>2 DEF ReadToSteal
    <3>2. payload[w] \in 0..Lease
      BY DEF TypeOK
    <3>3. /\ pc' \in [Worker -> {"down", "open", "cas", "back", "get", "beat", "sleep", "concede", "off"}]
          /\ left' \in [Worker -> Nat]
          /\ goal' \in [Worker -> {"create", "steal", "renew"}]
          /\ result' \in [Worker -> {"none", "landed", "refused"}]
          /\ pending' \in [Worker -> Write \cup {NoWrite}]
      BY <3>1, <3>2, SendType
    <3> QED BY <3>1, <3>3 DEF TypeOK
  <2> QED BY <2>1, <2>2
<1>4. ASSUME ReadToRenew(w) PROVE TypeOK'
  <2>1. CASE Concede(w) /\ UNCHANGED <<pending, result>>
    BY <1>4, <2>1, ConcedeType DEF ReadToRenew, TypeOK, StepTyped
  <2>2. CASE ~(Concede(w) /\ UNCHANGED <<pending, result>>)
    <3>1. /\ Send(w, "renew", Lease, "current")
          /\ UNCHANGED <<doc, task, payload, expired, failures, isLeader, sched, client, stop, budget, faults>>
      BY <1>4, <2>2 DEF ReadToRenew
    <3>2. Lease \in 0..Lease
      BY ConstantsAssumption
    <3>3. /\ pc' \in [Worker -> {"down", "open", "cas", "back", "get", "beat", "sleep", "concede", "off"}]
          /\ left' \in [Worker -> Nat]
          /\ goal' \in [Worker -> {"create", "steal", "renew"}]
          /\ result' \in [Worker -> {"none", "landed", "refused"}]
          /\ pending' \in [Worker -> Write \cup {NoWrite}]
      BY <3>1, <3>2, SendType
    <3> QED BY <3>1, <3>3 DEF TypeOK
  <2> QED BY <2>1, <2>2
<1>5. ASSUME BeatWake(w) \/ ReclaimWake(w) \/ PauseJobs(w) PROVE TypeOK'
  BY <1>5, ConstantsAssumption DEF BeatWake, ReclaimWake, PauseJobs, GoTo, TypeOK
<1>6. ASSUME Exit(w) PROVE TypeOK'
  <2>1. faults' \in Nat /\ Gone(w)
    BY <1>6 DEF Exit, TypeOK
  <2> QED BY <2>1, GoneType
<1> QED BY <1>1, <1>2, <1>3, <1>4, <1>5, <1>6, ReleaseType DEF WorkerStep

LEMMA WorkerFaultType ==
  ASSUME TypeOK, NEW w \in Worker, WorkerFault(w), until' \in [Worker -> Int]
  PROVE  TypeOK'
<1>0. \A kind : Fault(kind) => faults' \in Nat
  BY DEF Fault, TypeOK
<1>1. ASSUME EnsureKvFails(w) PROVE TypeOK'
  BY <1>1, <1>0 DEF EnsureKvFails, GoTo, TypeOK
<1>2. ASSUME ClientCloses(w) PROVE TypeOK'
  BY <1>2, <1>0 DEF ClientCloses, TypeOK
<1>3. ASSUME CasError(w) PROVE TypeOK'
  <2>1. faults' \in Nat
    BY <1>3, <1>0 DEF CasError, TypeOK
  <2> QED BY <1>3, <2>1, ConstantsAssumption DEF CasError, GoTo, TypeOK
<1>4. ASSUME ReadBackFails(w) PROVE TypeOK'
  <2>1. faults' \in Nat
    BY <1>4, <1>0 DEF ReadBackFails, TypeOK
  <2>2. StepTyped /\ result' \in [Worker -> {"none", "landed", "refused"}]
    BY <1>4, OutcomeType DEF ReadBackFails
  <2> QED BY <1>4, <2>1, <2>2 DEF ReadBackFails, TypeOK, StepTyped
<1>5. ASSUME ReadFails(w) PROVE TypeOK'
  <2>1. faults' \in Nat
    BY <1>5, <1>0 DEF ReadFails, TypeOK
  <2>2. StepTyped
    BY <1>5, LoseType, RenewFailedType DEF ReadFails
  <2> QED BY <1>5, <2>1, <2>2 DEF ReadFails, TypeOK, StepTyped
<1>6. ASSUME StopBegin(w) PROVE TypeOK'
  <2>1. /\ pc' \in [Worker -> {"down", "open", "cas", "back", "get", "beat", "sleep", "concede", "off"}]
        /\ task' \in [Worker -> {"none", "startup", "heartbeat", "reclaim"}]
        /\ left' \in [Worker -> Nat]
        /\ goal' \in [Worker -> {"create", "steal", "renew"}]
        /\ payload' \in [Worker -> 0..Lease] /\ expired' \in [Worker -> BOOLEAN]
        /\ result' \in [Worker -> {"none", "landed", "refused"}]
        /\ doc' \in Doc \cup {NoDoc}
    <3>1. CASE task[w] = "reclaim"
      <4>1. 0 \in 0..Lease
        BY ConstantsAssumption
      <4>2. GoTo(w, "off", 0) /\ EndAttempt(w) /\ doc' = Forgotten(w)
        BY <1>6, <3>1 DEF StopBegin
      <4>3. /\ task' = [task EXCEPT ![w] = "none"]
            /\ result' = [result EXCEPT ![w] = "none"]
        BY <1>6, <3>1 DEF StopBegin
      <4> QED BY <4>1, <4>2, <4>3, ForgottenType DEF GoTo, EndAttempt, TypeOK
    <3>2. CASE task[w] # "reclaim"
      BY <1>6, <3>2 DEF StopBegin, TypeOK
    <3> QED BY <3>1, <3>2
  <2> QED BY <1>6, <1>0, <2>1, ConstantsAssumption DEF StopBegin, TypeOK
<1>7. ASSUME Crash(w) PROVE TypeOK'
  BY <1>7, <1>0, GoneType DEF Crash
<1> QED BY <1>1, <1>2, <1>3, <1>4, <1>5, <1>6, <1>7, ReleaseType DEF WorkerFault

LEMMA UntilType ==
  ASSUME TypeOK, Next PROVE until' \in [Worker -> Int]
<1>1. until \in [Worker -> Int] /\ \A w \in Worker : until[w] - 1 \in Int
  BY DEF TypeOK
<1>2. ASSUME NEW w \in Worker, ServerApplies(w), Begins(w) PROVE until' \in [Worker -> Int]
  <2>1. pending[w] \in Write
    BY <1>2 DEF TypeOK, ServerApplies
  <2>2. pending[w].ttl \in Int
    BY <2>1, ConstantsAssumption DEF Write
  <2> QED BY <1>1, <1>2, <2>2 DEF Begins
<1>3. ASSUME Ages PROVE until' \in [Worker -> Int]
  BY <1>1, <1>3 DEF Ages
<1>4. ASSUME Ends PROVE until' \in [Worker -> Int]
  BY <1>1, <1>4 DEF Ends
<1> QED BY <1>2, <1>3, <1>4 DEF Next

LEMMA NextTypeOK == TypeOK /\ [Next]_vars => TypeOK'
<1>1. ASSUME TypeOK, NEW w \in Worker, Boot(w), until' \in [Worker -> Int] PROVE TypeOK'
  BY <1>1, ConstantsAssumption DEF Boot, GoTo, TypeOK
<1>2. TypeOK /\ UNCHANGED vars => TypeOK'
  BY DEF TypeOK, vars, electionVars
<1>3. TypeOK /\ Next => TypeOK'
  <2> SUFFICES ASSUME TypeOK, Next PROVE TypeOK'
    OBVIOUS
  <2>1. until' \in [Worker -> Int]
    BY UntilType
  <2> QED BY <1>1, <2>1, TickType, ServerAppliesType, WorkerStepType, WorkerFaultType DEF Next
<1> QED BY <1>2, <1>3

\* Every variable keeps its type; in particular the heartbeat never counts
\* more failures than it may before it concedes.
THEOREM TypeCorrect == Spec => []TypeOK
BY InitTypeOK, NextTypeOK, PTL DEF Spec

----------------------------------------------------------------------------
(* The lease and the time a worker goes by it *)

\* The time a leader still needs, after the renewal it is trying now and f
\* failures before it, until its scheduler is paused.
Round == 3 * OpTime + RetryDelay
Again(f) == (MaxRetries - 1 - f) * Round + StopTime

\* The time a worker that leads, or concedes, still needs until its scheduler
\* is paused, if no renewal succeeds from now on.
Need(w) ==
  left[w] + (CASE pc[w] = "beat" -> 3 * OpTime + Again(failures[w])
               [] pc[w] = "get"  -> 2 * OpTime + Again(failures[w])
               [] pc[w] = "cas"  -> OpTime + Again(failures[w])
               [] pc[w] = "back" -> Again(failures[w])
               [] OTHER          -> 0)

\* The most time that passed since an expiry was computed, plus left.
Spent(w) ==
  CASE pc[w] = "cas" /\ goal[w] # "steal"  -> OpTime
    [] pc[w] = "back" /\ goal[w] # "steal" -> 2 * OpTime
    [] pc[w] = "get"                       -> 3 * OpTime
    [] pc[w] = "cas" /\ goal[w] = "steal"  -> 4 * OpTime
    [] OTHER                               -> 5 * OpTime

Asking(w) == pc[w] \in {"get", "cas", "back"}
Active(w) == isLeader[w] \/ (pc[w] = "concede" /\ sched[w] = "running")

\* A worker that leads, or still runs the jobs while it concedes, has not gone
\* on for so long that it cannot end in time.
AgeInv(w) == Active(w) => until[w] + WorstCase >= Lease + Need(w)

\* As long as its lease has not ended, the document is that lease.
OwnInv(w) == Kept(w) /\ until[w] > 0 => doc # NoDoc /\ doc.by = w /\ doc.ttl = until[w]

TaskInv(w) ==
  /\ Asking(w) => (goal[w] = "renew" <=> task[w] = "heartbeat")
  /\ task[w] = "heartbeat" => pc[w] \in {"beat", "get", "cas", "back", "concede"}
  /\ pc[w] \in {"beat", "concede"} => task[w] = "heartbeat"
  /\ isLeader[w] <=> task[w] = "heartbeat" /\ pc[w] # "concede"
  /\ task[w] = "none" => pc[w] \in {"down", "off"}
  /\ sched[w] = "running" /\ stop[w] # "exit" => isLeader[w] \/ pc[w] = "concede"
  /\ pc[w] = "down" => sched[w] # "running" /\ stop[w] = "no"
  /\ task[w] = "startup" => stop[w] = "no"

\* An attempt writes an expiry that is still far enough away.
TryInv(w) == Asking(w) /\ goal[w] # "renew" => payload[w] + Spent(w) >= Lease + left[w]

\* A write was accepted, or may be, soon after its expiry was computed.
WaitInv(w) ==
  Waiting(w) =>
    /\ result[w] = "landed" => pending[w] = NoWrite /\ until[w] + Spent(w) >= Lease + left[w]
    /\ pending[w] # NoWrite =>
         /\ pending[w].goal = goal[w]
         /\ goal[w] # "renew" => pending[w].ttl = payload[w]
         /\ goal[w] = "renew" => pending[w].ttl + Spent(w) >= Lease + left[w]

\* A write that may still be accepted replaces an absent lease, an expired
\* one, or the sender's own.
LateInv(w) ==
  pending[w] # NoWrite =>
    /\ pending[w].goal = "renew" => pending[w].guard # "absent"
    /\ pending[w].goal = "create" => pending[w].guard = "absent"
    /\ pending[w].goal = "renew" /\ pending[w].guard = "current" =>
         doc # NoDoc /\ doc.by = w /\ pending[w].ttl >= doc.ttl
    /\ pending[w].goal = "steal" /\ pending[w].guard = "current" => doc # NoDoc /\ doc.ttl = 0
    /\ task[w] = "heartbeat" => pending[w].goal = "renew"

ExpiredInv(w) == expired[w] => doc = NoDoc \/ doc.ttl = 0

\* A shutdown goes on without the scheduler until the heartbeat concedes; the
\* reclaim loop this starts sleeps first.
StopInv(w) ==
  stop[w] # "no" =>
    /\ budget[w] <= ShutdownTime
    /\ \/ sched[w] # "running" /\ (task[w] = "heartbeat" \/ pc[w] = "off")
       \/ sched[w] # "running" /\ pc[w] = "sleep" /\ left[w] + ShutdownTime >= Interval + budget[w]
       \/ budget[w] + Interval <= ShutdownTime

WInv(w) ==
  /\ AgeInv(w) /\ OwnInv(w) /\ TaskInv(w) /\ TryInv(w) /\ WaitInv(w)
  /\ LateInv(w) /\ ExpiredInv(w) /\ StopInv(w)

IInv == TypeOK /\ \A w \in Worker : WInv(w)

LEMMA AgainFacts ==
  ASSUME NEW f \in 0..(MaxRetries - 1)
  PROVE  /\ Again(f) \in Nat
         /\ Again(f) >= StopTime
         /\ f + 1 < MaxRetries => Again(f) = Again(f + 1) + Round
         /\ WorstCase = 8 * OpTime + Interval + Again(0) /\ Again(0) \in Nat
<1> DEFINE m == MaxRetries - 1
<1>1. m \in Nat /\ f \in Nat /\ f <= m /\ Round \in Nat /\ StopTime \in Nat
  BY ConstantsAssumption DEF Round
<1>2. ASSUME NEW a \in Nat, NEW b \in Nat PROVE a * b \in Nat
  OBVIOUS
<1>3. ASSUME NEW a \in Nat, NEW b \in Nat PROVE (a + 1) * b = a * b + b
  OBVIOUS
<1>5. (m - f) \in Nat /\ (m - f) * Round \in Nat
  BY <1>1, <1>2
<1>6. Again(f) \in Nat /\ Again(f) >= StopTime
  BY <1>1, <1>5 DEF Again
<1>7. f + 1 < MaxRetries => Again(f) = Again(f + 1) + Round
  <2>1. SUFFICES ASSUME f + 1 < MaxRetries PROVE Again(f) = Again(f + 1) + Round
    OBVIOUS
  <2>2. m - (f + 1) \in Nat /\ m - f = (m - (f + 1)) + 1
    BY <1>1, <2>1, ConstantsAssumption
  <2>3. (m - f) * Round = (m - (f + 1)) * Round + Round
    BY <1>1, <1>3, <2>2
  <2>4. (m - (f + 1)) * Round \in Nat
    BY <1>1, <1>2, <2>2
  <2> QED BY <1>1, <1>5, <2>3, <2>4 DEF Again
<1>8. WorstCase = 8 * OpTime + Interval + Again(0) /\ Again(0) \in Nat
  <2>1. Again(0) = (MaxRetries - 1) * (3 * OpTime + RetryDelay) + StopTime
    BY <1>1 DEF Again, Round
  <2>2. (MaxRetries - 1) * (3 * OpTime + RetryDelay) \in Nat
    BY <1>1, <1>2 DEF Round
  <2> QED BY <2>1, <2>2, ConstantsAssumption DEF WorstCase
<1> QED BY <1>6, <1>7, <1>8

\* Forgetting its token changes nothing else about the lease.
LEMMA ForgottenFacts ==
  ASSUME TypeOK, NEW w \in Worker
  PROVE  /\ Forgotten(w) = NoDoc <=> doc = NoDoc
         /\ doc # NoDoc => Forgotten(w).by = doc.by /\ Forgotten(w).ttl = doc.ttl
<1>1. CASE doc # NoDoc /\ doc.by = w
  <2>1. doc \in Doc /\ Forgotten(w) = [doc EXCEPT !.known = FALSE]
    BY <1>1 DEF TypeOK, Forgotten
  <2>2. Forgotten(w) \in Doc /\ Forgotten(w).by = doc.by /\ Forgotten(w).ttl = doc.ttl
    BY <2>1 DEF Doc
  <2> QED BY <1>1, <2>2, ConstantsAssumption
<1>2. CASE ~(doc # NoDoc /\ doc.by = w)
  BY <1>2 DEF Forgotten
<1> QED BY <1>1, <1>2

\* The step writes no lease and gives none back.
SameLease ==
  /\ doc' = NoDoc <=> doc = NoDoc
  /\ doc # NoDoc => doc'.by = doc.by /\ doc'.ttl = doc.ttl

LEMMA LeaseLeftAlone ==
  ASSUME TypeOK, NEW w \in Worker, doc' = doc \/ doc' = Forgotten(w)
  PROVE  SameLease
BY ForgottenFacts DEF SameLease

\* The time until the lease of v ends is the same after the step, if v keeps it.
SameTime(v) == Kept(v)' => until'[v] = until[v]

LEMMA EndsKeeps == ASSUME Ends, SameLease, NEW v \in Worker PROVE SameTime(v)
BY DEF Ends, SameLease, SameTime

\* v takes no part in the step.
Same(v) ==
  /\ pending'[v] = pending[v] /\ task'[v] = task[v] /\ pc'[v] = pc[v] /\ goal'[v] = goal[v]
  /\ left'[v] = left[v] /\ payload'[v] = payload[v] /\ expired'[v] = expired[v]
  /\ result'[v] = result[v] /\ failures'[v] = failures[v] /\ isLeader'[v] = isLeader[v]
  /\ sched'[v] = sched[v] /\ stop'[v] = stop[v] /\ budget'[v] = budget[v]

\* What the end of a coroutine's step leaves alone.
Leaves(w) ==
  /\ pending'[w] = pending[w] /\ stop'[w] = stop[w] /\ budget'[w] = budget[w]
  /\ SameLease /\ SameTime(w)

\* Whatever a worker does for itself, it leaves the others' part of the
\* invariant alone.
LEMMA Others ==
  ASSUME NEW v \in Worker, WInv(v), Same(v), SameLease, SameTime(v)
  PROVE  WInv(v)'
<1>1. /\ Active(v)' = Active(v) /\ Asking(v)' = Asking(v) /\ Waiting(v)' = Waiting(v)
      /\ Need(v)' = Need(v) /\ Spent(v)' = Spent(v) /\ Kept(v)' = Kept(v)
  BY DEF Same, Active, Asking, Waiting, Need, Spent, Kept
<1>2. Active(v) => Kept(v)
  BY DEF Active, Kept
<1>3. AgeInv(v)' /\ OwnInv(v)'
  BY <1>1, <1>2 DEF WInv, AgeInv, OwnInv, Same, SameLease, SameTime
<1>4. TaskInv(v)' /\ TryInv(v)'
  BY <1>1 DEF WInv, TaskInv, TryInv, Same
<1>5. WaitInv(v)'
  BY <1>1 DEF WInv, WaitInv, Same, SameTime, Kept
<1>6. LateInv(v)' /\ ExpiredInv(v)' /\ StopInv(v)'
  BY DEF WInv, LateInv, ExpiredInv, StopInv, Same, SameLease
<1> QED BY <1>3, <1>4, <1>5, <1>6 DEF WInv

\* The types of the values a worker's step computes with.
LEMMA Values ==
  ASSUME TypeOK, NEW w \in Worker
  PROVE  /\ left[w] \in Nat /\ payload[w] \in Nat /\ payload[w] <= Lease
         /\ failures[w] \in 0..(MaxRetries - 1) /\ until[w] \in Int /\ budget[w] \in Nat
         /\ doc # NoDoc => doc.ttl \in Nat /\ doc.by \in Worker /\ doc.known \in BOOLEAN
         /\ pending[w] # NoWrite => pending[w].ttl \in Nat
         /\ {Lease, Interval, RetryDelay, OpTime, StopTime, ShutdownTime} \subseteq Nat
         /\ Again(failures[w]) \in Nat /\ Again(0) \in Nat
         /\ Again(failures[w]) >= StopTime /\ Again(0) >= StopTime
         /\ WorstCase = 8 * OpTime + Interval + Again(0) /\ WorstCase \in Nat
<1>1. /\ left[w] \in Nat /\ payload[w] \in 0..Lease
      /\ failures[w] \in 0..(MaxRetries - 1) /\ until[w] \in Int /\ budget[w] \in Nat
      /\ doc # NoDoc => doc.ttl \in Nat /\ doc.by \in Worker /\ doc.known \in BOOLEAN
      /\ pending[w] # NoWrite => pending[w].ttl \in Nat
  BY DEF TypeOK, Doc, Write
<1>2. /\ {Lease, Interval, RetryDelay, OpTime, StopTime, ShutdownTime} \subseteq Nat
      /\ 0 \in 0..(MaxRetries - 1)
  BY ConstantsAssumption
<1>3. WorstCase = 8 * OpTime + Interval + Again(0) /\ Again(0) \in Nat
  BY <1>2, AgainFacts
<1>4. WorstCase \in Nat
  BY <1>2, <1>3
<1> QED BY <1>1, <1>2, <1>3, <1>4, AgainFacts

\* A worker whose write was accepted while it tries to win starts to lead.
LEMMA WinInv ==
  ASSUME TypeOK, NEW w \in Worker, WInv(w), Waiting(w), goal[w] # "renew",
         result[w] = "landed", Win(w), Leaves(w)
  PROVE  WInv(w)'
<1>1. /\ pc'[w] = "beat" /\ left'[w] = Interval /\ task'[w] = "heartbeat" /\ isLeader'[w] = TRUE
      /\ failures'[w] = 0 /\ sched'[w] = "running" /\ expired'[w] = FALSE /\ doc' = doc
  BY DEF Win, GoTo, EndAttempt, TypeOK
<1>2. /\ Kept(w) /\ Kept(w)' /\ until'[w] = until[w]
      /\ until[w] + 5 * OpTime >= Lease /\ pending[w] = NoWrite
  BY <1>1, Values DEF WInv, WaitInv, Waiting, Spent, Kept, Leaves, SameTime
<1>3. Need(w)' = Interval + (3 * OpTime + Again(0))
  BY <1>1 DEF Need
<1>4. AgeInv(w)'
  BY <1>2, <1>3, Values DEF AgeInv
<1>5. OwnInv(w)'
  BY <1>1, <1>2 DEF WInv, OwnInv
<1>6. TaskInv(w)' /\ TryInv(w)' /\ WaitInv(w)' /\ ExpiredInv(w)' /\ LateInv(w)'
  BY <1>1, <1>2 DEF TaskInv, TryInv, WaitInv, ExpiredInv, LateInv, Asking, Waiting, Leaves
<1>7. StopInv(w)'
  BY <1>1 DEF WInv, StopInv, TaskInv, Asking, Waiting, Leaves
<1> QED BY <1>4, <1>5, <1>6, <1>7 DEF WInv

LEMMA LoseInv ==
  ASSUME TypeOK, NEW w \in Worker, WInv(w), Asking(w), goal[w] # "renew", Lose(w), Leaves(w)
  PROVE  WInv(w)'
<1>1. /\ pc'[w] = "sleep" /\ task'[w] = "reclaim" /\ isLeader'[w] = FALSE
      /\ sched'[w] = sched[w] /\ expired'[w] = FALSE
  BY DEF Lose, GoTo, EndAttempt, TypeOK
<1>2. ~Active(w)' /\ (Kept(w)' => Kept(w))
  BY <1>1 DEF Active, Kept, Waiting
<1>3. AgeInv(w)' /\ OwnInv(w)'
  BY <1>2 DEF WInv, AgeInv, OwnInv, Leaves, SameLease, SameTime
<1>4. TaskInv(w)' /\ TryInv(w)' /\ WaitInv(w)' /\ ExpiredInv(w)'
  BY <1>1 DEF WInv, TaskInv, TryInv, WaitInv, ExpiredInv, Asking, Waiting, Leaves
<1>5. LateInv(w)'
  BY <1>1 DEF WInv, LateInv, Leaves, SameLease
<1>6. StopInv(w)'
  BY <1>1 DEF WInv, StopInv, TaskInv, Asking, Leaves
<1> QED BY <1>3, <1>4, <1>5, <1>6 DEF WInv

\* A leader that concedes keeps the scheduler running for StopTime at most.
LEMMA ConcedeInv ==
  ASSUME TypeOK, NEW w \in Worker, WInv(w), Asking(w), goal[w] = "renew", Concede(w), Leaves(w)
  PROVE  WInv(w)'
<1>1. /\ pc'[w] = "concede" /\ left'[w] = StopTime /\ task'[w] = task[w] /\ isLeader'[w] = FALSE
      /\ sched'[w] = sched[w] /\ expired'[w] = expired[w]
  BY DEF Concede, GoTo, TypeOK
<1>2. Active(w) /\ Kept(w) /\ (Active(w)' => Kept(w)') /\ task[w] = "heartbeat"
  BY DEF WInv, TaskInv, Active, Kept, Asking
<1>3. Need(w)' = StopTime
  BY <1>1, Values DEF Need
<1>4. Need(w) >= StopTime /\ Need(w) \in Nat
  BY Values DEF Need, Asking
<1>5. AgeInv(w)'
  BY <1>2, <1>3, <1>4, Values DEF WInv, AgeInv, Leaves, SameTime
<1>6. OwnInv(w)'
  BY <1>2 DEF WInv, OwnInv, Leaves, SameLease, SameTime
<1>7. TaskInv(w)' /\ TryInv(w)' /\ WaitInv(w)'
  BY <1>1, <1>2 DEF WInv, TaskInv, TryInv, WaitInv, Asking, Waiting
<1>8. LateInv(w)' /\ ExpiredInv(w)'
  BY <1>1 DEF WInv, LateInv, ExpiredInv, Leaves, SameLease
<1>9. StopInv(w)'
  BY <1>1, <1>2 DEF WInv, StopInv, Leaves, TaskInv
<1> QED BY <1>5, <1>6, <1>7, <1>8, <1>9 DEF WInv

LEMMA RenewFailedInv ==
  ASSUME TypeOK, NEW w \in Worker, WInv(w), Asking(w), goal[w] = "renew", RenewFailed(w), Leaves(w)
  PROVE  WInv(w)'
<1>1. CASE Concede(w)
  BY <1>1, ConcedeInv
<1>2. CASE ~Concede(w)
  <2>1. /\ failures[w] + 1 < MaxRetries
        /\ pc'[w] = "beat" /\ left'[w] = RetryDelay /\ failures'[w] = failures[w] + 1
        /\ task'[w] = task[w] /\ isLeader'[w] = isLeader[w] /\ sched'[w] = sched[w]
        /\ expired'[w] = expired[w] /\ doc' = doc
    BY <1>2 DEF RenewFailed, GoTo, TypeOK
  <2>2. Need(w)' = RetryDelay + (3 * OpTime + Again(failures[w] + 1))
    BY <2>1 DEF Need
  <2>3. Again(failures[w]) = Again(failures[w] + 1) + (3 * OpTime + RetryDelay)
    BY <2>1, Values, AgainFacts DEF Round
  <2>4. Need(w)' <= Need(w) /\ Need(w) \in Nat /\ Need(w)' \in Nat
    <3>1. failures[w] + 1 \in 0..(MaxRetries - 1)
      BY <2>1, Values, ConstantsAssumption
    <3>2. Again(failures[w] + 1) \in Nat
      BY <3>1, AgainFacts
    <3>3. Need(w) >= Again(failures[w]) /\ Need(w) \in Nat
      BY Values DEF Need, Asking
    <3> QED BY <2>2, <2>3, <3>2, <3>3, Values
  <2>5. /\ isLeader[w] /\ task[w] = "heartbeat" /\ Active(w)
        /\ Kept(w) /\ Kept(w)' /\ until'[w] = until[w]
    BY <2>1 DEF WInv, TaskInv, Asking, Active, Kept, Leaves, SameTime
  <2>6. AgeInv(w)' /\ OwnInv(w)'
    BY <2>1, <2>4, <2>5, Values DEF WInv, AgeInv, OwnInv
  <2>7. TaskInv(w)' /\ TryInv(w)' /\ WaitInv(w)'
    BY <2>1, <2>5 DEF TaskInv, TryInv, WaitInv, Asking, Waiting
  <2>8. LateInv(w)' /\ ExpiredInv(w)' /\ StopInv(w)'
    BY <2>1, <2>5 DEF WInv, LateInv, ExpiredInv, StopInv, Leaves
  <2> QED BY <2>6, <2>7, <2>8 DEF WInv
<1> QED BY <1>1, <1>2

LEMMA RenewedInv ==
  ASSUME TypeOK, NEW w \in Worker, WInv(w), Waiting(w), goal[w] = "renew",
         result[w] = "landed", Renewed(w), Leaves(w)
  PROVE  WInv(w)'
<1>1. /\ pc'[w] = "beat" /\ left'[w] = Interval /\ failures'[w] = 0
      /\ task'[w] = task[w] /\ isLeader'[w] = isLeader[w] /\ sched'[w] = sched[w]
      /\ expired'[w] = expired[w] /\ doc' = doc
  BY DEF Renewed, GoTo, TypeOK
<1>2. /\ isLeader[w] /\ task[w] = "heartbeat" /\ Kept(w) /\ Kept(w)' /\ until'[w] = until[w]
      /\ pending[w] = NoWrite
  BY <1>1 DEF WInv, TaskInv, WaitInv, Asking, Waiting, Kept, Leaves, SameTime
<1>3. until[w] + 2 * OpTime >= Lease
  BY Values DEF WInv, WaitInv, Waiting, Spent
<1>4. Need(w)' = Interval + (3 * OpTime + Again(0))
  BY <1>1 DEF Need
<1>5. AgeInv(w)' /\ OwnInv(w)'
  <2>1. AgeInv(w)'
    BY <1>2, <1>3, <1>4, Values DEF AgeInv
  <2>2. OwnInv(w)'
    BY <1>1, <1>2 DEF WInv, OwnInv
  <2> QED BY <2>1, <2>2
<1>6. TaskInv(w)' /\ TryInv(w)' /\ WaitInv(w)'
  BY <1>1, <1>2 DEF TaskInv, TryInv, WaitInv, Asking, Waiting
<1>7. LateInv(w)' /\ ExpiredInv(w)' /\ StopInv(w)'
  BY <1>1, <1>2 DEF WInv, LateInv, ExpiredInv, StopInv, Leaves
<1> QED BY <1>5, <1>6, <1>7 DEF WInv

\* A worker that ends its step outside a request and does not lead.
LEMMA QuietInv ==
  ASSUME TypeOK, NEW w \in Worker, WInv(w), StopInv(w)', SameLease, SameTime(w),
         isLeader'[w] = FALSE, sched'[w] = "running" => sched[w] = "running" /\ stop'[w] = "exit",
         pending'[w] = pending[w],
         pc'[w] \in {"down", "off", "open", "sleep"}, task'[w] # "heartbeat",
         task'[w] = "none" => pc'[w] \in {"down", "off"},
         pc'[w] = "down" \/ task'[w] = "startup" => stop'[w] = "no",
         expired'[w] = FALSE \/ expired'[w] = expired[w]
  PROVE  WInv(w)'
<1>1. ~Active(w)' /\ (Kept(w)' => Kept(w))
  BY DEF Active, Kept, Waiting
<1>2. AgeInv(w)' /\ OwnInv(w)'
  BY <1>1 DEF WInv, AgeInv, OwnInv, SameLease, SameTime
<1>3. TaskInv(w)' /\ TryInv(w)' /\ WaitInv(w)'
  BY DEF TaskInv, TryInv, WaitInv, Asking, Waiting
<1>4. LateInv(w)' /\ ExpiredInv(w)'
  BY DEF WInv, LateInv, ExpiredInv, SameLease
<1> QED BY <1>2, <1>3, <1>4 DEF WInv

\* The step of w changes the state of w only.
Frame(w) == (doc' = doc \/ doc' = Forgotten(w)) /\ \A v \in Worker \ {w} : Same(v)

LEMMA OutcomeInv ==
  ASSUME TypeOK, NEW w \in Worker, WInv(w), Waiting(w), NEW landed \in BOOLEAN,
         Outcome(w, landed), landed => result[w] = "landed", Leaves(w)
  PROVE  WInv(w)'
<1>1. goal[w] \in {"create", "steal", "renew"} /\ Asking(w)
  BY DEF TypeOK, Asking, Waiting
<1>2. CASE goal[w] = "renew"
  BY <1>1, <1>2, RenewedInv, RenewFailedInv DEF Outcome
<1>3. CASE goal[w] # "renew" /\ landed
  BY <1>1, <1>3, WinInv DEF Outcome
<1>4. CASE goal[w] = "steal" /\ ~landed
  BY <1>1, <1>4, LoseInv DEF Outcome
<1>5. CASE goal[w] = "create" /\ ~landed
  <2>1. /\ pc'[w] = "get" /\ left'[w] = OpTime /\ goal'[w] = "steal" /\ doc' = doc
        /\ task'[w] = task[w] /\ payload'[w] = payload[w] /\ expired'[w] = expired[w]
        /\ isLeader'[w] = isLeader[w] /\ sched'[w] = sched[w]
    BY <1>5 DEF Outcome, GoTo, TypeOK
  <2>2. task[w] # "heartbeat" /\ ~isLeader[w] /\ task[w] # "none"
    BY <1>1, <1>5 DEF WInv, TaskInv, Asking
  <2>3. ~Active(w)' /\ (Kept(w)' => Kept(w))
    BY <2>1, <2>2 DEF Active, Kept, Waiting
  <2>4. AgeInv(w)' /\ OwnInv(w)'
    BY <2>1, <2>3 DEF WInv, AgeInv, OwnInv, Leaves, SameTime
  <2>5. TaskInv(w)' /\ WaitInv(w)'
    BY <1>1, <2>1, <2>2 DEF WInv, TaskInv, WaitInv, Asking, Waiting, Leaves
  <2>6. payload[w] + 2 * OpTime >= Lease
    BY <1>1, <1>5, Values DEF WInv, TryInv, Waiting, Spent
  <2>7. TryInv(w)'
    <3>1. Spent(w)' = 3 * OpTime
      BY <2>1 DEF Spent
    <3> QED BY <2>1, <2>6, <3>1, Values DEF TryInv
  <2>8. LateInv(w)' /\ ExpiredInv(w)'
    BY <2>1 DEF WInv, LateInv, ExpiredInv, Leaves
  <2>9. StopInv(w)'
    BY <2>1, <2>2 DEF WInv, StopInv, Waiting, Leaves
  <2> QED BY <2>4, <2>5, <2>7, <2>8, <2>9 DEF WInv
<1> QED BY <1>1, <1>2, <1>3, <1>4, <1>5

LEMMA OutcomeFrame ==
  ASSUME TypeOK, NEW w \in Worker, NEW landed \in BOOLEAN, Outcome(w, landed),
         UNCHANGED <<pending, stop, budget>>
  PROVE  Frame(w)
<1>1. goal[w] \in {"create", "steal", "renew"}
  BY DEF TypeOK
<1>2. \A v \in Worker \ {w} : result'[v] = result[v]
  BY DEF Outcome, TypeOK
<1>3. CASE Win(w)
  BY <1>2, <1>3 DEF Frame, Same, Win, GoTo, EndAttempt, TypeOK
<1>4. CASE Lose(w)
  BY <1>2, <1>4 DEF Frame, Same, Lose, GoTo, EndAttempt, TypeOK
<1>5. CASE Concede(w)
  BY <1>2, <1>5 DEF Frame, Same, Concede, GoTo, TypeOK
<1>6. CASE RenewFailed(w) /\ ~Concede(w)
  BY <1>2, <1>6 DEF Frame, Same, RenewFailed, GoTo, TypeOK
<1>7. CASE Renewed(w)
  BY <1>2, <1>7 DEF Frame, Same, Renewed, GoTo, TypeOK
<1>8. CASE goal[w] = "create" /\ ~landed
  BY <1>2, <1>8 DEF Frame, Same, Outcome, GoTo, TypeOK
<1> QED BY <1>1, <1>3, <1>4, <1>5, <1>6, <1>7, <1>8 DEF Outcome

\* From one worker's own part of the invariant to everybody's.
LEMMA FrameInv ==
  ASSUME IInv, NEW w \in Worker, Frame(w), WInv(w)', \A v \in Worker : SameTime(v)
  PROVE  \A v \in Worker : WInv(v)'
<1> SUFFICES ASSUME NEW v \in Worker, v # w PROVE WInv(v)'
  OBVIOUS
<1>1. WInv(v) /\ Same(v) /\ SameLease /\ SameTime(v)
  BY LeaseLeftAlone DEF IInv, Frame
<1> QED BY <1>1, Others

\* A step that only forgets a token gives no lease back.
LEMMA FrameKeeps ==
  ASSUME TypeOK, NEW w \in Worker, Frame(w), Ends
  PROVE  SameLease /\ \A v \in Worker : SameTime(v)
BY LeaseLeftAlone, EndsKeeps DEF Frame

----------------------------------------------------------------------------
(* Every action preserves the invariant *)

\* A step of w that leaves the others alone.
LEMMA FrameLeaves ==
  ASSUME IInv, NEW w \in Worker, Frame(w), Ends
  PROVE  SameLease /\ (\A v \in Worker : SameTime(v)) /\ TypeOK /\ WInv(w)
BY FrameKeeps DEF IInv

LEMMA BootInv ==
  ASSUME IInv, NEW w \in Worker, Boot(w), Ends PROVE \A v \in Worker : WInv(v)'
<1>0. TypeOK
  BY DEF IInv
<1>1. Frame(w)
  BY <1>0 DEF Boot, GoTo, Frame, Same, TypeOK
<1>2. /\ pc'[w] = "open" /\ task'[w] = "startup" /\ isLeader'[w] = isLeader[w]
      /\ sched'[w] = sched[w] /\ expired'[w] = expired[w] /\ pending'[w] = pending[w]
      /\ stop'[w] = stop[w] /\ pc[w] = "down"
  BY <1>0 DEF Boot, GoTo, TypeOK
<1>3. isLeader[w] = FALSE /\ sched[w] # "running" /\ stop[w] = "no"
  BY <1>0, <1>2 DEF IInv, WInv, TaskInv, TypeOK
<1>4. StopInv(w)'
  BY <1>2, <1>3 DEF StopInv
<1>5. WInv(w)'
  BY <1>1, <1>2, <1>3, <1>4, FrameLeaves, QuietInv
<1> QED BY <1>1, <1>5, FrameLeaves, FrameInv

LEMMA EnsureKvInv ==
  ASSUME IInv, NEW w \in Worker, EnsureKv(w), Ends PROVE \A v \in Worker : WInv(v)'
<1>0. TypeOK
  BY DEF IInv
<1>1. Frame(w)
  BY <1>0 DEF EnsureKv, Send, GoTo, Frame, Same, TypeOK
<1>2. /\ pc[w] = "open" /\ pc'[w] = "cas" /\ left'[w] = OpTime /\ goal'[w] = "create"
      /\ payload'[w] = Lease /\ result'[w] = "none" /\ doc' = doc
      /\ pending'[w] = [goal |-> "create", ttl |-> Lease, guard |-> "absent"]
      /\ expired'[w] = (doc # NoDoc /\ doc.ttl = 0)
      /\ task'[w] = task[w] /\ isLeader'[w] = isLeader[w] /\ sched'[w] = sched[w] /\ stop'[w] = stop[w]
      /\ budget'[w] = budget[w]
  BY <1>0 DEF EnsureKv, Send, GoTo, TypeOK
<1>3. WInv(w) /\ SameTime(w)
  BY <1>1, FrameLeaves
<1>4. task[w] # "heartbeat" /\ task[w] # "none" /\ ~isLeader[w]
  BY <1>2, <1>3 DEF WInv, TaskInv
<1>5. ~Active(w)' /\ (Kept(w)' => Kept(w))
  BY <1>2, <1>4 DEF Active, Kept, Waiting
<1>6. AgeInv(w)' /\ OwnInv(w)'
  BY <1>2, <1>3, <1>5 DEF WInv, AgeInv, OwnInv, SameTime
<1>7. TaskInv(w)' /\ StopInv(w)'
  BY <1>2, <1>3, <1>4 DEF WInv, TaskInv, Asking, StopInv
<1>8. LateInv(w)'
  BY <1>2, <1>4 DEF LateInv
<1>9. ExpiredInv(w)'
  BY <1>2, Zenon DEF ExpiredInv
<1>10. Spent(w)' = OpTime
  BY <1>2 DEF Spent
<1>11. TryInv(w)'
  BY <1>0, <1>2, <1>10, Values DEF TryInv
<1>12. WaitInv(w)'
  BY <1>2 DEF WaitInv
<1> QED BY <1>1, <1>6, <1>7, <1>8, <1>9, <1>11, <1>12, FrameLeaves, FrameInv DEF WInv

LEMMA EnsureKvFailsInv ==
  ASSUME IInv, NEW w \in Worker, EnsureKvFails(w), Ends PROVE \A v \in Worker : WInv(v)'
<1>0. TypeOK /\ WInv(w)
  BY DEF IInv
<1>1. Frame(w)
  BY <1>0 DEF EnsureKvFails, GoTo, Frame, Same, TypeOK
<1>2. /\ pc[w] = "open" /\ pc'[w] = (IF task[w] = "startup" THEN "down" ELSE "off")
      /\ task'[w] = "none" /\ isLeader'[w] = isLeader[w]
      /\ sched'[w] = sched[w] /\ expired'[w] = expired[w] /\ pending'[w] = pending[w]
      /\ stop'[w] = stop[w] /\ budget'[w] = budget[w]
  BY <1>0 DEF EnsureKvFails, GoTo, TypeOK
<1>3. /\ isLeader[w] = FALSE /\ (sched[w] = "running" => stop[w] = "exit")
      /\ task[w] = "startup" => stop[w] = "no"
  BY <1>0, <1>2 DEF WInv, TaskInv, TypeOK
<1>4. StopInv(w)'
  BY <1>0, <1>2, <1>3 DEF WInv, StopInv, TaskInv
<1>5. WInv(w)'
  BY <1>1, <1>2, <1>3, <1>4, FrameLeaves, QuietInv
<1> QED BY <1>1, <1>5, FrameLeaves, FrameInv

LEMMA ReplyInv ==
  ASSUME IInv, NEW w \in Worker, CasReply(w) \/ ReadBack(w) \/ ReadBackFails(w), Ends
  PROVE  \A v \in Worker : WInv(v)'
<1>0. TypeOK /\ WInv(w)
  BY DEF IInv
<1>1. Waiting(w) /\ UNCHANGED <<pending, stop, budget>>
  BY DEF CasReply, ReadBack, ReadBackFails, Waiting
<1>2. PICK landed \in BOOLEAN : Outcome(w, landed) /\ (landed => result[w] = "landed")
  <2>1. CASE CasReply(w)
    <3>1. Outcome(w, result[w] = "landed") /\ (result[w] = "landed") \in BOOLEAN
      BY <2>1 DEF CasReply
    <3> QED BY <3>1
  <2>2. CASE ReadBack(w)
    <3> DEFINE landed == result[w] = "landed" /\ doc # NoDoc /\ doc.by = w
    <3>1. Outcome(w, landed) /\ landed \in BOOLEAN /\ (landed => result[w] = "landed")
      BY <2>2 DEF ReadBack
    <3> HIDE DEF landed
    <3> QED BY <3>1
  <2>3. CASE ReadBackFails(w)
    BY <2>3 DEF ReadBackFails
  <2> QED BY <2>1, <2>2, <2>3
<1>3. Frame(w)
  BY <1>0, <1>1, <1>2, OutcomeFrame
<1>4. Leaves(w)
  BY <1>1, <1>3, FrameLeaves DEF Leaves
<1>5. WInv(w)'
  BY <1>0, <1>1, <1>2, <1>4, OutcomeInv
<1> QED BY <1>3, <1>5, FrameLeaves, FrameInv

LEMMA CasErrorInv ==
  ASSUME IInv, NEW w \in Worker, CasError(w), Ends PROVE \A v \in Worker : WInv(v)'
<1>0. TypeOK /\ WInv(w)
  BY DEF IInv
<1>1. Frame(w)
  BY <1>0 DEF CasError, GoTo, Frame, Same, TypeOK
<1>2. /\ pc[w] = "cas" /\ pc'[w] = "back" /\ left'[w] = OpTime /\ goal'[w] = goal[w]
      /\ payload'[w] = payload[w] /\ result'[w] = result[w] /\ doc' = doc /\ failures'[w] = failures[w]
      /\ pending'[w] = pending[w] /\ expired'[w] = expired[w] /\ task'[w] = task[w]
      /\ isLeader'[w] = isLeader[w] /\ sched'[w] = sched[w] /\ stop'[w] = stop[w]
      /\ budget'[w] = budget[w]
  BY <1>0 DEF CasError, GoTo, TypeOK
<1>3. /\ Need(w) = left[w] + (OpTime + Again(failures[w]))
      /\ Need(w)' = OpTime + Again(failures[w])
  BY <1>2 DEF Need
<1>4. Need(w)' <= Need(w) /\ Need(w) \in Nat /\ Need(w)' \in Nat
  BY <1>0, <1>3, Values
<1>5. /\ Kept(w)' <=> Kept(w)
      /\ Active(w)' <=> Active(w)
      /\ Active(w) => Kept(w)
      /\ Waiting(w) /\ Waiting(w)' /\ SameTime(w)
  BY <1>1, <1>2, FrameLeaves DEF Kept, Active, Waiting
<1>6. AgeInv(w)' /\ OwnInv(w)'
  <2>1. AgeInv(w)'
    BY <1>0, <1>4, <1>5, Values DEF WInv, AgeInv, SameTime
  <2>2. OwnInv(w)'
    BY <1>0, <1>2, <1>5 DEF WInv, OwnInv, SameTime
  <2> QED BY <2>1, <2>2
<1>7. TaskInv(w)' /\ StopInv(w)' /\ ExpiredInv(w)' /\ LateInv(w)'
  BY <1>0, <1>2 DEF WInv, TaskInv, Asking, StopInv, ExpiredInv, LateInv
<1>8. Spent(w)' = Spent(w) + OpTime /\ Spent(w) \in Nat
  BY <1>0, <1>2, Values DEF Spent
<1>9. TryInv(w)'
  BY <1>0, <1>2, <1>8, Values DEF WInv, TryInv, Asking
<1>10. WaitInv(w)'
  <2>1. result[w] = "landed" => until'[w] = until[w]
    BY <1>5 DEF SameTime, Kept
  <2> QED BY <1>0, <1>2, <1>5, <1>8, <2>1, Values DEF WInv, WaitInv
<1> QED BY <1>1, <1>6, <1>7, <1>9, <1>10, FrameLeaves, FrameInv DEF WInv

LEMMA LoseFrame == ASSUME TypeOK, NEW w \in Worker, Lose(w), UNCHANGED <<pending, result, stop, budget>>
                   PROVE  Frame(w)
BY DEF Frame, Same, Lose, GoTo, EndAttempt, TypeOK

LEMMA ConcedeFrame == ASSUME TypeOK, NEW w \in Worker, Concede(w), UNCHANGED <<pending, result, stop, budget>>
                      PROVE  Frame(w)
BY DEF Frame, Same, Concede, GoTo, TypeOK

LEMMA ReadToStealInv ==
  ASSUME IInv, NEW w \in Worker, ReadToSteal(w), Ends PROVE \A v \in Worker : WInv(v)'
<1>0. TypeOK /\ WInv(w) /\ Asking(w) /\ goal[w] = "steal" /\ pc[w] = "get"
  BY DEF IInv, ReadToSteal, Asking
<1>1. CASE Lose(w) /\ UNCHANGED <<pending, result>>
  <2>1. Frame(w)
    BY <1>0, <1>1, LoseFrame DEF ReadToSteal
  <2>2. Leaves(w)
    BY <1>1, <2>1, FrameLeaves DEF Leaves, ReadToSteal
  <2>3. WInv(w)'
    BY <1>0, <1>1, <2>2, LoseInv
  <2> QED BY <2>1, <2>3, FrameLeaves, FrameInv
<1>2. CASE ~(Lose(w) /\ UNCHANGED <<pending, result>>)
  <2> DEFINE guard == IF doc = NoDoc THEN "absent" ELSE "current"
  <2>1. /\ Send(w, "steal", payload[w], guard) /\ (doc = NoDoc \/ expired[w])
        /\ UNCHANGED <<doc, task, payload, expired, failures, isLeader, sched, stop, budget>>
    BY <1>2 DEF ReadToSteal
  <2>2. Frame(w)
    BY <1>0, <2>1 DEF Send, GoTo, Frame, Same, TypeOK
  <2>3. /\ pc'[w] = "cas" /\ left'[w] = OpTime /\ goal'[w] = "steal" /\ result'[w] = "none"
        /\ pending'[w] = [goal |-> "steal", ttl |-> payload[w], guard |-> guard]
    BY <1>0, <2>1 DEF Send, GoTo, TypeOK
  <2>4. task[w] # "heartbeat" /\ task[w] # "none" /\ ~isLeader[w] /\ SameTime(w)
    BY <1>0, <2>2, FrameLeaves DEF WInv, TaskInv
  <2>5. ~Active(w)' /\ (Kept(w)' => Kept(w))
    BY <2>1, <2>3, <2>4 DEF Active, Kept, Waiting
  <2>6. AgeInv(w)' /\ OwnInv(w)'
    BY <1>0, <2>1, <2>4, <2>5 DEF WInv, AgeInv, OwnInv, SameTime
  <2>7. TaskInv(w)' /\ StopInv(w)'
    BY <1>0, <2>1, <2>3, <2>4 DEF WInv, TaskInv, Asking, StopInv
  <2>8. WaitInv(w)' /\ ExpiredInv(w)'
    BY <1>0, <2>1, <2>3 DEF WInv, WaitInv, ExpiredInv
  <2>9. LateInv(w)'
    <3>1. doc # NoDoc => doc.ttl = 0
      BY <1>0, <2>1 DEF WInv, ExpiredInv
    <3> QED BY <2>1, <2>3, <2>4, <3>1 DEF LateInv
  <2>10. TryInv(w)'
    <3>1. Spent(w) = 3 * OpTime /\ Spent(w)' = 4 * OpTime
      BY <1>0, <2>3 DEF Spent
    <3> QED BY <1>0, <2>1, <2>3, <3>1, Values DEF WInv, TryInv
  <2> QED BY <2>2, <2>6, <2>7, <2>8, <2>9, <2>10, FrameLeaves, FrameInv DEF WInv
<1> QED BY <1>1, <1>2

LEMMA ReadToRenewInv ==
  ASSUME IInv, NEW w \in Worker, ReadToRenew(w), Ends PROVE \A v \in Worker : WInv(v)'
<1>0. TypeOK /\ WInv(w) /\ Asking(w) /\ goal[w] = "renew" /\ pc[w] = "get"
  BY DEF IInv, ReadToRenew, Asking
<1>1. CASE Concede(w) /\ UNCHANGED <<pending, result>>
  <2>1. Frame(w)
    BY <1>0, <1>1, ConcedeFrame DEF ReadToRenew
  <2>2. Leaves(w)
    BY <1>1, <2>1, FrameLeaves DEF Leaves, ReadToRenew
  <2>3. WInv(w)'
    BY <1>0, <1>1, <2>2, ConcedeInv
  <2> QED BY <2>1, <2>3, FrameLeaves, FrameInv
<1>2. CASE ~(Concede(w) /\ UNCHANGED <<pending, result>>)
  <2>1. /\ Send(w, "renew", Lease, "current") /\ Holds(w)
        /\ UNCHANGED <<doc, task, payload, expired, failures, isLeader, sched, stop, budget>>
    BY <1>2 DEF ReadToRenew
  <2>2. Frame(w)
    BY <1>0, <2>1 DEF Send, GoTo, Frame, Same, TypeOK
  <2>3. /\ pc'[w] = "cas" /\ left'[w] = OpTime /\ goal'[w] = "renew" /\ result'[w] = "none"
        /\ pending'[w] = [goal |-> "renew", ttl |-> Lease, guard |-> "current"]
    BY <1>0, <2>1 DEF Send, GoTo, TypeOK
  <2>4. /\ task[w] = "heartbeat" /\ isLeader[w] /\ Active(w) /\ Kept(w) /\ Kept(w)'
        /\ until'[w] = until[w]
    BY <1>0, <2>1, <2>2, FrameLeaves DEF WInv, TaskInv, Active, Kept, SameTime
  <2>5. TaskInv(w)' /\ StopInv(w)' /\ TryInv(w)' /\ ExpiredInv(w)'
    BY <1>0, <2>1, <2>3, <2>4 DEF WInv, TaskInv, TryInv, ExpiredInv, Asking, StopInv
  <2>6. /\ Need(w) = left[w] + (2 * OpTime + Again(failures[w]))
        /\ Need(w)' = OpTime + (OpTime + Again(failures[w]))
        /\ Spent(w)' = OpTime
    BY <1>0, <2>1, <2>3 DEF Need, Spent
  <2>7. Need(w)' <= Need(w) /\ Need(w) \in Nat /\ Need(w)' \in Nat
    BY <1>0, <2>6, Values
  <2>8. AgeInv(w)' /\ OwnInv(w)'
    <3>1. AgeInv(w)'
      BY <1>0, <2>4, <2>7, Values DEF WInv, AgeInv
    <3>2. OwnInv(w)'
      BY <1>0, <2>1, <2>4 DEF WInv, OwnInv
    <3> QED BY <3>1, <3>2
  <2>9. WaitInv(w)'
    BY <1>0, <2>3, <2>6, Values DEF WaitInv
  <2>10. LateInv(w)'
    <3>1. doc # NoDoc /\ doc.by = w /\ Lease >= doc.ttl
      BY <1>0, <2>1, ConstantsAssumption DEF Holds, TypeOK, Doc
    <3> QED BY <2>1, <2>3, <3>1 DEF LateInv
  <2> QED BY <2>2, <2>5, <2>8, <2>9, <2>10, FrameLeaves, FrameInv DEF WInv
<1> QED BY <1>1, <1>2

LEMMA ReadFailsInv ==
  ASSUME IInv, NEW w \in Worker, ReadFails(w), Ends PROVE \A v \in Worker : WInv(v)'
<1>0. TypeOK /\ WInv(w) /\ Asking(w) /\ UNCHANGED <<pending, result, stop, budget>>
  BY DEF IInv, ReadFails, Asking
<1>1. Frame(w)
  <2>1. CASE Lose(w) \/ Concede(w)
    BY <1>0, <2>1, LoseFrame, ConcedeFrame
  <2>2. CASE RenewFailed(w) /\ ~Concede(w)
    BY <1>0, <2>2 DEF RenewFailed, GoTo, Frame, Same, TypeOK
  <2> QED BY <2>1, <2>2 DEF ReadFails
<1>2. Leaves(w)
  BY <1>0, <1>1, FrameLeaves DEF Leaves
<1>3. WInv(w)'
  BY <1>0, <1>2, LoseInv, RenewFailedInv DEF ReadFails
<1> QED BY <1>1, <1>3, FrameLeaves, FrameInv

LEMMA BeatWakeInv ==
  ASSUME IInv, NEW w \in Worker, BeatWake(w), Ends PROVE \A v \in Worker : WInv(v)'
<1>0. TypeOK /\ WInv(w)
  BY DEF IInv
<1>1. Frame(w)
  BY <1>0 DEF BeatWake, GoTo, Frame, Same, TypeOK
<1>2. /\ pc[w] = "beat" /\ left[w] = 0 /\ pc'[w] = "get" /\ left'[w] = OpTime /\ goal'[w] = "renew"
      /\ UNCHANGED <<doc, pending, task, payload, expired, result, failures, isLeader, sched, stop, budget>>
  BY <1>0 DEF BeatWake, GoTo, TypeOK
<1>3. /\ task[w] = "heartbeat" /\ isLeader[w] /\ Active(w) /\ Kept(w) /\ Kept(w)'
      /\ until'[w] = until[w]
  BY <1>0, <1>1, <1>2, FrameLeaves DEF WInv, TaskInv, Active, Kept, SameTime
<1>4. /\ Need(w) = left[w] + (3 * OpTime + Again(failures[w]))
      /\ Need(w)' = OpTime + (2 * OpTime + Again(failures[w]))
  BY <1>2 DEF Need
<1>5. Need(w)' = Need(w)
  BY <1>0, <1>2, <1>4, Values
<1>6. AgeInv(w)' /\ OwnInv(w)'
  BY <1>0, <1>2, <1>3, <1>5 DEF WInv, AgeInv, OwnInv
<1>7. TaskInv(w)' /\ TryInv(w)' /\ WaitInv(w)' /\ StopInv(w)'
  BY <1>0, <1>2, <1>3 DEF WInv, TaskInv, TryInv, WaitInv, StopInv, Asking, Waiting
<1>8. LateInv(w)' /\ ExpiredInv(w)'
  BY <1>0, <1>2 DEF WInv, LateInv, ExpiredInv
<1> QED BY <1>1, <1>6, <1>7, <1>8, FrameLeaves, FrameInv DEF WInv

LEMMA ReclaimWakeInv ==
  ASSUME IInv, NEW w \in Worker, ReclaimWake(w), Ends PROVE \A v \in Worker : WInv(v)'
<1>0. TypeOK /\ WInv(w)
  BY DEF IInv
<1>1. Frame(w)
  BY <1>0 DEF ReclaimWake, GoTo, Frame, Same, TypeOK
<1>2. /\ pc[w] = "sleep" /\ left[w] = 0 /\ pc'[w] = "open"
      /\ UNCHANGED <<pending, task, expired, isLeader, sched, stop, budget>> /\ budget[w] \in Nat
  BY <1>0 DEF ReclaimWake, GoTo, TypeOK
<1>3. /\ task[w] # "heartbeat" /\ task[w] # "none" /\ isLeader[w] = FALSE
      /\ sched[w] = "running" => stop[w] = "exit"
      /\ task[w] = "startup" => stop[w] = "no"
  BY <1>0, <1>2 DEF WInv, TaskInv, TypeOK
<1>4. StopInv(w)'
  BY <1>0, <1>2, <1>3, ConstantsAssumption DEF WInv, StopInv
<1>5. WInv(w)'
  BY <1>1, <1>2, <1>3, <1>4, FrameLeaves, QuietInv
<1> QED BY <1>1, <1>5, FrameLeaves, FrameInv

LEMMA PauseJobsInv ==
  ASSUME IInv, NEW w \in Worker, PauseJobs(w), Ends PROVE \A v \in Worker : WInv(v)'
<1>0. TypeOK /\ WInv(w)
  BY DEF IInv
<1>1. Frame(w)
  BY <1>0 DEF PauseJobs, GoTo, Frame, Same, TypeOK
<1>2. /\ pc[w] = "concede" /\ pc'[w] = "sleep" /\ left'[w] = Interval /\ task'[w] = "reclaim"
      /\ sched'[w] # "running"
      /\ UNCHANGED <<pending, expired, isLeader, stop, budget>> /\ budget[w] \in Nat
  BY <1>0 DEF PauseJobs, GoTo, TypeOK
<1>3. isLeader[w] = FALSE
  BY <1>0, <1>2 DEF WInv, TaskInv, TypeOK
<1>4. StopInv(w)'
  BY <1>0, <1>2, ConstantsAssumption DEF WInv, StopInv
<1>5. WInv(w)'
  BY <1>1, <1>2, <1>3, <1>4, FrameLeaves, QuietInv
<1> QED BY <1>1, <1>5, FrameLeaves, FrameInv

LEMMA ClientClosesInv ==
  ASSUME IInv, NEW w \in Worker, ClientCloses(w), Ends PROVE \A v \in Worker : WInv(v)'
<1> SUFFICES ASSUME NEW v \in Worker PROVE WInv(v)'
  OBVIOUS
<1>1. WInv(v) /\ Same(v) /\ SameLease
  BY DEF IInv, ClientCloses, Same, SameLease
<1> QED BY <1>1, EndsKeeps, Others

LEMMA StopBeginInv ==
  ASSUME IInv, NEW w \in Worker, StopBegin(w), Ends PROVE \A v \in Worker : WInv(v)'
<1>0. TypeOK /\ WInv(w)
  BY DEF IInv
<1>1. /\ stop'[w] = "drain" /\ budget'[w] = ShutdownTime /\ sched'[w] = "stopped"
      /\ pc[w] # "down" /\ task[w] # "startup"
      /\ UNCHANGED <<pending, failures, isLeader>> /\ ShutdownTime \in Nat
  BY <1>0, ConstantsAssumption DEF StopBegin, TypeOK
<1>2. CASE task[w] = "reclaim"
  <2>1. /\ GoTo(w, "off", 0) /\ EndAttempt(w) /\ doc' = Forgotten(w)
        /\ task' = [task EXCEPT ![w] = "none"] /\ result' = [result EXCEPT ![w] = "none"]
        /\ stop' = [stop EXCEPT ![w] = "drain"] /\ budget' = [budget EXCEPT ![w] = ShutdownTime]
        /\ sched' = [sched EXCEPT ![w] = "stopped"]
    BY <1>2 DEF StopBegin
  <2>2. Frame(w)
    BY <1>0, <1>1, <2>1 DEF Frame, Same, GoTo, EndAttempt, TypeOK
  <2>3. pc'[w] = "off" /\ task'[w] = "none" /\ expired'[w] = FALSE
    BY <1>0, <2>1 DEF GoTo, EndAttempt, TypeOK
  <2>4. isLeader[w] = FALSE
    BY <1>0, <1>2 DEF WInv, TaskInv, TypeOK
  <2>5. StopInv(w)'
    BY <1>1, <2>3 DEF StopInv
  <2>6. WInv(w)'
    BY <1>1, <2>2, <2>3, <2>4, <2>5, FrameLeaves, QuietInv
  <2> QED BY <2>2, <2>6, FrameLeaves, FrameInv
<1>3. CASE task[w] # "reclaim"
  <2>1. /\ UNCHANGED <<pc, left, task, doc, goal, payload, expired, result>>
        /\ stop' = [stop EXCEPT ![w] = "drain"] /\ budget' = [budget EXCEPT ![w] = ShutdownTime]
        /\ sched' = [sched EXCEPT ![w] = "stopped"]
    BY <1>3 DEF StopBegin
  <2>2. Frame(w)
    BY <1>0, <1>1, <2>1 DEF Frame, Same, TypeOK
  <2>3. /\ Need(w)' = Need(w) /\ Spent(w)' = Spent(w)
        /\ Active(w)' => Active(w) /\ Kept(w)'
        /\ Kept(w)' => Kept(w)
        /\ Waiting(w)' <=> Waiting(w)
        /\ SameTime(w)
    BY <1>1, <2>1, <2>2, FrameLeaves DEF Need, Spent, Active, Kept, Waiting
  <2>4. AgeInv(w)' /\ OwnInv(w)'
    BY <1>0, <1>1, <2>1, <2>3 DEF WInv, AgeInv, OwnInv, SameTime
  <2>5. TaskInv(w)' /\ TryInv(w)'
    BY <1>0, <1>1, <2>1, <2>3 DEF WInv, TaskInv, TryInv, Asking
  <2>6. WaitInv(w)'
    <3>1. Waiting(w) /\ result[w] = "landed" => until'[w] = until[w]
      BY <2>1, <2>3 DEF SameTime, Kept
    <3> QED BY <1>0, <1>1, <2>1, <2>3, <3>1 DEF WInv, WaitInv
  <2>7. LateInv(w)' /\ ExpiredInv(w)'
    BY <1>0, <1>1, <2>1 DEF WInv, LateInv, ExpiredInv
  <2>8. StopInv(w)'
    <3>1. task[w] \in {"none", "heartbeat"}
      BY <1>0, <1>1, <1>3 DEF TypeOK
    <3> QED BY <1>0, <1>1, <2>1, <3>1 DEF WInv, TaskInv, StopInv
  <2> QED BY <2>2, <2>4, <2>5, <2>6, <2>7, <2>8, FrameLeaves, FrameInv DEF WInv
<1> QED BY <1>2, <1>3

LEMMA GoneInv ==
  ASSUME IInv, NEW w \in Worker, Gone(w), Ends PROVE \A v \in Worker : WInv(v)'
<1>0. TypeOK
  BY DEF IInv
<1>1. Frame(w)
  BY <1>0 DEF Gone, GoTo, EndAttempt, Frame, Same, TypeOK
<1>2. /\ pc'[w] = "down" /\ task'[w] = "none" /\ isLeader'[w] = FALSE /\ sched'[w] = "stopped"
      /\ stop'[w] = "no" /\ expired'[w] = FALSE /\ pending'[w] = pending[w]
  BY <1>0 DEF Gone, GoTo, EndAttempt, TypeOK
<1>3. StopInv(w)'
  BY <1>2 DEF StopInv
<1>4. WInv(w)'
  BY <1>1, <1>2, <1>3, FrameLeaves, QuietInv
<1> QED BY <1>1, <1>4, FrameLeaves, FrameInv

\* What a change of the revision does to a write on its way.
LEMMA OutdatedFacts ==
  ASSUME NEW x \in Write \cup {NoWrite}
  PROVE  /\ Outdated(x) = NoWrite <=> x = NoWrite
         /\ x # NoWrite => /\ Outdated(x).goal = x.goal /\ Outdated(x).ttl = x.ttl
                           /\ Outdated(x).guard # "current"
                           /\ Outdated(x).guard = "absent" <=> x.guard = "absent"
<1>1. CASE x # NoWrite /\ x.guard = "current"
  <2>1. x \in Write /\ Outdated(x) = [x EXCEPT !.guard = "outdated"]
    BY <1>1 DEF Outdated
  <2>2. /\ Outdated(x) \in Write /\ Outdated(x).goal = x.goal /\ Outdated(x).ttl = x.ttl
        /\ Outdated(x).guard = "outdated"
    BY <2>1 DEF Write
  <2> QED BY <1>1, <2>2, ConstantsAssumption
<1>2. CASE ~(x # NoWrite /\ x.guard = "current")
  BY <1>2 DEF Outdated
<1> QED BY <1>1, <1>2

\* A worker whose lease has ended, or that has none, does not care about a new
\* lease, or about the end of another's.
LEMMA BystanderInv ==
  ASSUME TypeOK, NEW v \in Worker, WInv(v), SameTime(v), Kept(v) => until[v] <= 0,
         pending'[v] = Outdated(pending[v]), expired'[v] = FALSE \/ doc' = NoDoc,
         UNCHANGED <<goal, payload, failures>>, result'[v] = result[v],
         task'[v] = task[v], pc'[v] = pc[v], left'[v] = left[v], isLeader'[v] = isLeader[v],
         sched'[v] = sched[v], stop'[v] = stop[v], budget'[v] = budget[v]
  PROVE  WInv(v)'
<1>0. pending[v] \in Write \cup {NoWrite} /\ until[v] \in Int
  BY DEF TypeOK
<1>1. /\ Spent(v)' = Spent(v) /\ Need(v)' = Need(v)
      /\ Waiting(v)' <=> Waiting(v)
      /\ Asking(v)' <=> Asking(v)
      /\ Active(v)' <=> Active(v)
      /\ Kept(v)' <=> Kept(v)
      /\ Active(v) => Kept(v)
  BY DEF Spent, Need, Waiting, Asking, Active, Kept
<1>2. AgeInv(v)' /\ OwnInv(v)'
  BY <1>0, <1>1 DEF WInv, AgeInv, OwnInv, SameTime
<1>3. TaskInv(v)' /\ TryInv(v)' /\ StopInv(v)'
  BY <1>1 DEF WInv, TaskInv, TryInv, StopInv
<1>4. WaitInv(v)'
  <2>1. Waiting(v) /\ result[v] = "landed" => until'[v] = until[v]
    BY <1>1 DEF SameTime, Kept
  <2> QED BY <1>0, <1>1, <2>1, OutdatedFacts DEF WInv, WaitInv
<1>5. LateInv(v)' /\ ExpiredInv(v)'
  BY <1>0, OutdatedFacts DEF WInv, LateInv, ExpiredInv
<1> QED BY <1>2, <1>3, <1>4, <1>5 DEF WInv

LEMMA ReleaseInv ==
  ASSUME IInv, NEW w \in Worker, NEW reached \in BOOLEAN, Release(w, reached), Ends
  PROVE  \A v \in Worker : WInv(v)'
<1>0. TypeOK /\ WInv(w)
  BY DEF IInv
<1>1. /\ stop[w] = "drain" /\ stop'[w] = "exit" /\ isLeader'[w] = FALSE
      /\ UNCHANGED <<goal, payload, expired, result, failures, sched, budget>>
  BY <1>0 DEF Release, TypeOK
<1>2. \A v \in Worker \ {w} :
        /\ task'[v] = task[v] /\ pc'[v] = pc[v] /\ left'[v] = left[v]
        /\ isLeader'[v] = isLeader[v] /\ stop'[v] = stop[v]
  BY <1>0 DEF Release, GoTo, TypeOK
<1>3. CASE task[w] = "heartbeat"
  <2>1. pc'[w] = "off" /\ task'[w] = "none"
    BY <1>0, <1>3 DEF Release, GoTo, TypeOK
  <2>2. StopInv(w)'
    BY <1>0, <1>1, <2>1 DEF WInv, StopInv
  <2>3. CASE reached /\ isLeader[w] /\ Holds(w)
    <3>1. doc' = NoDoc /\ doc # NoDoc /\ doc.by = w /\ \A v \in Worker : pending'[v] = Outdated(pending[v])
      BY <2>3 DEF Release, Holds
    <3>2. ASSUME NEW v \in Worker, v # w PROVE WInv(v)'
      <4>1. WInv(v) /\ (Kept(v) => until[v] <= 0)
        BY <1>0, <3>1, <3>2, Values DEF IInv, WInv, OwnInv
      <4>2. Kept(v)' <=> Kept(v)
        BY <1>1, <1>2, <3>2 DEF Kept, Waiting
      <4>3. until[v] \in Int
        BY <1>0, Values
      <4>4. SameTime(v)
        BY <4>1, <4>2, <4>3 DEF SameTime, Ends
      <4> QED BY <1>0, <1>1, <1>2, <3>1, <3>2, <4>1, <4>4, BystanderInv
    <3>3. WInv(w)'
      <4>1. pending[w] \in Write \cup {NoWrite} /\ until[w] \in Int
        BY <1>0 DEF TypeOK
      <4>2. ~(until'[w] > 0)
        BY <3>1, <4>1 DEF Ends
      <4>3. AgeInv(w)' /\ OwnInv(w)'
        BY <1>1, <2>1, <4>2 DEF AgeInv, Active, OwnInv
      <4>4. TaskInv(w)' /\ TryInv(w)' /\ WaitInv(w)' /\ ExpiredInv(w)'
        BY <1>1, <2>1, <3>1 DEF TaskInv, TryInv, WaitInv, ExpiredInv, Asking, Waiting
      <4>5. LateInv(w)'
        BY <1>0, <2>1, <3>1, <4>1, OutdatedFacts DEF WInv, LateInv
      <4> QED BY <2>2, <4>3, <4>4, <4>5 DEF WInv
    <3> QED BY <3>2, <3>3
  <2>4. CASE ~(reached /\ isLeader[w] /\ Holds(w))
    <3>1. doc' = Forgotten(w) /\ UNCHANGED pending
      BY <1>3, <2>4 DEF Release
    <3>2. Frame(w)
      BY <1>1, <1>2, <3>1 DEF Frame, Same
    <3>3. WInv(w)'
      BY <1>1, <2>1, <2>2, <3>1, <3>2, FrameLeaves, QuietInv
    <3> QED BY <3>2, <3>3, FrameLeaves, FrameInv
  <2> QED BY <2>3, <2>4
<1>4. CASE task[w] # "heartbeat"
  <2>1. ~isLeader[w] /\ isLeader'[w] = isLeader[w]
    BY <1>0, <1>1, <1>4 DEF WInv, TaskInv, TypeOK
  <2>2. /\ UNCHANGED <<pc, left, task, pending>>
        /\ doc' = doc \/ doc' = Forgotten(w)
    BY <1>4, <2>1 DEF Release
  <2>3. Frame(w)
    BY <1>1, <1>2, <2>2 DEF Frame, Same
  <2>4. /\ SameLease /\ SameTime(w)
        /\ Need(w)' = Need(w) /\ Spent(w)' = Spent(w)
        /\ Active(w)' <=> Active(w)
        /\ Active(w) => Kept(w)
        /\ Kept(w)' <=> Kept(w)
        /\ Waiting(w)' <=> Waiting(w)
        /\ Asking(w)' <=> Asking(w)
    BY <1>1, <2>1, <2>2, <2>3, FrameLeaves DEF Need, Spent, Active, Kept, Waiting, Asking
  <2>5. AgeInv(w)' /\ OwnInv(w)'
    BY <1>0, <2>4 DEF WInv, AgeInv, OwnInv, SameLease, SameTime
  <2>6. TaskInv(w)' /\ TryInv(w)' /\ StopInv(w)'
    BY <1>0, <1>1, <2>1, <2>2, <2>4 DEF WInv, TaskInv, TryInv, StopInv
  <2>7. WaitInv(w)'
    <3>1. Waiting(w) /\ result[w] = "landed" => until'[w] = until[w]
      BY <2>4 DEF SameTime, Kept
    <3> QED BY <1>0, <1>1, <2>2, <2>4, <3>1 DEF WInv, WaitInv
  <2>8. LateInv(w)' /\ ExpiredInv(w)'
    BY <1>0, <1>1, <2>2, <2>4 DEF WInv, LateInv, ExpiredInv, SameLease
  <2> QED BY <2>3, <2>5, <2>6, <2>7, <2>8, FrameLeaves, FrameInv DEF WInv
<1> QED BY <1>3, <1>4

\* An accepted write replaces no lease, an expired one, or the sender's own.
LEMMA AcceptedFacts ==
  ASSUME IInv, NEW w \in Worker, pending[w] # NoWrite, Accepted(w)
  PROVE  \/ doc = NoDoc
         \/ pending[w].goal = "renew" /\ doc # NoDoc /\ doc.by = w /\ pending[w].ttl >= doc.ttl
         \/ doc # NoDoc /\ doc.ttl = 0
<1>1. WInv(w) /\ pending[w] \in Write
  BY DEF IInv, TypeOK
<1>2. pending[w].goal \in {"create", "steal", "renew"}
  BY <1>1 DEF Write
<1> QED BY <1>1, <1>2 DEF Accepted, WInv, LateInv

LEMMA ServerAppliesInv ==
  ASSUME IInv, NEW w \in Worker, ServerApplies(w), Begins(w)
  PROVE  \A v \in Worker : WInv(v)'
<1>0. TypeOK /\ WInv(w) /\ pending[w] \in Write /\ pending[w] # NoWrite /\ until \in [Worker -> Int]
  BY DEF IInv, ServerApplies, TypeOK
<1>1. /\ UNCHANGED <<task, pc, goal, left, payload, failures, isLeader, sched, stop, budget>>
      /\ pending'[w] = NoWrite
      /\ \A v \in Worker \ {w} : result'[v] = result[v] /\ until'[v] = until[v]
      /\ ~Waiting(w) => result'[w] = result[w]
  BY <1>0 DEF ServerApplies, Begins, TypeOK
<1>2. /\ Need(w)' = Need(w) /\ Spent(w)' = Spent(w)
      /\ Waiting(w)' <=> Waiting(w)
      /\ Asking(w)' <=> Asking(w)
      /\ Active(w)' <=> Active(w)
      /\ Active(w) => Kept(w) /\ Kept(w)'
      /\ Waiting(w) => Asking(w) /\ result[w] # "landed"
  BY <1>0, <1>1 DEF Need, Spent, Waiting, Asking, Active, Kept, WInv, WaitInv
<1>3. TaskInv(w)' /\ TryInv(w)' /\ StopInv(w)' /\ LateInv(w)'
  BY <1>0, <1>1, <1>2 DEF WInv, TaskInv, TryInv, StopInv, LateInv
<1>4. CASE ~Accepted(w)
  <2>1. /\ doc' = doc /\ expired' = expired
        /\ \A v \in Worker \ {w} : pending'[v] = pending[v]
        /\ result'[w] = result[w] \/ result'[w] = "refused"
        /\ until'[w] = until[w]
    BY <1>0, <1>4 DEF ServerApplies, Begins, TypeOK
  <2>2. Frame(w) /\ \A v \in Worker : SameTime(v)
    BY <1>1, <2>1 DEF Frame, Same, SameTime
  <2>3. Kept(w)' => Kept(w)
    BY <1>1, <2>1 DEF Kept, Waiting
  <2>4. AgeInv(w)' /\ OwnInv(w)' /\ ExpiredInv(w)'
    BY <1>0, <1>1, <1>2, <2>1, <2>3 DEF WInv, AgeInv, OwnInv, ExpiredInv
  <2>5. WaitInv(w)'
    BY <1>1, <1>2, <2>1 DEF WaitInv
  <2> QED BY <1>3, <2>2, <2>4, <2>5, FrameInv DEF WInv
<1>5. CASE Accepted(w)
  <2>1. /\ doc' = [by |-> w, known |-> Waiting(w) \/ (isLeader[w] /\ pending[w].goal = "renew"),
                   ttl |-> pending[w].ttl]
        /\ \A v \in Worker : expired'[v] = FALSE
        /\ \A v \in Worker \ {w} : pending'[v] = Outdated(pending[v])
        /\ Kept(w)' => until'[w] = pending[w].ttl
    BY <1>0, <1>5 DEF ServerApplies, Begins, TypeOK
  <2>2. doc' # NoDoc /\ doc'.by = w /\ doc'.ttl = pending[w].ttl
    <3>1. doc' \in Doc
      BY <1>0, <2>1 DEF Doc, Write, TypeOK, Waiting
    <3> QED BY <2>1, <3>1, ConstantsAssumption
  <2>3. ASSUME NEW v \in Worker, v # w PROVE WInv(v)'
    <3>1. WInv(v) /\ (Kept(v) => until[v] <= 0)
      BY <1>0, <1>5, <2>3, AcceptedFacts, Values DEF IInv, WInv, OwnInv
    <3>2. SameTime(v)
      BY <1>1, <2>3 DEF SameTime
    <3> QED BY <1>0, <1>1, <2>1, <2>3, <3>1, <3>2, BystanderInv
  <2>4. AgeInv(w)'
    <3> SUFFICES ASSUME Active(w) PROVE until'[w] + WorstCase >= Lease + Need(w)
      BY <1>2 DEF AgeInv
    <3>1. task[w] = "heartbeat"
      BY <1>0 DEF WInv, TaskInv, Active
    <3>2. doc # NoDoc /\ doc.by = w /\ pending[w].ttl >= doc.ttl
      BY <1>0, <1>5, <3>1 DEF WInv, LateInv, Accepted
    <3>3. until'[w] >= until[w] /\ until'[w] \in Nat
      BY <1>0, <1>2, <2>1, <3>2, Values DEF WInv, OwnInv
    <3>4. Need(w) \in Nat
      BY <1>0, Values DEF Need
    <3> QED BY <1>0, <3>3, <3>4, Values DEF WInv, AgeInv
  <2>5. OwnInv(w)'
    BY <2>1, <2>2 DEF OwnInv
  <2>6. WaitInv(w)'
    <3> SUFFICES ASSUME Waiting(w), result'[w] = "landed"
                 PROVE  until'[w] + Spent(w) >= Lease + left[w]
      BY <1>1, <1>2 DEF WaitInv
    <3>1. until'[w] = pending[w].ttl
      BY <1>2, <2>1 DEF Kept
    <3> QED BY <1>0, <1>2, <3>1 DEF WInv, WaitInv, TryInv
  <2>7. ExpiredInv(w)'
    BY <2>1 DEF ExpiredInv
  <2> QED BY <1>3, <2>3, <2>4, <2>5, <2>6, <2>7 DEF WInv
<1> QED BY <1>4, <1>5

\* Time passes for everybody alike.
LEMMA TickInv ==
  ASSUME IInv, Tick, Ages, NEW v \in Worker PROVE WInv(v)'
<1>0. TypeOK /\ WInv(v) /\ pending[v] \in Write \cup {NoWrite} /\ budget[v] \in Nat
  BY DEF IInv, TypeOK
<1>1. /\ Timed(v) => left[v] > 0
      /\ stop[v] # "no" => budget[v] > 0
      /\ left'[v] = Less(left[v]) /\ budget'[v] = Less(budget[v]) /\ payload'[v] = Less(payload[v])
      /\ UNCHANGED <<task, pc, goal, expired, result, failures, isLeader, sched, stop>>
  BY DEF Tick
<1>2. \A t \in Nat : Less(t) \in Nat /\ t <= Less(t) + 1 /\ Less(t) <= t /\ (t > 0 => Less(t) = t - 1)
  BY DEF Less
<1>3. /\ doc' = NoDoc <=> doc = NoDoc
      /\ doc # NoDoc => doc'.by = doc.by /\ doc'.ttl = Less(doc.ttl)
  <2>1. CASE doc = NoDoc
    BY <2>1 DEF Tick
  <2>2. CASE doc # NoDoc
    <3>1. doc \in Doc /\ doc' = [doc EXCEPT !.ttl = Less(@)]
      BY <1>0, <2>2 DEF Tick, TypeOK
    <3>2. Less(doc.ttl) \in 0..Lease
      BY <3>1, ConstantsAssumption DEF Doc, Less
    <3>3. doc' \in Doc /\ doc'.by = doc.by /\ doc'.ttl = Less(doc.ttl)
      BY <3>1, <3>2 DEF Doc
    <3> QED BY <2>2, <3>3, ConstantsAssumption
  <2> QED BY <2>1, <2>2
<1>4. /\ pending'[v] = NoWrite <=> pending[v] = NoWrite
      /\ pending[v] # NoWrite => /\ pending'[v].goal = pending[v].goal
                                 /\ pending'[v].guard = pending[v].guard
                                 /\ pending'[v].ttl = Less(pending[v].ttl)
  <2>1. CASE pending[v] = NoWrite
    BY <2>1 DEF Tick
  <2>2. CASE pending[v] # NoWrite
    <3>1. pending[v] \in Write /\ pending'[v] = [pending[v] EXCEPT !.ttl = Less(@)]
      BY <1>0, <2>2 DEF Tick
    <3>2. Less(pending[v].ttl) \in 0..Lease
      BY <3>1, ConstantsAssumption DEF Write, Less
    <3>3. /\ pending'[v] \in Write /\ pending'[v].goal = pending[v].goal
          /\ pending'[v].guard = pending[v].guard /\ pending'[v].ttl = Less(pending[v].ttl)
      BY <3>1, <3>2 DEF Write
    <3> QED BY <2>2, <3>3, ConstantsAssumption
  <2> QED BY <2>1, <2>2
<1>5. /\ Spent(v)' = Spent(v) /\ Spent(v) \in Nat
      /\ Waiting(v)' <=> Waiting(v)
      /\ Asking(v)' <=> Asking(v)
      /\ Active(v)' <=> Active(v)
      /\ Kept(v)' <=> Kept(v)
      /\ Active(v) => Kept(v)
      /\ Waiting(v) => Asking(v)
  BY <1>0, <1>1, Values DEF Spent, Waiting, Asking, Active, Kept
<1>6. Kept(v) => until'[v] = until[v] - 1
  BY DEF Ages
<1>7. Asking(v) => left[v] > 0 /\ left'[v] = left[v] - 1
  BY <1>0, <1>1, <1>2, Values DEF Asking, Timed
<1>8. AgeInv(v)'
  <2> SUFFICES ASSUME Active(v) PROVE until'[v] + WorstCase >= Lease + Need(v)'
    BY <1>5 DEF AgeInv
  <2>1. left[v] > 0 /\ left'[v] = left[v] - 1
    BY <1>0, <1>1, <1>2, Values DEF WInv, TaskInv, Active, Timed
  <2>2. Need(v)' = Need(v) - 1 /\ Need(v) \in Nat
    BY <1>0, <1>1, <2>1, Values DEF Need
  <2> QED BY <1>0, <1>5, <1>6, <2>2, Values DEF WInv, AgeInv
<1>9. OwnInv(v)'
  BY <1>0, <1>2, <1>3, <1>5, <1>6, Values DEF WInv, OwnInv
<1>10. TaskInv(v)' /\ ExpiredInv(v)'
  BY <1>0, <1>1, <1>3, <1>5 DEF WInv, TaskInv, ExpiredInv, Less
<1>11. TryInv(v)'
  BY <1>0, <1>1, <1>2, <1>5, <1>7, Values DEF WInv, TryInv
<1>12. WaitInv(v)'
  <2>1. ASSUME Waiting(v), result[v] = "landed"
        PROVE  pending'[v] = NoWrite /\ until'[v] + Spent(v) >= Lease + left'[v]
    <3>1. Kept(v)
      BY <2>1 DEF Kept
    <3> QED BY <1>0, <1>4, <1>5, <1>6, <1>7, <2>1, <3>1, Values DEF WInv, WaitInv
  <2>2. ASSUME Waiting(v), pending[v] # NoWrite
        PROVE  /\ pending'[v].goal = goal[v]
               /\ goal[v] # "renew" => pending'[v].ttl = payload'[v]
               /\ goal[v] = "renew" => pending'[v].ttl + Spent(v) >= Lease + left'[v]
    <3>1. /\ pending[v].goal = goal[v]
          /\ goal[v] # "renew" => pending[v].ttl = payload[v]
          /\ goal[v] = "renew" => pending[v].ttl + Spent(v) >= Lease + left[v]
      BY <1>0, <2>2 DEF WInv, WaitInv
    <3> QED BY <1>0, <1>1, <1>2, <1>4, <1>5, <1>7, <2>2, <3>1, Values
  <2> QED BY <1>1, <1>4, <1>5, <2>1, <2>2 DEF WaitInv
<1>13. LateInv(v)'
  <2>1. \A s, t \in Nat : s >= t => Less(s) >= Less(t)
    BY DEF Less
  <2>2. Less(0) = 0
    BY DEF Less
  <2> QED BY <1>0, <1>1, <1>3, <1>4, <2>1, <2>2, Values DEF WInv, LateInv
<1>14. StopInv(v)'
  BY <1>0, <1>1, <1>2, Values, ConstantsAssumption DEF WInv, StopInv, Timed
<1> QED BY <1>8, <1>9, <1>10, <1>11, <1>12, <1>13, <1>14 DEF WInv

----------------------------------------------------------------------------
(* The theorems *)

LEMMA InitIInv == Init => IInv
<1> SUFFICES ASSUME Init PROVE IInv
  OBVIOUS
<1>1. ASSUME NEW w \in Worker PROVE WInv(w)
  <2>1. ~Active(w) /\ ~Asking(w) /\ ~Waiting(w) /\ ~Kept(w)
    BY DEF Init, Active, Asking, Waiting, Kept
  <2> QED BY <2>1 DEF Init, WInv, AgeInv, OwnInv, TaskInv, TryInv, WaitInv, LateInv, ExpiredInv, StopInv
<1> QED BY <1>1, InitTypeOK DEF IInv

LEMMA NextIInv == IInv /\ [Next]_vars => IInv'
<1> SUFFICES ASSUME IInv, [Next]_vars PROVE \A v \in Worker : WInv(v)'
  BY NextTypeOK DEF IInv
<1>1. CASE Tick /\ Ages
  BY <1>1, TickInv
<1>2. ASSUME NEW w \in Worker, ServerApplies(w), Begins(w) PROVE \A v \in Worker : WInv(v)'
  BY <1>2, ServerAppliesInv
<1>3. ASSUME NEW w \in Worker, WorkerStep(w), Ends PROVE \A v \in Worker : WInv(v)'
  <2>1. CASE EnsureKv(w) \/ CasReply(w) \/ ReadBack(w)
    BY <1>3, <2>1, EnsureKvInv, ReplyInv
  <2>2. CASE ReadToSteal(w) \/ ReadToRenew(w)
    BY <1>3, <2>2, ReadToStealInv, ReadToRenewInv
  <2>3. CASE BeatWake(w) \/ ReclaimWake(w) \/ PauseJobs(w)
    BY <1>3, <2>3, BeatWakeInv, ReclaimWakeInv, PauseJobsInv
  <2>4. CASE Release(w, TRUE) \/ Exit(w)
    BY <1>3, <2>4, ReleaseInv, GoneInv DEF Exit
  <2> QED BY <1>3, <2>1, <2>2, <2>3, <2>4 DEF WorkerStep
<1>4. ASSUME NEW w \in Worker, WorkerFault(w), Ends PROVE \A v \in Worker : WInv(v)'
  <2>1. CASE EnsureKvFails(w) \/ ClientCloses(w)
    BY <1>4, <2>1, EnsureKvFailsInv, ClientClosesInv
  <2>2. CASE CasError(w) \/ ReadBackFails(w) \/ ReadFails(w)
    BY <1>4, <2>2, CasErrorInv, ReplyInv, ReadFailsInv
  <2>3. CASE StopBegin(w)
    BY <1>4, <2>3, StopBeginInv
  <2>4. CASE Release(w, FALSE) \/ Crash(w)
    BY <1>4, <2>4, ReleaseInv, GoneInv DEF Crash
  <2> QED BY <1>4, <2>1, <2>2, <2>3, <2>4 DEF WorkerFault
<1>5. CASE UNCHANGED vars
  <2> SUFFICES ASSUME NEW v \in Worker PROVE WInv(v)'
    OBVIOUS
  <2>1. WInv(v) /\ Same(v) /\ SameLease /\ SameTime(v)
    BY <1>5 DEF IInv, vars, electionVars, Same, SameLease, SameTime
  <2> QED BY <2>1, Others
<1> QED BY <1>1, <1>2, <1>3, <1>4, <1>5, BootInv DEF Next

\* Nothing a worker, the network or the server does breaks the inductive
\* invariant, however long the requests, the lease and the shutdown take.
THEOREM Invariant == Spec => []IInv
BY InitIInv, NextIInv, PTL DEF Spec

\* A worker that cannot renew its lease has conceded and paused its jobs at
\* most WorstCase after the renewal that last succeeded began
\* (_heartbeat_loop and its HEARTBEAT_MAX_RETRIES), for every choice of the
\* times: with a lease that is longer, no leader outlives its lease.
THEOREM Concedes == Spec => []ConcedesByThen
<1>1. IInv => ConcedesByThen
  <2> SUFFICES ASSUME IInv, NEW w \in Worker,
                      isLeader[w] \/ (sched[w] = "running" /\ stop[w] # "exit")
               PROVE  Lease - until[w] <= WorstCase
    BY DEF ConcedesByThen
  <2>1. TypeOK /\ WInv(w)
    BY DEF IInv
  <2>2. until[w] + WorstCase >= Lease + Need(w)
    BY <2>1 DEF WInv, TaskInv, AgeInv, Active
  <2>3. Need(w) \in Nat
    BY <2>1, Values DEF Need
  <2> QED BY <2>1, <2>2, <2>3, Values
<1> QED BY <1>1, Invariant, PTL

\* A worker that has begun to shut down does not start its scheduler again for
\* at least one heartbeat interval, because the reclaim loop that a heartbeat
\* starts when it concedes sleeps first.
THEOREM StoppedAWhile == Spec => []StoppedForInterval
<1>1. IInv => StoppedForInterval
  BY DEF IInv, WInv, StopInv, TaskInv, StoppedForInterval
<1> QED BY <1>1, Invariant, PTL

\* A lease that has not expired is not replaced by another worker's.
LEMMA LeaseStays ==
  ASSUME IInv, [Next]_vars, doc # NoDoc, doc.ttl > 0, doc' # NoDoc
  PROVE  doc'.by = doc.by
<1>0. TypeOK /\ doc \in Doc
  BY DEF IInv, TypeOK
<1>1. CASE Tick
  BY <1>0, <1>1 DEF Tick, Doc
<1>2. ASSUME NEW w \in Worker, ServerApplies(w) PROVE doc'.by = doc.by
  <2>1. CASE Accepted(w)
    <3>1. doc'.by = w /\ pending[w] # NoWrite
      BY <1>2, <2>1 DEF ServerApplies
    <3>2. doc.by = w
      BY <1>0, <2>1, <3>1, AcceptedFacts DEF Doc
    <3> QED BY <3>1, <3>2
  <2>2. CASE ~Accepted(w)
    BY <1>2, <2>2 DEF ServerApplies
  <2> QED BY <2>1, <2>2
<1>3. ASSUME NEW w \in Worker, doc' = doc \/ doc' = Forgotten(w) PROVE doc'.by = doc.by
  BY <1>0, <1>3, ForgottenFacts
<1>4. ASSUME NEW w \in Worker, Win(w) \/ Lose(w) \/ RenewFailed(w) \/ Renewed(w) \/ Concede(w)
      PROVE  doc'.by = doc.by
  <2>1. doc' = doc \/ doc' = Forgotten(w)
    BY <1>4 DEF Win, Lose, RenewFailed, Renewed, Concede
  <2> QED BY <1>3, <2>1
<1>5. ASSUME NEW w \in Worker, NEW landed \in BOOLEAN, Outcome(w, landed) PROVE doc'.by = doc.by
  <2>1. goal[w] \in {"create", "steal", "renew"}
    BY <1>0 DEF TypeOK
  <2>2. CASE goal[w] = "create" /\ ~landed
    BY <1>5, <2>2 DEF Outcome
  <2>3. CASE ~(goal[w] = "create" /\ ~landed)
    BY <1>4, <1>5, <2>1, <2>3 DEF Outcome
  <2> QED BY <2>2, <2>3
<1>6. ASSUME NEW w \in Worker, CasReply(w) \/ ReadBack(w) \/ ReadBackFails(w) PROVE doc'.by = doc.by
  <2>1. \E landed \in BOOLEAN : Outcome(w, landed)
    BY <1>6 DEF CasReply, ReadBack, ReadBackFails
  <2> QED BY <1>5, <2>1
<1>7. ASSUME NEW w \in Worker, ReadToSteal(w) \/ ReadToRenew(w) \/ ReadFails(w) PROVE doc'.by = doc.by
  BY <1>4, <1>7 DEF ReadToSteal, ReadToRenew, ReadFails
<1>8. ASSUME NEW w \in Worker, NEW reached \in BOOLEAN, Release(w, reached) PROVE doc'.by = doc.by
  <2>1. doc' = doc \/ doc' = Forgotten(w)
    BY <1>8 DEF Release
  <2> QED BY <1>3, <2>1
<1>9. ASSUME NEW w \in Worker, StopBegin(w) \/ Exit(w) \/ Crash(w) PROVE doc'.by = doc.by
  <2>1. doc' = doc \/ doc' = Forgotten(w)
    BY <1>9 DEF StopBegin, Exit, Crash, Gone
  <2> QED BY <1>3, <2>1
<1>10. ASSUME NEW w \in Worker,
              \/ Boot(w) \/ EnsureKv(w) \/ BeatWake(w) \/ ReclaimWake(w) \/ PauseJobs(w)
              \/ EnsureKvFails(w) \/ ClientCloses(w) \/ CasError(w)
       PROVE  doc'.by = doc.by
  BY <1>10 DEF Boot, EnsureKv, BeatWake, ReclaimWake, PauseJobs, EnsureKvFails, ClientCloses, CasError
<1>11. CASE UNCHANGED vars
  BY <1>11 DEF vars, electionVars
<1> QED BY <1>1, <1>2, <1>6, <1>7, <1>8, <1>9, <1>10, <1>11 DEF Next, WorkerStep, WorkerFault

\* As far as leases go the election implements the abstract single runner: of
\* the workers whose scheduler runs, one at most has a lease that has not
\* ended, and none starts before that one's lease has ended or its scheduler
\* was paused or stopped.
THEOREM RunAlone == Spec => JobsRunAlone
<1> DEFINE S == {w \in Runners : until[w] > 0}
<1>1. Init => Alone!Init
  BY DEF Init, Alone!Init, Runners
<1>2. IInv /\ IInv' /\ [Next]_vars => [Alone!Next]_S
  <2> SUFFICES ASSUME IInv, IInv', [Next]_vars, S' # S PROVE Alone!Next
    OBVIOUS
  <2>1. ASSUME NEW w \in S PROVE w \in Worker /\ doc # NoDoc /\ doc.by = w /\ doc.ttl > 0
    BY <2>1 DEF IInv, WInv, OwnInv, Kept, Runners
  <2>2. ASSUME NEW w \in S' PROVE w \in Worker /\ doc' # NoDoc /\ doc'.by = w
    <3>1. w \in Worker /\ sched'[w] = "running" /\ until'[w] > 0
      BY <2>2 DEF Runners
    <3> QED BY <3>1 DEF IInv, WInv, OwnInv, Kept, Runners
  <2>3. ASSUME NEW v \in S, NEW w \in S' PROVE v = w
    BY <2>1, <2>2, <2>3, LeaseStays
  <2>4. CASE S = {}
    <3>1. PICK w \in S' : TRUE
      BY <2>4
    <3>2. S' = {w} /\ w \in Worker
      BY <2>2, <3>1
    <3> QED BY <2>4, <3>2 DEF Alone!Next, Alone!Start
  <2>5. CASE S # {}
    <3>1. PICK v \in S : TRUE
      BY <2>5
    <3>2. S = {v} /\ v \in Worker
      BY <2>1, <3>1
    <3>3. S' = {}
      BY <2>3, <3>1, <3>2
    <3> QED BY <3>2, <3>3 DEF Alone!Next, Alone!Stop
  <2> QED BY <2>4, <2>5
<1> QED BY <1>1, <1>2, Invariant, PTL DEF Spec, JobsRunAlone, Alone!Spec
=============================================================================
