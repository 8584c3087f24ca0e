--------------------------- MODULE UsageRecorder ---------------------------
(***************************************************************************)
(* How the panel bills the traffic its nodes count, exactly once.          *)
(*                                                                         *)
(* A node process counts traffic.  On every tick the recorder asks each    *)
(* healthy node for its counters with reset=True, so that the read empties *)
(* them.  A two-phase node keeps what it drained as a numbered batch until *)
(* the panel acknowledges it; a legacy node forgets it as it answers.  The *)
(* panel writes the acknowledgement in the transaction that bills.         *)
(*                                                                         *)
(* Traffic is a set of indivisible chunks, so that "billed twice" and      *)
(* "lost" can be said of each of them.                                     *)
(***************************************************************************)
EXTENDS Naturals, Sequences, FiniteSets

CONSTANTS
  Panel,          \* processes that record usage (one, unless leadership overlaps)
  Node,           \* node ids, the primary keys of the nodes table
  Proc,           \* node processes
  InitialProc,    \* the process each node id's address reaches at first
  LegacyProc,     \* the processes that do not speak the two-phase protocol
  User,
  Chunk,          \* units of traffic
  Owner,          \* the user each chunk belongs to
  Faults,         \* the faults and operator actions that may happen
  MaxFaults,      \* bound on how many of them happen
  MaxBoot,        \* bound on the starts of a node process
  MaxReset,       \* bound on the resets of a user's usage
  MaxAttempts,    \* USAGE_RETAINED_MAX_ATTEMPTS
  MaxConsecutive, \* USAGE_PERSIST_MAX_CONSECUTIVE_FAILURES
  NoEpoch,        \* the empty batch epoch
  ClaimEpoch      \* the epoch "claim:<id>" of a first-contact row

\* A process takes a new epoch (a random string) each time it starts.
Boot == 1..MaxBoot
Epoch == Proc \X Boot

ASSUME ConstantsAssumption ==
  /\ Node \subseteq Nat /\ Node # {} /\ IsFiniteSet(Node)
  /\ InitialProc \in [Node -> Proc]
  /\ LegacyProc \subseteq Proc
  /\ Owner \in [Chunk -> User]
  /\ {MaxFaults, MaxReset, MaxAttempts, MaxConsecutive} \subseteq Nat
  /\ MaxBoot \in Nat \ {0}
  /\ NoEpoch \notin Epoch
  /\ ClaimEpoch \notin Epoch
  /\ NoEpoch # ClaimEpoch

VARIABLES
  \* The node processes and the addresses the node ids point at.
  procOf,        \* [Node -> Proc]
  counters,      \* [Proc -> SUBSET Chunk], traffic counted and not yet drained
  boot,          \* [Proc -> Boot]
  seq,           \* [Proc -> Nat], the number of the last batch of this epoch
  heldBatch,     \* [Proc -> StatBatch], the batch kept until acknowledged
  \* The database.
  row,           \* [Epoch -> Nat], node_stat_acks.batch_id, 0 for no row
  rowNode,       \* [Epoch -> Node], node_stat_acks.node_id
  claim,         \* SUBSET Node, the rows claim:<id>
  usageEpoch,    \* [User -> Nat]
  users,         \* SUBSET User, the users that exist
  bills,         \* [Chunk -> Nat], how often it was added to a used_traffic
  \* Each recorder process.
  pc,            \* [Panel -> step of the tick]
  epochAtPoll,   \* [Panel -> [User -> Nat]]
  acks,          \* [Panel -> [Node -> Ack]]
  poll,          \* [Panel -> [Node -> state of the poll task]]
  answer,        \* [Panel -> [Node -> StatBatch]]
  epochByNode,   \* [Panel -> [Node -> Epoch or NoEpoch]]
  retained,      \* [Panel -> Seq(Cohort)]
  cohort,        \* [Panel -> Cohort], the cohort being persisted
  failures,      \* [Panel -> Nat], consecutive_persist_failures
  \* History, read by the properties only.
  born,          \* [Chunk -> SUBSET Proc], the process that counted it
  drainedAt,     \* [Chunk -> Nat], its user's usage epoch when it was drained
  dropped,       \* SUBSET Chunk, discarded by the usage-epoch fence
  lost,          \* SUBSET Chunk, lost in a way the code documents
  empties,       \* [Node -> Nat], requests prepared with an empty ack
  edited,        \* SUBSET Node, the node ids whose address was edited
  faults         \* faults so far

nodeVars == <<procOf, counters, boot, seq, heldBatch>>
ackVars  == <<row, rowNode, claim>>
userVars == <<usageEpoch, users>>
tickVars == <<pc, epochAtPoll, acks, poll, answer, epochByNode, retained, cohort, failures>>
pastVars == <<born, drainedAt, dropped, lost, empties, edited>>
vars     == <<nodeVars, ackVars, userVars, bills, tickVars, pastVars, faults>>

----------------------------------------------------------------------------
(* Data *)

\* A stats answer: StatBatch plus its traffic.  A batch id of 0 means that
\* nothing is held, an epoch of NoEpoch that a legacy node answered.
StatBatch == [epoch : Epoch \cup {NoEpoch}, id : Nat, data : SUBSET Chunk]
NoBatch   == [epoch |-> NoEpoch, id |-> 0, data |-> {}]

Ack      == [epoch : Epoch \cup {NoEpoch, ClaimEpoch}, id : Nat]
EmptyAck == [epoch |-> NoEpoch, id |-> 0]

\* UsageCohort: answers of the nodes it holds, the usage epochs of the tick
\* that read them, and the nodes whose batches are acknowledged only.
Cohort == [nodes : SUBSET Node, params : [Node -> StatBatch], ackOnly : SUBSET Node,
           epochs : [User -> Nat], attempts : Nat, kept : BOOLEAN]
NoCohort == [nodes |-> {}, params |-> [n \in Node |-> NoBatch], ackOnly |-> {},
             epochs |-> [u \in User |-> 0], attempts |-> 0, kept |-> FALSE]

PollStates == {"none", "queued", "sent", "served", "ok", "failed", "done"}
Steps      == {"idle", "retained", "poll", "persist", "settle"}

\* The chunks a set of nodes answered with.
DataOf(params, S) == UNION {params[n].data : n \in S}

Settled == {c \in Chunk : bills[c] > 0} \cup dropped

Fault(kind) ==
  /\ kind \in Faults
  /\ faults < MaxFaults
  /\ faults' = faults + 1

Init ==
  /\ procOf = InitialProc
  /\ counters = [q \in Proc |-> {}]
  /\ boot = [q \in Proc |-> 1]
  /\ seq = [q \in Proc |-> 0]
  /\ heldBatch = [q \in Proc |-> NoBatch]
  /\ row = [e \in Epoch |-> 0]
  /\ rowNode = [e \in Epoch |-> CHOOSE n \in Node : TRUE]
  /\ claim = {}
  /\ usageEpoch = [u \in User |-> 0]
  /\ users = User
  /\ bills = [c \in Chunk |-> 0]
  /\ pc = [p \in Panel |-> "idle"]
  /\ epochAtPoll = [p \in Panel |-> [u \in User |-> 0]]
  /\ acks = [p \in Panel |-> [n \in Node |-> EmptyAck]]
  /\ poll = [p \in Panel |-> [n \in Node |-> "none"]]
  /\ answer = [p \in Panel |-> [n \in Node |-> NoBatch]]
  /\ epochByNode = [p \in Panel |-> [n \in Node |-> NoEpoch]]
  /\ retained = [p \in Panel |-> <<>>]
  /\ cohort = [p \in Panel |-> NoCohort]
  /\ failures = [p \in Panel |-> 0]
  /\ born = [c \in Chunk |-> {}]
  /\ drainedAt = [c \in Chunk |-> 0]
  /\ dropped = {}
  /\ lost = {}
  /\ empties = [n \in Node |-> 0]
  /\ edited = {}
  /\ faults = 0

----------------------------------------------------------------------------
(* The node process, as the recorder sees it *)

\* A chunk of a user's traffic is counted.
Traffic(q, c) ==
  /\ born[c] = {}
  /\ Owner[c] \in users
  /\ born' = [born EXCEPT ![c] = {q}]
  /\ counters' = [counters EXCEPT ![q] = @ \cup {c}]
  /\ UNCHANGED <<procOf, boot, seq, heldBatch, ackVars, userVars, bills, tickVars,
                 drainedAt, dropped, lost, empties, edited, faults>>

\* An acknowledgement drops the batch it names; an empty one drops any batch,
\* as the reader is taken to be a panel that never saw this process.
AckDrops(q, ack) ==
  \/ ack.epoch = NoEpoch
  \/ ack.epoch = heldBatch[q].epoch /\ ack.id >= heldBatch[q].id

KeptBatch(q, ack) == IF AckDrops(q, ack) THEN NoBatch ELSE heldBatch[q]

\* The request finds nothing held, so it drains the counters.
Drains(q, ack) == q \in LegacyProc \/ KeptBatch(q, ack).id = 0

Response(q, ack) ==
  IF q \in LegacyProc
    THEN [epoch |-> NoEpoch, id |-> 0, data |-> counters[q]]
  ELSE IF ~Drains(q, ack)
    THEN KeptBatch(q, ack)
  ELSE [epoch |-> <<q, boot[q]>>,
        id    |-> IF counters[q] = {} THEN 0 ELSE seq[q] + 1,
        data  |-> counters[q]]

\* get_stats(reset=True, hold=True, ack_epoch, ack_batch_id) on the node.
NodeServes(q, ack) ==
  LET resp == Response(q, ack)
  IN  /\ counters' = IF Drains(q, ack) THEN [counters EXCEPT ![q] = {}] ELSE counters
      /\ seq' = IF q \notin LegacyProc /\ Drains(q, ack) /\ resp.id > 0
                  THEN [seq EXCEPT ![q] = resp.id] ELSE seq
      /\ heldBatch' = IF q \in LegacyProc THEN heldBatch
                      ELSE [heldBatch EXCEPT ![q] = IF resp.id > 0 THEN resp ELSE NoBatch]
      /\ drainedAt' = [c \in Chunk |-> IF Drains(q, ack) /\ c \in counters[q]
                                         THEN usageEpoch[Owner[c]] ELSE drainedAt[c]]
      /\ UNCHANGED <<procOf, boot>>

\* A node process restarts under a new epoch.  It may have saved the batch it
\* held, which keeps the epoch it was drained under.
Restart(q, saved) ==
  /\ Fault("restart")
  /\ q \notin LegacyProc
  /\ boot[q] < MaxBoot
  /\ boot' = [boot EXCEPT ![q] = @ + 1]
  /\ seq' = [seq EXCEPT ![q] = 0]
  /\ heldBatch' = IF saved THEN heldBatch ELSE [heldBatch EXCEPT ![q] = NoBatch]
  /\ lost' = IF saved THEN lost ELSE lost \cup (heldBatch[q].data \ Settled)
  /\ UNCHANGED <<procOf, counters, ackVars, userVars, bills, tickVars,
                 born, drainedAt, dropped, empties, edited>>

----------------------------------------------------------------------------
(* The operator *)

\* A reset of a user's usage starts a new usage epoch.
ResetUsage(u) ==
  /\ u \in users
  /\ usageEpoch[u] < MaxReset
  /\ usageEpoch' = [usageEpoch EXCEPT ![u] = @ + 1]
  /\ UNCHANGED <<nodeVars, ackVars, users, bills, tickVars, pastVars, faults>>

DeleteUser(u) ==
  /\ Fault("delete")
  /\ u \in users
  /\ users' = users \ {u}
  /\ UNCHANGED <<nodeVars, ackVars, usageEpoch, bills, tickVars, pastVars>>

\* A node's address is edited, so that its id reaches another process.
EditNode(n, q) ==
  /\ Fault("edit")
  /\ procOf[n] # q
  /\ \A p \in Panel : poll[p][n] \notin {"queued", "sent"}
  /\ procOf' = [procOf EXCEPT ![n] = q]
  /\ edited' = edited \cup {n}
  /\ UNCHANGED <<counters, boot, seq, heldBatch, ackVars, userVars, bills, tickVars,
                 born, drainedAt, dropped, lost, empties>>

----------------------------------------------------------------------------
(* The tick of the recorder *)

\* A tick starts when none runs (_user_usage_running), with the nodes that are
\* healthy now, and notes every user's usage epoch before it reads a node.
TickStart(p, healthy) ==
  /\ pc[p] = "idle"
  /\ healthy # {} \/ retained[p] # <<>>
  /\ pc' = [pc EXCEPT ![p] = "retained"]
  /\ epochAtPoll' = [epochAtPoll EXCEPT ![p] = usageEpoch]
  /\ poll' = [poll EXCEPT ![p] = [n \in Node |-> IF n \in healthy THEN "queued" ELSE "none"]]
  /\ failures' = [failures EXCEPT ![p] = 0]
  /\ UNCHANGED <<nodeVars, ackVars, userVars, bills, acks, answer, epochByNode, retained,
                 cohort, pastVars, faults>>

\* Cohorts kept by earlier ticks are persisted first, oldest first.
TakeRetained(p) ==
  /\ pc[p] = "retained"
  /\ retained[p] # <<>>
  /\ cohort' = [cohort EXCEPT ![p] = Head(retained[p])]
  /\ retained' = [retained EXCEPT ![p] = Tail(@)]
  /\ pc' = [pc EXCEPT ![p] = "persist"]
  /\ UNCHANGED <<nodeVars, ackVars, userVars, bills, epochAtPoll, acks, poll, answer,
                 epochByNode, failures, pastVars, faults>>

RowsOf(n) == {e \in Epoch : row[e] > 0 /\ rowNode[e] = n}

\* Mutants of AckFor: a batch is acknowledged once it was read, billed or not;
\* claims are not looked up; only claims are ever sent, as if settled rows were
\* not found.
AckForRead(p, n) ==
  LET known == epochByNode[p][n]
  IN  IF known # NoEpoch THEN [epoch |-> known, id |-> row[known] + 1]
      ELSE IF RowsOf(n) # {}
        THEN LET e == CHOOSE e \in RowsOf(n) : TRUE IN [epoch |-> e, id |-> row[e] + 1]
      ELSE IF n \in claim THEN [epoch |-> ClaimEpoch, id |-> 0] ELSE EmptyAck
AckForUnclaimed(p, n) ==
  LET known == epochByNode[p][n]
  IN  IF known # NoEpoch THEN [epoch |-> known, id |-> row[known]] ELSE EmptyAck
AckForNoRow(p, n) == IF n \in claim \/ RowsOf(n) # {} THEN [epoch |-> ClaimEpoch, id |-> 0] ELSE EmptyAck

\* load_acks: an epoch this process saw decides, whatever node its row names;
\* otherwise the latest row of the node does.
AckFor(p, n) ==
  LET known == epochByNode[p][n]
  IN  IF known # NoEpoch THEN [epoch |-> known, id |-> row[known]]
      ELSE IF RowsOf(n) # {}
        THEN LET e == CHOOSE e \in RowsOf(n) : TRUE IN [epoch |-> e, id |-> row[e]]
      ELSE IF n \in claim THEN [epoch |-> ClaimEpoch, id |-> 0]
      ELSE EmptyAck

\* acks_for_request: first contacts are claimed in the database before any
\* node is asked, so that an empty acknowledgement is prepared only once.
LoadAcks(p) ==
  LET asked == {n \in Node : poll[p][n] = "queued"}
      first == {n \in asked : AckFor(p, n) = EmptyAck}
  IN  /\ pc[p] = "retained"
      /\ retained[p] = <<>>
      /\ acks' = [acks EXCEPT ![p] = [n \in Node |-> IF n \in asked THEN AckFor(p, n) ELSE EmptyAck]]
      /\ claim' = claim \cup first
      /\ empties' = [n \in Node |-> IF n \in first THEN empties[n] + 1 ELSE empties[n]]
      /\ pc' = [pc EXCEPT ![p] = IF asked = {} THEN "idle" ELSE "poll"]
      /\ UNCHANGED <<nodeVars, row, rowNode, userVars, bills, epochAtPoll, poll, answer, epochByNode,
                     retained, cohort, failures, born, drainedAt, dropped, lost, edited, faults>>

\* Without acknowledgements no node is read and the tick ends.
LoadAcksFails(p) ==
  /\ Fault("database")
  /\ pc[p] = "retained"
  /\ retained[p] = <<>>
  /\ pc' = [pc EXCEPT ![p] = "idle"]
  /\ poll' = [poll EXCEPT ![p] = [n \in Node |-> "none"]]
  /\ UNCHANGED <<nodeVars, ackVars, userVars, bills, epochAtPoll, acks, answer, epochByNode,
                 retained, cohort, failures, pastVars>>

\* _legacy_params: what the panel alone holds.
LegacyNodes(params, S) == {n \in S : params[n].epoch = NoEpoch /\ params[n].data # {}}

\* A poll task issues its reset read.
PollSend(p, n) ==
  /\ pc[p] \in {"poll", "persist"} /\ ~cohort[p].kept
  /\ poll[p][n] = "queued"
  /\ poll' = [poll EXCEPT ![p][n] = "sent"]
  /\ UNCHANGED <<nodeVars, ackVars, userVars, bills, pc, epochAtPoll, acks, answer, epochByNode,
                 retained, cohort, failures, pastVars, faults>>

\* The node serves the request; its answer is on the way.
PollServed(p, n) ==
  /\ poll[p][n] = "sent"
  /\ NodeServes(procOf[n], acks[p][n])
  /\ poll' = [poll EXCEPT ![p][n] = "served"]
  /\ answer' = [answer EXCEPT ![p][n] = Response(procOf[n], acks[p][n])]
  /\ UNCHANGED <<ackVars, userVars, bills, pc, epochAtPoll, acks, epochByNode, retained, cohort, failures,
                 born, dropped, lost, empties, edited, faults>>

\* The answer arrives; _remember_batch notes the epoch it came with.
PollAnswered(p, n) ==
  LET epoch == answer[p][n].epoch
  IN  /\ poll[p][n] = "served"
      /\ poll' = [poll EXCEPT ![p][n] = "ok"]
      /\ epochByNode' = [epochByNode EXCEPT ![p][n] = IF epoch = NoEpoch THEN @ ELSE epoch]
      /\ UNCHANGED <<nodeVars, ackVars, userVars, bills, pc, epochAtPoll, acks, answer, retained, cohort,
                     failures, pastVars, faults>>

\* The answer never arrives: what a legacy node drained is gone.
PollAnswerLost(p, n) ==
  /\ Fault("answer")
  /\ poll[p][n] = "served"
  /\ poll' = [poll EXCEPT ![p][n] = "failed"]
  /\ answer' = [answer EXCEPT ![p][n] = NoBatch]
  /\ lost' = lost \cup DataOf(answer[p], LegacyNodes(answer[p], {n}))
  /\ UNCHANGED <<nodeVars, ackVars, userVars, bills, pc, epochAtPoll, acks, epochByNode, retained,
                 cohort, failures, born, drainedAt, dropped, empties, edited>>

\* The request never reaches the node.
PollRequestLost(p, n) ==
  /\ Fault("request")
  /\ poll[p][n] = "sent"
  /\ poll' = [poll EXCEPT ![p][n] = "failed"]
  /\ UNCHANGED <<nodeVars, ackVars, userVars, bills, pc, epochAtPoll, acks, answer, epochByNode,
                 retained, cohort, failures, pastVars>>

\* _drain_node_collection yields the polls that finished so far.
TakeCohort(p) ==
  LET finished == {n \in Node : poll[p][n] \in {"ok", "failed"}}
      answered == {n \in finished : poll[p][n] = "ok"}
  IN  /\ pc[p] = "poll"
      /\ finished # {}
      /\ cohort' = [cohort EXCEPT ![p] =
           [nodes |-> answered, ackOnly |-> {}, epochs |-> epochAtPoll[p], attempts |-> 0, kept |-> FALSE,
            params |-> [n \in Node |-> IF n \in answered THEN answer[p][n] ELSE NoBatch]]]
      /\ answer' = [answer EXCEPT ![p] = [n \in Node |-> IF n \in finished THEN NoBatch ELSE @[n]]]
      /\ poll' = [poll EXCEPT ![p] = [n \in Node |-> IF n \in finished THEN "done" ELSE @[n]]]
      /\ pc' = [pc EXCEPT ![p] = "persist"]
      /\ UNCHANGED <<nodeVars, ackVars, userVars, bills, epochAtPoll, acks, epochByNode, retained,
                     failures, pastVars, faults>>

----------------------------------------------------------------------------
(* Persisting a cohort *)

\* held(stat_batches): the nodes of a cohort whose batch is to be settled.
Live(co) == {n \in co.nodes : co.params[n].epoch # NoEpoch /\ co.params[n].id > 0}

\* The nodes that reported an epoch in a cohort.
Reporters(co, e) == {n \in Live(co) : co.params[n].epoch = e}

\* Mutant of StaleNodes: < for <=.
StaleNodesStrict(co) ==
  {n \in Live(co) \ co.ackOnly : co.params[n].id < row[co.params[n].epoch]}

\* settle_batches refuses a billable batch that is at or below its epoch's
\* row, or below what a smaller node id carries in the same cohort.
StaleNodes(co) ==
  {n \in Live(co) \ co.ackOnly :
     \/ co.params[n].id <= row[co.params[n].epoch]
     \/ \E m \in Reporters(co, co.params[n].epoch) : m < n /\ co.params[n].id <= co.params[m].id}

Largest(S) == CHOOSE k \in S : \A j \in S : j <= k

\* Mutant of SettledRow: the other rows of the node are not deleted.
SettledRowOnly(co, e) ==
  Largest({row[e]} \cup {co.params[n].id : n \in Reporters(co, e)})

\* The rows settle_batches leaves, walking the nodes in order of their ids:
\* each updates or inserts its epoch's row, then deletes the other rows of its
\* own id.  A row that an earlier id deletes is not inserted again, because a
\* later id finds it among the rows read at the start and only updates it.
SettledRow(co, e) ==
  LET who == Reporters(co, e)
      deleted == row[e] > 0 /\ rowNode[e] \in Live(co) /\ \A n \in who : rowNode[e] < n
  IN  IF deleted THEN 0
      ELSE Largest({row[e]} \cup {co.params[n].id : n \in who})

SettledNode(co, e) ==
  IF Reporters(co, e) = {} THEN rowNode[e] ELSE Largest(Reporters(co, e))

\* Mutant of Unfenced: the usage epoch is not compared.
UnfencedIfExists(co, c) == Owner[c] \in users

\* The usage-epoch fence: the user exists and was not reset since the tick
\* that read the traffic began.
Unfenced(co, c) == Owner[c] \in users /\ usageEpoch[Owner[c]] = co.epochs[Owner[c]]

\* Mutant of Times: usage is subtracted.
TimesNegated(co, c) == 0 - Cardinality({n \in co.nodes : c \in co.params[n].data})

\* How often a chunk is in a cohort: calculate_users_usage sums the nodes.
Times(co, c) == Cardinality({n \in co.nodes : c \in co.params[n].data})

\* The one transaction of apply_fenced_user_usage.
Write(co) ==
  /\ row' = [e \in Epoch |-> SettledRow(co, e)]
  /\ rowNode' = [e \in Epoch |-> SettledNode(co, e)]
  /\ claim' = claim \ Live(co)
  /\ bills' = [c \in Chunk |-> IF Unfenced(co, c) THEN bills[c] + Times(co, c) ELSE bills[c]]
  /\ dropped' = dropped \cup {c \in DataOf(co.params, co.nodes) : ~Unfenced(co, c)}

\* Batches that were billed before are dropped from the cohort and only
\* acknowledged; the write is tried again without them.
PersistStale(p) ==
  LET co == cohort[p]
      stale == StaleNodes(co)
  IN  /\ pc[p] = "persist"
      /\ stale # {}
      /\ cohort' = [cohort EXCEPT ![p].ackOnly = @ \cup stale,
                                  ![p].params = [n \in Node |-> IF n \in stale
                                                   THEN [co.params[n] EXCEPT !.data = {}]
                                                   ELSE co.params[n]]]
      /\ UNCHANGED <<nodeVars, ackVars, userVars, bills, pc, epochAtPoll, acks, poll, answer,
                     epochByNode, retained, failures, pastVars, faults>>

\* The write commits; the tick goes on where the cohort came from.
PersistCommit(p) ==
  /\ pc[p] = "persist"
  /\ StaleNodes(cohort[p]) = {}
  /\ Write(cohort[p])
  /\ pc' = [pc EXCEPT ![p] = IF cohort[p].kept THEN "retained" ELSE "poll"]
  /\ cohort' = [cohort EXCEPT ![p] = NoCohort]
  /\ failures' = [failures EXCEPT ![p] = 0]
  /\ UNCHANGED <<nodeVars, userVars, epochAtPoll, acks, poll, answer, epochByNode, retained,
                 born, drainedAt, lost, empties, edited, faults>>

\* A cohort cut down to its legacy part, to be kept for a later tick.
KeptCohort(params, S, epochs, attempts) ==
  [nodes |-> S, ackOnly |-> {}, epochs |-> epochs, attempts |-> attempts, kept |-> TRUE,
   params |-> [n \in Node |-> IF n \in S THEN params[n] ELSE NoBatch]]

\* Mutant of KeepOrAbandon: a write in doubt is tried again.
KeepInDoubt(p, inDoubt) ==
  LET co == cohort[p]
      legacy == LegacyNodes(co.params, co.nodes)
  IN  /\ retained' = IF legacy = {} THEN retained
           ELSE [retained EXCEPT ![p] = <<KeptCohort(co.params, legacy, co.epochs, co.attempts + 1)>> \o @]
      /\ lost' = lost

\* _keep_or_abandon_retained: kept in memory for the next tick, unless the
\* write may have landed or was tried too often.
KeepOrAbandon(p, inDoubt) ==
  LET co == cohort[p]
      legacy == LegacyNodes(co.params, co.nodes)
      keep == legacy # {} /\ ~inDoubt /\ co.attempts + 1 < MaxAttempts
  IN  /\ retained' = IF keep
           THEN [retained EXCEPT ![p] = <<KeptCohort(co.params, legacy, co.epochs, co.attempts + 1)>> \o @]
           ELSE retained
      /\ lost' = IF keep THEN lost ELSE lost \cup (DataOf(co.params, legacy) \ Settled')

\* After a failed write: a kept cohort ends the tick; otherwise must_stop
\* decides whether to go on, and polls not yet issued are cancelled if not.
AfterFailure(p, retriable) ==
  LET stop == ~retriable \/ failures[p] + 1 >= MaxConsecutive
      next == IF cohort[p].kept THEN "idle" ELSE IF stop THEN "settle" ELSE "poll"
  IN  /\ pc' = [pc EXCEPT ![p] = next]
      /\ poll' = [poll EXCEPT ![p] = [n \in Node |->
                    IF next = "idle" \/ (next = "settle" /\ @[n] = "queued") THEN "none" ELSE @[n]]]
      /\ failures' = [failures EXCEPT ![p] = @ + 1]
      /\ cohort' = [cohort EXCEPT ![p] = NoCohort]

\* The write fails and is known not to have committed.
PersistFails(p, retriable) ==
  /\ Fault("database")
  /\ pc[p] = "persist"
  /\ UNCHANGED <<ackVars, bills, dropped>>
  /\ KeepOrAbandon(p, FALSE)
  /\ AfterFailure(p, retriable)
  /\ UNCHANGED <<nodeVars, userVars, epochAtPoll, acks, answer, epochByNode,
                 born, drainedAt, empties, edited>>

\* The connection drops during the commit: it landed or not, nobody knows.
PersistInDoubt(p, landed) ==
  /\ Fault("indoubt")
  /\ pc[p] = "persist"
  /\ StaleNodes(cohort[p]) = {}
  /\ IF landed THEN Write(cohort[p]) ELSE UNCHANGED <<ackVars, bills, dropped>>
  /\ KeepOrAbandon(p, TRUE)
  /\ AfterFailure(p, FALSE)
  /\ UNCHANGED <<nodeVars, userVars, epochAtPoll, acks, answer, epochByNode,
                 born, drainedAt, empties, edited>>

\* All polls were taken up: the tick ends.
TickEnd(p) ==
  /\ pc[p] = "poll"
  /\ \A n \in Node : poll[p][n] \in {"none", "done"}
  /\ pc' = [pc EXCEPT ![p] = "idle"]
  /\ poll' = [poll EXCEPT ![p] = [n \in Node |-> "none"]]
  /\ UNCHANGED <<nodeVars, ackVars, userVars, bills, epochAtPoll, acks, answer, epochByNode,
                 retained, cohort, failures, pastVars, faults>>

\* _settle_collection: reads already issued are awaited, and what legacy nodes
\* answered is kept for the next tick.
SettleCollection(p) ==
  LET legacy == LegacyNodes(answer[p], {n \in Node : poll[p][n] = "ok"})
  IN  /\ pc[p] = "settle"
      /\ \A n \in Node : poll[p][n] \notin {"sent", "served"}
      /\ retained' = IF legacy = {} THEN retained
                     ELSE [retained EXCEPT ![p] =
                             Append(@, KeptCohort(answer[p], legacy, epochAtPoll[p], 0))]
      /\ answer' = [answer EXCEPT ![p] = [n \in Node |-> NoBatch]]
      /\ pc' = [pc EXCEPT ![p] = "idle"]
      /\ poll' = [poll EXCEPT ![p] = [n \in Node |-> "none"]]
      /\ UNCHANGED <<nodeVars, ackVars, userVars, bills, epochAtPoll, acks, epochByNode,
                     cohort, failures, pastVars, faults>>

\* What only the memory of the recorder holds.
InMemory(p) ==
  DataOf(answer[p], LegacyNodes(answer[p], Node))
    \cup DataOf(cohort[p].params, LegacyNodes(cohort[p].params, cohort[p].nodes))
    \cup UNION {DataOf(retained[p][i].params, retained[p][i].nodes) : i \in DOMAIN retained[p]}

\* The recorder process dies and is started again.
Crash(p) ==
  /\ Fault("crash")
  /\ lost' = lost \cup (InMemory(p) \ Settled)
  /\ pc' = [pc EXCEPT ![p] = "idle"]
  /\ epochAtPoll' = [epochAtPoll EXCEPT ![p] = [u \in User |-> 0]]
  /\ acks' = [acks EXCEPT ![p] = [n \in Node |-> EmptyAck]]
  /\ poll' = [poll EXCEPT ![p] = [n \in Node |-> "none"]]
  /\ answer' = [answer EXCEPT ![p] = [n \in Node |-> NoBatch]]
  /\ epochByNode' = [epochByNode EXCEPT ![p] = [n \in Node |-> NoEpoch]]
  /\ retained' = [retained EXCEPT ![p] = <<>>]
  /\ cohort' = [cohort EXCEPT ![p] = NoCohort]
  /\ failures' = [failures EXCEPT ![p] = 0]
  /\ UNCHANGED <<nodeVars, ackVars, userVars, bills, born, drainedAt, dropped, empties, edited>>

----------------------------------------------------------------------------
(* The specification *)

Environment ==
  \/ \E q \in Proc, c \in Chunk : Traffic(q, c)
  \/ \E q \in Proc, saved \in BOOLEAN : Restart(q, saved)
  \/ \E u \in User : ResetUsage(u) \/ DeleteUser(u)
  \/ \E n \in Node, q \in Proc : EditNode(n, q)

TickStep(p) ==
  \/ \E healthy \in SUBSET Node : TickStart(p, healthy)
  \/ TakeRetained(p) \/ LoadAcks(p) \/ TakeCohort(p)
  \/ \E n \in Node : PollSend(p, n) \/ PollServed(p, n) \/ PollAnswered(p, n)
  \/ PersistStale(p) \/ PersistCommit(p)
  \/ TickEnd(p) \/ SettleCollection(p)

TickFault(p) ==
  \/ LoadAcksFails(p)
  \/ \E n \in Node : PollAnswerLost(p, n) \/ PollRequestLost(p, n)
  \/ \E b \in BOOLEAN : PersistFails(p, b) \/ PersistInDoubt(p, b)
  \/ Crash(p)

Next == Environment \/ \E p \in Panel : TickStep(p) \/ TickFault(p)

Spec == Init /\ [][Next]_vars

\* The scheduler keeps ticking, again and again with every node healthy, and a
\* running tick is never abandoned.  Faults carry no fairness.
Fairness ==
  \A p \in Panel :
    /\ SF_vars(TickStart(p, Node))
    /\ WF_vars(TakeRetained(p) \/ LoadAcks(p) \/ PersistStale(p) \/ PersistCommit(p)
                 \/ TakeCohort(p) \/ TickEnd(p) \/ SettleCollection(p))
    /\ \A n \in Node : WF_vars(PollSend(p, n) \/ PollServed(p, n) \/ PollAnswered(p, n))

FairSpec == Spec /\ Fairness

----------------------------------------------------------------------------
(* Properties *)

TypeOK ==
  /\ procOf \in [Node -> Proc]
  /\ counters \in [Proc -> SUBSET Chunk]
  /\ boot \in [Proc -> Boot]
  /\ seq \in [Proc -> Nat]
  /\ heldBatch \in [Proc -> StatBatch]
  /\ row \in [Epoch -> Nat]
  /\ rowNode \in [Epoch -> Node]
  /\ claim \in SUBSET Node
  /\ usageEpoch \in [User -> Nat]
  /\ users \in SUBSET User
  /\ bills \in [Chunk -> Nat]
  /\ pc \in [Panel -> Steps]
  /\ epochAtPoll \in [Panel -> [User -> Nat]]
  /\ acks \in [Panel -> [Node -> Ack]]
  /\ poll \in [Panel -> [Node -> PollStates]]
  /\ answer \in [Panel -> [Node -> StatBatch]]
  /\ epochByNode \in [Panel -> [Node -> Epoch \cup {NoEpoch}]]
  /\ retained \in [Panel -> Seq(Cohort)]
  /\ cohort \in [Panel -> Cohort]
  /\ failures \in [Panel -> Nat]
  /\ born \in [Chunk -> SUBSET Proc]
  /\ drainedAt \in [Chunk -> Nat]
  /\ dropped \in SUBSET Chunk
  /\ lost \in SUBSET Chunk
  /\ empties \in [Node -> Nat]
  /\ edited \in SUBSET Node
  /\ faults \in Nat

\* No unit of traffic is ever added twice to a user's used_traffic, whatever
\* answers are lost, writes are in doubt, nodes restart or the panel dies.
NoDoubleBilling == \A c \in Chunk : bills[c] <= 1

\* Every unit of traffic a node counted is still on the node, or held by the
\* recorder for a legacy node, or settled, or lost in one of the documented
\* ways: an acknowledgement never drops a batch that was not settled.
Conserved ==
  \A c \in Chunk :
    born[c] # {} =>
      \/ \E q \in Proc : c \in counters[q] \/ c \in heldBatch[q].data
      \/ \E p \in Panel : c \in InMemory(p)
      \/ c \in Settled \cup lost

\* No traffic is billed twice (NoDoubleBilling) by record_user_usages until an
\* administrator points a node id at another process.
BilledOnce == edited # {} \/ NoDoubleBilling

\* Traffic a node reported is billed, pending or given up (Conserved) until an
\* administrator points a node id at another process.
AllConserved == edited # {} \/ Conserved

\* The empty acknowledgement, which makes a node forget an unbilled batch, is
\* sent at most once per node, whatever crashes and restarts follow.
EmptyAckOnce == \A n \in Node : empties[n] <= 1

\* A node id has at most one acknowledgement row, so that "its latest row" is
\* the row of the batch that was settled last.
OneRowPerNode ==
  \A n \in Node :
    /\ \A d, e \in RowsOf(n) : d = e
    /\ n \in claim => RowsOf(n) = {}

\* Traffic that the panel read from a legacy node before a user's reset is
\* never billed to the period after it, even if it was kept over many ticks.
BilledInThePeriodRead ==
  [][\A c \in Chunk :
       bills'[c] > bills[c] /\ born[c] \subseteq LegacyProc => usageEpoch'[Owner[c]] = drainedAt[c]]_vars

\* Everything a node counts is billed, fenced or documented as lost in the
\* end, once the faults are over.
EventuallySettled ==
  \A c \in Chunk : (born[c] # {}) ~> (c \in Settled \cup lost)

\* It is (EventuallySettled), unless some node id is edited to reach another
\* process.
Settles == <>(edited # {}) \/ EventuallySettled
=============================================================================
