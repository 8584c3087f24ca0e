------------------------ MODULE UsageRecorder_proofs ------------------------
(***************************************************************************)
(* Theorems about UsageRecorder, for every value of its constants.         *)
(*                                                                         *)
(*   TypeCorrect        every variable has its type                        *)
(*   OneRow             a node id has one acknowledgement row at most      *)
(*   FirstContactOnce   an empty acknowledgement is prepared once per node *)
(*   BilledUntilEdited, BilledAtMostOnce                                   *)
(*                      no unit of traffic is billed twice                 *)
(*   ConservedUntilEdited, TrafficConserved                                *)
(*                      no unit of traffic is forgotten                    *)
(*   PeriodsKept        the usage-epoch fence of legacy traffic            *)
(*                                                                         *)
(* What is said of billing rests on an inductive invariant, in parts:      *)
(* Origin (whose batch is filed where), Control (what goes with each step  *)
(* of a tick), Contact (the database knows whom it asked), Numbers (batch  *)
(* ids and rows never run ahead) and Account (what is settled, and what    *)
(* may be).                                                                *)
(***************************************************************************)
EXTENDS UsageRecorder, FiniteSetTheorems, WellFoundedInduction, SequenceTheorems, TLAPS

----------------------------------------------------------------------------
(* The operators the transaction is built from *)

\* A non-empty finite set of naturals has a largest element, and Largest names
\* it.  By the well-foundedness of the strict subset order: a smallest set
\* without a largest element cannot exist.
LEMMA LargestIn ==
  ASSUME NEW S, IsFiniteSet(S), S \subseteq Nat, S # {}
  PROVE  Largest(S) \in S /\ \A j \in S : j <= Largest(S)
<1> DEFINE HasLargest(A) == \E k \in A : \A j \in A : j <= k
           Bad == {A \in FiniteSubsetsOf(S) : A # {} /\ ~HasLargest(A)}
<1>1. Bad = {}
  <2>1. SUFFICES ASSUME Bad # {} PROVE FALSE
    OBVIOUS
  <2>2. IsWellFoundedOn(StrictSubsetOrdering(S), FiniteSubsetsOf(S))
    BY FS_StrictSubsetOrderingWellFounded
  <2>3. PICK A \in Bad : \A B \in Bad : ~(<<B, A>> \in StrictSubsetOrdering(S))
    BY <2>1, <2>2, WFMin
  <2>4. A \subseteq S /\ IsFiniteSet(A) /\ A # {} /\ ~HasLargest(A)
    BY <2>3 DEF FiniteSubsetsOf
  <2>5. PICK x \in A : TRUE
    BY <2>4
  <2>6. IsFiniteSet(A \ {x})
    BY <2>4, FS_RemoveElement
  <2>7. A \ {x} \notin Bad
    <3>1. A \ {x} \in SUBSET S /\ A \in SUBSET S /\ A \ {x} \subseteq A /\ A \ {x} # A
      BY <2>4, <2>5
    <3>2. <<A \ {x}, A>> \in StrictSubsetOrdering(S)
      BY <3>1 DEF StrictSubsetOrdering
    <3> QED BY <2>3, <3>2
  <2>8. A \ {x} \in FiniteSubsetsOf(S)
    BY <2>4, <2>6 DEF FiniteSubsetsOf
  <2>9. CASE A \ {x} = {}
    <3>1. A = {x} /\ x \in Nat
      BY <2>4, <2>5, <2>9
    <3> QED BY <3>1, <2>4
  <2>10. CASE A \ {x} # {}
    <3>1. HasLargest(A \ {x})
      BY <2>7, <2>8, <2>10
    <3>2. PICK m \in A \ {x} : \A j \in A \ {x} : j <= m
      BY <3>1
    <3>3. m \in Nat /\ x \in Nat /\ A \subseteq Nat
      BY <2>4, <2>5
    <3>4. CASE x <= m
      BY <3>2, <3>3, <3>4, <2>4
    <3>5. CASE ~(x <= m)
      BY <3>2, <3>3, <3>5, <2>4, <2>5
    <3> QED BY <3>4, <3>5
  <2> QED BY <2>9, <2>10
<1>2. S \in FiniteSubsetsOf(S)
  BY DEF FiniteSubsetsOf
<1>3. HasLargest(S)
  BY <1>1, <1>2
<1> QED BY <1>3 DEF Largest

\* The values a function takes on a finite set are finitely many.
LEMMA FiniteValues ==
  ASSUME NEW S, NEW T, NEW f \in [S -> T], IsFiniteSet(S)
  PROVE  IsFiniteSet({f[x] : x \in S})
<1>1. f \in Surjection(S, {f[x] : x \in S})
  BY DEF Surjection
<1> QED BY <1>1, FS_Surjection

LEMMA ReportersType ==
  ASSUME NEW co \in Cohort, NEW e \in Epoch
  PROVE  /\ Live(co) \subseteq Node
         /\ Reporters(co, e) \subseteq Live(co)
         /\ IsFiniteSet(Reporters(co, e))
         /\ \A n \in Live(co) : co.params[n].epoch \in Epoch /\ co.params[n].id \in Nat
<1>1. Reporters(co, e) \in SUBSET Node /\ Reporters(co, e) \subseteq Live(co) /\ Live(co) \subseteq Node
  BY DEF Reporters, Live, Cohort
<1>2. IsFiniteSet(Reporters(co, e))
  BY <1>1, FS_Subset, ConstantsAssumption
<1>3. \A n \in Live(co) : co.params[n].epoch \in Epoch /\ co.params[n].id \in Nat
  BY DEF Live, Cohort, StatBatch
<1> QED BY <1>1, <1>2, <1>3

\* What the transaction stores for an epoch: nothing, or the largest of the
\* stored batch id and the reported ones.
LEMMA SettledRowValue ==
  ASSUME TypeOK, NEW co \in Cohort, NEW e \in Epoch
  PROVE  /\ SettledRow(co, e) \in Nat
         /\ SettledRow(co, e) # 0 =>
              /\ SettledRow(co, e) >= row[e]
              /\ \A n \in Reporters(co, e) : SettledRow(co, e) >= co.params[n].id
              /\ \/ SettledRow(co, e) = row[e]
                 \/ \E n \in Reporters(co, e) : SettledRow(co, e) = co.params[n].id
<1> DEFINE who == Reporters(co, e)
           ids == {co.params[n].id : n \in who}
           f == [n \in who |-> co.params[n].id]
<1>1. who \subseteq Node /\ IsFiniteSet(who) /\ \A n \in who : co.params[n].id \in Nat
  BY ReportersType
<1>2. f \in [who -> Nat]
  BY <1>1
<1>3. IsFiniteSet({f[x] : x \in who})
  BY <1>1, <1>2, FiniteValues
<1>4. {f[x] : x \in who} = ids
  OBVIOUS
<1>5. IsFiniteSet(ids \cup {row[e]})
  BY <1>3, <1>4, FS_AddElement
<1>6. row[e] \in Nat
  BY DEF TypeOK
<1> DEFINE all == {row[e]} \cup ids
<1>7. all \subseteq Nat /\ all # {} /\ IsFiniteSet(all)
  <2>1. all = ids \cup {row[e]}
    OBVIOUS
  <2> QED BY <1>1, <1>5, <1>6, <2>1
<1> HIDE DEF all
<1>8. Largest(all) \in all /\ \A j \in all : j <= Largest(all)
  BY <1>7, LargestIn
<1>9. SettledRow(co, e) = 0 \/ SettledRow(co, e) = Largest(all)
  BY DEF SettledRow, all
<1> QED BY <1>1, <1>6, <1>7, <1>8, <1>9 DEF all

LEMMA SettledNodeValue ==
  ASSUME TypeOK, NEW co \in Cohort, NEW e \in Epoch
  PROVE  /\ SettledNode(co, e) \in Node
         /\ Reporters(co, e) # {} => SettledNode(co, e) \in Reporters(co, e)
         /\ Reporters(co, e) = {} => SettledNode(co, e) = rowNode[e]
<1>1. Reporters(co, e) \subseteq Node /\ IsFiniteSet(Reporters(co, e)) /\ Node \subseteq Nat
  BY ReportersType, ConstantsAssumption
<1>2. Reporters(co, e) # {} => Largest(Reporters(co, e)) \in Reporters(co, e)
  BY <1>1, LargestIn
<1> QED BY <1>1, <1>2 DEF SettledNode, TypeOK

----------------------------------------------------------------------------
(* Type correctness *)

LEMMA ResponseType ==
  ASSUME TypeOK, NEW q \in Proc, NEW ack \in Ack
  PROVE  Response(q, ack) \in StatBatch
<1>1. counters[q] \in SUBSET Chunk /\ seq[q] \in Nat /\ <<q, boot[q]>> \in Epoch
  BY DEF TypeOK, Epoch
<1>2. heldBatch[q] \in StatBatch /\ NoBatch \in StatBatch
  BY DEF TypeOK, StatBatch, NoBatch
<1>3. KeptBatch(q, ack) \in StatBatch
  BY <1>2 DEF KeptBatch
<1> QED BY <1>1, <1>3 DEF Response, StatBatch

LEMMA NodeServesType ==
  ASSUME TypeOK, NEW q \in Proc, NEW ack \in Ack, NodeServes(q, ack)
  PROVE  /\ counters' \in [Proc -> SUBSET Chunk]
         /\ seq' \in [Proc -> Nat]
         /\ heldBatch' \in [Proc -> StatBatch]
         /\ drainedAt' \in [Chunk -> Nat]
         /\ procOf' = procOf /\ boot' = boot
<1>1. Response(q, ack) \in StatBatch /\ NoBatch \in StatBatch
  BY ResponseType DEF StatBatch, NoBatch
<1>2. Response(q, ack).id \in Nat
  BY <1>1 DEF StatBatch
<1>3. Owner \in [Chunk -> User]
  BY ConstantsAssumption
<1> QED BY <1>1, <1>2, <1>3 DEF NodeServes, TypeOK

LEMMA KeptCohortType ==
  ASSUME NEW params \in [Node -> StatBatch], NEW S \in SUBSET Node,
         NEW epochs \in [User -> Nat], NEW attempts \in Nat
  PROVE  KeptCohort(params, S, epochs, attempts) \in Cohort
BY DEF KeptCohort, Cohort, NoBatch, StatBatch

LEMMA NoCohortType == NoCohort \in Cohort
BY DEF NoCohort, Cohort, NoBatch, StatBatch

LEMMA AckForType ==
  ASSUME TypeOK, NEW p \in Panel, NEW n \in Node
  PROVE  AckFor(p, n) \in Ack
<1>1. epochByNode[p][n] \in Epoch \cup {NoEpoch}
  BY DEF TypeOK
<1>2. CASE epochByNode[p][n] # NoEpoch
  BY <1>1, <1>2 DEF AckFor, Ack, TypeOK
<1>3. CASE epochByNode[p][n] = NoEpoch /\ RowsOf(n) # {}
  <2> DEFINE e == CHOOSE e \in RowsOf(n) : TRUE
  <2>1. e \in RowsOf(n)
    BY <1>3
  <2>2. e \in Epoch /\ row[e] \in Nat
    BY <2>1 DEF RowsOf, TypeOK
  <2>3. AckFor(p, n) = [epoch |-> e, id |-> row[e]]
    BY <1>3 DEF AckFor
  <2> QED BY <2>2, <2>3 DEF Ack
<1>4. CASE epochByNode[p][n] = NoEpoch /\ RowsOf(n) = {}
  BY <1>4 DEF AckFor, Ack, EmptyAck
<1> QED BY <1>2, <1>3, <1>4

LEMMA TimesType ==
  ASSUME NEW co \in Cohort, NEW c \in Chunk
  PROVE  Times(co, c) \in Nat
<1>1. {n \in co.nodes : c \in co.params[n].data} \in SUBSET Node
  BY DEF Cohort
<1>2. IsFiniteSet({n \in co.nodes : c \in co.params[n].data})
  BY <1>1, FS_Subset, ConstantsAssumption
<1> QED BY <1>2, FS_CardinalityType DEF Times

\* The data of a set of answers are chunks.
LEMMA DataOfType ==
  ASSUME NEW params \in [Node -> StatBatch], NEW S \in SUBSET Node
  PROVE  DataOf(params, S) \in SUBSET Chunk
BY DEF DataOf, StatBatch

LEMMA WriteType ==
  ASSUME TypeOK, NEW co \in Cohort, Write(co)
  PROVE  /\ row' \in [Epoch -> Nat]
         /\ rowNode' \in [Epoch -> Node]
         /\ claim' \in SUBSET Node
         /\ bills' \in [Chunk -> Nat]
         /\ dropped' \in SUBSET Chunk
<1>1. row' \in [Epoch -> Nat]
  BY SettledRowValue DEF Write
<1>2. rowNode' \in [Epoch -> Node]
  BY SettledNodeValue DEF Write
<1>3. claim' \in SUBSET Node
  BY DEF Write, TypeOK
<1>4. bills' \in [Chunk -> Nat]
  BY TimesType DEF Write, TypeOK
<1>5. dropped' \in SUBSET Chunk
  <2>1. DataOf(co.params, co.nodes) \in SUBSET Chunk
    BY DataOfType DEF Cohort
  <2> QED BY <2>1 DEF Write, TypeOK
<1> QED BY <1>1, <1>2, <1>3, <1>4, <1>5

LEMMA KeepOrAbandonType ==
  ASSUME TypeOK, NEW p \in Panel, NEW inDoubt \in BOOLEAN, KeepOrAbandon(p, inDoubt)
  PROVE  retained' \in [Panel -> Seq(Cohort)] /\ lost' \in SUBSET Chunk
<1> DEFINE co == cohort[p]
           legacy == LegacyNodes(co.params, co.nodes)
           kept == KeptCohort(co.params, legacy, co.epochs, co.attempts + 1)
<1>1. co \in Cohort /\ retained[p] \in Seq(Cohort)
  BY DEF TypeOK
<1>2. /\ co.params \in [Node -> StatBatch] /\ co.nodes \in SUBSET Node
      /\ co.epochs \in [User -> Nat] /\ co.attempts + 1 \in Nat
  BY <1>1 DEF Cohort
<1>3. legacy \in SUBSET Node
  BY <1>2 DEF LegacyNodes
<1>4. kept \in Cohort
  BY <1>2, <1>3, KeptCohortType
<1>5. <<kept>> \o retained[p] \in Seq(Cohort)
  BY <1>1, <1>4
<1>6. DataOf(co.params, legacy) \in SUBSET Chunk
  BY <1>2, <1>3, DataOfType
<1>7. retained' \in [Panel -> Seq(Cohort)]
  <2>1. \/ retained' = [retained EXCEPT ![p] = <<kept>> \o @]
        \/ retained' = retained
    BY DEF KeepOrAbandon
  <2> HIDE DEF kept
  <2> QED BY <2>1, <1>5 DEF TypeOK
<1>8. lost' \in SUBSET Chunk
  <2>1. \/ lost' = lost
        \/ lost' = lost \cup (DataOf(co.params, legacy) \ Settled')
    BY DEF KeepOrAbandon
  <2> QED BY <2>1, <1>6 DEF TypeOK
<1> QED BY <1>7, <1>8

LEMMA AfterFailureType ==
  ASSUME TypeOK, NEW p \in Panel, NEW retriable \in BOOLEAN, AfterFailure(p, retriable)
  PROVE  /\ pc' \in [Panel -> Steps]
         /\ poll' \in [Panel -> [Node -> PollStates]]
         /\ failures' \in [Panel -> Nat]
         /\ cohort' \in [Panel -> Cohort]
BY NoCohortType DEF AfterFailure, TypeOK, Steps, PollStates

LEMMA InMemoryType ==
  ASSUME TypeOK, NEW p \in Panel
  PROVE  InMemory(p) \in SUBSET Chunk
<1>1. answer[p] \in [Node -> StatBatch] /\ cohort[p] \in Cohort /\ retained[p] \in Seq(Cohort)
  BY DEF TypeOK
<1>2. /\ LegacyNodes(answer[p], Node) \in SUBSET Node
      /\ LegacyNodes(cohort[p].params, cohort[p].nodes) \in SUBSET Node
  BY <1>1 DEF LegacyNodes, Cohort
<1>3. /\ DataOf(answer[p], LegacyNodes(answer[p], Node)) \in SUBSET Chunk
      /\ DataOf(cohort[p].params, LegacyNodes(cohort[p].params, cohort[p].nodes)) \in SUBSET Chunk
  BY <1>1, <1>2, DataOfType DEF Cohort
<1>4. \A i \in DOMAIN retained[p] : DataOf(retained[p][i].params, retained[p][i].nodes) \in SUBSET Chunk
  <2>1. SUFFICES ASSUME NEW i \in DOMAIN retained[p]
                 PROVE  DataOf(retained[p][i].params, retained[p][i].nodes) \in SUBSET Chunk
    OBVIOUS
  <2>2. retained[p][i] \in Cohort
    BY <1>1
  <2> QED BY <2>2, DataOfType DEF Cohort
<1> QED BY <1>3, <1>4 DEF InMemory

LEMMA InitTypeOK == Init => TypeOK
<1>1. SUFFICES ASSUME Init PROVE TypeOK
  OBVIOUS
<1>2. NoBatch \in StatBatch /\ EmptyAck \in Ack /\ NoCohort \in Cohort
  BY NoCohortType DEF NoBatch, StatBatch, EmptyAck, Ack
<1>3. (CHOOSE n \in Node : TRUE) \in Node
  BY ConstantsAssumption
<1>4. InitialProc \in [Node -> Proc] /\ 1 \in Boot
  BY ConstantsAssumption DEF Boot
<1>5. "idle" \in Steps /\ "none" \in PollStates
  BY DEF Steps, PollStates
<1>6. <<>> \in Seq(Cohort)
  OBVIOUS
<1> QED BY <1>1, <1>2, <1>3, <1>4, <1>5, <1>6 DEF Init, TypeOK

LEMMA EnvironmentTypeOK == TypeOK /\ Environment => TypeOK'
<1> SUFFICES ASSUME TypeOK, Environment PROVE TypeOK'
  OBVIOUS
<1> USE DEF TypeOK, Fault, tickVars, ackVars, userVars, nodeVars, pastVars
<1>1. ASSUME NEW q \in Proc, NEW c \in Chunk, Traffic(q, c) PROVE TypeOK'
  BY <1>1 DEF Traffic
<1>2. ASSUME NEW q \in Proc, NEW saved \in BOOLEAN, Restart(q, saved) PROVE TypeOK'
  <2>1. NoBatch \in StatBatch /\ heldBatch[q].data \in SUBSET Chunk
    BY DEF NoBatch, StatBatch
  <2>2. boot' \in [Proc -> Boot]
    BY <1>2, ConstantsAssumption DEF Restart, Boot
  <2>3. heldBatch' \in [Proc -> StatBatch] /\ lost' \in SUBSET Chunk
    BY <1>2, <2>1 DEF Restart
  <2>4. seq' \in [Proc -> Nat] /\ faults' \in Nat
    BY <1>2 DEF Restart
  <2> QED BY <1>2, <2>2, <2>3, <2>4 DEF Restart
<1>3. ASSUME NEW u \in User, ResetUsage(u) PROVE TypeOK'
  BY <1>3 DEF ResetUsage
<1>4. ASSUME NEW u \in User, DeleteUser(u) PROVE TypeOK'
  BY <1>4 DEF DeleteUser
<1>5. ASSUME NEW n \in Node, NEW q \in Proc, EditNode(n, q) PROVE TypeOK'
  BY <1>5 DEF EditNode
<1> QED BY <1>1, <1>2, <1>3, <1>4, <1>5 DEF Environment

LEMMA TickStepTypeOK == ASSUME TypeOK, NEW p \in Panel, TickStep(p) PROVE TypeOK'
<1> USE DEF TypeOK, tickVars, ackVars, userVars, nodeVars, pastVars
<1>1. ASSUME NEW healthy \in SUBSET Node, TickStart(p, healthy) PROVE TypeOK'
  BY <1>1 DEF TickStart, Steps, PollStates
<1>2. ASSUME TakeRetained(p) PROVE TypeOK'
  <2>1. Head(retained[p]) \in Cohort /\ Tail(retained[p]) \in Seq(Cohort)
    BY <1>2 DEF TakeRetained
  <2>2. cohort' \in [Panel -> Cohort] /\ retained' \in [Panel -> Seq(Cohort)]
    BY <1>2, <2>1 DEF TakeRetained
  <2>3. pc' \in [Panel -> Steps]
    BY <1>2 DEF TakeRetained, Steps
  <2> QED BY <1>2, <2>2, <2>3 DEF TakeRetained
<1>3. ASSUME LoadAcks(p) PROVE TypeOK'
  <2>1. EmptyAck \in Ack /\ \A n \in Node : AckFor(p, n) \in Ack
    BY AckForType DEF EmptyAck, Ack
  <2>2. acks' \in [Panel -> [Node -> Ack]]
    BY <1>3, <2>1 DEF LoadAcks
  <2>3. claim' \in SUBSET Node /\ empties' \in [Node -> Nat] /\ pc' \in [Panel -> Steps]
    BY <1>3 DEF LoadAcks, Steps
  <2> QED BY <1>3, <2>2, <2>3 DEF LoadAcks
<1>4. ASSUME TakeCohort(p) PROVE TypeOK'
  <2>1. NoBatch \in StatBatch
    BY DEF NoBatch, StatBatch
  <2>2. cohort' \in [Panel -> Cohort]
    BY <1>4, <2>1 DEF TakeCohort, Cohort
  <2>3. answer' \in [Panel -> [Node -> StatBatch]]
    BY <1>4, <2>1 DEF TakeCohort
  <2>4. poll' \in [Panel -> [Node -> PollStates]] /\ pc' \in [Panel -> Steps]
    BY <1>4 DEF TakeCohort, PollStates, Steps
  <2> QED BY <1>4, <2>2, <2>3, <2>4 DEF TakeCohort
<1>5. ASSUME NEW n \in Node, PollSend(p, n) PROVE TypeOK'
  BY <1>5 DEF PollSend, PollStates
<1>6. ASSUME NEW n \in Node, PollServed(p, n) PROVE TypeOK'
  <2>1. procOf[n] \in Proc /\ acks[p][n] \in Ack
    OBVIOUS
  <2>2. /\ counters' \in [Proc -> SUBSET Chunk] /\ seq' \in [Proc -> Nat]
        /\ heldBatch' \in [Proc -> StatBatch] /\ drainedAt' \in [Chunk -> Nat]
        /\ procOf' = procOf /\ boot' = boot
    BY <1>6, <2>1, NodeServesType DEF PollServed
  <2>3. Response(procOf[n], acks[p][n]) \in StatBatch
    BY <2>1, ResponseType
  <2>4. answer' \in [Panel -> [Node -> StatBatch]]
    BY <1>6, <2>3 DEF PollServed
  <2>5. poll' \in [Panel -> [Node -> PollStates]]
    BY <1>6 DEF PollServed, PollStates
  <2> QED BY <1>6, <2>2, <2>4, <2>5 DEF PollServed
<1>7. ASSUME NEW n \in Node, PollAnswered(p, n) PROVE TypeOK'
  <2>1. answer[p][n].epoch \in Epoch \cup {NoEpoch}
    BY DEF StatBatch
  <2>2. epochByNode' \in [Panel -> [Node -> Epoch \cup {NoEpoch}]]
    BY <1>7, <2>1 DEF PollAnswered
  <2>3. poll' \in [Panel -> [Node -> PollStates]]
    BY <1>7 DEF PollAnswered, PollStates
  <2> QED BY <1>7, <2>2, <2>3 DEF PollAnswered
<1>8. ASSUME PersistStale(p) PROVE TypeOK'
  <2> DEFINE co == cohort[p]
             stale == StaleNodes(co)
             params == [n \in Node |-> IF n \in stale THEN [co.params[n] EXCEPT !.data = {}]
                                       ELSE co.params[n]]
  <2>1. co \in Cohort /\ stale \in SUBSET Node /\ co.ackOnly \in SUBSET Node
    BY DEF StaleNodes, Live, Cohort
  <2>2. params \in [Node -> StatBatch]
    <3>1. ASSUME NEW n \in Node PROVE params[n] \in StatBatch
      <4>1. co.params[n] \in StatBatch
        BY <2>1 DEF Cohort
      <4>2. [co.params[n] EXCEPT !.data = {}] \in StatBatch
        BY <4>1 DEF StatBatch
      <4> HIDE DEF stale, co
      <4> QED BY <4>1, <4>2
    <3> QED BY <3>1
  <2>3. [co EXCEPT !.ackOnly = @ \cup stale, !.params = params] \in Cohort
    <3> HIDE DEF params, stale
    <3> QED BY <2>1, <2>2 DEF Cohort
  <2>4. cohort' = [cohort EXCEPT ![p] = [co EXCEPT !.ackOnly = @ \cup stale, !.params = params]]
    BY <1>8 DEF PersistStale
  <2>5. cohort' \in [Panel -> Cohort]
    <3> HIDE DEF params, stale
    <3> QED BY <2>3, <2>4
  <2> QED BY <1>8, <2>5 DEF PersistStale
<1>9. ASSUME PersistCommit(p) PROVE TypeOK'
  <2>1. cohort[p] \in Cohort
    OBVIOUS
  <2>2. /\ row' \in [Epoch -> Nat] /\ rowNode' \in [Epoch -> Node] /\ claim' \in SUBSET Node
        /\ bills' \in [Chunk -> Nat] /\ dropped' \in SUBSET Chunk
    BY <1>9, <2>1, WriteType DEF PersistCommit
  <2>3. pc' \in [Panel -> Steps] /\ cohort' \in [Panel -> Cohort] /\ failures' \in [Panel -> Nat]
    BY <1>9, NoCohortType DEF PersistCommit, Steps
  <2> QED BY <1>9, <2>2, <2>3 DEF PersistCommit
<1>10. ASSUME TickEnd(p) PROVE TypeOK'
  BY <1>10 DEF TickEnd, PollStates, Steps
<1>11. ASSUME SettleCollection(p) PROVE TypeOK'
  <2> DEFINE legacy == LegacyNodes(answer[p], {n \in Node : poll[p][n] = "ok"})
             kept == KeptCohort(answer[p], legacy, epochAtPoll[p], 0)
  <2>1. kept \in Cohort
    <3>1. legacy \in SUBSET Node
      BY DEF LegacyNodes
    <3> QED BY <3>1, KeptCohortType
  <2>2. retained' \in [Panel -> Seq(Cohort)]
    <3>1. retained' = retained \/ retained' = [retained EXCEPT ![p] = Append(@, kept)]
      BY <1>11 DEF SettleCollection
    <3>2. Append(retained[p], kept) \in Seq(Cohort)
      BY <2>1
    <3> HIDE DEF kept
    <3> QED BY <3>1, <3>2
  <2>3. answer' \in [Panel -> [Node -> StatBatch]]
    BY <1>11 DEF SettleCollection, NoBatch, StatBatch
  <2>4. pc' \in [Panel -> Steps] /\ poll' \in [Panel -> [Node -> PollStates]]
    BY <1>11 DEF SettleCollection, Steps, PollStates
  <2> QED BY <1>11, <2>2, <2>3, <2>4 DEF SettleCollection
<1> QED BY <1>1, <1>2, <1>3, <1>4, <1>5, <1>6, <1>7, <1>8, <1>9, <1>10, <1>11 DEF TickStep

LEMMA TickFaultTypeOK == ASSUME TypeOK, NEW p \in Panel, TickFault(p) PROVE TypeOK'
<1> USE DEF TypeOK, Fault, tickVars, ackVars, userVars, nodeVars, pastVars
<1>1. ASSUME LoadAcksFails(p) PROVE TypeOK'
  <2>1. pc' \in [Panel -> Steps] /\ poll' \in [Panel -> [Node -> PollStates]] /\ faults' \in Nat
    BY <1>1 DEF LoadAcksFails, Steps, PollStates
  <2> QED BY <1>1, <2>1 DEF LoadAcksFails
<1>2. ASSUME NEW n \in Node, PollAnswerLost(p, n) PROVE TypeOK'
  <2>1. answer' \in [Panel -> [Node -> StatBatch]]
    BY <1>2 DEF PollAnswerLost, NoBatch, StatBatch
  <2>2. lost' \in SUBSET Chunk
    <3>1. LegacyNodes(answer[p], {n}) \in SUBSET Node /\ answer[p] \in [Node -> StatBatch]
      BY DEF LegacyNodes
    <3>2. DataOf(answer[p], LegacyNodes(answer[p], {n})) \in SUBSET Chunk
      BY <3>1, DataOfType
    <3> QED BY <1>2, <3>2 DEF PollAnswerLost
  <2>3. poll' \in [Panel -> [Node -> PollStates]] /\ faults' \in Nat
    BY <1>2 DEF PollAnswerLost, PollStates
  <2> QED BY <1>2, <2>1, <2>2, <2>3 DEF PollAnswerLost
<1>3. ASSUME NEW n \in Node, PollRequestLost(p, n) PROVE TypeOK'
  BY <1>3 DEF PollRequestLost, PollStates
<1>4. ASSUME NEW b \in BOOLEAN, PersistFails(p, b) PROVE TypeOK'
  <2>1. retained' \in [Panel -> Seq(Cohort)] /\ lost' \in SUBSET Chunk
    BY <1>4, KeepOrAbandonType DEF PersistFails
  <2>2. /\ pc' \in [Panel -> Steps] /\ poll' \in [Panel -> [Node -> PollStates]]
        /\ failures' \in [Panel -> Nat] /\ cohort' \in [Panel -> Cohort]
    BY <1>4, AfterFailureType DEF PersistFails
  <2> QED BY <1>4, <2>1, <2>2 DEF PersistFails
<1>5. ASSUME NEW b \in BOOLEAN, PersistInDoubt(p, b) PROVE TypeOK'
  <2>1. retained' \in [Panel -> Seq(Cohort)] /\ lost' \in SUBSET Chunk
    BY <1>5, KeepOrAbandonType DEF PersistInDoubt
  <2>2. /\ pc' \in [Panel -> Steps] /\ poll' \in [Panel -> [Node -> PollStates]]
        /\ failures' \in [Panel -> Nat] /\ cohort' \in [Panel -> Cohort]
    BY <1>5, AfterFailureType DEF PersistInDoubt
  <2>3. /\ row' \in [Epoch -> Nat] /\ rowNode' \in [Epoch -> Node] /\ claim' \in SUBSET Node
        /\ bills' \in [Chunk -> Nat] /\ dropped' \in SUBSET Chunk
    <3>1. CASE Write(cohort[p])
      BY <3>1, WriteType
    <3>2. CASE UNCHANGED <<ackVars, bills, dropped>>
      BY <3>2
    <3> QED BY <1>5, <3>1, <3>2 DEF PersistInDoubt
  <2>4. /\ UNCHANGED <<nodeVars, userVars, epochAtPoll, acks, answer, epochByNode, born, drainedAt, empties, edited>>
        /\ faults' \in Nat
    BY <1>5 DEF PersistInDoubt
  <2> QED BY <2>1, <2>2, <2>3, <2>4
<1>6. ASSUME Crash(p) PROVE TypeOK'
  <2>1. NoBatch \in StatBatch /\ EmptyAck \in Ack /\ NoCohort \in Cohort
    BY NoCohortType DEF NoBatch, StatBatch, EmptyAck, Ack
  <2>2. lost' \in SUBSET Chunk
    BY <1>6, InMemoryType DEF Crash
  <2>3. /\ answer' \in [Panel -> [Node -> StatBatch]] /\ acks' \in [Panel -> [Node -> Ack]]
        /\ cohort' \in [Panel -> Cohort] /\ retained' \in [Panel -> Seq(Cohort)]
    BY <1>6, <2>1 DEF Crash
  <2>4. /\ pc' \in [Panel -> Steps] /\ poll' \in [Panel -> [Node -> PollStates]]
        /\ epochAtPoll' \in [Panel -> [User -> Nat]] /\ failures' \in [Panel -> Nat]
        /\ epochByNode' \in [Panel -> [Node -> Epoch \cup {NoEpoch}]] /\ faults' \in Nat
    BY <1>6 DEF Crash, Steps, PollStates
  <2> QED BY <1>6, <2>2, <2>3, <2>4 DEF Crash
<1> QED BY <1>1, <1>2, <1>3, <1>4, <1>5, <1>6 DEF TickFault

LEMMA NextTypeOK == TypeOK /\ [Next]_vars => TypeOK'
<1>1. TypeOK /\ Next => TypeOK'
  BY EnvironmentTypeOK, TickStepTypeOK, TickFaultTypeOK DEF Next
<1>2. TypeOK /\ UNCHANGED vars => TypeOK'
  BY DEF TypeOK, vars, tickVars, ackVars, userVars, nodeVars, pastVars
<1> QED BY <1>1, <1>2

\* Every variable keeps its type, so that acknowledgements, batches and
\* cohorts are always well formed, for any number of recorders and nodes.
THEOREM TypeCorrect == Spec => []TypeOK
BY InitTypeOK, NextTypeOK, PTL DEF Spec

----------------------------------------------------------------------------
(* One acknowledgement row per node id *)

\* The transaction leaves at most one row for a node id it settles, and leaves
\* the rows of the other ids or takes some of them over.
LEMMA WriteOneRow ==
  ASSUME TypeOK, OneRowPerNode, NEW co \in Cohort, Write(co)
  PROVE  OneRowPerNode'
<1> DEFINE after(n) == {e \in Epoch : SettledRow(co, e) > 0 /\ SettledNode(co, e) = n}
<1>1. \A n : RowsOf(n)' = after(n)
  BY DEF RowsOf, Write
<1>2. ASSUME NEW n \in Node, NEW e \in after(n)
      PROVE  IF n \in Live(co) THEN e = co.params[n].epoch ELSE e \in RowsOf(n)
  <2>1. SettledRow(co, e) > 0 /\ SettledNode(co, e) = n /\ e \in Epoch
    OBVIOUS
  <2>2. CASE Reporters(co, e) # {}
    <3>1. n \in Reporters(co, e)
      BY <2>1, <2>2, SettledNodeValue
    <3> QED BY <3>1 DEF Reporters
  <2>3. CASE Reporters(co, e) = {}
    <3>1. rowNode[e] = n
      BY <2>1, <2>3, SettledNodeValue
    <3>2. SettledRow(co, e) = row[e]
      BY <2>1, <2>3, SettledRowValue
    <3>3. n \notin Live(co)
      BY <2>1, <2>3, <3>1, <3>2 DEF SettledRow
    <3> QED BY <2>1, <3>1, <3>2, <3>3 DEF RowsOf
  <2> QED BY <2>2, <2>3
<1>3. ASSUME NEW n \in Node, NEW d \in after(n), NEW e \in after(n) PROVE d = e
  <2>1. CASE n \in Live(co)
    BY <1>2, <2>1
  <2>2. CASE n \notin Live(co)
    BY <1>2, <2>2 DEF OneRowPerNode
  <2> QED BY <2>1, <2>2
<1>4. ASSUME NEW n \in Node, n \in claim' PROVE after(n) = {}
  <2>1. n \in claim /\ n \notin Live(co)
    BY <1>4 DEF Write
  <2>2. RowsOf(n) = {}
    BY <2>1 DEF OneRowPerNode
  <2> HIDE DEF after
  <2> QED BY <1>2, <2>1, <2>2
<1> HIDE DEF after
<1> QED BY <1>1, <1>3, <1>4 DEF OneRowPerNode

\* A node is claimed only if it has no row.
LEMMA ClaimOneRow ==
  ASSUME TypeOK, OneRowPerNode, NEW p \in Panel, LoadAcks(p)
  PROVE  OneRowPerNode'
<1>1. \A n : RowsOf(n)' = RowsOf(n)
  BY DEF LoadAcks, RowsOf
<1>2. ASSUME NEW n \in Node, AckFor(p, n) = EmptyAck PROVE RowsOf(n) = {}
  <2>1. epochByNode[p][n] = NoEpoch
    BY <1>2 DEF AckFor, EmptyAck
  <2>2. SUFFICES ASSUME RowsOf(n) # {} PROVE FALSE
    OBVIOUS
  <2> DEFINE e == CHOOSE e \in RowsOf(n) : TRUE
  <2>3. e \in RowsOf(n)
    BY <2>2
  <2>4. AckFor(p, n) = [epoch |-> e, id |-> row[e]]
    BY <2>1, <2>2 DEF AckFor
  <2>5. row[e] > 0 /\ row[e] \in Nat
    BY <2>3 DEF RowsOf, TypeOK
  <2>6. AckFor(p, n).id = 0
    BY <1>2 DEF EmptyAck
  <2> HIDE DEF e
  <2> QED BY <2>4, <2>5, <2>6
<1>3. ASSUME NEW n \in Node, n \in claim' PROVE RowsOf(n) = {}
  <2>1. n \in claim \/ AckFor(p, n) = EmptyAck
    BY <1>3 DEF LoadAcks
  <2> QED BY <1>2, <2>1 DEF OneRowPerNode
<1> QED BY <1>1, <1>3 DEF OneRowPerNode

LEMMA KeepOneRow == OneRowPerNode /\ UNCHANGED ackVars => OneRowPerNode'
BY DEF OneRowPerNode, RowsOf, ackVars

LEMMA NextOneRow == TypeOK /\ OneRowPerNode /\ [Next]_vars => OneRowPerNode'
<1> SUFFICES ASSUME TypeOK, OneRowPerNode, [Next]_vars PROVE OneRowPerNode'
  OBVIOUS
<1>1. ASSUME Environment PROVE UNCHANGED ackVars
  BY <1>1 DEF Environment, Traffic, Restart, ResetUsage, DeleteUser, EditNode
<1>2. ASSUME NEW p \in Panel, TickStep(p), ~LoadAcks(p), ~PersistCommit(p) PROVE UNCHANGED ackVars
  BY <1>2 DEF TickStep, TickStart, TakeRetained, TakeCohort, PollSend, PollServed, PollAnswered,
              PersistStale, TickEnd, SettleCollection
<1>3. ASSUME NEW p \in Panel, TickFault(p) PROVE OneRowPerNode'
  <2>1. CASE \E b \in BOOLEAN : PersistInDoubt(p, b)
    <3>1. Write(cohort[p]) \/ UNCHANGED ackVars
      BY <2>1 DEF PersistInDoubt
    <3>2. cohort[p] \in Cohort
      BY DEF TypeOK
    <3> QED BY <3>1, <3>2, WriteOneRow, KeepOneRow
  <2>2. CASE ~ \E b \in BOOLEAN : PersistInDoubt(p, b)
    <3>1. UNCHANGED ackVars
      BY <1>3, <2>2 DEF TickFault, LoadAcksFails, PollAnswerLost, PollRequestLost, PersistFails, Crash
    <3> QED BY <3>1, KeepOneRow
  <2> QED BY <2>1, <2>2
<1>4. ASSUME NEW p \in Panel, PersistCommit(p) PROVE OneRowPerNode'
  <2>1. cohort[p] \in Cohort /\ Write(cohort[p])
    BY <1>4 DEF PersistCommit, TypeOK
  <2> QED BY <2>1, WriteOneRow
<1>5. UNCHANGED vars => UNCHANGED ackVars
  BY DEF vars
<1> QED BY <1>1, <1>2, <1>3, <1>4, <1>5, ClaimOneRow, KeepOneRow DEF Next

\* load_acks takes "the latest row" of a node for the batch it settled last.
\* There never is a second row to choose from, nor a row beside a claim, even
\* when recorders overlap, ids share a process or addresses are edited.
THEOREM OneRow == Spec => []OneRowPerNode
<1>1. Init => OneRowPerNode
  BY DEF Init, OneRowPerNode, RowsOf
<1> QED BY <1>1, TypeCorrect, NextOneRow, PTL DEF Spec

----------------------------------------------------------------------------
(* What is assumed of an installation, and what an edit ends *)

\* Every node id reaches, at first, a process of its own.
Separate == \A m, n \in Node : InitialProc[m] = InitialProc[n] => m = n

\* That an address was edited is not forgotten.
LEMMA EditedStays == edited # {} /\ [Next]_vars => edited' # {}
<1> SUFFICES ASSUME edited # {}, [Next]_vars PROVE edited' # {}
  OBVIOUS
<1>1. CASE UNCHANGED vars
  BY <1>1 DEF vars, pastVars
<1>2. CASE Environment
  BY <1>2 DEF Environment, Traffic, Restart, ResetUsage, DeleteUser, EditNode, pastVars
<1>3. ASSUME NEW p \in Panel, TickStep(p) PROVE edited' # {}
  BY <1>3 DEF TickStep, TickStart, TakeRetained, LoadAcks, TakeCohort, PollSend, PollServed, PollAnswered,
              PersistStale, PersistCommit, TickEnd, SettleCollection, pastVars
<1>4. ASSUME NEW p \in Panel, TickFault(p) PROVE edited' # {}
  BY <1>4 DEF TickFault, LoadAcksFails, PollAnswerLost, PollRequestLost, PersistFails, PersistInDoubt,
              Crash, pastVars
<1> QED BY <1>1, <1>2, <1>3, <1>4 DEF Next

\* Where no address may be edited, none was.
LEMMA NeverEdited == ASSUME "edit" \notin Faults PROVE Spec => [](edited = {})
<1>1. Init => edited = {}
  BY DEF Init
<1>2. edited = {} /\ [Next]_vars => (edited = {})'
  <2> SUFFICES ASSUME edited = {}, [Next]_vars PROVE edited' = {}
    OBVIOUS
  <2>1. CASE UNCHANGED vars
    BY <2>1 DEF vars, pastVars
  <2>2. CASE Environment
    BY <2>2 DEF Environment, Traffic, Restart, ResetUsage, DeleteUser, EditNode, Fault, pastVars
  <2>3. ASSUME NEW p \in Panel, TickStep(p) PROVE edited' = {}
    BY <2>3 DEF TickStep, TickStart, TakeRetained, LoadAcks, TakeCohort, PollSend, PollServed, PollAnswered,
                PersistStale, PersistCommit, TickEnd, SettleCollection, pastVars
  <2>4. ASSUME NEW p \in Panel, TickFault(p) PROVE edited' = {}
    BY <2>4 DEF TickFault, LoadAcksFails, PollAnswerLost, PollRequestLost, PersistFails, PersistInDoubt,
                Crash, pastVars
  <2> QED BY <2>1, <2>2, <2>3, <2>4 DEF Next
<1> QED BY <1>1, <1>2, PTL DEF Spec

----------------------------------------------------------------------------
(* Lists of kept cohorts *)

\* A cohort put in front of the list.
LEMMA SeqFront ==
  ASSUME NEW S, NEW s \in Seq(S), NEW x \in S
  PROVE  /\ <<x>> \o s \in Seq(S)
         /\ \A i \in DOMAIN (<<x>> \o s) :
              \/ i = 1 /\ (<<x>> \o s)[i] = x
              \/ i - 1 \in DOMAIN s /\ (<<x>> \o s)[i] = s[i - 1]
<1>1. <<x>> \in Seq(S) /\ Len(<<x>>) = 1 /\ <<x>>[1] = x
  OBVIOUS
<1>2. Len(s) \in Nat /\ DOMAIN s = 1..Len(s)
  OBVIOUS
<1>3. /\ <<x>> \o s \in Seq(S) /\ Len(<<x>> \o s) = 1 + Len(s)
      /\ \A i \in 1..(1 + Len(s)) : (<<x>> \o s)[i] = IF i <= 1 THEN <<x>>[i] ELSE s[i - 1]
  BY <1>1, <1>2, ConcatProperties
<1>4. DOMAIN (<<x>> \o s) = 1..(1 + Len(s))
  BY <1>3
<1> QED BY <1>1, <1>2, <1>3, <1>4

\* A cohort put at its end.
LEMMA SeqBack ==
  ASSUME NEW S, NEW s \in Seq(S), NEW x \in S
  PROVE  /\ Append(s, x) \in Seq(S)
         /\ \A i \in DOMAIN Append(s, x) :
              \/ i = Len(s) + 1 /\ Append(s, x)[i] = x
              \/ i \in DOMAIN s /\ Append(s, x)[i] = s[i]
<1>1. Len(s) \in Nat /\ DOMAIN s = 1..Len(s)
  OBVIOUS
<1> QED BY <1>1, AppendProperties

\* The list without its first cohort.
LEMMA SeqTail ==
  ASSUME NEW S, NEW s \in Seq(S), s # <<>>
  PROVE  /\ Tail(s) \in Seq(S)
         /\ Head(s) = s[1] /\ 1 \in DOMAIN s
         /\ \A i \in DOMAIN Tail(s) : i \in Nat /\ i > 0 /\ i + 1 \in DOMAIN s /\ Tail(s)[i] = s[i + 1]
<1>1. Len(s) \in Nat /\ DOMAIN s = 1..Len(s) /\ Len(s) # 0
  BY EmptySeq
<1>2. Tail(s) \in Seq(S) /\ Len(Tail(s)) = Len(s) - 1 /\ \A i \in 1..(Len(s) - 1) : Tail(s)[i] = s[i + 1]
  BY HeadTailProperties
<1>3. DOMAIN Tail(s) = 1..(Len(s) - 1)
  BY <1>1, <1>2
<1>4. Head(s) = s[1]
  OBVIOUS
<1> QED BY <1>1, <1>2, <1>3, <1>4

----------------------------------------------------------------------------
(* Where batches come from *)

\* A batch of process q: its epoch is one of q's and its traffic was counted
\* there; only a legacy process answers with traffic and no epoch.
IsOf(b, q, bo) ==
  /\ b.epoch # NoEpoch => q \notin LegacyProc /\ b.epoch[1] = q /\ (b.id = 0 => b.data = {})
  /\ b.epoch = NoEpoch => b.id = 0 /\ (b.data # {} => q \in LegacyProc)
  /\ \A c \in b.data : bo[c] = {q}

\* Every batch on its way belongs to the process of the node id it is filed
\* under, and so does every acknowledgement row.
Origin ==
  /\ procOf = InitialProc
  /\ \A q \in Proc : \A c \in counters[q] : born[c] = {q}
  /\ \A q \in Proc : IsOf(heldBatch[q], q, born) /\ (heldBatch[q].id = 0 => heldBatch[q] = NoBatch)
  /\ \A p \in Panel, n \in Node : IsOf(answer[p][n], InitialProc[n], born)
  /\ \A p \in Panel, n \in Node : IsOf(cohort[p].params[n], InitialProc[n], born)
  /\ \A p \in Panel : \A i \in DOMAIN retained[p] : \A n \in Node :
       IsOf(retained[p][i].params[n], InitialProc[n], born)
  /\ \A e \in Epoch : row[e] > 0 => e[1] = InitialProc[rowNode[e]]

originVars == <<procOf, counters, heldBatch, answer, cohort, retained, born, row, rowNode>>

\* The empty batch belongs to every process.
LEMMA NoBatchIsOf == ASSUME NEW q, NEW bo PROVE IsOf(NoBatch, q, bo)
BY DEF IsOf, NoBatch

\* A batch keeps its process when other traffic is counted.
LEMMA IsOfGrows ==
  ASSUME NEW b \in StatBatch, NEW q, NEW bo, NEW bn, IsOf(b, q, bo),
         \A c \in Chunk : bo[c] # {} => bn[c] = bo[c]
  PROVE  IsOf(b, q, bn)
<1>1. \A c \in b.data : c \in Chunk /\ bo[c] # {}
  BY DEF IsOf, StatBatch
<1> QED BY <1>1 DEF IsOf

\* The four ways a process answers a request.
Resent(q, resp) ==
  /\ q \notin LegacyProc
  /\ resp = heldBatch[q] /\ heldBatch[q].id > 0
  /\ UNCHANGED <<counters, heldBatch, seq>>

Forgets(q, resp) ==
  /\ q \in LegacyProc
  /\ resp = [epoch |-> NoEpoch, id |-> 0, data |-> counters[q]]
  /\ counters' = [counters EXCEPT ![q] = {}]
  /\ UNCHANGED <<heldBatch, seq>>

Idles(q, resp) ==
  /\ q \notin LegacyProc
  /\ resp = [epoch |-> <<q, boot[q]>>, id |-> 0, data |-> {}]
  /\ counters[q] = {}
  /\ heldBatch' = [heldBatch EXCEPT ![q] = NoBatch]
  /\ UNCHANGED <<counters, seq>>

Drained(q, resp) ==
  /\ q \notin LegacyProc
  /\ resp = [epoch |-> <<q, boot[q]>>, id |-> seq[q] + 1, data |-> counters[q]]
  /\ counters' = [counters EXCEPT ![q] = {}]
  /\ heldBatch' = [heldBatch EXCEPT ![q] = resp]
  /\ seq' = [seq EXCEPT ![q] = seq[q] + 1]

\* A process answers in one of them.
LEMMA ServeCases ==
  ASSUME TypeOK, NEW q \in Proc, NEW ack \in Ack, NodeServes(q, ack),
         heldBatch[q].id = 0 => heldBatch[q] = NoBatch
  PROVE  LET resp == Response(q, ack)
         IN  /\ resp \in StatBatch
             /\ \/ Resent(q, resp)
                \/ Forgets(q, resp)
                \/ (Idles(q, resp) \/ Drained(q, resp)) /\ (AckDrops(q, ack) \/ heldBatch[q] = NoBatch)
<1> DEFINE resp == Response(q, ack)
<1>1. /\ counters \in [Proc -> SUBSET Chunk] /\ heldBatch \in [Proc -> StatBatch]
      /\ seq \in [Proc -> Nat]
  BY DEF TypeOK
<1>2. resp \in StatBatch
  BY ResponseType
<1>3. CASE q \in LegacyProc
  BY <1>1, <1>2, <1>3 DEF NodeServes, Response, Drains, Forgets
<1>4. CASE q \notin LegacyProc /\ ~Drains(q, ack)
  <2>1. resp = heldBatch[q] /\ heldBatch[q].id # 0
    BY <1>4 DEF Response, Drains, KeptBatch, NoBatch
  <2>2. heldBatch[q].id > 0
    BY <2>1, <1>1 DEF StatBatch
  <2> QED BY <1>1, <1>2, <1>4, <2>1, <2>2 DEF NodeServes, Resent
<1>5. CASE q \notin LegacyProc /\ Drains(q, ack)
  <2>1. AckDrops(q, ack) \/ heldBatch[q] = NoBatch
    BY <1>5 DEF Drains, KeptBatch
  <2>2. CASE counters[q] = {}
    <3>1. resp = [epoch |-> <<q, boot[q]>>, id |-> 0, data |-> {}]
      BY <1>5, <2>2 DEF Response
    <3>2. ~(resp.id > 0)
      BY <3>1
    <3>3. counters' = counters
      BY <1>1, <1>5, <2>2 DEF NodeServes
    <3> QED BY <1>2, <1>5, <2>1, <2>2, <3>1, <3>2, <3>3 DEF NodeServes, Idles
  <2>3. CASE counters[q] # {}
    <3>1. resp = [epoch |-> <<q, boot[q]>>, id |-> seq[q] + 1, data |-> counters[q]]
      BY <1>5, <2>3 DEF Response
    <3>2. resp.id = seq[q] + 1 /\ resp.id > 0
      BY <3>1, <1>1
    <3> QED BY <1>2, <1>5, <2>1, <3>1, <3>2 DEF NodeServes, Drained
  <2> QED BY <2>2, <2>3
<1> QED BY <1>3, <1>4, <1>5

\* What any answer belongs to.
LEMMA ServeOrigin ==
  ASSUME TypeOK, Origin, NEW q \in Proc, NEW ack \in Ack, NodeServes(q, ack)
  PROVE  /\ IsOf(Response(q, ack), q, born)
         /\ \A r \in Proc : r # q => counters'[r] = counters[r] /\ heldBatch'[r] = heldBatch[r] /\ seq'[r] = seq[r]
         /\ counters'[q] \subseteq counters[q]
         /\ IsOf(heldBatch'[q], q, born) /\ (heldBatch'[q].id = 0 => heldBatch'[q] = NoBatch)
<1> DEFINE resp == Response(q, ack)
<1>1. /\ counters \in [Proc -> SUBSET Chunk] /\ heldBatch \in [Proc -> StatBatch]
      /\ seq \in [Proc -> Nat] /\ <<q, boot[q]>> \in Epoch
      /\ IsOf(heldBatch[q], q, born) /\ (heldBatch[q].id = 0 => heldBatch[q] = NoBatch)
      /\ \A c \in counters[q] : born[c] = {q}
  BY DEF TypeOK, Epoch, Origin
<1>2. <<q, boot[q]>> # NoEpoch
  BY <1>1, ConstantsAssumption
<1>3. CASE Resent(q, resp)
  BY <1>1, <1>3 DEF Resent
<1>4. CASE Forgets(q, resp)
  BY <1>1, <1>4 DEF Forgets, IsOf
<1>5. CASE Idles(q, resp)
  BY <1>1, <1>2, <1>5, NoBatchIsOf DEF Idles, IsOf
<1>6. CASE Drained(q, resp)
  BY <1>1, <1>2, <1>6 DEF Drained, IsOf
<1> QED BY <1>1, <1>3, <1>4, <1>5, <1>6, ServeCases

\* The largest of one number.
LEMMA LargestOfOne == ASSUME NEW k \in Nat PROVE Largest({k}) = k
<1>1. IsFiniteSet({k}) /\ {k} \subseteq Nat /\ {k} # {}
  BY FS_Singleton
<1>2. Largest({k}) \in {k}
  BY <1>1, LargestIn
<1> QED BY <1>2

\* The larger of two.
LEMMA LargestOfTwo ==
  ASSUME NEW j \in Nat, NEW k \in Nat PROVE Largest({j} \cup {k}) = IF j <= k THEN k ELSE j
<1> DEFINE two == {j} \cup {k}
           big == Largest(two)
<1>1. IsFiniteSet(two) /\ two \subseteq Nat /\ two # {}
  BY FS_Singleton, FS_AddElement
<1>2. big \in two /\ \A i \in two : i <= big
  BY <1>1, LargestIn
<1> HIDE DEF big
<1>3. (big = j \/ big = k) /\ j <= big /\ k <= big
  BY <1>2
<1> QED BY <1>3 DEF big

\* The rows of the process of n are changed by the transaction only if the
\* cohort holds a batch of n, and then only the row of that batch stays.
LEMMA RowsAfterWrite ==
  ASSUME Separate, TypeOK, Origin, NEW co \in Cohort, NEW n \in Node, NEW e \in Epoch,
         e[1] = InitialProc[n],
         \A m \in Node : IsOf(co.params[m], InitialProc[m], born)
  PROVE  /\ n \notin Live(co) =>
              SettledRow(co, e) = row[e] /\ SettledNode(co, e) = rowNode[e]
         /\ n \in Live(co) /\ co.params[n].epoch = e =>
              /\ SettledRow(co, e) = IF row[e] <= co.params[n].id THEN co.params[n].id ELSE row[e]
              /\ SettledNode(co, e) = n
         /\ n \in Live(co) /\ co.params[n].epoch # e => SettledRow(co, e) = 0
<1>1. /\ row[e] \in Nat /\ rowNode[e] \in Node /\ Live(co) \subseteq Node
      /\ row[e] > 0 => rowNode[e] = n
      /\ \A m \in Node : co.params[m].id \in Nat
  <2>1. Live(co) \subseteq Node
    BY ReportersType
  <2>2. \A m \in Node : co.params[m].id \in Nat
    BY DEF Cohort, StatBatch
  <2>3. row[e] \in Nat /\ rowNode[e] \in Node
    BY DEF TypeOK
  <2>4. row[e] > 0 => InitialProc[rowNode[e]] = InitialProc[n]
    BY DEF Origin
  <2> QED BY <2>1, <2>2, <2>3, <2>4 DEF Separate
<1>2. \A m \in Reporters(co, e) : m = n /\ n \in Live(co) /\ co.params[n].epoch = e
  <2>1. SUFFICES ASSUME NEW m \in Reporters(co, e)
                 PROVE  m = n /\ n \in Live(co) /\ co.params[n].epoch = e
    OBVIOUS
  <2>2. m \in Live(co) /\ m \in Node /\ co.params[m].epoch = e /\ e # NoEpoch
    BY <1>1, ConstantsAssumption DEF Reporters
  <2>3. InitialProc[m] = InitialProc[n]
    BY <2>2 DEF IsOf
  <2>4. m = n
    BY <2>2, <2>3 DEF Separate
  <2> QED BY <2>2, <2>4
<1>3. CASE n \notin Live(co)
  <2>1. Reporters(co, e) = {}
    BY <1>2, <1>3
  <2>2. ~(row[e] > 0 /\ rowNode[e] \in Live(co))
    BY <1>1, <1>3
  <2>3. SettledRow(co, e) = Largest({row[e]})
    BY <2>1, <2>2 DEF SettledRow
  <2>4. Largest({row[e]}) = row[e]
    BY <1>1, LargestOfOne
  <2> QED BY <1>3, <2>1, <2>3, <2>4 DEF SettledNode
<1>4. CASE n \in Live(co) /\ co.params[n].epoch = e
  <2>1. Reporters(co, e) = {n}
    BY <1>2, <1>4 DEF Reporters
  <2>2. ~(row[e] > 0 /\ \A m \in {n} : rowNode[e] < m)
    BY <1>1, ConstantsAssumption
  <2>3. SettledRow(co, e) = Largest({row[e]} \cup {co.params[m].id : m \in {n}})
    BY <2>1, <2>2 DEF SettledRow
  <2>4. {row[e]} \cup {co.params[m].id : m \in {n}} = {row[e]} \cup {co.params[n].id}
    OBVIOUS
  <2>5. Largest({row[e]} \cup {co.params[n].id}) = IF row[e] <= co.params[n].id THEN co.params[n].id ELSE row[e]
    BY <1>1, LargestOfTwo
  <2>6. SettledNode(co, e) = n
    BY <2>1, SettledNodeValue
  <2> QED BY <1>4, <2>3, <2>4, <2>5, <2>6
<1>5. CASE n \in Live(co) /\ co.params[n].epoch # e
  <2>1. Reporters(co, e) = {}
    BY <1>2, <1>5
  <2>2. CASE row[e] > 0
    BY <1>1, <1>5, <2>1, <2>2 DEF SettledRow
  <2>3. CASE row[e] = 0
    <3>1. SettledRow(co, e) = Largest({0})
      BY <2>1, <2>3 DEF SettledRow
    <3>2. Largest({0}) = 0
      BY LargestOfOne
    <3> QED BY <1>5, <3>1, <3>2
  <2> QED BY <1>1, <2>2, <2>3
<1> QED BY <1>3, <1>4, <1>5

\* An epoch of a process no node id reaches has no row.
LEMMA NoStrangeRow ==
  ASSUME TypeOK, Origin, NEW co \in Cohort, NEW e \in Epoch,
         \A n \in Node : e[1] # InitialProc[n],
         \A m \in Node : IsOf(co.params[m], InitialProc[m], born)
  PROVE  row[e] = 0 /\ SettledRow(co, e) = 0
<1>1. row[e] = 0
  <2>1. row[e] \in Nat /\ rowNode[e] \in Node
    BY DEF TypeOK
  <2>2. ~(row[e] > 0)
    BY <2>1 DEF Origin
  <2> QED BY <2>1, <2>2
<1>2. Reporters(co, e) = {}
  <2>1. e # NoEpoch /\ Live(co) \subseteq Node
    BY ConstantsAssumption, ReportersType
  <2> QED BY <2>1 DEF Reporters, IsOf
<1>3. SettledRow(co, e) = Largest({0})
  BY <1>1, <1>2 DEF SettledRow
<1>4. Largest({0}) = 0
  BY LargestOfOne
<1> QED BY <1>1, <1>3, <1>4

\* A row still names the node id of its process after a write.
LEMMA WriteRowOrigin ==
  ASSUME Separate, TypeOK, Origin, NEW co \in Cohort, Write(co),
         \A m \in Node : IsOf(co.params[m], InitialProc[m], born)
  PROVE  \A e \in Epoch : row'[e] > 0 => e[1] = InitialProc[rowNode'[e]]
<1>1. SUFFICES ASSUME NEW e \in Epoch, SettledRow(co, e) > 0
               PROVE  e[1] = InitialProc[SettledNode(co, e)]
  BY DEF Write
<1>2. PICK n \in Node : e[1] = InitialProc[n]
  BY <1>1, NoStrangeRow
<1>3. CASE n \notin Live(co)
  BY <1>1, <1>2, <1>3, RowsAfterWrite DEF Origin
<1>4. CASE n \in Live(co)
  BY <1>1, <1>2, <1>4, RowsAfterWrite
<1> QED BY <1>3, <1>4

\* The types of the batches on their way.
LEMMA BatchTypes ==
  ASSUME TypeOK
  PROVE  /\ \A q \in Proc : heldBatch[q] \in StatBatch
         /\ \A p \in Panel, n \in Node : answer[p][n] \in StatBatch /\ cohort[p].params[n] \in StatBatch
         /\ \A p \in Panel : \A i \in DOMAIN retained[p] :
              retained[p][i] \in Cohort /\ \A n \in Node : retained[p][i].params[n] \in StatBatch
<1>1. \A p \in Panel : cohort[p] \in Cohort /\ retained[p] \in Seq(Cohort)
  BY DEF TypeOK
<1>2. \A p \in Panel : \A i \in DOMAIN retained[p] : retained[p][i] \in Cohort
  BY <1>1
<1> QED BY <1>1, <1>2 DEF TypeOK, Cohort

\* Steps that leave every batch alone keep Origin.
LEMMA KeepOrigin == Origin /\ UNCHANGED originVars => Origin'
BY DEF Origin, originVars

\* Steps of the node processes and the operator keep Origin.
LEMMA EnvironmentOrigin == ASSUME Separate, TypeOK, Origin, Environment, edited' = {} PROVE Origin'
<1>1. ASSUME NEW q \in Proc, NEW c \in Chunk, Traffic(q, c) PROVE Origin'
  <2>1. \A d \in Chunk : born[d] # {} => born'[d] = born[d]
    BY <1>1 DEF Traffic, TypeOK
  <2>2. \A r \in Proc : \A d \in counters'[r] : born'[d] = {r}
    <3>1. \A r \in Proc : counters'[r] = counters[r] \/ (r = q /\ counters'[r] = counters[r] \cup {c})
      BY <1>1 DEF Traffic, TypeOK
    <3>2. \A r \in Proc : \A d \in counters[r] : d \in Chunk /\ born[d] = {r}
      BY DEF TypeOK, Origin
    <3>3. born'[c] = {q}
      BY <1>1 DEF Traffic, TypeOK
    <3> QED BY <2>1, <3>1, <3>2, <3>3
  <2>3. \A r \in Proc : IsOf(heldBatch[r], r, born')
    BY <2>1, IsOfGrows, BatchTypes DEF Origin
  <2>4. \A p \in Panel, n \in Node : IsOf(answer[p][n], InitialProc[n], born')
    BY <2>1, IsOfGrows, BatchTypes DEF Origin
  <2>5. \A p \in Panel, n \in Node : IsOf(cohort[p].params[n], InitialProc[n], born')
    BY <2>1, IsOfGrows, BatchTypes DEF Origin
  <2>6. \A p \in Panel : \A i \in DOMAIN retained[p] : \A n \in Node :
          IsOf(retained[p][i].params[n], InitialProc[n], born')
    BY <2>1, IsOfGrows, BatchTypes DEF Origin
  <2> QED BY <1>1, <2>2, <2>3, <2>4, <2>5, <2>6 DEF Traffic, Origin, ackVars, tickVars
<1>2. ASSUME NEW q \in Proc, NEW saved \in BOOLEAN, Restart(q, saved) PROVE Origin'
  <2>1. \A r \in Proc : IsOf(heldBatch'[r], r, born) /\ (heldBatch'[r].id = 0 => heldBatch'[r] = NoBatch)
    BY <1>2, NoBatchIsOf DEF Restart, TypeOK, Origin
  <2> QED BY <1>2, <2>1 DEF Restart, Origin, ackVars, tickVars
<1>3. ASSUME NEW u \in User, ResetUsage(u) \/ DeleteUser(u) PROVE Origin'
  BY <1>3, KeepOrigin DEF ResetUsage, DeleteUser, originVars, nodeVars, ackVars, tickVars, pastVars
<1>4. ASSUME NEW n \in Node, NEW q \in Proc, EditNode(n, q) PROVE Origin'
  BY <1>4 DEF EditNode
<1> QED BY <1>1, <1>2, <1>3, <1>4 DEF Environment

\* A kept cohort holds batches of the processes they came from.
LEMMA KeptOrigin ==
  ASSUME NEW params, NEW S, NEW epochs, NEW k, NEW m \in Node,
         IsOf(params[m], InitialProc[m], born)
  PROVE  IsOf(KeptCohort(params, S, epochs, k).params[m], InitialProc[m], born)
BY NoBatchIsOf DEF KeptCohort

\* What a failed write does to the list of kept cohorts.
LEMMA KeepOrAbandonEffect ==
  ASSUME TypeOK, NEW p \in Panel, NEW inDoubt \in BOOLEAN, KeepOrAbandon(p, inDoubt)
  PROVE  LET co == cohort[p]
             legacy == LegacyNodes(co.params, co.nodes)
             kept == KeptCohort(co.params, legacy, co.epochs, co.attempts + 1)
         IN  /\ kept \in Cohort
             /\ \/ retained' = retained
                \/ ~inDoubt /\ retained' = [retained EXCEPT ![p] = <<kept>> \o retained[p]]
             /\ retained' = retained => lost' = lost \cup (DataOf(co.params, legacy) \ Settled')
             /\ retained' # retained => lost' = lost
<1> DEFINE co == cohort[p]
           legacy == LegacyNodes(co.params, co.nodes)
           kept == KeptCohort(co.params, legacy, co.epochs, co.attempts + 1)
<1>1. co \in Cohort /\ retained[p] \in Seq(Cohort) /\ retained \in [Panel -> Seq(Cohort)]
  BY DEF TypeOK
<1>2. /\ co.params \in [Node -> StatBatch] /\ legacy \in SUBSET Node /\ co.epochs \in [User -> Nat]
      /\ co.attempts + 1 \in Nat
  BY <1>1 DEF Cohort, LegacyNodes
<1>3. kept \in Cohort
  BY <1>2, KeptCohortType
<1> HIDE DEF kept
<1>4. <<kept>> \o retained[p] # retained[p]
  <2>1. <<kept>> \in Seq(Cohort) /\ Len(<<kept>>) = 1
    BY <1>3
  <2>2. Len(<<kept>> \o retained[p]) = 1 + Len(retained[p]) /\ Len(retained[p]) \in Nat
    BY <1>1, <2>1, ConcatProperties
  <2> QED BY <2>2
<1>5. [retained EXCEPT ![p] = <<kept>> \o retained[p]] # retained
  BY <1>1, <1>4
<1> QED BY <1>3, <1>5 DEF KeepOrAbandon, kept

\* So does the list after a failed write.
LEMMA FailureOrigin ==
  ASSUME TypeOK, Origin, NEW p \in Panel, NEW inDoubt \in BOOLEAN, NEW retriable \in BOOLEAN,
         KeepOrAbandon(p, inDoubt), AfterFailure(p, retriable)
  PROVE  /\ \A r \in Panel, n \in Node : IsOf(cohort'[r].params[n], InitialProc[n], born)
         /\ \A r \in Panel : \A i \in DOMAIN retained'[r] : \A n \in Node :
              IsOf(retained'[r][i].params[n], InitialProc[n], born)
<1> DEFINE co == cohort[p]
           legacy == LegacyNodes(co.params, co.nodes)
           kept == KeptCohort(co.params, legacy, co.epochs, co.attempts + 1)
<1>1. \A r \in Panel, n \in Node : IsOf(cohort'[r].params[n], InitialProc[n], born)
  BY NoBatchIsOf DEF AfterFailure, NoCohort, TypeOK, Origin
<1>2. CASE retained' = retained
  BY <1>1, <1>2 DEF Origin
<1>3. CASE retained' = [retained EXCEPT ![p] = <<kept>> \o retained[p]]
  <2>1. \A n \in Node : IsOf(kept.params[n], InitialProc[n], born)
    BY KeptOrigin DEF Origin
  <2>2. kept \in Cohort /\ retained[p] \in Seq(Cohort)
    BY KeepOrAbandonEffect DEF TypeOK
  <2> HIDE DEF kept
  <2>3. \A i \in DOMAIN (<<kept>> \o retained[p]) : \A n \in Node :
          IsOf((<<kept>> \o retained[p])[i].params[n], InitialProc[n], born)
    BY <2>1, <2>2, SeqFront DEF Origin
  <2>4. retained'[p] = <<kept>> \o retained[p] /\ \A r \in Panel : r # p => retained'[r] = retained[r]
    BY <1>3 DEF TypeOK
  <2> QED BY <1>1, <2>3, <2>4 DEF Origin
<1> QED BY <1>2, <1>3, KeepOrAbandonEffect

\* What PersistStale leaves of a cohort.
LEMMA StaleEffect ==
  ASSUME TypeOK, NEW p \in Panel, PersistStale(p)
  PROVE  LET co == cohort[p]
             new == cohort'[p]
             stale == StaleNodes(co)
         IN  /\ \A r \in Panel : r # p => cohort'[r] = cohort[r]
             /\ new.nodes = co.nodes /\ new.kept = co.kept /\ new.epochs = co.epochs
             /\ new.ackOnly = co.ackOnly \cup stale
             /\ \A n \in Node : new.params[n] =
                  IF n \in stale THEN [epoch |-> co.params[n].epoch, id |-> co.params[n].id, data |-> {}]
                  ELSE co.params[n]
<1> DEFINE co == cohort[p]
           stale == StaleNodes(co)
           f == [n \in Node |-> IF n \in stale THEN [co.params[n] EXCEPT !.data = {}] ELSE co.params[n]]
           more == co.ackOnly \cup stale
<1>1. cohort \in [Panel -> Cohort] /\ co \in Cohort
  BY DEF TypeOK
<1>2. cohort' = [cohort EXCEPT ![p].ackOnly = more, ![p].params = f]
  BY DEF PersistStale
<1>3. \A n \in Node : f[n] =
        IF n \in stale THEN [epoch |-> co.params[n].epoch, id |-> co.params[n].id, data |-> {}]
        ELSE co.params[n]
  <2>1. ASSUME NEW b \in StatBatch
        PROVE  [b EXCEPT !.data = {}] = [epoch |-> b.epoch, id |-> b.id, data |-> {}]
    BY DEF StatBatch
  <2>2. \A n \in Node : co.params[n] \in StatBatch
    BY <1>1 DEF Cohort
  <2> HIDE DEF co, stale
  <2> QED BY <2>1, <2>2
<1> HIDE DEF f, more, stale
<1>4. /\ cohort'[p].params = f /\ cohort'[p].ackOnly = more
      /\ cohort'[p].nodes = co.nodes /\ cohort'[p].kept = co.kept /\ cohort'[p].epochs = co.epochs
  BY <1>1, <1>2 DEF Cohort
<1>5. \A r \in Panel : r # p => cohort'[r] = cohort[r]
  BY <1>1, <1>2
<1> QED BY <1>3, <1>4, <1>5 DEF more, stale

\* Steps of a tick keep Origin.
LEMMA TickStepOrigin == ASSUME Separate, TypeOK, Origin, NEW p \in Panel, TickStep(p) PROVE Origin'
<1> USE DEF nodeVars, ackVars, tickVars, pastVars
<1>1. CASE \/ \E healthy \in SUBSET Node : TickStart(p, healthy)
           \/ LoadAcks(p) \/ TickEnd(p)
           \/ \E n \in Node : PollSend(p, n) \/ PollAnswered(p, n)
  BY <1>1, KeepOrigin DEF TickStart, LoadAcks, TickEnd, PollSend, PollAnswered, originVars
<1>2. ASSUME TakeRetained(p) PROVE Origin'
  <2>1. retained[p] \in Seq(Cohort) /\ retained[p] # <<>>
    BY <1>2 DEF TakeRetained, TypeOK
  <2>2. /\ cohort'[p] = retained[p][1] /\ 1 \in DOMAIN retained[p] /\ retained'[p] = Tail(retained[p])
        /\ \A r \in Panel : r # p => cohort'[r] = cohort[r] /\ retained'[r] = retained[r]
    BY <1>2, <2>1, SeqTail DEF TakeRetained, TypeOK
  <2>3. \A r \in Panel, n \in Node : IsOf(cohort'[r].params[n], InitialProc[n], born)
    BY <2>2 DEF Origin
  <2>4. \A i \in DOMAIN Tail(retained[p]) : \A n \in Node :
          IsOf(Tail(retained[p])[i].params[n], InitialProc[n], born)
    BY <2>1, SeqTail DEF Origin
  <2>5. \A r \in Panel : \A i \in DOMAIN retained'[r] : \A n \in Node :
          IsOf(retained'[r][i].params[n], InitialProc[n], born)
    BY <2>2, <2>4 DEF Origin
  <2> QED BY <1>2, <2>3, <2>5 DEF TakeRetained, Origin
<1>3. ASSUME NEW n \in Node, PollServed(p, n) PROVE Origin'
  <2> DEFINE q == InitialProc[n]
             ack == acks[p][n]
  <2>1. q \in Proc /\ ack \in Ack /\ procOf[n] = q
    BY ConstantsAssumption DEF TypeOK, Origin
  <2>2. NodeServes(q, ack) /\ answer' = [answer EXCEPT ![p][n] = Response(q, ack)]
    BY <1>3, <2>1 DEF PollServed
  <2>3. \A r \in Panel, m \in Node : answer'[r][m] = IF r = p /\ m = n THEN Response(q, ack) ELSE answer[r][m]
    BY <2>2 DEF TypeOK
  <2>4. \A r \in Panel, m \in Node : IsOf(answer'[r][m], InitialProc[m], born)
    BY <2>1, <2>2, <2>3, ServeOrigin DEF Origin
  <2>5. \A r \in Proc : \A c \in counters'[r] : born[c] = {r}
    BY <2>1, <2>2, ServeOrigin DEF Origin
  <2>6. \A r \in Proc : IsOf(heldBatch'[r], r, born) /\ (heldBatch'[r].id = 0 => heldBatch'[r] = NoBatch)
    BY <2>1, <2>2, ServeOrigin DEF Origin
  <2> QED BY <1>3, <2>4, <2>5, <2>6 DEF PollServed, NodeServes, Origin
<1>4. ASSUME TakeCohort(p) PROVE Origin'
  <2>1. \A r \in Panel, n \in Node : answer'[r][n] \in {answer[r][n], NoBatch}
    BY <1>4 DEF TakeCohort, TypeOK
  <2>2. \A r \in Panel, n \in Node :
          cohort'[r].params[n] \in {cohort[r].params[n], answer[r][n], NoBatch}
    BY <1>4 DEF TakeCohort, TypeOK
  <2>3. \A r \in Panel, n \in Node : IsOf(answer'[r][n], InitialProc[n], born)
    BY <2>1, NoBatchIsOf DEF Origin
  <2>4. \A r \in Panel, n \in Node : IsOf(cohort'[r].params[n], InitialProc[n], born)
    BY <2>2, NoBatchIsOf DEF Origin
  <2> QED BY <1>4, <2>3, <2>4 DEF TakeCohort, Origin
<1>5. ASSUME PersistStale(p) PROVE Origin'
  <2>2. ASSUME NEW r \in Panel, NEW n \in Node PROVE IsOf(cohort'[r].params[n], InitialProc[n], born)
    <3>1. IsOf(cohort[r].params[n], InitialProc[n], born)
      BY DEF Origin
    <3>2. \/ cohort'[r].params[n] = cohort[r].params[n]
          \/ cohort'[r].params[n] =
               [epoch |-> cohort[r].params[n].epoch, id |-> cohort[r].params[n].id, data |-> {}]
      BY <1>5, StaleEffect
    <3> QED BY <3>1, <3>2 DEF IsOf
  <2> QED BY <1>5, <2>2 DEF PersistStale, Origin
<1>6. ASSUME PersistCommit(p) PROVE Origin'
  <2>1. cohort[p] \in Cohort /\ Write(cohort[p]) /\ \A m \in Node : IsOf(cohort[p].params[m], InitialProc[m], born)
    BY <1>6 DEF PersistCommit, TypeOK, Origin
  <2>2. \A e \in Epoch : row'[e] > 0 => e[1] = InitialProc[rowNode'[e]]
    BY <2>1, WriteRowOrigin
  <2>3. \A r \in Panel, n \in Node : IsOf(cohort'[r].params[n], InitialProc[n], born)
    BY <1>6, NoBatchIsOf DEF PersistCommit, NoCohort, TypeOK, Origin
  <2> QED BY <1>6, <2>2, <2>3 DEF PersistCommit, Origin
<1>7. ASSUME SettleCollection(p) PROVE Origin'
  <2> DEFINE legacy == LegacyNodes(answer[p], {n \in Node : poll[p][n] = "ok"})
             kept == KeptCohort(answer[p], legacy, epochAtPoll[p], 0)
  <2>1. \A r \in Panel, n \in Node : IsOf(answer'[r][n], InitialProc[n], born)
    BY <1>7, NoBatchIsOf DEF SettleCollection, TypeOK, Origin
  <2>2. kept \in Cohort /\ retained[p] \in Seq(Cohort)
    <3>1. legacy \in SUBSET Node /\ answer[p] \in [Node -> StatBatch] /\ epochAtPoll[p] \in [User -> Nat]
      BY DEF LegacyNodes, TypeOK
    <3> QED BY <3>1, KeptCohortType DEF TypeOK
  <2>3. \A n \in Node : IsOf(kept.params[n], InitialProc[n], born)
    BY KeptOrigin DEF Origin
  <2>4. retained' = retained \/ retained' = [retained EXCEPT ![p] = Append(retained[p], kept)]
    BY <1>7 DEF SettleCollection
  <2> HIDE DEF kept
  <2>5. \A i \in DOMAIN Append(retained[p], kept) : \A n \in Node :
          IsOf(Append(retained[p], kept)[i].params[n], InitialProc[n], born)
    BY <2>2, <2>3, SeqBack DEF Origin
  <2>6. \A r \in Panel : retained'[r] = retained[r] \/ (r = p /\ retained'[r] = Append(retained[p], kept))
    BY <2>4 DEF TypeOK
  <2>7. \A r \in Panel : \A i \in DOMAIN retained'[r] : \A n \in Node :
          IsOf(retained'[r][i].params[n], InitialProc[n], born)
    BY <2>5, <2>6 DEF Origin
  <2> QED BY <1>7, <2>1, <2>7 DEF SettleCollection, Origin
<1> QED BY <1>1, <1>2, <1>3, <1>4, <1>5, <1>6, <1>7 DEF TickStep

\* Faults keep Origin.
LEMMA TickFaultOrigin == ASSUME Separate, TypeOK, Origin, NEW p \in Panel, TickFault(p) PROVE Origin'
<1> USE DEF nodeVars, ackVars, tickVars, pastVars
<1>1. CASE LoadAcksFails(p) \/ \E n \in Node : PollRequestLost(p, n)
  BY <1>1, KeepOrigin DEF LoadAcksFails, PollRequestLost, originVars
<1>2. ASSUME NEW n \in Node, PollAnswerLost(p, n) PROVE Origin'
  <2>1. \A r \in Panel, m \in Node : answer'[r][m] \in {answer[r][m], NoBatch}
    BY <1>2 DEF PollAnswerLost, TypeOK
  <2>2. \A r \in Panel, m \in Node : IsOf(answer'[r][m], InitialProc[m], born)
    BY <2>1, NoBatchIsOf DEF Origin
  <2> QED BY <1>2, <2>2 DEF PollAnswerLost, Origin
<1>3. ASSUME NEW b \in BOOLEAN, PersistFails(p, b) PROVE Origin'
  <2>1. /\ \A r \in Panel, n \in Node : IsOf(cohort'[r].params[n], InitialProc[n], born)
        /\ \A r \in Panel : \A i \in DOMAIN retained'[r] : \A n \in Node :
             IsOf(retained'[r][i].params[n], InitialProc[n], born)
    BY <1>3, FailureOrigin DEF PersistFails
  <2> QED BY <1>3, <2>1 DEF PersistFails, Origin
<1>4. ASSUME NEW b \in BOOLEAN, PersistInDoubt(p, b) PROVE Origin'
  <2>1. /\ \A r \in Panel, n \in Node : IsOf(cohort'[r].params[n], InitialProc[n], born)
        /\ \A r \in Panel : \A i \in DOMAIN retained'[r] : \A n \in Node :
             IsOf(retained'[r][i].params[n], InitialProc[n], born)
    BY <1>4, FailureOrigin DEF PersistInDoubt
  <2>2. \A e \in Epoch : row'[e] > 0 => e[1] = InitialProc[rowNode'[e]]
    <3>1. CASE Write(cohort[p])
      BY <3>1, WriteRowOrigin DEF TypeOK, Origin
    <3>2. CASE UNCHANGED <<row, rowNode>>
      BY <3>2 DEF Origin
    <3> QED BY <1>4, <3>1, <3>2 DEF PersistInDoubt
  <2> QED BY <1>4, <2>1, <2>2 DEF PersistInDoubt, Origin
<1>5. ASSUME Crash(p) PROVE Origin'
  <2>1. \A r \in Panel, n \in Node : IsOf(answer'[r][n], InitialProc[n], born)
    BY <1>5, NoBatchIsOf DEF Crash, TypeOK, Origin
  <2>2. \A r \in Panel, n \in Node : IsOf(cohort'[r].params[n], InitialProc[n], born)
    BY <1>5, NoBatchIsOf DEF Crash, NoCohort, TypeOK, Origin
  <2>3. \A r \in Panel : retained'[r] = retained[r] \/ retained'[r] = <<>>
    BY <1>5 DEF Crash, TypeOK
  <2>4. \A r \in Panel : \A i \in DOMAIN retained'[r] : \A n \in Node :
          IsOf(retained'[r][i].params[n], InitialProc[n], born)
    BY <2>3 DEF Origin
  <2> QED BY <1>5, <2>1, <2>2, <2>4 DEF Crash, Origin
<1> QED BY <1>1, <1>2, <1>3, <1>4, <1>5 DEF TickFault

\* Origin is inductive,
LEMMA NextOrigin == ASSUME Separate, TypeOK, Origin, [Next]_vars, edited' = {} PROVE Origin'
<1>1. CASE UNCHANGED vars
  BY <1>1, KeepOrigin DEF vars, originVars, nodeVars, ackVars, tickVars, pastVars
<1> QED BY <1>1, EnvironmentOrigin, TickStepOrigin, TickFaultOrigin DEF Next

\* and holds at the start.
LEMMA InitOrigin == Init => Origin
<1> SUFFICES ASSUME Init PROVE Origin
  OBVIOUS
<1>1. \A p \in Panel, n \in Node : answer[p][n] = NoBatch /\ cohort[p].params[n] = NoBatch
  BY DEF Init, NoCohort
<1>2. \A p \in Panel : DOMAIN retained[p] = {}
  BY DEF Init
<1>3. /\ \A q \in Proc : counters[q] = {} /\ heldBatch[q] = NoBatch
      /\ \A e \in Epoch : row[e] = 0
      /\ procOf = InitialProc
  BY DEF Init
<1> QED BY <1>1, <1>2, <1>3, NoBatchIsOf DEF Origin

----------------------------------------------------------------------------
(* The control of a tick *)

\* A cohort of traffic that only the recorder holds.
KeptShape(co) ==
  /\ co.kept
  /\ \A n \in Node : co.params[n] # NoBatch => n \in co.nodes /\ co.params[n].epoch = NoEpoch

\* Which polls, answers and cohorts go with each step of a tick.
ControlOf(p) ==
  /\ pc[p] # "persist" => cohort[p] = NoCohort
  /\ pc[p] = "idle" => \A n \in Node : poll[p][n] = "none"
  /\ pc[p] = "retained" \/ cohort[p].kept => \A n \in Node : poll[p][n] \in {"none", "queued"}
  /\ pc[p] = "settle" => \A n \in Node : poll[p][n] # "queued"
  /\ \A n \in Node : answer[p][n] # NoBatch => poll[p][n] \in {"served", "ok"}
  /\ \A i \in DOMAIN retained[p] : KeptShape(retained[p][i])
  /\ cohort[p].kept => KeptShape(cohort[p])
  /\ ~cohort[p].kept => \A n \in Node : cohort[p].params[n] # NoBatch =>
                          n \in cohort[p].nodes /\ poll[p][n] = "done"

Control == \A p \in Panel : ControlOf(p)

controlVars == <<pc, poll, answer, retained, cohort>>

\* Steps that leave the tick alone keep Control.
LEMMA KeepControl == Control /\ UNCHANGED controlVars => Control'
BY DEF Control, ControlOf, controlVars

\* Node processes and the operator leave the ticks alone.
LEMMA EnvironmentKeepsTick == Environment => UNCHANGED tickVars
BY DEF Environment, Traffic, Restart, ResetUsage, DeleteUser, EditNode

\* A recorder touches no other recorder's memory.
LEMMA OthersKeepTick ==
  ASSUME TypeOK, NEW p \in Panel, TickStep(p) \/ TickFault(p), NEW r \in Panel, r # p
  PROVE  /\ pc'[r] = pc[r] /\ poll'[r] = poll[r] /\ answer'[r] = answer[r]
         /\ retained'[r] = retained[r] /\ cohort'[r] = cohort[r] /\ acks'[r] = acks[r]
         /\ epochByNode'[r] = epochByNode[r] /\ epochAtPoll'[r] = epochAtPoll[r]
<1> USE DEF TypeOK
<1>1. CASE TickStep(p)
  <2> USE <1>1 DEF tickVars
  <2>1. CASE \E healthy \in SUBSET Node : TickStart(p, healthy)
    BY <2>1 DEF TickStart
  <2>2. CASE TakeRetained(p) \/ LoadAcks(p) \/ TakeCohort(p)
    BY <2>2 DEF TakeRetained, LoadAcks, TakeCohort
  <2>3. CASE \E n \in Node : PollSend(p, n) \/ PollServed(p, n) \/ PollAnswered(p, n)
    BY <2>3 DEF PollSend, PollServed, PollAnswered
  <2>4. CASE PersistStale(p)
    BY <2>4, StaleEffect DEF PersistStale
  <2>5. CASE PersistCommit(p) \/ TickEnd(p) \/ SettleCollection(p)
    BY <2>5 DEF PersistCommit, TickEnd, SettleCollection
  <2> QED BY <2>1, <2>2, <2>3, <2>4, <2>5 DEF TickStep
<1>2. CASE TickFault(p)
  <2> USE <1>2 DEF tickVars
  <2>1. CASE LoadAcksFails(p) \/ Crash(p)
    BY <2>1 DEF LoadAcksFails, Crash
  <2>2. CASE \E n \in Node : PollAnswerLost(p, n) \/ PollRequestLost(p, n)
    BY <2>2 DEF PollAnswerLost, PollRequestLost
  <2>3. CASE \E b \in BOOLEAN : PersistFails(p, b)
    BY <2>3 DEF PersistFails, KeepOrAbandon, AfterFailure
  <2>4. CASE \E b \in BOOLEAN : PersistInDoubt(p, b)
    BY <2>4 DEF PersistInDoubt, KeepOrAbandon, AfterFailure
  <2> QED BY <2>1, <2>2, <2>3, <2>4 DEF TickFault
<1> QED BY <1>1, <1>2

\* A kept cohort holds legacy answers only.
LEMMA KeptCohortShape ==
  ASSUME NEW params \in [Node -> StatBatch], NEW T \in SUBSET Node, NEW epochs, NEW k
  PROVE  KeptShape(KeptCohort(params, LegacyNodes(params, T), epochs, k))
BY DEF KeptShape, KeptCohort, LegacyNodes

\* After a failed write.
LEMMA FailureControl ==
  ASSUME TypeOK, NEW p \in Panel, ControlOf(p), pc[p] = "persist", answer' = answer,
         NEW inDoubt \in BOOLEAN, NEW retriable \in BOOLEAN,
         KeepOrAbandon(p, inDoubt), AfterFailure(p, retriable)
  PROVE  ControlOf(p)'
<1> DEFINE co == cohort[p]
           legacy == LegacyNodes(co.params, co.nodes)
           kept == KeptCohort(co.params, legacy, co.epochs, co.attempts + 1)
           next == IF co.kept THEN "idle" ELSE IF ~retriable \/ failures[p] + 1 >= MaxConsecutive
                                               THEN "settle" ELSE "poll"
<1>1. /\ pc'[p] = next /\ cohort'[p] = NoCohort
      /\ \A n \in Node : poll'[p][n] =
           IF next = "idle" \/ (next = "settle" /\ poll[p][n] = "queued") THEN "none" ELSE poll[p][n]
  BY DEF AfterFailure, TypeOK
<1>2. \A i \in DOMAIN retained'[p] : KeptShape(retained'[p][i])
  <2>1. CASE retained' = retained
    BY <2>1 DEF ControlOf
  <2>2. CASE retained' = [retained EXCEPT ![p] = <<kept>> \o retained[p]]
    <3>1. KeptShape(kept)
      BY KeptCohortShape DEF TypeOK, Cohort
    <3>2. kept \in Cohort /\ retained[p] \in Seq(Cohort)
      BY KeepOrAbandonEffect DEF TypeOK
    <3>3. retained'[p] = <<kept>> \o retained[p]
      BY <2>2 DEF TypeOK
    <3> HIDE DEF kept
    <3> QED BY <3>1, <3>2, <3>3, SeqFront DEF ControlOf
  <2> QED BY <2>1, <2>2, KeepOrAbandonEffect
<1>3. NoCohort.kept = FALSE /\ \A n \in Node : NoCohort.params[n] = NoBatch
  BY DEF NoCohort
<1>4. next \in {"idle", "settle", "poll"} /\ (next = "idle" => co.kept)
  OBVIOUS
<1> HIDE DEF next
<1>5. \A n \in Node : answer[p][n] # NoBatch => poll'[p][n] \in {"served", "ok"}
  BY <1>1, <1>4 DEF ControlOf
<1>6. next = "settle" => \A n \in Node : poll'[p][n] # "queued"
  BY <1>1
<1> QED BY <1>1, <1>2, <1>3, <1>4, <1>5, <1>6 DEF ControlOf

\* Steps of a tick keep its control.
LEMMA TickStepControl == ASSUME TypeOK, NEW p \in Panel, ControlOf(p), TickStep(p) PROVE ControlOf(p)'
<1>0. NoCohort.kept = FALSE /\ \A n \in Node : NoCohort.params[n] = NoBatch
  BY DEF NoCohort
<1>1. ASSUME NEW healthy \in SUBSET Node, TickStart(p, healthy) PROVE ControlOf(p)'
  <2>1. /\ pc[p] = "idle" /\ pc'[p] = "retained"
        /\ \A n \in Node : poll'[p][n] \in {"none", "queued"}
        /\ UNCHANGED <<answer, retained, cohort>>
    BY <1>1 DEF TickStart, TypeOK
  <2> QED BY <1>0, <2>1 DEF ControlOf
<1>2. ASSUME TakeRetained(p) PROVE ControlOf(p)'
  <2>1. retained[p] \in Seq(Cohort) /\ retained[p] # <<>>
    BY <1>2 DEF TakeRetained, TypeOK
  <2>2. /\ cohort'[p] = retained[p][1] /\ 1 \in DOMAIN retained[p] /\ retained'[p] = Tail(retained[p])
        /\ pc[p] = "retained" /\ pc'[p] = "persist" /\ UNCHANGED <<poll, answer>>
    BY <1>2, <2>1, SeqTail DEF TakeRetained, TypeOK
  <2>3. \A i \in DOMAIN retained'[p] : KeptShape(retained'[p][i])
    BY <2>1, <2>2, SeqTail DEF ControlOf
  <2>4. KeptShape(cohort'[p]) /\ cohort'[p].kept
    BY <2>2 DEF ControlOf, KeptShape
  <2> QED BY <2>2, <2>3, <2>4 DEF ControlOf
<1>3. ASSUME LoadAcks(p) PROVE ControlOf(p)'
  <2>1. /\ pc[p] = "retained"
        /\ pc'[p] = "poll" \/ (pc'[p] = "idle" /\ \A n \in Node : poll[p][n] # "queued")
        /\ UNCHANGED <<poll, answer, retained, cohort>>
    BY <1>3 DEF LoadAcks, TypeOK
  <2> QED BY <1>0, <2>1 DEF ControlOf
<1>4. ASSUME NEW n \in Node, PollSend(p, n) \/ PollServed(p, n) \/ PollAnswered(p, n) PROVE ControlOf(p)'
  <2>1. /\ UNCHANGED <<pc, retained, cohort>>
        /\ \A m \in Node : m # n => poll'[p][m] = poll[p][m] /\ answer'[p][m] = answer[p][m]
    BY <1>4 DEF PollSend, PollServed, PollAnswered, TypeOK
  <2>2. \/ /\ poll[p][n] = "queued" /\ poll'[p][n] = "sent" /\ answer' = answer
           /\ pc[p] \in {"poll", "persist"} /\ ~cohort[p].kept
        \/ poll[p][n] = "sent" /\ poll'[p][n] = "served"
        \/ poll[p][n] = "served" /\ poll'[p][n] = "ok"
    BY <1>4 DEF PollSend, PollServed, PollAnswered, TypeOK
  <2> QED BY <2>1, <2>2 DEF ControlOf
<1>5. ASSUME TakeCohort(p) PROVE ControlOf(p)'
  <2> DEFINE finished == {n \in Node : poll[p][n] \in {"ok", "failed"}}
             answered == {n \in finished : poll[p][n] = "ok"}
  <2>1. /\ pc[p] = "poll" /\ pc'[p] = "persist" /\ retained' = retained
        /\ cohort'[p].kept = FALSE /\ cohort'[p].nodes = answered
        /\ \A n \in Node : cohort'[p].params[n] = IF n \in answered THEN answer[p][n] ELSE NoBatch
    BY <1>5 DEF TakeCohort, TypeOK
  <2>2. \A n \in Node : /\ answer'[p][n] = IF n \in finished THEN NoBatch ELSE answer[p][n]
                        /\ poll'[p][n] = IF n \in finished THEN "done" ELSE poll[p][n]
    BY <1>5 DEF TakeCohort, TypeOK
  <2> QED BY <2>1, <2>2 DEF ControlOf
<1>6. ASSUME PersistStale(p) PROVE ControlOf(p)'
  <2> DEFINE co == cohort[p]
  <2>1. /\ cohort'[p].kept = co.kept /\ cohort'[p].nodes = co.nodes
        /\ \A n \in Node : cohort'[p].params[n] # NoBatch => co.params[n] # NoBatch
        /\ \A n \in Node : cohort'[p].params[n].epoch = co.params[n].epoch
    <3>1. \A n \in StaleNodes(co) : co.params[n].id > 0
      BY DEF StaleNodes, Live
    <3>2. \A n \in StaleNodes(co) : co.params[n] # NoBatch
      BY <3>1 DEF NoBatch
    <3>3. /\ cohort'[p].kept = co.kept /\ cohort'[p].nodes = co.nodes
          /\ \A n \in Node : cohort'[p].params[n] =
               IF n \in StaleNodes(co) THEN [epoch |-> co.params[n].epoch, id |-> co.params[n].id, data |-> {}]
               ELSE co.params[n]
      BY <1>6, StaleEffect
    <3>4. ASSUME NEW n \in Node
          PROVE  /\ cohort'[p].params[n] # NoBatch => co.params[n] # NoBatch
                 /\ cohort'[p].params[n].epoch = co.params[n].epoch
      <4>1. CASE n \in StaleNodes(co)
        <5>1. cohort'[p].params[n] = [epoch |-> co.params[n].epoch, id |-> co.params[n].id, data |-> {}]
          BY <3>3, <4>1
        <5>2. cohort'[p].params[n].epoch = co.params[n].epoch
          BY <5>1
        <5> QED BY <3>2, <4>1, <5>2
      <4>2. CASE n \notin StaleNodes(co)
        BY <3>3, <4>2
      <4> QED BY <4>1, <4>2
    <3> QED BY <3>3, <3>4
  <2>2. pc[p] = "persist" /\ UNCHANGED <<pc, poll, answer, retained>>
    BY <1>6 DEF PersistStale
  <2>3. co.kept => KeptShape(cohort'[p])
    BY <2>1 DEF ControlOf, KeptShape
  <2> QED BY <2>1, <2>2, <2>3 DEF ControlOf
<1>7. ASSUME PersistCommit(p) PROVE ControlOf(p)'
  <2>1. /\ pc[p] = "persist" /\ UNCHANGED <<poll, answer, retained>>
        /\ pc'[p] = IF cohort[p].kept THEN "retained" ELSE "poll"
        /\ cohort'[p] = NoCohort
    BY <1>7 DEF PersistCommit, TypeOK
  <2> QED BY <1>0, <2>1 DEF ControlOf
<1>8. ASSUME TickEnd(p) PROVE ControlOf(p)'
  <2>1. /\ pc[p] = "poll" /\ UNCHANGED <<answer, retained, cohort>> /\ pc'[p] = "idle"
        /\ \A n \in Node : poll[p][n] \in {"none", "done"} /\ poll'[p][n] = "none"
    BY <1>8 DEF TickEnd, TypeOK
  <2> QED BY <1>0, <2>1 DEF ControlOf
<1>9. ASSUME SettleCollection(p) PROVE ControlOf(p)'
  <2> DEFINE legacy == LegacyNodes(answer[p], {n \in Node : poll[p][n] = "ok"})
             kept == KeptCohort(answer[p], legacy, epochAtPoll[p], 0)
  <2>1. /\ pc[p] = "settle" /\ cohort' = cohort /\ pc'[p] = "idle"
        /\ \A n \in Node : poll'[p][n] = "none" /\ answer'[p][n] = NoBatch
        /\ retained'[p] = retained[p] \/ retained'[p] = Append(retained[p], kept)
    BY <1>9 DEF SettleCollection, TypeOK
  <2>2. answer[p] \in [Node -> StatBatch] /\ legacy \in SUBSET Node /\ epochAtPoll[p] \in [User -> Nat]
    BY DEF TypeOK, LegacyNodes
  <2>3. kept \in Cohort /\ KeptShape(kept) /\ retained[p] \in Seq(Cohort)
    BY <2>2, KeptCohortShape, KeptCohortType DEF TypeOK
  <2> HIDE DEF kept
  <2>4. \A i \in DOMAIN retained'[p] : KeptShape(retained'[p][i])
    BY <2>1, <2>3, SeqBack DEF ControlOf
  <2> QED BY <1>0, <2>1, <2>4 DEF ControlOf
<1> QED BY <1>1, <1>2, <1>3, <1>4, <1>5, <1>6, <1>7, <1>8, <1>9 DEF TickStep

\* Faults keep it.
LEMMA TickFaultControl == ASSUME TypeOK, NEW p \in Panel, ControlOf(p), TickFault(p) PROVE ControlOf(p)'
<1>0. NoCohort.kept = FALSE /\ \A n \in Node : NoCohort.params[n] = NoBatch
  BY DEF NoCohort
<1>1. ASSUME LoadAcksFails(p) PROVE ControlOf(p)'
  <2>1. /\ pc[p] = "retained" /\ UNCHANGED <<answer, retained, cohort>> /\ pc'[p] = "idle"
        /\ \A n \in Node : poll'[p][n] = "none"
    BY <1>1 DEF LoadAcksFails, TypeOK
  <2> QED BY <1>0, <2>1 DEF ControlOf
<1>2. ASSUME NEW n \in Node, PollAnswerLost(p, n) \/ PollRequestLost(p, n) PROVE ControlOf(p)'
  <2>1. /\ UNCHANGED <<pc, retained, cohort>>
        /\ \A m \in Node : m # n => poll'[p][m] = poll[p][m] /\ answer'[p][m] = answer[p][m]
    BY <1>2 DEF PollAnswerLost, PollRequestLost, TypeOK
  <2>2. /\ poll'[p][n] = "failed"
        /\ \/ poll[p][n] = "served" /\ answer'[p][n] = NoBatch
           \/ poll[p][n] = "sent" /\ answer'[p][n] = answer[p][n]
    BY <1>2 DEF PollAnswerLost, PollRequestLost, TypeOK
  <2> QED BY <2>1, <2>2 DEF ControlOf
<1>3. ASSUME NEW b \in BOOLEAN, PersistFails(p, b) \/ PersistInDoubt(p, b) PROVE ControlOf(p)'
  <2>1. /\ pc[p] = "persist" /\ answer' = answer
        /\ \E inDoubt, retriable \in BOOLEAN : KeepOrAbandon(p, inDoubt) /\ AfterFailure(p, retriable)
    BY <1>3 DEF PersistFails, PersistInDoubt
  <2> QED BY <2>1, FailureControl
<1>4. ASSUME Crash(p) PROVE ControlOf(p)'
  <2>1. /\ pc'[p] = "idle" /\ retained'[p] = <<>> /\ cohort'[p] = NoCohort
        /\ \A n \in Node : poll'[p][n] = "none" /\ answer'[p][n] = NoBatch
    BY <1>4 DEF Crash, TypeOK
  <2> QED BY <1>0, <2>1 DEF ControlOf
<1> QED BY <1>1, <1>2, <1>3, <1>4 DEF TickFault

\* Control is inductive,
LEMMA NextControl == ASSUME TypeOK, Control, [Next]_vars PROVE Control'
<1>1. CASE Environment \/ UNCHANGED vars
  BY <1>1, EnvironmentKeepsTick, KeepControl DEF vars, tickVars, controlVars
<1>2. ASSUME NEW p \in Panel, TickStep(p) \/ TickFault(p) PROVE Control'
  <2>1. ControlOf(p)'
    BY <1>2, TickStepControl, TickFaultControl DEF Control
  <2>2. ASSUME NEW r \in Panel, r # p PROVE ControlOf(r)'
    BY <1>2, <2>2, OthersKeepTick DEF Control, ControlOf
  <2> QED BY <2>1, <2>2 DEF Control
<1> QED BY <1>1, <1>2 DEF Next

\* and holds at the start.
LEMMA InitControl == Init => Control
<1> SUFFICES ASSUME Init, NEW p \in Panel PROVE ControlOf(p)
  BY DEF Control
<1>1. /\ pc[p] = "idle" /\ retained[p] = <<>> /\ cohort[p] = NoCohort
      /\ \A n \in Node : poll[p][n] = "none" /\ answer[p][n] = NoBatch
  BY DEF Init
<1> QED BY <1>1 DEF ControlOf, NoCohort

----------------------------------------------------------------------------
(* First contacts *)

\* A node id the database has heard of.
Known(n) == n \in claim \/ RowsOf(n) # {}

\* A request to n is prepared, under way or answered.
Asked(p, n) ==
  \/ poll[p][n] \in {"sent", "served", "ok"}
  \/ poll[p][n] = "queued" /\ pc[p] # "retained" /\ ~cohort[p].kept

\* Whatever was ever asked of a node, the database knows the node from then on.
Contact ==
  /\ \A n \in Node : empties[n] <= 1 /\ (empties[n] = 1 => Known(n))
  /\ \A n \in Node : heldBatch[InitialProc[n]] # NoBatch => Known(n)
  /\ \A p \in Panel, n \in Node : Asked(p, n) \/ epochByNode[p][n] # NoEpoch => Known(n)

\* A write that removes a claim leaves a row of its node id.
LEMMA WriteKnown ==
  ASSUME Separate, TypeOK, Origin, NEW co \in Cohort, Write(co),
         \A m \in Node : IsOf(co.params[m], InitialProc[m], born),
         NEW n \in Node, Known(n)
  PROVE  Known(n)'
<1>1. CASE n \in Live(co)
  <2> DEFINE e == co.params[n].epoch
  <2>1. e \in Epoch /\ co.params[n].id > 0 /\ co.params[n].id \in Nat /\ e[1] = InitialProc[n]
    <3>1. co.params[n] \in StatBatch
      BY DEF Cohort
    <3> QED BY <1>1, <3>1 DEF Live, StatBatch, IsOf
  <2>2. SettledRow(co, e) > 0 /\ SettledNode(co, e) = n
    <3>1. row[e] \in Nat
      BY <2>1 DEF TypeOK
    <3>2. /\ SettledRow(co, e) = IF row[e] <= co.params[n].id THEN co.params[n].id ELSE row[e]
          /\ SettledNode(co, e) = n
      BY <1>1, <2>1, RowsAfterWrite
    <3> HIDE DEF e
    <3> QED BY <2>1, <3>1, <3>2
  <2>3. row'[e] > 0 /\ rowNode'[e] = n
    BY <2>1, <2>2 DEF Write
  <2> QED BY <2>1, <2>3 DEF Known, RowsOf
<1>2. CASE n \notin Live(co) /\ n \in claim
  BY <1>2 DEF Write, Known
<1>3. CASE n \notin Live(co) /\ RowsOf(n) # {}
  <2>1. PICK e \in Epoch : row[e] > 0 /\ rowNode[e] = n
    BY <1>3 DEF RowsOf
  <2>2. e[1] = InitialProc[n]
    BY <2>1 DEF Origin
  <2>3. SettledRow(co, e) = row[e] /\ SettledNode(co, e) = n
    BY <1>3, <2>1, <2>2, RowsAfterWrite
  <2>4. row'[e] > 0 /\ rowNode'[e] = n
    BY <2>1, <2>3 DEF Write
  <2> QED BY <2>4 DEF Known, RowsOf
<1> QED BY <1>1, <1>2, <1>3 DEF Known

\* The database never forgets a node id.
LEMMA KnownStays ==
  ASSUME Separate, TypeOK, Origin, [Next]_vars, NEW n \in Node, Known(n)
  PROVE  Known(n)'
<1>1. ASSUME UNCHANGED ackVars PROVE Known(n)'
  BY <1>1 DEF Known, RowsOf, ackVars
<1>2. CASE UNCHANGED vars
  BY <1>1, <1>2 DEF vars
<1>3. CASE Environment
  BY <1>1, <1>3 DEF Environment, Traffic, Restart, ResetUsage, DeleteUser, EditNode
<1>4. ASSUME NEW p \in Panel, TickStep(p) PROVE Known(n)'
  <2>1. CASE LoadAcks(p)
    BY <2>1 DEF LoadAcks, Known, RowsOf
  <2>2. CASE PersistCommit(p)
    BY <2>2, WriteKnown DEF PersistCommit, TypeOK, Origin
  <2>3. CASE ~LoadAcks(p) /\ ~PersistCommit(p)
    BY <1>1, <1>4, <2>3 DEF TickStep, TickStart, TakeRetained, TakeCohort, PollSend, PollServed, PollAnswered,
                       PersistStale, TickEnd, SettleCollection
  <2> QED BY <2>1, <2>2, <2>3
<1>5. ASSUME NEW p \in Panel, TickFault(p) PROVE Known(n)'
  <2>1. ASSUME NEW b \in BOOLEAN, PersistInDoubt(p, b) PROVE Known(n)'
    <3>1. CASE Write(cohort[p])
      BY <3>1, WriteKnown DEF TypeOK, Origin
    <3> QED BY <1>1, <2>1, <3>1 DEF PersistInDoubt
  <2> QED BY <1>1, <1>5, <2>1 DEF TickFault, LoadAcksFails, PollAnswerLost, PollRequestLost, PersistFails, Crash
<1> QED BY <1>2, <1>3, <1>4, <1>5 DEF Next

\* A request is prepared with an empty acknowledgement only if the database
\* does not know the node yet.
LEMMA EmptyAckFor ==
  ASSUME TypeOK, NEW p \in Panel, NEW n \in Node, AckFor(p, n) = EmptyAck
  PROVE  ~Known(n) /\ epochByNode[p][n] = NoEpoch
<1>1. EmptyAck.epoch = NoEpoch
  BY DEF EmptyAck
<1>2. epochByNode[p][n] = NoEpoch
  BY <1>1 DEF AckFor
<1>3. RowsOf(n) = {}
  <2>1. SUFFICES ASSUME RowsOf(n) # {} PROVE FALSE
    OBVIOUS
  <2> DEFINE e == CHOOSE x \in RowsOf(n) : TRUE
  <2>2. e \in Epoch
    BY <2>1 DEF RowsOf
  <2>3. AckFor(p, n).epoch = e
    BY <1>2, <2>1 DEF AckFor
  <2> QED BY <1>1, <2>2, <2>3, ConstantsAssumption
<1>4. n \notin claim
  BY <1>1, <1>2, <1>3, ConstantsAssumption DEF AckFor
<1> QED BY <1>2, <1>3, <1>4 DEF Known

\* Every node id is known before it is asked.
LEMMA LoadKnown ==
  ASSUME TypeOK, Contact, NEW p \in Panel, LoadAcks(p), NEW n \in Node, poll[p][n] = "queued"
  PROVE  Known(n)'
<1>1. CASE AckFor(p, n) = EmptyAck
  BY <1>1 DEF LoadAcks, Known
<1>2. CASE AckFor(p, n) # EmptyAck
  <2>1. Known(n)
    BY <1>2 DEF AckFor, Known, Contact
  <2> QED BY <2>1 DEF LoadAcks, Known, RowsOf
<1> QED BY <1>1, <1>2

\* Only acks_for_request prepares a request.
LEMMA AskedBefore ==
  ASSUME TypeOK, NEW p \in Panel, ControlOf(p), TickStep(p) \/ TickFault(p), NEW n \in Node, Asked(p, n)'
  PROVE  Asked(p, n) \/ (LoadAcks(p) /\ poll[p][n] = "queued")
<1>0. NoCohort.kept = FALSE
  BY DEF NoCohort
<1>1. CASE \E healthy \in SUBSET Node : TickStart(p, healthy)
  <2>1. pc'[p] = "retained" /\ poll'[p][n] \in {"none", "queued"}
    BY <1>1 DEF TickStart, TypeOK
  <2> QED BY <2>1 DEF Asked
<1>2. CASE TakeRetained(p)
  <2>1. retained[p] \in Seq(Cohort) /\ retained[p] # <<>>
    BY <1>2 DEF TakeRetained, TypeOK
  <2>2. /\ cohort'[p] = retained[p][1] /\ 1 \in DOMAIN retained[p] /\ poll' = poll
    BY <1>2, <2>1, SeqTail DEF TakeRetained, TypeOK
  <2>3. cohort'[p].kept
    BY <2>2 DEF ControlOf, KeptShape
  <2> QED BY <2>2, <2>3 DEF Asked
<1>3. CASE LoadAcks(p)
  BY <1>3 DEF LoadAcks, Asked
<1>4. CASE \E m \in Node : PollSend(p, m) \/ PollServed(p, m) \/ PollAnswered(p, m)
  <2>1. PICK m \in Node : PollSend(p, m) \/ PollServed(p, m) \/ PollAnswered(p, m)
    BY <1>4
  <2>2. UNCHANGED <<pc, cohort>> /\ \A k \in Node : k # m => poll'[p][k] = poll[p][k]
    BY <2>1 DEF PollSend, PollServed, PollAnswered, TypeOK
  <2>3. \/ poll[p][m] = "queued" /\ pc[p] \in {"poll", "persist"} /\ ~cohort[p].kept
        \/ poll[p][m] \in {"sent", "served"}
    BY <2>1 DEF PollSend, PollServed, PollAnswered
  <2> QED BY <2>2, <2>3 DEF Asked
<1>5. CASE TakeCohort(p)
  <2>1. pc[p] = "poll" /\ poll'[p][n] \in {poll[p][n], "done"}
    BY <1>5 DEF TakeCohort, TypeOK
  <2> QED BY <1>0, <2>1 DEF Asked, ControlOf
<1>6. CASE PersistStale(p)
  <2>1. cohort'[p].kept = cohort[p].kept /\ UNCHANGED <<pc, poll>>
    BY <1>6, StaleEffect DEF PersistStale
  <2> QED BY <2>1 DEF Asked
<1>7. CASE PersistCommit(p)
  <2>1. /\ pc[p] = "persist" /\ poll' = poll
        /\ pc'[p] = IF cohort[p].kept THEN "retained" ELSE "poll"
    BY <1>7 DEF PersistCommit, TypeOK
  <2> QED BY <2>1 DEF Asked
<1>8. CASE TickEnd(p) \/ SettleCollection(p) \/ LoadAcksFails(p) \/ Crash(p)
  <2>1. poll'[p][n] = "none"
    BY <1>8 DEF TickEnd, SettleCollection, LoadAcksFails, Crash, TypeOK
  <2> QED BY <2>1 DEF Asked
<1>9. CASE \E m \in Node : PollAnswerLost(p, m) \/ PollRequestLost(p, m)
  <2>1. UNCHANGED <<pc, cohort>> /\ poll'[p][n] \in {poll[p][n], "failed"}
    BY <1>9 DEF PollAnswerLost, PollRequestLost, TypeOK
  <2> QED BY <2>1 DEF Asked
<1>10. CASE \E b \in BOOLEAN : PersistFails(p, b) \/ PersistInDoubt(p, b)
  <2>1. /\ pc[p] = "persist" /\ poll'[p][n] \in {poll[p][n], "none"}
        /\ cohort[p].kept => poll'[p][n] = "none"
    <3>1. pc[p] = "persist" /\ \E retriable \in BOOLEAN : AfterFailure(p, retriable)
      BY <1>10 DEF PersistFails, PersistInDoubt
    <3>2. PICK retriable \in BOOLEAN : AfterFailure(p, retriable)
      BY <3>1
    <3> QED BY <3>1, <3>2 DEF AfterFailure, TypeOK
  <2> QED BY <2>1 DEF Asked
<1> QED BY <1>1, <1>2, <1>3, <1>4, <1>5, <1>6, <1>7, <1>8, <1>9, <1>10 DEF TickStep, TickFault

\* Only an answer teaches a recorder an epoch.
LEMMA EpochBefore ==
  ASSUME TypeOK, NEW p \in Panel, TickStep(p) \/ TickFault(p), NEW n \in Node, epochByNode'[p][n] # NoEpoch
  PROVE  Asked(p, n) \/ epochByNode[p][n] # NoEpoch
<1>1. CASE \E m \in Node : PollAnswered(p, m)
  <2>1. PICK m \in Node : PollAnswered(p, m)
    BY <1>1
  <2>2. poll[p][m] = "served" /\ (n # m => epochByNode'[p][n] = epochByNode[p][n])
    BY <2>1 DEF PollAnswered, TypeOK
  <2> QED BY <2>2 DEF Asked
<1>2. CASE Crash(p)
  BY <1>2 DEF Crash, TypeOK
<1>3. CASE ~Crash(p) /\ ~\E m \in Node : PollAnswered(p, m)
  <2>1. epochByNode' = epochByNode
    BY <1>3 DEF TickStep, TickFault, TickStart, TakeRetained, LoadAcks, TakeCohort, PollSend, PollServed,
             PersistStale, PersistCommit, TickEnd, SettleCollection, LoadAcksFails, PollAnswerLost,
             PollRequestLost, PersistFails, PersistInDoubt
  <2> QED BY <2>1
<1> QED BY <1>1, <1>2, <1>3

\* Contact is inductive,
LEMMA NextContact ==
  ASSUME Separate, TypeOK, Origin, Control, Contact, [Next]_vars PROVE Contact'
<1>1. \A n \in Node : Known(n) => Known(n)'
  BY KnownStays
<1>2. ASSUME NEW n \in Node PROVE empties'[n] <= 1 /\ (empties'[n] = 1 => Known(n)')
  <2>1. CASE \E p \in Panel : LoadAcks(p)
    <3>1. PICK p \in Panel : LoadAcks(p)
      BY <2>1
    <3>2. empties[n] \in Nat
      BY DEF TypeOK
    <3>3. CASE poll[p][n] = "queued" /\ AckFor(p, n) = EmptyAck
      <4>1. empties'[n] = empties[n] + 1
        BY <3>1, <3>3 DEF LoadAcks
      <4>2. ~Known(n)
        BY <3>3, EmptyAckFor
      <4>3. Known(n)'
        BY <3>1, <3>3, LoadKnown
      <4> QED BY <3>2, <4>1, <4>2, <4>3 DEF Contact
    <3>4. CASE ~(poll[p][n] = "queued" /\ AckFor(p, n) = EmptyAck)
      <4>1. empties'[n] = empties[n]
        BY <3>1, <3>4 DEF LoadAcks
      <4> QED BY <1>1, <4>1 DEF Contact
    <3> QED BY <3>3, <3>4
  <2>2. CASE ~\E p \in Panel : LoadAcks(p)
    <3>1. empties' = empties
      <4>1. CASE UNCHANGED vars
        BY <4>1 DEF vars, pastVars
      <4>2. CASE Environment
        BY <4>2 DEF Environment, Traffic, Restart, ResetUsage, DeleteUser, EditNode, pastVars
      <4>3. ASSUME NEW p \in Panel, TickStep(p) \/ TickFault(p) PROVE empties' = empties
        BY <2>2, <4>3 DEF TickStep, TickFault, TickStart, TakeRetained, TakeCohort, PollSend, PollServed,
             PollAnswered, PersistStale, PersistCommit, TickEnd, SettleCollection, LoadAcksFails,
             PollAnswerLost, PollRequestLost, PersistFails, PersistInDoubt, Crash, pastVars
      <4> QED BY <4>1, <4>2, <4>3 DEF Next
    <3> QED BY <1>1, <3>1 DEF Contact
  <2> QED BY <2>1, <2>2
<1>3. ASSUME NEW n \in Node, heldBatch'[InitialProc[n]] # NoBatch PROVE Known(n)'
  <2> DEFINE q == InitialProc[n]
  <2>0. q \in Proc
    BY ConstantsAssumption
  <2>1. ASSUME NEW r \in Proc, NEW saved \in BOOLEAN, Restart(r, saved) PROVE heldBatch[q] # NoBatch
    BY <1>3, <2>0, <2>1 DEF Restart, TypeOK
  <2>2. ASSUME NEW p \in Panel, NEW m \in Node, PollServed(p, m) PROVE Known(n)
    <3>1. m = n => Known(n)
      BY <2>2 DEF PollServed, Contact, Asked
    <3>2. ASSUME m # n PROVE heldBatch'[q] = heldBatch[q]
      <4>1. InitialProc[m] # q /\ InitialProc[m] \in Proc /\ procOf[m] = InitialProc[m] /\ acks[p][m] \in Ack
        BY <3>2, ConstantsAssumption DEF Separate, Origin, TypeOK
      <4>2. NodeServes(InitialProc[m], acks[p][m])
        BY <2>2, <4>1 DEF PollServed
      <4> QED BY <2>0, <4>1, <4>2, ServeOrigin
    <3> QED BY <1>3, <3>1, <3>2 DEF Contact
  <2>3. CASE UNCHANGED heldBatch
    BY <1>1, <1>3, <2>3 DEF Contact
  <2>4. CASE UNCHANGED vars
    BY <2>3, <2>4 DEF vars, nodeVars
  <2>5. CASE Environment
    BY <1>1, <2>1, <2>3, <2>5 DEF Environment, Traffic, ResetUsage, DeleteUser, EditNode, nodeVars, Contact
  <2>6. ASSUME NEW p \in Panel, TickStep(p) \/ TickFault(p) PROVE Known(n)'
    BY <1>1, <2>2, <2>3, <2>6 DEF TickStep, TickFault, TickStart, TakeRetained, LoadAcks, TakeCohort, PollSend,
         PollAnswered, PersistStale, PersistCommit, TickEnd, SettleCollection, LoadAcksFails,
         PollAnswerLost, PollRequestLost, PersistFails, PersistInDoubt, Crash, nodeVars
  <2> QED BY <2>4, <2>5, <2>6 DEF Next
<1>4. ASSUME NEW r \in Panel, NEW n \in Node, Asked(r, n)' \/ epochByNode'[r][n] # NoEpoch PROVE Known(n)'
  <2>1. CASE Environment \/ UNCHANGED vars
    <3>1. UNCHANGED <<poll, pc, cohort, epochByNode>>
      BY <2>1, EnvironmentKeepsTick DEF vars, tickVars
    <3> QED BY <1>1, <1>4, <3>1 DEF Contact, Asked
  <2>2. ASSUME NEW p \in Panel, TickStep(p) \/ TickFault(p) PROVE Known(n)'
    <3>1. CASE r = p
      BY <1>1, <1>4, <2>2, <3>1, AskedBefore, EpochBefore, LoadKnown DEF Contact, Control
    <3>2. CASE r # p
      <4>1. pc'[r] = pc[r] /\ poll'[r] = poll[r] /\ cohort'[r] = cohort[r] /\ epochByNode'[r] = epochByNode[r]
        BY <2>2, <3>2, OthersKeepTick
      <4> QED BY <1>1, <1>4, <4>1 DEF Contact, Asked
    <3> QED BY <3>1, <3>2
  <2> QED BY <2>1, <2>2 DEF Next
<1> QED BY <1>2, <1>3, <1>4 DEF Contact

\* and holds at the start.
LEMMA InitContact == Init => Contact
<1> SUFFICES ASSUME Init PROVE Contact
  OBVIOUS
<1>1. /\ \A n \in Node : empties[n] = 0
      /\ \A p \in Panel, n \in Node : poll[p][n] = "none" /\ epochByNode[p][n] = NoEpoch
      /\ \A q \in Proc : heldBatch[q] = NoBatch
  BY DEF Init
<1> QED BY <1>1, ConstantsAssumption DEF Contact, Asked

\* A request with the empty acknowledgement, on which a node forgets the batch
\* it holds, is prepared at most once per node id (acks_for_request), whatever
\* crashes, restarts and lost answers follow and however many recorders run,
\* provided every node id reaches a process of its own and none is edited.
THEOREM FirstContactOnce == ASSUME Separate, "edit" \notin Faults PROVE Spec => []EmptyAckOnce
<1> DEFINE Inv == TypeOK /\ Origin /\ Control /\ Contact
<1>1. Init => Inv
  BY InitTypeOK, InitOrigin, InitControl, InitContact
<1>2. Inv /\ [Next]_vars /\ (edited = {})' => Inv'
  BY NextTypeOK, NextOrigin, NextControl, NextContact
<1>3. Inv => EmptyAckOnce
  BY DEF Contact, EmptyAckOnce
<1> HIDE DEF Inv
<1> QED BY <1>1, <1>2, <1>3, NeverEdited, PTL DEF Spec

----------------------------------------------------------------------------
(* Batch numbers *)

\* A batch was numbered by a start of its process, not later than the last.
Numbered(b, q, bt, sq) ==
  b.epoch # NoEpoch => b.epoch[2] <= bt[q] /\ (b.epoch[2] = bt[q] => b.id <= sq[q])

\* No batch and no row runs ahead of the numbers its process gave out.
Numbers ==
  /\ \A e \in Epoch : row[e] > 0 => e[2] <= boot[e[1]] /\ (e[2] = boot[e[1]] => row[e] <= seq[e[1]])
  /\ \A q \in Proc : Numbered(heldBatch[q], q, boot, seq)
  /\ \A p \in Panel, n \in Node : Numbered(answer[p][n], InitialProc[n], boot, seq)
  /\ \A p \in Panel, n \in Node : Numbered(cohort[p].params[n], InitialProc[n], boot, seq)

numberVars == <<row, boot, seq, heldBatch, answer, cohort>>

\* Steps that leave numbers and batches alone keep Numbers.
LEMMA KeepNumbers == Numbers /\ UNCHANGED numberVars => Numbers'
BY DEF Numbers, numberVars

\* The empty batch has no number.
LEMMA NoBatchNumbered == ASSUME NEW q, NEW bt, NEW sq PROVE Numbered(NoBatch, q, bt, sq)
BY DEF Numbered, NoBatch

\* Numbers of a process only grow, or start again under a new epoch.
LEMMA NumberedGrows ==
  ASSUME NEW b \in StatBatch, NEW q \in Proc, NEW bt \in [Proc -> Boot], NEW sq \in [Proc -> Nat],
         NEW bu \in [Proc -> Boot], NEW sr \in [Proc -> Nat],
         Numbered(b, q, bt, sq),
         bt[q] < bu[q] \/ (bt[q] = bu[q] /\ sq[q] <= sr[q])
  PROVE  Numbered(b, q, bu, sr)
<1>1. b.id \in Nat /\ bt[q] \in Nat /\ bu[q] \in Nat /\ sq[q] \in Nat /\ sr[q] \in Nat
  BY DEF StatBatch, Boot
<1>2. b.epoch # NoEpoch => b.epoch[2] \in Nat
  BY DEF StatBatch, Epoch, Boot
<1> QED BY <1>1, <1>2 DEF Numbered

\* So every batch stays numbered while numbers grow.
LEMMA AllNumbersGrow ==
  ASSUME TypeOK, TypeOK', Origin, Numbers, UNCHANGED row,
         \A q \in Proc : boot[q] < boot'[q] \/ (boot[q] = boot'[q] /\ seq[q] <= seq'[q])
  PROVE  /\ \A e \in Epoch : row'[e] > 0 =>
              e[2] <= boot'[e[1]] /\ (e[2] = boot'[e[1]] => row'[e] <= seq'[e[1]])
         /\ \A q \in Proc : Numbered(heldBatch[q], q, boot', seq')
         /\ \A p \in Panel, n \in Node : Numbered(answer[p][n], InitialProc[n], boot', seq')
         /\ \A p \in Panel, n \in Node : Numbered(cohort[p].params[n], InitialProc[n], boot', seq')
<1>1. boot \in [Proc -> Boot] /\ boot' \in [Proc -> Boot] /\ seq \in [Proc -> Nat] /\ seq' \in [Proc -> Nat]
  BY DEF TypeOK
<1>2. \A e \in Epoch : row'[e] > 0 =>
        e[2] <= boot'[e[1]] /\ (e[2] = boot'[e[1]] => row'[e] <= seq'[e[1]])
  <2>1. SUFFICES ASSUME NEW e \in Epoch, row[e] > 0
                 PROVE  e[2] <= boot'[e[1]] /\ (e[2] = boot'[e[1]] => row[e] <= seq'[e[1]])
    OBVIOUS
  <2>2. e[1] \in Proc /\ e[2] \in Nat /\ row[e] \in Nat
    BY DEF Epoch, Boot, TypeOK
  <2>3. boot[e[1]] \in Nat /\ boot'[e[1]] \in Nat /\ seq[e[1]] \in Nat /\ seq'[e[1]] \in Nat
    BY <1>1, <2>2 DEF Boot
  <2>4. e[2] <= boot[e[1]] /\ (e[2] = boot[e[1]] => row[e] <= seq[e[1]])
    BY <2>1 DEF Numbers
  <2> QED BY <2>2, <2>3, <2>4
<1>3. \A q \in Proc : Numbered(heldBatch[q], q, boot', seq')
  BY <1>1, NumberedGrows, BatchTypes DEF Numbers
<1>4. \A n \in Node : InitialProc[n] \in Proc
  BY ConstantsAssumption
<1>5. \A p \in Panel, n \in Node : Numbered(answer[p][n], InitialProc[n], boot', seq')
  BY <1>1, <1>4, NumberedGrows, BatchTypes DEF Numbers
<1>6. \A p \in Panel, n \in Node : Numbered(cohort[p].params[n], InitialProc[n], boot', seq')
  BY <1>1, <1>4, NumberedGrows, BatchTypes DEF Numbers
<1> QED BY <1>2, <1>3, <1>5, <1>6

\* A write sets a row to the number of a batch.
LEMMA WriteNumbers ==
  ASSUME Separate, TypeOK, Origin, Numbers, NEW p \in Panel, Write(cohort[p]), UNCHANGED <<boot, seq>>
  PROVE  \A e \in Epoch : row'[e] > 0 =>
           e[2] <= boot'[e[1]] /\ (e[2] = boot'[e[1]] => row'[e] <= seq'[e[1]])
<1> DEFINE co == cohort[p]
<1>0. co \in Cohort /\ \A m \in Node : IsOf(co.params[m], InitialProc[m], born)
  BY DEF TypeOK, Origin
<1>1. SUFFICES ASSUME NEW e \in Epoch, SettledRow(co, e) > 0
               PROVE  e[2] <= boot[e[1]] /\ (e[2] = boot[e[1]] => SettledRow(co, e) <= seq[e[1]])
  BY DEF Write
<1>2. PICK n \in Node : e[1] = InitialProc[n]
  BY <1>0, <1>1, NoStrangeRow
<1>3. CASE n \notin Live(co)
  <2>1. SettledRow(co, e) = row[e]
    BY <1>0, <1>2, <1>3, RowsAfterWrite
  <2> QED BY <1>1, <2>1 DEF Numbers
<1>4. CASE n \in Live(co)
  <2>1. co.params[n].epoch = e
    BY <1>0, <1>1, <1>2, <1>4, RowsAfterWrite
  <2>2. SettledRow(co, e) = IF row[e] <= co.params[n].id THEN co.params[n].id ELSE row[e]
    BY <1>0, <1>2, <1>4, <2>1, RowsAfterWrite
  <2>3. e[2] <= boot[e[1]] /\ (e[2] = boot[e[1]] => co.params[n].id <= seq[e[1]])
    BY <1>2, <2>1, ConstantsAssumption DEF Numbers, Numbered
  <2>4. row[e] > 0 => (e[2] = boot[e[1]] => row[e] <= seq[e[1]])
    BY DEF Numbers
  <2>5. row[e] \in Nat /\ co.params[n].id > 0
    BY <1>4 DEF TypeOK, Live
  <2>6. co.params[n].id \in Nat
    BY <1>0 DEF Cohort, StatBatch
  <2> HIDE DEF co
  <2> QED BY <2>2, <2>3, <2>4, <2>5, <2>6
<1> QED BY <1>3, <1>4

\* Numbers is inductive,
LEMMA NextNumbers ==
  ASSUME Separate, TypeOK, TypeOK', Origin, Control, Numbers, [Next]_vars PROVE Numbers'
<1>0. \A q \in Proc : boot[q] \in Nat /\ seq[q] \in Nat
  BY DEF TypeOK, Boot
<1>00. \A n \in Node : NoCohort.params[n] = NoBatch
  BY DEF NoCohort
<1>1. CASE UNCHANGED vars
  BY <1>1, KeepNumbers DEF vars, nodeVars, ackVars, tickVars, numberVars
<1>2. ASSUME NEW q \in Proc, NEW saved \in BOOLEAN, Restart(q, saved) PROVE Numbers'
  <2>1. \A r \in Proc : boot[r] < boot'[r] \/ (boot[r] = boot'[r] /\ seq[r] <= seq'[r])
    BY <1>0, <1>2 DEF Restart, TypeOK
  <2>2. \A r \in Proc : heldBatch'[r] \in {heldBatch[r], NoBatch}
    BY <1>2 DEF Restart, TypeOK
  <2>3. UNCHANGED <<row, answer, cohort>>
    BY <1>2 DEF Restart, ackVars, tickVars
  <2> QED BY <2>1, <2>2, <2>3, AllNumbersGrow, NoBatchNumbered DEF Numbers
<1>3. CASE Environment
  BY <1>2, <1>3, KeepNumbers DEF Environment, Traffic, ResetUsage, DeleteUser, EditNode, nodeVars, ackVars,
                                 tickVars, numberVars
<1>4. ASSUME NEW p \in Panel, NEW n \in Node, PollServed(p, n) PROVE Numbers'
  <2> DEFINE q == InitialProc[n]
             ack == acks[p][n]
             resp == Response(q, ack)
  <2>1. q \in Proc /\ ack \in Ack /\ procOf[n] = q
    BY ConstantsAssumption DEF TypeOK, Origin
  <2>2. NodeServes(q, ack) /\ answer' = [answer EXCEPT ![p][n] = resp] /\ UNCHANGED <<row, boot, cohort>>
    BY <1>4, <2>1 DEF PollServed, NodeServes, ackVars
  <2>3. \A r \in Panel, m \in Node : answer'[r][m] = IF r = p /\ m = n THEN resp ELSE answer[r][m]
    BY <2>2 DEF TypeOK
  <2>4. heldBatch[q].id = 0 => heldBatch[q] = NoBatch
    BY <2>1 DEF Origin
  <2>5. \/ Resent(q, resp) \/ Forgets(q, resp) \/ Idles(q, resp) \/ Drained(q, resp)
    BY <2>1, <2>2, <2>4, ServeCases
  <2>6. \A r \in Proc : boot[r] < boot'[r] \/ (boot[r] = boot'[r] /\ seq[r] <= seq'[r])
    <3>1. seq' = seq \/ seq' = [seq EXCEPT ![q] = seq[q] + 1]
      BY <2>5 DEF Resent, Forgets, Idles, Drained
    <3>2. seq \in [Proc -> Nat]
      BY DEF TypeOK
    <3>3. \A r \in Proc : seq[r] <= seq'[r]
      BY <3>1, <3>2
    <3> QED BY <2>2, <3>3
  <2>7. /\ Numbered(resp, q, boot', seq')
        /\ \A r \in Proc : heldBatch'[r] \in {heldBatch[r], NoBatch, resp}
        /\ \A r \in Proc : heldBatch'[r] = resp => r = q \/ heldBatch'[r] = heldBatch[r]
    <3>0. Numbered(heldBatch[q], q, boot', seq') /\ heldBatch \in [Proc -> StatBatch]
      BY <2>1, <2>2, <2>6, AllNumbersGrow DEF TypeOK
    <3>1. CASE Resent(q, resp)
      BY <3>0, <3>1 DEF Resent
    <3>2. CASE Forgets(q, resp)
      BY <3>0, <3>2 DEF Forgets, Numbered
    <3>3. CASE Idles(q, resp)
      <4>1. /\ resp.epoch[2] = boot'[q] /\ resp.id = 0
            /\ \A r \in Proc : heldBatch'[r] = IF r = q THEN NoBatch ELSE heldBatch[r]
        BY <2>1, <2>2, <3>0, <3>3 DEF Idles
      <4>2. boot'[q] \in Nat /\ seq'[q] \in Nat
        BY <1>0, <2>1, <2>2, <3>3 DEF Idles
      <4>3. Numbered(resp, q, boot', seq')
        BY <4>1, <4>2 DEF Numbered
      <4> QED BY <4>1, <4>3
    <3>4. CASE Drained(q, resp)
      BY <1>0, <2>1, <2>2, <3>0, <3>4 DEF Drained, Numbered, TypeOK
    <3> QED BY <2>5, <3>1, <3>2, <3>3, <3>4
  <2>8. \A r \in Proc : Numbered(heldBatch'[r], r, boot', seq')
    BY <2>2, <2>6, <2>7, AllNumbersGrow, NoBatchNumbered
  <2>9. \A r \in Panel, m \in Node : Numbered(answer'[r][m], InitialProc[m], boot', seq')
    BY <2>2, <2>3, <2>6, <2>7, AllNumbersGrow
  <2> QED BY <2>2, <2>6, <2>8, <2>9, AllNumbersGrow DEF Numbers
<1>5. ASSUME NEW p \in Panel, TakeRetained(p) PROVE Numbers'
  <2>1. retained[p] \in Seq(Cohort) /\ retained[p] # <<>>
    BY <1>5 DEF TakeRetained, TypeOK
  <2>2. /\ cohort'[p] = retained[p][1] /\ 1 \in DOMAIN retained[p]
        /\ \A r \in Panel : r # p => cohort'[r] = cohort[r]
        /\ UNCHANGED <<row, boot, seq, heldBatch, answer>>
    BY <1>5, <2>1, SeqTail DEF TakeRetained, TypeOK, nodeVars, ackVars
  <2>3. \A n \in Node : cohort'[p].params[n].epoch = NoEpoch
    BY <2>2 DEF Control, ControlOf, KeptShape, NoBatch
  <2>4. \A r \in Panel, n \in Node : Numbered(cohort'[r].params[n], InitialProc[n], boot, seq)
    BY <2>2, <2>3 DEF Numbers, Numbered
  <2> QED BY <2>2, <2>4 DEF Numbers
<1>6. ASSUME NEW p \in Panel, TakeCohort(p) PROVE Numbers'
  <2>1. \A r \in Panel, n \in Node : answer'[r][n] \in {answer[r][n], NoBatch}
    BY <1>6 DEF TakeCohort, TypeOK
  <2>2. \A r \in Panel, n \in Node :
          cohort'[r].params[n] \in {cohort[r].params[n], answer[r][n], NoBatch}
    BY <1>6 DEF TakeCohort, TypeOK
  <2>3. \A r \in Panel, n \in Node : Numbered(answer'[r][n], InitialProc[n], boot, seq)
    BY <2>1, NoBatchNumbered DEF Numbers
  <2>4. \A r \in Panel, n \in Node : Numbered(cohort'[r].params[n], InitialProc[n], boot, seq)
    BY <2>2, NoBatchNumbered DEF Numbers
  <2> QED BY <1>6, <2>3, <2>4 DEF TakeCohort, Numbers, nodeVars, ackVars
<1>7. ASSUME NEW p \in Panel, PersistStale(p) PROVE Numbers'
  <2>1. ASSUME NEW r \in Panel, NEW n \in Node PROVE Numbered(cohort'[r].params[n], InitialProc[n], boot, seq)
    <3>1. Numbered(cohort[r].params[n], InitialProc[n], boot, seq)
      BY DEF Numbers
    <3>2. \/ cohort'[r].params[n] = cohort[r].params[n]
          \/ cohort'[r].params[n] =
               [epoch |-> cohort[r].params[n].epoch, id |-> cohort[r].params[n].id, data |-> {}]
      BY <1>7, StaleEffect
    <3> QED BY <3>1, <3>2 DEF Numbered
  <2> QED BY <1>7, <2>1 DEF PersistStale, Numbers, nodeVars, ackVars
<1>8. ASSUME NEW p \in Panel, PersistCommit(p) PROVE Numbers'
  <2>1. \A r \in Panel, n \in Node : cohort'[r].params[n] \in {cohort[r].params[n], NoBatch}
    BY <1>00, <1>8 DEF PersistCommit, TypeOK
  <2>2. UNCHANGED <<boot, seq, heldBatch, answer>> /\ Write(cohort[p])
    BY <1>8 DEF PersistCommit, nodeVars
  <2> QED BY <2>1, <2>2, NoBatchNumbered, WriteNumbers DEF Numbers
<1>9. ASSUME NEW p \in Panel, NEW b \in BOOLEAN, PersistFails(p, b) \/ PersistInDoubt(p, b) PROVE Numbers'
  <2>0. cohort' = [cohort EXCEPT ![p] = NoCohort]
    BY <1>9 DEF PersistFails, PersistInDoubt, AfterFailure
  <2>1. \A r \in Panel, n \in Node : cohort'[r].params[n] \in {cohort[r].params[n], NoBatch}
    BY <1>00, <2>0 DEF TypeOK
  <2>2. UNCHANGED <<boot, seq, heldBatch, answer>> /\ (Write(cohort[p]) \/ UNCHANGED row)
    BY <1>9 DEF PersistFails, PersistInDoubt, nodeVars, ackVars
  <2> QED BY <2>1, <2>2, NoBatchNumbered, WriteNumbers DEF Numbers
<1>10. ASSUME NEW p \in Panel, \/ SettleCollection(p) \/ Crash(p)
                               \/ \E n \in Node : PollAnswerLost(p, n) PROVE Numbers'
  <2>1. \A r \in Panel, n \in Node : /\ answer'[r][n] \in {answer[r][n], NoBatch}
                                     /\ cohort'[r].params[n] \in {cohort[r].params[n], NoBatch}
    <3>1. CASE SettleCollection(p)
      BY <3>1 DEF SettleCollection, TypeOK
    <3>2. CASE Crash(p)
      BY <1>00, <3>2 DEF Crash, TypeOK
    <3>3. CASE \E n \in Node : PollAnswerLost(p, n)
      BY <3>3 DEF PollAnswerLost, TypeOK
    <3> QED BY <1>10, <3>1, <3>2, <3>3
  <2>2. UNCHANGED <<row, boot, seq, heldBatch>>
    BY <1>10 DEF SettleCollection, Crash, PollAnswerLost, nodeVars, ackVars
  <2> QED BY <2>1, <2>2, NoBatchNumbered DEF Numbers
<1>11. ASSUME NEW p \in Panel,
              \/ \E healthy \in SUBSET Node : TickStart(p, healthy)
              \/ LoadAcks(p) \/ TickEnd(p) \/ LoadAcksFails(p)
              \/ \E n \in Node : PollSend(p, n) \/ PollAnswered(p, n) \/ PollRequestLost(p, n) PROVE Numbers'
  BY <1>11, KeepNumbers DEF TickStart, LoadAcks, TickEnd, LoadAcksFails, PollSend, PollAnswered,
                            PollRequestLost, nodeVars, ackVars, numberVars
<1> QED BY <1>1, <1>3, <1>4, <1>5, <1>6, <1>7, <1>8, <1>9, <1>10, <1>11 DEF Next, TickStep, TickFault

\* and holds at the start.
LEMMA InitNumbers == Init => Numbers
<1> SUFFICES ASSUME Init PROVE Numbers
  OBVIOUS
<1>1. \A p \in Panel, n \in Node : answer[p][n] = NoBatch /\ cohort[p].params[n] = NoBatch
  BY DEF Init, NoCohort
<1>2. /\ \A q \in Proc : heldBatch[q] = NoBatch
      /\ \A e \in Epoch : row[e] = 0
  BY DEF Init
<1> QED BY <1>1, <1>2, NoBatchNumbered DEF Numbers

----------------------------------------------------------------------------
(* The account of every batch *)

\* One recorder process: leadership does not overlap.
OneRecorder == \A p, r \in Panel : p = r

\* A batch at or below its epoch's row was billed or fenced as a whole, and a
\* batch above it not at all.
Fresh(b, ids, done) ==
  b.id > 0 => IF b.id <= ids[b.epoch] THEN b.data \subseteq done ELSE b.data \cap done = {}

Ledger ==
  /\ \A q \in Proc : Fresh(heldBatch[q], row, Settled)
  /\ \A p \in Panel, n \in Node : Fresh(answer[p][n], row, Settled)
  /\ \A p \in Panel, n \in Node : Fresh(cohort[p].params[n], row, Settled)

\* What the recorder has of a batch in a cohort, h being what the node has.
Agrees(b, h, ackOnly, ids) ==
  b.id > 0 =>
    /\ h = NoBatch \/ (h.epoch = b.epoch /\ h.id = b.id)
    /\ ackOnly => b.data = {} /\ b.id <= ids[b.epoch]
    /\ ~ackOnly => h = NoBatch \/ h = b

\* A batch on its way is the one its node holds, unless the node lost it.
Match ==
  \A p \in Panel, n \in Node :
    /\ answer[p][n].id > 0 => heldBatch[InitialProc[n]] \in {NoBatch, answer[p][n]}
    /\ Agrees(cohort[p].params[n], heldBatch[InitialProc[n]], n \in cohort[p].ackOnly, row)

\* A prepared acknowledgement drops only what was settled.
AckSafe ==
  \A p \in Panel, n \in Node :
    poll[p][n] \in {"queued", "sent"} /\ Asked(p, n) /\ AckDrops(InitialProc[n], acks[p][n])
      => heldBatch[InitialProc[n]].data \subseteq Settled

\* Traffic still counted, and traffic that only the recorder has, is in one
\* place and not settled.
Apart ==
  /\ \A q \in Proc : counters[q] \cap Settled = {} /\ counters[q] \cap heldBatch[q].data = {}
  /\ \A q \in Proc : \A p \in Panel, n \in Node :
       /\ counters[q] \cap answer[p][n].data = {}
       /\ counters[q] \cap cohort[p].params[n].data = {}
       /\ \A i \in DOMAIN retained[p] : counters[q] \cap retained[p][i].params[n].data = {}
  /\ \A p \in Panel, n \in Node :
       /\ answer[p][n].epoch = NoEpoch => answer[p][n].data \cap Settled = {}
       /\ cohort[p].params[n].epoch = NoEpoch => cohort[p].params[n].data \cap Settled = {}
       /\ \A i \in DOMAIN retained[p] :
            /\ retained[p][i].params[n].data \cap Settled = {}
            /\ retained[p][i].params[n].data \cap answer[p][n].data = {}
            /\ retained[p][i].params[n].data \cap cohort[p].params[n].data = {}
            /\ \A j \in DOMAIN retained[p] : i # j =>
                 retained[p][i].params[n].data \cap retained[p][j].params[n].data = {}

SettledBorn == \A c \in Settled : born[c] # {}

Account == Ledger /\ Match /\ AckSafe /\ Apart /\ SettledBorn /\ NoDoubleBilling

\* How often calculate_users_usage counts a chunk.
LEMMA TimesValue ==
  ASSUME NEW co \in Cohort, NEW c \in Chunk
  PROVE  /\ Times(co, c) \in Nat
         /\ c \in DataOf(co.params, co.nodes) <=> Times(co, c) > 0
         /\ (\A m, n \in co.nodes : c \in co.params[m].data /\ c \in co.params[n].data => m = n)
              => Times(co, c) <= 1
<1> DEFINE with == {n \in co.nodes : c \in co.params[n].data}
<1>1. with \in SUBSET Node
  BY DEF Cohort
<1>2. IsFiniteSet(with)
  BY <1>1, ConstantsAssumption, FS_Subset
<1>3. Times(co, c) = Cardinality(with)
  BY DEF Times
<1>4. c \in DataOf(co.params, co.nodes) <=> with # {}
  BY DEF DataOf
<1>5. ASSUME \A m, n \in co.nodes : c \in co.params[m].data /\ c \in co.params[n].data => m = n
      PROVE  with = {} \/ \E n : with = {n}
  <2>1. CASE with # {}
    <3>1. PICK n \in with : TRUE
      BY <2>1
    <3>2. with = {n}
      BY <1>5, <3>1
    <3> QED BY <3>2
  <2> QED BY <2>1
<1> HIDE DEF with
<1>6. Cardinality(with) \in Nat /\ (Cardinality(with) = 0 <=> with = {})
  BY <1>2, FS_CardinalityType, FS_EmptySet
<1>8. c \in DataOf(co.params, co.nodes) <=> Times(co, c) > 0
  BY <1>3, <1>4, <1>6
<1>9. ASSUME \A m, n \in co.nodes : c \in co.params[m].data /\ c \in co.params[n].data => m = n
      PROVE  Times(co, c) <= 1
  <2>1. CASE with = {}
    BY <1>3, <1>6, <2>1
  <2>2. ASSUME NEW n, with = {n} PROVE Times(co, c) <= 1
    <3>1. Cardinality({n}) = 1
      BY FS_Singleton
    <3>2. Times(co, c) = 1
      BY <1>3, <2>2, <3>1
    <3> QED BY <3>2
  <2> QED BY <1>5, <1>9, <2>1, <2>2
<1> QED BY <1>3, <1>6, <1>8, <1>9

\* The transaction settles what the cohort carries, and bills it once if it
\* carries it once.
LEMMA WriteSettles ==
  ASSUME TypeOK, NEW co \in Cohort, Write(co)
  PROVE  /\ Settled' = Settled \cup DataOf(co.params, co.nodes)
         /\ \A c \in Chunk : c \notin DataOf(co.params, co.nodes) => bills'[c] = bills[c]
         /\ \A c \in Chunk :
              (\A m, n \in co.nodes : c \in co.params[m].data /\ c \in co.params[n].data => m = n)
                => bills'[c] <= bills[c] + 1
<1> DEFINE all == DataOf(co.params, co.nodes)
<1>1. \A c \in Chunk : Times(co, c) \in Nat /\ (c \in all <=> Times(co, c) > 0)
  BY TimesValue
<1>2. all \in SUBSET Chunk
  BY DataOfType DEF Cohort
<1>3. \A c \in Chunk : bills[c] \in Nat /\ bills'[c] = IF Unfenced(co, c) THEN bills[c] + Times(co, c) ELSE bills[c]
  BY DEF Write, TypeOK
<1>4. dropped' = dropped \cup {c \in all : ~Unfenced(co, c)} /\ dropped \in SUBSET Chunk
  BY DEF Write, TypeOK
<1>5. ASSUME NEW c \in Chunk PROVE c \in Settled' <=> c \in Settled \cup all
  <2>1. c \in Settled' <=> (bills'[c] > 0 \/ c \in dropped')
    BY DEF Settled
  <2>2. c \in Settled <=> (bills[c] > 0 \/ c \in dropped)
    BY DEF Settled
  <2>3. c \in all <=> Times(co, c) > 0
    BY <1>1
  <2>4. CASE Unfenced(co, c)
    <3>1. bills'[c] > 0 <=> (bills[c] > 0 \/ Times(co, c) > 0)
      BY <1>1, <1>3, <2>4
    <3>2. c \in dropped' <=> c \in dropped
      BY <1>4, <2>4
    <3> QED BY <2>1, <2>2, <2>3, <3>1, <3>2
  <2>5. CASE ~Unfenced(co, c)
    <3>1. c \in dropped' <=> (c \in dropped \/ c \in all)
      BY <1>4, <2>5
    <3>2. bills'[c] = bills[c]
      BY <1>3, <2>5
    <3> QED BY <2>1, <2>2, <3>1, <3>2
  <2> QED BY <2>4, <2>5
<1>6. Settled \subseteq Chunk /\ Settled' \subseteq Chunk
  BY <1>2, <1>4 DEF Settled
<1>7. \A c \in Chunk : c \notin all => bills'[c] = bills[c]
  BY <1>1, <1>3
<1>8. ASSUME NEW c \in Chunk,
             \A m, n \in co.nodes : c \in co.params[m].data /\ c \in co.params[n].data => m = n
      PROVE  bills'[c] <= bills[c] + 1
  <2>1. Times(co, c) <= 1
    BY <1>8, TimesValue
  <2> QED BY <1>1, <1>3, <2>1
<1> HIDE DEF all
<1> QED BY <1>2, <1>5, <1>6, <1>7, <1>8 DEF all

\* What a cohort without stale batches carries was never settled.
LEMMA CohortUnsettled ==
  ASSUME TypeOK, Origin, Control, Account, NEW p \in Panel, StaleNodes(cohort[p]) = {}
  PROVE  \A n \in Node : cohort[p].params[n].data \cap Settled = {}
<1> DEFINE co == cohort[p]
<1>0. SUFFICES ASSUME NEW n \in Node, co.params[n].data # {} PROVE co.params[n].data \cap Settled = {}
  OBVIOUS
<1>1. CASE co.params[n].epoch = NoEpoch
  BY <1>1 DEF Account, Apart
<1>2. CASE co.params[n].epoch # NoEpoch
  <2>1. co.params[n] \in StatBatch /\ IsOf(co.params[n], InitialProc[n], born) /\ n \in co.nodes
    <3>1. co.params[n] # NoBatch
      BY <1>0 DEF NoBatch
    <3> QED BY <3>1, BatchTypes DEF Origin, Control, ControlOf, KeptShape
  <2>2. co.params[n].id > 0 /\ co.params[n].id \in Nat /\ co.params[n].epoch \in Epoch
    BY <1>0, <1>2, <2>1 DEF IsOf, StatBatch
  <2>3. n \notin co.ackOnly
    BY <1>0, <2>2 DEF Account, Match, Agrees
  <2>4. n \in Live(co)
    BY <1>2, <2>1, <2>2 DEF Live
  <2>5. ~(co.params[n].id <= row[co.params[n].epoch])
    BY <2>3, <2>4 DEF StaleNodes
  <2> QED BY <2>2, <2>5 DEF Account, Ledger, Fresh
<1> QED BY <1>1, <1>2

\* The transaction does not disturb the account of a process it settles no
\* batch of.
LEMMA WriteKeepsFresh ==
  ASSUME Separate, TypeOK, Origin, Control, NEW p \in Panel, Write(cohort[p]),
         NEW b \in StatBatch, NEW q \in Proc, IsOf(b, q, born), Fresh(b, row, Settled),
         \A n \in Node : q = InitialProc[n] => n \notin Live(cohort[p])
  PROVE  Fresh(b, row', Settled')
<1> DEFINE co == cohort[p]
           e == b.epoch
<1>0. co \in Cohort /\ \A m \in Node : co.params[m] \in StatBatch /\ IsOf(co.params[m], InitialProc[m], born)
  BY BatchTypes DEF TypeOK, Origin
<1>1. SUFFICES ASSUME b.id > 0 PROVE Fresh(b, row', Settled')
  BY DEF Fresh
<1>2. e \in Epoch /\ e[1] = q /\ q \notin LegacyProc
  BY <1>1 DEF IsOf, StatBatch
<1>3. row'[e] = row[e]
  <2>1. row'[e] = SettledRow(co, e)
    BY <1>2 DEF Write
  <2>2. CASE \E n \in Node : q = InitialProc[n]
    BY <1>0, <1>2, <2>1, <2>2, RowsAfterWrite
  <2>3. CASE ~\E n \in Node : q = InitialProc[n]
    BY <1>0, <1>2, <2>1, <2>3, NoStrangeRow
  <2> QED BY <2>2, <2>3
<1>4. b.data \cap DataOf(co.params, co.nodes) = {}
  <2>1. SUFFICES ASSUME NEW m \in co.nodes, NEW c \in b.data, c \in co.params[m].data PROVE FALSE
    BY DEF DataOf
  <2>2. m \in Node
    BY <1>0 DEF Cohort
  <2>3. IsOf(co.params[m], InitialProc[m], born) /\ co.params[m] \in StatBatch
    BY <1>0, <2>2
  <2>4. InitialProc[m] = q
    BY <2>1, <2>3 DEF IsOf
  <2>5. co.params[m].epoch # NoEpoch /\ co.params[m].id > 0
    BY <1>2, <2>1, <2>3, <2>4 DEF IsOf, StatBatch
  <2>6. m \in Live(co)
    BY <2>5 DEF Live
  <2> QED BY <2>2, <2>4, <2>6
<1>5. Settled' = Settled \cup DataOf(co.params, co.nodes)
  BY <1>0, WriteSettles
<1>6. b.data \cap Settled' = b.data \cap Settled /\ (b.data \subseteq Settled => b.data \subseteq Settled')
  BY <1>4, <1>5
<1> QED BY <1>3, <1>6 DEF Fresh

\* A node with an answer that is not taken up yet has no batch in the cohort.
LEMMA OneFlight ==
  ASSUME Control, NEW p \in Panel, NEW n \in Node, answer[p][n] # NoBatch
  PROVE  cohort[p].params[n] = NoBatch
BY DEF Control, ControlOf

\* The fields of the empty batch.
LEMMA EmptyData == NoBatch.data = {} /\ NoBatch.id = 0 /\ NoBatch.epoch = NoEpoch
BY DEF NoBatch

\* It is fresh,
LEMMA NoBatchFresh == ASSUME NEW ids, NEW done PROVE Fresh(NoBatch, ids, done)
BY EmptyData DEF Fresh

\* and agrees with everything.
LEMMA NoBatchAgrees == ASSUME NEW h, NEW a, NEW ids PROVE Agrees(NoBatch, h, a, ids)
BY EmptyData DEF Agrees

\* Two batches that share traffic belong to one node id.
LEMMA SharedOwner ==
  ASSUME Separate, NEW m \in Node, NEW n \in Node, NEW b, NEW d, NEW c,
         IsOf(b, InitialProc[m], born), IsOf(d, InitialProc[n], born), c \in b.data, c \in d.data
  PROVE  m = n
<1>1. {InitialProc[m]} = {InitialProc[n]}
  BY DEF IsOf
<1> QED BY <1>1 DEF Separate

\* A write settles a cohort without stale batches once, and nothing else.
LEMMA WriteAccount ==
  ASSUME Separate, TypeOK, Origin, Control, Account, NEW p \in Panel,
         StaleNodes(cohort[p]) = {}, Write(cohort[p]), UNCHANGED born
  PROVE  /\ NoDoubleBilling' /\ SettledBorn' /\ Settled \subseteq Settled'
         /\ \A q \in Proc : Fresh(heldBatch[q], row', Settled') /\ counters[q] \cap Settled' = {}
         /\ \A n \in Node :
              /\ Fresh(answer[p][n], row', Settled')
              /\ answer[p][n].epoch = NoEpoch => answer[p][n].data \cap Settled' = {}
              /\ \A i \in DOMAIN retained[p] : retained[p][i].params[n].data \cap Settled' = {}
<1> DEFINE co == cohort[p]
           all == DataOf(co.params, co.nodes)
<1>0. /\ co \in Cohort
      /\ \A m \in Node : co.params[m] \in StatBatch /\ IsOf(co.params[m], InitialProc[m], born)
      /\ co.nodes \subseteq Node
  BY BatchTypes DEF TypeOK, Origin, Cohort
<1>1. Settled' = Settled \cup all
  BY <1>0, WriteSettles
<1>2. \A c \in all : \E m \in Node : m \in co.nodes /\ c \in co.params[m].data
  BY <1>0 DEF DataOf
<1>3. all \subseteq Chunk /\ all \cap Settled = {}
  BY <1>0, <1>2, CohortUnsettled DEF StatBatch
<1>4. NoDoubleBilling'
  <2>1. SUFFICES ASSUME NEW c \in Chunk PROVE bills'[c] <= 1
    BY DEF NoDoubleBilling
  <2>2. bills[c] \in Nat
    BY DEF TypeOK
  <2>3. CASE c \in all
    <3>1. \A m, n \in co.nodes : c \in co.params[m].data /\ c \in co.params[n].data => m = n
      BY <1>0, SharedOwner
    <3>2. bills'[c] <= bills[c] + 1
      BY <1>0, <3>1, WriteSettles
    <3>3. ~(bills[c] > 0)
      BY <1>3, <2>3 DEF Settled
    <3>4. bills[c] = 0
      BY <2>2, <3>3
    <3> QED BY <3>2, <3>4
  <2>4. CASE c \notin all
    <3>1. bills'[c] = bills[c]
      BY <1>0, <2>4, WriteSettles
    <3> QED BY <3>1 DEF Account, NoDoubleBilling
  <2> QED BY <2>3, <2>4
<1>5. SettledBorn'
  <2>1. \A c \in all : born[c] # {}
    BY <1>0, <1>2 DEF IsOf
  <2> QED BY <1>1, <2>1 DEF Account, SettledBorn
<1>6. ASSUME NEW q \in Proc PROVE Fresh(heldBatch[q], row', Settled')
  <2> DEFINE h == heldBatch[q]
  <2>1. h \in StatBatch /\ IsOf(h, q, born) /\ Fresh(h, row, Settled)
    BY BatchTypes DEF Origin, Account, Ledger
  <2>2. CASE \A n \in Node : q = InitialProc[n] => n \notin Live(co)
    BY <2>1, <2>2, WriteKeepsFresh
  <2>3. ASSUME NEW n \in Node, q = InitialProc[n], n \in Live(co), h # NoBatch PROVE Fresh(h, row', Settled')
    <3> DEFINE b == co.params[n]
               e == b.epoch
    <3>1. b.id > 0 /\ b.id \in Nat /\ e \in Epoch /\ n \in co.nodes /\ e[1] = InitialProc[n]
      BY <1>0, <2>3 DEF Live, StatBatch, IsOf
    <3>2. Agrees(b, h, n \in co.ackOnly, row)
      BY <2>3 DEF Account, Match
    <3>3. h.epoch = e /\ h.id = b.id
      BY <2>3, <3>1, <3>2 DEF Agrees
    <3>4. row'[e] = IF row[e] <= b.id THEN b.id ELSE row[e]
      <4>1. SettledRow(co, e) = IF row[e] <= b.id THEN b.id ELSE row[e]
        BY <1>0, <2>3, <3>1, RowsAfterWrite
      <4> QED BY <3>1, <4>1 DEF Write
    <3>5. row[e] \in Nat
      BY <3>1 DEF TypeOK
    <3>6. b.id <= row'[e]
      BY <3>1, <3>4, <3>5
    <3>7. h.data \subseteq Settled'
      <4>1. CASE n \in co.ackOnly
        <5>1. b.id <= row[e]
          BY <3>1, <3>2, <4>1 DEF Agrees
        <5>2. h.data \subseteq Settled
          BY <2>1, <3>1, <3>3, <5>1 DEF Fresh
        <5> QED BY <1>1, <5>2
      <4>2. CASE n \notin co.ackOnly
        <5>1. h.data = b.data
          BY <2>3, <3>1, <3>2, <4>2 DEF Agrees
        <5>2. b.data \subseteq all
          BY <3>1 DEF DataOf
        <5> QED BY <1>1, <5>1, <5>2
      <4> QED BY <4>1, <4>2
    <3> QED BY <3>3, <3>6, <3>7 DEF Fresh
  <2>4. h = NoBatch => Fresh(h, row', Settled')
    BY NoBatchFresh
  <2> QED BY <2>2, <2>3, <2>4
<1>7. ASSUME NEW q \in Proc PROVE counters[q] \cap Settled' = {}
  BY <1>1, <1>2 DEF Account, Apart
<1>8. ASSUME NEW n \in Node PROVE Fresh(answer[p][n], row', Settled')
  <2>1. CASE answer[p][n] = NoBatch
    BY <2>1, NoBatchFresh
  <2>2. CASE answer[p][n] # NoBatch
    <3>1. n \notin Live(co)
      BY <2>2, OneFlight, EmptyData DEF Live
    <3>2. \A m \in Node : InitialProc[n] = InitialProc[m] => m \notin Live(co)
      BY <3>1 DEF Separate
    <3>3. /\ answer[p][n] \in StatBatch /\ InitialProc[n] \in Proc
          /\ IsOf(answer[p][n], InitialProc[n], born) /\ Fresh(answer[p][n], row, Settled)
      BY BatchTypes, ConstantsAssumption DEF Origin, Account, Ledger
    <3> QED BY <3>2, <3>3, WriteKeepsFresh
  <2> QED BY <2>1, <2>2
<1>9. ASSUME NEW n \in Node, answer[p][n].epoch = NoEpoch PROVE answer[p][n].data \cap Settled' = {}
  <2>1. answer[p][n].data \cap all = {}
    <3>1. SUFFICES ASSUME NEW c \in answer[p][n].data, c \in all PROVE FALSE
      OBVIOUS
    <3>2. PICK m \in Node : c \in co.params[m].data
      BY <1>2, <3>1
    <3>3. IsOf(answer[p][n], InitialProc[n], born)
      BY DEF Origin
    <3>4. m = n
      BY <1>0, <3>1, <3>2, <3>3, SharedOwner
    <3> QED BY <3>1, <3>2, <3>4, OneFlight, EmptyData
  <2> QED BY <1>1, <1>9, <2>1 DEF Account, Apart
<1>10. ASSUME NEW n \in Node, NEW i \in DOMAIN retained[p]
       PROVE  retained[p][i].params[n].data \cap Settled' = {}
  <2>1. retained[p][i].params[n].data \cap all = {}
    <3>1. SUFFICES ASSUME NEW c \in retained[p][i].params[n].data, c \in all PROVE FALSE
      OBVIOUS
    <3>2. PICK m \in Node : c \in co.params[m].data
      BY <1>2, <3>1
    <3>3. IsOf(retained[p][i].params[n], InitialProc[n], born)
      BY DEF Origin
    <3>4. m = n
      BY <1>0, <3>1, <3>2, <3>3, SharedOwner
    <3> QED BY <3>1, <3>2, <3>4 DEF Account, Apart
  <2> QED BY <1>1, <2>1 DEF Account, Apart
<1> QED BY <1>1, <1>4, <1>5, <1>6, <1>7, <1>8, <1>9, <1>10

\* A request on its way was prepared before.
LEMMA PollBefore ==
  ASSUME TypeOK, NEW p \in Panel, TickStep(p) \/ TickFault(p), NEW n \in Node,
         poll'[p][n] \in {"queued", "sent"}, Asked(p, n)'
  PROVE  poll[p][n] \in {"queued", "sent"}
<1>1. CASE \E healthy \in SUBSET Node : TickStart(p, healthy)
  <2>1. pc'[p] = "retained" /\ poll'[p][n] \in {"none", "queued"}
    BY <1>1 DEF TickStart, TypeOK
  <2> QED BY <2>1 DEF Asked
<1>2. CASE TakeRetained(p) \/ LoadAcks(p) \/ PersistStale(p) \/ PersistCommit(p)
  BY <1>2 DEF TakeRetained, LoadAcks, PersistStale, PersistCommit
<1>3. CASE \E m \in Node : PollSend(p, m) \/ PollServed(p, m) \/ PollAnswered(p, m)
  BY <1>3 DEF PollSend, PollServed, PollAnswered, TypeOK
<1>4. CASE TakeCohort(p)
  BY <1>4 DEF TakeCohort, TypeOK
<1>5. CASE TickEnd(p) \/ SettleCollection(p) \/ LoadAcksFails(p) \/ Crash(p)
  BY <1>5 DEF TickEnd, SettleCollection, LoadAcksFails, Crash, TypeOK
<1>6. CASE \E m \in Node : PollAnswerLost(p, m) \/ PollRequestLost(p, m)
  BY <1>6 DEF PollAnswerLost, PollRequestLost, TypeOK
<1>7. CASE \E b \in BOOLEAN : PersistFails(p, b) \/ PersistInDoubt(p, b)
  <2>1. PICK retriable \in BOOLEAN : AfterFailure(p, retriable)
    BY <1>7 DEF PersistFails, PersistInDoubt
  <2> QED BY <2>1 DEF AfterFailure, TypeOK
<1> QED BY <1>1, <1>2, <1>3, <1>4, <1>5, <1>6, <1>7 DEF TickStep, TickFault

\* A prepared acknowledgement stays safe while it is on its way.
LEMMA AckStaysSafe ==
  ASSUME OneRecorder, TypeOK, Control, AckSafe, NEW p \in Panel, TickStep(p) \/ TickFault(p), ~LoadAcks(p),
         UNCHANGED <<heldBatch, acks>>, Settled \subseteq Settled'
  PROVE  AckSafe'
<1>1. SUFFICES ASSUME NEW n \in Node, poll'[p][n] \in {"queued", "sent"}, Asked(p, n)',
                      AckDrops(InitialProc[n], acks[p][n])
               PROVE  heldBatch[InitialProc[n]].data \subseteq Settled'
  BY DEF AckSafe, AckDrops, OneRecorder
<1>2. poll[p][n] \in {"queued", "sent"} /\ Asked(p, n)
  BY <1>1, PollBefore, AskedBefore DEF Control
<1> QED BY <1>1, <1>2 DEF AckSafe

\* acks_for_request names only settled batches.
LEMMA LoadedAckSafe ==
  ASSUME Separate, OneRecorder, TypeOK, Origin, Control, Contact, Account, NEW p \in Panel, LoadAcks(p)
  PROVE  AckSafe'
<1>1. SUFFICES ASSUME NEW n \in Node, poll[p][n] = "queued" \/ poll[p][n] = "sent",
                      Asked(p, n)', AckDrops(InitialProc[n], acks'[p][n])
               PROVE  heldBatch[InitialProc[n]].data \subseteq Settled
  <2>1. UNCHANGED <<heldBatch, poll, bills, dropped>>
    BY DEF LoadAcks, nodeVars
  <2> QED BY <2>1 DEF AckSafe, AckDrops, OneRecorder, Settled
<1> DEFINE h == heldBatch[InitialProc[n]]
<1>2. h \in StatBatch /\ IsOf(h, InitialProc[n], born) /\ Fresh(h, row, Settled)
  BY BatchTypes, ConstantsAssumption DEF Origin, Account, Ledger
<1>3. acks'[p][n] = IF poll[p][n] = "queued" THEN AckFor(p, n) ELSE EmptyAck
  BY DEF LoadAcks, TypeOK
<1>4. CASE poll[p][n] = "queued"
  <2> DEFINE ack == AckFor(p, n)
  <2>1. AckDrops(InitialProc[n], ack)
    BY <1>1, <1>3, <1>4
  <2>2. CASE ack = EmptyAck
    <3>1. ~Known(n)
      BY <2>2, EmptyAckFor
    <3>2. h = NoBatch
      BY <3>1 DEF Contact
    <3> QED BY <3>2, EmptyData
  <2>3. CASE ack # EmptyAck
    <3>1. \/ ack.epoch = ClaimEpoch
          \/ ack.epoch \in Epoch /\ ack.id = row[ack.epoch]
      <4>1. epochByNode[p][n] \in Epoch \cup {NoEpoch}
        BY DEF TypeOK
      <4>2. RowsOf(n) # {} => (CHOOSE e \in RowsOf(n) : TRUE) \in Epoch
        BY DEF RowsOf
      <4> QED BY <2>3, <4>1, <4>2 DEF AckFor
    <3>2. ack.epoch # NoEpoch
      BY <3>1, ConstantsAssumption
    <3>3. ack.epoch = h.epoch /\ ack.id >= h.id
      BY <2>1, <3>2 DEF AckDrops
    <3>4. h.epoch \in Epoch /\ row[h.epoch] >= h.id
      BY <1>2, <3>1, <3>2, <3>3, ConstantsAssumption DEF StatBatch
    <3>5. h.id \in Nat /\ row[h.epoch] \in Nat
      BY <1>2, <3>4 DEF StatBatch, TypeOK
    <3>6. CASE h.id = 0
      BY <1>2, <3>4, <3>6, ConstantsAssumption DEF IsOf
    <3>7. CASE h.id > 0
      BY <1>2, <3>4, <3>5, <3>7 DEF Fresh
    <3> QED BY <3>5, <3>6, <3>7
  <2> QED BY <2>2, <2>3
<1>5. CASE poll[p][n] = "sent"
  BY <1>5 DEF LoadAcks, Control, ControlOf
<1> QED BY <1>1, <1>4, <1>5

\* A step that moves no traffic.
dataVars == <<counters, heldBatch, row, bills, born, dropped, answer, cohort, retained>>

\* Such a step keeps the account.
LEMMA KeepAccount ==
  ASSUME Account, UNCHANGED dataVars, AckSafe' PROVE Account'
<1>1. Settled' = Settled
  BY DEF dataVars, Settled
<1>2. Ledger'
  BY <1>1 DEF Account, Ledger, dataVars
<1>3. Match'
  BY DEF Account, Match, dataVars
<1>4. Apart'
  BY <1>1 DEF Account, Apart, dataVars
<1>5. SettledBorn' /\ NoDoubleBilling'
  BY <1>1 DEF Account, SettledBorn, NoDoubleBilling, dataVars
<1> QED BY <1>2, <1>3, <1>4, <1>5 DEF Account

\* Steps of the node processes and the operator keep the account.
LEMMA EnvironmentAccount ==
  ASSUME Separate, TypeOK, Origin, Control, Account, Environment, edited' = {} PROVE Account'
<1>0. UNCHANGED <<row, bills, dropped>> /\ Settled' = Settled
  <2>1. UNCHANGED <<row, bills, dropped>>
    BY DEF Environment, Traffic, Restart, ResetUsage, DeleteUser, EditNode, ackVars, pastVars
  <2> QED BY <2>1 DEF Settled
<1>00. UNCHANGED <<answer, cohort, retained, acks, poll, pc>>
  BY EnvironmentKeepsTick DEF tickVars
<1>000. NoDoubleBilling'
  BY <1>0 DEF Account, NoDoubleBilling
<1>1. ASSUME NEW q \in Proc, NEW c \in Chunk, Traffic(q, c) PROVE Account'
  <2>1. UNCHANGED heldBatch
    BY <1>1 DEF Traffic
  <2>2. Ledger' /\ Match'
    BY <1>0, <1>00, <2>1 DEF Account, Ledger, Match
  <2>3. AckSafe'
    BY <1>0, <1>00, <2>1 DEF Account, AckSafe, Asked, AckDrops
  <2>4. SettledBorn'
    <3>1. \A d : born[d] # {} => born'[d] = born[d]
      BY <1>1 DEF Traffic, TypeOK
    <3> QED BY <1>0, <3>1 DEF Account, SettledBorn
  <2>5. /\ \A r \in Proc : counters'[r] \subseteq counters[r] \cup {c}
        /\ born[c] = {}
    BY <1>1 DEF Traffic, TypeOK
  <2>6. /\ c \notin Settled
        /\ \A r \in Proc : c \notin heldBatch[r].data
        /\ \A p \in Panel, n \in Node : c \notin answer[p][n].data /\ c \notin cohort[p].params[n].data
        /\ \A p \in Panel : \A i \in DOMAIN retained[p] : \A n \in Node : c \notin retained[p][i].params[n].data
    <3>1. \A b, r : IsOf(b, r, born) => c \notin b.data
      BY <2>5 DEF IsOf
    <3>2. c \notin Settled
      BY <2>5 DEF Account, SettledBorn
    <3> QED BY <3>1, <3>2 DEF Origin
  <2>7. Apart'
    <3>1. \A r \in Proc : counters'[r] \cap Settled = {} /\ counters'[r] \cap heldBatch[r].data = {}
      BY <2>5, <2>6 DEF Account, Apart
    <3>2. \A r \in Proc : \A p \in Panel, n \in Node :
            /\ counters'[r] \cap answer[p][n].data = {}
            /\ counters'[r] \cap cohort[p].params[n].data = {}
            /\ \A i \in DOMAIN retained[p] : counters'[r] \cap retained[p][i].params[n].data = {}
      BY <2>5, <2>6 DEF Account, Apart
    <3> QED BY <1>0, <1>00, <2>1, <3>1, <3>2 DEF Account, Apart
  <2> QED BY <1>000, <2>2, <2>3, <2>4, <2>7 DEF Account
<1>2. ASSUME NEW q \in Proc, NEW saved \in BOOLEAN, Restart(q, saved) PROVE Account'
  <2>1. /\ \A r \in Proc : heldBatch'[r] \in {heldBatch[r], NoBatch}
        /\ UNCHANGED <<counters, born>>
    BY <1>2 DEF Restart, TypeOK
  <2>2. \A n \in Node : InitialProc[n] \in Proc
    BY ConstantsAssumption
  <2>3. Ledger'
    BY <1>0, <1>00, <2>1, NoBatchFresh DEF Account, Ledger
  <2>4. Match'
    <3>1. ASSUME NEW p \in Panel, NEW n \in Node
          PROVE  Agrees(cohort[p].params[n], heldBatch'[InitialProc[n]], n \in cohort[p].ackOnly, row)
      <4>1. Agrees(cohort[p].params[n], heldBatch[InitialProc[n]], n \in cohort[p].ackOnly, row)
        BY DEF Account, Match
      <4> QED BY <2>1, <2>2, <4>1 DEF Agrees
    <3>2. \A p \in Panel, n \in Node :
            answer[p][n].id > 0 => heldBatch'[InitialProc[n]] \in {NoBatch, answer[p][n]}
      BY <2>1, <2>2 DEF Account, Match
    <3> QED BY <1>0, <1>00, <3>1, <3>2 DEF Match
  <2>5. AckSafe'
    <3>1. SUFFICES ASSUME NEW p \in Panel, NEW n \in Node, poll[p][n] \in {"queued", "sent"}, Asked(p, n),
                          AckDrops(InitialProc[n], acks[p][n])'
                   PROVE  heldBatch'[InitialProc[n]].data \subseteq Settled
      BY <1>0, <1>00 DEF AckSafe, Asked
    <3>2. CASE heldBatch'[InitialProc[n]] = NoBatch
      BY <3>2, EmptyData
    <3>3. CASE heldBatch'[InitialProc[n]] = heldBatch[InitialProc[n]]
      BY <1>00, <3>1, <3>3 DEF Account, AckSafe, AckDrops
    <3> QED BY <2>1, <2>2, <3>2, <3>3
  <2>6. Apart'
    <3>1. \A r \in Proc : counters[r] \cap heldBatch'[r].data = {}
      BY <2>1, EmptyData DEF Account, Apart
    <3> QED BY <1>0, <1>00, <2>1, <3>1 DEF Account, Apart
  <2>7. SettledBorn'
    BY <1>0, <2>1 DEF Account, SettledBorn
  <2> QED BY <1>000, <2>3, <2>4, <2>5, <2>6, <2>7 DEF Account
<1>3. ASSUME NEW u \in User, ResetUsage(u) \/ DeleteUser(u) PROVE Account'
  <2>1. UNCHANGED dataVars
    BY <1>0, <1>00, <1>3 DEF ResetUsage, DeleteUser, dataVars, nodeVars, pastVars
  <2>2. AckSafe'
    BY <1>0, <1>00, <2>1 DEF Account, AckSafe, Asked, AckDrops, dataVars
  <2> QED BY <2>1, <2>2, KeepAccount
<1>4. ASSUME NEW n \in Node, NEW q \in Proc, EditNode(n, q) PROVE Account'
  BY <1>4 DEF EditNode
<1> QED BY <1>1, <1>2, <1>3, <1>4 DEF Environment

\* What is left of the account when a cohort leaves the recorder's hands.
LEMMA CohortGone ==
  ASSUME OneRecorder, Account, NEW p \in Panel, cohort'[p] = NoCohort,
         UNCHANGED <<counters, heldBatch, born, answer>>,
         AckSafe', NoDoubleBilling', SettledBorn',
         \A q \in Proc : Fresh(heldBatch[q], row', Settled') /\ counters[q] \cap Settled' = {},
         \A n \in Node : /\ Fresh(answer[p][n], row', Settled')
                         /\ answer[p][n].epoch = NoEpoch => answer[p][n].data \cap Settled' = {},
         \A n \in Node : \A i \in DOMAIN retained'[p] :
            /\ retained'[p][i].params[n].data \cap Settled' = {}
            /\ retained'[p][i].params[n].data \cap answer[p][n].data = {}
            /\ \A q \in Proc : counters[q] \cap retained'[p][i].params[n].data = {}
            /\ \A j \in DOMAIN retained'[p] : i # j =>
                 retained'[p][i].params[n].data \cap retained'[p][j].params[n].data = {}
  PROVE  Account'
<1>1. \A n \in Node : cohort'[p].params[n] = NoBatch
  BY DEF NoCohort
<1>2. \A r \in Panel : r = p
  BY DEF OneRecorder
<1>3. Ledger'
  BY <1>1, <1>2, NoBatchFresh DEF Ledger
<1>4. Match'
  BY <1>1, <1>2, NoBatchAgrees DEF Account, Match
<1>5. Apart'
  <2>1. \A q \in Proc : counters[q] \cap heldBatch[q].data = {}
    BY DEF Account, Apart
  <2>2. \A q \in Proc, n \in Node : counters[q] \cap answer[p][n].data = {}
    BY DEF Account, Apart
  <2>3. \A n \in Node : cohort'[p].params[n].data = {}
    BY <1>1, EmptyData
  <2> QED BY <1>2, <2>1, <2>2, <2>3 DEF Apart
<1> QED BY <1>3, <1>4, <1>5 DEF Account

\* A write that commits keeps the account.
LEMMA CommitAccount ==
  ASSUME Separate, OneRecorder, TypeOK, Origin, Control, Account, NEW p \in Panel, PersistCommit(p)
  PROVE  Account'
<1>1. /\ StaleNodes(cohort[p]) = {} /\ Write(cohort[p]) /\ cohort'[p] = NoCohort
      /\ UNCHANGED <<counters, heldBatch, born, answer, acks, retained>>
  BY DEF PersistCommit, nodeVars, TypeOK
<1>2. AckSafe'
  <2>1. Settled \subseteq Settled' /\ TickStep(p) /\ AckSafe
    BY <1>1, WriteAccount DEF TickStep, Account
  <2>2. ~LoadAcks(p)
    BY DEF PersistCommit, LoadAcks
  <2> QED BY <1>1, <2>1, <2>2, AckStaysSafe
<1>3. \A n \in Node : \A i \in DOMAIN retained[p] :
        /\ retained[p][i].params[n].data \cap answer[p][n].data = {}
        /\ \A q \in Proc : counters[q] \cap retained[p][i].params[n].data = {}
        /\ \A j \in DOMAIN retained[p] : i # j =>
             retained[p][i].params[n].data \cap retained[p][j].params[n].data = {}
  BY DEF Account, Apart
<1>4. /\ NoDoubleBilling' /\ SettledBorn'
      /\ \A q \in Proc : Fresh(heldBatch[q], row', Settled') /\ counters[q] \cap Settled' = {}
      /\ \A n \in Node :
           /\ Fresh(answer[p][n], row', Settled')
           /\ answer[p][n].epoch = NoEpoch => answer[p][n].data \cap Settled' = {}
           /\ \A i \in DOMAIN retained[p] : retained[p][i].params[n].data \cap Settled' = {}
  BY <1>1, WriteAccount
<1> QED BY <1>1, <1>2, <1>3, <1>4, CohortGone

\* So does a write in doubt, landed or not,
LEMMA InDoubtAccount ==
  ASSUME Separate, OneRecorder, TypeOK, Origin, Control, Account, NEW p \in Panel, NEW landed \in BOOLEAN,
         PersistInDoubt(p, landed)
  PROVE  Account'
<1>1. /\ StaleNodes(cohort[p]) = {} /\ cohort'[p] = NoCohort
      /\ UNCHANGED <<counters, heldBatch, born, answer, acks>>
      /\ Write(cohort[p]) \/ UNCHANGED <<row, bills, dropped>>
  BY DEF PersistInDoubt, AfterFailure, nodeVars, ackVars, TypeOK
<1>2. retained' = retained
  BY KeepOrAbandonEffect DEF PersistInDoubt
<1>3. \A n \in Node : \A i \in DOMAIN retained[p] :
        /\ retained[p][i].params[n].data \cap answer[p][n].data = {}
        /\ \A q \in Proc : counters[q] \cap retained[p][i].params[n].data = {}
        /\ \A j \in DOMAIN retained[p] : i # j =>
             retained[p][i].params[n].data \cap retained[p][j].params[n].data = {}
  BY DEF Account, Apart
<1>4. /\ NoDoubleBilling' /\ SettledBorn' /\ Settled \subseteq Settled'
      /\ \A q \in Proc : Fresh(heldBatch[q], row', Settled') /\ counters[q] \cap Settled' = {}
      /\ \A n \in Node :
           /\ Fresh(answer[p][n], row', Settled')
           /\ answer[p][n].epoch = NoEpoch => answer[p][n].data \cap Settled' = {}
           /\ \A i \in DOMAIN retained[p] : retained[p][i].params[n].data \cap Settled' = {}
  <2>1. CASE Write(cohort[p])
    BY <1>1, <2>1, WriteAccount
  <2>2. CASE UNCHANGED <<row, bills, dropped>>
    <3>1. Settled' = Settled
      BY <2>2 DEF Settled
    <3>2. NoDoubleBilling' /\ SettledBorn'
      BY <1>1, <2>2, <3>1 DEF Account, NoDoubleBilling, SettledBorn
    <3> QED BY <2>2, <3>1, <3>2 DEF Account, Ledger, Apart
  <2> QED BY <1>1, <2>1, <2>2
<1>5. AckSafe'
  <2>1. TickFault(p) /\ AckSafe
    BY DEF TickFault, Account
  <2>2. ~LoadAcks(p)
    BY DEF PersistInDoubt, LoadAcks
  <2> QED BY <1>1, <1>4, <2>1, <2>2, AckStaysSafe
<1> QED BY <1>1, <1>2, <1>3, <1>4, <1>5, CohortGone

\* and one that fails, whose legacy part is kept.
LEMMA FailsAccount ==
  ASSUME Separate, OneRecorder, TypeOK, Origin, Control, Account, NEW p \in Panel, NEW retriable \in BOOLEAN,
         PersistFails(p, retriable)
  PROVE  Account'
<1> DEFINE co == cohort[p]
           legacy == LegacyNodes(co.params, co.nodes)
           kept == KeptCohort(co.params, legacy, co.epochs, co.attempts + 1)
<1>1. /\ cohort'[p] = NoCohort
      /\ UNCHANGED <<counters, heldBatch, born, answer, acks, row, bills, dropped>>
  BY DEF PersistFails, AfterFailure, nodeVars, ackVars, TypeOK
<1>2. Settled' = Settled
  BY <1>1 DEF Settled
<1>3. /\ NoDoubleBilling' /\ SettledBorn' /\ Settled \subseteq Settled'
      /\ \A q \in Proc : Fresh(heldBatch[q], row', Settled') /\ counters[q] \cap Settled' = {}
      /\ \A n \in Node :
           /\ Fresh(answer[p][n], row', Settled')
           /\ answer[p][n].epoch = NoEpoch => answer[p][n].data \cap Settled' = {}
  <2>1. NoDoubleBilling' /\ SettledBorn'
    BY <1>1, <1>2 DEF Account, NoDoubleBilling, SettledBorn
  <2> QED BY <1>1, <1>2, <2>1 DEF Account, Ledger, Apart
<1>4. AckSafe'
  <2>1. TickFault(p) /\ AckSafe
    BY DEF TickFault, Account
  <2>2. ~LoadAcks(p)
    BY DEF PersistFails, LoadAcks
  <2> QED BY <1>1, <1>3, <2>1, <2>2, AckStaysSafe
<1>5. kept \in Cohort /\ (retained'[p] = retained[p] \/ retained'[p] = <<kept>> \o retained[p])
  BY KeepOrAbandonEffect DEF PersistFails, TypeOK
<1>6. \A n \in Node :
        /\ kept.params[n].data \subseteq co.params[n].data
        /\ kept.params[n].data \cap Settled = {}
  <2>1. \A n \in Node : \/ kept.params[n] = NoBatch
                        \/ kept.params[n] = co.params[n] /\ co.params[n].epoch = NoEpoch
    BY DEF KeptCohort, LegacyNodes
  <2> QED BY <2>1, EmptyData DEF Account, Apart
<1> HIDE DEF kept
<1>7. \A n \in Node :
        /\ kept.params[n].data \cap answer[p][n].data = {}
        /\ \A q \in Proc : counters[q] \cap kept.params[n].data = {}
        /\ \A i \in DOMAIN retained[p] : kept.params[n].data \cap retained[p][i].params[n].data = {}
  <2>1. ASSUME NEW n \in Node PROVE co.params[n].data \cap answer[p][n].data = {}
    BY OneFlight, EmptyData
  <2>2. \A n \in Node :
          /\ \A q \in Proc : counters[q] \cap co.params[n].data = {}
          /\ \A i \in DOMAIN retained[p] : retained[p][i].params[n].data \cap co.params[n].data = {}
    BY DEF Account, Apart
  <2> QED BY <1>6, <2>1, <2>2
<1>8. \A n \in Node : \A i \in DOMAIN retained[p] :
        /\ retained[p][i].params[n].data \cap Settled = {}
        /\ retained[p][i].params[n].data \cap answer[p][n].data = {}
        /\ \A q \in Proc : counters[q] \cap retained[p][i].params[n].data = {}
        /\ \A j \in DOMAIN retained[p] : i # j =>
             retained[p][i].params[n].data \cap retained[p][j].params[n].data = {}
  BY DEF Account, Apart
<1>9. ASSUME NEW n \in Node, NEW i \in DOMAIN retained'[p]
      PROVE  /\ retained'[p][i].params[n].data \cap Settled' = {}
             /\ retained'[p][i].params[n].data \cap answer[p][n].data = {}
             /\ \A q \in Proc : counters[q] \cap retained'[p][i].params[n].data = {}
             /\ \A j \in DOMAIN retained'[p] : i # j =>
                  retained'[p][i].params[n].data \cap retained'[p][j].params[n].data = {}
  <2>1. CASE retained'[p] = retained[p]
    BY <1>2, <1>8, <2>1
  <2>2. CASE retained'[p] = <<kept>> \o retained[p]
    <3>1. retained[p] \in Seq(Cohort)
      BY DEF TypeOK
    <3>2. \A j \in DOMAIN retained'[p] :
            \/ j = 1 /\ retained'[p][j] = kept
            \/ j - 1 \in DOMAIN retained[p] /\ retained'[p][j] = retained[p][j - 1]
      BY <1>5, <2>2, <3>1, SeqFront
    <3>3. DOMAIN retained'[p] \subseteq Int
      BY <1>5, <2>2, <3>1, SeqFront
    <3>4. \A j, k \in DOMAIN retained'[p] : j # k => j - 1 # k - 1
      BY <3>3
    <3>5. CASE i = 1 /\ retained'[p][i] = kept
      BY <1>2, <1>6, <1>7, <3>2, <3>5
    <3>6. CASE i - 1 \in DOMAIN retained[p] /\ retained'[p][i] = retained[p][i - 1]
      BY <1>2, <1>7, <1>8, <3>2, <3>4, <3>6
    <3> QED BY <3>2, <3>5, <3>6
  <2> QED BY <1>5, <2>1, <2>2
<1> QED BY <1>1, <1>3, <1>4, <1>9, CohortGone

\* So do the steps of a tick that move no traffic,
LEMMA QuietAccount ==
  ASSUME Separate, OneRecorder, TypeOK, Origin, Control, Contact, Account, NEW p \in Panel,
         \/ \E healthy \in SUBSET Node : TickStart(p, healthy)
         \/ LoadAcks(p) \/ TickEnd(p) \/ LoadAcksFails(p)
         \/ \E n \in Node : PollSend(p, n) \/ PollAnswered(p, n) \/ PollRequestLost(p, n)
  PROVE  Account'
<1>1. UNCHANGED dataVars
  BY DEF TickStart, LoadAcks, TickEnd, LoadAcksFails, PollSend, PollAnswered, PollRequestLost,
         dataVars, nodeVars, ackVars, pastVars
<1>2. CASE LoadAcks(p)
  BY <1>1, <1>2, LoadedAckSafe, KeepAccount
<1>3. CASE ~LoadAcks(p)
  <2>1. UNCHANGED acks /\ (TickStep(p) \/ TickFault(p))
    BY <1>3 DEF TickStart, TickEnd, LoadAcksFails, PollSend, PollAnswered, PollRequestLost,
                TickStep, TickFault
  <2>2. Settled' = Settled /\ heldBatch' = heldBatch
    BY <1>1 DEF dataVars, Settled
  <2>3. AckSafe'
    BY <1>3, <2>1, <2>2, AckStaysSafe DEF Account
  <2> QED BY <1>1, <2>3, KeepAccount
<1> QED BY <1>2, <1>3

\* A step after which the recorder has less than before.
LEMMA LessAccount ==
  ASSUME OneRecorder, Account, NEW p \in Panel, AckSafe',
         UNCHANGED <<counters, heldBatch, row, bills, dropped, born>>,
         \A n \in Node : /\ answer'[p][n] \in {answer[p][n], NoBatch}
                         /\ cohort'[p].params[n] \in {cohort[p].params[n], NoBatch},
         \A n \in Node : cohort'[p].params[n] # NoBatch => cohort'[p].ackOnly = cohort[p].ackOnly,
         retained'[p] \in {retained[p], <<>>}
  PROVE  Account'
<1>1. \A r \in Panel : r = p
  BY DEF OneRecorder
<1>2. Settled' = Settled
  BY DEF Settled
<1>3. Ledger'
  BY <1>1, <1>2, NoBatchFresh DEF Account, Ledger
<1>4. Match'
  <2>1. ASSUME NEW n \in Node
        PROVE  Agrees(cohort'[p].params[n], heldBatch[InitialProc[n]], n \in cohort'[p].ackOnly, row)
    <3>1. CASE cohort'[p].params[n] = NoBatch
      BY <3>1, NoBatchAgrees
    <3>2. CASE cohort'[p].params[n] # NoBatch
      BY <3>2 DEF Account, Match
    <3> QED BY <3>1, <3>2
  <2>2. \A n \in Node : answer'[p][n].id > 0 => heldBatch[InitialProc[n]] \in {NoBatch, answer'[p][n]}
    BY EmptyData DEF Account, Match
  <2> QED BY <1>1, <2>1, <2>2 DEF Match
<1>5. Apart'
  <2>1. DOMAIN retained'[p] \subseteq DOMAIN retained[p]
        /\ \A i \in DOMAIN retained'[p] : retained'[p][i] = retained[p][i]
    OBVIOUS
  <2>2. \A n \in Node : /\ answer'[p][n].data \subseteq answer[p][n].data
                        /\ cohort'[p].params[n].data \subseteq cohort[p].params[n].data
    BY EmptyData
  <2>3. \A q \in Proc : \A n \in Node :
          /\ counters[q] \cap answer'[p][n].data = {}
          /\ counters[q] \cap cohort'[p].params[n].data = {}
          /\ \A i \in DOMAIN retained'[p] : counters[q] \cap retained'[p][i].params[n].data = {}
    BY <2>1, <2>2 DEF Account, Apart
  <2>4. \A n \in Node :
          /\ answer'[p][n].epoch = NoEpoch => answer'[p][n].data \cap Settled = {}
          /\ cohort'[p].params[n].epoch = NoEpoch => cohort'[p].params[n].data \cap Settled = {}
    BY EmptyData DEF Account, Apart
  <2>5. \A n \in Node : \A i \in DOMAIN retained'[p] :
          /\ retained'[p][i].params[n].data \cap Settled = {}
          /\ retained'[p][i].params[n].data \cap answer'[p][n].data = {}
          /\ retained'[p][i].params[n].data \cap cohort'[p].params[n].data = {}
          /\ \A j \in DOMAIN retained'[p] : i # j =>
               retained'[p][i].params[n].data \cap retained'[p][j].params[n].data = {}
    BY <2>1, <2>2 DEF Account, Apart
  <2>6. \A q \in Proc : counters[q] \cap Settled = {} /\ counters[q] \cap heldBatch[q].data = {}
    BY DEF Account, Apart
  <2> QED BY <1>1, <1>2, <2>3, <2>4, <2>5, <2>6 DEF Apart
<1>6. SettledBorn' /\ NoDoubleBilling'
  BY <1>2 DEF Account, SettledBorn, NoDoubleBilling
<1> QED BY <1>3, <1>4, <1>5, <1>6 DEF Account

\* a lost answer,
LEMMA AnswerLostAccount ==
  ASSUME OneRecorder, TypeOK, Control, Account, NEW p \in Panel, NEW n \in Node, PollAnswerLost(p, n)
  PROVE  Account'
<1>1. /\ UNCHANGED <<counters, heldBatch, row, bills, dropped, born, cohort, retained, acks>>
      /\ \A m \in Node : answer'[p][m] \in {answer[p][m], NoBatch}
  BY DEF PollAnswerLost, nodeVars, ackVars, TypeOK
<1>2. Settled' = Settled
  BY <1>1 DEF Settled
<1>3. ~LoadAcks(p)
  BY DEF LoadAcks, PollAnswerLost, Control, ControlOf
<1>4. AckSafe'
  BY <1>1, <1>2, <1>3, AckStaysSafe DEF TickFault, Account
<1> QED BY <1>1, <1>4, LessAccount

\* the death of the recorder,
LEMMA CrashAccount ==
  ASSUME OneRecorder, TypeOK, Account, NEW p \in Panel, Crash(p) PROVE Account'
<1>1. /\ UNCHANGED <<counters, heldBatch, row, bills, dropped, born>>
      /\ \A n \in Node : answer'[p][n] = NoBatch /\ poll'[p][n] = "none"
      /\ cohort'[p] = NoCohort /\ retained'[p] = <<>>
  BY DEF Crash, nodeVars, ackVars, TypeOK
<1>2. \A n \in Node : cohort'[p].params[n] = NoBatch
  BY <1>1 DEF NoCohort
<1>3. AckSafe'
  BY <1>1 DEF AckSafe, OneRecorder
<1> QED BY <1>1, <1>2, <1>3, LessAccount

\* the refusal of stale batches,
LEMMA StaleAccount ==
  ASSUME Separate, OneRecorder, TypeOK, Origin, Control, Account, NEW p \in Panel, PersistStale(p)
  PROVE  Account'
<1> DEFINE co == cohort[p]
           stale == StaleNodes(co)
<1>1. UNCHANGED <<counters, heldBatch, row, bills, dropped, born, answer, retained, acks>>
  BY DEF PersistStale, nodeVars, ackVars, pastVars
<1>2. Settled' = Settled
  BY <1>1 DEF Settled
<1>3. \A r \in Panel : r = p
  BY DEF OneRecorder
<1>4. AckSafe'
  <2>1. ~LoadAcks(p) /\ TickStep(p)
    BY DEF LoadAcks, PersistStale, TickStep
  <2> QED BY <1>1, <1>2, <2>1, AckStaysSafe DEF Account
<1>5. /\ cohort'[p].ackOnly = co.ackOnly \cup stale
      /\ \A n \in Node : cohort'[p].params[n] =
           IF n \in stale THEN [epoch |-> co.params[n].epoch, id |-> co.params[n].id, data |-> {}]
           ELSE co.params[n]
  BY StaleEffect
<1>6. ASSUME NEW n \in Node, n \in stale
      PROVE  co.params[n].id > 0 /\ co.params[n].id <= row[co.params[n].epoch]
  <2>1. n \in Live(co) /\ co.params[n].epoch # NoEpoch /\ co.params[n].id > 0
    BY <1>6 DEF StaleNodes, Live
  <2>2. ASSUME NEW m \in Reporters(co, co.params[n].epoch) PROVE m = n
    <3>1. m \in Node /\ co.params[m].epoch = co.params[n].epoch
      BY <2>2 DEF Reporters, Live, TypeOK, Cohort
    <3>2. InitialProc[m] = InitialProc[n]
      BY <2>1, <3>1 DEF Origin, IsOf
    <3> QED BY <3>1, <3>2 DEF Separate
  <2>3. n \in Nat
    BY ConstantsAssumption
  <2>4. ~\E m \in Reporters(co, co.params[n].epoch) : m < n
    BY <2>2, <2>3
  <2> QED BY <1>6, <2>1, <2>4 DEF StaleNodes
<1>7. ASSUME NEW n \in Node
      PROVE  /\ Fresh(cohort'[p].params[n], row, Settled)
             /\ Agrees(cohort'[p].params[n], heldBatch[InitialProc[n]], n \in cohort'[p].ackOnly, row)
             /\ cohort'[p].params[n].data \subseteq co.params[n].data
             /\ cohort'[p].params[n].epoch = co.params[n].epoch
  <2>1. /\ Fresh(co.params[n], row, Settled)
        /\ Agrees(co.params[n], heldBatch[InitialProc[n]], n \in co.ackOnly, row)
    BY DEF Account, Ledger, Match
  <2>2. CASE n \in stale
    <3>1. /\ cohort'[p].params[n].epoch = co.params[n].epoch
          /\ cohort'[p].params[n].id = co.params[n].id
          /\ cohort'[p].params[n].data = {}
          /\ n \in cohort'[p].ackOnly
      <4>1. cohort'[p].params[n] = [epoch |-> co.params[n].epoch, id |-> co.params[n].id, data |-> {}]
        BY <1>5, <2>2
      <4>2. n \in cohort'[p].ackOnly
        BY <1>5, <2>2
      <4> QED BY <4>1, <4>2
    <3> HIDE DEF co, stale
    <3> QED BY <1>6, <2>1, <2>2, <3>1 DEF Fresh, Agrees
  <2>3. CASE n \notin stale
    <3>1. cohort'[p].params[n] = co.params[n] /\ (n \in cohort'[p].ackOnly <=> n \in co.ackOnly)
      BY <1>5, <2>3
    <3>2. (n \in cohort'[p].ackOnly) = (n \in co.ackOnly)
      BY <3>1
    <3> QED BY <2>1, <3>1, <3>2 DEF Agrees
  <2> QED BY <2>2, <2>3
<1>8. Ledger'
  BY <1>1, <1>2, <1>3, <1>7 DEF Account, Ledger
<1>9. Match'
  BY <1>1, <1>3, <1>7 DEF Account, Match
<1>10. Apart'
  <2>1. \A n \in Node :
          /\ \A q \in Proc : counters[q] \cap cohort'[p].params[n].data = {}
          /\ cohort'[p].params[n].epoch = NoEpoch => cohort'[p].params[n].data \cap Settled = {}
          /\ \A i \in DOMAIN retained[p] : retained[p][i].params[n].data \cap cohort'[p].params[n].data = {}
    BY <1>7 DEF Account, Apart
  <2> QED BY <1>1, <1>2, <1>3, <2>1 DEF Account, Apart
<1>11. SettledBorn' /\ NoDoubleBilling'
  BY <1>1, <1>2 DEF Account, SettledBorn, NoDoubleBilling
<1> QED BY <1>4, <1>8, <1>9, <1>10, <1>11 DEF Account

\* the return of a kept cohort,
LEMMA TakeRetainedAccount ==
  ASSUME OneRecorder, TypeOK, Origin, Control, Account, NEW p \in Panel, TakeRetained(p)
  PROVE  Account'
<1> DEFINE s == retained[p]
<1>0. s \in Seq(Cohort) /\ s # <<>>
  BY DEF TakeRetained, TypeOK
<1>1. /\ cohort'[p] = s[1] /\ 1 \in DOMAIN s /\ retained'[p] = Tail(s)
      /\ UNCHANGED <<counters, heldBatch, row, bills, dropped, born, answer, acks>>
  BY <1>0, SeqTail DEF TakeRetained, TypeOK, nodeVars, ackVars, pastVars
<1>2. Settled' = Settled
  BY <1>1 DEF Settled
<1>3. \A r \in Panel : r = p
  BY DEF OneRecorder
<1>4. AckSafe'
  <2>1. ~LoadAcks(p) /\ TickStep(p)
    BY DEF LoadAcks, TakeRetained, TickStep
  <2> QED BY <1>1, <1>2, <2>1, AckStaysSafe DEF Account
<1>5. ASSUME NEW n \in Node PROVE cohort'[p].params[n].id = 0
  <2>1. s[1].params[n].epoch = NoEpoch
    BY <1>1, EmptyData DEF Control, ControlOf, KeptShape
  <2>2. IsOf(s[1].params[n], InitialProc[n], born)
    BY <1>1 DEF Origin
  <2> QED BY <1>1, <2>1, <2>2 DEF IsOf
<1>6. \A n \in Node : /\ Fresh(cohort'[p].params[n], row, Settled)
                      /\ Agrees(cohort'[p].params[n], heldBatch[InitialProc[n]], n \in cohort'[p].ackOnly, row)
  BY <1>5 DEF Fresh, Agrees
<1>7. Ledger'
  BY <1>1, <1>2, <1>3, <1>6 DEF Account, Ledger
<1>8. Match'
  BY <1>1, <1>3, <1>6 DEF Account, Match
<1>9. Apart'
  <2>1. \A i \in DOMAIN retained'[p] : i \in Nat /\ i > 0 /\ i + 1 \in DOMAIN s /\ retained'[p][i] = s[i + 1]
    BY <1>0, <1>1, SeqTail
  <2>2. \A i \in DOMAIN retained'[p] : i + 1 # 1
    BY <2>1
  <2>3. \A i, j \in DOMAIN retained'[p] : i # j => i + 1 # j + 1
    BY <2>1
  <2>4. \A n \in Node : \A i \in DOMAIN s :
          /\ s[i].params[n].data \cap Settled = {}
          /\ s[i].params[n].data \cap answer[p][n].data = {}
          /\ \A q \in Proc : counters[q] \cap s[i].params[n].data = {}
          /\ \A j \in DOMAIN s : i # j => s[i].params[n].data \cap s[j].params[n].data = {}
    BY DEF Account, Apart
  <2> HIDE DEF s
  <2>5. \A n \in Node :
          /\ cohort'[p].params[n].data \cap Settled = {}
          /\ \A q \in Proc : counters[q] \cap cohort'[p].params[n].data = {}
          /\ \A i \in DOMAIN retained'[p] :
               /\ retained'[p][i].params[n].data \cap Settled = {}
               /\ retained'[p][i].params[n].data \cap answer[p][n].data = {}
               /\ \A q \in Proc : counters[q] \cap retained'[p][i].params[n].data = {}
    BY <1>1, <2>1, <2>4
  <2>6. \A n \in Node : \A i \in DOMAIN retained'[p] :
          /\ retained'[p][i].params[n].data \cap cohort'[p].params[n].data = {}
          /\ \A j \in DOMAIN retained'[p] : i # j =>
               retained'[p][i].params[n].data \cap retained'[p][j].params[n].data = {}
    BY <1>1, <2>1, <2>2, <2>3, <2>4
  <2>7. /\ \A q \in Proc : counters[q] \cap Settled = {} /\ counters[q] \cap heldBatch[q].data = {}
        /\ \A q \in Proc, n \in Node : counters[q] \cap answer[p][n].data = {}
        /\ \A n \in Node : answer[p][n].epoch = NoEpoch => answer[p][n].data \cap Settled = {}
    BY DEF Account, Apart
  <2>8. \A n \in Node : cohort'[p].params[n].epoch = NoEpoch => cohort'[p].params[n].data \cap Settled = {}
    BY <2>5
  <2>9. UNCHANGED <<counters, heldBatch, answer>>
    BY <1>1
  <2> QED BY <1>2, <1>3, <2>5, <2>6, <2>7, <2>8, <2>9 DEF Apart
<1>10. SettledBorn' /\ NoDoubleBilling'
  BY <1>1, <1>2 DEF Account, SettledBorn, NoDoubleBilling
<1> QED BY <1>4, <1>7, <1>8, <1>9, <1>10 DEF Account

\* a cohort of answers,
LEMMA TakeCohortAccount ==
  ASSUME OneRecorder, TypeOK, Control, Account, NEW p \in Panel, TakeCohort(p)
  PROVE  Account'
<1>1. /\ UNCHANGED <<counters, heldBatch, row, bills, dropped, born, retained, acks>>
      /\ cohort'[p].ackOnly = {}
      /\ \A n \in Node : /\ answer'[p][n] \in {answer[p][n], NoBatch}
                         /\ cohort'[p].params[n] \in {answer[p][n], NoBatch}
  BY DEF TakeCohort, TypeOK, nodeVars, ackVars, pastVars
<1>2. Settled' = Settled
  BY <1>1 DEF Settled
<1>3. \A r \in Panel : r = p
  BY DEF OneRecorder
<1>4. AckSafe'
  <2>1. ~LoadAcks(p) /\ TickStep(p)
    BY DEF LoadAcks, TakeCohort, TickStep
  <2> QED BY <1>1, <1>2, <2>1, AckStaysSafe DEF Account
<1>5. Ledger'
  BY <1>1, <1>2, <1>3, NoBatchFresh DEF Account, Ledger
<1>6. Match'
  <2>1. ASSUME NEW n \in Node
        PROVE  Agrees(cohort'[p].params[n], heldBatch[InitialProc[n]], n \in cohort'[p].ackOnly, row)
    <3>1. CASE cohort'[p].params[n] = NoBatch
      BY <3>1, NoBatchAgrees
    <3>2. CASE cohort'[p].params[n] = answer[p][n]
      <4>1. answer[p][n].id > 0 => heldBatch[InitialProc[n]] \in {NoBatch, answer[p][n]}
        BY DEF Account, Match
      <4> QED BY <1>1, <3>2, <4>1 DEF Agrees
    <3> QED BY <1>1, <3>1, <3>2
  <2>2. \A n \in Node : answer'[p][n].id > 0 => heldBatch[InitialProc[n]] \in {NoBatch, answer'[p][n]}
    BY <1>1, EmptyData DEF Account, Match
  <2> QED BY <1>1, <1>3, <2>1, <2>2 DEF Match
<1>7. Apart'
  <2>1. \A n \in Node : /\ answer'[p][n].data \subseteq answer[p][n].data
                        /\ cohort'[p].params[n].data \subseteq answer[p][n].data
    BY <1>1, EmptyData
  <2>2. \A n \in Node :
          /\ \A q \in Proc : counters[q] \cap answer[p][n].data = {}
          /\ \A i \in DOMAIN retained[p] : retained[p][i].params[n].data \cap answer[p][n].data = {}
    BY DEF Account, Apart
  <2>3. \A n \in Node :
          /\ answer'[p][n].epoch = NoEpoch => answer'[p][n].data \cap Settled = {}
          /\ cohort'[p].params[n].epoch = NoEpoch => cohort'[p].params[n].data \cap Settled = {}
    BY <1>1, EmptyData DEF Account, Apart
  <2>4. \A n \in Node :
          /\ \A q \in Proc : /\ counters[q] \cap answer'[p][n].data = {}
                             /\ counters[q] \cap cohort'[p].params[n].data = {}
          /\ \A i \in DOMAIN retained[p] : /\ retained[p][i].params[n].data \cap answer'[p][n].data = {}
                                           /\ retained[p][i].params[n].data \cap cohort'[p].params[n].data = {}
    BY <2>1, <2>2
  <2> QED BY <1>1, <1>2, <1>3, <2>3, <2>4 DEF Account, Apart
<1>8. SettledBorn' /\ NoDoubleBilling'
  BY <1>1, <1>2 DEF Account, SettledBorn, NoDoubleBilling
<1> QED BY <1>4, <1>5, <1>6, <1>7, <1>8 DEF Account

\* the end of a stopped tick,
LEMMA SettleAccount ==
  ASSUME OneRecorder, TypeOK, Control, Account, NEW p \in Panel, SettleCollection(p)
  PROVE  Account'
<1> DEFINE s == retained[p]
           legacy == LegacyNodes(answer[p], {n \in Node : poll[p][n] = "ok"})
           kept == KeptCohort(answer[p], legacy, epochAtPoll[p], 0)
<1>1. /\ UNCHANGED <<counters, heldBatch, row, bills, dropped, born, cohort, acks>>
      /\ \A n \in Node : answer'[p][n] = NoBatch
      /\ retained'[p] = s \/ retained'[p] = Append(s, kept)
      /\ pc[p] = "settle"
  BY DEF SettleCollection, TypeOK, nodeVars, ackVars, pastVars
<1>2. Settled' = Settled
  BY <1>1 DEF Settled
<1>3. \A r \in Panel : r = p
  BY DEF OneRecorder
<1>4. AckSafe'
  <2>1. ~LoadAcks(p) /\ TickStep(p)
    BY <1>1 DEF LoadAcks, TickStep
  <2> QED BY <1>1, <1>2, <2>1, AckStaysSafe DEF Account
<1>5. Ledger'
  BY <1>1, <1>2, <1>3, NoBatchFresh DEF Account, Ledger
<1>6. Match'
  BY <1>1, <1>3, EmptyData DEF Account, Match
<1>7. kept \in Cohort /\ s \in Seq(Cohort)
  <2>1. legacy \in SUBSET Node /\ answer[p] \in [Node -> StatBatch] /\ epochAtPoll[p] \in [User -> Nat]
    BY DEF LegacyNodes, TypeOK
  <2> QED BY <2>1, KeptCohortType DEF TypeOK
<1>8. \A n \in Node : /\ kept.params[n].data \subseteq answer[p][n].data
                      /\ kept.params[n].data \cap Settled = {}
  <2>1. \A n \in Node :
          \/ kept.params[n] = NoBatch
          \/ kept.params[n] = answer[p][n] /\ answer[p][n].epoch = NoEpoch
    BY DEF KeptCohort, LegacyNodes
  <2> QED BY <2>1, EmptyData DEF Account, Apart
<1>9. \A n \in Node : cohort[p].params[n].data = {}
  <2>1. cohort[p] = NoCohort
    BY <1>1 DEF Control, ControlOf
  <2> QED BY <2>1, EmptyData DEF NoCohort
<1>10. \A n \in Node : \A i \in DOMAIN s :
         /\ s[i].params[n].data \cap Settled = {}
         /\ s[i].params[n].data \cap answer[p][n].data = {}
         /\ \A q \in Proc : counters[q] \cap s[i].params[n].data = {}
         /\ \A j \in DOMAIN s : i # j => s[i].params[n].data \cap s[j].params[n].data = {}
  BY DEF Account, Apart
<1>11. /\ \A q \in Proc : counters[q] \cap Settled = {} /\ counters[q] \cap heldBatch[q].data = {}
       /\ \A q \in Proc, n \in Node : counters[q] \cap answer[p][n].data = {}
  BY DEF Account, Apart
<1> HIDE DEF kept, s
<1>12. \A n \in Node : /\ kept.params[n].data \cap Settled = {}
                       /\ \A q \in Proc : counters[q] \cap kept.params[n].data = {}
                       /\ \A i \in DOMAIN s : s[i].params[n].data \cap kept.params[n].data = {}
  BY <1>8, <1>10, <1>11
<1>13. ASSUME NEW n \in Node, NEW i \in DOMAIN retained'[p]
       PROVE  /\ retained'[p][i].params[n].data \cap Settled = {}
              /\ \A q \in Proc : counters[q] \cap retained'[p][i].params[n].data = {}
              /\ \A j \in DOMAIN retained'[p] : i # j =>
                   retained'[p][i].params[n].data \cap retained'[p][j].params[n].data = {}
  <2>1. CASE retained'[p] = s
    BY <1>10, <2>1
  <2>2. CASE retained'[p] = Append(s, kept)
    <3>1. \A j \in DOMAIN retained'[p] :
            \/ j = Len(s) + 1 /\ retained'[p][j] = kept
            \/ j \in DOMAIN s /\ retained'[p][j] = s[j]
      BY <1>7, <2>2, SeqBack
    <3>2. CASE i = Len(s) + 1 /\ retained'[p][i] = kept
      BY <1>12, <3>1, <3>2
    <3>3. CASE i \in DOMAIN s /\ retained'[p][i] = s[i]
      BY <1>10, <1>12, <3>1, <3>3
    <3> QED BY <3>1, <3>2, <3>3
  <2> QED BY <1>1, <2>1, <2>2
<1>14. Apart'
  BY <1>1, <1>2, <1>3, <1>9, <1>11, <1>13, EmptyData DEF Apart
<1>15. SettledBorn' /\ NoDoubleBilling'
  BY <1>1, <1>2 DEF Account, SettledBorn, NoDoubleBilling
<1> QED BY <1>4, <1>5, <1>6, <1>14, <1>15 DEF Account

\* What a node that answers does to the account of its own batch.
LEMMA ServedBatch ==
  ASSUME Separate, TypeOK, Origin, Control, Numbers, Account, NEW p \in Panel, NEW n \in Node,
         NEW ack \in Ack, NodeServes(InitialProc[n], ack)
  PROVE  LET q == InitialProc[n]
             resp == Response(q, ack)
         IN  /\ Fresh(resp, row, Settled) /\ Fresh(heldBatch'[q], row, Settled)
             /\ resp.id > 0 => heldBatch'[q] = resp
             /\ counters'[q] \cap heldBatch'[q].data = {}
             /\ \A r \in Proc : counters'[r] \cap resp.data = {}
             /\ resp.epoch = NoEpoch => resp.data \cap Settled = {}
             /\ \A i \in DOMAIN retained[p] : retained[p][i].params[n].data \cap resp.data = {}
<1> DEFINE q == InitialProc[n]
           resp == Response(q, ack)
<1>1. /\ q \in Proc /\ counters \in [Proc -> SUBSET Chunk] /\ heldBatch \in [Proc -> StatBatch]
      /\ seq[q] \in Nat /\ <<q, boot[q]>> \in Epoch /\ row[<<q, boot[q]>>] \in Nat
  BY ConstantsAssumption DEF TypeOK, Epoch
<1>2. /\ heldBatch[q].id = 0 => heldBatch[q] = NoBatch
      /\ IsOf(heldBatch[q], q, born)
  BY <1>1 DEF Origin
<1>3. /\ Fresh(heldBatch[q], row, Settled)
      /\ counters[q] \cap Settled = {} /\ counters[q] \cap heldBatch[q].data = {}
      /\ \A i \in DOMAIN retained[p] : counters[q] \cap retained[p][i].params[n].data = {}
  BY <1>1 DEF Account, Ledger, Apart
<1>4. q \notin LegacyProc => \A i \in DOMAIN retained[p] : retained[p][i].params[n].data = {}
  <2>1. SUFFICES ASSUME q \notin LegacyProc, NEW i \in DOMAIN retained[p]
                 PROVE  retained[p][i].params[n].data = {}
    OBVIOUS
  <2>2. IsOf(retained[p][i].params[n], q, born)
    BY DEF Origin
  <2>3. retained[p][i].params[n].epoch = NoEpoch
    BY EmptyData DEF Control, ControlOf, KeptShape
  <2> QED BY <2>1, <2>2, <2>3 DEF IsOf
<1>5. <<q, boot[q]>> # NoEpoch
  BY <1>1, ConstantsAssumption
<1>6. CASE Resent(q, resp)
  <2>1. heldBatch[q].epoch # NoEpoch
    BY <1>2, <1>6 DEF Resent, IsOf
  <2>2. ASSUME NEW r \in Proc PROVE counters[r] \cap heldBatch[q].data = {}
    <3>1. (\A c \in counters[r] : born[c] = {r}) /\ (\A c \in heldBatch[q].data : born[c] = {q})
      BY <1>2 DEF Origin, IsOf
    <3> QED BY <1>3, <3>1
  <2> QED BY <1>2, <1>3, <1>4, <1>6, <2>1, <2>2 DEF Resent
<1>7. CASE Forgets(q, resp)
  <2>1. /\ resp.epoch = NoEpoch /\ resp.id = 0 /\ resp.data = counters[q] /\ counters'[q] = {}
        /\ \A r \in Proc : r # q => counters'[r] = counters[r]
        /\ heldBatch' = heldBatch
    BY <1>1, <1>7 DEF Forgets
  <2>2. ASSUME NEW r \in Proc PROVE counters'[r] \cap counters[q] = {}
    <3>1. (\A c \in counters[r] : born[c] = {r}) /\ (\A c \in counters[q] : born[c] = {q})
      BY <1>1 DEF Origin
    <3> QED BY <2>1, <3>1
  <2>3. Fresh(resp, row, Settled) /\ ~(resp.id > 0)
    BY <2>1 DEF Fresh
  <2>4. \A i \in DOMAIN retained[p] : retained[p][i].params[n].data \cap resp.data = {}
    BY <1>3, <2>1
  <2>5. /\ counters'[q] \cap heldBatch'[q].data = {} /\ resp.data \cap Settled = {}
        /\ \A r \in Proc : counters'[r] \cap resp.data = {}
    BY <1>3, <2>1, <2>2
  <2>6. Fresh(heldBatch'[q], row, Settled)
    BY <1>3, <2>1
  <2> QED BY <2>3, <2>4, <2>5, <2>6
<1>8. CASE Idles(q, resp)
  <2>1. resp.epoch # NoEpoch /\ resp.id = 0 /\ resp.data = {} /\ heldBatch'[q] = NoBatch /\ counters' = counters
    BY <1>1, <1>5, <1>8 DEF Idles
  <2>2. Fresh(resp, row, Settled)
    BY <2>1 DEF Fresh
  <2> QED BY <2>1, <2>2, NoBatchFresh, EmptyData
<1>9. CASE Drained(q, resp)
  <2>1. /\ resp.epoch = <<q, boot[q]>> /\ resp.id = seq[q] + 1 /\ resp.data = counters[q] /\ counters'[q] = {}
        /\ \A r \in Proc : r # q => counters'[r] = counters[r]
        /\ heldBatch'[q] = resp /\ q \notin LegacyProc
    BY <1>1, <1>9 DEF Drained
  <2>2. ASSUME NEW r \in Proc PROVE counters'[r] \cap counters[q] = {}
    <3>1. (\A c \in counters[r] : born[c] = {r}) /\ (\A c \in counters[q] : born[c] = {q})
      BY <1>1 DEF Origin
    <3> QED BY <2>1, <3>1
  <2>3. row[<<q, boot[q]>>] <= seq[q]
    <3> DEFINE e == <<q, boot[q]>>
    <3>1. e \in Epoch /\ e[1] = q /\ e[2] = boot[q]
      BY <1>1
    <3>2. row[e] > 0 => row[e] <= seq[q]
      BY <3>1 DEF Numbers
    <3> QED BY <1>1, <3>2
  <2>4. Fresh(resp, row, Settled)
    BY <1>1, <1>3, <2>1, <2>3 DEF Fresh
  <2> QED BY <1>3, <1>4, <1>5, <2>1, <2>2, <2>4
<1> QED BY <1>1, <1>2, <1>6, <1>7, <1>8, <1>9, ServeCases

\* and an answer of a node.
LEMMA ServedAccount ==
  ASSUME Separate, OneRecorder, TypeOK, Origin, Control, Numbers, Account,
         NEW p \in Panel, NEW n \in Node, PollServed(p, n)
  PROVE  Account'
<1> DEFINE q == InitialProc[n]
           ack == acks[p][n]
           resp == Response(q, ack)
<1>1. q \in Proc /\ ack \in Ack /\ procOf[n] = q /\ \A m \in Node : InitialProc[m] \in Proc
  BY ConstantsAssumption DEF TypeOK, Origin
<1>2. /\ NodeServes(q, ack) /\ answer' = [answer EXCEPT ![p][n] = resp]
      /\ poll[p][n] = "sent" /\ poll' = [poll EXCEPT ![p][n] = "served"]
      /\ UNCHANGED <<row, cohort, retained, bills, dropped, born, pc, acks>>
  BY <1>1 DEF PollServed, ackVars
<1>3. \A m \in Node : answer'[p][m] = IF m = n THEN resp ELSE answer[p][m]
  BY <1>2 DEF TypeOK
<1>4. cohort[p].params[n] = NoBatch
  BY <1>2 DEF Control, ControlOf
<1>5. /\ \A r \in Proc : r # q => counters'[r] = counters[r] /\ heldBatch'[r] = heldBatch[r]
      /\ counters'[q] \subseteq counters[q]
  BY <1>1, <1>2, ServeOrigin
<1>6. \A m \in Node : m # n => heldBatch'[InitialProc[m]] = heldBatch[InitialProc[m]]
  BY <1>1, <1>5 DEF Separate
<1>7. /\ Fresh(resp, row, Settled) /\ Fresh(heldBatch'[q], row, Settled)
      /\ resp.id > 0 => heldBatch'[q] = resp
      /\ counters'[q] \cap heldBatch'[q].data = {}
      /\ \A r \in Proc : counters'[r] \cap resp.data = {}
      /\ resp.epoch = NoEpoch => resp.data \cap Settled = {}
      /\ \A i \in DOMAIN retained[p] : retained[p][i].params[n].data \cap resp.data = {}
  BY <1>1, <1>2, ServedBatch
<1>8. Settled' = Settled
  BY <1>2 DEF Settled
<1>9. \A r \in Panel : r = p
  BY DEF OneRecorder
<1> HIDE DEF resp, q, ack
<1>10. Ledger'
  BY <1>2, <1>3, <1>5, <1>7, <1>8, <1>9 DEF Account, Ledger
<1>11. Match'
  <2>1. ASSUME NEW m \in Node
        PROVE  /\ answer'[p][m].id > 0 => heldBatch'[InitialProc[m]] \in {NoBatch, answer'[p][m]}
               /\ Agrees(cohort[p].params[m], heldBatch'[InitialProc[m]], m \in cohort[p].ackOnly, row)
    <3>1. CASE m = n
      BY <1>3, <1>4, <1>7, <3>1, NoBatchAgrees DEF q
    <3>2. CASE m # n
      BY <1>3, <1>6, <3>2 DEF Account, Match
    <3> QED BY <3>1, <3>2
  <2> QED BY <1>2, <1>9, <2>1 DEF Match
<1>12. AckSafe'
  <2>1. SUFFICES ASSUME NEW m \in Node, poll'[p][m] \in {"queued", "sent"}, Asked(p, m)',
                        AckDrops(InitialProc[m], acks[p][m])'
                 PROVE  heldBatch'[InitialProc[m]].data \subseteq Settled
    BY <1>2, <1>8, <1>9 DEF AckSafe
  <2>2. poll \in [Panel -> [Node -> PollStates]]
    BY DEF TypeOK
  <2>3. m # n /\ poll'[p][m] = poll[p][m]
    BY <1>2, <2>1, <2>2
  <2>4. Asked(p, m) /\ heldBatch'[InitialProc[m]] = heldBatch[InitialProc[m]]
    BY <1>2, <1>6, <2>1, <2>3 DEF Asked
  <2>5. AckDrops(InitialProc[m], acks[p][m])
    BY <1>2, <2>1, <2>4 DEF AckDrops
  <2> QED BY <2>1, <2>3, <2>4, <2>5 DEF Account, AckSafe
<1>13. Apart'
  <2>1. \A r \in Proc : counters'[r] \subseteq counters[r]
    BY <1>5
  <2>2. \A r \in Proc : counters'[r] \cap Settled = {} /\ counters'[r] \cap heldBatch'[r].data = {}
    <3>1. \A r \in Proc : counters[r] \cap Settled = {} /\ counters[r] \cap heldBatch[r].data = {}
      BY DEF Account, Apart
    <3> QED BY <1>5, <1>7, <2>1, <3>1
  <2>3. ASSUME NEW m \in Node
        PROVE  /\ \A r \in Proc : /\ counters'[r] \cap answer'[p][m].data = {}
                                  /\ counters'[r] \cap cohort[p].params[m].data = {}
                                  /\ \A i \in DOMAIN retained[p] : counters'[r] \cap retained[p][i].params[m].data = {}
               /\ answer'[p][m].epoch = NoEpoch => answer'[p][m].data \cap Settled = {}
               /\ \A i \in DOMAIN retained[p] : retained[p][i].params[m].data \cap answer'[p][m].data = {}
    <3>1. /\ \A r \in Proc : /\ counters[r] \cap answer[p][m].data = {}
                             /\ counters[r] \cap cohort[p].params[m].data = {}
                             /\ \A i \in DOMAIN retained[p] : counters[r] \cap retained[p][i].params[m].data = {}
          /\ answer[p][m].epoch = NoEpoch => answer[p][m].data \cap Settled = {}
          /\ \A i \in DOMAIN retained[p] : retained[p][i].params[m].data \cap answer[p][m].data = {}
      BY DEF Account, Apart
    <3>2. CASE m = n
      BY <1>3, <1>7, <2>1, <3>1, <3>2
    <3>3. CASE m # n
      BY <1>3, <2>1, <3>1, <3>3
    <3> QED BY <3>2, <3>3
  <2>4. ASSUME NEW m \in Node
        PROVE  /\ cohort[p].params[m].epoch = NoEpoch => cohort[p].params[m].data \cap Settled = {}
               /\ \A i \in DOMAIN retained[p] :
                    /\ retained[p][i].params[m].data \cap Settled = {}
                    /\ retained[p][i].params[m].data \cap cohort[p].params[m].data = {}
                    /\ \A j \in DOMAIN retained[p] : i # j =>
                         retained[p][i].params[m].data \cap retained[p][j].params[m].data = {}
    BY DEF Account, Apart
  <2> QED BY <1>2, <1>8, <1>9, <2>2, <2>3, <2>4 DEF Apart
<1>14. SettledBorn' /\ NoDoubleBilling'
  BY <1>2, <1>8 DEF Account, SettledBorn, NoDoubleBilling
<1> QED BY <1>10, <1>11, <1>12, <1>13, <1>14 DEF Account

\* The account is inductive,
LEMMA NextAccount ==
  ASSUME Separate, OneRecorder, TypeOK, Origin, Control, Contact, Numbers, Account, [Next]_vars,
         edited' = {}
  PROVE  Account'
<1>1. CASE UNCHANGED vars
  <2>1. AckSafe'
    <3>1. UNCHANGED <<heldBatch, bills, dropped, poll, pc, acks, cohort>>
      BY <1>1 DEF vars, nodeVars, tickVars, pastVars
    <3> QED BY <3>1 DEF Account, AckSafe, Asked, AckDrops, Settled
  <2>2. UNCHANGED dataVars
    BY <1>1 DEF vars, nodeVars, ackVars, tickVars, pastVars, dataVars
  <2> QED BY <2>1, <2>2, KeepAccount
<1>2. CASE Environment
  BY <1>2, EnvironmentAccount
<1>3. ASSUME NEW p \in Panel, TickStep(p) PROVE Account'
  BY <1>3, QuietAccount, TakeRetainedAccount, TakeCohortAccount, ServedAccount, StaleAccount, CommitAccount,
     SettleAccount DEF TickStep
<1>4. ASSUME NEW p \in Panel, TickFault(p) PROVE Account'
  BY <1>4, QuietAccount, AnswerLostAccount, FailsAccount, InDoubtAccount, CrashAccount DEF TickFault
<1> QED BY <1>1, <1>2, <1>3, <1>4 DEF Next

\* and holds at the start.
LEMMA InitAccount == Init => Account
<1> SUFFICES ASSUME Init PROVE Account
  OBVIOUS
<1>1. \A p \in Panel, n \in Node : answer[p][n] = NoBatch /\ cohort[p].params[n] = NoBatch /\ poll[p][n] = "none"
  BY DEF Init, NoCohort
<1>2. /\ \A q \in Proc : heldBatch[q] = NoBatch /\ counters[q] = {}
      /\ \A p \in Panel : retained[p] = <<>>
      /\ \A c \in Chunk : bills[c] = 0
      /\ dropped = {}
  BY DEF Init
<1>3. Settled = {}
  BY <1>2 DEF Settled
<1>4. Ledger
  BY <1>1, <1>2, NoBatchFresh DEF Ledger
<1>5. Match
  BY <1>1, NoBatchAgrees, EmptyData DEF Match
<1>6. AckSafe
  BY <1>1 DEF AckSafe
<1>7. Apart
  <2>1. \A p \in Panel : DOMAIN retained[p] = {}
    BY <1>2
  <2> QED BY <1>1, <1>2, <1>3, <2>1, EmptyData DEF Apart
<1>8. SettledBorn /\ NoDoubleBilling
  BY <1>2, <1>3 DEF SettledBorn, NoDoubleBilling
<1> QED BY <1>4, <1>5, <1>6, <1>7, <1>8 DEF Account

\* The parts together: what a tick relies on, as long as no address is edited.
Books == TypeOK /\ Origin /\ Control /\ Contact /\ Numbers /\ Account

LEMMA InitBooks == Init => Books
BY InitTypeOK, InitOrigin, InitControl, InitContact, InitNumbers, InitAccount DEF Books

LEMMA NextBooks ==
  ASSUME Separate, OneRecorder, Books, [Next]_vars, edited' = {} PROVE Books'
<1>1. TypeOK'
  BY NextTypeOK DEF Books
<1>2. Origin' /\ Control' /\ Contact'
  BY NextOrigin, NextControl, NextContact DEF Books
<1>3. Numbers'
  BY <1>1, NextNumbers DEF Books
<1>4. Account'
  BY NextAccount DEF Books
<1> QED BY <1>1, <1>2, <1>3, <1>4 DEF Books

\* No unit of traffic is added twice to a user's used_traffic, for any number
\* of nodes, users and faults: answers and requests lost, writes that fail or
\* are left in doubt (apply_fenced_user_usage), restarts of a node and deaths
\* of the recorder, until an administrator edits the address of a node,
\* provided one recorder runs and every node id reaches a process of its own
\* at first.
THEOREM BilledUntilEdited == ASSUME Separate, OneRecorder PROVE Spec => []BilledOnce
<1>1. Init => edited # {} \/ Books
  BY InitBooks
<1>2. (edited # {} \/ Books) /\ [Next]_vars => (edited # {} \/ Books)'
  BY EditedStays, NextBooks
<1>3. (edited # {} \/ Books) => BilledOnce
  BY DEF BilledOnce, Books, Account
<1> QED BY <1>1, <1>2, <1>3, PTL DEF Spec

\* The same without a proviso, where no address is ever edited.
THEOREM BilledAtMostOnce ==
  ASSUME Separate, OneRecorder, "edit" \notin Faults PROVE Spec => []NoDoubleBilling
<1>1. BilledOnce /\ edited = {} => NoDoubleBilling
  BY DEF BilledOnce
<1> QED BY <1>1, BilledUntilEdited, NeverEdited, PTL

----------------------------------------------------------------------------
(* Nothing is forgotten *)

\* A chunk is somewhere, or its loss is one the code documents.
Accounted(c) ==
  \/ \E q \in Proc : c \in counters[q] \/ c \in heldBatch[q].data
  \/ \E p \in Panel : c \in InMemory(p)
  \/ c \in Settled \cup lost

\* Where in the recorder's memory a chunk is.
InAnswer(an, n, c) == an[n].epoch = NoEpoch /\ c \in an[n].data
InCohort(co, n, c) == n \in co.nodes /\ co.params[n].epoch = NoEpoch /\ c \in co.params[n].data
InKept(co, n, c) == n \in co.nodes /\ c \in co.params[n].data

\* InMemory, place by place.
LEMMA Memory ==
  ASSUME NEW p \in Panel, NEW c
  PROVE  /\ c \in InMemory(p) <=>
              \/ \E n \in Node : InAnswer(answer[p], n, c)
              \/ \E n \in cohort[p].nodes : InCohort(cohort[p], n, c)
              \/ \E i \in DOMAIN retained[p] : \E n \in retained[p][i].nodes : InKept(retained[p][i], n, c)
         /\ c \in InMemory(p)' <=>
              \/ \E n \in Node : InAnswer(answer'[p], n, c)
              \/ \E n \in cohort'[p].nodes : InCohort(cohort'[p], n, c)
              \/ \E i \in DOMAIN retained'[p] : \E n \in retained'[p][i].nodes : InKept(retained'[p][i], n, c)
<1>1. ASSUME NEW params, NEW S
      PROVE  c \in DataOf(params, LegacyNodes(params, S))
               <=> \E n \in S : params[n].epoch = NoEpoch /\ c \in params[n].data
  BY DEF DataOf, LegacyNodes
<1>2. ASSUME NEW params, NEW S PROVE c \in DataOf(params, S) <=> \E n \in S : c \in params[n].data
  BY DEF DataOf
<1>3. ASSUME NEW s
      PROVE  c \in UNION {DataOf(s[i].params, s[i].nodes) : i \in DOMAIN s}
               <=> \E i \in DOMAIN s : \E n \in s[i].nodes : InKept(s[i], n, c)
  BY <1>2 DEF InKept
<1>4. ASSUME NEW an, NEW co, NEW s
      PROVE  c \in DataOf(an, LegacyNodes(an, Node)) \cup DataOf(co.params, LegacyNodes(co.params, co.nodes))
                     \cup UNION {DataOf(s[i].params, s[i].nodes) : i \in DOMAIN s}
               <=> \/ \E n \in Node : InAnswer(an, n, c)
                   \/ \E n \in co.nodes : InCohort(co, n, c)
                   \/ \E i \in DOMAIN s : \E n \in s[i].nodes : InKept(s[i], n, c)
  BY <1>1, <1>3 DEF InAnswer, InCohort
<1> QED BY <1>4 DEF InMemory

\* Positions of a list seen from the longer or shorter one.
LEMMA SeqGrows ==
  ASSUME NEW S, NEW s \in Seq(S), NEW x \in S
  PROVE  /\ 1 \in DOMAIN (<<x>> \o s) /\ (<<x>> \o s)[1] = x
         /\ \A i \in DOMAIN s : i + 1 \in DOMAIN (<<x>> \o s) /\ (<<x>> \o s)[i + 1] = s[i]
         /\ Len(s) + 1 \in DOMAIN Append(s, x) /\ Append(s, x)[Len(s) + 1] = x
         /\ \A i \in DOMAIN s : i \in DOMAIN Append(s, x) /\ Append(s, x)[i] = s[i]
         /\ s # <<>> => \A i \in DOMAIN s : i # 1 => i - 1 \in DOMAIN Tail(s) /\ Tail(s)[i - 1] = s[i]
<1>1. <<x>> \in Seq(S) /\ Len(<<x>>) = 1 /\ <<x>>[1] = x
  OBVIOUS
<1>2. Len(s) \in Nat /\ DOMAIN s = 1..Len(s)
  OBVIOUS
<1>3. /\ <<x>> \o s \in Seq(S) /\ Len(<<x>> \o s) = 1 + Len(s)
      /\ \A i \in 1..(1 + Len(s)) : (<<x>> \o s)[i] = IF i <= 1 THEN <<x>>[i] ELSE s[i - 1]
  BY <1>1, <1>2, ConcatProperties
<1>4. DOMAIN (<<x>> \o s) = 1..(1 + Len(s))
  BY <1>3
<1>5. /\ 1 \in DOMAIN (<<x>> \o s) /\ (<<x>> \o s)[1] = x
      /\ \A i \in DOMAIN s : i + 1 \in DOMAIN (<<x>> \o s) /\ (<<x>> \o s)[i + 1] = s[i]
  BY <1>1, <1>2, <1>3, <1>4
<1>6. /\ Len(s) + 1 \in DOMAIN Append(s, x) /\ Append(s, x)[Len(s) + 1] = x
      /\ \A i \in DOMAIN s : i \in DOMAIN Append(s, x) /\ Append(s, x)[i] = s[i]
  BY <1>2, AppendProperties
<1>7. s # <<>> => \A i \in DOMAIN s : i # 1 => i - 1 \in DOMAIN Tail(s) /\ Tail(s)[i - 1] = s[i]
  <2>1. SUFFICES ASSUME s # <<>>
                 PROVE  \A i \in DOMAIN s : i # 1 => i - 1 \in DOMAIN Tail(s) /\ Tail(s)[i - 1] = s[i]
    OBVIOUS
  <2>2. Tail(s) \in Seq(S) /\ Len(Tail(s)) = Len(s) - 1 /\ \A i \in 1..(Len(s) - 1) : Tail(s)[i] = s[i + 1]
    BY <2>1, HeadTailProperties
  <2>3. DOMAIN Tail(s) = 1..(Len(s) - 1)
    BY <1>2, <2>2
  <2> QED BY <1>2, <2>2, <2>3
<1> QED BY <1>5, <1>6, <1>7

\* A step conserves traffic if everything in a place is in a place after it.
LEMMA StepConserves ==
  ASSUME Conserved, NEW p \in Panel, OneRecorder, Settled \subseteq Settled', lost \subseteq lost',
         born' = born,
         \A q \in Proc : \A c \in counters[q] : Accounted(c)',
         \A q \in Proc : \A c \in heldBatch[q].data : Accounted(c)',
         \A c \in InMemory(p) : Accounted(c)'
  PROVE  Conserved'
<1>1. \A r \in Panel : r = p
  BY DEF OneRecorder
<1>2. SUFFICES ASSUME NEW c \in Chunk, born[c] # {} PROVE Accounted(c)'
  BY DEF Conserved, Accounted
<1>3. Accounted(c)
  BY <1>2 DEF Conserved, Accounted
<1>4. CASE c \in Settled \cup lost
  BY <1>4 DEF Accounted
<1> QED BY <1>1, <1>3, <1>4 DEF Accounted

\* The places, one by one.
LEMMA StaysAccounted ==
  ASSUME NEW c
  PROVE  /\ \A q \in Proc : c \in counters'[q] => Accounted(c)'
         /\ \A q \in Proc : c \in heldBatch'[q].data => Accounted(c)'
         /\ \A p \in Panel : c \in InMemory(p)' => Accounted(c)'
         /\ c \in Settled' \/ c \in lost' => Accounted(c)'
BY DEF Accounted

\* The same for a step of the recorder, which leaves the nodes alone.
LEMMA MemoryConserves ==
  ASSUME Conserved, NEW p \in Panel, OneRecorder, Settled \subseteq Settled', lost \subseteq lost',
         UNCHANGED <<counters, heldBatch, born>>,
         \A c : \A n \in Node : InAnswer(answer[p], n, c) => c \in InMemory(p)' \cup Settled' \cup lost',
         \A c : \A n \in cohort[p].nodes : InCohort(cohort[p], n, c) => c \in InMemory(p)' \cup Settled' \cup lost',
         \A c : \A i \in DOMAIN retained[p] : \A n \in retained[p][i].nodes :
            InKept(retained[p][i], n, c) => c \in InMemory(p)' \cup Settled' \cup lost'
  PROVE  Conserved'
<1>1. \A c \in InMemory(p) : c \in InMemory(p)' \cup Settled' \cup lost'
  BY Memory
<1>2. \A c \in InMemory(p) : Accounted(c)'
  BY <1>1, StaysAccounted
<1>3. \A q \in Proc : \A c \in counters[q] : Accounted(c)'
  BY StaysAccounted
<1>4. \A q \in Proc : \A c \in heldBatch[q].data : Accounted(c)'
  BY StaysAccounted
<1> QED BY <1>2, <1>3, <1>4, StepConserves

\* A step that moves no traffic.
LEMMA QuietConserves ==
  ASSUME Conserved, UNCHANGED <<counters, heldBatch, born, bills, dropped, lost, answer, cohort, retained>>
  PROVE  Conserved'
BY DEF Conserved, InMemory, Settled

\* A restart without a saved batch is a documented loss.
LEMMA EnvironmentConserves ==
  ASSUME TypeOK, Conserved, Environment PROVE Conserved'
<1>1. ASSUME NEW q \in Proc, NEW c \in Chunk, Traffic(q, c) PROVE Conserved'
  <2>1. /\ UNCHANGED <<heldBatch, bills, dropped, lost, answer, cohort, retained>>
        /\ \A r \in Proc : counters[r] \subseteq counters'[r]
        /\ c \in counters'[q] /\ \A d \in Chunk : d # c => born'[d] = born[d]
    BY <1>1 DEF Traffic, TypeOK, tickVars
  <2>2. /\ Settled' = Settled
        /\ \A p \in Panel : InMemory(p)' = InMemory(p)
    BY <2>1 DEF Settled, InMemory
  <2> QED BY <2>1, <2>2 DEF Conserved
<1>2. ASSUME NEW q \in Proc, NEW saved \in BOOLEAN, Restart(q, saved) PROVE Conserved'
  <2>1. /\ UNCHANGED <<counters, bills, dropped, born, answer, cohort, retained>>
        /\ \/ heldBatch' = heldBatch /\ lost' = lost
           \/ /\ \A r \in Proc : r # q => heldBatch'[r] = heldBatch[r]
              /\ lost' = lost \cup (heldBatch[q].data \ Settled)
    BY <1>2 DEF Restart, TypeOK, tickVars
  <2>2. /\ Settled' = Settled
        /\ \A p \in Panel : InMemory(p)' = InMemory(p)
    BY <2>1 DEF Settled, InMemory
  <2>3. CASE heldBatch' = heldBatch /\ lost' = lost
    BY <2>1, <2>3, QuietConserves
  <2>4. CASE /\ \A r \in Proc : r # q => heldBatch'[r] = heldBatch[r]
             /\ lost' = lost \cup (heldBatch[q].data \ Settled)
    BY <2>1, <2>2, <2>4 DEF Conserved
  <2> QED BY <2>1, <2>3, <2>4
<1>3. ASSUME \/ \E u \in User : ResetUsage(u) \/ DeleteUser(u)
             \/ \E n \in Node, q \in Proc : EditNode(n, q)
      PROVE  Conserved'
  BY <1>3, QuietConserves DEF ResetUsage, DeleteUser, EditNode, nodeVars, tickVars, pastVars
<1> QED BY <1>1, <1>2, <1>3 DEF Environment

\* A node drops only what was settled, and what a legacy node drains is in its answer.
LEMMA ServedConserves ==
  ASSUME Separate, OneRecorder, TypeOK, Origin, Control, Account, Conserved,
         NEW p \in Panel, NEW n \in Node, PollServed(p, n)
  PROVE  Conserved'
<1> DEFINE q == InitialProc[n]
           ack == acks[p][n]
           resp == Response(q, ack)
<1>1. q \in Proc /\ ack \in Ack /\ procOf[n] = q /\ (heldBatch[q].id = 0 => heldBatch[q] = NoBatch)
  BY ConstantsAssumption DEF TypeOK, Origin
<1>2. /\ NodeServes(q, ack) /\ answer' = [answer EXCEPT ![p][n] = resp]
      /\ poll[p][n] = "sent"
      /\ UNCHANGED <<cohort, retained, bills, dropped, born, lost>>
  BY <1>1 DEF PollServed
<1>3. \A m \in Node : answer'[p][m] = IF m = n THEN resp ELSE answer[p][m]
  BY <1>2 DEF TypeOK
<1>4. answer[p][n] = NoBatch
  BY <1>2 DEF Control, ControlOf
<1>5. \A r \in Proc : r # q => counters'[r] = counters[r] /\ heldBatch'[r] = heldBatch[r]
  BY <1>1, <1>2, ServeOrigin
<1>6. AckDrops(q, ack) \/ heldBatch[q] = NoBatch => heldBatch[q].data \subseteq Settled
  <2>1. AckDrops(q, ack) => heldBatch[q].data \subseteq Settled
    BY <1>2 DEF Account, AckSafe, Asked
  <2> QED BY <2>1, EmptyData
<1>7. Settled' = Settled
  BY <1>2 DEF Settled
<1>8. \A c \in InMemory(p) : c \in InMemory(p)'
  <2>1. SUFFICES ASSUME NEW c, c \in InMemory(p) PROVE c \in InMemory(p)'
    OBVIOUS
  <2>2. CASE \E m \in Node : InAnswer(answer[p], m, c)
    <3>1. PICK m \in Node : InAnswer(answer[p], m, c)
      BY <2>2
    <3>2. m # n
      BY <1>4, <3>1, EmptyData DEF InAnswer
    <3>3. InAnswer(answer'[p], m, c)
      BY <1>3, <3>1, <3>2 DEF InAnswer
    <3> QED BY <3>3, Memory
  <2> QED BY <1>2, <2>1, <2>2, Memory
<1>9. \A c \in InMemory(p) : Accounted(c)'
  BY <1>8, StaysAccounted
<1>10. /\ \A c \in counters[q] : c \in counters'[q] \/ c \in heldBatch'[q].data \/ c \in InMemory(p)'
       /\ \A c \in heldBatch[q].data : c \in heldBatch'[q].data \/ c \in Settled
  <2>0. counters \in [Proc -> SUBSET Chunk] /\ heldBatch \in [Proc -> StatBatch]
    BY DEF TypeOK
  <2>1. CASE Resent(q, resp)
    BY <2>1 DEF Resent
  <2>2. CASE Forgets(q, resp)
    <3>1. resp.epoch = NoEpoch /\ resp.data = counters[q] /\ heldBatch' = heldBatch
      BY <2>2 DEF Forgets
    <3>2. \A c \in counters[q] : InAnswer(answer'[p], n, c)
      BY <1>3, <3>1 DEF InAnswer
    <3> QED BY <3>1, <3>2, Memory
  <2>3. CASE Idles(q, resp) /\ (AckDrops(q, ack) \/ heldBatch[q] = NoBatch)
    BY <1>6, <2>3 DEF Idles
  <2>4. CASE Drained(q, resp) /\ (AckDrops(q, ack) \/ heldBatch[q] = NoBatch)
    <3>1. heldBatch'[q] = resp /\ resp.data = counters[q]
      BY <1>1, <2>0, <2>4 DEF Drained
    <3> QED BY <1>6, <2>4, <3>1
  <2> QED BY <1>1, <1>2, <2>1, <2>2, <2>3, <2>4, ServeCases
<1> HIDE DEF q, resp, ack
<1>11. ASSUME NEW r \in Proc, NEW c \in counters[r] PROVE Accounted(c)'
  BY <1>1, <1>5, <1>10, <1>11, StaysAccounted
<1>12. ASSUME NEW r \in Proc, NEW c \in heldBatch[r].data PROVE Accounted(c)'
  BY <1>1, <1>5, <1>7, <1>10, <1>12, StaysAccounted
<1> QED BY <1>2, <1>7, <1>9, <1>11, <1>12, StepConserves

\* A kept cohort becomes the one being persisted.
LEMMA TakeRetainedConserves ==
  ASSUME OneRecorder, TypeOK, Control, Conserved, NEW p \in Panel, TakeRetained(p)
  PROVE  Conserved'
<1> DEFINE s == retained[p]
<1>1. s \in Seq(Cohort) /\ s # <<>>
  BY DEF TakeRetained, TypeOK
<1>2. Head(s) = s[1] /\ 1 \in DOMAIN s /\ s[1] \in Cohort
  BY <1>1, SeqTail
<1>3. /\ UNCHANGED <<counters, heldBatch, born, bills, dropped, lost, answer>>
      /\ cohort'[p] = s[1] /\ retained'[p] = Tail(s) /\ cohort[p] = NoCohort
  BY <1>2 DEF TakeRetained, TypeOK, nodeVars, pastVars, Control, ControlOf
<1>4. Settled' = Settled
  BY <1>3 DEF Settled
<1>5. ASSUME NEW c, NEW m \in cohort[p].nodes PROVE ~InCohort(cohort[p], m, c)
  BY <1>3, <1>5 DEF InCohort, NoCohort
<1>6. ASSUME NEW c, NEW m \in Node, InAnswer(answer[p], m, c) PROVE c \in InMemory(p)'
  BY <1>3, <1>6, Memory
<1>7. ASSUME NEW c, NEW i \in DOMAIN s, NEW m \in s[i].nodes, InKept(s[i], m, c) PROVE c \in InMemory(p)'
  <2>1. CASE i = 1
    <3>1. s[1].params[m] # NoBatch /\ m \in Node
      BY <1>2, <1>7, <2>1, EmptyData DEF InKept, Cohort
    <3>2. s[1].params[m].epoch = NoEpoch
      BY <1>2, <3>1 DEF Control, ControlOf, KeptShape
    <3>3. InCohort(cohort'[p], m, c) /\ m \in cohort'[p].nodes
      BY <1>3, <1>7, <2>1, <3>2 DEF InCohort, InKept
    <3> QED BY <3>3, Memory
  <2>2. CASE i # 1
    <3>1. i - 1 \in DOMAIN Tail(s) /\ Tail(s)[i - 1] = s[i]
      BY <1>1, <1>2, <1>7, <2>2, SeqGrows
    <3> QED BY <1>3, <1>7, <3>1, Memory
  <2> QED BY <2>1, <2>2
<1> QED BY <1>3, <1>4, <1>5, <1>6, <1>7, MemoryConserves

\* Answers become a cohort.
LEMMA TakeCohortConserves ==
  ASSUME OneRecorder, TypeOK, Control, Conserved, NEW p \in Panel, TakeCohort(p)
  PROVE  Conserved'
<1> DEFINE finished == {n \in Node : poll[p][n] \in {"ok", "failed"}}
           answered == {n \in finished : poll[p][n] = "ok"}
<1>1. /\ UNCHANGED <<counters, heldBatch, born, bills, dropped, lost, retained>>
      /\ pc[p] = "poll" /\ cohort[p] = NoCohort
      /\ cohort'[p].nodes = answered
      /\ \A n \in Node : /\ n \in answered => cohort'[p].params[n] = answer[p][n]
                         /\ n \notin finished => answer'[p][n] = answer[p][n]
  BY DEF TakeCohort, TypeOK, nodeVars, pastVars, Control, ControlOf
<1>2. Settled' = Settled
  BY <1>1 DEF Settled
<1>3. ASSUME NEW c, NEW m \in cohort[p].nodes PROVE ~InCohort(cohort[p], m, c)
  BY <1>1, <1>3 DEF InCohort, NoCohort
<1>4. ASSUME NEW c, NEW m \in Node, InAnswer(answer[p], m, c) PROVE c \in InMemory(p)'
  <2>1. poll[p][m] \in {"served", "ok"}
    BY <1>4, EmptyData DEF InAnswer, Control, ControlOf
  <2>2. CASE poll[p][m] = "ok"
    <3>1. m \in cohort'[p].nodes /\ InCohort(cohort'[p], m, c)
      BY <1>1, <1>4, <2>2 DEF InAnswer, InCohort
    <3> QED BY <3>1, Memory
  <2>3. CASE poll[p][m] = "served"
    <3>1. InAnswer(answer'[p], m, c)
      BY <1>1, <1>4, <2>3 DEF InAnswer
    <3> QED BY <3>1, Memory
  <2> QED BY <2>1, <2>2, <2>3
<1>5. ASSUME NEW c, NEW i \in DOMAIN retained[p], NEW m \in retained[p][i].nodes, InKept(retained[p][i], m, c)
      PROVE  c \in InMemory(p)'
  BY <1>1, <1>5, Memory
<1> QED BY <1>1, <1>2, <1>3, <1>4, <1>5, MemoryConserves

\* A refused batch is not legacy traffic.
LEMMA StaleConserves ==
  ASSUME OneRecorder, TypeOK, Conserved, NEW p \in Panel, PersistStale(p)
  PROVE  Conserved'
<1>1. UNCHANGED <<counters, heldBatch, born, bills, dropped, lost, answer, retained>>
  BY DEF PersistStale, nodeVars, pastVars
<1>2. Settled' = Settled
  BY <1>1 DEF Settled
<1>3. /\ cohort'[p].nodes = cohort[p].nodes
      /\ \A n \in Node : n \notin StaleNodes(cohort[p]) => cohort'[p].params[n] = cohort[p].params[n]
      /\ cohort[p].nodes \subseteq Node
  BY StaleEffect DEF TypeOK, Cohort
<1>4. ASSUME NEW c, NEW m \in cohort[p].nodes, InCohort(cohort[p], m, c) PROVE c \in InMemory(p)'
  <2>1. m \notin StaleNodes(cohort[p])
    BY <1>4 DEF StaleNodes, Live, InCohort
  <2>2. m \in cohort'[p].nodes /\ InCohort(cohort'[p], m, c)
    BY <1>3, <1>4, <2>1 DEF InCohort
  <2> QED BY <2>2, Memory
<1>5. ASSUME NEW c, NEW m \in Node, InAnswer(answer[p], m, c) PROVE c \in InMemory(p)'
  BY <1>1, <1>5, Memory
<1>6. ASSUME NEW c, NEW i \in DOMAIN retained[p], NEW m \in retained[p][i].nodes, InKept(retained[p][i], m, c)
      PROVE  c \in InMemory(p)'
  BY <1>1, <1>6, Memory
<1> QED BY <1>1, <1>2, <1>4, <1>5, <1>6, MemoryConserves

\* A committed cohort is settled.
LEMMA CommitConserves ==
  ASSUME OneRecorder, TypeOK, Conserved, NEW p \in Panel, PersistCommit(p)
  PROVE  Conserved'
<1>1. /\ UNCHANGED <<counters, heldBatch, born, lost, answer, retained>>
      /\ Write(cohort[p]) /\ cohort[p] \in Cohort
  BY DEF PersistCommit, nodeVars, TypeOK
<1>2. Settled' = Settled \cup DataOf(cohort[p].params, cohort[p].nodes)
  BY <1>1, WriteSettles
<1>3. ASSUME NEW c, NEW m \in cohort[p].nodes, InCohort(cohort[p], m, c) PROVE c \in Settled'
  BY <1>2, <1>3 DEF InCohort, DataOf
<1>4. ASSUME NEW c, NEW m \in Node, InAnswer(answer[p], m, c) PROVE c \in InMemory(p)'
  BY <1>1, <1>4, Memory
<1>5. ASSUME NEW c, NEW i \in DOMAIN retained[p], NEW m \in retained[p][i].nodes, InKept(retained[p][i], m, c)
      PROVE  c \in InMemory(p)'
  BY <1>1, <1>5, Memory
<1> QED BY <1>1, <1>2, <1>3, <1>4, <1>5, MemoryConserves

\* A failed write keeps the legacy part of the cohort, or records its loss.
LEMMA FailureConserves ==
  ASSUME OneRecorder, TypeOK, Conserved, NEW p \in Panel, NEW inDoubt \in BOOLEAN, KeepOrAbandon(p, inDoubt),
         UNCHANGED <<counters, heldBatch, born, answer>>, Settled \subseteq Settled'
  PROVE  Conserved'
<1> DEFINE co == cohort[p]
           s == retained[p]
           legacy == LegacyNodes(co.params, co.nodes)
           kept == KeptCohort(co.params, legacy, co.epochs, co.attempts + 1)
<1>1. /\ kept \in Cohort /\ s \in Seq(Cohort)
      /\ \/ retained' = retained /\ lost' = lost \cup (DataOf(co.params, legacy) \ Settled')
         \/ retained'[p] = <<kept>> \o s /\ lost' = lost
  <2>1. retained \in [Panel -> Seq(Cohort)]
    BY DEF TypeOK
  <2> QED BY <2>1, KeepOrAbandonEffect
<1>2. ASSUME NEW c, NEW m \in Node, InAnswer(answer[p], m, c) PROVE c \in InMemory(p)'
  BY <1>2, Memory
<1>3. ASSUME NEW c, NEW m \in co.nodes, InCohort(co, m, c) PROVE c \in DataOf(co.params, legacy) /\ InKept(kept, m, c)
  <2>1. m \in legacy /\ m \in Node /\ c \in co.params[m].data
    BY <1>3 DEF InCohort, LegacyNodes, TypeOK, Cohort
  <2> QED BY <2>1 DEF DataOf, InKept, KeptCohort
<1>4. \A c, m : InKept(kept, m, c) => m \in kept.nodes
  BY DEF InKept
<1> HIDE DEF kept, legacy, s
<1>5. CASE retained' = retained /\ lost' = lost \cup (DataOf(co.params, legacy) \ Settled')
  <2>1. ASSUME NEW c, NEW m \in co.nodes, InCohort(co, m, c) PROVE c \in Settled' \cup lost'
    BY <1>3, <1>5, <2>1
  <2>2. ASSUME NEW c, NEW i \in DOMAIN retained[p], NEW m \in retained[p][i].nodes, InKept(retained[p][i], m, c)
        PROVE  c \in InMemory(p)'
    BY <1>5, <2>2, Memory
  <2> QED BY <1>2, <1>5, <2>1, <2>2, MemoryConserves
<1>6. CASE retained'[p] = <<kept>> \o s /\ lost' = lost
  <2>1. /\ 1 \in DOMAIN retained'[p] /\ retained'[p][1] = kept
        /\ \A i \in DOMAIN s : i + 1 \in DOMAIN retained'[p] /\ retained'[p][i + 1] = s[i]
    BY <1>1, <1>6, SeqGrows
  <2>2. ASSUME NEW c, NEW m \in co.nodes, InCohort(co, m, c) PROVE c \in InMemory(p)'
    BY <1>3, <1>4, <2>1, <2>2, Memory
  <2>3. ASSUME NEW c, NEW i \in DOMAIN s, NEW m \in s[i].nodes, InKept(s[i], m, c) PROVE c \in InMemory(p)'
    BY <2>1, <2>3, Memory
  <2> QED BY <1>2, <1>6, <2>2, <2>3, MemoryConserves DEF s
<1> QED BY <1>1, <1>5, <1>6

\* A write that fails or is in doubt.
LEMMA PersistFaultConserves ==
  ASSUME OneRecorder, TypeOK, Conserved, NEW p \in Panel, NEW b \in BOOLEAN,
         PersistFails(p, b) \/ PersistInDoubt(p, b)
  PROVE  Conserved'
<1>1. /\ UNCHANGED <<counters, heldBatch, born, answer>>
      /\ \E inDoubt \in BOOLEAN : KeepOrAbandon(p, inDoubt)
      /\ Write(cohort[p]) \/ UNCHANGED <<bills, dropped>>
  BY DEF PersistFails, PersistInDoubt, nodeVars
<1>2. Settled \subseteq Settled'
  <2>1. CASE Write(cohort[p])
    BY <2>1, WriteSettles DEF TypeOK
  <2>2. CASE UNCHANGED <<bills, dropped>>
    BY <2>2 DEF Settled
  <2> QED BY <1>1, <2>1, <2>2
<1> QED BY <1>1, <1>2, FailureConserves

\* Legacy answers of a stopped tick are kept.
LEMMA SettleConserves ==
  ASSUME OneRecorder, TypeOK, Control, Conserved, NEW p \in Panel, SettleCollection(p)
  PROVE  Conserved'
<1> DEFINE s == retained[p]
           legacy == LegacyNodes(answer[p], {n \in Node : poll[p][n] = "ok"})
           kept == KeptCohort(answer[p], legacy, epochAtPoll[p], 0)
<1>1. /\ UNCHANGED <<counters, heldBatch, born, bills, dropped, lost, cohort>>
      /\ retained'[p] = IF legacy = {} THEN s ELSE Append(s, kept)
      /\ pc[p] = "settle" /\ cohort[p] = NoCohort
      /\ \A n \in Node : poll[p][n] \notin {"sent", "served"}
  BY DEF SettleCollection, TypeOK, nodeVars, pastVars, Control, ControlOf
<1>2. Settled' = Settled
  BY <1>1 DEF Settled
<1>3. ASSUME NEW c, NEW m \in cohort[p].nodes PROVE ~InCohort(cohort[p], m, c)
  BY <1>1, <1>3 DEF InCohort, NoCohort
<1>4. kept \in Cohort /\ s \in Seq(Cohort)
  <2>1. legacy \in SUBSET Node /\ answer[p] \in [Node -> StatBatch] /\ epochAtPoll[p] \in [User -> Nat]
    BY DEF LegacyNodes, TypeOK
  <2> QED BY <2>1, KeptCohortType DEF TypeOK
<1>5. ASSUME NEW c, NEW m \in Node, InAnswer(answer[p], m, c)
      PROVE  m \in legacy /\ m \in kept.nodes /\ InKept(kept, m, c)
  <2>1. poll[p][m] = "ok"
    BY <1>1, <1>5, EmptyData DEF InAnswer, Control, ControlOf
  <2>2. m \in legacy
    BY <1>5, <2>1 DEF InAnswer, LegacyNodes
  <2> QED BY <1>5, <2>2 DEF InAnswer, InKept, KeptCohort
<1> HIDE DEF kept, legacy, s
<1>6. \A i \in DOMAIN s : i \in DOMAIN retained'[p] /\ retained'[p][i] = s[i]
  BY <1>1, <1>4, SeqGrows
<1>7. legacy # {} => Len(s) + 1 \in DOMAIN retained'[p] /\ retained'[p][Len(s) + 1] = kept
  BY <1>1, <1>4, SeqGrows
<1>8. ASSUME NEW c, NEW m \in Node, InAnswer(answer[p], m, c) PROVE c \in InMemory(p)'
  BY <1>5, <1>7, <1>8, Memory
<1>9. ASSUME NEW c, NEW i \in DOMAIN s, NEW m \in s[i].nodes, InKept(s[i], m, c) PROVE c \in InMemory(p)'
  BY <1>6, <1>9, Memory
<1> QED BY <1>1, <1>2, <1>3, <1>8, <1>9, MemoryConserves DEF s

\* A lost answer is a documented loss,
LEMMA AnswerLostConserves ==
  ASSUME OneRecorder, TypeOK, Conserved, NEW p \in Panel, NEW n \in Node, PollAnswerLost(p, n)
  PROVE  Conserved'
<1>1. /\ UNCHANGED <<counters, heldBatch, born, bills, dropped, cohort, retained>>
      /\ \A m \in Node : m # n => answer'[p][m] = answer[p][m]
      /\ lost' = lost \cup DataOf(answer[p], LegacyNodes(answer[p], {n}))
  BY DEF PollAnswerLost, nodeVars, TypeOK
<1>2. Settled' = Settled
  BY <1>1 DEF Settled
<1>3. ASSUME NEW c, NEW m \in Node, InAnswer(answer[p], m, c) PROVE c \in InMemory(p)' \cup lost'
  <2>1. CASE m = n
    BY <1>1, <1>3, <2>1 DEF InAnswer, DataOf, LegacyNodes
  <2>2. CASE m # n
    <3>1. InAnswer(answer'[p], m, c)
      BY <1>1, <1>3, <2>2 DEF InAnswer
    <3> QED BY <3>1, Memory
  <2> QED BY <2>1, <2>2
<1>4. ASSUME NEW c, NEW m \in cohort[p].nodes, InCohort(cohort[p], m, c) PROVE c \in InMemory(p)'
  BY <1>1, <1>4, Memory
<1>5. ASSUME NEW c, NEW i \in DOMAIN retained[p], NEW m \in retained[p][i].nodes, InKept(retained[p][i], m, c)
      PROVE  c \in InMemory(p)'
  BY <1>1, <1>5, Memory
<1> QED BY <1>1, <1>2, <1>3, <1>4, <1>5, MemoryConserves

\* and so is the memory of a recorder that dies.
LEMMA CrashConserves ==
  ASSUME OneRecorder, Conserved, NEW p \in Panel, Crash(p) PROVE Conserved'
<1>1. /\ UNCHANGED <<counters, heldBatch, born, bills, dropped>>
      /\ lost' = lost \cup (InMemory(p) \ Settled)
  BY DEF Crash, nodeVars
<1>2. Settled' = Settled
  BY <1>1 DEF Settled
<1>3. \A c \in InMemory(p) : c \in Settled' \cup lost'
  BY <1>1, <1>2
<1>4. \A c \in InMemory(p) : Accounted(c)'
  BY <1>3, StaysAccounted
<1>5. \A q \in Proc : \A c \in counters[q] : Accounted(c)'
  BY <1>1, StaysAccounted
<1>6. \A q \in Proc : \A c \in heldBatch[q].data : Accounted(c)'
  BY <1>1, StaysAccounted
<1> QED BY <1>1, <1>2, <1>4, <1>5, <1>6, StepConserves

\* Every step conserves traffic.
LEMMA NextConserved ==
  ASSUME Separate, OneRecorder, TypeOK, Origin, Control, Account, Conserved, [Next]_vars
  PROVE  Conserved'
<1>1. CASE UNCHANGED vars
  BY <1>1, QuietConserves DEF vars, nodeVars, tickVars, pastVars
<1>2. CASE Environment
  BY <1>2, EnvironmentConserves
<1>3. ASSUME NEW p \in Panel,
             \/ \E healthy \in SUBSET Node : TickStart(p, healthy)
             \/ LoadAcks(p) \/ TickEnd(p) \/ LoadAcksFails(p)
             \/ \E n \in Node : PollSend(p, n) \/ PollAnswered(p, n) \/ PollRequestLost(p, n)
      PROVE  Conserved'
  BY <1>3, QuietConserves DEF TickStart, LoadAcks, TickEnd, LoadAcksFails, PollSend, PollAnswered,
                              PollRequestLost, nodeVars, pastVars
<1>4. ASSUME NEW p \in Panel, TickStep(p) PROVE Conserved'
  BY <1>3, <1>4, TakeRetainedConserves, TakeCohortConserves, ServedConserves, StaleConserves, CommitConserves,
     SettleConserves DEF TickStep
<1>5. ASSUME NEW p \in Panel, TickFault(p) PROVE Conserved'
  BY <1>3, <1>5, AnswerLostConserves, PersistFaultConserves, CrashConserves DEF TickFault
<1> QED BY <1>1, <1>2, <1>4, <1>5 DEF Next

\* Every unit of traffic a node counted is still on the node, in the memory of
\* the recorder, settled, or lost in one of the ways the code documents: no
\* acknowledgement the recorder prepares makes a node forget traffic that was
\* not settled, under the same faults and until an address is edited.
THEOREM ConservedUntilEdited == ASSUME Separate, OneRecorder PROVE Spec => []AllConserved
<1> DEFINE Inv == edited # {} \/ (Books /\ Conserved)
<1>1. Init => Inv
  BY InitBooks DEF Init, Conserved
<1>2. Inv /\ [Next]_vars => Inv'
  <2>1. ASSUME Books, Conserved, [Next]_vars, edited' = {} PROVE Books' /\ Conserved'
    BY <2>1, NextBooks, NextConserved DEF Books
  <2> QED BY <2>1, EditedStays
<1>3. Inv => AllConserved
  BY DEF AllConserved
<1> HIDE DEF Inv
<1> QED BY <1>1, <1>2, <1>3, PTL DEF Spec

\* The same without a proviso, where no address is ever edited.
THEOREM TrafficConserved ==
  ASSUME Separate, OneRecorder, "edit" \notin Faults PROVE Spec => []Conserved
<1>1. AllConserved /\ edited = {} => Conserved
  BY DEF AllConserved
<1> QED BY <1>1, ConservedUntilEdited, NeverEdited, PTL

----------------------------------------------------------------------------
(* The period traffic is billed to *)

\* Legacy traffic was drained after the usage epochs it is filed with were
\* noted.
Within(D, noted, bo, at) == \A c \in D : bo[c] \subseteq LegacyProc => noted[Owner[c]] <= at[c]

\* The order of the notes: a tick notes the usage epochs, then drains nodes,
\* and a usage epoch never goes back.
Period ==
  /\ \A q \in Proc : \A c \in counters[q] : born[c] = {q}
  /\ \A q \in Proc : \A c \in heldBatch[q].data : ~(born[c] \subseteq LegacyProc)
  /\ \A c \in Chunk : drainedAt[c] <= usageEpoch[Owner[c]]
  /\ \A p \in Panel, u \in User : epochAtPoll[p][u] <= usageEpoch[u]
  /\ \A p \in Panel, n \in Node : Within(answer[p][n].data, epochAtPoll[p], born, drainedAt)
  /\ \A p \in Panel, n \in Node : Within(cohort[p].params[n].data, cohort[p].epochs, born, drainedAt)
  /\ \A p \in Panel : \A i \in DOMAIN retained[p] : \A n \in Node :
       Within(retained[p][i].params[n].data, retained[p][i].epochs, born, drainedAt)

periodVars == <<counters, heldBatch, born, drainedAt, usageEpoch, epochAtPoll, answer, cohort, retained>>

\* Steps that leave traffic and usage epochs alone keep Period.
LEMMA KeepPeriod == Period /\ UNCHANGED periodVars => Period'
BY DEF Period, periodVars

\* The empty batch carries nothing.
LEMMA NoBatchWithin == ASSUME NEW noted, NEW bo, NEW at PROVE Within(NoBatch.data, noted, bo, at)
BY EmptyData DEF Within

\* Draining a chunk again, or counting it for the first time, keeps the order.
LEMMA WithinGrows ==
  ASSUME NEW D \in SUBSET Chunk, NEW noted \in [User -> Nat], NEW bo, NEW bn,
         NEW at \in [Chunk -> Nat], NEW an \in [Chunk -> Nat], Within(D, noted, bo, at),
         \A c \in Chunk : bo[c] = bn[c] \/ bo[c] = {}, \A c \in Chunk : at[c] <= an[c]
  PROVE  Within(D, noted, bn, an)
<1>1. SUFFICES ASSUME NEW c \in D, bn[c] \subseteq LegacyProc PROVE noted[Owner[c]] <= an[c]
  BY DEF Within
<1>2. c \in Chunk /\ Owner[c] \in User /\ at[c] \in Nat /\ an[c] \in Nat /\ noted[Owner[c]] \in Nat
  BY ConstantsAssumption
<1>3. bo[c] \subseteq LegacyProc
  BY <1>1, <1>2
<1>4. noted[Owner[c]] <= at[c] /\ at[c] <= an[c]
  BY <1>2, <1>3 DEF Within
<1> QED BY <1>2, <1>4

\* What the recorder has keeps its order while nodes count and drain.
LEMMA FiledWithin ==
  ASSUME TypeOK, TypeOK', Period,
         \A c \in Chunk : born[c] = born'[c] \/ born[c] = {}, \A c \in Chunk : drainedAt[c] <= drainedAt'[c]
  PROVE  /\ \A p \in Panel, n \in Node : Within(answer[p][n].data, epochAtPoll[p], born', drainedAt')
         /\ \A p \in Panel, n \in Node : Within(cohort[p].params[n].data, cohort[p].epochs, born', drainedAt')
         /\ \A p \in Panel : \A i \in DOMAIN retained[p] : \A n \in Node :
              Within(retained[p][i].params[n].data, retained[p][i].epochs, born', drainedAt')
<1>1. drainedAt \in [Chunk -> Nat] /\ drainedAt' \in [Chunk -> Nat]
  BY DEF TypeOK
<1>2. ASSUME NEW p \in Panel, NEW n \in Node PROVE Within(answer[p][n].data, epochAtPoll[p], born', drainedAt')
  <2>1. answer[p][n].data \in SUBSET Chunk /\ epochAtPoll[p] \in [User -> Nat]
    BY BatchTypes DEF TypeOK, StatBatch
  <2>2. Within(answer[p][n].data, epochAtPoll[p], born, drainedAt)
    BY DEF Period
  <2> QED BY <1>1, <2>1, <2>2, WithinGrows
<1>3. ASSUME NEW p \in Panel, NEW n \in Node
      PROVE  Within(cohort[p].params[n].data, cohort[p].epochs, born', drainedAt')
  <2>1. cohort[p].params[n].data \in SUBSET Chunk /\ cohort[p].epochs \in [User -> Nat]
    BY BatchTypes DEF TypeOK, StatBatch, Cohort
  <2>2. Within(cohort[p].params[n].data, cohort[p].epochs, born, drainedAt)
    BY DEF Period
  <2> QED BY <1>1, <2>1, <2>2, WithinGrows
<1>4. ASSUME NEW p \in Panel, NEW i \in DOMAIN retained[p], NEW n \in Node
      PROVE  Within(retained[p][i].params[n].data, retained[p][i].epochs, born', drainedAt')
  <2>1. retained[p][i].params[n].data \in SUBSET Chunk /\ retained[p][i].epochs \in [User -> Nat]
    BY BatchTypes DEF StatBatch, Cohort
  <2>2. Within(retained[p][i].params[n].data, retained[p][i].epochs, born, drainedAt)
    BY DEF Period
  <2> QED BY <1>1, <2>1, <2>2, WithinGrows
<1> QED BY <1>2, <1>3, <1>4

\* A reset only raises a usage epoch.
LEMMA EnvironmentPeriod ==
  ASSUME TypeOK, TypeOK', Period, Environment PROVE Period'
<1>0. UNCHANGED <<epochAtPoll, answer, cohort, retained>>
  BY EnvironmentKeepsTick DEF tickVars
<1>1. ASSUME NEW q \in Proc, NEW c \in Chunk, Traffic(q, c) PROVE Period'
  <2>1. /\ born[c] = {} /\ born' = [born EXCEPT ![c] = {q}] /\ counters' = [counters EXCEPT ![q] = @ \cup {c}]
        /\ UNCHANGED <<heldBatch, drainedAt, usageEpoch>>
    BY <1>1 DEF Traffic, userVars
  <2>2. /\ born \in [Chunk -> SUBSET Proc] /\ counters \in [Proc -> SUBSET Chunk]
        /\ \A d \in Chunk : drainedAt[d] \in Nat
    BY DEF TypeOK
  <2>3. \A d \in Chunk : born[d] = born'[d] \/ born[d] = {}
    BY <2>1, <2>2
  <2>4. \A d \in Chunk : drainedAt[d] <= drainedAt'[d]
    BY <2>1, <2>2
  <2>5. \A r \in Proc : \A d \in counters'[r] : born'[d] = {r}
    <3>1. SUFFICES ASSUME NEW r \in Proc, NEW d \in counters'[r] PROVE born'[d] = {r}
      OBVIOUS
    <3>2. (d = c /\ r = q) \/ d \in counters[r]
      BY <2>1, <2>2, <3>1
    <3>3. CASE d = c /\ r = q
      BY <2>1, <2>2, <3>3
    <3>4. CASE d \in counters[r]
      <4>1. born[d] = {r} /\ d \in Chunk
        BY <2>2, <3>4 DEF Period
      <4> QED BY <2>3, <4>1
    <3> QED BY <3>2, <3>3, <3>4
  <2>6. \A r \in Proc : \A d \in heldBatch'[r].data : ~(born'[d] \subseteq LegacyProc)
    <3>1. SUFFICES ASSUME NEW r \in Proc, NEW d \in heldBatch[r].data PROVE ~(born'[d] \subseteq LegacyProc)
      BY <2>1
    <3>2. ~(born[d] \subseteq LegacyProc) /\ d \in Chunk
      BY <3>1, BatchTypes DEF Period, StatBatch
    <3> QED BY <2>3, <3>2
  <2> QED BY <1>0, <2>1, <2>3, <2>4, <2>5, <2>6, FiledWithin DEF Period
<1>2. ASSUME NEW q \in Proc, NEW saved \in BOOLEAN, Restart(q, saved) PROVE Period'
  <2>1. /\ UNCHANGED <<counters, born, drainedAt, usageEpoch>>
        /\ \A r \in Proc : heldBatch'[r] \in {heldBatch[r], NoBatch}
    BY <1>2 DEF Restart, userVars, TypeOK
  <2>2. \A r \in Proc : \A d \in heldBatch'[r].data : ~(born[d] \subseteq LegacyProc)
    BY <2>1, EmptyData DEF Period
  <2> QED BY <1>0, <2>1, <2>2 DEF Period
<1>3. ASSUME NEW u \in User, ResetUsage(u) PROVE Period'
  <2>1. /\ UNCHANGED <<counters, heldBatch, born, drainedAt>>
        /\ usageEpoch \in [User -> Nat] /\ usageEpoch' = [usageEpoch EXCEPT ![u] = @ + 1]
        /\ drainedAt \in [Chunk -> Nat] /\ epochAtPoll \in [Panel -> [User -> Nat]]
    BY <1>3 DEF ResetUsage, nodeVars, pastVars, TypeOK
  <2>2. \A v \in User : usageEpoch[v] \in Nat /\ usageEpoch'[v] \in Nat /\ usageEpoch[v] <= usageEpoch'[v]
    BY <2>1
  <2>3. \A d \in Chunk : drainedAt[d] <= usageEpoch'[Owner[d]]
    <3>1. \A d \in Chunk : Owner[d] \in User /\ drainedAt[d] \in Nat /\ drainedAt[d] <= usageEpoch[Owner[d]]
      BY <2>1, ConstantsAssumption DEF Period
    <3> QED BY <2>2, <3>1
  <2>4. \A p \in Panel, v \in User : epochAtPoll[p][v] <= usageEpoch'[v]
    <3>1. \A p \in Panel, v \in User : epochAtPoll[p][v] \in Nat /\ epochAtPoll[p][v] <= usageEpoch[v]
      BY <2>1 DEF Period
    <3> QED BY <2>2, <3>1
  <2> QED BY <1>0, <2>1, <2>3, <2>4 DEF Period
<1>4. ASSUME \/ \E u \in User : DeleteUser(u)
             \/ \E n \in Node, q \in Proc : EditNode(n, q) PROVE Period'
  BY <1>0, <1>4, KeepPeriod DEF DeleteUser, EditNode, nodeVars, userVars, pastVars, periodVars
<1> QED BY <1>1, <1>2, <1>3, <1>4 DEF Environment

\* What a node drains is drained at its users' current usage epochs.
LEMMA ServedPeriod ==
  ASSUME TypeOK, TypeOK', Period, NEW p \in Panel, NEW n \in Node, PollServed(p, n) PROVE Period'
<1> DEFINE q == procOf[n]
           ack == acks[p][n]
           resp == Response(q, ack)
<1>1. q \in Proc /\ counters \in [Proc -> SUBSET Chunk] /\ heldBatch \in [Proc -> StatBatch]
  BY DEF TypeOK
<1>2. /\ NodeServes(q, ack) /\ answer' = [answer EXCEPT ![p][n] = resp]
      /\ UNCHANGED <<born, usageEpoch, epochAtPoll, cohort, retained>>
  BY DEF PollServed, userVars
<1>3. /\ Drains(q, ack) => resp.data = counters[q]
      /\ ~Drains(q, ack) => resp = heldBatch[q] /\ q \notin LegacyProc
  BY EmptyData DEF Response, Drains, KeptBatch
<1>4. \A r \in Panel, m \in Node : answer'[r][m] = IF r = p /\ m = n THEN resp ELSE answer[r][m]
  BY <1>2 DEF TypeOK
<1>5. /\ \A r \in Proc : counters'[r] \subseteq counters[r]
      /\ \A r \in Proc : heldBatch'[r] \in {heldBatch[r], NoBatch} \/ (r = q /\ q \notin LegacyProc /\ heldBatch'[r] = resp)
      /\ \A c \in Chunk : drainedAt'[c] = IF Drains(q, ack) /\ c \in counters[q]
                                            THEN usageEpoch[Owner[c]] ELSE drainedAt[c]
  BY <1>1, <1>2 DEF NodeServes
<1>6. \A c \in Chunk : /\ drainedAt[c] \in Nat /\ usageEpoch[Owner[c]] \in Nat /\ Owner[c] \in User
                       /\ drainedAt[c] <= usageEpoch[Owner[c]]
  BY ConstantsAssumption DEF TypeOK, Period
<1>7. \A c \in Chunk : drainedAt[c] <= drainedAt'[c] /\ drainedAt'[c] <= usageEpoch[Owner[c]]
  BY <1>5, <1>6
<1>8. Within(resp.data, epochAtPoll[p], born, drainedAt')
  <2>1. SUFFICES ASSUME NEW c \in resp.data, born[c] \subseteq LegacyProc
                 PROVE  epochAtPoll[p][Owner[c]] <= drainedAt'[c]
    BY DEF Within
  <2>2. CASE Drains(q, ack)
    <3>1. c \in counters[q] /\ c \in Chunk
      BY <1>1, <1>3, <2>1, <2>2
    <3>2. drainedAt'[c] = usageEpoch[Owner[c]] /\ Owner[c] \in User
      BY <1>5, <1>6, <2>2, <3>1
    <3> QED BY <3>2 DEF Period
  <2>3. CASE ~Drains(q, ack)
    BY <1>1, <1>3, <2>1, <2>3 DEF Period
  <2> QED BY <2>2, <2>3
<1>9. q \notin LegacyProc => \A c \in resp.data : ~(born[c] \subseteq LegacyProc)
  BY <1>1, <1>3 DEF Period
<1>10. /\ \A r \in Panel, m \in Node : Within(answer[r][m].data, epochAtPoll[r], born, drainedAt')
       /\ \A r \in Panel, m \in Node : Within(cohort[r].params[m].data, cohort[r].epochs, born, drainedAt')
       /\ \A r \in Panel : \A i \in DOMAIN retained[r] : \A m \in Node :
            Within(retained[r][i].params[m].data, retained[r][i].epochs, born, drainedAt')
  BY <1>2, <1>7, FiledWithin
<1> HIDE DEF q, ack, resp
<1>11. \A r \in Proc : \A c \in counters'[r] : born[c] = {r}
  BY <1>5 DEF Period
<1>12. \A r \in Proc : \A c \in heldBatch'[r].data : ~(born[c] \subseteq LegacyProc)
  BY <1>5, <1>9, EmptyData DEF Period
<1>13. \A r \in Panel, m \in Node : Within(answer'[r][m].data, epochAtPoll[r], born, drainedAt')
  BY <1>4, <1>8, <1>10
<1>14. \A r \in Panel, u \in User : epochAtPoll[r][u] <= usageEpoch[u]
  BY DEF Period
<1> QED BY <1>2, <1>7, <1>10, <1>11, <1>12, <1>13, <1>14 DEF Period

\* A step of a recorder that files what it had under the epochs it had.
LEMMA RefiledPeriod ==
  ASSUME Period, NEW p \in Panel,
         UNCHANGED <<counters, heldBatch, born, drainedAt, usageEpoch>>,
         \A r \in Panel : r # p => /\ answer'[r] = answer[r] /\ cohort'[r] = cohort[r]
                                   /\ retained'[r] = retained[r] /\ epochAtPoll'[r] = epochAtPoll[r],
         \A u \in User : epochAtPoll'[p][u] <= usageEpoch[u],
         \A n \in Node : Within(answer'[p][n].data, epochAtPoll'[p], born, drainedAt),
         \A n \in Node : Within(cohort'[p].params[n].data, cohort'[p].epochs, born, drainedAt),
         \A i \in DOMAIN retained'[p] : \A n \in Node :
            Within(retained'[p][i].params[n].data, retained'[p][i].epochs, born, drainedAt)
  PROVE  Period'
<1>1. \A r \in Panel, n \in Node : Within(answer'[r][n].data, epochAtPoll'[r], born, drainedAt)
  BY DEF Period
<1>2. \A r \in Panel, n \in Node : Within(cohort'[r].params[n].data, cohort'[r].epochs, born, drainedAt)
  BY DEF Period
<1>3. \A r \in Panel : \A i \in DOMAIN retained'[r] : \A n \in Node :
        Within(retained'[r][i].params[n].data, retained'[r][i].epochs, born, drainedAt)
  BY DEF Period
<1>4. \A r \in Panel, u \in User : epochAtPoll'[r][u] <= usageEpoch[u]
  BY DEF Period
<1> QED BY <1>1, <1>2, <1>3, <1>4 DEF Period

\* A kept cohort keeps the usage epochs it was read under.
LEMMA KeptWithin ==
  ASSUME NEW params, NEW S, NEW noted, NEW k,
         \A n \in Node : Within(params[n].data, noted, born, drainedAt)
  PROVE  LET kept == KeptCohort(params, S, noted, k)
         IN  \A n \in Node : Within(kept.params[n].data, kept.epochs, born, drainedAt)
BY NoBatchWithin DEF KeptCohort

\* Steps of a tick keep Period.
LEMMA TickStepPeriod ==
  ASSUME TypeOK, TypeOK', Control, Period, NEW p \in Panel, TickStep(p) PROVE Period'
<1> USE DEF nodeVars, userVars, pastVars
<1>0. \A r \in Panel : r # p => /\ answer'[r] = answer[r] /\ cohort'[r] = cohort[r]
                                /\ retained'[r] = retained[r] /\ epochAtPoll'[r] = epochAtPoll[r]
  BY OthersKeepTick
<1>00. /\ \A u \in User : epochAtPoll[p][u] <= usageEpoch[u]
       /\ \A n \in Node : Within(answer[p][n].data, epochAtPoll[p], born, drainedAt)
       /\ \A n \in Node : Within(cohort[p].params[n].data, cohort[p].epochs, born, drainedAt)
       /\ \A i \in DOMAIN retained[p] : \A n \in Node :
            Within(retained[p][i].params[n].data, retained[p][i].epochs, born, drainedAt)
  BY DEF Period
<1>1. CASE \E healthy \in SUBSET Node : TickStart(p, healthy)
  <2>1. /\ UNCHANGED <<counters, heldBatch, born, drainedAt, usageEpoch, answer, cohort, retained>>
        /\ epochAtPoll'[p] = usageEpoch /\ pc[p] = "idle"
    BY <1>1 DEF TickStart, TypeOK
  <2>2. \A n \in Node : answer[p][n] = NoBatch
    BY <2>1 DEF Control, ControlOf
  <2>3. \A u \in User : usageEpoch[u] <= usageEpoch[u]
    BY DEF TypeOK
  <2> QED BY <1>0, <1>00, <2>1, <2>2, <2>3, NoBatchWithin, RefiledPeriod
<1>2. CASE TakeRetained(p)
  <2>1. retained[p] \in Seq(Cohort) /\ retained[p] # <<>>
    BY <1>2 DEF TakeRetained, TypeOK
  <2>2. /\ UNCHANGED <<counters, heldBatch, born, drainedAt, usageEpoch, epochAtPoll, answer>>
        /\ cohort'[p] = Head(retained[p]) /\ retained'[p] = Tail(retained[p])
    BY <1>2 DEF TakeRetained, TypeOK
  <2>3. /\ cohort'[p] = retained[p][1] /\ 1 \in DOMAIN retained[p]
        /\ \A i \in DOMAIN retained'[p] : i + 1 \in DOMAIN retained[p] /\ retained'[p][i] = retained[p][i + 1]
    BY <2>1, <2>2, SeqTail
  <2> QED BY <1>0, <1>00, <2>2, <2>3, RefiledPeriod
<1>3. CASE LoadAcks(p) \/ TickEnd(p) \/ \E n \in Node : PollSend(p, n) \/ PollAnswered(p, n)
  BY <1>3, KeepPeriod DEF LoadAcks, TickEnd, PollSend, PollAnswered, periodVars
<1>4. CASE TakeCohort(p)
  <2>1. /\ UNCHANGED <<counters, heldBatch, born, drainedAt, usageEpoch, epochAtPoll, retained>>
        /\ cohort'[p].epochs = epochAtPoll[p]
        /\ \A n \in Node : /\ cohort'[p].params[n] \in {answer[p][n], NoBatch}
                           /\ answer'[p][n] \in {answer[p][n], NoBatch}
    BY <1>4 DEF TakeCohort, TypeOK
  <2>2. \A n \in Node : /\ Within(cohort'[p].params[n].data, cohort'[p].epochs, born, drainedAt)
                        /\ Within(answer'[p][n].data, epochAtPoll[p], born, drainedAt)
    BY <1>00, <2>1, NoBatchWithin
  <2> QED BY <1>0, <1>00, <2>1, <2>2, RefiledPeriod
<1>5. CASE \E n \in Node : PollServed(p, n)
  BY <1>5, ServedPeriod
<1>6. CASE PersistStale(p)
  <2>1. UNCHANGED <<counters, heldBatch, born, drainedAt, usageEpoch, epochAtPoll, answer, retained>>
    BY <1>6 DEF PersistStale
  <2>2. /\ cohort'[p].epochs = cohort[p].epochs
        /\ \A n \in Node : cohort'[p].params[n] = cohort[p].params[n] \/ cohort'[p].params[n].data = {}
    <3>1. /\ cohort'[p].epochs = cohort[p].epochs
          /\ \A n \in Node : cohort'[p].params[n] =
               IF n \in StaleNodes(cohort[p])
                 THEN [epoch |-> cohort[p].params[n].epoch, id |-> cohort[p].params[n].id, data |-> {}]
                 ELSE cohort[p].params[n]
      BY <1>6, StaleEffect
    <3>2. ASSUME NEW n \in Node
          PROVE  cohort'[p].params[n] = cohort[p].params[n] \/ cohort'[p].params[n].data = {}
      <4>1. CASE n \in StaleNodes(cohort[p])
        <5>1. cohort'[p].params[n] =
                [epoch |-> cohort[p].params[n].epoch, id |-> cohort[p].params[n].id, data |-> {}]
          BY <3>1, <4>1
        <5>2. ASSUME NEW e, NEW k PROVE [epoch |-> e, id |-> k, data |-> {}].data = {}
          OBVIOUS
        <5> QED BY <5>1, <5>2, Zenon
      <4>2. CASE n \notin StaleNodes(cohort[p])
        BY <3>1, <4>2
      <4> QED BY <4>1, <4>2
    <3> QED BY <3>1, <3>2
  <2>3. \A n \in Node : Within(cohort'[p].params[n].data, cohort'[p].epochs, born, drainedAt)
    BY <1>00, <2>2 DEF Within
  <2> QED BY <1>0, <1>00, <2>1, <2>3, RefiledPeriod
<1>7. CASE PersistCommit(p)
  <2>1. /\ UNCHANGED <<counters, heldBatch, born, drainedAt, usageEpoch, epochAtPoll, answer, retained>>
        /\ cohort'[p] = NoCohort
    BY <1>7 DEF PersistCommit, TypeOK
  <2>2. \A n \in Node : cohort'[p].params[n] = NoBatch
    BY <2>1 DEF NoCohort
  <2> QED BY <1>0, <1>00, <2>1, <2>2, NoBatchWithin, RefiledPeriod
<1>8. CASE SettleCollection(p)
  <2> DEFINE legacy == LegacyNodes(answer[p], {n \in Node : poll[p][n] = "ok"})
             kept == KeptCohort(answer[p], legacy, epochAtPoll[p], 0)
  <2>1. /\ UNCHANGED <<counters, heldBatch, born, drainedAt, usageEpoch, epochAtPoll, cohort>>
        /\ \A n \in Node : answer'[p][n] = NoBatch
        /\ retained'[p] = retained[p] \/ retained'[p] = Append(retained[p], kept)
    BY <1>8 DEF SettleCollection, TypeOK
  <2>2. kept \in Cohort /\ retained[p] \in Seq(Cohort)
    <3>1. legacy \in SUBSET Node /\ answer[p] \in [Node -> StatBatch] /\ epochAtPoll[p] \in [User -> Nat]
      BY DEF LegacyNodes, TypeOK
    <3> QED BY <3>1, KeptCohortType DEF TypeOK
  <2>3. \A n \in Node : Within(kept.params[n].data, kept.epochs, born, drainedAt)
    BY <1>00, KeptWithin
  <2> HIDE DEF kept
  <2>4. \A i \in DOMAIN retained'[p] : \A n \in Node :
          Within(retained'[p][i].params[n].data, retained'[p][i].epochs, born, drainedAt)
    <3>1. CASE retained'[p] = retained[p]
      BY <1>00, <3>1
    <3>2. CASE retained'[p] = Append(retained[p], kept)
      <4>1. \A i \in DOMAIN retained'[p] :
              retained'[p][i] = kept \/ (i \in DOMAIN retained[p] /\ retained'[p][i] = retained[p][i])
        BY <2>2, <3>2, SeqBack
      <4> QED BY <1>00, <2>3, <4>1
    <3> QED BY <2>1, <3>1, <3>2
  <2> QED BY <1>0, <1>00, <2>1, <2>4, NoBatchWithin, RefiledPeriod
<1> QED BY <1>1, <1>2, <1>3, <1>4, <1>5, <1>6, <1>7, <1>8 DEF TickStep

\* Faults keep it.
LEMMA TickFaultPeriod ==
  ASSUME TypeOK, TypeOK', Period, NEW p \in Panel, TickFault(p) PROVE Period'
<1> USE DEF nodeVars, userVars, pastVars
<1>0. \A r \in Panel : r # p => /\ answer'[r] = answer[r] /\ cohort'[r] = cohort[r]
                                /\ retained'[r] = retained[r] /\ epochAtPoll'[r] = epochAtPoll[r]
  BY OthersKeepTick
<1>00. /\ \A u \in User : epochAtPoll[p][u] <= usageEpoch[u]
       /\ \A n \in Node : Within(answer[p][n].data, epochAtPoll[p], born, drainedAt)
       /\ \A n \in Node : Within(cohort[p].params[n].data, cohort[p].epochs, born, drainedAt)
       /\ \A i \in DOMAIN retained[p] : \A n \in Node :
            Within(retained[p][i].params[n].data, retained[p][i].epochs, born, drainedAt)
  BY DEF Period
<1>000. \A n \in Node : NoCohort.params[n] = NoBatch
  BY DEF NoCohort
<1>1. CASE LoadAcksFails(p) \/ \E n \in Node : PollRequestLost(p, n)
  BY <1>1, KeepPeriod DEF LoadAcksFails, PollRequestLost, periodVars
<1>2. CASE \E n \in Node : PollAnswerLost(p, n)
  <2>1. /\ UNCHANGED <<counters, heldBatch, born, drainedAt, usageEpoch, epochAtPoll, cohort, retained>>
        /\ \A n \in Node : answer'[p][n] \in {answer[p][n], NoBatch}
    BY <1>2 DEF PollAnswerLost, TypeOK
  <2>2. \A n \in Node : Within(answer'[p][n].data, epochAtPoll[p], born, drainedAt)
    BY <1>00, <2>1, NoBatchWithin
  <2> QED BY <1>0, <1>00, <2>1, <2>2, RefiledPeriod
<1>3. ASSUME NEW b \in BOOLEAN, PersistFails(p, b) \/ PersistInDoubt(p, b) PROVE Period'
  <2> DEFINE co == cohort[p]
             legacy == LegacyNodes(co.params, co.nodes)
             kept == KeptCohort(co.params, legacy, co.epochs, co.attempts + 1)
  <2>1. /\ UNCHANGED <<counters, heldBatch, born, drainedAt, usageEpoch, epochAtPoll, answer>>
        /\ \E retriable \in BOOLEAN : AfterFailure(p, retriable)
        /\ \E inDoubt \in BOOLEAN : KeepOrAbandon(p, inDoubt)
    BY <1>3 DEF PersistFails, PersistInDoubt
  <2>2. cohort'[p] = NoCohort
    BY <2>1 DEF AfterFailure, TypeOK
  <2>3. kept \in Cohort /\ retained[p] \in Seq(Cohort)
        /\ (retained'[p] = retained[p] \/ retained'[p] = <<kept>> \o retained[p])
    BY <2>1, KeepOrAbandonEffect DEF TypeOK
  <2>4. \A n \in Node : Within(kept.params[n].data, kept.epochs, born, drainedAt)
    BY <1>00, KeptWithin
  <2> HIDE DEF kept
  <2>5. \A i \in DOMAIN retained'[p] : \A n \in Node :
          Within(retained'[p][i].params[n].data, retained'[p][i].epochs, born, drainedAt)
    <3>1. CASE retained'[p] = retained[p]
      BY <1>00, <3>1
    <3>2. CASE retained'[p] = <<kept>> \o retained[p]
      <4>1. \A i \in DOMAIN retained'[p] :
              \/ retained'[p][i] = kept
              \/ i - 1 \in DOMAIN retained[p] /\ retained'[p][i] = retained[p][i - 1]
        BY <2>3, <3>2, SeqFront
      <4> QED BY <1>00, <2>4, <4>1
    <3> QED BY <2>3, <3>1, <3>2
  <2> QED BY <1>0, <1>00, <1>000, <2>1, <2>2, <2>5, NoBatchWithin, RefiledPeriod
<1>4. CASE Crash(p)
  <2>1. /\ UNCHANGED <<counters, heldBatch, born, drainedAt, usageEpoch>>
        /\ \A n \in Node : answer'[p][n] = NoBatch
        /\ \A u \in User : epochAtPoll'[p][u] = 0
        /\ cohort'[p] = NoCohort /\ retained'[p] = <<>>
    BY <1>4 DEF Crash, TypeOK
  <2>2. \A u \in User : 0 <= usageEpoch[u]
    BY DEF TypeOK
  <2>3. DOMAIN retained'[p] = {}
    BY <2>1
  <2> QED BY <1>0, <1>000, <2>1, <2>2, <2>3, NoBatchWithin, RefiledPeriod
<1> QED BY <1>1, <1>2, <1>3, <1>4 DEF TickFault

\* Period is inductive,
LEMMA NextPeriod ==
  ASSUME TypeOK, TypeOK', Control, Period, [Next]_vars PROVE Period'
<1>1. CASE UNCHANGED vars
  BY <1>1, KeepPeriod DEF vars, nodeVars, userVars, tickVars, pastVars, periodVars
<1> QED BY <1>1, EnvironmentPeriod, TickStepPeriod, TickFaultPeriod DEF Next

\* and holds at the start.
LEMMA InitPeriod == Init => Period
<1> SUFFICES ASSUME Init PROVE Period
  OBVIOUS
<1>1. \A p \in Panel, n \in Node : answer[p][n] = NoBatch /\ cohort[p].params[n] = NoBatch
  BY DEF Init, NoCohort
<1>2. /\ \A q \in Proc : heldBatch[q] = NoBatch /\ counters[q] = {}
      /\ \A p \in Panel : retained[p] = <<>>
      /\ \A u \in User : usageEpoch[u] = 0 /\ \A p \in Panel : epochAtPoll[p][u] = 0
      /\ \A c \in Chunk : drainedAt[c] = 0 /\ Owner[c] \in User
  BY ConstantsAssumption DEF Init
<1>3. \A p \in Panel : DOMAIN retained[p] = {}
  BY <1>2
<1>4. /\ \A p \in Panel, n \in Node : Within(answer[p][n].data, epochAtPoll[p], born, drainedAt)
      /\ \A p \in Panel, n \in Node : Within(cohort[p].params[n].data, cohort[p].epochs, born, drainedAt)
  BY <1>1, NoBatchWithin
<1>5. /\ \A c \in Chunk : drainedAt[c] <= usageEpoch[Owner[c]]
      /\ \A p \in Panel, u \in User : epochAtPoll[p][u] <= usageEpoch[u]
  BY <1>2
<1>6. \A q \in Proc : counters[q] = {} /\ heldBatch[q].data = {}
  BY <1>2, EmptyData
<1> QED BY <1>3, <1>4, <1>5, <1>6 DEF Period

\* Only a transaction bills, and it bills what passes the fence.
LEMMA BilledInPeriod ==
  ASSUME TypeOK, Period, [Next]_vars, NEW c \in Chunk, bills'[c] > bills[c], born[c] \subseteq LegacyProc
  PROVE  usageEpoch'[Owner[c]] = drainedAt[c]
<1>0. bills[c] \in Nat
  BY DEF TypeOK
<1>1. bills'[c] # bills[c]
  BY <1>0
<1>2. PICK p \in Panel : Write(cohort[p]) /\ UNCHANGED usageEpoch
  <2>1. bills' # bills
    BY <1>1
  <2>2. ~(UNCHANGED vars) /\ ~Environment
    BY <2>1 DEF vars, Environment, Traffic, Restart, ResetUsage, DeleteUser, EditNode
  <2>3. PICK p \in Panel : TickStep(p) \/ TickFault(p)
    BY <2>2 DEF Next
  <2>4. CASE TickStep(p)
    <3>1. PersistCommit(p)
      BY <2>1, <2>4 DEF TickStep, TickStart, TakeRetained, LoadAcks, TakeCohort, PollSend, PollServed,
                        PollAnswered, PersistStale, TickEnd, SettleCollection
    <3> QED BY <3>1 DEF PersistCommit, userVars
  <2>5. CASE TickFault(p)
    <3>1. \E landed \in BOOLEAN : PersistInDoubt(p, landed)
      BY <2>1, <2>5 DEF TickFault, LoadAcksFails, PollAnswerLost, PollRequestLost, PersistFails, Crash
    <3> QED BY <2>1, <3>1 DEF PersistInDoubt, userVars
  <2> QED BY <2>3, <2>4, <2>5
<1> DEFINE co == cohort[p]
<1>3. co \in Cohort
  BY DEF TypeOK
<1>4. Unfenced(co, c)
  BY <1>1, <1>2 DEF Write
<1>5. c \in DataOf(co.params, co.nodes)
  BY <1>1, <1>2, <1>3, WriteSettles
<1>6. PICK n \in co.nodes : c \in co.params[n].data
  BY <1>5 DEF DataOf
<1>7. n \in Node
  BY <1>3 DEF Cohort
<1>8. co.epochs[Owner[c]] <= drainedAt[c] /\ drainedAt[c] <= usageEpoch[Owner[c]]
  BY <1>6, <1>7 DEF Period, Within
<1>9. usageEpoch[Owner[c]] = co.epochs[Owner[c]]
  BY <1>4 DEF Unfenced
<1>10. drainedAt[c] \in Nat /\ usageEpoch[Owner[c]] \in Nat
  BY ConstantsAssumption DEF TypeOK
<1> QED BY <1>2, <1>8, <1>9, <1>10

\* Traffic the recorder read from a legacy node before a user's usage was
\* reset is never billed to the period after the reset, however many ticks it
\* is kept for and however often its write failed: the usage-epoch fence of
\* apply_fenced_user_usage, with no assumption on node ids or recorders.
THEOREM PeriodsKept == Spec => BilledInThePeriodRead
<1>1. Init => TypeOK /\ Control /\ Period
  BY InitTypeOK, InitControl, InitPeriod
<1>2. TypeOK /\ Control /\ Period /\ [Next]_vars => (TypeOK /\ Control /\ Period)'
  BY NextTypeOK, NextControl, NextPeriod
<1>3. TypeOK /\ Period /\ [Next]_vars
        => [\A c \in Chunk : bills'[c] > bills[c] /\ born[c] \subseteq LegacyProc
                               => usageEpoch'[Owner[c]] = drainedAt[c]]_vars
  BY BilledInPeriod
<1> QED BY <1>1, <1>2, <1>3, PTL DEF Spec, BilledInThePeriodRead
=============================================================================
