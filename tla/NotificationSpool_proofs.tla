---------------------- MODULE NotificationSpool_proofs ----------------------
(***************************************************************************)
(* Proofs about the spooled notifications, for any number of               *)
(* notifications, deaths of the process and failures: no notification      *)
(* disappears without a word (NothingIsLost), and none is sent twice until *)
(* a restore is cut short (SentOnce).                                      *)
(***************************************************************************)
EXTENDS NotificationSpool, FiniteSetTheorems, TLAPS

-----------------------------------------------------------------------------
(* The inductive invariant. *)

Types ==
    /\ phase \in {"down", "starting", "running", "stopping"}
    /\ queue \in Seq(Items) /\ drained \in Seq(Items)
    /\ spool \in Seq(Items) \cup {NoFile}
    /\ claimed \in [Files -> Seq(Items) \cup {NoFile}]
    /\ todo \in Seq(Files \cup {0})
    /\ current = Idle \/ current \in [file: Files, left: Seq(Items)]
    /\ raised \in Nat /\ raised <= MaxItem
    /\ sent \in [Items -> Nat]
    /\ crashes \in Nat /\ crashes <= MaxCrash
    /\ fails \in Nat /\ fails <= MaxFail

\* A file is restored only while the panel starts, and is there until it is
\* removed; a shutdown finds nothing left by an earlier one.
Phases ==
    /\ current # Idle => phase = "starting" /\ claimed[current.file] # NoFile
    /\ phase # "stopping" => drained = <<>>

\* Every claimed file is being restored or was left by a failure, so that there
\* is always a name for the next one.
Room == Cardinality(Names) <= crashes + fails + (IF current = Idle THEN 0 ELSE 1)

\* What a notification may have come to outside the claimed files.
Kept(i) ==
    \/ i \in ToSet(queue) \/ i \in ToSet(drained) \/ i \in ToSet(EntriesOf(spool))
    \/ i \in aside \/ i \in reported \/ i \in dropped
    \/ sent[i] > 0

InClaimed(i) == \E n \in Files : i \in ToSet(EntriesOf(claimed[n]))

AllKept == \A i \in 1..raised : Kept(i) \/ InClaimed(i)

\* What the file being restored still holds is only what is left to be queued;
\* the rest of it is kept elsewhere.
Elsewhere ==
    current # Idle =>
        \A i \in ToSet(EntriesOf(claimed[current.file])) : Kept(i) \/ i \in ToSet(current.left)

IInv == Types /\ Phases /\ Room /\ AllKept /\ Elsewhere

-----------------------------------------------------------------------------
(* Sequences, files and names. *)

LEMMA EmptySeq == <<>> \in Seq(Items)
OBVIOUS

LEMMA EmptySet == \A i : i \notin ToSet(<<>>)
<1>1. DOMAIN <<>> = {}
  OBVIOUS
<1> SUFFICES ASSUME NEW i \in ToSet(<<>>) PROVE FALSE
  OBVIOUS
<1>2. PICK j \in DOMAIN <<>> : i = <<>>[j]
  BY DEF ToSet
<1> QED
  BY <1>1, <1>2

LEMMA AppendSet ==
    ASSUME NEW s \in Seq(Items), NEW e \in Items
    PROVE  Append(s, e) \in Seq(Items) /\ \A i : i \in ToSet(Append(s, e)) <=> i \in ToSet(s) \/ i = e
<1>1. Append(s, e) \in Seq(Items) /\ Len(Append(s, e)) = Len(s) + 1
  OBVIOUS
<1>2. DOMAIN s = 1..Len(s) /\ DOMAIN Append(s, e) = 1..(Len(s) + 1) /\ Len(s) \in Nat
  BY <1>1
<1>3. \A j \in 1..Len(s) : Append(s, e)[j] = s[j]
  OBVIOUS
<1>4. Append(s, e)[Len(s) + 1] = e
  OBVIOUS
<1>5. \A j : j \in DOMAIN Append(s, e) <=> j \in DOMAIN s \/ j = Len(s) + 1
  BY <1>2
<1> HIDE DEF ToSet
<1>6. ASSUME NEW i PROVE i \in ToSet(Append(s, e)) <=> i \in ToSet(s) \/ i = e
  BY <1>2, <1>3, <1>4, <1>5 DEF ToSet
<1> QED
  BY <1>1, <1>6

LEMMA TailSet ==
    ASSUME NEW s \in Seq(Items), s # <<>>
    PROVE  /\ Head(s) \in Items /\ Tail(s) \in Seq(Items)
           /\ \A i : i \in ToSet(s) <=> i = Head(s) \/ i \in ToSet(Tail(s))
<1>1. /\ Head(s) \in Items /\ Tail(s) \in Seq(Items) /\ Len(s) \in Nat /\ Len(s) > 0
      /\ Len(Tail(s)) = Len(s) - 1 /\ Head(s) = s[1]
  OBVIOUS
<1>2. DOMAIN s = 1..Len(s) /\ DOMAIN Tail(s) = 1..(Len(s) - 1)
  BY <1>1
<1>3. \A j \in 1..(Len(s) - 1) : Tail(s)[j] = s[j + 1]
  OBVIOUS
<1>4. ASSUME NEW i PROVE i \in ToSet(s) <=> i = Head(s) \/ i \in ToSet(Tail(s))
  <2>1. ASSUME i \in ToSet(s) PROVE i = Head(s) \/ i \in ToSet(Tail(s))
    <3>1. PICK j \in 1..Len(s) : i = s[j]
      BY <1>2, <2>1 DEF ToSet
    <3>2. CASE j = 1
      BY <1>1, <3>1, <3>2
    <3>3. CASE j # 1
      <4>1. j - 1 \in 1..(Len(s) - 1) /\ Tail(s)[j - 1] = s[(j - 1) + 1] /\ (j - 1) + 1 = j
        BY <1>1, <1>3, <3>3
      <4>2. i = Tail(s)[j - 1]
        BY <3>1, <4>1
      <4> QED
        BY <1>2, <4>1, <4>2 DEF ToSet
    <3> QED
      BY <3>2, <3>3
  <2>2. ASSUME i = Head(s) PROVE i \in ToSet(s)
    <3>1. 1 \in DOMAIN s /\ i = s[1]
      BY <1>1, <1>2, <2>2
    <3> QED
      BY <3>1 DEF ToSet
  <2>3. ASSUME i \in ToSet(Tail(s)) PROVE i \in ToSet(s)
    <3>1. PICK j \in 1..(Len(s) - 1) : i = Tail(s)[j]
      BY <1>2, <2>3 DEF ToSet
    <3>2. j + 1 \in DOMAIN s /\ i = s[j + 1]
      BY <1>1, <1>2, <1>3, <3>1
    <3> QED
      BY <3>2 DEF ToSet
  <2> QED
    BY <2>1, <2>2, <2>3
<1> QED
  BY <1>1, <1>4

LEMMA ConcatSet ==
    ASSUME NEW s \in Seq(Items), NEW u \in Seq(Items)
    PROVE  s \o u \in Seq(Items) /\ \A i : i \in ToSet(s \o u) <=> i \in ToSet(s) \/ i \in ToSet(u)
<1>1. s \o u \in Seq(Items) /\ Len(s \o u) = Len(s) + Len(u) /\ Len(s) \in Nat /\ Len(u) \in Nat
  OBVIOUS
<1>2. DOMAIN s = 1..Len(s) /\ DOMAIN u = 1..Len(u) /\ DOMAIN (s \o u) = 1..(Len(s) + Len(u))
  BY <1>1
<1>3. \A j \in 1..(Len(s) + Len(u)) : (s \o u)[j] = IF j <= Len(s) THEN s[j] ELSE u[j - Len(s)]
  OBVIOUS
<1>4. ASSUME NEW i PROVE i \in ToSet(s \o u) <=> i \in ToSet(s) \/ i \in ToSet(u)
  <2>1. ASSUME i \in ToSet(s \o u) PROVE i \in ToSet(s) \/ i \in ToSet(u)
    <3>1. PICK j \in 1..(Len(s) + Len(u)) : i = (s \o u)[j]
      BY <1>2, <2>1 DEF ToSet
    <3>2. CASE j <= Len(s)
      <4>1. j \in DOMAIN s /\ i = s[j]
        BY <1>1, <1>2, <1>3, <3>1, <3>2
      <4> QED
        BY <4>1 DEF ToSet
    <3>3. CASE ~(j <= Len(s))
      <4>1. j - Len(s) \in DOMAIN u /\ i = u[j - Len(s)]
        BY <1>1, <1>2, <1>3, <3>1, <3>3
      <4> QED
        BY <4>1 DEF ToSet
    <3> QED
      BY <3>2, <3>3
  <2>2. ASSUME i \in ToSet(s) PROVE i \in ToSet(s \o u)
    <3>1. PICK j \in 1..Len(s) : i = s[j]
      BY <1>2, <2>2 DEF ToSet
    <3>2. j \in DOMAIN (s \o u) /\ i = (s \o u)[j]
      BY <1>1, <1>2, <1>3, <3>1
    <3> QED
      BY <3>2 DEF ToSet
  <2>3. ASSUME i \in ToSet(u) PROVE i \in ToSet(s \o u)
    <3>1. PICK j \in 1..Len(u) : i = u[j]
      BY <1>2, <2>3 DEF ToSet
    <3>2. j + Len(s) \in 1..(Len(s) + Len(u)) /\ ~(j + Len(s) <= Len(s)) /\ (j + Len(s)) - Len(s) = j
      BY <1>1
    <3>3. j + Len(s) \in DOMAIN (s \o u) /\ i = (s \o u)[j + Len(s)]
      BY <1>2, <1>3, <3>1, <3>2
    <3> QED
      BY <3>3 DEF ToSet
  <2> QED
    BY <2>1, <2>2, <2>3
<1> QED
  BY <1>1, <1>4

LEMMA CapSeq == ASSUME NEW s \in Seq(Items) PROVE Cap(s) \in Seq(Items)
BY SpoolAssumption DEF Cap

\* What is read of a file that is there, or not.
LEMMA EntriesSeq ==
    /\ EntriesOf(NoFile) = <<>>
    /\ \A s \in Seq(Items) : s # NoFile /\ EntriesOf(s) = s
    /\ \A s \in Seq(Items) \cup {NoFile} : EntriesOf(s) \in Seq(Items)
BY SpoolAssumption, EmptySeq DEF EntriesOf, Items

LEMMA IdleFacts == 0 \notin Files /\ \A c \in [file: Files, left: Seq(Items)] : c # Idle
<1>1. 0 \notin Files
  BY SpoolAssumption DEF Files
<1> QED
  BY <1>1 DEF Idle

LEMMA FilesFinite ==
    /\ IsFiniteSet(Files) /\ Cardinality(Files) = MaxCrash + MaxFail + 1
    /\ \A S \in SUBSET Files : IsFiniteSet(S) /\ Cardinality(S) \in Nat
<1>1. IsFiniteSet(Files) /\ Cardinality(Files) = MaxCrash + MaxFail + 1
  BY SpoolAssumption, FS_Interval DEF Files
<1>2. \A S \in SUBSET Files : IsFiniteSet(S) /\ Cardinality(S) \in Nat
  BY <1>1, FS_Subset, FS_CardinalityType
<1> QED
  BY <1>1, <1>2

\* There is a name for the next claimed file.
LEMMA NameIsFresh ==
    ASSUME Types, Room, current = Idle
    PROVE  FreshName \in Files /\ claimed[FreshName] = NoFile
<1>1. Cardinality(Names) <= MaxCrash + MaxFail
  <2>1. /\ crashes \in Nat /\ crashes <= MaxCrash /\ fails \in Nat /\ fails <= MaxFail
        /\ MaxCrash \in Nat /\ MaxFail \in Nat
    BY SpoolAssumption DEF Types
  <2>2. Cardinality(Names) \in Nat
    BY FilesFinite DEF Names
  <2>3. Cardinality(Names) <= crashes + fails + 0
    BY DEF Room
  <2> QED
    BY <2>1, <2>2, <2>3
<1>2. Names # Files
  BY <1>1, FilesFinite, SpoolAssumption
<1>3. \E n \in Files : claimed[n] = NoFile
  BY <1>2 DEF Names
<1> QED
  BY <1>3 DEF FreshName

\* NoneLost says of all notifications what AllKept says.
LEMMA KeptMeansNotLost == AllKept => NoneLost
<1> SUFFICES ASSUME AllKept, NEW i \in 1..raised
             PROVE  i \in InMemory \cup InFiles \cup reported \cup dropped \/ sent[i] > 0
  BY DEF NoneLost
<1>1. CASE Kept(i)
  <2>1. i \in ToSet(queue) \/ i \in ToSet(drained) => i \in InMemory
    BY DEF InMemory
  <2>2. i \in ToSet(EntriesOf(spool)) \/ i \in aside => i \in InFiles
    BY DEF InFiles
  <2> QED
    BY <1>1, <2>1, <2>2 DEF Kept
<1>2. CASE InClaimed(i)
  BY <1>2 DEF InClaimed, InFiles
<1> QED
  BY <1>1, <1>2 DEF AllKept

LEMMA ItemsOnly == \A s \in Seq(Items) : ToSet(s) \subseteq Items
<1> SUFFICES ASSUME NEW s \in Seq(Items), NEW i \in ToSet(s) PROVE i \in Items
  OBVIOUS
<1>1. PICK j \in DOMAIN s : i = s[j]
  BY DEF ToSet
<1> QED
  BY <1>1

-----------------------------------------------------------------------------
(* The steps. *)

Restored == IF current = Idle THEN 0 ELSE 1

\* A step that claims and removes no file: nothing is lost if what was kept
\* stays kept, and so does what the restore still has to queue.
LEMMA FilesStay ==
    ASSUME IInv, Types', Phases', claimed' = claimed,
           \A i \in Items : Kept(i) => Kept(i)',
           \A i \in 1..raised' : i \in 1..raised \/ Kept(i)',
           current' # Idle =>
               /\ current # Idle /\ current'.file = current.file
               /\ \A i \in ToSet(current.left) : Kept(i)' \/ i \in ToSet(current'.left),
           crashes + fails + Restored <= crashes' + fails' + Restored'
    PROVE  IInv'
<1>1. Types /\ Room /\ AllKept /\ Elsewhere
  BY DEF IInv
<1>2. Room'
  <2>1. Names' = Names
    BY DEF Names
  <2>2. Cardinality(Names) \in Nat
    BY FilesFinite DEF Names
  <2>3. Cardinality(Names) <= crashes + fails + Restored
    BY <1>1 DEF Room, Restored
  <2>4. /\ crashes \in Nat /\ fails \in Nat /\ Restored \in Nat
        /\ crashes' \in Nat /\ fails' \in Nat /\ Restored' \in Nat
    BY <1>1 DEF Types, Restored
  <2>5. \A k, m, n \in Nat : k <= m /\ m <= n => k <= n
    OBVIOUS
  <2>6. crashes + fails + Restored \in Nat /\ crashes' + fails' + Restored' \in Nat
    <3>1. \A k, m, n \in Nat : k + m + n \in Nat
      OBVIOUS
    <3> QED
      BY <2>4, <3>1
  <2>7. Cardinality(Names) <= crashes' + fails' + Restored'
    BY <2>2, <2>3, <2>5, <2>6
  <2> QED
    BY <2>1, <2>7 DEF Room, Restored
<1>3. \A i : InClaimed(i)' <=> InClaimed(i)
  BY DEF InClaimed
<1>4. 1..raised \subseteq Items
  BY <1>1, SpoolAssumption DEF Types, Items
<1>5. AllKept'
  <2> SUFFICES ASSUME NEW i \in 1..raised' PROVE Kept(i)' \/ InClaimed(i)'
    BY DEF AllKept
  <2>1. CASE i \in 1..raised
    <3>1. Kept(i) \/ InClaimed(i)
      BY <1>1, <2>1 DEF AllKept
    <3> QED
      BY <1>3, <1>4, <2>1, <3>1
  <2> QED
    BY <2>1
<1>6. Elsewhere'
  <2> SUFFICES ASSUME current' # Idle, NEW i \in ToSet(EntriesOf(claimed'[current'.file]))
               PROVE  Kept(i)' \/ i \in ToSet(current'.left)
    BY DEF Elsewhere
  <2>1. current # Idle /\ current.file \in Files /\ i \in ToSet(EntriesOf(claimed[current.file]))
    BY <1>1 DEF Types
  <2>2. EntriesOf(claimed[current.file]) \in Seq(Items)
    BY <1>1, <2>1, EntriesSeq DEF Types
  <2>3. i \in Items /\ (Kept(i) \/ i \in ToSet(current.left))
    BY <1>1, <2>1, <2>2, ItemsOnly DEF Elsewhere
  <2> QED
    BY <2>3
<1> QED
  BY <1>2, <1>5, <1>6 DEF IInv

LEMMA EnqueueStep == ASSUME IInv, Enqueue PROVE IInv'
<1>1. Types /\ Phases
  BY DEF IInv
<1>2. /\ raised < MaxItem /\ raised' = raised + 1 /\ queue' = Append(queue, raised + 1)
      /\ phase \in {"starting", "running"}
      /\ UNCHANGED <<phase, spool, claimed, aside, todo, current, drained, sent,
                     reported, dropped, crashes, fails>>
  BY DEF Enqueue
<1>3. raised + 1 \in Items
  BY <1>1, <1>2, SpoolAssumption DEF Types, Items
<1>4. queue' \in Seq(Items) /\ \A i : i \in ToSet(queue') <=> i \in ToSet(queue) \/ i = raised + 1
  BY <1>1, <1>2, <1>3, AppendSet DEF Types
<1>5. Types'
  BY <1>1, <1>2, <1>4, SpoolAssumption DEF Types
<1>6. Phases'
  BY <1>1, <1>2 DEF Phases
<1>7. \A i : Kept(i) => Kept(i)'
  BY <1>2, <1>4 DEF Kept
<1>8. \A i \in 1..raised' : i \in 1..raised \/ Kept(i)'
  <2>1. ASSUME NEW i, i = raised + 1 PROVE Kept(i)'
    BY <1>4, <2>1 DEF Kept
  <2>2. \A i \in 1..(raised + 1) : i \in 1..raised \/ i = raised + 1
    BY <1>1 DEF Types
  <2> QED
    BY <1>2, <2>1, <2>2
<1>9. crashes + fails + Restored <= crashes' + fails' + Restored'
  BY <1>1, <1>2 DEF Restored, Types
<1> QED
  BY <1>2, <1>5, <1>6, <1>7, <1>8, <1>9, FilesStay

LEMMA DispatchStep == ASSUME IInv, Dispatch PROVE IInv'
<1>1. Types /\ Phases
  BY DEF IInv
<1>2. /\ queue # <<>> /\ queue' = Tail(queue) /\ sent' = [sent EXCEPT ![Head(queue)] = sent[Head(queue)] + 1]
      /\ UNCHANGED <<phase, spool, claimed, aside, todo, current, drained, raised,
                     reported, dropped, crashes, fails>>
  BY DEF Dispatch
<1>3. /\ Head(queue) \in Items /\ queue' \in Seq(Items)
      /\ \A i : i \in ToSet(queue) <=> i = Head(queue) \/ i \in ToSet(queue')
  BY <1>1, <1>2, TailSet DEF Types
<1>4. /\ sent' \in [Items -> Nat]
      /\ \A i \in Items : sent[i] > 0 \/ i = Head(queue) => sent'[i] > 0
  BY <1>1, <1>2, <1>3 DEF Types
<1>5. Types'
  BY <1>1, <1>2, <1>3, <1>4 DEF Types
<1>6. Phases'
  BY <1>1, <1>2 DEF Phases
<1>7. ASSUME NEW i \in Items, Kept(i) PROVE Kept(i)'
  <2>1. i \in ToSet(queue) => i \in ToSet(queue') \/ sent'[i] > 0
    BY <1>3, <1>4
  <2> QED
    BY <1>2, <1>4, <1>7, <2>1 DEF Kept
<1>8. crashes + fails + Restored <= crashes' + fails' + Restored'
  BY <1>1, <1>2 DEF Restored, Types
<1> QED
  BY <1>2, <1>5, <1>6, <1>7, <1>8, FilesStay

\* The steps that change neither files nor queues.
LEMMA StartStep == ASSUME IInv, Start \/ Started PROVE IInv'
<1>1. Types /\ Phases
  BY DEF IInv
<1>2. /\ phase' \in {"starting", "running"} /\ phase # "stopping"
      /\ current = Idle
      /\ UNCHANGED <<queue, spool, claimed, aside, current, drained, raised, sent,
                     reported, dropped, crashes, fails>>
  BY <1>1 DEF Start, Started, Phases
<1>3. todo' \in Seq(Files \cup {0})
  <2>1. CASE Started
    BY <1>1, <2>1 DEF Started, Types
  <2>2. CASE Start
    <3>1. PICK order \in SetToSeqs(Leftovers) : todo' = Append(order, 0)
      BY <2>2 DEF Start
    <3>2. Leftovers \subseteq Files
      BY DEF Leftovers, Names
    <3>3. Cardinality(Leftovers) \in Nat
      BY <3>2, FilesFinite
    <3>4. order \in [1..Cardinality(Leftovers) -> Leftovers]
      BY DEF SetToSeqs
    <3>5. order \in Seq(Files \cup {0})
      BY <3>2, <3>3, <3>4
    <3> QED
      BY <3>1, <3>5
  <2> QED
    BY <2>1, <2>2
<1>4. Types'
  BY <1>1, <1>2, <1>3 DEF Types
<1>5. Phases'
  BY <1>1, <1>2 DEF Phases
<1>6. \A i : Kept(i) => Kept(i)'
  BY <1>2 DEF Kept
<1>7. crashes + fails + Restored <= crashes' + fails' + Restored'
  BY <1>1, <1>2 DEF Restored, Types
<1> QED
  BY <1>2, <1>4, <1>5, <1>6, <1>7, FilesStay

\* What a file being restored looks like.
LEMMA CurrentFacts ==
    ASSUME IInv, current # Idle
    PROVE  /\ current \in [file: Files, left: Seq(Items)]
           /\ current.file \in Files /\ current.left \in Seq(Items)
           /\ current = [file |-> current.file, left |-> current.left]
           /\ phase = "starting" /\ claimed[current.file] # NoFile
           /\ claimed[current.file] \in Seq(Items)
<1>1. current \in [file: Files, left: Seq(Items)]
  BY DEF IInv, Types
<1>2. phase = "starting" /\ claimed[current.file] # NoFile
  BY DEF IInv, Phases
<1>3. current.file \in Files /\ current.left \in Seq(Items)
  BY <1>1
<1>4. claimed[current.file] \in Seq(Items)
  BY <1>2, <1>3 DEF IInv, Types
<1> QED
  BY <1>1, <1>2, <1>3, <1>4

LEMMA RequeueStep == ASSUME IInv, Requeue PROVE IInv'
<1> DEFINE h == Head(current.left)
           rest == Tail(current.left)
<1>1. Types /\ Phases /\ current # Idle /\ current.left # <<>>
  BY DEF IInv, Requeue
<1>2. /\ queue' = Append(queue, h) /\ current' = [current EXCEPT !.left = rest]
      /\ UNCHANGED <<phase, spool, claimed, aside, todo, drained, raised, sent,
                     reported, dropped, crashes, fails>>
  BY DEF Requeue
<1>3. h \in Items /\ rest \in Seq(Items) /\ \A i : i \in ToSet(current.left) <=> i = h \/ i \in ToSet(rest)
  BY <1>1, CurrentFacts, TailSet
<1> HIDE DEF h, rest
<1>4. queue' \in Seq(Items) /\ \A i : i \in ToSet(queue') <=> i \in ToSet(queue) \/ i = h
  BY <1>1, <1>2, <1>3, AppendSet DEF Types
<1>5. /\ current' \in [file: Files, left: Seq(Items)]
      /\ current'.file = current.file /\ current'.left = rest
  BY <1>1, <1>2, <1>3, CurrentFacts
<1>6. current' # Idle
  BY <1>5, IdleFacts
<1>7. Types'
  BY <1>1, <1>2, <1>4, <1>5 DEF Types
<1>8. Phases'
  BY <1>1, <1>2, <1>5 DEF Phases
<1>9. \A i : Kept(i) => Kept(i)'
  BY <1>2, <1>4 DEF Kept
<1>10. \A i \in ToSet(current.left) : Kept(i)' \/ i \in ToSet(current'.left)
  <2>1. ASSUME NEW i, i = h PROVE Kept(i)'
    BY <1>4, <2>1 DEF Kept
  <2> QED
    BY <1>3, <1>5, <2>1
<1>11. crashes + fails + Restored <= crashes' + fails' + Restored'
  BY <1>1, <1>2, <1>6 DEF Restored, Types
<1> QED
  BY <1>1, <1>2, <1>5, <1>7, <1>8, <1>9, <1>10, <1>11, FilesStay

LEMMA RequeueFailsStep == ASSUME IInv, RequeueFails PROVE IInv'
<1>1. Types /\ Phases /\ current # Idle /\ current.left \in Seq(Items)
  BY CurrentFacts DEF IInv, RequeueFails
<1>2. /\ fails < MaxFail /\ fails' = fails + 1
      /\ UNCHANGED <<phase, queue, claimed, aside, todo, drained, raised, sent,
                     reported, dropped, crashes>>
  BY DEF RequeueFails
<1>3. fails' \in Nat /\ fails' <= MaxFail
  BY <1>1, <1>2, SpoolAssumption DEF Types
<1>4. crashes + fails + Restored <= crashes' + fails' + Restored'
  BY <1>1, <1>2 DEF Restored, Types
<1>5. CASE current' = Idle /\ spool' = spool
  <2>1. Types'
    BY <1>1, <1>2, <1>3, <1>5 DEF Types
  <2>2. Phases'
    BY <1>1, <1>2, <1>5 DEF Phases
  <2>3. \A i : Kept(i) => Kept(i)'
    BY <1>2, <1>5 DEF Kept
  <2> QED
    BY <1>2, <1>4, <1>5, <2>1, <2>2, <2>3, FilesStay
<1>6. CASE spool' = WrittenBack(current.left) /\ current' = [current EXCEPT !.left = <<>>]
  <2>1. EntriesOf(spool) \in Seq(Items) /\ spool' = current.left \o EntriesOf(spool)
    BY <1>1, <1>6, EntriesSeq DEF Types, WrittenBack
  <2>2. /\ spool' \in Seq(Items)
        /\ \A i : i \in ToSet(spool') <=> i \in ToSet(current.left) \/ i \in ToSet(EntriesOf(spool))
    BY <1>1, <2>1, ConcatSet
  <2>3. EntriesOf(spool') = spool'
    BY <2>2, EntriesSeq
  <2>4. current' \in [file: Files, left: Seq(Items)] /\ current'.file = current.file
    BY <1>1, <1>6, CurrentFacts, EmptySeq
  <2>5. Types'
    BY <1>1, <1>2, <1>3, <2>2, <2>4 DEF Types
  <2>6. Phases'
    BY <1>1, <1>2, <2>4 DEF Phases
  <2>7. \A i : Kept(i) => Kept(i)'
    BY <1>2, <2>2, <2>3 DEF Kept
  <2>8. \A i \in ToSet(current.left) : Kept(i)'
    BY <2>2, <2>3 DEF Kept
  <2> QED
    BY <1>1, <1>2, <1>4, <2>4, <2>5, <2>6, <2>7, <2>8, FilesStay
<1> QED
  BY <1>5, <1>6 DEF RequeueFails

\* A claimed file is removed once everything in it is kept elsewhere.
LEMMA FileRemoved ==
    ASSUME IInv, Types', current # Idle, current' = Idle,
           claimed' = [claimed EXCEPT ![current.file] = NoFile],
           UNCHANGED <<phase, queue, spool, drained, raised, sent, reported, dropped, crashes>>,
           fails <= fails', aside \subseteq aside',
           \A i \in ToSet(claimed[current.file]) : Kept(i)'
    PROVE  IInv'
<1>1. Types /\ Phases /\ Room /\ AllKept
  BY DEF IInv
<1>2. current.file \in Files /\ claimed[current.file] # NoFile /\ claimed[current.file] \in Seq(Items)
  BY CurrentFacts
<1>3. Phases'
  BY <1>1 DEF Phases
<1>4. Room'
  <2>1. Names' = Names \ {current.file} /\ current.file \in Names
    BY <1>1, <1>2 DEF Names, Types
  <2>2. IsFiniteSet(Names) /\ Cardinality(Names) \in Nat
    BY FilesFinite DEF Names
  <2>3. Cardinality(Names \ {current.file}) = Cardinality(Names) - 1
    BY <2>1, <2>2, FS_RemoveElement
  <2>4. Cardinality(Names) <= crashes + fails + 1
    BY <1>1 DEF Room
  <2>5. crashes \in Nat /\ fails \in Nat /\ fails' \in Nat /\ crashes' = crashes
    BY <1>1 DEF Types
  <2>6. Cardinality(Names)' = Cardinality(Names) - 1
    BY <2>1, <2>3
  <2>7. \A k, c, f, g \in Nat : k <= c + f + 1 /\ f <= g => k - 1 <= c + g + 0
    OBVIOUS
  <2>8. Cardinality(Names) - 1 <= crashes + fails' + 0
    BY <2>2, <2>4, <2>5, <2>7
  <2> QED
    BY <2>5, <2>6, <2>8 DEF Room
<1>5. \A i : Kept(i) => Kept(i)'
  BY DEF Kept
<1>6. AllKept'
  <2> SUFFICES ASSUME NEW i \in 1..raised PROVE Kept(i)' \/ InClaimed(i)'
    BY DEF AllKept
  <2>1. CASE Kept(i)
    BY <1>5, <2>1
  <2>2. CASE InClaimed(i)
    <3>1. PICK n \in Files : i \in ToSet(EntriesOf(claimed[n]))
      BY <2>2 DEF InClaimed
    <3>2. CASE n = current.file
      <4>1. EntriesOf(claimed[n]) = claimed[current.file]
        BY <1>2, <3>2, EntriesSeq
      <4> QED
        BY <3>1, <4>1
    <3>3. CASE n # current.file
      <4>1. claimed'[n] = claimed[n]
        BY <1>1, <3>3 DEF Types
      <4> QED
        BY <3>1, <4>1 DEF InClaimed
    <3> QED
      BY <3>2, <3>3
  <2> QED
    BY <1>1, <2>1, <2>2 DEF AllKept
<1>7. Elsewhere'
  BY DEF Elsewhere
<1> QED
  BY <1>3, <1>4, <1>6, <1>7 DEF IInv

LEMMA RestoredFileStep == ASSUME IInv, RestoredFile PROVE IInv'
<1>1. Types /\ Elsewhere /\ current # Idle /\ current.left = <<>>
  BY DEF IInv, RestoredFile
<1>2. /\ claimed' = [claimed EXCEPT ![current.file] = NoFile] /\ current' = Idle
      /\ UNCHANGED <<phase, queue, spool, aside, todo, drained, raised, sent,
                     reported, dropped, crashes, fails>>
  BY DEF RestoredFile, Unlinked
<1>3. Types'
  BY <1>1, <1>2 DEF Types
<1>4. \A i : Kept(i) => Kept(i)'
  BY <1>2 DEF Kept
<1>5. \A i \in ToSet(claimed[current.file]) : Kept(i)'
  <2>1. EntriesOf(claimed[current.file]) = claimed[current.file]
    BY <1>1, CurrentFacts, EntriesSeq
  <2> QED
    BY <1>1, <1>4, <2>1, EmptySet DEF Elsewhere
<1>6. fails <= fails'
  BY <1>1, <1>2 DEF Types
<1> QED
  BY <1>1, <1>2, <1>3, <1>5, <1>6, FileRemoved

LEMMA QuarantineStep == ASSUME IInv, Quarantine PROVE IInv'
<1>1. /\ Types /\ Phases /\ current # Idle /\ current.left \in Seq(Items)
      /\ current.left = claimed[current.file] /\ current.left # <<>>
  BY CurrentFacts DEF IInv, Quarantine
<1>2. /\ fails < MaxFail /\ fails' = fails + 1
      /\ UNCHANGED <<phase, queue, spool, todo, drained, raised, sent,
                     reported, dropped, crashes>>
  BY DEF Quarantine
<1>3. fails' \in Nat /\ fails' <= MaxFail /\ fails <= fails'
  BY <1>1, <1>2, SpoolAssumption DEF Types
<1>4. CASE /\ aside' = aside \cup ToSet(current.left)
           /\ claimed' = [claimed EXCEPT ![current.file] = NoFile]
           /\ current' = Idle
  <2>1. Types'
    BY <1>1, <1>2, <1>3, <1>4 DEF Types
  <2>2. \A i \in ToSet(claimed[current.file]) : Kept(i)'
    BY <1>1, <1>4 DEF Kept
  <2> QED
    BY <1>1, <1>2, <1>3, <1>4, <2>1, <2>2, FileRemoved
<1>5. CASE /\ aside' = aside \cup {Head(current.left)}
           /\ current' = [current EXCEPT !.left = Tail(current.left)]
           /\ claimed' = claimed
  <2>1. /\ Tail(current.left) \in Seq(Items)
        /\ \A i : i \in ToSet(current.left) <=> i = Head(current.left) \/ i \in ToSet(Tail(current.left))
    BY <1>1, TailSet
  <2>2. /\ current' \in [file: Files, left: Seq(Items)]
        /\ current'.file = current.file /\ current'.left = Tail(current.left)
    BY <1>1, <1>5, <2>1, CurrentFacts
  <2>3. current' # Idle
    BY <2>2, IdleFacts
  <2>4. Types'
    BY <1>1, <1>2, <1>3, <1>5, <2>2 DEF Types
  <2>5. Phases'
    BY <1>1, <1>2, <1>5, <2>2 DEF Phases
  <2>6. \A i : Kept(i) => Kept(i)'
    BY <1>2, <1>5 DEF Kept
  <2>7. \A i \in ToSet(current.left) : Kept(i)' \/ i \in ToSet(current'.left)
    <3>1. ASSUME NEW i, i = Head(current.left) PROVE Kept(i)'
      BY <1>5, <3>1 DEF Kept
    <3> QED
      BY <2>1, <2>2, <3>1
  <2>8. crashes + fails + Restored <= crashes' + fails' + Restored'
    BY <1>1, <1>2, <2>3 DEF Restored, Types
  <2> QED
    BY <1>1, <1>2, <1>5, <2>2, <2>4, <2>5, <2>6, <2>7, <2>8, FilesStay
<1> QED
  BY <1>4, <1>5 DEF Quarantine

LEMMA ClaimStep == ASSUME IInv, Claim PROVE IInv'
<1> DEFINE h == Head(todo)
           entries == IF h = 0 THEN spool ELSE claimed[h]
           name == IF h = 0 THEN FreshName ELSE h
<1>1. Types /\ Phases /\ Room /\ AllKept /\ current = Idle /\ phase = "starting" /\ todo # <<>>
  BY DEF IInv, Claim
<1>2. h \in Files \cup {0} /\ Tail(todo) \in Seq(Files \cup {0}) /\ todo' = Tail(todo)
  BY <1>1 DEF Types, Claim
<1>3. UNCHANGED <<phase, queue, aside, drained, raised, sent, reported, dropped, crashes, fails>>
  BY DEF Claim
<1>4. CASE entries = NoFile
  <2>1. UNCHANGED <<spool, claimed, current>>
    BY <1>4 DEF Claim
  <2>2. Types'
    BY <1>1, <1>2, <1>3, <2>1 DEF Types
  <2>3. Phases'
    BY <1>1, <1>3, <2>1 DEF Phases
  <2>4. \A i : Kept(i) => Kept(i)'
    BY <1>3, <2>1 DEF Kept
  <2>5. crashes + fails + Restored <= crashes' + fails' + Restored'
    BY <1>1, <1>3, <2>1 DEF Restored, Types
  <2> QED
    BY <1>1, <1>3, <2>1, <2>2, <2>3, <2>4, <2>5, FilesStay
<1>5. CASE entries # NoFile
  <2>1. /\ claimed' = [claimed EXCEPT ![name] = entries]
        /\ spool' = IF h = 0 THEN NoFile ELSE spool
        /\ current' = [file |-> name, left |-> entries]
    BY <1>5 DEF Claim, Renamed
  <2>2. entries \in Seq(Items)
    BY <1>1, <1>2, <1>5 DEF Types
  <2>3. name \in Files /\ (h = 0 => claimed[name] = NoFile)
    BY <1>1, <1>2, NameIsFresh
  <2>4. h # 0 => name = h /\ entries = claimed[h]
    OBVIOUS
  <2>5. h = 0 => entries = spool
    OBVIOUS
  <2> HIDE DEF name, entries, h
  <2>6. /\ claimed' \in [Files -> Seq(Items) \cup {NoFile}] /\ claimed'[name] = entries
        /\ \A n \in Files : n # name => claimed'[n] = claimed[n]
    BY <1>1, <2>1, <2>2, <2>3 DEF Types
  <2>7. /\ current' \in [file: Files, left: Seq(Items)]
        /\ current'.file = name /\ current'.left = entries
    BY <2>1, <2>2, <2>3
  <2>8. current' # Idle
    BY <2>7, IdleFacts
  <2>9. Types'
    BY <1>1, <1>2, <1>3, <2>1, <2>6, <2>7 DEF Types
  <2>10. Phases'
    BY <1>1, <1>3, <1>5, <2>6, <2>7 DEF Phases
  <2>11. Room'
    <3>1. /\ Names' = Names \cup {name} /\ IsFiniteSet(Names) /\ Cardinality(Names) \in Nat
      <4>1. \A n \in Files : claimed'[n] # NoFile <=> claimed[n] # NoFile \/ n = name
        BY <1>5, <2>6
      <4>2. Names' = Names \cup {name}
        BY <2>3, <4>1 DEF Names
      <4> QED
        BY <4>2, FilesFinite DEF Names
    <3>2. Cardinality(Names \cup {name}) <= Cardinality(Names) + 1 /\ Cardinality(Names \cup {name}) \in Nat
      <4>1. Cardinality(Names \cup {name}) = IF name \in Names THEN Cardinality(Names) ELSE Cardinality(Names) + 1
        BY <3>1, FS_AddElement
      <4> QED
        BY <3>1, <4>1
    <3>3. Cardinality(Names) <= crashes + fails + 0 /\ crashes \in Nat /\ fails \in Nat
      BY <1>1 DEF Room, Types
    <3>4. \A k, l, c, f \in Nat : l <= k + 1 /\ k <= c + f + 0 => l <= c + f + 1
      OBVIOUS
    <3>5. Cardinality(Names \cup {name}) <= crashes + fails + 1
      BY <3>1, <3>2, <3>3, <3>4
    <3>6. Cardinality(Names)' = Cardinality(Names \cup {name})
      BY <3>1
    <3> QED
      BY <1>3, <2>8, <3>5, <3>6 DEF Room
  <2>12. EntriesOf(entries) = entries /\ \A i : i \in ToSet(entries) => InClaimed(i)'
    BY <2>2, <2>3, <2>6, EntriesSeq DEF InClaimed
  <2>13. ASSUME NEW i, Kept(i) PROVE Kept(i)' \/ InClaimed(i)'
    <3>1. i \in ToSet(EntriesOf(spool)) => i \in ToSet(EntriesOf(spool')) \/ InClaimed(i)'
      BY <2>1, <2>5, <2>12
    <3> QED
      BY <1>3, <2>13, <3>1 DEF Kept
  <2>14. ASSUME NEW i, InClaimed(i) PROVE InClaimed(i)'
    <3>1. PICK n \in Files : i \in ToSet(EntriesOf(claimed[n]))
      BY <2>14 DEF InClaimed
    <3>2. CASE n # name
      BY <2>6, <3>1, <3>2 DEF InClaimed
    <3>3. CASE n = name /\ h # 0
      BY <2>4, <2>12, <3>1, <3>3
    <3>4. CASE n = name /\ h = 0
      BY <2>3, <3>1, <3>4, EntriesSeq, EmptySet
    <3> QED
      BY <3>2, <3>3, <3>4
  <2>15. AllKept'
    BY <1>1, <1>3, <2>13, <2>14 DEF AllKept
  <2>16. Elsewhere'
    BY <2>6, <2>7, <2>12 DEF Elsewhere
  <2> QED
    BY <2>9, <2>10, <2>11, <2>15, <2>16 DEF IInv
<1> QED
  BY <1>4, <1>5

LEMMA StopStep == ASSUME IInv, Stop PROVE IInv'
<1>1. Types /\ Phases
  BY DEF IInv
<1>2. /\ phase = "running" /\ phase' = "stopping" /\ drained' = queue /\ queue' = <<>>
      /\ UNCHANGED <<spool, claimed, aside, todo, current, raised, sent,
                     reported, dropped, crashes, fails>>
  BY DEF Stop
<1>3. current = Idle /\ drained = <<>>
  BY <1>1, <1>2 DEF Phases
<1>4. Types'
  BY <1>1, <1>2, EmptySeq DEF Types
<1>5. Phases'
  BY <1>2, <1>3 DEF Phases
<1>6. \A i : Kept(i) => Kept(i)'
  BY <1>2, <1>3, EmptySet DEF Kept
<1>7. crashes + fails + Restored <= crashes' + fails' + Restored'
  BY <1>1, <1>2 DEF Restored, Types
<1> QED
  BY <1>2, <1>3, <1>4, <1>5, <1>6, <1>7, FilesStay

LEMMA PersistStep == ASSUME IInv, Persist PROVE IInv'
<1> DEFINE all == EntriesOf(spool) \o drained
<1>1. Types /\ Phases /\ phase = "stopping" /\ current = Idle
  BY DEF IInv, Phases, Persist
<1>2. /\ phase' = "down" /\ drained' = <<>>
      /\ UNCHANGED <<queue, claimed, aside, todo, current, raised, sent, dropped, crashes>>
  BY DEF Persist
<1>3. /\ all \in Seq(Items) /\ Cap(all) \in Seq(Items)
      /\ \A i : i \in ToSet(all) <=> i \in ToSet(EntriesOf(spool)) \/ i \in ToSet(drained)
  BY <1>1, EntriesSeq, ConcatSet, CapSeq DEF Types
<1>4. /\ EntriesOf(Cap(all)) = Cap(all)
  BY <1>3, EntriesSeq
<1>5. /\ spool' \in Seq(Items) \cup {NoFile}
      /\ fails' \in Nat /\ fails' <= MaxFail /\ fails <= fails'
      /\ reported \subseteq reported'
      /\ \A i : i \in ToSet(EntriesOf(spool)) \/ i \in ToSet(drained) =>
                    i \in ToSet(EntriesOf(spool')) \/ i \in reported'
  <2>1. CASE fails < MaxFail /\ fails' = fails + 1 /\ reported' = reported \cup ToSet(drained) /\ spool' = spool
    BY <1>1, <2>1, SpoolAssumption DEF Types
  <2>2. CASE drained = <<>> /\ spool' = spool /\ reported' = reported /\ fails' = fails
    BY <1>1, <2>2, EmptySet DEF Types
  <2>3. CASE /\ spool' = Cap(all) /\ fails' = fails
             /\ reported' = reported \cup (ToSet(all) \ ToSet(Cap(all)))
    <3>1. fails' \in Nat /\ fails' <= MaxFail /\ fails <= fails'
      BY <1>1, <2>3 DEF Types
    <3> QED
      BY <1>3, <1>4, <2>3, <3>1
  <2> QED
    BY <2>1, <2>2, <2>3 DEF Persist, Combined
<1>6. Types'
  BY <1>1, <1>2, <1>5, EmptySeq DEF Types
<1>7. Phases'
  BY <1>1, <1>2 DEF Phases
<1>8. \A i : Kept(i) => Kept(i)'
  BY <1>2, <1>5 DEF Kept
<1>9. crashes + fails + Restored <= crashes' + fails' + Restored'
  <2>1. crashes \in Nat /\ fails \in Nat /\ fails' \in Nat /\ fails <= fails' /\ crashes' = crashes
    BY <1>1, <1>2, <1>5 DEF Types
  <2>2. Restored = 0 /\ Restored' = 0
    BY <1>1, <1>2 DEF Restored
  <2>3. \A c, f, g \in Nat : f <= g => c + f + 0 <= c + g + 0
    OBVIOUS
  <2>4. crashes + fails + 0 <= crashes' + fails' + 0
    BY <2>1, <2>3
  <2> QED
    BY <2>2, <2>4
<1> QED
  BY <1>1, <1>2, <1>6, <1>7, <1>8, <1>9, FilesStay

LEMMA CrashStep == ASSUME IInv, Crash PROVE IInv'
<1>1. Types /\ Phases /\ AllKept
  BY DEF IInv
<1>2. /\ crashes < MaxCrash /\ crashes' = crashes + 1
      /\ phase' = "down" /\ queue' = <<>> /\ drained' = <<>> /\ todo' = <<>> /\ current' = Idle
      /\ dropped' = dropped \cup (InMemory \ InFiles)
      /\ UNCHANGED <<spool, claimed, aside, raised, sent, reported, fails>>
  BY DEF Crash
<1>3. Types'
  <2>1. <<>> \in Seq(Files \cup {0}) /\ <<>> \in Seq(Items)
    OBVIOUS
  <2> QED
    BY <1>1, <1>2, <2>1, SpoolAssumption DEF Types
<1>4. Phases'
  BY <1>2 DEF Phases
<1>5. Room'
  <2>1. Names' = Names
    BY <1>2 DEF Names
  <2>2. Cardinality(Names) \in Nat
    BY FilesFinite DEF Names
  <2>3. Cardinality(Names) <= crashes + fails + 1
    <3>1. Cardinality(Names) <= crashes + fails + Restored
      BY DEF IInv, Room, Restored
    <3>2. Restored = 0 \/ Restored = 1
      BY DEF Restored
    <3>3. \A k, c, f \in Nat : k <= c + f + 0 => k <= c + f + 1
      OBVIOUS
    <3> QED
      BY <1>1, <2>2, <3>1, <3>2, <3>3 DEF Types
  <2>4. \A k, c, f \in Nat : k <= c + f + 1 => k <= (c + 1) + f + 0
    OBVIOUS
  <2>5. Cardinality(Names) <= crashes' + fails' + 0
    BY <1>1, <1>2, <2>2, <2>3, <2>4 DEF Types
  <2> QED
    BY <1>2, <2>1, <2>5 DEF Room
<1>6. AllKept'
  <2> SUFFICES ASSUME NEW i \in 1..raised PROVE Kept(i)' \/ InClaimed(i)'
    BY <1>2 DEF AllKept
  <2>1. CASE i \in ToSet(queue) \/ i \in ToSet(drained)
    <3>1. i \in InMemory
      BY <2>1 DEF InMemory
    <3>2. CASE i \notin InFiles
      BY <1>2, <3>1, <3>2 DEF Kept
    <3>3. CASE i \in InFiles
      <4>1. \/ i \in ToSet(EntriesOf(spool)) \/ i \in aside
            \/ \E n \in Files : i \in ToSet(EntriesOf(claimed[n]))
        BY <3>3 DEF InFiles
      <4> QED
        BY <1>2, <4>1 DEF Kept, InClaimed
    <3> QED
      BY <3>2, <3>3
  <2>2. CASE ~(i \in ToSet(queue) \/ i \in ToSet(drained))
    <3>1. Kept(i) => Kept(i)'
      BY <1>2, <2>2 DEF Kept
    <3>2. InClaimed(i) => InClaimed(i)'
      BY <1>2 DEF InClaimed
    <3> QED
      BY <1>1, <3>1, <3>2 DEF AllKept
  <2> QED
    BY <2>1, <2>2
<1>7. Elsewhere'
  BY <1>2 DEF Elsewhere
<1> QED
  BY <1>3, <1>4, <1>5, <1>6, <1>7 DEF IInv

-----------------------------------------------------------------------------
(* The theorem. *)

LEMMA InitInv == Init => IInv
<1> SUFFICES ASSUME Init PROVE IInv
  OBVIOUS
<1>1. Types
  <2>1. <<>> \in Seq(Files \cup {0}) /\ <<>> \in Seq(Items)
    OBVIOUS
  <2> QED
    BY <2>1, SpoolAssumption DEF Init, Types
<1>2. Phases /\ Elsewhere
  BY DEF Init, Phases, Elsewhere
<1>3. Room
  <2>1. Names = {}
    BY DEF Init, Names
  <2>2. Cardinality(Names) = 0
    BY <2>1, FS_EmptySet
  <2> QED
    BY <2>2 DEF Init, Room
<1>4. AllKept
  BY DEF Init, AllKept
<1> QED
  BY <1>1, <1>2, <1>3, <1>4 DEF IInv

LEMMA NextInv == IInv /\ [Next]_vars => IInv'
<1> SUFFICES ASSUME IInv, [Next]_vars PROVE IInv'
  OBVIOUS
<1>1. CASE UNCHANGED vars
  <2>1. UNCHANGED <<phase, queue, spool, claimed, aside, todo, current, drained, raised,
                    sent, reported, dropped, crashes, fails>>
    BY <1>1 DEF vars
  <2>2. Types' /\ Phases'
    BY <2>1 DEF IInv, Types, Phases
  <2>3. \A i : Kept(i) => Kept(i)'
    BY <2>1 DEF Kept
  <2>4. crashes + fails + Restored <= crashes' + fails' + Restored'
    BY <2>1 DEF Restored, IInv, Types
  <2> QED
    BY <2>1, <2>2, <2>3, <2>4, FilesStay
<1> QED
  BY <1>1, EnqueueStep, DispatchStep, StartStep, ClaimStep, QuarantineStep, RequeueStep,
     RequeueFailsStep, RestoredFileStep, StopStep, PersistStep, CrashStep DEF Next

\* No notification disappears without a word, wherever the process dies in a
\* shutdown or a restore (persist_notification_backlog,
\* restore_notification_backlog), for any number of notifications and deaths.
THEOREM NothingIsLost == Spec => []NoneLost
<1>1. IInv => NoneLost
  BY KeptMeansNotLost DEF IInv
<1> QED
  BY <1>1, InitInv, NextInv, PTL DEF Spec

-----------------------------------------------------------------------------
(* What is sent, is sent once. *)

\* Each notification that waits (queued as q, taken from the queues as d, left
\* to be restored as l, spooled as f) waits in one place, once, and was not
\* sent; r notifications were raised, st tells how often each was sent.
Single(q, d, l, f, r, st) ==
    /\ IsInjective(q) /\ IsInjective(d) /\ IsInjective(l) /\ IsInjective(f)
    /\ \A i \in ToSet(q) : i \notin ToSet(d) /\ i \notin ToSet(l) /\ i \notin ToSet(f)
    /\ \A i \in ToSet(d) : i \notin ToSet(l) /\ i \notin ToSet(f)
    /\ \A i \in ToSet(l) : i \notin ToSet(f)
    /\ \A i \in ToSet(q) \cup ToSet(d) \cup ToSet(l) \cup ToSet(f) : i <= r /\ st[i] = 0
    /\ \A i \in Items : st[i] <= 1 /\ (i > r => st[i] = 0)

\* No claimed file is there but the one being restored.
OnlyCurrent == \A n \in Files : claimed[n] # NoFile => current # Idle /\ n = current.file

\* Until some restore is cut short.
Once == ~broken => OnlyCurrent /\ Single(queue, drained, current.left, EntriesOf(spool), raised, sent)

LEMMA OnceEmpty == IsInjective(<<>>)
<1>1. DOMAIN <<>> = {}
  OBVIOUS
<1> QED
  BY <1>1 DEF IsInjective

LEMMA OnceAppended ==
    ASSUME NEW s \in Seq(Items), NEW e \in Items, IsInjective(s), e \notin ToSet(s)
    PROVE  IsInjective(Append(s, e))
<1>0. /\ DOMAIN s = 1..Len(s) /\ DOMAIN Append(s, e) = 1..(Len(s) + 1) /\ Len(s) \in Nat
      /\ \A j \in 1..Len(s) : Append(s, e)[j] = s[j]
  OBVIOUS
<1>1. Append(s, e)[Len(s) + 1] = e
  OBVIOUS
<1>2. \A j \in 1..(Len(s) + 1) : j \in 1..Len(s) \/ j = Len(s) + 1
  BY <1>0
<1>3. \A j \in 1..Len(s) : s[j] # e
  BY <1>0 DEF ToSet
<1>4. ASSUME NEW j \in 1..(Len(s) + 1), NEW k \in 1..(Len(s) + 1), Append(s, e)[j] = Append(s, e)[k]
      PROVE  j = k
  <2>1. CASE j \in 1..Len(s) /\ k \in 1..Len(s)
    BY <1>0, <1>4, <2>1 DEF IsInjective
  <2> QED
    BY <1>0, <1>1, <1>2, <1>3, <1>4, <2>1
<1>5. \A j, k \in DOMAIN Append(s, e) : Append(s, e)[j] = Append(s, e)[k] => j = k
  BY <1>0, <1>4
<1> QED
  BY <1>5 DEF IsInjective

LEMMA OnceTail ==
    ASSUME NEW s \in Seq(Items), s # <<>>, IsInjective(s)
    PROVE  IsInjective(Tail(s)) /\ Head(s) \notin ToSet(Tail(s))
<1>1. /\ DOMAIN s = 1..Len(s) /\ DOMAIN Tail(s) = 1..(Len(s) - 1) /\ Len(s) \in Nat /\ Len(s) > 0
      /\ Head(s) = s[1]
  OBVIOUS
<1>2. \A j \in 1..(Len(s) - 1) : Tail(s)[j] = s[j + 1]
  OBVIOUS
<1>3. \A j \in 1..(Len(s) - 1) : j + 1 \in DOMAIN s /\ j + 1 # 1
  BY <1>1
<1>4. 1 \in DOMAIN s
  BY <1>1
<1>5. IsInjective(Tail(s))
  <2> SUFFICES ASSUME NEW j \in 1..(Len(s) - 1), NEW k \in 1..(Len(s) - 1), Tail(s)[j] = Tail(s)[k]
               PROVE  j = k
    BY <1>1 DEF IsInjective
  <2>1. s[j + 1] = s[k + 1]
    BY <1>2
  <2>2. j + 1 = k + 1
    BY <1>3, <2>1 DEF IsInjective
  <2> QED
    BY <2>2
<1>6. ASSUME Head(s) \in ToSet(Tail(s)) PROVE FALSE
  <2>1. PICK j \in 1..(Len(s) - 1) : Head(s) = Tail(s)[j]
    BY <1>1, <1>6 DEF ToSet
  <2>2. s[1] = s[j + 1]
    BY <1>1, <1>2, <2>1
  <2> QED
    BY <1>3, <1>4, <2>2 DEF IsInjective
<1> QED
  BY <1>5, <1>6

LEMMA OnceJoined ==
    ASSUME NEW s \in Seq(Items), NEW u \in Seq(Items), IsInjective(s), IsInjective(u),
           \A i \in ToSet(s) : i \notin ToSet(u)
    PROVE  IsInjective(s \o u)
<1>1. /\ Len(s \o u) = Len(s) + Len(u) /\ Len(s) \in Nat /\ Len(u) \in Nat
      /\ DOMAIN s = 1..Len(s) /\ DOMAIN u = 1..Len(u) /\ DOMAIN (s \o u) = 1..(Len(s) + Len(u))
  OBVIOUS
<1>2. \A j \in 1..(Len(s) + Len(u)) : (s \o u)[j] = IF j <= Len(s) THEN s[j] ELSE u[j - Len(s)]
  OBVIOUS
<1>3. \A j \in DOMAIN s, k \in DOMAIN u : s[j] # u[k]
  BY DEF ToSet
<1> SUFFICES ASSUME NEW j \in 1..(Len(s) + Len(u)), NEW k \in 1..(Len(s) + Len(u)), (s \o u)[j] = (s \o u)[k]
             PROVE  j = k
  BY <1>1 DEF IsInjective
<1>4. /\ j <= Len(s) => j \in DOMAIN s /\ (s \o u)[j] = s[j]
      /\ ~(j <= Len(s)) => j - Len(s) \in DOMAIN u /\ (s \o u)[j] = u[j - Len(s)]
  BY <1>1, <1>2
<1>5. /\ k <= Len(s) => k \in DOMAIN s /\ (s \o u)[k] = s[k]
      /\ ~(k <= Len(s)) => k - Len(s) \in DOMAIN u /\ (s \o u)[k] = u[k - Len(s)]
  BY <1>1, <1>2
<1>6. CASE j <= Len(s) /\ k <= Len(s)
  BY <1>4, <1>5, <1>6 DEF IsInjective
<1>7. CASE ~(j <= Len(s)) /\ ~(k <= Len(s))
  <2>1. j - Len(s) = k - Len(s)
    BY <1>4, <1>5, <1>7 DEF IsInjective
  <2> QED
    BY <1>1, <2>1
<1>8. CASE (j <= Len(s) /\ ~(k <= Len(s))) \/ (~(j <= Len(s)) /\ k <= Len(s))
  BY <1>3, <1>4, <1>5, <1>8
<1> QED
  BY <1>6, <1>7, <1>8

LEMMA OnceCapped ==
    ASSUME NEW s \in Seq(Items), IsInjective(s)
    PROVE  IsInjective(Cap(s)) /\ \A i \in ToSet(Cap(s)) : i \in ToSet(s)
<1> DEFINE n == IF Len(s) < MaxSpool THEN Len(s) ELSE MaxSpool
<1>1. n \in Nat /\ n <= Len(s) /\ Cap(s) = SubSeq(s, 1, n) /\ DOMAIN s = 1..Len(s) /\ Len(s) \in Nat
  BY SpoolAssumption DEF Cap
<1> HIDE DEF n
<1>2. DOMAIN SubSeq(s, 1, n) = 1..n /\ \A j \in 1..n : SubSeq(s, 1, n)[j] = s[j]
  BY <1>1
<1>3. \A j \in 1..n : j \in DOMAIN s
  BY <1>1
<1> QED
  BY <1>1, <1>2, <1>3 DEF IsInjective, ToSet

\* A step after which some restore was cut short needs no more care.
LEMMA OnceFrom ==
    ASSUME Once, ~broken' => ~broken,
           OnlyCurrent /\ Single(queue, drained, current.left, EntriesOf(spool), raised, sent) =>
               OnlyCurrent' /\ Single(queue', drained', current'.left, EntriesOf(spool'), raised', sent')
    PROVE  Once'
<1> SUFFICES ASSUME ~broken' PROVE OnlyCurrent' /\ Single(queue', drained', current'.left, EntriesOf(spool'),
                                                         raised', sent')
  BY DEF Once
<1> QED
  BY DEF Once

\* Steps that leave what waits where it is.
LEMMA OnceStays ==
    ASSUME Once, ~broken' => ~broken,
           UNCHANGED <<queue, drained, current, spool, claimed, raised, sent>>
    PROVE  Once'
<1>1. OnlyCurrent => OnlyCurrent'
  BY DEF OnlyCurrent
<1> QED
  BY <1>1, OnceFrom

LEMMA EnqueueOnce == ASSUME IInv, Once, Enqueue PROVE Once'
<1> DEFINE f == EntriesOf(spool)
           x == raised + 1
<1>1. /\ queue' = Append(queue, x) /\ raised' = x
      /\ UNCHANGED <<drained, current, spool, claimed, sent, broken>>
  BY DEF Enqueue
<1>2. queue \in Seq(Items) /\ raised \in Nat /\ x \in Items /\ ~(x <= raised) /\ x > raised
  BY SpoolAssumption DEF IInv, Types, Enqueue, Items
<1>3. OnlyCurrent => OnlyCurrent'
  BY <1>1 DEF OnlyCurrent
<1>4. \A i : i \in ToSet(queue') <=> i \in ToSet(queue) \/ i = x
  BY <1>1, <1>2, AppendSet
<1>5. \A i \in Items : i <= raised => i <= x
  BY <1>2 DEF Items
<1>6. \A i \in Items : i > x => i > raised
  BY <1>2 DEF Items
<1>7. \A s \in {queue, drained, current.left, f} : ToSet(s) \subseteq Items
  BY ItemsOnly, EntriesSeq, EmptySeq DEF IInv, Types, Idle
<1>8. ASSUME Single(queue, drained, current.left, f, raised, sent)
      PROVE  Single(queue', drained, current.left, f, x, sent)
  <2>1. x \notin ToSet(queue) /\ x \notin ToSet(drained) /\ x \notin ToSet(current.left) /\ x \notin ToSet(f)
    BY <1>2, <1>8 DEF Single
  <2>2. IsInjective(queue')
    BY <1>1, <1>2, <1>8, <2>1, OnceAppended DEF Single
  <2>3. sent[x] = 0
    BY <1>2, <1>8 DEF Single
  <2>4. \A i \in ToSet(queue') \cup ToSet(drained) \cup ToSet(current.left) \cup ToSet(f) : i <= x /\ sent[i] = 0
    BY <1>2, <1>4, <1>5, <1>7, <1>8, <2>3 DEF Single
  <2>5. \A i \in Items : sent[i] <= 1 /\ (i > x => sent[i] = 0)
    BY <1>6, <1>8 DEF Single
  <2> HIDE DEF x, f
  <2> QED
    BY <1>4, <1>8, <2>1, <2>2, <2>4, <2>5 DEF Single
<1> QED
  BY <1>1, <1>3, <1>8, OnceFrom

LEMMA DispatchOnce == ASSUME IInv, Once, Dispatch PROVE Once'
<1> DEFINE f == EntriesOf(spool)
           h == Head(queue)
<1>1. /\ queue # <<>> /\ queue' = Tail(queue) /\ sent' = [sent EXCEPT ![h] = sent[h] + 1]
      /\ UNCHANGED <<drained, current, spool, claimed, raised, broken>>
  BY DEF Dispatch
<1>2. queue \in Seq(Items) /\ raised \in Nat /\ sent \in [Items -> Nat]
  BY DEF IInv, Types
<1>3. OnlyCurrent => OnlyCurrent'
  BY <1>1 DEF OnlyCurrent
<1>4. h \in Items /\ \A i : i \in ToSet(queue) <=> i = h \/ i \in ToSet(queue')
  BY <1>1, <1>2, TailSet
<1>5. sent'[h] = sent[h] + 1 /\ \A i \in Items : i # h => sent'[i] = sent[i]
  BY <1>1, <1>2, <1>4
<1>6. \A s \in {queue, drained, current.left, f} : ToSet(s) \subseteq Items
  BY ItemsOnly, EntriesSeq, EmptySeq DEF IInv, Types, Idle
<1>7. ASSUME Single(queue, drained, current.left, f, raised, sent)
      PROVE  Single(queue', drained, current.left, f, raised, sent')
  <2>1. IsInjective(queue') /\ h \notin ToSet(queue')
    BY <1>1, <1>2, <1>7, OnceTail DEF Single
  <2>2. h \notin ToSet(drained) /\ h \notin ToSet(current.left) /\ h \notin ToSet(f) /\ h <= raised /\ sent[h] = 0
    BY <1>4, <1>7 DEF Single
  <2> HIDE DEF h, f
  <2>3. \A i \in Items : sent'[i] <= 1 /\ (i > raised => sent'[i] = 0)
    BY <1>2, <1>4, <1>5, <1>7, <2>2 DEF Single, Items
  <2>4. \A i \in ToSet(queue') \cup ToSet(drained) \cup ToSet(current.left) \cup ToSet(f) :
            i <= raised /\ sent'[i] = 0
    BY <1>4, <1>5, <1>6, <1>7, <2>1, <2>2 DEF Single
  <2> QED
    BY <1>4, <1>7, <2>1, <2>3, <2>4 DEF Single
<1> QED
  BY <1>1, <1>3, <1>7, OnceFrom

\* The file being restored holds nothing that waits elsewhere; it is removed, or
\* an entry of it leaves the file for good.
LEMMA QuarantineOnce == ASSUME IInv, Once, Quarantine PROVE Once'
<1> DEFINE f == EntriesOf(spool)
           l == current.left
<1>1. /\ current # Idle /\ l # <<>> /\ l \in Seq(Items) /\ current.file \in Files
      /\ current = [file |-> current.file, left |-> l] /\ claimed \in [Files -> Seq(Items) \cup {NoFile}]
  BY CurrentFacts DEF Quarantine, IInv, Types
<1>2. UNCHANGED <<queue, drained, spool, raised, sent, broken>>
  BY DEF Quarantine
<1>3. CASE claimed' = [claimed EXCEPT ![current.file] = NoFile] /\ current' = Idle
  <2>1. current'.left = <<>>
    BY <1>3 DEF Idle
  <2>2. OnlyCurrent => OnlyCurrent'
    BY <1>1, <1>3 DEF OnlyCurrent
  <2>3. Single(queue, drained, l, f, raised, sent) => Single(queue, drained, <<>>, f, raised, sent)
    BY OnceEmpty, EmptySet DEF Single
  <2> QED
    BY <1>2, <2>1, <2>2, <2>3, OnceFrom
<1>4. CASE current' = [current EXCEPT !.left = Tail(current.left)] /\ claimed' = claimed
  <2>1. /\ current'.file = current.file /\ current'.left = Tail(l)
        /\ \A i : i \in ToSet(l) <=> i = Head(l) \/ i \in ToSet(Tail(l))
    BY <1>1, <1>4, TailSet
  <2>2. current' # Idle
    BY <1>1, <2>1, IdleFacts DEF Idle
  <2>3. OnlyCurrent => OnlyCurrent'
    BY <1>4, <2>1, <2>2 DEF OnlyCurrent
  <2>4. ASSUME Single(queue, drained, l, f, raised, sent)
        PROVE  Single(queue, drained, Tail(l), f, raised, sent)
    <3>1. IsInjective(Tail(l))
      BY <1>1, <2>4, OnceTail DEF Single
    <3> HIDE DEF l, f
    <3> QED
      BY <2>1, <2>4, <3>1 DEF Single
  <2> QED
    BY <1>2, <2>1, <2>3, <2>4, OnceFrom
<1> QED
  BY <1>3, <1>4 DEF Quarantine

LEMMA RequeueOnce == ASSUME IInv, Once, Requeue PROVE Once'
<1> DEFINE f == EntriesOf(spool)
           l == current.left
           h == Head(l)
<1>1. /\ current # Idle /\ l # <<>> /\ l \in Seq(Items) /\ current.file \in Files
      /\ current = [file |-> current.file, left |-> l] /\ queue \in Seq(Items)
  BY CurrentFacts DEF Requeue, IInv, Types
<1>2. /\ queue' = Append(queue, h) /\ current' = [current EXCEPT !.left = Tail(l)]
      /\ UNCHANGED <<drained, spool, claimed, raised, sent, broken>>
  BY DEF Requeue
<1>3. /\ current'.file = current.file /\ current'.left = Tail(l) /\ h \in Items
      /\ \A i : i \in ToSet(l) <=> i = h \/ i \in ToSet(Tail(l))
  BY <1>1, <1>2, TailSet
<1>4. \A i : i \in ToSet(queue') <=> i \in ToSet(queue) \/ i = h
  BY <1>1, <1>2, <1>3, AppendSet
<1>5. current' # Idle
  BY <1>1, <1>3, IdleFacts DEF Idle
<1>6. OnlyCurrent => OnlyCurrent'
  BY <1>2, <1>3, <1>5 DEF OnlyCurrent
<1>7. ASSUME Single(queue, drained, l, f, raised, sent)
      PROVE  Single(queue', drained, Tail(l), f, raised, sent)
  <2>1. IsInjective(Tail(l)) /\ h \notin ToSet(Tail(l))
    BY <1>1, <1>7, OnceTail DEF Single
  <2>2. h \notin ToSet(queue) /\ h \notin ToSet(drained) /\ h \notin ToSet(f) /\ h <= raised /\ sent[h] = 0
    BY <1>3, <1>7 DEF Single
  <2>3. IsInjective(queue')
    BY <1>1, <1>2, <1>3, <1>7, <2>2, OnceAppended DEF Single
  <2> HIDE DEF l, h, f
  <2> QED
    BY <1>3, <1>4, <1>7, <2>1, <2>2, <2>3 DEF Single
<1> QED
  BY <1>2, <1>3, <1>6, <1>7, OnceFrom

LEMMA RequeueFailsOnce == ASSUME IInv, Once, RequeueFails PROVE Once'
<1> DEFINE f == EntriesOf(spool)
           l == current.left
<1>1. /\ current # Idle /\ l \in Seq(Items) /\ current.file \in Files /\ f \in Seq(Items)
      /\ current = [file |-> current.file, left |-> l]
  BY CurrentFacts, EntriesSeq DEF RequeueFails, IInv, Types
<1>2. UNCHANGED <<queue, drained, claimed, raised, sent>>
  BY DEF RequeueFails
<1>3. CASE broken'
  BY <1>3 DEF Once
<1>4. CASE spool' = WrittenBack(current.left) /\ current' = [current EXCEPT !.left = <<>>] /\ broken' = broken
  <2>1. current'.file = current.file /\ current'.left = <<>>
    BY <1>1, <1>4
  <2>2. current' # Idle
    BY <1>1, <2>1, IdleFacts DEF Idle
  <2>3. OnlyCurrent => OnlyCurrent'
    BY <1>2, <2>1, <2>2 DEF OnlyCurrent
  <2>4. l \o f \in Seq(Items) /\ \A i : i \in ToSet(l \o f) <=> i \in ToSet(l) \/ i \in ToSet(f)
    BY <1>1, ConcatSet
  <2>5. EntriesOf(spool') = l \o f
    BY <1>4, <2>4, EntriesSeq DEF WrittenBack
  <2>6. ASSUME Single(queue, drained, l, f, raised, sent)
        PROVE  Single(queue, drained, <<>>, l \o f, raised, sent)
    <3>1. IsInjective(l \o f)
      BY <1>1, <2>6, OnceJoined DEF Single
    <3> HIDE DEF l, f
    <3> QED
      BY <2>4, <2>6, <3>1, OnceEmpty, EmptySet DEF Single
  <2> QED
    BY <1>2, <1>4, <2>1, <2>3, <2>5, <2>6, OnceFrom
<1> QED
  BY <1>3, <1>4 DEF RequeueFails

\* The spool becomes the file being restored; no other claimed file is there.
LEMMA ClaimOnce == ASSUME IInv, Once, Claim PROVE Once'
<1> DEFINE h == Head(todo)
<1>1. /\ current = Idle /\ todo # <<>> /\ todo \in Seq(Files \cup {0}) /\ Types /\ Room
      /\ spool \in Seq(Items) \cup {NoFile} /\ claimed \in [Files -> Seq(Items) \cup {NoFile}]
  BY DEF Claim, IInv, Types
<1>2. h \in Files \cup {0} /\ UNCHANGED <<queue, drained, raised, sent, broken>>
  BY <1>1 DEF Claim
<1>3. CASE UNCHANGED <<spool, claimed, current>>
  BY <1>2, <1>3, OnceStays
<1>4. CASE h = 0 /\ spool # NoFile
  <2>1. /\ claimed' = [claimed EXCEPT ![FreshName] = spool] /\ spool' = NoFile
        /\ current' = [file |-> FreshName, left |-> spool]
    BY <1>4 DEF Claim, Renamed
  <2>2. FreshName \in Files
    BY <1>1, NameIsFresh
  <2>3. current'.left = spool /\ current'.file = FreshName /\ current' # Idle
    BY <2>1, <2>2, IdleFacts DEF Idle
  <2>4. OnlyCurrent => OnlyCurrent'
    BY <1>1, <2>1, <2>2, <2>3 DEF OnlyCurrent
  <2>5. EntriesOf(spool) = spool /\ EntriesOf(spool') = <<>> /\ current.left = <<>>
    BY <1>1, <1>4, <2>1, EntriesSeq DEF Idle
  <2>6. Single(queue, drained, <<>>, spool, raised, sent) => Single(queue, drained, spool, <<>>, raised, sent)
    BY OnceEmpty, EmptySet DEF Single
  <2> QED
    BY <1>2, <2>3, <2>4, <2>5, <2>6, OnceFrom
<1>5. CASE h # 0 /\ claimed[h] # NoFile
  <2>1. ~OnlyCurrent
    BY <1>1, <1>2, <1>5 DEF OnlyCurrent
  <2> QED
    BY <1>2, <2>1 DEF Once
<1> QED
  BY <1>3, <1>4, <1>5 DEF Claim

LEMMA RestoredFileOnce == ASSUME IInv, Once, RestoredFile PROVE Once'
<1>1. /\ current # Idle /\ current.left = <<>> /\ current.file \in Files
      /\ claimed \in [Files -> Seq(Items) \cup {NoFile}]
  BY CurrentFacts DEF RestoredFile, IInv, Types
<1>2. /\ claimed' = [claimed EXCEPT ![current.file] = NoFile] /\ current' = Idle /\ current'.left = <<>>
      /\ UNCHANGED <<queue, drained, spool, raised, sent, broken>>
  BY DEF RestoredFile, Unlinked, Idle
<1>3. OnlyCurrent => OnlyCurrent'
  BY <1>1, <1>2 DEF OnlyCurrent
<1> QED
  BY <1>1, <1>2, <1>3, OnceFrom

LEMMA StopOnce == ASSUME IInv, Once, Stop PROVE Once'
<1>1. /\ drained' = queue /\ queue' = <<>> /\ drained = <<>>
      /\ UNCHANGED <<current, spool, claimed, raised, sent, broken>>
  BY DEF Stop, IInv, Phases
<1>2. OnlyCurrent => OnlyCurrent'
  BY <1>1 DEF OnlyCurrent
<1>3. Single(queue, <<>>, current.left, EntriesOf(spool), raised, sent) =>
          Single(<<>>, queue, current.left, EntriesOf(spool), raised, sent)
  BY OnceEmpty, EmptySet DEF Single
<1> QED
  BY <1>1, <1>2, <1>3, OnceFrom

LEMMA PersistOnce == ASSUME IInv, Once, Persist PROVE Once'
<1> DEFINE f == EntriesOf(spool)
           all == f \o drained
<1>1. /\ drained' = <<>> /\ UNCHANGED <<queue, claimed, current, raised, sent, broken>>
      /\ current = Idle /\ current.left = <<>> /\ drained \in Seq(Items) /\ f \in Seq(Items)
  BY EntriesSeq DEF Persist, IInv, Phases, Types, Idle
<1>2. OnlyCurrent => OnlyCurrent'
  BY <1>1 DEF OnlyCurrent
<1>3. CASE spool' = spool
  <2>1. Single(queue, drained, <<>>, f, raised, sent) => Single(queue, <<>>, <<>>, f, raised, sent)
    BY OnceEmpty, EmptySet DEF Single
  <2> QED
    BY <1>1, <1>2, <1>3, <2>1, OnceFrom
<1>4. CASE spool' = Cap(all)
  <2>1. all \in Seq(Items) /\ \A i : i \in ToSet(all) <=> i \in ToSet(f) \/ i \in ToSet(drained)
    BY <1>1, ConcatSet
  <2>2. EntriesOf(spool') = Cap(all)
    BY <1>4, <2>1, CapSeq, EntriesSeq
  <2>3. ASSUME Single(queue, drained, <<>>, f, raised, sent)
        PROVE  Single(queue, <<>>, <<>>, Cap(all), raised, sent)
    <3>1. \A i \in ToSet(f) : i \notin ToSet(drained)
      BY <2>3 DEF Single
    <3>2. IsInjective(all)
      BY <1>1, <2>3, <3>1, OnceJoined DEF Single
    <3>3. IsInjective(Cap(all)) /\ \A i \in ToSet(Cap(all)) : i \in ToSet(all)
      BY <2>1, <3>2, OnceCapped
    <3> HIDE DEF all, f
    <3> QED
      BY <2>1, <2>3, <3>3, OnceEmpty, EmptySet DEF Single
  <2> QED
    BY <1>1, <1>2, <2>2, <2>3, OnceFrom
<1> QED
  BY <1>3, <1>4 DEF Persist, Combined

\* A process that dies before or after its restore leaves no claimed file.
LEMMA CrashOnce == ASSUME IInv, Once, Crash PROVE Once'
<1>1. /\ queue' = <<>> /\ drained' = <<>> /\ current' = Idle /\ current'.left = <<>>
      /\ UNCHANGED <<spool, claimed, raised, sent>>
  BY DEF Crash, Idle
<1>2. ~broken' => ~broken /\ phase # "starting"
  BY DEF Crash
<1>3. CASE phase = "starting"
  BY <1>2, <1>3 DEF Once
<1>4. CASE phase # "starting"
  <2>1. current = Idle /\ current.left = <<>>
    BY <1>4 DEF IInv, Phases, Idle
  <2>2. OnlyCurrent => OnlyCurrent'
    BY <1>1, <2>1 DEF OnlyCurrent
  <2>3. Single(queue, drained, <<>>, EntriesOf(spool), raised, sent) =>
            Single(<<>>, <<>>, <<>>, EntriesOf(spool), raised, sent)
    BY OnceEmpty, EmptySet DEF Single
  <2> QED
    BY <1>1, <1>2, <2>1, <2>2, <2>3, OnceFrom
<1> QED
  BY <1>3, <1>4

LEMMA NextOnce == IInv /\ Once /\ [Next]_vars => Once'
<1> SUFFICES ASSUME IInv, Once, [Next]_vars PROVE Once'
  OBVIOUS
<1>1. CASE Start \/ Started \/ UNCHANGED vars
  <2>1. UNCHANGED <<queue, drained, current, spool, claimed, raised, sent, broken>>
    BY <1>1 DEF Start, Started, vars
  <2> QED
    BY <2>1, OnceStays
<1> QED
  BY <1>1, EnqueueOnce, DispatchOnce, ClaimOnce, QuarantineOnce, RequeueOnce, RequeueFailsOnce,
     RestoredFileOnce, StopOnce, PersistOnce, CrashOnce DEF Next

\* A notification is sent twice only where a restore was cut short, by a process
\* that died in it or by a spool that could not be written back (_restore_file):
\* a shutdown, a claim by renaming and a death anywhere else never duplicate one.
THEOREM SentOnce == Spec => []SentAgain
<1>1. Init => Once
  <2> SUFFICES ASSUME Init PROVE Once
    OBVIOUS
  <2>1. /\ queue = <<>> /\ drained = <<>> /\ current.left = <<>> /\ EntriesOf(spool) = <<>>
        /\ raised = 0 /\ \A i \in Items : sent[i] = 0
    BY EntriesSeq DEF Init, Idle
  <2>2. OnlyCurrent
    BY DEF Init, OnlyCurrent
  <2> QED
    BY <2>1, <2>2, OnceEmpty, EmptySet DEF Once, Single
<1>2. Once => SentAgain
  BY DEF Once, Single, SentAgain
<1> QED
  BY <1>1, <1>2, InitInv, NextInv, NextOnce, PTL DEF Spec

============================================================================
