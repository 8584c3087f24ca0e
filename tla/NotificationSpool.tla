------------------------- MODULE NotificationSpool -------------------------
(***************************************************************************)
(* The unsent notifications of a panel across its restarts                 *)
(* (app/fork/notification_spool.py): a shutdown writes what is queued to a *)
(* spool file, the next start claims the file by renaming it, queues its   *)
(* entries one by one and removes it.  The process may die between any two *)
(* steps; only what is in files survives it.                               *)
(***************************************************************************)
EXTENDS Naturals, Sequences, FiniteSets, SequencesExt

CONSTANTS
    MaxItem,      \* bound: how many notifications are raised
    MaxSpool,     \* SPOOL_MAX_ITEMS
    MaxCrash,     \* bound: how often the process dies
    MaxStop,      \* bound: how often the panel is shut down
    MaxFail,      \* bound: how many file or queue errors happen
    MultiWorker,  \* the values of is_multi_worker() to be checked
    NoFile

ASSUME SpoolAssumption ==
    /\ MaxItem \in Nat /\ MaxSpool \in Nat \ {0}
    /\ MaxCrash \in Nat /\ MaxStop \in Nat /\ MaxFail \in Nat
    /\ MultiWorker \subseteq BOOLEAN
    /\ NoFile \notin Seq(1..MaxItem)

VARIABLES
    multi,     \* is_multi_worker() of this deployment
    phase,     \* "down", "starting", "running" or "stopping"
    queue,     \* the in-memory queues, in the order of their dispatch
    spool,     \* SPOOL_PATH: its entries, or NoFile
    claimed,   \* the ".restoring-" files, by their number
    aside,     \* the notifications in ".corrupt-" files
    todo,      \* restore: the claimed files still to be restored, and the spool
    current,   \* restore: the file being restored and what is left of its entries
    drained,   \* persist: what was taken from the queues
    raised,    \* how many notifications there have been
    sent,      \* how often each was sent
    reported,  \* the ones an error message gave up for lost
    dropped,   \* history: the ones that were only in memory when the process died
    broken,    \* history: some restore was cut short
    crashes, stops, fails

vars == <<multi, phase, queue, spool, claimed, aside, todo, current, drained,
          raised, sent, reported, dropped, broken, crashes, stops, fails>>

Items == 1..MaxItem
Files == 1..(MaxCrash + MaxFail + 1)
Idle == [file |-> 0, left |-> <<>>]

----------------------------------------------------------------------------
(* Reading and writing the files. *)

EntriesOf(f) == IF f = NoFile THEN <<>> ELSE f

Names == {n \in Files : claimed[n] # NoFile}

FreshName == CHOOSE n \in Files : claimed[n] = NoFile

InFiles ==
    ToSet(EntriesOf(spool)) \cup aside \cup UNION {ToSet(EntriesOf(claimed[n])) : n \in Files}

InMemory == ToSet(queue) \cup ToSet(drained)

Cap(entries) == SubSeq(entries, 1, IF Len(entries) < MaxSpool THEN Len(entries) ELSE MaxSpool)

\* Mutant of WrittenBack: what had been spooled meanwhile is overwritten.
WrittenBackOver(left) == left

\* _restore_file after a failed enqueue: the rest goes before what is spooled.
WrittenBack(left) == left \o EntriesOf(spool)

\* Mutant of Combined: what an earlier shutdown saved is overwritten.
CombinedNew(entries) == entries

\* persist_notification_backlog: what an earlier shutdown saved comes first.
Combined(entries) == EntriesOf(spool) \o entries

----------------------------------------------------------------------------

Init ==
    /\ multi \in MultiWorker
    /\ phase = "down" /\ queue = <<>> /\ spool = NoFile
    /\ claimed = [n \in Files |-> NoFile]
    /\ aside = {} /\ todo = <<>> /\ current = Idle /\ drained = <<>>
    /\ raised = 0 /\ sent = [i \in Items |-> 0]
    /\ reported = {} /\ dropped = {} /\ broken = FALSE /\ crashes = 0 /\ stops = 0 /\ fails = 0

\* A notification is raised; the panel is already serving while it restores.
Enqueue ==
    /\ phase \in {"starting", "running"} /\ raised < MaxItem
    /\ raised' = raised + 1
    /\ queue' = Append(queue, raised + 1)
    /\ UNCHANGED <<multi, phase, spool, claimed, aside, todo, current, drained, sent,
                   reported, dropped, broken, crashes, stops, fails>>

\* run_notification_dispatcher: one notification is sent and acknowledged.
Dispatch ==
    /\ phase \in {"starting", "running"} /\ queue # <<>>
    /\ queue' = Tail(queue)
    /\ sent' = [sent EXCEPT ![Head(queue)] = @ + 1]
    /\ UNCHANGED <<multi, phase, spool, claimed, aside, todo, current, drained, raised,
                   reported, dropped, broken, crashes, stops, fails>>

\* Mutant of Leftovers: only the spool is looked for.
LeftoversNone == {}

\* The claimed files an earlier process left.  Where several workers run they
\* may be another worker's, and stay for the operator.
Leftovers == IF multi THEN {} ELSE Names

\* restore_notification_backlog: the leftovers, in no particular order, and
\* then the spool (0).
Start ==
    /\ phase = "down"
    /\ phase' = "starting"
    /\ \E order \in SetToSeqs(Leftovers) : todo' = Append(order, 0)
    /\ UNCHANGED <<multi, queue, spool, claimed, aside, current, drained, raised, sent,
                   reported, dropped, broken, crashes, stops, fails>>

Renamed(name, entries) == [claimed EXCEPT ![name] = entries]

\* _claim renames the next file, if it is there, and _restore_file reads it.
Claim ==
    /\ phase = "starting" /\ current = Idle /\ todo # <<>>
    /\ todo' = Tail(todo)
    /\ LET entries == IF Head(todo) = 0 THEN spool ELSE claimed[Head(todo)]
           name == IF Head(todo) = 0 THEN FreshName ELSE Head(todo)
       IN  IF entries = NoFile
           THEN UNCHANGED <<spool, claimed, current>>
           ELSE /\ claimed' = Renamed(name, entries)
                /\ spool' = IF Head(todo) = 0 THEN NoFile ELSE spool
                /\ current' = [file |-> name, left |-> entries]
    /\ UNCHANGED <<multi, phase, queue, aside, drained, raised, sent,
                   reported, dropped, broken, crashes, stops, fails>>

\* The file cannot be read, or some entries are not notifications: they are
\* moved to a ".corrupt-" file (a whole file, or what _valid_entries rejects).
Quarantine ==
    /\ phase = "starting" /\ current # Idle /\ fails < MaxFail
    /\ current.left = claimed[current.file] /\ current.left # <<>>
    /\ fails' = fails + 1
    /\ \/ /\ aside' = aside \cup ToSet(current.left)
          /\ claimed' = [claimed EXCEPT ![current.file] = NoFile]
          /\ current' = Idle
       \/ /\ aside' = aside \cup {Head(current.left)}
          /\ current' = [current EXCEPT !.left = Tail(@)]
          /\ UNCHANGED claimed
    /\ UNCHANGED <<multi, phase, queue, spool, todo, drained, raised, sent,
                   reported, dropped, broken, crashes, stops>>

\* One entry of the file is queued again.
Requeue ==
    /\ phase = "starting" /\ current # Idle /\ current.left # <<>>
    /\ queue' = Append(queue, Head(current.left))
    /\ current' = [current EXCEPT !.left = Tail(@)]
    /\ UNCHANGED <<multi, phase, spool, claimed, aside, todo, drained, raised, sent,
                   reported, dropped, broken, crashes, stops, fails>>

\* The queue refuses an entry: it and the rest are written to the spool, which
\* fails or not, and the claimed file is removed in a step of its own.
RequeueFails ==
    /\ phase = "starting" /\ current # Idle /\ current.left # <<>>
    /\ fails < MaxFail
    /\ fails' = fails + 1
    /\ \/ /\ spool' = WrittenBack(current.left)
          /\ current' = [current EXCEPT !.left = <<>>]
          /\ UNCHANGED broken
       \/ /\ current' = Idle
          /\ broken' = TRUE
          /\ UNCHANGED spool
    /\ UNCHANGED <<multi, phase, queue, claimed, aside, todo, drained, raised, sent,
                   reported, dropped, crashes, stops>>

\* Mutant of Unlinked: the claimed file stays.
UnlinkedNot == claimed

\* The restored file is removed.
Unlinked == [claimed EXCEPT ![current.file] = NoFile]

RestoredFile ==
    /\ phase = "starting" /\ current # Idle /\ current.left = <<>>
    /\ claimed' = Unlinked
    /\ current' = Idle
    /\ UNCHANGED <<multi, phase, queue, spool, aside, todo, drained, raised, sent,
                   reported, dropped, broken, crashes, stops, fails>>

Started ==
    /\ phase = "starting" /\ current = Idle /\ todo = <<>>
    /\ phase' = "running"
    /\ UNCHANGED <<multi, queue, spool, claimed, aside, todo, current, drained, raised, sent,
                   reported, dropped, broken, crashes, stops, fails>>

\* persist_notification_backlog stops the dispatcher and empties the queues.
Stop ==
    /\ phase = "running" /\ stops < MaxStop
    /\ phase' = "stopping" /\ stops' = stops + 1
    /\ drained' = queue /\ queue' = <<>>
    /\ UNCHANGED <<multi, spool, claimed, aside, todo, current, raised, sent,
                   reported, dropped, broken, crashes, fails>>

\* It writes them after what is already spooled, up to the cap; what does not
\* fit, or cannot be written at all, is reported as lost.
Persist ==
    /\ phase = "stopping"
    /\ phase' = "down" /\ drained' = <<>>
    /\ \/ /\ drained # <<>> /\ fails < MaxFail
          /\ fails' = fails + 1
          /\ reported' = reported \cup ToSet(drained)
          /\ UNCHANGED spool
       \/ /\ spool' = IF drained = <<>> THEN spool ELSE Cap(Combined(drained))
          /\ reported' = IF drained = <<>> THEN reported
                         ELSE reported \cup (ToSet(EntriesOf(spool) \o drained)
                                             \ ToSet(Cap(EntriesOf(spool) \o drained)))
          /\ UNCHANGED fails
    /\ UNCHANGED <<multi, queue, claimed, aside, todo, current, raised, sent, dropped, broken, crashes, stops>>

\* The process dies: the queues and what persist took from them are gone.
Crash ==
    /\ phase # "down"
    /\ crashes < MaxCrash
    /\ crashes' = crashes + 1
    /\ phase' = "down" /\ queue' = <<>> /\ drained' = <<>>
    /\ todo' = <<>> /\ current' = Idle
    /\ dropped' = dropped \cup (InMemory \ InFiles)
    /\ broken' = (broken \/ phase = "starting")
    /\ UNCHANGED <<multi, spool, claimed, aside, raised, sent, reported, stops, fails>>

Restoring == Claim \/ Requeue \/ RestoredFile \/ Started

Next ==
    \/ Enqueue \/ Dispatch
    \/ Start
    \/ Claim \/ Quarantine \/ Requeue \/ RequeueFails \/ RestoredFile \/ Started
    \/ Stop \/ Persist
    \/ Crash

Spec == Init /\ [][Next]_vars

(* A stopped panel is started again, and a panel that is up restores, sends    *)
(* and, when it is told to stop, saves: its tasks run until the process dies.  *)
FairSpec ==
    /\ Spec
    /\ WF_vars(Start)
    /\ WF_vars(Restoring) /\ WF_vars(Persist)
    /\ WF_vars(phase = "running" /\ Dispatch)

----------------------------------------------------------------------------

\* Every variable has its type, and the file being restored is there until it
\* is removed (_restore_file).
TypeOK ==
    /\ phase \in {"down", "starting", "running", "stopping"}
    /\ ToSet(queue) \cup ToSet(drained) \subseteq 1..raised
    /\ InFiles \subseteq 1..raised
    /\ \A n \in Files : claimed[n] = NoFile \/ DOMAIN claimed[n] \in {1..k : k \in 0..MaxItem}
    /\ Len(todo) <= Cardinality(Files) + 1
    /\ current = Idle \/ claimed[current.file] # NoFile
    /\ raised \in 0..MaxItem
    /\ reported \cup dropped \subseteq Items

\* No notification disappears without a word: each one is queued, in a file,
\* sent, reported as lost by an error message, or was only in the memory of a
\* process that died.  In particular what a shutdown saved survives a process
\* that dies anywhere in the restore.
NoneLost ==
    \A i \in 1..raised :
        i \in InMemory \cup InFiles \cup reported \cup dropped \/ sent[i] > 0

\* A notification is sent twice only where a restore was cut short: by a
\* process that died in it, or by a spool that could not be written back.
SentAgain == ~broken => \A i \in Items : sent[i] <= 1

\* Where one worker runs and no file or queue fails, every notification is
\* finally sent, unless it was reported as lost, set aside or only in the
\* memory of a process that died: what a dead process had claimed does not
\* stay behind.
Delivered ==
    \A i \in Items :
        (raised >= i) ~> \/ sent[i] > 0
                         \/ i \in reported \cup dropped \cup aside
                         \/ multi \/ fails > 0

============================================================================
