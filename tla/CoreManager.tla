---------------------------- MODULE CoreManager ----------------------------
(***************************************************************************)
(* The core configurations every worker process of the panel keeps in      *)
(* memory (app/core/manager.py).  A request commits to the database,       *)
(* changes the memory of its own worker and then tells all workers.  A     *)
(* worker reloads all cores from the database periodically, on every       *)
(* reconnect, in a job, and before it connects or syncs a node; these      *)
(* callers do not know of each other.  A reload reads the database without *)
(* the lock, so updates may be applied, and other reloads of the worker    *)
(* may install what they read, between its read and its installation.      *)
(*                                                                         *)
(* A configuration is the number of the commit that stored it.             *)
(***************************************************************************)
EXTENDS Naturals, Sequences, FiniteSets

CONSTANTS
    Workers, Cores,
    Panels,      \* the workers whose role serves the requests of administrators
    Callers,     \* per worker, the callers of _reload_from_cache that may overlap
    Attempts,    \* DB_RELOAD_ATTEMPTS
    MaxCommit,   \* bound: how many creations, changes and removals there are
    MaxLost,     \* bound: how often messages are lost
    NoReload

ASSUME CoreAssumption ==
    /\ Panels \subseteq Workers
    /\ Attempts \in Nat \ {0} /\ MaxCommit \in Nat /\ MaxLost \in Nat

VARIABLES
    db,        \* per core, its last commit and whether it exists
    commits,   \* how many commits there have been
    cores,     \* per worker and core, the configuration in _cores, 0 if there is none
    reload,    \* per worker and caller, the reload under way; "changed" stands
               \* for a _generation other than the one the reload noted
    inbox,     \* per worker, the messages the router has not handed over yet
    requests,  \* the commits whose worker has still to apply or to publish them
    known,     \* history: the newest commit of each core that changed a worker's memory
    lost

vars == <<db, commits, cores, reload, inbox, requests, known, lost>>

Never == [n |-> 0, live |-> FALSE]
Nothing == [c \in Cores |-> Never]
Changes == [core: Cores, n: 1..MaxCommit, live: BOOLEAN]

----------------------------------------------------------------------------

Init ==
    /\ db = Nothing
    /\ commits = 0
    /\ cores = [w \in Workers |-> [c \in Cores |-> 0]]
    /\ reload = [w \in Workers |-> [k \in Callers[w] |-> NoReload]]
    /\ inbox = [w \in Workers |-> <<>>]
    /\ requests = {}
    /\ known = [w \in Workers |-> [c \in Cores |-> 0]]
    /\ lost = 0

\* create_core and modify_core (live) and delete_core: the database first.
Commit(w, c, live) ==
    /\ commits < MaxCommit
    /\ live \/ db[c].live
    /\ commits' = commits + 1
    /\ db' = [db EXCEPT ![c] = [n |-> commits + 1, live |-> live]]
    /\ requests' = requests \cup
           {[worker |-> w, core |-> c, n |-> commits + 1, live |-> live, step |-> "apply"]}
    /\ UNCHANGED <<cores, reload, inbox, known, lost>>

\* _update_core_local puts the configuration in; _remove_core_local returns
\* without a new generation when there is nothing to take out.
Bumps(w, m) == m.live \/ cores[w][m.core] # 0

\* self._generation += 1, as the reloads under way will find.
Changed(r) == IF r = NoReload THEN NoReload ELSE [r EXCEPT !.changed = TRUE]
Bumped(w) == [k \in Callers[w] |-> Changed(reload[w][k])]

Applied(w, m) ==
    /\ cores' = [cores EXCEPT ![w][m.core] = IF m.live THEN m.n ELSE 0]
    /\ reload' = IF Bumps(w, m) THEN [reload EXCEPT ![w] = Bumped(w)] ELSE reload
    /\ known' = [known EXCEPT ![w][m.core] = IF Bumps(w, m) /\ @ < m.n THEN m.n ELSE @]

\* The request goes on: its own worker first, and then the broadcast.
ApplyLocal(r) ==
    /\ r \in requests /\ r.step = "apply"
    /\ Applied(r.worker, r)
    /\ requests' = (requests \ {r}) \cup {[r EXCEPT !.step = "publish"]}
    /\ UNCHANGED <<db, commits, inbox, lost>>

Message(r) == [core |-> r.core, n |-> r.n, live |-> r.live]

\* _publish_invalidation: every worker subscribes, the sender too.
Publish(r) ==
    /\ r \in requests /\ r.step = "publish"
    /\ inbox' = [w \in Workers |-> Append(inbox[w], Message(r))]
    /\ requests' = requests \ {r}
    /\ UNCHANGED <<db, commits, cores, reload, known, lost>>

\* It fails three times: an error is logged and no worker is told.
PublishFails(r) ==
    /\ r \in requests /\ r.step = "publish" /\ lost < MaxLost
    /\ lost' = lost + 1
    /\ requests' = requests \ {r}
    /\ UNCHANGED <<db, commits, cores, reload, inbox, known>>

\* The subscription of a worker ends with messages still on their way.
Disconnect(w) ==
    /\ inbox[w] # <<>> /\ lost < MaxLost
    /\ lost' = lost + 1
    /\ inbox' = [inbox EXCEPT ![w] = <<>>]
    /\ UNCHANGED <<db, commits, cores, reload, requests, known>>

\* _handle_core_message, one message after the other.
HandleCoreMessage(w) ==
    /\ inbox[w] # <<>>
    /\ Applied(w, Head(inbox[w]))
    /\ inbox' = [inbox EXCEPT ![w] = Tail(@)]
    /\ UNCHANGED <<db, commits, requests, lost>>

\* Mutant of Noted: the generation noted is the one before the latest change.
NotedBehind(attempt) == [step |-> "read", changed |-> TRUE, rows |-> Nothing, attempt |-> attempt]

\* _reload_from_db notes the generation, then reads, then installs.
Noted(attempt) == [step |-> "read", changed |-> FALSE, rows |-> Nothing, attempt |-> attempt]

StartReload(w, k) ==
    /\ reload[w][k] = NoReload
    /\ reload' = [reload EXCEPT ![w][k] = Noted(1)]
    /\ UNCHANGED <<db, commits, cores, inbox, requests, known, lost>>

WithRows(r) == [r EXCEPT !.step = "install", !.rows = db]

ReadDatabase(w, k) ==
    /\ reload[w][k] # NoReload /\ reload[w][k].step = "read"
    /\ reload' = [reload EXCEPT ![w][k] = WithRows(@)]
    /\ UNCHANGED <<db, commits, cores, inbox, requests, known, lost>>

\* _install_cores compares the generations under the lock.
MayInstall(w, k) ==
    reload[w][k] # NoReload /\ reload[w][k].step = "install" /\ ~reload[w][k].changed

Installed(rows) == [c \in Cores |-> IF rows[c].live THEN rows[c].n ELSE 0]
Newest(rows) == [c \in Cores |-> rows[c].n]

\* Mutant of InstallCores: the installation is not a new generation.
InstallUnnoticed(w, k) ==
    /\ MayInstall(w, k)
    /\ cores' = [cores EXCEPT ![w] = Installed(reload[w][k].rows)]
    /\ known' = [known EXCEPT ![w] = Newest(reload[w][k].rows)]
    /\ reload' = [reload EXCEPT ![w][k] = NoReload]
    /\ UNCHANGED <<db, commits, inbox, requests, lost>>

InstallCores(w, k) ==
    /\ MayInstall(w, k)
    /\ cores' = [cores EXCEPT ![w] = Installed(reload[w][k].rows)]
    /\ known' = [known EXCEPT ![w] = Newest(reload[w][k].rows)]
    /\ reload' = [reload EXCEPT ![w] = [Bumped(w) EXCEPT ![k] = NoReload]]
    /\ UNCHANGED <<db, commits, inbox, requests, lost>>

\* The cores changed meanwhile: again, up to DB_RELOAD_ATTEMPTS times.
NextAttempt(r) == IF r.attempt < Attempts THEN Noted(r.attempt + 1) ELSE NoReload

InstallRefused(w, k) ==
    /\ reload[w][k] # NoReload /\ reload[w][k].step = "install"
    /\ ~MayInstall(w, k)
    /\ reload' = [reload EXCEPT ![w][k] = NextAttempt(@)]
    /\ UNCHANGED <<db, commits, cores, inbox, requests, known, lost>>

Reload(w) ==
    \E k \in Callers[w] :
        StartReload(w, k) \/ ReadDatabase(w, k) \/ InstallCores(w, k) \/ InstallRefused(w, k)

Next ==
    \/ \E w \in Panels, c \in Cores, live \in BOOLEAN : Commit(w, c, live)
    \/ \E r \in requests : ApplyLocal(r) \/ Publish(r) \/ PublishFails(r)
    \/ \E w \in Workers :
        Disconnect(w) \/ HandleCoreMessage(w) \/ Reload(w)

Spec == Init /\ [][Next]_vars

(* Requests run to their end, the router hands every message over, and reloads *)
(* go on in every worker: its periodic resync starts one again and again.      *)
FairSpec ==
    /\ Spec
    /\ WF_vars(\E r \in requests : ApplyLocal(r) \/ Publish(r))
    /\ \A w \in Workers : WF_vars(HandleCoreMessage(w)) /\ WF_vars(Reload(w))

----------------------------------------------------------------------------

\* Every variable has its type, and a reload makes at most DB_RELOAD_ATTEMPTS
\* attempts (_reload_from_db).
TypeOK ==
    /\ db \in [Cores -> [n: 0..MaxCommit, live: BOOLEAN]]
    /\ commits \in 0..MaxCommit /\ lost \in 0..MaxLost
    /\ cores \in [Workers -> [Cores -> 0..MaxCommit]]
    /\ \A w \in Workers : \A k \in Callers[w] :
           reload[w][k] = NoReload \/ reload[w][k].attempt \in 1..Attempts
    /\ \A w \in Workers : inbox[w] \in Seq(Changes)
    /\ known \in [Workers -> [Cores -> 0..MaxCommit]]

\* A reload that raced an update, or a reload that read the database after it,
\* does not overwrite what is newer: what it installs is, for every core, at
\* least as new as what is in memory.  (A removal that finds nothing in memory
\* is no new generation and may be undone by such a reload, until the next one.)
ReloadNeverStale ==
    [][\A w \in Workers : \A k \in Callers[w] :
        InstallCores(w, k) => \A c \in Cores : reload[w][k].rows[c].n >= known[w][c]]_vars

\* Once the administrators stop, every worker comes to serve exactly the cores
\* of the database, whatever messages were lost or overtook each other.
Serves(w) == \A c \in Cores : cores[w][c] = IF db[c].live THEN db[c].n ELSE 0

Converges == \A w \in Workers : <>[]Serves(w)

============================================================================
