------------------------ MODULE CoreManager_proofs ------------------------
(***************************************************************************)
(* Proofs about the cores in the memory of the workers, for any number of  *)
(* workers, of reloads that overlap in a worker, of cores, changes,        *)
(* attempts and lost messages: a reload never installs a core that is older*)
(* than what the worker has.                                               *)
(***************************************************************************)
EXTENDS CoreManager, TLAPS

-----------------------------------------------------------------------------
(* The inductive invariant. *)

Messages == [core: Cores, n: Nat, live: BOOLEAN]
Requests == [worker: Workers, core: Cores, n: Nat, live: BOOLEAN, step: {"apply", "publish"}]
States == [Cores -> [n: Nat, live: BOOLEAN]]
Reloads == [step: {"read", "install"}, changed: BOOLEAN, rows: States, attempt: Nat]

ReloadType ==
    /\ reload = [w \in Workers |-> reload[w]]
    /\ \A w \in Workers : reload[w] \in [Callers[w] -> Reloads \cup {NoReload}]

Types ==
    /\ db \in States
    /\ commits \in Nat
    /\ ReloadType
    /\ inbox \in [Workers -> Seq(Messages)]
    /\ requests \in SUBSET Requests
    /\ known \in [Workers -> [Cores -> Nat]]

\* Nothing is newer than the database: no message, request, memory or reload.
Stored ==
    /\ \A c \in Cores : db[c].n <= commits
    /\ \A w \in Workers, c \in Cores : known[w][c] <= db[c].n
    /\ \A r \in requests : r.n <= db[r.core].n
    /\ \A w \in Workers : \A i \in 1..Len(inbox[w]) : inbox[w][i].n <= db[inbox[w][i].core].n

\* What a reload has read is no newer than the database, and no older than the
\* memory unless the generation has changed since it was noted.
Fresh(r, w) ==
    r # NoReload /\ r.step = "install" =>
        \A c \in Cores : /\ r.rows[c].n <= db[c].n
                         /\ r.changed \/ known[w][c] <= r.rows[c].n

Reading == \A w \in Workers : \A k \in Callers[w] : Fresh(reload[w][k], w)

IInv == Types /\ Stored /\ Reading

\* One reload of a worker goes on.
SetReload(w, k, x) == [reload EXCEPT ![w][k] = x]

LEMMA OneReload ==
    ASSUME ReloadType, NEW w \in Workers, NEW k \in Callers[w], NEW x \in Reloads \cup {NoReload},
           reload' = SetReload(w, k, x)
    PROVE  /\ ReloadType'
           /\ reload'[w][k] = x
           /\ \A v \in Workers : \A j \in Callers[v] : v # w \/ j # k => reload'[v][j] = reload[v][j]
<1>1. reload' = [reload EXCEPT ![w] = [reload[w] EXCEPT ![k] = x]]
  BY DEF SetReload
<1>2. reload[w] \in [Callers[w] -> Reloads \cup {NoReload}]
  BY DEF ReloadType
<1>3. /\ [reload[w] EXCEPT ![k] = x] \in [Callers[w] -> Reloads \cup {NoReload}]
      /\ [reload[w] EXCEPT ![k] = x][k] = x
      /\ \A j \in Callers[w] : j # k => [reload[w] EXCEPT ![k] = x][j] = reload[w][j]
  BY <1>2
<1> DEFINE y == [reload[w] EXCEPT ![k] = x]
<1>4. reload' = [reload EXCEPT ![w] = y]
  BY <1>1
<1> HIDE DEF y
<1>5. reload'[w] = y /\ (\A v \in Workers : v # w => reload'[v] = reload[v])
      /\ reload' = [v \in Workers |-> reload'[v]]
  BY <1>4 DEF ReloadType
<1>6. /\ y \in [Callers[w] -> Reloads \cup {NoReload}] /\ y[k] = x
      /\ \A j \in Callers[w] : j # k => y[j] = reload[w][j]
  BY <1>3 DEF y
<1> QED
  BY <1>5, <1>6 DEF ReloadType

\* Every reload of a worker finds a new generation.
LEMMA ChangedFacts ==
    ASSUME NEW r \in Reloads \cup {NoReload}
    PROVE  /\ Changed(r) \in Reloads \cup {NoReload}
           /\ Changed(r) # NoReload =>
                r # NoReload /\ Changed(r).step = r.step /\ Changed(r).rows = r.rows /\ Changed(r).changed
<1>1. CASE r = NoReload
  BY <1>1 DEF Changed
<1>2. CASE r # NoReload
  <2>1. r \in Reloads /\ Changed(r) = [r EXCEPT !.changed = TRUE]
    BY <1>2 DEF Changed
  <2>2. Changed(r) \in Reloads /\ Changed(r).step = r.step /\ Changed(r).rows = r.rows
    BY <2>1 DEF Reloads
  <2>3. Changed(r).changed
    BY <2>1 DEF Reloads
  <2> QED
    BY <1>2, <2>2, <2>3
<1> QED
  BY <1>1, <1>2

LEMMA BumpedFacts ==
    ASSUME ReloadType, NEW w \in Workers
    PROVE  /\ Bumped(w) \in [Callers[w] -> Reloads \cup {NoReload}]
           /\ \A k \in Callers[w] : Bumped(w)[k] = Changed(reload[w][k])
BY ChangedFacts DEF ReloadType, Bumped

\* The reloads of one worker change.
LEMMA AllReloads ==
    ASSUME ReloadType, NEW w \in Workers, NEW y \in [Callers[w] -> Reloads \cup {NoReload}],
           reload' = [reload EXCEPT ![w] = y]
    PROVE  ReloadType' /\ reload'[w] = y /\ \A v \in Workers : v # w => reload'[v] = reload[v]
<1>1. /\ reload'[w] = y /\ (\A v \in Workers : v # w => reload'[v] = reload[v])
      /\ reload' = [v \in Workers |-> reload'[v]]
  BY DEF ReloadType
<1> QED
  BY <1>1 DEF ReloadType

-----------------------------------------------------------------------------
(* The steps. *)

LEMMA CommitStep ==
    ASSUME IInv, NEW w \in Workers, NEW c \in Cores, NEW live \in BOOLEAN, Commit(w, c, live)
    PROVE  IInv'
<1> DEFINE r == [worker |-> w, core |-> c, n |-> commits + 1, live |-> live, step |-> "apply"]
<1>1. Types /\ Stored /\ Reading
  BY DEF IInv
<1>2. /\ commits' = commits + 1 /\ requests' = requests \cup {r}
      /\ UNCHANGED <<reload, inbox, known>>
      /\ db' = [db EXCEPT ![c] = [n |-> commits + 1, live |-> live]]
  BY DEF Commit
<1>3. r \in Requests /\ r.n = commits + 1 /\ r.core = c
  BY <1>1 DEF Requests, Types
<1> HIDE DEF r
<1>4. db' \in States /\ \A e \in Cores : db[e].n \in Nat /\ db'[e].n = IF e = c THEN commits + 1 ELSE db[e].n
  BY <1>1, <1>2 DEF Types, States
<1>5. \A e \in Cores : db[e].n <= db'[e].n /\ db'[e].n \in Nat /\ db'[e].n <= commits + 1
  <2>1. commits \in Nat /\ \A e \in Cores : db[e].n \in Nat /\ db[e].n <= commits
    BY <1>1, <1>4 DEF Types, Stored
  <2> QED
    BY <1>4, <2>1
<1>6. Types'
  BY <1>1, <1>2, <1>3, <1>4 DEF Types, ReloadType
<1>7. Stored'
  <2>1. \A e \in Cores : db'[e].n <= commits'
    BY <1>2, <1>5
  <2>2. \A v \in Workers, e \in Cores : known'[v][e] <= db'[e].n
    BY <1>1, <1>2, <1>4, <1>5 DEF Stored, Types
  <2>3. \A q \in requests' : q.n <= db'[q.core].n
    <3>1. ASSUME NEW q \in requests PROVE q.n <= db'[q.core].n
      <4>1. q.n \in Nat /\ q.core \in Cores /\ q.n <= db[q.core].n
        BY <1>1 DEF Types, Requests, Stored
      <4> QED
        BY <1>4, <1>5, <4>1
    <3>2. r.n <= db'[r.core].n
      BY <1>1, <1>3, <1>4 DEF Types
    <3> QED
      BY <1>2, <3>1, <3>2
  <2>4. ASSUME NEW v \in Workers, NEW i \in 1..Len(inbox'[v])
        PROVE  inbox'[v][i].n <= db'[inbox'[v][i].core].n
    <3>1. inbox' = inbox /\ inbox[v][i] \in Messages
      BY <1>1, <1>2 DEF Types
    <3>2. inbox[v][i].n \in Nat /\ inbox[v][i].core \in Cores /\ inbox[v][i].n <= db[inbox[v][i].core].n
      BY <1>1, <2>4, <3>1 DEF Stored, Messages
    <3> QED
      BY <1>4, <1>5, <3>1, <3>2
  <2> QED
    BY <2>1, <2>2, <2>3, <2>4 DEF Stored
<1>8. Reading'
  <2>1. SUFFICES ASSUME NEW v \in Workers, NEW k \in Callers[v], reload[v][k] # NoReload,
                        reload[v][k].step = "install", NEW e \in Cores
                 PROVE  /\ reload[v][k].rows[e].n <= db'[e].n
                        /\ reload[v][k].changed \/ known[v][e] <= reload[v][k].rows[e].n
    BY <1>2 DEF Reading, Fresh
  <2>2. reload[v][k] \in Reloads /\ Fresh(reload[v][k], v)
    BY <1>1, <2>1 DEF Reading, Types, ReloadType
  <2>3. reload[v][k].rows[e].n \in Nat /\ reload[v][k].rows[e].n <= db[e].n
    BY <2>1, <2>2 DEF Fresh, Reloads, States
  <2> QED
    BY <1>1, <1>4, <1>5, <2>1, <2>2, <2>3 DEF Fresh
<1> QED
  BY <1>6, <1>7, <1>8 DEF IInv

\* A message or request of a stored change is applied to the memory of a worker.
LEMMA AppliedKeeps ==
    ASSUME IInv, NEW w \in Workers, NEW m, m.core \in Cores, m.n \in Nat, m.live \in BOOLEAN,
           m.n <= db[m.core].n, Applied(w, m), UNCHANGED <<db, commits>>
    PROVE  /\ ReloadType'
           /\ known' \in [Workers -> [Cores -> Nat]]
           /\ \A v \in Workers, c \in Cores : known'[v][c] <= db'[c].n
           /\ Reading'
<1>1. Types /\ Stored /\ Reading /\ ReloadType
  BY DEF IInv, Types
<1>2. /\ \A v \in Workers, c \in Cores :
            known'[v][c] = IF v = w /\ c = m.core /\ Bumps(w, m) /\ known[v][c] < m.n THEN m.n ELSE known[v][c]
      /\ known' \in [Workers -> [Cores -> Nat]]
  BY <1>1 DEF Applied, Types
<1>3. \A v \in Workers, c \in Cores : known'[v][c] <= db'[c].n
  BY <1>1, <1>2 DEF Stored
<1>4. ASSUME NEW v \in Workers, NEW k \in Callers[v], reload'[v][k] = reload[v][k],
             \A c \in Cores : known'[v][c] = known[v][c]
      PROVE  Fresh(reload[v][k], v)'
  <2>1. Fresh(reload[v][k], v)
    BY <1>1 DEF Reading
  <2> QED
    BY <1>4, <2>1 DEF Fresh
<1>5. CASE Bumps(w, m)
  <2>1. reload' = [reload EXCEPT ![w] = Bumped(w)]
    BY <1>5 DEF Applied
  <2>2. ReloadType' /\ reload'[w] = Bumped(w) /\ \A v \in Workers : v # w => reload'[v] = reload[v]
    BY <1>1, <2>1, BumpedFacts, AllReloads
  <2>3. ASSUME NEW k \in Callers[w] PROVE Fresh(reload[w][k], w)'
    <3>1. reload[w][k] \in Reloads \cup {NoReload} /\ Fresh(reload[w][k], w)
      BY <1>1 DEF ReloadType, Reading
    <3>2. reload'[w][k] = Changed(reload[w][k])
      BY <1>1, <2>2, BumpedFacts
    <3>3. reload'[w][k] # NoReload /\ reload'[w][k].step = "install" =>
            /\ reload[w][k] # NoReload /\ reload[w][k].step = "install"
            /\ reload'[w][k].changed /\ reload'[w][k].rows = reload[w][k].rows
      BY <3>1, <3>2, ChangedFacts
    <3> QED
      BY <3>1, <3>3 DEF Fresh
  <2>4. ASSUME NEW v \in Workers, v # w, NEW k \in Callers[v] PROVE Fresh(reload[v][k], v)'
    BY <1>2, <1>4, <2>2, <2>4
  <2> QED
    BY <1>2, <1>3, <2>2, <2>3, <2>4 DEF Reading
<1>6. CASE ~Bumps(w, m)
  <2>1. reload' = reload /\ \A v \in Workers, c \in Cores : known'[v][c] = known[v][c]
    BY <1>2, <1>6 DEF Applied
  <2>2. ReloadType' /\ Reading'
    BY <1>1, <1>4, <2>1 DEF ReloadType, Reading
  <2> QED
    BY <1>2, <1>3, <2>2
<1> QED
  BY <1>5, <1>6

LEMMA ApplyLocalStep ==
    ASSUME IInv, NEW r \in requests, ApplyLocal(r)
    PROVE  IInv'
<1> DEFINE q == [r EXCEPT !.step = "publish"]
<1>1. Types /\ Stored /\ Reading
  BY DEF IInv
<1>2. /\ r \in Requests /\ r.worker \in Workers /\ r.core \in Cores /\ r.n \in Nat /\ r.live \in BOOLEAN
      /\ r.n <= db[r.core].n
  BY <1>1 DEF Types, Requests, Stored
<1>3. /\ Applied(r.worker, r) /\ UNCHANGED <<db, commits, inbox>>
      /\ requests' = (requests \ {r}) \cup {q}
  BY DEF ApplyLocal
<1>4. q \in Requests /\ q.n = r.n /\ q.core = r.core
  BY <1>2 DEF Requests
<1> HIDE DEF q
<1>5. /\ ReloadType'
      /\ known' \in [Workers -> [Cores -> Nat]]
      /\ \A v \in Workers, c \in Cores : known'[v][c] <= db'[c].n
      /\ Reading'
  BY <1>2, <1>3, AppliedKeeps
<1>6. Types'
  BY <1>1, <1>3, <1>4, <1>5 DEF Types
<1>7. \A x \in requests' : x.n <= db'[x.core].n
  BY <1>1, <1>2, <1>3, <1>4 DEF Stored
<1>8. Stored'
  BY <1>1, <1>3, <1>5, <1>7 DEF Stored
<1> QED
  BY <1>5, <1>6, <1>8 DEF IInv

LEMMA HandleStep ==
    ASSUME IInv, NEW w \in Workers, HandleCoreMessage(w)
    PROVE  IInv'
<1> DEFINE m == Head(inbox[w])
<1>1. Types /\ Stored /\ Reading /\ inbox[w] \in Seq(Messages) /\ inbox[w] # <<>>
  BY DEF IInv, Types, HandleCoreMessage
<1>2. m \in Messages /\ m.n <= db[m.core].n
  BY <1>1 DEF Stored
<1>3. /\ Applied(w, m) /\ UNCHANGED <<db, commits, requests>>
      /\ inbox' = [inbox EXCEPT ![w] = Tail(inbox[w])]
  BY DEF HandleCoreMessage
<1>4. m.core \in Cores /\ m.n \in Nat /\ m.live \in BOOLEAN
  BY <1>2 DEF Messages
<1> HIDE DEF m
<1>5. /\ ReloadType'
      /\ known' \in [Workers -> [Cores -> Nat]]
      /\ \A v \in Workers, c \in Cores : known'[v][c] <= db'[c].n
      /\ Reading'
  BY <1>2, <1>3, <1>4, AppliedKeeps
<1>6. Types'
  <2>1. Tail(inbox[w]) \in Seq(Messages)
    BY <1>1
  <2>2. inbox' \in [Workers -> Seq(Messages)]
    BY <1>1, <1>3, <2>1 DEF Types
  <2> QED
    BY <1>1, <1>3, <1>5, <2>2 DEF Types
<1>7. ASSUME NEW v \in Workers, NEW i \in 1..Len(inbox'[v])
      PROVE  inbox'[v][i].n <= db'[inbox'[v][i].core].n
  <2>1. CASE v = w
    <3>1. inbox'[v] = Tail(inbox[w])
      BY <1>1, <1>3, <2>1 DEF Types
    <3>2. i + 1 \in 1..Len(inbox[w]) /\ inbox'[v][i] = inbox[w][i + 1]
      BY <1>1, <1>7, <3>1
    <3> QED
      BY <1>1, <1>3, <3>2 DEF Stored
  <2>2. CASE v # w
    <3>1. inbox'[v] = inbox[v]
      BY <1>1, <1>3, <2>2 DEF Types
    <3> QED
      BY <1>1, <1>3, <1>7, <3>1 DEF Stored
  <2> QED
    BY <2>1, <2>2
<1>8. Stored'
  BY <1>1, <1>3, <1>5, <1>7 DEF Stored
<1> QED
  BY <1>5, <1>6, <1>8 DEF IInv

\* A request is published, or is not; messages are lost.
LEMMA DeliveryStep ==
    ASSUME IInv, \/ \E r \in requests : Publish(r) \/ PublishFails(r)
                 \/ \E w \in Workers : Disconnect(w)
    PROVE  IInv'
<1>1. Types /\ Stored /\ Reading
  BY DEF IInv
<1>2. UNCHANGED <<db, commits, reload, known>> /\ requests' \subseteq requests
  BY DEF Publish, PublishFails, Disconnect
<1>3. Reading'
  BY <1>1, <1>2 DEF Reading, Fresh
<1>4. ASSUME NEW w \in Workers
      PROVE  /\ inbox'[w] \in Seq(Messages)
             /\ \A i \in 1..Len(inbox'[w]) : inbox'[w][i].n <= db[inbox'[w][i].core].n
  <2>1. CASE inbox'[w] = inbox[w] \/ inbox'[w] = <<>>
    <3>1. /\ inbox[w] \in Seq(Messages) /\ <<>> \in Seq(Messages) /\ Len(<<>>) = 0
          /\ \A i \in 1..Len(inbox[w]) : inbox[w][i].n <= db[inbox[w][i].core].n
      BY <1>1 DEF Types, Stored
    <3>2. CASE inbox'[w] = inbox[w]
      BY <3>1, <3>2
    <3>3. CASE inbox'[w] = <<>>
      BY <3>1, <3>3
    <3> QED
      BY <2>1, <3>2, <3>3
  <2>2. ASSUME NEW r \in requests, inbox'[w] = Append(inbox[w], Message(r))
        PROVE  /\ inbox'[w] \in Seq(Messages)
               /\ \A i \in 1..Len(inbox'[w]) : inbox'[w][i].n <= db[inbox'[w][i].core].n
    <3>1. Message(r) \in Messages /\ Message(r).n <= db[Message(r).core].n
      BY <1>1 DEF Message, Messages, Types, Requests, Stored
    <3> HIDE DEF Message
    <3>2. inbox[w] \in Seq(Messages) /\ \A i \in 1..Len(inbox[w]) : inbox[w][i].n <= db[inbox[w][i].core].n
      BY <1>1 DEF Types, Stored
    <3> QED
      BY <2>2, <3>1, <3>2
  <2>3. \/ inbox'[w] = inbox[w] \/ inbox'[w] = <<>>
        \/ \E r \in requests : inbox'[w] = Append(inbox[w], Message(r))
    BY <1>1 DEF Publish, PublishFails, Disconnect, Types
  <2> QED
    BY <2>1, <2>2, <2>3
<1>5. inbox' \in [Workers -> Seq(Messages)]
  <2>1. \E F : inbox' = [w \in Workers |-> F[w]]
    BY <1>1 DEF Publish, PublishFails, Disconnect, Types
  <2> QED
    BY <1>4, <2>1
<1>6. Types' /\ Stored'
  BY <1>1, <1>2, <1>4, <1>5 DEF Types, Stored, ReloadType
<1> QED
  BY <1>3, <1>6 DEF IInv

LEMMA NotedFacts == ASSUME NEW a \in Nat PROVE Noted(a) \in Reloads /\ Noted(a).step = "read"
<1>1. Nothing \in States
  BY DEF Nothing, Never, States
<1> QED
  BY <1>1 DEF Noted, Reloads

\* The steps of a reload before it installs anything.
LEMMA ReloadStep ==
    ASSUME IInv, NEW w \in Workers, NEW k \in Callers[w],
           StartReload(w, k) \/ ReadDatabase(w, k) \/ InstallRefused(w, k)
    PROVE  IInv'
<1> DEFINE r == reload[w][k]
<1>1. Types /\ Stored /\ Reading /\ ReloadType /\ r \in Reloads \cup {NoReload}
  BY DEF IInv, Types, ReloadType
<1>2. UNCHANGED <<db, commits, inbox, requests, known>>
  BY DEF StartReload, ReadDatabase, InstallRefused
<1>3. Stored'
  BY <1>1, <1>2 DEF Stored
<1>4. PICK new \in Reloads \cup {NoReload} :
         /\ reload' = SetReload(w, k, new)
         /\ new # NoReload /\ new.step = "install" => new.rows = db
  <2>1. CASE StartReload(w, k)
    <3>1. reload' = SetReload(w, k, Noted(1))
      BY <2>1 DEF StartReload, SetReload
    <3> QED
      BY <3>1, NotedFacts
  <2>2. CASE ReadDatabase(w, k)
    <3>1. reload' = SetReload(w, k, WithRows(r)) /\ r \in Reloads
      BY <1>1, <2>2 DEF ReadDatabase, SetReload
    <3>2. WithRows(r) \in Reloads /\ WithRows(r).rows = db
      BY <1>1, <3>1 DEF WithRows, Reloads, Types
    <3> QED
      BY <3>1, <3>2
  <2>3. CASE InstallRefused(w, k)
    <3>1. reload' = SetReload(w, k, NextAttempt(r)) /\ r \in Reloads
      BY <1>1, <2>3 DEF InstallRefused, SetReload
    <3>2. r.attempt + 1 \in Nat
      BY <3>1 DEF Reloads
    <3>3. NextAttempt(r) = NoReload \/ NextAttempt(r) = Noted(r.attempt + 1)
      BY DEF NextAttempt
    <3> QED
      BY <3>1, <3>2, <3>3, NotedFacts
  <2> QED
    BY <2>1, <2>2, <2>3
<1>5. /\ ReloadType' /\ reload'[w][k] = new
      /\ \A v \in Workers : \A j \in Callers[v] : v # w \/ j # k => reload'[v][j] = reload[v][j]
  BY <1>1, <1>4, OneReload
<1>6. Types'
  BY <1>1, <1>2, <1>5 DEF Types
<1>7. Reading'
  <2>1. SUFFICES ASSUME NEW v \in Workers, NEW j \in Callers[v] PROVE Fresh(reload[v][j], v)'
    BY DEF Reading
  <2>2. CASE v = w /\ j = k
    <3>1. \A c \in Cores : db[c].n \in Nat /\ known[w][c] <= db[c].n
      BY <1>1 DEF Types, States, Stored
    <3> QED
      BY <1>2, <1>4, <1>5, <2>2, <3>1 DEF Fresh
  <2>3. CASE v # w \/ j # k
    <3>1. reload'[v][j] = reload[v][j] /\ Fresh(reload[v][j], v)
      BY <1>1, <1>5, <2>3 DEF Reading
    <3> QED
      BY <1>2, <3>1 DEF Fresh
  <2> QED
    BY <2>2, <2>3
<1> QED
  BY <1>3, <1>6, <1>7 DEF IInv

LEMMA InstallStep ==
    ASSUME IInv, NEW w \in Workers, NEW k \in Callers[w], InstallCores(w, k)
    PROVE  IInv'
<1> DEFINE rows == reload[w][k].rows
           y == [Bumped(w) EXCEPT ![k] = NoReload]
<1>1. Types /\ Stored /\ Reading /\ ReloadType
  BY DEF IInv, Types
<1>2. /\ UNCHANGED <<db, commits, inbox, requests>>
      /\ reload[w][k] # NoReload /\ reload[w][k].step = "install"
      /\ reload' = [reload EXCEPT ![w] = y]
      /\ known' = [known EXCEPT ![w] = Newest(rows)]
  BY DEF InstallCores, MayInstall
<1>3. \A c \in Cores : rows[c].n \in Nat /\ rows[c].n <= db[c].n
  <2>1. reload[w][k] \in Reloads /\ Fresh(reload[w][k], w)
    BY <1>1, <1>2 DEF ReloadType, Reading
  <2> QED
    BY <1>2, <2>1 DEF Reloads, States, Fresh
<1>4. Newest(rows) \in [Cores -> Nat] /\ \A c \in Cores : Newest(rows)[c] = rows[c].n
  BY <1>3 DEF Newest
<1>5. /\ known' \in [Workers -> [Cores -> Nat]]
      /\ \A v \in Workers, c \in Cores :
            known'[v][c] = IF v = w THEN rows[c].n ELSE known[v][c]
  BY <1>1, <1>2, <1>4 DEF Types
<1>6. /\ y \in [Callers[w] -> Reloads \cup {NoReload}] /\ y[k] = NoReload
      /\ \A j \in Callers[w] : j # k => y[j] = Changed(reload[w][j])
  BY <1>1, BumpedFacts
<1> HIDE DEF y
<1>7. ReloadType' /\ reload'[w] = y /\ \A v \in Workers : v # w => reload'[v] = reload[v]
  BY <1>1, <1>2, <1>6, AllReloads
<1>8. Types'
  BY <1>1, <1>2, <1>5, <1>7 DEF Types
<1>9. Stored'
  BY <1>1, <1>2, <1>3, <1>5 DEF Stored
<1>10. Reading'
  <2>1. SUFFICES ASSUME NEW v \in Workers, NEW j \in Callers[v] PROVE Fresh(reload[v][j], v)'
    BY DEF Reading
  <2>2. reload[v][j] \in Reloads \cup {NoReload} /\ Fresh(reload[v][j], v)
    BY <1>1 DEF ReloadType, Reading
  <2>3. CASE v # w
    <3>1. reload'[v][j] = reload[v][j] /\ \A c \in Cores : known'[v][c] = known[v][c]
      BY <1>5, <1>7, <2>3
    <3> QED
      BY <1>2, <2>2, <3>1 DEF Fresh
  <2>4. CASE v = w /\ j = k
    BY <1>6, <1>7, <2>4 DEF Fresh
  <2>5. CASE v = w /\ j # k
    <3>1. reload'[v][j] = Changed(reload[v][j])
      BY <1>6, <1>7, <2>5
    <3>2. reload'[v][j] # NoReload /\ reload'[v][j].step = "install" =>
            /\ reload[v][j] # NoReload /\ reload[v][j].step = "install"
            /\ reload'[v][j].changed /\ reload'[v][j].rows = reload[v][j].rows
      BY <2>2, <3>1, ChangedFacts
    <3> QED
      BY <1>2, <2>2, <3>2 DEF Fresh
  <2> QED
    BY <2>3, <2>4, <2>5
<1> QED
  BY <1>8, <1>9, <1>10 DEF IInv

-----------------------------------------------------------------------------
(* The theorem. *)

LEMMA InitInv == Init => IInv
<1> SUFFICES ASSUME Init PROVE IInv
  OBVIOUS
<1>1. ReloadType /\ \A w \in Workers : \A k \in Callers[w] : reload[w][k] = NoReload
  BY DEF Init, ReloadType
<1>2. Types
  BY <1>1 DEF Init, Types, States, Nothing, Never
<1>3. Stored /\ Reading
  BY <1>1 DEF Init, Stored, Reading, Fresh, Nothing, Never
<1> QED
  BY <1>2, <1>3 DEF IInv

LEMMA NextInv == IInv /\ [Next]_vars => IInv'
<1> SUFFICES ASSUME IInv, [Next]_vars PROVE IInv'
  OBVIOUS
<1>1. CASE UNCHANGED vars
  BY <1>1 DEF vars, IInv, Types, Stored, Reading, ReloadType, Fresh
<1>2. ASSUME NEW w \in Panels, NEW c \in Cores, NEW live \in BOOLEAN, Commit(w, c, live) PROVE IInv'
  <2>1. w \in Workers
    BY CoreAssumption
  <2> QED
    BY <1>2, <2>1, CommitStep
<1>3. ASSUME NEW r \in requests, ApplyLocal(r) PROVE IInv'
  BY <1>3, ApplyLocalStep
<1>4. ASSUME NEW r \in requests, Publish(r) \/ PublishFails(r) PROVE IInv'
  BY <1>4, DeliveryStep
<1>5. ASSUME NEW w \in Workers, Disconnect(w) PROVE IInv'
  BY <1>5, DeliveryStep
<1>6. ASSUME NEW w \in Workers, HandleCoreMessage(w) PROVE IInv'
  BY <1>6, HandleStep
<1>7. ASSUME NEW w \in Workers, Reload(w) PROVE IInv'
  BY <1>7, ReloadStep, InstallStep DEF Reload
<1> QED
  BY <1>1, <1>2, <1>3, <1>4, <1>5, <1>6, <1>7 DEF Next

\* A reload that raced an update, or another reload of the same worker, never
\* overwrites what is newer with what it read before (_reload_from_db and
\* _install_cores), for any number of workers, of reloads that overlap in a
\* worker, of cores, changes and attempts, and whatever messages are lost.
THEOREM ReloadsAreFresh == Spec => ReloadNeverStale
<1>1. Spec => []IInv
  BY InitInv, NextInv, PTL DEF Spec
<1>2. IInv /\ [Next]_vars =>
        [\A w \in Workers : \A k \in Callers[w] :
            InstallCores(w, k) => \A c \in Cores : reload[w][k].rows[c].n >= known[w][c]]_vars
  <2> SUFFICES ASSUME IInv, NEW w \in Workers, NEW k \in Callers[w], InstallCores(w, k), NEW c \in Cores
               PROVE  reload[w][k].rows[c].n >= known[w][c]
    OBVIOUS
  <2>1. reload[w][k] # NoReload /\ reload[w][k].step = "install" /\ ~reload[w][k].changed
    BY DEF InstallCores, MayInstall
  <2>2. reload[w][k] \in Reloads /\ known[w][c] \in Nat /\ Fresh(reload[w][k], w)
    BY <2>1 DEF IInv, Types, ReloadType, Reading
  <2>3. reload[w][k].rows[c].n \in Nat
    BY <2>2 DEF Reloads, States
  <2> QED
    BY <2>1, <2>2, <2>3 DEF Fresh
<1> QED
  BY <1>1, <1>2, PTL DEF Spec, ReloadNeverStale

============================================================================
