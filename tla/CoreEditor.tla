----------------------------- MODULE CoreEditor -----------------------------
(***************************************************************************)
(* The core editor of the dashboard: the store of the edited draft, the    *)
(* JSON editor that shows the same configuration as text, the page that    *)
(* loads a core, saves it and asks before it throws edits away.            *)
(*                                                                         *)
(* A draft is what the forms edit, a configuration what the server stores  *)
(* and what the JSON editor shows.  Importing a configuration gives a      *)
(* draft, persisting a draft gives a configuration; several configurations *)
(* import to one draft, some are rejected, and some texts are no JSON.     *)
(* Not every draft the forms can make has a configuration: generating that *)
(* of a Broken draft throws, and each caller has its way with the error.   *)
(***************************************************************************)
EXTENDS Naturals, FiniteSets, DashboardUser

CONSTANTS
  Core,        \* core ids
  FirstCore,   \* the cores stored at first, a function on a subset of Core
  Kind,        \* "xray", "wg" and the fork's kinds
  Name,        \* core names
  Blank,       \* the empty name
  Draft,       \* the drafts of each kind
  Config,      \* stored configurations
  Garbage,     \* a text that is not JSON
  Import,      \* the draft each kind reads in a configuration
  Rejected,    \* the configurations a kind's import refuses
  Persist,     \* the configuration of a draft
  Broken,      \* the drafts of which none can be generated
  Accepted,    \* the configurations the server accepts for a kind
  Filled,      \* what it may store for a configuration it is sent
  Invalid,     \* the drafts the pre-save validation refuses
  NewDraft,    \* the draft each kind starts with
  NewText,     \* the text shown with it
  MaxEdit,     \* bound on edits
  MaxSave,     \* bound on saves
  MaxMount,    \* bound on the times the page is opened
  MaxOtherSave \* bound on changes made by another administrator

JsonText == Config \cup {Garbage}
Content == [kind : Kind, name : Name \ {Blank}, tags : BOOLEAN, config : Config]

\* A configuration says a draft of kind k: it is the draft's own or is read as it.
Says(k, c, d) == Import[k][c] = d \/ (d \notin Broken /\ c = Persist[d])

ASSUME EditorAssumption ==
  /\ {MaxEdit, MaxSave, MaxMount, MaxOtherSave} \subseteq Nat
  /\ "xray" \in Kind /\ Blank \in Name
  /\ Garbage \notin Config
  /\ None \notin Core \cup JsonText \cup Content /\ {"list", "new"} \cap Core = {}
  /\ \E D \in SUBSET Core : FirstCore \in [D -> Content]
  /\ \A c \in Config : Filled[c] \subseteq Config
  /\ \A k \in Kind : /\ NewDraft[k] \in Draft[k] /\ None \notin Draft[k]
                     /\ NewText[k] \in Config
                     /\ NewDraft[k] \in Broken \/ Says(k, NewText[k], NewDraft[k])
                     /\ \A c \in Config : Import[k][c] \in Draft[k]
                     /\ \A d \in Draft[k] \ Broken : Persist[d] \in Config

VARIABLES
  cores,     \* the stored cores
  cache,     \* the answers of the core queries kept by the query client
  asked,     \* the core queries sent and not yet served
  answer,    \* the answers on their way
  failed,    \* the queries in the error state
  store,     \* useCoreEditorStore
  page,      \* what is on screen: [at, mount, ask]
  saveReqs,  \* saves in flight
  hook,      \* useCoreDraftMonacoSync: timers and the last draft it saw
  doubt,     \* whether the page was passed over by a change (see Doubts)
  edits, saves, otherSaves

editorVars == <<doubt, cores, cache, asked, answer, failed, store, page, saveReqs, hook,
                edits, saves, otherSaves>>

AllDrafts == UNION {Draft[k] : k \in Kind}

---------------------------------------------------------------------------
(* The store.                                                              *)

\* reset: the state before anything is loaded.
Reset ==
  [hydrated |-> FALSE, isNew |-> FALSE, coreId |-> None, name |-> Blank, kind |-> "xray",
   tags |-> FALSE, draft |-> None, baseline |-> None, advanced |-> FALSE, text |-> None,
   textDirty |-> FALSE, fingerprint |-> None, warned |-> FALSE, snap |-> None]

CaptureSnapshot(s) ==
  [s EXCEPT !.snap =
     [kind |-> s.kind, name |-> s.name, tags |-> s.tags, draft |-> s.draft,
      advanced |-> s.advanced, text |-> s.text, warned |-> s.warned,
      fingerprint |-> s.fingerprint]]

\* A draft just loaded or created: it is its own baseline and snapshot.
Hydrated(id, name, kind, tags, draft, text, advanced, fingerprint, warned) ==
  CaptureSnapshot(
    [hydrated |-> TRUE, isNew |-> id = None, coreId |-> id, name |-> name, kind |-> kind,
     tags |-> tags, draft |-> draft, baseline |-> draft, advanced |-> advanced, text |-> text,
     textDirty |-> FALSE, fingerprint |-> fingerprint, warned |-> warned, snap |-> None])

\* A WireGuard configuration that does not import opens a new draft and keeps
\* the raw text; an Xray configuration always imports, its errors unmentioned.
InitWireGuard(id, core, advanced) ==
  IF core.config \in Rejected["wg"]
  THEN Hydrated(id, core.name, "wg", FALSE, NewDraft["wg"], core.config, advanced, core.config, TRUE)
  ELSE LET d == Import["wg"][core.config]
       IN Hydrated(id, core.name, "wg", FALSE, d, Persist[d], advanced, core.config, FALSE)

InitXray(id, core, advanced) ==
  LET d == Import["xray"][core.config]
  IN Hydrated(id, core.name, "xray", core.tags, d, Persist[d], advanced, core.config, FALSE)

HydrateForkKind(id, core, advanced) ==
  LET d == Import[core.kind][core.config]
  IN IF core.config \in Rejected[core.kind]
     THEN Hydrated(id, core.name, core.kind, FALSE, NewDraft[core.kind], core.config, advanced,
                   core.config, TRUE)
     ELSE Hydrated(id, core.name, core.kind, FALSE, d, Persist[d], advanced, core.config, FALSE)

\* Nothing catches the error of a loaded draft that cannot be generated: the
\* page is unmounted, which resets the store.
Throws(core) ==
  /\ core.kind = "xray" \/ core.config \notin Rejected[core.kind]
  /\ Import[core.kind][core.config] \in Broken

\* Mutant of InitFromCore: the draft is not bound to the core it is read from.
InitFromCoreUnbound(s, id, core, preserveNavigation) ==
  IF Throws(core) THEN Reset
  ELSE CASE core.kind = "wg" -> InitWireGuard(None, core, FALSE)
         [] core.kind = "xray" -> InitXray(None, core, FALSE)
         [] OTHER -> HydrateForkKind(None, core, FALSE)

\* initFromCore; preserveNavigation keeps the open section of the same core.
InitFromCore(s, id, core, preserveNavigation) ==
  LET advanced == preserveNavigation /\ s.coreId = id /\ s.advanced
  IN IF Throws(core) THEN Reset
     ELSE CASE core.kind = "wg" -> InitWireGuard(id, core, advanced)
            [] core.kind = "xray" -> InitXray(id, core, advanced)
            [] OTHER -> HydrateForkKind(id, core, advanced)

InitNew(kind, name) ==
  Hydrated(None, name, kind, FALSE, NewDraft[kind], NewText[kind], FALSE, None, FALSE)

\* The forms write the draft, and the text follows at once, but keeps what it
\* was, typed or not, when the draft cannot be generated.
SyncMonacoFromDraft(s) ==
  IF s.draft = None \/ s.draft \in Broken THEN s ELSE [s EXCEPT !.text = Persist[s.draft], !.textDirty = FALSE]

\* Mutant of UpdateDraft: the text is not written again.
UpdateDraftOnly(s, d) == [s EXCEPT !.draft = d]

UpdateDraft(s, d) == SyncMonacoFromDraft([s EXCEPT !.draft = d])

\* applyMonacoJson: text that parses becomes the draft, other text is left.
ApplyMonacoJson(s) ==
  IF s.text = Garbage \/ s.text \in Rejected[s.kind] THEN s
  ELSE [s EXCEPT !.draft = Import[s.kind][s.text], !.textDirty = FALSE]

\* markClean takes whatever the store holds now for the saved content.
MarkClean(s) ==
  CaptureSnapshot(SyncMonacoFromDraft([s EXCEPT !.baseline = s.draft, !.textDirty = FALSE]))

DiscardDraft(s) ==
  IF s.snap = None \/ s.snap.draft = None THEN s
  ELSE [s EXCEPT !.kind = s.snap.kind, !.name = s.snap.name, !.tags = s.snap.tags,
                 !.draft = s.snap.draft, !.baseline = s.snap.draft, !.text = s.snap.text,
                 !.textDirty = FALSE, !.advanced = s.snap.advanced, !.warned = s.snap.warned,
                 !.fingerprint = s.snap.fingerprint]

\* switchKind starts a new draft, its own baseline; name and snapshot stay.
SwitchedKind(s, k) ==
  [s EXCEPT !.kind = k, !.tags = FALSE, !.draft = NewDraft[k], !.baseline = NewDraft[k],
            !.advanced = FALSE, !.text = NewText[k], !.textDirty = FALSE, !.warned = FALSE]

---------------------------------------------------------------------------
(* Whether there is anything to save.                                      *)

\* None stands for the error, which differs from every configuration and from
\* the error of the other draft.
CurrentConfig(s) ==
  IF s.textDirty THEN s.text ELSE IF s.draft \in Broken THEN None ELSE Persist[s.draft]
BaselineConfig(s) == IF s.baseline \in Broken THEN None ELSE Persist[s.baseline]

HasActualChanges(s) ==
  /\ s.hydrated
  /\ \/ s.kind # s.snap.kind
     \/ s.name # s.snap.name
     \/ s.tags # s.snap.tags
     \/ CurrentConfig(s) # BaselineConfig(s)
     \/ BaselineConfig(s) = None

---------------------------------------------------------------------------
(* The JSON editor's timers.  Its hook lives while the section is open.    *)

NoHook == [apply |-> FALSE, sync |-> FALSE, seen |-> None]

\* The hook after the store became s: new text arms or cancels the apply
\* timer, a draft it has not seen arms the sync timer.
Follow(h, s) ==
  IF ~s.advanced THEN NoHook
  ELSE IF ~store.advanced THEN [NoHook EXCEPT !.apply = s.textDirty]
  ELSE [apply |-> IF s.text # store.text \/ s.textDirty # store.textDirty
                  THEN s.textDirty ELSE h.apply,
        sync  |-> h.sync \/ (s # store /\ s.draft # h.seen /\ ~s.textDirty),
        seen  |-> IF s = store THEN h.seen ELSE s.draft]

SetStore(s) == store' = s /\ hook' = Follow(hook, s)

---------------------------------------------------------------------------
(* The page.                                                               *)

List == "list"
New == "new"

EditorInit ==
  /\ cores = FirstCore
  /\ cache = [c \in Core |-> None]
  /\ asked = {} /\ answer = [c \in Core |-> None]
  /\ failed = {}
  /\ store = Reset
  /\ page = [at |-> List, mount |-> 0, ask |-> FALSE]
  /\ saveReqs = {}
  /\ hook = NoHook
  /\ doubt = FALSE
  /\ edits = 0 /\ saves = 0 /\ otherSaves = 0

\* The editor is on screen: neither loading, nor the error of a failed load.
OnScreen ==
  /\ store.hydrated
  /\ \/ page.at = New
     \/ page.at \in Core /\ cache[page.at] # None /\ page.at \notin failed

Saving == \E r \in saveReqs : r.mount = page.mount

\* The page of a core that is at hand and could not be loaded: its error was
\* not caught, and nothing but leaving it helps.
Dead == page.at \in Core /\ cache[page.at] # None /\ ~store.hydrated

\* Mutant of LoadEffect: only another core is loaded.
LoadEffectOnce(s, c, core) == IF s.coreId # c THEN InitFromCore(s, c, core, FALSE) ELSE s

\* What the load effect does with the core at hand.
LoadEffect(s, c, core) ==
  IF s.coreId # c THEN InitFromCore(s, c, core, FALSE)
  ELSE IF s.hydrated /\ ~HasActualChanges(s) /\ ~s.isNew /\ s.fingerprint # core.config
  THEN InitFromCore(s, c, core, TRUE)
  ELSE s

\* Doubts (history): what leaves the page with content it takes for saved and the
\* server does not hold.  A save that succeeds marks clean what was not sent with
\* it, was sent before the page was left and opened again, or came back from the
\* server as what the page had read before and will not read again;
MarksUnsent(r) ==
  IF r.mount = page.mount
  THEN \/ store.kind # r.body.kind
       \/ store.draft \in Broken
       \/ Persist[store.draft] # r.body.config
       \/ /\ cores[r.target].config # r.body.config
          /\ cores[r.target].config \in {store.fingerprint, cache[r.target].config}
  ELSE \/ page.at = r.target
       \/ store.kind # store.snap.kind
       \/ store.draft # store.baseline

\* an answer was read before a later change of the core, or finds edits made to
\* another version, which it does not replace.
Overtaken(c) ==
  \/ answer[c] # cores[c]
  \/ /\ store.hydrated /\ HasActualChanges(store) /\ ~store.snap.warned
     /\ ~Says(store.snap.kind, answer[c].config, store.snap.draft)

\* The page is mounted for a core: the previous one reset the store, a cached
\* core is shown at once and fetched again.
Mount(c) ==
  /\ page' = [at |-> c, mount |-> page.mount + 1, ask |-> FALSE]
  /\ store' = IF cache[c] = None THEN Reset ELSE LoadEffect(Reset, c, cache[c])
  /\ hook' = NoHook
  /\ doubt' = FALSE
  /\ asked' = IF answer[c] = None THEN asked \cup {c} ELSE asked
  /\ answer' = answer
  /\ failed' = IF cache[c] = None THEN failed \ {c} ELSE failed

OpenCore(c) ==
  /\ page.at = List /\ page.mount < MaxMount /\ c \in DOMAIN cores
  /\ Mount(c)
  /\ UNCHANGED <<cores, cache, saveReqs, edits, saves, otherSaves>>

OpenNew(k) ==
  /\ page.at = List /\ page.mount < MaxMount
  /\ page' = [at |-> New, mount |-> page.mount + 1, ask |-> FALSE]
  /\ store' = InitNew(k, Blank) /\ hook' = NoHook
  /\ doubt' = FALSE
  /\ UNCHANGED <<cores, cache, asked, answer, failed, saveReqs, edits, saves,
                 otherSaves>>

\* The edits.  None is disabled while a save or a fetch is in flight.  (A doubt:
\* the kind that was loaded is chosen again, with a new draft for its baseline.)
Edit(s) ==
  /\ OnScreen /\ ~page.ask /\ edits < MaxEdit
  /\ edits' = edits + 1
  /\ SetStore(s)
  /\ doubt' = (doubt \/ (s.kind # store.kind /\ s.kind = store.snap.kind))
  /\ UNCHANGED <<cores, cache, asked, answer, failed, page, saveReqs, saves, otherSaves>>

SetCoreName(n) == n # store.name /\ Edit([store EXCEPT !.name = n])

SetTags == store.kind = "xray" /\ Edit([store EXCEPT !.tags = ~@])

EditForm(d) ==
  /\ d \in Draft[store.kind] /\ d # store.draft /\ ~store.advanced
  /\ Edit(UpdateDraft(store, d))

TypeJson(t) ==
  /\ store.advanced /\ t # store.text
  /\ Edit([store EXCEPT !.text = t, !.textDirty = TRUE])

\* On a new core the kind is in the address and the draft starts over.
SelectKind(k) ==
  /\ OnScreen /\ k # store.kind
  /\ IF page.at = New THEN Edit(InitNew(k, store.name))
     ELSE Edit(SwitchedKind(store, k))

SetActiveSection ==
  /\ OnScreen /\ ~page.ask
  /\ SetStore([store EXCEPT !.advanced = ~@])
  /\ UNCHANGED <<doubt, cores, cache, asked, answer, failed, page, saveReqs, edits,
                 saves, otherSaves>>

Discard ==
  /\ OnScreen /\ ~page.ask /\ HasActualChanges(store) /\ ~Saving
  /\ SetStore(DiscardDraft(store))
  /\ UNCHANGED <<doubt, cores, cache, asked, answer, failed, page, saveReqs, edits,
                 saves, otherSaves>>

\* debouncedApplyFromMonaco, debouncedSync
ApplyTimer ==
  /\ hook.apply /\ store.advanced
  /\ LET s == IF store.textDirty THEN ApplyMonacoJson(store) ELSE store
     IN store' = s /\ hook' = Follow([hook EXCEPT !.apply = FALSE], s)
  /\ UNCHANGED <<doubt, cores, cache, asked, answer, failed, page, saveReqs, edits,
                 saves, otherSaves>>

SyncTimer ==
  /\ hook.sync /\ store.advanced
  /\ LET s == IF store.textDirty THEN store ELSE SyncMonacoFromDraft(store)
     IN store' = s /\ hook' = Follow([hook EXCEPT !.sync = FALSE], s)
  /\ UNCHANGED <<doubt, cores, cache, asked, answer, failed, page, saveReqs, edits,
                 saves, otherSaves>>

\* Back, and the links of the shell, which ask nothing.
Leave ==
  /\ page' = [page EXCEPT !.at = List, !.ask = FALSE]
  /\ store' = Reset /\ hook' = NoHook
  /\ doubt' = FALSE
  /\ UNCHANGED <<cores, cache, asked, answer, failed, saveReqs, edits, saves,
                 otherSaves>>

HandleBack ==
  /\ OnScreen /\ ~page.ask /\ HasActualChanges(store)
  /\ page' = [page EXCEPT !.ask = TRUE]
  /\ UNCHANGED <<doubt, cores, cache, asked, answer, failed, store, saveReqs, hook,
                 edits, saves, otherSaves>>

StayOnPage ==
  /\ page.ask
  /\ page' = [page EXCEPT !.ask = FALSE]
  /\ UNCHANGED <<doubt, cores, cache, asked, answer, failed, store, saveReqs, hook,
                 edits, saves, otherSaves>>

LeavePage == page.at # List /\ Leave

\* handleSave: the draft goes out, not the text; drafts other than Xray's are
\* validated first, and none goes out that cannot be generated.
HandleSave ==
  /\ OnScreen /\ ~page.ask /\ ~Saving /\ saves < MaxSave
  /\ store.isNew \/ HasActualChanges(store)
  /\ store.name # Blank
  /\ store.kind # "xray" => store.draft \notin Invalid
  /\ store.draft \notin Broken
  /\ saves' = saves + 1
  /\ saveReqs' = saveReqs \cup
       {[id |-> saves + 1, mount |-> page.mount, target |-> page.at, from |-> store.coreId,
         phase |-> "sent", stored |-> None,
         body |-> [kind |-> store.kind, name |-> store.name,
                   tags |-> store.kind = "xray" /\ store.tags, config |-> Persist[store.draft]]]}
  /\ UNCHANGED <<doubt, cores, cache, asked, answer, failed, store, page, hook,
                 edits, otherSaves>>

\* modify_core and create_core: an L2TP configuration without a key is given one,
\* a valid one is stored under the core's id or a new one.  (A doubt: a save from
\* before the page was opened again changes the core under it.)
ServerStores(r) ==
  /\ r.phase = "sent"
  /\ \E c \in IF r.target = New THEN Core \ DOMAIN cores ELSE {r.target},
        cfg \in Filled[r.body.config] \cap Accepted[r.body.kind] :
       /\ cores' = [d \in DOMAIN cores \cup {c} |->
                      IF d = c THEN [r.body EXCEPT !.config = cfg] ELSE cores[d]]
       /\ saveReqs' = (saveReqs \ {r}) \cup {[r EXCEPT !.phase = "stored", !.stored = c]}
  /\ doubt' = (doubt \/ (page.at = r.target /\ r.mount # page.mount))
  /\ UNCHANGED <<cache, asked, answer, failed, store, page, hook, edits, saves, otherSaves>>

\* An error: the server refused the configuration, or stored it and failed in a
\* later step, or its answer was lost.  (A doubt: the page goes on as if the core
\* had not changed.)
SaveFails(r) ==
  /\ saveReqs' = saveReqs \ {r}
  /\ doubt' = (doubt \/ (r.phase = "stored" /\ page.at = r.target))
  /\ UNCHANGED <<cores, cache, asked, answer, failed, store, page, hook,
                 edits, saves, otherSaves>>

\* The rest of handleSave after the answer, on whatever page is open now:
\* the store is marked clean, the queries are invalidated; a created core is
\* opened.
SaveModified(r) ==
  /\ r.phase = "stored" /\ r.target # New
  /\ saveReqs' = saveReqs \ {r}
  /\ SetStore(MarkClean(store))
  /\ doubt' = (doubt \/ (store.hydrated /\ MarksUnsent(r)))
  /\ IF page.at = r.target
     THEN asked' = asked \cup {r.target} /\ answer' = [answer EXCEPT ![r.target] = None]
     ELSE UNCHANGED <<asked, answer>>
  /\ UNCHANGED <<cores, cache, failed, page, edits, saves, otherSaves>>

SaveCreated(r) ==
  /\ r.phase = "stored" /\ r.target = New
  /\ saveReqs' = saveReqs \ {r}
  /\ Mount(r.stored)
  /\ UNCHANGED <<cores, cache, edits, saves, otherSaves>>

\* The core query: the server answers with what it holds, the answer reaches
\* the cache and, when it changed, the load effect of the open page.
CoreRead(c) ==
  /\ c \in asked /\ c \in DOMAIN cores
  /\ asked' = asked \ {c}
  /\ answer' = [answer EXCEPT ![c] = cores[c]]
  /\ UNCHANGED <<doubt, cores, cache, failed, store, page, saveReqs, hook,
                 edits, saves, otherSaves>>

CoreAnswer(c) ==
  /\ answer[c] # None
  /\ answer' = [answer EXCEPT ![c] = None]
  /\ cache' = [cache EXCEPT ![c] = answer[c]]
  /\ failed' = failed \ {c}
  /\ IF page.at = c /\ cache[c] # answer[c] /\ ~Dead
     THEN SetStore(LoadEffect(store, c, answer[c]))
     ELSE UNCHANGED <<store, hook>>
  /\ doubt' = (doubt \/ (page.at = c /\ Overtaken(c)))
  /\ UNCHANGED <<cores, asked, page, saveReqs, edits, saves, otherSaves>>

CoreFails(c) ==
  /\ c \in asked
  /\ asked' = asked \ {c}
  /\ failed' = failed \cup {c}
  /\ UNCHANGED <<doubt, cores, cache, answer, store, page, saveReqs, hook,
                 edits, saves, otherSaves>>

\* Another administrator saves the core, under an open page it may be.
OtherSaves(c, cfg) ==
  /\ otherSaves < MaxOtherSave /\ c \in DOMAIN cores
  /\ cfg \in Accepted[cores[c].kind] /\ cfg # cores[c].config
  /\ otherSaves' = otherSaves + 1
  /\ cores' = [cores EXCEPT ![c].config = cfg]
  /\ doubt' = (doubt \/ page.at = c)
  /\ UNCHANGED <<cache, asked, answer, failed, store, page, saveReqs, hook, edits,
                 saves>>

EditorNext ==
  \/ \E c \in Core : OpenCore(c) \/ CoreRead(c) \/ CoreAnswer(c) \/ CoreFails(c)
  \/ \E k \in Kind : OpenNew(k) \/ SelectKind(k)
  \/ \E n \in Name : SetCoreName(n)
  \/ SetTags
  \/ \E d \in AllDrafts : EditForm(d)
  \/ \E t \in JsonText : TypeJson(t)
  \/ SetActiveSection \/ Discard \/ ApplyTimer \/ SyncTimer
  \/ HandleBack \/ StayOnPage \/ LeavePage
  \/ HandleSave
  \/ \E r \in saveReqs : ServerStores(r) \/ SaveFails(r) \/ SaveModified(r) \/ SaveCreated(r)
  \/ \E c \in Core, cfg \in Config : OtherSaves(c, cfg)

EditorSpec == EditorInit /\ [][EditorNext]_editorVars

---------------------------------------------------------------------------
(* Properties.                                                             *)

SnapshotType ==
  [kind : Kind, name : Name, tags : BOOLEAN, draft : AllDrafts \cup {None}, advanced : BOOLEAN,
   text : JsonText \cup {None}, warned : BOOLEAN, fingerprint : Config \cup {None}]

StoreType ==
  [hydrated : BOOLEAN, isNew : BOOLEAN, coreId : Core \cup {None}, name : Name, kind : Kind,
   tags : BOOLEAN, draft : AllDrafts \cup {None}, baseline : AllDrafts \cup {None},
   advanced : BOOLEAN, text : JsonText \cup {None}, textDirty : BOOLEAN,
   fingerprint : Config \cup {None}, warned : BOOLEAN, snap : SnapshotType \cup {None}]

RequestType ==
  [id : 1..MaxSave, mount : Nat, target : Core \cup {New}, from : Core \cup {None},
   phase : {"sent", "stored"}, stored : Core \cup {None}, body : Content]

\* Every variable has its type; a loaded store has a snapshot and a draft of
\* its kind, so that hasActualChanges and discardDraft always have something
\* to compare with and to go back to.
EditorTypeOK ==
  /\ \E D \in SUBSET Core : cores \in [D -> Content]
  /\ cache \in [Core -> Content \cup {None}]
  /\ asked \subseteq Core /\ answer \in [Core -> Content \cup {None}]
  /\ failed \subseteq Core
  /\ store \in StoreType
  /\ store.hydrated => /\ store.snap \in SnapshotType
                       /\ {store.draft, store.baseline} \subseteq Draft[store.kind]
                       /\ store.snap.draft \in Draft[store.snap.kind]
  /\ page \in [at : Core \cup {List, New}, mount : Nat, ask : BOOLEAN]
  /\ saveReqs \subseteq RequestType
  /\ hook \in [apply : BOOLEAN, sync : BOOLEAN, seen : AllDrafts \cup {None}]
  /\ doubt \in BOOLEAN /\ edits \in 0..MaxEdit /\ saves \in 0..MaxSave /\ otherSaves \in 0..MaxOtherSave

\* A save writes a core with the draft that was loaded from that core, and a
\* creation sends a draft that was loaded from none, whatever was open before
\* and whichever answer came late.
OwnConfig ==
  \A r \in saveReqs : r.from = IF r.target = New THEN None ELSE r.target

\* The text of the JSON editor says the draft the forms show, in every order of
\* form edits, typing, section changes, saves and timers.  The store makes three
\* exceptions: text typed and not yet applied, the raw text of a configuration
\* rejected at load, and a draft that cannot be generated, beside which the text
\* of an earlier one stays.
TextMeansDraft ==
  store.hydrated /\ ~store.textDirty /\ ~store.warned /\ store.draft \notin Broken =>
    Says(store.kind, store.text, store.draft)

\* Nothing is in flight and the page of a core says there is nothing to save.
SaysSaved ==
  /\ saveReqs = {} /\ asked = {} /\ answer = [c \in Core |-> None]
  /\ OnScreen /\ page.at \in Core
  /\ ~HasActualChanges(store) /\ ~store.warned

\* When the page says that all changes are saved, the configuration it shows is
\* that of a draft the stored configuration says: no edit was taken for saved that
\* the server never saw, and no change of the server was missed, but for those
\* the code has no way to notice (Doubts).
SavedMeansStored ==
  ~doubt /\ SaysSaved =>
    \E d \in Draft[store.kind] \ Broken : /\ CurrentConfig(store) = Persist[d]
                                          /\ Says(store.kind, cores[page.at].config, d)
=============================================================================
