# Verification of the panel's coordination protocols

The panel manages proxy nodes and the users that connect through them. Most of
its code is request handlers, forms and configuration text, which hold no
concurrent state. What can go wrong between two lines of code is in a few
protocols: how traffic is billed exactly once over an unreliable network and
database, which of several workers runs the scheduled jobs, how a changed user
reaches every node, who may start or stop a node, what survives a restart, how
caches follow the database, and how the dashboard's editor, search and table
stay true to the server while answers come late. This directory models those
protocols in TLA+, checks them with TLC on small instances and proves the main
invariants of seven of them with TLAPS for every instance.

Contents: 1 Inventory. 2 Modules. 3 The back end. 4 The dashboard. 5 Runs.
6 Proofs. 7 What the checks found. 8 What is not modelled. 9 Plan.

## 1 Inventory

`PROJECT.json` lists every component with its sources and status, and every
hazard with the line where it bites and the properties that watch it.

| Component | State it keeps | Operations | What is hard | Correct if |
|---|---|---|---|---|
| Usage recorder (`jobs/record_usages.py`, `fork/jobs/stat_batches.py`) | acknowledgement rows, retained cohorts and known epochs in memory, the users' `used_traffic` and `usage_epoch` | tick: persist retained cohorts, load and claim acknowledgements, poll nodes, persist cohorts, settle | a read empties the node's counters; answers lost, commits in doubt, crashes, node restarts, resets in between, two recorders at once | nothing is billed twice, forgotten, or carried over a reset |
| Job leader (`nats/leader.py`, `nats/kv_cas.py`, hooks in `app_factory.py`) | lease document in a key-value bucket; token, heartbeat and reclaim tasks; the scheduler's state | acquire, renew, concede, reclaim, release | a write lands although its reply is lost, or lands late; time spent in requests; closed clients; shutdown in the middle | one scheduler runs at a time, and in the end one does |
| User synchronisation queue (`node/nats_memory.py`, `node/bridge.py`, `node/sync.py`, `node/__init__.py`) | a document per node and user with revision and claim; refresh markers; the full-sync fence | enqueue, claim, acknowledge, requeue, refresh, capture, push, retire | an edit during delivery, an expired claim, a snapshot that races the queue | every node ends with every user's latest state |
| Node lifecycle coordinator (`node/nats_memory.py`, `operation/node.py`) | desired and observed state per node, lease with an epoch | acquire, heartbeat, release, report, clear | a holder that lost its lease reports late | one operator, and a report of an older epoch is refused |
| Notifications (`notification/*`, `fork/notification_spool.py`) | queue, spool files | enqueue, deliver, spool, restore | death during a restore | each is sent, still stored, or reported as lost |
| Message router and caches (`nats/router.py`, `core/manager.py`, `nats/kv_index.py`) | cores of each worker, generations | publish, apply, resynchronise, reload | lost messages; a reload that overtakes an update | caches converge to the database |
| Proxy secret claims (`fork/proxy_secrets/*`) | claim rows | claim, retire, check | two claims at once | a secret belongs to one user for ever |
| Dashboard: core editor (`features/core-editor`) | draft, baseline, snapshot, text, query cache | load, edit, type, save, discard, leave | late answers, timers, edits during a save | what the page calls saved is stored |
| Dashboard: users search and table (`features/users`, `utils/usersCache`) | filters, debounced text, page in the cache, selected rows, dialogs | type, resolve, fetch, patch, select, bulk actions | answers and timers out of order, rows that leave the screen | the filter is what the box says, a bulk action hits what is seen, the patched page is what the server would send |
| Node health and status, node worker and RPC | node status rows | check, restart, report, dispatch | a check racing a restart | the lifecycle coordinator decides |
| User status review | user rows | expire, limit, start next plan | edits between read and write | status agrees with usage at the commit |
| Connection limiter, content filter, traffic log, subscription buffer | counters and buffers | score, push, append, flush | best effort by design | bounded memory, at most one flush lost |
| API, subscription text, bot, other dashboard pages, migrations, CLI | the database, forms | handlers, dialogs and scripts | no protocol of their own | not in scope of a model checker |

## 2 Modules

| Module | Role |
|---|---|
| `UsageRecorder` | node processes, acknowledgement rows, usage epochs and one or more recorder processes |
| `LeaderElection`, `SingleRunner` | the election; and what it promises: at most one runner, with a moment without any between two |
| `UserSyncQueue` | the queued document of a user on a node, its deliveries and the full snapshots |
| `NodeLifecycle` | the shared lifecycle document of a node |
| `NotificationSpool` | the notification queue across restarts |
| `CoreManager` | the cores in the memory of every worker |
| `ProxySecretClaims` | the claim rows of secrets under concurrent flushes |
| `CoreEditor`, `UsersSearch`, `UsersTable` | the dashboard's editor, search and table |
| `DashboardUser` | what these three share: a value that is none, and the habits of whoever uses them |
| `MC*` and their `.cfg` | the instances TLC checks |
| `UsageRecorder_proofs`, `LeaderElection_proofs`, `UserSyncQueue_proofs`, `NodeLifecycle_proofs`, `ProxySecretClaims_proofs`, `NotificationSpool_proofs`, `CoreManager_proofs`, `Dashboard_proofs` | inductive invariants and theorems |

`LeaderElection` implements `SingleRunner` (refinement mapping: the runners are
the workers whose scheduler runs on a lease in time). `UsageRecorder` does not build on it: it is
checked with one recorder, and also with two that overlap, because a deposed
leader's tick is shielded from cancellation and may outlive its leadership.
`MCDashboard` puts the three dashboard modules side by side, one page open at a
time, so that one run checks them; they share no state.

Definitions named "Mutant of ..." are deliberately wrong variants of the next
definition. No specification uses them; each shows that a property notices the
bug it describes.

## 3 The back end

### UsageRecorder

**State.** A node process has `counters`, a boot number (its random epoch), the
number of its last batch and `heldBatch`. Node ids reach processes through
`procOf`; two ids may reach one process. The database has the rows of
`node_stat_acks` (`row`, `rowNode`, one per epoch, and the `claim:<id>` rows of
first contact), `usageEpoch` and the existing `users`. Traffic is a set of
indivisible chunks, so `bills` counts how often each was added to
`used_traffic`. A recorder has its tick's step `pc`, the usage epochs and
acknowledgements it read, a poll per node, `epochByNode`, the `retained`
cohorts and the cohort being persisted.

| Action | Code |
|---|---|
| `TickStart`, `TickEnd`, `TakeRetained` | the job's guard, snapshot of usage epochs, retained cohorts, end |
| `LoadAcks`, `LoadAcksFails` | `load_acks` and the claim of first contacts, in one transaction |
| `PollSend`, `PollAnswered`, `PollAnswerLost`, `PollRequestLost` | the poll task of a node |
| `PollServed`, `Restart` | the node process (external) |
| `TakeCohort`, `SettleCollection` | `_drain_node_collection`, `_settle_collection` |
| `PersistStale`, `PersistCommit`, `PersistFails`, `PersistInDoubt` | `settle_batches`, `apply_fenced_user_usage` and their failures |
| `Crash`, `ResetUsage`, `DeleteUser`, `EditNode`, `Traffic` | the process dies; operator and users |

**Choices.** One statistic type stands for all: rows and claims are per type and
never meet. A flush at shutdown is a tick with no healthy node, followed by
`Crash`. A request served after its poll timed out, and a cancelled persistence
task that commits later, are not modelled. `EditNode` waits for outstanding
reads of that id. The node process is not in this repository; it is modelled
from the two-phase protocol as the recorder and the test double `TwoPhaseNode`
of `tests/test_recorder_two_phase_drain.py` use it. A node keeps a held batch
over a reset of the user and the recorder bills it to the period in which it
reads it again, so `BilledInThePeriodRead` speaks of legacy nodes, whose traffic
the panel holds itself. `lost` collects what the code gives up on purpose: a
legacy answer that never arrives, a write in doubt, a cohort at its retry
limit, memory at a crash, a batch a node did not save.

### LeaderElection

**State.** `doc` is the lease: its last writer, whether that worker still
remembers the token it wrote, and the time until it expires. `pending` is a
conditional write on its way; its guard says whether the revision it is based
on is still the current one. Every worker has one coroutine that takes part
(`task`: startup, heartbeat or reclaim), its step and its timer `left`; the
locals of an attempt; `failures`, `isLeader`, the scheduler, the client and the
progress of a shutdown. Time is discrete and relative, every timer counts down,
and `Tick` cannot pass a due timer. The workers read one clock.

| Action | Code |
|---|---|
| `Boot`, `EnsureKv`, `EnsureKvFails` | `start_job_leader`, `try_become_leader` up to the first write |
| `CasReply`, `CasError`, `ReadBack`, `ReadBackFails` | `kv_cas_json` and `_cas_write_landed` |
| `ServerApplies`, `ClientCloses` | the key-value server and the connection (external) |
| `ReadToSteal`, `ReadToRenew`, `ReadFails` | the reads of `try_become_leader` and of the heartbeat |
| `BeatWake`, `ReclaimWake`, `PauseJobs` | the sleeps; `_pause_jobs_on_leadership_lost` |
| `StopBegin`, `Release`, `Exit`, `Crash` | `_stop_scheduler_and_leader`, `stop_job_leader`, the end of the process |

**Choices.** Requests of one connection keep their order, so a new write of a
worker replaces an older one on its way. Winning and resuming the jobs are one
step. With `needs_job_leader` false every worker is trivially a leader; that
case is left out.

**Times.** The module says nothing of how the lease, the heartbeat interval, the
retries, the time a request takes and that of a shutdown are related, because
the code does not make them fit: the lease is 15 s, the heartbeat 5 s, three
attempts 1 s apart, and a request to the bucket may take seconds
(`leader.py:25-30`); a shutdown may take 7.25 s (`lifecycle.py:10`), longer than
the 5 s after which a reclaim loop wakes. So the properties are what holds for
all such times. `until` is a history variable, the time until the lease a
worker last wrote ends, negative once it is over:

- `JobsRunAlone`: the schedulers on a lease in time are those of a `SingleRunner`;
- `ConcedesByThen`: a worker out of touch concedes, and pauses its jobs, at most
  `WorstCase` after its last renewal began: five requests to win the lease, one
  interval, `MaxRetries` rounds of three requests with their delays, and the stop
  of the dispatcher. Two schedulers run at once for at most `WorstCase - Lease`;
- `ConcedesInTime`, what the comment at `leader.py:29` says, does not hold
  (section 7);
- `StoppedForInterval`: a worker that shuts down runs no scheduler for the first
  interval of its shutdown. After that it may: leadership lost during the drain
  starts a reclaim loop, which can win before the process ends;
- `SomeoneRuns`: some worker runs the jobs again and again, unless the reclaim
  loop of every worker was ended by an exception out of `_ensure_kv` (`GaveUp`;
  `app_factory.py:285-293` catches nothing). Nothing in the code starts it again.

### UserSyncQueue

**State.** `db` and `node` are the version of the user in the database and on
the node; `dispatch` holds the changes whose asyncio task has still to queue
them. `doc` is the document `p.<node>.<user>` with its revision, claim id,
whether the claim is in time, and whether it is a refresh marker. `worker` is
the delivery worker of each panel, `fence` the document of the full
synchronisation, `sync` the `sync_full` of each panel.

| Action | Code |
|---|---|
| `Commit`, `Enqueue`, `EnqueueFails` | `sync_user`, `_enqueue_one`, the logged failure in `_update_users` |
| `CheckFence`, `Claim`, `NothingToClaim`, `ReadState`, `Send`, `SendFails` | `_fence_state`, `claim_users`, `_current_state`, the RPC and its deadline |
| `CompareGeneration`, `Ack`, `AckFails`, `Requeue`, `RefreshClaimed`, `RequestRefresh` | what follows a delivery in the bridge and in the store |
| `ClaimExpires`, `FenceExpires`, `HoldLost` | leases that end |
| `Begin`, `Capture`, `ReadUsers`, `Push`, `PushLands`, `PushFails`, `Retire`, `End` | `sync_full` inside `full_sync_fence` |
| `Crash` | a panel dies with its delivery and its snapshot |

**Choices.** Users only meet in the snapshot, so one user on one node is
followed. The queued payload is left out: `_current_state` reads the database
again before anything is sent. Revisions are only compared, so a write takes one
that nobody remembers out of a pool that is large enough (`Fresh`; that the pool
never runs dry is lemma `FreshIsFresh`). Two rules come from the deadlines the
code sets and not from a guard: a claim expires only after its owner's RPC
ended (`_within_delivery_deadline`; the comment at `node/__init__.py:66`), and a
snapshot lands only while its fence is held (its loss cancels the RPC). The
worker loop itself is in the bridge package and external. The docstring at
`nats_memory.py:109` says that an enqueue replaces a claim in flight; the code,
its comment at 217-223 and the tests keep the claim, and so does `Enqueued`.

### NodeLifecycle

Every operation of `NatsNodeLifecycleCoordinator` reads the document with its
revision and writes the next one if the revision is still that one. Read and
write are two steps (`TryAcquire`, `Release`, `Heartbeat`, `UpdateObserved`,
then `CasLands`, `CasFails`, or `CasLandsUnknown` when the write lands and its
answer is lost). `GetState` is what the health check reads before it reports,
`LeaseLost` a holder that finds its lease gone, `Clear` the removal of the node,
`Tick` the clock. The lease is the shared one: a worker that stops for longer
than the lease is covered, because nothing bounds the time between its steps.

### NotificationSpool

`Stop` and `Persist` drain the queue into a spool file, `Start` and `Claim`
rename a file and read it, `Requeue` puts its entries back one by one,
`RestoredFile` removes it, `RequeueFails` writes back what the queue refused,
`Quarantine` sets an unreadable file aside, and `Crash` may come between any two
steps. `multi` is chosen at first: with several workers a start leaves files
another process may own. The broker-backed queue is not modelled.

### CoreManager

A request commits (`Commit`), changes its own worker (`ApplyLocal`) and tells
the others (`Publish`, which may fail); `HandleCoreMessage` applies what
arrives; `StartReload`, `ReadDatabase`, `InstallCores` and `InstallRefused` are
`_reload_from_db` with its generation check and its attempts; `Disconnect` loses
messages. A configuration is the number of its commit.

Reloads of one worker overlap: the router's resync, a job (`jobs/inbound.py:12`),
the node worker before it connects or syncs (`node/worker.py:175`, 184, 211) and
a message that cannot be read each start one and do not know of the others.
`Callers` are the ones of each worker, `Panels` the workers that serve
requests. Instead of the number `_generation` each reload has a flag that says
whether the number changed since the reload noted it; every update, every
removal that finds something and every installation (`manager.py:107`) sets the
flag of all reloads of the worker. Without the last one an older reload could
replace what a later one installed: that is the mutant of `ReloadNeverStale`.

`Converges` rests on the periodic resync of the router. The docstring at
`manager.py:200-202`, that a lost invalidation leaves other workers stale "until
their next restart", is older than that resync (`router.py:81`) and describes
what would happen without it.

### ProxySecretClaims

`Flush` opens the changes of one transaction, `ActiveClaims` locks the users'
active rows, `InsertMissing` inserts and locks the wanted ones, and `Commit`,
`ClaimConflict` or `Rollback` end it; `DeleteUser` is the foreign key's effect.
Row locks, unique keys and ON DELETE SET NULL belong to the database and are
external. Kinds of secrets are independent, so one is modelled.

## 4 The dashboard

React runs the effects of a change before the next event, so an action is an
event together with the effects that follow it. Requests, their answers,
refetches and timers are actions of their own and come in any order.

**UsersTable** has the fetched page and the placeholder shown meanwhile, the
patches of `usersCache` after each mutation, the selection in the table and in
the page, bulk dialogs, the edit dialog with its closing timer, and another
administrator who changes users meanwhile. Rows hidden behind skeleton rows are
not on screen (`Visible`). The server's part is `get_users` with its filters
(`db/crud/user.py`) and the operations on users (`operation/user.py`): a mutation
may be refused, or be committed and still be answered with an error
(`RequestFails`). Count and rows of a page are read in one step, and a bulk
deletion commits all its users at once, where the code commits chunks; the
header that selects all rows is left out.

`sure` is a history variable: it holds `"data"` from the answer of a fetch that
no mutation met until the page misses something, by another administrator's
change, by mutations that meet each other or a fetch, by an error after the
commit, by a bulk change not yet fetched, or by a user that is not on the page.
In these cases the code leaves the page stale until the next such fetch
(section 7); `CacheMeansServer` says that in all others it does not, and that a
fetch puts it right.

The table has two habits, fixed in `Init` by `Habits`: to confirm a bulk action
while no table is shown (`"empty"`) or a loading one (`"loading"`). Both violate
`BulkHitsVisible` and are the findings of section 7; `dashboard` checks the rest.

**UsersSearch** has the box, its debounce timer, the resolution of a pasted
subscription address, the ids chip, the advanced search and the address bar,
which all write the search part of the filters. It starts from any address bar,
and an address bar may name ids beside a search, which the code sets beside it
(`users-table.tsx:535-537`). The answer for an address may name nobody
(`filters.tsx:247`). The return before it, `if (!infoUrl)` (242), is unreachable:
only a text that begins with `https://` gets there, and from such a text
`resolveSubscriptionPanelBaseUrl` makes an address that is never empty. An
address bar with both `is_id` and `is_protocol`, which the dashboard never
writes, is left out.

`lost` is a history variable: the text in the box was given up. That happens
when the ignore flag that a clear left behind swallows it; when it is another
writing of the ids searched for, or no id where there are none; when it is the
hidden one of two searches an address bar had named (`GivenUp`); and when the
answer to an address names nobody or no longer counts. `BoxMeansFilter` says
that nothing else gets lost, and that nothing stays lost once the search
changes.

**CoreEditor** has the store of the draft (`useCoreEditorStore`), the JSON
editor's text and its two timers, the page's load effect, save, discard and
guarded navigation, the query cache, the server and another administrator.
Drafts, configurations and texts are abstract values with an import and a
persist function: several configurations import to one draft, some are
rejected, and some texts are no JSON. The forms are edits of the draft. The
adapters of each kind (the kits) are these functions. They need not be total:
generating the configuration of a `Broken` draft throws (`wireguard-adapter.ts:76`,
`singbox-adapter.ts:294`), and every caller has its way with it: the text stays
as it is (`SyncMonacoFromDraft`), the draft counts as changed
(`HasActualChanges`), a save does not go out, and a load that nobody catches
unmounts the page (`Throws`, `Dead`). Nor need they be inverse to each other.

The server (`operation/core.py`) accepts some configurations (`Accepted`), may
store another than it was sent (`Filled`; `apply_l2tp_core_config` fills in a
missing key), and may fail after it has committed, which the page sees as a
failed save (`SaveFails`). `core_manager.validate_core` hands its input back
unchanged. A creation that fails after the commit leaves the page on the new
core, and a second save creates another one.

`doubt` is a history variable, the situations in which the page shows as saved
what the server does not hold and nothing in the code can notice it:

- a save that succeeds marks clean what was changed while it was on its way, or
  the edits of the page opened meanwhile, or a draft that the server stored
  differently and that the load effect takes for loaded (`MarksUnsent`);
- a save sent before the page was left is stored or fails under the page opened
  again, or a save is stored and answered with an error;
- an answer was read before a later change of the core, or finds edits that were
  made to another version and does not replace them (`Overtaken`);
- another administrator saves the core under the open page;
- the kind is switched away and back, which makes a new draft its own baseline.

Each is an interleaving the model has and `SavedMeansStored` excludes by name;
it holds in all others, and again after the page is left. The load effect
compares only configurations, so a change of name, tags or kind by another
administrator is not loaded.

## 5 Runs

| Run | Module, cfg | States | Shows |
|---|---|---|---|
| `usage` | `MCUsageRecorder`, `MCUsageRecorderFaults.cfg` | 513 k | one recorder, a two-phase and a legacy node, one fault of any kind and a reset: `BilledOnce`, `AllConserved`, `OneRowPerNode`, `BilledInThePeriodRead`, and in the end everything is settled (`Settles`) |
| `usage_overlap` | `MCUsageRecorder`, `MCUsageRecorderOverlap.cfg` | 1.6 M | two recorders at once: `NoDoubleBilling`, `EmptyAckOnce` |
| `leader` | `MCLeaderElection` | @leader@ | two workers, two faults of any kind, requests as slow as their timeout allows: `JobsRunAlone` (refinement of `SingleRunner`), `ConcedesByThen`, `StoppedForInterval`, and some worker runs the jobs again and again unless every reclaim loop was ended by an exception (`SomeoneRuns`) |
| `leader_slow` | `MCLeaderElection`, `MCLeaderElectionSlow.cfg` | violation | the code's times in seconds, requests of up to two: `ConcedesInTime` (section 7) |
| `queue` | `MCUserSyncQueue` | 894 k | two panels, two changes, a snapshot and a fault: `NothingForgotten`, `OneDelivery`, `Converges` |
| `lifecycle` | `MCNodeLifecycle` | 1.9 M | two workers: `LeaseKept`, `StaleReportRefused`, `EpochGrows` |
| `spool` | `MCNotificationSpool` | 86 k | `NoneLost`, `SentAgain`, `Delivered` |
| `cores` | `MCCoreManager` | @cores@ | a node worker with two reloads that may overlap and a panel: `ReloadNeverStale`, `Converges` |
| `secrets` | `MCProxySecretClaims` | 38 k | `SecretsClaimed`, `ClaimsStored`, `NeverReassigned` |
| `dashboard` | `MCDashboard` | @dashboard@ | editor: `OwnConfig`, `TextMeansDraft`, `SavedMeansStored`; search: `OneSearch`, `BoxMeansFilter`, `LateAnswerIgnored`; table: `BulkHitsVisible`, `EditHasUser`, `CacheMeansServer` |
| `table_empty` | `MCUsersTable`, `MCUsersTableEmpty.cfg` | violation | a bulk action confirmed while no table is shown (section 7) |
| `table_loading` | `MCUsersTable`, `MCUsersTableLoading.cfg` | violation | a bulk action confirmed while the table shows loading rows (section 7) |

Not every run lists `TypeOK`; where it is left out it holds too (add it
to the cfg). The dashboard modules call it `TableTypeOK`, `SearchTypeOK` and
`EditorTypeOK`, and `Dashboard_proofs` proves all three.

**Bounds.** Two node ids are the least that can settle in one transaction, be
exchanged or share a process; two chunks the least that can be in two batches.
`MaxAttempts` and `MaxConsecutive` are 2; with the single fault of `usage` a
cohort is kept for one more attempt and the limit is not reached.
`MCUsageRecorderRetries.cfg`, which is not a run of its own, has two failed
writes and no other fault; there the limit is reached and the cohort given up,
and all properties hold (221 k states); `ConservedUntilEdited` proves it for
every limit and number of faults.
In `leader` a unit of time is the heartbeat interval of 5 s: the lease is three
units, a request takes up to one (the default timeout of a JetStream request),
a retry's delay is none, and a shutdown up to two (7.25 s). Two faults are
enough to close both clients and so to end both reclaim loops. `MaxRetries` is 2
where the code has 3, which takes twice as long to check; the theorems remove
the bounds and hold for the code's numbers.
In `cores` the node worker has two callers of a reload, the resync and a job,
which is the least that can overlap, and two commits, so that there is something
older to install. In `queue` two changes are needed for an
older one to overtake, two panels for a claim to pass on; without faults the
safety properties were also checked with two snapshots (7.2 M states), and the
theorems remove the bounds. `lifecycle` has leases that expire in every phase
of the other worker's operation. In `dashboard` one of the three pages is open.
`MaxEdit`, `MaxSave`, `MaxMount` and `MaxOtherSave` bound the edits, saves and
visits of the editor and another administrator's saves; two saves without
another administrator were also checked. `MaxEvent` and `MaxStep` bound the
events of the search and the steps of the table's user, four each: a selection, a
page change, a dialog and a mutation with their answers. Answers, timers and
refetches are not counted; the theorems remove these bounds. Symmetry is not used where liveness is
checked.

**Fairness.** The recorder: a running tick goes on (its requests and writes have
timeouts), and the scheduler starts ticks again and again in which every node
is healthy. That last part is an assumption on the environment; traffic of a
node that is never reachable again cannot be read. The election: time passes,
a supervisor starts workers that ended, an open client is answered, requests to
a closed one raise, and a coroutine takes its next step. The queue: asyncio
tasks run, workers poll the queue, requests end by their deadline, and leases
nobody renews expire. The spool: the panel is started again, a started one
dispatches. The cores: requests and messages are handled, and the periodic
resynchronisation of the router reloads again and again. Faults are never fair.

**Deadlock** is not checked where a bounded number of changes, edits or steps
lets the instance come to rest.

## 6 Proofs

All theorems hold for any number of panels, nodes, processes, users, chunks,
workers and faults, from the constants' assumptions alone unless stated.

**`UsageRecorder_proofs`.** `TypeCorrect` establishes the types, among them
that no bill is negative and that every settled row names a node. `OneRow` is
`[]OneRowPerNode`, which is inductive together with the types: the interesting
step is the transaction of `settle_batches`, where several ids settle together.
`SettledRowValue` and `SettledNodeValue` say what a row and its id are after
it: a row that survives either has a reporter, and then its id is the largest
one, or was not touched, and then its id did not settle. Two rows of one id
would both be of the first kind, and one id reports one epoch. Claims stay
beside no row because a claim is inserted only for an id with no row, and
settling an id removes its claim.

`FirstContactOnce` is `[]EmptyAckOnce`, `BilledUntilEdited` is `[]BilledOnce`,
`ConservedUntilEdited` is `[]AllConserved` and `PeriodsKept` is
`BilledInThePeriodRead`. The first three assume `Separate` (every node id reaches
a process of its own at first), the second and third also `OneRecorder`. The
history variable `edited` remembers which node addresses an administrator has
edited, and `BilledOnce` and `AllConserved` are promises until there is one;
section 7 shows what may happen after it. `BilledAtMostOnce` and
`TrafficConserved` drop the proviso where no address is ever edited, as
`FirstContactOnce` does. `PeriodsKept` assumes nothing. The invariant has these parts:

- `Origin`: whatever is filed under a node id, a batch, an answer or a row, comes
  from the process of that id, and only a legacy process answers without epoch;
- `Control`: which polls, answers and cohorts go with each step of a tick; in
  particular a node's answer and its batch in a cohort exclude each other;
- `Contact`: a node that was ever asked has a claim or a row from then on, also
  after a transaction that removes its claim. This gives `EmptyAckOnce`;
- `Numbers`: no batch and no row runs ahead of the numbers its process gave out,
  so a newly drained batch is above its epoch's row;
- `Account`: a batch at or below its epoch's row is settled as a whole and one
  above it not at all (`Ledger`); a batch on its way is the one its node holds
  (`Match`); an acknowledgement on its way drops only what is settled
  (`AckSafe`); what is still counted, and what only the recorder has, is in one
  place and not settled (`Apart`).

A cohort without stale batches then carries nothing that was settled, and every
chunk under one id only, so the transaction bills each of its chunks once. With
two recorders `AckSafe` and `Match` are no longer inductive, as one may settle
what the other still has on its way; that case is left to TLC
(`usage_overlap`). `Conserved` follows step by step: the only step that makes a
two-phase node drop a batch is an acknowledgement, and `AckSafe` says that the
batch is settled. `PeriodsKept` rests on `Period`: what a legacy node answered
was drained after the usage epochs it is filed with were noted and before now,
so if the fence finds the epoch unchanged, all three are equal.

**`LeaderElection_proofs`.** `Concedes` is `[]ConcedesByThen`, `StoppedAWhile` is
`[]StoppedForInterval`, and `RunAlone` is `JobsRunAlone`, the refinement of
`SingleRunner`. None of them assumes anything of the times, so they hold for the
code's and for any others, however slow the requests are. None of the three is
inductive: they depend on how much time a worker has left and on what writes may
still land. `IInv` strengthens them, per worker:

- `AgeInv`: whoever leads, or still runs jobs while it concedes, has gone on for
  so short a time that `Need(w)` more, the longest time until it has paused its
  scheduler if no renewal succeeds from now on, ends within `WorstCase`. `Need` is
  computed from its step, timer and failure count;
- `OwnInv`: as long as the lease a worker goes by has not ended, the document is
  that lease;
- `TryInv`: an attempt started `Spent(w)` ago at most, so the expiry it will
  write is still that far away;
- `WaitInv`, `LateInv`: a write that was accepted is the document until its
  sender learns of it, and a write that may still be accepted, even late,
  replaces an absent lease, an expired one or the sender's own, never another
  leader's;
- `ExpiredInv`: a lease judged expired stays so until the document changes;
- `TaskInv`, `StopInv`: which coroutine can be at which step, and that a
  reclaim loop started during shutdown sleeps for an interval first.

**`UserSyncQueue_proofs`.** `SingleDelivery` is `[]OneDelivery` and
`ChangesAreKept` is `[]NothingForgotten`, the queue's main promise. The latter
is far from inductive: a document may be removed only if nobody needs it, and
who needs it is spread over the workers and the snapshots. `IInv` adds

- `Covered`, `Distinct`: a delivery in flight is covered by its own claim in
  the document, claim ids are not shared, and the revision a worker claimed
  still carries its claim; so an acknowledgement or a release by one worker
  never touches another's delivery;
- `Untouched`: the revision a snapshot captured is under no claim;
- `Seen`: a worker that looked at the fence before a snapshot began has an
  older generation as long as that snapshot holds the fence;
- `Delivering`: a worker about to send or acknowledge the revision it claimed,
  in an unchanged generation, carries or has sent the last version, unless that
  is still to be queued;
- `Snapshotting`: what the snapshot of the fence's holder lacks is queued, and
  neither the captured revision nor one about to be acknowledged is the only
  trace of it.

Together they say why the generation has to be compared after the delivery, why
the queue is captured before the users are read, and why only captured
revisions may be retired: each of these is where the proof of one step fails
without it.

**`NodeLifecycle_proofs`.** `LeaseIsKept` is `[]LeaseKept`: a lease in time is
in the document, under its epoch and for at least as long as its holder
believes. It needs what every pending operation read (`Fresh`: as long as the
revision is current, so is what was read; `Planned`: what it is about to write),
that a token has one owner (`OneOwner`), and that an epoch that was read is not
ahead, and is behind once another lease was granted (`Behind`). `SingleOperator`
follows, and the action properties `EpochsGrow` and `ReportsAreFresh`.

**`ProxySecretClaims_proofs`.** `SecretsAreClaimed`, `ClaimsAreStored` and the
action property `SecretsNeverPass` say that a secret is its user's alone and for
ever; `SecretsDiffer` draws the conclusion. `IInv` says what the locks are for:
users and rows are locked by one transaction (`Locked`); the active claims a
transaction read stay those of its users (`Reading`), because nobody else can
commit a row it locked or change a user it writes; and a row it holds is as it
was committed, or was inserted for a user that wants it (`Holding`). A commit
without a conflict can then only retire what its own users gave up, keep what is
there, and insert what its users store (`Stored`).

**`NotificationSpool_proofs`.** `NothingIsLost` is `[]NoneLost`. A claimed file
is removed when its last entry was queued, so `IInv` says of the file being
restored that whatever is not left to be queued is kept outside the claimed
files (`Elsewhere`). `Room` says that every claimed file is being restored or
was left behind by a failure; therefore a claim always finds an unused name and
overwrites nothing (`NameIsFresh`), and the pool of names is no restriction.

`SentOnce` is `[]SentAgain`. It rests on `Once`, which holds until a restore is
cut short: the queue, the drained list, what is left of the file being restored
and the spool have no entry twice, none in common, and none that was sent; and no
other claimed file exists. So a shutdown, which appends the drained entries to
the spool, and a restore, which moves entries back one by one, never make a
second copy.

**`CoreManager_proofs`.** `ReloadsAreFresh` is the action property
`ReloadNeverStale`. `Stored` says that no message, request or memory is newer
than the database; `Reading`, that the rows any reload of a worker has read are no older than
the memory unless the generation changed after that reload noted it. The second
rests on the order in `_reload_from_db`, note the generation and then read, and
on the installation raising the generation for the reloads that overlap it. It
holds for any number of callers, panels and attempts.

**`Dashboard_proofs`** extends `UsersTable`, `UsersSearch` and `CoreEditor`, which
therefore name their specifications apart (`TableSpec`, `SearchSpec`, `EditorSpec`)
and share only `DashboardUser`. Every theorem is about one of the three alone.

*Users table.* `EditKeepsUser` is `[]EditHasUser` and needs that an open dialog has
no closing timer (`DialogOK`). `TableTypes` and `BulkOnScreen` (`[]BulkHitsVisible`)
rest on `Screen`: what is selected in the table is on screen, and the page agrees
with the table on it as long as there is one. `BulkOnScreen` excludes the habits
`"empty"` and `"loading"`, which the violations of `table_empty` and
`table_loading` are about; rows behind skeleton rows do not count as seen. `CacheIsServer` is
`[]CacheMeansServer`, with any number of requests and fetches at once, errors after
a commit and another administrator; `Cached` says how far a page may be behind
while `sure` holds: a fetch that is `sure` carries the server's page, one mutation
is under way at most, and after the server has applied it the page differs by the
users of that mutation and its total by their number (`Behind`), which is what the
patch of the cache then makes up for. This counts sets of users, so it takes the cardinality theorems.

*Users search.* `SearchTyped`, `LateAnswers` (`LateAnswerIgnored`) and both others
rest on `Race`: requests are numbered apart, and none of them has the present
number while a text is pending. `OneSearchOnly` is `OneSearch`, an action property: no step but that of
an address bar with ids beside a search makes two searches out of one. It needs
`AdvancedOne`, that the filters an advanced search will set name one. `BoxIsSearch`
is `[]BoxMeansFilter` and needs `BoxInv`: how the box, its timer, the debounced
text and the last text seen go together while an address is resolved, is replaced
by its username or is cleared, and that a debounced text is searched for, waits
for its answer or was given up. Both hold for every address bar the page starts
from and whatever the answer names.

*Core editor.* `EditorTyped`, `SavesOwnConfig` (`[]OwnConfig`) and `TextIsDraft`
(`[]TextMeansDraft`) rest on `GoodStore`, what a loaded store holds, kept by every
operation of it, and on `Bound`, that a loaded store is that of the core on
screen. The text of the JSON editor says the draft, unless the draft is `Broken`,
when it is the last one that could be generated, was typed, or came from a
configuration the import rejected. `SavedIsStored` is `[]SavedMeansStored`. `Served`
says to which page and core a save belongs; `Shows`, that without a doubt the
baseline is the snapshot's (`Baseline`), and that the snapshot was taken from what
is stored (`Taken`), or what is stored is another configuration that a fetch is to
bring or has failed to bring (`News`), or the page's own save was just stored and
is about to be marked clean (`Own`). Nothing is assumed of the kits, the server's
changes to a configuration or the user.

Every inductive invariant was model-checked on a small instance before it was
proved.

**Model-checked only.** `NoDoubleBilling` with two recorders, where one may
settle what the other has on its way (`usage_overlap`), and all liveness properties (`Settles`, `SomeoneRuns`,
`Converges`, `Delivered`), which are out of the prover's reach.

## 7 What the checks found

**Findings**, runs in which TLC finds a violation (`PROJECT.json` quotes the lines).

- `leader_slow`: the comment at `leader.py:29` says that the worst-case time from
  the last successful renewal to conceding stays under the lease, and the assert
  after it counts the sleeps only. A round of the heartbeat is also up to three
  requests, and winning the lease up to five after its expiry was computed. With
  requests of two seconds a leader leads, and its jobs run, after its lease has
  ended; another worker may have it by then.
- `table_empty`: when a filter or search has no results, or its fetch fails, the
  table is not rendered, so the effect that drops rows out of sight does not run;
  the page keeps the selected ids, and a confirmed bulk action reaches users
  nobody sees, against the comment at `data-table.tsx:218`.
- `table_loading`: the comment at `users-table.tsx:1192` says no bulk action while
  the table shows loading rows, and the buttons of the bar are disabled; but the
  dialog one of them opened before stays, and its confirm button is disabled only
  by the mutation itself. A search that was still being debounced then puts the
  rows out of sight under the open dialog.

**Deviations that are reproduced by changing a configuration or a property.** The
passing runs assume those of the recorder away by their configuration; the other
interleavings are in the runs, and the properties except them by name. Each row
says what to change to see the counterexample.

| Where | Reproduce with | What happens |
|---|---|---|
| recorder | `MCUsageRecorderSwapped.cfg` | two ids exchange their processes between two ticks; `settle_batches` deletes, for the smaller id, the row of the other process, the larger updates a row that is gone, and its batch is billed again |
| recorder | `MCUsageRecorderTwins.cfg` | one process under two ids, restarted twice with its batch saved, is billed through both |
| recorder | `MCUsageRecorderTwinAck.cfg` | one process under two ids: settlement drops both claims and leaves one row, so after a panel restart the other id counts as a first contact again |
| election | `SomeoneRuns` without `GaveUp` | an exception out of `_ensure_kv` ends the reclaim loop; leadership may never be regained after an outage |
| election | `stop[w] # "no" => sched[w] # "running"` | leadership lost during the shutdown drain starts a new reclaim loop, which can win and restart the scheduler of a worker that is exiting |
| editor | `SavedMeansStored` without `doubt` | an edit made while a save is on its way becomes the clean baseline without having been sent; an edit made while the core is fetched keeps the fetched data out, and Discard then shows the older configuration as clean; Save sends the draft without the text typed in the last 420 ms; switching the kind away and back shows a default configuration as unchanged; a save that ends after the page was left marks the edits of the next core as saved; a save answered with an error after it was stored leaves the old configuration as the saved one |
| search | `BoxMeansFilter` without `lost` | a text cleared before its timer fired leaves `ignoreNextDebouncedSearchRef` set, and the next search is swallowed; an address that belongs to nobody stays in the box with the old search; ids typed in another writing are not applied |
| search | `OneSearch` without its exception | an address bar with ids beside a search makes two searches |
| table | `CacheMeansServer` without `sure` | a mutation that meets a fetch or another mutation, or is answered with an error after its commit, leaves the page stale until the next fetch |

**Observations**, where the code makes no claim to the contrary:

- Moving a node id to another process and back, with two recorders, can also
  bill a batch twice.
- If a delivery could reach the node after its claim expired, the queue would
  not repair it: the late worker's acknowledgement finds the newer claim and
  does nothing, the newer worker acknowledges, and the node keeps the older
  state with nothing queued. The delivery deadline is what prevents it.
- A change whose enqueue fails is logged and stays unsent until the next
  delivery or snapshot that carries the user (`missed`).
- Epochs of a node start again at 1 after `clear`. The health check reads the
  node's health before the shared state, so a report in a stop's own epoch may
  land after its release.
- Entries a refused enqueue wrote back to the spool wait for the next start, and
  a restore that is cut short repeatedly sends copies.
- A removal that finds nothing in memory raises no generation, so a reload that
  races it may bring the core back until the next resynchronisation.
- The editor does not load a core again of which another administrator changed
  only the name or the tags.
- A failed background refetch replaces the editor by its error page, whose back
  button does not ask; links of the sidebar never do. An Xray import that fails
  at load falls back silently.
- A refetch under way when a user is deleted brings the row back until the next
  one; a bulk delete removes only rows that are still selected when it ends; a
  user created on a later page or under an id filter is miscounted until the
  next fetch; the advanced search writes the filters it captured before its
  request. In these cases `CacheMeansServer` lets the page be until then (`sure`).

## 8 What is not modelled

- Usage recorder: the outbound and inbound jobs, which share the protocol, chart
  history, admin totals and `online_at`.
- Queue: claims of panels before the upgrade, removal of a node, the resolution
  of markers before a rollback, the in-process store and a restart of the node.
- Notifications: the broker-backed queue, retries of one send, deduplication.
- Caches: the host manager, which works as the core manager does, and the live
  key index.
- Secrets: the lookup of collisions before a write and the normalisation of
  formats.
- Users table: columns, sorting, layout, the header that selects all rows, and the
  chunks in which a bulk deletion commits. Users search: an address bar with both
  `is_id` and `is_protocol`. Core editor: the individual forms.
- The rest of section 1: request handlers, subscription and core configuration
  text, the bot, migrations and scripts hold no protocol; the connection
  limiter, content filter, traffic log, subscription buffer, status review and
  health check are small or best effort and come next.

**Coverage.** The dashboard is most of the implementation by lines: a generated
API client of 30 000 lines and dialogs and forms of several thousand lines each,
whose code is layout, validation and the mapping of fields. There is no state
machine in them that a property could be about, beyond the ones modelled, so the
map covers a small share of the lines. It was not widened to look larger.

## 9 Plan

1. `NoDoubleBilling` for several recorders as a theorem: `Account` with a batch
   that another recorder settled in the meantime.
2. `TypeOK` of `NotificationSpool`, `CoreManager` and `ProxySecretClaims`, now a
   part of their inductive invariants, as theorems of their own.
3. The health check over `NodeLifecycle`, status review under row locks, the
   content filter's push to the nodes and its dashboard page, the key index.
