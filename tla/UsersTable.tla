----------------------------- MODULE UsersTable -----------------------------
(***************************************************************************)
(* The users page of the dashboard: the page of users it shows, fetched    *)
(* for a filter and a page number and patched by usersCache after every    *)
(* mutation; the rows selected for bulk actions; the edit dialog.          *)
(*                                                                         *)
(* Users are numbers, the newest (highest) first, as the default sort      *)
(* lists them; a row is the user with the status the page last saw.        *)
(*                                                                         *)
(* The habits: a bulk action is asked for or confirmed when no table is    *)
(* shown ("empty"), or confirmed while the table shows skeleton rows       *)
(* ("loading").                                                            *)
(***************************************************************************)
EXTENDS Naturals, FiniteSets, DashboardUser

CONSTANTS
  User,       \* a set of numbers
  Status,     \* of users
  Absent,     \* of a user that does not exist
  Filter,     \* filters
  All,        \* the filter that is none
  Keeps,      \* the statuses a filter keeps
  Only,       \* the users it keeps: the ids and no_group filters, unknown to usersCache
  FirstUsers, \* the users there are at first
  Limit,      \* rows of a page
  Sent,       \* a fetch the server has not yet read
  MaxStep,    \* bound on what the user does
  MaxOther    \* bound on changes made by others

ASSUME TableAssumption ==
  /\ User \subseteq Nat /\ IsFiniteSet(User) /\ Limit \in Nat \ {0}
  /\ Absent \notin Status /\ {"active", "disabled"} \subseteq Status
  /\ FirstUsers \in [User -> Status \cup {Absent}]
  /\ All \in Filter /\ Keeps[All] = Status /\ Only[All] = User
  /\ \A f \in Filter : Keeps[f] \subseteq Status /\ Only[f] \subseteq User
  /\ None \notin User /\ None # Sent
  /\ {None, Sent} \cap [rows : UNION {[S -> Status] : S \in SUBSET User}, total : Nat] = {}

VARIABLES
  server,    \* the users as stored
  query,     \* the filter and page of the query in use
  data,      \* its data in the query cache: [rows, total], or None
  previous,  \* the last data there was, shown until the new page arrives
  fetch,     \* its fetch: None, Sent, or the page the server read
  auto,      \* isAutoRefreshingRef
  table,     \* the table on screen: "loading", "rows" or "none", and its selection
  selected,  \* selectedUserIds of the page
  dialog,    \* the bulk action to be confirmed
  edit,      \* the edit dialog: [open, user, closing]
  reqs,      \* mutations in flight
  sure,      \* history: "data" while the page has missed nothing the server did,
             \* but for a mutation it will patch; "fetch" while the fetch has
  steps, others

tableVars == <<careless, server, query, data, previous, fetch, auto, table, selected, dialog,
               edit, reqs, sure, steps, others>>

---------------------------------------------------------------------------
(* usersCache: one page of one filter.                                     *)

\* The first n of a set of users, and those after them.
Newest(S, n) == {u \in S : Cardinality({v \in S : v > u}) < n}

\* A page of rows as a function from its users to their statuses.
RowsOf(S, st) == [u \in S |-> st[u]]

Exists == {u \in User : server[u] # Absent}
Matching(f) == {u \in Exists : server[u] \in Keeps[f] /\ u \in Only[f]}

\* get_users: the users that match, newest first, and how many there are.
ServerPage(f, page) ==
  LET m == Matching(f)
      before == Newest(m, page * Limit)
  IN [rows |-> RowsOf(Newest(m \ before, Limit), server), total |-> Cardinality(m)]

\* matchesUserFilters knows the status, not the ids and no_group filters.
MatchesUserFilters(st, f) == st \in Keeps[f]

\* Mutant of Upserted: a user that no longer matches stays in the total.
UpsertedUncounted(d, u, st, key, allowInsert) ==
  IF u \in DOMAIN d.rows /\ ~MatchesUserFilters(st, key.filter)
  THEN [d EXCEPT !.rows = RowsOf(DOMAIN d.rows \ {u}, d.rows)]
  ELSE IF u \in DOMAIN d.rows THEN [d EXCEPT !.rows[u] = st] ELSE d

\* upsertInSingleUsersQuery
Upserted(d, u, st, key, allowInsert) ==
  LET on == u \in DOMAIN d.rows
      matches == MatchesUserFilters(st, key.filter)
      added == [v \in DOMAIN d.rows \cup {u} |-> IF v = u THEN st ELSE d.rows[v]]
  IN IF on /\ matches THEN [d EXCEPT !.rows = added]
     ELSE IF on THEN [rows |-> RowsOf(DOMAIN d.rows \ {u}, d.rows),
                      total |-> IF d.total = 0 THEN 0 ELSE d.total - 1]
     ELSE IF allowInsert /\ matches /\ key.page = 0
     THEN [rows |-> RowsOf(Newest(DOMAIN added, Limit), added), total |-> d.total + 1]
     ELSE d

\* removeUsersFromSingleUsersQuery; rows are the removed users as last seen.
Removed(d, rows, key) ==
  LET gone == {u \in DOMAIN rows : u \in DOMAIN d.rows \/ MatchesUserFilters(rows[u], key.filter)}
      n == Cardinality(gone)
  IN [rows |-> RowsOf(DOMAIN d.rows \ DOMAIN rows, d.rows),
      total |-> IF n > d.total THEN 0 ELSE d.total - n]

---------------------------------------------------------------------------
(* What is on screen.                                                      *)

NoRows == [rows |-> RowsOf({}, server), total |-> 0]

\* usersData: the query's data, while it is first fetched the data before it.
UsersData(d, p, f) == IF d # None THEN d ELSE IF f # None THEN p ELSE None

Shown(d) == IF d = None THEN NoRows ELSE d

\* Which table is rendered: none when the list, or the search, is empty.
TableFor(d, f, filter) ==
  LET shown == Shown(d)
  IN IF f # None /\ d = None THEN "loading"
     ELSE IF DOMAIN shown.rows = {} /\ (filter # All \/ shown.total = 0) THEN "none"
     ELSE "rows"

\* Mutant of NextRowSelection: rows out of sight stay selected.
NextRowSelectionKept(sel, visible, reset) == IF reset THEN {} ELSE sel

NextRowSelection(sel, visible, reset) == IF reset THEN {} ELSE sel \cap visible

\* The render after a change of the data, with the effect of the table: a
\* table that just appeared starts with nothing selected, one that went
\* away tells the page nothing.
Render(d, p, f, filter, reset) ==
  LET kind == TableFor(UsersData(d, p, f), f, filter)
      visible == IF kind = "rows" THEN DOMAIN Shown(UsersData(d, p, f)).rows ELSE {}
      next == NextRowSelection(table.sel, visible, reset \/ kind # table.kind)
  IN /\ table' = [kind |-> kind, sel |-> IF kind = "none" THEN {} ELSE next]
     /\ selected' = IF reset THEN {}
                    ELSE IF kind = "none" THEN selected
                    ELSE IF kind # table.kind \/ next # table.sel THEN next
                    ELSE selected

IsPageLoading == fetch # None /\ previous # None /\ ~auto

\* The rows on screen: none while the table shows skeleton rows instead.
Visible == IF table.kind = "rows" /\ ~IsPageLoading
           THEN DOMAIN Shown(UsersData(data, previous, fetch)).rows ELSE {}
RowStatus == Shown(UsersData(data, previous, fetch)).rows
SelectedUsers == {u \in selected : u \in DOMAIN RowStatus}
SelectedDisableEligible == {u \in SelectedUsers : RowStatus[u] # "disabled"}
SelectedEnableEligible == {u \in SelectedUsers : RowStatus[u] = "disabled"}

\* A mutation is sent: what a fetch on its way has read will be old, and of two
\* mutations the answers may be patched in the other order.
SureOnSend == IF reqs # {} THEN {} ELSE sure \ {"fetch"}

---------------------------------------------------------------------------

TableInit ==
  /\ careless \in Habits
  /\ server = FirstUsers
  /\ query = [filter |-> All, page |-> 0]
  /\ data = None /\ previous = None /\ fetch = Sent /\ auto = FALSE
  /\ table = [kind |-> "loading", sel |-> {}] /\ selected = {}
  /\ dialog = None
  /\ edit = [open |-> FALSE, user |-> None, closing |-> FALSE]
  /\ reqs = {} /\ sure = {}
  /\ steps = 0 /\ others = 0

Step == steps < MaxStep /\ steps' = steps + 1
NoModal == dialog = None /\ ~edit.open

\* The query of another filter or page: the old one is dropped with its data
\* (gcTime 0), its rows stay on screen until the answer.
ChangeQuery(f, page) ==
  /\ Step
  /\ query' = [filter |-> f, page |-> page] /\ query' # query
  /\ data' = None /\ fetch' = Sent /\ sure' = {}
  /\ Render(None, previous, Sent, f, FALSE)
  /\ UNCHANGED <<careless, server, previous, auto, dialog, edit, reqs, others>>

\* handleStatusFilter, handleFilterChange, handleAdvanceSearchSubmit: also
\* while a dialog is open, when a debounced search or the address bar does it.
SetTableFilters(f) == ChangeQuery(f, 0)

\* handlePageChange
SetPage(page) ==
  /\ NoModal
  /\ LET d == Shown(UsersData(data, previous, fetch)) IN page * Limit < d.total
  /\ ChangeQuery(query.filter, page)

\* refetch() gives up a running fetch unless there is no data yet.
Refetched == IF data = None /\ fetch # None THEN fetch ELSE Sent

\* handleManualRefresh, handleAutoRefresh
Refresh(isAuto) ==
  /\ Step /\ (isAuto \/ NoModal)
  /\ auto' = isAuto
  /\ fetch' = Refetched
  /\ sure' = IF Refetched = Sent THEN sure \ {"fetch"} ELSE sure
  /\ Render(data, previous, fetch', query.filter, FALSE)
  /\ UNCHANGED <<careless, server, query, data, previous, dialog, edit, reqs, others>>

FetchRead ==
  /\ fetch = Sent
  /\ fetch' = ServerPage(query.filter, query.page)
  /\ sure' = IF reqs = {} THEN sure \cup {"fetch"} ELSE sure
  /\ UNCHANGED <<careless, server, query, data, previous, auto, table, selected, dialog,
                 edit, reqs, steps, others>>

FetchAnswer ==
  /\ fetch \notin {None, Sent}
  /\ data' = fetch /\ previous' = fetch /\ fetch' = None /\ auto' = FALSE
  /\ sure' = IF "fetch" \in sure THEN {"data"} ELSE {}
  /\ Render(fetch, fetch, None, query.filter, FALSE)
  /\ UNCHANGED <<careless, server, query, dialog, edit, reqs, steps, others>>

FetchFails ==
  /\ fetch = Sent
  /\ fetch' = None /\ auto' = FALSE
  /\ Render(data, previous, None, query.filter, FALSE)
  /\ UNCHANGED <<careless, sure, server, query, data, previous, dialog, edit, reqs, steps,
                 others>>

\* handleRowSelectionChange; clearSelection
ToggleRow(u) ==
  /\ Step /\ NoModal /\ u \in Visible
  /\ LET sel == IF u \in table.sel THEN table.sel \ {u} ELSE table.sel \cup {u}
     IN table' = [table EXCEPT !.sel = sel] /\ selected' = sel
  /\ UNCHANGED <<careless, sure, server, query, data, previous, fetch, auto, dialog, edit,
                 reqs, others>>

ClearSelection ==
  /\ Step /\ NoModal /\ selected # {}
  /\ Render(data, previous, fetch, query.filter, TRUE)
  /\ UNCHANGED <<careless, sure, server, query, data, previous, fetch, auto, dialog, edit,
                 reqs, others>>

---------------------------------------------------------------------------
(* Bulk actions.  "reset" stands for the actions that change no row of the *)
(* model: reset usage, revoke, set owner, apply template.                  *)

BulkTargets(op) ==
  CASE op = "disable" -> SelectedDisableEligible
    [] op = "enable" -> SelectedEnableEligible
    [] OTHER -> selected

OpenBulk(op) ==
  /\ Step /\ NoModal /\ selected # {} /\ ~IsPageLoading
  /\ op \in {"disable", "enable"} => BulkTargets(op) # {}
  /\ table.kind # "rows" => "empty" \in careless
  /\ dialog' = op
  /\ UNCHANGED <<careless, sure, server, query, data, previous, fetch, auto, table, selected,
                 edit, reqs, others>>

CancelBulk ==
  /\ dialog # None
  /\ dialog' = None
  /\ UNCHANGED <<careless, sure, server, query, data, previous, fetch, auto, table, selected,
                 edit, reqs, steps, others>>

\* handleBulkDelete and its siblings: the ids of the selection as it is now;
\* none are sent when it became empty.  Only its own mutation in flight
\* disables the button.
ConfirmBulk ==
  /\ dialog # None /\ ~\E r \in reqs : r.op = dialog
  /\ table.kind # "rows" => "empty" \in careless
  /\ IsPageLoading => "loading" \in careless
  /\ dialog' = None
  /\ reqs' = IF BulkTargets(dialog) = {} THEN reqs
             ELSE reqs \cup {[op |-> dialog, ids |-> BulkTargets(dialog), to |-> None,
                              done |-> FALSE, seen |-> Visible]}
  /\ sure' = SureOnSend
  /\ UNCHANGED <<careless, server, query, data, previous, fetch, auto, table, selected,
                 edit, steps, others>>

\* What the API makes of a user.
StatusAfter(r, u) ==
  CASE r.op \in {"delete", "remove"} -> Absent
    [] r.op = "disable" -> "disabled"
    [] r.op = "enable" -> "active"
    [] r.op \in {"modify", "create"} -> r.to
    [] OTHER -> server[u]

\* The mutation is committed.  Nothing is changed (get_validated_user_by_id,
\* _get_validated_users_by_ids) unless every user is still there.
ServerApplies(r) ==
  /\ ~r.done
  /\ r.op # "create" => \A u \in r.ids : server[u] # Absent
  /\ server' = [u \in User |-> IF u \in r.ids THEN StatusAfter(r, u) ELSE server[u]]
  /\ reqs' = (reqs \ {r}) \cup {[r EXCEPT !.done = TRUE]}
  /\ UNCHANGED <<careless, sure, query, data, previous, fetch, auto, table, selected, dialog,
                 edit, steps, others>>

\* An error is all the page sees: of a mutation that was refused, or of one
\* that was committed before a later step, or the answer, failed.
RequestFails(r) ==
  /\ reqs' = reqs \ {r}
  /\ sure' = IF r.done THEN {} ELSE sure
  /\ UNCHANGED <<careless, server, query, data, previous, fetch, auto, table, selected,
                 dialog, edit, steps, others>>

\* The data of the query in use is patched; without any, nothing is.
Patch(d, reset) ==
  /\ data' = d
  /\ previous' = IF d = None THEN previous ELSE d
  /\ Render(d, previous', fetch, query.filter, reset)

\* A patch leaves nothing out: the page knows the users it is about.
SureOnPatch(known) == IF known THEN sure ELSE {}

\* deleteMutation's onSuccess removes the users that are still selected.
BulkDeleted(r) ==
  /\ r.done /\ r.op = "delete"
  /\ reqs' = reqs \ {r}
  /\ sure' = SureOnPatch(r.ids \subseteq SelectedUsers)
  /\ Patch(IF data = None THEN None
           ELSE Removed(data, RowsOf(SelectedUsers \cap r.ids, RowStatus), query), TRUE)
  /\ UNCHANGED <<careless, server, query, fetch, auto, dialog, edit, steps, others>>

\* The others fetch the page again.
BulkChanged(r) ==
  /\ r.done /\ r.op \in {"disable", "enable", "reset"}
  /\ reqs' = reqs \ {r}
  /\ fetch' = Refetched /\ sure' = {}
  /\ Render(data, previous, fetch', query.filter, TRUE)
  /\ UNCHANGED <<careless, server, query, data, previous, auto, dialog, edit, steps,
                 others>>

---------------------------------------------------------------------------
(* One user: the edit dialog, the create dialog, the row's delete.         *)

\* Mutant of HandleEdit: the timer of the dialog closed before still runs.
HandleEditLate(u) ==
  /\ Step /\ NoModal /\ u \in Visible
  /\ edit' = [open |-> TRUE, user |-> u, closing |-> edit.closing]
  /\ UNCHANGED <<careless, sure, server, query, data, previous, fetch, auto, table, selected,
                 dialog, reqs, others>>

HandleEdit(u) ==
  /\ Step /\ NoModal /\ u \in Visible
  /\ edit' = [open |-> TRUE, user |-> u, closing |-> FALSE]
  /\ UNCHANGED <<careless, sure, server, query, data, previous, fetch, auto, table, selected,
                 dialog, reqs, others>>

\* handleEditModalClose: the user is forgotten 220 ms after the dialog closed.
HandleEditModalClose ==
  /\ edit.open
  /\ edit' = [edit EXCEPT !.open = FALSE, !.closing = TRUE]
  /\ UNCHANGED <<careless, sure, server, query, data, previous, fetch, auto, table, selected,
                 dialog, reqs, steps, others>>

EditTimer ==
  /\ edit.closing
  /\ edit' = [edit EXCEPT !.user = None, !.closing = FALSE]
  /\ UNCHANGED <<careless, sure, server, query, data, previous, fetch, auto, table, selected,
                 dialog, reqs, steps, others>>

Send(r) ==
  /\ Step /\ ~\E q \in reqs : q.op = r.op
  /\ reqs' = reqs \cup {r} /\ sure' = SureOnSend
  /\ UNCHANGED <<careless, server, query, data, previous, fetch, auto, table, selected,
                 dialog, edit, others>>

Request(op, u, st) == [op |-> op, ids |-> {u}, to |-> st, done |-> FALSE, seen |-> {u}]

SubmitEdit(st) ==
  /\ edit.open /\ edit.user # None
  /\ Send(Request("modify", edit.user, st))

SubmitCreate(u, st) ==
  /\ NoModal /\ server[u] = Absent /\ \A v \in User : v > u => server[v] = Absent
  /\ ~\E r \in reqs : u \in r.ids
  /\ Send(Request("create", u, st))

ConfirmDelete(u) ==
  /\ NoModal /\ u \in Visible
  /\ Send(Request("remove", u, RowStatus[u]))

\* A user of the page, or a new one the first page will show.
Placed(r) ==
  IF r.op = "create" THEN query.page = 0 /\ r.ids \subseteq Only[query.filter]
  ELSE data # None /\ r.ids \subseteq DOMAIN data.rows

\* syncUserCacheFromApiResponse, and the edit dialog closes.
Saved(r) ==
  /\ r.done /\ r.op \in {"modify", "create"}
  /\ reqs' = reqs \ {r}
  /\ LET u == CHOOSE v \in r.ids : TRUE
     IN Patch(IF data = None THEN None ELSE Upserted(data, u, r.to, query, TRUE), FALSE)
  /\ sure' = SureOnPatch(Placed(r))
  /\ edit' = IF r.op = "modify" /\ edit.open THEN [edit EXCEPT !.open = FALSE, !.closing = TRUE] ELSE edit
  /\ UNCHANGED <<careless, server, query, fetch, auto, dialog, steps, others>>

\* confirmDelete; the user is removed as the row saw it.
UserRemoved(r) ==
  /\ r.done /\ r.op = "remove"
  /\ reqs' = reqs \ {r}
  /\ Patch(IF data = None THEN None ELSE Removed(data, [u \in r.ids |-> r.to], query), FALSE)
  /\ sure' = SureOnPatch(Placed(r))
  /\ UNCHANGED <<careless, server, query, fetch, auto, dialog, edit, steps, others>>

\* Another administrator, or the panel itself, changes a user.
OtherChanges(u, st) ==
  /\ others < MaxOther /\ st # server[u]
  /\ others' = others + 1
  /\ server' = [server EXCEPT ![u] = st]
  /\ sure' = {}
  /\ UNCHANGED <<careless, query, data, previous, fetch, auto, table, selected, dialog,
                 edit, reqs, steps>>

BulkOp == {"delete", "disable", "enable", "reset"}

TableNext ==
  \/ \E f \in Filter : SetTableFilters(f)
  \/ \E p \in 0..Cardinality(User) : SetPage(p)
  \/ \E a \in BOOLEAN : Refresh(a)
  \/ FetchRead \/ FetchAnswer \/ FetchFails
  \/ \E u \in User : ToggleRow(u) \/ HandleEdit(u) \/ ConfirmDelete(u)
  \/ ClearSelection
  \/ \E op \in BulkOp : OpenBulk(op)
  \/ CancelBulk \/ ConfirmBulk
  \/ \E r \in reqs : \/ ServerApplies(r) \/ RequestFails(r) \/ BulkDeleted(r) \/ BulkChanged(r)
                     \/ Saved(r) \/ UserRemoved(r)
  \/ HandleEditModalClose \/ EditTimer
  \/ \E st \in Status : SubmitEdit(st) \/ \E u \in User : SubmitCreate(u, st)
  \/ \E u \in User, st \in Status \cup {Absent} : OtherChanges(u, st)

TableSpec == TableInit /\ [][TableNext]_tableVars

---------------------------------------------------------------------------
(* Properties.                                                             *)

PageOK(d) ==
  /\ d.total \in Nat
  /\ DOMAIN d.rows \subseteq User /\ Cardinality(DOMAIN d.rows) <= Limit
  /\ \A u \in DOMAIN d.rows : d.rows[u] \in Status

\* Every variable has its type, and no patch makes a page longer than the
\* limit or its total negative.
TableTypeOK ==
  /\ careless \in Habits
  /\ server \in [User -> Status \cup {Absent}]
  /\ query \in [filter : Filter, page : 0..Cardinality(User)]
  /\ \A d \in {data, previous, fetch} : d \in {None, Sent} \/ PageOK(d)
  /\ data # Sent /\ previous # Sent /\ auto \in BOOLEAN
  /\ table.kind \in {"loading", "rows", "none"} /\ table.sel \subseteq User
  /\ selected \subseteq User
  /\ dialog \in BulkOp \cup {None}
  /\ edit \in [open : BOOLEAN, user : User \cup {None}, closing : BOOLEAN]
  /\ \A r \in reqs : r.ids \subseteq User /\ r.done \in BOOLEAN

\* A bulk action is only ever sent for rows that were on screen when it was
\* confirmed, whatever searches, page changes, refreshes and changes by others
\* came between the selection, the dialog and the confirmation.  (It takes a
\* user without the habits "empty" and "loading".)
BulkHitsVisible == \A r \in reqs : r.ids \subseteq r.seen

\* The open edit dialog has its user.
EditHasUser == edit.open => edit.user # None

\* Patching the cache after a mutation comes to the same as fetching again, up
\* to the rows of the next page: the rows are users as the server stores them and
\* the total is the number of users that match.  It holds from the answer of any
\* fetch that no mutation met, whatever was amiss before, until the page misses
\* something: another administrator's change, a mutation that met another or a
\* fetch, one answered with an error after it was committed, a bulk change not
\* yet fetched, a save or a deletion of a user that is not on the page (sure).
CacheMeansServer ==
  "data" \in sure /\ reqs = {} /\ data # None =>
    /\ \A u \in DOMAIN data.rows : u \in Matching(query.filter) /\ data.rows[u] = server[u]
    /\ data.total = Cardinality(Matching(query.filter))
=============================================================================
