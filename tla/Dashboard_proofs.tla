-------------------------- MODULE Dashboard_proofs --------------------------
(***************************************************************************)
(* Proofs about the three modules of the dashboard, UsersTable, UsersSearch *)
(* and CoreEditor.  They are independent parts, brought together here      *)
(* because their proofs are laid out alike; every theorem is about one of  *)
(* the three specifications alone.                                         *)
(***************************************************************************)
EXTENDS Integers, UsersTable, UsersSearch, CoreEditor, FiniteSetTheorems, FunctionTheorems, TLAPS

LEMMA UsersFinite ==
  /\ User \subseteq Nat /\ IsFiniteSet(User) /\ Cardinality(User) \in Nat
  /\ Limit \in Nat
<1>1. IsFiniteSet(User) /\ User \subseteq Nat /\ Limit \in Nat
  BY TableAssumption
<1>2. Cardinality(User) \in Nat
  BY <1>1, FS_CardinalityType
<1> QED
  BY <1>1, <1>2

---------------------------------------------------------------------------
(* The edit dialog of the users page.                                      *)

\* An open dialog has its user, and no timer that would take it away.
DialogOK ==
  /\ edit \in [open : BOOLEAN, user : User \cup {None}, closing : BOOLEAN]
  /\ edit.open => edit.user \in User /\ ~edit.closing

LEMMA NextDialog ==
  ASSUME DialogOK, [TableNext]_tableVars
  PROVE  DialogOK'
<1>1. CASE UNCHANGED tableVars
  BY <1>1 DEF DialogOK, tableVars
<1>2. ASSUME NEW u \in User, HandleEdit(u)
      PROVE  DialogOK'
  BY <1>2 DEF DialogOK, HandleEdit
<1>3. CASE HandleEditModalClose
  BY <1>3 DEF DialogOK, HandleEditModalClose
<1>4. CASE EditTimer
  BY <1>4 DEF DialogOK, EditTimer
<1>5. ASSUME NEW r \in reqs, Saved(r)
      PROVE  DialogOK'
  BY <1>5 DEF DialogOK, Saved
<1>6. ASSUME NEW st \in Status, SubmitEdit(st) \/ \E u \in User : SubmitCreate(u, st)
      PROVE  DialogOK'
  BY <1>6 DEF DialogOK, SubmitEdit, SubmitCreate, Send
<1>7. ASSUME NEW u \in User, ToggleRow(u) \/ ConfirmDelete(u)
      PROVE  DialogOK'
  BY <1>7 DEF DialogOK, ToggleRow, ConfirmDelete, Send
<1>8. CASE \/ \E f \in Filter : SetTableFilters(f)
           \/ \E p \in 0..Cardinality(User) : SetPage(p)
           \/ \E a \in BOOLEAN : Refresh(a)
  BY <1>8 DEF DialogOK, SetTableFilters, SetPage, ChangeQuery, Refresh
<1>9. CASE FetchRead \/ FetchAnswer \/ FetchFails \/ ClearSelection
  BY <1>9 DEF DialogOK, FetchRead, FetchAnswer, FetchFails, ClearSelection
<1>10. CASE \/ \E op \in BulkOp : OpenBulk(op)
            \/ CancelBulk \/ ConfirmBulk
  BY <1>10 DEF DialogOK, OpenBulk, CancelBulk, ConfirmBulk
<1>11. ASSUME NEW r \in reqs, \/ ServerApplies(r) \/ RequestFails(r) \/ BulkDeleted(r)
                              \/ BulkChanged(r) \/ UserRemoved(r)
       PROVE  DialogOK'
  BY <1>11 DEF DialogOK, ServerApplies, RequestFails, BulkDeleted, BulkChanged, UserRemoved
<1>12. CASE \E u \in User, st \in Status \cup {Absent} : OtherChanges(u, st)
  BY <1>12 DEF DialogOK, OtherChanges
<1> QED
  BY <1>1, <1>2, <1>3, <1>4, <1>5, <1>6, <1>7, <1>8, <1>9, <1>10, <1>11, <1>12 DEF TableNext

\* The edit dialog never stands open without a user: the timer that forgets the
\* user of a dialog just closed cannot hit the dialog of the row clicked next.
THEOREM EditKeepsUser == TableSpec => []EditHasUser
<1>1. TableInit => DialogOK
  BY DEF TableInit, DialogOK
<1>2. DialogOK /\ [TableNext]_tableVars => DialogOK'
  BY NextDialog
<1>3. DialogOK => EditHasUser
  BY TableAssumption DEF DialogOK, EditHasUser
<1> QED
  BY <1>1, <1>2, <1>3, PTL DEF TableSpec

---------------------------------------------------------------------------
(* The types of the users page: every page kept, fetched or patched is     *)
(* within the limit.                                                       *)

PartialRows == UNION {[U -> Status] : U \in SUBSET User}

Pages == {d \in [rows : PartialRows, total : Nat] : Cardinality(DOMAIN d.rows) <= Limit}

LEMMA RowsFacts ==
  ASSUME NEW rows \in PartialRows
  PROVE  DOMAIN rows \subseteq User /\ rows \in [DOMAIN rows -> Status]
<1>1. PICK U \in SUBSET User : rows \in [U -> Status]
  BY DEF PartialRows
<1> QED
  BY <1>1

LEMMA RowsMade ==
  ASSUME NEW U \in SUBSET User, NEW rows \in [U -> Status]
  PROVE  rows \in PartialRows
BY DEF PartialRows

LEMMA PageFacts ==
  ASSUME NEW d \in Pages
  PROVE  /\ d = [rows |-> d.rows, total |-> d.total]
         /\ DOMAIN d.rows \subseteq User
         /\ d.rows \in [DOMAIN d.rows -> Status]
         /\ Cardinality(DOMAIN d.rows) <= Limit
         /\ d.total \in Nat
BY RowsFacts, d.rows \in PartialRows DEF Pages

LEMMA PageMade ==
  ASSUME NEW U \in SUBSET User, NEW rows \in [U -> Status], NEW n \in Nat,
         Cardinality(U) <= Limit
  PROVE  [rows |-> rows, total |-> n] \in Pages
BY RowsMade DEF Pages

LEMMA NotAPage ==
  None \notin Pages /\ Sent \notin Pages
<1>1. {None, Sent} \cap [rows : PartialRows, total : Nat] = {}
  BY TableAssumption DEF PartialRows
<1> QED
  BY <1>1 DEF Pages

\* A user is among the first n by how many are newer: two users differ in that.
LEMMA NewestShort ==
  ASSUME NEW X \in SUBSET Nat, IsFiniteSet(X), NEW n \in Nat
  PROVE  /\ Newest(X, n) \subseteq X
         /\ IsFiniteSet(Newest(X, n))
         /\ Cardinality(Newest(X, n)) <= n
<1> DEFINE N == Newest(X, n)
           After(u) == {v \in X : v > u}
           rank == [u \in N |-> Cardinality(After(u))]
<1>1. N \subseteq X /\ IsFiniteSet(N)
  BY FS_Subset DEF Newest
<1>2. \A u : IsFiniteSet(After(u)) /\ Cardinality(After(u)) \in Nat
  BY FS_Subset, FS_CardinalityType
<1>3. \A u \in N : Cardinality(After(u)) < n
  <2> SUFFICES ASSUME NEW u \in N
               PROVE  Cardinality(After(u)) < n
    OBVIOUS
  <2> QED
    BY DEF Newest
<1>4. rank \in [N -> 0..(n - 1)]
  BY <1>2, <1>3
<1>5. ASSUME NEW u \in N, NEW w \in N, u < w
      PROVE  Cardinality(After(w)) < Cardinality(After(u))
  <2>1. u \in X /\ w \in X /\ u \in Nat /\ w \in Nat
    BY <1>1
  <2>2. After(w) \subseteq After(u)
    <3> SUFFICES ASSUME NEW v \in X, v > w
                 PROVE  v > u
      OBVIOUS
    <3>1. v \in Nat
      OBVIOUS
    <3> QED
      BY <1>5, <2>1, <3>1
  <2>3. After(w) # After(u)
    BY <1>5, <2>1
  <2>4. /\ Cardinality(After(w)) <= Cardinality(After(u))
        /\ Cardinality(After(u)) # Cardinality(After(w))
    <3> HIDE DEF After
    <3> QED
      BY <1>2, <2>2, <2>3, FS_Subset
  <2> QED
    BY <1>2, <2>4
<1>6. ASSUME NEW u \in N, NEW w \in N, rank[u] = rank[w]
      PROVE  u = w
  <2>1. Cardinality(After(u)) = Cardinality(After(w))
    BY <1>6
  <2>2. ~(u < w) /\ ~(w < u)
    <3> HIDE DEF N, After
    <3> QED
      BY <1>2, <1>5, <2>1
  <2>3. u \in Nat /\ w \in Nat
    BY <1>1
  <2> QED
    BY <2>2, <2>3
<1>7. rank \in Injection(N, 0..(n - 1))
  <2> HIDE DEF N
  <2> QED
    BY <1>4, <1>6 DEF Injection, IsInjective
<1>8. IsFiniteSet(0..(n - 1)) /\ Cardinality(0..(n - 1)) = n
  BY FS_Interval
<1>9. Cardinality(N) <= n
  <2> HIDE DEF N, rank
  <2> QED
    BY <1>7, <1>8, FS_Injection
<1> QED
  BY <1>1, <1>9

LEMMA ServerPageType ==
  ASSUME server \in [User -> Status \cup {Absent}],
         NEW f \in Filter, NEW n \in Nat
  PROVE  ServerPage(f, n) \in Pages
<1> DEFINE M == Matching(f)
           before == Newest(M, n * Limit)
           U == Newest(M \ before, Limit)
<1>1. M \subseteq User /\ User \subseteq Nat /\ IsFiniteSet(User) /\ Limit \in Nat
  BY UsersFinite DEF Matching, Exists
<1>2. IsFiniteSet(M) /\ IsFiniteSet(M \ before) /\ Cardinality(M) \in Nat
  <2> HIDE DEF M, before
  <2> QED
    BY <1>1, FS_Subset, FS_CardinalityType
<1>3. U \subseteq M /\ Cardinality(U) <= Limit
  <2> HIDE DEF M, before
  <2> QED
    BY <1>1, <1>2, NewestShort
<1>4. [u \in U |-> server[u]] \in [U -> Status]
  <2> SUFFICES ASSUME NEW u \in U
               PROVE  server[u] \in Status
    OBVIOUS
  <2>1. u \in M
    BY <1>3
  <2> QED
    BY <2>1 DEF Matching, Exists
<1>5. ServerPage(f, n) = [rows |-> [u \in U |-> server[u]], total |-> Cardinality(M)]
  BY DEF ServerPage, RowsOf
<1> QED
  <2> HIDE DEF M, U
  <2> QED
    BY <1>1, <1>2, <1>3, <1>4, <1>5, PageMade

LEMMA UpsertedType ==
  ASSUME NEW d \in Pages, NEW u \in User, NEW st \in Status, NEW key,
         NEW allowInsert \in BOOLEAN
  PROVE  Upserted(d, u, st, key, allowInsert) \in Pages
<1> DEFINE added == [v \in DOMAIN d.rows \cup {u} |-> IF v = u THEN st ELSE d.rows[v]]
           fewer == [v \in DOMAIN d.rows \ {u} |-> d.rows[v]]
           U == Newest(DOMAIN added, Limit)
           first == [v \in U |-> added[v]]
           less == IF d.total = 0 THEN 0 ELSE d.total - 1
<1>1. /\ d = [rows |-> d.rows, total |-> d.total]
      /\ DOMAIN d.rows \subseteq User
      /\ d.rows \in [DOMAIN d.rows -> Status]
      /\ Cardinality(DOMAIN d.rows) <= Limit
      /\ d.total \in Nat
      /\ IsFiniteSet(User) /\ User \subseteq Nat /\ Limit \in Nat
  BY PageFacts, UsersFinite
<1>2. added \in [DOMAIN d.rows \cup {u} -> Status] /\ DOMAIN added = DOMAIN d.rows \cup {u}
  BY <1>1
<1>3. IsFiniteSet(DOMAIN d.rows) /\ IsFiniteSet(DOMAIN added)
  BY <1>1, <1>2, FS_Subset
<1>4. u \in DOMAIN d.rows => [rows |-> added, total |-> d.total] \in Pages
  <2> SUFFICES ASSUME u \in DOMAIN d.rows
               PROVE  [rows |-> added, total |-> d.total] \in Pages
    OBVIOUS
  <2>1. DOMAIN d.rows \cup {u} = DOMAIN d.rows
    OBVIOUS
  <2> HIDE DEF added
  <2> QED
    BY <1>1, <1>2, <2>1, PageMade
<1>5. [rows |-> fewer, total |-> less] \in Pages
  <2>1. fewer \in [DOMAIN d.rows \ {u} -> Status] /\ less \in Nat
    BY <1>1
  <2>2. Cardinality(DOMAIN d.rows \ {u}) <= Limit
    <3>1. /\ Cardinality(DOMAIN d.rows \ {u}) <= Cardinality(DOMAIN d.rows)
          /\ Cardinality(DOMAIN d.rows \ {u}) \in Nat /\ Cardinality(DOMAIN d.rows) \in Nat
      BY <1>3, FS_Subset, FS_CardinalityType
    <3> QED
      BY <1>1, <3>1
  <2> HIDE DEF fewer, less
  <2> QED
    BY <1>1, <2>1, <2>2, PageMade
<1>6. [rows |-> first, total |-> d.total + 1] \in Pages
  <2>1. U \subseteq DOMAIN added /\ Cardinality(U) <= Limit
    <3>1. DOMAIN added \in SUBSET Nat
      BY <1>1, <1>2
    <3> HIDE DEF added
    <3> QED
      BY <1>1, <1>3, <3>1, NewestShort
  <2>2. U \subseteq User
    BY <1>1, <1>2, <2>1
  <2>3. first \in [U -> Status]
    <3> HIDE DEF added, U
    <3> QED
      BY <1>2, <2>1
  <2> HIDE DEF U, first
  <2> QED
    BY <1>1, <2>1, <2>2, <2>3, PageMade
<1>7. Upserted(d, u, st, key, allowInsert) \in
        {d, [d EXCEPT !.rows = added], [rows |-> fewer, total |-> less],
         [rows |-> first, total |-> d.total + 1]}
  BY DEF Upserted, RowsOf
<1>8. u \notin DOMAIN d.rows => Upserted(d, u, st, key, allowInsert) \in
        {d, [rows |-> first, total |-> d.total + 1]}
  BY DEF Upserted, RowsOf
<1>9. [d EXCEPT !.rows = added] = [rows |-> added, total |-> d.total]
  <2> HIDE DEF added
  <2> QED
    BY <1>1
<1> QED
  <2> HIDE DEF added, fewer, first, less
  <2> QED
    BY <1>4, <1>5, <1>6, <1>7, <1>8, <1>9

LEMMA RemovedType ==
  ASSUME NEW d \in Pages, NEW rows, DOMAIN rows \subseteq User, NEW key
  PROVE  Removed(d, rows, key) \in Pages
<1> DEFINE gone == {u \in DOMAIN rows : u \in DOMAIN d.rows
                                        \/ MatchesUserFilters(rows[u], key.filter)}
           n == Cardinality(gone)
           U == DOMAIN d.rows \ DOMAIN rows
           left == [u \in U |-> d.rows[u]]
           less == IF n > d.total THEN 0 ELSE d.total - n
<1>1. /\ DOMAIN d.rows \subseteq User
      /\ d.rows \in [DOMAIN d.rows -> Status]
      /\ Cardinality(DOMAIN d.rows) <= Limit
      /\ d.total \in Nat
      /\ IsFiniteSet(User) /\ Limit \in Nat
  BY PageFacts, UsersFinite
<1>2. n \in Nat
  <2>1. gone \subseteq User
    OBVIOUS
  <2> HIDE DEF gone
  <2> QED
    BY <1>1, <2>1, FS_Subset, FS_CardinalityType
<1>3. less \in Nat
  <2> HIDE DEF n
  <2> QED
    BY <1>1, <1>2
<1>4. U \subseteq User /\ Cardinality(U) <= Limit
  <2>1. IsFiniteSet(DOMAIN d.rows)
    BY <1>1, FS_Subset
  <2>2. /\ Cardinality(U) <= Cardinality(DOMAIN d.rows)
        /\ Cardinality(U) \in Nat /\ Cardinality(DOMAIN d.rows) \in Nat
    BY <2>1, FS_Subset, FS_CardinalityType
  <2> QED
    BY <1>1, <2>2
<1>5. left \in [U -> Status]
  BY <1>1
<1>6. Removed(d, rows, key) = [rows |-> left, total |-> less]
  BY DEF Removed, RowsOf
<1> QED
  <2> HIDE DEF left, less, U
  <2> QED
    BY <1>3, <1>4, <1>5, <1>6, PageMade

Kinds == {"loading", "rows", "none"}

Ops == BulkOp \cup {"modify", "create", "remove"}

RequestsOf == [op : Ops, ids : SUBSET User, to : Status \cup {None}, done : BOOLEAN,
               seen : SUBSET User]

\* A request for one user has that user and a status.
OneUser(r) == r.op \in {"modify", "create", "remove"} => r.to \in Status /\ \E u \in User : r.ids = {u}

TableType ==
  /\ careless \in Habits
  /\ server \in [User -> Status \cup {Absent}]
  /\ query \in [filter : Filter, page : 0..Cardinality(User)]
  /\ data \in Pages \cup {None} /\ previous \in Pages \cup {None}
  /\ fetch \in Pages \cup {None, Sent} /\ auto \in BOOLEAN
  /\ table \in [kind : Kinds, sel : SUBSET User]
  /\ selected \in SUBSET User
  /\ dialog \in BulkOp \cup {None}
  /\ reqs \in SUBSET RequestsOf /\ \A r \in reqs : OneUser(r)
  /\ sure \in SUBSET {"data", "fetch"}

\* The rows a table of this kind shows.
VisibleIn(kind, d, p, f) ==
  IF kind = "rows" THEN DOMAIN Shown(UsersData(d, p, f)).rows ELSE {}

Rows == VisibleIn(table.kind, data, previous, fetch)

\* What is selected is a row of the table, and the page and its table agree on it,
\* unless there is no table: then the page keeps the selection of the last one.
Screen ==
  /\ table.sel \subseteq Rows
  /\ table.kind # "none" => selected = table.sel

LEMMA VisibleIsRows ==
  /\ Visible \subseteq Rows
  /\ table.kind = "rows" /\ ~IsPageLoading => Visible = Rows
BY DEF Visible, Rows, VisibleIn

LEMMA RenderOK ==
  ASSUME table \in [kind : Kinds, sel : SUBSET User], selected \in SUBSET User,
         table.kind # "none" => selected = table.sel,
         NEW d, NEW p, NEW f, NEW filter, NEW reset \in BOOLEAN,
         Render(d, p, f, filter, reset)
  PROVE  /\ table' \in [kind : Kinds, sel : SUBSET User]
         /\ selected' \in SUBSET User
         /\ table'.sel \subseteq VisibleIn(table'.kind, d, p, f)
         /\ table'.kind # "none" => selected' = table'.sel
<1> DEFINE kind == TableFor(UsersData(d, p, f), f, filter)
           visible == IF kind = "rows" THEN DOMAIN Shown(UsersData(d, p, f)).rows ELSE {}
           next == NextRowSelection(table.sel, visible, reset \/ kind # table.kind)
<1>1. /\ table' = [kind |-> kind, sel |-> IF kind = "none" THEN {} ELSE next]
      /\ selected' = IF reset THEN {}
                     ELSE IF kind = "none" THEN selected
                     ELSE IF kind # table.kind \/ next # table.sel THEN next
                     ELSE selected
  BY DEF Render
<1>2. kind \in Kinds
  BY DEF TableFor, Kinds
<1>3. next \subseteq visible /\ next \subseteq User /\ (reset => next = {})
  <2> HIDE DEF visible, kind
  <2> QED
    BY DEF NextRowSelection
<1>4. visible = VisibleIn(kind, d, p, f)
  BY DEF VisibleIn
<1> HIDE DEF kind, visible, next
<1> QED
  BY <1>1, <1>2, <1>3, <1>4

\* No row is shown when there is no data, whatever the server holds.
LEMMA VisibleRead ==
  VisibleIn(table.kind, data, previous, fetch)' =
    IF table'.kind # "rows" THEN {}
    ELSE IF UsersData(data', previous', fetch') = None THEN {}
    ELSE DOMAIN UsersData(data', previous', fetch').rows
BY DEF VisibleIn, Shown, NoRows, RowsOf, UsersData

LEMMA RowsVisible ==
  Rows =
    IF table.kind # "rows" THEN {}
    ELSE IF UsersData(data, previous, fetch) = None THEN {}
    ELSE DOMAIN UsersData(data, previous, fetch).rows
BY DEF Rows, VisibleIn, Shown, NoRows, RowsOf

LEMMA RenderScreen ==
  ASSUME TableType, Screen, NEW filter, NEW reset \in BOOLEAN,
         Render(data', previous', fetch', filter, reset)
  PROVE  /\ table' \in [kind : Kinds, sel : SUBSET User]
         /\ selected' \in SUBSET User
         /\ Screen'
<1>1. /\ table' \in [kind : Kinds, sel : SUBSET User]
      /\ selected' \in SUBSET User
      /\ table'.sel \subseteq VisibleIn(table'.kind, data', previous', fetch')
      /\ table'.kind # "none" => selected' = table'.sel
  <2>1. \A d, p, f : Render(d, p, f, filter, reset) =>
          /\ table' \in [kind : Kinds, sel : SUBSET User]
          /\ selected' \in SUBSET User
          /\ table'.sel \subseteq VisibleIn(table'.kind, d, p, f)
          /\ table'.kind # "none" => selected' = table'.sel
    BY RenderOK DEF TableType, Screen
  <2> QED
    BY <2>1
<1>2. VisibleIn(table'.kind, data', previous', fetch') \subseteq Rows'
  BY DEF VisibleIn, Rows, Shown, NoRows, RowsOf
<1> QED
  BY <1>1, <1>2 DEF Screen

\* An action that leaves the data and the table alone, or changes only the
\* server, leaves the rows on screen.
LEMMA SameScreen ==
  ASSUME Screen, UNCHANGED <<data, previous, fetch, table, selected>>
  PROVE  Screen'
<1>1. Rows' = Rows
  BY DEF Rows, VisibleIn, Shown, NoRows, RowsOf, UsersData
<1> QED
  BY <1>1 DEF Screen

TableInv == TableType /\ Screen

LEMMA InitTableInv ==
  ASSUME TableInit
  PROVE  TableInv
<1>1. Cardinality(User) \in Nat
  BY UsersFinite
<1>2. query \in [filter : Filter, page : 0..Cardinality(User)]
  BY <1>1, TableAssumption DEF TableInit
<1>3. TableType
  BY <1>2, TableAssumption DEF TableInit, TableType, Kinds, RequestsOf, BulkOp
<1>4. Screen
  BY DEF TableInit, Screen
<1> QED
  BY <1>3, <1>4 DEF TableInv

LEMMA QueryInv ==
  ASSUME TableInv, NEW f \in Filter, NEW n \in 0..Cardinality(User),
         ChangeQuery(f, n)
  PROVE  TableInv'
<1>1. Render(data', previous', fetch', f, FALSE)
  BY DEF ChangeQuery
<1>2. /\ table' \in [kind : Kinds, sel : SUBSET User]
      /\ selected' \in SUBSET User
      /\ Screen'
  BY <1>1, RenderScreen DEF TableInv
<1>3. TableType'
  BY <1>2 DEF TableInv, TableType, ChangeQuery
<1> QED
  BY <1>2, <1>3 DEF TableInv

LEMMA RefetchType ==
  ASSUME TableType
  PROVE  Refetched \in Pages \cup {Sent}
BY TableAssumption DEF TableType, Refetched

LEMMA RefreshInv ==
  ASSUME TableInv, NEW isAuto \in BOOLEAN, Refresh(isAuto)
  PROVE  TableInv'
<1>1. Render(data', previous', fetch', query.filter, FALSE)
  BY DEF Refresh
<1>2. /\ table' \in [kind : Kinds, sel : SUBSET User]
      /\ selected' \in SUBSET User
      /\ Screen'
  BY <1>1, RenderScreen DEF TableInv
<1>3. fetch' \in Pages \cup {None, Sent}
  BY RefetchType DEF TableInv, Refresh
<1>4. TableType'
  BY <1>2, <1>3 DEF TableInv, TableType, Refresh
<1> QED
  BY <1>2, <1>4 DEF TableInv

LEMMA FetchReadInv ==
  ASSUME TableInv, FetchRead
  PROVE  TableInv' /\ fetch' \in Pages
<1>1. fetch' \in Pages
  BY ServerPageType DEF FetchRead, TableInv, TableType
<1>2. UsersData(data', previous', fetch') = UsersData(data, previous, fetch)
  BY <1>1, NotAPage, TableAssumption DEF FetchRead, UsersData
<1>3. Rows' = Rows
  BY <1>2 DEF FetchRead, Rows, VisibleIn, Shown, NoRows
<1>4. Screen'
  BY <1>3 DEF FetchRead, TableInv, Screen
<1>5. TableType'
  BY <1>1 DEF FetchRead, TableInv, TableType
<1> QED
  BY <1>1, <1>4, <1>5 DEF TableInv

LEMMA FetchEndsInv ==
  ASSUME TableInv, FetchAnswer \/ FetchFails
  PROVE  TableInv'
<1>1. Render(data', previous', fetch', query.filter, FALSE)
  BY DEF FetchAnswer, FetchFails
<1>2. /\ table' \in [kind : Kinds, sel : SUBSET User]
      /\ selected' \in SUBSET User
      /\ Screen'
  BY <1>1, RenderScreen DEF TableInv
<1>3. TableType'
  BY <1>2 DEF TableInv, TableType, FetchAnswer, FetchFails
<1> QED
  BY <1>2, <1>3 DEF TableInv

LEMMA ToggleInv ==
  ASSUME TableInv, NEW u \in User, ToggleRow(u)
  PROVE  TableInv'
<1> DEFINE sel == IF u \in table.sel THEN table.sel \ {u} ELSE table.sel \cup {u}
<1>1. table \in [kind : Kinds, sel : SUBSET User] /\ table.sel \subseteq Rows
  BY DEF TableInv, TableType, Screen
<1>2. table' = [table EXCEPT !.sel = sel] /\ selected' = sel /\ u \in Rows
  BY VisibleIsRows DEF ToggleRow
<1>3. /\ table'.kind = table.kind /\ table'.sel = sel
      /\ sel \subseteq Rows /\ sel \subseteq User
      /\ table' \in [kind : Kinds, sel : SUBSET User]
  BY <1>1, <1>2
<1>4. Rows' = Rows
  BY <1>3 DEF ToggleRow, Rows, VisibleIn, Shown, NoRows, UsersData
<1>5. Screen'
  BY <1>2, <1>3, <1>4 DEF Screen
<1>6. TableType'
  BY <1>2, <1>3 DEF TableInv, TableType, ToggleRow
<1> QED
  BY <1>5, <1>6 DEF TableInv

LEMMA ClearSelectionInv ==
  ASSUME TableInv, ClearSelection
  PROVE  TableInv'
<1>1. Render(data', previous', fetch', query.filter, TRUE)
  BY DEF ClearSelection
<1>2. /\ table' \in [kind : Kinds, sel : SUBSET User]
      /\ selected' \in SUBSET User
      /\ Screen'
  BY <1>1, RenderScreen DEF TableInv
<1>3. TableType'
  BY <1>2 DEF TableInv, TableType, ClearSelection
<1> QED
  BY <1>2, <1>3 DEF TableInv

LEMMA BulkTargetsSelected ==
  ASSUME NEW op
  PROVE  BulkTargets(op) \subseteq selected
BY DEF BulkTargets, SelectedDisableEligible, SelectedEnableEligible, SelectedUsers

LEMMA VisibleType ==
  ASSUME TableType
  PROVE  Visible \subseteq User
<1>1. \A d \in Pages : DOMAIN d.rows \subseteq User
  BY PageFacts
<1>2. UsersData(data, previous, fetch) \in Pages \cup {None}
  BY DEF TableType, UsersData
<1> QED
  BY <1>1, <1>2, RowsVisible, VisibleIsRows

LEMMA BulkDialogInv ==
  ASSUME TableInv,
         (\E op \in BulkOp : OpenBulk(op)) \/ CancelBulk
  PROVE  TableInv'
<1>1. Screen'
  BY SameScreen DEF TableInv, OpenBulk, CancelBulk
<1>2. TableType'
  BY DEF TableInv, TableType, OpenBulk, CancelBulk
<1> QED
  BY <1>1, <1>2 DEF TableInv

LEMMA ConfirmBulkInv ==
  ASSUME TableInv, ConfirmBulk
  PROVE  TableInv'
<1>1. Screen'
  BY SameScreen DEF TableInv, ConfirmBulk
<1> DEFINE r == [op |-> dialog, ids |-> BulkTargets(dialog), to |-> None,
                 done |-> FALSE, seen |-> Visible]
<1>2. BulkTargets(dialog) \in SUBSET User /\ Visible \in SUBSET User
  BY BulkTargetsSelected, VisibleType DEF TableInv, TableType
<1>3. dialog \in BulkOp
  BY DEF TableInv, TableType, ConfirmBulk
<1>4. r \in RequestsOf
  BY <1>2, <1>3 DEF RequestsOf, Ops
<1>5. OneUser(r)
  BY <1>3 DEF OneUser, BulkOp
<1>6. reqs' \subseteq reqs \cup {r}
  BY DEF ConfirmBulk
<1>7. reqs' \in SUBSET RequestsOf /\ \A q \in reqs' : OneUser(q)
  <2> HIDE DEF r
  <2> QED
    BY <1>4, <1>5, <1>6 DEF TableInv, TableType
<1>8. TableType'
  BY <1>7 DEF TableInv, TableType, ConfirmBulk, OneUser, SureOnSend
<1> QED
  BY <1>1, <1>8 DEF TableInv

LEMMA ServerAppliesInv ==
  ASSUME TableInv, NEW r \in reqs, ServerApplies(r)
  PROVE  TableInv'
<1>1. Screen'
  BY SameScreen DEF TableInv, ServerApplies
<1>2. r \in RequestsOf /\ OneUser(r)
  BY DEF TableInv, TableType
<1>3. \A u \in User : StatusAfter(r, u) \in Status \cup {Absent}
  BY <1>2, TableAssumption DEF StatusAfter, TableInv, TableType, OneUser
<1>4. server' \in [User -> Status \cup {Absent}]
  BY <1>3 DEF ServerApplies, TableInv, TableType
<1> DEFINE q == [r EXCEPT !.done = TRUE]
<1>5. q \in RequestsOf /\ OneUser(q)
  BY <1>2 DEF RequestsOf, OneUser
<1>6. reqs' \in SUBSET RequestsOf /\ \A x \in reqs' : OneUser(x)
  <2>1. reqs' = (reqs \ {r}) \cup {q}
    BY DEF ServerApplies
  <2> HIDE DEF q
  <2> QED
    BY <1>5, <2>1 DEF TableInv, TableType
<1>7. TableType'
  BY <1>4, <1>6 DEF TableInv, TableType, ServerApplies, OneUser
<1> QED
  BY <1>1, <1>7 DEF TableInv

LEMMA RequestFailsInv ==
  ASSUME TableInv, NEW r \in reqs, RequestFails(r)
  PROVE  TableInv'
<1>1. Screen'
  BY SameScreen DEF TableInv, RequestFails
<1>2. TableType'
  BY DEF TableInv, TableType, RequestFails, OneUser
<1> QED
  BY <1>1, <1>2 DEF TableInv

LEMMA PatchInv ==
  ASSUME TableInv, NEW d \in Pages \cup {None}, NEW reset \in BOOLEAN,
         Patch(d, reset), reqs' \subseteq reqs, UNCHANGED <<careless, server, query, fetch, auto,
                                                       dialog>>,
         sure' \subseteq sure
  PROVE  TableInv'
<1>1. Render(data', previous', fetch', query.filter, reset)
  BY DEF Patch
<1>2. /\ table' \in [kind : Kinds, sel : SUBSET User]
      /\ selected' \in SUBSET User
      /\ Screen'
  BY <1>1, RenderScreen DEF TableInv
<1>3. data' \in Pages \cup {None} /\ previous' \in Pages \cup {None}
  BY DEF Patch, TableInv, TableType
<1>4. TableType'
  BY <1>2, <1>3 DEF TableInv, TableType, OneUser
<1> QED
  BY <1>2, <1>4 DEF TableInv

LEMMA BulkDeletedInv ==
  ASSUME TableInv, NEW r \in reqs, BulkDeleted(r)
  PROVE  TableInv'
<1> DEFINE gone == RowsOf(SelectedUsers \cap r.ids, RowStatus)
           d == IF data = None THEN None ELSE Removed(data, gone, query)
<1>1. DOMAIN gone \subseteq User
  BY DEF RowsOf, SelectedUsers, TableInv, TableType
<1>2. d \in Pages \cup {None}
  <2> HIDE DEF gone
  <2> QED
    BY <1>1, RemovedType DEF TableInv, TableType
<1>3. Patch(d, TRUE) /\ reqs' \subseteq reqs /\ sure' \subseteq sure
  BY DEF BulkDeleted, SureOnPatch
<1> HIDE DEF d
<1> QED
  BY <1>2, <1>3, PatchInv DEF BulkDeleted

LEMMA BulkChangedInv ==
  ASSUME TableInv, NEW r \in reqs, BulkChanged(r)
  PROVE  TableInv'
<1>1. Render(data', previous', fetch', query.filter, TRUE)
  BY DEF BulkChanged
<1>2. /\ table' \in [kind : Kinds, sel : SUBSET User]
      /\ selected' \in SUBSET User
      /\ Screen'
  BY <1>1, RenderScreen DEF TableInv
<1>3. fetch' \in Pages \cup {None, Sent}
  BY RefetchType DEF TableInv, BulkChanged
<1>4. TableType'
  BY <1>2, <1>3 DEF TableInv, TableType, BulkChanged, OneUser
<1> QED
  BY <1>2, <1>4 DEF TableInv

LEMMA SavedInv ==
  ASSUME TableInv, NEW r \in reqs, Saved(r)
  PROVE  TableInv'
<1> DEFINE u == CHOOSE v \in r.ids : TRUE
           d == IF data = None THEN None ELSE Upserted(data, u, r.to, query, TRUE)
<1>1. u \in User /\ r.to \in Status
  BY DEF Saved, TableInv, TableType, OneUser
<1>2. d \in Pages \cup {None}
  <2> HIDE DEF u
  <2> QED
    BY <1>1, UpsertedType DEF TableInv, TableType
<1>3. Patch(d, FALSE) /\ reqs' \subseteq reqs /\ sure' \subseteq sure
  BY DEF Saved, SureOnPatch
<1> HIDE DEF d
<1> QED
  BY <1>2, <1>3, PatchInv DEF Saved

LEMMA UserRemovedInv ==
  ASSUME TableInv, NEW r \in reqs, UserRemoved(r)
  PROVE  TableInv'
<1> DEFINE gone == [u \in r.ids |-> r.to]
           d == IF data = None THEN None ELSE Removed(data, gone, query)
<1>1. DOMAIN gone \subseteq User
  BY DEF TableInv, TableType, RequestsOf
<1>2. d \in Pages \cup {None}
  <2> HIDE DEF gone
  <2> QED
    BY <1>1, RemovedType DEF TableInv, TableType
<1>3. Patch(d, FALSE) /\ reqs' \subseteq reqs /\ sure' \subseteq sure
  BY DEF UserRemoved, SureOnPatch
<1> HIDE DEF d
<1> QED
  BY <1>2, <1>3, PatchInv DEF UserRemoved

LEMMA SendInv ==
  ASSUME TableInv, NEW op \in {"modify", "create", "remove"},
         NEW u \in User, NEW st \in Status, Send(Request(op, u, st))
  PROVE  TableInv'
<1>1. Screen'
  BY SameScreen DEF TableInv, Send
<1> DEFINE r == Request(op, u, st)
<1>2. r \in RequestsOf /\ OneUser(r)
  BY DEF RequestsOf, Ops, OneUser, Request
<1>3. reqs' \in SUBSET RequestsOf /\ \A q \in reqs' : OneUser(q)
  <2>1. reqs' = reqs \cup {r}
    BY DEF Send
  <2> HIDE DEF r
  <2> QED
    BY <1>2, <2>1 DEF TableInv, TableType
<1>4. TableType'
  BY <1>3 DEF TableInv, TableType, Send, OneUser, SureOnSend
<1> QED
  BY <1>1, <1>4 DEF TableInv

LEMMA RowStatusType ==
  ASSUME TableType, NEW u \in Visible
  PROVE  RowStatus[u] \in Status
<1> DEFINE d == UsersData(data, previous, fetch)
<1>1. d \in Pages /\ u \in DOMAIN d.rows
  BY RowsVisible, VisibleIsRows DEF TableType, UsersData
<1>2. d.rows[u] \in Status
  <2> HIDE DEF d
  <2> QED
    BY <1>1, PageFacts
<1>3. d # None
  BY RowsVisible, VisibleIsRows
<1> HIDE DEF d
<1>4. RowStatus = d.rows
  BY <1>3 DEF RowStatus, Shown, d
<1> QED
  BY <1>2, <1>4

LEMMA SubmitInv ==
  ASSUME TableInv, DialogOK, NEW st \in Status,
         SubmitEdit(st) \/ \E u \in User : SubmitCreate(u, st)
  PROVE  TableInv'
<1>1. CASE SubmitEdit(st)
  <2>1. edit.user \in User
    BY <1>1 DEF DialogOK, SubmitEdit
  <2> QED
    BY <1>1, <2>1, SendInv DEF SubmitEdit
<1>2. CASE \E u \in User : SubmitCreate(u, st)
  BY <1>2, SendInv DEF SubmitCreate
<1> QED
  BY <1>1, <1>2

LEMMA ConfirmDeleteInv ==
  ASSUME TableInv, NEW u \in User, ConfirmDelete(u)
  PROVE  TableInv'
BY SendInv, RowStatusType DEF ConfirmDelete, TableInv

LEMMA EditInv ==
  ASSUME TableInv,
         (\E u \in User : HandleEdit(u)) \/ HandleEditModalClose \/ EditTimer
  PROVE  TableInv'
<1>1. Screen'
  BY SameScreen DEF TableInv, HandleEdit, HandleEditModalClose, EditTimer
<1>2. TableType'
  BY DEF TableInv, TableType, HandleEdit, HandleEditModalClose, EditTimer, OneUser
<1> QED
  BY <1>1, <1>2 DEF TableInv

LEMMA OtherChangesInv ==
  ASSUME TableInv, NEW u \in User, NEW st \in Status \cup {Absent},
         OtherChanges(u, st)
  PROVE  TableInv'
<1>1. Screen'
  BY SameScreen DEF TableInv, OtherChanges
<1>2. TableType'
  BY DEF TableInv, TableType, OtherChanges, OneUser
<1> QED
  BY <1>1, <1>2 DEF TableInv

LEMMA StutterInv ==
  ASSUME TableInv, UNCHANGED tableVars
  PROVE  TableInv'
<1>1. Screen'
  BY SameScreen DEF TableInv, tableVars
<1>2. TableType'
  BY DEF TableInv, TableType, tableVars, OneUser
<1> QED
  BY <1>1, <1>2 DEF TableInv

LEMMA NextTableInv ==
  ASSUME TableInv, DialogOK, [TableNext]_tableVars
  PROVE  TableInv'
<1>1. CASE UNCHANGED tableVars
  BY <1>1, StutterInv
<1>2. ASSUME NEW f \in Filter, SetTableFilters(f)
      PROVE  TableInv'
  <2>1. 0 \in 0..Cardinality(User)
    BY UsersFinite
  <2> QED
    BY <1>2, <2>1, QueryInv DEF SetTableFilters
<1>3. ASSUME NEW n \in 0..Cardinality(User), SetPage(n)
      PROVE  TableInv'
  <2>1. query.filter \in Filter
    BY DEF TableInv, TableType
  <2> QED
    BY <1>3, <2>1, QueryInv, UsersFinite DEF SetPage
<1>4. CASE \E a \in BOOLEAN : Refresh(a)
  BY <1>4, RefreshInv
<1>5. CASE FetchRead \/ FetchAnswer \/ FetchFails
  BY <1>5, FetchReadInv, FetchEndsInv
<1>6. ASSUME NEW u \in User, ToggleRow(u) \/ HandleEdit(u) \/ ConfirmDelete(u)
      PROVE  TableInv'
  BY <1>6, ToggleInv, EditInv, ConfirmDeleteInv
<1>7. CASE ClearSelection
  BY <1>7, ClearSelectionInv
<1>8. CASE (\E op \in BulkOp : OpenBulk(op)) \/ CancelBulk \/ ConfirmBulk
  BY <1>8, BulkDialogInv, ConfirmBulkInv
<1>9. ASSUME NEW r \in reqs, ServerApplies(r) \/ RequestFails(r) \/ BulkDeleted(r)
      PROVE  TableInv'
  BY <1>9, ServerAppliesInv, RequestFailsInv, BulkDeletedInv
<1>10. ASSUME NEW r \in reqs, BulkChanged(r) \/ Saved(r) \/ UserRemoved(r)
       PROVE  TableInv'
  BY <1>10, BulkChangedInv, SavedInv, UserRemovedInv
<1>11. CASE HandleEditModalClose \/ EditTimer
  BY <1>11, EditInv
<1>12. CASE \E st \in Status : SubmitEdit(st) \/ \E u \in User : SubmitCreate(u, st)
  BY <1>12, SubmitInv
<1>13. CASE \E u \in User, st \in Status \cup {Absent} : OtherChanges(u, st)
  BY <1>13, OtherChangesInv
<1> QED
  BY <1>1, <1>2, <1>3, <1>4, <1>5, <1>6, <1>7, <1>8, <1>9, <1>10, <1>11, <1>12, <1>13 DEF TableNext

\* Every variable of the users page has its type in every behaviour: no sequence of
\* fetches and cache patches makes a page longer than the limit or its total
\* negative, and no selection or request names anyone but a user.
THEOREM TableTypes == TableSpec => []TableTypeOK
<1> DEFINE I == TableInv /\ DialogOK
<1>1. TableInit => I
  <2>1. TableInit => DialogOK
    BY DEF TableInit, DialogOK
  <2> QED
    BY <2>1, InitTableInv
<1>2. I /\ [TableNext]_tableVars => I'
  BY NextTableInv, NextDialog
<1>3. I => TableTypeOK
  <2> SUFFICES ASSUME TableType, DialogOK
               PROVE  TableTypeOK
    BY DEF TableInv
  <2>1. \A d \in Pages : PageOK(d)
    BY PageFacts DEF PageOK
  <2>2. \A r \in reqs : r.ids \subseteq User /\ r.done \in BOOLEAN
    BY DEF TableType, RequestsOf
  <2>3. data # Sent /\ previous # Sent
    BY NotAPage, TableAssumption DEF TableType
  <2> QED
    BY <2>1, <2>2, <2>3, UsersFinite DEF TableType, DialogOK, TableTypeOK, Kinds
<1> HIDE DEF I
<1> QED
  BY <1>1, <1>2, <1>3, PTL DEF TableSpec

---------------------------------------------------------------------------
(* Bulk actions.                                                           *)

Sighted == careless \cap {"empty", "loading"} = {}

LEMMA NextBulkHits ==
  ASSUME TableInv, Sighted, BulkHitsVisible, [TableNext]_tableVars
  PROVE  BulkHitsVisible'
<1>1. CASE UNCHANGED tableVars
  BY <1>1 DEF tableVars, BulkHitsVisible
<1>2. ASSUME UNCHANGED reqs
      PROVE  BulkHitsVisible'
  BY <1>2 DEF BulkHitsVisible
<1>3. CASE ConfirmBulk
  <2>1. table.kind = "rows" /\ ~IsPageLoading
    BY <1>3 DEF ConfirmBulk, Sighted
  <2>2. selected \subseteq Visible
    BY <2>1, VisibleIsRows DEF TableInv, Screen
  <2>3. BulkTargets(dialog) \subseteq Visible
    BY <2>2, BulkTargetsSelected
  <2> QED
    BY <1>3, <2>3 DEF ConfirmBulk, BulkHitsVisible
<1>4. ASSUME NEW r \in reqs, ServerApplies(r)
      PROVE  BulkHitsVisible'
  <2>1. [r EXCEPT !.done = TRUE].ids = r.ids /\ [r EXCEPT !.done = TRUE].seen = r.seen
    BY DEF TableInv, TableType, RequestsOf
  <2> QED
    BY <1>4, <2>1 DEF ServerApplies, BulkHitsVisible
<1>5. ASSUME reqs' \subseteq reqs
      PROVE  BulkHitsVisible'
  BY <1>5 DEF BulkHitsVisible
<1>6. ASSUME NEW op, NEW u, NEW st, Send(Request(op, u, st))
      PROVE  BulkHitsVisible'
  BY <1>6 DEF Send, Request, BulkHitsVisible
<1>7. CASE \/ \E f \in Filter : SetTableFilters(f)
           \/ \E p \in 0..Cardinality(User) : SetPage(p)
           \/ \E a \in BOOLEAN : Refresh(a)
           \/ FetchRead \/ FetchAnswer \/ FetchFails
  BY <1>2, <1>7 DEF SetTableFilters, SetPage, ChangeQuery, Refresh, FetchRead,
                    FetchAnswer, FetchFails
<1>8. CASE \/ \E u \in User : ToggleRow(u) \/ HandleEdit(u)
           \/ ClearSelection
           \/ \E op \in BulkOp : OpenBulk(op)
           \/ CancelBulk \/ HandleEditModalClose \/ EditTimer
           \/ \E u \in User, st \in Status \cup {Absent} : OtherChanges(u, st)
  BY <1>2, <1>8 DEF ToggleRow, HandleEdit, ClearSelection, OpenBulk, CancelBulk,
                    HandleEditModalClose, EditTimer, OtherChanges
<1>9. ASSUME NEW r \in reqs, RequestFails(r) \/ BulkDeleted(r) \/ BulkChanged(r) \/ Saved(r)
                             \/ UserRemoved(r)
      PROVE  BulkHitsVisible'
  BY <1>5, <1>9 DEF RequestFails, BulkDeleted, BulkChanged, Saved, UserRemoved
<1>10. CASE \/ \E u \in User : ConfirmDelete(u)
            \/ \E st \in Status : SubmitEdit(st) \/ \E u \in User : SubmitCreate(u, st)
  BY <1>6, <1>10 DEF ConfirmDelete, SubmitEdit, SubmitCreate
<1> QED
  BY <1>1, <1>3, <1>4, <1>7, <1>8, <1>9, <1>10 DEF TableNext

\* Without the two habits that the runs of the empty and of the loading table show
\* to be dangerous (a bulk action confirmed while no table, or one of skeleton rows,
\* is shown), a bulk action is only ever sent for rows that were on screen when it
\* was confirmed, whatever happened between the selection and the confirmation.
THEOREM BulkOnScreen ==
  ASSUME \A h \in Habits : h \cap {"empty", "loading"} = {}
  PROVE  TableSpec => []BulkHitsVisible
<1> DEFINE I == TableInv /\ DialogOK /\ BulkHitsVisible
<1>1. TableInit => I
  <2>1. TableInit => DialogOK /\ BulkHitsVisible
    BY DEF TableInit, DialogOK, BulkHitsVisible
  <2> QED
    BY <2>1, InitTableInv
<1>2. I /\ [TableNext]_tableVars => I'
  <2>1. TableInv => Sighted
    BY DEF TableInv, TableType, Sighted
  <2> QED
    BY <2>1, NextTableInv, NextDialog, NextBulkHits
<1>3. I => BulkHitsVisible
  OBVIOUS
<1> HIDE DEF I
<1> QED
  BY <1>1, <1>2, <1>3, PTL DEF TableSpec

---------------------------------------------------------------------------
(* The cached page.                                                        *)

\* The users the server would list, all pages together.
Match == {u \in User : server[u] \in Keeps[query.filter] /\ u \in Only[query.filter]}

RowsFresh(rows, U) == \A u \in U : u \in Match /\ rows[u] = server[u]

Fresh(d) == RowsFresh(d.rows, DOMAIN d.rows) /\ d.total = Cardinality(Match)

\* A user that is to be created does not exist.
Aim(r) == r.op = "create" /\ ~r.done => \A u \in r.ids : server[u] = Absent

\* How the page differs from the server once the server has applied a request.
Behind(r) ==
  /\ RowsFresh(data.rows, DOMAIN data.rows \ r.ids)
  /\ r.op \in {"delete", "remove"} => r.ids \cap Match = {}
  /\ r.op \in {"modify", "create"} => \A u \in r.ids : server[u] = r.to /\ u \in Only[query.filter]
  /\ r.op = "create" => r.ids \cap DOMAIN data.rows = {}
  /\ data.total = IF r.op = "create" THEN Cardinality(Match \ r.ids)
                                     ELSE Cardinality(Match \cup r.ids)

Patched == {"delete", "remove", "modify", "create"}

\* A fetch that is sure has read the page of the server; data that is sure is that
\* of the server, but for one mutation the cache has yet to learn of.
Cached ==
  /\ "fetch" \in sure => reqs = {} /\ fetch \in Pages /\ Fresh(fetch)
  /\ "data" \in sure =>
       /\ data # None
       /\ \A q, r \in reqs : q = r
       /\ (\A r \in reqs : ~r.done) => Fresh(data)
       /\ \A r \in reqs : Aim(r) /\ (Placed(r) /\ r.done /\ r.op \in Patched => Behind(r))

LEMMA MatchingIs ==
  ASSUME TableType
  PROVE  Matching(query.filter) = Match
BY TableAssumption DEF Matching, Exists, Match, TableType

LEMMA MatchFinite ==
  IsFiniteSet(Match) /\ Cardinality(Match) \in Nat /\ Match \subseteq User
BY UsersFinite, FS_Subset, FS_CardinalityType DEF Match

\* What is not sure of anything is not wrong about it.
LEMMA UnsureCached ==
  ASSUME sure' = {}
  PROVE  Cached'
BY DEF Cached

\* The server, the data and the requests stay; a fetch may have been read.
LEMMA FetchCached ==
  ASSUME Cached, UNCHANGED <<server, query, data, reqs>>,
         "data" \in sure' => "data" \in sure,
         "fetch" \in sure' => reqs' = {} /\ fetch' \in Pages /\ Fresh(fetch)'
  PROVE  Cached'
<1>1. Match' = Match
  BY DEF Match
<1>2. Fresh(data) => Fresh(data)'
  BY <1>1 DEF Fresh, RowsFresh
<1>3. \A r : (Aim(r) => Aim(r)') /\ (Placed(r)' => Placed(r))
  BY DEF Aim, Placed
<1>4. \A r : Behind(r) => Behind(r)'
  BY <1>1 DEF Behind, RowsFresh
<1> QED
  BY <1>2, <1>3, <1>4 DEF Cached

LEMMA CachedSame ==
  ASSUME Cached, UNCHANGED <<server, query, data, fetch, reqs, sure>>
  PROVE  Cached'
<1>1. Fresh(fetch) => Fresh(fetch)'
  BY DEF Fresh, RowsFresh, Match
<1> QED
  BY <1>1, FetchCached DEF Cached

LEMMA RefreshCached ==
  ASSUME TableInv, Cached, NEW isAuto, Refresh(isAuto)
  PROVE  Cached'
<1>1. /\ UNCHANGED <<server, query, data, reqs>>
      /\ fetch' = Refetched
      /\ sure' = IF Refetched = Sent THEN sure \ {"fetch"} ELSE sure
  BY DEF Refresh
<1>2. "fetch" \in sure' => fetch' = fetch /\ "fetch" \in sure
  BY <1>1 DEF Refetched
<1>3. "fetch" \in sure' => reqs' = {} /\ fetch' \in Pages /\ Fresh(fetch)'
  BY <1>1, <1>2 DEF Cached, Fresh, RowsFresh, Match
<1>4. "data" \in sure' => "data" \in sure
  BY <1>1
<1> QED
  BY <1>1, <1>3, <1>4, FetchCached

LEMMA FetchReadCached ==
  ASSUME TableInv, Cached, FetchRead
  PROVE  Cached'
<1>1. UNCHANGED <<server, query, data, reqs>> /\ Sent \notin Pages /\ fetch = Sent
  BY NotAPage DEF FetchRead
<1>2. fetch' \in Pages
  BY FetchReadInv
<1> DEFINE before == Newest(Match, query.page * Limit)
           U == Newest(Match \ before, Limit)
<1>3. fetch' = [rows |-> [u \in U |-> server[u]], total |-> Cardinality(Match)]
  BY MatchingIs DEF FetchRead, ServerPage, RowsOf, TableInv
<1>4. U \subseteq Match
  BY DEF Newest
<1>5. Match' = Match /\ server' = server
  BY <1>1 DEF Match
<1>6. Fresh(fetch)'
  <2> HIDE DEF U
  <2> QED
    BY <1>3, <1>4, <1>5 DEF Fresh, RowsFresh
<1>7. /\ "fetch" \in sure' => reqs = {}
      /\ "data" \in sure' => "data" \in sure
  BY <1>1 DEF FetchRead, Cached
<1> QED
  BY <1>1, <1>2, <1>6, <1>7, FetchCached

LEMMA FetchAnswerCached ==
  ASSUME TableInv, Cached, FetchAnswer
  PROVE  Cached'
<1>1. CASE "fetch" \notin sure
  BY <1>1, UnsureCached DEF FetchAnswer
<1>2. CASE "fetch" \in sure
  <2>1. reqs = {} /\ fetch \in Pages /\ Fresh(fetch)
    BY <1>2 DEF Cached
  <2>2. data' = fetch /\ sure' = {"data"} /\ UNCHANGED <<server, query, reqs>>
    BY <1>2 DEF FetchAnswer
  <2>3. Fresh(data)' /\ data' # None
    BY <2>1, <2>2, NotAPage DEF Fresh, RowsFresh, Match
  <2> QED
    BY <2>1, <2>2, <2>3 DEF Cached
<1> QED
  BY <1>1, <1>2

LEMMA FetchFailsCached ==
  ASSUME TableInv, Cached, FetchFails
  PROVE  Cached'
<1>1. UNCHANGED <<server, query, data, reqs, sure>> /\ "fetch" \notin sure
  BY NotAPage DEF FetchFails, Cached
<1> QED
  BY <1>1, FetchCached

\* A request is sent: with nothing else under way, the data may stay sure.
LEMMA SentCached ==
  ASSUME Cached, UNCHANGED <<server, query, data>>, sure' = SureOnSend,
         NEW r, ~r.done, Aim(r), reqs' \subseteq reqs \cup {r}
  PROVE  Cached'
<1>1. CASE reqs # {}
  BY <1>1, UnsureCached DEF SureOnSend
<1>2. CASE reqs = {}
  <2>1. "fetch" \notin sure' /\ ("data" \in sure' => "data" \in sure)
    BY <1>2 DEF SureOnSend
  <2>2. "data" \in sure => Fresh(data)' /\ data' # None
    BY <1>2 DEF Cached, Fresh, RowsFresh, Match
  <2>3. \A q \in reqs' : q = r /\ Aim(q)'
    BY <1>2 DEF Aim
  <2> QED
    BY <2>1, <2>2, <2>3 DEF Cached
<1> QED
  BY <1>1, <1>2

LEMMA ConfirmBulkCached ==
  ASSUME TableInv, Cached, ConfirmBulk
  PROVE  Cached'
<1> DEFINE r == [op |-> dialog, ids |-> BulkTargets(dialog), to |-> None,
                 done |-> FALSE, seen |-> Visible]
<1>1. dialog \in BulkOp
  BY DEF ConfirmBulk, TableInv, TableType
<1>2. ~r.done /\ r.op \in BulkOp
  BY <1>1
<1>3. reqs' \subseteq reqs \cup {r} /\ UNCHANGED <<server, query, data>> /\ sure' = SureOnSend
  BY DEF ConfirmBulk
<1> HIDE DEF r
<1>4. Aim(r)
  BY <1>2 DEF Aim, BulkOp
<1> QED
  BY <1>2, <1>3, <1>4, SentCached

LEMMA SendCached ==
  ASSUME Cached, NEW op, NEW u, NEW st, Send(Request(op, u, st)),
         op = "create" => server[u] = Absent
  PROVE  Cached'
<1> DEFINE r == Request(op, u, st)
<1>1. r.ids = {u} /\ ~r.done /\ r.op = op
  BY DEF Request
<1>2. reqs' \subseteq reqs \cup {r} /\ UNCHANGED <<server, query, data>> /\ sure' = SureOnSend
  BY DEF Send
<1> HIDE DEF r
<1>3. Aim(r)
  BY <1>1 DEF Aim
<1> QED
  BY <1>1, <1>2, <1>3, SentCached

LEMMA SubmitCached ==
  ASSUME Cached, NEW st \in Status,
         SubmitEdit(st) \/ \E u \in User : SubmitCreate(u, st) \/ ConfirmDelete(u)
  PROVE  Cached'
BY SendCached DEF SubmitEdit, SubmitCreate, ConfirmDelete

LEMMA ServerAppliesCached ==
  ASSUME TableInv, Cached, NEW r \in reqs, ServerApplies(r)
  PROVE  Cached'
<1> DEFINE q == [r EXCEPT !.done = TRUE]
<1>0. SUFFICES ASSUME "data" \in sure
               PROVE  Aim(q)' /\ (Placed(q)' /\ r.op \in Patched => Behind(q)')
  <2>1. sure' = sure /\ "fetch" \notin sure
    BY DEF ServerApplies, Cached
  <2>2. r \in RequestsOf
    BY DEF TableInv, TableType
  <2>3. q.done /\ q.op = r.op
    BY <2>2 DEF RequestsOf
  <2>4. "data" \in sure => reqs = {r}
    BY DEF Cached
  <2>5. reqs' = (reqs \ {r}) \cup {q} /\ data' = data
    BY DEF ServerApplies
  <2> HIDE DEF q
  <2> QED
    BY <2>1, <2>3, <2>4, <2>5 DEF Cached
<1>1. r \in RequestsOf /\ OneUser(r) /\ ~r.done /\ data \in Pages
  BY <1>0 DEF ServerApplies, TableInv, TableType, Cached
<1>2. /\ q.op = r.op /\ q.ids = r.ids /\ q.to = r.to /\ q.done
      /\ q \in RequestsOf
  BY <1>1 DEF RequestsOf
<1>3. UNCHANGED <<query, data>>
  BY DEF ServerApplies
<1>4. Fresh(data) /\ Aim(r)
  BY <1>0, <1>1 DEF Cached
<1>5. \A u \in User \ r.ids : server'[u] = server[u]
  BY DEF ServerApplies
<1>6. \A u \in User \ r.ids : u \in Match' <=> u \in Match
  BY <1>3, <1>5 DEF Match
<1>7. RowsFresh(data.rows, DOMAIN data.rows \ r.ids)'
  <2>1. DOMAIN data.rows \subseteq User
    BY <1>1, PageFacts
  <2> QED
    BY <1>3, <1>4, <1>5, <1>6, <2>1 DEF RowsFresh, Fresh
<1>8. Match \subseteq User /\ Match' \subseteq User /\ r.ids \subseteq User
  BY <1>1 DEF Match, RequestsOf
<1>9. Aim(q)' /\ (Placed(q)' => Placed(r))
  BY <1>2, <1>3 DEF Aim, Placed
<1> HIDE DEF q
<1>10. SUFFICES ASSUME Placed(r), r.op \in Patched
                PROVE  Behind(q)'
  BY <1>9
<1>11. ASSUME r.op \in {"delete", "remove", "modify"}
      PROVE  r.ids \subseteq Match /\ Match' \cup r.ids = Match
  <2>1. r.ids \subseteq Match
    BY <1>4, <1>10, <1>11 DEF Placed, Fresh, RowsFresh
  <2> QED
    BY <1>6, <1>8, <2>1
<1>12. CASE r.op \in {"delete", "remove"}
  <2>1. \A u \in r.ids : server'[u] = Absent
    BY <1>8, <1>12 DEF ServerApplies, StatusAfter
  <2>2. r.ids \cap Match' = {}
    BY <1>3, <2>1, TableAssumption DEF Match, TableInv, TableType
  <2> QED
    BY <1>2, <1>3, <1>4, <1>7, <1>11, <1>12, <2>2 DEF Behind, Fresh
<1>13. CASE r.op = "modify"
  <2>1. \A u \in r.ids : server'[u] = r.to
    BY <1>8, <1>13 DEF ServerApplies, StatusAfter
  <2>2. \A u \in r.ids : u \in Only[query.filter]
    BY <1>11, <1>13 DEF Match
  <2> QED
    BY <1>2, <1>3, <1>4, <1>7, <1>11, <1>13, <2>1, <2>2 DEF Behind, Fresh
<1>14. CASE r.op = "create"
  <2>1. \A u \in r.ids : server'[u] = r.to /\ u \in Only[query.filter]
    BY <1>8, <1>10, <1>14 DEF ServerApplies, StatusAfter, Placed
  <2>2. r.ids \cap Match = {}
    BY <1>1, <1>4, <1>14, TableAssumption DEF Aim, Match, TableInv, TableType
  <2>3. Match' \ r.ids = Match
    BY <1>6, <1>8, <2>2
  <2>4. r.ids \cap DOMAIN data.rows = {}
    BY <1>4, <2>2 DEF Fresh, RowsFresh
  <2> QED
    BY <1>2, <1>3, <1>4, <1>7, <1>14, <2>1, <2>3, <2>4 DEF Behind, Fresh
<1> QED
  BY <1>10, <1>12, <1>13, <1>14 DEF Patched

LEMMA RequestFailsCached ==
  ASSUME TableInv, Cached, NEW r \in reqs, RequestFails(r)
  PROVE  Cached'
<1>1. CASE r.done
  BY <1>1, UnsureCached DEF RequestFails
<1>2. CASE ~r.done
  <2>1. UNCHANGED <<server, query, data, sure>> /\ reqs' = reqs \ {r} /\ "fetch" \notin sure
    BY <1>2 DEF RequestFails, Cached
  <2>2. "data" \in sure => reqs' = {} /\ Fresh(data)' /\ data' # None
    BY <1>2, <2>1 DEF Cached, Fresh, RowsFresh, Match
  <2> QED
    BY <2>1, <2>2 DEF Cached
<1> QED
  BY <1>1, <1>2

\* The answer of a mutation is patched in: what is still sure must be fresh.
LEMMA PatchedCached ==
  ASSUME Cached, NEW r \in reqs, sure' \subseteq sure,
         "data" \in sure' => reqs' = {} /\ data' # None /\ Fresh(data)'
  PROVE  Cached'
BY DEF Cached

\* The users a mutation deleted are taken from the page, and from its total.
LEMMA RemovedFresh ==
  ASSUME TableInv, Cached, NEW r \in reqs, r.done, r.op \in {"delete", "remove"},
         "data" \in sure, Placed(r), data \in Pages, NEW rows, DOMAIN rows = r.ids, UNCHANGED <<server, query>>,
         data' = Removed(data, rows, query)
  PROVE  Fresh(data)'
<1> DEFINE gone == {u \in DOMAIN rows : u \in DOMAIN data.rows
                                        \/ MatchesUserFilters(rows[u], query.filter)}
           n == Cardinality(gone)
           U == DOMAIN data.rows \ r.ids
           left == [u \in U |-> data.rows[u]]
           less == IF n > data.total THEN 0 ELSE data.total - n
<1>1. Behind(r) /\ r.ids \subseteq DOMAIN data.rows
  BY DEF Cached, Patched, Placed
<1>2. r.ids \subseteq DOMAIN data.rows /\ r.ids \cap Match = {} /\ RowsFresh(data.rows, U)
      /\ data.total = Cardinality(Match \cup r.ids)
  BY <1>1 DEF Behind
<1>3. data' = [rows |-> left, total |-> less]
  BY DEF Removed, RowsOf
<1>4. gone = r.ids
  BY <1>2
<1>5. /\ IsFiniteSet(Match) /\ Cardinality(Match) \in Nat
      /\ IsFiniteSet(r.ids) /\ Cardinality(r.ids) \in Nat
  <2>1. r.ids \subseteq User
    BY DEF TableInv, TableType, RequestsOf
  <2> QED
    BY <2>1, UsersFinite, MatchFinite, FS_Subset, FS_CardinalityType
<1>6. Cardinality(Match \cup r.ids) = Cardinality(Match) + Cardinality(r.ids)
  <2>1. Match \cap r.ids = {}
    BY <1>2
  <2>2. Cardinality(Match \cup r.ids) = Cardinality(Match) + Cardinality(r.ids) - Cardinality(Match \cap r.ids)
    BY <1>5, FS_Union
  <2>3. Cardinality(Match \cap r.ids) = 0
    BY <2>1, FS_EmptySet, Zenon
  <2> QED
    BY <1>5, <2>2, <2>3
<1>7. less = Cardinality(Match)
  <2>1. n = Cardinality(r.ids)
    BY <1>4
  <2> HIDE DEF n
  <2> QED
    BY <1>2, <1>5, <1>6, <2>1
<1>8. Match' = Match
  BY DEF Match
<1> HIDE DEF less
<1>9. data'.total = Cardinality(Match)' /\ data'.rows = left /\ DOMAIN left = U
  BY <1>3, <1>7, <1>8
<1>10. \A u \in U : u \in Match /\ left[u] = server[u]
  BY <1>2 DEF RowsFresh
<1> QED
  BY <1>8, <1>9, <1>10 DEF Fresh, RowsFresh

LEMMA BulkDeletedCached ==
  ASSUME TableInv, Cached, NEW r \in reqs, BulkDeleted(r)
  PROVE  Cached'
<1> DEFINE rows == RowsOf(SelectedUsers \cap r.ids, RowStatus)
<1>0. SUFFICES ASSUME "data" \in sure'
               PROVE  reqs' = {} /\ data' # None /\ Fresh(data)'
  BY PatchedCached DEF BulkDeleted, SureOnPatch
<1>1. /\ reqs' = {} /\ data # None /\ data \in Pages /\ "data" \in sure
      /\ r.ids \subseteq SelectedUsers
  BY <1>0 DEF BulkDeleted, Cached, TableInv, TableType, SureOnPatch
<1>2. r.done /\ r.op = "delete"
  BY DEF BulkDeleted
<1>3. Placed(r)
  BY <1>1, <1>2 DEF Placed, SelectedUsers, RowStatus, Shown, UsersData
<1>4. DOMAIN rows = r.ids
  BY <1>1 DEF RowsOf
<1>5. data' = Removed(data, rows, query) /\ UNCHANGED <<server, query>>
  BY <1>1 DEF BulkDeleted, Patch
<1>6. DOMAIN rows \subseteq User
  BY <1>4 DEF TableInv, TableType, RequestsOf
<1> HIDE DEF rows
<1>7. Fresh(data)'
  BY <1>1, <1>2, <1>3, <1>4, <1>5, RemovedFresh
<1>8. data' # None
  BY <1>1, <1>5, <1>6, RemovedType, NotAPage
<1> QED
  BY <1>1, <1>7, <1>8

LEMMA UserRemovedCached ==
  ASSUME TableInv, Cached, NEW r \in reqs, UserRemoved(r)
  PROVE  Cached'
<1> DEFINE rows == [u \in r.ids |-> r.to]
<1>0. SUFFICES ASSUME "data" \in sure'
               PROVE  reqs' = {} /\ data' # None /\ Fresh(data)'
  BY PatchedCached DEF UserRemoved, SureOnPatch
<1>1. reqs' = {} /\ data # None /\ data \in Pages /\ "data" \in sure /\ Placed(r)
  BY <1>0 DEF UserRemoved, Cached, TableInv, TableType, SureOnPatch
<1>2. r.done /\ r.op = "remove" /\ DOMAIN rows = r.ids
  BY DEF UserRemoved
<1>3. data' = Removed(data, rows, query) /\ UNCHANGED <<server, query>>
  BY <1>1 DEF UserRemoved, Patch
<1>4. DOMAIN rows \subseteq User
  BY <1>2 DEF TableInv, TableType, RequestsOf
<1> HIDE DEF rows
<1>5. Fresh(data)'
  BY <1>1, <1>2, <1>3, RemovedFresh
<1>6. data' # None
  BY <1>1, <1>3, <1>4, RemovedType, NotAPage
<1> QED
  BY <1>1, <1>5, <1>6

LEMMA SavedCached ==
  ASSUME TableInv, Cached, NEW r \in reqs, Saved(r)
  PROVE  Cached'
<1>0. SUFFICES ASSUME "data" \in sure'
               PROVE  reqs' = {} /\ data' # None /\ Fresh(data)'
  BY PatchedCached DEF Saved, SureOnPatch
<1>1. reqs' = {} /\ data # None /\ data \in Pages /\ "data" \in sure /\ Placed(r)
  BY <1>0 DEF Saved, Cached, TableInv, TableType, SureOnPatch
<1>2. r.done /\ r.op \in {"modify", "create"}
  BY DEF Saved
<1>3. PICK u \in User : r.ids = {u}
  BY <1>2 DEF TableInv, TableType, OneUser
<1>4. r.to \in Status /\ (CHOOSE v \in r.ids : TRUE) = u
  <2>1. r.to \in Status
    BY <1>2 DEF TableInv, TableType, OneUser
  <2>2. \E v : v \in r.ids /\ TRUE
    BY <1>3
  <2>3. (CHOOSE v \in r.ids : TRUE) \in r.ids
    BY <2>2
  <2> QED
    BY <1>3, <2>1, <2>3
<1>5. data' = Upserted(data, u, r.to, query, TRUE) /\ UNCHANGED <<server, query>>
  BY <1>1, <1>4 DEF Saved, Patch
<1>6. data' \in Pages /\ data' # None
  <2>1. Upserted(data, u, r.to, query, TRUE) \in Pages
    BY <1>1, <1>4, UpsertedType
  <2> QED
    BY <1>5, <2>1, NotAPage
<1>7. /\ DOMAIN data.rows \subseteq User
      /\ data = [rows |-> data.rows, total |-> data.total]
      /\ data.total \in Nat
  BY <1>1, PageFacts
<1>8. Behind(r)
  BY <1>1, <1>2 DEF Cached, Patched
<1>9. /\ server[u] = r.to /\ u \in Only[query.filter]
      /\ \A v \in DOMAIN data.rows : v # u => v \in Match /\ data.rows[v] = server[v]
  BY <1>2, <1>3, <1>8 DEF Behind, RowsFresh
<1>10. u \in Match <=> MatchesUserFilters(r.to, query.filter)
  BY <1>9 DEF Match, MatchesUserFilters
<1>11. IsFiniteSet(Match) /\ Cardinality(Match) \in Nat
  BY MatchFinite
<1>12. Match' = Match /\ server' = server
  BY <1>5 DEF Match
<1> DEFINE added == [v \in DOMAIN data.rows \cup {u} |-> IF v = u THEN r.to ELSE data.rows[v]]
<1>13. \A v \in DOMAIN added : v # u => v \in Match /\ added[v] = server[v]
  BY <1>9
<1>14. u \in DOMAIN added /\ added[u] = server[u]
  BY <1>9
<1>15. ASSUME r.op = "modify"
       PROVE  Fresh(data)'
  <2>1. u \in DOMAIN data.rows /\ data.total = Cardinality(Match \cup {u})
    BY <1>1, <1>3, <1>8, <1>15 DEF Placed, Behind
  <2>2. CASE u \in Match
    <3>1. data' = [data EXCEPT !.rows = added]
      BY <1>5, <1>10, <2>1, <2>2 DEF Upserted
    <3> HIDE DEF added
    <3>2. data'.rows = added /\ data'.total = data.total
      BY <1>7, <3>1
    <3>3. Match \cup {u} = Match
      BY <2>2
    <3> QED
      BY <1>12, <1>13, <1>14, <2>1, <2>2, <3>2, <3>3 DEF Fresh, RowsFresh
  <2>3. CASE u \notin Match
    <3> DEFINE fewer == [v \in DOMAIN data.rows \ {u} |-> data.rows[v]]
               less == IF data.total = 0 THEN 0 ELSE data.total - 1
    <3>1. data' = [rows |-> fewer, total |-> less]
      BY <1>5, <1>10, <2>1, <2>3 DEF Upserted, RowsOf
    <3>2. data.total = Cardinality(Match) + 1
      BY <1>11, <2>1, <2>3, FS_AddElement
    <3>3. less = Cardinality(Match)
      BY <1>11, <3>2
    <3>4. data'.rows = fewer /\ data'.total = Cardinality(Match)
      BY <3>1, <3>3
    <3> QED
      BY <1>9, <1>12, <3>4 DEF Fresh, RowsFresh
  <2> QED
    BY <2>2, <2>3
<1>16. ASSUME r.op = "create"
       PROVE  Fresh(data)'
  <2>1. u \notin DOMAIN data.rows /\ query.page = 0 /\ data.total = Cardinality(Match \ {u})
    BY <1>1, <1>3, <1>8, <1>16 DEF Placed, Behind
  <2>2. CASE u \in Match
    <3> DEFINE U == Newest(DOMAIN added, Limit)
               first == [v \in U |-> added[v]]
    <3>1. data' = [rows |-> first, total |-> data.total + 1]
      BY <1>5, <1>10, <2>1, <2>2 DEF Upserted, RowsOf
    <3>2. U \subseteq DOMAIN added
      BY DEF Newest
    <3> HIDE DEF U, added
    <3>3. data.total = Cardinality(Match) - 1
      BY <1>11, <2>1, <2>2, FS_RemoveElement
    <3>4. data'.rows = first /\ data'.total = Cardinality(Match)
      BY <1>7, <1>11, <3>1, <3>3
    <3> QED
      BY <1>12, <1>13, <1>14, <2>2, <3>2, <3>4 DEF Fresh, RowsFresh
  <2>3. CASE u \notin Match
    <3>1. data' = data
      BY <1>5, <1>10, <2>1, <2>3 DEF Upserted
    <3>2. Match \ {u} = Match
      BY <2>3
    <3> QED
      BY <1>9, <1>12, <2>1, <3>1, <3>2 DEF Fresh, RowsFresh
  <2> QED
    BY <2>2, <2>3
<1>17. Fresh(data)'
  BY <1>2, <1>15, <1>16
<1> QED
  BY <1>1, <1>6, <1>17

LEMMA NextCached ==
  ASSUME TableInv, Cached, [TableNext]_tableVars
  PROVE  Cached'
<1>1. CASE UNCHANGED tableVars
  BY <1>1, CachedSame DEF tableVars
<1>2. CASE \/ \E f \in Filter : SetTableFilters(f)
           \/ \E p \in 0..Cardinality(User) : SetPage(p)
           \/ \E u \in User, st \in Status \cup {Absent} : OtherChanges(u, st)
  BY <1>2, UnsureCached DEF SetTableFilters, SetPage, ChangeQuery, OtherChanges
<1>3. CASE \E a \in BOOLEAN : Refresh(a)
  BY <1>3, RefreshCached
<1>4. CASE FetchRead \/ FetchAnswer \/ FetchFails
  BY <1>4, FetchReadCached, FetchAnswerCached, FetchFailsCached
<1>5. CASE \/ \E u \in User : ToggleRow(u) \/ HandleEdit(u)
           \/ ClearSelection
           \/ \E op \in BulkOp : OpenBulk(op)
           \/ CancelBulk \/ HandleEditModalClose \/ EditTimer
  BY <1>5, CachedSame DEF ToggleRow, ClearSelection, HandleEdit, OpenBulk, CancelBulk,
                          HandleEditModalClose, EditTimer
<1>6. CASE ConfirmBulk
  BY <1>6, ConfirmBulkCached
<1>7. ASSUME NEW u \in User, ConfirmDelete(u)
      PROVE  Cached'
  <2>1. {"active", "disabled"} \subseteq Status
    BY TableAssumption
  <2> QED
    BY <1>7, <2>1, SubmitCached
<1>8. CASE \E st \in Status : SubmitEdit(st) \/ \E u \in User : SubmitCreate(u, st)
  BY <1>8, SubmitCached
<1>9. ASSUME NEW r \in reqs, ServerApplies(r) \/ RequestFails(r) \/ BulkDeleted(r)
      PROVE  Cached'
  BY <1>9, ServerAppliesCached, RequestFailsCached, BulkDeletedCached
<1>10. ASSUME NEW r \in reqs, BulkChanged(r) \/ Saved(r) \/ UserRemoved(r)
       PROVE  Cached'
  BY <1>10, UnsureCached, SavedCached, UserRemovedCached DEF BulkChanged
<1> QED
  BY <1>1, <1>2, <1>3, <1>4, <1>5, <1>6, <1>7, <1>8, <1>9, <1>10 DEF TableNext

\* Patching the cached page after a mutation comes to the same as fetching it again,
\* for every user of the dashboard: from the answer of a fetch that no mutation met,
\* until the page misses a change, every row is a matching user as the server stores
\* it, and the total counts the matching users.
THEOREM CacheIsServer == TableSpec => []CacheMeansServer
<1> DEFINE I == TableInv /\ DialogOK /\ Cached
<1>1. TableInit => I
  <2>1. TableInit => DialogOK
    BY DEF TableInit, DialogOK
  <2>2. TableInit => Cached
    BY DEF TableInit, Cached
  <2> QED
    BY <2>1, <2>2, InitTableInv
<1>2. I /\ [TableNext]_tableVars => I'
  BY NextTableInv, NextDialog, NextCached
<1>3. I => CacheMeansServer
  <2> SUFFICES ASSUME TableType, Cached, "data" \in sure, reqs = {}, data # None
               PROVE  /\ \A u \in DOMAIN data.rows : /\ u \in Matching(query.filter)
                                                     /\ data.rows[u] = server[u]
                      /\ data.total = Cardinality(Matching(query.filter))
    BY DEF TableInv, CacheMeansServer
  <2>1. Fresh(data)
    BY DEF Cached
  <2> QED
    BY <2>1, MatchingIs DEF Fresh, RowsFresh
<1> HIDE DEF I
<1> QED
  BY <1>1, <1>2, <1>3, PTL DEF TableSpec

---------------------------------------------------------------------------
(* The search of the users page: types, and the functions on its state.    *)

UiType == [box : Text, debounced : Text, timer : Text \cup {None}, prev : Text,
           ignore : BOOLEAN, rid : Nat, filter : FilterType]

Addresses == {t \in Text : Trim[t] \in Url}

SearchType ==
  /\ ui \in UiType
  /\ resolving \in SUBSET [id : Nat, text : Addresses]
  /\ advanced \in FilterType \cup {None}
  /\ events \in 0..MaxEvent /\ lost \in BOOLEAN

LEMMA SearchTypes ==
  ASSUME NEW f \in FilterType
  PROVE  /\ ActiveSearch(f) \in Text /\ CurrentSearch(f) \in Text
         /\ OneText(f) /\ f.ids # Empty => Trim[f.ids] = Trim[CurrentSearch(f)]
<1>1. ActiveSearch(f) \in Text /\ CurrentSearch(f) \in Text
  BY DEF ActiveSearch, CurrentSearch, FirstOf, FilterType
<1>2. f.ids # Empty => CurrentSearch(f) \in {f.search, f.proxy, f.ids} \ {Empty}
  BY DEF CurrentSearch, FirstOf
<1> QED
  BY <1>1, <1>2 DEF OneText

LEMMA SearchForOne ==
  ASSUME NEW t \in Text, NEW mode \in Mode
  PROVE  /\ SearchFor(t, mode) \in FilterType
         /\ OneText(SearchFor(t, mode))
         /\ SearchFor(t, mode).ids = IF mode = "id" THEN Ids[t] ELSE Empty
         /\ ActiveSearch(SearchFor(t, mode)) = IF mode = "id" THEN Ids[t] ELSE t
<1> DEFINE f == SearchFor(t, mode)
<1>1. /\ f.mode = mode
      /\ f.search = IF mode = "text" THEN t ELSE Empty
      /\ f.proxy = IF mode = "protocol" THEN t ELSE Empty
      /\ f.ids = IF mode = "id" THEN Ids[t] ELSE Empty
  BY DEF SearchFor
<1>2. Empty \in Text /\ Ids \in [Text -> Text]
  BY SearchAssumption
<1>3. f \in FilterType
  BY <1>2 DEF SearchFor, FilterType
<1> HIDE DEF f
<1>4. OneText(f)
  BY <1>1 DEF OneText, Mode
<1>5. ActiveSearch(f) = IF mode = "id" THEN Ids[t] ELSE t
  BY <1>1 DEF ActiveSearch, FirstOf, Mode
<1> QED
  BY <1>1, <1>3, <1>4, <1>5 DEF f

\* handleFilterChange: what becomes of the filters.
LEMMA FilterChange ==
  ASSUME NEW f \in FilterType, NEW t \in Text, NEW mode \in Mode, NEW e
  PROVE  LET g == HandleFilterChange(f, t, mode, e)
             m == IF Trim[t] = Empty THEN "text" ELSE mode
         IN /\ g \in FilterType
            /\ Trim[t] # CurrentSearch(f) \/ m # f.mode => g = SearchFor(Trim[t], m)
            /\ Trim[t] = CurrentSearch(f) /\ m = f.mode =>
                 /\ g.search = t /\ g.mode = f.mode
                 /\ g.ids = (IF "ids" \in e THEN Empty ELSE f.ids)
                 /\ g.proxy = (IF "proxy" \in e THEN Empty ELSE f.proxy)
            /\ OneText(f) => OneText(g)
<1> DEFINE g == HandleFilterChange(f, t, mode, e)
           m == IF Trim[t] = Empty THEN "text" ELSE mode
<1>1. m \in Mode /\ Trim[t] \in Text /\ Empty \in Text
  BY SearchAssumption DEF Mode
<1>2. CASE Trim[t] # CurrentSearch(f) \/ m # f.mode
  <2>1. g = SearchFor(Trim[t], m)
    BY <1>2 DEF HandleFilterChange
  <2>2. g \in FilterType /\ OneText(g)
    <3> HIDE DEF g, m
    <3> QED
      BY <1>1, <2>1, SearchForOne
  <2> HIDE DEF g, m
  <2> QED
    BY <1>2, <2>1, <2>2 DEF g, m
<1>3. CASE ~(Trim[t] # CurrentSearch(f) \/ m # f.mode)
  <2> DEFINE i == IF "ids" \in e THEN Empty ELSE f.ids
             x == IF "proxy" \in e THEN Empty ELSE f.proxy
  <2>1. g = [f EXCEPT !.search = t, !.ids = i, !.proxy = x]
    BY <1>3 DEF HandleFilterChange
  <2>2. i \in Text /\ x \in Text /\ i \in {Empty, f.ids} /\ x \in {Empty, f.proxy}
    BY <1>1 DEF FilterType
  <2> HIDE DEF g, i, x
  <2>3. /\ g \in FilterType /\ g.mode = f.mode /\ g.search = t /\ g.ids = i /\ g.proxy = x
    BY <2>1, <2>2 DEF FilterType
  <2>4. OneText(f) => OneText(g)
    <3> SUFFICES ASSUME OneText(f), NEW a \in {t, x, i} \ {Empty}
                 PROVE  Trim[a] = Trim[t]
      BY <2>3 DEF OneText
    <3>1. Trim[CurrentSearch(f)] = Trim[t]
      BY <1>3, SearchAssumption
    <3>2. a # t => a \in {f.search, f.proxy, f.ids} \ {Empty}
      BY <2>2
    <3>3. a # t => CurrentSearch(f) \in {f.search, f.proxy, f.ids} \ {Empty}
      BY <3>2 DEF CurrentSearch, FirstOf
    <3> QED
      BY <3>1, <3>2, <3>3 DEF OneText
  <2> HIDE DEF m
  <2> QED
    BY <1>3, <2>1, <2>3, <2>4 DEF g, m, i, x
<1> QED
  BY <1>2, <1>3

\* A change that empties the ids: the text is the active search.
LEMMA TextChange ==
  ASSUME NEW f \in FilterType, NEW t \in Text, NEW e, "ids" \in e, Trim[t] # Empty
  PROVE  /\ HandleFilterChange(f, t, "text", e) \in FilterType
         /\ Trim[ActiveSearch(HandleFilterChange(f, t, "text", e))] = Trim[t]
         /\ Trim[t] = t => ActiveSearch(HandleFilterChange(f, t, "text", e)) = t
<1> DEFINE g == HandleFilterChange(f, t, "text", e)
<1>1. "text" \in Mode /\ Trim[t] \in Text /\ Trim[Trim[t]] = Trim[t] /\ t # Empty
  BY SearchAssumption DEF Mode
<1>2. (IF Trim[t] = Empty THEN "text" ELSE "text") = "text"
  OBVIOUS
<1>3. /\ g \in FilterType
      /\ g = SearchFor(Trim[t], "text") \/ (g.search = t /\ g.ids = Empty)
  BY <1>1, <1>2, FilterChange
<1>4. CASE g = SearchFor(Trim[t], "text")
  <2>1. ActiveSearch(g) = Trim[t]
    BY <1>1, <1>4, SearchForOne
  <2> QED
    BY <1>1, <1>3, <2>1
<1>5. CASE g.search = t /\ g.ids = Empty
  <2> HIDE DEF g
  <2>1. ActiveSearch(g) = t
    BY <1>1, <1>5 DEF ActiveSearch, FirstOf
  <2> QED
    BY <1>1, <1>3, <2>1 DEF g
<1> QED
  BY <1>3, <1>4, <1>5

\* The address bar: the filters it names, and the ones that come of them.
LEMMA UrlChange ==
  ASSUME NEW f \in FilterType, NEW t \in Text, NEW mode \in Mode, NEW ids \in IdList
  PROVE  /\ UrlFilter(t, mode, ids) \in FilterType
         /\ HandleHashChange(f, UrlFilter(t, mode, ids)) \in FilterType
         /\ ids = Empty /\ OneText(f) => OneText(HandleHashChange(f, UrlFilter(t, mode, ids)))
<1> DEFINE u == UrlFilter(t, mode, ids)
           next == IF u.mode = "id" THEN u.ids ELSE FirstOf(u.search, u.proxy, Empty)
           m == IF next = Empty THEN "text" ELSE u.mode
           g == IF next # CurrentSearch(f) \/ m # f.mode THEN SearchFor(next, m) ELSE f
           h == HandleHashChange(f, u)
<1>1. Empty \in Text /\ ids \in Text /\ Ids[t] \in Text
  BY SearchAssumption DEF IdList
<1>2. /\ u \in FilterType /\ u.mode = mode
      /\ u.ids = IF mode = "id" /\ t # Empty THEN Ids[t] ELSE ids
  BY <1>1 DEF UrlFilter, FilterType
<1>3. h = IF m # "id" /\ u.ids # f.ids THEN [g EXCEPT !.ids = u.ids] ELSE g
  BY DEF HandleHashChange
<1> HIDE DEF u, h
<1>4. next \in Text /\ m \in Mode
  BY <1>1, <1>2 DEF FirstOf, FilterType, Mode
<1>5. m # "id" /\ ids = Empty => u.ids = Empty
  BY <1>2
<1> HIDE DEF next, m
<1>6. g \in FilterType /\ (OneText(f) => OneText(g))
  BY <1>4, SearchForOne
<1> HIDE DEF g
<1>7. CASE m # "id" /\ u.ids # f.ids
  <2>1. h = [g EXCEPT !.ids = u.ids]
    BY <1>3, <1>7
  <2>2. /\ h \in FilterType /\ h.ids = u.ids /\ h.search = g.search /\ h.proxy = g.proxy
    BY <1>2, <1>6, <2>1 DEF FilterType
  <2>3. ids = Empty /\ OneText(g) => OneText(h)
    BY <1>5, <1>7, <2>2 DEF OneText
  <2> QED
    BY <1>2, <1>6, <2>2, <2>3 DEF h, u
<1>8. CASE ~(m # "id" /\ u.ids # f.ids)
  BY <1>2, <1>3, <1>6, <1>8 DEF h, u
<1> QED
  BY <1>7, <1>8

\* New filters: the box follows when the active search changed.
Follows(n, s, f) ==
  /\ n \in UiType
  /\ n.filter = f /\ n.rid = s.rid
  /\ ActiveSearch(f) = ActiveSearch(s.filter) =>
       /\ n.timer = s.timer /\ n.box = s.box /\ n.prev = s.prev
       /\ n.debounced = s.debounced /\ n.ignore = s.ignore
  /\ ActiveSearch(f) # ActiveSearch(s.filter) =>
       /\ n.timer = None /\ n.box = ActiveSearch(f) /\ n.prev = ActiveSearch(f)
       /\ n.debounced = ActiveSearch(f)
       /\ n.ignore = (s.ignore /\ ActiveSearch(f) = s.debounced)

LEMMA FiltersSet ==
  ASSUME NEW s \in UiType, NEW f \in FilterType
  PROVE  Follows(SetFilters(s, f), s, f)
<1> DEFINE n == SetFilters(s, f)
           a == ActiveSearch(f)
<1>1. a \in Text
  BY SearchTypes
<1>2. CASE a = ActiveSearch(s.filter)
  <2>1. n = [s EXCEPT !.filter = f]
    BY <1>2 DEF SetFilters
  <2> HIDE DEF n
  <2>2. /\ n \in UiType /\ n.filter = f /\ n.rid = s.rid /\ n.timer = s.timer /\ n.box = s.box
        /\ n.prev = s.prev /\ n.debounced = s.debounced /\ n.ignore = s.ignore
    BY <2>1 DEF UiType
  <2>3. Follows(n, s, f)
    BY <1>2, <2>2 DEF Follows
  <2> QED
    BY <2>3 DEF n
<1>3. CASE a # ActiveSearch(s.filter)
  <2> DEFINE i == (s.ignore /\ a = s.debounced)
  <2>1. n = [s EXCEPT !.filter = f, !.timer = None, !.box = a, !.prev = a, !.debounced = a,
                      !.ignore = i]
    BY <1>3 DEF SetFilters
  <2>2. i \in BOOLEAN
    BY DEF UiType
  <2> HIDE DEF n, i
  <2>3. /\ n \in UiType /\ n.filter = f /\ n.rid = s.rid /\ n.timer = None /\ n.box = a
        /\ n.prev = a /\ n.debounced = a /\ n.ignore = i
    <3> HIDE DEF a
    <3> QED
      BY <1>1, <2>1, <2>2 DEF UiType
  <2>4. Follows(n, s, f)
    BY <1>3, <2>3 DEF Follows, i
  <2> QED
    BY <2>4 DEF n
<1> QED
  BY <1>2, <1>3

---------------------------------------------------------------------------
(* What each step does to the box.                                         *)

LEMMA TypeStep ==
  ASSUME SearchType, NEW t \in Text, Type(t)
  PROVE  /\ ui' \in UiType
         /\ ui'.box = t /\ ui'.timer = t /\ ui'.rid = ui.rid + 1
         /\ ui'.debounced = ui.debounced /\ ui'.prev = ui.prev /\ ui'.ignore = ui.ignore
         /\ ui'.filter = ui.filter
         /\ UNCHANGED <<resolving, advanced>>
<1> DEFINE s == [ui EXCEPT !.rid = ui.rid + 1]
<1>1. ui' = [s EXCEPT !.box = t, !.timer = t] /\ UNCHANGED <<resolving, advanced>>
  BY DEF Type, SetSearch, Superseded
<1>2. ui \in UiType
  BY DEF SearchType
<1>3. /\ s \in UiType /\ s.rid = ui.rid + 1 /\ s.filter = ui.filter
      /\ s.debounced = ui.debounced /\ s.prev = ui.prev /\ s.ignore = ui.ignore
  BY <1>2 DEF UiType
<1> HIDE DEF s
<1> QED
  BY <1>1, <1>3 DEF UiType

\* What the text of the timer makes of the filters.
TimerChange ==
  IF Trim[ui.timer] = Empty THEN HandleFilterChange(ui.filter, ui.timer, "text", Others)
  ELSE HandleFilterChange(ui.filter, ui.timer, ui.filter.mode, {})

\* The text of the timer is applied, unless it is the present one, is to be ignored,
\* or is an address to be resolved first.
LEMMA TimerStep ==
  ASSUME SearchType, TimerFires
  PROVE  /\ ui.timer \in Text /\ ui' \in UiType /\ ui'.timer = None
         /\ UNCHANGED advanced /\ lost' \in BOOLEAN
         /\ ui.timer # ui.debounced => (lost' <=> GivenUp(ui, ui.timer))
         /\ \/ /\ ui'.rid = ui.rid /\ ui'.filter = ui.filter /\ ui'.box = ui.box
               /\ resolving' = resolving
               /\ \/ /\ ui.timer = ui.debounced /\ lost' = lost
                     /\ ui'.debounced = ui.debounced /\ ui'.prev = ui.prev /\ ui'.ignore = ui.ignore
                  \/ /\ ui.ignore \/ ui.timer = ui.prev
                     /\ ui.timer # ui.debounced
                     /\ ui'.debounced = ui.timer /\ ui'.prev = ui.timer /\ ~ui'.ignore
            \/ /\ Trim[ui.timer] \in Url /\ ~ui.ignore
               /\ ui'.rid = ui.rid + 1 /\ ui'.filter = ui.filter /\ ui'.box = ui.box
               /\ ui'.debounced = ui.timer /\ ui'.prev = ui.timer /\ ~ui'.ignore
               /\ resolving' = resolving \cup {[id |-> ui.rid + 1, text |-> ui.timer]}
            \/ /\ Trim[ui.timer] \notin Url /\ ~ui.ignore /\ ui.timer # ui.debounced
               /\ resolving' = resolving
               /\ \E s \in UiType :
                    /\ s.timer = None /\ s.rid = ui.rid + 1 /\ s.filter = ui.filter /\ s.box = ui.box
                    /\ s.debounced = ui.timer /\ s.prev = ui.timer /\ ~s.ignore
                    /\ Follows(ui', s, TimerChange)
         /\ TimerChange \in FilterType
<1> DEFINE t == ui.timer
           s0 == [ui EXCEPT !.timer = None]
           s1 == [s0 EXCEPT !.debounced = t, !.prev = t]
           s2 == [s1 EXCEPT !.rid = s1.rid + 1]
           g == TimerChange
<1>1. t \in Text /\ ui \in UiType /\ ui.filter \in FilterType /\ UNCHANGED advanced /\ lost \in BOOLEAN
  BY DEF TimerFires, SearchType, UiType
<1>2. /\ s0 \in UiType /\ s0.timer = None /\ s0.rid = ui.rid /\ s0.filter = ui.filter
      /\ s0.box = ui.box /\ s0.debounced = ui.debounced /\ s0.prev = ui.prev /\ s0.ignore = ui.ignore
  BY <1>1 DEF UiType
<1> HIDE DEF s0
<1>3. /\ s1 \in UiType /\ s1.timer = None /\ s1.rid = ui.rid /\ s1.filter = ui.filter
      /\ s1.box = ui.box /\ s1.debounced = t /\ s1.prev = t /\ s1.ignore = ui.ignore
  BY <1>1, <1>2 DEF UiType
<1> HIDE DEF s1
<1>4. /\ s2 \in UiType /\ s2.timer = None /\ s2.rid = ui.rid + 1 /\ s2.filter = ui.filter
      /\ s2.box = ui.box /\ s2.debounced = t /\ s2.prev = t /\ s2.ignore = ui.ignore
  BY <1>3 DEF UiType
<1> HIDE DEF s2
<1>5. g \in FilterType
  <2>1. "text" \in Mode /\ ui.filter.mode \in Mode
    BY <1>1 DEF Mode, FilterType
  <2> QED
    BY <1>1, <2>1, FilterChange DEF TimerChange
<1>6. CASE t = ui.debounced
  <2>1. ui' = s0 /\ resolving' = resolving /\ lost' = lost
    BY <1>6 DEF TimerFires, s0
  <2> HIDE DEF g
  <2> QED
    BY <1>1, <1>2, <1>5, <1>6, <2>1 DEF g
<1>7. CASE t # ui.debounced
  <2>1. ui' = Debounced(s0, t) /\ lost' = GivenUp(s0, t)
    BY <1>7 DEF TimerFires, s0
  <2>2. GivenUp(s0, t) <=> GivenUp(ui, t)
    BY <1>2 DEF GivenUp
  <2>3. GivenUp(s0, t) \in BOOLEAN
    BY DEF GivenUp
  <2>4. lost' \in BOOLEAN /\ (lost' <=> GivenUp(ui, t))
    BY <2>1, <2>2, <2>3
  <2>5. resolving' = IF ~ui.ignore /\ t # ui.prev /\ Trim[t] \in Url
                     THEN resolving \cup {[id |-> ui.rid + 1, text |-> t]} ELSE resolving
    <3>1. resolving' = IF ~s0.ignore /\ t # s0.prev /\ Trim[t] \in Url
                       THEN resolving \cup {[id |-> s0.rid + 1, text |-> t]} ELSE resolving
      BY <1>7 DEF TimerFires, s0
    <3> QED
      BY <1>2, <3>1
  <2>6. ui' = IF ui.ignore THEN [s1 EXCEPT !.ignore = FALSE]
              ELSE IF t = ui.prev THEN s1
              ELSE IF Trim[t] \in Url THEN s2
              ELSE SetFilters(s2, g)
    <3>1. ui' = IF s0.ignore THEN [s1 EXCEPT !.ignore = FALSE]
                ELSE IF t = s0.prev THEN s1
                ELSE IF Trim[t] = Empty
                  THEN SetFilters(s2, HandleFilterChange(s0.filter, t, "text", Others))
                ELSE IF Trim[t] \in Url THEN s2
                ELSE SetFilters(s2, HandleFilterChange(s0.filter, t, s0.filter.mode, {}))
      BY <2>1 DEF Debounced, Superseded, s1, s2
    <3>2. Empty \notin Url
      BY SearchAssumption
    <3> QED
      BY <1>2, <3>1, <3>2 DEF TimerChange
  <2> HIDE DEF g
  <2>7. CASE ui.ignore
    <3>1. ui' = [s1 EXCEPT !.ignore = FALSE] /\ resolving' = resolving
      BY <2>5, <2>6, <2>7
    <3>2. /\ ui' \in UiType /\ ui'.timer = None /\ ui'.rid = ui.rid /\ ui'.filter = ui.filter
          /\ ui'.box = ui.box /\ ui'.debounced = t /\ ui'.prev = t /\ ~ui'.ignore
      BY <1>3, <3>1 DEF UiType
    <3> QED
      BY <1>1, <1>5, <1>7, <2>4, <2>7, <3>1, <3>2 DEF g
  <2>8. CASE ~ui.ignore /\ t = ui.prev
    <3>1. ui' = s1 /\ resolving' = resolving
      BY <2>5, <2>6, <2>8
    <3> QED
      BY <1>1, <1>3, <1>5, <1>7, <2>4, <2>8, <3>1 DEF g
  <2>9. CASE ~ui.ignore /\ t # ui.prev /\ Trim[t] \in Url
    <3>1. ui' = s2 /\ resolving' = resolving \cup {[id |-> ui.rid + 1, text |-> t]}
      BY <2>5, <2>6, <2>9
    <3> QED
      BY <1>1, <1>4, <1>5, <2>4, <2>9, <3>1 DEF g
  <2>10. CASE ~ui.ignore /\ t # ui.prev /\ Trim[t] \notin Url
    <3>1. ui' = SetFilters(s2, g) /\ resolving' = resolving
      BY <2>5, <2>6, <2>10
    <3>2. Follows(ui', s2, g)
      BY <1>4, <1>5, <3>1, FiltersSet
    <3>3. ui' \in UiType /\ ui'.timer = None
      BY <1>4, <3>2 DEF Follows
    <3> QED
      BY <1>1, <1>4, <1>5, <1>7, <2>4, <2>10, <3>1, <3>2, <3>3 DEF g
  <2> QED
    BY <2>7, <2>8, <2>9, <2>10
<1> QED
  BY <1>6, <1>7

\* The answer to an address that nothing was typed after, and that names somebody.
LEMMA ResolvedStep ==
  ASSUME SearchType, NEW p \in resolving, ResolveAnswers(p)
  PROVE  /\ resolving' = resolving \ {p}
         /\ UNCHANGED advanced
         /\ lost' \in BOOLEAN
         /\ lost' <=> (SameActive /\ (lost \/ (p.id = ui.rid /\ p.text = ui.debounced)))
         /\ p.id # ui.rid => ui' = ui
         /\ \/ ui' = ui
            \/ /\ p.id = ui.rid
               /\ \E u \in Text \ {Empty}, s \in UiType :
                /\ Trim[u] = u
                /\ s.box = u /\ s.timer = u /\ s.prev = u /\ s.debounced = ui.debounced
                /\ s.ignore = ui.ignore /\ s.rid = ui.rid /\ s.filter = ui.filter
                /\ Follows(ui', s, HandleFilterChange(ui.filter, u, "text", Others))
<1> DEFINE u == Username[Trim[p.text]]
           s0 == [ui EXCEPT !.prev = u]
           s1 == [s0 EXCEPT !.box = u, !.timer = u]
           g == HandleFilterChange(ui.filter, u, "text", Others)
<1>1. ui \in UiType /\ ui.filter \in FilterType /\ Trim[p.text] \in Url
  BY DEF SearchType, UiType, Addresses
<1>2. u \in Text /\ Trim[u] = u
  BY <1>1, SearchAssumption
<1>3. /\ resolving' = resolving \ {p} /\ UNCHANGED advanced
      /\ lost' \in BOOLEAN
      /\ lost' <=> (SameActive /\ (lost \/ (p.id = ui.rid /\ p.text = ui.debounced)))
  BY DEF ResolveAnswers
<1>4. CASE p.id # ui.rid \/ u = Empty
  BY <1>3, <1>4 DEF ResolveAnswers, Resolved
<1>5. CASE p.id = ui.rid /\ u # Empty
  <2>1. ui' = SetFilters(s1, g)
    <3>1. ui' = Resolved(p, ui)
      BY DEF ResolveAnswers
    <3> QED
      BY <1>5, <3>1 DEF Resolved, SetSearch
  <2> HIDE DEF u
  <2>2. s0 \in UiType /\ s0.prev = u /\ s0.debounced = ui.debounced /\ s0.ignore = ui.ignore
        /\ s0.rid = ui.rid /\ s0.filter = ui.filter
    BY <1>1, <1>2 DEF UiType
  <2> HIDE DEF s0
  <2>3. /\ s1 \in UiType /\ s1.box = u /\ s1.timer = u /\ s1.prev = u /\ s1.debounced = ui.debounced
        /\ s1.ignore = ui.ignore /\ s1.rid = ui.rid /\ s1.filter = ui.filter
    BY <1>2, <2>2 DEF UiType
  <2> HIDE DEF s1
  <2>4. g \in FilterType
    <3>1. "text" \in Mode
      BY DEF Mode
    <3> QED
      BY <1>1, <1>2, <3>1, FilterChange
  <2>5. Follows(ui', s1, g)
    <3> HIDE DEF g
    <3> QED
      BY <2>1, <2>3, <2>4, FiltersSet
  <2> QED
    BY <1>2, <1>3, <1>5, <2>3, <2>5
<1> QED
  BY <1>4, <1>5

LEMMA ResolveFailsStep ==
  ASSUME SearchType, NEW p \in resolving, ResolveFails(p)
  PROVE  /\ resolving' = resolving \ {p}
         /\ UNCHANGED advanced
         /\ lost' \in BOOLEAN /\ (lost' <=> lost /\ SameActive)
         /\ p.id # ui.rid => ui' = ui
         /\ p.id = ui.rid => Follows(ui', ui, HandleFilterChange(ui.filter, p.text, "text", {"ids"}))
<1> DEFINE g == HandleFilterChange(ui.filter, p.text, "text", {"ids"})
<1>1. ui \in UiType /\ ui.filter \in FilterType /\ p.text \in Text /\ "text" \in Mode
  BY DEF SearchType, UiType, Addresses, Mode
<1>2. g \in FilterType
  BY <1>1, FilterChange
<1>3. Follows(SetFilters(ui, g), ui, g)
  <2> HIDE DEF g
  <2> QED
    BY <1>1, <1>2, FiltersSet
<1>4. lost' \in BOOLEAN /\ (lost' <=> lost /\ SameActive)
  BY DEF ResolveFails
<1> QED
  BY <1>3, <1>4 DEF ResolveFails

LEMMA ClearStep ==
  ASSUME SearchType, ClearSearch
  PROVE  /\ UNCHANGED <<resolving, advanced>>
         /\ lost' \in BOOLEAN /\ (lost' <=> (lost \/ Asked) /\ SameActive)
         /\ \E s \in UiType :
              /\ s.box = Empty /\ s.timer = Empty /\ s.prev = ui.debounced
              /\ s.debounced = ui.debounced /\ s.ignore /\ s.rid = ui.rid + 1
              /\ s.filter = ui.filter
              /\ Follows(ui', s, HandleFilterChange(ui.filter, Empty, "text", Others))
<1> DEFINE s0 == [ui EXCEPT !.rid = ui.rid + 1]
           s1 == [s0 EXCEPT !.ignore = TRUE, !.prev = ui.debounced]
           s2 == [s1 EXCEPT !.box = Empty, !.timer = Empty]
           g == HandleFilterChange(ui.filter, Empty, "text", Others)
<1>1. ui \in UiType /\ ui.filter \in FilterType /\ Empty \in Text /\ "text" \in Mode
  BY SearchAssumption DEF SearchType, UiType, Mode
<1>2. /\ UNCHANGED <<resolving, advanced>>
      /\ ui' = SetFilters(s2, HandleFilterChange(s2.filter, Empty, "text", Others))
  BY DEF ClearSearch, SetSearch, Superseded
<1>3. s0 \in UiType /\ s0.rid = ui.rid + 1 /\ s0.filter = ui.filter /\ s0.debounced = ui.debounced
  BY <1>1 DEF UiType
<1> HIDE DEF s0
<1>4. /\ s1 \in UiType /\ s1.rid = ui.rid + 1 /\ s1.filter = ui.filter /\ s1.debounced = ui.debounced
      /\ s1.ignore /\ s1.prev = ui.debounced
  BY <1>1, <1>3 DEF UiType
<1> HIDE DEF s1
<1>5. /\ s2 \in UiType /\ s2.rid = ui.rid + 1 /\ s2.filter = ui.filter /\ s2.debounced = ui.debounced
      /\ s2.ignore /\ s2.prev = ui.debounced /\ s2.box = Empty /\ s2.timer = Empty
  BY <1>1, <1>4 DEF UiType
<1> HIDE DEF s2
<1>6. g \in FilterType
  BY <1>1, FilterChange
<1>7. ui' = SetFilters(s2, g)
  BY <1>2, <1>5
<1>8. Follows(ui', s2, g)
  <2> HIDE DEF g
  <2> QED
    BY <1>5, <1>6, <1>7, FiltersSet
<1>9. lost' \in BOOLEAN /\ (lost' <=> (lost \/ Asked) /\ SameActive)
  BY DEF ClearSearch
<1> QED
  BY <1>2, <1>5, <1>8, <1>9

\* New filters from the chip, the dialog or the address bar.
FiltersOnly(g) ==
  /\ g \in FilterType /\ Follows(ui', ui, g)
  /\ lost' \in BOOLEAN /\ (lost' <=> lost /\ SameActive)
  /\ resolving' = resolving

LEMMA SetStep ==
  ASSUME SearchType, NEW g \in FilterType, ui' = SetFilters(ui, g),
         lost' = (lost /\ SameActive), resolving' = resolving
  PROVE  FiltersOnly(g)
<1>1. Follows(ui', ui, g)
  BY FiltersSet DEF SearchType
<1>2. lost' \in BOOLEAN /\ (lost' <=> lost /\ SameActive)
  OBVIOUS
<1> QED
  BY <1>1, <1>2 DEF FiltersOnly

LEMMA ChipStep ==
  ASSUME SearchType, RemoveIdsChip
  PROVE  \E g : /\ FiltersOnly(g)
                /\ OneText(ui.filter) => OneText(g)
<1> DEFINE f == ui.filter
           g == [f EXCEPT !.ids = Empty]
<1>1. f \in FilterType /\ Empty \in Text
  BY SearchAssumption DEF SearchType, UiType
<1>2. ui' = SetFilters(ui, g) /\ lost' = (lost /\ SameActive) /\ resolving' = resolving
  BY DEF RemoveIdsChip
<1>3. g \in FilterType /\ g.ids = Empty /\ g.search = f.search /\ g.proxy = f.proxy
  <2> HIDE DEF f
  <2> QED
    BY <1>1 DEF FilterType
<1>4. OneText(f) => OneText(g)
  <2> HIDE DEF g
  <2> QED
    BY <1>3 DEF OneText
<1> HIDE DEF g
<1>5. FiltersOnly(g)
  BY <1>2, <1>3, SetStep
<1> QED
  BY <1>4, <1>5

LEMMA ClearAdvancedStep ==
  ASSUME SearchType, ClearAdvanceSearch
  PROVE  \E g : /\ FiltersOnly(g)
                /\ OneText(ui.filter) => OneText(g)
<1> DEFINE g == [mode |-> "text", search |-> ui.filter.search, proxy |-> Empty, ids |-> Empty]
<1>1. [NoFilter EXCEPT !.search = ui.filter.search] = g
  BY DEF NoFilter
<1>2. g \in FilterType
  BY SearchAssumption DEF SearchType, UiType, FilterType, Mode
<1>3. ui' = SetFilters(ui, g) /\ lost' = (lost /\ SameActive) /\ resolving' = resolving
  BY <1>1 DEF ClearAdvanceSearch
<1>4. g.search = ui.filter.search /\ g.proxy = Empty /\ g.ids = Empty
  OBVIOUS
<1> HIDE DEF g
<1>5. FiltersOnly(g)
  BY <1>2, <1>3, SetStep
<1>6. OneText(g)
  BY <1>4 DEF OneText
<1> QED
  BY <1>5, <1>6

LEMMA HashStep ==
  ASSUME SearchType, NEW t \in Text, NEW mode \in Mode, NEW ids \in IdList, HashChange(t, mode, ids)
  PROVE  \E g : /\ FiltersOnly(g)
                /\ ids = Empty /\ OneText(ui.filter) => OneText(g)
<1> DEFINE g == HandleHashChange(ui.filter, UrlFilter(t, mode, ids))
<1>1. ui.filter \in FilterType
  BY DEF SearchType, UiType
<1>2. ui' = SetFilters(ui, g) /\ lost' = (lost /\ SameActive) /\ resolving' = resolving
  BY DEF HashChange
<1>3. g \in FilterType /\ (ids = Empty /\ OneText(ui.filter) => OneText(g))
  BY <1>1, UrlChange
<1> HIDE DEF g
<1>4. FiltersOnly(g)
  BY <1>2, <1>3, SetStep
<1> QED
  BY <1>3, <1>4

---------------------------------------------------------------------------
(* Late answers.                                                           *)

\* The answers under way are numbered, and while a text is pending none of them
\* has the present number.
Race ==
  \A p \in resolving : /\ p.id <= ui.rid
                       /\ p.id = ui.rid => ui.timer = None
                       /\ \A q \in resolving : p.id = q.id => p = q

SearchInv == SearchType /\ Race

LEMMA InitSearchInv ==
  ASSUME SearchInit
  PROVE  SearchInv
<1>1. PICK t \in Text, mode \in Mode, ids \in IdList :
        LET f == UrlFilter(t, mode, ids)
            a == ActiveSearch(f)
        IN ui = [box |-> a, debounced |-> a, timer |-> None, prev |-> a,
                 ignore |-> FALSE, rid |-> 0, filter |-> f]
  BY DEF SearchInit
<1> DEFINE f == UrlFilter(t, mode, ids)
           a == ActiveSearch(f)
<1>2. NoFilter \in FilterType
  BY SearchAssumption DEF NoFilter, FilterType, Mode
<1>3. f \in FilterType /\ a \in Text
  BY <1>2, UrlChange, SearchTypes
<1>4. ui = [box |-> a, debounced |-> a, timer |-> None, prev |-> a,
            ignore |-> FALSE, rid |-> 0, filter |-> f]
  BY <1>1
<1> HIDE DEF f, a
<1>5. ui \in UiType
  BY <1>3, <1>4 DEF UiType
<1>6. SearchType
  <2>1. resolving = {} /\ advanced = None /\ events = 0 /\ lost \in BOOLEAN
    BY DEF SearchInit
  <2>2. 0 \in 0..MaxEvent
    BY SearchAssumption
  <2> QED
    BY <1>5, <2>1, <2>2 DEF SearchType
<1> QED
  BY <1>6 DEF SearchInv, Race, SearchInit

\* The filters change, the numbers do not.
LEMMA RaceSame ==
  ASSUME SearchInv, NEW g, FiltersOnly(g)
  PROVE  ui' \in UiType /\ Race' /\ lost' \in BOOLEAN
BY DEF SearchInv, SearchType, Race, Follows, FiltersOnly

LEMMA NextSearchInv ==
  ASSUME SearchInv, [SearchNext]_searchVars
  PROVE  SearchInv'
<1>1. SearchType /\ Race /\ ui \in UiType /\ ui.rid \in Nat
      /\ \A p \in resolving : p.id \in Nat
  BY DEF SearchInv, SearchType, UiType
<1>2. CASE UNCHANGED searchVars
  BY <1>1, <1>2 DEF searchVars, SearchInv, SearchType, Race
<1>3. ASSUME events' \in 0..MaxEvent, lost' \in BOOLEAN,
             advanced' \in FilterType \cup {None}, ui' \in UiType,
             resolving' \in SUBSET [id : Nat, text : Addresses], Race'
      PROVE  SearchInv'
  BY <1>1, <1>3 DEF SearchInv, SearchType
<1>4. Event => events' \in 0..MaxEvent
  BY <1>1, SearchAssumption DEF Event, SearchType
<1>5. ASSUME NEW t \in Text, Type(t)
      PROVE  SearchInv'
  <2>1. /\ ui' \in UiType /\ ui'.rid = ui.rid + 1
        /\ UNCHANGED <<resolving, advanced>>
    BY <1>1, <1>5, TypeStep
  <2>2. Race'
    BY <1>1, <2>1 DEF Race
  <2>3. Event /\ lost' \in BOOLEAN
    BY <1>5 DEF Type
  <2> QED
    BY <1>1, <1>3, <1>4, <2>1, <2>2, <2>3 DEF SearchType
<1>6. ASSUME NEW t \in Text, NEW mode \in Mode, NEW ids \in IdList, HashChange(t, mode, ids)
      PROVE  SearchInv'
  <2>1. PICK g : FiltersOnly(g)
    BY <1>1, <1>6, HashStep
  <2>2. Event /\ UNCHANGED <<resolving, advanced>>
    BY <1>6 DEF HashChange
  <2>3. ui' \in UiType /\ Race' /\ lost' \in BOOLEAN
    BY <2>1, RaceSame
  <2> QED
    BY <1>1, <1>3, <1>4, <2>2, <2>3 DEF SearchType
<1>7. CASE TimerFires
  <2>1. /\ ui.timer \in Text /\ ui' \in UiType /\ ui'.timer = None
        /\ UNCHANGED advanced /\ lost' \in BOOLEAN
        /\ \/ ui'.rid = ui.rid /\ resolving' = resolving
           \/ ui'.rid = ui.rid + 1 /\ resolving' = resolving
           \/ /\ Trim[ui.timer] \in Url /\ ui'.rid = ui.rid + 1
              /\ resolving' = resolving \cup {[id |-> ui.rid + 1, text |-> ui.timer]}
    <3>1. \A s, g : Follows(ui', s, g) => ui'.rid = s.rid
      BY DEF Follows
    <3> QED
      BY <1>1, <1>7, <3>1, TimerStep
  <2>2. CASE resolving' = resolving /\ ui'.rid \in {ui.rid, ui.rid + 1}
    <3>1. Race'
      BY <1>1, <2>1, <2>2 DEF Race
    <3> QED
      BY <1>1, <1>3, <1>7, <2>1, <2>2, <3>1 DEF SearchType, TimerFires
  <2>3. CASE /\ Trim[ui.timer] \in Url /\ ui'.rid = ui.rid + 1
             /\ resolving' = resolving \cup {[id |-> ui.rid + 1, text |-> ui.timer]}
    <3> DEFINE p == [id |-> ui.rid + 1, text |-> ui.timer]
    <3>1. p \in [id : Nat, text : Addresses] /\ p.id = ui.rid + 1
      BY <1>1, <2>1, <2>3 DEF Addresses
    <3> HIDE DEF p
    <3>2. resolving' = resolving \cup {p}
      BY <2>3 DEF p
    <3>3. Race'
      BY <1>1, <2>1, <2>3, <3>1, <3>2 DEF Race
    <3> QED
      BY <1>1, <1>3, <1>7, <2>1, <3>1, <3>2, <3>3 DEF SearchType, TimerFires
  <2> QED
    BY <2>1, <2>2, <2>3
<1>8. ASSUME NEW p \in resolving, ResolveAnswers(p)
      PROVE  SearchInv'
  <2>1. /\ resolving' = resolving \ {p} /\ UNCHANGED advanced /\ lost' \in BOOLEAN
        /\ p.id # ui.rid => ui' = ui
        /\ ui' \in UiType /\ ui'.rid = ui.rid
    <3>1. \A s, g : Follows(ui', s, g) => ui' \in UiType /\ ui'.rid = s.rid
      BY DEF Follows
    <3> QED
      BY <1>1, <1>8, <3>1, ResolvedStep
  <2>2. Race'
    BY <1>1, <2>1 DEF Race
  <2> QED
    BY <1>1, <1>3, <1>8, <2>1, <2>2 DEF SearchType, ResolveAnswers
<1>9. ASSUME NEW p \in resolving, ResolveFails(p)
      PROVE  SearchInv'
  <2>1. /\ resolving' = resolving \ {p} /\ UNCHANGED advanced /\ lost' \in BOOLEAN
        /\ p.id # ui.rid => ui' = ui
        /\ p.id = ui.rid => ui' \in UiType /\ ui'.rid = ui.rid
    <3>1. \A s, g : Follows(ui', s, g) => ui' \in UiType /\ ui'.rid = s.rid
      BY DEF Follows
    <3> QED
      BY <1>1, <1>9, <3>1, ResolveFailsStep
  <2>2. Race'
    BY <1>1, <2>1 DEF Race
  <2> QED
    BY <1>1, <1>3, <1>9, <2>1, <2>2 DEF SearchType, ResolveFails
<1>10. CASE ClearSearch
  <2>1. /\ UNCHANGED <<resolving, advanced>> /\ lost' \in BOOLEAN
        /\ ui' \in UiType /\ ui'.rid = ui.rid + 1
    <3>1. \A s, g : Follows(ui', s, g) => ui' \in UiType /\ ui'.rid = s.rid
      BY DEF Follows
    <3> QED
      BY <1>1, <1>10, <3>1, ClearStep
  <2>2. Race'
    BY <1>1, <2>1 DEF Race
  <2>3. Event
    BY <1>10 DEF ClearSearch
  <2> QED
    BY <1>1, <1>3, <1>4, <2>1, <2>2, <2>3 DEF SearchType
<1>11. CASE RemoveIdsChip
  <2>1. PICK g : FiltersOnly(g)
    BY <1>1, <1>11, ChipStep
  <2>2. Event /\ UNCHANGED <<resolving, advanced>>
    BY <1>11 DEF RemoveIdsChip
  <2>3. ui' \in UiType /\ Race' /\ lost' \in BOOLEAN
    BY <2>1, RaceSame
  <2> QED
    BY <1>1, <1>3, <1>4, <2>2, <2>3 DEF SearchType
<1>12. CASE AdvancedApply
  <2>1. advanced \in FilterType /\ ui' = SetFilters(ui, advanced) /\ advanced' = None
        /\ lost' = (lost /\ SameActive) /\ UNCHANGED <<resolving, events>>
    BY <1>1, <1>12 DEF AdvancedApply, SearchType
  <2>2. FiltersOnly(advanced)
    BY <1>1, <2>1, SetStep
  <2>3. ui' \in UiType /\ Race' /\ lost' \in BOOLEAN
    BY <2>2, RaceSame
  <2> QED
    BY <1>1, <1>3, <2>1, <2>3 DEF SearchType
<1>13. CASE ClearAdvanceSearch
  <2>1. PICK g : FiltersOnly(g)
    BY <1>1, <1>13, ClearAdvancedStep
  <2>2. Event /\ UNCHANGED <<resolving, advanced>>
    BY <1>13 DEF ClearAdvanceSearch
  <2>3. ui' \in UiType /\ Race' /\ lost' \in BOOLEAN
    BY <2>1, RaceSame
  <2> QED
    BY <1>1, <1>3, <1>4, <2>2, <2>3 DEF SearchType
<1>14. ASSUME NEW mode \in Mode, AdvancedSubmit(mode)
       PROVE  SearchInv'
  <2>1. /\ Event /\ UNCHANGED <<ui, resolving, lost>>
        /\ advanced' = SearchFor(CurrentSearch(ui.filter), mode)
    BY <1>14 DEF AdvancedSubmit
  <2>2. CurrentSearch(ui.filter) \in Text
    BY <1>1, SearchTypes DEF UiType
  <2>3. advanced' \in FilterType
    BY <2>1, <2>2, SearchForOne
  <2>4. Race'
    BY <1>1, <2>1 DEF Race
  <2> QED
    BY <1>1, <1>3, <1>4, <2>1, <2>3, <2>4 DEF SearchType
<1> QED
  BY <1>2, <1>5, <1>6, <1>7, <1>8, <1>9, <1>10, <1>11, <1>12, <1>13, <1>14 DEF SearchNext

\* Every variable of the search has its type: the filters sent are always texts the
\* box, the dialog or the address bar held, and only addresses are being resolved.
THEOREM SearchTyped == SearchSpec => []SearchTypeOK
<1>1. SearchInit => SearchInv
  BY InitSearchInv
<1>2. SearchInv /\ [SearchNext]_searchVars => SearchInv'
  BY NextSearchInv
<1>3. SearchInv => SearchTypeOK
  BY DEF SearchInv, SearchType, UiType, Addresses, SearchTypeOK
<1> QED
  BY <1>1, <1>2, <1>3, PTL DEF SearchSpec

\* The answer to an address that comes while another text waits in the box, or while
\* the box is being emptied, changes neither the box nor the filters.
THEOREM LateAnswers == SearchSpec => LateAnswerIgnored
<1>1. SearchInit => SearchInv
  BY InitSearchInv
<1>2. SearchInv /\ [SearchNext]_searchVars => SearchInv'
  BY NextSearchInv
<1>3. SearchInv => \A p \in resolving : ResolveAnswers(p) /\ Trim[ui.box] # Trim[p.text] /\ ui.timer # None
                     => ui'.box = ui.box /\ ui'.filter = ui.filter
  BY ResolvedStep DEF SearchInv, Race
<1>4. SearchInv /\ [SearchNext]_searchVars =>
        [\A p \in resolving : ResolveAnswers(p) /\ Trim[ui.box] # Trim[p.text] /\ ui.timer # None
           => ui'.box = ui.box /\ ui'.filter = ui.filter]_searchVars
  BY <1>3
<1> QED
  BY <1>1, <1>2, <1>4, PTL DEF SearchSpec, LateAnswerIgnored

---------------------------------------------------------------------------
(* One search at a time.                                                   *)

\* The filters an advanced search will set name one search.
AdvancedOne == advanced # None => OneText(advanced)

\* The address bar names ids beside its search.
IdsBeside == \E t \in Text, mode \in Mode : \E ids \in IdList \ {Empty} : HashChange(t, mode, ids)

LEMMA NextOne ==
  ASSUME SearchInv, AdvancedOne, [SearchNext]_searchVars
  PROVE  /\ AdvancedOne'
         /\ OneText(ui.filter) /\ ~OneText(ui.filter)' => IdsBeside
<1>1. SearchType /\ ui \in UiType /\ ui.filter \in FilterType /\ "text" \in Mode
      /\ ui.filter.mode \in Mode
  BY DEF SearchInv, SearchType, UiType, FilterType, Mode
<1>2. ASSUME UNCHANGED advanced
      PROVE  AdvancedOne'
  BY <1>2 DEF AdvancedOne
<1>3. \A s, g : Follows(ui', s, g) => ui'.filter = g
  BY DEF Follows
<1>4. \A g : FiltersOnly(g) => ui'.filter = g
  BY DEF FiltersOnly, Follows
<1>5. CASE UNCHANGED searchVars
  BY <1>2, <1>5 DEF searchVars
<1>6. ASSUME NEW t \in Text, Type(t)
      PROVE  AdvancedOne' /\ ui'.filter = ui.filter
  BY <1>1, <1>2, <1>6, TypeStep
<1>7. ASSUME NEW t \in Text, NEW mode \in Mode, NEW ids \in IdList, HashChange(t, mode, ids)
      PROVE  AdvancedOne' /\ (OneText(ui.filter) /\ ~OneText(ui.filter)' => IdsBeside)
  <2>1. AdvancedOne'
    BY <1>2, <1>7 DEF HashChange
  <2>2. ids # Empty => IdsBeside
    BY <1>7 DEF IdsBeside
  <2>3. ids = Empty /\ OneText(ui.filter) => OneText(ui.filter)'
    BY <1>1, <1>4, <1>7, HashStep
  <2> QED
    BY <2>1, <2>2, <2>3
<1>8. CASE TimerFires
  <2>1. UNCHANGED advanced /\ ui'.filter \in {ui.filter, TimerChange} /\ ui.timer \in Text
    BY <1>1, <1>3, <1>8, TimerStep
  <2>2. OneText(ui.filter) => OneText(TimerChange)
    BY <1>1, <2>1, FilterChange DEF TimerChange
  <2> QED
    BY <1>2, <2>1, <2>2
<1>9. ASSUME NEW p \in resolving, ResolveAnswers(p)
      PROVE  AdvancedOne' /\ (OneText(ui.filter) => OneText(ui.filter)')
  <2>1. UNCHANGED advanced
        /\ \/ ui' = ui
           \/ \E u \in Text : ui'.filter = HandleFilterChange(ui.filter, u, "text", Others)
    BY <1>1, <1>3, <1>9, ResolvedStep
  <2>2. \A u \in Text : OneText(ui.filter) => OneText(HandleFilterChange(ui.filter, u, "text", Others))
    BY <1>1, FilterChange
  <2> QED
    BY <1>2, <2>1, <2>2
<1>10. ASSUME NEW p \in resolving, ResolveFails(p)
      PROVE  AdvancedOne' /\ (OneText(ui.filter) => OneText(ui.filter)')
  <2>1. /\ UNCHANGED advanced
        /\ ui' = ui \/ ui'.filter = HandleFilterChange(ui.filter, p.text, "text", {"ids"})
    BY <1>1, <1>3, <1>10, ResolveFailsStep
  <2>2. p.text \in Text
    BY <1>1 DEF SearchType, Addresses
  <2>3. OneText(ui.filter) => OneText(HandleFilterChange(ui.filter, p.text, "text", {"ids"}))
    BY <1>1, <2>2, FilterChange
  <2> QED
    BY <1>2, <2>1, <2>3
<1>11. CASE ClearSearch
  <2>1. UNCHANGED advanced /\ ui'.filter = HandleFilterChange(ui.filter, Empty, "text", Others)
    BY <1>1, <1>3, <1>11, ClearStep
  <2>2. Empty \in Text
    BY SearchAssumption
  <2>3. OneText(ui.filter) => OneText(HandleFilterChange(ui.filter, Empty, "text", Others))
    BY <1>1, <2>2, FilterChange
  <2> QED
    BY <1>2, <2>1, <2>3
<1>12. CASE RemoveIdsChip
  <2>1. OneText(ui.filter) => OneText(ui.filter)'
    BY <1>1, <1>4, <1>12, ChipStep
  <2> QED
    BY <1>2, <1>12, <2>1 DEF RemoveIdsChip
<1>13. CASE ClearAdvanceSearch
  <2>1. OneText(ui.filter) => OneText(ui.filter)'
    BY <1>1, <1>4, <1>13, ClearAdvancedStep
  <2> QED
    BY <1>2, <1>13, <2>1 DEF ClearAdvanceSearch
<1>14. CASE AdvancedApply
  <2>1. advanced # None /\ advanced \in FilterType /\ ui' = SetFilters(ui, advanced) /\ advanced' = None
        /\ lost' = (lost /\ SameActive) /\ resolving' = resolving
    BY <1>1, <1>14 DEF AdvancedApply, SearchType
  <2>2. FiltersOnly(advanced)
    BY <1>1, <2>1, SetStep
  <2>3. ui'.filter = advanced
    BY <1>4, <2>2
  <2> QED
    BY <2>1, <2>3 DEF AdvancedOne
<1>15. ASSUME NEW mode \in Mode, AdvancedSubmit(mode)
       PROVE  AdvancedOne' /\ ui' = ui
  <2>1. UNCHANGED ui /\ advanced' = SearchFor(CurrentSearch(ui.filter), mode)
    BY <1>15 DEF AdvancedSubmit
  <2>2. CurrentSearch(ui.filter) \in Text
    BY <1>1, SearchTypes
  <2> QED
    BY <2>1, <2>2, SearchForOne DEF AdvancedOne
<1> QED
  BY <1>5, <1>6, <1>7, <1>8, <1>9, <1>10, <1>11, <1>12, <1>13, <1>14, <1>15 DEF SearchNext

\* Two different searches are never sent together unless the address bar names ids
\* beside a search: no order of typing, clearing, resolving and submitting does it.
THEOREM OneSearchOnly == SearchSpec => OneSearch
<1> DEFINE I == SearchInv /\ AdvancedOne
<1>1. SearchInit => I
  BY InitSearchInv DEF SearchInit, AdvancedOne
<1>2. I /\ [SearchNext]_searchVars => I'
  BY NextSearchInv, NextOne
<1>3. I /\ [SearchNext]_searchVars =>
        [OneText(ui.filter) /\ ~OneText(ui.filter)' =>
           \E t \in Text, mode \in Mode : \E ids \in IdList \ {Empty} : HashChange(t, mode, ids)]_searchVars
  BY NextOne DEF IdsBeside
<1> HIDE DEF I
<1> QED
  BY <1>1, <1>2, <1>3, PTL DEF SearchSpec, OneSearch

---------------------------------------------------------------------------
(* The box and the search.                                                 *)

\* The timer holds the text of the box, and without one the box is the debounced text.
\* The last text seen is the debounced one, but for a username that took the place of
\* its address and is searched for.  A debounced text that was not given up is searched
\* for, or is an address that waits for its answer.
BoxInv ==
  /\ ui.timer # None => ui.timer = ui.box
  /\ ui.timer = None => ui.box = ui.debounced
  /\ ui.prev # ui.debounced => ui.prev = ActiveSearch(ui.filter)
  /\ ~lost => Trim[ActiveSearch(ui.filter)] = Trim[ui.debounced] \/ Asked

\* Filters whose active search is another one take the box along.
LEMMA NewActiveBox ==
  ASSUME NEW s, NEW g, Follows(ui', s, g), ActiveSearch(g) # ActiveSearch(s.filter)
  PROVE  BoxInv'
BY DEF Follows, BoxInv

LEMMA SameBox ==
  ASSUME SearchType, BoxInv, NEW g, FiltersOnly(g)
  PROVE  BoxInv'
<1>1. CASE ActiveSearch(g) # ActiveSearch(ui.filter)
  BY <1>1, NewActiveBox DEF FiltersOnly
<1>2. CASE ActiveSearch(g) = ActiveSearch(ui.filter)
  <2>1. /\ ui'.timer = ui.timer /\ ui'.box = ui.box /\ ui'.prev = ui.prev
        /\ ui'.debounced = ui.debounced /\ ui'.rid = ui.rid /\ resolving' = resolving
        /\ ActiveSearch(ui'.filter) = ActiveSearch(ui.filter)
        /\ lost' <=> lost /\ SameActive
    BY <1>2 DEF FiltersOnly, Follows
  <2>2. SameActive
    BY <2>1 DEF SameActive
  <2>3. Asked' <=> Asked
    BY <2>1 DEF Asked
  <2> QED
    BY <2>1, <2>2, <2>3 DEF BoxInv
<1> QED
  BY <1>1, <1>2

\* A text of the timer that is applied and leaves the active search as it is, is that
\* search, unless it is given up.
LEMMA AppliedBox ==
  ASSUME NEW f \in FilterType, NEW t \in Text, NEW mode \in Mode, NEW e,
         e \in {{}, Others}, mode = "text" \/ mode = f.mode,
         OneText(f) \/ Trim[t] # CurrentSearch(f),
         f.mode = "id" => Ids[t] # ActiveSearch(f) \/ Ids[t] = Trim[t],
         ActiveSearch(HandleFilterChange(f, t, mode, e)) = ActiveSearch(f)
  PROVE  Trim[ActiveSearch(f)] = Trim[t]
<1> DEFINE g == HandleFilterChange(f, t, mode, e)
           m == IF Trim[t] = Empty THEN "text" ELSE mode
<1>1. m \in Mode /\ Trim[t] \in Text /\ Trim[Trim[t]] = Trim[t] /\ Ids[Trim[t]] = Ids[t]
      /\ Trim[Empty] = Empty
  BY SearchAssumption DEF Mode
<1>2. /\ Trim[t] # CurrentSearch(f) \/ m # f.mode => g = SearchFor(Trim[t], m)
      /\ Trim[t] = CurrentSearch(f) /\ m = f.mode =>
           /\ g.search = t
           /\ g.ids = (IF "ids" \in e THEN Empty ELSE f.ids)
           /\ g.proxy = (IF "proxy" \in e THEN Empty ELSE f.proxy)
  BY FilterChange
<1>3. CASE g = SearchFor(Trim[t], m)
  <2>1. ActiveSearch(g) = IF m = "id" THEN Ids[t] ELSE Trim[t]
    <3> HIDE DEF g, m
    <3> QED
      BY <1>1, <1>3, SearchForOne
  <2>2. m = "id" => f.mode = "id"
    OBVIOUS
  <2> QED
    BY <1>1, <2>1, <2>2
<1>4. CASE Trim[t] = CurrentSearch(f) /\ m = f.mode
  <2>1. /\ g.search = t
        /\ g.ids = (IF "ids" \in e THEN Empty ELSE f.ids)
        /\ g.proxy = (IF "proxy" \in e THEN Empty ELSE f.proxy)
    BY <1>2, <1>4
  <2> HIDE DEF g, m
  <2>2. CASE g.ids # Empty
    <3>1. ActiveSearch(g) = f.ids /\ f.ids # Empty
      BY <2>1, <2>2 DEF ActiveSearch, FirstOf
    <3>2. Trim[f.ids] = Trim[CurrentSearch(f)]
      BY <1>4, <3>1, SearchTypes
    <3> QED
      BY <1>1, <1>4, <3>1, <3>2 DEF g
  <2>3. CASE g.ids = Empty /\ t # Empty
    <3>1. ActiveSearch(g) = t
      BY <2>1, <2>3 DEF ActiveSearch, FirstOf
    <3> QED
      BY <3>1 DEF g
  <2>4. CASE g.ids = Empty /\ t = Empty
    <3>1. ActiveSearch(g) = g.proxy
      BY <2>1, <2>4 DEF ActiveSearch, FirstOf
    <3>2. f.proxy = Empty
      BY <1>1, <1>4, <2>4 DEF CurrentSearch, FirstOf
    <3> QED
      BY <1>1, <2>1, <2>4, <3>1, <3>2 DEF g
  <2> QED
    BY <2>2, <2>3, <2>4
<1> QED
  BY <1>2, <1>3, <1>4

LEMMA TimerBox ==
  ASSUME SearchType, BoxInv, TimerFires
  PROVE  BoxInv'
<1> DEFINE t == ui.timer
<1>1. /\ t \in Text /\ t # None /\ ui.box = t /\ ui'.timer = None
      /\ ui.filter \in FilterType /\ ui \in UiType
  BY TimerStep DEF SearchType, UiType, BoxInv, TimerFires
<1>2. t # ui.debounced => (lost' <=> GivenUp(ui, t))
  BY TimerStep
<1>3. CASE /\ ui'.rid = ui.rid /\ ui'.filter = ui.filter /\ ui'.box = ui.box
           /\ resolving' = resolving /\ t = ui.debounced /\ lost' = lost
           /\ ui'.debounced = ui.debounced /\ ui'.prev = ui.prev
  <2>1. Asked' <=> Asked
    BY <1>3 DEF Asked
  <2> QED
    BY <1>1, <1>3, <2>1 DEF BoxInv
<1>4. CASE /\ ui'.filter = ui.filter /\ ui'.box = ui.box /\ (ui.ignore \/ t = ui.prev)
           /\ t # ui.debounced /\ ui'.debounced = t /\ ui'.prev = t
  <2>1. ~GivenUp(ui, t) /\ ui.ignore => t = ActiveSearch(ui.filter)
    BY DEF GivenUp
  <2>2. t = ui.prev => t = ActiveSearch(ui.filter)
    BY <1>4 DEF BoxInv
  <2> QED
    BY <1>1, <1>2, <1>4, <2>1, <2>2 DEF BoxInv
<1>5. CASE /\ ui'.rid = ui.rid + 1 /\ ui'.filter = ui.filter /\ ui'.box = ui.box
           /\ ui'.debounced = t /\ ui'.prev = t
           /\ resolving' = resolving \cup {[id |-> ui.rid + 1, text |-> t]}
  <2> DEFINE p == [id |-> ui.rid + 1, text |-> t]
  <2>1. p \in resolving' /\ p.id = ui'.rid /\ p.text = ui'.debounced
    BY <1>5
  <2>2. Asked'
    BY <2>1 DEF Asked
  <2> QED
    BY <1>1, <1>5, <2>2 DEF BoxInv
<1>6. CASE /\ t # ui.debounced
           /\ \E s \in UiType :
                /\ s.timer = None /\ s.rid = ui.rid + 1 /\ s.filter = ui.filter /\ s.box = ui.box
                /\ s.debounced = t /\ s.prev = t /\ ~s.ignore
                /\ Follows(ui', s, TimerChange)
  <2>1. PICK s \in UiType :
          /\ s.timer = None /\ s.rid = ui.rid + 1 /\ s.filter = ui.filter /\ s.box = ui.box
          /\ s.debounced = t /\ s.prev = t /\ ~s.ignore
          /\ Follows(ui', s, TimerChange)
    BY <1>6
  <2>2. CASE ActiveSearch(TimerChange) # ActiveSearch(s.filter)
    BY <2>1, <2>2, NewActiveBox
  <2>3. CASE ActiveSearch(TimerChange) = ActiveSearch(s.filter)
    <3>1. /\ ui'.timer = None /\ ui'.box = t /\ ui'.prev = t /\ ui'.debounced = t
          /\ ActiveSearch(ui'.filter) = ActiveSearch(ui.filter)
      BY <1>1, <2>1, <2>3 DEF Follows
    <3>2. ASSUME ~GivenUp(ui, t)
          PROVE  Trim[ActiveSearch(ui.filter)] = Trim[t]
      <4>1. /\ OneText(ui.filter) \/ Trim[t] # CurrentSearch(ui.filter)
            /\ ui.filter.mode = "id" => Ids[t] # ActiveSearch(ui.filter) \/ Ids[t] = Trim[t]
        BY <3>2 DEF GivenUp
      <4>2. "text" \in Mode /\ ui.filter.mode \in Mode
        BY <1>1 DEF Mode, FilterType
      <4>3. ActiveSearch(TimerChange) = ActiveSearch(ui.filter)
        BY <2>1, <2>3
      <4>4. CASE Trim[t] = Empty
        <5>1. TimerChange = HandleFilterChange(ui.filter, t, "text", Others)
          BY <4>4 DEF TimerChange
        <5> HIDE DEF t
        <5> QED
          BY <1>1, <4>1, <4>2, <4>3, <5>1, AppliedBox
      <4>5. CASE Trim[t] # Empty
        <5>1. TimerChange = HandleFilterChange(ui.filter, t, ui.filter.mode, {})
          BY <4>5 DEF TimerChange
        <5> HIDE DEF t
        <5> QED
          BY <1>1, <4>1, <4>2, <4>3, <5>1, AppliedBox
      <4> QED
        BY <4>4, <4>5
    <3> QED
      BY <1>2, <1>6, <3>1, <3>2 DEF BoxInv
  <2> QED
    BY <2>2, <2>3
<1> QED
  BY <1>3, <1>4, <1>5, <1>6, TimerStep

LEMMA ResolvedBox ==
  ASSUME SearchType, BoxInv, NEW p \in resolving, ResolveAnswers(p)
  PROVE  BoxInv'
<1>1. /\ resolving' = resolving \ {p}
      /\ lost' <=> (SameActive /\ (lost \/ (p.id = ui.rid /\ p.text = ui.debounced)))
  BY ResolvedStep
<1>2. ASSUME ui'.rid = ui.rid, ui'.debounced = ui.debounced, SameActive, ~lost'
      PROVE  ~lost /\ (Asked => Asked')
  <2>1. ~lost /\ ~(p.id = ui.rid /\ p.text = ui.debounced)
    BY <1>1, <1>2
  <2> QED
    BY <1>1, <1>2, <2>1 DEF Asked
<1>3. CASE ui' = ui
  <2>1. SameActive
    BY <1>3 DEF SameActive
  <2> QED
    BY <1>2, <1>3, <2>1 DEF BoxInv
<1>4. CASE \E u \in Text \ {Empty}, s \in UiType :
             /\ Trim[u] = u
             /\ s.box = u /\ s.timer = u /\ s.prev = u /\ s.debounced = ui.debounced
             /\ s.ignore = ui.ignore /\ s.rid = ui.rid /\ s.filter = ui.filter
             /\ Follows(ui', s, HandleFilterChange(ui.filter, u, "text", Others))
  <2>1. PICK u \in Text \ {Empty}, s \in UiType :
             /\ Trim[u] = u
             /\ s.box = u /\ s.timer = u /\ s.prev = u /\ s.debounced = ui.debounced
             /\ s.rid = ui.rid /\ s.filter = ui.filter
             /\ Follows(ui', s, HandleFilterChange(ui.filter, u, "text", Others))
    BY <1>4
  <2> DEFINE g == HandleFilterChange(ui.filter, u, "text", Others)
  <2>2. CASE ActiveSearch(g) # ActiveSearch(s.filter)
    BY <2>1, <2>2, NewActiveBox
  <2>3. CASE ActiveSearch(g) = ActiveSearch(s.filter)
    <3>1. ActiveSearch(g) = u
      <4>1. ui.filter \in FilterType /\ "ids" \in Others
        BY DEF SearchType, UiType, Others
      <4> QED
        BY <2>1, <4>1, TextChange
    <3> HIDE DEF g
    <3>2. /\ ui'.timer = u /\ ui'.box = u /\ ui'.prev = u /\ ui'.debounced = ui.debounced
          /\ ui'.rid = ui.rid /\ ActiveSearch(ui'.filter) = u /\ ActiveSearch(ui.filter) = u
      BY <2>1, <2>3, <3>1 DEF Follows, g
    <3>3. SameActive
      BY <3>2 DEF SameActive
    <3>4. None \notin Text
      BY SearchAssumption
    <3> QED
      BY <1>2, <2>1, <3>2, <3>3, <3>4 DEF BoxInv
  <2> QED
    BY <2>2, <2>3
<1> QED
  BY <1>3, <1>4, ResolvedStep

LEMMA ResolveFailsBox ==
  ASSUME SearchType, BoxInv, NEW p \in resolving, ResolveFails(p)
  PROVE  BoxInv'
<1> DEFINE g == HandleFilterChange(ui.filter, p.text, "text", {"ids"})
<1>1. /\ resolving' = resolving \ {p}
      /\ lost' <=> lost /\ SameActive
  BY ResolveFailsStep
<1>2. CASE p.id # ui.rid
  <2>1. ui' = ui
    BY <1>2, ResolveFailsStep
  <2>2. SameActive /\ (Asked => Asked')
    BY <1>1, <1>2, <2>1 DEF SameActive, Asked
  <2> QED
    BY <1>1, <2>1, <2>2 DEF BoxInv
<1>3. CASE p.id = ui.rid
  <2>1. Follows(ui', ui, g)
    BY <1>3, ResolveFailsStep
  <2>2. p.text \in Text /\ Trim[p.text] # Empty /\ ui.filter \in FilterType
    BY SearchAssumption DEF SearchType, UiType, Addresses
  <2>3. Trim[ActiveSearch(g)] = Trim[p.text]
    BY <2>2, TextChange
  <2> HIDE DEF g
  <2>4. CASE ActiveSearch(g) # ActiveSearch(ui.filter)
    BY <2>1, <2>4, NewActiveBox
  <2>5. CASE ActiveSearch(g) = ActiveSearch(ui.filter)
    <3>1. /\ ui'.timer = ui.timer /\ ui'.box = ui.box /\ ui'.prev = ui.prev
          /\ ui'.debounced = ui.debounced /\ ui'.rid = ui.rid
          /\ ActiveSearch(ui'.filter) = ActiveSearch(ui.filter)
      BY <2>1, <2>5 DEF Follows
    <3>2. SameActive
      BY <3>1 DEF SameActive
    <3>3. Asked => Asked' \/ p.text = ui.debounced
      BY <1>1, <3>1 DEF Asked
    <3> QED
      BY <1>1, <2>3, <2>5, <3>1, <3>2, <3>3 DEF BoxInv
  <2> QED
    BY <2>4, <2>5
<1> QED
  BY <1>2, <1>3

LEMMA ClearBox ==
  ASSUME SearchType, BoxInv, ClearSearch
  PROVE  BoxInv'
<1> DEFINE g == HandleFilterChange(ui.filter, Empty, "text", Others)
<1>1. PICK s \in UiType :
         /\ s.box = Empty /\ s.timer = Empty /\ s.prev = ui.debounced
         /\ s.debounced = ui.debounced /\ s.rid = ui.rid + 1
         /\ s.filter = ui.filter
         /\ Follows(ui', s, g)
  BY ClearStep
<1> HIDE DEF g
<1>2. CASE ActiveSearch(g) # ActiveSearch(s.filter)
  BY <1>1, <1>2, NewActiveBox
<1>3. CASE ActiveSearch(g) = ActiveSearch(s.filter)
  <2>1. /\ ui'.timer = Empty /\ ui'.box = Empty /\ ui'.prev = ui.debounced
        /\ ui'.debounced = ui.debounced
        /\ ActiveSearch(ui'.filter) = ActiveSearch(ui.filter)
    BY <1>1, <1>3 DEF Follows
  <2>2. SameActive
    BY <2>1 DEF SameActive
  <2>3. ~lost' => ~lost /\ ~Asked
    BY <2>2, ClearStep
  <2>4. None # Empty
    BY SearchAssumption
  <2> QED
    BY <2>1, <2>3, <2>4 DEF BoxInv
<1> QED
  BY <1>2, <1>3

LEMMA NextBox ==
  ASSUME SearchType, BoxInv, [SearchNext]_searchVars
  PROVE  BoxInv'
<1>1. CASE UNCHANGED searchVars
  BY <1>1 DEF searchVars, BoxInv, Asked
<1>2. ASSUME NEW t \in Text, Type(t)
      PROVE  BoxInv'
  <2>1. lost' <=> (lost \/ Asked)
    BY <1>2 DEF Type
  <2>2. None \notin Text
    BY SearchAssumption
  <2> QED
    BY <1>2, <2>1, <2>2, TypeStep DEF BoxInv
<1>3. ASSUME NEW t \in Text, NEW mode \in Mode, NEW ids \in IdList, HashChange(t, mode, ids)
      PROVE  BoxInv'
  BY <1>3, HashStep, SameBox
<1>4. CASE RemoveIdsChip
  BY <1>4, ChipStep, SameBox
<1>5. CASE ClearAdvanceSearch
  BY <1>5, ClearAdvancedStep, SameBox
<1>6. CASE AdvancedApply
  <2>1. advanced \in FilterType /\ ui' = SetFilters(ui, advanced)
        /\ lost' = (lost /\ SameActive) /\ resolving' = resolving
    BY <1>6 DEF AdvancedApply, SearchType
  <2>2. FiltersOnly(advanced)
    BY <2>1, SetStep
  <2> QED
    BY <2>2, SameBox
<1>7. ASSUME NEW mode \in Mode, AdvancedSubmit(mode)
      PROVE  BoxInv'
  BY <1>7 DEF AdvancedSubmit, BoxInv, Asked
<1> QED
  BY <1>1, <1>2, <1>3, <1>4, <1>5, <1>6, <1>7, TimerBox, ResolvedBox, ResolveFailsBox, ClearBox
     DEF SearchNext

\* Once the timer has fired and the answer is there, the box shows what is searched for,
\* unless the code gave the text up in one of the ways GivenUp names or the answer to an
\* address no longer counts.
THEOREM BoxIsSearch == SearchSpec => []BoxMeansFilter
<1> DEFINE I == SearchInv /\ BoxInv
<1>1. SearchInit => I
  <2> SUFFICES ASSUME SearchInit
               PROVE  BoxInv
    BY InitSearchInv
  <2>1. PICK f : ui = [box |-> ActiveSearch(f), debounced |-> ActiveSearch(f), timer |-> None,
                       prev |-> ActiveSearch(f), ignore |-> FALSE, rid |-> 0, filter |-> f]
    BY DEF SearchInit
  <2>2. /\ ui.timer = None /\ ui.box = ActiveSearch(f) /\ ui.debounced = ActiveSearch(f)
        /\ ui.prev = ActiveSearch(f) /\ ui.filter = f
    BY <2>1
  <2> QED
    BY <2>2 DEF BoxInv
<1>2. I /\ [SearchNext]_searchVars => I'
  BY NextSearchInv, NextBox DEF SearchInv
<1>3. I => BoxMeansFilter
  BY DEF BoxInv, BoxMeansFilter, Pending
<1> HIDE DEF I
<1> QED
  BY <1>1, <1>2, <1>3, PTL DEF SearchSpec

---------------------------------------------------------------------------
(* The store of the core editor.                                           *)

\* A text says a draft, if that draft can be generated.
Speaks(k, t, d) == d \in Broken \/ Says(k, t, d)

\* A loaded store has a draft of its kind, and a snapshot it can go back to; its text,
\* unless typed or rejected, says its draft, and so does the text of the snapshot.
Loaded(s) ==
  /\ s.kind \in Kind /\ s.draft \in Draft[s.kind] /\ s.baseline \in Draft[s.kind]
  /\ s.text \in JsonText
  /\ s.snap \in SnapshotType /\ s.snap.draft \in Draft[s.snap.kind] /\ s.snap.text \in JsonText
  /\ ~s.textDirty /\ ~s.warned => Speaks(s.kind, s.text, s.draft)
  /\ ~s.snap.warned => Speaks(s.snap.kind, s.snap.text, s.snap.draft)
  /\ s.fingerprint = s.snap.fingerprint

GoodStore(s) ==
  /\ s \in StoreType
  /\ IF s.hydrated THEN Loaded(s) ELSE ~s.advanced /\ ~s.textDirty

LEMMA EditorConstants ==
  /\ "xray" \in Kind /\ Blank \in Name /\ None \notin Core
  /\ "list" \notin Core /\ "new" \notin Core /\ None \notin Content
  /\ None \notin AllDrafts /\ Garbage \notin Config
  /\ \A k \in Kind : Draft[k] \subseteq AllDrafts
  /\ \A k \in Kind : NewDraft[k] \in Draft[k] /\ NewText[k] \in Config
                     /\ Speaks(k, NewText[k], NewDraft[k])
  /\ \A k \in Kind : \A c \in Config : Import[k][c] \in Draft[k]
  /\ \A k \in Kind : \A d \in Draft[k] \ Broken : Persist[d] \in Config
  /\ \A c \in Config : Filled[c] \subseteq Config
  /\ Config \subseteq JsonText
BY EditorAssumption DEF AllDrafts, JsonText, Speaks

LEMMA ResetStore ==
  GoodStore(Reset) /\ ~Reset.hydrated /\ Reset.coreId = None
<1>1. Reset \in StoreType
  BY EditorConstants DEF Reset, StoreType
<1> QED
  BY <1>1 DEF GoodStore, Reset

LEMMA SnapshotTaken ==
  ASSUME NEW s \in StoreType, NEW n, n = CaptureSnapshot(s)
  PROVE  /\ n \in StoreType
         /\ (n.hydrated <=> s.hydrated) /\ (n.isNew <=> s.isNew) /\ n.coreId = s.coreId /\ n.name = s.name
         /\ n.kind = s.kind /\ n.tags = s.tags /\ n.draft = s.draft /\ n.baseline = s.baseline
         /\ (n.advanced <=> s.advanced) /\ n.text = s.text /\ (n.textDirty <=> s.textDirty)
         /\ n.fingerprint = s.fingerprint /\ (n.warned <=> s.warned)
         /\ n.snap \in SnapshotType
         /\ n.snap.kind = s.kind /\ n.snap.name = s.name /\ n.snap.tags = s.tags
         /\ n.snap.draft = s.draft /\ n.snap.text = s.text /\ (n.snap.warned <=> s.warned)
         /\ n.snap.fingerprint = s.fingerprint
<1> DEFINE p == [kind |-> s.kind, name |-> s.name, tags |-> s.tags, draft |-> s.draft,
                 advanced |-> s.advanced, text |-> s.text, warned |-> s.warned,
                 fingerprint |-> s.fingerprint]
<1>1. p \in SnapshotType
  BY DEF StoreType, SnapshotType
<1>2. /\ p.kind = s.kind /\ p.name = s.name /\ p.tags = s.tags
      /\ p.draft = s.draft /\ p.text = s.text /\ (p.warned <=> s.warned)
      /\ p.fingerprint = s.fingerprint
  OBVIOUS
<1>3. n = [s EXCEPT !.snap = p]
  BY DEF CaptureSnapshot
<1> HIDE DEF p
<1>4. /\ n \in StoreType /\ n.snap = p
      /\ (n.hydrated <=> s.hydrated) /\ (n.isNew <=> s.isNew) /\ n.coreId = s.coreId /\ n.name = s.name
      /\ n.kind = s.kind /\ n.tags = s.tags /\ n.draft = s.draft /\ n.baseline = s.baseline
      /\ (n.advanced <=> s.advanced) /\ n.text = s.text /\ (n.textDirty <=> s.textDirty)
      /\ n.fingerprint = s.fingerprint /\ (n.warned <=> s.warned)
  BY <1>1, <1>3 DEF StoreType
<1> QED
  BY <1>1, <1>2, <1>4

\* A draft just loaded or created.
LEMMA HydratedStore ==
  ASSUME NEW s \in StoreType, s.hydrated, s.kind \in Kind, s.draft \in Draft[s.kind],
         s.baseline = s.draft, s.text \in JsonText, ~s.textDirty,
         ~s.warned => Speaks(s.kind, s.text, s.draft),
         NEW n, n = CaptureSnapshot(s)
  PROVE  /\ GoodStore(n) /\ n.hydrated /\ n.coreId = s.coreId /\ (n.isNew <=> s.isNew)
         /\ n.kind = s.kind /\ n.name = s.name /\ n.tags = s.tags
         /\ n.draft = s.draft /\ n.baseline = s.draft
         /\ n.fingerprint = s.fingerprint /\ (n.warned <=> s.warned) /\ ~n.textDirty
         /\ n.snap.kind = s.kind /\ n.snap.draft = s.draft /\ (n.snap.warned <=> s.warned)
         /\ n.snap.fingerprint = s.fingerprint
         /\ n.snap.name = s.name /\ n.snap.tags = s.tags
<1>1. /\ n \in StoreType
      /\ n.hydrated /\ (n.isNew <=> s.isNew) /\ n.coreId = s.coreId /\ n.name = s.name
      /\ n.kind = s.kind /\ n.tags = s.tags /\ n.draft = s.draft /\ n.baseline = s.baseline
      /\ n.text = s.text /\ ~n.textDirty
      /\ n.fingerprint = s.fingerprint /\ (n.warned <=> s.warned)
      /\ n.snap \in SnapshotType
      /\ n.snap.kind = s.kind /\ n.snap.name = s.name /\ n.snap.tags = s.tags
      /\ n.snap.draft = s.draft /\ n.snap.text = s.text /\ (n.snap.warned <=> s.warned)
      /\ n.snap.fingerprint = s.fingerprint
  BY SnapshotTaken
<1>2. GoodStore(n)
  BY <1>1 DEF GoodStore, Loaded
<1> QED
  BY <1>1, <1>2

\* initFromCore: the store holds the core.
Holds(n, id, core) ==
  /\ GoodStore(n) /\ n.hydrated /\ n.coreId = id /\ ~n.isNew
  /\ n.kind = core.kind /\ n.snap.kind = core.kind
  /\ n.name = core.name /\ n.snap.name = core.name
  /\ n.baseline = n.draft /\ n.snap.draft = n.draft /\ n.tags = n.snap.tags
  /\ (n.warned <=> n.snap.warned) /\ ~n.textDirty /\ n.fingerprint = core.config
  /\ ~n.warned => n.draft = Import[core.kind][core.config] /\ n.draft \notin Broken

LEMMA InitializedStore ==
  ASSUME NEW s, s \in StoreType, NEW id \in Core, NEW core \in Content,
         NEW keep \in BOOLEAN, NEW n, n = InitFromCore(s, id, core, keep)
  PROVE  n = Reset \/ Holds(n, id, core)
<1> SUFFICES ASSUME ~Throws(core)
             PROVE  Holds(n, id, core)
  BY DEF InitFromCore
<1> DEFINE adv == keep /\ s.coreId = id /\ s.advanced
           k == core.kind
           d == Import[k][core.config]
<1>1. /\ k \in Kind /\ core.name \in Name /\ core.tags \in BOOLEAN
      /\ core.config \in Config /\ core.config \in JsonText /\ id # None /\ id \in Core \cup {None}
  BY EditorConstants DEF Content
<1>2. adv \in BOOLEAN
  BY DEF StoreType
<1>3. d \in Draft[k] /\ NewDraft[k] \in Draft[k]
  BY <1>1, EditorConstants
<1>9. k = "xray" \/ core.config \notin Rejected[k] => d \notin Broken
  BY DEF Throws
<1> HIDE DEF adv, d
<1>4. ASSUME NEW t \in BOOLEAN, d \notin Broken,
             n = Hydrated(id, core.name, k, t, d, Persist[d], adv, core.config, FALSE)
      PROVE  Holds(n, id, core)
  <2> DEFINE r == [hydrated |-> TRUE, isNew |-> id = None, coreId |-> id, name |-> core.name,
                   kind |-> k, tags |-> t, draft |-> d, baseline |-> d, advanced |-> adv,
                   text |-> Persist[d], textDirty |-> FALSE, fingerprint |-> core.config,
                   warned |-> FALSE, snap |-> None]
  <2>1. n = CaptureSnapshot(r)
    BY <1>4 DEF Hydrated
  <2>4. Persist[d] \in JsonText /\ Speaks(k, Persist[d], d)
    BY <1>1, <1>3, <1>4, EditorConstants DEF Speaks, Says
  <2>2. r \in StoreType
    BY <1>1, <1>2, <1>3, <2>4, EditorConstants DEF StoreType
  <2>3. /\ r.hydrated /\ r.kind = k /\ r.draft = d /\ r.baseline = d /\ r.text = Persist[d]
        /\ ~r.textDirty /\ ~r.warned /\ r.name = core.name /\ r.coreId = id
        /\ ~r.isNew /\ r.fingerprint = core.config
    BY <1>1
  <2> HIDE DEF r, k
  <2> QED
    <3>1. /\ GoodStore(n) /\ n.hydrated /\ n.coreId = id /\ ~n.isNew
          /\ n.kind = k /\ n.name = core.name /\ n.draft = d /\ n.baseline = d
          /\ n.fingerprint = core.config /\ ~n.warned /\ ~n.textDirty
          /\ n.snap.kind = k /\ n.snap.draft = d /\ ~n.snap.warned
          /\ n.snap.name = core.name /\ n.snap.tags = n.tags
      BY <1>1, <1>3, <2>1, <2>2, <2>3, <2>4, HydratedStore
    <3> QED
      BY <1>4, <3>1 DEF Holds, d, k
<1>5. ASSUME n = Hydrated(id, core.name, k, FALSE, NewDraft[k], core.config, adv, core.config, TRUE)
      PROVE  Holds(n, id, core)
  <2> DEFINE r == [hydrated |-> TRUE, isNew |-> id = None, coreId |-> id, name |-> core.name,
                   kind |-> k, tags |-> FALSE, draft |-> NewDraft[k], baseline |-> NewDraft[k],
                   advanced |-> adv, text |-> core.config, textDirty |-> FALSE,
                   fingerprint |-> core.config, warned |-> TRUE, snap |-> None]
  <2>1. n = CaptureSnapshot(r)
    BY <1>5 DEF Hydrated
  <2>2. r \in StoreType
    BY <1>1, <1>2, <1>3, EditorConstants DEF StoreType
  <2>3. /\ r.hydrated /\ r.kind = k /\ r.draft = NewDraft[k] /\ r.baseline = NewDraft[k]
        /\ r.text = core.config
        /\ ~r.textDirty /\ r.warned /\ r.name = core.name /\ r.coreId = id
        /\ ~r.isNew /\ r.fingerprint = core.config
    BY <1>1
  <2> HIDE DEF r, k
  <2> QED
    BY <1>1, <1>3, <2>1, <2>2, <2>3, HydratedStore DEF Holds, k
<1>6. CASE k = "wg"
  <2>1. n = InitWireGuard(id, core, adv)
    BY <1>6 DEF InitFromCore, adv
  <2> QED
    BY <1>4, <1>5, <1>6, <1>9, <2>1 DEF InitWireGuard, d
<1>7. CASE k = "xray"
  <2>1. n = InitXray(id, core, adv)
    BY <1>7 DEF InitFromCore, adv
  <2> QED
    BY <1>1, <1>4, <1>7, <1>9, <2>1 DEF InitXray, d
<1>8. CASE k # "wg" /\ k # "xray"
  <2>1. n = HydrateForkKind(id, core, adv)
    BY <1>8 DEF InitFromCore, adv
  <2> QED
    BY <1>4, <1>5, <1>9, <2>1 DEF HydrateForkKind, d
<1> QED
  BY <1>6, <1>7, <1>8

\* An operation that leaves the core and the snapshot alone.
Kept(n, s) ==
  /\ GoodStore(n) /\ (n.hydrated <=> s.hydrated) /\ n.coreId = s.coreId
  /\ (n.isNew <=> s.isNew) /\ n.snap = s.snap

LEMMA NameSet ==
  ASSUME NEW s, GoodStore(s), NEW x \in Name, NEW n, n = [s EXCEPT !.name = x]
  PROVE  /\ Kept(n, s) /\ n.kind = s.kind /\ n.baseline = s.baseline /\ (n.warned <=> s.warned)
         /\ n.fingerprint = s.fingerprint
<1>1. /\ n \in StoreType /\ (n.hydrated <=> s.hydrated) /\ n.coreId = s.coreId /\ (n.isNew <=> s.isNew)
      /\ n.kind = s.kind /\ n.draft = s.draft /\ n.baseline = s.baseline /\ n.text = s.text
      /\ (n.textDirty <=> s.textDirty) /\ (n.warned <=> s.warned) /\ (n.advanced <=> s.advanced)
      /\ n.snap = s.snap /\ n.fingerprint = s.fingerprint
  BY DEF GoodStore, StoreType
<1>2. GoodStore(n)
  BY <1>1 DEF GoodStore, Loaded
<1> QED
  BY <1>1, <1>2 DEF Kept

LEMMA TagsSet ==
  ASSUME NEW s, GoodStore(s), NEW n, n = [s EXCEPT !.tags = ~s.tags]
  PROVE  /\ Kept(n, s) /\ n.kind = s.kind /\ n.baseline = s.baseline /\ (n.warned <=> s.warned)
         /\ n.fingerprint = s.fingerprint
<1>1. /\ n \in StoreType /\ (n.hydrated <=> s.hydrated) /\ n.coreId = s.coreId /\ (n.isNew <=> s.isNew)
      /\ n.kind = s.kind /\ n.draft = s.draft /\ n.baseline = s.baseline /\ n.text = s.text
      /\ (n.textDirty <=> s.textDirty) /\ (n.warned <=> s.warned) /\ (n.advanced <=> s.advanced)
      /\ n.snap = s.snap /\ n.fingerprint = s.fingerprint
  BY DEF GoodStore, StoreType
<1>2. GoodStore(n)
  BY <1>1 DEF GoodStore, Loaded
<1> QED
  BY <1>1, <1>2 DEF Kept

\* The section of the JSON editor is opened or closed.
LEMMA SectionSet ==
  ASSUME NEW s, GoodStore(s), s.hydrated, NEW n, n = [s EXCEPT !.advanced = ~s.advanced]
  PROVE  /\ Kept(n, s) /\ n.kind = s.kind /\ n.baseline = s.baseline /\ (n.warned <=> s.warned)
         /\ n.fingerprint = s.fingerprint /\ n.draft = s.draft /\ n.text = s.text
         /\ (n.textDirty <=> s.textDirty) /\ n.name = s.name /\ n.tags = s.tags
<1>1. /\ n \in StoreType /\ (n.hydrated <=> s.hydrated) /\ n.coreId = s.coreId /\ (n.isNew <=> s.isNew)
      /\ n.kind = s.kind /\ n.draft = s.draft /\ n.baseline = s.baseline /\ n.text = s.text
      /\ (n.textDirty <=> s.textDirty) /\ (n.warned <=> s.warned)
      /\ n.snap = s.snap /\ n.fingerprint = s.fingerprint /\ n.name = s.name /\ n.tags = s.tags
  BY DEF GoodStore, StoreType
<1>2. GoodStore(n)
  BY <1>1 DEF GoodStore, Loaded
<1> QED
  BY <1>1, <1>2 DEF Kept

\* The store after the JSON text t was typed.
Typed(s, t) == [s EXCEPT !.text = t, !.textDirty = TRUE]

LEMMA JsonTyped ==
  ASSUME NEW s, GoodStore(s), s.hydrated, NEW t \in JsonText
  PROVE  LET n == Typed(s, t)
         IN  /\ Kept(n, s) /\ n.kind = s.kind /\ n.baseline = s.baseline /\ (n.warned <=> s.warned)
             /\ n.fingerprint = s.fingerprint
<1> DEFINE n == Typed(s, t)
<1>1. /\ n \in StoreType /\ (n.hydrated <=> s.hydrated) /\ n.coreId = s.coreId /\ (n.isNew <=> s.isNew)
      /\ n.kind = s.kind /\ n.draft = s.draft /\ n.baseline = s.baseline /\ n.text = t
      /\ n.textDirty /\ (n.warned <=> s.warned)
      /\ n.snap = s.snap /\ n.fingerprint = s.fingerprint
  BY DEF GoodStore, StoreType, Typed
<1> HIDE DEF n
<1>2. GoodStore(n)
  BY <1>1 DEF GoodStore, Loaded
<1>3. /\ Kept(n, s) /\ n.kind = s.kind /\ n.baseline = s.baseline /\ (n.warned <=> s.warned)
      /\ n.fingerprint = s.fingerprint
  BY <1>1, <1>2 DEF Kept
<1> QED
  BY <1>3 DEF n

LEMMA TextWritten ==
  ASSUME NEW s \in StoreType, NEW t \in JsonText, NEW n, n = [s EXCEPT !.text = t, !.textDirty = FALSE]
  PROVE  n \in StoreType
<1>1. t \in JsonText \cup {None}
  OBVIOUS
<1> QED
  BY <1>1 DEF StoreType

\* The text is written again from the draft, if that can be generated.
LEMMA TextSynced ==
  ASSUME NEW s \in StoreType, s.hydrated => s.draft \in Draft[s.kind] /\ s.text \in JsonText,
         NEW n, n = SyncMonacoFromDraft(s)
  PROVE  /\ n \in StoreType
         /\ (n.hydrated <=> s.hydrated) /\ n.coreId = s.coreId /\ (n.isNew <=> s.isNew)
         /\ n.snap = s.snap /\ n.kind = s.kind /\ n.baseline = s.baseline /\ (n.warned <=> s.warned)
         /\ n.fingerprint = s.fingerprint /\ n.draft = s.draft /\ n.name = s.name /\ n.tags = s.tags
         /\ (n.advanced <=> s.advanced)
         /\ s.hydrated => n.text \in JsonText /\ Speaks(n.kind, n.text, n.draft)
         /\ ~s.textDirty => ~n.textDirty
<1>1. CASE s.draft = None \/ s.draft \in Broken
  <2>1. n = s
    BY <1>1 DEF SyncMonacoFromDraft
  <2>2. s.kind \in Kind
    BY DEF StoreType
  <2>3. s.hydrated => s.draft \in Broken
    BY <1>1, <2>2, EditorConstants
  <2> QED
    BY <2>1, <2>3 DEF Speaks
<1>2. CASE s.draft # None /\ s.draft \notin Broken
  <2>1. n = [s EXCEPT !.text = Persist[s.draft], !.textDirty = FALSE]
    BY <1>2 DEF SyncMonacoFromDraft
  <2>2. PICK k \in Kind : s.draft \in Draft[k]
    BY <1>2 DEF StoreType, AllDrafts
  <2>3. Persist[s.draft] \in JsonText
    BY <1>2, <2>2, EditorConstants
  <2> DEFINE x == Persist[s.draft]
  <2>4. n = [s EXCEPT !.text = x, !.textDirty = FALSE] /\ x \in JsonText /\ x = Persist[s.draft]
    BY <2>1, <2>3
  <2> HIDE DEF x
  <2>5. n \in StoreType
    BY <2>4, TextWritten
  <2>6. /\ (n.hydrated <=> s.hydrated) /\ n.coreId = s.coreId /\ (n.isNew <=> s.isNew)
        /\ n.snap = s.snap /\ n.kind = s.kind /\ n.baseline = s.baseline /\ (n.warned <=> s.warned)
    BY <2>4 DEF StoreType
  <2>7. /\ n.fingerprint = s.fingerprint /\ n.draft = s.draft /\ n.name = s.name /\ n.tags = s.tags
        /\ (n.advanced <=> s.advanced) /\ ~n.textDirty /\ n.text = x
    BY <2>4 DEF StoreType
  <2>8. Speaks(n.kind, n.text, n.draft)
    BY <1>2, <2>4, <2>6, <2>7 DEF Speaks, Says
  <2> QED
    BY <2>4, <2>5, <2>6, <2>7, <2>8
<1> QED
  BY <1>1, <1>2

LEMMA StoreSynced ==
  ASSUME NEW s, GoodStore(s), NEW n, n = SyncMonacoFromDraft(s)
  PROVE  /\ Kept(n, s) /\ n.kind = s.kind /\ n.baseline = s.baseline /\ (n.warned <=> s.warned)
         /\ n.fingerprint = s.fingerprint /\ n.draft = s.draft /\ n.name = s.name /\ n.tags = s.tags
<1>1. s \in StoreType /\ (s.hydrated => s.draft \in Draft[s.kind] /\ s.text \in JsonText)
  BY DEF GoodStore, Loaded
<1>2. /\ n \in StoreType
      /\ (n.hydrated <=> s.hydrated) /\ n.coreId = s.coreId /\ (n.isNew <=> s.isNew)
      /\ n.snap = s.snap /\ n.kind = s.kind /\ n.baseline = s.baseline /\ (n.warned <=> s.warned)
      /\ n.fingerprint = s.fingerprint /\ n.draft = s.draft /\ n.name = s.name /\ n.tags = s.tags
      /\ (n.advanced <=> s.advanced)
      /\ s.hydrated => n.text \in JsonText /\ Speaks(n.kind, n.text, n.draft)
      /\ ~s.textDirty => ~n.textDirty
  BY <1>1, TextSynced
<1>3. GoodStore(n)
  BY <1>2 DEF GoodStore, Loaded
<1> QED
  BY <1>2, <1>3 DEF Kept

LEMMA DraftUpdated ==
  ASSUME NEW s, GoodStore(s), s.hydrated, NEW d \in Draft[s.kind],
         NEW n, n = UpdateDraft(s, d)
  PROVE  /\ Kept(n, s) /\ n.kind = s.kind /\ n.baseline = s.baseline /\ (n.warned <=> s.warned)
         /\ n.fingerprint = s.fingerprint
<1> DEFINE r == [s EXCEPT !.draft = d]
<1>1. s.kind \in Kind /\ d \in AllDrafts
  BY EditorConstants DEF GoodStore, Loaded
<1>2. /\ r \in StoreType /\ (r.hydrated <=> s.hydrated) /\ r.coreId = s.coreId /\ (r.isNew <=> s.isNew)
      /\ r.kind = s.kind /\ r.draft = d /\ r.baseline = s.baseline
      /\ (r.warned <=> s.warned) /\ r.snap = s.snap /\ r.fingerprint = s.fingerprint
      /\ r.text \in JsonText
  BY <1>1 DEF GoodStore, Loaded, StoreType
<1>3. n = SyncMonacoFromDraft(r)
  BY DEF UpdateDraft
<1> HIDE DEF r
<1>4. /\ n \in StoreType
      /\ (n.hydrated <=> r.hydrated) /\ n.coreId = r.coreId /\ (n.isNew <=> r.isNew)
      /\ n.snap = r.snap /\ n.kind = r.kind /\ n.baseline = r.baseline /\ (n.warned <=> r.warned)
      /\ n.fingerprint = r.fingerprint /\ n.draft = r.draft
      /\ n.text \in JsonText /\ Speaks(n.kind, n.text, n.draft)
  BY <1>2, <1>3, TextSynced
<1>5. GoodStore(n)
  BY <1>2, <1>4 DEF GoodStore, Loaded
<1> QED
  BY <1>2, <1>4, <1>5 DEF Kept

LEMMA NewStore ==
  ASSUME NEW k \in Kind, NEW x \in Name, NEW n, n = InitNew(k, x)
  PROVE  GoodStore(n) /\ n.hydrated /\ n.coreId = None
<1> DEFINE r == [hydrated |-> TRUE, isNew |-> None = None, coreId |-> None, name |-> x,
                 kind |-> k, tags |-> FALSE, draft |-> NewDraft[k], baseline |-> NewDraft[k],
                 advanced |-> FALSE, text |-> NewText[k], textDirty |-> FALSE,
                 fingerprint |-> None, warned |-> FALSE, snap |-> None]
<1>1. n = CaptureSnapshot(r)
  BY DEF InitNew, Hydrated
<1>2. /\ NewDraft[k] \in Draft[k] /\ NewDraft[k] \in AllDrafts /\ NewText[k] \in JsonText
      /\ Speaks(k, NewText[k], NewDraft[k])
  BY EditorConstants
<1>3. r \in StoreType
  BY <1>2 DEF StoreType
<1>4. /\ r.hydrated /\ r.kind = k /\ r.draft = NewDraft[k] /\ r.baseline = NewDraft[k]
      /\ r.text = NewText[k] /\ ~r.textDirty /\ ~r.warned /\ r.coreId = None
  OBVIOUS
<1> HIDE DEF r
<1> QED
  BY <1>1, <1>2, <1>3, <1>4, HydratedStore

LEMMA KindSwitched ==
  ASSUME NEW s, GoodStore(s), s.hydrated, NEW k \in Kind,
         NEW n, n = SwitchedKind(s, k)
  PROVE  Kept(n, s) /\ n.kind = k /\ n.fingerprint = s.fingerprint
<1> DEFINE d == NewDraft[k]
           t == NewText[k]
<1>1. /\ d \in Draft[k] /\ d \in AllDrafts /\ t \in JsonText
      /\ Speaks(k, t, d)
  BY EditorConstants
<1>2. n = [s EXCEPT !.kind = k, !.tags = FALSE, !.draft = d, !.baseline = d,
                    !.advanced = FALSE, !.text = t, !.textDirty = FALSE, !.warned = FALSE]
  BY DEF SwitchedKind
<1> HIDE DEF d, t
<1>3. s \in StoreType
  BY DEF GoodStore
<1>4. n \in StoreType
  <2> DEFINE m == [s EXCEPT !.kind = k, !.tags = FALSE, !.draft = d, !.baseline = d]
  <2>1. m \in StoreType
    BY <1>1, <1>3 DEF StoreType
  <2>2. n = [m EXCEPT !.advanced = FALSE, !.text = t, !.textDirty = FALSE, !.warned = FALSE]
    BY <1>2
  <2> HIDE DEF m
  <2> QED
    BY <1>1, <2>1, <2>2 DEF StoreType
<1>5. /\ (n.hydrated <=> s.hydrated) /\ n.coreId = s.coreId /\ (n.isNew <=> s.isNew)
      /\ n.snap = s.snap /\ n.fingerprint = s.fingerprint
      /\ n.kind = k /\ n.draft = d /\ n.baseline = d /\ n.text = t /\ ~n.textDirty /\ ~n.warned
  BY <1>2, <1>3 DEF StoreType
<1>6. GoodStore(n)
  BY <1>1, <1>4, <1>5 DEF GoodStore, Loaded
<1> QED
  BY <1>5, <1>6 DEF Kept

LEMMA DraftDiscarded ==
  ASSUME NEW s, GoodStore(s), s.hydrated, NEW n, n = DiscardDraft(s)
  PROVE  /\ Kept(n, s) /\ n.fingerprint = s.fingerprint
         /\ n = s \/ (n.baseline = n.snap.draft /\ (n.warned <=> n.snap.warned))
<1>1. CASE s.snap = None \/ s.snap.draft = None
  <2>1. n = s
    BY <1>1 DEF DiscardDraft
  <2> QED
    BY <2>1 DEF Kept
<1>2. CASE s.snap # None /\ s.snap.draft # None
  <2> DEFINE p == s.snap
  <2>1. /\ s \in StoreType /\ p \in SnapshotType /\ p.kind \in Kind
        /\ p.draft \in Draft[p.kind] /\ p.text \in JsonText
        /\ ~p.warned => Speaks(p.kind, p.text, p.draft)
        /\ s.fingerprint = p.fingerprint
    BY DEF GoodStore, Loaded, SnapshotType
  <2>2. n = [s EXCEPT !.kind = p.kind, !.name = p.name, !.tags = p.tags,
                 !.draft = p.draft, !.baseline = p.draft, !.text = p.text,
                 !.textDirty = FALSE, !.advanced = p.advanced, !.warned = p.warned,
                 !.fingerprint = p.fingerprint]
    BY <1>2 DEF DiscardDraft
  <2>3. s.snap = p
    OBVIOUS
  <2> HIDE DEF p
  <2>4. n \in StoreType
    <3> DEFINE m == [s EXCEPT !.kind = p.kind, !.name = p.name, !.tags = p.tags,
                              !.draft = p.draft, !.baseline = p.draft]
    <3>1. /\ p.kind \in Kind /\ p.name \in Name /\ p.tags \in BOOLEAN
          /\ p.draft \in AllDrafts \cup {None} /\ p.advanced \in BOOLEAN /\ p.warned \in BOOLEAN
          /\ p.fingerprint \in Config \cup {None} /\ p.text \in JsonText \cup {None}
      BY <2>1 DEF SnapshotType
    <3>2. m \in StoreType
      BY <2>1, <3>1 DEF StoreType
    <3>3. n = [m EXCEPT !.text = p.text, !.textDirty = FALSE, !.advanced = p.advanced,
                        !.warned = p.warned, !.fingerprint = p.fingerprint]
      BY <2>2
    <3> HIDE DEF m
    <3> QED
      BY <3>1, <3>2, <3>3 DEF StoreType
  <2>5. /\ (n.hydrated <=> s.hydrated) /\ n.coreId = s.coreId /\ (n.isNew <=> s.isNew)
        /\ n.snap = s.snap /\ n.kind = p.kind /\ n.draft = p.draft /\ n.baseline = p.draft
        /\ n.text = p.text /\ ~n.textDirty /\ n.fingerprint = p.fingerprint
    BY <2>1, <2>2 DEF StoreType
  <2>6. n.warned <=> p.warned
    BY <2>1, <2>2 DEF StoreType
  <2>7. GoodStore(n)
    BY <2>1, <2>3, <2>4, <2>5, <2>6 DEF GoodStore, Loaded
  <2> QED
    BY <2>1, <2>3, <2>5, <2>6, <2>7 DEF Kept
<1> QED
  BY <1>1, <1>2

\* Typed text that parses becomes the draft.
LEMMA JsonApplied ==
  ASSUME NEW s, GoodStore(s), s.hydrated, NEW n, n = ApplyMonacoJson(s)
  PROVE  /\ Kept(n, s) /\ n.kind = s.kind /\ n.baseline = s.baseline /\ (n.warned <=> s.warned)
         /\ n.fingerprint = s.fingerprint /\ n.name = s.name /\ n.tags = s.tags
         /\ n = s \/ (~n.textDirty /\ s.text \in Config /\ n.draft = Import[s.kind][s.text])
<1>1. CASE s.text = Garbage \/ s.text \in Rejected[s.kind]
  <2>1. n = s
    BY <1>1 DEF ApplyMonacoJson
  <2> QED
    BY <2>1 DEF Kept
<1>2. CASE ~(s.text = Garbage \/ s.text \in Rejected[s.kind])
  <2> DEFINE d == Import[s.kind][s.text]
  <2>1. /\ s \in StoreType /\ s.kind \in Kind /\ s.text \in Config
    BY <1>2 DEF GoodStore, Loaded, JsonText
  <2>2. d \in Draft[s.kind] /\ d \in AllDrafts
    BY <2>1, EditorConstants
  <2>3. n = [s EXCEPT !.draft = d, !.textDirty = FALSE] /\ d = Import[s.kind][s.text]
    BY <1>2 DEF ApplyMonacoJson
  <2> HIDE DEF d
  <2>4. n \in StoreType
    BY <2>1, <2>2, <2>3 DEF StoreType
  <2>5. /\ (n.hydrated <=> s.hydrated) /\ n.coreId = s.coreId /\ (n.isNew <=> s.isNew)
        /\ n.snap = s.snap /\ n.kind = s.kind /\ n.draft = d /\ n.baseline = s.baseline
        /\ n.text = s.text /\ ~n.textDirty /\ (n.warned <=> s.warned)
        /\ n.fingerprint = s.fingerprint /\ n.name = s.name /\ n.tags = s.tags
    BY <2>1, <2>3 DEF StoreType
  <2>6. GoodStore(n)
    BY <2>1, <2>2, <2>3, <2>4, <2>5 DEF GoodStore, Loaded, Speaks, Says
  <2> QED
    BY <2>1, <2>3, <2>5, <2>6 DEF Kept
<1> QED
  BY <1>1, <1>2

\* The content of the store becomes the saved one.
LEMMA MarkedClean ==
  ASSUME NEW s, GoodStore(s), NEW n, n = MarkClean(s)
  PROVE  /\ GoodStore(n) /\ (n.hydrated <=> s.hydrated) /\ n.coreId = s.coreId
         /\ (n.isNew <=> s.isNew) /\ n.kind = s.kind /\ n.draft = s.draft /\ n.baseline = s.draft
         /\ n.snap.kind = s.kind /\ n.snap.draft = s.draft /\ n.snap.name = n.name
         /\ n.snap.tags = n.tags /\ (n.snap.warned <=> n.warned) /\ ~n.textDirty
         /\ n.fingerprint = s.fingerprint /\ (n.warned <=> s.warned)
<1> DEFINE r == [s EXCEPT !.baseline = s.draft, !.textDirty = FALSE]
           t == SyncMonacoFromDraft(r)
<1>1. s \in StoreType /\ (s.hydrated => s.draft \in Draft[s.kind] /\ s.kind \in Kind /\ s.text \in JsonText)
  BY DEF GoodStore, Loaded
<1>2. r \in StoreType
  BY <1>1 DEF StoreType
<1>3. /\ (r.hydrated <=> s.hydrated) /\ r.coreId = s.coreId /\ (r.isNew <=> s.isNew)
      /\ r.kind = s.kind /\ r.draft = s.draft /\ r.baseline = s.draft /\ ~r.textDirty
      /\ (r.advanced <=> s.advanced) /\ r.text = s.text /\ r.fingerprint = s.fingerprint /\ (r.warned <=> s.warned)
  BY <1>1 DEF StoreType
<1>4. n = CaptureSnapshot(t)
  BY DEF MarkClean
<1> HIDE DEF r
<1>5. t = SyncMonacoFromDraft(r)
  OBVIOUS
<1> HIDE DEF t
<1>6. /\ t \in StoreType
      /\ (t.hydrated <=> r.hydrated) /\ t.coreId = r.coreId /\ (t.isNew <=> r.isNew)
      /\ t.kind = r.kind /\ t.baseline = r.baseline /\ t.draft = r.draft
      /\ (t.advanced <=> r.advanced) /\ ~t.textDirty
      /\ t.fingerprint = r.fingerprint /\ (t.warned <=> r.warned)
      /\ r.hydrated => t.text \in JsonText /\ Speaks(t.kind, t.text, t.draft)
  BY <1>1, <1>2, <1>3, <1>5, TextSynced
<1>7. /\ n \in StoreType
      /\ (n.hydrated <=> t.hydrated) /\ (n.isNew <=> t.isNew) /\ n.coreId = t.coreId /\ n.name = t.name
      /\ n.kind = t.kind /\ n.tags = t.tags /\ n.draft = t.draft /\ n.baseline = t.baseline
      /\ (n.advanced <=> t.advanced) /\ n.text = t.text /\ (n.textDirty <=> t.textDirty)
      /\ (n.warned <=> t.warned) /\ n.fingerprint = t.fingerprint
      /\ n.snap \in SnapshotType
      /\ n.snap.kind = t.kind /\ n.snap.name = t.name /\ n.snap.tags = t.tags
      /\ n.snap.draft = t.draft /\ n.snap.text = t.text /\ (n.snap.warned <=> t.warned)
      /\ n.snap.fingerprint = t.fingerprint
  BY <1>4, <1>6, SnapshotTaken
<1>8. s.hydrated => Loaded(n)
  BY <1>1, <1>3, <1>6, <1>7 DEF Loaded
<1>9. ~s.hydrated => ~n.advanced /\ ~n.textDirty
  BY <1>3, <1>6, <1>7 DEF GoodStore
<1>10. GoodStore(n)
  BY <1>3, <1>6, <1>7, <1>8, <1>9 DEF GoodStore
<1> QED
  BY <1>3, <1>6, <1>7, <1>10

\* The load effect leaves the store alone, or the store holds the core, or loading it
\* threw and the store is empty.
LEMMA LoadEffectStore ==
  ASSUME NEW s, GoodStore(s), NEW c \in Core, NEW core \in Content,
         NEW n, n = LoadEffect(s, c, core)
  PROVE  /\ n = s \/ n = Reset \/ Holds(n, c, core)
         /\ s.coreId # c => n = Reset \/ Holds(n, c, core)
         /\ s.coreId = c /\ s.hydrated /\ ~HasActualChanges(s) /\ ~s.isNew
            /\ s.fingerprint # core.config => n = Reset \/ Holds(n, c, core)
<1>1. s \in StoreType /\ TRUE \in BOOLEAN /\ FALSE \in BOOLEAN
  BY DEF GoodStore
<1>2. CASE s.coreId # c
  <2>1. n = InitFromCore(s, c, core, FALSE)
    BY <1>2 DEF LoadEffect
  <2>2. n = Reset \/ Holds(n, c, core)
    BY <1>1, <2>1, InitializedStore
  <2> QED
    BY <1>2, <2>2
<1>3. CASE s.coreId = c /\ s.hydrated /\ ~HasActualChanges(s) /\ ~s.isNew
           /\ s.fingerprint # core.config
  <2>1. n = InitFromCore(s, c, core, TRUE)
    BY <1>3 DEF LoadEffect
  <2>2. n = Reset \/ Holds(n, c, core)
    BY <1>1, <2>1, InitializedStore
  <2> QED
    BY <1>3, <2>2
<1>4. CASE s.coreId = c /\ ~(s.hydrated /\ ~HasActualChanges(s) /\ ~s.isNew
                              /\ s.fingerprint # core.config)
  <2>1. n = s
    BY <1>4 DEF LoadEffect
  <2> QED
    BY <1>4, <2>1
<1> QED
  BY <1>2, <1>3, <1>4

---------------------------------------------------------------------------
(* The core editor: what each step keeps.                                  *)

HookType == [apply : BOOLEAN, sync : BOOLEAN, seen : AllDrafts \cup {None}]

EditorType ==
  /\ \E D \in SUBSET Core : cores \in [D -> Content]
  /\ cache \in [Core -> Content \cup {None}] /\ answer \in [Core -> Content \cup {None}]
  /\ asked \subseteq Core /\ failed \subseteq Core
  /\ page \in [at : Core \cup {"list", "new"}, mount : Nat, ask : BOOLEAN]
  /\ hook \in HookType
  /\ doubt \in BOOLEAN /\ edits \in 0..MaxEdit /\ saves \in 0..MaxSave /\ otherSaves \in 0..MaxOtherSave

Requests ==
  /\ saveReqs \subseteq RequestType
  /\ \A r \in saveReqs : /\ r.phase = "stored" => r.stored \in Core
                         /\ r.from = IF r.target = "new" THEN None ELSE r.target

\* A loaded store belongs to the core on screen.
Bound ==
  store.hydrated => /\ page.at # "list"
                    /\ store.coreId = IF page.at = "new" THEN None ELSE page.at

EditorInv == EditorType /\ Requests /\ GoodStore(store) /\ Bound

LEMMA EditorParts ==
  ASSUME EditorInv
  PROVE  /\ EditorType /\ Requests /\ GoodStore(store) /\ Bound /\ store \in StoreType
         /\ List = "list" /\ New = "new"
         /\ page.at \in Core \cup {"list", "new"} /\ page.mount \in Nat /\ page.ask \in BOOLEAN
         /\ "list" \notin Core /\ "new" \notin Core /\ None \notin Core /\ None \notin Content
         /\ DOMAIN cores \subseteq Core /\ \A c \in DOMAIN cores : cores[c] \in Content
         /\ \A c \in Core : cache[c] \in Content \cup {None} /\ answer[c] \in Content \cup {None}
         /\ MaxEdit \in Nat /\ MaxSave \in Nat /\ MaxOtherSave \in Nat
<1>1. /\ EditorType /\ Requests /\ GoodStore(store) /\ Bound /\ store \in StoreType
      /\ List = "list" /\ New = "new"
  BY DEF EditorInv, GoodStore, List, New
<1>2. "list" \notin Core /\ "new" \notin Core /\ None \notin Core /\ None \notin Content
  BY EditorConstants
<1>3. page.at \in Core \cup {"list", "new"} /\ page.mount \in Nat /\ page.ask \in BOOLEAN
  BY <1>1 DEF EditorType
<1>4. DOMAIN cores \subseteq Core /\ \A c \in DOMAIN cores : cores[c] \in Content
  BY <1>1 DEF EditorType
<1>5. \A c \in Core : cache[c] \in Content \cup {None} /\ answer[c] \in Content \cup {None}
  BY <1>1 DEF EditorType
<1>6. MaxEdit \in Nat /\ MaxSave \in Nat /\ MaxOtherSave \in Nat
  BY EditorAssumption
<1> QED
  BY <1>1, <1>2, <1>3, <1>4, <1>5, <1>6

LEMMA HookFollows ==
  ASSUME GoodStore(store), NEW h \in HookType, NEW s, GoodStore(s)
  PROVE  Follow(h, s) \in HookType
<1>1. s \in StoreType /\ store \in StoreType
  BY DEF GoodStore
<1>2. s.textDirty \in BOOLEAN /\ s.draft \in AllDrafts \cup {None}
  BY <1>1 DEF StoreType
<1>3. NoHook \in HookType /\ [NoHook EXCEPT !.apply = s.textDirty] \in HookType
  BY <1>2 DEF NoHook, HookType
<1>4. h.apply \in BOOLEAN /\ h.sync \in BOOLEAN /\ h.seen \in AllDrafts \cup {None}
  BY DEF HookType
<1> DEFINE a == IF s.text # store.text \/ s.textDirty # store.textDirty THEN s.textDirty ELSE h.apply
           b == h.sync \/ (s # store /\ s.draft # h.seen /\ ~s.textDirty)
           d == IF s = store THEN h.seen ELSE s.draft
<1>5. a \in BOOLEAN /\ b \in BOOLEAN /\ d \in AllDrafts \cup {None}
  BY <1>2, <1>4
<1>6. [apply |-> a, sync |-> b, seen |-> d] \in HookType
  <2> HIDE DEF a, b, d
  <2> QED
    BY <1>5 DEF HookType
<1> QED
  BY <1>3, <1>6 DEF Follow

\* A new store for the core on screen.
LEMMA StoreSet ==
  ASSUME EditorInv, NEW s, GoodStore(s), SetStore(s), page' = page,
         s.hydrated => page.at # "list" /\ s.coreId = IF page.at = "new" THEN None ELSE page.at
  PROVE  GoodStore(store)' /\ Bound' /\ hook' \in HookType
<1>1. store' = s /\ hook' = Follow(hook, s) /\ hook \in HookType /\ GoodStore(store)
  BY DEF SetStore, EditorInv, EditorType
<1>2. Follow(hook, s) \in HookType
  BY <1>1, HookFollows
<1> QED
  BY <1>1, <1>2 DEF Bound, GoodStore, Loaded

LEMMA KeptBound ==
  ASSUME Bound, NEW s, Kept(s, store)
  PROVE  s.hydrated => page.at # "list" /\ s.coreId = IF page.at = "new" THEN None ELSE page.at
BY DEF Bound, Kept

LEMMA InitEditor ==
  ASSUME EditorInit
  PROVE  EditorInv
<1>1. GoodStore(store) /\ ~store.hydrated
  BY ResetStore DEF EditorInit
<1>2. \E D \in SUBSET Core : cores \in [D -> Content]
  BY EditorAssumption DEF EditorInit
<1>3. EditorType
  <2>1. doubt \in BOOLEAN
    BY DEF EditorInit
  <2> QED
    BY <1>2, <2>1, EditorAssumption DEF EditorInit, EditorType, List, NoHook, HookType
<1> QED
  BY <1>1, <1>3 DEF EditorInv, Requests, Bound, EditorInit

\* An edit gives the store a new content, of the core on screen.
LEMMA EditKeeps ==
  ASSUME EditorInv, NEW s, GoodStore(s), Edit(s),
         s.hydrated => page.at # "list" /\ s.coreId = IF page.at = "new" THEN None ELSE page.at
  PROVE  EditorInv'
<1>1. /\ SetStore(s) /\ edits < MaxEdit /\ edits' = edits + 1
      /\ UNCHANGED <<cores, cache, asked, answer, failed, page, saveReqs, saves, otherSaves>>
  BY DEF Edit
<1>6. doubt' \in BOOLEAN
  BY EditorParts DEF Edit, EditorType
<1>2. GoodStore(store)' /\ Bound' /\ hook' \in HookType
  BY <1>1, StoreSet
<1>3. edits' \in 0..MaxEdit
  BY <1>1, EditorParts DEF EditorType
<1>4. EditorType'
  BY <1>1, <1>2, <1>3, <1>6, EditorParts DEF EditorType
<1>5. Requests'
  BY <1>1, EditorParts DEF Requests
<1> QED
  BY <1>2, <1>4, <1>5 DEF EditorInv

\* The store changes and nothing else.
LEMMA StoreKeeps ==
  ASSUME EditorInv, GoodStore(store)', Bound', hook' \in HookType,
         UNCHANGED <<doubt, cores, cache, asked, answer, failed, page, saveReqs, edits, saves, otherSaves>>
  PROVE  EditorInv'
<1>1. EditorType'
  BY EditorParts DEF EditorType
<1>2. Requests'
  BY EditorParts DEF Requests
<1> QED
  BY <1>1, <1>2 DEF EditorInv

\* The page of a core is mounted.
LEMMA MountKeeps ==
  ASSUME EditorInv, NEW c \in Core, Mount(c),
         saveReqs' \subseteq saveReqs, UNCHANGED <<cores, cache, edits, saves, otherSaves>>
  PROVE  EditorInv'
<1>1. GoodStore(store)' /\ Bound'
  <2>1. page' = [at |-> c, mount |-> page.mount + 1, ask |-> FALSE]
    BY DEF Mount
  <2>2. c # "list" /\ c # "new" /\ c # None
    BY EditorParts
  <2>3. CASE cache[c] = None
    <3>1. store' = Reset
      BY <2>3 DEF Mount
    <3> QED
      BY <3>1, ResetStore DEF Bound, GoodStore, Loaded
  <2>4. CASE cache[c] # None
    <3>1. cache[c] \in Content
      BY <2>4, EditorParts
    <3>2. store' = LoadEffect(Reset, c, cache[c])
      BY <2>4 DEF Mount
    <3>3. store' = Reset \/ Holds(store', c, cache[c])
      BY <2>2, <3>1, <3>2, ResetStore, LoadEffectStore
    <3> QED
      BY <2>1, <2>2, <3>3, ResetStore DEF Holds, Bound, GoodStore, Loaded
  <2> QED
    BY <2>3, <2>4
<1>2. hook' \in HookType
  BY DEF Mount, NoHook, HookType
<1>3. page' \in [at : Core \cup {"list", "new"}, mount : Nat, ask : BOOLEAN]
  BY EditorParts DEF Mount
<1>4. asked' \subseteq Core /\ answer' = answer /\ failed' \subseteq Core /\ doubt' \in BOOLEAN
  BY EditorParts DEF Mount, EditorType
<1>5. EditorType'
  BY <1>2, <1>3, <1>4, EditorParts DEF EditorType
<1>6. Requests'
  BY EditorParts DEF Requests
<1> QED
  BY <1>1, <1>5, <1>6 DEF EditorInv

\* A save in flight or done.
LEMMA SaveSent ==
  ASSUME EditorInv, HandleSave
  PROVE  EditorInv'
<1> DEFINE b == [kind |-> store.kind, name |-> store.name,
                 tags |-> store.kind = "xray" /\ store.tags, config |-> Persist[store.draft]]
           r == [id |-> saves + 1, mount |-> page.mount, target |-> page.at, from |-> store.coreId,
                 phase |-> "sent", stored |-> None, body |-> b]
<1>1. /\ OnScreen /\ store.draft \notin Broken /\ saves < MaxSave /\ store.name # Blank /\ saves' = saves + 1
      /\ saveReqs' = saveReqs \cup {r}
      /\ UNCHANGED <<doubt, cores, cache, asked, answer, failed, store, page, hook, edits, otherSaves>>
  BY DEF HandleSave
<1>2. /\ store.hydrated /\ page.at \in Core \cup {"new"}
      /\ store.coreId = IF page.at = "new" THEN None ELSE page.at
  BY <1>1, EditorParts DEF OnScreen, Bound
<1>3. b \in Content
  <2>1. /\ store.kind \in Kind /\ store.name \in Name \ {Blank}
        /\ Persist[store.draft] \in Config
    BY <1>1, <1>2, EditorParts, EditorConstants DEF GoodStore, Loaded, StoreType
  <2>2. (store.kind = "xray" /\ store.tags) \in BOOLEAN
    BY EditorParts DEF StoreType
  <2> QED
    BY <2>1, <2>2 DEF Content
<1>4. saves' \in 0..MaxSave /\ saves + 1 \in 1..MaxSave
  BY <1>1, EditorParts DEF EditorType
<1>5. /\ r \in RequestType /\ r.phase = "sent"
      /\ r.from = IF r.target = "new" THEN None ELSE r.target
  <2> HIDE DEF b
  <2> QED
    BY <1>2, <1>3, <1>4, EditorParts DEF RequestType
<1> HIDE DEF r
<1>6. Requests'
  BY <1>1, <1>5, EditorParts DEF Requests
<1>7. EditorType'
  BY <1>1, <1>4, EditorParts DEF EditorType
<1> QED
  BY <1>1, <1>6, <1>7, EditorParts DEF EditorInv, GoodStore, Loaded, Bound

\* The server stores the body of r under c, and r becomes q.
Stores(r, c, q) ==
  /\ r.target = "new" => c \notin DOMAIN cores
  /\ r.target # "new" => c = r.target
  /\ DOMAIN cores' = DOMAIN cores \cup {c} /\ cores'[c] \in Content
  /\ cores'[c].kind = r.body.kind /\ cores'[c].config \in Filled[r.body.config]
  /\ \A d \in DOMAIN cores : d # c => cores'[d] = cores[d]
  /\ saveReqs' = (saveReqs \ {r}) \cup {q}
  /\ q.phase = "stored" /\ q.stored = c
  /\ q.mount = r.mount /\ q.target = r.target /\ q.from = r.from /\ q.body = r.body

LEMMA ServerStoresStep ==
  ASSUME EditorInv, NEW r \in saveReqs, ServerStores(r)
  PROVE  /\ \E D \in SUBSET Core : cores' \in [D -> Content]
         /\ \E c \in Core, q \in RequestType : Stores(r, c, q)
<1>1. PICK c \in IF r.target = "new" THEN Core \ DOMAIN cores ELSE {r.target},
           cfg \in Filled[r.body.config] :
        /\ cores' = [d \in DOMAIN cores \cup {c} |->
                       IF d = c THEN [r.body EXCEPT !.config = cfg] ELSE cores[d]]
        /\ saveReqs' = (saveReqs \ {r}) \cup {[r EXCEPT !.phase = "stored", !.stored = c]}
  BY EditorParts DEF ServerStores
<1>2. r \in RequestType /\ r.target \in Core \cup {"new"} /\ r.body \in Content
  BY EditorParts DEF Requests, RequestType
<1>3. c \in Core
  BY <1>1, <1>2
<1> DEFINE b == [r.body EXCEPT !.config = cfg]
<1>11. b \in Content /\ b.kind = r.body.kind /\ b.config = cfg
  BY <1>1, <1>2, EditorConstants DEF Content
<1>12. cores' = [d \in DOMAIN cores \cup {c} |-> IF d = c THEN b ELSE cores[d]]
  BY <1>1
<1> HIDE DEF b
<1> DEFINE q == [r EXCEPT !.phase = "stored", !.stored = c]
<1>4. /\ q \in RequestType /\ q.phase = "stored" /\ q.stored = c
      /\ q.mount = r.mount /\ q.target = r.target /\ q.from = r.from /\ q.body = r.body
  BY <1>2, <1>3 DEF RequestType
<1>5. saveReqs' = (saveReqs \ {r}) \cup {q}
  BY <1>1
<1> HIDE DEF q
<1>6. /\ DOMAIN cores' = DOMAIN cores \cup {c} /\ cores'[c] = b
      /\ \A d \in DOMAIN cores : d # c => cores'[d] = cores[d]
  BY <1>12
<1>7. cores' \in [DOMAIN cores \cup {c} -> Content] /\ DOMAIN cores \cup {c} \in SUBSET Core
  BY <1>3, <1>11, <1>12, EditorParts
<1>8. (r.target = "new" => c \notin DOMAIN cores) /\ (r.target # "new" => c = r.target)
  BY <1>1
<1>9. \E D \in SUBSET Core : cores' \in [D -> Content]
  BY <1>7
<1>10. Stores(r, c, q)
  BY <1>1, <1>4, <1>5, <1>6, <1>8, <1>11 DEF Stores
<1> QED
  BY <1>3, <1>4, <1>9, <1>10

LEMMA SaveServed ==
  ASSUME EditorInv, NEW r \in saveReqs, ServerStores(r)
  PROVE  EditorInv'
<1>1. PICK c \in Core, q \in RequestType : Stores(r, c, q)
  BY ServerStoresStep
<1>2. /\ \E D \in SUBSET Core : cores' \in [D -> Content]
      /\ UNCHANGED <<cache, asked, answer, failed, store, page, hook, edits, saves, otherSaves>>
      /\ doubt' \in BOOLEAN
  BY ServerStoresStep, EditorParts DEF ServerStores, EditorType
<1>3. Requests'
  BY <1>1, EditorParts DEF Requests, Stores
<1>4. EditorType'
  BY <1>2, EditorParts DEF EditorType
<1> QED
  BY <1>2, <1>3, <1>4, EditorParts DEF EditorInv, GoodStore, Loaded, Bound

LEMMA SaveDone ==
  ASSUME EditorInv, NEW r \in saveReqs,
         SaveFails(r) \/ SaveModified(r) \/ SaveCreated(r)
  PROVE  EditorInv'
<1>1. saveReqs' = saveReqs \ {r}
  BY DEF SaveFails, SaveModified, SaveCreated
<1>2. Requests'
  BY <1>1, EditorParts DEF Requests
<1>3. CASE SaveFails(r)
  <2>1. /\ UNCHANGED <<cores, cache, asked, answer, failed, store, page, hook, edits, saves, otherSaves>>
        /\ doubt' \in BOOLEAN
    BY <1>3, EditorParts DEF SaveFails, EditorType
  <2>2. EditorType'
    BY <2>1, EditorParts DEF EditorType
  <2> QED
    BY <1>2, <2>1, <2>2, EditorParts DEF EditorInv, GoodStore, Loaded, Bound
<1>4. CASE SaveModified(r)
  <2> DEFINE s == MarkClean(store)
  <2>1. /\ SetStore(s) /\ UNCHANGED <<cores, cache, failed, page, edits, saves, otherSaves>>
        /\ doubt' \in BOOLEAN
    BY <1>4, EditorParts DEF SaveModified, EditorType
  <2>2. GoodStore(s) /\ (s.hydrated <=> store.hydrated) /\ s.coreId = store.coreId
    BY EditorParts, MarkedClean
  <2> HIDE DEF s
  <2>3. s.hydrated => page.at # "list" /\ s.coreId = IF page.at = "new" THEN None ELSE page.at
    BY <2>2, EditorParts DEF Bound
  <2>4. GoodStore(store)' /\ Bound' /\ hook' \in HookType
    BY <2>1, <2>2, <2>3, StoreSet
  <2>5. asked' \subseteq Core /\ answer' \in [Core -> Content \cup {None}]
    <3>1. r.target \in Core
      BY <1>4, EditorParts DEF SaveModified, Requests, RequestType
    <3> QED
      BY <1>4, <3>1, EditorParts DEF SaveModified, EditorType
  <2>6. EditorType'
    BY <2>1, <2>4, <2>5, EditorParts DEF EditorType
  <2> QED
    BY <1>2, <2>4, <2>6 DEF EditorInv
<1>5. CASE SaveCreated(r)
  <2>1. /\ Mount(r.stored) /\ UNCHANGED <<cores, cache, edits, saves, otherSaves>>
        /\ r.stored \in Core
    BY <1>5, EditorParts DEF SaveCreated, Requests
  <2> QED
    BY <1>1, <2>1, MountKeeps
<1> QED
  BY <1>3, <1>4, <1>5

LEMMA FetchKeeps ==
  ASSUME EditorInv, NEW c \in Core,
         CoreRead(c) \/ CoreAnswer(c) \/ CoreFails(c)
  PROVE  EditorInv'
<1>1. CASE CoreRead(c) \/ CoreFails(c)
  <2>1. /\ UNCHANGED <<doubt, cores, cache, store, page, saveReqs, hook, edits, saves, otherSaves>>
        /\ asked' \subseteq Core /\ failed' \subseteq Core
    BY <1>1, EditorParts DEF CoreRead, CoreFails, EditorType
  <2>2. answer' \in [Core -> Content \cup {None}]
    BY <1>1, EditorParts DEF CoreRead, CoreFails, EditorType
  <2>3. EditorType'
    BY <2>1, <2>2, EditorParts DEF EditorType
  <2> QED
    BY <2>1, <2>3, EditorParts DEF EditorInv, Requests, GoodStore, Loaded, Bound
<1>2. CASE CoreAnswer(c)
  <2>1. /\ UNCHANGED <<cores, asked, page, saveReqs, edits, saves, otherSaves>>
        /\ failed' \subseteq Core /\ doubt' \in BOOLEAN
        /\ answer[c] \in Content
    BY <1>2, EditorParts DEF CoreAnswer, EditorType
  <2>2. answer' \in [Core -> Content \cup {None}] /\ cache' \in [Core -> Content \cup {None}]
    BY <1>2, <2>1, EditorParts DEF CoreAnswer, EditorType
  <2>3. GoodStore(store)' /\ Bound' /\ hook' \in HookType
    <3>1. CASE page.at = c /\ cache[c] # answer[c] /\ ~Dead
      <4> DEFINE s == LoadEffect(store, c, answer[c])
      <4>1. SetStore(s)
        BY <1>2, <3>1 DEF CoreAnswer
      <4>2. s = store \/ s = Reset \/ Holds(s, c, answer[c])
        BY <2>1, EditorParts, LoadEffectStore
      <4> HIDE DEF s
      <4>3. GoodStore(s) /\ (s.hydrated => page.at # "list" /\ s.coreId = IF page.at = "new" THEN None ELSE page.at)
        BY <3>1, <4>2, EditorParts, ResetStore DEF Holds, Bound
      <4> QED
        BY <2>1, <4>1, <4>3, StoreSet
    <3>2. CASE ~(page.at = c /\ cache[c] # answer[c] /\ ~Dead)
      <4>1. UNCHANGED <<store, hook>>
        BY <1>2, <3>2 DEF CoreAnswer
      <4> QED
        BY <2>1, <4>1, EditorParts DEF GoodStore, Loaded, Bound, EditorType
    <3> QED
      BY <3>1, <3>2
  <2>4. EditorType'
    BY <2>1, <2>2, <2>3, EditorParts DEF EditorType
  <2>5. Requests'
    BY <2>1, EditorParts DEF Requests
  <2> QED
    BY <2>3, <2>4, <2>5 DEF EditorInv
<1> QED
  BY <1>1, <1>2

\* The edits of the forms, the JSON editor and the selector of the kind.
LEMMA EditsKeep ==
  ASSUME EditorInv,
         \/ \E k \in Kind : SelectKind(k)
         \/ \E x \in Name : SetCoreName(x)
         \/ SetTags
         \/ \E d \in AllDrafts : EditForm(d)
         \/ \E t \in JsonText : TypeJson(t)
  PROVE  EditorInv'
<1>1. GoodStore(store) /\ Bound
  BY EditorParts
<1>2. ASSUME NEW s, Kept(s, store), Edit(s)
      PROVE  EditorInv'
  <2>1. GoodStore(s)
    BY <1>2 DEF Kept
  <2> QED
    BY <1>1, <1>2, <2>1, KeptBound, EditKeeps
<1>3. \A s : Edit(s) => store.hydrated
  BY DEF Edit, OnScreen
<1>4. ASSUME NEW x \in Name, SetCoreName(x)
      PROVE  EditorInv'
  BY <1>1, <1>2, <1>4, NameSet DEF SetCoreName
<1>5. CASE SetTags
  BY <1>1, <1>2, <1>5, TagsSet DEF SetTags
<1>6. ASSUME NEW d \in AllDrafts, EditForm(d)
      PROVE  EditorInv'
  <2>1. d \in Draft[store.kind] /\ Edit(UpdateDraft(store, d))
    BY <1>6 DEF EditForm
  <2> QED
    BY <1>1, <1>2, <1>3, <2>1, DraftUpdated
<1>7. ASSUME NEW t \in JsonText, TypeJson(t)
      PROVE  EditorInv'
  <2>1. Edit(Typed(store, t))
    BY <1>7 DEF TypeJson, Typed
  <2> QED
    BY <1>1, <1>2, <1>3, <2>1, JsonTyped
<1>8. ASSUME NEW k \in Kind, SelectKind(k)
      PROVE  EditorInv'
  <2>1. CASE page.at = "new"
    <3> DEFINE s == InitNew(k, store.name)
    <3>1. Edit(s)
      BY <1>8, <2>1, EditorParts DEF SelectKind
    <3>2. store.name \in Name
      BY EditorParts DEF StoreType
    <3>3. GoodStore(s) /\ s.coreId = None
      BY <3>2, NewStore
    <3> HIDE DEF s
    <3> QED
      BY <2>1, <3>1, <3>3, EditKeeps
  <2>2. CASE page.at # "new"
    <3>1. Edit(SwitchedKind(store, k))
      BY <1>8, <2>2, EditorParts DEF SelectKind
    <3> QED
      BY <1>1, <1>2, <1>3, <3>1, KindSwitched
  <2> QED
    BY <2>1, <2>2
<1> QED
  BY <1>4, <1>5, <1>6, <1>7, <1>8

\* The section of the JSON editor, Discard, and the timers.
LEMMA StoreStepsKeep ==
  ASSUME EditorInv,
         SetActiveSection \/ Discard \/ ApplyTimer \/ SyncTimer
  PROVE  EditorInv'
<1>1. GoodStore(store) /\ Bound /\ hook \in HookType
  BY EditorParts DEF EditorType
<1>2. UNCHANGED <<doubt, cores, cache, asked, answer, failed, page, saveReqs, edits, saves, otherSaves>>
  BY DEF SetActiveSection, Discard, ApplyTimer, SyncTimer
<1>3. ASSUME NEW s, Kept(s, store), NEW h \in HookType, store' = s, hook' = Follow(h, s)
      PROVE  EditorInv'
  <2>1. GoodStore(s) /\ (s.hydrated => page.at # "list"
                                        /\ s.coreId = IF page.at = "new" THEN None ELSE page.at)
    BY <1>1, <1>3, KeptBound DEF Kept
  <2>2. hook' \in HookType
    BY <1>1, <1>3, <2>1, HookFollows
  <2>3. GoodStore(store)' /\ Bound'
    BY <1>2, <1>3, <2>1 DEF GoodStore, Loaded, Bound
  <2> QED
    BY <1>2, <2>2, <2>3, StoreKeeps
<1>4. CASE SetActiveSection
  <2> DEFINE s == [store EXCEPT !.advanced = ~store.advanced]
  <2>1. store' = s /\ hook' = Follow(hook, s) /\ store.hydrated
    BY <1>4 DEF SetActiveSection, SetStore, OnScreen
  <2>2. Kept(s, store)
    BY <1>1, <2>1, SectionSet
  <2> QED
    BY <1>1, <1>3, <2>1, <2>2
<1>5. CASE Discard
  <2> DEFINE s == DiscardDraft(store)
  <2>1. store' = s /\ hook' = Follow(hook, s) /\ store.hydrated
    BY <1>5 DEF Discard, SetStore, OnScreen
  <2>2. Kept(s, store)
    BY <1>1, <2>1, DraftDiscarded
  <2> QED
    BY <1>1, <1>3, <2>1, <2>2
<1>6. Kept(store, store)
  BY <1>1 DEF Kept
<1>7. [hook EXCEPT !.apply = FALSE] \in HookType /\ [hook EXCEPT !.sync = FALSE] \in HookType
  BY <1>1 DEF HookType
<1>8. CASE ApplyTimer
  <2> DEFINE s == IF store.textDirty THEN ApplyMonacoJson(store) ELSE store
  <2>1. store' = s /\ hook' = Follow([hook EXCEPT !.apply = FALSE], s) /\ store.advanced
    BY <1>8 DEF ApplyTimer
  <2>2. store.hydrated
    BY <1>1, <2>1 DEF GoodStore
  <2>3. Kept(s, store)
    BY <1>1, <1>6, <2>2, JsonApplied
  <2> HIDE DEF s
  <2> QED
    BY <1>3, <1>7, <2>1, <2>3
<1>9. CASE SyncTimer
  <2> DEFINE s == IF store.textDirty THEN store ELSE SyncMonacoFromDraft(store)
  <2>1. store' = s /\ hook' = Follow([hook EXCEPT !.sync = FALSE], s)
    BY <1>9 DEF SyncTimer
  <2>2. Kept(s, store)
    BY <1>1, <1>6, StoreSynced
  <2> HIDE DEF s
  <2> QED
    BY <1>3, <1>7, <2>1, <2>2
<1> QED
  BY <1>4, <1>5, <1>8, <1>9

\* The pages: opened, left, and the question before leaving.
LEMMA PagesKeep ==
  ASSUME EditorInv,
         \/ \E c \in Core : OpenCore(c)
         \/ \E k \in Kind : OpenNew(k)
         \/ HandleBack \/ StayOnPage \/ LeavePage
  PROVE  EditorInv'
<1>1. ASSUME NEW c \in Core, OpenCore(c)
      PROVE  EditorInv'
  BY <1>1, MountKeeps DEF OpenCore
<1>2. ASSUME UNCHANGED <<cores, cache, asked, answer, failed, saveReqs, edits, saves, otherSaves>>,
             doubt' \in BOOLEAN,
             page' \in [at : Core \cup {"list", "new"}, mount : Nat, ask : BOOLEAN],
             GoodStore(store)', Bound', hook' \in HookType
      PROVE  EditorInv'
  <2>1. EditorType'
    BY <1>2, EditorParts DEF EditorType
  <2>2. Requests'
    BY <1>2, EditorParts DEF Requests
  <2> QED
    BY <1>2, <2>1, <2>2 DEF EditorInv
<1>3. ASSUME NEW k \in Kind, OpenNew(k)
      PROVE  EditorInv'
  <2>1. /\ page' = [at |-> "new", mount |-> page.mount + 1, ask |-> FALSE]
        /\ store' = InitNew(k, Blank) /\ hook' = NoHook /\ doubt' = FALSE
        /\ UNCHANGED <<cores, cache, asked, answer, failed, saveReqs, edits, saves, otherSaves>>
    BY <1>3, EditorParts DEF OpenNew
  <2>2. GoodStore(store') /\ store'.coreId = None
    BY <2>1, NewStore, EditorConstants
  <2>3. GoodStore(store)' /\ Bound'
    BY <2>1, <2>2 DEF GoodStore, Loaded, Bound
  <2>4. hook' \in HookType /\ page' \in [at : Core \cup {"list", "new"}, mount : Nat, ask : BOOLEAN]
    BY <2>1, EditorParts DEF NoHook, HookType
  <2> QED
    BY <1>2, <2>1, <2>3, <2>4
<1>4. page \in [at : Core \cup {"list", "new"}, mount : Nat, ask : BOOLEAN] /\ hook \in HookType
      /\ doubt \in BOOLEAN
  BY EditorParts DEF EditorType
<1>5. CASE HandleBack \/ StayOnPage
  <2>1. /\ page' \in [at : Core \cup {"list", "new"}, mount : Nat, ask : BOOLEAN]
        /\ page'.at = page.at /\ UNCHANGED <<store, hook>>
        /\ UNCHANGED <<doubt, cores, cache, asked, answer, failed, saveReqs, edits, saves, otherSaves>>
    <3>1. /\ page' = [page EXCEPT !.ask = TRUE] \/ page' = [page EXCEPT !.ask = FALSE]
          /\ UNCHANGED <<doubt, cores, cache, asked, answer, failed, saveReqs, edits, saves, otherSaves,
                         store, hook>>
      BY <1>5 DEF HandleBack, StayOnPage
    <3>2. page' \in [at : Core \cup {"list", "new"}, mount : Nat, ask : BOOLEAN] /\ page'.at = page.at
      <4>1. CASE page' = [page EXCEPT !.ask = TRUE]
        BY <1>4, <4>1
      <4>2. CASE page' = [page EXCEPT !.ask = FALSE]
        BY <1>4, <4>2
      <4> QED
        BY <3>1, <4>1, <4>2
    <3> QED
      BY <3>1, <3>2
  <2>2. GoodStore(store)' /\ Bound'
    BY <2>1, EditorParts DEF GoodStore, Loaded, Bound
  <2> QED
    BY <1>2, <1>4, <2>1, <2>2
<1>6. CASE LeavePage
  <2>1. /\ page' = [page EXCEPT !.at = "list", !.ask = FALSE] /\ store' = Reset /\ hook' = NoHook
        /\ doubt' = FALSE
        /\ UNCHANGED <<cores, cache, asked, answer, failed, saveReqs, edits, saves, otherSaves>>
    BY <1>6, EditorParts DEF LeavePage, Leave
  <2>2. GoodStore(store)' /\ Bound'
    BY <2>1, ResetStore DEF GoodStore, Loaded, Bound
  <2>3. hook' \in HookType /\ page' \in [at : Core \cup {"list", "new"}, mount : Nat, ask : BOOLEAN]
    BY <1>4, <2>1 DEF NoHook, HookType
  <2> QED
    BY <1>2, <2>1, <2>2, <2>3
<1> QED
  BY <1>1, <1>3, <1>5, <1>6

LEMMA OthersKeep ==
  ASSUME EditorInv, NEW c \in Core, NEW cfg \in Config, OtherSaves(c, cfg)
  PROVE  EditorInv'
<1>1. /\ otherSaves < MaxOtherSave /\ otherSaves' = otherSaves + 1 /\ c \in DOMAIN cores
      /\ cores' = [cores EXCEPT ![c].config = cfg]
      /\ UNCHANGED <<cache, asked, answer, failed, store, page, saveReqs, hook, edits, saves>>
      /\ doubt' \in BOOLEAN
  BY EditorParts DEF OtherSaves, EditorType
<1>2. \E D \in SUBSET Core : cores' \in [D -> Content]
  <2>1. PICK D \in SUBSET Core : cores \in [D -> Content]
    BY EditorParts DEF EditorType
  <2>2. cores[c] \in Content /\ c \in D
    BY <1>1, <2>1
  <2>3. [cores[c] EXCEPT !.config = cfg] \in Content
    BY <2>2 DEF Content
  <2>4. cores' = [cores EXCEPT ![c] = [cores[c] EXCEPT !.config = cfg]]
    BY <1>1
  <2>5. cores' \in [D -> Content]
    BY <2>1, <2>2, <2>3, <2>4
  <2> QED
    BY <2>5
<1>3. otherSaves' \in 0..MaxOtherSave
  BY <1>1, EditorParts DEF EditorType
<1>4. EditorType'
  BY <1>1, <1>2, <1>3, EditorParts DEF EditorType
<1> QED
  BY <1>1, <1>4, EditorParts DEF EditorInv, Requests, GoodStore, Loaded, Bound

LEMMA NextEditor ==
  ASSUME EditorInv, [EditorNext]_editorVars
  PROVE  EditorInv'
<1>1. CASE UNCHANGED editorVars
  <2>1. UNCHANGED <<doubt, cores, cache, asked, answer, failed, page, saveReqs, edits, saves,
                    otherSaves, store, hook>>
    BY <1>1 DEF editorVars
  <2>2. EditorType' /\ Requests'
    BY <2>1, EditorParts DEF EditorType, Requests
  <2>3. GoodStore(store)' /\ Bound'
    BY <2>1, EditorParts DEF GoodStore, Loaded, Bound
  <2> QED
    BY <2>2, <2>3 DEF EditorInv
<1>2. CASE EditorNext
  BY <1>2, EditsKeep, StoreStepsKeep, PagesKeep, OthersKeep, FetchKeeps, SaveSent, SaveServed,
     SaveDone DEF EditorNext
<1> QED
  BY <1>1, <1>2

\* Every variable of the core editor has its type, and a loaded store has a draft, a
\* baseline and a snapshot of its kind, so that hasActualChanges and discardDraft
\* always have something to compare with and to go back to.
THEOREM EditorTyped == EditorSpec => []EditorTypeOK
<1>1. EditorInit => EditorInv
  BY InitEditor
<1>2. EditorInv /\ [EditorNext]_editorVars => EditorInv'
  BY NextEditor
<1>3. EditorInv => EditorTypeOK
  <2> SUFFICES ASSUME EditorInv
               PROVE  EditorTypeOK
    OBVIOUS
  <2>1. store.hydrated => /\ store.snap \in SnapshotType
                          /\ {store.draft, store.baseline} \subseteq Draft[store.kind]
                          /\ store.snap.draft \in Draft[store.snap.kind]
    BY DEF EditorInv, GoodStore, Loaded
  <2>2. saveReqs \subseteq RequestType /\ store \in StoreType
    BY EditorParts DEF Requests
  <2> QED
    BY <2>1, <2>2, EditorParts DEF EditorType, HookType, EditorTypeOK
<1> QED
  BY <1>1, <1>2, <1>3, PTL DEF EditorSpec

\* A save writes a core with the draft that was loaded from that core, and a creation
\* sends a draft that was loaded from none.
THEOREM SavesOwnConfig == EditorSpec => []OwnConfig
<1>1. EditorInit => EditorInv
  BY InitEditor
<1>2. EditorInv /\ [EditorNext]_editorVars => EditorInv'
  BY NextEditor
<1>3. EditorInv => OwnConfig
  BY EditorParts DEF Requests, OwnConfig
<1> QED
  BY <1>1, <1>2, <1>3, PTL DEF EditorSpec

\* The text of the JSON editor says the draft the forms show, unless it was typed and is
\* not yet applied, is the raw text of a rejected configuration, or stands beside a draft
\* that cannot be generated.
THEOREM TextIsDraft == EditorSpec => []TextMeansDraft
<1>1. EditorInit => EditorInv
  BY InitEditor
<1>2. EditorInv /\ [EditorNext]_editorVars => EditorInv'
  BY NextEditor
<1>3. EditorInv => TextMeansDraft
  BY EditorParts DEF GoodStore, Loaded, Speaks, TextMeansDraft
<1> QED
  BY <1>1, <1>2, <1>3, PTL DEF EditorSpec

---------------------------------------------------------------------------
(* Saved means stored.                                                     *)

\* The page of a core is that of a stored one; a save belongs to the page it was made
\* on, until that is left, and one that was served has its core.
Served ==
  /\ page.at \in Core => page.at \in DOMAIN cores
  /\ \A r \in saveReqs :
       /\ r.mount \in Nat /\ r.mount <= page.mount
       /\ r.mount = page.mount /\ page.at # "list" => r.target = page.at
       /\ r.phase = "stored" => /\ r.stored \in DOMAIN cores
                                /\ r.target # "new" => r.stored = r.target

\* The snapshot of s is what the given core says.
Taken(s, core) == ~s.snap.warned => Says(s.snap.kind, core.config, s.snap.draft)

\* The baseline is the snapshot's, until the kind is changed.
Baseline(s) ==
  /\ ~s.isNew
  /\ s.kind = s.snap.kind => s.baseline = s.snap.draft /\ (s.warned <=> s.snap.warned)

\* The core differs from what the page took and will be fetched, or could not be.
News(c) ==
  /\ cores[c].config # store.fingerprint /\ cores[c].config # cache[c].config
  /\ c \in asked \/ answer[c] # None \/ c \in failed

\* The save of the page was stored and its answer is on the way.
Own == \E r \in saveReqs : r.mount = page.mount /\ r.phase = "stored"

\* Without a doubt the page of a core shows what is stored, or will load it, or has
\* just stored what it will mark clean.
Shows ==
  ~doubt /\ page.at \in Core /\ store.hydrated =>
    /\ Baseline(store)
    /\ Taken(store, cores[page.at]) \/ News(page.at) \/ Own

ShownInv == Served /\ Shows

\* What a store that holds a core was taken from.
LEMMA HoldsTaken ==
  ASSUME NEW s, NEW c, NEW core, Holds(s, c, core)
  PROVE  Baseline(s) /\ Taken(s, core) /\ s.fingerprint = core.config
BY DEF Holds, Baseline, Taken, Says

\* Nothing but the store changes, and it keeps its snapshot.
LEMMA StoreShown ==
  ASSUME ShownInv, ~doubt' => ~doubt,
         page.at \in Core /\ store'.hydrated =>
           /\ Kept(store', store) /\ store'.fingerprint = store.fingerprint
           /\ ~doubt' /\ Baseline(store) => Baseline(store'),
         UNCHANGED <<cores, cache, asked, answer, failed, page, saveReqs>>
  PROVE  ShownInv'
<1>1. Served'
  BY DEF ShownInv, Served
<1>2. ASSUME ~doubt', page.at \in Core, store'.hydrated
      PROVE  /\ Baseline(store')
             /\ Taken(store', cores[page.at]) \/ News(page.at)' \/ Own
  <2>1. store.hydrated /\ store'.snap = store.snap /\ store'.fingerprint = store.fingerprint
    BY <1>2 DEF Kept
  <2>2. Baseline(store) /\ (Taken(store, cores[page.at]) \/ News(page.at) \/ Own)
    BY <1>2, <2>1 DEF ShownInv, Shows
  <2>3. Taken(store, cores[page.at]) => Taken(store', cores[page.at])
    BY <2>1 DEF Taken
  <2>4. News(page.at) => News(page.at)'
    BY <2>1 DEF News
  <2> QED
    BY <1>2, <2>2, <2>3, <2>4
<1>3. Own' <=> Own
  BY DEF Own
<1>4. Shows'
  BY <1>2, <1>3 DEF Shows, Baseline, Taken
<1> QED
  BY <1>1, <1>4 DEF ShownInv

LEMMA EditsShown ==
  ASSUME EditorInv, ShownInv,
         \/ \E k \in Kind : SelectKind(k)
         \/ \E x \in Name : SetCoreName(x)
         \/ SetTags
         \/ \E d \in AllDrafts : EditForm(d)
         \/ \E t \in JsonText : TypeJson(t)
  PROVE  ShownInv'
<1>1. GoodStore(store)
  BY EditorParts
<1>2. \A s : Edit(s) => store.hydrated
  BY DEF Edit, OnScreen
<1>3. ASSUME NEW s, Edit(s),
             page.at \in Core => /\ Kept(s, store) /\ s.fingerprint = store.fingerprint
                                 /\ \/ s.kind = store.kind /\ s.baseline = store.baseline
                                       /\ (s.warned <=> store.warned)
                                    \/ s.kind # store.kind
      PROVE  ShownInv'
  <2>1. /\ store' = s /\ (doubt' <=> (doubt \/ (s.kind # store.kind /\ s.kind = store.snap.kind)))
        /\ UNCHANGED <<cores, cache, asked, answer, failed, page, saveReqs>>
    BY <1>3, EditorParts DEF Edit, SetStore, EditorType
  <2>2. ASSUME page.at \in Core, ~doubt', Baseline(store)
        PROVE  Baseline(store')
    BY <1>3, <2>1, <2>2 DEF Baseline, Kept
  <2> QED
    BY <1>3, <2>1, <2>2, StoreShown
<1>4. ASSUME NEW x \in Name, SetCoreName(x)
      PROVE  ShownInv'
  <2> DEFINE s == [store EXCEPT !.name = x]
  <2>1. Edit(s)
    BY <1>4 DEF SetCoreName
  <2>2. /\ Kept(s, store) /\ s.kind = store.kind /\ s.baseline = store.baseline
        /\ (s.warned <=> store.warned) /\ s.fingerprint = store.fingerprint
    BY <1>1, NameSet
  <2> HIDE DEF s
  <2> QED
    BY <1>3, <2>1, <2>2
<1>5. CASE SetTags
  <2> DEFINE s == [store EXCEPT !.tags = ~store.tags]
  <2>1. Edit(s)
    BY <1>5 DEF SetTags
  <2>2. /\ Kept(s, store) /\ s.kind = store.kind /\ s.baseline = store.baseline
        /\ (s.warned <=> store.warned) /\ s.fingerprint = store.fingerprint
    BY <1>1, TagsSet
  <2> HIDE DEF s
  <2> QED
    BY <1>3, <2>1, <2>2
<1>6. ASSUME NEW d \in AllDrafts, EditForm(d)
      PROVE  ShownInv'
  <2> DEFINE s == UpdateDraft(store, d)
  <2>1. d \in Draft[store.kind] /\ Edit(s)
    BY <1>6 DEF EditForm
  <2>2. /\ Kept(s, store) /\ s.kind = store.kind /\ s.baseline = store.baseline
        /\ (s.warned <=> store.warned) /\ s.fingerprint = store.fingerprint
    BY <1>1, <1>2, <2>1, DraftUpdated
  <2> HIDE DEF s
  <2> QED
    BY <1>3, <2>1, <2>2
<1>7. ASSUME NEW t \in JsonText, TypeJson(t)
      PROVE  ShownInv'
  <2>1. Edit(Typed(store, t))
    BY <1>7 DEF TypeJson, Typed
  <2>2. LET s == Typed(store, t)
        IN  /\ Kept(s, store) /\ s.kind = store.kind /\ s.baseline = store.baseline
            /\ (s.warned <=> store.warned) /\ s.fingerprint = store.fingerprint
    BY <1>1, <1>2, <2>1, JsonTyped
  <2> QED
    BY <1>3, <2>1, <2>2
<1>8. ASSUME NEW k \in Kind, SelectKind(k)
      PROVE  ShownInv'
  <2>1. CASE page.at = "new"
    <3>1. Edit(InitNew(k, store.name)) /\ page.at \notin Core
      BY <1>8, <2>1, EditorParts DEF SelectKind
    <3> QED
      BY <1>3, <3>1
  <2>2. CASE page.at # "new"
    <3> DEFINE s == SwitchedKind(store, k)
    <3>1. Edit(s) /\ k # store.kind
      BY <1>8, <2>2, EditorParts DEF SelectKind
    <3>2. Kept(s, store) /\ s.kind = k /\ s.fingerprint = store.fingerprint
      BY <1>1, <1>2, <3>1, KindSwitched
    <3> HIDE DEF s
    <3> QED
      BY <1>3, <3>1, <3>2
  <2> QED
    BY <2>1, <2>2
<1> QED
  BY <1>4, <1>5, <1>6, <1>7, <1>8

LEMMA StoreStepsShown ==
  ASSUME EditorInv, ShownInv,
         SetActiveSection \/ Discard \/ ApplyTimer \/ SyncTimer
  PROVE  ShownInv'
<1>1. GoodStore(store) /\ Kept(store, store)
  BY EditorParts DEF Kept
<1>2. UNCHANGED <<doubt, cores, cache, asked, answer, failed, page, saveReqs>>
  BY DEF SetActiveSection, Discard, ApplyTimer, SyncTimer
<1>3. ASSUME NEW s, store' = s, Kept(s, store), s.fingerprint = store.fingerprint,
             \/ s.kind = store.kind /\ s.baseline = store.baseline /\ (s.warned <=> store.warned)
             \/ s.baseline = s.snap.draft /\ (s.warned <=> s.snap.warned)
      PROVE  ShownInv'
  <2>1. Baseline(store) => Baseline(store')
    BY <1>3 DEF Baseline, Kept
  <2> QED
    BY <1>2, <1>3, <2>1, StoreShown
<1>4. CASE SetActiveSection
  <2> DEFINE s == [store EXCEPT !.advanced = ~store.advanced]
  <2>1. store' = s /\ store.hydrated
    BY <1>4 DEF SetActiveSection, SetStore, OnScreen
  <2>2. /\ Kept(s, store) /\ s.kind = store.kind /\ s.baseline = store.baseline
        /\ (s.warned <=> store.warned) /\ s.fingerprint = store.fingerprint
    BY <1>1, <2>1, SectionSet
  <2> HIDE DEF s
  <2> QED
    BY <1>3, <2>1, <2>2
<1>5. CASE Discard
  <2> DEFINE s == DiscardDraft(store)
  <2>1. store' = s /\ store.hydrated
    BY <1>5 DEF Discard, SetStore, OnScreen
  <2>2. /\ Kept(s, store) /\ s.fingerprint = store.fingerprint
        /\ s = store \/ (s.baseline = s.snap.draft /\ (s.warned <=> s.snap.warned))
    BY <1>1, <2>1, DraftDiscarded
  <2> HIDE DEF s
  <2> QED
    BY <1>3, <2>1, <2>2
<1>6. CASE ApplyTimer
  <2> DEFINE s == IF store.textDirty THEN ApplyMonacoJson(store) ELSE store
  <2>1. store' = s /\ store.advanced
    BY <1>6 DEF ApplyTimer
  <2>2. store.hydrated
    BY <1>1, <2>1 DEF GoodStore
  <2>3. /\ Kept(s, store) /\ s.kind = store.kind /\ s.baseline = store.baseline
        /\ (s.warned <=> store.warned) /\ s.fingerprint = store.fingerprint
    BY <1>1, <2>2, JsonApplied
  <2> HIDE DEF s
  <2> QED
    BY <1>3, <2>1, <2>3
<1>7. CASE SyncTimer
  <2> DEFINE s == IF store.textDirty THEN store ELSE SyncMonacoFromDraft(store)
  <2>1. store' = s
    BY <1>7 DEF SyncTimer
  <2>2. /\ Kept(s, store) /\ s.kind = store.kind /\ s.baseline = store.baseline
        /\ (s.warned <=> store.warned) /\ s.fingerprint = store.fingerprint
    BY <1>1, StoreSynced
  <2> HIDE DEF s
  <2> QED
    BY <1>3, <2>1, <2>2
<1> QED
  BY <1>4, <1>5, <1>6, <1>7

\* The page is opened for a core the server holds.
LEMMA MountShown ==
  ASSUME EditorInv, ShownInv, NEW c \in DOMAIN cores, Mount(c),
         saveReqs' \subseteq saveReqs, UNCHANGED <<cores, cache>>
  PROVE  ShownInv'
<1>1. /\ c \in Core /\ page'.at = c /\ page'.mount = page.mount + 1 /\ page.mount \in Nat
      /\ asked' = IF answer[c] = None THEN asked \cup {c} ELSE asked
      /\ answer' = answer
  BY EditorParts DEF Mount
<1>2. Served'
  BY <1>1 DEF ShownInv, Served
<1>3. ASSUME store'.hydrated
      PROVE  Baseline(store') /\ (Taken(store', cores[c]) \/ News(c)')
  <2>1. cache[c] # None
    BY <1>3, ResetStore DEF Mount
  <2>2. cache[c] \in Content /\ c # None /\ store' = LoadEffect(Reset, c, cache[c])
    BY <1>1, <2>1, EditorParts DEF Mount
  <2>3. Holds(store', c, cache[c])
    BY <1>1, <1>3, <2>2, ResetStore, LoadEffectStore
  <2>4. Baseline(store') /\ Taken(store', cache[c]) /\ store'.fingerprint = cache[c].config
    BY <2>3, HoldsTaken
  <2>5. CASE cores[c].config = cache[c].config
    BY <2>4, <2>5 DEF Taken
  <2>6. CASE cores[c].config # cache[c].config
    <3>1. News(c)'
      BY <1>1, <2>4, <2>6 DEF News
    <3> QED
      BY <2>4, <3>1
  <2> QED
    BY <2>5, <2>6
<1>4. Shows'
  BY <1>1, <1>3 DEF Shows, Baseline, Taken, News
<1> QED
  BY <1>2, <1>4 DEF ShownInv

LEMMA PagesShown ==
  ASSUME EditorInv, ShownInv,
         \/ \E c \in Core : OpenCore(c)
         \/ \E k \in Kind : OpenNew(k)
         \/ HandleBack \/ StayOnPage \/ LeavePage
  PROVE  ShownInv'
<1>1. ASSUME NEW c \in Core, OpenCore(c)
      PROVE  ShownInv'
  BY <1>1, MountShown DEF OpenCore
<1>2. ASSUME page'.at \notin Core, page'.mount \in Nat, page.mount <= page'.mount,
             page'.at # "list" => page.mount < page'.mount,
             UNCHANGED <<cores, saveReqs>>
      PROVE  ShownInv'
  <2>1. page.mount \in Nat
    BY EditorParts
  <2>2. Served'
    BY <1>2, <2>1 DEF ShownInv, Served
  <2>3. Shows'
    BY <1>2 DEF Shows
  <2> QED
    BY <2>2, <2>3 DEF ShownInv
<1>3. ASSUME NEW k \in Kind, OpenNew(k)
      PROVE  ShownInv'
  <2>1. /\ page'.at = "new" /\ page'.mount = page.mount + 1 /\ page.mount \in Nat
        /\ "new" \notin Core /\ UNCHANGED <<cores, saveReqs>>
    BY <1>3, EditorParts DEF OpenNew
  <2> QED
    BY <1>2, <2>1
<1>4. CASE LeavePage
  <2>1. /\ page'.at = "list" /\ page'.mount = page.mount /\ page.mount \in Nat
        /\ "list" \notin Core /\ UNCHANGED <<cores, saveReqs>>
    BY <1>4, EditorParts DEF LeavePage, Leave, EditorType
  <2> QED
    BY <1>2, <2>1
<1>5. CASE HandleBack \/ StayOnPage
  <2>1. /\ page'.at = page.at /\ page'.mount = page.mount
        /\ UNCHANGED <<doubt, cores, cache, asked, answer, failed, store, saveReqs>>
    BY <1>5, EditorParts DEF HandleBack, StayOnPage, EditorType
  <2>2. Served'
    BY <2>1 DEF ShownInv, Served
  <2>3. Shows'
    BY <2>1 DEF ShownInv, Shows, Baseline, Taken, News, Own
  <2> QED
    BY <2>2, <2>3 DEF ShownInv
<1> QED
  BY <1>1, <1>3, <1>4, <1>5

\* Saves.
LEMMA SentShown ==
  ASSUME EditorInv, ShownInv, HandleSave
  PROVE  ShownInv'
<1>1. /\ UNCHANGED <<doubt, cores, cache, asked, answer, failed, store, page>>
      /\ \E r : /\ saveReqs' = saveReqs \cup {r} /\ r.mount = page.mount /\ r.target = page.at
                /\ r.phase = "sent"
  <2> DEFINE r == [id |-> saves + 1, mount |-> page.mount, target |-> page.at, from |-> store.coreId,
         phase |-> "sent", stored |-> None,
         body |-> [kind |-> store.kind, name |-> store.name,
                   tags |-> store.kind = "xray" /\ store.tags, config |-> Persist[store.draft]]]
  <2>1. /\ saveReqs' = saveReqs \cup {r}
        /\ UNCHANGED <<doubt, cores, cache, asked, answer, failed, store, page>>
    BY DEF HandleSave
  <2>2. r.mount = page.mount /\ r.target = page.at /\ r.phase = "sent"
    OBVIOUS
  <2> HIDE DEF r
  <2> QED
    BY <2>1, <2>2
<1>2. PICK r : /\ saveReqs' = saveReqs \cup {r} /\ r.mount = page.mount /\ r.target = page.at
               /\ r.phase = "sent"
  BY <1>1
<1>3. Served'
  BY <1>1, <1>2, EditorParts DEF ShownInv, Served
<1>4. Own => Own'
  BY <1>1, <1>2 DEF Own
<1>5. Shows'
  BY <1>1, <1>4 DEF ShownInv, Shows, Baseline, Taken, News
<1> QED
  BY <1>3, <1>5 DEF ShownInv

LEMMA StoredShown ==
  ASSUME EditorInv, ShownInv, NEW r \in saveReqs, ServerStores(r)
  PROVE  ShownInv'
<1>1. PICK c \in Core, q \in RequestType : Stores(r, c, q)
  BY ServerStoresStep
<1>2. /\ (doubt' <=> (doubt \/ (page.at = r.target /\ r.mount # page.mount))) /\ r.phase = "sent"
      /\ UNCHANGED <<cache, asked, answer, failed, store, page>>
  BY EditorParts DEF ServerStores, EditorType
<1>3. Served'
  <2>1. /\ DOMAIN cores' = DOMAIN cores \cup {c} /\ saveReqs' = (saveReqs \ {r}) \cup {q}
        /\ q.mount = r.mount /\ q.target = r.target /\ q.stored = c
        /\ r.target # "new" => c = r.target
    BY <1>1 DEF Stores
  <2> QED
    BY <1>2, <2>1 DEF ShownInv, Served
<1>4. ASSUME ~doubt', page.at \in Core, store.hydrated
      PROVE  Baseline(store) /\ (Taken(store, cores'[page.at]) \/ News(page.at)' \/ Own')
  <2>1. Baseline(store) /\ (Taken(store, cores[page.at]) \/ News(page.at) \/ Own)
    BY <1>2, <1>4 DEF ShownInv, Shows
  <2>2. CASE page.at = r.target
    <3>1. q \in saveReqs' /\ q.mount = page'.mount /\ q.phase = "stored"
      BY <1>1, <1>2, <1>4, <2>2 DEF Stores
    <3> QED
      BY <2>1, <3>1 DEF Own
  <2>3. CASE page.at # r.target
    <3>1. page.at \in DOMAIN cores /\ page.at # "new"
      BY <1>4, EditorParts DEF ShownInv, Served
    <3>2. page.at # c
      BY <1>1, <2>3, <3>1 DEF Stores
    <3>3. cores'[page.at] = cores[page.at]
      BY <1>1, <3>1, <3>2 DEF Stores
    <3>4. Own => Own'
      BY <1>1, <1>2 DEF Own, Stores
    <3>5. News(page.at) => News(page.at)'
      BY <1>2, <3>3 DEF News
    <3> QED
      BY <2>1, <3>3, <3>4, <3>5
  <2> QED
    BY <2>2, <2>3
<1>5. Shows'
  BY <1>2, <1>4 DEF Shows, Baseline, Taken
<1> QED
  BY <1>3, <1>5 DEF ShownInv

LEMMA FailedShown ==
  ASSUME EditorInv, ShownInv, NEW r \in saveReqs, SaveFails(r)
  PROVE  ShownInv'
<1>1. /\ saveReqs' = saveReqs \ {r}
      /\ (doubt' <=> (doubt \/ (r.phase = "stored" /\ page.at = r.target)))
      /\ UNCHANGED <<cores, cache, asked, answer, failed, store, page>>
  BY EditorParts DEF SaveFails, EditorType
<1>2. Served'
  BY <1>1 DEF ShownInv, Served
<1>3. ~doubt' /\ page.at \in Core /\ Own => Own'
  BY <1>1, EditorParts DEF ShownInv, Served, Own
<1>4. Shows'
  BY <1>1, <1>3 DEF ShownInv, Shows, Baseline, Taken, News
<1> QED
  BY <1>2, <1>4 DEF ShownInv

LEMMA ModifiedShown ==
  ASSUME EditorInv, ShownInv, NEW r \in saveReqs, SaveModified(r)
  PROVE  ShownInv'
<1> DEFINE n == MarkClean(store)
<1>1. /\ saveReqs' = saveReqs \ {r} /\ store' = n
      /\ (doubt' <=> (doubt \/ (store.hydrated /\ MarksUnsent(r))))
      /\ UNCHANGED <<cores, cache, failed, page>>
  BY EditorParts DEF SaveModified, SetStore, EditorType
<1>2. /\ (n.hydrated <=> store.hydrated) /\ (n.isNew <=> store.isNew)
      /\ n.kind = store.kind /\ n.baseline = store.draft
      /\ n.snap.kind = store.kind /\ n.snap.draft = store.draft
      /\ (n.snap.warned <=> n.warned) /\ n.fingerprint = store.fingerprint
      /\ (n.warned <=> store.warned)
  BY EditorParts, MarkedClean
<1> HIDE DEF n
<1>3. Served'
  BY <1>1 DEF ShownInv, Served
<1>4. ASSUME ~doubt', page.at \in Core, store'.hydrated
      PROVE  Baseline(store') /\ (Taken(store', cores[page.at]) \/ News(page.at)' \/ Own')
  <2>1. /\ store.hydrated /\ ~doubt /\ ~MarksUnsent(r) /\ Baseline(store)
        /\ Taken(store, cores[page.at]) \/ News(page.at) \/ Own
    BY <1>1, <1>2, <1>4 DEF ShownInv, Shows
  <2>2. Baseline(store')
    BY <1>1, <1>2, <2>1 DEF Baseline
  <2>3. CASE r.mount = page.mount
    <3>1. r.target = page.at
      BY <1>4, <2>3, EditorParts DEF ShownInv, Served
    <3>2. /\ store.draft \notin Broken /\ Persist[store.draft] = r.body.config
          /\ \/ cores[page.at].config = r.body.config
             \/ cores[page.at].config \notin {store.fingerprint, cache[page.at].config}
      BY <2>1, <2>3, <3>1 DEF MarksUnsent
    <3>3. CASE cores[page.at].config = r.body.config
      BY <1>1, <1>2, <2>2, <3>2, <3>3 DEF Taken, Says
    <3>4. CASE cores[page.at].config \notin {store.fingerprint, cache[page.at].config}
      <4>1. page.at \in asked'
        BY <3>1 DEF SaveModified
      <4>2. News(page.at)'
        BY <1>1, <1>2, <3>4, <4>1 DEF News
      <4> QED
        BY <2>2, <4>2
    <3> QED
      BY <3>2, <3>3, <3>4
  <2>4. CASE r.mount # page.mount
    <3>1. page.at # r.target /\ store.kind = store.snap.kind /\ store.draft = store.baseline
      BY <2>1, <2>4 DEF MarksUnsent
    <3>2. UNCHANGED <<asked, answer>>
      BY <3>1 DEF SaveModified
    <3>3. store.snap.draft = store.draft /\ (store.warned <=> store.snap.warned)
      BY <2>1, <3>1 DEF Baseline
    <3>4. Taken(store, cores[page.at]) => Taken(store', cores[page.at])
      BY <1>1, <1>2, <3>1, <3>3 DEF Taken
    <3>5. News(page.at) => News(page.at)'
      BY <1>1, <1>2, <3>2 DEF News
    <3>6. Own => Own'
      BY <1>1, <2>4 DEF Own
    <3> QED
      BY <2>1, <2>2, <3>4, <3>5, <3>6
  <2> QED
    BY <2>3, <2>4
<1>5. Shows'
  BY <1>1, <1>4 DEF Shows, Baseline, Taken
<1> QED
  BY <1>3, <1>5 DEF ShownInv

LEMMA CreatedShown ==
  ASSUME EditorInv, ShownInv, NEW r \in saveReqs, SaveCreated(r)
  PROVE  ShownInv'
<1>1. /\ Mount(r.stored) /\ r.stored \in DOMAIN cores /\ saveReqs' \subseteq saveReqs
      /\ UNCHANGED <<cores, cache>>
  BY DEF SaveCreated, ShownInv, Served
<1> QED
  BY <1>1, MountShown

\* Fetches.
LEMMA ReadShown ==
  ASSUME EditorInv, ShownInv, NEW c \in Core, CoreRead(c) \/ CoreFails(c)
  PROVE  ShownInv'
<1>1. UNCHANGED <<doubt, cores, cache, store, page, saveReqs>>
  BY DEF CoreRead, CoreFails
<1>2. Served'
  BY <1>1 DEF ShownInv, Served
<1>3. ASSUME page.at \in Core, News(page.at)
      PROVE  News(page.at)'
  <2>1. CASE CoreFails(c)
    BY <1>1, <1>3, <2>1 DEF News, CoreFails
  <2>2. CASE CoreRead(c)
    <3>1. cores[c] # None /\ answer'[c] = cores[c] /\ \A d \in Core \ {c} : answer'[d] = answer[d]
      BY <2>2, EditorParts DEF CoreRead, EditorType
    <3>2. asked' = asked \ {c} /\ failed' = failed
      BY <2>2 DEF CoreRead
    <3> QED
      BY <1>1, <1>3, <3>1, <3>2 DEF News
  <2> QED
    BY <2>1, <2>2
<1>4. Shows'
  BY <1>1, <1>3 DEF ShownInv, Shows, Baseline, Taken, Own
<1> QED
  BY <1>2, <1>4 DEF ShownInv

LEMMA AnswerShown ==
  ASSUME EditorInv, ShownInv, NEW c \in Core, CoreAnswer(c)
  PROVE  ShownInv'
<1>1. /\ UNCHANGED <<cores, asked, page, saveReqs>>
      /\ (doubt' <=> (doubt \/ (page.at = c /\ Overtaken(c))))
      /\ failed' = failed \ {c} /\ answer[c] \in Content
      /\ \A d \in Core \ {c} : answer'[d] = answer[d] /\ cache'[d] = cache[d]
  BY EditorParts DEF CoreAnswer, EditorType
<1>2. Served'
  BY <1>1 DEF ShownInv, Served
<1>3. Own' <=> Own
  BY <1>1 DEF Own
<1>4. ASSUME ~doubt', page.at \in Core, store'.hydrated
      PROVE  Baseline(store') /\ (Taken(store', cores[page.at]) \/ News(page.at)' \/ Own)
  <2>1. CASE page.at # c
    <3>1. store' = store
      BY <2>1 DEF CoreAnswer
    <3>2. News(page.at) => News(page.at)'
      BY <1>1, <1>4, <2>1, <3>1 DEF News
    <3> QED
      BY <1>1, <1>4, <3>1, <3>2 DEF ShownInv, Shows
  <2>2. CASE page.at = c /\ store' = store
    <3>1. ~doubt /\ store.hydrated /\ ~Overtaken(c) /\ answer[c] = cores[c]
      BY <1>1, <1>4, <2>2 DEF Overtaken
    <3>2. Baseline(store) /\ (Taken(store, cores[c]) \/ News(c) \/ Own)
      BY <1>4, <2>2, <3>1 DEF ShownInv, Shows
    <3>3. CASE Taken(store, cores[c]) \/ Own
      BY <2>2, <3>2, <3>3
    <3>4. CASE News(c)
      <4>1. cores[c].config # store.fingerprint /\ cache[c] # answer[c] /\ ~Dead
        BY <3>1, <3>4 DEF News, Dead
      <4>2. store = LoadEffect(store, c, answer[c])
        BY <2>2, <4>1 DEF CoreAnswer, SetStore
      <4>3. store.coreId = c
        BY <1>4, <2>2, <3>1, EditorParts DEF Bound
      <4>4. CASE HasActualChanges(store)
        BY <2>2, <3>1, <3>2, <4>4 DEF Overtaken, Taken
      <4>5. CASE ~HasActualChanges(store)
        <5>1. store = Reset \/ Holds(store, c, answer[c])
          BY <1>1, <3>1, <3>2, <4>1, <4>2, <4>3, <4>5, EditorParts, LoadEffectStore DEF Baseline
        <5>2. Holds(store, c, answer[c])
          BY <3>1, <5>1, ResetStore
        <5> QED
          BY <2>2, <3>1, <3>2, <5>2, HoldsTaken
      <4> QED
        BY <4>4, <4>5
    <3> QED
      BY <3>2, <3>3, <3>4
  <2>3. CASE page.at = c /\ store' # store
    <3>1. store' = LoadEffect(store, c, answer[c])
      BY <2>3 DEF CoreAnswer, SetStore
    <3>2. store' = Reset \/ Holds(store', c, answer[c])
      BY <1>1, <2>3, <3>1, EditorParts, LoadEffectStore
    <3>3. Holds(store', c, answer[c])
      BY <1>4, <3>2, ResetStore
    <3>4. answer[c] = cores[c]
      BY <1>1, <1>4, <2>3 DEF Overtaken
    <3> QED
      BY <2>3, <3>3, <3>4, HoldsTaken
  <2> QED
    BY <2>1, <2>2, <2>3
<1>5. Shows'
  BY <1>1, <1>3, <1>4 DEF Shows, Baseline, Taken
<1> QED
  BY <1>2, <1>5 DEF ShownInv

LEMMA OthersShown ==
  ASSUME EditorInv, ShownInv, NEW c \in Core, NEW cfg \in Config, OtherSaves(c, cfg)
  PROVE  ShownInv'
<1>1. /\ c \in DOMAIN cores /\ cores' = [cores EXCEPT ![c].config = cfg]
      /\ (doubt' <=> (doubt \/ page.at = c))
      /\ UNCHANGED <<cache, asked, answer, failed, store, page, saveReqs>>
  BY EditorParts DEF OtherSaves, EditorType
<1>2. DOMAIN cores' = DOMAIN cores /\ \A d \in DOMAIN cores : d # c => cores'[d] = cores[d]
  BY <1>1
<1>3. Served'
  BY <1>1, <1>2 DEF ShownInv, Served
<1>4. ~doubt' /\ page.at \in Core => cores'[page.at] = cores[page.at]
  BY <1>1, <1>2 DEF ShownInv, Served
<1>5. Shows'
  BY <1>1, <1>4 DEF ShownInv, Shows, Baseline, Taken, News, Own
<1> QED
  BY <1>3, <1>5 DEF ShownInv

LEMMA NextShown ==
  ASSUME EditorInv, ShownInv, [EditorNext]_editorVars
  PROVE  ShownInv'
<1>1. CASE UNCHANGED editorVars
  <2>1. UNCHANGED <<doubt, cores, cache, asked, answer, failed, page, saveReqs, store>>
    BY <1>1 DEF editorVars
  <2> QED
    BY <2>1 DEF ShownInv, Served, Shows, Baseline, Taken, News, Own
<1>2. CASE EditorNext
  BY <1>2, EditsShown, StoreStepsShown, PagesShown, OthersShown, ReadShown, AnswerShown,
     SentShown, StoredShown, FailedShown, ModifiedShown, CreatedShown DEF EditorNext
<1> QED
  BY <1>1, <1>2

\* When the page of a core says that all is saved, the configuration it shows is that of
\* a draft the stored configuration says, for every history of edits, saves, failed and
\* stored, answers and changes by others, but for the doubts.
THEOREM SavedIsStored == EditorSpec => []SavedMeansStored
<1> DEFINE I == EditorInv /\ ShownInv
<1>1. EditorInit => I
  <2> SUFFICES ASSUME EditorInit
               PROVE  ShownInv
    BY InitEditor
  <2>1. page.at \notin Core /\ saveReqs = {}
    BY EditorConstants DEF EditorInit, List
  <2> QED
    BY <2>1 DEF ShownInv, Served, Shows
<1>2. I /\ [EditorNext]_editorVars => I'
  BY NextEditor, NextShown
<1>3. I => SavedMeansStored
  <2> SUFFICES ASSUME EditorInv, ShownInv, ~doubt, SaysSaved
               PROVE  \E d \in Draft[store.kind] \ Broken :
                        /\ CurrentConfig(store) = Persist[d]
                        /\ Says(store.kind, cores[page.at].config, d)
    BY DEF SavedMeansStored
  <2>1. /\ page.at \in Core /\ store.hydrated /\ saveReqs = {} /\ asked = {}
        /\ answer[page.at] = None /\ page.at \notin failed
        /\ ~HasActualChanges(store) /\ ~store.warned
    BY EditorParts DEF SaysSaved, OnScreen
  <2>2. Baseline(store) /\ Taken(store, cores[page.at])
    BY <2>1 DEF ShownInv, Shows, News, Own
  <2>3. /\ store.kind = store.snap.kind /\ CurrentConfig(store) = BaselineConfig(store)
        /\ BaselineConfig(store) # None
    BY <2>1 DEF HasActualChanges
  <2>4. store.baseline = store.snap.draft /\ ~store.snap.warned
    BY <2>1, <2>2, <2>3 DEF Baseline
  <2>5. Says(store.kind, cores[page.at].config, store.baseline)
    BY <2>2, <2>3, <2>4 DEF Taken
  <2>6. store.baseline \notin Broken /\ CurrentConfig(store) = Persist[store.baseline]
    BY <2>3 DEF BaselineConfig
  <2>7. store.baseline \in Draft[store.kind]
    BY <2>1, EditorParts DEF GoodStore, Loaded
  <2> QED
    BY <2>5, <2>6, <2>7
<1> HIDE DEF I
<1> QED
  BY <1>1, <1>2, <1>3, PTL DEF EditorSpec
=============================================================================
