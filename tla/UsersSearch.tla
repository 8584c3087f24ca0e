---------------------------- MODULE UsersSearch ----------------------------
(***************************************************************************)
(* The search of the users page: the search box with its debounce timer,   *)
(* the resolution of a pasted subscription address to a username, the      *)
(* advanced search dialog and the address bar, which all write the search  *)
(* part of the filters the user list is fetched with.                      *)
(*                                                                         *)
(* React runs the effects of a change before the next event, so an action  *)
(* is an event together with the effects that follow it.  The user types,  *)
(* clears, uses the dialog and the address bar in any order, while texts   *)
(* and answers are pending.                                                *)
(***************************************************************************)
EXTENDS Naturals, FiniteSets, DashboardUser

CONSTANTS
  Text,       \* what the box may hold
  Empty,      \* no text
  Trim,       \* a text without its outer spaces
  Ids,        \* the ids read in a text, written out again; Empty when there are none
  Url,        \* the subscription addresses
  Username,   \* the user an address belongs to; Empty when the answer names nobody
  MaxEvent    \* bound on what the user does

Mode == {"text", "protocol", "id"}

\* The lists of ids, written out.
IdList == {Ids[t] : t \in Text}

\* What a change of the search may empty beside it.
Others == {"ids", "proxy"}

ASSUME SearchAssumption ==
  /\ MaxEvent \in Nat
  /\ Empty \in Text /\ None \notin Text /\ Url \subseteq Text \ {Empty}
  /\ Trim \in [Text -> Text] /\ \A t \in Text : Trim[Trim[t]] = Trim[t]
  /\ Trim[Empty] = Empty
  /\ Ids \in [Text -> Text]
  /\ \A t \in Text : Ids[Ids[t]] = Ids[t] /\ Trim[Ids[t]] = Ids[t] /\ Ids[Trim[t]] = Ids[t]
  /\ Ids[Empty] = Empty
  /\ Username \in [Url -> Text \ Url] /\ \A u \in Url : Trim[Username[u]] = Username[u]

VARIABLES
  ui,         \* the box and the refs of Filters, with the filters of the table
  resolving,  \* addresses on their way to the server: [id, text]
  advanced,   \* the filters an advanced search will set once its fetch ends
  events,
  lost        \* history: the debounced text was given up, or its answer no longer counts

searchVars == <<ui, resolving, advanced, events, lost>>

---------------------------------------------------------------------------
(* The filters.                                                            *)

NoFilter == [mode |-> "text", search |-> Empty, proxy |-> Empty, ids |-> Empty]

FirstOf(s, t, u) == IF s # Empty THEN s ELSE IF t # Empty THEN t ELSE u

\* activeSearchValue of Filters, currentSearch of the table
ActiveSearch(f) == FirstOf(f.ids, f.search, f.proxy)
CurrentSearch(f) == FirstOf(f.proxy, f.search, f.ids)

\* Mutant of SearchFor: a search by id searches the text as well.
SearchForBoth(t, mode) ==
  [mode |-> mode, search |-> IF mode # "protocol" THEN t ELSE Empty,
   proxy |-> IF mode = "protocol" THEN t ELSE Empty,
   ids |-> IF mode = "id" THEN Ids[t] ELSE Empty]

\* A text read in a mode fills one of the three and empties the others.
SearchFor(t, mode) ==
  [mode |-> mode, search |-> IF mode = "text" THEN t ELSE Empty,
   proxy |-> IF mode = "protocol" THEN t ELSE Empty,
   ids |-> IF mode = "id" THEN Ids[t] ELSE Empty]

\* handleFilterChange({search: new, ...}), which names some other searches to be
\* emptied; an unchanged search only stores the text as it was typed.
HandleFilterChange(f, new, mode, emptied) ==
  LET next == Trim[new]
      nextMode == IF next = Empty THEN "text" ELSE mode
  IN IF next # CurrentSearch(f) \/ nextMode # f.mode
     THEN SearchFor(next, nextMode)
     ELSE [f EXCEPT !.search = new, !.ids = IF "ids" \in emptied THEN Empty ELSE f.ids,
                    !.proxy = IF "proxy" \in emptied THEN Empty ELSE f.proxy]

\* parseURLParams and getInitialStateFromURL: an address bar with a search t, the
\* flag of a mode and a list of ids, which is read beside the search.
UrlFilter(t, mode, ids) ==
  [mode |-> mode, search |-> IF mode = "text" THEN t ELSE Empty,
   proxy |-> IF mode = "protocol" THEN t ELSE Empty,
   ids |-> IF mode = "id" /\ t # Empty THEN Ids[t] ELSE ids]

\* handleHashChange: a changed search is taken over, then the ids beside it when
\* they are not those of the filters before.
HandleHashChange(f, u) ==
  LET next == IF u.mode = "id" THEN u.ids ELSE FirstOf(u.search, u.proxy, Empty)
      nextMode == IF next = Empty THEN "text" ELSE u.mode
      g == IF next # CurrentSearch(f) \/ nextMode # f.mode THEN SearchFor(next, nextMode) ELSE f
  IN IF nextMode # "id" /\ u.ids # f.ids THEN [g EXCEPT !.ids = u.ids] ELSE g

---------------------------------------------------------------------------
(* The box.                                                                *)

\* Mutant of SetFilters: the box does not follow the filters.
SetFiltersOnly(s, f) == [s EXCEPT !.filter = f]

\* New filters: when the active search changed, useDebouncedSearch drops its
\* timer and shows it; the debounced text follows, and a change of that text
\* uses up the ignore flag.
SetFilters(s, f) ==
  LET a == ActiveSearch(f)
  IN IF a = ActiveSearch(s.filter) THEN [s EXCEPT !.filter = f]
     ELSE [s EXCEPT !.filter = f, !.timer = None, !.box = a, !.prev = a, !.debounced = a,
                    !.ignore = s.ignore /\ a = s.debounced]

\* setSearch: the box at once, the debounced text after 300 ms.
SetSearch(s, t) == [s EXCEPT !.box = t, !.timer = t]

Superseded(s) == [s EXCEPT !.rid = s.rid + 1]

\* The debounced text became t and the effect that watches it runs.
Debounced(s, t) ==
  LET s1 == [s EXCEPT !.debounced = t, !.prev = t]
      s2 == Superseded(s1)
  IN IF s.ignore THEN [s1 EXCEPT !.ignore = FALSE]
     ELSE IF t = s.prev THEN s1
     ELSE IF Trim[t] = Empty THEN SetFilters(s2, HandleFilterChange(s.filter, t, "text", Others))
     ELSE IF Trim[t] \in Url THEN s2
     ELSE SetFilters(s2, HandleFilterChange(s.filter, t, s.filter.mode, {}))

---------------------------------------------------------------------------

SearchInit ==
  /\ \E t \in Text, mode \in Mode, ids \in IdList :
       LET f == UrlFilter(t, mode, ids)
           a == ActiveSearch(f)
       IN ui = [box |-> a, debounced |-> a, timer |-> None, prev |-> a,
                ignore |-> FALSE, rid |-> 0, filter |-> f]
  /\ resolving = {}
  /\ advanced = None
  /\ events = 0
  /\ lost = FALSE

Event == events < MaxEvent /\ events' = events + 1

\* The debounced address waits for its answer.
Asked == \E p \in resolving : p.id = ui.rid /\ p.text = ui.debounced

\* The box was left as it is: useDebouncedSearch follows the active search only.
SameActive == ActiveSearch(ui.filter)' = ActiveSearch(ui.filter)

\* The searches that are sent are the same text, but for outer spaces.
OneText(f) == \A s, t \in {f.search, f.proxy, f.ids} \ {Empty} : Trim[s] = Trim[t]

\* A text the code gives up: swallowed by an ignore flag that a clear left behind; in
\* the id mode, another writing of the ids searched for, or no id where there are
\* none; the hidden one of two searches that the address bar had named.
GivenUp(s, t) ==
  \/ s.ignore /\ t # ActiveSearch(s.filter)
  \/ s.filter.mode = "id" /\ Ids[t] = ActiveSearch(s.filter) /\ Ids[t] # Trim[t]
  \/ ~OneText(s.filter) /\ Trim[t] = CurrentSearch(s.filter)

\* handleSearchChange; the advanced search is a modal dialog that cannot be
\* closed while its fetch runs.
Type(t) ==
  /\ Event /\ advanced = None /\ t # ui.box
  /\ ui' = SetSearch(Superseded(ui), t)
  /\ lost' = (lost \/ Asked)
  /\ UNCHANGED <<resolving, advanced>>

\* debouncedSearchRef fires.
TimerFires ==
  /\ ui.timer # None
  /\ LET s == [ui EXCEPT !.timer = None]
         t == ui.timer
     IN IF t = ui.debounced THEN ui' = s /\ UNCHANGED <<resolving, lost>>
        ELSE /\ ui' = Debounced(s, t)
             /\ lost' = GivenUp(s, t)
             /\ resolving' = IF ~s.ignore /\ t # s.prev /\ Trim[t] \in Url
                             THEN resolving \cup {[id |-> s.rid + 1, text |-> t]}
                             ELSE resolving
  /\ UNCHANGED <<advanced, events>>

\* Mutant of Resolved: a late answer is applied as well.
ResolvedLate(p, s) ==
  LET u == Username[Trim[p.text]]
  IN IF u = Empty THEN s
     ELSE SetFilters(SetSearch([s EXCEPT !.prev = u], u),
                     HandleFilterChange(s.filter, u, "text", Others))

\* The address was resolved: unless something was typed since, the username
\* takes its place; an answer without one changes nothing.
Resolved(p, s) ==
  LET u == Username[Trim[p.text]]
  IN IF p.id # s.rid \/ u = Empty THEN s
     ELSE SetFilters(SetSearch([s EXCEPT !.prev = u], u),
                     HandleFilterChange(s.filter, u, "text", Others))

ResolveAnswers(p) ==
  /\ ui' = Resolved(p, ui)
  /\ lost' = (SameActive /\ (lost \/ (p.id = ui.rid /\ p.text = ui.debounced)))
  /\ resolving' = resolving \ {p}
  /\ UNCHANGED <<advanced, events>>

\* The server does not know it: the address itself is searched for.
ResolveFails(p) ==
  /\ ui' = IF p.id # ui.rid THEN ui
           ELSE SetFilters(ui, HandleFilterChange(ui.filter, p.text, "text", {"ids"}))
  /\ lost' = (lost /\ SameActive)
  /\ resolving' = resolving \ {p}
  /\ UNCHANGED <<advanced, events>>

\* clearSearch
ClearSearch ==
  /\ Event /\ advanced = None /\ ui.box # Empty
  /\ LET s == SetSearch([Superseded(ui) EXCEPT !.ignore = TRUE, !.prev = ui.debounced], Empty)
     IN ui' = SetFilters(s, HandleFilterChange(s.filter, Empty, "text", Others))
  /\ lost' = ((lost \/ Asked) /\ SameActive)
  /\ UNCHANGED <<resolving, advanced>>

\* The chip of the ids is removed; the mode stays.
RemoveIdsChip ==
  /\ Event /\ advanced = None /\ ui.filter.ids # Empty
  /\ ui' = SetFilters(ui, [ui.filter EXCEPT !.ids = Empty])
  /\ lost' = (lost /\ SameActive)
  /\ UNCHANGED <<resolving, advanced>>

\* handleAdvanceSearchSubmit: the new filters are computed from the present
\* ones, fetched, and set when the fetch ends, well or not.
AdvancedSubmit(mode) ==
  /\ Event /\ advanced = None
  /\ advanced' = SearchFor(CurrentSearch(ui.filter), mode)
  /\ UNCHANGED <<ui, resolving, lost>>

AdvancedApply ==
  /\ advanced # None
  /\ ui' = SetFilters(ui, advanced)
  /\ lost' = (lost /\ SameActive)
  /\ advanced' = None
  /\ UNCHANGED <<resolving, events>>

\* handleClearAdvanceSearch empties the ids and the protocol search.
ClearAdvanceSearch ==
  /\ Event /\ advanced = None
  /\ ui' = SetFilters(ui, [NoFilter EXCEPT !.search = ui.filter.search])
  /\ lost' = (lost /\ SameActive)
  /\ UNCHANGED <<resolving, advanced>>

\* The address bar names another search.
HashChange(t, mode, ids) ==
  /\ Event
  /\ ui' = SetFilters(ui, HandleHashChange(ui.filter, UrlFilter(t, mode, ids)))
  /\ lost' = (lost /\ SameActive)
  /\ UNCHANGED <<resolving, advanced>>

SearchNext ==
  \/ \E t \in Text : Type(t)
  \/ \E t \in Text, mode \in Mode, ids \in IdList : HashChange(t, mode, ids)
  \/ TimerFires
  \/ \E p \in resolving : ResolveAnswers(p) \/ ResolveFails(p)
  \/ ClearSearch \/ RemoveIdsChip \/ AdvancedApply \/ ClearAdvanceSearch
  \/ \E mode \in Mode : AdvancedSubmit(mode)

SearchSpec == SearchInit /\ [][SearchNext]_searchVars

---------------------------------------------------------------------------
(* Properties.                                                             *)

FilterType == [mode : Mode, search : Text, proxy : Text, ids : Text]

\* Every variable has its type.
SearchTypeOK ==
  /\ ui \in [box : Text, debounced : Text, timer : Text \cup {None}, prev : Text,
             ignore : BOOLEAN, rid : Nat, filter : FilterType]
  /\ \A p \in resolving : p.id \in Nat /\ p.text \in Text /\ Trim[p.text] \in Url
  /\ advanced \in FilterType \cup {None}
  /\ events \in 0..MaxEvent /\ lost \in BOOLEAN

\* Two different searches are never sent together, whatever is typed, cleared or
\* submitted while texts and answers are pending: only an address bar that names ids
\* beside a search makes two out of one.
OneSearch ==
  [][OneText(ui.filter) /\ ~OneText(ui.filter)' =>
       \E t \in Text, mode \in Mode : \E ids \in IdList \ {Empty} : HashChange(t, mode, ids)]_searchVars

Pending == ui.timer # None \/ Asked

\* Once the timer has fired and the answer is there, the box shows what is searched
\* for, whatever happened in between: a text is lost only where the code gives it up,
\* and none sticks after the search changed.
BoxMeansFilter == ~Pending /\ ~lost => Trim[ActiveSearch(ui.filter)] = Trim[ui.box]

\* An address resolved while another text waits in the box, or while the box is
\* being emptied, changes neither the box nor the filters.
LateAnswerIgnored ==
  [][\A p \in resolving : ResolveAnswers(p) /\ Trim[ui.box] # Trim[p.text] /\ ui.timer # None
       => ui'.box = ui.box /\ ui'.filter = ui.filter]_searchVars
=============================================================================
