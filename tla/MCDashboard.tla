---------------------------- MODULE MCDashboard ----------------------------
(* One of the three pages is open and works; they share no state but the    *)
(* server's, of which each uses its own part.                               *)
EXTENDS MCUsersTable, MCUsersSearch, MCCoreEditor

VARIABLE open   \* "table", "search" or "core"

\* The pages that are not open are as they are when first shown.
DashboardInit ==
  /\ open \in {"table", "search", "core"}
  /\ TableInit /\ SearchInit /\ EditorInit
  /\ open # "search" => ui.filter = NoFilter

DashboardNext ==
  /\ \/ open = "table" /\ TableNext /\ UNCHANGED <<searchVars, editorVars>>
     \/ open = "search" /\ SearchNext /\ UNCHANGED <<tableVars, editorVars>>
     \/ open = "core" /\ EditorNext /\ UNCHANGED <<tableVars, searchVars>>
  /\ UNCHANGED open

DashboardSpec ==
  DashboardInit /\ [][DashboardNext]_<<open, tableVars, searchVars, editorVars>>
=============================================================================
