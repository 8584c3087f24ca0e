--------------------------- MODULE DashboardUser ---------------------------
(***************************************************************************)
(* What the parts of the dashboard have in common: the person who uses     *)
(* them.  Some habits the code does not stand; a part names the ones it    *)
(* knows, and a behaviour has one of the sets of Habits.                   *)
(***************************************************************************)
CONSTANTS
  None,     \* no value
  Habits    \* the sets of careless habits to be checked

VARIABLE careless   \* the careless habits of this user
=============================================================================
