--------------------------- MODULE MCUsersSearch ---------------------------
(* The search box with a name, the same name followed by a space, an id,    *)
(* that id followed by what is no id, an address that belongs to another    *)
(* user and one that belongs to nobody.                                     *)
EXTENDS UsersSearch, TLC

CONSTANTS ann, annSpace, five, fiveAnd, link, dead, bob, empty

MCText == {ann, annSpace, five, fiveAnd, link, dead, bob, empty}
MCTrim == annSpace :> ann @@ [t \in MCText |-> t]
MCIds == five :> five @@ fiveAnd :> five @@ [t \in MCText |-> empty]
MCUsername == link :> bob @@ dead :> empty
=============================================================================
