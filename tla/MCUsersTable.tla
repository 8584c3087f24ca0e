---------------------------- MODULE MCUsersTable ----------------------------
(* A page of two of four users, a filter by status and one by id. *)
EXTENDS UsersTable, TLC

CONSTANTS absent, byStatus, byId, all

MCUser == 1..4
MCStatus == {"active", "disabled"}
MCFilter == {all, byStatus, byId}
MCKeeps == byStatus :> {"active"} @@ [f \in MCFilter |-> MCStatus]
MCOnly == byId :> {1} @@ [f \in MCFilter |-> MCUser]
MCStep == 4
MCFirst == 4 :> absent @@ 2 :> "disabled" @@ [u \in MCUser |-> "active"]
=============================================================================
