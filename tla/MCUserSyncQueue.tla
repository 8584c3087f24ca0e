-------------------------- MODULE MCUserSyncQueue --------------------------
(* Small instance of UserSyncQueue for TLC. *)
EXTENDS UserSyncQueue
============================================================================
