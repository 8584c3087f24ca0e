-------------------------- MODULE MCNodeLifecycle --------------------------
(* Small instance of NodeLifecycle for TLC. *)
EXTENDS NodeLifecycle, TLC

HandedOver == {[desired |-> "healthy", observed |-> "healthy"]}

Symmetry == Permutations(Workers)
============================================================================
