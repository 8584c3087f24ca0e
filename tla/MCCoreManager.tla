--------------------------- MODULE MCCoreManager ---------------------------
(* Small instance of CoreManager for TLC: one worker runs the router's resync  *)
(* and a job that reloads, the other only the resync.                          *)
EXTENDS CoreManager

CONSTANTS node, panel, resync, job

MCWorkers == {node, panel}
MCCallers == [w \in MCWorkers |-> IF w = node THEN {resync, job} ELSE {resync}]
============================================================================
