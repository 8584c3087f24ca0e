---------------------------- MODULE SingleRunner ----------------------------
(***************************************************************************)
(* What leader election promises: at most one worker runs the jobs, and    *)
(* between two runners there is a moment without any.                      *)
(***************************************************************************)
CONSTANT Worker
VARIABLE runners

Init == runners = {}

Start(w) == runners = {} /\ runners' = {w}

Stop(w) == runners = {w} /\ runners' = {}

Next == \E w \in Worker : Start(w) \/ Stop(w)

Spec == Init /\ [][Next]_runners
=============================================================================
