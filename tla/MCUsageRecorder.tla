-------------------------- MODULE MCUsageRecorder --------------------------
(* Small instances of UsageRecorder for TLC. *)
EXTENDS UsageRecorder, TLC

CONSTANTS a, b,      \* node processes
          c1, c2, c3, u1

\* Node 1 reaches the two-phase process a, node 2 the process b.
Apart == (1 :> a) @@ (2 :> b)
\* Both ids are registered for the same process.
Twins == (1 :> a) @@ (2 :> a)
Alone == (1 :> a)

OwnedByOne == [c \in Chunk |-> u1]

Symmetric == Permutations(Chunk)
=============================================================================
