---------------------------- MODULE MCTaskEngine ----------------------------
(* Instances of TaskEngine for TLC. *)
EXTENDS TaskEngine, TLC

\* Call chains are interchangeable (runs without liveness only).
Symmetry == Permutations(Runners) \union Permutations(Requests)
=============================================================================
