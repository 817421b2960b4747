----------------------------- MODULE MCAgentRun -----------------------------
(* Instances of AgentRun for TLC. *)
EXTENDS AgentRun, TLC

\* Workers and resolve requests are interchangeable (safety runs only).
Symmetry == Permutations(Workers) \union Permutations(Resolvers)
=============================================================================
