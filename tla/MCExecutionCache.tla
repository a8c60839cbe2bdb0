-------------------------- MODULE MCExecutionCache --------------------------
(* ExecutionCache for TLC: the ids of lists are interchangeable. *)
EXTENDS ExecutionCache, TLC

Ids == Permutations(Id)
=============================================================================
