---------------------------- MODULE SortContract ----------------------------
(***************************************************************************)
(* What the planner relies on when it calls topological_sort: the call     *)
(* either numbers the URNs so that whatever a URN references comes before  *)
(* it, or raises NotADAGException, and it raises only for a graph that     *)
(* cannot be numbered.  A reference is a pair <<urn, ref>>: urn needs ref. *)
(***************************************************************************)
EXTENDS TopologicalOrder

VARIABLES
  references,           \* the references handed to the sort
  outcome,              \* "running", "sorted" or "NotADAG"
  sort_order            \* URN -> position, once sorted

Init ==
  /\ references \in Graph
  /\ outcome = "running"
  /\ sort_order = [u \in URN |-> 0]

Sort ==
  /\ outcome = "running"
  /\ outcome' = "sorted"
  /\ IsTopologicalOrder(sort_order', references)
  /\ UNCHANGED references

Raise ==
  /\ outcome = "running"
  /\ \E C \in SUBSET URN : IsKnot(C, references)
  /\ outcome' = "NotADAG"
  /\ UNCHANGED <<references, sort_order>>

Next == Sort \/ Raise

vars == <<references, outcome, sort_order>>

Spec == Init /\ [][Next]_vars
=============================================================================
