-------------------------- MODULE TopologicalOrder --------------------------
(***************************************************************************)
(* The orders _plan may give the URNs of a blueprint.  A reference is a    *)
(* pair <<urn, ref>>: urn needs ref, so ref comes first.                   *)
(***************************************************************************)
EXTENDS Integers, Sequences

CONSTANT URN            \* every URN a blueprint may mention

Graph == SUBSET (URN \X URN)

\* order numbers the URNs from 0 without gap or repetition, references first.
IsTopologicalOrder(order, refs) ==
  /\ order \in [URN -> Nat]
  /\ \A u \in URN : \A k \in 0 .. order[u] : \E v \in URN : order[v] = k
  /\ \A u, v \in URN : order[u] = order[v] => u = v
  /\ \A r \in refs : order[r[2]] < order[r[1]]

\* C cannot be ordered: each of its members is referenced from inside C.
IsKnot(C, refs) ==
  /\ C # {}
  /\ \A u \in C : \E v \in C : <<v, u>> \in refs
=============================================================================
