--------------------------- MODULE TopologicalSort ---------------------------
(***************************************************************************)
(* topological_sort of blueprint.py: Kahn's algorithm as the loops run it. *)
(* Python iterates over sets and dicts of URNs in an order the program     *)
(* does not choose, so each loop takes its elements in any order; the      *)
(* queue is FIFO.  A reference is a pair <<urn, ref>> (urn needs ref), the *)
(* nodes nobody references leave the queue first, and the list is reversed *)
(* at the end so that what is referenced comes first.                      *)
(***************************************************************************)
EXTENDS Integers, Sequences, FiniteSets

CONSTANTS
  URN,           \* the resource_set _plan builds: manifest, remote state, refs
  NoNode         \* no node is being expanded

ASSUME URNAssumption == IsFiniteSet(URN)
ASSUME NoNodeAssumption == NoNode \notin URN

VARIABLES
  references,       \* the argument: a set of pairs over URN
  uncounted,        \* references the counting loop has still to visit
  in_degrees,       \* number of nodes not yet expanded that reference a node
  outgoing_edges,   \* what a node references
  unscanned,        \* nodes the scan for an empty in-degree has still to visit
  queue,            \* FIFO of nodes whose in-degree is 0
  nodes,            \* the nodes taken from the queue, in order
  node,             \* the node being expanded
  unrelaxed,        \* its outgoing edges still to visit
  empty_neighbors,  \* its neighbours whose in-degree reached 0
  outcome,          \* "running", "sorted" or "NotADAG"
  sort_order        \* the dict returned

vars == <<references, uncounted, in_degrees, outgoing_edges, unscanned, queue,
          nodes, node, unrelaxed, empty_neighbors, outcome, sort_order>>

Graph == SUBSET (URN \X URN)

Elements(s) == {s[i] : i \in 1 .. Len(s)}

-----------------------------------------------------------------------------
Init ==
  /\ references \in Graph
  /\ uncounted = references
  /\ in_degrees = [u \in URN |-> 0]
  /\ outgoing_edges = [u \in URN |-> {}]
  /\ unscanned = URN
  /\ queue = <<>>
  /\ nodes = <<>>
  /\ node = NoNode
  /\ unrelaxed = {}
  /\ empty_neighbors = {}
  /\ outcome = "running"
  /\ sort_order = [u \in URN |-> 0]

\* for node, ref in references
CountReference(r) ==
  /\ r \in uncounted
  /\ uncounted' = uncounted \ {r}
  /\ in_degrees' = [in_degrees EXCEPT ![r[2]] = @ + 1]
  /\ outgoing_edges' = [outgoing_edges EXCEPT ![r[1]] = @ \cup {r[2]}]
  /\ UNCHANGED <<references, unscanned, queue, nodes, node, unrelaxed,
                 empty_neighbors, outcome, sort_order>>

\* for node, in_degree in in_degrees.items()
ScanNode(u) ==
  /\ uncounted = {}
  /\ u \in unscanned
  /\ unscanned' = unscanned \ {u}
  /\ queue' = IF in_degrees[u] = 0 THEN Append(queue, u) ELSE queue
  /\ UNCHANGED <<references, uncounted, in_degrees, outgoing_edges, nodes,
                 node, unrelaxed, empty_neighbors, outcome, sort_order>>

AtLoopHead == uncounted = {} /\ unscanned = {} /\ node = NoNode

\* node = queue.get(); nodes.append(node)
GetNode ==
  /\ AtLoopHead
  /\ queue # <<>>
  /\ queue' = Tail(queue)
  /\ nodes' = Append(nodes, Head(queue))
  /\ node' = Head(queue)
  /\ unrelaxed' = outgoing_edges[Head(queue)]
  /\ empty_neighbors' = {}
  /\ UNCHANGED <<references, uncounted, in_degrees, outgoing_edges, unscanned,
                 outcome, sort_order>>

\* Mutant: a node is queued although one reference to it is left.
RelaxEdge_Early(e) ==
  /\ e \in unrelaxed
  /\ unrelaxed' = unrelaxed \ {e}
  /\ in_degrees' = [in_degrees EXCEPT ![e] = @ - 1]
  /\ IF in_degrees[e] = 2
       THEN queue' = Append(queue, e) /\ empty_neighbors' = empty_neighbors \cup {e}
       ELSE UNCHANGED <<queue, empty_neighbors>>
  /\ UNCHANGED <<references, uncounted, outgoing_edges, unscanned, nodes, node,
                 outcome, sort_order>>

\* Mutant: an edge is relaxed again and again.
RelaxEdge_Again(e) ==
  /\ e \in unrelaxed
  /\ in_degrees' = [in_degrees EXCEPT ![e] = @ - 1]
  /\ IF in_degrees[e] = 1
       THEN queue' = Append(queue, e) /\ empty_neighbors' = empty_neighbors \cup {e}
       ELSE UNCHANGED <<queue, empty_neighbors>>
  /\ UNCHANGED <<references, uncounted, outgoing_edges, unscanned, nodes, node,
                 unrelaxed, outcome, sort_order>>

\* for edge in outgoing_edges[node]
RelaxEdge(e) ==
  /\ e \in unrelaxed
  /\ unrelaxed' = unrelaxed \ {e}
  /\ in_degrees' = [in_degrees EXCEPT ![e] = @ - 1]
  /\ IF in_degrees[e] = 1
       THEN /\ queue' = Append(queue, e)
            /\ empty_neighbors' = empty_neighbors \cup {e}
       ELSE UNCHANGED <<queue, empty_neighbors>>
  /\ UNCHANGED <<references, uncounted, outgoing_edges, unscanned, nodes, node,
                 outcome, sort_order>>

\* Mutant: the loop does not go on to the next node.
FinishNode_Stuck ==
  /\ node # NoNode
  /\ unrelaxed = {}
  /\ outgoing_edges' = [outgoing_edges EXCEPT ![node] = @ \ empty_neighbors]
  /\ UNCHANGED <<references, uncounted, in_degrees, unscanned, queue, nodes, node,
                 unrelaxed, empty_neighbors, outcome, sort_order>>

\* outgoing_edges[node].difference_update(empty_neighbors)
FinishNode ==
  /\ node # NoNode
  /\ unrelaxed = {}
  /\ outgoing_edges' = [outgoing_edges EXCEPT ![node] = @ \ empty_neighbors]
  /\ node' = NoNode
  /\ UNCHANGED <<references, uncounted, in_degrees, unscanned, queue, nodes,
                 unrelaxed, empty_neighbors, outcome, sort_order>>

\* Mutant: the list is not reversed.
ReversedIndex_Forward(u) == (CHOOSE i \in 1 .. Len(nodes) : nodes[i] = u) - 1

\* The position of u in the reversed list.
ReversedIndex(u) == Len(nodes) - (CHOOSE i \in 1 .. Len(nodes) : nodes[i] = u)

\* The queue is empty: reverse, compare the lengths, raise or return.
Return ==
  /\ AtLoopHead
  /\ queue = <<>>
  /\ outcome = "running"
  /\ IF Len(nodes) # Cardinality(URN)
       THEN /\ outcome' = "NotADAG"
            /\ UNCHANGED sort_order
       ELSE /\ outcome' = "sorted"
            /\ sort_order' = [u \in URN |-> ReversedIndex(u)]
  /\ UNCHANGED <<references, uncounted, in_degrees, outgoing_edges, unscanned,
                 queue, nodes, node, unrelaxed, empty_neighbors>>

Next ==
  \/ \E r \in uncounted : CountReference(r)
  \/ \E u \in unscanned : ScanNode(u)
  \/ GetNode
  \/ \E e \in unrelaxed : RelaxEdge(e)
  \/ FinishNode
  \/ Return

Spec == Init /\ [][Next]_vars
FairSpec == Spec /\ WF_vars(Next)

-----------------------------------------------------------------------------
TypeOK ==
  /\ references \in Graph
  /\ uncounted \subseteq references
  /\ in_degrees \in [URN -> Nat]
  /\ outgoing_edges \in [URN -> SUBSET URN]
  /\ unscanned \subseteq URN
  /\ queue \in Seq(URN)
  /\ nodes \in Seq(URN)
  /\ node \in URN \cup {NoNode}
  /\ unrelaxed \subseteq URN
  /\ empty_neighbors \subseteq URN
  /\ outcome \in {"running", "sorted", "NotADAG"}
  /\ sort_order \in [URN -> Nat]

-----------------------------------------------------------------------------
\* What the loops maintain.  It is the inductive invariant of the proofs.
Visited == Elements(nodes)
Queued == Elements(queue)
Counted == references \ uncounted

\* The references to u that the expansions have not yet discounted.
Live(u) == {r \in Counted :
              /\ r[2] = u
              /\ r[1] \notin Visited \/ (r[1] = node /\ u \in unrelaxed)}

Distinct(s) == \A i, j \in 1 .. Len(s) : s[i] = s[j] => i = j

\* One loop starts when the loop before it has finished.
LoopsInOrder ==
  /\ uncounted # {} => unscanned = URN
  /\ unscanned = URN /\ URN # {} => queue = <<>>
  /\ unscanned # {} => nodes = <<>> /\ node = NoNode
  /\ node # NoNode => node \in Visited
  /\ node = NoNode => unrelaxed = {}
  /\ \A v \in unrelaxed : <<node, v>> \in Counted

\* The counters say how many references to a node are live, and the edges of a
\* node not yet expanded are all there.
DegreesExact ==
  /\ \A u \in URN : in_degrees[u] = Cardinality(Live(u))
  /\ \A u \in URN \ Visited : outgoing_edges[u] = {v \in URN : <<u, v>> \in Counted}

\* A node is queued once, and as soon as its last live reference goes.
QueueExact ==
  /\ Distinct(queue)
  /\ Distinct(nodes)
  /\ Queued \cap Visited = {}
  /\ \A u \in URN \ unscanned : in_degrees[u] = 0 <=> u \in Queued \cup Visited
  /\ unscanned \cap (Queued \cup Visited) = {}

\* Whatever references a visited node was visited before it.
DependentsFirst ==
  \A j \in 1 .. Len(nodes) : \A r \in references :
    r[2] = nodes[j] => \E i \in 1 .. j - 1 : nodes[i] = r[1]

Contract == INSTANCE SortContract

ResultRight ==
  /\ outcome = "sorted" => Contract!IsTopologicalOrder(sort_order, references)
  /\ outcome = "NotADAG" => \E C \in SUBSET URN : Contract!IsKnot(C, references)

\* What the loops have built at any moment is exact: counters, edges, queue,
\* visiting order, and the result once there is one.
KahnInv ==
  LoopsInOrder /\ DegreesExact /\ QueueExact /\ DependentsFirst /\ ResultRight

\* Every run of the loops does what the planner relies on: it numbers the URNs
\* references first, or raises for a graph that has no such numbering.
ImplementsContract == Contract!Spec

\* The call returns or raises, whatever the graph.
SortReturns == <>(outcome # "running")
=============================================================================
