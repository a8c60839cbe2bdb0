----------------------- MODULE TopologicalSort_proofs -----------------------
(***************************************************************************)
(* TLAPS proofs about topological_sort, for every finite set of URNs and   *)
(* every set of references.                                                *)
(***************************************************************************)
EXTENDS TopologicalSort, TLAPS, FiniteSetTheorems, SequenceTheorems

IInv == TypeOK /\ KahnInv

-----------------------------------------------------------------------------
\* Appending to a queue without repetition adds one element.
LEMMA AppendElements ==
  ASSUME NEW s \in Seq(URN), NEW e \in URN
  PROVE  /\ Append(s, e) \in Seq(URN)
         /\ Elements(Append(s, e)) = Elements(s) \cup {e}
         /\ Distinct(s) /\ e \notin Elements(s) => Distinct(Append(s, e))
<1> DEFINE t == Append(s, e)
<1>1. /\ t \in Seq(URN)
      /\ Len(t) = Len(s) + 1
      /\ Len(s) \in Nat
      /\ \A i \in 1 .. Len(s) : t[i] = s[i]
      /\ t[Len(s) + 1] = e
  OBVIOUS
<1>2. Elements(t) = Elements(s) \cup {e}
  <2>1. Elements(t) \subseteq Elements(s) \cup {e}
    <3> SUFFICES ASSUME NEW i \in 1 .. Len(t)
                 PROVE  t[i] \in Elements(s) \cup {e}
      BY DEF Elements
    <3>1. CASE i = Len(s) + 1
      BY <1>1, <3>1
    <3>2. CASE i # Len(s) + 1
      <4>1. i \in 1 .. Len(s)
        BY <1>1, <3>2
      <4> QED BY <1>1, <4>1 DEF Elements
    <3> QED BY <3>1, <3>2
  <2>2. Elements(s) \subseteq Elements(t)
    BY <1>1 DEF Elements
  <2>3. e \in Elements(t)
    BY <1>1 DEF Elements
  <2> QED BY <2>1, <2>2, <2>3
<1>3. ASSUME Distinct(s), e \notin Elements(s)
      PROVE  Distinct(t)
  BY <1>1, <1>3 DEF Distinct, Elements
<1> QED BY <1>1, <1>2, <1>3

\* Taking the head of a queue without repetition removes that element.
LEMMA TailElements ==
  ASSUME NEW s \in Seq(URN), s # <<>>
  PROVE  /\ Head(s) \in Elements(s)
         /\ Head(s) \in URN
         /\ Tail(s) \in Seq(URN)
         /\ Elements(Tail(s)) \subseteq Elements(s)
         /\ Distinct(s) => /\ Distinct(Tail(s))
                           /\ Elements(Tail(s)) = Elements(s) \ {Head(s)}
<1> DEFINE t == Tail(s)
<1>1. /\ Len(s) \in Nat /\ Len(s) > 0
      /\ Head(s) = s[1]
      /\ s[1] \in URN
      /\ t \in Seq(URN)
      /\ Len(t) = Len(s) - 1
      /\ \A i \in 1 .. Len(t) : t[i] = s[i + 1]
  BY HeadTailProperties, EmptySeq
<1>2. Head(s) \in Elements(s)
  BY <1>1 DEF Elements
<1>3. Elements(t) \subseteq Elements(s)
  BY <1>1 DEF Elements
<1>4. ASSUME Distinct(s)
      PROVE  Distinct(t) /\ Elements(t) = Elements(s) \ {Head(s)}
  <2>1. Distinct(t)
    BY <1>1, <1>4 DEF Distinct
  <2>2. Head(s) \notin Elements(t)
    BY <1>1, <1>4 DEF Distinct, Elements
  <2>3. ASSUME NEW i \in 1 .. Len(s), s[i] # Head(s)
        PROVE  s[i] \in Elements(t)
    <3>1. i - 1 \in 1 .. Len(t) /\ s[i] = t[i - 1]
      BY <1>1, <2>3
    <3> QED BY <3>1 DEF Elements
  <2> QED BY <1>3, <2>1, <2>2, <2>3 DEF Elements
<1> QED BY <1>1, <1>2, <1>3, <1>4

\* A list without repetition has as many elements as its length.
LEMMA DistinctCardinality ==
  ASSUME NEW s \in Seq(URN), Distinct(s)
  PROVE  Cardinality(Elements(s)) = Len(s)
<1>1. /\ Len(s) \in Nat
      /\ s \in [1 .. Len(s) -> URN]
  BY LenProperties
<1>2. s \in Bijection(1 .. Len(s), Elements(s))
  BY <1>1 DEF Bijection, Injection, Surjection, Elements, Distinct, IsInjective
<1>3. ExistsBijection(1 .. Len(s), Elements(s))
  BY <1>2 DEF ExistsBijection
<1> QED BY <1>1, <1>3, FS_CountingElements

-----------------------------------------------------------------------------
\* The counters range over finite sets of references.
LEMMA LiveFinite ==
  ASSUME TypeOK, NEW u \in URN
  PROVE  /\ IsFiniteSet(Live(u))
         /\ Cardinality(Live(u)) \in Nat
         /\ Cardinality(Live(u)) = 0 <=> Live(u) = {}
<1>1. IsFiniteSet(URN \X URN)
  BY URNAssumption, FS_Product
<1>2. Live(u) \in SUBSET (URN \X URN)
  BY DEF TypeOK, Graph, Live, Counted
<1>3. IsFiniteSet(Live(u))
  BY <1>1, <1>2, FS_Subset
<1> QED BY <1>3, FS_CardinalityType, FS_EmptySet

\* The initial state satisfies the invariant.
LEMMA InitInv == Init => IInv
<1> SUFFICES ASSUME Init PROVE IInv
  OBVIOUS
<1>1. Elements(<<>>) = {} /\ Len(<<>>) = 0
  BY DEF Elements
<1>2. TypeOK
  BY DEF Init, TypeOK, Graph
<1>3. LoopsInOrder
  BY DEF Init, LoopsInOrder
<1>4. Visited = {} /\ Queued = {} /\ Counted = {}
  BY <1>1 DEF Init, Visited, Queued, Counted
<1>5. DegreesExact
  <2>1. \A u \in URN : Live(u) = {}
    BY <1>4 DEF Live
  <2> QED BY <1>4, <2>1, FS_EmptySet DEF Init, DegreesExact
<1>6. QueueExact
  BY <1>1, <1>4 DEF Init, QueueExact, Distinct
<1>7. DependentsFirst
  BY <1>1 DEF Init, DependentsFirst
<1>8. ResultRight
  BY DEF Init, ResultRight
<1> QED BY <1>2, <1>3, <1>5, <1>6, <1>7, <1>8 DEF IInv, KahnInv

\* The counting loop keeps the counters exact.
LEMMA CountReferenceInv ==
  ASSUME IInv, NEW r \in uncounted, CountReference(r)
  PROVE  IInv'
<1> USE DEF IInv, KahnInv
<1>1. /\ r \in URN \X URN /\ r \in references
      /\ r = <<r[1], r[2]>> /\ r[1] \in URN /\ r[2] \in URN
  BY DEF TypeOK, Graph
<1>2. /\ unscanned = URN /\ URN # {} /\ queue = <<>> /\ nodes = <<>>
      /\ node = NoNode /\ unrelaxed = {}
  BY <1>1 DEF LoopsInOrder
<1>3. Elements(<<>>) = {} /\ Len(<<>>) = 0
  BY DEF Elements
<1>4. /\ Counted' = Counted \cup {r} /\ r \notin Counted
      /\ Visited = {} /\ Visited' = {} /\ Queued = {} /\ Queued' = {}
  BY <1>1, <1>2, <1>3 DEF CountReference, Counted, Visited, Queued, TypeOK
<1>5. TypeOK'
  BY <1>1 DEF TypeOK, CountReference
<1>6. LoopsInOrder'
  BY <1>2, <1>4 DEF LoopsInOrder, CountReference
<1>7. DegreesExact'
  <2>1. Live(r[2])' = Live(r[2]) \cup {r} /\ r \notin Live(r[2])
    BY <1>1, <1>4 DEF Live
  <2>2. \A u \in URN \ {r[2]} : Live(u)' = Live(u)
    BY <1>1, <1>4 DEF Live
  <2>3. \A u \in URN : in_degrees'[u] = Cardinality(Live(u)')
    <3> SUFFICES ASSUME NEW u \in URN
                 PROVE  in_degrees'[u] = Cardinality(Live(u)')
      OBVIOUS
    <3>1. CASE u = r[2]
      <4>1. IsFiniteSet(Live(u)) /\ Cardinality(Live(u)) \in Nat
        BY LiveFinite
      <4>2. Cardinality(Live(u)') = Cardinality(Live(u)) + 1
        BY <2>1, <3>1, <4>1, FS_AddElement
      <4>3. in_degrees'[u] = in_degrees[u] + 1
        BY <1>1, <3>1 DEF CountReference, TypeOK
      <4> QED BY <4>2, <4>3 DEF DegreesExact
    <3>2. CASE u # r[2]
      BY <1>1, <2>2, <3>2 DEF DegreesExact, CountReference, TypeOK
    <3> QED BY <3>1, <3>2
  <2>4. \A u \in URN : outgoing_edges'[u] = {v \in URN : <<u, v>> \in Counted'}
    <3> SUFFICES ASSUME NEW u \in URN
                 PROVE  outgoing_edges'[u] = {v \in URN : <<u, v>> \in Counted'}
      OBVIOUS
    <3>1. outgoing_edges[u] = {v \in URN : <<u, v>> \in Counted}
      BY <1>4 DEF DegreesExact
    <3>2. CASE u = r[1]
      BY <1>1, <1>4, <3>1, <3>2 DEF CountReference, TypeOK
    <3>3. CASE u # r[1]
      BY <1>1, <1>4, <3>1, <3>3 DEF CountReference, TypeOK
    <3> QED BY <3>2, <3>3
  <2> QED BY <2>3, <2>4 DEF DegreesExact
<1>8. QueueExact'
  BY <1>2, <1>3, <1>4 DEF QueueExact, CountReference, Distinct
<1>9. DependentsFirst'
  BY <1>2, <1>3 DEF DependentsFirst, CountReference
<1>10. ResultRight'
  BY DEF ResultRight, CountReference
<1> QED BY <1>5, <1>6, <1>7, <1>8, <1>9, <1>10

\* The scan queues exactly the nodes nobody references.
LEMMA ScanNodeInv ==
  ASSUME IInv, NEW u \in unscanned, ScanNode(u)
  PROVE  IInv'
<1> USE DEF IInv, KahnInv
<1>1. /\ u \in URN /\ nodes = <<>> /\ node = NoNode /\ unrelaxed = {}
      /\ queue \in Seq(URN) /\ u \notin Queued
  BY DEF LoopsInOrder, TypeOK, QueueExact
<1>2. Elements(<<>>) = {} /\ Len(<<>>) = 0
  BY DEF Elements
<1>3. Visited = {} /\ Visited' = {} /\ Counted' = Counted
  BY <1>1, <1>2 DEF ScanNode, Visited, Counted
<1>4. /\ queue' \in Seq(URN)
      /\ Queued' = IF in_degrees[u] = 0 THEN Queued \cup {u} ELSE Queued
      /\ Distinct(queue')
  BY <1>1, AppendElements DEF ScanNode, Queued, QueueExact
<1>5. TypeOK'
  BY <1>1, <1>4 DEF TypeOK, ScanNode
<1>6. LoopsInOrder'
  BY <1>1, <1>3 DEF LoopsInOrder, ScanNode
<1>7. DegreesExact'
  <2>1. \A v \in URN : Live(v)' = Live(v)
    BY <1>1, <1>3 DEF Live, ScanNode
  <2> QED BY <1>3, <2>1 DEF DegreesExact, ScanNode
<1>8. QueueExact'
  BY <1>1, <1>2, <1>3, <1>4 DEF QueueExact, ScanNode, Distinct
<1>9. DependentsFirst'
  BY <1>1, <1>2 DEF DependentsFirst, ScanNode
<1>10. ResultRight'
  BY DEF ResultRight, ScanNode
<1> QED BY <1>5, <1>6, <1>7, <1>8, <1>9, <1>10

\* Expanding a node discounts nothing yet: its edges are still to be relaxed.
LEMMA GetNodeInv ==
  ASSUME IInv, GetNode
  PROVE  IInv'
<1> USE DEF IInv, KahnInv
<1> DEFINE h == Head(queue)
<1>1. /\ queue \in Seq(URN) /\ queue # <<>> /\ nodes \in Seq(URN)
      /\ uncounted = {} /\ unscanned = {} /\ node = NoNode /\ unrelaxed = {}
  BY DEF TypeOK, GetNode, AtLoopHead, LoopsInOrder
<1>2. /\ h \in Queued /\ h \in URN /\ queue' \in Seq(URN)
      /\ Queued' = Queued \ {h} /\ Distinct(queue')
  BY <1>1, TailElements DEF GetNode, QueueExact, Queued
<1>3. h \notin Visited
  BY <1>2 DEF QueueExact
<1>4. /\ nodes' \in Seq(URN)
      /\ Visited' = Visited \cup {h} /\ Distinct(nodes')
  BY <1>1, <1>2, <1>3, AppendElements DEF GetNode, QueueExact, Visited
<1>5. Counted' = Counted /\ Counted = references
  BY <1>1 DEF GetNode, Counted
<1>6. unrelaxed' = {v \in URN : <<h, v>> \in Counted} /\ node' = h
  BY <1>2, <1>3 DEF GetNode, DegreesExact
<1>7. TypeOK'
  BY <1>1, <1>2, <1>4, <1>6 DEF TypeOK, GetNode
<1>8. LoopsInOrder'
  BY <1>1, <1>2, <1>4, <1>5, <1>6, NoNodeAssumption DEF LoopsInOrder, GetNode
<1>9. \A u \in URN : Live(u)' = Live(u)
  <2> SUFFICES ASSUME NEW u \in URN PROVE Live(u)' = Live(u)
    OBVIOUS
  <2>1. Counted \subseteq URN \X URN
    BY DEF Counted, TypeOK, Graph
  <2>2. ASSUME NEW r \in Counted, r[2] = u
        PROVE  \/ r[1] \notin Visited \/ (r[1] = node /\ u \in unrelaxed)
               <=> \/ r[1] \notin Visited' \/ (r[1] = node' /\ u \in unrelaxed')
    <3>1. r = <<r[1], u>> /\ r[1] \in URN
      BY <2>1, <2>2
    <3>2. CASE r[1] = h
      BY <1>3, <1>6, <2>2, <3>1, <3>2
    <3>3. CASE r[1] # h
      BY <1>1, <1>4, <1>6, <3>3
    <3> QED BY <3>2, <3>3
  <2> QED BY <1>5, <2>2 DEF Live
<1>10. DegreesExact'
  <2>1. \A u \in URN : in_degrees'[u] = Cardinality(Live(u)')
    BY <1>9 DEF DegreesExact, GetNode
  <2>2. \A u \in URN \ Visited' : outgoing_edges'[u] = {v \in URN : <<u, v>> \in Counted'}
    BY <1>4, <1>5 DEF DegreesExact, GetNode
  <2> QED BY <2>1, <2>2 DEF DegreesExact
<1>11. QueueExact'
  BY <1>1, <1>2, <1>3, <1>4 DEF QueueExact, GetNode
<1>12. DependentsFirst'
  <2>1. /\ Len(nodes) \in Nat /\ Len(nodes') = Len(nodes) + 1
        /\ nodes'[Len(nodes) + 1] = h
        /\ \A i \in 1 .. Len(nodes) : nodes'[i] = nodes[i]
    BY <1>1, <1>2 DEF GetNode
  <2> SUFFICES ASSUME NEW j \in 1 .. Len(nodes'), NEW r \in references,
                      r[2] = nodes'[j]
               PROVE  \E i \in 1 .. j - 1 : nodes'[i] = r[1]
    BY DEF DependentsFirst, GetNode
  <2>2. CASE j \in 1 .. Len(nodes)
    <3>1. PICK i \in 1 .. j - 1 : nodes[i] = r[1]
      BY <2>1, <2>2 DEF DependentsFirst
    <3> QED BY <2>1, <2>2, <3>1
  <2>3. CASE j = Len(nodes) + 1
    <3>1. in_degrees[h] = 0
      BY <1>1, <1>2 DEF QueueExact
    <3>2. Live(h) = {}
      BY <1>2, <3>1, LiveFinite DEF DegreesExact
    <3>3. r[1] \in Visited
      BY <1>5, <2>1, <2>3, <3>2 DEF Live
    <3>4. PICK i \in 1 .. Len(nodes) : nodes[i] = r[1]
      BY <3>3 DEF Visited, Elements
    <3> QED BY <2>1, <2>3, <3>4
  <2> QED BY <2>1, <2>2, <2>3
<1>13. ResultRight'
  BY DEF ResultRight, GetNode
<1> QED BY <1>7, <1>8, <1>10, <1>11, <1>12, <1>13

\* Relaxing an edge discounts one reference, and queues its target at zero.
LEMMA RelaxEdgeInv ==
  ASSUME IInv, NEW e \in unrelaxed, RelaxEdge(e)
  PROVE  IInv'
<1> USE DEF IInv, KahnInv
<1> DEFINE p == <<node, e>>
<1>1. /\ e \in URN /\ node # NoNode /\ node \in Visited /\ p \in Counted
      /\ queue \in Seq(URN) /\ uncounted = {} /\ unscanned = {}
  BY DEF TypeOK, LoopsInOrder, Counted
<1>2. /\ Visited' = Visited /\ Counted' = Counted /\ unrelaxed' = unrelaxed \ {e}
      /\ node' = node /\ nodes' = nodes /\ references' = references
  BY DEF RelaxEdge, Visited, Counted
<1>3. /\ Live(e)' = Live(e) \ {p} /\ p \in Live(e)
  <2>1. \A r \in Counted : r = <<r[1], r[2]>>
    BY DEF Counted, TypeOK, Graph
  <2> QED BY <1>1, <1>2, <2>1 DEF Live
<1>4. \A u \in URN \ {e} : Live(u)' = Live(u)
  BY <1>2 DEF Live
<1>5. /\ Cardinality(Live(e)') = in_degrees[e] - 1
      /\ in_degrees[e] \in Nat \ {0}
  <2>1. /\ IsFiniteSet(Live(e)) /\ Cardinality(Live(e)) \in Nat
        /\ Cardinality(Live(e)) # 0
    BY <1>1, <1>3, LiveFinite
  <2>2. Cardinality(Live(e)') = Cardinality(Live(e)) - 1
    BY <1>3, <2>1, FS_RemoveElement
  <2> QED BY <1>1, <2>1, <2>2 DEF DegreesExact
<1>6. e \notin Queued \cup Visited
  BY <1>1, <1>5 DEF QueueExact
<1>7. /\ queue' \in Seq(URN)
      /\ Queued' = IF in_degrees[e] = 1 THEN Queued \cup {e} ELSE Queued
      /\ Distinct(queue')
  <2>1. CASE in_degrees[e] = 1
    <3>1. queue' = Append(queue, e)
      BY <2>1 DEF RelaxEdge
    <3> QED BY <1>1, <1>6, <2>1, <3>1, AppendElements DEF Queued, QueueExact
  <2>2. CASE in_degrees[e] # 1
    BY <1>1, <2>2 DEF RelaxEdge, Queued, QueueExact
  <2> QED BY <2>1, <2>2
<1>8. TypeOK'
  BY <1>1, <1>5, <1>7 DEF TypeOK, RelaxEdge
<1>9. LoopsInOrder'
  BY <1>1, <1>2 DEF LoopsInOrder, RelaxEdge
<1>10. DegreesExact'
  <2>1. ASSUME NEW u \in URN
        PROVE  in_degrees'[u] = Cardinality(Live(u)')
    <3>1. CASE u = e
      BY <1>1, <1>5, <3>1 DEF RelaxEdge, TypeOK
    <3>2. CASE u # e
      BY <1>1, <1>4, <3>2 DEF RelaxEdge, TypeOK, DegreesExact
    <3> QED BY <3>1, <3>2
  <2> QED BY <1>2, <2>1 DEF DegreesExact, RelaxEdge
<1>11. QueueExact'
  <2>1. \A u \in URN : in_degrees'[u] = IF u = e THEN in_degrees[e] - 1 ELSE in_degrees[u]
    BY <1>1 DEF RelaxEdge, TypeOK
  <2> QED BY <1>1, <1>2, <1>5, <1>6, <1>7, <2>1 DEF QueueExact, RelaxEdge
<1>12. DependentsFirst'
  BY <1>2 DEF DependentsFirst
<1>13. ResultRight'
  BY DEF ResultRight, RelaxEdge
<1> QED BY <1>8, <1>9, <1>10, <1>11, <1>12, <1>13

\* Once all its edges are relaxed a node is done with.
LEMMA FinishNodeInv ==
  ASSUME IInv, FinishNode
  PROVE  IInv'
<1> USE DEF IInv, KahnInv
<1>1. /\ node \in URN /\ node \in Visited /\ unrelaxed = {}
      /\ uncounted = {} /\ unscanned = {}
  BY DEF TypeOK, LoopsInOrder, FinishNode
<1>2. /\ Visited' = Visited /\ Counted' = Counted /\ Queued' = Queued
  BY DEF FinishNode, Visited, Counted, Queued
<1>3. TypeOK'
  BY <1>1 DEF TypeOK, FinishNode
<1>4. LoopsInOrder'
  BY <1>1 DEF LoopsInOrder, FinishNode
<1>5. DegreesExact'
  <2>1. \A u \in URN : Live(u)' = Live(u)
    BY <1>1, <1>2 DEF Live, FinishNode
  <2>2. \A u \in URN \ Visited : outgoing_edges'[u] = outgoing_edges[u]
    BY <1>1 DEF FinishNode, TypeOK
  <2> QED BY <1>2, <2>1, <2>2 DEF DegreesExact, FinishNode
<1>6. QueueExact'
  BY <1>2 DEF QueueExact, FinishNode
<1>7. DependentsFirst'
  BY DEF DependentsFirst, FinishNode
<1>8. ResultRight'
  BY DEF ResultRight, FinishNode
<1> QED BY <1>3, <1>4, <1>5, <1>6, <1>7, <1>8

\* Once the queue is empty: either every URN was visited, and the reversed list
\* is a topological order, or the unvisited ones form a knot.
LEMMA ReturnInv ==
  ASSUME IInv, Return
  PROVE  IInv'
<1> USE DEF IInv, KahnInv
<1>1. /\ nodes \in Seq(URN) /\ Distinct(nodes) /\ Len(nodes) \in Nat
      /\ uncounted = {} /\ unscanned = {} /\ node = NoNode /\ queue = <<>>
      /\ references \subseteq URN \X URN
  BY DEF TypeOK, Graph, QueueExact, Return, AtLoopHead
<1>2. /\ Visited \subseteq URN
      /\ Visited = URN <=> Len(nodes) = Cardinality(URN)
  <2>1. Visited \subseteq URN
    BY <1>1, ElementOfSeq DEF Visited, Elements
  <2>2. Cardinality(Visited) = Len(nodes)
    BY <1>1, DistinctCardinality DEF Visited
  <2> QED BY <2>1, <2>2, URNAssumption, FS_Subset
<1> DEFINE at(u) == CHOOSE i \in 1 .. Len(nodes) : nodes[i] = u
<1>3. ASSUME Len(nodes) = Cardinality(URN)
      PROVE  /\ \A u \in URN : at(u) \in 1 .. Len(nodes) /\ nodes[at(u)] = u
             /\ [u \in URN |-> Len(nodes) - at(u)] \in [URN -> Nat]
  <2>1. ASSUME NEW u \in URN
        PROVE  at(u) \in 1 .. Len(nodes) /\ nodes[at(u)] = u
    <3>1. \E i \in 1 .. Len(nodes) : nodes[i] = u
      BY <1>2, <1>3 DEF Visited, Elements
    <3> QED BY <3>1
  <2> HIDE DEF at
  <2>2. \A u \in URN : Len(nodes) - at(u) \in Nat
    BY <1>1, <2>1
  <2> QED BY <2>1, <2>2
<1>4. CASE Len(nodes) = Cardinality(URN)
  <2>1. /\ outcome' = "sorted" /\ references' = references
        /\ sort_order' = [u \in URN |-> Len(nodes) - at(u)]
    BY <1>4 DEF Return, ReversedIndex
  <2> HIDE DEF at
  <2>2. \A u, v \in URN : sort_order'[u] = sort_order'[v] => u = v
    BY <1>1, <1>3, <1>4, <2>1
  <2>3. ASSUME NEW r \in references
        PROVE  sort_order'[r[2]] < sort_order'[r[1]]
    <3>1. r[1] \in URN /\ r[2] \in URN
      BY <1>1
    <3>2. PICK i \in 1 .. at(r[2]) - 1 : nodes[i] = r[1]
      BY <1>3, <1>4, <3>1 DEF DependentsFirst
    <3>3. i \in 1 .. Len(nodes) /\ i < at(r[2])
      BY <1>1, <1>3, <1>4, <3>1, <3>2
    <3>4. i = at(r[1])
      BY <1>1, <1>3, <1>4, <3>1, <3>2, <3>3 DEF Distinct
    <3> QED BY <1>1, <1>3, <1>4, <2>1, <3>1, <3>3, <3>4
  <2>4. sort_order' \in [URN -> Nat]
    BY <1>3, <1>4, <2>1
  <2>5. ASSUME NEW u \in URN, NEW k \in 0 .. sort_order'[u]
        PROVE  \E v \in URN : sort_order'[v] = k
    <3>1. sort_order'[u] = Len(nodes) - at(u) /\ at(u) \in 1 .. Len(nodes)
      BY <1>3, <1>4, <2>1
    <3>2. Len(nodes) - k \in 1 .. Len(nodes) /\ nodes[Len(nodes) - k] \in URN
      BY <1>1, <3>1, ElementOfSeq
    <3>3. at(nodes[Len(nodes) - k]) = Len(nodes) - k
      BY <1>1, <1>3, <1>4, <3>2 DEF Distinct
    <3>4. sort_order'[nodes[Len(nodes) - k]] = k
      BY <1>1, <2>1, <3>1, <3>2, <3>3
    <3> QED BY <3>2, <3>4
  <2>6. Contract!IsTopologicalOrder(sort_order', references')
    BY <2>1, <2>2, <2>3, <2>4, <2>5 DEF Contract!IsTopologicalOrder
  <2>7. ResultRight'
    BY <2>1, <2>6 DEF ResultRight
  <2>8. TypeOK'
    BY <1>4, <2>1, <2>4 DEF TypeOK, Return
  <2> QED BY <2>7, <2>8 DEF Return, LoopsInOrder, DegreesExact, QueueExact,
             DependentsFirst, Visited, Queued, Counted, Live
<1>5. CASE Len(nodes) # Cardinality(URN)
  <2>1. outcome' = "NotADAG" /\ references' = references /\ sort_order' = sort_order
    BY <1>5 DEF Return
  <2> DEFINE C == URN \ Visited
  <2>2. C # {} /\ C \in SUBSET URN
    BY <1>2, <1>5
  <2>3. ASSUME NEW u \in C
        PROVE  \E v \in C : <<v, u>> \in references
    <3>1. in_degrees[u] # 0
      BY <1>1 DEF QueueExact, Queued, Elements
    <3>2. Live(u) # {}
      BY <3>1, LiveFinite DEF DegreesExact
    <3>3. PICK r \in Counted : r[2] = u /\ (r[1] \notin Visited \/ r[1] = node)
      BY <3>2 DEF Live
    <3>4. r \in references /\ r = <<r[1], u>> /\ r[1] \in URN
      BY <1>1, <3>3 DEF Counted
    <3> QED BY <1>1, <3>3, <3>4, NoNodeAssumption
  <2>4. Contract!IsKnot(C, references)
    BY <2>2, <2>3 DEF Contract!IsKnot
  <2>5. ResultRight'
    BY <2>1, <2>2, <2>4 DEF ResultRight
  <2>6. TypeOK'
    BY <2>1 DEF TypeOK, Return
  <2> QED BY <2>5, <2>6 DEF Return, LoopsInOrder, DegreesExact, QueueExact,
             DependentsFirst, Visited, Queued, Counted, Live
<1> QED BY <1>4, <1>5

\* The inductive invariant is preserved by every step of the loops.
LEMMA NextInv == IInv /\ [Next]_vars => IInv'
<1> SUFFICES ASSUME IInv, [Next]_vars PROVE IInv'
  OBVIOUS
<1>1. ASSUME NEW r \in uncounted, CountReference(r) PROVE IInv'
  BY <1>1, CountReferenceInv
<1>2. ASSUME NEW u \in unscanned, ScanNode(u) PROVE IInv'
  BY <1>2, ScanNodeInv
<1>3. CASE GetNode
  BY <1>3, GetNodeInv
<1>4. ASSUME NEW e \in unrelaxed, RelaxEdge(e) PROVE IInv'
  BY <1>4, RelaxEdgeInv
<1>5. CASE FinishNode
  BY <1>5, FinishNodeInv
<1>6. CASE Return
  BY <1>6, ReturnInv
<1>7. CASE UNCHANGED vars
  BY <1>7 DEF vars, IInv, KahnInv, TypeOK, LoopsInOrder, DegreesExact, QueueExact,
     DependentsFirst, ResultRight, Visited, Queued, Counted, Live
<1> QED BY <1>1, <1>2, <1>3, <1>4, <1>5, <1>6, <1>7 DEF Next

-----------------------------------------------------------------------------
\* Every variable of the sort keeps its type; in particular no in-degree of
\* topological_sort ever goes below zero.
THEOREM SortTypeOK == Spec => []TypeOK
<1>1. IInv => TypeOK
  BY DEF IInv
<1> QED BY <1>1, InitInv, NextInv, PTL DEF Spec

\* At every moment the counters, the edges, the queue, the visiting order and
\* the result of topological_sort are exact, whatever the graph and whatever
\* order Python iterates its sets in.
THEOREM KahnCorrect == Spec => []KahnInv
<1>1. IInv => KahnInv
  BY DEF IInv
<1> QED BY <1>1, InitInv, NextInv, PTL DEF Spec

\* topological_sort implements what the planner relies on: it returns an order
\* in which every reference comes before what needs it, or it raises for a
\* graph that has no such order.
THEOREM SortImplementsContract == Spec => ImplementsContract
<1>1. Init => Contract!Init
  BY DEF Init, Contract!Init, Graph, Contract!Graph
<1>2. IInv /\ IInv' /\ [Next]_vars => [Contract!Next]_(Contract!vars)
  <2> SUFFICES ASSUME IInv, IInv', [Next]_vars
               PROVE  [Contract!Next]_(Contract!vars)
    OBVIOUS
  <2>1. CASE Return
    <3>1. CASE outcome' = "sorted"
      <4>1. Contract!IsTopologicalOrder(sort_order', references)
        BY <2>1, <3>1 DEF IInv, KahnInv, ResultRight, Return
      <4> QED BY <2>1, <3>1, <4>1 DEF Return, Contract!Sort, Contract!Next
    <3>2. CASE outcome' = "NotADAG"
      BY <2>1, <3>2 DEF IInv, KahnInv, ResultRight, Return, Contract!Raise, Contract!Next
    <3> QED BY <2>1, <3>1, <3>2 DEF Return
  <2>2. CASE ~Return
    <3>1. UNCHANGED <<references, outcome, sort_order>>
      BY <2>2 DEF Next, vars, CountReference, ScanNode, GetNode, RelaxEdge, FinishNode
    <3> QED BY <3>1 DEF Contract!vars
  <2> QED BY <2>1, <2>2
<1> QED BY <1>1, <1>2, InitInv, NextInv, PTL DEF Spec, ImplementsContract, Contract!Spec
=============================================================================
