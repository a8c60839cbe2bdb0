--------------------------- MODULE Planner_proofs ---------------------------
(***************************************************************************)
(* What the plans of a blueprint are made of.                              *)
(***************************************************************************)
EXTENDS Planner, SequenceTheorems, FiniteSetTheorems, WellFoundedInduction, TLAPS

-----------------------------------------------------------------------------
\* Induction and recursion over numbers, for sets and functions.

LEMMA Least ==
  ASSUME NEW S \in SUBSET Nat, S # {}
  PROVE  \E m \in S : \A x \in S : m <= x
<1> DEFINE R == {ss \in Nat \X Nat : ss[1] < ss[2]}
<1>1. IsWellFoundedOn(R, Nat)
  BY NatLessThanWellFounded DEF OpToRel
<1>2. PICK m \in S : \A y \in S : ~ (<<y, m>> \in R)
  <2> HIDE DEF R
  <2> QED
    BY <1>1, WFMin
<1>3. ASSUME NEW x \in S
      PROVE  m <= x
  <2>1. x \in Nat /\ m \in Nat /\ ~ (<<x, m>> \in R)
    BY <1>2
  <2>2. ~ (x < m)
    BY <2>1
  <2> QED
    BY <2>1, <2>2
<1> QED
  BY <1>3

LEMMA UpTo ==
  ASSUME NEW m \in Nat, NEW P, 0 \in P, \A n \in 1 .. m : n - 1 \in P => n \in P
  PROVE  0 .. m \subseteq P
<1> DEFINE B == (0 .. m) \ P
<1> SUFFICES ASSUME B # {} PROVE FALSE
  OBVIOUS
<1>1. B \in SUBSET Nat
  OBVIOUS
<1>2. PICK k \in B : \A x \in B : k <= x
  <2> HIDE DEF B
  <2> QED
    BY <1>1, Least
<1>3. k \in 1 .. m /\ k - 1 \in 0 .. m /\ k \notin P
  OBVIOUS
<1>4. k - 1 \in P
  BY <1>2, <1>3
<1> QED
  BY <1>3, <1>4

\* f iterates step, from base, m times.
Iterates(f, m, X, base, step) ==
  /\ f \in [0 .. m -> X]
  /\ f[0] = base
  /\ \A n \in 1 .. m : f[n] = step[n][f[n - 1]]

LEMMA Recursion ==
  ASSUME NEW m \in Nat, NEW X, NEW base \in X, NEW step \in [1 .. m -> [X -> X]]
  PROVE  \E f : Iterates(f, m, X, base, step)
<1> DEFINE good(f, k) == Iterates(f, k, X, base, step)
           P == {k \in 0 .. m : \E f : good(f, k)}
<1>1. 0 \in P
  <2>1. good([n \in 0 .. 0 |-> base], 0)
    BY DEF Iterates
  <2> HIDE DEF good
  <2>2. \E f : good(f, 0)
    BY <2>1
  <2> QED
    BY <2>2
<1>2. ASSUME NEW k \in 1 .. m, k - 1 \in P
      PROVE  k \in P
  <2>0. PICK f : good(f, k - 1)
    BY <1>2
  <2>1. /\ f \in [0 .. (k - 1) -> X] /\ f[0] = base
        /\ \A n \in 1 .. (k - 1) : f[n] = step[n][f[n - 1]]
    BY <2>0 DEF Iterates
  <2> DEFINE g == [n \in 0 .. k |-> IF n = k THEN step[k][f[k - 1]] ELSE f[n]]
  <2>2. f[k - 1] \in X
    BY <2>1
  <2>3. step[k][f[k - 1]] \in X
    BY <2>2
  <2>4. \A n \in 0 .. k : n # k => n \in 0 .. (k - 1) /\ g[n] = f[n]
    OBVIOUS
  <2>5. g \in [0 .. k -> X]
    BY <2>1, <2>3, <2>4
  <2>6. g[0] = base
    BY <2>1, <2>4
  <2>7. ASSUME NEW n \in 1 .. k
        PROVE  g[n] = step[n][g[n - 1]]
    <3>1. n - 1 \in 0 .. k /\ n - 1 # k /\ n \in 0 .. k
      OBVIOUS
    <3>2. g[n - 1] = f[n - 1]
      BY <2>4, <3>1
    <3>3. CASE n = k
      BY <3>1, <3>2, <3>3
    <3>4. CASE n # k
      <4>1. n \in 1 .. (k - 1)
        BY <3>4
      <4> QED
        BY <2>1, <2>4, <3>1, <3>2, <3>4, <4>1
    <3> QED
      BY <3>3, <3>4
  <2>8. good(g, k)
    BY <2>5, <2>6, <2>7 DEF Iterates
  <2> HIDE DEF good, g
  <2>9. \E h : good(h, k)
    BY <2>8
  <2> QED
    BY <2>9
<1>3. 0 .. m \subseteq P
  <2> HIDE DEF P
  <2> QED
    BY <1>1, <1>2, UpTo
<1> QED
  BY <1>3

-----------------------------------------------------------------------------
\* The sequences a plan is put together from.

\* How Only and FlattenSeq come by their results.
CollectsOnly(f, S, s, T) ==
  /\ f \in [0 .. Len(s) -> Seq(S \cap T)]
  /\ f[0] = <<>>
  /\ \A n \in 1 .. Len(s) : f[n] = IF s[n] \in T THEN Append(f[n - 1], s[n]) ELSE f[n - 1]
  /\ Only(s, T) = f[Len(s)]

Flattens(f, S, seqs) ==
  /\ f \in [0 .. Len(seqs) -> Seq(S)]
  /\ f[0] = <<>>
  /\ \A n \in 1 .. Len(seqs) : f[n] = f[n - 1] \o seqs[n]
  /\ FlattenSeq(seqs) = f[Len(seqs)]

LEMMA OnlySteps ==
  ASSUME NEW S, NEW s \in Seq(S), NEW T
  PROVE  \E f : CollectsOnly(f, S, s, T)
<1> DEFINE m == Len(s)
           X == Seq(S \cap T)
           step == [n \in 1 .. m |-> [q \in X |-> IF s[n] \in T THEN Append(q, s[n]) ELSE q]]
           only(g) == [n \in 0 .. m |->
                        IF n = 0 THEN <<>>
                        ELSE IF s[n] \in T THEN Append(g[n - 1], s[n]) ELSE g[n - 1]]
           h == CHOOSE g : g = only(g)
<1>1. m \in Nat /\ <<>> \in X /\ \A n \in 1 .. m : s[n] \in S
  BY LenProperties, ElementOfSeq, EmptySeq
<1>2. step \in [1 .. m -> [X -> X]]
  <2>1. \A n \in 1 .. m, q \in X : s[n] \in T => Append(q, s[n]) \in X
    BY <1>1, AppendProperties
  <2> QED
    BY <2>1
<1>3. PICK f : Iterates(f, m, X, <<>>, step)
  <2>1. m \in Nat /\ <<>> \in X
    BY <1>1
  <2> HIDE DEF m, X, step
  <2> QED
    BY <1>2, <2>1, Recursion
<1>4. /\ f \in [0 .. m -> X] /\ f[0] = <<>>
      /\ \A n \in 1 .. m : f[n] = step[n][f[n - 1]]
  BY <1>3 DEF Iterates
<1>5. ASSUME NEW n \in 1 .. m
      PROVE  f[n] = IF s[n] \in T THEN Append(f[n - 1], s[n]) ELSE f[n - 1]
  <2>1. n - 1 \in 0 .. m
    BY <1>1
  <2>2. f[n - 1] \in X
    BY <2>1, <1>4
  <2> QED
    BY <2>2, <1>4
<1>6. f = only(f)
  <2>1. \A n \in 0 .. m : n # 0 => n \in 1 .. m
    BY <1>1
  <2>2. ASSUME NEW n \in 0 .. m
        PROVE  f[n] = IF n = 0 THEN <<>>
                      ELSE IF s[n] \in T THEN Append(f[n - 1], s[n]) ELSE f[n - 1]
    BY <1>4, <1>5, <2>1
  <2>3. f = [n \in 0 .. m |-> f[n]]
    BY <1>4
  <2> HIDE DEF X, m
  <2> QED
    BY <2>2, <2>3
<1>7. h = only(h)
  <2> HIDE DEF only
  <2> QED
    BY <1>6
<1>8. 0 .. m \subseteq {n \in 0 .. m : h[n] = f[n]}
  <2> DEFINE P == {n \in 0 .. m : h[n] = f[n]}
  <2>1. 0 \in P
    <3> HIDE DEF h
    <3> QED
      BY <1>1, <1>4, <1>7
  <2>2. ASSUME NEW n \in 1 .. m, n - 1 \in P
        PROVE  n \in P
    <3> HIDE DEF h
    <3>1. n \in 0 .. m /\ n # 0
      BY <1>1
    <3>2. h[n] = IF s[n] \in T THEN Append(h[n - 1], s[n]) ELSE h[n - 1]
      BY <3>1, <1>7
    <3> QED
      BY <2>2, <3>1, <3>2, <1>5
  <2> HIDE DEF P
  <2> QED
    BY <1>1, <2>1, <2>2, UpTo DEF P
<1>9. Only(s, T) = h[m]
  BY DEF Only
<1>10. Only(s, T) = f[m]
  <2> HIDE DEF h
  <2> QED
    BY <1>1, <1>8, <1>9
<1> QED
  <2> HIDE DEF X, step, only, h
  <2> QED
    BY <1>4, <1>5, <1>10 DEF CollectsOnly, X

LEMMA OnlyIn ==
  ASSUME NEW S, NEW s \in Seq(S), NEW T
  PROVE  Only(s, T) \in Seq(S \cap T)
<1>1. PICK f : CollectsOnly(f, S, s, T)
  BY OnlySteps
<1>2. Len(s) \in 0 .. Len(s)
  BY LenProperties
<1> QED
  BY <1>1, <1>2 DEF CollectsOnly

LEMMA FlattenSteps ==
  ASSUME NEW S, NEW seqs \in Seq(Seq(S)), seqs # <<>>
  PROVE  \E f : Flattens(f, S, seqs)
<1> DEFINE m == Len(seqs)
           X == Seq(S)
           step == [n \in 1 .. m |-> [q \in X |-> q \o seqs[n]]]
           flat(g) == [i \in 1 .. m |-> IF i = 1 THEN seqs[i] ELSE g[i - 1] \o seqs[i]]
           h == CHOOSE g : g = flat(g)
<1>1. m \in Nat \ {0} /\ <<>> \in X /\ \A n \in 1 .. m : seqs[n] \in X
  BY LenProperties, ElementOfSeq, EmptySeq
<1>2. step \in [1 .. m -> [X -> X]]
  <2>1. \A n \in 1 .. m, q \in X : q \o seqs[n] \in X
    BY <1>1, ConcatProperties
  <2> QED
    BY <2>1
<1>3. PICK f : Iterates(f, m, X, <<>>, step)
  <2>1. m \in Nat /\ <<>> \in X
    BY <1>1
  <2> HIDE DEF m, X, step
  <2> QED
    BY <1>2, <2>1, Recursion
<1>4. /\ f \in [0 .. m -> X] /\ f[0] = <<>>
      /\ \A n \in 1 .. m : f[n] = step[n][f[n - 1]]
  BY <1>3 DEF Iterates
<1>5. ASSUME NEW n \in 1 .. m
      PROVE  f[n] = f[n - 1] \o seqs[n]
  <2>1. n - 1 \in 0 .. m
    BY <1>1
  <2>2. f[n - 1] \in X
    BY <2>1, <1>4
  <2> QED
    BY <2>2, <1>4
<1>6. f[1] = seqs[1]
  <2> HIDE DEF m, X, step
  <2>1. 1 \in 1 .. m /\ 1 - 1 = 0
    BY <1>1
  <2>2. f[1] = f[1 - 1] \o seqs[1]
    BY <2>1, <1>5
  <2>3. seqs[1] \in X
    BY <2>1, <1>1
  <2>4. <<>> \o seqs[1] = seqs[1]
    BY <2>3, ConcatEmptySeq DEF X
  <2> QED
    BY <2>1, <2>2, <2>4, <1>4
<1> DEFINE k == [i \in 1 .. m |-> f[i]]
<1>7. k = flat(k)
  <2>1. ASSUME NEW i \in 1 .. m
        PROVE  k[i] = IF i = 1 THEN seqs[i] ELSE k[i - 1] \o seqs[i]
    <3>1. CASE i = 1
      BY <3>1, <1>6
    <3>2. CASE i # 1
      <4>1. i - 1 \in 1 .. m
        BY <3>2, <1>1
      <4> QED
        BY <3>2, <4>1, <1>5
    <3> QED
      BY <3>1, <3>2
  <2>2. k = [i \in 1 .. m |-> k[i]]
    OBVIOUS
  <2> HIDE DEF k, X, m
  <2> QED
    BY <2>1, <2>2
<1>8. h = flat(h)
  <2> HIDE DEF flat
  <2> QED
    BY <1>7
<1>9. 0 .. m \subseteq {n \in 0 .. m : n = 0 \/ h[n] = f[n]}
  <2> DEFINE P == {n \in 0 .. m : n = 0 \/ h[n] = f[n]}
  <2>1. 0 \in P
    BY <1>1
  <2>2. ASSUME NEW n \in 1 .. m, n - 1 \in P
        PROVE  n \in P
    <3> HIDE DEF h, k
    <3>1. n \in 0 .. m /\ n # 0
      BY <1>1
    <3>2. h[n] = IF n = 1 THEN seqs[n] ELSE h[n - 1] \o seqs[n]
      BY <3>1, <1>8
    <3>3. CASE n = 1
      BY <3>1, <3>2, <3>3, <1>6
    <3>4. CASE n # 1
      <4>1. n - 1 # 0
        BY <3>4
      <4> QED
        BY <2>2, <3>1, <3>2, <3>4, <4>1, <1>5
    <3> QED
      BY <3>3, <3>4
  <2> HIDE DEF P
  <2> QED
    BY <1>1, <2>1, <2>2, UpTo DEF P
<1>10. FlattenSeq(seqs) = h[m]
  <2>1. Len(seqs) # 0
    BY <1>1
  <2> QED
    BY <2>1 DEF FlattenSeq
<1>11. FlattenSeq(seqs) = f[m]
  <2> HIDE DEF h
  <2> QED
    BY <1>1, <1>9, <1>10
<1> QED
  BY <1>4, <1>5, <1>11 DEF Flattens

LEMMA FlattenIn ==
  ASSUME NEW S, NEW seqs \in Seq(Seq(S))
  PROVE  FlattenSeq(seqs) \in Seq(S)
<1>1. CASE seqs = <<>>
  BY <1>1, EmptySeq DEF FlattenSeq
<1>2. CASE seqs # <<>>
  <2>1. PICK f : Flattens(f, S, seqs)
    BY <1>2, FlattenSteps
  <2>2. Len(seqs) \in 0 .. Len(seqs)
    BY LenProperties
  <2> QED
    BY <2>1, <2>2 DEF Flattens
<1> QED
  BY <1>1, <1>2

-----------------------------------------------------------------------------
\* The orders of the sort.

Ready(S, reaches, order) ==
  {u \in S \ ToSet(order) : \A v \in S : <<u, v>> \in reaches => v \in ToSet(order)}

Extend(S, reaches, orders) ==
  UNION {{Append(order, u) : u \in Ready(S, reaches, order)} : order \in orders}

Orders(f, S, reaches) ==
  /\ f \in [0 .. Cardinality(S) -> SUBSET Seq(S)]
  /\ f[0] = {<<>>}
  /\ \A n \in 1 .. Cardinality(S) : f[n] = Extend(S, reaches, f[n - 1])
  /\ SortOrders(S, reaches) = f[Cardinality(S)]

LEMMA OrdersSteps ==
  ASSUME NEW S, IsFiniteSet(S), NEW reaches
  PROVE  \E f : Orders(f, S, reaches)
<1> DEFINE m == Cardinality(S)
           X == SUBSET Seq(S)
           step == [n \in 1 .. m |-> [q \in X |-> Extend(S, reaches, q)]]
           orders(g) == [n \in 0 .. m |->
                           IF n = 0 THEN {<<>>} ELSE Extend(S, reaches, g[n - 1])]
           h == CHOOSE g : g = orders(g)
<1>1. m \in Nat /\ {<<>>} \in X
  BY FS_CardinalityType, EmptySeq
<1>2. step \in [1 .. m -> [X -> X]]
  <2>1. \A q \in X : Extend(S, reaches, q) \in X
    BY AppendProperties DEF Extend, Ready
  <2> QED
    BY <2>1
<1>3. PICK f : Iterates(f, m, X, {<<>>}, step)
  <2> HIDE DEF m, X, step
  <2> QED
    BY <1>1, <1>2, Recursion
<1>4. /\ f \in [0 .. m -> X] /\ f[0] = {<<>>}
      /\ \A n \in 1 .. m : f[n] = step[n][f[n - 1]]
  BY <1>3 DEF Iterates
<1>5. ASSUME NEW n \in 1 .. m
      PROVE  f[n] = Extend(S, reaches, f[n - 1])
  <2>1. n - 1 \in 0 .. m
    BY <1>1
  <2>2. f[n - 1] \in X
    BY <2>1, <1>4
  <2> QED
    BY <2>2, <1>4
<1>6. f = orders(f)
  <2>1. \A n \in 0 .. m : n # 0 => n \in 1 .. m
    BY <1>1
  <2>2. ASSUME NEW n \in 0 .. m
        PROVE  f[n] = IF n = 0 THEN {<<>>} ELSE Extend(S, reaches, f[n - 1])
    BY <1>4, <1>5, <2>1
  <2>3. f = [n \in 0 .. m |-> f[n]]
    BY <1>4
  <2> HIDE DEF X, m
  <2> QED
    BY <2>2, <2>3
<1>7. h = orders(h)
  <2> HIDE DEF orders
  <2> QED
    BY <1>6
<1>8. 0 .. m \subseteq {n \in 0 .. m : h[n] = f[n]}
  <2> DEFINE P == {n \in 0 .. m : h[n] = f[n]}
  <2>1. 0 \in P
    <3> HIDE DEF h
    <3> QED
      BY <1>1, <1>4, <1>7
  <2>2. ASSUME NEW n \in 1 .. m, n - 1 \in P
        PROVE  n \in P
    <3> HIDE DEF h
    <3>1. n \in 0 .. m /\ n # 0
      BY <1>1
    <3>2. h[n] = Extend(S, reaches, h[n - 1])
      BY <3>1, <1>7
    <3> QED
      BY <2>2, <3>1, <3>2, <1>5
  <2> HIDE DEF P
  <2> QED
    BY <1>1, <2>1, <2>2, UpTo DEF P
<1>9. SortOrders(S, reaches) = h[m]
  BY DEF SortOrders, Extend, Ready
<1>10. SortOrders(S, reaches) = f[m]
  <2> HIDE DEF h
  <2> QED
    BY <1>1, <1>8, <1>9
<1> QED
  <2> HIDE DEF X, step, orders, h
  <2> QED
    BY <1>4, <1>5, <1>10 DEF Orders, X

\* The order has all of S, each once, what an element needs before it.
IsOrderOf(o, S, reaches) ==
  /\ \A i, j \in 1 .. Len(o) : o[i] = o[j] => i = j
  /\ \A i \in 1 .. Len(o), v \in S : <<o[i], v>> \in reaches => \E j \in 1 .. (i - 1) : o[j] = v

LEMMA OrderExtended ==
  ASSUME NEW S, NEW reaches, NEW o \in Seq(S), IsOrderOf(o, S, reaches),
         NEW u \in Ready(S, reaches, o)
  PROVE  /\ Append(o, u) \in Seq(S) /\ Len(Append(o, u)) = Len(o) + 1
         /\ IsOrderOf(Append(o, u), S, reaches)
<1> DEFINE p == Append(o, u)
           m == Len(o)
<1>1. m \in Nat /\ o \in [1 .. m -> S] /\ DOMAIN o = 1 .. m
  BY LenProperties
<1>2. u \in S /\ \A i \in 1 .. m : o[i] # u
  BY <1>1 DEF Ready, ToSet
<1>3. \A v \in S : <<u, v>> \in reaches => \E j \in 1 .. m : o[j] = v
  BY <1>1 DEF Ready, ToSet
<1>4. /\ p \in Seq(S) /\ Len(p) = m + 1 /\ p[m + 1] = u
      /\ \A i \in 1 .. m : p[i] = o[i]
  BY <1>2, AppendProperties
<1>5. ASSUME NEW i \in 1 .. (m + 1), NEW j \in 1 .. (m + 1), p[i] = p[j]
      PROVE  i = j
  <2> HIDE DEF p, m
  <2>1. (i \in 1 .. m \/ i = m + 1) /\ (j \in 1 .. m \/ j = m + 1)
    BY <1>1
  <2>2. CASE i \in 1 .. m /\ j \in 1 .. m
    BY <1>4, <1>5, <2>2 DEF IsOrderOf, m
  <2>3. CASE i \in 1 .. m /\ j = m + 1
    BY <1>2, <1>4, <1>5, <2>3
  <2>4. CASE i = m + 1 /\ j \in 1 .. m
    BY <1>2, <1>4, <1>5, <2>4
  <2> QED
    BY <2>1, <2>2, <2>3, <2>4
<1>6. ASSUME NEW i \in 1 .. (m + 1), NEW v \in S, <<p[i], v>> \in reaches
      PROVE  \E j \in 1 .. (i - 1) : p[j] = v
  <2> HIDE DEF p, m
  <2>1. i \in 1 .. m \/ i = m + 1
    BY <1>1
  <2>2. CASE i \in 1 .. m
    <3>1. PICK j \in 1 .. (i - 1) : o[j] = v
      BY <1>4, <1>6, <2>2 DEF IsOrderOf, m
    <3>2. j \in 1 .. m
      BY <1>1, <2>2
    <3> QED
      BY <1>4, <3>1, <3>2
  <2>3. CASE i = m + 1
    <3>1. PICK j \in 1 .. m : o[j] = v
      BY <1>3, <1>4, <1>6, <2>3
    <3>2. j \in 1 .. (i - 1) /\ p[j] = v
      BY <1>1, <1>4, <2>3, <3>1
    <3> QED
      BY <3>2
  <2> QED
    BY <2>1, <2>2, <2>3
<1> QED
  <2> HIDE DEF p
  <2>1. IsOrderOf(p, S, reaches)
    BY <1>4, <1>5, <1>6 DEF IsOrderOf
  <2> QED
    BY <1>4, <2>1 DEF p

LEMMA OrderProperties ==
  ASSUME NEW S, IsFiniteSet(S), NEW reaches, NEW o \in SortOrders(S, reaches)
  PROVE  o \in Seq(S) /\ Len(o) = Cardinality(S) /\ IsOrderOf(o, S, reaches)
<1> DEFINE m == Cardinality(S)
           good(n) == {q \in Seq(S) : Len(q) = n /\ IsOrderOf(q, S, reaches)}
<1>1. PICK f : Orders(f, S, reaches)
  BY OrdersSteps
<1>2. m \in Nat
  BY FS_CardinalityType
<1>3. 0 .. m \subseteq {n \in 0 .. m : f[n] \subseteq good(n)}
  <2> DEFINE P == {n \in 0 .. m : f[n] \subseteq good(n)}
  <2>1. 0 \in P
    <3>1. <<>> \in good(0)
      BY EmptySeq DEF IsOrderOf
    <3> QED
      BY <1>1, <1>2, <3>1 DEF Orders
  <2>2. ASSUME NEW n \in 1 .. m, n - 1 \in P
        PROVE  n \in P
    <3>1. n \in 0 .. m /\ f[n] = Extend(S, reaches, f[n - 1])
      BY <1>1, <1>2 DEF Orders
    <3>2. ASSUME NEW q \in f[n]
          PROVE  q \in good(n)
      <4>1. PICK r \in f[n - 1] : \E u \in Ready(S, reaches, r) : q = Append(r, u)
        BY <3>1 DEF Extend
      <4>2. r \in Seq(S) /\ Len(r) = n - 1 /\ IsOrderOf(r, S, reaches)
        BY <2>2, <4>1
      <4> QED
        BY <4>1, <4>2, OrderExtended
    <3> QED
      BY <3>1, <3>2
  <2> HIDE DEF P
  <2> QED
    BY <1>2, <2>1, <2>2, UpTo DEF P
<1>4. o \in f[m] /\ m \in 0 .. m
  BY <1>1, <1>2 DEF Orders
<1> QED
  BY <1>3, <1>4

-----------------------------------------------------------------------------
\* What a plan is made of.

LEMMA DropsSorted ==
  ASSUME NEW C, NEW changes \in Seq(C)
  PROVE  _sort_destructive_changes(changes) \in Seq(C)
<1> DEFINE ranked(k) == Only(Reverse(changes),
                             {c \in ToSet(changes) : destructive_rank(c.urn) = k})
<1>1. Reverse(changes) \in Seq(C)
  <2>1. Len(changes) \in Nat /\ \A i \in 1 .. Len(changes) : changes[i] \in C
    BY LenProperties
  <2>2. \A i \in 1 .. Len(changes) : (Len(changes) - i) + 1 \in 1 .. Len(changes)
    BY <2>1
  <2>3. Reverse(changes) \in [1 .. Len(changes) -> C]
    BY <2>1, <2>2 DEF Reverse
  <2> QED
    BY <2>1, <2>3, SeqDef
<1>2. ASSUME NEW k
      PROVE  ranked(k) \in Seq(C)
  <2> DEFINE T == {c \in ToSet(changes) : destructive_rank(c.urn) = k}
  <2>1. Only(Reverse(changes), T) \in Seq(C \cap T)
    <3> HIDE DEF T
    <3> QED
      BY <1>1, OnlyIn
  <2> QED
    BY <2>1, SeqMonotonic
<1>3. _sort_destructive_changes(changes) = ranked(0) \o ranked(1) \o ranked(2) \o ranked(3)
  BY DEF _sort_destructive_changes
<1> HIDE DEF ranked
<1>4. ranked(0) \o ranked(1) \in Seq(C)
  BY <1>2, ConcatProperties
<1>5. ranked(0) \o ranked(1) \o ranked(2) \in Seq(C)
  BY <1>2, <1>4, ConcatProperties
<1> QED
  BY <1>2, <1>3, <1>5, ConcatProperties

LEMMA PlanIn ==
  ASSUME NEW cfg, NEW remote, NEW refs, NEW p \in Plans(cfg, remote, refs), NEW C,
         IsFiniteSet(Managed(cfg)), IsFiniteSet(DOMAIN remote),
         \A u \in Managed(cfg) : Additions(cfg, remote, u) \in Seq(C),
         \A u \in Removals(cfg, remote) : Drop(remote, u) \in C
  PROVE  p \in Seq(C)
<1> DEFINE S == Changed(cfg, remote)
<1>1. IsFiniteSet(S)
  <2>1. S \subseteq Managed(cfg) \cup DOMAIN remote
    BY DEF Changed, Removals
  <2> QED
    BY <2>1, FS_Union, FS_Subset
<1>2. PICK order \in SortOrders(S, Reaches(refs)) : p = PlanInOrder(cfg, remote, order)
  BY DEF Plans
<1>3. order \in Seq(S)
  BY <1>1, <1>2, OrderProperties
<1> DEFINE removed == Only(order, Removals(cfg, remote))
           added == Only(order, Managed(cfg))
           additions == [i \in 1 .. Len(added) |-> Additions(cfg, remote, added[i])]
           drops == [i \in 1 .. Len(removed) |-> Drop(remote, removed[i])]
<1>4. removed \in Seq(S \cap Removals(cfg, remote)) /\ added \in Seq(S \cap Managed(cfg))
  BY <1>3, OnlyIn
<1> HIDE DEF removed, added
<1>5. additions \in Seq(Seq(C))
  <2>1. Len(added) \in Nat /\ \A i \in 1 .. Len(added) : added[i] \in Managed(cfg)
    BY <1>4, LenProperties
  <2>2. additions \in [1 .. Len(added) -> Seq(C)]
    BY <2>1
  <2> QED
    BY <2>1, <2>2, SeqDef
<1>6. drops \in Seq(C)
  <2>1. Len(removed) \in Nat /\ \A i \in 1 .. Len(removed) : removed[i] \in Removals(cfg, remote)
    BY <1>4, LenProperties
  <2>2. drops \in [1 .. Len(removed) -> C]
    BY <2>1
  <2> QED
    BY <2>1, <2>2, SeqDef
<1>7. p = FlattenSeq(additions) \o _sort_destructive_changes(drops)
  BY <1>2 DEF PlanInOrder, removed, added
<1> HIDE DEF additions, drops
<1> QED
  BY <1>5, <1>6, <1>7, FlattenIn, DropsSorted, ConcatProperties

-----------------------------------------------------------------------------
\* The order of a plan.

\* Whatever comes earlier in q stands in B to what comes later.
Sorted(q, B) == \A i, j \in 1 .. Len(q) : i < j => <<q[i], q[j]>> \in B

LEMMA AppendSorted ==
  ASSUME NEW S, NEW q \in Seq(S), NEW x \in S, NEW B, Sorted(q, B),
         \A i \in 1 .. Len(q) : <<q[i], x>> \in B
  PROVE  Sorted(Append(q, x), B)
<1> DEFINE p == Append(q, x)
           m == Len(q)
<1>1. /\ m \in Nat /\ Len(p) = m + 1 /\ p[m + 1] = x
      /\ \A i \in 1 .. m : p[i] = q[i]
  BY AppendProperties, LenProperties
<1>2. ASSUME NEW i \in 1 .. (m + 1), NEW j \in 1 .. (m + 1), i < j
      PROVE  <<p[i], p[j]>> \in B
  <2> HIDE DEF p, m
  <2>1. i \in 1 .. m /\ (j \in 1 .. m \/ j = m + 1)
    BY <1>1, <1>2
  <2>2. CASE j \in 1 .. m
    BY <1>1, <1>2, <2>1, <2>2 DEF Sorted, m
  <2>3. CASE j = m + 1
    BY <1>1, <2>1, <2>3 DEF m
  <2> QED
    BY <2>1, <2>2, <2>3
<1> HIDE DEF p, m
<1>3. Sorted(p, B)
  BY <1>1, <1>2 DEF Sorted
<1> QED
  BY <1>3 DEF p

LEMMA ConcatSorted ==
  ASSUME NEW S, NEW q \in Seq(S), NEW r \in Seq(S), NEW B, Sorted(q, B), Sorted(r, B),
         \A i \in 1 .. Len(q), j \in 1 .. Len(r) : <<q[i], r[j]>> \in B
  PROVE  Sorted(q \o r, B)
<1> DEFINE p == q \o r
           m == Len(q)
           n == Len(r)
<1>1. /\ m \in Nat /\ n \in Nat /\ Len(p) = m + n
      /\ \A i \in 1 .. m : p[i] = q[i]
      /\ \A i \in (m + 1) .. (m + n) : p[i] = r[i - m]
  BY ConcatProperties, LenProperties
<1>2. ASSUME NEW i \in 1 .. (m + n), NEW j \in 1 .. (m + n), i < j
      PROVE  <<p[i], p[j]>> \in B
  <2> HIDE DEF p, m, n
  <2>1. CASE j \in 1 .. m
    <3>1. i \in 1 .. m
      BY <1>1, <1>2, <2>1
    <3> QED
      BY <1>1, <1>2, <2>1, <3>1 DEF Sorted, m
  <2>2. CASE i \in 1 .. m /\ j \in (m + 1) .. (m + n)
    <3>1. j - m \in 1 .. n
      BY <1>1, <2>2
    <3> QED
      BY <1>1, <2>2, <3>1 DEF m, n
  <2>3. CASE i \in (m + 1) .. (m + n) /\ j \in (m + 1) .. (m + n)
    <3>1. i - m \in 1 .. n /\ j - m \in 1 .. n /\ i - m < j - m
      BY <1>1, <1>2, <2>3
    <3> QED
      BY <1>1, <2>3, <3>1 DEF Sorted, n
  <2>4. \/ j \in 1 .. m
        \/ i \in 1 .. m /\ j \in (m + 1) .. (m + n)
        \/ i \in (m + 1) .. (m + n) /\ j \in (m + 1) .. (m + n)
    BY <1>1, <1>2
  <2> QED
    BY <2>1, <2>2, <2>3, <2>4
<1> HIDE DEF p, m, n
<1>3. Sorted(p, B)
  BY <1>1, <1>2 DEF Sorted
<1> QED
  BY <1>3 DEF p

LEMMA OnlySorted ==
  ASSUME NEW S, NEW s \in Seq(S), NEW T, NEW B, Sorted(s, B)
  PROVE  Sorted(Only(s, T), B)
<1>1. PICK f : CollectsOnly(f, S, s, T)
  BY OnlySteps
<1> DEFINE m == Len(s)
           good(n) == /\ \A k \in 1 .. Len(f[n]) : \E i \in 1 .. n : f[n][k] = s[i]
                      /\ Sorted(f[n], B)
           P == {n \in 0 .. m : good(n)}
<1>2. m \in Nat /\ \A i \in 1 .. m : s[i] \in S
  BY LenProperties, ElementOfSeq
<1>3. 0 \in P
  BY <1>1, <1>2 DEF CollectsOnly, Sorted
<1>4. ASSUME NEW n \in 1 .. m, n - 1 \in P
      PROVE  n \in P
  <2>1. n \in 0 .. m /\ n - 1 \in 0 .. m
    BY <1>2
  <2>2. /\ f[n - 1] \in Seq(S \cap T)
        /\ f[n] = IF s[n] \in T THEN Append(f[n - 1], s[n]) ELSE f[n - 1]
    BY <1>1, <2>1 DEF CollectsOnly
  <2>3. good(n - 1)
    BY <1>4
  <2>4. CASE s[n] \notin T
    <3>1. f[n] = f[n - 1]
      BY <2>2, <2>4
    <3>2. \A i \in 1 .. (n - 1) : i \in 1 .. n
      BY <1>2
    <3> QED
      BY <2>1, <2>3, <3>1, <3>2
  <2>5. CASE s[n] \in T
    <3> DEFINE q == f[n - 1]
    <3>1. f[n] = Append(q, s[n]) /\ q \in Seq(S \cap T) /\ s[n] \in S \cap T
      BY <1>2, <2>2, <2>5
    <3>2. \A k \in 1 .. Len(q) : \E i \in 1 .. (n - 1) : q[k] = s[i]
      BY <2>3
    <3>3. \A i \in 1 .. (n - 1) : i \in 1 .. m /\ i \in 1 .. n /\ i < n
      BY <1>2
    <3>4. \A k \in 1 .. Len(q) : <<q[k], s[n]>> \in B
      BY <3>2, <3>3 DEF Sorted
    <3>5. Sorted(q, B)
      BY <2>3
    <3> HIDE DEF q, m
    <3>6. Sorted(f[n], B)
      BY <3>1, <3>4, <3>5, AppendSorted
    <3>7. /\ Len(q) \in Nat /\ Len(f[n]) = Len(q) + 1 /\ f[n][Len(q) + 1] = s[n]
          /\ \A k \in 1 .. Len(q) : f[n][k] = q[k]
      BY <3>1, AppendProperties, LenProperties
    <3>8. \A k \in 1 .. Len(f[n]) : k \in 1 .. Len(q) \/ k = Len(q) + 1
      BY <3>7
    <3>9. ASSUME NEW k \in 1 .. Len(f[n])
          PROVE  \E i \in 1 .. n : f[n][k] = s[i]
      <4>1. CASE k \in 1 .. Len(q)
        BY <3>2, <3>3, <3>7, <4>1
      <4>2. CASE k = Len(q) + 1
        <5>1. n \in 1 .. n
          BY <1>2
        <5> QED
          BY <3>7, <4>2, <5>1
      <4> QED
        BY <3>8, <4>1, <4>2
    <3> QED
      BY <2>1, <3>6, <3>9
  <2> QED
    BY <2>4, <2>5
<1>5. m \in P
  <2>1. m \in 0 .. m
    BY <1>2
  <2> HIDE DEF P
  <2> QED
    BY <1>2, <1>3, <1>4, <2>1, UpTo
<1> QED
  BY <1>1, <1>5 DEF CollectsOnly

LEMMA FlattenSorted ==
  ASSUME NEW S, NEW seqs \in Seq(Seq(S)), NEW B,
         \A i \in 1 .. Len(seqs) : Sorted(seqs[i], B),
         \A i, j \in 1 .. Len(seqs) : i < j =>
           \A k \in 1 .. Len(seqs[i]), l \in 1 .. Len(seqs[j]) : <<seqs[i][k], seqs[j][l]>> \in B
  PROVE  Sorted(FlattenSeq(seqs), B)
<1>1. CASE seqs = <<>>
  BY <1>1 DEF FlattenSeq, Sorted
<1>2. CASE seqs # <<>>
  <2>1. PICK f : Flattens(f, S, seqs)
    BY <1>2, FlattenSteps
  <2> DEFINE m == Len(seqs)
             from(n) == \A k \in 1 .. Len(f[n]) :
                          \E i \in 1 .. n : \E l \in 1 .. Len(seqs[i]) : f[n][k] = seqs[i][l]
             P == {n \in 0 .. m : from(n) /\ Sorted(f[n], B)}
  <2>2. m \in Nat /\ \A i \in 1 .. m : seqs[i] \in Seq(S)
    BY LenProperties, ElementOfSeq
  <2>3. 0 \in P
    BY <2>1, <2>2 DEF Flattens, Sorted
  <2>4. ASSUME NEW n \in 1 .. m, n - 1 \in P
        PROVE  n \in P
    <3> DEFINE q == f[n - 1]
               r == seqs[n]
    <3>1. n \in 0 .. m /\ n - 1 \in 0 .. m /\ n \in 1 .. n
      BY <2>2
    <3>2. q \in Seq(S) /\ r \in Seq(S) /\ f[n] = q \o r
      BY <2>1, <2>2, <3>1 DEF Flattens
    <3>3. from(n - 1) /\ Sorted(q, B)
      BY <2>4
    <3>4. \A i \in 1 .. (n - 1) : i \in 1 .. m /\ i \in 1 .. n /\ i < n
      BY <2>2
    <3>5. ASSUME NEW k \in 1 .. Len(q), NEW l \in 1 .. Len(r)
          PROVE  <<q[k], r[l]>> \in B
      <4>1. PICK i \in 1 .. (n - 1) : \E x \in 1 .. Len(seqs[i]) : q[k] = seqs[i][x]
        BY <3>3
      <4> QED
        BY <3>4, <4>1
    <3>6. Sorted(r, B)
      OBVIOUS
    <3>7. Sorted(f[n], B)
      <4> HIDE DEF q, r
      <4> QED
        BY <3>2, <3>3, <3>5, <3>6, ConcatSorted
    <3>8. /\ Len(q) \in Nat /\ Len(r) \in Nat /\ Len(f[n]) = Len(q) + Len(r)
          /\ \A k \in 1 .. Len(q) : f[n][k] = q[k]
          /\ \A k \in (Len(q) + 1) .. (Len(q) + Len(r)) : f[n][k] = r[k - Len(q)]
      <4> HIDE DEF q, r
      <4> QED
        BY <3>2, ConcatProperties, LenProperties
    <3>9. ASSUME NEW k \in 1 .. Len(f[n])
          PROVE  \E i \in 1 .. n : \E l \in 1 .. Len(seqs[i]) : f[n][k] = seqs[i][l]
      <4>1. CASE k \in 1 .. Len(q)
        <5>1. PICK i \in 1 .. (n - 1) : \E l \in 1 .. Len(seqs[i]) : q[k] = seqs[i][l]
          BY <3>3, <4>1
        <5> QED
          BY <3>4, <3>8, <4>1, <5>1
      <4>2. CASE k \in (Len(q) + 1) .. (Len(q) + Len(r))
        <5>1. k - Len(q) \in 1 .. Len(r) /\ f[n][k] = r[k - Len(q)]
          <6> HIDE DEF q, r
          <6> QED
            BY <3>8, <4>2
        <5> QED
          BY <3>1, <5>1
      <4>3. k \in 1 .. Len(q) \/ k \in (Len(q) + 1) .. (Len(q) + Len(r))
        <5> HIDE DEF q, r
        <5> QED
          BY <3>8
      <4> QED
        BY <4>1, <4>2, <4>3
    <3> QED
      BY <3>1, <3>7, <3>9
  <2>5. m \in P
    <3>1. m \in 0 .. m
      BY <2>2
    <3> HIDE DEF P
    <3> QED
      BY <2>2, <2>3, <2>4, <3>1, UpTo
  <2> QED
    BY <2>1, <2>5 DEF Flattens
<1> QED
  BY <1>1, <1>2

\* How Needed comes by its result.
Nears(f, refs, u) ==
  LET m == Cardinality(Referring(refs)) IN
  /\ f[1] = Referenced(refs, {u})
  /\ \A n \in 2 .. m : f[n - 1] \subseteq f[n]
  /\ Needed(refs, u) = f[m]

LEMMA NeededSteps ==
  ASSUME NEW refs, IsFiniteSet(Referring(refs)), NEW u \in Referring(refs)
  PROVE  \E f : Nears(f, refs, u)
<1> DEFINE m == Cardinality(Referring(refs))
           X == SUBSET Referenced(refs, Referring(refs))
           base == Referenced(refs, {u})
           step == [n \in 1 .. m |->
                      [w \in X |-> IF n = 1 THEN w ELSE w \cup Referenced(refs, w)]]
           within(g) == [n \in 1 .. m |->
                           IF n = 1 THEN base
                           ELSE UNION {w \cup Referenced(refs, w) : w \in {g[n - 1]}}]
           h == CHOOSE g : g = within(g)
<1>1. m \in Nat \ {0} /\ base \in X
  <2>1. base \in X
    BY DEF Referenced, Referring
  <2> QED
    BY <2>1, FS_CardinalityType, FS_EmptySet
<1>2. step \in [1 .. m -> [X -> X]]
  <2>1. \A w \in X : w \cup Referenced(refs, w) \in X
    BY DEF Referenced, Referring
  <2> QED
    BY <2>1
<1>3. PICK f : Iterates(f, m, X, base, step)
  <2> HIDE DEF m, X, base, step
  <2> QED
    BY <1>1, <1>2, Recursion
<1>4. /\ f \in [0 .. m -> X] /\ f[0] = base
      /\ \A n \in 1 .. m : f[n] = step[n][f[n - 1]]
  BY <1>3 DEF Iterates
<1>5. ASSUME NEW n \in 1 .. m
      PROVE  f[n] = IF n = 1 THEN base ELSE f[n - 1] \cup Referenced(refs, f[n - 1])
  <2>1. n - 1 \in 0 .. m /\ (n = 1 => n - 1 = 0)
    BY <1>1
  <2>2. f[n - 1] \in X
    BY <2>1, <1>4
  <2> HIDE DEF base, X
  <2> QED
    BY <2>1, <2>2, <1>4
<1>6. \A x : UNION {w \cup Referenced(refs, w) : w \in {x}} = x \cup Referenced(refs, x)
  OBVIOUS
<1> DEFINE k == [n \in 1 .. m |-> f[n]]
<1>7. k = within(k)
  <2>1. ASSUME NEW n \in 1 .. m
        PROVE  k[n] = IF n = 1 THEN base
                      ELSE UNION {w \cup Referenced(refs, w) : w \in {k[n - 1]}}
    <3> HIDE DEF base, X
    <3>1. n # 1 => n - 1 \in 1 .. m
      BY <1>1
    <3>2. CASE n = 1
      BY <3>2, <1>5
    <3>3. CASE n # 1
      BY <3>1, <3>3, <1>5, <1>6
    <3> QED
      BY <3>2, <3>3
  <2>2. k = [n \in 1 .. m |-> k[n]]
    OBVIOUS
  <2> HIDE DEF k, X, m, base
  <2> QED
    BY <2>1, <2>2
<1>8. h = within(h)
  <2> HIDE DEF within
  <2> QED
    BY <1>7
<1>9. ASSUME NEW n \in 1 .. m
      PROVE  h[n] = IF n = 1 THEN base ELSE h[n - 1] \cup Referenced(refs, h[n - 1])
  <2>1. h[n] = IF n = 1 THEN base
               ELSE UNION {w \cup Referenced(refs, w) : w \in {h[n - 1]}}
    <3> HIDE DEF h, base, m
    <3> QED
      BY <1>8
  <2> HIDE DEF h, base
  <2> QED
    BY <2>1, <1>6
<1>10. Needed(refs, u) = h[m]
  BY DEF Needed
<1> HIDE DEF h
<1>11. 1 \in 1 .. m /\ \A n \in 2 .. m : n \in 1 .. m /\ n # 1
  BY <1>1
<1>12. Nears(h, refs, u)
  BY <1>9, <1>10, <1>11 DEF Nears
<1> QED
  BY <1>12

\* A reference is a case of reachability.
LEMMA RefsReach ==
  ASSUME NEW refs, IsFiniteSet(Referring(refs)), NEW u, NEW v, <<u, v>> \in refs
  PROVE  <<u, v>> \in Reaches(refs)
<1> DEFINE m == Cardinality(Referring(refs))
<1>1. u \in Referring(refs) /\ v \in Referenced(refs, {u})
  BY DEF Referring, Referenced
<1>2. PICK f : Nears(f, refs, u)
  BY <1>1, NeededSteps
<1>3. m \in Nat \ {0}
  BY <1>1, FS_CardinalityType, FS_EmptySet
<1> DEFINE P == {n \in 0 .. m : n = 0 \/ v \in f[n]}
<1>4. 0 \in P
  BY <1>3
<1>5. ASSUME NEW n \in 1 .. m, n - 1 \in P
      PROVE  n \in P
  <2>1. n \in 0 .. m /\ (n = 1 \/ (n \in 2 .. m /\ n - 1 # 0))
    BY <1>3
  <2> QED
    BY <1>1, <1>2, <1>5, <2>1 DEF Nears
<1>6. v \in f[m]
  <2>1. m \in 0 .. m /\ m # 0 /\ m \in Nat
    BY <1>3
  <2>2. 0 .. m \subseteq P
    <3> HIDE DEF P, m
    <3> QED
      BY <1>4, <1>5, <2>1, UpTo
  <2> QED
    BY <2>1, <2>2
<1> QED
  BY <1>1, <1>2, <1>6 DEF Nears, Reaches

\* What may come earlier in a plan than what: removals are last, nothing precedes
\* what it needs, and a URN changes hands after it is altered.
Earlier(C, reaches) ==
  {e \in C \X C : e[2].op # "drop" =>
     /\ e[1].op # "drop"
     /\ <<e[1].urn, e[2].urn>> \notin reaches
     /\ e[1].urn = e[2].urn => e[1].op = "update" /\ e[2].op = "transfer"}

\* Two sequences of one element each, one after the other.
LEMMA TwoInARow ==
  ASSUME NEW x, NEW y
  PROVE  /\ Len(<<x>> \o <<y>>) = 2
         /\ (<<x>> \o <<y>>)[1] = x
         /\ (<<x>> \o <<y>>)[2] = y
<1>1. ASSUME NEW S, NEW s \in Seq(S), NEW t \in Seq(S), Len(s) = 1, Len(t) = 1
      PROVE  Len(s \o t) = 2 /\ (s \o t)[1] = s[1] /\ (s \o t)[2] = t[1]
  <2>1. /\ Len(s \o t) = 2
        /\ \A i \in 1 .. 2 : (s \o t)[i] = IF i <= 1 THEN s[i] ELSE t[i - 1]
    BY <1>1, ConcatProperties
  <2> QED
    BY <2>1
<1>2. /\ <<x>> \in Seq({x, y}) /\ <<y>> \in Seq({x, y})
      /\ Len(<<x>>) = 1 /\ Len(<<y>>) = 1
      /\ <<x>>[1] = x /\ <<y>>[1] = y
  OBVIOUS
<1> QED
  BY <1>1, <1>2

\* Additions of one URN.
LEMMA AdditionsShape ==
  ASSUME NEW cfg, NEW remote, NEW u
  PROVE  LET s == Additions(cfg, remote, u) IN
         /\ Len(s) \in 0 .. 2
         /\ \A k \in 1 .. Len(s) : s[k].urn = u /\ s[k].op # "drop"
         /\ \A k, l \in 1 .. Len(s) : k < l => s[k].op = "update" /\ s[l].op = "transfer"
<1> DEFINE s == Additions(cfg, remote, u)
           none == <<>>
           create == <<Create(cfg, remote, u)>>
           update == <<Update(cfg, remote, u)>>
           transfer == <<Transfer(cfg, remote, u)>>
<1>1. s \in {none, create, none \o none, update \o none, none \o transfer, update \o transfer}
  BY DEF Additions
<1>2. /\ Create(cfg, remote, u).urn = u /\ Create(cfg, remote, u).op = "create"
      /\ Update(cfg, remote, u).urn = u /\ Update(cfg, remote, u).op = "update"
      /\ Transfer(cfg, remote, u).urn = u /\ Transfer(cfg, remote, u).op = "transfer"
  BY DEF Create, Update, Transfer
<1>3. CASE s \in {none, none \o none}
  BY <1>3
<1>4. CASE s = create
  BY <1>2, <1>4
<1>5. CASE s = update \o none
  BY <1>2, <1>5
<1>6. CASE s = none \o transfer
  BY <1>2, <1>6
<1>7. CASE s = update \o transfer
  <2>1. /\ Len(s) = 2
        /\ s[1] = Update(cfg, remote, u)
        /\ s[2] = Transfer(cfg, remote, u)
    BY <1>7, TwoInARow
  <2>2. ASSUME NEW t, Len(t) = 2, NEW k \in 1 .. Len(t), NEW l \in 1 .. Len(t)
        PROVE  /\ Len(t) \in 0 .. 2
               /\ k = 1 \/ k = 2
               /\ k < l => k = 1 /\ l = 2
    BY <2>2
  <2>3. Len(s) \in 0 .. 2
    BY <2>1
  <2>4. \A k \in 1 .. Len(s) : s[k].urn = u /\ s[k].op # "drop"
    BY <1>2, <2>1, <2>2
  <2>5. \A k, l \in 1 .. Len(s) :
           k < l => s[k].op = "update" /\ s[l].op = "transfer"
    BY <1>2, <2>1, <2>2
  <2> QED
    BY <2>3, <2>4, <2>5
<1> QED
  BY <1>1, <1>3, <1>4, <1>5, <1>6, <1>7

LEMMA PlanSorted ==
  ASSUME NEW cfg, NEW remote, NEW refs, NEW p \in Plans(cfg, remote, refs), NEW C,
         IsFiniteSet(Managed(cfg)), IsFiniteSet(DOMAIN remote),
         \A u \in Managed(cfg) : Additions(cfg, remote, u) \in Seq(C),
         \A u \in Removals(cfg, remote) : Drop(remote, u) \in C
  PROVE  Sorted(p, Earlier(C, Reaches(refs)))
<1> DEFINE S == Changed(cfg, remote)
           reaches == Reaches(refs)
           B == Earlier(C, reaches)
           N == {u \in S : <<u, u>> \notin reaches}
           apart == {e \in S \X S : e[1] # e[2] /\ <<e[1], e[2]>> \notin reaches}
<1>1. IsFiniteSet(S)
  <2>1. S \subseteq Managed(cfg) \cup DOMAIN remote
    BY DEF Changed, Removals
  <2> QED
    BY <2>1, FS_Union, FS_Subset
<1>2. PICK order \in SortOrders(S, reaches) : p = PlanInOrder(cfg, remote, order)
  BY DEF Plans
<1>3. order \in Seq(S) /\ IsOrderOf(order, S, reaches)
  BY <1>1, <1>2, OrderProperties
<1>4. Len(order) \in Nat /\ \A i \in 1 .. Len(order) : order[i] \in S
  BY <1>3, LenProperties, ElementOfSeq
<1>5. Sorted(order, apart)
  <2>1. ASSUME NEW i \in 1 .. Len(order), NEW j \in 1 .. Len(order), i < j
        PROVE  order[i] # order[j] /\ <<order[i], order[j]>> \notin reaches
    <3>1. order[i] # order[j]
      BY <1>3, <1>4, <2>1 DEF IsOrderOf
    <3>2. ASSUME <<order[i], order[j]>> \in reaches
          PROVE  FALSE
      <4>1. PICK k \in 1 .. (i - 1) : order[k] = order[j]
        BY <1>3, <1>4, <3>2 DEF IsOrderOf
      <4>2. k \in 1 .. Len(order) /\ k # j
        BY <1>4, <2>1
      <4> QED
        BY <1>3, <4>1, <4>2 DEF IsOrderOf
    <3> QED
      BY <3>1, <3>2
  <2> QED
    BY <1>4, <2>1 DEF Sorted
<1>6. order \in Seq(N)
  <2>1. ASSUME NEW i \in 1 .. Len(order), <<order[i], order[i]>> \in reaches
        PROVE  FALSE
    <3>1. PICK k \in 1 .. (i - 1) : order[k] = order[i]
      BY <1>3, <1>4, <2>1 DEF IsOrderOf
    <3>2. k \in 1 .. Len(order) /\ k # i
      BY <1>4
    <3> QED
      BY <1>3, <3>1, <3>2 DEF IsOrderOf
  <2>2. order \in [1 .. Len(order) -> N]
    BY <1>3, <1>4, <2>1, LenProperties
  <2> HIDE DEF N
  <2> QED
    BY <1>4, <2>2, SeqDef
<1> DEFINE removed == Only(order, Removals(cfg, remote))
           added == Only(order, Managed(cfg))
           additions == [i \in 1 .. Len(added) |-> Additions(cfg, remote, added[i])]
           drops == [i \in 1 .. Len(removed) |-> Drop(remote, removed[i])]
           D == {Drop(remote, u) : u \in Removals(cfg, remote)}
<1>7. /\ removed \in Seq(N \cap Removals(cfg, remote))
      /\ added \in Seq(N \cap Managed(cfg)) /\ Sorted(added, apart)
  BY <1>5, <1>6, OnlyIn, OnlySorted
<1> HIDE DEF removed, added
<1>8. Len(removed) \in Nat /\ \A i \in 1 .. Len(removed) : removed[i] \in Removals(cfg, remote)
  <2> HIDE DEF N
  <2> QED
    BY <1>7, LenProperties
<1>9. Len(added) \in Nat /\ \A i \in 1 .. Len(added) : added[i] \in N \cap Managed(cfg)
  BY <1>7, LenProperties
<1>10. additions \in Seq(Seq(C)) /\ Len(additions) = Len(added)
  <2>1. additions \in [1 .. Len(added) -> Seq(C)]
    BY <1>9
  <2> QED
    BY <1>9, <2>1, SeqDef
<1>11. drops \in Seq(D)
  <2>1. drops \in [1 .. Len(removed) -> D]
    BY <1>8
  <2> QED
    BY <1>8, <2>1, SeqDef
<1>12. p = FlattenSeq(additions) \o _sort_destructive_changes(drops)
  BY <1>2 DEF PlanInOrder, removed, added
<1>13. ASSUME NEW i \in 1 .. Len(added)
       PROVE  /\ additions[i] = Additions(cfg, remote, added[i])
              /\ additions[i] \in Seq(C)
              /\ Len(additions[i]) \in Nat
              /\ \A k \in 1 .. Len(additions[i]) :
                   /\ additions[i][k] \in C
                   /\ additions[i][k].urn = added[i]
                   /\ additions[i][k].op # "drop"
  <2>1. additions[i] = Additions(cfg, remote, added[i]) /\ additions[i] \in Seq(C)
    BY <1>9
  <2> HIDE DEF additions
  <2> QED
    BY <2>1, AdditionsShape, ElementOfSeq, LenProperties
<1>14. ASSUME NEW i \in 1 .. Len(added)
       PROVE  Sorted(additions[i], B)
  <2>1. <<added[i], added[i]>> \notin reaches
    BY <1>9
  <2>2. \A k, l \in 1 .. Len(additions[i]) : k < l =>
          additions[i][k].op = "update" /\ additions[i][l].op = "transfer"
    BY <1>13, AdditionsShape
  <2> HIDE DEF additions
  <2> QED
    BY <1>13, <2>1, <2>2 DEF Sorted, Earlier
<1>15. ASSUME NEW i \in 1 .. Len(added), NEW j \in 1 .. Len(added), i < j,
              NEW k \in 1 .. Len(additions[i]), NEW l \in 1 .. Len(additions[j])
       PROVE  <<additions[i][k], additions[j][l]>> \in B
  <2>1. added[i] # added[j] /\ <<added[i], added[j]>> \notin reaches
    BY <1>7, <1>15 DEF Sorted
  <2> HIDE DEF additions
  <2> QED
    BY <1>13, <2>1 DEF Earlier
<1> HIDE DEF additions, drops, B
<1> DEFINE flat == FlattenSeq(additions)
           last == _sort_destructive_changes(drops)
<1>16. Sorted(flat, B)
  BY <1>10, <1>14, <1>15, FlattenSorted
<1>17. flat \in Seq(C) /\ last \in Seq(D)
  BY <1>10, <1>11, FlattenIn, DropsSorted
<1>18. D \subseteq C /\ \A x \in D : x.op = "drop"
  BY DEF Drop
<1> HIDE DEF D, flat, last
<1>19. last \in Seq(C) /\ \A i \in 1 .. Len(last) : last[i] \in C /\ last[i].op = "drop"
  BY <1>17, <1>18, SeqMonotonic, ElementOfSeq
<1>20. \A i \in 1 .. Len(flat) : flat[i] \in C
  BY <1>17, ElementOfSeq
<1>21. Sorted(last, B)
  BY <1>19 DEF Sorted, Earlier, B
<1>22. \A i \in 1 .. Len(flat), j \in 1 .. Len(last) : <<flat[i], last[j]>> \in B
  BY <1>19, <1>20 DEF Earlier, B
<1>23. Sorted(flat \o last, B)
  BY <1>16, <1>17, <1>19, <1>21, <1>22, ConcatSorted
<1> QED
  BY <1>12, <1>23 DEF flat, last, B
=============================================================================
