---------------------------- MODULE SpindleProofs ----------------------------
(***************************************************************************)
(* Theorems about the Spindle for every graph: Kahn's algorithm and the    *)
(* execution waves compute what they promise, and the executor carries out *)
(* a saga whatever fails, is interrupted or was left by an earlier run;    *)
(* then about the work that is done with it: plans, missions, HLF scopes   *)
(* and runtimes, crews, reviews, dream cycles and gambits.                 *)
(***************************************************************************)
EXTENDS Spindle, SpindleGraph, Crew, InductionLemmas, SequenceTheorems

-----------------------------------------------------------------------------
(* InOrder picks the elements of a set from a sequence. *)

\* The equation that defines KeptUpTo.
KeptEquation(s, X, f) ==
    f = [k \in 0 .. Len(s) |->
            IF k = 0 THEN <<>>
            ELSE IF s[k] \in X THEN Append(f[k - 1], s[k]) ELSE f[k - 1]]

LEMMA KeptDefined ==
    ASSUME NEW V, NEW s \in Seq(V), NEW X
    PROVE  KeptUpTo(s, X) \in [0 .. Len(s) -> Seq(V)] /\ KeptEquation(s, X, KeptUpTo(s, X))
<1> DEFINE step == [p \in (1 .. Len(s)) \X Seq(V) |->
                       IF s[p[1]] \in X THEN Append(p[2], s[p[1]]) ELSE p[2]]
<1>1. Len(s) \in Nat /\ <<>> \in Seq(V) /\ \A k \in 1 .. Len(s) : s[k] \in V
  OBVIOUS
<1>2. ASSUME NEW k \in 1 .. Len(s), NEW x \in Seq(V)
      PROVE  step[<<k, x>>] = (IF s[k] \in X THEN Append(x, s[k]) ELSE x)
             /\ step[<<k, x>>] \in Seq(V)
  <2>1. Append(x, s[k]) \in Seq(V)
    BY <1>1
  <2>2. QED BY <2>1
<1> HIDE DEF step
<1>3. PICK f \in [0 .. Len(s) -> Seq(V)] :
         f[0] = <<>> /\ \A k \in 1 .. Len(s) : f[k] = step[<<k, f[k - 1]>>]
  <2>1. Closed(Seq(V), Len(s), step)
    BY <1>2 DEF Closed
  <2>2. \E f : Iterates(Seq(V), <<>>, Len(s), step, f)
    BY <1>1, <2>1, Recursion
  <2>3. QED BY <2>2 DEF Iterates
<1>4. ASSUME NEW k \in 0 .. Len(s), k # 0 PROVE k \in 1 .. Len(s) /\ f[k - 1] \in Seq(V)
  BY <1>1, <1>4
<1>5. \A k \in 0 .. Len(s) :
         f[k] = (IF k = 0 THEN <<>>
                 ELSE IF s[k] \in X THEN Append(f[k - 1], s[k]) ELSE f[k - 1])
  BY <1>2, <1>3, <1>4
<1>6. KeptEquation(s, X, f)
  BY <1>5 DEF KeptEquation
<1>7. KeptUpTo(s, X) = CHOOSE g : KeptEquation(s, X, g)
  BY DEF KeptUpTo, KeptEquation
<1>8. KeptEquation(s, X, KeptUpTo(s, X))
  BY <1>6, <1>7
<1>9. KeptUpTo(s, X) \in [0 .. Len(s) -> Seq(V)]
  <2> DEFINE g == KeptUpTo(s, X)
             T == {k \in Nat : k <= Len(s) => g[k] \in Seq(V)}
  <2>1. \A k \in 0 .. Len(s) :
           g[k] = (IF k = 0 THEN <<>>
                   ELSE IF s[k] \in X THEN Append(g[k - 1], s[k]) ELSE g[k - 1])
    BY <1>8 DEF KeptEquation
  <2>2. DOMAIN g = 0 .. Len(s) /\ g = [k \in 0 .. Len(s) |-> g[k]]
    BY <1>8 DEF KeptEquation
  <2> HIDE DEF g
  <2>3. 0 \in T
    <3>1. 0 \in 0 .. Len(s)
      BY <1>1
    <3>2. g[0] = <<>>
      BY <2>1, <3>1
    <3>3. QED BY <1>1, <3>2
  <2>4. ASSUME NEW k \in Nat, k \in T PROVE k + 1 \in T
    <3> SUFFICES ASSUME k + 1 <= Len(s) PROVE g[k + 1] \in Seq(V)
      OBVIOUS
    <3>1. g[k] \in Seq(V) /\ k + 1 \in 1 .. Len(s) /\ s[k + 1] \in V /\ (k + 1) - 1 = k
      BY <1>1, <2>4
    <3>2. Append(g[k], s[k + 1]) \in Seq(V)
      BY <3>1
    <3>3. g[k + 1] = (IF s[k + 1] \in X THEN Append(g[k], s[k + 1]) ELSE g[k])
      BY <2>1, <3>1
    <3>4. QED BY <3>1, <3>2, <3>3
  <2>5. Nat \subseteq T
    <3> HIDE DEF T
    <3>1. QED BY <2>3, <2>4, NatSetInduction
  <2>6. \A k \in 0 .. Len(s) : g[k] \in Seq(V)
    BY <1>1, <2>5
  <2>7. g \in [0 .. Len(s) -> Seq(V)]
    BY <2>2, <2>6
  <2>8. QED BY <2>7 DEF g
<1>10. QED BY <1>8, <1>9

LEMMA KeptSteps ==
    ASSUME NEW V, NEW s \in Seq(V), NEW X
    PROVE  /\ KeptUpTo(s, X)[0] = <<>>
           /\ \A k \in 1 .. Len(s) :
                 KeptUpTo(s, X)[k] = (IF s[k] \in X THEN Append(KeptUpTo(s, X)[k - 1], s[k])
                                      ELSE KeptUpTo(s, X)[k - 1])
<1>1. PICK f : f = KeptUpTo(s, X)
  OBVIOUS
<1>2. f = [k \in 0 .. Len(s) |->
            IF k = 0 THEN <<>>
            ELSE IF s[k] \in X THEN Append(f[k - 1], s[k]) ELSE f[k - 1]]
  BY <1>1, KeptDefined DEF KeptEquation
<1>3. f[0] = <<>> /\ \A k \in 1 .. Len(s) : f[k] = (IF s[k] \in X THEN Append(f[k - 1], s[k])
                                                      ELSE f[k - 1])
  <2>1. Len(s) \in Nat /\ 0 \in 0 .. Len(s) /\ \A k \in 1 .. Len(s) : k \in 0 .. Len(s) /\ k # 0
    OBVIOUS
  <2>2. QED BY <1>2, <2>1
<1>4. QED BY <1>1, <1>3

LEMMA InOrderPicks ==
    ASSUME NEW V, NEW s \in Seq(V), NEW X, IsInjective(s)
    PROVE  /\ InOrder(s, X) \in Seq(V)
           /\ Range(InOrder(s, X)) = Range(s) \cap X
           /\ IsInjective(InOrder(s, X))
<1>1. PICK f : f = KeptUpTo(s, X)
  OBVIOUS
<1>2. Len(s) \in Nat /\ DOMAIN s = 1 .. Len(s) /\ \A k \in 1 .. Len(s) : s[k] \in V
  OBVIOUS
<1> DEFINE Seen(k) == {s[i] : i \in 1 .. k}
           Good(k) == f[k] \in Seq(V) /\ Range(f[k]) = Seen(k) \cap X /\ IsInjective(f[k])
           T == {k \in Nat : k <= Len(s) => Good(k)}
<1>3. 0 \in T
  <2>1. f[0] = <<>>
    BY <1>1, KeptSteps
  <2>2. Seen(0) = {}
    OBVIOUS
  <2>3. Range(<<>>) = {} /\ IsInjective(<<>>) /\ <<>> \in Seq(V)
    BY DEF Range, IsInjective
  <2>4. Good(0)
    BY <2>1, <2>2, <2>3
  <2>5. QED BY <2>4
<1>4. ASSUME NEW k \in Nat, k \in T PROVE k + 1 \in T
  <2> SUFFICES ASSUME k + 1 <= Len(s) PROVE Good(k + 1)
    OBVIOUS
  <2> DEFINE x == s[k + 1]
  <2>1. Good(k) /\ k + 1 \in 1 .. Len(s) /\ (k + 1) - 1 = k /\ k <= Len(s)
    BY <1>2, <1>4
  <2>2. f[k + 1] = (IF x \in X THEN Append(f[k], x) ELSE f[k])
    BY <1>1, <2>1, KeptSteps
  <2>3. Seen(k + 1) = Seen(k) \cup {x}
    <3>1. 1 .. k + 1 = (1 .. k) \cup {k + 1}
      OBVIOUS
    <3>2. QED BY <3>1
  <2>4. x \notin Seen(k)
    <3> SUFFICES ASSUME NEW i \in 1 .. k, s[i] = x PROVE FALSE
      OBVIOUS
    <3>1. i \in DOMAIN s /\ k + 1 \in DOMAIN s /\ i # k + 1
      BY <1>2, <2>1
    <3>2. QED BY <3>1 DEF IsInjective
  <2>5. x \in V
    BY <1>2, <2>1
  <2> HIDE DEF x, Seen
  <2>6. CASE x \in X
    <3>1. Append(f[k], x) \in Seq(V) /\ Range(Append(f[k], x)) = Range(f[k]) \cup {x}
          /\ (IsInjective(f[k]) /\ x \notin Range(f[k]) => IsInjective(Append(f[k], x)))
      BY <2>1, <2>5, RangeOfAppend
    <3>2. QED BY <2>1, <2>2, <2>3, <2>4, <2>6, <3>1
  <2>7. CASE x \notin X
    BY <2>1, <2>2, <2>3, <2>7
  <2>8. QED BY <2>6, <2>7
<1>5. Nat \subseteq T
  <2> HIDE DEF T
  <2>1. QED BY <1>3, <1>4, NatSetInduction
<1>6. Good(Len(s))
  <2> HIDE DEF Good
  <2>1. QED BY <1>2, <1>5
<1>7. Seen(Len(s)) = Range(s)
  BY <1>2 DEF Range
<1>8. QED BY <1>1, <1>6, <1>7 DEF InOrder

-----------------------------------------------------------------------------
(* Kahn's algorithm. *)

\* What add_node and a check of the names make of a graph.
IsGraph(nodes, dep) ==
    /\ nodes \in Seq(Range(nodes)) /\ IsInjective(nodes)
    /\ \A n \in Range(nodes) : dep[n] \in Seq(Range(nodes))

KahnStates(R) == [degree: [R -> Int], order: Seq(R), queue: Seq(R)]

Handled(dep, s, m) == DepSet(dep, m) \cap Range(s.order)

\* A node's degree counts what it still waits for; the nodes that wait for nothing are
\* in the order or in the queue, once; and each in the order follows its dependencies.
KahnInv(nodes, dep, s) ==
    /\ IsInjective(s.order) /\ IsInjective(s.queue) /\ Range(s.order) \cap Range(s.queue) = {}
    /\ \A m \in Range(nodes) :
          /\ s.degree[m] = Len(dep[m]) - Cardinality(Handled(dep, s, m))
          /\ s.degree[m] = 0 <=> m \in Range(s.order) \cup Range(s.queue)
    /\ \A i \in DOMAIN s.order : DepSet(dep, s.order[i]) \subseteq {s.order[j] : j \in 1 .. i - 1}

LEMMA HandledCounts ==
    ASSUME NEW nodes, NEW dep, IsGraph(nodes, dep), NEW m \in Range(nodes), NEW X
    PROVE  /\ IsFiniteSet(DepSet(dep, m) \cap X) /\ Cardinality(DepSet(dep, m) \cap X) \in Nat
           /\ Len(dep[m]) \in Nat /\ Cardinality(DepSet(dep, m) \cap X) <= Len(dep[m])
           /\ Cardinality(DepSet(dep, m) \cap X) = Len(dep[m]) => DepSet(dep, m) \subseteq X
           /\ IsInjective(dep[m]) /\ DepSet(dep, m) \subseteq X =>
                 Cardinality(DepSet(dep, m) \cap X) = Len(dep[m])
<1> DEFINE D == DepSet(dep, m)
<1>1. dep[m] \in Seq(Range(nodes)) /\ Len(dep[m]) \in Nat
  BY DEF IsGraph
<1>2. IsFiniteSet(D) /\ Cardinality(D) <= Len(dep[m]) /\ Cardinality(D) \in Nat
      /\ (IsInjective(dep[m]) <=> Cardinality(D) = Len(dep[m]))
  BY <1>1, RangeCounts, FS_CardinalityType DEF DepSet
<1> HIDE DEF D
<1>3. /\ IsFiniteSet(D \cap X) /\ Cardinality(D \cap X) <= Cardinality(D)
      /\ (Cardinality(D) = Cardinality(D \cap X) => D = D \cap X)
  <2>1. D \cap X \in SUBSET D
    OBVIOUS
  <2>2. QED BY ONLY <1>2, <2>1, FS_Subset
<1>4. Cardinality(D \cap X) \in Nat
  BY <1>3, FS_CardinalityType
<1>5. Cardinality(D \cap X) = Len(dep[m]) => D \subseteq X
  BY <1>1, <1>2, <1>3, <1>4
<1>6. D \subseteq X => D \cap X = D
  OBVIOUS
<1>7. IsInjective(dep[m]) /\ D \subseteq X => Cardinality(D \cap X) = Len(dep[m])
  BY <1>2, <1>6
<1>8. Cardinality(D \cap X) <= Len(dep[m])
  BY <1>1, <1>2, <1>3, <1>4
<1>9. QED BY <1>1, <1>3, <1>4, <1>5, <1>7, <1>8 DEF D

LEMMA KahnStarts ==
    ASSUME NEW nodes, NEW dep, IsGraph(nodes, dep)
    PROVE  /\ KahnStart(nodes, dep) \in KahnStates(Range(nodes))
           /\ KahnInv(nodes, dep, KahnStart(nodes, dep))
<1> DEFINE R == Range(nodes)
           degree == [n \in R |-> Len(dep[n])]
           queue == InOrder(nodes, {n \in R : degree[n] = 0})
           s == KahnStart(nodes, dep)
<1>1. s = [degree |-> degree, order |-> <<>>, queue |-> queue]
  BY DEF KahnStart, InDegree
<1>2. queue \in Seq(R) /\ Range(queue) = {n \in R : degree[n] = 0} /\ IsInjective(queue)
  <2>1. /\ queue \in Seq(R) /\ Range(queue) = R \cap {n \in R : degree[n] = 0}
        /\ IsInjective(queue)
    BY InOrderPicks DEF IsGraph
  <2>2. QED BY <2>1
<1>3. \A n \in R : Len(dep[n]) \in Nat /\ degree[n] = Len(dep[n])
  BY HandledCounts
<1>4. degree \in [R -> Int]
  BY <1>3
<1> HIDE DEF degree, queue, s
<1>5. s \in KahnStates(R) /\ s.degree = degree /\ s.order = <<>> /\ s.queue = queue
  BY <1>1, <1>2, <1>4 DEF KahnStates
<1>6. Range(s.order) = {} /\ IsInjective(s.order)
  BY <1>5 DEF Range, IsInjective
<1>7. ASSUME NEW m \in R PROVE s.degree[m] = Len(dep[m]) - Cardinality(Handled(dep, s, m))
  <2>1. Handled(dep, s, m) = {}
    BY <1>6 DEF Handled
  <2>2. Cardinality(Handled(dep, s, m)) = 0
    BY <2>1, FS_EmptySet
  <2>3. QED BY <1>3, <1>5, <2>2
<1>8. \A i \in DOMAIN s.order : FALSE
  BY <1>5
<1>9. KahnInv(nodes, dep, s)
  BY <1>2, <1>5, <1>6, <1>7, <1>8 DEF KahnInv
<1>10. QED BY <1>5, <1>9 DEF s

LEMMA KahnSteps ==
    ASSUME NEW nodes, NEW dep, IsGraph(nodes, dep), NEW s \in KahnStates(Range(nodes)),
           KahnInv(nodes, dep, s), s.queue # <<>>
    PROVE  /\ KahnStep(nodes, dep, s) \in KahnStates(Range(nodes))
           /\ KahnInv(nodes, dep, KahnStep(nodes, dep, s))
           /\ Len(KahnStep(nodes, dep, s).order) = Len(s.order) + 1
<1> DEFINE R == Range(nodes)
           nid == Head(s.queue)
           freed == {m \in R : nid \in DepSet(dep, m)}
           degree == [m \in R |-> s.degree[m] - (IF m \in freed THEN 1 ELSE 0)]
           new == InOrder(nodes, {m \in freed : s.degree[m] = 1})
           t == KahnStep(nodes, dep, s)
<1>1. t = [degree |-> degree, order |-> Append(s.order, nid), queue |-> Tail(s.queue) \o new]
  BY DEF KahnStep, Freed
<1>2. s.degree \in [R -> Int] /\ s.order \in Seq(R) /\ s.queue \in Seq(R)
  BY DEF KahnStates
<1>3. /\ nid \in R /\ Tail(s.queue) \in Seq(R) /\ Range(s.queue) = Range(Tail(s.queue)) \cup {nid}
      /\ IsInjective(Tail(s.queue)) /\ nid \notin Range(Tail(s.queue))
  BY <1>2, RangeOfTail DEF KahnInv
<1>4. nid \notin Range(s.order) /\ s.degree[nid] = 0
  BY <1>3 DEF KahnInv
<1>5. /\ new \in Seq(R) /\ IsInjective(new) /\ Range(new) = {m \in freed : s.degree[m] = 1}
  <2>1. /\ new \in Seq(R) /\ Range(new) = R \cap {m \in freed : s.degree[m] = 1}
        /\ IsInjective(new)
    BY InOrderPicks DEF IsGraph
  <2>2. QED BY <2>1
<1>6. ASSUME NEW m \in R
      PROVE  /\ s.degree[m] \in Nat
             /\ s.degree[m] = 0 => m \notin freed
  <2>1. s.degree[m] = Len(dep[m]) - Cardinality(Handled(dep, s, m))
    BY DEF KahnInv
  <2>2. Cardinality(Handled(dep, s, m)) \in Nat /\ Len(dep[m]) \in Nat
        /\ Cardinality(Handled(dep, s, m)) <= Len(dep[m])
        /\ (Cardinality(Handled(dep, s, m)) = Len(dep[m]) => DepSet(dep, m) \subseteq Range(s.order))
    BY HandledCounts DEF Handled
  <2>3. QED BY <1>4, <2>1, <2>2
<1>7. degree \in [R -> Int]
  BY <1>2
<1> HIDE DEF nid, degree, new, t
<1>8. /\ Append(s.order, nid) \in Seq(R) /\ Range(Append(s.order, nid)) = Range(s.order) \cup {nid}
      /\ IsInjective(Append(s.order, nid))
  BY <1>2, <1>3, <1>4, RangeOfAppend DEF KahnInv
<1>9. Tail(s.queue) \o new \in Seq(R)
  BY <1>3, <1>5
<1>10. Range(Tail(s.queue) \o new) = Range(Tail(s.queue)) \cup Range(new)
  <2>1. \A v, w \in Seq(R) : Range(v \o w) = Range(v) \cup Range(w)
    BY RangeOfJoin
  <2>2. QED BY <1>3, <1>5, <2>1
<1>11. IsInjective(Tail(s.queue) \o new)
  <2>1. Range(Tail(s.queue)) \cap Range(new) = {}
    BY <1>3, <1>5 DEF KahnInv
  <2>2. QED BY ONLY <1>3, <1>5, <2>1, InjectiveJoin
<1>12. /\ t \in KahnStates(R) /\ t.degree = degree /\ t.order = Append(s.order, nid)
       /\ t.queue = Tail(s.queue) \o new
  BY <1>1, <1>7, <1>8, <1>9 DEF KahnStates
<1>13. Range(t.order) \cap Range(t.queue) = {}
  BY <1>3, <1>4, <1>5, <1>8, <1>10, <1>12 DEF KahnInv
<1>14. ASSUME NEW m \in R
       PROVE  /\ t.degree[m] = Len(dep[m]) - Cardinality(Handled(dep, t, m))
              /\ t.degree[m] = 0 <=> m \in Range(t.order) \cup Range(t.queue)
  <2>1. s.degree[m] = Len(dep[m]) - Cardinality(Handled(dep, s, m))
        /\ (s.degree[m] = 0 <=> m \in Range(s.order) \cup Range(s.queue))
    BY DEF KahnInv
  <2>2. t.degree[m] = s.degree[m] - (IF m \in freed THEN 1 ELSE 0)
    BY <1>12 DEF degree
  <2>3. IsFiniteSet(Handled(dep, s, m)) /\ Cardinality(Handled(dep, s, m)) \in Nat
        /\ Len(dep[m]) \in Nat
    BY HandledCounts DEF Handled
  <2>4. CASE m \in freed
    <3>1. Handled(dep, t, m) = Handled(dep, s, m) \cup {nid} /\ nid \notin Handled(dep, s, m)
      BY <1>4, <1>8, <1>12, <2>4 DEF Handled
    <3>2. Cardinality(Handled(dep, t, m)) = Cardinality(Handled(dep, s, m)) + 1
      BY <2>3, <3>1, FS_AddElement
    <3>3. s.degree[m] # 0 /\ s.degree[m] \in Nat
      BY <1>6, <2>4
    <3>4. t.degree[m] = 0 <=> m \in Range(new)
      BY <1>5, <2>2, <2>4, <3>3
    <3>5. m \notin Range(s.order) \cup Range(s.queue)
      BY <2>1, <3>3
    <3>6. m \in Range(t.order) \cup Range(t.queue) <=> m \in Range(new)
      BY <1>3, <1>8, <1>10, <1>12, <3>5
    <3>7. QED BY <2>1, <2>2, <2>3, <2>4, <3>2, <3>4, <3>6
  <2>5. CASE m \notin freed
    <3>1. Handled(dep, t, m) = Handled(dep, s, m)
      BY <1>8, <1>12, <2>5 DEF Handled
    <3>2. t.degree[m] = s.degree[m] /\ m \notin Range(new)
      BY <1>2, <1>5, <2>2, <2>5
    <3>3. m \in Range(t.order) \cup Range(t.queue) <=> m \in Range(s.order) \cup Range(s.queue)
      BY <1>3, <1>8, <1>10, <1>12, <3>2
    <3>4. QED BY <2>1, <3>1, <3>2, <3>3
  <2>6. QED BY <2>4, <2>5
<1>15. ASSUME NEW i \in DOMAIN t.order
       PROVE  DepSet(dep, t.order[i]) \subseteq {t.order[j] : j \in 1 .. i - 1}
  <2>1. Len(s.order) \in Nat /\ DOMAIN s.order = 1 .. Len(s.order)
        /\ i \in 1 .. Len(s.order) + 1
        /\ \A j \in 1 .. Len(s.order) : t.order[j] = s.order[j]
    BY <1>2, <1>3, <1>12
  <2>2. CASE i <= Len(s.order)
    <3>1. t.order[i] = s.order[i] /\ \A j \in 1 .. i - 1 : t.order[j] = s.order[j]
      BY <2>1, <2>2
    <3>2. DepSet(dep, s.order[i]) \subseteq {s.order[j] : j \in 1 .. i - 1}
      <4>1. i \in DOMAIN s.order
        BY <2>1, <2>2
      <4>2. QED BY <4>1 DEF KahnInv
    <3>3. QED BY <3>1, <3>2
  <2>3. CASE i = Len(s.order) + 1
    <3>1. t.order[i] = nid
      BY <1>2, <1>3, <1>12, <2>3
    <3>2. s.degree[nid] = Len(dep[nid]) - Cardinality(Handled(dep, s, nid))
      BY <1>3 DEF KahnInv
    <3>3. Cardinality(Handled(dep, s, nid)) \in Nat /\ Len(dep[nid]) \in Nat
          /\ (Cardinality(Handled(dep, s, nid)) = Len(dep[nid]) => DepSet(dep, nid) \subseteq Range(s.order))
      BY <1>3, HandledCounts DEF Handled
    <3>4. DepSet(dep, nid) \subseteq Range(s.order)
      BY <1>4, <3>2, <3>3
    <3>5. Range(s.order) = {s.order[j] : j \in 1 .. Len(s.order)}
      BY <2>1 DEF Range
    <3>6. i - 1 = Len(s.order)
      BY <2>1, <2>3
    <3>7. {s.order[j] : j \in 1 .. i - 1} = {t.order[j] : j \in 1 .. i - 1}
      BY <2>1, <3>6
    <3>8. QED BY <3>1, <3>4, <3>5, <3>6, <3>7
  <2>4. QED BY <2>1, <2>2, <2>3
<1>16. KahnInv(nodes, dep, t)
  BY <1>8, <1>11, <1>12, <1>13, <1>14, <1>15 DEF KahnInv
<1>17. Len(t.order) = Len(s.order) + 1
  BY <1>2, <1>3, <1>12
<1>18. QED BY <1>12, <1>16, <1>17 DEF t

\* The equation that defines Kahn.
KahnEquation(nodes, dep, f) ==
    f = [k \in 0 .. Len(nodes) |->
            IF k = 0 THEN KahnStart(nodes, dep)
            ELSE IF f[k - 1].queue = <<>> THEN f[k - 1]
            ELSE KahnStep(nodes, dep, f[k - 1])]

KahnGood(nodes, dep) == {s \in KahnStates(Range(nodes)) : KahnInv(nodes, dep, s)}

LEMMA KahnDefined ==
    ASSUME NEW nodes, NEW dep, IsGraph(nodes, dep)
    PROVE  KahnEquation(nodes, dep, Kahn(nodes, dep))
<1> DEFINE n == Len(nodes)
           S == KahnGood(nodes, dep)
           step == [p \in (1 .. n) \X S |->
                       IF p[2].queue = <<>> THEN p[2] ELSE KahnStep(nodes, dep, p[2])]
<1>1. n \in Nat /\ KahnStart(nodes, dep) \in S
  BY KahnStarts DEF IsGraph, KahnGood
<1>2. ASSUME NEW k \in 1 .. n, NEW s \in S
      PROVE  /\ step[<<k, s>>] = (IF s.queue = <<>> THEN s ELSE KahnStep(nodes, dep, s))
             /\ step[<<k, s>>] \in S
  <2>1. s.queue # <<>> => KahnStep(nodes, dep, s) \in S
    BY KahnSteps DEF KahnGood
  <2> HIDE DEF S
  <2>2. QED BY <2>1
<1> HIDE DEF step, S, n
<1>3. Closed(S, n, step)
  BY <1>2 DEF Closed
<1>4. \E f : Iterates(S, KahnStart(nodes, dep), n, step, f)
  BY <1>1, <1>3, Recursion
<1>5. PICK f \in [0 .. n -> S] : f[0] = KahnStart(nodes, dep)
                                 /\ \A k \in 1 .. n : f[k] = step[<<k, f[k - 1]>>]
  BY <1>4 DEF Iterates
<1>6. ASSUME NEW k \in 0 .. n, k # 0 PROVE k \in 1 .. n /\ f[k - 1] \in S
  BY <1>1, <1>6
<1>7. \A k \in 0 .. n :
         f[k] = (IF k = 0 THEN KahnStart(nodes, dep)
                 ELSE IF f[k - 1].queue = <<>> THEN f[k - 1]
                 ELSE KahnStep(nodes, dep, f[k - 1]))
  BY <1>2, <1>5, <1>6
<1>8. KahnEquation(nodes, dep, f)
  BY <1>7 DEF KahnEquation, n
<1>9. Kahn(nodes, dep) = CHOOSE g : KahnEquation(nodes, dep, g)
  BY DEF Kahn, KahnEquation
<1>10. QED BY <1>8, <1>9

LEMMA KahnRuns ==
    ASSUME NEW nodes, NEW dep, IsGraph(nodes, dep)
    PROVE  \A k \in 0 .. Len(nodes) :
              /\ Kahn(nodes, dep)[k] \in KahnGood(nodes, dep)
              /\ Kahn(nodes, dep)[k].queue = <<>> \/ Len(Kahn(nodes, dep)[k].order) = k
<1>1. PICK f : f = Kahn(nodes, dep)
  OBVIOUS
<1>2. PICK n : n = Len(nodes)
  OBVIOUS
<1>3. n \in Nat
  BY <1>2 DEF IsGraph
<1>4. \A k \in 0 .. n :
         f[k] = (IF k = 0 THEN KahnStart(nodes, dep)
                 ELSE IF f[k - 1].queue = <<>> THEN f[k - 1]
                 ELSE KahnStep(nodes, dep, f[k - 1]))
  BY <1>1, <1>2, KahnDefined DEF KahnEquation
<1> DEFINE Good(k) == f[k] \in KahnGood(nodes, dep) /\ (f[k].queue = <<>> \/ Len(f[k].order) = k)
           T == {k \in Nat : k <= n => Good(k)}
<1>5. 0 \in T
  <2>1. f[0] = KahnStart(nodes, dep)
    BY <1>3, <1>4
  <2>2. KahnStart(nodes, dep) \in KahnGood(nodes, dep)
    BY KahnStarts DEF KahnGood
  <2>3. KahnStart(nodes, dep).order = <<>>
    BY DEF KahnStart
  <2>4. QED BY <2>1, <2>2, <2>3
<1>6. ASSUME NEW k \in Nat, k \in T PROVE k + 1 \in T
  <2> SUFFICES ASSUME k + 1 <= n PROVE Good(k + 1)
    OBVIOUS
  <2>1. Good(k) /\ k + 1 \in 0 .. n /\ k + 1 # 0 /\ (k + 1) - 1 = k
    BY <1>3, <1>6
  <2>2. f[k + 1] = (IF f[k].queue = <<>> THEN f[k] ELSE KahnStep(nodes, dep, f[k]))
    BY <1>4, <2>1
  <2>3. f[k].queue # <<>> =>
           /\ KahnStep(nodes, dep, f[k]) \in KahnGood(nodes, dep)
           /\ Len(KahnStep(nodes, dep, f[k]).order) = Len(f[k].order) + 1
    BY <2>1, KahnSteps DEF KahnGood
  <2>4. QED BY <2>1, <2>2, <2>3
<1>7. Nat \subseteq T
  <2> HIDE DEF T
  <2>1. QED BY <1>5, <1>6, NatSetInduction
<1>8. \A k \in 0 .. n : Good(k)
  <2> HIDE DEF Good
  <2>1. QED BY <1>3, <1>7
<1>9. QED BY <1>1, <1>2, <1>8

\* When the loop is over, the order holds distinct nodes, each after all it depends on,
\* and every node left out waits for one.
LEMMA OrderFacts ==
    ASSUME NEW nodes, NEW dep, IsGraph(nodes, dep), NEW order, order = TopologicalOrder(nodes, dep)
    PROVE  /\ order \in Seq(Range(nodes)) /\ IsInjective(order)
           /\ \A i \in DOMAIN order : DepSet(dep, order[i]) \subseteq {order[j] : j \in 1 .. i - 1}
           /\ \A m \in Range(nodes) \ Range(order) :
                 Cardinality(DepSet(dep, m) \cap Range(order)) # Len(dep[m])
           /\ ~OrderRaises(nodes, dep) => Range(order) = Range(nodes)
<1> DEFINE R == Range(nodes)
<1>1. PICK s : s = Kahn(nodes, dep)[Len(nodes)]
  OBVIOUS
<1>2. nodes \in Seq(R) /\ Len(nodes) \in Nat
  BY DEF IsGraph
<1>3. s \in KahnGood(nodes, dep) /\ (s.queue = <<>> \/ Len(s.order) = Len(nodes))
  <2>1. Len(nodes) \in 0 .. Len(nodes)
    BY <1>2
  <2>2. QED BY <1>1, <2>1, KahnRuns
<1>4. order = s.order /\ order \in Seq(R) /\ s.queue \in Seq(R) /\ KahnInv(nodes, dep, s)
  BY <1>1, <1>3 DEF TopologicalOrder, KahnGood, KahnStates
<1>5. IsInjective(order) /\ Range(order) \cap Range(s.queue) = {} /\ Len(order) \in Nat
  BY <1>4 DEF KahnInv
<1>6. Range(order) \subseteq R
  BY <1>4 DEF Range
<1>7. IsFiniteSet(R) /\ Cardinality(R) = Len(nodes)
  BY <1>2, RangeCounts DEF IsGraph
<1>8. Cardinality(Range(order)) = Len(order)
  BY <1>4, <1>5, RangeCounts
<1>9. Len(order) = Len(nodes) => Range(order) = R
  BY <1>6, <1>7, <1>8, FS_Subset
<1>10. Range(s.queue) = {}
  <2>1. Range(s.queue) \subseteq R
    BY <1>4 DEF Range
  <2>2. s.queue = <<>> => Range(s.queue) = {}
    BY DEF Range
  <2>3. QED BY <1>3, <1>4, <1>5, <1>9, <2>1, <2>2
<1>11. ASSUME NEW m \in R \ Range(order)
       PROVE  Cardinality(DepSet(dep, m) \cap Range(order)) # Len(dep[m])
  <2>1. s.degree[m] # 0 /\ s.degree[m] = Len(dep[m]) - Cardinality(Handled(dep, s, m))
    BY <1>4, <1>10 DEF KahnInv
  <2>2. Handled(dep, s, m) = DepSet(dep, m) \cap Range(order)
    BY <1>4 DEF Handled
  <2>3. Cardinality(DepSet(dep, m) \cap Range(order)) \in Nat /\ Len(dep[m]) \in Nat
    BY HandledCounts
  <2>4. QED BY <2>1, <2>2, <2>3
<1>12. \A i \in DOMAIN order : DepSet(dep, order[i]) \subseteq {order[j] : j \in 1 .. i - 1}
  <2>1. \A i \in DOMAIN s.order : DepSet(dep, s.order[i]) \subseteq {s.order[j] : j \in 1 .. i - 1}
    BY <1>4 DEF KahnInv
  <2>2. order = s.order
    BY <1>4
  <2>3. QED BY ONLY <2>1, <2>2, Zenon
<1>13. ~OrderRaises(nodes, dep) => Range(order) = R
  BY <1>9 DEF OrderRaises
<1>14. QED BY <1>4, <1>5, <1>11, <1>12, <1>13

LEMMA OrderIsRight ==
    ASSUME NEW nodes, NEW dep, IsGraph(nodes, dep), ~OrderRaises(nodes, dep)
    PROVE  IsTopological(TopologicalOrder(nodes, dep), nodes, dep)
<1>1. PICK order : order = TopologicalOrder(nodes, dep)
  OBVIOUS
<1>2. /\ order \in Seq(Range(nodes)) /\ IsInjective(order) /\ Range(order) = Range(nodes)
      /\ \A i \in DOMAIN order : DepSet(dep, order[i]) \subseteq {order[j] : j \in 1 .. i - 1}
  BY <1>1, OrderFacts
<1>3. Len(order) = Len(nodes)
  BY <1>1 DEF OrderRaises
<1>4. ASSUME NEW i \in DOMAIN order, NEW j \in DOMAIN order, order[j] \in DepSet(dep, order[i])
      PROVE  j < i
  <2>1. PICK k \in 1 .. i - 1 : order[j] = order[k]
    BY <1>2, <1>4
  <2>2. DOMAIN order = 1 .. Len(order) /\ Len(order) \in Nat
    BY <1>2
  <2>3. k \in DOMAIN order
    BY <2>2
  <2>4. k = j
    BY <1>2, <2>1, <2>3 DEF IsInjective
  <2>5. QED BY <2>2, <2>4
<1>5. QED BY <1>1, <1>2, <1>3, <1>4 DEF IsTopological

\* A graph with a cycle has no such order: of the nodes on the cycle none can be first.
LEMMA CycleRaises ==
    ASSUME NEW nodes, NEW dep, IsGraph(nodes, dep), HasCycle(nodes, dep)
    PROVE  OrderRaises(nodes, dep)
<1> SUFFICES ASSUME ~OrderRaises(nodes, dep) PROVE FALSE
  OBVIOUS
<1>1. PICK order : order = TopologicalOrder(nodes, dep)
  OBVIOUS
<1>2. /\ order \in Seq(Range(nodes)) /\ Range(order) = Range(nodes)
      /\ \A i \in DOMAIN order : DepSet(dep, order[i]) \subseteq {order[j] : j \in 1 .. i - 1}
  BY <1>1, OrderFacts
<1>3. PICK S \in (SUBSET Range(nodes)) \ {{}} : \A n \in S : DepSet(dep, n) \cap S # {}
  BY DEF HasCycle
<1>4. Len(order) \in Nat /\ DOMAIN order = 1 .. Len(order)
  BY <1>2
<1> DEFINE T == {k \in Nat : \A i \in 1 .. k : i <= Len(order) => order[i] \notin S}
<1>5. 0 \in T
  OBVIOUS
<1>6. ASSUME NEW k \in Nat, k \in T PROVE k + 1 \in T
  <2>1. ASSUME k + 1 <= Len(order), order[k + 1] \in S PROVE FALSE
    <3>1. k + 1 \in DOMAIN order /\ (k + 1) - 1 = k
      BY <1>4, <2>1
    <3>2. DepSet(dep, order[k + 1]) \subseteq {order[j] : j \in 1 .. k}
      BY <1>2, <3>1
    <3>3. PICK d \in DepSet(dep, order[k + 1]) : d \in S
      BY <1>3, <2>1
    <3>4. PICK j \in 1 .. k : d = order[j]
      BY <3>2, <3>3
    <3>5. j <= Len(order)
      BY <1>4, <2>1
    <3>6. QED BY <1>6, <3>3, <3>4, <3>5
  <2>2. ASSUME NEW i \in 1 .. k + 1, i <= Len(order) PROVE order[i] \notin S
    <3>1. i \in 1 .. k \/ i = k + 1
      OBVIOUS
    <3>2. QED BY <1>6, <2>1, <2>2, <3>1
  <2>3. QED BY <2>2
<1>7. Nat \subseteq T
  <2> HIDE DEF T
  <2>1. QED BY <1>5, <1>6, NatSetInduction
<1>8. PICK i \in DOMAIN order : order[i] \in S
  BY <1>2, <1>3 DEF Range
<1>9. Len(order) \in T /\ i \in 1 .. Len(order) /\ i <= Len(order)
  BY <1>4, <1>7
<1>10. QED BY <1>8, <1>9

\* Where a list names each dependency once, what Kahn leaves out is a cycle.
LEMMA RaisesOnCycle ==
    ASSUME NEW nodes, NEW dep, IsGraph(nodes, dep), OrderRaises(nodes, dep),
           \A n \in Range(nodes) : IsInjective(dep[n])
    PROVE  HasCycle(nodes, dep)
<1>1. PICK order : order = TopologicalOrder(nodes, dep)
  OBVIOUS
<1>2. /\ order \in Seq(Range(nodes)) /\ IsInjective(order)
      /\ \A m \in Range(nodes) \ Range(order) :
            Cardinality(DepSet(dep, m) \cap Range(order)) # Len(dep[m])
  BY <1>1, OrderFacts
<1>3. PICK S : S = Range(nodes) \ Range(order)
  OBVIOUS
<1>4. S # {}
  <2> SUFFICES ASSUME S = {} PROVE FALSE
    OBVIOUS
  <2>1. Range(order) \subseteq Range(nodes)
    BY <1>2 DEF Range
  <2>2. Range(order) = Range(nodes)
    BY <1>3, <2>1
  <2>3. Cardinality(Range(order)) = Len(order)
    BY <1>2, RangeCounts
  <2>4. Cardinality(Range(nodes)) = Len(nodes)
    BY RangeCounts DEF IsGraph
  <2>5. QED BY <1>1, <2>2, <2>3, <2>4 DEF OrderRaises
<1>5. ASSUME NEW n \in S PROVE DepSet(dep, n) \cap S # {}
  <2>1. n \in Range(nodes) /\ Cardinality(DepSet(dep, n) \cap Range(order)) # Len(dep[n])
    BY <1>2, <1>3
  <2>2. ~(DepSet(dep, n) \subseteq Range(order))
    BY <2>1, HandledCounts
  <2>3. DepSet(dep, n) \subseteq Range(nodes)
    BY <2>1 DEF IsGraph, DepSet, Range
  <2>4. QED BY <1>3, <2>2, <2>3
<1>6. QED BY <1>3, <1>4, <1>5 DEF HasCycle

-----------------------------------------------------------------------------
(* The execution waves. *)

\* The equation that defines WavesDone.
WavesEquation(nodes, dep, f) ==
    f = [k \in 0 .. Len(nodes) |->
            IF k = 0 THEN {} ELSE {n \in Range(nodes) : Ready(dep, n, f[k - 1])}]

LEMMA WavesDefined ==
    ASSUME NEW nodes, NEW dep, IsGraph(nodes, dep)
    PROVE  WavesEquation(nodes, dep, WavesDone(nodes, dep))
<1> DEFINE n == Len(nodes)
           S == SUBSET Range(nodes)
           Next(X) == {m \in Range(nodes) : Ready(dep, m, X)}
           step == [p \in (1 .. n) \X S |-> Next(p[2])]
<1>1. n \in Nat /\ {} \in S
  BY DEF IsGraph
<1>2. ASSUME NEW k \in 1 .. n, NEW X \in S
      PROVE  step[<<k, X>>] = Next(X) /\ step[<<k, X>>] \in S
  OBVIOUS
<1> HIDE DEF step, S, n, Next
<1>3. Closed(S, n, step)
  BY <1>2 DEF Closed
<1>4. \E f : Iterates(S, {}, n, step, f)
  BY <1>1, <1>3, Recursion
<1>5. PICK f \in [0 .. n -> S] : f[0] = {} /\ \A k \in 1 .. n : f[k] = step[<<k, f[k - 1]>>]
  BY <1>4 DEF Iterates
<1>6. ASSUME NEW k \in 0 .. n, k # 0 PROVE k \in 1 .. n /\ f[k - 1] \in S
  BY <1>1, <1>6
<1>7. \A k \in 0 .. n : f[k] = (IF k = 0 THEN {} ELSE Next(f[k - 1]))
  BY <1>2, <1>5, <1>6
<1>8. WavesEquation(nodes, dep, f)
  BY <1>7 DEF WavesEquation, n, Next
<1>9. WavesDone(nodes, dep) = CHOOSE g : WavesEquation(nodes, dep, g)
  BY DEF WavesDone, WavesEquation
<1>10. QED BY <1>8, <1>9

\* The sets grow, and stay as they are once they do not.
LEMMA WavesGrow ==
    ASSUME NEW nodes, NEW dep, IsGraph(nodes, dep), NEW f, f = WavesDone(nodes, dep)
    PROVE  /\ f[0] = {}
           /\ \A k \in 1 .. Len(nodes) : f[k] = {n \in Range(nodes) : Ready(dep, n, f[k - 1])}
           /\ \A k \in 0 .. Len(nodes) : f[k] \subseteq Range(nodes)
           /\ \A i, k \in 0 .. Len(nodes) : i <= k => f[i] \subseteq f[k]
<1>1. PICK n : n = Len(nodes)
  OBVIOUS
<1>2. n \in Nat
  BY <1>1 DEF IsGraph
<1>3. \A k \in 0 .. n : f[k] = (IF k = 0 THEN {} ELSE {m \in Range(nodes) : Ready(dep, m, f[k - 1])})
  <2>1. WavesEquation(nodes, dep, f)
    BY WavesDefined
  <2>2. f = [k \in 0 .. n |-> IF k = 0 THEN {} ELSE {m \in Range(nodes) : Ready(dep, m, f[k - 1])}]
    BY ONLY <1>1, <2>1 DEF WavesEquation
  <2>3. QED BY ONLY <2>2
<1>4. f[0] = {} /\ \A k \in 1 .. n : f[k] = {m \in Range(nodes) : Ready(dep, m, f[k - 1])}
  <2>1. 0 \in 0 .. n /\ \A k \in 1 .. n : k \in 0 .. n /\ k # 0
    BY <1>2
  <2>2. QED BY <1>3, <2>1
<1>5. \A k \in 0 .. n : f[k] \subseteq Range(nodes)
  BY <1>3
<1> DEFINE T == {k \in Nat : k + 1 <= n => f[k] \subseteq f[k + 1]}
<1>6. 0 \in T
  BY <1>4
<1>7. ASSUME NEW k \in Nat, k \in T PROVE k + 1 \in T
  <2> SUFFICES ASSUME (k + 1) + 1 <= n PROVE f[k + 1] \subseteq f[(k + 1) + 1]
    OBVIOUS
  <2>1. f[k] \subseteq f[k + 1]
    BY <1>2, <1>7
  <2>2. /\ k + 1 \in 1 .. n /\ (k + 1) - 1 = k
        /\ (k + 1) + 1 \in 1 .. n /\ ((k + 1) + 1) - 1 = k + 1
    BY <1>2
  <2>3. /\ f[k + 1] = {m \in Range(nodes) : Ready(dep, m, f[k])}
        /\ f[(k + 1) + 1] = {m \in Range(nodes) : Ready(dep, m, f[k + 1])}
    BY <1>4, <2>2
  <2>4. QED BY <2>1, <2>3 DEF Ready
<1>8. \A k \in Nat : k + 1 <= n => f[k] \subseteq f[k + 1]
  <2>1. Nat \subseteq T
    <3> HIDE DEF T
    <3>1. QED BY <1>6, <1>7, NatSetInduction
  <2>2. QED BY <2>1
<1>9. ASSUME NEW i \in 0 .. n, NEW k \in 0 .. n, i <= k PROVE f[i] \subseteq f[k]
  <2> DEFINE U == {j \in Nat : i + j <= n => f[i] \subseteq f[i + j]}
  <2>1. 0 \in U
    <3>1. i + 0 = i
      BY <1>2
    <3>2. QED BY <3>1
  <2>2. ASSUME NEW j \in Nat, j \in U PROVE j + 1 \in U
    <3> SUFFICES ASSUME i + (j + 1) <= n PROVE f[i] \subseteq f[i + (j + 1)]
      OBVIOUS
    <3>1. f[i] \subseteq f[i + j]
      BY <1>2, <2>2
    <3>2. i + j \in Nat /\ (i + j) + 1 = i + (j + 1) /\ (i + j) + 1 <= n
      BY <1>2
    <3>3. f[i + j] \subseteq f[i + (j + 1)]
      BY <1>8, <3>2
    <3>4. QED BY <3>1, <3>3
  <2>3. Nat \subseteq U
    <3> HIDE DEF U
    <3>1. QED BY <2>1, <2>2, NatSetInduction
  <2>4. k - i \in Nat /\ i + (k - i) = k /\ k <= n
    BY <1>2, <1>9
  <2>5. k - i \in U
    BY <2>3, <2>4
  <2>6. QED BY <2>4, <2>5
<1>10. QED BY <1>1, <1>4, <1>5, <1>9

\* There are as many waves as steps in which the set grows, and those come first.
LEMMA WavesCounted ==
    ASSUME NEW nodes, NEW dep, IsGraph(nodes, dep), NEW f, f = WavesDone(nodes, dep)
    PROVE  /\ WaveCount(nodes, dep) \in 0 .. Len(nodes)
           /\ \A k \in 1 .. Len(nodes) : f[k] # f[k - 1] <=> k <= WaveCount(nodes, dep)
<1>1. PICK n : n = Len(nodes)
  OBVIOUS
<1>2. n \in Nat
  BY <1>1 DEF IsGraph
<1>3. \A k \in 1 .. n : f[k] = {m \in Range(nodes) : Ready(dep, m, f[k - 1])}
  BY <1>1, WavesGrow
<1> DEFINE Until(m, c) == c \in 0 .. m /\ \A k \in 1 .. m : f[k] # f[k - 1] <=> k <= c
           T == {m \in Nat : m <= n => \E c : Until(m, c)}
<1>4. 0 \in T
  <2>1. Until(0, 0)
    OBVIOUS
  <2>2. QED BY <2>1
<1>5. ASSUME NEW m \in Nat, m \in T PROVE m + 1 \in T
  <2> SUFFICES ASSUME m + 1 <= n PROVE \E c : Until(m + 1, c)
    OBVIOUS
  <2>1. PICK c : Until(m, c)
    BY <1>2, <1>5
  <2>2. c \in Nat /\ c <= m /\ \A k \in 1 .. m + 1 : k \in 1 .. m \/ k = m + 1
    BY <2>1
  <2>3. CASE f[m + 1] = f[(m + 1) - 1]
    <3>1. Until(m + 1, c)
      BY <2>1, <2>2, <2>3
    <3>2. QED BY <3>1
  <2>4. CASE f[m + 1] # f[(m + 1) - 1]
    <3>1. c = m
      <4> SUFFICES ASSUME c # m PROVE FALSE
        OBVIOUS
      <4>1. m \in 1 .. m /\ ~(m <= c) /\ m \in 1 .. n /\ m + 1 \in 1 .. n /\ (m + 1) - 1 = m
        BY <1>2, <2>2
      <4>2. f[m] = f[m - 1]
        BY <2>1, <4>1
      <4>3. f[m + 1] = {x \in Range(nodes) : Ready(dep, x, f[m])}
        BY <1>3, <4>1
      <4>4. f[m] = {x \in Range(nodes) : Ready(dep, x, f[m - 1])}
        BY <1>3, <4>1
      <4>5. f[m + 1] = f[m]
        BY <4>2, <4>3, <4>4
      <4>6. QED BY <2>4, <4>1, <4>5
    <3>2. Until(m + 1, m + 1)
      BY <2>1, <2>2, <2>4, <3>1
    <3>3. QED BY <3>2
  <2>5. QED BY <2>3, <2>4
<1>6. Nat \subseteq T
  <2> HIDE DEF T
  <2>1. QED BY <1>4, <1>5, NatSetInduction
<1>7. PICK c : Until(n, c)
  BY <1>2, <1>6
<1>8. {k \in 1 .. n : f[k] # f[k - 1]} = 1 .. c
  BY <1>2, <1>7
<1>9. Cardinality(1 .. c) = c
  <2>1. c \in Nat /\ Cardinality(1 .. c) = (IF 1 > c THEN 0 ELSE c - 1 + 1)
    BY <1>2, <1>7, FS_Interval
  <2>2. QED BY <2>1
<1>10. WaveCount(nodes, dep) = c
  BY <1>1, <1>8, <1>9 DEF WaveCount
<1>11. QED BY <1>1, <1>7, <1>10

\* What ExecutionWaves promises of an acyclic graph.
AreLayers(nodes, dep, w) ==
    /\ w \in Seq(SUBSET Range(nodes))
    /\ UNION Range(w) = Range(nodes)
    /\ \A i, j \in DOMAIN w : i # j => w[i] \cap w[j] = {}
    /\ \A i \in DOMAIN w : \A n \in w[i] :
          /\ \A j \in DOMAIN w : j >= i => DepSet(dep, n) \cap w[j] = {}
          /\ i > 1 => DepSet(dep, n) \cap w[i - 1] # {}

LEMMA WaveFacts ==
    ASSUME NEW nodes, NEW dep, IsGraph(nodes, dep), ~HasCycle(nodes, dep), NEW w,
           w = ExecutionWaves(nodes, dep)
    PROVE  AreLayers(nodes, dep, w)
<1> DEFINE R == Range(nodes)
<1>1. PICK f : f = WavesDone(nodes, dep)
  OBVIOUS
<1>2. PICK L : L = Len(nodes)
  OBVIOUS
<1>3. PICK c : c = WaveCount(nodes, dep)
  OBVIOUS
<1>4. L \in Nat /\ c \in 0 .. L /\ \A k \in 1 .. L : f[k] # f[k - 1] <=> k <= c
  BY <1>1, <1>2, <1>3, WavesCounted DEF IsGraph
<1>5. w = [k \in 1 .. c |-> f[k] \ f[k - 1]]
  BY <1>1, <1>3 DEF ExecutionWaves
<1>6. f[0] = {} /\ \A k \in 0 .. L : f[k] \subseteq R
  BY <1>1, <1>2, WavesGrow
<1>7. \A k \in 1 .. L : f[k] = {n \in R : Ready(dep, n, f[k - 1])}
  BY <1>1, <1>2, WavesGrow
<1>8. \A i, k \in 0 .. L : i <= k => f[i] \subseteq f[k]
  BY <1>1, <1>2, WavesGrow
<1>9. \A k \in 1 .. c : k \in 0 .. L /\ k - 1 \in 0 .. L /\ k \in 1 .. L
  BY <1>4
<1>10. w \in Seq(SUBSET R) /\ DOMAIN w = 1 .. c
  <2>1. \A k \in 1 .. c : f[k] \ f[k - 1] \in SUBSET R
    BY <1>6, <1>9
  <2>2. c \in Nat
    BY <1>4
  <2>3. w \in [1 .. c -> SUBSET R]
    BY <1>5, <2>1
  <2>4. QED BY <2>2, <2>3
<1>11. ASSUME NEW i \in 1 .. c, NEW j \in 1 .. c, i < j PROVE w[i] \cap w[j] = {}
  <2>1. w[i] = f[i] \ f[i - 1] /\ w[j] = f[j] \ f[j - 1]
    BY <1>5
  <2>2. i <= j - 1 /\ i \in 0 .. L /\ j - 1 \in 0 .. L
    BY <1>4, <1>9, <1>11
  <2>3. f[i] \subseteq f[j - 1]
    BY <1>8, <2>2
  <2>4. QED BY <2>1, <2>3
<1>12. \A i, j \in 1 .. c : i # j => w[i] \cap w[j] = {}
  <2>1. \A i, j \in 1 .. c : i # j => i < j \/ j < i
    OBVIOUS
  <2>2. QED BY <1>11, <2>1
<1>13. ASSUME NEW i \in 1 .. c, NEW n \in w[i]
       PROVE  /\ \A j \in 1 .. c : j >= i => DepSet(dep, n) \cap w[j] = {}
              /\ i > 1 => DepSet(dep, n) \cap w[i - 1] # {}
  <2>1. n \in f[i] /\ n \notin f[i - 1]
    BY <1>5, <1>13
  <2>2. n \in R /\ DepSet(dep, n) \subseteq f[i - 1]
    BY <1>7, <1>9, <2>1 DEF Ready
  <2>3. ASSUME NEW j \in 1 .. c, j >= i PROVE DepSet(dep, n) \cap w[j] = {}
    <3>1. i - 1 <= j - 1 /\ i - 1 \in 0 .. L /\ j - 1 \in 0 .. L
      BY <1>9, <2>3
    <3>2. f[i - 1] \subseteq f[j - 1]
      BY <1>8, <3>1
    <3>3. w[j] = f[j] \ f[j - 1]
      BY <1>5
    <3>4. QED BY <2>2, <3>2, <3>3
  <2>4. ASSUME i > 1 PROVE DepSet(dep, n) \cap w[i - 1] # {}
    <3>1. i - 1 \in 1 .. c
      BY <1>4, <2>4
    <3>2. f[i - 1] = {m \in R : Ready(dep, m, f[(i - 1) - 1])}
      BY <1>7, <1>9, <3>1
    <3>3. PICK d \in DepSet(dep, n) : d \notin f[(i - 1) - 1]
      BY <2>1, <2>2, <3>2 DEF Ready
    <3>4. d \in f[i - 1]
      BY <2>2
    <3>5. w[i - 1] = f[i - 1] \ f[(i - 1) - 1]
      BY <1>5, <3>1
    <3>6. QED BY <3>3, <3>4, <3>5
  <2>5. QED BY <2>3, <2>4

<1>14. f[c] = R
  <2>1. f[c] \subseteq R
    BY <1>4, <1>6
  <2>2. CASE c < L
    <3>1. c + 1 \in 1 .. L /\ ~(c + 1 <= c) /\ (c + 1) - 1 = c
      BY <1>4, <2>2
    <3>2. f[c] = {n \in R : Ready(dep, n, f[c])}
      BY <1>4, <1>7, <3>1
    <3>3. PICK S : S = R \ f[c]
      OBVIOUS
    <3>4. ASSUME NEW n \in S PROVE DepSet(dep, n) \cap S # {}
      <4>1. n \in R /\ n \notin f[c]
        BY <3>3
      <4>2. ~(DepSet(dep, n) \subseteq f[c])
        BY <3>2, <4>1 DEF Ready
      <4>3. DepSet(dep, n) \subseteq R
        BY <4>1 DEF IsGraph, DepSet, Range
      <4>4. QED BY <3>3, <4>2, <4>3
    <3>5. S = {}
      BY <3>3, <3>4 DEF HasCycle
    <3>6. QED BY <2>1, <3>3, <3>5
  <2>3. CASE c = L
    <3>1. IsFiniteSet(R) /\ Cardinality(R) = L
      BY <1>2, RangeCounts DEF IsGraph
    <3> DEFINE T == {k \in Nat : k <= L => Cardinality(f[k]) >= k}
    <3>2. 0 \in T
      BY <1>6, FS_EmptySet
    <3>3. ASSUME NEW k \in Nat, k \in T PROVE k + 1 \in T
      <4> SUFFICES ASSUME k + 1 <= L PROVE Cardinality(f[k + 1]) >= k + 1
        OBVIOUS
      <4>1. k + 1 \in 1 .. L /\ (k + 1) - 1 = k /\ k \in 0 .. L /\ k + 1 \in 0 .. L /\ k <= k + 1
        BY <1>4
      <4>2. f[k] \subseteq f[k + 1] /\ f[k + 1] \subseteq R
        BY <1>6, <1>8, <4>1
      <4>3. f[k] # f[k + 1]
        BY <1>4, <2>3, <4>1
      <4>4. IsFiniteSet(f[k + 1]) /\ IsFiniteSet(f[k])
        BY <3>1, <4>2, FS_Subset
      <4>5. Cardinality(f[k]) \in Nat /\ Cardinality(f[k + 1]) \in Nat
        BY <4>4, FS_CardinalityType
      <4>6. Cardinality(f[k]) <= Cardinality(f[k + 1])
            /\ (Cardinality(f[k]) = Cardinality(f[k + 1]) => f[k + 1] = f[k])
        BY <4>2, <4>4, FS_Subset
      <4>7. Cardinality(f[k]) >= k
        BY <1>4, <3>3
      <4>8. QED BY <4>3, <4>5, <4>6, <4>7
    <3>4. Nat \subseteq T
      <4> HIDE DEF T
      <4>1. QED BY <3>2, <3>3, NatSetInduction
    <3>5. Cardinality(f[c]) >= L
      BY <1>4, <2>3, <3>4
    <3>6. IsFiniteSet(f[c]) /\ Cardinality(f[c]) <= Cardinality(R)
          /\ (Cardinality(f[c]) = Cardinality(R) => f[c] = R)
      BY <2>1, <3>1, FS_Subset
    <3>7. Cardinality(f[c]) \in Nat
      BY <3>6, FS_CardinalityType
    <3>8. QED BY <1>4, <3>1, <3>5, <3>6, <3>7
  <2>4. QED BY <1>4, <2>2, <2>3
<1>15. \A k \in 0 .. c : UNION {w[i] : i \in 1 .. k} = f[k]
  <2> DEFINE T == {k \in Nat : k <= c => UNION {w[i] : i \in 1 .. k} = f[k]}
  <2>1. 0 \in T
    BY <1>6
  <2>2. ASSUME NEW k \in Nat, k \in T PROVE k + 1 \in T
    <3> SUFFICES ASSUME k + 1 <= c PROVE UNION {w[i] : i \in 1 .. k + 1} = f[k + 1]
      OBVIOUS
    <3>1. k + 1 \in 1 .. c /\ (k + 1) - 1 = k /\ k \in 0 .. L /\ k + 1 \in 0 .. L /\ k <= c
      BY <1>4
    <3>2. w[k + 1] = f[k + 1] \ f[k]
      BY <1>5, <3>1
    <3>3. f[k] \subseteq f[k + 1]
      BY <1>8, <3>1
    <3>4. 1 .. k + 1 = (1 .. k) \cup {k + 1}
      OBVIOUS
    <3>5. UNION {w[i] : i \in 1 .. k + 1} = (UNION {w[i] : i \in 1 .. k}) \cup w[k + 1]
      BY ONLY <3>4
    <3>6. UNION {w[i] : i \in 1 .. k} = f[k]
      BY <2>2, <3>1
    <3>7. QED BY <3>2, <3>3, <3>5, <3>6
  <2>3. Nat \subseteq T
    <3> HIDE DEF T
    <3>1. QED BY <2>1, <2>2, NatSetInduction
  <2>4. QED BY <1>4, <2>3
<1>16. UNION Range(w) = R
  <2>1. Range(w) = {w[i] : i \in 1 .. c}
    BY <1>10 DEF Range
  <2>2. c \in 0 .. c
    BY <1>4
  <2>3. QED BY <1>14, <1>15, <2>1, <2>2
<1>17. QED BY <1>10, <1>12, <1>13, <1>16 DEF AreLayers

-----------------------------------------------------------------------------
(* Every graph a client can build. *)

GraphInv ==
    /\ ids \in Seq(NodeIds) /\ IsInjective(ids)
    /\ dependsOn \in [NodeIds -> Seq(NodeIds)]

LEMMA GraphStarts == GraphInit => GraphInv
<1> SUFFICES ASSUME GraphInit PROVE GraphInv
  OBVIOUS
<1>1. <<>> \in Seq(NodeIds) /\ IsInjective(<<>>)
  BY DEF IsInjective
<1>2. QED BY <1>1 DEF GraphInit, GraphInv

LEMMA GraphSteps == GraphInv /\ [GraphNext]_sgVars => GraphInv'
<1> SUFFICES ASSUME GraphInv, [GraphNext]_sgVars PROVE GraphInv'
  OBVIOUS
<1>1. ASSUME NEW n \in NodeIds, NEW deps \in DepLists, AddNode(n, deps)
      PROVE  GraphInv'
  <2>1. ids \in Seq(NodeIds) /\ IsInjective(ids) /\ dependsOn \in [NodeIds -> Seq(NodeIds)]
    BY DEF GraphInv
  <2>2. ids' \in Seq(NodeIds) /\ IsInjective(ids')
    BY <1>1, <2>1, RangeOfAppend DEF AddNode
  <2>3. deps \in Seq(NodeIds)
    BY MaxDepsAssumption DEF DepLists
  <2>4. dependsOn' \in [NodeIds -> Seq(NodeIds)]
    BY <1>1, <2>1, <2>3 DEF AddNode
  <2>5. QED BY <2>2, <2>4 DEF GraphInv
<1>2. CASE UNCHANGED sgVars
  BY <1>2 DEF sgVars, GraphInv
<1>3. QED BY <1>1, <1>2 DEF GraphNext

LEMMA GraphsHaveOrders ==
    ASSUME GraphInv, DepsKnown(ids, dependsOn)
    PROVE  /\ IsGraph(ids, dependsOn) /\ OrderIsTopological /\ CycleFound /\ WavesAreLayers
<1>1. IsGraph(ids, dependsOn)
  <2>1. ids \in Seq(NodeIds) /\ IsInjective(ids) /\ dependsOn \in [NodeIds -> Seq(NodeIds)]
    BY DEF GraphInv
  <2>2. ids \in Seq(Range(ids))
    BY <2>1, SequenceOfRange
  <2>3. ASSUME NEW n \in Range(ids) PROVE dependsOn[n] \in Seq(Range(ids))
    <3>1. n \in NodeIds
      BY <2>1 DEF Range
    <3>2. dependsOn[n] \in Seq(NodeIds) /\ Range(dependsOn[n]) \subseteq Range(ids)
      BY <2>1, <3>1 DEF DepsKnown, DepSet
    <3>3. QED BY <3>2, SequenceOfRange
  <2>4. QED BY <2>1, <2>2, <2>3 DEF IsGraph
<1>2. OrderIsTopological
  BY <1>1, OrderIsRight DEF OrderIsTopological
<1>3. CycleFound
  <2>1. Range(ids) \subseteq NodeIds
    BY DEF GraphInv, Range
  <2>2. QED BY <1>1, <2>1, CycleRaises, RaisesOnCycle DEF CycleFound
<1>4. WavesAreLayers
  <2> SUFFICES ASSUME ~HasCycle(ids, dependsOn), NEW w, w = ExecutionWaves(ids, dependsOn)
               PROVE  /\ UNION Range(w) = Range(ids)
                      /\ \A j \in DOMAIN w : \A n \in w[j] :
                            /\ \A k \in DOMAIN w : k >= j => DepSet(dependsOn, n) \cap w[k] = {}
                            /\ j > 1 => DepSet(dependsOn, n) \cap w[j - 1] # {}
    BY DEF WavesAreLayers
  <2>1. AreLayers(ids, dependsOn, w)
    BY <1>1, WaveFacts
  <2>2. QED BY ONLY <2>1 DEF AreLayers
<1>5. QED BY <1>1, <1>2, <1>3, <1>4

\* The order is topological, a cycle is always found, and the waves are layers, in
\* whatever order a client adds its nodes.
THEOREM OrdersRight == GraphSpec => []OrdersAreRight
<1>1. GraphInv => OrdersAreRight
  BY GraphsHaveOrders DEF OrdersAreRight, OrderIsTopological, CycleFound, WavesAreLayers
<1>2. QED BY <1>1, GraphStarts, GraphSteps, PTL DEF GraphSpec

-----------------------------------------------------------------------------
(* Plans: layers of nodes that do not depend on their own or on later layers. *)

Layered(dep, w) ==
    /\ w \in Seq(SUBSET Nodes)
    /\ \A i, j \in DOMAIN w : i # j => w[i] \cap w[j] = {}
    /\ \A i, j \in DOMAIN w : j >= i => \A n \in w[i] : DepSet(dep, n) \cap w[j] = {}

\* A node by node plan has layers of one node.
Singles(s) == [i \in DOMAIN s |-> {s[i]}]

\* The first layer, and what is left without it.
LEMMA LayersAdvance ==
    ASSUME NEW dep, NEW w, Layered(dep, w), w # <<>>
    PROVE  /\ Layered(dep, Tail(w))
           /\ UNION Range(w) = Head(w) \cup (UNION Range(Tail(w)))
           /\ Head(w) \cap (UNION Range(Tail(w))) = {}
           /\ Head(w) \subseteq Nodes
           /\ \A n \in Head(w) : DepSet(dep, n) \cap (UNION Range(w)) = {}
<1>1. w \in Seq(SUBSET Nodes)
  BY DEF Layered
<1>2. /\ 1 \in DOMAIN w /\ Head(w) = w[1] /\ Tail(w) \in Seq(SUBSET Nodes)
      /\ DOMAIN w = 1 .. Len(w) /\ DOMAIN Tail(w) = 1 .. Len(w) - 1 /\ Len(w) \in Nat
      /\ \A i \in DOMAIN Tail(w) : Tail(w)[i] = w[i + 1] /\ i + 1 \in DOMAIN w /\ i + 1 # 1
  BY <1>1
<1>3. Layered(dep, Tail(w))
  <2>1. ASSUME NEW i \in DOMAIN Tail(w), NEW j \in DOMAIN Tail(w)
        PROVE  /\ i # j => Tail(w)[i] \cap Tail(w)[j] = {}
               /\ j >= i => \A n \in Tail(w)[i] : DepSet(dep, n) \cap Tail(w)[j] = {}
    <3>1. /\ i + 1 \in DOMAIN w /\ j + 1 \in DOMAIN w
          /\ Tail(w)[i] = w[i + 1] /\ Tail(w)[j] = w[j + 1]
      BY <1>2
    <3>2. (i # j => i + 1 # j + 1) /\ (j >= i => j + 1 >= i + 1)
      BY <1>2
    <3>3. QED BY <3>1, <3>2 DEF Layered
  <2>2. QED BY <1>2, <2>1 DEF Layered
<1>4. \A x : x \in UNION Range(w) <=> x \in Head(w) \/ x \in UNION Range(Tail(w))
  <2>1. ASSUME NEW x, x \in UNION Range(w)
        PROVE  x \in Head(w) \/ x \in UNION Range(Tail(w))
    <3>1. PICK i \in DOMAIN w : x \in w[i]
      BY <2>1 DEF Range
    <3>2. CASE i = 1
      BY <1>2, <3>1, <3>2
    <3>3. CASE i # 1
      <4>1. i - 1 \in DOMAIN Tail(w) /\ Tail(w)[i - 1] = w[i]
        BY <1>2, <3>3
      <4>2. QED BY <3>1, <4>1 DEF Range
    <3>4. QED BY <3>2, <3>3
  <2>2. ASSUME NEW x, x \in UNION Range(Tail(w)) PROVE x \in UNION Range(w)
    <3>1. PICK i \in DOMAIN Tail(w) : x \in Tail(w)[i]
      BY <2>2 DEF Range
    <3>2. QED BY <1>2, <3>1 DEF Range
  <2>3. Head(w) \subseteq UNION Range(w)
    BY <1>2 DEF Range
  <2>4. QED BY <2>1, <2>2, <2>3
<1>5. ASSUME NEW x \in Head(w), x \in UNION Range(Tail(w)) PROVE FALSE
  <2>1. PICK i \in DOMAIN Tail(w) : x \in Tail(w)[i]
    BY <1>5 DEF Range
  <2>2. QED BY <1>2, <2>1 DEF Layered
<1>6. ASSUME NEW n \in Head(w), NEW x \in DepSet(dep, n), x \in UNION Range(w) PROVE FALSE
  <2>1. PICK i \in DOMAIN w : x \in w[i]
    BY <1>6 DEF Range
  <2>2. i >= 1
    BY <1>2
  <2>3. QED BY <1>2, <2>1, <2>2 DEF Layered
<1>7. Head(w) \subseteq Nodes
  BY <1>1, <1>2
<1>8. QED BY <1>3, <1>4, <1>5, <1>6, <1>7

LEMMA SinglesAdvance ==
    ASSUME NEW s \in Seq(Nodes), s # <<>>
    PROVE  /\ Singles(s) # <<>> /\ Head(Singles(s)) = {Head(s)} /\ Head(s) \in Nodes
           /\ Tail(Singles(s)) = Singles(Tail(s)) /\ Tail(s) \in Seq(Nodes)
<1>1. /\ Len(s) \in Nat /\ Len(s) > 0 /\ DOMAIN s = 1 .. Len(s) /\ \A i \in 1 .. Len(s) : s[i] \in Nodes
      /\ Tail(s) \in Seq(Nodes) /\ Len(Tail(s)) = Len(s) - 1 /\ Head(s) = s[1]
      /\ \A i \in 1 .. Len(s) - 1 : Tail(s)[i] = s[i + 1]
  OBVIOUS
<1>2. Singles(s) = [i \in 1 .. Len(s) |-> {s[i]}]
  BY <1>1 DEF Singles
<1>3. Singles(s) \in Seq(SUBSET Nodes) /\ Len(Singles(s)) = Len(s)
  BY <1>1, <1>2
<1>4. Singles(s) # <<>> /\ Head(Singles(s)) = Singles(s)[1] /\ Singles(s)[1] = {s[1]}
  BY <1>1, <1>2, <1>3
<1>5. Tail(Singles(s)) = [i \in 1 .. Len(s) - 1 |-> Singles(s)[i + 1]]
  <2>1. PICK v \in Seq(SUBSET Nodes) : v = Singles(s)
    BY <1>3
  <2>2. v # <<>> /\ Len(v) = Len(s)
    BY <1>3, <1>4, <2>1
  <2>3. Tail(v) = [i \in 1 .. Len(v) - 1 |-> v[i + 1]]
    <3>1. /\ Len(v) \in Nat /\ Tail(v) \in Seq(SUBSET Nodes) /\ Len(Tail(v)) = Len(v) - 1
          /\ DOMAIN Tail(v) = 1 .. Len(Tail(v))
          /\ \A i \in 1 .. Len(v) - 1 : Tail(v)[i] = v[i + 1]
      BY <2>2
    <3>2. PICK t \in Seq(SUBSET Nodes) : t = Tail(v)
      BY <3>1
    <3>3. t \in [1 .. Len(t) -> SUBSET Nodes]
      OBVIOUS
    <3>4. t = [i \in 1 .. Len(t) |-> t[i]]
      BY ONLY <3>3
    <3>5. QED BY <3>1, <3>2, <3>4
  <2>4. QED BY <2>1, <2>2, <2>3
<1>6. Singles(Tail(s)) = [i \in 1 .. Len(s) - 1 |-> {Tail(s)[i]}]
  BY <1>1 DEF Singles
<1>7. ASSUME NEW i \in 1 .. Len(s) - 1 PROVE Singles(s)[i + 1] = {Tail(s)[i]}
  BY <1>1, <1>2
<1>8. Tail(Singles(s)) = Singles(Tail(s))
  BY <1>5, <1>6, <1>7
<1>9. QED BY <1>1, <1>4, <1>8

\* A graph the executor is given, once it is validated.
LEMMA PlansAreLayered ==
    ASSUME NEW g \in Graphs, ~ValidateRaises(g.ids, g.dependsOn)
    PROVE  /\ TopologicalOrder(g.ids, g.dependsOn) \in Seq(Nodes)
           /\ Layered(g.dependsOn, Singles(TopologicalOrder(g.ids, g.dependsOn)))
           /\ UNION Range(Singles(TopologicalOrder(g.ids, g.dependsOn))) = Nodes
           /\ Layered(g.dependsOn, ExecutionWaves(g.ids, g.dependsOn))
           /\ UNION Range(ExecutionWaves(g.ids, g.dependsOn)) = Nodes
<1>1. /\ g.ids \in Seq(Nodes) /\ Range(g.ids) = Nodes /\ IsInjective(g.ids)
      /\ g.dependsOn \in [Nodes -> Seq(Nodes)]
  BY GraphsAssumption
<1>2. IsGraph(g.ids, g.dependsOn) /\ ~OrderRaises(g.ids, g.dependsOn)
  BY <1>1 DEF IsGraph, ValidateRaises
<1>3. ~HasCycle(g.ids, g.dependsOn)
  BY <1>2, CycleRaises
<1>4. PICK dep : dep = g.dependsOn
  OBVIOUS
<1>5. PICK order : order = TopologicalOrder(g.ids, g.dependsOn)
  OBVIOUS
<1>6. /\ order \in Seq(Nodes) /\ IsInjective(order) /\ Range(order) = Nodes
      /\ \A i \in DOMAIN order : DepSet(dep, order[i]) \subseteq {order[j] : j \in 1 .. i - 1}
  <2>1. /\ order \in Seq(Range(g.ids)) /\ IsInjective(order)
        /\ \A i \in DOMAIN order :
              DepSet(g.dependsOn, order[i]) \subseteq {order[j] : j \in 1 .. i - 1}
        /\ Range(order) = Range(g.ids)
    BY <1>2, <1>5, OrderFacts
  <2>2. QED BY <1>1, <1>4, <2>1
<1>7. Layered(dep, Singles(order)) /\ UNION Range(Singles(order)) = Nodes
  <2>1. Singles(order) = [i \in DOMAIN order |-> {order[i]}] /\ DOMAIN order = 1 .. Len(order)
        /\ Len(order) \in Nat
    BY <1>6 DEF Singles
  <2>2. Singles(order) \in Seq(SUBSET Nodes)
    BY <1>6, <2>1
  <2>3. ASSUME NEW i \in DOMAIN order, NEW j \in DOMAIN order, i # j
        PROVE  {order[i]} \cap {order[j]} = {}
    BY <1>6, <2>3 DEF IsInjective
  <2>4. ASSUME NEW i \in DOMAIN order, NEW j \in DOMAIN order, j >= i
        PROVE  order[j] \notin DepSet(dep, order[i])
    <3>1. ASSUME order[j] \in DepSet(dep, order[i]) PROVE FALSE
      <4>1. PICK k \in 1 .. i - 1 : order[j] = order[k]
        BY <1>6, <3>1
      <4>2. k \in DOMAIN order /\ k # j
        BY <2>1, <2>4, <4>1
      <4>3. QED BY <1>6, <4>1, <4>2 DEF IsInjective
    <3>2. QED BY <3>1
  <2>5. Layered(dep, Singles(order))
    BY <2>1, <2>2, <2>3, <2>4 DEF Layered
  <2>6. UNION Range(Singles(order)) = Range(order)
    BY <2>1 DEF Range
  <2>7. QED BY <1>6, <2>5, <2>6
<1>8. PICK w : w = ExecutionWaves(g.ids, g.dependsOn)
  OBVIOUS
<1>9. AreLayers(g.ids, g.dependsOn, w)
  BY <1>2, <1>3, <1>8, WaveFacts
<1>10. Layered(dep, w) /\ UNION Range(w) = Nodes
  BY <1>1, <1>4, <1>9 DEF AreLayers, Layered
<1>11. QED BY <1>4, <1>5, <1>6, <1>7, <1>8, <1>10

-----------------------------------------------------------------------------
(* The invariant of the executor. *)

\* A run is under way and has not turned back.
Going == phase \in {"run", "node", "waves", "filter", "pool"}

\* The nodes with a future whose result is still to come or to be collected; with
\* them, those of the open wave that the filter has not looked at.
Active == {n \in Nodes : future[n] \in {"queued", "running", "ok", "raised"}}
Open == unfiltered \cup Active

\* What is left of the plan, as layers.
Layers == IF phase \in {"run", "node"} THEN Singles(plan) ELSE plan
Todo == UNION Range(Layers)
Unsettled == Todo \cup Open

\* Where the plan, the futures and the failed node can be in each phase.
PhaseInv ==
    /\ phase \in {"run", "node"} => plan \in Seq(Nodes)
    /\ phase # "filter" => unfiltered = {}
    /\ phase \notin {"node", "filter", "pool"} => Active = {}
    /\ phase = "node" => \A m, n \in Active : m = n
    /\ phase = "filter" => \A n \in Nodes : future[n] \in {"none", "queued"}
    /\ phase \in {"run", "node", "waves", "filter"} => failedNode = NoNode
    /\ phase = "compensate" => failedNode # NoNode

\* No node depends on one that is visited with it or after it, and what has been
\* submitted depends on completed nodes only.
PlanInv ==
    Going =>
        /\ Layered(graph.dependsOn, Layers)
        /\ Open \cap Todo = {}
        /\ \A n \in Open : Deps(n) \cap Unsettled = {}
        /\ \A n \in Active : Deps(n) \subseteq Range(completed)

\* A settled node that has not completed was left out for a reason.
LeftOut(n) ==
    \/ n \in interrupted
    \/ \E d \in Deps(n) : d \notin Unsettled /\ d \notin Range(completed)

\* What the statuses, the effects and the completed nodes say of each other.
DoneInv ==
    Going =>
        /\ \A n \in Nodes : effect[n] =
              (IF n \in Range(completed) \/ future[n] = "ok" THEN "applied" ELSE "none")
        /\ Range(completed) \cap Unsettled = {}
        /\ \A n \in Nodes \ Unsettled : status[n] = "completed" <=> n \in Range(completed)
        /\ failedNode = NoNode =>
              \A n \in Nodes \ Unsettled : n \in Range(completed) \/ LeftOut(n)
        /\ \A n \in Nodes : future[n] = "ok" => status[n] = "completed"
        /\ compensated = <<>>

\* Nodes complete once, after those they depend on.
OrderInv ==
    /\ IsInjective(completed)
    /\ \A i \in DOMAIN completed : Deps(completed[i]) \subseteq {completed[k] : k \in 1 .. i - 1}

Undone == {n \in Nodes : effect[n] = "undone"}

\* A saga that has turned back: what it has visited and what it has not.
BackInv ==
    phase = "compensate" \/ (phase = "returned" /\ failedNode # NoNode) =>
        /\ \A i \in DOMAIN completed :
              IF i <= left THEN effect[completed[i]] = "applied"
              ELSE effect[completed[i]] \in {"undone", "kept"}
        /\ \A n \in Nodes \ Range(completed) : effect[n] = "none"
        /\ compensated = KeptUpTo(Reverse(completed), Undone)[Len(completed) - left]

SpindleInv ==
    /\ SpindleTypeOK /\ PhaseInv /\ PlanInv /\ DoneInv /\ OrderInv /\ BackInv
    /\ SkippedIsExplained

\* What a node depends on are nodes.
LEMMA DepsAreNodes ==
    ASSUME SpindleTypeOK
    PROVE  graph \in Graphs /\ \A n \in Nodes : Deps(n) \subseteq Nodes
<1>1. graph \in Graphs
  BY DEF SpindleTypeOK
<1>2. ASSUME NEW n \in Nodes PROVE Deps(n) \subseteq Nodes
  <2>1. graph.dependsOn[n] \in Seq(Nodes)
    BY <1>1, GraphsAssumption
  <2>2. QED BY <2>1 DEF Deps, DepSet, Range
<1>3. QED BY <1>1, <1>2

LEMMA SpindleStarts == SpindleInit => SpindleInv
<1> SUFFICES ASSUME SpindleInit PROVE SpindleInv
  OBVIOUS
<1>1. <<>> \in Seq(Nodes) /\ Len(<<>>) = 0 /\ DOMAIN <<>> = {} /\ IsInjective(<<>>)
  BY DEF IsInjective
<1>2. SpindleTypeOK
  BY <1>1, WorkersAssumption DEF SpindleInit, SpindleTypeOK, Statuses, Futures
<1>3. PhaseInv /\ PlanInv /\ DoneInv /\ BackInv /\ SkippedIsExplained
  BY DEF SpindleInit, PhaseInv, PlanInv, DoneInv, BackInv, SkippedIsExplained, Going, Active
<1>4. OrderInv
  BY <1>1 DEF SpindleInit, OrderInv
<1>5. QED BY <1>2, <1>3, <1>4 DEF SpindleInv

-----------------------------------------------------------------------------
(* The steps keep the types and the phases. *)

LEMMA SpindleTypes ==
    ASSUME SpindleTypeOK, PhaseInv, PlanInv, [SpindleNext]_spVars
    PROVE  SpindleTypeOK'
<1> USE DEF SpindleTypeOK, Statuses, Futures
<1>1. CASE BeginRun \/ BeginParallel
  <2>1. <<>> \in Seq(Nodes) /\ 0 \in 0 .. Len(<<>>)
    OBVIOUS
  <2>2. runs + 1 \in 0 .. MaxRuns
    BY <1>1, WorkersAssumption DEF BeginRun, BeginParallel, Begin
  <2>3. [n \in Nodes |-> "none"] \in [Nodes -> Futures]
    OBVIOUS
  <2>4. /\ completed' = <<>> /\ compensated' = <<>> /\ failedNode' = NoNode /\ left' = 0
        /\ effect' = [n \in Nodes |-> "none"] /\ future' = [n \in Nodes |-> "none"]
        /\ unfiltered' = {} /\ runs' = runs + 1
        /\ graph' = graph /\ status' = status /\ interrupted' = interrupted
    BY <1>1 DEF BeginRun, BeginParallel, Begin
  <2>5. phase' \in {"run", "waves"}
    BY <1>1 DEF BeginRun, BeginParallel
  <2>6. QED BY <2>1, <2>2, <2>3, <2>4, <2>5
<1>2. CASE VisitNode
  <2>1. plan \in Seq(Nodes) /\ plan # <<>>
    BY <1>2 DEF VisitNode, PhaseInv
  <2>2. Head(plan) \in Nodes
    BY <2>1
  <2>3. QED BY <1>2, <2>2 DEF VisitNode
<1>3. ASSUME NEW n \in Nodes, NodeReturns(n) \/ CollectResult(n) PROVE SpindleTypeOK'
  <2>1. completed' = Append(completed, n) /\ left = 0 /\ left' = left
    BY <1>3 DEF NodeReturns, CollectResult, Collected
  <2>2. completed' \in Seq(Nodes) /\ left' \in 0 .. Len(completed')
    BY <2>1
  <2>3. QED BY <1>3, <2>1, <2>2 DEF NodeReturns, CollectResult
<1>4. ASSUME NEW n \in Nodes, NodeRaises(n) PROVE SpindleTypeOK'
  BY <1>4 DEF NodeRaises
<1>5. CASE OpenWave
  <2>1. Layered(graph.dependsOn, plan)
    BY <1>5 DEF OpenWave, PlanInv, Going, Layers
  <2>2. Head(plan) \subseteq Nodes
    BY <1>5, <2>1, LayersAdvance DEF OpenWave
  <2>3. QED BY <1>5, <2>2 DEF OpenWave
<1>6. ASSUME NEW n \in Nodes,
             FilterNode(n) \/ WorkerStarts(n) \/ WorkerReturns(n) \/ WorkerRaises(n) \/ CollectError(n)
      PROVE  SpindleTypeOK'
  BY <1>6 DEF FilterNode, WorkerStarts, WorkerReturns, WorkerRaises, CollectError
<1>7. CASE SubmitWave \/ CloseWave \/ Return
  BY <1>7 DEF SubmitWave, CloseWave, Return
<1>8. CASE CompensateNode
  <2>1. completed[left] \in Nodes /\ left - 1 \in 0 .. Len(completed)
    BY <1>8 DEF CompensateNode
  <2>2. /\ status' \in [Nodes -> Statuses] /\ compensated' \in Seq(Nodes)
        /\ effect' \in [Nodes -> {"none", "applied", "undone", "kept"}]
    <3>1. PICK n \in Nodes : n = completed[left]
      BY <2>1
    <3>2. \/ /\ status' = [status EXCEPT ![n] = "compensated"]
             /\ compensated' = Append(compensated, n)
             /\ effect' = [effect EXCEPT ![n] = "undone"]
          \/ /\ effect' = [effect EXCEPT ![n] = "kept"]
             /\ status' = status /\ compensated' = compensated
      BY <1>8, <3>1 DEF CompensateNode, NextToUndo
    <3>3. Append(compensated, n) \in Seq(Nodes)
      BY <3>1
    <3>4. QED BY <3>1, <3>2, <3>3
  <2>3. /\ left' = left - 1
        /\ UNCHANGED <<graph, interrupted, phase, unfiltered, future, completed, failedNode, runs>>
    BY <1>8 DEF CompensateNode
  <2>4. QED BY <1>8, <2>1, <2>2, <2>3 DEF CompensateNode
<1>9. ASSUME NEW n \in Nodes, Interrupt(n) PROVE SpindleTypeOK'
  BY <1>9 DEF Interrupt
<1>10. CASE UNCHANGED spVars
  BY <1>10 DEF spVars
<1>11. QED
  BY <1>1, <1>2, <1>3, <1>4, <1>5, <1>6, <1>7, <1>8, <1>9, <1>10 DEF SpindleNext, SpindleStep

LEMMA SpindlePhases ==
    ASSUME SpindleTypeOK, PhaseInv, [SpindleNext]_spVars
    PROVE  PhaseInv'
<1>1. CASE BeginRun \/ BeginParallel
  <2>1. /\ failedNode' = NoNode /\ future' = [n \in Nodes |-> "none"] /\ unfiltered' = {}
        /\ phase' \in {"run", "waves"}
    BY <1>1 DEF BeginRun, BeginParallel, Begin
  <2>2. phase' = "run" => plan' \in Seq(Nodes)
    <3>1. CASE BeginRun
      <4>1. graph \in Graphs /\ ~ValidateRaises(graph.ids, graph.dependsOn)
            /\ plan' = TopologicalOrder(graph.ids, graph.dependsOn)
        BY <3>1 DEF BeginRun, Begin, SpindleTypeOK
      <4>2. QED BY <4>1, PlansAreLayered
    <3>2. CASE BeginParallel
      BY <3>2 DEF BeginParallel
    <3>3. QED BY <1>1, <3>1, <3>2
  <2>3. Active' = {}
    BY <2>1 DEF Active
  <2>4. QED BY <2>1, <2>2, <2>3 DEF PhaseInv
<1>2. CASE VisitNode
  <2>1. plan \in Seq(Nodes) /\ plan # <<>> /\ phase = "run" /\ Active = {}
    BY <1>2 DEF VisitNode, PhaseInv
  <2>2. Head(plan) \in Nodes /\ plan' \in Seq(Nodes)
    BY <1>2, <2>1 DEF VisitNode
  <2>3. unfiltered' = {} /\ failedNode' = NoNode
    BY <1>2, <2>1 DEF VisitNode, PhaseInv
  <2>4. \/ phase' = "run" /\ future' = future
        \/ phase' = "node" /\ future' = [future EXCEPT ![Head(plan)] = "running"]
    BY <1>2, <2>1 DEF VisitNode
  <2>5. phase' = "run" => Active' = {}
    BY <2>1, <2>4 DEF Active
  <2>6. phase' = "node" => \A m, n \in Active' : m = n
    <3>1. ASSUME NEW m \in Nodes, m \in Active', m # Head(plan), phase' = "node" PROVE FALSE
      <4>1. future'[m] = future[m]
        BY <2>2, <2>4, <3>1 DEF SpindleTypeOK
      <4>2. m \in Active
        BY <3>1, <4>1 DEF Active
      <4>3. QED BY <2>1, <4>2
    <3>2. Active' \subseteq Nodes
      BY DEF Active
    <3>3. QED BY <3>1, <3>2
  <2>7. QED BY <2>2, <2>3, <2>4, <2>5, <2>6 DEF PhaseInv
<1>3. ASSUME NEW n \in Nodes, NodeReturns(n) \/ NodeRaises(n) PROVE PhaseInv'
  <2>1. /\ phase = "node" /\ future[n] = "running" /\ future' = [future EXCEPT ![n] = "collected"]
        /\ plan' = plan /\ unfiltered' = unfiltered
    BY <1>3 DEF NodeReturns, NodeRaises
  <2>2. n \in Active /\ \A m \in Active : m = n
    BY <2>1 DEF Active, PhaseInv
  <2>3. Active' = {}
    <3>1. ASSUME NEW m \in Active' PROVE FALSE
      <4>1. m # n /\ m \in Active
        BY <2>1, <3>1 DEF Active, SpindleTypeOK
      <4>2. QED BY <2>2, <4>1
    <3>2. QED BY <3>1
  <2>4. \/ phase' = "run" /\ failedNode' = failedNode
        \/ phase' = "compensate" /\ failedNode' = n /\ n # NoNode
    BY <1>3, NodesAssumption DEF NodeReturns, NodeRaises
  <2>5. QED BY <2>1, <2>3, <2>4 DEF PhaseInv
<1>4. CASE OpenWave
  <2>1. Active' = {} /\ \A n \in Nodes : future'[n] = "none"
    BY <1>4 DEF OpenWave, Active
  <2>2. QED BY <1>4, <2>1 DEF OpenWave, PhaseInv
<1>5. ASSUME NEW n \in Nodes, FilterNode(n) PROVE PhaseInv'
  <2>1. phase = "filter" /\ phase' = phase /\ failedNode' = failedNode
    BY <1>5 DEF FilterNode
  <2>2. future' = future \/ future' = [future EXCEPT ![n] = "queued"]
    BY <1>5 DEF FilterNode
  <2>3. \A m \in Nodes : future'[m] \in {"none", "queued"}
    BY <2>1, <2>2 DEF PhaseInv, SpindleTypeOK
  <2>4. QED BY <2>1, <2>3 DEF PhaseInv
<1>6. CASE SubmitWave
  <2>1. phase' = "waves" => Active' = {}
    BY <1>6 DEF SubmitWave, Active
  <2>2. QED BY <1>6, <2>1 DEF SubmitWave, PhaseInv
<1>7. ASSUME NEW n \in Nodes,
             WorkerStarts(n) \/ WorkerReturns(n) \/ WorkerRaises(n) \/ CollectResult(n) \/ CollectError(n)
      PROVE  PhaseInv'
  <2>1. phase = "pool" /\ phase' = "pool" /\ unfiltered' = unfiltered
    BY <1>7 DEF WorkerStarts, WorkerReturns, WorkerRaises, CollectResult, CollectError
  <2>2. QED BY <2>1 DEF PhaseInv
<1>8. CASE CloseWave
  <2>1. Active' = {}
    BY <1>8 DEF CloseWave, WaveDone, Active
  <2>2. QED BY <1>8, <2>1 DEF CloseWave, PhaseInv
<1>9. CASE CompensateNode
  BY <1>9 DEF CompensateNode, PhaseInv, Active
<1>10. CASE Return
  BY <1>10 DEF Return, PhaseInv, Active
<1>11. ASSUME NEW n \in Nodes, Interrupt(n) PROVE PhaseInv'
  BY <1>11 DEF Interrupt, PhaseInv, Active
<1>12. CASE UNCHANGED spVars
  BY <1>12 DEF spVars, PhaseInv, Active
<1>13. QED
  BY <1>1, <1>2, <1>3, <1>4, <1>5, <1>6, <1>7, <1>8, <1>9, <1>10, <1>11, <1>12
  DEF SpindleNext, SpindleStep

-----------------------------------------------------------------------------
(* The steps keep what is left of the plan apart from what is done. *)

\* Nothing settled opens again, and what opens is independent of what is unsettled.
LEMMA PlanKept ==
    ASSUME PlanInv, Going, graph' = graph,
           Layered(graph.dependsOn, Layers'), Todo' \subseteq Todo, Open' \cap Todo' = {},
           Open' \subseteq Unsettled,
           \A n \in Open' : n \in Open \/ Deps(n) \cap Unsettled = {},
           Range(completed) \subseteq Range(completed'),
           \A n \in Active' : n \in Active \/ Deps(n) \subseteq Range(completed)
    PROVE  PlanInv'
<1>1. Unsettled' \subseteq Unsettled
  BY DEF Unsettled
<1>2. \A n : Deps(n)' = Deps(n)
  BY DEF Deps
<1>3. \A n \in Open' : Deps(n)' \cap Unsettled' = {}
  BY <1>1, <1>2 DEF PlanInv
<1>4. \A n \in Active' : Deps(n)' \subseteq Range(completed')
  BY <1>2 DEF PlanInv
<1>5. QED BY <1>3, <1>4 DEF PlanInv

\* One node leaves the node by node plan.
LEMMA NodeTaken ==
    ASSUME SpindleTypeOK, PhaseInv, PlanInv, VisitNode
    PROVE  /\ Going /\ Going' /\ Head(plan) \in Todo /\ Head(plan) \in Nodes
           /\ Deps(Head(plan)) \cap Unsettled = {}
           /\ Layered(graph.dependsOn, Layers')
           /\ Todo' = Todo \ {Head(plan)} /\ Open = {} /\ Open' \subseteq {Head(plan)}
           /\ phase' = "run" => Open' = {}
<1>1. /\ phase = "run" /\ plan \in Seq(Nodes) /\ plan # <<>> /\ plan' = Tail(plan)
      /\ phase' \in {"run", "node"} /\ graph' = graph
  BY DEF VisitNode, PhaseInv
<1>2. Going /\ Going'
  BY <1>1 DEF Going
<1>3. Layers = Singles(plan) /\ Layers' = Singles(Tail(plan))
  BY <1>1 DEF Layers
<1>4. /\ Layers # <<>> /\ Head(Layers) = {Head(plan)} /\ Layers' = Tail(Layers)
      /\ Head(plan) \in Nodes
  BY <1>1, <1>3, SinglesAdvance
<1>5. Layered(graph.dependsOn, Layers)
  BY <1>2 DEF PlanInv
<1>6. /\ Layered(graph.dependsOn, Layers')
      /\ Todo = {Head(plan)} \cup Todo' /\ {Head(plan)} \cap Todo' = {}
      /\ \A n \in {Head(plan)} : DepSet(graph.dependsOn, n) \cap Todo = {}
  BY <1>4, <1>5, LayersAdvance DEF Todo
<1>7. Open = {}
  BY <1>1 DEF PhaseInv, Open
<1>8. unfiltered' = {}
  BY <1>1 DEF VisitNode, PhaseInv
<1>9. \/ phase' = "run" /\ future' = future
      \/ phase' = "node" /\ future' = [future EXCEPT ![Head(plan)] = "running"]
  BY <1>1 DEF VisitNode
<1>10. Open' \subseteq {Head(plan)} /\ (phase' = "run" => Open' = {})
  <2>1. CASE phase' = "run" /\ future' = future
    BY <1>7, <1>8, <2>1 DEF Open, Active
  <2>2. CASE phase' = "node" /\ future' = [future EXCEPT ![Head(plan)] = "running"]
    <3>1. ASSUME NEW m \in Open', m # Head(plan) PROVE FALSE
      <4>1. m \in Nodes /\ future'[m] = future[m]
        BY <1>8, <2>2, <3>1 DEF Open, Active, SpindleTypeOK
      <4>2. m \in Active
        BY <1>8, <3>1, <4>1 DEF Open, Active
      <4>3. QED BY <1>7, <4>2 DEF Open
    <3>2. QED BY <2>2, <3>1
  <2>3. QED BY <1>9, <2>1, <2>2
<1>11. QED BY <1>2, <1>4, <1>6, <1>7, <1>10 DEF Unsettled, Deps

\* A wave is opened.
LEMMA WaveTaken ==
    ASSUME SpindleTypeOK, PhaseInv, PlanInv, OpenWave
    PROVE  /\ Going /\ Going' /\ graph' = graph
           /\ Layered(graph.dependsOn, Layers')
           /\ Open = {} /\ Active' = {} /\ Open' = Head(plan)
           /\ Todo' \subseteq Todo /\ Open' \cap Todo' = {} /\ Unsettled' = Unsettled
           /\ \A n \in Open' : Deps(n) \cap Unsettled = {}
<1>1. /\ phase = "waves" /\ plan # <<>> /\ plan' = Tail(plan) /\ phase' = "filter"
      /\ graph' = graph /\ unfiltered' = Head(plan) /\ future' = [n \in Nodes |-> "none"]
  BY DEF OpenWave
<1>2. Going /\ Going' /\ Layers = plan /\ Layers' = Tail(plan)
  BY <1>1 DEF Going, Layers
<1>3. Layered(graph.dependsOn, plan)
  BY <1>2 DEF PlanInv
<1>4. /\ Layered(graph.dependsOn, Layers')
      /\ Todo = Head(plan) \cup Todo' /\ Head(plan) \cap Todo' = {}
      /\ \A n \in Head(plan) : DepSet(graph.dependsOn, n) \cap Todo = {}
  BY <1>1, <1>2, <1>3, LayersAdvance DEF Todo
<1>5. Open = {}
  BY <1>1 DEF PhaseInv, Open
<1>6. Active' = {} /\ Open' = Head(plan)
  BY <1>1 DEF Active, Open
<1>7. QED BY <1>1, <1>2, <1>4, <1>5, <1>6 DEF Unsettled, Deps

\* The other steps of a run under way leave the plan as it is.
LEMMA PlanStays ==
    ASSUME Going, plan' = plan, phase \in {"run", "node"} <=> phase' \in {"run", "node"}
    PROVE  Layers' = Layers /\ Todo' = Todo
BY DEF Layers, Todo

LEMMA SpindlePlans ==
    ASSUME SpindleTypeOK, PhaseInv, PlanInv, DoneInv, [SpindleNext]_spVars
    PROVE  PlanInv'
<1>1. CASE BeginRun \/ BeginParallel
  <2>1. /\ future' = [n \in Nodes |-> "none"] /\ unfiltered' = {} /\ graph' = graph
        /\ graph \in Graphs /\ ~ValidateRaises(graph.ids, graph.dependsOn)
    BY <1>1 DEF BeginRun, BeginParallel, Begin, SpindleTypeOK
  <2>2. Open' = {} /\ Active' = {}
    BY <2>1 DEF Open, Active
  <2>3. Layered(graph.dependsOn, Layers')
    <3>1. CASE BeginRun
      <4>1. Layers' = Singles(TopologicalOrder(graph.ids, graph.dependsOn))
        BY <3>1 DEF BeginRun, Layers
      <4>2. QED BY <2>1, <4>1, PlansAreLayered
    <3>2. CASE BeginParallel
      <4>1. Layers' = ExecutionWaves(graph.ids, graph.dependsOn)
        BY <3>2 DEF BeginParallel, Layers
      <4>2. QED BY <2>1, <4>1, PlansAreLayered
    <3>3. QED BY <1>1, <3>1, <3>2
  <2>4. QED BY <2>1, <2>2, <2>3 DEF PlanInv
<1>2. CASE VisitNode
  <2>1. graph' = graph /\ completed' = completed
    BY <1>2 DEF VisitNode
  <2>2. /\ Going /\ Head(plan) \in Todo /\ Head(plan) \in Nodes
        /\ Deps(Head(plan)) \cap Unsettled = {}
        /\ Layered(graph.dependsOn, Layers')
        /\ Todo' = Todo \ {Head(plan)} /\ Open = {} /\ Open' \subseteq {Head(plan)}
        /\ phase' = "run" => Open' = {}
    BY <1>2, NodeTaken
  <2>3. ASSUME NEW n \in Active' PROVE Deps(n) \subseteq Range(completed)
    <3>1. n = Head(plan) /\ phase' # "run"
      BY <2>2, <2>3 DEF Open
    <3>2. DepsCompleted(Head(plan))
      BY <1>2, <3>1 DEF VisitNode
    <3>3. ASSUME NEW d \in Deps(n) PROVE d \in Range(completed)
      <4>1. d \in Nodes \ Unsettled
        BY <2>2, <3>1, DepsAreNodes
      <4>2. status[d] = "completed"
        BY <3>1, <3>2 DEF DepsCompleted
      <4>3. QED BY <2>2, <4>1, <4>2 DEF DoneInv
    <3>4. QED BY <3>3
  <2>4. QED BY <2>1, <2>2, <2>3, PlanKept DEF Unsettled
<1>3. ASSUME NEW n \in Nodes, NodeReturns(n) PROVE PlanInv'
  <2>1. /\ Going /\ plan' = plan /\ phase = "node" /\ phase' = "run" /\ graph' = graph
        /\ unfiltered' = unfiltered /\ future' = [future EXCEPT ![n] = "collected"]
        /\ completed' = Append(completed, n)
    BY <1>3 DEF NodeReturns, Going, Collected
  <2>2. Layers' = Layers /\ Todo' = Todo
    BY <2>1, PlanStays
  <2>3. Active' \subseteq Active
    BY <2>1 DEF Active, SpindleTypeOK
  <2>4. Range(completed) \subseteq Range(completed')
    BY <2>1, RangeOfAppend DEF SpindleTypeOK
  <2>5. QED BY <2>1, <2>2, <2>3, <2>4, PlanKept DEF PlanInv, Open, Unsettled
<1>4. CASE OpenWave
  <2>1. completed' = completed
    BY <1>4 DEF OpenWave
  <2>2. QED BY <1>4, <2>1, WaveTaken, PlanKept DEF Unsettled
<1>5. ASSUME NEW n \in Nodes, FilterNode(n) PROVE PlanInv'
  <2>1. /\ Going /\ plan' = plan /\ phase = "filter" /\ phase' = "filter" /\ graph' = graph
        /\ completed' = completed /\ unfiltered' = unfiltered \ {n} /\ n \in unfiltered
        /\ \/ future' = future
           \/ DepsCompleted(n) /\ future' = [future EXCEPT ![n] = "queued"]
    BY <1>5 DEF FilterNode, Going
  <2>2. Layers' = Layers /\ Todo' = Todo
    BY <2>1, PlanStays
  <2>3. Active' \subseteq Active \cup {n}
    BY <2>1 DEF Active, SpindleTypeOK
  <2>4. Open' \subseteq Open /\ n \in Open
    BY <2>1, <2>3 DEF Open
  <2>5. ASSUME NEW m \in Active' PROVE m \in Active \/ Deps(m) \subseteq Range(completed)
    <3>1. CASE future' = future
      BY <2>5, <3>1 DEF Active
    <3>2. CASE m # n
      BY <2>3, <2>5, <3>2
    <3>3. CASE m = n /\ DepsCompleted(n)
      <4>1. Deps(n) \cap Unsettled = {} /\ Deps(n) \subseteq Nodes
        BY <2>1, <2>4, DepsAreNodes DEF PlanInv
      <4>2. \A d \in Deps(n) : d \in Nodes \ Unsettled /\ status[d] = "completed"
        BY <3>3, <4>1 DEF DepsCompleted
      <4>3. QED BY <2>1, <3>3, <4>2 DEF DoneInv
    <3>4. QED BY <2>1, <3>1, <3>2, <3>3
  <2>6. QED BY <2>1, <2>2, <2>4, <2>5, PlanKept DEF PlanInv, Unsettled
<1>6. CASE SubmitWave
  <2>1. /\ Going /\ plan' = plan /\ phase = "filter" /\ phase' \in {"waves", "pool"}
        /\ graph' = graph /\ completed' = completed /\ unfiltered' = unfiltered /\ future' = future
    BY <1>6 DEF SubmitWave, Going
  <2>2. Layers' = Layers /\ Todo' = Todo
    BY <2>1, PlanStays
  <2>3. Active' = Active /\ Open' = Open
    BY <2>1 DEF Active, Open
  <2>4. QED BY <2>1, <2>2, <2>3, PlanKept DEF PlanInv, Unsettled
<1>7. ASSUME NEW n \in Nodes,
             WorkerStarts(n) \/ WorkerReturns(n) \/ WorkerRaises(n) \/ CollectResult(n) \/ CollectError(n)
      PROVE  PlanInv'
  <2>1. /\ Going /\ plan' = plan /\ phase = "pool" /\ phase' = "pool"
        /\ graph' = graph /\ unfiltered' = unfiltered
    BY <1>7 DEF WorkerStarts, WorkerReturns, WorkerRaises, CollectResult, CollectError, Going
  <2>2. Layers' = Layers /\ Todo' = Todo
    BY <2>1, PlanStays
  <2>3. /\ future[n] \in {"queued", "running", "ok", "raised"}
        /\ \E v \in Futures : future' = [future EXCEPT ![n] = v]
    BY <1>7 DEF WorkerStarts, WorkerReturns, WorkerRaises, CollectResult, CollectError, Futures
  <2>4. Active' \subseteq Active
    BY <2>3 DEF Active, SpindleTypeOK
  <2>5. completed' = completed \/ completed' = Append(completed, n)
    BY <1>7 DEF WorkerStarts, WorkerReturns, WorkerRaises, CollectResult, CollectError, Collected
  <2>6. Range(completed) \subseteq Range(completed')
    <3>1. completed \in Seq(Nodes)
      BY DEF SpindleTypeOK
    <3>2. Range(Append(completed, n)) = Range(completed) \cup {n}
      BY <3>1, RangeOfAppend
    <3>3. QED BY <2>5, <3>2
  <2>7. QED BY <2>1, <2>2, <2>4, <2>6, PlanKept DEF PlanInv, Open, Unsettled
<1>8. CASE CloseWave /\ phase' = "waves"
  <2>1. /\ Going /\ plan' = plan /\ phase = "pool" /\ graph' = graph
        /\ completed' = completed /\ unfiltered' = unfiltered /\ future' = future
    BY <1>8 DEF CloseWave, Going
  <2>2. Layers' = Layers /\ Todo' = Todo
    BY <1>8, <2>1, PlanStays
  <2>3. Active' = Active /\ Open' = Open
    BY <2>1 DEF Active, Open
  <2>4. QED BY <2>1, <2>2, <2>3, PlanKept DEF PlanInv, Unsettled
<1>9. CASE phase' \in {"compensate", "returned"}
  BY <1>9 DEF PlanInv, Going
<1>10. ASSUME (\E n \in Nodes : Interrupt(n)) \/ UNCHANGED spVars PROVE PlanInv'
  <2>1. /\ graph' = graph /\ phase' = phase /\ plan' = plan /\ unfiltered' = unfiltered
        /\ future' = future /\ completed' = completed
    BY <1>10 DEF Interrupt, spVars
  <2>2. QED BY <2>1 DEF PlanInv, Going, Layers, Todo, Open, Active, Unsettled, Deps
<1>11. ASSUME (\E n \in Nodes : NodeRaises(n)) \/ CloseWave \/ CompensateNode \/ Return
       PROVE  phase' \in {"compensate", "returned"} \/ (CloseWave /\ phase' = "waves")
  BY <1>11 DEF NodeRaises, CloseWave, CompensateNode, Return
<1>12. QED
  BY <1>1, <1>2, <1>3, <1>4, <1>5, <1>6, <1>7, <1>8, <1>9, <1>10, <1>11
  DEF SpindleNext, SpindleStep

-----------------------------------------------------------------------------
(* The steps keep the statuses, the effects and the completed nodes consistent. *)

\* A step that moves one unsettled node.
LEMMA DoneKept ==
    ASSUME DoneInv, Going, Going', graph' = graph, interrupted' = interrupted,
           compensated' = compensated, failedNode' = NoNode => failedNode = NoNode,
           NEW n \in Nodes, n \in Unsettled, Unsettled' \subseteq Unsettled,
           Unsettled \ {n} \subseteq Unsettled',
           \A m \in Nodes \ {n} :
              status'[m] = status[m] /\ effect'[m] = effect[m] /\ future'[m] = future[m],
           \/ Range(completed') = Range(completed)
           \/ Range(completed') = Range(completed) \cup {n} /\ n \notin Unsettled',
           effect'[n] = (IF n \in Range(completed') \/ future'[n] = "ok" THEN "applied" ELSE "none"),
           future'[n] = "ok" => status'[n] = "completed",
           n \in Unsettled' \/ (status'[n] = "completed" <=> n \in Range(completed')),
           n \in Unsettled' \/ failedNode' # NoNode \/ n \in Range(completed') \/ LeftOut(n)
    PROVE  DoneInv'
<1>1. /\ Range(completed) \cap Unsettled = {}
      /\ \A m \in Nodes : effect[m] =
            (IF m \in Range(completed) \/ future[m] = "ok" THEN "applied" ELSE "none")
      /\ \A m \in Nodes \ Unsettled : status[m] = "completed" <=> m \in Range(completed)
      /\ failedNode = NoNode => \A m \in Nodes \ Unsettled : m \in Range(completed) \/ LeftOut(m)
      /\ \A m \in Nodes : future[m] = "ok" => status[m] = "completed"
      /\ compensated = <<>>
  BY DEF DoneInv
<1>2. \A m \in Nodes : effect'[m] =
         (IF m \in Range(completed') \/ future'[m] = "ok" THEN "applied" ELSE "none")
  BY <1>1
<1>3. Range(completed') \cap Unsettled' = {}
  BY <1>1
<1>4. \A m \in Nodes \ Unsettled' : status'[m] = "completed" <=> m \in Range(completed')
  BY <1>1
<1>5. \A m : LeftOut(m) => LeftOut(m)'
  BY DEF LeftOut, Deps
<1>6. failedNode' = NoNode =>
         \A m \in Nodes \ Unsettled' : m \in Range(completed') \/ LeftOut(m)'
  BY <1>1, <1>5
<1>7. \A m \in Nodes : future'[m] = "ok" => status'[m] = "completed"
  BY <1>1
<1>8. QED BY <1>1, <1>2, <1>3, <1>4, <1>6, <1>7 DEF DoneInv

\* A step that moves none.
LEMMA DoneSame ==
    ASSUME DoneInv, Going' => Going, graph' = graph, status' = status, effect' = effect,
           interrupted \subseteq interrupted', completed' = completed,
           compensated' = compensated, failedNode' = failedNode, Unsettled' = Unsettled,
           \A m \in Nodes : future'[m] = "ok" <=> future[m] = "ok"
    PROVE  DoneInv'
<1>1. \A m : LeftOut(m) => LeftOut(m)'
  BY DEF LeftOut, Deps
<1>2. QED BY <1>1 DEF DoneInv

LEMMA SpindleDone ==
    ASSUME SpindleTypeOK, PhaseInv, PlanInv, DoneInv, [SpindleNext]_spVars
    PROVE  DoneInv'
<1>1. CASE BeginRun \/ BeginParallel
  <2>1. /\ completed' = <<>> /\ compensated' = <<>> /\ effect' = [n \in Nodes |-> "none"]
        /\ future' = [n \in Nodes |-> "none"]
        /\ graph \in Graphs /\ ~ValidateRaises(graph.ids, graph.dependsOn)
    BY <1>1 DEF BeginRun, BeginParallel, Begin, SpindleTypeOK
  <2>2. Todo' = Nodes
    <3>1. CASE BeginRun
      <4>1. Layers' = Singles(TopologicalOrder(graph.ids, graph.dependsOn))
        BY <3>1 DEF BeginRun, Layers
      <4>2. QED BY <2>1, <4>1, PlansAreLayered DEF Todo
    <3>2. CASE BeginParallel
      <4>1. Layers' = ExecutionWaves(graph.ids, graph.dependsOn)
        BY <3>2 DEF BeginParallel, Layers
      <4>2. QED BY <2>1, <4>1, PlansAreLayered DEF Todo
    <3>3. QED BY <1>1, <3>1, <3>2
  <2>3. Nodes \ Unsettled' = {}
    BY <2>2 DEF Unsettled
  <2>4. Range(completed') = {}
    BY <2>1, RangeOfOne
  <2>5. QED BY <2>1, <2>3, <2>4 DEF DoneInv
<1>2. CASE VisitNode
  <2>1. PICK n : n = Head(plan)
    OBVIOUS
  <2>2. /\ phase = "run" /\ graph' = graph /\ interrupted' = interrupted
        /\ compensated' = compensated /\ completed' = completed /\ failedNode' = failedNode
        /\ effect' = effect
        /\ \/ /\ n \in interrupted \/ ~DepsCompleted(n)
              /\ status' = [status EXCEPT ![n] = "skipped"] /\ phase' = "run" /\ future' = future
           \/ /\ status' = [status EXCEPT ![n] = "running"]
              /\ future' = [future EXCEPT ![n] = "running"]
    BY <1>2, <2>1 DEF VisitNode
  <2>3. /\ Going /\ Going' /\ n \in Todo /\ n \in Nodes /\ Deps(n) \cap Unsettled = {}
        /\ Todo' = Todo \ {n} /\ Open = {} /\ Open' \subseteq {n}
    BY <1>2, <2>1, NodeTaken
  <2>4. n \notin Range(completed)
    BY <2>3 DEF DoneInv, Unsettled
  <2>5. future[n] # "ok"
    BY <2>2, <2>3 DEF PhaseInv, Active
  <2>6. effect[n] = "none"
    BY <2>3, <2>4, <2>5 DEF DoneInv
  <2>7. \A m \in Nodes \ {n} : status'[m] = status[m] /\ effect'[m] = effect[m] /\ future'[m] = future[m]
    BY <2>2, <2>3 DEF SpindleTypeOK
  <2>8. n \in Unsettled /\ Unsettled' \subseteq Unsettled /\ Unsettled \ {n} \subseteq Unsettled'
    BY <2>3 DEF Unsettled
  <2>9. /\ status'[n] # "completed" /\ future'[n] # "ok"
        /\ n \in Unsettled' \/ n \in interrupted \/ ~DepsCompleted(n)
    <3>1. CASE future' = future /\ status' = [status EXCEPT ![n] = "skipped"]
      BY <2>2, <2>3, <2>5, <3>1 DEF SpindleTypeOK
    <3>2. CASE /\ future' = [future EXCEPT ![n] = "running"]
               /\ status' = [status EXCEPT ![n] = "running"]
      BY <2>3, <3>2 DEF SpindleTypeOK, Unsettled, Open, Active
    <3>3. QED BY <2>2, <3>1, <3>2
  <2>10. n \in Unsettled' \/ LeftOut(n)
    <3>1. ASSUME ~DepsCompleted(n) PROVE LeftOut(n)
      <4>1. PICK d \in Deps(n) : status[d] # "completed"
        BY <3>1 DEF DepsCompleted
      <4>2. d \in Nodes \ Unsettled
        BY <2>3, DepsAreNodes
      <4>3. d \notin Range(completed)
        BY <2>3, <4>1, <4>2 DEF DoneInv
      <4>4. QED BY <4>2, <4>3 DEF LeftOut
    <3>2. QED BY <2>9, <3>1 DEF LeftOut
  <2>11. QED BY <2>2, <2>3, <2>4, <2>6, <2>7, <2>8, <2>9, <2>10, DoneKept
<1>3. ASSUME NEW n \in Nodes, NodeReturns(n) PROVE DoneInv'
  <2>1. /\ Going /\ Going' /\ plan' = plan /\ phase = "node" /\ phase' = "run" /\ graph' = graph
        /\ interrupted' = interrupted /\ compensated' = compensated /\ failedNode' = failedNode
        /\ unfiltered' = unfiltered /\ future[n] = "running"
        /\ future' = [future EXCEPT ![n] = "collected"]
        /\ status' = [status EXCEPT ![n] = "completed"]
        /\ effect' = [effect EXCEPT ![n] = "applied"]
        /\ completed' = Append(completed, n)
    BY <1>3 DEF NodeReturns, Going, Collected
  <2>2. Layers' = Layers /\ Todo' = Todo
    BY <2>1, PlanStays
  <2>3. Active' = Active \ {n} /\ n \in Active
    BY <2>1 DEF Active, SpindleTypeOK
  <2>4. n \notin Todo /\ unfiltered = {}
    BY <2>1, <2>3 DEF PlanInv, Open, PhaseInv
  <2>5. n \in Unsettled /\ Unsettled' = Unsettled \ {n}
    BY <2>1, <2>2, <2>3, <2>4 DEF Unsettled, Open
  <2>6. Range(completed') = Range(completed) \cup {n}
    BY <2>1, RangeOfAppend DEF SpindleTypeOK
  <2>7. /\ future'[n] # "ok" /\ status'[n] = "completed" /\ effect'[n] = "applied"
        /\ \A m \in Nodes \ {n} :
              status'[m] = status[m] /\ effect'[m] = effect[m] /\ future'[m] = future[m]
    BY <2>1 DEF SpindleTypeOK
  <2>8. QED BY <2>1, <2>5, <2>6, <2>7, DoneKept
<1>4. CASE OpenWave
  <2>1. /\ phase = "waves" /\ graph' = graph /\ status' = status /\ effect' = effect
        /\ interrupted' = interrupted /\ completed' = completed /\ compensated' = compensated
        /\ failedNode' = failedNode /\ \A m \in Nodes : future'[m] = "none"
    BY <1>4 DEF OpenWave
  <2>2. Going /\ Going' /\ Unsettled' = Unsettled
    BY <1>4, WaveTaken
  <2>3. \A m \in Nodes : future[m] # "ok"
    BY <2>1 DEF PhaseInv, Active
  <2>4. QED BY <2>1, <2>2, <2>3, DoneSame
<1>5. ASSUME NEW n \in Nodes, FilterNode(n) PROVE DoneInv'
  <2>1. /\ Going /\ Going' /\ plan' = plan /\ phase = "filter" /\ phase' = "filter" /\ graph' = graph
        /\ interrupted' = interrupted /\ compensated' = compensated /\ failedNode' = failedNode
        /\ completed' = completed /\ unfiltered' = unfiltered \ {n} /\ n \in unfiltered
        /\ effect' = effect
        /\ \/ /\ n \in interrupted \/ ~DepsCompleted(n)
              /\ status' = [status EXCEPT ![n] = "skipped"] /\ future' = future
           \/ future' = [future EXCEPT ![n] = "queued"] /\ status' = status
    BY <1>5 DEF FilterNode, Going
  <2>2. Layers' = Layers /\ Todo' = Todo
    BY <2>1, PlanStays
  <2>3. Active \subseteq Active' /\ Active' \subseteq Active \cup {n}
    BY <2>1 DEF Active, SpindleTypeOK
  <2>4. n \in Open /\ n \in Unsettled /\ Unsettled' \subseteq Unsettled /\ Unsettled \ {n} \subseteq Unsettled'
    BY <2>1, <2>2, <2>3 DEF Unsettled, Open
  <2>5. n \notin Range(completed) /\ future[n] # "ok" /\ effect[n] = "none"
    BY <2>1, <2>4 DEF DoneInv, PhaseInv
  <2>6. /\ future'[n] # "ok"
        /\ \A m \in Nodes \ {n} :
              status'[m] = status[m] /\ effect'[m] = effect[m] /\ future'[m] = future[m]
    BY <2>1, <2>5 DEF SpindleTypeOK
  <2>7. \/ n \in Unsettled'
        \/ status'[n] # "completed" /\ LeftOut(n)
    <3>1. CASE future' = [future EXCEPT ![n] = "queued"]
      BY <3>1 DEF SpindleTypeOK, Unsettled, Open, Active
    <3>2. CASE n \in interrupted /\ status' = [status EXCEPT ![n] = "skipped"]
      BY <3>2 DEF SpindleTypeOK, LeftOut
    <3>3. CASE ~DepsCompleted(n) /\ status' = [status EXCEPT ![n] = "skipped"]
      <4>1. PICK d \in Deps(n) : status[d] # "completed"
        BY <3>3 DEF DepsCompleted
      <4>2. d \in Nodes \ Unsettled
        BY <2>1, <2>4, DepsAreNodes DEF PlanInv
      <4>3. d \notin Range(completed)
        BY <2>1, <4>1, <4>2 DEF DoneInv
      <4>4. QED BY <3>3, <4>2, <4>3 DEF LeftOut, SpindleTypeOK
    <3>4. QED BY <2>1, <3>1, <3>2, <3>3
  <2>8. QED BY <2>1, <2>4, <2>5, <2>6, <2>7, DoneKept
<1>6. ASSUME SubmitWave \/ (CloseWave /\ phase' = "waves") PROVE DoneInv'
  <2>1. /\ Going /\ plan' = plan /\ phase \in {"filter", "pool"} /\ phase' \in {"waves", "pool"}
        /\ graph' = graph /\ completed' = completed /\ unfiltered' = unfiltered /\ future' = future
        /\ status' = status /\ effect' = effect /\ interrupted' = interrupted
        /\ compensated' = compensated /\ failedNode' = failedNode
    BY <1>6 DEF SubmitWave, CloseWave, Going
  <2>2. Layers' = Layers /\ Todo' = Todo
    BY <2>1, PlanStays
  <2>3. Unsettled' = Unsettled
    BY <2>1, <2>2 DEF Unsettled, Open, Active
  <2>4. QED BY <2>1, <2>3, DoneSame
<1>7. ASSUME NEW n \in Nodes,
             WorkerStarts(n) \/ WorkerReturns(n) \/ WorkerRaises(n) \/ CollectResult(n) \/ CollectError(n)
      PROVE  DoneInv'
  <2>1. /\ Going /\ Going' /\ plan' = plan /\ phase = "pool" /\ phase' = "pool"
        /\ graph' = graph /\ interrupted' = interrupted /\ compensated' = compensated
        /\ unfiltered' = unfiltered /\ failedNode' \in {failedNode, n}
    BY <1>7 DEF WorkerStarts, WorkerReturns, WorkerRaises, CollectResult, CollectError, Going
  <2>2. Layers' = Layers /\ Todo' = Todo
    BY <2>1, PlanStays
  <2>3. n \in Active /\ n \in Unsettled /\ n \notin Todo /\ unfiltered = {} /\ n # NoNode
    <3>1. n \in Active
      BY <1>7 DEF WorkerStarts, WorkerReturns, WorkerRaises, CollectResult, CollectError, Active
    <3>2. QED BY <2>1, <3>1, NodesAssumption DEF PlanInv, PhaseInv, Open, Unsettled
  <2>4. n \notin Range(completed)
    BY <2>1, <2>3 DEF DoneInv
  <2>5. failedNode' = NoNode => failedNode = NoNode
    BY <2>1, <2>3
  <2>6. \A m \in Nodes \ {n} :
           status'[m] = status[m] /\ effect'[m] = effect[m] /\ future'[m] = future[m]
    BY <1>7 DEF WorkerStarts, WorkerReturns, WorkerRaises, CollectResult, CollectError, SpindleTypeOK
  <2>7. Active \ {n} \subseteq Active' /\ Active' \subseteq Active
    BY <2>3, <2>6 DEF Active
  <2>8. Unsettled' \subseteq Unsettled /\ Unsettled \ {n} \subseteq Unsettled'
    BY <2>1, <2>2, <2>7 DEF Unsettled, Open
  <2>9. n \in Unsettled' <=> n \in Active'
    BY <2>1, <2>2, <2>3 DEF Unsettled, Open
  <2>10. CASE WorkerStarts(n) \/ WorkerReturns(n) \/ WorkerRaises(n)
    <3>1. completed' = completed /\ n \in Active'
      BY <2>10 DEF WorkerStarts, WorkerReturns, WorkerRaises, Active, SpindleTypeOK
    <3>2. effect[n] = "none"
      BY <2>1, <2>4, <2>10 DEF DoneInv, WorkerStarts, WorkerReturns, WorkerRaises
    <3>3. /\ effect'[n] = (IF future'[n] = "ok" THEN "applied" ELSE "none")
          /\ future'[n] = "ok" => status'[n] = "completed"
      BY <2>10, <3>2 DEF WorkerStarts, WorkerReturns, WorkerRaises, SpindleTypeOK
    <3>4. QED BY <2>1, <2>3, <2>4, <2>5, <2>6, <2>8, <2>9, <3>1, <3>3, DoneKept
  <2>11. CASE CollectResult(n)
    <3>1. /\ future[n] = "ok" /\ future' = [future EXCEPT ![n] = "collected"] /\ status' = status
          /\ effect' = effect /\ completed' = Append(completed, n)
      BY <2>11 DEF CollectResult, Collected
    <3>2. Range(completed') = Range(completed) \cup {n}
      BY <3>1, RangeOfAppend DEF SpindleTypeOK
    <3>3. status'[n] = "completed" /\ effect'[n] = "applied"
      BY <2>1, <3>1 DEF DoneInv
    <3>4. n \notin Active' /\ future'[n] = "collected"
      BY <3>1 DEF Active, SpindleTypeOK
    <3>5. QED BY <2>1, <2>3, <2>5, <2>6, <2>8, <2>9, <3>2, <3>3, <3>4, DoneKept
  <2>12. CASE CollectError(n)
    <3>1. /\ future[n] = "raised" /\ future' = [future EXCEPT ![n] = "collected"]
          /\ status' = [status EXCEPT ![n] = "failed"] /\ failedNode' = n
          /\ effect' = effect /\ completed' = completed
      BY <2>12 DEF CollectError
    <3>2. status'[n] = "failed" /\ future'[n] = "collected" /\ effect'[n] = "none"
      BY <2>1, <2>4, <3>1 DEF DoneInv, SpindleTypeOK
    <3>3. QED BY <2>1, <2>3, <2>4, <2>5, <2>6, <2>8, <2>9, <3>1, <3>2, DoneKept
  <2>13. QED BY <1>7, <2>10, <2>11, <2>12
<1>8. CASE phase' \in {"compensate", "returned"}
  BY <1>8 DEF DoneInv, Going
<1>9. ASSUME (\E n \in Nodes : Interrupt(n)) \/ UNCHANGED spVars PROVE DoneInv'
  <2>1. /\ graph' = graph /\ phase' = phase /\ plan' = plan /\ unfiltered' = unfiltered
        /\ future' = future /\ completed' = completed /\ status' = status /\ effect' = effect
        /\ compensated' = compensated /\ failedNode' = failedNode
        /\ interrupted \subseteq interrupted'
    BY <1>9 DEF Interrupt, spVars
  <2>2. (Going' => Going) /\ Unsettled' = Unsettled
    BY <2>1 DEF Going, Layers, Todo, Open, Active, Unsettled
  <2>3. QED BY <2>1, <2>2, DoneSame
<1>10. ASSUME (\E n \in Nodes : NodeRaises(n)) \/ CloseWave \/ CompensateNode \/ Return
       PROVE  phase' \in {"compensate", "returned"} \/ (CloseWave /\ phase' = "waves")
  BY <1>10 DEF NodeRaises, CloseWave, CompensateNode, Return
<1>11. QED
  BY <1>1, <1>2, <1>3, <1>4, <1>5, <1>6, <1>7, <1>8, <1>9, <1>10 DEF SpindleNext, SpindleStep

-----------------------------------------------------------------------------
(* The completed nodes, forth and back. *)

LEMMA ReversedSequence ==
    ASSUME NEW V, NEW s \in Seq(V)
    PROVE  /\ Reverse(s) \in Seq(V) /\ Len(Reverse(s)) = Len(s)
           /\ \A i \in 1 .. Len(s) : Reverse(s)[i] = s[Len(s) - i + 1]
<1>1. Len(s) \in Nat /\ \A i \in 1 .. Len(s) : Len(s) - i + 1 \in 1 .. Len(s) /\ s[Len(s) - i + 1] \in V
  OBVIOUS
<1>2. Reverse(s) = [i \in 1 .. Len(s) |-> s[Len(s) - i + 1]]
  BY DEF Reverse
<1>3. QED BY <1>1, <1>2

\* What is picked depends only on which of the elements seen are in the set.
LEMMA KeptAgrees ==
    ASSUME NEW V, NEW s \in Seq(V), NEW X, NEW Y, NEW k \in 0 .. Len(s),
           \A i \in 1 .. k : s[i] \in X <=> s[i] \in Y
    PROVE  KeptUpTo(s, X)[k] = KeptUpTo(s, Y)[k]
<1>1. PICK f : f = KeptUpTo(s, X)
  OBVIOUS
<1>2. PICK g : g = KeptUpTo(s, Y)
  OBVIOUS
<1>3. /\ f[0] = <<>> /\ g[0] = <<>>
      /\ \A i \in 1 .. Len(s) : /\ f[i] = (IF s[i] \in X THEN Append(f[i - 1], s[i]) ELSE f[i - 1])
                                /\ g[i] = (IF s[i] \in Y THEN Append(g[i - 1], s[i]) ELSE g[i - 1])
  BY <1>1, <1>2, KeptSteps
<1> DEFINE T == {i \in Nat : i <= k => f[i] = g[i]}
<1>4. 0 \in T
  BY <1>3
<1>5. ASSUME NEW i \in Nat, i \in T PROVE i + 1 \in T
  <2> SUFFICES ASSUME i + 1 <= k PROVE f[i + 1] = g[i + 1]
    OBVIOUS
  <2>1. i + 1 \in 1 .. k /\ i + 1 \in 1 .. Len(s) /\ (i + 1) - 1 = i
    OBVIOUS
  <2>2. f[i] = g[i]
    BY <1>5
  <2>3. QED BY <1>3, <2>1, <2>2
<1>6. Nat \subseteq T
  <2> HIDE DEF T
  <2>1. QED BY <1>4, <1>5, NatSetInduction
<1>7. QED BY <1>1, <1>2, <1>6

\* A node that completes depends on nodes that have.
LEMMA OrderExtended ==
    ASSUME SpindleTypeOK, OrderInv, graph' = graph, NEW n \in Nodes, completed' = Append(completed, n),
           n \notin Range(completed), Deps(n) \subseteq Range(completed)
    PROVE  OrderInv'
<1>1. /\ completed \in Seq(Nodes) /\ Len(completed) \in Nat
      /\ DOMAIN completed = 1 .. Len(completed) /\ DOMAIN completed' = 1 .. Len(completed) + 1
      /\ \A i \in 1 .. Len(completed) : completed'[i] = completed[i]
      /\ completed'[Len(completed) + 1] = n
  BY DEF SpindleTypeOK
<1>2. IsInjective(completed')
  BY <1>1, RangeOfAppend DEF OrderInv
<1>3. ASSUME NEW i \in DOMAIN completed'
      PROVE  DepSet(graph'.dependsOn, completed'[i]) \subseteq {completed'[k] : k \in 1 .. i - 1}
  <2>1. CASE i \in DOMAIN completed
    <3>1. Deps(completed[i]) \subseteq {completed[k] : k \in 1 .. i - 1}
      BY <2>1 DEF OrderInv
    <3>2. \A k \in 1 .. i - 1 : completed'[k] = completed[k]
      BY <1>1, <2>1
    <3>3. DepSet(graph'.dependsOn, completed'[i]) = Deps(completed[i])
      BY <1>1, <2>1 DEF Deps
    <3>4. QED BY <3>1, <3>2, <3>3
  <2>2. CASE i = Len(completed) + 1
    <3>1. Range(completed) = {completed'[k] : k \in 1 .. i - 1}
      BY <1>1, <2>2 DEF Range
    <3>2. DepSet(graph'.dependsOn, completed'[i]) = Deps(n)
      BY <1>1, <2>2 DEF Deps
    <3>3. QED BY <3>1, <3>2
  <2>3. i \in DOMAIN completed \/ i = Len(completed) + 1
    BY <1>1
  <2>4. QED BY <2>1, <2>2, <2>3
<1>4. QED BY <1>2, <1>3 DEF OrderInv, Deps

LEMMA SpindleOrders ==
    ASSUME SpindleTypeOK, PlanInv, DoneInv, OrderInv, [SpindleNext]_spVars
    PROVE  OrderInv'
<1>1. CASE BeginRun \/ BeginParallel
  <2>1. completed' = <<>>
    BY <1>1 DEF BeginRun, BeginParallel, Begin
  <2>2. IsInjective(<<>>) /\ DOMAIN <<>> = {}
    BY DEF IsInjective
  <2>3. QED BY <2>1, <2>2 DEF OrderInv
<1>2. ASSUME NEW n \in Nodes, NodeReturns(n) \/ CollectResult(n) PROVE OrderInv'
  <2>1. Going /\ n \in Active /\ graph' = graph /\ completed' = Append(completed, n)
    BY <1>2 DEF NodeReturns, CollectResult, Collected, Going, Active
  <2>2. n \notin Range(completed) /\ Deps(n) \subseteq Range(completed)
    BY <2>1 DEF PlanInv, DoneInv, Unsettled, Open
  <2>3. QED BY <2>1, <2>2, OrderExtended
<1>3. ASSUME graph' = graph, completed' = completed PROVE OrderInv'
  BY <1>3 DEF OrderInv, Deps
<1>4. ASSUME VisitNode \/ OpenWave \/ SubmitWave \/ CloseWave \/ CompensateNode \/ Return
             \/ (\E n \in Nodes : NodeRaises(n) \/ FilterNode(n) \/ WorkerStarts(n) \/ WorkerReturns(n)
                    \/ WorkerRaises(n) \/ CollectError(n) \/ Interrupt(n))
             \/ UNCHANGED spVars
      PROVE  graph' = graph /\ completed' = completed
  BY <1>4 DEF VisitNode, OpenWave, SubmitWave, CloseWave, CompensateNode, Return, NodeRaises, FilterNode,
              WorkerStarts, WorkerReturns, WorkerRaises, CollectError, Interrupt, spVars
<1>5. QED BY <1>1, <1>2, <1>3, <1>4 DEF SpindleNext, SpindleStep

\* The saga turns back with every completed node still to visit.
LEMMA TurnsBack ==
    ASSUME SpindleTypeOK, DoneInv, Going, completed' = completed, effect' = effect,
           compensated' = compensated, left' = Len(completed), \A n \in Nodes : future[n] # "ok"
    PROVE  BackInv'
<1>1. completed \in Seq(Nodes) /\ Len(completed) \in Nat /\ DOMAIN completed = 1 .. Len(completed)
  BY DEF SpindleTypeOK
<1>2. /\ \A n \in Nodes : effect[n] = (IF n \in Range(completed) THEN "applied" ELSE "none")
      /\ compensated = <<>>
  BY DEF DoneInv
<1>3. \A i \in DOMAIN completed : i <= left' /\ effect[completed[i]] = "applied"
  BY <1>1, <1>2 DEF Range
<1>4. PICK X : X = Undone'
  OBVIOUS
<1>5. KeptUpTo(Reverse(completed), X)[0] = <<>>
  BY <1>1, ReversedSequence, KeptSteps
<1>6. Len(completed') - left' = 0
  BY <1>1
<1>7. QED BY <1>2, <1>3, <1>4, <1>5, <1>6 DEF BackInv

\* The saga visits the last completed node it has not visited.
LEMMA VisitsBack ==
    ASSUME SpindleTypeOK, OrderInv, BackInv, CompensateNode
    PROVE  BackInv'
<1>1. PICK n : n = completed[left]
  OBVIOUS
<1>2. PICK L : L = Len(completed)
  OBVIOUS
<1>3. /\ completed \in Seq(Nodes) /\ L \in Nat /\ DOMAIN completed = 1 .. L /\ left \in 1 .. L
      /\ n \in Nodes /\ left' = left - 1 /\ completed' = completed /\ phase = "compensate"
      /\ \/ effect' = [effect EXCEPT ![n] = "undone"] /\ compensated' = Append(compensated, n)
         \/ effect' = [effect EXCEPT ![n] = "kept"] /\ compensated' = compensated
  BY <1>1, <1>2 DEF CompensateNode, NextToUndo, SpindleTypeOK
<1>4. /\ \A i \in 1 .. L : IF i <= left THEN effect[completed[i]] = "applied"
                           ELSE effect[completed[i]] \in {"undone", "kept"}
      /\ \A m \in Nodes \ Range(completed) : effect[m] = "none"
      /\ compensated = KeptUpTo(Reverse(completed), Undone)[L - left]
  BY <1>2, <1>3 DEF BackInv
<1>5. \A i \in 1 .. L : completed[i] \in Nodes /\ (i # left => completed[i] # n)
  BY <1>1, <1>3 DEF OrderInv, IsInjective
<1>6. effect'[n] \in {"undone", "kept"} /\ \A m \in Nodes : m # n => effect'[m] = effect[m]
  BY <1>3 DEF SpindleTypeOK
<1>7. \A i \in 1 .. L : IF i <= left' THEN effect'[completed[i]] = "applied"
                        ELSE effect'[completed[i]] \in {"undone", "kept"}
  <2>1. ASSUME NEW i \in 1 .. L
        PROVE  IF i <= left' THEN effect'[completed[i]] = "applied"
               ELSE effect'[completed[i]] \in {"undone", "kept"}
    <3>1. CASE i = left
      BY <1>1, <1>3, <1>6, <3>1
    <3>2. CASE i # left
      <4>1. effect'[completed[i]] = effect[completed[i]]
        BY <1>5, <1>6, <3>2
      <4>2. i <= left' <=> i <= left
        BY <1>3, <3>2
      <4>3. QED BY <1>4, <4>1, <4>2
    <3>3. QED BY <3>1, <3>2
  <2>2. QED BY <2>1
<1>8. \A m \in Nodes \ Range(completed) : effect'[m] = "none"
  <2>1. n \in Range(completed)
    BY <1>1, <1>3 DEF Range
  <2>2. QED BY <1>4, <1>6, <2>1
<1>9. compensated' = KeptUpTo(Reverse(completed), Undone')[L - left']
  <2>1. PICK s \in Seq(Nodes) : /\ s = Reverse(completed) /\ Len(s) = L
                                /\ \A i \in 1 .. L : s[i] = completed[L - i + 1]
    BY <1>2, <1>3, ReversedSequence
  <2>2. PICK k : k = L - left
    OBVIOUS
  <2>3. /\ k \in 0 .. L /\ k + 1 \in 1 .. L /\ L - left' = k + 1 /\ (k + 1) - 1 = k
        /\ L - (k + 1) + 1 = left
    BY <1>3, <2>2
  <2>4. s[k + 1] = n
    BY <1>1, <2>1, <2>3
  <2>5. PICK X : X = Undone
    OBVIOUS
  <2>6. PICK Y : Y = Undone'
    OBVIOUS
  <2>7. \A i \in 1 .. k : s[i] \in X <=> s[i] \in Y
    <3>1. ASSUME NEW i \in 1 .. k PROVE s[i] \in X <=> s[i] \in Y
      <4>1. L - i + 1 \in 1 .. L /\ L - i + 1 # left /\ i \in 1 .. L
        BY <1>3, <2>2, <2>3
      <4>2. s[i] \in Nodes /\ s[i] # n
        BY <1>5, <2>1, <4>1
      <4>3. QED BY <1>6, <2>5, <2>6, <4>2 DEF Undone
    <3>2. QED BY <3>1
  <2>8. KeptUpTo(s, X)[k] = KeptUpTo(s, Y)[k]
    <3>1. k \in 0 .. Len(s)
      BY <2>1, <2>3
    <3>2. QED BY <2>7, <3>1, KeptAgrees
  <2>9. compensated = KeptUpTo(s, Y)[k]
    BY <1>4, <2>1, <2>2, <2>5, <2>8
  <2>10. KeptUpTo(s, Y)[k + 1] =
            (IF s[k + 1] \in Y THEN Append(KeptUpTo(s, Y)[k], s[k + 1]) ELSE KeptUpTo(s, Y)[k])
    <3>1. \A i \in 1 .. Len(s) :
             KeptUpTo(s, Y)[i] = (IF s[i] \in Y THEN Append(KeptUpTo(s, Y)[i - 1], s[i])
                                  ELSE KeptUpTo(s, Y)[i - 1])
      BY KeptSteps
    <3>2. k + 1 \in 1 .. Len(s)
      BY <2>1, <2>3
    <3>3. QED BY <2>3, <3>1, <3>2
  <2>11. n \in Y <=> effect'[n] = "undone"
    BY <1>3, <2>6 DEF Undone
  <2>12. compensated' = (IF n \in Y THEN Append(compensated, n) ELSE compensated)
    BY <1>3, <2>11 DEF SpindleTypeOK
  <2>13. QED BY <2>1, <2>3, <2>4, <2>6, <2>9, <2>10, <2>12
<1>10. QED BY <1>2, <1>3, <1>7, <1>8, <1>9 DEF BackInv

LEMMA SpindleTurns ==
    ASSUME SpindleTypeOK, PhaseInv, DoneInv, OrderInv, BackInv, [SpindleNext]_spVars
    PROVE  BackInv'
<1>1. ASSUME NEW n \in Nodes, NodeRaises(n) PROVE BackInv'
  <2>1. /\ Going /\ phase = "node" /\ future[n] = "running" /\ completed' = completed
        /\ effect' = effect /\ compensated' = compensated /\ left' = Len(completed)
    BY <1>1 DEF NodeRaises, Going
  <2>2. \A m \in Nodes : future[m] # "ok"
    BY <2>1 DEF PhaseInv, Active
  <2>3. QED BY <2>1, <2>2, TurnsBack
<1>2. CASE CloseWave
  <2>1. CASE phase' = "waves"
    BY <2>1 DEF BackInv
  <2>2. CASE phase' # "waves"
    <3>1. /\ Going /\ completed' = completed /\ effect' = effect /\ compensated' = compensated
          /\ left' = Len(completed) /\ \A m \in Nodes : future[m] # "ok"
      BY <1>2, <2>2 DEF CloseWave, WaveDone, Going
    <3>2. QED BY <3>1, TurnsBack
  <2>3. QED BY <2>1, <2>2
<1>3. CASE CompensateNode
  BY <1>3, VisitsBack
<1>4. ASSUME Return \/ (\E n \in Nodes : Interrupt(n)) \/ UNCHANGED spVars PROVE BackInv'
  <2>1. /\ completed' = completed /\ effect' = effect /\ compensated' = compensated /\ left' = left
        /\ failedNode' = failedNode
    BY <1>4 DEF Return, Interrupt, spVars
  <2>2. phase' = "compensate" \/ (phase' = "returned" /\ failedNode' # NoNode) =>
           phase = "compensate" \/ (phase = "returned" /\ failedNode # NoNode)
    BY <1>4, <2>1 DEF Return, Interrupt, spVars, PhaseInv
  <2>3. QED BY <2>1, <2>2 DEF BackInv, Undone
<1>5. ASSUME BeginRun \/ BeginParallel \/ VisitNode \/ OpenWave \/ SubmitWave
             \/ (\E n \in Nodes : NodeReturns(n) \/ FilterNode(n) \/ WorkerStarts(n) \/ WorkerReturns(n)
                    \/ WorkerRaises(n) \/ CollectResult(n) \/ CollectError(n))
      PROVE  phase' \notin {"compensate", "returned"}
  BY <1>5 DEF BeginRun, BeginParallel, VisitNode, OpenWave, SubmitWave, NodeReturns, FilterNode, WorkerStarts,
              WorkerReturns, WorkerRaises, CollectResult, CollectError
<1>6. CASE phase' \notin {"compensate", "returned"}
  BY <1>6 DEF BackInv
<1>7. QED BY <1>1, <1>2, <1>3, <1>4, <1>5, <1>6 DEF SpindleNext, SpindleStep

LEMMA SpindleExplains ==
    ASSUME SpindleTypeOK, PhaseInv, DoneInv, SkippedIsExplained, [SpindleNext]_spVars
    PROVE  SkippedIsExplained'
<1>1. CASE Return /\ phase \in {"run", "waves"}
  <2>1. /\ Going /\ plan = <<>> /\ unfiltered = {} /\ Active = {} /\ failedNode = NoNode
        /\ interrupted' = interrupted /\ completed' = completed /\ graph' = graph
    BY <1>1 DEF Return, Going, PhaseInv
  <2>2. Unsettled = {}
    <3>1. Singles(<<>>) = <<>> /\ Range(<<>>) = {}
      BY DEF Singles, Range
    <3>2. QED BY <2>1, <3>1 DEF Unsettled, Open, Todo, Layers
  <2>3. \A n \in Nodes : n \in Range(completed) \/ LeftOut(n)
    BY <2>1, <2>2 DEF DoneInv
  <2>4. QED BY <2>1, <2>3 DEF SkippedIsExplained, LeftOut, Deps
<1>2. CASE Return /\ phase = "compensate"
  BY <1>2 DEF Return, PhaseInv, SkippedIsExplained
<1>3. ASSUME (\E n \in Nodes : Interrupt(n)) \/ UNCHANGED spVars PROVE SkippedIsExplained'
  BY <1>3 DEF Interrupt, spVars, SkippedIsExplained, Deps
<1>4. ASSUME BeginRun \/ BeginParallel \/ VisitNode \/ OpenWave \/ SubmitWave \/ CloseWave \/ CompensateNode
             \/ (\E n \in Nodes : NodeReturns(n) \/ NodeRaises(n) \/ FilterNode(n) \/ WorkerStarts(n)
                    \/ WorkerReturns(n) \/ WorkerRaises(n) \/ CollectResult(n) \/ CollectError(n))
      PROVE  phase' # "returned"
  BY <1>4 DEF BeginRun, BeginParallel, VisitNode, OpenWave, SubmitWave, CloseWave, CompensateNode, NodeReturns,
              NodeRaises, FilterNode, WorkerStarts, WorkerReturns, WorkerRaises, CollectResult, CollectError
<1>5. CASE phase' # "returned"
  BY <1>5 DEF SkippedIsExplained
<1>6. CASE Return
  BY <1>1, <1>2, <1>6 DEF Return
<1>7. QED BY <1>3, <1>4, <1>5, <1>6 DEF SpindleNext, SpindleStep

-----------------------------------------------------------------------------
(* What a failed run leaves behind. *)

LEMMA SpindleSteps == SpindleInv /\ [SpindleNext]_spVars => SpindleInv'
BY SpindleTypes, SpindlePhases, SpindlePlans, SpindleDone, SpindleOrders, SpindleTurns, SpindleExplains
DEF SpindleInv

LEMMA UndoneInTheEnd == SpindleInv => FailedRunIsUndone
<1> SUFFICES ASSUME SpindleInv PROVE FailedRunIsUndone
  OBVIOUS
<1>1. SkippedIsExplained
  BY DEF SpindleInv
<1>2. ASSUME phase = "returned", failedNode # NoNode
      PROVE  /\ compensated = InOrder(Reverse(completed), Undone)
             /\ \A n \in Nodes : effect[n] # "applied"
  <2>1. /\ completed \in Seq(Nodes) /\ DOMAIN completed = 1 .. Len(completed)
        /\ Len(completed) \in Nat /\ left = 0
    BY <1>2 DEF SpindleInv, SpindleTypeOK
  <2>2. /\ \A i \in DOMAIN completed : effect[completed[i]] \in {"undone", "kept"}
        /\ \A n \in Nodes \ Range(completed) : effect[n] = "none"
        /\ compensated = KeptUpTo(Reverse(completed), Undone)[Len(completed)]
    BY <1>2, <2>1 DEF SpindleInv, BackInv
  <2>3. Len(Reverse(completed)) = Len(completed)
    BY <2>1, ReversedSequence
  <2>4. \A n \in Range(completed) : effect[n] # "applied"
    BY <2>2 DEF Range
  <2>5. QED BY <2>2, <2>3, <2>4 DEF InOrder
<1>3. QED
  BY <1>1, <1>2 DEF FailedRunIsUndone, UnwoundInReverse, FailedRunLeavesNothing, Undone

\* Whatever fails, is interrupted, or was left by an earlier run: a failed run has
\* undone in reverse order all it could, and a run without a failure leaves out only
\* what was interrupted and what depends on it.
THEOREM FailuresUndone == SpindleSpec => []FailedRunIsUndone
BY SpindleStarts, SpindleSteps, UndoneInTheEnd, PTL DEF SpindleSpec

-----------------------------------------------------------------------------
(* The executor carries out a saga. *)

SagaDeps == [n \in Nodes |-> Deps(n)]

LEMMA SagaStarts == SpindleInit => AbstractSaga!Init
<1> SUFFICES ASSUME SpindleInit PROVE AbstractSaga!Init
  OBVIOUS
<1>1. \A n \in Nodes : Deps(n) \subseteq Nodes
  BY SpindleStarts, DepsAreNodes DEF SpindleInv
<1>2. SagaDeps \in [Nodes -> SUBSET Nodes]
  BY <1>1 DEF SagaDeps
<1>3. Course = "idle" /\ effect = [n \in Nodes |-> "none"]
  BY DEF SpindleInit, Course
<1>4. QED BY <1>2, <1>3 DEF AbstractSaga!Init, SagaDeps

LEMMA SagaSteps ==
    ASSUME SpindleInv, SpindleInv', [SpindleNext]_spVars
    PROVE  [AbstractSaga!Next]_(AbstractSaga!vars)
<1> DEFINE deps == [n \in Nodes |-> Deps(n)]
<1>1. graph' = graph
  BY DEF SpindleNext, SpindleStep, BeginRun, BeginParallel, Begin, VisitNode, OpenWave, SubmitWave, CloseWave,
         CompensateNode, Return, NodeReturns, NodeRaises, FilterNode, WorkerStarts, WorkerReturns, WorkerRaises,
         CollectResult, CollectError, Interrupt, spVars
<1>2. deps' = deps
  BY <1>1 DEF Deps
<1>3. SpindleTypeOK /\ PhaseInv /\ PlanInv /\ DoneInv /\ OrderInv /\ BackInv
  BY DEF SpindleInv
<1>4. CASE BeginRun \/ BeginParallel
  <2>1. /\ Course \in {"idle", "ended"} /\ Course' = "forward" /\ effect' = [n \in Nodes |-> "none"]
    BY <1>4 DEF BeginRun, BeginParallel, Begin, Course
  <2>2. AbstractSaga!Begin
    BY <1>2, <2>1 DEF AbstractSaga!Begin
  <2>3. QED BY <2>2 DEF AbstractSaga!Next
<1>5. ASSUME NEW n \in Nodes, NodeReturns(n) \/ WorkerReturns(n)
      PROVE  AbstractSaga!Next
  <2>1. /\ Going /\ future[n] = "running" /\ effect' = [effect EXCEPT ![n] = "applied"]
        /\ Course = "forward" /\ Course' = "forward"
    BY <1>5 DEF NodeReturns, WorkerReturns, Going, Course
  <2>2. n \in Active /\ n \in Unsettled
    BY <2>1 DEF Active, Open, Unsettled
  <2>3. effect[n] = "none"
    BY <1>3, <2>1, <2>2 DEF DoneInv
  <2>4. \A d \in Deps(n) : effect[d] = "applied"
    BY <1>3, <2>1, <2>2, DepsAreNodes DEF PlanInv, DoneInv
  <2>5. deps[n] = Deps(n)
    OBVIOUS
  <2>6. AbstractSaga!Apply(n)
    BY <1>2, <2>1, <2>3, <2>4, <2>5 DEF AbstractSaga!Apply
  <2>7. QED BY <2>6 DEF AbstractSaga!Next
<1>6. CASE (\E n \in Nodes : NodeRaises(n)) \/ (CloseWave /\ phase' = "compensate")
  <2>1. Course = "forward" /\ Course' = "backward" /\ effect' = effect
    BY <1>6 DEF NodeRaises, CloseWave, Course
  <2>2. AbstractSaga!TurnBack
    BY <1>2, <2>1 DEF AbstractSaga!TurnBack
  <2>3. QED BY <2>2 DEF AbstractSaga!Next
<1>7. CASE CompensateNode
  <2>1. PICK n : n = completed[left]
    OBVIOUS
  <2>2. /\ completed \in Seq(Nodes) /\ DOMAIN completed = 1 .. Len(completed) /\ left \in DOMAIN completed
        /\ n \in Nodes /\ phase = "compensate" /\ phase' = "compensate"
        /\ \/ effect' = [effect EXCEPT ![n] = "undone"]
           \/ effect' = [effect EXCEPT ![n] = "kept"]
    BY <1>3, <1>7, <2>1 DEF CompensateNode, NextToUndo, SpindleTypeOK
  <2>3. /\ \A i \in DOMAIN completed : IF i <= left THEN effect[completed[i]] = "applied"
                                       ELSE effect[completed[i]] \in {"undone", "kept"}
        /\ \A m \in Nodes \ Range(completed) : effect[m] = "none"
    BY <1>3, <2>2 DEF BackInv
  <2>4. effect[n] = "applied"
    BY <2>1, <2>2, <2>3
  <2>5. ASSUME NEW m \in Nodes, n \in Deps(m), effect[m] = "applied" PROVE FALSE
    <3>1. PICK i \in DOMAIN completed : completed[i] = m
      BY <2>3, <2>5 DEF Range
    <3>2. i <= left
      BY <2>3, <2>5, <3>1
    <3>3. PICK k \in 1 .. i - 1 : completed[k] = n
      BY <1>3, <2>5, <3>1 DEF OrderInv
    <3>4. k \in DOMAIN completed /\ k # left
      BY <2>2, <3>2, <3>3
    <3>5. QED BY <1>3, <2>1, <2>2, <3>3, <3>4 DEF OrderInv, IsInjective
  <2>6. Course = "backward" /\ Course' = "backward"
    BY <2>2 DEF Course
  <2>7. \A m \in Nodes : deps[m] = Deps(m)
    OBVIOUS
  <2>8. AbstractSaga!Visit(n)
    BY <1>2, <2>2, <2>4, <2>5, <2>6, <2>7 DEF AbstractSaga!Visit
  <2>9. QED BY <2>2, <2>8 DEF AbstractSaga!Next
<1>8. CASE Return
  <2>1. effect' = effect /\ Course' = "ended"
    BY <1>8 DEF Return, Course
  <2>2. Course = "forward" \/ (Course = "backward" /\ \A n \in Nodes : effect[n] # "applied")
    <3>1. CASE phase \in {"run", "waves"}
      BY <3>1 DEF Course
    <3>2. CASE phase = "compensate" /\ left = 0
      <4>1. DOMAIN completed = 1 .. Len(completed)
        BY <1>3 DEF SpindleTypeOK
      <4>2. \A n \in Nodes : effect[n] # "applied"
        BY <1>3, <3>2, <4>1 DEF BackInv, Range
      <4>3. QED BY <3>2, <4>2 DEF Course
    <3>3. QED BY <1>8, <3>1, <3>2 DEF Return
  <2>3. AbstractSaga!End
    BY <1>2, <2>1, <2>2 DEF AbstractSaga!End
  <2>4. QED BY <2>3 DEF AbstractSaga!Next
<1>9. ASSUME \/ VisitNode \/ OpenWave \/ SubmitWave \/ (CloseWave /\ phase' # "compensate")
             \/ \E n \in Nodes : \/ FilterNode(n) \/ WorkerStarts(n) \/ WorkerRaises(n)
                                 \/ CollectResult(n) \/ CollectError(n) \/ Interrupt(n)
             \/ UNCHANGED spVars
      PROVE  UNCHANGED AbstractSaga!vars
  <2>1. effect' = effect
    BY <1>9 DEF VisitNode, OpenWave, SubmitWave, CloseWave, FilterNode, WorkerStarts, WorkerRaises, CollectResult,
                CollectError, Interrupt, spVars
  <2>2. \/ phase' = phase
        \/ phase \in {"run", "node", "waves", "filter", "pool"} /\ phase' \in {"run", "node", "waves", "filter", "pool"}
    BY <1>9 DEF VisitNode, OpenWave, SubmitWave, CloseWave, FilterNode, WorkerStarts, WorkerRaises, CollectResult,
                CollectError, Interrupt, spVars
  <2>3. Course' = Course
    BY <2>2 DEF Course
  <2>4. QED BY <1>2, <2>1, <2>3 DEF AbstractSaga!vars
<1>10. QED
  BY <1>4, <1>5, <1>6, <1>7, <1>8, <1>9 DEF SpindleNext, SpindleStep

\* Both run methods implement the saga: an effect is applied after those it depends
\* on, undone before them, and none is left unvisited when a failed run returns.
THEOREM SagaImplemented == SpindleSpec => ImplementsSaga
<1>1. SpindleInv /\ SpindleInv' /\ [SpindleNext]_spVars => [AbstractSaga!Next]_(AbstractSaga!vars)
  BY SagaSteps
<1>2. QED
  BY <1>1, SpindleStarts, SpindleSteps, SagaStarts, PTL DEF SpindleSpec, ImplementsSaga, AbstractSaga!Spec

-----------------------------------------------------------------------------
(* Plans of code and build tasks. *)

\* A set of numbers up to n has a least and a greatest element.
LEMMA EndsOf ==
    ASSUME NEW n \in Nat, NEW S \in SUBSET (1 .. n), S # {}
    PROVE  /\ \E m \in S : \A y \in S : m <= y
           /\ Max(S) \in S /\ \A y \in S : Max(S) >= y
<1> DEFINE L == {k \in Nat : (\E x \in S : x <= k) => \E m \in S : \A y \in S : m <= y}
           G == {k \in Nat : (\E x \in S : x <= k) => \E m \in S : m <= k /\ \A y \in S : y <= k => m >= y}
<1>0. \A x \in S : x \in Nat /\ x >= 1 /\ x <= n
  OBVIOUS
<1>1. 0 \in L /\ 0 \in G
  BY <1>0
<1>2. ASSUME NEW k \in Nat, k \in L PROVE k + 1 \in L
  <2>1. CASE \E x \in S : x <= k
    BY <1>2, <2>1
  <2>2. CASE ~\E x \in S : x <= k
    <3>1. \A y \in S : k + 1 <= y
      BY <1>0, <2>2
    <3>2. ASSUME NEW x \in S, x <= k + 1 PROVE x = k + 1
      BY <1>0, <3>1, <3>2
    <3>3. QED BY <3>1, <3>2
  <2>3. QED BY <2>1, <2>2
<1>3. ASSUME NEW k \in Nat, k \in G PROVE k + 1 \in G
  <2>1. CASE k + 1 \in S
    <3>1. \A y \in S : y <= k + 1 => k + 1 >= y
      BY <1>0
    <3>2. QED BY <2>1, <3>1
  <2>2. CASE k + 1 \notin S
    <3>1. \A y \in S : y <= k + 1 <=> y <= k
      BY <1>0, <2>2
    <3>2. QED BY <1>0, <1>3, <3>1
  <2>3. QED BY <2>1, <2>2
<1>4. n \in L /\ n \in G
  <2> HIDE DEF L, G
  <2>1. QED BY <1>1, <1>2, <1>3, NatSetInduction
<1>5. \E m \in S : \A y \in S : m <= y
  BY <1>0, <1>4
<1>6. \E m \in S : \A y \in S : m >= y
  BY <1>0, <1>4
<1>7. QED BY <1>5, <1>6 DEF Max

\* Of a plan that is not refused.
Plans == {tasks \in Seq(PlanTasks) : tasks # <<>> /\ \A i \in DOMAIN tasks : tasks[i].type # "unknown"}

LEMMA PlanGraph ==
    ASSUME NEW tasks \in Plans, NEW n \in Nat, n = Len(tasks)
    PROVE  /\ IsGraph(PlanIds(tasks), PlanDeps(tasks)) /\ Range(PlanIds(tasks)) = 1 .. n /\ Len(PlanIds(tasks)) = n
           /\ CodeNodes(tasks) \subseteq 1 .. n
           /\ \A i \in 1 .. n : /\ IsInjective(PlanDeps(tasks)[i])
                                /\ DepSet(PlanDeps(tasks), i) \subseteq CodeNodes(tasks)
                                /\ i \in CodeNodes(tasks) => \A d \in DepSet(PlanDeps(tasks), i) : d < i
                                /\ i \in CodeNodes(tasks) => \A c \in CodeNodes(tasks) :
                                     c < i => \E d \in DepSet(PlanDeps(tasks), i) : c <= d
                                /\ i \notin CodeNodes(tasks) => \A c \in CodeNodes(tasks) :
                                     \E d \in DepSet(PlanDeps(tasks), i) : c <= d
<1>1. DOMAIN tasks = 1 .. n
  BY DEF Plans
<1>2. PICK C : C = CodeNodes(tasks) /\ C \in SUBSET (1 .. n)
  BY <1>1 DEF CodeNodes
<1>3. PICK ns : ns = PlanIds(tasks) /\ ns = [i \in 1 .. n |-> i]
  BY <1>1 DEF PlanIds
<1>4. Range(ns) = 1 .. n
  BY <1>3 DEF Range
<1>5. ns \in Seq(1 .. n) /\ Len(ns) = n /\ IsInjective(ns)
  BY <1>3 DEF IsInjective
<1>6. PICK dep : dep = PlanDeps(tasks) /\ dep = [i \in 1 .. n |-> IF i \in C THEN CodeDeps(tasks, i) ELSE BuildDeps(tasks)]
  BY <1>1, <1>2 DEF PlanDeps
<1>7. ASSUME NEW i \in 1 .. n, NEW B \in SUBSET C,
             dep[i] = (IF B = {} THEN <<>> ELSE <<Max(B)>>)
      PROVE  /\ dep[i] \in Seq(1 .. n) /\ IsInjective(dep[i]) /\ DepSet(dep, i) \subseteq B
             /\ \A c \in B : \E d \in DepSet(dep, i) : c <= d
  <2>1. CASE B = {}
    <3>1. dep[i] = <<>>
      BY <1>7, <2>1
    <3>2. Range(dep[i]) = {}
      BY <3>1 DEF Range
    <3>3. QED BY <2>1, <3>1, <3>2 DEF IsInjective, DepSet
  <2>2. CASE B # {}
    <3>1. PICK m : m = Max(B) /\ m \in B /\ (\A y \in B : m >= y) /\ m \in 1 .. n
      <4>1. B \in SUBSET (1 .. n)
        BY <1>2
      <4>2. QED BY <2>2, <4>1, EndsOf
    <3>2. dep[i] = <<m>>
      BY <1>7, <2>2, <3>1
    <3>3. <<m>> \in Seq(1 .. n) /\ DOMAIN <<m>> = {1} /\ <<m>>[1] = m
      BY <3>1
    <3>4. Range(dep[i]) = {m} /\ IsInjective(dep[i])
      BY <3>2, <3>3 DEF Range, IsInjective
    <3>5. \A y \in B : y <= m
      BY <1>2, <3>1
    <3>6. QED BY <3>1, <3>2, <3>3, <3>4, <3>5 DEF DepSet
  <2>3. QED BY <2>1, <2>2
<1>8. ASSUME NEW i \in C
      PROVE  /\ dep[i] \in Seq(1 .. n) /\ IsInjective(dep[i]) /\ DepSet(dep, i) \subseteq {j \in C : j < i}
             /\ \A c \in C : c < i => \E d \in DepSet(dep, i) : c <= d
  <2>1. PICK B : B = {j \in C : j < i}
    OBVIOUS
  <2>2. i \in 1 .. n /\ B \in SUBSET C
    BY <1>2, <2>1
  <2>3. dep[i] = IF B = {} THEN <<>> ELSE <<Max(B)>>
    BY <1>2, <1>6, <2>1, <2>2 DEF CodeDeps
  <2>4. QED BY <1>7, <2>1, <2>2, <2>3
<1>9. ASSUME NEW i \in (1 .. n) \ C
      PROVE  /\ dep[i] \in Seq(1 .. n) /\ IsInjective(dep[i]) /\ DepSet(dep, i) \subseteq C
             /\ \A c \in C : \E d \in DepSet(dep, i) : c <= d
  <2>1. dep[i] = IF C = {} THEN <<>> ELSE <<Max(C)>>
    BY <1>2, <1>6 DEF BuildDeps
  <2>2. C \in SUBSET C
    OBVIOUS
  <2>3. QED BY <1>7, <2>1, <2>2
<1>10. IsGraph(ns, dep)
  <2>1. \A i \in 1 .. n : dep[i] \in Seq(1 .. n)
    BY <1>8, <1>9
  <2>2. QED BY <1>4, <1>5, <2>1 DEF IsGraph
<1>11. \A i \in 1 .. n : /\ IsInjective(dep[i]) /\ DepSet(dep, i) \subseteq C
                         /\ i \in C => \A d \in DepSet(dep, i) : d < i
                         /\ i \in C => \A c \in C : c < i => \E d \in DepSet(dep, i) : c <= d
                         /\ i \notin C => \A c \in C : \E d \in DepSet(dep, i) : c <= d
  BY <1>8, <1>9
<1>12. QED BY <1>2, <1>3, <1>4, <1>5, <1>6, <1>10, <1>11

\* The order of a plan: every task once, code in the order of the list, builds last.
LEMMA PlanOrder ==
    ASSUME NEW tasks \in Plans, NEW order, order = TopologicalOrder(PlanIds(tasks), PlanDeps(tasks))
    PROVE  /\ order \in Seq(DOMAIN tasks) /\ Len(order) = Len(tasks)
           /\ \A i, j \in DOMAIN order : i < j /\ order[j] \in CodeNodes(tasks) =>
                order[i] \in CodeNodes(tasks) /\ order[i] < order[j]
<1>1. PICK n \in Nat : n = Len(tasks) /\ DOMAIN tasks = 1 .. n
  <2>1. Len(tasks) \in Nat /\ DOMAIN tasks = 1 .. Len(tasks)
    BY DEF Plans
  <2>2. QED BY <2>1
<1>2. PICK ns, dep, C : ns = PlanIds(tasks) /\ dep = PlanDeps(tasks) /\ C = CodeNodes(tasks)
  OBVIOUS
<1>3. /\ IsGraph(ns, dep) /\ Range(ns) = 1 .. n /\ Len(ns) = n /\ C \subseteq 1 .. n
      /\ \A i \in 1 .. n : /\ IsInjective(dep[i]) /\ DepSet(dep, i) \subseteq C
                           /\ i \in C => \A d \in DepSet(dep, i) : d < i
                           /\ i \in C => \A c \in C : c < i => \E d \in DepSet(dep, i) : c <= d
                           /\ i \notin C => \A c \in C : \E d \in DepSet(dep, i) : c <= d
  BY <1>1, <1>2, PlanGraph
<1>4. ~HasCycle(ns, dep)
  <2>1. SUFFICES ASSUME NEW S \in SUBSET (1 .. n), S # {} PROVE \E i \in S : DepSet(dep, i) \cap S = {}
    BY <1>3 DEF HasCycle
  <2>2. CASE S \cap C = {}
    BY <1>3, <2>1, <2>2
  <2>3. CASE S \cap C # {}
    <3>1. PICK m \in S \cap C : \A y \in S \cap C : m <= y
      <4>1. PICK B : B = S \cap C /\ B \in SUBSET (1 .. n) /\ B # {}
        BY <2>3
      <4>2. QED BY <4>1, EndsOf
    <3>2. \A d \in DepSet(dep, m) : d < m /\ d \in C /\ d \in 1 .. n /\ m \in 1 .. n
      BY <1>3
    <3>3. ASSUME NEW d \in DepSet(dep, m), d \in S PROVE FALSE
      <4>1. m <= d
        BY <3>1, <3>2, <3>3
      <4>2. d \in Int /\ m \in Int
        BY <3>2, <3>3
      <4>3. QED BY <3>2, <3>3, <4>1, <4>2
    <3>4. QED BY <3>3
  <2>4. QED BY <2>2, <2>3
<1>5. ~OrderRaises(ns, dep)
  BY <1>3, <1>4, RaisesOnCycle
<1>6. /\ order \in Seq(1 .. n) /\ IsInjective(order) /\ Len(order) = n
      /\ \A i \in DOMAIN order : DepSet(dep, order[i]) \subseteq {order[j] : j \in 1 .. i - 1}
  <2>1. order = TopologicalOrder(ns, dep)
    BY <1>2
  <2>2. /\ order \in Seq(Range(ns)) /\ IsInjective(order)
        /\ \A i \in DOMAIN order : DepSet(dep, order[i]) \subseteq {order[j] : j \in 1 .. i - 1}
    BY <1>3, <2>1, OrderFacts
  <2>3. Len(order) = n
    BY <1>3, <1>5, <2>1 DEF OrderRaises
  <2>4. QED BY <1>3, <2>2, <2>3
<1>7. DOMAIN order = 1 .. n /\ \A i \in 1 .. n : order[i] \in 1 .. n
  BY <1>6
\* All code before a code task in the list stands before it in the order.
<1> DEFINE T == {k \in Nat : \A i \in 1 .. n : order[i] \in C /\ order[i] <= k =>
                   \A c \in C : c < order[i] => \E j \in 1 .. i - 1 : order[j] = c}
<1>8. 0 \in T
  BY <1>7
<1>9. ASSUME NEW k \in Nat, k \in T PROVE k + 1 \in T
  <2>1. SUFFICES ASSUME NEW i \in 1 .. n, order[i] \in C, order[i] <= k + 1, NEW c \in C, c < order[i]
                 PROVE  \E j \in 1 .. i - 1 : order[j] = c
    OBVIOUS
  <2>2. PICK d \in DepSet(dep, order[i]) : c <= d
    BY <1>3, <1>7, <2>1
  <2>3. d \in C /\ d < order[i] /\ d \in 1 .. n /\ c \in 1 .. n /\ order[i] \in 1 .. n
    BY <1>3, <1>7, <2>1
  <2>4. PICK j \in 1 .. i - 1 : order[j] = d
    BY <1>6, <1>7, <2>1
  <2>5. j \in 1 .. n /\ d <= k
    BY <2>1, <2>3
  <2>6. CASE c = d
    BY <2>4, <2>6
  <2>7. CASE c # d
    <3>1. c < d
      BY <2>2, <2>3, <2>7
    <3>2. PICK h \in 1 .. j - 1 : order[h] = c
      BY <1>9, <2>3, <2>4, <2>5, <3>1
    <3>3. h \in 1 .. i - 1
      BY <2>4, <3>2
    <3>4. QED BY <3>2, <3>3
  <2>8. QED BY <2>6, <2>7
<1>10. n \in T
  <2> HIDE DEF T
  <2>1. QED BY <1>8, <1>9, NatSetInduction
<1>11. \A i \in 1 .. n : order[i] \in C => \A c \in C : c < order[i] => \E j \in 1 .. i - 1 : order[j] = c
  BY <1>7, <1>10
<1>12. ASSUME NEW i \in 1 .. n, NEW j \in 1 .. n, i < j, order[j] \in C PROVE order[i] \in C /\ order[i] < order[j]
  <2>1. order[i] # order[j]
    <3>1. i # j /\ i \in DOMAIN order /\ j \in DOMAIN order
      BY <1>7, <1>12
    <3>2. QED BY <1>6, <3>1, Zenon DEF IsInjective
  <2>2. order[i] \in 1 .. n /\ order[j] \in 1 .. n
    BY <1>7
  <2>3. ASSUME NEW h \in 1 .. i - 1, order[h] = order[j] PROVE FALSE
    <3>1. h \in DOMAIN order /\ j \in DOMAIN order /\ h # j
      BY <1>7, <1>12
    <3>2. QED BY <1>6, <2>3, <3>1, Zenon DEF IsInjective
  <2>4. order[i] \in C
    <3>1. SUFFICES ASSUME order[i] \notin C PROVE FALSE
      OBVIOUS
    <3>2. PICK d \in DepSet(dep, order[i]) : order[j] <= d
      BY <1>3, <1>12, <2>2, <3>1
    <3>3. PICK h \in 1 .. i - 1 : order[h] = d
      <4>1. DepSet(dep, order[i]) \subseteq {order[h] : h \in 1 .. i - 1}
        BY <1>6, <1>7
      <4>2. d \in {order[h] : h \in 1 .. i - 1}
        BY <3>2, <4>1
      <4>3. QED BY <4>2
    <3>4. d \in C /\ h \in 1 .. n /\ d \in 1 .. n
      <4>1. d \in C /\ C \subseteq 1 .. n
        BY <1>3, <2>2, <3>2
      <4>2. h \in 1 .. n
        BY <3>3
      <4>3. QED BY <4>1, <4>2
    <3>5. order[j] # d
      BY <2>3, <3>3
    <3>6. order[j] < d
      BY <2>2, <3>2, <3>4, <3>5
    <3>7. PICK g \in 1 .. h - 1 : order[g] = order[j]
      BY <1>11, <1>12, <3>3, <3>4, <3>6
    <3>8. g \in 1 .. i - 1
      BY <3>3, <3>7
    <3>9. QED BY <2>3, <3>7, <3>8
  <2>5. ~(order[j] < order[i])
    BY <1>11, <1>12, <2>3, <2>4
  <2>6. QED BY <2>1, <2>2, <2>4, <2>5
<1>13. QED BY <1>1, <1>2, <1>6, <1>7, <1>12

-----------------------------------------------------------------------------
(* The plan executor. *)

\* What runs, in the order of its tasks.
PlanOrdered ==
  /\ plState \in {"running", "succeeded", "failed"} =>
       /\ plPlan \in Plans /\ plOrder \in Seq(DOMAIN plPlan) /\ Len(plOrder) = Len(plPlan)
       /\ \A i, j \in DOMAIN plOrder : i < j /\ plOrder[j] \in CodeNodes(plPlan) =>
            plOrder[i] \in CodeNodes(plPlan) /\ plOrder[i] < plOrder[j]
  /\ plState \in {"idle", "refused"} => plSteps = <<>> /\ plOrder = <<>>
\* All steps but the last of a failed plan succeeded.
StepsTold ==
  /\ plSteps \in Seq(BOOLEAN) /\ Len(plSteps) <= Len(plOrder)
  /\ \A i \in DOMAIN plSteps : plSteps[i] \/ (plState = "failed" /\ i = Len(plSteps))
  /\ plState = "running" => Len(plSteps) < Len(plOrder)
  /\ plState = "succeeded" => Len(plSteps) = Len(plOrder)
\* Once a build task has looked, no code task is left.
OnlyBuildsLeft ==
  plSeen # {} => \A k \in DOMAIN plOrder : k > Len(plSteps) => plOrder[k] \notin CodeNodes(plPlan)

ExecutorInv ==
  /\ plState \in {"idle", "running", "succeeded", "failed", "refused"}
  /\ plTree \in [PlanPaths -> Contents] /\ plBefore \in [PlanPaths -> Contents]
  /\ plState \in {"idle", "refused"} => plSeen = {}
  /\ PlanOrdered /\ StepsTold /\ OnlyBuildsLeft /\ VerifiedIsDelivered /\ ModifiedIsAccountedFor

\* The executor takes a step: what holds of the plan after it.
LEMMA StepTaken ==
    ASSUME ExecutorInv, plState = "running", NEW ok \in BOOLEAN, Step(ok)
    PROVE  /\ PlanOrdered' /\ StepsTold' /\ plState' \in {"running", "succeeded", "failed"}
           /\ Len(plSteps) + 1 \in DOMAIN plOrder
           /\ \A k \in DOMAIN plOrder : k > Len(plSteps') => k > Len(plSteps) + 1 /\ k > Len(plSteps)
<1>1. Len(plSteps) \in Nat /\ Len(plOrder) \in Nat
  BY DEF ExecutorInv, PlanOrdered, StepsTold
<1>2. PICK m \in Nat, n \in Nat : m = Len(plSteps) /\ n = Len(plOrder) /\ m < n /\ DOMAIN plOrder = 1 .. n
  <2>1. plOrder \in Seq(DOMAIN plPlan) /\ Len(plSteps) < Len(plOrder)
    BY DEF ExecutorInv, PlanOrdered, StepsTold
  <2>2. DOMAIN plOrder = 1 .. Len(plOrder)
    BY <2>1
  <2>3. QED BY <1>1, <2>1, <2>2
<1>3. PICK u : u = plSteps /\ u \in Seq(BOOLEAN) /\ Len(u) = m /\ \A i \in 1 .. m : u[i] = TRUE
  <2>1. plSteps \in Seq(BOOLEAN) /\ \A i \in DOMAIN plSteps : plSteps[i]
    BY DEF ExecutorInv, StepsTold
  <2>2. \A i \in 1 .. m : plSteps[i] \in BOOLEAN /\ plSteps[i]
    BY <1>2, <2>1
  <2>3. QED BY <1>2, <2>1, <2>2
<1>4. PICK v : v = Append(u, ok) /\ v \in Seq(BOOLEAN) /\ Len(v) = m + 1 /\ v[m + 1] = ok /\ \A i \in 1 .. m : v[i] = u[i]
  <2>1. /\ Append(u, ok) \in Seq(BOOLEAN) /\ Len(Append(u, ok)) = m + 1 /\ Append(u, ok)[m + 1] = ok
        /\ \A i \in 1 .. m : Append(u, ok)[i] = u[i]
    BY <1>3, AppendProperties
  <2>2. QED BY <2>1
<1>5. /\ plSteps' = v /\ plOrder' = plOrder /\ plPlan' = plPlan
      /\ plState' = IF ok /\ m + 1 < n THEN "running" ELSE IF ok THEN "succeeded" ELSE "failed"
  BY <1>2, <1>3, <1>4 DEF Step, StepState
<1>6. plState' \in {"running", "succeeded", "failed"}
  BY <1>5
<1>7. PlanOrdered'
  BY <1>5, <1>6 DEF ExecutorInv, PlanOrdered
<1>8. StepsTold'
  <2>1. DOMAIN v = 1 .. m + 1
    BY <1>4
  <2>2. ASSUME NEW i \in 1 .. m + 1, ~v[i] PROVE plState' = "failed" /\ i = m + 1
    <3>1. CASE i = m + 1
      BY <1>4, <1>5, <2>2, <3>1
    <3>2. CASE i \in 1 .. m
      BY <1>3, <1>4, <2>2, <3>2
    <3>3. QED BY <3>1, <3>2
  <2>3. m + 1 <= n /\ (plState' = "running" => m + 1 < n) /\ (plState' = "succeeded" => m + 1 = n)
    BY <1>2, <1>5
  <2>4. QED BY <1>2, <1>4, <1>5, <2>1, <2>2, <2>3 DEF StepsTold
<1>9. QED BY <1>2, <1>4, <1>5, <1>6, <1>7, <1>8

\* A code task steps: nothing was verified before, and it may account for what it does.
LEMMA CodeSteps ==
    ASSUME ExecutorInv, plState = "running", NextTask.type \in CodeTypes, NEW ok \in BOOLEAN, Step(ok), plSeen' = plSeen,
           plTree' \in [PlanPaths -> Contents], plModified \subseteq plModified', plFaulty \subseteq plFaulty',
           \A f \in PlanPaths : plTree'[f] # plTree[f] => f \in plModified' \cup plFaulty'
    PROVE  ExecutorInv'
<1>1. /\ PlanOrdered' /\ StepsTold' /\ plState' \in {"running", "succeeded", "failed"}
      /\ Len(plSteps) + 1 \in DOMAIN plOrder
  BY StepTaken
<1>2. plOrder[Len(plSteps) + 1] \in CodeNodes(plPlan)
  <2>1. plOrder[Len(plSteps) + 1] \in DOMAIN plPlan
    BY <1>1 DEF ExecutorInv, PlanOrdered
  <2>2. QED BY <2>1 DEF NextTask, CodeNodes
<1>3. plSeen = {}
  <2>1. Len(plSteps) \in Nat
    BY DEF ExecutorInv, StepsTold
  <2>2. Len(plSteps) + 1 > Len(plSteps)
    BY <2>1
  <2>3. QED BY <1>1, <1>2, <2>2 DEF ExecutorInv, OnlyBuildsLeft
<1>4. plBefore' = plBefore
  BY DEF Step
<1>5. ModifiedIsAccountedFor'
  <2>1. ASSUME NEW f \in PlanPaths \ plFaulty', plTree'[f] # plBefore[f] PROVE f \in plModified'
    <3>1. CASE plTree'[f] = plTree[f]
      BY <2>1, <3>1 DEF ExecutorInv, ModifiedIsAccountedFor
    <3>2. CASE plTree'[f] # plTree[f]
      BY <2>1, <3>2
    <3>3. QED BY <3>1, <3>2
  <2>2. QED BY <1>4, <2>1 DEF ModifiedIsAccountedFor
<1>6. QED BY <1>1, <1>3, <1>4, <1>5 DEF ExecutorInv, OnlyBuildsLeft, VerifiedIsDelivered

LEMMA PlanSteps ==
    ASSUME ExecutorInv, [PlanNext]_plVars
    PROVE  ExecutorInv'
<1>1. ASSUME NEW n \in 0 .. MaxTasks, NEW tasks \in [1 .. n -> PlanTasks], ExecutePlan(tasks) PROVE ExecutorInv'
  <2>1. n \in Nat /\ tasks \in Seq(PlanTasks)
    BY PlanAssumption
  <2>2. /\ plState = "idle" /\ plSteps = <<>> /\ plOrder = <<>> /\ plSeen = {} /\ plPlan' = tasks
        /\ UNCHANGED <<plTree, plSteps, plModified, plBefore, plSeen, plFaulty>>
    BY <1>1 DEF ExecutePlan, ExecutorInv, PlanOrdered
  <2>3. VerifiedIsDelivered' /\ OnlyBuildsLeft' /\ ModifiedIsAccountedFor'
    BY <2>2 DEF ExecutorInv, VerifiedIsDelivered, OnlyBuildsLeft, ModifiedIsAccountedFor
  <2>4. CASE plState' = "refused" /\ plOrder' = plOrder
    BY <2>2, <2>3, <2>4 DEF ExecutorInv, PlanOrdered, StepsTold
  <2>5. CASE tasks \in Plans /\ plState' = "running" /\ plOrder' = TopologicalOrder(PlanIds(tasks), PlanDeps(tasks))
    <3>1. PICK order : order = plOrder'
      OBVIOUS
    <3>2. /\ order \in Seq(DOMAIN tasks) /\ Len(order) = Len(tasks)
          /\ \A i, j \in DOMAIN order : i < j /\ order[j] \in CodeNodes(tasks) =>
               order[i] \in CodeNodes(tasks) /\ order[i] < order[j]
      BY <2>5, <3>1, PlanOrder
    <3>3. Len(tasks) \in Nat /\ Len(tasks) > 0
      BY <2>1, <2>5 DEF Plans
    <3>4. PlanOrdered'
      BY <2>2, <2>5, <3>1, <3>2 DEF PlanOrdered
    <3>5. StepsTold'
      BY <2>2, <2>5, <3>1, <3>2, <3>3 DEF StepsTold
    <3>6. QED BY <2>2, <2>3, <2>5, <3>4, <3>5 DEF ExecutorInv
  <2>6. QED BY <1>1, <2>1, <2>4, <2>5 DEF ExecutePlan, Plans
<1>2. CASE CodeStep
  <2>1. PICK f, task : f = NextTask.path /\ task = FileTask(NextTask.type)
    OBVIOUS
  <2>2. plState = "running" /\ NextTask.type \in CodeTypes \ {"refactor"} /\ plSeen' = plSeen
    BY <1>2 DEF CodeStep
  <2>3. task.to \subseteq Contents
    BY <2>1, <2>2 DEF FileTask, CodeTypes, CreateFile, ModifyFile, EditFile, DeleteFile, Contents
  <2>4. plTree \in [PlanPaths -> Contents]
    BY DEF ExecutorInv
  <2>5. ASSUME NEW c \in Contents, plTree' = [plTree EXCEPT ![f] = c]
        PROVE  plTree' \in [PlanPaths -> Contents] /\ \A g \in PlanPaths : plTree'[g] # plTree[g] => g = f
    BY <2>4, <2>5
  <2>6. \/ /\ \E c \in task.to : plTree' = [plTree EXCEPT ![f] = c]
           /\ plModified' = plModified \cup {f} /\ Step(TRUE) /\ plFaulty' = plFaulty
        \/ Step(FALSE) /\ UNCHANGED <<plTree, plModified, plFaulty>>
        \/ /\ \E c \in IF task.to = {"absent"} THEN {plTree[f]} ELSE Failing(f) :
                plTree' = [plTree EXCEPT ![f] = c]
           /\ plFaulty' = plFaulty \cup {f} /\ Step(FALSE) /\ plModified' = plModified
    BY <1>2, <2>1 DEF CodeStep
  <2>7. CASE /\ \E c \in task.to : plTree' = [plTree EXCEPT ![f] = c]
             /\ plModified' = plModified \cup {f} /\ Step(TRUE) /\ plFaulty' = plFaulty
    <3>1. PICK c \in Contents : plTree' = [plTree EXCEPT ![f] = c]
      BY <2>3, <2>7
    <3>2. plTree' \in [PlanPaths -> Contents] /\ \A g \in PlanPaths : plTree'[g] # plTree[g] => g \in plModified' \cup plFaulty'
      BY <2>5, <2>7, <3>1
    <3>3. QED BY <2>2, <2>7, <3>2, CodeSteps
  <2>8. CASE Step(FALSE) /\ UNCHANGED <<plTree, plModified, plFaulty>>
    BY <2>2, <2>4, <2>8, CodeSteps
  <2>9. CASE /\ \E c \in IF task.to = {"absent"} THEN {plTree[f]} ELSE Failing(f) :
                  plTree' = [plTree EXCEPT ![f] = c]
             /\ plFaulty' = plFaulty \cup {f} /\ Step(FALSE) /\ plModified' = plModified
    <3>1. PICK c \in {plTree[f], "torn"} : plTree' = [plTree EXCEPT ![f] = c]
      BY <2>9 DEF Failing
    <3>2. plTree' \in [PlanPaths -> Contents]
      BY <2>4, <3>1 DEF Contents
    <3>3. \A g \in PlanPaths : plTree'[g] # plTree[g] => g = f
      BY <2>4, <3>1
    <3>4. \A g \in PlanPaths : plTree'[g] # plTree[g] => g \in plModified' \cup plFaulty'
      BY <2>9, <3>3
    <3>5. QED BY <2>2, <2>9, <3>2, <3>4, CodeSteps
  <2>10. QED BY <2>6, <2>7, <2>8, <2>9
<1>3. CASE RefactorStep
  <2>1. plState = "running" /\ NextTask.type \in CodeTypes /\ plSeen' = plSeen
    BY <1>3 DEF RefactorStep, CodeTypes
  <2>2. plTree \in [PlanPaths -> Contents]
    BY DEF ExecutorInv
  <2>3. CASE Step(FALSE) /\ UNCHANGED <<plTree, plModified, plFaulty>>
    BY <2>1, <2>2, <2>3, CodeSteps
  <2>4. ASSUME NEW found, NEW written \in SUBSET found, NEW torn \in SUBSET (found \ written),
               plTree' = [f \in PlanPaths |-> IF f \in written THEN "plain" ELSE IF f \in torn THEN "torn" ELSE plTree[f]],
               plModified' = plModified \cup written, plFaulty' = plFaulty \cup (found \ written), Step(TRUE)
        PROVE  ExecutorInv'
    <3>1. plTree' \in [PlanPaths -> Contents]
      BY <2>2, <2>4 DEF Contents
    <3>2. \A f \in PlanPaths : plTree'[f] # plTree[f] => f \in plModified' \cup plFaulty'
      BY <2>4
    <3>3. QED BY <2>1, <2>4, <3>1, <3>2, CodeSteps
  <2>5. PICK found : found = {f \in PlanPaths : plTree[f] = "match"}
    OBVIOUS
  <2>6. \/ \E written \in SUBSET found : \E torn \in SUBSET (found \ written) :
             /\ plTree' = [f \in PlanPaths |-> IF f \in written THEN "plain" ELSE IF f \in torn THEN "torn" ELSE plTree[f]]
             /\ plModified' = plModified \cup written /\ plFaulty' = plFaulty \cup (found \ written) /\ Step(TRUE)
        \/ Step(FALSE) /\ UNCHANGED <<plTree, plModified, plFaulty>>
    BY <1>3, <2>5, Zenon DEF RefactorStep
  <2>7. QED BY <2>3, <2>4, <2>6, Zenon
<1>4. CASE BuildStep
  <2>1. PICK ok \in BOOLEAN : Step(ok)
    BY <1>4 DEF BuildStep
  <2>2. /\ plState = "running" /\ NextTask.type \in BuildTypes /\ plSeen' = plSeen \cup {plTree}
        /\ UNCHANGED <<plTree, plModified, plFaulty>> /\ plBefore' = plBefore /\ plOrder' = plOrder /\ plPlan' = plPlan
    BY <1>4, <2>1 DEF BuildStep, Step
  <2>3. /\ PlanOrdered' /\ StepsTold' /\ plState' \in {"running", "succeeded", "failed"}
        /\ Len(plSteps) + 1 \in DOMAIN plOrder
        /\ \A k \in DOMAIN plOrder : k > Len(plSteps') => k > Len(plSteps) + 1 /\ k > Len(plSteps)
    BY <2>1, <2>2, StepTaken
  <2>4. plOrder[Len(plSteps) + 1] \notin CodeNodes(plPlan)
    BY <2>2 DEF NextTask, CodeNodes, CodeTypes, BuildTypes
  <2>5. \A k \in DOMAIN plOrder : k > Len(plSteps') => plOrder[k] \notin CodeNodes(plPlan)
    BY <2>2, <2>3, <2>4 DEF ExecutorInv, PlanOrdered
  <2>6. OnlyBuildsLeft' /\ VerifiedIsDelivered' /\ ModifiedIsAccountedFor'
    BY <2>2, <2>5 DEF ExecutorInv, OnlyBuildsLeft, VerifiedIsDelivered, ModifiedIsAccountedFor
  <2>7. QED BY <2>2, <2>3, <2>6 DEF ExecutorInv
<1>5. CASE UNCHANGED plVars
  BY <1>5 DEF plVars, ExecutorInv, PlanOrdered, StepsTold, OnlyBuildsLeft, VerifiedIsDelivered, ModifiedIsAccountedFor
<1>6. QED BY <1>1, <1>2, <1>3, <1>4, <1>5 DEF PlanNext

\* Whatever a plan lists and whichever write, search or test fails: its code runs in the
\* order of the list and before its builds, which see what the plan leaves behind, what it
\* changed is told, and it succeeds only as a whole (plan_to_dag, execute_plan).
THEOREM PlanCarriedOut == PlanSpec => []PlanIsCarriedOut
<1>1. PlanInit => ExecutorInv
  <2>1. SUFFICES ASSUME PlanInit PROVE ExecutorInv
    OBVIOUS
  <2>2. plTree \in [PlanPaths -> Contents] /\ plBefore = plTree /\ plSteps = <<>> /\ plOrder = <<>> /\ plSeen = {} /\ plState = "idle"
    BY <2>1 DEF PlanInit, Contents
  <2>3. PlanOrdered /\ StepsTold
    BY <2>2 DEF PlanOrdered, StepsTold
  <2>4. QED BY <2>2, <2>3 DEF ExecutorInv, OnlyBuildsLeft, VerifiedIsDelivered, ModifiedIsAccountedFor
<1>2. ExecutorInv /\ [PlanNext]_plVars => ExecutorInv'
  BY PlanSteps
<1>3. ExecutorInv => PlanIsCarriedOut
  <2>1. SUFFICES ASSUME ExecutorInv PROVE PlanIsCarriedOut
    OBVIOUS
  <2>2. PICK m \in Nat : m = Len(plSteps) /\ DOMAIN plSteps = 1 .. m
    <3>1. Len(plSteps) \in Nat /\ DOMAIN plSteps = 1 .. Len(plSteps)
      BY <2>1 DEF ExecutorInv, StepsTold
    <3>2. QED BY <3>1
  <2>3. CodeRunsInListOrder
    <3>1. CASE plState \in {"idle", "refused"}
      <4>1. DOMAIN plSteps = {}
        BY <2>1, <3>1 DEF ExecutorInv, PlanOrdered
      <4>2. QED BY <4>1 DEF CodeRunsInListOrder
    <3>2. CASE plState \in {"running", "succeeded", "failed"}
      <4>1. \A i \in 1 .. m : i \in DOMAIN plOrder
        <5>1. plOrder \in Seq(DOMAIN plPlan) /\ m <= Len(plOrder)
          BY <2>1, <2>2, <3>2 DEF ExecutorInv, PlanOrdered, StepsTold
        <5>2. Len(plOrder) \in Nat /\ DOMAIN plOrder = 1 .. Len(plOrder)
          BY <5>1
        <5>3. QED BY <5>1, <5>2
      <4>2. QED BY <2>1, <2>2, <3>2, <4>1 DEF ExecutorInv, PlanOrdered, CodeRunsInListOrder
    <3>3. QED BY <2>1, <3>1, <3>2 DEF ExecutorInv
  <2>4. SuccessIsWhole
    BY <2>1, <2>2 DEF ExecutorInv, PlanOrdered, StepsTold, SuccessIsWhole
  <2>5. QED BY <2>1, <2>3, <2>4 DEF ExecutorInv, PlanIsCarriedOut
<1>4. QED BY <1>1, <1>2, <1>3, PTL DEF PlanSpec

-----------------------------------------------------------------------------
(* Missions and their store. *)

\* A prefix, element by element.
LEMMA PrefixIs ==
    ASSUME NEW V, NEW a \in Seq(V), NEW b \in Seq(V)
    PROVE  IsPrefix(a, b) <=> Len(a) <= Len(b) /\ \A i \in 1 .. Len(a) : a[i] = b[i]
<1>1. Len(a) \in Nat /\ Len(b) \in Nat
  OBVIOUS
<1>2. PICK m \in Nat, n \in Nat : m = Len(a) /\ n = Len(b)
  BY <1>1
<1>3. ASSUME m <= n
      PROVE  SubSeq(a, 1, m) = SubSeq(b, 1, m) <=> \A i \in 1 .. m : a[i] = b[i]
  <2>1. PICK p, q : p = SubSeq(a, 1, m) /\ q = SubSeq(b, 1, m)
    OBVIOUS
  <2>2. /\ p \in Seq(V) /\ Len(p) = m /\ (\A i \in 1 .. m : p[i] = a[i])
        /\ q \in Seq(V) /\ Len(q) = m /\ (\A i \in 1 .. m : q[i] = b[i])
    BY <1>2, <1>3, <2>1
  <2>3. p = q <=> \A i \in 1 .. m : p[i] = q[i]
    <3>1. ASSUME \A i \in 1 .. m : p[i] = q[i] PROVE p = q
      BY <2>2, <3>1, SeqEqual
    <3>2. QED BY <3>1
  <2>4. QED BY <2>1, <2>2, <2>3
<1>4. QED BY <1>2, <1>3 DEF IsPrefix

LEMMA PrefixFacts ==
    ASSUME NEW V, NEW a \in Seq(V), NEW b \in Seq(V), NEW c \in Seq(V), NEW x \in V
    PROVE  /\ IsPrefix(a, a) /\ IsPrefix(a, Append(a, x))
           /\ IsPrefix(a, b) /\ IsPrefix(b, c) => IsPrefix(a, c)
<1>1. PICK d : d = Append(a, x) /\ d \in Seq(V) /\ Len(d) = Len(a) + 1 /\ \A i \in 1 .. Len(a) : d[i] = a[i]
  <2>1. Append(a, x) \in Seq(V) /\ Len(Append(a, x)) = Len(a) + 1 /\ \A i \in 1 .. Len(a) : Append(a, x)[i] = a[i]
    BY AppendProperties
  <2>2. QED BY <2>1
<1>2. IsPrefix(a, a)
  BY PrefixIs
<1>3. IsPrefix(a, d)
  <2>1. Len(a) <= Len(d)
    BY <1>1
  <2>2. QED BY <1>1, <2>1, PrefixIs
<1>4. ASSUME IsPrefix(a, b), IsPrefix(b, c) PROVE IsPrefix(a, c)
  <2>1. Len(a) <= Len(b) /\ Len(b) <= Len(c) /\ Len(a) \in Nat /\ Len(b) \in Nat /\ Len(c) \in Nat
    BY <1>4, PrefixIs
  <2>2. /\ \A i \in 1 .. Len(a) : a[i] = b[i]
        /\ \A i \in 1 .. Len(b) : b[i] = c[i]
    BY <1>4, PrefixIs
  <2>3. \A i \in 1 .. Len(a) : a[i] = c[i] /\ Len(a) <= Len(c)
    BY <2>1, <2>2
  <2>4. QED BY <2>1, <2>3, PrefixIs
<1>5. QED BY <1>1, <1>2, <1>3, <1>4

Entries == [from : 1 .. 5, to : 1 .. 5, override : BOOLEAN]
Sessions == [phase : 1 .. 5, sealed : BOOLEAN, answered : BOOLEAN, trail : Seq(Entries),
             verdict : {"none", "APPROVED", "REJECTED"}, cove : {"none"} \cup Verdicts]

TrailSound(s) ==
  /\ \A i \in 1 .. Len(s.trail) :
       /\ s.trail[i].from = (IF i = 1 THEN 1 ELSE s.trail[i - 1].to)
       /\ s.trail[i].override \/ s.trail[i].to \in {s.trail[i].from, s.trail[i].from + 1}
       /\ i = Len(s.trail) => s.trail[i].to = s.phase
  /\ Len(s.trail) = 0 => s.phase = 1
CoveSound(s) ==
  s.cove = "rejects" => s.verdict = "REJECTED" /\ Len(s.trail) > 2 /\ (s.sealed => Len(s.trail) > 3)
SessionSound(s) == s \in Sessions /\ TrailSound(s) /\ CoveSound(s)

OnMission(s) == ~s.sealed /\ s.cove = "none" /\ s.phase \in 1 .. 4 /\ Len(s.trail) = s.phase - 1
Extends(s, t) == IsPrefix(s.trail, t.trail) /\ (s.sealed => t.sealed)

SddInv ==
  /\ sdHeld \in [Holders -> SUBSET Sessions]
  /\ sdMission \subseteq Holders
  /\ \A h \in Holders : sdHeld[h] # {} => \E s : sdHeld[h] = {s} /\ SessionSound(s)
  /\ sdRow # {} => \E s : sdRow = {s} /\ SessionSound(s)
  /\ \A h \in sdMission : sdHeld[h] # {} /\ \A s \in sdHeld[h] : OnMission(s)
  /\ \A h \in Holders \ sdStale : \A s \in sdHeld[h], r \in sdRow : Extends(r, s)

LEMMA ExtendsFacts ==
    ASSUME NEW r \in Sessions, NEW s \in Sessions, NEW t \in Sessions
    PROVE  /\ Extends(s, s)
           /\ Extends(r, s) /\ Extends(s, t) => Extends(r, t)
<1>1. PICK e : e \in Entries
  <2>1. [from |-> 1, to |-> 1, override |-> TRUE] \in Entries
    BY DEF Entries
  <2>2. QED BY <2>1
<1>2. r.trail \in Seq(Entries) /\ s.trail \in Seq(Entries) /\ t.trail \in Seq(Entries)
  BY DEF Sessions
<1>3. /\ IsPrefix(s.trail, s.trail)
      /\ IsPrefix(r.trail, s.trail) /\ IsPrefix(s.trail, t.trail) => IsPrefix(r.trail, t.trail)
  BY <1>1, <1>2, PrefixFacts
<1>4. QED BY <1>3 DEF Extends

\* A session's trail grows by a step: any with override, else one in order.
LEMMA TrailGrows ==
    ASSUME NEW s, SessionSound(s), ~s.sealed, NEW t \in Sessions, NEW target \in 1 .. 5, NEW over \in BOOLEAN,
           over \/ target \in {s.phase, s.phase + 1},
           t.trail = Append(s.trail, [from |-> s.phase, to |-> target, override |-> over]), t.phase = target,
           t.cove = "rejects" => t.verdict = "REJECTED" /\ s.cove = "rejects"
    PROVE  SessionSound(t) /\ Extends(s, t) /\ Len(t.trail) = Len(s.trail) + 1
<1>1. s.trail \in Seq(Entries) /\ s.phase \in 1 .. 5 /\ s \in Sessions
  BY DEF SessionSound, Sessions
<1>2. PICK e : e = [from |-> s.phase, to |-> target, override |-> over] /\ e \in Entries
               /\ e.from = s.phase /\ e.to = target /\ e.override = over
  BY <1>1 DEF Entries
<1>3. PICK m \in Nat : m = Len(s.trail)
  <2>1. Len(s.trail) \in Nat
    BY <1>1
  <2>2. QED BY <2>1
<1>33. PICK a : a = s.trail /\ m = Len(a) /\ a \in Seq(Entries)
  BY <1>1, <1>3
<1>4. PICK b : b = t.trail /\ b \in Seq(Entries) /\ Len(b) = m + 1 /\ b[m + 1] = e /\ \A i \in 1 .. m : b[i] = a[i]
  <2>1. t.trail = Append(a, e)
    BY <1>2, <1>3, <1>33
  <2>2. /\ Append(a, e) \in Seq(Entries) /\ Len(Append(a, e)) = m + 1 /\ Append(a, e)[m + 1] = e
        /\ \A i \in 1 .. m : Append(a, e)[i] = a[i]
    BY <1>2, <1>3, <1>33, AppendProperties
  <2>3. QED BY <2>1, <2>2
<1>5. ASSUME NEW i \in 1 .. m + 1
      PROVE  /\ b[i].from = (IF i = 1 THEN 1 ELSE b[i - 1].to)
             /\ b[i].override \/ b[i].to \in {b[i].from, b[i].from + 1}
             /\ i = m + 1 => b[i].to = t.phase
  <2>1. \A k \in 1 .. m : /\ a[k].from = (IF k = 1 THEN 1 ELSE a[k - 1].to)
                          /\ a[k].override \/ a[k].to \in {a[k].from, a[k].from + 1}
                          /\ k = m => a[k].to = s.phase
    BY <1>3, <1>33 DEF SessionSound, TrailSound
  <2>2. CASE i \in 1 .. m
    <3>1. i # 1 => i - 1 \in 1 .. m
      BY <2>2
    <3>2. QED BY <1>3, <1>33, <1>4, <2>1, <2>2, <3>1
  <2>3. CASE i = m + 1
    <3>1. m # 0 => m \in 1 .. m
      BY <1>3, <1>33
    <3>2. m = 0 => s.phase = 1
      BY <1>3, <1>33 DEF SessionSound, TrailSound
    <3>3. b[i].from = s.phase /\ b[i].to = target /\ b[i].override = over
      BY <1>2, <1>4, <2>3
    <3>4. m # 0 => i # 1 /\ i - 1 = m /\ b[m] = a[m] /\ a[m].to = s.phase
      BY <1>3, <1>33, <1>4, <2>1, <2>3, <3>1
    <3>5. m = 0 => i = 1
      BY <2>3
    <3>6. QED BY <3>2, <3>3, <3>4, <3>5
  <2>4. QED BY <1>3, <1>33, <2>2, <2>3
<1>6. TrailSound(t)
  <2>1. Len(t.trail) = m + 1 /\ m + 1 # 0
    BY <1>3, <1>33, <1>4
  <2>2. QED BY <1>4, <1>5, <2>1 DEF TrailSound
<1>7. CoveSound(t)
  <2>1. t.cove = "rejects" => Len(s.trail) > 2
    BY DEF SessionSound, CoveSound
  <2>2. QED BY <1>3, <1>33, <1>4, <2>1 DEF CoveSound
<1>8. IsPrefix(s.trail, t.trail)
  <2>1. IsPrefix(a, Append(a, e))
    BY <1>2, <1>3, <1>33, PrefixFacts
  <2>2. QED BY <1>2, <1>3, <1>33, <2>1
<1>9. QED BY <1>3, <1>33, <1>4, <1>6, <1>7, <1>8 DEF SessionSound, Extends

\* A copy moves on, and with it nothing but the copy.
LEMMA CopyMoves ==
    ASSUME SddInv, NEW h \in Holders, NEW s, sdHeld[h] = {s}, NEW t, Hold(h, t), SessionSound(t), Extends(s, t),
           sdRow' = sdRow, sdStale' = sdStale, sdMission' \subseteq sdMission, h \in sdMission' => OnMission(t)
    PROVE  SddInv'
<1>1. t \in Sessions /\ s \in Sessions
  BY DEF SessionSound, SddInv
<1>2. /\ sdHeld' \in [Holders -> SUBSET Sessions] /\ sdHeld'[h] = {t}
      /\ \A g \in Holders : g # h => sdHeld'[g] = sdHeld[g]
  BY <1>1 DEF Hold, SddInv
<1>3. ASSUME NEW g \in Holders, sdHeld'[g] # {} PROVE \E u : sdHeld'[g] = {u} /\ SessionSound(u)
  BY <1>2, <1>3 DEF SddInv
<1>4. ASSUME NEW g \in Holders \ sdStale, NEW u \in sdHeld'[g], NEW r \in sdRow PROVE Extends(r, u)
  <2>1. CASE g # h
    BY <1>2, <1>4, <2>1 DEF SddInv
  <2>2. CASE g = h
    <3>1. Extends(r, s) /\ u = t /\ r \in Sessions
      BY <1>2, <1>4, <2>2 DEF SddInv, SessionSound
    <3>2. QED BY <1>1, <3>1, ExtendsFacts
  <2>3. QED BY <2>1, <2>2
<1>5. ASSUME NEW g \in sdMission' PROVE sdHeld'[g] # {} /\ \A u \in sdHeld'[g] : OnMission(u)
  BY <1>2, <1>5 DEF SddInv
<1>6. QED BY <1>2, <1>3, <1>4, <1>5 DEF SddInv

Reaches(s, t, target) ==
  /\ Len(t.trail) = Len(s.trail) + 1 /\ t.phase = target
  /\ (target # 5 => t.sealed = FALSE) /\ t.cove = s.cove

\* The calls that move a copy on.
LEMMA AdvanceMoves ==
    ASSUME NEW s, SessionSound(s), ~s.sealed, NEW target \in 1 .. 5, NEW over \in BOOLEAN,
           over \/ target \in {s.phase, s.phase + 1}, NEW t, t = Advanced(s, target, over)
    PROVE  SessionSound(t) /\ Extends(s, t) /\ Reaches(s, t, target)
<1>1. s \in Sessions /\ s.trail \in Seq(Entries) /\ s.phase \in 1 .. 5
  BY DEF SessionSound, Sessions
<1>2. PICK e : e = [from |-> s.phase, to |-> target, override |-> over] /\ e \in Entries
  <2>1. [from |-> s.phase, to |-> target, override |-> over] \in Entries
    BY <1>1 DEF Entries
  <2>2. QED BY <2>1
<1>3. PICK b : b = Append(s.trail, e) /\ b \in Seq(Entries)
  <2>1. Append(s.trail, e) \in Seq(Entries)
    BY <1>1, <1>2, AppendProperties
  <2>2. QED BY <2>1
<1>4. t = [s EXCEPT !.phase = target, !.sealed = (target = 5), !.trail = b]
  BY <1>2, <1>3 DEF Advanced, Merge
<1>5. /\ t \in Sessions /\ t.trail = b /\ t.phase = target /\ t.sealed = (target = 5)
      /\ t.cove = s.cove /\ t.verdict = s.verdict
  BY <1>1, <1>3, <1>4 DEF Sessions
<1>6. t.cove = "rejects" => t.verdict = "REJECTED" /\ s.cove = "rejects"
  BY <1>5 DEF SessionSound, CoveSound
<1>7. SessionSound(t) /\ Extends(s, t) /\ Len(t.trail) = Len(s.trail) + 1
  BY <1>2, <1>3, <1>5, <1>6, TrailGrows
<1>8. QED BY <1>5, <1>7 DEF Reaches


\* A mission reaches its next phase, short of the merge.
LEMMA MissionMoves ==
    ASSUME NEW s, SessionSound(s), OnMission(s), NEW target \in 2 .. 4, target = s.phase + 1,
           NEW over \in BOOLEAN, NEW t, t = Advanced(s, target, over)
    PROVE  SessionSound(t) /\ Extends(s, t) /\ OnMission(t)
<1>1. ~s.sealed /\ s.cove = "none" /\ Len(s.trail) = s.phase - 1 /\ s.phase \in 1 .. 4
  BY DEF OnMission
<1>2. target \in 1 .. 5 /\ (over \/ target \in {s.phase, s.phase + 1}) /\ target # 5
  OBVIOUS
<1>3. /\ SessionSound(t) /\ Extends(s, t) /\ Len(t.trail) = Len(s.trail) + 1
      /\ t.phase = target /\ (target # 5 => t.sealed = FALSE) /\ t.cove = s.cove
  <2>1. target \in 1 .. 5
    BY <1>2
  <2>2. over \/ target \in {s.phase, s.phase + 1}
    BY <1>2
  <2>3. ~s.sealed
    BY <1>1
  <2>4. SessionSound(t) /\ Extends(s, t) /\ Reaches(s, t, target)
    BY <2>1, <2>2, <2>3, AdvanceMoves
  <2>5. QED BY <2>4 DEF Reaches
<1>4. ~t.sealed
  BY <1>2, <1>3
<1>5. t.cove = "none"
  BY <1>1, <1>3, Zenon
<1>6. Len(t.trail) = Len(s.trail) + 1 /\ t.phase = target
  BY <1>3, Zenon
<1>7. Len(t.trail) = t.phase - 1 /\ t.phase \in 1 .. 4
  <2>1. PICK p, n : p = s.phase /\ n = Len(s.trail)
    OBVIOUS
  <2>2. p \in 1 .. 4 /\ n = p - 1 /\ target = p + 1 /\ Len(t.trail) = n + 1 /\ t.phase = target
    BY <1>1, <1>6, <2>1
  <2>3. QED BY <2>2
<1>8. OnMission(t)
  BY <1>4, <1>5, <1>7, Zenon DEF OnMission
<1>9. QED BY <1>3, <1>8, Zenon

\* One copy per holder, and the row.
LEMMA HeldCopy ==
    ASSUME SddInv, NEW h \in Holders, sdHeld[h] # {}
    PROVE  \E s : sdHeld[h] = {s} /\ Copy(h) = s /\ SessionSound(s) /\ s \in Sessions
<1>1. PICK s : sdHeld[h] = {s} /\ SessionSound(s)
  BY DEF SddInv
<1>2. Copy(h) = s
  BY <1>1 DEF Copy
<1>3. QED BY <1>1, <1>2 DEF SessionSound

LEMMA FreshSound == SessionSound(NewSession) /\ OnMission(NewSession) /\ NewSession \in Sessions
<1>1. /\ NewSession \in Sessions /\ NewSession.trail = <<>> /\ NewSession.phase = 1 /\ NewSession.cove = "none"
      /\ ~NewSession.sealed
  BY DEF NewSession, Sessions
<1>2. Len(NewSession.trail) = 0
  BY <1>1
<1>3. QED BY <1>1, <1>2 DEF SessionSound, TrailSound, CoveSound, OnMission

LEMMA MissionBegins ==
    ASSUME SddInv, NEW h \in Holders, BeginMission(h) \/ MakeSession(h)
    PROVE  SddInv'
<1>1. /\ sdRow = {} /\ (\A g \in Holders : sdHeld[g] = {}) /\ sdRow' = sdRow
      /\ sdHeld' = [sdHeld EXCEPT ![h] = {NewSession}] /\ (sdMission' = {h} \/ sdMission' = sdMission)
  BY DEF BeginMission, MakeSession, Hold
<1>2. sdMission = {}
  BY <1>1 DEF SddInv
<1>3. sdHeld'[h] = {NewSession} /\ \A g \in Holders : g # h => sdHeld'[g] = {}
  BY <1>1 DEF SddInv
<1>4. sdHeld' \in [Holders -> SUBSET Sessions]
  BY <1>1, FreshSound DEF SddInv
<1>5. \A g \in Holders : sdHeld'[g] # {} => sdHeld'[g] = {NewSession}
  BY <1>3
<1>6. \A g \in sdMission' : g = h
  BY <1>1, <1>2
<1>7. QED BY <1>1, <1>3, <1>4, <1>5, <1>6, FreshSound DEF SddInv

LEMMA SddSteps ==
    ASSUME SddInv, SddNext
    PROVE  SddInv'
<1>1. PICK h \in Holders :
        \/ MakeSession(h) \/ BeginMission(h) \/ MissionAdvances(h) \/ MissionExecutes(h) \/ MissionVerifies(h)
        \/ \E target \in DOMAIN Phases : AdvanceTo(h, target)
        \/ Realign(h) \/ SaveSession(h) \/ LoadSession(h) \/ Crash(h)
  BY DEF SddNext
<1>2. CASE MakeSession(h) \/ BeginMission(h)
  BY <1>2, MissionBegins
<1>3. CASE MissionAdvances(h)
  <2>1. h \in sdMission /\ Copy(h).phase \in {1, 2} /\ sdRow' = sdRow /\ sdStale' = sdStale /\ sdMission' = sdMission
    BY <1>3 DEF MissionAdvances
  <2>2. PICK s : sdHeld[h] = {s} /\ Copy(h) = s /\ SessionSound(s) /\ s \in Sessions /\ OnMission(s)
    BY <2>1, HeldCopy DEF SddInv
  <2>3. PICK target \in 2 .. 4 : target = s.phase + 1
    <3>1. s.phase + 1 \in 2 .. 4
      BY <2>1, <2>2
    <3>2. QED BY <3>1
  <2>33. PICK over \in BOOLEAN : over = FALSE
    OBVIOUS
  <2>4. PICK t : t = Advanced(s, target, over)
    OBVIOUS
  <2>5. SessionSound(t) /\ Extends(s, t) /\ OnMission(t)
    BY <2>2, <2>3, <2>4, MissionMoves
  <2>6. PICK u : u = [t EXCEPT !.answered = TRUE] /\ Hold(h, u)
    BY <1>3, <2>2, <2>3, <2>4, <2>33 DEF MissionAdvances
  <2>7. /\ u \in Sessions /\ u.trail = t.trail /\ u.phase = t.phase /\ u.sealed = t.sealed /\ u.cove = t.cove
        /\ u.verdict = t.verdict
    BY <2>5, <2>6 DEF SessionSound, Sessions
  <2>8. SessionSound(u) /\ Extends(s, u)
    BY <2>5, <2>7 DEF SessionSound, TrailSound, CoveSound, Extends
  <2>9. OnMission(u)
    BY <2>5, <2>7 DEF OnMission
  <2>10. QED BY <2>1, <2>2, <2>6, <2>8, <2>9, CopyMoves
<1>4. CASE MissionExecutes(h)
  <2>1. h \in sdMission /\ Copy(h).phase = 3 /\ sdRow' = sdRow /\ sdStale' = sdStale /\ sdMission' = sdMission
    BY <1>4 DEF MissionExecutes
  <2>2. PICK s : sdHeld[h] = {s} /\ Copy(h) = s /\ SessionSound(s) /\ s \in Sessions /\ OnMission(s)
    BY <2>1, HeldCopy DEF SddInv
  <2>3. CASE sdHeld' = sdHeld
    BY <2>1, <2>3 DEF SddInv
  <2>4. CASE Hold(h, Advanced(s, 4, FALSE))
    <3>1. PICK over, t : over \in BOOLEAN /\ over = FALSE /\ t = Advanced(s, 4, over)
      OBVIOUS
    <3>2. 4 \in 2 .. 4 /\ 4 = s.phase + 1
      BY <2>1, <2>2
    <3>3. SessionSound(t) /\ Extends(s, t) /\ OnMission(t)
      BY <2>2, <3>1, <3>2, MissionMoves
    <3>4. Hold(h, t)
      BY <2>4, <3>1
    <3>5. QED BY <2>1, <2>2, <3>3, <3>4, CopyMoves
  <2>5. QED BY <1>4, <2>2, <2>3, <2>4 DEF MissionExecutes
<1>5. CASE MissionVerifies(h)
  <2>1. h \in sdMission /\ Copy(h).phase = 4 /\ sdRow' = sdRow /\ sdStale' = sdStale /\ sdMission' = {}
    BY <1>5 DEF MissionVerifies
  <2>2. PICK s : sdHeld[h] = {s} /\ Copy(h) = s /\ SessionSound(s) /\ s \in Sessions /\ OnMission(s)
    BY <2>1, HeldCopy DEF SddInv
  <2>3. PICK answer \in Verdicts :
          LET judged == [s EXCEPT !.cove = answer, !.verdict = IF Rejected(answer) THEN "REJECTED" ELSE "APPROVED"]
          IN Hold(h, IF Rejected(answer) THEN judged ELSE Advanced(judged, Merge, FALSE))
    BY <1>5, <2>2 DEF MissionVerifies
  <2>4. PICK j : j = [s EXCEPT !.cove = answer, !.verdict = IF Rejected(answer) THEN "REJECTED" ELSE "APPROVED"]
    OBVIOUS
  <2>5. /\ j \in Sessions /\ j.trail = s.trail /\ j.phase = s.phase /\ j.sealed = s.sealed /\ j.cove = answer
        /\ j.verdict = IF answer = "rejects" THEN "REJECTED" ELSE "APPROVED"
    BY <2>2, <2>4 DEF Sessions, Rejected, Verdicts
  <2>6. s.phase = 4 /\ Len(s.trail) = 3 /\ ~s.sealed
    BY <2>1, <2>2 DEF OnMission
  <2>7. SessionSound(j)
    BY <2>2, <2>5, <2>6 DEF SessionSound, TrailSound, CoveSound
  <2>8. Extends(s, j)
    BY <2>2, <2>5, ExtendsFacts DEF Extends
  <2>9. CASE answer = "rejects"
    <3>1. Hold(h, j)
      BY <2>3, <2>4, <2>9 DEF Rejected
    <3>2. QED BY <2>1, <2>2, <2>7, <2>8, <3>1, CopyMoves
  <2>10. CASE answer # "rejects"
    <3>1. PICK over, t : over \in BOOLEAN /\ t = Advanced(j, 5, over) /\ Hold(h, t)
      BY <2>3, <2>4, <2>10 DEF Rejected, Merge
    <3>2. SessionSound(t) /\ Extends(j, t)
      <4>1. 5 \in 1 .. 5 /\ 5 \in {j.phase, j.phase + 1} /\ ~j.sealed
        BY <2>5, <2>6
      <4>2. QED BY <2>7, <3>1, <4>1, AdvanceMoves
    <3>3. Extends(s, t) /\ t \in Sessions
      BY <2>2, <2>5, <2>8, <3>2, ExtendsFacts DEF SessionSound
    <3>4. QED BY <2>1, <2>2, <3>1, <3>2, <3>3, CopyMoves
  <2>11. QED BY <2>9, <2>10
<1>6. ASSUME NEW target \in DOMAIN Phases, AdvanceTo(h, target) PROVE SddInv'
  <2>1. h \notin sdMission /\ sdHeld[h] # {} /\ sdRow' = sdRow /\ sdStale' = sdStale /\ sdMission' = sdMission
    BY <1>6 DEF AdvanceTo, Has
  <2>2. PICK s : sdHeld[h] = {s} /\ Copy(h) = s /\ SessionSound(s) /\ s \in Sessions
    BY <2>1, HeldCopy
  <2>3. target \in 1 .. 5 /\ s.phase \in 1 .. 5
    BY <1>6, <2>2 DEF Phases, Sessions
  <2>4. PICK over \in BOOLEAN : over = ~Allowed(s, target)
    OBVIOUS
  <2>5. over \/ target \in {s.phase, s.phase + 1}
    <3>1. Allowed(s, target) => target \in {s.phase, s.phase + 1}
      BY <2>3 DEF Allowed
    <3>2. QED BY <2>4, <3>1
  <2>6. PICK t : t = Advanced(s, target, over) /\ Hold(h, t) /\ ~s.sealed
    BY <1>6, <2>2, <2>4 DEF AdvanceTo
  <2>7. SessionSound(t) /\ Extends(s, t)
    BY <2>2, <2>3, <2>5, <2>6, AdvanceMoves
  <2>8. QED BY <2>1, <2>2, <2>6, <2>7, CopyMoves
<1>7. CASE Realign(h)
  <2>1. h \notin sdMission /\ sdHeld[h] # {} /\ sdRow' = sdRow /\ sdStale' = sdStale /\ sdMission' = sdMission
    BY <1>7 DEF Realign, Has
  <2>2. PICK s : sdHeld[h] = {s} /\ Copy(h) = s /\ SessionSound(s) /\ s \in Sessions
    BY <2>1, HeldCopy
  <2>3. s.phase \in 1 .. 5 /\ s.trail \in Seq(Entries)
    BY <2>2 DEF Sessions
  <2>4. PICK t : t = Realigned(s) /\ Hold(h, t) /\ ~s.sealed
    BY <1>7, <2>2 DEF Realign
  <2>5. PICK b : b = Append(s.trail, [from |-> s.phase, to |-> s.phase, override |-> FALSE]) /\ b \in Seq(Entries)
    <3>1. [from |-> s.phase, to |-> s.phase, override |-> FALSE] \in Entries
      BY <2>3 DEF Entries
    <3>2. Append(s.trail, [from |-> s.phase, to |-> s.phase, override |-> FALSE]) \in Seq(Entries)
      BY <2>3, <3>1, AppendProperties
    <3>3. QED BY <3>2
  <2>6. t = [s EXCEPT !.trail = b]
    BY <2>4, <2>5 DEF Realigned
  <2>7. t \in Sessions /\ t.trail = b /\ t.phase = s.phase /\ t.cove = s.cove /\ t.verdict = s.verdict
    BY <2>2, <2>5, <2>6 DEF Sessions
  <2>8. t.cove = "rejects" => t.verdict = "REJECTED" /\ s.cove = "rejects"
    BY <2>2, <2>7 DEF SessionSound, CoveSound
  <2>9. SessionSound(t) /\ Extends(s, t)
    <3>1. PICK over \in BOOLEAN : over = FALSE
      OBVIOUS
    <3>2. QED BY <2>2, <2>3, <2>4, <2>5, <2>7, <2>8, <3>1, TrailGrows
  <2>10. QED BY <2>1, <2>2, <2>4, <2>9, CopyMoves
<1>8. CASE SaveSession(h)
  <2>1. /\ h \notin sdMission /\ sdHeld[h] # {} /\ sdRow' = {Stored(Copy(h))}
        /\ sdHeld' = sdHeld /\ sdMission' = sdMission
        /\ sdStale' = IF sdRow' = sdRow THEN sdStale ELSE {g \in Holders : g # h /\ sdHeld[g] # {}}
    BY <1>8 DEF SaveSession, Has
  <2>2. PICK s : sdHeld[h] = {s} /\ Copy(h) = s /\ SessionSound(s) /\ s \in Sessions
    BY <2>1, HeldCopy
  <2>3. PICK r : r = [s EXCEPT !.answered = FALSE] /\ sdRow' = {r}
    BY <2>1, <2>2 DEF Stored
  <2>4. r \in Sessions /\ r.trail = s.trail /\ r.phase = s.phase /\ r.cove = s.cove /\ r.verdict = s.verdict /\ r.sealed = s.sealed
    BY <2>2, <2>3 DEF Sessions
  <2>5. SessionSound(r) /\ Extends(r, s)
    BY <2>2, <2>4, ExtendsFacts DEF SessionSound, TrailSound, CoveSound, Extends
  <2>6. ASSUME NEW g \in Holders \ sdStale', NEW u \in sdHeld[g] PROVE Extends(r, u)
    <3>1. CASE sdRow' = sdRow
      <4>1. g \in Holders \ sdStale /\ r \in sdRow
        BY <2>1, <2>3, <2>6, <3>1
      <4>2. QED BY <2>6, <4>1 DEF SddInv
    <3>2. CASE sdRow' # sdRow
      <4>1. g = h
        BY <2>1, <2>6, <3>2
      <4>2. QED BY <2>2, <2>5, <2>6, <4>1
    <3>3. QED BY <3>1, <3>2
  <2>7. QED BY <2>1, <2>3, <2>5, <2>6 DEF SddInv
<1>9. CASE LoadSession(h)
  <2>1. /\ h \notin sdMission /\ sdRow # {} /\ sdRow' = sdRow /\ sdMission' = sdMission /\ sdStale' = sdStale \ {h}
        /\ sdHeld' = [sdHeld EXCEPT ![h] = {Loaded(s) : s \in sdRow}]
    BY <1>9 DEF LoadSession
  <2>2. PICK r : sdRow = {r} /\ SessionSound(r) /\ r \in Sessions
    BY <2>1 DEF SddInv, SessionSound
  <2>3. sdHeld' = [sdHeld EXCEPT ![h] = {r}]
    BY <2>1, <2>2 DEF Loaded
  <2>4. /\ sdHeld' \in [Holders -> SUBSET Sessions] /\ sdHeld'[h] = {r}
        /\ \A g \in Holders : g # h => sdHeld'[g] = sdHeld[g]
    BY <2>2, <2>3 DEF SddInv
  <2>5. Extends(r, r)
    BY <2>2, ExtendsFacts
  <2>6. ASSUME NEW g \in Holders \ sdStale', NEW u \in sdHeld'[g] PROVE Extends(r, u)
    <3>1. CASE g = h
      BY <2>4, <2>5, <2>6, <3>1
    <3>2. CASE g # h
      <4>1. g \in Holders \ sdStale /\ u \in sdHeld[g] /\ r \in sdRow
        BY <2>1, <2>2, <2>4, <2>6, <3>2
      <4>2. QED BY <4>1 DEF SddInv
    <3>3. QED BY <3>1, <3>2
  <2>7. ASSUME NEW g \in Holders, sdHeld'[g] # {} PROVE \E s : sdHeld'[g] = {s} /\ SessionSound(s)
    BY <2>2, <2>4, <2>7 DEF SddInv
  <2>8. \A g \in sdMission : sdHeld'[g] = sdHeld[g]
    BY <2>1, <2>4 DEF SddInv
  <2>9. QED BY <2>1, <2>2, <2>4, <2>6, <2>7, <2>8 DEF SddInv
<1>10. CASE Crash(h)
  <2>1. /\ sdHeld' = [sdHeld EXCEPT ![h] = {}] /\ sdMission' = sdMission \ {h} /\ sdStale' = sdStale \ {h}
        /\ sdRow' = sdRow
    BY <1>10 DEF Crash
  <2>2. /\ sdHeld' \in [Holders -> SUBSET Sessions] /\ sdHeld'[h] = {}
        /\ \A g \in Holders : g # h => sdHeld'[g] = sdHeld[g]
    BY <2>1 DEF SddInv
  <2>3. ASSUME NEW g \in Holders, sdHeld'[g] # {} PROVE \E s : sdHeld'[g] = {s} /\ SessionSound(s)
    BY <2>2, <2>3 DEF SddInv
  <2>4. \A g \in sdMission' : g \in sdMission /\ sdHeld'[g] = sdHeld[g]
    BY <2>1, <2>2 DEF SddInv
  <2>5. ASSUME NEW g \in Holders \ sdStale', NEW u \in sdHeld'[g] PROVE g \in Holders \ sdStale /\ u \in sdHeld[g]
    BY <2>1, <2>2, <2>5
  <2>6. QED BY <2>1, <2>2, <2>3, <2>4, <2>5 DEF SddInv
<1>11. QED BY <1>1, <1>2, <1>3, <1>4, <1>5, <1>6, <1>7, <1>8, <1>9, <1>10

\* What a reader of a session may trust, whoever holds copies of it, advances, realigns,
\* saves or loads them and whenever a process ends (advance_to, realign, run_sdd_mission,
\* SDDSessionStore).
THEOREM MissionsSound == MissionSpec => MissionIsSound
<1>1. SddInit => SddInv
  BY DEF SddInit, SddInv
<1>2. SddInv /\ [SddNext]_sdVars => SddInv'
  <2>1. ASSUME SddInv, UNCHANGED sdVars PROVE SddInv'
    BY <2>1 DEF sdVars, SddInv
  <2>2. QED BY <2>1, SddSteps
<1>3. SddInv => TrailIsPath /\ RejectedIsNotMerged
  <2>1. SUFFICES ASSUME SddInv, NEW s \in Copies PROVE SessionSound(s)
    <3>1. ASSUME \A s \in Copies : SessionSound(s) PROVE TrailIsPath
      BY <3>1 DEF SessionSound, TrailSound, TrailIsPath
    <3>2. ASSUME \A s \in Copies : SessionSound(s) PROVE RejectedIsNotMerged
      BY <3>2 DEF SessionSound, CoveSound, RejectedIsNotMerged
    <3>3. QED BY <3>1, <3>2
  <2>2. s \in sdRow \/ \E h \in Holders : s \in sdHeld[h]
    BY <2>1 DEF Copies
  <2>3. QED BY <2>1, <2>2 DEF SddInv
<1>4. SddInv => [\A h \in Holders : SaveSession(h) /\ h \notin sdStale =>
                   \A r \in sdRow, s \in sdRow' : IsPrefix(r.trail, s.trail) /\ (r.sealed => s.sealed)]_sdVars
  <2>1. SUFFICES ASSUME SddInv, NEW h \in Holders, SaveSession(h), h \notin sdStale, NEW r \in sdRow, NEW t \in sdRow'
                 PROVE  IsPrefix(r.trail, t.trail) /\ (r.sealed => t.sealed)
    OBVIOUS
  <2>2. PICK s : sdHeld[h] = {s} /\ Copy(h) = s /\ s \in Sessions
    BY <2>1, HeldCopy DEF SaveSession, Has
  <2>3. t = [s EXCEPT !.answered = FALSE]
    BY <2>1, <2>2 DEF SaveSession, Stored
  <2>4. t.trail = s.trail /\ t.sealed = s.sealed
    BY <2>2, <2>3 DEF Sessions
  <2>5. Extends(r, s)
    BY <2>1, <2>2 DEF SddInv
  <2>6. QED BY <2>4, <2>5 DEF Extends
<1>5. QED
  BY <1>1, <1>2, <1>3, <1>4, PTL DEF MissionSpec, MissionIsSound, StoreRegressesOnlyByStaleSave

-----------------------------------------------------------------------------
(* The scope of an HLF program. *)

LeafTags == {"SET", "CLEAR", "MEMORY", "SPEC_DEFINE", "SPEC_UPDATE", "SPEC_SEAL",
             "ASSERT", "WHILE", "RETURN", "TOOL", "CALL"}
Unders == {"program", "SYNC", "DEFINE", "PARALLEL"}
LeafNodes == [tag : LeafTags, inner : {<<>>}, under : Unders]
SyncedNodes == [tag : LeafTags, inner : {<<>>}, under : {"SYNC"}]
SyncNodes == [tag : {"SYNC"}, inner : Seq(SyncedNodes), under : Unders]
DefineNodes == [tag : {"DEFINE"}, inner : Seq(LeafNodes), under : Unders]
\* A task of a PARALLEL whose program passed the first check.
TaskNodes(c) == {n \in LeafNodes \cup SyncNodes : n.tag \in Names /\ Permits(c, TagOf(n))}
ParallelNodes(c) == [tag : {"PARALLEL"}, inner : [ScopeTasks -> TaskNodes(c)], under : Unders]
ProgramNodes(c) == LeafNodes \cup SyncNodes \cup DefineNodes \cup ParallelNodes(c)
NodesOf(c, i) == IF i = 0 THEN ProgramNodes(c) ELSE TaskNodes(c) \cup SyncedNodes

WorkFits(c, work, macro) ==
  /\ DOMAIN work = Interpreters /\ \A i \in Interpreters : work[i] \in Seq(NodesOf(c, i))
  /\ macro \in Seq(LeafNodes)
SpecSet == [registry : Seq({"defined", "updated"}), sealed : BOOLEAN, checksum : Seq({"defined", "updated"})]
\* A list that no fork shared is of one interpreter, and no other has it.
ListsOwned ==
  /\ hsMem \in [Interpreters -> Nat] /\ hsLists \in Seq(Seq(Interpreters))
  /\ \A i \in Interpreters : hsMem[i] <= Len(hsLists)
  /\ \A l \in (1 .. Len(hsLists)) \ hsForked :
       \E i \in Interpreters : Range(hsLists[l]) = {i} /\ \A j \in Interpreters : hsMem[j] = l => j = i
\* A task that was taken has a result under its name, of the last PARALLEL.
TakenHaveResults ==
  /\ hsNames \in [ScopeTasks -> Names \cup {""}] /\ DOMAIN hsResults = Names
  /\ \A t \in ScopeTasks : hsState[t] # "none" => hsNames[t] \in Names
  /\ \A t \in ScopeTasks : hsState[t] = "taken" =>
       \E r \in hsResults[hsNames[t]] : r.round = hsRound /\ hsNames[r.task] = hsNames[t]
ScopeInv ==
  /\ WorkFits(hsCapsule, hsWork, hsMacro) /\ DOMAIN hsState = Interpreters
  /\ hsSpec \in [Interpreters -> SpecSet]
  /\ SealedIsFrozen /\ ListsOwned /\ TakenHaveResults /\ CapsuleHolds

LEMMA PassedFit ==
    ASSUME NEW c, NEW node \in ScopeStatements, Preflight(c, node)
    PROVE  node \in ProgramNodes(c)
<1>1. CASE node \in Leaves
  BY <1>1 DEF Leaves, One, ProgramNodes, LeafNodes, LeafTags, Unders
<1>2. CASE node = Under("SYNC", <<One("MEMORY")>>)
  <2>1. PICK n : n = [One("MEMORY") EXCEPT !.under = "SYNC"]
    OBVIOUS
  <2>2. n \in SyncedNodes
    BY <2>1 DEF One, SyncedNodes, LeafTags
  <2>3. node = [tag |-> "SYNC", inner |-> <<n>>, under |-> "program"]
    BY <1>2, <2>1 DEF Under
  <2>4. QED BY <2>2, <2>3 DEF ProgramNodes, SyncNodes, Unders
<1>3. ASSUME NEW tag \in {"TOOL", "SPEC_DEFINE"}, node = Under("DEFINE", <<One(tag)>>)
      PROVE  node \in ProgramNodes(c)
  <2>1. PICK n : n = [One(tag) EXCEPT !.under = "DEFINE"]
    OBVIOUS
  <2>2. n \in LeafNodes
    BY <1>3, <2>1 DEF One, LeafNodes, LeafTags, Unders
  <2>3. node = [tag |-> "DEFINE", inner |-> <<n>>, under |-> "program"]
    BY <1>3, <2>1 DEF Under
  <2>4. QED BY <2>2, <2>3 DEF ProgramNodes, DefineNodes, Unders
<1>4. ASSUME NEW a \in {One("MEMORY"), Under("SYNC", <<One("TOOL")>>)},
             NEW b \in {One("MEMORY"), One("CALL"), One("SPEC_UPDATE")},
             node = Under("PARALLEL", <<a, b>>)
      PROVE  node \in ProgramNodes(c)
  <2>1. PICK m, n : m = [a EXCEPT !.under = "PARALLEL"] /\ n = [b EXCEPT !.under = "PARALLEL"]
    OBVIOUS
  <2>2. node = [tag |-> "PARALLEL", inner |-> <<m, n>>, under |-> "program"]
    BY <1>4, <2>1 DEF Under
  <2>3. Permits(c, TagOf(m)) /\ Permits(c, TagOf(n))
    <3>1. node.tag = "PARALLEL" /\ DOMAIN node.inner = {1, 2} /\ node.inner[1] = m /\ node.inner[2] = n
      BY <2>2
    <3>2. QED BY <3>1 DEF Preflight
  <2>4. m \in LeafNodes \cup SyncNodes /\ m.tag \in Names
    <3>1. CASE a = One("MEMORY")
      BY <2>1, <3>1 DEF One, LeafNodes, LeafTags, Unders, Names
    <3>2. CASE a = Under("SYNC", <<One("TOOL")>>)
      <4>1. PICK k : k = [One("TOOL") EXCEPT !.under = "SYNC"]
        OBVIOUS
      <4>2. k \in SyncedNodes
        BY <4>1 DEF One, SyncedNodes, LeafTags
      <4>3. a = [tag |-> "SYNC", inner |-> <<k>>, under |-> "program"]
        BY <3>2, <4>1 DEF Under
      <4>4. m = [tag |-> "SYNC", inner |-> <<k>>, under |-> "PARALLEL"]
        BY <2>1, <4>3
      <4>5. <<k>> \in Seq(SyncedNodes)
        BY <4>2
      <4>6. QED BY <4>4, <4>5 DEF SyncNodes, Unders, Names
    <3>3. QED BY <1>4, <3>1, <3>2
  <2>5. n \in LeafNodes /\ n.tag \in Names
    BY <1>4, <2>1 DEF One, LeafNodes, LeafTags, Unders, Names
  <2>6. m \in TaskNodes(c) /\ n \in TaskNodes(c)
    BY <2>3, <2>4, <2>5 DEF TaskNodes
  <2>7. <<m, n>> \in [ScopeTasks -> TaskNodes(c)]
    BY <2>6 DEF ScopeTasks
  <2>8. QED BY <2>2, <2>7 DEF ProgramNodes, ParallelNodes, Unders
<1>5. QED BY <1>1, <1>2, <1>3, <1>4 DEF ScopeStatements

\* What is due, and what follows it.
LEMMA DueNode ==
    ASSUME ScopeInv, NEW i \in Interpreters, hsWork[i] # <<>>
    PROVE  Now(i) \in NodesOf(hsCapsule, i) /\ Tail(hsWork[i]) \in Seq(NodesOf(hsCapsule, i))
<1>1. hsWork[i] \in Seq(NodesOf(hsCapsule, i))
  BY DEF ScopeInv, WorkFits
<1>2. QED BY <1>1 DEF Now

\* What interpreter i runs, the capsule permits or its SYNC hides.
LEMMA RunsPermitted ==
    ASSUME ScopeInv, NEW i \in Interpreters, hsWork[i] # <<>>, Admits(i, Now(i)),
           Executes(i), hsCapsule' = hsCapsule
    PROVE  CapsuleHolds'
<1>1. Now(i) \in NodesOf(hsCapsule, i)
  BY DueNode
<1>2. Permits(hsCapsule, TagOf(Now(i))) \/ (i # 0 /\ Now(i).under = "SYNC")
  BY <1>1 DEF Admits, NodesOf, TaskNodes, SyncedNodes
<1>3. PICK n : n = [by |-> i, tag |-> TagOf(Now(i)), under |-> Now(i).under] /\ hsRan' = {n}
  BY DEF Executes
<1>4. Permits(hsCapsule, n.tag) \/ (n.by # 0 /\ n.under = "SYNC")
  BY <1>2, <1>3
<1>5. QED BY <1>3, <1>4 DEF CapsuleHolds

\* The queue of one interpreter changes.
LEMMA WorkStillFits ==
    ASSUME ScopeInv, NEW i \in Interpreters, NEW w \in Seq(NodesOf(hsCapsule, i)),
           hsWork' = [hsWork EXCEPT ![i] = w], hsMacro' \in Seq(LeafNodes), hsCapsule' = hsCapsule
    PROVE  WorkFits(hsCapsule', hsWork', hsMacro')
  BY DEF ScopeInv, WorkFits

LEMMA ProceedsFits ==
    ASSUME ScopeInv, NEW i \in Interpreters, hsWork[i] # <<>>, hsMacro' \in Seq(LeafNodes),
           hsCapsule' = hsCapsule, Proceeds(i) \/ \E how : Ends(i, how)
    PROVE  WorkFits(hsCapsule', hsWork', hsMacro')
<1>1. PICK w \in Seq(NodesOf(hsCapsule, i)) : hsWork' = [hsWork EXCEPT ![i] = w]
  <2>1. Tail(hsWork[i]) \in Seq(NodesOf(hsCapsule, i)) /\ <<>> \in Seq(NodesOf(hsCapsule, i))
    BY DueNode
  <2>2. QED BY <2>1 DEF Proceeds, Ends
<1>2. QED BY <1>1, WorkStillFits

\* Interpreter i goes on, ends or raises; what it holds of a result stays.
LEMMA ResultsStay ==
    ASSUME ScopeInv, NEW i \in Interpreters, hsState[i] = "running", hsNames' = hsNames, hsResults' = hsResults,
           hsRound' = hsRound, hsState' = hsState \/ \E how \in {"raised", "ended"} : hsState' = [hsState EXCEPT ![i] = how]
    PROVE  TakenHaveResults' /\ DOMAIN hsState' = Interpreters
<1>1. DOMAIN hsState' = Interpreters /\ DOMAIN hsState = Interpreters
  BY DEF ScopeInv
<1>2. ASSUME NEW t \in ScopeTasks PROVE /\ hsState'[t] = "taken" => hsState[t] = "taken"
                                        /\ hsState'[t] # "none" => hsState[t] # "none"
  BY <1>1 DEF Interpreters
<1>3. QED BY <1>1, <1>2 DEF ScopeInv, TakenHaveResults


LEMMA ListsStay ==
    ASSUME ListsOwned, hsMem' = hsMem, hsLists' = hsLists, hsForked' = hsForked
    PROVE  ListsOwned'
  BY Zenon DEF ListsOwned

\* A node whose statement touches neither lists nor specs nor macros.
LEMMA QuietNode ==
    ASSUME ScopeInv, NEW i \in Interpreters, Due(i, LeafTags), Admits(i, Now(i)), Executes(i),
           Proceeds(i) \/ Ends(i, "raised") \/ Ends(i, "ended"),
           UNCHANGED <<hsRest, hsMem, hsLists, hsSpec, hsMacro, hsResults>>
    PROVE  ScopeInv'
<1>1. hsState[i] = "running" /\ hsWork[i] # <<>>
  BY DEF Due
<1>2. /\ hsCapsule' = hsCapsule /\ hsForked' = hsForked /\ hsNames' = hsNames /\ hsRound' = hsRound
      /\ hsMem' = hsMem /\ hsLists' = hsLists /\ hsSpec' = hsSpec /\ hsMacro' = hsMacro /\ hsResults' = hsResults
  BY DEF hsRest
<1>3. WorkFits(hsCapsule', hsWork', hsMacro')
  <2>1. hsMacro' \in Seq(LeafNodes)
    BY <1>2 DEF ScopeInv, WorkFits
  <2>2. QED BY <1>1, <1>2, <2>1, ProceedsFits
<1>4. CapsuleHolds'
  BY <1>1, <1>2, RunsPermitted
<1>5. TakenHaveResults' /\ DOMAIN hsState' = Interpreters
  <2>1. hsState' = hsState \/ \E how \in {"raised", "ended"} : hsState' = [hsState EXCEPT ![i] = how]
    BY DEF Proceeds, Ends
  <2>2. QED BY <1>1, <1>2, <2>1, ResultsStay
<1>6. hsSpec' \in [Interpreters -> SpecSet] /\ SealedIsFrozen' /\ ListsOwned'
  <2>1. ListsOwned'
    BY <1>2, ListsStay DEF ScopeInv
  <2>2. QED BY <1>2, <2>1 DEF ScopeInv, SealedIsFrozen
<1>7. QED BY <1>3, <1>4, <1>5, <1>6 DEF ScopeInv

LEMMA QuietSteps ==
    ASSUME ScopeInv, NEW i \in Interpreters, SetRuns(i) \/ TestRuns(i) \/ ReturnRuns(i) \/ ToolRuns(i)
    PROVE  ScopeInv'
<1>1. Due(i, LeafTags) /\ Admits(i, Now(i)) /\ Executes(i)
  BY DEF SetRuns, TestRuns, ReturnRuns, ToolRuns, Due, LeafTags
<1>2. Proceeds(i) \/ Ends(i, "raised") \/ Ends(i, "ended")
  BY DEF SetRuns, TestRuns, ReturnRuns, ToolRuns
<1>3. UNCHANGED <<hsRest, hsMem, hsLists, hsSpec, hsMacro, hsResults>>
  BY DEF SetRuns, TestRuns, ReturnRuns, ToolRuns
<1>4. QED BY <1>1, <1>2, <1>3, QuietNode

LEMMA RefusedStep ==
    ASSUME ScopeInv, NEW i \in Interpreters, Refused(i)
    PROVE  ScopeInv'
<1>1. hsState[i] = "running" /\ hsWork[i] # <<>> /\ Ends(i, "raised")
  BY DEF Refused
<1>2. /\ hsCapsule' = hsCapsule /\ hsForked' = hsForked /\ hsNames' = hsNames /\ hsRound' = hsRound /\ hsRan' = hsRan
      /\ hsMem' = hsMem /\ hsLists' = hsLists /\ hsSpec' = hsSpec /\ hsMacro' = hsMacro /\ hsResults' = hsResults
  BY DEF Refused, hsRest
<1>3. WorkFits(hsCapsule', hsWork', hsMacro')
  <2>1. hsMacro' \in Seq(LeafNodes)
    BY <1>2 DEF ScopeInv, WorkFits
  <2>2. QED BY <1>1, <1>2, <2>1, ProceedsFits
<1>4. TakenHaveResults' /\ DOMAIN hsState' = Interpreters
  <2>1. hsState' = [hsState EXCEPT ![i] = "raised"]
    BY <1>1 DEF Ends
  <2>2. QED BY <1>1, <1>2, <2>1, ResultsStay
<1>5. hsSpec' \in [Interpreters -> SpecSet] /\ SealedIsFrozen' /\ ListsOwned' /\ CapsuleHolds'
  <2>1. ListsOwned'
    BY <1>2, ListsStay DEF ScopeInv
  <2>2. QED BY <1>2, <2>1 DEF ScopeInv, SealedIsFrozen, CapsuleHolds
<1>6. QED BY <1>3, <1>4, <1>5 DEF ScopeInv

LEMMA MemoryStep ==
    ASSUME ScopeInv, NEW i \in Interpreters, MemoryRuns(i)
    PROVE  ScopeInv'
<1>1. hsState[i] = "running" /\ hsWork[i] # <<>> /\ Admits(i, Now(i)) /\ Executes(i) /\ Proceeds(i)
  BY DEF MemoryRuns, Due
<1>2. /\ hsCapsule' = hsCapsule /\ hsForked' = hsForked /\ hsNames' = hsNames /\ hsRound' = hsRound
      /\ hsSpec' = hsSpec /\ hsMacro' = hsMacro /\ hsResults' = hsResults
  BY DEF MemoryRuns, hsRest
<1>3. WorkFits(hsCapsule', hsWork', hsMacro')
  <2>1. hsMacro' \in Seq(LeafNodes)
    BY <1>2 DEF ScopeInv, WorkFits
  <2>2. QED BY <1>1, <1>2, <2>1, ProceedsFits
<1>4. CapsuleHolds'
  BY <1>1, <1>2, RunsPermitted
<1>5. TakenHaveResults' /\ DOMAIN hsState' = Interpreters
  BY <1>1, <1>2, ResultsStay DEF Proceeds
<1>6. /\ hsMem \in [Interpreters -> Nat] /\ hsLists \in Seq(Seq(Interpreters))
      /\ \A j \in Interpreters : hsMem[j] <= Len(hsLists)
      /\ \A l \in (1 .. Len(hsLists)) \ hsForked :
           \E k \in Interpreters : Range(hsLists[l]) = {k} /\ \A j \in Interpreters : hsMem[j] = l => j = k
  BY DEF ScopeInv, ListsOwned
<1>7. PICK n \in Nat : n = Len(hsLists)
  <2>1. Len(hsLists) \in Nat
    BY <1>6
  <2>2. QED BY <2>1
<1>8. ListsOwned'
  <2>1. CASE hsMem[i] # 0
    <3>1. PICK m : m = hsMem[i] /\ m \in 1 .. n
      BY <1>6, <1>7, <2>1
    <3>2. PICK s : s = hsLists[m] /\ s \in Seq(Interpreters)
      BY <1>6, <1>7, <3>1
    <3>3. PICK t : t = Append(s, i) /\ t \in Seq(Interpreters) /\ Range(t) = Range(s) \cup {i}
      <4>1. Append(s, i) \in Seq(Interpreters) /\ Range(Append(s, i)) = Range(s) \cup {i}
        BY <3>2, RangeOfAppend
      <4>2. QED BY <4>1
    <3>4. hsLists' = [hsLists EXCEPT ![m] = t] /\ hsMem' = hsMem
      BY <2>1, <3>1, <3>2, <3>3 DEF MemoryRuns
    <3>5. hsLists' \in Seq(Seq(Interpreters)) /\ Len(hsLists') = n
      BY <1>6, <1>7, <3>1, <3>3, <3>4
    <3>6. \A l \in 1 .. n : hsLists'[l] = (IF l = m THEN t ELSE hsLists[l])
      BY <1>6, <1>7, <3>4
    <3>7. ASSUME NEW l \in (1 .. n) \ hsForked
          PROVE  \E k \in Interpreters : Range(hsLists'[l]) = {k} /\ \A j \in Interpreters : hsMem[j] = l => j = k
      <4>1. PICK k \in Interpreters : Range(hsLists[l]) = {k} /\ \A j \in Interpreters : hsMem[j] = l => j = k
        BY <1>6, <1>7, <3>7
      <4>2. CASE l = m
        <5>1. i = k
          BY <3>1, <4>1, <4>2
        <5>2. Range(t) = {k}
          BY <3>2, <3>3, <4>1, <4>2, <5>1
        <5>3. QED BY <3>6, <4>1, <4>2, <5>2
      <4>3. CASE l # m
        BY <3>6, <4>1, <4>3
      <4>4. QED BY <4>2, <4>3
    <3>8. \A j \in Interpreters : hsMem'[j] <= Len(hsLists')
      BY <1>6, <1>7, <3>4, <3>5
    <3>9. \A l \in (1 .. Len(hsLists')) \ hsForked' :
            \E k \in Interpreters : Range(hsLists'[l]) = {k} /\ \A j \in Interpreters : hsMem'[j] = l => j = k
      <4>1. PICK k \in Nat : k = Len(hsLists') /\ k = n
        BY <1>7, <3>5
      <4>2. \A l \in (1 .. k) \ hsForked' : l \in (1 .. n) \ hsForked
        BY <1>2, <4>1
      <4>3. \A j \in Interpreters : hsMem'[j] = hsMem[j]
        BY <3>4
      <4>4. QED BY <3>7, <4>1, <4>2, <4>3
    <3>10. hsMem' \in [Interpreters -> Nat]
      BY <1>6, <3>4
    <3>11. QED BY <3>5, <3>8, <3>9, <3>10 DEF ListsOwned
  <2>2. CASE hsMem[i] = 0
    <3>1. PICK t : t = <<i>> /\ t \in Seq(Interpreters) /\ Range(t) = {i}
      <4>1. Range(<<i>>) = {i}
        BY RangeOfOne
      <4>2. <<i>> \in Seq(Interpreters)
        OBVIOUS
      <4>3. QED BY <4>1, <4>2
    <3>2. hsLists' = Append(hsLists, t) /\ hsMem' = [hsMem EXCEPT ![i] = n + 1]
      BY <1>7, <2>2, <3>1 DEF MemoryRuns
    <3>3. hsLists' \in Seq(Seq(Interpreters)) /\ Len(hsLists') = n + 1 /\ hsMem' \in [Interpreters -> Nat]
      BY <1>6, <1>7, <3>1, <3>2
    <3>4. \A l \in 1 .. n + 1 : hsLists'[l] = (IF l = n + 1 THEN t ELSE hsLists[l])
      BY <1>6, <1>7, <3>1, <3>2
    <3>5. \A j \in Interpreters : hsMem'[j] = (IF j = i THEN n + 1 ELSE hsMem[j]) /\ hsMem[j] <= n
      BY <1>6, <1>7, <3>2
    <3>6. ASSUME NEW l \in (1 .. n + 1) \ hsForked
          PROVE  \E k \in Interpreters : Range(hsLists'[l]) = {k} /\ \A j \in Interpreters : hsMem'[j] = l => j = k
      <4>1. CASE l = n + 1
        BY <3>1, <3>4, <3>5, <4>1
      <4>2. CASE l # n + 1
        <5>1. l \in (1 .. n) \ hsForked
          BY <3>6, <4>2
        <5>2. PICK k \in Interpreters : Range(hsLists[l]) = {k} /\ \A j \in Interpreters : hsMem[j] = l => j = k
          BY <1>6, <1>7, <5>1
        <5>3. QED BY <3>4, <3>5, <4>2, <5>1, <5>2
      <4>3. QED BY <4>1, <4>2
    <3>7. \A j \in Interpreters : hsMem'[j] <= n + 1
      <4>1. ASSUME NEW j \in Interpreters PROVE hsMem'[j] <= n + 1
        <5>1. hsMem[j] \in Nat /\ hsMem[j] <= n
          BY <1>6, <1>7
        <5>2. QED BY <1>7, <3>5, <5>1
      <4>2. QED BY <4>1
    <3>8. QED BY <1>2, <3>3, <3>6, <3>7 DEF ListsOwned
  <2>3. QED BY <2>1, <2>2
<1>9. hsSpec' \in [Interpreters -> SpecSet] /\ SealedIsFrozen'
  BY <1>2 DEF ScopeInv, SealedIsFrozen
<1>10. QED BY <1>3, <1>4, <1>5, <1>8, <1>9 DEF ScopeInv

LEMMA SpecStep ==
    ASSUME ScopeInv, NEW i \in Interpreters, SpecRuns(i)
    PROVE  ScopeInv'
<1>1. hsState[i] = "running" /\ hsWork[i] # <<>> /\ Admits(i, Now(i)) /\ Executes(i) /\ (Proceeds(i) \/ Ends(i, "raised"))
  BY DEF SpecRuns, Due
<1>2. /\ hsCapsule' = hsCapsule /\ hsForked' = hsForked /\ hsNames' = hsNames /\ hsRound' = hsRound
      /\ hsMem' = hsMem /\ hsLists' = hsLists /\ hsMacro' = hsMacro /\ hsResults' = hsResults
  BY DEF SpecRuns, hsRest
<1>3. WorkFits(hsCapsule', hsWork', hsMacro')
  <2>1. hsMacro' \in Seq(LeafNodes)
    BY <1>2 DEF ScopeInv, WorkFits
  <2>2. QED BY <1>1, <1>2, <2>1, ProceedsFits
<1>4. CapsuleHolds'
  BY <1>1, <1>2, RunsPermitted
<1>5. TakenHaveResults' /\ DOMAIN hsState' = Interpreters
  <2>1. hsState' = hsState \/ hsState' = [hsState EXCEPT ![i] = "raised"]
    BY <1>1 DEF Proceeds, Ends
  <2>2. QED BY <1>1, <1>2, <2>1, ResultsStay
<1>6. hsSpec' \in [Interpreters -> SpecSet] /\ SealedIsFrozen'
  <2>1. hsSpec \in [Interpreters -> SpecSet] /\ \A j \in Interpreters : hsSpec[j].sealed => hsSpec[j].registry = hsSpec[j].checksum
    BY DEF ScopeInv, SealedIsFrozen
  <2>2. CASE OpenTo(hsSpec[i], Now(i).tag)
    <3>1. PICK s : s = hsSpec[i] /\ s \in SpecSet /\ ~s.sealed
      BY <2>1, <2>2 DEF OpenTo
    <3>2. PICK tag : tag = Now(i).tag
      OBVIOUS
    <3>3. PICK u : u = Specified(s, tag) /\ hsSpec' = [hsSpec EXCEPT ![i] = u]
      BY <2>2, <3>1, <3>2 DEF SpecRuns
    <3>4. u \in SpecSet /\ (u.sealed => u.registry = u.checksum)
      <4>1. CASE tag = "SPEC_DEFINE"
        <5>1. u = [s EXCEPT !.registry = <<"defined">>]
          BY <3>3, <4>1 DEF Specified
        <5>2. <<"defined">> \in Seq({"defined", "updated"})
          OBVIOUS
        <5>3. QED BY <3>1, <5>1, <5>2 DEF SpecSet
      <4>2. CASE tag = "SPEC_UPDATE"
        <5>1. u = [s EXCEPT !.registry = Append(s.registry, "updated")]
          BY <3>1, <3>3, <4>2 DEF Specified, SpecSet
        <5>2. Append(s.registry, "updated") \in Seq({"defined", "updated"})
          BY <3>1 DEF SpecSet
        <5>3. QED BY <3>1, <5>1, <5>2 DEF SpecSet
      <4>3. CASE tag \notin {"SPEC_DEFINE", "SPEC_UPDATE"}
        <5>1. u = [s EXCEPT !.sealed = TRUE, !.checksum = s.registry]
          BY <3>3, <4>3 DEF Specified
        <5>2. QED BY <3>1, <5>1 DEF SpecSet
      <4>4. QED BY <4>1, <4>2, <4>3
    <3>5. QED BY <2>1, <3>3, <3>4 DEF SealedIsFrozen
  <2>3. CASE ~OpenTo(hsSpec[i], Now(i).tag)
    BY <2>1, <2>3 DEF SpecRuns, SealedIsFrozen
  <2>4. QED BY <2>2, <2>3
<1>7. ListsOwned'
  BY <1>2, ListsStay DEF ScopeInv
<1>8. QED BY <1>3, <1>4, <1>5, <1>6, <1>7 DEF ScopeInv


\* A statement with nodes inside it puts them, or the macro, before the others.
LEMMA InnerFits ==
    ASSUME ScopeInv, NEW i \in Interpreters, hsWork[i] # <<>>, hsMacro' = hsMacro, hsCapsule' = hsCapsule,
           NEW s \in Seq(NodesOf(hsCapsule, i)), hsWork' = [hsWork EXCEPT ![i] = s \o Tail(@)]
    PROVE  WorkFits(hsCapsule', hsWork', hsMacro')
<1>1. PICK c : c = NodesOf(hsCapsule, i)
  OBVIOUS
<1>2. Tail(hsWork[i]) \in Seq(c)
  BY <1>1, DueNode
<1>3. s \o Tail(hsWork[i]) \in Seq(c)
  BY <1>1, <1>2
<1>4. DOMAIN hsWork = Interpreters /\ hsMacro' \in Seq(LeafNodes)
  BY DEF ScopeInv, WorkFits
<1>5. PICK w \in Seq(NodesOf(hsCapsule, i)) : hsWork' = [hsWork EXCEPT ![i] = w]
  BY <1>1, <1>3, <1>4
<1>6. QED BY <1>4, <1>5, WorkStillFits

\* The parts of the invariant that the statements with nodes inside them leave alone.
LEMMA InnerKeeps ==
    ASSUME ScopeInv, NEW i \in Interpreters, hsState[i] = "running", hsWork[i] # <<>>, Admits(i, Now(i)), Executes(i),
           UNCHANGED <<hsRest, hsMem, hsLists, hsSpec, hsResults>>,
           WorkFits(hsCapsule', hsWork', hsMacro'),
           hsState' = hsState \/ hsState' = [hsState EXCEPT ![i] = "raised"]
    PROVE  ScopeInv'
<1>1. /\ hsCapsule' = hsCapsule /\ hsForked' = hsForked /\ hsNames' = hsNames /\ hsRound' = hsRound
      /\ hsMem' = hsMem /\ hsLists' = hsLists /\ hsSpec' = hsSpec /\ hsResults' = hsResults
  BY DEF hsRest
<1>2. CapsuleHolds'
  BY <1>1, RunsPermitted
<1>3. TakenHaveResults' /\ DOMAIN hsState' = Interpreters
  BY <1>1, ResultsStay
<1>4. ListsOwned'
  BY <1>1, ListsStay DEF ScopeInv
<1>5. hsSpec' \in [Interpreters -> SpecSet] /\ SealedIsFrozen'
  BY <1>1 DEF ScopeInv, SealedIsFrozen
<1>6. QED BY <1>2, <1>3, <1>4, <1>5 DEF ScopeInv

LEMMA DefineStep ==
    ASSUME ScopeInv, NEW i \in Interpreters, DefineRuns(i)
    PROVE  ScopeInv'
<1>1. hsState[i] = "running" /\ hsWork[i] # <<>> /\ Admits(i, Now(i)) /\ Executes(i) /\ Proceeds(i) /\ Now(i).tag = "DEFINE"
  BY DEF DefineRuns, Due, Now
<1>2. hsCapsule' = hsCapsule
  BY DEF DefineRuns, hsRest
<1>3. Now(i).inner \in Seq(LeafNodes)
  <2>1. Now(i) \in NodesOf(hsCapsule, i)
    BY <1>1, DueNode
  <2>2. QED BY <1>1, <2>1 DEF NodesOf, ProgramNodes, TaskNodes, LeafNodes, SyncNodes, SyncedNodes, DefineNodes,
                              ParallelNodes, LeafTags
<1>4. WorkFits(hsCapsule', hsWork', hsMacro')
  <2>1. hsMacro' \in Seq(LeafNodes)
    BY <1>3 DEF DefineRuns
  <2>2. QED BY <1>1, <1>2, <2>1, ProceedsFits
<1>5. hsState' = hsState /\ UNCHANGED <<hsRest, hsMem, hsLists, hsSpec, hsResults>>
  BY <1>1 DEF DefineRuns, Proceeds
<1>6. QED BY <1>1, <1>4, <1>5, InnerKeeps

LEMMA CallStep ==
    ASSUME ScopeInv, NEW i \in Interpreters, CallRuns(i)
    PROVE  ScopeInv'
<1>1. hsState[i] = "running" /\ hsWork[i] # <<>> /\ Admits(i, Now(i)) /\ Executes(i)
  BY DEF CallRuns, Due
<1>2. hsCapsule' = hsCapsule /\ hsMacro' = hsMacro
  BY DEF CallRuns, hsRest
<1>3. WorkFits(hsCapsule', hsWork', hsMacro')
  <2>1. hsMacro \in Seq(LeafNodes)
    BY DEF ScopeInv, WorkFits
  <2>2. CASE i = 0 /\ hsMacro # <<>>
    <3>1. LeafNodes \subseteq NodesOf(hsCapsule, i)
      BY <2>2 DEF NodesOf, ProgramNodes
    <3>2. PICK s \in Seq(NodesOf(hsCapsule, i)) : s = hsMacro
      BY <2>1, <3>1
    <3>3. hsWork' = [hsWork EXCEPT ![i] = s \o Tail(@)]
      BY <2>2, <3>2 DEF CallRuns
    <3>4. QED BY <1>1, <1>2, <3>3, InnerFits
  <2>3. CASE ~(i = 0 /\ hsMacro # <<>>)
    <3>1. Ends(i, "raised")
      BY <2>3 DEF CallRuns
    <3>2. QED BY <1>1, <1>2, <2>1, <3>1, ProceedsFits
  <2>4. QED BY <2>2, <2>3
<1>4. hsState' = hsState \/ hsState' = [hsState EXCEPT ![i] = "raised"]
  BY DEF CallRuns, Ends
<1>5. UNCHANGED <<hsRest, hsMem, hsLists, hsSpec, hsResults>>
  BY DEF CallRuns
<1>6. QED BY <1>1, <1>3, <1>4, <1>5, InnerKeeps

LEMMA SyncStep ==
    ASSUME ScopeInv, NEW i \in Interpreters, SyncRuns(i)
    PROVE  ScopeInv'
<1>1. hsState[i] = "running" /\ hsWork[i] # <<>> /\ Admits(i, Now(i)) /\ Executes(i) /\ Now(i).tag = "SYNC"
  BY DEF SyncRuns, Due, Now
<1>2. hsCapsule' = hsCapsule /\ hsMacro' = hsMacro
  BY DEF SyncRuns, hsRest
<1>3. PICK s \in Seq(NodesOf(hsCapsule, i)) : s = Now(i).inner
  <2>1. Now(i) \in NodesOf(hsCapsule, i)
    BY <1>1, DueNode
  <2>2. Now(i).inner \in Seq(SyncedNodes)
    BY <1>1, <2>1 DEF NodesOf, ProgramNodes, TaskNodes, LeafNodes, SyncNodes, SyncedNodes, DefineNodes,
                      ParallelNodes, LeafTags
  <2>3. SyncedNodes \subseteq NodesOf(hsCapsule, i)
    BY DEF NodesOf, ProgramNodes, SyncedNodes, LeafNodes, Unders
  <2>4. QED BY <2>2, <2>3
<1>4. hsWork' = [hsWork EXCEPT ![i] = s \o Tail(@)]
  BY <1>3 DEF SyncRuns
<1>5. WorkFits(hsCapsule', hsWork', hsMacro')
  BY <1>1, <1>2, <1>4, InnerFits
<1>6. hsState' = hsState /\ UNCHANGED <<hsRest, hsMem, hsLists, hsSpec, hsResults>>
  BY DEF SyncRuns
<1>7. QED BY <1>1, <1>5, <1>6, InnerKeeps

LEMMA StatementStep ==
    ASSUME ScopeInv, NextStatement
    PROVE  ScopeInv'
<1>1. PICK node \in ScopeStatements : Preflight(hsCapsule, node) /\ hsWork' = [hsWork EXCEPT ![0] = <<node>>]
  BY DEF NextStatement
<1>2. 0 \in Interpreters
  BY DEF Interpreters
<1>3. PICK w \in Seq(NodesOf(hsCapsule, 0)) : w = <<node>>
  <2>1. node \in NodesOf(hsCapsule, 0)
    BY <1>1, PassedFit DEF NodesOf
  <2>2. PICK c : c = NodesOf(hsCapsule, 0)
    OBVIOUS
  <2>3. <<node>> \in Seq(c)
    BY <2>1, <2>2
  <2>4. QED BY <2>2, <2>3
<1>4. WorkFits(hsCapsule', hsWork', hsMacro')
  <2>1. hsCapsule' = hsCapsule /\ hsMacro' \in Seq(LeafNodes)
    BY DEF NextStatement, ScopeInv, WorkFits
  <2>2. QED BY <1>1, <1>2, <1>3, <2>1, WorkStillFits
<1>5. ListsOwned'
  BY ListsStay DEF ScopeInv, NextStatement
<1>6. TakenHaveResults'
  BY DEF ScopeInv, NextStatement, TakenHaveResults
<1>7. QED BY <1>4, <1>5, <1>6 DEF ScopeInv, NextStatement, SealedIsFrozen, CapsuleHolds

LEMMA EndStep ==
    ASSUME ScopeInv, NEW i \in Interpreters, ScopeEnds(i)
    PROVE  ScopeInv'
<1>1. hsState[i] = "running" /\ hsState' = [hsState EXCEPT ![i] = "ended"]
  BY DEF ScopeEnds
<1>2. /\ hsCapsule' = hsCapsule /\ hsForked' = hsForked /\ hsNames' = hsNames /\ hsRound' = hsRound /\ hsRan' = hsRan
      /\ hsMem' = hsMem /\ hsLists' = hsLists /\ hsSpec' = hsSpec /\ hsMacro' = hsMacro /\ hsResults' = hsResults
      /\ hsWork' = hsWork
  BY DEF ScopeEnds, hsRest
<1>3. TakenHaveResults' /\ DOMAIN hsState' = Interpreters
  BY <1>1, <1>2, ResultsStay
<1>4. ListsOwned'
  BY <1>2, ListsStay DEF ScopeInv
<1>5. QED BY <1>2, <1>3, <1>4 DEF ScopeInv, SealedIsFrozen, CapsuleHolds


LEMMA ParallelStep ==
    ASSUME ScopeInv, ParallelRuns
    PROVE  ScopeInv'
<1>1. hsWork[0] # <<>> /\ Admits(0, Now(0)) /\ Executes(0) /\ Now(0).tag = "PARALLEL" /\ 0 \in Interpreters
  BY DEF ParallelRuns, Due, Now, Interpreters
<1>2. /\ hsCapsule' = hsCapsule /\ hsLists' = hsLists /\ hsMacro' = hsMacro /\ hsResults' = hsResults
      /\ hsForked' = hsForked \cup {hsMem[0]}
  BY DEF ParallelRuns
<1>3. PICK tasks : tasks = Now(0).inner /\ tasks \in [ScopeTasks -> TaskNodes(hsCapsule)]
  <2>1. Now(0) \in NodesOf(hsCapsule, 0)
    BY <1>1, DueNode
  <2>2. QED BY <1>1, <2>1 DEF NodesOf, ProgramNodes, TaskNodes, LeafNodes, SyncNodes, SyncedNodes, DefineNodes,
                              ParallelNodes, LeafTags
<1>4. WorkFits(hsCapsule', hsWork', hsMacro')
  <2>1. hsWork' = [i \in Interpreters |-> IF i = 0 THEN Tail(hsWork[0]) ELSE <<tasks[i]>>]
    BY <1>3 DEF ParallelRuns
  <2>2. ASSUME NEW i \in Interpreters PROVE hsWork'[i] \in Seq(NodesOf(hsCapsule, i))
    <3>1. CASE i = 0
      <4>1. Tail(hsWork[0]) \in Seq(NodesOf(hsCapsule, 0))
        BY <1>1, DueNode
      <4>2. QED BY <2>1, <3>1, <4>1
    <3>2. CASE i # 0
      <4>1. tasks[i] \in TaskNodes(hsCapsule)
        BY <1>3, <3>2 DEF Interpreters
      <4>2. PICK c : c = NodesOf(hsCapsule, i) /\ tasks[i] \in c
        BY <3>2, <4>1 DEF NodesOf
      <4>3. <<tasks[i]>> \in Seq(c)
        BY <4>2
      <4>4. QED BY <2>1, <3>2, <4>2, <4>3
    <3>3. QED BY <3>1, <3>2
  <2>3. hsMacro \in Seq(LeafNodes)
    BY DEF ScopeInv, WorkFits
  <2>4. QED BY <1>2, <2>1, <2>2, <2>3 DEF WorkFits
<1>5. CapsuleHolds'
  BY <1>1, <1>2, RunsPermitted
<1>6. hsSpec' \in [Interpreters -> SpecSet] /\ SealedIsFrozen'
  <2>1. hsSpec \in [Interpreters -> SpecSet] /\ \A j \in Interpreters : hsSpec[j].sealed => hsSpec[j].registry = hsSpec[j].checksum
    BY DEF ScopeInv, SealedIsFrozen
  <2>2. PICK s, e : s = hsSpec[0] /\ e = EmptySpec /\ s \in SpecSet
    BY <1>1, <2>1
  <2>3. hsSpec' = [i \in Interpreters |-> IF i = 0 THEN s ELSE e]
    BY <2>2 DEF ParallelRuns, ForkedSpec
  <2>4. e \in SpecSet /\ ~e.sealed
    <3>1. <<>> \in Seq({"defined", "updated"})
      OBVIOUS
    <3>2. e = [registry |-> <<>>, sealed |-> FALSE, checksum |-> <<>>]
      BY <2>2 DEF EmptySpec
    <3>3. QED BY <3>1, <3>2 DEF SpecSet
  <2>5. s.sealed => s.registry = s.checksum
    BY <1>1, <2>1, <2>2
  <2>6. QED BY <2>2, <2>3, <2>4, <2>5 DEF SealedIsFrozen
<1>7. ListsOwned'
  <2>1. /\ hsMem \in [Interpreters -> Nat] /\ hsLists \in Seq(Seq(Interpreters))
        /\ \A i \in Interpreters : hsMem[i] <= Len(hsLists)
        /\ \A l \in (1 .. Len(hsLists)) \ hsForked :
             \E k \in Interpreters : Range(hsLists[l]) = {k} /\ \A j \in Interpreters : hsMem[j] = l => j = k
    BY DEF ScopeInv, ListsOwned
  <2>2. PICK m : m = hsMem[0] /\ m \in Nat /\ m <= Len(hsLists) /\ hsMem' = [i \in Interpreters |-> m]
    BY <1>1, <2>1 DEF ParallelRuns
  <2>3. hsMem' \in [Interpreters -> Nat] /\ \A i \in Interpreters : hsMem'[i] <= Len(hsLists)
    BY <2>2
  <2>4. ASSUME NEW l \in (1 .. Len(hsLists)) \ hsForked'
        PROVE  \E k \in Interpreters : Range(hsLists[l]) = {k} /\ \A j \in Interpreters : hsMem'[j] = l => j = k
    <3>1. l # m /\ l \in (1 .. Len(hsLists)) \ hsForked
      BY <1>2, <2>2, <2>4
    <3>2. PICK k \in Interpreters : Range(hsLists[l]) = {k}
      BY <2>1, <3>1
    <3>3. \A j \in Interpreters : hsMem'[j] # l
      BY <2>2, <3>1
    <3>4. QED BY <3>2, <3>3
  <2>5. hsLists \in Seq(Seq(Interpreters))
    BY <2>1
  <2>6. QED BY <1>2, <2>3, <2>4, <2>5, Zenon DEF ListsOwned
<1>8. TakenHaveResults' /\ DOMAIN hsState' = Interpreters
  <2>1. hsState' = [i \in Interpreters |-> IF i = 0 THEN "waiting" ELSE "running"]
    BY DEF ParallelRuns
  <2>2. \A t \in ScopeTasks : hsState'[t] = "running"
    BY <2>1 DEF ScopeTasks, Interpreters
  <2>3. \A t \in ScopeTasks : tasks[t].tag \in Names
    BY <1>3 DEF TaskNodes
  <2>4. hsNames' = [t \in ScopeTasks |-> tasks[t].tag]
    BY <1>3 DEF ParallelRuns
  <2>5. DOMAIN hsResults' = Names
    BY <1>2 DEF ScopeInv, TakenHaveResults
  <2>6. \A t \in ScopeTasks : hsState'[t] # "taken" /\ hsNames'[t] \in Names
    BY <2>2, <2>3, <2>4
  <2>7. hsNames' \in [ScopeTasks -> Names \cup {""}]
    BY <2>3, <2>4
  <2>8. QED BY <2>1, <2>5, <2>6, <2>7 DEF TakenHaveResults
<1>9. QED BY <1>4, <1>5, <1>6, <1>7, <1>8 DEF ScopeInv

LEMMA ResultStep ==
    ASSUME ScopeInv, NEW t \in ScopeTasks, ResultTaken(t)
    PROVE  ScopeInv'
<1>1. /\ hsCapsule' = hsCapsule /\ hsForked' = hsForked /\ hsNames' = hsNames /\ hsRound' = hsRound /\ hsRan' = hsRan
      /\ hsMem' = hsMem /\ hsLists' = hsLists /\ hsSpec' = hsSpec /\ hsMacro' = hsMacro /\ hsWork' = hsWork
  BY DEF ResultTaken, hsRest
<1>2. /\ hsNames \in [ScopeTasks -> Names \cup {""}] /\ DOMAIN hsResults = Names /\ DOMAIN hsState = Interpreters
      /\ \A u \in ScopeTasks : hsState[u] # "none" => hsNames[u] \in Names
      /\ \A u \in ScopeTasks : hsState[u] = "taken" =>
           \E r \in hsResults[hsNames[u]] : r.round = hsRound /\ hsNames[r.task] = hsNames[u]
  BY DEF ScopeInv, TakenHaveResults
<1>3. hsState[t] \in {"ended", "raised"} /\ hsNames[t] \in Names
  BY <1>2 DEF ResultTaken
<1>4. PICK state : /\ state = [hsState EXCEPT ![t] = IF @ = "ended" THEN "taken" ELSE "failed"]
                   /\ hsState' = state \/ hsState' = [state EXCEPT ![0] = "running"]
  BY DEF ResultTaken
<1>5. /\ DOMAIN hsState' = Interpreters
      /\ \A u \in ScopeTasks : hsState'[u] = (IF u = t THEN (IF hsState[t] = "ended" THEN "taken" ELSE "failed") ELSE hsState[u])
  <2>1. PICK end : end = (IF hsState[t] = "ended" THEN "taken" ELSE "failed")
    OBVIOUS
  <2>2. state = [hsState EXCEPT ![t] = end] /\ t \in Interpreters /\ ScopeTasks \subseteq Interpreters
    BY <1>4, <2>1 DEF Interpreters
  <2>3. DOMAIN state = Interpreters /\ \A u \in ScopeTasks : state[u] = (IF u = t THEN end ELSE hsState[u])
    BY <1>2, <2>2
  <2>4. \A u \in ScopeTasks : u # 0
    BY DEF ScopeTasks
  <2>5. DOMAIN hsState' = Interpreters /\ \A u \in ScopeTasks : hsState'[u] = state[u]
    BY <1>4, <2>2, <2>3, <2>4
  <2>6. QED BY <2>1, <2>3, <2>5
<1>6. PICK q : q = [task |-> t, round |-> hsRound, x |-> hsX[t], mem |-> hsMem[t]] /\ TaskResult(t) = {q}
  BY DEF TaskResult
<1>7. hsResults' = (IF hsState[t] = "ended" THEN [hsResults EXCEPT ![hsNames[t]] = {q}] ELSE hsResults)
  BY <1>6 DEF ResultTaken
<1>8. ASSUME NEW u \in ScopeTasks, hsState'[u] = "taken"
      PROVE  \E r \in hsResults'[hsNames[u]] : r.round = hsRound /\ hsNames[r.task] = hsNames[u]
  <2>1. u = t => hsState[t] = "ended"
    BY <1>5, <1>8
  <2>2. hsNames[u] \in Names
    BY <1>2, <1>3, <1>5, <1>8
  <2>3. CASE hsState[t] = "ended" /\ hsNames[u] = hsNames[t]
    <3>1. hsResults'[hsNames[u]] = {q}
      BY <1>2, <1>7, <2>2, <2>3
    <3>2. q.round = hsRound /\ hsNames[q.task] = hsNames[u]
      BY <1>6, <2>3
    <3>3. QED BY <3>1, <3>2
  <2>4. CASE ~(hsState[t] = "ended" /\ hsNames[u] = hsNames[t])
    <3>1. u # t /\ hsState[u] = "taken" /\ hsResults'[hsNames[u]] = hsResults[hsNames[u]]
      BY <1>2, <1>5, <1>7, <1>8, <2>1, <2>2, <2>4
    <3>2. QED BY <1>2, <3>1
  <2>5. QED BY <2>3, <2>4
<1>9. TakenHaveResults'
  <2>1. DOMAIN hsResults' = Names
    BY <1>2, <1>7
  <2>2. \A u \in ScopeTasks : hsState'[u] # "none" => hsNames[u] \in Names
    BY <1>2, <1>3, <1>5
  <2>3. QED BY <1>1, <1>2, <1>8, <2>1, <2>2 DEF TakenHaveResults
<1>10. ListsOwned'
  BY <1>1, ListsStay DEF ScopeInv
<1>11. QED BY <1>1, <1>5, <1>9, <1>10 DEF ScopeInv, SealedIsFrozen, CapsuleHolds

\* What an interpreter's programs leave behind, with macros, SYNC and parallel tasks that
\* end in any order: the spec that was sealed, its lists, the results it has taken and
\* what its capsule let run (HLFInterpreter, CapsuleInterpreter, _exec_parallel).
THEOREM ScopeSound == ScopeSpec => []ScopeIsSound
<1>1. ScopeInit => ScopeInv
  <2>1. SUFFICES ASSUME ScopeInit PROVE ScopeInv
    OBVIOUS
  <2>2. /\ hsWork = [i \in Interpreters |-> <<>>] /\ hsState = [i \in Interpreters |-> IF i = 0 THEN "running" ELSE "none"]
        /\ hsMem = [i \in Interpreters |-> 0] /\ hsLists = <<>> /\ hsMacro = <<>> /\ hsResults = [n \in Names |-> {}]
        /\ hsNames = [t \in ScopeTasks |-> ""] /\ hsRan = {} /\ hsSpec = [i \in Interpreters |-> EmptySpec]
    <3>1. hsWork = [i \in Interpreters |-> <<>>]
      BY <2>1 DEF ScopeInit
    <3>2. hsState = [i \in Interpreters |-> IF i = 0 THEN "running" ELSE "none"]
      BY <2>1 DEF ScopeInit
    <3>3. hsMem = [i \in Interpreters |-> 0]
      BY <2>1 DEF ScopeInit
    <3>4. hsLists = <<>> /\ hsMacro = <<>> /\ hsRan = {}
      BY <2>1 DEF ScopeInit
    <3>5. hsResults = [n \in Names |-> {}]
      BY <2>1 DEF ScopeInit
    <3>6. hsNames = [t \in ScopeTasks |-> ""]
      BY <2>1 DEF ScopeInit
    <3>7. hsSpec = [i \in Interpreters |-> EmptySpec]
      BY <2>1 DEF ScopeInit
    <3>8. QED BY <3>1, <3>2, <3>3, <3>4, <3>5, <3>6, <3>7
  <2>3. WorkFits(hsCapsule, hsWork, hsMacro)
    <3>1. <<>> \in Seq(LeafNodes) /\ \A i : <<>> \in Seq(NodesOf(hsCapsule, i))
      OBVIOUS
    <3>2. QED BY <2>2, <3>1 DEF WorkFits
  <2>4. hsSpec \in [Interpreters -> SpecSet] /\ SealedIsFrozen
    <3>1. <<>> \in Seq({"defined", "updated"})
      OBVIOUS
    <3>2. EmptySpec \in SpecSet /\ ~EmptySpec.sealed
      BY <3>1 DEF EmptySpec, SpecSet
    <3>3. QED BY <2>2, <3>2 DEF SealedIsFrozen
  <2>5. ListsOwned
    <3>1. <<>> \in Seq(Seq(Interpreters)) /\ Len(<<>>) = 0
      OBVIOUS
    <3>2. hsLists \in Seq(Seq(Interpreters)) /\ Len(hsLists) = 0
      BY <2>2, <3>1, Zenon
    <3>3. hsMem \in [Interpreters -> Nat] /\ \A i \in Interpreters : hsMem[i] = 0
      BY <2>2
    <3>4. QED BY <3>2, <3>3 DEF ListsOwned
  <2>6. TakenHaveResults /\ DOMAIN hsState = Interpreters
    <3>1. hsNames \in [ScopeTasks -> Names \cup {""}] /\ DOMAIN hsResults = Names /\ DOMAIN hsState = Interpreters
      BY <2>2
    <3>2. \A t \in ScopeTasks : hsState[t] = "none"
      <4>1. hsState = [i \in Interpreters |-> IF i = 0 THEN "running" ELSE "none"]
        BY <2>2
      <4>2. QED BY <4>1 DEF ScopeTasks, Interpreters
    <3>3. QED BY <3>1, <3>2 DEF TakenHaveResults
  <2>7. CapsuleHolds
    BY <2>2 DEF CapsuleHolds
  <2>8. QED BY <2>3, <2>4, <2>5, <2>6, <2>7 DEF ScopeInv
<1>2. ScopeInv /\ [ScopeNext]_hsVars => ScopeInv'
  <2>1. ASSUME ScopeInv, UNCHANGED hsVars PROVE ScopeInv'
    <3>1. /\ hsCapsule' = hsCapsule /\ hsForked' = hsForked /\ hsNames' = hsNames /\ hsRound' = hsRound /\ hsRan' = hsRan
          /\ hsMem' = hsMem /\ hsLists' = hsLists /\ hsSpec' = hsSpec /\ hsMacro' = hsMacro /\ hsWork' = hsWork
          /\ hsState' = hsState /\ hsResults' = hsResults
      BY <2>1 DEF hsVars
    <3>2. ListsOwned'
      BY <2>1, <3>1, ListsStay DEF ScopeInv
    <3>3. TakenHaveResults'
      BY <2>1, <3>1 DEF ScopeInv, TakenHaveResults
    <3>4. QED BY <2>1, <3>1, <3>2, <3>3 DEF ScopeInv, SealedIsFrozen, CapsuleHolds
  <2>2. ASSUME ScopeInv, ScopeNext PROVE ScopeInv'
    BY <2>2, QuietSteps, RefusedStep, MemoryStep, SpecStep, DefineStep, CallStep, SyncStep, StatementStep, EndStep,
       ParallelStep, ResultStep DEF ScopeNext
  <2>3. QED BY <2>1, <2>2
<1>3. ScopeInv => ScopeIsSound
  <2>1. SUFFICES ASSUME ScopeInv PROVE TasksShareOnlyForkedLists /\ ResultsAreCurrent
    BY DEF ScopeInv, ScopeIsSound
  <2>2. TasksShareOnlyForkedLists
    <3>1. SUFFICES ASSUME NEW l \in DOMAIN hsLists, NEW t \in ScopeTasks, t \in Range(hsLists[l]), l \notin hsForked
                   PROVE  l # hsMem[0] /\ Range(hsLists[l]) = {t}
      BY DEF TasksShareOnlyForkedLists
    <3>2. l \in (1 .. Len(hsLists)) \ hsForked /\ 0 \in Interpreters /\ t # 0
      BY <2>1, <3>1 DEF ScopeInv, ListsOwned, Interpreters, ScopeTasks
    <3>3. PICK k \in Interpreters : Range(hsLists[l]) = {k} /\ \A j \in Interpreters : hsMem[j] = l => j = k
      BY <2>1, <3>2 DEF ScopeInv, ListsOwned
    <3>4. QED BY <3>1, <3>2, <3>3
  <2>3. ResultsAreCurrent
    BY <2>1 DEF ScopeInv, TakenHaveResults, ResultsAreCurrent
  <2>4. QED BY <2>2, <2>3
<1>4. QED BY <1>1, <1>2, <1>3, PTL DEF ScopeSpec

-----------------------------------------------------------------------------
(* The runtime and its modules. *)

Paths == Seq(RtModules \cup {"v"}) \ {<<>>}
Spaces == UNION {[D -> RtModules \X Nat] : D \in SUBSET Paths}
Frames == [name : RtModules, ns : Spaces, todo : Seq(RtModules)]
FileSet == [state : {"ok", "absent", "syntax"}, version : Nat, imports : Seq(RtModules)]

\* Names under a module are that module's of cache c, all of them, each under the module it
\* comes from; and plain names are module m's own.
WholeIn(c, ns) ==
  \A p \in DOMAIN ns : Len(p) > 1 =>
    /\ p[1] \in RtModules /\ ns[p][1] = p[Len(p) - 1]
    /\ \E d \in c[p[1]] : /\ Tail(p) \in DOMAIN d
                          /\ \A q \in DOMAIN d : <<p[1]>> \o q \in DOMAIN ns /\ ns[<<p[1]>> \o q] = d[q]
OwnNames(m, ns) == \A p \in DOMAIN ns : Len(p) = 1 => ns[p][1] = m
CacheFits(c) ==
  /\ DOMAIN c = RtModules
  /\ \A m \in RtModules : c[m] = {} \/ \E ns \in Spaces : c[m] = {ns} /\ OwnNames(m, ns) /\ WholeIn(c, ns)
FrameFits(c, f) == c[f.name] = {} /\ OwnNames(f.name, f.ns) /\ WholeIn(c, f.ns)
\* The loads in progress, innermost last.
StackFits(stack, loading, c) ==
  /\ stack \in Seq(Frames) /\ \A i \in 1 .. Len(stack) : FrameFits(c, stack[i])
  /\ \A i, j \in 1 .. Len(stack) : i # j => stack[i].name # stack[j].name
  /\ loading = {stack[i].name : i \in 1 .. Len(stack)}
EnvFits(c, env) == DOMAIN env \subseteq Paths /\ WholeIn(c, env)

LEMMA PathFacts ==
    ASSUME NEW m \in RtModules, NEW p \in Paths
    PROVE  /\ <<m>> \o p \in Paths /\ (<<m>> \o p)[1] = m /\ Tail(<<m>> \o p) = p
           /\ Len(p) \in Nat \ {0} /\ Len(<<m>> \o p) = Len(p) + 1
           /\ Len(p) = 1 => (<<m>> \o p)[Len(p)] = m
           /\ Len(p) > 1 => (<<m>> \o p)[Len(p)] = p[Len(p) - 1]
<1>1. PICK N : N = RtModules \cup {"v"}
  OBVIOUS
<1>2. p \in Seq(N) /\ p # <<>> /\ m \in N /\ Paths = Seq(N) \ {<<>>}
  BY <1>1 DEF Paths
<1>3. Len(p) \in Nat \ {0}
  BY <1>2
<1>4. PICK x : x = <<m>> \o p
  OBVIOUS
<1>5. x \in Seq(N) /\ Len(x) = Len(p) + 1 /\ x[1] = m /\ \A i \in 1 .. Len(p) : x[i + 1] = p[i]
  BY <1>2, <1>4
<1>6. x \in Paths
  BY <1>2, <1>3, <1>5
<1>7. Tail(x) = p
  <2>1. Tail(x) \in Seq(N) /\ Len(Tail(x)) = Len(p) /\ \A i \in 1 .. Len(p) : Tail(x)[i] = x[i + 1]
    BY <1>2, <1>3, <1>5
  <2>2. QED BY <1>2, <1>5, <2>1
<1>8. Len(p) > 1 => x[Len(p)] = p[Len(p) - 1]
  <2>1. SUFFICES ASSUME Len(p) > 1 PROVE x[Len(p)] = p[Len(p) - 1]
    OBVIOUS
  <2>2. Len(p) - 1 \in 1 .. Len(p) /\ (Len(p) - 1) + 1 = Len(p)
    BY <1>3, <2>1
  <2>3. QED BY <1>5, <2>2
<1>9. QED BY <1>3, <1>4, <1>5, <1>6, <1>7, <1>8

LEMMA PathLength ==
    ASSUME NEW p \in Paths
    PROVE  Len(p) \in Nat
<1>1. PICK N : N = RtModules \cup {"v"}
  OBVIOUS
<1>2. p \in Seq(N)
  BY <1>1 DEF Paths
<1>3. QED BY <1>2

LEMMA SpaceDomain ==
    ASSUME NEW ns \in Spaces
    PROVE  DOMAIN ns \subseteq Paths /\ ns \in [DOMAIN ns -> RtModules \X Nat]
  BY DEF Spaces

LEMMA QualifiedIs ==
    ASSUME NEW m \in RtModules, NEW ns \in Spaces
    PROVE  /\ DOMAIN Qualified(m, ns) = {<<m>> \o p : p \in DOMAIN ns}
           /\ \A p \in DOMAIN ns : Qualified(m, ns)[<<m>> \o p] = ns[p]
           /\ \A x \in DOMAIN Qualified(m, ns) :
                x \in Paths /\ Len(x) > 1 /\ x[1] = m /\ Tail(x) \in DOMAIN ns /\ Qualified(m, ns)[x] = ns[Tail(x)]
<1>1. DOMAIN ns \subseteq Paths
  BY SpaceDomain
<1>2. PICK D : D = {<<m>> \o p : p \in DOMAIN ns}
  OBVIOUS
<1>3. PICK g : g = Qualified(m, ns) /\ g = [x \in D |-> ns[Tail(x)]]
  BY <1>2 DEF Qualified
<1>4. DOMAIN g = D /\ \A x \in D : g[x] = ns[Tail(x)]
  BY <1>3
<1>5. ASSUME NEW x \in D PROVE x \in Paths /\ Len(x) > 1 /\ x[1] = m /\ Tail(x) \in DOMAIN ns
  <2>1. PICK p \in DOMAIN ns : x = <<m>> \o p
    BY <1>2, <1>5
  <2>2. p \in Paths
    BY <1>1
  <2>3. x \in Paths /\ x[1] = m /\ Tail(x) = p /\ Len(x) = Len(p) + 1 /\ Len(p) \in Nat \ {0}
    BY <2>1, <2>2, PathFacts
  <2>4. PICK k \in Nat \ {0} : k = Len(p)
    BY <2>3
  <2>5. Len(x) > 1
    BY <2>3, <2>4
  <2>6. QED BY <2>1, <2>3, <2>5
<1>6. ASSUME NEW p \in DOMAIN ns PROVE g[<<m>> \o p] = ns[p]
  <2>1. Tail(<<m>> \o p) = p
    BY <1>1, PathFacts
  <2>2. <<m>> \o p \in D
    BY <1>2
  <2>3. QED BY <1>4, <2>1, <2>2
<1>7. QED BY <1>2, <1>3, <1>4, <1>5, <1>6


LEMMA OneInCache ==
    ASSUME NEW c, CacheFits(c), NEW m \in RtModules, NEW ns \in c[m]
    PROVE  c[m] = {ns} /\ ns \in Spaces /\ OwnNames(m, ns) /\ WholeIn(c, ns)
  BY DEF CacheFits

\* To merge the qualified names of a module in the cache keeps names whole.
LEMMA MergeKeeps ==
    ASSUME NEW c, CacheFits(c), NEW m \in RtModules, NEW ns \in c[m],
           NEW f, DOMAIN f \subseteq Paths, WholeIn(c, f),
           NEW g, g = Merged(f, Qualified(m, ns))
    PROVE  /\ DOMAIN g = DOMAIN f \cup DOMAIN Qualified(m, ns) /\ DOMAIN g \subseteq Paths /\ WholeIn(c, g)
           /\ \A k : OwnNames(k, f) => OwnNames(k, g)
<1>1. c[m] = {ns} /\ ns \in Spaces /\ OwnNames(m, ns) /\ WholeIn(c, ns)
  BY OneInCache
<1>2. PICK h : /\ h = Qualified(m, ns)
               /\ DOMAIN h = {<<m>> \o p : p \in DOMAIN ns}
               /\ \A p \in DOMAIN ns : h[<<m>> \o p] = ns[p]
               /\ \A x \in DOMAIN h : x \in Paths /\ Len(x) > 1 /\ x[1] = m /\ Tail(x) \in DOMAIN ns /\ h[x] = ns[Tail(x)]
  <2>1. ns \in Spaces
    BY <1>1
  <2>2. /\ DOMAIN Qualified(m, ns) = {<<m>> \o p : p \in DOMAIN ns}
        /\ \A p \in DOMAIN ns : Qualified(m, ns)[<<m>> \o p] = ns[p]
        /\ \A x \in DOMAIN Qualified(m, ns) :
             x \in Paths /\ Len(x) > 1 /\ x[1] = m /\ Tail(x) \in DOMAIN ns /\ Qualified(m, ns)[x] = ns[Tail(x)]
    BY <2>1, QualifiedIs, Zenon
  <2>3. QED BY <2>2, Zenon
<1>3. DOMAIN g = DOMAIN f \cup DOMAIN h /\ \A x \in DOMAIN g : g[x] = (IF x \in DOMAIN h THEN h[x] ELSE f[x])
  BY <1>2 DEF Merged
<1>4. \A x \in DOMAIN h : x \in DOMAIN g /\ g[x] = h[x]
  BY <1>3
<1>5. ASSUME NEW p \in DOMAIN g, Len(p) > 1
      PROVE  /\ p[1] \in RtModules /\ g[p][1] = p[Len(p) - 1]
             /\ \E d \in c[p[1]] : /\ Tail(p) \in DOMAIN d
                                   /\ \A q \in DOMAIN d : <<p[1]>> \o q \in DOMAIN g /\ g[<<p[1]>> \o q] = d[q]
  <2>1. \A q \in DOMAIN ns : <<m>> \o q \in DOMAIN g /\ g[<<m>> \o q] = ns[q]
    <3>1. ASSUME NEW q \in DOMAIN ns PROVE <<m>> \o q \in DOMAIN g /\ g[<<m>> \o q] = ns[q]
      <4>1. <<m>> \o q \in DOMAIN h /\ h[<<m>> \o q] = ns[q]
        BY <1>2
      <4>2. QED BY <1>4, <4>1
    <3>2. QED BY <3>1
  <2>2. CASE p \in DOMAIN h
    <3>1. PICK t : t = Tail(p) /\ t \in DOMAIN ns /\ t \in Paths /\ h[p] = ns[t] /\ p[1] = m
      BY <1>1, <1>2, <2>2, SpaceDomain
    <3>2. PICK r \in DOMAIN ns : p = <<m>> \o r
      BY <1>2, <2>2
    <3>3. r \in Paths /\ r = t
      BY <1>1, <3>1, <3>2, PathFacts, SpaceDomain
    <3>4. /\ Len(t) \in Nat \ {0} /\ Len(p) = Len(t) + 1
          /\ Len(t) = 1 => p[Len(t)] = m
          /\ Len(t) > 1 => p[Len(t)] = t[Len(t) - 1]
      BY <3>2, <3>3, PathFacts
    <3>5. PICK k \in Nat \ {0} : k = Len(t)
      BY <3>4
    <3>6. k = Len(p) - 1
      BY <3>4, <3>5
    <3>7. ns[t][1] = p[k]
      <4>1. CASE k = 1
        BY <1>1, <3>1, <3>4, <3>5, <4>1 DEF OwnNames
      <4>2. CASE k > 1
        BY <1>1, <3>1, <3>4, <3>5, <4>2 DEF WholeIn
      <4>3. k = 1 \/ k > 1
        OBVIOUS
      <4>4. QED BY <4>1, <4>2, <4>3
    <3>8. g[p] = ns[t]
      BY <1>4, <2>2, <3>1
    <3>9. ns \in c[p[1]] /\ Tail(p) \in DOMAIN ns
      BY <1>1, <3>1
    <3>10. g[p][1] = p[Len(p) - 1]
      BY <3>6, <3>7, <3>8
    <3>11. QED BY <2>1, <3>1, <3>9, <3>10
  <2>3. CASE p \notin DOMAIN h
    <3>1. p \in DOMAIN f /\ g[p] = f[p]
      BY <1>3, <2>3
    <3>2. p[1] \in RtModules /\ f[p][1] = p[Len(p) - 1]
      BY <1>5, <3>1 DEF WholeIn
    <3>3. PICK d \in c[p[1]] : /\ Tail(p) \in DOMAIN d
                               /\ \A q \in DOMAIN d : <<p[1]>> \o q \in DOMAIN f /\ f[<<p[1]>> \o q] = d[q]
      BY <1>5, <3>1 DEF WholeIn
    <3>4. CASE p[1] = m
      BY <1>1, <2>1, <3>1, <3>2, <3>3, <3>4
    <3>5. CASE p[1] # m
      <4>1. ASSUME NEW q \in DOMAIN d PROVE <<p[1]>> \o q \in DOMAIN g /\ g[<<p[1]>> \o q] = d[q]
        <5>1. PICK x : x = <<p[1]>> \o q /\ x \in DOMAIN f /\ f[x] = d[q]
          BY <3>3
        <5>2. d \in Spaces
          BY <3>2, OneInCache
        <5>3. q \in Paths
          BY <5>2, SpaceDomain
        <5>4. x[1] = p[1]
          BY <3>2, <5>1, <5>3, PathFacts
        <5>5. x \notin DOMAIN h
          BY <1>2, <3>5, <5>4
        <5>6. x \in DOMAIN g /\ g[x] = f[x]
          BY <1>3, <5>1, <5>5
        <5>7. QED BY <5>1, <5>6
      <4>2. QED BY <3>1, <3>2, <3>3, <4>1
    <3>6. QED BY <3>4, <3>5
  <2>4. QED BY <2>2, <2>3
<1>6. DOMAIN g \subseteq Paths
  BY <1>2, <1>3
<1>7. ASSUME NEW k, OwnNames(k, f) PROVE OwnNames(k, g)
  <2>1. ASSUME NEW p \in DOMAIN g, Len(p) = 1 PROVE g[p][1] = k
    <3>1. p \notin DOMAIN h
      <4>1. p \in DOMAIN h => Len(p) > 1
        BY <1>2
      <4>2. QED BY <2>1, <4>1
    <3>2. p \in DOMAIN f /\ g[p] = f[p]
      BY <1>3, <3>1
    <3>3. QED BY <1>7, <2>1, <3>2 DEF OwnNames
  <2>2. QED BY <2>1 DEF OwnNames
<1>8. QED BY <1>2, <1>3, <1>5, <1>6, <1>7 DEF WholeIn

\* So does adding the names that are not there yet.
LEMMA AddKeeps ==
    ASSUME NEW c, CacheFits(c), NEW f, NEW ns, DOMAIN f \subseteq Paths, DOMAIN ns \subseteq Paths,
           WholeIn(c, f), WholeIn(c, ns),
           NEW g, g = [p \in DOMAIN f \cup DOMAIN ns |-> IF p \in DOMAIN f THEN f[p] ELSE ns[p]]
    PROVE  DOMAIN g \subseteq Paths /\ WholeIn(c, g)
<1>1. DOMAIN g = DOMAIN f \cup DOMAIN ns /\ \A p \in DOMAIN g : g[p] = (IF p \in DOMAIN f THEN f[p] ELSE ns[p])
  OBVIOUS
<1>2. ASSUME NEW p \in DOMAIN g, Len(p) > 1
      PROVE  /\ p[1] \in RtModules /\ g[p][1] = p[Len(p) - 1]
             /\ \E d \in c[p[1]] : /\ Tail(p) \in DOMAIN d
                                   /\ \A q \in DOMAIN d : <<p[1]>> \o q \in DOMAIN g /\ g[<<p[1]>> \o q] = d[q]
  <2>1. CASE p \in DOMAIN f
    <3>1. /\ p[1] \in RtModules /\ f[p][1] = p[Len(p) - 1]
          /\ \E d \in c[p[1]] : /\ Tail(p) \in DOMAIN d
                                /\ \A q \in DOMAIN d : <<p[1]>> \o q \in DOMAIN f /\ f[<<p[1]>> \o q] = d[q]
      BY <1>2, <2>1 DEF WholeIn
    <3>2. \A x \in DOMAIN f : x \in DOMAIN g /\ g[x] = f[x]
      BY <1>1
    <3>3. QED BY <2>1, <3>1, <3>2
  <2>2. CASE p \notin DOMAIN f
    <3>1. p \in DOMAIN ns /\ g[p] = ns[p]
      BY <1>1, <2>2
    <3>2. p[1] \in RtModules /\ ns[p][1] = p[Len(p) - 1]
      BY <1>2, <3>1 DEF WholeIn
    <3>3. PICK d \in c[p[1]] : /\ Tail(p) \in DOMAIN d
                               /\ \A q \in DOMAIN d : <<p[1]>> \o q \in DOMAIN ns /\ ns[<<p[1]>> \o q] = d[q]
      BY <1>2, <3>1 DEF WholeIn
    <3>4. c[p[1]] = {d} /\ d \in Spaces
      BY <3>2, OneInCache
    <3>5. ASSUME NEW q \in DOMAIN d PROVE <<p[1]>> \o q \in DOMAIN g /\ g[<<p[1]>> \o q] = d[q]
      <4>1. PICK x : x = <<p[1]>> \o q /\ x \in DOMAIN ns /\ ns[x] = d[q]
        BY <3>3
      <4>2. q \in Paths
        BY <3>4, SpaceDomain
      <4>3. x[1] = p[1] /\ Len(x) = Len(q) + 1 /\ Len(q) \in Nat \ {0} /\ Tail(x) = q
        BY <3>2, <4>1, <4>2, PathFacts
      <4>4. Len(x) > 1
        BY <4>3
      <4>5. CASE x \notin DOMAIN f
        BY <1>1, <4>1, <4>5
      <4>6. CASE x \in DOMAIN f
        <5>1. PICK e \in c[p[1]] : \A r \in DOMAIN e : <<p[1]>> \o r \in DOMAIN f /\ f[<<p[1]>> \o r] = e[r]
          BY <4>3, <4>4, <4>6 DEF WholeIn
        <5>2. e = d
          BY <3>4
        <5>3. f[x] = d[q]
          BY <4>1, <5>1, <5>2
        <5>4. QED BY <1>1, <4>1, <4>6, <5>3
      <4>7. QED BY <4>5, <4>6
    <3>6. QED BY <3>1, <3>2, <3>3, <3>5
  <2>3. QED BY <2>1, <2>2
<1>3. DOMAIN g \subseteq Paths
  BY <1>1
<1>4. QED BY <1>2, <1>3 DEF WholeIn

\* A module that enters the cache takes nothing from those that are whole without it.
LEMMA GrownCache ==
    ASSUME NEW c, DOMAIN c = RtModules, NEW m \in RtModules, c[m] = {}, NEW x, NEW ns, WholeIn(c, ns)
    PROVE  WholeIn([c EXCEPT ![m] = {x}], ns)
<1>1. PICK e : e = [c EXCEPT ![m] = {x}]
  OBVIOUS
<1>2. \A k \in RtModules : c[k] # {} => e[k] = c[k]
  BY <1>1
<1>3. WholeIn(e, ns)
  BY <1>2 DEF WholeIn
<1>4. QED BY <1>1, <1>3


RunStates == {"idle", "imports", "running", "returned", "escaped"}
\* The modules, loaded and being loaded, and the names the programs see.
LoaderInv ==
  /\ mrFiles \in [RtModules -> FileSet] /\ CacheFits(mrCache) /\ StackFits(mrStack, mrLoading, mrCache)
  /\ mrRun.state # "imports" => mrStack = <<>>
  /\ EnvFits(mrCache, mrEnv)
MeterInv == mrGas \in Nat /\ MeterIsTrue
\* The run, its failure and its code.
CodeInv ==
  /\ mrRun \in [state : RunStates, program : RtPrograms \cup {<<>>}, pc : Nat \ {0}]
  /\ mrExecutes \in Nat /\ DOMAIN mrResult = {"code", "logged"}
  /\ mrFailed \in BOOLEAN /\ (mrRun.state \in {"imports", "running"} => mrFailed = FALSE)
  /\ mrExecutes = 0 => mrRun.state = "idle"
  /\ mrExecutes <= 1 /\ mrRun.state \in {"idle", "imports", "running"} => mrResult.code = 0
  /\ CodeIsExplained

\* What changes neither modules nor names, and leaves no load behind.
LEMMA LoaderStays ==
    ASSUME LoaderInv, mrFiles' = mrFiles, mrCache' = mrCache, mrStack' = mrStack, mrLoading' = mrLoading, mrEnv' = mrEnv,
           mrRun'.state # "imports" => mrStack = <<>>
    PROVE  LoaderInv'
  BY DEF LoaderInv

LEMMA LoadFails ==
    ASSUME LoaderInv, NEW known \in BOOLEAN, LoadRaises(known), mrFiles' = mrFiles
    PROVE  LoaderInv'
<1>1. mrStack' = <<>> /\ mrLoading' = {} /\ mrCache' = mrCache /\ mrEnv' = mrEnv
  BY DEF LoadRaises, LoadingAfterError
<1>2. StackFits(<<>>, {}, mrCache)
  <2>1. <<>> \in Seq(Frames) /\ Len(<<>>) = 0
    OBVIOUS
  <2>2. QED BY <2>1 DEF StackFits
<1>3. QED BY <1>1, <1>2 DEF LoaderInv

LEMMA NamespaceIs ==
    ASSUME NEW m \in RtModules, NEW file \in FileSet, NEW c
    PROVE  Namespace(m, file) \in Spaces /\ OwnNames(m, Namespace(m, file)) /\ WholeIn(c, Namespace(m, file))
<1>1. PICK v, n : v = <<"v">> /\ n = <<m, file.version>>
  OBVIOUS
<1>2. v \in Paths /\ Len(v) = 1 /\ n \in RtModules \X Nat /\ n[1] = m
  <2>1. PICK N : N = RtModules \cup {"v"}
    OBVIOUS
  <2>2. v \in Seq(N) /\ v # <<>> /\ Len(v) = 1
    BY <1>1, <2>1
  <2>3. n \in RtModules \X Nat /\ n[1] = m
    BY <1>1 DEF FileSet
  <2>4. QED BY <2>1, <2>2, <2>3 DEF Paths
<1>3. PICK f : f = [path \in {v} |-> n] /\ f = Namespace(m, file)
  BY <1>1 DEF Namespace
<1>4. DOMAIN f = {v} /\ f[v] = n /\ f \in [{v} -> RtModules \X Nat]
  BY <1>2, <1>3
<1>5. f \in Spaces
  BY <1>2, <1>4 DEF Spaces
<1>6. OwnNames(m, f) /\ WholeIn(c, f)
  <2>1. \A p \in DOMAIN f : p = v
    BY <1>4
  <2>2. \A p \in DOMAIN f : Len(p) = 1 /\ f[p] = n
    BY <1>2, <1>4, <2>1
  <2>3. ASSUME NEW p \in DOMAIN f PROVE ~(Len(p) > 1)
    <3>1. PICK k \in Nat : k = Len(p) /\ k = 1
      BY <2>2
    <3>2. QED BY <3>1
  <2>4. OwnNames(m, f)
    BY <1>2, <2>2 DEF OwnNames
  <2>5. QED BY <2>3, <2>4, Zenon DEF WholeIn
<1>7. QED BY <1>3, <1>5, <1>6

\* A load begins on top of those in progress.
LEMMA StackGrows ==
    ASSUME NEW stack, NEW loading, NEW c, StackFits(stack, loading, c), NEW m, m \notin loading,
           NEW f \in Frames, f.name = m, FrameFits(c, f)
    PROVE  StackFits(Append(stack, f), loading \cup {m}, c)
<1>1. PICK n \in Nat : n = Len(stack)
  <2>1. Len(stack) \in Nat
    BY DEF StackFits
  <2>2. QED BY <2>1
<1>2. PICK s : s = Append(stack, f) /\ s \in Seq(Frames) /\ Len(s) = n + 1 /\ s[n + 1] = f /\ \A i \in 1 .. n : s[i] = stack[i]
  <2>1. stack \in Seq(Frames)
    BY DEF StackFits
  <2>2. /\ Append(stack, f) \in Seq(Frames) /\ Len(Append(stack, f)) = n + 1
        /\ Append(stack, f)[n + 1] = f /\ \A i \in 1 .. n : Append(stack, f)[i] = stack[i]
    BY <1>1, <2>1
  <2>3. QED BY <2>2
<1>3. \A i \in 1 .. n : FrameFits(c, stack[i]) /\ stack[i].name \in loading
  BY <1>1 DEF StackFits
<1>4. \A i \in 1 .. n + 1 : i \in 1 .. n \/ i = n + 1
  OBVIOUS
<1>5. \A i \in 1 .. n + 1 : FrameFits(c, s[i])
  BY <1>2, <1>3, <1>4
<1>6. \A i, j \in 1 .. n + 1 : i # j => s[i].name # s[j].name
  <2>1. ASSUME NEW i \in 1 .. n + 1, NEW j \in 1 .. n + 1, i # j PROVE s[i].name # s[j].name
    <3>1. CASE i \in 1 .. n /\ j \in 1 .. n
      BY <1>1, <1>2, <2>1, <3>1 DEF StackFits
    <3>2. CASE i = n + 1 \/ j = n + 1
      BY <1>2, <1>3, <1>4, <2>1, <3>2
    <3>3. QED BY <1>4, <2>1, <3>1, <3>2
  <2>2. QED BY <2>1
<1>7. loading \cup {m} = {s[i].name : i \in 1 .. n + 1}
  <2>1. loading = {stack[i].name : i \in 1 .. n}
    BY <1>1 DEF StackFits
  <2>2. {s[i].name : i \in 1 .. n + 1} = {s[i].name : i \in 1 .. n} \cup {s[n + 1].name}
    BY <1>4
  <2>3. {s[i].name : i \in 1 .. n} = {stack[i].name : i \in 1 .. n}
    BY <1>2
  <2>4. QED BY <1>2, <2>1, <2>2, <2>3
<1>8. QED BY <1>2, <1>5, <1>6, <1>7 DEF StackFits

LEMMA ModuleEnters ==
    ASSUME LoaderInv, NEW m \in RtModules, EnterLoad(m), mrFiles' = mrFiles, mrRun.state = "imports"
    PROVE  LoaderInv'
<1>1. CASE LoadRaises(TRUE)
  <2>1. PICK known \in BOOLEAN : LoadRaises(known)
    BY <1>1
  <2>2. QED BY <2>1, LoadFails
<1>2. CASE LoadRaises(FALSE)
  <2>1. PICK known \in BOOLEAN : LoadRaises(known)
    BY <1>2
  <2>2. QED BY <2>1, LoadFails
<1>3. CASE /\ m \notin mrLoading /\ mrLoading' = mrLoading \cup {m}
           /\ mrStack' = Append(mrStack, [name |-> m, ns |-> Namespace(m, mrFiles[m]), todo |-> mrFiles[m].imports])
           /\ UNCHANGED <<mrCache, mrEnv, mrGas, mrPaid, mrRun, mrResult, mrFailed>>
  <2>1. PICK file : file = mrFiles[m] /\ file \in FileSet
    BY DEF LoaderInv
  <2>2. PICK ns : ns = Namespace(m, file) /\ ns \in Spaces /\ OwnNames(m, ns) /\ WholeIn(mrCache, ns)
    BY <2>1, NamespaceIs
  <2>3. PICK f : f = [name |-> m, ns |-> ns, todo |-> file.imports] /\ mrStack' = Append(mrStack, f)
    BY <1>3, <2>1, <2>2
  <2>4. f \in Frames /\ f.name = m /\ f.ns = ns
    BY <2>1, <2>2, <2>3 DEF Frames, FileSet
  <2>5. FrameFits(mrCache, f)
    BY <2>2, <2>4 DEF FrameFits, EnterLoad
  <2>6. PICK c, stack, loading : c = mrCache /\ stack = mrStack /\ loading = mrLoading
    OBVIOUS
  <2>7. StackFits(Append(stack, f), loading \cup {m}, c)
    BY <1>3, <2>4, <2>5, <2>6, StackGrows DEF LoaderInv
  <2>8. mrStack' = Append(stack, f) /\ mrLoading' = loading \cup {m} /\ mrCache' = c
    BY <1>3, <2>3, <2>6
  <2>9. StackFits(mrStack', mrLoading', mrCache')
    BY <2>7, <2>8
  <2>10. mrEnv' = mrEnv /\ mrRun' = mrRun /\ mrCache' = mrCache
    BY <1>3
  <2>11. QED BY <2>9, <2>10 DEF LoaderInv
<1>4. QED BY <1>1, <1>2, <1>3 DEF EnterLoad


\* The load on top, and the others.
LEMMA TopIs ==
    ASSUME NEW stack, NEW loading, NEW c, StackFits(stack, loading, c), stack # <<>>
    PROVE  /\ Last(stack) \in Frames /\ FrameFits(c, Last(stack)) /\ Last(stack).name \in loading
           /\ StackFits(Front(stack), loading \ {Last(stack).name}, c)
           /\ \A i \in 1 .. Len(Front(stack)) : Front(stack)[i].name # Last(stack).name
<1>1. PICK n \in Nat \ {0} : n = Len(stack)
  <2>1. Len(stack) \in Nat \ {0}
    BY DEF StackFits
  <2>2. QED BY <2>1
<1>2. /\ stack \in Seq(Frames) /\ \A i \in 1 .. n : FrameFits(c, stack[i])
      /\ \A i, j \in 1 .. n : i # j => stack[i].name # stack[j].name
      /\ loading = {stack[i].name : i \in 1 .. n}
  BY <1>1 DEF StackFits
<1>3. PICK f : f = Last(stack) /\ f = stack[n] /\ f \in Frames
  BY <1>1, <1>2 DEF Last
<1>4. PICK s : s = Front(stack) /\ s \in Seq(Frames) /\ Len(s) = n - 1 /\ \A i \in 1 .. n - 1 : s[i] = stack[i]
  <2>1. PICK k \in Nat : k = n - 1
    OBVIOUS
  <2>2. SubSeq(stack, 1, k) \in Seq(Frames) /\ Len(SubSeq(stack, 1, k)) = k /\ \A i \in 1 .. k : SubSeq(stack, 1, k)[i] = stack[i]
    BY <1>1, <1>2, <2>1
  <2>3. Front(stack) = SubSeq(stack, 1, k)
    BY <1>1, <2>1 DEF Front
  <2>4. QED BY <2>1, <2>2, <2>3
<1>5. \A i \in 1 .. n : i \in 1 .. n - 1 \/ i = n
  OBVIOUS
<1>6. \A i \in 1 .. n - 1 : i \in 1 .. n /\ i # n
  OBVIOUS
<1>7. n \in 1 .. n
  OBVIOUS
<1>8. \A i \in 1 .. n - 1 : s[i].name # f.name /\ FrameFits(c, s[i])
  BY <1>2, <1>3, <1>4, <1>6, <1>7
<1>9. \A i, j \in 1 .. n - 1 : i # j => s[i].name # s[j].name
  BY <1>2, <1>4, <1>6
<1>10. loading \ {f.name} = {s[i].name : i \in 1 .. n - 1}
  <2>1. ASSUME NEW x \in loading, x # f.name PROVE x \in {s[i].name : i \in 1 .. n - 1}
    <3>1. PICK i \in 1 .. n : x = stack[i].name
      BY <1>2, <2>1
    <3>2. i \in 1 .. n - 1
      BY <1>3, <1>5, <2>1, <3>1
    <3>3. QED BY <1>4, <3>1, <3>2
  <2>2. ASSUME NEW i \in 1 .. n - 1 PROVE s[i].name \in loading /\ s[i].name # f.name
    BY <1>2, <1>4, <1>6, <1>8
  <2>3. QED BY <2>1, <2>2
<1>11. StackFits(s, loading \ {f.name}, c)
  BY <1>4, <1>8, <1>9, <1>10 DEF StackFits
<1>12. FrameFits(c, f) /\ f.name \in loading
  BY <1>2, <1>3, <1>7
<1>13. QED BY <1>3, <1>4, <1>8, <1>11, <1>12

\* The load on top has gone through one more import, its names now ns.
LEMMA TopPops ==
    ASSUME LoaderInv, mrStack # <<>>, TopLoad.todo # <<>>, NEW ns \in Spaces, OwnNames(TopLoad.name, ns),
           WholeIn(mrCache, ns), Pops(ns), mrFiles' = mrFiles, mrCache' = mrCache, mrLoading' = mrLoading,
           mrRun' = mrRun, mrEnv' = mrEnv
    PROVE  LoaderInv'
<1>1. PICK stack, loading, c : stack = mrStack /\ loading = mrLoading /\ c = mrCache
  OBVIOUS
<1>2. StackFits(stack, loading, c) /\ stack # <<>> /\ mrRun.state = "imports"
  BY <1>1 DEF LoaderInv
<1>3. PICK f : f = Last(stack) /\ f = TopLoad
  BY <1>1 DEF TopLoad
<1>4. PICK s : s = Front(stack)
  OBVIOUS
<1>5. PICK m : m = f.name
  OBVIOUS
<1>6. /\ f \in Frames /\ FrameFits(c, f) /\ m \in loading /\ StackFits(s, loading \ {m}, c)
  BY <1>2, <1>3, <1>4, <1>5, TopIs
<1>7. PICK g : g = [f EXCEPT !.ns = ns, !.todo = Tail(f.todo)] /\ mrStack' = Append(s, g)
  <2>1. [f EXCEPT !.ns = ns, !.todo = Tail(@)] = [f EXCEPT !.ns = ns, !.todo = Tail(f.todo)]
    BY <1>6 DEF Frames
  <2>2. mrStack' = Append(s, [f EXCEPT !.ns = ns, !.todo = Tail(@)])
    BY <1>1, <1>3, <1>4 DEF Pops
  <2>3. QED BY <2>1, <2>2
<1>8. g \in Frames /\ g.name = m /\ g.ns = ns
  <2>1. f.todo \in Seq(RtModules) /\ f.todo # <<>>
    BY <1>3, <1>6 DEF Frames
  <2>2. Tail(f.todo) \in Seq(RtModules)
    BY <2>1
  <2>3. QED BY <1>5, <1>6, <1>7, <2>2 DEF Frames
<1>9. FrameFits(c, g)
  BY <1>1, <1>3, <1>5, <1>6, <1>8 DEF FrameFits
<1>10. PICK rest : rest = loading \ {m}
  OBVIOUS
<1>11. StackFits(Append(s, g), rest \cup {m}, c)
  BY <1>6, <1>8, <1>9, <1>10, StackGrows
<1>12. rest \cup {m} = loading
  BY <1>6, <1>10
<1>13. StackFits(mrStack', mrLoading', mrCache')
  BY <1>1, <1>7, <1>11, <1>12
<1>14. QED BY <1>2, <1>13 DEF LoaderInv

LEMMA DependencyMerged ==
    ASSUME LoaderInv, DependencyMerges
    PROVE  LoaderInv'
<1>1. PICK stack, loading, c : stack = mrStack /\ loading = mrLoading /\ c = mrCache
  OBVIOUS
<1>2. PICK f : f = TopLoad /\ f = Last(stack)
  BY <1>1 DEF TopLoad
<1>3. f \in Frames /\ FrameFits(c, f) /\ CacheFits(c) /\ f.todo # <<>>
  <2>1. StackFits(stack, loading, c) /\ stack # <<>>
    BY <1>1 DEF LoaderInv, DependencyMerges
  <2>2. QED BY <1>1, <1>2, <2>1, TopIs DEF LoaderInv, DependencyMerges
<1>4. /\ mrStack # <<>> /\ TopLoad.todo # <<>> /\ mrFiles' = mrFiles /\ mrCache' = mrCache /\ mrLoading' = mrLoading
      /\ mrRun' = mrRun /\ mrEnv' = mrEnv
  BY DEF DependencyMerges
<1>5. PICK dep : dep = Head(f.todo) /\ dep \in RtModules
  BY <1>3 DEF Frames
<1>6. PICK old : old = f.ns /\ old \in Spaces /\ OwnNames(f.name, old) /\ WholeIn(c, old)
  BY <1>3 DEF Frames, FrameFits
<1>7. CASE Pops(old)
  BY <1>1, <1>2, <1>4, <1>6, <1>7, TopPops
<1>8. CASE \E ns \in c[dep] : Pops(Merged(old, Qualified(dep, ns)))
  <2>1. PICK ns \in c[dep] : Pops(Merged(old, Qualified(dep, ns)))
    BY <1>8
  <2>2. PICK g : g = Merged(old, Qualified(dep, ns))
    OBVIOUS
  <2>3. DOMAIN old \subseteq Paths /\ old \in [DOMAIN old -> RtModules \X Nat]
    BY <1>6, SpaceDomain
  <2>4. /\ DOMAIN g = DOMAIN old \cup DOMAIN Qualified(dep, ns) /\ DOMAIN g \subseteq Paths /\ WholeIn(c, g)
        /\ OwnNames(f.name, g)
    <3>1. CacheFits(c) /\ DOMAIN old \subseteq Paths /\ WholeIn(c, old)
      BY <1>3, <1>6, <2>3
    <3>2. DOMAIN g = DOMAIN old \cup DOMAIN Qualified(dep, ns) /\ DOMAIN g \subseteq Paths /\ WholeIn(c, g)
      BY <1>5, <2>2, <3>1, MergeKeeps
    <3>3. \A k : OwnNames(k, old) => OwnNames(k, g)
      BY <1>5, <2>2, <3>1, MergeKeeps
    <3>4. QED BY <1>6, <3>2, <3>3
  <2>5. ns \in Spaces
    BY <1>3, <1>5, OneInCache
  <2>6. g \in Spaces
    <3>1. PICK h : h = Qualified(dep, ns) /\ \A x \in DOMAIN h : Tail(x) \in DOMAIN ns /\ h[x] = ns[Tail(x)]
      <4>1. \A x \in DOMAIN Qualified(dep, ns) : Tail(x) \in DOMAIN ns /\ Qualified(dep, ns)[x] = ns[Tail(x)]
        BY <1>5, <2>5, QualifiedIs, Zenon
      <4>2. QED BY <4>1, Zenon
    <3>2. ns \in [DOMAIN ns -> RtModules \X Nat]
      BY <2>5, SpaceDomain
    <3>3. PICK D : D = DOMAIN old \cup DOMAIN h /\ D \subseteq Paths
      BY <2>4, <3>1
    <3>4. PICK V : V = RtModules \X Nat
      OBVIOUS
    <3>5. \A x \in DOMAIN h : h[x] \in V
      BY <3>1, <3>2, <3>4
    <3>6. \A x \in DOMAIN old : old[x] \in V
      BY <2>3, <3>4
    <3>7. g = [x \in D |-> IF x \in DOMAIN h THEN h[x] ELSE old[x]]
      BY <2>2, <3>1, <3>3 DEF Merged
    <3>8. g \in [D -> V]
      BY <3>3, <3>5, <3>6, <3>7
    <3>9. QED BY <3>3, <3>4, <3>8 DEF Spaces
  <2>7. Pops(g)
    BY <2>1, <2>2
  <2>8. QED BY <1>1, <1>2, <1>4, <2>4, <2>6, <2>7, TopPops
<1>9. Pops(old) \/ \E ns \in c[dep] : Pops(Merged(old, Qualified(dep, ns)))
  BY <1>1, <1>2, <1>5, <1>6 DEF DependencyMerges
<1>10. QED BY <1>7, <1>8, <1>9


LEMMA LoadReturned ==
    ASSUME LoaderInv, LoadReturns
    PROVE  LoaderInv'
<1>1. PICK stack, loading, c : stack = mrStack /\ loading = mrLoading /\ c = mrCache
  OBVIOUS
<1>2. PICK f : f = TopLoad /\ f = Last(stack)
  BY <1>1 DEF TopLoad
<1>3. PICK s : s = Front(stack)
  OBVIOUS
<1>4. PICK m : m = f.name
  OBVIOUS
<1>5. StackFits(stack, loading, c) /\ stack # <<>> /\ CacheFits(c) /\ DOMAIN c = RtModules
  BY <1>1 DEF LoaderInv, LoadReturns, CacheFits
<1>6. /\ f \in Frames /\ FrameFits(c, f) /\ StackFits(s, loading \ {m}, c)
      /\ \A i \in 1 .. Len(s) : s[i].name # m
  BY <1>2, <1>3, <1>4, <1>5, TopIs
<1>7. PICK ns : ns = f.ns /\ ns \in Spaces /\ OwnNames(m, ns) /\ WholeIn(c, ns) /\ m \in RtModules /\ c[m] = {}
  BY <1>4, <1>6 DEF Frames, FrameFits
<1>8. PICK e : e = [c EXCEPT ![m] = {ns}]
  OBVIOUS
<1>9. \A x : WholeIn(c, x) => WholeIn(e, x)
  BY <1>5, <1>7, <1>8, GrownCache
<1>10. CacheFits(e)
  <2>1. DOMAIN e = RtModules
    BY <1>5, <1>8
  <2>2. ASSUME NEW k \in RtModules
        PROVE  e[k] = {} \/ \E x \in Spaces : e[k] = {x} /\ OwnNames(k, x) /\ WholeIn(e, x)
    <3>1. CASE k = m
      <4>1. e[k] = {ns}
        BY <1>5, <1>8, <3>1
      <4>2. QED BY <1>7, <1>9, <3>1, <4>1
    <3>2. CASE k # m
      <4>1. e[k] = c[k]
        BY <1>5, <1>8, <3>2
      <4>2. c[k] = {} \/ \E x \in Spaces : c[k] = {x} /\ OwnNames(k, x) /\ WholeIn(c, x)
        BY <1>5 DEF CacheFits
      <4>3. QED BY <1>9, <4>1, <4>2
    <3>3. QED BY <3>1, <3>2
  <2>3. QED BY <2>1, <2>2 DEF CacheFits
<1>11. StackFits(s, loading \ {m}, e)
  <2>1. ASSUME NEW i \in 1 .. Len(s) PROVE FrameFits(e, s[i])
    <3>1. FrameFits(c, s[i]) /\ s[i].name # m /\ s[i] \in Frames
      BY <1>6 DEF StackFits
    <3>2. e[s[i].name] = c[s[i].name]
      BY <1>5, <1>8, <3>1 DEF Frames
    <3>3. QED BY <1>9, <3>1, <3>2 DEF FrameFits
  <2>2. QED BY <1>6, <2>1 DEF StackFits
<1>12. /\ mrCache' = e /\ mrLoading' = loading \ {m} /\ mrStack' = s
       /\ mrFiles' = mrFiles /\ mrRun' = mrRun /\ mrEnv' = mrEnv
  BY <1>1, <1>2, <1>3, <1>4, <1>7, <1>8 DEF LoadReturns
<1>13. mrRun.state = "imports"
  BY <1>1, <1>5 DEF LoaderInv
<1>14. EnvFits(e, mrEnv)
  BY <1>1, <1>9 DEF LoaderInv, EnvFits
<1>15. QED BY <1>10, <1>11, <1>12, <1>13, <1>14 DEF LoaderInv

LEMMA ImportMerged ==
    ASSUME LoaderInv, ImportMerges, Statement.name \in RtModules
    PROVE  LoaderInv'
<1>1. PICK m, c, env : m = Statement.name /\ c = mrCache /\ env = mrEnv
  OBVIOUS
<1>2. PICK ns \in c[m] : mrEnv' = MergedIntoEnv(m, ns, env)
  BY <1>1 DEF ImportMerges
<1>3. CacheFits(c) /\ DOMAIN env \subseteq Paths /\ WholeIn(c, env) /\ m \in RtModules /\ mrStack = <<>>
  BY <1>1 DEF LoaderInv, EnvFits, ImportMerges
<1>4. PICK all : all = Merged(env, Qualified(m, ns)) /\ DOMAIN all \subseteq Paths /\ WholeIn(c, all)
  <2>1. PICK g : g = Merged(env, Qualified(m, ns))
    OBVIOUS
  <2>2. DOMAIN g \subseteq Paths /\ WholeIn(c, g)
    BY <1>3, <2>1, MergeKeeps, Zenon
  <2>3. QED BY <2>1, <2>2
<1>5. PICK e : /\ e = [p \in DOMAIN all \cup DOMAIN ns |-> IF p \in DOMAIN all THEN all[p] ELSE ns[p]]
               /\ mrEnv' = e
  BY <1>2, <1>4, Zenon DEF MergedIntoEnv
<1>6. DOMAIN ns \subseteq Paths /\ WholeIn(c, ns)
  BY <1>3, OneInCache, SpaceDomain
<1>7. DOMAIN e \subseteq Paths /\ WholeIn(c, e)
  <2>1. CacheFits(c) /\ DOMAIN all \subseteq Paths /\ WholeIn(c, all)
    BY <1>3, <1>4
  <2>2. e = [p \in DOMAIN all \cup DOMAIN ns |-> IF p \in DOMAIN all THEN all[p] ELSE ns[p]]
    BY <1>5
  <2>3. QED BY <1>6, <2>1, <2>2, AddKeeps
<1>8. mrFiles' = mrFiles /\ mrCache' = c /\ mrLoading' = mrLoading /\ mrStack' = mrStack
  BY <1>1 DEF ImportMerges
<1>9. EnvFits(mrCache', mrEnv')
  BY <1>5, <1>7, <1>8 DEF EnvFits
<1>10. QED BY <1>1, <1>3, <1>8, <1>9 DEF LoaderInv

LEMMA FirstSets ==
    ASSUME LoaderInv, SetsFirst
    PROVE  LoaderInv'
<1>1. PICK c, env : c = mrCache /\ env = mrEnv /\ DOMAIN env \subseteq Paths /\ WholeIn(c, env)
  BY DEF LoaderInv, EnvFits
<1>2. mrFiles' = mrFiles /\ mrCache' = c /\ mrLoading' = mrLoading /\ mrStack' = mrStack /\ mrStack = <<>>
  BY <1>1 DEF SetsFirst
<1>3. PICK e : e = mrEnv'
  OBVIOUS
<1>4. CacheFits(c)
  BY <1>1 DEF LoaderInv
<1>5. EnvFits(c, e)
  <2>1. CASE e = env
    BY <1>1, <2>1 DEF EnvFits
  <2>2. CASE e = Merged(env, [p \in {<<"v">>} |-> <<"own", 0>>])
    <3>1. PICK v, n : v = <<"v">> /\ n = <<"own", 0>>
      OBVIOUS
    <3>2. v \in Paths /\ Len(v) = 1
      <4>1. PICK N : N = RtModules \cup {"v"}
        OBVIOUS
      <4>2. v \in Seq(N) /\ v # <<>> /\ Len(v) = 1
        BY <3>1, <4>1
      <4>3. QED BY <4>1, <4>2 DEF Paths
    <3>3. PICK g : g = [p \in {v} |-> n] /\ DOMAIN g = {v} /\ e = Merged(env, g)
      BY <2>2, <3>1
    <3>4. DOMAIN e = DOMAIN env \cup {v} /\ \A p \in DOMAIN env : p # v => e[p] = env[p]
      BY <3>3 DEF Merged
    <3>5. DOMAIN e \subseteq Paths
      BY <1>1, <3>2, <3>4
    <3>6. ASSUME NEW p \in DOMAIN e, Len(p) > 1
          PROVE  /\ p[1] \in RtModules /\ e[p][1] = p[Len(p) - 1]
                 /\ \E d \in c[p[1]] : /\ Tail(p) \in DOMAIN d
                                       /\ \A q \in DOMAIN d : <<p[1]>> \o q \in DOMAIN e /\ e[<<p[1]>> \o q] = d[q]
      <4>1. p \in DOMAIN env /\ e[p] = env[p]
        <5>1. PICK k \in Nat : k = Len(p)
          BY <3>5, <3>6, PathLength
        <5>2. p # v
          <6>1. k > 1
            BY <3>6, <5>1
          <6>2. k # 1
            BY <6>1
          <6>3. QED BY <3>2, <5>1, <6>2, Zenon
        <5>3. QED BY <3>4, <3>6, <5>2
      <4>2. p[1] \in RtModules /\ env[p][1] = p[Len(p) - 1]
        BY <1>1, <3>6, <4>1 DEF WholeIn
      <4>3. PICK d \in c[p[1]] : /\ Tail(p) \in DOMAIN d
                                 /\ \A q \in DOMAIN d : <<p[1]>> \o q \in DOMAIN env /\ env[<<p[1]>> \o q] = d[q]
        BY <1>1, <3>6, <4>1 DEF WholeIn
      <4>4. ASSUME NEW q \in DOMAIN d PROVE <<p[1]>> \o q \in DOMAIN e /\ e[<<p[1]>> \o q] = d[q]
        <5>1. PICK x : x = <<p[1]>> \o q /\ x \in DOMAIN env /\ env[x] = d[q]
          BY <4>3
        <5>2. q \in Paths
          BY <1>4, <4>2, OneInCache, SpaceDomain
        <5>3. Len(x) = Len(q) + 1 /\ Len(q) \in Nat \ {0}
          BY <4>2, <5>1, <5>2, PathFacts
        <5>4. x # v
          <6>1. PICK k \in Nat \ {0} : k = Len(q)
            BY <5>3
          <6>2. k + 1 # 1
            BY <6>1
          <6>3. QED BY <3>2, <5>3, <6>1, <6>2, Zenon
        <5>5. QED BY <3>4, <5>1, <5>4
      <4>5. QED BY <4>1, <4>2, <4>3, <4>4
    <3>7. WholeIn(c, e)
      BY <3>6 DEF WholeIn
    <3>8. QED BY <3>5, <3>7 DEF EnvFits
  <2>3. QED BY <1>1, <1>3, <2>1, <2>2 DEF SetsFirst
<1>6. QED BY <1>1, <1>2, <1>3, <1>5 DEF LoaderInv

LEMMA FileEdited ==
    ASSUME LoaderInv, EditModule
    PROVE  LoaderInv'
<1>1. PICK m \in RtModules, state \in {"ok", "syntax"} :
        mrFiles' = [mrFiles EXCEPT ![m].version = 2, ![m].state = state]
  BY DEF EditModule
<1>2. mrFiles' \in [RtModules -> FileSet]
  <2>1. PICK file : file = mrFiles[m] /\ file \in FileSet
    BY DEF LoaderInv
  <2>2. PICK g : g = [file EXCEPT !.version = 2, !.state = state] /\ g \in FileSet
    <3>1. [file EXCEPT !.version = 2, !.state = state] \in FileSet
      BY <2>1 DEF FileSet
    <3>2. QED BY <3>1
  <2>3. mrFiles' = [mrFiles EXCEPT ![m] = g]
    BY <1>1, <2>1, <2>2 DEF LoaderInv, FileSet
  <2>4. QED BY <2>2, <2>3 DEF LoaderInv
<1>3. /\ mrCache' = mrCache /\ mrLoading' = mrLoading /\ mrStack' = mrStack /\ mrRun' = mrRun /\ mrEnv' = mrEnv
  BY DEF EditModule
<1>4. QED BY <1>2, <1>3 DEF LoaderInv


LEMMA ImportNames ==
    ASSUME CodeInv, At({"IMPORT"})
    PROVE  Statement.name \in RtModules
<1>1. PICK p, k : p = mrRun.program /\ k = mrRun.pc /\ p \in RtPrograms \cup {<<>>} /\ k \in Nat \ {0}
  <2>1. mrRun \in [state : RunStates, program : RtPrograms \cup {<<>>}, pc : Nat \ {0}]
    BY DEF CodeInv
  <2>2. mrRun.program \in RtPrograms \cup {<<>>} /\ mrRun.pc \in Nat \ {0}
    BY <2>1
  <2>3. QED BY <2>2
<1>2. k <= Len(p) /\ p[k].tag = "IMPORT" /\ Statement = p[k]
  BY <1>1 DEF At, Statement
<1>3. p \in RtPrograms
  <2>1. CASE p = <<>>
    <3>1. Len(p) = 0
      BY <2>1
    <3>2. QED BY <1>1, <1>2, <3>1
  <2>2. QED BY <1>1, <2>1
<1>4. PICK S : S = ToSet(p) /\ p \in Seq(S) /\ \A s \in S : s.tag = "IMPORT" => s.name \in RtModules
  BY <1>3, RuntimeAssumption
<1>5. p[k] \in S
  BY <1>1, <1>2, <1>4
<1>6. QED BY <1>2, <1>4, <1>5

LEMMA LoaderSteps ==
    ASSUME LoaderInv, CodeInv, RuntimeNext
    PROVE  LoaderInv'
<1>1. CASE BeginExecute \/ ImportSkips \/ StatementUnpaid \/ StatementRecorded \/ ProgramResult \/ RunsOff \/ ToolDispatches
  <2>1. /\ mrFiles' = mrFiles /\ mrCache' = mrCache /\ mrStack' = mrStack /\ mrLoading' = mrLoading /\ mrEnv' = mrEnv
    BY <1>1 DEF BeginExecute, ImportSkips, StatementUnpaid, StatementRecorded, ProgramResult, RunsOff, ToolDispatches, mrLoader
  <2>2. mrStack = <<>>
    BY <1>1 DEF LoaderInv, BeginExecute, ImportSkips, StatementUnpaid, StatementRecorded, ProgramResult, RunsOff, ToolDispatches,
                Running
  <2>3. QED BY <2>1, <2>2, LoaderStays
<1>2. CASE ImportLoads
  <2>1. PICK m : m = Statement.name /\ m \in RtModules /\ EnterLoad(m)
    BY <1>2, ImportNames DEF ImportLoads
  <2>2. QED BY <1>2, <2>1, ModuleEnters DEF ImportLoads
<1>3. CASE DependencyLoads
  <2>1. PICK m : m = Head(TopLoad.todo) /\ EnterLoad(m)
    BY <1>3 DEF DependencyLoads
  <2>2. TopLoad \in Frames
    <3>1. StackFits(mrStack, mrLoading, mrCache) /\ mrStack # <<>>
      BY <1>3 DEF LoaderInv, DependencyLoads
    <3>2. QED BY <3>1, TopIs DEF TopLoad
  <2>3. m \in RtModules
    BY <1>3, <2>1, <2>2 DEF Frames, DependencyLoads
  <2>4. mrRun.state = "imports" /\ mrFiles' = mrFiles
    BY <1>3 DEF LoaderInv, DependencyLoads
  <2>5. QED BY <2>1, <2>3, <2>4, ModuleEnters
<1>4. CASE ImportMerges
  BY <1>4, ImportNames, ImportMerged DEF ImportMerges
<1>5. QED BY <1>1, <1>2, <1>3, <1>4, FirstSets, FileEdited, DependencyMerged, LoadReturned DEF RuntimeNext

LEMMA MeterSteps ==
    ASSUME MeterInv, RuntimeNext
    PROVE  MeterInv'
<1>1. mrGas \in Nat /\ mrGas = mrPaid /\ mrGas <= RtGasLimit /\ RtGasLimit \in Nat
  BY RuntimeAssumption DEF MeterInv, MeterIsTrue
<1>2. ASSUME NEW n \in Nat, Affordable(n), Spends(n) PROVE MeterInv'
  BY <1>1, <1>2 DEF Affordable, Spends, MeterInv, MeterIsTrue
<1>3. ASSUME mrGas' = mrGas, mrPaid' = mrPaid PROVE MeterInv'
  BY <1>3 DEF MeterInv, MeterIsTrue
<1>4. CASE EditModule \/ BeginExecute \/ DependencyMerges \/ LoadReturns \/ ImportSkips \/ SetsFirst \/ StatementUnpaid \/ RunsOff
  BY <1>3, <1>4 DEF EditModule, BeginExecute, DependencyMerges, LoadReturns, ImportSkips, SetsFirst, StatementUnpaid, RunsOff
<1>5. ASSUME NEW m, EnterLoad(m) PROVE mrGas' = mrGas /\ mrPaid' = mrPaid
  BY <1>5 DEF EnterLoad, LoadRaises
<1>6. CASE ImportLoads \/ DependencyLoads
  BY <1>3, <1>5, <1>6 DEF ImportLoads, DependencyLoads
<1>7. CASE ImportMerges
  <2>1. (Affordable(1) /\ Spends(1)) \/ (mrGas' = mrGas /\ mrPaid' = mrPaid)
    BY <1>7 DEF ImportMerges, Spends
  <2>2. QED BY <1>2, <1>3, <2>1
<1>8. CASE StatementRecorded \/ ProgramResult
  BY <1>2, <1>8 DEF StatementRecorded, ProgramResult
<1>9. CASE ToolDispatches
  <2>1. PICK f : f = Statement.name /\ Affordable(1)
                 /\ (Spends(1) \/ (f \in DOMAIN HostFunctions /\ Affordable(1 + HostFunctions[f].gas) /\ Spends(1 + HostFunctions[f].gas)))
    BY <1>9 DEF ToolDispatches
  <2>2. CASE Spends(1)
    BY <1>2, <2>1, <2>2
  <2>3. CASE f \in DOMAIN HostFunctions /\ Affordable(1 + HostFunctions[f].gas) /\ Spends(1 + HostFunctions[f].gas)
    <3>1. PICK n \in Nat : n = 1 + HostFunctions[f].gas
      <4>1. HostFunctions[f].gas \in Nat
        BY <2>3, RuntimeAssumption
      <4>2. 1 + HostFunctions[f].gas \in Nat
        BY <4>1
      <4>3. QED BY <4>2
    <3>2. QED BY <1>2, <2>3, <3>1
  <2>4. QED BY <2>1, <2>2, <2>3
<1>10. QED BY <1>4, <1>6, <1>7, <1>8, <1>9 DEF RuntimeNext


RunSorts == [state : RunStates, program : RtPrograms \cup {<<>>}, pc : Nat \ {0}]
\* What is told of code, failure and executions n with run r.
Explained(r, code, failed, n) ==
  /\ r.state \in {"imports", "running"} => failed = FALSE
  /\ n = 0 => r.state = "idle"
  /\ n <= 1 /\ r.state \in {"idle", "imports", "running"} => code = 0
  /\ r.state = "returned" =>
       /\ failed = TRUE => code = 1
       /\ code = 1 /\ failed = FALSE /\ (\A s \in ToSet(r.program) : s.tag = "RESULT" => s.code = 0) => n > 1

LEMMA CodeParts ==
    CodeInv <=> /\ mrRun \in RunSorts /\ mrExecutes \in Nat /\ DOMAIN mrResult = {"code", "logged"} /\ mrFailed \in BOOLEAN
                /\ Explained(mrRun, mrResult.code, mrFailed, mrExecutes)
<1>1. mrFailed \in BOOLEAN => (mrFailed <=> mrFailed = TRUE) /\ (~mrFailed <=> mrFailed = FALSE)
  OBVIOUS
<1>2. QED BY <1>1, Zenon DEF CodeInv, CodeIsExplained, Explained, RunSorts

LEMMA CodePartsNext ==
    ASSUME mrRun' \in RunSorts, mrExecutes' \in Nat, DOMAIN mrResult' = {"code", "logged"}, mrFailed' \in BOOLEAN,
           Explained(mrRun', mrResult'.code, mrFailed', mrExecutes')
    PROVE  CodeInv'
<1>1. mrFailed' \in BOOLEAN => (mrFailed' <=> mrFailed' = TRUE) /\ (~mrFailed' <=> mrFailed' = FALSE)
  OBVIOUS
<1>2. QED BY <1>1, Zenon DEF CodeInv, CodeIsExplained, Explained, RunSorts

\* The run goes on with the code it has.
LEMMA CodeKept ==
    ASSUME CodeInv, NEW r \in RunSorts, mrRun' = r, r.program = mrRun.program, mrExecutes' = mrExecutes,
           DOMAIN mrResult' = {"code", "logged"}, mrResult'.code = mrResult.code,
           \/ mrFailed' = mrFailed /\ r.state = mrRun.state
           \/ mrFailed' = mrFailed /\ mrRun.state = "imports" /\ r.state = "running"
           \/ mrFailed' = mrFailed /\ mrRun.state = "running" /\ r.state = "returned"
           \/ mrFailed' = TRUE /\ mrRun.state \in {"imports", "running"} /\ r.state = "escaped"
    PROVE  CodeInv'
<1>1. PICK code : code = mrResult.code /\ mrResult'.code = code
  OBVIOUS
<1>2. PICK q, f, g, n : q = mrRun /\ f = mrFailed /\ g = mrFailed' /\ n = mrExecutes
  OBVIOUS
<1>3. /\ q \in RunSorts /\ n \in Nat /\ f \in BOOLEAN /\ Explained(q, code, f, n)
  BY <1>1, <1>2, CodeParts
<1>4. /\ r.program = q.program
      /\ \/ g = f /\ r.state = q.state
         \/ g = f /\ q.state = "imports" /\ r.state = "running"
         \/ g = f /\ q.state = "running" /\ r.state = "returned"
         \/ g = TRUE /\ q.state \in {"imports", "running"} /\ r.state = "escaped"
  BY <1>2
<1>5. CASE g = f /\ q.state = "running" /\ r.state = "returned"
  <2>1. f = FALSE /\ n # 0 /\ (n <= 1 => code = 0)
    BY <1>3, <1>5 DEF Explained
  <2>2. code = 1 => n > 1
    BY <1>3, <2>1
  <2>3. Explained(r, code, g, n)
    BY <1>5, <2>1, <2>2 DEF Explained
  <2>4. QED BY <1>1, <1>2, <1>3, <1>5, <2>3, CodePartsNext, Zenon
<1>6. CASE ~(g = f /\ q.state = "running" /\ r.state = "returned")
  <2>1. Explained(r, code, g, n)
    BY <1>3, <1>4, <1>6 DEF Explained
  <2>2. g \in BOOLEAN
    BY <1>3, <1>4
  <2>3. QED BY <1>1, <1>2, <1>3, <2>1, <2>2, CodePartsNext, Zenon
<1>7. QED BY <1>5, <1>6


LEMMA CodeFails ==
    ASSUME CodeInv, Fails, mrRun.state \in {"imports", "running"}, mrExecutes' = mrExecutes
    PROVE  CodeInv'
<1>1. PICK q, n : q = mrRun /\ n = mrExecutes
  OBVIOUS
<1>2. q \in RunSorts /\ n \in Nat /\ n # 0 /\ DOMAIN mrResult = {"code", "logged"}
  <2>1. mrRun \in RunSorts /\ mrExecutes \in Nat /\ DOMAIN mrResult = {"code", "logged"}
    BY CodeParts
  <2>2. mrExecutes = 0 => mrRun.state = "idle"
    BY DEF CodeInv
  <2>3. QED BY <1>1, <2>1, <2>2
<1>3. PICK r : r = [q EXCEPT !.state = "returned"] /\ mrRun' = r
  BY <1>1 DEF Fails
<1>4. r \in RunSorts /\ r.state = "returned"
  BY <1>2, <1>3 DEF RunSorts, RunStates
<1>5. mrResult'.code = 1 /\ DOMAIN mrResult' = {"code", "logged"}
  BY <1>2 DEF Fails
<1>6. PICK yes \in BOOLEAN : yes = TRUE /\ mrFailed' = yes
  BY DEF Fails
<1>7. Explained(r, 1, yes, n)
  BY <1>2, <1>4, <1>6 DEF Explained
<1>8. QED BY <1>1, <1>2, <1>3, <1>4, <1>5, <1>6, <1>7, CodePartsNext, Zenon

LEMMA CodeOfResult ==
    ASSUME CodeInv, ProgramResult
    PROVE  CodeInv'
<1>1. PICK q, f, n : q = mrRun /\ f = mrFailed /\ n = mrExecutes
  OBVIOUS
<1>2. /\ q \in RunSorts /\ n \in Nat /\ f \in BOOLEAN /\ DOMAIN mrResult = {"code", "logged"}
      /\ Explained(q, mrResult.code, f, n) /\ q.state = "running"
  BY <1>1, CodeParts DEF ProgramResult, Running
<1>3. n # 0 /\ f = FALSE
  BY <1>2 DEF Explained
<1>4. PICK r : r = [q EXCEPT !.state = "returned"] /\ mrRun' = r
  BY <1>1 DEF ProgramResult
<1>5. r \in RunSorts /\ r.state = "returned" /\ r.program = q.program
  BY <1>2, <1>4 DEF RunSorts, RunStates
<1>6. PICK s : s = Statement /\ s \in ToSet(q.program) /\ s.tag = "RESULT"
  <2>1. PICK p, k : p = q.program /\ k = q.pc
    OBVIOUS
  <2>2. Statement = p[k] /\ k <= Len(p) /\ p[k].tag = "RESULT"
    BY <1>1, <2>1 DEF ProgramResult, Running, At, Statement
  <2>3. k \in Nat \ {0} /\ p \in RtPrograms \cup {<<>>}
    BY <1>2, <2>1 DEF RunSorts
  <2>4. p[k] \in ToSet(p)
    <3>1. CASE p = <<>>
      <4>1. Len(p) = 0
        BY <3>1
      <4>2. QED BY <2>2, <2>3, <4>1
    <3>2. CASE p \in RtPrograms
      <4>1. PICK S : S = ToSet(p) /\ p \in Seq(S)
        BY <3>2, RuntimeAssumption
      <4>2. QED BY <2>2, <2>3, <4>1
    <3>3. QED BY <2>3, <3>1, <3>2
  <2>5. QED BY <2>1, <2>2, <2>4
<1>7. mrResult'.code = s.code /\ DOMAIN mrResult' = {"code", "logged"}
  BY <1>2, <1>6 DEF ProgramResult
<1>8. Explained(r, s.code, f, n)
  <2>1. PICK S : S = ToSet(r.program) /\ s \in S
    BY <1>5, <1>6
  <2>2. ASSUME s.code = 1, \A x \in S : x.tag = "RESULT" => x.code = 0 PROVE FALSE
    BY <1>6, <2>1, <2>2
  <2>3. QED BY <1>3, <1>5, <2>1, <2>2 DEF Explained
<1>9. mrExecutes' = n /\ mrFailed' = f
  BY <1>1 DEF ProgramResult, mrLoader, mrBounds
<1>10. QED BY <1>2, <1>4, <1>5, <1>7, <1>8, <1>9, CodePartsNext, Zenon

LEMMA CodeBegins ==
    ASSUME CodeInv, BeginExecute
    PROVE  CodeInv'
<1>1. PICK q, f, n, code : q = mrRun /\ f = mrFailed /\ n = mrExecutes /\ code = mrResult.code
  OBVIOUS
<1>2. /\ q \in RunSorts /\ n \in Nat /\ DOMAIN mrResult = {"code", "logged"} /\ Explained(q, code, f, n)
  BY <1>1, CodeParts
<1>3. PICK p \in RtPrograms : mrRun' = [state |-> "imports", program |-> p, pc |-> 1]
  BY DEF BeginExecute
<1>4. PICK r : r = [state |-> "imports", program |-> p, pc |-> 1] /\ mrRun' = r
  BY <1>3
<1>5. r \in RunSorts /\ r.state = "imports"
  BY <1>4 DEF RunSorts, RunStates
<1>6. PICK no \in BOOLEAN : no = FALSE /\ mrFailed' = no
  BY DEF BeginExecute
<1>7. mrResult' = mrResult /\ mrExecutes' = n + 1
  BY <1>1 DEF BeginExecute
<1>8. n + 1 <= 1 => code = 0
  <2>1. n = 0 => q.state = "idle" /\ code = 0
    BY <1>2 DEF Explained
  <2>2. QED BY <1>2, <2>1
<1>9. n + 1 \in Nat /\ n + 1 # 0
  BY <1>2
<1>10. Explained(r, code, no, n + 1)
  BY <1>5, <1>6, <1>8, <1>9 DEF Explained
<1>11. QED BY <1>1, <1>2, <1>4, <1>5, <1>6, <1>7, <1>9, <1>10, CodePartsNext, Zenon


LEMMA ExitCodeSteps ==
    ASSUME LoaderInv, CodeInv, RuntimeNext
    PROVE  CodeInv'
<1>1. PICK q : q = mrRun /\ q \in RunSorts /\ mrExecutes \in Nat /\ DOMAIN mrResult = {"code", "logged"}
  BY CodeParts
<1>2. CASE mrRun' = mrRun /\ mrResult' = mrResult /\ mrFailed' = mrFailed /\ mrExecutes' = mrExecutes
  BY <1>1, <1>2, CodeKept
<1>3. CASE Forward /\ DOMAIN mrResult' = {"code", "logged"} /\ mrResult'.code = mrResult.code /\ mrFailed' = mrFailed
           /\ mrExecutes' = mrExecutes
  <2>1. PICK r : r = [q EXCEPT !.pc = q.pc + 1] /\ mrRun' = r
    BY <1>1, <1>3 DEF Forward, RunSorts
  <2>2. r \in RunSorts /\ r.program = q.program /\ r.state = q.state
    BY <1>1, <2>1 DEF RunSorts
  <2>3. QED BY <1>1, <1>3, <2>1, <2>2, CodeKept
<1>4. CASE Escapes /\ mrRun.state \in {"imports", "running"} /\ mrExecutes' = mrExecutes
  <2>1. PICK r : r = [q EXCEPT !.state = "escaped"] /\ mrRun' = r
    BY <1>1, <1>4 DEF Escapes
  <2>2. r \in RunSorts /\ r.program = q.program /\ r.state = "escaped"
    BY <1>1, <2>1 DEF RunSorts, RunStates
  <2>3. mrResult' = mrResult /\ mrFailed' = TRUE
    BY <1>4 DEF Escapes
  <2>4. QED BY <1>1, <1>4, <2>1, <2>2, <2>3, CodeKept
<1>5. ASSUME NEW known \in BOOLEAN, LoadRaises(known), mrRun.state \in {"imports", "running"}, mrExecutes' = mrExecutes
      PROVE  CodeInv'
  BY <1>4, <1>5, CodeFails DEF LoadRaises
<1>6. ASSUME NEW m, EnterLoad(m), mrRun.state = "imports", mrExecutes' = mrExecutes PROVE CodeInv'
  <2>1. CASE LoadRaises(TRUE)
    <3>1. PICK known \in BOOLEAN : LoadRaises(known)
      BY <2>1
    <3>2. QED BY <1>5, <1>6, <3>1
  <2>2. CASE LoadRaises(FALSE)
    <3>1. PICK known \in BOOLEAN : LoadRaises(known)
      BY <2>2
    <3>2. QED BY <1>5, <1>6, <3>1
  <2>3. CASE UNCHANGED <<mrCache, mrEnv, mrGas, mrPaid, mrRun, mrResult, mrFailed>>
    BY <1>2, <1>6, <2>3
  <2>4. QED BY <1>6, <2>1, <2>2, <2>3 DEF EnterLoad
<1>7. CASE EditModule \/ DependencyMerges \/ LoadReturns
  BY <1>2, <1>7 DEF EditModule, DependencyMerges, LoadReturns, mrBounds
<1>8. CASE ImportLoads
  BY <1>6, <1>8 DEF ImportLoads, mrBounds
<1>9. CASE DependencyLoads
  <2>1. mrRun.state = "imports" /\ mrExecutes' = mrExecutes /\ EnterLoad(Head(TopLoad.todo))
    BY <1>9 DEF DependencyLoads, LoaderInv, mrBounds
  <2>2. QED BY <1>6, <2>1
<1>10. CASE ImportMerges
  BY <1>1, <1>3, <1>4, <1>10 DEF ImportMerges, mrBounds
<1>11. CASE ImportSkips
  BY <1>1, <1>3, <1>11 DEF ImportSkips, mrBounds
<1>12. CASE SetsFirst
  <2>1. PICK r : r = [q EXCEPT !.state = "running", !.pc = 1] /\ mrRun' = r /\ q.state = "imports"
    BY <1>1, <1>12 DEF SetsFirst
  <2>2. r \in RunSorts /\ r.program = q.program /\ r.state = "running"
    <3>1. "running" \in RunStates /\ 1 \in Nat \ {0}
      BY DEF RunStates
    <3>2. QED BY <1>1, <2>1, <3>1 DEF RunSorts
  <2>3. mrResult' = mrResult /\ mrFailed' = mrFailed /\ mrExecutes' = mrExecutes
    BY <1>12 DEF SetsFirst, mrBounds
  <2>4. QED BY <1>1, <2>1, <2>2, <2>3, CodeKept
<1>13. CASE StatementUnpaid
  BY <1>13, CodeFails DEF StatementUnpaid, mrLoader, mrBounds
<1>14. CASE StatementRecorded
  <2>1. mrRun.state = "running" /\ mrExecutes' = mrExecutes
    BY <1>14 DEF StatementRecorded, Running, mrLoader, mrBounds
  <2>2. Fails \/ (Forward /\ mrResult' = mrResult /\ mrFailed' = mrFailed)
    BY <1>14 DEF StatementRecorded
  <2>3. QED BY <1>1, <1>3, <2>1, <2>2, CodeFails
<1>15. CASE RunsOff
  <2>1. PICK r : r = [q EXCEPT !.state = "returned"] /\ mrRun' = r /\ q.state = "running"
    BY <1>1, <1>15 DEF RunsOff
  <2>2. r \in RunSorts /\ r.program = q.program /\ r.state = "returned"
    BY <1>1, <2>1 DEF RunSorts, RunStates
  <2>3. mrResult' = mrResult /\ mrFailed' = mrFailed /\ mrExecutes' = mrExecutes
    BY <1>15 DEF RunsOff, mrLoader, mrBounds
  <2>4. QED BY <1>1, <2>1, <2>2, <2>3, CodeKept
<1>16. CASE ToolDispatches
  <2>1. mrRun.state = "running" /\ mrExecutes' = mrExecutes
    BY <1>16 DEF ToolDispatches, Running, mrLoader, mrBounds
  <2>2. \/ Fails \/ Escapes
        \/ \E x : Forward /\ mrResult' = [mrResult EXCEPT !.logged = x] /\ mrFailed' = mrFailed
    <3>1. PICK f : f = Statement.name
      OBVIOUS
    <3>2. PICK v : v = LoggedValue(f)
      OBVIOUS
    <3>3. \/ Fails \/ Escapes
          \/ Forward /\ mrResult' = [mrResult EXCEPT !.logged = @ \cup {<<f, v>>}] /\ mrFailed' = mrFailed
      BY <1>16, <3>1, <3>2 DEF ToolDispatches
    <3>4. [mrResult EXCEPT !.logged = @ \cup {<<f, v>>}] = [mrResult EXCEPT !.logged = mrResult.logged \cup {<<f, v>>}]
      BY <1>1
    <3>5. QED BY <3>3, <3>4
  <2>3. ASSUME NEW x, mrResult' = [mrResult EXCEPT !.logged = x]
        PROVE  DOMAIN mrResult' = {"code", "logged"} /\ mrResult'.code = mrResult.code
    BY <1>1, <2>3
  <2>4. QED BY <1>3, <1>4, <2>1, <2>2, <2>3, CodeFails
<1>17. QED BY <1>7, <1>8, <1>9, <1>10, <1>11, <1>12, <1>13, <1>14, <1>15, <1>16, CodeOfResult, CodeBegins DEF RuntimeNext

RuntimeInv == LoaderInv /\ MeterInv /\ CodeInv

LEMMA RuntimeBegins ==
    ASSUME RuntimeInit
    PROVE  RuntimeInv
<1>1. MeterInv
  <2>1. mrGas = 0 /\ mrPaid = 0
    BY DEF RuntimeInit
  <2>2. QED BY <2>1, RuntimeAssumption DEF MeterInv, MeterIsTrue
<1>2. CodeInv
  <2>1. PICK r : r = [state |-> "idle", program |-> <<>>, pc |-> 1] /\ mrRun = r
    BY DEF RuntimeInit
  <2>2. r \in RunSorts /\ r.state = "idle"
    BY <2>1 DEF RunSorts, RunStates
  <2>3. mrResult.code = 0 /\ DOMAIN mrResult = {"code", "logged"} /\ mrExecutes = 0
    BY DEF RuntimeInit
  <2>4. PICK no \in BOOLEAN : no = FALSE /\ mrFailed = no
    BY DEF RuntimeInit
  <2>5. Explained(r, 0, no, 0)
    BY <2>2, <2>4 DEF Explained
  <2>6. QED BY <2>1, <2>2, <2>3, <2>4, <2>5, CodeParts, Zenon
<1>3. LoaderInv
  <2>1. mrFiles \in [RtModules -> FileSet]
    <3>1. ASSUME NEW m \in RtModules PROVE ModuleFiles(m) \subseteq FileSet
      <4>1. ASSUME NEW s \in {<<>>} \cup {<<n>> : n \in RtModules} PROVE s \in Seq(RtModules)
        <5>1. CASE s = <<>>
          BY <5>1
        <5>2. ASSUME NEW n \in RtModules, s = <<n>> PROVE s \in Seq(RtModules)
          BY <5>2
        <5>3. QED BY <4>1, <5>1, <5>2
      <4>2. QED BY <4>1 DEF ModuleFiles, FileSet
    <3>2. Absent \in FileSet
      <4>1. <<>> \in Seq(RtModules)
        OBVIOUS
      <4>2. QED BY <4>1 DEF Absent, FileSet
    <3>3. (UNION {ModuleFiles(m) : m \in RtModules}) \cup {Absent} \subseteq FileSet
      BY <3>1, <3>2
    <3>4. QED BY <3>3 DEF RuntimeInit
  <2>2. PICK c : c = mrCache /\ c = [m \in RtModules |-> {}]
    BY DEF RuntimeInit
  <2>3. CacheFits(c)
    BY <2>2 DEF CacheFits
  <2>4. mrStack = <<>> /\ mrLoading = {} /\ mrEnv = <<>>
    BY DEF RuntimeInit
  <2>5. StackFits(<<>>, {}, c)
    <3>1. <<>> \in Seq(Frames) /\ Len(<<>>) = 0
      OBVIOUS
    <3>2. QED BY <3>1 DEF StackFits
  <2>6. EnvFits(c, <<>>)
    <3>1. DOMAIN <<>> = {}
      OBVIOUS
    <3>2. QED BY <3>1 DEF EnvFits, WholeIn
  <2>7. QED BY <2>1, <2>2, <2>3, <2>4, <2>5, <2>6 DEF LoaderInv
<1>4. QED BY <1>1, <1>2, <1>3 DEF RuntimeInv

LEMMA RuntimeHolds ==
    ASSUME RuntimeInv
    PROVE  RuntimeIsSound
<1>1. PICK stack, c, env : stack = mrStack /\ c = mrCache /\ env = mrEnv
  OBVIOUS
<1>2. /\ CacheFits(c) /\ stack \in Seq(Frames) /\ mrLoading = {stack[i].name : i \in 1 .. Len(stack)}
      /\ mrRun.state # "imports" => stack = <<>>
      /\ DOMAIN env \subseteq Paths /\ WholeIn(c, env)
  BY <1>1 DEF RuntimeInv, LoaderInv, StackFits, EnvFits
<1>3. GuardIsTheStack
  <2>1. DOMAIN stack = 1 .. Len(stack)
    BY <1>2
  <2>2. mrLoading = {f.name : f \in ToSet(stack)}
    BY <1>2, <2>1 DEF ToSet
  <2>3. stack = <<>> => mrLoading = {}
    <3>1. stack = <<>> => DOMAIN stack = {}
      OBVIOUS
    <3>2. QED BY <2>2, <3>1 DEF ToSet
  <2>4. QED BY <1>1, <1>2, <2>2, <2>3 DEF GuardIsTheStack
<1>4. CacheIsWhole
  <2>1. SUFFICES ASSUME NEW m \in RtModules, NEW ns \in c[m], NEW dep \in Imports(ns)
                 PROVE  \E d \in c[dep] : \A p \in DOMAIN d : <<dep>> \o p \in DOMAIN ns /\ ns[<<dep>> \o p] = d[p]
    BY <1>1 DEF CacheIsWhole
  <2>2. PICK q \in DOMAIN ns : Len(q) > 1 /\ dep = q[1]
    BY <2>1 DEF Imports
  <2>3. WholeIn(c, ns)
    BY <1>2, <2>1, OneInCache
  <2>4. QED BY <2>2, <2>3 DEF WholeIn
<1>5. EnvIsOfTheCache
  <2>1. SUFFICES ASSUME NEW p \in DOMAIN env, Len(p) > 1
                 PROVE  /\ env[p][1] = p[Len(p) - 1]
                        /\ \E d \in c[p[1]] : \A q \in DOMAIN d \cup {Tail(p)} :
                             q \in DOMAIN d /\ <<p[1]>> \o q \in DOMAIN env /\ env[<<p[1]>> \o q] = d[q]
    BY <1>1 DEF EnvIsOfTheCache
  <2>2. env[p][1] = p[Len(p) - 1]
    BY <1>2, <2>1 DEF WholeIn
  <2>3. PICK d \in c[p[1]] : /\ Tail(p) \in DOMAIN d
                             /\ \A q \in DOMAIN d : <<p[1]>> \o q \in DOMAIN env /\ env[<<p[1]>> \o q] = d[q]
    BY <1>2, <2>1 DEF WholeIn
  <2>4. \A q \in DOMAIN d \cup {Tail(p)} : q \in DOMAIN d
    BY <2>3
  <2>5. QED BY <2>2, <2>3, <2>4
<1>6. MeterIsTrue /\ CodeIsExplained
  BY DEF RuntimeInv, MeterInv, CodeInv
<1>7. QED BY <1>3, <1>4, <1>5, <1>6 DEF RuntimeIsSound

\* What a runtime's programs may rely on, though it keeps its cache, its environment and its
\* result from one program to the next while files of modules change: whole modules, a gas
\* meter that is true, and codes that are explained (HLFRuntime.execute, ModuleLoader.load,
\* GasMeter, _finalize).
THEOREM RuntimeSound == RuntimeSpec => []RuntimeIsSound
<1>1. RuntimeInv /\ [RuntimeNext]_mrVars => RuntimeInv'
  <2>1. ASSUME RuntimeInv, UNCHANGED mrVars PROVE RuntimeInv'
    <3>1. /\ mrFiles' = mrFiles /\ mrCache' = mrCache /\ mrStack' = mrStack /\ mrLoading' = mrLoading /\ mrEnv' = mrEnv
          /\ mrRun' = mrRun /\ mrResult' = mrResult /\ mrFailed' = mrFailed /\ mrExecutes' = mrExecutes
          /\ mrGas' = mrGas /\ mrPaid' = mrPaid
      BY <2>1 DEF mrVars
    <3>2. LoaderInv' /\ MeterInv'
      BY <2>1, <3>1 DEF RuntimeInv, LoaderInv, MeterInv, MeterIsTrue
    <3>3. CodeInv'
      BY <2>1, <3>1 DEF RuntimeInv, CodeInv, CodeIsExplained
    <3>4. QED BY <3>2, <3>3 DEF RuntimeInv
  <2>2. QED BY <2>1, LoaderSteps, MeterSteps, ExitCodeSteps DEF RuntimeInv
<1>2. QED BY <1>1, RuntimeBegins, RuntimeHolds, PTL DEF RuntimeSpec

-----------------------------------------------------------------------------
(* Discussions of the crew. *)

\* What InOrder keeps is of the set.
LEMMA KeptAreOfTheSet ==
    ASSUME NEW V, NEW s \in Seq(V), NEW X
    PROVE  InOrder(s, X) \in Seq(V \cap X)
<1>1. PICK n \in Nat : n = Len(s)
  <2>1. Len(s) \in Nat
    OBVIOUS
  <2>2. QED BY <2>1
<1>2. PICK f : f = KeptUpTo(s, X)
  OBVIOUS
<1>3. /\ f[0] = <<>>
      /\ \A k \in 1 .. n : f[k] = (IF s[k] \in X THEN Append(f[k - 1], s[k]) ELSE f[k - 1])
  BY <1>1, <1>2, KeptSteps
<1> DEFINE T == {k \in Nat : k <= n => f[k] \in Seq(V \cap X)}
<1>4. 0 \in T
  <2>1. <<>> \in Seq(V \cap X)
    OBVIOUS
  <2>2. QED BY <1>3, <2>1
<1>5. ASSUME NEW k \in Nat, k \in T PROVE k + 1 \in T
  <2>1. SUFFICES ASSUME k + 1 <= n PROVE f[k + 1] \in Seq(V \cap X)
    OBVIOUS
  <2>2. k + 1 \in 1 .. n /\ (k + 1) - 1 = k /\ f[k] \in Seq(V \cap X)
    BY <1>5, <2>1
  <2>3. f[k + 1] = (IF s[k + 1] \in X THEN Append(f[k], s[k + 1]) ELSE f[k])
    BY <1>3, <2>2
  <2>4. s[k + 1] \in V
    BY <1>1, <2>2
  <2>5. QED BY <2>2, <2>3, <2>4, AppendProperties
<1>6. n \in T
  <2> HIDE DEF T
  <2>1. QED BY <1>4, <1>5, NatSetInduction
<1>7. QED BY <1>1, <1>2, <1>6 DEF InOrder

Personas == {"consolidator"} \cup UNION {Range(list) : list \in CrewLists}
Specialists == Personas \ {"consolidator"}
RowSet == [who : Personas, prompt : [file : BOOLEAN, mandates : BOOLEAN], prior : Nat]
RunSet == [used : Seq(Personas), todo : Seq(Personas), rows : Seq(RowSet), robin : BOOLEAN]
DiscussionSet == [used : Seq(Personas), rows : Seq(RowSet), torn : BOOLEAN]

Priors(rows) == \A j \in 1 .. Len(rows) : rows[j].prior \in {0, j - 1}
\* The rows are those of the first specialists, and the others are to come.
StillAsks(r, list) ==
  /\ Len(r.rows) + Len(r.todo) = Len(list)
  /\ \A i \in 1 .. Len(r.rows) : r.rows[i].who = list[i]
  /\ \A i \in 1 .. Len(r.todo) : r.todo[i] = list[Len(r.rows) + i]
Consolidated(r, list) ==
  /\ r.todo = <<>> /\ r.used = Append(list, "consolidator")
  /\ Len(r.rows) = Len(list) + 1 /\ \A i \in 1 .. Len(r.rows) : r.rows[i].who = r.used[i]
RunSound(r) ==
  /\ r \in RunSet /\ Priors(r.rows)
  /\ \E list \in Seq(Specialists) :
       /\ r.used = list \/ r.used = Append(list, "consolidator")
       /\ StillAsks(r, list) \/ Consolidated(r, list)

DiscussionSound(d) == Priors(d.rows) /\ (d.torn \/ Whole(d) \/ (d.used = <<"consolidator">> /\ d.rows = <<>>))
Told == {d \in DiscussionSet : DiscussionSound(d)}
MandatesFit(rows, cached) == \A i \in 1 .. Len(rows) : rows[i].prompt.file => cached = {rows[i].prompt.mandates}

CrewInv ==
  /\ crDisk \in [agents : CrewRegistries, mandates : BOOLEAN]
  /\ crCache \in [agents : SUBSET CrewRegistries, mandates : {{}, {TRUE}, {FALSE}}]
  /\ crRun # {} => \E r : crRun = {r} /\ RunSound(r) /\ MandatesFit(r.rows, crCache.mandates)
  /\ crDb \in [committed : Seq(Told), pending : Seq(Told)]
  /\ \A d \in Range(crDb.committed) \cup Range(crDb.pending) : MandatesFit(d.rows, crCache.mandates)
  /\ StatusIsCurrent
  /\ ~crStale => crCache.agents \subseteq {crDisk.agents}

LEMMA RunIsOne ==
    ASSUME CrewInv, crRun # {}
    PROVE  /\ crRun = {Run} /\ RunSound(Run) /\ MandatesFit(Run.rows, crCache.mandates) /\ Run \in RunSet
<1>1. PICK r : crRun = {r} /\ RunSound(r) /\ MandatesFit(r.rows, crCache.mandates)
  BY DEF CrewInv
<1>2. Run = r
  BY <1>1 DEF Run
<1>3. QED BY <1>1, <1>2 DEF RunSound

LEMMA LoadedFacts ==
    ASSUME CrewInv
    PROVE  /\ LoadedAgents \in SUBSET CrewRegistries /\ (~crStale => LoadedAgents \subseteq {crDisk.agents})
           /\ LoadedMandates \in {{TRUE}, {FALSE}} /\ (crCache.mandates # {} => LoadedMandates = crCache.mandates)
  BY DEF CrewInv, LoadedAgents, LoadedMandates

\* A row more.
LEMMA RowsGrow ==
    ASSUME NEW rows \in Seq(RowSet), NEW row \in RowSet, NEW m, NEW n,
           Priors(rows), MandatesFit(rows, m), row.prior \in {0, Len(rows)}, row.prompt.file => n = {row.prompt.mandates},
           m # {} => n = m
    PROVE  /\ Append(rows, row) \in Seq(RowSet) /\ Len(Append(rows, row)) = Len(rows) + 1
           /\ Append(rows, row)[Len(rows) + 1] = row /\ \A i \in 1 .. Len(rows) : Append(rows, row)[i] = rows[i]
           /\ Priors(Append(rows, row)) /\ MandatesFit(Append(rows, row), n)
<1>1. PICK k \in Nat : k = Len(rows)
  <2>1. Len(rows) \in Nat
    OBVIOUS
  <2>2. QED BY <2>1
<1>2. PICK t : t = Append(rows, row) /\ t \in Seq(RowSet) /\ Len(t) = k + 1 /\ t[k + 1] = row /\ \A i \in 1 .. k : t[i] = rows[i]
  <2>1. /\ Append(rows, row) \in Seq(RowSet) /\ Len(Append(rows, row)) = k + 1 /\ Append(rows, row)[k + 1] = row
        /\ \A i \in 1 .. k : Append(rows, row)[i] = rows[i]
    BY <1>1, AppendProperties
  <2>2. QED BY <2>1
<1>3. \A i \in 1 .. k + 1 : i \in 1 .. k \/ i = k + 1
  BY <1>1
<1>4. Priors(t)
  <2>1. ASSUME NEW i \in 1 .. k + 1 PROVE t[i].prior \in {0, i - 1}
    <3>1. CASE i \in 1 .. k
      BY <1>1, <1>2, <3>1 DEF Priors
    <3>2. CASE i = k + 1
      BY <1>1, <1>2, <3>2
    <3>3. QED BY <1>3, <3>1, <3>2
  <2>2. QED BY <1>2, <2>1 DEF Priors
<1>5. MandatesFit(t, n)
  <2>1. ASSUME NEW i \in 1 .. k + 1, t[i].prompt.file PROVE n = {t[i].prompt.mandates}
    <3>1. CASE i \in 1 .. k
      <4>1. m = {t[i].prompt.mandates}
        BY <1>1, <1>2, <2>1, <3>1 DEF MandatesFit
      <4>2. QED BY <4>1
    <3>2. CASE i = k + 1
      BY <1>2, <2>1, <3>2
    <3>3. QED BY <1>3, <3>1, <3>2
  <2>2. QED BY <1>2, <2>1 DEF MandatesFit
<1>6. QED BY <1>1, <1>2, <1>4, <1>5

LEMMA MandatesStill ==
    ASSUME NEW rows, NEW m, NEW n, MandatesFit(rows, m), m # {} => n = m
    PROVE  MandatesFit(rows, n)
  BY DEF MandatesFit

\* What the steps of a discussion leave alone, but for the caches.
LEMMA DiscussionMoves ==
    ASSUME CrewInv, crDisk' = crDisk, crDb' = crDb, crStatus' = crStatus, crStale' = crStale,
           crCache'.agents \in {crCache.agents, LoadedAgents}, crCache'.mandates \in {crCache.mandates, LoadedMandates},
           crCache' \in [agents : SUBSET CrewRegistries, mandates : {{}, {TRUE}, {FALSE}}],
           crRun' # {} => \E r : crRun' = {r} /\ RunSound(r) /\ MandatesFit(r.rows, crCache'.mandates)
    PROVE  CrewInv'
<1>1. crCache.mandates # {} => crCache'.mandates = crCache.mandates
  BY LoadedFacts
<1>2. ~crStale => crCache'.agents \subseteq {crDisk.agents}
  BY LoadedFacts DEF CrewInv
<1>3. ASSUME NEW d \in Range(crDb.committed) \cup Range(crDb.pending) PROVE MandatesFit(d.rows, crCache'.mandates)
  <2>1. MandatesFit(d.rows, crCache.mandates)
    BY <1>3 DEF CrewInv
  <2>2. PICK m, n : m = crCache.mandates /\ n = crCache'.mandates
    OBVIOUS
  <2>3. QED BY <1>1, <2>1, <2>2, MandatesStill
<1>4. QED BY <1>2, <1>3 DEF CrewInv, StatusIsCurrent


LEMMA CrewBegins ==
    ASSUME CrewInv, NEW list \in CrewLists, NEW robin \in BOOLEAN, BeginCrew(list, robin)
    PROVE  CrewInv'
<1>1. PICK sp : sp = InOrder(list, Range(list) \ {"consolidator"}) /\ sp \in Seq(Specialists)
  <2>1. list \in Seq(Range(list))
    BY CrewAssumption
  <2>2. InOrder(list, Range(list) \ {"consolidator"}) \in Seq(Range(list) \cap (Range(list) \ {"consolidator"}))
    BY <2>1, KeptAreOfTheSet
  <2>3. Range(list) \cap (Range(list) \ {"consolidator"}) \subseteq Specialists
    BY DEF Specialists, Personas
  <2>4. QED BY <2>2, <2>3
<1>2. PICK last : last = (IF list # sp THEN <<"consolidator">> ELSE <<>>)
  OBVIOUS
<1>3. PICK r : r = [used |-> sp \o last, todo |-> sp, rows |-> <<>>, robin |-> robin] /\ crRun' = {r}
  BY <1>1, <1>2 DEF BeginCrew
<1>4. sp \in Seq(Personas) /\ "consolidator" \in Personas
  <2>1. Specialists \subseteq Personas
    BY DEF Specialists
  <2>2. "consolidator" \in Personas
    BY DEF Personas
  <2>3. QED BY <1>1, <2>1, <2>2
<1>5. r.used = sp \/ r.used = Append(sp, "consolidator")
  <2>1. sp \o <<>> = sp /\ sp \o <<"consolidator">> = Append(sp, "consolidator")
    BY <1>4
  <2>2. QED BY <1>2, <1>3, <2>1
<1>6. r \in RunSet
  <2>1. r.used \in Seq(Personas)
    BY <1>4, <1>5, AppendProperties
  <2>2. QED BY <1>3, <1>4, <2>1 DEF RunSet
<1>7. r.rows = <<>> /\ r.todo = sp
  BY <1>3
<1>8. StillAsks(r, sp) /\ Priors(r.rows) /\ \A m : MandatesFit(r.rows, m)
  BY <1>4, <1>7 DEF StillAsks, Priors, MandatesFit
<1>9. RunSound(r)
  BY <1>1, <1>5, <1>6, <1>8 DEF RunSound
<1>10. crDisk' = crDisk /\ crDb' = crDb /\ crStatus' = crStatus /\ crStale' = crStale /\ crCache' = crCache
  BY DEF BeginCrew
<1>11. QED BY <1>3, <1>8, <1>9, <1>10, DiscussionMoves DEF CrewInv

\* The next persona's row.
LEMMA PersonaHeard ==
    ASSUME NEW r, RunSound(r), r.todo # <<>>, NEW m, MandatesFit(r.rows, m), NEW n, m # {} => n = m,
           NEW row \in RowSet, row.who = Head(r.todo), row.prior \in {0, Len(r.rows)},
           row.prompt.file => n = {row.prompt.mandates},
           NEW q, q = [r EXCEPT !.todo = Tail(@), !.rows = Append(@, row)]
    PROVE  RunSound(q) /\ MandatesFit(q.rows, n)
<1>1. r \in RunSet /\ r.todo \in Seq(Personas) /\ r.rows \in Seq(RowSet) /\ r.used \in Seq(Personas) /\ Priors(r.rows)
  BY DEF RunSound, RunSet
<1>2. /\ Tail(r.todo) \in Seq(Personas) /\ Head(r.todo) = r.todo[1]
      /\ Len(Tail(r.todo)) = Len(r.todo) - 1 /\ Len(r.todo) \in Nat \ {0} /\ Len(r.rows) \in Nat
      /\ \A i \in 1 .. Len(r.todo) - 1 : Tail(r.todo)[i] = r.todo[i + 1]
  BY <1>1
<1>3. PICK rows : /\ rows = Append(r.rows, row) /\ rows \in Seq(RowSet) /\ Len(rows) = Len(r.rows) + 1
                  /\ rows[Len(r.rows) + 1] = row /\ (\A i \in 1 .. Len(r.rows) : rows[i] = r.rows[i])
                  /\ Priors(rows) /\ MandatesFit(rows, n)
  <2>1. /\ Append(r.rows, row) \in Seq(RowSet) /\ Len(Append(r.rows, row)) = Len(r.rows) + 1
        /\ Append(r.rows, row)[Len(r.rows) + 1] = row /\ (\A i \in 1 .. Len(r.rows) : Append(r.rows, row)[i] = r.rows[i])
        /\ Priors(Append(r.rows, row)) /\ MandatesFit(Append(r.rows, row), n)
    BY <1>1, RowsGrow, Zenon
  <2>2. QED BY <2>1, Zenon
<1>4. q \in RunSet /\ q.rows = rows /\ q.todo = Tail(r.todo) /\ q.used = r.used
  BY <1>1, <1>2, <1>3 DEF RunSet
<1>5. PICK sp \in Seq(Specialists) : /\ r.used = sp \/ r.used = Append(sp, "consolidator")
                                     /\ StillAsks(r, sp) \/ Consolidated(r, sp)
  BY DEF RunSound
<1>6. StillAsks(r, sp)
  BY <1>5 DEF Consolidated
<1>7. PICK k, c : k \in Nat /\ c \in Nat /\ k = Len(r.rows) /\ c = Len(r.todo) /\ c # 0 /\ Len(sp) = k + c
  <2>1. Len(r.rows) \in Nat /\ Len(r.todo) \in Nat /\ Len(r.todo) # 0
    BY <1>2
  <2>2. QED BY <1>6, <2>1 DEF StillAsks
<1>8. \A i \in 1 .. k + 1 : rows[i].who = sp[i]
  <2>1. \A i \in 1 .. k : rows[i].who = sp[i]
    BY <1>3, <1>6, <1>7 DEF StillAsks
  <2>2. row.who = sp[k + 1]
    <3>1. 1 \in 1 .. c
      BY <1>7
    <3>2. r.todo[1] = sp[k + 1]
      BY <1>6, <1>7, <3>1 DEF StillAsks
    <3>3. QED BY <1>2, <3>2
  <2>3. rows[k + 1] = row
    BY <1>3, <1>7
  <2>4. \A i \in 1 .. k + 1 : i \in 1 .. k \/ i = k + 1
    BY <1>7
  <2>5. QED BY <2>1, <2>2, <2>3, <2>4
<1>9. ASSUME NEW i \in 1 .. c - 1 PROVE Tail(r.todo)[i] = sp[k + 1 + i]
  <2>1. i + 1 \in 1 .. c /\ k + (i + 1) = k + 1 + i
    BY <1>7
  <2>2. r.todo[i + 1] = sp[k + 1 + i]
    BY <1>6, <1>7, <2>1 DEF StillAsks
  <2>3. QED BY <1>2, <1>7, <2>2
<1>10. StillAsks(q, sp)
  <2>1. Len(q.rows) = k + 1 /\ Len(q.todo) = c - 1
    BY <1>2, <1>3, <1>4, <1>7
  <2>2. k + 1 + (c - 1) = k + c
    <3>1. \A a, b \in Nat : a + 1 + (b - 1) = a + b
      OBVIOUS
    <3>2. QED BY <1>7, <3>1
  <2>3. QED BY <1>4, <1>7, <1>8, <1>9, <2>1, <2>2 DEF StillAsks
<1>11. QED BY <1>3, <1>4, <1>5, <1>10 DEF RunSound

LEMMA PromptFacts ==
    ASSUME NEW file \in BOOLEAN, NEW b \in BOOLEAN, NEW S, S = {b}
    PROVE  \E g \in BOOLEAN : Prompt(file, TRUE \in S) = [file |-> file, mandates |-> g] /\ (file => g = b)
<1>1. CASE file = TRUE /\ b = TRUE
  BY <1>1 DEF Prompt
<1>2. CASE file = TRUE /\ b = FALSE
  BY <1>2 DEF Prompt
<1>3. CASE file = FALSE
  BY <1>3 DEF Prompt
<1>4. QED BY <1>1, <1>2, <1>3

LEMMA PersonaAnswers ==
    ASSUME CrewInv, NEW file \in BOOLEAN, CallPersona(file)
    PROVE  CrewInv'
<1>1. PICK r : r = Run /\ crRun = {r} /\ RunSound(r) /\ MandatesFit(r.rows, crCache.mandates) /\ r \in RunSet
               /\ r.todo # <<>>
  BY RunIsOne DEF CallPersona
<1> DEFINE known == \E agents \in LoadedAgents : Head(r.todo) \in agents
<1>3. PICK row : /\ row = (IF known THEN Heard(Head(r.todo), Prompt(file, TRUE \in LoadedMandates), IF r.robin THEN Len(r.rows) ELSE 0)
                           ELSE Heard(Head(r.todo), Prompt(FALSE, FALSE), 0))
                 /\ crRun' = {[r EXCEPT !.todo = Tail(@), !.rows = Append(@, row)]}
                 /\ crCache' = [agents |-> LoadedAgents, mandates |-> IF known THEN LoadedMandates ELSE crCache.mandates]
  BY <1>1, Zenon DEF CallPersona
<1> HIDE DEF known
<1>4. Head(r.todo) \in Personas /\ Len(r.rows) \in Nat
  <2>1. r.todo \in Seq(Personas) /\ r.rows \in Seq(RowSet)
    BY <1>1 DEF RunSet
  <2>2. QED BY <1>1, <2>1
<1>5. PICK n : n = crCache'.mandates /\ n = (IF known THEN LoadedMandates ELSE crCache.mandates)
  BY <1>3
<1>6. n \in {{}, {TRUE}, {FALSE}} /\ (crCache.mandates # {} => n = crCache.mandates)
  BY <1>5, LoadedFacts DEF CrewInv
<1>7. /\ row \in RowSet /\ row.who = Head(r.todo) /\ row.prior \in {0, Len(r.rows)}
      /\ row.prompt.file => n = {row.prompt.mandates}
  <2>1. CASE known
    <3>1. PICK b \in BOOLEAN : LoadedMandates = {b}
      BY LoadedFacts
    <3>4. PICK p : p = (IF r.robin THEN Len(r.rows) ELSE 0) /\ p \in Nat /\ p \in {0, Len(r.rows)}
      <4>1. (IF r.robin THEN Len(r.rows) ELSE 0) \in Nat /\ (IF r.robin THEN Len(r.rows) ELSE 0) \in {0, Len(r.rows)}
        BY <1>4
      <4>2. QED BY <4>1, Zenon
    <3>5. PICK g \in BOOLEAN : Prompt(file, TRUE \in LoadedMandates) = [file |-> file, mandates |-> g] /\ (file => g = b)
      BY <3>1, PromptFacts, Zenon
    <3>6. row = [who |-> Head(r.todo), prompt |-> [file |-> file, mandates |-> g], prior |-> p]
      BY <1>3, <2>1, <3>4, <3>5, Zenon DEF Heard
    <3>7. [file |-> file, mandates |-> g] \in [file : BOOLEAN, mandates : BOOLEAN]
      BY <3>5
    <3>8. row \in RowSet /\ row.who = Head(r.todo) /\ row.prior = p
      BY <1>4, <3>4, <3>6, <3>7 DEF RowSet
    <3>9. row.prompt.file = file /\ row.prompt.mandates = g
      BY <3>6
    <3>10. file => g = b
      BY <3>5
    <3>11. n = {b}
      BY <1>5, <2>1, <3>1
    <3>12. row.prompt.file => n = {row.prompt.mandates}
      BY <3>9, <3>10, <3>11
    <3>13. QED BY <3>4, <3>8, <3>12
  <2>2. CASE ~known
    <3>1. PICK g \in BOOLEAN : g = FALSE
      OBVIOUS
    <3>2. PICK k \in BOOLEAN : k = (g /\ g) /\ ~k
      BY <3>1
    <3>3. row = [who |-> Head(r.todo), prompt |-> [file |-> g, mandates |-> k], prior |-> 0]
      BY <1>3, <2>2, <3>1, <3>2 DEF Heard, Prompt
    <3>4. [file |-> g, mandates |-> k] \in [file : BOOLEAN, mandates : BOOLEAN]
      OBVIOUS
    <3>5. row \in RowSet /\ row.who = Head(r.todo) /\ row.prior = 0 /\ row.prompt.file = g
      BY <1>4, <3>3, <3>4 DEF RowSet
    <3>6. QED BY <3>1, <3>5
  <2>3. QED BY <2>1, <2>2
<1>8. PICK q : q = [r EXCEPT !.todo = Tail(@), !.rows = Append(@, row)] /\ crRun' = {q}
  BY <1>3
<1>9. RunSound(q) /\ MandatesFit(q.rows, n)
  BY <1>1, <1>6, <1>7, <1>8, PersonaHeard, Zenon
<1>10. /\ crCache'.agents = LoadedAgents /\ crCache'.mandates \in {crCache.mandates, LoadedMandates}
       /\ crCache' \in [agents : SUBSET CrewRegistries, mandates : {{}, {TRUE}, {FALSE}}]
  BY <1>3, <1>5, <1>6, LoadedFacts
<1>11. crDisk' = crDisk /\ crDb' = crDb /\ crStatus' = crStatus /\ crStale' = crStale
  BY DEF CallPersona
<1>12. MandatesFit(q.rows, crCache'.mandates)
  BY <1>5, <1>9
<1>13. QED BY <1>8, <1>9, <1>10, <1>11, <1>12, DiscussionMoves


\* Neither the list nor a row of its specialists names the consolidator.
LEMMA SpecialistsOnly ==
    ASSUME NEW list \in Seq(Specialists)
    PROVE  "consolidator" \notin Range(list) /\ list \in Seq(Personas)
<1>1. Specialists \subseteq Personas /\ "consolidator" \notin Specialists
  BY DEF Specialists
<1>2. \A x \in Range(list) : x \in Specialists
  BY DEF Range
<1>3. QED BY <1>1, <1>2

LEMMA WhoIsLast ==
    ASSUME NEW r, RunSound(r), r.todo = <<>>, NEW list \in Seq(Specialists),
           r.used = list \/ r.used = Append(list, "consolidator"), StillAsks(r, list) \/ Consolidated(r, list)
    PROVE  /\ Len(r.rows) \in Nat /\ Len(list) \in Nat
           /\ Consolidated(r, list) => r.rows # <<>> /\ Last(r.rows).who = "consolidator"
           /\ StillAsks(r, list) => Len(r.rows) = Len(list)
           /\ "consolidator" \in Range(r.used) <=> r.used = Append(list, "consolidator")
<1>1. r.rows \in Seq(RowSet) /\ Len(r.rows) \in Nat /\ list \in Seq(Personas) /\ Len(list) \in Nat
  BY SpecialistsOnly DEF RunSound, RunSet
<1>2. "consolidator" \in Personas
  BY DEF Personas
<1>3. PICK a : a = Append(list, "consolidator") /\ Len(a) = Len(list) + 1 /\ a[Len(list) + 1] = "consolidator" /\ DOMAIN a = 1 .. Len(list) + 1
  <2>1. /\ Len(Append(list, "consolidator")) = Len(list) + 1 /\ Append(list, "consolidator")[Len(list) + 1] = "consolidator"
        /\ Append(list, "consolidator") \in Seq(Personas)
    BY <1>1, <1>2, AppendProperties
  <2>2. DOMAIN Append(list, "consolidator") = 1 .. Len(list) + 1
    BY <1>1, <2>1
  <2>3. QED BY <2>1, <2>2
<1>4. ASSUME Consolidated(r, list) PROVE r.rows # <<>> /\ Last(r.rows).who = "consolidator"
  <2>1. Len(r.rows) = Len(list) + 1 /\ r.used = a /\ \A i \in 1 .. Len(r.rows) : r.rows[i].who = r.used[i]
    BY <1>3, <1>4 DEF Consolidated
  <2>2. Len(r.rows) \in 1 .. Len(r.rows) /\ r.rows # <<>>
    BY <1>1, <2>1
  <2>3. r.rows[Len(r.rows)].who = "consolidator"
    BY <1>3, <2>1, <2>2
  <2>4. QED BY <2>2, <2>3 DEF Last
<1>5. ASSUME StillAsks(r, list) PROVE Len(r.rows) = Len(list)
  <2>1. Len(r.todo) = 0
    OBVIOUS
  <2>2. QED BY <1>1, <1>5, <2>1 DEF StillAsks
<1>6. "consolidator" \in Range(a)
  <2>1. Len(list) + 1 \in DOMAIN a
    BY <1>1, <1>3
  <2>2. QED BY <1>3, <2>1 DEF Range
<1>7. "consolidator" \in Range(r.used) <=> r.used = a
  BY <1>3, <1>6, SpecialistsOnly
<1>8. QED BY <1>1, <1>3, <1>4, <1>5, <1>7

LEMMA ConsolidatorHeard ==
    ASSUME NEW r, RunSound(r), r.todo = <<>>, "consolidator" \in Range(r.used), r.rows # <<>>, Last(r.rows).who # "consolidator",
           NEW m, MandatesFit(r.rows, m),
           NEW row \in RowSet, row.who = "consolidator", row.prior = Len(r.rows), ~row.prompt.file,
           NEW q, q = [r EXCEPT !.rows = Append(@, row)]
    PROVE  RunSound(q) /\ MandatesFit(q.rows, m)
<1>1. PICK sp \in Seq(Specialists) : /\ r.used = sp \/ r.used = Append(sp, "consolidator")
                                     /\ StillAsks(r, sp) \/ Consolidated(r, sp)
  BY DEF RunSound
<1>2. /\ r.used = Append(sp, "consolidator") /\ StillAsks(r, sp) /\ Len(r.rows) = Len(sp)
      /\ Len(sp) \in Nat /\ Len(r.rows) \in Nat
  BY <1>1, WhoIsLast
<1>3. r \in RunSet /\ r.rows \in Seq(RowSet) /\ Priors(r.rows) /\ row.prior \in {0, Len(r.rows)}
  BY DEF RunSound, RunSet
<1>4. PICK rows : /\ rows = Append(r.rows, row) /\ rows \in Seq(RowSet) /\ Len(rows) = Len(r.rows) + 1
                  /\ rows[Len(r.rows) + 1] = row /\ (\A i \in 1 .. Len(r.rows) : rows[i] = r.rows[i])
                  /\ Priors(rows) /\ MandatesFit(rows, m)
  <2>1. /\ Append(r.rows, row) \in Seq(RowSet) /\ Len(Append(r.rows, row)) = Len(r.rows) + 1
        /\ Append(r.rows, row)[Len(r.rows) + 1] = row /\ (\A i \in 1 .. Len(r.rows) : Append(r.rows, row)[i] = r.rows[i])
        /\ Priors(Append(r.rows, row)) /\ MandatesFit(Append(r.rows, row), m)
    BY <1>3, RowsGrow, Zenon
  <2>2. QED BY <2>1, Zenon
<1>5. q \in RunSet /\ q.rows = rows /\ q.todo = <<>> /\ q.used = r.used
  BY <1>3, <1>4 DEF RunSet
<1>6. PICK k : k \in Nat /\ k = Len(sp) /\ k = Len(r.rows) /\ Len(rows) = k + 1
  BY <1>2, <1>4
<1>7. /\ \A i \in 1 .. k : rows[i].who = sp[i] /\ Append(sp, "consolidator")[i] = sp[i]
      /\ Append(sp, "consolidator")[k + 1] = "consolidator"
  <2>1. \A i \in 1 .. k : rows[i].who = sp[i]
    BY <1>2, <1>4, <1>6 DEF StillAsks
  <2>2. sp \in Seq(Personas) /\ "consolidator" \in Personas
    BY SpecialistsOnly DEF Personas
  <2>3. /\ \A i \in 1 .. Len(sp) : Append(sp, "consolidator")[i] = sp[i]
        /\ Append(sp, "consolidator")[Len(sp) + 1] = "consolidator"
    BY <2>2, AppendProperties
  <2>4. /\ \A i \in 1 .. k : Append(sp, "consolidator")[i] = sp[i]
        /\ Append(sp, "consolidator")[k + 1] = "consolidator"
    BY <1>6, <2>3, Zenon
  <2>5. QED BY <2>1, <2>4
<1>8. \A i \in 1 .. k + 1 : rows[i].who = q.used[i]
  <2>1. \A i \in 1 .. k + 1 : i \in 1 .. k \/ i = k + 1
    BY <1>6
  <2>2. rows[k + 1].who = "consolidator"
    BY <1>4, <1>6
  <2>3. QED BY <1>2, <1>5, <1>7, <2>1, <2>2
<1>9. Consolidated(q, sp)
  BY <1>2, <1>5, <1>6, <1>8, <1>4 DEF Consolidated
<1>10. QED BY <1>1, <1>4, <1>5, <1>9, <1>2 DEF RunSound

\* What is stored of a discussion that is ready.
LEMMA ReadyIsWhole ==
    ASSUME NEW r, RunSound(r), r.todo = <<>>,
           ~("consolidator" \in Range(r.used) /\ r.rows # <<>> /\ Last(r.rows).who # "consolidator"),
           NEW d \in DiscussionSet, d.used = r.used, d.rows = r.rows
    PROVE  d \in Told
<1>1. PICK sp \in Seq(Specialists) : /\ r.used = sp \/ r.used = Append(sp, "consolidator")
                                     /\ StillAsks(r, sp) \/ Consolidated(r, sp)
  BY DEF RunSound
<1>2. Priors(d.rows) /\ d.rows \in Seq(RowSet) /\ d.used \in Seq(Personas) /\ DOMAIN d.rows = 1 .. Len(d.rows)
  BY DEF RunSound, DiscussionSet
<1>3. sp \in Seq(Personas) /\ Len(sp) \in Nat
  BY SpecialistsOnly
<1>4. ASSUME Len(d.rows) = Len(d.used), \A i \in 1 .. Len(d.rows) : d.rows[i].who = d.used[i] PROVE Whole(d)
  <2>1. DOMAIN d.used = 1 .. Len(d.used) /\ d.used = [i \in 1 .. Len(d.used) |-> d.used[i]]
    BY <1>2
  <2>2. [i \in DOMAIN d.rows |-> d.rows[i].who] = [i \in 1 .. Len(d.used) |-> d.used[i]]
    BY <1>2, <1>4
  <2>3. QED BY <2>1, <2>2 DEF Whole
<1>5. CASE Consolidated(r, sp)
  <2>1. Len(r.rows) = Len(sp) + 1 /\ Len(r.used) = Len(sp) + 1
    <3>1. "consolidator" \in Personas
      BY DEF Personas
    <3>2. Len(Append(sp, "consolidator")) = Len(sp) + 1
      BY <1>3, <3>1, AppendProperties
    <3>3. QED BY <1>5, <3>2 DEF Consolidated
  <2>2. \A i \in 1 .. Len(d.rows) : d.rows[i].who = d.used[i]
    BY <1>5 DEF Consolidated
  <2>3. QED BY <1>2, <1>4, <2>1, <2>2 DEF Told, DiscussionSound
<1>6. CASE StillAsks(r, sp) /\ r.used = sp
  <2>1. Len(d.rows) = Len(d.used) /\ \A i \in 1 .. Len(d.rows) : d.rows[i].who = d.used[i]
    BY <1>1, <1>6, WhoIsLast DEF StillAsks
  <2>2. QED BY <1>2, <1>4, <2>1 DEF Told, DiscussionSound
<1>7. CASE StillAsks(r, sp) /\ r.used = Append(sp, "consolidator")
  <2>1. "consolidator" \in Range(r.used) /\ Len(r.rows) = Len(sp)
    BY <1>1, <1>7, WhoIsLast
  <2>2. ASSUME r.rows # <<>> PROVE FALSE
    <3>1. Len(r.rows) \in 1 .. Len(r.rows) /\ Len(r.rows) \in 1 .. Len(sp)
      BY <1>2, <2>1, <2>2
    <3>2. Last(r.rows).who = sp[Len(r.rows)]
      BY <1>7, <3>1 DEF Last, StillAsks
    <3>3. sp[Len(r.rows)] \in Specialists
      BY <3>1
    <3>4. QED BY <2>1, <2>2, <3>2, <3>3 DEF Specialists
  <2>3. sp = <<>>
    <3>1. Len(r.rows) = 0
      BY <2>2
    <3>2. Len(sp) = 0
      BY <2>1, <3>1
    <3>3. QED BY <1>3, <3>2
  <2>4. d.used = <<"consolidator">> /\ d.rows = <<>>
    BY <1>7, <2>2, <2>3
  <2>5. QED BY <1>2, <2>4 DEF Told, DiscussionSound
<1>8. QED BY <1>1, <1>5, <1>6, <1>7


LEMMA CrewConsolidates ==
    ASSUME CrewInv, NEW answer, Consolidate(answer)
    PROVE  CrewInv'
<1>1. PICK r : r = Run /\ crRun = {r} /\ RunSound(r) /\ MandatesFit(r.rows, crCache.mandates) /\ r \in RunSet
               /\ r.todo = <<>>
  BY RunIsOne DEF Consolidate
<1>2. "consolidator" \in Range(r.used) /\ r.rows # <<>> /\ Last(r.rows).who # "consolidator"
  BY <1>1 DEF Consolidate, Unconsolidated
<1>3. PICK f \in BOOLEAN, g \in BOOLEAN : f = FALSE /\ g = (f /\ f)
  OBVIOUS
<1>4. PICK row : /\ row = [who |-> "consolidator", prompt |-> [file |-> f, mandates |-> g], prior |-> Len(r.rows)]
                 /\ row = Heard("consolidator", Prompt(FALSE, FALSE), Len(r.rows))
  BY <1>3 DEF Heard, Prompt
<1>5. row \in RowSet /\ row.who = "consolidator" /\ row.prior = Len(r.rows) /\ ~row.prompt.file
  <2>1. "consolidator" \in Personas /\ Len(r.rows) \in Nat
    BY <1>1 DEF Personas, RunSet
  <2>2. [file |-> f, mandates |-> g] \in [file : BOOLEAN, mandates : BOOLEAN]
    OBVIOUS
  <2>3. row \in RowSet
    BY <1>4, <2>1, <2>2 DEF RowSet
  <2>4. QED BY <1>3, <1>4, <2>3
<1>6. PICK q : q = [r EXCEPT !.rows = Append(@, row)] /\ (crRun' = {} \/ crRun' = {q})
  <2>1. [r EXCEPT !.rows = Append(@, row)] = [Run EXCEPT !.rows = Append(@, Heard("consolidator", Prompt(FALSE, FALSE), Len(@)))]
    BY <1>1, <1>4 DEF RunSet
  <2>2. QED BY <2>1 DEF Consolidate
<1>7. RunSound(q) /\ MandatesFit(q.rows, crCache.mandates)
  <2>1. PICK m : m = crCache.mandates
    OBVIOUS
  <2>2. QED BY <1>1, <1>2, <1>5, <1>6, <2>1, ConsolidatorHeard, Zenon
<1>8. /\ crCache'.agents = LoadedAgents /\ crCache'.mandates = crCache.mandates
      /\ crCache' \in [agents : SUBSET CrewRegistries, mandates : {{}, {TRUE}, {FALSE}}]
  BY LoadedFacts DEF Consolidate, CrewInv
<1>9. crDisk' = crDisk /\ crDb' = crDb /\ crStatus' = crStatus /\ crStale' = crStale
  BY DEF Consolidate
<1>10. QED BY <1>6, <1>7, <1>8, <1>9, DiscussionMoves

\* The database changes, with sound discussions only, whose rows have the mandates.
LEMMA DatabaseMoves ==
    ASSUME CrewInv, crDisk' = crDisk, crCache' = crCache, crStatus' = crStatus, crStale' = crStale,
           crRun' = {} \/ crRun' = crRun,
           NEW a \in Seq(Told), NEW b \in Seq(Told), crDb' = [committed |-> a, pending |-> b],
           \A d \in Range(a) \cup Range(b) : MandatesFit(d.rows, crCache.mandates)
    PROVE  CrewInv'
  BY DEF CrewInv, StatusIsCurrent

LEMMA CrewPersists ==
    ASSUME CrewInv, PersistCrew \/ \E done \in 0 .. 4 : PersistFails(done)
    PROVE  CrewInv'
<1>1. PICK r : r = Run /\ crRun = {r} /\ RunSound(r) /\ MandatesFit(r.rows, crCache.mandates) /\ r \in RunSet
               /\ CrewReady /\ r.todo = <<>>
  BY RunIsOne DEF PersistCrew, PersistFails, CrewReady
<1>2. ~("consolidator" \in Range(r.used) /\ r.rows # <<>> /\ Last(r.rows).who # "consolidator")
  BY <1>1 DEF CrewReady, Unconsolidated
<1>3. PICK m, a, b : /\ m = crCache.mandates /\ a = crDb.committed /\ b = crDb.pending
                     /\ a \in Seq(Told) /\ b \in Seq(Told)
                     /\ \A d \in Range(a) \cup Range(b) : MandatesFit(d.rows, m)
  BY DEF CrewInv
<1>4. a \o b \in Seq(Told) /\ \A d \in Range(a \o b) : MandatesFit(d.rows, m)
  <2>1. a \o b \in Seq(Told)
    BY <1>3
  <2>2. Range(a \o b) = Range(a) \cup Range(b)
    BY <1>3, RangeOfJoin
  <2>3. QED BY <1>3, <2>1, <2>2
<1>5. r.used \in Seq(Personas) /\ r.rows \in Seq(RowSet) /\ Priors(r.rows)
  BY <1>1 DEF RunSound, RunSet
<1>6. /\ crDisk' = crDisk /\ crCache' = crCache /\ crStatus' = crStatus /\ crStale' = crStale /\ crRun' = {}
      /\ \A d \in Range(<<>>) : MandatesFit(d.rows, m)
  BY RangeOfOne DEF PersistCrew, PersistFails
<1>7. CASE PersistCrew
  <2>1. PICK no \in BOOLEAN : no = FALSE
    OBVIOUS
  <2>2. PICK d : d = [used |-> r.used, rows |-> r.rows, torn |-> no] /\ crDb' = [committed |-> Append(a \o b, d), pending |-> <<>>]
    BY <1>1, <1>3, <1>7, <2>1 DEF PersistCrew, Discussion
  <2>3. d \in DiscussionSet /\ d.used = r.used /\ d.rows = r.rows
    BY <1>5, <2>2 DEF DiscussionSet
  <2>4. d \in Told /\ MandatesFit(d.rows, m)
    BY <1>1, <1>2, <1>3, <2>3, ReadyIsWhole
  <2>5. PICK e : e = Append(a \o b, d) /\ e \in Seq(Told) /\ Range(e) = Range(a \o b) \cup {d}
    <3>1. PICK s : s = a \o b /\ s \in Seq(Told)
      BY <1>4
    <3>2. Append(s, d) \in Seq(Told) /\ Range(Append(s, d)) = Range(s) \cup {d}
      <4>1. PICK T : T = Told
        OBVIOUS
      <4>2. s \in Seq(T) /\ d \in T
        BY <2>4, <3>1, <4>1
      <4>3. Append(s, d) \in Seq(T) /\ Range(Append(s, d)) = Range(s) \cup {d}
        BY <4>2, RangeOfAppend
      <4>4. QED BY <4>1, <4>3
    <3>3. QED BY <3>1, <3>2
  <2>6. \A x \in Range(e) \cup Range(<<>>) : MandatesFit(x.rows, m)
    BY <1>4, <1>6, <2>4, <2>5
  <2>7. <<>> \in Seq(Told) /\ crDb' = [committed |-> e, pending |-> <<>>]
    BY <2>2, <2>5
  <2>8. QED BY <1>3, <1>6, <2>5, <2>6, <2>7, DatabaseMoves
<1>8. CASE \E done \in 0 .. 4 : PersistFails(done)
  <2>1. PICK done \in 0 .. 4 : PersistFails(done)
    BY <1>8
  <2>2. PICK yes \in BOOLEAN : yes = TRUE
    OBVIOUS
  <2>3. PICK rows : rows = SubSeq(r.rows, 1, done - 1)
    OBVIOUS
  <2>4. PICK d : d = [used |-> r.used, rows |-> rows, torn |-> yes]
    OBVIOUS
  <2>5. crDb' = [committed |-> a \o b, pending |-> IF done = 0 THEN <<>> ELSE <<d>>] /\ done <= Len(r.rows) + 1
    BY <1>1, <1>3, <2>1, <2>2, <2>3, <2>4 DEF PersistFails, Discussion
  <2>6. CASE done = 0
    <3>1. crDb' = [committed |-> a \o b, pending |-> <<>>] /\ <<>> \in Seq(Told)
      BY <2>5, <2>6
    <3>2. \A x \in Range(a \o b) \cup Range(<<>>) : MandatesFit(x.rows, m)
      BY <1>4, <1>6
    <3>3. QED BY <1>3, <1>4, <1>6, <3>1, <3>2, DatabaseMoves
  <2>7. CASE done # 0
    <3>1. Len(r.rows) \in Nat /\ done - 1 \in 0 .. Len(r.rows)
      BY <1>5, <2>5, <2>7
    <3>2. rows \in Seq(RowSet) /\ Len(rows) = done - 1 /\ \A i \in 1 .. done - 1 : rows[i] = r.rows[i]
      BY <1>5, <2>3, <3>1
    <3>3. \A i \in 1 .. done - 1 : i \in 1 .. Len(r.rows)
      BY <3>1
    <3>4. Priors(rows) /\ MandatesFit(rows, m)
      BY <1>1, <1>3, <1>5, <3>2, <3>3 DEF Priors, MandatesFit
    <3>5. d \in Told /\ d.rows = rows
      <4>1. d \in DiscussionSet /\ d.rows = rows /\ d.torn = yes
        BY <1>5, <2>4, <3>2 DEF DiscussionSet
      <4>2. QED BY <2>2, <3>4, <4>1 DEF Told, DiscussionSound
    <3>6. PICK e : e = <<d>> /\ e \in Seq(Told) /\ Range(e) = {d} /\ crDb' = [committed |-> a \o b, pending |-> e]
      <4>1. Range(<<d>>) = {d}
        BY RangeOfOne
      <4>2. <<d>> \in Seq(Told)
        BY <3>5
      <4>3. crDb' = [committed |-> a \o b, pending |-> <<d>>]
        BY <2>5, <2>7
      <4>4. QED BY <4>1, <4>2, <4>3
    <3>7. \A x \in Range(a \o b) \cup Range(e) : MandatesFit(x.rows, m)
      BY <1>4, <3>4, <3>5, <3>6
    <3>8. QED BY <1>3, <1>4, <1>6, <3>6, <3>7, DatabaseMoves
  <2>8. QED BY <2>6, <2>7
<1>9. QED BY <1>7, <1>8

LEMMA CrewSteps ==
    ASSUME CrewInv, CrewNext
    PROVE  CrewInv'
<1>1. CASE CrewRaises \/ CrewUnstored
  BY <1>1, DiscussionMoves DEF CrewRaises, CrewUnstored, CrewInv
<1>2. CASE CrewCloses
  <2>1. PICK a : a = crDb.committed /\ a \in Seq(Told) /\ crDb' = [committed |-> a, pending |-> <<>>]
    BY <1>2 DEF CrewCloses, CrewInv
  <2>2. <<>> \in Seq(Told) /\ \A d \in Range(a) \cup Range(<<>>) : MandatesFit(d.rows, crCache.mandates)
    <3>1. Range(<<>>) = {}
      BY RangeOfOne
    <3>2. \A d \in Range(a) : MandatesFit(d.rows, crCache.mandates)
      BY <2>1 DEF CrewInv
    <3>3. <<>> \in Seq(Told)
      OBVIOUS
    <3>4. QED BY <3>1, <3>2, <3>3
  <2>3. QED BY <1>2, <2>1, <2>2, DatabaseMoves DEF CrewCloses
<1>3. CASE ReloadRegistry
  <2>1. /\ crDisk' = crDisk /\ crRun' = crRun /\ crDb' = crDb /\ crStatus' = crStatus
        /\ crCache'.mandates = crCache.mandates /\ crCache'.agents = {crDisk.agents} \ {Broken}
        /\ crCache' \in [agents : SUBSET CrewRegistries, mandates : {{}, {TRUE}, {FALSE}}]
    BY <1>3 DEF ReloadRegistry, CrewInv
  <2>2. QED BY <2>1 DEF CrewInv, StatusIsCurrent
<1>4. CASE Status
  <2>1. /\ crDisk' = crDisk /\ crRun' = crRun /\ crDb' = crDb /\ crStale' = crStale
        /\ crCache'.mandates = crCache.mandates /\ crCache'.agents = LoadedAgents
        /\ crCache' \in [agents : SUBSET CrewRegistries, mandates : {{}, {TRUE}, {FALSE}}]
    BY <1>4, LoadedFacts DEF Status, CrewInv
  <2>2. StatusIsCurrent'
    <3>1. ASSUME NEW s \in crStatus' PROVE s.roster = s.hash \/ s.stale
      <4>1. PICK agents \in LoadedAgents : s = [roster |-> agents, hash |-> crDisk.agents, stale |-> crStale]
        BY <1>4, <3>1 DEF Status
      <4>2. ~crStale => agents = crDisk.agents
        BY LoadedFacts
      <4>3. QED BY <4>1, <4>2
    <3>2. QED BY <3>1 DEF StatusIsCurrent
  <2>3. ~crStale => crCache'.agents \subseteq {crDisk.agents}
    BY <2>1, LoadedFacts
  <2>4. QED BY <2>1, <2>2, <2>3 DEF CrewInv
<1>5. CASE EditDisk
  <2>1. /\ crDisk' \in [agents : CrewRegistries, mandates : BOOLEAN]
        /\ crStale' = (crStale \/ (crCache.agents # {} /\ crDisk'.agents # crDisk.agents))
        /\ crCache' = crCache /\ crRun' = crRun /\ crDb' = crDb /\ crStatus' = crStatus
    BY <1>5 DEF EditDisk
  <2>2. ~crStale' => crCache.agents \subseteq {crDisk'.agents}
    BY <2>1 DEF CrewInv
  <2>3. QED BY <2>1, <2>2 DEF CrewInv, StatusIsCurrent
<1>6. QED BY <1>1, <1>2, <1>3, <1>4, <1>5, CrewBegins, PersonaAnswers, CrewConsolidates, CrewPersists DEF CrewNext

\* What is stored and reported of discussions, with registries edited and reloaded, inserts
\* that fail and connections that close (run_crew, get_system_status).
THEOREM DiscussionsSound == CrewRunSpec => [](DiscussionsAreWhole /\ StatusIsCurrent /\ MandatesAreShared)
<1>1. CrewInit => CrewInv
  <2>1. Range(<<>>) = {}
    BY RangeOfOne
  <2>2. <<>> \in Seq(Told)
    OBVIOUS
  <2>3. QED BY <2>1, <2>2 DEF CrewInit, CrewInv, StatusIsCurrent
<1>2. CrewInv /\ [CrewNext]_crVars => CrewInv'
  <2>1. ASSUME CrewInv, UNCHANGED crVars PROVE CrewInv'
    BY <2>1 DEF crVars, CrewInv, StatusIsCurrent
  <2>2. QED BY <2>1, CrewSteps
<1>3. CrewInv => DiscussionsAreWhole /\ StatusIsCurrent /\ MandatesAreShared
  <2>1. SUFFICES ASSUME CrewInv PROVE DiscussionsAreWhole /\ MandatesAreShared
    BY DEF CrewInv
  <2>2. DiscussionsAreWhole
    <3>1. SUFFICES ASSUME NEW i \in DOMAIN crDb.committed, NEW d, d = crDb.committed[i]
                   PROVE  /\ d.torn \/ Whole(d) \/ (d.used = <<"consolidator">> /\ d.rows = <<>>)
                          /\ \A j \in DOMAIN d.rows : d.rows[j].prior \in {0, j - 1}
      BY DEF DiscussionsAreWhole
    <3>2. d \in Told
      BY <2>1, <3>1 DEF CrewInv
    <3>3. DOMAIN d.rows = 1 .. Len(d.rows)
      BY <3>2 DEF Told, DiscussionSet
    <3>4. QED BY <3>2, <3>3 DEF Told, DiscussionSound, Priors
  <2>3. PICK m : m = crCache.mandates
    OBVIOUS
  <2>4. ASSUME NEW d \in Range(crDb.committed) \cup crRun, NEW a \in Range(d.rows), a.prompt.file
        PROVE  m = {a.prompt.mandates}
    <3>1. MandatesFit(d.rows, m)
      BY <2>1, <2>3, <2>4 DEF CrewInv
    <3>2. d.rows \in Seq(RowSet)
      <4>1. CASE d \in crRun
        BY <2>1, <4>1 DEF CrewInv, RunSound, RunSet
      <4>2. CASE d \in Range(crDb.committed)
        <5>1. d \in Told
          BY <2>1, <4>2 DEF CrewInv, Range
        <5>2. QED BY <5>1 DEF Told, DiscussionSet
      <4>3. QED BY <2>4, <4>1, <4>2
    <3>3. PICK i \in 1 .. Len(d.rows) : a = d.rows[i]
      BY <2>4, <3>2 DEF Range
    <3>4. QED BY <2>4, <3>1, <3>3 DEF MandatesFit
  <2>5. MandatesAreShared
    <3>1. ASSUME NEW a, NEW b, a.prompt.file, b.prompt.file,
                 a \in UNION {Range(d.rows) : d \in Range(crDb.committed) \cup crRun},
                 b \in UNION {Range(d.rows) : d \in Range(crDb.committed) \cup crRun}
          PROVE  a.prompt.mandates = b.prompt.mandates
      <4>1. m = {a.prompt.mandates} /\ m = {b.prompt.mandates}
        BY <2>4, <3>1
      <4>2. QED BY <4>1
    <3>2. QED BY <3>1 DEF MandatesAreShared
  <2>6. QED BY <2>2, <2>5
<1>4. QED BY <1>1, <1>2, <1>3, PTL DEF CrewRunSpec

-----------------------------------------------------------------------------
(* Reviews by the hats. *)

\* A sum of natural numbers is zero if and only if each of them is.
LEMMA SumZero ==
    ASSUME NEW f, IsFiniteSet(DOMAIN f), \A x \in DOMAIN f : f[x] \in Nat
    PROVE  /\ SumFunction(f) \in Nat
           /\ SumFunction(f) = 0 <=> \A x \in DOMAIN f : f[x] = 0
<1>1. PICK D : D = DOMAIN f /\ IsFiniteSet(D) /\ (\A x \in D : f[x] \in Nat)
  OBVIOUS
<1>2. SumFunctionOnSet(f, D) \in Nat
  BY <1>1, SumAgree
<1>3. ASSUME NEW x \in D, SumFunctionOnSet(f, D) = 0 PROVE f[x] = 0
  <2>1. SumFunctionOnSet(f, D) = f[x] + SumFunctionOnSet(f, D \ {x})
    BY <1>1, SumRemove
  <2>2. IsFiniteSet(D \ {x}) /\ \A y \in D \ {x} : f[y] \in Nat
    BY <1>1, FS_RemoveElement
  <2>3. SumFunctionOnSet(f, D \ {x}) \in Nat
    BY <2>2, SumAgree
  <2>4. QED BY <1>1, <1>3, <2>1, <2>3
<1>4. ASSUME \A x \in D : f[x] = 0 PROVE SumFunctionOnSet(f, D) = 0
  <2> DEFINE T == {n \in Nat : \A s \in Small(D, n) : SumFunctionOnSet(f, s) = 0}
  <2>1. 0 \in T
    <3>1. Small(D, 0) = {{}}
      BY <1>1, SmallSets
    <3>2. QED BY <3>1, SumEmpty
  <2>2. ASSUME NEW n \in Nat, n \in T PROVE n + 1 \in T
    <3> SUFFICES ASSUME NEW s \in Small(D, n + 1) PROVE SumFunctionOnSet(f, s) = 0
      OBVIOUS
    <3>1. s \in SUBSET D
      BY DEF Small
    <3>2. CASE s = {}
      BY <3>2, SumEmpty
    <3>3. ASSUME NEW x \in s PROVE SumFunctionOnSet(f, s) = 0
      <4>1. IsFiniteSet(s) /\ (\A y \in s : f[y] \in Nat) /\ f[x] = 0
        BY <1>1, <1>4, <3>1, FS_Subset
      <4>2. SumFunctionOnSet(f, s) = f[x] + SumFunctionOnSet(f, s \ {x})
        BY <4>1, SumRemove
      <4>3. s \ {x} \in Small(D, n)
        BY <1>1, SmallSets
      <4>4. SumFunctionOnSet(f, s \ {x}) = 0
        BY <2>2, <4>3
      <4>5. QED BY <4>1, <4>2, <4>4
    <3>4. QED BY <3>2, <3>3
  <2>3. Nat \subseteq T
    <3> HIDE DEF T
    <3>1. QED BY <2>1, <2>2, NatSetInduction
  <2>4. Cardinality(D) \in T /\ D \in Small(D, Cardinality(D))
    BY <1>1, <2>3, FS_CardinalityType, SmallSets
  <2>5. QED BY <2>4
<1>5. QED BY <1>1, <1>2, <1>3, <1>4 DEF SumFunction

FindingCounts == [critical : Nat, high : Nat, other : Nat]
Reports == [kind : {"list", "prose", "object", "empty"}, said : FindingCounts, findings : FindingCounts, down : BOOLEAN]
ReportFits(r) ==
  /\ r.kind = "prose" => r.said = NoFindings /\ r.findings = [NoFindings EXCEPT !.other = 1]
  /\ r.kind # "prose" => r.findings = r.said
  /\ r.down => r.kind = "empty"
FitReports == {r \in Reports : ReportFits(r)}

HatsInv ==
  /\ hrRun # {} => \E r : hrRun = {r} /\ r.reports \in Seq(FitReports)
  /\ hrReview # NoReview =>
       /\ hrReview.reports \in Seq(FitReports) /\ hrReview.verdict = Verdict(hrReview.reports)
       /\ CriticalIn(hrReview.reports) > 0 => hrReview.exit = 1

\* What an answer becomes fits.
LEMMA AnswerFits ==
    ASSUME NEW endpoints, NEW up, NEW answer \in Answers, NEW heard, heard = Answered(endpoints, up, answer)
    PROVE  [kind |-> heard.kind, said |-> heard.of, findings |-> Findings(heard),
            down |-> up \cap Range(endpoints) = {}] \in FitReports
<1>1. PICK d \in BOOLEAN : d = (up \cap Range(endpoints) = {})
  OBVIOUS
<1>2. d => heard = [kind |-> "empty", of |-> NoFindings]
  <2>1. ASSUME d PROVE ~\E i \in DOMAIN endpoints : endpoints[i] \in up
    BY <1>1, <2>1 DEF Range
  <2>2. QED BY <2>1 DEF Answered
<1>3. heard = answer \/ heard = [kind |-> "empty", of |-> NoFindings]
  BY DEF Answered
<1>4. NoFindings \in FindingCounts /\ [NoFindings EXCEPT !.other = 1] \in FindingCounts
  BY DEF NoFindings, FindingCounts
<1>5. /\ heard.kind \in {"list", "prose", "object", "empty"} /\ heard.of \in FindingCounts
      /\ heard.kind # "list" => heard.of = NoFindings
  <2>1. CASE heard = answer
    <3>1. CASE \E n \in HatAnswers : answer = [kind |-> "list", of |-> n]
      BY <2>1, <3>1, CrewAssumption DEF FindingCounts
    <3>2. CASE \E k \in {"prose", "object", "empty"} : answer = [kind |-> k, of |-> NoFindings]
      BY <1>4, <2>1, <3>2
    <3>3. QED BY <3>1, <3>2 DEF Answers
  <2>2. QED BY <1>3, <1>4, <2>1
<1>6. PICK g : g = Findings(heard) /\ g \in FindingCounts /\ g = (IF heard.kind = "prose" THEN [NoFindings EXCEPT !.other = 1] ELSE heard.of)
  BY <1>4, <1>5 DEF Findings
<1>7. [kind |-> heard.kind, said |-> heard.of, findings |-> g, down |-> d] \in FitReports
  <2>1. PICK r : r = [kind |-> heard.kind, said |-> heard.of, findings |-> g, down |-> d]
    OBVIOUS
  <2>2. r \in Reports
    BY <1>5, <1>6, <2>1 DEF Reports
  <2>3. ReportFits(r)
    BY <1>2, <1>5, <1>6, <2>1 DEF ReportFits
  <2>4. QED BY <2>1, <2>2, <2>3 DEF FitReports
<1>8. QED BY <1>1, <1>6, <1>7

LEMMA HatsSteps ==
    ASSUME HatsInv, HatsNext
    PROVE  HatsInv'
<1>1. ASSUME NEW list \in HatLists, BeginReview(list) PROVE HatsInv'
  <2>1. <<>> \in Seq(FitReports)
    OBVIOUS
  <2>2. \E r : hrRun' = {r} /\ r.reports \in Seq(FitReports)
    <3>1. PICK r : r = [todo |-> list, reports |-> <<>>]
      OBVIOUS
    <3>2. hrRun' = {r} /\ r.reports = <<>>
      BY <1>1, <3>1 DEF BeginReview
    <3>3. QED BY <2>1, <3>2
  <2>3. hrReview' = hrReview
    BY <1>1 DEF BeginReview
  <2>4. QED BY <2>2, <2>3 DEF HatsInv
<1>2. ASSUME NEW endpoints \in Endpoints, NEW up \in SUBSET {"primary", "secondary"}, NEW answer \in Answers,
             HearHat(endpoints, up, answer)
      PROVE  HatsInv'
  <2>1. PICK h : hrRun = {h} /\ h.reports \in Seq(FitReports) /\ Hats = h
    BY <1>2 DEF HearHat, HatsInv, Hats
  <2>2. PICK heard : heard = Answered(endpoints, up, answer)
    OBVIOUS
  <2>3. PICK report \in FitReports :
          report = [kind |-> heard.kind, said |-> heard.of, findings |-> Findings(heard), down |-> up \cap Range(endpoints) = {}]
    BY <2>2, AnswerFits
  <2>4. /\ hrReview' = hrReview
        /\ hrRun' = {[todo |-> Tail(h.todo), reports |-> IF Head(h.todo) = "nohat" THEN h.reports ELSE Append(h.reports, report)]}
    BY <1>2, <2>1, <2>2, <2>3 DEF HearHat
  <2>5. Append(h.reports, report) \in Seq(FitReports)
    BY <2>1, AppendProperties
  <2>6. \E r : hrRun' = {r} /\ r.reports \in Seq(FitReports)
    <3>1. PICK s : s = IF Head(h.todo) = "nohat" THEN h.reports ELSE Append(h.reports, report)
      OBVIOUS
    <3>2. PICK r : r = [todo |-> Tail(h.todo), reports |-> s]
      OBVIOUS
    <3>3. hrRun' = {r} /\ r.reports = s
      BY <2>4, <3>1, <3>2
    <3>4. s \in Seq(FitReports)
      BY <2>1, <2>5, <3>1
    <3>5. QED BY <3>3, <3>4
  <2>7. QED BY <2>4, <2>6 DEF HatsInv
<1>3. ASSUME NEW how \in {"printed", "posted", "http error"}, EndReview(how) PROVE HatsInv'
  <2>1. PICK h : hrRun = {h} /\ h.reports \in Seq(FitReports) /\ Hats = h
    BY <1>3 DEF EndReview, HatsInv, Hats
  <2>2. PICK c, v : c = CriticalIn(h.reports) /\ v = Verdict(h.reports)
    OBVIOUS
  <2>3. hrRun' = {} /\ hrReview' = [reports |-> h.reports, verdict |-> v, posted |-> how = "posted",
                  exit |-> IF how = "http error" \/ c > 0 THEN 1 ELSE 0]
    BY <1>3, <2>1, <2>2 DEF EndReview
  <2>4. hrReview'.reports = h.reports /\ hrReview'.verdict = v /\ (c > 0 => hrReview'.exit = 1)
    BY <2>3
  <2>5. CriticalIn(hrReview'.reports) > 0 => hrReview'.exit = 1
    BY <2>2, <2>4
  <2>6. hrReview'.verdict = Verdict(hrReview'.reports)
    BY <2>2, <2>4
  <2>7. QED BY <2>1, <2>3, <2>4, <2>5, <2>6 DEF HatsInv
<1>4. ASSUME NextReview PROVE HatsInv'
  BY <1>4 DEF NextReview, HatsInv
<1>5. QED BY <1>1, <1>2, <1>3, <1>4 DEF HatsNext

\* The verdict on a sequence of reports.
LEMMA VerdictIs ==
    ASSUME NEW reports \in Seq(FitReports)
    PROVE  /\ Verdict(reports) = "BLOCK" <=> \E i \in 1 .. Len(reports) : reports[i].said.critical > 0
           /\ CriticalIn(reports) > 0 <=> \E i \in 1 .. Len(reports) : reports[i].said.critical > 0
           /\ Verdict(reports) = "APPROVE" =>
                \A i \in 1 .. Len(reports) : reports[i].kind # "prose" /\ reports[i].said = NoFindings
<1>1. PICK D : D = DOMAIN reports /\ D = 1 .. Len(reports) /\ IsFiniteSet(D)
  <2>1. DOMAIN reports = 1 .. Len(reports) /\ Len(reports) \in Nat
    OBVIOUS
  <2>2. IsFiniteSet(1 .. Len(reports))
    BY <2>1, FS_Interval
  <2>3. QED BY <2>1, <2>2
<1>2. ASSUME NEW i \in D
      PROVE  /\ reports[i].findings \in FindingCounts /\ reports[i].said \in FindingCounts /\ ReportFits(reports[i])
             /\ reports[i].said.critical = reports[i].findings.critical
  <2>1. PICK r : r = reports[i] /\ r \in FitReports
    BY <1>1, <1>2
  <2>2. r \in Reports /\ ReportFits(r)
    BY <2>1 DEF FitReports
  <2>3. r.findings \in FindingCounts /\ r.said \in FindingCounts
    BY <2>2 DEF Reports
  <2>4. r.said.critical = r.findings.critical
    BY <2>2 DEF ReportFits, NoFindings
  <2>5. QED BY <2>1, <2>2, <2>3, <2>4
<1>3. PICK f : f = [i \in D |-> reports[i].findings.critical]
  OBVIOUS
<1>4. PICK g : g = [i \in D |-> LET k == reports[i].findings IN k.critical + k.high + k.other]
  OBVIOUS
<1>5. DOMAIN f = D /\ DOMAIN g = D
  BY <1>3, <1>4
<1>6. ASSUME NEW i \in D
      PROVE  /\ f[i] \in Nat /\ g[i] \in Nat /\ f[i] = reports[i].said.critical
             /\ g[i] = 0 => reports[i].findings = NoFindings
  <2>1. PICK k \in FindingCounts : k = reports[i].findings
    BY <1>2
  <2>2. f[i] = k.critical /\ g[i] = k.critical + k.high + k.other
    BY <1>3, <1>4, <2>1
  <2>3. k.critical \in Nat /\ k.high \in Nat /\ k.other \in Nat
    BY DEF FindingCounts
  <2>4. g[i] = 0 => k.critical = 0 /\ k.high = 0 /\ k.other = 0
    BY <2>2, <2>3
  <2>5. k.critical = 0 /\ k.high = 0 /\ k.other = 0 => k = NoFindings
    BY DEF FindingCounts, NoFindings
  <2>6. f[i] \in Nat /\ g[i] \in Nat
    BY <2>2, <2>3
  <2>7. f[i] = reports[i].said.critical
    BY <1>2, <1>3
  <2>8. g[i] = 0 => reports[i].findings = NoFindings
    BY <2>1, <2>4, <2>5
  <2>9. QED BY <2>6, <2>7, <2>8
<1>7. /\ SumFunction(f) \in Nat /\ SumFunction(g) \in Nat
      /\ SumFunction(f) = 0 <=> \A i \in D : f[i] = 0
      /\ SumFunction(g) = 0 <=> \A i \in D : g[i] = 0
  <2>1. SumFunction(f) \in Nat /\ (SumFunction(f) = 0 <=> \A i \in D : f[i] = 0)
    BY <1>1, <1>5, <1>6, SumZero
  <2>2. SumFunction(g) \in Nat /\ (SumFunction(g) = 0 <=> \A i \in D : g[i] = 0)
    BY <1>1, <1>5, <1>6, SumZero
  <2>3. QED BY <2>1, <2>2
<1>8. CriticalIn(reports) = SumFunction(f) /\ FoundIn(reports) = SumFunction(g)
  BY <1>1, <1>3, <1>4 DEF CriticalIn, FoundIn
<1>9. PICK c \in Nat, t \in Nat : c = SumFunction(f) /\ t = SumFunction(g)
  BY <1>7
<1>10. /\ Verdict(reports) = "BLOCK" <=> c > 0
       /\ Verdict(reports) = "APPROVE" => c = 0 /\ t = 0
  <2>1. Verdict(reports) = Recommendation(c, t)
    BY <1>8, <1>9 DEF Verdict
  <2>2. CASE c > 0
    <3>1. Recommendation(c, t) = "BLOCK"
      BY <2>2 DEF Recommendation
    <3>2. QED BY <2>1, <2>2, <3>1
  <2>3. CASE ~(c > 0)
    <3>1. Recommendation(c, t) # "BLOCK" /\ (Recommendation(c, t) = "APPROVE" => ~(t > 5) /\ ~(t > 0))
      BY <2>3 DEF Recommendation
    <3>2. c = 0 /\ (~(t > 0) => t = 0)
      BY <2>3
    <3>3. QED BY <2>1, <2>3, <3>1, <3>2
  <2>4. QED BY <2>2, <2>3
<1>11. c > 0 <=> \E i \in D : reports[i].said.critical > 0
  <2>1. c > 0 <=> \E i \in D : f[i] # 0
    BY <1>7, <1>9
  <2>2. \A i \in D : f[i] # 0 <=> reports[i].said.critical > 0
    BY <1>6
  <2>3. QED BY <2>1, <2>2
<1>12. ASSUME t = 0, NEW i \in D PROVE reports[i].kind # "prose" /\ reports[i].said = NoFindings
  <2>1. g[i] = 0
    BY <1>7, <1>9, <1>12
  <2>2. reports[i].findings = NoFindings /\ ReportFits(reports[i])
    BY <1>2, <1>6, <2>1
  <2>3. NoFindings # [NoFindings EXCEPT !.other = 1]
    BY DEF NoFindings
  <2>4. QED BY <2>2, <2>3 DEF ReportFits
<1>13. QED BY <1>1, <1>8, <1>9, <1>10, <1>11, <1>12

\* What a review of a pull request says, with hats that are down or answer with prose.
LEMMA ReviewsSound == HatsSpec => []ReviewIsHeard
<1>1. HatsInit => HatsInv
  BY DEF HatsInit, HatsInv
<1>2. HatsInv /\ [HatsNext]_hrVars => HatsInv'
  <2>1. ASSUME HatsInv, UNCHANGED hrVars PROVE HatsInv'
    BY <2>1 DEF hrVars, HatsInv
  <2>2. QED BY <2>1, HatsSteps
<1>3. HatsInv => ReviewIsHeard
  <2>1. SUFFICES ASSUME HatsInv, hrReview # NoReview,
                        NEW reports, reports = Range(hrReview.reports),
                        NEW blocks \in BOOLEAN, blocks = \E r \in reports : r.said.critical > 0
                 PROVE  /\ blocks <=> hrReview.verdict = "BLOCK"
                        /\ blocks => hrReview.exit = 1
                        /\ hrReview.verdict = "APPROVE" => \A r \in reports : r.kind # "prose" /\ r.said = NoFindings
                        /\ \A r \in reports : r.down => r.kind = "empty"
    BY DEF ReviewIsHeard
  <2>2. PICK s \in Seq(FitReports) : s = hrReview.reports
    BY <2>1 DEF HatsInv
  <2>3. reports = {s[i] : i \in 1 .. Len(s)}
    BY <2>1, <2>2 DEF Range
  <2>4. /\ Verdict(s) = "BLOCK" <=> \E i \in 1 .. Len(s) : s[i].said.critical > 0
        /\ CriticalIn(s) > 0 <=> \E i \in 1 .. Len(s) : s[i].said.critical > 0
        /\ Verdict(s) = "APPROVE" => \A i \in 1 .. Len(s) : s[i].kind # "prose" /\ s[i].said = NoFindings
    BY VerdictIs
  <2>5. hrReview.verdict = Verdict(s) /\ (CriticalIn(s) > 0 => hrReview.exit = 1)
    BY <2>1, <2>2 DEF HatsInv
  <2>6. blocks <=> \E i \in 1 .. Len(s) : s[i].said.critical > 0
    BY <2>1, <2>3
  <2>7. \A r \in reports : r.down => r.kind = "empty"
    <3>1. ASSUME NEW i \in 1 .. Len(s) PROVE s[i].down => s[i].kind = "empty"
      <4>1. s[i] \in FitReports
        OBVIOUS
      <4>2. QED BY <4>1 DEF FitReports, ReportFits
    <3>2. QED BY <2>3, <3>1
  <2>8. hrReview.verdict = "APPROVE" => \A r \in reports : r.kind # "prose" /\ r.said = NoFindings
    BY <2>3, <2>4, <2>5
  <2>9. QED BY <2>4, <2>5, <2>6, <2>7, <2>8
<1>4. QED BY <1>1, <1>2, <1>3, PTL DEF HatsSpec

-----------------------------------------------------------------------------
(* Dream cycles. *)

ExperienceSet == [topic : Topics, ok : BOOLEAN]

\* The experiences on some topics are those on each of them.
LEMMA TopicsAddUp ==
    ASSUME NEW es \in Seq(ExperienceSet), NEW C \in SUBSET Topics, NEW c, \A t \in C : c[t] = Cardinality(On(es, {t}))
    PROVE  /\ IsFiniteSet(On(es, C)) /\ Cardinality(On(es, C)) \in Nat
           /\ SumFunctionOnSet(c, C) = Cardinality(On(es, C))
<1>1. PICK D : D = DOMAIN es /\ IsFiniteSet(D)
  <2>1. DOMAIN es = 1 .. Len(es) /\ Len(es) \in Nat
    OBVIOUS
  <2>2. IsFiniteSet(1 .. Len(es))
    BY <2>1, FS_Interval
  <2>3. QED BY <2>1, <2>2
<1>2. \A S : IsFiniteSet(On(es, S)) /\ Cardinality(On(es, S)) \in Nat
  <2>1. \A S : On(es, S) \subseteq D
    BY <1>1 DEF On
  <2>2. QED BY <1>1, <2>1, FS_Subset, FS_CardinalityType
<1>3. IsFiniteSet(C)
  <2>1. IsFiniteSet({"a", "b"})
    <3>1. IsFiniteSet({"a"})
      BY FS_Singleton
    <3>2. IsFiniteSet({"a"} \cup {"b"})
      BY <3>1, FS_AddElement
    <3>3. {"a", "b"} = {"a"} \cup {"b"}
      OBVIOUS
    <3>4. QED BY <3>2, <3>3
  <2>2. QED BY <2>1, FS_Subset DEF Topics
<1> DEFINE T == {n \in Nat : \A s \in Small(C, n) : SumFunctionOnSet(c, s) = Cardinality(On(es, s))}
<1>4. 0 \in T
  <2>1. Small(C, 0) = {{}}
    BY <1>3, SmallSets
  <2>2. On(es, {}) = {}
    BY DEF On
  <2>3. QED BY <2>1, <2>2, SumEmpty, FS_EmptySet
<1>5. ASSUME NEW n \in Nat, n \in T PROVE n + 1 \in T
  <2> SUFFICES ASSUME NEW s \in Small(C, n + 1) PROVE SumFunctionOnSet(c, s) = Cardinality(On(es, s))
    OBVIOUS
  <2>1. s \in SUBSET C
    BY DEF Small
  <2>2. CASE s = {}
    <3>1. On(es, {}) = {}
      BY DEF On
    <3>2. QED BY <2>2, <3>1, SumEmpty, FS_EmptySet
  <2>3. ASSUME NEW x \in s PROVE SumFunctionOnSet(c, s) = Cardinality(On(es, s))
    <3>1. IsFiniteSet(s) /\ (\A y \in s : c[y] \in Nat) /\ c[x] = Cardinality(On(es, {x}))
      BY <1>2, <1>3, <2>1, FS_Subset
    <3>2. SumFunctionOnSet(c, s) = c[x] + SumFunctionOnSet(c, s \ {x})
      BY <3>1, SumRemove
    <3>3. s \ {x} \in Small(C, n)
      BY <1>3, SmallSets
    <3>4. SumFunctionOnSet(c, s \ {x}) = Cardinality(On(es, s \ {x}))
      BY <1>5, <3>3
    <3>5. PICK P, Q : P = On(es, {x}) /\ Q = On(es, s \ {x}) /\ On(es, s) = P \cup Q /\ P \cap Q = {}
      <4>1. On(es, s) = On(es, {x}) \cup On(es, s \ {x}) /\ On(es, {x}) \cap On(es, s \ {x}) = {}
        BY DEF On
      <4>2. QED BY <4>1
    <3>6. IsFiniteSet(P) /\ IsFiniteSet(Q) /\ Cardinality(P) \in Nat /\ Cardinality(Q) \in Nat
      BY <1>2, <3>5
    <3>7. Cardinality(P \cup Q) = Cardinality(P) + Cardinality(Q)
      <4>1. Cardinality(P \cup Q) = Cardinality(P) + Cardinality(Q) - Cardinality(P \cap Q)
        BY <3>6, FS_Union
      <4>2. Cardinality(P \cap Q) = 0
        BY <3>5, FS_EmptySet
      <4>3. QED BY <3>6, <4>1, <4>2
    <3>8. QED BY <3>1, <3>2, <3>4, <3>5, <3>7
  <2>4. QED BY <2>2, <2>3
<1>6. Nat \subseteq T
  <2> HIDE DEF T
  <2>1. QED BY <1>4, <1>5, NatSetInduction
<1>7. Cardinality(C) \in T /\ C \in Small(C, Cardinality(C))
  BY <1>3, <1>6, FS_CardinalityType, SmallSets
<1>8. QED BY <1>2, <1>7

\* Each experience is behind a rule, or is alone in its topic.
LEMMA ExperienceCounted ==
    ASSUME NEW es \in Seq(ExperienceSet)
    PROVE  /\ Len(es) = SumFunction(RulesOf(es)) + Cardinality(On(es, Topics \ Clusters(es)))
           /\ Cardinality(On(es, Topics \ Clusters(es))) \in Nat
           /\ RulesOf(es) \in [Clusters(es) -> Nat] /\ Clusters(es) \in SUBSET Topics
           /\ SumFunction(RulesOf(es)) \in Nat
<1>1. PICK C, R : C = Clusters(es) /\ R = RulesOf(es) /\ C \in SUBSET Topics
  BY DEF Clusters
<1>2. DOMAIN R = C /\ \A t \in C : R[t] = Cardinality(On(es, {t}))
  BY <1>1 DEF RulesOf
<1>3. /\ IsFiniteSet(On(es, C)) /\ Cardinality(On(es, C)) \in Nat
      /\ SumFunctionOnSet(R, C) = Cardinality(On(es, C))
  BY <1>1, <1>2, TopicsAddUp
<1>4. \A S \in SUBSET Topics : IsFiniteSet(On(es, S)) /\ Cardinality(On(es, S)) \in Nat
  <2>1. ASSUME NEW S \in SUBSET Topics PROVE IsFiniteSet(On(es, S)) /\ Cardinality(On(es, S)) \in Nat
    <3>1. PICK c : c = [t \in S |-> Cardinality(On(es, {t}))]
      OBVIOUS
    <3>2. \A t \in S : c[t] = Cardinality(On(es, {t}))
      BY <3>1
    <3>3. QED BY <3>2, TopicsAddUp
  <2>2. QED BY <2>1
<1>5. R \in [C -> Nat]
  <2>1. \A t \in C : {t} \in SUBSET Topics
    BY <1>1
  <2>2. \A t \in C : Cardinality(On(es, {t})) \in Nat
    BY <1>4, <2>1
  <2>3. R = [t \in C |-> Cardinality(On(es, {t}))]
    BY <1>1 DEF RulesOf
  <2>4. QED BY <2>2, <2>3
<1>6. PICK P, Q : P = On(es, C) /\ Q = On(es, Topics \ C) /\ P \cup Q = 1 .. Len(es) /\ P \cap Q = {}
  <2>1. \A i \in 1 .. Len(es) : es[i].topic \in Topics
    <3>1. \A i \in 1 .. Len(es) : es[i] \in ExperienceSet
      OBVIOUS
    <3>2. \A e \in ExperienceSet : e.topic \in Topics
      BY DEF ExperienceSet
    <3>3. QED BY <3>1, <3>2
  <2>2. DOMAIN es = 1 .. Len(es)
    OBVIOUS
  <2>3. On(es, C) \cup On(es, Topics \ C) = 1 .. Len(es) /\ On(es, C) \cap On(es, Topics \ C) = {}
    BY <1>1, <2>1, <2>2 DEF On
  <2>4. QED BY <2>3
<1>7. IsFiniteSet(P) /\ IsFiniteSet(Q) /\ Cardinality(P) \in Nat /\ Cardinality(Q) \in Nat
  BY <1>3, <1>4, <1>6
<1>8. Cardinality(P \cup Q) = Cardinality(P) + Cardinality(Q)
  <2>1. Cardinality(P \cup Q) = Cardinality(P) + Cardinality(Q) - Cardinality(P \cap Q)
    BY <1>7, FS_Union
  <2>2. Cardinality(P \cap Q) = 0
    BY <1>6, FS_EmptySet
  <2>3. QED BY <1>7, <2>1, <2>2
<1>9. Cardinality(1 .. Len(es)) = Len(es)
  <2>1. Len(es) \in Nat /\ Cardinality(1 .. Len(es)) = (IF 1 > Len(es) THEN 0 ELSE Len(es) - 1 + 1)
    BY FS_Interval
  <2>2. QED BY <2>1
<1>10. SumFunction(R) = Cardinality(P)
  BY <1>2, <1>3, <1>6 DEF SumFunction
<1>11. Len(es) = SumFunction(R) + Cardinality(Q) /\ SumFunction(R) \in Nat
  BY <1>6, <1>7, <1>8, <1>9, <1>10
<1>12. QED BY <1>1, <1>5, <1>6, <1>7, <1>11

RulesSet == UNION {[C -> Nat] : C \in SUBSET Topics}
Rates == [ok : Nat, all : Nat]
DreamInv ==
  /\ deHeld \in Seq(ExperienceSet) /\ deRules \in Seq(RulesSet) /\ deBaseline \in SUBSET Rates
  /\ deLost \in Nat /\ deDreams \in [count : Nat, passed : BOOLEAN]

LEMMA RateIs ==
    ASSUME NEW es \in Seq(ExperienceSet)
    PROVE  Rate(es) \in Rates
<1>1. Len(es) \in Nat /\ DOMAIN es = 1 .. Len(es)
  OBVIOUS
<1>2. IsFiniteSet({i \in DOMAIN es : es[i].ok})
  <2>1. IsFiniteSet(1 .. Len(es))
    BY <1>1, FS_Interval
  <2>2. {i \in DOMAIN es : es[i].ok} \in SUBSET (1 .. Len(es))
    BY <1>1
  <2>3. QED BY <2>1, <2>2, FS_Subset
<1>3. Cardinality({i \in DOMAIN es : es[i].ok}) \in Nat
  BY <1>2, FS_CardinalityType
<1>4. QED BY <1>1, <1>3 DEF Rate, Rates

DreamKeeps ==
  deDreams' # deDreams =>
    /\ IF deDreams'.passed
       THEN /\ deHeld' = <<>> /\ deRules = Front(deRules')
            /\ Len(deHeld) = SumFunction(Last(deRules')) + (deLost' - deLost)
       ELSE deHeld' = deHeld /\ deRules' = deRules
    /\ deDreams'.passed <=> (\A b \in deBaseline : 10 * Rate(deHeld).ok * b.all >= 9 * b.ok * Rate(deHeld).all)

LEMMA LastAndFront ==
    ASSUME NEW V, NEW s \in Seq(V), NEW x \in V
    PROVE  Front(Append(s, x)) = s /\ Last(Append(s, x)) = x /\ Append(s, x) \in Seq(V)
<1>1. PICK n \in Nat : n = Len(s)
  <2>1. Len(s) \in Nat
    OBVIOUS
  <2>2. QED BY <2>1
<1>2. PICK t : t = Append(s, x) /\ t \in Seq(V) /\ Len(t) = n + 1 /\ t[n + 1] = x /\ \A i \in 1 .. n : t[i] = s[i]
  <2>1. Append(s, x) \in Seq(V) /\ Len(Append(s, x)) = Len(s) + 1 /\ Append(s, x)[Len(s) + 1] = x
        /\ \A i \in 1 .. Len(s) : Append(s, x)[i] = s[i]
    BY AppendProperties
  <2>2. QED BY <1>1, <2>1
<1>3. Last(t) = x
  BY <1>2 DEF Last
<1>4. Front(t) = s
  <2>1. PICK p : p = SubSeq(t, 1, n)
    OBVIOUS
  <2>2. p \in Seq(V) /\ Len(p) = n /\ \A i \in 1 .. n : p[i] = t[i]
    BY <1>2, <2>1
  <2>3. Front(t) = p
    BY <1>2, <2>1 DEF Front
  <2>4. p = s
    BY <1>1, <1>2, <2>2, SeqEqual
  <2>5. QED BY <2>3, <2>4
<1>5. QED BY <1>2, <1>3, <1>4

LEMMA CycleKeeps ==
    ASSUME DreamInv, DreamCycle
    PROVE  DreamInv' /\ DreamKeeps
<1>1. PICK es \in Seq(ExperienceSet), rate \in Rates : es = deHeld /\ rate = Rate(es)
  BY RateIs DEF DreamInv
<1>2. PICK passes \in BOOLEAN : passes = \A base \in deBaseline' : Passes(rate, base)
  OBVIOUS
<1>3. PICK lost \in Nat, rules \in RulesSet : /\ rules = RulesOf(es) /\ lost = Cardinality(On(es, Topics \ Clusters(es)))
                                 /\ Len(es) = SumFunction(rules) + lost /\ rules \in RulesSet /\ SumFunction(rules) \in Nat
  <2>1. PICK rules, lost : rules = RulesOf(es) /\ lost = Cardinality(On(es, Topics \ Clusters(es)))
    OBVIOUS
  <2>2. /\ lost \in Nat /\ Len(es) = SumFunction(rules) + lost /\ SumFunction(rules) \in Nat
        /\ rules \in [Clusters(es) -> Nat] /\ Clusters(es) \in SUBSET Topics
    BY <2>1, ExperienceCounted
  <2>3. rules \in RulesSet
    BY <2>2 DEF RulesSet
  <2>4. QED BY <2>1, <2>2, <2>3
<1>4. /\ deBaseline' = IF deBaseline = {} THEN {rate} ELSE deBaseline
      /\ deDreams' = [count |-> deDreams.count + 1, passed |-> passes]
      /\ passes => deRules' = Append(deRules, rules) /\ deHeld' = <<>> /\ deLost' = deLost + lost
      /\ ~passes => deRules' = deRules /\ deHeld' = deHeld /\ deLost' = deLost
  BY <1>1, <1>2, <1>3 DEF DreamCycle
<1>5. deDreams' \in [count : Nat, passed : BOOLEAN] /\ deDreams'.passed = passes
  BY <1>4 DEF DreamInv
<1>6. Front(Append(deRules, rules)) = deRules /\ Last(Append(deRules, rules)) = rules /\ Append(deRules, rules) \in Seq(RulesSet)
  BY <1>3, LastAndFront DEF DreamInv
<1>7. <<>> \in Seq(ExperienceSet)
  OBVIOUS
<1>8. DreamInv'
  <2>1. deBaseline' \in SUBSET Rates
    BY <1>1, <1>4 DEF DreamInv
  <2>2. deLost' \in Nat
    BY <1>2, <1>4 DEF DreamInv
  <2>3. deHeld' \in Seq(ExperienceSet) /\ deRules' \in Seq(RulesSet)
    BY <1>2, <1>4, <1>6, <1>7 DEF DreamInv
  <2>4. QED BY <1>5, <2>1, <2>2, <2>3 DEF DreamInv
<1>9. passes => deHeld' = <<>> /\ deRules = Front(deRules') /\ Len(deHeld) = SumFunction(Last(deRules')) + (deLost' - deLost)
  <2>1. ASSUME passes PROVE deHeld' = <<>> /\ deRules = Front(deRules') /\ Last(deRules') = rules /\ deLost' = deLost + lost
    BY <1>4, <1>6, <2>1
  <2>2. deLost \in Nat
    BY DEF DreamInv
  <2>3. PICK n \in Nat : n = SumFunction(rules)
    BY <1>3
  <2>4. Len(deHeld) = n + lost
    BY <1>1, <1>3, <2>3
  <2>5. QED BY <2>1, <2>2, <2>3, <2>4
<1>10. passes <=> (\A b \in deBaseline : 10 * rate.ok * b.all >= 9 * b.ok * rate.all)
  <2>1. CASE deBaseline = {}
    <3>1. PICK m \in Nat, k \in Nat : m = rate.ok /\ k = rate.all
      BY DEF Rates
    <3>2. 10 * m * k >= 9 * m * k
      <4>1. PICK j \in Nat : j = m * k
        OBVIOUS
      <4>2. 10 * m * k = 10 * j /\ 9 * m * k = 9 * j
        BY <4>1
      <4>3. QED BY <4>1, <4>2
    <3>3. deBaseline' = {rate}
      BY <1>4, <2>1
    <3>4. Passes(rate, rate)
      BY <3>1, <3>2 DEF Passes
    <3>5. QED BY <1>2, <2>1, <3>3, <3>4
  <2>2. CASE deBaseline # {}
    <3>1. deBaseline' = deBaseline
      BY <1>4, <2>2
    <3>2. \A b : Passes(rate, b) <=> 10 * rate.ok * b.all >= 9 * b.ok * rate.all
      BY DEF Passes
    <3>3. QED BY <1>2, <3>1, <3>2
  <2>3. QED BY <2>1, <2>2
<1>11. passes \/ (deHeld' = deHeld /\ deRules' = deRules)
  BY <1>4
<1>12. QED BY <1>1, <1>5, <1>8, <1>9, <1>10, <1>11 DEF DreamKeeps

\* What a dream cycle does with the experiences, whether it passes or not (dream_cycle).
LEMMA DreamsSound == DreamSpec => DreamsKeepExperience
<1>1. DreamInit => DreamInv
  <2>1. <<>> \in Seq(ExperienceSet) /\ <<>> \in Seq(RulesSet)
    OBVIOUS
  <2>2. QED BY <2>1 DEF DreamInit, DreamInv
<1>2. DreamInv /\ [DreamNext]_deVars => DreamInv' /\ [DreamKeeps]_deVars
  <2>1. ASSUME DreamInv, UNCHANGED deVars PROVE DreamInv' /\ [DreamKeeps]_deVars
    BY <2>1 DEF deVars, DreamInv
  <2>2. ASSUME DreamInv, NEW t \in Topics, NEW ok \in BOOLEAN, AddExperience(t, ok) PROVE DreamInv' /\ DreamKeeps
    <3>1. PICK e \in ExperienceSet : e = [topic |-> t, ok |-> ok]
      BY DEF ExperienceSet
    <3>2. Append(deHeld, e) \in Seq(ExperienceSet)
      BY <2>2, <3>1, AppendProperties DEF DreamInv
    <3>3. deHeld' = Append(deHeld, e) /\ deRules' = deRules /\ deBaseline' = deBaseline /\ deDreams' = deDreams /\ deLost' = deLost
      BY <2>2, <3>1 DEF AddExperience
    <3>4. QED BY <2>2, <3>2, <3>3 DEF DreamInv, DreamKeeps
  <2>3. QED BY <2>1, <2>2, CycleKeeps DEF DreamNext
<1>3. DreamKeeps => LET rate == Rate(deHeld)
     IN deDreams' # deDreams =>
          /\ IF deDreams'.passed
             THEN /\ deHeld' = <<>> /\ deRules = Front(deRules')
                  /\ Len(deHeld) = SumFunction(Last(deRules')) + (deLost' - deLost)
             ELSE deHeld' = deHeld /\ deRules' = deRules
          /\ deDreams'.passed <=> (\A b \in deBaseline : 10 * rate.ok * b.all >= 9 * b.ok * rate.all)
  BY DEF DreamKeeps
<1>4. QED BY <1>1, <1>2, <1>3, PTL DEF DreamSpec, DreamsKeepExperience

-----------------------------------------------------------------------------
(* Gambits and their issues. *)

\* What is kept of a sequence with one element more.
LEMMA KeptGrows ==
    ASSUME NEW V, NEW s \in Seq(V), NEW x \in V, NEW X
    PROVE  InOrder(Append(s, x), X) = (IF x \in X THEN Append(InOrder(s, X), x) ELSE InOrder(s, X))
<1>1. PICK n \in Nat : n = Len(s)
  <2>1. Len(s) \in Nat
    OBVIOUS
  <2>2. QED BY <2>1
<1>2. PICK t \in Seq(V) : t = Append(s, x) /\ Len(t) = n + 1 /\ t[n + 1] = x /\ \A i \in 1 .. n : t[i] = s[i]
  <2>1. Append(s, x) \in Seq(V) /\ Len(Append(s, x)) = Len(s) + 1 /\ Append(s, x)[Len(s) + 1] = x
        /\ \A i \in 1 .. Len(s) : Append(s, x)[i] = s[i]
    BY AppendProperties
  <2>2. QED BY <1>1, <2>1
<1>3. PICK f, g : f = KeptUpTo(s, X) /\ g = KeptUpTo(t, X)
  OBVIOUS
<1>4. /\ f[0] = <<>>
      /\ \A k \in 1 .. n : f[k] = (IF s[k] \in X THEN Append(f[k - 1], s[k]) ELSE f[k - 1])
  BY <1>1, <1>3, KeptSteps
<1>5. /\ g[0] = <<>>
      /\ \A k \in 1 .. n + 1 : g[k] = (IF t[k] \in X THEN Append(g[k - 1], t[k]) ELSE g[k - 1])
  <2>1. /\ KeptUpTo(t, X)[0] = <<>>
        /\ \A k \in 1 .. Len(t) :
              KeptUpTo(t, X)[k] = (IF t[k] \in X THEN Append(KeptUpTo(t, X)[k - 1], t[k]) ELSE KeptUpTo(t, X)[k - 1])
    BY KeptSteps
  <2>2. QED BY <1>2, <1>3, <2>1
<1> DEFINE T == {k \in Nat : k <= n => g[k] = f[k]}
<1>6. 0 \in T
  BY <1>4, <1>5
<1>7. ASSUME NEW k \in Nat, k \in T PROVE k + 1 \in T
  <2>1. SUFFICES ASSUME k + 1 <= n PROVE g[k + 1] = f[k + 1]
    OBVIOUS
  <2>2. k + 1 \in 1 .. n /\ k + 1 \in 1 .. n + 1 /\ (k + 1) - 1 = k /\ g[k] = f[k]
    BY <1>7, <2>1
  <2>3. f[k + 1] = (IF s[k + 1] \in X THEN Append(f[k], s[k + 1]) ELSE f[k])
    BY <1>4, <2>2
  <2>4. g[k + 1] = (IF t[k + 1] \in X THEN Append(g[k], t[k + 1]) ELSE g[k])
    BY <1>5, <2>2
  <2>5. QED BY <1>2, <2>2, <2>3, <2>4
<1>8. g[n] = f[n]
  <2> HIDE DEF T
  <2>1. n \in T
    BY <1>6, <1>7, NatSetInduction
  <2>2. QED BY <2>1 DEF T
<1>9. g[n + 1] = (IF t[n + 1] \in X THEN Append(g[n], t[n + 1]) ELSE g[n])
  <2>1. n + 1 \in 1 .. n + 1 /\ (n + 1) - 1 = n
    OBVIOUS
  <2>2. QED BY <1>5, <2>1
<1>10. InOrder(s, X) = f[n] /\ InOrder(t, X) = g[n + 1]
  BY <1>1, <1>2, <1>3 DEF InOrder
<1>11. QED BY <1>2, <1>8, <1>9, <1>10

\* Nothing is kept of nothing.
LEMMA KeptOfNothing == \A X : InOrder(<<>>, X) = <<>>
<1>1. SUFFICES ASSUME NEW X PROVE InOrder(<<>>, X) = <<>>
  OBVIOUS
<1>2. <<>> \in Seq({}) /\ Len(<<>>) = 0
  OBVIOUS
<1>3. KeptUpTo(<<>>, X)[0] = <<>>
  BY <1>2, KeptSteps
<1>4. QED BY <1>2, <1>3 DEF InOrder

Results == [agent : Asked, success : BOOLEAN]
Successes == [agent : Asked, success : {TRUE}]
IssueSet == [agent : Asked, assigned : BOOLEAN]
Endings == {"summary", "opened late", "timeout", "no gh"}
GambitSet == [todo : Seq(Asked), script : {"gambit", "factory"}, results : Seq(Results), at : {"create", "assign"}]
CountedOf(results) == InOrder(results, Successes)

\* The issues of a run are those it counts, and n more.
IssuesFit(issues, results, n) ==
  /\ Len(issues) = Len(CountedOf(results)) + n
  /\ \A k \in 1 .. Len(CountedOf(results)) : issues[k].agent = CountedOf(results)[k].agent
GambitFits(r, issues) ==
  /\ r \in GambitSet
  /\ r.at = "create" => IssuesFit(issues, r.results, 0)
  /\ r.at = "assign" => IssuesFit(issues, r.results, 1) /\ r.todo # <<>> /\ issues[Len(issues)].agent = Head(r.todo)
EndedFits(ended, issues) ==
  IssuesFit(issues, ended.results, 0)
  \/ (IssuesFit(issues, ended.results, 1) /\ ended.end \in {"opened late", "timeout"})

GambitInv ==
  /\ gaIssues \in Seq(Seq(IssueSet)) /\ gaRuns \in Seq([end : Endings, results : Seq(Results)])
  /\ gaRun = {} => Len(gaIssues) = Len(gaRuns)
  /\ gaRun # {} => /\ Len(gaIssues) = Len(gaRuns) + 1
                   /\ \E r : gaRun = {r} /\ GambitFits(r, gaIssues[Len(gaRuns) + 1])
  /\ \A i \in 1 .. Len(gaRuns) : EndedFits(gaRuns[i], gaIssues[i])

LEMMA CountedIs ==
    ASSUME NEW results \in Seq(Results)
    PROVE  CountedOf(results) \in Seq(Successes)
<1>1. Results \cap Successes = Successes
  BY DEF Results, Successes
<1>2. InOrder(results, Successes) \in Seq(Results \cap Successes)
  BY KeptAreOfTheSet
<1>3. QED BY <1>1, <1>2 DEF CountedOf

LEMMA CountedGrows ==
    ASSUME NEW results \in Seq(Results), NEW a \in Asked, NEW ok \in BOOLEAN
    PROVE  /\ CountedOf(results) \in Seq(Successes)
           /\ Append(results, [agent |-> a, success |-> ok]) \in Seq(Results)
           /\ CountedOf(Append(results, [agent |-> a, success |-> ok])) =
                (IF ok THEN Append(CountedOf(results), [agent |-> a, success |-> ok]) ELSE CountedOf(results))
<1>1. PICK x \in Results : x = [agent |-> a, success |-> ok]
  BY DEF Results
<1>2. CountedOf(results) \in Seq(Successes)
  BY CountedIs
<1>4. Append(results, x) \in Seq(Results)
  BY AppendProperties
<1>5. CountedOf(Append(results, x)) = (IF x \in Successes THEN Append(CountedOf(results), x) ELSE CountedOf(results))
  BY KeptGrows DEF CountedOf
<1>6. x \in Successes <=> ok
  <2>1. CASE ok = TRUE
    BY <1>1, <2>1 DEF Successes
  <2>2. CASE ok = FALSE
    BY <1>1, <2>2 DEF Successes
  <2>3. QED BY <2>1, <2>2
<1>7. QED BY <1>1, <1>2, <1>4, <1>5, <1>6

\* An issue more, one that is assigned, and a result more.
LEMMA IssueOpened ==
    ASSUME NEW issues \in Seq(IssueSet), NEW results \in Seq(Results), IssuesFit(issues, results, 0),
           NEW a \in Asked, NEW more, more = Append(issues, [agent |-> a, assigned |-> FALSE])
    PROVE  more \in Seq(IssueSet) /\ IssuesFit(more, results, 1) /\ more[Len(more)].agent = a
<1>1. PICK x \in IssueSet : x = [agent |-> a, assigned |-> FALSE]
  BY DEF IssueSet
<1>2. PICK n \in Nat : n = Len(issues)
  <2>1. Len(issues) \in Nat
    OBVIOUS
  <2>2. QED BY <2>1
<1>3. more \in Seq(IssueSet) /\ Len(more) = n + 1 /\ more[n + 1] = x /\ \A i \in 1 .. n : more[i] = issues[i]
  BY <1>1, <1>2, AppendProperties
<1>4. PICK c : c = CountedOf(results) /\ c \in Seq(Successes)
  BY CountedIs
<1>5. Len(c) = n /\ \A k \in 1 .. n : issues[k].agent = c[k].agent
  <2>1. Len(c) \in Nat
    BY <1>4
  <2>2. QED BY <1>2, <1>4, <2>1 DEF IssuesFit
<1>6. IssuesFit(more, results, 1)
  BY <1>3, <1>4, <1>5 DEF IssuesFit
<1>7. more[Len(more)].agent = a
  BY <1>1, <1>3
<1>8. QED BY <1>3, <1>6, <1>7

LEMMA IssueAssigned ==
    ASSUME NEW issues \in Seq(IssueSet), NEW results \in Seq(Results), IssuesFit(issues, results, 1),
           NEW same, same = [issues EXCEPT ![Len(issues)].assigned = TRUE]
    PROVE  same \in Seq(IssueSet) /\ IssuesFit(same, results, 1) /\ same[Len(same)].agent = issues[Len(issues)].agent
<1>1. PICK n \in Nat : n = Len(issues) /\ issues \in [1 .. n -> IssueSet]
  <2>1. Len(issues) \in Nat /\ issues \in [1 .. Len(issues) -> IssueSet]
    OBVIOUS
  <2>2. QED BY <2>1
<1>2. PICK c : c = CountedOf(results) /\ c \in Seq(Successes)
  BY CountedIs
<1>3. n = Len(c) + 1 /\ Len(c) \in Nat /\ \A k \in 1 .. Len(c) : issues[k].agent = c[k].agent
  BY <1>1, <1>2 DEF IssuesFit
<1>4. issues[n] \in IssueSet /\ n \in 1 .. n
  BY <1>1, <1>3
<1>5. PICK x : x = [issues[n] EXCEPT !.assigned = TRUE] /\ x \in IssueSet /\ x.agent = issues[n].agent
  <2>1. PICK y \in IssueSet : y = issues[n]
    BY <1>4
  <2>2. [y EXCEPT !.assigned = TRUE] \in IssueSet /\ [y EXCEPT !.assigned = TRUE].agent = y.agent
    BY DEF IssueSet
  <2>3. QED BY <2>1, <2>2
<1>6. same = [issues EXCEPT ![n] = x]
  BY <1>1, <1>5
<1>7. same \in [1 .. n -> IssueSet] /\ same[n] = x /\ \A k \in 1 .. n : k # n => same[k] = issues[k]
  BY <1>1, <1>4, <1>5, <1>6
<1>8. same \in Seq(IssueSet) /\ Len(same) = n
  BY <1>7
<1>9. \A k \in 1 .. n : same[k].agent = issues[k].agent
  BY <1>5, <1>7
<1>10. IssuesFit(same, results, 1)
  <2>1. \A k \in 1 .. Len(c) : k \in 1 .. n
    BY <1>3
  <2>2. QED BY <1>2, <1>3, <1>8, <1>9, <2>1 DEF IssuesFit
<1>11. QED BY <1>1, <1>4, <1>8, <1>9, <1>10

LEMMA IssueCounted ==
    ASSUME NEW issues \in Seq(IssueSet), NEW results \in Seq(Results), NEW a \in Asked, NEW ok \in BOOLEAN,
           NEW n \in {0, 1}, IssuesFit(issues, results, n), n = (IF ok THEN 1 ELSE 0), ok => issues[Len(issues)].agent = a,
           NEW more, more = Append(results, [agent |-> a, success |-> ok])
    PROVE  more \in Seq(Results) /\ IssuesFit(issues, more, 0)
<1>1. PICK c : c = CountedOf(results) /\ c \in Seq(Successes)
  BY CountedGrows
<1>2. more \in Seq(Results) /\ CountedOf(more) = (IF ok THEN Append(c, [agent |-> a, success |-> ok]) ELSE c)
  BY <1>1, CountedGrows
<1>3. CASE ok = FALSE
  <2>1. CountedOf(more) = c /\ n = 0
    BY <1>2, <1>3
  <2>2. QED BY <1>1, <1>2, <2>1 DEF IssuesFit
<1>4. CASE ok = TRUE
  <2>1. PICK x \in Successes : x = [agent |-> a, success |-> ok]
    BY <1>4 DEF Successes
  <2>2. PICK m \in Nat : m = Len(c)
    <3>1. Len(c) \in Nat
      BY <1>1
    <3>2. QED BY <3>1
  <2>3. PICK d : d = CountedOf(more) /\ Len(d) = m + 1 /\ d[m + 1] = x /\ \A k \in 1 .. m : d[k] = c[k]
    <3>1. Len(Append(c, x)) = Len(c) + 1 /\ Append(c, x)[Len(c) + 1] = x /\ \A k \in 1 .. Len(c) : Append(c, x)[k] = c[k]
      BY <1>1, AppendProperties
    <3>2. CountedOf(more) = Append(c, x)
      BY <1>2, <1>4, <2>1
    <3>3. QED BY <2>2, <3>1, <3>2
  <2>4. Len(issues) = m + 1 /\ (\A k \in 1 .. m : issues[k].agent = c[k].agent) /\ issues[m + 1].agent = a
    BY <1>1, <1>4, <2>2 DEF IssuesFit
  <2>5. \A k \in 1 .. m + 1 : issues[k].agent = d[k].agent
    <3>1. \A k \in 1 .. m + 1 : k \in 1 .. m \/ k = m + 1
      OBVIOUS
    <3>2. d[m + 1].agent = a
      BY <2>1, <2>3
    <3>3. QED BY <2>3, <2>4, <3>1, <3>2
  <2>6. Len(issues) = Len(d) + 0
    BY <2>3, <2>4
  <2>7. QED BY <1>2, <2>3, <2>5, <2>6 DEF IssuesFit
<1>5. QED BY <1>3, <1>4


\* The parts of the invariant while a run goes on.
LEMMA GambitRuns ==
    ASSUME GambitInv, gaRun # {}
    PROVE  \E n \in Nat, r \in GambitSet, issues \in Seq(IssueSet) :
             /\ n = Len(gaRuns) /\ Len(gaIssues) = n + 1 /\ gaRun = {r} /\ Gambit = r
             /\ issues = gaIssues[n + 1] /\ Last(gaIssues) = issues /\ GambitFits(r, issues)
<1>1. PICK n \in Nat : n = Len(gaRuns)
  <2>1. gaRuns \in Seq([end : Endings, results : Seq(Results)])
    BY DEF GambitInv
  <2>2. Len(gaRuns) \in Nat
    BY <2>1
  <2>3. QED BY <2>2
<1>2. PICK r : gaRun = {r} /\ GambitFits(r, gaIssues[n + 1]) /\ Len(gaIssues) = n + 1
  BY <1>1 DEF GambitInv
<1>3. Gambit = r
  BY <1>2 DEF Gambit
<1>4. n + 1 \in 1 .. Len(gaIssues) /\ gaIssues \in Seq(Seq(IssueSet))
  BY <1>1, <1>2 DEF GambitInv
<1>5. PICK issues \in Seq(IssueSet) : issues = gaIssues[n + 1]
  BY <1>4
<1>6. Last(gaIssues) = issues
  BY <1>2, <1>5 DEF Last
<1>7. r \in GambitSet
  BY <1>2 DEF GambitFits
<1>8. QED BY <1>1, <1>2, <1>3, <1>5, <1>6, <1>7

\* A step of a run: its issues are others, and it goes on or ends.
LEMMA GambitMoves ==
    ASSUME GambitInv, gaRun # {}, NEW n \in Nat, n = Len(gaRuns), NEW issues \in Seq(IssueSet),
           gaIssues' = [gaIssues EXCEPT ![n + 1] = issues],
           \/ gaRuns' = gaRuns /\ \E r : gaRun' = {r} /\ GambitFits(r, issues)
           \/ gaRun' = {} /\ \E e \in [end : Endings, results : Seq(Results)] :
                gaRuns' = Append(gaRuns, e) /\ EndedFits(e, issues)
    PROVE  GambitInv'
<1>1. PICK all \in Seq(Seq(IssueSet)) : all = gaIssues' /\ Len(all) = n + 1 /\ all[n + 1] = issues
                                     /\ \A i \in 1 .. n : all[i] = gaIssues[i]
  <2>1. Len(gaIssues) = n + 1 /\ gaIssues \in Seq(Seq(IssueSet)) /\ n + 1 \in 1 .. n + 1
    BY DEF GambitInv
  <2>2. PICK S : S = Seq(IssueSet)
    OBVIOUS
  <2>3. gaIssues \in [1 .. n + 1 -> S] /\ issues \in S
    BY <2>1, <2>2
  <2>4. gaIssues' \in [1 .. n + 1 -> S]
    BY <2>3
  <2>5. gaIssues' \in Seq(S) /\ Len(gaIssues') = n + 1
    <3>1. PICK f \in [1 .. n + 1 -> S] : f = gaIssues'
      BY <2>4
    <3>2. n + 1 \in Nat /\ f \in Seq(S)
      OBVIOUS
    <3>3. Len(f) = n + 1
      OBVIOUS
    <3>4. QED BY <3>1, <3>2, <3>3
  <2>6. gaIssues'[n + 1] = issues /\ \A i \in 1 .. n : gaIssues'[i] = gaIssues[i]
    BY <2>1, <2>3
  <2>7. QED BY <2>2, <2>5, <2>6
<1>2. \A i \in 1 .. n : EndedFits(gaRuns[i], all[i])
  <2>1. \A i \in 1 .. n : EndedFits(gaRuns[i], gaIssues[i])
    BY DEF GambitInv
  <2>2. \A i \in 1 .. n : all[i] = gaIssues[i]
    BY <1>1
  <2>3. ASSUME NEW i \in 1 .. n PROVE EndedFits(gaRuns[i], all[i])
    <3>1. EndedFits(gaRuns[i], gaIssues[i]) /\ all[i] = gaIssues[i]
      BY <2>1, <2>2
    <3>2. QED BY <3>1
  <2>4. QED BY <2>3
<1>3. ASSUME gaRuns' = gaRuns, NEW r, gaRun' = {r}, GambitFits(r, issues) PROVE GambitInv'
  <2>1. PICK ended : ended = gaRuns /\ ended = gaRuns' /\ ended \in Seq([end : Endings, results : Seq(Results)]) /\ Len(ended) = n
    BY <1>3 DEF GambitInv
  <2>2. \A i \in 1 .. n : EndedFits(gaRuns'[i], gaIssues'[i])
    BY <1>1, <1>2, <2>1
  <2>3. GambitFits(r, gaIssues'[n + 1])
    BY <1>1, <1>3
  <2>4. gaRuns' \in Seq([end : Endings, results : Seq(Results)]) /\ Len(gaRuns') = n /\ gaRun' # {}
    BY <1>3, <2>1
  <2>5. gaIssues' \in Seq(Seq(IssueSet)) /\ Len(gaIssues') = n + 1
    BY <1>1
  <2>6. QED BY <1>3, <2>2, <2>3, <2>4, <2>5 DEF GambitInv
<1>4. ASSUME gaRun' = {}, NEW e \in [end : Endings, results : Seq(Results)], gaRuns' = Append(gaRuns, e), EndedFits(e, issues)
      PROVE  GambitInv'
  <2>1. gaRuns \in Seq([end : Endings, results : Seq(Results)]) /\ n = Len(gaRuns)
    BY DEF GambitInv
  <2>2. PICK ended : ended = gaRuns' /\ ended \in Seq([end : Endings, results : Seq(Results)]) /\ Len(ended) = n + 1
                    /\ ended[n + 1] = e /\ \A i \in 1 .. n : ended[i] = gaRuns[i]
    <3>1. PICK R : R = [end : Endings, results : Seq(Results)]
      OBVIOUS
    <3>2. Append(gaRuns, e) \in Seq(R) /\ Len(Append(gaRuns, e)) = Len(gaRuns) + 1
          /\ Append(gaRuns, e)[Len(gaRuns) + 1] = e /\ \A i \in 1 .. Len(gaRuns) : Append(gaRuns, e)[i] = gaRuns[i]
      BY <2>1, <3>1, AppendProperties
    <3>3. QED BY <1>4, <2>1, <3>1, <3>2
  <2>3. ASSUME NEW i \in 1 .. n + 1 PROVE EndedFits(ended[i], all[i])
    <3>1. CASE i \in 1 .. n
      BY <1>2, <2>2, <3>1
    <3>2. CASE i = n + 1
      BY <1>1, <1>4, <2>2, <3>2
    <3>3. i \in 1 .. n \/ i = n + 1
      BY <2>3
    <3>4. QED BY <3>1, <3>2, <3>3
  <2>4. \A i \in 1 .. Len(gaRuns') : EndedFits(gaRuns'[i], gaIssues'[i])
    BY <1>1, <2>2, <2>3
  <2>5. QED BY <1>1, <1>4, <2>2, <2>4 DEF GambitInv
<1>5. QED BY <1>3, <1>4

LEMMA GambitBegins ==
    ASSUME GambitInv, NEW agents \in GambitAgents, NEW script \in {"gambit", "factory"}, BeginGambit(agents, script)
    PROVE  GambitInv'
<1>1. PICK n \in Nat : n = Len(gaRuns) /\ Len(gaIssues) = n
  BY DEF GambitInv, BeginGambit
<1>2. PICK r : r = [todo |-> agents, script |-> script, results |-> <<>>, at |-> "create"]
  OBVIOUS
<1>3. gaRun' = {r} /\ gaIssues' = Append(gaIssues, <<>>) /\ gaRuns' = gaRuns
  BY <1>2 DEF BeginGambit
<1>4. agents \in Seq(Asked)
  <2>1. agents \in Seq(Range(agents)) /\ Range(agents) \subseteq Asked
    BY CrewAssumption DEF Asked
  <2>2. QED BY <2>1, SequenceOfRange
<1>5. <<>> \in Seq(Results) /\ <<>> \in Seq(IssueSet) /\ Len(<<>>) = 0
  OBVIOUS
<1>6. r \in GambitSet
  BY <1>2, <1>4, <1>5 DEF GambitSet
<1>7. IssuesFit(<<>>, r.results, 0)
  <2>1. CountedOf(r.results) = <<>>
    BY <1>2, KeptOfNothing DEF CountedOf
  <2>2. QED BY <1>5, <2>1 DEF IssuesFit
<1>8. GambitFits(r, <<>>)
  BY <1>2, <1>6, <1>7 DEF GambitFits
<1>9. PICK all : all = gaIssues' /\ all \in Seq(Seq(IssueSet)) /\ Len(all) = n + 1 /\ all[n + 1] = <<>>
                 /\ \A i \in 1 .. n : all[i] = gaIssues[i]
  <2>1. PICK S, empty : S = Seq(IssueSet) /\ empty = <<>> /\ empty \in S /\ gaIssues \in Seq(S)
    BY <1>5 DEF GambitInv
  <2>2. Append(gaIssues, empty) \in Seq(S) /\ Len(Append(gaIssues, empty)) = Len(gaIssues) + 1
        /\ Append(gaIssues, empty)[Len(gaIssues) + 1] = empty /\ \A i \in 1 .. Len(gaIssues) : Append(gaIssues, empty)[i] = gaIssues[i]
    BY <2>1, AppendProperties
  <2>3. QED BY <1>1, <1>3, <2>1, <2>2
<1>10. \A i \in 1 .. n : EndedFits(gaRuns[i], all[i])
  <2>1. ASSUME NEW i \in 1 .. n PROVE EndedFits(gaRuns[i], all[i])
    <3>1. EndedFits(gaRuns[i], gaIssues[i]) /\ all[i] = gaIssues[i]
      BY <1>1, <1>9 DEF GambitInv
    <3>2. QED BY <3>1
  <2>2. QED BY <2>1
<1>11. gaRuns' \in Seq([end : Endings, results : Seq(Results)]) /\ Len(gaRuns') = n
  BY <1>1, <1>3 DEF GambitInv
<1>12. \A i \in 1 .. Len(gaRuns') : EndedFits(gaRuns'[i], gaIssues'[i])
  BY <1>3, <1>9, <1>10, <1>11
<1>13. GambitFits(r, gaIssues'[n + 1]) /\ gaRun' # {}
  BY <1>3, <1>8, <1>9
<1>14. QED BY <1>3, <1>9, <1>11, <1>12, <1>13 DEF GambitInv


\* The elements of a sequence, and one put where it is.
LEMMA PlacesOfSequence ==
    ASSUME NEW V, NEW s \in Seq(V)
    PROVE  /\ DOMAIN s = 1 .. Len(s) /\ Len(s) \in Nat
           /\ \A i \in 1 .. Len(s) : s[i] \in V
           /\ \A i \in 1 .. Len(s) : s = [s EXCEPT ![i] = s[i]]
<1>1. s \in [1 .. Len(s) -> V] /\ Len(s) \in Nat
  OBVIOUS
<1>2. QED BY <1>1

\* The ended runs are a sequence.
LEMMA EndedAre ==
    ASSUME GambitInv
    PROVE  DOMAIN gaRuns = 1 .. Len(gaRuns) /\ Len(gaRuns) \in Nat /\ gaIssues \in Seq(Seq(IssueSet))
           /\ \A i \in 1 .. Len(gaRuns) : gaRuns[i] \in [end : Endings, results : Seq(Results)]
<1>1. gaRuns \in Seq([end : Endings, results : Seq(Results)])
  BY DEF GambitInv
<1>2. /\ DOMAIN gaRuns = 1 .. Len(gaRuns) /\ Len(gaRuns) \in Nat
      /\ \A i \in 1 .. Len(gaRuns) : gaRuns[i] \in [end : Endings, results : Seq(Results)]
  BY <1>1, PlacesOfSequence, Zenon
<1>3. gaIssues \in Seq(Seq(IssueSet))
  BY DEF GambitInv
<1>4. QED BY <1>2, <1>3

\* A run's issues may stay what they are.
LEMMA IssuesSame ==
    ASSUME GambitInv, NEW n \in Nat, Len(gaIssues) = n + 1, NEW issues, issues = gaIssues[n + 1]
    PROVE  gaIssues = [gaIssues EXCEPT ![n + 1] = issues]
<1>1. n + 1 \in 1 .. Len(gaIssues)
  OBVIOUS
<1>2. \A i \in 1 .. Len(gaIssues) : gaIssues = [gaIssues EXCEPT ![i] = gaIssues[i]]
  BY EndedAre, PlacesOfSequence, Zenon
<1>3. gaIssues = [gaIssues EXCEPT ![n + 1] = gaIssues[n + 1]]
  BY <1>1, <1>2, Zenon
<1>4. QED BY <1>3

\* How a run ends.
LEMMA GambitEnds ==
    ASSUME NEW end \in Endings, NEW r \in GambitSet, Gambit = r, EndGambit(end), NEW issues,
           IssuesFit(issues, r.results, 0) \/ (IssuesFit(issues, r.results, 1) /\ end \in {"opened late", "timeout"})
    PROVE  gaRun' = {} /\ \E e \in [end : Endings, results : Seq(Results)] :
                            gaRuns' = Append(gaRuns, e) /\ EndedFits(e, issues)
<1>1. PICK e : e = [end |-> end, results |-> r.results]
  OBVIOUS
<1>2. r.results \in Seq(Results)
  BY DEF GambitSet
<1>3. e \in [end : Endings, results : Seq(Results)]
  BY <1>1, <1>2
<1>4. gaRun' = {} /\ gaRuns' = Append(gaRuns, e)
  BY <1>1 DEF EndGambit
<1>5. EndedFits(e, issues)
  BY <1>1 DEF EndedFits
<1>6. QED BY <1>3, <1>4, <1>5

\* How a run goes on with the next agent.
LEMMA GambitRecords ==
    ASSUME NEW ok \in BOOLEAN, NEW r \in GambitSet, Gambit = r, r.todo # <<>>, Recorded(ok),
           NEW issues \in Seq(IssueSet), NEW n \in {0, 1}, IssuesFit(issues, r.results, n), n = (IF ok THEN 1 ELSE 0),
           ok => issues[Len(issues)].agent = Head(r.todo)
    PROVE  \E t : gaRun' = {t} /\ GambitFits(t, issues)
<1>1. PICK a, rest : a = Head(r.todo) /\ rest = Tail(r.todo) /\ a \in Asked /\ rest \in Seq(Asked)
  <2>1. r.todo \in Seq(Asked)
    BY DEF GambitSet
  <2>2. Head(r.todo) \in Asked /\ Tail(r.todo) \in Seq(Asked)
    BY <2>1, HeadTailProperties
  <2>3. QED BY <2>2
<1>2. PICK more : more = Append(r.results, [agent |-> a, success |-> ok])
  OBVIOUS
<1>3. r.results \in Seq(Results)
  BY DEF GambitSet
<1>4. more \in Seq(Results) /\ IssuesFit(issues, more, 0)
  BY <1>1, <1>2, <1>3, IssueCounted
<1>5. PICK t : t = [r EXCEPT !.todo = rest, !.at = "create", !.results = more]
  OBVIOUS
<1>6. gaRun' = {t}
  BY <1>1, <1>2, <1>5 DEF Recorded
<1>7. t \in GambitSet /\ t.at = "create" /\ t.results = more
  BY <1>1, <1>4, <1>5 DEF GambitSet
<1>8. GambitFits(t, issues)
  BY <1>4, <1>7 DEF GambitFits
<1>9. QED BY <1>6, <1>8

LEMMA GambitCreates ==
    ASSUME GambitInv, NEW outcome \in {"opened", "opened late", "rejected", "timeout", "no gh"}, CreateIssue(outcome)
    PROVE  GambitInv'
<1>1. PICK n \in Nat, r \in GambitSet, issues \in Seq(IssueSet) :
             /\ n = Len(gaRuns) /\ Len(gaIssues) = n + 1 /\ gaRun = {r} /\ Gambit = r
             /\ issues = gaIssues[n + 1] /\ Last(gaIssues) = issues /\ GambitFits(r, issues)
  BY GambitRuns DEF CreateIssue
<1>2. gaRun # {} /\ r.todo # <<>> /\ r.at = "create" /\ IssuesFit(issues, r.results, 0)
  BY <1>1 DEF CreateIssue, GambitFits
<1>3. PICK a \in Asked : a = Head(r.todo)
  <2>1. r.todo \in Seq(Asked)
    BY DEF GambitSet
  <2>2. Head(r.todo) \in Asked
    BY <1>2, <2>1, HeadTailProperties
  <2>3. QED BY <2>2
<1>4. r.results \in Seq(Results)
  BY DEF GambitSet
<1>5. PICK opened : /\ opened = Opened /\ opened \in Seq(IssueSet) /\ IssuesFit(opened, r.results, 1)
                    /\ opened[Len(opened)].agent = a
  <2>1. PICK opened : opened = Append(issues, [agent |-> a, assigned |-> FALSE])
    OBVIOUS
  <2>2. opened = Opened
    BY <1>1, <1>3, <2>1 DEF Opened
  <2>3. opened \in Seq(IssueSet) /\ IssuesFit(opened, r.results, 1) /\ opened[Len(opened)].agent = a
    <3>1. IssuesFit(issues, r.results, 0) /\ issues \in Seq(IssueSet) /\ a \in Asked
      BY <1>2
    <3>2. QED BY <1>4, <2>1, <3>1, IssueOpened, Zenon
  <2>4. QED BY <2>2, <2>3
<1>6. /\ outcome \in {"opened", "opened late"} => gaIssues' = [gaIssues EXCEPT ![n + 1] = opened]
      /\ outcome \notin {"opened", "opened late"} => gaIssues' = gaIssues
  BY <1>1, <1>5 DEF CreateIssue, Issues
<1>7. gaIssues = [gaIssues EXCEPT ![n + 1] = issues]
  BY <1>1, IssuesSame
<1>8. CASE outcome = "opened"
  <2>1. PICK t : t = [r EXCEPT !.at = "assign"]
    OBVIOUS
  <2>2. gaRun' = {t} /\ gaRuns' = gaRuns
    BY <1>1, <1>8, <2>1 DEF CreateIssue
  <2>3. t \in GambitSet /\ t.at = "assign" /\ t.todo = r.todo /\ t.results = r.results
    BY <2>1 DEF GambitSet
  <2>4. GambitFits(t, opened)
    BY <1>2, <1>3, <1>5, <2>3 DEF GambitFits
  <2>5. gaIssues' = [gaIssues EXCEPT ![n + 1] = opened]
    BY <1>6, <1>8
  <2>6. QED BY <1>1, <1>2, <1>5, <2>2, <2>4, <2>5, GambitMoves
<1>9. CASE outcome = "rejected"
  <2>1. PICK ok \in BOOLEAN : ok = FALSE
    OBVIOUS
  <2>2. Recorded(ok) /\ gaRuns' = gaRuns /\ gaIssues' = gaIssues
    BY <1>6, <1>9, <2>1 DEF CreateIssue
  <2>3. \E t : gaRun' = {t} /\ GambitFits(t, issues)
    <3>1. PICK m \in {0, 1} : m = 0 /\ IssuesFit(issues, r.results, m)
      BY <1>2
    <3>2. m = (IF ok THEN 1 ELSE 0)
      BY <2>1, <3>1
    <3>3. QED BY <1>1, <1>2, <2>1, <2>2, <3>1, <3>2, GambitRecords
  <2>4. QED BY <1>1, <1>2, <1>7, <2>2, <2>3, GambitMoves
<1>10. CASE outcome = "opened late"
  <2>1. EndGambit(outcome) /\ outcome \in Endings /\ outcome \in {"opened late", "timeout"}
    BY <1>10 DEF CreateIssue, Endings
  <2>2. gaRun' = {} /\ \E e \in [end : Endings, results : Seq(Results)] :
                            gaRuns' = Append(gaRuns, e) /\ EndedFits(e, opened)
    BY <1>1, <1>5, <2>1, GambitEnds
  <2>3. gaIssues' = [gaIssues EXCEPT ![n + 1] = opened]
    BY <1>6, <1>10
  <2>4. QED BY <1>1, <1>2, <1>5, <2>2, <2>3, GambitMoves
<1>11. CASE outcome \in {"timeout", "no gh"}
  <2>1. EndGambit(outcome) /\ outcome \in Endings
    BY <1>11 DEF CreateIssue, Endings
  <2>2. gaRun' = {} /\ \E e \in [end : Endings, results : Seq(Results)] :
                            gaRuns' = Append(gaRuns, e) /\ EndedFits(e, issues)
    BY <1>1, <1>2, <2>1, GambitEnds
  <2>3. gaIssues' = [gaIssues EXCEPT ![n + 1] = issues]
    BY <1>6, <1>7, <1>11
  <2>4. QED BY <1>1, <1>2, <2>2, <2>3, GambitMoves
<1>12. QED BY <1>8, <1>9, <1>10, <1>11

LEMMA GambitAssigns ==
    ASSUME GambitInv, NEW outcome \in {"assigned", "not assigned", "timeout"}, AssignCopilot(outcome)
    PROVE  GambitInv'
<1>1. PICK n \in Nat, r \in GambitSet, issues \in Seq(IssueSet) :
             /\ n = Len(gaRuns) /\ Len(gaIssues) = n + 1 /\ gaRun = {r} /\ Gambit = r
             /\ issues = gaIssues[n + 1] /\ Last(gaIssues) = issues /\ GambitFits(r, issues)
  BY GambitRuns DEF AssignCopilot
<1>2. gaRun # {} /\ r.todo # <<>> /\ IssuesFit(issues, r.results, 1) /\ issues[Len(issues)].agent = Head(r.todo)
  BY <1>1 DEF AssignCopilot, GambitFits
<1>3. r.results \in Seq(Results)
  BY DEF GambitSet
<1>4. PICK same : /\ same \in Seq(IssueSet) /\ IssuesFit(same, r.results, 1) /\ same[Len(same)].agent = Head(r.todo)
                  /\ gaIssues' = [gaIssues EXCEPT ![n + 1] = same]
  <2>1. CASE outcome = "assigned"
    <3>1. PICK same : same = [issues EXCEPT ![Len(issues)].assigned = TRUE]
      OBVIOUS
    <3>2. same \in Seq(IssueSet) /\ IssuesFit(same, r.results, 1) /\ same[Len(same)].agent = issues[Len(issues)].agent
      BY <1>2, <1>3, <3>1, IssueAssigned
    <3>3. AssignedLast = same
      BY <1>1, <3>1 DEF AssignedLast
    <3>4. gaIssues' = [gaIssues EXCEPT ![n + 1] = same]
      BY <1>1, <2>1, <3>3 DEF AssignCopilot, Issues
    <3>5. QED BY <1>2, <3>2, <3>4
  <2>2. CASE outcome # "assigned"
    <3>1. gaIssues' = gaIssues
      BY <2>2 DEF AssignCopilot
    <3>2. gaIssues = [gaIssues EXCEPT ![n + 1] = issues]
      BY <1>1, IssuesSame
    <3>3. QED BY <1>2, <3>1, <3>2
  <2>3. QED BY <2>1, <2>2
<1>5. CASE outcome = "timeout" /\ r.script = "gambit"
  <2>1. PICK end \in Endings : end = "timeout" /\ EndGambit(end)
    BY <1>1, <1>5 DEF AssignCopilot, Endings
  <2>2. gaRun' = {} /\ \E e \in [end : Endings, results : Seq(Results)] :
                            gaRuns' = Append(gaRuns, e) /\ EndedFits(e, same)
    BY <1>1, <1>4, <2>1, GambitEnds
  <2>3. QED BY <1>1, <1>2, <1>4, <2>2, GambitMoves
<1>6. CASE ~(outcome = "timeout" /\ r.script = "gambit")
  <2>1. PICK ok \in BOOLEAN : ok = TRUE
    OBVIOUS
  <2>2. Recorded(ok) /\ gaRuns' = gaRuns
    BY <1>1, <1>6, <2>1 DEF AssignCopilot
  <2>3. \E t : gaRun' = {t} /\ GambitFits(t, same)
    BY <1>1, <1>2, <1>4, <2>1, <2>2, GambitRecords
  <2>4. QED BY <1>1, <1>2, <1>4, <2>2, <2>3, GambitMoves
<1>7. QED BY <1>5, <1>6

LEMMA GambitSums ==
    ASSUME GambitInv, GambitSummary
    PROVE  GambitInv'
<1>1. PICK n \in Nat, r \in GambitSet, issues \in Seq(IssueSet) :
             /\ n = Len(gaRuns) /\ Len(gaIssues) = n + 1 /\ gaRun = {r} /\ Gambit = r
             /\ issues = gaIssues[n + 1] /\ Last(gaIssues) = issues /\ GambitFits(r, issues)
  BY GambitRuns DEF GambitSummary
<1>2. gaRun # {} /\ r.todo = <<>> /\ r.at \in {"create", "assign"}
  BY <1>1 DEF GambitSummary, GambitSet
<1>3. IssuesFit(issues, r.results, 0)
  BY <1>1, <1>2 DEF GambitFits
<1>4. gaIssues' = [gaIssues EXCEPT ![n + 1] = issues]
  <2>1. gaIssues' = gaIssues
    BY DEF GambitSummary
  <2>2. gaIssues = [gaIssues EXCEPT ![n + 1] = issues]
    BY <1>1, IssuesSame
  <2>3. QED BY <2>1, <2>2
<1>5. PICK end \in Endings : EndGambit(end)
  BY DEF GambitSummary, Endings
<1>6. gaRun' = {} /\ \E e \in [end : Endings, results : Seq(Results)] :
                          gaRuns' = Append(gaRuns, e) /\ EndedFits(e, issues)
  BY <1>1, <1>3, <1>5, GambitEnds
<1>7. QED BY <1>1, <1>2, <1>4, <1>6, GambitMoves

\* The agents of what is counted come first among those of the issues.
LEMMA AgentsArePrefix ==
    ASSUME NEW issues \in Seq(IssueSet), NEW results \in Seq(Results), NEW k \in {0, 1}, IssuesFit(issues, results, k),
           NEW counted, counted = CountedOf(results),
           NEW p, p = [n \in 1 .. Len(counted) |-> counted[n].agent],
           NEW q, q = [n \in 1 .. Len(issues) |-> issues[n].agent]
    PROVE  IsPrefix(p, q) /\ Len(issues) = Len(counted) + k /\ Len(counted) \in Nat
<1>1. counted \in Seq(Successes)
  BY CountedIs
<1>2. PICK m \in Nat : m = Len(counted)
  <2>1. Len(counted) \in Nat
    BY <1>1
  <2>2. QED BY <2>1
<1>3. Len(issues) = m + k /\ \A j \in 1 .. m : issues[j].agent = counted[j].agent
  BY <1>2 DEF IssuesFit
<1>4. PICK l \in Nat : l = m + k /\ m <= l
  OBVIOUS
<1>5. \A j \in 1 .. m : counted[j].agent \in Asked
  <2>1. \A j \in 1 .. m : counted[j] \in Successes
    BY <1>1, <1>2
  <2>2. \A x \in Successes : x.agent \in Asked
    BY DEF Successes
  <2>3. QED BY <2>1, <2>2
<1>6. \A j \in 1 .. l : issues[j].agent \in Asked
  <2>1. \A j \in 1 .. l : issues[j] \in IssueSet
    BY <1>3, <1>4
  <2>2. \A x \in IssueSet : x.agent \in Asked
    BY DEF IssueSet
  <2>3. QED BY <2>1, <2>2
<1>7. p \in Seq(Asked) /\ Len(p) = m /\ \A j \in 1 .. m : p[j] = counted[j].agent
  <2>1. p = [n \in 1 .. m |-> counted[n].agent]
    BY <1>2
  <2>2. p \in [1 .. m -> Asked]
    BY <1>5, <2>1
  <2>3. QED BY <2>1, <2>2
<1>8. q \in Seq(Asked) /\ Len(q) = l /\ \A j \in 1 .. l : q[j] = issues[j].agent
  <2>1. q = [n \in 1 .. l |-> issues[n].agent]
    BY <1>3, <1>4
  <2>2. q \in [1 .. l -> Asked]
    BY <1>6, <2>1
  <2>3. QED BY <2>1, <2>2
<1>9. Len(p) <= Len(q) /\ \A j \in 1 .. Len(p) : p[j] = q[j]
  <2>1. \A j \in 1 .. m : j \in 1 .. l
    BY <1>4
  <2>2. QED BY <1>3, <1>4, <1>7, <1>8, <2>1
<1>10. IsPrefix(p, q)
  BY <1>7, <1>8, <1>9, PrefixIs
<1>11. QED BY <1>2, <1>3, <1>10

\* What the ended runs have counted of the issues they opened, with calls that time out
\* (_create_issue, create_copilot_issue).
LEMMA GambitsSound == GambitSpec => []IssuesAreCounted
<1>1. GambitInit => GambitInv
  <2>1. <<>> \in Seq(Seq(IssueSet)) /\ <<>> \in Seq([end : Endings, results : Seq(Results)]) /\ Len(<<>>) = 0
    OBVIOUS
  <2>2. QED BY <2>1 DEF GambitInit, GambitInv
<1>2. GambitInv /\ [GambitNext]_gaVars => GambitInv'
  <2>1. ASSUME GambitInv, UNCHANGED gaVars PROVE GambitInv'
    BY <2>1 DEF gaVars, GambitInv
  <2>2. QED BY <2>1, GambitBegins, GambitCreates, GambitAssigns, GambitSums DEF GambitNext
<1>3. GambitInv => IssuesAreCounted
  <2>1. SUFFICES ASSUME GambitInv, NEW i \in 1 .. Len(gaRuns),
                        NEW opened, opened = gaIssues[i],
                        NEW counted, counted = InOrder(gaRuns[i].results, Successes),
                        NEW both, both = [n \in 1 .. Len(counted) |-> counted[n].agent],
                        NEW theirs, theirs = [n \in 1 .. Len(opened) |-> opened[n].agent]
                 PROVE  /\ IsPrefix(both, theirs)
                        /\ Len(opened) <= Len(counted) + (IF gaRuns[i].end \in {"opened late", "timeout"} THEN 1 ELSE 0)
    <3>1. GambitInv => DOMAIN gaRuns = 1 .. Len(gaRuns)
      BY EndedAre
    <3>2. QED BY <3>1 DEF IssuesAreCounted, Successes
  <2>2. PICK e : e = gaRuns[i] /\ e \in [end : Endings, results : Seq(Results)] /\ EndedFits(e, opened)
    <3>1. gaRuns[i] \in [end : Endings, results : Seq(Results)]
      BY <2>1, EndedAre
    <3>2. EndedFits(gaRuns[i], opened)
      BY <2>1 DEF GambitInv
    <3>3. QED BY <3>1, <3>2
  <2>3. counted = CountedOf(e.results) /\ counted \in Seq(Successes)
    BY <2>1, <2>2, CountedIs DEF CountedOf
  <2>4. opened \in Seq(IssueSet)
    <3>1. gaIssues \in Seq(Seq(IssueSet)) /\ Len(gaIssues) \in {Len(gaRuns), Len(gaRuns) + 1}
      BY <2>1 DEF GambitInv
    <3>2. Len(gaRuns) \in Nat
      BY <2>1, EndedAre
    <3>3. i \in 1 .. Len(gaIssues)
      BY <3>1, <3>2
    <3>4. QED BY <2>1, <3>1, <3>3
  <2>5. ASSUME NEW k \in {0, 1}, IssuesFit(opened, e.results, k)
        PROVE  IsPrefix(both, theirs) /\ Len(opened) = Len(counted) + k /\ Len(counted) \in Nat
    <3>1. e.results \in Seq(Results)
      BY <2>2
    <3>2. counted = CountedOf(e.results)
      BY <2>3
    <3>3. opened \in Seq(IssueSet)
      BY <2>4
    <3>4. both = [n \in 1 .. Len(counted) |-> counted[n].agent] /\ theirs = [n \in 1 .. Len(opened) |-> opened[n].agent]
      BY <2>1
    <3>5. QED BY <2>5, <3>1, <3>2, <3>3, <3>4, AgentsArePrefix, Zenon
  <2>6. CASE IssuesFit(opened, e.results, 0)
    <3>1. IsPrefix(both, theirs) /\ Len(opened) = Len(counted) + 0 /\ Len(counted) \in Nat
      <4>1. PICK k \in {0, 1} : k = 0
        OBVIOUS
      <4>2. IssuesFit(opened, e.results, k)
        BY <2>6, <4>1
      <4>3. QED BY <2>5, <4>1, <4>2
    <3>2. Len(opened) <= Len(counted) /\ Len(opened) <= Len(counted) + 1 /\ Len(counted) + 0 = Len(counted)
      BY <3>1
    <3>3. QED BY <3>1, <3>2
  <2>7. CASE IssuesFit(opened, e.results, 1) /\ gaRuns[i].end \in {"opened late", "timeout"}
    <3>1. IsPrefix(both, theirs) /\ Len(opened) = Len(counted) + 1 /\ Len(counted) \in Nat
      <4>1. PICK k \in {0, 1} : k = 1
        OBVIOUS
      <4>2. IssuesFit(opened, e.results, k)
        BY <2>7, <4>1
      <4>3. QED BY <2>5, <4>1, <4>2
    <3>2. Len(opened) <= Len(counted) + 1
      BY <3>1
    <3>3. QED BY <2>7, <3>1, <3>2
  <2>8. QED BY <2>2, <2>6, <2>7 DEF EndedFits
<1>4. QED BY <1>1, <1>2, <1>3, PTL DEF GambitSpec


-----------------------------------------------------------------------------
\* The work agreed on is done as agreed: plans, missions, HLF scopes and runtimes, crews,
\* reviews, dream cycles and gambits, each in any of its behaviours, keep what the runs
\* check of them (PlanExecutor.execute, run_sdd_mission, HLFInterpreter, HLFRuntime, run_crew).
THEOREM WorkCarriedOut ==
    PlanSpec /\ ScopeSpec /\ RuntimeSpec /\ MissionSpec /\ CrewRunSpec /\ HatsSpec /\ DreamSpec /\ GambitSpec
      => WorkIsCarriedOut
<1>1. MissionSpec => MissionIsSound
  BY MissionsSound
<1>2. CrewRunSpec /\ HatsSpec /\ DreamSpec /\ GambitSpec => CrewIsSound
  BY DiscussionsSound, ReviewsSound, DreamsSound, GambitsSound, PTL DEF CrewIsSound
<1>3. PlanSpec /\ ScopeSpec /\ RuntimeSpec => [](PlanIsCarriedOut /\ ScopeIsSound /\ RuntimeIsSound)
  BY PlanCarriedOut, ScopeSound, RuntimeSound, PTL
<1>4. QED BY <1>1, <1>2, <1>3, PTL DEF WorkIsCarriedOut
=============================================================================
