--------------------------- MODULE InductionLemmas ---------------------------
(***************************************************************************)
(* Induction for proofs that cannot instantiate a predicate: over a set of *)
(* naturals, which the theorems about finite sets give, and from it what   *)
(* the sum of a function over a finite set is and that a recursion over    *)
(* 0..n has a solution; the elements of sequences, and how many times one  *)
(* stands there.                                                           *)
(***************************************************************************)
EXTENDS Integers, Sequences, Functions, FiniteSetTheorems, TLAPS

\* A set that holds 0 and with every natural its successor holds all of them.  Were x
\* not in T, adding one would map the members of T up to x one-to-one into those
\* among them other than 0, which are fewer.
LEMMA NatSetInduction ==
    ASSUME NEW T, 0 \in T, \A n \in Nat : n \in T => n + 1 \in T
    PROVE  Nat \subseteq T
<1> SUFFICES ASSUME NEW x \in Nat, x \notin T PROVE FALSE
  OBVIOUS
<1> DEFINE A == T \cap (0 .. x)
<1> DEFINE f == [n \in A |-> n + 1]
<1>1. IsFiniteSet(A) /\ Cardinality(A) \in Nat
  <2>1. IsFiniteSet(0 .. x)
    BY FS_Interval
  <2>2. QED BY <2>1, FS_Subset, FS_CardinalityType
<1>2. 0 \in A
  OBVIOUS
<1>3. IsFiniteSet(A \ {0}) /\ Cardinality(A \ {0}) = Cardinality(A) - 1
  BY <1>1, <1>2, FS_RemoveElement
<1>4. f \in Injection(A, A \ {0})
  <2>1. ASSUME NEW n \in A PROVE n + 1 \in A \ {0}
    <3>1. n \in T /\ n \in Nat /\ n <= x /\ n # x
      OBVIOUS
    <3>2. n + 1 \in T
      BY <3>1
    <3>3. n + 1 \in 0 .. x /\ n + 1 # 0
      BY <3>1
    <3>4. QED BY <3>2, <3>3
  <2>2. f \in [A -> A \ {0}]
    BY <2>1
  <2>3. \A a, b \in A : f[a] = f[b] => a = b
    OBVIOUS
  <2>4. QED BY <2>2, <2>3 DEF Injection, IsInjective
<1>5. Cardinality(A) <= Cardinality(A \ {0})
  BY <1>3, <1>4, FS_Injection
<1>6. QED BY <1>1, <1>3, <1>5

-----------------------------------------------------------------------------
(* The sum of f over S.  SumFunctionOnSet removes one element after another,  *)
(* always the one that CHOOSE picks; the lemmas say that the order is         *)
(* immaterial.                                                                *)

Pick(s) == CHOOSE x \in s : TRUE

\* The equation of the recursive function that SumFunctionOnSet applies to S.
SumStep(f, S, g) ==
    g = [s \in SUBSET S |->
            IF s = {} THEN 0
            ELSE f[Pick(s)] + g[s \ {Pick(s)}]]

Small(S, n) == {s \in SUBSET S : Cardinality(s) <= n}

LEMMA SmallSets ==
    ASSUME NEW S, IsFiniteSet(S), NEW n \in Nat
    PROVE  /\ \A s \in SUBSET S : IsFiniteSet(s) /\ Cardinality(s) \in Nat
           /\ Small(S, 0) = {{}}
           /\ Small(S, n) \subseteq Small(S, n + 1)
           /\ \A s \in Small(S, n + 1) : \A x \in s : s \ {x} \in Small(S, n)
           /\ Small(S, Cardinality(S)) = SUBSET S
<1>1. \A s \in SUBSET S : /\ IsFiniteSet(s) /\ Cardinality(s) \in Nat
                          /\ Cardinality(s) <= Cardinality(S)
  BY FS_Subset, FS_CardinalityType
<1>2. Small(S, 0) = {{}}
  BY <1>1, FS_EmptySet DEF Small
<1>3. Small(S, n) \subseteq Small(S, n + 1)
  BY <1>1 DEF Small
<1>4. ASSUME NEW s \in Small(S, n + 1), NEW x \in s PROVE s \ {x} \in Small(S, n)
  <2>1. IsFiniteSet(s) /\ Cardinality(s) \in Nat /\ Cardinality(s) <= n + 1 /\ s \in SUBSET S
    BY <1>1 DEF Small
  <2>2. Cardinality(s \ {x}) = Cardinality(s) - 1
    BY <2>1, FS_RemoveElement
  <2>3. QED BY <2>1, <2>2 DEF Small
<1>5. Small(S, Cardinality(S)) = SUBSET S
  BY <1>1 DEF Small
<1>6. QED BY <1>1, <1>2, <1>3, <1>4, <1>5

\* There is such a function.
LEMMA SumExists ==
    ASSUME NEW S, IsFiniteSet(S), NEW f, \A x \in S : f[x] \in Nat
    PROVE  \E g : SumStep(f, S, g)
<1> DEFINE Part(n, g) ==
             /\ g \in [Small(S, n) -> Nat]
             /\ \A s \in Small(S, n) :
                   g[s] = (IF s = {} THEN 0
                           ELSE f[Pick(s)] + g[s \ {Pick(s)}])
<1> DEFINE T == {n \in Nat : \E g : Part(n, g)}
<1>1. 0 \in T
  <2> DEFINE g == [s \in {{}} |-> 0]
  <2>1. Part(0, g)
    <3>1. Small(S, 0) = {{}}
      BY SmallSets
    <3>2. QED BY <3>1
  <2>2. QED BY <2>1
<1>2. ASSUME NEW n \in Nat, n \in T PROVE n + 1 \in T
  <2>1. PICK g : Part(n, g)
    BY <1>2
  <2> DEFINE h == [s \in Small(S, n + 1) |->
                      IF s = {} THEN 0
                      ELSE f[Pick(s)] + g[s \ {Pick(s)}]]
  <2>2. \A s \in Small(S, n) : h[s] = g[s]
    BY <2>1, SmallSets
  <2>3. ASSUME NEW s \in Small(S, n + 1), s # {}
        PROVE  /\ Pick(s) \in s
               /\ s \ {Pick(s)} \in Small(S, n)
               /\ f[Pick(s)] \in Nat
    <3>1. Pick(s) \in s
      BY <2>3 DEF Pick
    <3>2. s \subseteq S
      BY DEF Small
    <3>3. QED BY <3>1, <3>2, SmallSets
  <2>4. h \in [Small(S, n + 1) -> Nat]
    BY <2>1, <2>3
  <2>5. \A s \in Small(S, n + 1) :
          h[s] = (IF s = {} THEN 0
                  ELSE f[Pick(s)] + h[s \ {Pick(s)}])
    <3> SUFFICES ASSUME NEW s \in Small(S, n + 1), s # {}
                 PROVE  h[s] = f[Pick(s)] + h[s \ {Pick(s)}]
      OBVIOUS
    <3>1. h[s] = f[Pick(s)] + g[s \ {Pick(s)}]
      OBVIOUS
    <3>2. h[s \ {Pick(s)}] = g[s \ {Pick(s)}]
      BY <2>2, <2>3
    <3>3. QED BY <3>1, <3>2
  <2>6. Part(n + 1, h)
    BY <2>4, <2>5
  <2>7. \E k : Part(n + 1, k)
    <3> HIDE DEF h, Part
    <3>1. QED BY <2>6
  <2>8. n + 1 \in Nat
    OBVIOUS
  <2>9. QED
    <3> HIDE DEF Part
    <3>1. QED BY <2>7, <2>8
<1>3. Nat \subseteq T
  <2> HIDE DEF T
  <2>1. QED BY <1>1, <1>2, NatSetInduction
<1>4. Cardinality(S) \in T
  BY <1>3, FS_CardinalityType
<1>5. PICK g : Part(Cardinality(S), g)
  BY <1>4
<1>6. SumStep(f, S, g)
  BY <1>5, SmallSets, FS_CardinalityType DEF SumStep
<1>7. QED BY <1>6

\* Whichever element is taken away first, the sum is the same.
LEMMA SumAnyOrder ==
    ASSUME NEW S, IsFiniteSet(S), NEW f, \A x \in S : f[x] \in Nat,
           NEW g, SumStep(f, S, g)
    PROVE  /\ g[{}] = 0
           /\ \A s \in SUBSET S : g[s] \in Nat /\ \A x \in s : g[s] = f[x] + g[s \ {x}]
<1>1. \A s \in SUBSET S :
        g[s] = (IF s = {} THEN 0
                ELSE f[Pick(s)] + g[s \ {Pick(s)}])
  BY DEF SumStep
<1>2. g[{}] = 0
  BY <1>1
<1> DEFINE Good(s) == g[s] \in Nat /\ \A x \in s : g[s] = f[x] + g[s \ {x}]
<1> DEFINE T == {n \in Nat : \A s \in Small(S, n) : Good(s)}
<1>3. 0 \in T
  <2>1. Small(S, 0) = {{}}
    BY SmallSets
  <2>2. Good({})
    BY <1>2
  <2>3. QED BY <2>1, <2>2
<1>4. ASSUME NEW n \in Nat, n \in T PROVE n + 1 \in T
  <2> SUFFICES ASSUME NEW s \in Small(S, n + 1), s # {} PROVE Good(s)
    BY <1>2
  <2>1. PICK c : c = Pick(s)
    OBVIOUS
  <2>2. c \in s /\ s \in SUBSET S /\ g[s] = f[c] + g[s \ {c}]
    BY <1>1, <2>1 DEF Small, Pick
  <2>3. \A x \in s : s \ {x} \in Small(S, n) /\ f[x] \in Nat
    BY <2>2, SmallSets
  <2>4. \A t \in Small(S, n) : Good(t)
    BY <1>4
  <2>5. g[s] \in Nat
    BY <2>2, <2>3, <2>4
  <2>6. ASSUME NEW x \in s, x # c PROVE g[s] = f[x] + g[s \ {x}]
    <3>1. (s \ {c}) \ {x} = (s \ {x}) \ {c}
      OBVIOUS
    <3>2. g[s \ {c}] = f[x] + g[(s \ {c}) \ {x}]
      BY <2>2, <2>3, <2>4, <2>6
    <3>3. g[s \ {x}] = f[c] + g[(s \ {x}) \ {c}]
      BY <2>2, <2>3, <2>4, <2>6
    <3>4. (s \ {c}) \ {x} \in Small(S, n)
      <4>1. s \ {c} \in Small(S, n + 1) /\ x \in s \ {c}
        BY <2>2, <2>3, <2>6, SmallSets
      <4>2. QED BY <4>1, SmallSets
    <3>5. g[(s \ {c}) \ {x}] \in Nat
      BY <2>4, <3>4
    <3>6. f[x] \in Nat /\ f[c] \in Nat
      BY <2>2, <2>3
    <3> DEFINE a == g[(s \ {c}) \ {x}]
    <3>7. g[s] = f[c] + (f[x] + a) /\ g[s \ {x}] = f[c] + a
      BY <2>2, <3>1, <3>2, <3>3
    <3>8. QED BY <3>5, <3>6, <3>7
  <2>7. QED BY <2>2, <2>5, <2>6
<1>5. Nat \subseteq T
  <2> HIDE DEF T
  <2>1. QED BY <1>3, <1>4, NatSetInduction
<1>6. Cardinality(S) \in T
  BY <1>5, FS_CardinalityType
<1>7. QED BY <1>2, <1>6, SmallSets

\* SumFunctionOnSet applies such a function.
LEMMA SumOfFunction ==
    ASSUME NEW S, IsFiniteSet(S), NEW f, \A x \in S : f[x] \in Nat
    PROVE  \E g : SumStep(f, S, g) /\ SumFunctionOnSet(f, S) = g[S]
<1>1. SumFunctionOnSet(f, S) = (CHOOSE g : SumStep(f, S, g))[S]
  BY DEF SumFunctionOnSet, FoldFunctionOnSet, MapThenFoldSet, SumStep, Pick
<1>2. SumStep(f, S, CHOOSE g : SumStep(f, S, g))
  BY SumExists
<1>3. QED BY <1>1, <1>2

\* What a subset sums to does not depend on the set it is part of.
LEMMA SumWithin ==
    ASSUME NEW S, IsFiniteSet(S), NEW f, \A x \in S : f[x] \in Nat,
           NEW R, IsFiniteSet(R), NEW h, \A x \in R : h[x] \in Nat,
           NEW g, SumStep(f, S, g), NEW k, SumStep(h, R, k),
           S \subseteq R, \A x \in S : f[x] = h[x]
    PROVE  \A s \in SUBSET S : g[s] = k[s]
<1> DEFINE T == {n \in Nat : \A s \in Small(S, n) : g[s] = k[s]}
<1>1. /\ g[{}] = 0 /\ \A s \in SUBSET S : \A x \in s : g[s] = f[x] + g[s \ {x}]
      /\ k[{}] = 0 /\ \A s \in SUBSET R : \A x \in s : k[s] = h[x] + k[s \ {x}]
  <2>1. g[{}] = 0 /\ \A s \in SUBSET S : \A x \in s : g[s] = f[x] + g[s \ {x}]
    BY SumAnyOrder
  <2>2. k[{}] = 0 /\ \A s \in SUBSET R : \A x \in s : k[s] = h[x] + k[s \ {x}]
    BY SumAnyOrder
  <2>3. QED BY <2>1, <2>2
<1>2. 0 \in T
  <2>1. Small(S, 0) = {{}}
    BY SmallSets
  <2>2. QED BY <1>1, <2>1
<1>3. ASSUME NEW n \in Nat, n \in T PROVE n + 1 \in T
  <2> SUFFICES ASSUME NEW s \in Small(S, n + 1) PROVE g[s] = k[s]
    OBVIOUS
  <2>1. s \in SUBSET S /\ s \in SUBSET R
    BY DEF Small
  <2>2. CASE s = {}
    BY <1>1, <2>2
  <2>3. ASSUME NEW x \in s PROVE g[s] = k[s]
    <3>1. g[s] = f[x] + g[s \ {x}] /\ k[s] = h[x] + k[s \ {x}] /\ f[x] = h[x]
      BY <1>1, <2>1
    <3>2. s \ {x} \in Small(S, n)
      BY SmallSets
    <3>3. g[s \ {x}] = k[s \ {x}]
      BY <1>3, <3>2
    <3>4. QED BY <3>1, <3>3
  <2>4. QED BY <2>2, <2>3
<1>4. Nat \subseteq T
  <2> HIDE DEF T
  <2>1. QED BY <1>2, <1>3, NatSetInduction
<1>5. Cardinality(S) \in T
  BY <1>4, FS_CardinalityType
<1>6. QED BY <1>5, SmallSets, FS_CardinalityType

\* The sum of functions that agree on the set.
LEMMA SumAgree ==
    ASSUME NEW S, IsFiniteSet(S), NEW f, \A x \in S : f[x] \in Nat,
           NEW h, \A x \in S : f[x] = h[x]
    PROVE  SumFunctionOnSet(f, S) \in Nat /\ SumFunctionOnSet(f, S) = SumFunctionOnSet(h, S)
<1>1. \A x \in S : h[x] \in Nat
  OBVIOUS
<1>2. PICK g : SumStep(f, S, g) /\ SumFunctionOnSet(f, S) = g[S]
  BY SumOfFunction
<1>3. PICK k : SumStep(h, S, k) /\ SumFunctionOnSet(h, S) = k[S]
  BY <1>1, SumOfFunction
<1>4. g[S] = k[S]
  BY <1>1, <1>2, <1>3, SumWithin
<1>5. g[S] \in Nat
  BY <1>2, SumAnyOrder
<1>6. QED BY <1>2, <1>3, <1>4, <1>5

\* The sum over no element.
LEMMA SumEmpty == \A f : SumFunctionOnSet(f, {}) = 0
<1> SUFFICES ASSUME NEW f PROVE SumFunctionOnSet(f, {}) = 0
  OBVIOUS
<1>1. PICK g : SumStep(f, {}, g) /\ SumFunctionOnSet(f, {}) = g[{}]
  BY FS_EmptySet, SumOfFunction
<1>2. QED BY <1>1, FS_EmptySet, SumAnyOrder

\* The sum over one element less.
LEMMA SumRemove ==
    ASSUME NEW S, IsFiniteSet(S), NEW f, \A x \in S : f[x] \in Nat, NEW y \in S
    PROVE  SumFunctionOnSet(f, S) = f[y] + SumFunctionOnSet(f, S \ {y})
<1>1. IsFiniteSet(S \ {y}) /\ \A x \in S \ {y} : f[x] \in Nat
  BY FS_Subset
<1>2. PICK g : SumStep(f, S, g) /\ SumFunctionOnSet(f, S) = g[S]
  BY SumOfFunction
<1>3. PICK k : SumStep(f, S \ {y}, k) /\ SumFunctionOnSet(f, S \ {y}) = k[S \ {y}]
  BY <1>1, SumOfFunction
<1>4. g[S] = f[y] + g[S \ {y}]
  BY <1>2, SumAnyOrder
<1>5. k[S \ {y}] = g[S \ {y}]
  BY <1>1, <1>2, <1>3, SumWithin
<1>6. QED BY <1>2, <1>3, <1>4, <1>5

-----------------------------------------------------------------------------
(* A function defined by recursion over 0 .. n exists: step gives the value   *)
(* for k from k and the value for k - 1.                                      *)

Closed(S, n, step) == \A k \in 1 .. n, x \in S : step[<<k, x>>] \in S
Iterates(S, base, n, step, f) ==
    f \in [0 .. n -> S] /\ f[0] = base /\ \A k \in 1 .. n : f[k] = step[<<k, f[k - 1]>>]

LEMMA Recursion ==
    ASSUME NEW S, NEW base \in S, NEW n \in Nat, NEW step, Closed(S, n, step)
    PROVE  \E f : Iterates(S, base, n, step, f)
<1>0. \A k \in 1 .. n, x \in S : step[<<k, x>>] \in S
  BY DEF Closed
<1> DEFINE Part(m, f) ==
             /\ f \in [0 .. m -> S] /\ f[0] = base
             /\ \A k \in 1 .. m : f[k] = step[<<k, f[k - 1]>>]
<1> DEFINE T == {m \in Nat : m <= n => \E f : Part(m, f)}
<1>1. 0 \in T
  <2> DEFINE f == [k \in {0} |-> base]
  <2>1. Part(0, f)
    OBVIOUS
  <2>2. \E g : Part(0, g)
    <3> HIDE DEF Part, f
    <3>1. QED BY <2>1
  <2>3. QED BY <2>2
<1>2. ASSUME NEW m \in Nat, m \in T PROVE m + 1 \in T
  <2> SUFFICES ASSUME m + 1 <= n PROVE \E f : Part(m + 1, f)
    OBVIOUS
  <2>1. PICK f : Part(m, f)
    BY <1>2
  <2> DEFINE g == [k \in 0 .. m + 1 |-> IF k = m + 1 THEN step[<<m + 1, f[m]>>] ELSE f[k]]
  <2>2. f[m] \in S /\ step[<<m + 1, f[m]>>] \in S
    BY <1>0, <2>1
  <2>3. g \in [0 .. m + 1 -> S]
    BY <2>1, <2>2
  <2>4. g[0] = base
    BY <2>1
  <2>5. ASSUME NEW k \in 1 .. m + 1 PROVE g[k] = step[<<k, g[k - 1]>>]
    <3>1. CASE k = m + 1
      BY <3>1
    <3>2. CASE k # m + 1
      <4>1. k \in 1 .. m /\ k - 1 \in 0 .. m /\ k - 1 # m + 1
        BY <3>2
      <4>2. g[k] = f[k] /\ g[k - 1] = f[k - 1]
        BY <3>2, <4>1
      <4>3. f[k] = step[<<k, f[k - 1]>>]
        BY <2>1, <4>1
      <4>4. QED BY <4>2, <4>3
    <3>3. QED BY <3>1, <3>2
  <2>6. Part(m + 1, g)
    <3> HIDE DEF g
    <3>1. QED BY <2>3, <2>4, <2>5
  <2>7. QED
    <3> HIDE DEF Part, g
    <3>1. QED BY <2>6
<1>3. n \in T
  <2> HIDE DEF T
  <2>1. QED BY <1>1, <1>2, NatSetInduction
<1>4. PICK f : Part(n, f)
  BY <1>3
<1>5. QED BY <1>4 DEF Iterates

-----------------------------------------------------------------------------
(* Sequences and the sets of their elements. *)

LEMMA RangeOfJoin ==
    ASSUME NEW S, NEW v \in Seq(S), NEW w \in Seq(S)
    PROVE  Range(v \o w) = Range(v) \cup Range(w)
<1>1. ASSUME NEW x \in Range(v \o w) PROVE x \in Range(v) \cup Range(w)
  <2>1. PICK k \in DOMAIN (v \o w) : x = (v \o w)[k]
    BY DEF Range
  <2>2. k \in 1 .. Len(v) + Len(w)
    BY <2>1
  <2>3. CASE k <= Len(v)
    <3>1. k \in DOMAIN v /\ x = v[k]
      BY <2>1, <2>2, <2>3
    <3>2. QED BY <3>1 DEF Range
  <2>4. CASE k > Len(v)
    <3>1. k - Len(v) \in DOMAIN w /\ x = w[k - Len(v)]
      BY <2>1, <2>2, <2>4
    <3>2. QED BY <3>1 DEF Range
  <2>5. QED BY <2>2, <2>3, <2>4
<1>2. ASSUME NEW x \in Range(v) PROVE x \in Range(v \o w)
  <2>1. PICK k \in DOMAIN v : x = v[k]
    BY DEF Range
  <2>2. k \in DOMAIN (v \o w) /\ (v \o w)[k] = x
    BY <2>1
  <2>3. QED BY <2>2 DEF Range
<1>3. ASSUME NEW x \in Range(w) PROVE x \in Range(v \o w)
  <2>1. PICK k \in DOMAIN w : x = w[k]
    BY DEF Range
  <2>2. k + Len(v) \in DOMAIN (v \o w) /\ (v \o w)[k + Len(v)] = x
    BY <2>1
  <2>3. QED BY <2>2 DEF Range
<1>4. QED BY <1>1, <1>2, <1>3

LEMMA InjectiveJoin ==
    ASSUME NEW S, NEW v \in Seq(S), NEW w \in Seq(S), IsInjective(v), IsInjective(w),
           Range(v) \cap Range(w) = {}
    PROVE  IsInjective(v \o w)
<1> SUFFICES ASSUME NEW a \in DOMAIN (v \o w), NEW b \in DOMAIN (v \o w), (v \o w)[a] = (v \o w)[b]
             PROVE  a = b
  BY DEF IsInjective
<1>1. a \in 1 .. Len(v) + Len(w) /\ b \in 1 .. Len(v) + Len(w)
  OBVIOUS
<1>2. ASSUME NEW k \in 1 .. Len(v) + Len(w)
      PROVE  /\ k <= Len(v) => k \in DOMAIN v /\ (v \o w)[k] = v[k] /\ v[k] \in Range(v)
             /\ k > Len(v) => k - Len(v) \in DOMAIN w /\ (v \o w)[k] = w[k - Len(v)]
                              /\ w[k - Len(v)] \in Range(w)
  BY DEF Range
<1>3. CASE a <= Len(v) /\ b <= Len(v)
  BY <1>1, <1>2, <1>3 DEF IsInjective
<1>4. CASE a > Len(v) /\ b > Len(v)
  <2>1. a - Len(v) = b - Len(v)
    BY <1>1, <1>2, <1>4 DEF IsInjective
  <2>2. QED BY <1>1, <2>1
<1>5. CASE a <= Len(v) /\ b > Len(v)
  BY <1>1, <1>2, <1>5
<1>6. CASE a > Len(v) /\ b <= Len(v)
  BY <1>1, <1>2, <1>6
<1>7. QED BY <1>1, <1>3, <1>4, <1>5, <1>6

LEMMA RangeOfOne ==
    ASSUME NEW x
    PROVE  Range(<<x>>) = {x} /\ IsInjective(<<x>>) /\ Range(<<>>) = {} /\ IsInjective(<<>>)
  BY DEF Range, IsInjective

LEMMA RangeOfAppend ==
    ASSUME NEW S, NEW v \in Seq(S), NEW x \in S
    PROVE  /\ Append(v, x) \in Seq(S)
           /\ Range(Append(v, x)) = Range(v) \cup {x}
           /\ IsInjective(v) /\ x \notin Range(v) => IsInjective(Append(v, x))
<1>1. <<x>> \in Seq(S) /\ Append(v, x) = v \o <<x>>
  OBVIOUS
<1>2. Range(v \o <<x>>) = Range(v) \cup Range(<<x>>)
  BY <1>1, RangeOfJoin
<1>3. ASSUME IsInjective(v), x \notin Range(v) PROVE IsInjective(v \o <<x>>)
  <2>1. IsInjective(<<x>>) /\ Range(v) \cap Range(<<x>>) = {}
    BY <1>3, RangeOfOne
  <2>2. QED BY ONLY <1>1, <1>3, <2>1, InjectiveJoin
<1>4. QED BY <1>1, <1>2, <1>3, RangeOfOne

LEMMA RangeOfTail ==
    ASSUME NEW S, NEW v \in Seq(S), v # <<>>
    PROVE  /\ Head(v) \in S /\ Tail(v) \in Seq(S)
           /\ Range(v) = Range(Tail(v)) \cup {Head(v)}
           /\ IsInjective(v) => IsInjective(Tail(v)) /\ Head(v) \notin Range(Tail(v))
<1>1. Len(v) \in Nat \ {0} /\ DOMAIN v = 1 .. Len(v) /\ Head(v) = v[1] /\ Head(v) \in S
      /\ Tail(v) \in Seq(S) /\ DOMAIN Tail(v) = 1 .. Len(v) - 1
  OBVIOUS
<1>2. \A k \in 1 .. Len(v) - 1 : Tail(v)[k] = v[k + 1]
  OBVIOUS
<1>3. ASSUME NEW x \in Range(v) PROVE x \in Range(Tail(v)) \cup {Head(v)}
  <2>1. PICK k \in 1 .. Len(v) : x = v[k]
    BY <1>1 DEF Range
  <2>2. CASE k = 1
    BY <1>1, <2>1, <2>2
  <2>3. CASE k # 1
    <3>1. k - 1 \in DOMAIN Tail(v) /\ Tail(v)[k - 1] = x
      BY <1>1, <1>2, <2>1, <2>3
    <3>2. QED BY <3>1 DEF Range
  <2>4. QED BY <2>2, <2>3
<1>4. ASSUME NEW x \in Range(Tail(v)) PROVE \E k \in 2 .. Len(v) : x = v[k] /\ x = Tail(v)[k - 1]
  <2>1. PICK k \in 1 .. Len(v) - 1 : x = Tail(v)[k]
    BY <1>1 DEF Range
  <2>2. k + 1 \in 2 .. Len(v) /\ x = v[k + 1] /\ (k + 1) - 1 = k
    BY <1>1, <1>2, <2>1
  <2>3. QED BY <2>1, <2>2
<1>5. Range(v) = Range(Tail(v)) \cup {Head(v)}
  <2>1. \A k \in 1 .. Len(v) : v[k] \in Range(v)
    BY <1>1 DEF Range
  <2>2. Head(v) \in Range(v) /\ \A x \in Range(Tail(v)) : x \in Range(v)
    BY <1>1, <1>4, <2>1
  <2>3. QED BY <1>3, <2>2
<1>6. ASSUME IsInjective(v) PROVE Head(v) \notin Range(Tail(v))
  BY <1>1, <1>4, <1>6 DEF IsInjective
<1>7. ASSUME IsInjective(v) PROVE IsInjective(Tail(v))
  <2> SUFFICES ASSUME NEW a \in 1 .. Len(v) - 1, NEW b \in 1 .. Len(v) - 1, Tail(v)[a] = Tail(v)[b]
               PROVE  a = b
    BY <1>1 DEF IsInjective
  <2>1. a + 1 \in DOMAIN v /\ b + 1 \in DOMAIN v /\ v[a + 1] = v[b + 1]
    BY <1>1, <1>2
  <2>2. a + 1 = b + 1
    BY <1>7, <2>1 DEF IsInjective
  <2>3. QED BY <2>2
<1>8. QED BY <1>1, <1>5, <1>6, <1>7

LEMMA RangeCounts ==
    ASSUME NEW S, NEW v \in Seq(S)
    PROVE  /\ IsFiniteSet(Range(v)) /\ Cardinality(Range(v)) <= Len(v)
           /\ IsInjective(v) <=> Cardinality(Range(v)) = Len(v)
<1>1. Len(v) \in Nat /\ DOMAIN v = 1 .. Len(v)
  OBVIOUS
<1>2. IsFiniteSet(1 .. Len(v)) /\ Cardinality(1 .. Len(v)) = Len(v)
  <2>1. IsFiniteSet(1 .. Len(v)) /\ Cardinality(1 .. Len(v)) = (IF 1 > Len(v) THEN 0 ELSE Len(v) - 1 + 1)
    BY <1>1, FS_Interval
  <2>2. QED BY <1>1, <2>1
<1>3. v \in Surjection(1 .. Len(v), Range(v))
  BY <1>1 DEF Surjection, Range
<1>4. IsFiniteSet(Range(v)) /\ Cardinality(Range(v)) <= Len(v)
  BY <1>2, <1>3, FS_Surjection
<1>5. Cardinality(Range(v)) = Len(v) <=> v \in Injection(1 .. Len(v), Range(v))
  BY <1>2, <1>3, FS_Surjection
<1>6. v \in Injection(1 .. Len(v), Range(v)) <=> IsInjective(v)
  BY <1>1, <1>3 DEF Injection, Surjection, IsInjective
<1>7. QED BY <1>4, <1>5, <1>6

LEMMA SequenceOfRange ==
    ASSUME NEW S, NEW v \in Seq(S), NEW X, Range(v) \subseteq X
    PROVE  v \in Seq(X)
<1>1. Len(v) \in Nat /\ DOMAIN v = 1 .. Len(v) /\ v \in [1 .. Len(v) -> S]
  OBVIOUS
<1>2. \A k \in 1 .. Len(v) : v[k] \in X
  BY <1>1 DEF Range
<1>3. v \in [1 .. Len(v) -> X]
  BY <1>1, <1>2
<1>4. QED BY <1>1, <1>3

-----------------------------------------------------------------------------
(* Counting: the places of a sequence where something stands. *)

PlacesOf(s, e) == {i \in DOMAIN s : s[i] = e}

LEMMA PlacesGrow ==
    ASSUME NEW S, NEW s \in Seq(S), NEW x \in S, NEW e
    PROVE  /\ IsFiniteSet(PlacesOf(s, e)) /\ Cardinality(PlacesOf(s, e)) \in Nat
           /\ Cardinality(PlacesOf(Append(s, x), e)) = Cardinality(PlacesOf(s, e)) + (IF x = e THEN 1 ELSE 0)
<1>1. PICK n \in Nat : n = Len(s) /\ DOMAIN s = 1 .. n
  OBVIOUS
<1>2. PICK t \in Seq(S) : /\ t = Append(s, x) /\ DOMAIN t = 1 .. n + 1 /\ t[n + 1] = x
                          /\ \A i \in 1 .. n : t[i] = s[i]
  <2>1. /\ Append(s, x) \in Seq(S) /\ Len(Append(s, x)) = Len(s) + 1
        /\ (\A i \in 1 .. Len(s) : Append(s, x)[i] = s[i]) /\ Append(s, x)[Len(s) + 1] = x
    OBVIOUS
  <2>2. DOMAIN Append(s, x) = 1 .. n + 1
    BY <1>1, <2>1
  <2>3. QED BY <1>1, <2>1, <2>2
<1>3. PlacesOf(s, e) \subseteq 1 .. n /\ n + 1 \notin PlacesOf(s, e)
  BY <1>1 DEF PlacesOf
<1>4. IsFiniteSet(1 .. n)
  BY FS_Interval
<1>5. IsFiniteSet(PlacesOf(s, e)) /\ Cardinality(PlacesOf(s, e)) \in Nat
  BY <1>3, <1>4, FS_Subset, FS_CardinalityType
<1>6. CASE x = e
  <2>1. PlacesOf(t, e) = PlacesOf(s, e) \cup {n + 1}
    BY <1>1, <1>2, <1>6 DEF PlacesOf
  <2>2. Cardinality(PlacesOf(s, e) \cup {n + 1}) = Cardinality(PlacesOf(s, e)) + 1
    BY <1>3, <1>5, FS_AddElement
  <2>3. QED BY <1>2, <1>5, <1>6, <2>1, <2>2
<1>7. CASE x # e
  <2>1. PlacesOf(t, e) = PlacesOf(s, e)
    BY <1>1, <1>2, <1>7 DEF PlacesOf
  <2>2. QED BY <1>2, <1>5, <1>7, <2>1
<1>8. QED BY <1>6, <1>7

=============================================================================
