----------------------------- MODULE SpindleDag -----------------------------
(***************************************************************************)
(* The graph algorithms of SpindleDAG (agents/core/spindle.py).  A graph   *)
(* is the sequence of node ids in insertion order and, for each node, its  *)
(* depends_on list, in which an id may occur twice.                        *)
(***************************************************************************)
EXTENDS Integers, Sequences, FiniteSets, Functions, SequencesExt

DepSet(dependsOn, n) == Range(dependsOn[n])

\* validate, first part: every dependency names a node.
DepsKnown(ids, dependsOn) == \A n \in Range(ids) : DepSet(dependsOn, n) \subseteq Range(ids)

\* Of the first k elements of s those in S, in their order, for every k.
KeptUpTo(s, S) ==
    LET kept[k \in 0 .. Len(s)] ==
            IF k = 0 THEN <<>>
            ELSE IF s[k] \in S THEN Append(kept[k - 1], s[k]) ELSE kept[k - 1]
    IN  kept

InOrder(s, S) == KeptUpTo(s, S)[Len(s)]

-----------------------------------------------------------------------------
(* topological_order: Kahn's algorithm over a FIFO queue. *)

\* in_degree counts every occurrence in depends_on.
InDegree(dependsOn, n) == Len(dependsOn[n])

KahnStart(ids, dependsOn) ==
    LET degree == [n \in Range(ids) |-> InDegree(dependsOn, n)]
    IN  [degree |-> degree, order |-> <<>>,
         queue |-> InOrder(ids, {n \in Range(ids) : degree[n] = 0})]

\* Mutant: a dependent joins the queue when its first dependency is done.
FreedByAny(s, m) == s.degree[m] >= 1
Freed(s, m) == s.degree[m] = 1

\* Pop one node; each dependent loses one, and joins the queue when it reaches 0.
KahnStep(ids, dependsOn, s) ==
    LET nid == Head(s.queue)
        freed == {m \in Range(ids) : nid \in DepSet(dependsOn, m)}
    IN  [degree |-> [m \in Range(ids) |-> s.degree[m] - (IF m \in freed THEN 1 ELSE 0)],
         order |-> Append(s.order, nid),
         queue |-> Tail(s.queue)
                   \o InOrder(ids, {m \in freed : Freed(s, m)})]

\* The state after at most k iterations of the loop, for every k.
Kahn(ids, dependsOn) ==
    LET after[k \in 0 .. Len(ids)] ==
            IF k = 0 THEN KahnStart(ids, dependsOn)
            ELSE IF after[k - 1].queue = <<>> THEN after[k - 1]
            ELSE KahnStep(ids, dependsOn, after[k - 1])
    IN  after

TopologicalOrder(ids, dependsOn) == Kahn(ids, dependsOn)[Len(ids)].order

\* topological_order raises "DAG contains a cycle".
OrderRaises(ids, dependsOn) == Len(TopologicalOrder(ids, dependsOn)) # Len(ids)

\* validate raises for an unknown dependency or what looks like a cycle.
ValidateRaises(ids, dependsOn) ==
    ~DepsKnown(ids, dependsOn) \/ OrderRaises(ids, dependsOn)

-----------------------------------------------------------------------------
(* get_execution_waves. *)

Ready(dependsOn, n, done) == DepSet(dependsOn, n) \subseteq done

\* The nodes of the first k waves.
WavesDone(ids, dependsOn) ==
    LET done[k \in 0 .. Len(ids)] ==
            IF k = 0 THEN {}
            ELSE {n \in Range(ids) : Ready(dependsOn, n, done[k - 1])}
    IN  done

WaveCount(ids, dependsOn) ==
    Cardinality({k \in 1 .. Len(ids) :
                    WavesDone(ids, dependsOn)[k] # WavesDone(ids, dependsOn)[k - 1]})

\* Each wave holds the remaining nodes whose dependencies are all in earlier ones.
ExecutionWaves(ids, dependsOn) ==
    [k \in 1 .. WaveCount(ids, dependsOn) |->
        WavesDone(ids, dependsOn)[k] \ WavesDone(ids, dependsOn)[k - 1]]

-----------------------------------------------------------------------------
(* Reference definitions. *)

\* Some nonempty set of nodes in which each depends on another of the set.
HasCycle(ids, dependsOn) ==
    \E S \in (SUBSET Range(ids)) \ {{}} : \A n \in S : DepSet(dependsOn, n) \cap S # {}

\* Every node once, after everything it depends on.
IsTopological(order, ids, dependsOn) ==
    /\ Range(order) = Range(ids) /\ Len(order) = Len(ids)
    /\ \A i, j \in DOMAIN order : order[j] \in DepSet(dependsOn, order[i]) => j < i

=============================================================================
