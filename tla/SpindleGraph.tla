---------------------------- MODULE SpindleGraph ----------------------------
(***************************************************************************)
(* A SpindleDAG as its client builds it, one add_node at a time, and what  *)
(* the graph algorithms of SpindleDag compute for every graph so reached.  *)
(***************************************************************************)
EXTENDS SpindleDag

CONSTANTS
    NodeIds,     \* node ids a client may use
    MaxDeps      \* bound on the length of a depends_on list

ASSUME MaxDepsAssumption == MaxDeps \in Nat

VARIABLES ids, dependsOn

sgVars == <<ids, dependsOn>>

DepLists == UNION {[1 .. k -> NodeIds] : k \in 0 .. MaxDeps}

GraphInit == ids = <<>> /\ dependsOn = [n \in NodeIds |-> <<>>]

\* add_node raises for an id already there; it does not look at depends_on.
AddNode(n, deps) ==
    /\ n \notin Range(ids)
    /\ ids' = Append(ids, n)
    /\ dependsOn' = [dependsOn EXCEPT ![n] = deps]

GraphNext == \E n \in NodeIds, deps \in DepLists : AddNode(n, deps)

GraphSpec == GraphInit /\ [][GraphNext]_sgVars

-----------------------------------------------------------------------------
(* Properties. *)

\* topological_order (spindle.py:153-185) returns every node after all it depends
\* on, whatever the insertion order, or raises.
OrderIsTopological ==
    DepsKnown(ids, dependsOn) /\ ~OrderRaises(ids, dependsOn) =>
        IsTopological(TopologicalOrder(ids, dependsOn), ids, dependsOn)

\* A cycle is always found, and it is all that is found in a graph whose lists name
\* each dependency once (spindle.py:182-183).
CycleFound ==
    DepsKnown(ids, dependsOn) =>
        /\ HasCycle(ids, dependsOn) => OrderRaises(ids, dependsOn)
        /\ (\A n \in NodeIds : IsInjective(dependsOn[n])) =>
              (OrderRaises(ids, dependsOn) => HasCycle(ids, dependsOn))

\* The waves of an acyclic graph (spindle.py:187-213) partition its nodes, no node
\* is in the wave of a dependency or in an earlier one, and none waits a wave longer
\* than its dependencies require.
WavesAreLayers ==
    DepsKnown(ids, dependsOn) /\ ~HasCycle(ids, dependsOn) =>
        LET waves == ExecutionWaves(ids, dependsOn)
        IN  /\ UNION Range(waves) = Range(ids)
            /\ \A j \in DOMAIN waves : \A n \in waves[j] :
                  /\ \A k \in DOMAIN waves :
                        k >= j => DepSet(dependsOn, n) \cap waves[k] = {}
                  /\ j > 1 => DepSet(dependsOn, n) \cap waves[j - 1] # {}

\* All three algorithms agree with their reference definitions.
OrdersAreRight == OrderIsTopological /\ CycleFound /\ WavesAreLayers
=============================================================================
