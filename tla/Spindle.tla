------------------------------ MODULE Spindle -------------------------------
(***************************************************************************)
(* SpindleExecutor (agents/core/spindle.py): run, which executes a DAG one *)
(* node at a time, and run_parallel, which executes it wave by wave in a   *)
(* thread pool; both unwind with compensate_fn when a node fails.  Other   *)
(* threads may call interrupt at any time, and the executor may be run     *)
(* again on the same DAG, whose nodes keep their status.                   *)
(***************************************************************************)
EXTENDS SpindleDag

CONSTANTS
    Nodes,
    Graphs,        \* DAGs: records [ids, dependsOn, undoable]
    MaxWorkers,    \* max_workers
    MaxRuns,       \* bound on the runs
    NoNode

ASSUME NodesAssumption == IsFiniteSet(Nodes) /\ NoNode \notin Nodes
ASSUME WorkersAssumption == MaxWorkers \in Nat \ {0} /\ MaxRuns \in Nat
ASSUME GraphsAssumption ==
    \A g \in Graphs :
        /\ g.ids \in Seq(Nodes) /\ Range(g.ids) = Nodes /\ IsInjective(g.ids)
        /\ g.dependsOn \in [Nodes -> Seq(Nodes)]
        /\ g.undoable \subseteq Nodes

VARIABLES
    graph,         \* the DAG
    status,        \* SpindleNode.status
    interrupted,   \* _interrupted_nodes
    phase,         \* where run or run_parallel is
    plan,          \* what is left: nodes in order, or waves
    unfiltered,    \* nodes of the wave the filter has not looked at
    future,        \* the future of each node submitted in this wave
    completed,     \* result.completed_nodes
    failedNode,    \* result.failed_node; result.success is failedNode = NoNode
    compensated,   \* result.compensated_nodes
    left,          \* how many of completed_nodes _compensate has still to visit
    effect,        \* the effect of each node on the world, in this run
    runs           \* runs begun

spVars == <<graph, status, interrupted, phase, plan, unfiltered, future, completed,
          failedNode, compensated, left, effect, runs>>

Deps(n) == DepSet(graph.dependsOn, n)
Statuses == {"pending", "running", "completed", "failed", "compensated", "skipped"}
Futures == {"none", "queued", "running", "ok", "raised", "collected"}

SpindleInit ==
    /\ graph \in Graphs
    /\ status = [n \in Nodes |-> "pending"]
    /\ interrupted = {}
    /\ phase = "idle"
    /\ plan = <<>>
    /\ unfiltered = {}
    /\ future = [n \in Nodes |-> "none"]
    /\ completed = <<>> /\ compensated = <<>>
    /\ failedNode = NoNode
    /\ left = 0
    /\ effect = [n \in Nodes |-> "none"]
    /\ runs = 0

\* interrupt(node_id), from another thread: honoured only before the node starts.
Interrupt(n) ==
    /\ n \notin interrupted
    /\ interrupted' = interrupted \cup {n}
    /\ UNCHANGED <<graph, status, phase, plan, unfiltered, future, completed,
                   failedNode, compensated, left, effect, runs>>

\* A fresh SpindleResult; the node statuses stay as the last run left them.
Begin ==
    /\ phase \in {"idle", "returned"} /\ runs < MaxRuns
    /\ ~ValidateRaises(graph.ids, graph.dependsOn)
    /\ completed' = <<>> /\ compensated' = <<>>
    /\ failedNode' = NoNode
    /\ left' = 0
    /\ effect' = [n \in Nodes |-> "none"]
    /\ future' = [n \in Nodes |-> "none"]
    /\ unfiltered' = {}
    /\ runs' = runs + 1
    /\ UNCHANGED <<graph, status, interrupted>>

DepsCompleted(n) == \A d \in Deps(n) : status[d] = "completed"

-----------------------------------------------------------------------------
(* run: the nodes in topological order. *)

BeginRun ==
    /\ Begin
    /\ plan' = TopologicalOrder(graph.ids, graph.dependsOn)
    /\ phase' = "run"

\* The next node is skipped, or started and its execute_fn called.
VisitNode ==
    /\ phase = "run" /\ plan # <<>>
    /\ LET n == Head(plan)
       IN  \/ /\ n \in interrupted \/ ~DepsCompleted(n)
              /\ status' = [status EXCEPT ![n] = "skipped"]
              /\ UNCHANGED <<phase, future>>
           \/ /\ n \notin interrupted /\ DepsCompleted(n)
              /\ status' = [status EXCEPT ![n] = "running"]
              /\ future' = [future EXCEPT ![n] = "running"]
              /\ phase' = "node"
    /\ plan' = Tail(plan)
    /\ UNCHANGED <<graph, interrupted, unfiltered, completed, failedNode, compensated,
                   left, effect, runs>>

Collected(n) == Append(completed, n)

\* execute_fn returns.
NodeReturns(n) ==
    /\ phase = "node" /\ future[n] = "running"
    /\ status' = [status EXCEPT ![n] = "completed"]
    /\ effect' = [effect EXCEPT ![n] = "applied"]
    /\ future' = [future EXCEPT ![n] = "collected"]
    /\ completed' = Collected(n)
    /\ phase' = "run"
    /\ UNCHANGED <<graph, interrupted, plan, unfiltered, failedNode, compensated, left,
                   runs>>

\* execute_fn raises: the saga turns back at once.
NodeRaises(n) ==
    /\ phase = "node" /\ future[n] = "running"
    /\ status' = [status EXCEPT ![n] = "failed"]
    /\ future' = [future EXCEPT ![n] = "collected"]
    /\ failedNode' = n
    /\ left' = Len(completed)
    /\ phase' = "compensate"
    /\ UNCHANGED <<graph, interrupted, plan, unfiltered, completed, compensated, effect,
                   runs>>

-----------------------------------------------------------------------------
(* run_parallel: the nodes of a wave in the thread pool. *)

BeginParallel ==
    /\ Begin
    /\ plan' = ExecutionWaves(graph.ids, graph.dependsOn)
    /\ phase' = "waves"

OpenWave ==
    /\ phase = "waves" /\ plan # <<>>
    /\ unfiltered' = Head(plan)
    /\ plan' = Tail(plan)
    /\ future' = [n \in Nodes |-> "none"]
    /\ phase' = "filter"
    /\ UNCHANGED <<graph, status, interrupted, completed, failedNode, compensated, left,
                   effect, runs>>

\* The filter looks at one node of the wave: skipped, or to be submitted.
FilterNode(n) ==
    /\ phase = "filter" /\ n \in unfiltered
    /\ unfiltered' = unfiltered \ {n}
    /\ \/ /\ n \in interrupted \/ ~DepsCompleted(n)
          /\ status' = [status EXCEPT ![n] = "skipped"]
          /\ UNCHANGED future
       \/ /\ n \notin interrupted /\ DepsCompleted(n)
          /\ future' = [future EXCEPT ![n] = "queued"]
          /\ UNCHANGED status
    /\ UNCHANGED <<graph, interrupted, phase, plan, completed, failedNode, compensated,
                   left, effect, runs>>

\* All runnable nodes are submitted; an empty wave is passed over.
SubmitWave ==
    /\ phase = "filter" /\ unfiltered = {}
    /\ phase' = IF \A n \in Nodes : future[n] = "none" THEN "waves" ELSE "pool"
    /\ UNCHANGED <<graph, status, interrupted, plan, unfiltered, future, completed,
                   failedNode, compensated, left, effect, runs>>

\* _execute_single_node in a free worker thread.
WorkerStarts(n) ==
    /\ phase = "pool" /\ future[n] = "queued"
    /\ Cardinality({m \in Nodes : future[m] = "running"}) < MaxWorkers
    /\ status' = [status EXCEPT ![n] = "running"]
    /\ future' = [future EXCEPT ![n] = "running"]
    /\ UNCHANGED <<graph, interrupted, phase, plan, unfiltered, completed, failedNode,
                   compensated, left, effect, runs>>

WorkerReturns(n) ==
    /\ phase = "pool" /\ future[n] = "running"
    /\ status' = [status EXCEPT ![n] = "completed"]
    /\ effect' = [effect EXCEPT ![n] = "applied"]
    /\ future' = [future EXCEPT ![n] = "ok"]
    /\ UNCHANGED <<graph, interrupted, phase, plan, unfiltered, completed, failedNode,
                   compensated, left, runs>>

\* The exception stays in the future; the status is still "running".
WorkerRaises(n) ==
    /\ phase = "pool" /\ future[n] = "running"
    /\ future' = [future EXCEPT ![n] = "raised"]
    /\ UNCHANGED <<graph, status, interrupted, phase, plan, unfiltered, completed,
                   failedNode, compensated, left, effect, runs>>

\* as_completed yields a finished future to the main thread.
CollectResult(n) ==
    /\ phase = "pool" /\ future[n] = "ok"
    /\ future' = [future EXCEPT ![n] = "collected"]
    /\ completed' = Collected(n)
    /\ UNCHANGED <<graph, status, interrupted, phase, plan, unfiltered, failedNode,
                   compensated, left, effect, runs>>

CollectError(n) ==
    /\ phase = "pool" /\ future[n] = "raised"
    /\ future' = [future EXCEPT ![n] = "collected"]
    /\ status' = [status EXCEPT ![n] = "failed"]
    /\ failedNode' = n
    /\ UNCHANGED <<graph, interrupted, phase, plan, unfiltered, completed, compensated,
                   left, effect, runs>>

\* Mutants: the first failure breaks out of the loop; skipped nodes are awaited.
WaveDoneOnFailure ==
    failedNode # NoNode \/ \A n \in Nodes : future[n] \in {"none", "collected"}
WaveDoneAll == \A n \in Nodes : future[n] = "collected"
WaveDone == \A n \in Nodes : future[n] \in {"none", "collected"}

\* The pool has shut down: on to the next wave, or back.
CloseWave ==
    /\ phase = "pool"
    /\ WaveDone
    /\ IF failedNode = NoNode
       THEN phase' = "waves" /\ UNCHANGED left
       ELSE phase' = "compensate" /\ left' = Len(completed)
    /\ UNCHANGED <<graph, status, interrupted, plan, unfiltered, future, completed,
                   failedNode, compensated, effect, runs>>

-----------------------------------------------------------------------------
(* _compensate: completed_nodes in reverse. *)

\* Mutant: in the order of completion.
ForwardUndo == completed[Len(completed) - left + 1]
NextToUndo == completed[left]

\* Without a compensate_fn, or if it raises, the node stays as it is.
CompensateNode ==
    /\ phase = "compensate" /\ left > 0
    /\ LET n == NextToUndo
       IN  \/ /\ n \in graph.undoable
              /\ status' = [status EXCEPT ![n] = "compensated"]
              /\ compensated' = Append(compensated, n)
              /\ effect' = [effect EXCEPT ![n] = "undone"]
           \/ /\ effect' = [effect EXCEPT ![n] = "kept"]
              /\ UNCHANGED <<status, compensated>>
    /\ left' = left - 1
    /\ UNCHANGED <<graph, interrupted, phase, plan, unfiltered, future, completed,
                   failedNode, runs>>

\* The nodes are exhausted, or the saga is unwound.
Return ==
    /\ \/ phase \in {"run", "waves"} /\ plan = <<>>
       \/ phase = "compensate" /\ left = 0
    /\ phase' = "returned"
    /\ UNCHANGED <<graph, status, interrupted, plan, unfiltered, future, completed,
                   failedNode, compensated, left, effect, runs>>

SpindleStep ==
    \/ VisitNode \/ OpenWave \/ SubmitWave \/ CloseWave \/ CompensateNode \/ Return
    \/ \E n \in Nodes :
          \/ NodeReturns(n) \/ NodeRaises(n)
          \/ FilterNode(n) \/ WorkerStarts(n) \/ WorkerReturns(n) \/ WorkerRaises(n)
          \/ CollectResult(n) \/ CollectError(n)

SpindleNext == BeginRun \/ BeginParallel \/ SpindleStep \/ \E n \in Nodes : Interrupt(n)

SpindleSpec == SpindleInit /\ [][SpindleNext]_spVars

\* The calling thread runs, a free worker takes a task, and execute_fn and
\* compensate_fn end, with a result or an exception.
SpindleFairSpec == SpindleSpec /\ WF_spVars(SpindleStep)

-----------------------------------------------------------------------------
(* Properties. *)

\* The values each variable ranges over.
SpindleTypeOK ==
    /\ graph \in Graphs
    /\ status \in [Nodes -> Statuses]
    /\ interrupted \subseteq Nodes
    /\ phase \in {"idle", "run", "node", "waves", "filter", "pool", "compensate",
                   "returned"}
    /\ unfiltered \subseteq Nodes
    /\ future \in [Nodes -> Futures]
    /\ completed \in Seq(Nodes) /\ compensated \in Seq(Nodes)
    /\ failedNode \in Nodes \cup {NoNode}
    /\ left \in 0 .. Len(completed) /\ (left > 0 => phase = "compensate")
    /\ effect \in [Nodes -> {"none", "applied", "undone", "kept"}]
    /\ runs \in 0 .. MaxRuns

\* A failed run (spindle.py:369-387, 460-491) leaves no effect it has not tried to
\* undo, also when a node of the failing wave finishes after the failure.
FailedRunLeavesNothing ==
    phase = "returned" /\ failedNode # NoNode => \A n \in Nodes : effect[n] # "applied"

\* _compensate (spindle.py:546-573) undoes in the reverse of the order in which the
\* results came in, passing over what it could not undo.
UnwoundInReverse ==
    phase = "returned" /\ failedNode # NoNode =>
        compensated = InOrder(Reverse(completed), {n \in Nodes : effect[n] = "undone"})

\* A run without a failure (spindle.py:306-326, 435-455) leaves out only what was
\* interrupted and what depends on a node left out, whatever statuses an earlier
\* run left behind.
SkippedIsExplained ==
    phase = "returned" /\ failedNode = NoNode =>
        \A n \in Nodes \ Range(completed) :
            n \in interrupted \/ ~(Deps(n) \subseteq Range(completed))

Course ==
    CASE phase = "idle" -> "idle"
      [] phase \in {"run", "node", "waves", "filter", "pool"} -> "forward"
      [] phase = "compensate" -> "backward"
      [] phase = "returned" -> "ended"

AbstractSaga == INSTANCE Saga WITH deps <- [n \in Nodes |-> Deps(n)], course <- Course

\* Both run methods carry out a saga: effects after those they depend on, undone
\* before them, and none unvisited when a failed run returns (spindle.py:286-573).
ImplementsSaga == AbstractSaga!Spec

\* A run ends, whatever fails, is interrupted or is skipped (spindle.py:306-390,
\* 427-499).
Terminates == phase \notin {"idle", "returned"} ~> phase = "returned"

\* A failed run is undone in order, and only what cannot be undone stays.
FailedRunIsUndone == UnwoundInReverse /\ SkippedIsExplained /\ FailedRunLeavesNothing
=============================================================================
