------------------------------- MODULE HlfRun -------------------------------
(* HLFInterpreter (hlf/hlfrun.py): the statements of a program run one after the
   other, one unit of gas each, nested ones included. A PARALLEL gives every task
   a thread and an interpreter of its own, whose budget is what the parent has left
   when the task starts; the parent charges a task when its future completes. *)
EXTENDS Naturals, Sequences, FiniteSetsExt, Functions

CONSTANTS GasCap,          \* max_gas of the run
          MaxMacroDepth,   \* MAX_MACRO_DEPTH
          ProgramLength    \* bound on the statements of a program

ASSUME HlfAssumption == GasCap \in Nat /\ MaxMacroDepth \in Nat /\ ProgramLength \in Nat

VARIABLES hrRun,         \* the interpreters: 0 is the program's, i the one of task i
          hrReports,     \* results of the PARALLEL in hand: [task, name, ok]
          hrCollected,   \* tasks whose future as_completed has yielded
          hrNamed,       \* _parallel_results: per name the PARALLEL and the task of its entry
          hrRound,       \* the number of PARALLELs begun
          hrExecuted,    \* history: nodes executed by all interpreters
          hrLost,        \* history: gas of tasks that the parent was never charged for
          hrBonus        \* history: what ⩕ has added to the parent's max_gas
hrVars == <<hrRun, hrReports, hrCollected, hrNamed, hrRound, hrExecuted, hrLost, hrBonus>>

\* Nodes. A "plain" one calls or acknowledges, a "bind" one is a SET, and a "fails" one
\* raises. The nodes inside a CALL are the macro's body; without any, it calls itself.
Leaf(tag) == [tag |-> tag, inner |-> <<>>]
Wrap(tag, nodes) == [tag |-> tag, inner |-> nodes]
Simple == {Leaf("plain"), Leaf("fails"), Leaf("RESULT"), Leaf("CALL"), Leaf("SPEC_SEAL"), Leaf("SPEC_UPDATE")}
Nested ==
  {Wrap(tag, <<n>>) : tag \in {"PRIORITY", "CONDITIONAL", "SYNC", "CALL"}, n \in {Leaf("plain"), Leaf("RESULT")}}
TaskNodes == {Leaf("plain"), Leaf("bind"), Leaf("fails"), Leaf("CALL"), Wrap("PRIORITY", <<Leaf("plain")>>)}
Parallels == {Wrap("PARALLEL", tasks) : tasks \in TaskNodes \X TaskNodes} \cup {Wrap("PARALLEL", <<>>)}
Statements == Simple \cup Nested \cup Parallels
MacroBody(call) == IF call.inner = <<>> THEN <<Leaf("plain"), call>> ELSE call.inner
Tasks == {1, 2}
\* task_name: the first argument, here one of its own for each task, or else the tag.
TaskName(node, i) == IF node.tag \in {"plain", "fails"} THEN <<node.tag, i>> ELSE <<node.tag, 0>>
TaskNames == {TaskName(n, i) : n \in TaskNodes, i \in Tasks}

Fresh(work, max) ==
  [work |-> work, gas |-> 0, max |-> max, depth |-> 0,
   sealed |-> FALSE, name |-> <<"", 0>>, state |-> "running"]
NoRun == [Fresh(<<>>, 0) EXCEPT !.state = "none"]

HlfInit ==
  /\ \E n \in 1 .. ProgramLength : \E program \in [1 .. n -> Statements] :
       hrRun = [i \in {0} \cup Tasks |-> IF i = 0 THEN Fresh(program, GasCap) ELSE NoRun]
  /\ hrReports = <<>> /\ hrCollected = {} /\ hrNamed = [n \in TaskNames |-> <<0, 0>>] /\ hrRound = 0
  /\ hrExecuted = 0 /\ hrLost = 0 /\ hrBonus = 0

Raised(r) == [r EXCEPT !.work = <<>>, !.state = "raised"]

\* _consume_gas
Affords(r, cost) == r.gas + cost <= r.max

\* What a node does once it is paid for, in the interpreter r (_execute_node and the
\* executors of the tags); "return" ends a macro's body.
Executed(r, node) ==
  CASE node.tag = "RESULT" -> [r EXCEPT !.work = <<>>]
    [] node.tag = "fails" -> Raised(r)
    [] node.tag = "PRIORITY" -> [r EXCEPT !.max = @ + 5, !.work = node.inner \o @]
    [] node.tag = "SYNC" -> [r EXCEPT !.work = node.inner \o @]
    [] node.tag = "CALL" -> IF r.depth >= MaxMacroDepth THEN Raised(r)
                            ELSE [r EXCEPT !.depth = @ + 1, !.work = MacroBody(node) \o <<Leaf("return")>> \o @]
    [] node.tag = "SPEC_SEAL" -> IF r.sealed THEN Raised(r) ELSE [r EXCEPT !.sealed = TRUE]
    [] node.tag = "SPEC_UPDATE" -> IF r.sealed THEN Raised(r) ELSE r
    [] OTHER -> r

\* The next node of an interpreter, and the interpreter without it.
Next1(i) == Head(hrRun[i].work)
Rest(i) == [hrRun[i] EXCEPT !.work = Tail(@)]
CanStep(i) == hrRun[i].state = "running" /\ hrRun[i].work # <<>>
hrParallel == <<hrReports, hrCollected, hrNamed, hrRound, hrLost>>

MacroReturns(i) ==
  /\ CanStep(i) /\ Next1(i).tag = "return"
  /\ hrRun' = [hrRun EXCEPT ![i] = [Rest(i) EXCEPT !.depth = @ - 1]]
  /\ UNCHANGED <<hrParallel, hrExecuted, hrBonus>>

GasRunsOut(i) ==
  /\ CanStep(i) /\ Next1(i).tag # "return" /\ ~Affords(hrRun[i], 1)
  /\ hrRun' = [hrRun EXCEPT ![i] = Raised(Rest(i))]
  /\ UNCHANGED <<hrParallel, hrExecuted, hrBonus>>

NodeRuns(i) ==
  /\ CanStep(i) /\ Next1(i).tag # "return" /\ Affords(hrRun[i], 1)
  /\ hrExecuted' = hrExecuted + 1
  /\ LET node == Next1(i)
         paid == [Rest(i) EXCEPT !.gas = @ + 1]
     IN /\ hrBonus' = hrBonus + (IF i = 0 /\ node.tag = "PRIORITY" THEN 5 ELSE 0)
        /\ \/ node.tag # "PARALLEL" /\ hrRun' = [hrRun EXCEPT ![i] = Executed(paid, node)]
           \/ node.tag = "CONDITIONAL" /\ hrRun' = [hrRun EXCEPT ![i] = [paid EXCEPT !.work = node.inner \o @]]
           \/ node.tag = "PARALLEL" /\ node.inner = <<>> /\ hrRun' = [hrRun EXCEPT ![i] = paid]
  /\ UNCHANGED hrParallel

\* _exec_parallel submits its tasks.
ParallelBegins ==
  /\ CanStep(0) /\ Next1(0).tag = "PARALLEL" /\ Next1(0).inner # <<>> /\ Affords(hrRun[0], 1)
  /\ hrExecuted' = hrExecuted + 1
  /\ hrRun' = [j \in DOMAIN hrRun |->
       IF j = 0 THEN [Rest(0) EXCEPT !.gas = @ + 1, !.state = "waiting"]
       ELSE [Fresh(<<Next1(0).inner[j]>>, 0) EXCEPT !.state = "submitted",
                !.name = TaskName(Next1(0).inner[j], j)]]
  /\ hrReports' = <<>> /\ hrCollected' = {} /\ hrRound' = hrRound + 1
  /\ UNCHANGED <<hrNamed, hrLost, hrBonus>>

HlfEnds(i) ==
  /\ hrRun[i].state = "running" /\ hrRun[i].work = <<>>
  /\ hrRun' = [hrRun EXCEPT ![i].state = "ended"]
  /\ UNCHANGED <<hrReports, hrCollected, hrNamed, hrRound, hrExecuted, hrLost, hrBonus>>

\* A worker starts _run_task: it reads the parent's gas_used as it is now.
TaskStarts(i) ==
  /\ hrRun[i].state = "submitted"
  /\ hrRun' = [hrRun EXCEPT ![i].state = "running", ![i].max = hrRun[0].max - hrRun[0].gas]
  /\ UNCHANGED <<hrReports, hrCollected, hrNamed, hrRound, hrExecuted, hrLost, hrBonus>>

\* Mutant: a task costs what it was given.
CostBudget(task) == task.max
\* The task's gas_used.
Cost(task) == task.gas
Charged(parent, task) == task.state = "ended" /\ Affords(parent, Cost(task))
\* The parent's loop takes a completed future. A result is reported before it is
\* charged and named: a task whose charge is refused is reported again, as an error,
\* and one of two tasks with one name replaces the other's entry.
TaskCollected(i) ==
  /\ hrRun[0].state = "waiting" /\ hrRun[i].state \in {"ended", "raised"} /\ i \notin hrCollected
  /\ hrCollected' = hrCollected \cup {i}
  /\ LET paid == Charged(hrRun[0], hrRun[i])
         name == hrRun[i].name
         Report(ok) == <<[task |-> i, name |-> name, ok |-> ok]>>
     IN /\ hrReports' = hrReports \o (IF hrRun[i].state = "ended" THEN Report(TRUE) ELSE <<>>)
                                  \o (IF paid THEN <<>> ELSE Report(FALSE))
        /\ hrNamed' = IF paid THEN [hrNamed EXCEPT ![name] = <<hrRound, i>>] ELSE hrNamed
        /\ hrRun' = IF paid THEN [hrRun EXCEPT ![0].gas = @ + Cost(hrRun[i])] ELSE hrRun
        /\ hrLost' = IF paid THEN hrLost ELSE hrLost + hrRun[i].gas
  /\ UNCHANGED <<hrRound, hrExecuted, hrBonus>>

\* Mutant: the loop waits for as many results.
AllNamed == \A i \in Tasks : hrNamed[hrRun[i].name] = <<hrRound, i>>
AllCollected == hrCollected = Tasks
ParallelEnds ==
  /\ hrRun[0].state = "waiting" /\ AllCollected
  /\ hrRun' = [hrRun EXCEPT ![0].state = "running", ![1] = NoRun, ![2] = NoRun]
  /\ UNCHANGED <<hrReports, hrCollected, hrNamed, hrRound, hrExecuted, hrLost, hrBonus>>

HlfNext ==
  \/ \E i \in {0} \cup Tasks : MacroReturns(i) \/ GasRunsOut(i) \/ NodeRuns(i) \/ HlfEnds(i)
  \/ \E i \in Tasks : TaskStarts(i) \/ TaskCollected(i)
  \/ ParallelBegins \/ ParallelEnds

HlfSpec == HlfInit /\ [][HlfNext]_hrVars

-----------------------------------------------------------------------------
\* Gas is conserved: every node executed is in the counter of an interpreter that
\* is still to be charged, in the parent's, or was lost with a task that failed
\* (_consume_gas, _exec_parallel).
NodesAreAccountedFor ==
  hrExecuted = hrRun[0].gas + hrLost
               + (IF 1 \in hrCollected THEN 0 ELSE hrRun[1].gas)
               + (IF 2 \in hrCollected THEN 0 ELSE hrRun[2].gas)

\* No counter exceeds its cap, and the program's cap is what the caller gave it and
\* 5 for each ⩕ that ran, however the tasks' completions interleave.
CountersWithinCaps ==
  /\ hrRun[0].max = GasCap + hrBonus
  /\ \A i \in DOMAIN hrRun : hrRun[i].gas <= hrRun[i].max

\* When a PARALLEL is over, every task has been reported, as a result or an error, and
\* what a SYNC finds under a name is of this PARALLEL exactly if a task of that name
\* has nothing but a result; of two such tasks it finds one.
EveryTaskReported ==
  hrRun[0].state # "waiting" /\ hrCollected # {} =>
    LET Outcomes(i) == {r \in Range(hrReports) : r.task = i}
        Fine(i) == \A r \in Outcomes(i) : r.ok
    IN \A i \in Tasks :
         /\ Outcomes(i) # {}
         /\ \A r \in Outcomes(i) :
              LET named == {j \in Tasks : Fine(j) /\ \E o \in Outcomes(j) : o.name = r.name}
              IN IF named = {} THEN hrNamed[r.name][1] # hrRound
                 ELSE hrNamed[r.name][1] = hrRound /\ hrNamed[r.name][2] \in named

\* Every program comes to an end: recursion meets the depth or the gas limit, and a
\* PARALLEL whose tasks fail is over as well.
ProgramEnds == <>(hrRun[0].state \in {"ended", "raised"})

\* "Per-intent hard gas cap (AST node executions)" (hlfrun.py): all that a program
\* executes, tasks included, is at most its cap. Each task has the whole rest of
\* the budget for itself, and one that fails is never charged.
HardGasCap == hrExecuted <= GasCap + hrBonus

\* The interpreter's books balance whatever the tasks of a PARALLEL do.
GasIsMetered == NodesAreAccountedFor /\ CountersWithinCaps /\ EveryTaskReported
=============================================================================
