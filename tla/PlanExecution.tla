--------------------------- MODULE PlanExecution ---------------------------
(* PlanExecutor (agents/core/plan_executor.py) with the two agents it dispatches
   to (code_agent.py, build_agent.py) and the sandbox they act through
   (agent_sandbox.py): a list of tasks becomes a SpindleDAG, whose nodes run one
   after another until one fails. The worktree belongs to one agent. *)
EXTENDS SpindleDag

CONSTANTS PlanPaths,   \* files of the worktree
          MaxTasks     \* bound on the length of a plan

ASSUME PlanAssumption == MaxTasks \in Nat

VARIABLES plTree,      \* the worktree: what each file holds
          plPlan,      \* the task list; a node is the position of its task
          plOrder,     \* topological_order() of its DAG
          plSteps,     \* the steps executed: did each succeed?
          plModified,  \* all_files_modified
          plState,     \* "idle", "running", "succeeded", "failed" or "refused"
          plBefore,    \* history: the worktree when the plan began
          plSeen,      \* history: the worktree at each build step
          plFaulty     \* history: files for which a write has failed
plVars == <<plTree, plPlan, plOrder, plSteps, plModified, plState, plBefore, plSeen, plFaulty>>

\* A file does not exist, holds the text that find/replace tasks look for, does
\* not hold it, or was truncated by a write_text that failed.
Contents == {"absent", "match", "plain", "torn"}
CodeTypes == {"create_file", "modify_file", "edit_file", "refactor", "delete_file"}
BuildTypes == {"run_tests", "check_syntax"}
PlanTasks == [type : (CodeTypes \cup BuildTypes) \ {"refactor", "run_tests"}, path : PlanPaths]
             \cup [type : {"refactor", "run_tests", "unknown"}]

PlanInit ==
  /\ plTree \in [PlanPaths -> {"absent", "match", "plain"}]
  /\ plBefore = plTree /\ plSeen = {} /\ plFaulty = {}
  /\ plPlan = <<>> /\ plOrder = <<>> /\ plSteps = <<>> /\ plModified = {} /\ plState = "idle"

CodeNodes(plan) == {i \in DOMAIN plan : plan[i].type \in CodeTypes}
\* plan_to_dag: code tasks form a chain, and every build task follows its end.
BuildDeps(plan) == IF CodeNodes(plan) = {} THEN <<>> ELSE <<Max(CodeNodes(plan))>>
CodeDeps(plan, i) ==
  LET before == {j \in CodeNodes(plan) : j < i} IN IF before = {} THEN <<>> ELSE <<Max(before)>>
PlanDeps(plan) ==
  [i \in DOMAIN plan |-> IF i \in CodeNodes(plan) THEN CodeDeps(plan, i) ELSE BuildDeps(plan)]
PlanIds(plan) == [i \in DOMAIN plan |-> i]

\* execute_plan up to its loop: an empty list and an unknown type are refused.
ExecutePlan(plan) ==
  /\ plState = "idle"
  /\ plPlan' = plan
  /\ IF plan = <<>> \/ \E i \in DOMAIN plan : plan[i].type = "unknown"
     THEN plState' = "refused" /\ UNCHANGED plOrder
     ELSE /\ plState' = "running"
          /\ plOrder' = TopologicalOrder(PlanIds(plan), PlanDeps(plan))
  /\ UNCHANGED <<plTree, plSteps, plModified, plBefore, plSeen, plFaulty>>

NextTask == plPlan[plOrder[Len(plSteps) + 1]]

\* One turn of the loop ends: fail-fast, or the next node.
StepState(ok) == IF ok /\ Len(plSteps) + 1 < Len(plOrder) THEN "running" ELSE IF ok THEN "succeeded" ELSE "failed"
Step(ok) ==
  /\ plSteps' = Append(plSteps, ok) /\ plState' = StepState(ok)
  /\ UNCHANGED <<plPlan, plOrder, plBefore>>

\* write_file fails: the file is as it was, or truncated.
Failing(f) == {plTree[f], "torn"}

\* _create_file, _modify_file (with new content, or with changes) and _delete_file come
\* down to one file that must (not) be there and what it becomes.
CreateFile == [from |-> {"absent"}, to |-> {"match", "plain"}]
ModifyFile == [from |-> Contents \ {"absent"}, to |-> {"match", "plain"}]
EditFile == [from |-> {"match"}, to |-> {"plain"}]
DeleteFile == [from |-> Contents \ {"absent"}, to |-> {"absent"}]
FileTask(type) ==
  [create_file |-> CreateFile, modify_file |-> ModifyFile,
   edit_file |-> EditFile, delete_file |-> DeleteFile][type]

CodeStep ==
  /\ plState = "running" /\ NextTask.type \in CodeTypes \ {"refactor"}
  /\ LET f == NextTask.path
         task == FileTask(NextTask.type)
     IN \/ /\ plTree[f] \in task.from
           /\ \E c \in task.to : plTree' = [plTree EXCEPT ![f] = c]
           /\ plModified' = plModified \cup {f} /\ Step(TRUE) /\ UNCHANGED plFaulty
        \/ plTree[f] \notin task.from /\ Step(FALSE) /\ UNCHANGED <<plTree, plModified, plFaulty>>
        \/ /\ plTree[f] \in task.from  \* the sandbox's operation fails
           /\ \E c \in IF task.to = {"absent"} THEN {plTree[f]} ELSE Failing(f) :
                plTree' = [plTree EXCEPT ![f] = c]
           /\ plFaulty' = plFaulty \cup {f} /\ Step(FALSE) /\ UNCHANGED plModified
  /\ UNCHANGED plSeen

\* _refactor fails if its search does, and goes on past a file that it cannot read or write.
RefactorStep ==
  /\ plState = "running" /\ NextTask.type = "refactor"
  /\ \/ LET found == {f \in PlanPaths : plTree[f] = "match"} IN
          \E written \in SUBSET found : \E torn \in SUBSET (found \ written) :
            /\ plTree' = [f \in PlanPaths |-> IF f \in written THEN "plain"
                                              ELSE IF f \in torn THEN "torn" ELSE plTree[f]]
            /\ plModified' = plModified \cup written
            /\ plFaulty' = plFaulty \cup (found \ written)
            /\ Step(TRUE)
     \/ Step(FALSE) /\ UNCHANGED <<plTree, plModified, plFaulty>>
  /\ UNCHANGED plSeen

\* BuildAgent reads the worktree and fails on what it finds, or on a timeout; a
\* truncated file may still parse.
MayPass(task) == task.type = "check_syntax" => plTree[task.path] # "absent"
BuildStep ==
  /\ plState = "running" /\ NextTask.type \in BuildTypes
  /\ \E ok \in {b \in BOOLEAN : b => MayPass(NextTask)} : Step(ok)
  /\ plSeen' = plSeen \cup {plTree}
  /\ UNCHANGED <<plTree, plModified, plFaulty>>

PlanNext ==
  \/ \E n \in 0 .. MaxTasks : \E plan \in [1 .. n -> PlanTasks] : ExecutePlan(plan)
  \/ CodeStep \/ RefactorStep \/ BuildStep

PlanSpec == PlanInit /\ [][PlanNext]_plVars

-----------------------------------------------------------------------------
\* What the build tasks of a plan have seen is what the plan leaves behind,
\* wherever they stand in the list (plan_to_dag, topological_order).
VerifiedIsDelivered == \A tree \in plSeen : tree = plTree

\* Code tasks take effect in the order of the list (plan_to_dag's chain), so that a
\* plan that creates a file and edits it does not depend on luck.
CodeRunsInListOrder ==
  \A i, j \in DOMAIN plSteps :
    i < j /\ {plOrder[i], plOrder[j]} \subseteq CodeNodes(plPlan) => plOrder[i] < plOrder[j]

\* A file that differs from when the plan began is listed in files_modified, and a
\* listed file was written, unless a write of it failed on the way.
ModifiedIsAccountedFor ==
  \A f \in PlanPaths \ plFaulty : plTree[f] # plBefore[f] => f \in plModified

\* A plan that succeeds has run every task, and nothing ran after the first failure.
SuccessIsWhole ==
  /\ plState = "succeeded" => Len(plSteps) = Len(plPlan) /\ \A i \in DOMAIN plSteps : plSteps[i]
  /\ \A i \in DOMAIN plSteps : ~plSteps[i] => i = Len(plSteps)

\* A plan is carried out as it was given and its result tells what was done
\* (plan_to_dag, execute_plan, CodeAgent, BuildAgent).
PlanIsCarriedOut == VerifiedIsDelivered /\ CodeRunsInListOrder /\ ModifiedIsAccountedFor /\ SuccessIsWhole
=============================================================================
