------------------------------ MODULE HlfHost -------------------------------
(* What HLFInterpreter (hlf/hlfrun.py) keeps besides gas: the scope, the memory
   lists, the living spec, the macros and the results of parallel tasks; and the
   intent capsule (hlf/intent_capsule.py) that checks a program before it runs
   and every node while it runs. Gas is HlfRun's subject: here a loop that never
   ends has none left. Lists live in a heap, because a scope is copied shallowly. *)
EXTENDS Integers, Sequences, SequencesExt, Functions

CONSTANTS MaxStatements,   \* bound on a program's statements
          Capsules         \* [allowed, denied, readOnly]: an empty allowed set allows all

VARIABLES hsLeft,       \* statements the program may still have
          hsCapsule,    \* the capsule
          hsWork,       \* per interpreter: nodes to execute; 0 is the program's, i task i's
          hsState,      \* per interpreter
          hsX,          \* per interpreter: the variable x
          hsMem,        \* per interpreter: the heap address of MEMORY_e, or 0
          hsLists,      \* the heap: lists of entries, each the interpreter that appended it
          hsSpec,       \* per interpreter: the living spec
          hsMacro,      \* the program's macro: <<>> or <<node>>
          hsResults,    \* _parallel_results: per name {} or {a task's scope}
          hsRound,      \* PARALLELs begun
          hsForked,     \* history: lists the program had when it forked
          hsNames,      \* per task: the name its result goes by
          hsRan         \* history: the node executed last
hsVars == <<hsLeft, hsCapsule, hsWork, hsState, hsX, hsMem, hsLists, hsSpec, hsMacro, hsResults,
            hsRound, hsForked, hsNames, hsRan>>

ScopeTasks == {1, 2}
Interpreters == {0} \cup ScopeTasks
One(tag) == [tag |-> tag, inner |-> <<>>, under |-> "program"]
Under(tag, nodes) == [tag |-> tag, inner |-> [i \in DOMAIN nodes |-> [nodes[i] EXCEPT !.under = tag]], under |-> "program"]
Leaves ==
  {One(t) : t \in {"SET", "CLEAR", "MEMORY", "SPEC_DEFINE", "SPEC_UPDATE", "SPEC_SEAL",
                   "ASSERT", "WHILE", "RETURN", "TOOL", "CALL"}}
ScopeStatements ==
  Leaves
  \cup {Under("SYNC", <<One("MEMORY")>>), Under("DEFINE", <<One("TOOL")>>), Under("DEFINE", <<One("SPEC_DEFINE")>>)}
  \cup {Under("PARALLEL", <<a, b>>) :
          a \in {One("MEMORY"), Under("SYNC", <<One("TOOL")>>)}, b \in {One("MEMORY"), One("CALL"), One("SPEC_UPDATE")}}

\* task_name: these nodes have no "args", so a task goes by its tag.
Names == {"MEMORY", "SYNC", "CALL", "SPEC_UPDATE"}

EmptySpec == [registry |-> <<>>, sealed |-> FALSE, checksum |-> <<>>]

ScopeInit ==
  /\ hsLeft = MaxStatements /\ hsCapsule \in Capsules
  /\ hsWork = [i \in Interpreters |-> <<>>] /\ hsState = [i \in Interpreters |-> IF i = 0 THEN "running" ELSE "none"]
  /\ hsX = [i \in Interpreters |-> "unbound"] /\ hsMem = [i \in Interpreters |-> 0] /\ hsLists = <<>>
  /\ hsSpec = [i \in Interpreters |-> EmptySpec] /\ hsMacro = <<>>
  /\ hsResults = [n \in Names |-> {}]
  /\ hsRound = 0 /\ hsForked = {} /\ hsNames = [t \in ScopeTasks |-> ""] /\ hsRan = {}

\* STRUCTURAL_TAGS, and the check of a tag against the lists
Structural == {"ASSERT"}
TagOf(node) == IF node.tag = "CLEAR" THEN "SET" ELSE node.tag
Permits(c, tag) ==
  /\ tag \notin c.denied
  /\ tag \in Structural \/ c.allowed = {} \/ tag \in c.allowed
\* validate_program: a statement and the tasks inside it, but neither the action of a
\* SYNC nor the body of a DEFINE.
Preflight(c, node) ==
  /\ Permits(c, TagOf(node))
  /\ node.tag = "PARALLEL" => \A i \in DOMAIN node.inner : Permits(c, TagOf(node.inner[i]))

\* The next statement of a program that passed.
NextStatement ==
  /\ hsState[0] = "running" /\ hsWork[0] = <<>> /\ hsLeft > 0
  /\ \E node \in ScopeStatements :
       Preflight(hsCapsule, node) /\ hsWork' = [hsWork EXCEPT ![0] = <<node>>]
  /\ hsLeft' = hsLeft - 1
  /\ UNCHANGED <<hsCapsule, hsState, hsX, hsMem, hsLists, hsSpec, hsMacro, hsResults, hsRound, hsForked, hsNames, hsRan>>

-----------------------------------------------------------------------------
(* One node of interpreter i. *)
Due(i, tags) == hsState[i] = "running" /\ hsWork[i] # <<>> /\ Head(hsWork[i]).tag \in tags
Now(i) == Head(hsWork[i])
\* _execute_node of CapsuleInterpreter; a task's interpreter is a plain one.
Admits(i, node) == i = 0 => Permits(hsCapsule, TagOf(node))
Proceeds(i) == hsWork' = [hsWork EXCEPT ![i] = Tail(@)] /\ UNCHANGED hsState
Ends(i, how) == hsWork' = [hsWork EXCEPT ![i] = <<>>] /\ hsState' = [hsState EXCEPT ![i] = how]
Executes(i) == hsRan' = {[by |-> i, tag |-> TagOf(Now(i)), under |-> Now(i).under]}
hsRest == <<hsLeft, hsCapsule, hsRound, hsForked, hsNames>>

Refused(i) ==
  /\ hsState[i] = "running" /\ hsWork[i] # <<>> /\ ~Admits(i, Now(i))
  /\ Ends(i, "raised")
  /\ UNCHANGED <<hsRest, hsX, hsMem, hsLists, hsSpec, hsMacro, hsResults, hsRan>>

\* _exec_set, also for a read-only variable of a capsule, and _exec_assign
SetRuns(i) ==
  /\ Due(i, {"SET", "CLEAR"}) /\ Admits(i, Now(i)) /\ Executes(i)
  /\ IF i = 0 /\ hsCapsule.readOnly THEN Ends(i, "raised") /\ UNCHANGED hsX
     ELSE Proceeds(i) /\ hsX' = [hsX EXCEPT ![i] = IF Now(i).tag = "SET" THEN "true" ELSE "false"]
  /\ UNCHANGED <<hsRest, hsMem, hsLists, hsSpec, hsMacro, hsResults>>

\* _exec_memory appends to the list that the scope holds, wherever it came from.
MemoryRuns(i) ==
  /\ Due(i, {"MEMORY"}) /\ Admits(i, Now(i)) /\ Executes(i) /\ Proceeds(i)
  /\ IF hsMem[i] # 0
     THEN hsLists' = [hsLists EXCEPT ![hsMem[i]] = Append(@, i)] /\ UNCHANGED hsMem
     ELSE hsLists' = Append(hsLists, <<i>>) /\ hsMem' = [hsMem EXCEPT ![i] = Len(hsLists) + 1]
  /\ UNCHANGED <<hsRest, hsX, hsSpec, hsMacro, hsResults>>

\* _exec_spec_define, _exec_spec_update and _exec_spec_seal, one section.
OpenTo(spec, tag) == ~spec.sealed
Specified(spec, tag) ==
  CASE tag = "SPEC_DEFINE" -> [spec EXCEPT !.registry = <<"defined">>]
    [] tag = "SPEC_UPDATE" -> [spec EXCEPT !.registry = Append(@, "updated")]
    [] OTHER -> [spec EXCEPT !.sealed = TRUE, !.checksum = spec.registry]
SpecRuns(i) ==
  /\ Due(i, {"SPEC_DEFINE", "SPEC_UPDATE", "SPEC_SEAL"}) /\ Admits(i, Now(i)) /\ Executes(i)
  /\ IF OpenTo(hsSpec[i], Now(i).tag)
     THEN Proceeds(i) /\ hsSpec' = [hsSpec EXCEPT ![i] = Specified(@, Now(i).tag)]
     ELSE Ends(i, "raised") /\ UNCHANGED hsSpec
  /\ UNCHANGED <<hsRest, hsX, hsMem, hsLists, hsMacro, hsResults>>

\* _exec_assert takes an unbound name for its text, which is true; _exec_while takes it
\* for false. A loop that is entered runs out of gas: it has no body to change x.
TestRuns(i) ==
  /\ Due(i, {"ASSERT", "WHILE"}) /\ Admits(i, Now(i)) /\ Executes(i)
  /\ IF hsX[i] = (IF Now(i).tag = "ASSERT" THEN "false" ELSE "true")
     THEN Ends(i, "raised") ELSE Proceeds(i)
  /\ UNCHANGED <<hsRest, hsX, hsMem, hsLists, hsSpec, hsMacro, hsResults>>

ReturnRuns(i) ==
  /\ Due(i, {"RETURN"}) /\ Admits(i, Now(i)) /\ Executes(i) /\ Ends(i, "ended")
  /\ UNCHANGED <<hsRest, hsX, hsMem, hsLists, hsSpec, hsMacro, hsResults>>

\* _exec_tool: what dispatch raises, for an unknown function or another tier, is not caught.
ToolRuns(i) ==
  /\ Due(i, {"TOOL"}) /\ Admits(i, Now(i)) /\ Executes(i)
  /\ Proceeds(i) \/ Ends(i, "raised")
  /\ UNCHANGED <<hsRest, hsX, hsMem, hsLists, hsSpec, hsMacro, hsResults>>

\* _exec_define, and _exec_call in an interpreter that has the macro: no task has.
DefineRuns(i) ==
  /\ Due(i, {"DEFINE"}) /\ Admits(i, Now(i)) /\ Executes(i) /\ Proceeds(i) /\ hsMacro' = Now(i).inner
  /\ UNCHANGED <<hsRest, hsX, hsMem, hsLists, hsSpec, hsResults>>
CallRuns(i) ==
  /\ Due(i, {"CALL"}) /\ Admits(i, Now(i)) /\ Executes(i)
  /\ IF i = 0 /\ hsMacro # <<>>
     THEN hsWork' = [hsWork EXCEPT ![0] = hsMacro \o Tail(@)] /\ UNCHANGED hsState
     ELSE Ends(i, "raised")
  /\ UNCHANGED <<hsRest, hsX, hsMem, hsLists, hsSpec, hsMacro, hsResults>>

\* _exec_sync copies the results into the scope, each under its name, and acts; it goes
\* on without a result.
SyncRuns(i) ==
  /\ Due(i, {"SYNC"}) /\ Admits(i, Now(i)) /\ Executes(i)
  /\ hsWork' = [hsWork EXCEPT ![i] = Now(i).inner \o Tail(@)] /\ UNCHANGED hsState
  /\ UNCHANGED <<hsRest, hsX, hsMem, hsLists, hsSpec, hsMacro, hsResults>>

\* _exec_parallel: each task starts with a shallow copy of the scope and nothing else.
ForkedSpec(spec) == EmptySpec
ParallelRuns ==
  /\ Due(0, {"PARALLEL"}) /\ Admits(0, Now(0)) /\ Executes(0)
  /\ hsWork' = [i \in Interpreters |-> IF i = 0 THEN Tail(hsWork[0]) ELSE <<Now(0).inner[i]>>]
  /\ hsState' = [i \in Interpreters |-> IF i = 0 THEN "waiting" ELSE "running"]
  /\ hsX' = [i \in Interpreters |-> hsX[0]] /\ hsMem' = [i \in Interpreters |-> hsMem[0]]
  /\ hsSpec' = [i \in Interpreters |-> IF i = 0 THEN hsSpec[0] ELSE ForkedSpec(hsSpec[0])]
  /\ hsNames' = [t \in ScopeTasks |-> Now(0).inner[t].tag]
  /\ hsRound' = hsRound + 1 /\ hsForked' = hsForked \cup {hsMem[0]}
  /\ UNCHANGED <<hsLeft, hsCapsule, hsLists, hsMacro, hsResults>>

ScopeEnds(i) ==
  /\ i # 0 /\ hsState[i] = "running" /\ hsWork[i] = <<>>
  /\ hsState' = [hsState EXCEPT ![i] = "ended"]
  /\ UNCHANGED <<hsRest, hsWork, hsX, hsMem, hsLists, hsSpec, hsMacro, hsResults, hsRan>>
\* The loop over as_completed keeps the results of the tasks that did not raise; what an
\* earlier PARALLEL left under the name of one that did raise stays. Two tasks of one
\* name leave one result.
TaskResult(t) == {[task |-> t, round |-> hsRound, x |-> hsX[t], mem |-> hsMem[t]]}
ResultTaken(t) ==
  /\ hsState[0] = "waiting" /\ hsState[t] \in {"ended", "raised"}
  /\ hsResults' = IF hsState[t] = "ended" THEN [hsResults EXCEPT ![hsNames[t]] = TaskResult(t)] ELSE hsResults
  /\ LET state == [hsState EXCEPT ![t] = IF @ = "ended" THEN "taken" ELSE "failed"]
     IN hsState' = IF \A u \in ScopeTasks : state[u] \in {"taken", "failed"}
                   THEN [state EXCEPT ![0] = "running"] ELSE state
  /\ UNCHANGED <<hsRest, hsWork, hsX, hsMem, hsLists, hsSpec, hsMacro, hsRan>>

ScopeNext ==
  \/ NextStatement \/ ParallelRuns \/ \E t \in ScopeTasks : ResultTaken(t)
  \/ \E i \in Interpreters :
       \/ Refused(i) \/ SetRuns(i) \/ MemoryRuns(i) \/ SpecRuns(i) \/ TestRuns(i) \/ ReturnRuns(i)
       \/ ToolRuns(i) \/ DefineRuns(i) \/ CallRuns(i) \/ SyncRuns(i) \/ ScopeEnds(i)

ScopeSpec == ScopeInit /\ [][ScopeNext]_hsVars

-----------------------------------------------------------------------------
\* A sealed spec is the one its checksum was taken of, whatever is executed
\* afterwards, by the program, a macro or a task (_exec_spec_seal).
SealedIsFrozen == \A i \in Interpreters : hsSpec[i].sealed => hsSpec[i].registry = hsSpec[i].checksum

\* "Each task gets a copy of scope (isolation)" (hlfrun.py:597): what a task remembers is
\* in the program's list only if the program had that list when it forked, and a
\* task's own list has nothing of its sibling.
TasksShareOnlyForkedLists ==
  \A l \in DOMAIN hsLists : \A t \in ScopeTasks :
    t \in Range(hsLists[l]) /\ l \notin hsForked =>
      l # hsMem[0] /\ Range(hsLists[l]) = {t}

\* What SYNC merges under the name of a task is that task's, of the PARALLEL just over,
\* unless it raised there or has a namesake (_parallel_results is never cleared).
ResultsAreCurrent ==
  hsState[0] # "waiting" =>
    \A t \in ScopeTasks : hsState[t] = "taken" =>
      \E r \in hsResults[hsNames[t]] : r.round = hsRound /\ hsNames[r.task] = hsNames[t]

\* No node runs that the capsule does not allow, but one that the first check does not
\* reach inside a task, whose interpreter has no capsule (CapsuleInterpreter, _exec_parallel).
CapsuleHolds ==
  \A n \in hsRan :
    Permits(hsCapsule, n.tag) \/ (n.by # 0 /\ n.under = "SYNC")

\* What an HLF program leaves behind is what its statements say.
ScopeIsSound == SealedIsFrozen /\ TasksShareOnlyForkedLists /\ ResultsAreCurrent /\ CapsuleHolds

-----------------------------------------------------------------------------
(* hlf/runtime.py: HLFRuntime executes a tree in three passes (imports, SET
   bindings, statements) under a gas meter; ModuleLoader loads a module and, inside
   it, the modules it imports, with a cache that nothing empties; and the registry of
   host functions dispatches a TOOL. One runtime executes several programs: its
   environment, its meter and its result are those of the object. A module is what
   it imports and one SET of the name "v"; a path such as <<"m", "v">> is m.v. *)
CONSTANTS RtModules,       \* names of modules
          RtPrograms,      \* the trees
          RtGasLimit,
          HostFunctions,   \* name -> [tier, gas, args, sensitive]: allowed here, cost, arguments given
          MaxExecutes,     \* bound on the programs executed by one runtime
          MaxRtEdits       \* bound on the changes of module files

ASSUME RuntimeAssumption ==
  /\ RtGasLimit \in Nat /\ \A f \in DOMAIN HostFunctions : HostFunctions[f].gas \in Nat
  /\ \A p \in RtPrograms : p \in Seq(ToSet(p)) /\ \A s \in ToSet(p) : s.tag = "IMPORT" => s.name \in RtModules

VARIABLES mrFiles,      \* module files: [state, version, imports]
          mrExpected,   \* the loader's checksums: the version per module, or 0
          mrCache,      \* the loader's cache: per module {} or {its namespace}
          mrLoading,    \* the circular import guard
          mrStack,      \* load's calls: [name, ns, todo]
          mrRun,        \* execute: [state, program, pc]
          mrEnv,        \* bindings, by path
          mrGas,        \* GasMeter.consumed
          mrResult,     \* code and what is logged of host calls
          mrExecutes, mrEdits,
          mrPaid,       \* history: units of work done so far
          mrFailed      \* history: whether this execute has failed
mrVars == <<mrFiles, mrExpected, mrCache, mrLoading, mrStack, mrRun, mrEnv, mrGas, mrResult,
            mrExecutes, mrEdits, mrPaid, mrFailed>>

ModuleFiles(m) ==
  {[state |-> "ok", version |-> 1, imports |-> s] : s \in {<<>>} \cup {<<n>> : n \in RtModules}}
Absent == [state |-> "absent", version |-> 0, imports |-> <<>>]

RuntimeInit ==
  /\ mrFiles \in [RtModules -> (UNION {ModuleFiles(m) : m \in RtModules}) \cup {Absent}]
  /\ mrExpected \in [RtModules -> {0, 1}]
  /\ mrCache = [m \in RtModules |-> {}] /\ mrLoading = {} /\ mrStack = <<>>
  /\ mrRun = [state |-> "idle", program |-> <<>>, pc |-> 1] /\ mrEnv = <<>> /\ mrGas = 0
  /\ mrResult = [code |-> 0, logged |-> {}]
  /\ mrExecutes = 0 /\ mrEdits = 0 /\ mrPaid = 0 /\ mrFailed = FALSE
mrBounds == <<mrExpected, mrExecutes, mrEdits>>

\* Somebody changes a module's file, also so that it no longer compiles.
EditModule ==
  /\ mrEdits < MaxRtEdits /\ mrEdits' = mrEdits + 1
  /\ \E m \in RtModules : \E state \in {"ok", "syntax"} :
       mrFiles[m].state = "ok" /\ mrFiles' = [mrFiles EXCEPT ![m].version = 2, ![m].state = state]
  /\ UNCHANGED <<mrExpected, mrCache, mrLoading, mrStack, mrRun, mrEnv, mrGas, mrResult, mrExecutes, mrPaid, mrFailed>>

\* execute is called.
BeginExecute ==
  /\ mrRun.state \in {"idle", "returned", "escaped"} /\ mrExecutes < MaxExecutes
  /\ \E p \in RtPrograms : mrRun' = [state |-> "imports", program |-> p, pc |-> 1]
  /\ mrExecutes' = mrExecutes + 1 /\ mrFailed' = FALSE
  /\ UNCHANGED <<mrFiles, mrExpected, mrCache, mrLoading, mrStack, mrEnv, mrGas, mrResult, mrEdits, mrPaid>>

\* GasMeter.consume
Affordable(n) == mrGas + n <= RtGasLimit
\* A failure that execute turns into a result, and one that leaves it.
Fails == mrRun' = [mrRun EXCEPT !.state = "returned"] /\ mrResult' = [mrResult EXCEPT !.code = 1] /\ mrFailed' = TRUE
Escapes == mrRun' = [mrRun EXCEPT !.state = "escaped"] /\ mrFailed' = TRUE /\ UNCHANGED mrResult
At(tags) == mrRun.pc <= Len(mrRun.program) /\ mrRun.program[mrRun.pc].tag \in tags
Statement == mrRun.program[mrRun.pc]
Forward == mrRun' = [mrRun EXCEPT !.pc = @ + 1]

-----------------------------------------------------------------------------
(* Pass 1 and the loader. *)
\* from_ast: the module's own SET, at its version.
Namespace(m, file) == [path \in {<<"v">>} |-> <<m, file.version>>]
\* Names of a dependency, qualified.
Qualified(m, ns) == [path \in {<<m>> \o p : p \in DOMAIN ns} |-> ns[Tail(path)]]
Merged(f, g) == [p \in DOMAIN f \cup DOMAIN g |-> IF p \in DOMAIN g THEN g[p] ELSE f[p]]
\* merge_into_env: qualified names replace, plain ones only where there are none.
MergedIntoEnv(m, ns, env) ==
  LET all == Merged(env, Qualified(m, ns))
  IN [p \in DOMAIN all \cup DOMAIN ns |-> IF p \in DOMAIN all THEN all[p] ELSE ns[p]]

LoadingAfterError(frames) == {}
\* An exception leaves every load in progress; execute knows module errors only.
LoadRaises(known) ==
  /\ mrLoading' = LoadingAfterError(mrStack) /\ mrStack' = <<>>
  /\ IF known THEN Fails ELSE Escapes
  /\ UNCHANGED <<mrCache, mrEnv, mrGas, mrPaid>>

\* load(m), called by execute or by the load on top of the stack, when m is not in the cache.
EnterLoad(m) ==
  /\ mrCache[m] = {}
  /\ CASE m \in mrLoading -> LoadRaises(TRUE)
       [] m \notin mrLoading /\ mrFiles[m].state = "absent" -> LoadRaises(TRUE)
       [] m \notin mrLoading /\ mrFiles[m].state # "absent" /\ mrExpected[m] \notin {0, mrFiles[m].version} ->
            LoadRaises(TRUE)
       [] m \notin mrLoading /\ mrFiles[m].state = "syntax" /\ mrExpected[m] \in {0, mrFiles[m].version} ->
            LoadRaises(FALSE)
       [] OTHER ->
            /\ mrLoading' = mrLoading \cup {m}
            /\ mrStack' = Append(mrStack, [name |-> m, ns |-> Namespace(m, mrFiles[m]), todo |-> mrFiles[m].imports])
            /\ UNCHANGED <<mrCache, mrEnv, mrGas, mrPaid, mrRun, mrResult, mrFailed>>

\* The first import of execute that is not loaded yet.
ImportLoads ==
  /\ mrRun.state = "imports" /\ mrStack = <<>> /\ At({"IMPORT"}) /\ EnterLoad(Statement.name)
  /\ UNCHANGED <<mrFiles, mrBounds>>
\* The load on top goes through its imports, its own name left out.
TopLoad == Last(mrStack)
Pops(ns) == mrStack' = Append(Front(mrStack), [TopLoad EXCEPT !.ns = ns, !.todo = Tail(@)])
DependencyLoads ==
  /\ mrStack # <<>> /\ TopLoad.todo # <<>> /\ Head(TopLoad.todo) # TopLoad.name /\ EnterLoad(Head(TopLoad.todo))
  /\ UNCHANGED <<mrFiles, mrBounds>>
DependencyMerges ==
  /\ mrStack # <<>> /\ TopLoad.todo # <<>>
  /\ LET dep == Head(TopLoad.todo)
     IN \/ dep = TopLoad.name /\ Pops(TopLoad.ns)
        \/ \E ns \in mrCache[dep] : dep # TopLoad.name /\ Pops(Merged(TopLoad.ns, Qualified(dep, ns)))
  /\ UNCHANGED <<mrFiles, mrBounds, mrCache, mrLoading, mrRun, mrEnv, mrGas, mrResult, mrPaid, mrFailed>>
LoadReturns ==
  /\ mrStack # <<>> /\ TopLoad.todo = <<>>
  /\ mrCache' = [mrCache EXCEPT ![TopLoad.name] = {TopLoad.ns}]
  /\ mrLoading' = mrLoading \ {TopLoad.name} /\ mrStack' = Front(mrStack)
  /\ UNCHANGED <<mrFiles, mrBounds, mrRun, mrEnv, mrGas, mrResult, mrPaid, mrFailed>>

\* execute merges a module it has and pays for it; no handler is there for a lack of gas.
ImportMerges ==
  /\ mrRun.state = "imports" /\ mrStack = <<>> /\ At({"IMPORT"})
  /\ \E ns \in mrCache[Statement.name] : mrEnv' = MergedIntoEnv(Statement.name, ns, mrEnv)
  /\ IF Affordable(1)
     THEN mrGas' = mrGas + 1 /\ mrPaid' = mrPaid + 1 /\ Forward /\ UNCHANGED <<mrResult, mrFailed>>
     ELSE Escapes /\ UNCHANGED <<mrGas, mrPaid>>
  /\ UNCHANGED <<mrFiles, mrBounds, mrCache, mrLoading, mrStack>>
ImportSkips ==
  /\ mrRun.state = "imports" /\ mrStack = <<>> /\ mrRun.pc <= Len(mrRun.program) /\ ~At({"IMPORT"}) /\ Forward
  /\ UNCHANGED <<mrFiles, mrBounds, mrCache, mrLoading, mrStack, mrEnv, mrGas, mrResult, mrPaid, mrFailed>>

-----------------------------------------------------------------------------
(* Passes 2 and 3. *)
SetsFirst ==
  /\ mrRun.state = "imports" /\ mrStack = <<>> /\ mrRun.pc > Len(mrRun.program)
  /\ mrRun' = [mrRun EXCEPT !.state = "running", !.pc = 1]
  /\ mrEnv' = IF \E s \in ToSet(mrRun.program) : s.tag = "SET" THEN Merged(mrEnv, [p \in {<<"v">>} |-> <<"own", 0>>]) ELSE mrEnv
  /\ UNCHANGED <<mrFiles, mrBounds, mrCache, mrLoading, mrStack, mrGas, mrResult, mrPaid, mrFailed>>

mrLoader == <<mrFiles, mrBounds, mrCache, mrLoading, mrStack>>
Running(tags) == mrRun.state = "running" /\ At(tags)
Spends(n) == mrGas' = mrGas + n /\ mrPaid' = mrPaid + n

StatementUnpaid ==
  /\ mrRun.state = "running" /\ mrRun.pc <= Len(mrRun.program) /\ ~Affordable(1) /\ Fails
  /\ UNCHANGED <<mrLoader, mrEnv, mrGas, mrPaid>>
\* SET, WHILE and the other statements are recorded only; so is an ASSERT whose argument
\* is not empty.
StatementRecorded ==
  /\ Running({"IMPORT", "SET", "ASSERT", "OTHER"}) /\ Affordable(1) /\ Spends(1)
  /\ IF Statement.tag = "ASSERT" /\ ~Statement.holds THEN Fails
     ELSE Forward /\ UNCHANGED <<mrResult, mrFailed>>
  /\ UNCHANGED <<mrLoader, mrEnv>>
\* RESULT and RETURN end the program; only they set the code of a run that went well.
ProgramResult ==
  /\ Running({"RESULT"}) /\ Affordable(1) /\ Spends(1)
  /\ mrRun' = [mrRun EXCEPT !.state = "returned"] /\ mrResult' = [mrResult EXCEPT !.code = Statement.code]
  /\ UNCHANGED <<mrLoader, mrEnv, mrFailed>>
RunsOff ==
  /\ mrRun.state = "running" /\ mrRun.pc > Len(mrRun.program)
  /\ mrRun' = [mrRun EXCEPT !.state = "returned"]
  /\ UNCHANGED <<mrLoader, mrEnv, mrGas, mrResult, mrPaid, mrFailed>>

\* dispatch: the tier, the gas, the arguments, then the backend, which may raise what
\* execute does not know. What is logged of a sensitive value is its hash.
LoggedValue(f) == IF HostFunctions[f].sensitive THEN "hash" ELSE "value"
ToolDispatches ==
  /\ Running({"TOOL"}) /\ Affordable(1)
  /\ LET f == Statement.name
     IN IF f \notin DOMAIN HostFunctions THEN Spends(1) /\ Fails
        ELSE IF ~HostFunctions[f].tier \/ ~Affordable(1 + HostFunctions[f].gas) THEN Spends(1) /\ Fails
        ELSE /\ Spends(1 + HostFunctions[f].gas)
             /\ \/ ~HostFunctions[f].args /\ Fails
                \/ HostFunctions[f].args /\ Escapes
                \/ /\ HostFunctions[f].args /\ Forward
                   /\ mrResult' = [mrResult EXCEPT !.logged = @ \cup {<<f, LoggedValue(f)>>}]
                   /\ UNCHANGED mrFailed
  /\ UNCHANGED <<mrLoader, mrEnv>>

RuntimeNext ==
  \/ EditModule \/ BeginExecute \/ ImportLoads \/ DependencyLoads \/ DependencyMerges \/ LoadReturns
  \/ ImportMerges \/ ImportSkips \/ SetsFirst \/ StatementUnpaid \/ StatementRecorded \/ ProgramResult
  \/ RunsOff \/ ToolDispatches

RuntimeSpec == RuntimeInit /\ [][RuntimeNext]_mrVars

-----------------------------------------------------------------------------
\* The guard holds exactly the modules being loaded, also after a load that raised in
\* the middle of others: a module refused as circular once can be loaded when its file
\* is repaired, and what is refused is on the way to itself (load's finally clause).
GuardIsTheStack ==
  /\ mrLoading = {f.name : f \in ToSet(mrStack)}
  /\ mrRun.state # "imports" => mrLoading = {}

\* A namespace in the cache is whole: with every name of each module it imports, under
\* that module's name, of the version that is in the cache (load, qualified_name).
Imports(ns) == {p[1] : p \in {q \in DOMAIN ns : Len(q) > 1}}
CacheIsWhole ==
  \A m \in RtModules : \A ns \in mrCache[m] : \A dep \in Imports(ns) :
    \E d \in mrCache[dep] : \A p \in DOMAIN d : <<dep>> \o p \in DOMAIN ns /\ ns[<<dep>> \o p] = d[p]

\* A program that sees one name of a module sees all of them, at the version in the
\* cache, and under the name of the module they come from (merge_into_env).
EnvIsOfTheCache ==
  \A p \in DOMAIN mrEnv : Len(p) > 1 =>
    /\ mrEnv[p][1] = p[Len(p) - 1]
    /\ \E d \in mrCache[p[1]] : \A q \in DOMAIN d \cup {Tail(p)} :
         q \in DOMAIN d /\ <<p[1]>> \o q \in DOMAIN mrEnv /\ mrEnv[<<p[1]>> \o q] = d[q]

\* All that was done is paid for within the limit, and a code that tells of a failure
\* is of this program, or was left in the runtime by an earlier one and then by no
\* RESULT since (GasMeter, _finalize).
MeterIsTrue == mrGas = mrPaid /\ mrGas <= RtGasLimit
CodeIsExplained ==
  mrRun.state = "returned" =>
    /\ mrFailed => mrResult.code = 1
    /\ mrResult.code = 1 /\ ~mrFailed /\ (\A s \in ToSet(mrRun.program) : s.tag = "RESULT" => s.code = 0) => mrExecutes > 1

\* Modules, gas and codes of the runtime are what its programs may rely on.
RuntimeIsSound == GuardIsTheStack /\ CacheIsWhole /\ EnvIsOfTheCache /\ MeterIsTrue /\ CodeIsExplained
=============================================================================
