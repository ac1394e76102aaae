------------------------------ MODULE AgentTools ------------------------------
(* SpindleToolBridge (agents/core/spindle_tool_bridge.py) gives the nodes of a DAG
   an AgentSandbox (agent_sandbox.py), in the one context dict that the DAG's nodes
   share, and through the tools of the one ToolRegistry (tool_registry.py). Every
   sandbox registers its tools one after the other, under the same names, over those of
   the sandbox before it. Nodes run in threads (SpindleExecutor.run_parallel); nothing
   here takes a lock. *)
EXTENDS Naturals, Sequences, FiniteSets

CONSTANTS BridgeWorkers,  \* threads that run nodes
          BridgeAgents,   \* agent ids
          BridgeRoles,    \* role -> the permissions of _DEFAULT_ROLE_PERMISSIONS
          BridgeTools,    \* the required_permission of each tool, in the order of registration
          MaxNodes,       \* bound on the nodes begun
          MaxActions      \* bound on the actions, of nodes and on the registry
ASSUME BridgeToolsAssumption == BridgeTools \in Seq(STRING) /\ Len(BridgeTools) > 0

VARIABLES tbBoxes,     \* the sandboxes made: agent, length of _action_log, and (history) which
                       \* sandboxes had all their tools registered before
          tbKnown,     \* SpindleToolBridge._sandboxes: per agent a sandbox, 0 for none
          tbTools,     \* ToolRegistry._tools: per tool the sandbox it acts in, 0 when gone
          tbRoles,     \* _role_permissions
          tbContext,   \* context["_sandbox"] of the DAG's run
          tbNode,      \* per worker: the node it is in
          tbTraces,    \* _traces
          tbActions,   \* actions so far
          tbStray      \* history: actions in another sandbox than the node's
tbVars == <<tbBoxes, tbKnown, tbTools, tbRoles, tbContext, tbNode, tbTraces, tbActions, tbStray>>

\* box, tool, toolBox, taken: local variables. from: the log when the node got its sandbox.
\* mine, done: its actions in its own sandbox, and in any. History: the sandboxes other
\* nodes put into the context in its time, and whether another node had its sandbox too.
NoNode == [at |-> "idle", agent |-> "", role |-> "", box |-> 0, next |-> 1, taken |-> 0, tool |-> 0, toolBox |-> 0,
           from |-> 0, mine |-> 0, done |-> 0, met |-> {}, shared |-> FALSE]
BridgeInit ==
  /\ tbBoxes = <<>> /\ tbKnown = [a \in BridgeAgents |-> 0]
  /\ tbTools = [t \in DOMAIN BridgeTools |-> 0] /\ tbRoles = BridgeRoles /\ tbContext = 0
  /\ tbNode = [w \in BridgeWorkers |-> NoNode]
  /\ tbTraces = <<>> /\ tbActions = 0 /\ tbStray = {}

In(w) == tbNode[w]
NodeIs(w, node) == tbNode' = [tbNode EXCEPT ![w] = node]

\* execute_node up to get_or_create_sandbox's look at _sandboxes.
NodeBegins(w, a, role) ==
  /\ In(w).at = "idle" /\ Len(tbTraces) + Cardinality({v \in BridgeWorkers : In(v).at # "idle"}) < MaxNodes
  /\ NodeIs(w, [NoNode EXCEPT !.at = IF tbKnown[a] = 0 THEN "create" ELSE "lookup", !.agent = a, !.role = role])
  /\ UNCHANGED <<tbBoxes, tbKnown, tbTools, tbRoles, tbContext, tbTraces, tbActions, tbStray>>

\* AgentSandbox(), up to _register_sandbox_tools.
Registering == {In(w).box : w \in {v \in BridgeWorkers : In(v).at = "register"}}
MakeSandbox(w) ==
  /\ In(w).at = "create"
  /\ tbBoxes' = Append(tbBoxes, [agent |-> In(w).agent, log |-> 0, before |-> DOMAIN tbBoxes \ Registering])
  /\ NodeIs(w, [In(w) EXCEPT !.at = "register", !.box = Len(tbBoxes'), !.next = 1])
  /\ UNCHANGED <<tbKnown, tbTools, tbRoles, tbContext, tbTraces, tbActions, tbStray>>

\* Mutant: a name that is taken stays with the sandbox that has it.
RegisteredOnce(tool, box) == IF tbTools[tool] = 0 THEN [tbTools EXCEPT ![tool] = box] ELSE tbTools
\* register: "Overwrites if tool_id already exists".
Registered(tool, box) == [tbTools EXCEPT ![tool] = box]
\* One turn of _register_sandbox_tools' loop.
RegisterTool(w) ==
  LET last == In(w).next = Len(BridgeTools) IN
  /\ In(w).at = "register" /\ tbTools' = Registered(In(w).next, In(w).box)
  /\ NodeIs(w, [In(w) EXCEPT !.next = @ + 1, !.at = IF last THEN "know" ELSE @])
  /\ UNCHANGED <<tbBoxes, tbKnown, tbRoles, tbContext, tbTraces, tbActions, tbStray>>
\* The bridge stores the sandbox, over one that another thread made for the agent meanwhile.
KnowSandbox(w) ==
  /\ In(w).at = "know" /\ tbKnown' = [tbKnown EXCEPT ![In(w).agent] = In(w).box]
  /\ NodeIs(w, [In(w) EXCEPT !.at = "lookup"])
  /\ UNCHANGED <<tbBoxes, tbTools, tbRoles, tbContext, tbTraces, tbActions, tbStray>>

\* get_or_create_sandbox returns what _sandboxes has.
Sharers(w, box) == {v \in BridgeWorkers \ {w} : In(v).at \in {"inject", "runs", "calls"} /\ In(v).box = box}
LookUpSandbox(w) ==
  LET box == tbKnown[In(w).agent] IN
  /\ In(w).at = "lookup"
  /\ tbNode' = [v \in BridgeWorkers |->
       IF v = w THEN [In(w) EXCEPT !.at = "inject", !.box = box, !.from = tbBoxes[box].log, !.shared = Sharers(w, box) # {}]
       ELSE [In(v) EXCEPT !.shared = @ \/ v \in Sharers(w, box)]]
  /\ UNCHANGED <<tbBoxes, tbKnown, tbTools, tbRoles, tbContext, tbTraces, tbActions, tbStray>>
\* context["_sandbox"] = sandbox, for every node that shares the context.
NodeStarts(w) ==
  /\ In(w).at = "inject" /\ tbContext' = In(w).box
  /\ tbNode' = [v \in BridgeWorkers |->
       IF v = w THEN [In(w) EXCEPT !.at = "runs"]
       ELSE IF In(v).at = "idle" THEN In(v) ELSE [In(v) EXCEPT !.met = @ \cup {In(w).box}]]
  /\ UNCHANGED <<tbBoxes, tbKnown, tbTools, tbRoles, tbTraces, tbActions, tbStray>>

Counted == tbActions < MaxActions /\ tbActions' = tbActions + 1
\* An action that succeeds in box, which logs it.
ActsIn(w, box, through, node) ==
  /\ tbBoxes' = [tbBoxes EXCEPT ![box].log = @ + 1]
  /\ NodeIs(w, [node EXCEPT !.done = @ + 1, !.mine = IF box = node.box THEN @ + 1 ELSE @])
  /\ tbStray' = IF box = node.box THEN tbStray
                ELSE tbStray \cup {[own |-> node.box, box |-> box, through |-> through, met |-> box \in node.met]}

\* execute_fn reads context["_sandbox"], once or again, and uses it: nobody asks for the
\* node's permissions. An operation that fails is not logged.
TakesSandbox(w) ==
  /\ In(w).at = "runs" /\ In(w).taken # tbContext /\ NodeIs(w, [In(w) EXCEPT !.taken = tbContext])
  /\ UNCHANGED <<tbBoxes, tbKnown, tbTools, tbRoles, tbContext, tbTraces, tbActions, tbStray>>
ActsDirectly(w) ==
  /\ In(w).at = "runs" /\ In(w).taken # 0 /\ Counted /\ ActsIn(w, In(w).taken, "context", In(w))
  /\ UNCHANGED <<tbKnown, tbTools, tbRoles, tbContext, tbTraces>>

\* ToolRegistry.execute looks the tool up, and
TakesTool(w, tool) ==
  /\ In(w).at = "runs" /\ tbTools[tool] # 0 /\ Counted
  /\ NodeIs(w, [In(w) EXCEPT !.at = "calls", !.tool = tool, !.toolBox = tbTools[tool]])
  /\ UNCHANGED <<tbBoxes, tbKnown, tbTools, tbRoles, tbContext, tbTraces, tbStray>>
\* asks can_use, which looks again and lets a role without an entry read, and then calls
\* the tool it has found first. The sandbox may refuse or fail, which is not logged.
CanUse(role, tool) ==
  /\ tbTools[tool] # 0
  /\ BridgeTools[tool] \in (IF role \in DOMAIN tbRoles THEN tbRoles[role] ELSE {"read"})
Returned(node) == [node EXCEPT !.at = "runs", !.tool = 0, !.toolBox = 0]
CallsTool(w) ==
  /\ In(w).at = "calls" /\ CanUse(In(w).role, In(w).tool)
  /\ ActsIn(w, In(w).toolBox, "registry", Returned(In(w)))
  /\ UNCHANGED <<tbKnown, tbTools, tbRoles, tbContext, tbTraces, tbActions>>
ToolFails(w) ==
  /\ In(w).at = "calls" /\ NodeIs(w, Returned(In(w)))
  /\ UNCHANGED <<tbBoxes, tbKnown, tbTools, tbRoles, tbContext, tbTraces, tbActions, tbStray>>

\* execute_fn has returned or raised, which is all the same here: the trace takes the
\* whole log of the sandbox that the node was given.
NodeEnds(w) ==
  LET node == In(w) IN
  /\ node.at = "runs" /\ NodeIs(w, NoNode)
  /\ tbTraces' = Append(tbTraces, [box |-> node.box, steps |-> tbBoxes[node.box].log, from |-> node.from,
                                   mine |-> node.mine, done |-> node.done, shared |-> node.shared])
  /\ UNCHANGED <<tbBoxes, tbKnown, tbTools, tbRoles, tbContext, tbActions, tbStray>>

\* unregister, grant_permission, revoke_permission. A call that changes nothing is left out.
UnregisterTool(tool) ==
  /\ tbTools[tool] # 0 /\ tbTools' = [tbTools EXCEPT ![tool] = 0] /\ Counted
  /\ UNCHANGED <<tbBoxes, tbKnown, tbRoles, tbContext, tbNode, tbTraces, tbStray>>
Permit(role, permissions) ==
  /\ tbRoles' = [r \in DOMAIN tbRoles \cup {role} |-> IF r = role THEN permissions ELSE tbRoles[r]]
  /\ tbRoles' # tbRoles /\ Counted
  /\ UNCHANGED <<tbBoxes, tbKnown, tbTools, tbContext, tbNode, tbTraces, tbStray>>
Grant(role, p) == Permit(role, (IF role \in DOMAIN tbRoles THEN tbRoles[role] ELSE {}) \cup {p})
Revoke(role, p) == role \in DOMAIN tbRoles /\ p \in tbRoles[role] /\ Permit(role, tbRoles[role] \ {p})

BridgeNext ==
  \/ \E w \in BridgeWorkers :
       \/ \E a \in BridgeAgents, r \in DOMAIN BridgeRoles \cup {"guest"} : NodeBegins(w, a, r)
       \/ MakeSandbox(w) \/ RegisterTool(w) \/ KnowSandbox(w) \/ LookUpSandbox(w) \/ NodeStarts(w)
       \/ TakesSandbox(w) \/ ActsDirectly(w) \/ CallsTool(w) \/ ToolFails(w) \/ NodeEnds(w)
       \/ \E t \in DOMAIN BridgeTools : TakesTool(w, t)
  \/ \E t \in DOMAIN BridgeTools :
       \/ UnregisterTool(t)
       \/ \E r \in DOMAIN BridgeRoles \cup {"guest"} : Grant(r, BridgeTools[t]) \/ Revoke(r, BridgeTools[t])
BridgeSpec == BridgeInit /\ [][BridgeNext]_tbVars

-----------------------------------------------------------------------------
\* A node acts in another sandbox than its own in two ways only. The context has led it to
\* the sandbox of a node that started in its time, never to one left there by a node that
\* was over. Or the registry has, to a sandbox whose tools were not yet all registered when
\* its own was made, never to one that was there before.
StrayIsExplained ==
  \A s \in tbStray : IF s.through = "context" THEN s.met ELSE s.box \notin tbBoxes[s.own].before

\* The trace of a node has all that its sandbox had and that it did there. What it did and
\* is not there went astray; what is there and is not its own was done by a node that had
\* the sandbox at the same time, or went astray into it.
TraceIsExplained ==
  \A i \in DOMAIN tbTraces :
    LET t == tbTraces[i] IN
    /\ t.steps >= t.from + t.mine
    /\ t.mine < t.done => \E s \in tbStray : s.own = t.box
    /\ t.steps > t.from + t.mine => t.shared \/ \E s \in tbStray : s.box = t.box

\* Together: where a node's actions end up, and what its trace says of them, with a
\* context that all nodes share and tools of one name (SpindleToolBridge.execute_node).
NodeToolsAreOwn == StrayIsExplained /\ TraceIsExplained

-----------------------------------------------------------------------------
(* Two ways to get new tools at run time.

   AppInstaller (agents/core/app_installer.py) installs GitHub repositories as
   applications. Each process has one, which reads registry.json when it is made and
   rewrites it whole; the directory of an application is named by the last part of
   its repository. An application's content is its repository and release tag; what
   the release API, git and pip answer is a choice.

   forge_tool (tool_forge.py) has a model write a tool for a task, named by the task's
   first characters, and keeps it in memory and in a file of that name. *)
CONSTANTS AppRepos,       \* repositories, as [owner, name]
          Installers,     \* processes with an AppInstaller
          MaxTag,         \* bound on the releases of a repository
          MaxAppCalls,    \* bound on the calls
          ForgeTasks,     \* task descriptions, as [text, tool]: the tool's name is a prefix
          MaxForged       \* bound on the versions forged
\* A tool's name is "tool_" and more.
ASSUME ForgedNamesAssumption == \A task \in ForgeTasks : task.tool # ""

AppNames == {r.name : r \in AppRepos}
NoApp == [repo |-> [owner |-> "", name |-> ""], tag |-> 0]

VARIABLES apTag,       \* per repository: its latest release, 0 for none
          apDir,       \* per name: what its directory holds, NoApp for none or an empty one
          apFile,      \* registry.json
          apUser,      \* per process: the call it is in, and its _registry
          apCalls,
          apSilent,    \* history: names whose clone failed: an exit code counts as success,
                       \* and a time-out comes when the old directory is gone
          apStale      \* history: a process saved over a registry it had not read, two calls for
                       \* one name overlapped, or a process died in a call
apVars == <<apTag, apDir, apFile, apUser, apCalls, apSilent, apStale>>

AppRest == [at |-> "rest", repo |-> NoApp.repo, force |-> FALSE, tag |-> 0, registry |-> <<>>, read |-> <<>>]
AppsInit ==
  /\ apTag = [r \in AppRepos |-> 0] /\ apDir = [n \in AppNames |-> NoApp] /\ apFile = <<>>
  /\ apUser = [u \in Installers |-> AppRest]
  /\ apCalls = 0 /\ apSilent = {} /\ apStale = FALSE

User(u) == apUser[u]
UserIs(u, user) == apUser' = [apUser EXCEPT ![u] = user]
Name(u) == User(u).repo.name
Knows(u, n) == n \in DOMAIN User(u).registry
Called(repo) ==
  /\ apCalls < MaxAppCalls /\ apCalls' = apCalls + 1
  /\ apStale' = (apStale \/ \E v \in Installers : User(v).at # "rest" /\ Name(v) = repo.name)

\* A process starts, or starts again: _load_registry.
OpenInstaller(u) ==
  /\ UserIs(u, [AppRest EXCEPT !.registry = apFile, !.read = apFile])
  /\ apUser' # apUser /\ apStale' = (apStale \/ User(u).at # "rest")
  /\ UNCHANGED <<apTag, apDir, apFile, apCalls, apSilent>>

\* install: refused for a name it knows, whatever the repository, unless forced. The
\* release is asked for; the API may fail, which counts as no release.
Detected(repo) == {0, apTag[repo]}
Install(u, repo, force) ==
  /\ User(u).at = "rest" /\ (Knows(u, repo.name) => force) /\ Called(repo)
  /\ \E tag \in Detected(repo) :
       UserIs(u, [User(u) EXCEPT !.at = "fetch", !.repo = repo, !.force = force, !.tag = tag])
  /\ UNCHANGED <<apTag, apDir, apFile, apSilent>>
\* update: of the repository that is registered, when there is another release.
Update(u, n) ==
  /\ User(u).at = "rest" /\ Knows(u, n) /\ Called(User(u).registry[n].repo)
  /\ LET app == User(u).registry[n] IN
     /\ apTag[app.repo] \notin {0, app.tag}
     /\ \E tag \in Detected(app.repo) :
          UserIs(u, [User(u) EXCEPT !.at = "fetch", !.repo = app.repo, !.force = TRUE, !.tag = tag])
  /\ UNCHANGED <<apTag, apDir, apFile, apSilent>>

\* _clone_repo. The directory goes first when forced. git refuses one that is not
\* empty, and may fail otherwise: the call takes an exit code for success, and only an
\* exception, such as the timeout, ends it.
Fetch(u) ==
  LET n == Name(u)
      left == IF User(u).force THEN NoApp ELSE apDir[n]
      cloned == [repo |-> User(u).repo, tag |-> User(u).tag]
  IN
  /\ User(u).at = "fetch"
  /\ \/ /\ left = NoApp /\ apDir' = [apDir EXCEPT ![n] = cloned] /\ apSilent' = apSilent \ {n}
        /\ UserIs(u, [User(u) EXCEPT !.at = "register"])
     \/ /\ apDir' = [apDir EXCEPT ![n] = left] /\ apSilent' = apSilent \cup {n}
        /\ UserIs(u, [User(u) EXCEPT !.at = "register"])
     \/ /\ apDir' = [apDir EXCEPT ![n] = left]
        /\ apSilent' = IF left # apDir[n] THEN apSilent \cup {n} ELSE apSilent
        /\ UserIs(u, [User(u) EXCEPT !.at = "rest"])
  /\ UNCHANGED <<apTag, apFile, apCalls, apStale>>

SaveApps(u, registry) ==
  /\ apFile' = registry /\ apStale' = (apStale \/ User(u).read # apFile)
  /\ UserIs(u, [User(u) EXCEPT !.at = "rest", !.registry = registry, !.read = registry])
Listed(registry, n, app) == [m \in DOMAIN registry \cup {n} |-> IF m = n THEN app ELSE registry[m]]
\* Whatever _setup_environment returned, the application is INSTALLED.
RegisterApp(u) ==
  /\ User(u).at = "register"
  /\ SaveApps(u, Listed(User(u).registry, Name(u), [repo |-> User(u).repo, tag |-> User(u).tag]))
  /\ UNCHANGED <<apTag, apDir, apCalls, apSilent>>

\* uninstall: the directory, then the entry.
RemoveApp(u, n) ==
  /\ User(u).at = "rest" /\ Knows(u, n) /\ Called(User(u).registry[n].repo)
  /\ apDir' = [apDir EXCEPT ![n] = NoApp] /\ apSilent' = apSilent \ {n}
  /\ UserIs(u, [User(u) EXCEPT !.at = "forget", !.repo = User(u).registry[n].repo])
  /\ UNCHANGED <<apTag, apFile>>
ForgetApp(u) ==
  /\ User(u).at = "forget"
  /\ SaveApps(u, [m \in DOMAIN User(u).registry \ {Name(u)} |-> User(u).registry[m]])
  /\ UNCHANGED <<apTag, apDir, apCalls, apSilent>>

Release(r) ==
  /\ apTag[r] < MaxTag /\ apTag' = [apTag EXCEPT ![r] = @ + 1]
  /\ UNCHANGED <<apDir, apFile, apUser, apCalls, apSilent, apStale>>

AppsNext ==
  \/ \E u \in Installers :
       \/ OpenInstaller(u) \/ Fetch(u) \/ RegisterApp(u) \/ ForgetApp(u)
       \/ \E r \in AppRepos, force \in BOOLEAN : Install(u, r, force)
       \/ \E n \in AppNames : Update(u, n) \/ RemoveApp(u, n)
  \/ \E r \in AppRepos : Release(r)
AppsSpec == AppsInit /\ [][AppsNext]_apVars

-----------------------------------------------------------------------------
VARIABLES fgMemory, fgDisk,  \* _registered_tools and the files: name -> the task, the version
          fgAt,              \* the name forged or imported that is not written yet, or ""
          fgForged,          \* versions so far
          fgExports,         \* bundles exported
          fgUnwritten        \* history: names whose file could not be written
fgVars == <<fgMemory, fgDisk, fgAt, fgForged, fgExports, fgUnwritten>>

ForgeInit == fgMemory = <<>> /\ fgDisk = <<>> /\ fgAt = "" /\ fgForged = 0 /\ fgExports = {} /\ fgUnwritten = {}

\* forge_tool: a name that is taken is handed out, for whatever task it was made.
\* Otherwise a version that passes the gates is registered, then written; one that does
\* not leaves nothing.
Forge(task) ==
  /\ fgAt = "" /\ task.tool \notin DOMAIN fgMemory /\ fgForged < MaxForged
  /\ fgForged' = fgForged + 1 /\ fgAt' = task.tool
  /\ fgMemory' = Listed(fgMemory, task.tool, [for |-> task.text, version |-> fgForged'])
  /\ UNCHANGED <<fgDisk, fgExports, fgUnwritten>>
\* import_tool: the bundle takes the place of what has its name.
ImportTool(bundle) ==
  /\ fgAt = "" /\ bundle \in fgExports /\ fgAt' = bundle.tool
  /\ fgMemory' = Listed(fgMemory, bundle.tool, [for |-> bundle.for, version |-> bundle.version])
  /\ UNCHANGED <<fgDisk, fgForged, fgExports, fgUnwritten>>
WriteTool ==
  /\ fgAt # "" /\ fgAt' = ""
  /\ \/ fgDisk' = Listed(fgDisk, fgAt, fgMemory[fgAt]) /\ fgUnwritten' = fgUnwritten \ {fgAt}
     \/ fgUnwritten' = fgUnwritten \cup {fgAt} /\ UNCHANGED fgDisk
  /\ UNCHANGED <<fgMemory, fgForged, fgExports>>
\* export_tool: from memory, else from the file.
Exported(name) == IF name \in DOMAIN fgMemory THEN fgMemory[name] ELSE fgDisk[name]
ExportTool(name) ==
  /\ fgAt = "" /\ name \in DOMAIN fgMemory \cup DOMAIN fgDisk
  /\ fgExports' = fgExports \cup {[tool |-> name, for |-> Exported(name).for, version |-> Exported(name).version]}
  /\ UNCHANGED <<fgMemory, fgDisk, fgAt, fgForged, fgUnwritten>>
\* The process starts again: nothing is read from the files.
ForgeRestarts ==
  /\ fgMemory # <<>> /\ fgMemory' = <<>> /\ fgAt' = ""
  /\ fgUnwritten' = IF fgAt = "" THEN fgUnwritten ELSE fgUnwritten \cup {fgAt}
  /\ UNCHANGED <<fgDisk, fgForged, fgExports>>

ForgeNext ==
  \/ \E task \in ForgeTasks : Forge(task)
  \/ \E b \in fgExports : ImportTool(b)
  \/ WriteTool \/ ForgeRestarts
  \/ \E t \in ForgeTasks : ExportTool(t.tool)
ForgeSpec == ForgeInit /\ [][ForgeNext]_fgVars

-----------------------------------------------------------------------------
\* An application that registry.json lists is in its directory, that repository at that
\* tag, unless its clone failed or processes got in each other's way (AppInstaller).
AppsAreThere ==
  (\A u \in Installers : User(u).at = "rest") =>
    \A n \in DOMAIN apFile : apDir[n] = apFile[n] \/ n \in apSilent \/ apStale

\* The other way round: what was installed and not removed is listed.
InstalledIsListed ==
  (\A u \in Installers : User(u).at = "rest") =>
    \A n \in AppNames : apDir[n] # NoApp => n \in DOMAIN apFile \/ apStale

\* The file of a tool is the version in memory, once it was written, and both belong to
\* a task of that name.
ForgedIsOnDisk ==
  \A n \in DOMAIN fgMemory :
    /\ fgAt = n \/ n \in fgUnwritten \/ (n \in DOMAIN fgDisk /\ fgDisk[n] = fgMemory[n])
    /\ \E t \in ForgeTasks : t.tool = n /\ t.text = fgMemory[n].for

AppToolsAreKept == AppsAreThere /\ InstalledIsListed /\ ForgedIsOnDisk

\* Tools are the caller's: a node works in its own sandbox, and an application or a
\* forged tool that is listed is there, but for the races and failures that are named,
\* which the code does not see (SpindleToolBridge.execute_node, AppInstaller.install, forge_tool).
ToolsAreOnesOwn == NodeToolsAreOwn /\ AppToolsAreKept
=============================================================================
