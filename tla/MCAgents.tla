------------------------------- MODULE MCAgents -------------------------------
(* One run for the components that agents work with. They share no state: a
   behaviour is one of the component in focus, from that component's own initial
   states. *)
EXTENDS SpindleGraph, PlanExecution, EventBuses, Worktrees, Daemons, AgentTools, Monitors, HlfHost, Crew, TLC

VARIABLE focus

\* AgentTools: one role, without an entry until it is granted a permission, and two tools.
\* Two repositories of one name, and two tasks of one tool name.
NoRoles == <<>>
FileTools == <<"read", "write">>
\* The threads and the agents of AgentTools are interchangeable.
BridgeSymmetry == Permutations(BridgeWorkers) \cup Permutations(BridgeAgents)
Repositories == {[owner |-> o, name |-> "x"] : o \in {"o", "p"}}
ForgedTasks == {[text |-> t, tool |-> "f"] : t \in {"t1", "t2"}}

\* Entropies of a window of three records, in thousandths of a bit, for Monitors.
Entropies ==
  [c \in {<<1>>, <<2>>, <<3>>, <<1, 1>>, <<1, 2>>} |->
     IF Len(c) = 1 THEN 0 ELSE IF c = <<1, 1>> THEN 1000 ELSE 918]

\* Capsules for a scope of HlfHost: one that allows all, and a read-only one that denies tools.
SomeCapsules ==
  {[allowed |-> {}, denied |-> {}, readOnly |-> FALSE], [allowed |-> {}, denied |-> {"TOOL"}, readOnly |-> TRUE]}

\* Programs and host functions for a runtime of HlfHost: imports that depend on each other, dear
\* and forbidden functions, a result, and an assertion that fails.
Import(m) == [tag |-> "IMPORT", name |-> m]
CallTool(f) == [tag |-> "TOOL", name |-> f]
ImportingPrograms ==
  {<<Import("a"), [tag |-> "SET"], [tag |-> "RESULT", code |-> 0]>>, <<Import("a"), Import("b")>>,
   <<Import("b"), CallTool("READ"), CallTool("SECRET")>>, <<CallTool("OTHER")>>,
   <<[tag |-> "ASSERT", holds |-> FALSE]>>, <<CallTool("SPAWN"), [tag |-> "OTHER"]>>}
RuntimeFunctions ==
  [READ |-> [tier |-> TRUE, gas |-> 1, args |-> TRUE, sensitive |-> FALSE],
   SECRET |-> [tier |-> TRUE, gas |-> 2, args |-> TRUE, sensitive |-> TRUE],
   SPAWN |-> [tier |-> FALSE, gas |-> 1, args |-> TRUE, sensitive |-> FALSE]]

\* Discussions, registries on disk, reviews and issues for Crew.
AskedCrews == {<<"scout", "consolidator", "palette">>, <<"consolidator">>}
SomeRegistries == {{"scout", "palette"}, {"broken"}}
AskedHats == {<<"black", "gold">>, <<"black", "nohat", "gold">>}
Found(c, h, o) == [critical |-> c, high |-> h, other |-> o]
SomeFindings == {Found(0, 0, 0), Found(1, 0, 0), Found(0, 1, 5), Found(0, 1, 0)}
Selections == {<<"a", "b">>, <<"b">>}

AgentsInit ==
  /\ focus \in {"graph", "plan", "mission", "bus", "events", "worktrees", "daemons", "arbiter", "bridge", "apps", "forge", "triad", "insaits", "gas", "trap", "egl", "toolmon", "scope", "runtime", "crew", "hats", "dream", "gambit"}
  /\ GraphInit
  /\ PlanInit /\ (focus # "plan" => plTree = [p \in PlanPaths |-> "absent"])
  /\ SddInit
  /\ AgentBusInit
  /\ EventBusInit
  /\ WtInit /\ (focus # "worktrees" => wtHead = CHOOSE t \in WtTargets : TRUE)
  /\ DaemonsInit
  /\ ArbiterInit
  /\ BridgeInit
  /\ AppsInit
  /\ ForgeInit
  /\ TriadInit
  /\ InsAItsInit
  /\ DashboardInit
  /\ TrapInit
  /\ EglInit
  /\ ToolMonitorInit
  /\ ScopeInit /\ (focus # "scope" => hsCapsule.readOnly)
  /\ RuntimeInit /\ (focus # "runtime" => mrFiles = [m \in RtModules |-> Absent] /\ mrExpected = [m \in RtModules |-> 0])
  /\ CrewInit /\ (focus # "crew" => crDisk = [agents |-> Broken, mandates |-> FALSE])
  /\ HatsInit
  /\ DreamInit
  /\ GambitInit

AgentsNext ==
  \/ focus = "graph" /\ GraphNext
     /\ UNCHANGED <<focus, plVars, sdVars, abVars, ebVars, wtVars, dgVars, arVars, tbVars, apVars, fgVars, saVars, inVars, gdVars, otVars, egVars, tmVars, hsVars, mrVars, crVars, hrVars, deVars, gaVars>>
  \/ focus = "plan" /\ PlanNext
     /\ UNCHANGED <<focus, sgVars, sdVars, abVars, ebVars, wtVars, dgVars, arVars, tbVars, apVars, fgVars, saVars, inVars, gdVars, otVars, egVars, tmVars, hsVars, mrVars, crVars, hrVars, deVars, gaVars>>
  \/ focus = "mission" /\ SddNext
     /\ UNCHANGED <<focus, sgVars, plVars, abVars, ebVars, wtVars, dgVars, arVars, tbVars, apVars, fgVars, saVars, inVars, gdVars, otVars, egVars, tmVars, hsVars, mrVars, crVars, hrVars, deVars, gaVars>>
  \/ focus = "bus" /\ AgentBusNext
     /\ UNCHANGED <<focus, sgVars, plVars, sdVars, ebVars, wtVars, dgVars, arVars, tbVars, apVars, fgVars, saVars, inVars, gdVars, otVars, egVars, tmVars, hsVars, mrVars, crVars, hrVars, deVars, gaVars>>
  \/ focus = "events" /\ EventBusNext
     /\ UNCHANGED <<focus, sgVars, plVars, sdVars, abVars, wtVars, dgVars, arVars, tbVars, apVars, fgVars, saVars, inVars, gdVars, otVars, egVars, tmVars, hsVars, mrVars, crVars, hrVars, deVars, gaVars>>
  \/ focus = "worktrees" /\ WtNext
     /\ UNCHANGED <<focus, sgVars, plVars, sdVars, abVars, ebVars, dgVars, arVars, tbVars, apVars, fgVars, saVars, inVars, gdVars, otVars, egVars, tmVars, hsVars, mrVars, crVars, hrVars, deVars, gaVars>>
  \/ focus = "daemons" /\ DaemonsNext
     /\ UNCHANGED <<focus, sgVars, plVars, sdVars, abVars, ebVars, wtVars, arVars, tbVars, apVars, fgVars, saVars, inVars, gdVars, otVars, egVars, tmVars, hsVars, mrVars, crVars, hrVars, deVars, gaVars>>
  \/ focus = "arbiter" /\ ArbiterNext
     /\ UNCHANGED <<focus, sgVars, plVars, sdVars, abVars, ebVars, wtVars, dgVars, tbVars, apVars, fgVars, saVars, inVars, gdVars, otVars, egVars, tmVars, hsVars, mrVars, crVars, hrVars, deVars, gaVars>>
  \/ focus = "bridge" /\ BridgeNext
     /\ UNCHANGED <<focus, sgVars, plVars, sdVars, abVars, ebVars, wtVars, dgVars, arVars, apVars, fgVars, saVars, inVars, gdVars, otVars, egVars, tmVars, hsVars, mrVars, crVars, hrVars, deVars, gaVars>>
  \/ focus = "apps" /\ AppsNext
     /\ UNCHANGED <<focus, sgVars, plVars, sdVars, abVars, ebVars, wtVars, dgVars, arVars, tbVars, fgVars, saVars, inVars, gdVars, otVars, egVars, tmVars, hsVars, mrVars, crVars, hrVars, deVars, gaVars>>
  \/ focus = "forge" /\ ForgeNext
     /\ UNCHANGED <<focus, sgVars, plVars, sdVars, abVars, ebVars, wtVars, dgVars, arVars, tbVars, apVars, saVars, inVars, gdVars, otVars, egVars, tmVars, hsVars, mrVars, crVars, hrVars, deVars, gaVars>>
  \/ focus = "triad" /\ TriadNext
     /\ UNCHANGED <<focus, sgVars, plVars, sdVars, abVars, ebVars, wtVars, dgVars, arVars, tbVars, apVars, fgVars, inVars, gdVars, otVars, egVars, tmVars, hsVars, mrVars, crVars, hrVars, deVars, gaVars>>
  \/ focus = "insaits" /\ InsAItsNext
     /\ UNCHANGED <<focus, sgVars, plVars, sdVars, abVars, ebVars, wtVars, dgVars, arVars, tbVars, apVars, fgVars, saVars, gdVars, otVars, egVars, tmVars, hsVars, mrVars, crVars, hrVars, deVars, gaVars>>
  \/ focus = "gas" /\ DashboardNext
     /\ UNCHANGED <<focus, sgVars, plVars, sdVars, abVars, ebVars, wtVars, dgVars, arVars, tbVars, apVars, fgVars, saVars, inVars, otVars, egVars, tmVars, hsVars, mrVars, crVars, hrVars, deVars, gaVars>>
  \/ focus = "trap" /\ TrapNext
     /\ UNCHANGED <<focus, sgVars, plVars, sdVars, abVars, ebVars, wtVars, dgVars, arVars, tbVars, apVars, fgVars, saVars, inVars, gdVars, egVars, tmVars, hsVars, mrVars, crVars, hrVars, deVars, gaVars>>
  \/ focus = "egl" /\ EglNext
     /\ UNCHANGED <<focus, sgVars, plVars, sdVars, abVars, ebVars, wtVars, dgVars, arVars, tbVars, apVars, fgVars, saVars, inVars, gdVars, otVars, tmVars, hsVars, mrVars, crVars, hrVars, deVars, gaVars>>
  \/ focus = "toolmon" /\ ToolMonitorNext
     /\ UNCHANGED <<focus, sgVars, plVars, sdVars, abVars, ebVars, wtVars, dgVars, arVars, tbVars, apVars, fgVars, saVars, inVars, gdVars, otVars, egVars, hsVars, mrVars, crVars, hrVars, deVars, gaVars>>
  \/ focus = "scope" /\ ScopeNext
     /\ UNCHANGED <<focus, sgVars, plVars, sdVars, abVars, ebVars, wtVars, dgVars, arVars, tbVars, apVars, fgVars, saVars, inVars, gdVars, otVars, egVars, tmVars, mrVars, crVars, hrVars, deVars, gaVars>>
  \/ focus = "runtime" /\ RuntimeNext
     /\ UNCHANGED <<focus, sgVars, plVars, sdVars, abVars, ebVars, wtVars, dgVars, arVars, tbVars, apVars, fgVars, saVars, inVars, gdVars, otVars, egVars, tmVars, hsVars, crVars, hrVars, deVars, gaVars>>
  \/ focus = "crew" /\ CrewNext
     /\ UNCHANGED <<focus, sgVars, plVars, sdVars, abVars, ebVars, wtVars, dgVars, arVars, tbVars, apVars, fgVars, saVars, inVars, gdVars, otVars, egVars, tmVars, hsVars, mrVars, hrVars, deVars, gaVars>>
  \/ focus = "hats" /\ HatsNext
     /\ UNCHANGED <<focus, sgVars, plVars, sdVars, abVars, ebVars, wtVars, dgVars, arVars, tbVars, apVars, fgVars, saVars, inVars, gdVars, otVars, egVars, tmVars, hsVars, mrVars, crVars, deVars, gaVars>>
  \/ focus = "dream" /\ DreamNext
     /\ UNCHANGED <<focus, sgVars, plVars, sdVars, abVars, ebVars, wtVars, dgVars, arVars, tbVars, apVars, fgVars, saVars, inVars, gdVars, otVars, egVars, tmVars, hsVars, mrVars, crVars, hrVars, gaVars>>
  \/ focus = "gambit" /\ GambitNext
     /\ UNCHANGED <<focus, sgVars, plVars, sdVars, abVars, ebVars, wtVars, dgVars, arVars, tbVars, apVars, fgVars, saVars, inVars, gdVars, otVars, egVars, tmVars, hsVars, mrVars, crVars, hrVars, deVars>>

AgentsSpec == AgentsInit /\ [][AgentsNext]_<<focus, sgVars, plVars, sdVars, abVars, ebVars, wtVars, dgVars, arVars, tbVars, apVars, fgVars, saVars, inVars, gdVars, otVars, egVars, tmVars, hsVars, mrVars, crVars, hrVars, deVars, gaVars>>

=============================================================================
