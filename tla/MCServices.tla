------------------------------ MODULE MCServices ------------------------------
(* One run for the services around the agents. They share no state: a behaviour
   is one of the component in focus, from that component's own initial states. *)
EXTENDS Installers, HlfVm, MCRouting, Memories, Dispatchers, Governance, ModelRegistry, Credentials, Gateways, Selection, TLC

VARIABLE focus

\* Modules for Installers: two namespaces with a module of one name, and another one.
Modules ==
  {[key |-> "m", repo |-> "m", tag |-> "latest"], [key |-> "m", repo |-> "o/m", tag |-> "v1"],
   [key |-> "n", repo |-> "n", tag |-> "v1"]}

\* Providers, rotated keys and host functions for Gateways.
GatewayProviders == [g1 |-> "google", c1 |-> "ollama-cloud"]
RotatedKeys == <<"k1", "k2">>
GatewayFunctions ==
  <<[name |-> "GENERATE_TEXT", capability |-> "chat"], [name |-> "GENERATE_IMAGE", capability |-> "image_gen"]>>

\* Requests reach what can answer them and get its answer: the router's models, and
\* the gateways' providers, functions and worker (route_request, RequestRouter, janus_worker).
RequestsAreRouted == RoutesAreSound /\ GatewaysAreSound /\ []SelectionIsSound

\* Texts that match two rules of MAESTRO, one of five and any, and answers of a
\* model: surer than the rules, of no known category, and less sure.
HitsOfTwo == {<<1, 1>>, <<1, 6>>, <<6, 1>>, <<15, 15>>}
MaestroTexts ==
  {<<>>} \cup {[k \in {i, j} |-> IF k = i THEN h[1] ELSE h[2]] : i \in DOMAIN MoRules, j \in {1, 5, 9, 11, 15}, h \in HitsOfTwo}
ModelAnswers ==
  {[intent |-> "deploy", confidence |-> 60], [intent |-> "unknown", confidence |-> 100], [intent |-> "query", confidence |-> 20]}

\* Another provider object with the name of a default one, and a cheap local one before all.
OtherProfiles ==
  [google2 |-> DefaultProfile("google", "gemini", {"chat"}, 1, 4),
   nearby |-> [name |-> "nearby", models |-> {"mistral"}, can |-> {"chat", "code"}, cost |-> 1, priority |-> 1, local |-> TRUE]]
MaestroRouters == [near |-> [preferLocal |-> TRUE, costLimit |-> 0], thrifty |-> [preferLocal |-> FALSE, costLimit |-> 2]]
\* No router, when another component is in focus.
NoRouters == mtAvailable = <<>> /\ mtLists = [r \in DOMAIN MrRouters |-> <<>>] /\ mtRoute = NoRoute /\ mtCalls = 0

\* Repositories for Installers: two that name the same directory, a Python tool whose
\* name one of them also uses, and one that brings its virtual environment.
Repos ==
  {[dir |-> "d", tool |-> "x", adapter |-> "mcp", venv |-> FALSE], [dir |-> "d", tool |-> "y", adapter |-> "python", venv |-> TRUE],
   [dir |-> "e", tool |-> "x", adapter |-> "python", venv |-> FALSE]}

\* The processes of Installers are interchangeable.
ProcessSymmetry == Permutations(Commands) \cup Permutations(PkProcesses)

\* Changes to a rule: none, of a field, two that fail half-way, and one that disables it.
Changes ==
  {<<>>, << <<"enforcement", "warn">> >>, << <<"active", FALSE>>, <<"severity", "no such value">> >>,
   << <<"version", 2>>, <<"severity", "no such value">> >>,
   << <<"enforcement", "disabled">> >>}

\* Programs for the virtual machine: three flat statements, or an assignment before a
\* conditional inside another one's THEN block.
Ref(x) == [op |-> "ref", name |-> x]
Lit(v) == [op |-> "const", value |-> v]
Bin(op, l, r) == [op |-> op, left |-> l, right |-> r]
VmExprs ==
  {Lit(Num(0)), Ref("x"), [op |-> "NOT", left |-> Ref("x")], Bin("SUB", Lit(Num(1)), Ref("x")),
   Bin("DIV", Lit(Num(1)), Bin("CMP_EQ", Ref("x"), Lit(Num(0)))), Bin("CMP_LT", Ref("x"), Ref("y"))}
Sets == {[tag |-> "SET", name |-> "x", value |-> Num(1)]}
Assigns == {[tag |-> "ASSIGN", name |-> "x", rhs |-> e] : e \in VmExprs}
Simple ==
  Sets \cup Assigns \cup
  {[tag |-> "RESULT", value |-> Num(1)], [tag |-> "INTENT"], [tag |-> "CALL_BUILTIN", args |-> 1],
   [tag |-> "CALL_HOST", args |-> 2], [tag |-> "CALL_TOOL", args |-> 0], [tag |-> "MEMORY"],
   [tag |-> "RECALL", topK |-> 1], [tag |-> "THOUGHT"], [tag |-> "OTHER"]}
Few == {[tag |-> "SET", name |-> "y", value |-> Num(1)], [tag |-> "RECALL", topK |-> 1]}
Elses == {<<>>} \cup {<<f>> : f \in Few}
If(c, t, e) == [tag |-> "IF", condition |-> c, then |-> <<t>>, else |-> e]
Flat == {If(Ref("x"), t, e) : t \in Few, e \in Elses}
Nested == {If(c, t, e) : c \in {Ref("x"), Bin("CMP_EQ", Ref("x"), Lit(Num(1)))}, t \in Flat, e \in Elses}
Progs ==
  {<<a, b, c>> : a \in Sets \cup Assigns \cup {[tag |-> "MEMORY"]}, b \in Simple \cup Flat, c \in Simple}
  \cup {<<a, b>> : a \in Sets \cup Assigns, b \in Nested}

\* The virtual machine when another component is in focus.
NoVm ==
  /\ vmTree = <<>> /\ vmCode = <<>> /\ vmLimit = 0 /\ vmIp = 0 /\ vmStack = <<>> /\ vmGas = 0
  /\ vmScope = <<>> /\ vmImmut = {} /\ vmEnd = ""

ServicesInit ==
  /\ focus \in {"tools", "host", "ollama", "deadman", "veto", "registry", "rag", "log", "ledger", "vault", "identity", "vm", "routing", "scribe", "facts", "packages", "gateway", "sync", "zai", "janus", "maestro", "providers", "sizing"}
  /\ ToolInit /\ (focus # "tools" => tiFunctions.state = "ok")
  /\ HostInit
  /\ DispatchInit /\ (focus # "ollama" => odStrategy = "failover" /\ odKey)
  /\ DeadManInit
  /\ SoftVetoInit
  /\ RegistryInit
  /\ RagInit
  /\ AlsInit
  /\ LedgerInit
  /\ VaultInit
  /\ IdInit
  /\ IF focus = "vm" THEN HlfVmInit ELSE NoVm
  /\ RouteInit /\ (focus # "routing" => ~rtCatalog.present)
  /\ ScribeInit
  /\ FactsInit
  /\ PackagesInit
  /\ GatewayInit /\ (focus # "gateway" => gmRegistry = {GwFallback})
  /\ BridgeSyncInit /\ (focus # "sync" => gbFile.state = "ok")
  /\ ZaiInit
  /\ JanusInit
  /\ MaestroInit
  /\ IF focus = "providers" THEN MaestroRouterInit ELSE NoRouters
  /\ SizingInit

ServicesNext ==
  \/ focus = "tools" /\ ToolNext
     /\ UNCHANGED <<focus, hfVars, odVars, dmVars, svVars, rgVars, irVars, alsVars, ldVars, vtVars, idVars, vmVars, rtVars, csVars, ftVars, pkVars, gmVars, gbVars, zaVars, jaVars, moVars, mtVars, tcVars>>
  \/ focus = "host" /\ HostNext
     /\ UNCHANGED <<focus, tiVars, odVars, dmVars, svVars, rgVars, irVars, alsVars, ldVars, vtVars, idVars, vmVars, rtVars, csVars, ftVars, pkVars, gmVars, gbVars, zaVars, jaVars, moVars, mtVars, tcVars>>
  \/ focus = "ollama" /\ DispatchNext
     /\ UNCHANGED <<focus, tiVars, hfVars, dmVars, svVars, rgVars, irVars, alsVars, ldVars, vtVars, idVars, vmVars, rtVars, csVars, ftVars, pkVars, gmVars, gbVars, zaVars, jaVars, moVars, mtVars, tcVars>>
  \/ focus = "deadman" /\ DeadManNext
     /\ UNCHANGED <<focus, tiVars, hfVars, odVars, svVars, rgVars, irVars, alsVars, ldVars, vtVars, idVars, vmVars, rtVars, csVars, ftVars, pkVars, gmVars, gbVars, zaVars, jaVars, moVars, mtVars, tcVars>>
  \/ focus = "veto" /\ SoftVetoNext
     /\ UNCHANGED <<focus, tiVars, hfVars, odVars, dmVars, rgVars, irVars, alsVars, ldVars, vtVars, idVars, vmVars, rtVars, csVars, ftVars, pkVars, gmVars, gbVars, zaVars, jaVars, moVars, mtVars, tcVars>>
  \/ focus = "registry" /\ RegistryNext
     /\ UNCHANGED <<focus, tiVars, hfVars, odVars, dmVars, svVars, irVars, alsVars, ldVars, vtVars, idVars, vmVars, rtVars, csVars, ftVars, pkVars, gmVars, gbVars, zaVars, jaVars, moVars, mtVars, tcVars>>
  \/ focus = "rag" /\ RagNext
     /\ UNCHANGED <<focus, tiVars, hfVars, odVars, dmVars, svVars, rgVars, alsVars, ldVars, vtVars, idVars, vmVars, rtVars, csVars, ftVars, pkVars, gmVars, gbVars, zaVars, jaVars, moVars, mtVars, tcVars>>
  \/ focus = "log" /\ AlsNext
     /\ UNCHANGED <<focus, tiVars, hfVars, odVars, dmVars, svVars, rgVars, irVars, ldVars, vtVars, idVars, vmVars, rtVars, csVars, ftVars, pkVars, gmVars, gbVars, zaVars, jaVars, moVars, mtVars, tcVars>>
  \/ focus = "ledger" /\ LedgerNext
     /\ UNCHANGED <<focus, tiVars, hfVars, odVars, dmVars, svVars, rgVars, irVars, alsVars, vtVars, idVars, vmVars, rtVars, csVars, ftVars, pkVars, gmVars, gbVars, zaVars, jaVars, moVars, mtVars, tcVars>>
  \/ focus = "vault" /\ VaultNext
     /\ UNCHANGED <<focus, tiVars, hfVars, odVars, dmVars, svVars, rgVars, irVars, alsVars, ldVars, idVars, vmVars, rtVars, csVars, ftVars, pkVars, gmVars, gbVars, zaVars, jaVars, moVars, mtVars, tcVars>>
  \/ focus = "identity" /\ IdNext
     /\ UNCHANGED <<focus, tiVars, hfVars, odVars, dmVars, svVars, rgVars, irVars, alsVars, ldVars, vtVars, vmVars, rtVars, csVars, ftVars, pkVars, gmVars, gbVars, zaVars, jaVars, moVars, mtVars, tcVars>>
  \/ focus = "vm" /\ HlfVmNext
     /\ UNCHANGED <<focus, tiVars, hfVars, odVars, dmVars, svVars, rgVars, irVars, alsVars, ldVars, vtVars, idVars, rtVars, csVars, ftVars, pkVars, gmVars, gbVars, zaVars, jaVars, moVars, mtVars, tcVars>>
  \/ focus = "routing" /\ RouteNext
     /\ UNCHANGED <<focus, tiVars, hfVars, odVars, dmVars, svVars, rgVars, irVars, alsVars, ldVars, vtVars, idVars, vmVars, csVars, ftVars, pkVars, gmVars, gbVars, zaVars, jaVars, moVars, mtVars, tcVars>>
  \/ focus = "scribe" /\ ScribeNext
     /\ UNCHANGED <<focus, tiVars, hfVars, odVars, dmVars, svVars, rgVars, irVars, alsVars, ldVars, vtVars, idVars, vmVars, rtVars, ftVars, pkVars, gmVars, gbVars, zaVars, jaVars, moVars, mtVars, tcVars>>
  \/ focus = "facts" /\ FactsNext
     /\ UNCHANGED <<focus, tiVars, hfVars, odVars, dmVars, svVars, rgVars, irVars, alsVars, ldVars, vtVars, idVars, vmVars, rtVars, csVars, pkVars, gmVars, gbVars, zaVars, jaVars, moVars, mtVars, tcVars>>
  \/ focus = "packages" /\ PackagesNext
     /\ UNCHANGED <<focus, tiVars, hfVars, odVars, dmVars, svVars, rgVars, irVars, alsVars, ldVars, vtVars, idVars, vmVars, rtVars, csVars, ftVars, gmVars, gbVars, zaVars, jaVars, moVars, mtVars, tcVars>>
  \/ focus = "gateway" /\ GatewayNext
     /\ UNCHANGED <<focus, tiVars, hfVars, odVars, dmVars, svVars, rgVars, irVars, alsVars, ldVars, vtVars, idVars, vmVars, rtVars, csVars, ftVars, pkVars, gbVars, zaVars, jaVars, moVars, mtVars, tcVars>>
  \/ focus = "sync" /\ BridgeSyncNext
     /\ UNCHANGED <<focus, tiVars, hfVars, odVars, dmVars, svVars, rgVars, irVars, alsVars, ldVars, vtVars, idVars, vmVars, rtVars, csVars, ftVars, pkVars, gmVars, zaVars, jaVars, moVars, mtVars, tcVars>>
  \/ focus = "zai" /\ ZaiNext
     /\ UNCHANGED <<focus, tiVars, hfVars, odVars, dmVars, svVars, rgVars, irVars, alsVars, ldVars, vtVars, idVars, vmVars, rtVars, csVars, ftVars, pkVars, gmVars, gbVars, jaVars, moVars, mtVars, tcVars>>
  \/ focus = "janus" /\ JanusNext
     /\ UNCHANGED <<focus, tiVars, hfVars, odVars, dmVars, svVars, rgVars, irVars, alsVars, ldVars, vtVars, idVars, vmVars, rtVars, csVars, ftVars, pkVars, gmVars, gbVars, zaVars, moVars, mtVars, tcVars>>
  \/ focus = "maestro" /\ MaestroNext
     /\ UNCHANGED <<focus, tiVars, hfVars, odVars, dmVars, svVars, rgVars, irVars, alsVars, ldVars, vtVars, idVars, vmVars, rtVars, csVars, ftVars, pkVars, gmVars, gbVars, zaVars, jaVars, mtVars, tcVars>>
  \/ focus = "providers" /\ MaestroRouterNext
     /\ UNCHANGED <<focus, tiVars, hfVars, odVars, dmVars, svVars, rgVars, irVars, alsVars, ldVars, vtVars, idVars, vmVars, rtVars, csVars, ftVars, pkVars, gmVars, gbVars, zaVars, jaVars, moVars, tcVars>>
  \/ focus = "sizing" /\ SizingNext
     /\ UNCHANGED <<focus, tiVars, hfVars, odVars, dmVars, svVars, rgVars, irVars, alsVars, ldVars, vtVars, idVars, vmVars, rtVars, csVars, ftVars, pkVars, gmVars, gbVars, zaVars, jaVars, moVars, mtVars>>

ServicesSpec == ServicesInit /\ [][ServicesNext]_<<focus, tiVars, hfVars, odVars, dmVars, svVars, rgVars, irVars, alsVars, ldVars, vtVars, idVars, vmVars, rtVars, csVars, ftVars, pkVars, gmVars, gbVars, zaVars, jaVars, moVars, mtVars, tcVars>>

=============================================================================
