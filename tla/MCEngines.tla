------------------------------ MODULE MCEngines ------------------------------
(* One run for the components that execute programs and keep processes alive.
   They share no state: a behaviour is one of the component in focus, with that
   component's own initial states, steps and fairness. *)
EXTENDS Executor, Supervision, HlfRun, Native

VARIABLE focus
desktopVars == <<shVars, bwVars, trVars, ntVars>>

\* A finished interpreter, when another component is in focus.
NoProgram ==
  /\ hrRun = [i \in {0} \cup Tasks |-> IF i = 0 THEN [Fresh(<<>>, GasCap) EXCEPT !.state = "ended"] ELSE NoRun]
  /\ hrReports = <<>> /\ hrCollected = {}
  /\ hrNamed = [n \in TaskNames |-> <<0, 0>>] /\ hrRound = 0 /\ hrExecuted = 0 /\ hrLost = 0 /\ hrBonus = 0

\* Contents of the user's file: entries with a name twice, one that is no object, a reserved one.
Entry(name, kind) == [name |-> name, kind |-> kind]
EnginesUserFiles ==
  {<<Entry("a", "valid"), Entry("a", "disabled"), Entry("b", "valid")>>,
   <<Entry("a", "valid"), Entry("x", "no object"), Entry("b", "valid")>>, <<Entry("a", "reserved")>>}

EnginesInit ==
  /\ focus \in {"executor", "canary", "hlf", "daemon", "shell", "browser", "tray", "tools"}
  /\ IF focus = "hlf" THEN HlfInit ELSE NoProgram
  /\ Init /\ CanaryInit /\ GdInit /\ ShellInit /\ BrowserInit /\ TrayInit /\ ToolsInit
  /\ focus # "browser" => bwHandlers = [l \in Labels |-> "none"]
  /\ focus # "tools" => ntSettings = {}

EnginesNext ==
  \/ focus = "executor" /\ Next /\ UNCHANGED <<focus, cnVars, hrVars, gdVars, desktopVars>>
  \/ focus = "canary" /\ CanaryNext /\ UNCHANGED <<focus, vars, hrVars, gdVars, desktopVars>>
  \/ focus = "hlf" /\ HlfNext /\ UNCHANGED <<focus, vars, cnVars, gdVars, desktopVars>>
  \/ focus = "daemon" /\ GdNext /\ UNCHANGED <<focus, vars, cnVars, hrVars, desktopVars>>
  \/ focus = "shell" /\ ShellNext /\ UNCHANGED <<focus, vars, cnVars, hrVars, gdVars, bwVars, trVars, ntVars>>
  \/ focus = "browser" /\ BrowserNext /\ UNCHANGED <<focus, vars, cnVars, hrVars, gdVars, shVars, trVars, ntVars>>
  \/ focus = "tray" /\ TrayNext /\ UNCHANGED <<focus, vars, cnVars, hrVars, gdVars, shVars, bwVars, ntVars>>
  \/ focus = "tools" /\ ToolsNext /\ UNCHANGED <<focus, vars, cnVars, hrVars, gdVars, shVars, bwVars, trVars>>

EnginesFairness ==
  /\ WF_vars(focus = "executor" /\ Start) /\ SF_vars(focus = "executor" /\ Read)
  /\ WF_vars(focus = "executor" /\ (Execute \/ ExecuteError)) /\ WF_vars(focus = "executor" /\ Ack)
  /\ WF_cnVars(focus = "canary" /\ CanaryLoop) /\ WF_cnVars(focus = "canary" /\ CanaryTick)
  /\ WF_hrVars(focus = "hlf" /\ HlfNext)
  /\ WF_gdVars(focus = "daemon" /\ MonitorStep)
  /\ \A c \in DaemonCallers : WF_gdVars(focus = "daemon" /\ CallerSteps(c))

EnginesSpec ==
  EnginesInit /\ [][EnginesNext]_<<focus, vars, cnVars, hrVars, gdVars, desktopVars>> /\ EnginesFairness

\* The gateway's process is kept track of; and so are the tray's services, with the shell, the
\* browser and the tools governed as their limits and settings say (GatewayDaemon, native).
ProcessesAreKept == DaemonKeepsTrack /\ NativeIsGoverned
=============================================================================
