------------------------------- MODULE Native --------------------------------
(* The bridge to the desktop (agents/core/native): governed shell commands and their
   token bucket (shell.py, bridge.py), the default browser and its backup (browseros.py),
   the services of the tray (tray.py, action_menu.py), and the tools registered from
   settings and from the user's file (native_tools.py and its groups, user_tools.py),
   those of BrowserOS's server included (browseros_mcp.py).
   Each part has variables of its own and a process of its own. *)
EXTENDS Naturals, Sequences, FiniteSets, SequencesExt

CONSTANTS
  ShellBurst,      \* max_tokens of the shell's bucket
  TokenTicks,      \* ticks of the clock in which one token is refilled
  MaxShellTime,    \* bound on the clock
  MaxBrowserSteps, \* bound on registrations, restores and choices of the user
  MaxTrayStarts,   \* bound on the processes the tray starts
  Features,        \* features of settings.json, each with one tool: of "desktop", "models", "programs"
  UserFiles,       \* contents of user_tools.json: sequences of [name, kind]
  MaxToolSteps     \* bound on edits, loads and calls

-----------------------------------------------------------------------------
\* The shell. The bucket is one for the class, whatever bridges there are; its level is
\* counted in ticks, TokenTicks to the token.
VARIABLES
  shNow, shLevel, shRefilled,   \* the clock, the bucket, and when it was last refilled
  shUsed,    \* history: the times when a token was taken
  shLast     \* the last call: [at, verdict, allowed, cwd]
shVars == <<shNow, shLevel, shRefilled, shUsed, shLast>>

Bucket == ShellBurst * TokenTicks
NoCall == [at |-> 0, verdict |-> "none", allowed |-> TRUE, cwd |-> "none"]
ShellInit ==
  shNow = 0 /\ shLevel = Bucket /\ shRefilled = 0 /\ shUsed = <<>> /\ shLast = NoCall

Refilled == LET full == shLevel + (shNow - shRefilled) IN IF full > Bucket THEN Bucket ELSE full
ShellCalls ==
  [governed : BOOLEAN, allowed : BOOLEAN, cwd : {"none", "inside", "outside"}]
ShellOutcomes == {"ran", "timed out", "failed"}
\* shell_exec: the allowlist, then the bucket, which only a bridge has, then the directory.
Verdict(call, token, outcome) ==
  IF ~call.allowed THEN "denied"
  ELSE IF call.governed /\ ~token THEN "rate limited"
  ELSE IF call.cwd = "outside" THEN "confined" ELSE outcome
\* try_consume refills the bucket even when it refuses.
ShellExec(call, outcome) ==
  LET asks == call.governed /\ call.allowed
      token == Refilled >= TokenTicks
      verdict == Verdict(call, token, outcome)
  IN /\ shLevel' = IF ~asks THEN shLevel ELSE IF token THEN Refilled - TokenTicks ELSE Refilled
     /\ shRefilled' = IF asks THEN shNow ELSE shRefilled
     /\ shUsed' = IF asks /\ token THEN Append(shUsed, shNow) ELSE shUsed
     /\ shLast' = [at |-> shNow, verdict |-> verdict, allowed |-> call.allowed, cwd |-> call.cwd]
     /\ UNCHANGED shNow
ShellClock == shNow < MaxShellTime /\ shNow' = shNow + 1 /\ UNCHANGED <<shLevel, shRefilled, shUsed, shLast>>

ShellNext ==
  \/ \E call \in ShellCalls, outcome \in ShellOutcomes : ShellExec(call, outcome)
  \/ ShellClock

\* In no span of time do the bridges' calls take more tokens than a full bucket and what is
\* refilled meanwhile; a call is refused for its rate only if one more would; and what ran
\* was on the allowlist and, where it names a directory, inside the base directory
\* (TokenBucketRateLimiter.try_consume, shell_exec).
Within(times, now) ==
  \A i \in DOMAIN times : TokenTicks * (Len(times) - i + 1) <= Bucket + (now - times[i])
ShellIsGoverned ==
  /\ Within(shUsed, shNow)
  /\ shLast.verdict = "rate limited" => ~Within(Append(shUsed, shLast.at), shLast.at)
  /\ shLast.verdict \in ShellOutcomes => shLast.allowed /\ shLast.cwd # "outside"

-----------------------------------------------------------------------------
\* The default browser: two handlers in the Windows registry, and a backup of them.
VARIABLES
  bwHandlers,  \* what opens http and https: "none", "bos", or a browser the user chose
  bwDirs,      \* BrowserOS's data directories that exist
  bwBackup,    \* per place: {} or {the handlers saved}; a torn file is {Torn}
  bwOwn,       \* history: what the user last chose
  bwCareless,  \* history: a registration over BrowserOS itself, or a restore over a
               \* later choice
  bwSteps
bwVars == <<bwHandlers, bwDirs, bwBackup, bwOwn, bwCareless, bwSteps>>

Labels == {"http", "https"}
BackupPlaces == {"data", "userdata", "appdata"}
BrowserInit ==
  /\ bwHandlers \in [Labels -> {"none", "edge"}] /\ bwOwn = bwHandlers
  /\ bwDirs = {} /\ bwBackup = [p \in BackupPlaces |-> {}] /\ bwCareless = FALSE /\ bwSteps = 0

Torn == [l \in Labels |-> "torn"]
BrowserStep == bwSteps < MaxBrowserSteps /\ bwSteps' = bwSteps + 1
\* _find_data_dirs, and %APPDATA% where there is none.
BackupPlace == IF "data" \in bwDirs THEN "data" ELSE IF "userdata" \in bwDirs THEN "userdata" ELSE "appdata"
\* register_as_default_browser: no handler at all leaves an old backup as it is; the handlers
\* are written one after the other, and fail is the one that cannot be.
RegisterAsDefault(fail) ==
  LET saves == \E l \in Labels : bwHandlers[l] # "none"
      written == CASE fail = "https" -> {"http"} [] fail = "none" -> Labels [] OTHER -> {}
      torn == fail = "file" /\ saves
  IN /\ BrowserStep
     /\ bwBackup' = IF saves THEN [bwBackup EXCEPT ![BackupPlace] = {IF torn THEN Torn ELSE bwHandlers}]
                    ELSE bwBackup
     /\ bwHandlers' = [l \in Labels |-> IF l \in written THEN "bos" ELSE bwHandlers[l]]
     /\ bwCareless' = (bwCareless \/ \E l \in Labels : bwHandlers[l] = "bos")
     /\ UNCHANGED <<bwDirs, bwOwn>>
\* restore_previous_browser looks in the data directory only; a handler that was not there
\* is not restored; a failure keeps the file.
RestorePrevious(fail) ==
  LET backup == bwBackup["data"]
      saved == CHOOSE b \in backup : TRUE
      read == backup # {} /\ saved # Torn
      written == CASE fail = "http" -> {} [] fail = "https" -> {"http"} [] OTHER -> Labels
  IN /\ BrowserStep
     /\ bwHandlers' = [l \in Labels |-> IF read /\ l \in written /\ saved[l] # "none" THEN saved[l] ELSE bwHandlers[l]]
     /\ bwBackup' = IF read /\ fail = "none" THEN [bwBackup EXCEPT !["data"] = {}] ELSE bwBackup
     /\ bwCareless' = (bwCareless \/ \E l \in Labels : read /\ saved[l] \notin {"none", bwOwn[l]})
     /\ UNCHANGED <<bwDirs, bwOwn>>
UserPicks(l) ==
  /\ BrowserStep /\ bwOwn' = [bwOwn EXCEPT ![l] = "brave"] /\ bwHandlers' = [bwHandlers EXCEPT ![l] = "brave"]
  /\ UNCHANGED <<bwDirs, bwBackup, bwCareless>>
\* BrowserOS makes its directories when it first runs.
BrowserOSRuns(dir) ==
  /\ dir \notin bwDirs /\ bwDirs' = bwDirs \cup {dir}
  /\ UNCHANGED <<bwHandlers, bwBackup, bwOwn, bwCareless, bwSteps>>

BrowserNext ==
  \/ \E fail \in {"none", "file", "http", "https"} : RegisterAsDefault(fail)
  \/ \E fail \in {"none", "http", "https", "remove"} : RestorePrevious(fail)
  \/ \E l \in Labels : UserPicks(l)
  \/ \E dir \in {"data", "userdata"} : BrowserOSRuns(dir)

\* However registrations and restores fail half-way, the handler that the user chose is in
\* place or in a backup, unless BrowserOS was registered over itself or a restore took back
\* a later choice (register_as_default_browser, restore_previous_browser).
BrowserComesBack ==
  \A l \in Labels :
    \/ bwOwn[l] = "none" \/ bwHandlers[l] = bwOwn[l] \/ bwCareless
    \/ \E p \in BackupPlaces : \E b \in bwBackup[p] : b[l] = bwOwn[l]

-----------------------------------------------------------------------------
\* The services of the tray. The backend's process is docker compose, which ends when the
\* containers are up; the others are the services themselves.
VARIABLES
  trOn,        \* the tray runs
  trFlag,      \* per service: running
  trAlive,     \* per service: processes started and not told to end
  trEnding,    \* per service: processes told to end that still run
  trCompose,   \* [up, down]: docker compose commands that run
  trUp,        \* the containers are up
  trDied,      \* history: services whose process ended by itself
  trOvertaken, \* history: a down was begun while an up ran, or an up failed
  trStarts
trVars == <<trOn, trFlag, trAlive, trEnding, trCompose, trUp, trDied, trOvertaken, trStarts>>

TrayProcesses == {"gui", "mcp"}
TrayServices == {"backend"} \cup TrayProcesses
TrayInit ==
  /\ trOn = TRUE /\ trFlag = [s \in TrayServices |-> FALSE]
  /\ trAlive = [s \in TrayProcesses |-> 0] /\ trEnding = trAlive
  /\ trCompose = [up |-> 0, down |-> 0] /\ trUp = FALSE
  /\ trDied = {} /\ trOvertaken = FALSE /\ trStarts = 0

\* A start of the services in launch; one whose flag is set is passed over.
Launched(launch) ==
  LET new == {s \in launch : ~trFlag[s]} IN
  /\ trStarts + Cardinality(new) <= MaxTrayStarts /\ trStarts' = trStarts + Cardinality(new)
  /\ trFlag' = [s \in TrayServices |-> trFlag[s] \/ s \in launch]
  /\ trAlive' = [s \in TrayProcesses |-> trAlive[s] + (IF s \in new THEN 1 ELSE 0)]
  /\ trCompose' = [trCompose EXCEPT !.up = @ + (IF "backend" \in new THEN 1 ELSE 0)]
  /\ trDied' = trDied \ new
\* start_backend, start_gui, start_mcp. A command that is not found raises, and nothing changes.
StartService(s) ==
  trOn /\ Launched({s}) /\ UNCHANGED <<trOn, trEnding, trUp, trOvertaken>>
\* auto_launch_all: one that cannot be started keeps those after it from being tried.
AutoLaunch(upTo) ==
  trOn /\ Launched(Range(SubSeq(<<"backend", "gui", "mcp">>, 1, upTo))) /\ UNCHANGED <<trOn, trEnding, trUp, trOvertaken>>

\* A stop of the services in down, each only where its flag is set.
Stopped(down) ==
  LET held == {s \in down : trFlag[s]} IN
  /\ trFlag' = [s \in TrayServices |-> trFlag[s] /\ s \notin down]
  /\ trEnding' = [s \in TrayProcesses |-> trEnding[s] + (IF s \in held THEN trAlive[s] ELSE 0)]
  /\ trAlive' = [s \in TrayProcesses |-> IF s \in held THEN 0 ELSE trAlive[s]]
  /\ trCompose' = [trCompose EXCEPT !.down = @ + (IF "backend" \in held THEN 1 ELSE 0)]
  /\ trOvertaken' = (trOvertaken \/ ("backend" \in held /\ trCompose.up > 0))
StopService(s) == trOn /\ Stopped({s}) /\ UNCHANGED <<trOn, trUp, trDied, trStarts>>
\* stop_all_services stops the backend last, and docker may not be found.
StopAllServices(docker) ==
  trOn /\ Stopped(IF docker THEN TrayServices ELSE TrayProcesses) /\ UNCHANGED <<trOn, trUp, trDied, trStarts>>
\* The menu's Quit ends the tray and calls no callback.
Quit ==
  trOn /\ trOn' = FALSE
  /\ UNCHANGED <<trFlag, trAlive, trEnding, trCompose, trUp, trDied, trOvertaken, trStarts>>

ServiceDies(s) ==
  /\ trAlive[s] > 0 /\ trAlive' = [trAlive EXCEPT ![s] = @ - 1] /\ trDied' = trDied \cup {s}
  /\ UNCHANGED <<trOn, trFlag, trEnding, trCompose, trUp, trOvertaken, trStarts>>
ServiceEnds(s) ==
  /\ trEnding[s] > 0 /\ trEnding' = [trEnding EXCEPT ![s] = @ - 1]
  /\ UNCHANGED <<trOn, trFlag, trAlive, trCompose, trUp, trDied, trOvertaken, trStarts>>
ComposeEnds(which, works) ==
  /\ trCompose[which] > 0 /\ trCompose' = [trCompose EXCEPT ![which] = @ - 1]
  /\ trUp' = IF works THEN which = "up" ELSE trUp
  /\ trOvertaken' = (trOvertaken \/ ~works)
  /\ UNCHANGED <<trOn, trFlag, trAlive, trEnding, trDied, trStarts>>

TrayNext ==
  \/ \E s \in TrayServices : StartService(s) \/ StopService(s)
  \/ \E upTo \in 1 .. 3 : AutoLaunch(upTo)
  \/ \E docker \in BOOLEAN : StopAllServices(docker)
  \/ \E s \in TrayProcesses : ServiceDies(s) \/ ServiceEnds(s)
  \/ \E which \in {"up", "down"}, works \in BOOLEAN : ComposeEnds(which, works)
  \/ Quit

\* No service has two processes but for one that is ending, and each that was not told to
\* end can be: its flag is set. A flag is set without a process only where that ended by
\* itself. Containers without a flag are about to go down, or a compose command was
\* overtaken by the other or failed (_ServiceState, stop_backend, auto_launch_all).
TrayKeepsTrack ==
  /\ \A s \in TrayProcesses :
       /\ trAlive[s] <= 1 /\ (trAlive[s] = 1 => trFlag[s])
       /\ trFlag[s] /\ trAlive[s] = 0 => s \in trDied
  /\ trUp /\ ~trFlag["backend"] => trCompose.down > 0 \/ trOvertaken

-----------------------------------------------------------------------------
\* Tools. settings.json is read when tools are registered, and again when the bridge, which
\* exists once, is made; BrowserOS's server is asked once for its tools.
VARIABLES
  ntSettings,   \* features switched on in the file
  ntTools,      \* tools registered with any registry: [by, of]
  ntBridge,     \* {} or {the features when the bridge was made}
  ntServer, ntListed,   \* tools of BrowserOS's server; {} or {the list once it was got}
  ntReport,     \* the last load of the user's file: [file, loaded, skipped, ended]
  ntLast,       \* the last call: [tool, answer]
  ntEver,       \* history: features ever on
  ntMoved,      \* history: the settings were edited; the server changed since it was asked
  ntSteps
ntVars == <<ntSettings, ntTools, ntBridge, ntServer, ntListed, ntReport, ntLast, ntEver, ntMoved, ntSteps>>

Tool(by, of) == [by |-> by, of |-> of]
NoReport == [file |-> <<>>, loaded |-> 0, skipped |-> 0, ended |-> TRUE]
ToolsInit ==
  /\ ntSettings \in SUBSET Features /\ ntEver = ntSettings
  /\ ntTools = {} /\ ntBridge = {} /\ ntServer = {"navigate"} /\ ntListed = {}
  /\ ntReport = NoReport /\ ntLast = [tool |-> Tool("none", "none"), answer |-> "none"]
  /\ ntMoved = [settings |-> FALSE, server |-> FALSE] /\ ntSteps = 0

ToolStep == ntSteps < MaxToolSteps /\ ntSteps' = ntSteps + 1
EditSettings(f) ==
  /\ ToolStep /\ ntSettings' = IF f \in ntSettings THEN ntSettings \ {f} ELSE ntSettings \cup {f}
  /\ ntEver' = ntEver \cup ntSettings' /\ ntMoved' = [ntMoved EXCEPT !.settings = TRUE]
  /\ UNCHANGED <<ntTools, ntBridge, ntServer, ntListed, ntReport, ntLast>>
\* The tools of each group whose feature is on.
DesktopTools(settings) == settings \cap {"desktop"}
ModelTools(settings) == settings \cap {"models"}
ProgramTools(settings) == settings \cap {"programs"}
Grouped(settings, groups) ==
  UNION {CASE g = "models" -> ModelTools(settings) [] g = "programs" -> ProgramTools(settings) : g \in groups}
\* register_native_tools: the desktop's tools, then one group after the other, where what a
\* group raises ends that group only. A registry that does not take the call raises at the
\* desktop's first tool. Nothing is ever unregistered.
RegisterNative(groups, fits) ==
  /\ ToolStep
  /\ ntTools' = ntTools \cup {Tool("native", f) :
       f \in IF fits THEN DesktopTools(ntSettings) \cup Grouped(ntSettings, groups) ELSE {}}
  /\ UNCHANGED <<ntSettings, ntBridge, ntServer, ntListed, ntReport, ntLast, ntEver, ntMoved>>

\* load_user_tools: entries that do not pass are skipped and counted, and so is one that the
\* registry does not take; one that is no object raises, and those before it stay.
Objects(file) ==
  IF \E i \in DOMAIN file : file[i].kind = "no object"
  THEN SubSeq(file, 1, (CHOOSE i \in DOMAIN file : file[i].kind = "no object"
                          /\ \A j \in 1 .. i - 1 : file[j].kind # "no object") - 1)
  ELSE file
Loads(entry) == entry.kind = "valid"
LoadUserTools(file, fits) ==
  LET seen == Objects(file)
      loaded == IF fits THEN SelectSeq(seen, Loads) ELSE <<>>
  IN /\ ToolStep /\ ntTools' = ntTools \cup {Tool("user", loaded[i].name) : i \in DOMAIN loaded}
     /\ ntReport' = [file |-> file, loaded |-> Len(loaded), skipped |-> Len(seen) - Len(loaded),
                     ended |-> seen = file]
     /\ UNCHANGED <<ntSettings, ntBridge, ntServer, ntListed, ntLast, ntEver, ntMoved>>

\* A handler asks for the bridge, which is made of the settings at that moment, and raises
\* if it was made with its feature off; the answer of a command or a model that failed is
\* an "ok" with its text.
CallNative(t, outcome) ==
  /\ ToolStep /\ t \in ntTools /\ t.by = "native" /\ t.of = "desktop"
  /\ ntBridge' = IF ntBridge = {} THEN {ntSettings} ELSE ntBridge
  /\ ntLast' = [tool |-> t, answer |-> IF \E features \in ntBridge' : t.of \in features THEN outcome
                                       ELSE "unavailable"]
  /\ UNCHANGED <<ntSettings, ntTools, ntServer, ntListed, ntReport, ntEver, ntMoved>>
\* _ollama_generate: the secondary host is asked where the primary fails.
CallModel(t, up) ==
  /\ ToolStep /\ t \in ntTools /\ t.by = "native" /\ t.of = "models"
  /\ ntLast' = [tool |-> t, answer |-> IF up = {} THEN "ok, an error text" ELSE "ok"]
  /\ UNCHANGED <<ntSettings, ntTools, ntBridge, ntServer, ntListed, ntReport, ntEver, ntMoved>>
\* A call of an external program takes a token of the limiter made at its registration, or raises.
CallProgram(t, token) ==
  /\ ToolStep /\ t \in ntTools /\ t.by = "native" /\ t.of = "programs"
  /\ ntLast' = [tool |-> t, answer |-> IF token THEN "ok" ELSE "limited"]
  /\ UNCHANGED <<ntSettings, ntTools, ntBridge, ntServer, ntListed, ntReport, ntEver, ntMoved>>
\* A user's tool answers an error for what goes wrong, but for the bridge's refusal of a command.
CallUserTool(t, transport, outcome) ==
  /\ ToolStep /\ t \in ntTools /\ t.by = "user"
  /\ ntLast' = [tool |-> t, answer |-> IF outcome = "refused" /\ transport # "shell" THEN "error" ELSE outcome]
  /\ UNCHANGED <<ntSettings, ntTools, ntBridge, ntServer, ntListed, ntReport, ntEver, ntMoved>>

\* list_tools: an answer is kept for good, a failure is not.
ListBrowserTools(works) ==
  /\ ToolStep
  /\ ntListed' = IF ntListed = {} /\ works THEN {ntServer} ELSE ntListed
  /\ ntMoved' = [ntMoved EXCEPT !.server = @ /\ ntListed # {}]
  /\ UNCHANGED <<ntSettings, ntTools, ntBridge, ntServer, ntReport, ntLast, ntEver>>
BrowserToolsChange ==
  /\ ToolStep /\ ntServer' \in {{}, {"navigate"}, {"navigate", "cowork"}} /\ ntServer' # ntServer
  /\ ntMoved' = [ntMoved EXCEPT !.server = TRUE] /\ UNCHANGED <<ntSettings, ntTools, ntBridge, ntListed, ntReport, ntLast, ntEver>>
\* call_tool asks the server, whatever was listed.
CallBrowser(name, outcome) ==
  /\ ToolStep /\ ntListed # {} /\ \E listed \in ntListed : name \in listed
  /\ ntLast' = [tool |-> Tool("browser", name),
                answer |-> IF outcome = "ok" /\ name \notin ntServer THEN "not there" ELSE outcome]
  /\ UNCHANGED <<ntSettings, ntTools, ntBridge, ntServer, ntListed, ntReport, ntEver, ntMoved>>

ToolsNext ==
  \/ \E f \in Features : EditSettings(f)
  \/ \E groups \in SUBSET {"models", "programs"}, fits \in BOOLEAN : RegisterNative(groups, fits)
  \/ \E file \in UserFiles, fits \in BOOLEAN : LoadUserTools(file, fits)
  \/ \E t \in ntTools, outcome \in {"ok", "error"} : CallNative(t, outcome)
  \/ \E t \in ntTools, up \in SUBSET {"primary", "secondary"} : CallModel(t, up)
  \/ \E t \in ntTools, token \in BOOLEAN : CallProgram(t, token)
  \/ \E t \in ntTools, transport \in {"http", "shell", "stdio", "sse"}, outcome \in {"ok", "error", "refused"} :
       CallUserTool(t, transport, outcome)
  \/ \E works \in BOOLEAN : ListBrowserTools(works)
  \/ \E name \in {"navigate", "cowork"}, outcome \in {"ok", "error", "timeout"} : CallBrowser(name, outcome)
  \/ BrowserToolsChange

\* A tool of the desktop is there only if its feature was on at some time, and one that is
\* there answers "unavailable" only if the settings have changed since it was registered or
\* since the bridge was made; a listed tool of BrowserOS's is gone only if the server has
\* changed. What is loaded of the user's file is there, under the user's prefix, also when
\* the load was cut short, and what is loaded or skipped is all that came before an entry
\* that is no object (register_native_tools, get_bridge, list_tools, load_user_tools).
ToolsFollowTheirFiles ==
  /\ \A t \in ntTools : t.by = "native" => t.of \in ntEver
  /\ \A features \in ntBridge : features \subseteq ntEver
  /\ ntLast.answer = "unavailable" => ntMoved.settings
  /\ ntLast.answer = "not there" => ntMoved.server
  /\ \A i \in 1 .. ntReport.loaded + ntReport.skipped : ntReport.file[i].kind # "no object"
  /\ ntReport.ended <=> ntReport.loaded + ntReport.skipped = Len(ntReport.file)
  /\ ntReport.loaded > 0 => \A i \in 1 .. ntReport.loaded + ntReport.skipped :
       ntReport.file[i].kind = "valid" => Tool("user", ntReport.file[i].name) \in ntTools

\* The desktop is used as the settings, the limits and the user allow (shell_exec,
\* register_as_default_browser, SovereignTray, register_native_tools).
NativeIsGoverned ==
  [](ShellIsGoverned /\ BrowserComesBack /\ TrayKeepsTrack /\ ToolsFollowTheirFiles)
=============================================================================
