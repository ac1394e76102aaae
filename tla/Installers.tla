------------------------------ MODULE Installers ------------------------------
(* The tool life cycle (hlf/tool_installer.py, hlf/tool_monitor.py,
   hlf/tool_dispatch.py): `hlf` commands, each a process that loads the registry
   file when it starts and rewrites it whole, a monitor and a dispatch bridge that
   loaded it once, the directories of the tools, and host_functions.json.

   A repository is a record: the directory its URL names, the tool its manifest
   names, the adapter, and whether it holds a .venv of its own. What the manifest
   says otherwise is a choice of each clone. Names that differ in case alone are one
   function of host_functions.json; the repositories here name none such. *)
EXTENDS Naturals, FiniteSets, Functions

CONSTANTS ToolRepos,     \* records [dir, tool, adapter, venv]
          Commands,      \* processes that run one `hlf` command at a time
          Posix,         \* does a virtual environment link to the interpreter
          MaxCommands    \* bound on the commands run
\* A URL that names no directory and a manifest that names no tool are no repository.
NoRepo == [dir |-> "", tool |-> "", adapter |-> "", venv |-> FALSE]
ASSUME ReposAssumption == NoRepo \notin ToolRepos

RepoDirs == {r.dir : r \in ToolRepos}
RepoTools == {r.tool : r \in ToolRepos}
NoFiles == [repo |-> NoRepo, sandbox |-> FALSE, links |-> FALSE]

VARIABLES tiFiles,      \* per directory: whose clone it holds, with .sandbox.json or not,
                        \* with links out of it or not
          tiRegistry,   \* tool_registry.json: name -> [repo, status]
          tiFunctions,  \* host_functions.json: there, whole, and the tools in it
          tiCommand,    \* per process: the command, its phase, the registry and the functions it read
          tiMonitor,    \* the registry the monitor loaded
          tiCount,      \* commands so far
          tiReused,     \* history: directories cloned into while in use
          tiMissed,     \* history: tools whose entry in host_functions.json failed to be
                        \* written, or was lost to another's rewrite or a torn file
          tiUpset       \* history: a process died, two commands for one tool overlapped,
                        \* or a process saved over another's registry
tiVars == <<tiFiles, tiRegistry, tiFunctions, tiCommand, tiMonitor, tiCount, tiReused, tiMissed, tiUpset>>
FunctionsFile == <<tiFunctions, tiMissed>>

Resting == [phase |-> "rest", repo |-> NoRepo, tool |-> "", again |-> FALSE, registry |-> <<>>, functions |-> {}]
ToolInit ==
  /\ tiFiles = [d \in RepoDirs |-> NoFiles] /\ tiRegistry = <<>>
  /\ \E state \in {"ok", "absent"} : tiFunctions = [state |-> state, names |-> {}]
  /\ tiCommand = [p \in Commands |-> Resting] /\ tiMonitor = <<>> /\ tiCount = 0
  /\ tiReused = {} /\ tiMissed = {} /\ tiUpset = FALSE

Phase(p) == tiCommand[p].phase
Step(p, command) == tiCommand' = [tiCommand EXCEPT ![p] = command]
Ahead(p, phase) == Step(p, [tiCommand[p] EXCEPT !.phase = phase])
Ends(p) == Step(p, Resting)
Seen(p) == tiCommand[p].registry
Dir(p) == tiCommand[p].repo.dir
EntryOf(repo) == [repo |-> repo, status |-> "active"]
\* Mutant: the entry is not deleted.
DropNone(registry, tool) == registry
Drop(registry, tool) == [t \in DOMAIN registry \ {tool} |-> registry[t]]
PutEntry(registry, tool, entry) == [t \in DOMAIN registry \cup {tool} |-> IF t = tool THEN entry ELSE registry[t]]
\* _save_registry: the file becomes what this process has, which started from "seen".
SaveTools(registry, seen) == tiRegistry' = registry /\ tiUpset' = (tiUpset \/ seen # tiRegistry)
Elsewhere == <<tiMonitor, tiCount>>
Overlap(tool) == tiUpset' = (tiUpset \/ \E q \in Commands : Phase(q) # "rest" /\ tiCommand[q].repo.tool = tool)

\* ToolInstaller() and one of its commands. A tool that is not installed is refused.
InstallCalled(p, repo) ==
  /\ Phase(p) = "rest" /\ tiCount < MaxCommands /\ tiCount' = tiCount + 1
  /\ Step(p, [Resting EXCEPT !.phase = "clone", !.repo = repo, !.registry = tiRegistry])
  /\ Overlap(repo.tool) /\ UNCHANGED <<tiFiles, tiRegistry, FunctionsFile, tiMonitor, tiReused>>
\* uninstall(tool), and upgrade(tool), which goes on with install (again).
UninstallCalled(p, tool, again) ==
  /\ Phase(p) = "rest" /\ tiCount < MaxCommands /\ tiCount' = tiCount + 1
  /\ tool \in DOMAIN tiRegistry
  /\ Step(p, [Resting EXCEPT !.phase = "forget", !.tool = tool, !.again = again,
                !.repo = tiRegistry[tool].repo, !.registry = tiRegistry])
  /\ Overlap(tool) /\ UNCHANGED <<tiFiles, tiRegistry, FunctionsFile, tiMonitor, tiReused>>

InUse(dir, p) ==
  \/ \E t \in DOMAIN tiRegistry : tiRegistry[t].repo.dir = dir
  \/ \E q \in Commands \ {p} : Phase(q) # "rest" /\ Dir(q) = dir
\* _clone_repo: what was in the directory goes first. A clone that fails leaves
\* nothing, and install() does not know the directory it would clean.
CloneTool(p) ==
  /\ Phase(p) = "clone"
  /\ tiReused' = IF InUse(Dir(p), p) THEN tiReused \cup {Dir(p)} ELSE tiReused
  /\ \/ /\ tiFiles' = [tiFiles EXCEPT ![Dir(p)] = [NoFiles EXCEPT !.repo = tiCommand[p].repo]]
        /\ Ahead(p, "validate")
     \/ tiFiles' = [tiFiles EXCEPT ![Dir(p)] = NoFiles] /\ Ends(p)
  /\ UNCHANGED <<tiRegistry, FunctionsFile, tiUpset, Elsewhere>>

\* The except branch of install(): the directory is removed.
RollBack(p) ==
  /\ Phase(p) = "rollBack"
  /\ tiFiles' = [tiFiles EXCEPT ![Dir(p)] = NoFiles] /\ Ends(p)
  /\ UNCHANGED <<tiRegistry, FunctionsFile, tiReused, tiUpset, Elsewhere>>

NameFree(p) == tiCommand[p].repo.tool \notin DOMAIN Seen(p)
\* Phase 2: a bad manifest, or a name in the registry as loaded, ends the install.
ValidateTool(p) ==
  /\ Phase(p) = "validate"
  /\ \/ tiFiles[Dir(p)] # NoFiles /\ NameFree(p) /\ Ahead(p, "sandbox")
     \/ Ahead(p, "rollBack")
  /\ UNCHANGED <<tiFiles, tiRegistry, FunctionsFile, tiReused, tiUpset, Elsewhere>>

\* Phase 3: .sandbox.json, then for a Python tool a virtual environment and its packages,
\* unless there is a .venv. An error that is no ToolInstallError (no directory, no pip,
\* disk full) leaves install() as it is.
MakesVenv(repo, files) == repo.adapter = "python" /\ ~files.repo.venv /\ ~files.links
Sandboxed(repo, files) ==
  [files EXCEPT !.sandbox = TRUE, !.links = files.links \/ (Posix /\ MakesVenv(repo, files))]
SandboxTool(p) ==
  LET repo == tiCommand[p].repo
      files == tiFiles[Dir(p)] IN
  /\ Phase(p) = "sandbox"
  /\ \/ UNCHANGED tiFiles /\ Ends(p)
     \/ /\ files # NoFiles /\ tiFiles' = [tiFiles EXCEPT ![Dir(p)] = Sandboxed(repo, files)]
        /\ \/ Ahead(p, "verify")
           \/ MakesVenv(repo, files) /\ (Ahead(p, "rollBack") \/ Ends(p))
  /\ UNCHANGED <<tiRegistry, FunctionsFile, tiReused, tiUpset, Elsewhere>>

\* Phase 4: the verifier's verdict on what is in the directory now: there must be an entry
\* point, and no link may lead out.
VerifyTool(p) ==
  /\ Phase(p) = "verify"
  /\ \/ tiFiles[Dir(p)] # NoFiles /\ ~tiFiles[Dir(p)].links /\ Ahead(p, "register")
     \/ Ahead(p, "rollBack")
  /\ UNCHANGED <<tiFiles, tiRegistry, FunctionsFile, tiReused, tiUpset, Elsewhere>>

\* Phase 5: the registry, then host_functions.json. Phase 6 blocks nothing.
RegisterTool(p) ==
  LET repo == tiCommand[p].repo IN
  /\ Phase(p) = "register"
  /\ SaveTools(PutEntry(Seen(p), repo.tool, EntryOf(repo)), Seen(p)) /\ Ahead(p, "function")
  /\ UNCHANGED <<tiFiles, FunctionsFile, tiReused, Elsewhere>>

\* uninstall: registry, files, host_functions.json.
ForgetTool(p) ==
  LET left == Drop(Seen(p), tiCommand[p].tool) IN
  /\ Phase(p) = "forget" /\ SaveTools(left, Seen(p))
  /\ Step(p, [tiCommand[p] EXCEPT !.phase = "remove", !.registry = left])
  /\ UNCHANGED <<tiFiles, FunctionsFile, tiReused, Elsewhere>>
RemoveTool(p) ==
  /\ Phase(p) = "remove"
  /\ tiFiles' = [tiFiles EXCEPT ![Dir(p)] = NoFiles] /\ Ahead(p, "unlist")
  /\ UNCHANGED <<tiRegistry, FunctionsFile, tiReused, tiUpset, Elsewhere>>

-----------------------------------------------------------------------------
(* host_functions.json is read, changed and written back. A file that is not there is
   left so, and whatever else goes wrong is logged and forgotten. *)

\* Tools that differ between what a writer read and what the file holds now.
Undone(seen) == (seen \ tiFunctions.names) \cup (tiFunctions.names \ seen)
Rewrites(names, seen, tool) ==
  tiFunctions' = [state |-> "ok", names |-> names] /\ tiMissed' = (tiMissed \cup Undone(seen)) \ {tool}
\* The disk is full, or the writer died: what is left is no JSON.
Tears == tiFunctions' = [state |-> "bad", names |-> {}] /\ tiMissed' = RepoTools
WritesNot(tool) == tiMissed' = tiMissed \cup {tool} /\ UNCHANGED tiFunctions

Listing(p) == Phase(p) \in {"function", "add"}
\* The command is done, or goes on with the install of an upgrade.
Proceeds(p) ==
  IF tiCommand[p].again /\ ~Listing(p)
  THEN Step(p, [tiCommand[p] EXCEPT !.phase = "clone", !.functions = {}]) ELSE Ends(p)
\* _register_host_function and _deregister_host_function, to the read and the entry made.
ReadFunctions(p) ==
  LET next == IF Listing(p) THEN "add" ELSE "drop" IN
  /\ Phase(p) \in {"function", "unlist"}
  /\ \/ /\ tiFunctions.state = "ok"
        /\ Step(p, [tiCommand[p] EXCEPT !.phase = next, !.functions = tiFunctions.names])
        /\ UNCHANGED <<tiFunctions, tiMissed>>
     \/ WritesNot(tiCommand[p].repo.tool) /\ Proceeds(p)
  /\ UNCHANGED <<tiFiles, tiRegistry, tiReused, tiUpset, Elsewhere>>
FunctionsWithout(names, tool) == names \ {tool}
WriteFunctions(p) ==
  LET tool == tiCommand[p].repo.tool
      seen == tiCommand[p].functions
      names == IF Listing(p) THEN seen \cup {tool} ELSE FunctionsWithout(seen, tool) IN
  /\ Phase(p) \in {"add", "drop"} /\ Proceeds(p)
  /\ Rewrites(names, seen, tool) \/ WritesNot(tool) \/ Tears
  /\ UNCHANGED <<tiFiles, tiRegistry, tiReused, tiUpset, Elsewhere>>

\* The gateway bridge (agents/core/gateway_bridge.py) makes a file that is not there.
FileIsMade ==
  /\ tiFunctions.state = "absent" /\ tiFunctions' = [tiFunctions EXCEPT !.state = "ok"]
  /\ UNCHANGED <<tiMissed, tiFiles, tiRegistry, tiCommand, tiReused, tiUpset, Elsewhere>>

\* The process is killed, perhaps in the middle of a file; a torn registry loads as empty.
\* For the bound, that counts as a command.
CommandDies(p) ==
  /\ Phase(p) # "rest" /\ tiCount < MaxCommands /\ tiCount' = tiCount + 1 /\ Ends(p) /\ tiUpset' = TRUE
  /\ UNCHANGED tiRegistry \/ (Phase(p) \in {"register", "forget"} /\ tiRegistry' = <<>>)
  /\ UNCHANGED <<tiFunctions, tiMissed>> \/ (Phase(p) \in {"add", "drop"} /\ Tears)
  /\ UNCHANGED <<tiFiles, tiReused, tiMonitor>>

\* ToolMonitor: loads once; auto_revoke_unhealthy saves what it loaded.
MonitorStarts ==
  /\ tiMonitor # tiRegistry /\ tiMonitor' = tiRegistry
  /\ UNCHANGED <<tiFiles, tiRegistry, FunctionsFile, tiCommand, tiCount, tiReused, tiUpset>>
Healthy(entry) == tiFiles[entry.repo.dir].sandbox
Revoked == [t \in DOMAIN tiMonitor |->
  IF Healthy(tiMonitor[t]) THEN tiMonitor[t] ELSE [tiMonitor[t] EXCEPT !.status = "suspended"]]
AutoRevoke ==
  /\ Revoked # tiMonitor /\ tiMonitor' = Revoked /\ SaveTools(Revoked, tiMonitor)
  /\ UNCHANGED <<tiFiles, FunctionsFile, tiCommand, tiCount, tiReused>>

CommandStep(p) ==
  \/ CloneTool(p) \/ ValidateTool(p) \/ SandboxTool(p) \/ VerifyTool(p) \/ RegisterTool(p)
  \/ RollBack(p) \/ ForgetTool(p) \/ RemoveTool(p) \/ ReadFunctions(p) \/ WriteFunctions(p)
ToolNext ==
  \/ \E p \in Commands :
       \/ \E repo \in ToolRepos : InstallCalled(p, repo)
       \/ \E tool \in DOMAIN tiRegistry, again \in BOOLEAN : UninstallCalled(p, tool, again)
       \/ CommandStep(p) \/ CommandDies(p)
  \/ MonitorStarts \/ AutoRevoke \/ FileIsMade
ToolSpec == ToolInit /\ [][ToolNext]_tiVars

-----------------------------------------------------------------------------
Active(t) == tiRegistry[t].status = "active"
OwnFiles(t) == LET files == tiFiles[tiRegistry[t].repo.dir] IN files.repo = tiRegistry[t].repo /\ files.sandbox
AtRest == ~tiUpset /\ \A p \in Commands : Phase(p) = "rest"

\* With nothing of what tiUpset remembers, a tool that is listed as active has its own
\* files, except when another install used the same directory: cloning removes what is
\* there, and so does the rollback of a failure.
FilesLostOnlyByReuse ==
  AtRest => \A t \in DOMAIN tiRegistry : Active(t) /\ ~OwnFiles(t) => tiRegistry[t].repo.dir \in tiReused

\* Then too, host_functions.json has the tools of the registry and no others, but for those
\* whose entry a command could not write, or whose entry was lost to a writer that had read
\* the file before (tool_installer.py:823-866). An entry that is written
\* puts its tool right again.
FunctionsMatchRegistry ==
  AtRest => \A t \in RepoTools \ tiMissed : t \in tiFunctions.names <=> t \in DOMAIN tiRegistry

\* Where virtual environments are links, the verifier refuses the one the installer has
\* just made: a Python tool is registered only if its repository brings a .venv, or if its
\* directory was cloned into by another meanwhile (tool_installer.py:405-418, 712-725).
NoPythonOnPosix ==
  Posix => \A t \in DOMAIN tiRegistry :
    LET repo == tiRegistry[t].repo IN repo.adapter = "python" => repo.venv \/ repo.dir \in tiReused

\* The registry, the directories and host_functions.json agree when nothing runs.
ToolsMatchRegistry == FilesLostOnlyByReuse /\ FunctionsMatchRegistry /\ NoPythonOnPosix

-----------------------------------------------------------------------------
(* HLF packages: HLFPackageManager (hlf/hlfpm.py), a process per command that loads
   hlf-lock.json and rewrites it whole, and the OCIClient under it (hlf/oci_client.py)
   with its cache, which is asked first and never expires. A module is known by the
   last part of its reference, whatever namespace it comes from.

   Contents are numbered as they are pushed; a file whose writer died holds a torn
   copy, whose checksum is as good as any: hlfpm gives pull() none to expect. *)
CONSTANTS PkSpecs,       \* what install is asked for: [key, repo, tag]; key is repo's last part
          PkProcesses,   \* processes that run a command
          MaxPushes,     \* bound on the pushes
          MaxPkCalls     \* bound on the commands
\* A repository has one key, and a key alone is a repository of that key. (A path with
\* @tag keeps its path as the key: its copy fails, for want of the directory.)
ASSUME SpecsAssumption ==
  \A s, t \in PkSpecs : s.repo \in {t.repo, t.key} => s.key = t.key

PkKeys == {s.key : s \in PkSpecs}
PkRefs == {<<s.repo, s.tag>> : s \in PkSpecs} \cup {<<s.key, "latest">> : s \in PkSpecs}
Nothing == [of |-> 0, torn |-> FALSE]

VARIABLES pkBlobs, pkTags,   \* the registry: contents, and the one each reference names
          pkPush,            \* the push under way: [ref, content], content 0 for none
          pkPushes,
          pkCache,           \* .oci_cache: per reference
          pkFiles,           \* hlf_modules: per key
          pkLock,            \* hlf-lock.json: [torn, modules], modules: key -> [repo, tag, content]
          pkRun,             \* per process: the command, and the modules it loaded
          pkCalls,
          pkGot,             \* history: <<key, ref, content>> installed since the cache was last cleared
          pkEver,            \* history: <<ref, content>> ever published
          pkUpset            \* history: keys two commands had at once or one failed or died with
pkVars == <<pkBlobs, pkTags, pkPush, pkPushes, pkCache, pkFiles, pkLock, pkRun, pkCalls, pkGot, pkEver, pkUpset>>
Registry == <<pkBlobs, pkTags, pkPush, pkPushes, pkEver>>

Asleep == [at |-> "rest", key |-> "", ref |-> <<"", "">>, content |-> Nothing, modules |-> <<>>, seen |-> <<>>]
PackagesInit ==
  /\ pkBlobs = {} /\ pkTags = [r \in PkRefs |-> 0] /\ pkPush = [ref |-> <<"", "">>, content |-> 0] /\ pkPushes = 0
  /\ pkCache = [r \in PkRefs |-> Nothing] /\ pkFiles = [k \in PkKeys |-> Nothing]
  /\ pkLock = [torn |-> FALSE, modules |-> <<>>]
  /\ pkRun = [p \in PkProcesses |-> Asleep] /\ pkCalls = 0 /\ pkGot = {} /\ pkEver = {} /\ pkUpset = {}

-----------------------------------------------------------------------------
\* push: the blob and the config first, the manifest that names them last.
PushBlob(ref) ==
  /\ pkPush.content = 0 /\ pkPushes < MaxPushes /\ pkPushes' = pkPushes + 1
  /\ pkBlobs' = pkBlobs \cup {pkPushes'} /\ pkPush' = [ref |-> ref, content |-> pkPushes']
  /\ UNCHANGED <<pkTags, pkEver, pkCache, pkFiles, pkLock, pkRun, pkCalls, pkGot, pkUpset>>
PushManifest ==
  /\ pkPush.content # 0 /\ pkPush' = [pkPush EXCEPT !.content = 0]
  /\ \/ /\ pkTags' = [pkTags EXCEPT ![pkPush.ref] = pkPush.content]
        /\ pkEver' = pkEver \cup {<<pkPush.ref, pkPush.content>>}
     \/ UNCHANGED <<pkTags, pkEver>>
  /\ UNCHANGED <<pkBlobs, pkPushes, pkCache, pkFiles, pkLock, pkRun, pkCalls, pkGot, pkUpset>>

-----------------------------------------------------------------------------
Run(p) == pkRun[p]
RunIs(p, run) == pkRun' = [pkRun EXCEPT ![p] = run]
\* _load_lockfile: one that cannot be parsed counts as empty.
Loaded(lock) == IF lock.torn THEN <<>> ELSE lock.modules
Begins(p, key, run) ==
  /\ Run(p).at = "rest" /\ pkCalls < MaxPkCalls /\ pkCalls' = pkCalls + 1
  /\ RunIs(p, [run EXCEPT !.key = key, !.modules = Loaded(pkLock), !.seen = Loaded(pkLock)])
  /\ pkUpset' = IF \E q \in PkProcesses : Run(q).at # "rest" /\ Run(q).key = key THEN pkUpset \cup {key} ELSE pkUpset
  /\ UNCHANGED <<Registry, pkCache, pkFiles, pkLock, pkGot>>

\* install: nothing to do when the key is there with that tag, whatever repository it
\* is from, unless forced.
InstallModule(p, s, force) ==
  /\ ~(~force /\ s.key \in DOMAIN Loaded(pkLock) /\ Loaded(pkLock)[s.key].tag = s.tag)
  /\ Begins(p, s.key, [Asleep EXCEPT !.at = "pull", !.ref = <<s.repo, s.tag>>])
\* update: the key's latest of the default namespace.
UpdateModule(p, key) ==
  /\ key \in DOMAIN Loaded(pkLock)
  /\ Begins(p, key, [Asleep EXCEPT !.at = "pull", !.ref = <<key, "latest">>])

\* pull: the cache, if it has anything; else manifest and blob, whose digest must match.
\* Any error ends the command.
CacheHit(p) == pkCache[Run(p).ref] # Nothing
PullModule(p) ==
  /\ Run(p).at = "pull"
  /\ IF CacheHit(p)
     THEN RunIs(p, [Run(p) EXCEPT !.at = "copy", !.content = pkCache[Run(p).ref]])
     ELSE \/ /\ pkTags[Run(p).ref] # 0
             /\ RunIs(p, [Run(p) EXCEPT !.at = "cache", !.content = [of |-> pkTags[Run(p).ref], torn |-> FALSE]])
          \/ RunIs(p, Asleep)
  /\ UNCHANGED <<Registry, pkCache, pkFiles, pkLock, pkCalls, pkGot, pkUpset>>
FillCache(p) ==
  /\ Run(p).at = "cache" /\ pkCache' = [pkCache EXCEPT ![Run(p).ref] = Run(p).content]
  /\ RunIs(p, [Run(p) EXCEPT !.at = "copy"])
  /\ UNCHANGED <<Registry, pkFiles, pkLock, pkCalls, pkGot, pkUpset>>
\* The old file is unlinked, then the cached one copied, if it is still there.
CopyModule(p) ==
  LET cached == pkCache[Run(p).ref] IN
  /\ Run(p).at = "copy" /\ pkFiles' = [pkFiles EXCEPT ![Run(p).key] = cached]
  /\ IF cached = Nothing
     THEN RunIs(p, Asleep) /\ pkUpset' = pkUpset \cup {Run(p).key} /\ UNCHANGED pkGot
     ELSE /\ RunIs(p, [Run(p) EXCEPT !.at = "save"]) /\ pkGot' = pkGot \cup {<<Run(p).key, Run(p).ref, cached>>}
          /\ UNCHANGED pkUpset
  /\ UNCHANGED <<Registry, pkCache, pkLock, pkCalls>>

\* uninstall: the file, then the entry.
UninstallModule(p, key) ==
  /\ key \in DOMAIN Loaded(pkLock) /\ Begins(p, key, [Asleep EXCEPT !.at = "unlink"])
UnlinkModule(p) ==
  /\ Run(p).at = "unlink" /\ pkFiles' = [pkFiles EXCEPT ![Run(p).key] = Nothing]
  /\ RunIs(p, [Run(p) EXCEPT !.at = "forget"])
  /\ UNCHANGED <<Registry, pkCache, pkLock, pkCalls, pkGot, pkUpset>>

\* What the command makes of the modules it loaded.
Rewritten(run) ==
  IF run.at = "forget" THEN [k \in DOMAIN run.modules \ {run.key} |-> run.modules[k]]
  ELSE [k \in DOMAIN run.modules \cup {run.key} |->
          IF k = run.key THEN [repo |-> run.ref[1], tag |-> run.ref[2], content |-> run.content] ELSE run.modules[k]]
\* Keys whose entry another process changed since this one loaded the file.
Trampled(run, now) ==
  {k \in PkKeys : (k \in DOMAIN run.seen) # (k \in DOMAIN now) \/ (k \in DOMAIN now \cap DOMAIN run.seen /\ run.seen[k] # now[k])}
SaveLock(p) ==
  /\ Run(p).at \in {"save", "forget"}
  /\ pkLock' = [torn |-> FALSE, modules |-> Rewritten(Run(p))]
  /\ pkUpset' = pkUpset \cup (IF pkLock.torn THEN PkKeys ELSE Trampled(Run(p), pkLock.modules))
  /\ RunIs(p, Asleep)
  /\ UNCHANGED <<Registry, pkCache, pkFiles, pkCalls, pkGot>>

\* The process dies: what it was writing is torn.
PkCrash(p) ==
  LET run == Run(p) IN
  /\ run.at \notin {"rest", "pull"} /\ RunIs(p, Asleep) /\ pkUpset' = pkUpset \cup {run.key}
  /\ pkCache' = IF run.at = "cache" THEN [pkCache EXCEPT ![run.ref] = [run.content EXCEPT !.torn = TRUE]] ELSE pkCache
  /\ pkFiles' = IF run.at = "copy" THEN [pkFiles EXCEPT ![run.key] = [pkCache[run.ref] EXCEPT !.torn = TRUE]] ELSE pkFiles
  /\ pkLock' = IF run.at \in {"save", "forget"} THEN [pkLock EXCEPT !.torn = TRUE] ELSE pkLock
  /\ UNCHANGED <<Registry, pkCalls, pkGot>>
\* clear_cache
ClearCache ==
  /\ \E r \in PkRefs : pkCache[r] # Nothing
  /\ pkCache' = [r \in PkRefs |-> Nothing] /\ pkGot' = {}
  /\ pkCalls < MaxPkCalls /\ pkCalls' = pkCalls + 1
  /\ UNCHANGED <<Registry, pkFiles, pkLock, pkRun, pkUpset>>

PackagesNext ==
  \/ \E r \in PkRefs : PushBlob(r)
  \/ PushManifest \/ ClearCache
  \/ \E p \in PkProcesses :
       \/ \E s \in PkSpecs, force \in BOOLEAN : InstallModule(p, s, force)
       \/ \E k \in PkKeys : UpdateModule(p, k) \/ UninstallModule(p, k)
       \/ PullModule(p) \/ FillCache(p) \/ CopyModule(p) \/ UnlinkModule(p) \/ SaveLock(p) \/ PkCrash(p)
PackagesSpec == PackagesInit /\ [][PackagesNext]_pkVars

-----------------------------------------------------------------------------
\* When no command is at work, the lockfile and the directory agree: a module listed is
\* there with the content recorded, one not listed is not there, unless commands for it
\* overlapped, overwrote each other's lockfile, failed half-way or died.
LockMatchesFiles ==
  (\A p \in PkProcesses : Run(p).at = "rest") /\ ~pkLock.torn =>
    \A k \in PkKeys \ pkUpset :
      pkFiles[k] = IF k \in DOMAIN pkLock.modules THEN pkLock.modules[k].content ELSE Nothing

\* While the cache is not cleared, a reference installs one content and no other, the
\* latest tag too: update() finds what the first pull of it found.
TagsAreFrozen ==
  \A g, h \in pkGot : g[2] = h[2] /\ g[1] \notin pkUpset => g = h

\* What is installed was published under the very reference that the lockfile names, and
\* a manifest names only blobs that are there.
InstalledWasPublished ==
  /\ \A k \in DOMAIN pkLock.modules :
       LET m == pkLock.modules[k] IN <<<<m.repo, m.tag>>, m.content.of>> \in pkEver
  /\ \A r \in PkRefs : pkTags[r] = 0 \/ pkTags[r] \in pkBlobs

PackagesAreSound == LockMatchesFiles /\ TagsAreFrozen /\ InstalledWasPublished

\* What is installed is what was published or cloned, and what the registry or the lockfile
\* says, unless commands overlap or fail half-way (ToolInstaller, HLFPackageManager).
InstallsMatch == ToolsMatchRegistry /\ PackagesAreSound
=============================================================================
