------------------------------ MODULE Gateways ------------------------------
(* What stands between programs and model providers: the model gateway that picks
   a provider and a key for a request (model_gateway.py), the bridge that lists the
   gateway's functions in host_functions.json (gateway_bridge.py), the z.AI client
   (zai_client.py) and the MCP server with its Janus worker process
   (sovereign_mcp_server.py, janus_worker.py). *)
EXTENDS Integers, Sequences, FiniteSets, SequencesExt, Functions

CONSTANTS
    GwModels,       \* models a client may ask for
    GwFallback,     \* the configured fallback model, always registered
    GwProvider,     \* the provider of each model
    GwKeys,         \* keys of Ollama Cloud that the rotator loaded, in order
    GwWindow,       \* length of the rate window
    MaxGwTime, MaxGwRequests,   \* bounds on the clock and on the requests
    GbFunctions,    \* gateway functions in order: records of a name and a capability
    Syncers,        \* processes that sync host_functions.json
    MaxSyncs,
    MaxPolls,       \* attempts of get_video_result
    JanusCallers, MaxJanusCalls, MaxWorkers

-----------------------------------------------------------------------------
(* The model gateway. Its handlers are coroutines without an await around route(),
   so a request is one step. *)
VARIABLES gmRegistry,   \* the models registered
          gmVault,      \* has the credential vault a key that can chat
          gmNext,       \* the rotator's index
          gmRecent,     \* _last_requests, the stamps the rate limit is read from
          gmTime,
          gmAsked,      \* history: when each request was made
          gmServed      \* history: how often each rotated key was given out
gmVars == <<gmRegistry, gmVault, gmNext, gmRecent, gmTime, gmAsked, gmServed>>

Cloud == "ollama-cloud"

GatewayInit ==
  /\ gmRegistry \in {{GwFallback} \cup S : S \in SUBSET GwModels}
  /\ gmVault = FALSE
  /\ gmNext = 0
  /\ gmRecent = <<>>
  /\ gmTime = 0
  /\ gmAsked = <<>>
  /\ gmServed = [k \in Range(GwKeys) |-> 0]

\* An unknown model is answered by the fallback.
RoutedTo(asked) == IF asked \in gmRegistry THEN asked ELSE GwFallback
\* The vault's key comes first, whatever provider it is for; then, at Ollama Cloud, the
\* rotator's; then the environment's.
Rotates(provider) == ~gmVault /\ provider = Cloud /\ GwKeys # <<>>

WithinWindow(times, now) == SelectSeq(times, LAMBDA t : now - t < GwWindow)
NextKey == GwKeys[(gmNext % Len(GwKeys)) + 1]

\* The rate limit is only logged.
GatewayRoutes(asked) ==
  /\ Len(gmAsked) < MaxGwRequests
  /\ IF Rotates(GwProvider[RoutedTo(asked)])
     THEN gmNext' = gmNext + 1 /\ gmServed' = [gmServed EXCEPT ![NextKey] = @ + 1]
     ELSE UNCHANGED <<gmNext, gmServed>>
  /\ gmRecent' = Append(WithinWindow(gmRecent, gmTime), gmTime)
  /\ gmAsked' = Append(gmAsked, gmTime)
  /\ UNCHANGED <<gmRegistry, gmVault, gmTime>>

RegisterModel(m) ==
  /\ m \notin gmRegistry
  /\ gmRegistry' = gmRegistry \cup {m}
  /\ UNCHANGED <<gmVault, gmNext, gmRecent, gmTime, gmAsked, gmServed>>

\* The credential vault gains its first key or loses its last one.
VaultChanges ==
  /\ gmVault' = ~gmVault
  /\ UNCHANGED <<gmRegistry, gmNext, gmRecent, gmTime, gmAsked, gmServed>>

GatewayTick ==
  /\ gmTime < MaxGwTime
  /\ gmTime' = gmTime + 1
  /\ UNCHANGED <<gmRegistry, gmVault, gmNext, gmRecent, gmAsked, gmServed>>

GatewayNext ==
  \/ \E m \in GwModels \cup {GwFallback} : GatewayRoutes(m)
  \/ \E m \in GwModels : RegisterModel(m)
  \/ VaultChanges
  \/ GatewayTick

\* The rotator shares the load: of two keys none serves two requests more than the other.
RotationIsFair == \A a, b \in DOMAIN gmServed : gmServed[a] <= gmServed[b] + 1

\* No request of the last minute is missing from the stamps that the limit and the
\* statistics are read from. (Between requests they may hold older ones: the statistics
\* do not drop them first.)
WindowIsComplete ==
  Len(WithinWindow(gmRecent, gmTime)) = Len(WithinWindow(gmAsked, gmTime))

-----------------------------------------------------------------------------
(* The bridge's list of host functions, a JSON file that each process reads and
   rewrites in place, without a lock. *)
VARIABLES gbFile, gbCaps, gbProc, gbReported, gbSyncs, gbOverlap, gbFault

gbVars == <<gbFile, gbCaps, gbProc, gbReported, gbSyncs, gbOverlap, gbFault>>

LaunchPwa == [name |-> "LAUNCH_PWA", capability |-> "none"]
Listed(names) == [state |-> "ok", names |-> names]
Torn == [state |-> "torn", names |-> <<>>]
IdleSync == [pc |-> "idle", todo |-> <<>>, existing |-> {}, data |-> <<>>]

BridgeSyncInit ==
  /\ gbFile \in {Listed(<<>>), [state |-> "absent", names |-> <<>>]}
  /\ gbCaps = {f.capability : f \in Range(GbFunctions)}
  /\ gbProc = [s \in Syncers |-> IdleSync]
  /\ gbReported = {}
  /\ gbSyncs = 0
  /\ gbOverlap = FALSE
  /\ gbFault = FALSE

GbCaps == {f.capability : f \in Range(GbFunctions)}
Syncing(s) == gbProc[s].pc # "idle"
NamesRead == IF gbFile.state = "ok" THEN Range(gbFile.names) ELSE {}

\* sync_capabilities goes through the gateway's functions, register_pwa_launcher has one.
SyncStarts(s) ==
  /\ ~Syncing(s) /\ gbSyncs < MaxSyncs
  /\ gbSyncs' = gbSyncs + 1
  /\ \E todo \in {GbFunctions, <<LaunchPwa>>} :
       gbProc' = [gbProc EXCEPT ![s] = [pc |-> "loop", todo |-> todo, existing |-> NamesRead, data |-> <<>>]]
  /\ gbOverlap' = (gbOverlap \/ \E t \in Syncers : Syncing(t))
  /\ UNCHANGED <<gbFile, gbCaps, gbReported, gbFault>>

\* Skipped when the names read at the start hold it or no valid key has the capability.
Skips(s, f) == f.name \in gbProc[s].existing \/ (f.capability # "none" /\ f.capability \notin gbCaps)

Considers(s) ==
  /\ gbProc[s].pc = "loop" /\ gbProc[s].todo # <<>>
  /\ gbProc' = [gbProc EXCEPT ![s] =
       IF Skips(s, Head(@.todo)) THEN [@ EXCEPT !.todo = Tail(@)] ELSE [@ EXCEPT !.pc = "read"]]
  /\ UNCHANGED <<gbFile, gbCaps, gbReported, gbSyncs, gbOverlap, gbFault>>

\* A function is reported as added whether or not the file could be written.
Reports(s) ==
  /\ gbReported' = gbReported \cup {Head(gbProc[s].todo).name}
  /\ gbProc' = [gbProc EXCEPT ![s] = [@ EXCEPT !.pc = "loop", !.todo = Tail(@), !.data = <<>>]]

RegisterReads(s) ==
  /\ gbProc[s].pc = "read"
  /\ IF gbFile.state = "torn"
     THEN Reports(s)
     ELSE /\ gbProc' = [gbProc EXCEPT ![s] = [@ EXCEPT !.pc = "open", !.data = gbFile.names]]
          /\ UNCHANGED gbReported
  /\ UNCHANGED <<gbFile, gbCaps, gbSyncs, gbOverlap, gbFault>>

\* write_text empties the file before it writes.
OpensForWriting(s) ==
  /\ gbProc[s].pc = "open"
  /\ gbFile' = Torn
  /\ gbProc' = [gbProc EXCEPT ![s].pc = "write"]
  /\ UNCHANGED <<gbCaps, gbReported, gbSyncs, gbOverlap, gbFault>>

\* Over another's list that was written meanwhile, a different length leaves a torn file.
Writes(s) ==
  LET mine == Listed(Append(gbProc[s].data, Head(gbProc[s].todo).name))
  IN /\ gbProc[s].pc = "write"
     /\ gbFile' \in {mine} \cup (IF gbFile.state = "ok" /\ gbFile # mine THEN {Torn} ELSE {})
     /\ Reports(s)
     /\ UNCHANGED <<gbCaps, gbSyncs, gbOverlap, gbFault>>

\* The write raises (a full disk): logged, and the function is reported all the same.
WriteFails(s) ==
  /\ gbProc[s].pc \in {"open", "write"} /\ ~gbFault
  /\ gbFault' = TRUE
  /\ Reports(s)
  /\ UNCHANGED <<gbFile, gbCaps, gbSyncs, gbOverlap>>

SyncReturns(s) ==
  /\ gbProc[s].pc = "loop" /\ gbProc[s].todo = <<>>
  /\ gbProc' = [gbProc EXCEPT ![s] = IdleSync]
  /\ UNCHANGED <<gbFile, gbCaps, gbReported, gbSyncs, gbOverlap, gbFault>>

SyncDies(s) ==
  /\ Syncing(s) /\ ~gbFault
  /\ gbFault' = TRUE
  /\ gbProc' = [gbProc EXCEPT ![s] = IdleSync]
  /\ UNCHANGED <<gbFile, gbCaps, gbReported, gbSyncs, gbOverlap>>

CapabilityChanges ==
  /\ gbSyncs < MaxSyncs
  /\ \E c \in GbCaps :
       gbCaps' = IF c \in gbCaps THEN gbCaps \ {c} ELSE gbCaps \cup {c}
  /\ UNCHANGED <<gbFile, gbProc, gbReported, gbSyncs, gbOverlap, gbFault>>

BridgeSyncNext ==
  \/ \E s \in Syncers :
       \/ SyncStarts(s) \/ Considers(s) \/ RegisterReads(s) \/ OpensForWriting(s) \/ Writes(s)
       \/ WriteFails(s) \/ SyncReturns(s) \/ SyncDies(s)
  \/ CapabilityChanges

\* A function reported as added is listed, unless syncs overlapped or one failed half-way.
ReportedIsListed ==
  (\A s \in Syncers : ~Syncing(s)) /\ ~gbOverlap /\ ~gbFault =>
    gbReported \subseteq Range(gbFile.names)

\* Only two syncs at once list a function twice.
ListedOnce == IsInjective(gbFile.names) \/ gbOverlap

-----------------------------------------------------------------------------
(* The z.AI client's video task, polled to its end. *)
VARIABLES zaTask, zaPolls, zaMissed, zaResult

zaVars == <<zaTask, zaPolls, zaMissed, zaResult>>

ZaiInit ==
  /\ zaTask = "none"
  /\ zaPolls = 0
  /\ zaMissed = FALSE
  /\ zaResult = "none"

GenerateVideo ==
  /\ zaTask = "none" /\ zaResult = "none"
  /\ \/ zaTask' = "PROCESSING" /\ UNCHANGED zaResult
     \/ zaResult' = "error" /\ UNCHANGED zaTask
  /\ UNCHANGED <<zaPolls, zaMissed>>

\* The provider ends the task.
TaskEnds ==
  /\ zaTask = "PROCESSING"
  /\ zaTask' \in {"SUCCESS", "FAIL"}
  /\ UNCHANGED <<zaPolls, zaMissed, zaResult>>

\* One turn of get_video_result: a failed poll is not the end, the last attempt is.
PollVideo ==
  /\ zaTask # "none" /\ zaResult = "none" /\ zaPolls < MaxPolls
  /\ zaPolls' = zaPolls + 1
  /\ \E status \in {zaTask, "POLL_ERROR"} :
       /\ zaMissed' = (status = "POLL_ERROR" /\ zaTask # "PROCESSING")
       /\ zaResult' = IF status \in {"SUCCESS", "FAIL"} THEN status
                      ELSE IF zaPolls + 1 = MaxPolls THEN "TIMEOUT" ELSE "none"
  /\ UNCHANGED zaTask

ZaiNext == GenerateVideo \/ TaskEnds \/ PollVideo

\* What is said of a task is what became of it; it times out unfinished, or because the
\* last poll missed the end, or because it ended after that.
VideoResultIsTrue ==
  /\ zaResult \in {"SUCCESS", "FAIL"} => zaResult = zaTask
  /\ zaResult = "TIMEOUT" => zaPolls = MaxPolls

\* A finished task is not polled past: the poll after its end either tells or fails.
EndIsNotOverlooked ==
  [][zaPolls' = zaPolls + 1 /\ zaTask \in {"SUCCESS", "FAIL"} => zaResult' = zaTask \/ zaMissed']_zaVars

-----------------------------------------------------------------------------
(* The MCP server's calls to the Janus worker: lines into and out of one process,
   started on first use and again once it has ended. A worker that has ended keeps
   what it had written for those who still read from it. *)
VARIABLES jaWorkers, jaCall, jaCalls, jaStore, jaPage, jaAnswered, jaFaults

jaVars == <<jaWorkers, jaCall, jaCalls, jaStore, jaPage, jaAnswered, jaFaults>>

JanusCommands == {"ml", "web", "db", "ingest", "text", "unknown"}
FreshWorker == [alive |-> TRUE, ml |-> "none", in |-> <<>>, out |-> <<>>, clean |-> TRUE]
NoCall == [worker |-> 0, id |-> 0]

JanusInit ==
  /\ jaWorkers = <<>>
  /\ jaCall = [c \in JanusCallers |-> NoCall]
  /\ jaCalls = 0
  /\ jaStore = {}
  /\ jaPage = [version |-> 0, chunks |-> 0, whole |-> FALSE]
  /\ jaAnswered = <<>>
  /\ jaFaults = 0

\* _get_janus_worker under its lock, then the command's line, written outside it. The
\* worker is clean while no two calls wait for it and nothing else printed to its output.
JanusAsks(c) ==
  /\ jaCall[c] = NoCall /\ jaCalls < MaxJanusCalls
  /\ jaCalls' = jaCalls + 1
  /\ LET running == jaWorkers # <<>> /\ Last(jaWorkers).alive
         workers == IF running THEN jaWorkers ELSE Append(jaWorkers, FreshWorker)
         w == Len(workers)
     IN /\ w <= MaxWorkers
        /\ \E cmd \in JanusCommands :
             jaWorkers' = [workers EXCEPT ![w].in = Append(@, [id |-> jaCalls', cmd |-> cmd]),
                                          ![w].clean = @ /\ \A d \in JanusCallers : jaCall[d].worker # w]
        /\ jaCall' = [jaCall EXCEPT ![c] = [worker |-> w, id |-> jaCalls']]
  /\ UNCHANGED <<jaStore, jaPage, jaAnswered, jaFaults>>

\* _init_ml: the embedder is kept when the collection behind it cannot be opened, and
\* then passes for initialized.
MlStates(ml) == IF ml = "none" THEN {"none", "half", "ready"} ELSE {ml}

\* What a command can answer, given the state its _init_ml left.
MlAnswer(ml) == IF ml = "ready" THEN {"ok", "error"} ELSE {"error"}
WebAnswer == {"ok", "error"}
DbAnswer == {"ok", "error"}
TextAnswer == {"ok"}
JanusAnswers(cmd, ml) ==
  CASE cmd \in {"ml", "ingest"} -> MlAnswer(ml)
    [] cmd = "web" -> WebAnswer
    [] cmd = "db" -> DbAnswer
    [] cmd = "text" -> TextAnswer
    [] OTHER -> {"error"}

\* What a command does to the collection: <<>>, or <<n>> when an ingest crawled the page
\* and upserted its n chunks, none if it had no text. A crawl or an upsert that fails is
\* an error with nothing stored, a search that fails after the upsert an error with all.
Ingests(cmd, ml) == cmd = "ingest" /\ ml = "ready"
Effects(cmd, ml, status) ==
  IF ~Ingests(cmd, ml) THEN {<<>>}
  ELSE IF status = "ok" THEN {<<n>> : n \in 0..2} ELSE {<<>>, <<1>>, <<2>>}

\* Chunks of the same place are replaced, and those behind the last one stay.
Upsert(store, version, n) ==
  {c \in store : c.place > n} \cup {[place |-> i, version |-> version] : i \in 1..n}
Ingested(effect) ==
  IF effect = <<>> THEN UNCHANGED <<jaStore, jaPage>>
  ELSE LET n == effect[1]
           v == jaPage.version + 1
       IN /\ jaStore' = Upsert(jaStore, v, n)
          /\ jaPage' = [version |-> v, chunks |-> n,
                        whole |-> jaPage.version = 0 \/ (jaPage.whole /\ n >= jaPage.chunks)]

\* One line of main(): the handler, then its answer. A handler of more than five
\* minutes is the worker's last; while it waits for a line its idle clock is not read.
JanusHandles(w) ==
  LET worker == jaWorkers[w]
      line == Head(worker.in)
  IN /\ worker.alive /\ worker.in # <<>>
     /\ \E ml \in (IF line.cmd \in {"ml", "ingest"} THEN MlStates(worker.ml) ELSE {worker.ml}) :
        \E status \in JanusAnswers(line.cmd, ml), long \in BOOLEAN :
          /\ long => jaFaults = 0
          /\ jaFaults' = IF long THEN 1 ELSE jaFaults
          /\ jaWorkers' = [jaWorkers EXCEPT ![w] =
               [@ EXCEPT !.ml = ml, !.in = Tail(@), !.alive = ~long,
                         !.out = Append(@, [id |-> line.id, status |-> status])]]
          /\ \E effect \in Effects(line.cmd, ml, status) : Ingested(effect)
     /\ UNCHANGED <<jaCall, jaCalls, jaAnswered>>

\* A library prints to the worker's standard output.
JanusStrayLine(w) ==
  /\ jaWorkers[w].alive /\ jaWorkers[w].in # <<>> /\ jaFaults = 0
  /\ jaFaults' = 1
  /\ jaWorkers' = [jaWorkers EXCEPT ![w].out = Append(@, [id |-> 0, status |-> "stray"]),
                                    ![w].clean = FALSE]
  /\ UNCHANGED <<jaCall, jaCalls, jaStore, jaPage, jaAnswered>>

\* Also between an upsert and its answer.
JanusDies(w) ==
  LET worker == jaWorkers[w]
      ingesting == worker.in # <<>> /\ Ingests(Head(worker.in).cmd, "ready") /\ "ready" \in MlStates(worker.ml)
  IN /\ worker.alive /\ jaFaults = 0
     /\ jaFaults' = 1
     /\ jaWorkers' = [jaWorkers EXCEPT ![w].alive = FALSE, ![w].in = <<>>]
     /\ \E effect \in (IF ingesting THEN Effects("ingest", "ready", "error") ELSE {<<>>}) : Ingested(effect)
     /\ UNCHANGED <<jaCall, jaCalls, jaAnswered>>

\* The next line of the worker is taken for the answer, whose ever it is; an ended
\* worker without a line gives an error.
JanusReturns(c) ==
  LET w == jaCall[c].worker
  IN /\ jaCall[c] # NoCall
     /\ \/ /\ jaWorkers[w].out # <<>>
           /\ jaAnswered' = Append(jaAnswered, [asked |-> jaCall[c].id, got |-> Head(jaWorkers[w].out).id,
                                                clean |-> jaWorkers[w].clean])
           /\ jaWorkers' = [jaWorkers EXCEPT ![w].out = Tail(@)]
        \/ /\ jaWorkers[w].out = <<>> /\ ~jaWorkers[w].alive
           /\ jaAnswered' = Append(jaAnswered, [asked |-> jaCall[c].id, got |-> 0,
                                                clean |-> jaWorkers[w].clean])
           /\ UNCHANGED jaWorkers
     /\ jaCall' = [jaCall EXCEPT ![c] = NoCall]
     /\ UNCHANGED <<jaCalls, jaStore, jaPage, jaFaults>>

JanusNext ==
  \/ \E c \in JanusCallers : JanusAsks(c) \/ JanusReturns(c)
  \/ \E w \in DOMAIN jaWorkers : JanusHandles(w) \/ JanusStrayLine(w) \/ JanusDies(w)

\* A call gets its own answer or none, unless two calls wait for one worker or a
\* library printed to its output; then answers stay shifted until that worker ends.
AnswersAreOnesOwn ==
  \A i \in DOMAIN jaAnswered : jaAnswered[i].clean => jaAnswered[i].got \in {0, jaAnswered[i].asked}

\* One worker at a time answers: another is started only once the last has ended.
OneWorkerLives == Cardinality({w \in DOMAIN jaWorkers : jaWorkers[w].alive}) <= 1

\* What is stored of a page is the version that was crawled last and nothing else, unless
\* the page shrank or lost its text, whatever its callers were answered.
CollectionIsCurrent ==
  /\ {i \in 1..jaPage.chunks : [place |-> i, version |-> jaPage.version] \notin jaStore} = {}
  /\ jaPage.whole => \A c \in jaStore : c.version = jaPage.version

\* What the gateway, its bridge, the z.AI client and the MCP server answer is theirs to
\* answer: each key in its turn, a listed function, a task's true end, the call's own result.
GatewaysAreSound ==
  /\ [](/\ RotationIsFair /\ WindowIsComplete
        /\ ReportedIsListed /\ ListedOnce
        /\ VideoResultIsTrue
        /\ AnswersAreOnesOwn /\ OneWorkerLives /\ CollectionIsCurrent)
  /\ EndIsNotOverlooked

=============================================================================
