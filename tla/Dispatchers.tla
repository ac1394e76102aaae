----------------------------- MODULE Dispatchers -----------------------------
(* Host function calls (agents/core/host_function_dispatcher.py): what each
   backend returns or raises when its service is up, down or answers nonsense and
   when the call itself is wrong, and the circuit breaker that all calls of one
   backend share. Worker threads of Spindle call it concurrently; the breaker's
   dictionaries are not locked. *)
EXTENDS Integers, Sequences, FiniteSets, SequencesExt

CONSTANTS Threads,      \* callers
          Backends,     \* the backends called in a run, some of the keys of Outcome
          CbTimeout,    \* _BACKEND_CB_TIMEOUT, in ticks
          MaxHostTime   \* bound on the clock
ASSUME TimeoutAssumption == CbTimeout \in Nat
CbThreshold == 3

\* What can happen to a call: the service does its work, cannot be reached or
\* answers with an error status, answers what cannot be decoded, or the call
\* names no function of the backend or has arguments it rejects.
Causes == {"works", "down", "garbled", "wrong_call"}

(* The outcome of a call, per cause: a value, a text that describes the error and
   is returned like a value, or an exception. Only an exception is a failure. *)
Builtin(c) == IF c = "wrong_call" THEN {"raises"} ELSE {"value"}
\* The path is checked first; without the sidecar the local file is read.
FileRead(c) == CASE c = "wrong_call" -> {"raises"} [] c = "down" -> {"value", "raises"} [] OTHER -> {"value"}
\* The path is checked only when the sidecar is not there and the local file is written.
FileWrite(c) == IF c = "down" THEN {"value", "raises"} ELSE {"value"}
HttpProxy(c) == IF c = "down" THEN {"text"} ELSE IF c = "wrong_call" THEN {"raises", "text"} ELSE {"value"}
DockerOrchestrator(c) == IF c = "works" THEN {"value"} ELSE {"text"}
\* Sidecar first, then Ollama, whose answer must be JSON.
ContainerSpawn(c) == CASE c = "works" -> {"value"} [] c = "garbled" -> {"raises"} [] OTHER -> {"value", "text"}
ToolForge(c) == IF c = "works" THEN {"value"} ELSE {"text", "raises"}
NativeBridge(c) == IF c = "works" THEN {"value"} ELSE {"raises"}
\* AnythingLLM, MSTY and SearXng turn connection errors into text, and nothing else.
AnythingllmApi(c) == CASE c = "works" -> {"value"} [] c = "down" -> {"text"} [] OTHER -> {"value", "raises"}
MstyBridge(c) == CASE c = "works" -> {"value"} [] c = "down" -> {"text", "value"} [] OTHER -> {"raises"}
Searxng(c) == CASE c = "works" -> {"value"} [] c = "down" -> {"text", "value"} [] OTHER -> {"text", "raises"}
\* The vault is opened outside the try: "down" is a directory that cannot be made. A
\* vault file that cannot be read is as an empty one.
ApiKeeper(c) ==
  CASE c = "works" -> {"value"} [] c = "down" -> {"raises"} [] c = "garbled" -> {"value", "text"} [] OTHER -> {"text"}

Outcome(b, c) ==
  CASE b = "builtin" -> Builtin(c)             [] b = "dapr_file_read" -> FileRead(c)
    [] b = "dapr_file_write" -> FileWrite(c)   [] b = "dapr_http_proxy" -> HttpProxy(c)
    [] b = "docker_orchestrator" -> DockerOrchestrator(c)
    [] b = "dapr_container_spawn" -> ContainerSpawn(c)
    [] b = "tool_forge" -> ToolForge(c)        [] b = "native_bridge" -> NativeBridge(c)
    [] b = "anythingllm_api" -> AnythingllmApi(c) [] b = "msty_bridge" -> MstyBridge(c)
    [] b = "searxng" -> Searxng(c)             [] b = "apikeeper" -> ApiKeeper(c)
    [] OTHER -> {"raises"}

VARIABLES hfNow,       \* the clock
          hfFails,     \* _backend_failures
          hfReset,     \* _backend_reset_times
          hfCall,      \* per thread: its phase, backend, and what it has read or got
          hfRaised,    \* history: exceptions of a backend since its breaker last half-opened
                       \* with no exception still being counted
          hfLast       \* history: when a backend last raised
hfVars == <<hfNow, hfFails, hfReset, hfCall, hfRaised, hfLast>>

NotCalling == [at |-> "idle", b |-> "none", read |-> 0]
HostInit ==
  /\ hfNow = 0 /\ hfFails = [b \in Backends |-> 0] /\ hfReset = [b \in Backends |-> 0]
  /\ hfCall = [t \in Threads |-> NotCalling]
  /\ hfRaised = [b \in Backends |-> 0] /\ hfLast = [b \in Backends |-> 0]

AtCall(t, at) == hfCall[t].at = at
Goto(t, at) == hfCall' = [hfCall EXCEPT ![t].at = at]

BeingCounted(b) == \E t \in Threads : hfCall[t].b = b /\ AtCall(t, "raised")

\* dispatch: an unknown name or a tier that is not allowed ends the call before
\* the breaker is looked at, so only admissible calls are modelled.
Dispatch(t, b) ==
  /\ AtCall(t, "idle")
  /\ LET open == hfFails[b] >= CbThreshold
         halfOpen == open /\ hfNow >= hfReset[b] IN
     /\ hfCall' = [hfCall EXCEPT ![t] =
          [at |-> IF open /\ ~halfOpen THEN "refused" ELSE "called", b |-> b, read |-> 0]]
     /\ hfFails' = IF halfOpen THEN [hfFails EXCEPT ![b] = 0] ELSE hfFails
     /\ hfRaised' = IF halfOpen /\ ~BeingCounted(b) THEN [hfRaised EXCEPT ![b] = 0] ELSE hfRaised
  /\ UNCHANGED <<hfNow, hfReset, hfLast>>

RefusalRaises(t) == Goto(t, "idle") /\ UNCHANGED hfReset
Refused(t) ==
  /\ AtCall(t, "refused") /\ RefusalRaises(t)
  /\ UNCHANGED <<hfNow, hfFails, hfRaised, hfLast>>

BackendAnswers(t, c) ==
  /\ AtCall(t, "called")
  /\ Outcome(hfCall[t].b, c) \ {"raises"} # {}
  /\ Goto(t, "idle")
  /\ hfFails' = [hfFails EXCEPT ![hfCall[t].b] = 0]
  /\ UNCHANGED <<hfNow, hfReset, hfRaised, hfLast>>

\* Mutant: an exception counts twice.
CountedTwice(n) == n + 2
Counted(n) == n + 1
\* The except branch reads the count ...
BackendRaises(t, c) ==
  /\ AtCall(t, "called") /\ "raises" \in Outcome(hfCall[t].b, c)
  /\ hfCall' = [hfCall EXCEPT ![t].at = "raised", ![t].read = hfFails[hfCall[t].b]]
  /\ hfRaised' = [hfRaised EXCEPT ![hfCall[t].b] = IF @ = CbThreshold THEN @ ELSE @ + 1]
  /\ hfLast' = [hfLast EXCEPT ![hfCall[t].b] = hfNow]
  /\ UNCHANGED <<hfNow, hfFails, hfReset>>

\* ... and writes it back: an update of another thread in between is lost.
CountFailure(t) ==
  LET b == hfCall[t].b
      n == Counted(hfCall[t].read) IN
  /\ AtCall(t, "raised") /\ Goto(t, "idle")
  /\ hfFails' = [hfFails EXCEPT ![b] = IF n > CbThreshold THEN CbThreshold ELSE n]
  /\ hfReset' = IF n >= CbThreshold THEN [hfReset EXCEPT ![b] = hfNow + CbTimeout] ELSE hfReset
  /\ UNCHANGED <<hfNow, hfRaised, hfLast>>

HostTick ==
  /\ hfNow < MaxHostTime /\ \A t \in Threads : ~AtCall(t, "raised")
  /\ hfNow' = hfNow + 1
  /\ UNCHANGED <<hfFails, hfReset, hfCall, hfRaised, hfLast>>

HostNext ==
  \/ \E t \in Threads, b \in Backends : Dispatch(t, b)
  \/ \E t \in Threads, c \in Causes : BackendAnswers(t, c) \/ BackendRaises(t, c)
  \/ \E t \in Threads : Refused(t) \/ CountFailure(t)
  \/ HostTick

HostSpec == HostInit /\ [][HostNext]_hfVars

-----------------------------------------------------------------------------
\* The breaker of a backend opens only after three exceptions since it last
\* half-opened, whatever successes of other threads they overlapped. (An exception
\* counted across a half-opening can open it again at once.)
OpenNeedsThreeExceptions ==
  \A b \in Backends : hfFails[b] >= CbThreshold => hfRaised[b] >= CbThreshold

\* ... and for at most the time-out after the last of them: refusals do not keep
\* the breaker open.
RefusalsEnd == \A b \in Backends : hfReset[b] <= hfLast[b] + CbTimeout

\* A service whose handler turns every error into text can be down for ever: its
\* breaker never opens, because nothing is ever counted (_docker_spawn).
ErrorTextIsSuccess == \A b \in Backends \cap {"docker_orchestrator"} : hfFails[b] = 0

-----------------------------------------------------------------------------
(* OllamaDispatcher (agents/gateway/ollama_dispatch.py): calls on one event loop
   share the round robin counter; every request to a host may fail or succeed.
   Prompt, options, telemetry and the complexity score are left out; "answer"
   stands for the text of a reply. *)
CONSTANTS DispatchCalls,    \* callers
          Strategies,       \* the values of OLLAMA_LOAD_STRATEGY
          OpenRouterKeys,   \* is OPENROUTER_API_KEY set
          MaxRounds         \* bound on the counter

VARIABLES odStrategy, odKey,  \* configuration
          odRound,            \* _rr_counter
          odFirst,            \* history: the host each order put first
          odCall              \* per caller: its request and how far it is
odVars == <<odStrategy, odKey, odRound, odFirst, odCall>>

NotCalled == [kind |-> "", provider |-> "ollama", model |-> "", hosts |-> <<>>, tried |-> <<>>, end |-> ""]
DispatchInit ==
  /\ odStrategy \in Strategies /\ odKey \in OpenRouterKeys
  /\ odRound = 0 /\ odFirst = <<>> /\ odCall = [c \in DispatchCalls |-> NotCalled]

\* _get_ordered_hosts, with a secondary host: the order for the next round.
Ordered ==
  CASE odStrategy = "primary_only" -> <<"primary">>
    [] odStrategy = "round_robin" /\ (odRound + 1) % 2 = 1 -> <<"secondary", "primary">>
    [] OTHER -> <<"primary", "secondary">>
\* Where a model is asked for at an attempt to generate with it.
Hosts(provider) == IF provider = "openrouter" THEN <<"openrouter">> ELSE Ordered
Round(provider) ==
  IF provider = "ollama" /\ odStrategy = "round_robin" THEN odRound + 1 ELSE odRound

Attempt(c, kind, provider, model, tried) ==
  /\ odRound' = Round(provider)
  /\ odFirst' = IF provider = "ollama" THEN Append(odFirst, Head(Hosts(provider))) ELSE odFirst
  /\ odCall' = [odCall EXCEPT ![c] =
       [kind |-> kind, provider |-> provider, model |-> model, hosts |-> Hosts(provider),
        tried |-> tried, end |-> ""]]
  /\ UNCHANGED <<odStrategy, odKey>>

\* generate
Generate(c, provider, model) ==
  /\ odCall[c].kind = "" /\ odRound < MaxRounds
  /\ Attempt(c, "generate", provider, model, <<>>)

\* chat and generate_stream use one host, and no other when it fails.
SingleHost(c, kind, provider, model) ==
  /\ odCall[c].kind = ""
  /\ odCall' = [odCall EXCEPT ![c] = [NotCalled EXCEPT !.kind = kind, !.provider = provider, !.model = model,
       !.hosts = IF provider = "openrouter" THEN <<"openrouter">> ELSE <<"primary">>]]
  /\ UNCHANGED <<odStrategy, odKey, odRound, odFirst>>

Waiting(c) == odCall[c].kind # "" /\ odCall[c].end = "" /\ odCall[c].hosts # <<>>
Target(c) == <<odCall[c].model, Head(odCall[c].hosts)>>
\* chat does not look at the key before it calls OpenRouter.
Keyless(c) == odCall[c].provider = "openrouter" /\ ~odKey
Update(c, call) == odCall' = [odCall EXCEPT ![c] = call] /\ UNCHANGED <<odStrategy, odKey, odRound, odFirst>>

\* A host answers: _ollama_generate, _openrouter_generate, chat.
Answers(c) ==
  /\ Waiting(c) /\ odCall[c].kind # "stream" /\ ~Keyless(c)
  /\ Update(c, [odCall[c] EXCEPT !.tried = Append(@, Target(c)), !.end = "answer"])

\* The next host of the order, while there is one.
NextHost(c) ==
  /\ Waiting(c) /\ odCall[c].kind = "generate" /\ Len(odCall[c].hosts) > 1
  /\ Update(c, [odCall[c] EXCEPT !.tried = Append(@, Target(c)), !.hosts = Tail(@)])

LastFails(c) == Waiting(c) /\ odCall[c].kind # "stream" /\ Len(odCall[c].hosts) = 1

\* Mutant: the fallback request leaves the metadata behind, and with it the provider.
FallbackAtOllama(c) == "ollama"
FallbackProvider(c) == odCall[c].provider
\* generate, except branch: once, with the fallback model, at the same provider.
Downshift(c) ==
  /\ LastFails(c) /\ odCall[c].kind = "generate" /\ odCall[c].model # "fallback"
  /\ odRound < MaxRounds
  /\ Attempt(c, "generate", FallbackProvider(c), "fallback", Append(odCall[c].tried, Target(c)))

GivesUp(c) == LastFails(c) /\ (odCall[c].model = "fallback" \/ odCall[c].kind = "chat")
CallRaises(c) ==
  /\ Waiting(c) /\ odCall[c].kind # "stream" /\ GivesUp(c)
  /\ Update(c, [odCall[c] EXCEPT !.tried = Append(@, Target(c)), !.end = "raised"])

\* A stream has no fallback: it ends with the mark "done", with the last line when no
\* mark came or could be decoded, or with an exception. Lines that cannot be decoded and
\* deltas without content are skipped, so neither end says that the text is whole.
StreamEnds(c) ==
  /\ Waiting(c) /\ odCall[c].kind = "stream"
  /\ \E end \in (IF Keyless(c) THEN {"raised"} ELSE {"done", "closed", "raised"}) :
       Update(c, [odCall[c] EXCEPT !.end = end])

DispatchNext ==
  \E c \in DispatchCalls :
    \/ \E provider \in {"ollama", "openrouter"}, model \in {"asked", "fallback"} :
         \/ Generate(c, provider, model)
         \/ \E kind \in {"chat", "stream"} : SingleHost(c, kind, provider, model)
    \/ Answers(c) \/ NextHost(c) \/ Downshift(c) \/ CallRaises(c) \/ StreamEnds(c)

DispatchSpec == DispatchInit /\ [][DispatchNext]_odVars

-----------------------------------------------------------------------------
TriedBy(c) == ToSet(odCall[c].tried)

\* generate raises only after every host of the strategy has failed with the model
\* asked for and with the fallback model, each pair once; in between it stays with
\* its provider, so a call for OpenRouter without a key never reaches a local host.
RaisedAfterAll ==
  \A c \in DispatchCalls : odCall[c].kind = "generate" =>
    /\ Cardinality(TriedBy(c)) = Len(odCall[c].tried)
    /\ \A t \in TriedBy(c) : (t[2] = "openrouter") <=> (odCall[c].provider = "openrouter")
    /\ odCall[c].end = "raised" =>
         LET hosts == IF odCall[c].provider = "openrouter" THEN {"openrouter"} ELSE ToSet(Ordered)
         IN \A h \in hosts : <<"fallback", h>> \in TriedBy(c) /\
              ((\E t \in TriedBy(c) : t[1] = "asked") => <<"asked", h>> \in TriedBy(c))

\* Under round_robin the two hosts come first equally often, the second attempt of
\* a downshift counted, however the calls interleave.
RoundRobinBalances ==
  odStrategy = "round_robin" =>
    LET First(h) == Cardinality({i \in DOMAIN odFirst : odFirst[i] = h})
    IN First("secondary") - First("primary") \in {0, 1}

\* A dispatcher's failures end where its code sends them: a breaker opens only on three
\* exceptions since it last half-opened and for no longer than its time-out, and a request
\* raises only after every host and model of its provider, the hosts of round_robin taken
\* in turn (HostFunctionDispatcher.dispatch, OllamaDispatcher.generate).
FailuresAreHandled ==
  /\ OpenNeedsThreeExceptions /\ RefusalsEnd /\ ErrorTextIsSuccess
  /\ RaisedAfterAll /\ RoundRobinBalances
=============================================================================
