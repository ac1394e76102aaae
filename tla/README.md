# Verification of the Sovereign Agentic OS

TLA+ modules, TLC configurations and TLAPS proofs for the Sovereign Agentic OS
(`src/`): the gateway that admits intents, the stream and the executor that run them,
the Spindle DAG executor with its Saga compensation, the Redis transport between event
buses, the HLF interpreter, machine and runtime, and the services, agents, daemons and
desktop tools around them. `PROJECT.json` lists components, runs, mutants, hazards,
findings and theorems, and maps every modelled definition to its source lines.

    tlc -workers 2 -config Engines.cfg MCEngines        # model-check one run
    tlapm ComponentProofs.tla                           # check the proofs of a module

## 1. The system

### 1.1 Inventory

A client POSTs an intent to the **gateway** (FastAPI, one asyncio loop). The handler
checks, charges and publishes it; the **agent executor**, a separate process, reads
the `intents` stream and runs the HLF interpreter or a model on it. Python objects
inside a process (Spindle, buses, dispatchers, daemons, memories) share threads and
callbacks. **Redis**, SQLite, JSON files and git hold what survives a process.

| Component | State | Operations | What is hard |
|---|---|---|---|
| Gateway bus `gateway/bus.py` | breaker globals; Redis `rate:{minute}`, `nonce:{id}`, `intents` | `post_intent` | seven awaits at which requests interleave; partial failures after gas was charged; a timeout racing the sidecar |
| Gas, health, model router `gateway/router.py` | Redis `gas:{tier}`, `health:gateway:failed`; VRAM cache, model registry | Lua decrement, `replenish_gas`, `is_gateway_healthy`, `route_request` | refill and expiry while requests charge; a tier walk over a registry and hosts that change |
| Agent executor `core/main.py`, `scripts/dispatch.py` | group cursor, pending list | `run`, `execute_intent`, `dispatch` | crashes between read, execute and XACK |
| Spindle `core/spindle.py` | node statuses, completed and failed nodes, interrupts | `add_node` ... `run_parallel`, `_compensate`, `interrupt` | threads of a wave around a failure; statuses kept between runs |
| Redis transport `core/redis_transport.py` | streams, group, listener threads | connect, publish, listen, stop, restart | one group for all processes; failures in a batch; two threads of one process |
| Buses `core/agent_bus.py`, `core/event_bus.py` | handlers, dead letters, subscribers | send, broadcast, publish, subscribe | handlers that register, fail or unsubscribe during delivery |
| Canary, gateway daemon `core/canary_agent.py`, `gateway_daemon.py` | failure streak, Redis flags; child process, monitor thread | probe, escalate; start, stop, restart | flags that expire between probes or refuse the probe; monitors that wake late |
| Model registry `core/scheduler.py`, `db.py`, `gateway/matrix_sync/` | snapshots in SQLite, jobs, status | cycle, job, promotion | cycles and jobs that overlap |
| Dispatchers `core/host_function_dispatcher.py`, `gateway/ollama_dispatch.py` | breaker counts; host order, round-robin counter | dispatch, generate, chat, stream | unlocked counts; fail-over and downshift; backends that raise or answer an error as text |
| Gates `core/dead_man_switch.py`, `governance/soft_veto.py` | panics, armed; decisions | record, arm; evaluate, resolve, expire | windows that slide; verdicts that come late |
| Trails `core/logger.py`, `governance/align_ledger.py` | hash chain; rules, proposals, trail | append; propose, approve, save, load | two writers; applying half a change |
| Credentials `core/credential_vault.py`, `spiffe_identity.py` | keys and a file; SVIDs, revocations | add, verify, save; issue, rotate, revoke, load | torn files; what a file does not hold |
| Memories `hlf/infinite_rag.py`, `core/memory_scribe.py`, `dream_state.py` | hot, warm, cold tiers; context rows, facts | store, retrieve, archive, reheat; consume, prune | unlocked moves between tiers; commit before acknowledgement |
| HLF interpreter, capsule, runtime, VM `hlf/hlfrun.py`, `intent_capsule.py`, `runtime.py`, `bytecode.py` | gas, scope, spec, macros, module cache, stack | execute, PARALLEL, SYNC, import, compile, run | child interpreters in threads; imports in circles; jump offsets |
| Installers `hlf/tool_installer.py`, `hlfpm.py`, `oci_client.py`, `core/app_installer.py`, `tool_forge.py` | directories, registries, host_functions.json, lockfile, cache | install, update, uninstall, pull | a failure in every step, some of them silent; two commands at once |
| Plans and missions `core/plan_executor.py`, `code_agent.py`, `build_agent.py`, `crew_orchestrator.py` | tree, task DAG; session and its row | execute plan; advance, seal, save, load; run the crew | fail-fast half-way; stale saves; answers that do not parse |
| Sandboxes and tools `core/agent_sandbox.py`, `spindle_tool_bridge.py`, `tool_registry.py` | tools by name, logs, the DAG's context | execute node, call, grant | sandboxes that take over each other's names; one context for all worker threads |
| Worktrees `core/acfs.py` | git, a class-wide count, the main checkout | create, destroy, merge | the count lags behind git; one checkout for all merges |
| Daemons and agents `core/daemons/`, `core/*_agent.py` | two buses, budgets, disputes, streams | emit, translate, rule, scan | cascades of events; deadlines; shared gas |
| Monitors `daemons/insaits_daemon.py`, `gas_dashboard.py`, `egl_monitor.py`, `outlier_trap.py`, `hlf/tool_monitor.py` | windows and counters | record, report, revoke | windows at their limits; stale copies of a registry |
| Providers `core/model_gateway.py`, `gateway_bridge.py`, `zai_client.py`, `mcp/` | keys, windows, function list, worker process | route, sync, poll, ask | two syncs of one file; two callers of one pipe |
| Choice `core/task_classifier.py`, `maestro.py`, `maestro_router.py` | lists of providers | classify, route | ties, limits, shared profiles |
| Desktop `core/native/` | token bucket, registry keys, processes, tools | shell, browser, tray, register | half-failed registrations; flags and processes that disagree |

What is left out, and why, is in section 6.

### 1.2 What makes each part correct

* **Gateway**: nothing reaches the stream without having been counted, checked, paid
  for and given a nonce; gas is neither created nor lost; a nonce has one holder in its
  lifetime; the response is true; the limiter and the breaker refuse exactly what they
  should; every POST is answered.
* **Executor**: acknowledged implies executed; stream order, no repetition; every entry
  is delivered across restarts.
* **The two together**: an intent is put on the stream at most twice, is run at most as
  often as it is there, and a refused one never runs.
* **Spindle**: orders are topological and cycles found; a failed run leaves no effect it
  did not try to undo, in reverse; every run ends.
* **Redis transport**: an event is handled once, by one process, and never by its origin;
  what left the pending list was handled; one listener hears events in order.
* **Engines**: the interpreter's books balance and its programs end; the machine computes
  what the source means; the Canary's flags are true and the gateway reopens; a process
  that is up is the one its state names.
* **Stores**: a memory, a key, a revocation, an audit entry, a package or a tool that was
  put somewhere is there, unless a race or a failure the code does not see explains its
  loss, and the property names that explanation.
* **Agents**: plans, missions, programs and discussions are carried out as given and
  reported as done; cascades of events come to rest; rulings and alarms hold.

Where the code has a race it does not guard against, the property states what holds in
spite of it: the model keeps a history variable for the race, and a loss without the
race in its history is a violation.

### 1.3 Interactions

`GatewayBus` appends to `stream`; `Executor` reads it; `IntentSystem` composes both over the
one variable. The Canary agent reaches the gateway only through `health:gateway:failed`, which
`GatewayBus` lets change at any time (`HealthFlag`), a superset of what `Supervision` lets the
agent do; there the probe in turn meets the flag. The router reads the catalog that
`ModelRegistry` maintains: `Routing` lets it change between any two reads. `PlanExecution`
uses the order of `SpindleDag`. A sandbox (`AgentTools`) is made and entered from Spindle's
worker threads. The installer and the gateway bridge write one `host_functions.json`:
`Installers` lets the bridge create it, `Gateways` has its rewriting, and nothing in `src/`
but tests constructs the bridge. The daemons' bridge and the local event bus publish into each
other (`Daemons`). `HlfHost`'s programs are those whose gas `HlfRun` meters. The tool monitor
saves the registry the installer owns (`Installers`). The other components share no state with
each other in the code.

## 2. Modules

| Module | Models |
|---|---|
| `GatewayBus` | `post_intent` (`bus.py:208-400`), the gas bucket and the health flag. `pc[r]` is the await at which the coroutine of request `r` is suspended; `rate`, `gas`, `nonceExp`, `stream` are Redis; `cbFailures`, `cbReset` the globals; `post`, `sidecar` the ends of the Dapr call; `payers`, `gates`, `claimedAt`, `vmRuns` history |
| `Executor` | `main.py:265-406` and the producers: `cursor`, `pel` are the group, `proc`, `entry` the process, `ran` history |
| `IntentDelivery`, `IntentSystem` | the promise to the client; gateway and executor over one stream, refining it |
| `SpindleDag`, `SpindleGraph` | the graph algorithms as recursive functions; `add_node` |
| `Saga`, `Spindle` | the promise of a saga; `SpindleExecutor` with its threads, refining it |
| `EventTransport` | `RedisTransport` of several processes over one stream |
| `Supervision` | the Canary agent and the gateway daemon |
| `HlfRun`, `HlfHost`, `HlfVm` | the interpreter's gas and PARALLEL; its scope, spec, macros and capsule, and the runtime with its module loader; the bytecode compiler and machine against the meaning of the source |
| `Routing`, `Selection`, `Gateways` | `route_request`; classifiers and provider routers; model gateway, bridge, z.AI client, MCP server and Janus worker |
| `ModelRegistry` | pipeline cycles, jobs, snapshots |
| `Dispatchers`, `Governance`, `Credentials`, `Memories`, `Installers`, `EventBuses`, `AgentTools` | components of one kind each, with variables of their own: host functions and Ollama; the two gates and the two audit trails; and so on |
| `Daemons` | the daemons' buses and bridge, the arbiter's disputes, the three stream agents |
| `PlanExecution`, `Crew` | plans; missions and their store, discussions, reviews, dreams, issues |
| `Worktrees`, `Monitors`, `Native` | as named |
| `MC*` | values of the constants; `MCEngines`, `MCAgents`, `MCServices` also the group specifications |
| `GatewayProofs`, `ExecutorProofs`, `IntentProofs`, `EventTransportProofs`, `HlfProofs`, `SpindleProofs`, `ComponentProofs` | theorems about the modules of these names and the composed intent path; also `Routing` (with the gateway), `Dispatchers`, `Daemons` and `Monitors` (with the executor), `AgentTools` (with the transport), `Installers` (with HLF), `PlanExecution`, `HlfHost` and `Crew` (with the Spindle), and in `ComponentProofs` model registry, worktrees, `Credentials`, `EventBuses`, `Governance` and `Memories` |
| `InductionLemmas` | induction over sets of naturals; sums, recursions and sequences |

A variable has the prefix of its component (`wtCount`, `rgSnaps`) where several modules
meet in a group. Each module's header, and that of each of its parts, says which state of
the code its variables are. `map` in `PROJECT.json` lists the definition that carries each
piece of code; a pure helper whose lines lie within those of its user is not listed again.

### 2.1 Grain

Everything between two awaits of a coroutine is one action; so are a Redis command, a
Lua script and a SQLite statement outside a transaction, and what a thread does under a
lock. Elsewhere a thread's action ends where another thread, a callback, a failure or a
crash can see the difference: an iteration over a live list is one action per element,
`x = x + 1` on an unlocked count is a read and a write, and a file that is rewritten is
first emptied, then full.

### 2.2 Groups

Most components share no state, so their product would only multiply states. `MCEngines`,
`MCAgents` and `MCServices` therefore check them one at a time: a variable `focus`,
chosen in the initial state and never changed, says whose steps the behaviour takes, the
others keep their initial state. A property such as `AlertsSettle` is the
conjunction of the members' own properties, each stated and commented in the member's
module; it is violated exactly if a member's is violated in its own specification. A
member's initial states that do not matter to another focus are fixed, so that each
initial state occurs once.

### 2.3 What the models abstract

* Payloads are records of what the checks find; the checks themselves (regular
  expressions, compiler, ALIGN) are pure, and every combination that leads to a
  different path is enumerated. Ids come from small sets, so that rare collisions happen.
* Model output (answers of Ollama, verdicts of CoVE, findings of a hat, a consolidated
  report) is any of the shapes the code tells apart: valid, of another JSON type, prose,
  empty, an exception.
* Commands and HTTP calls are their outcomes, the lost reply included. Figures such as
  confidences and entropies are integers in a stated unit or a table.
* The sidecar answers after it published, or not at all, or drops the event; the
  handler's failure is possible in each case, which covers refused connections, error
  statuses, the 3 s timeout and lost replies.
* Streams of tokens (`ollama_dispatch.py`, `zai_client.py`) keep no state: a stream ends as
  done, closed or raised, whatever its lines were.
* The transport is modelled for one event type: types have streams of their own.
* `HlfRun` bounds a program's length, not its meaning: nodes are of the kinds that spend
  gas, raise, return, nest or fork. In `HlfHost` a loop that does not end is out of gas.
* `HlfVm` compares the machine with a direct evaluation of the source tree; numbers stay
  small, and division is left to the code's own exceptions.

## 3. Runs

Twelve runs; nine pass and three refute a statement of the repository.

| Run | Instance | What it shows |
|---|---|---|
| `gateway_requests` | 2 requests, every payload, 1 id, limits 1, clock 0..2 | one handler against every payload, refusal and failure |
| `gateway_contention` | 3 requests, limit 2, breaker at 2 | `LimitsAreExact`, `DuplicateOnlyFromFallback` |
| `system_refines` | 2 requests, executor | `ImplementsDelivery`, `RunIsAdmitted` |
| `system_live` | 1 request, executor, breaker, fairness | `Answered`, `AcceptedIsHandled` |
| `spindle_executor` | every acyclic graph of 3 nodes, one perhaps without undo, 2 runs, 2 workers, interrupts | `FailedRunIsUndone`, `ImplementsSaga`, `Terminates` |
| `event_transport` | 2 processes, 2 events, 2 in a batch, 2 errors to give up | `AtMostOneBus`, `AckedWasHandled`, `HeardInOrder` |
| `engines` | 8 foci, 125 thousand states | the executor with crashes, the Canary, the interpreter, the gateway daemon; shell, browser, tray, tools |
| `agents` | 23 foci, 1.14 million states | graphs, plans, missions, buses, worktrees, tools, daemons, stream agents, monitors, HLF scope and runtime, crew |
| `services` | 23 foci, 1.14 million states | installers, VM, dispatchers, gates, registry, memories, trails, credentials, routing, gateways, classifiers |
| `event_reaches_remote` | 2 processes, 1 event | refuted |
| `allowlist_gate` | 4 catalogs, 2 hosts | refuted |
| `hlf_gas_cap` | programs of at most 2 statements, cap 4, macros 2 deep | refuted |

### 3.1 Bounds, and why they are enough

Two actors exhibit every pairwise race, and where a component has a limit it is small enough
to be reached, exceeded and left again: gas 2 to 4, breaker at 1 to 3, rate 1 or 2, one dead
letter, ceiling of one worktree for two managers, quorum of two voters, a trail of two
entries, a bucket of two tokens, an EGL window of three. A third request in
`gateway_contention` is what it takes to exceed a limit of two and to fail in the middle of
another's half-open probe; three nodes and two workers give a wave with more nodes than
threads; two events in one batch are what a failing acknowledgement needs to forget one. Times
are counted in ticks that keep the order of the code's constants: the Canary's `FailedTtl` 2,
`ProbeInterval` 3 and `DeadTtl` 6 are its 600, 900 and 1800 seconds
(`canary_agent.py:38,52,53`) in ticks of five minutes; they count down with no bound on time.
Elsewhere each TTL can expire within its bound `Max...Time`. Bounds named `Max...` cap what a
client may do (calls, starts, messages, rounds); no handler's own counter is cut off. In
`Installers` at most one command dies, and none once two were in each other's way: `tiUpset`
forgives all that follows. `agents` treats the worker threads and agent ids of the tool bridge
as symmetric; they are compared only for equality. What needs a long history is bounded
accordingly: `MaxIngested = 13` is one more than the least number of events after which the
outlier trap quarantines.

Deadlock is checked where the environment can always act (gateway, transport); in the
others the client stops calling.

### 3.2 Fairness

* Gateway: weak fairness of each request's handler. The event loop resumes a coroutine
  whose await is answered, and every await is: the Redis client and httpx
  (`timeout=3.0`, `bus.py:361`) raise otherwise. The sidecar, the clock and the client
  have none: `Answered` holds although the sidecar may stay silent.
* Executor: the loop makes progress, and someone restarts the process after it ended
  (`main.py:405` leaves `run`, and the compose file sets no restart policy, so this is the
  operator's part). `Read` is strongly fair: the process may crash again and again, but not
  every time just before it reads. Nothing says an execution succeeds.
* Spindle, interpreter: weak fairness of a step: threads run, and node functions end.
* Canary: weak fairness of its loop and of time. Nothing says the gateway recovers; the
  properties are conditional on an outage that lasts, or an end of it that does.
* Gateway daemon: weak fairness of each caller's next step and of monitor threads.
* The other components have no liveness property and no fairness.

### 3.3 Disagreements with the repository's own statements

1. `core/redis_transport.py:133` "runs a background listener to receive events from remote
   buses": all processes read as one consumer group, so the origin itself may take its
   event, skip it as an echo and acknowledge it, and then no other bus hears it.
2. `hlf/hlfrun.py:331` "Per-intent hard gas cap (AST node executions)": each task of a PARALLEL
   has the whole rest of the gas, and a failed task is never charged.
3. `gateway/router.py:524` "Model Allowlist Gate": the loop variable of the tier walk
   (`router.py:438`) has replaced the deployment tier, and no list exists for the tier it holds.

### 3.4 Observed while modelling, and not made a run

Each is in the model as the code has it; where it matters a property names it as the
explanation of a loss.

* *Gateway*: `README.md:76` sends every intent through "6 deterministic validation gates",
  but ALIGN is checked in the HLF branch only (`bus.py:253-276`); the nonce is drawn by the
  server, so a command sent twice is queued twice; gas stays charged after a 409 or a 500;
  an entry pending at a crash is never taken up again (`main.py:378`); a text intent carries a
  placeholder AST, so `main.py:9` "call the local Ollama instance" does not happen.
* *Spindle*: queued nodes of a wave start after another failed, though `spindle.py:402` says
  they are cancelled. *Logging*: `agents.core.als_logger`, which five modules import
  (`acfs.py:560`, `spindle.py:578`), does not exist; the import error is swallowed.
* *Buses*: a handler that (un)registers during a broadcast makes it raise (`agent_bus.py:337`).
  *Transport*: ten errors over any time end the listener (`redis_transport.py:368`).
* *Registry*: rollback selects a column the schema does not have (`scheduler.py:255`).
  *Router*: the provider is computed before the gate.
* *Interpreter*: two tasks of one name overwrite each other's result; what a task remembers
  in a list it inherited is in the program's list (`hlfrun.py:597` says isolation); tasks
  run without the capsule. *Runtime*: a gas exhaustion during an import, a syntax error in
  a module and a forbidden path leave `execute` as exceptions; the loader's cache is never
  refreshed.
* *Stores*: a rolled-back installation removes a directory another tool uses; identities
  forget revocations when loaded, and `suspend` overwrites REVOKED; the warm tier is
  archived and reheated without the lock (`infinite_rag.py:75` says thread-safe); `latest` is
  served from a cache that never expires, so `update` finds nothing new.
* *Missions*: an empty CoVE answer approves; nothing saves after a phase, though the
  store's docstring (`crew_orchestrator.py:391`) says so; saves compare nothing; no code issues
  or asks for the token of which `crew_orchestrator.py:298` says "Issued by the VERIFY phase",
  and "The MERGE phase requires a valid token". *Crew*: a
  consolidator's answer that is a JSON list raises uncaught, and the discussion is lost.
  *Reviews*: an Ollama that is not reached yields no findings and so "APPROVE — All hats
  passed" (`hat_pr_review.py:447`). `run_dream_cycle`, which `gui/app.py:1308` and
  `scripts/local_autonomous.py:7` import from `dream_state`, does not exist there.
* *Worktrees*: two managers pass the ceiling that "Prevents exceeding system limits even
  with multiple managers" (`acfs.py:59`) by one; `ComponentProofs` shows by how much at most.
* *Tools*: all sandboxes register under the same names, one tool at a time, so a call acts
  in a newer one, or in one of two that are being made; `context["_sandbox"]`
  (`spindle_tool_bridge.py:188`) is one entry for all worker threads of a DAG, so a node that
  reads it after another has started works in the other's worktree; the native groups call
  `registry.register` with keywords that `ToolRegistry.register` (`tool_registry.py:190`) does
  not take.
* *Installer*: `tool_installer.py:2` promises a "1-Click" installation and a tool is a Python
  tool by default (`:177`), but where virtual environments link to the interpreter the verifier
  (`:406-418`) refuses the one that the installer has just made (`:719`): only a repository that
  ships a `.venv` of its own passes. A failure to write `host_functions.json` is logged
  (`:845`) and the installation goes on; if there is no such file it is not even logged.
* *Dispatchers*: the credential vault is opened outside the `try` of its backend
  (`host_function_dispatcher.py:861`), so a directory that cannot be made raises and counts
  against the breaker, while every other failure of it is a text and counts as success. A
  stream skips lines it cannot decode (`ollama_dispatch.py:425`) and still ends with "done".
* *Choice*: `task_classifier.py:15` says MICRO is "< 5 lines", and `_estimate_size` makes it at
  most 3, but `_size_min` keeps the MICRO of a type up to 50 lines (`:482`), which is what
  `FastPathIsBounded` bounds the fast path by; the number of files counts for four or five
  changes and not for more. A provider that matches a part of the needs may win over one that
  matches all, if it was added with a better priority and cost (`maestro_router.py:325-343`).
* *Janus*: two concurrent calls swap answers; the worker does not end itself after five
  minutes (`janus_worker.py:6`), as it waits in a read; a search that fails after an ingest
  answers with an error although the chunks are stored (`:412-428`); of a page that got shorter,
  or lost its text, old chunks stay. *Model gateway*: the rate limit is only logged, and the
  requests of the last minute it reports hold older ones until the next request.
* *Desktop*: BrowserOS registered twice overwrites the backup with itself
  (`browseros.py:406`); the tray's Quit is handled before its callback (`tray.py:276`), so
  `stop_all_services`, registered at `action_menu.py:492`, never runs.
* *Daemons*: a restart subscribes the router twice; nobody calls the arbiter's
  `check_timeouts`, and a second stop appends all rulings again.

## 4. Proofs

Every theorem holds for all values of the constants that satisfy the named assumptions of
its modules; the run that checks the same property shows it on the instance of section 3.

### 4.1 The intent path

`GatewayProofs`, for every number of requests, payloads, ids and limits: `TypeCorrect`,
`PublishedAdmitted`, `NoncesExclusive`, `TruthfulResponses`, `LeaksExplained`,
`LimitsExact`, `DuplicatesExplained` and `GasIsConserved`. None of the properties is
inductive. `PublishedIsAdmitted` speaks of the stream, but the entry is written by the
sidecar long after the handler's checks; `IInv` therefore says for each await what the
request has behind it (`Pipeline`), and that a request known to the sidecar and an entry
of the stream (`StreamInv`) carry it still. `ResponseTellsTruth` needs that a refused
request never met the sidecar (`Told`, `Unpublished`), `NonceExclusive` that a key lives
as long as its claim (`NonceInv`). `RateKeyLeaks` and `LimitsAreExact` need that the
requests counted in a minute are no more than its counter and the limit (`CountedInv`, a
cardinality: the counter also counts those it refuses), and that the breaker counts at most the posts that failed
(`BreakerInv`); `DuplicateOnlyFromFallback` needs that each route has put a request on the
stream at most once, and the fallback only after a failed post (`RoutesInv`).
`GasIsConserved` is about the sum of what the requests paid: `PayersInv` says that a payer's
charge does not change any more, and the lemmas of 4.5 what one more summand does.
Assumptions: finitely many requests, natural limits, and a `None` apart from other values.

`ExecutorProofs` proves `AckedRan` and `RunsOrdered` for any stream: the entry in hand
is the last delivered one and pending (`Hand`), it has run before it is acknowledged, and
all executions are of earlier entries before it runs (`Progress`).

It also proves `FailuresHandled` (`HostSpec /\ DispatchSpec => []FailuresAreHandled`), about
two components that programs call. Host functions (`HostInv`): a breaker's count is at most
the exceptions there were, and a call in its `except` branch has read a count below them
(`Counts`), so that counting one more, even twice at the same value, keeps it so. Ollama
(`OllamaInv`): a call to `generate` has tried with its model the hosts that are not left in
its order, and all hosts with the model asked for once it has stepped down (`Exhausts`);
one that raises has therefore been through all of them. The orders that began with the
secondary less those that began with the primary are the counter's parity (`TakeTurns`).
Assumption: the breaker's timeout is a natural number (`TimeoutAssumption`).

`IntentProofs` is about their composition. `RunsAdmitted`: what is executed is an entry of
the stream, and so, by the gateway's invariant, of a request that was admitted; `ExecInv`
adds that the executor's position is within the stream, which only grows.
`DeliveryImplemented` is the refinement: `IntentSystem`'s answers, copies and runs are those
of `IntentDelivery`. The answers come from `Told`, the bound of two copies from `RoutesInv`,
and that no execution lacks a copy from `ExecInv`: executions are of different entries.
Each action of gateway, sidecar or executor maps to one abstract action or to a stutter.

### 4.2 Spindle

`SpindleProofs`, for every graph. `OrdersRight`
(`GraphSpec => []OrdersAreRight`): after every iteration of Kahn's loop a node's degree is
the number of dependencies still to be handled, and order and queue hold, once, exactly
the nodes that wait for nothing (`KahnInv`); `topological_order` is then topological or
raises (`OrderIsRight`), it raises for every cycle (`CycleRaises`) and, when lists name a
dependency once, only then (`RaisesOnCycle`); the waves grow until they stop and are the
layers of the graph (`WavesGrow`, `WavesCounted`, `WaveFacts`).

`FailuresUndone` (`SpindleSpec => []FailedRunIsUndone`) and `SagaImplemented`
(`SpindleSpec => ImplementsSaga`) rest on one invariant, `SpindleInv`. A failed run is
undone whole because effects, statuses, futures and `completed` agree at every moment
(`DoneInv`), also while a wave's threads still run after a failure; the order of undoing
is right because nodes complete after those they depend on (`OrderInv`) and no unsettled
node is one that a settled one depends on (`PlanInv`: what is left of the plan, seen as
layers); `BackInv` says of a saga that has turned back which completed nodes it has
visited: the last ones. `PhaseInv` ties plan, futures and failed node to the phase.
Assumptions: for the executor finitely many nodes, and graphs whose lists name nodes and whose ids are
distinct, which `add_node` guarantees (`GraphsAssumption`), and a natural `MaxDeps`.

`PlanCarriedOut` (`PlanSpec => []PlanIsCarriedOut`) is what the facts on orders are for.
`plan_to_dag` names for a code task only the code before it and for a build task only the
last code of the list. The graph has no cycle (`PlanGraph`), so every task is ordered,
once; by induction along the chain all code stands in the order of the list, and before
every build (`PlanOrder`). Hence, once a build has looked at the worktree, only builds are
left (`OnlyBuildsLeft`), and what it saw is what the plan leaves behind; files and steps
are accounted for action by action (`ExecutorInv`). Assumption: `MaxTasks` is a natural
number (`PlanAssumption`).

`WorkCarriedOut` is about plans and all that is done beside them: each of the eight
components has a specification of its own, and together they imply `WorkIsCarriedOut`.

* `MissionsSound`: a trail is a path because each entry begins at the phase, which is where
  the last one ended (`TrailSound`); the store goes back only by a stale save because the row's
  trail is the beginning of that of every copy it has not overtaken (`Extends` in `SddInv`).
* `ScopeSound`: a node that waits was let through by the check that was made of it when its
  statement began, so nothing is left to run that the capsule forbids (`WorkFits`); a list no
  fork shares is of one interpreter (`ListsOwned`); a result taken is of the task's name and of
  the last round (`TakenHaveResults`).
* `RuntimeSound`: the loads in progress are of different modules, not in the cache, and what
  each has merged so far is whole (`StackFits`), which makes it whole when it is cached
  (`CacheFits`) and merged into the environment (`EnvFits`); a code other than 0 in the first
  execution is its own (`CodeInv`).
* `DiscussionsSound`: the rows of a discussion are those of the first personas on its list and
  the others are still to be asked (`StillAsks`); whoever has the mandates has those in the
  cache, which are read once (`MandatesFit` in `CrewInv`).
* `ReviewsSound`: a sum of findings is 0 if and only if each of them is (`SumZero`).
  `DreamsSound`: the experiences on some topics are as many as those on each of them
  (`TopicsAddUp`). `GambitsSound`: between two calls a run has counted the issues that it
  opened, or all but the last (`GambitFits`).

Assumptions: lists that callers ask for are sequences, counts of findings and costs are natural
numbers, a dream cycle needs an experience, and a program imports names of modules, with or
without a file (`CrewAssumption`, `RuntimeAssumption`).

### 4.3 The transport

`EventTransportProofs` proves `OneBus`, `AckedHandled` and `HeardOrdered` for any number of
processes, threads and events. The properties speak of what was handled; the invariant
adds where the other messages are: each in one place of one batch and pending (`Hands`),
handled by nobody while it waits (`Progress`), and, for a process that never had two
threads, behind all that it handled (`Order`).

### 4.4 Interpreter and components

`HlfProofs` proves `GasMetered` (`HlfSpec => []GasIsMetered`) for any gas limit, depth of
macros and length of programs (`HlfAssumption`). To the three books of the property the
invariant adds when a task exists and what state its future is in (`TasksInv`), and which
reports and names the tasks collected so far have left (`ReportsInv`). `Booked` is what most
steps do to the books: an interpreter executes some nodes and pays for them.

`EventTransportProofs` also proves `ToolsAreOwn` (`BridgeSpec /\ AppsSpec /\ ForgeSpec =>
[]ToolsAreOnesOwn`), about the tools of agents. Bridge (`BridgeInv`): a sandbox whose tools
are being registered is one thread's, known to nobody and before no other (`OnesOwn`); hence
no tool acts in a sandbox that was there before one that has registered it (`ToolsAreNewer`),
and none that a node calls in one that was before its own. What the context holds is the
node's own sandbox or that of one which started in its time (`NodePlace`). What a node did is
in its sandbox's log, which only grows, or went astray; what else is in it was done by one
that shares it or went astray into it (`Logged`, `SharersKnow`). Applications (`AppsInv`):
that registry and directories agree at rest is not inductive; unless something is stale, one
process at most is at work on a name, one that is about to register it has its clone in the
directory, one about to forget it has emptied it, and otherwise directory and file agree
(`NameSound`), while what a process read of the registry is what it holds (`UserFits`). Forged
tools (`ForgeInv`): what is in memory, exported or in a file is of a task of that name.
Assumptions: a sandbox registers at least one tool (`BridgeToolsAssumption`), and no tool's
name is the mark of none, as all begin with `tool_` (`ForgedNamesAssumption`,
`tool_forge.py:126`).

`ExecutorProofs` also proves `AlertsSettled` (`DaemonsSpec /\ TriadSpec => []AlertsSettle`).
`DaemonsInv`, of the two buses: an event has a lower rank than the one that raised it, which
bounds the stack, and what is left to do for it fits its type (`StackFits`); an account is
short of what was reported by the node whose charge is still to come, the bottom of the
stack (`Charged`); and a warning that is due has that charge before it, one that was given
is on both buses or has the bridge before it (`Warned`). `TriadInv`, of the stream agents: a
thread has the entry read last, and let go of what it acknowledged (`Hands`); an alert on
the arbiter's stream is of the entry that it names, whose thread is done with it, and no two
name the same (`AlertsKnown`); past an alert, one was raised or dropped (`AlertsRaised`); a
verdict is on an entry that was read, and follows from it (`VerdictsKnown`). `LetsGo`,
`Handles` and `MovesKeep` are what most steps of a thread do. Assumptions: no agent of the
Spindle bus is named like a daemon's account, as the bridge puts `daemon:` before those
(`DaemonsAssumption`, `daemon_bridge.py:104`), and budgets are naturals.

`HlfProofs` also proves `InstallsAgree` (`ToolSpec /\ PackagesSpec => []InstallsMatch`) of
`Installers`, the tools and packages that programs import. That registry, directories and
lockfile agree when nothing runs is not inductive; the invariants say what they owe each other
meanwhile. `ToolInv`: registry and `host_functions.json` differ by the tools whose command is
between the two, and by those whose entry failed to be written or was lost to a writer that
had read the file before, or to a torn file (`FunctionsFollow`, `tiMissed`); a directory has
one user, a registered tool or a command that cloned into it, unless it was cloned into while
in use (`HoldersApart`), and what is in it is its user's (`FilesFollow`); and a clone that is
to be verified has the links of the virtual environment that was made in it, unless its
repository brought one (`OwnClones`), so that no such tool comes to be registered. `PkInv`: of
a key that nothing upset (`KeySound`), one process at most is at work on it; what that one
fetched is what the cache and then the file have; and the file is what the lockfile records
unless that process is between the two. All that is cached, under way or listed was published
under its reference (`AllPublished`). Assumptions: the model's mark of no repository is none
(`ReposAssumption`), and a module's key depends on its repository alone, a bare key being a
repository of its own (`SpecsAssumption`), as `_parse_spec` makes it, except that `o/m@v1`
keeps `o/m` as its key (`hlfpm.py:242`): such a name has no directory to be copied into,
`copy2` raises, and it is left out of the model.

`ComponentProofs` proves properties of the group runs for any constants.
`CatalogConsistent` (`RegistrySpec => []CatalogIsConsistent`): the invariant says that two
promoted snapshots are one and a job's (`OnePromoted`), and that without an overlap the one
job that runs is in the run last started (`LastRun`); `PersistedFacts` says what an insertion
leaves in the table. `WorktreesTracked` (`WtSpec => []WorktreesAddUp`), for any finite set of
managers: that the count agrees with git when nobody is in between is not inductive; the
invariant counts who is (`Books`: count + those about to count = git's worktrees + those
about to uncount + the times the count was held at zero; `Ceiling`: the count and those
about to raise it are at most the ceiling plus the other managers). `SizeMoves`, from the
library's facts on cardinalities, says how the size of a set of managers changes when one
of them moves. `MergesAlone` adds that two merges at a time are not alone and that one
that is has the checkout on its target. Assumption: `WtAssumption`.

`CredentialsKept` (`VaultSpec /\ IdSpec => []CredentialsAreKept`): unless a process saved that
was not fresh, or one opened a vault it could not read, the keys owed are in the file if it
is whole and with every process that is fresh, and one that writes is the only fresh one
(`FileOwes`, `UsersOwe` in `VaultInv`). `IdInv`: what was revoked is in the bundle or was
forgotten by a load. `BusesReach` (`AgentBusSpec /\ EventBusSpec =>
[]BusesReachTheirHandlers`): of an agent bus, every call on the stack still gets to the
handlers that its message owes, for they are left of the agent in turn or their agent is
further on in the dictionary (`CallsServe`), also when handlers register, unregister and
send; of the event bus, unless two calls raced, the current list has all that subscribed
and none that cancelled, and what a publish reads had not been cancelled when it began
(`EventBusInv`). Assumptions: no passphrase is the model's mark of an unreadable or absent
file (`PassphrasesAssumption`), no agent its mark of an emptied slot (`NobodyAssumption`).

`GatesAct` (`DeadManSpec /\ SoftVetoSpec => GatesActInTime`) proves action properties too.
Of the dead man's switch: the panics kept are the end of those recorded since the arming, and
what was let go of is too old (`PanicsKept` in `DeadManInv`); as the clock does not run
backwards the record is in order, so `popleft` up to the first panic that is not too old
removes all that are (`PrunedIs`, by `NatSetInduction`), and a burst that no trigger noticed
would have more than `max_panics` left. Of the soft veto: a decision that waits has no verdict
and was not overdue at the last sweep (`VetoInv`). `Pruned` is the loop of `_prune_old`;
`_pending` is a set, for nothing depends on its order. Assumptions: thresholds and times are
natural numbers (`SwitchAssumption`, `VetoAssumption`).

`AuditComplete` (`AlsSpec /\ LedgerSpec => AuditIsComplete`). Of the hash chain: two calls of
`ALSLogger.log` that ran alone have parents of their own, provided that no disturbed call
started the stretch that leads there (`OwnParents`). What makes this inductive is `Frontier`:
nobody has gone on from where the file stands, nor from where a call read it that is still
alone; so whoever reads next reads a hash that is nobody's parent yet. `ParentsComputed` says
that file and calls hold only hashes that an entry has or is about to have. Of the ledger:
approvals that did not raise and entries `approved` of a rule are equally many
(`ApprovalsAreAudited`, with the cardinality of index sets), a proposal that waits has not
raised, and each step that changes a rule changes one only and tells of it (`ChangeIsTold`).
`_apply_proposal` sets fields in the order of the changes until one raises; the version of the
rule then stays unless `version` was such a field, which `NoSilentChange` says.

`MemoriesKept` (`ScribeSpec /\ FactsSpec /\ RagSpec => MemoriesAreKept`), for any entries,
facts, threads and contents. Of the scribe (`ScribeInv`): what it is about to acknowledge is
in the database already, and what the archive is about to delete is in a file or was until
another one wrote over it (`ArchiveReady`, `EntriesKept`); the entry in hand has at most one
copy more than it has failed (`Attempts`, with the cardinality of index sets), and is the
only one pending that nobody died over (`PendingOwed`). Of the facts (`FactsInv`): a vector
whose rowid has no row, which a new row may take over, was left behind. Of the graph
memory (`RagInv`): a content's rows and the threads that have found none and are about to
insert one are together no more than the threads and the reheats (`RowsCounted`); ids stand
for one content in both tables, on disk and in what a thread has read (`OneText`), so that
writing an archived row over another one loses nothing; and as long as nothing was reheated,
what was stored or is about to be reported so is in a table, the row about to be deleted
in the archive (`Remembered`). `StoreNeverLowers` needs the types only. Assumptions: natural
seconds and levels, finitely many threads, a hot cache of at least one node: with a
capacity of zero `_hot_promote` raises, out of `min()`.

`RoutesSound` (`RouteSpec => RoutesAreSound`, in `GatewayProofs`): what a walk over an
unchanged registry has passed over is no cloud model, and the candidates it has left are the
end of their tier (`WalksIn`, `LeftOf`); a cached answer expires at most a TTL after the
hosts would last have given it (`AnswersDated`). Assumptions (`RouteAssumption`): the tiers
and the router's list are sequences, and `openrouter` is no tier; the TTL is positive. The
proof showed that the provider also disagrees with the list when a visual intent falls to a
`Primary` that is no cloud model, which `ProviderFits` had not said.

`RulingsHold` (`ExecutorProofs`): the arbiter daemon and five monitors
together imply `RulingsAndReportsHold`. Of the arbiter (`ArbiterInv`, and by itself `ArbiterSound`): the ballots of a dispute are of
different agents, so that a quorum of ballots is one of agents (`Ruled`, `VoteIsRuled`), none
is dated after now, and each has its count of lines in the file. Of the InsAIts daemon (`InsAItsInv`): the detector's counter of an agent is the number
of failures that the log of events shows since the last success (`RowGrows`), and what is cut
off a full trail was counted (`PlacesJoin`, `PlacesCut`). Of the dashboard: accounts only
grow, and with them their sum (`SumGrows`). Of the outlier trap: of the recent events of a type
there are no more than its count, and then the arithmetic of the score does the rest
(`ScoreNeedsBurst`). Of the EGL monitor: the best and the samples of a cell follow the
records (`CellGrows`), and a sum of products i * c[i] over 1..n is at most n times the sum
(`SumScaled`), whence a Gini coefficient of at most (n - 1) / n (`GiniBounds`), in whatever
order the counts stand. Of the tool monitor: a copy that is not stale is the registry.
Assumptions: thresholds and sizes are naturals, the tier's budget is the largest, event types
are finitely many (`ArbiterAssumption`, `MonitorsAssumption`).

### 4.5 Induction

The library states induction with an operator as parameter, which no installed prover
instantiates. `InductionLemmas` therefore proves it for sets: a set of naturals that
holds 0 and every successor holds them all (`NatSetInduction`, from the pigeonhole facts
of the library). What is to be shown for all n becomes a set of the n for which it
holds. From it follow that a recursion over 0..n has a solution (`Recursion`), which is
what makes the recursive functions of `SpindleDag` usable, that the sum of a function
over a finite set exists and does not depend on the order (`Sum...`), and what appending,
joining and taking the tail do to the elements of a sequence (`Range...`), and that one more
element stands in one more place (`PlacesGrow`).

### 4.6 Only model-checked

* Liveness (`Answered`, `AcceptedIsHandled`, `EveryEntryDelivered`, `Terminates`,
  `ProgramEnds`, parts of `CanaryIsTruthful` and `ProcessesAreKept`): it needs fairness and
  ENABLED, out of the prover's reach.
* `VmRunsTheSource`: the compiler and the meaning of the source are RECURSIVE operators
  over trees of any depth.
* The gateways and classifiers in `RequestsAreRouted`, whose router `RoutesSound` covers.
  (`CascadesSettle` says how deep a cascade of the daemons goes and what holds once it has
  ended; that it ends is not stated as a property.)

## 5. Plan

1. Done: the intent path, Spindle, the transport, and every component named as modelled
   or partly modelled in `PROJECT.json`, with their runs; proofs for the gateway, the
   executor and their composition, Spindle, the transport, the interpreter's gas, the
   model registry, worktrees, credentials, the in-process buses, the
   dispatchers, the installers, the agents' tools, the daemons and stream agents, the
   two gates that stop agents, the two audit trails, the memories, the model router, the
   arbiter, the monitors, the plan executor, missions, HLF scopes and runtimes, and the crew.
2. Prove what section 4.6 leaves of the groups: gateways and classifiers.
3. Compose `Supervision` with `GatewayBus`, so that the Canary's probe meets the real
   handler, and `ModelRegistry` with `Routing`, if the states allow it.

## 6. Not modelled, and why

* The HLF compiler (`hlfc.py`), translator, linter, formatter, language server and test
  runner: a grammar and tree transformations without state; syntax trees are inputs.
* GUI (`gui/app.py`): presentation over the modelled modules.
* The ALIGN regular expressions and the AST validator: pure; verdicts are inputs.
* Scoring and parsing of model cards, similarity measures, text compression:
  floating-point functions of their input.
* Platform adapters of the native bridge, Discord, Z3, the z.AI tool functions: one call
  of a system each.
* Lockfile, ADR store, one-shot scripts: one process, one file, no second actor.
* Of the modelled components: `attach`, `detach`, stream trimming and equal consumer names
  of the transport; shadow commits and diffs of worktrees; deduplication and the
  dependency graph of the RAG memory; authentication towards registries; read-only
  endpoints of the gateway.
