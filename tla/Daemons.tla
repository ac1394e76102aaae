------------------------------ MODULE Daemons -------------------------------
(* agents/core/daemons: DaemonManager starts Sentinel, Scribe and Arbiter on a
   DaemonEventBus, and DaemonBridge joins that bus to the SpindleEventBus and keeps
   gas accounts.  Delivery is a call: an event's cascade runs depth first inside
   the call that emitted it, on the stack dgStack.  What the Sentinel finds in an
   event is an input; the Arbiter's votes are further down. *)
EXTENDS Naturals, Sequences, FiniteSets, SequencesExt

CONSTANTS BusAgents,    \* agents whose nodes complete
          GasBudget,    \* default_gas_budget
          ProseBudget,  \* the Scribe's token budget; prose costs 2, a summary 1
          MaxStarts,    \* bound on start_all
          MaxCalls      \* bound on the calls

Triad == {"sentinel", "scribe", "arbiter"}
\* The bridge puts "daemon:" before a daemon's name.
ASSUME DaemonsAssumption ==
  BusAgents \cap (Triad \cup {"bridge"}) = {} /\ GasBudget \in Nat /\ ProseBudget \in Nat

VARIABLES dgRunning,    \* the daemons that are RUNNING
          dgHandlers,   \* DaemonEventBus._handlers
          dgBridge,     \* the bridge's subscriptions on the Spindle bus
          dgGas,        \* _gas_accounts: total_gas
          dgScribe,     \* the Scribe's entries since its budget was reset, by kind
          dgDisputes,   \* disputes opened: the call whose alert each is about
          dgStack,      \* deliveries under way: an event and what is still to do for it
          dgLog,        \* history: what the last call put on the two buses
          dgCalls, dgReported  \* history: calls made, gas reported per agent
dgVars == <<dgRunning, dgHandlers, dgBridge, dgGas, dgScribe, dgDisputes, dgStack, dgLog, dgCalls, dgReported>>

Accounts == BusAgents \cup Triad \cup {"bridge"}
NoEntries == [kind \in {"prose", "summary"} |-> 0]
DaemonsInit ==
  /\ dgRunning = {} /\ dgHandlers = <<>> /\ dgBridge = 0
  /\ dgGas = [a \in Accounts |-> 0] /\ dgScribe = NoEntries /\ dgDisputes = <<>> /\ dgStack = <<>>
  /\ dgLog = {} /\ dgCalls = 0 /\ dgReported = [a \in BusAgents |-> 0]

Event(source, type) == [source |-> source, type |-> type, critical |-> FALSE, gas |-> 1]
Entry(bus, e) == [bus |-> bus, source |-> e.source, type |-> e.type]
Frame(e, todo) == [event |-> e, todo |-> todo]
\* DaemonEventBus.emit: the handlers in the order they subscribed.
Emit(e, stack, log) ==
  dgStack' = Append(stack, Frame(e, dgHandlers)) /\ dgLog' = log \cup {Entry("daemons", e)}
\* SpindleEventBus.publish: the bridge's wildcard subscriptions.
Publish(e, stack, log) ==
  /\ dgStack' = Append(stack, Frame(e, [i \in 1 .. 2 * dgBridge |-> IF i % 2 = 1 THEN "charge" ELSE "forward"]))
  /\ dgLog' = log \cup {Entry("spindle", e)}

-----------------------------------------------------------------------------
(* The cascade: the next thing to do for the innermost event. *)
Inner == Last(dgStack)
Doing(what) == dgStack # <<>> /\ Inner.todo # <<>> /\ Head(Inner.todo) = what
Rest(more) == Append(Front(dgStack), Frame(Inner.event, more \o Tail(Inner.todo)))
Same == UNCHANGED <<dgRunning, dgHandlers, dgBridge, dgCalls, dgReported>>

\* The delivery of an event returns.
Delivered ==
  /\ dgStack # <<>> /\ Inner.todo = <<>> /\ dgStack' = Front(dgStack)
  /\ Same /\ UNCHANGED <<dgGas, dgScribe, dgDisputes, dgLog>>

\* DaemonManager._route_daemon_event
RouteEvent ==
  /\ Doing("route")
  /\ dgStack' = Rest(IF Inner.event.source # "sentinel" \/ Inner.event.type # "alert" THEN <<>>
                     ELSE IF Inner.event.critical THEN <<"translate", "dispute">> ELSE <<"translate">>)
  /\ Same /\ UNCHANGED <<dgGas, dgScribe, dgDisputes, dgLog>>

Tokens(scribe) == 2 * scribe["prose"] + scribe["summary"]
Translated(scribe) == IF Tokens(scribe) + 2 > ProseBudget THEN "summary" ELSE "prose"
\* ScribeDaemon.translate
Translate ==
  /\ Doing("translate")
  /\ IF "scribe" \in dgRunning
     THEN /\ dgScribe' = [dgScribe EXCEPT ![Translated(dgScribe)] = @ + 1]
          /\ Emit(Event("scribe", "prose"), Rest(<<>>), dgLog)
     ELSE dgStack' = Rest(<<>>) /\ UNCHANGED <<dgScribe, dgLog>>
  /\ Same /\ UNCHANGED <<dgGas, dgDisputes>>

\* ArbiterDaemon.open_dispute
OpenDispute ==
  /\ Doing("dispute")
  /\ IF "arbiter" \in dgRunning
     THEN /\ dgDisputes' = Append(dgDisputes, dgCalls)
          /\ Emit(Event("arbiter", "dispute_opened"), Rest(<<>>), dgLog)
     ELSE dgStack' = Rest(<<>>) /\ UNCHANGED <<dgDisputes, dgLog>>
  /\ Same /\ UNCHANGED <<dgGas, dgScribe>>

\* _daemon_event_to_spindle: a type the table does not know becomes NODE_COMPLETED.
ToSpindle(type) ==
  CASE type = "alert" -> "VALIDATION_REJECTED" [] type = "gas_anomaly" -> "CONTEXT_INVALIDATED"
    [] OTHER -> "NODE_COMPLETED"
FromSpindle(type) == type = "spindle"
\* DaemonBridge._on_daemon_event
ToSpindleBus ==
  /\ Doing("bridge")
  /\ IF FromSpindle(Inner.event.type) THEN dgStack' = Rest(<<>>) /\ UNCHANGED dgLog
     ELSE Publish(Event(Inner.event.source, ToSpindle(Inner.event.type)), Rest(<<>>), dgLog)
  /\ Same /\ UNCHANGED <<dgGas, dgScribe, dgDisputes>>

OverBudget(total, gas) == total > GasBudget
\* DaemonBridge._on_spindle_event, _record_gas: a daemon's own chatter is charged
\* to the daemon.
RecordGas ==
  /\ Doing("charge")
  /\ LET e == Inner.event total == dgGas[e.source] + e.gas IN
     IF e.type = "NODE_COMPLETED"
     THEN /\ dgGas' = [dgGas EXCEPT ![e.source] = total]
          /\ IF OverBudget(total, e.gas)
             THEN Emit(Event("bridge", "gas_anomaly"), Rest(<<>>), dgLog)
             ELSE dgStack' = Rest(<<>>) /\ UNCHANGED dgLog
     ELSE dgStack' = Rest(<<>>) /\ UNCHANGED <<dgGas, dgLog>>
  /\ Same /\ UNCHANGED <<dgScribe, dgDisputes>>
\* ... then the event goes on to the daemon bus.
ToDaemonBus ==
  /\ Doing("forward") /\ Emit(Event(Inner.event.source, "spindle"), Rest(<<>>), dgLog)
  /\ Same /\ UNCHANGED <<dgGas, dgScribe, dgDisputes>>

Cascade == Delivered \/ RouteEvent \/ Translate \/ OpenDispute \/ ToSpindleBus \/ RecordGas \/ ToDaemonBus
-----------------------------------------------------------------------------
\* Mutant: start() subscribes again while the bridge is running.
BridgeResubscribes == dgBridge + 1
BridgeStarted == 1
Starts == Cardinality({i \in DOMAIN dgHandlers : dgHandlers[i] = "route"})
\* DaemonManager.start_all: _route_daemon_event is subscribed at every start, the
\* bridge only if it is not running.
StartAll ==
  /\ Starts < MaxStarts
  /\ dgRunning' = Triad
  /\ dgHandlers' = dgHandlers \o IF dgBridge = 0 THEN <<"route", "bridge">> ELSE <<"route">>
  /\ dgBridge' = BridgeStarted
  /\ dgLog' = {} /\ UNCHANGED <<dgGas, dgScribe, dgDisputes, dgStack, dgReported>>

\* DaemonManager.stop_all: the bridge unsubscribes, the manager's handlers stay.
StopAll ==
  /\ dgRunning' = {} /\ dgBridge' = 0
  /\ dgHandlers' = [i \in 1..Starts |-> "route"]
  /\ dgLog' = {} /\ UNCHANGED <<dgGas, dgScribe, dgDisputes, dgStack, dgReported>>

\* SentinelDaemon.check finds an anomaly.
SentinelCheck(critical) ==
  /\ "sentinel" \in dgRunning
  /\ Emit([Event("sentinel", "alert") EXCEPT !.critical = critical], <<>>, {})
  /\ UNCHANGED <<dgRunning, dgHandlers, dgBridge, dgGas, dgScribe, dgDisputes, dgReported>>

\* The Spindle executor publishes NODE_COMPLETED of an agent.
NodeCompleted(a, gas) ==
  /\ Publish([Event(a, "NODE_COMPLETED") EXCEPT !.gas = gas], <<>>, {})
  /\ dgReported' = [dgReported EXCEPT ![a] = @ + IF dgBridge > 0 THEN gas ELSE 0]
  /\ UNCHANGED <<dgRunning, dgHandlers, dgBridge, dgGas, dgScribe, dgDisputes>>

\* ScribeDaemon.reset_budget
ResetBudget ==
  /\ dgScribe' = NoEntries /\ dgLog' = {}
  /\ UNCHANGED <<dgRunning, dgHandlers, dgBridge, dgGas, dgDisputes, dgStack, dgReported>>

DaemonsNext ==
  \/ Cascade
  \/ /\ dgStack = <<>> /\ dgCalls < MaxCalls /\ dgCalls' = dgCalls + 1
     /\ \/ StartAll \/ StopAll \/ ResetBudget
        \/ \E critical \in BOOLEAN : SentinelCheck(critical)
        \/ \E a \in BusAgents, gas \in 1..2 : NodeCompleted(a, gas)
DaemonsSpec == DaemonsInit /\ [][DaemonsNext]_dgVars

-----------------------------------------------------------------------------
Quiet == dgStack = <<>>
OnBus(bus, source, type) == [bus |-> bus, source |-> source, type |-> type] \in dgLog

\* An agent is charged once for what it reported while the bridge ran, however
\* often the manager was started, and none of the events the cascade bounces
\* between the two buses is charged to it.
AgentsPayOnce == Quiet => \A a \in BusAgents : dgGas[a] = dgReported[a]

\* An agent that stays over its budget is warned about at every node it completes,
\* not only when it crosses the line; the warning reaches the Spindle bus as well.
WarnedEveryTime ==
  Quiet /\ dgBridge > 0 =>
    \A a \in BusAgents :
      OnBus("spindle", a, "NODE_COMPLETED") /\ dgGas[a] > GasBudget =>
        OnBus("daemons", "bridge", "gas_anomaly") /\ OnBus("spindle", "bridge", "CONTEXT_INVALIDATED")

\* Past its token budget the Scribe only writes summaries: the overrun is at most
\* one token per summary.
OverrunIsSummaries ==
  Tokens(dgScribe) > ProseBudget =>
    Tokens(dgScribe) - ProseBudget <= dgScribe["summary"]

\* The bounce between the buses dies out: the longest chain is an alert, its prose,
\* the node event of the prose, the warning its charge raises, that warning on the
\* Spindle bus, and its way back.
CascadeIsShallow == Len(dgStack) <= 6

\* The two buses joined by the bridge settle, with the accounts right.
CascadesSettle == AgentsPayOnce /\ WarnedEveryTime /\ OverrunIsSummaries /\ CascadeIsShallow

-----------------------------------------------------------------------------
(* ArbiterDaemon (agents/core/daemons/arbiter.py): disputes that agents vote on,
   that a poll times out and a shutdown escalates, and the log of rulings. *)
CONSTANTS Voters, ArbiterQuorum,
          EscalationTimeout,  \* _escalation_timeout_ms, in ticks
          MaxDisputes, MaxArbiterTime, MaxStops   \* bounds

ASSUME ArbiterAssumption == EscalationTimeout \in Nat

VARIABLES arNow, arUp,    \* the clock; is the daemon RUNNING
          arDisputes,     \* all records: rule, time, votes, outcome
          arRulings,      \* history: how often the log file holds each dispute
          arStops, arPolled  \* history: stops, and the time of the last poll
arVars == <<arNow, arUp, arDisputes, arRulings, arStops, arPolled>>

ArbiterInit == /\ arNow = 0 /\ arUp = FALSE /\ arDisputes = <<>> /\ arRulings = <<>>
               /\ arStops = 0 /\ arPolled = 0

Active == {i \in DOMAIN arDisputes : arDisputes[i].outcome = "open"}

\* start
ArbiterStart == arUp' = TRUE /\ UNCHANGED <<arNow, arDisputes, arRulings, arStops, arPolled>>

\* open_dispute
RecordDispute(rule) ==
  /\ arUp /\ Len(arDisputes) < MaxDisputes
  /\ arDisputes' = Append(arDisputes, [rule |-> rule, at |-> arNow, votes |-> <<>>, outcome |-> "open"])
  /\ arRulings' = Append(arRulings, 0)
  /\ UNCHANGED <<arNow, arUp, arStops, arPolled>>

For(votes, position) == Len(SelectSeq(votes, LAMBDA v : v.position = position))
Majority(votes) == For(votes, "approve") > For(votes, "deny")
\* _resolve: an immutable rule is upheld whatever the votes say.
Ruling(rule, votes) == IF rule # "immutable" /\ Majority(votes) THEN "approved" ELSE "denied"

Voted(votes, agent) == \E j \in DOMAIN votes : votes[j].agent = agent
\* cast_vote: any agent, a party or not, until the quorum; not if the age is past
\* the timeout, but if a poll has found so.
CastVote(i, agent, position) ==
  LET votes == Append(arDisputes[i].votes, [agent |-> agent, position |-> position]) IN
  /\ i \in Active /\ ~Voted(arDisputes[i].votes, agent)
  /\ arDisputes' = [arDisputes EXCEPT ![i].votes = votes,
       ![i].outcome = IF Len(votes) >= ArbiterQuorum THEN Ruling(arDisputes[i].rule, votes) ELSE "open"]
  /\ UNCHANGED <<arNow, arUp, arRulings, arStops, arPolled>>

Expired == {i \in Active : arNow - arDisputes[i].at > EscalationTimeout}
Escalated(which, outcome) ==
  [i \in DOMAIN arDisputes |->
     IF i \in which THEN [arDisputes[i] EXCEPT !.outcome = outcome] ELSE arDisputes[i]]
\* check_timeouts: whoever owns the daemon has to call it.
CheckTimeouts ==
  /\ arDisputes' = Escalated(Expired, "timed_out") /\ arPolled' = arNow
  /\ UNCHANGED <<arNow, arUp, arRulings, arStops>>

\* Mutant: the rulings are written before the open disputes are escalated.
FlushedFirst == DOMAIN arDisputes \ Active
Flushed == DOMAIN arDisputes
\* stop: escalates what is open, then appends every resolved dispute to the file,
\* those of an earlier stop again; the write may fail, which is only logged.
ArbiterStop(writes) ==
  /\ arStops < MaxStops /\ arStops' = arStops + 1 /\ arUp' = FALSE
  /\ arDisputes' = Escalated(Active, "escalated")
  /\ arRulings' = [i \in DOMAIN arRulings |-> arRulings[i] + IF writes /\ i \in Flushed THEN 1 ELSE 0]
  /\ UNCHANGED <<arNow, arPolled>>

ArbiterTick == /\ arNow < MaxArbiterTime /\ arNow' = arNow + 1
               /\ UNCHANGED <<arUp, arDisputes, arRulings, arStops, arPolled>>

ArbiterNext ==
  \/ ArbiterStart \/ CheckTimeouts \/ ArbiterTick
  \/ \E rule \in {"immutable", "ordinary"} : RecordDispute(rule)
  \/ \E i \in DOMAIN arDisputes, a \in Voters, p \in {"approve", "deny"} : CastVote(i, a, p)
  \/ \E writes \in BOOLEAN : ArbiterStop(writes)

ArbiterSpec == ArbiterInit /\ [][ArbiterNext]_arVars

-----------------------------------------------------------------------------
\* An ordinary rule is overridden only by a quorum of different agents with more of
\* them for it than against it; an immutable rule never is.
OverrideNeedsMajority ==
  \A d \in {arDisputes[i] : i \in DOMAIN arDisputes} :
    d.outcome = "approved" =>
      /\ d.rule = "ordinary"
      /\ Cardinality({d.votes[j].agent : j \in DOMAIN d.votes}) >= ArbiterQuorum
      /\ For(d.votes, "approve") > For(d.votes, "deny")

\* A dispute is open past its timeout only if nobody has polled since it ran out,
\* and none stays open once the daemon was stopped.
OverdueOnlyUnpolled ==
  /\ \A i \in Expired : arPolled - arDisputes[i].at <= EscalationTimeout
  /\ ~arUp => Active = {}

\* A stop whose write succeeds leaves no dispute out of the rulings log.
StopLosesNoRuling ==
  [][arStops' > arStops /\ arRulings' # arRulings =>
       \A i \in DOMAIN arDisputes' : arDisputes'[i].outcome # "open" /\ arRulings'[i] > 0]_arVars

\* Rulings are those of the agents, and none gets lost (_resolve, check_timeouts, stop).
ArbiterIsSound == [](OverrideNeedsMajority /\ OverdueOnlyUnpolled) /\ StopLosesNoRuling

-----------------------------------------------------------------------------
(* The triad of stream agents: sentinel_agent scans sentinel_events, scribe_agent
   audits the token budget on scribe_events, both alert on arbiter_events, and
   arbiter_agent adjudicates those (agents/core/*_agent.py). Each is a thread of its
   process with a consumer group of its own, started and stopped by one caller; all
   three pay from one gas bucket. An entry is read once: nobody claims pending ones.
   Pattern lists and texts are left out but for what they match and whether an alert's
   preview, the first 120 characters, still shows it. *)
CONSTANTS StreamGas,      \* the bucket's capacity
          MaxEvents,      \* bound on the entries added from outside
          MaxAgentStarts,      \* bound on the calls of start()
          MaxFaults       \* bound on the exceptions, Redis failures and crashes

StreamAgentIds == {"sentinel", "scribe", "arbiter"}
\* SCAN_GAS_COST, AUDIT_GAS_COST, ADJUDICATE_GAS_COST
AgentCost(a) == IF a = "arbiter" THEN 2 ELSE 1

ASSUME StreamGasAssumption == StreamGas \in Nat

VARIABLES saStream,   \* per agent: its stream
          saRead,     \* per agent: entries its group has delivered
          saThread,   \* per agent: its thread: at, and the entry it handles
          saStop,     \* per agent: _stop_event
          saCaller,   \* per agent: "idle" or "joining", and the last call that returned
          saGas, saStarts, saFaults,
          saAcked,    \* per agent: entries acknowledged
          saVerdicts, \* the arbiter's verdicts, as <<entry, verdict>>
          saDropped,  \* history: <<agent, entry>> acknowledged without its work: no gas, an
                      \* exception, or an alert that could not be published
          saLeft,     \* history: <<agent, entry>> never acknowledged: xack failed, a crash
          saUnheard   \* history: agents started while a stopped thread was still winding down
saVars == <<saStream, saRead, saThread, saStop, saCaller, saGas, saStarts, saFaults,
            saAcked, saVerdicts, saDropped, saLeft, saUnheard>>

Gone == [at |-> "none", entry |-> 0, alert |-> ""]
TriadInit ==
  /\ saStream = [a \in StreamAgentIds |-> <<>>] /\ saRead = [a \in StreamAgentIds |-> 0]
  /\ saThread = [a \in StreamAgentIds |-> Gone] /\ saStop = [a \in StreamAgentIds |-> FALSE]
  /\ saCaller = [a \in StreamAgentIds |-> [at |-> "idle", last |-> "none"]]
  /\ saGas = StreamGas /\ saStarts = 0 /\ saFaults = 0
  /\ saAcked = [a \in StreamAgentIds |-> {}] /\ saVerdicts = {}
  /\ saDropped = {} /\ saLeft = {} /\ saUnheard = {}

Thread(a) == saThread[a]
ThreadIs(a, t) == saThread' = [saThread EXCEPT ![a] = t]
GoesTo(a, at) == ThreadIs(a, [Thread(a) EXCEPT !.at = at])
Held(a) == saStream[a][Thread(a).entry]
Fault == saFaults < MaxFaults /\ saFaults' = saFaults + 1

-----------------------------------------------------------------------------
\* start(): nothing while the thread is alive, even one that has been told to stop.
StartAgent(a) ==
  /\ saCaller[a].at = "idle" /\ saStarts < MaxAgentStarts /\ saStarts' = saStarts + 1
  /\ saCaller' = [saCaller EXCEPT ![a].last = "start"]
  /\ IF Thread(a).at = "none"
     THEN /\ ThreadIs(a, [Gone EXCEPT !.at = "loop"]) /\ saStop' = [saStop EXCEPT ![a] = FALSE]
          /\ saUnheard' = saUnheard \ {a}
     ELSE /\ saUnheard' = IF saStop[a] THEN saUnheard \cup {a} ELSE saUnheard
          /\ UNCHANGED <<saThread, saStop>>
  /\ UNCHANGED <<saStream, saRead, saGas, saFaults, saAcked, saVerdicts, saDropped, saLeft>>

\* stop(): join() waits for the thread, ten seconds at most.
StopAgent(a) ==
  /\ saCaller[a] = [at |-> "idle", last |-> "start"]
  /\ saStop' = [saStop EXCEPT ![a] = TRUE] /\ saCaller' = [saCaller EXCEPT ![a].at = "joining"]
  /\ UNCHANGED <<saStream, saRead, saThread, saGas, saStarts, saFaults, saAcked, saVerdicts, saDropped, saLeft, saUnheard>>
AgentStopped(a) ==
  /\ saCaller[a].at = "joining" /\ saCaller' = [saCaller EXCEPT ![a] = [at |-> "idle", last |-> "stop"]]
  /\ UNCHANGED <<saStream, saRead, saThread, saStop, saGas, saStarts, saFaults, saAcked, saVerdicts, saDropped, saLeft, saUnheard>>

\* _consume_loop: the head of the loop, then a blocking read, which may fail.
LoopHead(a) ==
  /\ Thread(a).at = "loop"
  /\ ThreadIs(a, IF saStop[a] THEN Gone ELSE [Gone EXCEPT !.at = "reading"])
  /\ UNCHANGED <<saStream, saRead, saStop, saCaller, saGas, saStarts, saFaults, saAcked, saVerdicts, saDropped, saLeft, saUnheard>>
ReadEntry(a) ==
  /\ Thread(a).at = "reading"
  /\ \/ /\ saRead[a] < Len(saStream[a]) /\ saRead' = [saRead EXCEPT ![a] = @ + 1]
        /\ ThreadIs(a, [Gone EXCEPT !.at = "entry", !.entry = saRead'[a]])
     \/ GoesTo(a, "loop") /\ UNCHANGED saRead
  /\ UNCHANGED <<saStream, saStop, saCaller, saGas, saStarts, saFaults, saAcked, saVerdicts, saDropped, saLeft, saUnheard>>

\* No gas, or an exception before the work is done: the entry is acknowledged all the same.
Skip(a) ==
  /\ Thread(a).at = "entry"
  /\ \/ saGas < AgentCost(a) /\ UNCHANGED saFaults
     \/ Fault
  /\ GoesTo(a, "ack") /\ saDropped' = saDropped \cup {<<a, Thread(a).entry>>}
  /\ UNCHANGED <<saStream, saRead, saStop, saCaller, saGas, saStarts, saAcked, saVerdicts, saLeft, saUnheard>>

\* scan_payload: ALIGN first, then the list of privilege escalations.
Severity(p) == IF p.align # "no" THEN "HIGH" ELSE IF p.privesc THEN "CRITICAL" ELSE ""
\* audit_budget and BUDGET_GATE_PCT: from 80 %; a database that cannot be read is empty.
BudgetGated(pct) == pct >= 80
\* adjudicate: ALIGN on the event's text, which has the preview; then by type.
Adjudicate(e) ==
  CASE e.shown -> "QUARANTINE"
    [] ~e.shown /\ e.type = "SECURITY_ALERT" -> IF e.severity = "CRITICAL" THEN "QUARANTINE" ELSE "ESCALATE"
    [] ~e.shown /\ e.type = "BUDGET_GATE" ->
         IF e.pct >= 98 THEN "QUARANTINE" ELSE IF e.pct >= 90 THEN "ESCALATE" ELSE "ALLOW"
    [] OTHER -> "ESCALATE"

Pays(a) ==
  /\ Thread(a).at = "entry" /\ saGas >= AgentCost(a) /\ saGas' = saGas - AgentCost(a)
  /\ UNCHANGED <<saStream, saRead, saStop, saCaller, saStarts, saFaults, saAcked, saDropped, saLeft, saUnheard>>
Scan ==
  /\ Pays("sentinel") /\ UNCHANGED saVerdicts
  /\ GoesTo("sentinel", IF Severity(Held("sentinel")) # "" THEN "alert" ELSE "ack")
Audit ==
  /\ Pays("scribe") /\ UNCHANGED saVerdicts
  /\ GoesTo("scribe", IF BudgetGated(Held("scribe").pct) THEN "alert" ELSE "ack")
Judge ==
  /\ Pays("arbiter") /\ GoesTo("arbiter", "ack")
  /\ saVerdicts' = saVerdicts \cup {<<Thread("arbiter").entry, Adjudicate(Held("arbiter"))>>}

\* _publish_alert, _publish_budget_alert: a failure is only logged.
AlertOf(a) ==
  LET e == Held(a) IN
  IF a = "sentinel"
  THEN [type |-> "SECURITY_ALERT", severity |-> Severity(e), shown |-> e.align = "shown", pct |-> 0,
        from |-> <<a, Thread(a).entry>>]
  ELSE [type |-> "BUDGET_GATE", severity |-> "", shown |-> FALSE, pct |-> e.pct, from |-> <<a, Thread(a).entry>>]
PublishAlert(a) ==
  /\ Thread(a).at = "alert" /\ GoesTo(a, "ack")
  /\ \/ saStream' = [saStream EXCEPT !["arbiter"] = Append(@, AlertOf(a))] /\ UNCHANGED <<saDropped, saFaults>>
     \/ Fault /\ saDropped' = saDropped \cup {<<a, Thread(a).entry>>} /\ UNCHANGED saStream
  /\ UNCHANGED <<saRead, saStop, saCaller, saGas, saStarts, saAcked, saVerdicts, saLeft, saUnheard>>

\* finally: xack, and back to the head of the loop even when that fails.
AckEntry(a) ==
  /\ Thread(a).at = "ack" /\ ThreadIs(a, [Gone EXCEPT !.at = "loop"])
  /\ \/ saAcked' = [saAcked EXCEPT ![a] = @ \cup {Thread(a).entry}] /\ UNCHANGED <<saLeft, saFaults>>
     \/ Fault /\ saLeft' = saLeft \cup {<<a, Thread(a).entry>>} /\ UNCHANGED saAcked
  /\ UNCHANGED <<saStream, saRead, saStop, saCaller, saGas, saStarts, saVerdicts, saDropped, saUnheard>>

\* The process dies, and with it the thread and the module's globals.
AgentCrash(a) ==
  /\ Thread(a).at # "none" /\ Fault
  /\ ThreadIs(a, Gone) /\ saStop' = [saStop EXCEPT ![a] = FALSE]
  /\ saCaller' = [saCaller EXCEPT ![a] = [at |-> "idle", last |-> "none"]]
  /\ saLeft' = IF Thread(a).entry = 0 THEN saLeft ELSE saLeft \cup {<<a, Thread(a).entry>>}
  /\ saUnheard' = saUnheard \ {a}
  /\ UNCHANGED <<saStream, saRead, saGas, saStarts, saAcked, saVerdicts, saDropped>>

\* Other services append payloads and audit requests, and replenish_gas fills the bucket.
Payload == [align : {"no", "shown", "hidden"}, privesc : BOOLEAN]
EventArrives(a, e) ==
  /\ Len(saStream["sentinel"]) + Len(saStream["scribe"]) < MaxEvents
  /\ saStream' = [saStream EXCEPT ![a] = Append(@, e)]
  /\ UNCHANGED <<saRead, saThread, saStop, saCaller, saGas, saStarts, saFaults, saAcked, saVerdicts, saDropped, saLeft, saUnheard>>
RefillGas ==
  /\ saGas < StreamGas /\ saGas' = StreamGas
  /\ UNCHANGED <<saStream, saRead, saThread, saStop, saCaller, saStarts, saFaults, saAcked, saVerdicts, saDropped, saLeft, saUnheard>>

TriadNext ==
  \/ \E a \in StreamAgentIds :
       \/ StartAgent(a) \/ StopAgent(a) \/ AgentStopped(a) \/ LoopHead(a) \/ ReadEntry(a)
       \/ Skip(a) \/ PublishAlert(a) \/ AckEntry(a) \/ AgentCrash(a)
  \/ Scan \/ Audit \/ Judge \/ RefillGas
  \/ \E p \in Payload : EventArrives("sentinel", p)
  \/ \E pct \in {79, 80, 90, 98} : EventArrives("scribe", [pct |-> pct])
TriadSpec == TriadInit /\ [][TriadNext]_saVars

-----------------------------------------------------------------------------
Risky(a, e) == IF a = "sentinel" THEN Severity(e) # "" ELSE BudgetGated(e.pct)
Alerts(a, i) == {n \in DOMAIN saStream["arbiter"] : saStream["arbiter"][n].from = <<a, i>>}
VerdictsOn(n) == {v \in saVerdicts : v[1] = n}

\* What was acknowledged and called for an alert has exactly one on arbiter_events, or was
\* dropped on the way; an event acknowledged by the arbiter has exactly one verdict likewise.
AlertsAreDelivered ==
  /\ \A a \in {"sentinel", "scribe"} : \A i \in saAcked[a] :
       Risky(a, saStream[a][i]) /\ <<a, i>> \notin saDropped => Cardinality(Alerts(a, i)) = 1
  /\ \A n \in saAcked["arbiter"] : <<"arbiter", n>> \notin saDropped => Cardinality(VerdictsOn(n)) = 1

\* A payload that escalates privileges is quarantined, unless ALIGN also matches it beyond
\* the preview; no alert of the sentinel is allowed; one verdict an event.
VerdictsFitThePayload ==
  /\ \A v \in saVerdicts :
       LET e == saStream["arbiter"][v[1]] p == saStream[e.from[1]][e.from[2]] IN
       e.type = "SECURITY_ALERT" =>
         /\ v[2] # "ALLOW"
         /\ v[2] = "ESCALATE" => p.align = "hidden"
  /\ \A v, w \in saVerdicts : v[1] = w[1] => v = w

\* An entry delivered and not acknowledged is in the hands of its agent's thread, or its
\* acknowledgement failed or its process died: nobody reads it again.
PendingIsExplained ==
  \A a \in StreamAgentIds : \A i \in 1..saRead[a] :
    i \in saAcked[a] \/ Thread(a).entry = i \/ <<a, i>> \in saLeft

\* After start() the agent runs until it is told to stop, unless start() found a thread
\* that an earlier stop() had not waited out.
StartedAgentRuns ==
  \A a \in StreamAgentIds :
    saCaller[a] = [at |-> "idle", last |-> "start"] /\ a \notin saUnheard => Thread(a).at # "none" /\ ~saStop[a]

TriadIsSound == AlertsAreDelivered /\ VerdictsFitThePayload /\ PendingIsExplained /\ StartedAgentRuns

\* The daemons' cascades of events come to rest without a storm, and the stream agents'
\* alerts reach a verdict that fits, once, or were dropped for a reason one can name
\* (DaemonEventBridge, sentinel_agent, scribe_agent, arbiter_agent).
AlertsSettle == CascadesSettle /\ TriadIsSound
=============================================================================
