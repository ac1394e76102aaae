----------------------------- MODULE Supervision -----------------------------
(* The Canary agent (agents/core/canary_agent.py): the thread that sends a
   synthetic intent to the gateway every CANARY_PROBE_INTERVAL seconds, counts
   the failures in a row, raises health flags with a time to live in Redis, and
   is started and stopped by its host process.

   The gateway answers 503 while health:gateway:failed exists (CheckHealth of
   GatewayBus), which the Canary counts as one more failure: the flag feeds on
   itself unless it expires before the next probe. One tick is 300 s. *)
EXTENDS Naturals, FiniteSets, FiniteSetsExt

CONSTANTS ProbeInterval,   \* ticks between two probes (900 s)
          FailedTtl,       \* time to live of health:gateway:failed (600 s)
          DeadTtl,         \* time to live of health:gateway:dead (1800 s)
          WindowSize       \* probes the health window remembers (20)

CriticalThreshold == 3
DeadManThreshold == 5

ASSUME CanaryAssumption ==
  /\ {ProbeInterval, FailedTtl, DeadTtl} \subseteq Nat \ {0}
  /\ WindowSize \in Nat /\ WindowSize >= DeadManThreshold

VARIABLES cnThread,    \* "off", "waiting" (on the stop event) or "probing"
          cnStop,      \* the stop event
          cnCaller,    \* the host process: "idle" or "joining" the thread in stop()
          cnSince,     \* ticks since last_probe
          cnStreak,    \* failures in a row, as the window counts them
          cnFailed,    \* time left to health:gateway:failed, 0 when absent
          cnDead,      \* time left to health:gateway:dead
          cnUp,        \* the gateway would answer 202 but for the flag
          cnRedis,     \* Redis is reachable
          cnWanted,    \* history: the last call was start()
          cnTimedOut   \* history: the last stop() gave up its join
cnVars == <<cnThread, cnStop, cnCaller, cnSince, cnStreak, cnFailed, cnDead,
            cnUp, cnRedis, cnWanted, cnTimedOut>>
cnHost == <<cnStop, cnCaller, cnWanted, cnTimedOut>>
cnEnv == <<cnUp, cnRedis>>

LOCAL Least(a, b) == IF a < b THEN a ELSE b
LOCAL Less1(n) == IF n = 0 THEN 0 ELSE n - 1

CanaryInit ==
  /\ cnThread = "off" /\ cnStop = FALSE /\ cnCaller = "idle"
  /\ cnSince = ProbeInterval /\ cnStreak = 0 /\ cnFailed = 0 /\ cnDead = 0
  /\ cnUp = TRUE /\ cnRedis = TRUE /\ cnWanted = FALSE /\ cnTimedOut = FALSE

Alive == cnThread # "off"
Due == cnSince >= ProbeInterval

\* start(): nothing happens while the old thread is alive; a new thread probes at once.
StartCanary ==
  /\ cnCaller = "idle"
  /\ cnWanted' = TRUE
  /\ IF Alive THEN UNCHANGED <<cnStop, cnThread, cnSince>>
     ELSE cnStop' = FALSE /\ cnThread' = "waiting" /\ cnSince' = ProbeInterval
  /\ UNCHANGED <<cnCaller, cnStreak, cnFailed, cnDead, cnTimedOut, cnEnv>>

\* stop(): sets the event, then joins the thread for at most 10 s ...
StopCanary ==
  /\ cnCaller = "idle"
  /\ cnStop' = TRUE /\ cnCaller' = "joining" /\ cnWanted' = FALSE /\ cnTimedOut' = FALSE
  /\ UNCHANGED <<cnThread, cnSince, cnStreak, cnFailed, cnDead, cnEnv>>

\* ... which a probe in flight (time-out 15 s) can outlast.
StopReturns ==
  /\ cnCaller = "joining" /\ cnThread # "waiting"
  /\ cnCaller' = "idle" /\ cnTimedOut' = Alive
  /\ UNCHANGED <<cnThread, cnStop, cnSince, cnStreak, cnFailed, cnDead, cnWanted, cnEnv>>

\* The head of _canary_loop: leave on the stop event, or probe when it is time.
LeaveLoop ==
  /\ cnThread = "waiting" /\ cnStop
  /\ cnThread' = "off"
  /\ UNCHANGED <<cnSince, cnStreak, cnFailed, cnDead, cnEnv, cnHost>>

BeginProbe ==
  /\ cnThread = "waiting" /\ ~cnStop /\ Due
  /\ cnThread' = "probing"
  /\ UNCHANGED <<cnSince, cnStreak, cnFailed, cnDead, cnEnv, cnHost>>

\* Mutant: the critical branch comes first.
FailedWhenDead(n) ==
  IF n >= CriticalThreshold /\ cnRedis
  THEN IF n >= DeadManThreshold THEN DeadTtl ELSE FailedTtl ELSE cnFailed

\* _escalate_on_failures: the flags that the n-th failure in a row sets. A write
\* that Redis refuses is lost silently (_set_redis_health_flag).
EscalatedFailed(n) ==
  IF n >= CriticalThreshold /\ n < DeadManThreshold /\ cnRedis THEN FailedTtl ELSE cnFailed
EscalatedDead(n) == IF n >= DeadManThreshold /\ cnRedis THEN DeadTtl ELSE cnDead

ProbeOk ==
  /\ cnThread = "probing" /\ cnUp /\ cnRedis /\ cnFailed = 0
  /\ cnThread' = "waiting" /\ cnSince' = 0 /\ cnStreak' = 0
  /\ UNCHANGED <<cnFailed, cnDead, cnEnv, cnHost>>

ProbeFails ==
  /\ cnThread = "probing" /\ ~(cnUp /\ cnRedis /\ cnFailed = 0)
  /\ cnThread' = "waiting" /\ cnSince' = 0
  /\ cnStreak' = Least(cnStreak + 1, WindowSize)
  /\ cnFailed' = EscalatedFailed(cnStreak') /\ cnDead' = EscalatedDead(cnStreak')
  /\ UNCHANGED <<cnEnv, cnHost>>

\* Time passes between the probes, which are short beside a tick.
CanaryTick ==
  /\ cnThread = "off" \/ (cnThread = "waiting" /\ ~cnStop /\ ~Due)
  /\ cnSince' = Least(cnSince + 1, ProbeInterval)
  /\ cnFailed' = Less1(cnFailed) /\ cnDead' = Less1(cnDead)
  /\ UNCHANGED <<cnThread, cnStreak, cnEnv, cnHost>>

\* The gateway or Redis goes down or comes back.
CanaryWorld ==
  /\ \/ cnUp' = ~cnUp /\ UNCHANGED cnRedis
     \/ cnRedis' = ~cnRedis /\ UNCHANGED cnUp
  /\ UNCHANGED <<cnThread, cnSince, cnStreak, cnFailed, cnDead, cnHost>>

CanaryLoop == LeaveLoop \/ BeginProbe \/ ProbeOk \/ ProbeFails
CanaryNext == StartCanary \/ StopCanary \/ StopReturns \/ CanaryLoop \/ CanaryTick \/ CanaryWorld

-----------------------------------------------------------------------------
\* While health:gateway:failed exists no probe can have succeeded since it was
\* set: the flag always stands for a streak that is still running
\* (_escalate_on_failures, is_gateway_healthy).
FailedFlagExplained == cnFailed > 0 => cnStreak >= CriticalThreshold

\* A start() is lost, leaving no thread that will go on probing, only when the
\* stop() before it had given up its join (start, stop).
StartLostOnlyAfterTimeout == cnWanted /\ (~Alive \/ cnStop) => cnTimedOut

Running == Alive /\ ~cnStop
\* When the gateway works again and stays so, the Canary's own flag does not keep
\* it closed for ever: the streak ends and no flag comes back.
GatewayReopens == <>[](cnUp /\ cnRedis /\ Running) => <>[](cnStreak = 0 /\ cnFailed = 0)

\* An outage that lasts is signalled: the dead man's flag is set and renewed
\* before it expires, however many probes the window remembers.
OutageIsSignalled == <>[](~cnUp /\ cnRedis /\ Running) => <>[](cnDead > 0)

\* What the gateway and the operators may conclude from the Canary's two flags, and
\* from having started it (start, stop, _escalate_on_failures).
CanaryIsTruthful ==
  [](FailedFlagExplained /\ StartLostOnlyAfterTimeout) /\ GatewayReopens /\ OutageIsSignalled

-----------------------------------------------------------------------------
(* GatewayDaemon (agents/core/gateway_daemon.py): callers (the tray, the GUI)
   start, stop and restart the uvicorn process of the model gateway; each start
   leaves a thread that waits for the process of that start to exit. Every read
   or write of DaemonState holds its lock, and nothing holds it for longer. *)
CONSTANTS DaemonCallers,  \* threads that call the daemon
          MaxSpawns       \* bound on the processes started

VARIABLES gdRunning, gdPid,  \* DaemonState._running and _pid (0 for None)
          gdProcess,         \* self._process (0 for None)
          gdOs,              \* per process started so far: "up" or "down"
          gdCaller,          \* per caller: where it is, and the process it works on
          gdMonitor,         \* the monitor threads: [of, at]
          gdLate,            \* history: a monitor wrote after a later start
          gdTwice            \* history: two calls were in start() or stop() at once
gdVars == <<gdRunning, gdPid, gdProcess, gdOs, gdCaller, gdMonitor, gdLate, gdTwice>>

Away == [at |-> "away", proc |-> 0, again |-> FALSE]
GdInit ==
  /\ gdRunning = FALSE /\ gdPid = 0 /\ gdProcess = 0 /\ gdOs = <<>>
  /\ gdCaller = [c \in DaemonCallers |-> Away] /\ gdMonitor = {} /\ gdLate = FALSE /\ gdTwice = FALSE

Procs == DOMAIN gdOs
Up(p) == p \in Procs /\ gdOs[p] = "up"
Moves(c, place) == gdCaller' = [gdCaller EXCEPT ![c].at = place]
Leaves(c) == gdCaller' = [gdCaller EXCEPT ![c] = Away]
Busy == \E c \in DaemonCallers : gdCaller[c].at # "away"
State == <<gdRunning, gdPid>>
Calls == gdTwice' = (gdTwice \/ Busy)

\* start(): refused while the state says running ...
StartRefused(c) ==
  /\ gdCaller[c].at \in {"away", "starting"} /\ gdRunning
  /\ (gdCaller[c].at = "away" => Calls) /\ (gdCaller[c].at # "away" => UNCHANGED gdTwice)
  /\ Leaves(c)
  /\ UNCHANGED <<State, gdProcess, gdOs, gdMonitor, gdLate>>
StartCalled(c) ==
  /\ gdCaller[c].at = "away" /\ ~gdRunning /\ Calls /\ Moves(c, "spawn")
  /\ UNCHANGED <<State, gdProcess, gdOs, gdMonitor, gdLate>>
RestartGoesOn(c) ==
  /\ gdCaller[c].at = "starting" /\ ~gdRunning /\ Moves(c, "spawn")
  /\ UNCHANGED <<State, gdProcess, gdOs, gdMonitor, gdLate, gdTwice>>
\* ... else the process is spawned, or Popen fails,
Spawn(c) ==
  /\ gdCaller[c].at = "spawn"
  /\ \/ /\ Cardinality(Procs) < MaxSpawns
        /\ LET p == Cardinality(Procs) + 1
           IN /\ gdOs' = [q \in Procs \cup {p} |-> IF q = p THEN "up" ELSE gdOs[q]]
              /\ gdProcess' = p /\ gdCaller' = [gdCaller EXCEPT ![c] = [@ EXCEPT !.at = "record", !.proc = p]]
     \/ Leaves(c) /\ UNCHANGED <<gdOs, gdProcess>>
  /\ UNCHANGED <<gdRunning, gdPid, gdMonitor, gdLate, gdTwice>>
\* and the state is set from the current process, and the monitor started. Without
\* one (a stop() came between) only "running" is set before the error.
Record(c) ==
  /\ gdCaller[c].at = "record" /\ Leaves(c)
  /\ gdRunning' = TRUE /\ gdPid' = (IF gdProcess = 0 THEN gdPid ELSE gdProcess)
  /\ gdMonitor' = IF gdProcess = 0 THEN gdMonitor ELSE gdMonitor \cup {[of |-> 0, at |-> "begin"]}
  /\ UNCHANGED <<gdProcess, gdOs, gdLate, gdTwice>>
MonitorBegins(m) ==
  /\ m \in gdMonitor /\ m.at = "begin"
  /\ gdMonitor' = (gdMonitor \ {m}) \cup
       (IF gdProcess = 0 THEN {} ELSE {[of |-> gdProcess, at |-> "wait"]})
  /\ UNCHANGED <<State, gdProcess, gdOs, gdCaller, gdLate, gdTwice>>

\* stop() and restart(): terminate and wait for whatever process is the current one ...
StopCalled(c, again) ==
  /\ gdCaller[c].at = "away" /\ Calls
  /\ IF gdRunning THEN gdCaller' = [gdCaller EXCEPT ![c] = [at |-> "terminate", proc |-> gdProcess, again |-> again]]
     ELSE IF again THEN gdCaller' = [gdCaller EXCEPT ![c] = [Away EXCEPT !.at = "starting"]]
     ELSE Leaves(c)
  /\ UNCHANGED <<State, gdProcess, gdOs, gdMonitor, gdLate>>
Terminated(p) == IF p = 0 THEN gdOs ELSE [gdOs EXCEPT ![p] = "down"]
Terminate(c) ==
  /\ gdCaller[c].at = "terminate"
  /\ gdOs' = Terminated(gdCaller[c].proc) /\ gdProcess' = 0 /\ Moves(c, "clear")
  /\ UNCHANGED <<State, gdMonitor, gdLate, gdTwice>>
\* ... then the state is cleared; restart() sleeps for half a second and starts.
Clear(c) ==
  /\ gdCaller[c].at = "clear" /\ gdRunning' = FALSE /\ gdPid' = 0
  /\ IF gdCaller[c].again THEN Moves(c, "starting") ELSE Leaves(c)
  /\ UNCHANGED <<gdProcess, gdOs, gdMonitor, gdLate, gdTwice>>

\* The gateway process ends by itself (a crash, a port that is taken).
ProcessEnds(p) ==
  /\ Up(p) /\ gdOs' = [gdOs EXCEPT ![p] = "down"]
  /\ UNCHANGED <<State, gdProcess, gdCaller, gdMonitor, gdLate, gdTwice>>

\* _monitor: the process of its start is gone. It clears the state, whoever's it is
\* by now. (What it then does with the return code is left out, as is _error.)
\* Mutant: the monitor does not clear the state.
ClearsNone == FALSE
Clears == TRUE
MonitorClears(m) ==
  /\ m \in gdMonitor /\ m.at = "wait" /\ ~Up(m.of)
  /\ (IF Clears THEN gdRunning' = FALSE /\ gdPid' = 0 ELSE UNCHANGED <<gdRunning, gdPid>>)
  /\ gdLate' = (gdLate \/ gdPid \notin {0, m.of})
  /\ gdMonitor' = gdMonitor \ {m}
  /\ UNCHANGED <<gdProcess, gdOs, gdCaller, gdTwice>>

CallerSteps(c) == RestartGoesOn(c) \/ Spawn(c) \/ Record(c) \/ Terminate(c) \/ Clear(c)
GdNext ==
  \/ \E c \in DaemonCallers :
       \/ StartRefused(c) \/ StartCalled(c) \/ CallerSteps(c)
       \/ \E again \in BOOLEAN : StopCalled(c, again)
  \/ \E p \in Procs : ProcessEnds(p)
  \/ \E m \in gdMonitor : MonitorBegins(m) \/ MonitorClears(m)
GdSpec == GdInit /\ [][GdNext]_gdVars
MonitorStep == \E m \in gdMonitor : MonitorBegins(m) \/ MonitorClears(m)

-----------------------------------------------------------------------------
\* What DaemonState promises a caller that finds no call under way: a gateway
\* process that is up is the one the state names. It is not so: the monitor of the
\* process before may clear the state after a restart has set it.
StateNamesGateway == ~Busy => \A p \in Procs : Up(p) => gdRunning /\ gdPid = p

\* A gateway that is up is lost sight of only through such a late monitor, or
\* through two calls that overlap.
LostOnlyByRace == gdLate \/ gdTwice \/ StateNamesGateway

\* When the gateway ends by itself the state comes to say so, if no calls overlap.
ExitIsNoticed == (gdRunning /\ ~Up(gdPid)) ~> (~gdRunning \/ Up(gdPid) \/ gdTwice)

\* The state keeps track of the gateway process (start, stop, restart, _monitor).
DaemonKeepsTrack == []LostOnlyByRace /\ ExitIsNoticed
=============================================================================
