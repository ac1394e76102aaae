------------------------------ MODULE Monitors ------------------------------
(* What watches the system and reports on it: the InsAIts daemon with its anomaly
   detector and the gas dashboard (agents/core/daemons), the EGL monitor
   (egl_monitor.py), the outlier trap (outlier_trap.py) and the monitor of installed
   tools (tool_monitor.py). *)
EXTENDS Daemons, FiniteSetsExt

CONSTANTS
    WatchedAgents,        \* agents whose events and gas are reported
    FailureThreshold, TrailSize, MaxWatched,
    Budgets, MaxGasUsed,
    EventTypes, MaxIngested,
    Capabilities, EglWindow, EntropyOf, Convergence, Dominance, MaxBehaviors,
    MonitoredTools, MaxToolSteps

\* The tier's budget is the largest one.
ASSUME MonitorsAssumption ==
  /\ FailureThreshold \in Nat /\ TrailSize \in Nat /\ EglWindow \in Nat /\ Dominance \in Nat
  /\ Budgets \subseteq Nat /\ \E m \in Budgets : \A b \in Budgets : m >= b
  /\ IsFiniteSet(EventTypes)

-----------------------------------------------------------------------------
(* The InsAIts daemon: a bounded trail with counters, and failures in a row. *)
VARIABLES inRunning, inTrail, inCount, inFailures, inRejected, inLog

inVars == <<inRunning, inTrail, inCount, inFailures, inRejected, inLog>>

InsAItsInit ==
  /\ inRunning = FALSE
  /\ inTrail = <<>>
  /\ inCount = [s \in {"info", "warning", "critical"} |-> 0]
  /\ inFailures = [a \in WatchedAgents |-> 0]
  /\ inRejected = 0
  /\ inLog = <<>>

\* _record: every entry is counted, anomalies too, and the oldest leaves a full trail.
LastEntries(trail, entries) == LET all == trail \o entries
                        IN SubSeq(all, 1 + Len(all) - (IF Len(all) > TrailSize THEN TrailSize ELSE Len(all)), Len(all))
Severe(entries, severity) == Cardinality({i \in DOMAIN entries : entries[i].severity = severity})
Record(entries) ==
  /\ inTrail' = LastEntries(inTrail, entries)
  /\ inCount' = [s \in DOMAIN inCount |-> inCount[s] + Severe(entries, s)]

EventSeverity(type) ==
  CASE type \in {"execution_failed", "validation_rejected"} -> "critical"
    [] type = "model_fallback" -> "warning"
    [] OTHER -> "info"
AuditEntry(type, agent, severity) == [type |-> type, agent |-> agent, severity |-> severity]
IsFailure(type) == type \in {"execution_failed", "validation_rejected"}

InsAItsStarts ==
  /\ ~inRunning /\ inCount["info"] < 2
  /\ inRunning' = TRUE
  /\ Record(<<AuditEntry("daemon_started", "insaits", "info")>>)
  /\ UNCHANGED <<inFailures, inRejected, inLog>>

InsAItsStops ==
  /\ inRunning
  /\ inRunning' = FALSE
  /\ Record(<<AuditEntry("daemon_stopped", "insaits", "info")>>)
  /\ UNCHANGED <<inFailures, inRejected, inLog>>

FailuresAfter(type, a) ==
  IF IsFailure(type) THEN inFailures[a] + 1
  ELSE IF type = "execution_complete" THEN 0 ELSE inFailures[a]

\* record_gas needs five samples and compares with their spread: either answer.
Anomalies(type, a) ==
  IF IsFailure(type) /\ FailuresAfter(type, a) >= FailureThreshold
  THEN {<<AuditEntry("repeated_failure", a, "critical")>>}
  ELSE IF type = "model_fallback" /\ inRejected + 1 >= FailureThreshold
  THEN {<<AuditEntry("model_rejection_pattern", "maestro", "warning")>>}
  ELSE IF type = "gas_consumed" THEN {<<>>, <<AuditEntry("gas_spike", a, "warning")>>}
  ELSE {<<>>}

\* process_event asks neither whether the daemon runs nor who calls it.
ProcessEvent(type, a) ==
  /\ Len(inLog) < MaxWatched
  /\ \E found \in Anomalies(type, a) :
       /\ Record(<<AuditEntry(type, a, EventSeverity(type))>> \o found)
       /\ inLog' = Append(inLog, [type |-> type, agent |-> a, alarm |-> found # <<>>])
  /\ inFailures' = [inFailures EXCEPT ![a] = FailuresAfter(type, a)]
  /\ inRejected' = IF type = "model_fallback" THEN inRejected + 1 ELSE inRejected
  /\ UNCHANGED inRunning

InsAItsNext ==
  \/ InsAItsStarts \/ InsAItsStops
  \/ \E a \in WatchedAgents, type \in {"execution_failed", "validation_rejected", "execution_complete",
                                       "model_fallback", "gas_consumed", "tool_invoked"} :
       ProcessEvent(type, a)

InsAItsSpec == InsAItsInit /\ [][InsAItsNext]_inVars

\* A failure raises the alarm exactly when it is the last of FailureThreshold or more of
\* its agent with no success between them, whatever else happened meanwhile.
InARow(n, a) ==
  Cardinality({i \in 1 .. n :
    /\ inLog[i].agent = a /\ IsFailure(inLog[i].type)
    /\ \A j \in i .. n : inLog[j].agent = a => inLog[j].type # "execution_complete"})
AlarmsAreDue ==
  \A n \in DOMAIN inLog : IsFailure(inLog[n].type) =>
    (inLog[n].alarm <=> InARow(n, inLog[n].agent) >= FailureThreshold)

\* The counters count what the trail has lost, so the trail is never longer than they say.
CountersCoverTrail ==
  \A s \in DOMAIN inCount :
    /\ Severe(inTrail, s) <= inCount[s]
    /\ Len(inTrail) < TrailSize => Severe(inTrail, s) = inCount[s]

-----------------------------------------------------------------------------
(* The gas dashboard over the bridge's accounts, which only grow. *)
VARIABLES gdGas, gdBudget, gdReport

gdVars == <<gdGas, gdBudget, gdReport>>

TierBudget == Max(Budgets)
NoReport == [agents |-> {}, over |-> {}, total |-> 0]

DashboardInit ==
  /\ gdGas = [a \in {} |-> 0]
  /\ gdBudget = [a \in {} |-> 0]
  /\ gdReport = NoReport

BudgetOf(a) == IF a \in DOMAIN gdBudget THEN gdBudget[a] ELSE TierBudget

SetAgentBudget(a) ==
  /\ \E b \in Budgets : gdBudget' = [x \in DOMAIN gdBudget \cup {a} |-> IF x = a THEN b ELSE gdBudget[x]]
  /\ UNCHANGED <<gdGas, gdReport>>

ResetAgentBudget(a) ==
  /\ gdBudget' = [x \in DOMAIN gdBudget \ {a} |-> gdBudget[x]]
  /\ UNCHANGED <<gdGas, gdReport>>

AgentUsesGas(a) ==
  /\ a \in DOMAIN gdGas => gdGas[a] < MaxGasUsed
  /\ gdGas' = [x \in DOMAIN gdGas \cup {a} |->
       (IF x \in DOMAIN gdGas THEN gdGas[x] ELSE 0) + (IF x = a THEN 1 ELSE 0)]
  /\ UNCHANGED <<gdBudget, gdReport>>

\* get_report: the agents with an account, those over their budget, and the sum.
AgentsOver == {a \in DOMAIN gdGas : gdGas[a] > BudgetOf(a)}
GetReport ==
  /\ gdReport' = [agents |-> DOMAIN gdGas, over |-> AgentsOver, total |-> SumFunction(gdGas)]
  /\ UNCHANGED <<gdGas, gdBudget>>

DashboardNext ==
  \/ \E a \in WatchedAgents : SetAgentBudget(a) \/ ResetAgentBudget(a) \/ AgentUsesGas(a)
  \/ GetReport

DashboardSpec == DashboardInit /\ [][DashboardNext]_gdVars

\* An agent reported over its budget is still over it unless its budget was changed since:
\* no account is ever reset, and no report counts more gas than was used.
ReportsStayTrue ==
  /\ [][gdBudget' = gdBudget => AgentsOver \subseteq AgentsOver']_gdVars
  /\ [](gdReport.total <= SumFunction(gdGas))

-----------------------------------------------------------------------------
(* The outlier trap: a weighted score of severity, rarity and burst. In hundredths:
   30 for the severity, 20 for the rarity, 20 for the burst, 30 for an error. *)
VARIABLES otRecent, otCounts, otQuarantine

otVars == <<otRecent, otCounts, otQuarantine>>

Severities == {"debug", "info", "warning", "error", "critical", "unknown"}
SeverityTenths ==
  [debug |-> 1, info |-> 2, warning |-> 5, error |-> 8, critical |-> 10, unknown |-> 3]
ErrorAdjacent(severity) ==
  IF severity \in {"error", "critical"} THEN 27 ELSE IF severity = "warning" THEN 12 ELSE 0
QuarantineThreshold == 85

TrapInit ==
  /\ otRecent = <<>>
  /\ otCounts = [t \in EventTypes |-> 0]
  /\ otQuarantine = <<>>

\* The score times the number of events so far; Counts are of all events, recent of ten.
Total(counts) == SumFunction(counts)
SameOf(recent, type) == Cardinality({i \in DOMAIN recent : recent[i] = type})
ScoreTimesTotal(recent, counts, type, severity) ==
  LET total == Total(counts)
      burst == 3 * SameOf(recent, type)
  IN total * (3 * SeverityTenths[severity] + ErrorAdjacent(severity) + (IF burst > 20 THEN 20 ELSE burst))
     + 20 * (total - counts[type])

LastTen(types) == IF Len(types) > 10 THEN Tail(types) ELSE types

\* ingest: the event counts before it is scored.
Ingest(type, severity) ==
  LET counts == [otCounts EXCEPT ![type] = @ + 1]
      recent == LastTen(Append(otRecent, type))
  IN /\ Total(otCounts) < MaxIngested
     /\ otCounts' = counts
     /\ otRecent' = recent
     /\ otQuarantine' = IF ScoreTimesTotal(recent, counts, type, severity) >= QuarantineThreshold * Total(counts)
                        THEN <<[severity |-> severity, same |-> SameOf(recent, type), seen |-> Total(counts)]>>
                        ELSE otQuarantine

TrapNext == \E type \in EventTypes, severity \in Severities : Ingest(type, severity)

TrapSpec == TrapInit /\ [][TrapNext]_otVars

\* Whatever its severity, an event is quarantined only in a burst of its own type that is
\* rare otherwise: the first critical event of a kind never is.
QuarantineNeedsBurst ==
  otQuarantine # <<>> =>
    /\ Head(otQuarantine).severity \in {"error", "critical"}
    /\ Head(otQuarantine).same >= (IF Head(otQuarantine).severity = "critical" THEN 3 ELSE 5)
    /\ Head(otQuarantine).seen > Head(otQuarantine).same

-----------------------------------------------------------------------------
(* The EGL monitor: diversity over a window of records against the first one measured. *)
VARIABLES egRecords, egGrid, egBaseline, egAlerts, egMeasured

egVars == <<egRecords, egGrid, egBaseline, egAlerts, egMeasured>>

EglInit ==
  /\ egRecords = <<>>
  /\ egGrid = <<>>
  /\ egBaseline = 0
  /\ egAlerts = <<>>
  /\ egMeasured = 0

Key(r) == <<r.capability, r.agent>>

\* record_behavior: the record, and the cell of its capability and agent.
RecordBehavior(agent, capability, performance) ==
  LET r == [agent |-> agent, capability |-> capability, performance |-> performance]
      old == IF Key(r) \in DOMAIN egGrid THEN egGrid[Key(r)] ELSE [best |-> 0, samples |-> 0]
  IN /\ Len(egRecords) < MaxBehaviors
     /\ egRecords' = Append(egRecords, r)
     /\ egGrid' = [k \in DOMAIN egGrid \cup {Key(r)} |->
          IF k = Key(r) THEN [best |-> Max({old.best, performance}), samples |-> old.samples + 1]
          ELSE egGrid[k]]
     /\ UNCHANGED <<egBaseline, egAlerts, egMeasured>>

Recent == SubSeq(egRecords, Max({1, Len(egRecords) - EglWindow + 1}), Len(egRecords))

\* How often each value occurs, in ascending order.
TimesOf(values, v) == Cardinality({i \in DOMAIN values : values[i] = v})
SortedCounts(values) ==
  LET n == Cardinality(Range(values))
      order == CHOOSE o \in [1 .. n -> Range(values)] :
                 IsInjective(o) /\ \A i, j \in 1 .. n : i < j => TimesOf(values, o[i]) <= TimesOf(values, o[j])
  IN [i \in 1 .. n |-> TimesOf(values, order[i])]

\* Shannon entropy in thousandths of a bit, tabulated for the counts of a window.
ComputeDiversity(recent) == EntropyOf[SortedCounts([i \in DOMAIN recent |-> recent[i].capability])]

\* Gini coefficient as a fraction; of one agent it is zero.
GiniOver(counts) == LET n == Len(counts) total == SumFunction(counts)
                        weighted == SumFunction([i \in DOMAIN counts |-> i * counts[i]])
                    IN IF n <= 1 THEN <<0, 1>> ELSE <<2 * weighted - (n + 1) * total, n * total>>

\* measure, and with it every report: the first positive diversity is the baseline.
Measure ==
  LET diversity == ComputeDiversity(Recent)
      gini == GiniOver(SortedCounts([i \in DOMAIN Recent |-> Recent[i].agent]))
      agents == Cardinality({Recent[i].agent : i \in DOMAIN Recent})
      capabilities == Cardinality({Recent[i].capability : i \in DOMAIN Recent})
      Alert(type) == [type |-> type, at |-> egMeasured + 1, agents |-> agents]
  IN /\ egRecords # <<>> /\ egMeasured < 2
     /\ egMeasured' = egMeasured + 1
     /\ egBaseline' = IF egBaseline = 0 THEN diversity ELSE egBaseline
     /\ egAlerts' = egAlerts
          \o (IF diversity < Convergence /\ capabilities > 1 THEN <<Alert("convergence")>> ELSE <<>>)
          \o (IF 100 * gini[1] > Dominance * gini[2] THEN <<Alert("dominance")>> ELSE <<>>)
     /\ UNCHANGED <<egRecords, egGrid>>

EglNext ==
  \/ \E a \in WatchedAgents, c \in Capabilities, p \in 0..1 : RecordBehavior(a, c, p)
  \/ Measure

EglSpec == EglInit /\ [][EglNext]_egVars

\* The grid holds the best of all records of a pair, not only of the window.
GridKeepsBest ==
  /\ DOMAIN egGrid = {Key(egRecords[i]) : i \in DOMAIN egRecords}
  /\ \A k \in DOMAIN egGrid :
       LET mine == {i \in DOMAIN egRecords : Key(egRecords[i]) = k}
       IN egGrid[k] = [best |-> Max({egRecords[i].performance : i \in mine}), samples |-> Cardinality(mine)]

\* One agent that does all the work never dominates: n agents reach (n - 1) / n at most.
DominanceNeedsCompany ==
  \A i \in DOMAIN egAlerts : egAlerts[i].type = "dominance" =>
    Dominance * egAlerts[i].agents < 100 * (egAlerts[i].agents - 1)

\* A baseline once measured stays.
BaselineStays == [][egBaseline # 0 => egBaseline' = egBaseline]_egVars

-----------------------------------------------------------------------------
(* The tool monitor: the registry it read when it was made, saved whole when a tool of
   that copy fails its check. Others install and uninstall meanwhile. *)
VARIABLES tmFile, tmPresent, tmCopy, tmStale, tmWanted, tmSteps

tmVars == <<tmFile, tmPresent, tmCopy, tmStale, tmWanted, tmSteps>>

NoTools == [t \in {} |-> "active"]
Put(f, t, status) == [x \in DOMAIN f \cup {t} |-> IF x = t THEN status ELSE f[x]]

ToolMonitorInit ==
  /\ tmFile = NoTools
  /\ tmPresent = {}
  /\ tmCopy = NoTools
  /\ tmStale = FALSE
  /\ tmWanted = {}
  /\ tmSteps = 0

ToolStep == tmSteps < MaxToolSteps /\ tmSteps' = tmSteps + 1

OpenMonitor ==
  /\ ToolStep
  /\ tmCopy' = tmFile
  /\ tmStale' = FALSE
  /\ UNCHANGED <<tmFile, tmPresent, tmWanted>>

\* Another process installs or uninstalls a tool.
InstallTool(t) ==
  /\ ToolStep /\ t \notin tmWanted
  /\ tmFile' = Put(tmFile, t, "active")
  /\ tmPresent' = tmPresent \cup {t}
  /\ tmWanted' = tmWanted \cup {t}
  /\ tmStale' = TRUE
  /\ UNCHANGED tmCopy

UninstallTool(t) ==
  /\ ToolStep /\ t \in tmWanted
  /\ tmFile' = [x \in DOMAIN tmFile \ {t} |-> tmFile[x]]
  /\ tmPresent' = tmPresent \ {t}
  /\ tmWanted' = tmWanted \ {t}
  /\ tmStale' = TRUE
  /\ UNCHANGED tmCopy

DirectoryVanishes(t) ==
  /\ ToolStep /\ t \in tmPresent
  /\ tmPresent' = tmPresent \ {t}
  /\ UNCHANGED <<tmFile, tmCopy, tmStale, tmWanted>>

Unhealthy == {t \in DOMAIN tmCopy : tmCopy[t] = "active" /\ t \notin tmPresent}
Suspended(copy) == [t \in DOMAIN copy |-> IF t \in Unhealthy THEN "suspended" ELSE copy[t]]

\* auto_revoke_unhealthy: nothing is written when nothing was revoked.
AutoRevoke ==
  /\ ToolStep
  /\ tmCopy' = Suspended(tmCopy)
  /\ tmFile' = IF Unhealthy = {} THEN tmFile ELSE Suspended(tmCopy)
  /\ UNCHANGED <<tmPresent, tmStale, tmWanted>>

ToolMonitorNext ==
  \/ OpenMonitor \/ AutoRevoke
  \/ \E t \in MonitoredTools : InstallTool(t) \/ UninstallTool(t) \/ DirectoryVanishes(t)

ToolMonitorSpec == ToolMonitorInit /\ [][ToolMonitorNext]_tmVars

\* Only a monitor whose copy is older than the registry loses an installed tool or brings
\* one back, and it never suspends one that is there.
RevokingIsHarmless ==
  [][tmFile' # tmFile /\ tmWanted' = tmWanted =>
       /\ ~tmStale => DOMAIN tmFile' = DOMAIN tmFile
       /\ \A t \in DOMAIN tmFile' \cap DOMAIN tmFile :
            tmFile'[t] = "suspended" /\ tmFile[t] = "active" /\ ~tmStale => t \notin tmPresent]_tmVars

\* What the monitors report is what happened: alarms on failures in a row, true gas
\* reports, quarantine in bursts, a grid of bests, revocations of what is gone.
MonitorsAreTrue ==
  /\ [](/\ AlarmsAreDue /\ CountersCoverTrail /\ QuarantineNeedsBurst
        /\ GridKeepsBest /\ DominanceNeedsCompany)
  /\ ReportsStayTrue /\ BaselineStays /\ RevokingIsHarmless

\* What is ruled and what is reported is so: a dispute's ruling by its votes or its
\* deadline, and the monitors' alarms and reports (ArbiterDaemon, agents/core/daemons).
RulingsAndReportsHold == ArbiterIsSound /\ MonitorsAreTrue

=============================================================================
