--------------------------- MODULE ModelRegistry ---------------------------
(* The model catalog in registry.db (agents/core/db.py) and its two writers: the
   gateway's background job (matrix_sync/scheduler.py), which persists a snapshot
   and promotes it at once, and the pipeline daemon (agents/core/scheduler.py),
   which persists one unpromoted and means to judge it afterwards. The daemon's
   judgement begins by selecting the column "status", which the table snapshots
   does not have: the query raises and the cycle is recorded as failed. *)
EXTENDS Naturals, Sequences, FiniteSets

CONSTANTS Cycles,        \* threads of the daemon: its own and one per /health/trigger
          Jobs,          \* runs of the gateway's job that may overlap
          MaxSnapshots   \* bound on the snapshots written

VARIABLES rgSnaps,     \* table snapshots: who wrote it, and is_promoted
          rgCycle,     \* per daemon thread: "idle", "pipeline" or "judging"
          rgRuns,      \* Telemetry: the status of every finished run
          rgStreak,    \* Telemetry: _consecutive_failures
          rgJob,       \* per job: 0, or the number of the run it is in
          rgOn,        \* the APScheduler is running
          rgOwn,       \* the job that it runs, if any
          rgStarted, rgReported,  \* runs behind _last_run_time and _last_run_status
          rgStatus,    \* _last_run_status
          rgOverlap    \* history: a job began while another was running
rgVars == <<rgSnaps, rgCycle, rgRuns, rgStreak, rgJob, rgOn, rgOwn, rgStarted, rgReported, rgStatus, rgOverlap>>
rgDaemon == <<rgCycle, rgRuns, rgStreak>>
rgGateway == <<rgJob, rgOn, rgOwn, rgStarted, rgReported, rgStatus, rgOverlap>>

SnapshotColumns == {"id", "run_ts", "families", "model_count", "is_promoted"}

RegistryInit ==
  /\ rgSnaps = <<>> /\ rgCycle = [c \in Cycles |-> "idle"] /\ rgRuns = <<>> /\ rgStreak = 0
  /\ rgJob = [j \in Jobs |-> 0] /\ rgOn = FALSE /\ rgOwn = {}
  /\ rgStarted = 0 /\ rgReported = 0 /\ rgStatus = "never_run" /\ rgOverlap = FALSE

Promoted == {i \in DOMAIN rgSnaps : rgSnaps[i].promoted}

\* Mutant: the snapshot active until now is not demoted.
DemoteNone(snaps) == snaps
\* promote_snapshot: all others are demoted in the same transaction.
DemoteAll(snaps) == [i \in DOMAIN snaps |-> [snaps[i] EXCEPT !.promoted = FALSE]]
\* _persist_to_registry: snapshot, models, inventory and promotion, or nothing.
Persisted(by, promote) ==
  Append(IF promote THEN DemoteAll(rgSnaps) ELSE rgSnaps, [by |-> by, promoted |-> promote])

\* Telemetry.finish_run
Finish(status) ==
  /\ rgRuns' = Append(rgRuns, status)
  /\ rgStreak' = IF status = "failed" THEN rgStreak + 1 ELSE 0

\* The daemon's interval or /health/trigger: start_run, then read the active snapshot.
BeginCycle(c) ==
  /\ rgCycle[c] = "idle" /\ Len(rgSnaps) < MaxSnapshots /\ Len(rgRuns) < MaxSnapshots
  /\ rgCycle' = [rgCycle EXCEPT ![c] = "pipeline"]
  /\ UNCHANGED <<rgSnaps, rgRuns, rgStreak, rgGateway>>

\* run_pipeline_scheduled(promote=False)
\* run_pipeline: rankings and cards may be missing; the tag lists and the
\* transaction may not.
CyclePipeline(c) ==
  /\ rgCycle[c] = "pipeline"
  /\ \/ /\ rgSnaps' = Persisted("daemon", FALSE)
        /\ rgCycle' = [rgCycle EXCEPT ![c] = "judging"]
        /\ UNCHANGED <<rgRuns, rgStreak>>
     \/ /\ rgCycle' = [rgCycle EXCEPT ![c] = "idle"] /\ Finish("failed")
        /\ UNCHANGED rgSnaps
  /\ UNCHANGED rgGateway

\* The query for the newest snapshot that is not active.
CycleJudges(c) ==
  /\ rgCycle[c] = "judging"
  /\ rgCycle' = [rgCycle EXCEPT ![c] = "idle"]
  /\ Finish(IF "status" \in SnapshotColumns THEN "success" ELSE "failed")
  /\ UNCHANGED <<rgSnaps, rgGateway>>

\* start_scheduler and stop_scheduler: a job that is running is not waited for.
StartScheduler ==
  /\ ~rgOn /\ rgOn' = TRUE
  /\ UNCHANGED <<rgSnaps, rgDaemon, rgJob, rgOwn, rgStarted, rgReported, rgStatus, rgOverlap>>
StopScheduler ==
  /\ rgOn /\ rgOn' = FALSE /\ rgOwn' = {}
  /\ UNCHANGED <<rgSnaps, rgDaemon, rgJob, rgStarted, rgReported, rgStatus, rgOverlap>>

\* _run_job. One scheduler runs one instance of the job at a time.
BeginJob(j) ==
  /\ rgOn /\ rgOwn = {} /\ rgJob[j] = 0 /\ Len(rgSnaps) < MaxSnapshots /\ rgStarted < MaxSnapshots
  /\ rgJob' = [rgJob EXCEPT ![j] = rgStarted + 1] /\ rgStarted' = rgStarted + 1 /\ rgOwn' = {j}
  /\ rgOverlap' = (rgOverlap \/ \E k \in Jobs : rgJob[k] # 0)
  /\ UNCHANGED <<rgSnaps, rgDaemon, rgOn, rgReported, rgStatus>>

Report(j, status) == rgStatus' = status /\ rgReported' = rgJob[j]
EndJob(j) ==
  /\ rgJob[j] # 0
  /\ rgJob' = [rgJob EXCEPT ![j] = 0] /\ rgOwn' = rgOwn \ {j}
  /\ \/ /\ \E promote \in BOOLEAN : rgSnaps' = Persisted("job", promote)
        /\ Report(j, "ok")
     \/ Report(j, "error") /\ UNCHANGED rgSnaps
  /\ UNCHANGED <<rgDaemon, rgOn, rgStarted, rgOverlap>>

RegistryNext ==
  \/ \E c \in Cycles : BeginCycle(c) \/ CyclePipeline(c) \/ CycleJudges(c)
  \/ StartScheduler \/ StopScheduler
  \/ \E j \in Jobs : BeginJob(j) \/ EndJob(j)

RegistrySpec == RegistryInit /\ [][RegistryNext]_rgVars

-----------------------------------------------------------------------------
\* The catalog has one active snapshot at most, whichever writers overlap.
AtMostOneActive == Cardinality(Promoted) <= 1

\* A cycle of the daemon leaves the active catalog as it was, however it ends: a
\* snapshot it wrote is in the table, but only a job has ever promoted one.
DaemonLeavesCatalog == \A i \in Promoted : rgSnaps[i].by = "job"

\* When no job is running, the status that get_scheduler_status reports is that of
\* the run whose start time it reports, unless a scheduler restarted under a
\* running job let two of them overlap.
StatusIsOfLastRun == (\A j \in Jobs : rgJob[j] = 0) /\ ~rgOverlap => rgReported = rgStarted

\* The catalog and its status stay right under overlapping writers.
CatalogIsConsistent == AtMostOneActive /\ DaemonLeavesCatalog /\ StatusIsOfLastRun
=============================================================================
