-------------------------- MODULE ComponentProofs --------------------------
(***************************************************************************)
(* Theorems about the model catalog, the managers of worktrees, the        *)
(* processes of the vault, the identities, the two buses in a process,     *)
(* the two gates that stop agents, the two audit trails and the three      *)
(* memories, for any number of each and of what they keep.                 *)
(***************************************************************************)
EXTENDS Memories, ModelRegistry, Worktrees, Credentials, EventBuses, Governance, InductionLemmas,
        SequenceTheorems, FiniteSetTheorems, TLAPS

-----------------------------------------------------------------------------
(* The catalog. *)

Snapshots == [by : {"daemon", "job"}, promoted : BOOLEAN]

\* Shapes of the variables the argument needs.
RegistryTyped ==
  /\ rgSnaps \in Seq(Snapshots)
  /\ rgJob \in [Jobs -> Nat] /\ rgStarted \in Nat /\ rgOverlap \in BOOLEAN

\* Two promoted snapshots are one, and a job wrote it.
OnePromoted == \A i, k \in Promoted : i = k /\ rgSnaps[i].by = "job"

\* Without an overlap at most one job runs, in the run last started; when none does,
\* that run was reported.
LastRun ==
  ~rgOverlap =>
    /\ \A j, k \in Jobs : rgJob[j] # 0 /\ rgJob[k] # 0 => j = k
    /\ \A j \in Jobs : rgJob[j] # 0 => rgJob[j] = rgStarted
    /\ (\A j \in Jobs : rgJob[j] = 0) => rgReported = rgStarted

RegistryInv == RegistryTyped /\ OnePromoted /\ LastRun

\* What _persist_to_registry leaves in the table.
LEMMA PersistedFacts ==
  ASSUME rgSnaps \in Seq(Snapshots), NEW by \in {"daemon", "job"}, NEW promote \in BOOLEAN
  PROVE  /\ Persisted(by, promote) \in Seq(Snapshots)
         /\ DOMAIN Persisted(by, promote) = 1 .. Len(rgSnaps) + 1
         /\ \A i \in 1 .. Len(rgSnaps) :
              /\ Persisted(by, promote)[i].by = rgSnaps[i].by
              /\ Persisted(by, promote)[i].promoted => rgSnaps[i].promoted /\ ~promote
         /\ Persisted(by, promote)[Len(rgSnaps) + 1] = [by |-> by, promoted |-> promote]
<1> DEFINE old == IF promote THEN DemoteAll(rgSnaps) ELSE rgSnaps
<1>1. /\ DemoteAll(rgSnaps) \in Seq(Snapshots) /\ Len(DemoteAll(rgSnaps)) = Len(rgSnaps)
      /\ \A i \in 1 .. Len(rgSnaps) :
           /\ DemoteAll(rgSnaps)[i].by = rgSnaps[i].by /\ ~DemoteAll(rgSnaps)[i].promoted
  <2> DEFINE demoted(i) == [rgSnaps[i] EXCEPT !.promoted = FALSE]
  <2>1. ASSUME NEW i \in 1 .. Len(rgSnaps)
        PROVE  demoted(i) \in Snapshots /\ demoted(i).by = rgSnaps[i].by /\ ~demoted(i).promoted
    <3>1. rgSnaps[i] \in Snapshots
      OBVIOUS
    <3> QED
      BY <3>1 DEF Snapshots
  <2>2. DemoteAll(rgSnaps) = [i \in 1 .. Len(rgSnaps) |-> demoted(i)]
    BY DEF DemoteAll
  <2> HIDE DEF demoted
  <2> QED
    BY <2>1, <2>2
<1>2. /\ old \in Seq(Snapshots) /\ Len(old) = Len(rgSnaps)
      /\ \A i \in 1 .. Len(rgSnaps) :
           old[i].by = rgSnaps[i].by /\ (old[i].promoted => rgSnaps[i].promoted /\ ~promote)
  <2>1. CASE promote
    BY <2>1, <1>1 DEF Snapshots
  <2>2. CASE ~promote
    BY <2>2 DEF Snapshots
  <2> QED
    BY <2>1, <2>2
<1>3. [by |-> by, promoted |-> promote] \in Snapshots
  BY DEF Snapshots
<1> HIDE DEF old
<1>4. Persisted(by, promote) = Append(old, [by |-> by, promoted |-> promote])
  BY DEF Persisted, old
<1> QED
  BY <1>2, <1>3, <1>4

\* A persisted snapshot of the daemon promotes none, and one of a job leaves at most its own.
LEMMA PersistedOne ==
  ASSUME rgSnaps \in Seq(Snapshots), OnePromoted,
         NEW by \in {"daemon", "job"}, NEW promote \in BOOLEAN, promote => by = "job",
         rgSnaps' = Persisted(by, promote)
  PROVE  rgSnaps' \in Seq(Snapshots) /\ OnePromoted'
<1> DEFINE n == Len(rgSnaps) + 1
<1>1. /\ rgSnaps' \in Seq(Snapshots) /\ DOMAIN rgSnaps' = 1 .. n
      /\ \A x \in 1 .. Len(rgSnaps) :
           /\ rgSnaps'[x].by = rgSnaps[x].by
           /\ rgSnaps'[x].promoted => rgSnaps[x].promoted /\ ~promote
      /\ rgSnaps'[n] = [by |-> by, promoted |-> promote]
  BY PersistedFacts
<1>2. n \in Nat /\ DOMAIN rgSnaps = 1 .. Len(rgSnaps) /\ \A x \in 1 .. n : x # n => x \in 1 .. Len(rgSnaps)
  OBVIOUS
<1> HIDE DEF n
<1>3. ASSUME NEW x \in Promoted', x # n
      PROVE  x \in Promoted /\ ~promote /\ rgSnaps'[x].by = rgSnaps[x].by
  BY <1>1, <1>2, <1>3 DEF Promoted
<1>4. ASSUME n \in Promoted' PROVE promote /\ rgSnaps'[n].by = "job"
  BY <1>1, <1>4 DEF Promoted
<1>5. ASSUME NEW i \in Promoted', NEW k \in Promoted' PROVE i = k /\ rgSnaps'[i].by = "job"
  BY <1>3, <1>4 DEF OnePromoted
<1> QED
  BY <1>1, <1>5 DEF OnePromoted

LEMMA RegistryStarts == RegistryInit => RegistryInv
<1> SUFFICES ASSUME RegistryInit PROVE RegistryInv
  OBVIOUS
<1>1. RegistryTyped
  <2>1. rgSnaps \in Seq(Snapshots) /\ rgJob \in [Jobs -> Nat] /\ rgStarted \in Nat
    BY DEF RegistryInit
  <2> QED
    BY <2>1 DEF RegistryInit, RegistryTyped
<1>2. OnePromoted
  BY DEF RegistryInit, OnePromoted, Promoted
<1>3. LastRun
  BY DEF RegistryInit, LastRun
<1> QED
  BY <1>1, <1>2, <1>3 DEF RegistryInv

LEMMA RegistrySteps == RegistryInv /\ [RegistryNext]_rgVars => RegistryInv'
<1> SUFFICES ASSUME RegistryInv, [RegistryNext]_rgVars PROVE RegistryInv'
  OBVIOUS
<1> USE DEF RegistryInv
<1>1. ASSUME UNCHANGED rgSnaps
      PROVE  (rgSnaps \in Seq(Snapshots))' /\ OnePromoted'
  BY <1>1 DEF RegistryTyped, OnePromoted, Promoted
<1>2. ASSUME UNCHANGED rgGateway, (rgSnaps \in Seq(Snapshots))', OnePromoted'
      PROVE  RegistryInv'
  BY <1>2 DEF RegistryTyped, LastRun, rgGateway
<1>3. ASSUME NEW c \in Cycles, BeginCycle(c) PROVE RegistryInv'
  BY <1>1, <1>2, <1>3 DEF BeginCycle
<1>4. ASSUME NEW c \in Cycles, CyclePipeline(c) PROVE RegistryInv'
  <2>1. CASE rgSnaps' = Persisted("daemon", FALSE)
    <3>1. (rgSnaps \in Seq(Snapshots))' /\ OnePromoted'
      BY <2>1, PersistedOne DEF RegistryTyped
    <3> QED
      BY <3>1, <1>2, <1>4 DEF CyclePipeline
  <2> QED
    BY <2>1, <1>1, <1>2, <1>4 DEF CyclePipeline
<1>5. ASSUME NEW c \in Cycles, CycleJudges(c) PROVE RegistryInv'
  BY <1>1, <1>2, <1>5 DEF CycleJudges
<1>6. CASE StartScheduler
  <2>1. (rgSnaps \in Seq(Snapshots))' /\ OnePromoted'
    BY <1>1, <1>6 DEF StartScheduler
  <2> QED
    BY <2>1, <1>6 DEF StartScheduler, RegistryTyped, LastRun
<1>7. CASE StopScheduler
  <2>1. (rgSnaps \in Seq(Snapshots))' /\ OnePromoted'
    BY <1>1, <1>7 DEF StopScheduler
  <2> QED
    BY <2>1, <1>7 DEF StopScheduler, RegistryTyped, LastRun
<1>8. ASSUME NEW j \in Jobs, BeginJob(j) PROVE RegistryInv'
  <2>1. (rgSnaps \in Seq(Snapshots))' /\ OnePromoted'
    BY <1>1, <1>8 DEF BeginJob
  <2>2. /\ rgJob' = [rgJob EXCEPT ![j] = rgStarted + 1] /\ rgStarted' = rgStarted + 1
        /\ rgOverlap' = (rgOverlap \/ \E k \in Jobs : rgJob[k] # 0)
    BY <1>8 DEF BeginJob
  <2>3. RegistryTyped'
    BY <2>1, <2>2 DEF RegistryTyped
  <2>4. ASSUME ~rgOverlap' PROVE \A k \in Jobs : k # j => rgJob'[k] = 0
    BY <2>2, <2>4 DEF RegistryTyped
  <2>5. rgJob'[j] = rgStarted' /\ rgJob'[j] # 0
    BY <2>2 DEF RegistryTyped
  <2>6. LastRun'
    BY <2>4, <2>5 DEF LastRun
  <2> QED
    BY <2>1, <2>3, <2>6
<1>9. ASSUME NEW j \in Jobs, EndJob(j) PROVE RegistryInv'
  <2>1. (rgSnaps \in Seq(Snapshots))' /\ OnePromoted'
    <3>1. ASSUME NEW promote \in BOOLEAN, rgSnaps' = Persisted("job", promote)
          PROVE  (rgSnaps \in Seq(Snapshots))' /\ OnePromoted'
      BY <3>1, PersistedOne DEF RegistryTyped
    <3> QED
      BY <3>1, <1>1, <1>9 DEF EndJob
  <2>2. /\ rgJob[j] # 0 /\ rgJob' = [rgJob EXCEPT ![j] = 0] /\ rgReported' = rgJob[j]
        /\ UNCHANGED <<rgStarted, rgOverlap>>
    BY <1>9 DEF EndJob, Report
  <2>3. RegistryTyped'
    BY <2>1, <2>2 DEF RegistryTyped
  <2>4. LastRun'
    BY <2>2 DEF RegistryTyped, LastRun
  <2> QED
    BY <2>1, <2>3, <2>4
<1>10. CASE UNCHANGED rgVars
  BY <1>1, <1>2, <1>10 DEF rgVars, rgGateway
<1> QED
  BY <1>3, <1>4, <1>5, <1>6, <1>7, <1>8, <1>9, <1>10 DEF RegistryNext

LEMMA RegistryInvImplies == RegistryInv => CatalogIsConsistent
<1> SUFFICES ASSUME RegistryInv PROVE CatalogIsConsistent
  OBVIOUS
<1>1. AtMostOneActive
  <2>1. CASE Promoted = {}
    BY <2>1, FS_EmptySet DEF AtMostOneActive
  <2>2. ASSUME NEW i \in Promoted PROVE AtMostOneActive
    <3>1. Promoted = {i}
      BY <2>2 DEF RegistryInv, OnePromoted
    <3>2. Cardinality({i}) = 1
      BY FS_Singleton
    <3> QED
      BY <3>1, <3>2 DEF AtMostOneActive
  <2> QED
    BY <2>1, <2>2
<1>2. DaemonLeavesCatalog
  BY DEF RegistryInv, OnePromoted, DaemonLeavesCatalog
<1>3. StatusIsOfLastRun
  BY DEF RegistryInv, LastRun, StatusIsOfLastRun
<1> QED
  BY <1>1, <1>2, <1>3 DEF CatalogIsConsistent

\* However cycles of the daemon, jobs and restarts of the scheduler overlap, at most one
\* snapshot is active, a job promoted it, and the status reported is that of the last run
\* (promote_snapshot, run_pipeline_scheduled, get_scheduler_status).
THEOREM CatalogConsistent == RegistrySpec => []CatalogIsConsistent
<1> QED
  BY RegistryStarts, RegistrySteps, RegistryInvImplies, PTL DEF RegistrySpec

-----------------------------------------------------------------------------
(* The worktrees. *)

WtPlaces == {"", "add", "count", "remove", "uncount", "checkout", "merge", "merged", "abort"}
WtNames == WtBranches \cup WtTargets \cup {""}
WtJobs == [at : WtPlaces, todo : SUBSET WtBranches, target : WtNames, into : WtNames, alone : BOOLEAN]

\* Shapes of the variables the argument needs; a creation is of one branch.
WtTyped ==
  /\ IsFiniteSet(wtGit) /\ wtOwn \in [WtManagers -> SUBSET WtBranches]
  /\ wtCount \in Nat /\ wtClamped \in Nat /\ wtHead \in WtNames /\ wtMerging \in BOOLEAN
  /\ wtJob \in [WtManagers -> WtJobs]
  /\ \A m \in WtManagers : wtJob[m].at = "add" => \E b \in WtBranches : wtJob[m].todo = {b}

\* How many managers of a function of jobs are at one of these places.
JobsAt(jobs, places) == {m \in WtManagers : jobs[m].at \in places}
Number(jobs, places) == Cardinality(JobsAt(jobs, places))

\* The count lags behind git by the calls between their git command and their count.
Books == wtCount + Number(wtJob, {"count"}) = Cardinality(wtGit) + Number(wtJob, {"uncount"}) + wtClamped

\* A creation under way has found the count below its ceiling.
Ceiling == wtCount + Number(wtJob, {"add", "count"}) <= GlobalMax + Cardinality(WtManagers) - 1

\* Of two merges at a time neither counts as alone; one that is alone has the checkout on
\* its target until it is done.
MergesAlone ==
  /\ \A m, k \in WtManagers : m # k /\ MergesOf(wtJob[m]) /\ MergesOf(wtJob[k]) => ~wtJob[m].alone
  /\ \A m \in WtManagers : wtJob[m].at = "merge" /\ wtJob[m].alone => wtHead = wtJob[m].target

WtInv == WtTyped /\ Books /\ Ceiling /\ MergesAlone /\ MergedWhereAsked /\ MergeIsEnded

\* Two sets of managers that differ at one of them at most.
LEMMA SizeMoves ==
  ASSUME NEW F, NEW G, NEW m \in WtManagers, F \subseteq WtManagers, F \ {m} = G \ {m}
  PROVE  /\ Cardinality(F) \in Nat /\ Cardinality(G) \in Nat
         /\ (m \in G <=> m \in F) => Cardinality(G) = Cardinality(F)
         /\ m \in G /\ m \notin F => Cardinality(G) = Cardinality(F) + 1
         /\ m \notin G /\ m \in F => Cardinality(F) = Cardinality(G) + 1
<1> DEFINE others == F \ {m}
<1>1. IsFiniteSet(others)
  BY WtAssumption, FS_Subset
<1>2. Cardinality(others) \in Nat /\ Cardinality(others \cup {m}) = Cardinality(others) + 1
  BY <1>1, FS_CardinalityType, FS_AddElement
<1>3. /\ IF m \in F THEN F = others \cup {m} ELSE F = others
      /\ IF m \in G THEN G = others \cup {m} ELSE G = others
  OBVIOUS
<1> HIDE DEF others
<1> QED
  BY <1>2, <1>3

\* No more managers are anywhere than there are.
LEMMA NumberBounds ==
  ASSUME NEW f, NEW P
  PROVE  /\ Number(f, P) \in Nat /\ Cardinality(WtManagers) \in Nat
         /\ Number(f, P) <= Cardinality(WtManagers)
         /\ JobsAt(f, P) = {} => Number(f, P) = 0
<1>1. JobsAt(f, P) \in SUBSET WtManagers
  BY DEF JobsAt
<1> QED
  BY <1>1, WtAssumption, FS_Subset, FS_CardinalityType, FS_EmptySet DEF Number

\* A step of one manager outside a merge leaves what is said of merges.
LEMMA TreeStep ==
  ASSUME WtTyped, MergesAlone, MergedWhereAsked, MergeIsEnded, UNCHANGED MergeVars,
         NEW m \in WtManagers, \A k \in WtManagers \ {m} : wtJob'[k] = wtJob[k],
         wtJob[m].at \notin {"abort"}, wtJob'[m].at \notin {"checkout", "merge", "abort", "merged"}
  PROVE  MergesAlone' /\ MergedWhereAsked' /\ MergeIsEnded'
<1>1. MergesAlone'
  BY DEF MergesAlone, MergesOf, MergeVars
<1>2. MergedWhereAsked'
  BY DEF MergedWhereAsked
<1>3. MergeIsEnded'
  BY DEF MergeIsEnded, MergeVars
<1> QED
  BY <1>1, <1>2, <1>3

\* A step that leaves the worktrees and those who create or destroy them leaves the books.
LEMMA MergeStep ==
  ASSUME WtTyped, Books, Ceiling, UNCHANGED TreeVars,
         \A k \in WtManagers : \/ wtJob'[k].at = wtJob[k].at
                              \/ {wtJob'[k].at, wtJob[k].at} \cap {"add", "count", "uncount"} = {}
  PROVE  Books' /\ Ceiling'
<1>1. ASSUME NEW P \in SUBSET {"add", "count", "uncount"}
      PROVE  Number(wtJob', P) = Number(wtJob, P)
  <2>1. JobsAt(wtJob', P) = JobsAt(wtJob, P)
    BY <1>1 DEF JobsAt
  <2> QED
    BY <2>1 DEF Number
<1>2. /\ Number(wtJob', {"count"}) = Number(wtJob, {"count"})
      /\ Number(wtJob', {"uncount"}) = Number(wtJob, {"uncount"})
      /\ Number(wtJob', {"add", "count"}) = Number(wtJob, {"add", "count"})
  BY <1>1
<1> QED
  BY <1>2 DEF Books, Ceiling, TreeVars

\* A set of places after a step of one manager.
LEMMA NumberStep ==
  ASSUME NEW m \in WtManagers, NEW P, \A k \in WtManagers \ {m} : wtJob'[k].at = wtJob[k].at
  PROVE  /\ Number(wtJob, P) \in Nat /\ Number(wtJob', P) \in Nat
         /\ (wtJob'[m].at \in P <=> wtJob[m].at \in P) => Number(wtJob', P) = Number(wtJob, P)
         /\ wtJob'[m].at \in P /\ wtJob[m].at \notin P => Number(wtJob', P) = Number(wtJob, P) + 1
         /\ wtJob'[m].at \notin P /\ wtJob[m].at \in P => Number(wtJob, P) = Number(wtJob', P) + 1
<1> DEFINE F == JobsAt(wtJob, P)
           G == JobsAt(wtJob', P)
<1>1. /\ F \subseteq WtManagers /\ F \ {m} = G \ {m}
      /\ m \in F <=> wtJob[m].at \in P
      /\ m \in G <=> wtJob'[m].at \in P
  BY DEF JobsAt
<1>2. Number(wtJob, P) = Cardinality(F) /\ Number(wtJob', P) = Cardinality(G)
  BY DEF Number
<1> HIDE DEF F, G
<1> QED
  BY <1>1, <1>2, SizeMoves

\* The three numbers after a step of one manager.
LEMMA NumbersStep ==
  ASSUME NEW m \in WtManagers, \A k \in WtManagers \ {m} : wtJob'[k] = wtJob[k]
  PROVE  \A P \in {{"count"}, {"uncount"}, {"add", "count"}} :
           /\ Number(wtJob, P) \in Nat /\ Number(wtJob', P) \in Nat
           /\ (wtJob'[m].at \in P <=> wtJob[m].at \in P) => Number(wtJob', P) = Number(wtJob, P)
           /\ wtJob'[m].at \in P /\ wtJob[m].at \notin P => Number(wtJob', P) = Number(wtJob, P) + 1
           /\ wtJob'[m].at \notin P /\ wtJob[m].at \in P => Number(wtJob, P) = Number(wtJob', P) + 1
<1>1. \A k \in WtManagers \ {m} : wtJob'[k].at = wtJob[k].at
  OBVIOUS
<1> TAKE P \in {{"count"}, {"uncount"}, {"add", "count"}}
<1> QED
  BY <1>1, NumberStep

LEMMA WtStarts == WtInit => WtInv
<1> SUFFICES ASSUME WtInit PROVE WtInv
  OBVIOUS
<1>1. \A m \in WtManagers : wtJob[m].at = "" /\ wtJob[m] \in WtJobs
  BY DEF WtInit, Rests, WtJobs, WtPlaces, WtNames
<1>2. WtTyped
  <2>1. IsFiniteSet(wtGit)
    BY FS_EmptySet DEF WtInit
  <2> QED
    BY <1>1, <2>1 DEF WtInit, WtTyped, WtNames
<1>3. \A P \in {{"count"}, {"uncount"}, {"add", "count"}} : Number(wtJob, P) = 0
  <2>1. \A P \in {{"count"}, {"uncount"}, {"add", "count"}} : JobsAt(wtJob, P) = {}
    BY <1>1 DEF JobsAt
  <2> QED
    BY <2>1, NumberBounds
<1>4. Books
  BY <1>3, FS_EmptySet DEF WtInit, Books
<1>5. Ceiling
  BY <1>3, NumberBounds, WtAssumption DEF WtInit, Ceiling
<1>6. MergesAlone /\ MergedWhereAsked /\ MergeIsEnded
  BY <1>1 DEF WtInit, MergesAlone, MergesOf, MergedWhereAsked, MergeIsEnded
<1> QED
  BY <1>2, <1>4, <1>5, <1>6 DEF WtInv

\* The steps that create a worktree.
LEMMA CreateSteps ==
  ASSUME WtInv, NEW m \in WtManagers,
         \/ \E b \in WtBranches : CreateWorktree(m, b)
         \/ AddWorktree(m) \/ CountWorktree(m)
  PROVE  WtInv'
<1> USE DEF WtInv
<1>1. wtJob[m] \in WtJobs /\ Rests \in WtJobs /\ Rests.at = ""
  BY DEF WtTyped, WtJobs, WtPlaces, WtNames, Rests
<1>2. CASE \E b \in WtBranches : CreateWorktree(m, b)
  <2> PICK b \in WtBranches : CreateWorktree(m, b)
    BY <1>2
  <2> DEFINE j == [Rests EXCEPT !.at = "add", !.todo = {b}]
  <2>1. j \in WtJobs /\ j.at = "add" /\ j.todo = {b}
    BY DEF Rests, WtJobs, WtPlaces, WtNames
  <2>2. wtJob[m].at = "" /\ wtCount < GlobalMax /\ wtJob' = [wtJob EXCEPT ![m] = j]
        /\ UNCHANGED <<wtGit, wtOwn, wtCount, wtClamped, wtHead, wtMerging>>
    BY <1>1 DEF CreateWorktree, MayCreate, Does, TreeVars, MergeVars
  <2> HIDE DEF j
  <2>3. wtJob'[m] = j /\ \A k \in WtManagers \ {m} : wtJob'[k] = wtJob[k]
    BY <2>2 DEF WtTyped
  <2>4. WtTyped'
    BY <2>1, <2>2, <2>3 DEF WtTyped, TreeVars, MergeVars
  <2>5. MergesAlone' /\ MergedWhereAsked' /\ MergeIsEnded'
    BY <2>1, <2>2, <2>3, TreeStep DEF MergeVars
  <2>6. Books'
    BY <2>1, <2>2, <2>3, NumbersStep DEF Books, TreeVars
  <2>7. Ceiling'
    <3>1. Number(wtJob', {"add", "count"}) \in Nat /\ Number(wtJob', {"add", "count"}) <= Cardinality(WtManagers)
          /\ Cardinality(WtManagers) \in Nat
      BY NumberBounds
    <3>2. wtCount \in Nat /\ GlobalMax \in Nat /\ wtCount < GlobalMax /\ wtCount' = wtCount
      BY <2>2, WtAssumption DEF WtTyped
    <3>3. wtCount' + Number(wtJob', {"add", "count"}) <= GlobalMax + Cardinality(WtManagers) - 1
      BY <3>1, <3>2
    <3> QED
      BY <3>3 DEF Ceiling
  <2> QED
    BY <2>4, <2>5, <2>6, <2>7
<1>3. CASE AddWorktree(m)
  <2>1. PICK b \in WtBranches : wtJob[m].todo = {b}
    BY <1>3 DEF AddWorktree, WtTyped
  <2>2. wtJob[m].at = "add" /\ UNCHANGED <<wtCount, wtRegistry, wtClamped, MergeVars>>
    BY <1>3 DEF AddWorktree
  <2>3. CASE wtJob[m].todo \cap (wtGit \cup {wtHead}) = {}
    <3> DEFINE j == [wtJob[m] EXCEPT !.at = "count"]
    <3>1. j \in WtJobs /\ j.at = "count"
      BY <1>1 DEF WtJobs, WtPlaces
    <3>2. wtGit' = wtGit \cup {b} /\ b \notin wtGit /\ wtJob' = [wtJob EXCEPT ![m] = j]
          /\ wtOwn' = [wtOwn EXCEPT ![m] = @ \cup {b}]
      BY <1>3, <2>1, <2>3 DEF AddWorktree, Does
    <3> HIDE DEF j
    <3>3. wtJob'[m] = j /\ \A k \in WtManagers \ {m} : wtJob'[k] = wtJob[k]
      BY <3>2 DEF WtTyped
    <3>4. IsFiniteSet(wtGit') /\ Cardinality(wtGit') = Cardinality(wtGit) + 1 /\ Cardinality(wtGit) \in Nat
      BY <3>2, FS_AddElement, FS_CardinalityType DEF WtTyped
    <3>5. WtTyped'
      BY <2>2, <3>1, <3>2, <3>3, <3>4 DEF WtTyped, MergeVars
    <3>6. MergesAlone' /\ MergedWhereAsked' /\ MergeIsEnded'
      BY <2>2, <3>1, <3>3, TreeStep
    <3>7. Books' /\ Ceiling'
      BY <2>2, <3>1, <3>3, <3>4, NumbersStep DEF Books, Ceiling, WtTyped
    <3> QED
      BY <3>5, <3>6, <3>7
  <2>4. CASE wtJob[m].todo \cap (wtGit \cup {wtHead}) # {}
    <3>1. wtJob' = [wtJob EXCEPT ![m] = Rests] /\ UNCHANGED <<wtGit, wtOwn>>
      BY <1>3, <2>4 DEF AddWorktree, Does
    <3>2. wtJob'[m] = Rests /\ \A k \in WtManagers \ {m} : wtJob'[k] = wtJob[k]
      BY <3>1 DEF WtTyped
    <3>3. WtTyped'
      BY <1>1, <2>2, <3>1, <3>2 DEF WtTyped, MergeVars
    <3>4. MergesAlone' /\ MergedWhereAsked' /\ MergeIsEnded'
      BY <1>1, <2>2, <3>2, TreeStep
    <3>5. Books'
      BY <1>1, <2>2, <3>1, <3>2, NumbersStep DEF Books
    <3>6. Number(wtJob, {"add", "count"}) = Number(wtJob', {"add", "count"}) + 1
          /\ Number(wtJob', {"add", "count"}) \in Nat
      BY <1>1, <2>2, <3>2, NumbersStep
    <3>7. Ceiling'
      BY <2>2, <3>6, NumberBounds, WtAssumption DEF Ceiling, WtTyped
    <3> QED
      BY <3>3, <3>4, <3>5, <3>7
  <2> QED
    BY <2>3, <2>4
<1>4. CASE CountWorktree(m)
  <2>1. wtJob[m].at = "count" /\ wtCount' = wtCount + 1 /\ wtJob' = [wtJob EXCEPT ![m] = Rests]
        /\ UNCHANGED <<wtGit, wtOwn, wtClamped, wtHead, wtMerging>>
    BY <1>4 DEF CountWorktree, Does, MergeVars
  <2>2. wtJob'[m] = Rests /\ \A k \in WtManagers \ {m} : wtJob'[k] = wtJob[k]
    BY <2>1 DEF WtTyped
  <2>3. WtTyped'
    <3>1. wtCount' \in Nat
      BY <2>1 DEF WtTyped
    <3>2. wtJob' \in [WtManagers -> WtJobs]
      BY <1>1, <2>1 DEF WtTyped
    <3> QED
      BY <1>1, <2>1, <2>2, <3>1, <3>2 DEF WtTyped
  <2>4. MergesAlone' /\ MergedWhereAsked' /\ MergeIsEnded'
    BY <1>1, <2>1, <2>2, TreeStep DEF MergeVars
  <2>5. Cardinality(wtGit) \in Nat
    BY FS_CardinalityType DEF WtTyped
  <2>6. /\ Number(wtJob, {"count"}) = Number(wtJob', {"count"}) + 1
        /\ Number(wtJob, {"add", "count"}) = Number(wtJob', {"add", "count"}) + 1
        /\ Number(wtJob', {"uncount"}) = Number(wtJob, {"uncount"})
        /\ \A P \in {{"count"}, {"uncount"}, {"add", "count"}} : Number(wtJob', P) \in Nat
    BY <1>1, <2>1, <2>2, NumbersStep
  <2>7. Books'
    BY <2>1, <2>5, <2>6 DEF Books, WtTyped
  <2>8. Ceiling'
    BY <2>1, <2>6, NumberBounds, WtAssumption DEF Ceiling, WtTyped
  <2> QED
    BY <2>3, <2>4, <2>7, <2>8
<1> QED
  BY <1>2, <1>3, <1>4

\* The job of one manager after its step.
LEMMA JobStep ==
  ASSUME WtTyped, NEW m \in WtManagers, NEW j \in WtJobs, j.at # "add",
         wtJob' = [wtJob EXCEPT ![m] = j]
  PROVE  /\ wtJob' \in [WtManagers -> WtJobs]
         /\ wtJob'[m] = j /\ \A k \in WtManagers \ {m} : wtJob'[k] = wtJob[k]
         /\ \A k \in WtManagers : wtJob'[k].at = "add" => \E b \in WtBranches : wtJob'[k].todo = {b}
BY DEF WtTyped

\* The steps that destroy a worktree.
LEMMA DestroySteps ==
  ASSUME WtInv, NEW m \in WtManagers,
         \/ \E todo \in SUBSET WtBranches : DestroyWorktrees(m, todo)
         \/ RemoveWorktree(m) \/ UncountWorktree(m)
  PROVE  WtInv'
<1> USE DEF WtInv
<1>1. wtJob[m] \in WtJobs /\ Rests \in WtJobs /\ Rests.at = ""
  BY DEF WtTyped, WtJobs, WtPlaces, WtNames, Rests
<1>2. ASSUME NEW b PROVE After(wtJob[m], b) \in WtJobs /\ After(wtJob[m], b).at \in {"", "remove"}
  BY <1>1 DEF After, WtJobs, WtPlaces
<1>3. CASE \E todo \in SUBSET WtBranches : DestroyWorktrees(m, todo)
  <2> PICK todo \in SUBSET WtBranches : DestroyWorktrees(m, todo)
    BY <1>3
  <2> DEFINE j == [Rests EXCEPT !.at = "remove", !.todo = todo]
  <2>1. j \in WtJobs /\ j.at = "remove"
    BY DEF Rests, WtJobs, WtPlaces, WtNames
  <2>2. wtJob[m].at = "" /\ wtJob' = [wtJob EXCEPT ![m] = j]
        /\ UNCHANGED <<wtGit, wtOwn, wtCount, wtRegistry, wtClamped, wtHead, wtMerging>>
    BY <1>1 DEF DestroyWorktrees, Does, TreeVars, MergeVars
  <2> HIDE DEF j
  <2>3. WtTyped'
    BY <2>1, <2>2, JobStep DEF WtTyped
  <2>4. wtJob'[m] = j /\ \A k \in WtManagers \ {m} : wtJob'[k] = wtJob[k]
    BY <2>1, <2>2, JobStep
  <2>5. MergesAlone' /\ MergedWhereAsked' /\ MergeIsEnded'
    BY <2>1, <2>2, <2>4, TreeStep DEF MergeVars
  <2>6. Books' /\ Ceiling'
    BY <2>1, <2>2, <2>4, MergeStep DEF TreeVars
  <2> QED
    BY <2>3, <2>5, <2>6
<1>4. CASE RemoveWorktree(m)
  <2>1. PICK b \in wtJob[m].todo :
          /\ wtOwn' = [wtOwn EXCEPT ![m] = Drops(m, b)] /\ wtGit' = wtGit \ {b}
          /\ Does(m, IF b \in wtGit THEN [wtJob[m] EXCEPT !.at = "uncount", !.target = b]
                                    ELSE After(wtJob[m], b))
    BY <1>4 DEF RemoveWorktree
  <2>2. wtJob[m].at = "remove" /\ UNCHANGED <<wtCount, wtRegistry, wtClamped, wtHead, wtMerging>>
    BY <1>4 DEF RemoveWorktree, MergeVars
  <2>3. b \in WtBranches
    BY <1>1 DEF WtJobs
  <2>4. wtOwn' \in [WtManagers -> SUBSET WtBranches]
    BY <2>1 DEF Drops, WtTyped
  <2>5. CASE b \in wtGit
    <3> DEFINE j == [wtJob[m] EXCEPT !.at = "uncount", !.target = b]
    <3>1. j \in WtJobs /\ j.at = "uncount"
      BY <1>1, <2>3 DEF WtJobs, WtPlaces, WtNames
    <3>2. wtJob' = [wtJob EXCEPT ![m] = j]
      BY <2>1, <2>5 DEF Does
    <3> HIDE DEF j
    <3>3. wtJob'[m] = j /\ \A k \in WtManagers \ {m} : wtJob'[k] = wtJob[k]
      BY <3>1, <3>2, JobStep
    <3>4. IsFiniteSet(wtGit') /\ Cardinality(wtGit) = Cardinality(wtGit') + 1 /\ Cardinality(wtGit') \in Nat
      <4>1. IsFiniteSet(wtGit \ {b}) /\ Cardinality(wtGit \ {b}) = Cardinality(wtGit) - 1
            /\ Cardinality(wtGit) \in Nat /\ Cardinality(wtGit \ {b}) \in Nat
        BY <2>5, FS_RemoveElement, FS_CardinalityType DEF WtTyped
      <4> QED
        BY <2>1, <4>1
    <3>5. WtTyped'
      BY <2>2, <2>4, <3>1, <3>2, <3>4, JobStep DEF WtTyped
    <3>6. MergesAlone' /\ MergedWhereAsked' /\ MergeIsEnded'
      BY <2>2, <3>1, <3>3, TreeStep DEF MergeVars
    <3>7. /\ Number(wtJob', {"count"}) = Number(wtJob, {"count"})
          /\ Number(wtJob', {"add", "count"}) = Number(wtJob, {"add", "count"})
          /\ Number(wtJob', {"uncount"}) = Number(wtJob, {"uncount"}) + 1
          /\ \A P \in {{"count"}, {"uncount"}, {"add", "count"}} : Number(wtJob, P) \in Nat
      BY <2>2, <3>1, <3>3, NumbersStep
    <3>8. Books'
      BY <2>2, <3>4, <3>7 DEF Books, WtTyped
    <3>9. Ceiling'
      BY <2>2, <3>7 DEF Ceiling
    <3> QED
      BY <3>5, <3>6, <3>8, <3>9
  <2>6. CASE b \notin wtGit
    <3> DEFINE j == After(wtJob[m], b)
    <3>1. j \in WtJobs /\ j.at \in {"", "remove"}
      BY <1>2
    <3>2. wtJob' = [wtJob EXCEPT ![m] = j] /\ wtGit' = wtGit
      BY <2>1, <2>6 DEF Does
    <3> HIDE DEF j
    <3>3. wtJob'[m] = j /\ \A k \in WtManagers \ {m} : wtJob'[k] = wtJob[k]
      BY <3>1, <3>2, JobStep
    <3>4. WtTyped'
      BY <2>2, <2>4, <3>1, <3>2, JobStep DEF WtTyped
    <3>5. MergesAlone' /\ MergedWhereAsked' /\ MergeIsEnded'
      BY <2>2, <3>1, <3>3, TreeStep DEF MergeVars
    <3>6. \A P \in {{"count"}, {"uncount"}, {"add", "count"}} : Number(wtJob', P) = Number(wtJob, P)
      BY <2>2, <3>1, <3>3, NumbersStep
    <3>7. Books' /\ Ceiling'
      BY <2>2, <3>2, <3>6 DEF Books, Ceiling
    <3> QED
      BY <3>4, <3>5, <3>7
  <2> QED
    BY <2>5, <2>6
<1>5. CASE UncountWorktree(m)
  <2> DEFINE j == [After(wtJob[m], wtJob[m].target) EXCEPT !.target = ""]
  <2>1. j \in WtJobs /\ j.at \in {"", "remove"}
    BY <1>2 DEF WtJobs, WtNames
  <2>2. wtJob[m].at = "uncount" /\ wtJob' = [wtJob EXCEPT ![m] = j]
        /\ wtCount' = Lowered(wtJob[m].target) /\ wtClamped' = wtClamped + (IF wtCount = 0 THEN 1 ELSE 0)
        /\ UNCHANGED <<wtGit, wtOwn, wtHead, wtMerging>>
    BY <1>5 DEF UncountWorktree, Does, MergeVars
  <2> HIDE DEF j
  <2>3. wtJob'[m] = j /\ \A k \in WtManagers \ {m} : wtJob'[k] = wtJob[k]
    BY <2>1, <2>2, JobStep
  <2>4. /\ wtCount \in Nat /\ wtClamped \in Nat /\ wtCount' \in Nat /\ wtClamped' \in Nat
        /\ wtCount' <= wtCount /\ wtClamped' + wtCount = wtClamped + wtCount' + 1
    BY <2>2 DEF Lowered, WtTyped
  <2>5. WtTyped'
    BY <2>1, <2>2, <2>4, JobStep DEF WtTyped
  <2>6. MergesAlone' /\ MergedWhereAsked' /\ MergeIsEnded'
    BY <2>1, <2>2, <2>3, TreeStep DEF MergeVars
  <2>7. /\ Number(wtJob', {"count"}) = Number(wtJob, {"count"})
        /\ Number(wtJob', {"add", "count"}) = Number(wtJob, {"add", "count"})
        /\ Number(wtJob, {"uncount"}) = Number(wtJob', {"uncount"}) + 1
        /\ Number(wtJob', {"count"}) \in Nat /\ Number(wtJob', {"uncount"}) \in Nat
    BY <2>1, <2>2, <2>3, NumbersStep
  <2>8. Cardinality(wtGit) \in Nat /\ wtGit' = wtGit
    BY <2>2, FS_CardinalityType DEF WtTyped
  <2>9. Books'
    BY <2>4, <2>7, <2>8 DEF Books
  <2>10. Ceiling'
    BY <2>4, <2>7, NumberBounds, WtAssumption DEF Ceiling
  <2> QED
    BY <2>5, <2>6, <2>9, <2>10
<1> QED
  BY <1>3, <1>4, <1>5

\* The steps of a merge.
LEMMA MergeSteps ==
  ASSUME WtInv, NEW m \in WtManagers,
         \/ \E b \in WtBranches, t \in WtTargets : MergeWorktree(m, b, t)
         \/ MergeCheckout(m) \/ GitMerge(m) \/ AbortMerge(m) \/ MergeReturns(m)
  PROVE  WtInv'
<1> USE DEF WtInv
<1>1. wtJob[m] \in WtJobs /\ Rests \in WtJobs /\ Rests.at = ""
  BY DEF WtTyped, WtJobs, WtPlaces, WtNames, Rests
<1>2. CASE \E b \in WtBranches, t \in WtTargets : MergeWorktree(m, b, t)
  <2> PICK b \in WtBranches, t \in WtTargets : MergeWorktree(m, b, t)
    BY <1>2
  <2>1. wtJob[m].at = "" /\ UNCHANGED <<wtGit, wtOwn, wtCount, wtRegistry, wtClamped, wtHead, wtMerging>>
    BY <1>1 DEF MergeWorktree, TreeVars, MergeVars
  <2>2. /\ wtJob'[m] \in WtJobs /\ wtJob'[m].at = "checkout" /\ wtJob'[m].alone = ~Overlap(m)
        /\ DOMAIN wtJob' = WtManagers /\ wtJob' = [n \in WtManagers |-> wtJob'[n]]
    BY DEF MergeWorktree, WtTyped, WtJobs, WtPlaces, WtNames
  <2>3. ASSUME NEW k \in WtManagers, k # m
        PROVE  /\ wtJob'[k] \in WtJobs /\ wtJob'[k].at = wtJob[k].at /\ wtJob'[k].todo = wtJob[k].todo
               /\ MergesOf(wtJob[k]) => ~wtJob'[k].alone /\ Overlap(m)
               /\ ~MergesOf(wtJob[k]) => wtJob'[k] = wtJob[k]
    <3>1. wtJob[k] \in WtJobs
      BY DEF WtTyped
    <3>2. wtJob'[k] = IF MergesOf(wtJob[k]) THEN [wtJob[k] EXCEPT !.alone = FALSE] ELSE wtJob[k]
      BY <2>3 DEF MergeWorktree
    <3>3. MergesOf(wtJob[k]) => Overlap(m)
      BY <2>3 DEF Overlap
    <3> QED
      BY <3>1, <3>2, <3>3 DEF WtJobs
  <2>4. WtTyped'
    <3>1. wtJob' \in [WtManagers -> WtJobs]
      BY <2>2, <2>3
    <3> QED
      BY <2>1, <2>2, <2>3, <3>1 DEF WtTyped
  <2>5. MergesAlone'
    <3>1. ASSUME NEW i \in WtManagers, NEW k \in WtManagers, i # k, MergesOf(wtJob'[i]), MergesOf(wtJob'[k])
          PROVE  ~wtJob'[i].alone
      <4>1. CASE i = m
        BY <2>2, <2>3, <3>1, <4>1 DEF MergesOf
      <4>2. CASE i # m
        BY <2>3, <3>1, <4>2 DEF MergesOf
      <4> QED
        BY <4>1, <4>2
    <3>2. ASSUME NEW k \in WtManagers, wtJob'[k].at = "merge" PROVE ~wtJob'[k].alone
      BY <2>2, <2>3, <3>2 DEF MergesOf
    <3> QED
      BY <3>1, <3>2 DEF MergesAlone
  <2>6. MergedWhereAsked'
    BY <2>2, <2>3 DEF MergedWhereAsked, MergesOf
  <2>7. MergeIsEnded'
    BY <2>1, <2>3 DEF MergeIsEnded
  <2>8. Books' /\ Ceiling'
    BY <2>1, <2>2, <2>3, MergeStep DEF TreeVars
  <2> QED
    BY <2>4, <2>5, <2>6, <2>7, <2>8
<1>3. CASE MergeCheckout(m)
  <2> DEFINE t == wtJob[m].target
             j == [wtJob[m] EXCEPT !.at = IF Refuses(t) THEN "abort" ELSE "merge"]
  <2>1. /\ j \in WtJobs /\ j.at = (IF Refuses(t) THEN "abort" ELSE "merge")
        /\ j.target = t /\ j.alone = wtJob[m].alone /\ t \in WtNames
    BY <1>1 DEF WtJobs, WtPlaces
  <2>2. /\ wtJob[m].at = "checkout" /\ wtJob' = [wtJob EXCEPT ![m] = j]
        /\ wtHead' = (IF Refuses(t) THEN wtHead ELSE t)
        /\ UNCHANGED <<wtGit, wtOwn, wtCount, wtRegistry, wtClamped, wtMerging>>
    BY <1>3 DEF MergeCheckout, Does, TreeVars
  <2> HIDE DEF j, t
  <2>3. wtJob'[m] = j /\ \A k \in WtManagers \ {m} : wtJob'[k] = wtJob[k]
    BY <2>1, <2>2, JobStep
  <2>4. WtTyped'
    BY <2>1, <2>2, JobStep DEF WtTyped
  <2>5. MergesAlone'
    BY <2>1, <2>2, <2>3 DEF MergesAlone, MergesOf
  <2>6. MergedWhereAsked' /\ MergeIsEnded'
    BY <2>1, <2>2, <2>3 DEF MergedWhereAsked, MergeIsEnded
  <2>7. Books' /\ Ceiling'
    BY <2>1, <2>2, <2>3, MergeStep DEF TreeVars
  <2> QED
    BY <2>4, <2>5, <2>6, <2>7
<1>4. CASE GitMerge(m)
  <2>1. wtJob[m].at = "merge"
        /\ UNCHANGED <<wtGit, wtOwn, wtCount, wtRegistry, wtClamped, wtHead>>
    BY <1>4 DEF GitMerge, TreeVars
  <2>2. ASSUME NEW j \in WtJobs, j.at \in {"merged", "abort"}, wtJob' = [wtJob EXCEPT ![m] = j],
               wtMerging' \in BOOLEAN, j.at = "merged" => (j.alone => j.into = j.target),
               wtMerging' => wtMerging \/ j.at = "abort", j.alone = wtJob[m].alone
        PROVE  WtInv'
    <3>1. wtJob'[m] = j /\ \A k \in WtManagers \ {m} : wtJob'[k] = wtJob[k]
      BY <2>2, JobStep
    <3>2. WtTyped'
      BY <2>1, <2>2, JobStep DEF WtTyped
    <3>3. MergesAlone'
      BY <2>1, <2>2, <3>1 DEF MergesAlone, MergesOf
    <3>4. MergedWhereAsked' /\ MergeIsEnded'
      BY <2>1, <2>2, <3>1 DEF MergedWhereAsked, MergeIsEnded
    <3>5. Books' /\ Ceiling'
      BY <2>1, <2>2, <3>1, MergeStep DEF TreeVars
    <3> QED
      BY <3>2, <3>3, <3>4, <3>5
  <2>3. CASE Does(m, [wtJob[m] EXCEPT !.at = "abort"]) /\ wtMerging' = (wtMerging \/ wtJob[m].todo # {})
    <3> DEFINE j == [wtJob[m] EXCEPT !.at = "abort"]
    <3>1. j \in WtJobs /\ j.at = "abort" /\ j.alone = wtJob[m].alone /\ wtJob' = [wtJob EXCEPT ![m] = j]
          /\ wtMerging' \in BOOLEAN
      BY <1>1, <2>3 DEF WtJobs, WtPlaces, Does
    <3> HIDE DEF j
    <3> QED
      BY <2>2, <3>1
  <2>4. CASE Does(m, [wtJob[m] EXCEPT !.at = "merged", !.into = wtHead]) /\ UNCHANGED wtMerging
    <3> DEFINE j == [wtJob[m] EXCEPT !.at = "merged", !.into = wtHead]
    <3>1. j \in WtJobs /\ j.at = "merged" /\ j.alone = wtJob[m].alone /\ wtJob' = [wtJob EXCEPT ![m] = j]
          /\ j.into = wtHead /\ j.target = wtJob[m].target /\ wtMerging' = wtMerging /\ wtMerging \in BOOLEAN
      BY <1>1, <2>4 DEF WtTyped, WtJobs, WtPlaces, Does
    <3>2. wtJob[m].alone => wtHead = wtJob[m].target
      BY <2>1 DEF MergesAlone
    <3> HIDE DEF j
    <3> QED
      BY <2>2, <3>1, <3>2
  <2> QED
    BY <1>4, <2>3, <2>4 DEF GitMerge
<1>5. CASE AbortMerge(m)
  <2>1. /\ wtJob[m].at = "abort" /\ wtJob' = [wtJob EXCEPT ![m] = Rests] /\ wtMerging' = FALSE
        /\ UNCHANGED <<wtGit, wtOwn, wtCount, wtRegistry, wtClamped, wtHead>>
    BY <1>5 DEF AbortMerge, Does, TreeVars
  <2>2. wtJob'[m] = Rests /\ \A k \in WtManagers \ {m} : wtJob'[k] = wtJob[k]
    BY <1>1, <2>1, JobStep
  <2>3. WtTyped'
    BY <1>1, <2>1, JobStep DEF WtTyped
  <2>4. MergesAlone'
    BY <1>1, <2>1, <2>2 DEF MergesAlone, MergesOf
  <2>5. MergedWhereAsked' /\ MergeIsEnded'
    BY <1>1, <2>1, <2>2 DEF MergedWhereAsked, MergeIsEnded
  <2>6. Books' /\ Ceiling'
    BY <1>1, <2>1, <2>2, MergeStep DEF TreeVars
  <2> QED
    BY <2>3, <2>4, <2>5, <2>6
<1>6. CASE MergeReturns(m)
  <2>1. /\ wtJob[m].at = "merged" /\ wtJob' = [wtJob EXCEPT ![m] = Rests]
        /\ UNCHANGED <<wtGit, wtOwn, wtCount, wtRegistry, wtClamped, wtHead, wtMerging>>
    BY <1>6 DEF MergeReturns, Does, TreeVars, MergeVars
  <2>2. wtJob'[m] = Rests /\ \A k \in WtManagers \ {m} : wtJob'[k] = wtJob[k]
    BY <1>1, <2>1, JobStep
  <2>3. WtTyped'
    BY <1>1, <2>1, JobStep DEF WtTyped
  <2>4. MergesAlone' /\ MergedWhereAsked' /\ MergeIsEnded'
    BY <1>1, <2>1, <2>2, TreeStep DEF MergeVars
  <2>5. Books' /\ Ceiling'
    BY <1>1, <2>1, <2>2, MergeStep DEF TreeVars
  <2> QED
    BY <2>3, <2>4, <2>5
<1> QED
  BY <1>2, <1>3, <1>4, <1>5, <1>6

LEMMA WtSteps == WtInv /\ [WtNext]_wtVars => WtInv'
<1> SUFFICES ASSUME WtInv, [WtNext]_wtVars PROVE WtInv'
  OBVIOUS
<1>1. CASE UNCHANGED wtVars
  BY <1>1 DEF wtVars, WtInv, WtTyped, Books, Ceiling, Number, JobsAt, MergesAlone, MergedWhereAsked, MergeIsEnded
<1>2. CASE WtNext
  BY <1>2, CreateSteps, DestroySteps, MergeSteps DEF WtNext
<1> QED
  BY <1>1, <1>2

LEMMA WtInvImplies == WtInv => WorktreesAddUp
<1> SUFFICES ASSUME WtInv PROVE WorktreesAddUp
  OBVIOUS
<1> USE DEF WtInv
<1>1. OvershootIsBounded
  BY NumberBounds, WtAssumption DEF Ceiling, OvershootIsBounded, WtTyped
<1>2. CountTracksGit
  <2> SUFFICES ASSUME \A m \in WtManagers : wtJob[m].at \notin {"count", "uncount"}
               PROVE  wtCount = Cardinality(wtGit) + wtClamped
    BY DEF CountTracksGit
  <2>1. JobsAt(wtJob, {"count"}) = {} /\ JobsAt(wtJob, {"uncount"}) = {}
    BY DEF JobsAt
  <2>2. Number(wtJob, {"count"}) = 0 /\ Number(wtJob, {"uncount"}) = 0
    BY <2>1, NumberBounds
  <2>3. Cardinality(wtGit) \in Nat
    BY FS_CardinalityType DEF WtTyped
  <2> QED
    BY <2>2, <2>3 DEF Books, WtTyped
<1> QED
  BY <1>1, <1>2 DEF WorktreesAddUp

\* Whatever git commands and counts of however many managers come between each other, their
\* count passes its ceiling by less than the number of managers, it is git's number again
\* when no call is between the two, a merge that was alone is in the branch it was asked for,
\* and one left half done has a caller about to abort it (create_worktree, destroy_worktree,
\* merge_worktree).
THEOREM WorktreesTracked == WtSpec => []WorktreesAddUp
<1> QED
  BY WtStarts, WtSteps, WtInvImplies, PTL DEF WtSpec

-----------------------------------------------------------------------------
(* The vault and the identities. *)

VaultSteps == {"closed", "open", "adding", "added", "removed", "verified", "writing", "rewriting"}
Writing == {"writing", "rewriting"}

Users ==
  [at : VaultSteps, pass : Passphrases \cup {""}, keys : SUBSET VaultKeys,
   valid : SUBSET VaultKeys, key : VaultKeys \cup {""}, fresh : BOOLEAN]
Files == [pass : Passphrases \cup {"", "none"}, keys : SUBSET VaultKeys]
VaultTyped ==
  /\ vtFile \in Files /\ vtUser \in [VaultUsers -> Users]
  /\ vtFile.pass = "none" => vtFile.keys = {}
  /\ vtOwed \subseteq VaultKeys /\ vtStale \in BOOLEAN /\ vtBlind \in BOOLEAN

\* What a process holds is usable; it opened the vault with a passphrase, and holds the
\* key that it is adding once that is stored.
Held(w) ==
  /\ w.valid = w.keys
  /\ w.at # "closed" => w.pass \in Passphrases
  /\ w.at = "adding" => w.key \in VaultKeys
  /\ w.at \in {"added", "writing"} => w.key \in w.keys

Fresh(w) == w.at # "closed" /\ w.fresh
\* Unless one saved that was not fresh, or an open could not read the file: the keys owed
\* are in the file if it is whole, and with every process that is fresh; and a process that
\* writes is the only fresh one.
Owing(u) ==
  /\ Fresh(vtUser[u]) => vtOwed \subseteq vtUser[u].keys
  /\ vtUser[u].at \in Writing =>
       /\ vtFile.pass = "" /\ Fresh(vtUser[u])
       /\ \A v \in VaultUsers : Fresh(vtUser[v]) => v = u
Clean == ~vtStale /\ ~vtBlind
FileOwes == Clean /\ vtFile.pass # "" => vtOwed \subseteq vtFile.keys
UsersOwe == Clean => \A u \in VaultUsers : Owing(u)

VaultInv ==
  VaultTyped /\ (\A u \in VaultUsers : Held(vtUser[u])) /\ FileOwes /\ UsersOwe

LEMMA ClosedUser == NotOpen \in Users /\ Held(NotOpen) /\ ~Fresh(NotOpen) /\ NotOpen.at \notin Writing
BY DEF NotOpen, Users, VaultSteps, Held, Fresh, Writing

LEMMA VaultStarts == VaultInit => VaultInv
<1> SUFFICES ASSUME VaultInit PROVE VaultInv
  OBVIOUS
<1>1. vtFile \in Files /\ vtFile.pass = "none" /\ vtFile.keys = {}
  BY DEF VaultInit, Files
<1>2. vtUser \in [VaultUsers -> Users] /\ \A u \in VaultUsers : vtUser[u] = NotOpen
  BY ClosedUser DEF VaultInit
<1>3. VaultTyped
  BY <1>1, <1>2 DEF VaultInit, VaultTyped
<1>4. QED BY <1>1, <1>2, <1>3, ClosedUser DEF VaultInit, VaultInv, FileOwes, UsersOwe, Owing

\* A step of one process: what it becomes, and what that is to the others.
LEMMA UserMoves ==
    ASSUME VaultInv, NEW u \in VaultUsers, NEW w \in Users, Held(w), SetUser(u, w)
    PROVE  /\ vtUser' \in [VaultUsers -> Users]
           /\ vtUser'[u] = w /\ \A v \in VaultUsers \ {u} : vtUser'[v] = vtUser[v]
           /\ \A v \in VaultUsers : Held(vtUser[v])'
<1>1. vtUser \in [VaultUsers -> Users] /\ vtUser' = [vtUser EXCEPT ![u] = w]
  BY DEF VaultInv, VaultTyped, SetUser
<1>2. vtUser' \in [VaultUsers -> Users]
      /\ vtUser'[u] = w /\ \A v \in VaultUsers \ {u} : vtUser'[v] = vtUser[v]
  BY <1>1
<1>3. QED BY <1>2 DEF VaultInv, Held

\* A step after which a process does not write, and is fresh only if it was and holds
\* what is owed of the keys it held.
LEMMA QuietMove ==
    ASSUME VaultInv, NEW u \in VaultUsers, NEW w \in Users, Held(w), SetUser(u, w),
           w.at \notin Writing, vtOwed' \subseteq vtOwed,
           Fresh(w) => Fresh(vtUser[u]) /\ vtOwed' \cap vtUser[u].keys \subseteq w.keys,
           UNCHANGED <<vtFile, vtStale, vtBlind>>
    PROVE  VaultInv'
<1>1. /\ vtUser' \in [VaultUsers -> Users]
      /\ vtUser'[u] = w /\ \A v \in VaultUsers \ {u} : vtUser'[v] = vtUser[v]
      /\ \A v \in VaultUsers : Held(vtUser[v])'
  BY UserMoves
<1>2. VaultTyped'
  BY <1>1 DEF VaultInv, VaultTyped
<1>3. FileOwes'
  BY DEF VaultInv, FileOwes, Clean
<1>4. ASSUME Clean, NEW v \in VaultUsers PROVE Owing(v)'
  <2>1. \A x \in VaultUsers : Owing(x)
    BY <1>4 DEF VaultInv, UsersOwe
  <2>2. \A x \in VaultUsers : Fresh(vtUser'[x]) => Fresh(vtUser[x])
    BY <1>1 DEF Fresh
  <2>3. Fresh(vtUser'[v]) => vtOwed' \subseteq vtUser'[v].keys
    BY <1>1, <2>1, <2>2 DEF Owing
  <2>4. ASSUME vtUser'[v].at \in Writing
        PROVE  /\ vtFile'.pass = "" /\ Fresh(vtUser'[v])
               /\ \A x \in VaultUsers : Fresh(vtUser'[x]) => x = v
    BY <1>1, <2>1, <2>2, <2>4 DEF Owing
  <2>5. QED BY <2>3, <2>4 DEF Owing, Fresh
<1>5. UsersOwe'
  BY <1>4 DEF UsersOwe, Clean
<1>6. QED BY <1>1, <1>2, <1>3, <1>5 DEF VaultInv

LEMMA UserFields ==
    ASSUME NEW w \in Users
    PROVE  /\ w.keys \subseteq VaultKeys /\ w.valid \subseteq VaultKeys /\ w.fresh \in BOOLEAN
           /\ w.at \in VaultSteps /\ w.key \in VaultKeys \cup {""}
           /\ w.pass \in Passphrases \cup {""}
BY DEF Users

LEMMA OpenVaultKeeps ==
    ASSUME VaultInv, NEW u \in VaultUsers, NEW pass \in Passphrases, OpenVault(u, pass)
    PROVE  VaultInv'
<1> DEFINE keys == IF vtFile.pass = pass THEN vtFile.keys ELSE {}
           w == [at |-> "open", pass |-> pass, keys |-> keys, valid |-> keys, key |-> "",
                 fresh |-> TRUE]
<1>1. vtFile \in Files /\ keys \subseteq VaultKeys
  BY DEF VaultInv, VaultTyped, Files
<1>2. w \in Users /\ Held(w) /\ Fresh(w) /\ w.at \notin Writing /\ w.keys = keys
  BY <1>1 DEF Users, VaultSteps, Held, Fresh, Writing
<1>3. /\ SetUser(u, w) /\ vtUser[u].at = "closed" /\ UNCHANGED <<vtFile, vtOwed, vtStale>>
      /\ vtBlind' = (vtBlind \/ (vtFile.pass # pass /\ vtFile.pass # "none"))
  BY DEF OpenVault, VaultAt
<1> HIDE DEF w
<1>4. /\ vtUser' \in [VaultUsers -> Users]
      /\ vtUser'[u] = w /\ \A v \in VaultUsers \ {u} : vtUser'[v] = vtUser[v]
      /\ \A v \in VaultUsers : Held(vtUser[v])'
  BY <1>2, <1>3, UserMoves
<1>5. VaultTyped'
  BY <1>3, <1>4 DEF VaultInv, VaultTyped
<1>6. FileOwes'
  BY <1>3 DEF VaultInv, FileOwes, Clean, VaultTyped
<1>7. ASSUME Clean', NEW v \in VaultUsers PROVE Owing(v)'
  <2>1. Clean /\ vtFile.pass \in {pass, "none"}
    BY <1>3, <1>7 DEF Clean, VaultInv, VaultTyped
  <2>2. vtFile.pass # ""
    BY <2>1, PassphrasesAssumption
  <2>3. vtOwed \subseteq keys
    <3>1. vtOwed \subseteq vtFile.keys
      BY <2>1, <2>2 DEF VaultInv, FileOwes
    <3>2. CASE vtFile.pass = pass
      BY <3>1, <3>2
    <3>3. CASE vtFile.pass = "none"
      BY <3>1, <3>3 DEF VaultInv, VaultTyped
    <3>4. QED BY <2>1, <3>2, <3>3
  <2>4. QED BY <1>2, <1>3, <1>4, <2>1, <2>2, <2>3 DEF VaultInv, UsersOwe, Owing, Fresh
<1>8. QED BY <1>4, <1>5, <1>6, <1>7 DEF VaultInv, UsersOwe

LEMMA SaveBeginsKeeps ==
    ASSUME VaultInv, NEW u \in VaultUsers, SaveBegins(u)
    PROVE  VaultInv'
<1> DEFINE at == IF vtUser[u].at = "added" THEN "writing" ELSE "rewriting"
           Next(v) == IF v # u THEN [vtUser[v] EXCEPT !.fresh = FALSE] ELSE [vtUser[v] EXCEPT !.at = at]
<1>1. /\ vtUser \in [VaultUsers -> Users] /\ vtUser[u].at \in Saving
      /\ vtUser' = [v \in VaultUsers |-> Next(v)]
  BY DEF VaultInv, VaultTyped, SaveBegins, VaultAt
<1>2. ASSUME NEW v \in VaultUsers PROVE Next(v) \in Users /\ Held(Next(v))
  <2>1. vtUser[v] \in Users /\ Held(vtUser[v])
    BY <1>1 DEF VaultInv
  <2>2. CASE v # u
    <3> DEFINE w == [vtUser[v] EXCEPT !.fresh = FALSE]
    <3>1. w \in Users
      BY <2>1 DEF Users
    <3>2. Held(w)
      BY <2>1 DEF Users, Held
    <3>3. QED BY <2>2, <3>1, <3>2
  <2>3. CASE v = u
    <3> DEFINE w == [vtUser[u] EXCEPT !.at = at]
    <3>1. w \in Users
      BY <2>1, <2>3 DEF Users, VaultSteps
    <3>2. Held(w)
      BY <1>1, <2>1, <2>3 DEF Users, Held, Saving
    <3>3. QED BY <2>3, <3>1, <3>2
  <2>4. QED BY <2>2, <2>3
<1>3. vtUser' \in [VaultUsers -> Users] /\ \A v \in VaultUsers : vtUser'[v] = Next(v)
  BY <1>1, <1>2
<1>4. \A v \in VaultUsers : Held(vtUser[v])'
  BY <1>2, <1>3
<1>5. /\ vtFile' \in Files /\ vtFile'.pass = "" /\ UNCHANGED <<vtOwed, vtBlind>>
      /\ vtStale' = (vtStale \/ ~vtUser[u].fresh)
  BY DEF SaveBegins, Files
<1>6. VaultTyped' /\ FileOwes'
  BY <1>1, <1>3, <1>5, UserFields DEF VaultInv, VaultTyped, FileOwes
<1>7. ASSUME Clean', NEW v \in VaultUsers PROVE Owing(v)'
  <2>1. Clean /\ vtUser[u].fresh
    BY <1>1, <1>5, <1>7, UserFields DEF Clean, VaultInv, VaultTyped
  <2>2. Fresh(vtUser[u])
    BY <1>1, <2>1 DEF Fresh, Saving
  <2>3. vtOwed \subseteq vtUser[u].keys /\ \A x \in VaultUsers : vtUser[x].at \in Writing => x = u
    BY <2>1, <2>2 DEF VaultInv, UsersOwe, Owing
  <2>4. vtUser'[u].keys = vtUser[u].keys /\ Fresh(vtUser'[u])
    BY <1>1, <1>3, <2>2 DEF Users, Fresh
  <2>5. ASSUME NEW x \in VaultUsers \ {u}
        PROVE  ~Fresh(vtUser'[x]) /\ vtUser'[x].at = vtUser[x].at
    <3>1. vtUser[x] \in Users /\ vtUser'[x] = [vtUser[x] EXCEPT !.fresh = FALSE]
      BY <1>1, <1>3
    <3>2. QED BY <3>1 DEF Users, Fresh
  <2>6. u # v => vtUser'[v].at \notin Writing
    BY <2>3, <2>5
  <2>7. CASE v = u
    <3>1. \A x \in VaultUsers : Fresh(vtUser'[x]) => x = u
      BY <2>5
    <3>2. QED BY <1>5, <2>3, <2>4, <2>7, <3>1 DEF Owing, Fresh
  <2>8. CASE v # u
    BY <2>5, <2>6, <2>8 DEF Owing, Fresh
  <2>9. QED BY <2>7, <2>8
<1>8. QED BY <1>4, <1>6, <1>7 DEF VaultInv, UsersOwe

LEMMA SaveEndsKeeps ==
    ASSUME VaultInv, NEW u \in VaultUsers, SaveEnds(u)
    PROVE  VaultInv'
<1> DEFINE w == [vtUser[u] EXCEPT !.at = "open", !.key = ""]
           owed == IF vtUser[u].at = "writing" THEN vtOwed \cup {vtUser[u].key} ELSE vtOwed
<1>1. vtUser[u] \in Users /\ Held(vtUser[u]) /\ vtUser[u].at \in Writing
  BY DEF VaultInv, VaultTyped, SaveEnds, VaultAt, Writing
<1>2. w \in Users /\ Held(w) /\ w.keys = vtUser[u].keys /\ w.at = "open"
  BY <1>1 DEF Users, Held, VaultSteps, Writing
<1>3. /\ SetUser(u, w) /\ UNCHANGED <<vtStale, vtBlind>> /\ vtOwed' = owed
      /\ vtFile' = [pass |-> vtUser[u].pass, keys |-> vtUser[u].keys]
  BY DEF SaveEnds, VaultAt
<1>4. vtFile' \in Files /\ vtFile'.keys = vtUser[u].keys /\ owed \subseteq vtOwed \cup vtUser[u].keys
  BY <1>1, <1>3, UserFields DEF Files, Held, Writing
<1> HIDE DEF w, owed
<1>5. /\ vtUser' \in [VaultUsers -> Users]
      /\ vtUser'[u] = w /\ \A v \in VaultUsers \ {u} : vtUser'[v] = vtUser[v]
      /\ \A v \in VaultUsers : Held(vtUser[v])'
  BY <1>2, <1>3, UserMoves
<1>6. VaultTyped'
  BY <1>1, <1>3, <1>4, <1>5, UserFields, PassphrasesAssumption DEF VaultInv, VaultTyped, Held, Writing
<1>7. ASSUME Clean PROVE owed \subseteq vtUser[u].keys
                         /\ \A v \in VaultUsers : Fresh(vtUser[v]) => v = u
  BY <1>1, <1>4, <1>7 DEF VaultInv, UsersOwe, Owing
<1>8. FileOwes'
  BY <1>3, <1>4, <1>7 DEF FileOwes, Clean
<1>9. ASSUME Clean, NEW v \in VaultUsers PROVE Owing(v)'
  <2>1. v # u => ~Fresh(vtUser[v]) /\ vtUser[v].at \notin Writing
    BY <1>7, <1>9 DEF VaultInv, UsersOwe, Owing
  <2>2. vtUser'[v].at \notin Writing
    BY <1>2, <1>5, <2>1 DEF Writing
  <2>3. Fresh(vtUser'[v]) => vtOwed' \subseteq vtUser'[v].keys
    BY <1>2, <1>3, <1>5, <1>7, <1>9, <2>1
  <2>4. QED BY <2>2, <2>3 DEF Owing, Fresh
<1>10. UsersOwe'
  BY <1>3, <1>9 DEF UsersOwe, Clean
<1>11. QED BY <1>5, <1>6, <1>8, <1>10 DEF VaultInv

LEMMA VaultStep == VaultInv /\ [VaultNext]_vtVars => VaultInv'
<1> SUFFICES ASSUME VaultInv, [VaultNext]_vtVars PROVE VaultInv'
  OBVIOUS
<1>1. CASE UNCHANGED vtVars
  BY <1>1 DEF vtVars, VaultInv, VaultTyped, Held, FileOwes, UsersOwe, Owing, Fresh, Clean
<1>2. ASSUME NEW u \in VaultUsers
      PROVE  vtUser[u] \in Users /\ Held(vtUser[u]) /\ vtOwed \subseteq VaultKeys
  BY DEF VaultInv, VaultTyped
<1>3. ASSUME NEW u \in VaultUsers, NEW k \in VaultKeys, AddKey(u, k) PROVE VaultInv'
  <2> DEFINE w == [vtUser[u] EXCEPT !.at = "adding", !.key = k]
  <2>1. SetUser(u, w) /\ vtUser[u].at = "open" /\ UNCHANGED <<vtFile, vtOwed, vtStale, vtBlind>>
    BY <1>3 DEF AddKey, VaultAt
  <2>2. w \in Users /\ Held(w) /\ w.at = "adding" /\ w.keys = vtUser[u].keys
        /\ w.fresh = vtUser[u].fresh
    <3>1. vtUser[u] \in Users /\ Held(vtUser[u])
      BY <1>2
    <3>2. w \in Users
      BY <1>2, <3>1 DEF Users, VaultSteps
    <3>3. w.at = "adding" /\ w.keys = vtUser[u].keys /\ w.fresh = vtUser[u].fresh
         /\ w.valid = vtUser[u].valid /\ w.key = k /\ w.pass = vtUser[u].pass
      BY <1>2, <3>1 DEF Users
    <3>4. Held(w)
      BY <3>1, <3>3, <1>3, <2>1 DEF Held
    <3>5. QED BY <3>2, <3>3, <3>4
  <2> HIDE DEF w
  <2>3. QED BY <2>1, <2>2, QuietMove DEF Fresh, Writing
<1>4. ASSUME NEW u \in VaultUsers, NEW k \in VaultKeys, RemoveKey(u, k) PROVE VaultInv'
  <2> DEFINE w == [vtUser[u] EXCEPT !.at = "removed", !.keys = @ \ {k}, !.valid = @ \ {k}]
  <2>1. SetUser(u, w) /\ vtUser[u].at = "open" /\ vtOwed' = vtOwed \ {k}
        /\ UNCHANGED <<vtFile, vtStale, vtBlind>>
    BY <1>4 DEF RemoveKey, VaultAt
  <2>2. w \in Users /\ Held(w) /\ w.at = "removed" /\ w.keys = vtUser[u].keys \ {k}
        /\ w.fresh = vtUser[u].fresh
    <3>1. vtUser[u] \in Users /\ Held(vtUser[u])
      BY <1>2
    <3>2. w \in Users
      BY <1>2, <3>1 DEF Users, VaultSteps
    <3>3. w.at = "removed" /\ w.keys = vtUser[u].keys \ {k} /\ w.fresh = vtUser[u].fresh
         /\ w.valid = vtUser[u].valid \ {k} /\ w.key = vtUser[u].key /\ w.pass = vtUser[u].pass
      BY <1>2, <3>1 DEF Users
    <3>4. Held(w)
      BY <3>1, <3>3, <2>1 DEF Held
    <3>5. QED BY <3>2, <3>3, <3>4
  <2> HIDE DEF w
  <2>3. QED BY <2>1, <2>2, QuietMove DEF Fresh, Writing
<1>5. ASSUME NEW u \in VaultUsers, AddStores(u) PROVE VaultInv'
  <2> DEFINE k == vtUser[u].key
             w == [vtUser[u] EXCEPT !.at = "added", !.keys = Stores(@, k), !.valid = Stores(@, k)]
  <2>1. SetUser(u, w) /\ vtUser[u].at = "adding" /\ UNCHANGED <<vtFile, vtOwed, vtStale, vtBlind>>
    BY <1>5 DEF AddStores, VaultAt
  <2>2. w \in Users /\ Held(w) /\ w.at = "added" /\ w.keys = vtUser[u].keys \cup {k}
        /\ w.fresh = vtUser[u].fresh
    <3>1. vtUser[u] \in Users /\ Held(vtUser[u])
      BY <1>2
    <3>2. w \in Users
      <4>1. k \in VaultKeys
        BY <2>1, <3>1 DEF Held
      <4>2. QED BY <3>1, <4>1 DEF Users, VaultSteps, Stores
    <3>3. w.at = "added" /\ w.keys = vtUser[u].keys \cup {k} /\ w.fresh = vtUser[u].fresh
         /\ w.valid = vtUser[u].valid \cup {k} /\ w.key = k /\ w.pass = vtUser[u].pass
      BY <1>2, <2>1, <3>1 DEF Users, Stores
    <3>4. Held(w)
      BY <3>1, <3>3, <2>1 DEF Held
    <3>5. QED BY <3>2, <3>3, <3>4
  <2> HIDE DEF w
  <2>3. QED BY <2>1, <2>2, QuietMove DEF Fresh, Writing
<1>6. ASSUME NEW u \in VaultUsers, VaultCrash(u) PROVE VaultInv'
  <2>1. SetUser(u, NotOpen) /\ UNCHANGED <<vtFile, vtOwed, vtStale, vtBlind>>
    BY <1>6 DEF VaultCrash
  <2>2. QED BY <2>1, ClosedUser, QuietMove
<1>7. ASSUME NEW u \in VaultUsers, NEW answers \in SUBSET vtUser[u].keys, VerifyAll(u, answers)
      PROVE  VaultInv'
  <2> DEFINE w == [vtUser[u] EXCEPT !.at = "verified", !.valid = Verdict(u, answers)]
  <2>1. SetUser(u, w) /\ vtUser[u].at = "open" /\ UNCHANGED <<vtFile, vtOwed, vtStale, vtBlind>>
    BY <1>7 DEF VerifyAll, VaultAt
  <2>2. w \in Users /\ Held(w) /\ w.at = "verified" /\ w.keys = vtUser[u].keys
        /\ w.fresh = vtUser[u].fresh
    <3>1. vtUser[u] \in Users /\ Held(vtUser[u])
      BY <1>2
    <3>2. w \in Users
      BY <1>2, <3>1 DEF Users, VaultSteps, Verdict
    <3>3. w.at = "verified" /\ w.keys = vtUser[u].keys /\ w.fresh = vtUser[u].fresh
         /\ w.valid = vtUser[u].valid \cup answers /\ w.key = vtUser[u].key /\ w.pass = vtUser[u].pass
      BY <1>2, <3>1 DEF Users, Verdict
    <3>4. Held(w)
      BY <3>1, <3>3, <1>7, <2>1 DEF Held
    <3>5. QED BY <3>2, <3>3, <3>4
  <2> HIDE DEF w
  <2>3. QED BY <2>1, <2>2, QuietMove DEF Fresh, Writing
<1>8. QED
  BY <1>1, <1>3, <1>4, <1>5, <1>6, <1>7, OpenVaultKeeps, SaveBeginsKeeps, SaveEndsKeeps
     DEF VaultNext

\* Every revoked serial is in the bundle, or was forgotten with it.
IdInv == idRevoked \subseteq idBundle \cup idForgotten

LEMMA IdStep == IdInv /\ [IdNext]_idVars => IdInv'
BY DEF IdInv, IdNext, idVars, RegisterIdentity, NewSvid, IssueSvid, RevokeSvid, RevokedWith,
   RotateSvid, RevokeIdentity, SuspendIdentity, ReactivateIdentity, SaveIdentities,
   LoadIdentities, Expires, KeptById

\* A saved key stays in the vault, a held one valid and an SVID revoked, but for stale
\* saves, files that cannot be read and registries loaded (CredentialVault, SpiffeRegistry).
THEOREM CredentialsKept == VaultSpec /\ IdSpec => []CredentialsAreKept
<1>1. VaultInv => KeysAreKept /\ HeldKeysAreValid
  BY DEF VaultInv, Held, FileOwes, Clean, KeysAreKept, HeldKeysAreValid
<1>2. IdInit => IdInv
  BY DEF IdInit, IdInv
<1>3. IdInv => RevokedOnlyBackByLoad
  BY DEF IdInv, RevokedOnlyBackByLoad, Verifies
<1>4. VaultInv /\ IdInv => CredentialsAreKept
  BY <1>1, <1>3 DEF CredentialsAreKept
<1>5. QED
  BY <1>2, <1>4, VaultStarts, VaultStep, IdStep, PTL DEF VaultSpec, IdSpec

-----------------------------------------------------------------------------
(* The agent bus. *)

Messages ==
  [from : Agents, status : {"pending", "delivered", "dead_letter", "failed"},
   owed : [Agents -> Nat], ended : BOOLEAN]
Frames ==
  [msg : Nat, mode : {"direct", "all", "group"}, group : SUBSET Agents,
   cur : Agents \cup {Nobody}, h : Nat, n : Nat, live : BOOLEAN, pos : Nat \ {0},
   size : {Cardinality(S) : S \in SUBSET Agents}, reached : BOOLEAN, run : BOOLEAN]

BusTyped ==
  /\ abSlots \in Seq(Agents \cup {Nobody}) /\ abCount \in [Agents -> Nat]
  /\ abMsgs \in Seq(Messages) /\ abStack \in Seq(Frames)

\* An agent has handlers exactly if it has a slot.
SlotsInv == \A a \in Agents : abCount[a] > 0 <=> \E k \in DOMAIN abSlots : abSlots[k] = a

\* The handlers of the agent in turn that a call f has still to begin.
Remaining(f) == f.n + 1 - f.h - (IF f.run THEN 1 ELSE 0)

\* How a call f gets to the handlers that its message m owes to a: they are those that remain
\* of the agent in turn, or a is further on in the dictionary.
InTurn(f, m, a) == f.cur = a /\ f.live /\ m.owed[a] <= Remaining(f)
ToCome(f, m, a) ==
  /\ f.mode = "all" /\ m.owed[a] <= abCount[a]
  /\ \E k \in DOMAIN abSlots : k >= f.pos /\ abSlots[k] = a

Serves(f, m) ==
  /\ \A a \in Agents : m.owed[a] > 0 => InTurn(f, m, a) \/ ToCome(f, m, a)
  /\ f.mode # "direct" => f.cur # m.from
  /\ f.mode = "all" => m.owed[m.from] = 0
  /\ m.status = "pending" =>
       /\ f.mode # "group"
       /\ f.mode = "direct" \/ f.reached => f.h <= f.n

\* A call has reached, or will, all it owes; one that returned owes nothing.
CallsServe ==
  \A i \in DOMAIN abStack :
    abStack[i].msg \in DOMAIN abMsgs /\ Serves(abStack[i], abMsgs[abStack[i].msg])
Over(m) == m.ended => m.status # "pending" /\ \A a \in Agents : m.owed[a] = 0
EndedAreOver == \A i \in DOMAIN abMsgs : Over(abMsgs[i])

AgentBusInv == BusTyped /\ SlotsInv /\ CallsServe /\ EndedAreOver

LEMMA BusStarts == AgentBusInit => AgentBusInv
<1> SUFFICES ASSUME AgentBusInit PROVE AgentBusInv
  OBVIOUS
<1>1. abSlots = <<>> /\ abMsgs = <<>> /\ abStack = <<>> /\ abCount = [a \in Agents |-> 0]
  BY DEF AgentBusInit
<1>2. QED BY <1>1 DEF AgentBusInv, BusTyped, SlotsInv, CallsServe, EndedAreOver

LEMMA FrameFields ==
    ASSUME NEW f \in Frames
    PROVE  /\ f.msg \in Nat /\ f.mode \in {"direct", "all", "group"} /\ f.group \subseteq Agents
           /\ f.cur \in Agents \cup {Nobody} /\ f.h \in Nat /\ f.n \in Nat /\ f.live \in BOOLEAN
           /\ f.pos \in Nat \ {0} /\ f.reached \in BOOLEAN /\ f.run \in BOOLEAN
BY DEF Frames

LEMMA MessageFields ==
    ASSUME NEW m \in Messages
    PROVE  /\ m.from \in Agents /\ m.owed \in [Agents -> Nat] /\ m.ended \in BOOLEAN
           /\ m.status \in {"pending", "delivered", "dead_letter", "failed"}
BY DEF Messages

LEMMA TopIsLast ==
    ASSUME AgentBusInv, abStack # <<>>
    PROVE  /\ Len(abStack) \in Nat \ {0} /\ DOMAIN abStack = 1 .. Len(abStack)
           /\ Top = abStack[Len(abStack)] /\ Top \in Frames
           /\ Top.msg \in DOMAIN abMsgs /\ abMsgs[Top.msg] \in Messages
           /\ Serves(Top, abMsgs[Top.msg]) /\ Over(abMsgs[Top.msg])
<1>1. abStack \in Seq(Frames) /\ abMsgs \in Seq(Messages)
  BY DEF AgentBusInv, BusTyped
<1>2. /\ Len(abStack) \in Nat \ {0} /\ DOMAIN abStack = 1 .. Len(abStack)
      /\ Top = abStack[Len(abStack)] /\ Top \in Frames /\ Len(abStack) \in DOMAIN abStack
  BY <1>1 DEF Top, Last
<1>3. Top.msg \in DOMAIN abMsgs /\ Serves(Top, abMsgs[Top.msg])
  BY <1>2 DEF AgentBusInv, CallsServe
<1>4. QED BY <1>1, <1>2, <1>3 DEF AgentBusInv, EndedAreOver

\* The stack with another top, and without it.
LEMMA StackTops ==
    ASSUME AgentBusInv, abStack # <<>>, NEW f \in Frames
    PROVE  /\ SetTop(f) \in Seq(Frames) /\ DOMAIN SetTop(f) = DOMAIN abStack
           /\ SetTop(f)[Len(abStack)] = f
           /\ \A i \in DOMAIN abStack : i # Len(abStack) => SetTop(f)[i] = abStack[i]
           /\ Pop \in Seq(Frames)
           /\ \A i \in DOMAIN Pop : i \in DOMAIN abStack /\ Pop[i] = abStack[i]
<1>1. abStack \in Seq(Frames) /\ Len(abStack) \in Nat \ {0}
  BY TopIsLast DEF AgentBusInv, BusTyped
<1>2. /\ Pop \in Seq(Frames) /\ Len(Pop) = Len(abStack) - 1
      /\ \A i \in 1 .. Len(abStack) - 1 : Pop[i] = abStack[i]
  <2>1. \A i \in 1 .. Len(abStack) - 1 : abStack[i] \in Frames
    BY <1>1
  <2>2. PICK n \in Nat : n = Len(abStack) - 1
    BY <1>1
  <2>3. /\ SubSeq(abStack, 1, n) \in Seq(Frames)
        /\ Len(SubSeq(abStack, 1, n)) = (IF 1 <= n THEN n - 1 + 1 ELSE 0)
        /\ \A i \in 1 .. n - 1 + 1 : SubSeq(abStack, 1, n)[i] = abStack[1 + i - 1]
    <3>1. 1 \in Int /\ n \in Int /\ \A i \in 1 .. n : abStack[i] \in Frames
      BY <2>1, <2>2
    <3>2. QED BY <3>1, SubSeqProperties
  <2>4. Pop = SubSeq(abStack, 1, n)
    BY <2>2 DEF Pop
  <2> HIDE DEF Pop
  <2>5. QED BY <1>1, <2>2, <2>3, <2>4
<1> HIDE DEF Pop
<1>3. QED BY <1>1, <1>2 DEF SetTop

\* What a message becomes owes no more than it did.
Milder(w, m) ==
  /\ w.from = m.from /\ \A a \in Agents : w.owed[a] <= m.owed[a]
  /\ w.status = "pending" => m.status = "pending"

LEMMA StillServes ==
    ASSUME NEW f \in Frames, NEW m \in Messages, NEW w \in Messages, Serves(f, m), Milder(w, m),
           UNCHANGED abAgents, abCount \in [Agents -> Nat]
    PROVE  Serves(f, w)'
<1>1. UNCHANGED <<abSlots, abCount>>
  BY DEF abAgents
<1>2. ASSUME NEW a \in Agents, w.owed[a] > 0 PROVE InTurn(f, w, a)' \/ ToCome(f, w, a)'
  <2>1. w.owed[a] \in Nat /\ m.owed[a] \in Nat /\ w.owed[a] <= m.owed[a] /\ abCount[a] \in Nat
    BY MessageFields DEF Milder
  <2>2. Remaining(f) \in Int
    BY FrameFields DEF Remaining
  <2>3. CASE InTurn(f, m, a)
    <3>1. w.owed[a] <= Remaining(f)
      BY <2>1, <2>2, <2>3 DEF InTurn
    <3>2. QED BY <2>3, <3>1 DEF InTurn, Remaining
  <2>4. CASE ToCome(f, m, a)
    BY <1>1, <2>1, <2>4 DEF ToCome
  <2>5. m.owed[a] > 0
    BY <1>2, <2>1
  <2>6. QED BY <2>3, <2>4, <2>5 DEF Serves
<1>3. m.from \in Agents /\ w.from = m.from
  BY MessageFields DEF Milder
<1>4. m.owed[m.from] = 0 => w.owed[m.from] = 0
  BY <1>3, MessageFields DEF Milder
<1>5. QED BY <1>2, <1>3, <1>4 DEF Serves, Milder, InTurn, ToCome

\* A step of the innermost call changes its own frame to f and its message to w.
LEMMA TopStep ==
    ASSUME AgentBusInv, abStack # <<>>, NEW f \in Frames, NEW w \in Messages,
           f.msg = Top.msg, Milder(w, abMsgs[Top.msg]), Serves(f, w), Over(w),
           abStack' = SetTop(f), abMsgs' = [abMsgs EXCEPT ![Top.msg] = w], UNCHANGED abAgents
    PROVE  AgentBusInv'
<1>1. abMsgs \in Seq(Messages) /\ abCount \in [Agents -> Nat] /\ abStack \in Seq(Frames)
  BY DEF AgentBusInv, BusTyped
<1>2. /\ abMsgs' \in Seq(Messages) /\ DOMAIN abMsgs' = DOMAIN abMsgs /\ abMsgs'[Top.msg] = w
      /\ \A k \in DOMAIN abMsgs : k # Top.msg => abMsgs'[k] = abMsgs[k]
  BY <1>1, TopIsLast
<1>3. BusTyped' /\ SlotsInv'
  BY <1>1, <1>2, StackTops DEF AgentBusInv, BusTyped, SlotsInv, abAgents
<1>4. EndedAreOver'
  BY <1>2 DEF AgentBusInv, EndedAreOver, Over
<1>5. ASSUME NEW k \in DOMAIN abMsgs PROVE Milder(abMsgs'[k], abMsgs[k])
  <2>1. CASE k = Top.msg
    BY <1>2, <2>1
  <2>2. CASE k # Top.msg
    <3>1. abMsgs'[k] = abMsgs[k] /\ abMsgs[k] \in Messages
      BY <1>1, <1>2, <2>2
    <3>2. \A a \in Agents : abMsgs[k].owed[a] \in Nat
      BY <3>1, MessageFields
    <3>3. QED BY <3>1, <3>2 DEF Milder
  <2>3. QED BY <2>1, <2>2
<1>6. ASSUME NEW i \in DOMAIN abStack'
      PROVE  abStack'[i].msg \in DOMAIN abMsgs' /\ Serves(abStack[i], abMsgs[abStack[i].msg])'
  <2>1. i \in DOMAIN abStack
    BY StackTops
  <2>2. CASE i = Len(abStack)
    <3>1. abStack'[i] = f /\ f.msg \in DOMAIN abMsgs' /\ abMsgs'[f.msg] = w
      BY <1>2, <2>2, StackTops, TopIsLast
    <3>2. Serves(f, w)'
      BY DEF Serves, InTurn, ToCome, abAgents
    <3>3. QED BY <3>1, <3>2 DEF Serves, InTurn, ToCome
  <2>3. CASE i # Len(abStack)
    <3> DEFINE g == abStack[i]
               m == abMsgs[g.msg]
               v == abMsgs'[g.msg]
    <3>1. abStack'[i] = g /\ g \in Frames /\ g.msg \in DOMAIN abMsgs /\ Serves(g, m)
      BY <1>1, <2>1, <2>3, StackTops DEF AgentBusInv, CallsServe
    <3>2. m \in Messages /\ v \in Messages /\ Milder(v, m)
      BY <1>1, <1>2, <1>5, <3>1
    <3>3. PICK gg \in Frames, mm \in Messages, vv \in Messages : gg = g /\ mm = m /\ vv = v
      BY <3>1, <3>2
    <3>4. Serves(gg, vv)'
      <4>1. Serves(gg, mm) /\ Milder(vv, mm)
        BY <3>1, <3>2, <3>3
      <4>2. QED BY <1>1, <4>1, StillServes
    <3>5. abStack'[i] = gg /\ abMsgs'[gg.msg] = vv /\ gg.msg \in DOMAIN abMsgs'
      BY <1>2, <3>1, <3>3
    <3>6. QED BY <3>4, <3>5 DEF Serves, InTurn, ToCome
  <2>4. QED BY <2>2, <2>3
<1>7. QED BY <1>3, <1>4, <1>6 DEF AgentBusInv, CallsServe

\* The handlers of the agent in turn are through: what is owed is still to come.
LEMMA TurnIsOver ==
    ASSUME AgentBusInv, abStack # <<>>, ~Top.run, Top.h > Top.n
    PROVE  /\ \A a \in Agents : abMsgs[Top.msg].owed[a] > 0 => ToCome(Top, abMsgs[Top.msg], a)
           /\ abMsgs[Top.msg].status = "pending" => Top.mode # "direct" /\ ~Top.reached
<1>1. Top \in Frames /\ abMsgs[Top.msg] \in Messages /\ Serves(Top, abMsgs[Top.msg])
  BY TopIsLast
<1>2. Top.h \in Nat /\ Top.n \in Nat /\ \A a \in Agents : abMsgs[Top.msg].owed[a] \in Nat
  BY <1>1, FrameFields, MessageFields
<1>3. Remaining(Top) <= 0
  BY <1>2 DEF Remaining
<1>4. ASSUME NEW a \in Agents, abMsgs[Top.msg].owed[a] > 0 PROVE ~InTurn(Top, abMsgs[Top.msg], a)
  <2>1. Remaining(Top) \in Int
    BY <1>2 DEF Remaining
  <2>2. QED BY <1>2, <1>3, <1>4, <2>1 DEF InTurn
<1>5. QED BY <1>1, <1>2, <1>4 DEF Serves

LEMMA SameMessage ==
    ASSUME NEW m \in Messages
    PROVE  Milder(m, m)
BY MessageFields DEF Milder

\* The message of the innermost call stays as it is.
LEMMA TopFrameStep ==
    ASSUME AgentBusInv, abStack # <<>>, NEW f \in Frames, f.msg = Top.msg,
           Serves(f, abMsgs[Top.msg]), abStack' = SetTop(f), UNCHANGED <<abMsgs, abAgents>>
    PROVE  AgentBusInv'
<1>1. PICK w \in Messages : w = abMsgs[Top.msg]
  BY TopIsLast
<1>2. abMsgs' = [abMsgs EXCEPT ![Top.msg] = w]
  BY <1>1, TopIsLast DEF AgentBusInv, BusTyped
<1>3. Milder(w, abMsgs[Top.msg]) /\ Serves(f, w) /\ Over(w)
  BY <1>1, TopIsLast, SameMessage
<1>4. QED BY <1>2, <1>3, TopStep

LEMMA TurnServes ==
    ASSUME AgentBusInv, abStack # <<>>, NEW a \in Agents, abCount[a] > 0, ~Top.run, Top.h > Top.n,
           NEW f \in Frames, f.cur = a, f.h = 1, f.n = abCount[a], f.live, f.reached, ~f.run,
           f.mode = Top.mode, Top.mode # "direct", a # abMsgs[Top.msg].from,
           \A b \in Agents \ {a} : ToCome(Top, abMsgs[Top.msg], b) => ToCome(f, abMsgs[Top.msg], b)
    PROVE  Serves(f, abMsgs[Top.msg])
<1>1. PICK m \in Messages : m = abMsgs[Top.msg]
  BY TopIsLast
<1>2. Serves(Top, m) /\ \A b \in Agents : m.owed[b] > 0 => ToCome(Top, m, b)
  BY <1>1, TopIsLast, TurnIsOver
<1>3. abCount[a] \in Nat /\ Remaining(f) = abCount[a]
  BY DEF AgentBusInv, BusTyped, Remaining
<1>4. ASSUME NEW b \in Agents, m.owed[b] > 0 PROVE InTurn(f, m, b) \/ ToCome(f, m, b)
  <2>1. CASE b = a
    BY <1>2, <1>3, <1>4, <2>1 DEF InTurn, ToCome
  <2>2. CASE b # a
    BY <1>1, <1>2, <1>4, <2>2
  <2>3. QED BY <2>1, <2>2
<1>5. f.h <= f.n
  BY <1>3
<1>6. QED BY <1>1, <1>2, <1>4, <1>5 DEF Serves

LEMMA NextAgentKeeps == ASSUME AgentBusInv, NextAgent PROVE AgentBusInv'
<1>1. abStack # <<>> /\ Top.mode = "all" /\ ~Top.run /\ Top.h > Top.n /\ UNCHANGED abAgents
  BY DEF NextAgent, AtTurn
<1>2. PICK top \in Frames, m \in Messages : top = Top /\ m = abMsgs[Top.msg]
  BY <1>1, TopIsLast
<1>3. Serves(top, m) /\ Over(m) /\ top.mode = "all" /\ top.pos \in Nat \ {0} /\ top.h > top.n
      /\ \A a \in Agents : m.owed[a] \in Nat
  BY <1>1, <1>2, TopIsLast, FrameFields, MessageFields
<1>4. abSlots \in Seq(Agents \cup {Nobody})
  BY DEF AgentBusInv, BusTyped
<1>5. CASE top.pos > Len(abSlots)
  <2> DEFINE f == [top EXCEPT !.mode = "group"]
             w == SettleEmpty(m)
  <2>1. f \in Frames /\ f.msg = top.msg /\ f.mode = "group" /\ f.cur = top.cur
        /\ f.h = top.h /\ f.n = top.n
    BY DEF Frames
  <2>2. w \in Messages /\ Milder(w, m) /\ w.owed = m.owed /\ w.from = m.from
    <3>1. [m EXCEPT !.status = "failed"] \in Messages
      BY DEF Messages
    <3>2. Milder([m EXCEPT !.status = "failed"], m) /\ [m EXCEPT !.status = "failed"].owed = m.owed
      BY <1>3 DEF Milder, Messages
    <3>3. [m EXCEPT !.status = "failed"].from = m.from
      BY DEF Messages
    <3>4. QED BY <3>1, <3>2, <3>3, SameMessage DEF SettleEmpty
  <2>3. w.status # "pending"
    BY <1>1, <1>2, TurnIsOver DEF SettleEmpty, Messages
  <2>4. \A a \in Agents : m.owed[a] = 0
    BY <1>1, <1>2, <1>3, <1>4, <1>5, TurnIsOver DEF ToCome
  <2>5. abStack' = SetTop(f) /\ abMsgs' = [abMsgs EXCEPT ![Top.msg] = w]
    BY <1>2, <1>5 DEF NextAgent, SettleEmpty
  <2> HIDE DEF f, w
  <2>6. Serves(f, w) /\ Over(w)
    BY <1>3, <2>1, <2>2, <2>3, <2>4 DEF Serves, Over
  <2>7. QED BY <1>1, <1>2, <2>1, <2>2, <2>5, <2>6, TopStep
<1>6. CASE top.pos <= Len(abSlots)
  <2> DEFINE a == abSlots[top.pos]
  <2>1. a \in Agents \cup {Nobody} /\ top.pos \in DOMAIN abSlots
    BY <1>3, <1>4, <1>6
  <2>2. UNCHANGED abMsgs /\ ~(top.pos > Len(abSlots))
    BY <1>2, <1>3, <1>4, <1>6 DEF NextAgent
  <2>3. ASSUME NEW b \in Agents, ToCome(top, m, b), b # a, NEW f, f.mode = "all", f.pos = top.pos + 1
        PROVE  ToCome(f, m, b)
    BY <1>3, <1>4, <2>3 DEF ToCome
  <2>4. CASE a \in {Nobody, m.from}
    <3> DEFINE f == [top EXCEPT !.pos = top.pos + 1]
    <3>1. f \in Frames /\ f.msg = top.msg /\ f.mode = "all" /\ f.cur = top.cur /\ f.n = top.n
          /\ f.h = top.h /\ f.pos = top.pos + 1 /\ f.reached = top.reached
      BY <1>3 DEF Frames
    <3>2. abStack' = SetTop(f)
      BY <1>2, <2>2, <2>4 DEF NextAgent
    <3> HIDE DEF f
    <3>3. ASSUME NEW b \in Agents, m.owed[b] > 0 PROVE ToCome(f, m, b)
      <4>1. ToCome(top, m, b)
        BY <1>1, <1>2, <3>3, TurnIsOver
      <4>2. b # a
        BY <1>3, <2>4, <3>3, NobodyAssumption DEF Serves
      <4>3. QED BY <2>3, <3>1, <4>1, <4>2
    <3>4. Serves(f, m)
      BY <1>3, <3>1, <3>3 DEF Serves
    <3>5. QED BY <1>1, <1>2, <2>2, <3>1, <3>2, <3>4, TopFrameStep
  <2>5. CASE a \notin {Nobody, m.from}
    <3> DEFINE f == [top EXCEPT !.cur = a, !.h = 1, !.n = abCount[a], !.live = TRUE,
                                !.reached = TRUE, !.pos = top.pos + 1]
    <3>1. a \in Agents /\ abCount[a] \in Nat /\ abCount[a] > 0
      BY <2>1, <2>5 DEF AgentBusInv, BusTyped, SlotsInv
    <3>2. f \in Frames /\ f.msg = top.msg /\ f.mode = "all" /\ f.cur = a /\ f.n = abCount[a]
          /\ f.h = 1 /\ f.pos = top.pos + 1 /\ f.reached /\ f.live /\ f.run = top.run
      <4>1. f \in Frames
        <5>1. top.pos + 1 \in Nat \ {0}
          BY <1>3
        <5> HIDE DEF a
        <5>2. QED BY <3>1, <5>1 DEF Frames
      <4>2. f.msg = top.msg /\ f.mode = "all" /\ f.run = top.run
        BY <1>3 DEF Frames
      <4>3. f.cur = a /\ f.n = abCount[a] /\ f.h = 1
        BY DEF Frames
      <4>4. f.pos = top.pos + 1 /\ f.reached /\ f.live
        BY DEF Frames
      <4>5. QED BY <4>1, <4>2, <4>3, <4>4
    <3>3. abStack' = SetTop(f)
      BY <1>2, <2>2, <2>5 DEF NextAgent, Turn
    <3> HIDE DEF f
    <3>4. Serves(f, m)
      <4>1. \A b \in Agents \ {a} : ToCome(Top, abMsgs[Top.msg], b) => ToCome(f, abMsgs[Top.msg], b)
        BY <1>2, <2>3, <3>2
      <4>2. QED BY <1>1, <1>2, <1>3, <2>5, <3>1, <3>2, <4>1, TurnServes
    <3>5. QED BY <1>1, <1>2, <2>2, <3>2, <3>3, <3>4, TopFrameStep
  <2>6. QED BY <2>4, <2>5
<1>7. QED BY <1>3, <1>4, <1>5, <1>6

LEMMA NextInGroupKeeps == ASSUME AgentBusInv, NEW a \in Agents, NextInGroup(a) PROVE AgentBusInv'
<1>1. abStack # <<>> /\ Top.mode = "group" /\ ~Top.run /\ Top.h > Top.n
      /\ UNCHANGED abAgents /\ UNCHANGED abMsgs
  BY DEF NextInGroup, AtTurn
<1>2. PICK top \in Frames, m \in Messages : top = Top /\ m = abMsgs[Top.msg]
  BY <1>1, TopIsLast
<1>3. Serves(top, m) /\ top.mode = "group" /\ \A b \in Agents : ~ToCome(top, m, b)
  BY <1>1, <1>2, TopIsLast DEF ToCome
<1>4. CASE GroupServes(a)
  <2> DEFINE g == [top EXCEPT !.cur = a, !.h = 1, !.n = abCount[a], !.live = TRUE, !.reached = TRUE]
             f == [g EXCEPT !.group = @ \ {a}]
  <2>1. abCount[a] \in Nat /\ abCount[a] > 0 /\ a # m.from
    BY <1>2, <1>4 DEF GroupServes, Keys, AgentBusInv, BusTyped
  <2>2. g \in Frames
    BY <2>1 DEF Frames
  <2>3. g.msg = top.msg /\ g.mode = "group" /\ g.cur = a /\ g.n = abCount[a] /\ g.h = 1
        /\ g.reached /\ g.live /\ g.run = top.run
    BY <1>3 DEF Frames
  <2>4. abStack' = SetTop(f)
    BY <1>2, <1>4 DEF NextInGroup, Turn
  <2> HIDE DEF g
  <2>5. f \in Frames
    BY <2>2 DEF Frames
  <2>6. f.msg = top.msg /\ f.mode = "group" /\ f.cur = a /\ f.n = abCount[a] /\ f.h = 1
        /\ f.reached /\ f.live /\ f.run = top.run
    BY <2>2, <2>3 DEF Frames
  <2> HIDE DEF f
  <2>7. \A b \in Agents \ {a} : ToCome(Top, abMsgs[Top.msg], b) => ToCome(f, abMsgs[Top.msg], b)
    BY <1>2, <1>3
  <2>8. Serves(f, abMsgs[Top.msg])
    BY <1>1, <1>2, <2>1, <2>5, <2>6, <2>7, TurnServes
  <2>9. QED BY <1>1, <1>2, <2>4, <2>5, <2>6, <2>8, TopFrameStep
<1>5. CASE ~GroupServes(a)
  <2> DEFINE f == [top EXCEPT !.group = @ \ {a}]
  <2>1. f \in Frames
    BY DEF Frames
  <2>2. f.msg = top.msg /\ f.mode = top.mode /\ f.cur = top.cur /\ f.n = top.n /\ f.h = top.h
        /\ f.reached = top.reached /\ f.live = top.live /\ f.run = top.run
    BY DEF Frames
  <2>3. abStack' = SetTop(f)
    BY <1>2, <1>5 DEF NextInGroup
  <2> HIDE DEF f
  <2>4. Serves(f, m)
    BY <1>3, <2>2 DEF Serves, InTurn, ToCome, Remaining
  <2>5. QED BY <1>1, <1>2, <2>1, <2>2, <2>3, <2>4, TopFrameStep
<1>6. QED BY <1>4, <1>5

\* A call leaves the stack; if it returns, nothing is owed.
LEMMA PopKeeps ==
    ASSUME AgentBusInv, abStack # <<>>, abStack' = Pop, UNCHANGED abAgents,
           NEW w \in Messages, Milder(w, abMsgs[Top.msg]), Over(w),
           abMsgs' = [abMsgs EXCEPT ![Top.msg] = w]
    PROVE  AgentBusInv'
<1>1. abMsgs \in Seq(Messages) /\ abCount \in [Agents -> Nat] /\ abStack \in Seq(Frames)
  BY DEF AgentBusInv, BusTyped
<1>2. /\ abMsgs' \in Seq(Messages) /\ DOMAIN abMsgs' = DOMAIN abMsgs /\ abMsgs'[Top.msg] = w
      /\ \A k \in DOMAIN abMsgs : k # Top.msg => abMsgs'[k] = abMsgs[k]
  BY <1>1, TopIsLast
<1>3. BusTyped' /\ SlotsInv' /\ EndedAreOver'
  <2>1. PICK f \in Frames : f = Top
    BY TopIsLast
  <2>2. abStack' \in Seq(Frames)
    BY <2>1, StackTops
  <2>3. EndedAreOver'
    BY <1>2 DEF AgentBusInv, EndedAreOver, Over
  <2>4. QED BY <1>1, <1>2, <2>2, <2>3 DEF AgentBusInv, BusTyped, SlotsInv, abAgents
<1>4. ASSUME NEW i \in DOMAIN abStack'
      PROVE  abStack'[i].msg \in DOMAIN abMsgs' /\ Serves(abStack[i], abMsgs[abStack[i].msg])'
  <2> DEFINE g == abStack[i]
             m == abMsgs[g.msg]
             v == abMsgs'[g.msg]
  <2>1. PICK f \in Frames : f = Top
    BY TopIsLast
  <2>2. abStack'[i] = g /\ g \in Frames /\ g.msg \in DOMAIN abMsgs /\ Serves(g, m)
    BY <1>1, <2>1, StackTops DEF AgentBusInv, CallsServe
  <2>3. m \in Messages /\ v \in Messages
    BY <1>1, <1>2, <2>2
  <2>4. Milder(v, m)
    <3>1. CASE g.msg = Top.msg
      BY <1>2, <3>1
    <3>2. CASE g.msg # Top.msg
      <4>1. v = m
        BY <1>2, <2>2, <3>2
      <4>2. PICK mm \in Messages : mm = m
        BY <2>3
      <4>3. QED BY <4>1, <4>2, SameMessage
    <3>3. QED BY <3>1, <3>2
  <2>5. PICK gg \in Frames, mm \in Messages, vv \in Messages : gg = g /\ mm = m /\ vv = v
    BY <2>2, <2>3
  <2>6. Serves(gg, vv)'
    <3>1. Serves(gg, mm) /\ Milder(vv, mm)
      BY <2>2, <2>4, <2>5
    <3>2. QED BY <1>1, <3>1, StillServes
  <2>7. abStack'[i] = gg /\ abMsgs'[gg.msg] = vv /\ gg.msg \in DOMAIN abMsgs'
    BY <1>2, <2>2, <2>5
  <2>8. QED BY <2>6, <2>7 DEF Serves, InTurn, ToCome
<1>5. QED BY <1>3, <1>4 DEF AgentBusInv, CallsServe

LEMMA SendReturnsKeeps == ASSUME AgentBusInv, SendReturns PROVE AgentBusInv'
<1>1. abStack # <<>> /\ Top.mode \in {"direct", "group"} /\ ~Top.run /\ Top.h > Top.n
  BY DEF SendReturns, AtTurn
<1>2. PICK m \in Messages : m = abMsgs[Top.msg]
  BY <1>1, TopIsLast
<1>3. m.status # "pending" /\ \A a \in Agents : m.owed[a] = 0
  <2>1. m.status # "pending"
    BY <1>1, <1>2, TurnIsOver, TopIsLast DEF Serves
  <2>2. \A a \in Agents : m.owed[a] \in Nat /\ ~(m.owed[a] > 0)
    BY <1>1, <1>2, TurnIsOver, MessageFields DEF ToCome
  <2>3. QED BY <2>1, <2>2
<1> DEFINE w == [m EXCEPT !.ended = TRUE]
<1>4. w \in Messages
  BY DEF Messages
<1>5. w.from = m.from /\ w.owed = m.owed /\ w.status = m.status
  BY DEF Messages
<1>6. abMsgs' = [abMsgs EXCEPT ![Top.msg] = w] /\ abStack' = Pop /\ UNCHANGED abAgents
  BY <1>2 DEF SendReturns
<1> HIDE DEF w
<1>7. Milder(w, m) /\ Over(w)
  BY <1>3, <1>5 DEF Milder, Over
<1>8. QED BY <1>1, <1>2, <1>4, <1>6, <1>7, PopKeeps

LEMMA IterationRaisesKeeps == ASSUME AgentBusInv, IterationRaises PROVE AgentBusInv'
<1>1. abStack # <<>> /\ abStack' = Pop /\ UNCHANGED abAgents /\ UNCHANGED abMsgs
  BY DEF IterationRaises, AtTurn
<1>2. PICK w \in Messages : w = abMsgs[Top.msg]
  BY <1>1, TopIsLast
<1>3. abMsgs' = [abMsgs EXCEPT ![Top.msg] = w]
  BY <1>1, <1>2, TopIsLast DEF AgentBusInv, BusTyped
<1>4. Milder(w, abMsgs[Top.msg]) /\ Over(w)
  BY <1>1, <1>2, SameMessage, TopIsLast
<1>5. QED BY <1>1, <1>3, <1>4, PopKeeps

LEMMA BeginHandlerKeeps == ASSUME AgentBusInv, BeginHandler PROVE AgentBusInv'
<1>1. abStack # <<>> /\ ~Top.run /\ Top.h <= Top.n /\ UNCHANGED abAgents
  BY DEF BeginHandler
<1>2. PICK top \in Frames, m \in Messages : top = Top /\ m = abMsgs[Top.msg]
  BY <1>1, TopIsLast
<1>3. Serves(top, m) /\ Over(m) /\ top.h \in Nat /\ top.n \in Nat /\ ~top.run /\ top.h <= top.n
  BY <1>1, <1>2, TopIsLast, FrameFields
<1> DEFINE f == [top EXCEPT !.run = TRUE]
           w == [m EXCEPT !.owed[top.cur] = IF @ = 0 THEN 0 ELSE @ - 1]
           owed == [m.owed EXCEPT ![top.cur] = IF @ = 0 THEN 0 ELSE @ - 1]
<1>4. f \in Frames
  BY DEF Frames
<1>5. f.msg = top.msg /\ f.mode = top.mode /\ f.cur = top.cur /\ f.n = top.n /\ f.h = top.h
      /\ f.reached = top.reached /\ f.live = top.live /\ f.run /\ f.pos = top.pos
  BY DEF Frames
<1>6. m.owed \in [Agents -> Nat] /\ m.from \in Agents
  BY MessageFields
<1>7. owed \in [Agents -> Nat]
      /\ \A a \in Agents : owed[a] <= m.owed[a] /\ (a = top.cur /\ owed[a] > 0 => owed[a] = m.owed[a] - 1)
  <2>1. ASSUME NEW a \in Agents
        PROVE  /\ owed[a] = (IF a = top.cur THEN IF m.owed[a] = 0 THEN 0 ELSE m.owed[a] - 1
                             ELSE m.owed[a])
               /\ m.owed[a] \in Nat
    BY <1>6
  <2>2. DOMAIN owed = Agents /\ owed = [a \in Agents |-> owed[a]]
    BY <1>6
  <2> HIDE DEF owed
  <2>3. \A a \in Agents : owed[a] \in Nat
    BY <2>1
  <2>4. owed \in [Agents -> Nat]
    BY <2>2, <2>3
  <2>5. QED BY <2>1, <2>4
<1>8. w = [m EXCEPT !.owed = owed]
  BY DEF Messages
<1> HIDE DEF owed
<1>9. w \in Messages
  BY <1>7, <1>8 DEF Messages
<1>10. w.from = m.from /\ w.owed = owed /\ w.status = m.status /\ w.ended = m.ended
  BY <1>8 DEF Messages
<1>11. abStack' = SetTop(f) /\ abMsgs' = [abMsgs EXCEPT ![Top.msg] = w]
  BY <1>2, TopIsLast, <1>1 DEF BeginHandler
<1> HIDE DEF f, w
<1>12. Milder(w, m) /\ Over(w)
  <2>1. \A a \in Agents : m.owed[a] = 0 => owed[a] = 0
    BY <1>6, <1>7
  <2>2. QED BY <1>3, <1>7, <1>10, <2>1 DEF Milder, Over
<1>13. Serves(f, w)
  <2>1. ASSUME NEW a \in Agents, w.owed[a] > 0 PROVE InTurn(f, w, a) \/ ToCome(f, w, a)
    <3>1. owed[a] \in Nat /\ m.owed[a] \in Nat /\ owed[a] <= m.owed[a] /\ m.owed[a] > 0
          /\ abCount[a] \in Nat
      BY <1>6, <1>7, <1>10, <2>1 DEF AgentBusInv, BusTyped
    <3>2. CASE InTurn(top, m, a)
      <4>1. a = top.cur /\ owed[a] = m.owed[a] - 1
        BY <1>7, <1>10, <2>1, <3>2 DEF InTurn
      <4>2. m.owed[a] <= top.n + 1 - top.h
        BY <1>3, <3>2 DEF InTurn, Remaining
      <4>3. owed[a] <= top.n + 1 - top.h - 1
        BY <1>3, <3>1, <4>1, <4>2
      <4>4. QED BY <1>5, <1>10, <3>2, <4>3 DEF InTurn, Remaining
    <3>3. CASE ToCome(top, m, a)
      BY <1>5, <1>10, <3>1, <3>3 DEF ToCome
    <3>4. QED BY <1>3, <3>1, <3>2, <3>3 DEF Serves
  <2>2. m.owed[m.from] = 0 => owed[m.from] = 0
    BY <1>6, <1>7
  <2>3. QED BY <1>3, <1>5, <1>10, <2>1, <2>2 DEF Serves
<1>14. QED BY <1>1, <1>2, <1>4, <1>5, <1>9, <1>11, <1>12, <1>13, TopStep

\* A handler is through, with the status it leaves.
LEMMA HandlerEnds ==
    ASSUME AgentBusInv, InHandler, NEW status \in {"delivered", "dead_letter"},
           abStack' = SetTop([Top EXCEPT !.run = FALSE, !.h = @ + 1]),
           abMsgs' = [abMsgs EXCEPT ![Top.msg].status = status], UNCHANGED abAgents
    PROVE  AgentBusInv'
<1>1. abStack # <<>> /\ Top.run
  BY DEF InHandler
<1>2. PICK top \in Frames, m \in Messages : top = Top /\ m = abMsgs[Top.msg]
  BY <1>1, TopIsLast
<1>3. Serves(top, m) /\ Over(m) /\ top.h \in Nat /\ top.n \in Nat /\ top.run
  BY <1>1, <1>2, TopIsLast, FrameFields
<1> DEFINE f == [top EXCEPT !.run = FALSE, !.h = top.h + 1]
           w == [m EXCEPT !.status = status]
<1>4. f \in Frames
  <2>1. top.h + 1 \in Nat
    BY <1>3
  <2>2. PICK k \in Nat : k = top.h + 1
    BY <2>1
  <2>3. [top EXCEPT !.run = FALSE, !.h = k] \in Frames
    BY DEF Frames
  <2>4. QED BY <2>2, <2>3
<1>5. f.msg = top.msg /\ f.mode = top.mode /\ f.cur = top.cur /\ f.n = top.n
  BY DEF Frames
<1>6. f.h = top.h + 1 /\ f.live = top.live /\ ~f.run /\ f.pos = top.pos
  BY DEF Frames
<1>7. w \in Messages
  BY DEF Messages
<1>8. w.from = m.from /\ w.owed = m.owed /\ w.status = status /\ w.ended = m.ended
  BY DEF Messages
<1>9. abStack' = SetTop(f) /\ abMsgs' = [abMsgs EXCEPT ![Top.msg] = w]
  BY <1>2
<1> HIDE DEF f, w
<1>10. Milder(w, m) /\ Over(w)
  BY <1>3, <1>8, MessageFields DEF Milder, Over
<1>11. Remaining(f) = Remaining(top)
  BY <1>3, <1>5, <1>6 DEF Remaining
<1>12. Serves(f, w)
  BY <1>3, <1>5, <1>6, <1>8, <1>11 DEF Serves, InTurn, ToCome
<1>13. QED BY <1>1, <1>2, <1>4, <1>5, <1>7, <1>9, <1>10, <1>12, TopStep

LEMMA RegisterKeeps == ASSUME AgentBusInv, NEW a \in Agents, Register(a) PROVE AgentBusInv'
<1> DEFINE Grows(f) == a \in Keys /\ f.cur = a /\ f.live
           Next(f) == IF Grows(f) THEN [f EXCEPT !.n = @ + 1] ELSE f
<1>1. /\ abSlots \in Seq(Agents \cup {Nobody}) /\ abCount \in [Agents -> Nat]
      /\ abMsgs \in Seq(Messages) /\ abStack \in Seq(Frames)
  BY DEF AgentBusInv, BusTyped
<1>2. /\ abCount' = [abCount EXCEPT ![a] = @ + 1] /\ UNCHANGED abMsgs
      /\ abSlots' = (IF a \in Keys THEN abSlots ELSE Append(abSlots, a))
      /\ abStack' = [i \in DOMAIN abStack |-> Next(abStack[i])]
  BY DEF Register
<1>3. ASSUME NEW f \in Frames
      PROVE  /\ Next(f) \in Frames /\ Next(f).msg = f.msg /\ Next(f).mode = f.mode
             /\ Next(f).cur = f.cur /\ Next(f).h = f.h /\ Next(f).live = f.live
             /\ Next(f).run = f.run /\ Next(f).pos = f.pos /\ Next(f).reached = f.reached
             /\ Next(f).n >= f.n
  <2>1. PICK k \in Nat : k = f.n + 1
    BY FrameFields
  <2>2. Next(f) = (IF Grows(f) THEN [f EXCEPT !.n = k] ELSE f)
    BY <2>1
  <2>3. [f EXCEPT !.n = k] \in Frames
    BY DEF Frames
  <2> DEFINE g == [f EXCEPT !.n = k]
  <2>4. g.msg = f.msg /\ g.mode = f.mode /\ g.cur = f.cur /\ g.h = f.h /\ g.live = f.live
    BY DEF Frames
  <2>5. g.run = f.run /\ g.pos = f.pos /\ g.reached = f.reached /\ g.n = k
    BY DEF Frames
  <2>6. k >= f.n /\ f.n >= f.n
    BY <2>1, FrameFields
  <2> HIDE DEF g
  <2>7. CASE Grows(f)
    <3>1. Next(f) = g
      BY <2>2, <2>7 DEF g
    <3> HIDE DEF Next
    <3>2. QED BY <2>3, <2>4, <2>5, <2>6, <3>1 DEF g
  <2>8. CASE ~Grows(f)
    <3>1. Next(f) = f
      BY <2>2, <2>8
    <3> HIDE DEF Next
    <3>2. QED BY <2>6, <3>1
  <2>9. QED BY <2>7, <2>8
<1> HIDE DEF Next
<1>4. abCount' \in [Agents -> Nat] /\ \A b \in Agents : abCount'[b] >= abCount[b] /\ abCount'[b] \in Nat
  BY <1>1, <1>2
<1>5. /\ abStack' \in Seq(Frames) /\ DOMAIN abStack' = DOMAIN abStack
      /\ \A i \in DOMAIN abStack : abStack'[i] = Next(abStack[i]) /\ abStack[i] \in Frames
  <2>1. PICK t \in Seq(Frames) : t = abStack
    BY <1>1
  <2>2. \A i \in DOMAIN t : Next(t[i]) \in Frames
    BY <1>3
  <2>3. [i \in 1 .. Len(t) |-> Next(t[i])] \in [1 .. Len(t) -> Frames]
    BY <2>2
  <2>4. [i \in DOMAIN t |-> Next(t[i])] \in Seq(Frames)
    BY <2>3
  <2>5. QED BY <1>2, <2>1, <2>4
<1>6. /\ abSlots' \in Seq(Agents \cup {Nobody}) /\ Len(abSlots) <= Len(abSlots')
      /\ \A k \in DOMAIN abSlots : k \in DOMAIN abSlots' /\ abSlots'[k] = abSlots[k]
  BY <1>1, <1>2
<1>7. SlotsInv'
  <2>1. ASSUME NEW b \in Agents
        PROVE  abCount'[b] > 0 <=> \E k \in DOMAIN abSlots' : abSlots'[k] = b
    <3>1. CASE b = a
      <4>1. abCount'[b] > 0
        BY <1>1, <1>2, <3>1
      <4>2. CASE a \in Keys
        BY <1>2, <3>1, <4>1, <4>2 DEF Keys, AgentBusInv, SlotsInv
      <4>3. CASE a \notin Keys
        <5>1. Len(abSlots') \in DOMAIN abSlots' /\ abSlots'[Len(abSlots')] = a
          BY <1>1, <1>2, <4>3
        <5>2. QED BY <3>1, <4>1, <5>1
      <4>4. QED BY <4>2, <4>3
    <3>2. CASE b # a
      <4>1. abCount'[b] = abCount[b]
        BY <1>1, <1>2, <3>2
      <4>2. ASSUME NEW k \in DOMAIN abSlots', abSlots'[k] = b PROVE k \in DOMAIN abSlots /\ abSlots[k] = b
        BY <1>1, <1>2, <3>2, <4>2
      <4>3. (\E k \in DOMAIN abSlots' : abSlots'[k] = b) <=> \E k \in DOMAIN abSlots : abSlots[k] = b
        BY <1>6, <4>2
      <4>4. QED BY <4>1, <4>3 DEF AgentBusInv, SlotsInv
    <3>3. QED BY <3>1, <3>2
  <2>2. QED BY <2>1 DEF SlotsInv
<1>8. ASSUME NEW f \in Frames, NEW m \in Messages, Serves(f, m), NEW g, g = Next(f) PROVE Serves(g, m)'
  <2>1. /\ g \in Frames /\ g.msg = f.msg /\ g.mode = f.mode /\ g.cur = f.cur /\ g.h = f.h
        /\ g.live = f.live /\ g.run = f.run /\ g.pos = f.pos /\ g.reached = f.reached
        /\ g.n >= f.n
    BY <1>3, <1>8
  <2>2. f.n \in Nat /\ g.n \in Nat /\ f.h \in Nat /\ f.pos \in Nat
    BY <2>1, FrameFields
  <2>3. ASSUME NEW b \in Agents, m.owed[b] > 0 PROVE InTurn(g, m, b)' \/ ToCome(g, m, b)'
    <3>1. m.owed[b] \in Nat /\ abCount[b] \in Nat /\ abCount'[b] \in Nat /\ abCount'[b] >= abCount[b]
      BY <1>1, <1>4, MessageFields
    <3>2. CASE InTurn(f, m, b)
      <4>1. Remaining(f) <= Remaining(g) /\ Remaining(f) \in Int /\ Remaining(g) \in Int
        BY <2>1, <2>2 DEF Remaining
      <4>2. m.owed[b] <= Remaining(g)
        BY <3>1, <3>2, <4>1 DEF InTurn
      <4>3. QED BY <2>1, <3>2, <4>2 DEF InTurn, Remaining
    <3>3. CASE ToCome(f, m, b)
      <4>1. m.owed[b] <= abCount'[b]
        BY <3>1, <3>3 DEF ToCome
      <4>2. QED BY <1>6, <2>1, <3>3, <4>1 DEF ToCome
    <3>4. QED BY <2>3, <3>2, <3>3, <1>8 DEF Serves
  <2>4. f.h <= f.n => g.h <= g.n
    BY <2>1, <2>2
  <2>5. QED BY <1>8, <2>1, <2>3, <2>4 DEF Serves
<1>9. CallsServe'
  <2>1. ASSUME NEW i \in DOMAIN abStack'
        PROVE  abStack'[i].msg \in DOMAIN abMsgs' /\ Serves(abStack[i], abMsgs[abStack[i].msg])'
    <3>1. PICK f \in Frames : f = abStack[i] /\ i \in DOMAIN abStack
      BY <1>5
    <3>2. f.msg \in DOMAIN abMsgs /\ Serves(f, abMsgs[f.msg])
      BY <3>1 DEF AgentBusInv, CallsServe
    <3>3. PICK m \in Messages : m = abMsgs[f.msg]
      BY <1>1, <3>2
    <3>4. PICK g : g = Next(f)
      OBVIOUS
    <3>5. Serves(g, m)'
      BY <1>8, <3>2, <3>3, <3>4
    <3>6. abStack'[i] = g /\ g.msg = f.msg
      BY <1>3, <1>5, <3>1, <3>4
    <3>7. QED BY <1>2, <3>2, <3>3, <3>5, <3>6 DEF Serves, InTurn, ToCome
  <2>2. QED BY <2>1 DEF CallsServe
<1>10. QED BY <1>2, <1>4, <1>5, <1>6, <1>7, <1>9 DEF AgentBusInv, BusTyped, EndedAreOver, Over

LEMMA HandlerReturnsKeeps == ASSUME AgentBusInv, HandlerReturns PROVE AgentBusInv'
BY HandlerEnds DEF HandlerReturns

LEMMA HandlerRaisesKeeps == ASSUME AgentBusInv, HandlerRaises PROVE AgentBusInv'
BY HandlerEnds DEF HandlerRaises, AfterFailure

LEMMA ClearKeeps == ASSUME AgentBusInv, ClearDeadLetters PROVE AgentBusInv'
BY DEF ClearDeadLetters, abAgents, AgentBusInv, BusTyped, SlotsInv, CallsServe, EndedAreOver, Serves,
   InTurn, ToCome, Over

LEMMA UnregisterKeeps == ASSUME AgentBusInv, NEW a \in Agents, Unregister(a) PROVE AgentBusInv'
<1> DEFINE Cut(f) == IF f.cur = a THEN [f EXCEPT !.live = FALSE] ELSE f
           Spared(m) == [m EXCEPT !.owed[a] = 0]
<1>1. /\ abSlots \in Seq(Agents \cup {Nobody}) /\ abCount \in [Agents -> Nat]
      /\ abMsgs \in Seq(Messages) /\ abStack \in Seq(Frames)
  BY DEF AgentBusInv, BusTyped
<1>2. /\ abCount' = [abCount EXCEPT ![a] = 0]
      /\ abSlots' = [i \in DOMAIN abSlots |-> IF abSlots[i] = a THEN Nobody ELSE abSlots[i]]
      /\ abStack' = [i \in DOMAIN abStack |-> Cut(abStack[i])]
      /\ abMsgs' = [m \in DOMAIN abMsgs |-> Spared(abMsgs[m])]
  BY DEF Unregister
<1>3. ASSUME NEW f \in Frames
      PROVE  /\ Cut(f) \in Frames /\ Cut(f).msg = f.msg /\ Cut(f).mode = f.mode
             /\ Cut(f).cur = f.cur /\ Cut(f).h = f.h /\ Cut(f).n = f.n
             /\ Cut(f).run = f.run /\ Cut(f).pos = f.pos /\ Cut(f).reached = f.reached
             /\ f.cur # a => Cut(f).live = f.live
  BY DEF Frames
<1>4. ASSUME NEW m \in Messages
      PROVE  /\ Spared(m) \in Messages /\ Spared(m).from = m.from /\ Spared(m).status = m.status
             /\ Spared(m).ended = m.ended /\ Spared(m).owed[a] = 0
             /\ \A b \in Agents : b # a => Spared(m).owed[b] = m.owed[b]
  BY DEF Messages
<1> HIDE DEF Cut, Spared
<1>5. /\ abStack' \in Seq(Frames) /\ DOMAIN abStack' = DOMAIN abStack
      /\ \A i \in DOMAIN abStack : abStack'[i] = Cut(abStack[i]) /\ abStack[i] \in Frames
  <2>1. PICK t \in Seq(Frames) : t = abStack
    BY <1>1
  <2>2. [i \in 1 .. Len(t) |-> Cut(t[i])] \in [1 .. Len(t) -> Frames]
    BY <1>3
  <2>3. [i \in DOMAIN t |-> Cut(t[i])] \in Seq(Frames)
    BY <2>2
  <2>4. QED BY <1>2, <2>1, <2>3
<1>6. /\ abMsgs' \in Seq(Messages) /\ DOMAIN abMsgs' = DOMAIN abMsgs
      /\ \A i \in DOMAIN abMsgs : abMsgs'[i] = Spared(abMsgs[i]) /\ abMsgs[i] \in Messages
  <2>1. PICK t \in Seq(Messages) : t = abMsgs
    BY <1>1
  <2>2. [i \in 1 .. Len(t) |-> Spared(t[i])] \in [1 .. Len(t) -> Messages]
    BY <1>4
  <2>3. [i \in DOMAIN t |-> Spared(t[i])] \in Seq(Messages)
    BY <2>2
  <2>4. QED BY <1>2, <2>1, <2>3
<1>7. /\ abSlots' \in Seq(Agents \cup {Nobody}) /\ DOMAIN abSlots' = DOMAIN abSlots
      /\ \A k \in DOMAIN abSlots : abSlots'[k] = (IF abSlots[k] = a THEN Nobody ELSE abSlots[k])
  <2>1. PICK t \in Seq(Agents \cup {Nobody}) : t = abSlots
    BY <1>1
  <2>2. [i \in 1 .. Len(t) |-> IF t[i] = a THEN Nobody ELSE t[i]] \in [1 .. Len(t) -> Agents \cup {Nobody}]
    BY <2>1
  <2>3. [i \in DOMAIN t |-> IF t[i] = a THEN Nobody ELSE t[i]] \in Seq(Agents \cup {Nobody})
    BY <2>2
  <2>4. QED BY <1>2, <2>1, <2>3
<1>8. abCount' \in [Agents -> Nat] /\ abCount'[a] = 0 /\ \A b \in Agents : b # a => abCount'[b] = abCount[b]
  BY <1>1, <1>2
<1>9. SlotsInv'
  <2>1. ASSUME NEW b \in Agents
        PROVE  abCount'[b] > 0 <=> \E k \in DOMAIN abSlots' : abSlots'[k] = b
    <3>1. Nobody # b /\ Nobody # a
      BY NobodyAssumption
    <3>2. CASE b = a
      BY <1>7, <1>8, <3>1, <3>2
    <3>3. CASE b # a
      <4>1. (\E k \in DOMAIN abSlots' : abSlots'[k] = b) <=> \E k \in DOMAIN abSlots : abSlots[k] = b
        BY <1>7, <3>1, <3>3
      <4>2. QED BY <1>8, <3>3, <4>1 DEF AgentBusInv, SlotsInv
    <3>4. QED BY <3>2, <3>3
  <2>2. QED BY <2>1 DEF SlotsInv
<1>10. ASSUME NEW f \in Frames, NEW m \in Messages, Serves(f, m),
              NEW g, g = Cut(f), NEW w, w = Spared(m)
       PROVE  Serves(g, w)'
  <2>1. ASSUME NEW b \in Agents, w.owed[b] > 0 PROVE InTurn(g, w, b)' \/ ToCome(g, w, b)'
    <3>1. b # a /\ w.owed[b] = m.owed[b] /\ abCount'[b] = abCount[b] /\ b # Nobody
      BY <1>4, <1>8, <1>10, <2>1, NobodyAssumption
    <3>2. CASE InTurn(f, m, b)
      BY <1>3, <1>10, <3>1, <3>2 DEF InTurn, Remaining
    <3>3. CASE ToCome(f, m, b)
      <4>1. PICK k \in DOMAIN abSlots : k >= f.pos /\ abSlots[k] = b
        BY <3>3 DEF ToCome
      <4>2. k \in DOMAIN abSlots' /\ abSlots'[k] = b
        BY <1>7, <3>1, <4>1
      <4>3. g.mode = f.mode /\ g.pos = f.pos
        BY <1>3, <1>10
      <4>4. QED BY <3>1, <3>3, <4>1, <4>2, <4>3 DEF ToCome
    <3>4. QED BY <1>10, <2>1, <3>1, <3>2, <3>3 DEF Serves
  <2>2. m.from \in Agents /\ w.from = m.from /\ w.status = m.status
    BY <1>4, <1>10, MessageFields
  <2>3. m.owed[m.from] = 0 => w.owed[w.from] = 0
    BY <1>4, <1>10, <2>2
  <2>4. /\ g.mode = f.mode /\ g.cur = f.cur /\ g.h = f.h /\ g.n = f.n /\ g.reached = f.reached
    BY <1>3, <1>10
  <2>5. QED BY <1>10, <2>1, <2>2, <2>3, <2>4 DEF Serves
<1>11. CallsServe'
  <2>1. ASSUME NEW i \in DOMAIN abStack'
        PROVE  abStack'[i].msg \in DOMAIN abMsgs' /\ Serves(abStack[i], abMsgs[abStack[i].msg])'
    <3>1. PICK f \in Frames : f = abStack[i] /\ i \in DOMAIN abStack
      BY <1>5
    <3>2. f.msg \in DOMAIN abMsgs /\ Serves(f, abMsgs[f.msg])
      BY <3>1 DEF AgentBusInv, CallsServe
    <3>3. PICK m \in Messages : m = abMsgs[f.msg]
      BY <1>6, <3>2
    <3>4. PICK g, w : g = Cut(f) /\ w = Spared(m)
      OBVIOUS
    <3>5. Serves(g, w)'
      BY <1>10, <3>2, <3>3, <3>4
    <3>6. abStack'[i] = g /\ g.msg = f.msg /\ abMsgs'[f.msg] = w
      BY <1>3, <1>5, <1>6, <3>1, <3>2, <3>3, <3>4
    <3>7. QED BY <1>6, <3>2, <3>5, <3>6 DEF Serves, InTurn, ToCome
  <2>2. QED BY <2>1 DEF CallsServe
<1>12. EndedAreOver'
  <2>1. ASSUME NEW m \in Messages, Over(m) PROVE Over(Spared(m))
    BY <1>4, <2>1 DEF Over
  <2>2. QED BY <1>6, <2>1 DEF EndedAreOver, AgentBusInv, Over
<1>13. QED BY <1>5, <1>6, <1>7, <1>8, <1>9, <1>11, <1>12 DEF AgentBusInv, BusTyped

\* A new message w, and the call f that sends it.
LEMMA SendKeeps ==
    ASSUME AgentBusInv, NEW w \in Messages, Over(w), abMsgs' = Append(abMsgs, w), UNCHANGED abAgents,
           \/ UNCHANGED abStack
           \/ \E f \in Frames : abStack' = Append(abStack, f) /\ f.msg = Len(abMsgs) + 1 /\ Serves(f, w)
    PROVE  AgentBusInv'
<1>1. abMsgs \in Seq(Messages) /\ abStack \in Seq(Frames) /\ UNCHANGED <<abSlots, abCount>>
  BY DEF AgentBusInv, BusTyped, abAgents
<1>2. /\ abMsgs' \in Seq(Messages) /\ Len(abMsgs) + 1 \in DOMAIN abMsgs' /\ abMsgs'[Len(abMsgs) + 1] = w
      /\ \A i \in DOMAIN abMsgs : i \in DOMAIN abMsgs' /\ abMsgs'[i] = abMsgs[i]
      /\ \A i \in DOMAIN abMsgs' : i \in DOMAIN abMsgs \/ i = Len(abMsgs) + 1
  BY <1>1
<1>3. EndedAreOver'
  BY <1>2 DEF AgentBusInv, EndedAreOver, Over
<1>4. ASSUME NEW i \in DOMAIN abStack, NEW f, f = abStack[i]
      PROVE  f.msg \in DOMAIN abMsgs' /\ Serves(f, abMsgs[f.msg])'
  <2>1. f.msg \in DOMAIN abMsgs /\ Serves(f, abMsgs[f.msg])
    BY <1>4 DEF AgentBusInv, CallsServe
  <2>2. PICK m : m = abMsgs[f.msg]
    OBVIOUS
  <2>3. Serves(f, m)'
    BY <1>1, <2>1, <2>2 DEF Serves, InTurn, ToCome, Remaining
  <2>4. QED BY <1>2, <2>1, <2>2, <2>3 DEF Serves, InTurn, ToCome
<1>5. CASE UNCHANGED abStack
  BY <1>1, <1>2, <1>3, <1>4, <1>5 DEF AgentBusInv, BusTyped, SlotsInv, CallsServe
<1>6. ASSUME NEW f \in Frames, abStack' = Append(abStack, f), f.msg = Len(abMsgs) + 1, Serves(f, w)
      PROVE  AgentBusInv'
  <2>1. /\ abStack' \in Seq(Frames)
        /\ \A i \in DOMAIN abStack' : (i \in DOMAIN abStack /\ abStack'[i] = abStack[i]) \/ abStack'[i] = f
    BY <1>1, <1>6
  <2>2. Serves(f, w)'
    BY <1>1, <1>6 DEF Serves, InTurn, ToCome, Remaining
  <2>3. ASSUME NEW i \in DOMAIN abStack'
        PROVE  abStack'[i].msg \in DOMAIN abMsgs' /\ Serves(abStack[i], abMsgs[abStack[i].msg])'
    <3>1. PICK g : g = abStack'[i]
      OBVIOUS
    <3>2. g.msg \in DOMAIN abMsgs' /\ Serves(g, abMsgs[g.msg])'
      <4>1. CASE g = f
        BY <1>2, <1>6, <2>2, <4>1 DEF Serves, InTurn, ToCome
      <4>2. CASE i \in DOMAIN abStack /\ g = abStack[i]
        BY <1>4, <4>2
      <4>3. QED BY <2>1, <3>1, <4>1, <4>2
    <3>3. QED BY <3>1, <3>2 DEF Serves, InTurn, ToCome
  <2>4. QED BY <1>1, <1>2, <1>3, <2>1, <2>3 DEF AgentBusInv, BusTyped, SlotsInv, CallsServe
<1>7. QED BY <1>5, <1>6

\* A frame that a new call starts with.
LEMMA FirstFrame ==
    ASSUME NEW msg \in Nat, NEW mode \in {"direct", "all"}, NEW group \in SUBSET Agents,
           NEW cur \in Agents \cup {Nobody}, NEW n \in Nat, NEW f,
           f = [msg |-> msg, mode |-> mode, group |-> group, cur |-> cur, h |-> 1, n |-> n,
                live |-> TRUE, pos |-> 1, size |-> Cardinality(Keys), reached |-> FALSE, run |-> FALSE]
    PROVE  /\ f \in Frames /\ f.msg = msg /\ f.mode = mode /\ f.cur = cur /\ f.n = n /\ f.h = 1
           /\ f.live /\ f.pos = 1 /\ ~f.reached /\ ~f.run
<1>1. Cardinality(Keys) \in {Cardinality(S) : S \in SUBSET Agents}
  BY DEF Keys
<1>2. PICK size \in {Cardinality(S) : S \in SUBSET Agents} : size = Cardinality(Keys)
  BY <1>1
<1>3. QED BY <1>2 DEF Frames

LEMMA SendDirectKeeps ==
    ASSUME AgentBusInv, NEW from \in Agents, NEW to \in Agents, SendDirect(from, to) PROVE AgentBusInv'
<1>1. abMsgs \in Seq(Messages) /\ abCount \in [Agents -> Nat] /\ UNCHANGED abAgents
  BY DEF AgentBusInv, BusTyped, SendDirect
<1>2. PICK len \in Nat : len = Len(abMsgs) + 1
  BY <1>1
<1>3. CASE to \in Keys
  <2> DEFINE owed == [a \in Agents |-> IF a = to THEN abCount[a] ELSE 0]
             w == [from |-> from, status |-> "pending", owed |-> owed, ended |-> FALSE]
  <2>1. owed \in [Agents -> Nat]
    BY <1>1
  <2>2. abMsgs' = Append(abMsgs, w)
    BY <1>3 DEF SendDirect, NewMessage
  <2>3. PICK f : f = [msg |-> len, mode |-> "direct", group |-> {}, cur |-> to, h |-> 1,
                      n |-> abCount[to], live |-> TRUE, pos |-> 1, size |-> Cardinality(Keys),
                      reached |-> FALSE, run |-> FALSE]
    OBVIOUS
  <2>4. abStack' = Append(abStack, f)
    BY <1>2, <1>3, <2>3 DEF SendDirect, Call
  <2>5. abCount[to] \in Nat /\ abCount[to] > 0
    BY <1>1, <1>3 DEF Keys
  <2>6. /\ f \in Frames /\ f.msg = len /\ f.mode = "direct" /\ f.cur = to /\ f.n = abCount[to]
        /\ f.h = 1 /\ f.live /\ ~f.run
    <3>1. {} \in SUBSET Agents
      OBVIOUS
    <3>2. QED BY <2>3, <2>5, <3>1, FirstFrame
  <2>7. \A a \in Agents : owed[a] > 0 => a = to /\ owed[a] = abCount[to]
    OBVIOUS
  <2> HIDE DEF owed
  <2>8. w \in Messages /\ w.owed = owed /\ w.status = "pending" /\ ~w.ended /\ w.from = from
    BY <2>1 DEF Messages
  <2> HIDE DEF w
  <2>9. Remaining(f) = abCount[to]
    BY <2>5, <2>6 DEF Remaining
  <2>10. Serves(f, w)
    <3>1. \A a \in Agents : w.owed[a] > 0 => InTurn(f, w, a)
      BY <2>5, <2>6, <2>7, <2>8, <2>9 DEF InTurn
    <3>2. f.h <= f.n
      BY <2>5, <2>6
    <3>3. QED BY <2>6, <2>8, <3>1, <3>2 DEF Serves
  <2>11. Over(w)
    BY <2>8 DEF Over
  <2>12. QED BY <1>1, <1>2, <2>2, <2>4, <2>6, <2>8, <2>10, <2>11, SendKeeps
<1>4. CASE to \notin Keys
  <2> DEFINE w == [from |-> from, status |-> "dead_letter", owed |-> [a \in Agents |-> 0], ended |-> TRUE]
  <2>1. abMsgs' = Append(abMsgs, w) /\ UNCHANGED abStack
    BY <1>4 DEF SendDirect, NewMessage
  <2>2. w \in Messages
    BY DEF Messages
  <2>3. Over(w)
    BY DEF Over
  <2> HIDE DEF w
  <2>4. QED BY <1>1, <2>1, <2>2, <2>3, SendKeeps
<1>5. QED BY <1>3, <1>4

LEMMA BroadcastKeeps ==
    ASSUME AgentBusInv, NEW from \in Agents, NEW group \in SUBSET Agents, Broadcast(from, group)
    PROVE  AgentBusInv'
<1> DEFINE owed == [a \in Agents |-> IF a = from THEN 0 ELSE abCount[a]]
           w == [from |-> from, status |-> "pending", owed |-> owed, ended |-> FALSE]
<1>1. /\ abMsgs \in Seq(Messages) /\ abCount \in [Agents -> Nat] /\ UNCHANGED abAgents
      /\ abSlots \in Seq(Agents \cup {Nobody})
  BY DEF AgentBusInv, BusTyped, Broadcast
<1>2. PICK len \in Nat : len = Len(abMsgs) + 1
  BY <1>1
<1>3. owed \in [Agents -> Nat]
  BY <1>1
<1>4. abMsgs' = Append(abMsgs, w)
  BY DEF Broadcast, NewMessage
<1>5. PICK f : f = [msg |-> len, mode |-> "all", group |-> group, cur |-> Nobody, h |-> 1,
                    n |-> 0, live |-> TRUE, pos |-> 1, size |-> Cardinality(Keys),
                    reached |-> FALSE, run |-> FALSE]
  OBVIOUS
<1>6. abStack' = Append(abStack, f)
  BY <1>2, <1>5 DEF Broadcast, Call
<1>7. /\ f \in Frames /\ f.msg = len /\ f.mode = "all" /\ f.cur = Nobody /\ f.pos = 1 /\ ~f.reached
  BY <1>5, FirstFrame
<1>8. owed[from] = 0 /\ \A a \in Agents : owed[a] > 0 => owed[a] = abCount[a]
  OBVIOUS
<1> HIDE DEF owed
<1>9. w \in Messages /\ w.owed = owed /\ w.status = "pending" /\ ~w.ended /\ w.from = from
  BY <1>3 DEF Messages
<1> HIDE DEF w
<1>10. ASSUME NEW a \in Agents, w.owed[a] > 0 PROVE ToCome(f, w, a)
  <2>1. abCount[a] \in Nat /\ abCount[a] > 0 /\ w.owed[a] <= abCount[a]
    BY <1>1, <1>8, <1>9, <1>10
  <2>2. PICK k \in DOMAIN abSlots : abSlots[k] = a
    BY <2>1 DEF AgentBusInv, SlotsInv
  <2>3. k >= f.pos
    BY <1>1, <1>7, <2>2
  <2>4. QED BY <1>7, <2>1, <2>2, <2>3 DEF ToCome
<1>11. Serves(f, w)
  BY <1>7, <1>8, <1>9, <1>10, NobodyAssumption DEF Serves
<1>12. Over(w)
  BY <1>9 DEF Over
<1>13. QED BY <1>1, <1>2, <1>4, <1>6, <1>7, <1>9, <1>11, <1>12, SendKeeps

LEMMA AgentBusStep == AgentBusInv /\ [AgentBusNext]_abVars => AgentBusInv'
<1> SUFFICES ASSUME AgentBusInv, [AgentBusNext]_abVars PROVE AgentBusInv'
  OBVIOUS
<1>1. CASE UNCHANGED abVars
  BY <1>1 DEF abVars, AgentBusInv, BusTyped, SlotsInv, CallsServe, EndedAreOver, Serves, InTurn, ToCome,
     Remaining, Over
<1>2. QED
  BY <1>1, RegisterKeeps, UnregisterKeeps, NextInGroupKeeps, SendDirectKeeps, BroadcastKeeps,
     NextAgentKeeps, IterationRaisesKeeps, SendReturnsKeeps, BeginHandlerKeeps, HandlerReturnsKeeps,
     HandlerRaisesKeeps, ClearKeeps
     DEF AgentBusNext

-----------------------------------------------------------------------------
(* The event bus. *)

Mutations == [op : {"none", "sub", "unsub"}, sub : Subs \cup {"none"}, list : Nat, kept : Seq(Subs)]
Publishes == [list : Nat, pos : Nat, gone : SUBSET Subs, calling : SUBSET Subs]
EventTyped ==
  /\ ebLists \in Seq(Seq(Subs)) /\ ebBucket \in DOMAIN ebLists
  /\ ebMut \in [Mutators -> Mutations] /\ ebPub \in [Publishers -> Publishes]
  /\ ebOn \subseteq Subs /\ ebGone \subseteq Subs /\ ebRaced \in BOOLEAN
  /\ \A t \in Mutators : /\ ebMut[t].op = "sub" => ebMut[t].list \in DOMAIN ebLists
                         /\ ebMut[t].op # "none" => ebMut[t].sub \in Subs
  /\ \A p \in Publishers : /\ ebPub[p].list # 0 => ebPub[p].list \in DOMAIN ebLists /\ ebPub[p].pos > 0
                           /\ ebPub[p].gone \subseteq ebGone

\* The list that a publish would find has all that subscribed and none that cancelled.
Current(list, on) == on \subseteq Range(list) /\ Range(list) \cap ebGone = {}

\* What a thread is doing, when none disturbs it: one that cancels is alone, and has
\* kept all the others; those that subscribe will append something new, each its own.
Undisturbed(t) ==
  LET mut == ebMut[t] IN
  /\ mut.op = "unsub" =>
       /\ Current(mut.kept, ebOn \ {mut.sub}) /\ mut.sub \notin Range(mut.kept)
       /\ \A u \in Mutators : u # t => ebMut[u].op = "none"
  /\ mut.op = "sub" =>
       /\ mut.list = ebBucket /\ mut.sub \notin ebOn \cup ebGone
       /\ \A u \in Mutators : u # t /\ ebMut[u].op # "none" => ebMut[u].sub # mut.sub

\* What a publish reads, and calls, had not been cancelled when it began.
InTime(p) ==
  LET pub == ebPub[p] IN
  /\ pub.calling \cap pub.gone = {}
  /\ pub.list # 0 => Range(ebLists[pub.list]) \cap pub.gone = {}

EventBusInv ==
  /\ EventTyped
  /\ ~ebRaced =>
       /\ Current(ebLists[ebBucket], ebOn)
       /\ \A t \in Mutators : Undisturbed(t)
       /\ \A p \in Publishers : InTime(p)

\* The equation that defines the function kept of Kept.
KeptStep(list, s, f) ==
  f = [k \in 0 .. Len(list) |->
         IF k = 0 THEN <<>> ELSE IF list[k] # s THEN Append(f[k - 1], list[k]) ELSE f[k - 1]]

LEMMA KeptRange ==
    ASSUME NEW list \in Seq(Subs), NEW s
    PROVE  Kept(list, s) \in Seq(Subs) /\ Range(Kept(list, s)) = Range(list) \ {s}
<1> DEFINE n == Len(list)
           step == [p \in (1 .. n) \X Seq(Subs) |->
                      IF list[p[1]] # s THEN Append(p[2], list[p[1]]) ELSE p[2]]
<1>1. n \in Nat /\ <<>> \in Seq(Subs) /\ DOMAIN list = 1 .. n /\ \A k \in 1 .. n : list[k] \in Subs
  OBVIOUS
<1>2. ASSUME NEW k \in 1 .. n, NEW x \in Seq(Subs)
      PROVE  step[<<k, x>>] = (IF list[k] # s THEN Append(x, list[k]) ELSE x)
             /\ step[<<k, x>>] \in Seq(Subs)
  <2>1. Append(x, list[k]) \in Seq(Subs)
    BY <1>1
  <2>2. QED BY <2>1
<1> HIDE DEF step, n
<1>3. PICK f \in [0 .. n -> Seq(Subs)] : f[0] = <<>> /\ \A k \in 1 .. n : f[k] = step[<<k, f[k - 1]>>]
  <2>1. Closed(Seq(Subs), n, step)
    BY <1>2 DEF Closed
  <2>2. \E f : Iterates(Seq(Subs), <<>>, n, step, f)
    BY <1>1, <2>1, Recursion
  <2>3. QED BY <2>2 DEF Iterates
<1>4. ASSUME NEW k \in 0 .. n, k # 0 PROVE k \in 1 .. n /\ f[k - 1] \in Seq(Subs)
  BY <1>1, <1>4
<1>5. \A k \in 0 .. n :
        f[k] = (IF k = 0 THEN <<>> ELSE IF list[k] # s THEN Append(f[k - 1], list[k]) ELSE f[k - 1])
  BY <1>2, <1>3, <1>4
<1>6. KeptStep(list, s, f)
  BY <1>5 DEF KeptStep, n
<1>7. PICK g : g = CHOOSE h : KeptStep(list, s, h)
  OBVIOUS
<1>8. KeptStep(list, s, g)
  BY <1>6, <1>7
<1>9. Kept(list, s) = g[n]
  BY <1>7 DEF Kept, KeptStep, n
<1>10. \A k \in 0 .. n :
         g[k] = (IF k = 0 THEN <<>> ELSE IF list[k] # s THEN Append(g[k - 1], list[k]) ELSE g[k - 1])
  BY <1>8 DEF KeptStep, n
<1> DEFINE Upto(k) == {list[i] : i \in 1 .. k}
           Good(k) == g[k] \in Seq(Subs) /\ Range(g[k]) = Upto(k) \ {s}
           T == {k \in Nat : k <= n => Good(k)}
<1>11. 0 \in T
  <2>1. g[0] = <<>>
    BY <1>1, <1>10
  <2>2. Range(<<>>) = {} /\ <<>> \in Seq(Subs)
    BY DEF Range
  <2>3. Upto(0) = {}
    OBVIOUS
  <2> HIDE DEF Upto
  <2>4. QED BY <2>1, <2>2, <2>3
<1>12. ASSUME NEW k \in Nat, k \in T PROVE k + 1 \in T
  <2> SUFFICES ASSUME k + 1 <= n PROVE Good(k + 1)
    OBVIOUS
  <2>1. Good(k) /\ k + 1 \in 1 .. n /\ k + 1 \in 0 .. n /\ k + 1 # 0 /\ (k + 1) - 1 = k
    BY <1>1, <1>12
  <2>2. list[k + 1] \in Subs
    BY <1>1, <2>1
  <2>3. g[k + 1] = (IF list[k + 1] # s THEN Append(g[k], list[k + 1]) ELSE g[k])
    BY <1>10, <2>1
  <2>4. Upto(k + 1) = Upto(k) \cup {list[k + 1]}
    <3>1. 1 .. k + 1 = (1 .. k) \cup {k + 1}
      OBVIOUS
    <3>2. QED BY <3>1
  <2>5. Append(g[k], list[k + 1]) \in Seq(Subs) /\ Range(Append(g[k], list[k + 1])) = Range(g[k]) \cup {list[k + 1]}
    BY <2>1, <2>2, RangeOfAppend
  <2> HIDE DEF Upto
  <2>6. QED BY <2>1, <2>3, <2>4, <2>5
<1>13. Nat \subseteq T
  <2> HIDE DEF T
  <2>1. QED BY <1>11, <1>12, NatSetInduction
<1>14. Good(n)
  <2> HIDE DEF Good
  <2>1. QED BY <1>1, <1>13
<1>15. Upto(n) = Range(list)
  BY <1>1 DEF Range
<1>16. QED BY <1>9, <1>14, <1>15

LEMMA EventBusStarts == EventBusInit => EventBusInv
<1> SUFFICES ASSUME EventBusInit PROVE EventBusInv
  OBVIOUS
<1>1. /\ ebLists = <<<<>>>> /\ ebBucket = 1 /\ ebMut = [t \in Mutators |-> NoOp]
      /\ ebPub = [t \in Publishers |-> NoPub] /\ ebOn = {} /\ ebGone = {} /\ ebRaced = FALSE
  BY DEF EventBusInit
<1>2. NoOp \in Mutations /\ NoPub \in Publishes /\ NoOp.op = "none" /\ NoPub.list = 0 /\ NoPub.calling = {}
      /\ NoPub.gone = {}
  BY DEF NoOp, NoPub, Mutations, Publishes
<1>3. ebLists \in Seq(Seq(Subs)) /\ DOMAIN ebLists = {1} /\ ebLists[1] = <<>> /\ Range(<<>>) = {}
  BY <1>1 DEF Range
<1>4. EventTyped
  BY <1>1, <1>2, <1>3 DEF EventTyped
<1>5. Current(ebLists[ebBucket], ebOn)
  BY <1>1, <1>3 DEF Current
<1>6. QED BY <1>1, <1>2, <1>4, <1>5 DEF EventBusInv, Undisturbed, InTime

LEMMA BeginSubscribeKeeps ==
    ASSUME EventBusInv, NEW t \in Mutators, NEW s \in Subs, BeginSubscribe(t, s) PROVE EventBusInv'
<1> DEFINE op == [op |-> "sub", sub |-> s, list |-> ebBucket, kept |-> <<>>]
<1>1. /\ UNCHANGED <<ebLists, ebBucket, ebPub, ebPaused, ebOn, ebGone>> /\ s \notin ebOn \cup ebGone
      /\ \A u \in Mutators : ebMut[u].sub # s
      /\ ebMut[t].op = "none" /\ ebMut' = [ebMut EXCEPT ![t] = op]
      /\ ebRaced' = (ebRaced \/ Overlaps("sub"))
  BY DEF BeginSubscribe, Begin, ebHist
<1>2. EventTyped
  BY DEF EventBusInv
<1>3. op \in Mutations /\ op.op = "sub" /\ op.sub = s /\ op.list = ebBucket
  <2>1. ebBucket \in Nat
    BY <1>2 DEF EventTyped
  <2>2. PICK b \in Nat : b = ebBucket
    BY <2>1
  <2>3. QED BY <2>2 DEF Mutations
<1> HIDE DEF op
<1>4. ebMut' \in [Mutators -> Mutations] /\ ebMut'[t] = op /\ \A u \in Mutators : u # t => ebMut'[u] = ebMut[u]
  BY <1>1, <1>2, <1>3 DEF EventTyped
<1>5. EventTyped'
  BY <1>1, <1>2, <1>3, <1>4 DEF EventTyped, Overlaps
<1>6. ASSUME ~ebRaced'
      PROVE  /\ Current(ebLists[ebBucket], ebOn)' /\ \A u \in Mutators : Undisturbed(u)'
             /\ \A p \in Publishers : InTime(p)'
  <2>1. /\ Current(ebLists[ebBucket], ebOn) /\ \A u \in Mutators : Undisturbed(u)
        /\ \A p \in Publishers : InTime(p)
    BY <1>1, <1>6 DEF EventBusInv
  <2>2. \A u \in Mutators : ebMut[u].op # "unsub"
    BY <1>1, <1>6 DEF Overlaps
  <2>3. ASSUME NEW u \in Mutators PROVE Undisturbed(u)'
    BY <1>1, <1>3, <1>4, <2>1, <2>2 DEF Undisturbed
  <2>4. QED BY <1>1, <2>1, <2>3 DEF Current, InTime
<1>7. QED BY <1>5, <1>6 DEF EventBusInv

LEMMA BeginUnsubscribeKeeps ==
    ASSUME EventBusInv, NEW t \in Mutators, NEW s \in Subs, BeginUnsubscribe(t, s) PROVE EventBusInv'
<1>1. PICK kept : kept = Kept(ebLists[ebBucket], s)
  OBVIOUS
<1> DEFINE op == [op |-> "unsub", sub |-> s, list |-> 0, kept |-> kept]
<1>2. /\ UNCHANGED <<ebLists, ebBucket, ebPub, ebPaused, ebOn, ebGone>>
      /\ ebMut[t].op = "none" /\ ebMut' = [ebMut EXCEPT ![t] = op]
      /\ ebRaced' = (ebRaced \/ Overlaps("unsub"))
  BY <1>1 DEF BeginUnsubscribe, Begin, ebHist
<1>3. EventTyped
  BY DEF EventBusInv
<1>4. kept \in Seq(Subs) /\ Range(kept) = Range(ebLists[ebBucket]) \ {s}
  BY <1>1, <1>3, KeptRange DEF EventTyped
<1>5. op \in Mutations /\ op.op = "unsub" /\ op.sub = s /\ op.kept = kept
  BY <1>4 DEF Mutations
<1> HIDE DEF op
<1>6. ebMut' \in [Mutators -> Mutations] /\ ebMut'[t] = op /\ \A u \in Mutators : u # t => ebMut'[u] = ebMut[u]
  BY <1>2, <1>3, <1>5 DEF EventTyped
<1>7. EventTyped'
  BY <1>2, <1>3, <1>5, <1>6 DEF EventTyped, Overlaps
<1>8. ASSUME ~ebRaced'
      PROVE  /\ Current(ebLists[ebBucket], ebOn)' /\ \A u \in Mutators : Undisturbed(u)'
             /\ \A p \in Publishers : InTime(p)'
  <2>1. /\ Current(ebLists[ebBucket], ebOn) /\ \A p \in Publishers : InTime(p)
    BY <1>2, <1>8 DEF EventBusInv
  <2>2. \A u \in Mutators : ebMut[u].op = "none"
    BY <1>2, <1>8 DEF Overlaps
  <2>3. Current(kept, ebOn \ {s})
    BY <1>4, <2>1 DEF Current
  <2>4. ASSUME NEW u \in Mutators PROVE Undisturbed(u)'
    <3>1. CASE u = t
      BY <1>2, <1>4, <1>5, <1>6, <2>2, <2>3, <3>1 DEF Undisturbed, Current
    <3>2. CASE u # t
      BY <1>6, <2>2, <3>2 DEF Undisturbed
    <3>3. QED BY <3>1, <3>2
  <2>5. QED BY <1>2, <2>1, <2>4 DEF Current, InTime
<1>9. QED BY <1>7, <1>8 DEF EventBusInv

LEMMA EndSubscribeKeeps == ASSUME EventBusInv, NEW t \in Mutators, EndSubscribe(t) PROVE EventBusInv'
<1>1. PICK list, s : list = ebMut[t].list /\ s = ebMut[t].sub
  OBVIOUS
<1>2. /\ UNCHANGED <<ebBucket, ebPub, ebPaused, ebGone, ebRaced>> /\ ebMut[t].op = "sub"
      /\ ebLists' = [ebLists EXCEPT ![list] = Append(ebLists[list], s)]
      /\ ebOn' = ebOn \cup {s} /\ ebMut' = [ebMut EXCEPT ![t] = NoOp]
  BY <1>1 DEF EndSubscribe
<1>3. EventTyped
  BY DEF EventBusInv
<1>4. s \in Subs /\ list \in DOMAIN ebLists /\ ebLists \in Seq(Seq(Subs)) /\ ebLists[list] \in Seq(Subs)
  BY <1>1, <1>2, <1>3 DEF EventTyped
<1>5. PICK longer \in Seq(Subs) : longer = Append(ebLists[list], s) /\ Range(longer) = Range(ebLists[list]) \cup {s}
  BY <1>4, RangeOfAppend
<1>6. /\ ebLists' \in Seq(Seq(Subs)) /\ DOMAIN ebLists' = DOMAIN ebLists /\ ebLists'[list] = longer
      /\ \A k \in DOMAIN ebLists : k # list => ebLists'[k] = ebLists[k]
  BY <1>2, <1>4, <1>5
<1>7. NoOp \in Mutations /\ NoOp.op = "none"
  BY DEF NoOp, Mutations
<1>8. ebMut' \in [Mutators -> Mutations] /\ ebMut'[t] = NoOp /\ \A u \in Mutators : u # t => ebMut'[u] = ebMut[u]
  BY <1>2, <1>3, <1>7 DEF EventTyped
<1>9. EventTyped'
  BY <1>2, <1>3, <1>4, <1>6, <1>7, <1>8 DEF EventTyped
<1>10. ASSUME ~ebRaced'
       PROVE  /\ Current(ebLists[ebBucket], ebOn)' /\ \A u \in Mutators : Undisturbed(u)'
              /\ \A p \in Publishers : InTime(p)'
  <2>1. /\ Current(ebLists[ebBucket], ebOn) /\ \A u \in Mutators : Undisturbed(u)
        /\ \A p \in Publishers : InTime(p)
    BY <1>2, <1>10 DEF EventBusInv
  <2>2. list = ebBucket /\ s \notin ebOn \cup ebGone
        /\ \A u \in Mutators : u # t /\ ebMut[u].op # "none" => ebMut[u].sub # s
    BY <1>1, <1>2, <2>1 DEF Undisturbed
  <2>3. Current(ebLists[ebBucket], ebOn)'
    BY <1>2, <1>5, <1>6, <2>1, <2>2 DEF Current
  <2>4. ASSUME NEW u \in Mutators PROVE Undisturbed(u)'
    <3>1. ebMut[u].op # "unsub"
      BY <1>2, <2>1 DEF Undisturbed
    <3>2. CASE u = t
      BY <1>7, <1>8, <3>2 DEF Undisturbed
    <3>3. CASE u # t
      BY <1>2, <1>7, <1>8, <2>1, <2>2, <3>1, <3>3 DEF Undisturbed
    <3>4. QED BY <3>2, <3>3
  <2>5. ASSUME NEW p \in Publishers PROVE InTime(p)'
    <3>1. PICK pub : pub = ebPub[p]
      OBVIOUS
    <3>2. pub.gone \subseteq ebGone /\ (pub.list # 0 => pub.list \in DOMAIN ebLists)
      BY <1>3, <3>1 DEF EventTyped
    <3>3. pub.calling \cap pub.gone = {} /\ (pub.list # 0 => Range(ebLists[pub.list]) \cap pub.gone = {})
      BY <2>1, <3>1 DEF InTime
    <3>4. pub.list # 0 => Range(ebLists'[pub.list]) \cap pub.gone = {}
      BY <1>5, <1>6, <2>2, <3>2, <3>3
    <3>5. ebPub'[p] = pub
      BY <1>2, <3>1
    <3>6. QED BY <3>3, <3>4, <3>5 DEF InTime
  <2>6. QED BY <2>3, <2>4, <2>5
<1>11. QED BY <1>9, <1>10 DEF EventBusInv

LEMMA EndUnsubscribeKeeps == ASSUME EventBusInv, NEW t \in Mutators, EndUnsubscribe(t) PROVE EventBusInv'
<1>1. PICK kept, s : kept = ebMut[t].kept /\ s = ebMut[t].sub
  OBVIOUS
<1>2. /\ UNCHANGED <<ebPub, ebPaused, ebRaced>> /\ ebMut[t].op = "unsub"
      /\ ebLists' = Append(ebLists, kept) /\ ebBucket' = Len(ebLists) + 1
      /\ ebOn' = ebOn \ {s} /\ ebGone' = ebGone \cup {s} /\ ebMut' = [ebMut EXCEPT ![t] = NoOp]
  BY <1>1 DEF EndUnsubscribe
<1>3. EventTyped
  BY DEF EventBusInv
<1>4. s \in Subs /\ kept \in Seq(Subs) /\ ebLists \in Seq(Seq(Subs))
  BY <1>1, <1>2, <1>3 DEF EventTyped, Mutations
<1>5. /\ ebLists' \in Seq(Seq(Subs)) /\ ebBucket' \in DOMAIN ebLists' /\ ebLists'[ebBucket'] = kept
      /\ \A k \in DOMAIN ebLists : k \in DOMAIN ebLists' /\ ebLists'[k] = ebLists[k]
  BY <1>2, <1>4
<1>6. NoOp \in Mutations /\ NoOp.op = "none"
  BY DEF NoOp, Mutations
<1>7. ebMut' \in [Mutators -> Mutations] /\ ebMut'[t] = NoOp /\ \A u \in Mutators : u # t => ebMut'[u] = ebMut[u]
  BY <1>2, <1>3, <1>6 DEF EventTyped
<1>8. EventTyped'
  BY <1>2, <1>3, <1>4, <1>5, <1>6, <1>7 DEF EventTyped
<1>9. ASSUME ~ebRaced'
      PROVE  /\ Current(ebLists[ebBucket], ebOn)' /\ \A u \in Mutators : Undisturbed(u)'
             /\ \A p \in Publishers : InTime(p)'
  <2>1. Undisturbed(t) /\ \A p \in Publishers : InTime(p)
    BY <1>2, <1>9 DEF EventBusInv
  <2>2. /\ Current(kept, ebOn \ {s}) /\ s \notin Range(kept)
        /\ \A u \in Mutators : u # t => ebMut[u].op = "none"
    BY <1>1, <1>2, <2>1 DEF Undisturbed
  <2>3. Current(ebLists[ebBucket], ebOn)'
    BY <1>2, <1>5, <2>2 DEF Current
  <2>4. ASSUME NEW u \in Mutators PROVE Undisturbed(u)'
    <3>1. ebMut'[u].op = "none"
      BY <1>6, <1>7, <2>2
    <3>2. QED BY <3>1 DEF Undisturbed
  <2>5. ASSUME NEW p \in Publishers PROVE InTime(p)'
    <3>1. PICK pub : pub = ebPub[p]
      OBVIOUS
    <3>2. pub.list # 0 => pub.list \in DOMAIN ebLists
      BY <1>3, <3>1 DEF EventTyped
    <3>3. pub.calling \cap pub.gone = {} /\ (pub.list # 0 => Range(ebLists'[pub.list]) \cap pub.gone = {})
      BY <1>5, <2>1, <3>1, <3>2 DEF InTime
    <3>4. ebPub'[p] = pub
      BY <1>2, <3>1
    <3>5. QED BY <3>3, <3>4 DEF InTime
  <2>6. QED BY <2>3, <2>4, <2>5
<1>10. QED BY <1>8, <1>9 DEF EventBusInv

\* A step of the publisher p, whose publish becomes pub.
LEMMA PublishKeeps ==
    ASSUME EventBusInv, NEW p \in Publishers, NEW pub \in Publishes,
           ebPub' = [ebPub EXCEPT ![p] = pub],
           UNCHANGED <<ebLists, ebBucket, ebMut, ebOn, ebGone, ebRaced>>,
           pub.gone \subseteq ebGone,
           pub.list # 0 => pub.list \in DOMAIN ebLists /\ pub.pos > 0,
           ~ebRaced => /\ pub.calling \cap pub.gone = {}
                       /\ pub.list # 0 => Range(ebLists[pub.list]) \cap pub.gone = {}
    PROVE  EventBusInv'
<1>1. ebPub' \in [Publishers -> Publishes] /\ ebPub'[p] = pub /\ \A q \in Publishers : q # p => ebPub'[q] = ebPub[q]
  BY DEF EventBusInv, EventTyped
<1>2. EventTyped'
  BY <1>1 DEF EventBusInv, EventTyped
<1>3. ASSUME ~ebRaced, NEW q \in Publishers PROVE InTime(q)'
  BY <1>1, <1>3 DEF EventBusInv, InTime
<1>4. QED BY <1>2, <1>3 DEF EventBusInv, Current, Undisturbed

LEMMA BeginPublishKeeps == ASSUME EventBusInv, NEW p \in Publishers, BeginPublish(p) PROVE EventBusInv'
<1>1. PICK bucket, gone : bucket = ebBucket /\ gone = ebGone
  OBVIOUS
<1> DEFINE pub == [list |-> bucket, pos |-> 1, gone |-> gone, calling |-> {}]
<1>2. ebPub' = [ebPub EXCEPT ![p] = pub] /\ UNCHANGED <<ebLists, ebBucket, ebMut, ebOn, ebGone, ebRaced>>
  BY <1>1 DEF BeginPublish, ebHist
<1>3. bucket \in Nat /\ bucket \in DOMAIN ebLists /\ gone \subseteq Subs
  BY <1>1 DEF EventBusInv, EventTyped
<1>4. pub \in Publishes /\ pub.list = bucket /\ pub.pos = 1 /\ pub.gone = gone /\ pub.calling = {}
  BY <1>3 DEF Publishes
<1> HIDE DEF pub
<1>5. ~ebRaced => Range(ebLists[bucket]) \cap gone = {}
  BY <1>1 DEF EventBusInv, Current
<1>6. /\ pub.gone \subseteq ebGone /\ (pub.list # 0 => pub.list \in DOMAIN ebLists /\ pub.pos > 0)
      /\ ~ebRaced => /\ pub.calling \cap pub.gone = {}
                     /\ pub.list # 0 => Range(ebLists[pub.list]) \cap pub.gone = {}
  BY <1>1, <1>3, <1>4, <1>5
<1>7. pub \in Publishes
  BY <1>4
<1>8. QED BY ONLY <1>2, <1>6, <1>7, EventBusInv, p \in Publishers, PublishKeeps

LEMMA CallNextKeeps == ASSUME EventBusInv, NEW p \in Publishers, CallNext(p) PROVE EventBusInv'
<1>1. PICK old \in Publishes : old = ebPub[p]
  BY DEF EventBusInv, EventTyped
<1>2. /\ old.list # 0 /\ UNCHANGED <<ebLists, ebBucket, ebMut, ebOn, ebGone, ebRaced>>
      /\ ebPub' = [ebPub EXCEPT ![p] =
           IF old.pos > Len(ebLists[old.list]) THEN NoPub
           ELSE [old EXCEPT !.pos = @ + 1, !.calling = {ebLists[old.list][old.pos]}]]
  BY <1>1 DEF CallNext, ebHist
<1>3. CASE old.pos > Len(ebLists[old.list])
  <2>1. NoPub \in Publishes /\ NoPub.list = 0 /\ NoPub.calling = {} /\ NoPub.gone = {}
    BY DEF NoPub, Publishes
  <2>2. ebPub' = [ebPub EXCEPT ![p] = NoPub]
    BY <1>2, <1>3
  <2>3. QED BY <1>2, <2>1, <2>2, PublishKeeps
<1>4. CASE ~(old.pos > Len(ebLists[old.list]))
  <2>1. /\ old.list \in DOMAIN ebLists /\ old.pos > 0 /\ old.pos \in Nat /\ old.gone \subseteq ebGone
        /\ ebLists[old.list] \in Seq(Subs)
    <3>1. old.pos \in Nat
      BY DEF Publishes
    <3>2. EventTyped
      BY DEF EventBusInv
    <3>3. old.list \in DOMAIN ebLists /\ old.pos > 0 /\ old.gone \subseteq ebGone
      BY <1>1, <1>2, <3>2 DEF EventTyped
    <3>4. QED BY <3>1, <3>2, <3>3 DEF EventTyped
  <2>2. PICK called, k : called = ebLists[old.list][old.pos] /\ k = old.pos + 1 /\ k \in Nat
    <3>1. old.pos + 1 \in Nat
      BY <2>1
    <3>2. QED BY <3>1
  <2>3. called \in Subs /\ called \in Range(ebLists[old.list])
    BY <1>4, <2>1, <2>2 DEF Range
  <2> DEFINE pub == [old EXCEPT !.pos = k, !.calling = {called}]
  <2>4. ebPub' = [ebPub EXCEPT ![p] = pub]
    BY <1>2, <1>4, <2>2
  <2>5. pub \in Publishes /\ pub.list = old.list /\ pub.pos = k /\ pub.gone = old.gone /\ pub.calling = {called}
    BY <2>2, <2>3 DEF Publishes
  <2> HIDE DEF pub
  <2>6. ~ebRaced => Range(ebLists[old.list]) \cap old.gone = {}
    BY <1>1, <1>2 DEF EventBusInv, InTime
  <2>7. /\ pub.gone \subseteq ebGone /\ (pub.list # 0 => pub.list \in DOMAIN ebLists /\ pub.pos > 0)
        /\ ~ebRaced => /\ pub.calling \cap pub.gone = {}
                       /\ pub.list # 0 => Range(ebLists[pub.list]) \cap pub.gone = {}
    BY <1>2, <2>1, <2>2, <2>3, <2>5, <2>6
  <2>8. pub \in Publishes /\ UNCHANGED <<ebLists, ebBucket, ebMut, ebOn, ebGone, ebRaced>>
    BY <1>2, <2>5
  <2>9. QED BY ONLY <2>4, <2>7, <2>8, EventBusInv, p \in Publishers, PublishKeeps
<1>5. QED BY <1>3, <1>4

LEMMA EventBusStep == EventBusInv /\ [EventBusNext]_ebVars => EventBusInv'
<1> SUFFICES ASSUME EventBusInv, [EventBusNext]_ebVars PROVE EventBusInv'
  OBVIOUS
<1>1. CASE UNCHANGED ebVars \/ PauseOrResume
  <2>1. UNCHANGED <<ebLists, ebBucket, ebMut, ebPub, ebOn, ebGone, ebRaced>>
    BY <1>1 DEF ebVars, PauseOrResume, ebHist
  <2>2. QED BY <2>1 DEF EventBusInv, EventTyped, Current, Undisturbed, InTime
<1>2. QED
  BY <1>1, BeginSubscribeKeeps, BeginUnsubscribeKeeps, EndSubscribeKeeps, EndUnsubscribeKeeps,
     BeginPublishKeeps, CallNextKeeps
     DEF EventBusNext

\* A send that returns reached and settled all it had to and nobody hears its own broadcast,
\* whatever the handlers do; a subscription is lost, and a cancelled one called, only after
\* a race of unsubscribe (AgentBus.send, SpindleEventBus.publish).
THEOREM BusesReach == AgentBusSpec /\ EventBusSpec => []BusesReachTheirHandlers
<1>1. AgentBusInv => ReturnedSendReachedAll /\ ReturnedSendIsSettled
  BY DEF AgentBusInv, EndedAreOver, Over, ReturnedSendReachedAll, ReturnedSendIsSettled
<1>2. AgentBusInv => NoEcho
  BY DEF AgentBusInv, CallsServe, Serves, NoEcho
<1>3. EventBusInv => SubscriptionLostOnlyByRace
  <2> SUFFICES ASSUME EventBusInv, ~ebRaced, NEW s \in ebOn PROVE Contains(ebLists[ebBucket], s)
    BY DEF SubscriptionLostOnlyByRace
  <2>1. s \in Range(ebLists[ebBucket]) /\ ebLists[ebBucket] \in Seq(Subs)
    BY DEF EventBusInv, EventTyped, Current
  <2>2. QED BY <2>1 DEF Contains, Range
<1>4. EventBusInv => LateCallbackIsExplained
  BY DEF EventBusInv, InTime, LateCallbackIsExplained
<1>5. AgentBusInv /\ EventBusInv => BusesReachTheirHandlers
  BY <1>1, <1>2, <1>3, <1>4 DEF BusesReachTheirHandlers
<1>6. QED
  BY <1>5, BusStarts, AgentBusStep, EventBusStarts, EventBusStep, PTL DEF AgentBusSpec, EventBusSpec

-----------------------------------------------------------------------------
(* The dead man's switch. *)

\* What the switch keeps is the end of what was recorded since it was armed, and what it
\* let go of is too old.
Drop(v, k) == SubSeq(v, k + 1, Len(v))
PanicsKept == \E k \in 0 .. Len(dmLog) : dmPanics = Drop(dmLog, k) /\ \A j \in 1 .. k : TooOld(dmLog[j])
Recorded(log, now) ==
  /\ log \in Seq(Nat) /\ \A i, j \in DOMAIN log : i <= j => log[i] <= log[j]
  /\ \A i \in DOMAIN log : log[i] >= dmArmedAt /\ log[i] <= now
DeadManInv ==
  /\ dmNow \in Nat /\ dmArmedAt \in Nat /\ dmArmedAt <= dmNow /\ Recorded(dmLog, dmNow) /\ PanicsKept
  /\ TriggerIsJustified /\ NoBurstUnnoticed

LEMMA DropFacts ==
    ASSUME NEW v \in Seq(Nat), NEW k \in 0 .. Len(v)
    PROVE  /\ Drop(v, k) \in Seq(Nat) /\ Len(Drop(v, k)) = Len(v) - k /\ DOMAIN Drop(v, k) = 1 .. Len(v) - k
           /\ \A i \in 1 .. Len(v) - k : Drop(v, k)[i] = v[i + k]
<1>1. PICK n \in Nat : n = Len(v)
  OBVIOUS
<1>2. k \in 0 .. n /\ k + 1 \in 1 .. n + 1
  BY <1>1
<1>3. Drop(v, k) = SubSeq(v, k + 1, n)
  BY <1>1 DEF Drop
<1>4. \A i \in k + 1 .. n : v[i] \in Nat
  BY <1>1, <1>2
<1>5. /\ Drop(v, k) \in Seq(Nat) /\ Len(Drop(v, k)) = n - k
      /\ \A i \in 1 .. n - k : Drop(v, k)[i] = v[k + 1 + i - 1]
  <2>1. CASE k < n
    <3>1. k + 1 \in Int /\ n \in Int /\ k + 1 <= n
      BY <1>2, <2>1
    <3>2. /\ SubSeq(v, k + 1, n) \in Seq(Nat)
          /\ Len(SubSeq(v, k + 1, n)) = IF k + 1 <= n THEN n - (k + 1) + 1 ELSE 0
          /\ \A i \in 1 .. n - (k + 1) + 1 : SubSeq(v, k + 1, n)[i] = v[k + 1 + i - 1]
      BY <1>4, <3>1, SubSeqProperties
    <3>3. n - (k + 1) + 1 = n - k
      BY <1>2
    <3>4. QED BY <1>3, <3>1, <3>2, <3>3
  <2>2. CASE k = n
    <3>1. n + 1 > n
      BY <1>1
    <3>2. Drop(v, k) = <<>>
      BY <1>1, <1>3, <2>2, <3>1, SubSeqProperties
    <3>3. QED BY <1>1, <2>2, <3>2
  <2>3. QED BY <1>1, <1>2, <2>1, <2>2
<1>6. \A i \in 1 .. n - k : k + 1 + i - 1 = i + k
  BY <1>1, <1>2
<1>7. QED BY <1>1, <1>2, <1>5, <1>6

LEMMA AppendDrop ==
    ASSUME NEW v \in Seq(Nat), NEW k \in 0 .. Len(v), NEW x \in Nat
    PROVE  Append(Drop(v, k), x) = Drop(Append(v, x), k)
<1>1. PICK n \in Nat : n = Len(v)
  OBVIOUS
<1>2. PICK w \in Seq(Nat) : /\ w = Append(v, x) /\ Len(w) = n + 1
                            /\ (\A i \in 1 .. n : w[i] = v[i]) /\ w[n + 1] = x
  BY <1>1, AppendProperties
<1>3. k \in 0 .. n /\ k \in 0 .. Len(w) /\ Len(w) = n + 1
  BY <1>1, <1>2
<1>4. PICK d \in Seq(Nat) : d = Drop(v, k) /\ Len(d) = n - k /\ \A i \in 1 .. n - k : d[i] = v[i + k]
  BY <1>1, DropFacts
<1>5. /\ Append(d, x) \in Seq(Nat) /\ Len(Append(d, x)) = n - k + 1
      /\ (\A i \in 1 .. n - k : Append(d, x)[i] = d[i]) /\ Append(d, x)[n - k + 1] = x
  <2>1. Len(d) = n - k
    BY <1>4
  <2>2. /\ Append(d, x) \in Seq(Nat) /\ Len(Append(d, x)) = Len(d) + 1
        /\ (\A i \in 1 .. Len(d) : Append(d, x)[i] = d[i]) /\ Append(d, x)[Len(d) + 1] = x
    BY AppendProperties
  <2>3. QED BY <2>1, <2>2
<1>6. /\ Drop(w, k) \in Seq(Nat) /\ Len(Drop(w, k)) = n + 1 - k
      /\ \A i \in 1 .. n + 1 - k : Drop(w, k)[i] = w[i + k]
  <2>1. k \in 0 .. Len(w)
    BY <1>3
  <2>2. /\ Drop(w, k) \in Seq(Nat) /\ Len(Drop(w, k)) = Len(w) - k
        /\ \A i \in 1 .. Len(w) - k : Drop(w, k)[i] = w[i + k]
    BY <2>1, DropFacts
  <2>3. QED BY <1>3, <2>2
<1>7. ASSUME NEW i \in 1 .. n - k + 1
      PROVE  Append(d, x)[i] = Drop(w, k)[i]
  <2>1. CASE i \in 1 .. n - k
    <3>1. i + k \in 1 .. n /\ i \in 1 .. n + 1 - k
      BY <1>3, <2>1
    <3>2. QED BY <1>2, <1>4, <1>5, <1>6, <2>1, <3>1
  <2>2. CASE i = n - k + 1
    <3>1. i + k = n + 1 /\ i \in 1 .. n + 1 - k
      BY <1>3, <2>2
    <3>2. QED BY <1>2, <1>4, <1>5, <1>6, <2>2, <3>1
  <2>3. i \in 1 .. n - k \/ i = n - k + 1
    BY <1>3
  <2>4. QED BY <2>1, <2>2, <2>3
<1>8. n - k + 1 = n + 1 - k
  BY <1>3
<1>9. QED BY <1>2, <1>4, <1>5, <1>6, <1>7, <1>8, SeqEqual

LEMMA DropDrop ==
    ASSUME NEW v \in Seq(Nat), NEW k \in 0 .. Len(v), NEW m \in 0 .. Len(v) - k
    PROVE  k + m \in k .. Len(v) /\ Drop(Drop(v, k), m) = Drop(v, k + m)
<1>1. PICK n \in Nat : n = Len(v)
  OBVIOUS
<1>2. k \in 0 .. n /\ m \in 0 .. n - k /\ k + m \in k .. n /\ k + m \in 0 .. n
  BY <1>1
<1>3. PICK d \in Seq(Nat) : d = Drop(v, k) /\ Len(d) = n - k /\ \A i \in 1 .. n - k : d[i] = v[i + k]
  BY <1>1, DropFacts
<1>4. /\ Drop(d, m) \in Seq(Nat) /\ Len(Drop(d, m)) = n - k - m
      /\ \A i \in 1 .. n - k - m : Drop(d, m)[i] = d[i + m]
  BY <1>2, <1>3, DropFacts
<1>5. /\ Drop(v, k + m) \in Seq(Nat) /\ Len(Drop(v, k + m)) = n - (k + m)
      /\ \A i \in 1 .. n - (k + m) : Drop(v, k + m)[i] = v[i + (k + m)]
  BY <1>1, <1>2, DropFacts
<1>6. ASSUME NEW i \in 1 .. n - k - m PROVE Drop(d, m)[i] = Drop(v, k + m)[i]
  <2>1. i + m \in 1 .. n - k /\ i \in 1 .. n - (k + m) /\ i + m + k = i + (k + m)
    BY <1>2
  <2>2. QED BY <1>3, <1>4, <1>5, <2>1
<1>7. n - k - m = n - (k + m)
  BY <1>2
<1>8. QED BY <1>1, <1>2, <1>3, <1>4, <1>5, <1>6, <1>7, SeqEqual

\* popleft stops: the panics kept start at the first that is not too old, if any.
LEMMA PrunedFacts ==
    ASSUME NEW v \in Seq(Nat)
    PROVE  \E m \in 0 .. Len(v) : /\ Pruned(v) = Drop(v, m) /\ \A j \in 1 .. m : TooOld(v[j])
                                  /\ m < Len(v) => ~TooOld(v[m + 1])
<1> DEFINE First(i) == (\A j \in 1 .. i - 1 : TooOld(v[j])) /\ (i \in DOMAIN v => ~TooOld(v[i]))
<1>1. PICK n \in Nat : n = Len(v)
  OBVIOUS
<1>2. DOMAIN v = 1 .. n
  BY <1>1
<1>3. \E i \in 1 .. n + 1 : First(i)
  <2> SUFFICES ASSUME \A i \in 1 .. n + 1 : ~First(i) PROVE FALSE
    OBVIOUS
  <2> DEFINE T == {m \in Nat : m <= n => \A j \in 1 .. m : TooOld(v[j])}
  <2>1. 0 \in T
    OBVIOUS
  <2>2. ASSUME NEW m \in Nat, m \in T PROVE m + 1 \in T
    <3> SUFFICES ASSUME m + 1 <= n PROVE \A j \in 1 .. m + 1 : TooOld(v[j])
      OBVIOUS
    <3>1. \A j \in 1 .. m : TooOld(v[j])
      BY <2>2
    <3>2. m + 1 \in 1 .. n + 1 /\ m + 1 \in DOMAIN v /\ (m + 1) - 1 = m
      BY <1>2
    <3>3. TooOld(v[m + 1])
      BY <3>1, <3>2
    <3>4. \A j \in 1 .. m + 1 : j \in 1 .. m \/ j = m + 1
      OBVIOUS
    <3>5. QED BY <3>1, <3>3, <3>4
  <2>3. n \in T
    <3> HIDE DEF T
    <3>1. Nat \subseteq T
      BY <2>1, <2>2, NatSetInduction
    <3>2. QED BY <3>1
  <2>4. n + 1 \in 1 .. n + 1 /\ n + 1 \notin DOMAIN v /\ (n + 1) - 1 = n
    BY <1>2
  <2>5. First(n + 1)
    BY <2>3, <2>4
  <2>6. QED BY <2>4, <2>5
<1>4. FirstKept(v) \in 1 .. n + 1 /\ First(FirstKept(v))
  <2>1. FirstKept(v) = CHOOSE i \in 1 .. n + 1 : First(i)
    BY <1>1 DEF FirstKept
  <2> HIDE DEF First
  <2>2. QED BY <1>3, <2>1
<1>5. PICK f \in 1 .. n + 1 : f = FirstKept(v)
  BY <1>4
<1>6. First(f)
  BY <1>4, <1>5
<1>7. f - 1 \in 0 .. n /\ (f - 1) + 1 = f /\ (f - 1 < n => f \in DOMAIN v)
  BY <1>2
<1>8. Pruned(v) = Drop(v, f - 1)
  BY <1>5, <1>7 DEF Pruned, Drop
<1>9. QED BY <1>1, <1>6, <1>7, <1>8

Ascending(v) == \A i, j \in DOMAIN v : i <= j => v[i] <= v[j]

\* Of a log in the order of time, of which the switch has let go of old panics only, it keeps
\* just those that are not too old.
LEMMA PrunedIs ==
    ASSUME dmNow \in Nat, NEW v \in Seq(Nat), Ascending(v),
           NEW k \in 0 .. Len(v), \A j \in 1 .. k : TooOld(v[j])
    PROVE  \E m \in 0 .. Len(v) : /\ Pruned(Drop(v, k)) = Drop(v, m) /\ \A j \in 1 .. m : TooOld(v[j])
                                  /\ \A j \in m + 1 .. Len(v) : ~TooOld(v[j])
<1>1. PICK n \in Nat : n = Len(v)
  OBVIOUS
<1>2. DOMAIN v = 1 .. n /\ k \in 0 .. n /\ \A i \in 1 .. n : v[i] \in Nat
  BY <1>1
<1>3. PICK d \in Seq(Nat) : d = Drop(v, k) /\ Len(d) = n - k /\ \A i \in 1 .. n - k : d[i] = v[i + k]
  BY <1>1, DropFacts
<1>4. PICK m \in 0 .. Len(d) : /\ Pruned(d) = Drop(d, m) /\ \A j \in 1 .. m : TooOld(d[j])
                               /\ m < Len(d) => ~TooOld(d[m + 1])
  <2>1. \E m \in 0 .. Len(d) : /\ Pruned(d) = Drop(d, m) /\ \A j \in 1 .. m : TooOld(d[j])
                               /\ m < Len(d) => ~TooOld(d[m + 1])
    BY PrunedFacts
  <2>2. QED BY <2>1
<1>5. m \in 0 .. n - k /\ m \in Nat /\ (m < n - k => ~TooOld(d[m + 1]))
  BY <1>3, <1>4
<1>6. k + m \in 0 .. n /\ Drop(d, m) = Drop(v, k + m)
  BY <1>1, <1>2, <1>3, <1>5, DropDrop
<1>7. ASSUME NEW j \in 1 .. k + m PROVE TooOld(v[j])
  <2>1. CASE j \in 1 .. k
    BY <2>1
  <2>2. CASE j \notin 1 .. k
    <3>1. j - k \in 1 .. m /\ j - k \in 1 .. n - k /\ (j - k) + k = j
      BY <1>2, <1>5, <2>2
    <3>2. QED BY <1>3, <1>4, <3>1
  <2>3. QED BY <2>1, <2>2
<1>8. ASSUME NEW j \in k + m + 1 .. n PROVE ~TooOld(v[j])
  <2>1. /\ m < n - k /\ m + 1 \in 1 .. n - k /\ m + 1 + k \in 1 .. n /\ j \in 1 .. n
        /\ m + 1 + k <= j
    BY <1>2, <1>5
  <2>2. ~TooOld(v[m + 1 + k])
    BY <1>3, <1>5, <2>1
  <2>3. v[m + 1 + k] <= v[j] /\ v[m + 1 + k] \in Nat /\ v[j] \in Nat
    BY <1>2, <2>1 DEF Ascending
  <2>4. QED BY <2>2, <2>3, SwitchAssumption DEF TooOld
<1>9. QED BY <1>1, <1>3, <1>4, <1>5, <1>6, <1>7, <1>8

LEMMA DeadManStart ==
    ASSUME DeadManInit
    PROVE  DeadManInv
<1>1. dmNow = 0 /\ dmArmedAt = 0 /\ dmLog = <<>> /\ dmPanics = <<>> /\ dmTriggers = {}
  BY DEF DeadManInit
<1>2. <<>> \in Seq(Nat) /\ Len(dmLog) = 0 /\ DOMAIN dmLog = {}
  BY <1>1
<1>3. PanicsKept
  <2>1. Drop(dmLog, 0) = <<>>
    <3>1. PICK e \in Seq(Nat) : e = dmLog /\ Len(e) = 0
      BY <1>1, <1>2
    <3>2. 0 \in 0 .. Len(e)
      BY <3>1
    <3>3. Drop(e, 0) \in Seq(Nat) /\ Len(Drop(e, 0)) = Len(e) - 0
      BY <3>2, DropFacts
    <3>4. QED BY <3>1, <3>3
  <2>2. QED BY <1>1, <1>2, <2>1 DEF PanicsKept
<1>4. Recorded(dmLog, dmNow)
  BY <1>1, <1>2 DEF Recorded
<1>5. QED BY <1>1, <1>2, <1>3, <1>4 DEF DeadManInv, TriggerIsJustified, NoBurstUnnoticed

\* What record_panic and the reads keep, of a log that they were given.
LEMMA KeptIs ==
    ASSUME DeadManInv
    PROVE  \E m \in 0 .. Len(dmLog) : /\ Pruned(dmPanics) = Drop(dmLog, m)
                                      /\ \A j \in 1 .. m : TooOld(dmLog[j])
<1>1. PICK k \in 0 .. Len(dmLog) : dmPanics = Drop(dmLog, k) /\ \A j \in 1 .. k : TooOld(dmLog[j])
  BY DEF DeadManInv, PanicsKept
<1>2. PICK v \in Seq(Nat) : v = dmLog
  BY DEF DeadManInv, Recorded
<1>3. dmNow \in Nat /\ Ascending(v)
  BY <1>2 DEF DeadManInv, Recorded, Ascending
<1>4. k \in 0 .. Len(v) /\ \A j \in 1 .. k : TooOld(v[j])
  BY <1>1, <1>2
<1>5. \E m \in 0 .. Len(v) : /\ Pruned(Drop(v, k)) = Drop(v, m) /\ \A j \in 1 .. m : TooOld(v[j])
                             /\ \A j \in m + 1 .. Len(v) : ~TooOld(v[j])
  BY <1>3, <1>4, PrunedIs
<1>6. QED BY <1>1, <1>2, <1>5

\* The log after a panic: still in order; the panics kept are its end, namely all of it that
\* is not too old.
LEMMA PanicRecorded ==
    ASSUME DeadManInv, RecordPanic
    PROVE  /\ dmLog' = Append(dmLog, dmNow) /\ dmLog' \in Seq(Nat) /\ Len(dmLog') = Len(dmLog) + 1
           /\ Recorded(dmLog', dmNow)
           /\ (\A i \in 1 .. Len(dmLog) : dmLog'[i] = dmLog[i]) /\ dmLog'[Len(dmLog) + 1] = dmNow
           /\ dmPanics' = Pruned(Append(dmPanics, dmNow))
           /\ \E m \in 0 .. Len(dmLog') : /\ dmPanics' = Drop(dmLog', m)
                                          /\ \A j \in 1 .. m : TooOld(dmLog'[j])
                                          /\ \A j \in m + 1 .. Len(dmLog') : ~TooOld(dmLog'[j])
<1>1. PICK k \in 0 .. Len(dmLog) : dmPanics = Drop(dmLog, k) /\ \A j \in 1 .. k : TooOld(dmLog[j])
  BY DEF DeadManInv, PanicsKept
<1>2. PICK v \in Seq(Nat) : v = dmLog
  BY DEF DeadManInv, Recorded
<1>3. PICK now \in Nat : now = dmNow
  BY DEF DeadManInv
<1>4. PICK n \in Nat : n = Len(v)
  OBVIOUS
<1>5. PICK w \in Seq(Nat) : /\ w = Append(v, now) /\ Len(w) = n + 1
                            /\ (\A i \in 1 .. n : w[i] = v[i]) /\ w[n + 1] = now
  <2>1. /\ Append(v, now) \in Seq(Nat) /\ Len(Append(v, now)) = Len(v) + 1
        /\ (\A i \in 1 .. Len(v) : Append(v, now)[i] = v[i]) /\ Append(v, now)[Len(v) + 1] = now
    BY AppendProperties
  <2>2. QED BY <1>4, <2>1
<1>6. dmLog' = w /\ dmPanics' = Pruned(Append(dmPanics, now))
  BY <1>2, <1>3, <1>5 DEF RecordPanic
<1>7. DOMAIN v = 1 .. n /\ DOMAIN w = 1 .. n + 1
  BY <1>4, <1>5
<1>8. Recorded(w, now)
  <2>1. /\ (\A i, j \in 1 .. n : i <= j => v[i] <= v[j]) /\ dmArmedAt <= now
        /\ \A i \in 1 .. n : v[i] >= dmArmedAt /\ v[i] <= now
    BY <1>2, <1>3, <1>7 DEF DeadManInv, Recorded
  <2>2. \A i \in 1 .. n + 1 : i \in 1 .. n \/ i = n + 1
    OBVIOUS
  <2>3. \A i, j \in 1 .. n + 1 : i <= j => (i \in 1 .. n /\ j \in 1 .. n) \/ j = n + 1
    OBVIOUS
  <2>4. \A i \in 1 .. n + 1 : w[i] >= dmArmedAt /\ w[i] <= now
    BY <1>5, <2>1, <2>2
  <2>5. \A i, j \in 1 .. n + 1 : i <= j => w[i] <= w[j]
    BY <1>5, <2>1, <2>3, <2>4
  <2>6. QED BY <1>7, <2>4, <2>5 DEF Recorded
<1>9. Ascending(w)
  BY <1>8 DEF Recorded, Ascending
<1>10. k \in 0 .. Len(v) /\ dmPanics = Drop(v, k) /\ \A j \in 1 .. k : TooOld(v[j])
  BY <1>1, <1>2
<1>11. Append(dmPanics, now) = Drop(w, k)
  BY <1>5, <1>10, AppendDrop
<1>12. k \in 0 .. Len(w) /\ \A j \in 1 .. k : TooOld(w[j])
  <2>1. k \in 0 .. n /\ k \in 0 .. Len(w)
    BY <1>4, <1>5, <1>10
  <2>2. \A j \in 1 .. k : w[j] = v[j]
    BY <1>5, <2>1
  <2>3. QED BY <1>10, <2>1, <2>2
<1>13. dmNow \in Nat
  BY <1>3
<1>14. \E m \in 0 .. Len(w) : /\ Pruned(Drop(w, k)) = Drop(w, m) /\ \A j \in 1 .. m : TooOld(w[j])
                              /\ \A j \in m + 1 .. Len(w) : ~TooOld(w[j])
  BY <1>9, <1>12, <1>13, PrunedIs
<1>15. PICK m \in 0 .. Len(w) : /\ dmPanics' = Drop(w, m) /\ \A j \in 1 .. m : TooOld(w[j])
                              /\ \A j \in m + 1 .. Len(w) : ~TooOld(w[j])
  BY <1>6, <1>11, <1>14
<1>16. dmPanics' = Pruned(Append(dmPanics, dmNow)) /\ Recorded(dmLog', dmNow)
  BY <1>3, <1>6, <1>8
<1>17. /\ dmLog' = Append(dmLog, dmNow) /\ dmLog' \in Seq(Nat) /\ Len(dmLog') = Len(dmLog) + 1
       /\ (\A i \in 1 .. Len(dmLog) : dmLog'[i] = dmLog[i]) /\ dmLog'[Len(dmLog) + 1] = dmNow
  BY <1>2, <1>3, <1>4, <1>5, <1>6
<1>18. \E l \in 0 .. Len(dmLog') : /\ dmPanics' = Drop(dmLog', l) /\ \A j \in 1 .. l : TooOld(dmLog'[j])
                                   /\ \A j \in l + 1 .. Len(dmLog') : ~TooOld(dmLog'[j])
  BY <1>6, <1>15
<1>19. QED BY <1>16, <1>17, <1>18

LEMMA RecordPanicStep ==
    ASSUME DeadManInv, RecordPanic
    PROVE  DeadManInv' /\ (dmTriggers' # dmTriggers =>
             /\ dmTriggered = FALSE
             /\ \A trigger \in dmTriggers' :
                  IsSuffix(trigger.panics, dmLog') /\ \A t \in ToSet(trigger.panics) : t >= dmArmedAt)
<1>1. /\ dmLog' \in Seq(Nat) /\ Len(dmLog') = Len(dmLog) + 1 /\ Recorded(dmLog', dmNow)
      /\ (\A i \in 1 .. Len(dmLog) : dmLog'[i] = dmLog[i]) /\ dmLog'[Len(dmLog) + 1] = dmNow
      /\ dmPanics' = Pruned(Append(dmPanics, dmNow))
  BY PanicRecorded
<1>2. \E m \in 0 .. Len(dmLog') : /\ dmPanics' = Drop(dmLog', m)
                                  /\ \A j \in 1 .. m : TooOld(dmLog'[j])
                                  /\ \A j \in m + 1 .. Len(dmLog') : ~TooOld(dmLog'[j])
  BY PanicRecorded
<1>3. PICK w \in Seq(Nat) : w = dmLog'
  BY <1>1
<1>4. PICK n \in Nat : n = Len(dmLog)
  BY DEF DeadManInv, Recorded
<1>5. PICK now \in Nat : now = dmNow
  BY DEF DeadManInv
<1>6. /\ Len(w) = n + 1 /\ Recorded(w, now) /\ (\A i \in 1 .. n : w[i] = dmLog[i]) /\ w[n + 1] = now
      /\ DOMAIN w = 1 .. n + 1 /\ DOMAIN dmLog = 1 .. n
  BY <1>1, <1>3, <1>4, <1>5 DEF DeadManInv, Recorded
<1>7. PICK m \in 0 .. n + 1 : /\ dmPanics' = Drop(w, m) /\ \A j \in 1 .. m : TooOld(w[j])
                              /\ \A j \in m + 1 .. n + 1 : ~TooOld(w[j])
  <2>1. PICK l \in 0 .. Len(dmLog') : /\ dmPanics' = Drop(dmLog', l)
                                      /\ \A j \in 1 .. l : TooOld(dmLog'[j])
                                      /\ \A j \in l + 1 .. Len(dmLog') : ~TooOld(dmLog'[j])
    BY <1>2
  <2>2. l \in 0 .. n + 1 /\ Len(dmLog') = n + 1
    BY <1>3, <1>6
  <2>3. dmPanics' = Drop(w, l) /\ (\A j \in 1 .. l : TooOld(w[j])) /\ \A j \in l + 1 .. n + 1 : ~TooOld(w[j])
    BY <1>3, <2>1, <2>2
  <2>4. QED BY <2>2, <2>3
<1>8. PICK d \in Seq(Nat) : /\ d = Drop(w, m) /\ Len(d) = n + 1 - m /\ DOMAIN d = 1 .. n + 1 - m
                            /\ \A i \in 1 .. n + 1 - m : d[i] = w[i + m]
  <2>1. m \in 0 .. Len(w)
    BY <1>6
  <2>2. /\ Drop(w, m) \in Seq(Nat) /\ Len(Drop(w, m)) = Len(w) - m /\ DOMAIN Drop(w, m) = 1 .. Len(w) - m
        /\ \A i \in 1 .. Len(w) - m : Drop(w, m)[i] = w[i + m]
    BY <2>1, DropFacts
  <2>3. QED BY <1>6, <2>2
<1>9. d = Pruned(Append(dmPanics, dmNow))
  BY <1>1, <1>7, <1>8
<1>10. /\ dmNow' = dmNow /\ dmArmed' = dmArmed /\ dmArmedAt' = dmArmedAt
       /\ dmTriggered' = (dmTriggered \/ Trips(d))
       /\ dmTriggers' = IF Trips(d) THEN {[at |-> now, panics |-> d]} ELSE dmTriggers
  BY <1>5, <1>9 DEF RecordPanic
<1>11. ASSUME NEW t \in ToSet(d) PROVE t + Window >= now /\ t >= dmArmedAt
  <2>1. PICK i \in 1 .. n + 1 - m : t = w[i + m]
    BY <1>8 DEF ToSet
  <2>2. i + m \in m + 1 .. n + 1 /\ i + m \in DOMAIN w
    BY <1>6
  <2>3. w[i + m] \in Nat
    BY <2>2
  <2>4. ~TooOld(t) /\ t \in Nat
    BY <1>7, <2>1, <2>2, <2>3
  <2>5. t >= dmArmedAt
    BY <1>6, <2>1, <2>2 DEF Recorded
  <2>6. QED BY <1>5, <2>4, <2>5, SwitchAssumption DEF TooOld
<1>12. PanicsKept'
  <2>1. m \in 0 .. Len(dmLog') /\ dmPanics' = Drop(dmLog', m)
    BY <1>3, <1>6, <1>7
  <2>2. (\A j \in 1 .. m : TooOld(dmLog[j]))'
    BY <1>3, <1>7, <1>10 DEF TooOld
  <2>3. QED BY <2>1, <2>2 DEF PanicsKept, Drop
<1>13. TriggerIsJustified'
  <2>1. ASSUME NEW trigger \in dmTriggers'
        PROVE  /\ Len(trigger.panics) > MaxPanics
               /\ \A t \in ToSet(trigger.panics) : t + Window >= trigger.at
    <3>1. CASE Trips(d)
      <4>1. trigger.at = now /\ trigger.panics = d
        BY <1>10, <3>1
      <4>2. QED BY <1>11, <3>1, <4>1 DEF Trips
    <3>2. CASE ~Trips(d)
      BY <1>10, <3>2 DEF DeadManInv, TriggerIsJustified
    <3>3. QED BY <3>1, <3>2
  <2>2. QED BY <2>1 DEF TriggerIsJustified
<1>14. NoBurstUnnoticed'
  <2> SUFFICES ASSUME dmArmed', ~dmTriggered', NEW i \in 1 .. n + 1, i + MaxPanics \in 1 .. n + 1
               PROVE  w[i + MaxPanics] - w[i] > Window
    BY <1>3, <1>6 DEF NoBurstUnnoticed
  <2>1. dmArmed /\ ~dmTriggered /\ ~Trips(d)
    BY <1>10
  <2>2. CASE i + MaxPanics \in 1 .. n
    <3>1. i \in 1 .. n
      BY <2>2, SwitchAssumption
    <3>2. dmLog[i + MaxPanics] - dmLog[i] > Window
      BY <1>6, <2>1, <2>2, <3>1 DEF DeadManInv, NoBurstUnnoticed
    <3>3. QED BY <1>6, <2>2, <3>1, <3>2
  <2>3. CASE i + MaxPanics = n + 1
    <3>1. n + 1 - m <= MaxPanics
      BY <1>8, <2>1, SwitchAssumption DEF Trips
    <3>2. i \in 1 .. m /\ i \in DOMAIN w
      BY <1>6, <2>3, <3>1, SwitchAssumption
    <3>3. w[i] + Window < now /\ w[i] \in Nat
      BY <1>5, <1>7, <3>2 DEF TooOld
    <3>4. w[i + MaxPanics] = now
      BY <1>6, <2>3
    <3>5. QED BY <3>3, <3>4, SwitchAssumption
  <2>4. QED BY <2>2, <2>3, SwitchAssumption
<1>15. DeadManInv'
  <2>1. Recorded(dmLog, dmNow)'
    BY <1>3, <1>5, <1>6, <1>10 DEF Recorded
  <2>2. QED BY <1>10, <1>12, <1>13, <1>14, <2>1 DEF DeadManInv
<1>16. IsSuffix(d, dmLog')
  <2>1. IsSuffix(d, w)
    <3> DEFINE rd == Reverse(d)
               rw == Reverse(w)
    <3>1. n + 1 - m \in Nat /\ n + 1 - m <= n + 1
      OBVIOUS
    <3>2. PICK l \in Nat : l = n + 1 - m
      BY <3>1
    <3>3. rd = [i \in 1 .. l |-> d[(l - i) + 1]] /\ rw = [i \in 1 .. n + 1 |-> w[(n + 1 - i) + 1]]
      BY <1>6, <1>8, <3>2 DEF Reverse
    <3>4. \A i \in 1 .. l : (l - i) + 1 \in 1 .. l /\ (l - i) + 1 + m = (n + 1 - i) + 1 /\ i \in 1 .. n + 1
      BY <3>1, <3>2
    <3>5. \A i \in 1 .. l : rd[i] = rw[i] /\ rd[i] \in Nat
      <4> TAKE i \in 1 .. l
      <4>1. rd[i] = d[(l - i) + 1] /\ rw[i] = w[(n + 1 - i) + 1]
        BY <3>3, <3>4
      <4>2. d[(l - i) + 1] = w[(n + 1 - i) + 1] /\ d[(l - i) + 1] \in Nat
        BY <1>8, <3>2, <3>4
      <4>3. QED BY <4>1, <4>2
    <3> HIDE DEF rd, rw
    <3>6. Len(rd) = l /\ Len(rw) = n + 1 /\ l <= n + 1
      BY <3>1, <3>2, <3>3
    <3>7. SubSeq(rd, 1, l) = SubSeq(rw, 1, l)
      <4>1. \A i \in 1 .. l : rd[i] \in Nat /\ rw[i] \in Nat
        BY <3>5
      <4>2. l - 1 + 1 = l /\ \A i \in 1 .. l : 1 + i - 1 = i
        OBVIOUS
      <4>3. /\ SubSeq(rd, 1, l) \in Seq(Nat) /\ Len(SubSeq(rd, 1, l)) = IF 1 <= l THEN l - 1 + 1 ELSE 0
            /\ \A i \in 1 .. l - 1 + 1 : SubSeq(rd, 1, l)[i] = rd[1 + i - 1]
        BY <4>1, SubSeqProperties
      <4>4. /\ SubSeq(rw, 1, l) \in Seq(Nat) /\ Len(SubSeq(rw, 1, l)) = IF 1 <= l THEN l - 1 + 1 ELSE 0
            /\ \A i \in 1 .. l - 1 + 1 : SubSeq(rw, 1, l)[i] = rw[1 + i - 1]
        BY <4>1, SubSeqProperties
      <4>5. Len(SubSeq(rd, 1, l)) = l /\ Len(SubSeq(rw, 1, l)) = l
        BY <4>3, <4>4
      <4>6. \A i \in 1 .. l : SubSeq(rd, 1, l)[i] = SubSeq(rw, 1, l)[i]
        BY <3>5, <4>2, <4>3, <4>4
      <4>7. QED BY <4>3, <4>4, <4>5, <4>6, SeqEqual
    <3>8. QED BY <3>6, <3>7 DEF IsSuffix, IsPrefix, rd, rw
  <2>2. QED BY <1>3, <2>1
<1>17. ASSUME dmTriggers' # dmTriggers
       PROVE  dmTriggered = FALSE /\ dmTriggers' = {[at |-> now, panics |-> d]}
  BY <1>10, <1>17 DEF Trips
<1>18. ASSUME dmTriggers' # dmTriggers, NEW trigger \in dmTriggers'
       PROVE  IsSuffix(trigger.panics, dmLog') /\ \A t \in ToSet(trigger.panics) : t >= dmArmedAt
  <2>1. trigger.panics = d
    BY <1>17, <1>18
  <2>2. QED BY <1>11, <1>16, <2>1
<1>19. QED BY <1>15, <1>17, <1>18

LEMMA DeadManStep ==
    ASSUME DeadManInv, [DeadManNext]_dmVars
    PROVE  DeadManInv' /\ (dmTriggers' # dmTriggers =>
             /\ dmTriggered = FALSE
             /\ \A trigger \in dmTriggers' :
                  IsSuffix(trigger.panics, dmLog') /\ \A t \in ToSet(trigger.panics) : t >= dmArmedAt)
<1>1. CASE RecordPanic
  BY <1>1, RecordPanicStep
<1>2. CASE ReadStatus
  <2>1. UNCHANGED <<dmNow, dmArmed, dmTriggered, dmTriggers, dmArmedAt, dmLog>> /\ dmPanics' = Pruned(dmPanics)
    BY <1>2 DEF ReadStatus
  <2>2. PanicsKept'
    <3>1. PICK m \in 0 .. Len(dmLog) : /\ Pruned(dmPanics) = Drop(dmLog, m)
                                       /\ \A j \in 1 .. m : TooOld(dmLog[j])
      BY KeptIs
    <3>2. dmPanics' = Drop(dmLog', m) /\ m \in 0 .. Len(dmLog')
      BY <2>1, <3>1
    <3>3. (\A j \in 1 .. m : TooOld(dmLog[j]))'
      BY <2>1, <3>1 DEF TooOld
    <3>4. QED BY <3>2, <3>3 DEF PanicsKept, Drop
  <2>3. Recorded(dmLog, dmNow)' /\ TriggerIsJustified' /\ NoBurstUnnoticed'
    BY <2>1 DEF DeadManInv, Recorded, TriggerIsJustified, NoBurstUnnoticed
  <2>4. QED BY <2>1, <2>2, <2>3 DEF DeadManInv
<1>3. CASE Arm
  <2>1. /\ dmPanics' = <<>> /\ dmLog' = <<>> /\ dmArmedAt' = dmNow
        /\ UNCHANGED <<dmNow, dmTriggers>>
    BY <1>3 DEF Arm, ArmedPanics
  <2>2. PICK e \in Seq(Nat) : e = <<>> /\ Len(e) = 0 /\ DOMAIN e = {}
    <3>1. <<>> \in Seq(Nat) /\ Len(<<>>) = 0 /\ DOMAIN <<>> = {}
      OBVIOUS
    <3>2. QED BY <3>1
  <2>3. dmLog' = e /\ dmPanics' = e
    BY <2>1, <2>2
  <2>4. PanicsKept'
    <3>1. 0 \in 0 .. Len(e)
      BY <2>2
    <3>2. Drop(e, 0) \in Seq(Nat) /\ Len(Drop(e, 0)) = Len(e) - 0
      BY <3>1, DropFacts
    <3>3. Drop(e, 0) = e
      BY <2>2, <3>2
    <3>4. dmPanics' = Drop(dmLog', 0) /\ 0 \in 0 .. Len(dmLog')
      BY <2>3, <3>1, <3>3
    <3>5. (\A j \in 1 .. 0 : TooOld(dmLog[j]))'
      OBVIOUS
    <3>6. QED BY <3>4, <3>5 DEF PanicsKept, Drop
  <2>5. Recorded(dmLog, dmNow)' /\ NoBurstUnnoticed'
    BY <2>2, <2>3 DEF Recorded, NoBurstUnnoticed
  <2>6. QED BY <2>1, <2>4, <2>5 DEF DeadManInv, TriggerIsJustified
<1>4. CASE Disarm
  <2>1. UNCHANGED <<dmNow, dmPanics, dmTriggered, dmTriggers, dmArmedAt, dmLog>> /\ dmArmed' = FALSE
    BY <1>4 DEF Disarm
  <2>2. PanicsKept'
    BY <2>1 DEF DeadManInv, PanicsKept, Drop, TooOld
  <2>3. QED BY <2>1, <2>2 DEF DeadManInv, Recorded, TriggerIsJustified, NoBurstUnnoticed
<1>5. CASE DeadManTick
  <2>1. UNCHANGED <<dmPanics, dmArmed, dmTriggered, dmTriggers, dmArmedAt, dmLog>> /\ dmNow' = dmNow + 1
    BY <1>5 DEF DeadManTick
  <2>2. PICK v \in Seq(Nat) : v = dmLog
    BY DEF DeadManInv, Recorded
  <2>3. PICK k \in 0 .. Len(v) : dmPanics = Drop(v, k) /\ \A j \in 1 .. k : TooOld(v[j])
    BY <2>2 DEF DeadManInv, PanicsKept
  <2>4. PICK now \in Nat : now = dmNow
    BY DEF DeadManInv
  <2>5. \A j \in 1 .. k : v[j] + Window < now + 1
    <3> TAKE j \in 1 .. k
    <3>1. v[j] \in Nat
      BY <2>3
    <3>2. QED BY <2>3, <2>4, <3>1, SwitchAssumption DEF TooOld
  <2>6. PanicsKept'
    <3>1. dmPanics' = Drop(dmLog', k) /\ k \in 0 .. Len(dmLog')
      BY <2>1, <2>2, <2>3
    <3>2. (\A j \in 1 .. k : TooOld(dmLog[j]))'
      BY <2>1, <2>2, <2>4, <2>5 DEF TooOld
    <3>3. QED BY <3>1, <3>2 DEF PanicsKept, Drop
  <2>7. Recorded(dmLog, dmNow)'
    <3>1. \A i \in DOMAIN v : v[i] \in Nat /\ v[i] <= now
      BY <2>2, <2>4 DEF DeadManInv, Recorded
    <3>2. \A i \in DOMAIN v : v[i] <= now + 1
      BY <3>1
    <3>3. QED BY <2>1, <2>2, <2>4, <3>2 DEF DeadManInv, Recorded
  <2>8. dmNow' \in Nat /\ dmArmedAt' \in Nat /\ dmArmedAt' <= dmNow'
    BY <2>1 DEF DeadManInv
  <2>9. TriggerIsJustified' /\ NoBurstUnnoticed'
    BY <2>1 DEF DeadManInv, TriggerIsJustified, NoBurstUnnoticed
  <2>10. QED BY <2>1, <2>6, <2>7, <2>8, <2>9 DEF DeadManInv
<1>6. CASE UNCHANGED dmVars
  <2>1. UNCHANGED <<dmNow, dmPanics, dmArmed, dmTriggered, dmTriggers, dmArmedAt, dmLog>>
    BY <1>6 DEF dmVars
  <2>2. PanicsKept'
    BY <2>1 DEF DeadManInv, PanicsKept, Drop, TooOld
  <2>3. QED BY <2>1, <2>2 DEF DeadManInv, Recorded, TriggerIsJustified, NoBurstUnnoticed
<1>7. QED BY <1>1, <1>2, <1>3, <1>4, <1>5, <1>6 DEF DeadManNext

-----------------------------------------------------------------------------
(* The soft veto. *)

Decisions == [level : {"pass", "soft_veto", "hard_block"}, at : Nat, escalated : BOOLEAN,
              resolution : {"", "approved", "denied", "expired"}]
Dated(e) == e.at <= svNow
Waits(e) == e.resolution = "" /\ svSwept - e.at <= AutoExpire
\* Who waits has no verdict yet, and was not overdue at the last sweep.
VetoInv ==
  /\ svNow \in Nat /\ svSwept \in Nat /\ svSwept <= svNow
  /\ svDecisions \in Seq(Decisions) /\ svPending \subseteq DOMAIN svDecisions
  /\ (\A i \in DOMAIN svDecisions : Dated(svDecisions[i])) /\ \A i \in svPending : Waits(svDecisions[i])

KeepsVerdict(e, f) == e.resolution # "" => f.resolution = e.resolution
Final == \A i \in DOMAIN svDecisions : KeepsVerdict(svDecisions[i], svDecisions'[i])

\* A decision is replaced, and if it is one of those that still wait, waits itself.
LEMMA VetoMove ==
    ASSUME VetoInv, UNCHANGED <<svNow, svSwept>>, NEW j \in DOMAIN svDecisions, NEW e \in Decisions,
           svDecisions' = [svDecisions EXCEPT ![j] = e], Dated(e),
           svPending' \subseteq svPending, j \in svPending' => Waits(e),
           KeepsVerdict(svDecisions[j], e)
    PROVE  VetoInv' /\ Final
<1>1. PICK v \in Seq(Decisions) : v = svDecisions
  BY DEF VetoInv
<1>2. PICK n \in Nat : n = Len(v) /\ DOMAIN v = 1 .. n /\ v \in [1 .. n -> Decisions]
  <2>1. \A s \in Seq(Decisions) : /\ Len(s) \in Nat /\ DOMAIN s = 1 .. Len(s)
                                  /\ s \in [1 .. Len(s) -> Decisions]
    OBVIOUS
  <2>2. QED BY <2>1
<1>3. PICK w \in Seq(Decisions) : w = [v EXCEPT ![j] = e] /\ DOMAIN w = 1 .. n
  <2>1. j \in 1 .. n
    BY <1>1, <1>2
  <2>2. [v EXCEPT ![j] = e] \in [1 .. n -> Decisions]
    BY <1>2, <2>1
  <2>3. \A u \in [1 .. n -> Decisions] : u \in Seq(Decisions) /\ DOMAIN u = 1 .. n
    OBVIOUS
  <2>4. QED BY <2>2, <2>3
<1>4. svDecisions' = w
  BY <1>1, <1>3
<1>5. w[j] = e /\ j \in 1 .. n /\ \A i \in 1 .. n : i # j => w[i] = v[i]
  BY <1>1, <1>2, <1>3
<1>6. ASSUME NEW i \in 1 .. n PROVE Dated(w[i])
  BY <1>1, <1>2, <1>5 DEF VetoInv
<1>7. \A i \in svPending' : Waits(w[i]) /\ i \in svPending /\ i \in 1 .. n
  BY <1>1, <1>2, <1>5 DEF VetoInv
<1>8. VetoInv'
  <2>1. svDecisions' \in Seq(Decisions) /\ svPending' \subseteq DOMAIN svDecisions'
    BY <1>3, <1>4, <1>7
  <2>2. (\A i \in DOMAIN svDecisions : Dated(svDecisions[i]))'
    BY <1>3, <1>4, <1>6 DEF Dated
  <2>3. (\A i \in svPending : Waits(svDecisions[i]))'
    BY <1>4, <1>7 DEF Waits
  <2>4. svNow' \in Nat /\ svSwept' \in Nat /\ svSwept' <= svNow'
    BY DEF VetoInv
  <2>5. QED BY <2>1, <2>2, <2>3, <2>4 DEF VetoInv
<1>9. \A i \in 1 .. n : KeepsVerdict(v[i], w[i])
  <2> TAKE i \in 1 .. n
  <2>1. CASE i = j
    BY <1>1, <1>5, <2>1
  <2>2. CASE i # j
    BY <1>5, <2>2 DEF KeepsVerdict
  <2>3. QED BY <2>1, <2>2
<1>10. QED BY <1>1, <1>2, <1>4, <1>8, <1>9 DEF Final

LEMMA VetoStart == SoftVetoInit => VetoInv
<1> SUFFICES ASSUME SoftVetoInit PROVE VetoInv
  OBVIOUS
<1>1. svNow = 0 /\ svDecisions = <<>> /\ svPending = {} /\ svSwept = 0
  BY DEF SoftVetoInit
<1>2. <<>> \in Seq(Decisions) /\ DOMAIN svDecisions = {}
  BY <1>1
<1>3. QED BY <1>1, <1>2 DEF VetoInv

LEMMA EvaluateStep ==
    ASSUME VetoInv, NEW level \in {"pass", "soft_veto", "hard_block"}, Evaluate(level)
    PROVE  VetoInv' /\ Final
<1> DEFINE e == [level |-> level, at |-> svNow, escalated |-> FALSE, resolution |-> ""]
<1>1. PICK v \in Seq(Decisions) : v = svDecisions
  BY DEF VetoInv
<1>2. PICK n \in Nat : n = Len(v) /\ DOMAIN v = 1 .. n
  <2>1. Len(v) \in Nat /\ DOMAIN v = 1 .. Len(v)
    OBVIOUS
  <2>2. QED BY <2>1
<1>3. e \in Decisions /\ e.at = svNow /\ e.resolution = ""
  BY DEF VetoInv, Decisions
<1>4. svDecisions' = Append(v, e) /\ svPending' \subseteq svPending \cup {n + 1} /\ UNCHANGED <<svNow, svSwept>>
  BY <1>1, <1>2 DEF Evaluate
<1>5. e \in Decisions
  BY <1>3
<1> HIDE DEF e
<1>6. /\ Append(v, e) \in Seq(Decisions) /\ Len(Append(v, e)) = Len(v) + 1
      /\ (\A i \in 1 .. Len(v) : Append(v, e)[i] = v[i]) /\ Append(v, e)[Len(v) + 1] = e
  BY <1>5, AppendProperties
<1>7. PICK w \in Seq(Decisions) : /\ w = svDecisions' /\ DOMAIN w = 1 .. n + 1
                                  /\ (\A i \in 1 .. n : w[i] = v[i]) /\ w[n + 1] = e
  BY <1>2, <1>4, <1>6
<1>8. \A i \in 1 .. n + 1 : i \in 1 .. n \/ i = n + 1
  OBVIOUS
<1>9. \A i \in DOMAIN w : Dated(w[i])
  <2>1. \A i \in 1 .. n : Dated(v[i])
    BY <1>1, <1>2 DEF VetoInv
  <2>2. svNow \in Nat
    BY DEF VetoInv
  <2>3. Dated(e)
    <3>1. svNow <= svNow
      BY <2>2
    <3>2. e.at = svNow
      BY <1>3
    <3>3. QED BY <3>1, <3>2 DEF Dated
  <2>4. QED BY <1>7, <1>8, <2>1, <2>3
<1>10. \A i \in svPending' : i \in 1 .. n + 1 /\ Waits(w[i])
  <2>1. \A i \in svPending : i \in 1 .. n /\ Waits(v[i])
    BY <1>1, <1>2 DEF VetoInv
  <2>2. svNow \in Nat /\ svSwept \in Nat /\ svSwept <= svNow
    BY DEF VetoInv
  <2>3. Waits(e)
    <3>1. svSwept - svNow <= AutoExpire
      BY <2>2, VetoAssumption
    <3>2. e.at = svNow /\ e.resolution = ""
      BY <1>3
    <3>3. QED BY <3>1, <3>2 DEF Waits
  <2>4. QED BY <1>4, <1>7, <1>8, <2>1, <2>3
<1>11. VetoInv'
  <2>1. svNow' \in Nat /\ svSwept' \in Nat /\ svSwept' <= svNow'
    BY <1>4 DEF VetoInv
  <2>2. (\A i \in DOMAIN svDecisions : Dated(svDecisions[i]))'
    BY <1>4, <1>7, <1>9 DEF Dated
  <2>3. (\A i \in svPending : Waits(svDecisions[i]))' /\ svPending' \subseteq DOMAIN svDecisions'
    BY <1>4, <1>7, <1>10 DEF Waits
  <2>4. QED BY <1>7, <2>1, <2>2, <2>3 DEF VetoInv
<1>12. \A i \in 1 .. n : KeepsVerdict(v[i], w[i])
  BY <1>7 DEF KeepsVerdict
<1>13. QED BY <1>1, <1>2, <1>7, <1>11, <1>12 DEF Final

LEMMA ExpireStep ==
    ASSUME VetoInv, ExpireStale
    PROVE  VetoInv' /\ Final
<1>1. PICK v \in Seq(Decisions) : v = svDecisions
  BY DEF VetoInv
<1>2. PICK n \in Nat : n = Len(v) /\ DOMAIN v = 1 .. n
  <2>1. Len(v) \in Nat /\ DOMAIN v = 1 .. Len(v)
    OBVIOUS
  <2>2. QED BY <2>1
<1> DEFINE w == [i \in 1 .. n |-> IF i \in Swept THEN [v[i] EXCEPT !.resolution = "expired"] ELSE v[i]]
<1>3. svDecisions' = w /\ svPending' = svPending \ Swept /\ svSwept' = svNow /\ svNow' = svNow
  BY <1>1, <1>2 DEF ExpireStale
<1>4. ASSUME NEW i \in 1 .. n
      PROVE  /\ w[i] \in Decisions /\ w[i].at = v[i].at /\ (i \notin Swept => w[i] = v[i])
  <2>1. v[i] \in Decisions
    BY <1>2
  <2>2. QED BY <2>1 DEF Decisions
<1>5. w \in Seq(Decisions) /\ DOMAIN w = 1 .. n
  <2>1. w \in [1 .. n -> Decisions]
    BY <1>4
  <2> HIDE DEF w
  <2>2. QED BY <2>1
<1> HIDE DEF w
<1>6. ASSUME NEW i \in svPending'
      PROVE  i \in 1 .. n /\ w[i].resolution = "" /\ svNow - w[i].at <= AutoExpire
  <2>1. i \in svPending /\ i \notin Swept /\ ~Stale(i)
    BY <1>3 DEF Swept
  <2>2. i \in 1 .. n /\ Waits(v[i])
    BY <1>1, <1>2, <2>1 DEF VetoInv
  <2>3. v[i] \in Decisions
    BY <1>2, <2>2
  <2>4. v[i].at \in Nat
    BY <2>3 DEF Decisions
  <2>5. svNow \in Nat
    BY DEF VetoInv
  <2>6. svNow - v[i].at <= AutoExpire
    BY <1>1, <2>1, <2>4, <2>5, VetoAssumption DEF Stale
  <2>7. w[i] = v[i]
    BY <1>4, <2>1, <2>2
  <2>8. QED BY <2>2, <2>6, <2>7 DEF Waits
<1>7. \A i \in 1 .. n : Dated(w[i])
  <2>1. \A i \in 1 .. n : Dated(v[i])
    BY <1>1, <1>2 DEF VetoInv
  <2>2. QED BY <1>4, <2>1 DEF Dated
<1>8. VetoInv'
  <2>1. svNow' \in Nat /\ svSwept' \in Nat /\ svSwept' <= svNow'
    <3>1. svNow \in Nat
      BY DEF VetoInv
    <3>2. QED BY <1>3, <3>1
  <2>2. (\A i \in DOMAIN svDecisions : Dated(svDecisions[i]))'
    BY <1>3, <1>5, <1>7 DEF Dated
  <2>3. (\A i \in svPending : Waits(svDecisions[i]))' /\ svPending' \subseteq DOMAIN svDecisions'
    BY <1>3, <1>5, <1>6 DEF Waits
  <2>4. QED BY <1>3, <1>5, <2>1, <2>2, <2>3 DEF VetoInv
<1>9. Final
  <2>1. \A i \in Swept : Waits(v[i])
    BY <1>1 DEF VetoInv, Swept
  <2>2. \A i \in 1 .. n : KeepsVerdict(v[i], w[i])
    <3> TAKE i \in 1 .. n
    <3>1. CASE i \in Swept
      BY <2>1, <3>1 DEF Waits, KeepsVerdict
    <3>2. CASE i \notin Swept
      BY <1>4, <3>2 DEF KeepsVerdict
    <3>3. QED BY <3>1, <3>2
  <2>3. QED BY <1>1, <1>2, <1>3, <2>2 DEF Final
<1>10. QED BY <1>8, <1>9

LEMMA VetoStep ==
    ASSUME VetoInv, [SoftVetoNext]_svVars
    PROVE  VetoInv' /\ Final
<1>1. ASSUME NEW level \in {"pass", "soft_veto", "hard_block"}, Evaluate(level) PROVE VetoInv' /\ Final
  BY <1>1, EvaluateStep
<1>2. ASSUME NEW i \in DOMAIN svDecisions PROVE svDecisions[i] \in Decisions /\ Dated(svDecisions[i])
  <2>1. svDecisions \in Seq(Decisions) /\ Dated(svDecisions[i])
    BY DEF VetoInv
  <2>2. QED BY <2>1
<1>3. ASSUME NEW i \in DOMAIN svDecisions, Escalate(i) PROVE VetoInv' /\ Final
  <2>1. PICK e : e = [svDecisions[i] EXCEPT !.escalated = TRUE]
    OBVIOUS
  <2>2. e \in Decisions /\ e.at = svDecisions[i].at /\ e.resolution = svDecisions[i].resolution
    BY <1>2, <2>1 DEF Decisions
  <2>3. /\ svDecisions' = [svDecisions EXCEPT ![i] = e] /\ UNCHANGED <<svNow, svSwept>>
        /\ svPending' \subseteq svPending
    BY <1>3, <2>1 DEF Escalate
  <2>4. Dated(e) /\ KeepsVerdict(svDecisions[i], e)
    BY <1>2, <2>2 DEF Dated, KeepsVerdict
  <2>5. i \in svPending' => Waits(e)
    <3>1. i \in svPending => Waits(svDecisions[i])
      BY DEF VetoInv
    <3>2. QED BY <2>2, <2>3, <3>1 DEF Waits
  <2>6. QED BY <2>2, <2>3, <2>4, <2>5, VetoMove
<1>4. ASSUME NEW i \in DOMAIN svDecisions, NEW verdict \in {"approved", "denied"}, Resolve(i, verdict)
      PROVE  VetoInv' /\ Final
  <2>1. PICK e : e = [svDecisions[i] EXCEPT !.resolution = verdict]
    OBVIOUS
  <2>2. e \in Decisions /\ e.at = svDecisions[i].at
    BY <1>2, <2>1 DEF Decisions
  <2>3. /\ svDecisions' = [svDecisions EXCEPT ![i] = e] /\ UNCHANGED <<svNow, svSwept>>
        /\ svPending' \subseteq svPending /\ i \notin svPending' /\ i \in svPending
    BY <1>4, <2>1 DEF Resolve
  <2>4. Waits(svDecisions[i])
    BY <2>3 DEF VetoInv
  <2>5. Dated(e) /\ KeepsVerdict(svDecisions[i], e)
    BY <1>2, <2>2, <2>4 DEF Dated, KeepsVerdict, Waits
  <2>6. QED BY <2>2, <2>3, <2>5, VetoMove
<1>5. CASE ExpireStale
  BY <1>5, ExpireStep
<1>6. CASE SoftVetoTick
  <2>1. svNow' = svNow + 1 /\ UNCHANGED <<svDecisions, svPending, svSwept>>
    BY <1>6 DEF SoftVetoTick
  <2>2. svNow \in Nat /\ svSwept \in Nat /\ svSwept <= svNow
    BY DEF VetoInv
  <2>3. ASSUME NEW i \in DOMAIN svDecisions PROVE svDecisions[i].at <= svNow + 1
    <3>1. svDecisions[i].at \in Nat
      BY <1>2 DEF Decisions
    <3>2. svDecisions[i].at <= svNow
      BY <1>2 DEF Dated
    <3>3. QED BY <2>2, <3>1, <3>2
  <2>4. (\A i \in DOMAIN svDecisions : Dated(svDecisions[i]))'
    BY <2>1, <2>3 DEF Dated
  <2>5. (\A i \in svPending : Waits(svDecisions[i]))'
    BY <2>1 DEF VetoInv, Waits
  <2>6. svNow' \in Nat /\ svSwept' \in Nat /\ svSwept' <= svNow'
    BY <2>1, <2>2
  <2>7. QED BY <2>1, <2>4, <2>5, <2>6 DEF VetoInv, Final, KeepsVerdict
<1>7. CASE UNCHANGED svVars
  BY <1>7 DEF svVars, VetoInv, Final, KeepsVerdict, Dated, Waits
<1>8. QED BY <1>1, <1>3, <1>4, <1>5, <1>6, <1>7 DEF SoftVetoNext

-----------------------------------------------------------------------------
\* Both gates act in time, once and for good, for every threshold, window and deadline: the
\* panics kept are always the end of those recorded, without the old ones (record_panic,
\* _prune_old, _fire, arm, disarm), and a decision that waits has no verdict and was not
\* overdue at the last sweep (evaluate, resolve, expire_stale).
THEOREM GatesAct == DeadManSpec /\ SoftVetoSpec => GatesActInTime
<1>1. DeadManInit => DeadManInv
  BY DeadManStart
<1>2. DeadManInv /\ [DeadManNext]_dmVars => DeadManInv'
  BY DeadManStep
<1>3. DeadManInv => TriggerIsJustified /\ NoBurstUnnoticed
  BY DEF DeadManInv
<1>4. DeadManInv /\ [DeadManNext]_dmVars =>
        [dmTriggers' # dmTriggers =>
           /\ dmTriggered = FALSE
           /\ \A trigger \in dmTriggers' :
                IsSuffix(trigger.panics, dmLog') /\ \A t \in ToSet(trigger.panics) : t >= dmArmedAt]_dmVars
  BY DeadManStep
<1>5. SoftVetoInit => VetoInv
  BY VetoStart
<1>6. VetoInv /\ [SoftVetoNext]_svVars => VetoInv'
  BY VetoStep
<1>7. VetoInv => LateVerdictOnlyUnswept
  BY DEF VetoInv, Waits, LateVerdictOnlyUnswept
<1>8. VetoInv /\ [SoftVetoNext]_svVars =>
        [\A i \in DOMAIN svDecisions : svDecisions[i].resolution # "" =>
           svDecisions'[i].resolution = svDecisions[i].resolution]_svVars
  BY VetoStep DEF Final, KeepsVerdict
<1>9. QED BY <1>1, <1>2, <1>3, <1>4, <1>5, <1>6, <1>7, <1>8, PTL
          DEF DeadManSpec, SoftVetoSpec, GatesActInTime, OneTriggerPerArming, VerdictIsFinal

-----------------------------------------------------------------------------
(* The hash chain. *)

Hashes == Seq(Payloads)
LogEntry == [id : Hashes, parent : Hashes, disturbed : BOOLEAN]
CallStates == {"idle", "read", "writing", "appending"}

\* What a call in progress has read and is to write.
CallTyped(c) ==
  /\ c.at \in CallStates /\ c.parent \in Hashes /\ c.disturbed \in BOOLEAN
  /\ c.at # "idle" => c.payload \in Payloads
AlsCalls == [at : CallStates, parent : Hashes, payload : Payloads \cup {""}, disturbed : BOOLEAN]
AlsTyped ==
  /\ alsFile \in Hashes /\ alsEntries \in Seq(LogEntry) /\ alsCall \in [Writers -> AlsCalls]
  /\ \A w \in Writers : CallTyped(alsCall[w])

\* A hash that somebody computed: of an entry, or of a call that is about to append one.
Computed ==
  {Seed} \cup {e.id : e \in Range(alsEntries)} \cup {PendingId(w) : w \in Pending}
ParentsComputed ==
  /\ alsFile \in Computed
  /\ \A e \in Range(alsEntries) : e.parent \in Computed
  /\ \A w \in Calls : alsCall[w].parent \in Computed

\* No disturbed call started the stretch of chain that leads to s.
CleanChain(s) == \A id \in DisturbedIds : ~IsPrefix(id, s)
\* The parents of the entries, written or about to be, whose calls ran alone.
Alone == {i \in DOMAIN alsEntries : ~alsEntries[i].disturbed}
PendingAlone == {w \in Pending : ~alsCall[w].disturbed}
NoneBeyond(s) ==
  /\ \A i \in Alone : ~IsPrefix(s, alsEntries[i].parent)
  /\ \A w \in PendingAlone : ~IsPrefix(s, alsCall[w].parent)

\* Nobody has gone on from where the file stands, or from where a call that runs alone read
\* it; so those that ran alone have parents of their own.
Reading == {w \in Writers : alsCall[w].at \in {"read", "writing"} /\ ~alsCall[w].disturbed}
Frontier ==
  /\ (\A w \in Writers : alsCall[w].at # "writing") /\ CleanChain(alsFile) => NoneBeyond(alsFile)
  /\ \A w \in Reading : CleanChain(alsCall[w].parent) => NoneBeyond(alsCall[w].parent)
OwnParents ==
  /\ \A i, j \in Alone : i # j /\ CleanChain(alsEntries[i].parent) => alsEntries[i].parent # alsEntries[j].parent
  /\ \A i \in Alone, w \in PendingAlone :
       CleanChain(alsEntries[i].parent) => alsEntries[i].parent # alsCall[w].parent
  /\ \A v, w \in PendingAlone : v = w

ChainInv == AlsTyped /\ ParentsComputed /\ Frontier /\ OwnParents

-----------------------------------------------------------------------------
LEMMA HashPrefixes ==
    ASSUME NEW s \in Hashes, NEW t \in Hashes, NEW x \in Payloads
    PROVE  /\ Append(s, x) \in Hashes /\ IsPrefix(s, s) /\ ~IsPrefix(Append(s, x), s)
           /\ IsPrefix(s, t) => IsPrefix(s, Append(t, x))
           /\ IsPrefix(Append(s, x), t) => IsPrefix(s, t)
<1>1. PICK m \in Nat, n \in Nat : m = Len(s) /\ n = Len(t)
  BY DEF Hashes
<1>2. PICK sx \in Seq(Payloads) : /\ sx = Append(s, x) /\ Len(sx) = m + 1
                                  /\ \A i \in 1 .. m : sx[i] = s[i]
  <2>1. /\ Append(s, x) \in Seq(Payloads) /\ Len(Append(s, x)) = Len(s) + 1
        /\ \A i \in 1 .. Len(s) : Append(s, x)[i] = s[i]
    BY AppendProperties DEF Hashes
  <2>2. QED BY <1>1, <2>1
<1>3. PICK tx \in Seq(Payloads) : /\ tx = Append(t, x) /\ Len(tx) = n + 1
                                  /\ \A i \in 1 .. n : tx[i] = t[i]
  <2>1. /\ Append(t, x) \in Seq(Payloads) /\ Len(Append(t, x)) = Len(t) + 1
        /\ \A i \in 1 .. Len(t) : Append(t, x)[i] = t[i]
    BY AppendProperties DEF Hashes
  <2>2. QED BY <1>1, <2>1
<1>4. ASSUME NEW u \in Seq(Payloads), NEW v \in Seq(Payloads), NEW k \in Nat, k <= Len(u), k <= Len(v)
      PROVE  SubSeq(u, 1, k) = SubSeq(v, 1, k) <=> \A i \in 1 .. k : u[i] = v[i]
  <2>1. \A i \in 1 .. k : u[i] \in Payloads /\ v[i] \in Payloads
    BY <1>4
  <2>2. k - 1 + 1 = k /\ \A i \in 1 .. k : 1 + i - 1 = i
    OBVIOUS
  <2>3. /\ SubSeq(u, 1, k) \in Seq(Payloads) /\ Len(SubSeq(u, 1, k)) = IF 1 <= k THEN k - 1 + 1 ELSE 0
        /\ \A i \in 1 .. k - 1 + 1 : SubSeq(u, 1, k)[i] = u[1 + i - 1]
    BY <2>1, SubSeqProperties
  <2>4. /\ SubSeq(v, 1, k) \in Seq(Payloads) /\ Len(SubSeq(v, 1, k)) = IF 1 <= k THEN k - 1 + 1 ELSE 0
        /\ \A i \in 1 .. k - 1 + 1 : SubSeq(v, 1, k)[i] = v[1 + i - 1]
    BY <2>1, SubSeqProperties
  <2>5. Len(SubSeq(u, 1, k)) = k /\ Len(SubSeq(v, 1, k)) = k
    BY <2>3, <2>4
  <2>6. \A i \in 1 .. k : SubSeq(u, 1, k)[i] = u[i] /\ SubSeq(v, 1, k)[i] = v[i]
    BY <2>2, <2>3, <2>4
  <2>7. ASSUME \A i \in 1 .. k : u[i] = v[i] PROVE SubSeq(u, 1, k) = SubSeq(v, 1, k)
    <3>1. \A i \in 1 .. Len(SubSeq(u, 1, k)) : SubSeq(u, 1, k)[i] = SubSeq(v, 1, k)[i]
      BY <2>5, <2>6, <2>7
    <3>2. QED BY <2>3, <2>4, <2>5, <3>1, SeqEqual
  <2>8. QED BY <2>6, <2>7
<1>5. s \in Seq(Payloads) /\ t \in Seq(Payloads)
  BY DEF Hashes
<1>6. IsPrefix(s, s)
  BY <1>1 DEF IsPrefix
<1>7. ~IsPrefix(sx, s)
  BY <1>1, <1>2 DEF IsPrefix
<1>8. ASSUME IsPrefix(s, t) PROVE IsPrefix(s, tx)
  <2>1. m <= n /\ SubSeq(s, 1, m) = SubSeq(t, 1, m)
    BY <1>1, <1>8 DEF IsPrefix
  <2>2. \A i \in 1 .. m : s[i] = t[i]
    BY <1>1, <1>4, <1>5, <2>1
  <2>3. \A i \in 1 .. m : s[i] = tx[i]
    BY <1>3, <2>1, <2>2
  <2>4. m <= n + 1
    BY <2>1
  <2>5. SubSeq(s, 1, m) = SubSeq(tx, 1, m)
    BY <1>1, <1>3, <1>4, <1>5, <2>3, <2>4
  <2>6. QED BY <1>1, <1>3, <2>4, <2>5 DEF IsPrefix
<1>9. ASSUME IsPrefix(sx, t) PROVE IsPrefix(s, t)
  <2>1. m + 1 <= n /\ SubSeq(sx, 1, m + 1) = SubSeq(t, 1, m + 1)
    BY <1>1, <1>2, <1>9 DEF IsPrefix
  <2>2. \A i \in 1 .. m + 1 : sx[i] = t[i]
    BY <1>1, <1>2, <1>4, <1>5, <2>1
  <2>3. m <= n /\ \A i \in 1 .. m : s[i] = t[i]
    BY <1>2, <2>1, <2>2
  <2>4. SubSeq(s, 1, m) = SubSeq(t, 1, m)
    BY <1>1, <1>4, <1>5, <2>3
  <2>5. QED BY <1>1, <2>3, <2>4 DEF IsPrefix
<1>10. Append(s, x) = sx /\ Append(t, x) = tx /\ sx \in Hashes
  BY <1>2, <1>3 DEF Hashes
<1>11. ~IsPrefix(Append(s, x), s)
  BY <1>7, <1>10
<1>12. IsPrefix(s, t) => IsPrefix(s, Append(t, x))
  BY <1>8, <1>10
<1>13. IsPrefix(Append(s, x), t) => IsPrefix(s, t)
  BY <1>9, <1>10
<1>14. Append(s, x) \in Hashes
  BY <1>10
<1>15. QED BY <1>6, <1>11, <1>12, <1>13, <1>14

\* The calls of the others go on as they were, but they may be disturbed.
OthersGoOn(w) ==
  \A v \in Writers \ {w} :
    /\ alsCall'[v].at = alsCall[v].at /\ alsCall'[v].parent = alsCall[v].parent
    /\ alsCall'[v].payload = alsCall[v].payload /\ (alsCall[v].disturbed => alsCall'[v].disturbed)
\* Every other call in progress is disturbed.
OthersDisturbed(w) == \A v \in Writers \ {w} : alsCall[v].at # "idle" => alsCall'[v].disturbed

LEMMA DisturbingFacts ==
    ASSUME AlsTyped, NEW w \in Writers, NEW at \in CallStates \ {"idle"}, alsCall[w].at # "idle",
           alsCall' = Disturbing(w, at)
    PROVE  /\ alsCall' \in [Writers -> AlsCalls] /\ (\A v \in Writers : CallTyped(alsCall'[v]))
           /\ OthersGoOn(w) /\ OthersDisturbed(w)
           /\ alsCall'[w].at = at /\ alsCall'[w].parent = alsCall[w].parent
           /\ alsCall'[w].payload = alsCall[w].payload /\ alsCall'[w].disturbed = alsCall[w].disturbed
<1>1. ASSUME NEW v \in Writers PROVE alsCall[v] \in AlsCalls /\ CallTyped(alsCall[v])
  BY DEF AlsTyped
<1>2. alsCall'[w] = [alsCall[w] EXCEPT !.at = at]
  BY DEF Disturbing
<1>3. ASSUME NEW v \in Writers \ {w}
      PROVE  alsCall'[v] = [alsCall[v] EXCEPT !.disturbed = @ \/ alsCall[v].at # "idle"]
  BY DEF Disturbing
<1>4. /\ alsCall'[w] \in AlsCalls /\ alsCall'[w].at = at /\ alsCall'[w].parent = alsCall[w].parent
      /\ alsCall'[w].payload = alsCall[w].payload /\ alsCall'[w].disturbed = alsCall[w].disturbed
  BY <1>1, <1>2 DEF AlsCalls
<1>5. ASSUME NEW v \in Writers \ {w}
      PROVE  /\ alsCall'[v] \in AlsCalls /\ alsCall'[v].at = alsCall[v].at
             /\ alsCall'[v].parent = alsCall[v].parent /\ alsCall'[v].payload = alsCall[v].payload
             /\ alsCall'[v].disturbed = (alsCall[v].disturbed \/ alsCall[v].at # "idle")
  BY <1>1, <1>3 DEF AlsCalls
<1>6. ASSUME NEW v \in Writers PROVE alsCall'[v] \in AlsCalls /\ CallTyped(alsCall'[v])
  <2>1. CASE v = w
    BY <1>1, <1>4, <2>1 DEF CallTyped, AlsCalls
  <2>2. CASE v # w
    BY <1>1, <1>5, <2>2 DEF CallTyped, AlsCalls
  <2>3. QED BY <2>1, <2>2
<1>7. alsCall' \in [Writers -> AlsCalls]
  <2>1. alsCall' = [v \in Writers |-> alsCall'[v]]
    BY DEF Disturbing
  <2>2. QED BY <1>6, <2>1
<1>8. QED BY <1>4, <1>5, <1>6, <1>7 DEF OthersGoOn, OthersDisturbed

\* While no entry is appended and w is not about to append one, what was computed and what
\* was disturbed remains, and only w may join those that ran alone.
LEMMA IdsStay ==
    ASSUME AlsTyped, NEW w \in Writers, alsCall[w].at # "appending", OthersGoOn(w), alsEntries' = alsEntries,
           \A v \in Writers : alsCall'[v].disturbed \in BOOLEAN
    PROVE  /\ DisturbedIds \subseteq DisturbedIds' /\ Computed \subseteq Computed'
           /\ Alone' = Alone /\ PendingAlone' \ {w} \subseteq PendingAlone
           /\ \A v \in PendingAlone' \ {w} : alsCall'[v].parent = alsCall[v].parent
<1>1. ASSUME NEW v \in Pending
      PROVE  v \in Pending' /\ PendingId(v)' = PendingId(v) /\ (alsCall[v].disturbed => alsCall'[v].disturbed)
  <2>1. v \in Writers \ {w}
    BY DEF Pending
  <2>2. QED BY <2>1 DEF OthersGoOn, Pending, PendingId
<1>2. DisturbedIds \subseteq DisturbedIds'
  BY <1>1 DEF DisturbedIds
<1>3. Computed \subseteq Computed'
  BY <1>1 DEF Computed
<1>4. Alone' = Alone
  BY DEF Alone
<1>5. ASSUME NEW v \in PendingAlone' \ {w}
      PROVE  v \in PendingAlone /\ alsCall'[v].parent = alsCall[v].parent
  BY DEF PendingAlone, Pending, OthersGoOn
<1>6. QED BY <1>2, <1>3, <1>4, <1>5

\* And if w does not join them, they still have parents of their own.
LEMMA NobodyJoins ==
    ASSUME AlsTyped, OwnParents, NEW w \in Writers, alsCall[w].at # "appending", OthersGoOn(w),
           alsEntries' = alsEntries, \A v \in Writers : alsCall'[v].disturbed \in BOOLEAN,
           w \notin PendingAlone'
    PROVE  OwnParents' /\ \A s : NoneBeyond(s) => NoneBeyond(s)'
<1>1. /\ DisturbedIds \subseteq DisturbedIds' /\ Alone' = Alone /\ PendingAlone' \subseteq PendingAlone
      /\ \A v \in PendingAlone' : alsCall'[v].parent = alsCall[v].parent
  BY IdsStay
<1>2. \A s : CleanChain(s)' => CleanChain(s)
  BY <1>1 DEF CleanChain
<1>3. \A i \in Alone : CleanChain(alsEntries[i].parent)' => CleanChain(alsEntries[i].parent)
  BY <1>1 DEF CleanChain
<1>4. OwnParents'
  BY <1>1, <1>3 DEF OwnParents
<1>5. QED BY <1>1, <1>4 DEF NoneBeyond

LEMMA InitChained ==
    ASSUME AlsInit
    PROVE  ChainInv
<1>1. alsFile = <<>> /\ alsEntries = <<>> /\ \A w \in Writers : alsCall[w] = Idle
  BY DEF AlsInit, Seed
<1>2. Idle \in AlsCalls /\ CallTyped(Idle) /\ Idle.at = "idle"
  BY DEF Idle, AlsCalls, CallTyped, CallStates, Hashes, Seed
<1>3. AlsTyped
  BY <1>1, <1>2 DEF AlsInit, AlsTyped, Hashes
<1>4. Calls = {} /\ Pending = {} /\ PendingAlone = {} /\ Reading = {} /\ Alone = {}
  BY <1>1, <1>2 DEF Calls, Pending, PendingAlone, Reading, Alone
<1>5. Range(alsEntries) = {}
  BY <1>1 DEF Range
<1>6. ParentsComputed
  BY <1>1, <1>4, <1>5 DEF ParentsComputed, Computed, Seed
<1>7. Frontier /\ OwnParents
  BY <1>4 DEF Frontier, OwnParents, NoneBeyond
<1>8. QED BY <1>3, <1>6, <1>7 DEF ChainInv

LEMMA ReadKeepsChain ==
    ASSUME ChainInv, NEW w \in Writers, NEW payload \in Payloads, NEW denied \in BOOLEAN,
           ReadLastHash(w, payload, denied)
    PROVE  ChainInv'
<1> DEFINE call == [at |-> "read", parent |-> IF denied THEN Seed ELSE alsFile, payload |-> payload,
                    disturbed |-> denied \/ \E v \in Calls : alsCall[v].at # "appending"]
<1>1. /\ alsCall[w].at = "idle" /\ alsCall' = [alsCall EXCEPT ![w] = call]
      /\ alsFile' = alsFile /\ alsEntries' = alsEntries
  BY DEF ReadLastHash
<1>2. /\ alsFile \in Hashes /\ alsEntries \in Seq(LogEntry) /\ alsCall \in [Writers -> AlsCalls]
      /\ \A v \in Writers : CallTyped(alsCall[v])
  BY DEF ChainInv, AlsTyped
<1>3. /\ call.at = "read" /\ call.parent \in {Seed, alsFile} /\ call.payload = payload
      /\ call.disturbed = (denied \/ \E v \in Calls : alsCall[v].at # "appending")
      /\ (~call.disturbed => call.parent = alsFile)
  OBVIOUS
<1>4. call \in AlsCalls /\ CallTyped(call)
  <2>1. call.parent \in Hashes
    BY <1>2, <1>3 DEF Hashes, Seed
  <2>2. call.disturbed \in BOOLEAN
    BY <1>3
  <2>3. call = [at |-> call.at, parent |-> call.parent, payload |-> call.payload, disturbed |-> call.disturbed]
    OBVIOUS
  <2> HIDE DEF call
  <2>4. call \in AlsCalls
    BY <1>3, <2>1, <2>2, <2>3 DEF AlsCalls, CallStates
  <2>5. QED BY <1>3, <2>1, <2>2, <2>4 DEF CallTyped, CallStates
<1> HIDE DEF call
<1>5. alsCall'[w] = call /\ \A v \in Writers \ {w} : alsCall'[v] = alsCall[v]
  BY <1>1, <1>2
<1>6. AlsTyped'
  <2>1. alsCall' \in [Writers -> AlsCalls]
    BY <1>1, <1>2, <1>4
  <2>2. \A v \in Writers : CallTyped(alsCall'[v])
    BY <1>2, <1>4, <1>5
  <2>3. QED BY <1>1, <1>2, <2>1, <2>2 DEF AlsTyped
<1>7. OthersGoOn(w) /\ \A v \in Writers : alsCall'[v].disturbed \in BOOLEAN
  <2>1. OthersGoOn(w)
    BY <1>5 DEF OthersGoOn
  <2>2. QED BY <1>6, <2>1 DEF AlsTyped, CallTyped
<1>8. alsCall[w].at # "appending" /\ w \notin PendingAlone'
  BY <1>1, <1>3, <1>5 DEF PendingAlone, Pending
<1>9. /\ DisturbedIds \subseteq DisturbedIds' /\ Computed \subseteq Computed'
  BY <1>1, <1>7, <1>8, IdsStay DEF ChainInv
<1>10. OwnParents' /\ \A s : NoneBeyond(s) => NoneBeyond(s)'
  BY <1>1, <1>7, <1>8, NobodyJoins DEF ChainInv
<1>11. \A s : CleanChain(s)' => CleanChain(s)
  BY <1>9 DEF CleanChain
<1>12. ParentsComputed'
  <2>1. \A v \in Calls' : alsCall'[v].parent \in Computed
    <3>1. Seed \in Computed /\ alsFile \in Computed
      BY DEF ChainInv, ParentsComputed, Computed
    <3>2. alsCall'[w].parent \in Computed
      BY <1>3, <1>5, <3>1
    <3>3. ASSUME NEW v \in Calls', v # w PROVE alsCall'[v].parent \in Computed
      <4>1. v \in Calls /\ alsCall'[v] = alsCall[v]
        BY <1>5, <3>3 DEF Calls
      <4>2. QED BY <4>1 DEF ChainInv, ParentsComputed
    <3>4. QED BY <3>2, <3>3
  <2>2. QED BY <1>1, <1>9, <2>1 DEF ChainInv, ParentsComputed
<1>13. Frontier'
  <2>1. ASSUME (\A v \in Writers : alsCall[v].at # "writing")', CleanChain(alsFile)'
        PROVE  NoneBeyond(alsFile)'
    <3>1. \A v \in Writers : alsCall[v].at # "writing"
      BY <1>1, <1>5, <2>1
    <3>2. CleanChain(alsFile)
      BY <1>1, <2>1, <1>9 DEF CleanChain
    <3>3. NoneBeyond(alsFile)
      BY <3>1, <3>2 DEF ChainInv, Frontier
    <3>4. QED BY <1>1, <1>10, <3>3 DEF NoneBeyond
  <2>2. ASSUME NEW v \in Reading', CleanChain(alsCall[v].parent)'
        PROVE  NoneBeyond(alsCall[v].parent)'
    <3>1. CASE v = w
      <4>1. ~call.disturbed
        BY <1>5, <2>2, <3>1 DEF Reading
      <4>2. \A u \in Calls : alsCall[u].at = "appending"
        BY <1>3, <4>1
      <4>3. \A u \in Writers : alsCall[u].at # "writing"
        BY <4>2 DEF Calls
      <4>4. alsCall'[v].parent = alsFile
        BY <1>3, <1>5, <3>1, <4>1
      <4>5. CleanChain(alsFile)
        BY <1>9, <2>2, <4>4 DEF CleanChain
      <4>6. NoneBeyond(alsFile)
        BY <4>3, <4>5 DEF ChainInv, Frontier
      <4>7. QED BY <1>10, <4>4, <4>6 DEF NoneBeyond
    <3>2. CASE v # w
      <4>1. v \in Reading /\ alsCall'[v] = alsCall[v]
        BY <1>5, <2>2, <3>2 DEF Reading
      <4>2. CleanChain(alsCall[v].parent)
        BY <1>9, <2>2, <4>1 DEF CleanChain
      <4>3. NoneBeyond(alsCall[v].parent)
        BY <4>1, <4>2 DEF ChainInv, Frontier
      <4>4. QED BY <1>10, <4>1, <4>3 DEF NoneBeyond
    <3>3. QED BY <3>1, <3>2
  <2>3. QED BY <2>1, <2>2 DEF Frontier
<1>14. QED BY <1>6, <1>10, <1>12, <1>13 DEF ChainInv

LEMMA TruncateKeepsChain ==
    ASSUME ChainInv, NEW w \in Writers, Truncate(w)
    PROVE  ChainInv'
<1>1. /\ alsCall[w].at = "read" /\ alsFile' = Seed /\ alsCall' = Disturbing(w, "writing")
      /\ alsEntries' = alsEntries
  BY DEF Truncate
<1>2. /\ alsCall' \in [Writers -> AlsCalls] /\ (\A v \in Writers : CallTyped(alsCall'[v]))
      /\ OthersGoOn(w) /\ OthersDisturbed(w)
      /\ alsCall'[w].at = "writing" /\ alsCall'[w].parent = alsCall[w].parent
      /\ alsCall'[w].payload = alsCall[w].payload /\ alsCall'[w].disturbed = alsCall[w].disturbed
  BY <1>1, DisturbingFacts DEF ChainInv, CallStates
<1>3. AlsTyped'
  BY <1>1, <1>2 DEF ChainInv, AlsTyped, Hashes, Seed
<1>4. \A v \in Writers : alsCall'[v].disturbed \in BOOLEAN
  BY <1>2 DEF CallTyped
<1>5. alsCall[w].at # "appending" /\ w \notin PendingAlone'
  BY <1>1, <1>2 DEF PendingAlone, Pending
<1>6. DisturbedIds \subseteq DisturbedIds' /\ Computed \subseteq Computed'
  BY <1>1, <1>2, <1>4, <1>5, IdsStay DEF ChainInv
<1>7. OwnParents' /\ \A s : NoneBeyond(s) => NoneBeyond(s)'
  BY <1>1, <1>2, <1>4, <1>5, NobodyJoins DEF ChainInv
<1>8. ParentsComputed'
  <2>1. ASSUME NEW v \in Calls' PROVE alsCall'[v].parent \in Computed
    <3>1. v \in Calls /\ alsCall'[v].parent = alsCall[v].parent
      BY <1>1, <1>2 DEF Calls, OthersGoOn
    <3>2. QED BY <3>1 DEF ChainInv, ParentsComputed
  <2>2. alsFile' \in Computed'
    BY <1>1 DEF Computed
  <2>3. QED BY <1>1, <1>6, <2>1, <2>2 DEF ChainInv, ParentsComputed
<1>9. Frontier'
  <2>1. ~(\A v \in Writers : alsCall[v].at # "writing")'
    BY <1>2
  <2>2. ASSUME NEW v \in Reading', CleanChain(alsCall[v].parent)'
        PROVE  NoneBeyond(alsCall[v].parent)'
    <3>1. v = w
      BY <1>2, <2>2 DEF Reading, OthersDisturbed, OthersGoOn
    <3>2. w \in Reading /\ alsCall'[v].parent = alsCall[w].parent
      BY <1>1, <1>2, <2>2, <3>1 DEF Reading
    <3>3. CleanChain(alsCall[w].parent)
      BY <1>6, <2>2, <3>2 DEF CleanChain
    <3>4. NoneBeyond(alsCall[w].parent)
      BY <3>2, <3>3 DEF ChainInv, Frontier
    <3>5. QED BY <1>7, <3>2, <3>4 DEF NoneBeyond
  <2>3. QED BY <2>1, <2>2 DEF Frontier
<1>10. QED BY <1>3, <1>7, <1>8, <1>9 DEF ChainInv

LEMMA FillKeepsChain ==
    ASSUME ChainInv, NEW w \in Writers, Fill(w)
    PROVE  ChainInv'
<1>1. /\ alsCall[w].at = "writing" /\ alsFile' = Written(w) /\ alsCall' = Disturbing(w, "appending")
      /\ alsEntries' = alsEntries
  BY DEF Fill
<1>2. /\ alsCall' \in [Writers -> AlsCalls] /\ (\A v \in Writers : CallTyped(alsCall'[v]))
      /\ OthersGoOn(w) /\ OthersDisturbed(w)
      /\ alsCall'[w].at = "appending" /\ alsCall'[w].parent = alsCall[w].parent
      /\ alsCall'[w].payload = alsCall[w].payload /\ alsCall'[w].disturbed = alsCall[w].disturbed
  BY <1>1, DisturbingFacts DEF ChainInv, CallStates
<1>3. PICK p \in Hashes, x \in Payloads : p = alsCall[w].parent /\ x = alsCall[w].payload
  BY <1>1 DEF ChainInv, AlsTyped, CallTyped
<1>4. alsFile' = Append(p, x) /\ (PendingId(w))' = Append(p, x)
  BY <1>1, <1>2, <1>3 DEF Written, PendingId, TraceId
<1>5. /\ Append(p, x) \in Hashes /\ IsPrefix(p, p) /\ ~IsPrefix(Append(p, x), p)
      /\ \A s \in Hashes : /\ IsPrefix(s, p) => IsPrefix(s, Append(p, x))
                           /\ IsPrefix(Append(p, x), s) => IsPrefix(p, s)
  BY <1>3, HashPrefixes
<1>6. IsPrefix(Append(p, x), Append(p, x))
  BY <1>5, <1>3, HashPrefixes
<1>7. AlsTyped'
  BY <1>1, <1>2, <1>4, <1>5 DEF ChainInv, AlsTyped
<1>8. \A v \in Writers : alsCall'[v].disturbed \in BOOLEAN
  BY <1>2 DEF CallTyped
<1>9. w \in Pending'
  BY <1>2 DEF Pending
<1>10. alsCall[w].at # "appending"
  BY <1>1
<1>11. /\ DisturbedIds \subseteq DisturbedIds' /\ Computed \subseteq Computed' /\ Alone' = Alone
       /\ PendingAlone' \ {w} \subseteq PendingAlone
       /\ \A v \in PendingAlone' \ {w} : alsCall'[v].parent = alsCall[v].parent
  BY <1>1, <1>2, <1>8, <1>10, IdsStay DEF ChainInv
<1>12. PendingAlone' \subseteq {w}
  BY <1>2 DEF PendingAlone, Pending, OthersDisturbed, OthersGoOn
<1>13. ParentsComputed'
  <2>1. ASSUME NEW v \in Calls' PROVE alsCall'[v].parent \in Computed
    <3>1. v \in Calls /\ alsCall'[v].parent = alsCall[v].parent
      BY <1>1, <1>2 DEF Calls, OthersGoOn
    <3>2. QED BY <3>1 DEF ChainInv, ParentsComputed
  <2>2. alsFile' \in Computed'
    BY <1>4, <1>9 DEF Computed
  <2>3. QED BY <1>1, <1>11, <2>1, <2>2 DEF ChainInv, ParentsComputed
\* If w ran alone, nobody has gone on from where it read the file.
<1>14. ASSUME w \in PendingAlone', CleanChain(p)' PROVE NoneBeyond(p)
  <2>1. w \in Reading
    BY <1>1, <1>2, <1>14 DEF PendingAlone, Reading
  <2>2. CleanChain(alsCall[w].parent)
    BY <1>3, <1>11, <1>14 DEF CleanChain
  <2>3. QED BY <1>3, <2>1, <2>2 DEF ChainInv, Frontier
<1>15. \A i \in Alone : alsEntries[i].parent \in Hashes
  <2>1. \A i \in Alone : alsEntries[i] \in LogEntry
    BY DEF ChainInv, AlsTyped, Alone
  <2>2. QED BY <2>1 DEF LogEntry
<1>16. OwnParents'
  <2>1. \A i, j \in Alone' : i # j /\ CleanChain(alsEntries[i].parent)' => alsEntries'[i].parent # alsEntries'[j].parent
    <3>1. \A i \in Alone : CleanChain(alsEntries[i].parent)' => CleanChain(alsEntries[i].parent)
      BY <1>1, <1>11 DEF CleanChain
    <3>2. QED BY <1>1, <1>11, <3>1 DEF ChainInv, OwnParents
  <2>2. ASSUME NEW i \in Alone', NEW v \in PendingAlone', CleanChain(alsEntries[i].parent)'
        PROVE  alsEntries'[i].parent # alsCall'[v].parent
    <3>1. SUFFICES ASSUME alsEntries[i].parent = p PROVE FALSE
      BY <1>1, <1>2, <1>3, <1>12
    <3>2. NoneBeyond(p)
      <4>1. CleanChain(p)'
        BY <1>1, <2>2, <3>1 DEF CleanChain
      <4>2. w \in PendingAlone'
        BY <1>12
      <4>3. QED BY <1>14, <4>1, <4>2
    <3>3. QED BY <1>5, <1>11, <3>1, <3>2 DEF NoneBeyond
  <2>3. \A u, v \in PendingAlone' : u = v
    BY <1>12
  <2>4. QED BY <1>1, <2>1, <2>2, <2>3 DEF OwnParents
<1>17. Frontier'
  <2>1. ASSUME CleanChain(alsFile)' PROVE NoneBeyond(alsFile)'
    <3>1. ~(alsCall[w].disturbed)'
      <4>1. SUFFICES ASSUME (alsCall[w].disturbed)' PROVE FALSE
        OBVIOUS
      <4>2. (PendingId(w))' \in DisturbedIds'
        BY <1>9, <4>1 DEF DisturbedIds
      <4>3. QED BY <1>4, <1>6, <2>1, <4>2 DEF CleanChain
    <3>2. w \in PendingAlone'
      BY <1>9, <3>1 DEF PendingAlone
    <3>3. CleanChain(p)'
      <4>1. SUFFICES ASSUME NEW id \in DisturbedIds', IsPrefix(id, p) PROVE FALSE
        BY DEF CleanChain
      <4>2. id \in Hashes
        <5>1. \A v \in Pending' : (PendingId(v))' \in Hashes
          <6>1. SUFFICES ASSUME NEW v \in Pending' PROVE (PendingId(v))' \in Hashes
            OBVIOUS
          <6>2. alsCall'[v].parent \in Hashes /\ alsCall'[v].payload \in Payloads
            BY <1>2 DEF Pending, CallTyped
          <6>3. Append(alsCall'[v].parent, alsCall'[v].payload) \in Hashes
            BY <6>2 DEF Hashes
          <6>4. QED BY <6>3 DEF PendingId, TraceId
        <5>2. \A e \in Range(alsEntries') : e.id \in Hashes
          <6>1. \A e \in Range(alsEntries') : e \in LogEntry
            BY <1>7 DEF AlsTyped, Range
          <6>2. QED BY <6>1 DEF LogEntry
        <5>3. QED BY <5>1, <5>2 DEF DisturbedIds
      <4>3. IsPrefix(id, Append(p, x))
        BY <1>3, <4>1, <4>2, HashPrefixes
      <4>4. QED BY <1>4, <2>1, <4>3 DEF CleanChain
    <3>4. NoneBeyond(p)
      BY <1>14, <3>2, <3>3
    <3>5. \A i \in Alone' : ~IsPrefix(Append(p, x), alsEntries'[i].parent)
      BY <1>1, <1>5, <1>11, <1>15, <3>4 DEF NoneBeyond
    <3>6. \A v \in PendingAlone' : ~IsPrefix(Append(p, x), alsCall'[v].parent)
      BY <1>2, <1>3, <1>5, <1>12
    <3>7. QED BY <1>4, <3>5, <3>6 DEF NoneBeyond
  <2>2. Reading' = {}
    BY <1>1, <1>2 DEF Reading, OthersDisturbed, OthersGoOn
  <2>3. QED BY <2>1, <2>2 DEF Frontier
<1>18. QED BY <1>7, <1>13, <1>16, <1>17 DEF ChainInv

LEMMA DeniedKeepsChain ==
    ASSUME ChainInv, NEW w \in Writers, WriteDenied(w)
    PROVE  ChainInv'
<1>1. /\ alsCall[w].at = "read" /\ alsFile' = alsFile /\ alsEntries' = alsEntries
      /\ alsCall' = [alsCall EXCEPT ![w] = [alsCall[w] EXCEPT !.at = "appending", !.disturbed = TRUE]]
  BY DEF WriteDenied
<1>2. /\ alsCall \in [Writers -> AlsCalls] /\ (\A v \in Writers : CallTyped(alsCall[v]))
      /\ alsFile \in Hashes /\ alsEntries \in Seq(LogEntry)
  BY DEF ChainInv, AlsTyped
<1>3. \A v \in Writers \ {w} : alsCall'[v] = alsCall[v]
  BY <1>1, <1>2
<1>4. alsCall'[w] = [alsCall[w] EXCEPT !.at = "appending", !.disturbed = TRUE]
  BY <1>1, <1>2
<1>5. /\ alsCall'[w] \in AlsCalls /\ alsCall'[w].at = "appending" /\ alsCall'[w].disturbed = TRUE
      /\ alsCall'[w].parent = alsCall[w].parent /\ alsCall'[w].payload = alsCall[w].payload
  <2>1. alsCall[w] \in AlsCalls
    BY <1>2
  <2>2. QED BY <1>4, <2>1 DEF AlsCalls, CallStates
<1>6. CallTyped(alsCall'[w])
  BY <1>1, <1>2, <1>5 DEF CallTyped, CallStates
<1>7. alsCall' \in [Writers -> AlsCalls]
  BY <1>1, <1>2, <1>4, <1>5
<1>8. AlsTyped'
  BY <1>1, <1>2, <1>3, <1>6, <1>7 DEF AlsTyped
<1>9. OthersGoOn(w)
  BY <1>3 DEF OthersGoOn
<1>10. \A v \in Writers : alsCall'[v].disturbed \in BOOLEAN
  BY <1>8 DEF AlsTyped, CallTyped
<1>11. alsCall[w].at # "appending" /\ w \notin PendingAlone'
  BY <1>1, <1>5 DEF PendingAlone
<1>12. DisturbedIds \subseteq DisturbedIds' /\ Computed \subseteq Computed'
  BY <1>1, <1>9, <1>10, <1>11, IdsStay DEF ChainInv
<1>13. OwnParents' /\ \A s : NoneBeyond(s) => NoneBeyond(s)'
  BY <1>1, <1>9, <1>10, <1>11, NobodyJoins DEF ChainInv
<1>14. ParentsComputed'
  <2>1. ASSUME NEW v \in Calls' PROVE alsCall'[v].parent \in Computed
    <3>1. v \in Calls /\ alsCall'[v].parent = alsCall[v].parent
      BY <1>1, <1>3, <1>5 DEF Calls
    <3>2. QED BY <3>1 DEF ChainInv, ParentsComputed
  <2>2. QED BY <1>1, <1>12, <2>1 DEF ChainInv, ParentsComputed
<1>15. Frontier'
  <2>1. ASSUME (\A v \in Writers : alsCall[v].at # "writing")', CleanChain(alsFile)'
        PROVE  NoneBeyond(alsFile)'
    <3>1. \A v \in Writers : alsCall[v].at # "writing"
      BY <1>1, <1>3, <2>1
    <3>2. CleanChain(alsFile)
      BY <1>1, <2>1, <1>12 DEF CleanChain
    <3>3. NoneBeyond(alsFile)
      BY <3>1, <3>2 DEF ChainInv, Frontier
    <3>4. QED BY <1>1, <1>13, <3>3 DEF NoneBeyond
  <2>2. ASSUME NEW v \in Reading', CleanChain(alsCall[v].parent)'
        PROVE  NoneBeyond(alsCall[v].parent)'
    <3>1. v \in Reading /\ alsCall'[v] = alsCall[v]
      BY <1>3, <1>5, <2>2 DEF Reading
    <3>2. CleanChain(alsCall[v].parent)
      BY <1>12, <2>2, <3>1 DEF CleanChain
    <3>3. NoneBeyond(alsCall[v].parent)
      BY <3>1, <3>2 DEF ChainInv, Frontier
    <3>4. QED BY <1>13, <3>1, <3>3 DEF NoneBeyond
  <2>3. QED BY <2>1, <2>2 DEF Frontier
<1>16. QED BY <1>8, <1>13, <1>14, <1>15 DEF ChainInv

LEMMA AppendKeepsChain ==
    ASSUME ChainInv, NEW w \in Writers, AppendEntry(w)
    PROVE  ChainInv'
<1> DEFINE e == [id |-> TraceId(alsCall[w].parent, alsCall[w].payload), parent |-> alsCall[w].parent,
                 disturbed |-> alsCall[w].disturbed]
<1>1. /\ alsCall[w].at = "appending" /\ alsFile' = alsFile /\ alsEntries' = Append(alsEntries, e)
      /\ alsCall' = [alsCall EXCEPT ![w] = Idle]
  BY DEF AppendEntry
<1>2. /\ alsCall \in [Writers -> AlsCalls] /\ (\A v \in Writers : CallTyped(alsCall[v]))
      /\ alsFile \in Hashes /\ alsEntries \in Seq(LogEntry)
  BY DEF ChainInv, AlsTyped
<1>3. e.id = PendingId(w) /\ e.parent = alsCall[w].parent /\ e.disturbed = alsCall[w].disturbed
  BY DEF PendingId
<1>4. e \in LogEntry
  <2>1. alsCall[w].parent \in Hashes /\ alsCall[w].payload \in Payloads /\ alsCall[w].disturbed \in BOOLEAN
    BY <1>1, <1>2 DEF CallTyped
  <2>2. Append(alsCall[w].parent, alsCall[w].payload) \in Hashes
    BY <2>1 DEF Hashes
  <2>3. QED BY <2>1, <2>2 DEF LogEntry, TraceId
<1> HIDE DEF e
<1>5. alsCall'[w] = Idle /\ \A v \in Writers \ {w} : alsCall'[v] = alsCall[v]
  BY <1>1, <1>2
<1>6. Idle \in AlsCalls /\ CallTyped(Idle) /\ Idle.at = "idle"
  BY DEF Idle, AlsCalls, CallTyped, CallStates, Hashes, Seed
<1>7. PICK n \in Nat : n = Len(alsEntries)
  BY <1>2
<1>8. /\ alsEntries' \in Seq(LogEntry) /\ Len(alsEntries') = n + 1 /\ alsEntries'[n + 1] = e
      /\ \A i \in 1 .. n : alsEntries'[i] = alsEntries[i]
  <2>1. /\ Append(alsEntries, e) \in Seq(LogEntry) /\ Len(Append(alsEntries, e)) = Len(alsEntries) + 1
        /\ \A i \in 1 .. Len(alsEntries) : Append(alsEntries, e)[i] = alsEntries[i]
        /\ Append(alsEntries, e)[Len(alsEntries) + 1] = e
    BY <1>2, <1>4, AppendProperties
  <2>2. QED BY <1>1, <1>7, <2>1
<1>9. DOMAIN alsEntries = 1 .. n /\ DOMAIN alsEntries' = 1 .. n + 1
  BY <1>2, <1>7, <1>8
<1>10. Range(alsEntries') = Range(alsEntries) \cup {e}
  <2>1. ASSUME NEW f \in Range(alsEntries') PROVE f \in Range(alsEntries) \cup {e}
    <3>1. PICK i \in 1 .. n + 1 : f = alsEntries'[i]
      BY <1>9 DEF Range
    <3>2. i \in 1 .. n \/ i = n + 1
      OBVIOUS
    <3>3. QED BY <1>8, <1>9, <3>1, <3>2 DEF Range
  <2>2. ASSUME NEW f \in Range(alsEntries) PROVE f \in Range(alsEntries')
    <3>1. PICK i \in 1 .. n : f = alsEntries[i]
      BY <1>9 DEF Range
    <3>2. i \in 1 .. n + 1
      OBVIOUS
    <3>3. QED BY <1>8, <1>9, <3>1, <3>2 DEF Range
  <2>3. e \in Range(alsEntries')
    <3>1. n + 1 \in 1 .. n + 1
      OBVIOUS
    <3>2. QED BY <1>8, <1>9, <3>1 DEF Range
  <2>4. QED BY <2>1, <2>2, <2>3
<1>11. AlsTyped'
  <2>1. alsCall' \in [Writers -> AlsCalls]
    BY <1>1, <1>2, <1>6
  <2>2. QED BY <1>1, <1>2, <1>5, <1>6, <1>8, <2>1 DEF AlsTyped
<1>12. Pending' = Pending \ {w} /\ w \in Pending /\ \A v \in Pending' : (PendingId(v))' = PendingId(v)
  BY <1>1, <1>5, <1>6 DEF Pending, PendingId
<1>13. DisturbedIds' = DisturbedIds
  <2>1. ASSUME NEW id \in DisturbedIds' PROVE id \in DisturbedIds
    <3>1. CASE \E f \in Range(alsEntries') : f.disturbed /\ id = f.id
      <4>1. PICK f \in Range(alsEntries') : f.disturbed /\ id = f.id
        BY <3>1
      <4>2. CASE f \in Range(alsEntries)
        BY <4>1, <4>2 DEF DisturbedIds
      <4>3. CASE f = e
        BY <1>3, <1>12, <4>1, <4>3 DEF DisturbedIds
      <4>4. QED BY <1>10, <4>2, <4>3
    <3>2. CASE \E v \in Pending' : alsCall'[v].disturbed /\ id = (PendingId(v))'
      <4>1. PICK v \in Pending' : alsCall'[v].disturbed /\ id = (PendingId(v))'
        BY <3>2
      <4>2. v \in Pending /\ alsCall[v].disturbed /\ id = PendingId(v)
        BY <1>5, <1>12, <4>1 DEF Pending
      <4>3. QED BY <4>2 DEF DisturbedIds
    <3>3. QED BY <3>1, <3>2 DEF DisturbedIds
  <2>2. ASSUME NEW id \in DisturbedIds PROVE id \in DisturbedIds'
    <3>1. CASE \E f \in Range(alsEntries) : f.disturbed /\ id = f.id
      BY <1>10, <3>1 DEF DisturbedIds
    <3>2. CASE \E v \in Pending : alsCall[v].disturbed /\ id = PendingId(v)
      <4>1. PICK v \in Pending : alsCall[v].disturbed /\ id = PendingId(v)
        BY <3>2
      <4>2. CASE v = w
        <5>1. e \in Range(alsEntries') /\ e.disturbed /\ id = e.id
          BY <1>3, <1>10, <4>1, <4>2
        <5>2. QED BY <5>1 DEF DisturbedIds
      <4>3. CASE v # w
        <5>1. v \in Pending' /\ alsCall'[v].disturbed /\ id = (PendingId(v))'
          BY <1>5, <1>12, <4>1, <4>3 DEF Pending
        <5>2. QED BY <5>1 DEF DisturbedIds
      <4>4. QED BY <4>2, <4>3
    <3>3. QED BY <3>1, <3>2 DEF DisturbedIds
  <2>3. QED BY <2>1, <2>2
<1>14. \A s : CleanChain(s)' <=> CleanChain(s)
  BY <1>13 DEF CleanChain
<1>15. Computed \subseteq Computed'
  <2>1. ASSUME NEW h \in Computed PROVE h \in Computed'
    <3>1. CASE h = Seed \/ \E f \in Range(alsEntries) : h = f.id
      BY <1>10, <3>1 DEF Computed
    <3>2. CASE h = PendingId(w)
      BY <1>3, <1>10, <3>2 DEF Computed
    <3>3. CASE \E v \in Pending \ {w} : h = PendingId(v)
      BY <1>12, <3>3 DEF Computed
    <3>4. QED BY <3>1, <3>2, <3>3 DEF Computed
  <2>2. QED BY <2>1
<1>16. ParentsComputed'
  <2>1. e.parent \in Computed
    BY <1>1, <1>3 DEF ChainInv, ParentsComputed, Calls
  <2>2. \A f \in Range(alsEntries') : f.parent \in Computed
    BY <1>10, <2>1 DEF ChainInv, ParentsComputed
  <2>3. ASSUME NEW v \in Calls' PROVE alsCall'[v].parent \in Computed
    <3>1. v \in Calls /\ alsCall'[v] = alsCall[v]
      BY <1>5, <1>6 DEF Calls
    <3>2. QED BY <3>1 DEF ChainInv, ParentsComputed
  <2>4. QED BY <1>1, <1>15, <2>2, <2>3 DEF ChainInv, ParentsComputed
\* The new entry ran alone exactly if its call, which no longer waits, did.
<1>17. \A i \in Alone' : (i \in Alone /\ alsEntries'[i] = alsEntries[i])
                           \/ (i = n + 1 /\ w \in PendingAlone /\ alsEntries'[i].parent = alsCall[w].parent)
  <2>1. SUFFICES ASSUME NEW i \in Alone'
                 PROVE  (i \in Alone /\ alsEntries'[i] = alsEntries[i])
                           \/ (i = n + 1 /\ w \in PendingAlone /\ alsEntries'[i].parent = alsCall[w].parent)
    OBVIOUS
  <2>2. i \in 1 .. n + 1 /\ ~alsEntries'[i].disturbed
    BY <1>9 DEF Alone
  <2>3. CASE i \in 1 .. n
    BY <1>8, <1>9, <2>2, <2>3 DEF Alone
  <2>4. CASE i = n + 1
    BY <1>3, <1>8, <1>12, <2>2, <2>4 DEF PendingAlone
  <2>5. QED BY <2>2, <2>3, <2>4
<1>18. \A v \in PendingAlone' : v \in PendingAlone /\ v # w /\ alsCall'[v] = alsCall[v]
  BY <1>5, <1>6 DEF PendingAlone, Pending
<1>19. \A s : NoneBeyond(s) => NoneBeyond(s)'
  BY <1>17, <1>18 DEF NoneBeyond
<1>20. Frontier'
  <2>1. ASSUME (\A v \in Writers : alsCall[v].at # "writing")', CleanChain(alsFile)'
        PROVE  NoneBeyond(alsFile)'
    <3>1. \A v \in Writers : alsCall[v].at # "writing"
      BY <1>1, <1>5, <2>1
    <3>2. CleanChain(alsFile)
      BY <1>1, <2>1, <1>13 DEF CleanChain
    <3>3. NoneBeyond(alsFile)
      BY <3>1, <3>2 DEF ChainInv, Frontier
    <3>4. QED BY <1>1, <1>19, <3>3 DEF NoneBeyond
  <2>2. ASSUME NEW v \in Reading', CleanChain(alsCall[v].parent)'
        PROVE  NoneBeyond(alsCall[v].parent)'
    <3>1. v \in Reading /\ alsCall'[v] = alsCall[v]
      BY <1>5, <1>6, <2>2 DEF Reading
    <3>2. CleanChain(alsCall[v].parent)
      BY <1>13, <2>2, <3>1 DEF CleanChain
    <3>3. NoneBeyond(alsCall[v].parent)
      BY <3>1, <3>2 DEF ChainInv, Frontier
    <3>4. QED BY <1>19, <3>1, <3>3 DEF NoneBeyond
  <2>3. QED BY <2>1, <2>2 DEF Frontier
<1>21. OwnParents'
  <2>1. ASSUME NEW i \in Alone', NEW j \in Alone', i # j, CleanChain(alsEntries'[i].parent),
               alsEntries'[i].parent = alsEntries'[j].parent
        PROVE  FALSE
    <3>1. CASE i \in Alone /\ j \in Alone
      <4>1. alsEntries'[i] = alsEntries[i] /\ alsEntries'[j] = alsEntries[j]
        BY <1>8, <1>9, <3>1 DEF Alone
      <4>2. QED BY <2>1, <3>1, <4>1 DEF ChainInv, OwnParents
    <3>2. CASE i \in Alone /\ j = n + 1
      <4>1. alsEntries'[i] = alsEntries[i]
        BY <1>8, <1>9, <3>2 DEF Alone
      <4>2. n + 1 \notin Alone
        BY <1>9 DEF Alone
      <4>3. w \in PendingAlone /\ alsEntries'[j].parent = alsCall[w].parent
        BY <1>17, <3>2, <4>2, <2>1
      <4>4. QED BY <2>1, <3>2, <4>1, <4>3 DEF ChainInv, OwnParents
    <3>3. CASE i = n + 1 /\ j \in Alone
      <4>1. alsEntries'[j] = alsEntries[j]
        BY <1>8, <1>9, <3>3 DEF Alone
      <4>2. n + 1 \notin Alone
        BY <1>9 DEF Alone
      <4>3. w \in PendingAlone /\ alsEntries'[i].parent = alsCall[w].parent
        BY <1>17, <3>3, <4>2, <2>1
      <4>4. CleanChain(alsEntries[j].parent)
        BY <2>1, <4>1
      <4>5. QED BY <2>1, <3>3, <4>1, <4>3, <4>4 DEF ChainInv, OwnParents
    <3>4. (i \in Alone \/ i = n + 1) /\ (j \in Alone \/ j = n + 1)
      BY <1>17
    <3>5. QED BY <2>1, <3>1, <3>2, <3>3, <3>4
  <2>2. ASSUME NEW i \in Alone', NEW v \in PendingAlone', CleanChain(alsEntries'[i].parent)
        PROVE  alsEntries'[i].parent # alsCall'[v].parent
    <3>1. v \in PendingAlone /\ v # w /\ alsCall'[v] = alsCall[v]
      BY <1>18
    <3>2. i \in Alone /\ alsEntries'[i] = alsEntries[i]
      BY <1>17, <3>1 DEF ChainInv, OwnParents
    <3>3. QED BY <2>2, <3>1, <3>2 DEF ChainInv, OwnParents
  <2>3. \A u, v \in PendingAlone' : u = v
    BY <1>18 DEF ChainInv, OwnParents
  <2>4. \A i \in Alone' : CleanChain(alsEntries[i].parent)' => CleanChain(alsEntries'[i].parent)
    BY <1>13 DEF CleanChain
  <2>5. QED BY <2>1, <2>2, <2>3, <2>4 DEF OwnParents
<1>22. QED BY <1>11, <1>16, <1>20, <1>21 DEF ChainInv

LEMMA AlsNextKeepsChain ==
    ASSUME ChainInv, [AlsNext]_alsVars
    PROVE  ChainInv'
<1>1. CASE AlsNext
  <2>1. PICK w \in Writers :
          \/ \E payload \in Payloads, denied \in BOOLEAN : ReadLastHash(w, payload, denied)
          \/ Truncate(w) \/ Fill(w) \/ WriteDenied(w) \/ AppendEntry(w)
    BY <1>1 DEF AlsNext
  <2>2. QED BY <2>1, ReadKeepsChain, TruncateKeepsChain, FillKeepsChain, DeniedKeepsChain, AppendKeepsChain
<1>2. CASE UNCHANGED alsVars
  BY <1>2 DEF alsVars, ChainInv, AlsTyped, ParentsComputed, Computed, Calls, Frontier, OwnParents, Reading,
              Pending, PendingId, PendingAlone, Alone, CleanChain, NoneBeyond, DisturbedIds
<1>3. QED BY <1>1, <1>2

\* A fork of two calls that ran alone would be two that have a parent of their own.
LEMMA ChainIsWhole ==
    ASSUME ChainInv
    PROVE  ForksAreExplained /\ NoDanglingParent
<1>1. ForksAreExplained
  <2>1. SUFFICES ASSUME NEW i \in DOMAIN alsEntries, NEW j \in DOMAIN alsEntries, i # j,
                        alsEntries[i].parent = alsEntries[j].parent,
                        ~alsEntries[i].disturbed, ~alsEntries[j].disturbed
                 PROVE  \E id \in DisturbedIds : IsPrefix(id, alsEntries[i].parent)
    BY DEF ForksAreExplained
  <2>2. i \in Alone /\ j \in Alone
    BY <2>1 DEF Alone
  <2>3. ~CleanChain(alsEntries[i].parent)
    BY <2>1, <2>2 DEF ChainInv, OwnParents
  <2>4. QED BY <2>3 DEF CleanChain
<1>2. NoDanglingParent
  BY DEF NoDanglingParent, ChainInv, ParentsComputed, Computed
<1>3. QED BY <1>1, <1>2

-----------------------------------------------------------------------------
(* The ledger. *)

RuleFields == {"enforcement", "active", "version"}
RulesTyped(rules) == \A q \in DOMAIN rules : DOMAIN rules[q] = RuleFields
LedgerActions == {"created", "disabled", "enabled", "proposed", "approved", "rejected"}
TrailEntry == [action : LedgerActions, rule : RuleIds]
Proposals == [rule : RuleIds, action : {"update", "disable", "delete", "create"}, changes : LedgerChanges,
              status : {"pending", "approved", "rejected"}, raised : BOOLEAN]
LedgerTyped ==
  /\ ldProposals \in Seq(Proposals) /\ ldAudit \in Seq(TrailEntry)
  /\ RulesTyped(ldRules) /\ (ldFile # <<>> => RulesTyped(ldFile[1]))

\* The approved proposals for a rule that did not raise.
ApprovedOf(r) == {i \in DOMAIN ldProposals : /\ ldProposals[i].rule = r /\ ldProposals[i].status = "approved"
                                             /\ ~ldProposals[i].raised}
ApprovedEntry(r) == [action |-> "approved", rule |-> r]

\* What waits has not been tried.
LedgerInv ==
  /\ LedgerTyped /\ ApprovalsAreAudited
  /\ \A i \in DOMAIN ldProposals : ldProposals[i].status = "pending" => ~ldProposals[i].raised

\* The two halves of NoSilentChange.
RuleChanges(r) ==
  (r \in DOMAIN ldRules) # (r \in DOMAIN ldRules') \/ (r \in DOMAIN ldRules /\ ldRules[r] # ldRules'[r])
ChangeIsTold(r) ==
  \/ LoadLedger
  \/ Len(ldAudit') > Len(ldAudit) /\ Last(ldAudit').rule = r
  \/ \E i \in DOMAIN ldProposals :
       /\ ldProposals[i].rule = r /\ RaisedHalfWay(ldProposals[i], ldProposals'[i])
       /\ r \in DOMAIN ldRules'
       /\ \/ ldRules'[r].version = ldRules[r].version
          \/ Made(ldProposals[i].changes, "version") # {}

-----------------------------------------------------------------------------
\* One more entry in the trail, about r.
LEMMA TrailGrows ==
    ASSUME LedgerTyped, NEW what \in LedgerActions, NEW r \in RuleIds, Audited(what, r)
    PROVE  /\ ldAudit' \in Seq(TrailEntry) /\ Len(ldAudit') > Len(ldAudit) /\ Last(ldAudit').rule = r
           /\ \A q \in RuleIds :
                Cardinality(PlacesOf(ldAudit', ApprovedEntry(q)))
                  = Cardinality(PlacesOf(ldAudit, ApprovedEntry(q))) + (IF what = "approved" /\ q = r THEN 1 ELSE 0)
<1> DEFINE e == [action |-> what, rule |-> r]
<1>1. e \in TrailEntry /\ ldAudit' = Append(ldAudit, e) /\ ldAudit \in Seq(TrailEntry) /\ e.rule = r
  BY DEF TrailEntry, Audited, LedgerTyped
<1>2. \A q \in RuleIds : e = ApprovedEntry(q) <=> what = "approved" /\ q = r
  BY DEF ApprovedEntry
<1> HIDE DEF e
<1>3. /\ Append(ldAudit, e) \in Seq(TrailEntry) /\ Len(Append(ldAudit, e)) = Len(ldAudit) + 1
      /\ Append(ldAudit, e)[Len(ldAudit) + 1] = e /\ Len(ldAudit) \in Nat
  BY <1>1, AppendProperties
<1>4. Last(ldAudit') = e /\ Len(ldAudit') > Len(ldAudit)
  BY <1>1, <1>3 DEF Last
<1>5. ASSUME NEW q \in RuleIds
      PROVE  Cardinality(PlacesOf(ldAudit', ApprovedEntry(q)))
               = Cardinality(PlacesOf(ldAudit, ApprovedEntry(q))) + (IF what = "approved" /\ q = r THEN 1 ELSE 0)
  <2>1. Cardinality(PlacesOf(Append(ldAudit, e), ApprovedEntry(q)))
          = Cardinality(PlacesOf(ldAudit, ApprovedEntry(q))) + (IF e = ApprovedEntry(q) THEN 1 ELSE 0)
    BY <1>1, PlacesGrow
  <2>2. QED BY <1>1, <1>2, <2>1
<1>6. QED BY <1>1, <1>3, <1>4, <1>5

\* So a step that changes no approval keeps the balance.
LEMMA BalanceStays ==
    ASSUME LedgerInv, NEW what \in LedgerActions \ {"approved"}, NEW r \in RuleIds, Audited(what, r),
           \A q \in RuleIds : ApprovedOf(q)' = ApprovedOf(q)
    PROVE  ldAudit' \in Seq(TrailEntry) /\ ApprovalsAreAudited'
<1>1. ldAudit \in Seq(TrailEntry)
  BY DEF LedgerInv, LedgerTyped
<1>2. /\ ldAudit' \in Seq(TrailEntry)
      /\ \A q \in RuleIds :
           Cardinality(PlacesOf(ldAudit', ApprovedEntry(q))) = Cardinality(PlacesOf(ldAudit, ApprovedEntry(q))) + 0
  BY TrailGrows DEF LedgerInv
<1>3. ASSUME NEW q \in RuleIds PROVE (Cardinality(ApprovedOf(q)))' = Cardinality(PlacesOf(ldAudit', ApprovedEntry(q)))
  <2>1. Cardinality(ApprovedOf(q)) = Cardinality(PlacesOf(ldAudit, ApprovedEntry(q)))
    BY DEF LedgerInv, ApprovalsAreAudited, ApprovedOf, PlacesOf, ApprovedEntry
  <2>2. Cardinality(PlacesOf(ldAudit, ApprovedEntry(q))) \in Nat
    <3>1. ApprovedEntry(q) \in TrailEntry
      BY DEF ApprovedEntry, TrailEntry, LedgerActions
    <3>2. QED BY <1>1, <3>1, PlacesGrow
  <2>3. QED BY <1>2, <2>1, <2>2
<1>4. QED BY <1>2, <1>3 DEF ApprovalsAreAudited, ApprovedOf, PlacesOf, ApprovedEntry

LEMMA PutFacts ==
    ASSUME NEW q, NEW rule, ldRules' = Put(q, rule)
    PROVE  /\ DOMAIN ldRules' = DOMAIN ldRules \cup {q} /\ ldRules'[q] = rule
           /\ \A r : RuleChanges(r) => r = q
           /\ RulesTyped(ldRules) /\ DOMAIN rule = RuleFields => RulesTyped(ldRules')
<1>1. DOMAIN ldRules' = DOMAIN ldRules \cup {q}
  BY DEF Put
<1>2. \A r \in DOMAIN ldRules' : ldRules'[r] = IF r = q THEN rule ELSE ldRules[r]
  BY DEF Put
<1>3. QED BY <1>1, <1>2 DEF RuleChanges, RulesTyped

\* A rule that is put and told of: add_rule, disable_rule, enable_rule.
LEMMA ToldPut ==
    ASSUME LedgerInv, NEW r \in RuleIds, NEW what \in LedgerActions \ {"approved"}, Audited(what, r),
           UNCHANGED <<ldProposals, ldFile>>, NEW rule, DOMAIN rule = RuleFields, ldRules' = Put(r, rule)
    PROVE  LedgerInv' /\ \A q \in RuleIds : RuleChanges(q) => ChangeIsTold(q)
<1>1. \A q \in RuleIds : ApprovedOf(q)' = ApprovedOf(q)
  BY DEF ApprovedOf
<1>2. ldAudit' \in Seq(TrailEntry) /\ ApprovalsAreAudited'
  BY <1>1, BalanceStays
<1>3. (\A q : RuleChanges(q) => q = r) /\ RulesTyped(ldRules')
  BY PutFacts DEF LedgerInv, LedgerTyped
<1>4. LedgerInv'
  BY <1>2, <1>3 DEF LedgerInv, LedgerTyped
<1>5. Len(ldAudit') > Len(ldAudit) /\ Last(ldAudit').rule = r
  BY TrailGrows DEF LedgerInv
<1>6. QED BY <1>3, <1>4, <1>5 DEF ChangeIsTold

LEMMA RuleStep ==
    ASSUME LedgerInv, NEW r \in RuleIds,
           (\E m \in {"block", "warn"} : AddRule(r, m)) \/ DisableRule(r) \/ EnableRule(r)
    PROVE  LedgerInv' /\ \A q \in RuleIds : RuleChanges(q) => ChangeIsTold(q)
<1>1. ASSUME NEW m \in {"block", "warn"}, AddRule(r, m)
      PROVE  LedgerInv' /\ \A q \in RuleIds : RuleChanges(q) => ChangeIsTold(q)
  <2>1. DOMAIN [enforcement |-> m, active |-> TRUE, version |-> 1] = RuleFields
    BY DEF RuleFields
  <2>2. "created" \in LedgerActions \ {"approved"}
    BY DEF LedgerActions
  <2>3. QED BY <1>1, <2>1, <2>2, ToldPut DEF AddRule
<1>2. CASE DisableRule(r)
  <2>1. DOMAIN Disabled(ldRules[r]) = RuleFields
    BY <1>2 DEF DisableRule, Disabled, LedgerInv, LedgerTyped, RulesTyped
  <2>2. "disabled" \in LedgerActions \ {"approved"}
    BY DEF LedgerActions
  <2>3. QED BY <1>2, <2>1, <2>2, ToldPut DEF DisableRule
<1>3. CASE EnableRule(r)
  <2>1. DOMAIN [ldRules[r] EXCEPT !.active = TRUE, !.enforcement = "block"] = RuleFields
    BY <1>3 DEF EnableRule, LedgerInv, LedgerTyped, RulesTyped
  <2>2. "enabled" \in LedgerActions \ {"approved"}
    BY DEF LedgerActions
  <2>3. QED BY <1>3, <2>1, <2>2, ToldPut DEF EnableRule
<1>4. QED BY <1>1, <1>2, <1>3

LEMMA ProposeStep ==
    ASSUME LedgerInv, NEW r \in RuleIds, NEW a \in {"update", "disable", "delete", "create"},
           NEW c \in LedgerChanges, Propose(r, a, c)
    PROVE  LedgerInv' /\ ldRules' = ldRules
<1> DEFINE p == [rule |-> r, action |-> a, changes |-> c, status |-> "pending", raised |-> FALSE]
<1>1. /\ ldProposals' = Append(ldProposals, p) /\ Audited("proposed", r) /\ UNCHANGED <<ldRules, ldFile>>
      /\ ldProposals \in Seq(Proposals) /\ p \in Proposals /\ p.status = "pending" /\ p.raised = FALSE
  BY DEF Propose, LedgerInv, LedgerTyped, Proposals
<1> HIDE DEF p
<1>2. PICK n \in Nat : n = Len(ldProposals) /\ DOMAIN ldProposals = 1 .. n
  BY <1>1
<1>3. /\ ldProposals' \in Seq(Proposals) /\ DOMAIN ldProposals' = 1 .. n + 1 /\ ldProposals'[n + 1] = p
      /\ \A i \in 1 .. n : ldProposals'[i] = ldProposals[i]
  <2>1. /\ Append(ldProposals, p) \in Seq(Proposals) /\ Len(Append(ldProposals, p)) = Len(ldProposals) + 1
        /\ (\A i \in 1 .. Len(ldProposals) : Append(ldProposals, p)[i] = ldProposals[i])
        /\ Append(ldProposals, p)[Len(ldProposals) + 1] = p
    BY <1>1, AppendProperties
  <2>2. DOMAIN Append(ldProposals, p) = 1 .. n + 1
    BY <1>2, <2>1
  <2>3. QED BY <1>1, <1>2, <2>1, <2>2
<1>4. \A q \in RuleIds : ApprovedOf(q)' = ApprovedOf(q)
  BY <1>1, <1>2, <1>3 DEF ApprovedOf
<1>5. "proposed" \in LedgerActions \ {"approved"}
  BY DEF LedgerActions
<1>6. ldAudit' \in Seq(TrailEntry) /\ ApprovalsAreAudited'
  BY <1>1, <1>4, <1>5, BalanceStays
<1>7. ASSUME NEW i \in DOMAIN ldProposals', ldProposals'[i].status = "pending" PROVE ~ldProposals'[i].raised
  <2>1. i = n + 1 \/ i \in DOMAIN ldProposals
    BY <1>2, <1>3
  <2>2. QED BY <1>1, <1>2, <1>3, <1>7, <2>1 DEF LedgerInv
<1>8. QED BY <1>1, <1>3, <1>6, <1>7 DEF LedgerInv, LedgerTyped

\* An approval that does not raise ends with its entry; a disabling makes one before it.
LEMMA ApprovalGrows ==
    ASSUME LedgerTyped, NEW p \in Proposals, ~Raises(p), ldAudit' = ldAudit \o Approval(p)
    PROVE  /\ ldAudit' \in Seq(TrailEntry) /\ Len(ldAudit') > Len(ldAudit) /\ Last(ldAudit').rule = p.rule
           /\ \A q \in RuleIds :
                Cardinality(PlacesOf(ldAudit', ApprovedEntry(q)))
                  = Cardinality(PlacesOf(ldAudit, ApprovedEntry(q))) + (IF q = p.rule THEN 1 ELSE 0)
<1> DEFINE d == [action |-> "disabled", rule |-> p.rule]
           a == [action |-> "approved", rule |-> p.rule]
<1>1. ldAudit \in Seq(TrailEntry) /\ p.rule \in RuleIds
  BY DEF LedgerTyped, Proposals
<1>2. d \in TrailEntry /\ a \in TrailEntry /\ a.rule = p.rule
  BY <1>1 DEF TrailEntry, LedgerActions
<1>3. \A q \in RuleIds : d # ApprovedEntry(q) /\ (a = ApprovedEntry(q) <=> q = p.rule)
  BY DEF ApprovedEntry
<1>4. Approval(p) = (IF p.action = "disable" THEN <<d>> ELSE <<>>) \o <<a>>
  BY DEF Approval
<1> HIDE DEF d, a
<1>5. <<d>> \in Seq(TrailEntry) /\ <<a>> \in Seq(TrailEntry) /\ <<>> \in Seq(TrailEntry)
  BY <1>2
<1>6. PICK m \in Seq(TrailEntry) : m = IF p.action = "disable" THEN Append(ldAudit, d) ELSE ldAudit
  <2>1. Append(ldAudit, d) \in Seq(TrailEntry)
    BY <1>1, <1>2, AppendProperties
  <2>2. QED BY <1>1, <2>1
<1>7. ldAudit' = Append(m, a)
  <2>1. CASE p.action = "disable"
    <3>1. m = ldAudit \o <<d>>
      BY <1>1, <1>2, <1>6, <2>1, AppendIsConcat
    <3>2. Append(m, a) = m \o <<a>>
      BY <1>2, <1>6, AppendIsConcat
    <3>3. (ldAudit \o <<d>>) \o <<a>> = ldAudit \o (<<d>> \o <<a>>)
      BY <1>1, <1>5, ConcatAssociative
    <3>4. QED BY <1>4, <2>1, <3>1, <3>2, <3>3
  <2>2. CASE p.action # "disable"
    <3>1. <<>> \o <<a>> = <<a>>
      BY <1>5, ConcatEmptySeq
    <3>2. Append(m, a) = ldAudit \o <<a>>
      BY <1>2, <1>6, <2>2, AppendIsConcat
    <3>3. QED BY <1>4, <2>2, <3>1, <3>2
  <2>3. QED BY <2>1, <2>2
<1>8. Len(m) \in Nat /\ Len(ldAudit) \in Nat /\ Len(m) >= Len(ldAudit)
  <2>1. Len(Append(ldAudit, d)) = Len(ldAudit) + 1
    BY <1>1, <1>2, AppendProperties
  <2>2. QED BY <1>1, <1>6, <2>1
<1>9. /\ Append(m, a) \in Seq(TrailEntry) /\ Len(Append(m, a)) = Len(m) + 1 /\ Append(m, a)[Len(m) + 1] = a
  BY <1>2, <1>6, AppendProperties
<1>10. Len(ldAudit') > Len(ldAudit) /\ Last(ldAudit') = a
  BY <1>7, <1>8, <1>9 DEF Last
<1>11. ASSUME NEW q \in RuleIds
       PROVE  Cardinality(PlacesOf(ldAudit', ApprovedEntry(q)))
                = Cardinality(PlacesOf(ldAudit, ApprovedEntry(q))) + (IF q = p.rule THEN 1 ELSE 0)
  <2> DEFINE approved == ApprovedEntry(q)
  <2>1. Cardinality(PlacesOf(Append(m, a), approved)) = Cardinality(PlacesOf(m, approved)) + (IF a = approved THEN 1 ELSE 0)
    <3> HIDE DEF approved
    <3>1. m \in Seq(TrailEntry) /\ a \in TrailEntry
      BY <1>2, <1>6
    <3>2. QED BY <3>1, PlacesGrow
  <2>2. /\ Cardinality(PlacesOf(ldAudit, ApprovedEntry(q))) \in Nat
        /\ Cardinality(PlacesOf(Append(ldAudit, d), ApprovedEntry(q)))
             = Cardinality(PlacesOf(ldAudit, ApprovedEntry(q))) + (IF d = ApprovedEntry(q) THEN 1 ELSE 0)
    BY <1>1, <1>2, PlacesGrow
  <2>3. Cardinality(PlacesOf(m, ApprovedEntry(q))) = Cardinality(PlacesOf(ldAudit, ApprovedEntry(q)))
    BY <1>3, <1>6, <2>2
  <2>4. QED BY <1>3, <1>7, <2>1, <2>3
<1>12. QED BY <1>2, <1>7, <1>9, <1>10, <1>11

\* One proposal gets a status: the approved ones of the other rules stay.
LEMMA StatusSet ==
    ASSUME LedgerInv, NEW i \in DOMAIN ldProposals, ldProposals[i].status = "pending",
           NEW s \in {"approved", "rejected"}, NEW b \in BOOLEAN,
           ldProposals' = [ldProposals EXCEPT ![i] = [ldProposals[i] EXCEPT !.status = s, !.raised = b]]
    PROVE  /\ ldProposals' \in Seq(Proposals)
           /\ (\A j \in DOMAIN ldProposals : ldProposals[j].status = "pending" => ~ldProposals[j].raised)'
           /\ ldProposals'[i].raised = b
           /\ \A q \in RuleIds :
                ApprovedOf(q)' = IF q = ldProposals[i].rule /\ s = "approved" /\ ~b
                                 THEN ApprovedOf(q) \cup {i} ELSE ApprovedOf(q)
<1>1. ldProposals \in Seq(Proposals) /\ ldProposals[i] \in Proposals
  BY DEF LedgerInv, LedgerTyped
<1>2. PICK n \in Nat : n = Len(ldProposals) /\ DOMAIN ldProposals = 1 .. n
  BY <1>1
<1>3. PICK p \in Proposals : p = [ldProposals[i] EXCEPT !.status = s, !.raised = b]
  BY <1>1 DEF Proposals
<1>4. p.rule = ldProposals[i].rule /\ p.status = s /\ p.raised = b
  BY <1>1, <1>3 DEF Proposals
<1>5. ldProposals' \in Seq(Proposals) /\ DOMAIN ldProposals' = 1 .. n
  BY <1>1, <1>2, <1>3
<1>6. ldProposals'[i] = p /\ \A j \in 1 .. n : j # i => ldProposals'[j] = ldProposals[j]
  BY <1>1, <1>2, <1>3
<1>7. \A j \in 1 .. n : ldProposals'[j].status = "pending" => ~ldProposals'[j].raised
  BY <1>2, <1>4, <1>6 DEF LedgerInv
<1>8. ASSUME NEW q \in RuleIds
      PROVE  ApprovedOf(q)' = IF q = ldProposals[i].rule /\ s = "approved" /\ ~b
                              THEN ApprovedOf(q) \cup {i} ELSE ApprovedOf(q)
  <2>1. i \notin ApprovedOf(q)
    BY DEF ApprovedOf
  <2>2. \A j \in 1 .. n : j # i => (j \in ApprovedOf(q)' <=> j \in ApprovedOf(q))
    BY <1>2, <1>5, <1>6 DEF ApprovedOf
  <2>3. i \in ApprovedOf(q)' <=> q = ldProposals[i].rule /\ s = "approved" /\ ~b
    BY <1>2, <1>4, <1>5, <1>6 DEF ApprovedOf
  <2>4. ApprovedOf(q)' \subseteq 1 .. n /\ ApprovedOf(q) \subseteq 1 .. n /\ i \in 1 .. n
    BY <1>2, <1>5 DEF ApprovedOf
  <2>5. QED BY <2>1, <2>2, <2>3, <2>4
<1>9. QED BY <1>4, <1>5, <1>6, <1>7, <1>8

LEMMA RejectStep ==
    ASSUME LedgerInv, NEW i \in DOMAIN ldProposals, Reject(i)
    PROVE  LedgerInv' /\ ldRules' = ldRules
<1>1. ldProposals[i] \in Proposals
  BY DEF LedgerInv, LedgerTyped
<1>2. PICK b \in BOOLEAN, r \in RuleIds : b = ldProposals[i].raised /\ r = ldProposals[i].rule
  BY <1>1 DEF Proposals
<1>3. /\ ldProposals[i].status = "pending" /\ Audited("rejected", r) /\ UNCHANGED <<ldRules, ldFile>>
      /\ ldProposals' = [ldProposals EXCEPT ![i] = [ldProposals[i] EXCEPT !.status = "rejected"]]
  BY <1>2 DEF Reject
<1>4. [ldProposals[i] EXCEPT !.status = "rejected"] = [ldProposals[i] EXCEPT !.status = "rejected", !.raised = b]
  BY <1>1, <1>2 DEF Proposals
<1>5. /\ ldProposals' \in Seq(Proposals)
      /\ (\A j \in DOMAIN ldProposals : ldProposals[j].status = "pending" => ~ldProposals[j].raised)'
      /\ \A q \in RuleIds : ApprovedOf(q)' = ApprovedOf(q)
  BY <1>3, <1>4, StatusSet
<1>6. "rejected" \in LedgerActions \ {"approved"}
  BY DEF LedgerActions
<1>7. ldAudit' \in Seq(TrailEntry) /\ ApprovalsAreAudited'
  BY <1>3, <1>5, <1>6, BalanceStays
<1>8. QED BY <1>3, <1>5, <1>7 DEF LedgerInv, LedgerTyped

LEMMA ApproveStep ==
    ASSUME LedgerInv, NEW i \in DOMAIN ldProposals, Approve(i)
    PROVE  LedgerInv' /\ \A q \in RuleIds : RuleChanges(q) => ChangeIsTold(q)
<1>1. PICK p \in Proposals : p = ldProposals[i]
  BY DEF LedgerInv, LedgerTyped
<1>2. /\ p.status = "pending" /\ ldRules' = Applied(p) /\ ldAudit' = ldAudit \o Approval(p) /\ ldFile' = ldFile
      /\ ldProposals' = [ldProposals EXCEPT ![i] = [ldProposals[i] EXCEPT !.status = "approved", !.raised = Raises(p)]]
  BY <1>1 DEF Approve
<1>3. Raises(p) \in BOOLEAN
  BY DEF Raises
<1>4. /\ ldProposals' \in Seq(Proposals)
      /\ (\A j \in DOMAIN ldProposals : ldProposals[j].status = "pending" => ~ldProposals[j].raised)'
      /\ ldProposals'[i].raised = Raises(p)
      /\ \A q \in RuleIds :
           ApprovedOf(q)' = IF q = p.rule /\ ~Raises(p) THEN ApprovedOf(q) \cup {i} ELSE ApprovedOf(q)
  BY <1>1, <1>2, <1>3, StatusSet
<1>5. ldAudit \in Seq(TrailEntry) /\ RulesTyped(ldRules) /\ LedgerTyped
  BY DEF LedgerInv, LedgerTyped
\* Only the rule of the proposal may change.
<1>6. \/ ldRules' = ldRules
      \/ p.action = "delete" /\ ~Raises(p) /\ ldRules' = Without(p.rule)
      \/ /\ p.rule \in DOMAIN ldRules
         /\ \E rule : /\ ldRules' = Put(p.rule, rule) /\ DOMAIN rule = RuleFields
                      /\ Raises(p) => rule = Changed(ldRules[p.rule], p.changes)
  <2>1. CASE p.action = "create" \/ p.rule \notin DOMAIN ldRules
    BY <1>2, <2>1 DEF Applied
  <2>2. CASE p.action # "create" /\ p.rule \in DOMAIN ldRules
    <3>1. DOMAIN ldRules[p.rule] = RuleFields
      BY <1>5, <2>2 DEF RulesTyped
    <3>2. CASE p.action = "delete"
      BY <1>2, <2>2, <3>2 DEF Applied, Raises
    <3>3. CASE p.action = "disable"
      <4>1. ldRules' = Put(p.rule, Disabled(ldRules[p.rule])) /\ ~Raises(p)
        BY <1>2, <2>2, <3>3 DEF Applied, Raises
      <4>2. DOMAIN Disabled(ldRules[p.rule]) = RuleFields
        BY <3>1 DEF Disabled
      <4>3. QED BY <2>2, <4>1, <4>2
    <3>4. CASE p.action = "update"
      <4> DEFINE rule == Changed(ldRules[p.rule], p.changes)
                 new == IF Raises(p) THEN rule ELSE [rule EXCEPT !.version = @ + 1]
      <4>1. ldRules' = Put(p.rule, new)
        BY <1>2, <2>2, <3>4 DEF Applied
      <4>2. DOMAIN rule = RuleFields
        BY <3>1 DEF Changed
      <4>3. DOMAIN new = RuleFields
        <5> HIDE DEF rule
        <5>1. QED BY <4>2
      <4>4. Raises(p) => new = rule
        OBVIOUS
      <4>5. QED BY <2>2, <4>1, <4>3, <4>4
    <3>5. p.action \in {"update", "disable", "delete", "create"}
      BY DEF Proposals
    <3>6. QED BY <2>2, <3>2, <3>3, <3>4, <3>5
  <2>3. QED BY <2>1, <2>2
<1>7. RulesTyped(ldRules') /\ \A q : RuleChanges(q) => q = p.rule
  <2>1. CASE ldRules' = ldRules
    BY <1>5, <2>1 DEF RuleChanges
  <2>2. CASE ldRules' = Without(p.rule)
    BY <1>5, <2>2 DEF Without, RulesTyped, RuleChanges
  <2>3. ASSUME NEW rule, ldRules' = Put(p.rule, rule), DOMAIN rule = RuleFields
        PROVE  RulesTyped(ldRules') /\ \A q : RuleChanges(q) => q = p.rule
    BY <1>5, <2>3, PutFacts
  <2>4. QED BY <1>6, <2>1, <2>2, <2>3
<1>8. CASE ~Raises(p)
  <2>1. /\ ldAudit' \in Seq(TrailEntry) /\ Len(ldAudit') > Len(ldAudit) /\ Last(ldAudit').rule = p.rule
        /\ \A q \in RuleIds :
             Cardinality(PlacesOf(ldAudit', ApprovedEntry(q)))
               = Cardinality(PlacesOf(ldAudit, ApprovedEntry(q))) + (IF q = p.rule THEN 1 ELSE 0)
    BY <1>2, <1>5, <1>8, ApprovalGrows
  <2>2. ASSUME NEW q \in RuleIds
        PROVE  (Cardinality(ApprovedOf(q)))' = Cardinality(PlacesOf(ldAudit', ApprovedEntry(q)))
    <3>1. Cardinality(ApprovedOf(q)) = Cardinality(PlacesOf(ldAudit, ApprovedEntry(q)))
      BY DEF LedgerInv, ApprovalsAreAudited, ApprovedOf, PlacesOf, ApprovedEntry
    <3>2. Cardinality(PlacesOf(ldAudit, ApprovedEntry(q))) \in Nat
      <4>1. ApprovedEntry(q) \in TrailEntry
        BY DEF ApprovedEntry, TrailEntry, LedgerActions
      <4>2. QED BY <1>5, <4>1, PlacesGrow
    <3>3. IsFiniteSet(ApprovedOf(q)) /\ i \notin ApprovedOf(q)
      <4>1. ApprovedOf(q) \subseteq 1 .. Len(ldProposals) /\ Len(ldProposals) \in Nat
        BY DEF ApprovedOf, LedgerInv, LedgerTyped
      <4>2. IsFiniteSet(1 .. Len(ldProposals))
        BY <4>1, FS_Interval
      <4>3. IsFiniteSet(ApprovedOf(q))
        BY <4>1, <4>2, FS_Subset
      <4>4. QED BY <1>1, <1>2, <4>3 DEF ApprovedOf
    <3>4. Cardinality(ApprovedOf(q) \cup {i}) = Cardinality(ApprovedOf(q)) + 1
      BY <3>3, FS_AddElement
    <3>5. CASE q = p.rule
      <4>1. ApprovedOf(q)' = ApprovedOf(q) \cup {i}
        BY <1>4, <1>8, <3>5
      <4>2. QED BY <2>1, <3>1, <3>4, <3>5, <4>1
    <3>6. CASE q # p.rule
      <4>1. ApprovedOf(q)' = ApprovedOf(q)
        BY <1>4, <3>6
      <4>2. QED BY <2>1, <3>1, <3>2, <3>6, <4>1
    <3>7. QED BY <3>5, <3>6
  <2>3. ApprovalsAreAudited'
    BY <2>2 DEF ApprovalsAreAudited, ApprovedOf, PlacesOf, ApprovedEntry
  <2>4. LedgerInv'
    BY <1>2, <1>4, <1>7, <2>1, <2>3 DEF LedgerInv, LedgerTyped
  <2>5. QED BY <1>7, <2>1, <2>4 DEF ChangeIsTold
<1>9. CASE Raises(p)
  <2>1. ldAudit' = ldAudit
    <3>1. Approval(p) = <<>>
      BY <1>9 DEF Approval
    <3>2. QED BY <1>2, <1>5, <3>1, ConcatEmptySeq
  <2>2. \A q \in RuleIds : ApprovedOf(q)' = ApprovedOf(q)
    BY <1>4, <1>9
  <2>3. ApprovalsAreAudited'
    <3>1. \A q \in RuleIds : (Cardinality(ApprovedOf(q)))' = Cardinality(PlacesOf(ldAudit', ApprovedEntry(q)))
      BY <2>1, <2>2 DEF LedgerInv, ApprovalsAreAudited, ApprovedOf, PlacesOf, ApprovedEntry
    <3>2. QED BY <3>1 DEF ApprovalsAreAudited, ApprovedOf, PlacesOf, ApprovedEntry
  <2>4. LedgerInv'
    BY <1>2, <1>4, <1>5, <1>7, <2>1, <2>3 DEF LedgerInv, LedgerTyped
  <2>5. ASSUME NEW q \in RuleIds, RuleChanges(q) PROVE ChangeIsTold(q)
    <3>1. q = p.rule
      BY <1>7, <2>5
    <3>2. ldRules' # ldRules
      BY <2>5 DEF RuleChanges
    <3>3. PICK rule : /\ ldRules' = Put(p.rule, rule) /\ p.rule \in DOMAIN ldRules
                      /\ rule = Changed(ldRules[p.rule], p.changes)
      BY <1>6, <1>9, <3>2
    <3>4. p.rule \in DOMAIN ldRules' /\ ldRules'[p.rule] = rule
      BY <3>3, PutFacts
    <3>5. RaisedHalfWay(ldProposals[i], ldProposals'[i])
      BY <1>1, <1>2, <1>4, <1>9 DEF RaisedHalfWay, LedgerInv
    <3>6. Made(p.changes, "version") = {} => rule.version = ldRules[p.rule].version
      <4>1. "version" \in DOMAIN ldRules[p.rule]
        BY <1>5, <3>3 DEF RulesTyped, RuleFields
      <4>2. QED BY <3>3, <4>1 DEF Changed
    <3>7. QED BY <1>1, <3>1, <3>4, <3>5, <3>6 DEF ChangeIsTold
  <2>6. QED BY <2>4, <2>5
<1>10. QED BY <1>8, <1>9

LEMMA LoadStep ==
    ASSUME LedgerInv, LoadLedger
    PROVE  LedgerInv'
<1>1. ldProposals' = <<>> /\ ldAudit' = <<>> /\ ldRules' = ldFile[1] /\ ldFile' = ldFile /\ ldFile # <<>>
  BY DEF LoadLedger
<1>2. ApprovalsAreAudited'
  <2>1. \A r \in RuleIds : ApprovedOf(r)' = {} /\ PlacesOf(ldAudit', ApprovedEntry(r)) = {}
    BY <1>1 DEF ApprovedOf, PlacesOf
  <2>2. \A r \in RuleIds : (Cardinality(ApprovedOf(r)))' = Cardinality(PlacesOf(ldAudit', ApprovedEntry(r)))
    BY <2>1
  <2>3. QED BY <2>2 DEF ApprovalsAreAudited, ApprovedOf, PlacesOf, ApprovedEntry
<1>3. QED BY <1>1, <1>2 DEF LedgerInv, LedgerTyped

LEMMA LedgerNextStep ==
    ASSUME LedgerInv, [LedgerNext]_ldVars
    PROVE  LedgerInv' /\ (ldVars' # ldVars => \A q \in RuleIds : RuleChanges(q) => ChangeIsTold(q))
<1>1. ASSUME ldRules' = ldRules, NEW q PROVE ~RuleChanges(q)
  BY <1>1 DEF RuleChanges
<1>2. CASE UNCHANGED ldVars
  BY <1>2 DEF ldVars, LedgerInv, LedgerTyped, ApprovalsAreAudited
<1>3. CASE \E r \in RuleIds : (\E m \in {"block", "warn"} : AddRule(r, m)) \/ DisableRule(r) \/ EnableRule(r)
  BY <1>3, RuleStep
<1>4. CASE \E r \in RuleIds, a \in {"update", "disable", "delete", "create"}, c \in LedgerChanges : Propose(r, a, c)
  BY <1>1, <1>4, ProposeStep
<1>5. CASE \E i \in DOMAIN ldProposals : Approve(i) \/ Reject(i)
  BY <1>1, <1>5, ApproveStep, RejectStep
<1>6. CASE SaveLedger
  <2>1. ldFile' = <<ldRules>> /\ UNCHANGED <<ldRules, ldProposals, ldAudit>>
    BY <1>6 DEF SaveLedger
  <2>2. ldFile'[1] = ldRules
    BY <2>1
  <2>3. LedgerInv'
    BY <2>1, <2>2 DEF LedgerInv, LedgerTyped, ApprovalsAreAudited
  <2>4. QED BY <1>1, <2>1, <2>3
<1>7. CASE LoadLedger
  BY <1>7, LoadStep DEF ChangeIsTold
<1>8. QED BY <1>2, <1>3, <1>4, <1>5, <1>6, <1>7 DEF LedgerNext

LEMMA InitLedger ==
    ASSUME LedgerInit
    PROVE  LedgerInv
<1>1. ldRules = <<>> /\ ldProposals = <<>> /\ ldAudit = <<>> /\ ldFile = <<>>
  BY DEF LedgerInit
<1>2. \A r \in RuleIds : ApprovedOf(r) = {} /\ PlacesOf(ldAudit, ApprovedEntry(r)) = {}
  BY <1>1 DEF ApprovedOf, PlacesOf
<1>3. ApprovalsAreAudited
  BY <1>2 DEF ApprovalsAreAudited, ApprovedOf, PlacesOf, ApprovedEntry
<1>4. QED BY <1>1, <1>3 DEF LedgerInv, LedgerTyped, RulesTyped

\* Both audit trails are complete, for any writers, payloads, rules and changes: every fork
\* of the hash chain goes back to a call that overlapped another or met a file error, every
\* parent is the hash of an entry that is or is about to be written (ALSLogger.log), every
\* approval that did not raise has its entry, and no rule changes without a word in the
\* trail but by an approval that raised half-way or a reload (AlignLedger).
THEOREM AuditComplete == AlsSpec /\ LedgerSpec => AuditIsComplete
<1>1. AlsInit => ChainInv
  BY InitChained
<1>2. ChainInv /\ [AlsNext]_alsVars => ChainInv'
  BY AlsNextKeepsChain
<1>3. ChainInv => ForksAreExplained /\ NoDanglingParent
  BY ChainIsWhole
<1>4. LedgerInit => LedgerInv
  BY InitLedger
<1>5. LedgerInv /\ [LedgerNext]_ldVars => LedgerInv'
  BY LedgerNextStep
<1>6. LedgerInv => ApprovalsAreAudited
  BY DEF LedgerInv
<1>7. LedgerInv /\ [LedgerNext]_ldVars =>
        [\A r \in RuleIds :
           (r \in DOMAIN ldRules) # (r \in DOMAIN ldRules') \/ (r \in DOMAIN ldRules /\ ldRules[r] # ldRules'[r]) =>
             \/ LoadLedger
             \/ Len(ldAudit') > Len(ldAudit) /\ Last(ldAudit').rule = r
             \/ \E i \in DOMAIN ldProposals :
                  /\ ldProposals[i].rule = r /\ RaisedHalfWay(ldProposals[i], ldProposals'[i])
                  /\ r \in DOMAIN ldRules'
                  /\ \/ ldRules'[r].version = ldRules[r].version
                     \/ Made(ldProposals[i].changes, "version") # {}]_ldVars
  BY LedgerNextStep DEF RuleChanges, ChangeIsTold
<1>8. QED BY <1>1, <1>2, <1>3, <1>4, <1>5, <1>6, <1>7, PTL
          DEF AlsSpec, LedgerSpec, AuditIsComplete, NoSilentChange

-----------------------------------------------------------------------------
(* The scribe and the archive of its rows. *)

\* Entries of the stream, by their place in it.
Intents == Nat
\* The scribe has an entry in hand.
Working == csScribe.at \in {"insert", "commit", "ack", "dlq"}
ScribeTyped ==
  /\ csStream \in Nat /\ csCursor \in Intents /\ csRows \in Seq(Intents) /\ csOpen \in Seq(Intents)
  /\ csScribe \in [at : {"down", "reading", "insert", "commit", "ack", "dlq"}, failures : Nat]
  /\ csNow \in 0 .. MaxSeconds /\ DOMAIN csFiles = 0 .. MaxSeconds
  /\ csArchive \in [at : {"idle", "write", "delete"}, old : Nat]
  /\ csArchive.at # "idle" => csArchive.old \in 1 .. Len(csRows)

\* What the archive is about to delete is in a file, or was until it was written over.
Archived(e) == (\E s \in DOMAIN csFiles : e \in csFiles[s]) \/ e \in csOverwritten
ArchiveReady == csArchive.at = "delete" => \A i \in 1 .. csArchive.old : Archived(csRows[i])

\* What is acknowledged is kept, and so is what the scribe is about to acknowledge.
KeptHere(e) == e \in Range(csRows) \/ e \in csDlq \/ Archived(e)
EntriesKept ==
  /\ \A e \in (1 .. csCursor) \ csPel : KeptHere(e)
  /\ csScribe.at = "ack" => KeptHere(csCursor)
  /\ csScribe.at = "commit" => csCursor \in Range(csOpen)

\* One more copy of the entry in hand than it has failed, at most, once it is inserted.
Attempts ==
  /\ \A e \in Nat : /\ Copies(e) \in 0 .. 3 /\ (Copies(e) > 1 => e \in csRetried)
                    /\ e > csCursor => Copies(e) = 0
  /\ csDlq \subseteq csRetried
  /\ Working =>
       /\ csScribe.at = "dlq" \/ csScribe.failures <= 2
       /\ Copies(csCursor) <= csScribe.failures + (IF csScribe.at \in {"commit", "ack"} THEN 1 ELSE 0)
       /\ csScribe.failures > 0 => csCursor \in csRetried
  /\ csScribe.at \in {"down", "reading"} => csScribe.failures = 0
  /\ csScribe.at = "dlq" => csScribe.failures > 0

PendingOwed == csPel \subseteq csDied \cup {e \in {csCursor} : Working}

ScribeInv == ScribeTyped /\ ArchiveReady /\ EntriesKept /\ Attempts /\ PendingOwed

-----------------------------------------------------------------------------
\* Copies are counted over the committed rows and the open ones as one sequence.
LEMMA CopiesFacts ==
    ASSUME ScribeTyped
    PROVE  /\ csRows \o csOpen \in Seq(Intents)
           /\ \A e : Copies(e) = Cardinality(PlacesOf(csRows \o csOpen, e)) /\ Copies(e) \in Nat
<1>1. csRows \o csOpen \in Seq(Intents)
  BY ConcatProperties DEF ScribeTyped
<1>2. \A e : Cardinality(PlacesOf(csRows \o csOpen, e)) \in Nat
  <2>1. 0 \in Intents
    BY DEF Intents
  <2>2. QED BY <1>1, <2>1, PlacesGrow
<1>3. QED BY <1>1, <1>2 DEF Copies, PlacesOf

\* Rows taken away from the front, or from the end, make no copy.
LEMMA FewerRows ==
    ASSUME NEW v \in Seq(Intents), NEW m \in Nat, NEW n \in Nat, m <= n, n <= Len(v), NEW e
    PROVE  /\ SubSeq(v, m + 1, n) \in Seq(Intents) /\ DOMAIN SubSeq(v, m + 1, n) = 1 .. n - m
           /\ \A i \in 1 .. n - m : SubSeq(v, m + 1, n)[i] = v[m + i]
           /\ Cardinality(PlacesOf(SubSeq(v, m + 1, n), e)) <= Cardinality(PlacesOf(v, e))
<1>1. DOMAIN v = 1 .. Len(v) /\ Len(v) \in Nat
  OBVIOUS
<1>2. PICK w \in Seq(Intents) : /\ w = SubSeq(v, m + 1, n) /\ DOMAIN w = 1 .. n - m
                            /\ \A i \in 1 .. n - m : w[i] = v[m + i]
  <2>1. SubSeq(v, m + 1, n) \in Seq(Intents)
    OBVIOUS
  <2>2. Len(SubSeq(v, m + 1, n)) = n - m
    OBVIOUS
  <2>3. \A i \in 1 .. n - m : SubSeq(v, m + 1, n)[i] = v[m + i]
    OBVIOUS
  <2>4. DOMAIN SubSeq(v, m + 1, n) = 1 .. n - m
    BY <2>1, <2>2
  <2>5. QED BY <2>1, <2>3, <2>4
<1> DEFINE f == [i \in PlacesOf(w, e) |-> m + i]
<1>3. PlacesOf(w, e) \subseteq 1 .. n - m
  BY <1>2 DEF PlacesOf
<1>4. f \in [PlacesOf(w, e) -> PlacesOf(v, e)]
  <2>1. ASSUME NEW i \in PlacesOf(w, e) PROVE m + i \in PlacesOf(v, e)
    BY <1>1, <1>2, <1>3 DEF PlacesOf
  <2>2. QED BY <2>1
<1>5. IsInjective(f)
  BY <1>3 DEF IsInjective
<1>6. IsFiniteSet(PlacesOf(v, e))
  <2>1. 0 \in Intents
    BY DEF Intents
  <2>2. QED BY <2>1, PlacesGrow
<1>7. f \in Injection(PlacesOf(w, e), PlacesOf(v, e))
  BY <1>4, <1>5 DEF Injection, IsInjective
<1>8. Cardinality(PlacesOf(w, e)) <= Cardinality(PlacesOf(v, e))
  BY <1>6, <1>7, FS_Injection DEF ExistsInjection
<1>9. QED BY <1>2, <1>8

LEMMA ScribeInitHolds ==
    ASSUME ScribeInit
    PROVE  ScribeInv
<1>1. /\ csStream = 0 /\ csCursor = 0 /\ csPel = {} /\ csScribe = Down /\ csOpen = <<>> /\ csRows = <<>>
      /\ csDlq = {} /\ csNow = 0 /\ csFiles = [s \in 0 .. MaxSeconds |-> {}]
      /\ csArchive = [at |-> "idle", old |-> 0] /\ csRetried = {}
  BY DEF ScribeInit
<1>2. ScribeTyped
  BY <1>1, SecondsAssumption DEF ScribeTyped, Down, Intents
<1>3. csScribe.at = "down" /\ csScribe.failures = 0 /\ csArchive.at = "idle"
  BY <1>1 DEF Down
<1>4. \A e : Copies(e) = 0
  <2>1. \A e : PlacesOf(csRows \o csOpen, e) = {}
    BY <1>1 DEF PlacesOf
  <2>2. \A e : Copies(e) = Cardinality({})
    BY <2>1, <1>2, CopiesFacts
  <2>3. QED BY <2>2, FS_EmptySet
<1>5. Attempts
  BY <1>1, <1>3, <1>4 DEF Attempts, Working
<1>6. QED BY <1>1, <1>2, <1>3, <1>5 DEF ScribeInv, ArchiveReady, EntriesKept, PendingOwed

LEMMA ScribeTypedStays ==
    ASSUME ScribeTyped, ScribeNext
    PROVE  ScribeTyped'
<1>0. /\ csStream \in Nat /\ csCursor \in Intents /\ csRows \in Seq(Intents) /\ csOpen \in Seq(Intents)
      /\ csScribe \in [at : {"down", "reading", "insert", "commit", "ack", "dlq"}, failures : Nat]
      /\ csNow \in 0 .. MaxSeconds /\ DOMAIN csFiles = 0 .. MaxSeconds
      /\ csArchive \in [at : {"idle", "write", "delete"}, old : Nat]
      /\ csArchive.at # "idle" => csArchive.old \in 1 .. Len(csRows)
  BY DEF ScribeTyped
<1>1. CASE IntentArrives
  BY <1>0, <1>1 DEF IntentArrives, ScribeTyped, csCold
<1>2. CASE ScribeStarts
  BY <1>0, <1>2 DEF ScribeStarts, ScribeTyped, csCold, csQueue, AtRead
<1>3. CASE ScribeReads
  BY <1>0, <1>3 DEF ScribeReads, ScribeTyped, csCold, Intents
<1>4. ASSUME EntryFails PROVE csScribe' \in [at : {"down", "reading", "insert", "commit", "ack", "dlq"}, failures : Nat]
  BY <1>0, <1>4 DEF EntryFails
<1>5. CASE ScribeInserts
  <2>1. Append(csOpen, csCursor) \in Seq(Intents)
    BY <1>0, AppendProperties
  <2>2. csOpen' \in Seq(Intents) /\ csScribe' \in [at : {"down", "reading", "insert", "commit", "ack", "dlq"}, failures : Nat]
    BY <1>0, <1>4, <1>5, <2>1 DEF ScribeInserts
  <2>3. UNCHANGED <<csStream, csCursor, csRows, csNow, csFiles, csArchive>>
    BY <1>5 DEF ScribeInserts, csQueue, csCold
  <2>4. QED BY <1>0, <2>2, <2>3 DEF ScribeTyped
<1>6. CASE ScribeCommits
  <2>1. csRows \o csOpen \in Seq(Intents) /\ Len(csRows \o csOpen) = Len(csRows) + Len(csOpen)
    BY <1>0, ConcatProperties
  <2>2. /\ csRows' \in Seq(Intents) /\ csOpen' \in Seq(Intents) /\ Len(csRows') >= Len(csRows)
        /\ csScribe' \in [at : {"down", "reading", "insert", "commit", "ack", "dlq"}, failures : Nat]
    <3>1. Len(csRows) \in Nat /\ Len(csOpen) \in Nat /\ <<>> \in Seq(Intents)
      BY <1>0
    <3>2. CASE csRows' = csRows \o csOpen /\ csOpen' = <<>> /\ csScribe' = [csScribe EXCEPT !.at = "ack"]
      BY <1>0, <2>1, <3>1, <3>2
    <3>3. CASE EntryFails /\ csRows' = csRows /\ csOpen' = csOpen
      BY <1>0, <1>4, <3>1, <3>3
    <3>4. QED BY <1>6, <3>2, <3>3 DEF ScribeCommits
  <2>3. UNCHANGED <<csStream, csCursor, csNow, csFiles, csArchive>>
    BY <1>6 DEF ScribeCommits, csQueue, csCold
  <2>4. csArchive.at # "idle" => csArchive.old \in 1 .. Len(csRows')
    BY <1>0, <2>2
  <2>5. QED BY <1>0, <2>2, <2>3, <2>4 DEF ScribeTyped
<1>7. CASE ScribeAcks
  BY <1>0, <1>4, <1>7 DEF ScribeAcks, ScribeTyped, csCold, AtRead
<1>8. CASE ScribeGivesUp
  BY <1>0, <1>8 DEF ScribeGivesUp, ScribeTyped, csCold, AtRead
<1>9. CASE ScribeCrashes
  BY <1>0, <1>9 DEF ScribeCrashes, ScribeTyped, csCold, csQueue, Down
<1>10. CASE SecondPasses
  BY <1>0, <1>10, SecondsAssumption DEF SecondPasses, ScribeTyped, csQueue
<1>11. ASSUME NEW old \in 1 .. Len(csRows), ArchiveSelects(old) PROVE ScribeTyped'
  BY <1>0, <1>11 DEF ArchiveSelects, ScribeTyped, csQueue
<1>12. CASE ArchiveWrites
  BY <1>0, <1>12 DEF ArchiveWrites, ScribeTyped, csQueue
<1>13. CASE ArchiveDeletes
  <2>1. csRows' = SubSeq(csRows, csArchive.old + 1, Len(csRows)) /\ csArchive.old <= Len(csRows)
    BY <1>0, <1>13 DEF ArchiveDeletes
  <2>2. csRows' \in Seq(Intents)
    BY <1>0, <2>1, FewerRows
  <2>3. QED BY <1>0, <1>13, <2>2 DEF ArchiveDeletes, ScribeTyped, csQueue
<1>14. CASE ArchiveCrashes
  BY <1>0, <1>14 DEF ArchiveCrashes, ScribeTyped, csQueue
<1>15. QED BY <1>1, <1>2, <1>3, <1>5, <1>6, <1>7, <1>8, <1>9, <1>10, <1>11, <1>12, <1>13, <1>14 DEF ScribeNext

\* The rows only grow at the end, but for the archive, which takes them from the front.
LEMMA RowsMove ==
    ASSUME ScribeTyped, ArchiveReady, ScribeNext
    PROVE  /\ \A e : Archived(e) => Archived(e)'
           /\ \/ ArchiveDeletes
              \/ Len(csRows') >= Len(csRows) /\ \A i \in 1 .. Len(csRows) : csRows'[i] = csRows[i]
           /\ \A e \in Range(csRows) : e \in Range(csRows') \/ Archived(e)
<1>0. /\ csRows \in Seq(Intents) /\ csOpen \in Seq(Intents) /\ csNow \in 0 .. MaxSeconds /\ DOMAIN csFiles = 0 .. MaxSeconds
      /\ csArchive.at # "idle" => csArchive.old \in 1 .. Len(csRows)
  BY DEF ScribeTyped
<1>1. CASE ScribeCommits
  <2>1. csRows' = csRows \/ csRows' = csRows \o csOpen
    BY <1>1 DEF ScribeCommits
  <2>2. /\ Len(csRows \o csOpen) = Len(csRows) + Len(csOpen) /\ Len(csRows) \in Nat /\ Len(csOpen) \in Nat
        /\ \A i \in 1 .. Len(csRows) : (csRows \o csOpen)[i] = csRows[i]
    BY <1>0, ConcatProperties
  <2>3. Range(csRows \o csOpen) = Range(csRows) \cup Range(csOpen)
    BY <1>0, RangeOfJoin
  <2>4. \A e : Archived(e) => Archived(e)'
    BY <1>1 DEF ScribeCommits, csCold, Archived
  <2>5. Len(csRows') >= Len(csRows) /\ \A i \in 1 .. Len(csRows) : csRows'[i] = csRows[i]
    BY <2>1, <2>2
  <2>6. \A e \in Range(csRows) : e \in Range(csRows')
    BY <2>1, <2>3
  <2>7. QED BY <2>4, <2>5, <2>6
<1>2. CASE ArchiveWrites
  <2> DEFINE moved == ToSet(SubSeq(csRows, 1, csArchive.old))
  <2>1. /\ csFiles' = [csFiles EXCEPT ![csNow] = moved] /\ csRows' = csRows
        /\ csOverwritten' = (csOverwritten \cup csFiles[csNow]) \ moved
    BY <1>2 DEF ArchiveWrites
  <2> HIDE DEF moved
  <2>2. DOMAIN csFiles' = DOMAIN csFiles /\ csFiles'[csNow] = moved /\ csNow \in DOMAIN csFiles
        /\ \A s \in DOMAIN csFiles : s # csNow => csFiles'[s] = csFiles[s]
    BY <1>0, <2>1
  <2>3. ASSUME NEW e, Archived(e) PROVE Archived(e)'
    <3>1. CASE e \in moved
      BY <2>2, <3>1 DEF Archived
    <3>2. CASE e \notin moved
      BY <2>1, <2>2, <2>3, <3>2 DEF Archived
    <3>3. QED BY <3>1, <3>2
  <2>4. QED BY <1>0, <2>1, <2>3
<1>3. CASE ArchiveDeletes
  <2>1. /\ csRows' = SubSeq(csRows, csArchive.old + 1, Len(csRows)) /\ csArchive.at = "delete"
        /\ csFiles' = csFiles /\ csOverwritten' = csOverwritten
    BY <1>3 DEF ArchiveDeletes
  <2>2. PICK n \in Nat, old \in Nat : n = Len(csRows) /\ old = csArchive.old /\ old <= n /\ DOMAIN csRows = 1 .. n
    BY <1>0, <2>1
  <2>3. DOMAIN csRows' = 1 .. n - old /\ \A i \in 1 .. n - old : csRows'[i] = csRows[old + i]
    <3>1. csRows' = SubSeq(csRows, old + 1, n)
      BY <2>1, <2>2
    <3>2. /\ DOMAIN SubSeq(csRows, old + 1, n) = 1 .. n - old
          /\ \A i \in 1 .. n - old : SubSeq(csRows, old + 1, n)[i] = csRows[old + i]
      BY <1>0, <2>2, FewerRows
    <3>3. QED BY <3>1, <3>2
  <2>4. ASSUME NEW e \in Range(csRows) PROVE e \in Range(csRows') \/ Archived(e)
    <3>1. PICK i \in 1 .. n : e = csRows[i]
      BY <2>2 DEF Range
    <3>2. CASE i <= old
      BY <2>1, <2>2, <3>1, <3>2 DEF ArchiveReady
    <3>3. CASE i > old
      <4>1. i - old \in 1 .. n - old /\ old + (i - old) = i
        BY <2>2, <3>3
      <4>2. csRows'[i - old] = e
        BY <2>3, <3>1, <4>1
      <4>3. QED BY <2>3, <4>1, <4>2 DEF Range
    <3>4. QED BY <2>2, <3>2, <3>3
  <2>5. QED BY <1>3, <2>1, <2>4 DEF Archived
<1>4. CASE UNCHANGED <<csRows, csFiles, csOverwritten>>
  BY <1>0, <1>4 DEF Archived
<1>5. QED BY <1>1, <1>2, <1>3, <1>4 DEF ScribeNext, IntentArrives, ScribeStarts, ScribeReads, ScribeInserts, ScribeAcks,
                   ScribeGivesUp, ScribeCrashes, SecondPasses, ArchiveSelects, ArchiveCrashes, csCold

LEMMA ArchiveReadyStays ==
    ASSUME ScribeTyped, ArchiveReady, ScribeNext
    PROVE  ArchiveReady'
<1>0. /\ csRows \in Seq(Intents) /\ csNow \in 0 .. MaxSeconds /\ DOMAIN csFiles = 0 .. MaxSeconds
      /\ csArchive.at # "idle" => csArchive.old \in 1 .. Len(csRows)
      /\ csArchive \in [at : {"idle", "write", "delete"}, old : Nat]
  BY DEF ScribeTyped
<1>1. CASE ArchiveWrites
  <2> DEFINE moved == ToSet(SubSeq(csRows, 1, csArchive.old))
  <2>1. /\ csFiles' = [csFiles EXCEPT ![csNow] = moved] /\ csRows' = csRows /\ csArchive.at = "write"
        /\ csArchive' = [csArchive EXCEPT !.at = "delete"]
    BY <1>1 DEF ArchiveWrites
  <2>2. PICK old \in Nat : old = csArchive.old /\ old <= Len(csRows) /\ csArchive'.old = old
    BY <1>0, <2>1
  <2>3. \A i \in 1 .. old : csRows[i] \in moved
    <3>1. SubSeq(csRows, 1, old) \in Seq(Intents) /\ Len(SubSeq(csRows, 1, old)) = old
      BY <1>0, <2>2
    <3>2. \A i \in 1 .. old : SubSeq(csRows, 1, old)[i] = csRows[i]
      BY <1>0, <2>2
    <3>3. DOMAIN SubSeq(csRows, 1, old) = 1 .. old
      BY <3>1
    <3>4. QED BY <2>2, <3>2, <3>3 DEF ToSet
  <2> HIDE DEF moved
  <2>4. csFiles'[csNow] = moved /\ csNow \in DOMAIN csFiles'
    BY <1>0, <2>1
  <2>5. \A i \in 1 .. old : (Archived(csRows[i]))'
    BY <2>1, <2>3, <2>4 DEF Archived
  <2>6. QED BY <2>1, <2>2, <2>5 DEF ArchiveReady
<1>2. CASE csArchive' = csArchive
  <2>1. SUFFICES ASSUME csArchive.at = "delete", NEW i \in 1 .. csArchive.old
                 PROVE  (Archived(csRows[i]))'
    BY <1>2 DEF ArchiveReady
  <2>2. Archived(csRows[i])
    BY <2>1 DEF ArchiveReady
  <2>3. ~ArchiveDeletes
    BY <1>2, <2>1 DEF ArchiveDeletes
  <2>4. i \in 1 .. Len(csRows)
    BY <1>0, <2>1
  <2>5. csRows'[i] = csRows[i]
    BY <2>3, <2>4, RowsMove
  <2>6. QED BY <2>2, <2>5, RowsMove DEF Archived
<1>3. CASE csArchive'.at # "delete"
  BY <1>3 DEF ArchiveReady
<1>4. csArchive' = csArchive \/ csArchive'.at # "delete" \/ ArchiveWrites
  <2>1. ASSUME NEW old \in 1 .. Len(csRows), ArchiveSelects(old) PROVE csArchive'.at = "write"
    BY <2>1 DEF ArchiveSelects
  <2>2. ArchiveDeletes \/ ArchiveCrashes => csArchive'.at = "idle"
    BY DEF ArchiveDeletes, ArchiveCrashes
  <2>3. QED BY <2>1, <2>2 DEF ScribeNext, IntentArrives, ScribeStarts, ScribeReads, ScribeInserts, ScribeCommits, ScribeAcks,
               ScribeGivesUp, ScribeCrashes, SecondPasses, csCold
<1>5. QED BY <1>1, <1>2, <1>3, <1>4

LEMMA EntriesKeptStays ==
    ASSUME ScribeInv, ScribeNext
    PROVE  EntriesKept'
<1>0. /\ csRows \in Seq(Intents) /\ csOpen \in Seq(Intents) /\ csCursor \in Nat
      /\ csScribe \in [at : {"down", "reading", "insert", "commit", "ack", "dlq"}, failures : Nat]
      /\ ScribeTyped /\ ArchiveReady
      /\ \A e \in (1 .. csCursor) \ csPel : KeptHere(e)
      /\ csScribe.at = "ack" => KeptHere(csCursor)
      /\ csScribe.at = "commit" => csCursor \in Range(csOpen)
  BY DEF ScribeInv, ScribeTyped, EntriesKept, Intents
<1>1. csDlq \subseteq csDlq'
  BY DEF ScribeNext, IntentArrives, ScribeStarts, ScribeReads, ScribeInserts, ScribeCommits, ScribeAcks, ScribeGivesUp,
         ScribeCrashes, SecondPasses, ArchiveSelects, ArchiveWrites, ArchiveDeletes, ArchiveCrashes
<1>2. \A e : KeptHere(e) => KeptHere(e)'
  BY <1>0, <1>1, RowsMove DEF KeptHere
<1>3. CASE ScribeReads
  <2>1. csCursor' = csCursor + 1 /\ csPel' = csPel \cup {csCursor + 1} /\ csScribe'.at = "insert"
    BY <1>0, <1>3 DEF ScribeReads
  <2>2. \A e \in (1 .. csCursor') \ csPel' : e \in (1 .. csCursor) \ csPel
    BY <1>0, <2>1
  <2>3. QED BY <1>0, <1>2, <2>1, <2>2 DEF EntriesKept
<1>4. CASE ScribeInserts
  <2>1. UNCHANGED <<csCursor, csPel>>
    BY <1>4 DEF ScribeInserts, csQueue
  <2>2. csScribe'.at # "ack"
    BY <1>0, <1>4 DEF ScribeInserts, EntryFails
  <2>3. ASSUME csScribe'.at = "commit" PROVE csCursor \in Range(csOpen')
    <3>1. csOpen' = Append(csOpen, csCursor)
      BY <1>4, <2>3 DEF ScribeInserts, EntryFails
    <3>2. csCursor \in Intents
      BY <1>0 DEF Intents
    <3>3. Range(Append(csOpen, csCursor)) = Range(csOpen) \cup {csCursor}
      BY <1>0, <3>2, RangeOfAppend
    <3>4. QED BY <3>1, <3>3
  <2>4. QED BY <1>0, <1>2, <2>1, <2>2, <2>3 DEF EntriesKept
<1>5. CASE ScribeCommits
  <2>1. UNCHANGED <<csCursor, csPel>>
    BY <1>5 DEF ScribeCommits, csQueue
  <2>2. csScribe'.at # "commit"
    BY <1>0, <1>5 DEF ScribeCommits, EntryFails
  <2>3. ASSUME csScribe'.at = "ack" PROVE csCursor \in Range(csRows')
    <3>1. csRows' = csRows \o csOpen /\ csScribe.at = "commit"
      BY <1>5, <2>3 DEF ScribeCommits, EntryFails
    <3>2. Range(csRows \o csOpen) = Range(csRows) \cup Range(csOpen)
      BY <1>0, RangeOfJoin
    <3>3. QED BY <1>0, <3>1, <3>2
  <2>4. csScribe'.at = "ack" => KeptHere(csCursor)'
    BY <2>1, <2>3 DEF KeptHere
  <2>5. QED BY <1>0, <1>2, <2>1, <2>2, <2>4 DEF EntriesKept
<1>6. CASE ScribeAcks
  <2>1. csCursor' = csCursor /\ csScribe'.at \notin {"ack", "commit"} /\ csScribe.at = "ack"
    BY <1>0, <1>6 DEF ScribeAcks, AtRead, EntryFails
  <2>2. csPel' \in {csPel, csPel \ {csCursor}}
    BY <1>6 DEF ScribeAcks, Acked
  <2>3. \A e \in (1 .. csCursor') \ csPel' : KeptHere(e)
    BY <1>0, <2>1, <2>2
  <2>4. QED BY <1>2, <2>1, <2>3 DEF EntriesKept
<1>7. CASE ScribeGivesUp
  <2>1. csCursor' = csCursor /\ csScribe'.at = "reading" /\ csPel' = csPel \ {csCursor} /\ csCursor \in csDlq'
    BY <1>7 DEF ScribeGivesUp, AtRead, Acked
  <2>2. (KeptHere(csCursor))'
    BY <2>1 DEF KeptHere
  <2>3. \A e \in (1 .. csCursor') \ csPel' : e = csCursor \/ KeptHere(e)
    BY <1>0, <2>1
  <2>4. ASSUME NEW e \in (1 .. csCursor') \ csPel' PROVE KeptHere(e)'
    BY <1>2, <2>1, <2>2, <2>3, <2>4
  <2>5. QED BY <2>1, <2>4 DEF EntriesKept
<1>8. CASE UNCHANGED <<csCursor, csPel>> /\ csScribe'.at \in {"down", "reading"}
  BY <1>0, <1>2, <1>8 DEF EntriesKept
<1>9. CASE UNCHANGED <<csCursor, csPel, csScribe, csOpen>>
  BY <1>0, <1>2, <1>9 DEF EntriesKept, KeptHere
<1>10. \/ ScribeReads \/ ScribeInserts \/ ScribeCommits \/ ScribeAcks \/ ScribeGivesUp
       \/ UNCHANGED <<csCursor, csPel>> /\ csScribe'.at \in {"down", "reading"}
       \/ UNCHANGED <<csCursor, csPel, csScribe, csOpen>>
  BY DEF ScribeNext, IntentArrives, ScribeStarts, ScribeCrashes, SecondPasses, ArchiveSelects, ArchiveWrites, ArchiveDeletes,
         ArchiveCrashes, csQueue, csCold, AtRead, Down
<1>11. QED BY <1>3, <1>4, <1>5, <1>6, <1>7, <1>8, <1>9, <1>10

LEMMA PendingOwedStays ==
    ASSUME ScribeInv, ScribeNext
    PROVE  PendingOwed'
<1>0. /\ csScribe \in [at : {"down", "reading", "insert", "commit", "ack", "dlq"}, failures : Nat]
      /\ csPel \subseteq csDied \cup {e \in {csCursor} : Working}
  BY DEF ScribeInv, ScribeTyped, PendingOwed
<1>1. CASE ScribeReads
  <2>1. csPel \subseteq csDied /\ csDied' = csDied
    BY <1>0, <1>1 DEF ScribeReads, Working
  <2>2. csPel' = csPel \cup {csCursor'} /\ Working'
    BY <1>0, <1>1 DEF ScribeReads, Working
  <2>3. QED BY <2>1, <2>2 DEF PendingOwed
<1>2. CASE ScribeInserts \/ ScribeCommits
  <2>1. UNCHANGED <<csPel, csCursor, csDied>>
    BY <1>2 DEF ScribeInserts, ScribeCommits, csQueue
  <2>2. Working'
    BY <1>0, <1>2 DEF ScribeInserts, ScribeCommits, EntryFails, Working
  <2>3. QED BY <1>0, <2>1, <2>2 DEF PendingOwed
<1>3. CASE ScribeAcks \/ ScribeGivesUp
  <2>1. UNCHANGED <<csCursor, csDied>>
    BY <1>3 DEF ScribeAcks, ScribeGivesUp
  <2>2. csPel' = csPel \ {csCursor} \/ (csPel' = csPel /\ Working')
    BY <1>0, <1>3 DEF ScribeAcks, ScribeGivesUp, EntryFails, Working, Acked
  <2>3. QED BY <1>0, <2>1, <2>2 DEF PendingOwed
<1>4. CASE ScribeCrashes
  <2>1. csPel' = csPel /\ csDied' = csDied \cup csPel
    BY <1>4 DEF ScribeCrashes, csQueue
  <2>2. QED BY <2>1 DEF PendingOwed
<1>5. CASE ScribeStarts
  <2>1. csPel \subseteq csDied /\ csDied' = csDied /\ csPel' = csPel
    BY <1>0, <1>5 DEF ScribeStarts, Working, csQueue
  <2>2. QED BY <2>1 DEF PendingOwed
<1>6. CASE UNCHANGED <<csPel, csCursor, csScribe, csDied>>
  BY <1>0, <1>6 DEF PendingOwed, Working
<1>7. QED BY <1>1, <1>2, <1>3, <1>4, <1>5, <1>6 DEF ScribeNext, IntentArrives, SecondPasses, ArchiveSelects, ArchiveWrites,
                   ArchiveDeletes, ArchiveCrashes, csQueue

\* Only an insertion makes a copy, and only of the entry in hand.
Inserted == ScribeInserts /\ csScribe'.at = "commit"
LEMMA CopiesMove ==
    ASSUME ScribeTyped, ScribeNext
    PROVE  /\ \A e \in Nat : Copies(e)' \in Nat
           /\ ~Inserted => \A e \in Nat : Copies(e)' <= Copies(e)
           /\ Inserted => /\ csScribe' = [csScribe EXCEPT !.at = "commit"] /\ csRetried' = csRetried
                          /\ \A e \in Nat : Copies(e)' = Copies(e) + (IF csCursor = e THEN 1 ELSE 0)
<1>0. /\ csRows \in Seq(Intents) /\ csOpen \in Seq(Intents) /\ csCursor \in Intents /\ Len(csRows) \in Nat
      /\ csArchive.at # "idle" => csArchive.old \in 1 .. Len(csRows)
      /\ csScribe \in [at : {"down", "reading", "insert", "commit", "ack", "dlq"}, failures : Nat]
  BY DEF ScribeTyped
<1>1. csRows \o csOpen \in Seq(Intents)
      /\ \A e : Copies(e) = Cardinality(PlacesOf(csRows \o csOpen, e)) /\ Copies(e) \in Nat
  BY CopiesFacts
<1>2. ScribeTyped'
  BY ScribeTypedStays
<1>3. ASSUME NEW e PROVE Copies(e)' = Cardinality(PlacesOf(csRows' \o csOpen', e))
  BY DEF Copies, PlacesOf
<1>4. ASSUME NEW e \in Nat PROVE Copies(e)' \in Nat
  <2>1. csRows' \o csOpen' \in Seq(Intents)
    BY <1>2, ConcatProperties DEF ScribeTyped
  <2>2. 0 \in Intents
    BY DEF Intents
  <2>3. QED BY <1>3, <2>1, <2>2, PlacesGrow
<1>5. ASSUME csRows' \o csOpen' = csRows \o csOpen, ~Inserted
      PROVE  /\ \A e \in Nat : Copies(e)' \in Nat
             /\ \A e \in Nat : Copies(e)' <= Copies(e)
  BY <1>1, <1>3, <1>4, <1>5
<1>6. CASE Inserted
  <2>1. csOpen' = Append(csOpen, csCursor) /\ csScribe' = [csScribe EXCEPT !.at = "commit"] /\ csRetried' = csRetried
    BY <1>6 DEF Inserted, ScribeInserts, EntryFails
  <2>2. csRows' = csRows
    BY <1>6 DEF Inserted, ScribeInserts
  <2>3. csRows \o Append(csOpen, csCursor) = Append(csRows \o csOpen, csCursor)
    <3>1. <<csCursor>> \in Seq(Intents)
      BY <1>0
    <3>2. Append(csOpen, csCursor) = csOpen \o <<csCursor>>
      BY <1>0, AppendIsConcat
    <3>3. Append(csRows \o csOpen, csCursor) = (csRows \o csOpen) \o <<csCursor>>
      BY <1>0, <1>1, AppendIsConcat
    <3>4. QED BY <1>0, <3>1, <3>2, <3>3, ConcatAssociative
  <2>4. ASSUME NEW e \in Nat PROVE Copies(e)' = Copies(e) + (IF csCursor = e THEN 1 ELSE 0)
    <3>1. Cardinality(PlacesOf(Append(csRows \o csOpen, csCursor), e))
            = Cardinality(PlacesOf(csRows \o csOpen, e)) + (IF csCursor = e THEN 1 ELSE 0)
      <4>1. csRows \o csOpen \in Seq(Intents) /\ csCursor \in Intents
        BY <1>0, <1>1
      <4>2. \A v \in Seq(Intents), x \in Intents :
              Cardinality(PlacesOf(Append(v, x), e)) = Cardinality(PlacesOf(v, e)) + (IF x = e THEN 1 ELSE 0)
        BY PlacesGrow
      <4>3. QED BY <4>1, <4>2, Zenon
    <3>2. QED BY <1>1, <1>3, <2>1, <2>2, <2>3, <3>1
  <2>5. QED BY <1>4, <1>6, <2>1, <2>4
<1>12. CASE ScribeInserts /\ ~Inserted
  <2>1. csOpen' = csOpen /\ csRows' = csRows
    BY <1>0, <1>12 DEF Inserted, ScribeInserts
  <2>2. QED BY <1>5, <1>12, <2>1
<1>7. CASE ScribeCommits /\ ~Inserted
  <2>1. CASE csRows' = csRows \o csOpen /\ csOpen' = <<>>
    <3>1. (csRows \o csOpen) \o <<>> = csRows \o csOpen
      BY <1>1, ConcatEmptySeq
    <3>2. QED BY <1>5, <1>7, <2>1, <3>1
  <2>2. CASE csRows' = csRows /\ csOpen' = csOpen
    BY <1>5, <1>7, <2>2
  <2>3. QED BY <1>7, <2>1, <2>2 DEF ScribeCommits
<1>8. CASE ScribeCrashes /\ ~Inserted
  <2>1. csOpen' = <<>> /\ csRows' = csRows
    BY <1>8 DEF ScribeCrashes
  <2>2. csRows \o <<>> = csRows
    BY <1>0, ConcatEmptySeq
  <2>3. ASSUME NEW e \in Nat PROVE Cardinality(PlacesOf(csRows, e)) <= Cardinality(PlacesOf(csRows \o csOpen, e))
    <3>1. PlacesOf(csRows, e) \subseteq PlacesOf(csRows \o csOpen, e)
      <4>1. /\ Len(csRows \o csOpen) = Len(csRows) + Len(csOpen) /\ Len(csOpen) \in Nat
            /\ \A i \in 1 .. Len(csRows) + Len(csOpen) : (csRows \o csOpen)[i] =
                 IF i <= Len(csRows) THEN csRows[i] ELSE csOpen[i - Len(csRows)]
        BY <1>0, ConcatProperties
      <4>2. \A i \in 1 .. Len(csRows) : i \in 1 .. Len(csRows) + Len(csOpen) /\ (csRows \o csOpen)[i] = csRows[i]
        BY <1>0, <4>1
      <4>3. DOMAIN csRows = 1 .. Len(csRows) /\ DOMAIN (csRows \o csOpen) = 1 .. Len(csRows) + Len(csOpen)
        BY <1>0, <1>1, <4>1
      <4>4. QED BY <4>2, <4>3 DEF PlacesOf
    <3>2. IsFiniteSet(PlacesOf(csRows \o csOpen, e))
      BY <1>0, <1>1, PlacesGrow
    <3>3. QED BY <3>1, <3>2, FS_Subset
  <2>4. QED BY <1>1, <1>3, <1>4, <1>8, <2>1, <2>2, <2>3
<1>9. CASE ArchiveDeletes /\ ~Inserted
  <2>1. csOpen = <<>> /\ csOpen' = <<>> /\ csRows' = SubSeq(csRows, csArchive.old + 1, Len(csRows))
        /\ csArchive.at = "delete"
    BY <1>9 DEF ArchiveDeletes
  <2>2. PICK old \in Nat, n \in Nat : old = csArchive.old /\ n = Len(csRows) /\ old <= n
    BY <1>0, <2>1
  <2>3. csRows' = SubSeq(csRows, old + 1, n)
    BY <2>1, <2>2
  <2>4. csRows \o <<>> = csRows /\ csRows' \o <<>> = csRows'
    BY <1>0, <1>2, ConcatEmptySeq DEF ScribeTyped
  <2>5. ASSUME NEW e \in Nat PROVE Cardinality(PlacesOf(csRows', e)) <= Cardinality(PlacesOf(csRows, e))
    BY <1>0, <2>2, <2>3, FewerRows
  <2>6. QED BY <1>1, <1>3, <1>4, <1>9, <2>1, <2>4, <2>5
<1>10. CASE UNCHANGED <<csRows, csOpen>> /\ ~Inserted
  BY <1>5, <1>10
<1>11. QED BY <1>6, <1>12, <1>7, <1>8, <1>9, <1>10 DEF ScribeNext, IntentArrives, ScribeStarts, ScribeReads, ScribeAcks, ScribeGivesUp,
                    SecondPasses, ArchiveSelects, ArchiveWrites, ArchiveCrashes

LEMMA AttemptsStay ==
    ASSUME ScribeInv, ScribeNext
    PROVE  Attempts'
<1>0. /\ csCursor \in Nat /\ ScribeTyped
      /\ csScribe \in [at : {"down", "reading", "insert", "commit", "ack", "dlq"}, failures : Nat]
  BY DEF ScribeInv, ScribeTyped, Intents
<1>1. /\ \A e \in Nat : /\ Copies(e) \in 0 .. 3 /\ (Copies(e) > 1 => e \in csRetried)
                        /\ e > csCursor => Copies(e) = 0
      /\ csDlq \subseteq csRetried
      /\ Working =>
           /\ csScribe.at = "dlq" \/ csScribe.failures <= 2
           /\ Copies(csCursor) <= csScribe.failures + (IF csScribe.at \in {"commit", "ack"} THEN 1 ELSE 0)
           /\ csScribe.failures > 0 => csCursor \in csRetried
      /\ csScribe.at \in {"down", "reading"} => csScribe.failures = 0
      /\ csScribe.at = "dlq" => csScribe.failures > 0
  BY DEF ScribeInv, Attempts
<1>2. \A e \in Nat : Copies(e)' \in Nat
  BY <1>0, CopiesMove
<1>3. csRetried \subseteq csRetried'
  BY DEF ScribeNext, IntentArrives, ScribeStarts, ScribeReads, ScribeInserts, ScribeCommits, ScribeAcks, ScribeGivesUp,
         ScribeCrashes, SecondPasses, ArchiveSelects, ArchiveWrites, ArchiveDeletes, ArchiveCrashes, EntryFails
<1>33. ASSUME csCursor' = csCursor PROVE \E c \in Nat : c = csCursor /\ (Copies(csCursor))' = Copies(c)'
  BY <1>0, <1>33 DEF Copies
\* The step that inserts.
<1>4. ASSUME Inserted, csScribe' = [csScribe EXCEPT !.at = "commit"], csRetried' = csRetried,
             \A e \in Nat : Copies(e)' = Copies(e) + (IF csCursor = e THEN 1 ELSE 0)
      PROVE  Attempts'
  <2>1. csScribe.at = "insert" /\ csCursor' = csCursor /\ csDlq' = csDlq
    BY <1>4 DEF Inserted, ScribeInserts, csQueue
  <2>2. csScribe'.at = "commit" /\ csScribe'.failures = csScribe.failures /\ csScribe.failures \in 0 .. 2
        /\ Working /\ Working'
    BY <1>0, <1>1, <1>4, <2>1 DEF Working
  <2>3. (Copies(csCursor))' = Copies(csCursor) + 1 /\ Copies(csCursor) <= csScribe.failures /\ Copies(csCursor) \in Nat
    <3>1. PICK c \in Nat : c = csCursor /\ (Copies(csCursor))' = Copies(c)'
      BY <1>33, <2>1
    <3>2. Copies(c)' = Copies(c) + 1
      BY <1>4, <3>1
    <3>3. QED BY <1>0, <1>1, <2>1, <2>2, <3>1, <3>2
  <2>4. ASSUME NEW e \in Nat
        PROVE  /\ Copies(e)' \in 0 .. 3 /\ (Copies(e)' > 1 => e \in csRetried)
               /\ e > csCursor => Copies(e)' = 0
    <3>1. Copies(e)' = Copies(e) + (IF csCursor = e THEN 1 ELSE 0) /\ Copies(e) \in 0 .. 3
      BY <1>1, <1>4
    <3>2. CASE e = csCursor
      BY <1>0, <1>1, <2>2, <2>3, <3>1, <3>2
    <3>3. CASE e # csCursor
      BY <1>1, <3>1, <3>3
    <3>4. QED BY <3>2, <3>3
  <2>5. QED BY <1>1, <1>4, <2>1, <2>2, <2>3, <2>4 DEF Attempts
\* The others make no copy.
<1>5. ASSUME ~Inserted, \A e \in Nat : Copies(e)' <= Copies(e)
      PROVE  Attempts'
  <2>1. \A e \in Nat : /\ Copies(e)' \in 0 .. 3 /\ (Copies(e)' > 1 => e \in csRetried')
                       /\ e > csCursor => Copies(e)' = 0
    BY <1>1, <1>2, <1>3, <1>5
  <2>2. csCursor' \in {csCursor, csCursor + 1}
    BY DEF ScribeNext, IntentArrives, ScribeStarts, ScribeReads, ScribeInserts, ScribeCommits, ScribeAcks, ScribeGivesUp,
           ScribeCrashes, SecondPasses, ArchiveSelects, ArchiveWrites, ArchiveDeletes, ArchiveCrashes, csQueue
  <2>3. \A e \in Nat : e > csCursor' => Copies(e)' = 0
    BY <1>0, <2>1, <2>2
  <2>4. csDlq' \subseteq csRetried'
    <3>1. csScribe.at = "dlq" => csCursor \in csRetried
      BY <1>0, <1>1 DEF Working
    <3>2. csDlq' \subseteq csDlq \cup {e \in {csCursor} : csScribe.at = "dlq"}
      BY DEF ScribeNext, IntentArrives, ScribeStarts, ScribeReads, ScribeInserts, ScribeCommits, ScribeAcks, ScribeGivesUp,
             ScribeCrashes, SecondPasses, ArchiveSelects, ArchiveWrites, ArchiveDeletes, ArchiveCrashes
    <3>3. QED BY <1>1, <1>3, <3>1, <3>2
  <2>5. /\ Working' =>
             /\ csScribe'.at = "dlq" \/ csScribe'.failures <= 2
             /\ Copies(csCursor)' <= csScribe'.failures + (IF csScribe'.at \in {"commit", "ack"} THEN 1 ELSE 0)
             /\ csScribe'.failures > 0 => csCursor' \in csRetried'
        /\ csScribe'.at \in {"down", "reading"} => csScribe'.failures = 0
        /\ csScribe'.at = "dlq" => csScribe'.failures > 0
    <3>1. CASE csScribe' = csScribe /\ csCursor' = csCursor
      <4>1. (Copies(csCursor))' <= Copies(csCursor) /\ Copies(csCursor) \in Nat /\ (Copies(csCursor))' \in Nat
        <5>1. PICK c \in Nat : c = csCursor /\ (Copies(csCursor))' = Copies(c)'
          BY <1>33, <3>1
        <5>2. Copies(c)' <= Copies(c) /\ Copies(c)' \in Nat /\ Copies(c) \in Nat
          BY <1>1, <1>2, <1>5
        <5>3. QED BY <5>1, <5>2
      <4>2. Working' <=> Working
        BY <3>1 DEF Working
      <4>3. QED BY <1>0, <1>1, <1>3, <3>1, <4>1, <4>2
    <3>2. CASE csScribe' = Down \/ csScribe' = AtRead
      BY <3>2 DEF Down, AtRead, Working
    <3>3. CASE ScribeReads
      <4>1. csScribe'.at = "insert" /\ csScribe'.failures = 0 /\ csCursor' = csCursor + 1
        BY <1>0, <1>1, <3>3 DEF ScribeReads
      <4>2. csCursor' \in Nat /\ csCursor' > csCursor
        BY <1>0, <4>1
      <4>3. (Copies(csCursor))' = 0
        BY <2>3, <2>1, <4>2 DEF Copies
      <4>4. QED BY <4>1, <4>3
    <3>4. CASE EntryFails /\ csCursor' = csCursor /\ csScribe.at \in {"insert", "commit", "ack"}
      <4>1. csScribe'.failures = csScribe.failures + 1 /\ csCursor \in csRetried' /\ csScribe'.at \in {"insert", "dlq"}
            /\ (csScribe'.at = "dlq" <=> csScribe.failures = 2) /\ csScribe.failures \in 0 .. 2
        BY <1>0, <1>1, <3>4 DEF EntryFails, Working
      <4>2. Copies(csCursor) <= csScribe.failures + 1 /\ Copies(csCursor) \in Nat
        BY <1>0, <1>1, <3>4, <4>1 DEF Working
      <4>3. (Copies(csCursor))' <= Copies(csCursor) /\ (Copies(csCursor))' \in Nat
        <5>1. PICK c \in Nat : c = csCursor /\ (Copies(csCursor))' = Copies(c)'
          BY <1>33, <3>4
        <5>2. Copies(c)' <= Copies(c) /\ Copies(c)' \in Nat /\ Copies(c) \in Nat
          BY <1>1, <1>2, <1>5
        <5>3. QED BY <5>1, <5>2
      <4>4. QED BY <3>4, <4>1, <4>2, <4>3
    <3>5. CASE csScribe.at = "commit" /\ csScribe' = [csScribe EXCEPT !.at = "ack"] /\ csCursor' = csCursor
      <4>1. csScribe'.at = "ack" /\ csScribe'.failures = csScribe.failures
        BY <1>0, <3>5
      <4>2. (Copies(csCursor))' <= Copies(csCursor) /\ Copies(csCursor) \in Nat /\ (Copies(csCursor))' \in Nat
        <5>1. PICK c \in Nat : c = csCursor /\ (Copies(csCursor))' = Copies(c)'
          BY <1>33, <3>5
        <5>2. Copies(c)' <= Copies(c) /\ Copies(c)' \in Nat /\ Copies(c) \in Nat
          BY <1>1, <1>2, <1>5
        <5>3. QED BY <5>1, <5>2
      <4>3. QED BY <1>0, <1>1, <1>3, <3>5, <4>1, <4>2 DEF Working
    <3>6. \/ csScribe' = csScribe /\ csCursor' = csCursor
          \/ csScribe' = Down \/ csScribe' = AtRead
          \/ ScribeReads
          \/ EntryFails /\ csCursor' = csCursor /\ csScribe.at \in {"insert", "commit", "ack"}
          \/ csScribe.at = "commit" /\ csScribe' = [csScribe EXCEPT !.at = "ack"] /\ csCursor' = csCursor
      <4>1. ScribeInserts => EntryFails /\ csCursor' = csCursor /\ csScribe.at = "insert"
        BY <1>0, <1>5 DEF Inserted, ScribeInserts, csQueue
      <4>2. ScribeCommits \/ ScribeAcks =>
              \/ EntryFails /\ csCursor' = csCursor /\ csScribe.at \in {"commit", "ack"}
              \/ csScribe.at = "commit" /\ csScribe' = [csScribe EXCEPT !.at = "ack"] /\ csCursor' = csCursor
              \/ csScribe' = AtRead
        BY DEF ScribeCommits, ScribeAcks, csQueue
      <4>3. ScribeStarts \/ ScribeGivesUp => csScribe' = AtRead
        BY DEF ScribeStarts, ScribeGivesUp
      <4>4. ScribeCrashes => csScribe' = Down
        BY DEF ScribeCrashes
      <4>5. IntentArrives \/ SecondPasses \/ ArchiveWrites \/ ArchiveDeletes \/ ArchiveCrashes
              => csScribe' = csScribe /\ csCursor' = csCursor
        BY DEF IntentArrives, SecondPasses, ArchiveWrites, ArchiveDeletes, ArchiveCrashes, csQueue
      <4>6. \A old \in 1 .. Len(csRows) : ArchiveSelects(old) => csScribe' = csScribe /\ csCursor' = csCursor
        BY DEF ArchiveSelects, csQueue
      <4>7. QED BY <4>1, <4>2, <4>3, <4>4, <4>5, <4>6 DEF ScribeNext
    <3>7. QED BY <3>1, <3>2, <3>3, <3>4, <3>5, <3>6
  <2>6. QED BY <2>1, <2>3, <2>4, <2>5 DEF Attempts
<1>6. QED BY <1>0, <1>4, <1>5, CopiesMove

ScribeKept == AckedIntentIsKept /\ CopiesComeFromRetries /\ PendingIsWhatItDiedOver
LEMMA ScribeInvKeeps ==
    ASSUME ScribeInv
    PROVE  ScribeKept
<1>0. csRows \in Seq(Intents) /\ csCursor \in Nat
  BY DEF ScribeInv, ScribeTyped, Intents
<1>1. AckedIntentIsKept
  <2>1. \A e \in (1 .. csCursor) \ csPel : KeptHere(e)
    BY DEF ScribeInv, EntriesKept
  <2>2. ASSUME NEW e \in Range(csRows) PROVE Contains(csRows, e)
    BY <1>0, <2>2 DEF Range, Contains
  <2>3. QED BY <2>1, <2>2 DEF AckedIntentIsKept, KeptHere, Archived, Stored
<1>2. CopiesComeFromRetries
  <2>1. \A e \in Nat : Copies(e) \in 0 .. 3 /\ (Copies(e) > 1 => e \in csRetried)
    BY DEF ScribeInv, Attempts
  <2>2. csDlq \subseteq csRetried
    BY DEF ScribeInv, Attempts
  <2>3. ASSUME NEW e \in 1 .. csCursor
        PROVE  /\ Copies(e) <= 3
               /\ (Copies(e) > 1 \/ (e \in csDlq /\ (Stored(e) \/ Copies(e) > 0))) => e \in csRetried
    <3>1. e \in Nat
      BY <1>0
    <3>2. QED BY <2>1, <2>2, <3>1
  <2>4. QED BY <2>3 DEF CopiesComeFromRetries
<1>3. PendingIsWhatItDiedOver
  BY DEF ScribeInv, PendingOwed, Working, PendingIsWhatItDiedOver
<1>4. QED BY <1>1, <1>2, <1>3 DEF ScribeKept

\* What the scribe leaves, the stream and the archive together, is never lost.
LEMMA ScribeIsKept ==
    ScribeSpec => []ScribeKept
<1>1. ScribeInit => ScribeInv
  BY ScribeInitHolds
<1>2. ScribeInv /\ [ScribeNext]_csVars => ScribeInv'
  <2>1. ASSUME ScribeInv, ScribeNext PROVE ScribeInv'
    <3>1. ScribeTyped /\ ArchiveReady
      BY <2>1 DEF ScribeInv
    <3>2. QED BY <2>1, <3>1, ScribeTypedStays, ArchiveReadyStays, EntriesKeptStays, AttemptsStay, PendingOwedStays DEF ScribeInv
  <2>2. ASSUME ScribeInv, UNCHANGED csVars PROVE ScribeInv'
    BY <2>2 DEF csVars, ScribeInv, ScribeTyped, ArchiveReady, EntriesKept, Attempts, PendingOwed, KeptHere, Archived, Copies, Working
  <2>3. QED BY <2>1, <2>2
<1>3. ScribeInv => ScribeKept
  BY ScribeInvKeeps
<1>4. QED BY <1>1, <1>2, <1>3, PTL DEF ScribeSpec

-----------------------------------------------------------------------------
(* The facts and their vectors. *)

\* A set of naturals with a bound has a largest element.
LEMMA LargestExists ==
    ASSUME NEW n \in Nat, NEW S \in SUBSET (0 .. n), S # {}
    PROVE  Max(S) \in S /\ \A x \in S : Max(S) >= x
<1> DEFINE T == {m \in Nat : \A R \in SUBSET (0 .. m) : R # {} => \E x \in R : \A y \in R : x >= y}
<1>1. 0 \in T
  <2>1. ASSUME NEW R \in SUBSET (0 .. 0), R # {} PROVE \E x \in R : \A y \in R : x >= y
    <3>1. PICK x : x \in R
      BY <2>1, Zenon
    <3>2. \A y \in R : y = 0
      OBVIOUS
    <3>3. QED BY <3>1, <3>2
  <2>2. QED BY <2>1
<1>2. ASSUME NEW m \in Nat, m \in T PROVE m + 1 \in T
  <2>1. SUFFICES ASSUME NEW R \in SUBSET (0 .. m + 1), R # {} PROVE \E x \in R : \A y \in R : x >= y
    OBVIOUS
  <2>2. CASE m + 1 \in R
    BY <2>2
  <2>3. CASE m + 1 \notin R
    <3>1. R \in SUBSET (0 .. m)
      BY <2>3
    <3>2. QED BY <1>2, <2>1, <3>1
  <2>4. QED BY <2>2, <2>3
<1>3. Nat \subseteq T
  <2> HIDE DEF T
  <2>1. QED BY <1>1, <1>2, NatSetInduction
<1>4. \E x \in S : \A y \in S : x >= y
  BY <1>3
<1>5. QED BY <1>4 DEF Max

FactsTyped ==
  /\ ftWritten \in Nat /\ DOMAIN ftRows \subseteq 1 .. ftWritten
  /\ \A r \in DOMAIN ftRows : ftRows[r].fact \in Nat
VectorsMatch == \A r \in DOMAIN ftVec : r \in ftStale \/ (r \in DOMAIN ftRows /\ ftVec[r] = ftRows[r].fact)
FactsStand == \A f \in 1 .. ftWritten :
  f \in ftFile \cup ftCold \cup ftLost \/ \E r \in DOMAIN ftRows : ftRows[r].fact = f
FactsInv == FactsTyped /\ VectorsMatch /\ FactsStand

\* The next rowid is free in fact_store; vec_facts may still have it.
LEMMA NextRowidIsFree ==
    ASSUME FactsTyped
    PROVE  NextRowid \in 1 .. ftWritten + 1 /\ NextRowid \notin DOMAIN ftRows
<1> DEFINE rowids == DOMAIN ftRows \cup {0}
<1>1. rowids \in SUBSET (0 .. ftWritten) /\ rowids # {} /\ ftWritten \in Nat
  BY DEF FactsTyped
<1>2. Max(rowids) \in rowids /\ \A x \in rowids : Max(rowids) >= x
  <2> HIDE DEF rowids
  <2>1. QED BY <1>1, LargestExists
<1>3. PICK m \in 0 .. ftWritten : m = Max(rowids) /\ \A x \in rowids : m >= x
  <2> HIDE DEF rowids
  <2>1. QED BY <1>1, <1>2
<1>4. NextRowid = m + 1
  BY <1>3 DEF NextRowid
<1>5. m + 1 \notin DOMAIN ftRows
  <2>1. \A x \in DOMAIN ftRows : m >= x
    BY <1>3
  <2>2. QED BY <1>1, <2>1
<1>6. QED BY <1>1, <1>4, <1>5

LEMMA WriteFactKeeps ==
    ASSUME FactsInv, NEW low \in BOOLEAN, NEW embedded \in BOOLEAN, WriteFact(low, embedded)
    PROVE  FactsInv'
<1>0. /\ ftWritten \in Nat /\ DOMAIN ftRows \subseteq 1 .. ftWritten
      /\ \A r \in DOMAIN ftRows : ftRows[r].fact \in Nat
      /\ VectorsMatch /\ FactsStand
  BY DEF FactsInv, FactsTyped
<1>1. PICK n \in 1 .. ftWritten + 1 : n = NextRowid /\ n \notin DOMAIN ftRows
  BY NextRowidIsFree DEF FactsInv
<1> DEFINE row == With(ftRows, n, [fact |-> ftWritten + 1, low |-> low])
<1>2. /\ DOMAIN row = DOMAIN ftRows \cup {n} /\ row[n].fact = ftWritten + 1
      /\ \A r \in DOMAIN ftRows : row[r] = ftRows[r]
  BY <1>1 DEF With
<1>3. /\ ftWritten' = ftWritten + 1 /\ UNCHANGED <<ftFile, ftCold, ftStale>>
      /\ \/ ftRows' = row /\ ftLost' = ftLost
         \/ ftRows' = ftRows /\ ftLost' = ftLost \cup {ftWritten + 1}
      /\ \/ ftVec' = ftVec
         \/ n \notin DOMAIN ftVec /\ ftRows' = row /\ ftVec' = With(ftVec, n, ftWritten + 1)
  BY <1>1 DEF WriteFact
<1> HIDE DEF row
<1>4. FactsTyped'
  <2>1. DOMAIN ftRows' \subseteq DOMAIN ftRows \cup {n} /\ \A r \in DOMAIN ftRows' : ftRows'[r].fact \in Nat
    BY <1>0, <1>2, <1>3
  <2>2. QED BY <1>0, <1>3, <2>1 DEF FactsTyped
<1>5. VectorsMatch'
  <2>1. ASSUME NEW r \in DOMAIN ftVec PROVE r \in ftStale \/ (r \in DOMAIN ftRows' /\ ftVec[r] = ftRows'[r].fact)
    BY <1>0, <1>2, <1>3 DEF VectorsMatch
  <2>2. CASE ftVec' = ftVec
    BY <1>3, <2>1, <2>2 DEF VectorsMatch
  <2>3. CASE ftRows' = row /\ ftVec' = With(ftVec, n, ftWritten + 1)
    <3>1. DOMAIN ftVec' = DOMAIN ftVec \cup {n} /\ ftVec'[n] = ftWritten + 1
          /\ \A r \in DOMAIN ftVec : r # n => ftVec'[r] = ftVec[r]
      BY <2>3 DEF With
    <3>2. QED BY <1>2, <1>3, <2>1, <2>3, <3>1 DEF VectorsMatch
  <2>4. QED BY <1>3, <2>2, <2>3
<1>6. FactsStand'
  <2>1. SUFFICES ASSUME NEW f \in 1 .. ftWritten + 1
                 PROVE  f \in ftFile' \cup ftCold' \cup ftLost' \/ \E r \in DOMAIN ftRows' : ftRows'[r].fact = f
    BY <1>3 DEF FactsStand
  <2>2. CASE f = ftWritten + 1
    BY <1>2, <1>3, <2>2
  <2>3. CASE f \in 1 .. ftWritten
    BY <1>0, <1>2, <1>3, <2>3 DEF FactsStand
  <2>4. QED BY <1>0, <2>2, <2>3
<1>7. QED BY <1>4, <1>5, <1>6 DEF FactsInv

LEMMA PruneFactsKeeps ==
    ASSUME FactsInv, NEW sameSecond \in BOOLEAN, NEW ends \in {"both", "facts", "crash"}, PruneFacts(sameSecond, ends)
    PROVE  FactsInv'
<1>0. /\ ftWritten \in Nat /\ DOMAIN ftRows \subseteq 1 .. ftWritten
      /\ \A r \in DOMAIN ftRows : ftRows[r].fact \in Nat
      /\ VectorsMatch /\ FactsStand
  BY DEF FactsInv, FactsTyped
<1> DEFINE pruned == {ftRows[r].fact : r \in Prunable}
<1>1. Prunable \subseteq DOMAIN ftRows
  BY DEF Prunable
<1>2. /\ ftWritten' = ftWritten /\ ftFile' = pruned
      /\ \/ ftLost' = (ftLost \cup ftFile) \ pruned /\ ftCold' = ftCold
         \/ ftCold' = ftCold \cup ftFile /\ ftLost' = ftLost
      /\ ftRows' = IF ends = "crash" THEN ftRows ELSE [r \in DOMAIN ftRows \ Prunable |-> ftRows[r]]
      /\ ftVec' = IF ends = "both" THEN [r \in DOMAIN ftVec \ Prunable |-> ftVec[r]] ELSE ftVec
      /\ ftStale' = IF ends = "facts" THEN ftStale \cup (Prunable \cap DOMAIN ftVec) ELSE ftStale
  BY DEF PruneFacts, Restrict
<1>3. \A r \in Prunable : ftRows[r].fact \in ftFile'
  BY <1>2
<1>4. /\ DOMAIN ftRows' \subseteq DOMAIN ftRows /\ \A r \in DOMAIN ftRows' : ftRows'[r] = ftRows[r]
      /\ \A r \in DOMAIN ftRows : r \in DOMAIN ftRows' \/ r \in Prunable
  BY <1>2
<1>5. FactsTyped'
  BY <1>0, <1>2, <1>4 DEF FactsTyped
<1>6. VectorsMatch'
  <2>1. ASSUME NEW r \in DOMAIN ftVec' PROVE r \in ftStale' \/ (r \in DOMAIN ftRows' /\ ftVec'[r] = ftRows'[r].fact)
    <3>1. r \in DOMAIN ftVec /\ ftVec'[r] = ftVec[r] /\ (ends = "both" => r \notin Prunable)
      BY <1>2, <2>1
    <3>2. CASE r \in ftStale
      BY <1>2, <3>2
    <3>3. CASE r \notin ftStale
      <4>1. r \in DOMAIN ftRows /\ ftVec[r] = ftRows[r].fact
        BY <1>0, <3>1, <3>3 DEF VectorsMatch
      <4>2. CASE r \in Prunable /\ ends = "facts"
        BY <1>2, <3>1, <4>2
      <4>3. CASE r \notin Prunable \/ ends = "crash"
        BY <1>2, <1>4, <3>1, <4>1, <4>3
      <4>4. QED BY <3>1, <4>2, <4>3
    <3>4. QED BY <3>2, <3>3
  <2>2. QED BY <2>1 DEF VectorsMatch
<1>7. FactsStand'
  <2>1. SUFFICES ASSUME NEW f \in 1 .. ftWritten
                 PROVE  f \in ftFile' \cup ftCold' \cup ftLost' \/ \E r \in DOMAIN ftRows' : ftRows'[r].fact = f
    BY <1>2 DEF FactsStand
  <2>2. f \in ftFile \cup ftCold \cup ftLost \/ \E r \in DOMAIN ftRows : ftRows[r].fact = f
    BY <1>0 DEF FactsStand
  <2>3. CASE f \in ftFile \cup ftCold \cup ftLost
    BY <1>2, <2>3
  <2>4. CASE \E r \in DOMAIN ftRows : ftRows[r].fact = f
    BY <1>3, <1>4, <2>4
  <2>5. QED BY <2>2, <2>3, <2>4
<1>8. QED BY <1>5, <1>6, <1>7 DEF FactsInv

\* A fact is somewhere, and beside its own vector, for as many facts as are written.
LEMMA FactsKept ==
    FactsSpec => []FactsAreKept
<1>1. FactsInit => FactsInv
  BY DEF FactsInit, FactsInv, FactsTyped, VectorsMatch, FactsStand
<1>2. FactsInv /\ [FactsNext]_ftVars => FactsInv'
  <2>1. ASSUME FactsInv, FactsNext PROVE FactsInv'
    BY <2>1, WriteFactKeeps, PruneFactsKeeps DEF FactsNext
  <2>2. ASSUME FactsInv, UNCHANGED ftVars PROVE FactsInv'
    BY <2>2 DEF ftVars, FactsInv, FactsTyped, VectorsMatch, FactsStand
  <2>3. QED BY <2>1, <2>2
<1>3. FactsInv => FactsAreKept
  BY DEF FactsInv, VectorsMatch, FactsStand, FactsAreKept
<1>4. QED BY <1>1, <1>2, <1>3, PTL DEF FactsSpec

-----------------------------------------------------------------------------
(* The graph memory. *)

Words == RagContents \cup {"none"}
RagRows == [content : Words, conf : Nat, old : BOOLEAN]
Nodes == [id : Nat, content : Words, conf : Nat]
Places == {"idle", "store", "warm", "update", "insert", "promote", "decay", "toCold", "delete", "uncache", "cool"}
Works == [at : Places, id : Nat, content : Words, conf : Nat, read : Nat, todo : SUBSET (Nat \X RagRows)]
\* A table holds rows under ids given out before the next one.
Table(f, next) == DOMAIN f \subseteq 1 .. next - 1 /\ \A i \in DOMAIN f : f[i] \in RagRows
TablesTyped ==
  /\ irNext \in Nat \ {0} /\ irReheats \in Nat
  /\ Table(irWarm, irNext) /\ Table(irCold, irNext) /\ Table(irDisk.warm, irNext) /\ Table(irDisk.cold, irNext)
  /\ irDisk = [warm |-> irDisk.warm, cold |-> irDisk.cold]
WorksTyped ==
  /\ irThread \in [RagThreads -> Works]
  /\ \A t \in RagThreads : \A p \in irThread[t].todo : p[1] \in 1 .. irNext - 1
\* What is cached was stored.
HotStored == irHot \in Seq(Nodes) /\ \A node \in Range(irHot) : node.content \in irStored

\* A content has a row for each thread, less those about to insert one, and for each reheat.
Inserting(c) == {t \in RagThreads : irThread[t].at = "insert" /\ irThread[t].content = c}
DiskRows(c) == {i \in DOMAIN irDisk.warm : irDisk.warm[i].content = c}
RowsCounted == \A c :
  /\ Cardinality(RowsOf(c)) + Cardinality(Inserting(c)) <= Cardinality(RagThreads) + irReheats
  /\ Cardinality(DiskRows(c)) <= Cardinality(RagThreads) + irReheats

\* An id stands for one content, whoever holds a row of it.
Names(text, f) == \A i \in DOMAIN f : f[i].content = text[i]
NamesAll(text) ==
  /\ Names(text, irWarm) /\ Names(text, irCold) /\ Names(text, irDisk.warm) /\ Names(text, irDisk.cold)
  /\ \A t \in RagThreads : \A p \in irThread[t].todo : p[2].content = text[p[1]]
OneText == \E text \in [Nat -> Words] : NamesAll(text)

Here(c) == c \in Contents(irWarm) \cup Contents(irCold)
OnDisk(c) == c \in Contents(irDisk.warm) \cup Contents(irDisk.cold)
NextToArchive(t) == CHOOSE p \in irThread[t].todo : TRUE
\* What is stored, or about to be reported so, is in a table; without a reheat it stays so.
Remembered ==
  /\ \A c \in irStored : Here(c) /\ OnDisk(c)
  /\ \A t \in RagThreads :
       /\ irThread[t].at = "update" => Here(irThread[t].content)
       /\ irThread[t].at = "promote" => Here(irThread[t].content) /\ OnDisk(irThread[t].content)
       /\ irThread[t].at = "delete" => NextToArchive(t)[1] \in DOMAIN irCold
       /\ irThread[t].at # "cool"

RagTyped == TablesTyped /\ WorksTyped /\ HotStored
RagInv == RagTyped /\ RowsCounted /\ OneText /\ (irReheats = 0 => Remembered)
\* An element less, nothing new.
LEMMA RemovedFrom ==
    ASSUME NEW S, NEW s \in Seq(S), NEW i \in DOMAIN s
    PROVE  /\ RemoveAt(s, i) \in Seq(S) /\ \A x \in Range(RemoveAt(s, i)) : x \in Range(s)
<1>1. PICK n \in Nat : n = Len(s) /\ DOMAIN s = 1 .. n /\ i \in 1 .. n
  OBVIOUS
<1>2. SubSeq(s, 1, i - 1) \in Seq(S) /\ SubSeq(s, i + 1, n) \in Seq(S)
  BY <1>1
<1>3. \A x \in Range(SubSeq(s, 1, i - 1)) : x \in Range(s)
  <2>1. Len(SubSeq(s, 1, i - 1)) = i - 1
    BY <1>1
  <2>2. \A j \in 1 .. i - 1 : SubSeq(s, 1, i - 1)[j] = s[j]
    BY <1>1
  <2>3. DOMAIN SubSeq(s, 1, i - 1) = 1 .. i - 1
    BY <1>2, <2>1
  <2>4. QED BY <1>1, <2>2, <2>3 DEF Range
<1>4. \A x \in Range(SubSeq(s, i + 1, n)) : x \in Range(s)
  <2>1. Len(SubSeq(s, i + 1, n)) = n - i
    BY <1>1
  <2>2. \A j \in 1 .. n - i : SubSeq(s, i + 1, n)[j] = s[i + j]
    BY <1>1
  <2>3. DOMAIN SubSeq(s, i + 1, n) = 1 .. n - i
    BY <1>1, <1>2, <2>1
  <2>4. \A j \in 1 .. n - i : i + j \in 1 .. n
    BY <1>1
  <2>5. QED BY <1>1, <2>2, <2>3, <2>4 DEF Range
<1>5. RemoveAt(s, i) = SubSeq(s, 1, i - 1) \o SubSeq(s, i + 1, n)
  BY <1>1 DEF RemoveAt
<1>6. RemoveAt(s, i) \in Seq(S)
  BY <1>2, <1>5, ConcatProperties
<1>7. Range(RemoveAt(s, i)) = Range(SubSeq(s, 1, i - 1)) \cup Range(SubSeq(s, i + 1, n))
  BY <1>2, <1>5, RangeOfJoin
<1>8. QED BY <1>3, <1>4, <1>6, <1>7

LEMMA UncachedFrom ==
    ASSUME NEW hot \in Seq(Nodes), NEW id
    PROVE  Uncached(hot, id) \in Seq(Nodes) /\ \A node \in Range(Uncached(hot, id)) : node \in Range(hot)
<1> DEFINE places == {i \in DOMAIN hot : hot[i].id = id}
<1>1. CASE places = {}
  BY <1>1 DEF Uncached
<1>2. CASE places # {}
  <2>1. PICK i \in DOMAIN hot : Uncached(hot, id) = RemoveAt(hot, i)
    BY <1>2 DEF Uncached
  <2>2. QED BY <2>1, RemovedFrom
<1>3. QED BY <1>1, <1>2

LEMMA HotStoredStays ==
    ASSUME RagTyped, RagNext
    PROVE  HotStored'
<1>0. /\ irHot \in Seq(Nodes) /\ \A node \in Range(irHot) : node.content \in irStored
      /\ irThread \in [RagThreads -> Works]
  BY DEF RagTyped, HotStored, WorksTyped
<1>1. CASE irHot' = irHot /\ irStored \subseteq irStored'
  BY <1>0, <1>1 DEF HotStored
<1>2. ASSUME NEW t \in RagThreads, HotCheck(t) PROVE HotStored'
  <2>1. irThread[t] \in Works
    BY <1>0
  <2>2. CASE irHot' = irHot /\ irStored' = irStored
    BY <1>1, <2>2
  <2>3. ASSUME NEW i \in DOMAIN irHot, irHot[i].content = irThread[t].content,
               irHot' = Append(RemoveAt(irHot, i),
                          [irHot[i] EXCEPT !.conf = IF irThread[t].conf > @ THEN irThread[t].conf ELSE @]),
               irStored' = irStored \cup {irThread[t].content}
        PROVE  HotStored'
    <3> DEFINE node == [irHot[i] EXCEPT !.conf = IF irThread[t].conf > @ THEN irThread[t].conf ELSE @]
    <3>1. irHot[i] \in Nodes
      BY <1>0
    <3>2. node \in Nodes /\ node.content = irThread[t].content
      BY <2>1, <2>3, <3>1 DEF Nodes, Works
    <3> HIDE DEF node
    <3>3. RemoveAt(irHot, i) \in Seq(Nodes) /\ \A x \in Range(RemoveAt(irHot, i)) : x \in Range(irHot)
      BY <1>0, RemovedFrom
    <3>4. irHot' \in Seq(Nodes) /\ Range(irHot') = Range(RemoveAt(irHot, i)) \cup {node}
      BY <2>3, <3>2, <3>3, RangeOfAppend DEF node
    <3>5. QED BY <1>0, <2>3, <3>2, <3>3, <3>4 DEF HotStored
  <2>4. QED BY <1>2, <2>2, <2>3 DEF HotCheck
<1>3. ASSUME NEW t \in RagThreads, Promote(t) PROVE HotStored'
  <2>1. irThread[t] \in Works
    BY <1>0
  <2> DEFINE room == IF Len(irHot) >= HotCapacity THEN Tail(irHot) ELSE irHot
             node == Entry(irThread[t].id, irThread[t].content, irThread[t].conf)
  <2>2. irHot' = Append(Uncached(room, irThread[t].id), node) /\ irStored' = irStored \cup {irThread[t].content}
    BY <1>3 DEF Promote
  <2>3. node \in Nodes /\ node.content = irThread[t].content
    BY <2>1 DEF Entry, Works, Nodes
  <2>4. room \in Seq(Nodes) /\ \A x \in Range(room) : x \in Range(irHot)
    <3>1. CASE Len(irHot) >= HotCapacity
      <4>1. irHot # <<>>
        BY <1>0, <3>1, RagAssumption
      <4>2. QED BY <1>0, <3>1, <4>1, RangeOfTail
    <3>2. QED BY <1>0, <3>1
  <2> HIDE DEF room, node
  <2>5. Uncached(room, irThread[t].id) \in Seq(Nodes) /\ \A x \in Range(Uncached(room, irThread[t].id)) : x \in Range(room)
    BY <2>4, UncachedFrom
  <2>6. irHot' \in Seq(Nodes) /\ Range(irHot') = Range(Uncached(room, irThread[t].id)) \cup {node}
    BY <2>2, <2>3, <2>5, RangeOfAppend
  <2>7. QED BY <1>0, <2>2, <2>3, <2>4, <2>5, <2>6 DEF HotStored
<1>4. ASSUME NEW t \in RagThreads, Uncache(t) PROVE HotStored'
  <2>1. PICK id : irHot' = Uncached(irHot, id) /\ irStored' = irStored
    BY <1>4 DEF Uncache
  <2>2. QED BY <1>0, <2>1, UncachedFrom DEF HotStored
<1>5. CASE RagCrash
  <2>1. irHot' = <<>> /\ irStored' = irStored
    BY <1>5 DEF RagCrash
  <2>2. Range(<<>>) = {}
    BY DEF Range
  <2>3. QED BY <2>1, <2>2 DEF HotStored
<1>6. ASSUME NEW t \in RagThreads
      PROVE  /\ \A c, k : StoreCalled(t, c, k) => irHot' = irHot /\ irStored' = irStored
             /\ \A id, c, k : CorrectReads(t, id, c, k) => irHot' = irHot /\ irStored' = irStored
             /\ WarmCheck(t) \/ UpdateRow(t) \/ InsertRow(t) => irHot' = irHot /\ irStored \subseteq irStored'
             /\ CorrectDecays(t) \/ DecayConfidence(t) => irHot' = irHot /\ irStored' = irStored
             /\ \A least : Retrieve(t, least) => irHot' = irHot /\ irStored' = irStored
             /\ ArchiveBegins(t) \/ ArchiveRow(t) \/ ArchiveCommits(t) => irHot' = irHot /\ irStored' = irStored
             /\ \A id : ReheatInserts(t, id) => irHot' = irHot /\ irStored' = irStored
             /\ ReheatDeletes(t) => irHot' = irHot /\ irStored' = irStored
  BY DEF StoreCalled, CorrectReads, WarmCheck, UpdateRow, InsertRow, CorrectDecays, DecayConfidence, Retrieve, ArchiveBegins,
         ArchiveRow, ArchiveCommits, ReheatInserts, ReheatDeletes
<1>7. \A id : Ages(id) => irHot' = irHot /\ irStored' = irStored
  BY DEF Ages
<1>8. QED BY <1>1, <1>2, <1>3, <1>4, <1>5, <1>6, <1>7 DEF RagNext, StoreSteps

-----------------------------------------------------------------------------
\* Most steps change no content of a row, add no row and remove none.
SameTexts(f, h) == DOMAIN h = DOMAIN f /\ \A i \in DOMAIN f : h[i] \in RagRows /\ h[i].content = f[i].content
NextWork(t, w) ==
  /\ t \in RagThreads /\ w \in Works /\ irThread' = [irThread EXCEPT ![t] = w]
  /\ w.at \notin {"promote", "cool", "delete"}
  /\ w.at = "insert" => RowsOf(w.content) = {}
  /\ w.at = "update" => RowsOf(w.content) # {}
  /\ \A p \in w.todo : p \in irThread[t].todo \/ (p[1] \in DOMAIN irWarm /\ p[2] = irWarm[p[1]])
Quiet ==
  /\ SameTexts(irWarm, irWarm') /\ irCold' = irCold /\ irNext' = irNext /\ irReheats' = irReheats
  /\ \/ Commits
     \/ SameTexts(irDisk.warm, irDisk'.warm) /\ irDisk' = [warm |-> irDisk'.warm, cold |-> irDisk.cold]
  /\ irThread' = irThread \/ \E t \in RagThreads, w \in Works : NextWork(t, w)
  /\ \A c \in irStored' : \/ c \in irStored
                          \/ Commits /\ \E t \in RagThreads : irThread[t].at = "update" /\ c = irThread[t].content
                          \/ \E t \in RagThreads : irThread[t].at = "promote" /\ c = irThread[t].content

LEMMA SameTextsHere ==
    ASSUME RagTyped
    PROVE  SameTexts(irWarm, irWarm) /\ SameTexts(irDisk.warm, irDisk.warm)
BY DEF RagTyped, TablesTyped, Table, SameTexts

LEMMA NoWorkTyped ==
    /\ NoWork \in Works /\ NoWork.todo = {} /\ NoWork.at = "idle" /\ NoWork.id = 0 /\ NoWork.content = "none"
    /\ NoWork.conf = 0 /\ NoWork.read = 0
BY DEF NoWork, Works, Places, Words

\* A step that changes what a thread does and no table.
LEMMA ThreadQuiet ==
    ASSUME RagTyped, NEW t \in RagThreads, NEW w \in Works, NextWork(t, w),
           UNCHANGED <<irWarm, irCold, irDisk, irNext, irReheats>>,
           \A c \in irStored' : c \in irStored \/ (irThread[t].at = "promote" /\ c = irThread[t].content)
    PROVE  Quiet
<1>1. SameTexts(irWarm, irWarm') /\ SameTexts(irDisk.warm, irDisk'.warm) /\ irDisk' = [warm |-> irDisk'.warm, cold |-> irDisk.cold]
  BY SameTextsHere DEF RagTyped, TablesTyped
<1>2. QED BY <1>1 DEF Quiet

LEMMA ThreadSteps ==
    ASSUME RagTyped, NEW t \in RagThreads
    PROVE  /\ \A c \in RagContents, k \in 1 .. RagLevels : StoreCalled(t, c, k) => Quiet
           /\ \A c \in RagContents, k \in 1 .. RagLevels, id \in DOMAIN irWarm : CorrectReads(t, id, c, k) => Quiet
           /\ HotCheck(t) => Quiet
           /\ WarmCheck(t) => Quiet
           /\ Promote(t) => Quiet
           /\ Uncache(t) => Quiet
           /\ ArchiveBegins(t) => Quiet
<1>0. irThread[t] \in Works /\ irThread \in [RagThreads -> Works] /\ irNext \in Nat \ {0}
      /\ \A id \in DOMAIN irWarm : id \in 1 .. irNext - 1 /\ irWarm[id] \in RagRows
  BY DEF RagTyped, WorksTyped, TablesTyped, Table
<1>1. ASSUME NEW c \in RagContents, NEW k \in 1 .. RagLevels, StoreCalled(t, c, k) PROVE Quiet
  <2> DEFINE w == [NoWork EXCEPT !.at = "store", !.content = c, !.conf = k]
  <2>0. c \in Words /\ k \in Nat
    BY RagAssumption DEF Words
  <2>1. w \in Works /\ w.at = "store" /\ w.todo = {}
    BY <2>0, NoWorkTyped DEF Works, Places
  <2>2. irThread' = [irThread EXCEPT ![t] = w] /\ irStored' = irStored
        /\ UNCHANGED <<irWarm, irCold, irDisk, irNext, irReheats>>
    BY <1>1 DEF StoreCalled, Goes, Counters
  <2> HIDE DEF w
  <2>3. NextWork(t, w)
    BY <2>1, <2>2 DEF NextWork
  <2>4. QED BY <2>1, <2>2, <2>3, ThreadQuiet
<1>2. ASSUME NEW c \in RagContents, NEW k \in 1 .. RagLevels, NEW id \in DOMAIN irWarm, CorrectReads(t, id, c, k)
      PROVE  Quiet
  <2> DEFINE w == [NoWork EXCEPT !.at = "decay", !.id = id, !.content = c, !.conf = k, !.read = irWarm[id].conf]
  <2>0. c \in Words /\ k \in Nat
    BY RagAssumption DEF Words
  <2>1. id \in Nat /\ irWarm[id].conf \in Nat
    BY <1>0 DEF RagRows
  <2>2. w \in Works /\ w.at = "decay" /\ w.todo = {}
    BY <2>0, <2>1, NoWorkTyped DEF Works, Places
  <2>3. irThread' = [irThread EXCEPT ![t] = w] /\ irStored' = irStored
        /\ UNCHANGED <<irWarm, irCold, irDisk, irNext, irReheats>>
    BY <1>2 DEF CorrectReads, Goes, Counters
  <2> HIDE DEF w
  <2>4. NextWork(t, w)
    BY <2>2, <2>3 DEF NextWork
  <2>5. QED BY <2>2, <2>3, <2>4, ThreadQuiet
<1>3. ASSUME NEW work \in Works, irThread' = [irThread EXCEPT ![t] = work], work.todo = {},
             work.at \in {"idle", "warm"}
      PROVE  NextWork(t, work)
  BY <1>3 DEF NextWork
<1>4. NextWork(t, NoWork) \/ irThread' # [irThread EXCEPT ![t] = NoWork]
  BY <1>3, NoWorkTyped
<1>5. ASSUME HotCheck(t) PROVE Quiet
  <2>1. UNCHANGED <<irWarm, irCold, irDisk, irNext, irReheats>>
    BY <1>5 DEF HotCheck, Counters
  <2>2. CASE irThread' = [irThread EXCEPT ![t] = [irThread[t] EXCEPT !.at = "warm"]] /\ irStored' = irStored
    <3> DEFINE w == [irThread[t] EXCEPT !.at = "warm"]
    <3>1. w \in Works /\ w.at = "warm" /\ w.todo = irThread[t].todo
      BY <1>0 DEF Works, Places
    <3> HIDE DEF w
    <3>2. irThread' = [irThread EXCEPT ![t] = w]
      BY <2>2 DEF w
    <3>3. NextWork(t, w)
      BY <3>1, <3>2 DEF NextWork
    <3>4. QED BY <2>1, <2>2, <3>1, <3>3, ThreadQuiet
  <2>3. ASSUME NEW i \in DOMAIN irHot, irHot[i].content = irThread[t].content,
               irStored' = irStored \cup {irThread[t].content}, irThread' = [irThread EXCEPT ![t] = NoWork]
        PROVE  Quiet
    <3>1. irHot[i].content \in irStored
      BY DEF RagTyped, HotStored, Range
    <3>2. irStored' = irStored
      BY <2>3, <3>1
    <3>3. QED BY <1>4, <2>1, <2>3, <3>2, NoWorkTyped, ThreadQuiet
  <2>4. QED BY <1>5, <2>2, <2>3 DEF HotCheck, Goes, Returns
<1>6. ASSUME WarmCheck(t) PROVE Quiet
  <2>1. UNCHANGED <<irWarm, irCold, irDisk, irNext, irReheats>> /\ irStored' = irStored
    BY <1>6 DEF WarmCheck, Counters
  <2>2. CASE RowsOf(irThread[t].content) = {} /\ irThread' = [irThread EXCEPT ![t] = [irThread[t] EXCEPT !.at = "insert"]]
    <3> DEFINE w == [irThread[t] EXCEPT !.at = "insert"]
    <3>1. w \in Works /\ w.at = "insert" /\ w.todo = irThread[t].todo /\ w.content = irThread[t].content
      BY <1>0 DEF Works, Places
    <3> HIDE DEF w
    <3>2. irThread' = [irThread EXCEPT ![t] = w]
      BY <2>2 DEF w
    <3>3. NextWork(t, w)
      BY <2>2, <3>1, <3>2 DEF NextWork
    <3>4. QED BY <2>1, <3>1, <3>3, ThreadQuiet
  <2>3. ASSUME NEW id \in RowsOf(irThread[t].content),
               irThread' = [irThread EXCEPT ![t] =
                              [irThread[t] EXCEPT !.at = "update", !.id = id, !.read = irWarm[id].conf]]
        PROVE  Quiet
    <3> DEFINE w == [irThread[t] EXCEPT !.at = "update", !.id = id, !.read = irWarm[id].conf]
    <3>1. id \in Nat /\ irWarm[id].conf \in Nat
      BY <1>0 DEF RowsOf, RagRows
    <3>2. w \in Works /\ w.at = "update" /\ w.todo = irThread[t].todo /\ w.content = irThread[t].content
      BY <1>0, <3>1 DEF Works, Places
    <3> HIDE DEF w
    <3>3. irThread' = [irThread EXCEPT ![t] = w]
      BY <2>3 DEF w
    <3>4. RowsOf(w.content) # {}
      BY <3>2
    <3>5. NextWork(t, w)
      BY <3>2, <3>3, <3>4 DEF NextWork
    <3>6. QED BY <2>1, <3>2, <3>5, ThreadQuiet
  <2>4. QED BY <1>6, <2>2, <2>3 DEF WarmCheck, Goes
<1>7. ASSUME Promote(t) PROVE Quiet
  <2>1. /\ UNCHANGED <<irWarm, irCold, irDisk, irNext, irReheats>> /\ irThread[t].at = "promote"
        /\ irStored' = irStored \cup {irThread[t].content} /\ irThread' = [irThread EXCEPT ![t] = NoWork]
    BY <1>7 DEF Promote, Counters, At, Returns, Goes
  <2>2. QED BY <1>4, <2>1, NoWorkTyped, ThreadQuiet
<1>8. ASSUME Uncache(t) PROVE Quiet
  <2>1. /\ UNCHANGED <<irWarm, irCold, irDisk, irNext, irReheats>> /\ irStored' = irStored
        /\ \E p : irThread' = [irThread EXCEPT ![t] = [irThread[t] EXCEPT !.at = "toCold", !.todo = irThread[t].todo \ {p}]]
    BY <1>8 DEF Uncache, Counters, Goes
  <2>2. PICK p : irThread' = [irThread EXCEPT ![t] = [irThread[t] EXCEPT !.at = "toCold", !.todo = irThread[t].todo \ {p}]]
    BY <2>1
  <2> DEFINE w == [irThread[t] EXCEPT !.at = "toCold", !.todo = irThread[t].todo \ {p}]
  <2>3. irThread[t].todo \ {p} \in SUBSET (Nat \X RagRows)
    BY <1>0 DEF Works
  <2>4. w \in Works /\ w.at = "toCold" /\ w.todo = irThread[t].todo \ {p}
    BY <1>0, <2>3 DEF Works, Places
  <2> HIDE DEF w
  <2>5. NextWork(t, w)
    BY <2>2, <2>4 DEF NextWork, w
  <2>6. QED BY <2>1, <2>4, <2>5, ThreadQuiet
<1>9. ASSUME ArchiveBegins(t) PROVE Quiet
  <2>1. UNCHANGED <<irWarm, irCold, irDisk, irNext, irReheats>> /\ irStored' = irStored
    BY <1>9 DEF ArchiveBegins, Counters
  <2>2. PICK ids \in Surplus \cup {StaleRow} :
           irThread' = [irThread EXCEPT ![t] = [NoWork EXCEPT !.at = "toCold", !.todo = {<<id, irWarm[id]>> : id \in ids}]]
    BY <1>9 DEF ArchiveBegins, Goes
  <2>3. ids \subseteq DOMAIN irWarm
    BY DEF Surplus, StaleRow
  <2> DEFINE pairs == {<<id, irWarm[id]>> : id \in ids}
             w == [NoWork EXCEPT !.at = "toCold", !.todo = pairs]
  <2>4. \A p \in pairs : p \in Nat \X RagRows /\ p[1] \in DOMAIN irWarm /\ p[2] = irWarm[p[1]]
    BY <1>0, <2>3
  <2>5. irThread' = [irThread EXCEPT ![t] = w]
    BY <2>2
  <2> HIDE DEF pairs
  <2>6. pairs \in SUBSET (Nat \X RagRows)
    BY <2>4
  <2>7. w \in Works /\ w.at = "toCold" /\ w.todo = pairs
    BY <2>6, NoWorkTyped DEF Works, Places
  <2> HIDE DEF w
  <2>8. NextWork(t, w)
    BY <2>4, <2>5, <2>7 DEF NextWork
  <2>9. QED BY <2>1, <2>7, <2>8, ThreadQuiet
<1>10. QED BY <1>1, <1>2, <1>5, <1>6, <1>7, <1>8, <1>9

LEMMA RowSteps ==
    ASSUME RagTyped, NEW t \in RagThreads
    PROVE  /\ UpdateRow(t) => Quiet
           /\ CorrectDecays(t) => Quiet
           /\ DecayConfidence(t) => Quiet
           /\ \A least : Retrieve(t, least) => Quiet
           /\ ArchiveCommits(t) => Quiet
<1>0. /\ irThread[t] \in Works /\ irThread \in [RagThreads -> Works]
      /\ \A id \in DOMAIN irWarm : irWarm[id] \in RagRows
      /\ irThread[t].conf \in Nat /\ irThread[t].read \in Nat
  BY DEF RagTyped, WorksTyped, TablesTyped, Table, Works
<1>1. ASSUME NEW w \in Works, irThread' = [irThread EXCEPT ![t] = w], w.at \in {"idle", "store"}, w.todo \subseteq irThread[t].todo
      PROVE  NextWork(t, w)
  BY <1>1 DEF NextWork
<1>2. ASSUME NEW row \in RagRows, NEW conf \in Nat
      PROVE  [row EXCEPT !.conf = conf] \in RagRows /\ [row EXCEPT !.conf = conf].content = row.content
             /\ [row EXCEPT !.old = FALSE] \in RagRows /\ [row EXCEPT !.old = FALSE].content = row.content
             /\ Row(row.content, conf, FALSE) \in RagRows /\ Row(row.content, conf, FALSE).content = row.content
             /\ Decayed(row.conf) \in Nat /\ row.conf \in Nat
  <2>1. row.conf \in Nat /\ row.content \in Words
    BY DEF RagRows
  <2>2. [row EXCEPT !.conf = conf] \in RagRows /\ [row EXCEPT !.conf = conf].content = row.content
    BY DEF RagRows
  <2>3. [row EXCEPT !.old = FALSE] \in RagRows /\ [row EXCEPT !.old = FALSE].content = row.content
    BY DEF RagRows
  <2>4. Row(row.content, conf, FALSE) \in RagRows /\ Row(row.content, conf, FALSE).content = row.content
    BY <2>1 DEF RagRows, Row
  <2>5. \A n \in Nat : Decayed(n) \in Nat
    BY DEF Decayed
  <2>6. QED BY <2>1, <2>2, <2>3, <2>4, <2>5
<1>3. ASSUME UpdateRow(t) PROVE Quiet
  <2> DEFINE id == irThread[t].id
             conf == Confidence(irThread[t], irWarm[id])
  <2>1. /\ irThread[t].at = "update" /\ irStored' = irStored \cup {irThread[t].content} /\ Commits
        /\ irThread' = [irThread EXCEPT ![t] = NoWork] /\ UNCHANGED <<irCold, irNext, irReheats>>
    BY <1>3 DEF UpdateRow, At, Returns, Goes, Counters
  <2>2. irWarm' = irWarm \/ (id \in DOMAIN irWarm /\ irWarm' = [irWarm EXCEPT ![id] = Row(irWarm[id].content, conf, FALSE)])
    BY <1>3 DEF UpdateRow
  <2>3. id \in DOMAIN irWarm => conf \in Nat
    BY <1>0, <1>2 DEF Confidence
  <2> HIDE DEF conf
  <2>4. SameTexts(irWarm, irWarm')
    <3>1. CASE irWarm' = irWarm
      BY <3>1, SameTextsHere
    <3>2. CASE id \in DOMAIN irWarm /\ irWarm' = [irWarm EXCEPT ![id] = Row(irWarm[id].content, conf, FALSE)]
      <4>1. Row(irWarm[id].content, conf, FALSE) \in RagRows /\ Row(irWarm[id].content, conf, FALSE).content = irWarm[id].content
        BY <1>0, <1>2, <2>3, <3>2
      <4>2. QED BY <1>0, <3>2, <4>1 DEF SameTexts
    <3>3. QED BY <2>2, <3>1, <3>2
  <2>5. NextWork(t, NoWork)
    BY <1>1, <2>1, NoWorkTyped
  <2>6. QED BY <2>1, <2>4, <2>5, NoWorkTyped DEF Quiet
<1>4. ASSUME CorrectDecays(t) PROVE Quiet
  <2> DEFINE id == irThread[t].id
             conf == Decayed(irThread[t].read)
             w == [irThread[t] EXCEPT !.at = "store"]
  <2>1. /\ irStored' = irStored /\ Commits
        /\ irThread' = [irThread EXCEPT ![t] = w] /\ UNCHANGED <<irCold, irNext, irReheats>>
    BY <1>4 DEF CorrectDecays, Goes, Counters
  <2>2. irWarm' = irWarm \/ (id \in DOMAIN irWarm /\ irWarm' = [irWarm EXCEPT ![id] = [irWarm[id] EXCEPT !.conf = conf]])
    BY <1>4 DEF CorrectDecays
  <2>3. conf \in Nat
    BY <1>0 DEF Decayed
  <2>4. w \in Works /\ w.at = "store" /\ w.todo = irThread[t].todo
    BY <1>0 DEF Works, Places
  <2> HIDE DEF conf, w
  <2>5. SameTexts(irWarm, irWarm')
    <3>1. CASE irWarm' = irWarm
      BY <3>1, SameTextsHere
    <3>2. CASE id \in DOMAIN irWarm /\ irWarm' = [irWarm EXCEPT ![id] = [irWarm[id] EXCEPT !.conf = conf]]
      <4>1. [irWarm[id] EXCEPT !.conf = conf] \in RagRows /\ [irWarm[id] EXCEPT !.conf = conf].content = irWarm[id].content
        BY <1>0, <1>2, <2>3, <3>2
      <4>2. QED BY <1>0, <3>2, <4>1 DEF SameTexts
    <3>3. QED BY <2>2, <3>1, <3>2
  <2>6. NextWork(t, w)
    BY <1>1, <2>1, <2>4
  <2>7. QED BY <2>1, <2>4, <2>5, <2>6 DEF Quiet
<1>5. ASSUME DecayConfidence(t) PROVE Quiet
  <2>1. irStored' = irStored /\ Commits /\ irThread' = irThread /\ UNCHANGED <<irCold, irNext, irReheats>>
    BY <1>5 DEF DecayConfidence, Counters
  <2>2. irWarm' = [id \in DOMAIN irWarm |->
           IF irWarm[id].old THEN [irWarm[id] EXCEPT !.conf = Decayed(irWarm[id].conf)] ELSE irWarm[id]]
    BY <1>5 DEF DecayConfidence
  <2>3. \A id \in DOMAIN irWarm : [irWarm[id] EXCEPT !.conf = Decayed(irWarm[id].conf)] \in RagRows
          /\ [irWarm[id] EXCEPT !.conf = Decayed(irWarm[id].conf)].content = irWarm[id].content
    BY <1>0, <1>2
  <2>4. SameTexts(irWarm, irWarm')
    BY <1>0, <2>2, <2>3 DEF SameTexts
  <2>5. QED BY <2>1, <2>4 DEF Quiet
<1>6. ASSUME NEW least, Retrieve(t, least) PROVE Quiet
  <2>1. irStored' = irStored /\ Commits /\ irThread' = irThread /\ UNCHANGED <<irCold, irNext, irReheats>>
    BY <1>6 DEF Retrieve, Counters
  <2>2. /\ DOMAIN irWarm' = DOMAIN irWarm
        /\ \A id \in DOMAIN irWarm : irWarm'[id] \in {irWarm[id], [irWarm[id] EXCEPT !.old = FALSE]}
    BY <1>6 DEF Retrieve
  <2>3. SameTexts(irWarm, irWarm')
    BY <1>0, <1>2, <2>2 DEF SameTexts
  <2>4. QED BY <2>1, <2>3 DEF Quiet
<1>7. ASSUME ArchiveCommits(t) PROVE Quiet
  <2>1. /\ irStored' = irStored /\ Commits /\ irThread' = [irThread EXCEPT ![t] = NoWork]
        /\ UNCHANGED <<irWarm, irCold, irNext, irReheats>>
    BY <1>7 DEF ArchiveCommits, Returns, Goes, Counters
  <2>2. NextWork(t, NoWork)
    BY <1>1, <2>1, NoWorkTyped
  <2>3. SameTexts(irWarm, irWarm')
    BY <2>1, SameTextsHere
  <2>4. QED BY <2>1, <2>2, <2>3, NoWorkTyped DEF Quiet
<1>8. QED BY <1>3, <1>4, <1>5, <1>6, <1>7

LEMMA AgesQuietly ==
    ASSUME RagTyped, NEW id \in DOMAIN irWarm, Ages(id)
    PROVE  Quiet
<1>0. /\ \A i \in DOMAIN irWarm : irWarm[i] \in RagRows
      /\ \A i \in DOMAIN irDisk.warm : irDisk.warm[i] \in RagRows
      /\ irDisk = [warm |-> irDisk.warm, cold |-> irDisk.cold]
  BY DEF RagTyped, TablesTyped, Table
<1>1. ASSUME NEW row \in RagRows
      PROVE  [row EXCEPT !.old = TRUE] \in RagRows /\ [row EXCEPT !.old = TRUE].content = row.content
  BY DEF RagRows
<1>2. /\ irWarm' = [irWarm EXCEPT ![id].old = TRUE] /\ irThread' = irThread /\ irStored' = irStored
      /\ UNCHANGED <<irCold, irNext, irReheats>>
      /\ irDisk' = IF id \in DOMAIN irDisk.warm THEN [irDisk EXCEPT !.warm[id].old = TRUE] ELSE irDisk
  BY DEF Ages, Counters
<1>3. SameTexts(irWarm, irWarm')
  BY <1>0, <1>1, <1>2 DEF SameTexts
<1>4. SameTexts(irDisk.warm, irDisk'.warm) /\ irDisk' = [warm |-> irDisk'.warm, cold |-> irDisk.cold]
  <2>1. CASE id \notin DOMAIN irDisk.warm
    BY <1>0, <1>2, <2>1, SameTextsHere
  <2>2. CASE id \in DOMAIN irDisk.warm
    <3>1. irDisk'.warm = [irDisk.warm EXCEPT ![id].old = TRUE] /\ irDisk' = [warm |-> irDisk'.warm, cold |-> irDisk.cold]
      BY <1>0, <1>2, <2>2
    <3>2. QED BY <1>0, <1>1, <3>1 DEF SameTexts
  <2>3. QED BY <2>1, <2>2
<1>5. QED BY <1>2, <1>3, <1>4 DEF Quiet

\* The steps that are not: they insert a row, move one, or lose what was not committed.
LEMMA QuietOrNot ==
    ASSUME RagTyped, RagNext
    PROVE  \/ Quiet \/ RagCrash
           \/ \E t \in RagThreads : InsertRow(t) \/ ArchiveRow(t) \/ ReheatDeletes(t)
           \/ \E t \in RagThreads, id \in DOMAIN irCold : ReheatInserts(t, id)
BY ThreadSteps, RowSteps, AgesQuietly DEF RagNext, StoreSteps

-----------------------------------------------------------------------------
LEMMA InsertFacts ==
    ASSUME RagTyped, NEW t \in RagThreads, InsertRow(t)
    PROVE  \E row \in RagRows, w \in Works :
             /\ irThread[t].at = "insert" /\ row.content = irThread[t].content
             /\ w.at = "promote" /\ w.content = irThread[t].content /\ w.todo = irThread[t].todo
             /\ irThread' = [irThread EXCEPT ![t] = w] /\ irWarm' = With(irWarm, irNext, row) /\ irNext' = irNext + 1
             /\ irCold' = irCold /\ irReheats' = irReheats /\ irStored' = irStored /\ Commits
<1>0. irThread[t] \in Works /\ irNext \in Nat
  BY DEF RagTyped, WorksTyped, TablesTyped
<1> DEFINE row == Row(irThread[t].content, irThread[t].conf, FALSE)
           w == [irThread[t] EXCEPT !.at = "promote", !.id = irNext]
<1>1. row \in RagRows /\ row.content = irThread[t].content
  BY <1>0 DEF Works, RagRows, Row
<1>2. w \in Works /\ w.at = "promote" /\ w.content = irThread[t].content /\ w.todo = irThread[t].todo
  BY <1>0 DEF Works, Places
<1>3. /\ irThread[t].at = "insert" /\ irThread' = [irThread EXCEPT ![t] = w] /\ irWarm' = With(irWarm, irNext, row)
      /\ irNext' = irNext + 1 /\ irCold' = irCold /\ irReheats' = irReheats /\ irStored' = irStored /\ Commits
  BY DEF InsertRow, At, Goes
<1> HIDE DEF row, w
<1>4. QED BY <1>1, <1>2, <1>3

LEMMA ArchiveFacts ==
    ASSUME RagTyped, NEW t \in RagThreads, ArchiveRow(t)
    PROVE  \E p \in irThread[t].todo, w \in Works :
             /\ p = NextToArchive(t) /\ p[1] \in 1 .. irNext - 1 /\ p[2] \in RagRows
             /\ w.todo = irThread[t].todo /\ irThread' = [irThread EXCEPT ![t] = w]
             /\ UNCHANGED <<irDisk, irNext, irReheats, irStored>>
             /\ \/ /\ irThread[t].at = "toCold" /\ w.at = "delete"
                   /\ irCold' = With(irCold, p[1], p[2]) /\ irWarm' = irWarm
                \/ /\ irThread[t].at = "delete" /\ w.at = "uncache"
                   /\ irWarm' = WithoutRow(irWarm, p[1]) /\ irCold' = irCold
<1>0. irThread[t] \in Works /\ irThread[t].todo \subseteq Nat \X RagRows
      /\ \A p \in irThread[t].todo : p[1] \in 1 .. irNext - 1
  BY DEF RagTyped, WorksTyped, Works
<1>1. /\ irThread[t].at \in {"toCold", "delete"} /\ irThread[t].todo # {}
      /\ UNCHANGED <<irDisk, irNext, irReheats, irStored>>
  BY DEF ArchiveRow, Counters
<1>2. NextToArchive(t) \in irThread[t].todo
  BY <1>1 DEF NextToArchive
<1>3. PICK p \in irThread[t].todo : p = NextToArchive(t)
  BY <1>2
<1> DEFINE w == [irThread[t] EXCEPT !.at = IF irThread[t].at = "toCold" THEN "delete" ELSE "uncache"]
<1>4. w \in Works /\ w.todo = irThread[t].todo /\ w.at = (IF irThread[t].at = "toCold" THEN "delete" ELSE "uncache")
  BY <1>0 DEF Works, Places
<1>5. irThread' = [irThread EXCEPT ![t] = w]
  BY DEF ArchiveRow, Goes
<1>6. IF irThread[t].at = "delete" THEN irWarm' = WithoutRow(irWarm, p[1]) /\ irCold' = irCold
                                   ELSE irCold' = With(irCold, p[1], p[2]) /\ irWarm' = irWarm
  BY <1>3 DEF ArchiveRow, DeletesNow, NextToArchive
<1> HIDE DEF w
<1>7. p[1] \in 1 .. irNext - 1 /\ p[2] \in RagRows
  BY <1>0
<1>8. QED BY <1>1, <1>3, <1>4, <1>5, <1>6, <1>7

LEMMA ReheatFacts ==
    ASSUME RagTyped, NEW t \in RagThreads, NEW id \in DOMAIN irCold, ReheatInserts(t, id)
    PROVE  \E row \in RagRows, w \in Works :
             /\ id \in 1 .. irNext - 1 /\ row.content = irCold[id].content /\ w.at = "cool" /\ w.todo = {}
             /\ irThread' = [irThread EXCEPT ![t] = w] /\ irWarm' = With(irWarm, id, row) /\ irReheats' = irReheats + 1
             /\ UNCHANGED <<irCold, irDisk, irNext, irStored>>
<1>0. irCold[id] \in RagRows /\ id \in 1 .. irNext - 1 /\ irNext \in Nat /\ id \in Nat
  BY DEF RagTyped, TablesTyped, Table
<1> DEFINE row == [irCold[id] EXCEPT !.old = FALSE]
           w == [NoWork EXCEPT !.at = "cool", !.id = id]
<1>1. row \in RagRows /\ row.content = irCold[id].content
  BY <1>0 DEF RagRows
<1>2. w \in Works /\ w.at = "cool" /\ w.todo = {}
  BY <1>0, NoWorkTyped DEF Works, Places
<1>3. irThread' = [irThread EXCEPT ![t] = w] /\ irWarm' = With(irWarm, id, row) /\ irReheats' = irReheats + 1
      /\ UNCHANGED <<irCold, irDisk, irNext, irStored>>
  BY DEF ReheatInserts, Goes
<1> HIDE DEF row, w
<1>4. QED BY <1>0, <1>1, <1>2, <1>3

LEMMA CoolFacts ==
    ASSUME RagTyped, NEW t \in RagThreads, ReheatDeletes(t)
    PROVE  \E w \in Works :
             /\ irThread[t].at = "cool" /\ w.at \in {"idle", "promote"} /\ w.todo \subseteq irThread[t].todo
             /\ irThread' = [irThread EXCEPT ![t] = w] /\ irCold' = WithoutRow(irCold, irThread[t].id) /\ irWarm' = irWarm
             /\ irNext' = irNext /\ irReheats' = irReheats /\ irStored' = irStored /\ Commits
<1>0. irThread[t] \in Works /\ \A id \in DOMAIN irWarm : irWarm[id] \in RagRows
  BY DEF RagTyped, WorksTyped, TablesTyped, Table
<1> DEFINE row == irWarm[irThread[t].id]
           w == [irThread[t] EXCEPT !.at = "promote", !.content = row.content, !.conf = row.conf]
<1>1. /\ irThread[t].at = "cool" /\ irCold' = WithoutRow(irCold, irThread[t].id) /\ irWarm' = irWarm
      /\ irNext' = irNext /\ irReheats' = irReheats /\ irStored' = irStored /\ Commits
  BY DEF ReheatDeletes, At, Counters
<1>2. CASE irThread[t].id \notin DOMAIN irWarm
  <2>1. irThread' = [irThread EXCEPT ![t] = NoWork]
    BY <1>1, <1>2 DEF ReheatDeletes, Goes
  <2>2. QED BY <1>1, <2>1, NoWorkTyped
<1>3. CASE irThread[t].id \in DOMAIN irWarm
  <2>1. irThread' = [irThread EXCEPT ![t] = w]
    BY <1>1, <1>3 DEF ReheatDeletes, Goes
  <2>2. row.content \in Words /\ row.conf \in Nat
    BY <1>0, <1>3 DEF RagRows
  <2>3. w \in Works /\ w.at = "promote" /\ w.todo = irThread[t].todo
    BY <1>0, <2>2 DEF Works, Places
  <2> HIDE DEF row, w
  <2>4. QED BY <1>1, <2>1, <2>3
<1>4. QED BY <1>2, <1>3

LEMMA TableOps ==
    ASSUME NEW n \in Nat \ {0}, NEW f, Table(f, n)
    PROVE  /\ Table(f, n + 1)
           /\ \A i \in 1 .. n - 1, row \in RagRows : Table(With(f, i, row), n)
           /\ \A row \in RagRows : Table(With(f, n, row), n + 1)
           /\ \A i : Table(WithoutRow(f, i), n)
           /\ \A h : SameTexts(f, h) => Table(h, n)
BY DEF Table, With, WithoutRow, SameTexts

LEMMA MoreIds ==
    ASSUME NEW n \in Nat, NEW m \in Nat, m >= n
    PROVE  \A x \in 1 .. n - 1 : x \in 1 .. m - 1
OBVIOUS

\* A thread that takes up other work, all of it typed.
LEMMA WorksTypedStay ==
    ASSUME RagTyped, NEW t \in RagThreads, NEW w \in Works, irThread' = [irThread EXCEPT ![t] = w],
           irNext' \in Nat, irNext' >= irNext, \A p \in w.todo : p[1] \in 1 .. irNext - 1
    PROVE  WorksTyped'
<1>0. irThread \in [RagThreads -> Works] /\ irNext \in Nat
      /\ \A s \in RagThreads : \A p \in irThread[s].todo : p[1] \in 1 .. irNext - 1
  BY DEF RagTyped, WorksTyped, TablesTyped
<1>1. \A s \in RagThreads : irThread'[s] = IF s = t THEN w ELSE irThread[s]
  BY <1>0
<1>2. \A s \in RagThreads : \A p \in irThread'[s].todo : p[1] \in 1 .. irNext - 1
  BY <1>0, <1>1
<1>3. \A x \in 1 .. irNext - 1 : x \in 1 .. irNext' - 1
  <2>1. PICK n \in Nat, m \in Nat : n = irNext /\ m = irNext' /\ m >= n
    BY <1>0
  <2>2. \A x \in 1 .. n - 1 : x \in 1 .. m - 1
    BY <2>1, MoreIds, Zenon
  <2>3. QED BY <2>1, <2>2
<1>4. irThread' \in [RagThreads -> Works]
  BY <1>0
<1>5. QED BY <1>2, <1>3, <1>4 DEF WorksTyped

LEMMA RagTypedStays ==
    ASSUME RagTyped, RagNext
    PROVE  RagTyped'
<1>0. /\ irNext \in Nat \ {0} /\ irReheats \in Nat
      /\ Table(irWarm, irNext) /\ Table(irCold, irNext) /\ Table(irDisk.warm, irNext) /\ Table(irDisk.cold, irNext)
      /\ irThread \in [RagThreads -> Works] /\ \A t \in RagThreads : \A p \in irThread[t].todo : p[1] \in 1 .. irNext - 1
      /\ irDisk = [warm |-> irDisk.warm, cold |-> irDisk.cold]
  BY DEF RagTyped, TablesTyped, WorksTyped
<1>1. HotStored'
  BY HotStoredStays
<1>2. ASSUME irNext' \in Nat \ {0}, irReheats' \in Nat, Table(irWarm', irNext'), Table(irCold', irNext'), Commits, WorksTyped'
      PROVE  RagTyped'
  <2>1. irDisk'.warm = irWarm' /\ irDisk'.cold = irCold' /\ irDisk' = [warm |-> irDisk'.warm, cold |-> irDisk'.cold]
    BY <1>2 DEF Commits
  <2>2. QED BY <1>1, <1>2, <2>1 DEF RagTyped, TablesTyped
<1>3. ASSUME irNext' = irNext, irReheats' \in Nat, Table(irWarm', irNext), Table(irCold', irNext), irDisk' = irDisk, WorksTyped'
      PROVE  RagTyped'
  BY <1>0, <1>1, <1>3 DEF RagTyped, TablesTyped
<1>4. CASE Quiet
  <2>1. Table(irWarm', irNext) /\ irCold' = irCold /\ irNext' = irNext /\ irReheats' = irReheats
    BY <1>0, <1>4, TableOps DEF Quiet
  <2>2. WorksTyped'
    <3>1. CASE irThread' = irThread
      BY <1>0, <2>1, <3>1 DEF WorksTyped
    <3>2. ASSUME NEW t \in RagThreads, NEW w \in Works, NextWork(t, w) PROVE WorksTyped'
      <4>1. \A p \in w.todo : p[1] \in 1 .. irNext - 1
        BY <1>0, <3>2 DEF NextWork, Table
      <4>2. irNext' \in Nat /\ irNext' >= irNext /\ irThread' = [irThread EXCEPT ![t] = w]
        BY <1>0, <2>1, <3>2 DEF NextWork
      <4>3. QED BY <4>1, <4>2, WorksTypedStay, Zenon
    <3>3. QED BY <1>4, <3>1, <3>2 DEF Quiet
  <2>3. CASE Commits
    BY <1>0, <1>2, <2>1, <2>2, <2>3
  <2>4. CASE SameTexts(irDisk.warm, irDisk'.warm) /\ irDisk' = [warm |-> irDisk'.warm, cold |-> irDisk.cold]
    <3>1. irDisk'.cold = irDisk.cold
      BY <2>4
    <3>2. Table(irDisk'.warm, irNext) /\ Table(irDisk'.cold, irNext) /\ irDisk' = [warm |-> irDisk'.warm, cold |-> irDisk'.cold]
      BY <1>0, <2>4, <3>1, TableOps
    <3>3. QED BY <1>0, <1>1, <2>1, <2>2, <3>2 DEF RagTyped, TablesTyped
  <2>5. QED BY <1>4, <2>3, <2>4 DEF Quiet
<1>5. ASSUME NEW t \in RagThreads, InsertRow(t) PROVE RagTyped'
  <2>1. PICK row \in RagRows, w \in Works :
          /\ w.todo = irThread[t].todo /\ irThread' = [irThread EXCEPT ![t] = w] /\ irWarm' = With(irWarm, irNext, row)
          /\ irNext' = irNext + 1 /\ irCold' = irCold /\ irReheats' = irReheats /\ Commits
    BY <1>5, InsertFacts
  <2>2. WorksTyped'
    <3>1. irNext' \in Nat /\ irNext' >= irNext /\ irThread' = [irThread EXCEPT ![t] = w]
          /\ \A q \in w.todo : q[1] \in 1 .. irNext - 1
      BY <1>0, <2>1
    <3>2. QED BY <3>1, WorksTypedStay, Zenon
  <2>3. Table(irWarm', irNext') /\ Table(irCold', irNext')
    BY <1>0, <2>1, TableOps
  <2>4. QED BY <1>0, <1>2, <2>1, <2>2, <2>3
<1>6. ASSUME NEW t \in RagThreads, ArchiveRow(t) PROVE RagTyped'
  <2>1. PICK p \in irThread[t].todo, w \in Works :
          /\ p[1] \in 1 .. irNext - 1 /\ p[2] \in RagRows
          /\ w.todo = irThread[t].todo /\ irThread' = [irThread EXCEPT ![t] = w]
          /\ UNCHANGED <<irDisk, irNext, irReheats>>
          /\ \/ irCold' = With(irCold, p[1], p[2]) /\ irWarm' = irWarm
             \/ irWarm' = WithoutRow(irWarm, p[1]) /\ irCold' = irCold
    BY <1>6, ArchiveFacts
  <2>2. WorksTyped'
    <3>1. irNext' \in Nat /\ irNext' >= irNext /\ irThread' = [irThread EXCEPT ![t] = w]
          /\ \A q \in w.todo : q[1] \in 1 .. irNext - 1
      BY <1>0, <2>1
    <3>2. QED BY <3>1, WorksTypedStay, Zenon
  <2>3. Table(irWarm', irNext) /\ Table(irCold', irNext)
    BY <1>0, <2>1, TableOps
  <2>4. QED BY <1>0, <1>3, <2>1, <2>2, <2>3
<1>7. ASSUME NEW t \in RagThreads, NEW id \in DOMAIN irCold, ReheatInserts(t, id) PROVE RagTyped'
  <2>1. PICK row \in RagRows, w \in Works :
          /\ id \in 1 .. irNext - 1 /\ w.todo = {}
          /\ irThread' = [irThread EXCEPT ![t] = w] /\ irWarm' = With(irWarm, id, row) /\ irReheats' = irReheats + 1
          /\ UNCHANGED <<irCold, irDisk, irNext>>
    BY <1>7, ReheatFacts
  <2>2. WorksTyped'
    <3>1. irNext' \in Nat /\ irNext' >= irNext /\ irThread' = [irThread EXCEPT ![t] = w]
          /\ \A q \in w.todo : q[1] \in 1 .. irNext - 1
      BY <1>0, <2>1
    <3>2. QED BY <3>1, WorksTypedStay, Zenon
  <2>3. Table(irWarm', irNext)
    BY <1>0, <2>1, TableOps
  <2>4. QED BY <1>0, <1>3, <2>1, <2>2, <2>3
<1>8. ASSUME NEW t \in RagThreads, ReheatDeletes(t) PROVE RagTyped'
  <2>1. PICK w \in Works :
          /\ w.todo \subseteq irThread[t].todo
          /\ irThread' = [irThread EXCEPT ![t] = w] /\ irCold' = WithoutRow(irCold, irThread[t].id) /\ irWarm' = irWarm
          /\ irNext' = irNext /\ irReheats' = irReheats /\ Commits
    BY <1>8, CoolFacts
  <2>2. WorksTyped'
    <3>1. irNext' \in Nat /\ irNext' >= irNext /\ irThread' = [irThread EXCEPT ![t] = w]
          /\ \A q \in w.todo : q[1] \in 1 .. irNext - 1
      BY <1>0, <2>1
    <3>2. QED BY <3>1, WorksTypedStay, Zenon
  <2>3. Table(irCold', irNext)
    BY <1>0, <2>1, TableOps
  <2>4. QED BY <1>0, <1>2, <2>1, <2>2, <2>3
<1>9. CASE RagCrash
  <2>1. /\ irWarm' = irDisk.warm /\ irCold' = irDisk.cold /\ irDisk' = irDisk /\ irNext' = irNext /\ irReheats' = irReheats
        /\ irThread' = [t \in RagThreads |-> NoWork]
    BY <1>9 DEF RagCrash, Counters
  <2>2. WorksTyped'
    BY <2>1, NoWorkTyped DEF WorksTyped
  <2>3. QED BY <1>0, <1>3, <2>1, <2>2
<1>10. QED BY <1>4, <1>5, <1>6, <1>7, <1>8, <1>9, QuietOrNot

-----------------------------------------------------------------------------
\* The rows of a table are finitely many, and so are the threads.
LEMMA RowsFinite ==
    ASSUME NEW n \in Nat, NEW f, Table(f, n), NEW S, S \subseteq DOMAIN f
    PROVE  IsFiniteSet(S) /\ Cardinality(S) \in Nat
<1>1. S \subseteq 1 .. n - 1
  BY DEF Table
<1>2. 1 \in Int /\ n - 1 \in Int
  OBVIOUS
<1>3. IsFiniteSet(1 .. n - 1)
  BY <1>2, FS_Interval
<1>4. QED BY <1>1, <1>3, FS_Subset, FS_CardinalityType

LEMMA ThreadsFinite ==
    ASSUME NEW S, S \subseteq RagThreads
    PROVE  /\ IsFiniteSet(S) /\ Cardinality(S) \in Nat /\ Cardinality(RagThreads) \in Nat
           /\ Cardinality(S) <= Cardinality(RagThreads)
BY RagAssumption, FS_Subset, FS_CardinalityType

LEMMA CountsTyped ==
    ASSUME RagTyped, NEW c
    PROVE  /\ IsFiniteSet(RowsOf(c)) /\ IsFiniteSet(DiskRows(c)) /\ IsFiniteSet(Inserting(c))
           /\ Cardinality(RowsOf(c)) \in Nat /\ Cardinality(DiskRows(c)) \in Nat /\ Cardinality(Inserting(c)) \in Nat
           /\ Cardinality(Inserting(c)) <= Cardinality(RagThreads) /\ Cardinality(RagThreads) \in Nat
<1>1. irNext \in Nat /\ Table(irWarm, irNext) /\ Table(irDisk.warm, irNext)
  BY DEF RagTyped, TablesTyped
<1>2. RowsOf(c) \subseteq DOMAIN irWarm /\ DiskRows(c) \subseteq DOMAIN irDisk.warm /\ Inserting(c) \subseteq RagThreads
  BY DEF RowsOf, DiskRows, Inserting
<1>3. QED BY <1>1, <1>2, RowsFinite, ThreadsFinite

\* Fewer rows and fewer threads that insert keep the bound, whoever commits.
LEMMA CountsShrink ==
    ASSUME RagTyped, RowsCounted, irReheats' = irReheats,
           \A c : RowsOf(c)' \subseteq RowsOf(c),
           \A c : RowsOf(c)' = {} \/ Inserting(c)' \subseteq Inserting(c),
           \A c : DiskRows(c)' \subseteq RowsOf(c)' \/ DiskRows(c)' \subseteq DiskRows(c),
           RagTyped'
    PROVE  RowsCounted'
<1>1. ASSUME NEW c
      PROVE  /\ Cardinality(RowsOf(c))' + Cardinality(Inserting(c))' <= Cardinality(RagThreads) + irReheats
             /\ Cardinality(DiskRows(c))' <= Cardinality(RagThreads) + irReheats
  <2>1. /\ IsFiniteSet(RowsOf(c)) /\ IsFiniteSet(DiskRows(c)) /\ IsFiniteSet(Inserting(c))
        /\ Cardinality(RowsOf(c)) \in Nat /\ Cardinality(DiskRows(c)) \in Nat /\ Cardinality(Inserting(c)) \in Nat
        /\ Cardinality(RagThreads) \in Nat
    BY CountsTyped
  <2>2. /\ IsFiniteSet(RowsOf(c)') /\ IsFiniteSet(Inserting(c)')
        /\ Cardinality(RowsOf(c)') \in Nat /\ Cardinality(DiskRows(c)') \in Nat /\ Cardinality(Inserting(c)') \in Nat
        /\ Cardinality(Inserting(c)') <= Cardinality(RagThreads)
    <3>1. irNext' \in Nat /\ Table(irWarm', irNext') /\ Table(irDisk'.warm, irNext')
      BY DEF RagTyped, TablesTyped
    <3>2. RowsOf(c)' \subseteq DOMAIN irWarm' /\ DiskRows(c)' \subseteq DOMAIN irDisk'.warm /\ Inserting(c)' \subseteq RagThreads
      BY DEF RowsOf, DiskRows, Inserting
    <3>3. QED BY <3>1, <3>2, RowsFinite, ThreadsFinite
  <2>3. /\ Cardinality(RowsOf(c)) + Cardinality(Inserting(c)) <= Cardinality(RagThreads) + irReheats
        /\ Cardinality(DiskRows(c)) <= Cardinality(RagThreads) + irReheats /\ irReheats \in Nat
    BY DEF RowsCounted, RagTyped, TablesTyped
  <2>4. Cardinality(RowsOf(c)') <= Cardinality(RowsOf(c))
    BY <2>1, FS_Subset
  <2>5. Cardinality(RowsOf(c)') = 0 \/ Cardinality(Inserting(c)') <= Cardinality(Inserting(c))
    BY <2>1, FS_Subset, FS_EmptySet
  <2>6. Cardinality(DiskRows(c)') <= Cardinality(RowsOf(c)') \/ Cardinality(DiskRows(c)') <= Cardinality(DiskRows(c))
    BY <2>1, <2>2, FS_Subset
  <2>7. QED BY <2>1, <2>2, <2>3, <2>4, <2>5, <2>6
<1>2. QED BY <1>1 DEF RowsCounted

\* The rows of the tables after a step, in terms of those before it.
LEMMA RowsAfter ==
    ASSUME NEW c
    PROVE  /\ SameTexts(irWarm, irWarm') => RowsOf(c)' = RowsOf(c)
           /\ irWarm' = irWarm => RowsOf(c)' = RowsOf(c)
           /\ SameTexts(irDisk.warm, irDisk'.warm) => DiskRows(c)' = DiskRows(c)
           /\ irDisk' = irDisk => DiskRows(c)' = DiskRows(c)
           /\ Commits => DiskRows(c)' = RowsOf(c)'
           /\ \A i : irWarm' = WithoutRow(irWarm, i) => RowsOf(c)' \subseteq RowsOf(c)
           /\ \A i, row : irWarm' = With(irWarm, i, row) => RowsOf(c)' \subseteq RowsOf(c) \cup {k \in {i} : row.content = c}
<1>1. SameTexts(irWarm, irWarm') => RowsOf(c)' = RowsOf(c)
  BY DEF SameTexts, RowsOf
<1>2. irWarm' = irWarm => RowsOf(c)' = RowsOf(c)
  BY DEF RowsOf
<1>3. SameTexts(irDisk.warm, irDisk'.warm) => DiskRows(c)' = DiskRows(c)
  BY DEF SameTexts, DiskRows
<1>4. irDisk' = irDisk => DiskRows(c)' = DiskRows(c)
  BY DEF DiskRows
<1>5. Commits => DiskRows(c)' = RowsOf(c)'
  BY DEF DiskRows, RowsOf, Commits
<1>6. ASSUME NEW i, irWarm' = WithoutRow(irWarm, i) PROVE RowsOf(c)' \subseteq RowsOf(c)
  BY <1>6 DEF WithoutRow, RowsOf
<1>7. ASSUME NEW i, NEW row, irWarm' = With(irWarm, i, row)
      PROVE  RowsOf(c)' \subseteq RowsOf(c) \cup {k \in {i} : row.content = c}
  BY <1>7 DEF With, RowsOf
<1>8. QED BY <1>1, <1>2, <1>3, <1>4, <1>5, <1>6, <1>7

\* The threads that are about to insert, when one takes up other work.
LEMMA InsertingAfter ==
    ASSUME RagTyped, NEW t \in RagThreads, NEW w \in Works, irThread' = [irThread EXCEPT ![t] = w], NEW c
    PROVE  /\ w.at # "insert" => Inserting(c)' = Inserting(c) \ {t}
           /\ w.content # c => Inserting(c)' \subseteq Inserting(c)
<1>1. \A s \in RagThreads : irThread'[s] = IF s = t THEN w ELSE irThread[s]
  BY DEF RagTyped, WorksTyped
<1>2. QED BY <1>1 DEF Inserting

LEMMA OneMoreOrLess ==
    ASSUME NEW S, IsFiniteSet(S), NEW x
    PROVE  /\ IsFiniteSet(S \cup {x}) /\ Cardinality(S \cup {x}) <= Cardinality(S) + 1
           /\ Cardinality(S \ {x}) = Cardinality(S) - (IF x \in S THEN 1 ELSE 0)
<1>1. Cardinality(S) \in Nat
  BY FS_CardinalityType
<1>2. IsFiniteSet(S \cup {x}) /\ Cardinality(S \cup {x}) = IF x \in S THEN Cardinality(S) ELSE Cardinality(S) + 1
  BY FS_AddElement
<1>3. Cardinality(S \ {x}) = IF x \in S THEN Cardinality(S) - 1 ELSE Cardinality(S)
  BY FS_RemoveElement
<1>4. Cardinality(S \cup {x}) <= Cardinality(S) + 1
  BY <1>1, <1>2
<1>5. Cardinality(S \ {x}) = Cardinality(S) - (IF x \in S THEN 1 ELSE 0)
  BY <1>1, <1>3
<1>6. QED BY <1>2, <1>4, <1>5

LEMMA RowsCountedStays ==
    ASSUME RagTyped, RowsCounted, RagNext
    PROVE  RowsCounted'
<1>0. /\ irReheats \in Nat
      /\ \A c : /\ Cardinality(RowsOf(c)) + Cardinality(Inserting(c)) <= Cardinality(RagThreads) + irReheats
                /\ Cardinality(DiskRows(c)) <= Cardinality(RagThreads) + irReheats
  BY DEF RagTyped, TablesTyped, RowsCounted
<1>1. RagTyped'
  BY RagTypedStays
<1>2. CASE Quiet
  <2>1. irReheats' = irReheats /\ \A c : RowsOf(c)' = RowsOf(c)
    BY <1>2, RowsAfter DEF Quiet
  <2>2. \A c : DiskRows(c)' \subseteq RowsOf(c)' \/ DiskRows(c)' \subseteq DiskRows(c)
    BY <1>2, RowsAfter DEF Quiet
  <2>3. ASSUME NEW c PROVE RowsOf(c)' = {} \/ Inserting(c)' \subseteq Inserting(c)
    <3>1. CASE irThread' = irThread
      BY <3>1 DEF Inserting
    <3>2. ASSUME NEW t \in RagThreads, NEW w \in Works, NextWork(t, w) PROVE RowsOf(c)' = {} \/ Inserting(c)' \subseteq Inserting(c)
      <4>1. irThread' = [irThread EXCEPT ![t] = w] /\ (w.at = "insert" => RowsOf(w.content) = {})
        BY <3>2 DEF NextWork
      <4>2. CASE w.at # "insert" \/ w.content # c
        <5>1. Inserting(c)' = Inserting(c) \ {t} \/ Inserting(c)' \subseteq Inserting(c)
          BY <4>1, <4>2, InsertingAfter
        <5>2. QED BY <5>1
      <4>3. CASE w.at = "insert" /\ w.content = c
        BY <2>1, <4>1, <4>3
      <4>4. QED BY <4>2, <4>3
    <3>3. QED BY <1>2, <3>1, <3>2 DEF Quiet
  <2>4. \A c : RowsOf(c)' \subseteq RowsOf(c)
    BY <2>1
  <2>5. QED BY <1>1, <2>1, <2>2, <2>3, <2>4, CountsShrink
<1>3. ASSUME NEW t \in RagThreads, NEW w \in Works, irThread' = [irThread EXCEPT ![t] = w], w.at # "insert",
             irReheats' = irReheats, \A c : RowsOf(c)' \subseteq RowsOf(c), irDisk' = irDisk \/ Commits
      PROVE  RowsCounted'
  <2>1. \A c : RowsOf(c)' = {} \/ Inserting(c)' \subseteq Inserting(c)
    <3>1. ASSUME NEW c PROVE Inserting(c)' \subseteq Inserting(c)
      <4>1. Inserting(c)' = Inserting(c) \ {t}
        BY <1>3, InsertingAfter
      <4>2. QED BY <4>1
    <3>2. QED BY <3>1
  <2>2. \A c : DiskRows(c)' \subseteq RowsOf(c)' \/ DiskRows(c)' \subseteq DiskRows(c)
    <3>1. ASSUME NEW c PROVE DiskRows(c)' \subseteq RowsOf(c)' \/ DiskRows(c)' \subseteq DiskRows(c)
      BY <1>3, RowsAfter
    <3>2. QED BY <3>1
  <2>3. QED BY <1>1, <1>3, <2>1, <2>2, CountsShrink
<1>4. ASSUME NEW t \in RagThreads, ArchiveRow(t) PROVE RowsCounted'
  <2>1. PICK p \in irThread[t].todo, w \in Works :
          /\ irThread' = [irThread EXCEPT ![t] = w] /\ w.at # "insert"
          /\ irDisk' = irDisk /\ irReheats' = irReheats
          /\ irWarm' = irWarm \/ irWarm' = WithoutRow(irWarm, p[1])
    BY <1>4, ArchiveFacts
  <2>2. ASSUME NEW c PROVE RowsOf(c)' \subseteq RowsOf(c)
    BY <2>1, RowsAfter
  <2>3. QED BY <1>3, <2>1, <2>2
<1>5. ASSUME NEW t \in RagThreads, ReheatDeletes(t) PROVE RowsCounted'
  <2>1. PICK w \in Works :
          /\ w.at # "insert" /\ irThread' = [irThread EXCEPT ![t] = w] /\ irWarm' = irWarm
          /\ irReheats' = irReheats /\ Commits
    BY <1>5, CoolFacts
  <2>2. ASSUME NEW c PROVE RowsOf(c)' \subseteq RowsOf(c)
    BY <2>1, RowsAfter
  <2>3. QED BY <1>3, <2>1, <2>2
<1>6. ASSUME NEW c, NEW i
      PROVE  /\ Cardinality(RowsOf(c)) \in Nat /\ Cardinality(Inserting(c)) \in Nat /\ Cardinality(RagThreads) \in Nat
             /\ RowsOf(c)' \subseteq RowsOf(c) \cup {i} => Cardinality(RowsOf(c)') <= Cardinality(RowsOf(c)) + 1
             /\ RowsOf(c)' \subseteq RowsOf(c) => Cardinality(RowsOf(c)') <= Cardinality(RowsOf(c))
             /\ Cardinality(Inserting(c) \ {i}) = Cardinality(Inserting(c)) - (IF i \in Inserting(c) THEN 1 ELSE 0)
  <2>1. /\ IsFiniteSet(RowsOf(c)) /\ IsFiniteSet(Inserting(c))
        /\ Cardinality(RowsOf(c)) \in Nat /\ Cardinality(Inserting(c)) \in Nat /\ Cardinality(RagThreads) \in Nat
    BY CountsTyped
  <2>2. IsFiniteSet(RowsOf(c) \cup {i}) /\ Cardinality(RowsOf(c) \cup {i}) <= Cardinality(RowsOf(c)) + 1
    BY <2>1, OneMoreOrLess, Zenon
  <2>3. Cardinality(Inserting(c) \ {i}) = Cardinality(Inserting(c)) - (IF i \in Inserting(c) THEN 1 ELSE 0)
    BY <2>1, OneMoreOrLess, Zenon
  <2>4. RowsOf(c)' \subseteq RowsOf(c) => Cardinality(RowsOf(c)') <= Cardinality(RowsOf(c))
    BY <2>1, FS_Subset
  <2>5. RowsOf(c)' \subseteq RowsOf(c) \cup {i} => IsFiniteSet(RowsOf(c)') /\ Cardinality(RowsOf(c)') <= Cardinality(RowsOf(c) \cup {i})
    BY <2>2, FS_Subset
  <2>6. RowsOf(c)' \subseteq RowsOf(c) \cup {i} => Cardinality(RowsOf(c)') <= Cardinality(RowsOf(c)) + 1
    <3>1. SUFFICES ASSUME RowsOf(c)' \subseteq RowsOf(c) \cup {i} PROVE Cardinality(RowsOf(c)') <= Cardinality(RowsOf(c)) + 1
      OBVIOUS
    <3>2. Cardinality(RowsOf(c)') \in Nat /\ Cardinality(RowsOf(c) \cup {i}) \in Nat
      BY <2>2, <2>5, <3>1, FS_CardinalityType
    <3>3. QED BY <2>1, <2>2, <2>5, <3>1, <3>2
  <2>7. QED BY <2>1, <2>3, <2>4, <2>6
<1>7. ASSUME NEW t \in RagThreads, InsertRow(t) PROVE RowsCounted'
  <2>1. PICK row \in RagRows, w \in Works :
          /\ irThread[t].at = "insert" /\ row.content = irThread[t].content /\ w.at # "insert"
          /\ irThread' = [irThread EXCEPT ![t] = w] /\ irWarm' = With(irWarm, irNext, row)
          /\ irReheats' = irReheats /\ Commits
    BY <1>7, InsertFacts
  <2>2. ASSUME NEW c
        PROVE  /\ Cardinality(RowsOf(c))' + Cardinality(Inserting(c))' <= Cardinality(RagThreads) + irReheats
               /\ Cardinality(DiskRows(c))' <= Cardinality(RagThreads) + irReheats
    <3>1. Inserting(c)' = Inserting(c) \ {t} /\ DiskRows(c)' = RowsOf(c)'
          /\ RowsOf(c)' \subseteq RowsOf(c) \cup {k \in {irNext} : row.content = c}
      BY <2>1, InsertingAfter, RowsAfter
    <3>2. t \in Inserting(c) <=> row.content = c
      BY <2>1 DEF Inserting
    <3>3. CASE row.content = c
      <4>1. RowsOf(c)' \subseteq RowsOf(c) \cup {irNext}
        BY <3>1
      <4>2. Cardinality(RowsOf(c)') <= Cardinality(RowsOf(c)) + 1
        BY <1>6, <4>1
      <4>3. Cardinality(Inserting(c)') = Cardinality(Inserting(c)) - 1
        BY <1>6, <3>1, <3>2, <3>3
      <4>4. Cardinality(RowsOf(c)') \in Nat /\ Cardinality(Inserting(c)') \in Nat
        <5>1. irNext' \in Nat /\ Table(irWarm', irNext') /\ RowsOf(c)' \subseteq DOMAIN irWarm' /\ Inserting(c)' \subseteq RagThreads
          BY <1>1 DEF RagTyped, TablesTyped, RowsOf, Inserting
        <5>2. QED BY <5>1, RowsFinite, ThreadsFinite
      <4>5. QED BY <1>0, <1>6, <3>1, <4>2, <4>3, <4>4
    <3>4. CASE row.content # c
      <4>1. RowsOf(c)' \subseteq RowsOf(c)
        BY <3>1, <3>4
      <4>2. Cardinality(RowsOf(c)') <= Cardinality(RowsOf(c))
        BY <1>6, <4>1
      <4>3. Cardinality(Inserting(c)') = Cardinality(Inserting(c))
        BY <1>6, <3>1, <3>2, <3>4
      <4>4. Cardinality(RowsOf(c)') \in Nat /\ Cardinality(Inserting(c)') \in Nat
        <5>1. irNext' \in Nat /\ Table(irWarm', irNext') /\ RowsOf(c)' \subseteq DOMAIN irWarm' /\ Inserting(c)' \subseteq RagThreads
          BY <1>1 DEF RagTyped, TablesTyped, RowsOf, Inserting
        <5>2. QED BY <5>1, RowsFinite, ThreadsFinite
      <4>5. QED BY <1>0, <1>6, <3>1, <4>2, <4>3, <4>4
    <3>5. QED BY <3>3, <3>4
  <2>3. QED BY <2>1, <2>2 DEF RowsCounted
<1>8. ASSUME NEW t \in RagThreads, NEW id \in DOMAIN irCold, ReheatInserts(t, id) PROVE RowsCounted'
  <2>1. PICK row \in RagRows, w \in Works :
          /\ w.at # "insert" /\ irThread' = [irThread EXCEPT ![t] = w] /\ irWarm' = With(irWarm, id, row)
          /\ irReheats' = irReheats + 1 /\ irDisk' = irDisk
    BY <1>8, ReheatFacts
  <2>2. ASSUME NEW c
        PROVE  /\ Cardinality(RowsOf(c))' + Cardinality(Inserting(c))' <= Cardinality(RagThreads) + irReheats'
               /\ Cardinality(DiskRows(c))' <= Cardinality(RagThreads) + irReheats'
    <3>1. Inserting(c)' = Inserting(c) \ {t} /\ DiskRows(c)' = DiskRows(c) /\ RowsOf(c)' \subseteq RowsOf(c) \cup {k \in {id} : row.content = c}
      BY <2>1, InsertingAfter, RowsAfter
    <3>2. RowsOf(c)' \subseteq RowsOf(c) \cup {id}
      BY <3>1
    <3>3. Cardinality(RowsOf(c)') <= Cardinality(RowsOf(c)) + 1
      BY <1>6, <3>2
    <3>4. Cardinality(Inserting(c)') <= Cardinality(Inserting(c))
      BY <1>6, <3>1
    <3>5. Cardinality(RowsOf(c)') \in Nat /\ Cardinality(Inserting(c)') \in Nat
      <4>1. irNext' \in Nat /\ Table(irWarm', irNext') /\ RowsOf(c)' \subseteq DOMAIN irWarm' /\ Inserting(c)' \subseteq RagThreads
        BY <1>1 DEF RagTyped, TablesTyped, RowsOf, Inserting
      <4>2. QED BY <4>1, RowsFinite, ThreadsFinite
    <3>6. Cardinality(RowsOf(c)) \in Nat /\ Cardinality(Inserting(c)) \in Nat /\ Cardinality(DiskRows(c)) \in Nat /\ Cardinality(RagThreads) \in Nat
      BY CountsTyped
    <3>7. QED BY <1>0, <2>1, <3>1, <3>3, <3>4, <3>5, <3>6
  <2>3. QED BY <2>2 DEF RowsCounted
<1>9. CASE RagCrash
  <2>1. /\ irWarm' = irDisk.warm /\ irDisk' = irDisk /\ irReheats' = irReheats /\ irThread' = [t \in RagThreads |-> NoWork]
    BY <1>9 DEF RagCrash, Counters
  <2>2. ASSUME NEW c
        PROVE  /\ Cardinality(RowsOf(c))' + Cardinality(Inserting(c))' <= Cardinality(RagThreads) + irReheats
               /\ Cardinality(DiskRows(c))' <= Cardinality(RagThreads) + irReheats
    <3>1. RowsOf(c)' = DiskRows(c) /\ DiskRows(c)' = DiskRows(c)
      BY <2>1 DEF RowsOf, DiskRows
    <3>2. Inserting(c)' = {}
      BY <2>1, NoWorkTyped DEF Inserting
    <3>3. Cardinality(DiskRows(c)) \in Nat
      BY CountsTyped
    <3>4. QED BY <1>0, <3>1, <3>2, <3>3, FS_EmptySet
  <2>3. QED BY <2>1, <2>2 DEF RowsCounted
<1>10. QED BY <1>2, <1>4, <1>5, <1>7, <1>8, <1>9, QuietOrNot

-----------------------------------------------------------------------------
LEMMA NamesOps ==
    ASSUME NEW text, NEW f, Names(text, f)
    PROVE  /\ \A h : SameTexts(f, h) => Names(text, h)
           /\ \A i : Names(text, WithoutRow(f, i))
           /\ \A i, row : row.content = text[i] => Names(text, With(f, i, row))
BY DEF Names, SameTexts, WithoutRow, With

LEMMA NamesKept ==
    ASSUME RagTyped, RagNext, NEW text \in [Nat -> Words], NamesAll(text),
           ~\E t \in RagThreads : InsertRow(t)
    PROVE  NamesAll(text)'
<1>0. /\ Names(text, irWarm) /\ Names(text, irCold) /\ Names(text, irDisk.warm) /\ Names(text, irDisk.cold)
      /\ \A t \in RagThreads : \A p \in irThread[t].todo : p[2].content = text[p[1]]
      /\ irThread \in [RagThreads -> Works]
  BY DEF NamesAll, RagTyped, WorksTyped
<1>1. ASSUME NEW t \in RagThreads, NEW w \in Works, irThread' = [irThread EXCEPT ![t] = w],
             \A p \in w.todo : p[2].content = text[p[1]]
      PROVE  \A s \in RagThreads : \A p \in irThread'[s].todo : p[2].content = text[p[1]]
  <2>1. \A s \in RagThreads : irThread'[s] = IF s = t THEN w ELSE irThread[s]
    BY <1>0, <1>1
  <2>2. QED BY <1>0, <1>1, <2>1
<1>2. ASSUME Names(text, irWarm'), Names(text, irCold'), Commits \/ irDisk' = irDisk,
             \A s \in RagThreads : \A p \in irThread'[s].todo : p[2].content = text[p[1]]
      PROVE  NamesAll(text)'
  <2>1. Names(text, irDisk'.warm) /\ Names(text, irDisk'.cold)
    BY <1>0, <1>2 DEF Commits
  <2>2. QED BY <1>2, <2>1 DEF NamesAll
<1>3. CASE Quiet
  <2>1. Names(text, irWarm') /\ Names(text, irCold')
    BY <1>0, <1>3, NamesOps DEF Quiet
  <2>2. \A s \in RagThreads : \A p \in irThread'[s].todo : p[2].content = text[p[1]]
    <3>1. CASE irThread' = irThread
      BY <1>0, <3>1
    <3>2. ASSUME NEW t \in RagThreads, NEW w \in Works, NextWork(t, w)
          PROVE  \A s \in RagThreads : \A p \in irThread'[s].todo : p[2].content = text[p[1]]
      <4>1. \A p \in w.todo : p[2].content = text[p[1]]
        BY <1>0, <3>2 DEF NextWork, Names
      <4>2. irThread' = [irThread EXCEPT ![t] = w]
        BY <3>2 DEF NextWork
      <4>3. QED BY <1>1, <4>1, <4>2
    <3>3. QED BY <1>3, <3>1, <3>2 DEF Quiet
  <2>3. CASE Commits
    BY <1>2, <2>1, <2>2, <2>3
  <2>4. CASE SameTexts(irDisk.warm, irDisk'.warm) /\ irDisk' = [warm |-> irDisk'.warm, cold |-> irDisk.cold]
    <3>1. irDisk'.cold = irDisk.cold
      BY <2>4
    <3>2. Names(text, irDisk'.warm) /\ Names(text, irDisk'.cold)
      BY <1>0, <2>4, <3>1, NamesOps
    <3>3. QED BY <2>1, <2>2, <3>2 DEF NamesAll
  <2>5. QED BY <1>3, <2>3, <2>4 DEF Quiet
<1>4. ASSUME NEW t \in RagThreads, ArchiveRow(t) PROVE NamesAll(text)'
  <2>1. PICK p \in irThread[t].todo, w \in Works :
          /\ w.todo = irThread[t].todo /\ irThread' = [irThread EXCEPT ![t] = w] /\ irDisk' = irDisk
          /\ \/ irCold' = With(irCold, p[1], p[2]) /\ irWarm' = irWarm
             \/ irWarm' = WithoutRow(irWarm, p[1]) /\ irCold' = irCold
    BY <1>4, ArchiveFacts
  <2>2. p[2].content = text[p[1]]
    BY <1>0
  <2>3. Names(text, irWarm') /\ Names(text, irCold')
    BY <1>0, <2>1, <2>2, NamesOps
  <2>4. \A q \in w.todo : q[2].content = text[q[1]]
    BY <1>0, <2>1
  <2>5. \A s \in RagThreads : \A q \in irThread'[s].todo : q[2].content = text[q[1]]
    BY <1>1, <2>1, <2>4
  <2>6. QED BY <1>2, <2>1, <2>3, <2>5
<1>5. ASSUME NEW t \in RagThreads, NEW id \in DOMAIN irCold, ReheatInserts(t, id) PROVE NamesAll(text)'
  <2>1. PICK row \in RagRows, w \in Works :
          /\ row.content = irCold[id].content /\ w.todo = {}
          /\ irThread' = [irThread EXCEPT ![t] = w] /\ irWarm' = With(irWarm, id, row)
          /\ UNCHANGED <<irCold, irDisk>>
    BY <1>5, ReheatFacts
  <2>2. row.content = text[id]
    BY <1>0, <2>1 DEF Names
  <2>3. Names(text, irWarm') /\ Names(text, irCold')
    BY <1>0, <2>1, <2>2, NamesOps
  <2>4. \A s \in RagThreads : \A q \in irThread'[s].todo : q[2].content = text[q[1]]
    BY <1>1, <2>1
  <2>5. QED BY <1>2, <2>1, <2>3, <2>4
<1>6. ASSUME NEW t \in RagThreads, ReheatDeletes(t) PROVE NamesAll(text)'
  <2>1. PICK w \in Works :
          /\ w.todo \subseteq irThread[t].todo
          /\ irThread' = [irThread EXCEPT ![t] = w] /\ irCold' = WithoutRow(irCold, irThread[t].id) /\ irWarm' = irWarm
          /\ Commits
    BY <1>6, CoolFacts
  <2>2. Names(text, irWarm') /\ Names(text, irCold')
    BY <1>0, <2>1, NamesOps
  <2>3. \A q \in w.todo : q[2].content = text[q[1]]
    BY <1>0, <2>1
  <2>4. \A s \in RagThreads : \A q \in irThread'[s].todo : q[2].content = text[q[1]]
    BY <1>1, <2>1, <2>3
  <2>5. QED BY <1>2, <2>1, <2>2, <2>4
<1>7. CASE RagCrash
  <2>1. /\ irWarm' = irDisk.warm /\ irCold' = irDisk.cold /\ irDisk' = irDisk /\ irThread' = [t \in RagThreads |-> NoWork]
    BY <1>7 DEF RagCrash
  <2>2. \A s \in RagThreads : \A q \in irThread'[s].todo : q[2].content = text[q[1]]
    BY <2>1, NoWorkTyped
  <2>3. QED BY <1>0, <1>2, <2>1, <2>2
<1>8. QED BY <1>3, <1>4, <1>5, <1>6, <1>7, QuietOrNot

LEMMA OneTextStays ==
    ASSUME RagTyped, RagNext, OneText
    PROVE  OneText'
<1>1. PICK text \in [Nat -> Words] : NamesAll(text)
  BY DEF OneText
<1>2. CASE ~\E t \in RagThreads : InsertRow(t)
  BY <1>1, <1>2, NamesKept DEF OneText
<1>3. ASSUME NEW t \in RagThreads, InsertRow(t) PROVE OneText'
  <2>1. PICK row \in RagRows, w \in Works :
          /\ w.todo = irThread[t].todo /\ irThread' = [irThread EXCEPT ![t] = w] /\ irWarm' = With(irWarm, irNext, row)
          /\ irCold' = irCold /\ Commits
    BY <1>3, InsertFacts
  <2>2. /\ Names(text, irWarm) /\ Names(text, irCold)
        /\ \A s \in RagThreads : \A p \in irThread[s].todo : p[2].content = text[p[1]] /\ p[1] \in 1 .. irNext - 1
        /\ irThread \in [RagThreads -> Works]
        /\ irNext \in Nat /\ Table(irWarm, irNext) /\ Table(irCold, irNext)
    BY <1>1 DEF NamesAll, RagTyped, WorksTyped, TablesTyped
  <2> DEFINE named == [text EXCEPT ![irNext] = row.content]
  <2>3. named \in [Nat -> Words] /\ named[irNext] = row.content /\ \A i \in 1 .. irNext - 1 : named[i] = text[i]
    BY <2>2 DEF RagRows
  <2> HIDE DEF named
  <2>4. Names(named, irWarm) /\ Names(named, irCold)
    BY <2>2, <2>3 DEF Names, Table
  <2>5. Names(named, irWarm') /\ Names(named, irCold')
    BY <2>1, <2>3, <2>4, NamesOps
  <2>6. Names(named, irDisk'.warm) /\ Names(named, irDisk'.cold)
    BY <2>1, <2>5 DEF Commits
  <2>7. \A s \in RagThreads : \A p \in irThread'[s].todo : p[2].content = named[p[1]]
    <3>1. \A s \in RagThreads : irThread'[s].todo = irThread[s].todo
      BY <2>1, <2>2
    <3>2. QED BY <2>2, <2>3, <3>1
  <2>8. QED BY <2>3, <2>5, <2>6, <2>7 DEF OneText, NamesAll
<1>4. QED BY <1>2, <1>3

-----------------------------------------------------------------------------
\* As long as nothing is brought back from the archive, a content moves and does not vanish.
LEMMA ContentsOps ==
    ASSUME NEW f
    PROVE  /\ \A h : SameTexts(f, h) => Contents(h) = Contents(f)
           /\ \A i, row : row.content \in Contents(With(f, i, row))
           /\ \A i, row : (i \in DOMAIN f => f[i].content = row.content) => Contents(f) \subseteq Contents(With(f, i, row))
           /\ \A i : \A c \in Contents(f) : c \in Contents(WithoutRow(f, i)) \/ (i \in DOMAIN f /\ f[i].content = c)
<1>1. \A h : SameTexts(f, h) => Contents(h) = Contents(f)
  BY DEF SameTexts, Contents
<1>2. \A i, row : row.content \in Contents(With(f, i, row))
  BY DEF Contents, With
<1>3. ASSUME NEW i, NEW row, i \in DOMAIN f => f[i].content = row.content
      PROVE  Contents(f) \subseteq Contents(With(f, i, row))
  <2>1. SUFFICES ASSUME NEW j \in DOMAIN f PROVE f[j].content \in Contents(With(f, i, row))
    BY DEF Contents
  <2>2. j \in DOMAIN With(f, i, row) /\ With(f, i, row)[j].content = f[j].content
    BY <1>3 DEF With
  <2>3. QED BY <2>2 DEF Contents
<1>4. ASSUME NEW i, NEW c \in Contents(f) PROVE c \in Contents(WithoutRow(f, i)) \/ (i \in DOMAIN f /\ f[i].content = c)
  <2>1. PICK j \in DOMAIN f : f[j].content = c
    BY DEF Contents
  <2>2. j # i => j \in DOMAIN WithoutRow(f, i) /\ WithoutRow(f, i)[j].content = c
    BY <2>1 DEF WithoutRow
  <2>3. QED BY <2>1, <2>2 DEF Contents
<1>5. QED BY <1>1, <1>2, <1>3, <1>4

LEMMA HereGrows ==
    ASSUME RagTyped, RagNext, OneText, Remembered, irReheats = 0, irReheats' = 0, ~RagCrash
    PROVE  /\ \A c : Here(c) => Here(c)'
           /\ DOMAIN irCold \subseteq DOMAIN irCold'
           /\ Commits => \A c : Here(c)' => OnDisk(c)'
           /\ \A c : Here(c) /\ OnDisk(c) => OnDisk(c)'
<1>1. PICK text : Names(text, irWarm) /\ Names(text, irCold)
                  /\ \A t \in RagThreads : \A p \in irThread[t].todo : p[2].content = text[p[1]]
  BY DEF OneText, NamesAll
<1>2. Commits => \A c : Here(c)' => OnDisk(c)'
  BY DEF Commits, Here, OnDisk
<1>3. ASSUME \A c : Here(c) => Here(c)', Commits \/ irDisk' = irDisk
      PROVE  \A c : Here(c) /\ OnDisk(c) => OnDisk(c)'
  <2>1. irDisk' = irDisk => \A c : OnDisk(c) => OnDisk(c)'
    BY DEF OnDisk
  <2>2. QED BY <1>2, <1>3, <2>1
<1>4. CASE Quiet
  <2>1. \A c : Here(c) => Here(c)'
    BY <1>4, ContentsOps DEF Quiet, Here
  <2>2. irCold' = irCold
    BY <1>4 DEF Quiet
  <2>3. CASE SameTexts(irDisk.warm, irDisk'.warm) /\ irDisk' = [warm |-> irDisk'.warm, cold |-> irDisk.cold]
    <3>1. irDisk'.cold = irDisk.cold /\ Contents(irDisk'.warm) = Contents(irDisk.warm)
      BY <2>3, ContentsOps
    <3>2. \A c : OnDisk(c) => OnDisk(c)'
      BY <3>1 DEF OnDisk, Contents
    <3>3. QED BY <1>2, <2>1, <2>2, <3>2
  <2>4. CASE Commits
    BY <1>2, <1>3, <2>1, <2>2, <2>4
  <2>5. QED BY <1>4, <2>3, <2>4 DEF Quiet
<1>5. ASSUME NEW t \in RagThreads, InsertRow(t)
      PROVE  (\A c : Here(c) => Here(c)') /\ irCold' = irCold /\ Commits
  <2>1. PICK row \in RagRows :
          irWarm' = With(irWarm, irNext, row) /\ irCold' = irCold /\ Commits
    BY <1>5, InsertFacts
  <2>2. irNext \notin DOMAIN irWarm
    BY DEF RagTyped, TablesTyped, Table
  <2>3. Contents(irWarm) \subseteq Contents(With(irWarm, irNext, row))
    BY <2>2, ContentsOps
  <2>4. QED BY <2>1, <2>3 DEF Here
<1>6. ASSUME NEW t \in RagThreads, ArchiveRow(t)
      PROVE  (\A c : Here(c) => Here(c)') /\ DOMAIN irCold \subseteq DOMAIN irCold' /\ irDisk' = irDisk
  <2>1. PICK p \in irThread[t].todo :
          /\ p = NextToArchive(t) /\ irDisk' = irDisk
          /\ \/ irThread[t].at = "toCold" /\ irCold' = With(irCold, p[1], p[2]) /\ irWarm' = irWarm
             \/ irThread[t].at = "delete" /\ irWarm' = WithoutRow(irWarm, p[1]) /\ irCold' = irCold
    BY <1>6, ArchiveFacts
  <2>2. p[2].content = text[p[1]]
    BY <1>1
  <2>3. CASE irCold' = With(irCold, p[1], p[2]) /\ irWarm' = irWarm
    <3>1. p[1] \in DOMAIN irCold => irCold[p[1]].content = p[2].content
      BY <1>1, <2>2 DEF Names
    <3>2. Contents(irCold) \subseteq Contents(With(irCold, p[1], p[2]))
      BY <3>1, ContentsOps
    <3>3. DOMAIN irCold \subseteq DOMAIN irCold'
      BY <2>3 DEF With
    <3>4. QED BY <2>1, <2>3, <3>2, <3>3 DEF Here
  <2>4. CASE irThread[t].at = "delete" /\ irWarm' = WithoutRow(irWarm, p[1]) /\ irCold' = irCold
    <3>1. p[1] \in DOMAIN irCold
      BY <2>1, <2>4 DEF Remembered
    <3>2. irCold[p[1]].content = text[p[1]] /\ (p[1] \in DOMAIN irWarm => irWarm[p[1]].content = text[p[1]])
      BY <1>1, <3>1 DEF Names
    <3>3. ASSUME NEW c \in Contents(irWarm) PROVE c \in Contents(WithoutRow(irWarm, p[1])) \cup Contents(irCold)
      <4>1. c \in Contents(WithoutRow(irWarm, p[1])) \/ (p[1] \in DOMAIN irWarm /\ irWarm[p[1]].content = c)
        BY ContentsOps
      <4>2. irCold[p[1]].content \in Contents(irCold)
        BY <3>1 DEF Contents
      <4>3. QED BY <3>2, <4>1, <4>2
    <3>4. QED BY <2>1, <2>4, <3>3 DEF Here
  <2>5. QED BY <2>1, <2>3, <2>4
<1>7. ASSUME NEW t \in RagThreads, ReheatDeletes(t) PROVE FALSE
  BY <1>7 DEF ReheatDeletes, At, Remembered
<1>8. ASSUME NEW t \in RagThreads, NEW id \in DOMAIN irCold, ReheatInserts(t, id) PROVE FALSE
  BY <1>8 DEF ReheatInserts
<1>9. CASE \E t \in RagThreads : InsertRow(t) \/ ArchiveRow(t)
  <2>1. (\A c : Here(c) => Here(c)') /\ DOMAIN irCold \subseteq DOMAIN irCold' /\ (Commits \/ irDisk' = irDisk)
    BY <1>5, <1>6, <1>9
  <2>2. QED BY <1>2, <1>3, <2>1
<1>10. QED BY <1>4, <1>7, <1>8, <1>9, QuietOrNot

\* The work of a thread that takes up other work.
LEMMA WorkRemembered ==
    ASSUME RagTyped, Remembered, NEW t \in RagThreads, NEW w \in Works, irThread' = [irThread EXCEPT ![t] = w],
           \A c : Here(c) => Here(c)', DOMAIN irCold \subseteq DOMAIN irCold',
           \A c : Here(c) /\ OnDisk(c) => OnDisk(c)',
           w.at = "update" => Here(w.content)', w.at = "promote" => Here(w.content)' /\ OnDisk(w.content)',
           w.at = "delete" => (CHOOSE p \in w.todo : TRUE)[1] \in DOMAIN irCold', w.at # "cool"
    PROVE  (\A s \in RagThreads :
             /\ irThread[s].at = "update" => Here(irThread[s].content)
             /\ irThread[s].at = "promote" => Here(irThread[s].content) /\ OnDisk(irThread[s].content)
             /\ irThread[s].at = "delete" => NextToArchive(s)[1] \in DOMAIN irCold
             /\ irThread[s].at # "cool")'
<1>1. SUFFICES ASSUME NEW s \in RagThreads
               PROVE  (/\ irThread[s].at = "update" => Here(irThread[s].content)
                       /\ irThread[s].at = "promote" => Here(irThread[s].content) /\ OnDisk(irThread[s].content)
                       /\ irThread[s].at = "delete" => NextToArchive(s)[1] \in DOMAIN irCold
                       /\ irThread[s].at # "cool")'
  OBVIOUS
<1>2. irThread'[s] = IF s = t THEN w ELSE irThread[s]
  BY DEF RagTyped, WorksTyped
<1>3. \A u : irThread'[s] = u =>
        /\ (Here(irThread[s].content))' = Here(u.content)' /\ (OnDisk(irThread[s].content))' = OnDisk(u.content)'
        /\ (NextToArchive(s))' = CHOOSE p \in u.todo : TRUE
  BY DEF Here, OnDisk, NextToArchive
<1>4. CASE s = t
  BY <1>2, <1>3, <1>4
<1>5. CASE s # t
  <2>1. /\ irThread[s].at = "update" => Here(irThread[s].content)
        /\ irThread[s].at = "promote" => Here(irThread[s].content) /\ OnDisk(irThread[s].content)
        /\ irThread[s].at = "delete" => (CHOOSE p \in irThread[s].todo : TRUE)[1] \in DOMAIN irCold
        /\ irThread[s].at # "cool"
    BY DEF Remembered, NextToArchive
  <2>2. PICK u : u = irThread[s]
    OBVIOUS
  <2>3. irThread'[s] = u
    BY <1>2, <1>5, <2>2
  <2>4. /\ u.at = "update" => Here(u.content)
        /\ u.at = "promote" => Here(u.content) /\ OnDisk(u.content)
        /\ u.at = "delete" => (CHOOSE p \in u.todo : TRUE)[1] \in DOMAIN irCold
        /\ u.at # "cool"
    BY <2>1, <2>2
  <2>5. /\ u.at = "update" => Here(u.content)'
        /\ u.at = "promote" => Here(u.content)' /\ OnDisk(u.content)'
        /\ u.at = "delete" => (CHOOSE p \in u.todo : TRUE)[1] \in DOMAIN irCold'
    BY <2>4
  <2>6. QED BY <1>3, <2>3, <2>4, <2>5
<1>6. QED BY <1>4, <1>5

LEMMA RememberedStays ==
    ASSUME RagTyped, RagNext, OneText, Remembered, irReheats = 0, irReheats' = 0
    PROVE  Remembered'
<1>0. /\ \A c \in irStored : Here(c) /\ OnDisk(c)
      /\ \A t \in RagThreads :
           /\ irThread[t].at = "update" => Here(irThread[t].content)
           /\ irThread[t].at = "promote" => Here(irThread[t].content) /\ OnDisk(irThread[t].content)
           /\ irThread[t].at = "delete" => NextToArchive(t)[1] \in DOMAIN irCold
           /\ irThread[t].at # "cool"
  BY DEF Remembered
<1>1. CASE RagCrash
  <2>1. /\ irWarm' = irDisk.warm /\ irCold' = irDisk.cold /\ irDisk' = irDisk /\ irStored' = irStored
        /\ irThread' = [t \in RagThreads |-> NoWork]
    BY <1>1 DEF RagCrash
  <2>2. \A c : OnDisk(c) => Here(c)' /\ OnDisk(c)'
    BY <2>1 DEF Here, OnDisk
  <2>3. \A t \in RagThreads : irThread'[t].at = "idle"
    BY <2>1, NoWorkTyped
  <2>4. \A c \in irStored' : Here(c)' /\ OnDisk(c)'
    BY <1>0, <2>1, <2>2
  <2>5. QED BY <2>3, <2>4 DEF Remembered
<1>2. CASE ~RagCrash
  <2>1. /\ \A c : Here(c) => Here(c)'
        /\ DOMAIN irCold \subseteq DOMAIN irCold'
        /\ Commits => \A c : Here(c)' => OnDisk(c)'
        /\ \A c : Here(c) /\ OnDisk(c) => OnDisk(c)'
    BY <1>2, HereGrows
  <2>2. ASSUME \A c \in irStored' : Here(c)' /\ OnDisk(c)',
               (\A s \in RagThreads :
                  /\ irThread[s].at = "update" => Here(irThread[s].content)
                  /\ irThread[s].at = "promote" => Here(irThread[s].content) /\ OnDisk(irThread[s].content)
                  /\ irThread[s].at = "delete" => NextToArchive(s)[1] \in DOMAIN irCold
                  /\ irThread[s].at # "cool")'
        PROVE  Remembered'
    BY <2>2 DEF Remembered
  <2>3. irStored' = irStored => \A c \in irStored' : Here(c)' /\ OnDisk(c)'
    BY <1>0, <2>1
  <2>4. CASE Quiet
    <3>1. ASSUME NEW c \in irStored' PROVE Here(c)' /\ OnDisk(c)'
      <4>1. CASE c \in irStored
        BY <1>0, <2>1, <4>1
      <4>2. ASSUME Commits, NEW t \in RagThreads, irThread[t].at = "update", c = irThread[t].content PROVE Here(c)' /\ OnDisk(c)'
        BY <1>0, <2>1, <4>2
      <4>3. ASSUME NEW t \in RagThreads, irThread[t].at = "promote", c = irThread[t].content PROVE Here(c)' /\ OnDisk(c)'
        BY <1>0, <2>1, <4>3
      <4>4. QED BY <2>4, <4>1, <4>2, <4>3 DEF Quiet
    <3>2. CASE irThread' = irThread
      <4>1. ASSUME NEW s \in RagThreads
            PROVE  (/\ irThread[s].at = "update" => Here(irThread[s].content)
                    /\ irThread[s].at = "promote" => Here(irThread[s].content) /\ OnDisk(irThread[s].content)
                    /\ irThread[s].at = "delete" => NextToArchive(s)[1] \in DOMAIN irCold
                    /\ irThread[s].at # "cool")'
        <5>1. PICK u : u = irThread[s] /\ irThread'[s] = u
          BY <3>2
        <5>2. /\ u.at = "update" => Here(u.content)
              /\ u.at = "promote" => Here(u.content) /\ OnDisk(u.content)
              /\ u.at = "delete" => (CHOOSE p \in u.todo : TRUE)[1] \in DOMAIN irCold
              /\ u.at # "cool"
          BY <1>0, <5>1 DEF NextToArchive
        <5>3. /\ u.at = "update" => Here(u.content)'
              /\ u.at = "promote" => Here(u.content)' /\ OnDisk(u.content)'
              /\ u.at = "delete" => (CHOOSE p \in u.todo : TRUE)[1] \in DOMAIN irCold'
          BY <2>1, <5>2
        <5>4. /\ (Here(irThread[s].content))' = Here(u.content)' /\ (OnDisk(irThread[s].content))' = OnDisk(u.content)'
              /\ (NextToArchive(s))' = CHOOSE p \in u.todo : TRUE
          BY <5>1 DEF Here, OnDisk, NextToArchive
        <5>5. QED BY <5>1, <5>2, <5>3, <5>4
      <4>2. QED BY <2>2, <3>1, <4>1
    <3>3. ASSUME NEW t \in RagThreads, NEW w \in Works, NextWork(t, w) PROVE Remembered'
      <4>1. /\ irThread' = [irThread EXCEPT ![t] = w] /\ w.at \notin {"promote", "cool", "delete"}
            /\ w.at = "update" => RowsOf(w.content) # {}
        BY <3>3 DEF NextWork
      <4>2. RowsOf(w.content) # {} => Here(w.content)
        BY DEF RowsOf, Here, Contents
      <4>3. w.at = "update" => Here(w.content)'
        BY <2>1, <4>1, <4>2
      <4>4. QED BY <2>1, <2>2, <3>1, <4>1, <4>3, WorkRemembered
    <3>4. QED BY <2>4, <3>2, <3>3 DEF Quiet
  <2>5. ASSUME NEW t \in RagThreads, InsertRow(t) PROVE Remembered'
    <3>1. PICK row \in RagRows, w \in Works :
            /\ row.content = w.content /\ w.at = "promote"
            /\ irThread' = [irThread EXCEPT ![t] = w] /\ irWarm' = With(irWarm, irNext, row)
            /\ irStored' = irStored /\ Commits
      BY <2>5, InsertFacts
    <3>2. w.content \in Contents(With(irWarm, irNext, row))
      BY <3>1, ContentsOps
    <3>3. Here(w.content)'
      BY <3>1, <3>2 DEF Here
    <3>4. OnDisk(w.content)'
      BY <2>1, <3>1, <3>3
    <3>5. QED BY <2>1, <2>2, <2>3, <3>1, <3>3, <3>4, WorkRemembered
  <2>6. ASSUME NEW t \in RagThreads, ArchiveRow(t) PROVE Remembered'
    <3>1. PICK p \in irThread[t].todo, w \in Works :
            /\ p = NextToArchive(t) /\ w.todo = irThread[t].todo /\ irThread' = [irThread EXCEPT ![t] = w]
            /\ irStored' = irStored /\ w.at \in {"delete", "uncache"}
            /\ w.at = "delete" => irCold' = With(irCold, p[1], p[2])
      BY <2>6, ArchiveFacts
    <3>2. w.at = "delete" => (CHOOSE q \in w.todo : TRUE)[1] \in DOMAIN irCold'
      BY <3>1 DEF NextToArchive, With
    <3>3. QED BY <2>1, <2>2, <2>3, <3>1, <3>2, WorkRemembered
  <2>7. ASSUME NEW t \in RagThreads, ReheatDeletes(t) PROVE FALSE
    BY <1>0, <2>7 DEF ReheatDeletes, At
  <2>8. ASSUME NEW t \in RagThreads, NEW id \in DOMAIN irCold, ReheatInserts(t, id) PROVE FALSE
    BY <2>8 DEF ReheatInserts
  <2>9. QED BY <1>2, <2>4, <2>5, <2>6, <2>7, <2>8, QuietOrNot
<1>3. QED BY <1>1, <1>2

LEMMA RagInitHolds ==
    ASSUME RagInit
    PROVE  RagInv
<1>1. /\ irWarm = <<>> /\ irCold = <<>> /\ irDisk = [warm |-> <<>>, cold |-> <<>>] /\ irHot = <<>>
      /\ irNext = 1 /\ irThread = [t \in RagThreads |-> NoWork] /\ irStored = {} /\ irReheats = 0
  BY DEF RagInit
<1>2. \A t \in RagThreads : irThread[t].at = "idle" /\ irThread[t].todo = {}
  BY <1>1, NoWorkTyped
<1>3. RagTyped
  <2>1. TablesTyped
    BY <1>1 DEF TablesTyped, Table
  <2>2. WorksTyped
    BY <1>1, NoWorkTyped DEF WorksTyped
  <2>3. HotStored
    BY <1>1 DEF HotStored, Range
  <2>4. QED BY <2>1, <2>2, <2>3 DEF RagTyped
<1>4. RowsCounted
  <2>1. ASSUME NEW c
        PROVE  /\ Cardinality(RowsOf(c)) + Cardinality(Inserting(c)) <= Cardinality(RagThreads) + irReheats
               /\ Cardinality(DiskRows(c)) <= Cardinality(RagThreads) + irReheats
    <3>1. RowsOf(c) = {} /\ DiskRows(c) = {} /\ Inserting(c) = {}
      BY <1>1, <1>2 DEF RowsOf, DiskRows, Inserting
    <3>2. Cardinality({}) = 0 /\ Cardinality(RagThreads) \in Nat
      BY RagAssumption, FS_EmptySet, FS_CardinalityType
    <3>3. QED BY <1>1, <3>1, <3>2
  <2>2. QED BY <2>1 DEF RowsCounted
<1>5. OneText
  <2>1. [n \in Nat |-> "none"] \in [Nat -> Words]
    BY DEF Words
  <2>2. NamesAll([n \in Nat |-> "none"])
    BY <1>1, <1>2 DEF NamesAll, Names
  <2>3. QED BY <2>1, <2>2 DEF OneText
<1>6. Remembered
  BY <1>1, <1>2 DEF Remembered
<1>7. QED BY <1>3, <1>4, <1>5, <1>6 DEF RagInv

LEMMA RagInvStays ==
    ASSUME RagInv, [RagNext]_irVars
    PROVE  RagInv'
<1>1. CASE RagNext
  <2>1. RagTyped /\ RowsCounted /\ OneText /\ (irReheats = 0 => Remembered) /\ irReheats \in Nat
    BY DEF RagInv, RagTyped, TablesTyped
  <2>2. irReheats' = 0 => irReheats = 0
    <3>1. Quiet \/ RagCrash => irReheats' = irReheats
      BY DEF Quiet, RagCrash, Counters
    <3>2. ASSUME NEW t \in RagThreads, InsertRow(t) \/ ArchiveRow(t) \/ ReheatDeletes(t) PROVE irReheats' = irReheats
      BY <3>2 DEF InsertRow, ArchiveRow, ReheatDeletes, Counters
    <3>3. ASSUME NEW t \in RagThreads, NEW id, ReheatInserts(t, id) PROVE irReheats' = irReheats + 1
      BY <3>3 DEF ReheatInserts
    <3>4. QED BY <1>1, <2>1, <3>1, <3>2, <3>3, QuietOrNot
  <2>3. QED BY <1>1, <2>1, <2>2, RagTypedStays, RowsCountedStays, OneTextStays, RememberedStays DEF RagInv
<1>2. CASE UNCHANGED irVars
  <2>1. UNCHANGED <<irWarm, irCold, irDisk, irHot, irNext, irCalls, irThread, irStored, irReheats>>
    BY <1>2 DEF irVars
  <2>2. RagTyped'
    BY <2>1 DEF RagInv, RagTyped, TablesTyped, WorksTyped, HotStored
  <2>3. RowsCounted'
    <3>1. \A c : RowsOf(c)' = RowsOf(c) /\ Inserting(c)' = Inserting(c) /\ DiskRows(c)' = DiskRows(c)
      BY <2>1 DEF RowsOf, Inserting, DiskRows
    <3>2. QED BY <2>1, <3>1 DEF RagInv, RowsCounted
  <2>4. OneText'
    BY <2>1 DEF RagInv, OneText, NamesAll
  <2>5. (irReheats = 0 => Remembered)'
    BY <2>1 DEF RagInv, Remembered, Here, OnDisk, NextToArchive
  <2>6. QED BY <2>2, <2>3, <2>4, <2>5 DEF RagInv
<1>3. QED BY <1>1, <1>2

\* The graph memory forgets nothing, bounds its duplicates and lowers no confidence it has not read.
LEMMA MemoryKept ==
    RagSpec => MemoryIsKept
<1>1. RagInit => RagInv
  BY RagInitHolds
<1>2. RagInv /\ [RagNext]_irVars => RagInv'
  BY RagInvStays
<1>3. RagInv => ForgottenOnlyByReheat /\ DuplicatesAreBounded
  <2>1. SUFFICES ASSUME RagInv PROVE ForgottenOnlyByReheat /\ DuplicatesAreBounded
    OBVIOUS
  <2>2. ForgottenOnlyByReheat
    BY <2>1 DEF RagInv, Remembered, Here, OnDisk, ForgottenOnlyByReheat, NothingIsForgotten
  <2>3. ASSUME NEW c \in RagContents PROVE Cardinality(RowsOf(c)) <= Cardinality(RagThreads) + irReheats
    <3>1. Cardinality(RowsOf(c)) + Cardinality(Inserting(c)) <= Cardinality(RagThreads) + irReheats /\ irReheats \in Nat
      BY <2>1 DEF RagInv, RowsCounted, RagTyped, TablesTyped
    <3>2. Cardinality(RowsOf(c)) \in Nat /\ Cardinality(Inserting(c)) \in Nat /\ Cardinality(RagThreads) \in Nat
      BY <2>1, CountsTyped DEF RagInv
    <3>3. QED BY <3>1, <3>2
  <2>4. QED BY <2>2, <2>3 DEF DuplicatesAreBounded
<1>4. RagInv => \A t \in RagThreads : UpdateRow(t) =>
         LET id == irThread[t].id IN
         id \in DOMAIN irWarm /\ id \in DOMAIN irWarm' /\ irWarm'[id].conf < irWarm[id].conf =>
           irWarm[id].conf # irThread[t].read
  <2>1. SUFFICES ASSUME RagInv, NEW t \in RagThreads, UpdateRow(t), NEW id, id = irThread[t].id, id \in DOMAIN irWarm,
                        irWarm'[id].conf < irWarm[id].conf
                 PROVE  irWarm[id].conf # irThread[t].read
    OBVIOUS
  <2>2. irWarm[id].conf \in Nat /\ irThread[t].conf \in Nat /\ irThread[t].read \in Nat
    BY <2>1 DEF RagInv, RagTyped, TablesTyped, Table, WorksTyped, Works, RagRows
  <2>3. irWarm'[id].conf = IF irThread[t].conf > irThread[t].read THEN irThread[t].conf ELSE irWarm[id].conf
    <3>1. irWarm' = [irWarm EXCEPT ![id] = Row(irWarm[id].content, Confidence(irThread[t], irWarm[id]), FALSE)]
      BY <2>1 DEF UpdateRow
    <3>2. irWarm'[id].conf = Confidence(irThread[t], irWarm[id])
      BY <2>1, <3>1 DEF Row
    <3>3. QED BY <3>2 DEF Confidence
  <2>4. QED BY <2>1, <2>2, <2>3
<1>5. QED BY <1>1, <1>2, <1>3, <1>4, PTL DEF RagSpec, MemoryIsKept, StoreNeverLowers

\* No memory is lost but where a race or a failure that the code cannot see explains it:
\* the graph memory's, the scribe's and the archive's, and the facts', each in every step.
THEOREM MemoriesKept ==
    ScribeSpec /\ FactsSpec /\ RagSpec => MemoriesAreKept
<1>1. ScribeSpec => []ScribeKept
  BY ScribeIsKept
<1>2. FactsSpec => []FactsAreKept
  BY FactsKept
<1>3. RagSpec => MemoryIsKept
  BY MemoryKept
<1>4. ScribeKept /\ FactsAreKept <=> AckedIntentIsKept /\ CopiesComeFromRetries /\ PendingIsWhatItDiedOver /\ FactsAreKept
  BY DEF ScribeKept
<1>5. QED BY <1>1, <1>2, <1>3, <1>4, PTL DEF MemoriesAreKept
=============================================================================
