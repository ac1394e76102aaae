-------------------------------- MODULE Crew --------------------------------
(* Spec-driven development missions (agents/core/crew_orchestrator.py):
   run_sdd_mission takes a session through its phases with one persona call after
   the other; afterwards the session is a plain object that its holders advance,
   realign, save to the SQLite store and load, each its own copy. Nothing saves it
   on the way, although SDDSessionStore says that it saves after each transition. *)
EXTENDS PlanExecution, HlfHost

CONSTANTS Holders,      \* processes or threads with a copy of the session
          MaxChanges    \* bound on the holders' calls that change a copy

VARIABLES sdHeld,       \* per holder: {} or {its copy}
          sdRow,        \* the store's row for the session: {} or {a copy}
          sdMission,    \* the holder inside run_sdd_mission, if any
          sdCalls,      \* answers of EXECUTE's three personas so far
          sdChanges,    \* such calls so far
          sdStale       \* history: holders whose copy the row has overtaken
sdVars == <<sdHeld, sdRow, sdMission, sdCalls, sdChanges, sdStale>>

Phases == <<"SPECIFY", "PLAN", "EXECUTE", "VERIFY", "MERGE">>
Merge == 5   \* a phase is its position in Phases
Verdicts == {"approves", "rejects", "empty"}

NewSession == [phase |-> 1, sealed |-> FALSE, answered |-> FALSE,
               trail |-> <<>>, verdict |-> "none", cove |-> "none"]
Copy(h) == CHOOSE s \in sdHeld[h] : TRUE

SddInit ==
  /\ sdHeld = [h \in Holders |-> {}] /\ sdRow = {} /\ sdMission = {} /\ sdCalls = 0
  /\ sdChanges = 0 /\ sdStale = {}

Allowed(s, target) == target >= s.phase /\ target <= s.phase + 1
\* advance_to, once it has not raised
Advanced(s, target, override) ==
  [s EXCEPT !.phase = target, !.sealed = (target = Merge),
            !.trail = Append(@, [from |-> s.phase, to |-> target, override |-> override])]

Hold(h, s) == sdHeld' = [sdHeld EXCEPT ![h] = {s}]

\* run_sdd_mission: the strategist writes the spec, then the task DAG.
BeginMission(h) ==
  /\ sdRow = {} /\ \A g \in Holders : sdHeld[g] = {}
  /\ Hold(h, NewSession) /\ sdMission' = {h} /\ sdCalls' = 0
  /\ UNCHANGED <<sdRow, sdChanges, sdStale>>
MissionAdvances(h) ==
  /\ h \in sdMission /\ Copy(h).phase \in {1, 2}
  /\ Hold(h, [Advanced(Copy(h), Copy(h).phase + 1, FALSE) EXCEPT !.answered = TRUE])
  /\ UNCHANGED <<sdRow, sdMission, sdCalls, sdChanges, sdStale>>
\* sentinel, catalyst and scribe, one call each; an empty answer counts.
MissionExecutes(h) ==
  /\ h \in sdMission /\ Copy(h).phase = 3
  /\ sdCalls' = sdCalls + 1
  /\ IF sdCalls + 1 = 3 THEN Hold(h, Advanced(Copy(h), 4, FALSE)) ELSE UNCHANGED sdHeld
  /\ UNCHANGED <<sdRow, sdMission, sdChanges, sdStale>>
\* cove_rejected: one of four words. No answer holds none of them.
Rejected(answer) == answer = "rejects"
MissionVerifies(h) ==
  /\ h \in sdMission /\ Copy(h).phase = 4
  /\ \E answer \in Verdicts :
       LET judged == [Copy(h) EXCEPT !.cove = answer,
                        !.verdict = IF Rejected(answer) THEN "REJECTED" ELSE "APPROVED"]
       IN Hold(h, IF Rejected(answer) THEN judged ELSE Advanced(judged, Merge, FALSE))
  /\ sdMission' = {}
  /\ UNCHANGED <<sdRow, sdCalls, sdChanges, sdStale>>

\* A client makes a session without a mission.
MakeSession(h) ==
  /\ \A g \in Holders : sdHeld[g] = {}
  /\ sdRow = {} /\ Hold(h, NewSession)
  /\ UNCHANGED <<sdRow, sdMission, sdCalls, sdChanges, sdStale>>

\* A holder's calls, when no mission runs on the copy.
Has(h) == h \notin sdMission /\ sdHeld[h] # {}
\* advance_to; a caller passes override=True only where it is needed.
AdvanceTo(h, target) ==
  /\ Has(h) /\ sdChanges < MaxChanges /\ ~Copy(h).sealed
  /\ Hold(h, Advanced(Copy(h), target, ~Allowed(Copy(h), target)))
  /\ sdChanges' = sdChanges + 1
  /\ UNCHANGED <<sdRow, sdMission, sdCalls, sdStale>>
\* realign: the spec and the history grow, the phase stays.
Realigned(s) ==
  [s EXCEPT !.trail = Append(@, [from |-> s.phase, to |-> s.phase, override |-> FALSE])]
Realign(h) ==
  /\ Has(h) /\ sdChanges < MaxChanges /\ ~Copy(h).sealed
  /\ Hold(h, Realigned(Copy(h)))
  /\ sdChanges' = sdChanges + 1
  /\ UNCHANGED <<sdRow, sdMission, sdCalls, sdStale>>

\* to_dict and from_dict keep all but the personas' responses.
Stored(s) == [s EXCEPT !.answered = FALSE]
\* save is an upsert, whatever the row holds by now.
SaveSession(h) ==
  /\ Has(h) /\ sdRow' = {Stored(Copy(h))}
  /\ sdStale' = IF sdRow' = sdRow THEN sdStale
                ELSE {g \in Holders : g # h /\ sdHeld[g] # {}}
  /\ UNCHANGED <<sdHeld, sdMission, sdCalls, sdChanges>>
\* Mutant: from_dict forgets the seal.
LoadedUnsealed(s) == [s EXCEPT !.sealed = FALSE]
Loaded(s) == s
LoadSession(h) ==
  /\ h \notin sdMission /\ sdRow # {}
  /\ sdHeld' = [sdHeld EXCEPT ![h] = {Loaded(s) : s \in sdRow}] /\ sdStale' = sdStale \ {h}
  /\ UNCHANGED <<sdRow, sdMission, sdCalls, sdChanges>>

\* The process ends: its copy, and a mission in it, are gone.
Crash(h) ==
  /\ sdHeld[h] # {}
  /\ sdHeld' = [sdHeld EXCEPT ![h] = {}] /\ sdMission' = sdMission \ {h} /\ sdStale' = sdStale \ {h}
  /\ UNCHANGED <<sdRow, sdCalls, sdChanges>>

SddNext ==
  \E h \in Holders :
    \/ MakeSession(h) \/ BeginMission(h) \/ MissionAdvances(h) \/ MissionExecutes(h) \/ MissionVerifies(h)
    \/ \E target \in DOMAIN Phases : AdvanceTo(h, target)
    \/ Realign(h) \/ SaveSession(h) \/ LoadSession(h) \/ Crash(h)

MissionSpec == SddInit /\ [][SddNext]_sdVars

-----------------------------------------------------------------------------
Copies == sdRow \cup UNION {sdHeld[h] : h \in Holders}

\* The audit trail of every copy, held or stored, is one path from SPECIFY to its
\* phase: each entry starts where the one before it ended, and skips or goes back
\* only by an override (advance_to, realign, to_dict, from_dict).
TrailIsPath ==
  \A s \in Copies : \A i \in 1 .. Len(s.trail) :
    /\ s.trail[i].from = (IF i = 1 THEN 1 ELSE s.trail[i - 1].to)
    /\ s.trail[i].override \/ s.trail[i].to \in {s.trail[i].from, s.trail[i].from + 1}
    /\ i = Len(s.trail) => s.trail[i].to = s.phase

\* CoVE gates the merge of a mission: one that it rejected is not sealed unless
\* somebody went on with the session afterwards (run_sdd_mission).
RejectedIsNotMerged ==
  \A s \in Copies :
    s.cove = "rejects" => s.verdict = "REJECTED" /\ (s.sealed => Len(s.trail) > 3)

\* The stored trail only grows, and the seal stays, except where a holder saves a
\* copy that the row has overtaken: save compares nothing.
StoreRegressesOnlyByStaleSave ==
  [][\A h \in Holders : SaveSession(h) /\ h \notin sdStale =>
       \A r \in sdRow, s \in sdRow' : IsPrefix(r.trail, s.trail) /\ (r.sealed => s.sealed)]_sdVars

\* What a reader of a session may trust: its trail, its verdict and the row in the
\* store (advance_to, realign, run_sdd_mission, SDDSessionStore).
MissionIsSound == [](TrailIsPath /\ RejectedIsNotMerged) /\ StoreRegressesOnlyByStaleSave

-----------------------------------------------------------------------------
(* The persona crew and what works like it: run_crew asks one persona after the other
   and stores the discussion (agents/core/crew_orchestrator.py); the hats review a pull
   request (agents/core/hat_engine.py, scripts/hat_pr_review.py); the dream cycle turns
   experiences into rules (agents/core/dream_state.py); and the gambit and the factory
   open an issue for each agent (scripts/persona_gambit.py, copilot_factory.py).
   Each part has variables of its own and a process of its own. *)
CONSTANTS
  CrewLists,        \* sequences of personas that callers ask for
  CrewRegistries,   \* sets of personas that agent_registry.json may hold
  MaxDiscussions, MaxEdits,   \* bounds: discussions begun, changes to files on disk
  HatLists,         \* sequences of hats that a review may ask for; "nohat" is none
  HatAnswers,       \* counts of findings that a hat may send as a JSON list
  DreamMin,         \* min_experiences
  MaxExperiences, MaxDreams,   \* bounds: experiences held, cycles that did something
  GambitAgents, MaxGambits     \* agents selected, and a bound on the runs

ASSUME CrewAssumption ==
  /\ \A list \in CrewLists \cup HatLists \cup GambitAgents : list \in Seq(Range(list))
  /\ HatAnswers \subseteq [critical : Nat, high : Nat, other : Nat]
  /\ DreamMin \in Nat \ {0}   \* no cycle runs on no experience

-----------------------------------------------------------------------------
\* The orchestrator. The two caches are globals of its process.
VARIABLES
  crDisk,     \* [agents, mandates]: agent_registry.json and _shared_mandates.md
  crCache,    \* [agents, mandates]: {} or {what was read}
  crRun,      \* {} or {the discussion that runs}
  crDb,       \* [committed, pending]: discussions of one connection
  crStatus,   \* {} or {the last answer of get_system_status}
  crStale,    \* history: the registry's file changed after it was read
  crCount     \* [discussions, edits] so far
crVars == <<crDisk, crCache, crRun, crDb, crStatus, crStale, crCount>>

Broken == {"broken"}   \* a registry that is not JSON

CrewInit ==
  /\ crDisk \in [agents : CrewRegistries, mandates : BOOLEAN]
  /\ crCache = [agents |-> {}, mandates |-> {}] /\ crRun = {}
  /\ crDb = [committed |-> <<>>, pending |-> <<>>] /\ crStatus = {} /\ crStale = FALSE
  /\ crCount = [discussions |-> 0, edits |-> 0]

Run == CHOOSE r \in crRun : TRUE
\* _load_registry: what is cached, else the file; it raises where that is no JSON.
LoadedAgents == IF crCache.agents # {} THEN crCache.agents ELSE {crDisk.agents} \ {Broken}
RegistryBroken == LoadedAgents = {}
LoadedMandates == IF crCache.mandates # {} THEN crCache.mandates ELSE {crDisk.mandates}

BeginCrew(list, robin) ==
  /\ crRun = {} /\ crCount.discussions < MaxDiscussions
  /\ LET specialists == InOrder(list, Range(list) \ {"consolidator"})
         last == IF list # specialists THEN <<"consolidator">> ELSE <<>>
     IN crRun' = {[used |-> specialists \o last, todo |-> specialists, rows |-> <<>>, robin |-> robin]}
  /\ crCount' = [crCount EXCEPT !.discussions = @ + 1]
  /\ UNCHANGED <<crDisk, crCache, crDb, crStatus, crStale>>

\* _build_persona_prompt: the mandates go before a persona's own file; the fallback from
\* the registry's metadata starts the prompt anew.
Prompt(file, mandates) == [file |-> file, mandates |-> file /\ mandates]
Heard(who, prompt, prior) == [who |-> who, prompt |-> prompt, prior |-> prior]
\* run_persona: whatever the model answers, nothing included, is the response, and for one
\* that is not registered an error text, without a call.
CallPersona(file) ==
  /\ crRun # {} /\ Run.todo # <<>> /\ ~RegistryBroken
  /\ LET who == Head(Run.todo)
         known == \E agents \in LoadedAgents : who \in agents
         prior == IF Run.robin THEN Len(Run.rows) ELSE 0
         row == IF known THEN Heard(who, Prompt(file, TRUE \in LoadedMandates), prior)
                ELSE Heard(who, Prompt(FALSE, FALSE), 0)
     IN /\ file => known
        /\ crRun' = {[Run EXCEPT !.todo = Tail(@), !.rows = Append(@, row)]}
        /\ crCache' = [agents |-> LoadedAgents, mandates |-> IF known THEN LoadedMandates ELSE crCache.mandates]
  /\ UNCHANGED <<crDisk, crDb, crStatus, crStale, crCount>>
\* An exception that nobody catches ends the call, and the discussion is gone.
CrewRaises ==
  /\ crRun # {} /\ Run.todo # <<>> /\ RegistryBroken
  /\ crRun' = {} /\ UNCHANGED <<crDisk, crCache, crDb, crStatus, crStale, crCount>>

\* _run_consolidation: JSON that is no object, or has a confidence that is no number,
\* raises what it does not catch; prose is kept as it is.
Unconsolidated == "consolidator" \in Range(Run.used) /\ Run.rows # <<>> /\ Last(Run.rows).who # "consolidator"
Consolidate(answer) ==
  /\ crRun # {} /\ Run.todo = <<>> /\ Unconsolidated
  /\ IF RegistryBroken \/ answer = "malformed" THEN crRun' = {}
     ELSE crRun' = {[Run EXCEPT !.rows =
                       Append(@, Heard("consolidator", Prompt(FALSE, FALSE), Len(@)))]}
  /\ crCache' = [crCache EXCEPT !.agents = LoadedAgents]
  /\ UNCHANGED <<crDisk, crDb, crStatus, crStale, crCount>>

\* _persist_crew_report: executescript commits what an earlier call left open; then the
\* header and one row per response are inserted, and committed together. An insert that
\* fails, or the commit, leaves those before it open on the connection.
CrewReady == crRun # {} /\ Run.todo = <<>> /\ ~Unconsolidated
Discussion(rows, torn) == [used |-> Run.used, rows |-> rows, torn |-> torn]
PersistCrew ==
  /\ CrewReady /\ crRun' = {}
  /\ crDb' = [committed |-> Append(crDb.committed \o crDb.pending, Discussion(Run.rows, FALSE)),
              pending |-> <<>>]
  /\ UNCHANGED <<crDisk, crCache, crStatus, crStale, crCount>>
PersistFails(done) ==
  /\ CrewReady /\ done <= Len(Run.rows) + 1 /\ crRun' = {}
  /\ crDb' = [committed |-> crDb.committed \o crDb.pending,
              pending |-> IF done = 0 THEN <<>> ELSE <<Discussion(SubSeq(Run.rows, 1, done - 1), TRUE)>>]
  /\ UNCHANGED <<crDisk, crCache, crStatus, crStale, crCount>>
\* No connection was given, or the connection closes and rolls back.
CrewUnstored == CrewReady /\ crRun' = {} /\ UNCHANGED <<crDisk, crCache, crDb, crStatus, crStale, crCount>>
CrewCloses ==
  /\ crDb.pending # <<>> /\ crRun = {} /\ crDb' = [crDb EXCEPT !.pending = <<>>]
  /\ UNCHANGED <<crDisk, crCache, crRun, crStatus, crStale, crCount>>

\* reload_registry: a file that cannot be read leaves no registry at all.
ReloadRegistry ==
  /\ crRun = {} /\ crCache' = [crCache EXCEPT !.agents = {crDisk.agents} \ {Broken}]
  /\ crStale' = FALSE /\ UNCHANGED <<crDisk, crRun, crDb, crStatus, crCount>>
\* get_system_status: the roster from the cache, the hash from the file.
Status ==
  /\ crRun = {} /\ ~RegistryBroken
  /\ crStatus' = {[roster |-> agents, hash |-> crDisk.agents, stale |-> crStale] : agents \in LoadedAgents}
  /\ crCache' = [crCache EXCEPT !.agents = LoadedAgents]
  /\ UNCHANGED <<crDisk, crRun, crDb, crStale, crCount>>
EditDisk ==
  /\ crCount.edits < MaxEdits /\ crCount' = [crCount EXCEPT !.edits = @ + 1]
  /\ crDisk' \in [agents : CrewRegistries, mandates : BOOLEAN]
  /\ crStale' = (crStale \/ (crCache.agents # {} /\ crDisk'.agents # crDisk.agents))
  /\ UNCHANGED <<crCache, crRun, crDb, crStatus>>

CrewNext ==
  \/ \E list \in CrewLists, robin \in BOOLEAN : BeginCrew(list, robin)
  \/ \E file \in BOOLEAN : CallPersona(file)
  \/ \E answer \in {"kept", "malformed"} : Consolidate(answer)
  \/ \E done \in 0 .. 4 : PersistFails(done)
  \/ CrewRaises \/ PersistCrew \/ CrewUnstored \/ CrewCloses \/ ReloadRegistry \/ Status \/ EditDisk

CrewRunSpec == CrewInit /\ [][CrewNext]_crVars

\* A stored discussion holds one response of each persona it names, in their order and the
\* consolidator's last, each having seen all before it or none; only a discussion whose
\* storing failed is cut off, and a consolidator alone says nothing (run_crew).
Whole(d) == [i \in DOMAIN d.rows |-> d.rows[i].who] = d.used
DiscussionsAreWhole ==
  \A i \in DOMAIN crDb.committed : LET d == crDb.committed[i] IN
    /\ d.torn \/ Whole(d) \/ (d.used = <<"consolidator">> /\ d.rows = <<>>)
    /\ \A j \in DOMAIN d.rows : d.rows[j].prior \in {0, j - 1}
\* The status answers with a roster that is not the hashed file's only if the file has
\* changed since it was read; and personas with a file of their own all get the shared
\* mandates, or none does (get_system_status, _load_shared_mandates).
StatusIsCurrent == \A s \in crStatus : s.roster = s.hash \/ s.stale
MandatesAreShared ==
  LET discussions == Range(crDb.committed) \cup crRun
      all == UNION {Range(d.rows) : d \in discussions}
  IN \A a, b \in {r \in all : r.prompt.file} : a.prompt.mandates = b.prompt.mandates

-----------------------------------------------------------------------------
\* The hats: each asks a model, and what it answers becomes findings.
VARIABLES
  hrRun,      \* {} or {the review that runs}
  hrReview    \* the last review: its reports, its verdict, where it went, and the exit code
hrVars == <<hrRun, hrReview>>

NoReview == [reports |-> <<>>, verdict |-> "none", posted |-> FALSE, exit |-> 0]
HatsInit == hrRun = {} /\ hrReview = NoReview

Hats == CHOOSE r \in hrRun : TRUE
NoFindings == [critical |-> 0, high |-> 0, other |-> 0]
\* Answers: a JSON list, prose, a JSON object, or nothing.
Answers == {[kind |-> "list", of |-> n] : n \in HatAnswers} \cup
           {[kind |-> k, of |-> NoFindings] : k \in {"prose", "object", "empty"}}
\* _parse_findings: prose is one INFO finding; what is no list is none.
Findings(answer) == IF answer.kind = "prose" THEN [NoFindings EXCEPT !.other = 1] ELSE answer.of

\* The endpoints in the order of the strategy.
Endpoints ==
  {<<"primary">>, <<"primary", "secondary">>, <<"secondary", "primary">>}
\* _call_ollama: the first endpoint that answers; when all fail, the answer is empty.
Answered(endpoints, up, answer) ==
  IF \E i \in DOMAIN endpoints : endpoints[i] \in up THEN answer ELSE [kind |-> "empty", of |-> NoFindings]

BeginReview(list) ==
  /\ hrRun = {} /\ hrReview = NoReview
  /\ hrRun' = {[todo |-> list, reports |-> <<>>]} /\ UNCHANGED hrReview
\* run_hat_pr_review, and run_all_hats_pr, which skips what is no hat.
HearHat(endpoints, up, answer) ==
  /\ hrRun # {} /\ Hats.todo # <<>>
  /\ LET heard == Answered(endpoints, up, answer)
         report == [kind |-> heard.kind, said |-> heard.of, findings |-> Findings(heard),
                    down |-> up \cap Range(endpoints) = {}]
     IN hrRun' = {[todo |-> Tail(Hats.todo),
                   reports |-> IF Head(Hats.todo) = "nohat" THEN Hats.reports ELSE Append(Hats.reports, report)]}
  /\ UNCHANGED hrReview

CriticalIn(reports) == SumFunction([i \in DOMAIN reports |-> reports[i].findings.critical])
FoundIn(reports) ==
  SumFunction([i \in DOMAIN reports |-> LET f == reports[i].findings IN f.critical + f.high + f.other])
\* format_review_markdown's recommendation.
Recommendation(critical, total) ==
  IF critical > 0 THEN "BLOCK" ELSE IF total > 5 THEN "REQUEST CHANGES"
  ELSE IF total > 0 THEN "COMMENT" ELSE "APPROVE"
Verdict(reports) == Recommendation(CriticalIn(reports), FoundIn(reports))
\* main: the review is printed or posted; an HTTP error while it is posted ends the script.
EndReview(how) ==
  /\ hrRun # {} /\ Hats.todo = <<>> /\ hrRun' = {}
  /\ hrReview' = [reports |-> Hats.reports, verdict |-> Verdict(Hats.reports), posted |-> how = "posted",
                  exit |-> IF how = "http error" \/ CriticalIn(Hats.reports) > 0 THEN 1 ELSE 0]
NextReview == hrReview # NoReview /\ hrReview' = NoReview /\ UNCHANGED hrRun

HatsNext ==
  \/ \E list \in HatLists : BeginReview(list)
  \/ \E endpoints \in Endpoints, up \in SUBSET {"primary", "secondary"}, answer \in Answers :
       HearHat(endpoints, up, answer)
  \/ \E how \in {"printed", "posted", "http error"} : EndReview(how)
  \/ NextReview

HatsSpec == HatsInit /\ [][HatsNext]_hrVars

\* A review says what the hats said: one critical finding, whoever reports it, blocks the
\* merge and fails the script; it approves only if no hat found anything, be it that all
\* lists were empty or that a hat was not to be reached or sent no list, which look the
\* same (run_all_hats_pr, format_review_markdown, main).
ReviewIsHeard ==
  hrReview # NoReview =>
    LET reports == Range(hrReview.reports)
        blocks == \E r \in reports : r.said.critical > 0
    IN /\ blocks <=> hrReview.verdict = "BLOCK"
       /\ blocks => hrReview.exit = 1
       /\ hrReview.verdict = "APPROVE" => \A r \in reports : r.kind # "prose" /\ r.said = NoFindings
       /\ \A r \in reports : r.down => r.kind = "empty"

-----------------------------------------------------------------------------
\* The dream cycle (DreamStateEngine).
VARIABLES
  deHeld,     \* experiences: a sequence of [topic, ok]
  deRules,    \* rules: of each cycle that passed, the topics and the experiences behind each
  deBaseline, \* {} or {[ok, all]}: the first cycle's success rate
  deDreams,   \* cycles that reported, and whether the last of them passed
  deLost      \* history: experiences cleared without a rule
deVars == <<deHeld, deRules, deBaseline, deDreams, deLost>>

DreamInit ==
  /\ deHeld = <<>> /\ deRules = <<>> /\ deBaseline = {} /\ deLost = 0
  /\ deDreams = [count |-> 0, passed |-> TRUE]

Topics == {"a", "b"}   \* the commonest word of more than three letters
Rate(es) == [ok |-> Cardinality({i \in DOMAIN es : es[i].ok}), all |-> Len(es)]
\* The rate is at least nine tenths of the baseline: success_rate_floor.
Passes(rate, base) == 10 * rate.ok * base.all >= 9 * base.ok * rate.all
On(es, topics) == {i \in DOMAIN es : es[i].topic \in topics}
Clusters(es) == {t \in Topics : Cardinality(On(es, {t})) >= 2}
RulesOf(es) == [t \in Clusters(es) |-> Cardinality(On(es, {t}))]

AddExperience(t, ok) ==
  /\ Len(deHeld) < MaxExperiences /\ deHeld' = Append(deHeld, [topic |-> t, ok |-> ok])
  /\ UNCHANGED <<deRules, deBaseline, deDreams, deLost>>
DreamCycle ==
  /\ Len(deHeld) >= DreamMin /\ deDreams.count < MaxDreams
  /\ deBaseline' = IF deBaseline = {} THEN {Rate(deHeld)} ELSE deBaseline
  /\ LET passes == \A base \in deBaseline' : Passes(Rate(deHeld), base)
     IN /\ deDreams' = [count |-> deDreams.count + 1, passed |-> passes]
        /\ IF passes
           THEN /\ deRules' = Append(deRules, RulesOf(deHeld)) /\ deHeld' = <<>>
                /\ deLost' = deLost + Cardinality(On(deHeld, Topics \ Clusters(deHeld)))
           ELSE UNCHANGED <<deHeld, deRules, deLost>>

DreamNext == DreamCycle \/ \E t \in Topics, ok \in BOOLEAN : AddExperience(t, ok)

DreamSpec == DreamInit /\ [][DreamNext]_deVars

\* A cycle whose experiences went worse than nine tenths of the first one's forgets nothing
\* and learns nothing; one that passes turns each experience into part of a rule, but for
\* those alone in their topic, which it drops (dream_cycle).
DreamsKeepExperience ==
  [][LET rate == Rate(deHeld)
     IN deDreams' # deDreams =>
          /\ IF deDreams'.passed
             THEN /\ deHeld' = <<>> /\ deRules = Front(deRules')
                  /\ Len(deHeld) = SumFunction(Last(deRules')) + (deLost' - deLost)
             ELSE deHeld' = deHeld /\ deRules' = deRules
          /\ deDreams'.passed <=> (\A b \in deBaseline : 10 * rate.ok * b.all >= 9 * b.ok * rate.all)]_deVars

-----------------------------------------------------------------------------
\* The gambit: one issue after the other through the gh command, no retry.
VARIABLES
  gaRun,      \* {} or {the script's run}
  gaIssues,   \* GitHub's issues: of each run, a sequence of [agent, assigned]
  gaRuns      \* ended runs: a sequence of [end, results]
gaVars == <<gaRun, gaIssues, gaRuns>>

GambitInit == gaRun = {} /\ gaIssues = <<>> /\ gaRuns = <<>>

Gambit == CHOOSE r \in gaRun : TRUE
\* The gambit ends on a timeout of either call; the factory swallows that of the second.
BeginGambit(agents, script) ==
  /\ gaRun = {} /\ Len(gaRuns) < MaxGambits
  /\ script = "factory" => Len(agents) = 1
  /\ gaRun' = {[todo |-> agents, script |-> script, results |-> <<>>, at |-> "create"]}
  /\ gaIssues' = Append(gaIssues, <<>>) /\ UNCHANGED gaRuns
EndGambit(end) == gaRun' = {} /\ gaRuns' = Append(gaRuns, [end |-> end, results |-> Gambit.results])
Recorded(success) ==
  gaRun' = {[Gambit EXCEPT !.todo = Tail(@), !.at = "create",
                           !.results = Append(@, [agent |-> Head(Gambit.todo), success |-> success])]}
\* The last run's issues become these.
Issues(issues) == gaIssues' = [gaIssues EXCEPT ![Len(gaIssues)] = issues]
Opened == Append(Last(gaIssues), [agent |-> Head(Gambit.todo), assigned |-> FALSE])
AssignedLast == LET issues == Last(gaIssues) IN [issues EXCEPT ![Len(issues)].assigned = TRUE]
\* gh issue create; one that times out may have opened the issue.
CreateIssue(outcome) ==
  /\ gaRun # {} /\ Gambit.todo # <<>> /\ Gambit.at = "create"
  /\ IF outcome \in {"opened", "opened late"} THEN Issues(Opened) ELSE UNCHANGED gaIssues
  /\ \/ /\ outcome = "opened" /\ gaRun' = {[Gambit EXCEPT !.at = "assign"]} /\ UNCHANGED gaRuns
     \/ /\ outcome = "rejected" /\ Recorded(FALSE) /\ UNCHANGED gaRuns
     \/ outcome \in {"opened late", "timeout", "no gh"} /\ EndGambit(outcome)
\* gh issue edit: its exit code is not looked at.
AssignCopilot(outcome) ==
  /\ gaRun # {} /\ Gambit.at = "assign"
  /\ IF outcome = "assigned" THEN Issues(AssignedLast) ELSE UNCHANGED gaIssues
  /\ IF outcome = "timeout" /\ Gambit.script = "gambit" THEN EndGambit("timeout")
     ELSE Recorded(TRUE) /\ UNCHANGED gaRuns
GambitSummary ==
  /\ gaRun # {} /\ Gambit.todo = <<>> /\ EndGambit("summary") /\ UNCHANGED gaIssues

GambitNext ==
  \/ \E agents \in GambitAgents, script \in {"gambit", "factory"} : BeginGambit(agents, script)
  \/ \E outcome \in {"opened", "opened late", "rejected", "timeout", "no gh"} : CreateIssue(outcome)
  \/ \E outcome \in {"assigned", "not assigned", "timeout"} : AssignCopilot(outcome)
  \/ GambitSummary

GambitSpec == GambitInit /\ [][GambitNext]_gaVars

\* A run that comes to its summary has counted the issues it opened, one for each agent at
\* the most; one that a timeout cut short may have opened a single issue more than it has
\* recorded, which the next run opens again (_create_issue, create_copilot_issue, main).
Asked == UNION {Range(agents) : agents \in GambitAgents}
IssuesAreCounted ==
  \A i \in DOMAIN gaRuns :
    LET opened == gaIssues[i]
        counted == InOrder(gaRuns[i].results, [agent : Asked, success : {TRUE}])
        both == [n \in 1 .. Len(counted) |-> counted[n].agent]
    IN /\ IsPrefix(both, [n \in 1 .. Len(opened) |-> opened[n].agent])
       /\ Len(opened) <= Len(counted) + (IF gaRuns[i].end \in {"opened late", "timeout"} THEN 1 ELSE 0)

\* What the crew and its kin report is what was said and done (run_crew, the pull request's
\* review, dream_cycle, the gambit).
CrewIsSound ==
  [](DiscussionsAreWhole /\ StatusIsCurrent /\ MandatesAreShared /\ ReviewIsHeard /\ IssuesAreCounted)
  /\ DreamsKeepExperience

\* The work agreed on is done as agreed, and reported as it was done: a plan's tasks in
\* order and none twice, a mission only through its gates and its seals, an HLF program
\* in a scope, under a capsule and with modules that are its own, and the crew's talks
\* (PlanExecutor.execute, CrewOrchestrator.run_sdd_mission, HLFInterpreter, HLFRuntime).
WorkIsCarriedOut ==
  [](PlanIsCarriedOut /\ ScopeIsSound /\ RuntimeIsSound) /\ MissionIsSound /\ CrewIsSound
=============================================================================
