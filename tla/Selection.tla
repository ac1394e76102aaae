------------------------------ MODULE Selection ------------------------------
(* Three ways to decide what handles a request.

   MAESTROClassifier (agents/core/maestro.py) gives a text an intent and a tier, by
   the best of a list of rules or, where the rules are unsure, by a model.
   MAESTRORouter (maestro_router.py) scores the providers that have what the intent
   needs. classify_task and classify_intent (task_classifier.py) give a task a size,
   which decides whether it skips orchestration.

   A text is how often each rule matches it. Confidences are in hundredths for the
   rules, in thousandths for the router; scores are in thousandths. *)
EXTENDS Integers, Sequences, FiniteSets, Functions, TLC

CONSTANTS MoTexts,         \* rule -> hits, for the rules that match
          MoThreshold,     \* _confidence_threshold
          MoAnswers,       \* what the model may answer: [intent, confidence]
          HistoryLimit,    \* _history_limit
          MaxClassified    \* bound on the calls of classify

\* _RULE_PATTERNS: the patterns in their order, and INTENT_TO_TIER
Rule(i, b) == [intent |-> i, base |-> b]
MoRules ==
  <<Rule("query", 75), Rule("query", 80), Rule("research", 75), Rule("code_gen", 70), Rule("code_gen", 85),
    Rule("code_edit", 75), Rule("code_edit", 85), Rule("build_test", 80), Rule("build_test", 90), Rule("system_admin", 70),
    Rule("system_admin", 65), Rule("delegation", 75), Rule("delegation", 85), Rule("security_scan", 80), Rule("deploy", 80)>>
Tier(intent) ==
  CASE intent \in {"query", "research", "unknown"} -> "hearth"
    [] intent \in {"code_gen", "code_edit", "build_test", "delegation"} -> "forge"
    [] OTHER -> "sovereign"

VARIABLES moText,      \* the text classified last
          moResult,    \* its classification: intent, confidence, tier, method
          moHistory,   \* intents of the latest classifications
          moCount, moLlm   \* _classification_count and _llm_fallback_count
moVars == <<moText, moResult, moHistory, moCount, moLlm>>

MaestroInit ==
  /\ moText = <<>> /\ moHistory = <<>> /\ moCount = 0 /\ moLlm = 0
  /\ moResult = [intent |-> "unknown", confidence |-> 30, tier |-> "hearth", method |-> "rule"]

Least(a, b) == IF a < b THEN a ELSE b
\* The boost for each hit, up to 95.
SummedConfidence(text, i) == MoRules[i].base + 2 * text[i]
ConfidenceOf(text, i) == Least(SummedConfidence(text, i), 95)
\* The strict comparison in list order: of equals the first wins. Sums of different
\* bases that are equal here may differ in the last bit of a float, either way.
FirstOf(text, i, j) == i < j /\ (MoRules[i].base = MoRules[j].base \/ ConfidenceOf(text, j) = 95)
Best(text, i) ==
  \A j \in DOMAIN text \ {i} :
    ConfidenceOf(text, j) <= ConfidenceOf(text, i) /\ ~(ConfidenceOf(text, j) = ConfidenceOf(text, i) /\ FirstOf(text, j, i))

RuleResults(text) ==
  IF text = <<>> THEN {[intent |-> "unknown", confidence |-> 30, tier |-> Tier("unknown"), method |-> "rule"]}
  ELSE {[intent |-> MoRules[i].intent, confidence |-> ConfidenceOf(text, i), tier |-> Tier(MoRules[i].intent), method |-> "rule"] :
          i \in {k \in DOMAIN text : Best(text, k)}}
\* _classify_with_llm: no backend, an exception or an answer that is no JSON is None; an
\* unknown category is UNKNOWN, and the confidence is taken as it is.
ModelResults ==
  {[intent |-> a.intent, confidence |-> a.confidence, tier |-> Tier(a.intent), method |-> "llm"] : a \in MoAnswers}

Classify ==
  /\ moCount < MaxClassified /\ moCount' = moCount + 1
  /\ \E text \in MoTexts : \E r \in RuleResults(text) :
       /\ moText' = text
       /\ \/ moResult' = r /\ UNCHANGED moLlm
          \/ \E m \in ModelResults :
               r.confidence < MoThreshold /\ m.confidence > r.confidence /\ moResult' = m /\ moLlm' = moLlm + 1
  /\ LET longer == Append(moHistory, moResult'.intent)
     IN moHistory' = SubSeq(longer, IF Len(longer) > HistoryLimit THEN 2 ELSE 1, Len(longer))
MaestroNext == Classify

\* Evidence decides: a rule that matched at least as often and counts more than the one
\* chosen lost only to the limit of 95, a tier above hearth has a rule that matched or a
\* model that was surer than all of them, and a sure rule is never overruled
\* (_classify_by_rules, classify).
MaestroIsSound ==
  /\ moResult.method = "rule" =>
       \E i \in DOMAIN moText \cup {0} :
         IF i = 0 THEN moText = <<>> /\ moResult.tier = "hearth"
         ELSE /\ MoRules[i].intent = moResult.intent
              /\ \A j \in DOMAIN moText :
                   MoRules[j].base > MoRules[i].base /\ moText[j] >= moText[i] => ConfidenceOf(moText, i) = 95
  /\ moResult.method = "llm" =>
       \A i \in DOMAIN moText : ConfidenceOf(moText, i) < moResult.confidence /\ ConfidenceOf(moText, i) < MoThreshold
  /\ Len(moHistory) = Least(moCount, HistoryLimit) /\ moLlm <= moCount

-----------------------------------------------------------------------------
CONSTANTS MrOthers,      \* other provider objects: [name, models, can, cost, priority, local]
          MrRouters,     \* router -> [preferLocal, costLimit]
          MaxRouterCalls \* bound on the calls that change a router

\* _DEFAULT_PROVIDERS
DefaultProfile(n, model, can, cost, priority) ==
  [name |-> n, models |-> {model}, can |-> can, cost |-> cost, priority |-> priority, local |-> n = "ollama"]
MrProviders ==
  [google |-> DefaultProfile("google", "gemini", {"chat", "code", "reasoning"}, 2, 1),
   openai |-> DefaultProfile("openai", "gpt", {"chat", "code", "reasoning"}, 3, 2),
   anthropic |-> DefaultProfile("anthropic", "claude", {"chat", "code", "reasoning"}, 3, 3),
   ollama |-> DefaultProfile("ollama", "llama", {"chat", "code"}, 1, 4)] @@ MrOthers
MrDefaults == <<"google", "openai", "anthropic", "ollama">>

Needs(intent) ==
  CASE intent \in {"code_gen", "security_scan"} -> {"code", "reasoning"}
    [] intent \in {"code_edit", "build_test"} -> {"code"}
    [] intent \in {"system_admin", "delegation", "research"} -> {"chat", "reasoning"}
    [] OTHER -> {"chat"}
\* One intent for each set of needs.
NeedyIntents == {"query", "code_gen", "code_edit", "research"}
Confidences == {0, 300, 670, 1000}

VARIABLES mtAvailable,  \* per provider object: is_available
          mtLists,      \* per router: _providers
          mtRoute,      \* the route a router gave since the last change of one: none depends on another
          mtCalls
mtVars == <<mtAvailable, mtLists, mtRoute, mtCalls>>

NoRoute == [router |-> "", provider |-> "", explicit |-> FALSE, fallbacks |-> <<>>, qualified |-> {}]
\* Two routers made with the defaults hold the same objects in lists of their own.
MaestroRouterInit ==
  /\ mtAvailable = [p \in DOMAIN MrProviders |-> TRUE] /\ mtLists = [r \in DOMAIN MrRouters |-> MrDefaults]
  /\ mtRoute = NoRoute /\ mtCalls = 0

Named(p, name) == MrProviders[p].name = name
ProviderNames == {MrProviders[p].name : p \in DOMAIN MrProviders}
ChangesRouter == mtCalls < MaxRouterCalls /\ mtCalls' = mtCalls + 1 /\ mtRoute' = NoRoute
AddProvider(r, p) == ChangesRouter /\ mtLists' = [mtLists EXCEPT ![r] = Append(@, p)] /\ UNCHANGED mtAvailable
RemoveProvider(r, name) ==
  /\ ChangesRouter /\ UNCHANGED mtAvailable
  /\ mtLists' = [mtLists EXCEPT ![r] = SelectSeq(@, LAMBDA p : ~Named(p, name))]
\* set_provider_availability writes to the object, whoever shares it.
SetAvailability(r, name, up) ==
  /\ ChangesRouter /\ UNCHANGED mtLists
  /\ mtAvailable' = [p \in DOMAIN mtAvailable |->
                       IF Named(p, name) /\ \E i \in DOMAIN mtLists[r] : mtLists[r][i] = p THEN up ELSE mtAvailable[p]]

\* _score_providers
CapabilityScore(p, intent) == (Cardinality(Needs(intent) \cap MrProviders[p].can) * 10000) \div Cardinality(Needs(intent))
Most(a, b) == IF a > b THEN a ELSE b
Score(r, p, intent, confidence) ==
  CapabilityScore(p, intent) + 1000 * Most(0, 5 - MrProviders[p].priority)
  + Most(0, (4 - MrProviders[p].cost) * (1000 - confidence))
  + (IF MrRouters[r].preferLocal /\ MrProviders[p].local THEN 2000 ELSE 0)
Qualifies(r, p, intent) ==
  /\ mtAvailable[p] /\ CapabilityScore(p, intent) > 0
  /\ MrRouters[r].costLimit = 0 \/ MrProviders[p].cost <= MrRouters[r].costLimit
\* The stable sort, best first: positions in the router's list.
Positions(r, intent) == {i \in DOMAIN mtLists[r] : Qualifies(r, mtLists[r][i], intent)}
Scores(r, intent, confidence) == [i \in Positions(r, intent) |-> Score(r, mtLists[r][i], intent, confidence)]
Before(scores, i, j) == scores[i] > scores[j] \/ (scores[i] = scores[j] /\ i < j)
Ranking(r, intent, confidence) ==
  LET scores == Scores(r, intent, confidence)
      rank == [i \in DOMAIN scores |-> 1 + Cardinality({j \in DOMAIN scores : Before(scores, j, i)})]
  IN [n \in 1..Cardinality(DOMAIN scores) |-> mtLists[r][CHOOSE i \in DOMAIN scores : rank[i] = n]]

Names(providers) == [i \in DOMAIN providers |-> MrProviders[providers[i]].name]
MaestroRoute(r, intent, confidence) ==
  LET ranking == Ranking(r, intent, confidence)
  IN mtRoute' = IF ranking = <<>> THEN [NoRoute EXCEPT !.router = r, !.provider = "none"]
                ELSE [NoRoute EXCEPT !.router = r, !.provider = MrProviders[ranking[1]].name,
                        !.fallbacks = Names(SubSeq(ranking, 2, Least(4, Len(ranking)))),
                        !.qualified = {MrProviders[p].name : p \in {q \in DOMAIN MrProviders :
                                         \E i \in Positions(r, intent) : mtLists[r][i] = q}}]
\* A model asked for by name: the first provider that lists it, available or not.
RouteExplicit(r, model) ==
  \E i \in DOMAIN mtLists[r] :
    /\ model \in MrProviders[mtLists[r][i]].models
    /\ \A j \in 1..(i - 1) : model \notin MrProviders[mtLists[r][j]].models
    /\ mtRoute' = [NoRoute EXCEPT !.router = r, !.provider = MrProviders[mtLists[r][i]].name, !.explicit = TRUE]

MaestroRouterNext ==
  \/ \E r \in DOMAIN MrRouters, name \in ProviderNames :
       RemoveProvider(r, name) \/ \E up \in BOOLEAN : SetAvailability(r, name, up)
  \/ \E r \in DOMAIN MrRouters, p \in DOMAIN MrProviders : AddProvider(r, p)
  \/ /\ mtRoute = NoRoute
     /\ \E r \in DOMAIN MrRouters :
          \/ \E intent \in NeedyIntents, confidence \in Confidences : MaestroRoute(r, intent, confidence)
          \/ \E p \in DOMAIN MrProviders : \E model \in MrProviders[p].models : RouteExplicit(r, model)
     /\ UNCHANGED <<mtAvailable, mtLists, mtCalls>>

\* The first of the ranking, in a state in which routers changed last.
Chosen(r, intent, confidence) ==
  LET scores == Scores(r, intent, confidence)
  IN mtLists[r][CHOOSE i \in DOMAIN scores : \A j \in DOMAIN scores \ {i} : Before(scores, i, j)]
Reconfigured == mtRoute = NoRoute /\ \E r \in DOMAIN MrRouters : mtLists[r] # <<>>
HasAll(p, intent) == Needs(intent) \subseteq MrProviders[p].can
\* No built-in provider that lacks part of what an intent needs is chosen over a built-in
\* one that has it all, whichever of them are available, whatever others were added and
\* whatever price and place add to a score. (An added provider can be: of two needs the
\* one it lacks is worth five points, and priority, price and place can be worth more.)
FullMatchWins ==
  Reconfigured => \A r \in DOMAIN MrRouters, intent \in NeedyIntents, confidence \in Confidences : Positions(r, intent) # {} =>
    LET best == Chosen(r, intent, confidence)
    IN best \in Range(MrDefaults) =>
         HasAll(best, intent) \/ \A i \in Positions(r, intent) : mtLists[r][i] \in Range(MrDefaults) => ~HasAll(mtLists[r][i], intent)
\* The less sure the classification is, the cheaper is the provider ("cheaper = better
\* for low-confidence", maestro_router.py:332).
LowConfidenceIsCheaper ==
  Reconfigured => \A r \in DOMAIN MrRouters, intent \in NeedyIntents : Positions(r, intent) # {} =>
    LET cost == [confidence \in Confidences |-> MrProviders[Chosen(r, intent, confidence)].cost]
    IN \A low, high \in Confidences : low < high => cost[low] <= cost[high]
\* Who goes down the chain of a route meets every provider that qualified, up to four,
\* each once unless one was added twice.
ChainIsWhole ==
  mtRoute.provider \notin {"", "none"} /\ ~mtRoute.explicit =>
    LET chain == <<mtRoute.provider>> \o mtRoute.fallbacks
    IN /\ \A i \in DOMAIN chain : chain[i] \in mtRoute.qualified
       /\ Len(chain) < 4 => {chain[i] : i \in DOMAIN chain} = mtRoute.qualified

-----------------------------------------------------------------------------
(* Sizes: 0 micro, 1 small, 2 medium, 3 large, 4 epic. A registered type is known by
   its default size: the rest of its entry is its category, agent and fixed gas. *)
DefaultSizes == 0..3
Unregistered == -1
NotGiven == -1
TaskShapes ==
  [type : DefaultSizes \cup {Unregistered}, size : {NotGiven} \cup 0..4, lines : {0, 1, 3, 4, 50, 51, 300, 301, 1000, 1001},
   changes : {0, 1, 2, 3, 4, 5, 6, 9}, files : {0, 5, 6}]

VARIABLES tcTask, tcEnvelope
tcVars == <<tcTask, tcEnvelope>>

SizeByChanges(task, default) ==
  CASE task.changes = 1 -> 0
    [] task.changes \in 2..3 -> Least(default, 1)
    [] task.changes > 5 -> Most(default, 2)
    [] OTHER -> IF task.files > 5 THEN Most(default, 3) ELSE default
EstimateSize(task, default) ==
  CASE task.size # NotGiven -> task.size
    [] task.size = NotGiven /\ task.lines \in 1..3 -> 0
    [] task.size = NotGiven /\ task.lines \in 4..50 -> Least(default, 1)
    [] task.size = NotGiven /\ task.lines \in 51..300 -> Most(default, 2)
    [] task.size = NotGiven /\ task.lines \in 301..1000 -> Most(default, 3)
    [] task.size = NotGiven /\ task.lines > 1000 -> 4
    [] OTHER -> SizeByChanges(task, default)

\* _heuristic_classify: the default is small, and the agent is told by the fields.
HeuristicAgent(has) ==
  IF has.path /\ (has.content \/ has.changes) THEN "code-agent"
  ELSE IF has.path THEN "build-agent" ELSE IF has.command THEN "shell-agent"
  ELSE IF has.url THEN "browser-agent" ELSE "code-agent"
ClassifyTask(task) ==
  LET registered == task.type \in DefaultSizes
      size == EstimateSize(task, IF registered THEN task.type ELSE 1)
  IN {[size |-> size, agent |-> agent, fast |-> size = 0 /\ (registered => task.type = 0)] :
        agent \in IF registered THEN {"of the type"}
                  ELSE {HeuristicAgent([content |-> task.lines > 0, changes |-> task.changes > 0,
                                        path |-> path, command |-> command, url |-> url]) :
                          path \in BOOLEAN, command \in BOOLEAN, url \in BOOLEAN}}
\* classify_intent: a pattern names a registered type, else the words are counted.
ClassifyIntent(type, words) ==
  IF type \in DefaultSizes THEN [size |-> type, agent |-> "of the type", fast |-> type = 0]
  ELSE [size |-> CASE words < 10 -> 0 [] words \in 10..29 -> 1 [] words \in 30..99 -> 2 [] OTHER -> 3,
        agent |-> "code-agent", fast |-> FALSE]

NoTask == [type |-> 0, size |-> 0, lines |-> 0, changes |-> 0, files |-> 0]
SizingInit == tcTask = NoTask /\ tcEnvelope = [size |-> 0, agent |-> "", fast |-> FALSE]
SizingNext ==
  \/ tcTask = NoTask /\ tcTask' \in TaskShapes /\ tcEnvelope' \in ClassifyTask(tcTask')
  \/ /\ tcTask = NoTask /\ tcEnvelope' \in {ClassifyIntent(t, w) : t \in DefaultSizes \cup {Unregistered}, w \in {1, 9, 10, 29, 30, 99, 100}}
     /\ UNCHANGED tcTask

\* What skips orchestration without its caller having said so is small: no more than
\* fifty lines or, without content, five changes; six files only with one to three changes.
\* The bound is the code's: its own definition of micro is "< 5 lines" (task_classifier.py:15),
\* but content of up to fifty lines leaves a type that is micro by default as it is.
FastPathIsBounded ==
  tcEnvelope.fast /\ tcTask.size = NotGiven =>
    /\ tcTask.lines <= 50
    /\ tcTask.lines = 0 => tcTask.changes <= 5 /\ (tcTask.files > 5 => tcTask.changes \in 1..3)
\* More content or more changes never make a task smaller, but that the number of files
\* counts for four or five changes and not for more (_estimate_size).
SizeGrows ==
  tcTask.size = NotGiven =>
    LET d == IF tcTask.type \in DefaultSizes THEN tcTask.type ELSE 1
        SizeOf(task) == EstimateSize(task, d)
    IN /\ \A lines \in {1, 4, 51, 301, 1001} : tcTask.lines > 0 /\ tcTask.lines <= lines =>
            SizeOf(tcTask) <= SizeOf([tcTask EXCEPT !.lines = lines])
       /\ \A changes \in {1, 2, 4, 6} : tcTask.lines = 0 /\ tcTask.changes > 0 /\ tcTask.changes <= changes =>
            \/ SizeOf(tcTask) <= SizeOf([tcTask EXCEPT !.changes = changes])
            \/ tcTask.files > 5 /\ tcTask.changes \in 4..5

\* Requests are classified, routed and sized as evidence, needs and amount of work say.
SelectionIsSound == MaestroIsSound /\ FullMatchWins /\ LowConfidenceIsCheaper /\ ChainIsWhole /\ FastPathIsBounded /\ SizeGrows
=============================================================================
