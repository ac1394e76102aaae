------------------------------- MODULE Routing -------------------------------
(* route_request (agents/gateway/router.py): the walk over the registry's tiers
   for the first model that can be loaded, its fallbacks, and the cached answer
   of the Ollama hosts it depends on. bus.py calls it inside its event loop, so
   one request is routed at a time, but the hosts are asked over HTTP, and other
   processes write the registry, between its steps. *)
EXTENDS Integers, Sequences, SequencesExt

CONSTANTS TierOrder,     \* _TIER_WALK_ORDER
          CloudModels,   \* models named ":cloud" or "-cloud"
          CodingModels,  \* models named "devstral"
          Primary, Reasoning, Summarization,  \* the models of the settings
          AllowedModels, \* the allowlist of the deployment tier
          Catalogs,      \* contents of the registry: present, tiers, local and router
          OllamaHosts,   \* the Ollama hosts, in order
          VramTtl,       \* _VRAM_CACHE_TTL, in ticks
          MaxRouteTime   \* bound on the clock

IsSeq(s) == s \in Seq(Range(s))
\* OpenRouter is a last resort and no tier of the walk.
ASSUME RouteAssumption ==
  /\ VramTtl \in Nat \ {0} /\ IsSeq(TierOrder) /\ "openrouter" \notin Range(TierOrder)
  /\ \A c \in Catalogs : c.present => IsSeq(c.router) /\ \A t \in Range(TierOrder) : IsSeq(c.tiers[t])

VARIABLES rtNow, rtLoad,   \* the clock; per host: "room", "full" or "down"
          rtCatalog,       \* the registry; not present if there is no file
          rtCache,         \* _vram_cache: result and expires
          rtRequest,       \* the request being routed
          rtRoute,         \* the profile it returned, {} while it is under way
          rtLast,          \* history: when the hosts last answered TRUE and FALSE
          rtSteady         \* history: the registry is what it was when the walk began
rtVars == <<rtNow, rtLoad, rtCatalog, rtCache, rtRequest, rtRoute, rtLast, rtSteady>>
rtWorld == <<rtNow, rtLoad, rtCatalog, rtLast, rtSteady>>

IsCloud(model) == model \in CloudModels

\* What _SPECIALIZATION_PATTERNS and route_intent find in a text: words of the second
\* are words of the first, but not the other way round.
Intents ==
  {[spec |-> "none", legacy |-> Summarization], [spec |-> "uncensored", legacy |-> Summarization]}
  \cup {[spec |-> "coding", legacy |-> l] : l \in {Primary, Reasoning, Summarization}}
  \cup {[spec |-> "visual", legacy |-> l] : l \in {Primary, Summarization}}

NoRequest == [at |-> "idle", intent |-> [spec |-> "none", legacy |-> Summarization], tier |-> 0, candidates |-> <<>>]

RouteInit ==
  /\ rtNow = 0 /\ rtLoad \in [DOMAIN OllamaHosts -> {"room"}] /\ rtCatalog \in Catalogs
  /\ rtCache = [result |-> TRUE, expires |-> 0]
  /\ rtRequest = NoRequest /\ rtRoute = {}
  /\ rtLast = [answer \in BOOLEAN |-> IF answer THEN 0 ELSE -1 - VramTtl] /\ rtSteady = TRUE

\* check_vram_threshold: the first host that answers decides; if none does, there is room.
HostsAnswer(load) ==
  LET up == {h \in DOMAIN OllamaHosts : load[h] # "down"}
  IN \A h \in up : (\A g \in up : h <= g) => load[h] = "room"

\* Mutant: the cached answer never expires.
CachedForever == rtCache.expires > 0
Cached == rtNow < rtCache.expires
VramAllows(model) == IsCloud(model) \/ (IF Cached THEN rtCache.result ELSE HostsAnswer(rtLoad))
CacheAfter(model) ==
  IF IsCloud(model) \/ Cached THEN rtCache
  ELSE [result |-> HostsAnswer(rtLoad), expires |-> rtNow + VramTtl]

\* is_model_allowed for a tier; settings.json has a list for the deployment tiers
\* only, and no list allows everything.
AllowedIn(tier, model) == tier = "deployment" => (AllowedModels = {} \/ model \in AllowedModels)

Profile(intent, model, provider, tier, walked) ==
  [spec |-> intent.spec, model |-> model, provider |-> provider, tier |-> tier, walked |-> walked]
ProviderOf(model, tier) ==
  IF IsCloud(model) THEN "cloud" ELSE IF tier = "openrouter" THEN "openrouter" ELSE "ollama"
Legacy(intent) == Profile(intent, intent.legacy, ProviderOf(intent.legacy, "D"), "D", FALSE)
RouteReturns(profile) == rtRoute' = {profile} /\ rtRequest' = NoRequest

\* The short-circuit by complexity, if its model is allowed.
Shortcut(intent, complexity) ==
  {m \in {IF complexity = "low" THEN Summarization ELSE Primary} :
     intent.spec = "none" /\ complexity \in {"low", "high"} /\ AllowedIn("deployment", m)}

\* init_db may raise, out of route_request.
RouteRequest(intent, complexity) ==
  /\ rtRequest.at = "idle"
  /\ IF Shortcut(intent, complexity) # {}
     THEN \E m \in Shortcut(intent, complexity) :
            RouteReturns(Profile(intent, m, ProviderOf(m, "S"), IF complexity = "low" THEN "slm" ELSE "S", FALSE))
     ELSE IF ~rtCatalog.present THEN RouteReturns(Legacy(intent))
     ELSE /\ rtRoute' = {}
          /\ \/ rtRequest' = [at |-> "tier", intent |-> intent, tier |-> 1, candidates |-> <<>>]
             \/ rtRequest' = NoRequest
  /\ rtSteady' = TRUE /\ UNCHANGED <<rtNow, rtLoad, rtCatalog, rtCache, rtLast>>

\* get_models_by_tier reads the active snapshot anew for each tier.
ReadTier ==
  /\ rtRequest.at = "tier"
  /\ rtRequest' =
       IF rtRequest.tier > Len(TierOrder) THEN [rtRequest EXCEPT !.at = "fallback"]
       ELSE [rtRequest EXCEPT !.at = "check", !.candidates = rtCatalog.tiers[TierOrder[rtRequest.tier]]]
  /\ UNCHANGED <<rtCache, rtRoute, rtWorld>>

CheckCandidate ==
  /\ rtRequest.at = "check"
  /\ IF rtRequest.candidates = <<>>
     THEN rtRequest' = [rtRequest EXCEPT !.at = "tier", !.tier = @ + 1] /\ UNCHANGED rtCache
     ELSE LET model == Head(rtRequest.candidates) IN
          /\ rtCache' = CacheAfter(model)
          /\ rtRequest' = IF VramAllows(model) THEN [rtRequest EXCEPT !.at = "selected"]
                          ELSE [rtRequest EXCEPT !.candidates = Tail(@)]
  /\ UNCHANGED <<rtRoute, rtWorld>>

\* Phases 1 to 3 and the ultimate fallback: a model and where it was found.
Selected ==
  IF rtRequest.at = "selected" THEN <<Head(rtRequest.candidates), TierOrder[rtRequest.tier]>>
  ELSE IF rtCatalog.local # <<>> THEN <<Head(rtCatalog.local), "local">>
  ELSE IF rtCatalog.router # <<>> THEN <<Head(rtCatalog.router), "openrouter">>
  ELSE <<rtRequest.intent.legacy, "fallback">>

\* A coding or visual intent takes another model than the one selected, with no
\* look at the VRAM.
Override(model) ==
  LET coding == SelectSeq(rtCatalog.local, LAMBDA m : m \in CodingModels) IN
  CASE rtRequest.intent.spec = "coding" -> IF coding # <<>> THEN Head(coding) ELSE Reasoning
    [] rtRequest.intent.spec = "visual" -> Primary
    [] OTHER -> model

\* The allowlist gate, with the tier that the walk's loop left in the variable tier.
GateTier == "walked"
Gated(model, tier) ==
  IF AllowedIn(GateTier, model) THEN <<model, tier>>
  ELSE IF AllowedIn(GateTier, Summarization) THEN <<Summarization, "allowlist_fallback">>
  ELSE <<CHOOSE m \in AllowedModels : TRUE, "allowlist_deterministic">>

\* The provider is determined before the gate.
FinishRoute ==
  /\ rtRequest.at \in {"selected", "fallback"}
  /\ LET model == Override(Selected[1])
         gated == Gated(model, Selected[2])
     IN RouteReturns(Profile(rtRequest.intent, gated[1], ProviderOf(model, Selected[2]), gated[2],
                        gated[1] = Selected[1] /\ rtRequest.intent.spec \notin {"coding", "visual"}))
  /\ UNCHANGED <<rtCache, rtWorld>>

\* An exception of the registry, locked for instance, at any of its reads.
RegistryError ==
  /\ rtRequest.at \in {"tier", "selected", "fallback"}
  /\ RouteReturns(Legacy(rtRequest.intent)) /\ UNCHANGED <<rtCache, rtWorld>>

RouteEnvironment ==
  /\ \/ /\ rtNow < MaxRouteTime /\ rtNow' = rtNow + 1
        /\ rtLast' = [rtLast EXCEPT ![HostsAnswer(rtLoad)] = rtNow']
        /\ UNCHANGED <<rtLoad, rtCatalog, rtSteady>>
     \/ /\ \E h \in DOMAIN OllamaHosts, l \in {"room", "full", "down"} : rtLoad' = [rtLoad EXCEPT ![h] = l]
        /\ rtLast' = [rtLast EXCEPT ![HostsAnswer(rtLoad')] = rtNow]
        /\ UNCHANGED <<rtNow, rtCatalog, rtSteady>>
     \/ /\ rtCatalog' \in Catalogs \ {rtCatalog} /\ rtCatalog'.present /\ rtSteady' = FALSE
        /\ UNCHANGED <<rtNow, rtLoad, rtLast>>
  /\ UNCHANGED <<rtCache, rtRequest, rtRoute>>

RouteNext ==
  \/ \E i \in Intents, c \in {"low", "high", "between or unknown"} : RouteRequest(i, c)
  \/ ReadTier \/ CheckCandidate \/ FinishRoute \/ RegistryError \/ RouteEnvironment

RouteSpec == RouteInit /\ [][RouteNext]_rtVars

-----------------------------------------------------------------------------
\* No cloud model that the registry ranks better is passed over, by a walk during
\* which the registry stays the same (route_request, phase 1).
BestTierServed ==
  \A p \in rtRoute : p.walked /\ rtSteady =>
    \A k \in DOMAIN TierOrder : \A i \in DOMAIN rtCatalog.tiers[TierOrder[k]] :
      IsCloud(rtCatalog.tiers[TierOrder[k]][i]) =>
        \E j \in 1 .. k : /\ TierOrder[j] = p.tier
                           /\ j = k => \E h \in 1 .. i : rtCatalog.tiers[p.tier][h] = p.model

\* A profile sends a cloud model to the cloud and nothing else there, and names OpenRouter
\* for a model of Ollama's only for a coding or visual intent that nothing else served.
ProviderFits ==
  \A p \in rtRoute :
    /\ p.provider = "cloud" <=> IsCloud(p.model)
    /\ p.provider = "openrouter" /\ rtSteady =>
         Contains(rtCatalog.router, p.model) \/ p.spec = "coding" \/ (p.spec = "visual" /\ p.model = Primary)

\* A local model is taken, or passed over, only as the hosts would have had it less
\* than a TTL ago (check_vram_threshold).
StaleWithinTtl ==
  [][rtRequest.at = "check" /\ rtRequest.candidates # <<>> /\ rtRequest' # rtRequest =>
       \/ IsCloud(Head(rtRequest.candidates))
       \/ rtNow - rtLast[rtRequest'.at = "selected"] < VramTtl]_rtVars

\* What a caller may rely on in a profile.
RoutesAreSound == [](BestTierServed /\ ProviderFits) /\ StaleWithinTtl

\* The "Model Allowlist Gate" of route_request "fails closed" on a model that the walk
\* found: but it passes the tier of the walk for that of the deployment, which has no list.
OnlyAllowedModels == \A p \in rtRoute : p.walked => AllowedIn("deployment", p.model)
=============================================================================
