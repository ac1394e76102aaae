----------------------------- MODULE GatewayBus -----------------------------
(***************************************************************************)
(* The gateway's POST /api/v1/intent handler (agents/gateway/bus.py) with  *)
(* the per-tier gas bucket of agents/gateway/router.py, the Redis keys     *)
(* both use, and the Dapr sidecar the handler publishes through.           *)
(*                                                                         *)
(* The handler is a coroutine: everything between two awaits is one        *)
(* action, and the requests in flight interleave at the awaits.  A request *)
(* is named by its place in the asyncio loop and posts once.               *)
(***************************************************************************)
EXTENDS Integers, Sequences, FiniteSets, Functions

CONSTANTS
    Requests,      \* POSTs a client may send
    Payloads,      \* bodies: records [mode, gas, verdict]
    Ids,           \* request ids _new_ulid may draw
    GasCap,        \* _TIER_GAS_CAPS of the deployment tier
    MaxIntentGas,  \* settings.max_gas_limit
    RateLimit,     \* POSTs per minute key (50)
    CbThreshold,   \* _CB_THRESHOLD
    CbTimeout,     \* _CB_TIMEOUT, in clock ticks
    NonceTtl,      \* lifetime of a nonce key, in clock ticks
    MinuteTicks,   \* clock ticks per minute key
    MaxTime,       \* bound on the clock
    None           \* an absent Redis key, a payload or an id not known yet

Modes == {"empty", "probe", "text", "bytecode", "hlf"}
Verdicts == {"ok", "invalid", "blocked", "overscope"}
Gates == {"syntax", "align", "limit", "capsule"}
Responses == {"none", "canary503", "breaker503", "rate429", "bad422",
              "align403", "limit429", "scope403", "gas429", "nonce409",
              "error500", "probe202", "ok202"}

ASSUME RequestsAssumption == IsFiniteSet(Requests)
ASSUME PayloadsAssumption ==
    Payloads \subseteq [mode: Modes, gas: Nat, verdict: Verdicts]
ASSUME LimitsAssumption ==
    /\ GasCap \in Nat \ {0} /\ MaxIntentGas \in Nat /\ RateLimit \in Nat \ {0}
    /\ CbThreshold \in Nat \ {0} /\ CbTimeout \in Nat \ {0}
    /\ NonceTtl \in Nat \ {0} /\ MinuteTicks \in Nat \ {0} /\ MaxTime \in Nat
ASSUME NoneAssumption == None \notin Int /\ None \notin Payloads /\ None \notin Ids

VARIABLES
    pc,          \* the await each request's coroutine is suspended at
    resp,        \* the HTTP response it was given
    minuteOf,    \* the minute key it increments
    job,         \* the payload it was found to carry
    gates,       \* the checks of the HLF path it passed
    idOf,        \* the request id drawn for it
    claimedAt,   \* when it set its nonce key
    post,        \* the handler's view of its Dapr POST
    sidecar,     \* the sidecar's view of it
    now,         \* time.time()
    cbFailures, cbReset,          \* _cb_failures, _CB_RESET_TIME
    healthFailed,                 \* health:gateway:failed exists
    rate, rateTtl,                \* rate:{minute} and whether it has a TTL
    gas,                          \* gas:{tier}
    payers,                       \* requests charged since the last refill
    nonceExp,                     \* when nonce:{id} expires
    vmRuns,                       \* requests whose bytecode the VM executed
    stream                        \* the "intents" stream

reqVars == <<resp, minuteOf, job, gates, idOf, claimedAt, post>>
cbVars == <<cbFailures, cbReset>>
gasVars == <<gas, payers>>
redisVars == <<rate, rateTtl, gas, payers, nonceExp, stream>>
vars == <<pc, reqVars, sidecar, now, cbVars, healthFailed, redisVars, vmRuns>>

Minutes == 0 .. MaxTime
Stages == {"idle", "health", "breaker", "rate", "expire", "screen", "gas",
           "nonce", "publish", "dapr", "xadd", "done", "lost"}
InFlight == Stages \ {"idle", "done", "lost"}
Entries == [req: Requests, id: Ids, mode: Modes, via: {"dapr", "redis"}]

Init ==
    /\ pc = [r \in Requests |-> "idle"]
    /\ resp = [r \in Requests |-> "none"]
    /\ minuteOf = [r \in Requests |-> 0]
    /\ job = [r \in Requests |-> None]
    /\ gates = [r \in Requests |-> {}]
    /\ idOf = [r \in Requests |-> None]
    /\ claimedAt = [r \in Requests |-> -1]
    /\ post = [r \in Requests |-> "none"]
    /\ sidecar = [r \in Requests |-> "none"]
    /\ now = 0
    /\ cbFailures = 0 /\ cbReset = 0
    /\ healthFailed = FALSE
    /\ rate = [m \in Minutes |-> 0]
    /\ rateTtl = {}
    /\ gas = None /\ payers = {}
    /\ nonceExp = [i \in Ids |-> 0]
    /\ vmRuns = {}
    /\ stream = <<>>

Goto(r, stage) == pc' = [pc EXCEPT ![r] = stage]
Respond(r, code) == /\ Goto(r, "done")
                    /\ resp' = [resp EXCEPT ![r] = code]

-----------------------------------------------------------------------------
(* The handler up to the limiter. *)

\* A POST arrives and the handler asks Redis for the Canary flag.
Arrive(r) ==
    /\ pc[r] = "idle"
    /\ Goto(r, "health")
    /\ UNCHANGED <<reqVars, sidecar, now, cbVars, healthFailed, redisVars, vmRuns>>

\* is_gateway_healthy: EXISTS health:gateway:failed, failing open on an error.
CheckHealth(r) ==
    /\ pc[r] = "health"
    /\ \/ /\ healthFailed
          /\ Respond(r, "canary503")
       \/ /\ Goto(r, "breaker")     \* no flag, or Redis did not answer
          /\ UNCHANGED resp
    /\ UNCHANGED <<minuteOf, job, gates, idOf, claimedAt, post, sidecar, now,
                   cbVars, healthFailed, redisVars, vmRuns>>

BreakerOpen == cbFailures >= CbThreshold /\ now < cbReset

\* The breaker: refuse while open; once the timeout is over reset the count.
\* The minute key is chosen here, before the INCR is sent.
CheckBreaker(r) ==
    /\ pc[r] = "breaker"
    /\ \/ /\ BreakerOpen
          /\ Respond(r, "breaker503")
          /\ UNCHANGED <<minuteOf, cbFailures>>
       \/ /\ ~BreakerOpen
          /\ cbFailures' = IF cbFailures >= CbThreshold THEN 0 ELSE cbFailures
          /\ minuteOf' = [minuteOf EXCEPT ![r] = now \div MinuteTicks]
          /\ Goto(r, "rate")
          /\ UNCHANGED resp
    /\ UNCHANGED <<job, gates, idOf, claimedAt, post, sidecar, now, cbReset,
                   healthFailed, redisVars, vmRuns>>

\* Mutant: the TTL is set by the second request.
SecondOfMinute(count) == count = 2
FirstOfMinute(count) == count = 1
\* Mutant: compares the count before the increment.
OverLimitBefore(count) == count - 1 > RateLimit
OverLimit(count) == count > RateLimit

\* INCR rate:{minute}; the first increment must still set the key's TTL.
CountRate(r) ==
    /\ pc[r] = "rate"
    /\ LET m == minuteOf[r]
           count == rate[m] + 1
       IN  /\ rate' = [rate EXCEPT ![m] = count]
           /\ \/ FirstOfMinute(count) /\ Goto(r, "expire") /\ UNCHANGED resp
              \/ ~FirstOfMinute(count) /\ OverLimit(count) /\ Respond(r, "rate429")
              \/ /\ ~FirstOfMinute(count) /\ ~OverLimit(count)
                 /\ Goto(r, "screen") /\ UNCHANGED resp
    /\ UNCHANGED <<minuteOf, job, gates, idOf, claimedAt, post, sidecar, now, cbVars,
                   healthFailed, rateTtl, gasVars, nonceExp, vmRuns, stream>>

\* EXPIRE rate:{minute} 120.
ExpireRate(r) ==
    /\ pc[r] = "expire"
    /\ rateTtl' = rateTtl \cup {minuteOf[r]}
    /\ Goto(r, "screen")
    /\ UNCHANGED <<reqVars, sidecar, now, cbVars, healthFailed, rate, gasVars,
                   nonceExp, vmRuns, stream>>

-----------------------------------------------------------------------------
(* The synchronous part: mode detection and the HLF checks. *)

\* Mutant: ALIGN only checks programs within the gas limit.
RefusalNoAlign(p) ==
    IF p.mode = "empty" \/ (p.mode \in {"bytecode", "hlf"} /\ p.verdict = "invalid")
        THEN "bad422"
    ELSE IF p.mode = "hlf" /\ p.gas > MaxIntentGas THEN "limit429"
    ELSE IF p.mode = "hlf" /\ p.verdict = "overscope" THEN "scope403"
    ELSE "none"

\* The first check the payload fails, in the handler's order, or "none".
\* Text mode has no check at all; bytecode only has to decode and run.
Refusal(p) ==
    IF p.mode = "empty" \/ (p.mode \in {"bytecode", "hlf"} /\ p.verdict = "invalid")
        THEN "bad422"
    ELSE IF p.mode # "hlf" THEN "none"
    ELSE IF p.verdict = "blocked" THEN "align403"
    ELSE IF p.gas > MaxIntentGas THEN "limit429"
    ELSE IF p.verdict = "overscope" THEN "scope403"
    ELSE "none"

\* The checks of the HLF path that were made of it and that it passed.
ChecksPassed(p) ==
    IF p.mode # "hlf" THEN {}
    ELSE {g \in Gates : /\ g = "syntax" => p.verdict # "invalid"
                        /\ g = "align" => p.verdict # "blocked"
                        /\ g = "limit" => p.gas <= MaxIntentGas
                        /\ g = "capsule" => p.verdict # "overscope"}

Screen(r) ==
    /\ pc[r] = "screen"
    /\ \E p \in Payloads :
        /\ job' = [job EXCEPT ![r] = p]
        /\ vmRuns' = IF p.mode = "bytecode" /\ p.verdict # "invalid"
                     THEN vmRuns \cup {r} ELSE vmRuns
        /\ \/ Refusal(p) # "none" /\ Respond(r, Refusal(p)) /\ UNCHANGED gates
           \/ Refusal(p) = "none" /\ p.mode = "probe" /\ Respond(r, "probe202")
              /\ UNCHANGED gates
           \/ /\ Refusal(p) = "none" /\ p.mode # "probe"
              /\ Goto(r, "gas")
              /\ gates' = [gates EXCEPT ![r] = ChecksPassed(p)]
              /\ UNCHANGED resp
    /\ UNCHANGED <<minuteOf, idOf, claimedAt, post, sidecar, now, cbVars, healthFailed,
                   redisVars>>

-----------------------------------------------------------------------------
(* Gas and nonce. *)

\* What the bucket holds: an absent key stands for a full one.
GasLevel == IF gas = None THEN GasCap ELSE gas

\* Mutant: no test for a cost below one.
AffordableFree(cost) == cost <= GasCap /\ cost <= GasLevel

\* The test of _GAS_DECREMENT_LUA.
Affordable(cost) == cost >= 1 /\ cost <= GasCap /\ cost <= GasLevel

\* Mutant: the first use creates a full bucket without charging it.
ChargedFirstFree(cost) == IF gas = None THEN GasCap ELSE gas - cost

\* What the script leaves in the bucket.
Charged(cost) == GasLevel - cost

\* EVAL of the script: test and decrement in one Redis step.
ConsumeGas(r) ==
    /\ pc[r] = "gas"
    /\ LET cost == job[r].gas
       IN  \/ /\ Affordable(cost)
              /\ gas' = Charged(cost)
              /\ payers' = payers \cup {r}
              /\ Goto(r, "nonce")
              /\ UNCHANGED resp
           \/ /\ ~Affordable(cost)
              /\ Respond(r, "gas429")
              /\ UNCHANGED gasVars
    /\ UNCHANGED <<minuteOf, job, gates, idOf, claimedAt, post, sidecar, now, cbVars,
                   healthFailed, rate, rateTtl, nonceExp, vmRuns, stream>>

\* replenish_gas: the nightly job fills the bucket.
ReplenishGas ==
    /\ gas' = GasCap
    /\ payers' = {}
    /\ UNCHANGED <<pc, reqVars, sidecar, now, cbVars, healthFailed, rate, rateTtl,
                   nonceExp, vmRuns, stream>>

\* Redis expires the bucket 25 hours after its last use.
ExpireGas ==
    /\ gas # None
    /\ gas' = None
    /\ payers' = {}
    /\ UNCHANGED <<pc, reqVars, sidecar, now, cbVars, healthFailed, rate, rateTtl,
                   nonceExp, vmRuns, stream>>

\* Mutant: SET without NX.
NonceNeverTaken(i) == FALSE

NonceTaken(i) == now < nonceExp[i]

\* SET nonce:{id} NX EX 600 for a freshly drawn id.
ClaimNonce(r) ==
    /\ pc[r] = "nonce"
    /\ \E i \in Ids :
        /\ idOf' = [idOf EXCEPT ![r] = i]
        /\ \/ /\ NonceTaken(i)
              /\ Respond(r, "nonce409")
              /\ UNCHANGED <<nonceExp, claimedAt>>
           \/ /\ ~NonceTaken(i)
              /\ nonceExp' = [nonceExp EXCEPT ![i] = now + NonceTtl]
              /\ claimedAt' = [claimedAt EXCEPT ![r] = now]
              /\ Goto(r, "publish")
              /\ UNCHANGED resp
    /\ UNCHANGED <<minuteOf, job, gates, post, sidecar, now, cbVars, healthFailed,
                   rate, rateTtl, gasVars, vmRuns, stream>>

-----------------------------------------------------------------------------
(* Publication through Dapr, with the Redis stream as the fallback. *)

Entry(r, via) == [req |-> r, id |-> idOf[r], mode |-> job[r].mode, via |-> via]

\* The POST to the sidecar leaves.
Publish(r) ==
    /\ pc[r] = "publish"
    /\ Goto(r, "dapr")
    /\ post' = [post EXCEPT ![r] = "sent"]
    /\ sidecar' = [sidecar EXCEPT ![r] = "queued"]
    /\ UNCHANGED <<resp, minuteOf, job, gates, idOf, claimedAt, now, cbVars,
                   healthFailed, redisVars, vmRuns>>

\* The sidecar publishes, at its own pace: also after the handler gave up.
SidecarPublish(r) ==
    /\ sidecar[r] = "queued"
    /\ sidecar' = [sidecar EXCEPT ![r] = "published"]
    /\ stream' = Append(stream, Entry(r, "dapr"))
    /\ UNCHANGED <<pc, reqVars, now, cbVars, healthFailed, rate, rateTtl, gasVars,
                   nonceExp, vmRuns>>

\* The sidecar is down or drops the event.
SidecarDrop(r) ==
    /\ sidecar[r] = "queued"
    /\ sidecar' = [sidecar EXCEPT ![r] = "dropped"]
    /\ UNCHANGED <<pc, reqVars, now, cbVars, healthFailed, redisVars, vmRuns>>

\* Mutant: raise_for_status is forgotten.
AnySidecarReply(r) == sidecar[r] # "queued"

SidecarAccepted(r) == sidecar[r] = "published"

\* Mutant: the fallback is outside the except block.
DaprOkThenXadd(r) ==
    /\ pc[r] = "dapr"
    /\ SidecarAccepted(r)
    /\ post' = [post EXCEPT ![r] = "ok"]
    /\ cbFailures' = 0
    /\ Goto(r, "xadd")
    /\ UNCHANGED <<resp, minuteOf, job, gates, idOf, claimedAt, sidecar, now, cbReset,
                   healthFailed, redisVars, vmRuns>>

\* The handler gets a 2xx: the breaker's count restarts.
DaprOk(r) ==
    /\ pc[r] = "dapr"
    /\ SidecarAccepted(r)
    /\ post' = [post EXCEPT ![r] = "ok"]
    /\ cbFailures' = 0
    /\ Respond(r, "ok202")
    /\ UNCHANGED <<minuteOf, job, gates, idOf, claimedAt, sidecar, now, cbReset,
                   healthFailed, redisVars, vmRuns>>

\* Mutant: no timeout on the POST, only errors are seen.
DaprFailNoTimeout(r) ==
    /\ pc[r] = "dapr" /\ sidecar[r] = "dropped"
    /\ post' = [post EXCEPT ![r] = "failed"]
    /\ cbFailures' = cbFailures + 1
    /\ cbReset' = now + CbTimeout
    /\ Goto(r, "xadd")
    /\ UNCHANGED <<resp, minuteOf, job, gates, idOf, claimedAt, sidecar, now,
                   healthFailed, redisVars, vmRuns>>

\* Connection error, non-2xx or the 3 s timeout, whatever the sidecar did.
DaprFail(r) ==
    /\ pc[r] = "dapr"
    /\ post' = [post EXCEPT ![r] = "failed"]
    /\ cbFailures' = cbFailures + 1
    /\ cbReset' = now + CbTimeout
    /\ Goto(r, "xadd")
    /\ UNCHANGED <<resp, minuteOf, job, gates, idOf, claimedAt, sidecar, now,
                   healthFailed, redisVars, vmRuns>>

\* XADD intents; the reply may be lost after Redis appended the entry.
FallbackXadd(r) ==
    /\ pc[r] = "xadd"
    /\ stream' = Append(stream, Entry(r, "redis"))
    /\ \E code \in {"ok202", "error500"} : Respond(r, code)
    /\ UNCHANGED <<minuteOf, job, gates, idOf, claimedAt, post, sidecar, now, cbVars,
                   healthFailed, rate, rateTtl, gasVars, nonceExp, vmRuns>>

\* An exception the handler does not catch: a Redis call fails, the reply to the one
\* before is lost after it had its effect, or a check or route_request raises.
\* FastAPI answers 500.
HandlerError(r) ==
    /\ pc[r] \in {"rate", "expire", "screen", "gas", "nonce", "publish", "xadd"}
    /\ Respond(r, "error500")
    /\ UNCHANGED <<minuteOf, job, gates, idOf, claimedAt, post, sidecar, now, cbVars,
                   healthFailed, redisVars, vmRuns>>

-----------------------------------------------------------------------------
(* The environment: the clock, the Canary flag, and a gateway restart, which *)
(* drops the requests in flight and the breaker's globals but not Redis.     *)

Tick ==
    /\ now < MaxTime
    /\ now' = now + 1
    /\ UNCHANGED <<pc, reqVars, sidecar, cbVars, healthFailed, redisVars, vmRuns>>

HealthFlag ==
    /\ healthFailed' = ~healthFailed
    /\ UNCHANGED <<pc, reqVars, sidecar, now, cbVars, redisVars, vmRuns>>

Restart ==
    /\ \E r \in Requests : pc[r] \in InFlight
    /\ pc' = [r \in Requests |-> IF pc[r] \in InFlight THEN "lost" ELSE pc[r]]
    /\ cbFailures' = 0 /\ cbReset' = 0
    /\ UNCHANGED <<reqVars, sidecar, now, healthFailed, redisVars, vmRuns>>

Handle(r) ==
    \/ CheckHealth(r) \/ CheckBreaker(r) \/ CountRate(r) \/ ExpireRate(r)
    \/ Screen(r) \/ ConsumeGas(r) \/ ClaimNonce(r) \/ Publish(r)
    \/ DaprOk(r) \/ DaprFail(r) \/ FallbackXadd(r) \/ HandlerError(r)

Sidecar(r) == SidecarPublish(r) \/ SidecarDrop(r)

Environment == Tick \/ HealthFlag \/ Restart \/ ReplenishGas \/ ExpireGas

Next ==
    \/ \E r \in Requests : Arrive(r) \/ Handle(r) \/ Sidecar(r)
    \/ Environment

\* The event loop resumes every coroutine whose await is answered; Redis and
\* httpx answer, if only with an error or a timeout.
Fairness == \A r \in Requests : WF_vars(Handle(r))

Spec == Init /\ [][Next]_vars
FairSpec == Spec /\ Fairness

-----------------------------------------------------------------------------
(* Properties. *)

\* The values each variable ranges over.
TypeOK ==
    /\ pc \in [Requests -> Stages]
    /\ resp \in [Requests -> Responses]
    /\ minuteOf \in [Requests -> Minutes]
    /\ job \in [Requests -> Payloads \cup {None}]
    /\ gates \in [Requests -> SUBSET Gates]
    /\ idOf \in [Requests -> Ids \cup {None}]
    /\ claimedAt \in [Requests -> Minutes \cup {-1}]
    /\ post \in [Requests -> {"none", "sent", "ok", "failed"}]
    /\ sidecar \in [Requests -> {"none", "queued", "published", "dropped"}]
    /\ now \in Minutes
    /\ cbFailures \in Nat /\ cbReset \in Nat
    /\ healthFailed \in BOOLEAN
    /\ rate \in [Minutes -> Nat] /\ rateTtl \subseteq Minutes
    /\ gas \in 0 .. GasCap \cup {None}
    /\ payers \subseteq Requests
    /\ nonceExp \in [Ids -> Nat]
    /\ vmRuns \subseteq Requests
    /\ stream \in Seq(Entries)

Queued(r) == \E k \in DOMAIN stream : stream[k].req = r

\* Gas accounting (router.py, _GAS_DECREMENT_LUA and replenish_gas): however the
\* requests interleave with refills and key expiry, the bucket plus what the
\* requests charged since the last refill paid is the tier's capacity.
GasConserved ==
    IF gas = None THEN payers = {}
    ELSE gas + SumFunction([r \in payers |-> job[r].gas]) = GasCap

\* What reaches the stream (bus.py:212-370), by either route, was counted by the
\* limiter, paid at least one unit and at most the tier's capacity, owns its nonce
\* and, if it is an HLF program, passed syntax, ALIGN, gas limit and capsule.
PublishedIsAdmitted ==
    \A k \in DOMAIN stream :
        LET r == stream[k].req
        IN  /\ job[r] # None
            /\ rate[minuteOf[r]] > 0
            /\ job[r].gas \in 1 .. GasCap
            /\ claimedAt[r] # -1 /\ stream[k].id = idOf[r]
            /\ job[r].mode = "hlf" => gates[r] = Gates /\ job[r].gas <= MaxIntentGas

\* The limiter (bus.py:229-235) lets at most RateLimit requests of a minute key
\* read their payload, though every request awaits INCR and EXPIRE.
RateBounded ==
    \A m \in Minutes :
        Cardinality({r \in Requests : job[r] # None /\ minuteOf[r] = m}) <= RateLimit

\* INCR and EXPIRE are two calls (bus.py:231-233): a minute key stays without a
\* TTL only if its first request is still to send EXPIRE, failed or was lost.
RateKeyLeaks ==
    \A m \in Minutes :
        rate[m] > 0 /\ m \notin rateTtl =>
            \E r \in Requests :
                /\ minuteOf[r] = m /\ job[r] = None
                /\ pc[r] \in {"expire", "lost"} \/ resp[r] = "error500"

\* Two requests claim the same id only if the first nonce key had expired
\* (bus.py:333-338).
NonceExclusive ==
    \A r, s \in Requests :
        /\ r # s /\ claimedAt[r] # -1 /\ claimedAt[s] # -1 /\ idOf[r] = idOf[s]
        => claimedAt[s] - claimedAt[r] >= NonceTtl \/ claimedAt[r] - claimedAt[s] >= NonceTtl

\* The breaker (bus.py:222-227, 364-367) refuses a request only after that many
\* POSTs to Dapr failed, whatever successes and restarts came between.
BreakerRefusalJustified ==
    \A r \in Requests :
        resp[r] = "breaker503" =>
            Cardinality({s \in Requests : post[s] = "failed"}) >= CbThreshold

\* A request is on the stream twice only because its POST to Dapr failed after
\* the sidecar took it, and then once from Dapr and once from the fallback
\* (bus.py:360-370).
DuplicateOnlyFromFallback ==
    \A j, k \in DOMAIN stream :
        j # k /\ stream[j].req = stream[k].req =>
            stream[j].via # stream[k].via /\ post[stream[j].req] = "failed"

\* What the client is told (bus.py:212-382): 202 means the intent is on the
\* stream, a 4xx or 503 that it is not and never will be.
ResponseTellsTruth ==
    \A r \in Requests :
        /\ resp[r] = "ok202" => Queued(r)
        /\ resp[r] \notin {"none", "ok202", "error500"} =>
               ~Queued(r) /\ sidecar[r] = "none"

\* Every request the handler starts is answered, unless the gateway restarts.
Answered == \A r \in Requests : pc[r] = "health" ~> pc[r] \in {"done", "lost"}

\* Both limits of the gateway hold, and refuse nobody without cause.
LimitsAreExact == RateBounded /\ BreakerRefusalJustified
=============================================================================
