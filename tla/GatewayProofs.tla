---------------------------- MODULE GatewayProofs ----------------------------
(***************************************************************************)
(* Theorems about GatewayBus, and at the end about the router of models    *)
(* (Routing), for every value of their constants.  GatewayBus's inductive  *)
(* invariant follows a request along the handler: what each await may take *)
(* for granted, and what its sidecar event and its stream entries carry    *)
(* with them after the handler has moved on.                               *)
(***************************************************************************)
EXTENDS GatewayBus, Routing, InductionLemmas

\* r was counted by the limiter and its payload passed the checks of its mode.
Admitted(r) ==
    /\ rate[minuteOf[r]] > 0
    /\ job[r] \in Payloads
    /\ job[r].mode = "hlf" => gates[r] = Gates /\ job[r].gas <= MaxIntentGas

\* ... and was charged ...
Paid(r) == Admitted(r) /\ job[r].gas \in 1 .. GasCap

\* ... and owns its nonce.
Claimed(r) == Paid(r) /\ claimedAt[r] # -1 /\ idOf[r] \in Ids

\* The awaits before the nonce is set: nothing has left the handler yet.
Early == {"idle", "health", "breaker", "rate", "expire", "screen", "gas", "nonce"}

Unpublished(r) == sidecar[r] = "none" /\ ~Queued(r)

\* What r has behind it at each await.
Pipeline(r) ==
    /\ pc[r] \in {"expire", "screen"} => rate[minuteOf[r]] > 0
    /\ pc[r] = "gas" => Admitted(r)
    /\ pc[r] = "nonce" => Paid(r)
    /\ pc[r] \in {"publish", "dapr", "xadd"} => Claimed(r)
    /\ pc[r] \in Early => Unpublished(r) /\ claimedAt[r] = -1
    /\ sidecar[r] # "none" => Claimed(r)
    /\ sidecar[r] = "published" => Queued(r)

PipelineInv == \A r \in Requests : Pipeline(r)

StreamInv ==
    \A k \in DOMAIN stream :
        Claimed(stream[k].req) /\ stream[k].id = idOf[stream[k].req]

\* What r was told, and when.
Told(r) ==
    /\ pc[r] # "done" => resp[r] = "none"
    /\ pc[r] = "publish" => Unpublished(r)
    /\ resp[r] = "ok202" => Queued(r)
    /\ resp[r] \notin {"none", "ok202", "error500"} => Unpublished(r)

ToldInv == \A r \in Requests : Told(r)

NonceInv ==
    \A r \in Requests :
        claimedAt[r] # -1 =>
            /\ idOf[r] \in Ids
            /\ claimedAt[r] <= now
            /\ nonceExp[idOf[r]] >= claimedAt[r] + NonceTtl

IInv == TypeOK /\ PipelineInv /\ StreamInv /\ ToldInv /\ NonceInv /\ NonceExclusive

-----------------------------------------------------------------------------

\* Integer division by a positive number does not increase a natural.
LEMMA DivBound ==
    ASSUME NEW a \in Nat, NEW d \in Nat, d >= 1
    PROVE  a \div d \in Nat /\ a \div d <= a
<1> DEFINE q == a \div d
<1>1. q \in Int /\ d * q <= a /\ a < d * q + d
  BY SMT
<1>2. q >= 0
  BY <1>1, SMT
<1>3. d * q >= q
  BY <1>1, <1>2, SMT
<1>4. QED BY <1>1, <1>2, <1>3

\* The minute key of a reading of the bounded clock is one of the modelled keys.
LEMMA MinuteKey ==
    ASSUME NEW t \in Minutes
    PROVE  t \div MinuteTicks \in Minutes
<1>1. t \in Nat /\ t <= MaxTime /\ MinuteTicks \in Nat /\ MinuteTicks >= 1 /\ MaxTime \in Nat
  BY LimitsAssumption DEF Minutes
<1>2. t \div MinuteTicks \in Nat /\ t \div MinuteTicks <= t
  BY <1>1, DivBound
<1>3. QED BY <1>1, <1>2 DEF Minutes

\* What a payload that is not refused has passed.
LEMMA NotRefused ==
    ASSUME NEW p \in Payloads
    PROVE  /\ Refusal(p) \in Responses \ {"ok202", "error500"}
           /\ ChecksPassed(p) \subseteq Gates
           /\ Refusal(p) = "none" /\ p.mode = "hlf" =>
                  ChecksPassed(p) = Gates /\ p.gas <= MaxIntentGas
<1>1. p.mode \in Modes /\ p.verdict \in Verdicts /\ p.gas \in Nat
  BY PayloadsAssumption
<1>2. Refusal(p) \in Responses \ {"ok202", "error500"}
  BY <1>1 DEF Refusal, Responses
<1>3. ChecksPassed(p) \subseteq Gates
  BY DEF ChecksPassed
<1>4. ASSUME Refusal(p) = "none", p.mode = "hlf"
      PROVE  ChecksPassed(p) = Gates /\ p.gas <= MaxIntentGas
  <2>1. p.verdict \notin {"invalid", "blocked", "overscope"} /\ ~(p.gas > MaxIntentGas)
    BY <1>4 DEF Refusal
  <2>2. p.gas <= MaxIntentGas
    BY <1>1, <2>1, LimitsAssumption
  <2>3. QED BY <1>4, <2>1, <2>2 DEF ChecksPassed, Gates
<1>5. QED BY <1>2, <1>3, <1>4

\* The stream only grows: an entry stays, and a request with an entry keeps it.
LEMMA AppendEntry ==
    ASSUME stream \in Seq(Entries), NEW e \in Entries, stream' = Append(stream, e)
    PROVE  /\ stream' \in Seq(Entries)
           /\ DOMAIN stream' = DOMAIN stream \cup {Len(stream) + 1}
           /\ \A k \in DOMAIN stream : stream'[k] = stream[k]
           /\ stream'[Len(stream) + 1] = e
           /\ \A r : Queued(r)' <=> Queued(r) \/ r = e.req
BY DEF Queued

\* The invariant holds initially.
LEMMA InvInit == Init => IInv
<1> SUFFICES ASSUME Init PROVE IInv
  OBVIOUS
<1> USE LimitsAssumption
<1>1. TypeOK
  <2>1. pc \in [Requests -> Stages] /\ resp \in [Requests -> Responses]
    BY DEF Init, Stages, Responses
  <2>2. minuteOf \in [Requests -> Minutes] /\ rate \in [Minutes -> Nat] /\ now \in Minutes
    BY DEF Init, Minutes
  <2>3. stream \in Seq(Entries)
    BY DEF Init
  <2>4. QED BY <2>1, <2>2, <2>3 DEF Init, TypeOK
<1>2. DOMAIN stream = {}
  BY DEF Init
<1>3. PipelineInv
  BY <1>2 DEF Init, PipelineInv, Pipeline, Unpublished, Queued, Early
<1>4. StreamInv /\ ToldInv /\ NonceInv /\ NonceExclusive
  BY <1>2 DEF Init, StreamInv, ToldInv, Told, NonceInv, NonceExclusive, Unpublished, Queued
<1>5. QED BY <1>1, <1>3, <1>4 DEF IInv

-----------------------------------------------------------------------------

\* Every step keeps the types; what has been read and drawn by the time it is used
\* comes from PipelineInv.
LEMMA TypeStep ==
    ASSUME TypeOK, PipelineInv, [Next]_vars
    PROVE  TypeOK'
<1> USE LimitsAssumption, NoneAssumption DEF TypeOK
<1>1. ASSUME NEW r \in Requests, Arrive(r) PROVE TypeOK'
  BY <1>1 DEF Arrive, Goto, Stages, reqVars, cbVars, redisVars
<1>2. ASSUME NEW r \in Requests, CheckHealth(r) PROVE TypeOK'
  BY <1>2 DEF CheckHealth, Respond, Goto, Stages, Responses, cbVars, redisVars
<1>3. ASSUME NEW r \in Requests, CheckBreaker(r) PROVE TypeOK'
  <2>1. now \div MinuteTicks \in Minutes
    BY MinuteKey
  <2>2. CASE Respond(r, "breaker503") /\ UNCHANGED <<minuteOf, cbFailures>>
    BY <1>3, <2>2 DEF CheckBreaker, Respond, Goto, Stages, Responses, redisVars
  <2>3. ASSUME cbFailures' = (IF cbFailures >= CbThreshold THEN 0 ELSE cbFailures),
               minuteOf' = [minuteOf EXCEPT ![r] = now \div MinuteTicks],
               Goto(r, "rate"), UNCHANGED resp
        PROVE  TypeOK'
    <3>1. minuteOf' \in [Requests -> Minutes]
      BY <2>1, <2>3
    <3>2. cbFailures' \in Nat
      BY <2>3
    <3>3. pc' \in [Requests -> Stages]
      BY <2>3 DEF Goto, Stages
    <3>4. QED BY <1>3, <2>3, <3>1, <3>2, <3>3 DEF CheckBreaker, redisVars
  <2>4. QED BY <1>3, <2>2, <2>3 DEF CheckBreaker
<1>4. ASSUME NEW r \in Requests, CountRate(r) PROVE TypeOK'
  <2>1. rate' \in [Minutes -> Nat]
    BY <1>4 DEF CountRate
  <2>2. pc' \in [Requests -> Stages] /\ resp' \in [Requests -> Responses]
    BY <1>4 DEF CountRate, Respond, Goto, Stages, Responses
  <2>3. QED BY <1>4, <2>1, <2>2 DEF CountRate, cbVars, gasVars
<1>5. ASSUME NEW r \in Requests, ExpireRate(r) PROVE TypeOK'
  BY <1>5 DEF ExpireRate, Goto, Stages, reqVars, cbVars, gasVars
<1>6. ASSUME NEW r \in Requests, Screen(r) PROVE TypeOK'
  <2>1. PICK p \in Payloads :
            /\ job' = [job EXCEPT ![r] = p]
            /\ vmRuns' \in {vmRuns \cup {r}, vmRuns}
            /\ \/ Respond(r, Refusal(p)) /\ UNCHANGED gates
               \/ Respond(r, "probe202") /\ UNCHANGED gates
               \/ /\ Goto(r, "gas") /\ UNCHANGED resp
                  /\ gates' = [gates EXCEPT ![r] = ChecksPassed(p)]
    BY <1>6 DEF Screen
  <2>2. Refusal(p) \in Responses /\ ChecksPassed(p) \subseteq Gates
    BY NotRefused
  <2>3. pc' \in [Requests -> Stages] /\ resp' \in [Requests -> Responses]
    <3>1. CASE resp' = [resp EXCEPT ![r] = Refusal(p)] /\ pc' = [pc EXCEPT ![r] = "done"]
      BY <2>2, <3>1 DEF Stages
    <3>2. CASE resp' = [resp EXCEPT ![r] = "probe202"] /\ pc' = [pc EXCEPT ![r] = "done"]
      BY <3>2 DEF Stages, Responses
    <3>3. CASE UNCHANGED resp /\ pc' = [pc EXCEPT ![r] = "gas"]
      BY <3>3 DEF Stages
    <3>4. QED BY <2>1, <3>1, <3>2, <3>3 DEF Respond, Goto
  <2>4. /\ job' \in [Requests -> Payloads \cup {None}] /\ vmRuns' \subseteq Requests
        /\ gates' \in [Requests -> SUBSET Gates]
    <3>1. job' \in [Requests -> Payloads \cup {None}] /\ vmRuns' \subseteq Requests
      BY <2>1
    <3>2. CASE UNCHANGED gates
      BY <3>1, <3>2
    <3>3. CASE gates' = [gates EXCEPT ![r] = ChecksPassed(p)]
      BY <2>2, <3>1, <3>3
    <3>4. QED BY <2>1, <3>2, <3>3
  <2>5. QED BY <1>6, <2>3, <2>4 DEF Screen, cbVars, redisVars
<1>7. ASSUME NEW r \in Requests, ConsumeGas(r) PROVE TypeOK'
  <2>1. job[r].gas \in Nat
    BY <1>7, PayloadsAssumption DEF ConsumeGas, PipelineInv, Pipeline, Admitted
  <2>2. gas' \in 0 .. GasCap \cup {None}
    BY <1>7, <2>1 DEF ConsumeGas, Affordable, Charged, GasLevel, gasVars
  <2>3. QED BY <1>7, <2>2 DEF ConsumeGas, Respond, Goto, Stages, Responses, gasVars, cbVars
<1>8. ASSUME NEW r \in Requests, ClaimNonce(r) PROVE TypeOK'
  <2>1. now \in Nat /\ now + NonceTtl \in Nat
    BY DEF Minutes
  <2>2. idOf' \in [Requests -> Ids \cup {None}]
    BY <1>8 DEF ClaimNonce
  <2>3. nonceExp' \in [Ids -> Nat]
    BY <1>8, <2>1 DEF ClaimNonce
  <2>4. claimedAt' \in [Requests -> Minutes \cup {-1}]
    BY <1>8 DEF ClaimNonce
  <2>5. pc' \in [Requests -> Stages] /\ resp' \in [Requests -> Responses]
    BY <1>8 DEF ClaimNonce, Respond, Goto, Stages, Responses
  <2>6. QED BY <1>8, <2>2, <2>3, <2>4, <2>5 DEF ClaimNonce, gasVars, cbVars
<1>9. ASSUME NEW r \in Requests, Publish(r) PROVE TypeOK'
  BY <1>9 DEF Publish, Goto, Stages, redisVars, cbVars
<1>10. ASSUME NEW r \in Requests, DaprOk(r) PROVE TypeOK'
  BY <1>10 DEF DaprOk, Respond, Goto, Stages, Responses, redisVars
<1>11. ASSUME NEW r \in Requests, DaprFail(r) PROVE TypeOK'
  BY <1>11 DEF DaprFail, Goto, Stages, redisVars, Minutes
<1>12. ASSUME NEW r \in Requests, Claimed(r), NEW via \in {"dapr", "redis"}
       PROVE  Entry(r, via) \in Entries
  BY <1>12, PayloadsAssumption DEF Claimed, Paid, Admitted, Entry, Entries
<1>13. ASSUME NEW r \in Requests, FallbackXadd(r) PROVE TypeOK'
  <2>1. Entry(r, "redis") \in Entries
    BY <1>12, <1>13 DEF FallbackXadd, PipelineInv, Pipeline
  <2>2. stream' \in Seq(Entries)
    BY <1>13, <2>1, AppendEntry DEF FallbackXadd
  <2>3. QED BY <1>13, <2>2 DEF FallbackXadd, Respond, Goto, Stages, Responses, gasVars, cbVars
<1>14. ASSUME NEW r \in Requests, HandlerError(r) PROVE TypeOK'
  BY <1>14 DEF HandlerError, Respond, Goto, Stages, Responses, redisVars, cbVars
<1>15. ASSUME NEW r \in Requests, SidecarPublish(r) PROVE TypeOK'
  <2>1. Entry(r, "dapr") \in Entries
    BY <1>12, <1>15 DEF SidecarPublish, PipelineInv, Pipeline
  <2>2. stream' \in Seq(Entries)
    BY <1>15, <2>1, AppendEntry DEF SidecarPublish
  <2>3. QED BY <1>15, <2>2 DEF SidecarPublish, reqVars, gasVars, cbVars
<1>16. ASSUME NEW r \in Requests, SidecarDrop(r) PROVE TypeOK'
  BY <1>16 DEF SidecarDrop, reqVars, redisVars, cbVars
<1>17. CASE Environment
  <2>1. CASE Tick
    BY <2>1 DEF Tick, Minutes, reqVars, redisVars, cbVars
  <2>2. CASE HealthFlag
    BY <2>2 DEF HealthFlag, reqVars, redisVars, cbVars
  <2>3. CASE Restart
    BY <2>3 DEF Restart, Stages, reqVars, redisVars
  <2>4. CASE ReplenishGas \/ ExpireGas
    BY <2>4 DEF ReplenishGas, ExpireGas, reqVars, cbVars
  <2>5. QED BY <1>17, <2>1, <2>2, <2>3, <2>4 DEF Environment
<1>18. CASE UNCHANGED vars
  BY <1>18 DEF vars, reqVars, redisVars, cbVars
<1>19. QED BY <1>1, <1>2, <1>3, <1>4, <1>5, <1>6, <1>7, <1>8, <1>9, <1>10, <1>11, <1>13,
             <1>14, <1>15, <1>16, <1>17, <1>18 DEF Next, Handle, Sidecar

-----------------------------------------------------------------------------

\* Admission, payment and the nonce are for good: no later step of any request, of
\* the sidecar or of the environment takes them back.
LEMMA ClaimedKept ==
    ASSUME TypeOK, PipelineInv, [Next]_vars, NEW q \in Requests
    PROVE  /\ Claimed(q) => Claimed(q)' /\ idOf'[q] = idOf[q]
           /\ pc[q] \in {"gas", "nonce"} => Admitted(q)'
           /\ pc[q] \in {"gas", "nonce"} => job'[q] = job[q]
           /\ pc[q] \in {"expire", "screen"} => rate'[minuteOf'[q]] > 0
<1> USE DEF TypeOK, PipelineInv, Pipeline, Claimed, Paid, Admitted
<1>1. CASE UNCHANGED <<rate, minuteOf, job, gates, idOf, claimedAt>>
  BY <1>1
<1>2. ASSUME NEW r \in Requests, CheckBreaker(r)
      PROVE  pc[r] = "breaker" /\ UNCHANGED <<rate, job, gates, idOf, claimedAt>>
             /\ \A s \in Requests \ {r} : minuteOf'[s] = minuteOf[s]
  BY <1>2 DEF CheckBreaker, redisVars
<1>3. CASE \E r \in Requests : CheckBreaker(r)
  BY <1>2, <1>3 DEF Early
<1>4. ASSUME NEW r \in Requests, CountRate(r)
      PROVE  /\ UNCHANGED <<minuteOf, job, gates, idOf, claimedAt>>
             /\ \A m \in Minutes : rate'[m] \in Nat /\ rate'[m] >= rate[m]
  BY <1>4 DEF CountRate
<1>5. CASE \E r \in Requests : CountRate(r)
  BY <1>4, <1>5
<1>6. ASSUME NEW r \in Requests, Screen(r)
      PROVE  /\ pc[r] = "screen" /\ UNCHANGED <<rate, minuteOf, idOf, claimedAt>>
             /\ \A s \in Requests \ {r} : job'[s] = job[s] /\ gates'[s] = gates[s]
  BY <1>6 DEF Screen, redisVars
<1>7. CASE \E r \in Requests : Screen(r)
  BY <1>6, <1>7 DEF Early
<1>8. ASSUME NEW r \in Requests, ClaimNonce(r)
      PROVE  /\ pc[r] = "nonce" /\ UNCHANGED <<rate, minuteOf, job, gates>>
             /\ \A s \in Requests \ {r} : idOf'[s] = idOf[s] /\ claimedAt'[s] = claimedAt[s]
  BY <1>8 DEF ClaimNonce
<1>9. CASE \E r \in Requests : ClaimNonce(r)
  BY <1>8, <1>9 DEF Early
<1>10. ASSUME NEW r \in Requests, Arrive(r) \/ Sidecar(r) \/ CheckHealth(r) \/ ExpireRate(r)
              \/ ConsumeGas(r) \/ Publish(r) \/ DaprOk(r) \/ DaprFail(r)
              \/ FallbackXadd(r) \/ HandlerError(r)
       PROVE  UNCHANGED <<rate, minuteOf, job, gates, idOf, claimedAt>>
  BY <1>10 DEF Arrive, Sidecar, SidecarPublish, SidecarDrop, CheckHealth, ExpireRate,
     ConsumeGas, Publish, DaprOk, DaprFail, FallbackXadd, HandlerError, reqVars, redisVars
<1>11. ASSUME Environment
       PROVE  UNCHANGED <<rate, minuteOf, job, gates, idOf, claimedAt>>
  BY <1>11 DEF Environment, Tick, HealthFlag, Restart, ReplenishGas, ExpireGas, reqVars,
     redisVars
<1>12. ASSUME UNCHANGED vars
       PROVE  UNCHANGED <<rate, minuteOf, job, gates, idOf, claimedAt>>
  BY <1>12 DEF vars, reqVars, redisVars
<1>13. QED BY <1>1, <1>3, <1>5, <1>7, <1>9, <1>10, <1>11, <1>12 DEF Next, Handle

\* A step leaves the stream alone or appends one entry of a claimed request that is
\* past the nonce.
LEMMA StreamGrows ==
    ASSUME TypeOK, PipelineInv, [Next]_vars
    PROVE  \/ UNCHANGED stream
           \/ \E r \in Requests, via \in {"dapr", "redis"} :
                 /\ SidecarPublish(r) \/ FallbackXadd(r)
                 /\ Claimed(r) /\ Entry(r, via) \in Entries
                 /\ stream' = Append(stream, Entry(r, via))
<1>1. ASSUME NEW r \in Requests, Claimed(r), NEW via \in {"dapr", "redis"}
      PROVE  Entry(r, via) \in Entries
  BY <1>1, PayloadsAssumption DEF Claimed, Paid, Admitted, Entry, Entries, TypeOK
<1>2. ASSUME NEW r \in Requests, SidecarPublish(r)
      PROVE  Claimed(r) /\ stream' = Append(stream, Entry(r, "dapr"))
  BY <1>2 DEF SidecarPublish, PipelineInv, Pipeline
<1>3. ASSUME NEW r \in Requests, FallbackXadd(r)
      PROVE  Claimed(r) /\ stream' = Append(stream, Entry(r, "redis"))
  BY <1>3 DEF FallbackXadd, PipelineInv, Pipeline
<1>4. ASSUME NEW r \in Requests, Handle(r), ~FallbackXadd(r)
      PROVE  UNCHANGED stream
  BY <1>4 DEF Handle, CheckHealth, CheckBreaker, CountRate, ExpireRate, Screen, ConsumeGas,
     ClaimNonce, Publish, DaprOk, DaprFail, HandlerError, redisVars
<1>5. ASSUME NEW r \in Requests, Arrive(r) \/ SidecarDrop(r)
      PROVE  UNCHANGED stream
  BY <1>5 DEF Arrive, SidecarDrop, redisVars
<1>6. ASSUME Environment \/ UNCHANGED vars
      PROVE  UNCHANGED stream
  BY <1>6 DEF Environment, Tick, HealthFlag, Restart, ReplenishGas, ExpireGas, vars,
     redisVars
<1>7. CASE \E r \in Requests : SidecarPublish(r)
  BY <1>1, <1>2, <1>7
<1>8. CASE \E r \in Requests : FallbackXadd(r)
  BY <1>1, <1>3, <1>8
<1>9. QED BY <1>4, <1>5, <1>6, <1>7, <1>8 DEF Next, Sidecar

\* Every entry keeps the id its request claimed.
LEMMA StreamStep ==
    ASSUME TypeOK, PipelineInv, StreamInv, [Next]_vars
    PROVE  StreamInv'
<1>1. \A q \in Requests : Claimed(q) => Claimed(q)' /\ idOf'[q] = idOf[q]
  BY ClaimedKept
<1>2. \A k \in DOMAIN stream : stream[k].req \in Requests
  <2>1. stream \in Seq(Entries)
    BY DEF TypeOK
  <2>2. \A k \in DOMAIN stream : stream[k] \in Entries
    BY <2>1
  <2>3. \A e \in Entries : e.req \in Requests
    BY DEF Entries
  <2>4. QED BY <2>2, <2>3
<1>3. CASE UNCHANGED stream
  BY <1>1, <1>2, <1>3 DEF StreamInv
<1>4. ASSUME NEW r \in Requests, NEW via \in {"dapr", "redis"}, Claimed(r),
             Entry(r, via) \in Entries, stream' = Append(stream, Entry(r, via))
      PROVE  StreamInv'
  <2>1. /\ DOMAIN stream' = DOMAIN stream \cup {Len(stream) + 1}
        /\ \A k \in DOMAIN stream : stream'[k] = stream[k]
        /\ stream'[Len(stream) + 1] = Entry(r, via)
    BY <1>4, AppendEntry DEF TypeOK
  <2>2. Entry(r, via).req = r /\ Entry(r, via).id = idOf[r]
    BY DEF Entry
  <2>3. QED BY <1>1, <1>2, <1>4, <2>1, <2>2 DEF StreamInv
<1>5. QED BY <1>3, <1>4, StreamGrows

\* A step that leaves q's coroutine, answer and sidecar event alone, and q's presence
\* on the stream, keeps what is known of q.
LEMMA Untouched ==
    ASSUME TypeOK, PipelineInv, ToldInv, [Next]_vars, NEW q \in Requests,
           pc'[q] = pc[q], resp'[q] = resp[q], sidecar'[q] = sidecar[q],
           Queued(q)' <=> Queued(q), claimedAt'[q] = claimedAt[q]
    PROVE  Pipeline(q)' /\ Told(q)'
<1>1. Pipeline(q) /\ Told(q)
  BY DEF PipelineInv, ToldInv
<1>2. Unpublished(q)' <=> Unpublished(q)
  BY DEF Unpublished
<1>3. pc[q] = "nonce" => Paid(q)'
  BY <1>1, ClaimedKept DEF Paid, Pipeline
<1>4. QED BY <1>1, <1>2, <1>3, ClaimedKept DEF Pipeline, Told

\* A coroutine's step touches no other request's coroutine, answer, nonce or sidecar
\* event, and only the fallback appends to the stream.
LEMMA HandleFrame ==
    ASSUME TypeOK, NEW r \in Requests, Handle(r)
    PROVE  /\ ~FallbackXadd(r) => UNCHANGED stream
           /\ \A q \in Requests \ {r} :
                 /\ pc'[q] = pc[q] /\ resp'[q] = resp[q]
                 /\ sidecar'[q] = sidecar[q] /\ claimedAt'[q] = claimedAt[q]
                 /\ minuteOf'[q] = minuteOf[q] /\ job'[q] = job[q] /\ post'[q] = post[q]
<1> USE DEF TypeOK, Goto, Respond, redisVars, reqVars
<1>1. CASE CheckHealth(r) \/ CheckBreaker(r) \/ CountRate(r) \/ ExpireRate(r)
  BY <1>1 DEF CheckHealth, CheckBreaker, CountRate, ExpireRate, FallbackXadd
<1>2. CASE Screen(r)
  BY <1>2 DEF Screen
<1>3. CASE ConsumeGas(r) \/ ClaimNonce(r)
  BY <1>3 DEF ConsumeGas, ClaimNonce
<1>4. CASE Publish(r) \/ DaprOk(r) \/ DaprFail(r)
  BY <1>4 DEF Publish, DaprOk, DaprFail
<1>5. CASE FallbackXadd(r) \/ HandlerError(r)
  BY <1>5 DEF FallbackXadd, HandlerError
<1>6. QED BY <1>1, <1>2, <1>3, <1>4, <1>5 DEF Handle

\* A coroutine's own step, from one await to the next, leaves it with what the next
\* await relies on.
LEMMA HandleOwn ==
    ASSUME TypeOK, PipelineInv, ToldInv, NEW r \in Requests, Handle(r)
    PROVE  Pipeline(r)' /\ Told(r)'
<1>1. [Next]_vars
  BY DEF Next
<1>2. Pipeline(r) /\ Told(r)
  BY DEF PipelineInv, ToldInv
<1>3. /\ Claimed(r) => Claimed(r)'
      /\ pc[r] \in {"gas", "nonce"} => Admitted(r)'
      /\ pc[r] \in {"gas", "nonce"} => job'[r] = job[r]
      /\ pc[r] \in {"expire", "screen"} => rate'[minuteOf'[r]] > 0
  BY <1>1, ClaimedKept
<1>4. ~FallbackXadd(r) => (Queued(r)' <=> Queued(r))
  BY HandleFrame DEF Queued
<1> USE DEF Pipeline, Told, Unpublished, Early, Goto, Respond, TypeOK
<1>5. CASE CheckHealth(r)
  BY <1>2, <1>4, <1>5 DEF CheckHealth, FallbackXadd
<1>6. CASE CheckBreaker(r)
  BY <1>2, <1>4, <1>6 DEF CheckBreaker, FallbackXadd
<1>7. CASE CountRate(r)
  BY <1>2, <1>4, <1>7 DEF CountRate, FallbackXadd
<1>8. CASE ExpireRate(r)
  BY <1>2, <1>3, <1>4, <1>8 DEF ExpireRate, FallbackXadd, reqVars
<1>9. CASE Screen(r)
  BY <1>2, <1>3, <1>4, <1>9, NotRefused DEF Screen, FallbackXadd, redisVars, Admitted, Responses
<1>10. CASE ConsumeGas(r)
  BY <1>2, <1>3, <1>4, <1>10, PayloadsAssumption, LimitsAssumption
     DEF ConsumeGas, FallbackXadd, Affordable, Admitted, Paid
<1>11. CASE ClaimNonce(r)
  BY <1>2, <1>3, <1>4, <1>11 DEF ClaimNonce, FallbackXadd, Claimed, Paid, Minutes
<1>12. CASE Publish(r)
  BY <1>2, <1>3, <1>4, <1>12 DEF Publish, FallbackXadd
<1>13. CASE DaprOk(r)
  BY <1>2, <1>3, <1>4, <1>13 DEF DaprOk, FallbackXadd, SidecarAccepted
<1>14. CASE DaprFail(r)
  BY <1>2, <1>3, <1>4, <1>14 DEF DaprFail, FallbackXadd
<1>15. CASE FallbackXadd(r)
  <2>1. stream' = Append(stream, Entry(r, "redis")) /\ Entry(r, "redis") \in Entries
    <3>1. Claimed(r)
      BY <1>2, <1>15 DEF FallbackXadd
    <3>2. Entry(r, "redis") \in Entries
      BY <3>1, PayloadsAssumption DEF Claimed, Paid, Admitted, Entry, Entries
    <3>3. QED BY <1>15, <3>2 DEF FallbackXadd
  <2>2. Queued(r)'
    BY <2>1, AppendEntry DEF Entry
  <2>3. QED BY <1>2, <1>3, <1>15, <2>2 DEF FallbackXadd
<1>16. CASE HandlerError(r)
  BY <1>2, <1>3, <1>4, <1>16 DEF HandlerError, FallbackXadd, redisVars
<1>17. QED BY <1>5, <1>6, <1>7, <1>8, <1>9, <1>10, <1>11, <1>12, <1>13, <1>14, <1>15,
              <1>16 DEF Handle

\* Every step keeps PipelineInv and ToldInv.
LEMMA PipelineStep ==
    ASSUME TypeOK, PipelineInv, ToldInv, [Next]_vars
    PROVE  PipelineInv' /\ ToldInv'
<1>1. \A q \in Requests : Pipeline(q) /\ Told(q)
  BY DEF PipelineInv, ToldInv
<1>2. ASSUME NEW r \in Requests, Handle(r) PROVE PipelineInv' /\ ToldInv'
  <2>1. \A q \in Requests \ {r} : Queued(q)' <=> Queued(q)
    <3>1. CASE UNCHANGED stream
      BY <3>1 DEF Queued
    <3>2. CASE FallbackXadd(r)
      <4>1. Claimed(r)
        BY <1>1, <3>2 DEF FallbackXadd, Pipeline
      <4>2. Entry(r, "redis") \in Entries
        BY <4>1, PayloadsAssumption DEF Claimed, Paid, Admitted, Entry, Entries, TypeOK
      <4>3. QED BY <3>2, <4>2, AppendEntry DEF FallbackXadd, Entry, TypeOK
    <3>3. QED BY <1>2, <3>1, <3>2, HandleFrame
  <2>2. \A q \in Requests \ {r} : Pipeline(q)' /\ Told(q)'
    BY <1>2, <2>1, HandleFrame, Untouched
  <2>3. Pipeline(r)' /\ Told(r)'
    BY <1>2, HandleOwn
  <2>4. QED BY <2>2, <2>3 DEF PipelineInv, ToldInv
<1>3. ASSUME NEW r \in Requests, Arrive(r) PROVE PipelineInv' /\ ToldInv'
  BY <1>1, <1>3, Untouched DEF Arrive, Goto, TypeOK, Pipeline, Told, Early, Unpublished,
     Queued, PipelineInv, ToldInv, reqVars, redisVars
<1>4. ASSUME NEW r \in Requests, SidecarPublish(r) PROVE PipelineInv' /\ ToldInv'
  <2>1. Claimed(r)
    BY <1>1, <1>4 DEF SidecarPublish, Pipeline
  <2>2. Entry(r, "dapr") \in Entries
    BY <2>1, PayloadsAssumption DEF Claimed, Paid, Admitted, Entry, Entries, TypeOK
  <2>3. \A q : Queued(q)' <=> Queued(q) \/ q = r
    BY <1>4, <2>2, AppendEntry DEF SidecarPublish, Entry, TypeOK
  <2>4. \A q \in Requests \ {r} : Pipeline(q)' /\ Told(q)'
    BY <1>4, <2>3, Untouched DEF SidecarPublish, reqVars, TypeOK
  <2>5. Claimed(r)'
    BY <2>1, ClaimedKept
  <2>6. Pipeline(r)' /\ Told(r)'
    BY <1>1, <1>4, <2>3, <2>5 DEF SidecarPublish, reqVars, TypeOK, Pipeline, Told, Early,
       Unpublished
  <2>7. QED BY <2>4, <2>6 DEF PipelineInv, ToldInv
<1>5. ASSUME NEW r \in Requests, SidecarDrop(r) PROVE PipelineInv' /\ ToldInv'
  <2>1. \A q : Queued(q)' <=> Queued(q)
    BY <1>5 DEF SidecarDrop, redisVars, Queued
  <2>2. \A q \in Requests \ {r} : Pipeline(q)' /\ Told(q)'
    BY <1>5, <2>1, Untouched DEF SidecarDrop, reqVars, TypeOK
  <2>3. Pipeline(r)' /\ Told(r)'
    BY <1>1, <1>5, <2>1, ClaimedKept DEF SidecarDrop, reqVars, TypeOK, Pipeline, Told, Early,
       Unpublished
  <2>4. QED BY <2>2, <2>3 DEF PipelineInv, ToldInv
<1>6. ASSUME Restart PROVE PipelineInv' /\ ToldInv'
  <2>1. /\ UNCHANGED <<reqVars, sidecar, stream>>
        /\ \A q \in Requests : pc'[q] = (IF pc[q] \in InFlight THEN "lost" ELSE pc[q])
    BY <1>6 DEF Restart, redisVars
  <2>2. \A q \in Requests : Unpublished(q)' <=> Unpublished(q)
    BY <2>1 DEF Unpublished, Queued
  <2>3. \A q \in Requests : Queued(q)' <=> Queued(q)
    BY <2>1 DEF Queued
  <2>4. \A q \in Requests : Pipeline(q)' /\ Told(q)'
    BY <1>1, <2>1, <2>2, <2>3, ClaimedKept
       DEF reqVars, Pipeline, Told, Early, InFlight, Stages, TypeOK
  <2>5. QED BY <2>4 DEF PipelineInv, ToldInv
<1>7. ASSUME UNCHANGED <<pc, reqVars, sidecar, stream>> PROVE PipelineInv' /\ ToldInv'
  <2>1. \A q \in Requests : Queued(q)' <=> Queued(q)
    BY <1>7 DEF Queued
  <2>2. QED BY <1>7, <2>1, Untouched DEF reqVars, PipelineInv, ToldInv
<1>8. ASSUME Environment, ~Restart PROVE UNCHANGED <<pc, reqVars, sidecar, stream>>
  BY <1>8 DEF Environment, Tick, HealthFlag, ReplenishGas, ExpireGas, redisVars
<1>9. CASE UNCHANGED vars
  BY <1>7, <1>9 DEF vars, redisVars
<1>10. QED BY <1>2, <1>3, <1>4, <1>5, <1>6, <1>7, <1>8, <1>9 DEF Next, Sidecar

\* Every step keeps the nonces exclusive: a key that expired was claimed at least
\* NonceTtl ago.
LEMMA NonceStep ==
    ASSUME TypeOK, PipelineInv, NonceInv, NonceExclusive, [Next]_vars
    PROVE  NonceInv' /\ NonceExclusive'
<1> USE LimitsAssumption DEF TypeOK, Minutes
<1>1. now' \in Nat /\ now' >= now
  <2>1. ASSUME NEW r \in Requests, Handle(r) PROVE UNCHANGED now
    BY <2>1 DEF Handle, CheckHealth, CheckBreaker, CountRate, ExpireRate, Screen, ConsumeGas,
       ClaimNonce, Publish, DaprOk, DaprFail, FallbackXadd, HandlerError
  <2>2. ASSUME NEW r \in Requests, Arrive(r) \/ Sidecar(r) PROVE UNCHANGED now
    BY <2>2 DEF Sidecar, Arrive, SidecarPublish, SidecarDrop
  <2>3. CASE Environment
    BY <2>3 DEF Environment, Tick, HealthFlag, Restart, ReplenishGas, ExpireGas
  <2>4. CASE UNCHANGED vars
    BY <2>4 DEF vars
  <2>5. QED BY <2>1, <2>2, <2>3, <2>4 DEF Next
<1>2. CASE UNCHANGED <<idOf, claimedAt, nonceExp>>
  BY <1>1, <1>2 DEF NonceInv, NonceExclusive
<1>3. ASSUME NEW r \in Requests, ClaimNonce(r) PROVE NonceInv' /\ NonceExclusive'
  <2>1. PICK i \in Ids :
          /\ idOf' = [idOf EXCEPT ![r] = i] /\ UNCHANGED now
          /\ \/ UNCHANGED <<nonceExp, claimedAt>>
             \/ /\ ~(now < nonceExp[i])
                /\ nonceExp' = [nonceExp EXCEPT ![i] = now + NonceTtl]
                /\ claimedAt' = [claimedAt EXCEPT ![r] = now]
    BY <1>3 DEF ClaimNonce, NonceTaken
  <2>2. claimedAt[r] = -1
    BY <1>3 DEF ClaimNonce, PipelineInv, Pipeline, Early
  <2>3. CASE UNCHANGED <<nonceExp, claimedAt>>
    BY <2>1, <2>2, <2>3 DEF NonceInv, NonceExclusive
  <2>4. ASSUME ~(now < nonceExp[i]),
               nonceExp' = [nonceExp EXCEPT ![i] = now + NonceTtl],
               claimedAt' = [claimedAt EXCEPT ![r] = now]
        PROVE  NonceInv' /\ NonceExclusive'
    <3>1. \A s \in Requests \ {r} :
            claimedAt[s] # -1 /\ idOf[s] = i => now - claimedAt[s] >= NonceTtl
      BY <2>4 DEF NonceInv
    <3>2. NonceInv'
      <4>1. idOf'[r] = i /\ claimedAt'[r] = now /\ nonceExp'[i] = now + NonceTtl
        BY <2>1, <2>4
      <4>2. \A s \in Requests \ {r} : idOf'[s] = idOf[s] /\ claimedAt'[s] = claimedAt[s]
        BY <2>1, <2>4
      <4>3. \A j \in Ids \ {i} : nonceExp'[j] = nonceExp[j]
        BY <2>4
      <4>4. \A s \in Requests \ {r} : claimedAt[s] # -1 =>
              idOf[s] \in Ids /\ claimedAt[s] \in Nat /\ claimedAt[s] <= now
        BY DEF NonceInv
      <4>5. \A s \in Requests \ {r} : claimedAt[s] # -1 =>
              nonceExp'[idOf[s]] >= claimedAt[s] + NonceTtl
        <5> SUFFICES ASSUME NEW s \in Requests \ {r}, claimedAt[s] # -1
                     PROVE  nonceExp'[idOf[s]] >= claimedAt[s] + NonceTtl
          OBVIOUS
        <5>1. CASE idOf[s] = i
          BY <4>1, <4>4, <5>1
        <5>2. CASE idOf[s] # i
          BY <4>3, <4>4, <5>2 DEF NonceInv
        <5>3. QED BY <5>1, <5>2
      <4>6. now' = now
        BY <2>1
      <4>7. ASSUME NEW s \in Requests, claimedAt'[s] # -1
            PROVE  /\ idOf'[s] \in Ids /\ claimedAt'[s] <= now'
                   /\ nonceExp'[idOf'[s]] >= claimedAt'[s] + NonceTtl
        <5>1. CASE s = r
          BY <4>1, <4>6, <5>1
        <5>2. CASE s # r
          BY <4>2, <4>4, <4>5, <4>6, <4>7, <5>2
        <5>3. QED BY <5>1, <5>2
      <4>8. QED BY <4>7 DEF NonceInv
    <3>3. NonceExclusive'
      BY <2>1, <2>4, <3>1 DEF NonceExclusive
    <3>4. QED BY <3>2, <3>3
  <2>5. QED BY <2>1, <2>3, <2>4
<1>4. ASSUME NEW r \in Requests, Handle(r), ~ClaimNonce(r)
      PROVE  UNCHANGED <<idOf, claimedAt, nonceExp>>
  BY <1>4 DEF Handle, CheckHealth, CheckBreaker, CountRate, ExpireRate, Screen, ConsumeGas,
     Publish, DaprOk, DaprFail, FallbackXadd, HandlerError, redisVars, reqVars
<1>5. ASSUME NEW r \in Requests, Arrive(r) \/ Sidecar(r)
      PROVE  UNCHANGED <<idOf, claimedAt, nonceExp>>
  BY <1>5 DEF Arrive, Sidecar, SidecarPublish, SidecarDrop, redisVars, reqVars
<1>6. ASSUME Environment \/ UNCHANGED vars
      PROVE  UNCHANGED <<idOf, claimedAt, nonceExp>>
  BY <1>6 DEF Environment, Tick, HealthFlag, Restart, ReplenishGas, ExpireGas, vars,
     redisVars, reqVars
<1>7. QED BY <1>2, <1>3, <1>4, <1>5, <1>6 DEF Next

-----------------------------------------------------------------------------

\* The invariant is inductive.
LEMMA Inductive == Spec => []IInv
<1>1. Init => IInv
  BY InvInit
<1>2. IInv /\ [Next]_vars => IInv'
  BY TypeStep, PipelineStep, StreamStep, NonceStep DEF IInv
<1>3. QED BY <1>1, <1>2, PTL DEF Spec

\* The variables of the handler keep their types (bus.py:212-382).
THEOREM TypeCorrect == Spec => []TypeOK
<1>1. IInv => TypeOK
  BY DEF IInv
<1>2. QED BY <1>1, Inductive, PTL

\* Nothing reaches the stream that was not counted, checked, paid for and given a
\* nonce, whichever of Dapr and the fallback carries it (bus.py:229-370).
THEOREM PublishedAdmitted == Spec => []PublishedIsAdmitted
<1>1. IInv => PublishedIsAdmitted
  BY NoneAssumption
     DEF IInv, StreamInv, PublishedIsAdmitted, Claimed, Paid, Admitted
<1>2. QED BY <1>1, Inductive, PTL

\* No two requests hold the same nonce within its lifetime (bus.py:333-338).
THEOREM NoncesExclusive == Spec => []NonceExclusive
<1>1. IInv => NonceExclusive
  BY DEF IInv
<1>2. QED BY <1>1, Inductive, PTL

\* The client is told the truth: 202 means queued, a refusal means that nothing is or
\* will be queued (bus.py:212-382).
THEOREM TruthfulResponses == Spec => []ResponseTellsTruth
<1>1. IInv => ResponseTellsTruth
  BY DEF IInv, ToldInv, Told, Unpublished, ResponseTellsTruth
<1>2. QED BY <1>1, Inductive, PTL

-----------------------------------------------------------------------------
(* The limits.  How far a request has come says whether its payload was read  *)
(* and what its POST to Dapr is; the limiter's counter bounds the requests it *)
(* let through, the breaker's the POSTs that failed.                          *)

\* The awaits before the payload is read.
Unread == {"idle", "health", "breaker", "rate", "expire", "screen"}

Stage(r) ==
    /\ pc[r] \in Unread => job[r] = None
    /\ pc[r] \in Early \cup {"publish"} => post[r] = "none"
    /\ pc[r] = "dapr" => post[r] = "sent"
    /\ pc[r] = "xadd" => post[r] = "failed"

StageInv == \A r \in Requests : Stage(r)

\* The requests of minute key m the limiter let through.
Counted(m) ==
    {r \in Requests : minuteOf[r] = m /\ (job[r] # None \/ pc[r] \in {"expire", "screen"})}

CountedInv ==
    \A m \in Minutes :
        Cardinality(Counted(m)) <= rate[m] /\ Cardinality(Counted(m)) <= RateLimit

FailedPosts == {s \in Requests : post[s] = "failed"}

BreakerInv == cbFailures <= Cardinality(FailedPosts) /\ BreakerRefusalJustified

LimitsInv == StageInv /\ CountedInv /\ RateKeyLeaks /\ BreakerInv

\* A step leaves alone what a request's stage is about, or it is a step of one
\* request's coroutine or the restart.
LEMMA StageStep ==
    ASSUME TypeOK, StageInv, [Next]_vars
    PROVE  StageInv'
<1> USE DEF TypeOK, StageInv, Stage, Unread, Early, Goto, Respond
<1>1. CASE UNCHANGED <<pc, job, post>>
  BY <1>1
<1>2. ASSUME NEW r \in Requests, Arrive(r) PROVE StageInv'
  BY <1>2 DEF Arrive, reqVars
<1>3. ASSUME NEW r \in Requests, CheckHealth(r) \/ CheckBreaker(r) PROVE StageInv'
  BY <1>3 DEF CheckHealth, CheckBreaker
<1>4. ASSUME NEW r \in Requests, CountRate(r) \/ ExpireRate(r) PROVE StageInv'
  BY <1>4 DEF CountRate, ExpireRate, reqVars
<1>5. ASSUME NEW r \in Requests, Screen(r) PROVE StageInv'
  BY <1>5 DEF Screen
<1>6. ASSUME NEW r \in Requests, ConsumeGas(r) \/ ClaimNonce(r) PROVE StageInv'
  BY <1>6 DEF ConsumeGas, ClaimNonce
<1>7. ASSUME NEW r \in Requests, Publish(r) \/ DaprOk(r) \/ DaprFail(r) PROVE StageInv'
  <2>1. CASE Publish(r)
    BY <2>1 DEF Publish
  <2>2. CASE DaprOk(r)
    BY <2>2 DEF DaprOk
  <2>3. CASE DaprFail(r)
    BY <2>3 DEF DaprFail
  <2>4. QED BY <1>7, <2>1, <2>2, <2>3
<1>8. ASSUME NEW r \in Requests, FallbackXadd(r) \/ HandlerError(r) PROVE StageInv'
  BY <1>8 DEF FallbackXadd, HandlerError
<1>9. CASE Restart
  BY <1>9 DEF Restart, reqVars, InFlight, Stages
<1>10. ASSUME (\E r \in Requests : Sidecar(r)) \/ (Environment /\ ~Restart) \/ UNCHANGED vars
       PROVE  UNCHANGED <<pc, job, post>>
  BY <1>10 DEF Sidecar, SidecarPublish, SidecarDrop, Environment, Tick, HealthFlag,
     ReplenishGas, ExpireGas, vars, reqVars
<1>11. QED BY <1>1, <1>2, <1>3, <1>4, <1>5, <1>6, <1>7, <1>8, <1>9, <1>10 DEF Next, Handle

\* q is why minute key m has no TTL.
Leaker(q, m) ==
    /\ minuteOf[q] = m /\ job[q] = None
    /\ pc[q] \in {"expire", "lost"} \/ resp[q] = "error500"

\* Only q's own EXPIRE stops it from being one.
LEMMA LeakerKept ==
    ASSUME TypeOK, ToldInv, [Next]_vars, NEW q \in Requests, NEW m, Leaker(q, m),
           ~ExpireRate(q)
    PROVE  Leaker(q, m)'
<1> USE DEF Leaker
<1>1. resp[q] = "error500" => pc[q] = "done"
  BY DEF ToldInv, Told
<1>2. ASSUME NEW r \in Requests \ {q}, Handle(r) PROVE Leaker(q, m)'
  BY <1>2, HandleFrame
<1>3. CASE Handle(q)
  <2>1. pc[q] = "expire" \/ pc[q] = "lost" \/ pc[q] = "done"
    BY <1>1
  <2>2. HandlerError(q)
    BY <1>3, <2>1 DEF Handle, CheckHealth, CheckBreaker, CountRate, Screen, ConsumeGas,
       ClaimNonce, Publish, DaprOk, DaprFail, FallbackXadd
  <2>3. QED BY <2>2 DEF HandlerError, Respond, TypeOK
<1>4. ASSUME NEW r \in Requests, Arrive(r) \/ Sidecar(r) PROVE Leaker(q, m)'
  BY <1>1, <1>4 DEF Arrive, Sidecar, SidecarPublish, SidecarDrop, Goto, TypeOK, reqVars
<1>5. CASE Environment
  BY <1>1, <1>5 DEF Environment, Tick, HealthFlag, Restart, ReplenishGas, ExpireGas,
     reqVars, InFlight, Stages
<1>6. CASE UNCHANGED vars
  BY <1>6 DEF vars, reqVars
<1>7. QED BY <1>2, <1>3, <1>4, <1>5, <1>6 DEF Next

\* A minute key is counted by CountRate, and given its TTL by ExpireRate, alone.
LEMMA RateFrame ==
    ASSUME [Next]_vars, ~ \E r \in Requests : CountRate(r) \/ ExpireRate(r)
    PROVE  UNCHANGED <<rate, rateTtl>>
<1>1. ASSUME NEW r \in Requests, CheckHealth(r) \/ CheckBreaker(r) \/ Screen(r)
             \/ ConsumeGas(r) \/ ClaimNonce(r)
      PROVE  UNCHANGED <<rate, rateTtl>>
  BY <1>1 DEF CheckHealth, CheckBreaker, Screen, ConsumeGas, ClaimNonce, redisVars
<1>2. ASSUME NEW r \in Requests, Publish(r) \/ DaprOk(r) \/ DaprFail(r) \/ FallbackXadd(r)
             \/ HandlerError(r) \/ Arrive(r) \/ Sidecar(r)
      PROVE  UNCHANGED <<rate, rateTtl>>
  BY <1>2 DEF Publish, DaprOk, DaprFail, FallbackXadd, HandlerError, Arrive, Sidecar,
     SidecarPublish, SidecarDrop, redisVars
<1>3. ASSUME Environment \/ UNCHANGED vars PROVE UNCHANGED <<rate, rateTtl>>
  BY <1>3 DEF Environment, Tick, HealthFlag, Restart, ReplenishGas, ExpireGas, vars,
     redisVars
<1>4. QED BY <1>1, <1>2, <1>3 DEF Next, Handle

LEMMA LeakStep ==
    ASSUME TypeOK, StageInv, ToldInv, RateKeyLeaks, [Next]_vars
    PROVE  RateKeyLeaks'
<1>1. \A m \in Minutes : rate[m] > 0 /\ m \notin rateTtl => \E q \in Requests : Leaker(q, m)
  BY DEF RateKeyLeaks, Leaker
<1>2. SUFFICES ASSUME NEW m \in Minutes, rate'[m] > 0, m \notin rateTtl'
               PROVE  \E q \in Requests : Leaker(q, m)'
  BY DEF RateKeyLeaks, Leaker
<1>3. ASSUME NEW r \in Requests, CountRate(r), minuteOf[r] = m, rate[m] + 1 = 1
      PROVE  Leaker(r, m)'
  BY <1>3 DEF CountRate, FirstOfMinute, OverLimit, Goto, TypeOK, Leaker, StageInv, Stage, Unread
<1>4. ASSUME rate[m] > 0, m \notin rateTtl PROVE \E q \in Requests : Leaker(q, m)'
  <2>1. PICK q \in Requests : Leaker(q, m)
    BY <1>1, <1>4
  <2>2. ~ExpireRate(q)
    BY <1>2, <2>1 DEF ExpireRate, Leaker
  <2>3. QED BY <2>1, <2>2, LeakerKept
<1>5. CASE \E r \in Requests : CountRate(r)
  <2>1. PICK r \in Requests : CountRate(r)
    BY <1>5
  <2>2. UNCHANGED rateTtl /\ rate' = [rate EXCEPT ![minuteOf[r]] = rate[minuteOf[r]] + 1]
    BY <2>1 DEF CountRate
  <2>3. rate[m] \in Nat
    BY DEF TypeOK
  <2>4. CASE rate[m] > 0
    BY <1>2, <1>4, <2>2, <2>4
  <2>5. CASE rate[m] = 0
    <3>1. minuteOf[r] = m
      BY <1>2, <2>2, <2>5 DEF TypeOK
    <3>2. QED BY <1>3, <2>1, <2>5, <3>1
  <2>6. QED BY <2>3, <2>4, <2>5
<1>6. CASE \E r \in Requests : ExpireRate(r)
  BY <1>2, <1>4, <1>6 DEF ExpireRate
<1>7. CASE ~ \E r \in Requests : CountRate(r) \/ ExpireRate(r)
  BY <1>2, <1>4, <1>7, RateFrame
<1>8. QED BY <1>5, <1>6, <1>7

\* The requests are finitely many, and so are those of a minute and those whose POST
\* failed.
LEMMA CountedFinite ==
    ASSUME NEW m
    PROVE  /\ IsFiniteSet(Counted(m)) /\ IsFiniteSet(FailedPosts)
           /\ Cardinality(Counted(m)) \in Nat /\ Cardinality(FailedPosts) \in Nat
<1>1. Counted(m) \in SUBSET Requests /\ FailedPosts \in SUBSET Requests
  BY DEF Counted, FailedPosts
<1>2. QED BY <1>1, RequestsAssumption, FS_Subset, FS_CardinalityType

\* Only CountRate lets a request through.
LEMMA CountedFrame ==
    ASSUME TypeOK, StageInv, [Next]_vars, NEW m,
           ~ \E r \in Requests : CountRate(r)
    PROVE  Counted(m)' \subseteq Counted(m)
<1> SUFFICES ASSUME NEW q \in Requests, minuteOf'[q] = m,
                    job'[q] # None \/ pc'[q] \in {"expire", "screen"}
             PROVE  minuteOf[q] = m /\ (job[q] # None \/ pc[q] \in {"expire", "screen"})
  BY DEF Counted
<1> USE DEF TypeOK, Goto, Respond
<1>1. ASSUME NEW r \in Requests \ {q}, Handle(r)
      PROVE  minuteOf'[q] = minuteOf[q] /\ job'[q] = job[q] /\ pc'[q] = pc[q]
  BY <1>1, HandleFrame
<1>2. CASE \E r \in Requests \ {q} : Handle(r)
  BY <1>1, <1>2
<1>3. CASE Handle(q)
  <2>1. CASE CheckHealth(q) \/ CheckBreaker(q)
    BY <2>1 DEF CheckHealth, CheckBreaker, StageInv, Stage, Unread
  <2>2. CASE ExpireRate(q)
    BY <2>2 DEF ExpireRate, reqVars
  <2>3. CASE Screen(q)
    BY <2>3 DEF Screen
  <2>4. CASE ConsumeGas(q) \/ ClaimNonce(q)
    BY <2>4 DEF ConsumeGas, ClaimNonce
  <2>5. CASE Publish(q) \/ DaprOk(q) \/ DaprFail(q)
    BY <2>5 DEF Publish, DaprOk, DaprFail
  <2>6. CASE FallbackXadd(q) \/ HandlerError(q)
    BY <2>6 DEF FallbackXadd, HandlerError
  <2>7. QED BY <1>3, <2>1, <2>2, <2>3, <2>4, <2>5, <2>6 DEF Handle
<1>4. ASSUME NEW r \in Requests, Arrive(r) \/ Sidecar(r)
      PROVE  minuteOf[q] = m /\ (job[q] # None \/ pc[q] \in {"expire", "screen"})
  BY <1>4 DEF Arrive, Sidecar, SidecarPublish, SidecarDrop, reqVars
<1>5. CASE Environment
  BY <1>5 DEF Environment, Tick, HealthFlag, Restart, ReplenishGas, ExpireGas, reqVars
<1>6. CASE UNCHANGED vars
  BY <1>6 DEF vars, reqVars
<1>7. QED BY <1>2, <1>3, <1>4, <1>5, <1>6 DEF Next

\* The limiter lets a request through only while the counter, which it has just
\* raised, is within the limit.
LEMMA CountedStep ==
    ASSUME TypeOK, StageInv, CountedInv, [Next]_vars
    PROVE  CountedInv'
<1> USE LimitsAssumption DEF TypeOK
<1>1. SUFFICES ASSUME NEW m \in Minutes
               PROVE  Cardinality(Counted(m)') <= rate'[m]
                      /\ Cardinality(Counted(m)') <= RateLimit
  BY DEF CountedInv
<1>2. /\ Cardinality(Counted(m)) <= rate[m] /\ Cardinality(Counted(m)) <= RateLimit
      /\ rate[m] \in Nat /\ Cardinality(Counted(m)) \in Nat
      /\ IsFiniteSet(Counted(m))
  BY CountedFinite DEF CountedInv
<1>3. CASE Counted(m)' \subseteq Counted(m) /\ rate'[m] >= rate[m] /\ rate'[m] \in Nat
  <2>1. Cardinality(Counted(m)') <= Cardinality(Counted(m)) /\ Cardinality(Counted(m)') \in Nat
    BY <1>2, <1>3, FS_Subset, FS_CardinalityType
  <2>2. QED BY <1>2, <1>3, <2>1
<1>4. ASSUME NEW r \in Requests, CountRate(r)
      PROVE  Cardinality(Counted(m)') <= rate'[m] /\ Cardinality(Counted(m)') <= RateLimit
  <2>1. /\ \A q \in Requests \ {r} : minuteOf'[q] = minuteOf[q] /\ job'[q] = job[q]
                                     /\ pc'[q] = pc[q]
        /\ minuteOf' = minuteOf /\ job' = job
        /\ rate' = [rate EXCEPT ![minuteOf[r]] = rate[minuteOf[r]] + 1]
    BY <1>4, HandleFrame DEF Handle, CountRate
  <2>2. rate'[m] >= rate[m] /\ rate'[m] \in Nat
    BY <2>1
  <2>3. Counted(m)' \subseteq Counted(m) \cup {r}
    BY <2>1 DEF Counted
  <2>4. CASE Counted(m)' \subseteq Counted(m)
    BY <1>3, <2>2, <2>4
  <2>5. ASSUME r \in Counted(m)', r \notin Counted(m)
        PROVE  Cardinality(Counted(m)') <= rate'[m] /\ Cardinality(Counted(m)') <= RateLimit
    <3>1. minuteOf[r] = m /\ rate'[m] = rate[m] + 1 /\ rate[m] + 1 <= RateLimit
      <4>1. minuteOf[r] = m /\ rate'[m] = rate[m] + 1
        BY <2>1, <2>5 DEF Counted
      <4>2. job'[r] = None
        BY <1>4, <2>1 DEF CountRate, StageInv, Stage, Unread
      <4>3. pc'[r] # "done"
        BY <2>5, <4>2 DEF Counted
      <4>4. FirstOfMinute(rate[m] + 1) \/ ~OverLimit(rate[m] + 1)
        BY <1>4, <4>1, <4>3 DEF CountRate, Respond, Goto
      <4>5. QED BY <1>2, <4>1, <4>4 DEF FirstOfMinute, OverLimit
    <3>2. Cardinality(Counted(m) \cup {r}) <= Cardinality(Counted(m)) + 1
          /\ IsFiniteSet(Counted(m) \cup {r}) /\ Cardinality(Counted(m) \cup {r}) \in Nat
      <4>1. Cardinality(Counted(m) \cup {r}) =
              (IF r \in Counted(m) THEN Cardinality(Counted(m)) ELSE Cardinality(Counted(m)) + 1)
            /\ IsFiniteSet(Counted(m) \cup {r})
        BY <1>2, FS_AddElement
      <4>2. QED BY <1>2, <2>5, <4>1
    <3>3. Cardinality(Counted(m)') <= Cardinality(Counted(m) \cup {r})
          /\ Cardinality(Counted(m)') \in Nat
      BY <2>3, <3>2, FS_Subset, FS_CardinalityType
    <3>4. QED BY <1>2, <3>1, <3>2, <3>3
  <2>6. QED BY <2>3, <2>4, <2>5
<1>5. CASE ~ \E r \in Requests : CountRate(r)
  <2>1. Counted(m)' \subseteq Counted(m)
    BY <1>5, CountedFrame
  <2>2. UNCHANGED rate
    BY <1>5, RateFrame DEF ExpireRate
  <2>3. QED BY <1>2, <1>3, <2>1, <2>2
<1>6. QED BY <1>4, <1>5

\* A POST is seen to fail once, by DaprFail, and stays failed.
LEMMA FailedFrame ==
    ASSUME TypeOK, StageInv, [Next]_vars
    PROVE  /\ FailedPosts \subseteq FailedPosts'
           /\ ~(\E r \in Requests : DaprFail(r)) => cbFailures' = cbFailures \/ cbFailures' = 0
<1> SUFFICES /\ \A q \in Requests : post[q] = "failed" => post'[q] = "failed"
             /\ ~(\E r \in Requests : DaprFail(r)) => cbFailures' = cbFailures \/ cbFailures' = 0
  BY DEF FailedPosts
<1> USE DEF TypeOK
<1>1. ASSUME NEW r \in Requests, CheckHealth(r) \/ CheckBreaker(r) \/ CountRate(r)
             \/ ExpireRate(r) \/ Screen(r) \/ ConsumeGas(r) \/ ClaimNonce(r)
      PROVE  UNCHANGED post /\ (cbFailures' = cbFailures \/ cbFailures' = 0)
  BY <1>1 DEF CheckHealth, CheckBreaker, CountRate, ExpireRate, Screen, ConsumeGas,
     ClaimNonce, reqVars, cbVars
<1>2. ASSUME NEW r \in Requests, Publish(r) \/ DaprOk(r) \/ DaprFail(r)
      PROVE  /\ \A q \in Requests : post[q] = "failed" => post'[q] = "failed"
             /\ ~DaprFail(r) => cbFailures' = cbFailures \/ cbFailures' = 0
  BY <1>2 DEF Publish, DaprOk, DaprFail, StageInv, Stage, cbVars
<1>3. ASSUME NEW r \in Requests, FallbackXadd(r) \/ HandlerError(r) \/ Arrive(r) \/ Sidecar(r)
      PROVE  UNCHANGED post /\ cbFailures' = cbFailures
  BY <1>3 DEF FallbackXadd, HandlerError, Arrive, Sidecar, SidecarPublish, SidecarDrop,
     reqVars, cbVars
<1>4. ASSUME Environment \/ UNCHANGED vars
      PROVE  UNCHANGED post /\ (cbFailures' = cbFailures \/ cbFailures' = 0)
  BY <1>4 DEF Environment, Tick, HealthFlag, Restart, ReplenishGas, ExpireGas, vars,
     reqVars, cbVars
<1>5. QED BY <1>1, <1>2, <1>3, <1>4 DEF Next, Handle

\* A refusal by the breaker happens only in CheckBreaker, while it is open.
LEMMA BreakerFrame ==
    ASSUME TypeOK, [Next]_vars, NEW q \in Requests, resp'[q] = "breaker503",
           resp[q] # "breaker503"
    PROVE  cbFailures >= CbThreshold
<1> USE DEF TypeOK, Respond
<1>1. ASSUME NEW r \in Requests, Arrive(r) \/ Sidecar(r) PROVE UNCHANGED resp
  BY <1>1 DEF Arrive, Sidecar, SidecarPublish, SidecarDrop, reqVars
<1>2. ASSUME Environment \/ UNCHANGED vars PROVE UNCHANGED resp
  BY <1>2 DEF Environment, Tick, HealthFlag, Restart, ReplenishGas, ExpireGas, vars, reqVars
<1>3. PICK r \in Requests : Handle(r)
  BY <1>1, <1>2 DEF Next
<1>4. ~(CheckHealth(r) \/ CountRate(r) \/ ExpireRate(r) \/ ConsumeGas(r) \/ ClaimNonce(r))
  BY DEF CheckHealth, CountRate, ExpireRate, ConsumeGas, ClaimNonce, reqVars
<1>5. ~Screen(r)
  <2>1. \A p \in Payloads : Refusal(p) # "breaker503"
    BY DEF Refusal
  <2>2. QED BY <2>1 DEF Screen
<1>6. ~(Publish(r) \/ DaprOk(r) \/ DaprFail(r) \/ FallbackXadd(r) \/ HandlerError(r))
  BY DEF Publish, DaprOk, DaprFail, FallbackXadd, HandlerError
<1>7. CheckBreaker(r)
  BY <1>3, <1>4, <1>5, <1>6 DEF Handle
<1>8. QED BY <1>7 DEF CheckBreaker, BreakerOpen

\* The breaker's count is at most the number of failed POSTs, so it opens, and
\* refuses, only with that many behind it.
LEMMA BreakerStep ==
    ASSUME TypeOK, StageInv, BreakerInv, [Next]_vars
    PROVE  BreakerInv'
<1>1. /\ IsFiniteSet(FailedPosts) /\ Cardinality(FailedPosts) \in Nat
      /\ IsFiniteSet(FailedPosts') /\ Cardinality(FailedPosts') \in Nat
  <2>1. FailedPosts \in SUBSET Requests /\ FailedPosts' \in SUBSET Requests
    BY DEF FailedPosts
  <2>2. QED BY <2>1, RequestsAssumption, FS_Subset, FS_CardinalityType
<1>2. Cardinality(FailedPosts) <= Cardinality(FailedPosts')
  BY <1>1, FailedFrame, FS_Subset
<1>3. cbFailures' <= Cardinality(FailedPosts')
  <2>1. CASE cbFailures' = cbFailures \/ cbFailures' = 0
    BY <1>1, <1>2, <2>1 DEF BreakerInv, TypeOK
  <2>2. ASSUME NEW r \in Requests, DaprFail(r) PROVE cbFailures' <= Cardinality(FailedPosts')
    <3>1. cbFailures' = cbFailures + 1 /\ post' = [post EXCEPT ![r] = "failed"]
          /\ post[r] = "sent"
      BY <2>2 DEF DaprFail, StageInv, Stage
    <3>2. FailedPosts' = FailedPosts \cup {r} /\ r \notin FailedPosts
      BY <3>1 DEF FailedPosts, TypeOK
    <3>3. Cardinality(FailedPosts') = Cardinality(FailedPosts) + 1
      BY <1>1, <3>2, FS_AddElement
    <3>4. QED BY <1>1, <3>1, <3>3 DEF BreakerInv, TypeOK
  <2>3. QED BY <2>1, <2>2, FailedFrame
<1>4. BreakerRefusalJustified'
  <2> SUFFICES ASSUME NEW q \in Requests, resp'[q] = "breaker503"
               PROVE  Cardinality(FailedPosts') >= CbThreshold
    BY DEF BreakerRefusalJustified, FailedPosts
  <2>1. Cardinality(FailedPosts) >= CbThreshold
    <3>1. CASE resp[q] = "breaker503"
      BY <3>1 DEF BreakerInv, BreakerRefusalJustified, FailedPosts
    <3>2. CASE resp[q] # "breaker503"
      BY <1>1, <3>2, BreakerFrame, LimitsAssumption DEF BreakerInv, TypeOK
    <3>3. QED BY <3>1, <3>2
  <2>2. QED BY <1>1, <1>2, <2>1, LimitsAssumption
<1>5. QED BY <1>3, <1>4 DEF BreakerInv

LEMMA LimitsInit == Init => LimitsInv
<1> SUFFICES ASSUME Init PROVE LimitsInv
  OBVIOUS
<1>1. StageInv /\ RateKeyLeaks
  BY DEF Init, StageInv, Stage, Early, RateKeyLeaks
<1>2. \A m : Counted(m) = {}
  BY DEF Init, Counted
<1>3. CountedInv
  <2>1. \A m \in Minutes : rate[m] = 0
    BY DEF Init
  <2>2. QED BY <1>2, <2>1, FS_EmptySet, LimitsAssumption DEF CountedInv
<1>4. FailedPosts = {}
  BY DEF Init, FailedPosts
<1>5. BreakerInv
  BY <1>4, FS_EmptySet DEF Init, BreakerInv, BreakerRefusalJustified
<1>6. QED BY <1>1, <1>3, <1>5 DEF LimitsInv

\* The limits hold, and refuse only with cause, in every reachable state.
LEMMA LimitsInductive == Spec => []LimitsInv
<1>1. Init => LimitsInv
  BY LimitsInit
<1>2. IInv /\ LimitsInv /\ [Next]_vars => LimitsInv'
  BY StageStep, LeakStep, CountedStep, BreakerStep DEF IInv, LimitsInv
<1>3. QED BY <1>1, <1>2, Inductive, PTL DEF Spec

\* A minute key without a TTL has a request to blame (bus.py:231-233).
THEOREM LeaksExplained == Spec => []RateKeyLeaks
<1>1. LimitsInv => RateKeyLeaks
  BY DEF LimitsInv
<1>2. QED BY <1>1, LimitsInductive, PTL

\* No minute lets more than RateLimit requests through, and the breaker never refuses
\* without CbThreshold failed POSTs behind it (bus.py:222-235, 364-367).
THEOREM LimitsExact == Spec => []LimitsAreExact
<1>1. LimitsInv => LimitsAreExact
  <2> SUFFICES ASSUME LimitsInv, NEW m \in Minutes
               PROVE  Cardinality({r \in Requests : job[r] # None /\ minuteOf[r] = m}) <= RateLimit
    BY DEF LimitsAreExact, RateBounded, LimitsInv, BreakerInv
  <2>1. {r \in Requests : job[r] # None /\ minuteOf[r] = m} \in SUBSET Counted(m)
    BY DEF Counted
  <2>2. /\ Cardinality({r \in Requests : job[r] # None /\ minuteOf[r] = m})
               <= Cardinality(Counted(m))
        /\ Cardinality({r \in Requests : job[r] # None /\ minuteOf[r] = m}) \in Nat
    BY <2>1, CountedFinite, FS_Subset, FS_CardinalityType
  <2>3. Cardinality(Counted(m)) <= RateLimit /\ Cardinality(Counted(m)) \in Nat
    BY CountedFinite DEF LimitsInv, CountedInv
  <2>4. QED BY <2>2, <2>3, LimitsAssumption
<1>2. QED BY <1>1, LimitsInductive, PTL

-----------------------------------------------------------------------------
(* The two routes to the stream.  The sidecar delivers an event once, and the *)
(* fallback runs once, after a POST that failed.                              *)

\* What an entry says about its request.
Carried(e) ==
    /\ e.via = "dapr" => sidecar[e.req] = "published"
    /\ e.via = "redis" => pc[e.req] = "done" /\ post[e.req] = "failed"

RoutesInv ==
    /\ \A k \in DOMAIN stream : Carried(stream[k])
    /\ \A i, k \in DOMAIN stream :
          i # k /\ stream[i].req = stream[k].req => stream[i].via # stream[k].via

\* A published event and a request answered after the fallback stay that way.
LEMMA CarriedKept ==
    ASSUME TypeOK, StageInv, ToldInv, [Next]_vars, NEW e \in Entries, Carried(e)
    PROVE  Carried(e)'
<1>1. e.req \in Requests /\ e.via \in {"dapr", "redis"}
  BY DEF Entries
<1> DEFINE q == e.req
<1> USE <1>1 DEF Carried, TypeOK, Goto, Respond
<1>2. ASSUME NEW r \in Requests \ {q}, Handle(r) PROVE Carried(e)'
  BY <1>2, HandleFrame
<1>3. CASE Handle(q)
  <2>1. pc[q] # "done" /\ e.via = "dapr" /\ sidecar[q] = "published"
    BY <1>3 DEF Handle, CheckHealth, CheckBreaker, CountRate, ExpireRate, Screen, ConsumeGas,
       ClaimNonce, Publish, DaprOk, DaprFail, FallbackXadd, HandlerError
  <2>2. ~Publish(q)
    BY <2>1 DEF Publish, ToldInv, Told, Unpublished
  <2>3. UNCHANGED sidecar
    BY <1>3, <2>2 DEF Handle, CheckHealth, CheckBreaker, CountRate, ExpireRate, Screen,
       ConsumeGas, ClaimNonce, DaprOk, DaprFail, FallbackXadd, HandlerError
  <2>4. QED BY <2>1, <2>3
<1>4. ASSUME NEW r \in Requests, Arrive(r) \/ Sidecar(r) PROVE Carried(e)'
  BY <1>4 DEF Arrive, Sidecar, SidecarPublish, SidecarDrop, reqVars
<1>5. CASE Environment
  BY <1>5 DEF Environment, Tick, HealthFlag, Restart, ReplenishGas, ExpireGas, InFlight,
     reqVars
<1>6. CASE UNCHANGED vars
  BY <1>6 DEF vars, reqVars
<1>7. QED BY <1>2, <1>3, <1>4, <1>5, <1>6 DEF Next

\* A new entry takes the route that its request has not taken yet.
LEMMA RoutesStep ==
    ASSUME TypeOK, PipelineInv, StageInv, ToldInv, RoutesInv, [Next]_vars
    PROVE  RoutesInv'
<1>1. \A e \in Entries : Carried(e) => Carried(e)'
  BY CarriedKept
<1>2. \A k \in DOMAIN stream : stream[k] \in Entries /\ Carried(stream[k])
  BY DEF RoutesInv, TypeOK
<1>3. CASE UNCHANGED stream
  <2>1. \A k \in DOMAIN stream' : stream'[k] \in Entries /\ Carried(stream[k])
    BY <1>2, <1>3
  <2>2. \A k \in DOMAIN stream' : \E e \in Entries : e = stream'[k] /\ Carried(e)
    BY <1>2, <1>3
  <2>3. \A k \in DOMAIN stream' : \E e \in Entries : e = stream'[k] /\ Carried(e)'
    BY <1>1, <2>2
  <2>4. \A k \in DOMAIN stream' : Carried(stream[k])'
    BY <2>3 DEF Carried
  <2>5. QED BY <1>3, <2>4 DEF RoutesInv
<1>4. ASSUME NEW r \in Requests, NEW via \in {"dapr", "redis"}, Entry(r, via) \in Entries,
             stream' = Append(stream, Entry(r, via)),
             via = "dapr" => sidecar'[r] = "published",
             via = "redis" => pc'[r] = "done" /\ post'[r] = "failed",
             \A k \in DOMAIN stream : stream[k].req = r => stream[k].via # via
      PROVE  RoutesInv'
  <2>1. /\ DOMAIN stream' = DOMAIN stream \cup {Len(stream) + 1}
        /\ \A k \in DOMAIN stream : stream'[k] = stream[k]
        /\ stream'[Len(stream) + 1] = Entry(r, via)
    BY <1>4, AppendEntry DEF TypeOK
  <2>2. Entry(r, via).req = r /\ Entry(r, via).via = via
    BY DEF Entry
  <2>3. \A k \in DOMAIN stream : \E e \in Entries : e = stream'[k] /\ Carried(e)'
    BY <1>1, <1>2, <2>1
  <2>4. \A k \in DOMAIN stream : Carried(stream[k])'
    BY <2>3 DEF Carried
  <2>5. \A k \in DOMAIN stream' : Carried(stream[k])'
    BY <1>4, <2>1, <2>2, <2>4 DEF Carried
  <2>6. \A i, k \in DOMAIN stream' :
          i # k /\ stream'[i].req = stream'[k].req => stream'[i].via # stream'[k].via
    BY <1>4, <2>1, <2>2 DEF RoutesInv
  <2>7. QED BY <2>5, <2>6 DEF RoutesInv
<1>5. ASSUME NEW r \in Requests, SidecarPublish(r) PROVE RoutesInv'
  <2>1. Claimed(r) /\ sidecar[r] = "queued" /\ sidecar'[r] = "published"
        /\ stream' = Append(stream, Entry(r, "dapr"))
    BY <1>5 DEF SidecarPublish, PipelineInv, Pipeline, TypeOK
  <2>2. Entry(r, "dapr") \in Entries
    BY <2>1, PayloadsAssumption DEF Claimed, Paid, Admitted, Entry, Entries, TypeOK
  <2>3. \A k \in DOMAIN stream : stream[k].req = r => stream[k].via # "dapr"
    BY <1>2, <2>1 DEF Carried
  <2>4. QED BY <1>4, <2>1, <2>2, <2>3
<1>6. ASSUME NEW r \in Requests, FallbackXadd(r) PROVE RoutesInv'
  <2>1. Claimed(r) /\ pc[r] = "xadd" /\ pc'[r] = "done" /\ post'[r] = "failed"
        /\ stream' = Append(stream, Entry(r, "redis"))
    BY <1>6 DEF FallbackXadd, PipelineInv, Pipeline, StageInv, Stage, TypeOK, Respond, Goto
  <2>2. Entry(r, "redis") \in Entries
    BY <2>1, PayloadsAssumption DEF Claimed, Paid, Admitted, Entry, Entries, TypeOK
  <2>3. \A k \in DOMAIN stream : stream[k].req = r => stream[k].via # "redis"
    BY <1>2, <2>1 DEF Carried
  <2>4. QED BY <1>4, <2>1, <2>2, <2>3
<1>7. QED BY <1>3, <1>5, <1>6, StreamGrows

\* The routes stay apart in every reachable state.
LEMMA RoutesInductive == Spec => []RoutesInv
<1>1. Init => RoutesInv
  BY DEF Init, RoutesInv
<1>2. IInv /\ LimitsInv /\ RoutesInv /\ [Next]_vars => RoutesInv'
  BY RoutesStep DEF IInv, LimitsInv
<1>3. QED BY <1>1, <1>2, Inductive, LimitsInductive, PTL DEF Spec

\* An intent is on the stream twice only when its POST failed although the sidecar
\* had taken it (bus.py:360-370).
THEOREM DuplicatesExplained == Spec => []DuplicateOnlyFromFallback
<1>1. TypeOK /\ RoutesInv => DuplicateOnlyFromFallback
  <2> SUFFICES ASSUME TypeOK, RoutesInv, NEW j \in DOMAIN stream, NEW k \in DOMAIN stream,
                      j # k, stream[j].req = stream[k].req
               PROVE  stream[j].via # stream[k].via /\ post[stream[j].req] = "failed"
    BY DEF DuplicateOnlyFromFallback
  <2>1. stream[j] \in Entries /\ stream[k] \in Entries
    BY DEF TypeOK
  <2>2. stream[j].via # stream[k].via /\ Carried(stream[j]) /\ Carried(stream[k])
    BY DEF RoutesInv
  <2>3. stream[j].via = "redis" \/ stream[k].via = "redis"
    BY <2>1, <2>2 DEF Entries
  <2>4. QED BY <2>2, <2>3 DEF Carried
<1>2. QED BY <1>1, TypeCorrect, RoutesInductive, PTL

-----------------------------------------------------------------------------
(* Gas.  A request that was charged has its payload for good, so what it paid *)
(* can be read off the payload as long as it counts.                          *)

Unpaid == Unread \cup {"gas"}

PayersInv == \A r \in payers : job[r] \in Payloads /\ pc[r] \notin Unpaid

Paying == [r \in payers |-> job[r].gas]

\* No step but those of the bucket touches it, or the payload of a request it charged.
LEMMA PayersFrame ==
    ASSUME TypeOK, PayersInv, [Next]_vars,
           ~ \E r \in Requests : ConsumeGas(r), ~ReplenishGas, ~ExpireGas
    PROVE  /\ UNCHANGED <<gas, payers>>
           /\ \A q \in payers : job'[q] = job[q] /\ pc'[q] \notin Unpaid
<1> USE DEF TypeOK, PayersInv, Unpaid, Unread, Goto, Respond
<1>1. UNCHANGED <<gas, payers>>
  <2>1. ASSUME NEW r \in Requests, CheckHealth(r) \/ CheckBreaker(r) \/ CountRate(r)
               \/ ExpireRate(r) \/ Screen(r) \/ ClaimNonce(r) \/ Publish(r) \/ DaprOk(r)
               \/ DaprFail(r) \/ FallbackXadd(r) \/ HandlerError(r)
        PROVE  UNCHANGED <<gas, payers>>
    BY <2>1 DEF CheckHealth, CheckBreaker, CountRate, ExpireRate, Screen, ClaimNonce, Publish,
       DaprOk, DaprFail, FallbackXadd, HandlerError, redisVars, gasVars
  <2>2. ASSUME NEW r \in Requests, Arrive(r) \/ Sidecar(r) PROVE UNCHANGED <<gas, payers>>
    BY <2>2 DEF Arrive, Sidecar, SidecarPublish, SidecarDrop, redisVars, gasVars
  <2>3. CASE Tick \/ HealthFlag \/ Restart \/ UNCHANGED vars
    BY <2>3 DEF Tick, HealthFlag, Restart, vars, redisVars, gasVars
  <2>4. QED BY <2>1, <2>2, <2>3 DEF Next, Handle, Environment
<1>2. ASSUME NEW q \in payers PROVE job'[q] = job[q] /\ pc'[q] \notin Unpaid
  <2>1. q \in Requests /\ pc[q] \notin Unpaid
    OBVIOUS
  <2>2. ASSUME NEW r \in Requests, Handle(r) PROVE job'[q] = job[q] /\ pc'[q] \notin Unpaid
    <3>1. CASE r # q
      BY <2>1, <2>2, <3>1, HandleFrame
    <3>2. CASE r = q
      <4>1. ~(CheckHealth(q) \/ CheckBreaker(q) \/ CountRate(q) \/ ExpireRate(q) \/ Screen(q)
              \/ ConsumeGas(q))
        BY <2>1 DEF CheckHealth, CheckBreaker, CountRate, ExpireRate, Screen, ConsumeGas
      <4>2. CASE ClaimNonce(q) \/ Publish(q) \/ DaprOk(q) \/ DaprFail(q)
        BY <2>1, <4>2 DEF ClaimNonce, Publish, DaprOk, DaprFail
      <4>3. CASE FallbackXadd(q) \/ HandlerError(q)
        BY <2>1, <4>3 DEF FallbackXadd, HandlerError
      <4>4. QED BY <2>2, <3>2, <4>1, <4>2, <4>3 DEF Handle
    <3>3. QED BY <3>1, <3>2
  <2>3. ASSUME NEW r \in Requests, Arrive(r) \/ Sidecar(r)
        PROVE  job'[q] = job[q] /\ pc'[q] \notin Unpaid
    BY <2>1, <2>3 DEF Arrive, Sidecar, SidecarPublish, SidecarDrop, reqVars
  <2>4. CASE Environment
    BY <2>1, <2>4 DEF Environment, Tick, HealthFlag, Restart, ReplenishGas, ExpireGas,
       reqVars, InFlight
  <2>5. CASE UNCHANGED vars
    BY <2>1, <2>5 DEF vars, reqVars
  <2>6. QED BY <2>2, <2>3, <2>4, <2>5 DEF Next
<1>3. QED BY <1>1, <1>2

\* Bucket and payments together stay at the tier's capacity.
LEMMA GasStep ==
    ASSUME TypeOK, PipelineInv, PayersInv, GasConserved, [Next]_vars
    PROVE  PayersInv' /\ GasConserved'
<1> USE LimitsAssumption
<1>1. IsFiniteSet(payers) /\ \A q \in payers : job[q].gas \in Nat
  BY RequestsAssumption, PayloadsAssumption, FS_Subset DEF TypeOK, PayersInv
<1>2. GasConserved <=> IF gas = None THEN payers = {}
                       ELSE gas + SumFunctionOnSet(Paying, payers) = GasCap
  BY DEF GasConserved, SumFunction, Paying
<1>3. GasConserved' <=> IF gas' = None THEN payers' = {}
                        ELSE gas' + SumFunctionOnSet(Paying', payers') = GasCap
  BY DEF GasConserved, SumFunction, Paying
<1>4. ASSUME NEW r \in Requests, ConsumeGas(r) PROVE PayersInv' /\ GasConserved'
  <2>1. pc[r] = "gas" /\ job[r] \in Payloads /\ job[r].gas \in Nat /\ UNCHANGED job
    BY <1>4, PayloadsAssumption DEF ConsumeGas, PipelineInv, Pipeline, Admitted
  <2>2. r \notin payers
    BY <2>1 DEF PayersInv, Unpaid
  <2>3. CASE UNCHANGED gasVars
    <3>1. PayersInv'
      BY <1>4, <2>1, <2>3 DEF ConsumeGas, PayersInv, Unpaid, Unread, Respond, Goto, TypeOK,
         gasVars
    <3>2. GasConserved'
      BY <2>1, <2>3 DEF GasConserved, gasVars
    <3>3. QED BY <3>1, <3>2
  <2>4. ASSUME gas' = GasLevel - job[r].gas, payers' = payers \cup {r},
               pc' = [pc EXCEPT ![r] = "nonce"], job[r].gas <= GasLevel
        PROVE  PayersInv' /\ GasConserved'
    <3>1. PayersInv'
      BY <2>1, <2>4 DEF PayersInv, Unpaid, Unread, TypeOK
    <3>2. IsFiniteSet(payers') /\ \A q \in payers' : Paying'[q] \in Nat
      BY <1>1, <2>1, <2>4, FS_AddElement DEF Paying
    <3>3. SumFunctionOnSet(Paying', payers')
            = Paying'[r] + SumFunctionOnSet(Paying', payers' \ {r})
      BY <2>4, <3>2, SumRemove
    <3>4. payers' \ {r} = payers /\ Paying'[r] = job[r].gas
      BY <2>1, <2>2, <2>4 DEF Paying
    <3>5. \A q \in payers : Paying[q] \in Nat /\ Paying[q] = Paying'[q]
      BY <1>1, <2>1, <2>4 DEF Paying
    <3>6. /\ SumFunctionOnSet(Paying, payers) \in Nat
          /\ SumFunctionOnSet(Paying, payers) = SumFunctionOnSet(Paying', payers)
      BY <1>1, <3>5, SumAgree
    <3>7. gas' # None
      BY <2>1, <2>4, NoneAssumption DEF GasLevel, TypeOK
    <3>8. CASE gas = None
      <4>1. payers = {} /\ SumFunctionOnSet(Paying, payers) = 0
        BY <1>2, <3>8, SumEmpty
      <4>2. SumFunctionOnSet(Paying', payers') = job[r].gas
        BY <2>1, <3>3, <3>4, <3>6, <4>1
      <4>3. gas' + SumFunctionOnSet(Paying', payers') = GasCap
        BY <2>1, <2>4, <3>8, <4>2 DEF GasLevel
      <4>4. QED BY <1>3, <3>1, <3>7, <4>3
    <3>9. CASE gas # None
      <4>1. gas \in Nat /\ gas + SumFunctionOnSet(Paying, payers) = GasCap
        BY <1>2, <3>9 DEF TypeOK
      <4>2. SumFunctionOnSet(Paying', payers')
              = job[r].gas + SumFunctionOnSet(Paying, payers)
        BY <3>3, <3>4, <3>6
      <4>3. gas' + SumFunctionOnSet(Paying', payers') = GasCap
        BY <2>1, <2>4, <3>6, <3>9, <4>1, <4>2 DEF GasLevel
      <4>4. QED BY <1>3, <3>1, <3>7, <4>3
    <3>10. QED BY <3>8, <3>9
  <2>5. QED BY <1>4, <2>3, <2>4 DEF ConsumeGas, Affordable, Charged, Goto
<1>5. CASE ReplenishGas
  <2>1. gas' = GasCap /\ payers' = {}
    BY <1>5 DEF ReplenishGas
  <2>2. SumFunctionOnSet(Paying', payers') = 0
    BY <2>1, SumEmpty
  <2>3. QED BY <1>3, <2>1, <2>2, NoneAssumption DEF PayersInv
<1>6. CASE ExpireGas
  BY <1>3, <1>6 DEF ExpireGas, PayersInv
<1>7. CASE ~ReplenishGas /\ ~ExpireGas /\ ~ \E r \in Requests : ConsumeGas(r)
  <2>1. /\ UNCHANGED <<gas, payers>>
        /\ \A q \in payers : job'[q] = job[q] /\ pc'[q] \notin Unpaid
    BY <1>7, PayersFrame
  <2>2. Paying' = Paying
    BY <2>1 DEF Paying
  <2>3. GasConserved'
    BY <1>2, <1>3, <2>1, <2>2
  <2>4. PayersInv'
    BY <2>1 DEF PayersInv, Unpaid
  <2>5. QED BY <2>3, <2>4
<1>8. QED BY <1>4, <1>5, <1>6, <1>7

\* Gas is neither made nor lost, however the requests interleave with refills and the
\* expiry of the key (router.py, _GAS_DECREMENT_LUA and replenish_gas).
THEOREM GasIsConserved == Spec => []GasConserved
<1>1. Init => PayersInv /\ GasConserved
  BY DEF Init, PayersInv, GasConserved
<1>2. IInv /\ PayersInv /\ GasConserved /\ [Next]_vars => PayersInv' /\ GasConserved'
  BY GasStep DEF IInv
<1>3. QED BY <1>1, <1>2, Inductive, PTL DEF Spec

-----------------------------------------------------------------------------
(* The routing of models. *)

TierModels(catalog, k) == catalog.tiers[TierOrder[k]]
\* No model of the cloud among the first n.
NoCloud(models, n) == \A i \in 1 .. n : ~IsCloud(models[i])
\* What is left to look at of a tier is its end, after models that are not of the cloud.
EndOf(rest, models, n) ==
  /\ NoCloud(models, n) /\ rest \in Seq(Range(models)) /\ Len(rest) = Len(models) - n
  /\ \A j \in 1 .. Len(models) - n : rest[j] = models[n + j]
LeftOf(rest, models) == \E n \in 0 .. Len(models) : EndOf(rest, models, n)

\* Where the walk is, in a registry that has not changed since it began.
PassedOver(catalog, k) == NoCloud(TierModels(catalog, k), Len(TierModels(catalog, k)))
WalksIn(catalog, q) ==
  /\ q.at \in {"tier", "check", "selected"} => \A k \in DOMAIN TierOrder : k < q.tier => PassedOver(catalog, k)
  /\ q.at \in {"check", "selected"} => q.tier \in DOMAIN TierOrder /\ LeftOf(q.candidates, TierModels(catalog, q.tier))
  /\ q.at = "selected" => q.candidates # <<>>
  /\ q.at = "fallback" => \A k \in DOMAIN TierOrder : PassedOver(catalog, k)
Walks == WalksIn(rtCatalog, rtRequest)

RouteTyped ==
  /\ rtRequest = [at |-> rtRequest.at, intent |-> rtRequest.intent, tier |-> rtRequest.tier,
                  candidates |-> rtRequest.candidates]
  /\ rtRequest.at \in {"idle", "tier", "check", "selected", "fallback"}
  /\ rtRequest.tier \in Nat /\ (rtRequest.at # "idle" => rtRequest.tier > 0)
  /\ rtCatalog \in Catalogs /\ (rtRequest.at # "idle" => rtCatalog.present)

\* The hosts give now the answer they gave last, and a cached answer they gave no longer
\* than a TTL before it expires.
AnswersDated ==
  /\ rtNow \in Int /\ rtLast \in [BOOLEAN -> Int] /\ rtCache.expires \in Int /\ rtCache.result \in BOOLEAN
  /\ \A b \in BOOLEAN : rtLast[b] <= rtNow
  /\ rtLast[HostsAnswer(rtLoad)] = rtNow
  /\ rtNow < rtCache.expires => rtCache.expires - VramTtl <= rtLast[rtCache.result]

RouteInv == RouteTyped /\ AnswersDated /\ (rtSteady => Walks) /\ BestTierServed /\ ProviderFits

LEMMA TiersAreSequences ==
    ASSUME RouteTyped, rtCatalog.present
    PROVE  /\ TierOrder \in Seq(Range(TierOrder)) /\ Len(TierOrder) \in Nat /\ DOMAIN TierOrder = 1 .. Len(TierOrder)
           /\ \A k \in DOMAIN TierOrder :
                /\ TierOrder[k] # "openrouter"
                /\ TierModels(rtCatalog, k) \in Seq(Range(TierModels(rtCatalog, k))) /\ Len(TierModels(rtCatalog, k)) \in Nat
                /\ DOMAIN TierModels(rtCatalog, k) = 1 .. Len(TierModels(rtCatalog, k))
<1>1. TierOrder \in Seq(Range(TierOrder)) /\ "openrouter" \notin Range(TierOrder)
  BY RouteAssumption DEF IsSeq
<1>2. \A k \in DOMAIN TierOrder : TierOrder[k] \in Range(TierOrder)
  BY DEF Range
<1>3. \A k \in DOMAIN TierOrder : TierModels(rtCatalog, k) \in Seq(Range(TierModels(rtCatalog, k)))
  BY <1>2, RouteAssumption DEF RouteTyped, IsSeq, TierModels
<1>4. QED BY <1>1, <1>2, <1>3

LEMMA AnswersDatedStay ==
    ASSUME AnswersDated, RouteNext
    PROVE  AnswersDated'
<1>0. VramTtl \in Nat /\ VramTtl > 0
  BY RouteAssumption
<1>1. CASE UNCHANGED <<rtNow, rtLoad, rtLast, rtCache>>
  BY <1>1 DEF AnswersDated, HostsAnswer
<1>2. CASE CheckCandidate
  <2>1. PICK model : rtCache' = CacheAfter(model) \/ rtCache' = rtCache
    BY <1>2 DEF CheckCandidate
  <2>2. UNCHANGED <<rtNow, rtLoad, rtLast>>
    BY <1>2 DEF CheckCandidate, rtWorld
  <2>3. CASE rtCache' = rtCache
    BY <1>1, <2>2, <2>3
  <2>4. CASE rtCache' = [result |-> HostsAnswer(rtLoad), expires |-> rtNow + VramTtl]
    <3>1. rtCache'.result = HostsAnswer(rtLoad) /\ rtCache'.expires = rtNow + VramTtl
      BY <2>4
    <3>2. HostsAnswer(rtLoad) \in BOOLEAN
      BY DEF HostsAnswer
    <3>3. rtLast'[rtCache'.result] = rtNow
      BY <2>2, <3>1 DEF AnswersDated
    <3>4. QED BY <1>0, <2>2, <3>1, <3>2, <3>3 DEF AnswersDated
  <2>5. QED BY <2>1, <2>3, <2>4 DEF CacheAfter
<1>3. CASE RouteEnvironment /\ rtCatalog' = rtCatalog
  <2>1. PICK b \in BOOLEAN : b = HostsAnswer(rtLoad')
    BY DEF HostsAnswer
  <2>2. rtCache' = rtCache /\ rtNow' \in Int /\ rtNow' >= rtNow /\ rtLast' = [rtLast EXCEPT ![b] = rtNow']
    BY <1>3, <2>1 DEF RouteEnvironment, AnswersDated
  <2>3. rtLast' \in [BOOLEAN -> Int] /\ rtLast'[b] = rtNow' /\ \A c \in BOOLEAN : rtLast'[c] <= rtNow' /\ rtLast'[c] >= rtLast[c]
    BY <2>1, <2>2 DEF AnswersDated
  <2>4. rtLast'[HostsAnswer(rtLoad')] = rtNow'
    BY <2>1, <2>3
  <2>5. rtNow' < rtCache'.expires => rtCache'.expires - VramTtl <= rtLast'[rtCache'.result]
    BY <1>0, <2>2, <2>3 DEF AnswersDated
  <2>6. rtCache'.expires \in Int /\ rtCache'.result \in BOOLEAN
    BY <2>2 DEF AnswersDated
  <2>7. QED BY <2>2, <2>3, <2>4, <2>5, <2>6 DEF AnswersDated
<1>4. QED BY <1>1, <1>2, <1>3 DEF RouteNext, RouteRequest, ReadTier, FinishRoute, RegistryError, RouteEnvironment, rtWorld


\* A tier's models as read, and without the first if that is none of the cloud.
LEMMA LeftAtFirst ==
    ASSUME NEW m, m \in Seq(Range(m))
    PROVE  LeftOf(m, m)
<1>1. Len(m) \in Nat
  OBVIOUS
<1>2. EndOf(m, m, 0)
  <2>1. NoCloud(m, 0)
    BY DEF NoCloud
  <2>2. Len(m) = Len(m) - 0 /\ \A j \in 1 .. Len(m) - 0 : m[j] = m[0 + j]
    BY <1>1
  <2>3. QED BY <2>1, <2>2 DEF EndOf
<1>3. 0 \in 0 .. Len(m)
  BY <1>1
<1>4. QED BY <1>2, <1>3 DEF LeftOf

LEMMA LeftFacts ==
    ASSUME NEW m, m \in Seq(Range(m)), NEW c, LeftOf(c, m)
    PROVE  /\ c = <<>> => NoCloud(m, Len(m))
           /\ c # <<>> => \E n \in 1 .. Len(m) : NoCloud(m, n - 1) /\ m[n] = Head(c)
           /\ c # <<>> /\ ~IsCloud(Head(c)) => LeftOf(Tail(c), m)
<1>1. Len(m) \in Nat
  OBVIOUS
<1>2. PICK n \in 0 .. Len(m) : EndOf(c, m, n)
  BY DEF LeftOf
<1>3. /\ NoCloud(m, n) /\ c \in Seq(Range(m)) /\ Len(c) = Len(m) - n
      /\ \A j \in 1 .. Len(m) - n : c[j] = m[n + j]
  BY <1>2 DEF EndOf
<1>4. ASSUME c = <<>> PROVE NoCloud(m, Len(m))
  <2>1. Len(c) = 0
    BY <1>4
  <2>2. n = Len(m)
    BY <1>1, <1>3, <2>1
  <2>3. QED BY <1>3, <2>2
<1>5. ASSUME c # <<>>
      PROVE  /\ Head(c) = m[n + 1] /\ n + 1 \in 1 .. Len(m) /\ (n + 1) - 1 = n /\ Tail(c) \in Seq(Range(m))
             /\ Len(Tail(c)) = Len(m) - (n + 1) /\ \A j \in 1 .. Len(m) - (n + 1) : Tail(c)[j] = m[(n + 1) + j]
  <2>1. PICK S : S = Range(m)
    OBVIOUS
  <2>2. /\ c \in Seq(S) /\ Len(c) \in Nat /\ Len(c) >= 1 /\ Head(c) = c[1] /\ Tail(c) \in Seq(S) /\ Len(Tail(c)) = Len(c) - 1
        /\ \A j \in 1 .. Len(c) - 1 : Tail(c)[j] = c[j + 1]
    BY <1>3, <1>5, <2>1
  <2>3. \A j \in 1 .. Len(m) - (n + 1) : j \in 1 .. Len(c) - 1 /\ j + 1 \in 1 .. Len(m) - n /\ n + (j + 1) = (n + 1) + j
    BY <1>1, <1>3
  <2>4. QED BY <1>1, <1>3, <2>1, <2>2, <2>3
<1>6. ASSUME c # <<>> PROVE \E k \in 1 .. Len(m) : NoCloud(m, k - 1) /\ m[k] = Head(c)
  BY <1>3, <1>5, <1>6
<1>7. ASSUME c # <<>>, ~IsCloud(Head(c)) PROVE LeftOf(Tail(c), m)
  <2>1. NoCloud(m, n + 1)
    <3>1. \A i \in 1 .. n + 1 : i \in 1 .. n \/ i = n + 1
      OBVIOUS
    <3>2. QED BY <1>3, <1>5, <1>7, <3>1 DEF NoCloud
  <2>2. EndOf(Tail(c), m, n + 1)
    BY <1>5, <1>7, <2>1 DEF EndOf
  <2>3. n + 1 \in 0 .. Len(m)
    BY <1>1, <1>5, <1>7
  <2>4. QED BY <2>2, <2>3 DEF LeftOf
<1>8. QED BY <1>4, <1>6, <1>7

LEMMA RouteTypedStays ==
    ASSUME RouteTyped, RouteNext
    PROVE  RouteTyped'
<1>1. NoRequest.at = "idle" /\ NoRequest.tier = 0 /\ NoRequest = [at |-> NoRequest.at, intent |-> NoRequest.intent,
        tier |-> NoRequest.tier, candidates |-> NoRequest.candidates]
  BY DEF NoRequest
<1>2. ASSUME rtRequest' = NoRequest, rtCatalog' = rtCatalog PROVE RouteTyped'
  BY <1>1, <1>2 DEF RouteTyped
<1>3. ASSUME NEW intent, NEW complexity, RouteRequest(intent, complexity) PROVE RouteTyped'
  <2>1. rtCatalog' = rtCatalog
    BY <1>3 DEF RouteRequest
  <2>2. rtRequest' = NoRequest \/ (rtCatalog.present /\ rtRequest' = [at |-> "tier", intent |-> intent, tier |-> 1, candidates |-> <<>>])
    BY <1>3 DEF RouteRequest, RouteReturns
  <2>3. CASE rtCatalog.present /\ rtRequest' = [at |-> "tier", intent |-> intent, tier |-> 1, candidates |-> <<>>]
    BY <2>1, <2>3 DEF RouteTyped
  <2>4. QED BY <1>2, <2>1, <2>2, <2>3
<1>4. CASE ReadTier
  <2>1. PICK q : q = rtRequest /\ q.at = "tier"
    BY <1>4 DEF ReadTier
  <2>2. /\ rtCatalog' = rtCatalog
        /\ \/ rtRequest' = [q EXCEPT !.at = "fallback"]
           \/ rtRequest' = [q EXCEPT !.at = "check", !.candidates = rtCatalog.tiers[TierOrder[q.tier]]]
    BY <1>4, <2>1 DEF ReadTier, rtWorld
  <2>3. PICK p : p = rtRequest'
    OBVIOUS
  <2>4. p = [at |-> p.at, intent |-> p.intent, tier |-> q.tier, candidates |-> p.candidates] /\ p.at \in {"fallback", "check"}
    BY <2>1, <2>2, <2>3 DEF RouteTyped
  <2>5. p.tier = q.tier
    BY <2>4
  <2>6. QED BY <2>1, <2>2, <2>3, <2>4, <2>5 DEF RouteTyped
<1>5. CASE CheckCandidate
  <2>1. PICK q : q = rtRequest /\ q.at = "check"
    BY <1>5 DEF CheckCandidate
  <2>2. /\ rtCatalog' = rtCatalog
        /\ \/ rtRequest' = [q EXCEPT !.at = "tier", !.tier = @ + 1]
           \/ rtRequest' = [q EXCEPT !.at = "selected"]
           \/ rtRequest' = [q EXCEPT !.candidates = Tail(@)]
    BY <1>5, <2>1 DEF CheckCandidate, rtWorld
  <2>3. PICK p : p = rtRequest'
    OBVIOUS
  <2>4. p = [at |-> p.at, intent |-> p.intent, tier |-> p.tier, candidates |-> p.candidates] /\ p.tier \in {q.tier, q.tier + 1} /\ p.at \in {"tier", "selected", "check"}
    <3>1. q = [at |-> "check", intent |-> q.intent, tier |-> q.tier, candidates |-> q.candidates]
      BY <2>1 DEF RouteTyped
    <3>2. CASE p = [q EXCEPT !.at = "tier", !.tier = @ + 1]
      BY <3>1, <3>2
    <3>3. CASE p = [q EXCEPT !.at = "selected"]
      BY <3>1, <3>3
    <3>4. CASE p = [q EXCEPT !.candidates = Tail(@)]
      <4>1. PICK c : c = Tail(q.candidates)
        OBVIOUS
      <4>2. p = [q EXCEPT !.candidates = c]
        BY <3>4, <4>1, Zenon
      <4>3. QED BY <3>1, <4>2
    <3>5. QED BY <2>2, <2>3, <3>2, <3>3, <3>4
  <2>5. q.tier \in Nat /\ q.tier > 0 /\ p.tier \in Nat /\ p.tier > 0
    BY <2>1, <2>4 DEF RouteTyped
  <2>6. QED BY <2>1, <2>2, <2>3, <2>4, <2>5 DEF RouteTyped
<1>6. CASE FinishRoute \/ RegistryError
  BY <1>2, <1>6 DEF FinishRoute, RegistryError, RouteReturns, rtWorld
<1>7. CASE RouteEnvironment
  <2>1. rtRequest' = rtRequest /\ (rtCatalog' = rtCatalog \/ (rtCatalog' \in Catalogs /\ rtCatalog'.present))
    BY <1>7 DEF RouteEnvironment
  <2>2. QED BY <2>1 DEF RouteTyped
<1>8. QED BY <1>3, <1>4, <1>5, <1>6, <1>7 DEF RouteNext

LEMMA WalksStay ==
    ASSUME RouteTyped, rtSteady => Walks, RouteNext
    PROVE  (rtSteady => Walks)'
<1>1. ASSUME rtRequest' = NoRequest PROVE WalksIn(rtCatalog', rtRequest')
  <2>1. rtRequest'.at = "idle"
    BY <1>1 DEF NoRequest
  <2>2. QED BY <2>1 DEF WalksIn
<1>2. ASSUME NEW intent, NEW complexity, RouteRequest(intent, complexity) PROVE WalksIn(rtCatalog', rtRequest')
  <2>1. CASE rtRequest' = [at |-> "tier", intent |-> intent, tier |-> 1, candidates |-> <<>>]
    <3>1. rtRequest'.at = "tier" /\ rtRequest'.tier = 1 /\ DOMAIN TierOrder = 1 .. Len(TierOrder)
      BY <2>1, RouteAssumption DEF IsSeq
    <3>2. \A k \in DOMAIN TierOrder : ~(k < 1)
      BY <3>1
    <3>3. QED BY <3>1, <3>2 DEF WalksIn
  <2>2. QED BY <1>1, <1>2, <2>1 DEF RouteRequest, RouteReturns
<1>3. ASSUME ReadTier, Walks PROVE WalksIn(rtCatalog', rtRequest')
  <2>1. PICK d, q, p : d = rtCatalog /\ d = rtCatalog' /\ q = rtRequest /\ p = rtRequest'
    BY <1>3 DEF ReadTier, rtWorld
  <2>2. /\ q.at = "tier" /\ q.tier \in Nat /\ q.tier > 0 /\ rtCatalog.present
        /\ q = [at |-> q.at, intent |-> q.intent, tier |-> q.tier, candidates |-> q.candidates]
    BY <1>3, <2>1 DEF ReadTier, RouteTyped
  <2>3. /\ Len(TierOrder) \in Nat /\ DOMAIN TierOrder = 1 .. Len(TierOrder)
        /\ \A k \in DOMAIN TierOrder : TierModels(d, k) \in Seq(Range(TierModels(d, k)))
    BY <2>1, <2>2, TiersAreSequences
  <2>4. \A k \in DOMAIN TierOrder : k < q.tier => PassedOver(d, k)
    BY <1>3, <2>1, <2>2 DEF Walks, WalksIn
  <2>5. CASE q.tier > Len(TierOrder)
    <3>1. p.at = "fallback"
      BY <1>3, <2>1, <2>2, <2>5 DEF ReadTier
    <3>2. \A k \in DOMAIN TierOrder : PassedOver(d, k)
      BY <2>2, <2>3, <2>4, <2>5
    <3>3. QED BY <2>1, <3>1, <3>2 DEF WalksIn
  <2>6. CASE ~(q.tier > Len(TierOrder))
    <3>1. p.at = "check" /\ p.tier = q.tier /\ p.candidates = TierModels(d, q.tier)
      BY <1>3, <2>1, <2>2, <2>6 DEF ReadTier, TierModels
    <3>2. q.tier \in DOMAIN TierOrder
      BY <2>2, <2>3, <2>6
    <3>3. LeftOf(TierModels(d, q.tier), TierModels(d, q.tier))
      BY <2>3, <3>2, LeftAtFirst
    <3>4. QED BY <2>1, <2>4, <3>1, <3>2, <3>3 DEF WalksIn
  <2>7. QED BY <2>5, <2>6
<1>4. ASSUME CheckCandidate, Walks PROVE WalksIn(rtCatalog', rtRequest')
  <2>1. PICK d, q, p : d = rtCatalog /\ d = rtCatalog' /\ q = rtRequest /\ p = rtRequest'
    BY <1>4 DEF CheckCandidate, rtWorld
  <2>2. /\ q.at = "check" /\ q.tier \in Nat /\ rtCatalog.present
        /\ q = [at |-> q.at, intent |-> q.intent, tier |-> q.tier, candidates |-> q.candidates]
    BY <1>4, <2>1 DEF CheckCandidate, RouteTyped
  <2>3. PICK m : m = TierModels(d, q.tier)
    OBVIOUS
  <2>4. q.tier \in DOMAIN TierOrder /\ LeftOf(q.candidates, m)
    BY <1>4, <2>1, <2>2, <2>3 DEF Walks, WalksIn
  <2>5. DOMAIN TierOrder = 1 .. Len(TierOrder) /\ m \in Seq(Range(m))
    BY <2>1, <2>2, <2>3, <2>4, TiersAreSequences
  <2>6. /\ q.candidates = <<>> => NoCloud(m, Len(m))
        /\ q.candidates # <<>> /\ ~IsCloud(Head(q.candidates)) => LeftOf(Tail(q.candidates), m)
    BY <2>4, <2>5, LeftFacts
  <2>7. \A k \in DOMAIN TierOrder : k < q.tier => PassedOver(d, k)
    BY <1>4, <2>1, <2>2 DEF Walks, WalksIn
  <2>8. CASE q.candidates = <<>>
    <3>1. p.at = "tier" /\ p.tier = q.tier + 1
      BY <1>4, <2>1, <2>2, <2>8 DEF CheckCandidate
    <3>2. \A k \in DOMAIN TierOrder : k < q.tier + 1 => k < q.tier \/ k = q.tier
      BY <2>2, <2>5
    <3>3. PassedOver(d, q.tier)
      BY <2>3, <2>6, <2>8 DEF PassedOver
    <3>4. QED BY <2>1, <2>7, <3>1, <3>2, <3>3 DEF WalksIn
  <2>9. CASE q.candidates # <<>> /\ VramAllows(Head(q.candidates))
    <3>1. p.at = "selected" /\ p.tier = q.tier /\ p.candidates = q.candidates
      BY <1>4, <2>1, <2>2, <2>9 DEF CheckCandidate
    <3>2. QED BY <2>1, <2>3, <2>4, <2>7, <2>9, <3>1 DEF WalksIn
  <2>10. CASE q.candidates # <<>> /\ ~VramAllows(Head(q.candidates))
    <3>1. p.at = "check" /\ p.tier = q.tier /\ p.candidates = Tail(q.candidates)
      BY <1>4, <2>1, <2>2, <2>10 DEF CheckCandidate
    <3>2. LeftOf(Tail(q.candidates), m)
      BY <2>6, <2>10 DEF VramAllows
    <3>3. QED BY <2>1, <2>3, <2>4, <2>7, <3>1, <3>2 DEF WalksIn
  <2>11. QED BY <2>8, <2>9, <2>10
<1>5. CASE FinishRoute \/ RegistryError
  BY <1>1, <1>5 DEF FinishRoute, RegistryError, RouteReturns, Walks
<1>6. CASE RouteEnvironment
  BY <1>6 DEF RouteEnvironment, Walks
<1>7. (ReadTier \/ CheckCandidate) => rtSteady' = rtSteady
  BY DEF ReadTier, CheckCandidate, rtWorld
<1>8. QED BY <1>2, <1>3, <1>4, <1>5, <1>6, <1>7 DEF RouteNext, Walks

LEMMA FinishedServed ==
    ASSUME RouteTyped, rtSteady => Walks, FinishRoute
    PROVE  (BestTierServed /\ ProviderFits)'
<1>1. PICK d, q, s, v : d = rtCatalog /\ d = rtCatalog' /\ q = rtRequest /\ s = Selected /\ v = Override(Selected[1])
  BY DEF FinishRoute, rtWorld
<1>2. PICK r : r = Profile(q.intent, v, ProviderOf(v, s[2]), s[2], v = s[1] /\ q.intent.spec \notin {"coding", "visual"})
  OBVIOUS
<1>3. rtRoute' = {r} /\ rtSteady' = rtSteady /\ q.at \in {"selected", "fallback"} /\ d.present
  <2>1. Gated(v, s[2]) = <<v, s[2]>>
    <3>1. AllowedIn(GateTier, v)
      BY DEF AllowedIn, GateTier
    <3>2. QED BY <3>1 DEF Gated
  <2>2. QED BY <1>1, <1>2, <2>1 DEF FinishRoute, RouteReturns, rtWorld, RouteTyped
<1>4. /\ r.model = v /\ r.tier = s[2] /\ r.provider = ProviderOf(v, s[2]) /\ r.spec = q.intent.spec
      /\ r.walked = (v = s[1] /\ q.intent.spec \notin {"coding", "visual"})
  BY <1>2 DEF Profile
<1>5. /\ DOMAIN TierOrder = 1 .. Len(TierOrder) /\ Len(TierOrder) \in Nat
      /\ \A k \in DOMAIN TierOrder : /\ TierOrder[k] # "openrouter" /\ TierModels(d, k) \in Seq(Range(TierModels(d, k)))
                                     /\ DOMAIN TierModels(d, k) = 1 .. Len(TierModels(d, k))
  BY <1>1, <1>3, TiersAreSequences
<1>6. ASSUME rtSteady, r.walked, NEW k \in DOMAIN TierOrder, NEW i \in DOMAIN TierModels(d, k), IsCloud(TierModels(d, k)[i])
      PROVE  \E j \in 1 .. k : TierOrder[j] = r.tier /\ (j = k => \E h \in 1 .. i : d.tiers[r.tier][h] = r.model)
  <2>1. WalksIn(d, q)
    BY <1>1, <1>6 DEF Walks
  <2>2. ~PassedOver(d, k)
    BY <1>5, <1>6 DEF PassedOver, NoCloud
  <2>3. q.at = "selected"
    BY <1>3, <2>1, <2>2 DEF WalksIn
  <2>4. PICK t, m : t = q.tier /\ m = TierModels(d, q.tier)
    OBVIOUS
  <2>5. t \in DOMAIN TierOrder /\ LeftOf(q.candidates, m) /\ q.candidates # <<>> /\ ~(k < t)
    BY <2>1, <2>2, <2>3, <2>4 DEF WalksIn
  <2>6. s = <<Head(q.candidates), TierOrder[t]>>
    BY <1>1, <2>3, <2>4 DEF Selected
  <2>7. r.tier = TierOrder[t] /\ r.model = Head(q.candidates) /\ d.tiers[r.tier] = m
    BY <1>4, <1>6, <2>4, <2>6 DEF TierModels
  <2>8. m \in Seq(Range(m)) /\ Len(m) \in Nat
    BY <1>5, <2>4, <2>5
  <2>9. PICK n \in 1 .. Len(m) : NoCloud(m, n - 1) /\ m[n] = Head(q.candidates)
    BY <2>5, <2>8, LeftFacts
  <2>10. t \in 1 .. k
    BY <1>5, <2>5
  <2>11. ASSUME t = k PROVE n \in 1 .. i
    <3>1. i \in 1 .. Len(m) /\ IsCloud(m[i])
      BY <1>5, <1>6, <2>4, <2>11
    <3>2. i \notin 1 .. n - 1
      BY <2>9, <3>1 DEF NoCloud
    <3>3. QED BY <2>8, <3>1, <3>2
  <2>12. QED BY <2>7, <2>9, <2>10, <2>11
<1>7. BestTierServed'
  BY <1>1, <1>3, <1>6 DEF BestTierServed, TierModels, IsCloud
<1>8. r.provider = "cloud" <=> IsCloud(r.model)
  BY <1>4 DEF ProviderOf
<1>9. ASSUME rtSteady, r.provider = "openrouter"
      PROVE  Contains(d.router, r.model) \/ r.spec = "coding" \/ (r.spec = "visual" /\ r.model = Primary)
  <2>1. s[2] = "openrouter"
    BY <1>4, <1>9 DEF ProviderOf
  <2>2. q.at # "selected"
    <3>1. SUFFICES ASSUME q.at = "selected" PROVE FALSE
      OBVIOUS
    <3>2. q.tier \in DOMAIN TierOrder /\ s[2] = TierOrder[q.tier]
      BY <1>1, <1>9, <3>1 DEF Walks, WalksIn, Selected
    <3>3. QED BY <1>5, <2>1, <3>2
  <2>3. s = <<Head(d.router), "openrouter">> /\ d.router # <<>>
    BY <1>1, <1>3, <2>1, <2>2 DEF Selected
  <2>4. Contains(d.router, s[1])
    <3>1. d.router \in Seq(Range(d.router))
      BY <1>1, <1>3, RouteAssumption DEF RouteTyped, IsSeq
    <3>2. PICK w, S : w = d.router /\ S = Range(w)
      OBVIOUS
    <3>3. w \in Seq(S) /\ w # <<>>
      BY <2>3, <3>1, <3>2
    <3>4. 1 \in 1 .. Len(w) /\ Head(w) = w[1]
      BY <3>3
    <3>5. QED BY <2>3, <3>2, <3>3, <3>4 DEF Contains
  <2>5. CASE q.intent.spec \notin {"coding", "visual"}
    <3>1. v = s[1]
      BY <1>1, <2>5 DEF Override
    <3>2. QED BY <1>4, <2>4, <3>1
  <2>6. CASE q.intent.spec = "visual"
    <3>1. v = Primary
      BY <1>1, <2>6 DEF Override
    <3>2. QED BY <1>4, <2>6, <3>1
  <2>7. QED BY <1>4, <2>5, <2>6
<1>10. ProviderFits'
  BY <1>1, <1>3, <1>8, <1>9 DEF ProviderFits, IsCloud
<1>11. QED BY <1>7, <1>10

\* Any other profile is of no walk, and of a tier that is not OpenRouter's.
LEMMA UnwalkedServed ==
    ASSUME NEW intent, NEW m, NEW tier, NEW other, tier # "openrouter",
           rtRoute' = {Profile(intent, m, ProviderOf(m, tier), other, FALSE)}
    PROVE  (BestTierServed /\ ProviderFits)'
<1>1. PICK r : r = Profile(intent, m, ProviderOf(m, tier), other, FALSE)
  OBVIOUS
<1>2. r.walked = FALSE /\ r.model = m /\ r.provider = ProviderOf(m, tier)
  BY <1>1 DEF Profile
<1>3. (r.provider = "cloud" <=> IsCloud(r.model)) /\ r.provider # "openrouter"
  BY <1>2 DEF ProviderOf
<1>4. BestTierServed'
  BY <1>1, <1>2 DEF BestTierServed
<1>5. ProviderFits'
  BY <1>1, <1>3 DEF ProviderFits, IsCloud
<1>6. QED BY <1>4, <1>5

LEMMA RoutesStay ==
    ASSUME RouteInv, RouteNext
    PROVE  (BestTierServed /\ ProviderFits)'
<1>1. CASE rtRoute' = {}
  BY <1>1 DEF BestTierServed, ProviderFits
<1>2. ASSUME NEW intent, rtRoute' = {Legacy(intent)} PROVE (BestTierServed /\ ProviderFits)'
  BY <1>2, UnwalkedServed DEF Legacy
<1>3. ASSUME NEW intent, NEW complexity, RouteRequest(intent, complexity) PROVE (BestTierServed /\ ProviderFits)'
  <2>1. CASE \E m : rtRoute' = {Profile(intent, m, ProviderOf(m, "S"), IF complexity = "low" THEN "slm" ELSE "S", FALSE)}
    BY <2>1, UnwalkedServed
  <2>2. QED BY <1>1, <1>2, <1>3, <2>1 DEF RouteRequest, RouteReturns
<1>4. CASE FinishRoute
  BY <1>4, FinishedServed DEF RouteInv
<1>5. CASE RegistryError
  BY <1>2, <1>5 DEF RegistryError, RouteReturns
<1>6. CASE UNCHANGED <<rtRoute, rtCatalog, rtSteady>>
  BY <1>6 DEF RouteInv, BestTierServed, ProviderFits, IsCloud
<1>7. CASE rtRoute' = rtRoute /\ rtSteady' = FALSE
  <2>1. BestTierServed'
    BY <1>7 DEF BestTierServed
  <2>2. ProviderFits'
    BY <1>7 DEF RouteInv, ProviderFits, IsCloud
  <2>3. QED BY <2>1, <2>2
<1>8. QED BY <1>3, <1>4, <1>5, <1>6, <1>7 DEF RouteNext, ReadTier, CheckCandidate, RouteEnvironment, rtWorld

LEMMA RouteStarts ==
    ASSUME RouteInit
    PROVE  RouteInv
<1>1. RouteTyped
  BY DEF RouteInit, RouteTyped, NoRequest
<1>2. AnswersDated
  <2>2. HostsAnswer(rtLoad) = TRUE
    BY DEF RouteInit, HostsAnswer
  <2>3. VramTtl \in Nat
    BY RouteAssumption
  <2>4. /\ rtNow = 0 /\ rtCache.expires = 0 /\ rtCache.result = TRUE /\ rtLast \in [BOOLEAN -> Int]
        /\ rtLast[TRUE] = 0 /\ rtLast[FALSE] = -1 - VramTtl
    BY <2>3 DEF RouteInit
  <2>5. rtLast[HostsAnswer(rtLoad)] = rtNow
    BY <2>2, <2>4, Zenon
  <2>6. rtCache.result \in BOOLEAN /\ \A c \in BOOLEAN : rtLast[c] <= rtNow
    <3>1. rtLast[TRUE] <= rtNow /\ rtLast[FALSE] <= rtNow
      BY <2>3, <2>4
    <3>2. \A c \in BOOLEAN : c = TRUE \/ c = FALSE
      OBVIOUS
    <3>3. QED BY <2>4, <3>1, <3>2, Zenon
  <2>7. QED BY <2>4, <2>5, <2>6 DEF AnswersDated
<1>3. Walks
  BY DEF RouteInit, Walks, WalksIn, NoRequest
<1>4. BestTierServed /\ ProviderFits
  BY DEF RouteInit, BestTierServed, ProviderFits
<1>5. QED BY <1>1, <1>2, <1>3, <1>4 DEF RouteInv

LEMMA RouteInvStays ==
    ASSUME RouteInv, [RouteNext]_rtVars
    PROVE  RouteInv'
<1>1. CASE RouteNext
  BY <1>1, RouteTypedStays, AnswersDatedStay, WalksStay, RoutesStay DEF RouteInv
<1>2. CASE UNCHANGED rtVars
  <2>1. UNCHANGED <<rtNow, rtLoad, rtCatalog, rtCache, rtRequest, rtRoute, rtLast, rtSteady>>
    BY <1>2 DEF rtVars
  <2>2. RouteTyped' /\ Walks' = Walks
    BY <2>1 DEF RouteInv, RouteTyped, Walks
  <2>3. AnswersDated'
    BY <2>1 DEF RouteInv, AnswersDated, HostsAnswer
  <2>4. BestTierServed' /\ ProviderFits'
    BY <2>1 DEF RouteInv, BestTierServed, ProviderFits, IsCloud
  <2>5. QED BY <2>1, <2>2, <2>3, <2>4 DEF RouteInv
<1>3. QED BY <1>1, <1>2

\* A candidate is answered for by the hosts, now or less than a TTL ago.
LEMMA AnswersAreFresh ==
    ASSUME RouteInv, RouteNext, rtRequest.at = "check", rtRequest.candidates # <<>>, rtRequest' # rtRequest,
           ~IsCloud(Head(rtRequest.candidates))
    PROVE  rtNow - rtLast[rtRequest'.at = "selected"] < VramTtl
<1>0. VramTtl \in Nat /\ VramTtl > 0 /\ AnswersDated
  BY RouteAssumption DEF RouteInv
<1>1. CheckCandidate
  BY DEF RouteNext, RouteRequest, ReadTier, FinishRoute, RegistryError, RouteEnvironment
<1>2. PICK b \in BOOLEAN : b = VramAllows(Head(rtRequest.candidates))
  BY <1>0 DEF VramAllows, HostsAnswer, AnswersDated, IsCloud, Cached
<1>3. (rtRequest'.at = "selected") = b
  <2>1. rtRequest' = IF b THEN [rtRequest EXCEPT !.at = "selected"] ELSE [rtRequest EXCEPT !.candidates = Tail(@)]
    BY <1>1, <1>2 DEF CheckCandidate
  <2>2. rtRequest'.at = IF b THEN "selected" ELSE "check"
    BY <2>1 DEF RouteInv, RouteTyped
  <2>3. QED BY <2>2
<1>4. CASE Cached
  <2>1. b = rtCache.result
    <3>1. VramAllows(Head(rtRequest.candidates)) <=> rtCache.result
      BY <1>4 DEF VramAllows
    <3>2. QED BY <1>0, <1>2, <3>1 DEF AnswersDated
  <2>2. QED BY <1>0, <1>3, <1>4, <2>1 DEF Cached, AnswersDated
<1>5. CASE ~Cached
  <2>1. b = HostsAnswer(rtLoad)
    <3>1. VramAllows(Head(rtRequest.candidates)) <=> HostsAnswer(rtLoad)
      BY <1>5 DEF VramAllows
    <3>2. HostsAnswer(rtLoad) \in BOOLEAN
      BY DEF HostsAnswer
    <3>3. QED BY <1>2, <3>1, <3>2
  <2>2. QED BY <1>0, <1>3, <2>1 DEF AnswersDated
<1>6. QED BY <1>4, <1>5

(* What a caller of the router may rely on: the best tier, a provider that fits, and
   an answer of the hosts no older than the TTL (route_request). *)
THEOREM RoutesSound == RouteSpec => RoutesAreSound
<1>1. RouteInit => RouteInv
  BY RouteStarts
<1>2. RouteInv /\ [RouteNext]_rtVars => RouteInv'
  BY RouteInvStays
<1>3. RouteInv => BestTierServed /\ ProviderFits
  BY DEF RouteInv
<1>4. RouteInv /\ [RouteNext]_rtVars =>
        [rtRequest.at = "check" /\ rtRequest.candidates # <<>> /\ rtRequest' # rtRequest =>
           \/ IsCloud(Head(rtRequest.candidates))
           \/ rtNow - rtLast[rtRequest'.at = "selected"] < VramTtl]_rtVars
  BY AnswersAreFresh
<1>5. QED BY <1>1, <1>2, <1>3, <1>4, PTL DEF RouteSpec, RoutesAreSound, StaleWithinTtl

=============================================================================
