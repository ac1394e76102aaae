---------------------------- MODULE IntentProofs ----------------------------
(***************************************************************************)
(* Theorems about IntentSystem for every value of its constants: what runs *)
(* was admitted, and the gateway, the sidecar, the stream and the executor *)
(* together implement IntentDelivery.                                      *)
(***************************************************************************)
EXTENDS IntentSystem, GatewayProofs

GatewayInv == IInv /\ LimitsInv /\ RoutesInv

\* The executor's place in the stream: it runs the entry it was last given, and has
\* run only entries before it.
ExecInv ==
    /\ cursor \in 0 .. Len(stream)
    /\ proc = "executing" => entry = cursor /\ entry > 0
                             /\ \A i \in DOMAIN ran : ran[i][1] < entry
    /\ ran \in Seq(Nat \X Exec!Engines)
    /\ \A i \in DOMAIN ran : ran[i][1] \in 1 .. cursor
    /\ \A i, j \in DOMAIN ran : i < j => ran[i][1] < ran[j][1]

SysInv == GatewayInv /\ ExecInv

-----------------------------------------------------------------------------

\* A step of the executor is invisible to the gateway.
LEMMA ExecutorFrame == ExecutorStep => UNCHANGED vars
<1> SUFFICES ASSUME ExecutorStep PROVE UNCHANGED vars
  OBVIOUS
<1>1. UNCHANGED stream
  BY DEF ExecutorStep, Exec!ExecNext, Exec!Start, Exec!Read, Exec!ReadError, Exec!Execute,
     Exec!ExecuteError, Exec!Ack, Exec!Crash
<1>2. QED BY <1>1 DEF ExecutorStep, vars, redisVars, gasVars

\* Seen from the gateway, the system takes its steps.
LEMMA SysStepIsNext == [SysNext]_sysVars => [Next]_vars
BY ExecutorFrame DEF SysNext, GatewayStep, sysVars

\* The gateway's invariants hold of the system.
LEMMA GatewayStepInv == GatewayInv /\ [SysNext]_sysVars => GatewayInv'
BY SysStepIsNext, TypeStep, PipelineStep, StreamStep, NonceStep, StageStep, LeakStep,
   CountedStep, BreakerStep, RoutesStep DEF GatewayInv, IInv, LimitsInv

\* The stream only grows.
LEMMA StreamKept ==
    ASSUME GatewayInv, [SysNext]_sysVars
    PROVE  /\ Len(stream) \in Nat /\ Len(stream') \in Nat /\ Len(stream') >= Len(stream)
           /\ DOMAIN stream = 1 .. Len(stream) /\ DOMAIN stream' = 1 .. Len(stream')
           /\ \A k \in DOMAIN stream : stream'[k] = stream[k]
<1>1. stream \in Seq(Entries)
  BY DEF GatewayInv, IInv, TypeOK
<1>2. CASE UNCHANGED stream
  BY <1>1, <1>2
<1>3. ASSUME NEW r \in Requests, NEW via \in {"dapr", "redis"}, Entry(r, via) \in Entries,
             stream' = Append(stream, Entry(r, via))
      PROVE  /\ Len(stream) \in Nat /\ Len(stream') \in Nat /\ Len(stream') >= Len(stream)
             /\ DOMAIN stream = 1 .. Len(stream) /\ DOMAIN stream' = 1 .. Len(stream')
             /\ \A k \in DOMAIN stream : stream'[k] = stream[k]
  BY <1>1, <1>3
<1>4. QED BY <1>2, <1>3, SysStepIsNext, StreamGrows DEF GatewayInv, IInv

LEMMA ExecStepInv ==
    ASSUME GatewayInv, ExecInv, [SysNext]_sysVars
    PROVE  ExecInv'
<1> USE DEF ExecInv
<1>1. CASE UNCHANGED execVars
  BY <1>1, StreamKept DEF execVars
<1>2. ASSUME ExecutorStep PROVE ExecInv'
  <2> USE NoneAssumption
  <2>1. UNCHANGED stream /\ Len(stream) \in Nat
    BY <1>2, ExecutorFrame, StreamKept DEF vars, redisVars
  <2>2. CASE Exec!Start \/ Exec!ReadError \/ Exec!ExecuteError \/ Exec!Ack \/ Exec!Crash
    BY <2>1, <2>2 DEF Exec!Start, Exec!ReadError, Exec!ExecuteError, Exec!Ack, Exec!Crash
  <2>3. CASE Exec!Read
    <3>1. cursor' = cursor + 1 /\ entry' = cursor + 1 /\ UNCHANGED ran /\ cursor < Len(stream)
      BY <2>3 DEF Exec!Read, Exec!HasNew
    <3>2. \A i \in DOMAIN ran : ran[i][1] \in 1 .. cursor + 1 /\ ran[i][1] < cursor + 1
      BY <2>1
    <3>3. QED BY <2>1, <3>1, <3>2
  <2>4. CASE Exec!Execute
    <3>1. PICK engine \in Exec!Engines : ran' = Append(ran, <<entry, engine>>)
      BY <2>4 DEF Exec!Execute, Exec!EnginesFor, Exec!Engines
    <3>2. entry = cursor /\ entry \in Nat /\ UNCHANGED cursor /\ proc' = "acking"
      BY <2>4, <2>1 DEF Exec!Execute
    <3>3. /\ ran' \in Seq(Nat \X Exec!Engines)
          /\ DOMAIN ran' = DOMAIN ran \cup {Len(ran) + 1}
          /\ \A i \in DOMAIN ran : ran'[i] = ran[i] /\ i \in Nat /\ i < Len(ran) + 1
          /\ ran'[Len(ran) + 1] = <<entry, engine>>
          /\ Len(ran) \in Nat
      BY <3>1, <3>2
    <3>4. /\ ran'[Len(ran) + 1][1] = entry /\ entry \in 1 .. cursor
          /\ \A i \in DOMAIN ran : ran[i][1] < entry
      BY <2>1, <2>4, <3>2, <3>3 DEF Exec!Execute
    <3>5. QED BY <2>1, <3>2, <3>3, <3>4
  <2>5. QED BY <1>2, <2>2, <2>3, <2>4 DEF ExecutorStep, Exec!ExecNext
<1>3. QED BY <1>1, <1>2 DEF SysNext, GatewayStep, sysVars

\* The invariant of the system is inductive.
LEMMA SysInductive == SysSpec => []SysInv
<1>1. SysInit => SysInv
  <2> SUFFICES ASSUME SysInit PROVE SysInv
    OBVIOUS
  <2>1. IInv
    BY InvInit DEF SysInit
  <2>2. LimitsInv /\ RoutesInv
    BY LimitsInit DEF SysInit, Init, RoutesInv
  <2>3. ExecInv
    BY DEF SysInit, Init, Exec!ExecInit, ExecInv
  <2>4. QED BY <2>1, <2>2, <2>3 DEF SysInv, GatewayInv
<1>2. SysInv /\ [SysNext]_sysVars => SysInv'
  BY GatewayStepInv, ExecStepInv DEF SysInv
<1>3. QED BY <1>1, <1>2, PTL DEF SysSpec

\* What runs was admitted (bus.py:212-340 before main.py:265).
THEOREM RunsAdmitted == SysSpec => []RunIsAdmitted
<1>1. SysInv => RunIsAdmitted
  <2> SUFFICES ASSUME SysInv, NEW i \in DOMAIN ran
               PROVE  LET r == stream[ran[i][1]].req
                      IN  /\ claimedAt[r] # -1 /\ job[r].gas > 0
                          /\ job[r].mode = "hlf" => "align" \in gates[r]
    BY DEF RunIsAdmitted
  <2>1. ran[i][1] \in DOMAIN stream
    BY DEF SysInv, GatewayInv, IInv, TypeOK, ExecInv
  <2>2. Claimed(stream[ran[i][1]].req)
    BY <2>1 DEF SysInv, GatewayInv, IInv, StreamInv
  <2>3. QED BY <2>2, LimitsAssumption DEF Claimed, Paid, Admitted, Gates
<1>2. QED BY <1>1, SysInductive, PTL

-----------------------------------------------------------------------------
(* The refinement.  The answers come from ToldInv, the bound on the copies    *)
(* from the two routes, and the bound on the executions from their order.     *)

\* What a client with response c, whose coroutine is at s, can tell.
Given(c, s) ==
    CASE c = "ok202" -> "accepted"
      [] c = "error500" \/ s = "lost" -> "failed"
      [] c = "none" /\ s # "lost" -> "open"
      [] OTHER -> "refused"

LEMMA GivenValues ==
    ASSUME NEW c, NEW s
    PROVE  /\ c = "ok202" /\ s # "lost" => Given(c, s) = "accepted"
           /\ c = "error500" => Given(c, s) = "failed"
           /\ c = "none" /\ s = "lost" => Given(c, s) = "failed"
           /\ c = "none" /\ s # "lost" => Given(c, s) = "open"
           /\ c \notin {"none", "ok202", "error500"} /\ s # "lost" => Given(c, s) = "refused"
BY DEF Given

LEMMA AnswerGiven ==
    \A r : Answer(r) = Given(resp[r], pc[r]) /\ Answer(r)' = Given(resp'[r], pc'[r])
BY DEF Answer, Given

CopiesOf(r) == {k \in DOMAIN stream : stream[k].req = r}
RunsOf(r) == {i \in DOMAIN ran : stream[ran[i][1]].req = r}

\* There are at most two copies, one for each route, and no more executions than
\* copies, for an entry is executed once.
LEMMA Bounds ==
    ASSUME SysInv, NEW r
    PROVE  /\ IsFiniteSet(CopiesOf(r)) /\ IsFiniteSet(RunsOf(r))
           /\ Copies(r) \in 0 .. 2 /\ Runs(r) \in 0 .. Copies(r)
           /\ Copies(r) = Cardinality(CopiesOf(r)) /\ Runs(r) = Cardinality(RunsOf(r))
<1>1. stream \in Seq(Entries) /\ ran \in Seq(Nat \X Exec!Engines)
  BY DEF SysInv, GatewayInv, IInv, TypeOK, ExecInv
<1>2. IsFiniteSet(CopiesOf(r)) /\ Cardinality(CopiesOf(r)) \in Nat
  <2>1. DOMAIN stream = 1 .. Len(stream) /\ Len(stream) \in Nat
    BY <1>1
  <2>2. IsFiniteSet(DOMAIN stream) /\ CopiesOf(r) \in SUBSET DOMAIN stream
    BY <2>1, FS_Interval DEF CopiesOf
  <2>3. QED BY <2>2, FS_Subset, FS_CardinalityType
<1>3. IsFiniteSet(RunsOf(r)) /\ Cardinality(RunsOf(r)) \in Nat
  <2>1. DOMAIN ran = 1 .. Len(ran) /\ Len(ran) \in Nat
    BY <1>1
  <2>2. IsFiniteSet(DOMAIN ran) /\ RunsOf(r) \in SUBSET DOMAIN ran
    BY <2>1, FS_Interval DEF RunsOf
  <2>3. QED BY <2>2, FS_Subset, FS_CardinalityType
<1>4. Cardinality(CopiesOf(r)) <= 2
  <2> DEFINE f == [k \in CopiesOf(r) |-> stream[k].via]
  <2>1. f \in [CopiesOf(r) -> {"dapr", "redis"}]
    <3>1. \A e \in Entries : e.via \in {"dapr", "redis"}
      BY DEF Entries
    <3>2. \A k \in CopiesOf(r) : stream[k] \in Entries
      BY <1>1 DEF CopiesOf
    <3>3. QED BY <3>1, <3>2
  <2>2. \A j, k \in CopiesOf(r) : f[j] = f[k] => j = k
    BY DEF CopiesOf, SysInv, GatewayInv, RoutesInv
  <2>3. f \in Injection(CopiesOf(r), {"dapr", "redis"})
    BY <2>1, <2>2 DEF Injection, IsInjective
  <2>4. IsFiniteSet({"dapr", "redis"}) /\ Cardinality({"dapr", "redis"}) = 2
    <3>1. IsFiniteSet({"dapr"}) /\ Cardinality({"dapr"}) = 1
      BY FS_Singleton
    <3>2. {"dapr"} \cup {"redis"} = {"dapr", "redis"} /\ "redis" \notin {"dapr"}
      OBVIOUS
    <3>3. QED BY <3>1, <3>2, FS_AddElement
  <2>5. QED BY <2>3, <2>4, FS_Injection
<1>5. Cardinality(RunsOf(r)) <= Cardinality(CopiesOf(r))
  <2> DEFINE f == [i \in RunsOf(r) |-> ran[i][1]]
  <2>1. f \in [RunsOf(r) -> CopiesOf(r)]
    BY <1>1 DEF RunsOf, CopiesOf, SysInv, ExecInv
  <2>2. \A i, j \in RunsOf(r) : f[i] = f[j] => i = j
    <3>1. RunsOf(r) \subseteq DOMAIN ran /\ DOMAIN ran \subseteq Nat
      BY <1>1 DEF RunsOf
    <3>2. \A i \in DOMAIN ran : ran[i][1] \in Nat
      BY <1>1
    <3>3. \A i, j \in RunsOf(r) : i < j => ran[i][1] # ran[j][1]
      BY <3>1, <3>2 DEF SysInv, ExecInv
    <3>4. QED BY <3>1, <3>3
  <2>3. f \in Injection(RunsOf(r), CopiesOf(r))
    BY <2>1, <2>2 DEF Injection, IsInjective
  <2>4. QED BY <1>2, <2>3, FS_Injection
<1>6. Copies(r) = Cardinality(CopiesOf(r)) /\ Runs(r) = Cardinality(RunsOf(r))
  BY DEF Copies, Runs, CopiesOf, RunsOf
<1>7. QED BY <1>2, <1>3, <1>4, <1>5, <1>6

BoundsInv == \A r \in Requests : Copies(r) \in 0 .. 2 /\ Runs(r) \in 0 .. Copies(r)

LEMMA BoundsKept == SysInv' => BoundsInv'
<1>1. SysInv => BoundsInv
  BY Bounds DEF BoundsInv
<1>2. QED BY <1>1, PTL

\* An entry of r on the stream is one copy more of r, and of nobody else.
LEMMA CopiesAppend ==
    ASSUME SysInv, SysInv', NEW r \in Requests, NEW via \in {"dapr", "redis"},
           Entry(r, via) \in Entries, stream' = Append(stream, Entry(r, via)), UNCHANGED ran
    PROVE  /\ Copies(r)' = Copies(r) + 1 /\ Copies(r) < 2
           /\ \A q \in Requests \ {r} : Copies(q)' = Copies(q)
           /\ \A q \in Requests : Runs(q)' = Runs(q)
<1>1. /\ stream \in Seq(Entries)
      /\ DOMAIN stream' = DOMAIN stream \cup {Len(stream) + 1}
      /\ \A k \in DOMAIN stream : stream'[k] = stream[k]
      /\ stream'[Len(stream) + 1].req = r
      /\ Len(stream) + 1 \notin DOMAIN stream
  <2>1. stream \in Seq(Entries)
    BY DEF SysInv, GatewayInv, IInv, TypeOK
  <2>2. Entry(r, via).req = r
    BY DEF Entry
  <2>3. QED BY <2>1, <2>2, AppendEntry
<1>2. CopiesOf(r)' = CopiesOf(r) \cup {Len(stream) + 1} /\ Len(stream) + 1 \notin CopiesOf(r)
  BY <1>1 DEF CopiesOf
<1>3. \A q \in Requests \ {r} : Copies(q)' = Copies(q)
  <2>1. \A q \in Requests \ {r} : CopiesOf(q)' = CopiesOf(q)
    BY <1>1 DEF CopiesOf
  <2>2. QED BY <2>1 DEF Copies, CopiesOf
<1>4. \A q \in Requests : Runs(q)' = Runs(q)
  <2>1. \A i \in DOMAIN ran : ran[i][1] \in DOMAIN stream
    BY <1>1 DEF SysInv, ExecInv
  <2>2. \A q \in Requests : RunsOf(q)' = RunsOf(q)
    BY <1>1, <2>1 DEF RunsOf
  <2>3. QED BY <2>2 DEF Runs, RunsOf
<1>5. Copies(r)' = Copies(r) + 1 /\ Copies(r) \in Nat
  <2>1. IsFiniteSet(CopiesOf(r)) /\ Copies(r) = Cardinality(CopiesOf(r)) /\ Copies(r) \in Nat
    BY Bounds
  <2>2. Cardinality(CopiesOf(r)') = Cardinality(CopiesOf(r)) + 1
    BY <1>2, <2>1, FS_AddElement
  <2>3. QED BY <2>1, <2>2 DEF Copies, CopiesOf
<1>6. Copies(r)' \in 0 .. 2
  BY BoundsKept DEF BoundsInv
<1>7. QED BY <1>3, <1>4, <1>5, <1>6

\* An execution is one run more of its entry's request, and of nobody else.
LEMMA RunsAppend ==
    ASSUME SysInv, SysInv', Exec!Execute, UNCHANGED stream
    PROVE  \E r \in Requests :
              /\ Runs(r)' = Runs(r) + 1 /\ Runs(r) < Copies(r)
              /\ \A q \in Requests \ {r} : Runs(q)' = Runs(q)
              /\ \A q \in Requests : Copies(q)' = Copies(q)
<1> USE NoneAssumption
<1>1. /\ stream \in Seq(Entries) /\ ran \in Seq(Nat \X Exec!Engines)
      /\ entry \in DOMAIN stream /\ entry \in Nat
  BY DEF SysInv, GatewayInv, IInv, TypeOK, ExecInv, Exec!Execute
<1>2. PICK own \in Requests : own = stream[entry].req
  <2>1. stream[entry] \in Entries
    BY <1>1
  <2>2. QED BY <2>1 DEF Entries
<1>3. PICK engine \in Exec!Engines : ran' = Append(ran, <<entry, engine>>)
  BY DEF Exec!Execute, Exec!EnginesFor, Exec!Engines
<1>4. /\ DOMAIN ran' = DOMAIN ran \cup {Len(ran) + 1}
      /\ \A i \in DOMAIN ran : ran'[i] = ran[i]
      /\ ran'[Len(ran) + 1] = <<entry, engine>>
      /\ Len(ran) + 1 \notin DOMAIN ran
  BY <1>1, <1>3
<1>5. \A q \in Requests : Copies(q)' = Copies(q)
  BY DEF Copies
<1>6. \A q \in Requests \ {own} : Runs(q)' = Runs(q)
  <2>1. \A q \in Requests \ {own} : RunsOf(q)' = RunsOf(q)
    BY <1>2, <1>4 DEF RunsOf
  <2>2. QED BY <2>1 DEF Runs, RunsOf
<1>7. \A q \in Requests : q = own => RunsOf(q)' = RunsOf(q) \cup {Len(ran) + 1}
  BY <1>2, <1>4 DEF RunsOf
<1>8. \A q \in Requests : q = own => Runs(q)' = Runs(q) + 1 /\ Runs(q) < Copies(q)
  <2> SUFFICES ASSUME NEW q \in Requests, q = own
               PROVE  Runs(q)' = Runs(q) + 1 /\ Runs(q) < Copies(q)
    OBVIOUS
  <2>1. /\ IsFiniteSet(RunsOf(q)) /\ Runs(q) = Cardinality(RunsOf(q)) /\ Runs(q) \in Nat
        /\ Copies(q) \in Nat
    BY Bounds
  <2>2. Len(ran) + 1 \notin RunsOf(q)
    BY <1>4 DEF RunsOf
  <2>3. Cardinality(RunsOf(q)') = Cardinality(RunsOf(q)) + 1
    <3>1. Cardinality(RunsOf(q) \cup {Len(ran) + 1}) = Cardinality(RunsOf(q)) + 1
      BY <2>1, <2>2, FS_AddElement
    <3>2. QED BY <1>7, <3>1
  <2>4. Runs(q)' = Runs(q) + 1
    BY <2>1, <2>3 DEF Runs, RunsOf
  <2>5. Runs(q)' <= Copies(q)'
    BY <2>1, <1>5, BoundsKept DEF BoundsInv
  <2>6. QED BY <1>5, <2>1, <2>4, <2>5
<1>9. /\ Runs(own)' = Runs(own) + 1 /\ Runs(own) < Copies(own)
  BY <1>2, <1>8
<1>10. QED BY <1>2, <1>5, <1>6, <1>9

\* The steps of the abstraction, from what changes for whom.
LEMMA AbstractStep ==
    ASSUME NEW r \in Requests,
           \A q \in Requests \ {r} :
               Answer(q)' = Answer(q) /\ Copies(q)' = Copies(q) /\ Runs(q)' = Runs(q)
    PROVE  /\ Answer(r) = "open" /\ Copies(r) = 0 /\ Answer(r)' = "refused"
              /\ Copies(r)' = Copies(r) /\ Runs(r)' = Runs(r) => Delivery!Refuse(r)
           /\ Answer(r) = "open" /\ Copies(r) > 0 /\ Answer(r)' = "accepted"
              /\ Copies(r)' = Copies(r) /\ Runs(r)' = Runs(r) => Delivery!Accept(r)
           /\ Answer(r) # "refused" /\ Copies(r) < 2 /\ Copies(r)' = Copies(r) + 1
              /\ Runs(r)' = Runs(r)
              /\ \/ Answer(r)' = Answer(r)
                 \/ Answer(r) = "open" /\ Answer(r)' \in {"accepted", "failed"}
              => Delivery!Enqueue(r)
           /\ Runs(r) < Copies(r) /\ Runs(r)' = Runs(r) + 1 /\ Answer(r)' = Answer(r)
              /\ Copies(r)' = Copies(r) => Delivery!Run(r)
<1>1. ASSUME Copies(r)' = Copies(r)
      PROVE  [q \in Requests |-> Copies(q)]' = [q \in Requests |-> Copies(q)]
  BY <1>1
<1>2. ASSUME Runs(r)' = Runs(r)
      PROVE  [q \in Requests |-> Runs(q)]' = [q \in Requests |-> Runs(q)]
  BY <1>2
<1>3. ASSUME Answer(r)' = Answer(r)
      PROVE  [q \in Requests |-> Answer(q)]' = [q \in Requests |-> Answer(q)]
  BY <1>3
<1>4. [q \in Requests |-> Answer(q)]'
        = [[q \in Requests |-> Answer(q)] EXCEPT ![r] = Answer(r)']
  OBVIOUS
<1>5. ASSUME Copies(r)' = Copies(r) + 1
      PROVE  [q \in Requests |-> Copies(q)]'
               = [[q \in Requests |-> Copies(q)] EXCEPT ![r] = @ + 1]
  BY <1>5
<1>6. ASSUME Runs(r)' = Runs(r) + 1
      PROVE  [q \in Requests |-> Runs(q)]'
               = [[q \in Requests |-> Runs(q)] EXCEPT ![r] = @ + 1]
  BY <1>6
<1>7. ASSUME Answer(r) = "open", Copies(r) = 0, Answer(r)' = "refused",
             Copies(r)' = Copies(r), Runs(r)' = Runs(r)
      PROVE  Delivery!Refuse(r)
  BY <1>1, <1>2, <1>4, <1>7 DEF Delivery!Refuse
<1>8. ASSUME Answer(r) = "open", Copies(r) > 0, Answer(r)' = "accepted",
             Copies(r)' = Copies(r), Runs(r)' = Runs(r)
      PROVE  Delivery!Accept(r)
  BY <1>1, <1>2, <1>4, <1>8 DEF Delivery!Accept
<1>9. ASSUME Answer(r) # "refused", Copies(r) < 2, Copies(r)' = Copies(r) + 1,
             Runs(r)' = Runs(r),
             \/ Answer(r)' = Answer(r)
             \/ Answer(r) = "open" /\ Answer(r)' \in {"accepted", "failed"}
      PROVE  Delivery!Enqueue(r)
  BY <1>2, <1>3, <1>4, <1>5, <1>9 DEF Delivery!Enqueue
<1>10. ASSUME Runs(r) < Copies(r), Runs(r)' = Runs(r) + 1, Answer(r)' = Answer(r),
              Copies(r)' = Copies(r)
       PROVE  Delivery!Run(r)
  BY <1>1, <1>3, <1>6, <1>10 DEF Delivery!Run
<1>11. QED BY <1>7, <1>8, <1>9, <1>10

\* A step that changes nothing the client can tell.
LEMMA AbstractStutter ==
    ASSUME \A q \in Requests :
               Answer(q)' = Answer(q) /\ Copies(q)' = Copies(q) /\ Runs(q)' = Runs(q)
    PROVE  UNCHANGED Delivery!vars
BY DEF Delivery!vars

\* A coroutine that runs has not answered yet, and is not lost by it.
LEMMA HandlePlace ==
    ASSUME TypeOK, NEW r \in Requests, Handle(r)
    PROVE  pc[r] \notin {"done", "lost"} /\ pc'[r] # "lost"
<1> USE DEF TypeOK, Goto, Respond
<1>1. CASE CheckHealth(r) \/ CheckBreaker(r) \/ CountRate(r) \/ ExpireRate(r)
  BY <1>1 DEF CheckHealth, CheckBreaker, CountRate, ExpireRate
<1>2. CASE Screen(r)
  BY <1>2 DEF Screen
<1>3. CASE ConsumeGas(r) \/ ClaimNonce(r)
  BY <1>3 DEF ConsumeGas, ClaimNonce
<1>4. CASE Publish(r) \/ DaprOk(r) \/ DaprFail(r) \/ FallbackXadd(r) \/ HandlerError(r)
  BY <1>4 DEF Publish, DaprOk, DaprFail, FallbackXadd, HandlerError
<1>5. QED BY <1>1, <1>2, <1>3, <1>4 DEF Handle

\* What the answer says while the request is open, answered, or lost.
LEMMA AnswerNow ==
    ASSUME SysInv, NEW r \in Requests
    PROVE  /\ pc[r] \notin {"done", "lost"} => Answer(r) = "open"
           /\ Answer(r) = "refused" => Unpublished(r)
<1>1. Told(r)
  BY DEF SysInv, GatewayInv, IInv, ToldInv
<1>2. resp[r] \in Responses
  BY DEF SysInv, GatewayInv, IInv, TypeOK
<1>3. pc[r] # "done" => resp[r] = "none"
  BY <1>1 DEF Told
<1>4. resp[r] = "ok202" => pc[r] # "lost"
  BY <1>3
<1>5. resp[r] \in {"none", "ok202", "error500"} => Answer(r) # "refused"
  BY <1>4, AnswerGiven, GivenValues
<1>6. QED BY <1>1, <1>3, <1>5, AnswerGiven, GivenValues DEF Told

\* Whether there is a copy.
LEMMA QueuedCopies ==
    ASSUME SysInv, NEW r \in Requests
    PROVE  Copies(r) \in Nat /\ (Queued(r) <=> Copies(r) > 0)
<1>1. IsFiniteSet(CopiesOf(r)) /\ Copies(r) = Cardinality(CopiesOf(r)) /\ Copies(r) \in Nat
  BY Bounds
<1>2. Queued(r) <=> CopiesOf(r) # {}
  BY DEF Queued, CopiesOf
<1>3. Copies(r) = 0 <=> CopiesOf(r) = {}
  BY <1>1, FS_EmptySet
<1>4. QED BY <1>1, <1>2, <1>3

\* A coroutine's step is a refusal, an acceptance, a failure, or the copy that the
\* fallback makes and the answer that goes with it.
LEMMA HandleRefines ==
    ASSUME SysInv, SysInv', NEW r \in Requests, Handle(r), UNCHANGED execVars
    PROVE  [Delivery!Next]_(Delivery!vars)
<1>1. TypeOK /\ [Next]_vars /\ ToldInv' /\ TypeOK' /\ UNCHANGED ran
  BY DEF SysInv, GatewayInv, IInv, Next, execVars
<1>2. Answer(r) = "open" /\ pc'[r] # "lost"
  BY <1>1, HandlePlace, AnswerNow
<1>3. \A q \in Requests \ {r} : Answer(q)' = Answer(q)
  BY <1>1, HandleFrame, AnswerGiven
<1>4. CASE ~FallbackXadd(r)
  <2>1. UNCHANGED stream
    BY <1>1, <1>4, HandleFrame
  <2>2. \A q \in Requests : Copies(q)' = Copies(q) /\ Runs(q)' = Runs(q)
    BY <1>1, <2>1 DEF Copies, Runs
  <2>3. (Queued(r)' <=> Queued(r)) /\ Told(r)'
    BY <1>1, <2>1 DEF Queued, ToldInv
  <2>4. CASE resp'[r] = "none"
    <3>1. Answer(r)' = Answer(r)
      BY <1>2, <2>4, AnswerGiven, GivenValues
    <3>2. QED BY <1>3, <2>2, <3>1, AbstractStutter
  <2>5. CASE resp'[r] = "ok202"
    <3>1. Answer(r)' = "accepted"
      BY <1>2, <2>5, AnswerGiven, GivenValues
    <3>2. Copies(r) > 0
      BY <2>3, <2>5, QueuedCopies DEF Told
    <3>3. Delivery!Accept(r)
      BY <1>2, <1>3, <2>2, <3>1, <3>2, AbstractStep
    <3>4. QED BY <3>3 DEF Delivery!Next
  <2>6. CASE resp'[r] = "error500"
    <3>1. Answer(r)' = "failed"
      BY <2>6, AnswerGiven, GivenValues
    <3>2. Delivery!Fail({r})
      BY <1>2, <1>3, <2>2, <3>1 DEF Delivery!Fail
    <3>3. QED BY <3>2 DEF Delivery!Next
  <2>7. CASE resp'[r] \notin {"none", "ok202", "error500"}
    <3>1. Answer(r)' = "refused"
      BY <1>2, <2>7, AnswerGiven, GivenValues
    <3>2. Copies(r) = 0
      BY <2>3, <2>7, QueuedCopies DEF Told, Unpublished
    <3>3. Delivery!Refuse(r)
      BY <1>2, <1>3, <2>2, <3>1, <3>2, AbstractStep
    <3>4. QED BY <3>3 DEF Delivery!Next
  <2>8. QED BY <2>4, <2>5, <2>6, <2>7
<1>5. CASE FallbackXadd(r)
  <2>1. stream' = Append(stream, Entry(r, "redis")) /\ resp'[r] \in {"ok202", "error500"}
    BY <1>1, <1>5 DEF FallbackXadd, Respond, TypeOK
  <2>2. Entry(r, "redis") \in Entries
    <3>1. Claimed(r)
      BY <1>5 DEF FallbackXadd, SysInv, GatewayInv, IInv, PipelineInv, Pipeline
    <3>2. QED BY <3>1, PayloadsAssumption DEF Claimed, Paid, Admitted, Entry, Entries
  <2>3. Answer(r)' \in {"accepted", "failed"}
    BY <1>2, <2>1, AnswerGiven, GivenValues
  <2>4. Delivery!Enqueue(r)
    BY <1>1, <1>2, <1>3, <2>1, <2>2, <2>3, CopiesAppend, AbstractStep
  <2>5. QED BY <2>4 DEF Delivery!Next
<1>6. QED BY <1>4, <1>5

\* The sidecar's late copy.
LEMMA SidecarRefines ==
    ASSUME SysInv, SysInv', NEW r \in Requests, SidecarPublish(r), UNCHANGED execVars
    PROVE  Delivery!Enqueue(r)
<1>1. stream' = Append(stream, Entry(r, "dapr")) /\ UNCHANGED <<pc, resp, ran>>
  BY DEF SidecarPublish, reqVars, execVars
<1>2. Entry(r, "dapr") \in Entries
  <2>1. Claimed(r)
    BY DEF SidecarPublish, SysInv, GatewayInv, IInv, PipelineInv, Pipeline
  <2>2. QED BY <2>1, PayloadsAssumption DEF Claimed, Paid, Admitted, Entry, Entries
<1>3. \A q \in Requests : Answer(q)' = Answer(q)
  BY <1>1, AnswerGiven
<1>4. Answer(r) # "refused"
  BY AnswerNow DEF Unpublished, SidecarPublish
<1>5. QED BY <1>1, <1>2, <1>3, <1>4, CopiesAppend, AbstractStep

\* A restart of the gateway ends the open requests.
LEMMA RestartRefines ==
    ASSUME SysInv, Restart, UNCHANGED execVars
    PROVE  Delivery!Fail({r \in Requests : pc[r] \in InFlight})
<1> DEFINE S == {r \in Requests : pc[r] \in InFlight}
<1>1. /\ \A q \in Requests : pc'[q] = (IF q \in S THEN "lost" ELSE pc[q])
      /\ UNCHANGED <<resp, stream, ran>>
  BY DEF Restart, reqVars, redisVars, execVars
<1>2. \A q \in Requests : Copies(q)' = Copies(q) /\ Runs(q)' = Runs(q)
  BY <1>1 DEF Copies, Runs
<1>3. \A q \in S : Answer(q) = "open" /\ Answer(q)' = "failed"
  <2> SUFFICES ASSUME NEW q \in S PROVE Answer(q) = "open" /\ Answer(q)' = "failed"
    OBVIOUS
  <2>1. pc[q] \notin {"done", "lost"} /\ pc'[q] = "lost"
    BY <1>1 DEF InFlight
  <2>2. resp[q] = "none"
    BY <2>1 DEF SysInv, GatewayInv, IInv, ToldInv, Told
  <2>3. QED BY <1>1, <2>1, <2>2, AnswerNow, AnswerGiven, GivenValues
<1>4. \A q \in Requests \ S : Answer(q)' = Answer(q)
  BY <1>1, AnswerGiven
<1>5. QED BY <1>2, <1>3, <1>4 DEF Delivery!Fail

\* Every step of the system is a step of the abstraction, or invisible in it.
LEMMA StepRefines ==
    SysInv /\ SysInv' /\ [SysNext]_sysVars => [Delivery!Next]_(Delivery!vars)
<1> SUFFICES ASSUME SysInv, SysInv', [SysNext]_sysVars
             PROVE  [Delivery!Next]_(Delivery!vars)
  OBVIOUS
<1>1. ASSUME UNCHANGED <<resp, stream, ran>>,
             \A q \in Requests : pc'[q] = pc[q] \/ {pc[q], pc'[q]} = {"idle", "health"}
      PROVE  UNCHANGED Delivery!vars
  <2>1. \A q \in Requests : Copies(q)' = Copies(q) /\ Runs(q)' = Runs(q)
    BY <1>1 DEF Copies, Runs
  <2>2. \A q \in Requests : Answer(q)' = Answer(q)
    BY <1>1, AnswerGiven DEF Given
  <2>3. QED BY <2>1, <2>2, AbstractStutter
<1>2. ASSUME UNCHANGED execVars, NEW r \in Requests, Arrive(r) \/ Handle(r) \/ Sidecar(r)
      PROVE  [Delivery!Next]_(Delivery!vars)
  <2>1. CASE Handle(r)
    BY <1>2, <2>1, HandleRefines
  <2>2. CASE SidecarPublish(r)
    BY <1>2, <2>2, SidecarRefines DEF Delivery!Next
  <2>3. CASE Arrive(r)
    <3>1. UNCHANGED <<resp, stream, ran>>
      BY <1>2, <2>3 DEF Arrive, reqVars, redisVars, execVars
    <3>2. \A q \in Requests : pc'[q] = pc[q] \/ {pc[q], pc'[q]} = {"idle", "health"}
      BY <2>3 DEF Arrive, Goto, SysInv, GatewayInv, IInv, TypeOK
    <3>3. QED BY <1>1, <3>1, <3>2
  <2>4. CASE SidecarDrop(r)
    BY <1>1, <1>2, <2>4 DEF SidecarDrop, reqVars, redisVars, execVars
  <2>5. QED BY <1>2, <2>1, <2>2, <2>3, <2>4 DEF Sidecar
<1>3. ASSUME UNCHANGED execVars, Environment PROVE [Delivery!Next]_(Delivery!vars)
  <2>1. CASE Restart
    <3>1. {r \in Requests : pc[r] \in InFlight} \in SUBSET Requests
      OBVIOUS
    <3>2. QED BY <1>3, <2>1, <3>1, RestartRefines DEF Delivery!Next
  <2>2. CASE Tick \/ HealthFlag \/ ReplenishGas \/ ExpireGas
    BY <1>1, <1>3, <2>2 DEF Tick, HealthFlag, ReplenishGas, ExpireGas, reqVars, redisVars,
       execVars
  <2>3. QED BY <1>3, <2>1, <2>2 DEF Environment
<1>4. ASSUME ExecutorStep PROVE [Delivery!Next]_(Delivery!vars)
  <2>1. UNCHANGED <<pc, resp, stream>>
    BY <1>4, ExecutorFrame DEF vars, reqVars, redisVars
  <2>2. CASE Exec!Execute
    <3>1. PICK r \in Requests :
              /\ Runs(r)' = Runs(r) + 1 /\ Runs(r) < Copies(r)
              /\ \A q \in Requests \ {r} : Runs(q)' = Runs(q)
              /\ \A q \in Requests : Copies(q)' = Copies(q)
      BY <2>1, <2>2, RunsAppend
    <3>2. \A q \in Requests : Answer(q)' = Answer(q)
      BY <2>1, AnswerGiven
    <3>3. Delivery!Run(r)
      BY <3>1, <3>2, AbstractStep
    <3>4. QED BY <3>3 DEF Delivery!Next
  <2>3. CASE UNCHANGED ran
    BY <1>1, <2>1, <2>3
  <2>4. QED BY <1>4, <2>2, <2>3 DEF ExecutorStep, Exec!ExecNext, Exec!Start, Exec!Read,
        Exec!ReadError, Exec!ExecuteError, Exec!Ack, Exec!Crash
<1>5. CASE UNCHANGED sysVars
  BY <1>1, <1>5 DEF sysVars, vars, reqVars, redisVars, execVars
<1>6. QED BY <1>2, <1>3, <1>4, <1>5 DEF SysNext, GatewayStep, Next

\* The gateway, the sidecar, the stream and the executor, with restarts and crashes of
\* both processes, keep what IntentDelivery promises (bus.py:212-382, main.py:361-403).
THEOREM DeliveryImplemented == SysSpec => ImplementsDelivery
<1>1. SysInit => Delivery!Init
  <2> SUFFICES ASSUME SysInit PROVE Delivery!Init
    OBVIOUS
  <2>1. \A r \in Requests : Answer(r) = "open"
    BY AnswerGiven, GivenValues DEF SysInit, Init
  <2>2. \A r \in Requests : CopiesOf(r) = {} /\ RunsOf(r) = {}
    BY DEF SysInit, Init, Exec!ExecInit, CopiesOf, RunsOf
  <2>3. \A r \in Requests : Copies(r) = 0 /\ Runs(r) = 0
    BY <2>2, FS_EmptySet DEF Copies, Runs, CopiesOf, RunsOf
  <2>4. QED BY <2>1, <2>3 DEF Delivery!Init
<1>2. QED BY <1>1, SysInductive, StepRefines, PTL DEF SysSpec, ImplementsDelivery, Delivery!Spec

=============================================================================
