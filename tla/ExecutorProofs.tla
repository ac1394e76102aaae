--------------------------- MODULE ExecutorProofs ---------------------------
(***************************************************************************)
(* Theorems about Executor for any number of entries, crashes, failures    *)
(* and lost acknowledgements: an acknowledged entry was executed, and the  *)
(* executions are in stream order and never repeated.  Then about the      *)
(* dispatchers, the daemons' cascades and alerts, the arbiter and the      *)
(* monitors.                                                               *)
(***************************************************************************)
EXTENDS Executor, Dispatchers, Daemons, Monitors, InductionLemmas, SequenceTheorems, TLAPS

\* The executor holds an entry exactly while it executes or acknowledges it; it is
\* the last one delivered, and pending.
Hand ==
    /\ proc \in {"executing", "acking"} <=> entry # None
    /\ entry # None => entry = cursor /\ entry \in pel

\* An entry has run before it is acknowledged, and not before it is executed.
Progress ==
    /\ proc = "acking" => \E i \in DOMAIN ran : ran[i][1] = entry
    /\ proc = "executing" => \A i \in DOMAIN ran : ran[i][1] < entry

IInv == ExecTypeOK /\ Hand /\ Progress /\ AckedWasRun /\ RunsInOrderOnce

-----------------------------------------------------------------------------

\* An execution is recorded behind the earlier ones.
LEMMA AppendRun ==
    ASSUME NEW S, NEW s \in Seq(S), NEW x \in S
    PROVE  /\ Append(s, x) \in Seq(S)
           /\ DOMAIN Append(s, x) = DOMAIN s \cup {Len(s) + 1}
           /\ \A i \in DOMAIN s : Append(s, x)[i] = s[i]
           /\ Append(s, x)[Len(s) + 1] = x
           /\ \A i \in DOMAIN s : i \in Nat /\ i < Len(s) + 1
OBVIOUS

\* A delivery leaves the earlier executions within the delivered entries.
LEMMA WiderRuns ==
    ASSUME cursor \in Nat, ran \in Seq((1 .. cursor) \X Engines)
    PROVE  ran \in Seq((1 .. cursor + 1) \X Engines)
<1>1. (1 .. cursor) \X Engines \subseteq (1 .. cursor + 1) \X Engines
  OBVIOUS
<1>2. ran \in [1 .. Len(ran) -> (1 .. cursor) \X Engines] /\ Len(ran) \in Nat
  OBVIOUS
<1>3. ran \in [1 .. Len(ran) -> (1 .. cursor + 1) \X Engines]
  BY <1>1, <1>2
<1>4. QED BY <1>2, <1>3

\* The invariant holds initially.
LEMMA InvInit == Init => IInv
BY ExecNoneAssumption
   DEF Init, ExecInit, IInv, ExecTypeOK, Hand, Progress, AckedWasRun, RunsInOrderOnce

\* Every step keeps the invariant.
LEMMA InvStep == IInv /\ [Next]_vars => IInv'
<1> SUFFICES ASSUME IInv, [Next]_vars PROVE IInv'
  OBVIOUS
<1> USE ExecNoneAssumption DEF IInv, ExecTypeOK, Hand, Progress, AckedWasRun, RunsInOrderOnce
<1>1. CASE Produce
  <2>1. PICK m \in EntryModes : stream' = Append(stream, [mode |-> m])
    BY <1>1 DEF Produce
  <2>2. stream' \in Seq([mode: EntryModes]) /\ Len(stream') = Len(stream) + 1
    BY <2>1
  <2>3. cursor' \in 0 .. Len(stream')
    BY <1>1, <2>2 DEF Produce, execVars
  <2>4. QED BY <1>1, <2>2, <2>3 DEF Produce, execVars
<1>2. CASE Start \/ ReadError
  BY <1>2 DEF Start, ReadError
<1>3. CASE Read
  <2>1. /\ cursor' = cursor + 1 /\ entry' = cursor + 1 /\ proc' = "executing"
        /\ pel' = pel \cup {cursor + 1} /\ UNCHANGED <<stream, ran>>
    BY <1>3 DEF Read, Pending
  <2>2. ran \in Seq((1 .. cursor + 1) \X Engines)
    BY WiderRuns
  <2>3. ExecTypeOK'
    <3>1. cursor + 1 \in 1 .. Len(stream) /\ Len(stream) \in Nat
      BY <1>3 DEF Read, HasNew
    <3>2. cursor' \in 0 .. Len(stream') /\ entry' \in 1 .. cursor'
      BY <2>1, <3>1
    <3>3. pel' \subseteq 1 .. cursor'
      BY <2>1, <3>1
    <3>4. stream' \in Seq([mode: EntryModes]) /\ ran' \in Seq((1 .. cursor') \X Engines)
      BY <2>1, <2>2
    <3>5. QED BY <2>1, <3>2, <3>3, <3>4
  <2>4. \A i \in DOMAIN ran : ran[i][1] \in 1 .. cursor
    OBVIOUS
  <2>5. QED BY <2>1, <2>3, <2>4
<1>4. CASE Execute
  <2>1. PICK engine \in Engines : ran' = Append(ran, <<entry, engine>>)
    BY <1>4 DEF Execute, EnginesFor, Engines
  <2>2. <<entry, engine>> \in (1 .. cursor) \X Engines
    BY <1>4 DEF Execute
  <2>3. /\ UNCHANGED <<stream, cursor, pel, entry>> /\ proc' = "acking"
        /\ entry = cursor /\ entry \in Nat
    BY <1>4 DEF Execute
  <2>4. /\ ran' \in Seq((1 .. cursor) \X Engines)
        /\ DOMAIN ran' = DOMAIN ran \cup {Len(ran) + 1}
        /\ \A i \in DOMAIN ran : ran'[i] = ran[i]
        /\ ran'[Len(ran) + 1][1] = entry
        /\ \A i \in DOMAIN ran : i < Len(ran) + 1
        /\ DOMAIN ran' \subseteq Nat
    BY <2>1, <2>2, AppendRun
  <2>5. ExecTypeOK' /\ Hand'
    BY <1>4, <2>3, <2>4 DEF Execute
  <2>6. Progress' /\ AckedWasRun'
    BY <2>3, <2>4
  <2>7. RunsInOrderOnce'
    <3>1. \A i \in DOMAIN ran : ran[i][1] < entry /\ ran[i][1] \in Nat
      BY <1>4 DEF Execute
    <3>2. QED BY <2>3, <2>4, <3>1
  <2>8. QED BY <2>5, <2>6, <2>7
<1>5. CASE ExecuteError
  BY <1>5 DEF ExecuteError
<1>6. CASE Ack
  BY <1>6 DEF Ack
<1>7. CASE Crash
  BY <1>7 DEF Crash
<1>8. CASE UNCHANGED vars
  BY <1>8 DEF vars, execVars
<1>9. QED BY <1>1, <1>2, <1>3, <1>4, <1>5, <1>6, <1>7, <1>8 DEF Next, ExecNext

\* The invariant is inductive.
LEMMA Inductive == Spec => []IInv
BY InvInit, InvStep, PTL DEF Spec

\* What the group no longer holds as pending was executed (main.py:389-398).
THEOREM AckedRan == Spec => []AckedWasRun
<1>1. IInv => AckedWasRun
  BY DEF IInv
<1>2. QED BY <1>1, Inductive, PTL

\* Executions follow the stream and never repeat an entry (main.py:378).
THEOREM RunsOrdered == Spec => []RunsInOrderOnce
<1>1. IInv => RunsInOrderOnce
  BY DEF IInv
<1>2. QED BY <1>1, Inductive, PTL

-----------------------------------------------------------------------------
(* The host function dispatcher. *)

HostCalls ==
  [at : {"idle", "refused", "called", "raised"}, b : Backends \cup {"none"}, read : Nat]
HostTyped ==
  /\ hfNow \in Nat /\ hfFails \in [Backends -> Nat] /\ hfReset \in [Backends -> Nat]
  /\ hfRaised \in [Backends -> Nat] /\ hfLast \in [Backends -> Nat]
  /\ hfCall \in [Threads -> HostCalls]

\* A call in the except branch: its backend can raise, did so at this time, and one more
\* than it read is not more than the exceptions there were.
Counts(call) ==
  /\ call.at # "idle" => call.b \in Backends
  /\ call.at = "raised" =>
       /\ call.b # "docker_orchestrator" /\ hfLast[call.b] = hfNow
       /\ call.read < hfRaised[call.b] \/ CbThreshold <= hfRaised[call.b]

HostInv ==
  /\ HostTyped /\ RefusalsEnd /\ ErrorTextIsSuccess
  /\ \A b \in Backends : hfFails[b] <= hfRaised[b] /\ hfLast[b] <= hfNow
  /\ \A t \in Threads : Counts(hfCall[t])

LEMMA HostStarts == HostInit => HostInv
BY TimeoutAssumption
   DEF HostInit, HostInv, HostTyped, HostCalls, NotCalling, Counts, RefusalsEnd, ErrorTextIsSuccess

\* The backend without exceptions.
LEMMA OnlyText == ASSUME NEW c PROVE "raises" \notin Outcome("docker_orchestrator", c)
BY DEF Outcome, DockerOrchestrator

LEMMA HostCallStep ==
    ASSUME HostInv, NEW t \in Threads, NEW call \in HostCalls, hfCall' = [hfCall EXCEPT ![t] = call]
    PROVE  /\ hfCall' \in [Threads -> HostCalls] /\ hfCall'[t] = call
           /\ \A u \in Threads : u # t => hfCall'[u] = hfCall[u]
BY DEF HostInv, HostTyped

LEMMA DispatchKeeps == ASSUME HostInv, NEW t \in Threads, NEW b \in Backends, Dispatch(t, b) PROVE HostInv'
<1> DEFINE halfOpen == hfFails[b] >= CbThreshold /\ hfNow >= hfReset[b]
<1>1. PICK at \in {"refused", "called"} :
        hfCall' = [hfCall EXCEPT ![t] = [at |-> at, b |-> b, read |-> 0]]
  <2>1. hfCall' = [hfCall EXCEPT ![t] =
          [at |-> IF hfFails[b] >= CbThreshold /\ ~halfOpen THEN "refused" ELSE "called", b |-> b, read |-> 0]]
    BY DEF Dispatch
  <2>2. QED BY <2>1
<1>2. /\ hfFails' = (IF halfOpen THEN [hfFails EXCEPT ![b] = 0] ELSE hfFails)
      /\ hfRaised' = (IF halfOpen /\ ~BeingCounted(b) THEN [hfRaised EXCEPT ![b] = 0] ELSE hfRaised)
      /\ UNCHANGED <<hfNow, hfReset, hfLast>>
  BY DEF Dispatch
<1> HIDE DEF halfOpen
<1>3. HostTyped /\ \A a \in Backends : hfFails[a] <= hfRaised[a] /\ hfLast[a] <= hfNow
  BY DEF HostInv
<1>4. PICK call \in HostCalls : call.at = at /\ call.b = b /\ hfCall' = [hfCall EXCEPT ![t] = call]
  <2> DEFINE call == [at |-> at, b |-> b, read |-> 0]
  <2>1. call \in HostCalls /\ call.at = at /\ call.b = b
    BY DEF HostCalls
  <2>2. QED BY <1>1, <2>1
<1>5. /\ hfCall' \in [Threads -> HostCalls] /\ hfCall'[t] = call
      /\ \A u \in Threads : u # t => hfCall'[u] = hfCall[u]
  BY <1>4, HostCallStep
<1>6. /\ hfFails' \in [Backends -> Nat] /\ hfRaised' \in [Backends -> Nat]
      /\ \A a \in Backends : hfFails'[a] <= hfRaised'[a] /\ hfFails'[a] <= hfFails[a]
  BY <1>2, <1>3 DEF HostTyped
<1>7. ASSUME NEW u \in Threads PROVE Counts(hfCall[u])'
  <2>1. CASE u = t
    BY <1>1, <1>4, <1>5, <2>1 DEF Counts
  <2>2. CASE u # t
    <3>1. PICK other \in HostCalls : other = hfCall[u] /\ other = hfCall'[u] /\ Counts(other)
      BY <1>3, <1>5, <2>2 DEF HostInv, HostTyped
    <3>2. other.at = "raised" => hfRaised'[other.b] = hfRaised[other.b]
      <4>1. ASSUME other.at = "raised", other.b = b PROVE BeingCounted(b)
        BY <3>1, <4>1 DEF BeingCounted, AtCall
      <4>2. other.at = "raised" => other.b \in Backends
        BY <3>1 DEF Counts
      <4>3. QED BY <1>2, <1>3, <4>1, <4>2 DEF HostTyped
    <3>3. Counts(other)'
      BY <1>2, <3>1, <3>2 DEF Counts
    <3>4. QED BY <3>1, <3>3 DEF Counts
  <2>3. QED BY <2>1, <2>2
<1>8. ErrorTextIsSuccess'
  BY <1>2, <1>3, <1>6 DEF HostInv, HostTyped, ErrorTextIsSuccess
<1>9. QED BY <1>2, <1>3, <1>5, <1>6, <1>7, <1>8 DEF HostInv, HostTyped, RefusalsEnd

LEMMA RefusedKeeps == ASSUME HostInv, NEW t \in Threads, Refused(t) PROVE HostInv'
<1>1. hfCall' = [hfCall EXCEPT ![t].at = "idle"] /\ UNCHANGED <<hfNow, hfFails, hfReset, hfRaised, hfLast>>
  BY DEF Refused, RefusalRaises, Goto
<1>2. PICK call \in HostCalls : call.at = "idle" /\ hfCall' = [hfCall EXCEPT ![t] = call]
  <2>1. PICK old \in HostCalls : old = hfCall[t]
    BY DEF HostInv, HostTyped
  <2>2. [old EXCEPT !.at = "idle"] \in HostCalls /\ [old EXCEPT !.at = "idle"].at = "idle"
    BY DEF HostCalls
  <2>3. hfCall' = [hfCall EXCEPT ![t] = [old EXCEPT !.at = "idle"]]
    BY <1>1, <2>1
  <2>4. QED BY <2>2, <2>3
<1>3. /\ hfCall' \in [Threads -> HostCalls] /\ hfCall'[t] = call
      /\ \A u \in Threads : u # t => hfCall'[u] = hfCall[u]
  BY <1>2, HostCallStep
<1>4. QED BY <1>1, <1>2, <1>3 DEF HostInv, HostTyped, RefusalsEnd, ErrorTextIsSuccess, Counts

LEMMA BackendAnswersKeeps == ASSUME HostInv, NEW t \in Threads, NEW c, BackendAnswers(t, c) PROVE HostInv'
<1>1. PICK old \in HostCalls : old = hfCall[t]
  BY DEF HostInv, HostTyped
<1>2. /\ old.at = "called" /\ hfCall' = [hfCall EXCEPT ![t] = [old EXCEPT !.at = "idle"]]
      /\ hfFails' = [hfFails EXCEPT ![old.b] = 0] /\ UNCHANGED <<hfNow, hfReset, hfRaised, hfLast>>
  BY <1>1 DEF BackendAnswers, AtCall, Goto
<1>3. PICK call \in HostCalls : call.at = "idle" /\ hfCall' = [hfCall EXCEPT ![t] = call]
  <2>1. [old EXCEPT !.at = "idle"] \in HostCalls /\ [old EXCEPT !.at = "idle"].at = "idle"
    BY DEF HostCalls
  <2>2. QED BY <1>2, <2>1
<1>4. /\ hfCall' \in [Threads -> HostCalls] /\ hfCall'[t] = call
      /\ \A u \in Threads : u # t => hfCall'[u] = hfCall[u]
  BY <1>3, HostCallStep
<1>5. HostTyped /\ \A b \in Backends : hfFails[b] <= hfRaised[b] /\ hfLast[b] <= hfNow
  BY DEF HostInv
<1>6. /\ hfFails' \in [Backends -> Nat]
      /\ \A b \in Backends : hfFails'[b] <= hfRaised[b] /\ hfFails'[b] <= hfFails[b]
  <2>1. hfFails \in [Backends -> Nat] /\ hfRaised \in [Backends -> Nat]
    BY <1>5 DEF HostTyped
  <2>2. PICK name : hfFails' = [hfFails EXCEPT ![name] = 0]
    BY <1>2
  <2>3. hfFails' \in [Backends -> Nat] /\ \A b \in Backends : hfFails'[b] \in {0, hfFails[b]}
    BY <2>1, <2>2
  <2>4. QED BY <1>5, <2>1, <2>3
<1>7. ErrorTextIsSuccess'
  BY <1>5, <1>6 DEF HostInv, HostTyped, ErrorTextIsSuccess
<1>8. QED BY <1>2, <1>3, <1>4, <1>6, <1>7 DEF HostInv, HostTyped, RefusalsEnd, Counts

LEMMA BackendRaisesKeeps == ASSUME HostInv, NEW t \in Threads, NEW c, BackendRaises(t, c) PROVE HostInv'
<1>1. PICK old \in HostCalls : old = hfCall[t]
  BY DEF HostInv, HostTyped
<1>2. /\ old.at = "called" /\ "raises" \in Outcome(old.b, c)
      /\ hfCall' = [hfCall EXCEPT ![t].at = "raised", ![t].read = hfFails[old.b]]
      /\ hfRaised' = [hfRaised EXCEPT ![old.b] = IF @ = CbThreshold THEN @ ELSE @ + 1]
      /\ hfLast' = [hfLast EXCEPT ![old.b] = hfNow] /\ UNCHANGED <<hfNow, hfFails, hfReset>>
  BY <1>1 DEF BackendRaises, AtCall
<1>3. HostTyped /\ \A b \in Backends : hfFails[b] <= hfRaised[b] /\ hfLast[b] <= hfNow
  BY DEF HostInv
<1>4. old.b \in Backends /\ old.b # "docker_orchestrator"
  BY <1>1, <1>2, OnlyText DEF HostInv, Counts
<1>5. PICK read \in Nat : read = hfFails[old.b]
  BY <1>3, <1>4 DEF HostTyped
<1>6. PICK call \in HostCalls : /\ call.at = "raised" /\ call.b = old.b /\ call.read = read
                                /\ hfCall' = [hfCall EXCEPT ![t] = call]
  <2> DEFINE call == [old EXCEPT !.at = "raised", !.read = read]
  <2>1. call \in HostCalls /\ call.at = "raised" /\ call.b = old.b /\ call.read = read
    BY DEF HostCalls
  <2>2. hfCall' = [hfCall EXCEPT ![t] = call]
    BY <1>1, <1>2, <1>3, <1>5 DEF HostTyped, HostCalls
  <2>3. QED BY <2>1, <2>2
<1>7. /\ hfCall' \in [Threads -> HostCalls] /\ hfCall'[t] = call
      /\ \A u \in Threads : u # t => hfCall'[u] = hfCall[u]
  BY <1>6, HostCallStep
<1>8. /\ hfRaised' \in [Backends -> Nat] /\ hfLast' \in [Backends -> Nat] /\ hfNow \in Nat
      /\ \A b \in Backends : /\ hfRaised[b] <= hfRaised'[b] /\ hfRaised[b] \in Nat /\ hfFails[b] \in Nat
                             /\ b # old.b => hfRaised'[b] = hfRaised[b] /\ hfLast'[b] = hfLast[b]
      /\ hfLast'[old.b] = hfNow
      /\ hfRaised'[old.b] = hfRaised[old.b] + 1 \/ hfRaised'[old.b] = CbThreshold
  BY <1>2, <1>3, <1>4 DEF HostTyped
<1>9. ASSUME NEW u \in Threads PROVE Counts(hfCall[u])'
  <2>1. CASE u = t
    <3>1. read < hfRaised'[old.b] \/ CbThreshold <= hfRaised'[old.b]
      BY <1>3, <1>4, <1>5, <1>8 DEF CbThreshold
    <3>2. QED BY <1>2, <1>4, <1>6, <1>7, <1>8, <2>1, <3>1 DEF Counts
  <2>2. CASE u # t
    <3>1. PICK other \in HostCalls : other = hfCall[u] /\ other = hfCall'[u] /\ Counts(other)
      BY <1>3, <1>7, <2>2 DEF HostInv, HostTyped
    <3>2. other.read \in Nat
      BY DEF HostCalls
    <3>3. Counts(other)'
      BY <1>2, <1>8, <3>1, <3>2 DEF Counts, CbThreshold
    <3>4. QED BY <3>1, <3>3 DEF Counts
  <2>3. QED BY <2>1, <2>2
<1>10. \A b \in Backends : hfFails'[b] <= hfRaised'[b] /\ hfLast'[b] <= hfNow /\ hfLast[b] <= hfLast'[b]
  BY <1>2, <1>3, <1>8 DEF HostTyped
<1>11. RefusalsEnd'
  <2>1. \A b \in Backends : hfReset[b] <= hfLast[b] + CbTimeout
    BY DEF HostInv, RefusalsEnd
  <2>2. QED BY <1>2, <1>3, <1>8, <1>10, <2>1, TimeoutAssumption DEF HostTyped, RefusalsEnd
<1>12. QED BY <1>2, <1>3, <1>7, <1>8, <1>9, <1>10, <1>11 DEF HostInv, HostTyped, ErrorTextIsSuccess

LEMMA CountFailureKeeps == ASSUME HostInv, NEW t \in Threads, CountFailure(t) PROVE HostInv'
<1>1. PICK old \in HostCalls : old = hfCall[t]
  BY DEF HostInv, HostTyped
<1>2. PICK n, b : n = old.read + 1 /\ n \in Nat /\ b = old.b
  BY DEF HostCalls
<1>3. /\ old.at = "raised" /\ hfCall' = [hfCall EXCEPT ![t] = [old EXCEPT !.at = "idle"]]
      /\ hfFails' = [hfFails EXCEPT ![b] = IF n > CbThreshold THEN CbThreshold ELSE n]
      /\ hfReset' = (IF n >= CbThreshold THEN [hfReset EXCEPT ![b] = hfNow + CbTimeout] ELSE hfReset)
      /\ UNCHANGED <<hfNow, hfRaised, hfLast>>
  BY <1>1, <1>2 DEF CountFailure, AtCall, Goto, Counted
<1>4. PICK call \in HostCalls : call.at = "idle" /\ hfCall' = [hfCall EXCEPT ![t] = call]
  <2>1. [old EXCEPT !.at = "idle"] \in HostCalls /\ [old EXCEPT !.at = "idle"].at = "idle"
    BY DEF HostCalls
  <2>2. QED BY <1>3, <2>1
<1>5. /\ hfCall' \in [Threads -> HostCalls] /\ hfCall'[t] = call
      /\ \A u \in Threads : u # t => hfCall'[u] = hfCall[u]
  BY <1>4, HostCallStep
<1>6. HostTyped /\ \A a \in Backends : hfFails[a] <= hfRaised[a] /\ hfLast[a] <= hfNow
  BY DEF HostInv
<1>7. /\ b \in Backends /\ b # "docker_orchestrator" /\ hfLast[b] = hfNow
      /\ n <= hfRaised[b] \/ CbThreshold <= hfRaised[b]
  <2>1. old.read \in Nat /\ (b \in Backends => hfRaised[b] \in Nat)
    BY <1>6 DEF HostTyped, HostCalls
  <2>2. Counts(old)
    BY <1>1 DEF HostInv
  <2>3. QED BY <1>2, <1>3, <1>6, <2>1, <2>2 DEF Counts, HostTyped, HostCalls
<1>8. /\ hfFails' \in [Backends -> Nat] /\ \A a \in Backends : hfFails'[a] <= hfRaised[a]
      /\ \A a \in Backends : a # b => hfFails'[a] = hfFails[a]
  BY <1>2, <1>3, <1>6, <1>7 DEF HostTyped, CbThreshold
<1>9. hfReset' \in [Backends -> Nat] /\ \A a \in Backends : hfReset'[a] <= hfLast[a] + CbTimeout
  <2>1. \A a \in Backends : hfReset[a] <= hfLast[a] + CbTimeout
    BY DEF HostInv, RefusalsEnd
  <2>2. hfNow + CbTimeout \in Nat
    BY <1>6, TimeoutAssumption DEF HostTyped
  <2>3. QED BY <1>3, <1>6, <1>7, <2>1, <2>2 DEF HostTyped
<1>10. ErrorTextIsSuccess'
  BY <1>7, <1>8 DEF HostInv, ErrorTextIsSuccess
<1>11. QED BY <1>3, <1>4, <1>5, <1>6, <1>8, <1>9, <1>10 DEF HostInv, HostTyped, RefusalsEnd, Counts

LEMMA HostTickKeeps == ASSUME HostInv, HostTick PROVE HostInv'
BY DEF HostTick, AtCall, HostInv, HostTyped, RefusalsEnd, ErrorTextIsSuccess, Counts

LEMMA HostStep == HostInv /\ [HostNext]_hfVars => HostInv'
<1> SUFFICES ASSUME HostInv, [HostNext]_hfVars PROVE HostInv'
  OBVIOUS
<1>1. CASE UNCHANGED hfVars
  BY <1>1 DEF hfVars, HostInv, HostTyped, RefusalsEnd, ErrorTextIsSuccess, Counts
<1>2. QED
  BY <1>1, DispatchKeeps, RefusedKeeps, BackendAnswersKeeps, BackendRaisesKeeps, CountFailureKeeps,
     HostTickKeeps
     DEF HostNext

-----------------------------------------------------------------------------
(* The Ollama dispatcher. *)

HostNames == {"primary", "secondary", "openrouter"}
Models == {"asked", "fallback"}
Attempts == Models \X HostNames
ModelCalls ==
  [kind : {"", "generate", "chat", "stream"}, provider : {"ollama", "openrouter"},
   model : Models \cup {""}, hosts : Seq(HostNames), tried : Seq(Attempts),
   end : {"", "answer", "raised", "done", "closed"}]

\* The hosts that a provider's strategy knows, in whatever order.
AllHosts(provider) ==
  IF provider = "openrouter" THEN {"openrouter"}
  ELSE IF odStrategy = "primary_only" THEN {"primary"} ELSE {"primary", "secondary"}
TriedWith(tried, model) == {h \in HostNames : <<model, h>> \in Range(tried)}

\* A call to generate has tried, with its model, the hosts that are not left in its order,
\* and those of the model before it if there was one.
Exhausts(call) ==
  call.kind = "generate" =>
    /\ IsInjective(call.tried)
    /\ \A m \in Models : TriedWith(call.tried, m) \subseteq AllHosts(call.provider)
    /\ call.model = "asked" => TriedWith(call.tried, "fallback") = {}
    /\ call.model = "fallback" => TriedWith(call.tried, "asked") \in {{}, AllHosts(call.provider)}
    /\ call.end = "" =>
         /\ call.hosts # <<>> /\ IsInjective(call.hosts)
         /\ Range(call.hosts) \cap TriedWith(call.tried, call.model) = {}
         /\ Range(call.hosts) \cup TriedWith(call.tried, call.model) = AllHosts(call.provider)
    /\ call.end = "raised" =>
         call.model = "fallback" /\ TriedWith(call.tried, "fallback") = AllHosts(call.provider)
Begun(call) == IF call.kind = "" THEN call.end = "" ELSE call.model \in Models

\* How often the order began with h, and what the counter says of it.
Firsts(h) == {i \in DOMAIN odFirst : odFirst[i] = h}
TakeTurns ==
  /\ odRound \in Nat /\ odFirst \in Seq(HostNames)
  /\ odStrategy = "round_robin" =>
       Cardinality(Firsts("secondary")) - Cardinality(Firsts("primary")) = odRound % 2

OllamaInv ==
  /\ odCall \in [DispatchCalls -> ModelCalls]
  /\ \A c \in DispatchCalls : Exhausts(odCall[c]) /\ Begun(odCall[c])
  /\ TakeTurns

LEMMA HostsKnown == ASSUME NEW provider PROVE AllHosts(provider) \in SUBSET HostNames
BY DEF AllHosts, HostNames

LEMMA NoCall == NotCalled \in ModelCalls /\ NotCalled.kind = "" /\ NotCalled.end = "" /\ NotCalled.tried = <<>>
<1>1. <<>> \in Seq(HostNames) /\ <<>> \in Seq(Attempts)
  OBVIOUS
<1>2. QED BY <1>1 DEF NotCalled, ModelCalls

LEMMA OllamaStarts == DispatchInit => OllamaInv
<1> SUFFICES ASSUME DispatchInit PROVE OllamaInv
  OBVIOUS
<1>1. odRound = 0 /\ odFirst = <<>> /\ odCall = [c \in DispatchCalls |-> NotCalled]
  BY DEF DispatchInit
<1>2. Firsts("primary") = {} /\ Firsts("secondary") = {} /\ odFirst \in Seq(HostNames)
  BY <1>1 DEF Firsts
<1>3. TakeTurns
  <2>1. Cardinality(Firsts("primary")) = 0 /\ Cardinality(Firsts("secondary")) = 0
    BY <1>2, FS_EmptySet
  <2>2. QED BY <1>1, <1>2, <2>1 DEF TakeTurns
<1>4. Exhausts(NotCalled) /\ Begun(NotCalled)
  BY NoCall DEF Exhausts, Begun
<1>5. QED BY <1>1, <1>3, <1>4, NoCall DEF OllamaInv

\* The order of a provider's hosts has each of them once.
LEMMA HostsInOrder ==
    ASSUME odRound \in Nat, NEW provider \in {"ollama", "openrouter"}
    PROVE  /\ Hosts(provider) \in Seq(HostNames) /\ Hosts(provider) # <<>>
           /\ IsInjective(Hosts(provider)) /\ Range(Hosts(provider)) = AllHosts(provider)
<1>1. Hosts(provider) \in {<<"openrouter">>, <<"primary">>, <<"primary", "secondary">>, <<"secondary", "primary">>}
  BY DEF Hosts, Ordered
<1>2. PICK one : Hosts(provider) = one
  OBVIOUS
<1>3. /\ one = <<"openrouter">> => provider = "openrouter"
      /\ one = <<"primary">> => provider = "ollama" /\ odStrategy = "primary_only"
      /\ one \in {<<"primary", "secondary">>, <<"secondary", "primary">>} =>
           provider = "ollama" /\ odStrategy # "primary_only"
  BY <1>2 DEF Hosts, Ordered
<1>4. /\ Range(<<"primary", "secondary">>) = {"primary", "secondary"}
      /\ Range(<<"secondary", "primary">>) = {"primary", "secondary"}
      /\ IsInjective(<<"primary", "secondary">>) /\ IsInjective(<<"secondary", "primary">>)
  BY DEF Range, IsInjective
<1>5. one \in Seq(HostNames) /\ one # <<>>
  <2>1. /\ <<"openrouter">> \in Seq(HostNames) /\ <<"primary">> \in Seq(HostNames)
        /\ <<"primary", "secondary">> \in Seq(HostNames) /\ <<"secondary", "primary">> \in Seq(HostNames)
    BY DEF HostNames
  <2>2. one \in Seq(HostNames)
    BY <1>1, <1>2, <2>1
  <2>3. Len(one) # 0
    BY <1>1, <1>2
  <2>4. QED BY <2>2, <2>3, EmptySeq
<1>6. IsInjective(one)
  BY <1>1, <1>2, <1>4, RangeOfOne
<1>7. Range(one) = AllHosts(provider)
  BY <1>1, <1>2, <1>3, <1>4, RangeOfOne DEF AllHosts
<1>8. QED BY <1>2, <1>5, <1>6, <1>7

LEMMA TailOfOne ==
    ASSUME NEW S, NEW v \in Seq(S), v # <<>> 
    PROVE  (Len(v) = 1 => Tail(v) = <<>>) /\ (Len(v) > 1 => Tail(v) # <<>>)
<1>1. Tail(v) \in Seq(S) /\ Len(Tail(v)) = Len(v) - 1 /\ Len(v) \in Nat
  BY EmptySeq, HeadTailProperties
<1>2. Tail(v) = <<>> <=> Len(Tail(v)) = 0
  BY <1>1, EmptySeq
<1>3. QED BY <1>1, <1>2

\* One more attempt, at the first of the hosts that are left.
TriesAlso(more, tried, model, host) ==
  /\ more \in Seq(Attempts) /\ IsInjective(more)
  /\ TriedWith(more, model) = TriedWith(tried, model) \cup {host}
  /\ \A m \in Models : m # model => TriedWith(more, m) = TriedWith(tried, m)
LEMMA OneMore ==
    ASSUME NEW tried \in Seq(Attempts), NEW hosts \in Seq(HostNames), NEW model \in Models,
           hosts # <<>>, IsInjective(tried), Head(hosts) \notin TriedWith(tried, model),
           NEW more, more = Append(tried, <<model, Head(hosts)>>)
    PROVE  TriesAlso(more, tried, model, Head(hosts))
<1>1. Head(hosts) \in HostNames /\ Head(hosts) \in Range(hosts)
  BY RangeOfTail
<1>2. <<model, Head(hosts)>> \in Attempts /\ <<model, Head(hosts)>> \notin Range(tried)
  BY <1>1 DEF Attempts, TriedWith
<1>3. more \in Seq(Attempts) /\ IsInjective(more) /\ Range(more) = Range(tried) \cup {<<model, Head(hosts)>>}
  BY <1>2, RangeOfAppend
<1>4. \A m \in Models, h \in HostNames : <<m, h>> = <<model, Head(hosts)>> <=> m = model /\ h = Head(hosts)
  OBVIOUS
<1>5. TriedWith(more, model) = TriedWith(tried, model) \cup {Head(hosts)}
  BY <1>1, <1>3, <1>4 DEF TriedWith
<1>6. ASSUME NEW m \in Models, m # model PROVE TriedWith(more, m) = TriedWith(tried, m)
  BY <1>3, <1>4, <1>6 DEF TriedWith
<1>7. QED BY <1>3, <1>5, <1>6 DEF TriesAlso

\* A step of caller c that asks no host to begin.
LEMMA CallBecomes ==
    ASSUME OllamaInv, NEW c \in DispatchCalls, NEW call \in ModelCalls, Exhausts(call), Begun(call),
           odCall' = [odCall EXCEPT ![c] = call], UNCHANGED odStrategy, TakeTurns'
    PROVE  OllamaInv'
<1>1. /\ odCall' \in [DispatchCalls -> ModelCalls] /\ odCall'[c] = call
      /\ \A d \in DispatchCalls : d # c => odCall'[d] = odCall[d]
  BY DEF OllamaInv
<1>2. \A d \in DispatchCalls : Exhausts(odCall'[d]) /\ Begun(odCall'[d])
  BY <1>1 DEF OllamaInv
<1>3. UNCHANGED odStrategy
  OBVIOUS
<1>4. ASSUME NEW d \in DispatchCalls PROVE (Exhausts(odCall[d]) /\ Begun(odCall[d]))'
  <2>1. PICK one : one = odCall'[d] /\ Exhausts(one) /\ Begun(one)
    BY <1>2
  <2>2. AllHosts(one.provider)' = AllHosts(one.provider)
    BY <1>3 DEF AllHosts
  <2>3. Exhausts(one)'
    <3>1. PICK all : all = AllHosts(one.provider) /\ all = AllHosts(one.provider)'
      BY <2>2
    <3>2. Exhausts(one)
      BY <2>1
    <3>3. QED BY <3>1, <3>2 DEF Exhausts
  <2>4. Begun(one)'
    BY <2>1 DEF Begun
  <2>5. QED BY <2>1, <2>3, <2>4 DEF Exhausts, Begun
<1>5. QED BY <1>1, <1>4 DEF OllamaInv

LEMMA TurnsKept == ASSUME TakeTurns, UNCHANGED <<odStrategy, odRound, odFirst>> PROVE TakeTurns'
BY DEF TakeTurns, Firsts

\* The order of the next round.
LEMMA TurnTaken ==
    ASSUME TakeTurns, NEW provider \in {"ollama", "openrouter"}, UNCHANGED odStrategy,
           odRound' = Round(provider),
           odFirst' = IF provider = "ollama" THEN Append(odFirst, Head(Hosts(provider))) ELSE odFirst
    PROVE  TakeTurns'
<1>1. CASE provider = "openrouter"
  <2>1. UNCHANGED <<odStrategy, odRound, odFirst>>
    BY <1>1 DEF Round
  <2>2. QED BY <2>1, TurnsKept
<1>2. CASE provider = "ollama"
  <2>1. PICK h : h = Head(Ordered)
    OBVIOUS
  <2>2. odRound \in Nat /\ odFirst \in Seq(HostNames)
    BY DEF TakeTurns
  <2>3. h \in {"primary", "secondary"}
    BY <2>1 DEF Ordered
  <2>4. odFirst' = Append(odFirst, h) /\ odFirst' \in Seq(HostNames)
    BY <1>2, <2>1, <2>2, <2>3 DEF Hosts, HostNames
  <2>5. odRound' \in Nat
    BY <1>2, <2>2 DEF Round
  <2>6. ASSUME odStrategy = "round_robin"
        PROVE  (Cardinality(Firsts("secondary")) - Cardinality(Firsts("primary")) = odRound % 2)'
    <3>1. odRound' = odRound + 1 /\ h = (IF (odRound + 1) % 2 = 1 THEN "secondary" ELSE "primary")
      BY <1>2, <2>1, <2>6 DEF Round, Ordered
    <3>2. PICK n \in Nat : n = Len(odFirst) /\ DOMAIN odFirst = 1 .. n
      BY <2>2
    <3>3. ASSUME NEW g \in {"primary", "secondary"}
          PROVE  /\ IsFiniteSet(Firsts(g)) /\ Cardinality(Firsts(g)) \in Nat
                 /\ g # h => Firsts(g)' = Firsts(g)
                 /\ g = h => Firsts(g)' = Firsts(g) \cup {n + 1} /\ n + 1 \notin Firsts(g)
      <4>1. IsFiniteSet(1 .. n)
        BY <3>2, FS_Interval
      <4>2. Firsts(g) \in SUBSET (1 .. n)
        BY <3>2 DEF Firsts
      <4>3. IsFiniteSet(Firsts(g)) /\ Cardinality(Firsts(g)) \in Nat
        BY <4>1, <4>2, FS_Subset, FS_CardinalityType
      <4>4. /\ DOMAIN odFirst' = 1 .. n + 1 /\ odFirst'[n + 1] = h
            /\ \A i \in 1 .. n : odFirst'[i] = odFirst[i]
        BY <2>2, <2>4, <3>2
      <4>5. g # h => Firsts(g)' = Firsts(g)
        BY <3>2, <4>4 DEF Firsts
      <4>6. g = h => Firsts(g)' = Firsts(g) \cup {n + 1} /\ n + 1 \notin Firsts(g)
        BY <3>2, <4>4 DEF Firsts
      <4>7. QED BY <4>3, <4>5, <4>6
    <3>4. ASSUME NEW g \in {"primary", "secondary"}
          PROVE  Cardinality(Firsts(g)') = Cardinality(Firsts(g)) + (IF g = h THEN 1 ELSE 0)
      BY <3>3, FS_AddElement
    <3>5. Cardinality(Firsts("secondary")) - Cardinality(Firsts("primary")) = odRound % 2
      BY <2>6 DEF TakeTurns
    <3>6. PICK p \in Nat, s \in Nat : p = Cardinality(Firsts("primary")) /\ s = Cardinality(Firsts("secondary"))
      BY <3>3
    <3>7. /\ Cardinality(Firsts("primary")') = p + (IF h = "primary" THEN 1 ELSE 0)
          /\ Cardinality(Firsts("secondary")') = s + (IF h = "secondary" THEN 1 ELSE 0)
      BY <3>4, <3>6
    <3>8. s - p = odRound % 2 /\ odRound \in Nat
      BY <2>2, <3>5, <3>6
    <3>9. QED BY <3>1, <3>7, <3>8
  <2>7. QED BY <2>4, <2>5, <2>6 DEF TakeTurns
<1>3. QED BY <1>1, <1>2

\* A call begins, or begins again with the fallback model.
LEMMA AttemptKeeps ==
    ASSUME OllamaInv, NEW c \in DispatchCalls, NEW provider \in {"ollama", "openrouter"},
           NEW model \in Models, NEW tried \in Seq(Attempts),
           Attempt(c, "generate", provider, model, tried), IsInjective(tried),
           \A m \in Models : TriedWith(tried, m) \subseteq AllHosts(provider),
           TriedWith(tried, model) = {},
           model = "asked" => TriedWith(tried, "fallback") = {},
           model = "fallback" => TriedWith(tried, "asked") \in {{}, AllHosts(provider)}
    PROVE  OllamaInv'
<1>1. TakeTurns /\ odRound \in Nat
  BY DEF OllamaInv, TakeTurns
<1>2. PICK hosts \in Seq(HostNames) :
        /\ hosts = Hosts(provider) /\ hosts # <<>> /\ IsInjective(hosts) /\ Range(hosts) = AllHosts(provider)
  BY <1>1, HostsInOrder
<1> DEFINE call == [kind |-> "generate", provider |-> provider, model |-> model, hosts |-> hosts,
                    tried |-> tried, end |-> ""]
<1>3. odCall' = [odCall EXCEPT ![c] = call] /\ UNCHANGED odStrategy
  BY <1>2 DEF Attempt
<1>4. TakeTurns'
  BY <1>1, TurnTaken DEF Attempt
<1>5. /\ call \in ModelCalls /\ call.kind = "generate" /\ call.provider = provider /\ call.model = model
      /\ call.hosts = hosts /\ call.tried = tried /\ call.end = ""
  BY DEF ModelCalls
<1> HIDE DEF call
<1>6. Exhausts(call)
  BY <1>2, <1>5 DEF Exhausts
<1>7. Begun(call)
  BY <1>5 DEF Begun
<1>8. QED BY ONLY <1>3, <1>4, <1>5, <1>6, <1>7, OllamaInv, c \in DispatchCalls, CallBecomes

LEMMA GenerateKeeps ==
    ASSUME OllamaInv, NEW c \in DispatchCalls, NEW provider \in {"ollama", "openrouter"},
           NEW model \in Models, Generate(c, provider, model)
    PROVE  OllamaInv'
<1>1. <<>> \in Seq(Attempts) /\ IsInjective(<<>>) /\ \A m \in Models : TriedWith(<<>>, m) = {}
  BY DEF IsInjective, TriedWith, Range
<1>2. Attempt(c, "generate", provider, model, <<>>)
  BY DEF Generate
<1>3. PICK tried \in Seq(Attempts) :
        /\ IsInjective(tried) /\ \A m \in Models : TriedWith(tried, m) = {}
        /\ Attempt(c, "generate", provider, model, tried)
  BY <1>1, <1>2
<1>4. /\ \A m \in Models : TriedWith(tried, m) \subseteq AllHosts(provider)
      /\ TriedWith(tried, model) = {} /\ TriedWith(tried, "asked") = {} /\ TriedWith(tried, "fallback") = {}
  BY <1>3 DEF Models
<1>5. QED BY <1>3, <1>4, AttemptKeeps

LEMMA CallFields ==
    ASSUME NEW call \in ModelCalls
    PROVE  /\ call.kind \in {"", "generate", "chat", "stream"} /\ call.provider \in {"ollama", "openrouter"}
           /\ call.model \in Models \cup {""} /\ call.hosts \in Seq(HostNames)
           /\ call.tried \in Seq(Attempts)
BY DEF ModelCalls

LEMMA SingleHostKeeps ==
    ASSUME OllamaInv, NEW c \in DispatchCalls, NEW kind \in {"chat", "stream"},
           NEW provider \in {"ollama", "openrouter"}, NEW model \in Models,
           SingleHost(c, kind, provider, model)
    PROVE  OllamaInv'
<1>1. PICK hosts \in Seq(HostNames) : hosts = IF provider = "openrouter" THEN <<"openrouter">> ELSE <<"primary">>
  <2>1. <<"openrouter">> \in Seq(HostNames) /\ <<"primary">> \in Seq(HostNames)
    BY DEF HostNames
  <2>2. QED BY <2>1
<1>2. PICK none \in ModelCalls : none = NotCalled
  BY NoCall
<1> DEFINE call == [none EXCEPT !.kind = kind, !.provider = provider, !.model = model, !.hosts = hosts]
<1>3. odCall' = [odCall EXCEPT ![c] = call] /\ UNCHANGED <<odStrategy, odRound, odFirst>>
  BY <1>1, <1>2 DEF SingleHost
<1>4. call \in ModelCalls /\ call.kind = kind /\ call.end = none.end /\ call.model = model
  BY DEF ModelCalls
<1> HIDE DEF call
<1>5. Exhausts(call) /\ Begun(call)
  BY <1>2, <1>4, NoCall DEF Exhausts, Begun
<1>6. TakeTurns'
  BY <1>3, TurnsKept DEF OllamaInv
<1>7. QED BY ONLY <1>3, <1>4, <1>5, <1>6, OllamaInv, c \in DispatchCalls, CallBecomes

\* What is known of a caller that waits for the first of its hosts.
LEMMA WhenWaiting ==
    ASSUME OllamaInv, NEW c \in DispatchCalls, Waiting(c), NEW call, call = odCall[c]
    PROVE  /\ call \in ModelCalls /\ Exhausts(call) /\ Begun(call) /\ call.end = "" /\ call.kind # ""
           /\ call.hosts # <<>> /\ Target(c) = <<call.model, Head(call.hosts)>>
           /\ \A w : Update(c, w) => /\ odCall' = [odCall EXCEPT ![c] = w] /\ UNCHANGED odStrategy
                                     /\ TakeTurns'
<1>1. ASSUME NEW w, Update(c, w)
      PROVE  odCall' = [odCall EXCEPT ![c] = w] /\ UNCHANGED odStrategy /\ TakeTurns'
  BY <1>1, TurnsKept DEF Update, OllamaInv
<1>2. QED BY <1>1 DEF Waiting, Target, OllamaInv

\* The call tried its first host, which failed or answered, and ends or goes on to the next.
LEMMA TriedKeeps ==
    ASSUME OllamaInv, NEW c \in DispatchCalls, Waiting(c), NEW call, call = odCall[c],
           call.kind # "stream", NEW w \in ModelCalls, Update(c, w),
           w.kind = call.kind, w.provider = call.provider, w.model = call.model,
           w.tried = Append(call.tried, Target(c)),
           \/ w.end = "answer"
           \/ w.end = "raised" /\ GivesUp(c)
           \/ w.end = "" /\ w.hosts = Tail(call.hosts) /\ Len(call.hosts) > 1
    PROVE  OllamaInv'
<1>1. /\ call \in ModelCalls /\ Exhausts(call) /\ Begun(call) /\ call.end = "" /\ call.kind # ""
      /\ call.hosts # <<>> /\ w.tried = Append(call.tried, <<call.model, Head(call.hosts)>>)
      /\ odCall' = [odCall EXCEPT ![c] = w] /\ UNCHANGED odStrategy /\ TakeTurns'
  BY WhenWaiting
<1>2. Begun(w)
  BY <1>1 DEF Begun
<1>3. CASE call.kind # "generate"
  <2>1. Exhausts(w)
    BY <1>3 DEF Exhausts
  <2>2. QED BY ONLY <1>1, <1>2, <2>1, w \in ModelCalls, OllamaInv, c \in DispatchCalls, CallBecomes
<1>4. CASE call.kind = "generate"
  <2>1. PICK hosts \in Seq(HostNames), tried \in Seq(Attempts), model \in Models, all \in SUBSET HostNames :
          /\ hosts = call.hosts /\ tried = call.tried /\ model = call.model /\ all = AllHosts(call.provider)
    BY <1>1, <1>4, CallFields, HostsKnown DEF Begun
  <2>2. /\ IsInjective(tried) /\ hosts # <<>> /\ IsInjective(hosts)
        /\ \A m \in Models : TriedWith(tried, m) \subseteq all
        /\ model = "asked" => TriedWith(tried, "fallback") = {}
        /\ model = "fallback" => TriedWith(tried, "asked") \in {{}, all}
        /\ Range(hosts) \cap TriedWith(tried, model) = {}
        /\ Range(hosts) \cup TriedWith(tried, model) = all
    BY <1>1, <1>4, <2>1 DEF Exhausts
  <2>3. PICK more : more = Append(tried, <<model, Head(hosts)>>)
    OBVIOUS
  <2>4. /\ IsInjective(more) /\ Head(hosts) \in Range(hosts)
        /\ TriedWith(more, model) = TriedWith(tried, model) \cup {Head(hosts)}
        /\ \A m \in Models : m # model => TriedWith(more, m) = TriedWith(tried, m)
    <3>1. Head(hosts) \in Range(hosts)
      <4>1. Range(hosts) = Range(Tail(hosts)) \cup {Head(hosts)}
        BY <2>2, RangeOfTail
      <4>2. QED BY <4>1
    <3>2. Head(hosts) \notin TriedWith(tried, model)
      BY <2>2, <3>1
    <3>3. TriesAlso(more, tried, model, Head(hosts))
      BY ONLY <2>2, <2>3, <3>2, tried \in Seq(Attempts), hosts \in Seq(HostNames), model \in Models, OneMore
    <3>4. QED BY <3>1, <3>3 DEF TriesAlso
  <2>5. /\ Range(hosts) = Range(Tail(hosts)) \cup {Head(hosts)} /\ Tail(hosts) \in Seq(HostNames)
        /\ IsInjective(Tail(hosts)) /\ Head(hosts) \notin Range(Tail(hosts))
    BY <2>2, RangeOfTail
  <2>6. w.tried = more /\ w.model = model /\ AllHosts(w.provider) = all /\ w.kind = "generate"
    BY <1>1, <1>4, <2>1, <2>3
  <2>7. /\ \A m \in Models : TriedWith(more, m) \subseteq all
        /\ model = "asked" => TriedWith(more, "fallback") = {}
        /\ model = "fallback" => TriedWith(more, "asked") \in {{}, all}
    BY <2>2, <2>4 DEF Models
  <2>8. w.end = "" => /\ w.hosts # <<>> /\ IsInjective(w.hosts)
                      /\ Range(w.hosts) \cap TriedWith(more, model) = {}
                      /\ Range(w.hosts) \cup TriedWith(more, model) = all
    <3> SUFFICES ASSUME w.end = "" PROVE /\ w.hosts # <<>> /\ IsInjective(w.hosts)
                                         /\ Range(w.hosts) \cap TriedWith(more, model) = {}
                                         /\ Range(w.hosts) \cup TriedWith(more, model) = all
      OBVIOUS
    <3>1. w.hosts = Tail(hosts) /\ Len(hosts) > 1
      BY <2>1
    <3>2. Tail(hosts) # <<>>
      BY ONLY <2>2, <3>1, hosts \in Seq(HostNames), TailOfOne
    <3>3. QED BY <2>2, <2>4, <2>5, <3>1, <3>2
  <2>9. w.end = "raised" => model = "fallback" /\ TriedWith(more, "fallback") = all
    <3> SUFFICES ASSUME w.end = "raised" PROVE model = "fallback" /\ TriedWith(more, "fallback") = all
      OBVIOUS
    <3>1. model = "fallback" /\ Len(hosts) = 1
      BY <1>4, <2>1 DEF GivesUp, LastFails
    <3>2. Range(Tail(hosts)) = {}
      <4>1. Tail(hosts) = <<>>
        BY <2>2, <3>1, TailOfOne
      <4>2. QED BY <4>1, RangeOfOne
    <3>3. QED BY <2>2, <2>4, <2>5, <3>1, <3>2
  <2>10. Exhausts(w)
    BY <2>4, <2>6, <2>7, <2>8, <2>9 DEF Exhausts
  <2>11. QED BY ONLY <1>1, <1>2, <2>10, w \in ModelCalls, OllamaInv, c \in DispatchCalls, CallBecomes
<1>5. QED BY <1>3, <1>4

\* What a waiting caller has tried is one attempt more.
LEMMA NewTried ==
    ASSUME OllamaInv, NEW c \in DispatchCalls, Waiting(c)
    PROVE  Append(odCall[c].tried, Target(c)) \in Seq(Attempts)
<1>1. PICK call \in ModelCalls : call = odCall[c]
  BY WhenWaiting
<1>2. Begun(call) /\ call.kind # "" /\ call.hosts # <<>> /\ Target(c) = <<call.model, Head(call.hosts)>>
  BY <1>1, WhenWaiting
<1>3. call.model \in Models
  BY <1>2 DEF Begun
<1>4. call.tried \in Seq(Attempts) /\ call.hosts \in Seq(HostNames)
  BY CallFields
<1>5. Head(call.hosts) \in HostNames
  BY <1>2, <1>4, RangeOfTail
<1>6. <<call.model, Head(call.hosts)>> \in Attempts
  BY <1>3, <1>5 DEF Attempts
<1>7. PICK tried \in Seq(Attempts), target \in Attempts : tried = odCall[c].tried /\ target = Target(c)
  BY <1>1, <1>2, <1>4, <1>6
<1>8. Append(tried, target) \in Seq(Attempts)
  BY AppendProperties
<1>9. QED BY <1>7, <1>8

LEMMA AnswersKeeps == ASSUME OllamaInv, NEW c \in DispatchCalls, Answers(c) PROVE OllamaInv'
<1>1. Waiting(c) /\ odCall[c].kind # "stream"
  BY DEF Answers
<1>2. PICK call \in ModelCalls, more \in Seq(Attempts) : call = odCall[c] /\ more = Append(odCall[c].tried, Target(c))
  BY <1>1, NewTried, WhenWaiting
<1> DEFINE w == [call EXCEPT !.tried = more, !.end = "answer"]
<1>3. Update(c, w)
  BY <1>2 DEF Answers
<1>4. /\ w \in ModelCalls /\ w.kind = call.kind /\ w.provider = call.provider /\ w.model = call.model
      /\ w.tried = more /\ w.end = "answer"
  BY DEF ModelCalls
<1> HIDE DEF w
<1>5. QED BY <1>1, <1>2, <1>3, <1>4, TriedKeeps

LEMMA CallRaisesKeeps == ASSUME OllamaInv, NEW c \in DispatchCalls, CallRaises(c) PROVE OllamaInv'
<1>1. Waiting(c) /\ odCall[c].kind # "stream" /\ GivesUp(c)
  BY DEF CallRaises
<1>2. PICK call \in ModelCalls, more \in Seq(Attempts) : call = odCall[c] /\ more = Append(odCall[c].tried, Target(c))
  BY <1>1, NewTried, WhenWaiting
<1> DEFINE w == [call EXCEPT !.tried = more, !.end = "raised"]
<1>3. Update(c, w)
  BY <1>2 DEF CallRaises
<1>4. /\ w \in ModelCalls /\ w.kind = call.kind /\ w.provider = call.provider /\ w.model = call.model
      /\ w.tried = more /\ w.end = "raised"
  BY DEF ModelCalls
<1> HIDE DEF w
<1>5. QED BY <1>1, <1>2, <1>3, <1>4, TriedKeeps

LEMMA NextHostKeeps == ASSUME OllamaInv, NEW c \in DispatchCalls, NextHost(c) PROVE OllamaInv'
<1>1. Waiting(c) /\ odCall[c].kind = "generate" /\ Len(odCall[c].hosts) > 1
  BY DEF NextHost
<1>2. PICK call \in ModelCalls, more \in Seq(Attempts), rest \in Seq(HostNames) :
        call = odCall[c] /\ more = Append(odCall[c].tried, Target(c)) /\ rest = Tail(odCall[c].hosts)
  <2>1. PICK call \in ModelCalls : call = odCall[c] /\ call.hosts # <<>>
    BY <1>1, WhenWaiting
  <2>2. Tail(call.hosts) \in Seq(HostNames)
    BY <2>1, CallFields, RangeOfTail
  <2>3. QED BY <1>1, <2>1, <2>2, NewTried
<1> DEFINE w == [call EXCEPT !.tried = more, !.hosts = rest]
<1>3. Update(c, w)
  BY <1>2 DEF NextHost
<1>4. /\ w \in ModelCalls /\ w.kind = call.kind /\ w.provider = call.provider /\ w.model = call.model
      /\ w.tried = more /\ w.end = call.end /\ w.hosts = rest
  BY DEF ModelCalls
<1> HIDE DEF w
<1>5. w.end = ""
  BY <1>1, <1>2, <1>4, WhenWaiting
<1>6. QED BY <1>1, <1>2, <1>3, <1>4, <1>5, TriedKeeps

LEMMA DownshiftKeeps == ASSUME OllamaInv, NEW c \in DispatchCalls, Downshift(c) PROVE OllamaInv'
<1>1. Waiting(c) /\ Len(odCall[c].hosts) = 1 /\ odCall[c].kind = "generate" /\ odCall[c].model # "fallback"
      /\ Attempt(c, "generate", odCall[c].provider, "fallback", Append(odCall[c].tried, Target(c)))
  BY DEF Downshift, LastFails, FallbackProvider
<1>2. PICK call \in ModelCalls : call = odCall[c]
  BY <1>1, WhenWaiting
<1>3. /\ Exhausts(call) /\ Begun(call) /\ call.end = "" /\ call.hosts # <<>>
      /\ Target(c) = <<call.model, Head(call.hosts)>>
  BY <1>1, <1>2, WhenWaiting
<1>4. PICK hosts \in Seq(HostNames), tried \in Seq(Attempts), provider \in {"ollama", "openrouter"}, 
        all \in SUBSET HostNames :
        /\ hosts = call.hosts /\ tried = call.tried /\ provider = call.provider /\ all = AllHosts(provider)
  BY CallFields, HostsKnown
<1>5. call.model = "asked"
  BY <1>1, <1>2, <1>3 DEF Begun, Models
<1>6. /\ IsInjective(tried) /\ hosts # <<>> /\ IsInjective(hosts)
      /\ \A m \in Models : TriedWith(tried, m) \subseteq all
      /\ TriedWith(tried, "fallback") = {}
      /\ Range(hosts) \cap TriedWith(tried, "asked") = {}
      /\ Range(hosts) \cup TriedWith(tried, "asked") = all
  BY <1>1, <1>2, <1>3, <1>4, <1>5 DEF Exhausts
<1>7. PICK more : more = Append(tried, <<"asked", Head(hosts)>>)
  OBVIOUS
<1>8. "asked" \in Models /\ "fallback" \in Models
  BY DEF Models
<1>9. /\ more \in Seq(Attempts) /\ IsInjective(more)
      /\ TriedWith(more, "asked") = TriedWith(tried, "asked") \cup {Head(hosts)}
      /\ TriedWith(more, "fallback") = {}
  <2>1. /\ more \in Seq(Attempts) /\ IsInjective(more)
        /\ TriedWith(more, "asked") = TriedWith(tried, "asked") \cup {Head(hosts)}
        /\ \A m \in Models : m # "asked" => TriedWith(more, m) = TriedWith(tried, m)
    <3>1. Head(hosts) \in Range(hosts)
      BY <1>6, RangeOfTail
    <3>2. Head(hosts) \notin TriedWith(tried, "asked")
      BY <1>6, <3>1
    <3>3. TriesAlso(more, tried, "asked", Head(hosts))
      BY ONLY <1>6, <1>7, <1>8, <3>2, tried \in Seq(Attempts), hosts \in Seq(HostNames), OneMore
    <3>4. QED BY <3>3 DEF TriesAlso
  <2>2. QED BY <1>6, <1>8, <2>1
<1>10. Range(hosts) = {Head(hosts)}
  <2>1. Tail(hosts) = <<>>
    BY <1>1, <1>2, <1>4, <1>6, TailOfOne
  <2>2. Range(hosts) = Range(Tail(hosts)) \cup {Head(hosts)}
    BY <1>6, RangeOfTail
  <2>3. Range(<<>>) = {}
    BY RangeOfOne
  <2>4. QED BY <2>1, <2>2, <2>3
<1>11. TriedWith(more, "asked") = AllHosts(provider)
  BY <1>4, <1>6, <1>9, <1>10
<1>12. \A m \in Models : TriedWith(more, m) \subseteq AllHosts(provider)
  BY <1>9, <1>11 DEF Models
<1>13. Attempt(c, "generate", provider, "fallback", more)
  BY <1>1, <1>2, <1>3, <1>4, <1>5, <1>7
<1>14. QED BY <1>8, <1>9, <1>11, <1>12, <1>13, AttemptKeeps

\* A step of a stream, to w.
LEMMA StreamKeeps ==
    ASSUME OllamaInv, NEW c \in DispatchCalls, Waiting(c), NEW call, call = odCall[c], call.kind = "stream",
           NEW w \in ModelCalls, Update(c, w), w.kind = "stream", w.model = call.model
    PROVE  OllamaInv'
<1>1. Begun(call) /\ odCall' = [odCall EXCEPT ![c] = w] /\ UNCHANGED odStrategy /\ TakeTurns'
  BY WhenWaiting
<1>2. Exhausts(w) /\ Begun(w)
  BY <1>1 DEF Exhausts, Begun
<1>3. QED BY ONLY <1>1, <1>2, w \in ModelCalls, OllamaInv, c \in DispatchCalls, CallBecomes

LEMMA StreamEndsKeeps == ASSUME OllamaInv, NEW c \in DispatchCalls, StreamEnds(c) PROVE OllamaInv'
<1>1. PICK call \in ModelCalls : call = odCall[c]
  BY WhenWaiting DEF StreamEnds
<1>2. PICK end \in {"done", "closed", "raised"} :
        Update(c, [call EXCEPT !.end = end])
  BY <1>1 DEF StreamEnds
<1> DEFINE w == [call EXCEPT !.end = end]
<1>3. Update(c, w) /\ Waiting(c) /\ call.kind = "stream"
  BY <1>1, <1>2 DEF StreamEnds
<1>4. w \in ModelCalls /\ w.kind = call.kind /\ w.model = call.model
  BY DEF ModelCalls
<1> HIDE DEF w
<1>5. QED BY <1>1, <1>2, <1>3, <1>4, StreamKeeps

LEMMA OllamaStep == OllamaInv /\ [DispatchNext]_odVars => OllamaInv'
<1> SUFFICES ASSUME OllamaInv, [DispatchNext]_odVars PROVE OllamaInv'
  OBVIOUS
<1>1. CASE UNCHANGED odVars
  <2>1. UNCHANGED <<odStrategy, odRound, odFirst, odCall>>
    BY <1>1 DEF odVars
  <2>2. TakeTurns'
    BY <2>1, TurnsKept DEF OllamaInv
  <2>3. QED BY <2>1, <2>2 DEF OllamaInv, Exhausts, Begun, AllHosts
<1>2. QED
  BY <1>1, GenerateKeeps, SingleHostKeeps, AnswersKeeps, NextHostKeeps, DownshiftKeeps, CallRaisesKeeps,
     StreamEndsKeeps
     DEF DispatchNext, Models

LEMMA RaisesAtLast == OllamaInv => RaisedAfterAll
<1> SUFFICES ASSUME OllamaInv, NEW c \in DispatchCalls, odCall[c].kind = "generate"
             PROVE  /\ Cardinality(TriedBy(c)) = Len(odCall[c].tried)
                    /\ \A t \in TriedBy(c) : (t[2] = "openrouter") <=> (odCall[c].provider = "openrouter")
                    /\ odCall[c].end = "raised" =>
                         LET hosts == IF odCall[c].provider = "openrouter" THEN {"openrouter"} ELSE ToSet(Ordered)
                         IN \A h \in hosts : <<"fallback", h>> \in TriedBy(c) /\
                              ((\E t \in TriedBy(c) : t[1] = "asked") => <<"asked", h>> \in TriedBy(c))
  BY DEF RaisedAfterAll
<1>1. PICK call \in ModelCalls, tried \in Seq(Attempts), all \in SUBSET HostNames :
        /\ call = odCall[c] /\ tried = call.tried /\ all = AllHosts(call.provider)
        /\ Exhausts(call) /\ call.provider \in {"ollama", "openrouter"}
  BY CallFields, HostsKnown DEF OllamaInv
<1>2. TriedBy(c) = Range(tried)
  BY <1>1 DEF TriedBy, ToSet, Range
<1>3. IsInjective(tried) /\ \A m \in Models : TriedWith(tried, m) \subseteq all
  BY <1>1 DEF Exhausts
<1>4. Cardinality(Range(tried)) = Len(tried)
  BY <1>3, RangeCounts
<1>5. ASSUME NEW t \in Range(tried)
      PROVE  /\ t = <<t[1], t[2]>> /\ t[1] \in Models /\ t[2] \in TriedWith(tried, t[1]) /\ t[2] \in all
  <2>1. t \in Attempts
    BY DEF Range
  <2>2. t = <<t[1], t[2]>> /\ t[1] \in Models /\ t[2] \in HostNames
    BY <2>1 DEF Attempts
  <2>3. t[2] \in TriedWith(tried, t[1])
    BY <2>2 DEF TriedWith
  <2>4. QED BY <1>3, <2>2, <2>3
<1>6. \A t \in Range(tried) : (t[2] = "openrouter") <=> (call.provider = "openrouter")
  BY <1>1, <1>5 DEF AllHosts
<1>7. ASSUME call.end = "raised", NEW h \in all
      PROVE  /\ <<"fallback", h>> \in Range(tried)
             /\ (\E t \in Range(tried) : t[1] = "asked") => <<"asked", h>> \in Range(tried)
  <2>1. /\ TriedWith(tried, "fallback") = all /\ TriedWith(tried, "asked") \in {{}, all}
    BY <1>1, <1>7 DEF Exhausts
  <2>2. <<"fallback", h>> \in Range(tried)
    BY <1>7, <2>1 DEF TriedWith
  <2>3. ASSUME NEW t \in Range(tried), t[1] = "asked" PROVE <<"asked", h>> \in Range(tried)
    <3>1. TriedWith(tried, "asked") = all
      BY <1>5, <2>1, <2>3
    <3>2. QED BY <1>7, <3>1 DEF TriedWith
  <2>4. QED BY <2>2, <2>3
<1>8. all = IF call.provider = "openrouter" THEN {"openrouter"} ELSE ToSet(Ordered)
  <2>1. odRound \in Nat
    BY DEF OllamaInv, TakeTurns
  <2>2. Range(Hosts("ollama")) = AllHosts("ollama") /\ Hosts("ollama") = Ordered
    BY <2>1, HostsInOrder DEF Hosts
  <2>3. ToSet(Ordered) = AllHosts("ollama")
    BY <2>2 DEF ToSet, Range
  <2>4. QED BY <1>1, <2>3 DEF AllHosts
<1>9. QED BY <1>1, <1>2, <1>4, <1>6, <1>7, <1>8

\* The hosts take turns, whatever the parity of the round.
LEMMA TurnsBalance == OllamaInv => RoundRobinBalances
<1>1. ASSUME OllamaInv, odStrategy = "round_robin"
      PROVE  Cardinality(Firsts("secondary")) - Cardinality(Firsts("primary")) \in {0, 1}
  <2>1. odRound \in Nat /\ Cardinality(Firsts("secondary")) - Cardinality(Firsts("primary")) = odRound % 2
    BY <1>1 DEF OllamaInv, TakeTurns
  <2>2. QED BY <2>1
<1>2. QED BY <1>1 DEF RoundRobinBalances, Firsts

-----------------------------------------------------------------------------
LEMMA HostInductive == HostSpec => []HostInv
BY HostStarts, HostStep, PTL DEF HostSpec

LEMMA OllamaInductive == DispatchSpec => []OllamaInv
BY OllamaStarts, OllamaStep, PTL DEF DispatchSpec

LEMMA OpensOnThree == HostInv => OpenNeedsThreeExceptions
<1> SUFFICES ASSUME HostInv, NEW b \in Backends, hfFails[b] >= CbThreshold PROVE hfRaised[b] >= CbThreshold
  BY DEF OpenNeedsThreeExceptions
<1>1. hfFails[b] \in Nat /\ hfRaised[b] \in Nat /\ hfFails[b] <= hfRaised[b]
  BY DEF HostInv, HostTyped
<1>2. QED BY <1>1 DEF CbThreshold

\* A dispatcher's failures end where its code sends them: for any number of threads and
\* backends a breaker opens only on three exceptions and closes again in time, and for any
\* number of callers, strategies and rounds generate raises only after every host and model
\* has failed once, and the hosts take turns (HostFunctionDispatcher.dispatch, OllamaDispatcher.generate).
THEOREM FailuresHandled == HostSpec /\ DispatchSpec => []FailuresAreHandled
<1>1. HostInv => OpenNeedsThreeExceptions /\ RefusalsEnd /\ ErrorTextIsSuccess
  BY OpensOnThree DEF HostInv
<1>2. HostInv /\ OllamaInv => FailuresAreHandled
  BY <1>1, RaisesAtLast, TurnsBalance DEF FailuresAreHandled
<1>3. QED BY HostInductive, OllamaInductive, <1>2, PTL

-----------------------------------------------------------------------------
(* The daemons on their two buses. *)

DaemonTypes == {"alert", "prose", "dispute_opened", "gas_anomaly", "spindle"}
SpindleTypes == {"NODE_COMPLETED", "VALIDATION_REJECTED", "CONTEXT_INVALIDATED"}
Events == [source : Accounts, type : DaemonTypes \cup SpindleTypes, critical : BOOLEAN, gas : Nat]
Handlers == {"route", "bridge"}
Work == Handlers \cup {"translate", "dispute", "charge", "forward"}
Frames == [event : Events, todo : Seq(Work)]

DaemonsTyped ==
  /\ dgHandlers \in Seq(Handlers) /\ dgBridge \in {0, 1} /\ dgGas \in [Accounts -> Nat]
  /\ dgScribe \in [{"prose", "summary"} -> Nat] /\ dgStack \in Seq(Frames) /\ dgReported \in [BusAgents -> Nat]

\* What is still to do for an event is by its type; agents are the source of nodes
\* that completed, and of those events forwarded.
FrameFits(f) ==
  /\ f.event.type \in SpindleTypes => f.todo \in {<<"charge", "forward">>, <<"forward">>, <<>>}
  /\ f.event.type \in DaemonTypes => \A k \in DOMAIN f.todo : f.todo[k] \in Work \ {"charge", "forward"}
  /\ f.event.type # "alert" => \A k \in DOMAIN f.todo : f.todo[k] \notin {"translate", "dispute"}
  /\ f.event.source \in BusAgents => f.event.type \in {"NODE_COMPLETED", "spindle"}

\* An event's type is of a lower rank than that of the event that raised it.
Rank(type) ==
  CASE type = "alert" -> 6 [] type \in {"prose", "dispute_opened"} -> 5 [] type = "NODE_COMPLETED" -> 4
    [] type = "gas_anomaly" -> 3 [] type \in {"VALIDATION_REJECTED", "CONTEXT_INVALIDATED"} -> 2 [] OTHER -> 1
StackFits ==
  \A i \in DOMAIN dgStack :
    /\ FrameFits(dgStack[i]) /\ Rank(dgStack[i].event.type) + i <= 7
    /\ dgStack[i].event.source \in BusAgents /\ dgStack[i].event.type = "NODE_COMPLETED" => i = 1

\* A node's gas was reported and is still to be charged.
Owing(a) ==
  /\ dgStack # <<>> /\ dgStack[1].event.source = a /\ dgStack[1].event.type = "NODE_COMPLETED"
  /\ dgStack[1].todo = <<"charge", "forward">>
Charged == \A a \in BusAgents : dgReported[a] = dgGas[a] + IF Owing(a) THEN dgStack[1].event.gas ELSE 0

\* A warning that is due has its charge before it, and one that was given is on both
\* buses or has the bridge before it.
Warned ==
  dgBridge > 0 =>
    /\ \E k \in DOMAIN dgHandlers : dgHandlers[k] = "bridge"
    /\ \A a \in BusAgents :
         OnBus("spindle", a, "NODE_COMPLETED") /\ dgGas[a] > GasBudget =>
           Owing(a) \/ OnBus("daemons", "bridge", "gas_anomaly")
    /\ OnBus("daemons", "bridge", "gas_anomaly") =>
         \/ OnBus("spindle", "bridge", "CONTEXT_INVALIDATED")
         \/ \E i \in DOMAIN dgStack :
              /\ dgStack[i].event.type = "gas_anomaly" /\ dgStack[i].event.source = "bridge"
              /\ \E k \in DOMAIN dgStack[i].todo : dgStack[i].todo[k] = "bridge"

DaemonsInv == DaemonsTyped /\ StackFits /\ Charged /\ Warned /\ 2 * dgScribe["prose"] <= ProseBudget

-----------------------------------------------------------------------------
LEMMA NoElement == DOMAIN <<>> = {}
  OBVIOUS

LEMMA EventFields ==
    \A source, type : /\ Event(source, type).source = source /\ Event(source, type).type = type
                      /\ (source \in Accounts /\ type \in DaemonTypes \cup SpindleTypes => Event(source, type) \in Events)
  BY DEF Event, Events

LEMMA SpindleTodo ==
    ASSUME dgBridge \in {0, 1}
    PROVE  [i \in 1 .. 2 * dgBridge |-> IF i % 2 = 1 THEN "charge" ELSE "forward"]
             = IF dgBridge = 0 THEN <<>> ELSE <<"charge", "forward">>
<1>1. CASE dgBridge = 0
  <2>1. 1 .. 2 * 0 = {}
    OBVIOUS
  <2>2. QED BY <1>1, <2>1
<1>2. CASE dgBridge = 1
  <2>1. 1 .. 2 * 1 = {1, 2} /\ 1 % 2 = 1 /\ 2 % 2 = 0
    OBVIOUS
  <2>2. <<"charge", "forward">> = [i \in 1 .. 2 |-> IF i = 1 THEN "charge" ELSE "forward"]
    OBVIOUS
  <2>3. QED BY <1>2, <2>1, <2>2
<1>3. QED BY <1>1, <1>2

\* A frame for an event on either bus.
LEMMA NewFrame ==
    ASSUME DaemonsTyped, NEW e \in Events, e.source \in BusAgents => e.type \in {"NODE_COMPLETED", "spindle"},
           NEW todo, \/ e.type \in DaemonTypes /\ todo = dgHandlers
                     \/ e.type \in SpindleTypes /\ todo \in {<<>>, <<"charge", "forward">>}
    PROVE  Frame(e, todo) \in Frames /\ FrameFits(Frame(e, todo))
<1>1. todo \in Seq(Work)
  <2>1. <<>> \in Seq(Work) /\ <<"charge", "forward">> \in Seq(Work)
    BY DEF Work
  <2>2. dgHandlers \in Seq(Work)
    BY DEF DaemonsTyped, Work
  <2>3. QED BY <2>1, <2>2
<1>2. PICK f : f = Frame(e, todo)
  OBVIOUS
<1>3. f \in Frames /\ f.event = e /\ f.todo = todo
  BY <1>1, <1>2 DEF Frame, Frames
<1>4. CASE e.type \in DaemonTypes /\ todo = dgHandlers
  <2>1. \A k \in DOMAIN todo : todo[k] \in Handlers
    BY <1>4 DEF DaemonsTyped
  <2>2. QED BY <1>2, <1>3, <1>4, <2>1 DEF FrameFits, Handlers, Work, DaemonTypes, SpindleTypes
<1>5. CASE e.type \in SpindleTypes /\ todo \in {<<>>, <<"charge", "forward">>}
  <2>1. \A k \in DOMAIN todo : todo[k] \notin {"translate", "dispute"}
    BY <1>5
  <2>2. QED BY <1>2, <1>3, <1>5, <2>1 DEF FrameFits, DaemonTypes, SpindleTypes
<1>6. QED BY <1>4, <1>5

LEMMA TopFacts ==
    ASSUME DaemonsTyped, dgStack # <<>>
    PROVE  /\ Len(dgStack) \in Nat \ {0} /\ DOMAIN dgStack = 1 .. Len(dgStack)
           /\ Inner = dgStack[Len(dgStack)] /\ Inner \in Frames
           /\ Front(dgStack) \in Seq(Frames) /\ Len(Front(dgStack)) = Len(dgStack) - 1
           /\ \A i \in 1 .. Len(dgStack) - 1 : Front(dgStack)[i] = dgStack[i]
<1>1. dgStack \in Seq(Frames)
  BY DEF DaemonsTyped
<1>2. Len(dgStack) \in Nat \ {0} /\ DOMAIN dgStack = 1 .. Len(dgStack)
  BY <1>1
<1>3. Inner = dgStack[Len(dgStack)] /\ Inner \in Frames
  BY <1>1, <1>2 DEF Inner, Last
<1>4. Front(dgStack) = SubSeq(dgStack, 1, Len(dgStack) - 1)
  BY DEF Front
<1>5. QED BY <1>1, <1>2, <1>3, <1>4, SubSeqProperties

\* What a step does to the frame of the innermost event, and perhaps puts upon it.
Turned(f, g) ==
  LET below == Append(Front(dgStack), f) IN dgStack' = below \/ dgStack' = Append(below, g)
LEMMA Places ==
    ASSUME DaemonsTyped, dgStack # <<>>, NEW f \in Frames, NEW g \in Frames, Turned(f, g)
    PROVE  /\ dgStack' \in Seq(Frames) /\ Len(dgStack') \in {Len(dgStack), Len(dgStack) + 1}
           /\ dgStack'[Len(dgStack)] = f /\ DOMAIN dgStack' = 1 .. Len(dgStack')
           /\ \A i \in 1 .. Len(dgStack) - 1 : dgStack'[i] = dgStack[i]
           /\ Len(dgStack') = Len(dgStack) + 1 => dgStack'[Len(dgStack) + 1] = g
<1>1. PICK n \in Nat \ {0} : n = Len(dgStack)
  BY TopFacts
<1>. DEFINE below == Append(Front(dgStack), f)
<1>2. /\ below \in Seq(Frames) /\ Len(below) = n /\ below[n] = f
      /\ \A i \in 1 .. n - 1 : below[i] = dgStack[i]
  BY <1>1, TopFacts
<1>3. CASE dgStack' = below
  BY <1>1, <1>2, <1>3
<1>4. CASE dgStack' = Append(below, g)
  BY <1>1, <1>2, <1>4
<1>5. QED BY <1>1, <1>3, <1>4 DEF Turned

LEMMA StackKeeps ==
    ASSUME DaemonsTyped, StackFits, dgStack # <<>>, NEW f \in Frames, f.event = Inner.event, FrameFits(f),
           NEW g \in Frames, Turned(f, g),
           dgStack' = Append(Front(dgStack), f) \/
             /\ FrameFits(g) /\ Rank(g.event.type) < Rank(Inner.event.type)
             /\ Rank(g.event.type) \in Nat /\ Rank(Inner.event.type) \in Nat
             /\ g.event.source \in BusAgents => g.event.type = "spindle"
    PROVE  dgStack' \in Seq(Frames) /\ StackFits'
<1>0. PICK n : n = Len(dgStack)
  OBVIOUS
<1>1. n \in Nat \ {0} /\ n = Len(dgStack) /\ Inner = dgStack[n] /\ n \in DOMAIN dgStack /\ DOMAIN dgStack = 1 .. n
  BY <1>0, TopFacts
<1>2. /\ dgStack' \in Seq(Frames) /\ Len(dgStack') \in {n, n + 1}
      /\ dgStack'[n] = f /\ DOMAIN dgStack' = 1 .. Len(dgStack')
      /\ \A i \in 1 .. n - 1 : dgStack'[i] = dgStack[i]
      /\ Len(dgStack') = n + 1 => dgStack'[n + 1] = g
  BY <1>1, Places
<1>3. dgStack' = Append(Front(dgStack), f) => Len(dgStack') = n
  BY <1>1, TopFacts
<1>4. ASSUME NEW i \in DOMAIN dgStack'
      PROVE  /\ FrameFits(dgStack'[i]) /\ Rank(dgStack'[i].event.type) + i <= 7
             /\ dgStack'[i].event.source \in BusAgents /\ dgStack'[i].event.type = "NODE_COMPLETED" => i = 1
  <2>1. i \in 1 .. n - 1 \/ i = n \/ (i = n + 1 /\ Len(dgStack') = n + 1)
    <3>1. CASE Len(dgStack') = n
      <4>1. i \in 1 .. n
        BY <1>2, <1>4, <3>1
      <4>2. QED BY <1>1, <4>1
    <3>2. CASE Len(dgStack') = n + 1
      <4>1. i \in 1 .. n + 1
        BY <1>2, <1>4, <3>2
      <4>2. QED BY <1>1, <3>2, <4>1
    <3>3. QED BY <1>2, <3>1, <3>2
  <2>2. CASE i \in 1 .. n - 1
    <3>1. dgStack'[i] = dgStack[i] /\ i \in DOMAIN dgStack
      <4>1. i \in 1 .. n
        BY <1>1, <2>2
      <4>2. QED BY <1>1, <1>2, <2>2, <4>1
    <3>2. QED BY <3>1 DEF StackFits
  <2>3. CASE i = n
    BY <1>1, <1>2, <2>3 DEF StackFits
  <2>4. CASE i = n + 1 /\ Len(dgStack') = n + 1
    <3>1. dgStack'[i] = g /\ Rank(Inner.event.type) + n <= 7
      <4>1. Rank(dgStack[n].event.type) + n <= 7
        BY <1>1 DEF StackFits
      <4>2. QED BY <1>1, <1>2, <2>4, <4>1
    <3>2. /\ FrameFits(g) /\ Rank(g.event.type) < Rank(Inner.event.type)
          /\ Rank(g.event.type) \in Nat /\ Rank(Inner.event.type) \in Nat
          /\ g.event.source \in BusAgents => g.event.type = "spindle"
      <4>1. dgStack' # Append(Front(dgStack), f)
        BY <1>3, <2>4
      <4>2. QED BY <4>1
    <3>3. Rank(g.event.type) + (n + 1) <= 7
      BY <1>1, <3>1, <3>2
    <3>4. ~(g.event.source \in BusAgents /\ g.event.type = "NODE_COMPLETED")
      BY <3>2
    <3>5. QED BY <2>4, <3>1, <3>2, <3>3, <3>4
  <2>5. QED BY <2>1, <2>2, <2>3, <2>4
<1>5. StackFits'
  BY <1>4 DEF StackFits, FrameFits
<1>6. QED BY <1>2, <1>5

LEMMA Ranks == \A type \in DaemonTypes \cup SpindleTypes : Rank(type) \in 1 .. 6
  BY DEF Rank, DaemonTypes, SpindleTypes

\* A handler is done with the innermost event.
LEMMA TailFits ==
    ASSUME NEW old \in Frames, FrameFits(old), old.todo # <<>>, NEW f, f = Frame(old.event, Tail(old.todo))
    PROVE  /\ f \in Frames /\ f.event = old.event /\ FrameFits(f) /\ f.todo # <<"charge", "forward">>
           /\ Head(old.todo) # "bridge" /\ (\E k \in DOMAIN old.todo : old.todo[k] = "bridge")
                => \E k \in DOMAIN f.todo : f.todo[k] = "bridge"
<1>1. PICK t \in Seq(Work) : t = old.todo
  BY DEF Frames
<1>2. /\ t # <<>> /\ Tail(t) \in Seq(Work) /\ Len(t) \in Nat \ {0} /\ DOMAIN t = 1 .. Len(t) /\ Head(t) = t[1]
      /\ DOMAIN Tail(t) = 1 .. Len(t) - 1 /\ \A k \in DOMAIN Tail(t) : Tail(t)[k] = t[k + 1] /\ k + 1 \in DOMAIN t
  BY <1>1
<1>3. f \in Frames /\ f.event = old.event /\ f.todo = Tail(t) /\ old.event.type \in DaemonTypes \cup SpindleTypes
  BY <1>1, <1>2 DEF Frame, Frames, Events
<1>4. \A k \in DOMAIN Tail(t) : Tail(t)[k] \in {t[j] : j \in DOMAIN t}
  BY <1>2
<1>5. FrameFits(f) /\ f.todo # <<"charge", "forward">>
  <2>1. CASE old.event.type \in SpindleTypes
    <3>1. t \in {<<"charge", "forward">>, <<"forward">>, <<>>}
      BY <1>1, <2>1 DEF FrameFits
    <3>2. Tail(t) \in {<<"forward">>, <<>>}
      <4>1. Tail(<<"charge", "forward">>) = <<"forward">> /\ Tail(<<"forward">>) = <<>>
        OBVIOUS
      <4>2. QED BY <1>2, <3>1, <4>1
    <3>3. \A k \in DOMAIN Tail(t) : Tail(t)[k] \notin {"translate", "dispute"}
      <4>1. \A k \in DOMAIN <<"forward">> : <<"forward">>[k] = "forward"
        OBVIOUS
      <4>2. DOMAIN <<>> = {}
        OBVIOUS
      <4>3. QED BY <3>2, <4>1, <4>2
    <3>4. f.event.source \in BusAgents => f.event.type \in {"NODE_COMPLETED", "spindle"}
      BY <1>3 DEF FrameFits
    <3>5. f.event.type \notin DaemonTypes
      BY <1>3, <2>1 DEF SpindleTypes, DaemonTypes
    <3>6. f.todo \in {<<"forward">>, <<>>} /\ f.todo # <<"charge", "forward">>
      <4>1. <<"forward">> # <<"charge", "forward">> /\ <<>> # <<"charge", "forward">>
        OBVIOUS
      <4>2. QED BY <1>3, <3>2, <4>1
    <3>7. QED BY <1>3, <3>3, <3>4, <3>5, <3>6 DEF FrameFits
  <2>2. CASE old.event.type \in DaemonTypes
    <3>1. \A k \in DOMAIN Tail(t) : Tail(t)[k] \notin {"charge", "forward"} /\ Tail(t)[k] \in Work
      BY <1>1, <1>2, <2>2 DEF FrameFits
    <3>2. Tail(t) # <<"charge", "forward">>
      <4>1. 1 \in DOMAIN <<"charge", "forward">> /\ <<"charge", "forward">>[1] = "charge"
        OBVIOUS
      <4>2. QED BY <3>1, <4>1
    <3>3. old.event.type # "alert" => \A k \in DOMAIN Tail(t) : Tail(t)[k] \notin {"translate", "dispute"}
      BY <1>1, <1>2 DEF FrameFits
    <3>4. f.event.source \in BusAgents => f.event.type \in {"NODE_COMPLETED", "spindle"}
      BY <1>3 DEF FrameFits
    <3>5. QED BY <1>3, <2>2, <3>1, <3>2, <3>3, <3>4 DEF FrameFits, SpindleTypes, DaemonTypes
  <2>3. QED BY <1>3, <2>1, <2>2
<1>6. ASSUME Head(t) # "bridge", NEW k \in DOMAIN t, t[k] = "bridge"
      PROVE  \E j \in DOMAIN Tail(t) : Tail(t)[j] = "bridge"
  <2>1. k # 1 /\ k - 1 \in DOMAIN Tail(t) /\ (k - 1) + 1 = k
    BY <1>2, <1>6
  <2>2. Tail(t)[k - 1] = t[k]
    BY <1>2, <2>1
  <2>3. QED BY <1>6, <2>1, <2>2
<1>7. QED BY <1>1, <1>3, <1>5, <1>6

\* A step that charges nobody: what is left to show of it.
WarningPending(f) ==
  /\ f.event.type = "gas_anomaly" /\ f.event.source = "bridge" /\ \E k \in DOMAIN f.todo : f.todo[k] = "bridge"
LEMMA TurnKeeps ==
    ASSUME DaemonsInv, dgStack # <<>>, NEW old, old = Inner,
           NEW f \in Frames, f.event = old.event, FrameFits(f), NEW g \in Frames, Turned(f, g),
           dgStack' = Append(Front(dgStack), f) \/
             /\ FrameFits(g) /\ Rank(g.event.type) < Rank(old.event.type)
             /\ g.event.source \in BusAgents => g.event.type = "spindle",
           UNCHANGED <<dgHandlers, dgBridge, dgGas, dgReported>>,
           dgScribe' \in [{"prose", "summary"} -> Nat], 2 * dgScribe'["prose"] <= ProseBudget,
           old.event.type = "NODE_COMPLETED" => old.todo # <<"charge", "forward">>,
           f.todo # <<"charge", "forward">>, dgLog \subseteq dgLog',
           \A a \in BusAgents : OnBus("spindle", a, "NODE_COMPLETED")' => OnBus("spindle", a, "NODE_COMPLETED"),
           OnBus("daemons", "bridge", "gas_anomaly")' => OnBus("daemons", "bridge", "gas_anomaly"),
           WarningPending(old) => WarningPending(f) \/ OnBus("spindle", "bridge", "CONTEXT_INVALIDATED")'
    PROVE  DaemonsInv'
<1>0. PICK n : n = Len(dgStack)
  OBVIOUS
<1>1. /\ DaemonsTyped /\ StackFits
      /\ n \in Nat \ {0} /\ old = dgStack[n] /\ DOMAIN dgStack = 1 .. n /\ old \in Frames /\ n \in DOMAIN dgStack
  BY <1>0, TopFacts DEF DaemonsInv
<1>2. old.event.type \in DaemonTypes \cup SpindleTypes /\ g.event.type \in DaemonTypes \cup SpindleTypes
  BY <1>1 DEF Frames, Events
<1>3. dgStack' \in Seq(Frames) /\ StackFits'
  <2>1. Rank(old.event.type) \in Nat /\ Rank(g.event.type) \in Nat
    BY <1>2, Ranks
  <2>2. QED BY <1>1, <2>1, StackKeeps
<1>4. /\ dgStack'[n] = f /\ DOMAIN dgStack' = 1 .. Len(dgStack') /\ Len(dgStack') \in {n, n + 1}
      /\ \A i \in 1 .. n - 1 : dgStack'[i] = dgStack[i]
  BY <1>0, <1>1, Places
<1>5. \A a : Owing(a)' <=> Owing(a)
  <2>0. dgStack' # <<>>
    <3>1. n \in DOMAIN dgStack'
      <4>1. n \in 1 .. n /\ n \in 1 .. n + 1
        BY <1>1
      <4>2. DOMAIN dgStack' = 1 .. n \/ DOMAIN dgStack' = 1 .. n + 1
        BY <1>4
      <4>3. QED BY <4>1, <4>2
    <3>2. QED BY <3>1, NoElement
  <2>1. CASE n = 1
    BY <1>1, <1>4, <2>0, <2>1 DEF Owing
  <2>2. CASE n > 1
    <3>1. dgStack'[1] = dgStack[1]
      <4>1. 1 \in 1 .. n - 1
        BY <1>1, <2>2
      <4>2. QED BY <1>4, <4>1
    <3>2. QED BY <2>0, <3>1 DEF Owing
  <2>3. QED BY <1>1, <2>1, <2>2
<1>6. Charged'
  <2>1. ASSUME NEW a \in BusAgents, Owing(a) PROVE dgStack'[1].event.gas = dgStack[1].event.gas
    <3>1. CASE n = 1
      BY <1>1, <1>4, <3>1
    <3>2. CASE n > 1
      <4>1. 1 \in 1 .. n - 1
        BY <1>1, <3>2
      <4>2. QED BY <1>4, <4>1
    <3>3. QED BY <1>1, <3>1, <3>2
  <2>2. QED BY <1>5, <2>1 DEF DaemonsInv, Charged
<1>7. Warned'
  <2> SUFFICES ASSUME dgBridge > 0 PROVE Warned'
    BY DEF Warned
  <2>1. \A s, x, y : OnBus(s, x, y) => OnBus(s, x, y)'
    BY DEF OnBus
  <2>2. ASSUME NEW i \in DOMAIN dgStack, WarningPending(dgStack[i])
        PROVE  \/ OnBus("spindle", "bridge", "CONTEXT_INVALIDATED")'
               \/ \E j \in DOMAIN dgStack' : WarningPending(dgStack'[j])
    <3>1. i \in DOMAIN dgStack'
      <4>1. i \in 1 .. n /\ 1 .. n \subseteq 1 .. n + 1
        BY <1>1
      <4>2. DOMAIN dgStack' = 1 .. n \/ DOMAIN dgStack' = 1 .. n + 1
        BY <1>4
      <4>3. QED BY <4>1, <4>2
    <3>2. CASE i = n
      BY <1>1, <1>4, <2>2, <3>1, <3>2
    <3>3. CASE i # n
      <4>1. i \in 1 .. n - 1
        BY <1>1, <3>3
      <4>2. QED BY <1>4, <2>2, <3>1, <4>1
    <3>4. QED BY <3>2, <3>3
  <2>3. /\ \E k \in DOMAIN dgHandlers : dgHandlers[k] = "bridge"
        /\ \A a \in BusAgents :
             OnBus("spindle", a, "NODE_COMPLETED") /\ dgGas[a] > GasBudget =>
               Owing(a) \/ OnBus("daemons", "bridge", "gas_anomaly")
        /\ OnBus("daemons", "bridge", "gas_anomaly") =>
             \/ OnBus("spindle", "bridge", "CONTEXT_INVALIDATED")
             \/ \E i \in DOMAIN dgStack : WarningPending(dgStack[i])
    BY DEF DaemonsInv, Warned, WarningPending
  <2>4. OnBus("daemons", "bridge", "gas_anomaly")' =>
          \/ OnBus("spindle", "bridge", "CONTEXT_INVALIDATED")'
          \/ \E j \in DOMAIN dgStack' : WarningPending(dgStack'[j])
    BY <2>1, <2>2, <2>3
  <2>5. \A a \in BusAgents :
          OnBus("spindle", a, "NODE_COMPLETED")' /\ dgGas'[a] > GasBudget =>
            Owing(a)' \/ OnBus("daemons", "bridge", "gas_anomaly")'
    BY <1>5, <2>1, <2>3
  <2>6. QED BY <2>3, <2>4, <2>5 DEF Warned, WarningPending
<1>8. DaemonsTyped'
  BY <1>1, <1>3 DEF DaemonsTyped
<1>9. QED BY <1>3, <1>6, <1>7, <1>8 DEF DaemonsInv

\* What is known of an event that a handler is at work on.
LEMMA Busy ==
    ASSUME DaemonsInv, NEW what \in Work, Doing(what)
    PROVE  /\ DaemonsTyped /\ dgStack # <<>> /\ Inner \in Frames /\ FrameFits(Inner) /\ Inner.todo # <<>>
           /\ Inner.event \in Events /\ Inner.todo \in Seq(Work)
           /\ Head(Inner.todo) = what /\ \E k \in DOMAIN Inner.todo : Inner.todo[k] = what
           /\ Rest(<<>>) = Append(Front(dgStack), Frame(Inner.event, Tail(Inner.todo)))
           /\ what # "charge" => Inner.todo # <<"charge", "forward">>
           /\ what \in {"charge", "forward"} => Inner.event.type \in SpindleTypes
           /\ what \in Work \ {"charge", "forward"} => Inner.event.type \in DaemonTypes
           /\ what \in {"translate", "dispute"} => Inner.event.type = "alert"
<1>1. DaemonsTyped /\ dgStack # <<>> /\ Inner.todo # <<>> /\ Head(Inner.todo) = what
  BY DEF DaemonsInv, Doing
<1>2. Inner \in Frames /\ FrameFits(Inner)
  BY <1>1, TopFacts DEF DaemonsInv, StackFits
<1>3. PICK old \in Frames : old = Inner
  BY <1>2
<1>4. PICK t \in Seq(Work) : t = old.todo /\ t # <<>> /\ old.event \in Events
  BY <1>1, <1>3 DEF Frames
<1>5. 1 \in DOMAIN t /\ t[1] = what /\ Head(t) = what
  BY <1>1, <1>3, <1>4
<1>6. Rest(<<>>) = Append(Front(dgStack), Frame(old.event, Tail(t)))
  <2>1. <<>> \o Tail(t) = Tail(t)
    BY <1>4
  <2>2. QED BY <1>3, <1>4, <2>1 DEF Rest
<1>7. what # "charge" => t # <<"charge", "forward">>
  BY <1>5
<1>8. old.event.type \in DaemonTypes \cup SpindleTypes
  BY <1>4 DEF Events
<1>9. old.event.type \in SpindleTypes => what \in {"charge", "forward"}
  <2> SUFFICES ASSUME old.event.type \in SpindleTypes PROVE what \in {"charge", "forward"}
    OBVIOUS
  <2>1. t \in {<<"charge", "forward">>, <<"forward">>}
    BY <1>2, <1>3, <1>4 DEF FrameFits
  <2>2. <<"charge", "forward">>[1] = "charge" /\ <<"forward">>[1] = "forward"
    OBVIOUS
  <2>3. QED BY <1>5, <2>1, <2>2
<1>10. old.event.type \in DaemonTypes => what \notin {"charge", "forward"}
  BY <1>2, <1>3, <1>4, <1>5 DEF FrameFits
<1>11. old.event.type # "alert" => what \notin {"translate", "dispute"}
  BY <1>2, <1>3, <1>4, <1>5 DEF FrameFits
<1>12. QED BY <1>1, <1>2, <1>3, <1>4, <1>5, <1>6, <1>7, <1>8, <1>9, <1>10, <1>11

LEMMA RouteKeeps == ASSUME DaemonsInv, RouteEvent PROVE DaemonsInv'
<1>0. PICK old : old = Inner
  OBVIOUS
<1>1. /\ DaemonsTyped /\ dgStack # <<>> /\ old \in Frames /\ FrameFits(old) /\ old.todo # <<>>
      /\ old.event \in Events /\ old.todo \in Seq(Work) /\ Head(old.todo) = "route"
      /\ Rest(<<>>) = Append(Front(dgStack), Frame(old.event, Tail(old.todo)))
      /\ old.todo # <<"charge", "forward">> /\ old.event.type \in DaemonTypes
  BY <1>0, Busy DEF RouteEvent, Work, Handlers
<1>2. /\ UNCHANGED <<dgHandlers, dgBridge, dgGas, dgReported, dgScribe, dgLog>>
      /\ \/ dgStack' = Rest(<<>>)
         \/ /\ old.event.source = "sentinel" /\ old.event.type = "alert"
            /\ dgStack' = Rest(<<"translate", "dispute">>) \/ dgStack' = Rest(<<"translate">>)
  BY <1>0 DEF RouteEvent, Same
<1>3. PICK t : t = Frame(old.event, Tail(old.todo))
  OBVIOUS
<1>4. /\ t \in Frames /\ t.event = old.event /\ FrameFits(t) /\ t.todo # <<"charge", "forward">>
      /\ (\E k \in DOMAIN old.todo : old.todo[k] = "bridge") => \E k \in DOMAIN t.todo : t.todo[k] = "bridge"
  BY <1>1, <1>3, TailFits
<1>5. PICK f \in Frames : /\ f.event = old.event /\ FrameFits(f) /\ f.todo # <<"charge", "forward">>
                          /\ dgStack' = Append(Front(dgStack), f)
                          /\ WarningPending(old) => WarningPending(f)
  <2>1. CASE dgStack' = Rest(<<>>)
    BY <1>1, <1>3, <1>4, <2>1 DEF WarningPending
  <2>2. ASSUME NEW more \in Seq({"translate", "dispute"}), more # <<>>, dgStack' = Rest(more),
               old.event.source = "sentinel", old.event.type = "alert"
        PROVE  \E f \in Frames : /\ f.event = old.event /\ FrameFits(f) /\ f.todo # <<"charge", "forward">>
                                 /\ dgStack' = Append(Front(dgStack), f)
                                 /\ WarningPending(old) => WarningPending(f)
    <3>1. PICK rest \in Seq(Work) : rest = Tail(old.todo) /\ t.todo = rest
      <4>1. Tail(old.todo) \in Seq(Work)
        BY <1>1
      <4>2. t.todo = Tail(old.todo)
        BY <1>3 DEF Frame
      <4>3. QED BY <4>1, <4>2
    <3>2. PICK f : f = Frame(old.event, more \o rest)
      OBVIOUS
    <3>3. \A k \in DOMAIN rest : rest[k] \in Work \ {"charge", "forward"}
      BY <1>1, <1>4, <3>1 DEF FrameFits
    <3>4. more \o rest \in Seq(Work \ {"charge", "forward"})
      <4>1. rest \in Seq(Work \ {"charge", "forward"})
        BY <3>1, <3>3, SequenceOfRange DEF Range
      <4>2. more \in Seq(Work \ {"charge", "forward"})
        BY <2>2 DEF Work, Handlers
      <4>3. QED BY <4>1, <4>2
    <3>5. f \in Frames /\ f.event = old.event /\ f.todo = more \o rest /\ f.todo \in Seq(Work)
      BY <1>1, <3>2, <3>4 DEF Frame, Frames
    <3>6. \A k \in DOMAIN f.todo : f.todo[k] \in Work \ {"charge", "forward"}
      BY <3>4, <3>5
    <3>7. f.todo # <<"charge", "forward">>
      <4>1. 1 \in DOMAIN <<"charge", "forward">> /\ <<"charge", "forward">>[1] = "charge"
        OBVIOUS
      <4>2. QED BY <3>6, <4>1
    <3>8. FrameFits(f)
      <4>1. "sentinel" \notin BusAgents
        BY DaemonsAssumption DEF Triad
      <4>2. QED BY <2>2, <3>5, <3>6, <4>1 DEF FrameFits, SpindleTypes
    <3>9. dgStack' = Append(Front(dgStack), f)
      BY <1>0, <2>2, <3>1, <3>2 DEF Rest
    <3>10. ~WarningPending(old)
      BY <2>2 DEF WarningPending
    <3>11. QED BY <3>5, <3>7, <3>8, <3>9, <3>10
  <2>3. <<"translate", "dispute">> \in Seq({"translate", "dispute"}) /\ <<"translate">> \in Seq({"translate", "dispute"})
    OBVIOUS
  <2>4. <<"translate", "dispute">> # <<>> /\ <<"translate">> # <<>>
    OBVIOUS
  <2>5. QED BY <1>2, <2>1, <2>2, <2>3, <2>4
<1>6. Turned(f, f)
  BY <1>5 DEF Turned
<1>7. /\ dgScribe' \in [{"prose", "summary"} -> Nat] /\ 2 * dgScribe'["prose"] <= ProseBudget
      /\ dgLog \subseteq dgLog'
      /\ \A s, x, y : OnBus(s, x, y)' => OnBus(s, x, y)
  BY <1>2 DEF DaemonsInv, DaemonsTyped, OnBus
<1>8. QED BY <1>0, <1>1, <1>2, <1>5, <1>6, <1>7, TurnKeeps

\* A handler is called, and perhaps emits or publishes e.
LEMMA HandlerKeeps ==
    ASSUME DaemonsInv, NEW what \in Work, Doing(what), what = "charge" => Inner.event.type # "NODE_COMPLETED",
           NEW e \in Events, NEW todo,
           \/ dgStack' = Rest(<<>>)
           \/ /\ dgStack' = Append(Rest(<<>>), Frame(e, todo))
              /\ Rank(e.type) < Rank(Inner.event.type) /\ (e.source \in BusAgents => e.type = "spindle")
              /\ \/ e.type \in DaemonTypes /\ todo = dgHandlers
                 \/ e.type \in SpindleTypes /\ todo \in {<<>>, <<"charge", "forward">>},
           UNCHANGED <<dgHandlers, dgBridge, dgGas, dgReported>>,
           dgScribe' \in [{"prose", "summary"} -> Nat], 2 * dgScribe'["prose"] <= ProseBudget,
           dgLog \subseteq dgLog',
           \A a \in BusAgents : OnBus("spindle", a, "NODE_COMPLETED")' => OnBus("spindle", a, "NODE_COMPLETED"),
           OnBus("daemons", "bridge", "gas_anomaly")' => OnBus("daemons", "bridge", "gas_anomaly"),
           what = "bridge" /\ Inner.event.type = "gas_anomaly" /\ Inner.event.source = "bridge"
             => OnBus("spindle", "bridge", "CONTEXT_INVALIDATED")'
    PROVE  DaemonsInv'
<1>1. PICK old : old = Inner
  OBVIOUS
<1>2. /\ DaemonsTyped /\ dgStack # <<>> /\ old \in Frames /\ FrameFits(old) /\ old.todo # <<>>
      /\ old.event \in Events /\ Head(old.todo) = what
      /\ Rest(<<>>) = Append(Front(dgStack), Frame(old.event, Tail(old.todo)))
      /\ old.event.type = "NODE_COMPLETED" => old.todo # <<"charge", "forward">>
  BY <1>1, Busy
<1>3. PICK f : f = Frame(old.event, Tail(old.todo))
  OBVIOUS
<1>4. /\ f \in Frames /\ f.event = old.event /\ FrameFits(f) /\ f.todo # <<"charge", "forward">>
      /\ what # "bridge" /\ WarningPending(old) => WarningPending(f)
  BY <1>2, <1>3, TailFits DEF WarningPending
<1>5. what = "bridge" /\ WarningPending(old) => OnBus("spindle", "bridge", "CONTEXT_INVALIDATED")'
  BY <1>1 DEF WarningPending
<1>6. CASE dgStack' = Rest(<<>>)
  <2>1. dgStack' = Append(Front(dgStack), f)
    BY <1>2, <1>3, <1>6
  <2>2. Turned(f, f)
    BY <2>1 DEF Turned
  <2>3. QED BY <1>1, <1>2, <1>4, <1>5, <2>1, <2>2, TurnKeeps
<1>7. CASE /\ dgStack' = Append(Rest(<<>>), Frame(e, todo))
           /\ Rank(e.type) < Rank(old.event.type) /\ (e.source \in BusAgents => e.type = "spindle")
           /\ \/ e.type \in DaemonTypes /\ todo = dgHandlers
              \/ e.type \in SpindleTypes /\ todo \in {<<>>, <<"charge", "forward">>}
  <2>1. PICK g : g = Frame(e, todo)
    OBVIOUS
  <2>2. g \in Frames /\ FrameFits(g) /\ g.event = e
    BY <1>2, <1>7, <2>1, NewFrame DEF Frame
  <2>3. Turned(f, g)
    BY <1>2, <1>3, <1>7, <2>1 DEF Turned
  <2>4. Rank(g.event.type) < Rank(old.event.type) /\ (g.event.source \in BusAgents => g.event.type = "spindle")
    BY <1>7, <2>2
  <2>5. QED BY <1>1, <1>2, <1>4, <1>5, <2>2, <2>3, <2>4, TurnKeeps
<1>8. QED BY <1>1, <1>6, <1>7

LEMMA NotDaemons == BusAgents \cap {"sentinel", "scribe", "arbiter", "bridge"} = {}
  BY DaemonsAssumption DEF Triad

LEMMA ScribeUnchanged ==
    ASSUME DaemonsInv, UNCHANGED dgScribe
    PROVE  dgScribe' \in [{"prose", "summary"} -> Nat] /\ 2 * dgScribe'["prose"] <= ProseBudget
  BY DEF DaemonsInv, DaemonsTyped

\* One more entry of the log.
LEMMA Logging ==
    ASSUME NEW e, NEW b, dgLog' = dgLog \cup {Entry(b, e)}
    PROVE  /\ dgLog \subseteq dgLog' /\ OnBus(b, e.source, e.type)'
           /\ \A s, x, y : OnBus(s, x, y)' => OnBus(s, x, y) \/ (s = b /\ x = e.source /\ y = e.type)
  BY DEF Entry, OnBus

LEMMA ScribeCounts ==
    ASSUME DaemonsInv, dgScribe' = [dgScribe EXCEPT ![Translated(dgScribe)] = @ + 1]
    PROVE  dgScribe' \in [{"prose", "summary"} -> Nat] /\ 2 * dgScribe'["prose"] <= ProseBudget
<1>1. PICK p \in Nat, s \in Nat : p = dgScribe["prose"] /\ s = dgScribe["summary"]
  BY DEF DaemonsInv, DaemonsTyped
<1>2. dgScribe \in [{"prose", "summary"} -> Nat] /\ 2 * p <= ProseBudget /\ ProseBudget \in Nat
  BY <1>1, DaemonsAssumption DEF DaemonsInv, DaemonsTyped
<1>3. CASE (2 * p + s) + 2 > ProseBudget
  <2>1. dgScribe' = [dgScribe EXCEPT !["summary"] = s + 1]
    BY <1>1, <1>3 DEF Translated, Tokens
  <2>2. QED BY <1>1, <1>2, <2>1
<1>4. CASE ~((2 * p + s) + 2 > ProseBudget)
  <2>1. dgScribe' = [dgScribe EXCEPT !["prose"] = p + 1]
    BY <1>1, <1>4 DEF Translated, Tokens
  <2>2. 2 * (p + 1) <= ProseBudget
    BY <1>2, <1>4
  <2>3. QED BY <1>1, <1>2, <2>1, <2>2
<1>5. QED BY <1>3, <1>4

LEMMA TranslateKeeps == ASSUME DaemonsInv, Translate PROVE DaemonsInv'
<1>1. /\ Doing("translate") /\ UNCHANGED <<dgHandlers, dgBridge, dgGas, dgReported>>
      /\ \/ dgStack' = Rest(<<>>) /\ UNCHANGED <<dgScribe, dgLog>>
         \/ /\ dgScribe' = [dgScribe EXCEPT ![Translated(dgScribe)] = @ + 1]
            /\ dgStack' = Append(Rest(<<>>), Frame(Event("scribe", "prose"), dgHandlers))
            /\ dgLog' = dgLog \cup {Entry("daemons", Event("scribe", "prose"))}
  BY DEF Translate, Same, Emit
<1>2. PICK e : e = Event("scribe", "prose")
  OBVIOUS
<1>3. e \in Events /\ e.source = "scribe" /\ e.type = "prose"
  BY <1>2, EventFields DEF Accounts, Triad, DaemonTypes
<1>4. Inner.event.type = "alert" /\ "translate" \in Work
  BY <1>1, Busy DEF Work
<1>5. Rank(e.type) < Rank(Inner.event.type) /\ e.type \in DaemonTypes /\ e.source \notin BusAgents
  BY <1>3, <1>4, NotDaemons DEF Rank, DaemonTypes
<1>6. dgScribe' \in [{"prose", "summary"} -> Nat] /\ 2 * dgScribe'["prose"] <= ProseBudget
  BY <1>1, ScribeCounts, ScribeUnchanged
<1>7. /\ dgLog \subseteq dgLog'
      /\ \A a \in BusAgents : OnBus("spindle", a, "NODE_COMPLETED")' => OnBus("spindle", a, "NODE_COMPLETED")
      /\ OnBus("daemons", "bridge", "gas_anomaly")' => OnBus("daemons", "bridge", "gas_anomaly")
  <2>1. CASE UNCHANGED dgLog
    BY <2>1 DEF OnBus
  <2>2. CASE dgLog' = dgLog \cup {Entry("daemons", e)}
    BY <1>3, <2>2, Logging
  <2>3. QED BY <1>1, <1>2, <2>1, <2>2
<1>8. QED BY <1>1, <1>2, <1>3, <1>4, <1>5, <1>6, <1>7, HandlerKeeps

LEMMA DisputeKeeps == ASSUME DaemonsInv, OpenDispute PROVE DaemonsInv'
<1>1. /\ Doing("dispute") /\ UNCHANGED <<dgHandlers, dgBridge, dgGas, dgReported, dgScribe>>
      /\ \/ dgStack' = Rest(<<>>) /\ UNCHANGED dgLog
         \/ /\ dgStack' = Append(Rest(<<>>), Frame(Event("arbiter", "dispute_opened"), dgHandlers))
            /\ dgLog' = dgLog \cup {Entry("daemons", Event("arbiter", "dispute_opened"))}
  BY DEF OpenDispute, Same, Emit
<1>2. PICK e : e = Event("arbiter", "dispute_opened")
  OBVIOUS
<1>3. e \in Events /\ e.source = "arbiter" /\ e.type = "dispute_opened"
  BY <1>2, EventFields DEF Accounts, Triad, DaemonTypes
<1>4. Inner.event.type = "alert" /\ "dispute" \in Work
  BY <1>1, Busy DEF Work
<1>5. Rank(e.type) < Rank(Inner.event.type) /\ e.type \in DaemonTypes /\ e.source \notin BusAgents
  BY <1>3, <1>4, NotDaemons DEF Rank, DaemonTypes
<1>6. dgScribe' \in [{"prose", "summary"} -> Nat] /\ 2 * dgScribe'["prose"] <= ProseBudget
  BY <1>1, ScribeUnchanged
<1>7. /\ dgLog \subseteq dgLog'
      /\ \A a \in BusAgents : OnBus("spindle", a, "NODE_COMPLETED")' => OnBus("spindle", a, "NODE_COMPLETED")
      /\ OnBus("daemons", "bridge", "gas_anomaly")' => OnBus("daemons", "bridge", "gas_anomaly")
  <2>1. CASE UNCHANGED dgLog
    BY <2>1 DEF OnBus
  <2>2. CASE dgLog' = dgLog \cup {Entry("daemons", e)}
    BY <1>3, <2>2, Logging
  <2>3. QED BY <1>1, <1>2, <2>1, <2>2
<1>8. QED BY <1>1, <1>2, <1>3, <1>4, <1>5, <1>6, <1>7, HandlerKeeps

LEMMA BridgeKeeps == ASSUME DaemonsInv, ToSpindleBus PROVE DaemonsInv'
<1>1. PICK old : old = Inner
  OBVIOUS
<1>2. PICK e : e = Event(old.event.source, ToSpindle(old.event.type))
  OBVIOUS
<1>3. PICK todo : todo = [i \in 1 .. 2 * dgBridge |-> IF i % 2 = 1 THEN "charge" ELSE "forward"]
  OBVIOUS
<1>4. /\ Doing("bridge") /\ UNCHANGED <<dgHandlers, dgBridge, dgGas, dgReported, dgScribe>>
      /\ \/ old.event.type = "spindle" /\ dgStack' = Rest(<<>>) /\ UNCHANGED dgLog
         \/ /\ old.event.type # "spindle" /\ dgStack' = Append(Rest(<<>>), Frame(e, todo))
            /\ dgLog' = dgLog \cup {Entry("spindle", e)}
  BY <1>1, <1>2, <1>3 DEF ToSpindleBus, Same, Publish, FromSpindle
<1>5. /\ DaemonsTyped /\ old \in Frames /\ FrameFits(old) /\ old.event \in Events /\ old.event.type \in DaemonTypes
      /\ "bridge" \in Work
  BY <1>1, <1>4, Busy DEF Work, Handlers
<1>6. /\ e \in Events /\ e.source = old.event.source /\ e.type = ToSpindle(old.event.type) /\ e.type \in SpindleTypes
      /\ old.event.type # "spindle" => Rank(e.type) < Rank(old.event.type)
  <2>1. ToSpindle(old.event.type) \in SpindleTypes
    BY DEF ToSpindle, SpindleTypes
  <2>2. old.event.source \in Accounts
    BY <1>5 DEF Events
  <2>3. old.event.type # "spindle" => Rank(ToSpindle(old.event.type)) < Rank(old.event.type)
    BY <1>5 DEF DaemonTypes, ToSpindle, Rank
  <2>4. QED BY <1>2, <2>1, <2>2, <2>3, EventFields
<1>7. todo \in {<<>>, <<"charge", "forward">>}
  BY <1>3, <1>5, SpindleTodo DEF DaemonsTyped
<1>8. old.event.type # "spindle" => e.source \notin BusAgents
  BY <1>5, <1>6 DEF FrameFits, DaemonTypes
<1>9. dgScribe' \in [{"prose", "summary"} -> Nat] /\ 2 * dgScribe'["prose"] <= ProseBudget
  BY <1>4, ScribeUnchanged
<1>10. /\ dgLog \subseteq dgLog'
       /\ \A a \in BusAgents : OnBus("spindle", a, "NODE_COMPLETED")' => OnBus("spindle", a, "NODE_COMPLETED")
       /\ OnBus("daemons", "bridge", "gas_anomaly")' => OnBus("daemons", "bridge", "gas_anomaly")
       /\ old.event.type = "gas_anomaly" /\ old.event.source = "bridge"
            => OnBus("spindle", "bridge", "CONTEXT_INVALIDATED")'
  <2>1. CASE old.event.type = "spindle" /\ UNCHANGED dgLog
    BY <2>1 DEF OnBus
  <2>2. CASE old.event.type # "spindle" /\ dgLog' = dgLog \cup {Entry("spindle", e)}
    <3>1. old.event.type = "gas_anomaly" => e.type = "CONTEXT_INVALIDATED"
      BY <1>6 DEF ToSpindle
    <3>2. QED BY <1>6, <1>8, <2>2, <3>1, Logging
  <2>3. QED BY <1>4, <2>1, <2>2
<1>11. QED BY <1>1, <1>4, <1>5, <1>6, <1>7, <1>8, <1>9, <1>10, HandlerKeeps

LEMMA ForwardKeeps == ASSUME DaemonsInv, ToDaemonBus PROVE DaemonsInv'
<1>1. PICK old : old = Inner
  OBVIOUS
<1>2. PICK e : e = Event(old.event.source, "spindle")
  OBVIOUS
<1>3. /\ Doing("forward") /\ UNCHANGED <<dgHandlers, dgBridge, dgGas, dgReported, dgScribe>>
      /\ dgStack' = Append(Rest(<<>>), Frame(e, dgHandlers)) /\ dgLog' = dgLog \cup {Entry("daemons", e)}
  BY <1>1, <1>2 DEF ToDaemonBus, Same, Emit
<1>4. old.event \in Events /\ old.event.type \in SpindleTypes /\ "forward" \in Work
  BY <1>1, <1>3, Busy DEF Work
<1>5. e \in Events /\ e.source = old.event.source /\ e.type = "spindle" /\ e.type \in DaemonTypes
  BY <1>2, <1>4, EventFields DEF Events, DaemonTypes
<1>6. Rank(e.type) < Rank(old.event.type)
  BY <1>4, <1>5 DEF SpindleTypes, Rank
<1>7. dgScribe' \in [{"prose", "summary"} -> Nat] /\ 2 * dgScribe'["prose"] <= ProseBudget
  BY <1>3, ScribeUnchanged
<1>8. /\ dgLog \subseteq dgLog'
      /\ \A a \in BusAgents : OnBus("spindle", a, "NODE_COMPLETED")' => OnBus("spindle", a, "NODE_COMPLETED")
      /\ OnBus("daemons", "bridge", "gas_anomaly")' => OnBus("daemons", "bridge", "gas_anomaly")
  BY <1>3, <1>5, Logging
<1>9. QED BY <1>1, <1>3, <1>4, <1>5, <1>6, <1>7, <1>8, HandlerKeeps

LEMMA ChargeKeeps == ASSUME DaemonsInv, RecordGas PROVE DaemonsInv'
<1>1. PICK old : old = Inner
  OBVIOUS
<1>2. /\ Doing("charge") /\ UNCHANGED <<dgHandlers, dgBridge, dgReported, dgScribe>> /\ "charge" \in Work
  BY DEF RecordGas, Same, Work
<1>3. /\ DaemonsTyped /\ dgStack # <<>> /\ old \in Frames /\ FrameFits(old) /\ old.todo # <<>> /\ old.event \in Events
      /\ Head(old.todo) = "charge" /\ old.event.type \in SpindleTypes
      /\ Rest(<<>>) = Append(Front(dgStack), Frame(old.event, Tail(old.todo)))
  BY <1>1, <1>2, Busy
<1>4. CASE old.event.type # "NODE_COMPLETED"
  <2>1. dgStack' = Rest(<<>>) /\ UNCHANGED <<dgGas, dgLog>>
    BY <1>1, <1>4 DEF RecordGas
  <2>2. /\ dgLog \subseteq dgLog' /\ \A s, x, y : OnBus(s, x, y)' => OnBus(s, x, y)
    BY <2>1 DEF OnBus
  <2>3. dgScribe' \in [{"prose", "summary"} -> Nat] /\ 2 * dgScribe'["prose"] <= ProseBudget
    BY <1>2, ScribeUnchanged
  <2>4. QED BY <1>1, <1>2, <1>3, <1>4, <2>1, <2>2, <2>3, HandlerKeeps
<1>5. CASE old.event.type = "NODE_COMPLETED"
  <2>1. PICK source, gas, total, e :
          /\ source = old.event.source /\ gas = old.event.gas /\ total = dgGas[source] + gas
          /\ e = Event("bridge", "gas_anomaly")
    OBVIOUS
  <2>2. /\ dgGas' = [dgGas EXCEPT ![source] = total]
        /\ \/ /\ total > GasBudget /\ dgStack' = Append(Rest(<<>>), Frame(e, dgHandlers))
              /\ dgLog' = dgLog \cup {Entry("daemons", e)}
           \/ ~(total > GasBudget) /\ dgStack' = Rest(<<>>) /\ UNCHANGED dgLog
    BY <1>1, <1>5, <2>1 DEF RecordGas, OverBudget, Emit
  <2>3. source \in Accounts /\ gas \in Nat /\ dgGas \in [Accounts -> Nat] /\ total \in Nat
    BY <1>3, <2>1 DEF Events, DaemonsTyped
  <2>4. /\ dgGas' \in [Accounts -> Nat] /\ dgGas'[source] = total
        /\ \A a \in Accounts : a # source => dgGas'[a] = dgGas[a]
    BY <2>2, <2>3
  <2>5. old.todo = <<"charge", "forward">>
    <3>1. old.todo \in {<<"charge", "forward">>, <<"forward">>}
      BY <1>3 DEF FrameFits
    <3>2. Head(<<"forward">>) = "forward"
      OBVIOUS
    <3>3. QED BY <1>3, <3>1, <3>2
  <2>6. PICK f \in Frames : /\ f = Frame(old.event, Tail(old.todo)) /\ f.event = old.event
                            /\ FrameFits(f) /\ f.todo # <<"charge", "forward">>
    BY <1>3, TailFits
  <2>7. /\ e \in Events /\ e.source = "bridge" /\ e.type = "gas_anomaly" /\ e.source \notin BusAgents
    BY <2>1, EventFields, NotDaemons DEF Accounts, DaemonTypes
  <2>8. PICK g \in Frames : g = Frame(e, dgHandlers) /\ FrameFits(g) /\ g.event = e /\ g.todo = dgHandlers
    <3>1. e.type \in DaemonTypes
      BY <2>7 DEF DaemonTypes
    <3>2. Frame(e, dgHandlers) \in Frames /\ FrameFits(Frame(e, dgHandlers))
      BY <1>3, <2>7, <3>1, NewFrame
    <3>3. Frame(e, dgHandlers).event = e /\ Frame(e, dgHandlers).todo = dgHandlers
      BY DEF Frame
    <3>4. QED BY <3>2, <3>3
  <2>9. Turned(f, g)
    BY <1>3, <2>2, <2>6, <2>8 DEF Turned
  <2>10. PICK n : n = Len(dgStack)
    OBVIOUS
  <2>11. /\ n \in Nat \ {0} /\ old = dgStack[n] /\ DOMAIN dgStack = 1 .. n /\ n \in DOMAIN dgStack
    BY <1>1, <1>3, <2>10, TopFacts
  <2>12. /\ dgStack'[n] = f /\ DOMAIN dgStack' = 1 .. Len(dgStack') /\ Len(dgStack') \in {n, n + 1}
         /\ \A i \in 1 .. n - 1 : dgStack'[i] = dgStack[i]
         /\ Len(dgStack') = n + 1 => dgStack'[n + 1] = g
    BY <1>3, <2>9, <2>10, Places
  <2>13. dgStack' \in Seq(Frames) /\ StackFits'
    <3>1. /\ Rank(g.event.type) < Rank(old.event.type) /\ Rank(g.event.type) \in Nat /\ Rank(old.event.type) \in Nat
          /\ g.event.source \notin BusAgents
      BY <1>5, <2>7, <2>8 DEF Rank
    <3>2. QED BY <1>1, <1>3, <2>6, <2>8, <2>9, <3>1, StackKeeps DEF DaemonsInv
  <2>14. source \in BusAgents => n = 1
    BY <1>5, <2>1, <2>11 DEF DaemonsInv, StackFits
  <2>15. \A a \in BusAgents : a # source => (Owing(a)' <=> Owing(a)) /\ (Owing(a) => dgStack'[1] = dgStack[1])
    <3>0. dgStack' # <<>>
      <4>1. n \in 1 .. n /\ n \in 1 .. n + 1
        BY <2>11
      <4>2. DOMAIN dgStack' = 1 .. n \/ DOMAIN dgStack' = 1 .. n + 1
        BY <2>12
      <4>3. QED BY <4>1, <4>2, NoElement
    <3>1. CASE n = 1
      BY <2>1, <2>6, <2>11, <2>12, <3>0, <3>1 DEF Owing
    <3>2. CASE n > 1
      <4>1. 1 \in 1 .. n - 1
        BY <2>11, <3>2
      <4>2. dgStack'[1] = dgStack[1]
        BY <2>12, <4>1
      <4>3. QED BY <1>3, <3>0, <4>2 DEF Owing
    <3>3. QED BY <2>11, <3>1, <3>2
  <2>16. source \in BusAgents => Owing(source) /\ ~Owing(source)' /\ dgStack[1].event.gas = gas
    BY <1>3, <1>5, <2>1, <2>5, <2>6, <2>11, <2>12, <2>14 DEF Owing
  <2>17. Charged'
    <3> SUFFICES ASSUME NEW a \in BusAgents
                 PROVE  dgReported'[a] = dgGas'[a] + IF Owing(a)' THEN dgStack'[1].event.gas ELSE 0
      BY DEF Charged
    <3>1. a \in Accounts /\ dgReported[a] = dgGas[a] + (IF Owing(a) THEN dgStack[1].event.gas ELSE 0)
      BY DEF Accounts, DaemonsInv, Charged
    <3>2. CASE a = source
      <4>1. dgReported[a] = total
        BY <2>1, <2>16, <3>1, <3>2
      <4>2. dgGas'[a] + 0 = total
        BY <2>3, <2>4, <3>2
      <4>3. QED BY <1>2, <2>16, <3>2, <4>1, <4>2
    <3>3. CASE a # source
      <4>1. dgGas'[a] = dgGas[a] /\ dgReported'[a] = dgReported[a]
        BY <1>2, <2>4, <3>1, <3>3
      <4>2. CASE Owing(a)
        BY <2>15, <3>1, <3>3, <4>1, <4>2
      <4>3. CASE ~Owing(a)
        BY <2>15, <3>1, <3>3, <4>1, <4>3
      <4>4. QED BY <4>2, <4>3
    <3>4. QED BY <3>2, <3>3
  <2>18. Warned'
    <3> SUFFICES ASSUME dgBridge > 0 PROVE Warned'
      BY <1>2 DEF Warned
    <3>1. /\ \E k \in DOMAIN dgHandlers : dgHandlers[k] = "bridge"
          /\ \A a \in BusAgents :
               OnBus("spindle", a, "NODE_COMPLETED") /\ dgGas[a] > GasBudget =>
                 Owing(a) \/ OnBus("daemons", "bridge", "gas_anomaly")
          /\ OnBus("daemons", "bridge", "gas_anomaly") =>
               \/ OnBus("spindle", "bridge", "CONTEXT_INVALIDATED")
               \/ \E i \in DOMAIN dgStack : WarningPending(dgStack[i])
      BY DEF DaemonsInv, Warned, WarningPending
    <3>2. /\ \A s, x, y : OnBus(s, x, y) => OnBus(s, x, y)'
          /\ \A a : OnBus("spindle", a, "NODE_COMPLETED")' => OnBus("spindle", a, "NODE_COMPLETED")
          /\ total > GasBudget => OnBus("daemons", "bridge", "gas_anomaly")'
          /\ ~(total > GasBudget) => (OnBus("daemons", "bridge", "gas_anomaly")' => OnBus("daemons", "bridge", "gas_anomaly"))
      <4>1. CASE UNCHANGED dgLog /\ ~(total > GasBudget)
        BY <4>1 DEF OnBus
      <4>2. CASE dgLog' = dgLog \cup {Entry("daemons", e)} /\ total > GasBudget
        BY <2>7, <4>2, Logging DEF OnBus
      <4>3. QED BY <2>2, <4>1, <4>2
    <3>3. \A a \in BusAgents :
            OnBus("spindle", a, "NODE_COMPLETED")' /\ dgGas'[a] > GasBudget =>
              Owing(a)' \/ OnBus("daemons", "bridge", "gas_anomaly")'
      <4> SUFFICES ASSUME NEW a \in BusAgents, OnBus("spindle", a, "NODE_COMPLETED")', dgGas'[a] > GasBudget
                   PROVE  Owing(a)' \/ OnBus("daemons", "bridge", "gas_anomaly")'
        OBVIOUS
      <4>1. CASE a = source
        BY <2>4, <3>2, <4>1
      <4>2. CASE a # source
        <5>1. dgGas'[a] = dgGas[a]
          BY <2>4, <4>2 DEF Accounts
        <5>2. QED BY <2>15, <3>1, <3>2, <4>2, <5>1
      <4>3. QED BY <4>1, <4>2
    <3>4. OnBus("daemons", "bridge", "gas_anomaly")' =>
            \/ OnBus("spindle", "bridge", "CONTEXT_INVALIDATED")'
            \/ \E j \in DOMAIN dgStack' : WarningPending(dgStack'[j])
      <4>1. CASE total > GasBudget
        <5>1. dgStack' = Append(Append(Front(dgStack), f), g)
          BY <1>3, <2>2, <2>6, <2>8, <4>1
        <5>2. Len(dgStack') = n + 1
          BY <1>3, <2>10, <2>11, <5>1, TopFacts
        <5>3. WarningPending(g)
          BY <2>7, <2>8, <3>1 DEF WarningPending
        <5>4. n + 1 \in DOMAIN dgStack' /\ dgStack'[n + 1] = g
          BY <2>11, <2>12, <5>2
        <5>5. QED BY <5>3, <5>4
      <4>2. CASE ~(total > GasBudget)
        <5>1. ASSUME NEW i \in DOMAIN dgStack, WarningPending(dgStack[i])
              PROVE  i \in DOMAIN dgStack' /\ dgStack'[i] = dgStack[i]
          <6>1. i # n
            BY <1>5, <2>11, <5>1 DEF WarningPending
          <6>2. i \in 1 .. n - 1 /\ i \in 1 .. n /\ i \in 1 .. n + 1
            BY <2>11, <6>1
          <6>3. DOMAIN dgStack' = 1 .. n \/ DOMAIN dgStack' = 1 .. n + 1
            BY <2>12
          <6>4. QED BY <2>12, <6>2, <6>3
        <5>2. QED BY <3>1, <3>2, <4>2, <5>1
      <4>3. QED BY <4>1, <4>2
    <3>5. QED BY <1>2, <3>1, <3>3, <3>4 DEF Warned, WarningPending
  <2>19. DaemonsTyped'
    BY <1>2, <1>3, <2>4, <2>13 DEF DaemonsTyped
  <2>20. QED BY <1>2, <2>13, <2>17, <2>18, <2>19, ScribeUnchanged DEF DaemonsInv
<1>6. QED BY <1>4, <1>5

LEMMA DeliveredKeeps == ASSUME DaemonsInv, Delivered PROVE DaemonsInv'
<1>1. /\ dgStack # <<>> /\ Inner.todo = <<>> /\ dgStack' = Front(dgStack)
      /\ UNCHANGED <<dgHandlers, dgBridge, dgGas, dgReported, dgScribe, dgLog>>
  BY DEF Delivered, Same
<1>2. PICK n : n = Len(dgStack)
  OBVIOUS
<1>3. DaemonsTyped /\ StackFits
  BY DEF DaemonsInv
<1>4. /\ n \in Nat \ {0} /\ DOMAIN dgStack = 1 .. n /\ dgStack[n].todo = <<>> /\ n \in DOMAIN dgStack
      /\ dgStack' \in Seq(Frames) /\ DOMAIN dgStack' = 1 .. n - 1 /\ Len(dgStack') = n - 1
      /\ \A i \in DOMAIN dgStack' : i \in DOMAIN dgStack /\ dgStack'[i] = dgStack[i]
  <2>1. /\ Len(dgStack) \in Nat \ {0} /\ DOMAIN dgStack = 1 .. Len(dgStack) /\ Inner = dgStack[Len(dgStack)]
        /\ Front(dgStack) \in Seq(Frames) /\ Len(Front(dgStack)) = Len(dgStack) - 1
        /\ \A i \in 1 .. Len(dgStack) - 1 : Front(dgStack)[i] = dgStack[i]
    BY <1>1, <1>3, TopFacts
  <2>2. DOMAIN Front(dgStack) = 1 .. n - 1 /\ 1 .. n - 1 \subseteq 1 .. n /\ n \in 1 .. n
    BY <1>2, <2>1
  <2>3. QED BY <1>1, <1>2, <2>1, <2>2
<1>5. StackFits'
  BY <1>3, <1>4 DEF StackFits, FrameFits
<1>6. \A a : (Owing(a)' <=> Owing(a)) /\ (Owing(a) => dgStack'[1] = dgStack[1])
  <2>1. CASE n = 1
    <3>1. dgStack' = <<>>
      BY <1>4, <2>1
    <3>2. dgStack[1].todo # <<"charge", "forward">>
      BY <1>4, <2>1
    <3>3. QED BY <3>1, <3>2 DEF Owing
  <2>2. CASE n > 1
    <3>1. 1 \in DOMAIN dgStack'
      BY <1>4, <2>2
    <3>2. dgStack'[1] = dgStack[1] /\ dgStack' # <<>>
      BY <1>4, <3>1, NoElement
    <3>3. QED BY <1>1, <3>2 DEF Owing
  <2>3. QED BY <1>4, <2>1, <2>2
<1>7. Charged'
  BY <1>1, <1>6 DEF DaemonsInv, Charged
<1>8. Warned'
  <2>1. ASSUME NEW i \in DOMAIN dgStack, WarningPending(dgStack[i])
        PROVE  i \in DOMAIN dgStack' /\ dgStack'[i] = dgStack[i]
    <3>1. i # n
      BY <1>4, <2>1, NoElement DEF WarningPending
    <3>2. i \in 1 .. n - 1
      BY <1>4, <3>1
    <3>3. QED BY <1>4, <3>2
  <2>2. \A s, x, y : OnBus(s, x, y)' <=> OnBus(s, x, y)
    BY <1>1 DEF OnBus
  <2>3. dgBridge > 0 =>
          /\ \E k \in DOMAIN dgHandlers : dgHandlers[k] = "bridge"
          /\ \A a \in BusAgents :
               OnBus("spindle", a, "NODE_COMPLETED") /\ dgGas[a] > GasBudget =>
                 Owing(a) \/ OnBus("daemons", "bridge", "gas_anomaly")
          /\ OnBus("daemons", "bridge", "gas_anomaly") =>
               \/ OnBus("spindle", "bridge", "CONTEXT_INVALIDATED")
               \/ \E i \in DOMAIN dgStack : WarningPending(dgStack[i])
    BY DEF DaemonsInv, Warned, WarningPending
  <2>4. dgBridge > 0 /\ OnBus("daemons", "bridge", "gas_anomaly")' =>
          \/ OnBus("spindle", "bridge", "CONTEXT_INVALIDATED")'
          \/ \E i \in DOMAIN dgStack' : WarningPending(dgStack'[i])
    BY <2>1, <2>2, <2>3
  <2>5. dgBridge > 0 => \A a \in BusAgents :
          OnBus("spindle", a, "NODE_COMPLETED")' /\ dgGas[a] > GasBudget =>
            Owing(a)' \/ OnBus("daemons", "bridge", "gas_anomaly")'
    BY <1>6, <2>2, <2>3
  <2>6. QED BY <1>1, <2>3, <2>4, <2>5 DEF Warned, WarningPending
<1>9. DaemonsTyped'
  BY <1>1, <1>3, <1>4 DEF DaemonsTyped
<1>10. QED BY <1>1, <1>5, <1>7, <1>8, <1>9, ScribeUnchanged DEF DaemonsInv

-----------------------------------------------------------------------------
(* Calls from outside, when nothing is being delivered. *)
LEMMA Silent ==
    ASSUME DaemonsInv, dgStack = <<>>
    PROVE  /\ \A a : ~Owing(a)
           /\ \A a \in BusAgents : dgReported[a] = dgGas[a]
           /\ DaemonsTyped /\ 2 * dgScribe["prose"] <= ProseBudget
           /\ dgBridge > 0 => \E k \in DOMAIN dgHandlers : dgHandlers[k] = "bridge"
<1>1. \A a : ~Owing(a)
  BY DEF Owing
<1>2. dgGas \in [Accounts -> Nat] /\ BusAgents \subseteq Accounts
  BY DEF DaemonsInv, DaemonsTyped, Accounts
<1>3. \A a \in BusAgents : dgReported[a] = dgGas[a]
  BY <1>1, <1>2 DEF DaemonsInv, Charged
<1>4. QED BY <1>1, <1>3 DEF DaemonsInv, Warned

\* A call that starts no delivery.
LEMMA QuietKeeps ==
    ASSUME DaemonsInv, dgStack = <<>>, UNCHANGED <<dgStack, dgGas, dgReported>>, dgLog' = {},
           dgHandlers' \in Seq(Handlers), dgBridge' \in {0, 1}, dgScribe' \in [{"prose", "summary"} -> Nat],
           2 * dgScribe'["prose"] <= ProseBudget,
           dgBridge' > 0 => \E k \in DOMAIN dgHandlers' : dgHandlers'[k] = "bridge"
    PROVE  DaemonsInv'
<1>1. DaemonsTyped'
  BY DEF DaemonsInv, DaemonsTyped
<1>2. StackFits'
  BY NoElement DEF StackFits
<1>3. Charged'
  <2>1. \A a : ~Owing(a)'
    BY DEF Owing
  <2>2. \A a \in BusAgents : dgReported'[a] = dgGas'[a] /\ dgGas'[a] \in Nat
    BY Silent DEF DaemonsTyped, Accounts
  <2>3. QED BY <2>1, <2>2 DEF Charged
<1>4. Warned'
  BY DEF Warned, OnBus
<1>5. QED BY <1>1, <1>2, <1>3, <1>4 DEF DaemonsInv

LEMMA StartKeeps == ASSUME DaemonsInv, dgStack = <<>>, StartAll PROVE DaemonsInv'
<1>1. /\ dgHandlers' = dgHandlers \o (IF dgBridge = 0 THEN <<"route", "bridge">> ELSE <<"route">>)
      /\ dgBridge' = 1 /\ dgLog' = {} /\ UNCHANGED <<dgGas, dgScribe, dgStack, dgReported>>
  BY DEF StartAll, BridgeStarted
<1>2. PICK hs \in Seq(Handlers) : hs = dgHandlers
  BY DEF DaemonsInv, DaemonsTyped
<1>3. dgHandlers' \in Seq(Handlers) /\ \E k \in DOMAIN dgHandlers' : dgHandlers'[k] = "bridge"
  <2>1. CASE dgBridge = 0
    <3>1. <<"route", "bridge">> \in Seq(Handlers)
      BY DEF Handlers
    <3>2. dgHandlers' = hs \o <<"route", "bridge">>
      BY <1>1, <1>2, <2>1
    <3>3. Len(hs) + 2 \in DOMAIN dgHandlers' /\ dgHandlers'[Len(hs) + 2] = "bridge"
      BY <1>2, <3>1, <3>2
    <3>4. QED BY <1>2, <3>1, <3>2, <3>3
  <2>2. CASE dgBridge # 0
    <3>1. <<"route">> \in Seq(Handlers)
      BY DEF Handlers
    <3>2. dgHandlers' = hs \o <<"route">>
      BY <1>1, <1>2, <2>2
    <3>3. PICK k \in DOMAIN hs : hs[k] = "bridge"
      BY <1>2, <2>2, Silent DEF DaemonsTyped
    <3>4. k \in DOMAIN dgHandlers' /\ dgHandlers'[k] = "bridge"
      BY <1>2, <3>1, <3>2, <3>3
    <3>5. QED BY <1>2, <3>1, <3>2, <3>4
  <2>3. QED BY <2>1, <2>2
<1>4. QED BY <1>1, <1>3, QuietKeeps, ScribeUnchanged

LEMMA StopKeeps == ASSUME DaemonsInv, dgStack = <<>>, StopAll PROVE DaemonsInv'
<1>1. /\ dgHandlers' = [i \in 1 .. Starts |-> "route"] /\ dgBridge' = 0 /\ dgLog' = {}
      /\ UNCHANGED <<dgGas, dgScribe, dgStack, dgReported>>
  BY DEF StopAll
<1>2. Starts \in Nat
  <2>1. dgHandlers \in Seq(Handlers)
    BY DEF DaemonsInv, DaemonsTyped
  <2>2. Len(dgHandlers) \in Nat /\ DOMAIN dgHandlers = 1 .. Len(dgHandlers)
    BY <2>1
  <2>3. IsFiniteSet(DOMAIN dgHandlers)
    BY <2>2, FS_Interval
  <2>4. IsFiniteSet({i \in DOMAIN dgHandlers : dgHandlers[i] = "route"})
    BY <2>3, FS_Subset
  <2>5. QED BY <2>4, FS_CardinalityType DEF Starts
<1>3. dgHandlers' \in Seq(Handlers)
  BY <1>1, <1>2 DEF Handlers
<1>4. QED BY <1>1, <1>3, QuietKeeps, ScribeUnchanged

LEMMA ResetKeeps == ASSUME DaemonsInv, dgStack = <<>>, ResetBudget PROVE DaemonsInv'
<1>1. /\ dgScribe' = NoEntries /\ dgLog' = {}
      /\ UNCHANGED <<dgHandlers, dgBridge, dgGas, dgStack, dgReported>>
  BY DEF ResetBudget
<1>2. NoEntries \in [{"prose", "summary"} -> Nat] /\ NoEntries["prose"] = 0
  BY DEF NoEntries
<1>3. dgScribe' \in [{"prose", "summary"} -> Nat] /\ 2 * dgScribe'["prose"] <= ProseBudget
  BY <1>1, <1>2, DaemonsAssumption
<1>4. QED BY <1>1, <1>3, Silent, QuietKeeps DEF DaemonsTyped

\* An event that is the first to be delivered.
LEMMA FirstFrame ==
    ASSUME dgStack = <<>>, NEW g \in Frames, FrameFits(g), dgStack' = Append(<<>>, g)
    PROVE  dgStack' \in Seq(Frames) /\ dgStack' # <<>> /\ DOMAIN dgStack' = {1} /\ dgStack'[1] = g /\ StackFits'
<1>1. dgStack' \in Seq(Frames) /\ DOMAIN dgStack' = {1} /\ dgStack'[1] = g
  BY DEF Frames
<1>2. dgStack' # <<>>
  BY <1>1, NoElement
<1>3. Rank(g.event.type) \in 1 .. 6
  BY Ranks DEF Frames, Events
<1>4. Rank(g.event.type) + 1 <= 7
  BY <1>3
<1>5. StackFits'
  BY <1>1, <1>4 DEF StackFits, FrameFits
<1>6. QED BY <1>1, <1>2, <1>5

LEMMA SentinelKeeps ==
    ASSUME DaemonsInv, dgStack = <<>>, NEW critical \in BOOLEAN, SentinelCheck(critical)
    PROVE  DaemonsInv'
<1>1. PICK e : e = [Event("sentinel", "alert") EXCEPT !.critical = critical]
  OBVIOUS
<1>2. e \in Events /\ e.source = "sentinel" /\ e.type = "alert" /\ e.source \notin BusAgents
  <2>1. [source |-> "sentinel", type |-> "alert", critical |-> critical, gas |-> 1] \in Events
    BY DEF Events, Accounts, Triad, DaemonTypes
  <2>2. e = [source |-> "sentinel", type |-> "alert", critical |-> critical, gas |-> 1]
    BY <1>1 DEF Event
  <2>3. QED BY <2>1, <2>2, NotDaemons
<1>3. /\ dgStack' = Append(<<>>, Frame(e, dgHandlers)) /\ dgLog' = {Entry("daemons", e)}
      /\ UNCHANGED <<dgHandlers, dgBridge, dgGas, dgScribe, dgReported>>
  BY <1>1 DEF SentinelCheck, Emit
<1>4. PICK g \in Frames : g = Frame(e, dgHandlers) /\ FrameFits(g) /\ g.event = e
  <2>1. Frame(e, dgHandlers) \in Frames /\ FrameFits(Frame(e, dgHandlers))
    BY <1>2, Silent, NewFrame DEF DaemonTypes
  <2>2. QED BY <2>1 DEF Frame
<1>5. dgStack' \in Seq(Frames) /\ dgStack' # <<>> /\ DOMAIN dgStack' = {1} /\ dgStack'[1] = g /\ StackFits'
  BY <1>3, <1>4, FirstFrame
<1>6. Charged'
  <2>1. \A a : ~Owing(a)'
    BY <1>2, <1>4, <1>5 DEF Owing
  <2>2. \A a \in BusAgents : dgReported'[a] = dgGas'[a] /\ dgGas'[a] \in Nat
    BY <1>3, Silent DEF DaemonsTyped, Accounts
  <2>3. QED BY <2>1, <2>2 DEF Charged
<1>7. Warned'
  <2>1. \A s, x, y : OnBus(s, x, y)' => s = "daemons" /\ x = "sentinel" /\ y = "alert"
    BY <1>2, <1>3 DEF OnBus, Entry
  <2>2. QED BY <1>3, <2>1, Silent DEF Warned
<1>8. DaemonsTyped'
  BY <1>3, <1>5, Silent DEF DaemonsTyped
<1>9. QED BY <1>5, <1>6, <1>7, <1>8, <1>3, ScribeUnchanged DEF DaemonsInv

LEMMA CompletedKeeps ==
    ASSUME DaemonsInv, dgStack = <<>>, NEW b \in BusAgents, NEW gas \in 1 .. 2, NodeCompleted(b, gas)
    PROVE  DaemonsInv'
<1>1. PICK e : e = [Event(b, "NODE_COMPLETED") EXCEPT !.gas = gas]
  OBVIOUS
<1>2. e \in Events /\ e.source = b /\ e.type = "NODE_COMPLETED" /\ e.gas = gas /\ gas \in Nat
  <2>1. [source |-> b, type |-> "NODE_COMPLETED", critical |-> FALSE, gas |-> gas] \in Events
    BY DEF Events, Accounts, SpindleTypes
  <2>2. e = [source |-> b, type |-> "NODE_COMPLETED", critical |-> FALSE, gas |-> gas]
    BY <1>1 DEF Event
  <2>3. QED BY <2>1, <2>2
<1>3. PICK todo : todo = [i \in 1 .. 2 * dgBridge |-> IF i % 2 = 1 THEN "charge" ELSE "forward"]
  OBVIOUS
<1>4. dgBridge \in {0, 1} /\ todo = (IF dgBridge = 0 THEN <<>> ELSE <<"charge", "forward">>)
  BY <1>3, SpindleTodo DEF DaemonsInv, DaemonsTyped
<1>5. /\ dgStack' = Append(<<>>, Frame(e, todo)) /\ dgLog' = {Entry("spindle", e)}
      /\ dgReported' = [dgReported EXCEPT ![b] = @ + IF dgBridge > 0 THEN gas ELSE 0]
      /\ UNCHANGED <<dgHandlers, dgBridge, dgGas, dgScribe>>
  BY <1>1, <1>3 DEF NodeCompleted, Publish
<1>6. PICK g \in Frames : g = Frame(e, todo) /\ FrameFits(g) /\ g.event = e /\ g.todo = todo
  <2>1. e.type \in SpindleTypes /\ todo \in {<<>>, <<"charge", "forward">>}
    BY <1>2, <1>4 DEF SpindleTypes
  <2>2. Frame(e, todo) \in Frames /\ FrameFits(Frame(e, todo))
    BY <1>2, <2>1, Silent, NewFrame
  <2>3. QED BY <2>2 DEF Frame
<1>7. dgStack' \in Seq(Frames) /\ dgStack' # <<>> /\ DOMAIN dgStack' = {1} /\ dgStack'[1] = g /\ StackFits'
  BY <1>5, <1>6, FirstFrame
<1>8. \A a : Owing(a)' <=> a = b /\ dgBridge > 0
  <2>1. <<>> # <<"charge", "forward">>
    OBVIOUS
  <2>2. g.todo = <<"charge", "forward">> <=> dgBridge > 0
    BY <1>4, <1>6, <2>1
  <2>3. QED BY <1>2, <1>6, <1>7, <2>2 DEF Owing
<1>9. dgReported' \in [BusAgents -> Nat] /\ Charged'
  <2>1. PICK d \in Nat : d = IF dgBridge > 0 THEN gas ELSE 0
    BY <1>2
  <2>2. PICK total \in Nat : total = dgGas[b] + d /\ dgReported[b] = dgGas[b]
    BY <2>1, Silent DEF DaemonsTyped, Accounts
  <2>3. dgReported' = [dgReported EXCEPT ![b] = total] /\ dgReported \in [BusAgents -> Nat]
    BY <1>5, <2>1, <2>2, Silent DEF DaemonsTyped
  <2>4. dgReported' \in [BusAgents -> Nat] /\ dgReported'[b] = total
        /\ \A a \in BusAgents : a # b => dgReported'[a] = dgReported[a]
    BY <2>3
  <2>5. \A a \in BusAgents : a # b => dgReported'[a] = dgGas'[a] /\ dgGas'[a] \in Nat /\ ~Owing(a)'
    BY <1>5, <1>8, <2>4, Silent DEF DaemonsTyped, Accounts
  <2>6. dgReported'[b] = dgGas'[b] + IF Owing(b)' THEN dgStack'[1].event.gas ELSE 0
    <3>1. dgStack'[1].event.gas = gas
      BY <1>2, <1>6, <1>7
    <3>2. d = IF Owing(b)' THEN dgStack'[1].event.gas ELSE 0
      BY <1>8, <2>1, <3>1
    <3>3. QED BY <1>5, <2>2, <2>4, <3>2
  <2>7. QED BY <2>4, <2>5, <2>6 DEF Charged
<1>10. Warned'
  <2>1. \A s, x, y : OnBus(s, x, y)' => s = "spindle" /\ x = b /\ y = "NODE_COMPLETED"
    BY <1>2, <1>5 DEF OnBus, Entry
  <2>2. QED BY <1>5, <1>8, <2>1, Silent DEF Warned
<1>11. DaemonsTyped'
  BY <1>5, <1>7, <1>9, Silent DEF DaemonsTyped
<1>12. QED BY <1>5, <1>7, <1>9, <1>10, <1>11, ScribeUnchanged DEF DaemonsInv

LEMMA DaemonsStart == DaemonsInit => DaemonsInv
<1> SUFFICES ASSUME DaemonsInit PROVE DaemonsInv
  OBVIOUS
<1>1. /\ dgHandlers = <<>> /\ dgBridge = 0 /\ dgGas = [a \in Accounts |-> 0] /\ dgScribe = NoEntries
      /\ dgStack = <<>> /\ dgLog = {} /\ dgReported = [a \in BusAgents |-> 0]
  BY DEF DaemonsInit
<1>2. DaemonsTyped
  BY <1>1 DEF DaemonsTyped, NoEntries
<1>3. StackFits
  BY <1>1, NoElement DEF StackFits
<1>4. Charged
  BY <1>1 DEF Charged, Owing, Accounts
<1>5. Warned
  BY <1>1 DEF Warned
<1>6. 2 * dgScribe["prose"] <= ProseBudget
  BY <1>1, DaemonsAssumption DEF NoEntries
<1>7. QED BY <1>2, <1>3, <1>4, <1>5, <1>6 DEF DaemonsInv

LEMMA DaemonsStep == DaemonsInv /\ [DaemonsNext]_dgVars => DaemonsInv'
<1> SUFFICES ASSUME DaemonsInv, [DaemonsNext]_dgVars PROVE DaemonsInv'
  OBVIOUS
<1>1. CASE UNCHANGED dgVars
  BY <1>1 DEF dgVars, DaemonsInv, DaemonsTyped, StackFits, FrameFits, Charged, Owing, Warned, OnBus
<1>2. CASE Cascade
  BY <1>2, DeliveredKeeps, RouteKeeps, TranslateKeeps, DisputeKeeps, BridgeKeeps, ChargeKeeps, ForwardKeeps DEF Cascade
<1>3. CASE DaemonsNext /\ ~Cascade
  <2>1. /\ dgStack = <<>>
        /\ \/ StartAll \/ StopAll \/ ResetBudget
           \/ \E critical \in BOOLEAN : SentinelCheck(critical)
           \/ \E a \in BusAgents, gas \in 1 .. 2 : NodeCompleted(a, gas)
    BY <1>3 DEF DaemonsNext
  <2>2. QED BY <2>1, StartKeeps, StopKeeps, ResetKeeps, SentinelKeeps, CompletedKeeps
<1>4. QED BY <1>1, <1>2, <1>3

LEMMA DaemonsInductive == DaemonsSpec => []DaemonsInv
  BY DaemonsStart, DaemonsStep, PTL DEF DaemonsSpec

LEMMA CascadesSettled == DaemonsInv => CascadesSettle
<1> SUFFICES ASSUME DaemonsInv PROVE CascadesSettle
  OBVIOUS
<1>1. AgentsPayOnce
  BY Silent DEF AgentsPayOnce, Quiet
<1>2. WarnedEveryTime
  BY Silent, NoElement DEF WarnedEveryTime, Quiet, DaemonsInv, Warned
<1>3. OverrunIsSummaries
  <2>1. PICK p \in Nat, s \in Nat : p = dgScribe["prose"] /\ s = dgScribe["summary"]
    BY DEF DaemonsInv, DaemonsTyped
  <2>2. 2 * p <= ProseBudget /\ ProseBudget \in Nat
    BY <2>1, DaemonsAssumption DEF DaemonsInv
  <2>3. QED BY <2>1, <2>2 DEF OverrunIsSummaries, Tokens
<1>4. CascadeIsShallow
  <2>1. CASE dgStack = <<>>
    <3>1. Len(<<>>) = 0
      OBVIOUS
    <3>2. QED BY <2>1, <3>1 DEF CascadeIsShallow
  <2>2. CASE dgStack # <<>>
    <3>1. PICK n : n = Len(dgStack)
      OBVIOUS
    <3>2. n \in Nat \ {0} /\ n \in DOMAIN dgStack /\ dgStack[n] \in Frames
      BY <2>2, <3>1, TopFacts DEF DaemonsInv
    <3>3. Rank(dgStack[n].event.type) + n <= 7 /\ Rank(dgStack[n].event.type) \in 1 .. 6
      BY <3>2, Ranks DEF DaemonsInv, StackFits, Frames, Events
    <3>4. QED BY <3>1, <3>2, <3>3 DEF CascadeIsShallow
  <2>3. QED BY <2>1, <2>2
<1>5. QED BY <1>1, <1>2, <1>3, <1>4 DEF CascadesSettle

-----------------------------------------------------------------------------
(* The stream agents. *)

AlertRecords ==
  [type : {"SECURITY_ALERT", "BUDGET_GATE"}, severity : {"", "HIGH", "CRITICAL"}, shown : BOOLEAN, pct : Nat,
   from : StreamAgentIds \X Nat]
Entries(a) == IF a = "sentinel" THEN Payload ELSE IF a = "scribe" THEN [pct : Nat] ELSE AlertRecords
StreamThreads ==
  [at : {"none", "loop", "reading", "entry", "alert", "ack"}, entry : Nat, alert : {""}]
TriadTyped ==
  /\ \A a \in StreamAgentIds : saStream[a] \in Seq(Entries(a)) /\ saRead[a] \in 0 .. Len(saStream[a])
  /\ DOMAIN saStream = StreamAgentIds /\ DOMAIN saRead = StreamAgentIds
  /\ saThread \in [StreamAgentIds -> StreamThreads] /\ saStop \in [StreamAgentIds -> BOOLEAN]
  /\ saCaller \in [StreamAgentIds -> [at : {"idle", "joining"}, last : {"none", "start", "stop"}]]
  /\ saGas \in Nat /\ DOMAIN saAcked = StreamAgentIds

Sources == {"sentinel", "scribe"}
\* The entry a thread has is the one read last; what is acknowledged was read, and let go of.
Hands(a) ==
  /\ Thread(a).at \in {"entry", "alert", "ack"} => Thread(a).entry = saRead[a] /\ saRead[a] > 0
  /\ Thread(a).at \notin {"entry", "alert", "ack"} => Thread(a).entry = 0
  /\ \A i \in saAcked[a] : i \in 1 .. saRead[a] /\ Thread(a).entry # i
Raised(a, i) == \E n \in DOMAIN saStream["arbiter"] : saStream["arbiter"][n].from = <<a, i>>
AlertKnown(e) ==
  /\ e.from[1] \in Sources /\ e.from[2] \in 1 .. saRead[e.from[1]]
  /\ Thread(e.from[1]).entry = e.from[2] => Thread(e.from[1]).at = "ack"
  /\ e.type = "SECURITY_ALERT" =>
       /\ e.from[1] = "sentinel" /\ e.severity = Severity(saStream["sentinel"][e.from[2]])
       /\ e.severity # "" /\ e.shown = (saStream["sentinel"][e.from[2]].align = "shown")
\* What is on the arbiter's stream was raised, once, by the entry that it names.
AlertsKnown ==
  /\ \A n \in DOMAIN saStream["arbiter"] : AlertKnown(saStream["arbiter"][n])
  /\ \A n, m \in DOMAIN saStream["arbiter"] : saStream["arbiter"][n].from = saStream["arbiter"][m].from => n = m
\* Past an alert, one was raised if it was called for, or dropped.
Settled(a, i) == Risky(a, saStream[a][i]) /\ <<a, i>> \notin saDropped => Raised(a, i)
AlertsRaised ==
  \A a \in Sources :
    /\ Thread(a).at = "alert" => Risky(a, Held(a))
    /\ Thread(a).at = "ack" => Settled(a, Thread(a).entry)
    /\ \A i \in saAcked[a] : Settled(a, i)
VerdictsKnown ==
  /\ \A v \in saVerdicts :
       /\ v[1] \in 1 .. saRead["arbiter"] /\ v = <<v[1], Adjudicate(saStream["arbiter"][v[1]])>>
       /\ Thread("arbiter").at = "entry" => v[1] # Thread("arbiter").entry
  /\ Thread("arbiter").at # "alert"
  /\ Thread("arbiter").at = "ack" =>
       <<"arbiter", Thread("arbiter").entry>> \in saDropped \/ \E v \in saVerdicts : v[1] = Thread("arbiter").entry
  /\ \A n \in saAcked["arbiter"] : <<"arbiter", n>> \in saDropped \/ \E v \in saVerdicts : v[1] = n
AlertsInv == (\A a \in StreamAgentIds : Hands(a)) /\ AlertsKnown /\ AlertsRaised /\ VerdictsKnown
TriadInv == TriadTyped /\ AlertsInv /\ PendingIsExplained /\ StartedAgentRuns

-----------------------------------------------------------------------------
LEMMA Ids == StreamAgentIds = {"sentinel", "scribe", "arbiter"} /\ Sources \subseteq StreamAgentIds /\ "arbiter" \notin Sources
  BY DEF StreamAgentIds, Sources

\* A step of one thread leaves the other two where they are.
LEMMA ThreadSet ==
    ASSUME TriadTyped, NEW a \in StreamAgentIds, NEW t \in StreamThreads, ThreadIs(a, t)
    PROVE  /\ saThread' \in [StreamAgentIds -> StreamThreads]
           /\ Thread(a)' = t /\ \A b \in StreamAgentIds : b # a => Thread(b)' = Thread(b)
  BY DEF TriadTyped, ThreadIs, Thread

LEMMA ThreadFields ==
    ASSUME TriadTyped, NEW a \in StreamAgentIds
    PROVE  /\ Thread(a) \in StreamThreads
           /\ \A at \in {"none", "loop", "reading", "entry", "alert", "ack"} :
                /\ [Thread(a) EXCEPT !.at = at] \in StreamThreads
                /\ [Thread(a) EXCEPT !.at = at].at = at /\ [Thread(a) EXCEPT !.at = at].entry = Thread(a).entry
                /\ [Gone EXCEPT !.at = at] \in StreamThreads
                /\ [Gone EXCEPT !.at = at].at = at /\ [Gone EXCEPT !.at = at].entry = 0
           /\ Gone \in StreamThreads /\ Gone.at = "none" /\ Gone.entry = 0
  BY DEF TriadTyped, Thread, StreamThreads, Gone

\* Nothing that the core speaks of changes.
LEMMA Unmoved ==
    ASSUME AlertsInv, UNCHANGED <<saStream, saRead, saThread, saAcked, saVerdicts, saDropped>>
    PROVE  AlertsInv'
<1>1. (\A a \in StreamAgentIds : Hands(a))'
  BY DEF AlertsInv, Hands, Thread
<1>2. AlertsKnown'
  BY DEF AlertsInv, AlertsKnown, AlertKnown, Thread
<1>3. AlertsRaised'
  BY DEF AlertsInv, AlertsRaised, Settled, Raised, Risky, Held, Thread
<1>4. VerdictsKnown'
  BY DEF AlertsInv, VerdictsKnown, Thread
<1>5. QED BY <1>1, <1>2, <1>3, <1>4 DEF AlertsInv

\* A thread lets go of its entry, perhaps acknowledging it.
LEMMA LetsGo ==
    ASSUME TriadTyped, AlertsInv, NEW a \in StreamAgentIds, NEW t \in StreamThreads,
           t.at \in {"none", "loop", "reading"}, t.entry = 0, ThreadIs(a, t),
           \/ UNCHANGED saAcked
           \/ Thread(a).at = "ack" /\ saAcked' = [saAcked EXCEPT ![a] = @ \cup {Thread(a).entry}],
           UNCHANGED <<saStream, saRead, saVerdicts, saDropped>>
    PROVE  AlertsInv' /\ DOMAIN saAcked' = StreamAgentIds
<1>1. Thread(a)' = t /\ \A b \in StreamAgentIds : b # a => Thread(b)' = Thread(b)
  BY ThreadSet
<1>2. DOMAIN saAcked' = StreamAgentIds /\ \A b \in StreamAgentIds : b # a => saAcked'[b] = saAcked[b]
  BY DEF TriadTyped
<1>3. \A i \in saAcked'[a] : i \in saAcked[a] \/ (Thread(a).at = "ack" /\ i = Thread(a).entry)
  BY DEF TriadTyped
<1>4. \A b \in StreamAgentIds : Hands(b)' /\ Hands(b)
  <2>1. \A b \in StreamAgentIds : saRead[b] \in Nat
    BY DEF TriadTyped
  <2>2. Hands(a)'
    BY <1>1, <1>3, <2>1 DEF AlertsInv, Hands
  <2>3. \A b \in StreamAgentIds : b # a => Hands(b)'
    BY <1>1, <1>2 DEF AlertsInv, Hands
  <2>4. QED BY <2>2, <2>3 DEF AlertsInv
<1>5. AlertsKnown'
  <2>1. \A n \in DOMAIN saStream["arbiter"] :
          LET e == saStream["arbiter"][n] IN
          /\ e.from[1] \in Sources /\ e.from[2] \in 1 .. saRead[e.from[1]]
          /\ Thread(e.from[1])'.entry = e.from[2] => Thread(e.from[1])'.at = "ack"
    <3>1. SUFFICES ASSUME NEW n \in DOMAIN saStream["arbiter"], NEW e, e = saStream["arbiter"][n]
                   PROVE  /\ e.from[1] \in Sources /\ e.from[2] \in 1 .. saRead[e.from[1]]
                          /\ Thread(e.from[1])'.entry = e.from[2] => Thread(e.from[1])'.at = "ack"
      OBVIOUS
    <3>2. /\ e.from[1] \in Sources /\ e.from[2] \in 1 .. saRead[e.from[1]]
          /\ Thread(e.from[1]).entry = e.from[2] => Thread(e.from[1]).at = "ack"
      BY <3>1 DEF AlertsInv, AlertsKnown, AlertKnown
    <3>3. PICK b \in Sources : b = e.from[1]
      BY <3>2
    <3>4. CASE b = a
      <4>1. Thread(b)'.entry = 0 /\ saRead[b] \in Nat
        BY <1>1, <3>4 DEF TriadTyped
      <4>2. e.from[2] # 0
        BY <3>2, <3>3, <4>1
      <4>3. QED BY <3>2, <3>3, <4>1, <4>2
    <3>5. CASE b # a
      <4>1. Thread(b)' = Thread(b)
        BY <1>1, <3>5, Ids
      <4>2. QED BY <3>2, <3>3, <4>1
    <3>6. QED BY <3>4, <3>5
  <2>2. QED BY <2>1 DEF AlertsInv, AlertsKnown, AlertKnown
<1>6. AlertsRaised'
  <2>1. \A b \in Sources : \A i : Settled(b, i)' <=> Settled(b, i)
    BY DEF Settled, Raised, Risky
  <2>2. \A b \in Sources :
          /\ Thread(b)'.at = "alert" => Risky(b, Held(b))'
          /\ Thread(b)'.at = "ack" => Settled(b, Thread(b)'.entry)
          /\ \A i \in saAcked'[b] : Settled(b, i)
    <3>1. SUFFICES ASSUME NEW b \in Sources
                   PROVE  /\ Thread(b)'.at = "alert" => Risky(b, Held(b))'
                          /\ Thread(b)'.at = "ack" => Settled(b, Thread(b)'.entry)
                          /\ \A i \in saAcked'[b] : Settled(b, i)
      OBVIOUS
    <3>2. /\ Thread(b).at = "alert" => Risky(b, Held(b))
          /\ Thread(b).at = "ack" => Settled(b, Thread(b).entry)
          /\ \A i \in saAcked[b] : Settled(b, i)
      BY DEF AlertsInv, AlertsRaised
    <3>3. CASE b = a
      BY <1>1, <1>3, <3>2, <3>3
    <3>4. CASE b # a
      <4>1. Thread(b)' = Thread(b) /\ saAcked'[b] = saAcked[b]
        BY <1>1, <1>2, <3>4, Ids
      <4>2. Risky(b, Held(b))' <=> Risky(b, Held(b))
        BY <4>1 DEF Risky, Held
      <4>3. QED BY <3>2, <4>1, <4>2
    <3>5. QED BY <3>3, <3>4
  <2>3. QED BY <2>1, <2>2 DEF AlertsRaised, Settled, Raised, Risky
<1>7. VerdictsKnown'
  BY <1>1, <1>2, <1>3, Ids DEF AlertsInv, VerdictsKnown
<1>8. QED BY <1>2, <1>4, <1>5, <1>6, <1>7 DEF AlertsInv

\* A thread is delivered the next entry.
LEMMA ReadsOn ==
    ASSUME TriadTyped, AlertsInv, NEW a \in StreamAgentIds, NEW t \in StreamThreads,
           t.at = "entry", t.entry = saRead[a] + 1, ThreadIs(a, t), saRead' = [saRead EXCEPT ![a] = @ + 1],
           UNCHANGED <<saStream, saAcked, saVerdicts, saDropped>>
    PROVE  AlertsInv'
<1>1. Thread(a)' = t /\ \A b \in StreamAgentIds : b # a => Thread(b)' = Thread(b)
  BY ThreadSet
<1>2. PICK r \in Nat : r = saRead[a]
  BY DEF TriadTyped
<1>3. saRead'[a] = r + 1 /\ t.entry = r + 1 /\ \A b \in StreamAgentIds : b # a => saRead'[b] = saRead[b]
  BY <1>2 DEF TriadTyped
<1>4. \A b \in StreamAgentIds : \A i \in 1 .. saRead[b] : i \in 1 .. saRead'[b] /\ (b = a => i # r + 1)
  BY <1>2, <1>3
<1>5. \A b \in StreamAgentIds : Hands(b)'
  <2>1. Hands(a)'
    BY <1>1, <1>2, <1>3, <1>4 DEF AlertsInv, Hands
  <2>2. \A b \in StreamAgentIds : b # a => Hands(b)'
    BY <1>1, <1>3 DEF AlertsInv, Hands
  <2>3. QED BY <2>1, <2>2
<1>6. AlertsKnown'
  <2>1. \A n \in DOMAIN saStream["arbiter"] :
          LET e == saStream["arbiter"][n] IN
          /\ e.from[1] \in Sources /\ e.from[2] \in 1 .. saRead'[e.from[1]]
          /\ Thread(e.from[1])'.entry = e.from[2] => Thread(e.from[1])'.at = "ack"
    <3>1. SUFFICES ASSUME NEW n \in DOMAIN saStream["arbiter"], NEW e, e = saStream["arbiter"][n]
                   PROVE  /\ e.from[1] \in Sources /\ e.from[2] \in 1 .. saRead'[e.from[1]]
                          /\ Thread(e.from[1])'.entry = e.from[2] => Thread(e.from[1])'.at = "ack"
      OBVIOUS
    <3>2. /\ e.from[1] \in Sources /\ e.from[2] \in 1 .. saRead[e.from[1]]
          /\ Thread(e.from[1]).entry = e.from[2] => Thread(e.from[1]).at = "ack"
      BY <3>1 DEF AlertsInv, AlertsKnown, AlertKnown
    <3>3. PICK b \in Sources, i \in 1 .. saRead[e.from[1]] : b = e.from[1] /\ i = e.from[2]
      BY <3>2
    <3>4. i \in 1 .. saRead'[b] /\ (b = a => i # r + 1)
      BY <1>4, <3>2, <3>3, Ids
    <3>5. Thread(b)'.entry = i => Thread(b)'.at = "ack"
      <4>1. CASE b = a
        BY <1>1, <1>3, <3>4, <4>1
      <4>2. CASE b # a
        <5>1. Thread(b)' = Thread(b)
          BY <1>1, <4>2, Ids
        <5>2. QED BY <3>2, <3>3, <5>1
      <4>3. QED BY <4>1, <4>2
    <3>6. QED BY <3>3, <3>4, <3>5
  <2>2. QED BY <2>1 DEF AlertsInv, AlertsKnown, AlertKnown
<1>7. AlertsRaised'
  <2>1. \A b \in Sources :
          /\ Thread(b)'.at = "alert" => Thread(b)' = Thread(b)
          /\ Thread(b)'.at = "ack" => Thread(b)' = Thread(b)
    BY <1>1, Ids
  <2>2. SUFFICES ASSUME NEW b \in Sources
                 PROVE  /\ Thread(b)'.at = "alert" => Risky(b, Held(b))'
                        /\ Thread(b)'.at = "ack" => Settled(b, Thread(b).entry)'
                        /\ \A i \in saAcked'[b] : Settled(b, i)'
    BY DEF AlertsRaised
  <2>3. \A i : Settled(b, i)' <=> Settled(b, i)
    BY DEF Settled, Raised, Risky
  <2>4. Thread(b)' = Thread(b) =>
          /\ Risky(b, Held(b))' <=> Risky(b, Held(b))
          /\ Settled(b, Thread(b).entry)' <=> Settled(b, Thread(b).entry)
    BY DEF Risky, Held, Settled, Raised
  <2>5. QED BY <2>1, <2>3, <2>4 DEF AlertsInv, AlertsRaised
<1>8. VerdictsKnown'
  <2>1. CASE a = "arbiter"
    BY <1>1, <1>3, <1>4, <2>1, Ids DEF AlertsInv, VerdictsKnown
  <2>2. CASE a # "arbiter"
    BY <1>1, <1>3, <2>2, Ids DEF AlertsInv, VerdictsKnown
  <2>3. QED BY <2>1, <2>2
<1>9. QED BY <1>5, <1>6, <1>7, <1>8 DEF AlertsInv

\* A thread is done with its entry, or goes on to the alert that the entry calls for.
LEMMA Handles ==
    ASSUME TriadTyped, AlertsInv, NEW a \in StreamAgentIds, NEW t \in StreamThreads, ThreadIs(a, t),
           Thread(a).at \in {"entry", "alert"}, t.at \in {"alert", "ack"}, t.entry = Thread(a).entry,
           saDropped \subseteq saDropped',
           a \in Sources => /\ t.at = "alert" => Risky(a, Held(a))
                            /\ t.at = "ack" => ~Risky(a, Held(a)) \/ <<a, t.entry>> \in saDropped'
                            /\ UNCHANGED saVerdicts,
           a = "arbiter" => /\ t.at = "ack"
                            /\ \/ <<a, t.entry>> \in saDropped' /\ UNCHANGED saVerdicts
                               \/ Thread(a).at = "entry" /\ saVerdicts' = saVerdicts \cup {<<t.entry, Adjudicate(Held(a))>>},
           UNCHANGED <<saStream, saRead, saAcked>>
    PROVE  AlertsInv'
<1>1. Thread(a)' = t /\ \A b \in StreamAgentIds : b # a => Thread(b)' = Thread(b)
  BY ThreadSet
<1>2. \A b \in StreamAgentIds : Hands(b)'
  BY <1>1 DEF AlertsInv, Hands
<1>3. AlertsKnown'
  <2>1. \A n \in DOMAIN saStream["arbiter"] :
          LET e == saStream["arbiter"][n] IN
          Thread(e.from[1])'.entry = e.from[2] => Thread(e.from[1])'.at = "ack"
    <3>1. SUFFICES ASSUME NEW n \in DOMAIN saStream["arbiter"], NEW e, e = saStream["arbiter"][n]
                   PROVE  Thread(e.from[1])'.entry = e.from[2] => Thread(e.from[1])'.at = "ack"
      OBVIOUS
    <3>2. /\ e.from[1] \in Sources
          /\ Thread(e.from[1]).entry = e.from[2] => Thread(e.from[1]).at = "ack"
      BY <3>1 DEF AlertsInv, AlertsKnown, AlertKnown
    <3>3. PICK b \in Sources : b = e.from[1]
      BY <3>2
    <3>4. CASE b = a
      BY <1>1, <3>2, <3>3, <3>4
    <3>5. CASE b # a
      <4>1. Thread(b)' = Thread(b)
        BY <1>1, <3>5, Ids
      <4>2. QED BY <3>2, <3>3, <4>1
    <3>6. QED BY <3>4, <3>5
  <2>2. QED BY <2>1 DEF AlertsInv, AlertsKnown, AlertKnown
<1>4. AlertsRaised'
  <2>1. SUFFICES ASSUME NEW b \in Sources
                 PROVE  /\ Thread(b)'.at = "alert" => Risky(b, Held(b))'
                        /\ Thread(b)'.at = "ack" => Settled(b, Thread(b).entry)'
                        /\ \A i \in saAcked'[b] : Settled(b, i)'
    BY DEF AlertsRaised
  <2>2. \A i : Settled(b, i) => Settled(b, i)'
    BY DEF Settled, Raised, Risky
  <2>3. Thread(b)'.entry = Thread(b).entry
    BY <1>1, Ids
  <2>4. (Risky(b, Held(b))' <=> Risky(b, Held(b))) /\ (Settled(b, Thread(b).entry) => Settled(b, Thread(b).entry)')
    BY <2>3 DEF Risky, Held, Settled, Raised
  <2>5. CASE b = a
    <3>1. t.at = "ack" => Settled(b, Thread(b).entry)'
      BY <1>1, <2>5 DEF Settled, Risky, Held
    <3>2. QED BY <1>1, <2>2, <2>4, <2>5, <3>1 DEF AlertsInv, AlertsRaised
  <2>6. CASE b # a
    <3>1. Thread(b)' = Thread(b)
      BY <1>1, <2>6, Ids
    <3>2. QED BY <2>2, <2>4, <3>1 DEF AlertsInv, AlertsRaised
  <2>7. QED BY <2>5, <2>6
<1>5. VerdictsKnown'
  <2>1. CASE a # "arbiter"
    <3>1. a \in Sources
      BY <2>1 DEF StreamAgentIds, Sources
    <3>2. QED BY <1>1, <2>1, <3>1, Ids DEF AlertsInv, VerdictsKnown
  <2>2. CASE a = "arbiter" /\ <<a, t.entry>> \in saDropped' /\ UNCHANGED saVerdicts
    BY <1>1, <2>2, Ids DEF AlertsInv, VerdictsKnown
  <2>3. CASE a = "arbiter" /\ Thread(a).at = "entry" /\ saVerdicts' = saVerdicts \cup {<<t.entry, Adjudicate(Held(a))>>}
    <3>1. PICK v : v = <<t.entry, Adjudicate(saStream["arbiter"][t.entry])>>
      OBVIOUS
    <3>2. v[1] = t.entry /\ saVerdicts' = saVerdicts \cup {v}
      BY <2>3, <3>1 DEF Held
    <3>3. t.entry \in 1 .. saRead["arbiter"]
      <4>1. PICK r \in Nat : r = saRead["arbiter"]
        BY Ids DEF TriadTyped
      <4>2. t.entry = r /\ r > 0
        BY <2>3, <4>1 DEF AlertsInv, Hands
      <4>3. QED BY <4>1, <4>2
    <3>4. \A w \in saVerdicts' :
            w[1] \in 1 .. saRead["arbiter"] /\ w = <<w[1], Adjudicate(saStream["arbiter"][w[1]])>>
      BY <3>1, <3>2, <3>3 DEF AlertsInv, VerdictsKnown
    <3>5. \A n \in saAcked["arbiter"] : <<"arbiter", n>> \in saDropped' \/ \E w \in saVerdicts' : w[1] = n
      BY <3>2 DEF AlertsInv, VerdictsKnown
    <3>6. QED BY <1>1, <2>3, <3>2, <3>4, <3>5 DEF VerdictsKnown
  <2>4. QED BY <2>1, <2>2, <2>3
<1>6. QED BY <1>2, <1>3, <1>4, <1>5 DEF AlertsInv

\* A stream gets an entry more, and the entries before it stay.
LEMMA StreamGrows ==
    ASSUME TriadTyped, NEW b \in StreamAgentIds, NEW e \in Entries(b), saStream' = [saStream EXCEPT ![b] = Append(@, e)]
    PROVE  /\ DOMAIN saStream' = StreamAgentIds /\ \A a \in StreamAgentIds : a # b => saStream'[a] = saStream[a]
           /\ saStream'[b] \in Seq(Entries(b)) /\ Len(saStream'[b]) = Len(saStream[b]) + 1 /\ Len(saStream[b]) \in Nat
           /\ \A i \in 1 .. Len(saStream[b]) : i \in DOMAIN saStream[b] /\ saStream'[b][i] = saStream[b][i]
           /\ saStream'[b][Len(saStream[b]) + 1] = e
           /\ DOMAIN saStream'[b] = 1 .. Len(saStream[b]) + 1 /\ DOMAIN saStream[b] = 1 .. Len(saStream[b])
           /\ \A a \in StreamAgentIds :
                saStream'[a] \in Seq(Entries(a)) /\ saRead[a] \in 0 .. Len(saStream'[a]) /\ saRead[a] \in 0 .. Len(saStream[a])
<1>1. PICK s \in Seq(Entries(b)) : s = saStream[b]
  BY DEF TriadTyped
<1>2. /\ DOMAIN saStream' = StreamAgentIds /\ \A a \in StreamAgentIds : a # b => saStream'[a] = saStream[a]
      /\ saStream'[b] = Append(s, e)
  BY <1>1 DEF TriadTyped
<1>3. PICK n \in Nat : n = Len(s)
  BY <1>1
<1>4. /\ Append(s, e) \in Seq(Entries(b)) /\ Len(Append(s, e)) = n + 1 /\ DOMAIN s = 1 .. n
      /\ \A i \in 1 .. n : Append(s, e)[i] = s[i]
      /\ Append(s, e)[n + 1] = e /\ DOMAIN Append(s, e) = 1 .. n + 1
  BY <1>1, <1>3
<1>5. \A a \in StreamAgentIds :
        saStream'[a] \in Seq(Entries(a)) /\ saRead[a] \in 0 .. Len(saStream'[a]) /\ saRead[a] \in 0 .. Len(saStream[a])
  <2>1. SUFFICES ASSUME NEW a \in StreamAgentIds
                 PROVE  saStream'[a] \in Seq(Entries(a)) /\ saRead[a] \in 0 .. Len(saStream'[a]) /\ saRead[a] \in 0 .. Len(saStream[a])
    OBVIOUS
  <2>2. saStream[a] \in Seq(Entries(a)) /\ saRead[a] \in 0 .. Len(saStream[a])
    BY DEF TriadTyped
  <2>3. CASE a # b
    BY <1>2, <2>2, <2>3
  <2>4. CASE a = b
    BY <1>1, <1>2, <1>3, <1>4, <2>2, <2>4
  <2>5. QED BY <2>3, <2>4
<1>6. QED BY <1>1, <1>2, <1>3, <1>4, <1>5

\* An event of the other services lands on a stream, behind what was read of it.
LEMMA EventLands ==
    ASSUME TriadTyped, AlertsInv, NEW b \in Sources, NEW e \in Entries(b), saStream' = [saStream EXCEPT ![b] = Append(@, e)],
           UNCHANGED <<saRead, saThread, saAcked, saVerdicts, saDropped>>
    PROVE  AlertsInv'
<1>1. saStream'["arbiter"] = saStream["arbiter"]
  BY StreamGrows, Ids
<1>2. \A a \in Sources : \A i \in 1 .. saRead[a] : saStream'[a][i] = saStream[a][i]
  <2>1. SUFFICES ASSUME NEW a \in Sources, NEW i \in 1 .. saRead[a] PROVE saStream'[a][i] = saStream[a][i]
    OBVIOUS
  <2>2. CASE a = b
    <3>1. i \in 1 .. Len(saStream[b])
      <4>1. PICK n \in Nat : n = Len(saStream[b])
        BY StreamGrows, Ids
      <4>2. saRead[a] \in 0 .. n
        BY <2>2, <4>1, Ids DEF TriadTyped
      <4>3. QED BY <4>1, <4>2
    <3>2. QED BY <2>2, <3>1, StreamGrows, Ids
  <2>3. CASE a # b
    BY <2>3, StreamGrows, Ids
  <2>4. QED BY <2>2, <2>3
<1>3. \A a \in StreamAgentIds : Thread(a)' = Thread(a)
  BY DEF Thread
<1>4. \A a \in StreamAgentIds : Hands(a)'
  BY <1>3 DEF AlertsInv, Hands
<1>5. AlertsKnown'
  <2>1. \A i \in 1 .. saRead["sentinel"] : saStream'["sentinel"][i] = saStream["sentinel"][i]
    BY <1>2 DEF Sources
  <2>2. SUFFICES ASSUME NEW n \in DOMAIN saStream["arbiter"], NEW r, r = saStream["arbiter"][n] PROVE AlertKnown(r)'
    <3>1. \A n \in DOMAIN saStream["arbiter"] : AlertKnown(saStream["arbiter"][n])'
      BY <1>1, <2>2 DEF AlertKnown
    <3>2. \A n \in DOMAIN saStream'["arbiter"] : AlertKnown(saStream["arbiter"][n])'
      BY <1>1, <3>1
    <3>3. \A n, m \in DOMAIN saStream'["arbiter"] : saStream'["arbiter"][n].from = saStream'["arbiter"][m].from => n = m
      BY <1>1 DEF AlertsInv, AlertsKnown
    <3>4. QED BY <3>2, <3>3 DEF AlertsKnown
  <2>3. AlertKnown(r)
    BY <2>2 DEF AlertsInv, AlertsKnown, AlertKnown
  <2>4. Thread(r.from[1])' = Thread(r.from[1])
    BY <1>3, <2>3, Ids DEF AlertKnown
  <2>5. r.type = "SECURITY_ALERT" => saStream'["sentinel"][r.from[2]] = saStream["sentinel"][r.from[2]]
    BY <2>1, <2>3 DEF AlertKnown
  <2>6. QED BY <2>3, <2>4, <2>5 DEF AlertKnown
<1>6. AlertsRaised'
  <2>1. \A a \in Sources : \A i \in 1 .. saRead[a] :
          (Settled(a, i)' <=> Settled(a, i)) /\ (Risky(a, saStream[a][i])' <=> Risky(a, saStream[a][i]))
    BY <1>1, <1>2 DEF Settled, Raised, Risky
  <2>2. SUFFICES ASSUME NEW a \in Sources
                 PROVE  /\ Thread(a).at = "alert" => Risky(a, Held(a))'
                        /\ Thread(a).at = "ack" => Settled(a, Thread(a).entry)'
                        /\ \A i \in saAcked[a] : Settled(a, i)'
    BY <1>3, Ids DEF AlertsRaised, Settled, Raised, Risky
  <2>3. \A i \in saAcked[a] : i \in 1 .. saRead[a]
    BY Ids DEF AlertsInv, Hands
  <2>4. Thread(a).at \in {"alert", "ack"} => Thread(a).entry \in 1 .. saRead[a]
    <3>0. a \in StreamAgentIds
      BY Ids
    <3>1. PICK r \in Nat : r = saRead[a]
      BY <3>0 DEF TriadTyped
    <3>2. Thread(a).at \in {"alert", "ack"} => Thread(a).entry = r /\ r > 0
      BY <3>1, Ids DEF AlertsInv, Hands
    <3>3. QED BY <3>1, <3>2
  <2>5. Thread(a).at = "alert" => Risky(a, Held(a))'
    <3>1. SUFFICES ASSUME Thread(a).at = "alert" PROVE Risky(a, Held(a))'
      OBVIOUS
    <3>2. PICK i : i = Thread(a).entry
      OBVIOUS
    <3>3. i \in 1 .. saRead[a] /\ Risky(a, saStream[a][i])
      BY <2>4, <3>1, <3>2 DEF AlertsInv, AlertsRaised, Held
    <3>4. Risky(a, saStream[a][i])' /\ Thread(a)'.entry = i
      BY <1>3, <2>1, <3>2, <3>3, Ids
    <3>5. QED BY <3>4 DEF Held, Risky
  <2>6. Thread(a).at = "ack" => Settled(a, Thread(a).entry)'
    <3>1. SUFFICES ASSUME Thread(a).at = "ack" PROVE Settled(a, Thread(a).entry)'
      OBVIOUS
    <3>2. PICK i : i = Thread(a).entry
      OBVIOUS
    <3>3. i \in 1 .. saRead[a] /\ Settled(a, i)
      BY <2>4, <3>1, <3>2 DEF AlertsInv, AlertsRaised
    <3>4. Settled(a, i)' /\ Thread(a)'.entry = i
      BY <1>3, <2>1, <3>2, <3>3, Ids
    <3>5. QED BY <3>4 DEF Settled, Raised, Risky
  <2>7. QED BY <2>1, <2>3, <2>5, <2>6 DEF AlertsInv, AlertsRaised
<1>7. VerdictsKnown'
  BY <1>1, <1>3, Ids DEF AlertsInv, VerdictsKnown
<1>8. QED BY <1>4, <1>5, <1>6, <1>7 DEF AlertsInv

\* The alert of an entry lands on the arbiter's stream.
LEMMA AlertLands ==
    ASSUME TriadTyped, AlertsInv, NEW a \in StreamAgentIds, NEW t \in StreamThreads, Thread(a).at = "alert",
           t.at = "ack", t.entry = Thread(a).entry, ThreadIs(a, t),
           saStream' = [saStream EXCEPT !["arbiter"] = Append(@, AlertOf(a))],
           UNCHANGED <<saRead, saAcked, saVerdicts, saDropped>>
    PROVE  AlertsInv' /\ AlertOf(a) \in Entries("arbiter")
<1>1. Thread(a)' = t /\ \A b \in StreamAgentIds : b # a => Thread(b)' = Thread(b)
  BY ThreadSet
<1>2. a \in Sources
  BY DEF AlertsInv, VerdictsKnown, StreamAgentIds, Sources
<1>3. PICK k : k = Thread(a).entry
  OBVIOUS
<1>4. k \in 1 .. saRead[a] /\ k \in Nat /\ k \in DOMAIN saStream[a] /\ saStream[a][k] \in Entries(a)
  <2>1. PICK r \in Nat, n \in Nat : r = saRead[a] /\ n = Len(saStream[a]) /\ r <= n
    BY DEF TriadTyped
  <2>2. k = r /\ r > 0
    BY <1>3, <2>1 DEF AlertsInv, Hands
  <2>3. saStream[a] \in Seq(Entries(a)) /\ k \in 1 .. n
    BY <2>1, <2>2 DEF TriadTyped
  <2>4. QED BY <2>1, <2>2, <2>3
<1>5. PICK p : p = saStream[a][k]
  OBVIOUS
<1>6. Risky(a, p) /\ Held(a) = p
  BY <1>2, <1>3, <1>5 DEF AlertsInv, AlertsRaised, Held
<1>7. PICK e : e = AlertOf(a)
  OBVIOUS
<1>8. /\ e \in Entries("arbiter") /\ e.from = <<a, k>>
      /\ e.type = "SECURITY_ALERT" => a = "sentinel" /\ e.severity = Severity(p) /\ e.shown = (p.align = "shown")
  <2>1. CASE a = "sentinel"
    <3>1. e = [type |-> "SECURITY_ALERT", severity |-> Severity(p), shown |-> p.align = "shown", pct |-> 0, from |-> <<a, k>>]
      BY <1>3, <1>6, <1>7, <2>1 DEF AlertOf
    <3>2. Severity(p) \in {"", "HIGH", "CRITICAL"} /\ (p.align = "shown") \in BOOLEAN
      BY DEF Severity
    <3>3. QED BY <1>4, <2>1, <3>1, <3>2 DEF Entries, AlertRecords
  <2>2. CASE a # "sentinel"
    <3>1. e = [type |-> "BUDGET_GATE", severity |-> "", shown |-> FALSE, pct |-> p.pct, from |-> <<a, k>>]
      BY <1>3, <1>6, <1>7, <2>2 DEF AlertOf
    <3>2. p.pct \in Nat
      BY <1>2, <1>4, <1>5, <2>2 DEF Entries, Sources
    <3>3. QED BY <1>4, <3>1, <3>2 DEF Entries, AlertRecords
  <2>3. QED BY <2>1, <2>2
<1>9. PICK n \in Nat : n = Len(saStream["arbiter"])
  BY Ids DEF TriadTyped
<1>10. /\ DOMAIN saStream' = StreamAgentIds /\ \A b \in Sources : saStream'[b] = saStream[b]
       /\ DOMAIN saStream["arbiter"] = 1 .. n /\ DOMAIN saStream'["arbiter"] = 1 .. n + 1
       /\ \A i \in 1 .. n : saStream'["arbiter"][i] = saStream["arbiter"][i]
       /\ saStream'["arbiter"][n + 1] = e
  <2>1. saStream' = [saStream EXCEPT !["arbiter"] = Append(@, e)]
    BY <1>7
  <2>2. QED BY <1>8, <1>9, <2>1, StreamGrows, Ids
<1>11. \A i \in 1 .. n + 1 : i \in 1 .. n \/ i = n + 1
  OBVIOUS
<1>12. n + 1 \notin 1 .. n /\ n + 1 \in 1 .. n + 1 /\ \A i \in 1 .. n : i \in 1 .. n + 1
  OBVIOUS
<1>13. \A b \in StreamAgentIds : Hands(b)'
  BY <1>1 DEF AlertsInv, Hands
<1>14. AlertsKnown'
  <2>1. \A i \in 1 .. n : saStream["arbiter"][i].from # <<a, k>>
    <3>1. SUFFICES ASSUME NEW i \in 1 .. n, saStream["arbiter"][i].from = <<a, k>> PROVE FALSE
      OBVIOUS
    <3>2. saStream["arbiter"][i].from[1] = a /\ saStream["arbiter"][i].from[2] = k
      BY <3>1
    <3>3. Thread(a).entry = k => Thread(a).at = "ack"
      BY <1>10, <3>2 DEF AlertsInv, AlertsKnown, AlertKnown
    <3>4. QED BY <1>3, <3>3
  <2>2. \A i, j \in 1 .. n + 1 : saStream'["arbiter"][i].from = saStream'["arbiter"][j].from => i = j
    <3>1. \A i, j \in 1 .. n : saStream["arbiter"][i].from = saStream["arbiter"][j].from => i = j
      BY <1>10 DEF AlertsInv, AlertsKnown, AlertKnown
    <3>2. QED BY <1>8, <1>10, <1>11, <2>1, <3>1
  <2>3. ASSUME NEW i \in 1 .. n + 1, NEW r, r = saStream'["arbiter"][i] PROVE AlertKnown(r)'
    <3>1. CASE i \in 1 .. n
      <4>1. AlertKnown(r)
        <5>1. AlertKnown(saStream["arbiter"][i])
          BY <1>10, <3>1 DEF AlertsInv, AlertsKnown
        <5>2. r = saStream["arbiter"][i]
          BY <1>10, <2>3, <3>1
        <5>3. QED BY <5>1, <5>2 DEF AlertKnown
      <4>2. Thread(r.from[1])' = Thread(r.from[1]) \/ Thread(r.from[1])'.at = "ack"
        <5>1. PICK b \in Sources : b = r.from[1]
          BY <4>1 DEF AlertKnown
        <5>2. Thread(b)' = Thread(b) \/ Thread(b)'.at = "ack"
          BY <1>1, Ids
        <5>3. QED BY <5>1, <5>2
      <4>3. saStream'["sentinel"] = saStream["sentinel"]
        BY <1>10 DEF Sources
      <4>4. QED BY <4>1, <4>2, <4>3 DEF AlertKnown
    <3>2. CASE i = n + 1
      <4>1. r = e /\ r.from[1] = a /\ r.from[2] = k
        BY <1>8, <1>10, <2>3, <3>2
      <4>2. r.type = "SECURITY_ALERT" =>
              /\ a = "sentinel" /\ saStream'["sentinel"][k] = p /\ Severity(p) # ""
              /\ r.severity = Severity(p) /\ r.shown = (p.align = "shown")
        BY <1>5, <1>6, <1>8, <1>10, <4>1 DEF Sources, Risky
      <4>3. Thread(a)'.at = "ack" /\ k \in 1 .. saRead'[a]
        BY <1>1, <1>4
      <4>4. QED BY <1>2, <4>1, <4>2, <4>3 DEF AlertKnown
    <3>3. QED BY <1>11, <2>3, <3>1, <3>2
  <2>4. \A i \in 1 .. n + 1 : AlertKnown(saStream["arbiter"][i])'
    <3>1. SUFFICES ASSUME NEW i \in 1 .. n + 1 PROVE AlertKnown(saStream["arbiter"][i])'
      OBVIOUS
    <3>2. PICK r : r = saStream'["arbiter"][i]
      OBVIOUS
    <3>3. AlertKnown(r)'
      BY <2>3, <3>2
    <3>4. QED BY <3>2, <3>3 DEF AlertKnown
  <2>5. QED BY <1>10, <2>2, <2>4 DEF AlertsKnown
<1>15. \A b \in Sources : \A i : Settled(b, i) => Settled(b, i)'
  <2>1. \A b \in Sources : \A i : Raised(b, i) => Raised(b, i)'
    BY <1>10, <1>12 DEF Raised
  <2>2. \A b \in Sources : \A i : Risky(b, saStream[b][i])' <=> Risky(b, saStream[b][i])
    BY <1>10 DEF Risky
  <2>3. QED BY <2>1, <2>2 DEF Settled
<1>16. AlertsRaised'
  <2>1. SUFFICES ASSUME NEW b \in Sources
                 PROVE  /\ Thread(b)'.at = "alert" => Risky(b, Held(b))'
                        /\ Thread(b)'.at = "ack" => Settled(b, Thread(b).entry)'
                        /\ \A i \in saAcked'[b] : Settled(b, i)'
    BY DEF AlertsRaised
  <2>2. \A i \in saAcked'[b] : Settled(b, i)'
    BY <1>15 DEF AlertsInv, AlertsRaised
  <2>3. CASE b = a
    <3>1. Raised(a, k)'
      BY <1>8, <1>10, <1>12 DEF Raised
    <3>2. Settled(a, k)' /\ Thread(a)'.entry = k
      BY <1>1, <1>3, <3>1 DEF Settled
    <3>3. Settled(b, Thread(b).entry)'
      BY <2>3, <3>2 DEF Settled, Raised, Risky
    <3>4. QED BY <1>1, <2>2, <2>3, <3>3
  <2>4. CASE b # a
    <3>1. Thread(b)' = Thread(b) /\ saStream'[b] = saStream[b]
      BY <1>1, <1>10, <2>4, Ids
    <3>2. Risky(b, Held(b))' <=> Risky(b, Held(b))
      BY <3>1 DEF Risky, Held
    <3>3. Settled(b, Thread(b).entry) => Settled(b, Thread(b).entry)'
      <4>1. PICK i : i = Thread(b).entry
        OBVIOUS
      <4>2. Settled(b, i) => Settled(b, i)'
        BY <1>15
      <4>3. QED BY <3>1, <4>1, <4>2 DEF Settled, Raised, Risky
    <3>4. QED BY <2>2, <3>1, <3>2, <3>3 DEF AlertsInv, AlertsRaised
  <2>5. QED BY <2>3, <2>4
<1>17. VerdictsKnown'
  <2>1. Thread("arbiter")' = Thread("arbiter")
    BY <1>1, <1>2, Ids
  <2>2. \A i \in 1 .. saRead["arbiter"] : saStream'["arbiter"][i] = saStream["arbiter"][i]
    <3>1. saRead["arbiter"] \in 0 .. n
      BY <1>9, Ids DEF TriadTyped
    <3>2. QED BY <1>10, <3>1
  <2>3. QED BY <2>1, <2>2 DEF AlertsInv, VerdictsKnown
<1>18. QED BY <1>7, <1>8, <1>13, <1>14, <1>16, <1>17 DEF AlertsInv

-----------------------------------------------------------------------------
\* What was delivered stays accounted for when each thread keeps its entry, or it is
\* acknowledged or left.
LEMMA PendingStays ==
    ASSUME TriadTyped, PendingIsExplained, UNCHANGED saRead, saLeft \subseteq saLeft',
           \A b \in StreamAgentIds :
             /\ saAcked[b] \subseteq saAcked'[b]
             /\ \/ Thread(b)'.entry = Thread(b).entry \/ Thread(b).entry = 0
                \/ Thread(b).entry \in saAcked'[b] \/ <<b, Thread(b).entry>> \in saLeft'
    PROVE  PendingIsExplained'
<1>1. SUFFICES ASSUME NEW b \in StreamAgentIds, NEW i \in 1 .. saRead[b]
               PROVE  i \in saAcked'[b] \/ Thread(b)'.entry = i \/ <<b, i>> \in saLeft'
  BY DEF PendingIsExplained
<1>2. i # 0
  <2>1. saRead[b] \in Nat
    BY DEF TriadTyped
  <2>2. QED BY <2>1
<1>3. i \in saAcked[b] \/ Thread(b).entry = i \/ <<b, i>> \in saLeft
  BY DEF PendingIsExplained
<1>4. QED BY <1>2, <1>3

LEMMA StartedStays ==
    ASSUME StartedAgentRuns, UNCHANGED <<saStop, saCaller, saUnheard>>,
           \A b \in StreamAgentIds : Thread(b)'.at = "none" => Thread(b).at = "none"
    PROVE  StartedAgentRuns'
  BY DEF StartedAgentRuns

LEMMA IdleKeeps ==
    ASSUME TriadInv, UNCHANGED <<saStream, saRead, saThread, saAcked, saVerdicts, saDropped, saLeft>>,
           saStop' \in [StreamAgentIds -> BOOLEAN], saGas' \in Nat,
           saCaller' \in [StreamAgentIds -> [at : {"idle", "joining"}, last : {"none", "start", "stop"}]],
           StartedAgentRuns'
    PROVE  TriadInv'
<1>1. TriadTyped'
  BY DEF TriadInv, TriadTyped
<1>2. AlertsInv'
  BY Unmoved DEF TriadInv
<1>3. PendingIsExplained'
  BY DEF TriadInv, PendingIsExplained, Thread
<1>4. QED BY <1>1, <1>2, <1>3 DEF TriadInv

LEMMA CallerSet ==
    ASSUME TriadTyped, NEW a \in StreamAgentIds
    PROVE  /\ saCaller[a] \in [at : {"idle", "joining"}, last : {"none", "start", "stop"}]
           /\ \A c : saCaller' = [saCaller EXCEPT ![a] = c] =>
                saCaller'[a] = c /\ \A b \in StreamAgentIds : b # a => saCaller'[b] = saCaller[b]
           /\ \A c \in [at : {"idle", "joining"}, last : {"none", "start", "stop"}] :
                saCaller' = [saCaller EXCEPT ![a] = c] =>
                  saCaller' \in [StreamAgentIds -> [at : {"idle", "joining"}, last : {"none", "start", "stop"}]]
           /\ \A f \in BOOLEAN : saStop' = [saStop EXCEPT ![a] = f] =>
                /\ saStop' \in [StreamAgentIds -> BOOLEAN] /\ saStop'[a] = f
                /\ \A b \in StreamAgentIds : b # a => saStop'[b] = saStop[b]
  BY DEF TriadTyped

LEMMA StartAgentKeeps == ASSUME TriadInv, NEW a \in StreamAgentIds, StartAgent(a) PROVE TriadInv'
<1>1. PICK c : c = [saCaller[a] EXCEPT !.last = "start"]
  OBVIOUS
<1>2. /\ c \in [at : {"idle", "joining"}, last : {"none", "start", "stop"}] /\ c = [at |-> "idle", last |-> "start"]
      /\ saCaller' = [saCaller EXCEPT ![a] = c]
  <2>1. saCaller[a] \in [at : {"idle", "joining"}, last : {"none", "start", "stop"}] /\ saCaller[a].at = "idle"
    BY CallerSet DEF TriadInv, StartAgent
  <2>2. saCaller' = [saCaller EXCEPT ![a] = c]
    BY <1>1 DEF StartAgent
  <2>3. QED BY <1>1, <2>1, <2>2
<1>3. /\ saCaller' \in [StreamAgentIds -> [at : {"idle", "joining"}, last : {"none", "start", "stop"}]]
      /\ saCaller'[a] = c /\ \A b \in StreamAgentIds : b # a => saCaller'[b] = saCaller[b]
  BY <1>2, CallerSet DEF TriadInv
<1>4. CASE Thread(a).at = "none"
  <2>1. PICK t : t = [Gone EXCEPT !.at = "loop"]
    OBVIOUS
  <2>2. t \in StreamThreads /\ t.at = "loop" /\ t.entry = 0
    BY <2>1, ThreadFields DEF TriadInv
  <2>3. /\ ThreadIs(a, t) /\ saStop' = [saStop EXCEPT ![a] = FALSE] /\ saUnheard' = saUnheard \ {a}
        /\ UNCHANGED <<saStream, saRead, saGas, saAcked, saVerdicts, saDropped, saLeft>>
    BY <1>4, <2>1 DEF StartAgent
  <2>4. saThread' \in [StreamAgentIds -> StreamThreads] /\ Thread(a)' = t /\ \A b \in StreamAgentIds : b # a => Thread(b)' = Thread(b)
    BY <2>2, <2>3, ThreadSet DEF TriadInv
  <2>5. /\ saStop' \in [StreamAgentIds -> BOOLEAN] /\ saStop'[a] = FALSE
        /\ \A b \in StreamAgentIds : b # a => saStop'[b] = saStop[b]
    BY <2>3, CallerSet DEF TriadInv
  <2>6. AlertsInv'
    BY <2>2, <2>3, LetsGo DEF TriadInv
  <2>7. PendingIsExplained'
    <3>1. Thread(a).entry = 0
      BY <1>4 DEF TriadInv, AlertsInv, Hands
    <3>2. QED BY <2>3, <2>4, <3>1, PendingStays DEF TriadInv
  <2>8. StartedAgentRuns'
    BY <1>3, <2>2, <2>3, <2>4, <2>5 DEF TriadInv, StartedAgentRuns
  <2>9. TriadTyped'
    BY <1>3, <2>3, <2>4, <2>5 DEF TriadInv, TriadTyped
  <2>10. QED BY <2>6, <2>7, <2>8, <2>9 DEF TriadInv
<1>5. CASE Thread(a).at # "none"
  <2>1. /\ saUnheard' = IF saStop[a] THEN saUnheard \cup {a} ELSE saUnheard
        /\ UNCHANGED <<saStream, saRead, saThread, saStop, saGas, saAcked, saVerdicts, saDropped, saLeft>>
    BY <1>5 DEF StartAgent
  <2>2. StartedAgentRuns'
    <3>1. \A b \in StreamAgentIds : Thread(b)' = Thread(b)
      BY <2>1 DEF Thread
    <3>2. SUFFICES ASSUME NEW b \in StreamAgentIds, saCaller'[b] = [at |-> "idle", last |-> "start"], b \notin saUnheard'
                   PROVE  Thread(b).at # "none" /\ ~saStop[b]
      BY <2>1, <3>1 DEF StartedAgentRuns
    <3>3. CASE b = a
      BY <1>5, <2>1, <3>2, <3>3
    <3>4. CASE b # a
      BY <1>3, <2>1, <3>2, <3>4 DEF TriadInv, StartedAgentRuns
    <3>5. QED BY <3>3, <3>4
  <2>3. saStop' \in [StreamAgentIds -> BOOLEAN] /\ saGas' \in Nat
    BY <2>1 DEF TriadInv, TriadTyped
  <2>4. QED BY <1>3, <2>1, <2>2, <2>3, IdleKeeps
<1>6. QED BY <1>4, <1>5

LEMMA StopAgentKeeps == ASSUME TriadInv, NEW a \in StreamAgentIds, StopAgent(a) PROVE TriadInv'
<1>1. PICK c : c = [saCaller[a] EXCEPT !.at = "joining"]
  OBVIOUS
<1>2. /\ c \in [at : {"idle", "joining"}, last : {"none", "start", "stop"}] /\ c.at = "joining"
      /\ saCaller' = [saCaller EXCEPT ![a] = c] /\ saStop' = [saStop EXCEPT ![a] = TRUE]
      /\ UNCHANGED <<saStream, saRead, saThread, saGas, saAcked, saVerdicts, saDropped, saLeft, saUnheard>>
  <2>1. saCaller[a] \in [at : {"idle", "joining"}, last : {"none", "start", "stop"}]
    BY CallerSet DEF TriadInv
  <2>2. QED BY <1>1, <2>1 DEF StopAgent
<1>3. /\ saCaller' \in [StreamAgentIds -> [at : {"idle", "joining"}, last : {"none", "start", "stop"}]]
      /\ saCaller'[a] = c /\ \A b \in StreamAgentIds : b # a => saCaller'[b] = saCaller[b]
      /\ saStop' \in [StreamAgentIds -> BOOLEAN] /\ \A b \in StreamAgentIds : b # a => saStop'[b] = saStop[b]
  BY <1>2, CallerSet DEF TriadInv
<1>4. StartedAgentRuns'
  <2>1. \A b \in StreamAgentIds : Thread(b)' = Thread(b)
    BY <1>2 DEF Thread
  <2>2. c # [at |-> "idle", last |-> "start"]
    BY <1>2
  <2>3. QED BY <1>2, <1>3, <2>1, <2>2 DEF TriadInv, StartedAgentRuns
<1>5. saGas' \in Nat
  BY <1>2 DEF TriadInv, TriadTyped
<1>6. QED BY <1>2, <1>3, <1>4, <1>5, IdleKeeps

LEMMA AgentStoppedKeeps == ASSUME TriadInv, NEW a \in StreamAgentIds, AgentStopped(a) PROVE TriadInv'
<1>1. PICK c : c = [at |-> "idle", last |-> "stop"]
  OBVIOUS
<1>2. /\ c \in [at : {"idle", "joining"}, last : {"none", "start", "stop"}] /\ c.last = "stop"
      /\ saCaller' = [saCaller EXCEPT ![a] = c]
      /\ UNCHANGED <<saStream, saRead, saThread, saStop, saGas, saAcked, saVerdicts, saDropped, saLeft, saUnheard>>
  BY <1>1 DEF AgentStopped
<1>3. /\ saCaller' \in [StreamAgentIds -> [at : {"idle", "joining"}, last : {"none", "start", "stop"}]]
      /\ saCaller'[a] = c /\ \A b \in StreamAgentIds : b # a => saCaller'[b] = saCaller[b]
  BY <1>2, CallerSet DEF TriadInv
<1>4. StartedAgentRuns'
  <2>1. \A b \in StreamAgentIds : Thread(b)' = Thread(b)
    BY <1>2 DEF Thread
  <2>2. c # [at |-> "idle", last |-> "start"]
    BY <1>2
  <2>3. QED BY <1>2, <1>3, <2>1, <2>2 DEF TriadInv, StartedAgentRuns
<1>5. saStop' \in [StreamAgentIds -> BOOLEAN] /\ saGas' \in Nat
  BY <1>2 DEF TriadInv, TriadTyped
<1>6. QED BY <1>2, <1>3, <1>4, <1>5, IdleKeeps

LEMMA RefillKeeps == ASSUME TriadInv, RefillGas PROVE TriadInv'
<1>1. /\ UNCHANGED <<saStream, saRead, saThread, saStop, saCaller, saAcked, saVerdicts, saDropped, saLeft, saUnheard>>
      /\ saGas' = StreamGas
  BY DEF RefillGas
<1>2. StartedAgentRuns'
  BY <1>1 DEF TriadInv, StartedAgentRuns, Thread
<1>3. /\ saGas' \in Nat /\ saStop' \in [StreamAgentIds -> BOOLEAN]
      /\ saCaller' \in [StreamAgentIds -> [at : {"idle", "joining"}, last : {"none", "start", "stop"}]]
  BY <1>1, StreamGasAssumption DEF TriadInv, TriadTyped
<1>4. QED BY <1>1, <1>2, <1>3, IdleKeeps

\* A thread moves on, and nothing else but gas and what is accounted for changes.
LEMMA MovesKeep ==
    ASSUME TriadInv, NEW a \in StreamAgentIds, NEW t \in StreamThreads, ThreadIs(a, t), t.at # "none",
           AlertsInv', saGas' \in Nat, DOMAIN saAcked' = StreamAgentIds, DOMAIN saStream' = StreamAgentIds,
           \A b \in StreamAgentIds : saStream'[b] \in Seq(Entries(b)) /\ saRead'[b] \in 0 .. Len(saStream'[b]),
           DOMAIN saRead' = StreamAgentIds, PendingIsExplained', UNCHANGED <<saStop, saCaller, saUnheard>>,
           Thread(a).at # "none"
    PROVE  TriadInv'
<1>1. saThread' \in [StreamAgentIds -> StreamThreads] /\ Thread(a)' = t /\ \A b \in StreamAgentIds : b # a => Thread(b)' = Thread(b)
  BY ThreadSet DEF TriadInv
<1>2. StartedAgentRuns'
  BY <1>1, StartedStays DEF TriadInv
<1>3. TriadTyped'
  BY <1>1 DEF TriadInv, TriadTyped
<1>4. QED BY <1>2, <1>3 DEF TriadInv

LEMMA LoopHeadKeeps == ASSUME TriadInv, NEW a \in StreamAgentIds, LoopHead(a) PROVE TriadInv'
<1>1. PICK t : t = IF saStop[a] THEN Gone ELSE [Gone EXCEPT !.at = "reading"]
  OBVIOUS
<1>2. t \in StreamThreads /\ t.at \in {"none", "reading"} /\ t.entry = 0 /\ (t.at = "none" => saStop[a])
  BY <1>1, ThreadFields DEF TriadInv
<1>3. /\ ThreadIs(a, t) /\ Thread(a).at = "loop"
      /\ UNCHANGED <<saStream, saRead, saStop, saCaller, saGas, saAcked, saVerdicts, saDropped, saLeft, saUnheard>>
  BY <1>1 DEF LoopHead
<1>4. saThread' \in [StreamAgentIds -> StreamThreads] /\ Thread(a)' = t /\ \A b \in StreamAgentIds : b # a => Thread(b)' = Thread(b)
  BY <1>2, <1>3, ThreadSet DEF TriadInv
<1>5. AlertsInv'
  BY <1>2, <1>3, LetsGo DEF TriadInv
<1>6. PendingIsExplained'
  <2>1. Thread(a).entry = 0
    BY <1>3 DEF TriadInv, AlertsInv, Hands
  <2>2. QED BY <1>3, <1>4, <2>1, PendingStays DEF TriadInv
<1>7. StartedAgentRuns'
  BY <1>2, <1>3, <1>4 DEF TriadInv, StartedAgentRuns
<1>8. TriadTyped'
  BY <1>3, <1>4 DEF TriadInv, TriadTyped
<1>9. QED BY <1>5, <1>6, <1>7, <1>8 DEF TriadInv

LEMMA CrashKeeps == ASSUME TriadInv, NEW a \in StreamAgentIds, AgentCrash(a) PROVE TriadInv'
<1>1. Gone \in StreamThreads /\ Gone.at = "none" /\ Gone.entry = 0
  BY ThreadFields DEF TriadInv
<1>2. PICK c : c = [at |-> "idle", last |-> "none"]
  OBVIOUS
<1>3. /\ ThreadIs(a, Gone) /\ saStop' = [saStop EXCEPT ![a] = FALSE] /\ saCaller' = [saCaller EXCEPT ![a] = c]
      /\ saLeft' = (IF Thread(a).entry = 0 THEN saLeft ELSE saLeft \cup {<<a, Thread(a).entry>>})
      /\ saUnheard' = saUnheard \ {a} /\ UNCHANGED <<saStream, saRead, saGas, saAcked, saVerdicts, saDropped>>
  BY <1>2 DEF AgentCrash
<1>4. saThread' \in [StreamAgentIds -> StreamThreads] /\ Thread(a)' = Gone /\ \A b \in StreamAgentIds : b # a => Thread(b)' = Thread(b)
  BY <1>1, <1>3, ThreadSet DEF TriadInv
<1>5. AlertsInv'
  BY <1>1, <1>3, LetsGo DEF TriadInv
<1>6. PendingIsExplained'
  BY <1>3, <1>4, PendingStays DEF TriadInv
<1>7. /\ saCaller' \in [StreamAgentIds -> [at : {"idle", "joining"}, last : {"none", "start", "stop"}]]
      /\ saCaller'[a] = c /\ \A b \in StreamAgentIds : b # a => saCaller'[b] = saCaller[b]
      /\ saStop' \in [StreamAgentIds -> BOOLEAN] /\ \A b \in StreamAgentIds : b # a => saStop'[b] = saStop[b]
  <2>1. c \in [at : {"idle", "joining"}, last : {"none", "start", "stop"}]
    BY <1>2
  <2>2. QED BY <1>3, <2>1, CallerSet DEF TriadInv
<1>8. StartedAgentRuns'
  <2>1. c # [at |-> "idle", last |-> "start"]
    BY <1>2
  <2>2. QED BY <1>3, <1>4, <1>7, <2>1 DEF TriadInv, StartedAgentRuns
<1>9. TriadTyped'
  BY <1>3, <1>4, <1>7 DEF TriadInv, TriadTyped
<1>10. QED BY <1>5, <1>6, <1>8, <1>9 DEF TriadInv

LEMMA AckKeeps == ASSUME TriadInv, NEW a \in StreamAgentIds, AckEntry(a) PROVE TriadInv'
<1>1. PICK t : t = [Gone EXCEPT !.at = "loop"]
  OBVIOUS
<1>2. t \in StreamThreads /\ t.at = "loop" /\ t.entry = 0
  BY <1>1, ThreadFields DEF TriadInv
<1>3. /\ ThreadIs(a, t) /\ Thread(a).at = "ack"
      /\ \/ saAcked' = [saAcked EXCEPT ![a] = @ \cup {Thread(a).entry}] /\ UNCHANGED saLeft
         \/ saLeft' = saLeft \cup {<<a, Thread(a).entry>>} /\ UNCHANGED saAcked
      /\ UNCHANGED <<saStream, saRead, saStop, saCaller, saGas, saVerdicts, saDropped, saUnheard>>
  BY <1>1 DEF AckEntry
<1>4. Thread(a)' = t /\ \A b \in StreamAgentIds : b # a => Thread(b)' = Thread(b)
  BY <1>2, <1>3, ThreadSet DEF TriadInv
<1>5. AlertsInv' /\ DOMAIN saAcked' = StreamAgentIds
  BY <1>2, <1>3, LetsGo DEF TriadInv
<1>6. PendingIsExplained'
  <2>1. \A b \in StreamAgentIds : saAcked[b] \subseteq saAcked'[b]
    BY <1>3 DEF TriadInv, TriadTyped
  <2>2. Thread(a).entry \in saAcked'[a] \/ <<a, Thread(a).entry>> \in saLeft'
    BY <1>3 DEF TriadInv, TriadTyped
  <2>3. QED BY <1>3, <1>4, <2>1, <2>2, PendingStays DEF TriadInv
<1>7. /\ saGas' \in Nat /\ DOMAIN saStream' = StreamAgentIds /\ DOMAIN saRead' = StreamAgentIds
      /\ \A b \in StreamAgentIds : saStream'[b] \in Seq(Entries(b)) /\ saRead'[b] \in 0 .. Len(saStream'[b])
  BY <1>3 DEF TriadInv, TriadTyped
<1>8. QED BY <1>2, <1>3, <1>5, <1>6, <1>7, MovesKeep

LEMMA ReadKeeps == ASSUME TriadInv, NEW a \in StreamAgentIds, ReadEntry(a) PROVE TriadInv'
<1>1. /\ Thread(a).at = "reading" /\ Thread(a).entry = 0
      /\ UNCHANGED <<saStream, saStop, saCaller, saGas, saAcked, saVerdicts, saDropped, saLeft, saUnheard>>
  BY DEF ReadEntry, TriadInv, AlertsInv, Hands
<1>2. CASE GoesTo(a, "loop") /\ UNCHANGED saRead
  <2>1. PICK t : t = [Thread(a) EXCEPT !.at = "loop"]
    OBVIOUS
  <2>2. t \in StreamThreads /\ t.at = "loop" /\ t.entry = 0 /\ ThreadIs(a, t)
    BY <1>1, <1>2, <2>1, ThreadFields DEF TriadInv, GoesTo
  <2>3. AlertsInv' /\ DOMAIN saAcked' = StreamAgentIds
    BY <1>1, <1>2, <2>2, LetsGo DEF TriadInv
  <2>4. PendingIsExplained'
    <3>1. \A b \in StreamAgentIds : b # a => Thread(b)' = Thread(b)
      BY <2>2, ThreadSet DEF TriadInv
    <3>2. QED BY <1>1, <1>2, <3>1, PendingStays DEF TriadInv
  <2>5. /\ saGas' \in Nat /\ DOMAIN saStream' = StreamAgentIds /\ DOMAIN saRead' = StreamAgentIds
        /\ \A b \in StreamAgentIds : saStream'[b] \in Seq(Entries(b)) /\ saRead'[b] \in 0 .. Len(saStream'[b])
    BY <1>1, <1>2 DEF TriadInv, TriadTyped
  <2>6. QED BY <1>1, <2>2, <2>3, <2>4, <2>5, MovesKeep
<1>3. CASE /\ saRead[a] < Len(saStream[a]) /\ saRead' = [saRead EXCEPT ![a] = @ + 1]
           /\ ThreadIs(a, [Gone EXCEPT !.at = "entry", !.entry = saRead'[a]])
  <2>1. PICK r \in Nat, n \in Nat : r = saRead[a] /\ n = Len(saStream[a]) /\ r < n
    BY <1>3 DEF TriadInv, TriadTyped
  <2>2. /\ saRead'[a] = r + 1 /\ DOMAIN saRead' = StreamAgentIds /\ \A b \in StreamAgentIds : b # a => saRead'[b] = saRead[b]
    BY <1>3, <2>1 DEF TriadInv, TriadTyped
  <2>3. PICK x \in Nat : x = saRead'[a] /\ x = r + 1
    BY <2>1, <2>2
  <2>4. PICK t : t \in StreamThreads /\ t.at = "entry" /\ t.entry = r + 1 /\ ThreadIs(a, t)
    <3>1. PICK t : t = [Gone EXCEPT !.at = "entry", !.entry = x]
      OBVIOUS
    <3>2. Gone \in StreamThreads
      BY ThreadFields DEF TriadInv
    <3>3. t \in StreamThreads /\ t.at = "entry" /\ t.entry = x
      BY <3>1, <3>2 DEF StreamThreads
    <3>4. ThreadIs(a, t)
      BY <1>3, <2>3, <3>1 DEF ThreadIs
    <3>5. QED BY <2>3, <3>3, <3>4
  <2>5. AlertsInv'
    BY <1>1, <1>3, <2>1, <2>4, ReadsOn DEF TriadInv
  <2>6. Thread(a)' = t /\ \A b \in StreamAgentIds : b # a => Thread(b)' = Thread(b)
    BY <2>4, ThreadSet DEF TriadInv
  <2>7. PendingIsExplained'
    <3>1. SUFFICES ASSUME NEW b \in StreamAgentIds, NEW i \in 1 .. saRead'[b]
                   PROVE  i \in saAcked[b] \/ Thread(b)'.entry = i \/ <<b, i>> \in saLeft
      BY <1>1 DEF PendingIsExplained
    <3>2. CASE b = a /\ i = r + 1
      BY <2>4, <2>6, <3>2
    <3>3. CASE b # a
      BY <2>2, <2>6, <3>1, <3>3 DEF TriadInv, PendingIsExplained
    <3>4. CASE b = a /\ i # r + 1
      <4>1. i \in 1 .. r /\ i # 0
        BY <2>1, <2>2, <3>1, <3>4
      <4>2. i \in saAcked[a] \/ Thread(a).entry = i \/ <<a, i>> \in saLeft
        BY <2>1, <4>1 DEF TriadInv, PendingIsExplained
      <4>3. QED BY <1>1, <3>4, <4>1, <4>2
    <3>5. QED BY <3>2, <3>3, <3>4
  <2>8. /\ saGas' \in Nat /\ DOMAIN saStream' = StreamAgentIds /\ DOMAIN saAcked' = StreamAgentIds
        /\ \A b \in StreamAgentIds : saStream'[b] \in Seq(Entries(b)) /\ saRead'[b] \in 0 .. Len(saStream'[b])
    <3>1. saRead'[a] \in 0 .. Len(saStream'[a])
      BY <1>1, <2>1, <2>2
    <3>2. QED BY <1>1, <2>2, <3>1 DEF TriadInv, TriadTyped
  <2>9. QED BY <1>1, <2>2, <2>4, <2>5, <2>7, <2>8, MovesKeep
<1>4. QED BY <1>2, <1>3 DEF ReadEntry

LEMMA SkipKeeps == ASSUME TriadInv, NEW a \in StreamAgentIds, Skip(a) PROVE TriadInv'
<1>1. PICK t : t = [Thread(a) EXCEPT !.at = "ack"]
  OBVIOUS
<1>2. t \in StreamThreads /\ t.at = "ack" /\ t.entry = Thread(a).entry
  BY <1>1, ThreadFields DEF TriadInv
<1>3. /\ ThreadIs(a, t) /\ Thread(a).at = "entry" /\ saDropped' = saDropped \cup {<<a, Thread(a).entry>>}
      /\ UNCHANGED <<saStream, saRead, saStop, saCaller, saGas, saAcked, saVerdicts, saLeft, saUnheard>>
  <2>1. (saGas < AgentCost(a) /\ UNCHANGED saFaults) \/ Fault
    BY DEF Skip
  <2>2. QED BY <1>1 DEF Skip, GoesTo
<1>4. AlertsInv'
  BY <1>2, <1>3, Handles DEF TriadInv
<1>5. PendingIsExplained'
  <2>1. Thread(a)' = t /\ \A b \in StreamAgentIds : b # a => Thread(b)' = Thread(b)
    BY <1>2, <1>3, ThreadSet DEF TriadInv
  <2>2. QED BY <1>2, <1>3, <2>1, PendingStays DEF TriadInv
<1>6. /\ saGas' \in Nat /\ DOMAIN saStream' = StreamAgentIds /\ DOMAIN saRead' = StreamAgentIds
      /\ DOMAIN saAcked' = StreamAgentIds
      /\ \A b \in StreamAgentIds : saStream'[b] \in Seq(Entries(b)) /\ saRead'[b] \in 0 .. Len(saStream'[b])
  BY <1>3 DEF TriadInv, TriadTyped
<1>7. QED BY <1>2, <1>3, <1>4, <1>5, <1>6, MovesKeep

\* Scan, Audit and Judge: the gas is paid, and the thread goes on to an alert or to its end.
LEMMA WorkKeeps ==
    ASSUME TriadInv, NEW a \in StreamAgentIds, Pays(a), NEW at \in {"alert", "ack"}, GoesTo(a, at),
           a \in Sources => /\ at = "alert" <=> Risky(a, Held(a))
                            /\ UNCHANGED saVerdicts,
           a = "arbiter" => /\ at = "ack"
                            /\ saVerdicts' = saVerdicts \cup {<<Thread(a).entry, Adjudicate(Held(a))>>}
    PROVE  TriadInv'
<1>1. PICK t : t = [Thread(a) EXCEPT !.at = at]
  OBVIOUS
<1>2. t \in StreamThreads /\ t.at = at /\ t.entry = Thread(a).entry
  BY <1>1, ThreadFields DEF TriadInv
<1>3. /\ ThreadIs(a, t) /\ Thread(a).at = "entry"
      /\ UNCHANGED <<saStream, saRead, saStop, saCaller, saAcked, saDropped, saLeft, saUnheard>>
  BY <1>1 DEF Pays, GoesTo
<1>4. AlertsInv'
  BY <1>2, <1>3, Handles DEF TriadInv
<1>5. PendingIsExplained'
  <2>1. Thread(a)' = t /\ \A b \in StreamAgentIds : b # a => Thread(b)' = Thread(b)
    BY <1>2, <1>3, ThreadSet DEF TriadInv
  <2>2. QED BY <1>2, <1>3, <2>1, PendingStays DEF TriadInv
<1>6. saGas' \in Nat
  <2>1. PICK g \in Nat, c \in {1, 2} : g = saGas /\ c = AgentCost(a)
    BY DEF TriadInv, TriadTyped, AgentCost
  <2>2. g >= c /\ saGas' = g - c
    BY <2>1 DEF Pays
  <2>3. QED BY <2>1, <2>2
<1>7. /\ DOMAIN saStream' = StreamAgentIds /\ DOMAIN saRead' = StreamAgentIds
      /\ DOMAIN saAcked' = StreamAgentIds
      /\ \A b \in StreamAgentIds : saStream'[b] \in Seq(Entries(b)) /\ saRead'[b] \in 0 .. Len(saStream'[b])
  BY <1>3 DEF TriadInv, TriadTyped
<1>8. QED BY <1>2, <1>3, <1>4, <1>5, <1>6, <1>7, MovesKeep

LEMMA ScanKeeps == ASSUME TriadInv, Scan PROVE TriadInv'
<1>1. PICK at \in {"alert", "ack"} : at = IF Severity(Held("sentinel")) # "" THEN "alert" ELSE "ack"
  OBVIOUS
<1>2. Pays("sentinel") /\ GoesTo("sentinel", at) /\ UNCHANGED saVerdicts
  BY <1>1 DEF Scan
<1>3. at = "alert" <=> Risky("sentinel", Held("sentinel"))
  BY <1>1 DEF Risky
<1>4. QED BY <1>2, <1>3, WorkKeeps, Ids

LEMMA AuditKeeps == ASSUME TriadInv, Audit PROVE TriadInv'
<1>1. PICK at \in {"alert", "ack"} : at = IF BudgetGated(Held("scribe").pct) THEN "alert" ELSE "ack"
  OBVIOUS
<1>2. Pays("scribe") /\ GoesTo("scribe", at) /\ UNCHANGED saVerdicts
  BY <1>1 DEF Audit
<1>3. at = "alert" <=> Risky("scribe", Held("scribe"))
  BY <1>1 DEF Risky
<1>4. QED BY <1>2, <1>3, WorkKeeps, Ids

LEMMA JudgeKeeps == ASSUME TriadInv, Judge PROVE TriadInv'
<1>1. PICK at \in {"alert", "ack"} : at = "ack"
  OBVIOUS
<1>2. /\ Pays("arbiter") /\ GoesTo("arbiter", at)
      /\ saVerdicts' = saVerdicts \cup {<<Thread("arbiter").entry, Adjudicate(Held("arbiter"))>>}
  BY <1>1 DEF Judge
<1>3. QED BY <1>1, <1>2, WorkKeeps, Ids

LEMMA PublishKeeps == ASSUME TriadInv, NEW a \in StreamAgentIds, PublishAlert(a) PROVE TriadInv'
<1>1. PICK t : t = [Thread(a) EXCEPT !.at = "ack"]
  OBVIOUS
<1>2. t \in StreamThreads /\ t.at = "ack" /\ t.entry = Thread(a).entry
  BY <1>1, ThreadFields DEF TriadInv
<1>3. /\ ThreadIs(a, t) /\ Thread(a).at = "alert"
      /\ UNCHANGED <<saRead, saStop, saCaller, saGas, saAcked, saVerdicts, saLeft, saUnheard>>
  BY <1>1 DEF PublishAlert, GoesTo
<1>4. PendingIsExplained'
  <2>1. Thread(a)' = t /\ \A b \in StreamAgentIds : b # a => Thread(b)' = Thread(b)
    BY <1>2, <1>3, ThreadSet DEF TriadInv
  <2>2. QED BY <1>2, <1>3, <2>1, PendingStays DEF TriadInv
<1>5. saGas' \in Nat /\ DOMAIN saRead' = StreamAgentIds /\ DOMAIN saAcked' = StreamAgentIds
  BY <1>3 DEF TriadInv, TriadTyped
<1>6. /\ AlertsInv' /\ DOMAIN saStream' = StreamAgentIds
      /\ \A b \in StreamAgentIds : saStream'[b] \in Seq(Entries(b)) /\ saRead'[b] \in 0 .. Len(saStream'[b])
  <2>1. CASE saStream' = [saStream EXCEPT !["arbiter"] = Append(@, AlertOf(a))] /\ UNCHANGED saDropped
    <3>1. AlertsInv' /\ AlertOf(a) \in Entries("arbiter")
      BY <1>2, <1>3, <2>1, AlertLands DEF TriadInv
    <3>2. /\ DOMAIN saStream' = StreamAgentIds
          /\ \A b \in StreamAgentIds : saStream'[b] \in Seq(Entries(b)) /\ saRead[b] \in 0 .. Len(saStream'[b])
      <4>1. PICK e \in Entries("arbiter") : e = AlertOf(a)
        BY <3>1
      <4>2. saStream' = [saStream EXCEPT !["arbiter"] = Append(@, e)]
        BY <2>1, <4>1
      <4>3. QED BY <4>2, StreamGrows, Ids DEF TriadInv
    <3>3. QED BY <1>3, <3>1, <3>2
  <2>2. CASE saDropped' = saDropped \cup {<<a, Thread(a).entry>>} /\ UNCHANGED saStream
    <3>1. a # "arbiter"
      BY <1>3 DEF TriadInv, AlertsInv, VerdictsKnown
    <3>2. AlertsInv'
      BY <1>2, <1>3, <2>2, <3>1, Handles DEF TriadInv
    <3>3. QED BY <1>3, <2>2, <3>2 DEF TriadInv, TriadTyped
  <2>3. QED BY <2>1, <2>2 DEF PublishAlert
<1>7. QED BY <1>2, <1>3, <1>4, <1>5, <1>6, MovesKeep

LEMMA ArrivalKeeps ==
    ASSUME TriadInv, NEW b \in Sources, NEW e \in Entries(b), EventArrives(b, e)
    PROVE  TriadInv'
<1>1. /\ saStream' = [saStream EXCEPT ![b] = Append(@, e)]
      /\ UNCHANGED <<saRead, saThread, saStop, saCaller, saGas, saAcked, saVerdicts, saDropped, saLeft, saUnheard>>
  BY DEF EventArrives
<1>2. AlertsInv'
  BY <1>1, EventLands DEF TriadInv
<1>3. /\ DOMAIN saStream' = StreamAgentIds
      /\ \A a \in StreamAgentIds : saStream'[a] \in Seq(Entries(a)) /\ saRead[a] \in 0 .. Len(saStream'[a])
  BY <1>1, StreamGrows, Ids DEF TriadInv
<1>4. TriadTyped'
  BY <1>1, <1>3 DEF TriadInv, TriadTyped
<1>5. PendingIsExplained' /\ StartedAgentRuns'
  BY <1>1 DEF TriadInv, PendingIsExplained, StartedAgentRuns, Thread
<1>6. QED BY <1>2, <1>4, <1>5 DEF TriadInv

LEMMA TriadStart == TriadInit => TriadInv
<1> SUFFICES ASSUME TriadInit PROVE TriadInv
  OBVIOUS
<1>1. /\ saStream = [a \in StreamAgentIds |-> <<>>] /\ saRead = [a \in StreamAgentIds |-> 0]
      /\ saThread = [a \in StreamAgentIds |-> Gone] /\ saStop = [a \in StreamAgentIds |-> FALSE]
      /\ saCaller = [a \in StreamAgentIds |-> [at |-> "idle", last |-> "none"]]
      /\ saGas = StreamGas /\ saAcked = [a \in StreamAgentIds |-> {}] /\ saVerdicts = {}
  BY DEF TriadInit
<1>2. Gone \in StreamThreads /\ Gone.at = "none" /\ Gone.entry = 0
  BY DEF Gone, StreamThreads
<1>3. \A a \in StreamAgentIds : Thread(a).at = "none" /\ Thread(a).entry = 0
  BY <1>1, <1>2 DEF Thread
<1>4. TriadTyped
  <2>1. \A S : <<>> \in Seq(S) /\ Len(<<>>) = 0
    OBVIOUS
  <2>2. \A a \in StreamAgentIds : saStream[a] \in Seq(Entries(a)) /\ saRead[a] \in 0 .. Len(saStream[a])
    BY <1>1, <2>1
  <2>3. QED BY <1>1, <1>2, <2>2, StreamGasAssumption DEF TriadTyped
<1>5. \A a \in StreamAgentIds : Hands(a)
  BY <1>1, <1>3 DEF Hands
<1>6. AlertsKnown
  <2>1. DOMAIN saStream["arbiter"] = {}
    <3>1. DOMAIN <<>> = {}
      OBVIOUS
    <3>2. QED BY <1>1, <3>1, Ids
  <2>2. QED BY <2>1 DEF AlertsKnown
<1>7. AlertsRaised
  BY <1>1, <1>3, Ids DEF AlertsRaised
<1>8. VerdictsKnown
  BY <1>1, <1>3, Ids DEF VerdictsKnown
<1>9. PendingIsExplained
  <2>1. 1 .. 0 = {}
    OBVIOUS
  <2>2. QED BY <1>1, <2>1 DEF PendingIsExplained
<1>10. StartedAgentRuns
  <2>1. [at |-> "idle", last |-> "none"] # [at |-> "idle", last |-> "start"]
    OBVIOUS
  <2>2. QED BY <1>1, <2>1 DEF StartedAgentRuns
<1>11. QED BY <1>4, <1>5, <1>6, <1>7, <1>8, <1>9, <1>10 DEF TriadInv, AlertsInv

LEMMA TriadStep == TriadInv /\ [TriadNext]_saVars => TriadInv'
<1> SUFFICES ASSUME TriadInv, [TriadNext]_saVars PROVE TriadInv'
  OBVIOUS
<1>1. CASE UNCHANGED saVars
  <2>1. UNCHANGED <<saStream, saRead, saThread, saStop, saCaller, saGas, saAcked, saVerdicts, saDropped, saLeft, saUnheard>>
    BY <1>1 DEF saVars
  <2>2. AlertsInv'
    BY <2>1, Unmoved DEF TriadInv
  <2>3. TriadTyped' /\ PendingIsExplained' /\ StartedAgentRuns'
    BY <2>1 DEF TriadInv, TriadTyped, PendingIsExplained, StartedAgentRuns, Thread
  <2>4. QED BY <2>2, <2>3 DEF TriadInv
<1>2. ASSUME NEW a \in StreamAgentIds,
             \/ StartAgent(a) \/ StopAgent(a) \/ AgentStopped(a) \/ LoopHead(a) \/ ReadEntry(a)
             \/ Skip(a) \/ PublishAlert(a) \/ AckEntry(a) \/ AgentCrash(a)
      PROVE  TriadInv'
  BY <1>2, StartAgentKeeps, StopAgentKeeps, AgentStoppedKeeps, LoopHeadKeeps, ReadKeeps, SkipKeeps, PublishKeeps,
     AckKeeps, CrashKeeps
<1>3. CASE Scan \/ Audit \/ Judge \/ RefillGas
  BY <1>3, ScanKeeps, AuditKeeps, JudgeKeeps, RefillKeeps
<1>4. ASSUME NEW p \in Payload, EventArrives("sentinel", p) PROVE TriadInv'
  <2>1. "sentinel" \in Sources /\ p \in Entries("sentinel")
    BY DEF Sources, Entries
  <2>2. QED BY <1>4, <2>1, ArrivalKeeps
<1>5. ASSUME NEW pct \in {79, 80, 90, 98}, EventArrives("scribe", [pct |-> pct]) PROVE TriadInv'
  <2>1. "scribe" \in Sources /\ [pct |-> pct] \in Entries("scribe")
    BY DEF Sources, Entries
  <2>2. QED BY <1>5, <2>1, ArrivalKeeps
<1>6. QED BY <1>1, <1>2, <1>3, <1>4, <1>5 DEF TriadNext

LEMMA TriadInductive == TriadSpec => []TriadInv
  BY TriadStart, TriadStep, PTL DEF TriadSpec

LEMMA AlertJudged ==
    ASSUME NEW e \in AlertRecords, e.type = "SECURITY_ALERT", NEW p \in Payload,
           e.severity = Severity(p), e.severity # "", e.shown = (p.align = "shown")
    PROVE  Adjudicate(e) # "ALLOW" /\ (Adjudicate(e) = "ESCALATE" => p.align = "hidden")
<1>1. CASE e.shown
  <2>1. Adjudicate(e) = "QUARANTINE"
    BY <1>1 DEF Adjudicate
  <2>2. QED BY <2>1
<1>2. CASE ~e.shown /\ e.severity = "CRITICAL"
  <2>1. Adjudicate(e) = "QUARANTINE"
    BY <1>2 DEF Adjudicate
  <2>2. QED BY <2>1
<1>3. CASE ~e.shown /\ e.severity # "CRITICAL"
  <2>1. Adjudicate(e) = "ESCALATE"
    BY <1>3 DEF Adjudicate
  <2>2. p.align \in {"no", "shown", "hidden"} /\ p.align # "shown"
    BY <1>3 DEF Payload
  <2>3. p.align # "no"
    BY <1>3 DEF Severity
  <2>4. QED BY <2>1, <2>2, <2>3
<1>4. QED BY <1>1, <1>2, <1>3 DEF AlertRecords

LEMMA TriadSound == TriadInv => TriadIsSound
<1> SUFFICES ASSUME TriadInv PROVE TriadIsSound
  OBVIOUS
<1>1. ASSUME NEW a \in Sources, NEW i \in saAcked[a], Risky(a, saStream[a][i]), <<a, i>> \notin saDropped
      PROVE  Cardinality(Alerts(a, i)) = 1
  <2>1. Raised(a, i)
    BY <1>1 DEF TriadInv, AlertsInv, AlertsRaised, Settled
  <2>2. PICK n \in DOMAIN saStream["arbiter"] : saStream["arbiter"][n].from = <<a, i>>
    BY <2>1 DEF Raised
  <2>3. Alerts(a, i) = {n}
    BY <2>2 DEF TriadInv, AlertsInv, AlertsKnown, Alerts
  <2>4. QED BY <2>3, FS_Singleton
<1>2. \A v \in saVerdicts : v = <<v[1], Adjudicate(saStream["arbiter"][v[1]])>>
  BY DEF TriadInv, AlertsInv, VerdictsKnown
<1>3. \A v, w \in saVerdicts : v[1] = w[1] => v = w
  <2>1. SUFFICES ASSUME NEW v \in saVerdicts, NEW w \in saVerdicts, v[1] = w[1] PROVE v = w
    OBVIOUS
  <2>2. PICK x : x = Adjudicate(saStream["arbiter"][v[1]])
    OBVIOUS
  <2>3. v = <<v[1], x>> /\ w = <<w[1], x>>
    BY <1>2, <2>1, <2>2
  <2>4. QED BY <2>1, <2>3
<1>4. ASSUME NEW n \in saAcked["arbiter"], <<"arbiter", n>> \notin saDropped
      PROVE  Cardinality(VerdictsOn(n)) = 1
  <2>1. PICK v \in saVerdicts : v[1] = n
    BY <1>4 DEF TriadInv, AlertsInv, VerdictsKnown
  <2>2. VerdictsOn(n) = {v}
    BY <1>3, <2>1 DEF VerdictsOn
  <2>3. QED BY <2>2, FS_Singleton
<1>5. AlertsAreDelivered
  BY <1>1, <1>4 DEF AlertsAreDelivered, Sources
<1>6. VerdictsFitThePayload
  <2>1. SUFFICES ASSUME NEW v \in saVerdicts, NEW e, e = saStream["arbiter"][v[1]], e.type = "SECURITY_ALERT"
                 PROVE  /\ v[2] # "ALLOW"
                        /\ v[2] = "ESCALATE" => saStream[e.from[1]][e.from[2]].align = "hidden"
    BY <1>3 DEF VerdictsFitThePayload
  <2>2. v[1] \in DOMAIN saStream["arbiter"] /\ e \in AlertRecords
    <3>1. PICK r \in Nat, n \in Nat : r = saRead["arbiter"] /\ n = Len(saStream["arbiter"]) /\ r <= n
      BY Ids DEF TriadInv, TriadTyped
    <3>2. saStream["arbiter"] \in Seq(AlertRecords)
      BY Ids DEF TriadInv, TriadTyped, Entries
    <3>3. v[1] \in 1 .. r
      BY <3>1 DEF TriadInv, AlertsInv, VerdictsKnown
    <3>4. QED BY <2>1, <3>1, <3>2, <3>3
  <2>3. AlertKnown(e)
    <3>1. AlertKnown(saStream["arbiter"][v[1]])
      BY <2>2 DEF TriadInv, AlertsInv, AlertsKnown
    <3>2. QED BY <2>1, <3>1
  <2>4. PICK p : p = saStream["sentinel"][e.from[2]]
    OBVIOUS
  <2>5. /\ e.from[1] = "sentinel" /\ e.from[2] \in 1 .. saRead["sentinel"]
        /\ e.severity = Severity(p) /\ e.severity # "" /\ e.shown = (p.align = "shown")
    BY <2>1, <2>3, <2>4 DEF AlertKnown
  <2>6. p \in Payload
    <3>1. PICK r \in Nat, n \in Nat : r = saRead["sentinel"] /\ n = Len(saStream["sentinel"]) /\ r <= n
      BY Ids DEF TriadInv, TriadTyped
    <3>2. saStream["sentinel"] \in Seq(Payload)
      BY Ids DEF TriadInv, TriadTyped, Entries
    <3>3. PICK i : i = e.from[2]
      OBVIOUS
    <3>4. i \in 1 .. n
      <4>1. i \in 1 .. saRead["sentinel"]
        BY <2>5, <3>3
      <4>2. i \in 1 .. r /\ r <= n
        BY <3>1, <4>1
      <4>3. i \in Nat /\ 1 <= i /\ i <= r
        BY <3>1, <4>2
      <4>4. QED BY <3>1, <4>2, <4>3
    <3>5. saStream["sentinel"][i] \in Payload
      BY <3>1, <3>2, <3>4
    <3>6. QED BY <2>4, <3>3, <3>5
  <2>7. Adjudicate(e) # "ALLOW" /\ (Adjudicate(e) = "ESCALATE" => p.align = "hidden")
    BY <2>1, <2>2, <2>5, <2>6, AlertJudged
  <2>8. v[2] = Adjudicate(e)
    <3>1. PICK x : x = Adjudicate(e)
      OBVIOUS
    <3>2. v = <<v[1], x>>
      BY <1>2, <2>1, <3>1
    <3>3. QED BY <3>1, <3>2
  <2>9. QED BY <2>4, <2>5, <2>7, <2>8
<1>7. QED BY <1>5, <1>6 DEF TriadInv, TriadIsSound

\* The daemons' cascades come to rest with the accounts right, and the stream agents'
\* alerts reach a verdict that fits, once, or were dropped for a reason one can name, for
\* any number of agents, starts, events, crashes and refills (DaemonEventBus.emit,
\* DaemonBridge._on_daemon_event, _on_spindle_event, sentinel_agent, scribe_agent,
\* arbiter_agent: _consume_loop).
THEOREM AlertsSettled == DaemonsSpec /\ TriadSpec => []AlertsSettle
<1>1. DaemonsInv /\ TriadInv => AlertsSettle
  BY CascadesSettled, TriadSound DEF AlertsSettle
<1>2. QED BY DaemonsInductive, TriadInductive, <1>1, PTL

-----------------------------------------------------------------------------
(* The arbiter of disputes. *)

Ballots == [agent : Voters, position : {"approve", "deny"}]
Disputes == [rule : {"immutable", "ordinary"}, at : Nat, votes : Seq(Ballots),
             outcome : {"open", "approved", "denied", "timed_out", "escalated"}]
Agreeing(d) == {d.votes[j].agent : j \in DOMAIN d.votes}
\* The votes are of different agents, and what was approved had a quorum and a majority.
Ruled(d) ==
  /\ d \in Disputes
  /\ IsFiniteSet(Agreeing(d)) /\ Cardinality(Agreeing(d)) = Len(d.votes)
  /\ d.outcome = "approved" => d.rule = "ordinary" /\ Len(d.votes) >= ArbiterQuorum /\ Majority(d.votes)

ArbiterInv ==
  /\ arNow \in Nat /\ arPolled \in Nat /\ arPolled <= arNow /\ arStops \in Nat
  /\ DOMAIN arDisputes = 1 .. Len(arDisputes) /\ arDisputes \in Seq(Disputes)
  /\ arRulings \in Seq(Nat) /\ DOMAIN arRulings = DOMAIN arDisputes
  /\ \A i \in DOMAIN arDisputes : Ruled(arDisputes[i]) /\ arDisputes[i].at <= arNow
  /\ OverdueOnlyUnpolled

\* A vote more, of an agent that has none.
LEMMA VoteIsRuled ==
    ASSUME NEW d, Ruled(d), d.outcome = "open", NEW a \in Voters, NEW p \in {"approve", "deny"}, ~Voted(d.votes, a),
           NEW votes, votes = Append(d.votes, [agent |-> a, position |-> p])
    PROVE  Ruled([d EXCEPT !.votes = votes, !.outcome = IF Len(votes) >= ArbiterQuorum THEN Ruling(d.rule, votes) ELSE "open"])
<1> DEFINE o == IF Len(votes) >= ArbiterQuorum THEN Ruling(d.rule, votes) ELSE "open"
<1>1. PICK e : e = [d EXCEPT !.votes = votes, !.outcome = o]
  OBVIOUS
<1>2. d \in Disputes /\ d.votes \in Seq(Ballots)
  BY DEF Ruled, Disputes
<1>3. /\ votes \in Seq(Ballots) /\ Len(votes) = Len(d.votes) + 1 /\ DOMAIN votes = 1 .. Len(d.votes) + 1
      /\ DOMAIN d.votes = 1 .. Len(d.votes)
      /\ votes[Len(d.votes) + 1] = [agent |-> a, position |-> p] /\ \A j \in 1 .. Len(d.votes) : votes[j] = d.votes[j]
  BY <1>2 DEF Ballots
<1>4. o \in {"open", "approved", "denied"} /\ (o = "approved" => d.rule # "immutable" /\ Majority(votes) /\ Len(votes) >= ArbiterQuorum)
  BY DEF Ruling
<1>5. e \in Disputes /\ e.votes = votes /\ e.outcome = o /\ e.rule = d.rule
  BY <1>1, <1>2, <1>3, <1>4 DEF Disputes
<1>6. Agreeing(e) = Agreeing(d) \cup {a}
  BY <1>3, <1>5 DEF Agreeing
<1>7. a \notin Agreeing(d)
  BY DEF Agreeing, Voted
<1>8. IsFiniteSet(Agreeing(e)) /\ Cardinality(Agreeing(e)) = Len(votes)
  BY <1>3, <1>6, <1>7, FS_AddElement DEF Ruled
<1>9. d.rule # "immutable" => d.rule = "ordinary"
  BY <1>2 DEF Disputes
<1>10. Ruled(e)
  BY <1>4, <1>5, <1>8, <1>9 DEF Ruled
<1>11. QED BY <1>1, <1>10

LEMMA EscalationIsRuled ==
    ASSUME NEW d, Ruled(d), NEW o \in {"timed_out", "escalated"}
    PROVE  Ruled([d EXCEPT !.outcome = o])
<1>1. PICK e : e = [d EXCEPT !.outcome = o]
  OBVIOUS
<1>2. e \in Disputes /\ e.votes = d.votes /\ e.outcome = o
  BY <1>1 DEF Ruled, Disputes
<1>3. Agreeing(e) = Agreeing(d)
  BY <1>2 DEF Agreeing
<1>4. Ruled(e)
  BY <1>2, <1>3 DEF Ruled
<1>5. QED BY <1>1, <1>4

\* What is escalated: the disputes are as many, and change only in their outcome.
LEMMA EscalatedIs ==
    ASSUME ArbiterInv, NEW S, S \subseteq Active, NEW o \in {"timed_out", "escalated"}
    PROVE  /\ Escalated(S, o) \in Seq(Disputes) /\ DOMAIN Escalated(S, o) = DOMAIN arDisputes
           /\ Len(Escalated(S, o)) = Len(arDisputes)
           /\ \A i \in DOMAIN arDisputes :
                /\ Ruled(Escalated(S, o)[i]) /\ Escalated(S, o)[i].at = arDisputes[i].at
                /\ Escalated(S, o)[i].outcome = IF i \in S THEN o ELSE arDisputes[i].outcome
<1>1. PICK n \in Nat : n = Len(arDisputes) /\ DOMAIN arDisputes = 1 .. n
  <2>1. arDisputes \in Seq(Disputes) /\ DOMAIN arDisputes = 1 .. Len(arDisputes)
    BY DEF ArbiterInv
  <2>2. Len(arDisputes) \in Nat
    BY <2>1
  <2>3. QED BY <2>1, <2>2
<1>2. PICK g : g = Escalated(S, o)
  OBVIOUS
<1>3. DOMAIN g = 1 .. n /\ \A i \in 1 .. n : g[i] = IF i \in S THEN [arDisputes[i] EXCEPT !.outcome = o] ELSE arDisputes[i]
  BY <1>1, <1>2 DEF Escalated
<1>4. ASSUME NEW i \in 1 .. n
      PROVE  Ruled(g[i]) /\ g[i].at = arDisputes[i].at /\ g[i].outcome = IF i \in S THEN o ELSE arDisputes[i].outcome
  <2>1. Ruled(arDisputes[i]) /\ arDisputes[i] \in Disputes
    BY <1>1 DEF ArbiterInv, Ruled
  <2>2. CASE i \in S
    <3>1. g[i] = [arDisputes[i] EXCEPT !.outcome = o]
      BY <1>3, <2>2
    <3>2. Ruled([arDisputes[i] EXCEPT !.outcome = o])
      BY <2>1, EscalationIsRuled
    <3>3. g[i].at = arDisputes[i].at /\ g[i].outcome = o
      BY <2>1, <3>1 DEF Disputes
    <3>4. QED BY <2>2, <3>1, <3>2, <3>3
  <2>3. CASE i \notin S
    BY <1>3, <2>1, <2>3
  <2>4. QED BY <2>2, <2>3
<1>5. \A i \in 1 .. n : g[i] \in Disputes
  BY <1>4 DEF Ruled
<1>6. g = [i \in 1 .. n |-> g[i]]
  BY <1>1, <1>2 DEF Escalated
<1>7. g \in Seq(Disputes) /\ Len(g) = n
  BY <1>5, <1>6
<1>8. QED BY <1>1, <1>2, <1>3, <1>4, <1>7

LEMMA ArbiterInvStays ==
    ASSUME ArbiterInv, [ArbiterNext]_arVars
    PROVE  ArbiterInv'
<1>0. /\ arNow \in Nat /\ arPolled \in Nat /\ arPolled <= arNow /\ arStops \in Nat
      /\ DOMAIN arDisputes = 1 .. Len(arDisputes) /\ arDisputes \in Seq(Disputes)
      /\ arRulings \in Seq(Nat) /\ DOMAIN arRulings = DOMAIN arDisputes
      /\ (\A i \in DOMAIN arDisputes : Ruled(arDisputes[i]) /\ arDisputes[i].at <= arNow)
      /\ (\A i \in DOMAIN arDisputes : arDisputes[i] \in Disputes /\ arDisputes[i].at \in Nat)
      /\ (~arUp => Active = {})
      /\ \A i \in Expired : arPolled - arDisputes[i].at <= EscalationTimeout
  <2>1. \A i \in DOMAIN arDisputes : arDisputes[i] \in Disputes
    BY DEF ArbiterInv, Ruled
  <2>2. QED BY <2>1 DEF ArbiterInv, OverdueOnlyUnpolled, Disputes
<1>1. CASE ArbiterStart
  BY <1>0, <1>1 DEF ArbiterStart, ArbiterInv, OverdueOnlyUnpolled, Expired, Active
<1>2. CASE ArbiterTick
  <2>1. UNCHANGED <<arUp, arDisputes, arRulings, arStops, arPolled>> /\ arNow' = arNow + 1
    BY <1>2 DEF ArbiterTick
  <2>2. Active' = Active /\ Active \subseteq DOMAIN arDisputes
    BY <2>1 DEF Active
  <2>3. \A i \in Expired' : arPolled' - arDisputes'[i].at <= EscalationTimeout
    <3>1. SUFFICES ASSUME NEW i \in Active, arPolled - arDisputes[i].at > EscalationTimeout PROVE FALSE
      BY <1>0, <2>1, <2>2, ArbiterAssumption DEF Expired
    <3>2. arNow - arDisputes[i].at > EscalationTimeout
      BY <1>0, <2>2, <3>1, ArbiterAssumption
    <3>3. i \in Expired
      BY <3>2 DEF Expired
    <3>4. QED BY <1>0, <2>2, <3>1, <3>3, ArbiterAssumption
  <2>4. \A i \in DOMAIN arDisputes : arDisputes[i].at <= arNow'
    BY <1>0, <2>1
  <2>5. QED BY <1>0, <2>1, <2>2, <2>3, <2>4 DEF ArbiterInv, OverdueOnlyUnpolled
<1>3. CASE CheckTimeouts
  <2>1. /\ arDisputes' = Escalated(Expired, "timed_out") /\ arPolled' = arNow
        /\ UNCHANGED <<arNow, arUp, arRulings, arStops>>
    BY <1>3 DEF CheckTimeouts
  <2>2. Expired \subseteq Active
    BY DEF Expired
  <2>3. /\ arDisputes' \in Seq(Disputes) /\ DOMAIN arDisputes' = DOMAIN arDisputes /\ Len(arDisputes') = Len(arDisputes)
        /\ \A i \in DOMAIN arDisputes :
             /\ Ruled(arDisputes'[i]) /\ arDisputes'[i].at = arDisputes[i].at
             /\ arDisputes'[i].outcome = IF i \in Expired THEN "timed_out" ELSE arDisputes[i].outcome
    BY <2>1, <2>2, EscalatedIs
  <2>4. Active' \subseteq Active \ Expired
    BY <2>3 DEF Active
  <2>5. Expired' = {}
    BY <2>1, <2>3, <2>4 DEF Expired, Active
  <2>6. OverdueOnlyUnpolled'
    BY <1>0, <2>1, <2>4, <2>5 DEF OverdueOnlyUnpolled
  <2>7. \A i \in DOMAIN arDisputes' : Ruled(arDisputes'[i]) /\ arDisputes'[i].at <= arNow'
    BY <1>0, <2>1, <2>3
  <2>8. QED BY <1>0, <2>1, <2>3, <2>6, <2>7 DEF ArbiterInv
<1>4. ASSUME NEW rule \in {"immutable", "ordinary"}, RecordDispute(rule) PROVE ArbiterInv'
  <2>1. PICK d : d = [rule |-> rule, at |-> arNow, votes |-> <<>>, outcome |-> "open"]
    OBVIOUS
  <2>2. /\ arUp /\ arDisputes' = Append(arDisputes, d) /\ arRulings' = Append(arRulings, 0)
        /\ UNCHANGED <<arNow, arUp, arStops, arPolled>>
    BY <1>4, <2>1 DEF RecordDispute
  <2>3. d \in Disputes /\ d.votes = <<>> /\ d.outcome = "open" /\ d.at = arNow
    BY <1>0, <2>1 DEF Disputes
  <2>4. Ruled(d)
    <3>1. Agreeing(d) = {}
      BY <2>3 DEF Agreeing
    <3>2. QED BY <2>3, <3>1, FS_EmptySet DEF Ruled
  <2>5. PICK n \in Nat : n = Len(arDisputes) /\ DOMAIN arDisputes = 1 .. n
    <3>1. Len(arDisputes) \in Nat
      BY <1>0
    <3>2. QED BY <1>0, <3>1
  <2>6. /\ arDisputes' \in Seq(Disputes) /\ Len(arDisputes') = n + 1 /\ DOMAIN arDisputes' = 1 .. n + 1
        /\ arDisputes'[n + 1] = d /\ \A i \in 1 .. n : arDisputes'[i] = arDisputes[i]
    BY <1>0, <2>2, <2>3, <2>5
  <2>7. arRulings' \in Seq(Nat) /\ DOMAIN arRulings' = 1 .. n + 1
    <3>1. Len(arRulings) = n
      BY <1>0, <2>5
    <3>2. QED BY <1>0, <2>2, <3>1
  <2>8. \A i \in DOMAIN arDisputes' : Ruled(arDisputes'[i]) /\ arDisputes'[i].at <= arNow'
    BY <1>0, <2>2, <2>3, <2>4, <2>5, <2>6
  <2>9. \A i \in Active' : i \in Active \/ i = n + 1
    BY <2>5, <2>6 DEF Active
  <2>10. \A i \in Expired' : arPolled' - arDisputes'[i].at <= EscalationTimeout
    <3>1. SUFFICES ASSUME NEW i \in Expired' PROVE arPolled' - arDisputes'[i].at <= EscalationTimeout
      OBVIOUS
    <3>2. CASE i = n + 1
      BY <1>0, <2>2, <2>3, <2>6, <3>2, ArbiterAssumption
    <3>3. CASE i \in Active
      <4>1. arDisputes'[i] = arDisputes[i]
        BY <2>5, <2>6, <3>3 DEF Active
      <4>2. i \in Expired
        BY <2>2, <3>1, <3>3, <4>1 DEF Expired
      <4>3. QED BY <1>0, <2>2, <4>1, <4>2
    <3>4. QED BY <2>9, <3>1, <3>2, <3>3 DEF Expired
  <2>11. QED BY <1>0, <2>2, <2>6, <2>7, <2>8, <2>10 DEF ArbiterInv, OverdueOnlyUnpolled
<1>5. ASSUME NEW i \in DOMAIN arDisputes, NEW a \in Voters, NEW p \in {"approve", "deny"}, CastVote(i, a, p) PROVE ArbiterInv'
  <2>1. PICK votes : votes = Append(arDisputes[i].votes, [agent |-> a, position |-> p])
    OBVIOUS
  <2>2. PICK d : d = [arDisputes[i] EXCEPT !.votes = votes,
                        !.outcome = IF Len(votes) >= ArbiterQuorum THEN Ruling(arDisputes[i].rule, votes) ELSE "open"]
    OBVIOUS
  <2>3. /\ i \in Active /\ ~Voted(arDisputes[i].votes, a) /\ arDisputes[i].outcome = "open"
        /\ arDisputes' = [arDisputes EXCEPT ![i] = d]
        /\ UNCHANGED <<arNow, arUp, arRulings, arStops, arPolled>>
    BY <1>5, <2>1, <2>2 DEF CastVote, Active
  <2>4. Ruled(d)
    BY <1>0, <2>1, <2>2, <2>3, VoteIsRuled
  <2>5. d \in Disputes /\ d.at = arDisputes[i].at
    BY <1>0, <2>2, <2>4 DEF Ruled, Disputes
  <2>6. /\ arDisputes' \in Seq(Disputes) /\ Len(arDisputes') = Len(arDisputes) /\ DOMAIN arDisputes' = DOMAIN arDisputes
        /\ \A k \in DOMAIN arDisputes : arDisputes'[k] = IF k = i THEN d ELSE arDisputes[k]
    BY <1>0, <2>3, <2>5
  <2>7. \A k \in DOMAIN arDisputes' : Ruled(arDisputes'[k]) /\ arDisputes'[k].at <= arNow'
    BY <1>0, <2>3, <2>4, <2>5, <2>6
  <2>8. Active' \subseteq Active /\ \A k \in DOMAIN arDisputes : arDisputes'[k].at = arDisputes[k].at
    BY <2>3, <2>5, <2>6 DEF Active
  <2>9. Expired' \subseteq Expired /\ Expired \subseteq DOMAIN arDisputes
    BY <2>3, <2>6, <2>8 DEF Expired, Active
  <2>10. \A k \in Expired' : arPolled' - arDisputes'[k].at <= EscalationTimeout
    BY <1>0, <2>3, <2>8, <2>9
  <2>11. ~arUp' => Active' = {}
    BY <1>0, <2>3, <2>8
  <2>12. QED BY <1>0, <2>3, <2>6, <2>7, <2>10, <2>11 DEF ArbiterInv, OverdueOnlyUnpolled
<1>6. ASSUME NEW writes \in BOOLEAN, ArbiterStop(writes) PROVE ArbiterInv'
  <2>1. /\ arStops' = arStops + 1 /\ arUp' = FALSE /\ arDisputes' = Escalated(Active, "escalated")
        /\ arRulings' = [i \in DOMAIN arRulings |-> arRulings[i] + IF writes /\ i \in Flushed THEN 1 ELSE 0]
        /\ UNCHANGED <<arNow, arPolled>>
    BY <1>6 DEF ArbiterStop
  <2>2. /\ arDisputes' \in Seq(Disputes) /\ DOMAIN arDisputes' = DOMAIN arDisputes /\ Len(arDisputes') = Len(arDisputes)
        /\ \A i \in DOMAIN arDisputes :
             /\ Ruled(arDisputes'[i]) /\ arDisputes'[i].at = arDisputes[i].at
             /\ arDisputes'[i].outcome = IF i \in Active THEN "escalated" ELSE arDisputes[i].outcome
    BY <2>1, EscalatedIs
  <2>3. Active' = {}
    BY <2>2 DEF Active
  <2>4. arRulings' \in Seq(Nat) /\ DOMAIN arRulings' = DOMAIN arRulings
    <3>1. PICK n \in Nat : DOMAIN arRulings = 1 .. n
      <4>1. Len(arDisputes) \in Nat
        BY <1>0
      <4>2. QED BY <1>0, <4>1
    <3>2. PICK g : g = [i \in 1 .. n |-> arRulings[i] + IF writes /\ i \in Flushed THEN 1 ELSE 0]
      OBVIOUS
    <3>3. \A i \in 1 .. n : arRulings[i] + (IF writes /\ i \in Flushed THEN 1 ELSE 0) \in Nat
      BY <1>0, <3>1
    <3>4. g \in Seq(Nat) /\ DOMAIN g = 1 .. n
      BY <3>2, <3>3
    <3>5. QED BY <2>1, <3>1, <3>2, <3>4
  <2>5. \A i \in DOMAIN arDisputes' : Ruled(arDisputes'[i]) /\ arDisputes'[i].at <= arNow'
    BY <1>0, <2>1, <2>2
  <2>6. Expired' = {}
    BY <2>3 DEF Expired
  <2>7. OverdueOnlyUnpolled'
    BY <2>3, <2>6 DEF OverdueOnlyUnpolled
  <2>8. arStops' \in Nat
    <3>1. arStops' = arStops + 1
      BY <2>1
    <3>2. QED BY <1>0, <3>1
  <2>9. DOMAIN arDisputes' = 1 .. Len(arDisputes')
    BY <1>0, <2>2
  <2>10. QED BY <1>0, <2>1, <2>2, <2>4, <2>5, <2>7, <2>8, <2>9 DEF ArbiterInv
<1>7. CASE UNCHANGED arVars
  BY <1>0, <1>7 DEF arVars, ArbiterInv, OverdueOnlyUnpolled, Expired, Active
<1>8. QED BY <1>1, <1>2, <1>3, <1>4, <1>5, <1>6, <1>7 DEF ArbiterNext

\* A dispute is overridden only by a quorum of different agents with a majority, an
\* immutable rule never; none is overdue past a poll or open once the daemon stopped, and a stop
\* that writes its log leaves none out (ArbiterDaemon.cast_vote, check_timeouts, stop).
THEOREM ArbiterSound ==
    ArbiterSpec => ArbiterIsSound
<1>1. ArbiterInit => ArbiterInv
  <2>1. SUFFICES ASSUME ArbiterInit PROVE ArbiterInv
    OBVIOUS
  <2>2. arDisputes = <<>> /\ arRulings = <<>> /\ DOMAIN arDisputes = {}
    BY <2>1 DEF ArbiterInit
  <2>3. Active = {} /\ Expired = {}
    BY <2>2 DEF Active, Expired
  <2>4. OverdueOnlyUnpolled
    BY <2>3 DEF OverdueOnlyUnpolled
  <2>5. arDisputes \in Seq(Disputes) /\ arRulings \in Seq(Nat) /\ Len(arDisputes) = 0 /\ DOMAIN arRulings = {}
    BY <2>2
  <2>6. 1 .. 0 = {}
    OBVIOUS
  <2>7. arNow = 0 /\ arPolled = 0 /\ arStops = 0
    BY <2>1 DEF ArbiterInit
  <2>8. DOMAIN arDisputes = 1 .. Len(arDisputes)
    BY <2>2, <2>5, <2>6
  <2>9. \A i \in DOMAIN arDisputes : Ruled(arDisputes[i]) /\ arDisputes[i].at <= arNow
    BY <2>2
  <2>10. QED BY <2>2, <2>4, <2>5, <2>7, <2>8, <2>9 DEF ArbiterInv
<1>2. ArbiterInv /\ [ArbiterNext]_arVars => ArbiterInv'
  BY ArbiterInvStays
<1>3. ArbiterInv => OverrideNeedsMajority /\ OverdueOnlyUnpolled
  <2>1. ASSUME ArbiterInv, NEW i \in DOMAIN arDisputes, arDisputes[i].outcome = "approved"
        PROVE  /\ arDisputes[i].rule = "ordinary"
               /\ Cardinality(Agreeing(arDisputes[i])) >= ArbiterQuorum
               /\ For(arDisputes[i].votes, "approve") > For(arDisputes[i].votes, "deny")
    BY <2>1 DEF ArbiterInv, Ruled, Majority
  <2>2. QED BY <2>1 DEF OverrideNeedsMajority, ArbiterInv, Agreeing
<1>4. ArbiterInv /\ [ArbiterNext]_arVars =>
        [arStops' > arStops /\ arRulings' # arRulings =>
           \A i \in DOMAIN arDisputes' : arDisputes'[i].outcome # "open" /\ arRulings'[i] > 0]_arVars
  <2>1. SUFFICES ASSUME ArbiterInv, ArbiterNext, arStops' > arStops, arRulings' # arRulings,
                        NEW i \in DOMAIN arDisputes'
                 PROVE  arDisputes'[i].outcome # "open" /\ arRulings'[i] > 0
    OBVIOUS
  <2>2. arStops \in Nat /\ ~(arStops > arStops)
    BY <2>1 DEF ArbiterInv
  <2>3. PICK writes \in BOOLEAN : ArbiterStop(writes)
    BY <2>1, <2>2 DEF ArbiterNext, ArbiterStart, CheckTimeouts, ArbiterTick, RecordDispute, CastVote
  <2>4. /\ arDisputes' = Escalated(Active, "escalated")
        /\ arRulings' = [k \in DOMAIN arRulings |-> arRulings[k] + IF writes /\ k \in DOMAIN arDisputes THEN 1 ELSE 0]
    BY <2>3 DEF ArbiterStop, Flushed
  <2>5. PICK n \in Nat : DOMAIN arRulings = 1 .. n /\ DOMAIN arDisputes = 1 .. n /\ \A k \in 1 .. n : arRulings[k] \in Nat
    <3>1. /\ arDisputes \in Seq(Disputes) /\ DOMAIN arDisputes = 1 .. Len(arDisputes)
          /\ arRulings \in Seq(Nat) /\ DOMAIN arRulings = DOMAIN arDisputes
      BY <2>1 DEF ArbiterInv
    <3>2. Len(arDisputes) \in Nat
      BY <3>1
    <3>3. \A k \in DOMAIN arRulings : arRulings[k] \in Nat
      BY <3>1
    <3>4. QED BY <3>1, <3>2, <3>3
  <2>6. writes
    <3>1. SUFFICES ASSUME ~writes PROVE FALSE
      OBVIOUS
    <3>2. DOMAIN arRulings' = 1 .. n /\ \A k \in 1 .. n : arRulings'[k] = arRulings[k]
      BY <2>4, <2>5, <3>1
    <3>3. arRulings = [k \in 1 .. n |-> arRulings[k]] /\ arRulings' = [k \in 1 .. n |-> arRulings'[k]]
      BY <2>1, <2>4, <2>5, <3>2 DEF ArbiterInv
    <3>4. arRulings' = arRulings
      BY <3>2, <3>3
    <3>5. QED BY <2>1, <3>4
  <2>7. DOMAIN arDisputes' = 1 .. n /\ arDisputes'[i].outcome = IF i \in Active THEN "escalated" ELSE arDisputes[i].outcome
    BY <2>1, <2>4, <2>5, EscalatedIs
  <2>8. i \in 1 .. n /\ arDisputes'[i].outcome # "open"
    BY <2>1, <2>5, <2>7 DEF Active
  <2>9. arRulings'[i] = arRulings[i] + 1
    BY <2>4, <2>5, <2>6, <2>8
  <2>10. QED BY <2>5, <2>8, <2>9
<1>5. QED BY <1>1, <1>2, <1>3, <1>4, PTL DEF ArbiterSpec, ArbiterIsSound, StopLosesNoRuling

-----------------------------------------------------------------------------
(* The monitors: counting in sequences that grow and that are cut. *)

PlacesIn(s, F) == {i \in DOMAIN s : s[i] \in F}

LEMMA PlacesAreFinite ==
    ASSUME NEW S, NEW s \in Seq(S), NEW F
    PROVE  IsFiniteSet(PlacesIn(s, F)) /\ Cardinality(PlacesIn(s, F)) \in Nat
<1>1. Len(s) \in Nat /\ DOMAIN s = 1 .. Len(s)
  OBVIOUS
<1>2. IsFiniteSet(1 .. Len(s)) /\ PlacesIn(s, F) \subseteq 1 .. Len(s)
  BY <1>1, FS_Interval DEF PlacesIn
<1>3. QED BY <1>2, FS_Subset, FS_CardinalityType

LEMMA PlacesJoin ==
    ASSUME NEW S, NEW v \in Seq(S), NEW w \in Seq(S), NEW F
    PROVE  Cardinality(PlacesIn(v \o w, F)) = Cardinality(PlacesIn(v, F)) + Cardinality(PlacesIn(w, F))
<1>0. Len(v) \in Nat /\ Len(w) \in Nat
  OBVIOUS
<1>1. PICK n \in Nat, m \in Nat : n = Len(v) /\ m = Len(w)
  BY <1>0
<1>2. PICK u : /\ u = v \o w /\ u \in Seq(S) /\ DOMAIN u = 1 .. n + m
               /\ (\A i \in 1 .. n : u[i] = v[i]) /\ \A i \in 1 .. m : u[n + i] = w[i]
  <2>1. (v \o w) \in Seq(S) /\ Len(v \o w) = n + m
    BY <1>1, ConcatProperties
  <2>2. DOMAIN (v \o w) = 1 .. n + m
    BY <1>1, <2>1
  <2>3. \A i \in 1 .. n : (v \o w)[i] = v[i]
    BY <1>1
  <2>4. \A i \in 1 .. m : (v \o w)[n + i] = w[i]
    BY <1>1
  <2>5. QED BY <2>1, <2>2, <2>3, <2>4
<1>3. DOMAIN v = 1 .. n /\ DOMAIN w = 1 .. m
  BY <1>1
<1> DEFINE B == {i \in n + 1 .. n + m : u[i] \in F}
<1> DEFINE f == [i \in PlacesIn(w, F) |-> n + i]
<1>4. /\ PlacesIn(u, F) = PlacesIn(v, F) \cup B /\ PlacesIn(v, F) \cap B = {}
  <2>1. \A i \in 1 .. n + m : i \in 1 .. n \/ i \in n + 1 .. n + m
    BY <1>1
  <2>2. 1 .. n \subseteq 1 .. n + m /\ n + 1 .. n + m \subseteq 1 .. n + m /\ (1 .. n) \cap (n + 1 .. n + m) = {}
    BY <1>1
  <2>3. QED BY <1>2, <1>3, <2>1, <2>2 DEF PlacesIn
<1>5. f \in Bijection(PlacesIn(w, F), B)
  <2>1. \A i \in PlacesIn(w, F) : n + i \in B
    BY <1>1, <1>2, <1>3 DEF PlacesIn
  <2>2. \A i \in B : i - n \in PlacesIn(w, F) /\ n + (i - n) = i
    <3>1. \A i \in n + 1 .. n + m : i - n \in 1 .. m /\ n + (i - n) = i
      BY <1>1
    <3>2. \A i \in n + 1 .. n + m : u[i] = w[i - n]
      BY <1>2, <3>1
    <3>3. QED BY <1>3, <3>1, <3>2 DEF PlacesIn
  <2>3. \A i, j \in PlacesIn(w, F) : n + i = n + j => i = j
    BY <1>1, <1>3 DEF PlacesIn
  <2>4. QED BY <2>1, <2>2, <2>3 DEF Bijection, Injection, Surjection, IsInjective
<1>6. IsFiniteSet(B) /\ Cardinality(B) = Cardinality(PlacesIn(w, F))
  BY <1>5, PlacesAreFinite, FS_Bijection DEF ExistsBijection
<1>7. Cardinality(PlacesIn(v, F) \cup B) = Cardinality(PlacesIn(v, F)) + Cardinality(B) - 0
  <2>1. PICK A, D : A = PlacesIn(v, F) /\ D = B
    OBVIOUS
  <2>2. IsFiniteSet(A) /\ IsFiniteSet(D) /\ A \cap D = {}
    BY <1>4, <1>6, <2>1, PlacesAreFinite
  <2>3. Cardinality(A \cup D) = Cardinality(A) + Cardinality(D) - Cardinality(A \cap D)
    BY <2>2, FS_Union
  <2>4. QED BY <2>1, <2>2, <2>3, FS_EmptySet
<1>8. Cardinality(PlacesIn(v, F)) \in Nat /\ Cardinality(PlacesIn(w, F)) \in Nat
  BY PlacesAreFinite
<1>9. Cardinality(PlacesIn(u, F)) = Cardinality(PlacesIn(v, F)) + Cardinality(PlacesIn(w, F))
  BY <1>4, <1>6, <1>7, <1>8
<1>10. u = v \o w
  BY <1>2
<1>11. QED BY <1>9, <1>10

\* What is cut off at the front is no longer counted.
LEMMA PlacesCut ==
    ASSUME NEW S, NEW v \in Seq(S), NEW F, NEW k \in 0 .. Len(v)
    PROVE  /\ SubSeq(v, k + 1, Len(v)) \in Seq(S) /\ Len(SubSeq(v, k + 1, Len(v))) = Len(v) - k
           /\ Cardinality(PlacesIn(SubSeq(v, k + 1, Len(v)), F)) <= Cardinality(PlacesIn(v, F))
           /\ k = 0 => SubSeq(v, k + 1, Len(v)) = v
<1>0. Len(v) \in Nat
  OBVIOUS
<1>1. PICK n \in Nat : n = Len(v) /\ DOMAIN v = 1 .. n /\ k \in 0 .. n
  BY <1>0
<1>2. PICK u : u = SubSeq(v, k + 1, Len(v)) /\ u \in Seq(S) /\ Len(u) = n - k /\ \A i \in 1 .. n - k : u[i] = v[k + i]
  <2>1. k + 1 \in Int /\ n \in Int /\ \A i \in k + 1 .. n : v[i] \in S
    BY <1>1
  <2>2. /\ SubSeq(v, k + 1, n) \in Seq(S) /\ Len(SubSeq(v, k + 1, n)) = (IF k + 1 <= n THEN n - (k + 1) + 1 ELSE 0)
        /\ \A i \in 1 .. n - (k + 1) + 1 : SubSeq(v, k + 1, n)[i] = v[(k + 1) + i - 1]
    BY <2>1, SubSeqProperties
  <2>3. Len(SubSeq(v, k + 1, n)) = n - k /\ n - (k + 1) + 1 = n - k
    BY <1>1, <2>2
  <2>4. \A i \in 1 .. n - k : (k + 1) + i - 1 = k + i
    BY <1>1
  <2>5. \A i \in 1 .. n - k : SubSeq(v, k + 1, n)[i] = v[k + i]
    <3>1. n - (k + 1) + 1 = n - k
      BY <1>1
    <3>2. \A i \in 1 .. n - k : SubSeq(v, k + 1, n)[i] = v[(k + 1) + i - 1]
      BY <2>2, <3>1
    <3>3. QED BY <2>4, <3>2
  <2>6. SubSeq(v, k + 1, n) = SubSeq(v, k + 1, Len(v))
    BY <1>1
  <2>7. QED BY <2>2, <2>3, <2>5, <2>6
<1>3. DOMAIN u = 1 .. n - k
  BY <1>1, <1>2
<1> DEFINE f == [i \in PlacesIn(u, F) |-> k + i]
<1>4. f \in Injection(PlacesIn(u, F), PlacesIn(v, F))
  <2>1. \A i \in 1 .. n - k : k + i \in 1 .. n
    BY <1>1
  <2>2. \A i \in PlacesIn(u, F) : k + i \in PlacesIn(v, F)
    BY <1>1, <1>2, <1>3, <2>1 DEF PlacesIn
  <2>3. \A i, j \in PlacesIn(u, F) : k + i = k + j => i = j
    BY <1>1, <1>3 DEF PlacesIn
  <2>4. QED BY <2>2, <2>3 DEF Injection, IsInjective
<1>5. Cardinality(PlacesIn(u, F)) <= Cardinality(PlacesIn(v, F))
  BY <1>4, PlacesAreFinite, FS_Injection
<1>6. k = 0 => SubSeq(v, k + 1, Len(v)) = v
  BY SubSeqFull
<1>7. QED BY <1>1, <1>2, <1>5, <1>6

-----------------------------------------------------------------------------
(* The InsAIts daemon. *)

Levels == {"info", "warning", "critical"}
WatchedTypes == {"execution_failed", "validation_rejected", "execution_complete", "model_fallback", "gas_consumed", "tool_invoked"}
AuditEntries == [type : WatchedTypes \cup {"daemon_started", "daemon_stopped", "repeated_failure", "model_rejection_pattern", "gas_spike"},
                 agent : WatchedAgents \cup {"insaits", "maestro"}, severity : Levels]
Watched == [type : WatchedTypes, agent : WatchedAgents, alarm : BOOLEAN]
OfLevel(s) == {e \in AuditEntries : e.severity = s}

\* The failures in a row that the log shows are those that the detector counts.
InsAItsInv ==
  /\ inTrail \in Seq(AuditEntries) /\ inCount \in [Levels -> Nat]
  /\ inLog \in Seq(Watched) /\ inFailures \in [WatchedAgents -> Nat]
  /\ \A a \in WatchedAgents : inFailures[a] = InARow(Len(inLog), a)
  /\ AlarmsAreDue /\ CountersCoverTrail

LEMMA SevereIs ==
    ASSUME NEW v \in Seq(AuditEntries), NEW s
    PROVE  Severe(v, s) = Cardinality(PlacesIn(v, OfLevel(s)))
<1>1. \A i \in DOMAIN v : v[i] \in AuditEntries
  OBVIOUS
<1>2. {i \in DOMAIN v : v[i].severity = s} = PlacesIn(v, OfLevel(s))
  BY <1>1 DEF PlacesIn, OfLevel
<1>3. QED BY <1>2 DEF Severe

\* Recording counts what the trail gains, and the trail loses nothing until it is full.
LEMMA RecordCovers ==
    ASSUME inTrail \in Seq(AuditEntries), inCount \in [Levels -> Nat], CountersCoverTrail,
           NEW entries \in Seq(AuditEntries), Record(entries)
    PROVE  inTrail' \in Seq(AuditEntries) /\ inCount' \in [Levels -> Nat] /\ CountersCoverTrail'
<1>1. TrailSize \in Nat
  BY MonitorsAssumption
<1>2. PICK all : all = inTrail \o entries /\ all \in Seq(AuditEntries) /\ Len(all) = Len(inTrail) + Len(entries)
  BY ConcatProperties
<1>3. Len(all) \in Nat /\ Len(inTrail) \in Nat /\ Len(entries) \in Nat
  BY <1>2
<1>4. PICK k \in 0 .. Len(all) : k = Len(all) - (IF Len(all) > TrailSize THEN TrailSize ELSE Len(all))
  <2>1. CASE Len(all) > TrailSize
    <3>1. Len(all) - TrailSize \in 0 .. Len(all)
      BY <1>1, <1>3, <2>1
    <3>2. QED BY <2>1, <3>1
  <2>2. CASE ~(Len(all) > TrailSize)
    <3>1. Len(all) - Len(all) \in 0 .. Len(all)
      BY <1>3
    <3>2. QED BY <2>2, <3>1
  <2>3. QED BY <2>1, <2>2
<1>5. inTrail' = SubSeq(all, k + 1, Len(all))
  <2>1. inTrail' = SubSeq(all, 1 + Len(all) - (IF Len(all) > TrailSize THEN TrailSize ELSE Len(all)), Len(all))
    BY <1>2 DEF Record, LastEntries
  <2>2. 1 + Len(all) - (IF Len(all) > TrailSize THEN TrailSize ELSE Len(all)) = k + 1
    BY <1>1, <1>3, <1>4
  <2>3. QED BY <2>1, <2>2
<1>6. PICK t \in Seq(AuditEntries) : t = inTrail' /\ Len(t) = Len(all) - k
  BY <1>2, <1>5, PlacesCut
<1>7. ASSUME NEW s \in Levels
      PROVE  /\ inCount'[s] \in Nat /\ Severe(t, s) <= inCount'[s]
             /\ Len(t) < TrailSize => Severe(t, s) = inCount'[s]
  <2>1. inCount'[s] = inCount[s] + Severe(entries, s) /\ inCount[s] \in Nat
    BY <1>7 DEF Record
  <2>2. Severe(all, s) = Severe(inTrail, s) + Severe(entries, s)
    <3>1. PICK F : F = OfLevel(s)
      OBVIOUS
    <3>2. Cardinality(PlacesIn(all, F)) = Cardinality(PlacesIn(inTrail, F)) + Cardinality(PlacesIn(entries, F))
      BY <1>2, PlacesJoin
    <3>3. QED BY <1>2, <3>1, <3>2, SevereIs
  <2>3. Severe(inTrail, s) \in Nat /\ Severe(entries, s) \in Nat /\ Severe(t, s) \in Nat
    BY PlacesAreFinite, SevereIs
  <2>4. Severe(t, s) <= Severe(all, s)
    <3>1. PICK F : F = OfLevel(s)
      OBVIOUS
    <3>2. Cardinality(PlacesIn(SubSeq(all, k + 1, Len(all)), F)) <= Cardinality(PlacesIn(all, F))
      BY <1>2, <1>4, PlacesCut
    <3>3. QED BY <1>2, <1>5, <1>6, <3>1, <3>2, SevereIs
  <2>5. Severe(inTrail, s) <= inCount[s] /\ (Len(inTrail) < TrailSize => Severe(inTrail, s) = inCount[s])
    BY <1>7 DEF CountersCoverTrail
  <2>6. ASSUME Len(t) < TrailSize PROVE Len(inTrail) < TrailSize /\ t = all
    <3>1. Len(all) < TrailSize /\ k = 0
      BY <1>1, <1>3, <1>4, <1>6, <2>6
    <3>2. QED BY <1>1, <1>2, <1>3, <1>5, <1>6, <3>1, PlacesCut
  <2>7. QED BY <2>1, <2>2, <2>3, <2>4, <2>5, <2>6
<1>8. inCount' \in [Levels -> Nat]
  <2>1. inCount' = [s \in DOMAIN inCount |-> inCount[s] + Severe(entries, s)] /\ DOMAIN inCount = Levels
    BY DEF Record
  <2>2. DOMAIN inCount' = Levels /\ inCount' = [s \in Levels |-> inCount'[s]]
    BY <2>1
  <2>3. QED BY <1>7, <2>2
<1>9. CountersCoverTrail'
  BY <1>6, <1>7, <1>8 DEF CountersCoverTrail, Severe
<1>10. QED BY <1>6, <1>8, <1>9

RowOf(log, n, a) ==
  {i \in 1 .. n : /\ log[i].agent = a /\ IsFailure(log[i].type)
                  /\ \A j \in i .. n : log[j].agent = a => log[j].type # "execution_complete"}

LEMMA RowIsFinite ==
    ASSUME NEW log, NEW n \in Nat, NEW a
    PROVE  IsFiniteSet(RowOf(log, n, a)) /\ Cardinality(RowOf(log, n, a)) \in Nat
<1>1. IsFiniteSet(1 .. n) /\ RowOf(log, n, a) \subseteq 1 .. n
  BY FS_Interval DEF RowOf
<1>2. QED BY <1>1, FS_Subset, FS_CardinalityType

\* How one more event changes the failures in a row.
LEMMA RowGrows ==
    ASSUME NEW log \in Seq(Watched), NEW e \in Watched, NEW a
    PROVE  /\ \A n \in 1 .. Len(log) : RowOf(Append(log, e), n, a) = RowOf(log, n, a)
           /\ Cardinality(RowOf(Append(log, e), Len(log) + 1, a)) =
                IF e.agent # a THEN Cardinality(RowOf(log, Len(log), a))
                ELSE IF IsFailure(e.type) THEN Cardinality(RowOf(log, Len(log), a)) + 1
                ELSE IF e.type = "execution_complete" THEN 0 ELSE Cardinality(RowOf(log, Len(log), a))
<1>0. Len(log) \in Nat
  OBVIOUS
<1>1. PICK m \in Nat : m = Len(log)
  BY <1>0
<1>2. PICK t : t = Append(log, e) /\ t[m + 1] = e /\ \A i \in 1 .. m : t[i] = log[i]
  <2>1. Append(log, e)[Len(log) + 1] = e /\ \A i \in 1 .. Len(log) : Append(log, e)[i] = log[i]
    OBVIOUS
  <2>2. QED BY <1>1, <2>1
<1>3. \A n \in 1 .. m : \A i \in 1 .. n : i \in 1 .. m /\ i .. n \subseteq 1 .. m
  BY <1>1
<1>4. ASSUME NEW n \in 1 .. m PROVE RowOf(t, n, a) = RowOf(log, n, a)
  BY <1>2, <1>3 DEF RowOf
<1>5. /\ 1 .. m + 1 = (1 .. m) \cup {m + 1} /\ m + 1 \notin 1 .. m
      /\ \A i \in 1 .. m : i .. m + 1 = (i .. m) \cup {m + 1} /\ i .. m \subseteq 1 .. m
      /\ (m + 1) .. (m + 1) = {m + 1}
  BY <1>1
<1>6. IsFiniteSet(RowOf(log, m, a)) /\ m + 1 \notin RowOf(log, m, a)
  <2>1. RowOf(log, m, a) \subseteq 1 .. m
    BY DEF RowOf
  <2>2. QED BY <1>5, <2>1, RowIsFinite
<1>7. IsFailure(e.type) => e.type # "execution_complete"
  BY DEF IsFailure
<1>8. CASE e.agent # a \/ (~IsFailure(e.type) /\ e.type # "execution_complete")
  <2>1. RowOf(t, m + 1, a) = RowOf(log, m, a)
    BY <1>2, <1>5, <1>8 DEF RowOf
  <2>2. QED BY <1>1, <1>2, <1>4, <1>8, <2>1
<1>9. CASE e.agent = a /\ IsFailure(e.type)
  <2>1. RowOf(t, m + 1, a) = RowOf(log, m, a) \cup {m + 1}
    <3>1. m + 1 \in RowOf(t, m + 1, a)
      BY <1>2, <1>5, <1>7, <1>9 DEF RowOf
    <3>2. ASSUME NEW i \in 1 .. m PROVE i \in RowOf(t, m + 1, a) <=> i \in RowOf(log, m, a)
      <4>1. t[i] = log[i] /\ i \in 1 .. m + 1 /\ i .. m + 1 = (i .. m) \cup {m + 1} /\ \A j \in i .. m : t[j] = log[j]
        BY <1>2, <1>5
      <4>2. t[m + 1].agent = a => t[m + 1].type # "execution_complete"
        BY <1>2, <1>7, <1>9
      <4>3. QED BY <4>1, <4>2 DEF RowOf
    <3>3. RowOf(t, m + 1, a) \subseteq 1 .. m + 1 /\ RowOf(log, m, a) \subseteq 1 .. m
      BY DEF RowOf
    <3>4. QED BY <1>5, <3>1, <3>2, <3>3
  <2>2. Cardinality(RowOf(t, m + 1, a)) = Cardinality(RowOf(log, m, a)) + 1
    BY <1>6, <2>1, FS_AddElement
  <2>3. QED BY <1>1, <1>2, <1>4, <1>9, <2>2
<1>10. CASE e.agent = a /\ e.type = "execution_complete"
  <2>1. RowOf(t, m + 1, a) = {}
    BY <1>2, <1>5, <1>7, <1>10 DEF RowOf
  <2>2. QED BY <1>1, <1>2, <1>4, <1>7, <1>10, <2>1, FS_EmptySet
<1>11. QED BY <1>8, <1>9, <1>10

LEMMA EventWatched ==
    ASSUME InsAItsInv, NEW a \in WatchedAgents, NEW type \in WatchedTypes, ProcessEvent(type, a)
    PROVE  InsAItsInv'
<1>1. PICK found \in Anomalies(type, a) :
        /\ Record(<<AuditEntry(type, a, EventSeverity(type))>> \o found)
        /\ inLog' = Append(inLog, [type |-> type, agent |-> a, alarm |-> found # <<>>])
  BY DEF ProcessEvent
<1>2. found \in Seq(AuditEntries) /\ (IsFailure(type) => (found # <<>> <=> FailuresAfter(type, a) >= FailureThreshold))
  <2>1. /\ AuditEntry("repeated_failure", a, "critical") \in AuditEntries
        /\ AuditEntry("model_rejection_pattern", "maestro", "warning") \in AuditEntries
        /\ AuditEntry("gas_spike", a, "warning") \in AuditEntries
    BY DEF AuditEntry, AuditEntries, Levels
  <2>2. /\ <<AuditEntry("repeated_failure", a, "critical")>> # <<>>
        /\ <<AuditEntry("repeated_failure", a, "critical")>> \in Seq(AuditEntries)
        /\ <<AuditEntry("model_rejection_pattern", "maestro", "warning")>> \in Seq(AuditEntries)
        /\ <<AuditEntry("gas_spike", a, "warning")>> \in Seq(AuditEntries) /\ <<>> \in Seq(AuditEntries)
    BY <2>1
  <2>3. IsFailure(type) => type # "model_fallback" /\ type # "gas_consumed"
    BY DEF IsFailure
  <2>4. CASE IsFailure(type) /\ FailuresAfter(type, a) >= FailureThreshold
    BY <2>2, <2>4 DEF Anomalies
  <2>5. CASE IsFailure(type) /\ ~(FailuresAfter(type, a) >= FailureThreshold)
    BY <2>2, <2>3, <2>5 DEF Anomalies
  <2>6. CASE ~IsFailure(type)
    BY <2>2, <2>6 DEF Anomalies
  <2>7. QED BY <2>4, <2>5, <2>6
<1>3. (<<AuditEntry(type, a, EventSeverity(type))>> \o found) \in Seq(AuditEntries)
  <2>1. EventSeverity(type) \in Levels
    BY DEF EventSeverity, Levels
  <2>2. AuditEntry(type, a, EventSeverity(type)) \in AuditEntries
    BY <2>1 DEF AuditEntry, AuditEntries
  <2>3. <<AuditEntry(type, a, EventSeverity(type))>> \in Seq(AuditEntries)
    BY <2>2
  <2>4. QED BY <1>2, <2>3, ConcatProperties
<1>4. inTrail' \in Seq(AuditEntries) /\ inCount' \in [Levels -> Nat] /\ CountersCoverTrail'
  BY <1>1, <1>3, RecordCovers DEF InsAItsInv
<1>5. PICK e \in Watched : e = [type |-> type, agent |-> a, alarm |-> found # <<>>] /\ inLog' = Append(inLog, e)
  <2>1. (found # <<>>) \in BOOLEAN
    OBVIOUS
  <2>2. [type |-> type, agent |-> a, alarm |-> found # <<>>] \in Watched
    BY <2>1 DEF Watched
  <2>3. QED BY <1>1, <2>2
<1>6. e.type = type /\ e.agent = a /\ (e.alarm <=> found # <<>>)
  BY <1>5
<1>7. Len(inLog) \in Nat /\ inLog' \in Seq(Watched) /\ Len(inLog') = Len(inLog) + 1
  BY <1>5 DEF InsAItsInv
<1>8. PICK m \in Nat : m = Len(inLog)
  BY <1>7
<1>9. inFailures' = [inFailures EXCEPT ![a] = FailuresAfter(type, a)] /\ FailuresAfter(type, a) \in Nat
  BY DEF ProcessEvent, FailuresAfter, InsAItsInv
<1>10. \A b : (\A n \in 1 .. m : RowOf(inLog', n, b) = RowOf(inLog, n, b))
              /\ Cardinality(RowOf(inLog', m + 1, b)) =
                   IF a # b THEN Cardinality(RowOf(inLog, m, b))
                   ELSE IF IsFailure(type) THEN Cardinality(RowOf(inLog, m, b)) + 1
                   ELSE IF type = "execution_complete" THEN 0 ELSE Cardinality(RowOf(inLog, m, b))
  <2>1. SUFFICES ASSUME NEW b
                 PROVE  /\ \A n \in 1 .. m : RowOf(inLog', n, b) = RowOf(inLog, n, b)
                        /\ Cardinality(RowOf(inLog', m + 1, b)) =
                             IF a # b THEN Cardinality(RowOf(inLog, m, b))
                             ELSE IF IsFailure(type) THEN Cardinality(RowOf(inLog, m, b)) + 1
                             ELSE IF type = "execution_complete" THEN 0 ELSE Cardinality(RowOf(inLog, m, b))
    OBVIOUS
  <2>2. PICK log \in Seq(Watched) : log = inLog
    BY DEF InsAItsInv
  <2>3. /\ \A n \in 1 .. Len(log) : RowOf(Append(log, e), n, b) = RowOf(log, n, b)
        /\ Cardinality(RowOf(Append(log, e), Len(log) + 1, b)) =
             IF e.agent # b THEN Cardinality(RowOf(log, Len(log), b))
             ELSE IF IsFailure(e.type) THEN Cardinality(RowOf(log, Len(log), b)) + 1
             ELSE IF e.type = "execution_complete" THEN 0 ELSE Cardinality(RowOf(log, Len(log), b))
    BY RowGrows
  <2>4. QED BY <1>5, <1>6, <1>8, <2>2, <2>3
<1>11. \A b \in WatchedAgents : inFailures[b] = Cardinality(RowOf(inLog, m, b)) /\ inFailures[b] \in Nat
  BY <1>8 DEF InsAItsInv, InARow, RowOf
<1>12. /\ inFailures' \in [WatchedAgents -> Nat]
       /\ \A b \in WatchedAgents : inFailures'[b] = Cardinality(RowOf(inLog', m + 1, b))
  <2>1. FailuresAfter(type, a) = IF IsFailure(type) THEN inFailures[a] + 1 ELSE IF type = "execution_complete" THEN 0 ELSE inFailures[a]
    BY DEF FailuresAfter
  <2>2. FailuresAfter(type, a) = Cardinality(RowOf(inLog', m + 1, a))
    BY <1>10, <1>11, <2>1
  <2>3. \A b \in WatchedAgents \ {a} : inFailures'[b] = Cardinality(RowOf(inLog', m + 1, b))
    BY <1>9, <1>10, <1>11 DEF InsAItsInv
  <2>4. inFailures' \in [WatchedAgents -> Nat] /\ inFailures'[a] = FailuresAfter(type, a)
    BY <1>9 DEF InsAItsInv
  <2>5. QED BY <2>2, <2>3, <2>4
<1>13. \A b \in WatchedAgents : inFailures'[b] = InARow(Len(inLog), b)'
  BY <1>7, <1>8, <1>12 DEF InARow, RowOf
<1>14. AlarmsAreDue'
  <2>1. SUFFICES ASSUME NEW n \in 1 .. m + 1, IsFailure(inLog'[n].type)
                 PROVE  inLog'[n].alarm <=> Cardinality(RowOf(inLog', n, inLog'[n].agent)) >= FailureThreshold
    <3>1. DOMAIN inLog' = 1 .. m + 1
      BY <1>7, <1>8
    <3>2. QED BY <2>1, <3>1 DEF AlarmsAreDue, InARow, RowOf
  <2>2. CASE n = m + 1
    <3>1. inLog'[n] = e
      BY <1>5, <1>8, <2>2 DEF InsAItsInv
    <3>2. FailuresAfter(type, a) = Cardinality(RowOf(inLog', m + 1, a))
      BY <1>9, <1>12 DEF InsAItsInv
    <3>3. QED BY <1>2, <1>6, <2>1, <2>2, <3>1, <3>2
  <2>3. CASE n \in 1 .. m
    <3>1. inLog'[n] = inLog[n] /\ n \in DOMAIN inLog
      BY <1>5, <1>8, <2>3 DEF InsAItsInv
    <3>2. IsFailure(inLog[n].type) /\ (inLog[n].alarm <=> InARow(n, inLog[n].agent) >= FailureThreshold)
      BY <2>1, <3>1 DEF InsAItsInv, AlarmsAreDue
    <3>3. InARow(n, inLog[n].agent) = Cardinality(RowOf(inLog, n, inLog[n].agent))
      BY DEF InARow, RowOf
    <3>4. QED BY <1>10, <2>3, <3>1, <3>2, <3>3
  <2>4. QED BY <2>2, <2>3
<1>15. QED BY <1>4, <1>7, <1>12, <1>13, <1>14 DEF InsAItsInv

LEMMA InsAItsStays ==
    ASSUME InsAItsInv, [InsAItsNext]_inVars
    PROVE  InsAItsInv'
<1>1. ASSUME NEW e \in AuditEntries, Record(<<e>>), UNCHANGED <<inFailures, inLog>> PROVE InsAItsInv'
  <2>1. <<e>> \in Seq(AuditEntries)
    OBVIOUS
  <2>2. inTrail' \in Seq(AuditEntries) /\ inCount' \in [Levels -> Nat] /\ CountersCoverTrail'
    BY <1>1, <2>1, RecordCovers DEF InsAItsInv
  <2>3. QED BY <1>1, <2>2 DEF InsAItsInv, AlarmsAreDue, InARow
<1>2. /\ AuditEntry("daemon_started", "insaits", "info") \in AuditEntries
      /\ AuditEntry("daemon_stopped", "insaits", "info") \in AuditEntries
  BY DEF AuditEntry, AuditEntries, Levels
<1>3. CASE InsAItsStarts \/ InsAItsStops
  BY <1>1, <1>2, <1>3 DEF InsAItsStarts, InsAItsStops
<1>4. CASE \E a \in WatchedAgents, type \in WatchedTypes : ProcessEvent(type, a)
  BY <1>4, EventWatched
<1>5. CASE UNCHANGED inVars
  BY <1>5 DEF inVars, InsAItsInv, AlarmsAreDue, InARow, CountersCoverTrail, Severe
<1>6. QED BY <1>3, <1>4, <1>5 DEF InsAItsNext, WatchedTypes

LEMMA InsAItsBegins ==
    ASSUME InsAItsInit
    PROVE  InsAItsInv
<1>1. inTrail = <<>> /\ inLog = <<>> /\ inCount = [s \in Levels |-> 0] /\ inFailures = [a \in WatchedAgents |-> 0]
  BY DEF InsAItsInit, Levels
<1>2. /\ inTrail \in Seq(AuditEntries) /\ inLog \in Seq(Watched) /\ Len(inLog) = 0 /\ DOMAIN inLog = {} /\ DOMAIN inTrail = {}
  BY <1>1
<1>3. \A a : InARow(0, a) = 0 /\ \A s : Severe(inTrail, s) = 0
  <2>1. 1 .. 0 = {}
    OBVIOUS
  <2>2. QED BY <1>2, <2>1, FS_EmptySet DEF InARow, Severe
<1>4. AlarmsAreDue
  BY <1>2 DEF AlarmsAreDue
<1>5. CountersCoverTrail
  BY <1>1, <1>3 DEF CountersCoverTrail
<1>6. QED BY <1>1, <1>2, <1>3, <1>4, <1>5 DEF InsAItsInv

-----------------------------------------------------------------------------
(* The gas dashboard. *)

DashboardInv ==
  /\ IsFiniteSet(DOMAIN gdGas) /\ gdGas \in [DOMAIN gdGas -> Nat] /\ gdBudget \in [DOMAIN gdBudget -> Nat]
  /\ gdReport.total \in Nat /\ gdReport.total <= SumFunction(gdGas)

LEMMA SumIsNatural ==
    ASSUME NEW f, IsFiniteSet(DOMAIN f), \A x \in DOMAIN f : f[x] \in Nat
    PROVE  SumFunction(f) \in Nat
BY SumAgree DEF SumFunction

\* No term of a sum is greater than the sum.
LEMMA SumBounds ==
    ASSUME NEW f, IsFiniteSet(DOMAIN f), \A x \in DOMAIN f : f[x] \in Nat
    PROVE  \A x \in DOMAIN f : f[x] <= SumFunction(f)
<1>1. PICK D : D = DOMAIN f /\ IsFiniteSet(D)
  OBVIOUS
<1>2. \A x \in D : f[x] \in Nat
  BY <1>1
<1>3. ASSUME NEW x \in D PROVE f[x] <= SumFunctionOnSet(f, D)
  <2>1. SumFunctionOnSet(f, D) = f[x] + SumFunctionOnSet(f, D \ {x})
    BY <1>1, <1>2, SumRemove
  <2>2. IsFiniteSet(D \ {x}) /\ \A y \in D \ {x} : f[y] \in Nat
    BY <1>1, <1>2, FS_RemoveElement
  <2>3. SumFunctionOnSet(f, D \ {x}) \in Nat
    BY <2>2, SumAgree
  <2>4. QED BY <1>2, <2>1, <2>3
<1>4. QED BY <1>1, <1>3 DEF SumFunction

\* One element of a function's domain that grows, or is new, and its sum.
LEMMA SumGrows ==
    ASSUME NEW f, IsFiniteSet(DOMAIN f), \A x \in DOMAIN f : f[x] \in Nat, NEW a, NEW n \in Nat,
           NEW g, DOMAIN g = DOMAIN f \cup {a}, g[a] = (IF a \in DOMAIN f THEN f[a] ELSE 0) + n,
           \A x \in DOMAIN f \ {a} : g[x] = f[x]
    PROVE  SumFunction(g) = SumFunction(f) + n /\ SumFunction(f) \in Nat /\ \A x \in DOMAIN f : f[x] <= SumFunction(f)
<1>1. PICK D, E : D = DOMAIN f /\ E = DOMAIN g
  OBVIOUS
<1>2. IsFiniteSet(D) /\ IsFiniteSet(E) /\ IsFiniteSet(D \ {a}) /\ E \ {a} = D \ {a} /\ a \in E
  BY <1>1, FS_AddElement, FS_RemoveElement
<1>3. g[a] \in Nat /\ \A x \in E : g[x] \in Nat
  <2>1. g[a] \in Nat
    BY <1>1
  <2>2. \A x \in D \ {a} : g[x] \in Nat
    BY <1>1
  <2>3. QED BY <1>1, <2>1, <2>2
<1>4. /\ SumFunctionOnSet(f, D) \in Nat /\ SumFunctionOnSet(f, D \ {a}) \in Nat
      /\ SumFunctionOnSet(f, D \ {a}) = SumFunctionOnSet(g, D \ {a})
  <2>1. \A x \in D \ {a} : f[x] \in Nat /\ f[x] = g[x]
    BY <1>1
  <2>2. \A x \in D : f[x] \in Nat
    BY <1>1
  <2>3. SumFunctionOnSet(f, D) \in Nat
    BY <1>2, <2>2, SumAgree
  <2>4. QED BY <1>2, <2>1, <2>3, SumAgree
<1>5. SumFunctionOnSet(g, E) = g[a] + SumFunctionOnSet(g, D \ {a})
  BY <1>2, <1>3, SumRemove
<1>6. CASE a \in D
  <2>1. SumFunctionOnSet(f, D) = f[a] + SumFunctionOnSet(f, D \ {a}) /\ f[a] \in Nat /\ g[a] = f[a] + n
    BY <1>1, <1>2, <1>6, SumRemove
  <2>2. SumFunctionOnSet(g, E) = SumFunctionOnSet(f, D) + n
    BY <1>4, <1>5, <2>1
  <2>3. QED BY <1>1, <1>4, <2>2, SumBounds DEF SumFunction
<1>7. CASE a \notin D
  <2>1. D \ {a} = D /\ g[a] = n
    BY <1>1, <1>7
  <2>2. SumFunctionOnSet(g, E) = n + SumFunctionOnSet(g, D \ {a})
    BY <1>5, <2>1
  <2>3. SumFunctionOnSet(g, D \ {a}) = SumFunctionOnSet(f, D)
    BY <1>4, <2>1, Zenon
  <2>4. SumFunctionOnSet(g, E) = SumFunctionOnSet(f, D) + n
    BY <1>4, <2>2, <2>3
  <2>5. QED BY <1>1, <1>4, <2>4, SumBounds DEF SumFunction
<1>8. QED BY <1>6, <1>7

LEMMA UseIsSummed ==
    ASSUME DashboardInv, NEW a, AgentUsesGas(a)
    PROVE  DashboardInv' /\ \A x \in DOMAIN gdGas : x \in DOMAIN gdGas' /\ gdGas'[x] >= gdGas[x]
<1>1. PICK f, g : f = gdGas /\ g = gdGas'
  OBVIOUS
<1>2. g = [x \in DOMAIN f \cup {a} |-> (IF x \in DOMAIN f THEN f[x] ELSE 0) + (IF x = a THEN 1 ELSE 0)]
  BY <1>1 DEF AgentUsesGas
<1>3. IsFiniteSet(DOMAIN f) /\ \A x \in DOMAIN f : f[x] \in Nat
  BY <1>1 DEF DashboardInv
<1>4. /\ DOMAIN g = DOMAIN f \cup {a} /\ g[a] = (IF a \in DOMAIN f THEN f[a] ELSE 0) + 1 /\ IsFiniteSet(DOMAIN g)
      /\ \A x \in DOMAIN f \ {a} : g[x] = f[x]
  BY <1>2, <1>3, FS_AddElement
<1>5. \A x \in DOMAIN f : g[x] >= f[x]
  BY <1>2, <1>3
<1>6. \A x \in DOMAIN g : g[x] \in Nat
  BY <1>2, <1>3
<1>7. SumFunction(g) = SumFunction(f) + 1 /\ SumFunction(f) \in Nat
  BY <1>3, <1>4, SumGrows
<1>8. g \in [DOMAIN g -> Nat]
  BY <1>2, <1>4, <1>6
<1>9. gdReport.total \in Nat /\ gdReport.total <= SumFunction(g) /\ UNCHANGED <<gdBudget, gdReport>>
  BY <1>1, <1>7 DEF DashboardInv, AgentUsesGas
<1>10. QED BY <1>1, <1>4, <1>5, <1>8, <1>9 DEF DashboardInv

LEMMA DashboardStays ==
    ASSUME DashboardInv, [DashboardNext]_gdVars
    PROVE  DashboardInv' /\ \A x \in DOMAIN gdGas : x \in DOMAIN gdGas' /\ gdGas'[x] >= gdGas[x]
<1>1. \A x \in DOMAIN gdGas : gdGas[x] \in Nat
  BY DEF DashboardInv
<1>2. ASSUME NEW a \in WatchedAgents, SetAgentBudget(a) PROVE DashboardInv' /\ gdGas' = gdGas
  <2>1. PICK b \in Nat : gdBudget' = [x \in DOMAIN gdBudget \cup {a} |-> IF x = a THEN b ELSE gdBudget[x]]
    BY <1>2, MonitorsAssumption DEF SetAgentBudget
  <2>2. gdBudget' \in [DOMAIN gdBudget' -> Nat]
    BY <2>1 DEF DashboardInv
  <2>3. QED BY <1>2, <2>2 DEF SetAgentBudget, DashboardInv
<1>3. ASSUME NEW a \in WatchedAgents, ResetAgentBudget(a) PROVE DashboardInv' /\ gdGas' = gdGas
  <2>1. gdBudget' \in [DOMAIN gdBudget' -> Nat]
    BY <1>3 DEF ResetAgentBudget, DashboardInv
  <2>2. QED BY <1>3, <2>1 DEF ResetAgentBudget, DashboardInv
<1>4. CASE GetReport
  <2>1. gdReport'.total = SumFunction(gdGas) /\ SumFunction(gdGas) \in Nat
    BY <1>1, <1>4, SumIsNatural DEF GetReport, DashboardInv
  <2>2. QED BY <1>1, <1>4, <2>1 DEF GetReport, DashboardInv
<1>5. CASE UNCHANGED gdVars
  BY <1>1, <1>5 DEF gdVars, DashboardInv
<1>6. QED BY <1>1, <1>2, <1>3, <1>4, <1>5, UseIsSummed DEF DashboardNext

\* Who is over a budget stays over it while the budgets stay.
LEMMA OverStays ==
    ASSUME DashboardInv, [DashboardNext]_gdVars, gdBudget' = gdBudget
    PROVE  AgentsOver \subseteq AgentsOver'
<1>1. TierBudget \in Nat
  BY MonitorsAssumption DEF TierBudget, Max
<1>2. \A a : BudgetOf(a) \in Nat /\ BudgetOf(a)' = BudgetOf(a)
  BY <1>1 DEF BudgetOf, DashboardInv
<1>3. \A x \in DOMAIN gdGas : gdGas[x] \in Nat /\ x \in DOMAIN gdGas' /\ gdGas'[x] \in Nat /\ gdGas'[x] >= gdGas[x]
  BY DashboardStays DEF DashboardInv
<1>4. QED BY <1>2, <1>3 DEF AgentsOver

LEMMA DashboardBegins ==
    ASSUME DashboardInit
    PROVE  DashboardInv
<1>1. DOMAIN gdGas = {} /\ DOMAIN gdBudget = {} /\ gdReport.total = 0
  BY DEF DashboardInit, NoReport
<1>2. IsFiniteSet(DOMAIN gdGas) /\ SumFunction(gdGas) = 0
  BY <1>1, FS_EmptySet, SumEmpty DEF SumFunction
<1>3. QED BY <1>1, <1>2 DEF DashboardInit, DashboardInv

-----------------------------------------------------------------------------
(* The outlier trap. *)

TrapInv ==
  /\ otCounts \in [EventTypes -> Nat] /\ otRecent \in Seq(EventTypes)
  /\ \A t \in EventTypes : SameOf(otRecent, t) <= otCounts[t]
  /\ QuarantineNeedsBurst

LEMMA TimesGrows ==
    ASSUME NEW t \in Nat, NEW x \in Int, NEW y \in Int, x <= y
    PROVE  t * x <= t * y
OBVIOUS

\* The score of an event of which there were c among t, and some of them lately.
LEMMA ScoreNeedsBurst ==
    ASSUME NEW t \in Nat, NEW c \in Nat, NEW same \in Nat, NEW severity \in Severities, 0 < c, c <= t, same <= c,
           t * (3 * SeverityTenths[severity] + ErrorAdjacent(severity) + (IF 3 * same > 20 THEN 20 ELSE 3 * same))
             + 20 * (t - c) >= QuarantineThreshold * t
    PROVE  /\ severity \in {"error", "critical"}
           /\ same >= (IF severity = "critical" THEN 3 ELSE 5)
           /\ t > same
<1>1. PICK k \in Int : k = 3 * SeverityTenths[severity] + ErrorAdjacent(severity) + (IF 3 * same > 20 THEN 20 ELSE 3 * same)
  BY DEF Severities, SeverityTenths, ErrorAdjacent
<1>2. t * k + 20 * (t - c) >= 85 * t
  BY <1>1 DEF QuarantineThreshold
<1>3. t * k \in Int /\ t * 65 = 65 * t /\ t * 77 = 77 * t
  BY <1>1
<1>4. k > 65
  <2>1. SUFFICES ASSUME k <= 65 PROVE FALSE
    BY <1>1
  <2>2. t * k <= t * 65
    BY <1>1, <2>1, TimesGrows
  <2>3. QED BY <1>2, <1>3, <2>2
<1>5. k <= 77 /\ severity \in {"error", "critical"} /\ same >= (IF severity = "critical" THEN 3 ELSE 5)
  BY <1>1, <1>4 DEF Severities, SeverityTenths, ErrorAdjacent
<1>6. t > same
  <2>1. SUFFICES ASSUME t = c PROVE FALSE
    BY <1>1
  <2>2. t * k <= t * 77
    BY <1>1, <1>5, TimesGrows
  <2>3. QED BY <1>2, <1>3, <2>1, <2>2
<1>7. QED BY <1>5, <1>6

LEMMA IngestCounts ==
    ASSUME TrapInv, NEW type \in EventTypes, NEW severity \in Severities, Ingest(type, severity)
    PROVE  TrapInv'
<1>1. PICK f, g, u, v : f = otCounts /\ g = [f EXCEPT ![type] = @ + 1] /\ u = otRecent /\ v = LastTen(Append(u, type))
  OBVIOUS
<1>2. /\ otCounts' = g /\ otRecent' = v
      /\ otQuarantine' = IF ScoreTimesTotal(v, g, type, severity) >= QuarantineThreshold * Total(g)
                         THEN <<[severity |-> severity, same |-> SameOf(v, type), seen |-> Total(g)]>> ELSE otQuarantine
  BY <1>1 DEF Ingest
<1>3. f \in [EventTypes -> Nat] /\ u \in Seq(EventTypes) /\ \A t \in EventTypes : SameOf(u, t) <= f[t]
  BY <1>1 DEF TrapInv
<1>4. g \in [EventTypes -> Nat] /\ g[type] = f[type] + 1 /\ \A t \in EventTypes \ {type} : g[t] = f[t]
  BY <1>1, <1>3
<1>5. \A w \in Seq(EventTypes) : \A t : SameOf(w, t) = Cardinality(PlacesIn(w, {t})) /\ SameOf(w, t) \in Nat
  <2>1. SUFFICES ASSUME NEW w \in Seq(EventTypes), NEW t PROVE SameOf(w, t) = Cardinality(PlacesIn(w, {t})) /\ SameOf(w, t) \in Nat
    OBVIOUS
  <2>2. SameOf(w, t) = Cardinality(PlacesIn(w, {t}))
    BY DEF SameOf, PlacesIn
  <2>3. QED BY <2>2, PlacesAreFinite
<1>6. v \in Seq(EventTypes) /\ \A t \in EventTypes : SameOf(v, t) <= g[t]
  <2>1. PICK w : w = Append(u, type) /\ w \in Seq(EventTypes) /\ w # <<>> /\ Len(w) \in Nat /\ Len(w) >= 1
    <3>1. PICK x : x = Append(u, type) /\ x \in Seq(EventTypes) /\ x # <<>>
      BY <1>3, AppendProperties
    <3>2. Len(x) \in Nat
      BY <3>1
    <3>3. Len(x) >= 1
      BY <3>1, EmptySeq
    <3>4. QED BY <3>1, <3>2, <3>3
  <2>2. ASSUME NEW t \in EventTypes PROVE SameOf(w, t) <= g[t]
    <3>1. Cardinality(PlacesOf(w, t)) = Cardinality(PlacesOf(u, t)) + (IF type = t THEN 1 ELSE 0)
      BY <1>3, <2>1, PlacesGrow
    <3>2. SameOf(w, t) = Cardinality(PlacesOf(w, t)) /\ SameOf(u, t) = Cardinality(PlacesOf(u, t))
      BY DEF SameOf, PlacesOf
    <3>3. SameOf(w, t) = SameOf(u, t) + (IF t = type THEN 1 ELSE 0) /\ SameOf(u, t) \in Nat
      BY <1>3, <1>5, <2>1, <3>1, <3>2
    <3>4. QED BY <1>3, <1>4, <3>3
  <2>3. CASE v = w
    BY <2>1, <2>2, <2>3
  <2>4. CASE v = Tail(w)
    <3>1. Tail(w) = SubSeq(w, 1 + 1, Len(w))
      BY <2>1, TailIsSubSeq
    <3>2. 1 \in 0 .. Len(w)
      BY <2>1
    <3>3. v \in Seq(EventTypes)
      BY <2>1, <2>4
    <3>4. ASSUME NEW t \in EventTypes PROVE SameOf(v, t) <= g[t]
      <4>1. PICK F : F = {t}
        OBVIOUS
      <4>2. Cardinality(PlacesIn(SubSeq(w, 1 + 1, Len(w)), F)) <= Cardinality(PlacesIn(w, F))
        BY <2>1, <3>2, PlacesCut
      <4>3. SameOf(v, t) <= SameOf(w, t)
        BY <1>5, <2>1, <2>4, <3>1, <3>3, <4>1, <4>2
      <4>4. SameOf(v, t) \in Nat /\ SameOf(w, t) \in Nat /\ g[t] \in Nat /\ SameOf(w, t) <= g[t]
        BY <1>4, <1>5, <2>1, <2>2, <3>3
      <4>5. QED BY <4>3, <4>4
    <3>5. QED BY <3>3, <3>4
  <2>5. QED BY <1>1, <2>1, <2>3, <2>4 DEF LastTen
<1>7. Total(g) \in Nat /\ g[type] <= Total(g)
  <2>1. IsFiniteSet(DOMAIN g) /\ \A x \in DOMAIN g : g[x] \in Nat
    BY <1>4, MonitorsAssumption
  <2>2. QED BY <1>4, <2>1, SumIsNatural, SumBounds DEF Total
<1>8. QuarantineNeedsBurst'
  <2>1. CASE otQuarantine' = otQuarantine
    BY <2>1 DEF TrapInv, QuarantineNeedsBurst
  <2>2. CASE /\ ScoreTimesTotal(v, g, type, severity) >= QuarantineThreshold * Total(g)
             /\ otQuarantine' = <<[severity |-> severity, same |-> SameOf(v, type), seen |-> Total(g)]>>
    <3>1. PICK t \in Nat, c \in Nat, same \in Nat : t = Total(g) /\ c = g[type] /\ same = SameOf(v, type)
      BY <1>4, <1>5, <1>6, <1>7
    <3>2. 0 < c /\ c <= t /\ same <= c
      BY <1>3, <1>4, <1>6, <1>7, <3>1
    <3>3. t * (3 * SeverityTenths[severity] + ErrorAdjacent(severity) + (IF 3 * same > 20 THEN 20 ELSE 3 * same))
            + 20 * (t - c) >= QuarantineThreshold * t
      BY <2>2, <3>1 DEF ScoreTimesTotal
    <3>4. severity \in {"error", "critical"} /\ same >= (IF severity = "critical" THEN 3 ELSE 5) /\ t > same
      BY <3>2, <3>3, ScoreNeedsBurst
    <3>5. Head(otQuarantine') = [severity |-> severity, same |-> same, seen |-> t]
      BY <2>2, <3>1
    <3>6. QED BY <3>4, <3>5 DEF QuarantineNeedsBurst
  <2>3. QED BY <1>2, <2>1, <2>2
<1>9. QED BY <1>2, <1>4, <1>6, <1>8 DEF TrapInv

LEMMA TrapStays ==
    ASSUME TrapInv, [TrapNext]_otVars
    PROVE  TrapInv'
<1>1. CASE UNCHANGED otVars
  BY <1>1 DEF otVars, TrapInv, SameOf, QuarantineNeedsBurst
<1>2. QED BY <1>1, IngestCounts DEF TrapNext

LEMMA TrapBegins ==
    ASSUME TrapInit
    PROVE  TrapInv
<1>1. otRecent = <<>> /\ DOMAIN otRecent = {} /\ otCounts = [t \in EventTypes |-> 0] /\ otQuarantine = <<>>
  BY DEF TrapInit
<1>2. \A t : SameOf(otRecent, t) = 0
  BY <1>1, FS_EmptySet DEF SameOf
<1>3. QED BY <1>1, <1>2 DEF TrapInv, QuarantineNeedsBurst

-----------------------------------------------------------------------------
(* The tool monitor. *)

\* A monitor that is not stale has the registry itself.
ToolMonitorInv ==
  /\ tmCopy = [t \in DOMAIN tmCopy |-> tmCopy[t]]
  /\ tmFile = [t \in DOMAIN tmFile |-> tmFile[t]]
  /\ ~tmStale => tmCopy = tmFile

LEMMA ToolMonitorStays ==
    ASSUME ToolMonitorInv, [ToolMonitorNext]_tmVars
    PROVE  ToolMonitorInv'
<1>1. CASE OpenMonitor
  BY <1>1 DEF OpenMonitor, ToolMonitorInv
<1>2. ASSUME NEW t, InstallTool(t) \/ UninstallTool(t) PROVE ToolMonitorInv'
  <2>1. tmStale' = TRUE /\ tmCopy' = tmCopy
    BY <1>2 DEF InstallTool, UninstallTool
  <2>2. tmFile' = [x \in DOMAIN tmFile' |-> tmFile'[x]]
    BY <1>2 DEF InstallTool, UninstallTool, Put
  <2>3. QED BY <2>1, <2>2 DEF ToolMonitorInv
<1>3. ASSUME NEW t, DirectoryVanishes(t) PROVE ToolMonitorInv'
  BY <1>3 DEF DirectoryVanishes, ToolMonitorInv
<1>4. CASE AutoRevoke
  <2>1. tmCopy' = Suspended(tmCopy) /\ tmFile' = (IF Unhealthy = {} THEN tmFile ELSE Suspended(tmCopy)) /\ tmStale' = tmStale
    BY <1>4 DEF AutoRevoke
  <2>2. Suspended(tmCopy) = [t \in DOMAIN Suspended(tmCopy) |-> Suspended(tmCopy)[t]]
    BY DEF Suspended
  <2>3. Unhealthy = {} => Suspended(tmCopy) = tmCopy
    BY DEF Suspended, ToolMonitorInv
  <2>4. QED BY <2>1, <2>2, <2>3 DEF ToolMonitorInv
<1>5. CASE UNCHANGED tmVars
  BY <1>5 DEF tmVars, ToolMonitorInv
<1>6. QED BY <1>1, <1>2, <1>3, <1>4, <1>5 DEF ToolMonitorNext

LEMMA RevokingHarms ==
    ASSUME ToolMonitorInv, ToolMonitorNext, tmFile' # tmFile, tmWanted' = tmWanted, ~tmStale
    PROVE  /\ DOMAIN tmFile' = DOMAIN tmFile
           /\ \A t \in DOMAIN tmFile' : tmFile'[t] = "suspended" /\ tmFile[t] = "active" => t \notin tmPresent
<1>1. AutoRevoke
  BY DEF ToolMonitorNext, OpenMonitor, InstallTool, UninstallTool, DirectoryVanishes
<1>2. tmFile' = [t \in DOMAIN tmFile |-> IF t \in Unhealthy THEN "suspended" ELSE tmFile[t]]
  BY <1>1 DEF AutoRevoke, Suspended, ToolMonitorInv
<1>3. \A t \in Unhealthy : t \notin tmPresent
  BY DEF Unhealthy
<1>4. QED BY <1>2, <1>3

LEMMA ToolMonitorBegins ==
    ASSUME ToolMonitorInit
    PROVE  ToolMonitorInv
BY DEF ToolMonitorInit, ToolMonitorInv, NoTools

-----------------------------------------------------------------------------
(* The EGL monitor. *)

Performances == 0 .. 1
Behaviors == [agent : WatchedAgents, capability : Capabilities, performance : Performances]
MineOf(s, k) == {i \in DOMAIN s : Key(s[i]) = k}
ScoresOf(s, k) == {s[i].performance : i \in MineOf(s, k)}

GridIsBest(g, s) ==
  /\ DOMAIN g = {Key(s[i]) : i \in DOMAIN s}
  /\ \A k \in DOMAIN g : g[k] = [best |-> Max(ScoresOf(s, k)), samples |-> Cardinality(MineOf(s, k))]

\* An alert of dominance is due to the agents that it counted.
SoundAlerts ==
  {x \in [type : {"convergence", "dominance"}, at : Nat, agents : Nat] :
     x.type = "dominance" => Dominance * x.agents < 100 * (x.agents - 1)}

EglInv ==
  /\ egRecords \in Seq(Behaviors)
  /\ egMeasured \in Nat
  /\ egAlerts \in Seq(SoundAlerts)
  /\ GridIsBest(egGrid, egRecords)

LEMMA BestExists ==
    ASSUME NEW T \in SUBSET Performances, T # {}
    PROVE  Max(T) \in T /\ \A y \in T : Max(T) >= y
<1>1. \E x \in T : \A y \in T : x >= y
  <2>1. CASE 1 \in T
    BY <2>1 DEF Performances
  <2>2. CASE 1 \notin T
    <3>1. Performances = {0, 1}
      BY DEF Performances
    <3>2. T = {0}
      BY <2>2, <3>1
    <3>3. QED BY <3>2
  <2>3. QED BY <2>1, <2>2
<1>2. QED BY <1>1 DEF Max

LEMMA BestIsMax ==
    ASSUME NEW T \in SUBSET Performances, NEW m \in T, \A y \in T : m >= y
    PROVE  Max(T) = m
<1>1. T # {} /\ \A x \in T : x \in Int
  BY DEF Performances
<1>2. Max(T) \in T /\ \A y \in T : Max(T) >= y
  BY <1>1, BestExists
<1>3. Max(T) >= m /\ m >= Max(T) /\ m \in Int /\ Max(T) \in Int
  BY <1>1, <1>2
<1>4. QED BY <1>3

LEMMA ScoresArePerformances ==
    ASSUME NEW s \in Seq(Behaviors), NEW k
    PROVE  /\ ScoresOf(s, k) \in SUBSET Performances
           /\ IsFiniteSet(MineOf(s, k)) /\ Cardinality(MineOf(s, k)) \in Nat
<1>1. Len(s) \in Nat /\ DOMAIN s = 1 .. Len(s)
  OBVIOUS
<1>2. IsFiniteSet(1 .. Len(s)) /\ MineOf(s, k) \subseteq 1 .. Len(s)
  BY <1>1, FS_Interval DEF MineOf
<1>3. \A i \in DOMAIN s : s[i].performance \in Performances
  <2>1. SUFFICES ASSUME NEW i \in DOMAIN s PROVE s[i].performance \in Performances
    OBVIOUS
  <2>2. s[i] \in Behaviors
    BY <1>1
  <2>3. QED BY <2>2 DEF Behaviors
<1>4. ScoresOf(s, k) \in SUBSET Performances
  BY <1>3 DEF ScoresOf, MineOf
<1>5. QED BY <1>2, <1>4, FS_Subset, FS_CardinalityType

\* One record more: what its pair has, and what the others have.
LEMMA CellGrows ==
    ASSUME NEW s \in Seq(Behaviors), NEW r \in Behaviors
    PROVE  /\ {Key(Append(s, r)[i]) : i \in DOMAIN Append(s, r)} = {Key(s[i]) : i \in DOMAIN s} \cup {Key(r)}
           /\ \A k : k # Key(r) =>
                ScoresOf(Append(s, r), k) = ScoresOf(s, k) /\ MineOf(Append(s, r), k) = MineOf(s, k)
           /\ ScoresOf(Append(s, r), Key(r)) = ScoresOf(s, Key(r)) \cup {r.performance}
           /\ Cardinality(MineOf(Append(s, r), Key(r))) = Cardinality(MineOf(s, Key(r))) + 1
<1>1. Len(s) \in Nat
  OBVIOUS
<1>2. PICK n \in Nat : n = Len(s) /\ DOMAIN s = 1 .. n
  BY <1>1
<1>3. PICK t : t = Append(s, r) /\ DOMAIN t = 1 .. n + 1 /\ t[n + 1] = r /\ \A i \in 1 .. n : t[i] = s[i]
  <2>1. Append(s, r) \in Seq(Behaviors) /\ Len(Append(s, r)) = n + 1
    BY <1>2, AppendProperties
  <2>2. DOMAIN Append(s, r) = 1 .. n + 1
    BY <2>1
  <2>3. Append(s, r)[n + 1] = r /\ \A i \in 1 .. n : Append(s, r)[i] = s[i]
    BY <1>2, AppendProperties
  <2>4. QED BY <2>2, <2>3
<1>4. 1 .. n + 1 = (1 .. n) \cup {n + 1} /\ n + 1 \notin 1 .. n
  BY <1>2
<1>5. {Key(t[i]) : i \in DOMAIN t} = {Key(s[i]) : i \in DOMAIN s} \cup {Key(r)}
  BY <1>2, <1>3, <1>4
<1>6. ASSUME NEW k, k # Key(r) PROVE ScoresOf(t, k) = ScoresOf(s, k) /\ MineOf(t, k) = MineOf(s, k)
  <2>1. MineOf(t, k) = MineOf(s, k) /\ \A i \in MineOf(s, k) : t[i] = s[i]
    BY <1>2, <1>3, <1>4, <1>6 DEF MineOf
  <2>2. QED BY <2>1 DEF ScoresOf
<1>7. PICK k : k = Key(r)
  OBVIOUS
<1>8. MineOf(t, k) = MineOf(s, k) \cup {n + 1} /\ n + 1 \notin MineOf(s, k) /\ \A i \in MineOf(s, k) : t[i] = s[i]
  BY <1>2, <1>3, <1>4, <1>7 DEF MineOf
<1>9. ScoresOf(t, k) = ScoresOf(s, k) \cup {r.performance}
  <2>1. ScoresOf(t, k) = {t[i].performance : i \in MineOf(s, k)} \cup {t[n + 1].performance}
    BY <1>8 DEF ScoresOf
  <2>2. {t[i].performance : i \in MineOf(s, k)} = ScoresOf(s, k)
    BY <1>8 DEF ScoresOf
  <2>3. QED BY <1>3, <2>1, <2>2
<1>10. Cardinality(MineOf(t, k)) = Cardinality(MineOf(s, k)) + 1
  BY <1>8, ScoresArePerformances, FS_AddElement
<1>11. QED BY <1>3, <1>5, <1>6, <1>7, <1>9, <1>10

LEMMA GridGrows ==
    ASSUME EglInv, NEW a \in WatchedAgents, NEW c \in Capabilities, NEW p \in 0 .. 1, RecordBehavior(a, c, p)
    PROVE  EglInv'
<1>1. PICK r, s, u : r = [agent |-> a, capability |-> c, performance |-> p] /\ s = egRecords /\ u = Append(s, r)
  OBVIOUS
<1>2. r \in Behaviors /\ s \in Seq(Behaviors) /\ u \in Seq(Behaviors) /\ r.performance = p /\ p \in Performances
  <2>1. r \in Behaviors /\ s \in Seq(Behaviors) /\ r.performance = p /\ p \in Performances
    BY <1>1 DEF EglInv, Behaviors, Performances
  <2>2. QED BY <1>1, <2>1, AppendProperties
<1>3. PICK g, h, key : g = egGrid /\ h = egGrid' /\ key = Key(r)
  OBVIOUS
<1>4. PICK old : old = IF key \in DOMAIN g THEN g[key] ELSE [best |-> 0, samples |-> 0]
  OBVIOUS
<1>5. /\ egRecords' = u /\ egMeasured' = egMeasured /\ egAlerts' = egAlerts
      /\ h = [k \in DOMAIN g \cup {key} |->
                IF k = key THEN [best |-> Max({old.best, p}), samples |-> old.samples + 1] ELSE g[k]]
  BY <1>1, <1>3, <1>4 DEF RecordBehavior
<1>6. /\ DOMAIN g = {Key(s[i]) : i \in DOMAIN s}
      /\ \A k \in DOMAIN g : g[k] = [best |-> Max(ScoresOf(s, k)), samples |-> Cardinality(MineOf(s, k))]
  BY <1>1, <1>3 DEF EglInv, GridIsBest
<1>7. /\ {Key(u[i]) : i \in DOMAIN u} = {Key(s[i]) : i \in DOMAIN s} \cup {key}
      /\ \A k : k # key => ScoresOf(u, k) = ScoresOf(s, k) /\ MineOf(u, k) = MineOf(s, k)
      /\ ScoresOf(u, key) = ScoresOf(s, key) \cup {p}
      /\ Cardinality(MineOf(u, key)) = Cardinality(MineOf(s, key)) + 1
  BY <1>1, <1>2, <1>3, CellGrows
<1>8. DOMAIN h = {Key(u[i]) : i \in DOMAIN u}
  BY <1>5, <1>6, <1>7
<1>9. ScoresOf(u, key) \in SUBSET Performances /\ ScoresOf(s, key) \in SUBSET Performances
  BY <1>2, ScoresArePerformances
<1>10. Max(ScoresOf(u, key)) = Max({old.best, p}) /\ Cardinality(MineOf(u, key)) = old.samples + 1
  <2>1. CASE key \in DOMAIN g
    <3>1. old.best = Max(ScoresOf(s, key)) /\ old.samples = Cardinality(MineOf(s, key))
      <4>1. old = g[key] /\ g[key] = [best |-> Max(ScoresOf(s, key)), samples |-> Cardinality(MineOf(s, key))]
        BY <1>4, <1>6, <2>1
      <4>2. QED BY <4>1
    <3>2. ScoresOf(s, key) # {}
      BY <1>3, <1>6, <2>1 DEF ScoresOf, MineOf
    <3>3. old.best \in ScoresOf(s, key) /\ \A y \in ScoresOf(s, key) : old.best >= y
      BY <1>9, <3>1, <3>2, BestExists
    <3>4. PICK m \in {old.best, p} : m >= old.best /\ m >= p
      BY <1>2, <1>9, <3>3 DEF Performances
    <3>5. m \in ScoresOf(u, key) /\ \A y \in ScoresOf(u, key) : m >= y
      BY <1>2, <1>7, <1>9, <3>3, <3>4 DEF Performances
    <3>6. Max(ScoresOf(u, key)) = m
      BY <1>9, <3>5, BestIsMax
    <3>7. {old.best, p} \in SUBSET Performances /\ \A y \in {old.best, p} : m >= y
      BY <1>2, <1>9, <3>3, <3>4
    <3>8. Max({old.best, p}) = m
      BY <3>4, <3>7, BestIsMax
    <3>9. QED BY <1>7, <3>1, <3>6, <3>8
  <2>2. CASE key \notin DOMAIN g
    <3>1. MineOf(s, key) = {} /\ ScoresOf(s, key) = {}
      BY <1>6, <2>2 DEF ScoresOf, MineOf
    <3>2. ScoresOf(u, key) = {p} /\ old.best = 0 /\ old.samples = 0 /\ Cardinality(MineOf(s, key)) = 0
      BY <1>4, <1>7, <2>2, <3>1, FS_EmptySet
    <3>3. Max({p}) = p
      BY <1>2, BestIsMax DEF Performances
    <3>4. {0, p} \in SUBSET Performances /\ p \in {0, p} /\ \A y \in {0, p} : p >= y
      BY <1>2 DEF Performances
    <3>5. Max({0, p}) = p
      BY <3>4, BestIsMax
    <3>6. QED BY <1>7, <3>2, <3>3, <3>5
  <2>3. QED BY <2>1, <2>2
<1>11. \A k \in DOMAIN h : h[k] = [best |-> Max(ScoresOf(u, k)), samples |-> Cardinality(MineOf(u, k))]
  <2>1. h[key] = [best |-> Max(ScoresOf(u, key)), samples |-> Cardinality(MineOf(u, key))]
    BY <1>5, <1>10
  <2>2. \A k \in DOMAIN g : k # key => h[k] = [best |-> Max(ScoresOf(u, k)), samples |-> Cardinality(MineOf(u, k))]
    BY <1>5, <1>6, <1>7
  <2>3. QED BY <1>5, <2>1, <2>2
<1>12. GridIsBest(h, u)
  BY <1>8, <1>11 DEF GridIsBest
<1>13. QED BY <1>2, <1>3, <1>5, <1>12 DEF EglInv

\* What is at most n times each term is in sum at most n times the sum.
LEMMA SumScaled ==
    ASSUME NEW D, IsFiniteSet(D), NEW n \in Nat, NEW f, NEW g,
           \A x \in D : f[x] \in Nat /\ g[x] \in Nat /\ g[x] <= n * f[x]
    PROVE  SumFunctionOnSet(f, D) \in Nat /\ SumFunctionOnSet(g, D) <= n * SumFunctionOnSet(f, D)
<1> DEFINE T == {k \in Nat : \A E \in SUBSET D : Cardinality(E) = k =>
                   SumFunctionOnSet(f, E) \in Nat /\ SumFunctionOnSet(g, E) \in Nat
                   /\ SumFunctionOnSet(g, E) <= n * SumFunctionOnSet(f, E)}
<1>1. \A E \in SUBSET D : IsFiniteSet(E) /\ Cardinality(E) \in Nat
  BY FS_Subset, FS_CardinalityType
<1>2. 0 \in T
  <2>1. SUFFICES ASSUME NEW E \in SUBSET D, Cardinality(E) = 0
                 PROVE  SumFunctionOnSet(f, E) = 0 /\ SumFunctionOnSet(g, E) = 0
    OBVIOUS
  <2>2. E = {}
    BY <1>1, <2>1, FS_EmptySet
  <2>3. QED BY <2>2, SumEmpty
<1>3. ASSUME NEW k \in Nat, k \in T PROVE k + 1 \in T
  <2>1. SUFFICES ASSUME NEW E \in SUBSET D, Cardinality(E) = k + 1
                 PROVE  /\ SumFunctionOnSet(f, E) \in Nat /\ SumFunctionOnSet(g, E) \in Nat
                        /\ SumFunctionOnSet(g, E) <= n * SumFunctionOnSet(f, E)
    OBVIOUS
  <2>2. PICK x : x \in E
    BY <2>1, FS_EmptySet
  <2>3. PICK R : R = E \ {x} /\ R \in SUBSET D
    OBVIOUS
  <2>4. Cardinality(R) = k
    <3>1. IsFiniteSet(E)
      BY <1>1
    <3>2. Cardinality(E \ {x}) = Cardinality(E) - 1
      BY <2>2, <3>1, FS_RemoveElement
    <3>3. QED BY <2>1, <2>3, <3>2
  <2>5. PICK u \in Nat, v \in Nat : u = SumFunctionOnSet(f, R) /\ v = SumFunctionOnSet(g, R) /\ v <= n * u
    BY <1>3, <2>3, <2>4
  <2>6. PICK b \in Nat, c \in Nat : b = f[x] /\ c = g[x] /\ c <= n * b
    BY <2>2
  <2>7. \A y \in E : f[y] \in Nat /\ g[y] \in Nat
    OBVIOUS
  <2>8. SumFunctionOnSet(f, E) = b + u
    BY <1>1, <2>2, <2>3, <2>5, <2>6, <2>7, SumRemove
  <2>9. SumFunctionOnSet(g, E) = c + v
    BY <1>1, <2>2, <2>3, <2>5, <2>6, <2>7, SumRemove
  <2>10. n * (b + u) = n * b + n * u /\ n * b \in Nat /\ n * u \in Nat
    OBVIOUS
  <2>11. c + v <= n * (b + u)
    BY <2>5, <2>6, <2>10
  <2>12. QED BY <2>8, <2>9, <2>11
<1>4. Nat \subseteq T
  <2>1. PICK U : U = T
    OBVIOUS
  <2>2. 0 \in U /\ \A k \in Nat : k \in U => k + 1 \in U
    BY <1>2, <1>3, <2>1
  <2>3. Nat \subseteq U
    BY <2>2, NatSetInduction
  <2>4. QED BY <2>1, <2>3
<1>5. Cardinality(D) \in T
  BY <1>1, <1>4
<1>6. QED BY <1>5

\* A coefficient above the threshold is one of at least two values.
LEMMA GiniBounds ==
    ASSUME NEW n \in Nat, NEW c \in [1 .. n -> Nat], 100 * GiniOver(c)[1] > Dominance * GiniOver(c)[2]
    PROVE  Dominance * n < 100 * (n - 1)
<1>1. c \in Seq(Nat) /\ Len(c) = n /\ DOMAIN c = 1 .. n
  OBVIOUS
<1>2. PICK w : w = [i \in DOMAIN c |-> i * c[i]]
  OBVIOUS
<1>3. PICK t, s : t = SumFunction(c) /\ s = SumFunction(w)
  OBVIOUS
<1>4. IsFiniteSet(1 .. n) /\ DOMAIN w = 1 .. n
  BY <1>1, <1>2, FS_Interval
<1>5. \A i \in 1 .. n : c[i] \in Nat /\ w[i] \in Nat /\ w[i] <= n * c[i]
  <2>1. SUFFICES ASSUME NEW i \in 1 .. n PROVE c[i] \in Nat /\ w[i] \in Nat /\ w[i] <= n * c[i]
    OBVIOUS
  <2>2. PICK b \in Nat : b = c[i] /\ w[i] = i * b
    BY <1>1, <1>2
  <2>3. b * i <= b * n /\ i * b = b * i /\ n * b = b * n /\ i * b \in Nat
    OBVIOUS
  <2>4. QED BY <2>2, <2>3
<1>6. t \in Nat /\ s <= n * t
  <2>1. SumFunctionOnSet(c, 1 .. n) \in Nat /\ SumFunctionOnSet(w, 1 .. n) <= n * SumFunctionOnSet(c, 1 .. n)
    BY <1>4, <1>5, SumScaled
  <2>2. QED BY <1>1, <1>3, <1>4, <2>1 DEF SumFunction
<1>7. s \in Nat
  <2>1. \A i \in DOMAIN w : w[i] \in Nat
    BY <1>4, <1>5
  <2>2. SumFunctionOnSet(w, DOMAIN w) \in Nat
    BY <1>4, <2>1, SumAgree
  <2>3. QED BY <1>3, <2>2 DEF SumFunction
<1>8. GiniOver(c) = IF n <= 1 THEN <<0, 1>> ELSE <<2 * s - (n + 1) * t, n * t>>
  BY <1>1, <1>2, <1>3 DEF GiniOver
<1>9. Dominance \in Nat
  BY MonitorsAssumption
<1>10. n > 1
  <2>1. SUFFICES ASSUME n <= 1 PROVE FALSE
    OBVIOUS
  <2>2. GiniOver(c)[1] = 0 /\ GiniOver(c)[2] = 1
    BY <1>8, <2>1
  <2>3. QED BY <1>9, <2>2
<1>11. 100 * (2 * s - (n + 1) * t) > Dominance * (n * t)
  <2>1. GiniOver(c)[1] = 2 * s - (n + 1) * t /\ GiniOver(c)[2] = n * t
    BY <1>8, <1>10
  <2>2. QED BY <2>1
<1>12. SUFFICES ASSUME Dominance * n >= 100 * (n - 1) PROVE FALSE
  BY <1>9
<1>13. (n + 1) * t = n * t + t /\ n * t \in Nat /\ (n - 1) * t = n * t - t
  BY <1>6
<1>14. 100 * ((n - 1) * t) > Dominance * (n * t)
  <2>1. 2 * s - (n + 1) * t <= (n - 1) * t
    BY <1>6, <1>7, <1>13
  <2>2. Dominance * (n * t) \in Int /\ (n - 1) * t \in Int /\ (n + 1) * t \in Int
    BY <1>6, <1>9
  <2>3. QED BY <1>7, <1>11, <2>1, <2>2
<1>15. PICK x \in Int, y \in Int : x = Dominance * n /\ y = 100 * (n - 1)
  BY <1>9
<1>16. t * x >= t * y
  BY <1>6, <1>12, <1>15
<1>17. t * x = Dominance * (n * t) /\ t * y = 100 * ((n - 1) * t)
  BY <1>6, <1>9, <1>15
<1>18. PICK z \in Int, q \in Int : z = Dominance * (n * t) /\ q = 100 * ((n - 1) * t)
  BY <1>6, <1>9
<1>19. q > z /\ z >= q
  BY <1>14, <1>16, <1>17, <1>18
<1>20. QED BY <1>18, <1>19

LEMMA MeasureCounts ==
    ASSUME EglInv, Measure
    PROVE  EglInv' 
<1>1. PICK n : n = Cardinality({Recent[i].agent : i \in DOMAIN Recent})
  OBVIOUS
<1>2. PICK v : v = [i \in DOMAIN Recent |-> Recent[i].agent]
  OBVIOUS
<1>3. n \in Nat /\ n = Cardinality(Range(v)) /\ \A x : TimesOf(v, x) \in Nat
  <2>1. PICK m \in Int : m = Max({1, Len(egRecords) - EglWindow + 1}) /\ m >= 1
    <3>1. Len(egRecords) - EglWindow + 1 \in Int
      BY MonitorsAssumption DEF EglInv
    <3>2. PICK k \in Int : k = Len(egRecords) - EglWindow + 1
      BY <3>1
    <3>3. \E z \in {1, k} : \A y \in {1, k} : z >= y
      BY <3>2
    <3>4. Max({1, k}) \in {1, k} /\ Max({1, k}) >= 1
      BY <3>3 DEF Max
    <3>5. QED BY <3>2, <3>4
  <2>2. Recent \in Seq(Behaviors)
    <3>1. PICK k \in Nat : k = Len(egRecords) /\ \A i \in 1 .. k : egRecords[i] \in Behaviors
      BY DEF EglInv
    <3>2. \A i \in m .. k : egRecords[i] \in Behaviors
      BY <2>1, <3>1
    <3>3. SubSeq(egRecords, m, k) \in Seq(Behaviors)
      BY <3>1, <3>2, SubSeqProperties
    <3>4. QED BY <2>1, <3>1, <3>3 DEF Recent
  <2>3. PICK u : u = Recent /\ u \in Seq(Behaviors)
    BY <2>2
  <2>4. Len(u) \in Nat /\ DOMAIN u = 1 .. Len(u) 
    BY <2>3
  <2>11. ASSUME NEW i \in 1 .. Len(u) PROVE u[i].agent \in WatchedAgents
    <3>1. u[i] \in Behaviors
      BY <2>3, <2>4
    <3>2. QED BY <3>1 DEF Behaviors
  <2>5. v = [i \in 1 .. Len(u) |-> u[i].agent]
    BY <1>2, <2>3, <2>4
  <2>6. v \in Seq(WatchedAgents) /\ DOMAIN v = DOMAIN u
    BY <2>4, <2>5, <2>11
  <2>7. IsFiniteSet(Range(v))
    BY <2>6, RangeCounts
  <2>8. Range(v) = {u[i].agent : i \in DOMAIN u}
    BY <2>4, <2>5 DEF Range
  <2>9. \A x : TimesOf(v, x) \in Nat
    <3>1. \A x : TimesOf(v, x) = Cardinality(PlacesOf(v, x))
      BY DEF TimesOf, PlacesOf
    <3>2. IsFiniteSet(DOMAIN v)
      BY <2>4, <2>6, FS_Interval
    <3>3. \A x : PlacesOf(v, x) \in SUBSET DOMAIN v
      BY DEF PlacesOf
    <3>4. QED BY <3>1, <3>2, <3>3, FS_Subset, FS_CardinalityType
  <2>10. QED BY <1>1, <2>3, <2>7, <2>8, <2>9, FS_CardinalityType
<1>4. PICK c : c = SortedCounts(v)
  OBVIOUS
<1>5. c \in [1 .. n -> Nat]
  BY <1>3, <1>4 DEF SortedCounts
<1>6. 100 * GiniOver(c)[1] > Dominance * GiniOver(c)[2] => Dominance * n < 100 * (n - 1)
  BY <1>3, <1>5, GiniBounds
<1>7. PICK at : at = egMeasured + 1 /\ at \in Nat
  BY DEF EglInv
<1>8. PICK Late, Lone : Late = [type |-> "convergence", at |-> at, agents |-> n]
                        /\ Lone = [type |-> "dominance", at |-> at, agents |-> n]
  OBVIOUS
<1>9. PICK converges \in BOOLEAN :
        egAlerts' = egAlerts \o (IF converges THEN <<Late>> ELSE <<>>)
                             \o (IF 100 * GiniOver(c)[1] > Dominance * GiniOver(c)[2] THEN <<Lone>> ELSE <<>>)
  <2>1. PICK converges \in BOOLEAN :
          converges = (ComputeDiversity(Recent) < Convergence /\ Cardinality({Recent[i].capability : i \in DOMAIN Recent}) > 1)
    OBVIOUS
  <2>2. QED BY <1>1, <1>2, <1>4, <1>7, <1>8, <2>1 DEF Measure
<1>10. PICK x, y : /\ x = (IF converges THEN <<Late>> ELSE <<>>)
                   /\ y = (IF 100 * GiniOver(c)[1] > Dominance * GiniOver(c)[2] THEN <<Lone>> ELSE <<>>)
  OBVIOUS
<1>11. x \in Seq(SoundAlerts)
  <2>1. Late \in SoundAlerts
    BY <1>3, <1>7, <1>8 DEF SoundAlerts
  <2>2. <<Late>> \in Seq(SoundAlerts) /\ <<>> \in Seq(SoundAlerts)
    BY <2>1
  <2>3. QED BY <1>10, <2>2
<1>12. y \in Seq(SoundAlerts)
  <2>1. CASE 100 * GiniOver(c)[1] > Dominance * GiniOver(c)[2]
    <3>1. Lone \in SoundAlerts
      BY <1>3, <1>6, <1>7, <1>8, <2>1 DEF SoundAlerts
    <3>2. QED BY <1>10, <2>1, <3>1
  <2>2. CASE ~(100 * GiniOver(c)[1] > Dominance * GiniOver(c)[2])
    <3>1. y = <<>>
      BY <1>10, <2>2
    <3>2. QED BY <3>1
  <2>3. QED BY <2>1, <2>2
<1>13. egAlerts' \in Seq(SoundAlerts)
  BY <1>9, <1>10, <1>11, <1>12, ConcatProperties DEF EglInv
<1>14. egRecords' = egRecords /\ egGrid' = egGrid /\ egMeasured' = at
  BY <1>7 DEF Measure
<1>15. QED BY <1>7, <1>13, <1>14 DEF EglInv

LEMMA EglStays ==
    ASSUME EglInv, [EglNext]_egVars
    PROVE  EglInv' /\ (egBaseline # 0 => egBaseline' = egBaseline)
<1>1. CASE UNCHANGED egVars
  BY <1>1 DEF egVars, EglInv
<1>2. ASSUME NEW a \in WatchedAgents, NEW c \in Capabilities, NEW p \in 0..1, RecordBehavior(a, c, p)
      PROVE  EglInv' /\ egBaseline' = egBaseline
  <2>1. egBaseline' = egBaseline
    BY <1>2 DEF RecordBehavior
  <2>2. QED BY <1>2, <2>1, GridGrows
<1>3. CASE Measure
  <2>1. egBaseline # 0 => egBaseline' = egBaseline
    BY <1>3 DEF Measure
  <2>2. QED BY <1>3, <2>1, MeasureCounts
<1>4. QED BY <1>1, <1>2, <1>3 DEF EglNext

LEMMA EglHolds ==
    ASSUME EglInv
    PROVE  GridKeepsBest /\ DominanceNeedsCompany
<1>1. \A i \in DOMAIN egAlerts : egAlerts[i] \in SoundAlerts
  BY DEF EglInv
<1>2. DominanceNeedsCompany
  BY <1>1 DEF DominanceNeedsCompany, SoundAlerts
<1>3. DOMAIN egGrid = {Key(egRecords[i]) : i \in DOMAIN egRecords}
  BY DEF EglInv, GridIsBest
<1>4. ASSUME NEW k \in DOMAIN egGrid, NEW mine, mine = {i \in DOMAIN egRecords : Key(egRecords[i]) = k}
      PROVE  egGrid[k] = [best |-> Max({egRecords[i].performance : i \in mine}), samples |-> Cardinality(mine)]
  <2>1. mine = MineOf(egRecords, k)
    BY <1>4 DEF MineOf
  <2>2. {egRecords[i].performance : i \in mine} = ScoresOf(egRecords, k)
    BY <2>1 DEF ScoresOf
  <2>3. QED BY <2>1, <2>2 DEF EglInv, GridIsBest
<1>5. GridKeepsBest
  BY <1>3, <1>4 DEF GridKeepsBest
<1>6. QED BY <1>2, <1>5

LEMMA EglBegins ==
    ASSUME EglInit
    PROVE  EglInv
<1>1. DOMAIN egGrid = {} /\ DOMAIN egRecords = {}
  BY DEF EglInit
<1>2. QED BY <1>1 DEF EglInit, EglInv, GridIsBest

-----------------------------------------------------------------------------
(* The reports of the monitors and the rulings of the arbiter. *)

\* What the daemons rule and report is so, in any number of disputes, events, records
\* and tools: no dispute is ruled on without its votes or its deadline, an alarm is due
\* to failures in a row, the gas dashboard's reports are true, only bursts are
\* quarantined, the grid holds bests and no tool that is there is revoked
\* (arbiter_daemon.py, agents/core/daemons, egl_monitor.py, outlier_trap.py,
\* tool_monitor.py).
THEOREM RulingsHold ==
    /\ ArbiterSpec /\ InsAItsSpec /\ DashboardSpec
    /\ TrapSpec /\ EglSpec /\ ToolMonitorSpec
    => RulingsAndReportsHold
<1>1. InsAItsSpec => [](AlarmsAreDue /\ CountersCoverTrail)
  <2>1. InsAItsInit => InsAItsInv
    BY InsAItsBegins
  <2>2. InsAItsInv /\ [InsAItsNext]_inVars => InsAItsInv'
    BY InsAItsStays
  <2>3. InsAItsInv => AlarmsAreDue /\ CountersCoverTrail
    BY DEF InsAItsInv
  <2>4. QED BY <2>1, <2>2, <2>3, PTL DEF InsAItsSpec
<1>2. DashboardSpec => ReportsStayTrue
  <2>1. DashboardInit => DashboardInv
    BY DashboardBegins
  <2>2. DashboardInv /\ [DashboardNext]_gdVars => DashboardInv'
    BY DashboardStays
  <2>3. DashboardInv => gdReport.total <= SumFunction(gdGas)
    BY DEF DashboardInv
  <2>4. DashboardInv /\ [DashboardNext]_gdVars => [gdBudget' = gdBudget => AgentsOver \subseteq AgentsOver']_gdVars
    BY OverStays
  <2>5. QED BY <2>1, <2>2, <2>3, <2>4, PTL DEF DashboardSpec, ReportsStayTrue
<1>3. TrapSpec => []QuarantineNeedsBurst
  <2>1. TrapInit => TrapInv
    BY TrapBegins
  <2>2. TrapInv /\ [TrapNext]_otVars => TrapInv'
    BY TrapStays
  <2>3. TrapInv => QuarantineNeedsBurst
    BY DEF TrapInv
  <2>4. QED BY <2>1, <2>2, <2>3, PTL DEF TrapSpec
<1>4. EglSpec => [](GridKeepsBest /\ DominanceNeedsCompany) /\ BaselineStays
  <2>1. EglInit => EglInv
    BY EglBegins
  <2>2. EglInv /\ [EglNext]_egVars => EglInv' /\ [egBaseline # 0 => egBaseline' = egBaseline]_egVars
    BY EglStays
  <2>3. EglInv => GridKeepsBest /\ DominanceNeedsCompany
    BY EglHolds
  <2>4. QED BY <2>1, <2>2, <2>3, PTL DEF EglSpec, BaselineStays
<1>5. ToolMonitorSpec => RevokingIsHarmless
  <2>1. ToolMonitorInit => ToolMonitorInv
    BY ToolMonitorBegins
  <2>2. ToolMonitorInv /\ [ToolMonitorNext]_tmVars => ToolMonitorInv'
    BY ToolMonitorStays
  <2>3. ToolMonitorInv /\ [ToolMonitorNext]_tmVars =>
          [tmFile' # tmFile /\ tmWanted' = tmWanted =>
             /\ ~tmStale => DOMAIN tmFile' = DOMAIN tmFile
             /\ \A t \in DOMAIN tmFile' \cap DOMAIN tmFile :
                  tmFile'[t] = "suspended" /\ tmFile[t] = "active" /\ ~tmStale => t \notin tmPresent]_tmVars
    BY RevokingHarms
  <2>4. QED BY <2>1, <2>2, <2>3, PTL DEF ToolMonitorSpec, RevokingIsHarmless
<1>6. QED BY <1>1, <1>2, <1>3, <1>4, <1>5, ArbiterSound, PTL DEF MonitorsAreTrue, RulingsAndReportsHold

=============================================================================
