---------------------------- MODULE IntentSystem ----------------------------
(***************************************************************************)
(* The path of an intent from the client to its execution: GatewayBus      *)
(* produces the "intents" stream that Executor consumes.  Implements       *)
(* IntentDelivery.                                                         *)
(***************************************************************************)
EXTENDS GatewayBus

VARIABLES cursor, pel, proc, entry, ran    \* the executor's, see Executor

execVars == <<cursor, pel, proc, entry, ran>>
sysVars == <<vars, execVars>>

Exec == INSTANCE Executor WITH
            EntryModes <- {"hlf", "text", "bytecode"},
            MaxEntries <- 2 * Cardinality(Requests)

SysInit == Init /\ Exec!ExecInit

GatewayStep == Next /\ UNCHANGED execVars
ExecutorStep ==
    /\ Exec!ExecNext
    /\ UNCHANGED <<pc, reqVars, sidecar, now, cbVars, healthFailed, rate, rateTtl,
                   gasVars, nonceExp, vmRuns>>

SysNext == GatewayStep \/ ExecutorStep
SysSpec == SysInit /\ [][SysNext]_sysVars

\* The handlers and the executor as in their modules; the sidecar may never answer.
SysFairness ==
    /\ \A r \in Requests : WF_sysVars(Handle(r) /\ UNCHANGED execVars)
    /\ WF_sysVars(Exec!Start /\ ExecutorStep) /\ SF_sysVars(Exec!Read /\ ExecutorStep)
    /\ WF_sysVars((Exec!Execute \/ Exec!ExecuteError) /\ ExecutorStep)
    /\ WF_sysVars(Exec!Ack /\ ExecutorStep)
SysFairSpec == SysSpec /\ SysFairness

-----------------------------------------------------------------------------
(* The refinement of IntentDelivery. *)

Answer(r) ==
    CASE resp[r] = "ok202" -> "accepted"
      [] resp[r] = "error500" \/ pc[r] = "lost" -> "failed"
      [] resp[r] = "none" /\ pc[r] # "lost" -> "open"
      [] OTHER -> "refused"
Copies(r) == Cardinality({k \in DOMAIN stream : stream[k].req = r})
Runs(r) == Cardinality({i \in DOMAIN ran : stream[ran[i][1]].req = r})

Delivery == INSTANCE IntentDelivery WITH
                answer <- [r \in Requests |-> Answer(r)],
                copies <- [r \in Requests |-> Copies(r)],
                runs <- [r \in Requests |-> Runs(r)]

\* The gateway, the sidecar, the stream and the executor keep what IntentDelivery
\* promises the client: true answers, at most two copies, no run without a copy.
ImplementsDelivery == Delivery!Spec

\* What runs was admitted (bus.py:212-340 before main.py:265): each execution is of
\* a request that paid and owns a nonce, and of an HLF program that passed ALIGN.
RunIsAdmitted ==
    \A i \in DOMAIN ran :
        LET r == stream[ran[i][1]].req
        IN  /\ claimedAt[r] # -1 /\ job[r].gas > 0
            /\ job[r].mode = "hlf" => "align" \in gates[r]

\* An accepted intent is executed unless the executor failed or crashed on it, or
\* could not acknowledge it (main.py:378-403): it is never just forgotten.
AcceptedIsHandled ==
    \A r \in Requests :
        resp[r] = "ok202" ~>
            \E k \in DOMAIN stream : stream[k].req = r /\ k <= cursor

=============================================================================
