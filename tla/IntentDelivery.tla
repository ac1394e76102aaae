--------------------------- MODULE IntentDelivery ---------------------------
(***************************************************************************)
(* What the gateway, the sidecar, the stream and the executor together     *)
(* promise the client of POST /api/v1/intent, without saying how: an       *)
(* answer that is true when it is given, at most two copies of an intent   *)
(* on the stream, and never more executions than copies.                   *)
(***************************************************************************)
EXTENDS Integers

CONSTANT Requests

VARIABLES
    answer,    \* "open", "refused", "accepted" (202) or "failed" (500, or none)
    copies,    \* entries of the intent on the stream
    runs       \* executions of the intent

vars == <<answer, copies, runs>>

Init ==
    /\ answer = [r \in Requests |-> "open"]
    /\ copies = [r \in Requests |-> 0]
    /\ runs = [r \in Requests |-> 0]

\* A refused intent is not on the stream.
Refuse(r) ==
    /\ answer[r] = "open" /\ copies[r] = 0
    /\ answer' = [answer EXCEPT ![r] = "refused"]
    /\ UNCHANGED <<copies, runs>>

\* The intent is put on the stream, possibly late, and may be answered with it.
Enqueue(r) ==
    /\ answer[r] # "refused" /\ copies[r] < 2
    /\ copies' = [copies EXCEPT ![r] = @ + 1]
    /\ \/ UNCHANGED answer
       \/ /\ answer[r] = "open"
          /\ \E a \in {"accepted", "failed"} : answer' = [answer EXCEPT ![r] = a]
    /\ UNCHANGED runs

\* 202: the intent is on the stream.
Accept(r) ==
    /\ answer[r] = "open" /\ copies[r] > 0
    /\ answer' = [answer EXCEPT ![r] = "accepted"]
    /\ UNCHANGED <<copies, runs>>

\* An internal error or a gateway restart: open intents end without an answer the
\* client can rely on.
Fail(S) ==
    /\ \A r \in S : answer[r] = "open"
    /\ answer' = [r \in Requests |-> IF r \in S THEN "failed" ELSE answer[r]]
    /\ UNCHANGED <<copies, runs>>

\* One copy is executed.
Run(r) ==
    /\ runs[r] < copies[r]
    /\ runs' = [runs EXCEPT ![r] = @ + 1]
    /\ UNCHANGED <<answer, copies>>

Next ==
    \/ \E r \in Requests : Refuse(r) \/ Enqueue(r) \/ Accept(r) \/ Run(r)
    \/ \E S \in SUBSET Requests : Fail(S)

Spec == Init /\ [][Next]_vars

=============================================================================
