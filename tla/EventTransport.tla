--------------------------- MODULE EventTransport ---------------------------
(***************************************************************************)
(* RedisTransport (agents/core/redis_transport.py) between the event buses *)
(* (agents/core/event_bus.py) of several processes: publish replicates an  *)
(* event to a Redis stream, and a listener thread of each process reads    *)
(* the stream as a member of one consumer group and hands the events to    *)
(* the local bus.  One stream, of one event type, is modelled.             *)
(***************************************************************************)
EXTENDS Integers, Sequences, FiniteSets, FiniteSetsExt, Functions

CONSTANTS
    Procs,           \* processes with a bus and a transport
    Threads,         \* <<process, slot>> pairs: bound on the threads alive at once
    MaxEvents,       \* bound on the stream
    ReadCount,       \* COUNT of XREADGROUP (10)
    MaxReconnects    \* max_reconnect_attempts

ASSUME TransportAssumption ==
    /\ IsFiniteSet(Procs)
    /\ Threads \subseteq Procs \X (Nat \ {0}) /\ IsFiniteSet(Threads)
    /\ ReadCount \in Nat \ {0}
    /\ MaxEvents \in Nat /\ MaxReconnects \in Nat \ {0}

VARIABLES
    stream,        \* the process each entry came from, oldest first
    cursor,        \* last entry delivered to the group
    pel,           \* entries delivered and not acknowledged
    connected, running, reconnects,    \* fields of each transport
    listener,      \* _listener_thread: a slot, or 0
    joining,       \* processes whose client is inside stop_listener
    at,            \* where each thread, a <<process, slot>>, is in _listen_loop
    batch,         \* the messages it has still to work through
    handled,       \* history: what each process handled, [entry, as], in order
    overlap        \* history: processes that ever had two threads alive

groupVars == <<cursor, pel>>
ctlVars == <<listener, joining, overlap>>
vars == <<stream, groupVars, connected, running, reconnects, ctlVars, at, batch,
          handled>>

ThreadsOf(p) == {t \in Threads : t[1] = p}
FreeSlots(p) == {t[2] : t \in {u \in ThreadsOf(p) : at[u] = "off"}}
AllOff(p) == \A t \in ThreadsOf(p) : at[t] = "off"
Places == {"off", "read", "handle", "ack", "backoff"}
Outcomes == {"own", "published"}

Init ==
    /\ stream = <<>> /\ cursor = 0 /\ pel = {}
    /\ connected = [p \in Procs |-> FALSE]
    /\ running = [p \in Procs |-> FALSE]
    /\ reconnects = [p \in Procs |-> 0]
    /\ listener = [p \in Procs |-> 0] /\ joining = {} /\ overlap = {}
    /\ at = [t \in Threads |-> "off"]
    /\ batch = [t \in Threads |-> <<>>]
    /\ handled = [p \in Procs |-> <<>>]

-----------------------------------------------------------------------------
(* What the process does with its bus and its transport. *)

\* bus.publish: after the local subscribers, and also by a paused bus, the event is
\* replicated if the transport is connected.
Publish(p) ==
    /\ Len(stream) < MaxEvents
    /\ connected[p]
    /\ stream' = Append(stream, p)
    /\ UNCHANGED <<groupVars, connected, running, reconnects, ctlVars, at, batch,
                   handled>>

\* connect: it may be called again, and may fail.  A disconnect without a listener does
\* what a failure does.
Connect(p) ==
    /\ p \notin joining
    /\ \/ /\ connected' = [connected EXCEPT ![p] = TRUE]
          /\ reconnects' = [reconnects EXCEPT ![p] = 0]
       \/ connected' = [connected EXCEPT ![p] = FALSE] /\ UNCHANGED reconnects
    /\ UNCHANGED <<stream, groupVars, running, ctlVars, at, batch, handled>>

\* start_listener: connects if it must, then starts a thread, whatever the last
\* thread is doing.  (Slots are alike: any free one stands for all.)
StartListener(p) ==
    /\ ~running[p] /\ p \notin joining /\ FreeSlots(p) # {}
    /\ LET slot == CHOOSE s \in FreeSlots(p) : TRUE
       IN  /\ at' = [at EXCEPT ![<<p, slot>>] = "read"]
           /\ listener' = [listener EXCEPT ![p] = slot]
    /\ overlap' = IF AllOff(p) THEN overlap ELSE overlap \cup {p}
    /\ running' = [running EXCEPT ![p] = TRUE]
    /\ connected' = [connected EXCEPT ![p] = TRUE]
    /\ reconnects' = IF connected[p] THEN reconnects ELSE [reconnects EXCEPT ![p] = 0]
    /\ UNCHANGED <<stream, groupVars, joining, batch, handled>>

\* stop_listener up to the join.
RequestStop(p) ==
    /\ p \notin joining /\ listener[p] # 0
    /\ running' = [running EXCEPT ![p] = FALSE]
    /\ joining' = joining \cup {p}
    /\ UNCHANGED <<stream, groupVars, connected, reconnects, listener, overlap, at,
                   batch, handled>>

\* join(timeout=3.0) is over: the thread may have ended, or may still be in a callback, a
\* call to Redis or the sleep of 5 s after an error.  disconnect also drops the
\* connection.
StopReturns(p) ==
    /\ p \in joining
    /\ joining' = joining \ {p}
    /\ listener' = [listener EXCEPT ![p] = 0]
    /\ connected' \in {connected, [connected EXCEPT ![p] = FALSE]}
    /\ UNCHANGED <<stream, groupVars, running, reconnects, overlap, at, batch, handled>>

-----------------------------------------------------------------------------
(* _listen_loop, in thread t of process t[1]. *)

\* The head of the loop: read again, or end.
Round(p) == IF running[p] THEN "read" ELSE "off"

\* What XREADGROUP ... ">" COUNT finds: the oldest entries never delivered to the group.
Fresh == Min({ReadCount, Len(stream) - cursor})

\* Mutant: the newest message first.
NewestMessages == [i \in 1 .. Fresh |-> cursor + Fresh + 1 - i]
NewMessages == [i \in 1 .. Fresh |-> cursor + i]
\* Mutants: reads from a fixed id instead of ">"; reads with NOACK.
AdvancedNot(messages) == cursor
PendingNot(messages) == pel
Advanced(messages) == cursor + Len(messages)
Pending(messages) == pel \cup Range(messages)

Read(t) ==
    /\ at[t] = "read" /\ Fresh > 0
    /\ cursor' = Advanced(NewMessages)
    /\ pel' = Pending(NewMessages)
    /\ batch' = [batch EXCEPT ![t] = NewMessages]
    /\ at' = [at EXCEPT ![t] = "handle"]
    /\ UNCHANGED <<stream, connected, running, reconnects, ctlVars, handled>>

\* A read times out and the listener was stopped meanwhile.  (A time-out before that is
\* followed by another read.)
LeaveLoop(t) ==
    /\ at[t] = "read" /\ Round(t[1]) = "off"
    /\ at' = [at EXCEPT ![t] = "off"]
    /\ UNCHANGED <<stream, groupVars, connected, running, reconnects, ctlVars, batch,
                   handled>>

\* Mutant: no echo prevention.
NeverOwn(p, k) == FALSE
IsOwn(p, k) == stream[k] = p

\* Skipped as an echo, or published on the local bus.
Outcome(p, k) == IF IsOwn(p, k) THEN "own" ELSE "published"

Handle(t) ==
    /\ at[t] = "handle"
    /\ LET k == Head(batch[t])
       IN  handled' = [handled EXCEPT ![t[1]] = Append(@, [entry |-> k, as |-> Outcome(t[1], k)])]
    /\ at' = [at EXCEPT ![t] = "ack"]
    /\ UNCHANGED <<stream, groupVars, connected, running, reconnects, ctlVars, batch>>

\* XACK, and on to the next message or the next read.  (It always raises between a
\* disconnect and the next connect: see Fail.)
Ack(t) ==
    /\ at[t] = "ack"
    /\ pel' = pel \ {Head(batch[t])}
    /\ batch' = [batch EXCEPT ![t] = Tail(@)]
    /\ at' = [at EXCEPT ![t] = IF Len(batch[t]) = 1 THEN Round(t[1]) ELSE "handle"]
    /\ UNCHANGED <<stream, cursor, connected, running, reconnects, ctlVars, handled>>

\* XREADGROUP or XACK raises, possibly after it took effect: the rest of the batch is
\* forgotten, and stays pending.
Fail(t) ==
    /\ \/ at[t] \in {"read", "ack"} /\ UNCHANGED groupVars
       \/ /\ at[t] = "read" /\ Fresh > 0
          /\ cursor' = Advanced(NewMessages) /\ pel' = Pending(NewMessages)
       \/ at[t] = "ack" /\ pel' = pel \ {Head(batch[t])} /\ UNCHANGED cursor
    /\ batch' = [batch EXCEPT ![t] = <<>>]
    /\ at' = [at EXCEPT ![t] = IF running[t[1]] THEN "backoff" ELSE "off"]
    /\ UNCHANGED <<stream, connected, running, reconnects, ctlVars, handled>>

\* The sleep is over: after MaxReconnects of them, over any time, the listener gives
\* up and the transport counts as disconnected.
Resume(t) ==
    /\ at[t] = "backoff"
    /\ LET p == t[1]
           count == reconnects[p] + 1
           givesUp == count >= MaxReconnects
       IN  /\ reconnects' = [reconnects EXCEPT ![p] = count]
           /\ running' = [running EXCEPT ![p] = @ /\ ~givesUp]
           /\ connected' = [connected EXCEPT ![p] = @ /\ ~givesUp]
           /\ at' = [at EXCEPT ![t] = IF givesUp THEN "off" ELSE Round(p)]
    /\ UNCHANGED <<stream, groupVars, ctlVars, batch, handled>>

Listen(t) ==
    \/ Read(t) \/ LeaveLoop(t) \/ Handle(t) \/ Ack(t) \/ Fail(t)
    \/ Resume(t)

Next ==
    \/ \E p \in Procs :
          Publish(p) \/ Connect(p) \/ StartListener(p) \/ RequestStop(p) \/ StopReturns(p)
    \/ \E t \in Threads : Listen(t)

Spec == Init /\ [][Next]_vars

-----------------------------------------------------------------------------
(* Properties. *)

\* The values each variable ranges over.
TypeOK ==
    /\ stream \in Seq(Procs) /\ Len(stream) <= MaxEvents
    /\ cursor \in 0 .. Len(stream) /\ pel \subseteq 1 .. cursor
    /\ connected \in [Procs -> BOOLEAN] /\ running \in [Procs -> BOOLEAN]
    /\ \A p \in Procs :
          /\ reconnects[p] \in 0 .. MaxReconnects + Cardinality(ThreadsOf(p))
          /\ listener[p] = 0 \/ <<p, listener[p]>> \in Threads
    /\ joining \subseteq Procs /\ overlap \subseteq Procs
    /\ at \in [Threads -> Places]
    /\ batch \in [Threads -> Seq(1 .. Len(stream))]
    /\ handled \in [Procs -> Seq([entry: 1 .. Len(stream), as: Outcomes])]

HandledBy(p) == {handled[p][i].entry : i \in DOMAIN handled[p]}

HandledOnce ==
    \A p, q \in Procs : \A i \in DOMAIN handled[p], j \in DOMAIN handled[q] :
        handled[p][i].entry = handled[q][j].entry => p = q /\ i = j

NotEchoed ==
    \A p \in Procs : \A i \in DOMAIN handled[p] :
        handled[p][i].as # "own" => stream[handled[p][i].entry] # p

\* However listeners fail, overlap and restart, an event is handled by one process,
\* once, and never told again to the bus it came from (redis_transport.py:327-356).
AtMostOneBus == HandledOnce /\ NotEchoed

\* An entry leaves the pending list only after a listener handled it, so what a
\* failure in the middle of a batch forgets can still be found there
\* (redis_transport.py:336-361).
AckedWasHandled ==
    \A k \in 1 .. cursor : k \notin pel => \E p \in Procs : k \in HandledBy(p)

\* A bus hears events in stream order, if its process never had two listeners alive:
\* stop_listener may return before the thread ends (redis_transport.py:309-314).
HeardInOrder ==
    \A p \in Procs \ overlap : \A i, j \in DOMAIN handled[p] :
        i < j => handled[p][i].entry < handled[p][j].entry

\* redis_transport.py:133-134, of RedisTransport: it "runs a background listener to
\* receive events from remote buses": while every process listens, what is taken off
\* the pending list was handled by a process other than the one it came from.
ReachesRemoteBus ==
    [][\A k \in pel \ pel' :
          (\A p \in Procs : running[p]) =>
              \E p \in Procs : k \in HandledBy(p) /\ stream[k] # p]_vars

=============================================================================
