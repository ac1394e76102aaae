------------------------ MODULE EventTransportProofs ------------------------
(***************************************************************************)
(* Theorems about EventTransport for any number of processes, threads and  *)
(* events: an event is handled at most once, and never by the bus it came  *)
(* from; what left the pending list was handled; and a process with one    *)
(* listener at a time hears events in stream order. Then about AgentTools, *)
(* for any agents, roles, repositories and tasks.                          *)
(***************************************************************************)
EXTENDS EventTransport, AgentTools, InductionLemmas, SequenceTheorems, TLAPS

\* Shapes of the variables the argument needs.
Shape ==
    /\ stream \in Seq(Procs) /\ cursor \in Nat /\ cursor <= Len(stream)
    /\ pel \subseteq 1 .. cursor
    /\ at \in [Threads -> Places]
    /\ batch \in [Threads -> Seq(1 .. cursor)]
    /\ handled \in [Procs -> Seq([entry: 1 .. cursor, as: Outcomes])]

\* A message in hand is pending and in one place of one batch only; threads outside
\* the loop over the messages have none.
Hands ==
    /\ \A t \in Threads : at[t] \in {"handle", "ack"} <=> 1 \in DOMAIN batch[t]
    /\ \A t \in Threads : \A i \in DOMAIN batch[t] : batch[t][i] \in pel
    /\ \A t, u \in Threads : \A i \in DOMAIN batch[t], j \in DOMAIN batch[u] :
          batch[t][i] = batch[u][j] => t = u /\ i = j

\* Message i of t's batch is still to be handled.
Waits(t, i) == i \in DOMAIN batch[t] /\ (at[t] = "handle" \/ i > 1)

\* A message that waits was handled by no process; one at its acknowledgement was.
Progress ==
    /\ \A t \in Threads, i \in Nat, p \in Procs : Waits(t, i) => batch[t][i] \notin HandledBy(p)
    /\ \A t \in Threads : at[t] = "ack" => batch[t][1] \in HandledBy(t[1])

\* A process that never had two threads alive has at most one now, and what it has
\* handled comes before what waits.
Order ==
    /\ \A t, u \in Threads :
          t[1] = u[1] /\ t[1] \notin overlap /\ at[t] # "off" /\ at[u] # "off" => t = u
    /\ \A t \in Threads : \A i, j \in DOMAIN batch[t] : i < j => batch[t][i] < batch[t][j]
    /\ \A t \in Threads, i \in Nat : Waits(t, i) /\ t[1] \notin overlap =>
          \A e \in HandledBy(t[1]) : e < batch[t][i]

IInv == Shape /\ Hands /\ Progress /\ Order /\ AtMostOneBus /\ AckedWasHandled /\ HeardInOrder

-----------------------------------------------------------------------------
(* What the operators return. *)

\* A read returns the entries that follow the cursor, in stream order.
LEMMA NewFacts ==
    ASSUME stream \in Seq(Procs), cursor \in Nat, cursor <= Len(stream)
    PROVE  /\ Fresh \in Nat /\ cursor + Fresh <= Len(stream)
           /\ NewMessages \in Seq(cursor + 1 .. cursor + Fresh)
           /\ DOMAIN NewMessages = 1 .. Fresh /\ Len(NewMessages) = Fresh
           /\ \A i \in 1 .. Fresh : NewMessages[i] = cursor + i
           /\ Range(NewMessages) = cursor + 1 .. cursor + Fresh
<1>1. Fresh = ReadCount \/ Fresh = Len(stream) - cursor
  BY TransportAssumption DEF Fresh, Min
<1>2. Fresh <= Len(stream) - cursor
  <2> DEFINE least == IF ReadCount <= Len(stream) - cursor THEN ReadCount ELSE Len(stream) - cursor
  <2>1. /\ least \in {ReadCount, Len(stream) - cursor}
        /\ \A y \in {ReadCount, Len(stream) - cursor} : least <= y
    BY TransportAssumption
  <2>2. \A y \in {ReadCount, Len(stream) - cursor} : Fresh <= y
    BY <2>1 DEF Fresh, Min
  <2>3. QED BY <2>2
<1>3. Fresh \in Nat /\ cursor + Fresh <= Len(stream)
  BY <1>1, <1>2, TransportAssumption
<1>4. NewMessages \in [1 .. Fresh -> cursor + 1 .. cursor + Fresh]
  BY <1>3 DEF NewMessages
<1>5. NewMessages \in Seq(cursor + 1 .. cursor + Fresh) /\ Len(NewMessages) = Fresh
  BY <1>3, <1>4
<1>6. \A i \in 1 .. Fresh : NewMessages[i] = cursor + i
  BY DEF NewMessages
<1>7. Range(NewMessages) = cursor + 1 .. cursor + Fresh
  <2>1. ASSUME NEW k \in cursor + 1 .. cursor + Fresh PROVE k \in Range(NewMessages)
    <3>1. k - cursor \in 1 .. Fresh /\ NewMessages[k - cursor] = k
      BY <1>3, <1>6
    <3>2. QED BY <1>4, <3>1 DEF Range
  <2>2. Range(NewMessages) \subseteq cursor + 1 .. cursor + Fresh
    BY <1>4 DEF Range
  <2>3. QED BY <2>1, <2>2
<1>8. QED BY <1>3, <1>4, <1>5, <1>6, <1>7

\* A record of what was handled is put behind the earlier ones.
LEMMA AppendFacts ==
    ASSUME NEW S, NEW s \in Seq(S), NEW x \in S
    PROVE  /\ Append(s, x) \in Seq(S)
           /\ DOMAIN s = 1 .. Len(s) /\ Len(s) \in Nat
           /\ DOMAIN Append(s, x) = DOMAIN s \cup {Len(s) + 1}
           /\ \A i \in DOMAIN s : Append(s, x)[i] = s[i] /\ i < Len(s) + 1
           /\ Append(s, x)[Len(s) + 1] = x
OBVIOUS

\* The tail of a batch is the batch without its first message.
LEMMA TailFacts ==
    ASSUME NEW S, NEW s \in Seq(S), 1 \in DOMAIN s
    PROVE  /\ Tail(s) \in Seq(S) /\ Head(s) = s[1]
           /\ \A i \in DOMAIN Tail(s) :
                 i + 1 \in DOMAIN s /\ Tail(s)[i] = s[i + 1] /\ i \in Nat /\ i >= 1
           /\ 1 \in DOMAIN Tail(s) <=> Len(s) # 1
<1>1. Len(s) \in Nat /\ Len(s) >= 1 /\ DOMAIN s = 1 .. Len(s)
  OBVIOUS
<1>2. Tail(s) \in Seq(S) /\ Len(Tail(s)) = Len(s) - 1
  OBVIOUS
<1>3. DOMAIN Tail(s) = 1 .. Len(s) - 1
  BY <1>1, <1>2
<1>4. Head(s) = s[1]
  BY <1>1
<1>5. \A i \in DOMAIN Tail(s) : i + 1 \in DOMAIN s /\ Tail(s)[i] = s[i + 1] /\ i \in Nat /\ i >= 1
  BY <1>1, <1>3
<1>6. 1 \in DOMAIN Tail(s) <=> Len(s) # 1
  BY <1>1, <1>3
<1>7. QED BY <1>2, <1>4, <1>5, <1>6

\* Later entries are also within a larger bound.
LEMMA WiderSeq ==
    ASSUME NEW m \in Nat, NEW n \in Nat, m <= n
    PROVE  /\ Seq(1 .. m) \subseteq Seq(1 .. n)
           /\ Seq([entry: 1 .. m, as: Outcomes]) \subseteq Seq([entry: 1 .. n, as: Outcomes])
<1>1. 1 .. m \subseteq 1 .. n
  OBVIOUS
<1>2. [entry: 1 .. m, as: Outcomes] \subseteq [entry: 1 .. n, as: Outcomes]
  BY <1>1
<1>3. ASSUME NEW S, NEW T, S \subseteq T PROVE Seq(S) \subseteq Seq(T)
  <2>1. ASSUME NEW s \in Seq(S) PROVE s \in Seq(T)
    <3>1. s \in [1 .. Len(s) -> S] /\ Len(s) \in Nat
      OBVIOUS
    <3>2. s \in [1 .. Len(s) -> T]
      BY <1>3, <3>1
    <3>3. QED BY <3>1, <3>2
  <2>2. QED BY <2>1
<1>4. QED BY <1>1, <1>2, <1>3

\* What a process handled was delivered.
LEMMA HandledRange ==
    ASSUME Shape, NEW p \in Procs
    PROVE  /\ HandledBy(p) \subseteq 1 .. cursor
           /\ \A i \in DOMAIN handled[p] : handled[p][i].entry \in 1 .. cursor
<1>1. ASSUME NEW S, NEW s \in Seq(S) PROVE \A i \in DOMAIN s : s[i] \in S
  BY <1>1
<1>2. handled[p] \in Seq([entry: 1 .. cursor, as: Outcomes])
  BY DEF Shape
<1>3. \A i \in DOMAIN handled[p] : handled[p][i] \in [entry: 1 .. cursor, as: Outcomes]
  BY <1>1, <1>2
<1>4. \A i \in DOMAIN handled[p] : handled[p][i].entry \in 1 .. cursor
  BY <1>3
<1>5. QED BY <1>4 DEF HandledBy

-----------------------------------------------------------------------------
(* The invariant is inductive. *)

\* No message is in hand, and nothing was handled, in the beginning.
LEMMA InvInit == Init => IInv
<1> SUFFICES ASSUME Init PROVE IInv
  OBVIOUS
<1>1. \A p \in Procs : handled[p] = <<>> /\ DOMAIN handled[p] = {} /\ HandledBy(p) = {}
  BY DEF Init, HandledBy
<1>2. \A t \in Threads : at[t] = "off" /\ batch[t] = <<>> /\ DOMAIN batch[t] = {}
  BY DEF Init
<1>3. Shape
  <2>1. stream \in Seq(Procs) /\ cursor \in Nat /\ cursor <= Len(stream) /\ pel \subseteq 1 .. cursor
    BY DEF Init
  <2>2. at \in [Threads -> Places]
    BY DEF Init, Places
  <2>3. batch \in [Threads -> Seq(1 .. cursor)]
    BY DEF Init
  <2>4. handled \in [Procs -> Seq([entry: 1 .. cursor, as: Outcomes])]
    BY DEF Init
  <2>5. QED BY <2>1, <2>2, <2>3, <2>4 DEF Shape
<1>4. Hands /\ Progress /\ Order
  BY <1>1, <1>2 DEF Hands, Progress, Order, Waits
<1>5. AtMostOneBus /\ HeardInOrder
  BY <1>1 DEF AtMostOneBus, HandledOnce, NotEchoed, HeardInOrder
<1>6. AckedWasHandled
  BY DEF AckedWasHandled, Init
<1>7. QED BY <1>3, <1>4, <1>5, <1>6 DEF IInv

\* What the invariant says does not depend on the connection and the control flags.
LEMMA Untouched ==
    ASSUME IInv, UNCHANGED <<stream, cursor, pel, at, batch, handled, overlap>>
    PROVE  IInv'
<1>1. Shape' /\ Hands'
  <2>1. Shape'
    BY DEF IInv, Shape
  <2>2. Hands'
    BY DEF IInv, Hands
  <2>3. QED BY <2>1, <2>2
<1>2. \A p : HandledBy(p)' = HandledBy(p)
  BY DEF HandledBy
<1>3. \A t, i : Waits(t, i)' <=> Waits(t, i)
  BY DEF Waits
<1>4. Progress' /\ Order'
  BY <1>2, <1>3 DEF IInv, Progress, Order
<1>5. AtMostOneBus' /\ AckedWasHandled' /\ HeardInOrder'
  BY <1>2 DEF IInv, AtMostOneBus, HandledOnce, NotEchoed, AckedWasHandled, HeardInOrder
<1>6. QED BY <1>1, <1>4, <1>5 DEF IInv

\* A new entry lies behind all that were delivered.
LEMMA PublishStep == ASSUME IInv, NEW p \in Procs, Publish(p) PROVE IInv'
<1>1. /\ stream' = Append(stream, p)
      /\ UNCHANGED <<cursor, pel, at, batch, handled, overlap>>
  BY DEF Publish, groupVars, ctlVars
<1>2. /\ stream' \in Seq(Procs) /\ Len(stream') = Len(stream) + 1
      /\ \A k \in 1 .. cursor : stream'[k] = stream[k]
  BY <1>1 DEF IInv, Shape
<1>3. Shape'
  <2>1. cursor \in Nat /\ cursor <= Len(stream) /\ Len(stream) \in Nat
    BY DEF IInv, Shape
  <2>2. cursor' \in Nat /\ cursor' <= Len(stream')
    BY <1>1, <1>2, <2>1
  <2>3. QED BY <1>1, <1>2, <2>2 DEF IInv, Shape
<1>4. Hands' /\ Progress' /\ Order' /\ AckedWasHandled' /\ HeardInOrder'
  BY <1>1 DEF IInv, Hands, Progress, Order, Waits, HandledBy, AckedWasHandled, HeardInOrder
<1>5. AtMostOneBus'
  <2>1. ASSUME NEW q \in Procs, NEW i \in DOMAIN handled[q] PROVE handled[q][i].entry \in 1 .. cursor
    BY HandledRange DEF IInv
  <2>2. \A q \in Procs : \A i \in DOMAIN handled[q] :
            stream'[handled[q][i].entry] = stream[handled[q][i].entry]
    BY <1>2, <2>1
  <2>3. NotEchoed'
    <3>1. \A q \in Procs : \A i \in DOMAIN handled[q] :
              handled[q][i].as # "own" => stream'[handled[q][i].entry] # q
      BY <2>2 DEF IInv, AtMostOneBus, NotEchoed
    <3>2. QED BY <1>1, <3>1 DEF NotEchoed
  <2>4. HandledOnce'
    BY <1>1 DEF IInv, AtMostOneBus, HandledOnce
  <2>5. QED BY <2>3, <2>4 DEF AtMostOneBus
<1>6. QED BY <1>3, <1>4, <1>5 DEF IInv

\* A thread that has no message in hand moves to a place where it has none: it ends,
\* resumes, or is started alone or by a process that overlaps from now on.
LEMMA IdleMove ==
    ASSUME IInv, NEW t \in Threads, NEW place \in {"off", "read", "backoff"},
           at[t] \in {"off", "read", "backoff"}, at' = [at EXCEPT ![t] = place],
           UNCHANGED <<stream, cursor, pel, batch, handled>>,
           overlap \subseteq overlap',
           \/ place = "off" \/ at[t] # "off"
           \/ t[1] \in overlap' \/ \A u \in ThreadsOf(t[1]) : at[u] = "off"
    PROVE  IInv'
<1>1. at \in [Threads -> Places]
  BY DEF IInv, Shape
<1>2. at'[t] = place /\ \A u \in Threads : u # t => at'[u] = at[u]
  BY <1>1
<1>3. Shape' /\ AtMostOneBus' /\ AckedWasHandled'
  <2>1. Shape'
    BY DEF IInv, Shape, Places
  <2>2. QED BY <2>1 DEF IInv, AtMostOneBus, HandledOnce, NotEchoed, AckedWasHandled, HandledBy
<1>4. \A u \in Threads : at'[u] \in {"handle", "ack"} <=> at[u] \in {"handle", "ack"}
  BY <1>2
<1>5. \A u \in Threads : at[u] \in {"handle", "ack"} => at'[u] = at[u]
  BY <1>2
<1>6. Hands'
  BY <1>4 DEF IInv, Hands
<1>7. ASSUME NEW u \in Threads, NEW i \in Nat, Waits(u, i)' PROVE Waits(u, i)
  BY <1>2, <1>7 DEF Waits
<1>8. Progress'
  BY <1>2, <1>7 DEF IInv, Progress, HandledBy
<1>9. \A u, v \in Threads :
          u[1] = v[1] /\ u[1] \notin overlap' /\ at'[u] # "off" /\ at'[v] # "off" => u = v
  BY <1>2 DEF IInv, Order, ThreadsOf
<1>10. Order'
  <2>1. \A p : HandledBy(p)' = HandledBy(p)
    BY DEF HandledBy
  <2>2. \A u \in Threads : \A i, j \in DOMAIN batch'[u] : i < j => batch'[u][i] < batch'[u][j]
    BY DEF IInv, Order
  <2>3. \A u \in Threads, i \in Nat : Waits(u, i)' /\ u[1] \notin overlap' =>
            \A e \in HandledBy(u[1]) : e < batch'[u][i]
    BY <1>7 DEF IInv, Order
  <2>4. QED BY <1>9, <2>1, <2>2, <2>3 DEF Order
<1>11. HeardInOrder'
  BY DEF IInv, HeardInOrder
<1>12. QED BY <1>3, <1>6, <1>8, <1>10, <1>11 DEF IInv

\* A listener starts in a free slot.
LEMMA StartStep == ASSUME IInv, NEW p \in Procs, StartListener(p) PROVE IInv'
<1> DEFINE slot == CHOOSE s \in FreeSlots(p) : TRUE
<1>1. slot \in FreeSlots(p)
  BY DEF StartListener
<1>2. <<p, slot>> \in Threads /\ at[<<p, slot>>] = "off"
  BY <1>1, TransportAssumption DEF FreeSlots, ThreadsOf
<1>3. /\ at' = [at EXCEPT ![<<p, slot>>] = "read"]
      /\ UNCHANGED <<stream, cursor, pel, batch, handled>>
      /\ overlap' = IF AllOff(p) THEN overlap ELSE overlap \cup {p}
  BY DEF StartListener, groupVars
<1>4. overlap \subseteq overlap' /\ (p \in overlap' \/ AllOff(p))
  BY <1>3
<1>5. QED BY <1>2, <1>3, <1>4, IdleMove DEF AllOff

\* A delivery keeps what the invariant says of the group and of what was handled.
LEMMA Delivery ==
    ASSUME IInv, cursor' = Advanced(NewMessages), pel' = Pending(NewMessages),
           UNCHANGED <<stream, handled>>
    PROVE  /\ Fresh \in Nat /\ cursor' = cursor + Fresh /\ cursor' <= Len(stream')
           /\ pel' = pel \cup (cursor + 1 .. cursor + Fresh) /\ pel' \subseteq 1 .. cursor'
           /\ batch \in [Threads -> Seq(1 .. cursor')]
           /\ handled \in [Procs -> Seq([entry: 1 .. cursor', as: Outcomes])]
           /\ AtMostOneBus' /\ AckedWasHandled' /\ \A p : HandledBy(p)' = HandledBy(p)
<1>1. stream \in Seq(Procs) /\ cursor \in Nat /\ cursor <= Len(stream)
  BY DEF IInv, Shape
<1>2. Fresh \in Nat /\ cursor' = cursor + Fresh /\ cursor' <= Len(stream')
  BY <1>1, NewFacts DEF Advanced
<1>3. pel' = pel \cup (cursor + 1 .. cursor + Fresh)
  BY <1>1, NewFacts DEF Pending
<1>4. pel' \subseteq 1 .. cursor'
  BY <1>1, <1>2, <1>3 DEF IInv, Shape
<1>5. /\ batch \in [Threads -> Seq(1 .. cursor')]
      /\ handled \in [Procs -> Seq([entry: 1 .. cursor', as: Outcomes])]
  <2>1. cursor' \in Nat /\ cursor <= cursor'
    BY <1>1, <1>2
  <2>2. /\ Seq(1 .. cursor) \subseteq Seq(1 .. cursor')
        /\ Seq([entry: 1 .. cursor, as: Outcomes]) \subseteq Seq([entry: 1 .. cursor', as: Outcomes])
    BY <1>1, <2>1, WiderSeq
  <2>3. QED BY <2>2 DEF IInv, Shape
<1>6. \A p : HandledBy(p)' = HandledBy(p)
  BY DEF HandledBy
<1>7. AtMostOneBus'
  BY DEF IInv, AtMostOneBus, HandledOnce, NotEchoed
<1>8. AckedWasHandled'
  <2>1. ASSUME NEW k \in 1 .. cursor', k \notin pel' PROVE k \in 1 .. cursor /\ k \notin pel
    BY <1>1, <1>2, <1>3, <2>1
  <2>2. QED BY <1>6, <2>1 DEF IInv, AckedWasHandled
<1>9. QED BY <1>2, <1>3, <1>4, <1>5, <1>6, <1>7, <1>8

\* A successful read: its messages lie behind everything in hand or handled.
LEMMA ReadStep == ASSUME IInv, NEW t \in Threads, Read(t) PROVE IInv'
<1>1. /\ at[t] = "read" /\ Fresh > 0
      /\ cursor' = Advanced(NewMessages) /\ pel' = Pending(NewMessages)
      /\ batch' = [batch EXCEPT ![t] = NewMessages]
      /\ at' = [at EXCEPT ![t] = "handle"]
      /\ UNCHANGED <<stream, handled, overlap>>
  BY DEF Read, ctlVars
<1>2. /\ Fresh \in Nat /\ cursor' = cursor + Fresh /\ cursor' <= Len(stream')
      /\ pel' = pel \cup (cursor + 1 .. cursor + Fresh) /\ pel' \subseteq 1 .. cursor'
      /\ batch \in [Threads -> Seq(1 .. cursor')]
      /\ handled \in [Procs -> Seq([entry: 1 .. cursor', as: Outcomes])]
      /\ AtMostOneBus' /\ AckedWasHandled' /\ \A p : HandledBy(p)' = HandledBy(p)
  BY <1>1, Delivery
<1>3. cursor \in Nat /\ at \in [Threads -> Places] /\ batch \in [Threads -> Seq(1 .. cursor)]
  BY DEF IInv, Shape
<1>4. /\ NewMessages \in Seq(cursor + 1 .. cursor + Fresh)
      /\ DOMAIN NewMessages = 1 .. Fresh
      /\ \A i \in 1 .. Fresh : NewMessages[i] = cursor + i
  BY NewFacts DEF IInv, Shape
<1>5. /\ batch'[t] = NewMessages /\ at'[t] = "handle"
      /\ \A u \in Threads : u # t => batch'[u] = batch[u] /\ at'[u] = at[u]
  BY <1>1, <1>3
<1>6. \A u \in Threads : \A i \in DOMAIN batch[u] : batch[u][i] \in 1 .. cursor
  BY <1>3
<1>7. \A p \in Procs : HandledBy(p) \subseteq 1 .. cursor
  BY HandledRange DEF IInv
<1>8. Shape'
  <2>1. NewMessages \in Seq(1 .. cursor')
    <3>1. NewMessages \in [1 .. Fresh -> 1 .. cursor']
      BY <1>2, <1>3, <1>4
    <3>2. QED BY <1>2, <3>1
  <2>2. batch' \in [Threads -> Seq(1 .. cursor')]
    BY <1>1, <1>2, <2>1
  <2>3. at' \in [Threads -> Places]
    BY <1>1, <1>3 DEF Places
  <2>4. stream' \in Seq(Procs) /\ cursor' \in Nat
    BY <1>1, <1>2, <1>3 DEF IInv, Shape
  <2>5. QED BY <1>1, <1>2, <2>2, <2>3, <2>4 DEF Shape
<1>9. Hands'
  <2>1. \A u \in Threads : at'[u] \in {"handle", "ack"} <=> 1 \in DOMAIN batch'[u]
    BY <1>1, <1>2, <1>4, <1>5 DEF IInv, Hands
  <2>2. ASSUME NEW u \in Threads, NEW i \in DOMAIN batch'[u] PROVE batch'[u][i] \in pel'
    <3>1. CASE u = t
      <4>1. i \in 1 .. Fresh /\ batch'[u][i] = cursor + i
        BY <1>4, <1>5, <3>1
      <4>2. cursor + i \in cursor + 1 .. cursor + Fresh
        BY <1>2, <1>3, <4>1
      <4>3. QED BY <1>2, <4>1, <4>2
    <3>2. CASE u # t
      BY <1>2, <1>5, <3>2 DEF IInv, Hands
    <3>3. QED BY <3>1, <3>2
  <2>3. ASSUME NEW u \in Threads, NEW v \in Threads, NEW i \in DOMAIN batch'[u],
               NEW j \in DOMAIN batch'[v], batch'[u][i] = batch'[v][j]
        PROVE  u = v /\ i = j
    <3>1. CASE u = t /\ v = t
      <4>1. i \in 1 .. Fresh /\ j \in 1 .. Fresh /\ batch'[t][i] = cursor + i /\ batch'[t][j] = cursor + j
        BY <1>4, <1>5, <2>3, <3>1
      <4>2. cursor + i = cursor + j
        BY <2>3, <3>1, <4>1
      <4>3. i = j
        BY <1>2, <1>3, <4>1, <4>2
      <4>4. QED BY <3>1, <4>3
    <3>2. CASE u # t /\ v # t
      BY <1>5, <2>3, <3>2 DEF IInv, Hands
    <3>3. CASE (u = t /\ v # t) \/ (u # t /\ v = t)
      <4>1. \A k \in DOMAIN batch'[t] : batch'[t][k] > cursor /\ batch'[t][k] \in Nat
        BY <1>2, <1>3, <1>4, <1>5
      <4>2. \A w \in Threads : w # t => \A k \in DOMAIN batch'[w] : batch'[w][k] \in 1 .. cursor
        BY <1>5, <1>6
      <4>3. QED BY <1>3, <2>3, <3>3, <4>1, <4>2
    <3>4. QED BY <3>1, <3>2, <3>3
  <2>4. QED BY <2>1, <2>2, <2>3 DEF Hands
<1>10. ASSUME NEW u \in Threads, NEW i \in Nat, Waits(u, i)'
       PROVE  \/ u # t /\ Waits(u, i) /\ batch'[u][i] = batch[u][i]
              \/ u = t /\ batch'[u][i] > cursor /\ batch'[u][i] \in Nat
  <2>1. CASE u = t
    <3>1. i \in 1 .. Fresh /\ batch'[u][i] = cursor + i
      BY <1>4, <1>5, <1>10, <2>1 DEF Waits
    <3>2. QED BY <1>2, <1>3, <2>1, <3>1
  <2>2. CASE u # t
    BY <1>5, <1>10, <2>2 DEF Waits
  <2>3. QED BY <2>1, <2>2
<1>11. Progress'
  <2>1. ASSUME NEW u \in Threads, NEW i \in Nat, NEW p \in Procs, Waits(u, i)'
        PROVE  batch'[u][i] \notin HandledBy(p)
    <3>1. CASE u # t /\ Waits(u, i) /\ batch'[u][i] = batch[u][i]
      BY <3>1 DEF IInv, Progress
    <3>2. CASE batch'[u][i] > cursor
      BY <1>3, <1>7, <3>2
    <3>3. QED BY <1>10, <2>1, <3>1, <3>2
  <2>2. \A u \in Threads : at'[u] = "ack" => batch'[u][1] \in HandledBy(u[1])
    BY <1>5 DEF IInv, Progress
  <2>3. QED BY <1>2, <2>1, <2>2 DEF Progress
<1>12. Order'
  <2>1. \A u, v \in Threads :
            u[1] = v[1] /\ u[1] \notin overlap' /\ at'[u] # "off" /\ at'[v] # "off" => u = v
    BY <1>1, <1>5 DEF IInv, Order
  <2>2. \A u \in Threads : \A i, j \in DOMAIN batch'[u] : i < j => batch'[u][i] < batch'[u][j]
    <3>1. \A i, j \in DOMAIN batch'[t] : i < j => batch'[t][i] < batch'[t][j]
      BY <1>2, <1>3, <1>4, <1>5
    <3>2. \A u \in Threads : u # t =>
              \A i, j \in DOMAIN batch'[u] : i < j => batch'[u][i] < batch'[u][j]
      BY <1>5 DEF IInv, Order
    <3>3. QED BY <3>1, <3>2
  <2>3. ASSUME NEW u \in Threads, NEW i \in Nat, Waits(u, i)', u[1] \notin overlap',
               NEW e \in HandledBy(u[1])
        PROVE  e < batch'[u][i]
    <3>1. u[1] \in Procs
      BY TransportAssumption
    <3>2. QED BY <1>1, <1>3, <1>7, <1>10, <2>3, <3>1 DEF IInv, Order
  <2>4. QED BY <1>2, <2>1, <2>2, <2>3 DEF Order
<1>13. HeardInOrder'
  BY <1>1 DEF IInv, HeardInOrder
<1>14. QED BY <1>2, <1>8, <1>9, <1>11, <1>12, <1>13 DEF IInv

\* Handling the first message of a batch: no process handled it before, and a process
\* that never had two listeners handled only earlier ones.
LEMMA HandleStep == ASSUME IInv, NEW t \in Threads, Handle(t) PROVE IInv'
<1> DEFINE p == t[1]
           k == batch[t][1]
           x == [entry |-> k, as |-> Outcome(p, k)]
           last == Len(handled[p]) + 1
<1>1. /\ at \in [Threads -> Places] /\ batch \in [Threads -> Seq(1 .. cursor)]
      /\ handled \in [Procs -> Seq([entry: 1 .. cursor, as: Outcomes])]
      /\ cursor \in Nat /\ p \in Procs /\ at[t] = "handle"
  BY TransportAssumption DEF IInv, Shape, Handle
<1>2. 1 \in DOMAIN batch[t] /\ Head(batch[t]) = k /\ k \in 1 .. cursor
  BY <1>1 DEF IInv, Hands
<1>3. /\ handled' = [handled EXCEPT ![p] = Append(@, x)]
      /\ at' = [at EXCEPT ![t] = "ack"]
      /\ UNCHANGED <<stream, cursor, pel, batch, overlap>>
  BY <1>2 DEF Handle, groupVars, ctlVars
<1>4. x \in [entry: 1 .. cursor, as: Outcomes]
  BY <1>2 DEF Outcome, Outcomes
<1>5. handled[p] \in Seq([entry: 1 .. cursor, as: Outcomes])
  BY <1>1
<1>6. /\ handled'[p] = Append(handled[p], x)
      /\ \A q \in Procs : q # p => handled'[q] = handled[q]
      /\ at'[t] = "ack" /\ \A u \in Threads : u # t => at'[u] = at[u]
  BY <1>1, <1>3
<1>7. /\ handled'[p] \in Seq([entry: 1 .. cursor, as: Outcomes])
      /\ Len(handled[p]) \in Nat
      /\ DOMAIN handled'[p] = DOMAIN handled[p] \cup {Len(handled[p]) + 1}
      /\ \A i \in DOMAIN handled[p] :
            handled'[p][i] = handled[p][i] /\ i < Len(handled[p]) + 1 /\ i \in Nat
      /\ handled'[p][Len(handled[p]) + 1] = x
  BY <1>4, <1>5, <1>6, AppendFacts
<1>8. ASSUME NEW q \in Procs, NEW i \in DOMAIN handled'[q]
       PROVE  \/ q = p /\ i = last /\ handled'[q][i] = x
              \/ i \in DOMAIN handled[q] /\ handled'[q][i] = handled[q][i] /\ ~(q = p /\ i = last)
  <2> HIDE DEF p, x
  <2>1. CASE q = p
    <3>1. i \in DOMAIN handled[p] \/ i = last
      BY <1>7, <2>1
    <3>2. QED BY <1>7, <2>1, <3>1
  <2>2. CASE q # p
    BY <1>6, <2>2
  <2>3. QED BY <2>1, <2>2
<1>9. x.entry = k
  OBVIOUS
<1>10. HandledBy(p)' = HandledBy(p) \cup {k}
  <2> HIDE DEF k, x, p
  <2>1. \A i \in DOMAIN handled'[p] : handled'[p][i].entry \in HandledBy(p) \cup {k}
    BY <1>1, <1>8, <1>9 DEF HandledBy
  <2>2. \A i \in DOMAIN handled[p] : i \in DOMAIN handled'[p] /\ handled'[p][i] = handled[p][i]
    BY <1>7
  <2>3. last \in DOMAIN handled'[p] /\ handled'[p][last].entry = k
    BY <1>7, <1>9
  <2>4. HandledBy(p)' = {handled'[p][i].entry : i \in DOMAIN handled'[p]}
    BY DEF HandledBy
  <2>5. HandledBy(p)' \subseteq HandledBy(p) \cup {k}
    BY <2>1, <2>4
  <2>6. HandledBy(p) \subseteq HandledBy(p)'
    BY <2>2, <2>4 DEF HandledBy
  <2>7. k \in HandledBy(p)'
    BY <2>3, <2>4
  <2>8. QED BY <2>5, <2>6, <2>7
<1>11. \A q \in Procs : q # p => HandledBy(q)' = HandledBy(q)
  BY <1>6 DEF HandledBy
<1>12. Waits(t, 1)
  BY <1>1, <1>2 DEF Waits
<1>13. \A q \in Procs : k \notin HandledBy(q)
  BY <1>12 DEF IInv, Progress
<1>14. ASSUME NEW u \in Threads, NEW i \in Nat, Waits(u, i)'
       PROVE  Waits(u, i) /\ ~(u = t /\ i = 1) /\ batch[u][i] # k
  <2>1. Waits(u, i) /\ ~(u = t /\ i = 1)
    BY <1>3, <1>6, <1>14, <1>1 DEF Waits
  <2>2. QED BY <1>2, <2>1 DEF IInv, Hands, Waits
<1>15. Shape'
  <2>1. handled' \in [Procs -> Seq([entry: 1 .. cursor', as: Outcomes])]
    BY <1>1, <1>3, <1>6, <1>7
  <2>2. at' \in [Threads -> Places]
    BY <1>1, <1>3 DEF Places
  <2>3. QED BY <1>3, <2>1, <2>2 DEF IInv, Shape
<1>16. Hands'
  BY <1>1, <1>3, <1>6 DEF IInv, Hands
<1>17. Progress'
  <2>1. ASSUME NEW u \in Threads, NEW i \in Nat, NEW q \in Procs, Waits(u, i)'
        PROVE  batch[u][i] \notin HandledBy(q)'
    BY <1>10, <1>11, <1>14, <2>1 DEF IInv, Progress
  <2>2. ASSUME NEW u \in Threads, at'[u] = "ack" PROVE batch[u][1] \in HandledBy(u[1])'
    <3>1. u[1] \in Procs
      BY TransportAssumption
    <3>2. CASE u = t
      BY <1>10, <3>2
    <3>3. CASE u # t
      BY <1>6, <1>10, <1>11, <2>2, <3>1, <3>3 DEF IInv, Progress
    <3>4. QED BY <3>2, <3>3
  <2>3. QED BY <1>3, <2>1, <2>2 DEF Progress
<1>18. Order'
  <2>1. \A u, v \in Threads :
            u[1] = v[1] /\ u[1] \notin overlap' /\ at'[u] # "off" /\ at'[v] # "off" => u = v
    BY <1>1, <1>3, <1>6 DEF IInv, Order
  <2>2. \A u \in Threads : \A i, j \in DOMAIN batch'[u] : i < j => batch'[u][i] < batch'[u][j]
    BY <1>3 DEF IInv, Order
  <2>3. ASSUME NEW u \in Threads, NEW i \in Nat, Waits(u, i)', u[1] \notin overlap,
               NEW e \in HandledBy(u[1])'
        PROVE  e < batch[u][i]
    <3>1. Waits(u, i) /\ ~(u = t /\ i = 1) /\ u[1] \in Procs
      BY <1>14, <2>3, TransportAssumption
    <3>2. CASE e \in HandledBy(u[1])
      BY <2>3, <3>1, <3>2 DEF IInv, Order
    <3>3. CASE e \notin HandledBy(u[1])
      <4>1. e = k /\ u[1] = p
        BY <1>10, <1>11, <2>3, <3>1, <3>3
      <4>2. 1 \in DOMAIN batch[u] /\ at[u] # "off"
        <5>1. batch[u] \in Seq(1 .. cursor) /\ i \in DOMAIN batch[u]
          BY <1>1, <3>1 DEF Waits
        <5>2. 1 \in DOMAIN batch[u]
          BY <5>1
        <5>3. QED BY <5>2 DEF IInv, Hands
      <4>3. u = t
        BY <1>1, <2>3, <4>1, <4>2 DEF IInv, Order
      <4>4. i \in DOMAIN batch[t] /\ 1 < i
        BY <1>1, <3>1, <4>3 DEF Waits
      <4>5. QED BY <1>2, <4>1, <4>3, <4>4 DEF IInv, Order
    <3>4. QED BY <3>2, <3>3
  <2>4. QED BY <1>3, <2>1, <2>2, <2>3 DEF Order
<1>19. AtMostOneBus'
  <2>1. \A q \in Procs : \A i \in DOMAIN handled[q] : handled[q][i].entry # k
    BY <1>13 DEF HandledBy
  <2>2. HandledOnce'
    <3> SUFFICES ASSUME NEW q \in Procs, NEW r \in Procs, NEW i \in DOMAIN handled'[q],
                        NEW j \in DOMAIN handled'[r],
                        handled'[q][i].entry = handled'[r][j].entry
                 PROVE  q = r /\ i = j
      BY DEF HandledOnce
    <3>1. \/ q = p /\ i = last /\ handled'[q][i].entry = k
          \/ i \in DOMAIN handled[q] /\ handled'[q][i] = handled[q][i]
      BY <1>8, <1>9
    <3>2. \/ r = p /\ j = last /\ handled'[r][j].entry = k
          \/ j \in DOMAIN handled[r] /\ handled'[r][j] = handled[r][j]
      BY <1>8, <1>9
    <3>3. QED BY <2>1, <3>1, <3>2 DEF IInv, AtMostOneBus, HandledOnce
  <2>3. NotEchoed'
    <3>1. ASSUME NEW q \in Procs, NEW i \in DOMAIN handled'[q], handled'[q][i].as # "own"
          PROVE  stream[handled'[q][i].entry] # q
      <4>1. CASE q = p /\ i = last
        BY <1>7, <3>1, <4>1 DEF Outcome, IsOwn
      <4>2. CASE ~(q = p /\ i = last)
        BY <1>8, <3>1, <4>2 DEF IInv, AtMostOneBus, NotEchoed
      <4>3. QED BY <4>1, <4>2
    <3>2. QED BY <1>3, <3>1 DEF NotEchoed
  <2>4. QED BY <2>2, <2>3 DEF AtMostOneBus
<1>20. AckedWasHandled'
  <2>1. \A q \in Procs : HandledBy(q) \subseteq HandledBy(q)'
    BY <1>10, <1>11
  <2>2. QED BY <1>3, <2>1 DEF IInv, AckedWasHandled
<1>21. HeardInOrder'
  <2>1. \A e \in HandledBy(p) : p \notin overlap => e < k
    BY <1>12 DEF IInv, Order
  <2>2. \A i \in DOMAIN handled[p] : p \notin overlap => handled[p][i].entry < k
    BY <2>1 DEF HandledBy
  <2>3. ASSUME NEW q \in Procs \ overlap, NEW i \in DOMAIN handled'[q],
               NEW j \in DOMAIN handled'[q], i < j
        PROVE  handled'[q][i].entry < handled'[q][j].entry
    <3>1. CASE q = p
      <4>1. i \in DOMAIN handled[p] /\ handled'[q][i] = handled[p][i]
        <5> HIDE DEF x, p
        <5>1. j = last \/ j \in DOMAIN handled[p]
          BY <1>7, <2>3, <3>1
        <5>2. j \in Nat /\ j <= last /\ last \in Nat
          BY <1>7, <5>1
        <5>3. i # last
          BY <2>3, <5>2
        <5>4. QED BY <1>8, <2>3, <3>1, <5>3
      <4>2. CASE j = last
        BY <1>7, <1>9, <2>2, <2>3, <3>1, <4>1, <4>2
      <4>3. CASE j # last
        <5>1. j \in DOMAIN handled[p] /\ handled'[q][j] = handled[p][j]
          BY <1>7, <2>3, <3>1, <4>3
        <5>2. QED BY <2>3, <3>1, <4>1, <5>1 DEF IInv, HeardInOrder
      <4>4. QED BY <4>2, <4>3
    <3>2. CASE q # p
      BY <1>6, <2>3, <3>2 DEF IInv, HeardInOrder
    <3>3. QED BY <3>1, <3>2
  <2>4. QED BY <1>3, <2>3 DEF HeardInOrder
<1>22. QED BY <1>15, <1>16, <1>17, <1>18, <1>19, <1>20, <1>21 DEF IInv

\* Acknowledging the first message, which was handled, and going on with the tail.
LEMMA AckStep == ASSUME IInv, NEW t \in Threads, Ack(t) PROVE IInv'
<1> DEFINE k == batch[t][1]
<1>1. /\ at \in [Threads -> Places] /\ batch \in [Threads -> Seq(1 .. cursor)]
      /\ batch[t] \in Seq(1 .. cursor) /\ cursor \in Nat /\ at[t] = "ack" /\ t[1] \in Procs
  BY TransportAssumption DEF IInv, Shape, Ack
<1>2. 1 \in DOMAIN batch[t]
  BY <1>1 DEF IInv, Hands
<1>3. /\ Tail(batch[t]) \in Seq(1 .. cursor) /\ Head(batch[t]) = k
      /\ \A i \in DOMAIN Tail(batch[t]) :
            i + 1 \in DOMAIN batch[t] /\ Tail(batch[t])[i] = batch[t][i + 1] /\ i \in Nat /\ i >= 1
      /\ 1 \in DOMAIN Tail(batch[t]) <=> Len(batch[t]) # 1
  BY <1>1, <1>2, TailFacts
<1>4. /\ pel' = pel \ {k} /\ batch' = [batch EXCEPT ![t] = Tail(batch[t])]
      /\ at' = [at EXCEPT ![t] = IF Len(batch[t]) = 1 THEN Round(t[1]) ELSE "handle"]
      /\ UNCHANGED <<stream, cursor, handled, overlap>>
  BY <1>3 DEF Ack, ctlVars
<1>5. /\ batch'[t] = Tail(batch[t])
      /\ \A u \in Threads : u # t => batch'[u] = batch[u] /\ at'[u] = at[u]
      /\ at'[t] = IF Len(batch[t]) = 1 THEN Round(t[1]) ELSE "handle"
  BY <1>1, <1>4
<1>6. at'[t] = "handle" \/ (at'[t] \in {"off", "read"} /\ Len(batch[t]) = 1)
  BY <1>5 DEF Round
<1>7. \A p : HandledBy(p)' = HandledBy(p)
  BY <1>4 DEF HandledBy
<1>8. Shape'
  <2>1. batch' \in [Threads -> Seq(1 .. cursor')]
    BY <1>1, <1>3, <1>4
  <2>2. at' \in [Threads -> Places]
    BY <1>1, <1>4 DEF Round, Places
  <2>3. QED BY <1>4, <2>1, <2>2 DEF IInv, Shape
<1>9. ASSUME NEW u \in Threads, NEW i \in DOMAIN batch'[u]
      PROVE  \E h \in DOMAIN batch[u] :
                /\ batch'[u][i] = batch[u][h]
                /\ h = IF u = t THEN i + 1 ELSE i
                /\ ~(u = t /\ h = 1)
  <2>1. CASE u = t
    <3>1. i \in DOMAIN Tail(batch[t]) /\ batch'[u][i] = Tail(batch[t])[i]
      BY <1>5, <2>1
    <3>2. i + 1 \in DOMAIN batch[t] /\ batch'[u][i] = batch[t][i + 1] /\ i + 1 # 1
      BY <1>3, <3>1
    <3>3. QED BY <2>1, <3>2
  <2>2. CASE u # t
    BY <1>5, <2>2
  <2>3. QED BY <2>1, <2>2
<1>10. Hands'
  <2>1. \A u \in Threads : at'[u] \in {"handle", "ack"} <=> 1 \in DOMAIN batch'[u]
    <3>1. at'[t] \in {"handle", "ack"} <=> 1 \in DOMAIN batch'[t]
      BY <1>3, <1>5, <1>6 DEF Round
    <3>2. QED BY <1>5, <3>1 DEF IInv, Hands
  <2>2. ASSUME NEW u \in Threads, NEW i \in DOMAIN batch'[u] PROVE batch'[u][i] \in pel'
    BY <1>2, <1>4, <1>9 DEF IInv, Hands
  <2>3. ASSUME NEW u \in Threads, NEW v \in Threads, NEW i \in DOMAIN batch'[u],
               NEW j \in DOMAIN batch'[v], batch'[u][i] = batch'[v][j]
        PROVE  u = v /\ i = j
    <3>1. PICK g \in DOMAIN batch[u] : batch'[u][i] = batch[u][g] /\ g = IF u = t THEN i + 1 ELSE i
      BY <1>9
    <3>2. PICK h \in DOMAIN batch[v] : batch'[v][j] = batch[v][h] /\ h = IF v = t THEN j + 1 ELSE j
      BY <1>9
    <3>3. u = v /\ g = h
      <4>1. batch[u][g] = batch[v][h]
        BY <2>3, <3>1, <3>2
      <4>2. QED BY <4>1 DEF IInv, Hands
    <3>4. CASE u = t
      BY <1>3, <1>5, <3>1, <3>2, <3>3, <3>4
    <3>5. CASE u # t
      BY <3>1, <3>2, <3>3, <3>5
    <3>6. QED BY <3>4, <3>5
  <2>4. QED BY <2>1, <2>2, <2>3 DEF Hands
<1>11. ASSUME NEW u \in Threads, NEW i \in Nat, Waits(u, i)'
       PROVE  \E h \in Nat : Waits(u, h) /\ batch'[u][i] = batch[u][h]
  <2>1. CASE u = t
    <3>1. i \in DOMAIN Tail(batch[t]) /\ batch'[u][i] = Tail(batch[t])[i]
      BY <1>5, <1>11, <2>1 DEF Waits
    <3>2. i + 1 \in DOMAIN batch[t] /\ batch'[u][i] = batch[t][i + 1] /\ i + 1 > 1 /\ i + 1 \in Nat
      BY <1>3, <3>1
    <3>3. Waits(u, i + 1)
      BY <2>1, <3>2 DEF Waits
    <3>4. QED BY <2>1, <3>2, <3>3
  <2>2. CASE u # t
    BY <1>5, <1>11, <2>2 DEF Waits
  <2>3. QED BY <2>1, <2>2
<1>12. Progress'
  <2>1. \A u \in Threads, i \in Nat, p \in Procs : Waits(u, i)' => batch'[u][i] \notin HandledBy(p)
    BY <1>11 DEF IInv, Progress
  <2>2. \A u \in Threads : at'[u] = "ack" => batch'[u][1] \in HandledBy(u[1])
    BY <1>5, <1>6 DEF IInv, Progress
  <2>3. QED BY <1>7, <2>1, <2>2 DEF Progress
<1>13. Order'
  <2>1. \A u, v \in Threads :
            u[1] = v[1] /\ u[1] \notin overlap' /\ at'[u] # "off" /\ at'[v] # "off" => u = v
    BY <1>1, <1>4, <1>5 DEF IInv, Order
  <2>2. ASSUME NEW u \in Threads, NEW i \in DOMAIN batch'[u], NEW j \in DOMAIN batch'[u], i < j
        PROVE  batch'[u][i] < batch'[u][j]
    <3>1. CASE u = t
      <4>1. /\ i + 1 \in DOMAIN batch[t] /\ j + 1 \in DOMAIN batch[t] /\ i + 1 < j + 1
            /\ batch'[u][i] = batch[t][i + 1] /\ batch'[u][j] = batch[t][j + 1]
        <5>1. i \in DOMAIN Tail(batch[t]) /\ j \in DOMAIN Tail(batch[t])
          BY <1>5, <3>1
        <5>2. /\ i + 1 \in DOMAIN batch[t] /\ j + 1 \in DOMAIN batch[t] /\ i \in Nat /\ j \in Nat
              /\ Tail(batch[t])[i] = batch[t][i + 1] /\ Tail(batch[t])[j] = batch[t][j + 1]
          BY <1>3, <5>1
        <5>3. i + 1 < j + 1
          BY <2>2, <5>2
        <5>4. QED BY <1>5, <3>1, <5>2, <5>3
      <4>2. QED BY <4>1 DEF IInv, Order
    <3>2. CASE u # t
      BY <1>5, <2>2, <3>2 DEF IInv, Order
    <3>3. QED BY <3>1, <3>2
  <2>3. \A u \in Threads, i \in Nat : Waits(u, i)' /\ u[1] \notin overlap' =>
            \A e \in HandledBy(u[1]) : e < batch'[u][i]
    BY <1>4, <1>11 DEF IInv, Order
  <2>4. QED BY <1>7, <2>1, <2>2, <2>3 DEF Order
<1>14. AtMostOneBus' /\ HeardInOrder'
  <2>1. AtMostOneBus'
    BY <1>4 DEF IInv, AtMostOneBus, HandledOnce, NotEchoed
  <2>2. QED BY <1>4, <2>1 DEF IInv, HeardInOrder
<1>15. AckedWasHandled'
  <2>1. k \in HandledBy(t[1])
    BY <1>1 DEF IInv, Progress
  <2>2. QED BY <1>1, <1>4, <1>7, <2>1 DEF IInv, AckedWasHandled
<1>16. QED BY <1>8, <1>10, <1>12, <1>13, <1>14, <1>15 DEF IInv

\* A failure: what the thread had in hand is forgotten, and pending unless handled.
LEMMA FailStep == ASSUME IInv, NEW t \in Threads, Fail(t) PROVE IInv'
<1>1. /\ at \in [Threads -> Places] /\ batch \in [Threads -> Seq(1 .. cursor)]
      /\ handled \in [Procs -> Seq([entry: 1 .. cursor, as: Outcomes])]
      /\ cursor \in Nat /\ cursor <= Len(stream) /\ at[t] \in {"read", "ack"}
      /\ stream \in Seq(Procs) /\ t[1] \in Procs
  BY TransportAssumption DEF IInv, Shape, Fail
<1>2. /\ batch' = [batch EXCEPT ![t] = <<>>]
      /\ at' = [at EXCEPT ![t] = IF running[t[1]] THEN "backoff" ELSE "off"]
      /\ UNCHANGED <<stream, handled, overlap>>
  BY DEF Fail, ctlVars
<1>3. /\ batch'[t] = <<>> /\ DOMAIN batch'[t] = {}
      /\ \A u \in Threads : u # t => batch'[u] = batch[u] /\ at'[u] = at[u]
      /\ at'[t] \in {"backoff", "off"}
  BY <1>1, <1>2
<1>4. \A p : HandledBy(p)' = HandledBy(p)
  BY <1>2 DEF HandledBy
<1>5. /\ cursor' \in Nat /\ cursor' <= Len(stream') /\ pel' \subseteq 1 .. cursor'
      /\ batch \in [Threads -> Seq(1 .. cursor')]
      /\ handled' \in [Procs -> Seq([entry: 1 .. cursor', as: Outcomes])]
      /\ \A u \in Threads : u # t => \A i \in DOMAIN batch[u] : batch[u][i] \in pel'
      /\ AckedWasHandled'
  <2>1. CASE UNCHANGED groupVars
    BY <1>1, <1>2, <1>4, <2>1 DEF groupVars, IInv, Shape, Hands, AckedWasHandled
  <2>2. CASE cursor' = Advanced(NewMessages) /\ pel' = Pending(NewMessages)
    <3>1. /\ cursor' <= Len(stream') /\ Fresh \in Nat /\ cursor' = cursor + Fresh
          /\ pel \subseteq pel' /\ pel' \subseteq 1 .. cursor'
          /\ batch \in [Threads -> Seq(1 .. cursor')]
          /\ handled \in [Procs -> Seq([entry: 1 .. cursor', as: Outcomes])]
          /\ AckedWasHandled'
      BY <1>2, <2>2, Delivery
    <3>2. cursor' \in Nat
      BY <1>1, <3>1
    <3>3. \A u \in Threads : \A i \in DOMAIN batch[u] : batch[u][i] \in pel'
      BY <3>1 DEF IInv, Hands
    <3>4. QED BY <1>2, <3>1, <3>2, <3>3
  <2>3. CASE at[t] = "ack" /\ pel' = pel \ {Head(batch[t])} /\ UNCHANGED cursor
    <3>1. 1 \in DOMAIN batch[t] /\ Head(batch[t]) = batch[t][1]
      BY <1>1, <2>3 DEF IInv, Hands
    <3>2. batch[t][1] \in HandledBy(t[1])
      BY <2>3 DEF IInv, Progress
    <3>3. \A u \in Threads : u # t => \A i \in DOMAIN batch[u] : batch[u][i] \in pel'
      BY <2>3, <3>1 DEF IInv, Hands
    <3>4. AckedWasHandled'
      BY <1>1, <1>4, <2>3, <3>1, <3>2 DEF IInv, AckedWasHandled
    <3>5. pel' \subseteq 1 .. cursor'
      BY <2>3 DEF IInv, Shape
    <3>6. QED BY <1>1, <1>2, <2>3, <3>3, <3>4, <3>5
  <2>4. QED BY <2>1, <2>2, <2>3 DEF Fail
<1>6. Shape'
  <2>1. batch' \in [Threads -> Seq(1 .. cursor')]
    BY <1>2, <1>5
  <2>2. at' \in [Threads -> Places]
    BY <1>1, <1>2 DEF Places
  <2>3. QED BY <1>1, <1>2, <1>5, <2>1, <2>2 DEF Shape
<1>7. Hands'
  <2>1. \A u \in Threads : at'[u] \in {"handle", "ack"} <=> 1 \in DOMAIN batch'[u]
    BY <1>3 DEF IInv, Hands
  <2>2. \A u \in Threads : \A i \in DOMAIN batch'[u] : batch'[u][i] \in pel'
    BY <1>3, <1>5
  <2>3. \A u, v \in Threads : \A i \in DOMAIN batch'[u], j \in DOMAIN batch'[v] :
            batch'[u][i] = batch'[v][j] => u = v /\ i = j
    BY <1>3 DEF IInv, Hands
  <2>4. QED BY <2>1, <2>2, <2>3 DEF Hands
<1>8. ASSUME NEW u \in Threads, NEW i \in Nat, Waits(u, i)'
      PROVE  u # t /\ Waits(u, i) /\ batch'[u][i] = batch[u][i]
  BY <1>3, <1>8 DEF Waits
<1>9. Progress'
  <2>1. \A u \in Threads, i \in Nat, p \in Procs : Waits(u, i)' => batch'[u][i] \notin HandledBy(p)
    BY <1>8 DEF IInv, Progress
  <2>2. \A u \in Threads : at'[u] = "ack" => batch'[u][1] \in HandledBy(u[1])
    BY <1>3 DEF IInv, Progress
  <2>3. QED BY <1>4, <2>1, <2>2 DEF Progress
<1>10. Order'
  <2>1. \A u, v \in Threads :
            u[1] = v[1] /\ u[1] \notin overlap' /\ at'[u] # "off" /\ at'[v] # "off" => u = v
    BY <1>1, <1>2, <1>3 DEF IInv, Order
  <2>2. \A u \in Threads : \A i, j \in DOMAIN batch'[u] : i < j => batch'[u][i] < batch'[u][j]
    BY <1>3 DEF IInv, Order
  <2>3. \A u \in Threads, i \in Nat : Waits(u, i)' /\ u[1] \notin overlap' =>
            \A e \in HandledBy(u[1]) : e < batch'[u][i]
    BY <1>2, <1>8 DEF IInv, Order
  <2>4. QED BY <1>4, <2>1, <2>2, <2>3 DEF Order
<1>11. AtMostOneBus' /\ HeardInOrder'
  <2>1. AtMostOneBus'
    BY <1>2 DEF IInv, AtMostOneBus, HandledOnce, NotEchoed
  <2>2. QED BY <1>2, <2>1 DEF IInv, HeardInOrder
<1>12. QED BY <1>5, <1>6, <1>7, <1>9, <1>10, <1>11 DEF IInv

\* Every step keeps the invariant.
LEMMA InvStep == IInv /\ [Next]_vars => IInv'
<1> SUFFICES ASSUME IInv, [Next]_vars PROVE IInv'
  OBVIOUS
<1>1. ASSUME NEW p \in Procs, Publish(p) PROVE IInv'
  BY <1>1, PublishStep
<1>2. ASSUME NEW p \in Procs, Connect(p) \/ RequestStop(p) \/ StopReturns(p) PROVE IInv'
  BY <1>2, Untouched DEF Connect, RequestStop, StopReturns, groupVars, ctlVars
<1>3. ASSUME NEW p \in Procs, StartListener(p) PROVE IInv'
  BY <1>3, StartStep
<1>4. ASSUME NEW t \in Threads, LeaveLoop(t) PROVE IInv'
  BY <1>4, IdleMove DEF LeaveLoop, groupVars, ctlVars
<1>5. ASSUME NEW t \in Threads, Resume(t) PROVE IInv'
  <2>1. PICK place \in {"off", "read"} : at' = [at EXCEPT ![t] = place]
    BY <1>5 DEF Resume, Round
  <2>2. QED BY <1>5, <2>1, IdleMove DEF Resume, groupVars, ctlVars
<1>6. ASSUME NEW t \in Threads, Read(t) PROVE IInv'
  BY <1>6, ReadStep
<1>7. ASSUME NEW t \in Threads, Handle(t) PROVE IInv'
  BY <1>7, HandleStep
<1>8. ASSUME NEW t \in Threads, Ack(t) PROVE IInv'
  BY <1>8, AckStep
<1>9. ASSUME NEW t \in Threads, Fail(t) PROVE IInv'
  BY <1>9, FailStep
<1>10. CASE UNCHANGED vars
  BY <1>10, Untouched DEF vars, groupVars, ctlVars
<1>11. QED
  BY <1>1, <1>2, <1>3, <1>4, <1>5, <1>6, <1>7, <1>8, <1>9, <1>10 DEF Next, Listen

LEMMA Inductive == Spec => []IInv
BY InvInit, InvStep, PTL DEF Spec

\* An event is handled at most once, by one process, and not by the bus it came from
\* (redis_transport.py:327-356).
THEOREM OneBus == Spec => []AtMostOneBus
<1>1. IInv => AtMostOneBus
  BY DEF IInv
<1>2. QED BY <1>1, Inductive, PTL

\* What the group no longer holds as pending was handled (redis_transport.py:336-361).
THEOREM AckedHandled == Spec => []AckedWasHandled
<1>1. IInv => AckedWasHandled
  BY DEF IInv
<1>2. QED BY <1>1, Inductive, PTL

\* One listener at a time hears events in stream order (redis_transport.py:309-361).
THEOREM HeardOrdered == Spec => []HeardInOrder
<1>1. IInv => HeardInOrder
  BY DEF IInv
<1>2. QED BY <1>1, Inductive, PTL

-----------------------------------------------------------------------------
(* The tool bridge. *)

Boxes == [agent : BridgeAgents, log : Nat, before : SUBSET Nat]
BridgeNodes ==
  [at : {"idle", "create", "register", "know", "lookup", "inject", "runs", "calls"},
   agent : BridgeAgents \cup {""}, role : DOMAIN BridgeRoles \cup {"guest", ""}, box : Nat, next : Nat, taken : Nat,
   tool : Nat, toolBox : Nat, from : Nat, mine : Nat, done : Nat, met : SUBSET Nat, shared : BOOLEAN]
Traces == [box : Nat, steps : Nat, from : Nat, mine : Nat, done : Nat, shared : BOOLEAN]
Strays == [own : DOMAIN tbBoxes, box : Nat, through : {"context", "registry"}, met : BOOLEAN]

BridgeTyped ==
  /\ tbBoxes \in Seq(Boxes) /\ tbKnown \in [BridgeAgents -> 0 .. Len(tbBoxes)]
  /\ tbTools \in [DOMAIN BridgeTools -> 0 .. Len(tbBoxes)] /\ tbContext \in 0 .. Len(tbBoxes)
  /\ tbNode \in [BridgeWorkers -> BridgeNodes] /\ tbTraces \in Seq(Traces) /\ tbStray \subseteq Strays

\* A node that has its sandbox.
Has(node) == node.at \in {"inject", "runs", "calls"}
WentFrom(box) == \E s \in tbStray : s.own = box
WentInto(box) == \E s \in tbStray : s.box = box
Log(box) == tbBoxes[box].log
Before(box) == tbBoxes[box].before
\* Where a node is, and what it holds.
NodePlace(node) ==
  /\ node.at # "idle" => node.agent \in BridgeAgents
  /\ node.at = "lookup" => tbKnown[node.agent] # 0
  /\ node.at \in {"register", "know"} \/ Has(node) => node.box \in DOMAIN tbBoxes
  /\ node.at = "register" => node.next \in DOMAIN BridgeTools
  /\ node.at \in {"runs", "calls"} => tbContext \in {node.box} \cup node.met
  /\ node.taken \in {0, node.box} \cup node.met
  /\ node.taken # 0 => node.taken \in DOMAIN tbBoxes /\ Has(node)
  /\ node.at = "calls" =>
       /\ node.tool \in DOMAIN BridgeTools /\ node.toolBox \in DOMAIN tbBoxes
       /\ node.toolBox \notin Before(node.box)
\* What a node did is in its sandbox's log, or went astray.
Logged(node) ==
  IF ~Has(node) THEN node.mine = 0 /\ node.done = 0
  ELSE /\ node.from + node.mine <= Log(node.box) /\ node.mine <= node.done
       /\ node.mine < node.done => WentFrom(node.box)
       /\ Log(node.box) > node.from + node.mine => node.shared \/ WentInto(node.box)

\* A sandbox whose tools are being registered is one thread's, and came before no other.
Registers(w, box) == In(w).at = "register" /\ In(w).box = box
OnesOwn ==
  \A w \in BridgeWorkers, box \in DOMAIN tbBoxes :
    Registers(w, box) =>
      /\ \A a \in BridgeAgents : tbKnown[a] # box
      /\ \A v \in BridgeWorkers \ {w} : In(v).at \in {"register", "know"} \/ Has(In(v)) => In(v).box # box
      /\ \A b \in DOMAIN tbBoxes : box \notin Before(b)
\* No tool acts in a sandbox that was there before one that has registered it.
ToolsAreNewer ==
  \A b \in DOMAIN tbBoxes :
    /\ Before(b) \subseteq DOMAIN tbBoxes
    /\ \A t \in DOMAIN BridgeTools :
         tbTools[t] \notin Before(b) \/ \E w \in BridgeWorkers : Registers(w, b) /\ In(w).next <= t
SharersKnow ==
  \A w, v \in BridgeWorkers : w # v /\ Has(In(w)) /\ Has(In(v)) /\ In(w).box = In(v).box => In(w).shared

BridgeInv ==
  /\ BridgeTyped /\ OnesOwn /\ ToolsAreNewer /\ SharersKnow /\ NodeToolsAreOwn
  /\ \A w \in BridgeWorkers : NodePlace(tbNode[w]) /\ Logged(tbNode[w])

LEMMA BridgeStarts == BridgeInit => BridgeInv
<1> SUFFICES ASSUME BridgeInit PROVE BridgeInv
  OBVIOUS
<1>1. /\ tbBoxes = <<>> /\ tbKnown = [a \in BridgeAgents |-> 0] /\ tbTools = [t \in DOMAIN BridgeTools |-> 0]
      /\ tbContext = 0 /\ tbNode = [w \in BridgeWorkers |-> NoNode] /\ tbTraces = <<>> /\ tbStray = {}
  BY DEF BridgeInit
<1>2. NoNode \in BridgeNodes /\ NoNode.at = "idle"
  BY DEF NoNode, BridgeNodes
<1>3. NoNode.mine = 0 /\ NoNode.done = 0 /\ NoNode.taken = 0
  BY DEF NoNode
<1>4. tbBoxes \in Seq(Boxes) /\ Len(tbBoxes) = 0 /\ DOMAIN tbBoxes = {}
  BY <1>1
<1>5. BridgeTyped
  BY <1>1, <1>2, <1>4 DEF BridgeTyped
<1>6. OnesOwn /\ ToolsAreNewer
  BY <1>4 DEF OnesOwn, ToolsAreNewer
<1>7. SharersKnow
  BY <1>1, <1>2 DEF SharersKnow, Has, In
<1>8. NodeToolsAreOwn
  BY <1>1 DEF NodeToolsAreOwn, StrayIsExplained, TraceIsExplained
<1>9. \A w \in BridgeWorkers : NodePlace(tbNode[w]) /\ Logged(tbNode[w])
  BY <1>1, <1>2, <1>3 DEF NodePlace, Logged, Has
<1>10. QED BY <1>5, <1>6, <1>7, <1>8, <1>9 DEF BridgeInv

LEMMA NodeBecomes ==
    ASSUME BridgeTyped, NEW w \in BridgeWorkers, NEW node \in BridgeNodes, NodeIs(w, node)
    PROVE  /\ tbNode' \in [BridgeWorkers -> BridgeNodes] /\ tbNode'[w] = node
           /\ \A v \in BridgeWorkers : v # w => tbNode'[v] = tbNode[v]
BY DEF BridgeTyped, NodeIs

LEMMA BoxesOf ==
    ASSUME BridgeTyped
    PROVE  /\ Len(tbBoxes) \in Nat /\ DOMAIN tbBoxes = 1 .. Len(tbBoxes)
           /\ \A b \in DOMAIN tbBoxes : tbBoxes[b] \in Boxes /\ Log(b) \in Nat /\ Before(b) \subseteq Nat
<1>1. tbBoxes \in Seq(Boxes)
  BY DEF BridgeTyped
<1>2. Len(tbBoxes) \in Nat /\ DOMAIN tbBoxes = 1 .. Len(tbBoxes)
  BY <1>1
<1>3. \A b \in DOMAIN tbBoxes : tbBoxes[b] \in Boxes
  BY <1>1
<1>4. QED BY <1>2, <1>3 DEF Boxes, Log, Before

\* The number of tools, and the places of the tools.
LEMMA ToolPlaces == Len(BridgeTools) \in Nat /\ Len(BridgeTools) > 0 /\ DOMAIN BridgeTools = 1 .. Len(BridgeTools)
BY BridgeToolsAssumption

LEMMA NodeFields ==
    ASSUME NEW node \in BridgeNodes
    PROVE  /\ node.box \in Nat /\ node.next \in Nat /\ node.taken \in Nat /\ node.tool \in Nat /\ node.toolBox \in Nat
           /\ node.from \in Nat /\ node.mine \in Nat /\ node.done \in Nat /\ node.met \subseteq Nat
           /\ node.shared \in BOOLEAN
BY DEF BridgeNodes

LEMMA ANode ==
    ASSUME BridgeInv, NEW w \in BridgeWorkers
    PROVE  In(w) \in BridgeNodes /\ NodePlace(In(w)) /\ Logged(In(w))
BY DEF BridgeInv, BridgeTyped, In

\* What a node has by its place stays so while sandboxes are only added, and the agents'
\* sandboxes are not taken away.
LEMMA StillPlaced ==
    ASSUME NEW n \in BridgeNodes, NodePlace(n), DOMAIN tbBoxes \subseteq DOMAIN tbBoxes',
           \A b \in DOMAIN tbBoxes : Before(b)' = Before(b),
           \A a \in BridgeAgents : tbKnown[a] # 0 => tbKnown'[a] # 0, tbContext' = tbContext
    PROVE  NodePlace(n)'
<1>1. /\ n.at # "idle" => n.agent \in BridgeAgents
      /\ n.at = "lookup" => tbKnown'[n.agent] # 0
      /\ n.at \in {"register", "know"} \/ Has(n) => n.box \in DOMAIN tbBoxes'
      /\ n.at = "register" => n.next \in DOMAIN BridgeTools
  BY DEF NodePlace, Has
<1>2. /\ n.at \in {"runs", "calls"} => tbContext' \in {n.box} \cup n.met
      /\ n.taken \in {0, n.box} \cup n.met
      /\ n.taken # 0 => n.taken \in DOMAIN tbBoxes' /\ Has(n)
  BY DEF NodePlace
<1>3. n.at = "calls" =>
        /\ n.tool \in DOMAIN BridgeTools /\ n.toolBox \in DOMAIN tbBoxes'
        /\ n.toolBox \notin Before(n.box)'
  BY DEF NodePlace, Has
<1>4. QED BY <1>1, <1>2, <1>3 DEF NodePlace, Has

LEMMA StillLogged ==
    ASSUME NEW n \in BridgeNodes, Logged(n), NodePlace(n), \A b \in DOMAIN tbBoxes : Log(b)' = Log(b), tbStray \subseteq tbStray'
    PROVE  Logged(n)'
<1>1. CASE ~Has(n)
  BY <1>1 DEF Logged, Has
<1>2. CASE Has(n)
  <2>1. Log(n.box)' = Log(n.box)
    BY <1>2 DEF NodePlace
  <2>2. /\ n.from + n.mine <= Log(n.box) /\ n.mine <= n.done
        /\ n.mine < n.done => WentFrom(n.box)
        /\ Log(n.box) > n.from + n.mine => n.shared \/ WentInto(n.box)
    BY <1>2 DEF Logged
  <2>3. (WentFrom(n.box) => WentFrom(n.box)') /\ (WentInto(n.box) => WentInto(n.box)')
    BY DEF WentFrom, WentInto
  <2>4. QED BY <1>2, <2>1, <2>2, <2>3 DEF Logged, Has
<1>3. QED BY <1>1, <1>2

\* What is on record stays explained while records are only added to.
LEMMA StillExplained ==
    ASSUME BridgeInv, \A b \in DOMAIN tbBoxes : Before(b)' = Before(b),
           tbStray \subseteq tbStray', \A s \in tbStray' \ tbStray :
             IF s.through = "context" THEN s.met ELSE s.box \notin Before(s.own)',
           UNCHANGED tbTraces
    PROVE  NodeToolsAreOwn'
<1>1. StrayIsExplained'
  <2> SUFFICES ASSUME NEW s \in tbStray'
               PROVE  IF s.through = "context" THEN s.met ELSE s.box \notin Before(s.own)'
    BY DEF StrayIsExplained, Before
  <2>1. CASE s \in tbStray
    <3>1. s.own \in DOMAIN tbBoxes
      BY <2>1 DEF BridgeInv, BridgeTyped, Strays
    <3>2. IF s.through = "context" THEN s.met ELSE s.box \notin Before(s.own)
      BY <2>1 DEF BridgeInv, NodeToolsAreOwn, StrayIsExplained, Before
    <3>3. QED BY <3>1, <3>2
  <2>2. QED BY <2>1
<1>2. TraceIsExplained'
  BY DEF BridgeInv, NodeToolsAreOwn, TraceIsExplained
<1>3. QED BY <1>1, <1>2 DEF NodeToolsAreOwn

\* A step in which a node moves on, registers nothing, and at most makes its sandbox known.
LEMMA MoveKeeps ==
    ASSUME BridgeInv, NEW w \in BridgeWorkers, NEW node \in BridgeNodes, NodeIs(w, node),
           UNCHANGED <<tbBoxes, tbTools, tbContext, tbStray>>, tbKnown' \in [BridgeAgents -> 0 .. Len(tbBoxes)],
           \A a \in BridgeAgents : tbKnown'[a] = tbKnown[a] \/ (In(w).at = "know" /\ tbKnown'[a] = In(w).box),
           node.at \notin {"register", "know"}, In(w).at # "register",
           Has(node) => Has(In(w)) /\ node.box = In(w).box /\ node.shared = In(w).shared,
           NodePlace(node)', Logged(node)', tbTraces' \in Seq(Traces), TraceIsExplained'
    PROVE  BridgeInv'
<1>1. BridgeTyped /\ OnesOwn /\ ToolsAreNewer /\ SharersKnow /\ StrayIsExplained
  BY DEF BridgeInv, NodeToolsAreOwn
<1>2. /\ tbNode' \in [BridgeWorkers -> BridgeNodes] /\ tbNode'[w] = node
      /\ \A v \in BridgeWorkers : v # w => tbNode'[v] = tbNode[v]
  BY <1>1, NodeBecomes
<1>3. BridgeTyped'
  BY <1>1, <1>2 DEF BridgeTyped, Strays
<1>4. \A v \in BridgeWorkers : NodePlace(tbNode[v])' /\ Logged(tbNode[v])'
  <2> SUFFICES ASSUME NEW v \in BridgeWorkers PROVE NodePlace(tbNode[v])' /\ Logged(tbNode[v])'
    OBVIOUS
  <2>1. CASE v = w
    BY <1>2, <2>1 DEF NodePlace, Logged, Has, WentFrom, WentInto, Log, Before
  <2>2. CASE v # w
    <3>1. PICK n \in BridgeNodes : n = tbNode[v]
      BY <1>1 DEF BridgeTyped
    <3>2. NodePlace(n) /\ Logged(n)
      BY <3>1 DEF BridgeInv
    <3>3. \A b \in DOMAIN tbBoxes : Before(b)' = Before(b) /\ Log(b)' = Log(b)
      BY DEF Before, Log
    <3>4. \A a \in BridgeAgents : tbKnown[a] # 0 => tbKnown'[a] # 0
      <4>1. In(w).at = "know" => In(w).box # 0
        BY <1>1, ANode, BoxesOf DEF NodePlace
      <4>2. QED BY <4>1
    <3>5. NodePlace(n)' /\ Logged(n)'
      BY <3>2, <3>3, <3>4, StillPlaced, StillLogged
    <3>6. tbNode'[v] = n
      BY <1>2, <2>2, <3>1
    <3>7. QED BY <3>5, <3>6 DEF NodePlace, Logged, Has, WentFrom, WentInto, Log, Before
  <2>3. QED BY <2>1, <2>2
<1>5. \A v \in BridgeWorkers : \A b : (v # w => (Registers(v, b)' <=> Registers(v, b))) /\ ~Registers(w, b)' /\ ~Registers(w, b)
  BY <1>2 DEF Registers, In
<1>6. OnesOwn'
  <2> SUFFICES ASSUME NEW v \in BridgeWorkers, NEW box \in DOMAIN tbBoxes, v # w, Registers(v, box)
               PROVE  /\ \A a \in BridgeAgents : tbKnown'[a] # box
                      /\ \A u \in BridgeWorkers \ {v} :
                           (In(u).at \in {"register", "know"} \/ Has(In(u)) => In(u).box # box)'
                      /\ \A b \in DOMAIN tbBoxes : box \notin Before(b)'
    BY <1>5 DEF OnesOwn
  <2>1. /\ \A a \in BridgeAgents : tbKnown[a] # box
        /\ \A u \in BridgeWorkers \ {v} : In(u).at \in {"register", "know"} \/ Has(In(u)) => In(u).box # box
        /\ \A b \in DOMAIN tbBoxes : box \notin Before(b)
    BY <1>1 DEF OnesOwn
  <2>2. \A a \in BridgeAgents : tbKnown'[a] # box
    BY <2>1
  <2>3. \A u \in BridgeWorkers \ {v} : (In(u).at \in {"register", "know"} \/ Has(In(u)) => In(u).box # box)'
    BY <1>2, <2>1 DEF In, Has
  <2>4. QED BY <2>1, <2>2, <2>3 DEF Before
<1>7. ToolsAreNewer'
  <2>1. ASSUME NEW b \in DOMAIN tbBoxes, NEW t \in DOMAIN BridgeTools
        PROVE  tbTools[t] \notin Before(b) \/ \E v \in BridgeWorkers : Registers(v, b)' /\ In(v)'.next <= t
    <3>1. CASE tbTools[t] \notin Before(b)
      BY <3>1
    <3>2. CASE tbTools[t] \in Before(b)
      <4>1. PICK v \in BridgeWorkers : Registers(v, b) /\ In(v).next <= t
        BY <1>1, <3>2 DEF ToolsAreNewer
      <4>2. v # w
        BY <1>5, <4>1
      <4>3. Registers(v, b)' /\ In(v)'.next <= t
        BY <1>2, <4>1, <4>2 DEF Registers, In
      <4>4. QED BY <4>3
    <3>3. QED BY <3>1, <3>2
  <2>2. \A b \in DOMAIN tbBoxes : Before(b) \subseteq DOMAIN tbBoxes
    BY <1>1 DEF ToolsAreNewer
  <2>3. tbBoxes' = tbBoxes /\ tbTools' = tbTools
    OBVIOUS
  <2>4. QED BY <2>1, <2>2, <2>3 DEF ToolsAreNewer, Before
<1>8. SharersKnow'
  <2> SUFFICES ASSUME NEW u \in BridgeWorkers, NEW v \in BridgeWorkers, u # v, Has(tbNode'[u]), Has(tbNode'[v]),
                      tbNode'[u].box = tbNode'[v].box
               PROVE  tbNode'[u].shared
    BY DEF SharersKnow, In, Has
  <2>1. \A x \in BridgeWorkers : Has(tbNode'[x]) => /\ Has(tbNode[x]) /\ tbNode'[x].box = tbNode[x].box
                                                    /\ tbNode'[x].shared = tbNode[x].shared
    BY <1>2 DEF In
  <2>2. QED BY <1>1, <2>1 DEF SharersKnow, In
<1>9. NodeToolsAreOwn'
  BY <1>1 DEF NodeToolsAreOwn, StrayIsExplained
<1>10. QED BY <1>3, <1>4, <1>6, <1>7, <1>8, <1>9 DEF BridgeInv

\* The traces stay as they are.
LEMMA TracesKeep == ASSUME BridgeInv, UNCHANGED <<tbTraces, tbStray>> PROVE tbTraces' \in Seq(Traces) /\ TraceIsExplained'
BY DEF BridgeInv, BridgeTyped, NodeToolsAreOwn, TraceIsExplained

LEMMA BeginsKeeps ==
    ASSUME BridgeInv, NEW w \in BridgeWorkers, NEW a \in BridgeAgents, NEW r \in DOMAIN BridgeRoles \cup {"guest"},
           NodeBegins(w, a, r)
    PROVE  BridgeInv'
<1>1. PICK place : place = (IF tbKnown[a] = 0 THEN "create" ELSE "lookup")
  OBVIOUS
<1>2. PICK node : node = [NoNode EXCEPT !.at = place, !.agent = a, !.role = r]
  OBVIOUS
<1>3. NodeIs(w, node) /\ In(w).at = "idle" /\ UNCHANGED <<tbBoxes, tbKnown, tbTools, tbContext, tbTraces, tbStray>>
  BY <1>1, <1>2 DEF NodeBegins
<1>4. node \in BridgeNodes /\ node.at = place /\ node.agent = a /\ node.mine = 0 /\ node.done = 0 /\ node.taken = 0
  BY <1>1, <1>2 DEF NoNode, BridgeNodes
<1>5. ~Has(node) /\ NodePlace(node)' /\ Logged(node)'
  BY <1>1, <1>3, <1>4 DEF NodePlace, Logged, Has
<1>6. tbKnown' \in [BridgeAgents -> 0 .. Len(tbBoxes)]
  BY <1>3 DEF BridgeInv, BridgeTyped
<1>7. tbTraces' \in Seq(Traces) /\ TraceIsExplained'
  BY <1>3, TracesKeep
<1>8. node.at \notin {"register", "know"} /\ In(w).at # "register"
  BY <1>1, <1>3, <1>4
<1>9. QED BY <1>3, <1>4, <1>5, <1>6, <1>7, <1>8, MoveKeeps

LEMMA KnowKeeps == ASSUME BridgeInv, NEW w \in BridgeWorkers, KnowSandbox(w) PROVE BridgeInv'
<1>1. PICK old : old = In(w)
  OBVIOUS
<1>2. PICK node : node = [old EXCEPT !.at = "lookup"]
  OBVIOUS
<1>3. /\ old.at = "know" /\ NodeIs(w, node) /\ tbKnown' = [tbKnown EXCEPT ![old.agent] = old.box]
      /\ UNCHANGED <<tbBoxes, tbTools, tbContext, tbTraces, tbStray>>
  BY <1>1, <1>2 DEF KnowSandbox
<1>4. old \in BridgeNodes /\ NodePlace(old) /\ Logged(old) /\ BridgeTyped
  BY <1>1, ANode DEF BridgeInv
<1>5. old.agent \in BridgeAgents /\ old.box \in DOMAIN tbBoxes /\ old.box # 0 /\ old.box \in 0 .. Len(tbBoxes)
      /\ old.mine = 0 /\ old.done = 0 /\ old.taken = 0
  BY <1>3, <1>4, BoxesOf DEF NodePlace, Logged, Has
<1>6. node \in BridgeNodes /\ node.at = "lookup" /\ node.agent = old.agent /\ node.mine = 0 /\ node.done = 0 /\ node.taken = 0
  BY <1>2, <1>4, <1>5 DEF BridgeNodes
<1>7. tbKnown' \in [BridgeAgents -> 0 .. Len(tbBoxes)] /\ tbKnown'[old.agent] = old.box
      /\ \A a \in BridgeAgents : a # old.agent => tbKnown'[a] = tbKnown[a]
  BY <1>3, <1>4, <1>5 DEF BridgeTyped
<1>8. ~Has(node) /\ NodePlace(node)' /\ Logged(node)'
  BY <1>3, <1>5, <1>6, <1>7 DEF NodePlace, Logged, Has
<1>9. tbTraces' \in Seq(Traces) /\ TraceIsExplained'
  BY <1>3, TracesKeep
<1>10. QED BY <1>1, <1>3, <1>6, <1>7, <1>8, <1>9, MoveKeeps

LEMMA TakesKeeps == ASSUME BridgeInv, NEW w \in BridgeWorkers, TakesSandbox(w) PROVE BridgeInv'
<1>1. PICK old : old = In(w)
  OBVIOUS
<1>2. PICK node : node = [old EXCEPT !.taken = tbContext]
  OBVIOUS
<1>3. old.at = "runs" /\ NodeIs(w, node) /\ UNCHANGED <<tbBoxes, tbKnown, tbTools, tbContext, tbTraces, tbStray>>
  BY <1>1, <1>2 DEF TakesSandbox
<1>4. old \in BridgeNodes /\ NodePlace(old) /\ Logged(old) /\ BridgeTyped
  BY <1>1, ANode DEF BridgeInv
<1>5. tbContext \in Nat /\ (tbContext # 0 => tbContext \in DOMAIN tbBoxes) /\ tbContext \in {old.box} \cup old.met
  BY <1>3, <1>4, BoxesOf DEF BridgeTyped, NodePlace
<1>6. /\ node \in BridgeNodes /\ node.at = "runs" /\ node.agent = old.agent /\ node.box = old.box /\ node.met = old.met
      /\ node.taken = tbContext /\ node.from = old.from /\ node.mine = old.mine /\ node.done = old.done
      /\ node.shared = old.shared
  BY <1>2, <1>3, <1>4, <1>5 DEF BridgeNodes
<1>7. NodePlace(node)'
  BY <1>3, <1>4, <1>5, <1>6 DEF NodePlace, Has
<1>8. Logged(node)'
  BY <1>3, <1>4, <1>6 DEF Logged, Has, Log, WentFrom, WentInto
<1>9. tbTraces' \in Seq(Traces) /\ TraceIsExplained' /\ tbKnown' \in [BridgeAgents -> 0 .. Len(tbBoxes)]
  BY <1>3, <1>4, TracesKeep DEF BridgeTyped
<1>10. Has(In(w)) /\ node.at \notin {"register", "know"} /\ In(w).at # "register"
  BY <1>1, <1>3, <1>6 DEF Has
<1>11. QED BY <1>1, <1>3, <1>6, <1>7, <1>8, <1>9, <1>10, MoveKeeps

LEMMA TakesToolKeeps ==
    ASSUME BridgeInv, NEW w \in BridgeWorkers, NEW tool \in DOMAIN BridgeTools, TakesTool(w, tool) PROVE BridgeInv'
<1>1. PICK old : old = In(w)
  OBVIOUS
<1>2. PICK box : box = tbTools[tool]
  OBVIOUS
<1>3. PICK node : node = [old EXCEPT !.at = "calls", !.tool = tool, !.toolBox = box]
  OBVIOUS
<1>4. /\ old.at = "runs" /\ box # 0 /\ NodeIs(w, node)
      /\ UNCHANGED <<tbBoxes, tbKnown, tbTools, tbContext, tbTraces, tbStray>>
  BY <1>1, <1>2, <1>3 DEF TakesTool
<1>5. old \in BridgeNodes /\ NodePlace(old) /\ Logged(old) /\ BridgeTyped /\ OnesOwn /\ ToolsAreNewer
  BY <1>1, ANode DEF BridgeInv
<1>6. tool \in Nat /\ box \in DOMAIN tbBoxes /\ box \in Nat /\ old.box \in DOMAIN tbBoxes
  BY <1>2, <1>4, <1>5, BoxesOf, ToolPlaces DEF BridgeTyped, NodePlace, Has
<1>7. box \notin Before(old.box)
  <2>1. \A v \in BridgeWorkers : ~Registers(v, old.box)
    <3> SUFFICES ASSUME NEW v \in BridgeWorkers, Registers(v, old.box) PROVE FALSE
      OBVIOUS
    <3>1. v # w
      BY <1>1, <1>4 DEF Registers
    <3>2. In(w).box # old.box
      BY <1>1, <1>4, <1>5, <1>6, <3>1 DEF OnesOwn, Has
    <3>3. QED BY <1>1, <3>2
  <2>2. QED BY <1>2, <1>5, <1>6, <2>1 DEF ToolsAreNewer
<1>8. /\ node \in BridgeNodes /\ node.at = "calls" /\ node.agent = old.agent /\ node.box = old.box /\ node.met = old.met
      /\ node.taken = old.taken /\ node.from = old.from /\ node.mine = old.mine /\ node.done = old.done
      /\ node.shared = old.shared /\ node.tool = tool /\ node.toolBox = box
  BY <1>3, <1>5, <1>6 DEF BridgeNodes
<1>9. NodePlace(node)'
  BY <1>4, <1>5, <1>6, <1>7, <1>8 DEF NodePlace, Has, Before
<1>10. Logged(node)'
  BY <1>4, <1>5, <1>8 DEF Logged, Has, Log, WentFrom, WentInto
<1>11. tbTraces' \in Seq(Traces) /\ TraceIsExplained' /\ tbKnown' \in [BridgeAgents -> 0 .. Len(tbBoxes)]
  BY <1>4, <1>5, TracesKeep DEF BridgeTyped
<1>12. Has(In(w)) /\ node.at \notin {"register", "know"} /\ In(w).at # "register"
  BY <1>1, <1>4, <1>8 DEF Has
<1>13. QED BY <1>1, <1>4, <1>8, <1>9, <1>10, <1>11, <1>12, MoveKeeps

\* A call that is over.
LEMMA ReturnedFields ==
    ASSUME NEW old \in BridgeNodes
    PROVE  /\ Returned(old) \in BridgeNodes /\ Returned(old).at = "runs" /\ Returned(old).agent = old.agent
           /\ Returned(old).box = old.box /\ Returned(old).met = old.met /\ Returned(old).taken = old.taken
           /\ Returned(old).from = old.from /\ Returned(old).mine = old.mine /\ Returned(old).done = old.done
           /\ Returned(old).shared = old.shared
BY DEF Returned, BridgeNodes

LEMMA ReturnedSound ==
    ASSUME NEW old \in BridgeNodes, old.at = "calls", NodePlace(old), Logged(old)
    PROVE  NodePlace(Returned(old)) /\ Logged(Returned(old))
<1>1. PICK node \in BridgeNodes :
        /\ node = Returned(old) /\ node.at = "runs" /\ node.agent = old.agent /\ node.box = old.box /\ node.met = old.met
        /\ node.taken = old.taken /\ node.from = old.from /\ node.mine = old.mine /\ node.done = old.done
        /\ node.shared = old.shared
  BY ReturnedFields
<1>2. NodePlace(node)
  BY <1>1 DEF NodePlace, Has
<1>3. Logged(node)
  BY <1>1 DEF Logged, Has
<1>4. QED BY <1>1, <1>2, <1>3

LEMMA ToolFailsKeeps == ASSUME BridgeInv, NEW w \in BridgeWorkers, ToolFails(w) PROVE BridgeInv'
<1>1. PICK old : old = In(w)
  OBVIOUS
<1>2. old \in BridgeNodes /\ NodePlace(old) /\ Logged(old) /\ BridgeTyped
  BY <1>1, ANode DEF BridgeInv
<1>3. /\ old.at = "calls" /\ NodeIs(w, Returned(old))
      /\ UNCHANGED <<tbBoxes, tbKnown, tbTools, tbContext, tbTraces, tbStray>>
  BY <1>1 DEF ToolFails
<1>4. PICK node \in BridgeNodes :
        /\ node = Returned(old) /\ node.at = "runs" /\ node.box = old.box /\ node.shared = old.shared
  BY <1>2, ReturnedFields
<1>5. NodePlace(node) /\ Logged(node)
  BY <1>2, <1>3, <1>4, ReturnedSound
<1>6. \A b \in DOMAIN tbBoxes : Before(b)' = Before(b) /\ Log(b)' = Log(b)
  BY <1>3 DEF Before, Log
<1>7. NodePlace(node)' /\ Logged(node)'
  BY <1>3, <1>5, <1>6, StillPlaced, StillLogged
<1>8. tbTraces' \in Seq(Traces) /\ TraceIsExplained' /\ tbKnown' \in [BridgeAgents -> 0 .. Len(tbBoxes)]
  BY <1>2, <1>3, TracesKeep DEF BridgeTyped
<1>9. Has(In(w)) /\ node.at \notin {"register", "know"} /\ In(w).at # "register"
  BY <1>1, <1>3, <1>4 DEF Has
<1>10. QED BY <1>1, <1>3, <1>4, <1>7, <1>8, <1>9, MoveKeeps

LEMMA EndsKeeps == ASSUME BridgeInv, NEW w \in BridgeWorkers, NodeEnds(w) PROVE BridgeInv'
<1>1. PICK old : old = In(w)
  OBVIOUS
<1>2. PICK trace :
        trace = [box |-> old.box, steps |-> Log(old.box), from |-> old.from, mine |-> old.mine, done |-> old.done,
                 shared |-> old.shared]
  OBVIOUS
<1>3. /\ old.at = "runs" /\ NodeIs(w, NoNode) /\ tbTraces' = Append(tbTraces, trace)
      /\ UNCHANGED <<tbBoxes, tbKnown, tbTools, tbContext, tbStray>>
  BY <1>1, <1>2 DEF NodeEnds, Log
<1>4. old \in BridgeNodes /\ NodePlace(old) /\ Logged(old) /\ BridgeTyped /\ TraceIsExplained
  BY <1>1, ANode DEF BridgeInv, NodeToolsAreOwn
<1>5. /\ old.from + old.mine <= Log(old.box) /\ (old.mine < old.done => WentFrom(old.box))
      /\ (Log(old.box) > old.from + old.mine => old.shared \/ WentInto(old.box)) /\ old.box \in DOMAIN tbBoxes
  BY <1>3, <1>4 DEF Logged, NodePlace, Has
<1>6. trace \in Traces
  <2>1. Log(old.box) \in Nat
    BY <1>4, <1>5, BoxesOf
  <2>2. QED BY <1>2, <1>4, <2>1, NodeFields DEF Traces
<1>7. tbTraces \in Seq(Traces)
  BY <1>4 DEF BridgeTyped
<1>8. /\ tbTraces' \in Seq(Traces)
      /\ \A i \in DOMAIN tbTraces' : tbTraces'[i] = trace \/ (i \in DOMAIN tbTraces /\ tbTraces'[i] = tbTraces[i])
  BY <1>3, <1>6, <1>7
<1>9. NoNode \in BridgeNodes /\ NoNode.at = "idle" /\ NoNode.mine = 0 /\ NoNode.done = 0 /\ NoNode.taken = 0
  BY DEF NoNode, BridgeNodes
<1>10. ~Has(NoNode) /\ NodePlace(NoNode)' /\ Logged(NoNode)'
  BY <1>9 DEF NodePlace, Logged, Has
<1>11. TraceIsExplained'
  <2> SUFFICES ASSUME NEW i \in DOMAIN tbTraces'
               PROVE  /\ tbTraces'[i].steps >= tbTraces'[i].from + tbTraces'[i].mine
                      /\ tbTraces'[i].mine < tbTraces'[i].done => \E s \in tbStray' : s.own = tbTraces'[i].box
                      /\ tbTraces'[i].steps > tbTraces'[i].from + tbTraces'[i].mine =>
                           tbTraces'[i].shared \/ \E s \in tbStray' : s.box = tbTraces'[i].box
    BY DEF TraceIsExplained
  <2>1. CASE tbTraces'[i] = trace
    <3>1. /\ trace.steps >= trace.from + trace.mine
          /\ trace.mine < trace.done => WentFrom(trace.box)
          /\ trace.steps > trace.from + trace.mine => trace.shared \/ WentInto(trace.box)
      <4>1. old.from \in Nat /\ old.mine \in Nat /\ Log(old.box) \in Nat
        BY <1>4, <1>5, BoxesOf, NodeFields
      <4>2. QED BY <1>2, <1>5, <4>1
    <3>2. QED BY <1>3, <2>1, <3>1 DEF WentFrom, WentInto
  <2>2. CASE i \in DOMAIN tbTraces /\ tbTraces'[i] = tbTraces[i]
    BY <1>3, <1>4, <2>2 DEF TraceIsExplained
  <2>3. QED BY <1>8, <2>1, <2>2
<1>12. tbKnown' \in [BridgeAgents -> 0 .. Len(tbBoxes)]
  BY <1>3, <1>4 DEF BridgeTyped
<1>13. NoNode.at \notin {"register", "know"} /\ In(w).at # "register"
  BY <1>1, <1>3, <1>9
<1>14. QED BY <1>3, <1>8, <1>9, <1>10, <1>11, <1>12, <1>13, MoveKeeps

LEMMA MakeKeeps == ASSUME BridgeInv, NEW w \in BridgeWorkers, MakeSandbox(w) PROVE BridgeInv'
<1>1. PICK old : old = In(w)
  OBVIOUS
<1>2. PICK new : new = Len(tbBoxes) + 1
  OBVIOUS
<1>3. PICK box : box = [agent |-> old.agent, log |-> 0, before |-> DOMAIN tbBoxes \ Registering]
  OBVIOUS
<1>4. /\ BridgeTyped /\ OnesOwn /\ ToolsAreNewer /\ SharersKnow /\ old \in BridgeNodes /\ NodePlace(old) /\ Logged(old)
      /\ Len(tbBoxes) \in Nat /\ DOMAIN tbBoxes = 1 .. Len(tbBoxes) /\ tbBoxes \in Seq(Boxes)
  BY <1>1, ANode, BoxesOf DEF BridgeInv, BridgeTyped
<1>5. old.at = "create" /\ old.agent \in BridgeAgents /\ old.mine = 0 /\ old.done = 0 /\ old.taken = 0
  BY <1>1, <1>4 DEF MakeSandbox, NodePlace, Logged, Has
<1>6. box \in Boxes /\ box.log = 0 /\ box.before = DOMAIN tbBoxes \ Registering
  <2>1. box.before \in SUBSET Nat
    BY <1>3, <1>4
  <2>2. QED BY <1>3, <1>5, <2>1 DEF Boxes
<1>7. tbBoxes' = Append(tbBoxes, box)
  BY <1>1, <1>3 DEF MakeSandbox
<1>8. /\ tbBoxes' \in Seq(Boxes) /\ Len(tbBoxes') = new /\ DOMAIN tbBoxes' = 1 .. new /\ tbBoxes'[new] = box
      /\ \A b \in DOMAIN tbBoxes : b \in DOMAIN tbBoxes' /\ tbBoxes'[b] = tbBoxes[b]
  BY <1>2, <1>4, <1>6, <1>7
<1>9. PICK node : node = [old EXCEPT !.at = "register", !.box = new, !.next = 1]
  OBVIOUS
<1>10. NodeIs(w, node) /\ UNCHANGED <<tbKnown, tbTools, tbContext, tbTraces, tbStray>>
  BY <1>1, <1>8, <1>9 DEF MakeSandbox
<1>11. /\ node \in BridgeNodes /\ node.at = "register" /\ node.box = new /\ node.next = 1 /\ node.agent = old.agent
       /\ node.mine = 0 /\ node.done = 0 /\ node.taken = 0
  <2>1. PICK n \in Nat, one \in Nat : n = new /\ one = 1
    BY <1>2, <1>4
  <2>2. node = [old EXCEPT !.at = "register", !.box = n, !.next = one]
    BY <1>9, <2>1
  <2>3. node \in BridgeNodes
    BY <1>4, <2>2 DEF BridgeNodes
  <2>4. QED BY <1>4, <1>5, <2>1, <2>2, <2>3 DEF BridgeNodes
<1>12. /\ tbNode' \in [BridgeWorkers -> BridgeNodes] /\ tbNode'[w] = node
       /\ \A v \in BridgeWorkers : v # w => tbNode'[v] = tbNode[v]
  BY <1>4, <1>10, <1>11, NodeBecomes
<1>13. \A b \in DOMAIN tbBoxes : Before(b)' = Before(b) /\ Log(b)' = Log(b)
  BY <1>8 DEF Before, Log
<1>14. Before(new)' = DOMAIN tbBoxes \ Registering
  BY <1>6, <1>8 DEF Before
<1>15. BridgeTyped'
  BY <1>2, <1>4, <1>8, <1>10, <1>12 DEF BridgeTyped, Strays
<1>16. \A v \in BridgeWorkers : NodePlace(tbNode[v])' /\ Logged(tbNode[v])'
  <2> SUFFICES ASSUME NEW v \in BridgeWorkers PROVE NodePlace(tbNode[v])' /\ Logged(tbNode[v])'
    OBVIOUS
  <2>1. CASE v = w
    <3>1. NodePlace(node)' /\ Logged(node)'
      BY <1>2, <1>4, <1>5, <1>8, <1>11, ToolPlaces DEF NodePlace, Logged, Has
    <3>2. QED BY <1>12, <2>1, <3>1 DEF NodePlace, Logged, Has, WentFrom, WentInto, Log, Before
  <2>2. CASE v # w
    <3>1. PICK n \in BridgeNodes : n = tbNode[v]
      BY <1>4 DEF BridgeTyped
    <3>2. NodePlace(n) /\ Logged(n)
      BY <3>1 DEF BridgeInv
    <3>3. NodePlace(n)' /\ Logged(n)'
      BY <1>8, <1>10, <1>13, <3>2, StillPlaced, StillLogged
    <3>4. tbNode'[v] = n
      BY <1>12, <2>2, <3>1
    <3>5. QED BY <3>3, <3>4 DEF NodePlace, Logged, Has, WentFrom, WentInto, Log, Before
  <2>3. QED BY <2>1, <2>2
<1>17. \A v \in BridgeWorkers : In(v).at \in {"register", "know"} \/ Has(In(v)) => In(v).box \in DOMAIN tbBoxes
  BY ANode DEF NodePlace
<1>18. /\ \A v \in BridgeWorkers : \A b : v # w => (Registers(v, b)' <=> Registers(v, b))
       /\ \A b : ~Registers(w, b) /\ (Registers(w, b)' <=> b = new)
  BY <1>1, <1>5, <1>11, <1>12 DEF Registers, In
<1>19. new \notin DOMAIN tbBoxes /\ new # 0 /\ \A b \in DOMAIN tbBoxes' : b \in DOMAIN tbBoxes \/ b = new
  BY <1>2, <1>4, <1>8
<1>20. OnesOwn'
  <2>1. ASSUME NEW v \in BridgeWorkers, NEW b \in DOMAIN tbBoxes', Registers(v, b)'
        PROVE  /\ \A a \in BridgeAgents : tbKnown'[a] # b
               /\ \A u \in BridgeWorkers \ {v} :
                    In(u)'.at \in {"register", "know"} \/ Has(In(u)') => In(u)'.box # b
               /\ \A c \in DOMAIN tbBoxes' : b \notin Before(c)'
    <3>1. CASE v = w
      <4>1. b = new
        BY <1>18, <2>1, <3>1
      <4>2. \A a \in BridgeAgents : tbKnown'[a] # b
        BY <1>2, <1>4, <1>10, <4>1 DEF BridgeTyped
      <4>3. \A u \in BridgeWorkers \ {v} :
              In(u)'.at \in {"register", "know"} \/ Has(In(u)') => In(u)'.box # b
        BY <1>12, <1>17, <1>19, <3>1, <4>1 DEF In
      <4>4. \A c \in DOMAIN tbBoxes' : b \notin Before(c)'
        <5>1. \A c \in DOMAIN tbBoxes : Before(c) \subseteq DOMAIN tbBoxes
          BY <1>4 DEF ToolsAreNewer
        <5>2. QED BY <1>13, <1>14, <1>19, <4>1, <5>1
      <4>5. QED BY <4>2, <4>3, <4>4
    <3>2. CASE v # w
      <4>1. Registers(v, b) /\ b \in DOMAIN tbBoxes
        BY <1>17, <1>18, <2>1, <3>2 DEF Registers
      <4>2. /\ \A a \in BridgeAgents : tbKnown[a] # b
            /\ \A u \in BridgeWorkers \ {v} : In(u).at \in {"register", "know"} \/ Has(In(u)) => In(u).box # b
            /\ \A c \in DOMAIN tbBoxes : b \notin Before(c)
        BY <1>4, <4>1 DEF OnesOwn
      <4>3. b \in Registering
        BY <4>1 DEF Registering, Registers
      <4>4. \A u \in BridgeWorkers \ {v} :
              In(u)'.at \in {"register", "know"} \/ Has(In(u)') => In(u)'.box # b
        BY <1>11, <1>12, <1>19, <4>1, <4>2 DEF In
      <4>5. \A c \in DOMAIN tbBoxes' : b \notin Before(c)'
        BY <1>13, <1>14, <1>19, <4>2, <4>3
      <4>6. QED BY <1>10, <4>2, <4>4, <4>5
    <3>3. QED BY <3>1, <3>2
  <2>2. QED BY <2>1 DEF OnesOwn, Has
<1>21. ToolsAreNewer'
  <2>1. ASSUME NEW b \in DOMAIN tbBoxes', NEW t \in DOMAIN BridgeTools
        PROVE  tbTools'[t] \notin Before(b)' \/ \E v \in BridgeWorkers : Registers(v, b)' /\ In(v)'.next <= t
    <3>1. CASE b = new
      <4>1. Registers(w, b)' /\ In(w)'.next <= t
        BY <1>11, <1>12, <1>18, <3>1, ToolPlaces DEF In
      <4>2. QED BY <4>1
    <3>2. CASE b \in DOMAIN tbBoxes /\ tbTools[t] \notin Before(b)
      BY <1>10, <1>13, <3>2
    <3>3. CASE b \in DOMAIN tbBoxes /\ tbTools[t] \in Before(b)
      <4>1. PICK v \in BridgeWorkers : Registers(v, b) /\ In(v).next <= t
        BY <1>4, <3>3 DEF ToolsAreNewer
      <4>2. v # w
        BY <1>18, <4>1
      <4>3. Registers(v, b)' /\ In(v)'.next <= t
        BY <1>12, <1>18, <4>1, <4>2 DEF In
      <4>4. QED BY <4>3
    <3>4. QED BY <1>19, <3>1, <3>2, <3>3
  <2>2. \A b \in DOMAIN tbBoxes' : Before(b)' \subseteq DOMAIN tbBoxes'
    <3>1. \A b \in DOMAIN tbBoxes : Before(b) \subseteq DOMAIN tbBoxes
      BY <1>4 DEF ToolsAreNewer
    <3>2. QED BY <1>8, <1>13, <1>14, <1>19, <3>1
  <2>3. QED BY <2>1, <2>2 DEF ToolsAreNewer
<1>22. SharersKnow'
  <2>1. \A v \in BridgeWorkers : Has(tbNode'[v]) => tbNode'[v] = tbNode[v]
    BY <1>11, <1>12 DEF Has
  <2>2. QED BY <1>4, <2>1 DEF SharersKnow, In, Has
<1>23. NodeToolsAreOwn'
  BY <1>10, <1>13, StillExplained
<1>24. QED BY <1>15, <1>16, <1>20, <1>21, <1>22, <1>23 DEF BridgeInv

LEMMA RegisterToolKeeps == ASSUME BridgeInv, NEW w \in BridgeWorkers, RegisterTool(w) PROVE BridgeInv'
<1>1. PICK old : old = In(w)
  OBVIOUS
<1>2. PICK last \in BOOLEAN : last = (old.next = Len(BridgeTools))
  OBVIOUS
<1>3. PICK node : node = [old EXCEPT !.next = @ + 1, !.at = IF last THEN "know" ELSE @]
  OBVIOUS
<1>4. /\ old.at = "register" /\ NodeIs(w, node) /\ tbTools' = [tbTools EXCEPT ![old.next] = old.box]
      /\ UNCHANGED <<tbBoxes, tbKnown, tbContext, tbTraces, tbStray>>
  BY <1>1, <1>2, <1>3 DEF RegisterTool, Registered
<1>5. /\ BridgeTyped /\ OnesOwn /\ ToolsAreNewer /\ SharersKnow /\ old \in BridgeNodes /\ NodePlace(old) /\ Logged(old)
      /\ Len(tbBoxes) \in Nat /\ DOMAIN tbBoxes = 1 .. Len(tbBoxes)
  BY <1>1, ANode, BoxesOf DEF BridgeInv
<1>6. /\ old.agent \in BridgeAgents /\ old.mine = 0 /\ old.done = 0 /\ old.taken = 0 /\ old.box \in DOMAIN tbBoxes
      /\ old.next \in DOMAIN BridgeTools /\ old.next \in Nat
  BY <1>4, <1>5, ToolPlaces DEF NodePlace, Logged, Has
<1>7. /\ node \in BridgeNodes /\ node.at = (IF last THEN "know" ELSE "register") /\ node.box = old.box
      /\ node.next = old.next + 1 /\ node.agent = old.agent /\ node.mine = 0 /\ node.done = 0 /\ node.taken = 0
  <2>1. PICK n \in Nat, place \in {"know", "register"} : n = old.next + 1 /\ place = (IF last THEN "know" ELSE "register")
    BY <1>6
  <2>2. node = [old EXCEPT !.next = n, !.at = place]
    BY <1>3, <1>4, <2>1
  <2>3. node \in BridgeNodes
    BY <1>5, <2>2 DEF BridgeNodes
  <2>4. QED BY <1>5, <1>6, <2>1, <2>2, <2>3 DEF BridgeNodes
<1>8. /\ tbNode' \in [BridgeWorkers -> BridgeNodes] /\ tbNode'[w] = node
      /\ \A v \in BridgeWorkers : v # w => tbNode'[v] = tbNode[v]
  BY <1>4, <1>5, <1>7, NodeBecomes
<1>9. /\ tbTools' \in [DOMAIN BridgeTools -> 0 .. Len(tbBoxes)] /\ tbTools'[old.next] = old.box
      /\ \A t \in DOMAIN BridgeTools : t # old.next => tbTools'[t] = tbTools[t]
  BY <1>4, <1>5, <1>6 DEF BridgeTyped
<1>10. BridgeTyped'
  BY <1>4, <1>5, <1>8, <1>9 DEF BridgeTyped, Strays
<1>11. \A b \in DOMAIN tbBoxes : Before(b)' = Before(b) /\ Log(b)' = Log(b)
  BY <1>4 DEF Before, Log
<1>12. ~last => old.next < Len(BridgeTools) /\ node.next \in DOMAIN BridgeTools
  <2>1. PICK size \in Nat : size = Len(BridgeTools) /\ DOMAIN BridgeTools = 1 .. size
    BY ToolPlaces
  <2>2. PICK next \in 1 .. size : next = old.next
    BY <1>6, <2>1
  <2>3. next # size => next < size /\ next + 1 \in 1 .. size
    OBVIOUS
  <2>4. last <=> next = size
    BY <1>2, <2>1, <2>2
  <2>5. QED BY <1>7, <2>1, <2>2, <2>3, <2>4
<1>13. \A v \in BridgeWorkers : NodePlace(tbNode[v])' /\ Logged(tbNode[v])'
  <2> SUFFICES ASSUME NEW v \in BridgeWorkers PROVE NodePlace(tbNode[v])' /\ Logged(tbNode[v])'
    OBVIOUS
  <2>1. CASE v = w
    <3>1. NodePlace(node)' /\ Logged(node)'
      BY <1>4, <1>6, <1>7, <1>12 DEF NodePlace, Logged, Has
    <3>2. QED BY <1>8, <2>1, <3>1 DEF NodePlace, Logged, Has, WentFrom, WentInto, Log, Before
  <2>2. CASE v # w
    <3>1. PICK n \in BridgeNodes : n = tbNode[v]
      BY <1>5 DEF BridgeTyped
    <3>2. NodePlace(n) /\ Logged(n)
      BY <3>1 DEF BridgeInv
    <3>3. NodePlace(n)' /\ Logged(n)'
      BY <1>4, <1>11, <3>2, StillPlaced, StillLogged
    <3>4. tbNode'[v] = n
      BY <1>8, <2>2, <3>1
    <3>5. QED BY <3>3, <3>4 DEF NodePlace, Logged, Has, WentFrom, WentInto, Log, Before
  <2>3. QED BY <2>1, <2>2
<1>14. /\ \A v \in BridgeWorkers : \A b : Registers(v, b)' => Registers(v, b)
       /\ \A v \in BridgeWorkers : \A b : v # w => (Registers(v, b)' <=> Registers(v, b))
  BY <1>1, <1>4, <1>7, <1>8 DEF Registers, In
<1>15. \A v \in BridgeWorkers : In(v)'.at \in {"register", "know"} \/ Has(In(v)') =>
                                  (In(v).at \in {"register", "know"} \/ Has(In(v))) /\ In(v)'.box = In(v).box
  BY <1>1, <1>4, <1>7, <1>8 DEF In, Has
<1>16. OnesOwn'
  BY <1>4, <1>5, <1>11, <1>14, <1>15 DEF OnesOwn, Has
<1>17. ToolsAreNewer'
  <2>1. ASSUME NEW b \in DOMAIN tbBoxes, NEW t \in DOMAIN BridgeTools
        PROVE  tbTools'[t] \notin Before(b) \/ \E v \in BridgeWorkers : Registers(v, b)' /\ In(v)'.next <= t
    <3>1. CASE t = old.next
      <4>1. Registers(w, old.box)
        BY <1>1, <1>4 DEF Registers
      <4>2. QED BY <1>5, <1>6, <1>9, <3>1, <4>1 DEF OnesOwn
    <3>2. CASE t # old.next /\ tbTools[t] \notin Before(b)
      BY <1>9, <3>2
    <3>3. CASE t # old.next /\ tbTools[t] \in Before(b)
      <4>1. PICK v \in BridgeWorkers : Registers(v, b) /\ In(v).next <= t
        BY <1>5, <3>3 DEF ToolsAreNewer
      <4>2. CASE v # w
        <5>1. Registers(v, b)' /\ In(v)'.next <= t
          BY <1>8, <1>14, <4>1, <4>2 DEF In
        <5>2. QED BY <5>1
      <4>3. CASE v = w
        <5>1. old.next < t /\ t <= Len(BridgeTools) /\ t \in Nat
          BY <1>1, <1>6, <3>3, <4>1, <4>3, ToolPlaces
        <5>2. ~last
          <6>1. Len(BridgeTools) # old.next
            BY <1>6, <5>1, ToolPlaces
          <6>2. QED BY <1>2, <6>1
        <5>3. Registers(w, b)' /\ In(w)'.next <= t
          BY <1>1, <1>6, <1>7, <1>8, <4>1, <4>3, <5>1, <5>2 DEF Registers, In
        <5>4. QED BY <5>3
      <4>4. QED BY <4>2, <4>3
    <3>4. QED BY <3>1, <3>2, <3>3
  <2>2. \A b \in DOMAIN tbBoxes : Before(b) \subseteq DOMAIN tbBoxes
    BY <1>5 DEF ToolsAreNewer
  <2>3. QED BY <1>4, <1>11, <2>1, <2>2 DEF ToolsAreNewer
<1>18. SharersKnow'
  <2>1. \A v \in BridgeWorkers : Has(tbNode'[v]) => tbNode'[v] = tbNode[v]
    BY <1>7, <1>8 DEF Has
  <2>2. QED BY <1>5, <2>1 DEF SharersKnow, In, Has
<1>19. NodeToolsAreOwn'
  BY <1>4, <1>11, StillExplained
<1>20. QED BY <1>10, <1>13, <1>16, <1>17, <1>18, <1>19 DEF BridgeInv

\* A node that has learned more of the others.
LEMMA WithShared ==
    ASSUME NEW n \in BridgeNodes, NEW shared \in BOOLEAN, n.shared => shared, NodePlace(n), Logged(n),
           NEW more \in BridgeNodes, more = [n EXCEPT !.shared = shared]
    PROVE  /\ more.at = n.at /\ more.box = n.box /\ more.next = n.next /\ more.shared = shared
           /\ NodePlace(more) /\ Logged(more)
<1>1. /\ more.at = n.at /\ more.agent = n.agent /\ more.box = n.box /\ more.next = n.next /\ more.taken = n.taken
      /\ more.tool = n.tool /\ more.toolBox = n.toolBox /\ more.from = n.from /\ more.mine = n.mine
      /\ more.done = n.done /\ more.met = n.met /\ more.shared = shared
  BY DEF BridgeNodes
<1>2. NodePlace(more)
  BY <1>1 DEF NodePlace, Has
<1>3. Logged(more)
  BY <1>1 DEF Logged, Has
<1>4. QED BY <1>1, <1>2, <1>3

LEMMA WithMet ==
    ASSUME NEW n \in BridgeNodes, NEW box \in Nat, Logged(n),
           NEW more, more = [n EXCEPT !.met = @ \cup {box}]
    PROVE  /\ more \in BridgeNodes /\ more.at = n.at /\ more.agent = n.agent /\ more.box = n.box /\ more.next = n.next
           /\ more.taken = n.taken /\ more.tool = n.tool /\ more.toolBox = n.toolBox /\ more.met = n.met \cup {box}
           /\ more.shared = n.shared /\ Logged(more)
<1>1. PICK met \in SUBSET Nat : met = n.met \cup {box}
  BY NodeFields
<1>2. more = [n EXCEPT !.met = met]
  BY <1>1
<1>3. more \in BridgeNodes
  BY <1>2 DEF BridgeNodes
<1>4. /\ more.at = n.at /\ more.agent = n.agent /\ more.box = n.box /\ more.next = n.next /\ more.taken = n.taken
      /\ more.tool = n.tool /\ more.toolBox = n.toolBox /\ more.from = n.from /\ more.mine = n.mine
      /\ more.done = n.done /\ more.met = met /\ more.shared = n.shared
  BY <1>2 DEF BridgeNodes
<1>5. Logged(more)
  BY <1>4 DEF Logged, Has
<1>6. QED BY <1>1, <1>3, <1>4, <1>5

\* A step that changes only what the nodes hold: none begins to register, each keeps the
\* sandbox it has, and a sandbox newly had is the one known for the agent.
LEMMA OwnStay ==
    ASSUME BridgeInv, UNCHANGED <<tbBoxes, tbKnown, tbTools>>,
           \A v \in BridgeWorkers : /\ In(v)'.at = "register" <=> In(v).at = "register"
                                    /\ In(v)'.at = "know" <=> In(v).at = "know"
                                    /\ In(v).at \in {"register", "know"} \/ Has(In(v)) =>
                                         In(v)'.box = In(v).box /\ In(v)'.next = In(v).next
                                    /\ Has(In(v))' =>
                                         Has(In(v)) \/ \E a \in BridgeAgents : tbKnown[a] # 0 /\ In(v)'.box = tbKnown[a]
    PROVE  OnesOwn' /\ ToolsAreNewer'
<1>1. \A v \in BridgeWorkers : \A b : Registers(v, b)' <=> Registers(v, b)
  BY DEF Registers
<1>2. OnesOwn'
  <2>1. ASSUME NEW v \in BridgeWorkers, NEW b \in DOMAIN tbBoxes, Registers(v, b)'
        PROVE  /\ \A a \in BridgeAgents : tbKnown[a] # b
               /\ \A u \in BridgeWorkers \ {v} : In(u)'.at \in {"register", "know"} \/ Has(In(u)') => In(u)'.box # b
               /\ \A c \in DOMAIN tbBoxes : b \notin Before(c)
    <3>1. Registers(v, b)
      BY <1>1, <2>1
    <3>2. /\ \A a \in BridgeAgents : tbKnown[a] # b
          /\ \A u \in BridgeWorkers \ {v} : In(u).at \in {"register", "know"} \/ Has(In(u)) => In(u).box # b
          /\ \A c \in DOMAIN tbBoxes : b \notin Before(c)
      BY <3>1 DEF BridgeInv, OnesOwn
    <3>3. \A u \in BridgeWorkers \ {v} : In(u)'.at \in {"register", "know"} \/ Has(In(u)') => In(u)'.box # b
      BY <3>2 DEF Has
    <3>4. QED BY <3>2, <3>3
  <2>2. QED BY <2>1 DEF OnesOwn, Has, Before
<1>3. ToolsAreNewer'
  <2>1. ASSUME NEW b \in DOMAIN tbBoxes, NEW t \in DOMAIN BridgeTools
        PROVE  tbTools[t] \notin Before(b) \/ \E v \in BridgeWorkers : Registers(v, b)' /\ In(v)'.next <= t
    <3>1. CASE tbTools[t] \notin Before(b)
      BY <3>1
    <3>2. CASE tbTools[t] \in Before(b)
      <4>1. PICK v \in BridgeWorkers : Registers(v, b) /\ In(v).next <= t
        BY <3>2 DEF BridgeInv, ToolsAreNewer
      <4>2. Registers(v, b)' /\ In(v)'.next <= t
        BY <1>1, <4>1 DEF Registers
      <4>3. QED BY <4>2
    <3>3. QED BY <3>1, <3>2
  <2>2. \A b \in DOMAIN tbBoxes : Before(b) \subseteq DOMAIN tbBoxes
    BY DEF BridgeInv, ToolsAreNewer
  <2>3. tbBoxes' = tbBoxes /\ tbTools' = tbTools
    OBVIOUS
  <2>4. QED BY <2>1, <2>2, <2>3 DEF ToolsAreNewer, Before
<1>4. QED BY <1>2, <1>3

LEMMA LookUpKeeps == ASSUME BridgeInv, NEW w \in BridgeWorkers, LookUpSandbox(w) PROVE BridgeInv'
<1>1. PICK old : old = In(w)
  OBVIOUS
<1>2. PICK box : box = tbKnown[old.agent]
  OBVIOUS
<1>3. PICK from : from = Log(box)
  OBVIOUS
<1>4. PICK shared \in BOOLEAN : shared = (Sharers(w, box) # {})
  OBVIOUS
<1>5. PICK node : node = [old EXCEPT !.at = "inject", !.box = box, !.from = from, !.shared = shared]
  OBVIOUS
<1>6. /\ old.at = "lookup"
      /\ tbNode' = [v \in BridgeWorkers |->
           IF v = w THEN node ELSE [In(v) EXCEPT !.shared = @ \/ v \in Sharers(w, box)]]
      /\ UNCHANGED <<tbBoxes, tbKnown, tbTools, tbContext, tbTraces, tbStray>>
  BY <1>1, <1>2, <1>3, <1>4, <1>5 DEF LookUpSandbox, Log
<1>7. BridgeTyped /\ SharersKnow /\ old \in BridgeNodes /\ NodePlace(old) /\ Logged(old)
  BY <1>1, ANode DEF BridgeInv
<1>8. old.agent \in BridgeAgents /\ box # 0 /\ old.mine = 0 /\ old.done = 0 /\ old.taken = 0 /\ old.next \in Nat
  BY <1>2, <1>6, <1>7, NodeFields DEF NodePlace, Logged, Has
<1>9. box \in DOMAIN tbBoxes /\ box \in Nat /\ from \in Nat
  BY <1>2, <1>3, <1>7, <1>8, BoxesOf DEF BridgeTyped
<1>10. /\ node \in BridgeNodes /\ node.at = "inject" /\ node.agent = old.agent /\ node.box = box /\ node.next = old.next
       /\ node.from = from /\ node.mine = 0 /\ node.done = 0 /\ node.taken = 0 /\ node.shared = shared
  <2>1. node \in BridgeNodes
    BY <1>5, <1>7, <1>9 DEF BridgeNodes
  <2>2. QED BY <1>5, <1>7, <1>8, <2>1 DEF BridgeNodes
<1>11. NodePlace(node) /\ Logged(node)
  BY <1>3, <1>8, <1>9, <1>10 DEF NodePlace, Logged, Has
<1>12. tbNode'[w] = node
  BY <1>6
<1>13. ASSUME NEW v \in BridgeWorkers, v # w
       PROVE  /\ tbNode'[v] \in BridgeNodes /\ NodePlace(tbNode'[v]) /\ Logged(tbNode'[v])
              /\ tbNode'[v].at = In(v).at /\ tbNode'[v].box = In(v).box /\ tbNode'[v].next = In(v).next
              /\ tbNode'[v].shared = (In(v).shared \/ v \in Sharers(w, box))
  <2>1. PICK n \in BridgeNodes : n = In(v) /\ NodePlace(n) /\ Logged(n) /\ n.shared \in BOOLEAN
    BY ANode, NodeFields
  <2>2. PICK s \in BOOLEAN : s = (n.shared \/ v \in Sharers(w, box))
    OBVIOUS
  <2>3. PICK more : more = [n EXCEPT !.shared = s]
    OBVIOUS
  <2>4. tbNode'[v] = more
    BY <1>6, <1>13, <2>1, <2>2, <2>3
  <2>5. more \in BridgeNodes
    BY <2>1, <2>3 DEF BridgeNodes
  <2>6. /\ more.at = n.at /\ more.box = n.box /\ more.next = n.next /\ more.shared = s
        /\ NodePlace(more) /\ Logged(more)
    BY <2>1, <2>2, <2>3, <2>5, WithShared
  <2>7. QED BY <2>1, <2>2, <2>4, <2>5, <2>6
<1>14. BridgeTyped'
  <2>1. tbNode' \in [BridgeWorkers -> BridgeNodes]
    BY <1>6, <1>10, <1>12, <1>13
  <2>2. QED BY <1>6, <1>7, <2>1 DEF BridgeTyped, Strays
<1>15. \A b \in DOMAIN tbBoxes : Before(b)' = Before(b) /\ Log(b)' = Log(b)
  BY <1>6 DEF Before, Log
<1>16. \A v \in BridgeWorkers : NodePlace(tbNode[v])' /\ Logged(tbNode[v])'
  <2> SUFFICES ASSUME NEW v \in BridgeWorkers PROVE NodePlace(tbNode[v])' /\ Logged(tbNode[v])'
    OBVIOUS
  <2>1. PICK n \in BridgeNodes : n = tbNode'[v] /\ NodePlace(n) /\ Logged(n)
    BY <1>10, <1>11, <1>12, <1>13
  <2>2. NodePlace(n)' /\ Logged(n)'
    BY <1>6, <1>15, <2>1, StillPlaced, StillLogged
  <2>3. QED BY <2>1, <2>2 DEF NodePlace, Logged, Has, WentFrom, WentInto, Log, Before
<1>17. OnesOwn' /\ ToolsAreNewer'
  <2>1. ASSUME NEW v \in BridgeWorkers
        PROVE  /\ In(v)'.at = "register" <=> In(v).at = "register"
               /\ In(v)'.at = "know" <=> In(v).at = "know"
               /\ In(v).at \in {"register", "know"} \/ Has(In(v)) =>
                    In(v)'.box = In(v).box /\ In(v)'.next = In(v).next
               /\ Has(In(v))' =>
                    Has(In(v)) \/ \E a \in BridgeAgents : tbKnown[a] # 0 /\ In(v)'.box = tbKnown[a]
    BY <1>1, <1>2, <1>6, <1>8, <1>10, <1>12, <1>13 DEF In, Has
  <2>2. QED BY <1>6, <2>1, OwnStay
<1>18. SharersKnow'
  <2> SUFFICES ASSUME NEW u \in BridgeWorkers, NEW v \in BridgeWorkers, u # v, Has(tbNode'[u]), Has(tbNode'[v]),
                      tbNode'[u].box = tbNode'[v].box
               PROVE  tbNode'[u].shared
    BY DEF SharersKnow, In, Has
  <2>1. CASE u = w
    <3>1. v \in Sharers(w, box)
      BY <1>10, <1>12, <1>13, <2>1 DEF Sharers, Has
    <3>2. QED BY <1>4, <1>10, <1>12, <2>1, <3>1
  <2>2. CASE v = w
    <3>1. u \in Sharers(w, box)
      BY <1>10, <1>12, <1>13, <2>2 DEF Sharers, Has
    <3>2. QED BY <1>13, <2>2, <3>1
  <2>3. CASE u # w /\ v # w
    <3>1. In(u).shared
      BY <1>7, <1>13, <2>3 DEF SharersKnow, Has
    <3>2. QED BY <1>13, <2>3, <3>1
  <2>4. QED BY <2>1, <2>2, <2>3
<1>19. NodeToolsAreOwn'
  BY <1>6, <1>15, StillExplained
<1>20. QED BY <1>14, <1>16, <1>17, <1>18, <1>19 DEF BridgeInv

LEMMA StartsKeeps == ASSUME BridgeInv, NEW w \in BridgeWorkers, NodeStarts(w) PROVE BridgeInv'
<1>1. PICK old : old = In(w)
  OBVIOUS
<1>2. PICK node : node = [old EXCEPT !.at = "runs"]
  OBVIOUS
<1>3. /\ old.at = "inject" /\ tbContext' = old.box
      /\ tbNode' = [v \in BridgeWorkers |->
           IF v = w THEN node
           ELSE IF In(v).at = "idle" THEN In(v) ELSE [In(v) EXCEPT !.met = @ \cup {old.box}]]
      /\ UNCHANGED <<tbBoxes, tbKnown, tbTools, tbTraces, tbStray>>
  BY <1>1, <1>2 DEF NodeStarts
<1>4. BridgeTyped /\ SharersKnow /\ old \in BridgeNodes /\ NodePlace(old) /\ Logged(old)
  BY <1>1, ANode DEF BridgeInv
<1>5. /\ node \in BridgeNodes /\ node.at = "runs" /\ node.agent = old.agent /\ node.box = old.box /\ node.next = old.next
      /\ node.from = old.from /\ node.mine = old.mine /\ node.done = old.done /\ node.taken = old.taken
      /\ node.shared = old.shared /\ node.met = old.met
  <2>1. node \in BridgeNodes
    BY <1>2, <1>4 DEF BridgeNodes
  <2>2. QED BY <1>2, <1>4, <2>1 DEF BridgeNodes
<1>6. old.box \in DOMAIN tbBoxes /\ old.box \in 0 .. Len(tbBoxes) /\ old.box \in Nat
  BY <1>3, <1>4, BoxesOf DEF NodePlace, Has
<1>7. \A b \in DOMAIN tbBoxes : Before(b)' = Before(b) /\ Log(b)' = Log(b)
  BY <1>3 DEF Before, Log
<1>8. NodePlace(node)' /\ Logged(node)'
  <2>1. NodePlace(node)'
    BY <1>3, <1>4, <1>5 DEF NodePlace, Has
  <2>2. Logged(node)
    BY <1>3, <1>4, <1>5 DEF Logged, Has
  <2>3. Logged(node)'
    BY <1>3, <2>2 DEF Logged, Has, Log, WentFrom, WentInto
  <2>4. QED BY <2>1, <2>3
<1>9. tbNode'[w] = node
  BY <1>3
<1>10. ASSUME NEW v \in BridgeWorkers, v # w
       PROVE  /\ tbNode'[v] \in BridgeNodes /\ NodePlace(tbNode[v])' /\ Logged(tbNode[v])'
              /\ tbNode'[v].at = In(v).at /\ tbNode'[v].box = In(v).box /\ tbNode'[v].next = In(v).next
              /\ tbNode'[v].shared = In(v).shared
  <2>1. PICK n \in BridgeNodes : n = In(v) /\ NodePlace(n) /\ Logged(n)
    BY ANode
  <2>2. CASE n.at = "idle"
    <3>1. tbNode'[v] = n
      BY <1>3, <1>10, <2>1, <2>2
    <3>2. NodePlace(n)' /\ Logged(n)'
      BY <1>3, <2>1, <2>2 DEF NodePlace, Logged, Has
    <3>3. QED BY <2>1, <3>1, <3>2 DEF NodePlace, Logged, Has, WentFrom, WentInto, Log, Before
  <2>3. CASE n.at # "idle"
    <3>1. PICK more : more = [n EXCEPT !.met = @ \cup {old.box}]
      OBVIOUS
    <3>2. /\ more \in BridgeNodes /\ more.at = n.at /\ more.agent = n.agent /\ more.box = n.box /\ more.next = n.next
          /\ more.taken = n.taken /\ more.tool = n.tool /\ more.toolBox = n.toolBox /\ more.met = n.met \cup {old.box}
          /\ more.shared = n.shared /\ Logged(more)
      BY <1>6, <2>1, <3>1, WithMet
    <3>3. tbNode'[v] = more
      BY <1>3, <1>10, <2>1, <2>3, <3>1
    <3>4. NodePlace(more)'
      <4>1. /\ more.at # "idle" => more.agent \in BridgeAgents
            /\ more.at = "lookup" => tbKnown'[more.agent] # 0
            /\ more.at \in {"register", "know"} \/ Has(more) => more.box \in DOMAIN tbBoxes'
            /\ more.at = "register" => more.next \in DOMAIN BridgeTools
        BY <1>3, <2>1, <3>2 DEF NodePlace, Has
      <4>2. /\ tbContext' \in {more.box} \cup more.met
            /\ more.taken \in {0, more.box} \cup more.met
            /\ more.taken # 0 => more.taken \in DOMAIN tbBoxes' /\ Has(more)
        BY <1>3, <2>1, <3>2 DEF NodePlace, Has
      <4>3. more.at = "calls" =>
              /\ more.tool \in DOMAIN BridgeTools /\ more.toolBox \in DOMAIN tbBoxes'
              /\ more.toolBox \notin Before(more.box)'
        BY <1>3, <2>1, <3>2 DEF NodePlace, Has, Before
      <4>4. QED BY <4>1, <4>2, <4>3 DEF NodePlace, Has
    <3>5. Logged(more)'
      BY <1>3, <3>2 DEF Logged, Has, Log, WentFrom, WentInto
    <3>6. QED BY <2>1, <3>2, <3>3, <3>4, <3>5 DEF NodePlace, Logged, Has, WentFrom, WentInto, Log, Before
  <2>4. QED BY <2>2, <2>3
<1>11. BridgeTyped'
  <2>1. tbNode' \in [BridgeWorkers -> BridgeNodes]
    BY <1>3, <1>5, <1>9, <1>10
  <2>2. QED BY <1>3, <1>4, <1>6, <2>1 DEF BridgeTyped, Strays
<1>12. \A v \in BridgeWorkers : NodePlace(tbNode[v])' /\ Logged(tbNode[v])'
  <2> SUFFICES ASSUME NEW v \in BridgeWorkers PROVE NodePlace(tbNode[v])' /\ Logged(tbNode[v])'
    OBVIOUS
  <2>1. CASE v = w
    BY <1>8, <1>9, <2>1 DEF NodePlace, Logged, Has, WentFrom, WentInto, Log, Before
  <2>2. CASE v # w
    BY <1>10, <2>2
  <2>3. QED BY <2>1, <2>2
<1>13. \A v \in BridgeWorkers : /\ In(v)'.box = In(v).box /\ In(v)'.next = In(v).next /\ In(v)'.shared = In(v).shared
                                /\ In(v)'.at = "register" <=> In(v).at = "register"
                                /\ In(v)'.at = "know" <=> In(v).at = "know"
                                /\ Has(In(v))' => Has(In(v))
  BY <1>1, <1>3, <1>5, <1>9, <1>10 DEF In, Has
<1>14. OnesOwn' /\ ToolsAreNewer'
  BY <1>3, <1>13, OwnStay
<1>15. SharersKnow'
  BY <1>4, <1>13 DEF SharersKnow
<1>16. NodeToolsAreOwn'
  BY <1>3, <1>7, StillExplained
<1>17. QED BY <1>11, <1>12, <1>14, <1>15, <1>16 DEF BridgeInv

\* An action that a node has carried out in some sandbox, its own or not.
LEMMA ActsKeeps ==
    ASSUME BridgeInv, NEW w \in BridgeWorkers, NEW node \in BridgeNodes, NEW box \in DOMAIN tbBoxes,
           NEW through \in {"context", "registry"}, ActsIn(w, box, through, node),
           UNCHANGED <<tbKnown, tbTools, tbContext, tbTraces>>,
           Has(In(w)), Has(node), node.box = In(w).box, node.shared = In(w).shared, NodePlace(node), Logged(node),
           box # node.box /\ through = "context" => box \in node.met,
           box # node.box /\ through = "registry" => box \notin Before(node.box)
    PROVE  BridgeInv'
<1>1. /\ BridgeTyped /\ OnesOwn /\ ToolsAreNewer /\ SharersKnow
      /\ Len(tbBoxes) \in Nat /\ DOMAIN tbBoxes = 1 .. Len(tbBoxes) /\ tbBoxes \in Seq(Boxes) /\ tbStray \subseteq Strays
      /\ node.box \in DOMAIN tbBoxes /\ node.box \in Nat /\ node.from \in Nat /\ node.mine \in Nat /\ node.done \in Nat
      /\ \A b \in DOMAIN tbBoxes : tbBoxes[b] \in Boxes /\ Log(b) \in Nat
  BY BoxesOf, NodeFields DEF BridgeInv, BridgeTyped, NodePlace
<1>2. PICK grown \in Nat : grown = Log(box) + 1
  BY <1>1
<1>3. PICK new \in Boxes : new = [tbBoxes[box] EXCEPT !.log = grown]
  BY <1>1 DEF Boxes
<1>4. tbBoxes' = [tbBoxes EXCEPT ![box] = new]
  BY <1>2, <1>3 DEF ActsIn, Log
<1>5. new.log = Log(box) + 1 /\ new.before = Before(box)
  BY <1>1, <1>2, <1>3 DEF Boxes, Before
<1>6. tbBoxes' \in Seq(Boxes) /\ DOMAIN tbBoxes' = DOMAIN tbBoxes /\ Len(tbBoxes') = Len(tbBoxes)
  BY <1>1, <1>4
<1>7. \A b \in DOMAIN tbBoxes : /\ Before(b)' = Before(b)
                                /\ Log(b)' = IF b = box THEN Log(b) + 1 ELSE Log(b)
  BY <1>1, <1>4, <1>5 DEF Before, Log
<1>8. PICK mine \in Nat, done \in Nat : mine = (IF box = node.box THEN node.mine + 1 ELSE node.mine) /\ done = node.done + 1
  <2>1. (IF box = node.box THEN node.mine + 1 ELSE node.mine) \in Nat /\ node.done + 1 \in Nat
    BY <1>1
  <2>2. QED BY <2>1
<1>9. PICK acted : acted = [node EXCEPT !.done = done, !.mine = mine]
  OBVIOUS
<1>10. NodeIs(w, acted)
  BY <1>8, <1>9 DEF ActsIn
<1>11. /\ acted \in BridgeNodes /\ acted.at = node.at /\ acted.agent = node.agent /\ acted.box = node.box
       /\ acted.next = node.next /\ acted.taken = node.taken /\ acted.tool = node.tool /\ acted.toolBox = node.toolBox
       /\ acted.from = node.from /\ acted.mine = mine /\ acted.done = done /\ acted.met = node.met
       /\ acted.shared = node.shared
  <2>1. acted \in BridgeNodes
    BY <1>9 DEF BridgeNodes
  <2>2. QED BY <1>9, <2>1 DEF BridgeNodes
<1>12. PICK stray : stray = [own |-> node.box, box |-> box, through |-> through, met |-> box \in node.met]
  OBVIOUS
<1>13. stray \in Strays /\ stray.own = node.box /\ stray.box = box /\ stray.through = through /\ stray.met = (box \in node.met)
  BY <1>1, <1>12 DEF Strays
<1>14. tbStray' = IF box = node.box THEN tbStray ELSE tbStray \cup {stray}
  BY <1>12 DEF ActsIn
<1>15. tbStray \subseteq tbStray' /\ tbStray' \subseteq Strays
  BY <1>1, <1>13, <1>14
<1>16. box # node.box => WentFrom(node.box)' /\ WentInto(box)'
  BY <1>13, <1>14 DEF WentFrom, WentInto
<1>17. \A b : (WentFrom(b) => WentFrom(b)') /\ (WentInto(b) => WentInto(b)')
  BY <1>15 DEF WentFrom, WentInto
<1>18. /\ tbNode' \in [BridgeWorkers -> BridgeNodes] /\ tbNode'[w] = acted
       /\ \A v \in BridgeWorkers : v # w => tbNode'[v] = tbNode[v]
  BY <1>1, <1>10, <1>11, NodeBecomes
<1>19. BridgeTyped'
  BY <1>1, <1>6, <1>15, <1>18 DEF BridgeTyped, Strays
<1>20. NodePlace(acted)' /\ Logged(acted)'
  <2>1. NodePlace(acted)
    BY <1>11 DEF NodePlace, Has
  <2>2. NodePlace(acted)'
    BY <1>6, <1>7, <1>11, <2>1, StillPlaced
  <2>3. /\ node.from + node.mine <= Log(node.box) /\ node.mine <= node.done
        /\ node.mine < node.done => WentFrom(node.box)
        /\ Log(node.box) > node.from + node.mine => node.shared \/ WentInto(node.box)
    BY DEF Logged
  <2>4. PICK log \in Nat, after \in Nat : /\ log = Log(node.box) /\ after = Log(node.box)'
                                          /\ after = (IF node.box = box THEN log + 1 ELSE log)
    BY <1>1, <1>7
  <2>5. /\ acted.from + acted.mine <= after /\ acted.mine <= acted.done
        /\ acted.mine < acted.done => WentFrom(acted.box)'
        /\ after > acted.from + acted.mine => acted.shared \/ WentInto(acted.box)'
    <3>1. PICK f \in Nat, m \in Nat, d \in Nat : f = node.from /\ m = node.mine /\ d = node.done
      BY <1>1
    <3>2. /\ f + m <= log /\ m <= d /\ (m < d => WentFrom(node.box))
          /\ log > f + m => node.shared \/ WentInto(node.box)
      BY <2>3, <2>4, <3>1
    <3>3. CASE box = node.box
      <4>1. mine = m + 1 /\ done = d + 1 /\ after = log + 1
        BY <1>8, <2>4, <3>1, <3>3
      <4>2. /\ f + mine <= after /\ mine <= done /\ (mine < done => m < d) /\ (after > f + mine => log > f + m)
        BY <3>2, <4>1
      <4>3. QED BY <1>11, <1>17, <3>1, <3>2, <4>2
    <3>4. CASE box # node.box
      <4>1. mine = m /\ done = d + 1 /\ after = log
        BY <1>8, <2>4, <3>1, <3>4
      <4>2. f + mine <= after /\ mine <= done /\ (after > f + mine => log > f + m)
        BY <3>2, <4>1
      <4>3. QED BY <1>11, <1>16, <1>17, <3>1, <3>2, <3>4, <4>2
    <3>5. QED BY <3>3, <3>4
  <2>6. Logged(acted)'
    BY <1>11, <2>4, <2>5 DEF Logged, Has
  <2>7. QED BY <2>2, <2>6
<1>21. ASSUME NEW v \in BridgeWorkers, v # w PROVE NodePlace(tbNode[v])' /\ Logged(tbNode[v])'
  <2>1. PICK n \in BridgeNodes : n = tbNode[v] /\ n = In(v) /\ NodePlace(n) /\ Logged(n)
    BY ANode DEF In
  <2>2. NodePlace(n)'
    BY <1>6, <1>7, <2>1, StillPlaced
  <2>3. Logged(n)'
    <3>1. CASE ~Has(n)
      BY <2>1, <3>1 DEF Logged, Has
    <3>2. CASE Has(n)
      <4>1. /\ n.from + n.mine <= Log(n.box) /\ n.mine <= n.done
            /\ n.mine < n.done => WentFrom(n.box)
            /\ Log(n.box) > n.from + n.mine => n.shared \/ WentInto(n.box)
        BY <2>1, <3>2 DEF Logged
      <4>2. n.box \in DOMAIN tbBoxes /\ n.from \in Nat /\ n.mine \in Nat
        BY <2>1, <3>2, NodeFields DEF NodePlace
      <4>3. PICK log \in Nat, after \in Nat : /\ log = Log(n.box) /\ after = Log(n.box)'
                                              /\ after = (IF n.box = box THEN log + 1 ELSE log)
        <5>1. PICK b \in DOMAIN tbBoxes : b = n.box
          BY <4>2
        <5>2. Log(b) \in Nat /\ Log(b)' = IF b = box THEN Log(b) + 1 ELSE Log(b)
          BY <1>1, <1>7
        <5>3. (IF b = box THEN Log(b) + 1 ELSE Log(b)) \in Nat
          BY <5>2
        <5>4. Log(n.box)' = Log(b)' /\ Log(n.box) = Log(b)
          BY <5>1 DEF Log
        <5>5. QED BY <5>1, <5>2, <5>3, <5>4
      <4>4. n.box = box => n.shared \/ WentInto(n.box)'
        <5>1. CASE n.box = box /\ box = node.box
          BY <1>1, <1>21, <2>1, <3>2, <5>1 DEF SharersKnow
        <5>2. CASE n.box = box /\ box # node.box
          BY <1>16, <5>2
        <5>3. QED BY <5>1, <5>2
      <4>5. /\ n.from + n.mine <= after /\ (n.mine < n.done => WentFrom(n.box)')
            /\ after > n.from + n.mine => n.shared \/ WentInto(n.box)'
        BY <1>17, <4>1, <4>2, <4>3, <4>4
      <4>6. QED BY <3>2, <4>1, <4>3, <4>5 DEF Logged, Has
    <3>3. QED BY <3>1, <3>2
  <2>4. tbNode'[v] = n
    BY <1>18, <1>21, <2>1
  <2>5. QED BY <2>2, <2>3, <2>4 DEF NodePlace, Logged, Has, WentFrom, WentInto, Log, Before
<1>22. \A v \in BridgeWorkers : NodePlace(tbNode[v])' /\ Logged(tbNode[v])'
  <2> SUFFICES ASSUME NEW v \in BridgeWorkers PROVE NodePlace(tbNode[v])' /\ Logged(tbNode[v])'
    OBVIOUS
  <2>1. CASE v = w
    BY <1>18, <1>20, <2>1 DEF NodePlace, Logged, Has, WentFrom, WentInto, Log, Before
  <2>2. QED BY <1>21, <2>1
<1>23. /\ \A v \in BridgeWorkers : \A b : Registers(v, b)' <=> Registers(v, b)
       /\ \A v \in BridgeWorkers : Registers(v, In(v).box) => In(v)' = In(v)
       /\ \A v \in BridgeWorkers : In(v)'.at \in {"register", "know"} \/ Has(In(v)') =>
            (In(v).at \in {"register", "know"} \/ Has(In(v))) /\ In(v)'.box = In(v).box
  BY <1>11, <1>18 DEF Registers, In, Has
<1>24. OnesOwn'
  BY <1>1, <1>6, <1>7, <1>23 DEF OnesOwn, Has
<1>25. ToolsAreNewer'
  <2>1. ASSUME NEW b \in DOMAIN tbBoxes, NEW t \in DOMAIN BridgeTools
        PROVE  tbTools[t] \notin Before(b) \/ \E v \in BridgeWorkers : Registers(v, b)' /\ In(v)'.next <= t
    <3>1. CASE tbTools[t] \notin Before(b)
      BY <3>1
    <3>2. CASE tbTools[t] \in Before(b)
      <4>1. PICK v \in BridgeWorkers : Registers(v, b) /\ In(v).next <= t
        BY <1>1, <3>2 DEF ToolsAreNewer
      <4>2. Registers(v, b)' /\ In(v)'.next <= t
        BY <1>23, <4>1 DEF Registers
      <4>3. QED BY <4>2
    <3>3. QED BY <3>1, <3>2
  <2>2. \A b \in DOMAIN tbBoxes : Before(b) \subseteq DOMAIN tbBoxes
    BY <1>1 DEF ToolsAreNewer
  <2>3. QED BY <1>6, <1>7, <2>1, <2>2 DEF ToolsAreNewer
<1>26. SharersKnow'
  <2>1. \A v \in BridgeWorkers : Has(tbNode'[v]) => /\ Has(tbNode[v]) /\ tbNode'[v].box = tbNode[v].box
                                                    /\ tbNode'[v].shared = tbNode[v].shared
    BY <1>11, <1>18 DEF In
  <2>2. QED BY <1>1, <2>1 DEF SharersKnow, In, Has
<1>27. NodeToolsAreOwn'
  <2>1. \A s \in tbStray' \ tbStray : IF s.through = "context" THEN s.met ELSE s.box \notin Before(s.own)'
    BY <1>1, <1>7, <1>13, <1>14
  <2>2. QED BY <1>7, <1>15, <2>1, StillExplained
<1>28. QED BY <1>19, <1>22, <1>24, <1>25, <1>26, <1>27 DEF BridgeInv

LEMMA DirectKeeps == ASSUME BridgeInv, NEW w \in BridgeWorkers, ActsDirectly(w) PROVE BridgeInv'
<1>1. PICK old \in BridgeNodes : old = In(w) /\ NodePlace(old) /\ Logged(old)
  BY ANode
<1>2. /\ old.at = "runs" /\ old.taken # 0 /\ ActsIn(w, old.taken, "context", old)
      /\ UNCHANGED <<tbKnown, tbTools, tbContext, tbTraces>>
  BY <1>1 DEF ActsDirectly
<1>3. /\ Has(old) /\ old.taken \in DOMAIN tbBoxes /\ (old.taken # old.box => old.taken \in old.met)
  BY <1>1, <1>2 DEF NodePlace, Has
<1>4. QED BY <1>1, <1>2, <1>3, ActsKeeps

LEMMA CallKeeps == ASSUME BridgeInv, NEW w \in BridgeWorkers, CallsTool(w) PROVE BridgeInv'
<1>1. PICK old \in BridgeNodes : old = In(w) /\ NodePlace(old) /\ Logged(old)
  BY ANode
<1>2. /\ old.at = "calls" /\ ActsIn(w, old.toolBox, "registry", Returned(old))
      /\ UNCHANGED <<tbKnown, tbTools, tbContext, tbTraces>>
  BY <1>1 DEF CallsTool
<1>3. PICK node \in BridgeNodes :
        node = Returned(old) /\ node.at = "runs" /\ node.box = old.box /\ node.shared = old.shared
  BY ReturnedFields
<1>4. NodePlace(node) /\ Logged(node)
  BY <1>1, <1>2, <1>3, ReturnedSound
<1>5. /\ Has(old) /\ Has(node) /\ old.toolBox \in DOMAIN tbBoxes /\ old.toolBox \notin Before(node.box)
  BY <1>1, <1>2, <1>3 DEF NodePlace, Has
<1>6. QED BY <1>1, <1>2, <1>3, <1>4, <1>5, ActsKeeps

LEMMA RegistryKeeps ==
    ASSUME BridgeInv, UNCHANGED <<tbBoxes, tbKnown, tbContext, tbNode, tbTraces, tbStray>>,
           tbTools' \in [DOMAIN BridgeTools -> 0 .. Len(tbBoxes)],
           \A t \in DOMAIN BridgeTools : tbTools'[t] \in {0, tbTools[t]}
    PROVE  BridgeInv'
<1>1. BridgeTyped'
  BY DEF BridgeInv, BridgeTyped, Strays
<1>2. ToolsAreNewer'
  <2>1. DOMAIN tbBoxes = 1 .. Len(tbBoxes) /\ Len(tbBoxes) \in Nat /\ \A b \in DOMAIN tbBoxes : Before(b) \subseteq DOMAIN tbBoxes
    BY BoxesOf DEF BridgeInv, ToolsAreNewer
  <2>2. \A b \in DOMAIN tbBoxes : 0 \notin Before(b) /\ Before(b)' = Before(b)
    BY <2>1 DEF Before
  <2>3. \A v \in BridgeWorkers : \A b : (Registers(v, b)' <=> Registers(v, b)) /\ In(v)' = In(v)
    BY DEF Registers, In
  <2>4. QED BY <2>2, <2>3 DEF BridgeInv, ToolsAreNewer
<1>3. OnesOwn' /\ SharersKnow'
  BY DEF BridgeInv, OnesOwn, SharersKnow, Registers, In, Has, Before
<1>4. \A v \in BridgeWorkers : NodePlace(tbNode[v])' /\ Logged(tbNode[v])'
  BY DEF BridgeInv, NodePlace, Logged, Has, Log, Before, WentFrom, WentInto
<1>5. NodeToolsAreOwn'
  BY DEF BridgeInv, NodeToolsAreOwn, StrayIsExplained, TraceIsExplained
<1>6. QED BY <1>1, <1>2, <1>3, <1>4, <1>5 DEF BridgeInv

LEMMA BridgeStep == BridgeInv /\ [BridgeNext]_tbVars => BridgeInv'
<1> SUFFICES ASSUME BridgeInv, [BridgeNext]_tbVars PROVE BridgeInv'
  OBVIOUS
<1>1. tbTools \in [DOMAIN BridgeTools -> 0 .. Len(tbBoxes)] /\ Len(tbBoxes) \in Nat
  BY BoxesOf DEF BridgeInv, BridgeTyped
<1>2. CASE UNCHANGED tbVars
  BY <1>1, <1>2, RegistryKeeps DEF tbVars
<1>3. ASSUME NEW w \in BridgeWorkers, NEW a \in BridgeAgents, NEW r \in DOMAIN BridgeRoles \cup {"guest"},
             NodeBegins(w, a, r)
      PROVE  BridgeInv'
  BY <1>3, BeginsKeeps
<1>4. ASSUME NEW w \in BridgeWorkers,
             MakeSandbox(w) \/ RegisterTool(w) \/ KnowSandbox(w) \/ LookUpSandbox(w) \/ NodeStarts(w)
      PROVE  BridgeInv'
  BY <1>4, MakeKeeps, RegisterToolKeeps, KnowKeeps, LookUpKeeps, StartsKeeps
<1>5. ASSUME NEW w \in BridgeWorkers,
             TakesSandbox(w) \/ ActsDirectly(w) \/ CallsTool(w) \/ ToolFails(w) \/ NodeEnds(w)
      PROVE  BridgeInv'
  BY <1>5, TakesKeeps, DirectKeeps, CallKeeps, ToolFailsKeeps, EndsKeeps
<1>6. ASSUME NEW w \in BridgeWorkers, NEW t \in DOMAIN BridgeTools, TakesTool(w, t) PROVE BridgeInv'
  BY <1>6, TakesToolKeeps
<1>7. ASSUME NEW t \in DOMAIN BridgeTools, UnregisterTool(t) PROVE BridgeInv'
  BY <1>1, <1>7, RegistryKeeps DEF UnregisterTool
<1>8. ASSUME NEW t \in DOMAIN BridgeTools, NEW r \in DOMAIN BridgeRoles \cup {"guest"},
             Grant(r, BridgeTools[t]) \/ Revoke(r, BridgeTools[t])
      PROVE  BridgeInv'
  BY <1>1, <1>8, RegistryKeeps DEF Grant, Revoke, Permit
<1>9. QED BY <1>2, <1>3, <1>4, <1>5, <1>6, <1>7, <1>8 DEF BridgeNext

LEMMA BridgeInductive == BridgeSpec => []BridgeInv
BY BridgeStarts, BridgeStep, PTL DEF BridgeSpec

-----------------------------------------------------------------------------
(* Forged tools. *)

\* What is kept under a name was made for a task of that name.
ForTask(name, text) == \E task \in ForgeTasks : task.tool = name /\ task.text = text
ForgeInv ==
  /\ ForgedIsOnDisk
  /\ fgAt # "" => fgAt \in DOMAIN fgMemory
  /\ \A n \in DOMAIN fgDisk : ForTask(n, fgDisk[n].for)
  /\ \A b \in fgExports : ForTask(b.tool, b.for)

LEMMA NoNames == DOMAIN <<>> = {}
<1>1. <<>> \in Seq({}) /\ Len(<<>>) = 0
  OBVIOUS
<1>2. QED BY <1>1

\* What is put into memory under a name that is to be written.
LEMMA PutKeeps ==
    ASSUME ForgeInv, NEW name, NEW tool, name # "", ForTask(name, tool.for), fgAt = "", fgAt' = name,
           fgMemory' = Listed(fgMemory, name, tool), UNCHANGED <<fgDisk, fgExports, fgUnwritten>>
    PROVE  ForgeInv'
<1>1. /\ DOMAIN fgMemory' = DOMAIN fgMemory \cup {name} /\ fgMemory'[name] = tool
      /\ \A m \in DOMAIN fgMemory : m # name => fgMemory'[m] = fgMemory[m]
  BY DEF Listed
<1>2. ASSUME NEW n \in DOMAIN fgMemory'
      PROVE  /\ fgAt' = n \/ n \in fgUnwritten' \/ (n \in DOMAIN fgDisk' /\ fgDisk'[n] = fgMemory'[n])
             /\ ForTask(n, fgMemory'[n].for)
  <2>1. CASE n = name
    BY <1>1, <2>1
  <2>2. CASE n # name
    <3>2. n \in DOMAIN fgMemory /\ fgMemory'[n] = fgMemory[n]
      BY <1>1, <1>2, <2>2
    <3>3. ForTask(n, fgMemory[n].for)
      BY <3>2 DEF ForgeInv, ForgedIsOnDisk, ForTask
    <3>4. n # ""
      BY <3>3, ForgedNamesAssumption DEF ForTask
    <3>5. n \in fgUnwritten \/ (n \in DOMAIN fgDisk /\ fgDisk[n] = fgMemory[n])
      BY <3>2, <3>4 DEF ForgeInv, ForgedIsOnDisk
    <3>6. QED BY <3>2, <3>3, <3>5
  <2>3. QED BY <2>1, <2>2
<1>3. ForgedIsOnDisk'
  BY <1>2 DEF ForgedIsOnDisk, ForTask
<1>4. QED BY <1>1, <1>3 DEF ForgeInv

LEMMA ForgeKeeps == ASSUME ForgeInv, NEW task \in ForgeTasks, Forge(task) PROVE ForgeInv'
<1>1. PICK tool : tool = [for |-> task.text, version |-> fgForged']
  OBVIOUS
<1>2. /\ fgAt = "" /\ fgAt' = task.tool /\ fgMemory' = Listed(fgMemory, task.tool, tool)
      /\ UNCHANGED <<fgDisk, fgExports, fgUnwritten>>
  BY <1>1 DEF Forge
<1>3. task.tool # "" /\ ForTask(task.tool, tool.for)
  BY <1>1, ForgedNamesAssumption DEF ForTask
<1>4. QED BY <1>2, <1>3, PutKeeps

LEMMA ImportKeeps == ASSUME ForgeInv, NEW b \in fgExports, ImportTool(b) PROVE ForgeInv'
<1>1. PICK tool : tool = [for |-> b.for, version |-> b.version]
  OBVIOUS
<1>2. /\ fgAt = "" /\ fgAt' = b.tool /\ fgMemory' = Listed(fgMemory, b.tool, tool)
      /\ UNCHANGED <<fgDisk, fgExports, fgUnwritten>>
  BY <1>1 DEF ImportTool
<1>3. ForTask(b.tool, tool.for)
  BY <1>1 DEF ForgeInv
<1>4. b.tool # ""
  BY <1>3, ForgedNamesAssumption DEF ForTask
<1>5. QED BY <1>2, <1>3, <1>4, PutKeeps

LEMMA WriteKeeps == ASSUME ForgeInv, WriteTool PROVE ForgeInv'
<1>1. PICK name : name = fgAt
  OBVIOUS
<1>2. /\ name # "" /\ fgAt' = "" /\ UNCHANGED <<fgMemory, fgExports>>
      /\ \/ fgDisk' = Listed(fgDisk, name, fgMemory[name]) /\ fgUnwritten' = fgUnwritten \ {name}
         \/ fgUnwritten' = fgUnwritten \cup {name} /\ UNCHANGED fgDisk
  BY <1>1 DEF WriteTool
<1>3. name \in DOMAIN fgMemory
  BY <1>1, <1>2 DEF ForgeInv
<1>4. ForTask(name, fgMemory[name].for)
  BY <1>3 DEF ForgeInv, ForgedIsOnDisk, ForTask
<1>5. CASE fgDisk' = Listed(fgDisk, name, fgMemory[name]) /\ fgUnwritten' = fgUnwritten \ {name}
  <2>1. /\ DOMAIN fgDisk' = DOMAIN fgDisk \cup {name} /\ fgDisk'[name] = fgMemory[name]
        /\ \A m \in DOMAIN fgDisk : m # name => fgDisk'[m] = fgDisk[m]
    BY <1>5 DEF Listed
  <2>2. \A n \in DOMAIN fgDisk' : ForTask(n, fgDisk'[n].for)
    BY <1>4, <2>1 DEF ForgeInv
  <2>3. ForgedIsOnDisk'
    BY <1>1, <1>2, <1>5, <2>1 DEF ForgeInv, ForgedIsOnDisk
  <2>4. QED BY <1>2, <2>2, <2>3 DEF ForgeInv
<1>6. CASE fgUnwritten' = fgUnwritten \cup {name} /\ UNCHANGED fgDisk
  <2>1. ForgedIsOnDisk'
    BY <1>1, <1>2, <1>6 DEF ForgeInv, ForgedIsOnDisk
  <2>2. QED BY <1>2, <1>6, <2>1 DEF ForgeInv
<1>7. QED BY <1>2, <1>5, <1>6

LEMMA ExportKeeps == ASSUME ForgeInv, NEW name, ExportTool(name) PROVE ForgeInv'
<1>1. PICK tool : tool = Exported(name)
  OBVIOUS
<1>2. PICK bundle : bundle = [tool |-> name, for |-> tool.for, version |-> tool.version]
  OBVIOUS
<1>3. /\ name \in DOMAIN fgMemory \cup DOMAIN fgDisk /\ fgExports' = fgExports \cup {bundle}
      /\ UNCHANGED <<fgMemory, fgDisk, fgAt, fgUnwritten>>
  BY <1>1, <1>2 DEF ExportTool
<1>4. ForTask(name, tool.for)
  BY <1>1, <1>3 DEF ForgeInv, ForgedIsOnDisk, Exported, ForTask
<1>5. ForTask(bundle.tool, bundle.for)
  BY <1>2, <1>4
<1>6. ForgedIsOnDisk'
  BY <1>3 DEF ForgeInv, ForgedIsOnDisk
<1>7. QED BY <1>3, <1>5, <1>6 DEF ForgeInv

LEMMA ForgeStep == ForgeInv /\ [ForgeNext]_fgVars => ForgeInv'
<1> SUFFICES ASSUME ForgeInv, [ForgeNext]_fgVars PROVE ForgeInv'
  OBVIOUS
<1>1. CASE UNCHANGED fgVars
  BY <1>1 DEF fgVars, ForgeInv, ForgedIsOnDisk
<1>2. CASE ForgeRestarts
  <2>1. fgMemory' = <<>> /\ fgAt' = "" /\ UNCHANGED <<fgDisk, fgExports>>
    BY <1>2 DEF ForgeRestarts
  <2>2. QED BY <2>1, NoNames DEF ForgeInv, ForgedIsOnDisk
<1>3. QED BY <1>1, <1>2, ForgeKeeps, ImportKeeps, WriteKeeps, ExportKeeps DEF ForgeNext

LEMMA ForgeInductive == ForgeSpec => []ForgeInv
<1>1. ForgeInit => ForgeInv
  BY NoNames DEF ForgeInit, ForgeInv, ForgedIsOnDisk
<1>2. QED BY <1>1, ForgeStep, PTL DEF ForgeSpec

-----------------------------------------------------------------------------
(* Applications. *)

AppRecords == [repo : AppRepos, tag : Nat]
Directories == [repo : AppRepos \cup {NoApp.repo}, tag : Nat]
\* Registry files and their copies: an application is under the name of its repository.
AppLists ==
  {list \in UNION {[names -> AppRecords] : names \in SUBSET AppNames} : \A n \in DOMAIN list : list[n].repo.name = n}
AppUsers ==
  [at : {"rest", "fetch", "register", "forget"}, repo : AppRepos \cup {NoApp.repo}, force : BOOLEAN, tag : Nat,
   registry : AppLists, read : AppLists]

AppsTyped ==
  /\ apTag \in [AppRepos -> Nat] /\ apDir \in [AppNames -> Directories] /\ apFile \in AppLists
  /\ apUser \in [Installers -> AppUsers] /\ apStale \in BOOLEAN
UserFits(user) == (user.at # "rest" => user.repo \in AppRepos) /\ user.registry = user.read

\* A name, as long as nothing is stale: one process at most is at work on it, and its
\* directory is what the file lists unless that process is between the two.
WorksOn(u, n) == User(u).at # "rest" /\ Name(u) = n
UserSound(user) ==
  LET n == user.repo.name IN
  /\ user.at = "register" => apDir[n] = [repo |-> user.repo, tag |-> user.tag] \/ n \in apSilent
  /\ user.at = "forget" => apDir[n] = NoApp
Kept(n) ==
  /\ n \in DOMAIN apFile => apDir[n] = apFile[n] \/ n \in apSilent
  /\ apDir[n] # NoApp => n \in DOMAIN apFile
NameSound(n) ==
  /\ \A u, v \in Installers : WorksOn(u, n) /\ WorksOn(v, n) => u = v
  /\ \A u \in Installers : WorksOn(u, n) => UserSound(User(u))
  /\ (\A u \in Installers : WorksOn(u, n) => User(u).at = "fetch") => Kept(n)

AppsInv ==
  /\ AppsTyped /\ \A u \in Installers : UserFits(User(u))
  /\ ~apStale => \A n \in AppNames : NameSound(n)

LEMMA NoAppsListed == <<>> \in AppLists
<1>1. <<>> \in Seq(AppRecords) /\ Len(<<>>) = 0
  OBVIOUS
<1>2. <<>> \in [{} -> AppRecords]
  BY <1>1, NoNames
<1>3. {} \in SUBSET AppNames
  OBVIOUS
<1>4. <<>> \in UNION {[names -> AppRecords] : names \in SUBSET AppNames}
  BY <1>2, <1>3
<1>5. QED BY <1>4, NoNames DEF AppLists

LEMMA AppListParts ==
    ASSUME NEW list \in AppLists
    PROVE  /\ DOMAIN list \subseteq AppNames
           /\ \A n \in DOMAIN list : list[n] \in AppRecords /\ list[n].repo \in AppRepos /\ list[n].repo.name = n
<1>1. PICK names \in SUBSET AppNames : list \in [names -> AppRecords]
  BY DEF AppLists
<1>2. DOMAIN list \subseteq AppNames /\ \A n \in DOMAIN list : list[n] \in AppRecords
  BY <1>1
<1>3. \A n \in DOMAIN list : list[n].repo.name = n
  BY DEF AppLists
<1>4. QED BY <1>2, <1>3 DEF AppRecords

LEMMA MakesAppList ==
    ASSUME NEW names \in SUBSET AppNames, NEW list \in [names -> AppRecords],
           \A n \in names : list[n].repo.name = n
    PROVE  list \in AppLists /\ DOMAIN list = names
BY DEF AppLists

LEMMA AppsStart == AppsInit => AppsInv
<1> SUFFICES ASSUME AppsInit PROVE AppsInv
  OBVIOUS
<1>1. /\ apTag = [r \in AppRepos |-> 0] /\ apDir = [n \in AppNames |-> NoApp] /\ apFile = <<>>
      /\ apUser = [u \in Installers |-> AppRest] /\ apStale = FALSE
  BY DEF AppsInit
<1>2. AppRest \in AppUsers /\ AppRest.at = "rest" /\ UserFits(AppRest)
  BY NoAppsListed DEF AppRest, AppUsers, UserFits
<1>3. NoApp \in Directories
  BY DEF NoApp, Directories
<1>4. AppsTyped
  BY <1>1, <1>2, <1>3, NoAppsListed DEF AppsTyped
<1>5. \A u \in Installers : User(u) = AppRest
  BY <1>1 DEF User
<1>6. \A n \in AppNames : NameSound(n)
  BY <1>1, <1>2, <1>5, NoNames DEF NameSound, WorksOn, Kept
<1>7. QED BY <1>2, <1>4, <1>5, <1>6 DEF AppsInv

LEMMA AppUserBecomes ==
    ASSUME AppsTyped, NEW u \in Installers, NEW w \in AppUsers, UserIs(u, w)
    PROVE  /\ apUser' \in [Installers -> AppUsers] /\ User(u)' = w
           /\ \A v \in Installers : v # u => User(v)' = User(v)
BY DEF AppsTyped, UserIs, User

LEMMA AppUserFields ==
    ASSUME AppsTyped, NEW u \in Installers
    PROVE  /\ User(u) \in AppUsers /\ User(u).registry \in AppLists /\ User(u).read \in AppLists
           /\ User(u).tag \in Nat /\ User(u).force \in BOOLEAN
<1>1. User(u) \in AppUsers
  BY DEF AppsTyped, User
<1>2. QED BY <1>1 DEF AppUsers

\* A name that u is not at work on, before or after its step, which leaves it alone.
LEMMA OtherNames ==
    ASSUME AppsTyped, NEW u \in Installers, NEW w \in AppUsers, UserIs(u, w), NEW n \in AppNames, NameSound(n),
           User(u).at = "rest" \/ User(u).repo.name # n, w.at = "rest" \/ w.repo.name # n,
           apDir'[n] = apDir[n], n \in apSilent' <=> n \in apSilent,
           n \in DOMAIN apFile' <=> n \in DOMAIN apFile, n \in DOMAIN apFile => apFile'[n] = apFile[n]
    PROVE  NameSound(n)'
<1>1. User(u)' = w /\ \A v \in Installers : v # u => User(v)' = User(v)
  BY AppUserBecomes
<1>2. ASSUME NEW v \in Installers
      PROVE  (WorksOn(v, n)' <=> WorksOn(v, n)) /\ (WorksOn(v, n) => User(v)' = User(v))
  <2>1. CASE v = u
    BY <1>1, <2>1 DEF WorksOn, Name
  <2>2. CASE v # u
    BY <1>1, <2>2 DEF WorksOn, Name
  <2>3. QED BY <2>1, <2>2
<1>3. Kept(n)' <=> Kept(n)
  BY DEF Kept
<1>4. ASSUME NEW v \in Installers, WorksOn(v, n)' PROVE UserSound(User(v))'
  <2>1. PICK user : user = User(v) /\ user = User(v)' /\ user.repo.name = n
    BY <1>2, <1>4 DEF WorksOn, Name
  <2>2. UserSound(user)
    BY <1>2, <1>4, <2>1 DEF NameSound
  <2>3. QED BY <2>1, <2>2 DEF UserSound
<1>5. QED BY <1>2, <1>3, <1>4 DEF NameSound

\* A name that nobody but u is at work on.
LEMMA OwnName ==
    ASSUME AppsTyped, NEW u \in Installers, NEW w \in AppUsers, UserIs(u, w), NEW n \in AppNames,
           \A v \in Installers : WorksOn(v, n) => v = u,
           w.at # "rest" => w.repo.name = n /\ UserSound(w)',
           w.at \in {"rest", "fetch"} => Kept(n)'
    PROVE  NameSound(n)'
<1>1. User(u)' = w /\ \A v \in Installers : v # u => User(v)' = User(v)
  BY AppUserBecomes
<1>2. \A v \in Installers : WorksOn(v, n)' => v = u
  BY <1>1 DEF WorksOn, Name
<1>3. WorksOn(u, n)' <=> w.at # "rest"
  BY <1>1 DEF WorksOn, Name
<1>4. WorksOn(u, n)' => UserSound(User(u))'
  BY <1>1, <1>3 DEF UserSound
<1>5. w.at \in {"rest", "fetch", "register", "forget"}
  BY DEF AppUsers
<1>6. (\A v \in Installers : WorksOn(v, n)' => User(v)'.at = "fetch") => Kept(n)'
  BY <1>1, <1>3, <1>5
<1>7. QED BY <1>2, <1>4, <1>6 DEF NameSound

\* A step of u: what is left to show of it.
LEMMA UserKeeps ==
    ASSUME AppsInv, NEW u \in Installers, NEW w \in AppUsers, UserIs(u, w), UserFits(w),
           apTag' \in [AppRepos -> Nat], apDir' \in [AppNames -> Directories], apFile' \in AppLists,
           apStale' \in BOOLEAN, ~apStale' => \A n \in AppNames : NameSound(n)'
    PROVE  AppsInv'
<1>1. AppsTyped /\ \A v \in Installers : UserFits(User(v))
  BY DEF AppsInv
<1>2. /\ apUser' \in [Installers -> AppUsers] /\ User(u)' = w
      /\ \A v \in Installers : v # u => User(v)' = User(v)
  BY <1>1, AppUserBecomes
<1>3. \A v \in Installers : UserFits(User(v))'
  BY <1>1, <1>2 DEF UserFits
<1>4. QED BY <1>2, <1>3 DEF AppsInv, AppsTyped

LEMMA OpenKeeps == ASSUME AppsInv, NEW u \in Installers, OpenInstaller(u) PROVE AppsInv'
<1>1. PICK file : file = apFile
  OBVIOUS
<1>2. PICK w : w = [AppRest EXCEPT !.registry = file, !.read = file]
  OBVIOUS
<1>3. UserIs(u, w) /\ apStale' = (apStale \/ User(u).at # "rest") /\ UNCHANGED <<apTag, apDir, apFile, apSilent>>
  BY <1>1, <1>2 DEF OpenInstaller
<1>4. AppsTyped
  BY DEF AppsInv
<1>5. w \in AppUsers /\ w.at = "rest" /\ UserFits(w)
  BY <1>1, <1>2, <1>4 DEF AppsTyped, AppRest, AppUsers, UserFits
<1>6. ASSUME ~apStale', NEW n \in AppNames PROVE NameSound(n)'
  <2>1. NameSound(n) /\ User(u).at = "rest"
    BY <1>3, <1>6 DEF AppsInv
  <2>2. /\ apDir'[n] = apDir[n] /\ (n \in apSilent' <=> n \in apSilent)
        /\ (n \in DOMAIN apFile' <=> n \in DOMAIN apFile) /\ (n \in DOMAIN apFile => apFile'[n] = apFile[n])
    BY <1>3
  <2>3. QED BY <1>3, <1>4, <1>5, <2>1, <2>2, OtherNames
<1>7. QED BY <1>3, <1>4, <1>5, <1>6, UserKeeps DEF AppsTyped

\* A call begins to fetch a repository: alone on its name, or stale.
LEMMA FetchBegins ==
    ASSUME AppsInv, NEW u \in Installers, NEW repo \in AppRepos, NEW force \in BOOLEAN,
           NEW tag \in Detected(repo), User(u).at = "rest", Called(repo),
           UserIs(u, [User(u) EXCEPT !.at = "fetch", !.repo = repo, !.force = force, !.tag = tag]),
           UNCHANGED <<apTag, apDir, apFile, apSilent>>
    PROVE  AppsInv'
<1>1. AppsTyped /\ UserFits(User(u))
  BY DEF AppsInv
<1>2. PICK old \in AppUsers : old = User(u)
  BY <1>1, AppUserFields
<1>3. tag \in Nat
  BY <1>1 DEF Detected, AppsTyped
<1>4. PICK w : w = [old EXCEPT !.at = "fetch", !.repo = repo, !.force = force, !.tag = tag]
  OBVIOUS
<1>5. /\ w \in AppUsers /\ w.at = "fetch" /\ w.repo = repo /\ w.registry = old.registry /\ w.read = old.read
  BY <1>3, <1>4 DEF AppUsers
<1>6. UserIs(u, w)
  BY <1>2, <1>4
<1>7. UserFits(w)
  BY <1>1, <1>2, <1>5 DEF UserFits
<1>8. apStale' = (apStale \/ \E v \in Installers : User(v).at # "rest" /\ Name(v) = repo.name)
  BY DEF Called
<1>9. ASSUME ~apStale', NEW n \in AppNames PROVE NameSound(n)'
  <2>1. NameSound(n) /\ \A v \in Installers : ~WorksOn(v, repo.name)
    BY <1>8, <1>9 DEF AppsInv, WorksOn
  <2>2. CASE n # repo.name
    <3>1. /\ apDir'[n] = apDir[n] /\ (n \in apSilent' <=> n \in apSilent)
          /\ (n \in DOMAIN apFile' <=> n \in DOMAIN apFile) /\ (n \in DOMAIN apFile => apFile'[n] = apFile[n])
      OBVIOUS
    <3>2. QED BY <1>1, <1>5, <1>6, <2>1, <2>2, <3>1, OtherNames
  <2>3. CASE n = repo.name
    <3>1. Kept(n)'
      BY <2>1, <2>3 DEF NameSound, Kept
    <3>2. UserSound(w)'
      BY <1>5 DEF UserSound
    <3>3. \A v \in Installers : WorksOn(v, n) => v = u
      BY <2>1, <2>3
    <3>4. QED BY <1>1, <1>5, <1>6, <2>3, <3>1, <3>2, <3>3, OwnName
  <2>4. QED BY <2>2, <2>3
<1>10. apStale' \in BOOLEAN
  BY <1>8
<1>11. QED BY <1>1, <1>5, <1>6, <1>7, <1>9, <1>10, UserKeeps DEF AppsTyped

LEMMA InstallKeeps ==
    ASSUME AppsInv, NEW u \in Installers, NEW repo \in AppRepos, NEW force \in BOOLEAN, Install(u, repo, force)
    PROVE  AppsInv'
<1>1. PICK tag \in Detected(repo) :
        UserIs(u, [User(u) EXCEPT !.at = "fetch", !.repo = repo, !.force = force, !.tag = tag])
  BY DEF Install
<1>2. User(u).at = "rest" /\ Called(repo) /\ UNCHANGED <<apTag, apDir, apFile, apSilent>>
  BY DEF Install
<1>3. QED BY <1>1, <1>2, FetchBegins

LEMMA UpdateKeeps ==
    ASSUME AppsInv, NEW u \in Installers, NEW n \in AppNames, Update(u, n) PROVE AppsInv'
<1>1. PICK repo : repo = User(u).registry[n].repo
  OBVIOUS
<1>2. repo \in AppRepos
  BY <1>1, AppUserFields, AppListParts DEF AppsInv, Update, Knows
<1>3. PICK tag \in Detected(repo) :
        UserIs(u, [User(u) EXCEPT !.at = "fetch", !.repo = repo, !.force = TRUE, !.tag = tag])
  BY <1>1 DEF Update
<1>4. User(u).at = "rest" /\ Called(repo) /\ UNCHANGED <<apTag, apDir, apFile, apSilent>>
  BY <1>1 DEF Update
<1>5. QED BY <1>2, <1>3, <1>4, FetchBegins

\* A name that u is at work on, when nothing is stale.
LEMMA WorkedOn ==
    ASSUME AppsInv, NEW u \in Installers, User(u).at # "rest"
    PROVE  /\ AppsTyped /\ User(u) \in AppUsers /\ UserFits(User(u)) /\ Name(u) \in AppNames
           /\ User(u).repo \in AppRepos
           /\ ~apStale => /\ \A v \in Installers : WorksOn(v, Name(u)) => v = u
                          /\ UserSound(User(u))
                          /\ User(u).at = "fetch" => Kept(Name(u))
<1>1. AppsTyped /\ UserFits(User(u))
  BY DEF AppsInv
<1>2. User(u).repo \in AppRepos /\ Name(u) \in AppNames
  BY <1>1 DEF UserFits, Name, AppNames
<1>3. ~apStale => NameSound(Name(u)) /\ WorksOn(u, Name(u))
  BY <1>2 DEF AppsInv, WorksOn
<1>4. QED BY <1>1, <1>2, <1>3, AppUserFields DEF NameSound

LEMMA FetchKeeps == ASSUME AppsInv, NEW u \in Installers, Fetch(u) PROVE AppsInv'
<1>1. PICK old : old = User(u)
  OBVIOUS
<1>2. PICK n : n = old.repo.name
  OBVIOUS
<1>3. PICK left : left = IF old.force THEN NoApp ELSE apDir[n]
  OBVIOUS
<1>4. PICK cloned : cloned = [repo |-> old.repo, tag |-> old.tag]
  OBVIOUS
<1>5. /\ old.at = "fetch" /\ UNCHANGED <<apTag, apFile, apStale>>
      /\ \/ /\ left = NoApp /\ apDir' = [apDir EXCEPT ![n] = cloned] /\ apSilent' = apSilent \ {n}
            /\ UserIs(u, [old EXCEPT !.at = "register"])
         \/ /\ apDir' = [apDir EXCEPT ![n] = left] /\ apSilent' = apSilent \cup {n}
            /\ UserIs(u, [old EXCEPT !.at = "register"])
         \/ /\ apDir' = [apDir EXCEPT ![n] = left]
            /\ apSilent' = IF left # apDir[n] THEN apSilent \cup {n} ELSE apSilent
            /\ UserIs(u, [old EXCEPT !.at = "rest"])
  BY <1>1, <1>2, <1>3, <1>4 DEF Fetch, Name
<1>6. /\ AppsTyped /\ old \in AppUsers /\ UserFits(old) /\ n \in AppNames /\ old.repo \in AppRepos
      /\ ~apStale => (\A v \in Installers : WorksOn(v, n) => v = u) /\ Kept(n)
  BY <1>1, <1>2, <1>5, WorkedOn DEF Name
<1>7. cloned \in Directories /\ left \in Directories
  <2>1. old.tag \in Nat
    BY <1>6 DEF AppUsers
  <2>2. NoApp \in Directories
    BY DEF NoApp, Directories
  <2>3. apDir[n] \in Directories
    BY <1>6 DEF AppsTyped
  <2>4. QED BY <1>3, <1>4, <1>6, <2>1, <2>2, <2>3 DEF Directories
<1>8. PICK w \in AppUsers, held \in {cloned, left} :
        /\ UserIs(u, w) /\ w.repo = old.repo /\ w.tag = old.tag /\ w.registry = old.registry /\ w.read = old.read
        /\ apDir' = [apDir EXCEPT ![n] = held] /\ w.at \in {"register", "rest"}
        /\ w.at = "register" => held = cloned \/ n \in apSilent'
        /\ w.at = "rest" => held = left /\ (left # apDir[n] => left = NoApp /\ n \in apSilent')
        /\ left = apDir[n] /\ n \in apSilent /\ w.at = "rest" => n \in apSilent'
        /\ \A m \in AppNames : m # n => (m \in apSilent' <=> m \in apSilent)
  <2>1. PICK go \in AppUsers : /\ go = [old EXCEPT !.at = "register"] /\ go.at = "register" /\ go.repo = old.repo
                               /\ go.tag = old.tag /\ go.registry = old.registry /\ go.read = old.read
    <3>1. [old EXCEPT !.at = "register"] \in AppUsers
      BY <1>6 DEF AppUsers
    <3>2. QED BY <1>6, <3>1 DEF AppUsers
  <2>2. PICK end \in AppUsers : /\ end = [old EXCEPT !.at = "rest"] /\ end.at = "rest" /\ end.repo = old.repo
                                /\ end.tag = old.tag /\ end.registry = old.registry /\ end.read = old.read
    <3>1. [old EXCEPT !.at = "rest"] \in AppUsers
      BY <1>6 DEF AppUsers
    <3>2. QED BY <1>6, <3>1 DEF AppUsers
  <2>3. left # apDir[n] => left = NoApp
    BY <1>3
  <2>4. CASE /\ left = NoApp /\ apDir' = [apDir EXCEPT ![n] = cloned] /\ apSilent' = apSilent \ {n}
             /\ UserIs(u, go)
    BY <2>1, <2>4
  <2>5. CASE apDir' = [apDir EXCEPT ![n] = left] /\ apSilent' = apSilent \cup {n} /\ UserIs(u, go)
    BY <2>1, <2>5
  <2>6. CASE /\ apDir' = [apDir EXCEPT ![n] = left]
             /\ apSilent' = (IF left # apDir[n] THEN apSilent \cup {n} ELSE apSilent) /\ UserIs(u, end)
    BY <2>2, <2>3, <2>6
  <2>7. QED BY <1>5, <2>1, <2>2, <2>4, <2>5, <2>6
<1>9. /\ apDir' \in [AppNames -> Directories] /\ apDir'[n] = held
      /\ \A m \in AppNames : m # n => apDir'[m] = apDir[m]
  BY <1>6, <1>7, <1>8 DEF AppsTyped
<1>10. UserFits(w)
  BY <1>6, <1>8 DEF UserFits
<1>11. ASSUME ~apStale', NEW m \in AppNames PROVE NameSound(m)'
  <2>1. NameSound(m) /\ ~apStale
    BY <1>5, <1>11 DEF AppsInv
  <2>2. CASE m # n
    <3>1. /\ apDir'[m] = apDir[m] /\ (m \in apSilent' <=> m \in apSilent)
          /\ (m \in DOMAIN apFile' <=> m \in DOMAIN apFile) /\ (m \in DOMAIN apFile => apFile'[m] = apFile[m])
      BY <1>5, <1>8, <1>9, <2>2
    <3>2. User(u).repo.name # m /\ w.repo.name # m
      BY <1>1, <1>2, <1>8, <2>2
    <3>3. QED BY <1>6, <1>8, <2>1, <3>1, <3>2, OtherNames
  <2>3. CASE m = n
    <3>1. Kept(n) /\ \A v \in Installers : WorksOn(v, n) => v = u
      BY <1>6, <2>1
    <3>2. w.at = "rest" => Kept(n)'
      <4> SUFFICES ASSUME w.at = "rest" PROVE Kept(n)'
        OBVIOUS
      <4>1. apDir'[n] = left /\ apFile' = apFile
        BY <1>5, <1>8, <1>9
      <4>2. CASE left = apDir[n]
        BY <1>8, <3>1, <4>1, <4>2 DEF Kept
      <4>3. CASE left # apDir[n]
        BY <1>8, <3>1, <4>1, <4>3 DEF Kept
      <4>4. QED BY <4>2, <4>3
    <3>3. w.repo.name = n /\ UserSound(w)'
      BY <1>2, <1>4, <1>8, <1>9 DEF UserSound
    <3>4. w.at \in {"rest", "fetch"} => Kept(m)'
      BY <1>8, <2>3, <3>2
    <3>5. w.at # "rest" => w.repo.name = m /\ UserSound(w)'
      BY <2>3, <3>3
    <3>6. QED BY <1>6, <1>8, <2>3, <3>1, <3>4, <3>5, OwnName
  <2>4. QED BY <2>2, <2>3
<1>12. QED BY <1>5, <1>6, <1>8, <1>9, <1>10, <1>11, UserKeeps DEF AppsTyped

\* A registry is saved: nothing but the entry of u's name changes, or it is stale.
LEMMA SaveKeeps ==
    ASSUME AppsInv, NEW u \in Installers, User(u).at \in {"register", "forget"}, NEW list \in AppLists,
           NEW n, n = Name(u), SaveApps(u, list), UNCHANGED <<apTag, apDir, apSilent>>,
           \A m \in AppNames : m # n =>
             /\ m \in DOMAIN list <=> m \in DOMAIN User(u).registry
             /\ m \in DOMAIN list => list[m] = User(u).registry[m],
           ~apStale => Kept(n)'
    PROVE  AppsInv'
<1>1. PICK old : old = User(u)
  OBVIOUS
<1>2. n = old.repo.name
  BY <1>1 DEF Name
<1>3. /\ AppsTyped /\ old \in AppUsers /\ UserFits(old) /\ n \in AppNames
      /\ ~apStale => \A v \in Installers : WorksOn(v, n) => v = u
  BY <1>1, <1>2, WorkedOn DEF Name
<1>4. PICK w \in AppUsers : /\ w = [old EXCEPT !.at = "rest", !.registry = list, !.read = list]
                            /\ w.at = "rest" /\ w.registry = list /\ w.read = list
  <2>1. [old EXCEPT !.at = "rest", !.registry = list, !.read = list] \in AppUsers
    BY <1>3 DEF AppUsers
  <2>2. QED BY <1>3, <2>1 DEF AppUsers
<1>5. apFile' = list /\ apStale' = (apStale \/ old.read # apFile) /\ UserIs(u, w)
  BY <1>1, <1>4 DEF SaveApps
<1>6. UserFits(w)
  BY <1>4 DEF UserFits
<1>7. ASSUME ~apStale', NEW m \in AppNames PROVE NameSound(m)'
  <2>1. NameSound(m) /\ ~apStale /\ old.registry = apFile
    BY <1>3, <1>5, <1>7 DEF AppsInv, UserFits
  <2>2. CASE m # n
    <3>1. /\ apDir'[m] = apDir[m] /\ (m \in apSilent' <=> m \in apSilent)
          /\ (m \in DOMAIN apFile' <=> m \in DOMAIN apFile) /\ (m \in DOMAIN apFile => apFile'[m] = apFile[m])
      BY <1>1, <1>2, <1>5, <2>1, <2>2 DEF Name
    <3>2. User(u).repo.name # m
      BY <1>1, <1>2, <2>2
    <3>3. QED BY <1>3, <1>4, <1>5, <2>1, <3>1, <3>2, OtherNames
  <2>3. CASE m = n
    <3>1. Kept(m)'
      BY <2>1, <2>3
    <3>2. \A v \in Installers : WorksOn(v, m) => v = u
      BY <1>3, <2>1, <2>3
    <3>3. QED BY <1>3, <1>4, <1>5, <3>1, <3>2, OwnName
  <2>4. QED BY <2>2, <2>3
<1>8. apStale' \in BOOLEAN
  BY <1>3, <1>5 DEF AppsTyped
<1>9. QED BY <1>3, <1>4, <1>5, <1>6, <1>7, <1>8, UserKeeps DEF AppsTyped

LEMMA RegisterKeeps == ASSUME AppsInv, NEW u \in Installers, RegisterApp(u) PROVE AppsInv'
<1>1. PICK old : old = User(u)
  OBVIOUS
<1>2. PICK n : n = old.repo.name
  OBVIOUS
<1>3. PICK app : app = [repo |-> old.repo, tag |-> old.tag]
  OBVIOUS
<1>4. PICK list : list = Listed(old.registry, n, app)
  OBVIOUS
<1>5. old.at = "register" /\ SaveApps(u, list) /\ UNCHANGED <<apTag, apDir, apSilent>>
  BY <1>1, <1>2, <1>3, <1>4 DEF RegisterApp, Name
<1>6. /\ AppsTyped /\ old \in AppUsers /\ n \in AppNames /\ old.repo \in AppRepos
      /\ old.registry \in AppLists /\ old.tag \in Nat
      /\ ~apStale => apDir[n] = app \/ n \in apSilent
  BY <1>1, <1>2, <1>3, <1>5, WorkedOn, AppUserFields DEF Name, UserSound
<1>7. /\ list = [m \in DOMAIN old.registry \cup {n} |-> IF m = n THEN app ELSE old.registry[m]]
      /\ app \in AppRecords /\ app.repo.name = n
  BY <1>2, <1>3, <1>4, <1>6 DEF Listed, AppRecords
<1>8. list \in AppLists
  <2>1. /\ DOMAIN old.registry \subseteq AppNames
        /\ \A m \in DOMAIN old.registry : old.registry[m] \in AppRecords /\ old.registry[m].repo.name = m
    BY <1>6, AppListParts
  <2>2. /\ list \in [DOMAIN old.registry \cup {n} -> AppRecords]
        /\ \A m \in DOMAIN old.registry \cup {n} : list[m].repo.name = m
    BY <1>7, <2>1
  <2>3. QED BY <1>6, <2>1, <2>2, MakesAppList
<1>9. \A m \in AppNames : m # n =>
        /\ m \in DOMAIN list <=> m \in DOMAIN User(u).registry
        /\ m \in DOMAIN list => list[m] = User(u).registry[m]
  BY <1>1, <1>2, <1>7 DEF Name
<1>10. ~apStale => Kept(n)'
  <2>1. n \in DOMAIN list /\ list[n] = app
    BY <1>7
  <2>2. apFile' = list
    BY <1>5 DEF SaveApps
  <2>3. QED BY <1>5, <1>6, <2>1, <2>2 DEF Kept
<1>11. User(u).at \in {"register", "forget"} /\ n = Name(u)
  BY <1>1, <1>2, <1>5 DEF Name
<1>12. QED BY <1>5, <1>8, <1>9, <1>10, <1>11, SaveKeeps

LEMMA ForgetKeeps == ASSUME AppsInv, NEW u \in Installers, ForgetApp(u) PROVE AppsInv'
<1>1. PICK old : old = User(u)
  OBVIOUS
<1>2. PICK n : n = old.repo.name
  OBVIOUS
<1>3. PICK list : list = [m \in DOMAIN old.registry \ {n} |-> old.registry[m]]
  OBVIOUS
<1>4. old.at = "forget" /\ SaveApps(u, list) /\ UNCHANGED <<apTag, apDir, apSilent>>
  BY <1>1, <1>2, <1>3 DEF ForgetApp, Name
<1>5. /\ AppsTyped /\ old \in AppUsers /\ n \in AppNames
      /\ old.registry \in AppLists
      /\ ~apStale => apDir[n] = NoApp
  BY <1>1, <1>2, <1>4, WorkedOn, AppUserFields DEF Name, UserSound
<1>6. list \in AppLists
  <2>1. /\ DOMAIN old.registry \subseteq AppNames
        /\ \A m \in DOMAIN old.registry : old.registry[m] \in AppRecords /\ old.registry[m].repo.name = m
    BY <1>5, AppListParts
  <2>2. /\ list \in [DOMAIN old.registry \ {n} -> AppRecords]
        /\ \A m \in DOMAIN old.registry \ {n} : list[m].repo.name = m
    BY <1>3, <2>1
  <2>3. QED BY <2>1, <2>2, MakesAppList
<1>7. \A m \in AppNames : m # n =>
        /\ m \in DOMAIN list <=> m \in DOMAIN User(u).registry
        /\ m \in DOMAIN list => list[m] = User(u).registry[m]
  BY <1>1, <1>2, <1>3 DEF Name
<1>8. ~apStale => Kept(n)'
  <2>1. n \notin DOMAIN list
    BY <1>3
  <2>2. apFile' = list
    BY <1>4 DEF SaveApps
  <2>3. QED BY <1>4, <1>5, <2>1, <2>2 DEF Kept
<1>9. User(u).at \in {"register", "forget"} /\ n = Name(u)
  BY <1>1, <1>2, <1>4 DEF Name
<1>10. QED BY <1>4, <1>6, <1>7, <1>8, <1>9, SaveKeeps

LEMMA RemoveKeeps == ASSUME AppsInv, NEW u \in Installers, NEW n \in AppNames, RemoveApp(u, n) PROVE AppsInv'
<1>1. PICK old : old = User(u)
  OBVIOUS
<1>2. PICK repo : repo = old.registry[n].repo
  OBVIOUS
<1>3. /\ old.at = "rest" /\ n \in DOMAIN old.registry /\ Called(repo)
      /\ apDir' = [apDir EXCEPT ![n] = NoApp] /\ apSilent' = apSilent \ {n}
      /\ UserIs(u, [old EXCEPT !.at = "forget", !.repo = repo]) /\ UNCHANGED <<apTag, apFile>>
  BY <1>1, <1>2 DEF RemoveApp, Knows
<1>4. AppsTyped /\ old \in AppUsers /\ UserFits(old) /\ old.registry \in AppLists
  BY <1>1, AppUserFields DEF AppsInv
<1>5. repo \in AppRepos /\ repo.name = n
  BY <1>2, <1>3, <1>4, AppListParts
<1>6. PICK w \in AppUsers : /\ w = [old EXCEPT !.at = "forget", !.repo = repo]
                            /\ w.at = "forget" /\ w.repo = repo /\ w.registry = old.registry /\ w.read = old.read
  <2>1. [old EXCEPT !.at = "forget", !.repo = repo] \in AppUsers
    BY <1>4, <1>5 DEF AppUsers
  <2>2. QED BY <1>4, <2>1 DEF AppUsers
<1>7. UserIs(u, w) /\ UserFits(w)
  BY <1>3, <1>4, <1>5, <1>6 DEF UserFits
<1>8. /\ apDir' \in [AppNames -> Directories] /\ apDir'[n] = NoApp
      /\ \A m \in AppNames : m # n => apDir'[m] = apDir[m]
  <2>1. NoApp \in Directories
    BY DEF NoApp, Directories
  <2>2. QED BY <1>3, <1>4, <2>1 DEF AppsTyped
<1>9. apStale' = (apStale \/ \E v \in Installers : User(v).at # "rest" /\ Name(v) = n)
  BY <1>3, <1>5 DEF Called
<1>10. ASSUME ~apStale', NEW m \in AppNames PROVE NameSound(m)'
  <2>1. NameSound(m) /\ \A v \in Installers : ~WorksOn(v, n)
    BY <1>9, <1>10 DEF AppsInv, WorksOn
  <2>2. CASE m # n
    <3>1. /\ apDir'[m] = apDir[m] /\ (m \in apSilent' <=> m \in apSilent)
          /\ (m \in DOMAIN apFile' <=> m \in DOMAIN apFile) /\ (m \in DOMAIN apFile => apFile'[m] = apFile[m])
      BY <1>3, <1>8, <2>2
    <3>2. User(u).at = "rest" /\ w.repo.name # m
      BY <1>1, <1>3, <1>5, <1>6, <2>2
    <3>3. QED BY <1>4, <1>7, <2>1, <3>1, <3>2, OtherNames
  <2>3. CASE m = n
    <3>1. w.at # "rest" => w.repo.name = m /\ UserSound(w)'
      BY <1>5, <1>6, <1>8, <2>3 DEF UserSound
    <3>2. w.at \in {"rest", "fetch"} => Kept(m)'
      BY <1>6
    <3>3. \A v \in Installers : WorksOn(v, m) => v = u
      BY <2>1, <2>3
    <3>4. QED BY <1>4, <1>7, <3>1, <3>2, <3>3, OwnName
  <2>4. QED BY <2>2, <2>3
<1>11. apStale' \in BOOLEAN
  BY <1>9
<1>12. QED BY <1>3, <1>4, <1>7, <1>8, <1>10, <1>11, UserKeeps DEF AppsTyped

LEMMA ReleaseKeeps == ASSUME AppsInv, NEW r \in AppRepos, Release(r) PROVE AppsInv'
<1>1. apTag' \in [AppRepos -> Nat]
  <2>1. PICK tag \in Nat : tag = apTag[r] /\ apTag' = [apTag EXCEPT ![r] = tag + 1]
    BY DEF Release, AppsInv, AppsTyped
  <2>2. QED BY <2>1 DEF AppsInv, AppsTyped
<1>2. UNCHANGED <<apDir, apFile, apUser, apSilent, apStale>>
  BY DEF Release
<1>3. QED BY <1>1, <1>2 DEF AppsInv, AppsTyped, UserFits, NameSound, WorksOn, UserSound, Kept, User, Name

LEMMA AppsStep == AppsInv /\ [AppsNext]_apVars => AppsInv'
<1> SUFFICES ASSUME AppsInv, [AppsNext]_apVars PROVE AppsInv'
  OBVIOUS
<1>1. CASE UNCHANGED apVars
  BY <1>1 DEF apVars, AppsInv, AppsTyped, UserFits, NameSound, WorksOn, UserSound, Kept, User, Name
<1>2. CASE AppsNext
  BY <1>2, OpenKeeps, FetchKeeps, RegisterKeeps, ForgetKeeps, InstallKeeps, UpdateKeeps, RemoveKeeps, ReleaseKeeps
     DEF AppsNext
<1>3. QED BY <1>1, <1>2

LEMMA AppsInductive == AppsSpec => []AppsInv
BY AppsStart, AppsStep, PTL DEF AppsSpec

-----------------------------------------------------------------------------
\* A node acts in its own sandbox, unless the shared context leads it to one whose node
\* started in its time, or the registry to one that was not complete when its own was made;
\* its trace has what it did there, and no more than the strays and sharers explain. And an
\* application or a forged tool that is listed is there, but for the races and
\* failures that the code does not see (SpindleToolBridge.execute_node,
\* AppInstaller.install, forge_tool): for every set of agents, roles, repositories, tasks.
THEOREM ToolsAreOwn == BridgeSpec /\ AppsSpec /\ ForgeSpec => []ToolsAreOnesOwn
<1>1. ASSUME AppsInv PROVE AppsAreThere /\ InstalledIsListed
  <2>1. ASSUME ~apStale, \A u \in Installers : User(u).at = "rest", NEW n \in AppNames PROVE Kept(n)
    BY <1>1, <2>1 DEF AppsInv, NameSound, WorksOn
  <2>2. DOMAIN apFile \subseteq AppNames
    BY <1>1, AppListParts DEF AppsInv, AppsTyped
  <2>3. QED BY <2>1, <2>2 DEF Kept, AppsAreThere, InstalledIsListed
<1>2. BridgeInv /\ AppsInv /\ ForgeInv => ToolsAreOnesOwn
  BY <1>1 DEF BridgeInv, ForgeInv, ToolsAreOnesOwn, AppToolsAreKept
<1>3. QED BY <1>2, BridgeInductive, AppsInductive, ForgeInductive, PTL
=============================================================================
