------------------------------ MODULE EventBuses ------------------------------
(* AgentBus (agents/core/agent_bus.py): synchronous delivery of messages to the
   handlers of registered agents. There is no queue and no lock: a handler runs
   inside the send() that reached it, and may itself send, register and
   unregister agents while the bus is iterating over its own dictionary.

   abSlots is the dictionary _handlers in insertion order; a removed key leaves
   an empty slot, as CPython leaves one, and iteration raises RuntimeError when
   the number of keys is not what it was when the loop began. *)
EXTENDS Naturals, Sequences, FiniteSets, SequencesExt

CONSTANTS Agents,         \* agent ids
          MaxMessages,    \* bound on the messages sent
          MaxHandlers,    \* bound on the handlers registered at a time
          MaxSlots,       \* bound on the registrations
          MaxDeadLetters  \* _max_dead_letters

Nobody == "nobody"
ASSUME NobodyAssumption == Nobody \notin Agents

VARIABLES abSlots,     \* agent ids in dictionary order, Nobody for a removed one
          abCount,     \* handlers of each agent, 0 when not registered
          abMsgs,      \* per message: from, status, ended, and owed: the handlers it
                       \* has still to reach, of those its addressees had at first
          abStack,     \* the calls of send() in progress, innermost last
          abDead       \* dead-letter list: message numbers
abVars == <<abSlots, abCount, abMsgs, abStack, abDead>>
abAgents == <<abSlots, abCount>>

AgentBusInit ==
  /\ abSlots = <<>> /\ abCount = [a \in Agents |-> 0]
  /\ abMsgs = <<>> /\ abStack = <<>> /\ abDead = <<>>

Keys == {a \in Agents : abCount[a] > 0}
Top == Last(abStack)
Pop == SubSeq(abStack, 1, Len(abStack) - 1)
SetTop(call) == Append(Pop, call)
InHandler == abStack # <<>> /\ Top.run
MayCall == abStack = <<>> \/ InHandler

\* _to_dead_letter: the oldest letters make room.
WithDeadLetter(dead, m) ==
  LET all == Append(dead, m) IN SubSeq(all, IF Len(all) > MaxDeadLetters THEN 2 ELSE 1, Len(all))
Fail(m) == abDead' = WithDeadLetter(abDead, m)

\* register_agent, from outside or from a handler; a handler list being iterated grows.
Register(a) ==
  /\ MayCall /\ SumFunction(abCount) < MaxHandlers /\ Len(abSlots) < MaxSlots
  /\ abCount' = [abCount EXCEPT ![a] = @ + 1]
  /\ abSlots' = IF a \in Keys THEN abSlots ELSE Append(abSlots, a)
  /\ abStack' = [i \in DOMAIN abStack |->
       IF a \in Keys /\ abStack[i].cur = a /\ abStack[i].live
       THEN [abStack[i] EXCEPT !.n = @ + 1] ELSE abStack[i]]
  /\ UNCHANGED <<abMsgs, abDead>>

\* unregister_agent: a list being iterated lives on without its key.
Unregister(a) ==
  /\ MayCall /\ a \in Keys
  /\ abCount' = [abCount EXCEPT ![a] = 0]
  /\ abSlots' = [i \in DOMAIN abSlots |-> IF abSlots[i] = a THEN Nobody ELSE abSlots[i]]
  /\ abStack' = [i \in DOMAIN abStack |->
       IF abStack[i].cur = a THEN [abStack[i] EXCEPT !.live = FALSE] ELSE abStack[i]]
  /\ abMsgs' = [m \in DOMAIN abMsgs |-> [abMsgs[m] EXCEPT !.owed[a] = 0]]
  /\ UNCHANGED abDead

NewMessage(from, status, owed) ==
  abMsgs' = Append(abMsgs, [from |-> from, status |-> status, owed |-> owed,
                            ended |-> status # "pending"])
Call(mode, group, cur, n) ==
  abStack' = Append(abStack, [msg |-> Len(abMsgs) + 1, mode |-> mode, group |-> group,
     cur |-> cur, h |-> 1, n |-> n, live |-> TRUE, pos |-> 1,
     size |-> Cardinality(Keys), reached |-> FALSE, run |-> FALSE])

\* send() of a direct message, a request or a reply.
SendDirect(from, to) ==
  /\ MayCall /\ Len(abMsgs) < MaxMessages
  /\ IF to \in Keys
     THEN /\ NewMessage(from, "pending", [a \in Agents |-> IF a = to THEN abCount[a] ELSE 0])
          /\ Call("direct", {}, to, abCount[to])
          /\ UNCHANGED abDead
     ELSE /\ NewMessage(from, "dead_letter", [a \in Agents |-> 0])
          /\ Fail(Len(abMsgs) + 1)
          /\ UNCHANGED abStack
  /\ UNCHANGED abAgents

\* broadcast(): to everybody, then to the group once more.
Broadcast(from, group) ==
  /\ MayCall /\ Len(abMsgs) < MaxMessages
  /\ NewMessage(from, "pending", [a \in Agents |-> IF a = from THEN 0 ELSE abCount[a]])
  /\ Call("all", group, Nobody, 0)
  /\ UNCHANGED <<abAgents, abDead>>

Turn(a) == [Top EXCEPT !.cur = a, !.h = 1, !.n = abCount[a], !.live = TRUE, !.reached = TRUE]
\* The loop asks for its next agent: no agent yet, or the last one's handlers are through.
AtTurn(mode) == abStack # <<>> /\ Top.mode = mode /\ ~Top.run /\ Top.h > Top.n
Resized == Cardinality(Keys) # Top.size

\* A broadcast that found no other agent failed, but is no dead letter.
SettleEmpty(m) == IF Top.reached THEN m ELSE [m EXCEPT !.status = "failed"]

\* One step of "for agent_id in self._handlers" of _broadcast.
NextAgent ==
  /\ AtTurn("all") /\ ~Resized
  /\ IF Top.pos > Len(abSlots)
     THEN /\ abStack' = SetTop([Top EXCEPT !.mode = "group"])
          /\ abMsgs' = [abMsgs EXCEPT ![Top.msg] = SettleEmpty(@)]
     ELSE /\ LET a == abSlots[Top.pos] IN
             abStack' = SetTop([IF a \in {Nobody, abMsgs[Top.msg].from} THEN Top ELSE Turn(a)
                                EXCEPT !.pos = Top.pos + 1])
          /\ UNCHANGED abMsgs
  /\ UNCHANGED <<abAgents, abDead>>

\* RuntimeError leaves send(); a handler it was called from may raise in turn.
IterationRaises ==
  /\ AtTurn("all") /\ Resized
  /\ abStack' = Pop
  /\ UNCHANGED <<abAgents, abMsgs, abDead>>

GroupServes(a) == a \in Keys /\ a # abMsgs[Top.msg].from
NextInGroup(a) ==
  /\ AtTurn("group") /\ a \in Top.group
  /\ abStack' = SetTop([IF GroupServes(a) THEN Turn(a) ELSE Top EXCEPT !.group = @ \ {a}])
  /\ UNCHANGED <<abAgents, abMsgs, abDead>>

SendReturns ==
  /\ AtTurn("direct") \/ (AtTurn("group") /\ Top.group = {})
  /\ abStack' = Pop
  /\ abMsgs' = [abMsgs EXCEPT ![Top.msg].ended = TRUE]
  /\ UNCHANGED <<abAgents, abDead>>

\* _deliver_to: the handlers of one agent, each in its own try block.
BeginHandler ==
  /\ abStack # <<>> /\ ~Top.run /\ Top.h <= Top.n
  /\ abStack' = SetTop([Top EXCEPT !.run = TRUE])
  /\ abMsgs' = [abMsgs EXCEPT ![Top.msg].owed[Top.cur] = IF @ = 0 THEN 0 ELSE @ - 1]
  /\ UNCHANGED <<abAgents, abDead>>

HandlerReturns ==
  /\ InHandler
  /\ abStack' = SetTop([Top EXCEPT !.run = FALSE, !.h = @ + 1])
  /\ abMsgs' = [abMsgs EXCEPT ![Top.msg].status = "delivered"]
  /\ UNCHANGED <<abAgents, abDead>>

\* Mutant: the first handler that raises ends its agent's turn.
AfterFailureBreak == [Top EXCEPT !.run = FALSE, !.h = Top.n + 1]
AfterFailure == [Top EXCEPT !.run = FALSE, !.h = @ + 1]
HandlerRaises ==
  /\ InHandler
  /\ abStack' = SetTop(AfterFailure)
  /\ abMsgs' = [abMsgs EXCEPT ![Top.msg].status = "dead_letter"]
  /\ Fail(Top.msg)
  /\ UNCHANGED abAgents

ClearDeadLetters ==
  /\ abStack = <<>> /\ abDead # <<>>
  /\ abDead' = <<>>
  /\ UNCHANGED <<abAgents, abMsgs, abStack>>

AgentBusNext ==
  \/ \E a \in Agents : Register(a) \/ Unregister(a) \/ NextInGroup(a)
  \/ \E f, t \in Agents : SendDirect(f, t)
  \/ \E f \in Agents, g \in SUBSET Agents : Broadcast(f, g)
  \/ NextAgent \/ IterationRaises \/ SendReturns \/ BeginHandler
  \/ HandlerReturns \/ HandlerRaises \/ ClearDeadLetters

AgentBusSpec == AgentBusInit /\ [][AgentBusNext]_abVars

-----------------------------------------------------------------------------
\* A send() that returns has called every handler its addressees had when it was
\* sent, whatever the handlers raised, sent or registered meanwhile; agents
\* unregistered on the way are excepted (_broadcast, _deliver_to).
ReturnedSendReachedAll ==
  \A i \in DOMAIN abMsgs : abMsgs[i].ended => \A a \in Agents : abMsgs[i].owed[a] = 0

\* ... and it has settled the message: none is left pending.
ReturnedSendIsSettled == \A i \in DOMAIN abMsgs : abMsgs[i].ended => abMsgs[i].status # "pending"

\* A broadcast is never handled by its own sender, not even through the group.
NoEcho ==
  \A i \in DOMAIN abStack : abStack[i].mode # "direct" => abStack[i].cur # abMsgs[abStack[i].msg].from

-----------------------------------------------------------------------------
(* SpindleEventBus (agents/core/event_bus.py) inside one process. publish() is
   called by the agents and, for replicated events, by the listener thread of
   RedisTransport; subscribe() and unsubscribe() take no lock. A publish iterates
   over the list object it found; subscribe appends to that object in place;
   unsubscribe builds a new list and puts it in the dictionary.
   The event history and check_intersection are left out. *)
CONSTANTS Subs,        \* subscriptions, each with a subscriber_id of its own
          Mutators,    \* threads that subscribe and unsubscribe
          Publishers,  \* threads that publish
          MaxLists     \* bound on the list objects created

VARIABLES ebLists,   \* the list objects, as sequences of subscriptions
          ebBucket,  \* the list object in the dictionary for this event type
          ebMut,     \* per mutator: op ("none", "sub", "unsub"), the subscription, and
                     \* what it has read: a list object or a filtered list
          ebPub,     \* per publisher: list object, position, and the subscriptions that
                     \* were already gone when it began
          ebPaused,  \* _paused
          ebOn,      \* history: subscriptions whose subscribe() has returned
          ebGone,    \* history: subscriptions whose unsubscribe() has returned
          ebRaced    \* history: an unsubscribe and another mutator overlapped
ebVars == <<ebLists, ebBucket, ebMut, ebPub, ebPaused, ebOn, ebGone, ebRaced>>
ebHist == <<ebOn, ebGone>>

NoOp == [op |-> "none", sub |-> "none", list |-> 0, kept |-> <<>>]
NoPub == [list |-> 0, pos |-> 1, gone |-> {}, calling |-> {}]

EventBusInit ==
  /\ ebLists = <<<<>>>> /\ ebBucket = 1
  /\ ebMut = [t \in Mutators |-> NoOp] /\ ebPub = [t \in Publishers |-> NoPub]
  /\ ebPaused = FALSE /\ ebOn = {} /\ ebGone = {} /\ ebRaced = FALSE

Overlaps(op) == \E u \in Mutators : ebMut[u].op # "none" /\ "unsub" \in {op, ebMut[u].op}
Begin(t, op) ==
  /\ ebMut[t].op = "none"
  /\ ebMut' = [ebMut EXCEPT ![t] = op]
  /\ ebRaced' = (ebRaced \/ Overlaps(op.op))

\* subscribe: find the list, then append to it.
BeginSubscribe(t, s) ==
  /\ s \notin ebOn \cup ebGone /\ \A u \in Mutators : ebMut[u].sub # s
  /\ Begin(t, [op |-> "sub", sub |-> s, list |-> ebBucket, kept |-> <<>>])
  /\ UNCHANGED <<ebLists, ebBucket, ebPub, ebPaused, ebHist>>
EndSubscribe(t) ==
  /\ ebMut[t].op = "sub"
  /\ ebLists' = [ebLists EXCEPT ![ebMut[t].list] = Append(@, ebMut[t].sub)]
  /\ ebOn' = ebOn \cup {ebMut[t].sub}
  /\ ebMut' = [ebMut EXCEPT ![t] = NoOp]
  /\ UNCHANGED <<ebBucket, ebPub, ebPaused, ebGone, ebRaced>>

\* unsubscribe: filter the list, then put the filtered copy in its place.
Kept(list, s) ==
  LET kept[k \in 0 .. Len(list)] ==
        IF k = 0 THEN <<>> ELSE IF list[k] # s THEN Append(kept[k - 1], list[k]) ELSE kept[k - 1]
  IN kept[Len(list)]
BeginUnsubscribe(t, s) ==
  /\ s \in ebOn /\ Len(ebLists) < MaxLists /\ \A u \in Mutators : ebMut[u].sub # s
  /\ Begin(t, [op |-> "unsub", sub |-> s, list |-> 0, kept |-> Kept(ebLists[ebBucket], s)])
  /\ UNCHANGED <<ebLists, ebBucket, ebPub, ebPaused, ebHist>>
EndUnsubscribe(t) ==
  /\ ebMut[t].op = "unsub"
  /\ ebLists' = Append(ebLists, ebMut[t].kept) /\ ebBucket' = Len(ebLists) + 1
  /\ ebOn' = ebOn \ {ebMut[t].sub} /\ ebGone' = ebGone \cup {ebMut[t].sub}
  /\ ebMut' = [ebMut EXCEPT ![t] = NoOp]
  /\ UNCHANGED <<ebPub, ebPaused, ebRaced>>

BeginPublish(p) ==
  /\ ebPub[p].list = 0 /\ ~ebPaused
  /\ ebPub' = [ebPub EXCEPT ![p] = [list |-> ebBucket, pos |-> 1, gone |-> ebGone, calling |-> {}]]
  /\ UNCHANGED <<ebLists, ebBucket, ebMut, ebPaused, ebHist, ebRaced>>

\* The next callback; one that raises is logged and the loop goes on.
CallNext(p) ==
  LET pub == ebPub[p] IN
  /\ pub.list # 0
  /\ ebPub' = [ebPub EXCEPT ![p] =
       IF pub.pos > Len(ebLists[pub.list]) THEN NoPub
       ELSE [pub EXCEPT !.pos = @ + 1, !.calling = {ebLists[pub.list][pub.pos]}]]
  /\ UNCHANGED <<ebLists, ebBucket, ebMut, ebPaused, ebHist, ebRaced>>

PauseOrResume ==
  /\ ebPaused' = ~ebPaused
  /\ UNCHANGED <<ebLists, ebBucket, ebMut, ebPub, ebHist, ebRaced>>

EventBusNext ==
  \/ \E t \in Mutators, s \in Subs : BeginSubscribe(t, s) \/ BeginUnsubscribe(t, s)
  \/ \E t \in Mutators : EndSubscribe(t) \/ EndUnsubscribe(t)
  \/ \E p \in Publishers : BeginPublish(p) \/ CallNext(p)
  \/ PauseOrResume

EventBusSpec == EventBusInit /\ [][EventBusNext]_ebVars

-----------------------------------------------------------------------------
\* A subscription that subscribe() returned for and nobody cancelled is in the
\* list that the next publish finds. Only an unsubscribe that overlapped another call can
\* have lost it (the append went to a list already replaced).
SubscriptionLostOnlyByRace ==
  \/ ebRaced
  \/ \A s \in ebOn : Contains(ebLists[ebBucket], s)

\* A callback is called after its unsubscribe() returned only by a publish that
\* had already begun, or after an unsubscribe overlapped another call and an
\* older copy of the list brought it back.
LateCallbackIsExplained ==
  \A p \in Publishers : ebPub[p].calling \cap ebPub[p].gone # {} => ebRaced

\* Both buses reach the handlers they owe: a broadcast all its addressees and never its
\* sender, a publish all its subscribers, unless two of them raced (AgentBus.send, EventBus.publish).
BusesReachTheirHandlers ==
  /\ ReturnedSendReachedAll /\ ReturnedSendIsSettled /\ NoEcho
  /\ SubscriptionLostOnlyByRace /\ LateCallbackIsExplained
=============================================================================
