------------------------------ MODULE Executor ------------------------------
(***************************************************************************)
(* The agent executor (agents/core/main.py): one process that reads the    *)
(* "intents" stream as consumer executor-1 of the group executor-group,    *)
(* executes each entry and acknowledges it.  The stream, the group's       *)
(* cursor and its pending list live in Redis and survive the process.      *)
(***************************************************************************)
EXTENDS Integers, Sequences, FiniteSets

CONSTANTS
    EntryModes,    \* modes a producer writes: "hlf", "text", "bytecode", "raw"
    MaxEntries,    \* bound on the stream
    None

ASSUME EntryModesAssumption == EntryModes \subseteq {"hlf", "text", "bytecode", "raw"}
ASSUME ExecNoneAssumption == None \notin Nat

VARIABLES
    stream,        \* the entries, oldest first; each has a field "mode"
    cursor,        \* last entry delivered to the group
    pel,           \* pending entries: delivered, not acknowledged
    proc,          \* where run() is: "down", "reading", "executing", "acking"
    entry,         \* the entry in hand, or None
    ran            \* (entry, engine) pairs of the executions so far, a sequence

execVars == <<cursor, pel, proc, entry, ran>>
vars == <<stream, execVars>>

Engines == {"hlfrun", "ollama", "rejected"}

ExecInit ==
    /\ cursor = 0 /\ pel = {}
    /\ proc = "down" /\ entry = None
    /\ ran = <<>>

\* Mutants: the group is created anew at id 0; BUSYGROUP is not suppressed.
StartFromZero ==
    /\ proc = "down"
    /\ proc' = "reading" /\ cursor' = 0
    /\ UNCHANGED <<stream, pel, entry, ran>>
StartOnce ==
    /\ proc = "down" /\ cursor = 0
    /\ proc' = "reading"
    /\ UNCHANGED <<stream, cursor, pel, entry, ran>>

\* run(): connect, create the group if it is missing, read from ">".
Start ==
    /\ proc = "down"
    /\ proc' = "reading"
    /\ UNCHANGED <<stream, cursor, pel, entry, ran>>

\* Mutants: waits for a second entry; reads with NOACK.
HasTwoNew == cursor + 1 < Len(stream)
PendingNoAck(k) == pel

HasNew == cursor < Len(stream)
Pending(k) == pel \cup {k}

\* XREADGROUP ... ">" COUNT 1: only entries never delivered to the group.
Read ==
    /\ proc = "reading"
    /\ HasNew
    /\ cursor' = cursor + 1
    /\ pel' = Pending(cursor + 1)
    /\ entry' = cursor + 1
    /\ proc' = "executing"
    /\ UNCHANGED <<stream, ran>>

\* XREADGROUP raises: the outer handler logs and run() returns.
ReadError ==
    /\ proc = "reading"
    /\ proc' = "down"
    /\ UNCHANGED <<stream, cursor, pel, entry, ran>>

\* Producers other than "raw" put an "ast" in the payload; without one
\* execute_intent asks Ollama for a program, or refuses an empty text.
HasAst(mode) == mode # "raw"
EnginesFor(mode) == IF HasAst(mode) THEN {"hlfrun"} ELSE {"ollama", "rejected"}

\* execute_intent returns a result, with code 0 or 1.
Execute ==
    /\ proc = "executing"
    /\ \E engine \in EnginesFor(stream[entry].mode) :
          ran' = Append(ran, <<entry, engine>>)
    /\ proc' = "acking"
    /\ UNCHANGED <<stream, cursor, pel, entry>>

\* execute_intent (or json.loads) raises: logged, no XACK, next entry.
ExecuteError ==
    /\ proc = "executing"
    /\ proc' = "reading" /\ entry' = None
    /\ UNCHANGED <<stream, cursor, pel, ran>>

\* XACK; an exception it raises is caught by the same handler.
Ack ==
    /\ proc = "acking"
    /\ pel' \in {pel \ {entry}, pel}
    /\ proc' = "reading" /\ entry' = None
    /\ UNCHANGED <<stream, cursor, ran>>

\* The process dies, at any point of the loop.
Crash ==
    /\ proc # "down"
    /\ proc' = "down" /\ entry' = None
    /\ UNCHANGED <<stream, cursor, pel, ran>>

ExecNext ==
    Start \/ Read \/ ReadError \/ Execute \/ ExecuteError \/ Ack \/ Crash

\* A producer appends an entry: the gateway, scripts/dispatch.py ("text"), or
\* another client of the stream.
Produce ==
    /\ Len(stream) < MaxEntries
    /\ \E m \in EntryModes : stream' = Append(stream, [mode |-> m])
    /\ UNCHANGED execVars

Init == stream = <<>> /\ ExecInit
Next == Produce \/ ExecNext
Spec == Init /\ [][Next]_vars

\* Someone starts the process again when it ended, and the loop runs.
ExecFairness ==
    /\ WF_vars(Start) /\ SF_vars(Read) /\ WF_vars(Execute \/ ExecuteError)
    /\ WF_vars(Ack)

FairSpec == Spec /\ ExecFairness

-----------------------------------------------------------------------------
(* Properties. *)

\* The values each variable ranges over.
ExecTypeOK ==
    /\ stream \in Seq([mode: EntryModes])
    /\ cursor \in 0 .. Len(stream)
    /\ pel \subseteq 1 .. cursor
    /\ proc \in {"down", "reading", "executing", "acking"}
    /\ entry \in (1 .. cursor) \cup {None}
    /\ ran \in Seq((1 .. cursor) \X Engines)

\* The loop acknowledges after it executed (main.py:389-398): whatever crashes or
\* fails, an entry the group no longer holds as pending was executed.
AckedWasRun ==
    \A k \in 1 .. cursor :
        k \notin pel => \E i \in DOMAIN ran : ran[i][1] = k

\* Entries are executed in stream order and never twice, because the loop reads
\* only ">" and never its pending list (main.py:378).
RunsInOrderOnce == \A i, j \in DOMAIN ran : i < j => ran[i][1] < ran[j][1]

\* Every entry is handed to the executor, across crashes and fatal read errors, if
\* the process is started again each time and not always killed before it reads.
EveryEntryDelivered == \A k \in 1 .. MaxEntries : k <= Len(stream) ~> k <= cursor

=============================================================================
