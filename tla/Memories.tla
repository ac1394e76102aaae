------------------------------- MODULE Memories -------------------------------
(* The SQLite memory of intents and facts. The scribe (agents/core/memory_scribe.py)
   copies the intents stream into rolling_context; archive_old_traces
   (dream_state.py) moves old rows to files. Beside them, the fact store with its
   vector table, and prune_old_facts. The two halves share no table. *)
EXTENDS Integers, Sequences, FiniteSets, FiniteSetsExt, SequencesExt, Functions

CONSTANTS MaxIntents,    \* bound on the stream
          MaxSeconds,    \* bound on the clock
          MaxFacts       \* bound on the facts written

ASSUME SecondsAssumption == MaxSeconds \in Nat

VARIABLES csStream, csCursor, csPel,  \* length of the stream, and memory-group's place in it
          csScribe,   \* the scribe: at, failures, and the entry it works on
          csOpen,     \* inserted rows its connection has not committed
          csRows,     \* rolling_context: committed rows, oldest first
          csDlq,      \* entries in the dead-letter stream
          csNow, csFiles,  \* the clock in seconds, and per second the archive written in it
          csArchive,  \* archive_old_traces: at, and how many rows are older than its cutoff
          csRetried, csOverwritten, csDied  \* history: entries retried, of files written over, dropped in a crash
csVars == <<csStream, csCursor, csPel, csScribe, csOpen, csRows, csDlq, csNow, csFiles, csArchive, csRetried, csOverwritten, csDied>>

Down == [at |-> "down", failures |-> 0]
AtRead == [at |-> "reading", failures |-> 0]
ScribeInit ==
  /\ csStream = 0 /\ csCursor = 0 /\ csPel = {} /\ csScribe = Down /\ csOpen = <<>> /\ csRows = <<>>
  /\ csDlq = {} /\ csNow = 0 /\ csFiles = [s \in 0 .. MaxSeconds |-> {}]
  /\ csArchive = [at |-> "idle", old |-> 0] /\ csRetried = {} /\ csOverwritten = {} /\ csDied = {}

csQueue == <<csStream, csCursor, csPel>>
csCold == <<csNow, csFiles, csArchive, csOverwritten>>

\* An intent arrives; run() connects, and reads entries new to its group, one at a time.
IntentArrives ==
  /\ csStream < MaxIntents /\ csStream' = csStream + 1
  /\ UNCHANGED <<csCursor, csPel, csScribe, csOpen, csRows, csDlq, csCold, csRetried, csDied>>
ScribeStarts ==
  /\ csScribe.at = "down" /\ csScribe' = AtRead
  /\ UNCHANGED <<csQueue, csOpen, csRows, csDlq, csCold, csRetried, csDied>>
ScribeReads ==
  /\ csScribe.at = "reading" /\ csCursor < csStream
  /\ csCursor' = csCursor + 1 /\ csPel' = csPel \cup {csCursor + 1}
  /\ csScribe' = [csScribe EXCEPT !.at = "insert"]
  /\ UNCHANGED <<csStream, csOpen, csRows, csDlq, csCold, csRetried, csDied>>

\* INSERT, commit and XACK in one try block. Whatever fails, it starts from the INSERT
\* again, up to three times; a row whose commit failed stays in the transaction.
EntryFails ==
  /\ csScribe' = [at |-> IF csScribe.failures = 2 THEN "dlq" ELSE "insert", failures |-> csScribe.failures + 1]
  /\ csRetried' = csRetried \cup {csCursor}
ScribeInserts ==
  /\ csScribe.at = "insert"
  /\ \/ csOpen' = Append(csOpen, csCursor) /\ csScribe' = [csScribe EXCEPT !.at = "commit"] /\ UNCHANGED csRetried
     \/ EntryFails /\ UNCHANGED csOpen
  /\ UNCHANGED <<csQueue, csRows, csDlq, csCold, csDied>>
ScribeCommits ==
  /\ csScribe.at = "commit"
  /\ \/ /\ csRows' = csRows \o csOpen /\ csOpen' = <<>>
        /\ csScribe' = [csScribe EXCEPT !.at = "ack"] /\ UNCHANGED csRetried
     \/ EntryFails /\ UNCHANGED <<csRows, csOpen>>
  /\ UNCHANGED <<csQueue, csDlq, csCold, csDied>>
Acked == csPel \ {csCursor}
ScribeAcks ==
  /\ csScribe.at = "ack"
  /\ \/ csPel' = Acked /\ csScribe' = AtRead /\ UNCHANGED csRetried
     \/ EntryFails /\ UNCHANGED csPel
  /\ UNCHANGED <<csStream, csCursor, csOpen, csRows, csDlq, csCold, csDied>>

\* After the third failure: XADD to the dead-letter stream and XACK. An error of
\* either leaves run(), as a crash does, and the transaction is rolled back.
ScribeGivesUp ==
  /\ csScribe.at = "dlq"
  /\ csDlq' = csDlq \cup {csCursor} /\ csPel' = Acked /\ csScribe' = AtRead
  /\ UNCHANGED <<csStream, csCursor, csOpen, csRows, csCold, csRetried, csDied>>
ScribeCrashes ==
  /\ csScribe.at # "down" /\ csScribe' = Down /\ csOpen' = <<>>
  /\ \/ UNCHANGED csDlq
     \/ csScribe.at = "dlq" /\ csDlq' = csDlq \cup {csCursor}
  /\ csDied' = csDied \cup csPel
  /\ UNCHANGED <<csQueue, csRows, csCold, csRetried>>

\* archive_old_traces: select the rows older than the cutoff, write them to a file named
\* after the second, delete them by the same cutoff. A crash, or a database that is
\* locked, may end it after each step.
ArchiveSelects(old) ==
  /\ csArchive.at = "idle" /\ old \in 1 .. Len(csRows) /\ csArchive' = [at |-> "write", old |-> old]
  /\ UNCHANGED <<csQueue, csScribe, csOpen, csRows, csDlq, csNow, csFiles, csOverwritten, csRetried, csDied>>
ArchiveWrites ==
  LET moved == ToSet(SubSeq(csRows, 1, csArchive.old)) IN
  /\ csArchive.at = "write" /\ csArchive' = [csArchive EXCEPT !.at = "delete"]
  /\ csFiles' = [csFiles EXCEPT ![csNow] = moved]
  /\ csOverwritten' = (csOverwritten \cup csFiles[csNow]) \ moved
  /\ UNCHANGED <<csQueue, csScribe, csOpen, csRows, csDlq, csNow, csRetried, csDied>>
ArchiveDeletes ==
  /\ csArchive.at = "delete" /\ csOpen = <<>> /\ csArchive' = [at |-> "idle", old |-> 0]
  /\ csRows' = SubSeq(csRows, csArchive.old + 1, Len(csRows))
  /\ UNCHANGED <<csQueue, csScribe, csOpen, csDlq, csNow, csFiles, csOverwritten, csRetried, csDied>>
ArchiveCrashes ==
  /\ csArchive.at # "idle" /\ csArchive' = [at |-> "idle", old |-> 0]
  /\ UNCHANGED <<csQueue, csScribe, csOpen, csRows, csDlq, csNow, csFiles, csOverwritten, csRetried, csDied>>
SecondPasses ==
  /\ csNow < MaxSeconds /\ csNow' = csNow + 1
  /\ UNCHANGED <<csQueue, csScribe, csOpen, csRows, csDlq, csFiles, csArchive, csOverwritten, csRetried, csDied>>

ScribeNext ==
  \/ IntentArrives \/ ScribeStarts \/ ScribeReads \/ ScribeInserts \/ ScribeCommits \/ ScribeAcks
  \/ ScribeGivesUp \/ ScribeCrashes \/ SecondPasses
  \/ \E old \in 1 .. Len(csRows) : ArchiveSelects(old)
  \/ ArchiveWrites \/ ArchiveDeletes \/ ArchiveCrashes

ScribeSpec == ScribeInit /\ [][ScribeNext]_csVars

-----------------------------------------------------------------------------
(* fact_store and vec_facts. A rowid is one more than the largest in the table. *)

VARIABLES ftRows, ftVec,   \* per rowid: the fact and its confidence; the fact whose vector it is
          ftWritten,       \* number of facts written
          ftFile, ftCold,  \* the facts in the newest cold archive, and in the others
          ftStale, ftLost  \* history: rowids whose vector was left behind, facts rolled back or of a file written over
ftVars == <<ftRows, ftVec, ftWritten, ftFile, ftCold, ftStale, ftLost>>

FactsInit ==
  /\ ftRows = <<>> /\ ftVec = <<>> /\ ftWritten = 0 /\ ftFile = {} /\ ftCold = {} /\ ftStale = {} /\ ftLost = {}

\* A table with a row inserted, or replaced.
With(f, id, row) == [i \in DOMAIN f \cup {id} |-> IF i = id THEN row ELSE f[i]]
NextRowid == Max(DOMAIN ftRows \cup {0}) + 1

\* write_fact: a vector under a rowid that has one already raises after the fact's
\* INSERT, which the next commit of the connection keeps or a close rolls back.
WriteFact(low, embedded) ==
  /\ ftWritten < MaxFacts /\ ftWritten' = ftWritten + 1
  /\ LET row == With(ftRows, NextRowid, [fact |-> ftWritten', low |-> low]) IN
     IF embedded /\ NextRowid \in DOMAIN ftVec
     THEN /\ UNCHANGED ftVec
          /\ \/ ftRows' = row /\ UNCHANGED ftLost
             \/ UNCHANGED ftRows /\ ftLost' = ftLost \cup {ftWritten'}
     ELSE /\ ftRows' = row /\ ftVec' = IF embedded THEN With(ftVec, NextRowid, ftWritten') ELSE ftVec
          /\ UNCHANGED ftLost
  /\ UNCHANGED <<ftFile, ftCold, ftStale>>

\* prune_old_facts: the facts of low confidence within the first 30 percent of the
\* rowids go to a file named after the second, then out of the table. Their vectors
\* go with them, or stay if that fails; a crash before the commit keeps both.
Prunable ==
  LET rowids == DOMAIN ftRows
  IN {r \in rowids : ftRows[r].low /\ 100 * (r - Min(rowids)) <= 30 * (Max(rowids) - Min(rowids))}
PruneFacts(sameSecond, ends) ==
  LET pruned == {ftRows[r].fact : r \in Prunable} IN
  /\ Prunable # {} /\ ftFile' = pruned
  /\ IF sameSecond THEN ftLost' = (ftLost \cup ftFile) \ pruned /\ UNCHANGED ftCold
                   ELSE ftCold' = ftCold \cup ftFile /\ UNCHANGED ftLost
  /\ ftRows' = IF ends = "crash" THEN ftRows ELSE Restrict(ftRows, DOMAIN ftRows \ Prunable)
  /\ ftVec' = IF ends = "both" THEN Restrict(ftVec, DOMAIN ftVec \ Prunable) ELSE ftVec
  /\ ftStale' = IF ends = "facts" THEN ftStale \cup (Prunable \cap DOMAIN ftVec) ELSE ftStale
  /\ UNCHANGED ftWritten

FactsNext ==
  \/ \E low, embedded \in BOOLEAN : WriteFact(low, embedded)
  \/ \E sameSecond \in BOOLEAN, ends \in {"both", "facts", "crash"} : PruneFacts(sameSecond, ends)

FactsSpec == FactsInit /\ [][FactsNext]_ftVars

-----------------------------------------------------------------------------
Stored(e) == Contains(csRows, e) \/ \E s \in DOMAIN csFiles : e \in csFiles[s]
Copies(e) == Cardinality({i \in DOMAIN (csRows \o csOpen) : (csRows \o csOpen)[i] = e})

\* An intent that the scribe acknowledged is in the context, in an archive or in the
\* dead letters, whatever fails or crashes; only an archive that a second one of the same
\* second wrote over takes intents away (run, archive_old_traces).
AckedIntentIsKept ==
  \A e \in (1 .. csCursor) \ csPel : Stored(e) \/ e \in csDlq \/ e \in csOverwritten

\* An intent is stored twice, or stored and dead, only after a retry, and at most three times.
CopiesComeFromRetries ==
  \A e \in 1 .. csCursor :
    /\ Copies(e) <= 3
    /\ Copies(e) > 1 \/ (e \in csDlq /\ (Stored(e) \/ Copies(e) > 0)) => e \in csRetried

\* The scribe reads ">" only: what it leaves pending is what it died over.
PendingIsWhatItDiedOver == csScribe.at \in {"down", "reading"} => csPel \subseteq csDied

\* No fact comes to stand beside another one's vector, but over one left behind; and a
\* pruned fact is in an archive, if none of the same second wrote over it (prune_old_facts).
FactsAreKept ==
  /\ \A r \in DOMAIN ftVec \cap DOMAIN ftRows : ftVec[r] = ftRows[r].fact \/ r \in ftStale
  /\ \A f \in 1 .. ftWritten :
       f \in ftFile \cup ftCold \cup ftLost \/ \E r \in DOMAIN ftRows : ftRows[r].fact = f

-----------------------------------------------------------------------------
(* InfiniteRAGEngine (hlf/infinite_rag.py): threads share one SQLite connection
   with a warm table and a cold archive, and a hot cache in memory. Every
   statement is a step, unless the next one is the commit; commit() writes what
   any thread has done so far. One entity; confidence is a level; "old" stands for
   last_accessed before the cutoff of decay_confidence and archive_stale. *)
CONSTANTS RagThreads, RagContents,
          RagLevels,     \* levels of confidence, 1..RagLevels
          HotCapacity,   \* hot_capacity
          MaxRagCalls    \* bound on the calls, and so on the nodes

\* _hot_promote raises, out of min(), at a capacity of zero.
ASSUME RagAssumption == IsFiniteSet(RagThreads) /\ RagLevels \in Nat /\ HotCapacity \in Nat \ {0}

VARIABLES irWarm, irCold,  \* the tables as the connection sees them: id -> row
          irDisk,          \* both as of the last commit
          irHot,           \* the cached nodes, least recently accessed first
          irNext,          \* the next node_id
          irCalls,         \* calls so far
          irThread,        \* per thread: where it is, and what it has read
          irStored,        \* history: contents some store() has returned for
          irReheats        \* history: nodes brought back from the archive
irVars == <<irWarm, irCold, irDisk, irHot, irNext, irCalls, irThread, irStored, irReheats>>

NoWork == [at |-> "idle", id |-> 0, content |-> "none", conf |-> 0, read |-> 0, todo |-> {}]
RagInit ==
  /\ irWarm = <<>> /\ irCold = <<>> /\ irDisk = [warm |-> <<>>, cold |-> <<>>] /\ irHot = <<>>
  /\ irNext = 1 /\ irCalls = 0 /\ irThread = [t \in RagThreads |-> NoWork] /\ irStored = {} /\ irReheats = 0

Entry(id, content, conf) == [id |-> id, content |-> content, conf |-> conf]
Row(content, conf, old) == [content |-> content, conf |-> conf, old |-> old]
WithoutRow(f, id) == [i \in DOMAIN f \ {id} |-> f[i]]
At(t, place) == irThread[t].at = place
Goes(t, work) == irThread' = [irThread EXCEPT ![t] = work]
Called(t) == irThread[t].at = "idle" /\ irCalls < MaxRagCalls /\ irCalls' = irCalls + 1
Returns(t) == Goes(t, NoWork)
Commits == irDisk' = [warm |-> irWarm', cold |-> irCold']
Counters == <<irNext, irReheats>>

\* store(node, ...) is called.
StoreCalled(t, c, k) ==
  /\ Called(t) /\ Goes(t, [NoWork EXCEPT !.at = "store", !.content = c, !.conf = k])
  /\ UNCHANGED <<irWarm, irCold, irDisk, irHot, irStored, Counters>>

\* The dedup check of the hot cache: a hit may raise the confidence of the cached
\* node, and of nothing else.
HotCheck(t) ==
  LET work == irThread[t]
      hits == {i \in DOMAIN irHot : irHot[i].content = work.content}
  IN /\ At(t, "store")
     /\ IF hits = {} THEN Goes(t, [work EXCEPT !.at = "warm"]) /\ UNCHANGED <<irHot, irStored>>
        ELSE \E i \in hits :
               /\ irHot' = Append(RemoveAt(irHot, i),
                            [irHot[i] EXCEPT !.conf = IF work.conf > @ THEN work.conf ELSE @])
               /\ irStored' = irStored \cup {work.content} /\ Returns(t)
     /\ UNCHANGED <<irWarm, irCold, irDisk, Counters, irCalls>>

RowsOf(content) == {i \in DOMAIN irWarm : irWarm[i].content = content}
WarmCheck(t) ==
  LET work == irThread[t] IN
  /\ At(t, "warm")
  /\ IF RowsOf(work.content) = {} THEN Goes(t, [work EXCEPT !.at = "insert"])
     ELSE \E id \in RowsOf(work.content) :
            Goes(t, [work EXCEPT !.at = "update", !.id = id, !.read = irWarm[id].conf])
  /\ UNCHANGED <<irWarm, irCold, irDisk, irHot, irStored, Counters, irCalls>>

\* Mutant: the row takes the confidence it is given.
ConfidenceGiven(work, row) == work.conf
\* The row found is updated from what was read of it, under the lock taken anew.
Confidence(work, row) == IF work.conf > work.read THEN work.conf ELSE row.conf
UpdateRow(t) ==
  LET work == irThread[t] IN
  /\ At(t, "update")
  /\ irWarm' = IF work.id \in DOMAIN irWarm
               THEN [irWarm EXCEPT ![work.id] = Row(@.content, Confidence(work, @), FALSE)] ELSE irWarm
  /\ irStored' = irStored \cup {work.content} /\ Returns(t)
  /\ UNCHANGED <<irCold, irHot, Counters, irCalls>> /\ Commits

InsertRow(t) ==
  LET work == irThread[t] IN
  /\ At(t, "insert")
  /\ irWarm' = With(irWarm, irNext, Row(work.content, work.conf, FALSE))
  /\ irNext' = irNext + 1 /\ Goes(t, [work EXCEPT !.at = "promote", !.id = irNext])
  /\ UNCHANGED <<irCold, irHot, irStored, irCalls, irReheats>> /\ Commits

\* The cache without a node, which it has once at most.
Uncached(hot, id) ==
  LET places == {i \in DOMAIN hot : hot[i].id = id}
  IN IF places = {} THEN hot ELSE RemoveAt(hot, CHOOSE i \in places : TRUE)
\* _hot_promote
Promote(t) ==
  LET work == irThread[t]
      room == IF Len(irHot) >= HotCapacity THEN Tail(irHot) ELSE irHot
  IN /\ At(t, "promote")
     /\ irHot' = Append(Uncached(room, work.id), Entry(work.id, work.content, work.conf))
     /\ irStored' = irStored \cup {work.content} /\ Returns(t)
     /\ UNCHANGED <<irWarm, irCold, irDisk, Counters, irCalls>>

Decayed(conf) == IF conf > 1 THEN conf - 1 ELSE conf
\* correct: reads the row, then decays what it has read, then stores the correction.
CorrectReads(t, id, c, k) ==
  /\ Called(t) /\ id \in DOMAIN irWarm
  /\ Goes(t, [NoWork EXCEPT !.at = "decay", !.id = id, !.content = c, !.conf = k, !.read = irWarm[id].conf])
  /\ UNCHANGED <<irWarm, irCold, irDisk, irHot, irStored, Counters>>
CorrectDecays(t) ==
  LET work == irThread[t] IN
  /\ At(t, "decay") /\ Goes(t, [work EXCEPT !.at = "store"])
  /\ irWarm' = IF work.id \in DOMAIN irWarm
               THEN [irWarm EXCEPT ![work.id].conf = Decayed(work.read)] ELSE irWarm
  /\ UNCHANGED <<irCold, irHot, irStored, Counters, irCalls>> /\ Commits

DecayConfidence(t) ==
  /\ Called(t) /\ \E id \in DOMAIN irWarm : irWarm[id].old
  /\ irWarm' = [id \in DOMAIN irWarm |->
       IF irWarm[id].old THEN [irWarm[id] EXCEPT !.conf = Decayed(@)] ELSE irWarm[id]]
  /\ UNCHANGED <<irCold, irHot, irThread, irStored, Counters>> /\ Commits

\* retrieve(min_confidence): what it returns is touched in the warm table.
Retrieve(t, least) ==
  LET hot == {irHot[i].id : i \in {j \in DOMAIN irHot : irHot[j].conf >= least}}
  IN /\ Called(t)
     /\ irWarm' = [id \in DOMAIN irWarm |->
          IF id \in hot \/ irWarm[id].conf >= least THEN [irWarm[id] EXCEPT !.old = FALSE] ELSE irWarm[id]]
     /\ irWarm' # irWarm
     /\ UNCHANGED <<irCold, irHot, irThread, irStored, Counters>> /\ Commits

\* deduplicate: all the rows of a content but one of the most confident.
Surplus == {rest \in SUBSET DOMAIN irWarm : \A id \in DOMAIN irWarm :
  LET rows == RowsOf(irWarm[id].content) IN
  /\ Cardinality(rows \ rest) = 1
  /\ \A kept \in rows \ rest, other \in rows : irWarm[kept].conf >= irWarm[other].conf}
StaleRow == {id \in DOMAIN irWarm : irWarm[id].old}
\* deduplicate and archive_stale read the rows to archive ...
ArchiveBegins(t) ==
  /\ Called(t)
  /\ \E ids \in Surplus \cup {StaleRow} : ids # {} /\
       Goes(t, [NoWork EXCEPT !.at = "toCold", !.todo = {<<id, irWarm[id]>> : id \in ids}])
  /\ UNCHANGED <<irWarm, irCold, irDisk, irHot, irStored, Counters>>

\* ... and copy, delete and uncache one after the other, to commit at the end.
DeletesNow(work) == work.at = "delete"
ArchiveRow(t) ==
  LET work == irThread[t] IN
  /\ work.at \in {"toCold", "delete"} /\ work.todo # {}
  /\ LET p == CHOOSE q \in work.todo : TRUE
     IN IF DeletesNow(work)
        THEN irWarm' = WithoutRow(irWarm, p[1]) /\ UNCHANGED irCold
        ELSE irCold' = With(irCold, p[1], p[2]) /\ UNCHANGED irWarm
  /\ Goes(t, [work EXCEPT !.at = IF @ = "toCold" THEN "delete" ELSE "uncache"])
  /\ UNCHANGED <<irDisk, irHot, irStored, Counters, irCalls>>
Uncache(t) ==
  LET work == irThread[t] IN
  /\ At(t, "uncache")
  /\ LET p == CHOOSE q \in work.todo : TRUE
     IN /\ irHot' = Uncached(irHot, p[1])
        /\ Goes(t, [work EXCEPT !.at = "toCold", !.todo = @ \ {p}])
  /\ UNCHANGED <<irWarm, irCold, irDisk, irStored, Counters, irCalls>>
ArchiveCommits(t) ==
  /\ At(t, "toCold") /\ irThread[t].todo = {} /\ Returns(t)
  /\ UNCHANGED <<irWarm, irCold, irHot, irStored, Counters, irCalls>> /\ Commits

\* reheat: the archived row is inserted, then deleted from the archive, then cached.
ReheatInserts(t, id) ==
  /\ Called(t) /\ id \in DOMAIN irCold
  /\ irWarm' = With(irWarm, id, [irCold[id] EXCEPT !.old = FALSE])
  /\ Goes(t, [NoWork EXCEPT !.at = "cool", !.id = id]) /\ irReheats' = irReheats + 1
  /\ UNCHANGED <<irCold, irDisk, irHot, irNext, irStored>>
ReheatDeletes(t) ==
  LET work == irThread[t] IN
  /\ At(t, "cool") /\ irCold' = WithoutRow(irCold, work.id) /\ UNCHANGED irWarm /\ Commits
  /\ Goes(t, IF work.id \notin DOMAIN irWarm THEN NoWork
             ELSE [work EXCEPT !.at = "promote", !.content = irWarm[work.id].content, !.conf = irWarm[work.id].conf])
  /\ UNCHANGED <<irHot, irStored, Counters, irCalls>>

\* Thirty days pass for a row nobody touches.
Ages(id) ==
  /\ id \in DOMAIN irWarm /\ ~irWarm[id].old /\ irWarm' = [irWarm EXCEPT ![id].old = TRUE]
  /\ irDisk' = IF id \in DOMAIN irDisk.warm THEN [irDisk EXCEPT !.warm[id].old = TRUE] ELSE irDisk
  /\ UNCHANGED <<irCold, irHot, irThread, irStored, Counters, irCalls>>
\* The process stops: what was not committed is rolled back.
RagCrash ==
  /\ irWarm' = irDisk.warm /\ irCold' = irDisk.cold /\ irHot' = <<>>
  /\ irThread' = [t \in RagThreads |-> NoWork] /\ UNCHANGED <<irDisk, irStored, Counters, irCalls>>

StoreSteps(t) == HotCheck(t) \/ WarmCheck(t) \/ UpdateRow(t) \/ InsertRow(t) \/ Promote(t)
RagNext ==
  \/ \E t \in RagThreads :
       \/ \E c \in RagContents, k \in 1..RagLevels :
            StoreCalled(t, c, k) \/ \E id \in DOMAIN irWarm : CorrectReads(t, id, c, k)
       \/ StoreSteps(t) \/ CorrectDecays(t) \/ DecayConfidence(t)
       \/ \E least \in 1..RagLevels : Retrieve(t, least)
       \/ ArchiveBegins(t) \/ ArchiveRow(t) \/ Uncache(t) \/ ArchiveCommits(t)
       \/ \E id \in DOMAIN irCold : ReheatInserts(t, id)
       \/ ReheatDeletes(t)
  \/ \E id \in DOMAIN irWarm : Ages(id)
  \/ RagCrash
RagSpec == RagInit /\ [][RagNext]_irVars

-----------------------------------------------------------------------------
Contents(table) == {table[id].content : id \in DOMAIN table}
\* The claim that the connection is safe to share (_get_conn): a content for which
\* store() has returned is in the warm table or the archive, and on disk. It is
\* not: a reheat between the two statements that archive the same row, which are
\* not under _db_lock, leaves it in neither table.
NothingIsForgotten ==
  /\ irStored \subseteq Contents(irWarm) \cup Contents(irCold)
  /\ irStored \subseteq Contents(irDisk.warm) \cup Contents(irDisk.cold)

\* Without a reheat nothing is forgotten, although another thread may commit
\* between the two statements and the process may stop there.
ForgottenOnlyByReheat == irReheats = 0 => NothingIsForgotten

\* store() looks first and inserts later: a content can have a row for each
\* thread, and one more for each reheat, and no more than that.
DuplicatesAreBounded ==
  \A c \in RagContents : Cardinality(RowsOf(c)) <= Cardinality(RagThreads) + irReheats

\* The memory poisoning guard of store(): it lowers the confidence of a row only
\* when the row has changed since the store read it.
StoreNeverLowers ==
  [][\A t \in RagThreads : UpdateRow(t) =>
       LET id == irThread[t].id IN
       id \in DOMAIN irWarm /\ id \in DOMAIN irWarm' /\ irWarm'[id].conf < irWarm[id].conf =>
         irWarm[id].conf # irThread[t].read]_irVars

\* The memory keeps what it is given (store, correct, archive_stale, reheat).
MemoryIsKept == [](ForgottenOnlyByReheat /\ DuplicatesAreBounded) /\ StoreNeverLowers

\* No memory is lost but where a race or a failure that the code cannot see explains it:
\* neither the graph memory's nodes, nor the intents the scribe acknowledged, nor a fact
\* (InfiniteRAGEngine, memory_scribe.run, write_fact, archive_old_traces, prune_old_facts).
MemoriesAreKept ==
  [](AckedIntentIsKept /\ CopiesComeFromRetries /\ PendingIsWhatItDiedOver /\ FactsAreKept) /\ MemoryIsKept
=============================================================================
