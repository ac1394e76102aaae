------------------------------ MODULE HlfProofs ------------------------------
(***************************************************************************)
(* Theorems about HLF. The interpreter (HlfRun), for every gas cap, macro  *)
(* depth and length of program: its books balance, whatever the threads of *)
(* a PARALLEL do. The tools and packages that programs import              *)
(* (Installers): what is installed is what the registry says.              *)
(***************************************************************************)
EXTENDS Installers, HlfRun, InductionLemmas

\* Every node a program can hold; what is inside one is again such a node.
Nodes == Simple \cup Nested \cup Parallels \cup TaskNodes \cup {Leaf("return")}

Names == TaskNames \cup {<<"", 0>>}
States == {"none", "submitted", "running", "waiting", "ended", "raised"}
Work == Seq(Nodes)
Runs == [work: Work, gas: Nat, max: Nat, depth: Int, sealed: BOOLEAN, name: Names,
         state: States]
Reports == [task: Tasks, name: TaskNames, ok: BOOLEAN]

HlfTypeOK ==
    /\ hrRun \in [{0} \cup Tasks -> Runs]
    /\ hrReports \in Seq(Reports)
    /\ hrCollected \subseteq Tasks
    /\ hrNamed \in [TaskNames -> Nat \X (Tasks \cup {0})]
    /\ hrRound \in Nat /\ hrExecuted \in Nat /\ hrLost \in Nat /\ hrBonus \in Nat

\* Tasks exist while the parent waits for them; they start with an empty counter, and
\* are not running any more when their future is taken.
TasksInv ==
    /\ hrRun[0].state \in {"running", "waiting", "ended", "raised"}
    /\ \A i \in Tasks :
          /\ hrRun[i].state # "waiting"
          /\ hrRun[0].state # "waiting" => hrRun[i].state = "none"
          /\ hrRun[i].state \in {"none", "submitted"} => hrRun[i].gas = 0
          /\ hrRun[0].state = "waiting" =>
                /\ hrRun[i].state # "none" /\ hrRun[i].name \in TaskNames
                /\ i \in hrCollected => hrRun[i].state \in {"ended", "raised"}
    /\ hrRun[0].state # "waiting" => hrCollected \in {{}, Tasks}

Outcomes(i) == {r \in Range(hrReports) : r.task = i}
Fine(i) == \A r \in Outcomes(i) : r.ok
FineOf(name) == {j \in Tasks : Fine(j) /\ \E o \in Outcomes(j) : o.name = name}

\* The reports are of the tasks taken so far, each under its one name, and a name's
\* entry is of this PARALLEL as soon as a task of that name is fine.
ReportsInv ==
    /\ \A i \in Tasks : i \in hrCollected <=> Outcomes(i) # {}
    /\ \A r, s \in Range(hrReports) : r.task = s.task => r.name = s.name
    /\ \A name \in TaskNames : hrNamed[name][1] <= hrRound
    /\ hrCollected # {} \/ hrRun[0].state = "waiting" =>
          \A name \in TaskNames :
              IF FineOf(name) = {} THEN hrNamed[name][1] # hrRound
              ELSE hrNamed[name][1] = hrRound /\ hrNamed[name][2] \in FineOf(name)

HlfInv == HlfTypeOK /\ TasksInv /\ NodesAreAccountedFor /\ CountersWithinCaps /\ ReportsInv

-----------------------------------------------------------------------------
(* Nodes and what executing one does to an interpreter. *)

LEMMA Leaves ==
    /\ Leaf("plain") \in Nodes /\ Leaf("RESULT") \in Nodes /\ Leaf("return") \in Nodes
    /\ TaskNodes \subseteq Nodes
    /\ <<>> \in Work /\ <<Leaf("return")>> \in Work
    /\ \A n \in Nodes : <<n>> \in Work
    /\ \A m, n \in Nodes : <<m, n>> \in Work
  BY DEF Nodes, Simple, Work

LEMMA Joins ==
    ASSUME NEW v \in Work, NEW w \in Work
    PROVE  v \o w \in Work
  BY DEF Work

LEMMA InnerLeaf ==
    ASSUME NEW tag
    PROVE  Leaf(tag).inner = <<>> /\ Leaf(tag).tag = tag
  BY DEF Leaf

LEMMA InnerWrap ==
    ASSUME NEW tag, NEW nodes
    PROVE  Wrap(tag, nodes).inner = nodes /\ Wrap(tag, nodes).tag = tag
  BY DEF Wrap

LEMMA NodeParts ==
    ASSUME NEW n \in Nodes
    PROVE  /\ n.inner \in Work
           /\ n.tag = "PARALLEL" /\ n.inner # <<>> =>
                 n.inner[1] \in TaskNodes /\ n.inner[2] \in TaskNodes
<1>1. ASSUME NEW tag, n = Leaf(tag)
      PROVE  n.inner = <<>> /\ n.tag = tag
  BY <1>1, InnerLeaf
<1>2. ASSUME NEW tag, NEW m \in Nodes, n = Wrap(tag, <<m>>)
      PROVE  n.inner \in Work /\ n.tag = tag
  BY <1>2, InnerWrap, Leaves
<1>3. CASE n \in Simple \/ n = Leaf("return")
  BY <1>1, <1>3, Leaves DEF Simple
<1>4. CASE n \in Nested
  <2>1. PICK tag \in {"PRIORITY", "CONDITIONAL", "SYNC", "CALL"}, m \in {Leaf("plain"), Leaf("RESULT")} :
           n = Wrap(tag, <<m>>)
    BY <1>4 DEF Nested
  <2>2. m \in Nodes
    BY Leaves
  <2>3. QED BY <1>2, <2>1, <2>2
<1>5. CASE n \in TaskNodes
  <2>1. CASE n = Wrap("PRIORITY", <<Leaf("plain")>>)
    BY <1>2, <2>1, Leaves
  <2>2. CASE n # Wrap("PRIORITY", <<Leaf("plain")>>)
    BY <1>1, <1>5, <2>2, Leaves DEF TaskNodes
  <2>3. QED BY <2>1, <2>2
<1>6. CASE n \in Parallels
  <2>1. CASE n = Wrap("PARALLEL", <<>>)
    <3>1. n.inner = <<>>
      BY <2>1, InnerWrap
    <3>2. QED BY <3>1, Leaves
  <2>2. ASSUME NEW tasks \in TaskNodes \X TaskNodes, n = Wrap("PARALLEL", tasks)
        PROVE  n.inner \in Work /\ n.inner[1] \in TaskNodes /\ n.inner[2] \in TaskNodes
    <3>1. n.inner = tasks
      BY <2>2, InnerWrap
    <3>2. PICK a \in Nodes, b \in Nodes : tasks = <<a, b>>
      BY Leaves
    <3>3. tasks \in Work
      BY <3>2, Leaves
    <3>4. QED BY <3>1, <3>3
  <2>3. QED BY <1>6, <2>1, <2>2 DEF Parallels
<1>7. QED BY <1>3, <1>4, <1>5, <1>6 DEF Nodes

\* What execution keeps of an interpreter.
Keeps(r, e, bonus) ==
    /\ e \in Runs /\ e.gas = r.gas /\ e.name = r.name /\ e.max = r.max + bonus
    /\ e.state \in {r.state, "raised"}

LEMMA ExecutedRun ==
    ASSUME NEW r \in Runs, NEW node \in Nodes
    PROVE  Keeps(r, Executed(r, node), IF node.tag = "PRIORITY" THEN 5 ELSE 0)
<1>1. node.inner \in Work /\ MacroBody(node) \in Work /\ <<>> \in Work
      /\ <<Leaf("return")>> \in Work /\ r.work \in Work
  BY NodeParts, Leaves DEF MacroBody, Runs
<1>2. node.inner \o r.work \in Work
      /\ MacroBody(node) \o <<Leaf("return")>> \o r.work \in Work
  <2>1. MacroBody(node) \o <<Leaf("return")>> \in Work
    BY <1>1, Joins
  <2>2. QED BY <1>1, <2>1, Joins
<1>0. r.max \in Nat /\ r.max + 0 = r.max /\ r.max + 5 \in Nat /\ r.depth + 1 \in Int
      /\ "raised" \in States
  BY DEF Runs, States
<1>3. Keeps(r, r, 0)
  BY <1>0 DEF Keeps
<1>4. Keeps(r, Raised(r), 0)
  <2>1. Raised(r) \in Runs
    BY <1>0, <1>1 DEF Raised, Runs
  <2>2. QED BY <1>0, <2>1 DEF Raised, Keeps, Runs
<1>5. CASE node.tag = "RESULT"
  <2>1. [r EXCEPT !.work = <<>>] \in Runs
    BY <1>1 DEF Runs
  <2>2. Keeps(r, [r EXCEPT !.work = <<>>], 0)
    BY <1>0, <2>1 DEF Runs, Keeps
  <2>3. QED BY <1>5, <2>2 DEF Executed
<1>6. CASE node.tag = "fails"
  BY <1>4, <1>6 DEF Executed
<1>7. CASE node.tag = "PRIORITY"
  <2> DEFINE e == [r EXCEPT !.max = @ + 5, !.work = node.inner \o @]
  <2>1. e \in Runs
    BY <1>0, <1>2 DEF Runs
  <2>2. Keeps(r, e, 5)
    BY <1>0, <2>1 DEF Runs, Keeps
  <2>3. QED BY <1>7, <2>2 DEF Executed
<1>8. CASE node.tag = "SYNC"
  <2> DEFINE e == [r EXCEPT !.work = node.inner \o @]
  <2>1. e \in Runs
    BY <1>2 DEF Runs
  <2>2. Keeps(r, e, 0)
    BY <1>0, <2>1 DEF Runs, Keeps
  <2>3. QED BY <1>8, <2>2 DEF Executed
<1>9. CASE node.tag = "CALL"
  <2> DEFINE e == [r EXCEPT !.depth = @ + 1, !.work = MacroBody(node) \o <<Leaf("return")>> \o @]
  <2>1. e \in Runs
    BY <1>0, <1>2 DEF Runs
  <2>2. Keeps(r, e, 0)
    BY <1>0, <2>1 DEF Runs, Keeps
  <2>3. QED BY <1>4, <1>9, <2>2 DEF Executed
<1>10. CASE node.tag = "SPEC_SEAL"
  <2>1. [r EXCEPT !.sealed = TRUE] \in Runs
    BY DEF Runs
  <2>2. Keeps(r, [r EXCEPT !.sealed = TRUE], 0)
    BY <1>0, <2>1 DEF Runs, Keeps
  <2>3. QED BY <1>4, <1>10, <2>2 DEF Executed
<1>11. CASE node.tag = "SPEC_UPDATE"
  BY <1>3, <1>4, <1>11 DEF Executed
<1>12. CASE node.tag \notin {"RESULT", "fails", "PRIORITY", "SYNC", "CALL", "SPEC_SEAL",
                             "SPEC_UPDATE"}
  BY <1>3, <1>12 DEF Executed
<1>13. QED BY <1>5, <1>6, <1>7, <1>8, <1>9, <1>10, <1>11, <1>12

-----------------------------------------------------------------------------
(* The steps of one interpreter. *)

LEMMA FreshRuns ==
    ASSUME NEW w \in Work, NEW m \in Nat
    PROVE  /\ Fresh(w, m) \in Runs
           /\ Fresh(w, m).gas = 0 /\ Fresh(w, m).max = m /\ Fresh(w, m).state = "running"
           /\ NoRun \in Runs /\ NoRun.gas = 0 /\ NoRun.max = 0 /\ NoRun.state = "none"
<1>1. ASSUME NEW v \in Work, NEW x \in Nat
      PROVE  /\ Fresh(v, x) \in Runs
             /\ Fresh(v, x).gas = 0 /\ Fresh(v, x).max = x /\ Fresh(v, x).state = "running"
  <2>1. <<"", 0>> \in Names /\ "running" \in States /\ 0 \in Nat /\ 0 \in Int
    BY DEF Names, States
  <2>2. Fresh(v, x) \in Runs
    BY <2>1 DEF Fresh, Runs
  <2>3. QED BY <2>2 DEF Fresh
<1>2. <<>> \in Work /\ "none" \in States
  BY Leaves DEF States
<1>3. NoRun \in Runs
  <2>1. Fresh(<<>>, 0) \in Runs
    BY <1>1, <1>2
  <2>2. QED BY <1>2, <2>1 DEF NoRun, Runs
<1>4. NoRun.gas = 0 /\ NoRun.max = 0 /\ NoRun.state = "none"
  BY <1>1, <1>2 DEF NoRun, Runs
<1>5. QED BY <1>1, <1>3, <1>4

LEMMA HlfInitially == HlfInit => HlfInv
<1> SUFFICES ASSUME HlfInit PROVE HlfInv
  OBVIOUS
<1>0. PICK n \in 1 .. ProgramLength : \E program \in [1 .. n -> Statements] :
        hrRun = [i \in {0} \cup Tasks |-> IF i = 0 THEN Fresh(program, GasCap) ELSE NoRun]
  BY DEF HlfInit
<1>1. PICK program \in [1 .. n -> Statements] :
        hrRun = [i \in {0} \cup Tasks |-> IF i = 0 THEN Fresh(program, GasCap) ELSE NoRun]
  BY <1>0
<1>2. program \in Work /\ <<>> \in Work
  <2>1. n \in Nat
    BY HlfAssumption
  <2>2. Statements \subseteq Nodes
    BY DEF Statements, Nodes
  <2>3. QED BY <2>1, <2>2, Leaves DEF Work
<1>3. /\ Fresh(program, GasCap) \in Runs /\ Fresh(program, GasCap).gas = 0
      /\ Fresh(program, GasCap).max = GasCap /\ Fresh(program, GasCap).state = "running"
      /\ NoRun \in Runs /\ NoRun.gas = 0 /\ NoRun.max = 0 /\ NoRun.state = "none"
  BY <1>2, HlfAssumption, FreshRuns
<1>4. hrRun[0] = Fresh(program, GasCap) /\ \A i \in Tasks : hrRun[i] = NoRun
  BY <1>1 DEF Tasks
<1>5. HlfTypeOK
  BY <1>1, <1>3 DEF HlfInit, HlfTypeOK, Tasks
<1>6. TasksInv
  BY <1>3, <1>4 DEF HlfInit, TasksInv
<1>7. NodesAreAccountedFor
  BY <1>3, <1>4 DEF HlfInit, NodesAreAccountedFor, Tasks
<1>8. CountersWithinCaps
  BY <1>1, <1>3, <1>4, HlfAssumption DEF HlfInit, CountersWithinCaps
<1>9. ReportsInv
  <2>1. Range(hrReports) = {}
    BY DEF HlfInit, Range
  <2>2. hrRun[0].state # "waiting"
    BY <1>3, <1>4
  <2>3. QED BY <2>1, <2>2 DEF HlfInit, ReportsInv, Outcomes
<1>10. QED BY <1>5, <1>6, <1>7, <1>8, <1>9 DEF HlfInv

\* A step of the interpreter i that keeps the books: it executes k nodes and pays for
\* them, and what it adds to its cap counts as a bonus if it is the program's.
Booked(i, e, k, bonus) ==
    /\ hrRun[i].state = "running"
    /\ hrRun' = [hrRun EXCEPT ![i] = e]
    /\ e \in Runs /\ e.name = hrRun[i].name /\ e.state \in {"running", "raised", "ended"}
    /\ e.gas = hrRun[i].gas + k /\ e.gas <= e.max
    /\ i = 0 => e.max = hrRun[0].max + bonus
    /\ i # 0 => bonus = 0
    /\ hrExecuted' = hrExecuted + k /\ hrBonus' = hrBonus + bonus
    /\ UNCHANGED hrParallel

LEMMA BookedStep ==
    ASSUME HlfInv, NEW i \in {0} \cup Tasks, NEW e, NEW k \in Nat, NEW bonus \in Nat,
           Booked(i, e, k, bonus)
    PROVE  HlfInv'
<1> USE DEF Booked, HlfInv, hrParallel
<1>1. hrRun'[i] = e /\ \A j \in {0} \cup Tasks : j # i => hrRun'[j] = hrRun[j]
  BY DEF HlfTypeOK
<1>2. HlfTypeOK'
  BY DEF HlfTypeOK
<1>3. i # 0 => hrRun[0].state = "waiting" /\ i \in Tasks /\ i \notin hrCollected
  BY DEF TasksInv
<1>4. (hrRun[0].state = "waiting") <=> (hrRun'[0].state = "waiting")
  BY <1>1
<1>5. TasksInv'
  <2>1. hrRun'[0].state \in {"running", "waiting", "ended", "raised"}
    BY <1>1 DEF TasksInv
  <2>2. ASSUME NEW j \in Tasks
        PROVE  /\ hrRun'[j].state # "waiting"
               /\ hrRun'[0].state # "waiting" => hrRun'[j].state = "none"
               /\ hrRun'[j].state \in {"none", "submitted"} => hrRun'[j].gas = 0
               /\ hrRun'[0].state = "waiting" =>
                    /\ hrRun'[j].state # "none" /\ hrRun'[j].name \in TaskNames
                    /\ j \in hrCollected => hrRun'[j].state \in {"ended", "raised"}
    <3>1. CASE j = i
      BY <1>1, <1>3, <1>4, <3>1 DEF TasksInv
    <3>2. CASE j # i
      BY <1>1, <1>4, <3>2 DEF TasksInv
    <3>3. QED BY <3>1, <3>2
  <2>3. (hrRun'[0].state # "waiting" => hrCollected' \in {{}, Tasks})
    BY <1>4 DEF TasksInv
  <2>4. QED BY <2>1, <2>2, <2>3 DEF TasksInv
<1>6. NodesAreAccountedFor'
  <2>1. hrRun[0].gas \in Nat /\ hrRun[1].gas \in Nat /\ hrRun[2].gas \in Nat
        /\ hrExecuted \in Nat /\ hrLost \in Nat
    BY DEF HlfTypeOK, Runs, Tasks
  <2>2. CASE i = 0
    <3>1. hrRun'[0].gas = hrRun[0].gas + k /\ hrRun'[1] = hrRun[1] /\ hrRun'[2] = hrRun[2]
      BY <1>1, <2>2 DEF Tasks
    <3>2. QED BY <2>1, <3>1 DEF NodesAreAccountedFor
  <2>3. CASE i = 1
    <3>1. hrRun'[1].gas = hrRun[1].gas + k /\ hrRun'[0] = hrRun[0] /\ hrRun'[2] = hrRun[2]
          /\ 1 \notin hrCollected
      BY <1>1, <1>3, <2>3 DEF Tasks
    <3>2. QED BY <2>1, <3>1 DEF NodesAreAccountedFor
  <2>4. CASE i = 2
    <3>1. hrRun'[2].gas = hrRun[2].gas + k /\ hrRun'[0] = hrRun[0] /\ hrRun'[1] = hrRun[1]
          /\ 2 \notin hrCollected
      BY <1>1, <1>3, <2>4 DEF Tasks
    <3>2. QED BY <2>1, <3>1 DEF NodesAreAccountedFor
  <2>5. QED BY <2>2, <2>3, <2>4 DEF Tasks
<1>7. CountersWithinCaps'
  <2>1. DOMAIN hrRun = {0} \cup Tasks /\ DOMAIN hrRun' = {0} \cup Tasks /\ hrBonus \in Nat
    BY DEF HlfTypeOK
  <2>2. hrRun'[0].max = GasCap + hrBonus'
    BY <1>1, <2>1, HlfAssumption DEF CountersWithinCaps
  <2>3. ASSUME NEW j \in {0} \cup Tasks PROVE hrRun'[j].gas <= hrRun'[j].max
    BY <1>1, <2>1 DEF CountersWithinCaps
  <2>4. QED BY <2>1, <2>2, <2>3 DEF CountersWithinCaps
<1>8. ReportsInv'
  BY <1>4 DEF ReportsInv, Outcomes, Fine, FineOf
<1>9. QED BY <1>2, <1>5, <1>6, <1>7, <1>8

\* The interpreter without the node it takes.
LEMMA RestRuns ==
    ASSUME HlfInv, NEW i \in {0} \cup Tasks, CanStep(i)
    PROVE  /\ Rest(i) \in Runs /\ Next1(i) \in Nodes
           /\ Rest(i).gas = hrRun[i].gas /\ Rest(i).max = hrRun[i].max
           /\ Rest(i).name = hrRun[i].name /\ Rest(i).state = "running"
<1>1. hrRun[i] \in Runs /\ hrRun[i].state = "running" /\ hrRun[i].work # <<>>
  BY DEF HlfInv, HlfTypeOK, CanStep
<1>2. hrRun[i].work \in Work
  BY <1>1 DEF Runs
<1>3. Tail(hrRun[i].work) \in Work /\ Head(hrRun[i].work) \in Nodes
  BY <1>1, <1>2 DEF Work
<1>4. Rest(i) \in Runs
  BY <1>1, <1>3 DEF Rest, Runs
<1>5. QED BY <1>1, <1>3, <1>4 DEF Rest, Runs, Next1

LEMMA MacroReturnsStep ==
    ASSUME HlfInv, NEW i \in {0} \cup Tasks, MacroReturns(i)
    PROVE  HlfInv'
<1> DEFINE e == [Rest(i) EXCEPT !.depth = @ - 1]
<1>1. CanStep(i)
  BY DEF MacroReturns
<1>2. /\ Rest(i) \in Runs /\ Rest(i).gas = hrRun[i].gas /\ Rest(i).max = hrRun[i].max
      /\ Rest(i).name = hrRun[i].name /\ Rest(i).state = "running"
  BY <1>1, RestRuns
<1>3. e \in Runs /\ e.gas = hrRun[i].gas /\ e.max = hrRun[i].max
      /\ e.name = hrRun[i].name /\ e.state = "running"
  <2>1. Rest(i).depth - 1 \in Int
    BY <1>2 DEF Runs
  <2>2. e \in Runs
    BY <1>2, <2>1 DEF Runs
  <2>3. QED BY <1>2, <2>2 DEF Runs
<1>4. hrRun[i].gas <= hrRun[i].max /\ hrRun[i].gas + 0 = hrRun[i].gas
      /\ hrRun[i].max + 0 = hrRun[i].max /\ hrExecuted + 0 = hrExecuted /\ hrBonus + 0 = hrBonus
  BY DEF HlfInv, HlfTypeOK, Runs, CountersWithinCaps
<1>5. Booked(i, e, 0, 0)
  BY <1>1, <1>3, <1>4 DEF MacroReturns, Booked, CanStep
<1>6. QED BY <1>5, BookedStep

LEMMA GasRunsOutStep ==
    ASSUME HlfInv, NEW i \in {0} \cup Tasks, GasRunsOut(i)
    PROVE  HlfInv'
<1> DEFINE e == Raised(Rest(i))
<1>1. CanStep(i)
  BY DEF GasRunsOut
<1>2. /\ Rest(i) \in Runs /\ Rest(i).gas = hrRun[i].gas /\ Rest(i).max = hrRun[i].max
      /\ Rest(i).name = hrRun[i].name
  BY <1>1, RestRuns
<1>3. e \in Runs /\ e.gas = hrRun[i].gas /\ e.max = hrRun[i].max
      /\ e.name = hrRun[i].name /\ e.state = "raised"
  <2>1. <<>> \in Work /\ "raised" \in States
    BY Leaves DEF States
  <2>2. e \in Runs
    BY <1>2, <2>1 DEF Raised, Runs
  <2>3. QED BY <1>2, <2>2 DEF Raised, Runs
<1>4. hrRun[i].gas <= hrRun[i].max /\ hrRun[i].gas + 0 = hrRun[i].gas
      /\ hrRun[i].max + 0 = hrRun[i].max /\ hrExecuted + 0 = hrExecuted /\ hrBonus + 0 = hrBonus
  BY DEF HlfInv, HlfTypeOK, Runs, CountersWithinCaps
<1>5. Booked(i, e, 0, 0)
  BY <1>1, <1>3, <1>4 DEF GasRunsOut, Booked, CanStep
<1>6. QED BY <1>5, BookedStep

LEMMA HlfEndsStep ==
    ASSUME HlfInv, NEW i \in {0} \cup Tasks, HlfEnds(i)
    PROVE  HlfInv'
<1> DEFINE e == [hrRun[i] EXCEPT !.state = "ended"]
<1>1. hrRun[i] \in Runs /\ hrRun' = [hrRun EXCEPT ![i] = e]
  BY DEF HlfEnds, HlfInv, HlfTypeOK
<1>2. "ended" \in States
  BY DEF States
<1>3. e \in Runs
  BY <1>1, <1>2 DEF Runs
<1>4. e.gas = hrRun[i].gas /\ e.max = hrRun[i].max
      /\ e.name = hrRun[i].name /\ e.state = "ended"
  BY <1>1, <1>3 DEF Runs
<1>5. hrRun[i].gas <= hrRun[i].max /\ hrRun[i].gas + 0 = hrRun[i].gas
      /\ hrRun[i].max + 0 = hrRun[i].max /\ hrExecuted + 0 = hrExecuted /\ hrBonus + 0 = hrBonus
  BY DEF HlfInv, HlfTypeOK, Runs, CountersWithinCaps
<1>6. Booked(i, e, 0, 0)
  BY <1>1, <1>3, <1>4, <1>5 DEF HlfEnds, Booked, hrParallel
<1>7. QED BY <1>6, BookedStep

LEMMA NodeRunsStep ==
    ASSUME HlfInv, NEW i \in {0} \cup Tasks, NodeRuns(i)
    PROVE  HlfInv'
<1> DEFINE node == Next1(i)
           paid == [Rest(i) EXCEPT !.gas = @ + 1]
           adds == IF node.tag = "PRIORITY" THEN 5 ELSE 0
           bonus == IF i = 0 THEN adds ELSE 0
<1>1. CanStep(i) /\ hrRun[i].gas + 1 <= hrRun[i].max
  BY DEF NodeRuns, Affords
<1>2. /\ Rest(i) \in Runs /\ Rest(i).gas = hrRun[i].gas /\ Rest(i).max = hrRun[i].max
      /\ Rest(i).name = hrRun[i].name /\ Rest(i).state = "running" /\ node \in Nodes
  BY <1>1, RestRuns
<1>3. paid \in Runs /\ paid.gas = hrRun[i].gas + 1 /\ paid.max = hrRun[i].max
      /\ paid.name = hrRun[i].name /\ paid.state = "running"
  <2>1. Rest(i).gas + 1 \in Nat
    BY <1>2 DEF Runs
  <2>2. paid \in Runs
    BY <1>2, <2>1 DEF Runs
  <2>3. QED BY <1>2, <2>2 DEF Runs
<1>4. adds \in Nat /\ bonus \in Nat /\ hrRun[i].max \in Nat /\ hrRun[i].gas \in Nat
      /\ hrBonus' = hrBonus + bonus /\ hrExecuted' = hrExecuted + 1
  BY DEF NodeRuns, HlfInv, HlfTypeOK, Runs
<1>5. \E e : hrRun' = [hrRun EXCEPT ![i] = e] /\ Keeps(paid, e, adds)
  <2>1. CASE node.tag # "PARALLEL" /\ hrRun' = [hrRun EXCEPT ![i] = Executed(paid, node)]
    BY <1>2, <1>3, <2>1, ExecutedRun
  <2>2. CASE node.tag = "CONDITIONAL" /\ hrRun' = [hrRun EXCEPT ![i] = [paid EXCEPT !.work = node.inner \o @]]
    <3> DEFINE e == [paid EXCEPT !.work = node.inner \o @]
    <3>1. paid.work \in Work /\ node.inner \in Work
      BY <1>2, <1>3, NodeParts DEF Runs
    <3>2. node.inner \o paid.work \in Work
      BY <3>1, Joins
    <3>3. e \in Runs
      BY <1>3, <3>2 DEF Runs
    <3>4. e.gas = paid.gas /\ e.name = paid.name /\ e.max = paid.max /\ e.state = paid.state
      BY <1>3, <3>3 DEF Runs
    <3>5. adds = 0 /\ paid.max + 0 = paid.max
      BY <1>3, <1>4, <2>2
    <3>6. QED BY <2>2, <3>3, <3>4, <3>5 DEF Keeps
  <2>3. CASE node.tag = "PARALLEL" /\ hrRun' = [hrRun EXCEPT ![i] = paid]
    <3>1. adds = 0 /\ paid.max + 0 = paid.max
      BY <1>3, <1>4, <2>3
    <3>2. Keeps(paid, paid, adds)
      BY <1>3, <3>1 DEF Keeps
    <3>3. QED BY <2>3, <3>2
  <2>4. QED BY <2>1, <2>2, <2>3 DEF NodeRuns
<1>6. PICK e : hrRun' = [hrRun EXCEPT ![i] = e] /\ Keeps(paid, e, adds)
  BY <1>5
<1>7. Booked(i, e, 1, bonus)
  BY <1>1, <1>3, <1>4, <1>6 DEF NodeRuns, Booked, Keeps, CanStep
<1>8. QED BY <1>4, <1>7, BookedStep

-----------------------------------------------------------------------------
(* The steps of a PARALLEL. *)

LEMMA ParallelBeginsStep ==
    ASSUME HlfInv, ParallelBegins
    PROVE  HlfInv'
<1> USE DEF HlfInv
<1> DEFINE parent == [Rest(0) EXCEPT !.gas = @ + 1, !.state = "waiting"]
           Task(j) == [Fresh(<<Next1(0).inner[j]>>, 0) EXCEPT !.state = "submitted",
                         !.name = TaskName(Next1(0).inner[j], j)]
<1>1. /\ hrRun' = [j \in DOMAIN hrRun |-> IF j = 0 THEN parent ELSE Task(j)]
      /\ CanStep(0) /\ Next1(0).tag = "PARALLEL" /\ Next1(0).inner # <<>>
      /\ hrRun[0].gas + 1 <= hrRun[0].max
      /\ hrExecuted' = hrExecuted + 1 /\ hrReports' = <<>> /\ hrCollected' = {}
      /\ hrRound' = hrRound + 1 /\ UNCHANGED <<hrNamed, hrLost, hrBonus>>
  BY DEF ParallelBegins, Affords
<1>2. /\ Rest(0) \in Runs /\ Rest(0).gas = hrRun[0].gas /\ Rest(0).max = hrRun[0].max
      /\ Next1(0) \in Nodes
  BY <1>1, RestRuns
<1>3. parent \in Runs /\ parent.gas = hrRun[0].gas + 1 /\ parent.max = hrRun[0].max
      /\ parent.state = "waiting"
  <2>1. Rest(0).gas + 1 \in Nat /\ "waiting" \in States
    BY <1>2 DEF Runs, States
  <2>2. parent \in Runs
    BY <1>2, <2>1 DEF Runs
  <2>3. QED BY <1>2, <2>2 DEF Runs
<1>4. ASSUME NEW j \in Tasks
      PROVE  Task(j) \in Runs /\ Task(j).gas = 0 /\ Task(j).max = 0
             /\ Task(j).state = "submitted" /\ Task(j).name \in TaskNames
  <2>1. Next1(0).inner[j] \in TaskNodes
    BY <1>1, <1>2, NodeParts DEF Tasks
  <2>2. TaskName(Next1(0).inner[j], j) \in TaskNames
    BY <2>1 DEF TaskNames
  <2>3. <<Next1(0).inner[j]>> \in Work
    BY <2>1, Leaves
  <2>4. Fresh(<<Next1(0).inner[j]>>, 0) \in Runs /\ Fresh(<<Next1(0).inner[j]>>, 0).gas = 0
        /\ Fresh(<<Next1(0).inner[j]>>, 0).max = 0
    BY <2>3, FreshRuns
  <2>5. TaskName(Next1(0).inner[j], j) \in Names /\ "submitted" \in States
    BY <2>2 DEF Names, States
  <2>6. Task(j) \in Runs
    BY <2>4, <2>5 DEF Runs
  <2>7. QED BY <2>2, <2>4, <2>6 DEF Runs
<1> HIDE DEF parent, Task
<1>5. DOMAIN hrRun = {0} \cup Tasks /\ hrRun'[0] = parent /\ \A j \in Tasks : hrRun'[j] = Task(j)
  BY <1>1 DEF HlfTypeOK, Tasks
<1>6. HlfTypeOK'
  BY <1>1, <1>3, <1>4, <1>5 DEF HlfTypeOK
<1>7. TasksInv'
  BY <1>1, <1>3, <1>4, <1>5 DEF TasksInv
<1>8. NodesAreAccountedFor'
  <2>1. hrRun[1].gas = 0 /\ hrRun[2].gas = 0
    BY <1>1 DEF CanStep, TasksInv, Tasks
  <2>2. hrRun[0].gas \in Nat /\ hrExecuted \in Nat /\ hrLost \in Nat
    BY DEF HlfTypeOK, Runs
  <2>3. hrRun'[1].gas = 0 /\ hrRun'[2].gas = 0 /\ hrRun'[0].gas = hrRun[0].gas + 1
    BY <1>3, <1>4, <1>5 DEF Tasks
  <2>4. hrExecuted = hrRun[0].gas + hrLost
    BY <2>1, <2>2 DEF NodesAreAccountedFor
  <2>5. hrExecuted' = hrRun'[0].gas + hrLost' + 0 + 0
    BY <1>1, <2>2, <2>3, <2>4
  <2>6. QED BY <1>1, <2>3, <2>5 DEF NodesAreAccountedFor
<1>9. CountersWithinCaps'
  BY <1>1, <1>3, <1>4, <1>5 DEF CountersWithinCaps
<1>10. ReportsInv'
  <2>1. Range(hrReports') = {}
    BY <1>1 DEF Range
  <2>2. \A name \in TaskNames : hrNamed[name][1] \in Nat /\ hrNamed[name][1] <= hrRound
    BY DEF HlfTypeOK, ReportsInv
  <2>3. \A name \in TaskNames : hrNamed'[name][1] <= hrRound' /\ hrNamed'[name][1] # hrRound'
    BY <1>1, <2>2 DEF HlfTypeOK
  <2>4. \A i : Outcomes(i)' = {}
    BY <2>1 DEF Outcomes
  <2>5. \A name : FineOf(name)' = {}
    BY <2>4 DEF FineOf
  <2>6. QED BY <1>1, <2>1, <2>3, <2>4, <2>5 DEF ReportsInv
<1>11. QED BY <1>6, <1>7, <1>8, <1>9, <1>10

LEMMA TaskStartsStep ==
    ASSUME HlfInv, NEW i \in Tasks, TaskStarts(i)
    PROVE  HlfInv'
<1> USE DEF HlfInv
<1> DEFINE max == hrRun[0].max - hrRun[0].gas
           e == [hrRun[i] EXCEPT !.state = "running", !.max = max]
<1>1. hrRun[i].state = "submitted" /\ hrRun' = [hrRun EXCEPT ![i] = e]
      /\ UNCHANGED <<hrReports, hrCollected, hrNamed, hrRound, hrExecuted, hrLost, hrBonus>>
  <2>1. [hrRun EXCEPT ![i].state = "running", ![i].max = max] = [hrRun EXCEPT ![i] = e]
    BY DEF HlfTypeOK, Runs
  <2>2. QED BY <2>1 DEF TaskStarts
<1>2. hrRun[0] \in Runs /\ hrRun[i] \in Runs /\ hrRun[i].gas = 0
  BY <1>1 DEF HlfTypeOK, TasksInv
<1>3. max \in Nat
  <2>1. hrRun[0].gas \in Nat /\ hrRun[0].max \in Nat /\ hrRun[0].gas <= hrRun[0].max
    BY <1>2 DEF Runs, CountersWithinCaps, HlfTypeOK
  <2>2. QED BY <2>1
<1>4. e \in Runs /\ e.gas = 0 /\ e.max = max /\ e.state = "running" /\ e.name = hrRun[i].name
  <2>1. "running" \in States
    BY DEF States
  <2>2. e \in Runs
    BY <1>2, <1>3, <2>1 DEF Runs
  <2>3. QED BY <1>2, <2>2 DEF Runs
<1> HIDE DEF max, e
<1>5. hrRun'[i] = e /\ \A j \in {0} \cup Tasks : j # i => hrRun'[j] = hrRun[j]
  BY <1>1 DEF HlfTypeOK
<1>0. i # 0 /\ hrRun[0].state = "waiting" /\ i \notin hrCollected
  BY <1>1 DEF TasksInv, Tasks
<1>6. HlfTypeOK'
  BY <1>1, <1>4 DEF HlfTypeOK
<1>7. TasksInv'
  BY <1>0, <1>1, <1>4, <1>5 DEF TasksInv
<1>8. NodesAreAccountedFor'
  <2>1. hrRun'[1].gas = hrRun[1].gas /\ hrRun'[2].gas = hrRun[2].gas /\ hrRun'[0].gas = hrRun[0].gas
    BY <1>0, <1>2, <1>4, <1>5 DEF Tasks
  <2>2. QED BY <1>1, <2>1 DEF NodesAreAccountedFor
<1>9. CountersWithinCaps'
  <2>1. DOMAIN hrRun = {0} \cup Tasks /\ DOMAIN hrRun' = {0} \cup Tasks
    BY <1>1 DEF HlfTypeOK
  <2>2. e.gas <= e.max
    BY <1>3, <1>4
  <2>3. QED BY <1>0, <1>1, <1>5, <2>1, <2>2 DEF CountersWithinCaps
<1>10. ReportsInv'
  BY <1>0, <1>1, <1>5 DEF ReportsInv, Outcomes, Fine, FineOf
<1>11. QED BY <1>6, <1>7, <1>8, <1>9, <1>10

LEMMA ParallelEndsStep ==
    ASSUME HlfInv, ParallelEnds
    PROVE  HlfInv'
<1> USE DEF HlfInv
<1> DEFINE e == [hrRun[0] EXCEPT !.state = "running"]
<1>1. hrRun[0].state = "waiting" /\ hrCollected = Tasks
      /\ hrRun' = [hrRun EXCEPT ![0] = e, ![1] = NoRun, ![2] = NoRun]
      /\ UNCHANGED <<hrReports, hrCollected, hrNamed, hrRound, hrExecuted, hrLost, hrBonus>>
  BY DEF ParallelEnds, AllCollected
<1>2. <<>> \in Work /\ 0 \in Nat
  BY Leaves
<1>3. NoRun \in Runs /\ NoRun.gas = 0 /\ NoRun.max = 0 /\ NoRun.state = "none"
  BY <1>2, FreshRuns
<1>4. e \in Runs /\ e.gas = hrRun[0].gas /\ e.max = hrRun[0].max /\ e.state = "running"
  <2>1. "running" \in States /\ hrRun[0] \in Runs
    BY DEF States, HlfTypeOK
  <2>2. e \in Runs
    BY <2>1 DEF Runs
  <2>3. QED BY <2>1, <2>2 DEF Runs
<1> HIDE DEF e
<1>5. hrRun'[0] = e /\ hrRun'[1] = NoRun /\ hrRun'[2] = NoRun
  BY <1>1 DEF HlfTypeOK, Tasks
<1>6. HlfTypeOK'
  BY <1>1, <1>3, <1>4 DEF HlfTypeOK, Tasks
<1>7. TasksInv'
  BY <1>1, <1>3, <1>4, <1>5 DEF TasksInv, Tasks
<1>8. NodesAreAccountedFor'
  BY <1>1, <1>4, <1>5 DEF NodesAreAccountedFor, Tasks
<1>9. CountersWithinCaps'
  <2>1. DOMAIN hrRun = {0} \cup Tasks /\ DOMAIN hrRun' = {0} \cup Tasks
    BY <1>1 DEF HlfTypeOK
  <2>2. QED BY <1>1, <1>3, <1>4, <1>5, <2>1 DEF CountersWithinCaps, Tasks
<1>10. ReportsInv'
  BY <1>1 DEF ReportsInv, Outcomes, Fine, FineOf, Tasks
<1>11. QED BY <1>6, <1>7, <1>8, <1>9, <1>10

\* What a completed future leaves: its task's reports, and the charge if it is paid.
Report(i, ok) == [task |-> i, name |-> hrRun[i].name, ok |-> ok]
NewReports(i) ==
    (IF hrRun[i].state = "ended" THEN {Report(i, TRUE)} ELSE {})
       \cup (IF Charged(hrRun[0], hrRun[i]) THEN {} ELSE {Report(i, FALSE)})

LEMMA RangeOfSome ==
    ASSUME NEW x, NEW S, x \in S, NEW b \in BOOLEAN
    PROVE  /\ (IF b THEN <<x>> ELSE <<>>) \in Seq(S)
           /\ Range(IF b THEN <<x>> ELSE <<>>) = (IF b THEN {x} ELSE {})
  BY DEF Range

LEMMA TaskCollectedStep ==
    ASSUME HlfInv, NEW i \in Tasks, TaskCollected(i)
    PROVE  HlfInv'
<1> USE DEF HlfInv
<1> DEFINE paid == Charged(hrRun[0], hrRun[i])
           ended == hrRun[i].state = "ended"
           name == hrRun[i].name
           e == IF paid THEN [hrRun[0] EXCEPT !.gas = @ + hrRun[i].gas] ELSE hrRun[0]
<1>1. /\ hrRun[0].state = "waiting" /\ hrRun[i].state \in {"ended", "raised"} /\ i \notin hrCollected
      /\ hrCollected' = hrCollected \cup {i} /\ UNCHANGED <<hrRound, hrExecuted, hrBonus>>
  BY DEF TaskCollected
<1>2. i # 0 /\ 0 \notin Tasks /\ hrRun[0] \in Runs /\ hrRun[i] \in Runs /\ name \in TaskNames
  BY <1>1 DEF HlfTypeOK, TasksInv, Tasks
<1>3. hrRun[0].gas \in Nat /\ hrRun[i].gas \in Nat /\ hrRun[0].max \in Nat
  BY <1>2 DEF Runs
<1>4. hrRun' = [hrRun EXCEPT ![0] = e]
  <2>1. CASE paid
    <3>1. hrRun' = [hrRun EXCEPT ![0].gas = @ + hrRun[i].gas]
      BY <2>1 DEF TaskCollected, Cost
    <3>2. QED BY <2>1, <3>1
  <2>2. CASE ~paid
    BY <2>2 DEF TaskCollected, HlfTypeOK
  <2>3. QED BY <2>1, <2>2
<1>5. e \in Runs /\ e.gas = hrRun[0].gas + (IF paid THEN hrRun[i].gas ELSE 0)
      /\ e.max = hrRun[0].max /\ e.state = "waiting" /\ e.gas <= e.max
  <2>1. CASE paid
    <3>1. hrRun[0].gas + hrRun[i].gas \in Nat
      BY <1>3
    <3>2. e = [hrRun[0] EXCEPT !.gas = @ + hrRun[i].gas]
      BY <2>1
    <3>3. e \in Runs
      BY <1>2, <3>1, <3>2 DEF Runs
    <3>4. e.gas = hrRun[0].gas + hrRun[i].gas /\ e.max = hrRun[0].max /\ e.state = "waiting"
      BY <1>1, <1>2, <3>2, <3>3 DEF Runs
    <3>5. hrRun[0].gas + hrRun[i].gas <= hrRun[0].max
      BY <2>1 DEF Charged, Affords, Cost
    <3>6. QED BY <2>1, <3>3, <3>4, <3>5
  <2>2. CASE ~paid
    <3>1. e = hrRun[0]
      BY <2>2
    <3>2. hrRun[0].gas <= hrRun[0].max
      BY DEF CountersWithinCaps, HlfTypeOK
    <3>3. QED BY <1>1, <1>2, <1>3, <2>2, <3>1, <3>2
  <2>3. QED BY <2>1, <2>2
<1> HIDE DEF e
<1>6. hrRun'[0] = e /\ \A j \in Tasks : hrRun'[j] = hrRun[j]
  BY <1>2, <1>4 DEF HlfTypeOK
<1>7. hrLost' = hrLost + (IF paid THEN 0 ELSE hrRun[i].gas)
  BY DEF TaskCollected, HlfTypeOK
<1>8. hrNamed' = IF paid THEN [hrNamed EXCEPT ![name] = <<hrRound, i>>] ELSE hrNamed
  BY DEF TaskCollected
<1>9. hrReports' \in Seq(Reports) /\ Range(hrReports') = Range(hrReports) \cup NewReports(i)
  <2> DEFINE ok == IF ended THEN <<Report(i, TRUE)>> ELSE <<>>
             failed == IF ~paid THEN <<Report(i, FALSE)>> ELSE <<>>
  <2>1. hrReports' = hrReports \o ok \o failed
    <3>1. CASE paid
      BY <3>1 DEF TaskCollected, Report
    <3>2. CASE ~paid
      BY <3>2 DEF TaskCollected, Report
    <3>3. QED BY <3>1, <3>2
  <2>2. Report(i, TRUE) \in Reports /\ Report(i, FALSE) \in Reports
    BY <1>2 DEF Report, Reports
  <2>3. ok \in Seq(Reports) /\ Range(ok) = (IF ended THEN {Report(i, TRUE)} ELSE {})
    BY <2>2, RangeOfSome
  <2>4. failed \in Seq(Reports) /\ Range(failed) = (IF ~paid THEN {Report(i, FALSE)} ELSE {})
    <3>1. (~paid) \in BOOLEAN
      OBVIOUS
    <3>2. QED BY ONLY <2>2, <3>1, RangeOfSome
  <2> HIDE DEF ok, failed
  <2>5. hrReports \in Seq(Reports)
    BY DEF HlfTypeOK
  <2>6. hrReports \o ok \in Seq(Reports)
    BY <2>3, <2>5
  <2>7. Range(hrReports \o ok) = Range(hrReports) \cup Range(ok)
    <3>1. \A v, w \in Seq(Reports) : Range(v \o w) = Range(v) \cup Range(w)
      BY RangeOfJoin
    <3>2. QED BY <2>3, <2>5, <3>1
  <2>8. hrReports \o ok \o failed \in Seq(Reports)
    BY <2>4, <2>6
  <2>9. Range(hrReports \o ok \o failed) = Range(hrReports \o ok) \cup Range(failed)
    <3>1. \A v, w \in Seq(Reports) : Range(v \o w) = Range(v) \cup Range(w)
      BY RangeOfJoin
    <3>2. QED BY <2>4, <2>6, <3>1
  <2>10. QED BY <2>1, <2>3, <2>4, <2>7, <2>8, <2>9 DEF NewReports
<1>10. HlfTypeOK'
  <2>1. hrRun' \in [{0} \cup Tasks -> Runs]
    BY <1>4, <1>5 DEF HlfTypeOK
  <2>2. hrNamed' \in [TaskNames -> Nat \X (Tasks \cup {0})]
    BY <1>2, <1>8 DEF HlfTypeOK
  <2>3. hrLost' \in Nat
    BY <1>3, <1>7 DEF HlfTypeOK
  <2>4. QED BY <1>1, <1>9, <2>1, <2>2, <2>3 DEF HlfTypeOK
<1>11. TasksInv'
  BY <1>1, <1>2, <1>5, <1>6 DEF TasksInv
<1>12. NodesAreAccountedFor'
  <2>1. hrRun[1].gas \in Nat /\ hrRun[2].gas \in Nat /\ hrLost \in Nat /\ hrExecuted \in Nat
    BY DEF HlfTypeOK, Runs, Tasks
  <2>2. hrRun'[0].gas + hrLost' = hrRun[0].gas + hrLost + hrRun[i].gas
    BY <1>3, <1>5, <1>6, <1>7, <2>1
  <2>3. hrRun'[1].gas = hrRun[1].gas /\ hrRun'[2].gas = hrRun[2].gas
    BY <1>6 DEF Tasks
  <2>4. CASE i = 1
    BY <1>1, <1>3, <2>1, <2>2, <2>3, <2>4 DEF NodesAreAccountedFor
  <2>5. CASE i = 2
    BY <1>1, <1>3, <2>1, <2>2, <2>3, <2>5 DEF NodesAreAccountedFor
  <2>6. QED BY <2>4, <2>5 DEF Tasks
<1>13. CountersWithinCaps'
  <2>1. DOMAIN hrRun = {0} \cup Tasks /\ DOMAIN hrRun' = {0} \cup Tasks
    BY <1>4 DEF HlfTypeOK
  <2>2. QED BY <1>1, <1>5, <1>6, <2>1 DEF CountersWithinCaps
<1>14. ReportsInv'
  <2>1. /\ NewReports(i) # {} /\ \A r \in NewReports(i) : r.task = i /\ r.name = name
        /\ paid <=> \A r \in NewReports(i) : r.ok
    <3>1. /\ Report(i, TRUE).ok /\ ~Report(i, FALSE).ok
          /\ \A ok : Report(i, ok).task = i /\ Report(i, ok).name = name
      BY DEF Report
    <3>2. \A r \in NewReports(i) : r.task = i /\ r.name = name
      BY <3>1 DEF NewReports
    <3>3. CASE paid
      <4>1. ended
        BY <3>3 DEF Charged
      <4>2. NewReports(i) = {Report(i, TRUE)}
        BY <3>3, <4>1 DEF NewReports
      <4>3. QED BY <3>1, <3>2, <3>3, <4>2
    <3>4. CASE ~paid
      <4>1. Report(i, FALSE) \in NewReports(i)
        BY <3>4 DEF NewReports
      <4>2. QED BY <3>1, <3>2, <3>4, <4>1
    <3>5. QED BY <3>3, <3>4
  <2>2. Outcomes(i) = {}
    BY <1>1 DEF ReportsInv
  <2>3. Outcomes(i)' = NewReports(i)
    BY <1>9, <2>1, <2>2 DEF Outcomes
  <2>4. \A j \in Tasks \ {i} : Outcomes(j)' = Outcomes(j)
    BY <1>9, <2>1 DEF Outcomes
  <2>5. \A n : FineOf(n)' = FineOf(n) \cup (IF paid /\ n = name THEN {i} ELSE {})
    <3>1. ASSUME NEW n, NEW j \in Tasks \ {i} PROVE j \in FineOf(n)' <=> j \in FineOf(n)
      BY <2>4 DEF FineOf, Fine
    <3>2. ASSUME NEW n PROVE i \notin FineOf(n) /\ (i \in FineOf(n)' <=> paid /\ n = name)
      BY <2>1, <2>2, <2>3 DEF FineOf, Fine
    <3>3. \A n : FineOf(n) \subseteq Tasks /\ FineOf(n)' \subseteq Tasks
      BY DEF FineOf
    <3>4. QED BY <3>1, <3>2, <3>3
  <2>6. \A j \in Tasks : j \in hrCollected' <=> Outcomes(j)' # {}
    BY <1>1, <2>1, <2>3, <2>4 DEF ReportsInv
  <2>7. \A r, s \in Range(hrReports') : r.task = s.task => r.name = s.name
    <3>1. \A r \in Range(hrReports) : r.task # i
      BY <2>2 DEF Outcomes
    <3>2. QED BY <1>9, <2>1, <3>1 DEF ReportsInv
  <2>8. ASSUME NEW n \in TaskNames
        PROVE  /\ hrNamed'[n][1] <= hrRound'
               /\ IF FineOf(n)' = {} THEN hrNamed'[n][1] # hrRound'
                  ELSE hrNamed'[n][1] = hrRound' /\ hrNamed'[n][2] \in FineOf(n)'
    <3>1. /\ hrNamed[n][1] <= hrRound /\ hrRound' = hrRound /\ hrRound \in Nat
          /\ IF FineOf(n) = {} THEN hrNamed[n][1] # hrRound
             ELSE hrNamed[n][1] = hrRound /\ hrNamed[n][2] \in FineOf(n)
      BY <1>1 DEF ReportsInv, HlfTypeOK
    <3>2. CASE paid /\ n = name
      <4>1. hrNamed'[n] = <<hrRound, i>>
        BY <1>8, <3>2 DEF HlfTypeOK
      <4>2. i \in FineOf(n)'
        BY <2>5, <3>2
      <4>3. QED BY <3>1, <4>1, <4>2
    <3>3. CASE ~(paid /\ n = name)
      <4>1. hrNamed'[n] = hrNamed[n]
        BY <1>8, <3>3 DEF HlfTypeOK
      <4>2. FineOf(n)' = FineOf(n)
        BY <2>5, <3>3
      <4>3. QED BY <3>1, <4>1, <4>2
    <3>4. QED BY <3>2, <3>3
  <2>9. QED BY <2>6, <2>7, <2>8 DEF ReportsInv
<1>15. QED BY <1>10, <1>11, <1>12, <1>13, <1>14

-----------------------------------------------------------------------------
(* The theorem. *)

LEMMA HlfInductive == HlfInv /\ [HlfNext]_hrVars => HlfInv'
<1> SUFFICES ASSUME HlfInv, [HlfNext]_hrVars PROVE HlfInv'
  OBVIOUS
<1>1. ASSUME NEW i \in {0} \cup Tasks, MacroReturns(i) \/ GasRunsOut(i) \/ NodeRuns(i) \/ HlfEnds(i)
      PROVE  HlfInv'
  BY <1>1, MacroReturnsStep, GasRunsOutStep, NodeRunsStep, HlfEndsStep
<1>2. ASSUME NEW i \in Tasks, TaskStarts(i) \/ TaskCollected(i)
      PROVE  HlfInv'
  BY <1>2, TaskStartsStep, TaskCollectedStep
<1>3. CASE ParallelBegins \/ ParallelEnds
  BY <1>3, ParallelBeginsStep, ParallelEndsStep
<1>4. CASE UNCHANGED hrVars
  <2> USE <1>4 DEF hrVars, HlfInv
  <2>1. HlfTypeOK'
    BY DEF HlfTypeOK
  <2>2. TasksInv'
    BY DEF TasksInv
  <2>3. NodesAreAccountedFor'
    BY DEF NodesAreAccountedFor
  <2>4. CountersWithinCaps'
    BY DEF CountersWithinCaps
  <2>5. ReportsInv'
    BY DEF ReportsInv, Outcomes, Fine, FineOf
  <2>6. QED BY <2>1, <2>2, <2>3, <2>4, <2>5
<1>5. QED BY <1>1, <1>2, <1>3, <1>4 DEF HlfNext

LEMMA AllReported == HlfInv => EveryTaskReported
<1> SUFFICES ASSUME HlfInv, hrRun[0].state # "waiting", hrCollected # {}
             PROVE  \A i \in Tasks :
                      /\ Outcomes(i) # {}
                      /\ \A r \in Outcomes(i) :
                           IF FineOf(r.name) = {} THEN hrNamed[r.name][1] # hrRound
                           ELSE hrNamed[r.name][1] = hrRound
                                /\ hrNamed[r.name][2] \in FineOf(r.name)
  BY DEF EveryTaskReported, Outcomes, Fine, FineOf
<1>1. hrCollected = Tasks
  BY DEF HlfInv, TasksInv
<1>2. \A r \in Range(hrReports) : r \in Reports
  BY DEF HlfInv, HlfTypeOK, Range
<1>3. ASSUME NEW i \in Tasks, NEW r \in Outcomes(i) PROVE r.name \in TaskNames
  BY <1>2 DEF Outcomes, Reports
<1>4. QED BY <1>1, <1>3 DEF HlfInv, ReportsInv

\* The interpreter's books balance: a node executed by any thread is in one counter or
\* was lost with a task that failed, no counter exceeds its cap, and every task of a
\* PARALLEL is reported, whatever the order in which its tasks start, run and complete.
THEOREM GasMetered == HlfSpec => []GasIsMetered
<1>1. HlfInv => GasIsMetered
  BY AllReported DEF HlfInv, GasIsMetered
<1>2. QED BY <1>1, HlfInitially, HlfInductive, PTL DEF HlfSpec


-----------------------------------------------------------------------------
(* The tool installer. *)

Entries == [repo : ToolRepos, status : {"active", "suspended"}]
Clones == [repo : ToolRepos \cup {NoRepo}, sandbox : BOOLEAN, links : BOOLEAN]
FunctionFiles == [state : {"ok", "absent", "bad"}, names : SUBSET RepoTools]
\* A tool whose virtual environment the verifier refuses, in a directory of its own.
Escapes(repo) == Posix /\ repo.adapter = "python" /\ ~repo.venv /\ repo.dir \notin tiReused
\* Registry files and their copies: what they name is what was registered under that name.
Registries ==
  {reg \in UNION {[names -> Entries] : names \in SUBSET RepoTools} :
     \A t \in DOMAIN reg : reg[t].repo.tool = t /\ ~Escapes(reg[t].repo)}
ToolPhases ==
  {"rest", "clone", "validate", "sandbox", "verify", "register", "function", "add",
   "rollBack", "forget", "remove", "unlist", "drop"}
ToolCommands ==
  [phase : ToolPhases, repo : ToolRepos \cup {NoRepo}, tool : RepoTools \cup {""}, again : BOOLEAN,
   registry : Registries, functions : SUBSET RepoTools]

ToolTyped ==
  /\ tiFunctions \in FunctionFiles
  /\ tiCommand \in [Commands -> ToolCommands] /\ tiFiles \in [RepoDirs -> Clones]
  /\ tiRegistry \in Registries /\ tiMonitor \in Registries /\ tiUpset \in BOOLEAN
\* What a command is about.
Fits(command) ==
  /\ command.phase # "rest" => command.repo \in ToolRepos
  /\ command.phase \in {"register", "function", "add"} => ~Escapes(command.repo)
  /\ command.phase \in {"forget", "remove", "unlist", "drop"} => command.tool = command.repo.tool
\* A directory that no other clones into while it is in use holds its command's clone, or
\* nothing; once the tool is to be verified, with the links of a virtual environment made.
OwnClones ==
  \A p \in Commands : Phase(p) \in {"validate", "sandbox", "verify"} =>
    \/ Dir(p) \in tiReused
    \/ tiFiles[Dir(p)] = NoFiles
    \/ /\ tiFiles[Dir(p)].repo = tiCommand[p].repo
       /\ Phase(p) = "verify" /\ Escapes(tiCommand[p].repo) => tiFiles[Dir(p)].links

\* The rest is about states without what tiUpset remembers. No two commands are for one tool.
Busy(p) == Phase(p) # "rest"
Tool(p) == tiCommand[p].repo.tool
ToolsApart == \A p, q \in Commands : p # q /\ Busy(p) /\ Busy(q) => Tool(p) # Tool(q)

\* The registry and host_functions.json differ by the commands between the two, and by
\* what was not written or was lost.
BetweenPhases == {"function", "add", "remove", "unlist", "drop"}
Between(p, t) == Phase(p) \in BetweenPhases /\ Tool(p) = t
InStep(t) == t \in tiFunctions.names <=> t \in DOMAIN tiRegistry
ToolThere(p) ==
  /\ Phase(p) \in {"function", "add"} => Tool(p) \in DOMAIN tiRegistry
  /\ Phase(p) \in {"remove", "unlist", "drop"} => Tool(p) \notin DOMAIN tiRegistry
FunctionsFollow ==
  /\ \A t \in RepoTools \ tiMissed : (\A p \in Commands : ~Between(p, t)) => InStep(t)
  /\ \A p \in Commands : ToolThere(p)

\* A directory is used by the tools registered in it and by the commands that cloned into
\* it or are to remove it: by one of them, unless it was cloned into while in use.
Holds(p) ==
  Phase(p) \in {"validate", "sandbox", "verify", "register", "function", "add", "rollBack", "forget", "remove"}
ToolDir(t) == tiRegistry[t].repo.dir
HoldersApart ==
  /\ \A p, q \in Commands : p # q /\ Holds(p) /\ Holds(q) /\ Dir(p) = Dir(q) => Dir(p) \in tiReused
  /\ \A p \in Commands, t \in DOMAIN tiRegistry :
       Holds(p) /\ Dir(p) = ToolDir(t) =>
         Dir(p) \in tiReused \/ (Phase(p) \in {"function", "add", "forget"} /\ Tool(p) = t)
  /\ \A t, u \in DOMAIN tiRegistry : t # u /\ ToolDir(t) = ToolDir(u) => ToolDir(t) \in tiReused

\* What is in it is its user's.
FilesFollow ==
  /\ \A p \in Commands : Phase(p) \in {"validate", "sandbox", "verify", "register"} =>
       \/ Dir(p) \in tiReused
       \/ /\ tiFiles[Dir(p)].repo = tiCommand[p].repo
          /\ Phase(p) \in {"verify", "register"} => tiFiles[Dir(p)].sandbox
  /\ \A t \in DOMAIN tiRegistry : Active(t) => ToolDir(t) \in tiReused \/ OwnFiles(t)

ToolInv ==
  /\ ToolTyped /\ OwnClones /\ \A p \in Commands : Fits(tiCommand[p])
  /\ ~tiUpset => ToolsApart /\ FunctionsFollow /\ HoldersApart /\ FilesFollow

\* A step of p leaves the directories that others are at work in to them.
ClonesStay(p) ==
  \A d \in RepoDirs :
    \/ tiFiles'[d] \in {tiFiles[d], NoFiles} \/ d \in tiReused'
    \/ /\ tiFiles[d] # NoFiles /\ tiFiles'[d].repo = tiFiles[d].repo
       /\ tiFiles[d].links => tiFiles'[d].links
    \/ \A q \in Commands \ {p} : Busy(q) => Dir(q) # d
\* What p, whose command becomes w, has in its directory then.
CloneIs(w) ==
  w.phase \in {"validate", "sandbox", "verify"} =>
    \/ w.repo.dir \in tiReused' \/ tiFiles'[w.repo.dir] = NoFiles
    \/ /\ tiFiles'[w.repo.dir].repo = w.repo
       /\ w.phase = "verify" /\ Escapes(w.repo) => tiFiles'[w.repo.dir].links

LEMMA EmptyRegistry == <<>> \in Registries /\ DOMAIN <<>> = {}
<1>1. <<>> \in Seq(Entries) /\ Len(<<>>) = 0
  OBVIOUS
<1>2. DOMAIN <<>> = {}
  BY <1>1
<1>3. <<>> \in [{} -> Entries]
  BY <1>1, <1>2
<1>4. {} \in SUBSET RepoTools
  OBVIOUS
<1>5. <<>> \in UNION {[names -> Entries] : names \in SUBSET RepoTools}
  BY <1>3, <1>4
<1>6. QED BY <1>2, <1>5 DEF Registries

LEMMA RegistryParts ==
    ASSUME NEW reg \in Registries, NEW t \in DOMAIN reg
    PROVE  /\ reg[t] \in Entries /\ reg[t].repo \in ToolRepos /\ reg[t].repo.tool = t /\ ~Escapes(reg[t].repo)
           /\ t \in RepoTools /\ reg[t].repo.dir \in RepoDirs
           /\ reg[t] = [repo |-> reg[t].repo, status |-> reg[t].status]
<1>1. PICK names \in SUBSET RepoTools : reg \in [names -> Entries]
  BY DEF Registries
<1>2. t \in names /\ reg[t] \in Entries
  BY <1>1
<1>3. reg[t].repo.tool = t /\ ~Escapes(reg[t].repo)
  BY DEF Registries
<1>4. reg[t].repo \in ToolRepos /\ reg[t] = [repo |-> reg[t].repo, status |-> reg[t].status]
  BY <1>2 DEF Entries
<1>5. QED BY <1>1, <1>2, <1>3, <1>4 DEF RepoDirs

\* A function that names its repositories right is a registry.
LEMMA MakesRegistry ==
    ASSUME NEW names \in SUBSET RepoTools, NEW reg \in [names -> Entries],
           \A t \in names : reg[t].repo.tool = t /\ ~Escapes(reg[t].repo)
    PROVE  reg \in Registries /\ DOMAIN reg = names
BY DEF Registries

LEMMA Dropped ==
    ASSUME NEW reg \in Registries, NEW tool
    PROVE  /\ Drop(reg, tool) \in Registries /\ DOMAIN Drop(reg, tool) = DOMAIN reg \ {tool}
           /\ \A t \in DOMAIN reg \ {tool} : Drop(reg, tool)[t] = reg[t]
<1> DEFINE names == DOMAIN reg \ {tool}
           left == [t \in names |-> reg[t]]
<1>1. \A t \in names : reg[t] \in Entries /\ reg[t].repo.tool = t /\ ~Escapes(reg[t].repo) /\ t \in RepoTools
  BY RegistryParts
<1>2. names \in SUBSET RepoTools
  BY <1>1
<1>3. left \in [names -> Entries] /\ \A t \in names : left[t] = reg[t]
  BY <1>1
<1> HIDE DEF left
<1>4. left \in Registries /\ DOMAIN left = names
  BY <1>1, <1>2, <1>3, MakesRegistry
<1>5. Drop(reg, tool) = left
  BY DEF left, Drop
<1>6. QED BY <1>3, <1>4, <1>5

LEMMA Put ==
    ASSUME NEW reg \in Registries, NEW repo \in ToolRepos, ~Escapes(repo), NEW new,
           new = PutEntry(reg, repo.tool, EntryOf(repo))
    PROVE  /\ new \in Registries /\ DOMAIN new = DOMAIN reg \cup {repo.tool}
           /\ new[repo.tool] = [repo |-> repo, status |-> "active"]
           /\ \A t \in DOMAIN reg : t # repo.tool => new[t] = reg[t]
<1> DEFINE names == DOMAIN reg \cup {repo.tool}
           put == [t \in names |-> IF t = repo.tool THEN EntryOf(repo) ELSE reg[t]]
<1>1. \A t \in DOMAIN reg : reg[t] \in Entries /\ reg[t].repo.tool = t /\ ~Escapes(reg[t].repo) /\ t \in RepoTools
  BY RegistryParts
<1>2. names \in SUBSET RepoTools
  BY <1>1 DEF RepoTools
<1>3. EntryOf(repo) \in Entries /\ EntryOf(repo).repo = repo
  BY DEF EntryOf, Entries
<1>4. /\ put \in [names -> Entries] /\ put[repo.tool] = EntryOf(repo)
      /\ \A t \in DOMAIN reg : t # repo.tool => put[t] = reg[t]
  BY <1>1, <1>3
<1> HIDE DEF put
<1>5. \A t \in names : put[t].repo.tool = t /\ ~Escapes(put[t].repo)
  BY <1>1, <1>3, <1>4
<1>6. put \in Registries /\ DOMAIN put = names
  BY <1>2, <1>4, <1>5, MakesRegistry
<1>7. new = put
  BY DEF put, PutEntry
<1>8. QED BY <1>4, <1>6, <1>7 DEF EntryOf

LEMMA RevokedKeeps ==
    ASSUME tiMonitor \in Registries, NEW new, new = Revoked
    PROVE  /\ new \in Registries /\ DOMAIN new = DOMAIN tiMonitor
           /\ \A t \in DOMAIN tiMonitor : /\ new[t].repo = tiMonitor[t].repo
                                          /\ new[t].status = "active" => tiMonitor[t].status = "active"
<1>1. PICK old \in Registries : old = tiMonitor
  OBVIOUS
<1>2. \A t \in DOMAIN old : old[t] \in Entries /\ old[t].repo.tool = t /\ ~Escapes(old[t].repo) /\ t \in RepoTools
  BY RegistryParts
<1>3. DOMAIN old \in SUBSET RepoTools
  BY <1>2
<1>4. new = [t \in DOMAIN old |-> IF Healthy(old[t]) THEN old[t] ELSE [old[t] EXCEPT !.status = "suspended"]]
  BY <1>1 DEF Revoked
<1>5. ASSUME NEW t \in DOMAIN old
      PROVE  /\ new[t] \in Entries /\ new[t].repo = old[t].repo
             /\ new[t].status = "active" => old[t].status = "active"
  <2>1. PICK entry \in Entries : entry = old[t]
    BY <1>2
  <2>2. PICK suspended : suspended = [entry EXCEPT !.status = "suspended"]
    OBVIOUS
  <2>3. suspended \in Entries /\ suspended.repo = entry.repo /\ suspended.status = "suspended"
    BY <2>2 DEF Entries
  <2>4. new[t] \in {entry, suspended}
    BY <1>4, <2>1, <2>2
  <2>5. QED BY <2>1, <2>3, <2>4
<1>6. new \in [DOMAIN old -> Entries]
  BY <1>4, <1>5
<1>7. \A t \in DOMAIN old : new[t].repo.tool = t /\ ~Escapes(new[t].repo)
  BY <1>2, <1>5
<1>8. new \in Registries /\ DOMAIN new = DOMAIN old
  BY <1>3, <1>6, <1>7, MakesRegistry
<1>9. QED BY <1>1, <1>5, <1>8

-----------------------------------------------------------------------------
\* The command of p becomes w.
LEMMA Becomes ==
    ASSUME ToolTyped, NEW p \in Commands, NEW w \in ToolCommands, Step(p, w)
    PROVE  /\ tiCommand' \in [Commands -> ToolCommands] /\ tiCommand'[p] = w
           /\ \A q \in Commands : q # p => tiCommand'[q] = tiCommand[q]
BY DEF ToolTyped, Step

LEMMA RestingTyped ==
    Resting \in ToolCommands /\ Resting.phase = "rest" /\ Fits(Resting)
BY EmptyRegistry DEF Resting, ToolCommands, ToolPhases, Fits

LEMMA GoesAhead ==
    ASSUME ToolTyped, NEW p \in Commands, NEW phase \in ToolPhases, Ahead(p, phase)
    PROVE  \E w \in ToolCommands :
             /\ Step(p, w) /\ w.phase = phase /\ w.repo = tiCommand[p].repo /\ w.tool = tiCommand[p].tool
             /\ w.again = tiCommand[p].again /\ w.registry = tiCommand[p].registry
<1>1. PICK old \in ToolCommands : old = tiCommand[p]
  BY DEF ToolTyped
<1>2. PICK w : w = [old EXCEPT !.phase = phase]
  OBVIOUS
<1>3. /\ w \in ToolCommands /\ w.phase = phase /\ w.repo = old.repo /\ w.tool = old.tool
      /\ w.again = old.again /\ w.registry = old.registry
  BY <1>2 DEF ToolCommands
<1>4. Step(p, w)
  BY <1>1, <1>2 DEF Ahead
<1>5. QED BY <1>1, <1>3, <1>4

LEMMA CommandParts ==
    ASSUME NEW w \in ToolCommands
    PROVE  /\ w.phase \in ToolPhases /\ w.repo \in ToolRepos \cup {NoRepo} /\ w.registry \in Registries
BY DEF ToolCommands

LEMMA ToolStarts == ToolInit => ToolInv
<1> SUFFICES ASSUME ToolInit PROVE ToolInv
  OBVIOUS
<1>1. /\ tiFiles = [d \in RepoDirs |-> NoFiles] /\ tiRegistry = <<>>
      /\ tiFunctions \in FunctionFiles /\ tiFunctions.names = {}
      /\ tiCommand = [p \in Commands |-> Resting] /\ tiMonitor = <<>> /\ tiReused = {} /\ tiUpset = FALSE
  BY DEF ToolInit, FunctionFiles
<1>2. NoFiles \in Clones
  BY DEF NoFiles, Clones
<1>3. ToolTyped
  BY <1>1, <1>2, EmptyRegistry, RestingTyped DEF ToolTyped
<1>4. \A p \in Commands : Fits(tiCommand[p]) /\ Phase(p) = "rest"
  BY <1>1, RestingTyped DEF Phase
<1>7. OwnClones
  BY <1>4 DEF OwnClones
<1>5. ToolsApart /\ FunctionsFollow /\ HoldersApart /\ FilesFollow
  BY <1>1, <1>4, EmptyRegistry
     DEF ToolsApart, Busy, FunctionsFollow, InStep, ToolThere, HoldersApart, Holds, FilesFollow
<1>6. QED BY <1>3, <1>4, <1>5, <1>7 DEF ToolInv

-----------------------------------------------------------------------------
(* What a step of one command keeps. *)

HoldingPhases == {"validate", "sandbox", "verify", "register", "function", "add", "rollBack", "forget", "remove"}

\* A command that goes on for its tool, or ends, stays apart.
LEMMA ApartKept ==
    ASSUME ToolTyped, ToolsApart, NEW p \in Commands, NEW w \in ToolCommands, Step(p, w),
           w.phase = "rest" \/ (w.repo = tiCommand[p].repo /\ Busy(p))
    PROVE  ToolsApart'
<1>1. tiCommand'[p] = w /\ \A q \in Commands : q # p => tiCommand'[q] = tiCommand[q]
  BY Becomes
<1>2. ASSUME NEW q \in Commands
      PROVE  (Phase(q) # "rest")' => Phase(q) # "rest" /\ tiCommand'[q].repo = tiCommand[q].repo
  BY <1>1 DEF Phase, Busy
<1>3. QED BY <1>2 DEF ToolsApart, Busy, Tool

LEMMA FunctionsKept ==
    ASSUME ToolTyped, FunctionsFollow, NEW p \in Commands, NEW w \in ToolCommands, Step(p, w),
           Phase(p) \notin BetweenPhases, w.phase \notin BetweenPhases,
           UNCHANGED <<tiRegistry, tiFunctions, tiMissed>>
    PROVE  FunctionsFollow'
<1>1. tiCommand'[p] = w /\ \A q \in Commands : q # p => tiCommand'[q] = tiCommand[q]
  BY Becomes
<1>2. \A q \in Commands :
        /\ (Phase(q) \in BetweenPhases)' <=> Phase(q) \in BetweenPhases
        /\ Phase(q) \in BetweenPhases => Phase(q)' = Phase(q) /\ Tool(q)' = Tool(q)
  BY <1>1 DEF Phase, Tool
<1>3. \A t : \A q \in Commands : Between(q, t)' <=> Between(q, t)
  BY <1>2 DEF Between
<1>4. \A t \in RepoTools \ tiMissed' : (\A q \in Commands : ~Between(q, t))' => InStep(t)'
  BY <1>3 DEF FunctionsFollow, InStep
<1>5. \A q \in Commands : ToolThere(q)'
  BY <1>2 DEF FunctionsFollow, ToolThere, BetweenPhases
<1>6. QED BY <1>4, <1>5 DEF FunctionsFollow

\* A command between the two goes on there; nothing else changes.
LEMMA FunctionsWait ==
    ASSUME ToolTyped, FunctionsFollow, NEW p \in Commands, NEW w \in ToolCommands, Step(p, w),
           w.repo = tiCommand[p].repo, UNCHANGED <<tiRegistry, tiFunctions, tiMissed>>,
           \/ Phase(p) = "function" /\ w.phase = "add"
           \/ Phase(p) \in {"remove", "unlist"} /\ w.phase \in {"unlist", "drop"}
    PROVE  FunctionsFollow'
<1>1. tiCommand'[p] = w /\ \A q \in Commands : q # p => tiCommand'[q] = tiCommand[q]
  BY Becomes
<1>2. /\ \A q \in Commands : q # p => Phase(q)' = Phase(q) /\ Tool(q)' = Tool(q)
      /\ Phase(p)' = w.phase /\ Tool(p)' = Tool(p)
  BY <1>1 DEF Phase, Tool
<1>3. \A t : \A q \in Commands : Between(q, t)' <=> Between(q, t)
  BY <1>2 DEF Between, BetweenPhases
<1>4. \A t \in RepoTools \ tiMissed' : (\A q \in Commands : ~Between(q, t))' => InStep(t)'
  BY <1>3 DEF FunctionsFollow, InStep
<1>5. \A q \in Commands : ToolThere(q)'
  BY <1>2 DEF FunctionsFollow, ToolThere
<1>6. QED BY <1>4, <1>5 DEF FunctionsFollow

LEMMA HoldersKept ==
    ASSUME ToolTyped, HoldersApart, NEW p \in Commands, NEW w \in ToolCommands, Step(p, w),
           w.phase \in HoldingPhases => w.repo = tiCommand[p].repo /\ Holds(p),
           Phase(p) \in {"function", "add", "forget"} => w.phase \notin HoldingPhases \/ w.phase = "add",
           tiReused \subseteq tiReused', UNCHANGED tiRegistry
    PROVE  HoldersApart'
<1>1. tiCommand'[p] = w /\ \A q \in Commands : q # p => tiCommand'[q] = tiCommand[q]
  BY Becomes
<1>2. ASSUME NEW q \in Commands, Holds(q)'
      PROVE  /\ Holds(q) /\ Dir(q)' = Dir(q) /\ Tool(q)' = Tool(q)
             /\ Phase(q) \in {"function", "add", "forget"} => Phase(q)' \in {"function", "add", "forget"}
  BY <1>1, <1>2 DEF Phase, Holds, HoldingPhases, Dir, Tool
<1>3. \A t \in DOMAIN tiRegistry : ToolDir(t)' = ToolDir(t)
  BY DEF ToolDir
<1>4. \A q, r \in Commands : q # r /\ Holds(q)' /\ Holds(r)' /\ Dir(q)' = Dir(r)' => Dir(q)' \in tiReused'
  BY <1>2 DEF HoldersApart
<1>5. \A q \in Commands, t \in DOMAIN tiRegistry : Holds(q)' /\ Dir(q)' = ToolDir(t)' =>
        Dir(q)' \in tiReused' \/ (Phase(q)' \in {"function", "add", "forget"} /\ Tool(q)' = t)
  BY <1>2, <1>3 DEF HoldersApart
<1>6. \A t, u \in DOMAIN tiRegistry : t # u /\ ToolDir(t)' = ToolDir(u)' => ToolDir(t)' \in tiReused'
  BY <1>3 DEF HoldersApart
<1>7. QED BY <1>4, <1>5, <1>6 DEF HoldersApart

\* A step that touches no files but those of p, of which the registry knows nothing.
LEMMA FilesKept ==
    ASSUME ToolTyped, \A q \in Commands : Fits(tiCommand[q]), FilesFollow, HoldersApart,
           NEW p \in Commands, NEW w \in ToolCommands, Step(p, w),
           tiReused \subseteq tiReused', UNCHANGED tiRegistry, tiFiles' \in [RepoDirs -> Clones],
           \/ UNCHANGED tiFiles
           \/ /\ Holds(p) /\ Phase(p) \notin {"function", "add", "forget"}
              /\ \A d \in RepoDirs : d # Dir(p) => tiFiles'[d] = tiFiles[d],
           w.phase \in {"validate", "sandbox", "verify", "register"} =>
             \/ w.repo.dir \in tiReused'
             \/ /\ tiFiles'[w.repo.dir].repo = w.repo
                /\ w.phase \in {"verify", "register"} => tiFiles'[w.repo.dir].sandbox
    PROVE  FilesFollow'
<1>1. tiCommand'[p] = w /\ \A q \in Commands : q # p => tiCommand'[q] = tiCommand[q]
  BY Becomes
<1>2. ASSUME NEW q \in Commands, (Phase(q) \in {"validate", "sandbox", "verify", "register"})'
      PROVE  \/ Dir(q)' \in tiReused'
             \/ /\ tiFiles'[Dir(q)'].repo = tiCommand'[q].repo
                /\ Phase(q)' \in {"verify", "register"} => tiFiles'[Dir(q)'].sandbox
  <2>1. CASE q = p
    BY <1>1, <1>2, <2>1 DEF Phase, Dir
  <2>2. CASE q # p
    <3>1. /\ Phase(q) \in {"validate", "sandbox", "verify", "register"} /\ Phase(q)' = Phase(q)
          /\ Dir(q)' = Dir(q) /\ tiCommand'[q].repo = tiCommand[q].repo
      BY <1>1, <1>2, <2>2 DEF Phase, Dir
    <3>2. Holds(q)
      BY <3>1 DEF Holds
    <3>3. \/ Dir(q) \in tiReused
          \/ /\ tiFiles[Dir(q)].repo = tiCommand[q].repo
             /\ Phase(q) \in {"verify", "register"} => tiFiles[Dir(q)].sandbox
      BY <3>1 DEF FilesFollow
    <3>4. CASE UNCHANGED tiFiles
      BY <3>1, <3>3, <3>4
    <3>5. CASE Holds(p) /\ \A d \in RepoDirs : d # Dir(p) => tiFiles'[d] = tiFiles[d]
      <4>1. Dir(q) = Dir(p) => Dir(q) \in tiReused
        BY <2>2, <3>2, <3>5 DEF HoldersApart
      <4>2. Dir(q) \in RepoDirs
        BY <3>1 DEF Fits, Phase, Dir, RepoDirs
      <4>3. QED BY <3>1, <3>3, <3>5, <4>1, <4>2
    <3>6. QED BY <3>4, <3>5
  <2>3. QED BY <2>1, <2>2
<1>3. ASSUME NEW t \in DOMAIN tiRegistry, Active(t)' PROVE ToolDir(t)' \in tiReused' \/ OwnFiles(t)'
  <2>1. Active(t) /\ ToolDir(t)' = ToolDir(t) /\ (ToolDir(t) \in tiReused \/ OwnFiles(t))
    BY <1>3 DEF Active, ToolDir, FilesFollow
  <2>2. ToolDir(t) \in RepoDirs
    BY RegistryParts DEF ToolDir, ToolTyped
  <2>3. CASE UNCHANGED tiFiles
    BY <2>1, <2>3 DEF OwnFiles
  <2>4. CASE /\ Holds(p) /\ Phase(p) \notin {"function", "add", "forget"}
             /\ \A d \in RepoDirs : d # Dir(p) => tiFiles'[d] = tiFiles[d]
    <3>1. ToolDir(t) = Dir(p) => ToolDir(t) \in tiReused
      BY <2>4 DEF HoldersApart
    <3>2. QED BY <2>1, <2>2, <2>4, <3>1 DEF OwnFiles, ToolDir
  <2>5. QED BY <2>3, <2>4
<1>4. QED BY <1>2, <1>3 DEF FilesFollow

-----------------------------------------------------------------------------
(* The steps. *)

LEMMA Splits ==
    ASSUME ToolInv, NEW p \in Commands
    PROVE  /\ ToolTyped /\ OwnClones /\ (\A q \in Commands : Fits(tiCommand[q])) /\ tiCommand[p] \in ToolCommands
           /\ Fits(tiCommand[p])
           /\ ~tiUpset => ToolsApart /\ FunctionsFollow /\ HoldersApart /\ FilesFollow
BY DEF ToolInv, ToolTyped

\* More directories that were reused admit more.
LEMMA Grown ==
    ASSUME tiReused \subseteq tiReused'
    PROVE  /\ \A repo : Escapes(repo)' => Escapes(repo)
           /\ Registries \subseteq Registries' /\ ToolCommands \subseteq ToolCommands'
           /\ \A w : Fits(w) => Fits(w)'
<1>1. \A repo : Escapes(repo)' => Escapes(repo)
  BY DEF Escapes
<1>2. ASSUME NEW reg \in Registries PROVE reg \in Registries'
  <2>1. /\ reg \in UNION {[names -> Entries] : names \in SUBSET RepoTools}
        /\ \A t \in DOMAIN reg : reg[t].repo.tool = t /\ ~Escapes(reg[t].repo)
    BY DEF Registries
  <2>2. \A t \in DOMAIN reg : reg[t].repo.tool = t /\ ~Escapes(reg[t].repo)'
    BY <1>1, <2>1
  <2>3. QED BY <2>1, <2>2 DEF Registries
<1>3. ToolCommands \subseteq ToolCommands'
  BY <1>2 DEF ToolCommands
<1>4. \A w : Fits(w) => Fits(w)'
  BY <1>1 DEF Fits
<1>5. QED BY <1>1, <1>2, <1>3, <1>4

\* Each goes on with its own clone.
LEMMA ClonesOwn ==
    ASSUME ToolTyped, OwnClones, \A q \in Commands : Fits(tiCommand[q]),
           NEW p \in Commands, NEW w \in ToolCommands, Step(p, w), CloneIs(w),
           tiReused \subseteq tiReused', UNCHANGED tiFiles \/ ClonesStay(p)
    PROVE  OwnClones'
<1>1. tiCommand'[p] = w /\ \A q \in Commands : q # p => tiCommand'[q] = tiCommand[q]
  BY Becomes
<1>2. ASSUME NEW q \in Commands, (Phase(q) \in {"validate", "sandbox", "verify"})'
      PROVE  \/ Dir(q)' \in tiReused' \/ tiFiles'[Dir(q)'] = NoFiles
             \/ /\ tiFiles'[Dir(q)'].repo = tiCommand'[q].repo
                /\ Phase(q)' = "verify" /\ Escapes(tiCommand'[q].repo) => tiFiles'[Dir(q)'].links
  <2>1. CASE q = p
    BY <1>1, <1>2, <2>1 DEF CloneIs, Phase, Dir
  <2>2. CASE q # p
    <3>1. /\ Phase(q) \in {"validate", "sandbox", "verify"} /\ Phase(q)' = Phase(q)
          /\ Dir(q)' = Dir(q) /\ tiCommand'[q].repo = tiCommand[q].repo
      BY <1>1, <1>2, <2>2 DEF Phase, Dir
    <3>2. \/ Dir(q) \in tiReused \/ tiFiles[Dir(q)] = NoFiles
          \/ /\ tiFiles[Dir(q)].repo = tiCommand[q].repo
             /\ Phase(q) = "verify" /\ Escapes(tiCommand[q].repo) => tiFiles[Dir(q)].links
      BY <3>1 DEF OwnClones
    <3>3. Dir(q) \in RepoDirs /\ Busy(q)
      BY <3>1 DEF Fits, Phase, Dir, RepoDirs, Busy
    <3>4. \/ tiFiles'[Dir(q)] \in {tiFiles[Dir(q)], NoFiles} \/ Dir(q) \in tiReused'
          \/ /\ tiFiles[Dir(q)] # NoFiles /\ tiFiles'[Dir(q)].repo = tiFiles[Dir(q)].repo
             /\ tiFiles[Dir(q)].links => tiFiles'[Dir(q)].links
      BY <2>2, <3>3 DEF ClonesStay
    <3>5. QED BY <3>1, <3>2, <3>4
  <2>3. QED BY <2>1, <2>2
<1>3. ASSUME NEW q \in Commands, (Phase(q) \in {"validate", "sandbox", "verify"})'
      PROVE  \/ Dir(q)' \in tiReused' \/ tiFiles'[Dir(q)'] = NoFiles
             \/ /\ tiFiles'[Dir(q)'].repo = tiCommand'[q].repo
                /\ Phase(q)' = "verify" /\ Escapes(tiCommand[q].repo)' => tiFiles'[Dir(q)'].links
  BY <1>2, <1>3 DEF Escapes
<1>4. QED BY <1>3 DEF OwnClones

\* The command of p becomes w, and nothing else that has a type changes its own.
LEMMA StaysTyped ==
    ASSUME ToolInv, NEW p \in Commands, NEW w \in ToolCommands, Step(p, w), Fits(w), CloneIs(w),
           UNCHANGED tiFiles \/ ClonesStay(p), tiReused \subseteq tiReused', tiFunctions' \in FunctionFiles,
           tiFiles' \in [RepoDirs -> Clones], tiRegistry' \in Registries, UNCHANGED tiMonitor,
           tiUpset' \in BOOLEAN
    PROVE  ToolTyped' /\ OwnClones' /\ \A q \in Commands : Fits(tiCommand[q])'
<1>1. ToolTyped /\ OwnClones /\ \A q \in Commands : Fits(tiCommand[q])
  BY DEF ToolInv
<1>2. /\ tiCommand' \in [Commands -> ToolCommands] /\ tiCommand'[p] = w
      /\ \A q \in Commands : q # p => tiCommand'[q] = tiCommand[q]
  BY <1>1, Becomes
<1>3. \A q \in Commands : Fits(tiCommand'[q])
  BY <1>1, <1>2
<1>4. \A q \in Commands : Fits(tiCommand[q])'
  BY <1>3, Grown DEF Fits, Escapes
<1>5. OwnClones'
  BY <1>1, ClonesOwn
<1>6. /\ tiCommand' \in [Commands -> ToolCommands'] /\ tiRegistry' \in Registries'
      /\ tiMonitor' \in Registries'
  BY <1>1, <1>2, Grown DEF ToolTyped
<1>7. ToolTyped'
  BY <1>6 DEF ToolTyped
<1>8. QED BY <1>4, <1>5, <1>7

\* A command begins for a tool that no other is at work on.
LEMMA ApartBegins ==
    ASSUME ToolTyped, ToolsApart, NEW p \in Commands, NEW w \in ToolCommands, Step(p, w),
           \A q \in Commands : Busy(q) => Tool(q) # w.repo.tool
    PROVE  ToolsApart'
<1>1. tiCommand'[p] = w /\ \A q \in Commands : q # p => tiCommand'[q] = tiCommand[q]
  BY Becomes
<1>2. \A q \in Commands : q # p => (Busy(q)' <=> Busy(q)) /\ Tool(q)' = Tool(q)
  BY <1>1 DEF Busy, Phase, Tool
<1>3. Tool(p)' = w.repo.tool
  BY <1>1 DEF Tool
<1>4. QED BY <1>2, <1>3 DEF ToolsApart

LEMMA InstallCalledKeeps ==
    ASSUME ToolInv, NEW p \in Commands, NEW repo \in ToolRepos, InstallCalled(p, repo) PROVE ToolInv'
<1>1. ToolTyped /\ (~tiUpset => ToolsApart /\ FunctionsFollow /\ HoldersApart /\ FilesFollow)
  BY Splits
<1>2. Phase(p) = "rest" /\ Overlap(repo.tool) /\ UNCHANGED <<tiFiles, tiRegistry, tiFunctions, tiMissed, tiMonitor, tiReused>>
  BY DEF FunctionsFile, InstallCalled
<1>3. PICK w \in ToolCommands : Step(p, w) /\ w.phase = "clone" /\ w.repo = repo
  <2>1. PICK resting \in ToolCommands, reg \in Registries : resting = Resting /\ reg = tiRegistry
    BY <1>1, RestingTyped DEF ToolTyped
  <2>2. PICK w : w = [resting EXCEPT !.phase = "clone", !.repo = repo, !.registry = reg]
    OBVIOUS
  <2>3. w \in ToolCommands /\ w.phase = "clone" /\ w.repo = repo
    BY <2>2 DEF ToolCommands, ToolPhases
  <2>4. Step(p, w)
    BY <2>1, <2>2 DEF InstallCalled
  <2>5. QED BY <2>3, <2>4
<1>4. tiUpset' \in BOOLEAN
  BY <1>2 DEF Overlap
<1>5. ToolTyped' /\ OwnClones' /\ \A q \in Commands : Fits(tiCommand[q])'
  <2>1. Fits(w) /\ CloneIs(w)
    BY <1>3 DEF Fits, CloneIs
  <2>2. QED BY <1>1, <1>2, <1>3, <1>4, <2>1, StaysTyped DEF ToolTyped
<1>6. ASSUME ~tiUpset' PROVE (ToolsApart /\ FunctionsFollow /\ HoldersApart /\ FilesFollow)'
  <2>1. /\ ToolsApart /\ FunctionsFollow /\ HoldersApart /\ FilesFollow
        /\ \A q \in Commands : Busy(q) => Tool(q) # repo.tool
    BY <1>1, <1>2, <1>6 DEF Overlap, Busy, Tool
  <2>2. ToolsApart'
    BY <1>1, <1>3, <2>1, ApartBegins
  <2>3. FunctionsFollow'
    BY <1>1, <1>2, <1>3, <2>1, FunctionsKept DEF BetweenPhases
  <2>4. HoldersApart'
    BY <1>1, <1>2, <1>3, <2>1, HoldersKept DEF HoldingPhases
  <2>5. FilesFollow'
    BY <1>1, <1>2, <1>3, <2>1, FilesKept, Splits DEF ToolTyped
  <2>6. QED BY <2>2, <2>3, <2>4, <2>5
<1>7. QED BY <1>5, <1>6 DEF ToolInv

LEMMA UninstallCalledKeeps ==
    ASSUME ToolInv, NEW p \in Commands, NEW tool \in DOMAIN tiRegistry, NEW again \in BOOLEAN,
           UninstallCalled(p, tool, again)
    PROVE  ToolInv'
<1>1. ToolTyped /\ (~tiUpset => ToolsApart /\ FunctionsFollow /\ HoldersApart /\ FilesFollow)
  BY Splits
<1>2. Phase(p) = "rest" /\ Overlap(tool) /\ UNCHANGED <<tiFiles, tiRegistry, tiFunctions, tiMissed, tiMonitor, tiReused>>
  BY DEF FunctionsFile, UninstallCalled
<1>3. PICK reg \in Registries, repo \in ToolRepos :
        reg = tiRegistry /\ repo = tiRegistry[tool].repo /\ repo.tool = tool /\ tool \in RepoTools
  BY <1>1, RegistryParts DEF ToolTyped
<1>4. PICK w \in ToolCommands : Step(p, w) /\ w.phase = "forget" /\ w.repo = repo /\ w.tool = tool
  <2>1. PICK resting \in ToolCommands : resting = Resting
    BY RestingTyped
  <2>2. PICK w : w = [resting EXCEPT !.phase = "forget", !.tool = tool, !.again = again, !.repo = repo,
                        !.registry = reg]
    OBVIOUS
  <2>3. w \in ToolCommands /\ w.phase = "forget" /\ w.repo = repo /\ w.tool = tool
    BY <1>3, <2>2 DEF ToolCommands, ToolPhases
  <2>4. Step(p, w)
    BY <1>3, <2>1, <2>2 DEF UninstallCalled
  <2>5. QED BY <2>3, <2>4
<1>5. tiUpset' \in BOOLEAN
  BY <1>2 DEF Overlap
<1>6. ToolTyped' /\ OwnClones' /\ \A q \in Commands : Fits(tiCommand[q])'
  <2>1. Fits(w) /\ CloneIs(w)
    BY <1>3, <1>4 DEF Fits, CloneIs
  <2>2. QED BY <1>1, <1>2, <1>4, <1>5, <2>1, StaysTyped DEF ToolTyped
<1>7. ASSUME ~tiUpset' PROVE (ToolsApart /\ FunctionsFollow /\ HoldersApart /\ FilesFollow)'
  <2>1. /\ ToolsApart /\ FunctionsFollow /\ HoldersApart /\ FilesFollow
        /\ \A q \in Commands : Busy(q) => Tool(q) # tool
    BY <1>1, <1>2, <1>7 DEF Overlap, Busy, Tool
  <2>2. ToolsApart'
    BY <1>1, <1>3, <1>4, <2>1, ApartBegins
  <2>3. FunctionsFollow'
    BY <1>1, <1>2, <1>4, <2>1, FunctionsKept DEF BetweenPhases
  <2>4. HoldersApart'
    <3>1. tiCommand'[p] = w /\ \A q \in Commands : q # p => tiCommand'[q] = tiCommand[q]
      BY <1>1, <1>4, Becomes
    <3>2. \A q \in Commands : q # p =>
            (Holds(q)' <=> Holds(q)) /\ Dir(q)' = Dir(q) /\ Tool(q)' = Tool(q) /\ Phase(q)' = Phase(q)
      BY <3>1 DEF Holds, Phase, Dir, Tool
    <3>3. Dir(p)' = ToolDir(tool) /\ Tool(p)' = tool /\ Phase(p)' = "forget"
      BY <1>3, <1>4, <3>1 DEF Dir, Tool, Phase, ToolDir
    <3>4. \A t \in DOMAIN tiRegistry : ToolDir(t)' = ToolDir(t)
      BY <1>2 DEF ToolDir
    <3>5. ASSUME NEW q \in Commands, Holds(q), Dir(q) = ToolDir(tool) PROVE Dir(q) \in tiReused
      <4>1. Tool(q) # tool
        BY <2>1, <3>5 DEF Holds, Busy
      <4>2. QED BY <2>1, <3>5, <4>1 DEF HoldersApart
    <3>6. \A q, r \in Commands : q # r /\ Holds(q)' /\ Holds(r)' /\ Dir(q)' = Dir(r)' => Dir(q)' \in tiReused
      <4>1. ASSUME NEW q \in Commands, NEW r \in Commands, q # r, Holds(q)', Holds(r)', Dir(q)' = Dir(r)'
            PROVE  Dir(q)' \in tiReused
        <5>1. CASE q # p /\ r # p
          BY <2>1, <3>2, <4>1, <5>1 DEF HoldersApart
        <5>2. CASE q = p
          BY <3>2, <3>3, <3>5, <4>1, <5>2
        <5>3. CASE r = p
          BY <3>2, <3>3, <3>5, <4>1, <5>3
        <5>4. QED BY <5>1, <5>2, <5>3
      <4>2. QED BY <4>1
    <3>7. ASSUME NEW q \in Commands, NEW t \in DOMAIN tiRegistry, Holds(q)', Dir(q)' = ToolDir(t)
          PROVE  Dir(q)' \in tiReused \/ (Phase(q)' \in {"function", "add", "forget"} /\ Tool(q)' = t)
      <4>1. CASE q # p
        BY <2>1, <3>2, <3>7, <4>1 DEF HoldersApart
      <4>2. CASE q = p /\ t # tool
        <5>1. ToolDir(t) = ToolDir(tool) /\ Dir(q)' = ToolDir(tool)
          BY <3>3, <3>7, <4>2
        <5>2. ToolDir(tool) \in tiReused
          BY <2>1, <4>2, <5>1 DEF HoldersApart
        <5>3. QED BY <4>2, <5>1, <5>2
      <4>3. CASE q = p /\ t = tool
        BY <3>3, <4>3
      <4>4. QED BY <4>1, <4>2, <4>3
    <3>8. QED BY <1>2, <2>1, <3>4, <3>6, <3>7 DEF HoldersApart
  <2>5. FilesFollow'
    BY <1>1, <1>2, <1>4, <2>1, FilesKept, Splits DEF ToolTyped
  <2>6. QED BY <2>2, <2>3, <2>4, <2>5
<1>8. QED BY <1>6, <1>7 DEF ToolInv

\* A command that fails or ends without a word to the registry, its files gone or as they were.
LEMMA EndsKeeps ==
    ASSUME ToolInv, NEW p \in Commands, Ends(p), Busy(p),
           Phase(p) \notin BetweenPhases \cup {"forget"}, UNCHANGED tiFiles \/ ClonesStay(p),
           tiFiles' \in [RepoDirs -> Clones], UNCHANGED <<tiRegistry, tiFunctions, tiMissed, tiUpset, tiMonitor>>,
           tiReused \subseteq tiReused',
           \/ UNCHANGED tiFiles
           \/ Holds(p) /\ \A d \in RepoDirs : d # Dir(p) => tiFiles'[d] = tiFiles[d]
    PROVE  ToolInv'
<1>1. ToolTyped /\ (~tiUpset => ToolsApart /\ FunctionsFollow /\ HoldersApart /\ FilesFollow)
  BY Splits
<1>2. PICK w \in ToolCommands : Step(p, w) /\ w.phase = "rest" /\ Fits(w) /\ CloneIs(w)
  BY RestingTyped DEF Ends, CloneIs
<1>3. ToolTyped' /\ OwnClones' /\ \A q \in Commands : Fits(tiCommand[q])'
  BY <1>1, <1>2, StaysTyped DEF ToolTyped
<1>4. ASSUME ~tiUpset PROVE (ToolsApart /\ FunctionsFollow /\ HoldersApart /\ FilesFollow)'
  <2>1. ToolsApart /\ FunctionsFollow /\ HoldersApart /\ FilesFollow
    BY <1>1, <1>4
  <2>2. ToolsApart'
    BY <1>1, <1>2, <2>1, ApartKept
  <2>3. FunctionsFollow'
    BY <1>1, <1>2, <2>1, FunctionsKept DEF BetweenPhases
  <2>4. HoldersApart'
    BY <1>1, <1>2, <2>1, HoldersKept DEF HoldingPhases
  <2>5. FilesFollow'
    BY <1>1, <1>2, <2>1, FilesKept, Splits DEF BetweenPhases
  <2>6. QED BY <2>2, <2>3, <2>4, <2>5
<1>5. QED BY <1>3, <1>4 DEF ToolInv

\* A command that goes on with its installation, its files as the next phase has them.
LEMMA GoesOnKeeps ==
    ASSUME ToolInv, NEW p \in Commands,
           NEW phase \in {"validate", "sandbox", "verify", "register", "rollBack"}, Ahead(p, phase),
           Phase(p) \in {"validate", "sandbox", "verify"}, phase = "register" => ~Escapes(tiCommand[p].repo),
           tiFiles' \in [RepoDirs -> Clones], UNCHANGED <<tiRegistry, tiFunctions, tiMissed, tiReused, tiUpset, tiMonitor>>,
           UNCHANGED tiFiles \/ ClonesStay(p),
           phase \in {"validate", "sandbox", "verify"} =>
             \/ Dir(p) \in tiReused \/ tiFiles'[Dir(p)] = NoFiles
             \/ /\ tiFiles'[Dir(p)].repo = tiCommand[p].repo
                /\ phase = "verify" /\ Escapes(tiCommand[p].repo) => tiFiles'[Dir(p)].links,
           UNCHANGED tiFiles \/ \A d \in RepoDirs : d # Dir(p) => tiFiles'[d] = tiFiles[d],
           ~tiUpset /\ phase # "rollBack" =>
             \/ Dir(p) \in tiReused
             \/ /\ tiFiles'[Dir(p)].repo = tiCommand[p].repo
                /\ phase \in {"verify", "register"} => tiFiles'[Dir(p)].sandbox
    PROVE  ToolInv'
<1>1. ToolTyped /\ Fits(tiCommand[p]) /\ (~tiUpset => ToolsApart /\ FunctionsFollow /\ HoldersApart /\ FilesFollow)
  BY Splits
<1>2. PICK w \in ToolCommands : Step(p, w) /\ w.phase = phase /\ w.repo = tiCommand[p].repo
  BY <1>1, GoesAhead DEF ToolPhases
<1>3. Fits(w) /\ Holds(p) /\ Busy(p) /\ w.repo.dir = Dir(p) /\ CloneIs(w)
  BY <1>1, <1>2 DEF Fits, Holds, Busy, Phase, Dir, CloneIs
<1>4. ToolTyped' /\ OwnClones' /\ \A q \in Commands : Fits(tiCommand[q])'
  BY <1>1, <1>2, <1>3, StaysTyped DEF ToolTyped
<1>5. ASSUME ~tiUpset PROVE (ToolsApart /\ FunctionsFollow /\ HoldersApart /\ FilesFollow)'
  <2>1. ToolsApart /\ FunctionsFollow /\ HoldersApart /\ FilesFollow
    BY <1>1, <1>5
  <2>2. ToolsApart'
    BY <1>1, <1>2, <1>3, <2>1, ApartKept
  <2>3. FunctionsFollow'
    BY <1>1, <1>2, <2>1, FunctionsKept DEF BetweenPhases
  <2>4. HoldersApart'
    BY <1>1, <1>2, <1>3, <2>1, HoldersKept DEF HoldingPhases
  <2>5. FilesFollow'
    BY <1>1, <1>2, <1>3, <1>5, <2>1, FilesKept, Splits
  <2>6. QED BY <2>2, <2>3, <2>4, <2>5
<1>6. QED BY <1>4, <1>5 DEF ToolInv

LEMMA CloneKeeps == ASSUME ToolInv, NEW p \in Commands, CloneTool(p) PROVE ToolInv'
<1>1. /\ ToolTyped /\ Fits(tiCommand[p])
      /\ ~tiUpset => ToolsApart /\ FunctionsFollow /\ HoldersApart /\ FilesFollow
  BY Splits
<1>2. /\ Phase(p) = "clone" /\ UNCHANGED <<tiRegistry, tiFunctions, tiMissed, tiUpset, tiMonitor>>
      /\ tiReused' = IF InUse(Dir(p), p) THEN tiReused \cup {Dir(p)} ELSE tiReused
  BY DEF CloneTool, Elsewhere, FunctionsFile
<1>3. PICK repo \in ToolRepos : repo = tiCommand[p].repo /\ repo.dir = Dir(p) /\ repo.dir \in RepoDirs
  BY <1>1, <1>2 DEF Fits, Phase, Dir, RepoDirs
<1>4. PICK w \in ToolCommands, new \in Clones :
        /\ w.phase = "rest" \/ (w.phase = "validate" /\ w.repo = repo /\ new.repo = repo)
        /\ Step(p, w) /\ Fits(w) /\ tiFiles' = [tiFiles EXCEPT ![Dir(p)] = new]
  <2>1. CASE /\ tiFiles' = [tiFiles EXCEPT ![Dir(p)] = [NoFiles EXCEPT !.repo = tiCommand[p].repo]]
             /\ Ahead(p, "validate")
    <3>1. PICK w \in ToolCommands : Step(p, w) /\ w.phase = "validate" /\ w.repo = repo
      BY <1>1, <1>3, <2>1, GoesAhead DEF ToolPhases
    <3>2. PICK new : new = [NoFiles EXCEPT !.repo = repo]
      OBVIOUS
    <3>4. new \in Clones /\ new.repo = repo
      BY <3>2 DEF Clones, NoFiles
    <3>3. Fits(w)
      BY <3>1 DEF Fits
    <3>5. QED BY <1>3, <2>1, <3>1, <3>2, <3>3, <3>4
  <2>2. CASE tiFiles' = [tiFiles EXCEPT ![Dir(p)] = NoFiles] /\ Ends(p)
    <3>1. NoFiles \in Clones
      BY DEF NoFiles, Clones
    <3>2. QED BY <2>2, <3>1, RestingTyped DEF Ends
  <2>3. QED BY <2>1, <2>2 DEF CloneTool
<1>5. /\ tiFiles' \in [RepoDirs -> Clones] /\ tiFiles'[repo.dir] = new
      /\ \A d \in RepoDirs : d # repo.dir => tiFiles'[d] = tiFiles[d]
  BY <1>1, <1>3, <1>4 DEF ToolTyped
<1>9. tiReused \subseteq tiReused' /\ CloneIs(w)
  BY <1>2, <1>3, <1>4, <1>5 DEF CloneIs
<1>10. ClonesStay(p)
  <2>1. repo.dir \in tiReused' \/ \A q \in Commands \ {p} : Busy(q) => Dir(q) # repo.dir
    BY <1>2, <1>3 DEF InUse, Busy
  <2>2. QED BY <1>5, <2>1 DEF ClonesStay
<1>6. ToolTyped' /\ OwnClones' /\ \A q \in Commands : Fits(tiCommand[q])'
  BY <1>1, <1>2, <1>4, <1>5, <1>9, <1>10, StaysTyped DEF ToolTyped
<1>7. ASSUME ~tiUpset PROVE (ToolsApart /\ FunctionsFollow /\ HoldersApart /\ FilesFollow)'
  <2>1. ToolsApart /\ FunctionsFollow /\ HoldersApart /\ FilesFollow
    BY <1>1, <1>7
  <2>2. ToolsApart'
    BY <1>1, <1>2, <1>3, <1>4, <2>1, ApartKept DEF Busy
  <2>3. FunctionsFollow'
    BY <1>1, <1>2, <1>4, <2>1, FunctionsKept DEF BetweenPhases
  <2>4. /\ tiCommand'[p] = w /\ \A q \in Commands : q # p => tiCommand'[q] = tiCommand[q]
    BY <1>1, <1>4, Becomes
  <2>5. /\ \A q \in Commands : q # p =>
             /\ Holds(q)' <=> Holds(q)
             /\ Dir(q)' = Dir(q) /\ Tool(q)' = Tool(q) /\ Phase(q)' = Phase(q)
             /\ tiCommand'[q].repo = tiCommand[q].repo
        /\ Holds(p)' => Dir(p)' = repo.dir /\ Phase(p)' = "validate"
        /\ tiReused \subseteq tiReused'
    BY <1>2, <1>3, <1>4, <2>4 DEF Holds, Phase, Dir, Tool
  <2>6. /\ \A t \in DOMAIN tiRegistry : ToolDir(t)' = ToolDir(t)
        /\ \A t \in DOMAIN tiRegistry : ToolDir(t) = repo.dir => repo.dir \in tiReused'
    BY <1>2, <1>3 DEF ToolDir, InUse
  <2>7. ASSUME NEW q \in Commands, q # p, Holds(q), Dir(q) = repo.dir PROVE repo.dir \in tiReused'
    BY <1>2, <1>3, <2>7 DEF InUse, Holds
  <2>8. HoldersApart'
    <3>1. ASSUME NEW q \in Commands, NEW r \in Commands, q # r, Holds(q)', Holds(r)', Dir(q)' = Dir(r)'
          PROVE  Dir(q)' \in tiReused'
      <4>1. CASE q # p /\ r # p
        BY <2>1, <2>5, <3>1, <4>1 DEF HoldersApart
      <4>2. CASE q = p
        BY <2>5, <2>7, <3>1, <4>2
      <4>3. CASE r = p
        BY <2>5, <2>7, <3>1, <4>3
      <4>4. QED BY <4>1, <4>2, <4>3
    <3>2. ASSUME NEW q \in Commands, NEW t \in DOMAIN tiRegistry, Holds(q)', Dir(q)' = ToolDir(t)
          PROVE  Dir(q)' \in tiReused' \/ (Phase(q)' \in {"function", "add", "forget"} /\ Tool(q)' = t)
      <4>1. CASE q # p
        BY <2>1, <2>5, <3>2, <4>1 DEF HoldersApart
      <4>2. CASE q = p
        <5>1. Dir(q)' = repo.dir /\ ToolDir(t) = repo.dir
          BY <2>5, <3>2, <4>2
        <5>2. QED BY <2>6, <5>1
      <4>3. QED BY <4>1, <4>2
    <3>3. \A t, u \in DOMAIN tiRegistry : t # u /\ ToolDir(t) = ToolDir(u) => ToolDir(t) \in tiReused'
      BY <2>1, <2>5 DEF HoldersApart
    <3>4. QED BY <1>2, <2>6, <3>1, <3>2, <3>3 DEF HoldersApart
  <2>9. FilesFollow'
    <3>1. ASSUME NEW q \in Commands, (Phase(q) \in {"validate", "sandbox", "verify", "register"})'
          PROVE  \/ Dir(q)' \in tiReused'
                 \/ /\ tiFiles'[Dir(q)'].repo = tiCommand'[q].repo
                    /\ Phase(q)' \in {"verify", "register"} => tiFiles'[Dir(q)'].sandbox
      <4>1. CASE q = p
        BY <1>3, <1>4, <1>5, <2>4, <3>1, <4>1 DEF Phase, Dir
      <4>2. CASE q # p
        <5>1. Holds(q) /\ Phase(q) \in {"validate", "sandbox", "verify", "register"}
          BY <2>5, <3>1, <4>2 DEF Holds
        <5>2. \/ Dir(q) \in tiReused
              \/ /\ tiFiles[Dir(q)].repo = tiCommand[q].repo
                 /\ Phase(q) \in {"verify", "register"} => tiFiles[Dir(q)].sandbox
          BY <2>1, <5>1 DEF FilesFollow
        <5>3. Dir(q) \in RepoDirs
          BY <1>1, <5>1, Splits DEF Fits, Phase, Dir, RepoDirs
        <5>4. CASE Dir(q) = repo.dir
          BY <2>5, <2>7, <4>2, <5>1, <5>4
        <5>5. CASE Dir(q) # repo.dir
          BY <1>5, <2>5, <4>2, <5>2, <5>3, <5>5
        <5>6. QED BY <5>4, <5>5
      <4>3. QED BY <4>1, <4>2
    <3>2. ASSUME NEW t \in DOMAIN tiRegistry, Active(t)' PROVE ToolDir(t)' \in tiReused' \/ OwnFiles(t)'
      <4>1. Active(t) /\ ToolDir(t)' = ToolDir(t) /\ (ToolDir(t) \in tiReused \/ OwnFiles(t))
        BY <1>2, <2>1, <3>2 DEF Active, ToolDir, FilesFollow
      <4>2. ToolDir(t) \in RepoDirs
        BY <1>1, RegistryParts DEF ToolDir, ToolTyped
      <4>3. CASE ToolDir(t) = repo.dir
        BY <2>6, <4>1, <4>3
      <4>4. CASE ToolDir(t) # repo.dir
        BY <1>2, <1>5, <2>5, <4>1, <4>2, <4>4 DEF OwnFiles, ToolDir
      <4>5. QED BY <4>3, <4>4
    <3>3. QED BY <1>2, <3>1, <3>2 DEF FilesFollow
  <2>10. QED BY <2>2, <2>3, <2>8, <2>9
<1>8. QED BY <1>2, <1>6, <1>7 DEF ToolInv

LEMMA RollBackKeeps == ASSUME ToolInv, NEW p \in Commands, RollBack(p) PROVE ToolInv'
<1>1. ToolTyped /\ NoFiles \in Clones
  BY Splits DEF NoFiles, Clones
<1>2. /\ Phase(p) = "rollBack" /\ Ends(p) /\ tiFiles' = [tiFiles EXCEPT ![Dir(p)] = NoFiles]
      /\ UNCHANGED <<tiRegistry, tiFunctions, tiMissed, tiReused, tiUpset, tiMonitor>>
  BY DEF RollBack, Elsewhere, FunctionsFile
<1>3. /\ tiFiles' \in [RepoDirs -> Clones] /\ \A d \in RepoDirs : d # Dir(p) => tiFiles'[d] = tiFiles[d]
      /\ ClonesStay(p)
  BY <1>1, <1>2 DEF ToolTyped, ClonesStay
<1>4. Busy(p) /\ Holds(p) /\ Phase(p) \notin BetweenPhases \cup {"forget"}
  BY <1>2 DEF Busy, Holds, BetweenPhases
<1>5. QED BY <1>2, <1>3, <1>4, EndsKeeps

LEMMA ValidateKeeps == ASSUME ToolInv, NEW p \in Commands, ValidateTool(p) PROVE ToolInv'
<1>1. ToolTyped /\ OwnClones /\ (~tiUpset => FilesFollow)
  BY Splits
<1>2. PICK phase \in {"sandbox", "rollBack"} : Ahead(p, phase)
  BY DEF ValidateTool
<1>3. Phase(p) = "validate" /\ UNCHANGED <<tiFiles, tiRegistry, tiFunctions, tiMissed, tiReused, tiUpset, tiMonitor>>
  BY DEF ValidateTool, Elsewhere, FunctionsFile
<1>4. ~tiUpset => Dir(p) \in tiReused \/ tiFiles[Dir(p)].repo = tiCommand[p].repo
  BY <1>1, <1>3 DEF FilesFollow
<1>5. Dir(p) \in tiReused \/ tiFiles[Dir(p)] = NoFiles \/ tiFiles[Dir(p)].repo = tiCommand[p].repo
  BY <1>1, <1>3 DEF OwnClones
<1>6. QED BY <1>1, <1>2, <1>3, <1>4, <1>5, GoesOnKeeps DEF ToolTyped

LEMMA VerifyKeeps == ASSUME ToolInv, NEW p \in Commands, VerifyTool(p) PROVE ToolInv'
<1>1. ToolTyped /\ OwnClones /\ (~tiUpset => FilesFollow)
  BY Splits
<1>2. Phase(p) = "verify" /\ UNCHANGED <<tiFiles, tiRegistry, tiFunctions, tiMissed, tiReused, tiUpset, tiMonitor>>
  BY DEF VerifyTool, Elsewhere, FunctionsFile
<1>3. PICK phase \in {"register", "rollBack"} :
        Ahead(p, phase) /\ (phase = "register" => tiFiles[Dir(p)] # NoFiles /\ ~tiFiles[Dir(p)].links)
  BY DEF VerifyTool
<1>4. phase = "register" => ~Escapes(tiCommand[p].repo)
  BY <1>1, <1>2, <1>3 DEF OwnClones, Escapes, Dir
<1>5. ~tiUpset => \/ Dir(p) \in tiReused
                  \/ tiFiles[Dir(p)].repo = tiCommand[p].repo /\ tiFiles[Dir(p)].sandbox
  BY <1>1, <1>2 DEF FilesFollow
<1>6. QED BY <1>1, <1>2, <1>3, <1>4, <1>5, GoesOnKeeps DEF ToolTyped

LEMMA SandboxKeeps == ASSUME ToolInv, NEW p \in Commands, SandboxTool(p) PROVE ToolInv'
<1>1. ToolTyped /\ OwnClones /\ Fits(tiCommand[p]) /\ (~tiUpset => FilesFollow)
  BY Splits
<1>2. Phase(p) = "sandbox" /\ UNCHANGED <<tiRegistry, tiFunctions, tiMissed, tiReused, tiUpset, tiMonitor>>
  BY DEF SandboxTool, Elsewhere, FunctionsFile
<1>3. PICK repo \in ToolRepos : repo = tiCommand[p].repo /\ repo.dir = Dir(p) /\ repo.dir \in RepoDirs
  BY <1>1, <1>2 DEF Fits, Phase, Dir, RepoDirs
<1>4. Busy(p) /\ Holds(p) /\ Phase(p) \notin BetweenPhases \cup {"forget"}
  BY <1>2 DEF Busy, Holds, BetweenPhases
<1>5. PICK old \in Clones : old = tiFiles[Dir(p)]
  BY <1>1, <1>3 DEF ToolTyped
<1>6. CASE UNCHANGED tiFiles /\ Ends(p)
  BY <1>1, <1>2, <1>4, <1>6, EndsKeeps DEF ToolTyped
<1>7. CASE /\ old # NoFiles /\ tiFiles' = [tiFiles EXCEPT ![Dir(p)] = Sandboxed(repo, old)]
           /\ Ends(p) \/ \E phase \in {"verify", "rollBack"} : Ahead(p, phase)
  <2>1. PICK links \in BOOLEAN : links = (old.links \/ (Posix /\ MakesVenv(repo, old)))
    OBVIOUS
  <2>2. PICK new : new = [old EXCEPT !.sandbox = TRUE, !.links = links]
    OBVIOUS
  <2>3. new \in Clones /\ new.repo = old.repo /\ new.sandbox = TRUE /\ new.links = links /\ (old.links => links)
    BY <2>1, <2>2 DEF Clones
  <2>4. tiFiles' = [tiFiles EXCEPT ![Dir(p)] = new]
    BY <1>7, <2>1, <2>2 DEF Sandboxed
  <2>5. /\ tiFiles' \in [RepoDirs -> Clones] /\ tiFiles'[Dir(p)] = new
        /\ \A d \in RepoDirs : d # Dir(p) => tiFiles'[d] = tiFiles[d]
    BY <1>1, <1>3, <2>3, <2>4 DEF ToolTyped
  <2>6. ClonesStay(p)
    BY <1>5, <1>7, <2>3, <2>5 DEF ClonesStay
  <2>7. Dir(p) \in tiReused \/ old.repo = repo
    BY <1>1, <1>2, <1>3, <1>5, <1>7 DEF OwnClones
  <2>8. Dir(p) \in tiReused \/ (new.repo = repo /\ (Escapes(repo) => new.links))
    BY <2>1, <2>3, <2>7 DEF Escapes, MakesVenv
  <2>9. CASE Ends(p)
    BY <1>2, <1>4, <2>5, <2>6, <2>9, EndsKeeps
  <2>10. ASSUME NEW phase \in {"verify", "rollBack"}, Ahead(p, phase) PROVE ToolInv'
    BY <1>2, <1>3, <2>3, <2>5, <2>6, <2>8, <2>10, GoesOnKeeps
  <2>11. QED BY <1>7, <2>9, <2>10
<1>8. QED BY <1>3, <1>5, <1>6, <1>7 DEF SandboxTool

\* The registry is saved by p, whose tool it is about.
LEMMA RegisterKeeps == ASSUME ToolInv, NEW p \in Commands, RegisterTool(p) PROVE ToolInv'
<1>1. /\ ToolTyped /\ Fits(tiCommand[p]) /\ tiCommand[p] \in ToolCommands
      /\ ~tiUpset => ToolsApart /\ FunctionsFollow /\ HoldersApart /\ FilesFollow
  BY Splits
<1>2. /\ Phase(p) = "register" /\ UNCHANGED <<tiFiles, tiFunctions, tiMissed, tiReused, tiMonitor>>
      /\ SaveTools(PutEntry(Seen(p), Tool(p), EntryOf(tiCommand[p].repo)), Seen(p))
      /\ Ahead(p, "function")
  BY DEF RegisterTool, Elsewhere, FunctionsFile, Tool
<1>3. PICK repo \in ToolRepos, seen \in Registries :
        /\ repo = tiCommand[p].repo /\ repo.dir = Dir(p) /\ repo.tool = Tool(p) /\ ~Escapes(repo)
        /\ seen = Seen(p)
  BY <1>1, <1>2, CommandParts DEF Fits, Phase, Dir, Tool, Seen
<1>4. PICK new \in Registries :
        /\ tiRegistry' = new /\ DOMAIN new = DOMAIN seen \cup {repo.tool}
        /\ new[repo.tool] = [repo |-> repo, status |-> "active"]
        /\ \A t \in DOMAIN seen : t # repo.tool => new[t] = seen[t]
  BY <1>2, <1>3, Put DEF SaveTools
<1>5. tiUpset' \in BOOLEAN /\ (~tiUpset' => ~tiUpset /\ seen = tiRegistry)
  BY <1>1, <1>2, <1>3 DEF SaveTools, ToolTyped
<1>6. PICK w \in ToolCommands : Step(p, w) /\ w.phase = "function" /\ w.repo = repo
  BY <1>1, <1>2, <1>3, GoesAhead DEF ToolPhases
<1>7. ToolTyped' /\ OwnClones' /\ \A q \in Commands : Fits(tiCommand[q])'
  <2>1. Fits(w) /\ CloneIs(w)
    BY <1>3, <1>6 DEF Fits, CloneIs
  <2>2. QED BY <1>1, <1>2, <1>4, <1>5, <1>6, <2>1, StaysTyped DEF ToolTyped
<1>8. ASSUME ~tiUpset' PROVE (ToolsApart /\ FunctionsFollow /\ HoldersApart /\ FilesFollow)'
  <2>1. ToolsApart /\ FunctionsFollow /\ HoldersApart /\ FilesFollow /\ seen = tiRegistry
    BY <1>1, <1>5, <1>8
  <2>2. /\ tiCommand'[p] = w /\ \A q \in Commands : q # p => tiCommand'[q] = tiCommand[q]
    BY <1>1, <1>6, Becomes
  <2>3. /\ \A q \in Commands : q # p =>
             /\ Holds(q)' <=> Holds(q)
             /\ Dir(q)' = Dir(q) /\ Tool(q)' = Tool(q) /\ Phase(q)' = Phase(q)
             /\ tiCommand'[q].repo = tiCommand[q].repo
        /\ Holds(p) /\ Dir(p) = repo.dir /\ Dir(p)' = repo.dir /\ Tool(p)' = repo.tool /\ Phase(p)' = "function"
    BY <1>2, <1>3, <1>6, <2>2 DEF Holds, Phase, Dir, Tool
  <2>4. ToolsApart'
    BY <1>1, <1>2, <1>3, <1>6, <2>1, ApartKept DEF Busy
  <2>5. \A q \in Commands : q # p /\ Busy(q) => Tool(q) # repo.tool
    BY <1>2, <1>3, <2>1 DEF ToolsApart, Busy
  <2>6. /\ \A t \in DOMAIN tiRegistry : t # repo.tool => tiRegistry'[t] = tiRegistry[t]
        /\ DOMAIN tiRegistry' = DOMAIN tiRegistry \cup {repo.tool}
        /\ tiRegistry'[repo.tool] = [repo |-> repo, status |-> "active"]
    BY <1>4, <2>1
  <2>7. FunctionsFollow'
    <3>1. ASSUME NEW t \in RepoTools \ tiMissed', \A q \in Commands : ~Between(q, t)' PROVE InStep(t)'
      <4>1. t # repo.tool
        BY <2>3, <3>1 DEF Between, BetweenPhases
      <4>2. \A q \in Commands : ~Between(q, t)
        BY <1>2, <2>3, <3>1 DEF Between, BetweenPhases
      <4>3. InStep(t)
        BY <1>2, <2>1, <3>1, <4>2 DEF FunctionsFollow
      <4>4. QED BY <1>2, <2>6, <4>1, <4>3 DEF InStep
    <3>2. ASSUME NEW q \in Commands PROVE ToolThere(q)'
      <4>1. CASE q = p
        BY <2>3, <2>6, <4>1 DEF ToolThere
      <4>2. CASE q # p
        BY <2>1, <2>3, <2>5, <2>6, <4>2 DEF FunctionsFollow, ToolThere, Busy
      <4>3. QED BY <4>1, <4>2
    <3>3. QED BY <3>1, <3>2 DEF FunctionsFollow
  <2>8. /\ \A t \in DOMAIN tiRegistry : t # repo.tool => ToolDir(t)' = ToolDir(t)
        /\ ToolDir(repo.tool)' = repo.dir
    BY <2>6 DEF ToolDir
  <2>9. \A t \in DOMAIN tiRegistry : ToolDir(t) = repo.dir => repo.dir \in tiReused
    BY <1>2, <2>1, <2>3 DEF HoldersApart
  <2>10. \A q \in Commands : q # p /\ Holds(q) /\ Dir(q) = repo.dir => repo.dir \in tiReused
    BY <2>1, <2>3 DEF HoldersApart
  <2>11. HoldersApart'
    <3>1. ASSUME NEW q \in Commands, NEW r \in Commands, q # r, Holds(q)', Holds(r)', Dir(q)' = Dir(r)'
          PROVE  Dir(q)' \in tiReused
      <4>1. CASE q # p /\ r # p
        BY <2>1, <2>3, <3>1, <4>1 DEF HoldersApart
      <4>2. CASE q = p
        BY <2>3, <2>10, <3>1, <4>2
      <4>3. CASE r = p
        BY <2>3, <2>10, <3>1, <4>3
      <4>4. QED BY <4>1, <4>2, <4>3
    <3>2. ASSUME NEW q \in Commands, NEW t \in DOMAIN tiRegistry', Holds(q)', Dir(q)' = ToolDir(t)'
          PROVE  Dir(q)' \in tiReused \/ (Phase(q)' \in {"function", "add", "forget"} /\ Tool(q)' = t)
      <4>1. CASE q = p
        BY <2>3, <2>6, <2>8, <2>9, <3>2, <4>1
      <4>2. CASE q # p /\ t = repo.tool
        BY <2>3, <2>8, <2>10, <3>2, <4>2
      <4>3. CASE q # p /\ t # repo.tool
        BY <2>1, <2>3, <2>6, <2>8, <3>2, <4>3 DEF HoldersApart
      <4>4. QED BY <4>1, <4>2, <4>3
    <3>3. ASSUME NEW t \in DOMAIN tiRegistry', NEW u \in DOMAIN tiRegistry', t # u, ToolDir(t)' = ToolDir(u)'
          PROVE  ToolDir(t)' \in tiReused
      <4>1. CASE t # repo.tool /\ u # repo.tool
        BY <2>1, <2>6, <2>8, <3>3, <4>1 DEF HoldersApart
      <4>2. CASE t = repo.tool
        BY <2>6, <2>8, <2>9, <3>3, <4>2
      <4>3. CASE u = repo.tool
        BY <2>6, <2>8, <2>9, <3>3, <4>3
      <4>4. QED BY <4>1, <4>2, <4>3
    <3>4. QED BY <1>2, <3>1, <3>2, <3>3 DEF HoldersApart
  <2>12. FilesFollow'
    <3>1. ASSUME NEW q \in Commands, (Phase(q) \in {"validate", "sandbox", "verify", "register"})'
          PROVE  \/ Dir(q)' \in tiReused
                 \/ /\ tiFiles[Dir(q)'].repo = tiCommand'[q].repo
                    /\ Phase(q)' \in {"verify", "register"} => tiFiles[Dir(q)'].sandbox
      <4>1. q # p
        BY <2>3, <3>1
      <4>2. QED BY <2>1, <2>3, <3>1, <4>1 DEF FilesFollow
    <3>2. ASSUME NEW t \in DOMAIN tiRegistry', Active(t)' PROVE ToolDir(t)' \in tiReused \/ OwnFiles(t)'
      <4>1. CASE t = repo.tool
        <5>1. repo.dir \in tiReused \/ (tiFiles[repo.dir].repo = repo /\ tiFiles[repo.dir].sandbox)
          BY <1>2, <1>3, <2>1 DEF FilesFollow
        <5>2. tiRegistry'[t].repo = repo
          BY <2>6, <4>1
        <5>3. QED BY <1>2, <2>8, <4>1, <5>1, <5>2 DEF OwnFiles
      <4>2. CASE t # repo.tool
        <5>1. t \in DOMAIN tiRegistry /\ tiRegistry'[t] = tiRegistry[t] /\ ToolDir(t)' = ToolDir(t)
          BY <2>6, <2>8, <3>2, <4>2
        <5>2. Active(t)
          BY <3>2, <5>1 DEF Active
        <5>3. ToolDir(t) \in tiReused \/ OwnFiles(t)
          BY <2>1, <5>1, <5>2 DEF FilesFollow
        <5>4. OwnFiles(t) => OwnFiles(t)'
          BY <1>2, <5>1 DEF OwnFiles
        <5>5. QED BY <5>1, <5>3, <5>4
      <4>3. QED BY <4>1, <4>2
    <3>3. QED BY <1>2, <3>1, <3>2 DEF FilesFollow
  <2>13. QED BY <2>4, <2>7, <2>11, <2>12
<1>9. QED BY <1>7, <1>8 DEF ToolInv

\* A command has dealt with host_functions.json and ends, or installs what it upgrades: its
\* tool is there as it should be or missed, and another that was not missed is as it was.
LEMMA ProceedsKeeps ==
    ASSUME ToolInv, NEW p \in Commands, Phase(p) \in {"function", "add", "unlist", "drop"}, Proceeds(p),
           UNCHANGED <<tiFiles, tiRegistry, tiReused, tiUpset, tiMonitor>>, tiFunctions' \in FunctionFiles,
           \A t \in RepoTools \ tiMissed' :
             IF t = Tool(p) THEN t \in tiFunctions'.names <=> Listing(p)
             ELSE t \notin tiMissed /\ (t \in tiFunctions'.names <=> t \in tiFunctions.names)
    PROVE  ToolInv'
<1>1. /\ ToolTyped /\ Fits(tiCommand[p]) /\ tiCommand[p] \in ToolCommands
      /\ ~tiUpset => ToolsApart /\ FunctionsFollow /\ HoldersApart /\ FilesFollow
  BY Splits
<1>2. PICK w \in ToolCommands :
        /\ Step(p, w) /\ Fits(w) /\ CloneIs(w)
        /\ w.phase = "rest" \/ (w.phase = "clone" /\ w.repo = tiCommand[p].repo /\ ~Listing(p))
  <2>1. CASE Ends(p)
    BY <2>1, RestingTyped DEF Ends, CloneIs
  <2>2. CASE ~Listing(p) /\ Step(p, [tiCommand[p] EXCEPT !.phase = "clone", !.functions = {}])
    <3>1. PICK old \in ToolCommands : old = tiCommand[p]
      BY <1>1
    <3>2. PICK w : w = [old EXCEPT !.phase = "clone", !.functions = {}]
      OBVIOUS
    <3>3. w \in ToolCommands /\ w.phase = "clone" /\ w.repo = old.repo
      BY <3>2 DEF ToolCommands, ToolPhases
    <3>4. Fits(w) /\ CloneIs(w)
      BY <1>1, <3>1, <3>3 DEF Fits, CloneIs, Phase
    <3>5. QED BY <2>2, <3>1, <3>2, <3>3, <3>4
  <2>3. QED BY <2>1, <2>2 DEF Proceeds
<1>3. ToolTyped' /\ OwnClones' /\ \A q \in Commands : Fits(tiCommand[q])'
  BY <1>1, <1>2, StaysTyped DEF ToolTyped
<1>4. ASSUME ~tiUpset PROVE (ToolsApart /\ FunctionsFollow /\ HoldersApart /\ FilesFollow)'
  <2>1. ToolsApart /\ FunctionsFollow /\ HoldersApart /\ FilesFollow
    BY <1>1, <1>4
  <2>2. ToolsApart'
    BY <1>1, <1>2, <2>1, ApartKept DEF Busy
  <2>3. FunctionsFollow'
    <3>1. /\ tiCommand'[p] = w /\ \A q \in Commands : q # p => tiCommand'[q] = tiCommand[q]
      BY <1>1, <1>2, Becomes
    <3>2. /\ \A q \in Commands : q # p => Tool(q)' = Tool(q) /\ Phase(q)' = Phase(q)
          /\ Phase(p)' \in {"rest", "clone"}
      BY <1>2, <3>1 DEF Phase, Tool
    <3>3. Listing(p) <=> Tool(p) \in DOMAIN tiRegistry
      BY <2>1 DEF FunctionsFollow, ToolThere, Listing
    <3>4. ASSUME NEW t \in RepoTools \ tiMissed', \A q \in Commands : ~Between(q, t)' PROVE InStep(t)'
      <4>1. CASE t = Tool(p)
        BY <3>3, <4>1 DEF InStep
      <4>2. CASE t # Tool(p)
        <5>1. \A q \in Commands : ~Between(q, t)
          BY <3>2, <3>4, <4>2 DEF Between
        <5>2. t \notin tiMissed /\ (t \in tiFunctions'.names <=> t \in tiFunctions.names)
          BY <4>2
        <5>3. InStep(t)
          BY <2>1, <5>1, <5>2 DEF FunctionsFollow
        <5>4. QED BY <5>2, <5>3 DEF InStep
      <4>3. QED BY <4>1, <4>2
    <3>5. \A q \in Commands : ToolThere(q)'
      BY <2>1, <3>2 DEF FunctionsFollow, ToolThere
    <3>6. QED BY <3>4, <3>5 DEF FunctionsFollow
  <2>4. HoldersApart'
    BY <1>1, <1>2, <2>1, HoldersKept DEF HoldingPhases
  <2>5. FilesFollow'
    BY <1>1, <1>2, <2>1, FilesKept, Splits DEF ToolTyped
  <2>6. QED BY <2>2, <2>3, <2>4, <2>5
<1>5. QED BY <1>3, <1>4 DEF ToolInv

LEMMA ReadKeeps == ASSUME ToolInv, NEW p \in Commands, ReadFunctions(p) PROVE ToolInv'
<1>1. /\ ToolTyped /\ Fits(tiCommand[p]) /\ tiCommand[p] \in ToolCommands /\ tiFunctions \in FunctionFiles
      /\ ~tiUpset => ToolsApart /\ FunctionsFollow /\ HoldersApart /\ FilesFollow
  BY Splits DEF ToolTyped
<1>2. /\ Phase(p) \in {"function", "unlist"}
      /\ UNCHANGED <<tiFunctions, tiFiles, tiRegistry, tiReused, tiUpset, tiMonitor>>
  BY DEF ReadFunctions, WritesNot, Elsewhere
<1>3. CASE WritesNot(Tool(p)) /\ Proceeds(p)
  <2>1. \A t \in RepoTools \ tiMissed' : t # Tool(p) /\ t \notin tiMissed
    BY <1>3 DEF WritesNot
  <2>2. QED BY <1>1, <1>2, <1>3, <2>1, ProceedsKeeps
<1>4. CASE /\ UNCHANGED tiMissed
           /\ Step(p, [tiCommand[p] EXCEPT !.phase = IF Listing(p) THEN "add" ELSE "drop",
                                           !.functions = tiFunctions.names])
  <2>1. PICK old \in ToolCommands, phase \in {"add", "drop"}, names \in SUBSET RepoTools :
          /\ old = tiCommand[p] /\ phase = (IF Listing(p) THEN "add" ELSE "drop") /\ names = tiFunctions.names
    BY <1>1 DEF FunctionFiles
  <2>2. PICK w : w = [old EXCEPT !.phase = phase, !.functions = names]
    OBVIOUS
  <2>3. w \in ToolCommands /\ w.phase = phase /\ w.repo = tiCommand[p].repo /\ w.tool = tiCommand[p].tool
    BY <2>1, <2>2 DEF ToolCommands, ToolPhases
  <2>4. Step(p, w) /\ CloneIs(w) /\ Busy(p)
    BY <1>2, <1>4, <2>1, <2>2, <2>3 DEF CloneIs, Busy
  <2>5. \/ Phase(p) = "function" /\ w.phase = "add"
        \/ Phase(p) = "unlist" /\ w.phase = "drop"
    BY <1>2, <2>1, <2>3 DEF Listing
  <2>6. Fits(w)
    BY <1>1, <2>3, <2>5 DEF Fits, Phase
  <2>7. ToolTyped' /\ OwnClones' /\ \A q \in Commands : Fits(tiCommand[q])'
    BY <1>1, <1>2, <2>3, <2>4, <2>6, StaysTyped DEF ToolTyped
  <2>8. ASSUME ~tiUpset PROVE (ToolsApart /\ FunctionsFollow /\ HoldersApart /\ FilesFollow)'
    <3>1. ToolsApart /\ FunctionsFollow /\ HoldersApart /\ FilesFollow
      BY <1>1, <2>8
    <3>2. ToolsApart'
      BY <1>1, <2>3, <2>4, <3>1, ApartKept
    <3>3. FunctionsFollow'
      BY <1>1, <1>2, <1>4, <2>3, <2>4, <2>5, <3>1, FunctionsWait
    <3>4. HoldersApart'
      BY <1>1, <1>2, <2>3, <2>4, <2>5, <3>1, HoldersKept DEF HoldingPhases, Holds
    <3>5. FilesFollow'
      BY <1>1, <1>2, <2>3, <2>4, <2>5, <3>1, FilesKept, Splits DEF ToolTyped
    <3>6. QED BY <3>2, <3>3, <3>4, <3>5
  <2>9. QED BY <1>2, <2>7, <2>8 DEF ToolInv
<1>5. QED BY <1>3, <1>4 DEF ReadFunctions, Tool

LEMMA WriteKeeps == ASSUME ToolInv, NEW p \in Commands, WriteFunctions(p) PROVE ToolInv'
<1>1. ToolTyped /\ tiCommand[p] \in ToolCommands /\ tiFunctions \in FunctionFiles /\ Fits(tiCommand[p])
  BY Splits DEF ToolTyped
<1>2. /\ Phase(p) \in {"add", "drop"} /\ Proceeds(p)
      /\ UNCHANGED <<tiFiles, tiRegistry, tiReused, tiUpset, tiMonitor>>
  BY DEF WriteFunctions, Elsewhere
<1>3. Tool(p) \in RepoTools
  BY <1>1, <1>2 DEF Fits, Phase, Tool, RepoTools
<1>4. PICK seen \in SUBSET RepoTools : seen = tiCommand[p].functions
  BY <1>1 DEF ToolCommands
<1>5. PICK names \in SUBSET RepoTools : names = IF Listing(p) THEN seen \cup {Tool(p)} ELSE seen \ {Tool(p)}
  BY <1>3, <1>4
<1>6. CASE Rewrites(names, seen, Tool(p))
  <2>1. PICK new : new = [state |-> "ok", names |-> names]
    OBVIOUS
  <2>2. new \in FunctionFiles /\ new.names = names
    BY <2>1 DEF FunctionFiles
  <2>3. tiFunctions' = new /\ tiMissed' = (tiMissed \cup Undone(seen)) \ {Tool(p)}
    BY <1>6, <2>1 DEF Rewrites
  <2>4. \A t \in RepoTools \ tiMissed' :
          IF t = Tool(p) THEN t \in tiFunctions'.names <=> Listing(p)
          ELSE t \notin tiMissed /\ (t \in tiFunctions'.names <=> t \in tiFunctions.names)
    BY <1>5, <2>2, <2>3 DEF Undone
  <2>5. QED BY <1>2, <2>2, <2>3, <2>4, ProceedsKeeps
<1>7. CASE WritesNot(Tool(p))
  <2>1. \A t \in RepoTools \ tiMissed' : t # Tool(p) /\ t \notin tiMissed
    BY <1>7 DEF WritesNot
  <2>2. tiFunctions' \in FunctionFiles /\ tiFunctions' = tiFunctions
    BY <1>1, <1>7 DEF WritesNot
  <2>3. QED BY <1>2, <2>1, <2>2, ProceedsKeeps
<1>8. CASE Tears
  <2>1. tiFunctions' \in FunctionFiles /\ RepoTools \ tiMissed' = {}
    BY <1>8 DEF Tears, FunctionFiles
  <2>2. QED BY <1>2, <2>1, ProceedsKeeps
<1>9. QED BY <1>4, <1>5, <1>6, <1>7, <1>8 DEF WriteFunctions, FunctionsWithout, Tool

LEMMA ForgetKeeps == ASSUME ToolInv, NEW p \in Commands, ForgetTool(p) PROVE ToolInv'
<1>1. /\ ToolTyped /\ Fits(tiCommand[p]) /\ tiCommand[p] \in ToolCommands
      /\ ~tiUpset => ToolsApart /\ FunctionsFollow /\ HoldersApart /\ FilesFollow
  BY Splits
<1>2. PICK left : left = Drop(Seen(p), tiCommand[p].tool)
  OBVIOUS
<1>3. /\ Phase(p) = "forget" /\ SaveTools(left, Seen(p))
      /\ UNCHANGED <<tiFiles, tiFunctions, tiMissed, tiReused, tiMonitor>>
      /\ Step(p, [tiCommand[p] EXCEPT !.phase = "remove", !.registry = left])
  BY <1>2 DEF ForgetTool, Elsewhere, FunctionsFile
<1>4. PICK old \in ToolCommands, repo \in ToolRepos, seen \in Registries :
        /\ old = tiCommand[p] /\ repo = old.repo /\ old.tool = repo.tool /\ repo.dir = Dir(p) /\ repo.tool = Tool(p)
        /\ seen = Seen(p)
  BY <1>1, <1>3, CommandParts DEF Fits, Phase, Dir, Tool, Seen
<1>5. /\ left \in Registries /\ DOMAIN left = DOMAIN seen \ {repo.tool}
      /\ \A t \in DOMAIN seen \ {repo.tool} : left[t] = seen[t]
  <2>1. left = Drop(seen, repo.tool)
    BY <1>2, <1>4
  <2>2. QED BY <2>1, Dropped
<1>6. tiRegistry' = left /\ tiUpset' \in BOOLEAN /\ (~tiUpset' => ~tiUpset /\ seen = tiRegistry)
  BY <1>1, <1>3, <1>4 DEF SaveTools, ToolTyped
<1>7. PICK w \in ToolCommands : Step(p, w) /\ w.phase = "remove" /\ w.repo = repo /\ w.tool = repo.tool
  <2>1. PICK w : w = [old EXCEPT !.phase = "remove", !.registry = left]
    OBVIOUS
  <2>2. w \in ToolCommands /\ w.phase = "remove" /\ w.repo = repo /\ w.tool = repo.tool
    BY <1>4, <1>5, <2>1 DEF ToolCommands, ToolPhases
  <2>3. QED BY <1>3, <1>4, <2>1, <2>2
<1>8. ToolTyped' /\ OwnClones' /\ \A q \in Commands : Fits(tiCommand[q])'
  <2>1. Fits(w) /\ CloneIs(w)
    BY <1>7 DEF Fits, CloneIs
  <2>2. QED BY <1>1, <1>3, <1>5, <1>6, <1>7, <2>1, StaysTyped DEF ToolTyped
<1>9. ASSUME ~tiUpset' PROVE (ToolsApart /\ FunctionsFollow /\ HoldersApart /\ FilesFollow)'
  <2>1. ToolsApart /\ FunctionsFollow /\ HoldersApart /\ FilesFollow /\ seen = tiRegistry
    BY <1>1, <1>6, <1>9
  <2>2. /\ tiCommand'[p] = w /\ \A q \in Commands : q # p => tiCommand'[q] = tiCommand[q]
    BY <1>1, <1>7, Becomes
  <2>3. /\ \A q \in Commands : q # p =>
             /\ Holds(q)' <=> Holds(q)
             /\ Dir(q)' = Dir(q) /\ Tool(q)' = Tool(q) /\ Phase(q)' = Phase(q)
             /\ tiCommand'[q].repo = tiCommand[q].repo
        /\ Holds(p) /\ Dir(p) = repo.dir /\ Dir(p)' = repo.dir /\ Tool(p)' = repo.tool /\ Phase(p)' = "remove"
    BY <1>3, <1>4, <1>7, <2>2 DEF Holds, Phase, Dir, Tool
  <2>4. ToolsApart'
    BY <1>1, <1>3, <1>4, <1>7, <2>1, ApartKept DEF Busy
  <2>5. \A q \in Commands : q # p /\ Busy(q) => Tool(q) # repo.tool
    BY <1>3, <1>4, <2>1 DEF ToolsApart, Busy
  <2>6. /\ DOMAIN tiRegistry' = DOMAIN tiRegistry \ {repo.tool}
        /\ \A t \in DOMAIN tiRegistry' : tiRegistry'[t] = tiRegistry[t]
    BY <1>5, <1>6, <2>1
  <2>7. FunctionsFollow'
    <3>1. ASSUME NEW t \in RepoTools \ tiMissed', \A q \in Commands : ~Between(q, t)' PROVE InStep(t)'
      <4>1. t # repo.tool
        BY <2>3, <3>1 DEF Between, BetweenPhases
      <4>2. \A q \in Commands : ~Between(q, t)
        BY <1>3, <2>3, <3>1 DEF Between, BetweenPhases
      <4>3. InStep(t)
        BY <1>3, <2>1, <3>1, <4>2 DEF FunctionsFollow
      <4>4. QED BY <1>3, <2>6, <4>1, <4>3 DEF InStep
    <3>2. ASSUME NEW q \in Commands PROVE ToolThere(q)'
      <4>1. CASE q = p
        BY <2>3, <2>6, <4>1 DEF ToolThere
      <4>2. CASE q # p
        BY <2>1, <2>3, <2>5, <2>6, <4>2 DEF FunctionsFollow, ToolThere, Busy
      <4>3. QED BY <4>1, <4>2
    <3>3. QED BY <3>1, <3>2 DEF FunctionsFollow
  <2>8. \A t \in DOMAIN tiRegistry' : ToolDir(t)' = ToolDir(t) /\ t \in DOMAIN tiRegistry /\ t # repo.tool
    BY <2>6 DEF ToolDir
  <2>9. ASSUME NEW q \in Commands, NEW t \in DOMAIN tiRegistry', Holds(q)', Dir(q)' = ToolDir(t)'
        PROVE  Dir(q)' \in tiReused \/ (Phase(q)' \in {"function", "add", "forget"} /\ Tool(q)' = t)
    <3>1. t \in DOMAIN tiRegistry /\ t # repo.tool /\ ToolDir(t)' = ToolDir(t)
      BY <2>8
    <3>2. CASE q = p
      <4>1. Holds(p) /\ Dir(p) = ToolDir(t) /\ Tool(p) # t /\ Dir(q)' = Dir(p)
        BY <1>4, <2>3, <2>9, <3>1, <3>2
      <4>2. QED BY <2>1, <3>1, <4>1 DEF HoldersApart
    <3>3. CASE q # p
      BY <2>1, <2>3, <2>9, <3>1, <3>3 DEF HoldersApart
    <3>4. QED BY <3>2, <3>3
  <2>10. HoldersApart'
    <3>1. ASSUME NEW q \in Commands, NEW r \in Commands, q # r, Holds(q)', Holds(r)', Dir(q)' = Dir(r)'
          PROVE  Dir(q)' \in tiReused
      <4>1. Holds(q) /\ Holds(r) /\ Dir(q)' = Dir(q) /\ Dir(r)' = Dir(r)
        BY <2>3, <3>1
      <4>2. QED BY <2>1, <3>1, <4>1 DEF HoldersApart
    <3>2. \A t, u \in DOMAIN tiRegistry' : t # u /\ ToolDir(t)' = ToolDir(u)' => ToolDir(t)' \in tiReused
      BY <2>1, <2>8 DEF HoldersApart
    <3>3. QED BY <1>3, <2>9, <3>1, <3>2 DEF HoldersApart
  <2>11. FilesFollow'
    <3>1. ASSUME NEW q \in Commands, (Phase(q) \in {"validate", "sandbox", "verify", "register"})'
          PROVE  \/ Dir(q)' \in tiReused
                 \/ /\ tiFiles[Dir(q)'].repo = tiCommand'[q].repo
                    /\ Phase(q)' \in {"verify", "register"} => tiFiles[Dir(q)'].sandbox
      <4>1. q # p
        BY <2>3, <3>1
      <4>2. QED BY <2>1, <2>3, <3>1, <4>1 DEF FilesFollow
    <3>2. ASSUME NEW t \in DOMAIN tiRegistry', Active(t)' PROVE ToolDir(t)' \in tiReused \/ OwnFiles(t)'
      <4>1. t \in DOMAIN tiRegistry /\ tiRegistry'[t] = tiRegistry[t] /\ ToolDir(t)' = ToolDir(t)
        BY <2>6, <2>8
      <4>2. ToolDir(t) \in tiReused \/ OwnFiles(t)
        BY <2>1, <3>2, <4>1 DEF FilesFollow, Active
      <4>3. OwnFiles(t) => OwnFiles(t)'
        BY <1>3, <4>1 DEF OwnFiles
      <4>4. QED BY <4>1, <4>2, <4>3
    <3>3. QED BY <1>3, <3>1, <3>2 DEF FilesFollow
  <2>12. QED BY <2>4, <2>7, <2>10, <2>11
<1>10. QED BY <1>8, <1>9 DEF ToolInv

LEMMA RemoveKeeps == ASSUME ToolInv, NEW p \in Commands, RemoveTool(p) PROVE ToolInv'
<1>1. /\ ToolTyped /\ Fits(tiCommand[p]) /\ NoFiles \in Clones
      /\ ~tiUpset => ToolsApart /\ FunctionsFollow /\ HoldersApart /\ FilesFollow
  BY Splits DEF NoFiles, Clones
<1>2. /\ Phase(p) = "remove" /\ UNCHANGED <<tiRegistry, tiFunctions, tiMissed, tiReused, tiUpset, tiMonitor>>
      /\ tiFiles' = [tiFiles EXCEPT ![Dir(p)] = NoFiles] /\ Ahead(p, "unlist")
  BY DEF RemoveTool, Elsewhere, FunctionsFile
<1>3. PICK w \in ToolCommands :
        Step(p, w) /\ w.phase = "unlist" /\ w.repo = tiCommand[p].repo /\ w.tool = tiCommand[p].tool
  BY <1>1, <1>2, GoesAhead DEF ToolPhases
<1>4. /\ tiFiles' \in [RepoDirs -> Clones] /\ \A d \in RepoDirs : d # Dir(p) => tiFiles'[d] = tiFiles[d]
      /\ ClonesStay(p)
  BY <1>1, <1>2 DEF ToolTyped, ClonesStay
<1>5. Fits(w) /\ Holds(p) /\ Busy(p) /\ CloneIs(w)
  BY <1>1, <1>2, <1>3 DEF Fits, Phase, Holds, Busy, CloneIs
<1>6. ToolTyped' /\ OwnClones' /\ \A q \in Commands : Fits(tiCommand[q])'
  BY <1>1, <1>2, <1>3, <1>4, <1>5, StaysTyped DEF ToolTyped
<1>7. ASSUME ~tiUpset PROVE (ToolsApart /\ FunctionsFollow /\ HoldersApart /\ FilesFollow)'
  <2>1. ToolsApart /\ FunctionsFollow /\ HoldersApart /\ FilesFollow
    BY <1>1, <1>7
  <2>2. ToolsApart'
    BY <1>1, <1>3, <1>5, <2>1, ApartKept
  <2>3. FunctionsFollow'
    BY <1>1, <1>2, <1>3, <2>1, FunctionsWait
  <2>4. HoldersApart'
    BY <1>1, <1>2, <1>3, <2>1, HoldersKept DEF HoldingPhases
  <2>5. FilesFollow'
    BY <1>1, <1>2, <1>3, <1>4, <1>5, <2>1, FilesKept, Splits
  <2>6. QED BY <2>2, <2>3, <2>4, <2>5
<1>8. QED BY <1>2, <1>6, <1>7 DEF ToolInv

LEMMA DiesKeeps == ASSUME ToolInv, NEW p \in Commands, CommandDies(p) PROVE ToolInv'
<1>1. Ends(p) /\ tiUpset' = TRUE /\ UNCHANGED <<tiFiles, tiReused, tiMonitor>> /\ ToolTyped
  BY Splits DEF CommandDies, Elsewhere
<1>2. tiRegistry' \in Registries
  BY <1>1, EmptyRegistry DEF CommandDies, ToolTyped
<1>3. tiFunctions' \in FunctionFiles
  BY <1>1 DEF CommandDies, Tears, FunctionFiles, ToolTyped
<1>4. PICK w \in ToolCommands : Step(p, w) /\ Fits(w) /\ CloneIs(w)
  BY <1>1, RestingTyped DEF Ends, CloneIs
<1>5. ToolTyped' /\ OwnClones' /\ \A q \in Commands : Fits(tiCommand[q])'
  BY <1>1, <1>2, <1>3, <1>4, StaysTyped DEF ToolTyped
<1>6. QED BY <1>1, <1>5 DEF ToolInv

\* The commands, the directories and host_functions.json as they are, and a registry that
\* names the same repositories, none of them active that was not.
LEMMA MonitorKeeps ==
    ASSUME ToolInv, UNCHANGED <<tiFiles, tiMissed, tiCommand, tiReused>>,
           tiFunctions' \in FunctionFiles, tiFunctions'.names = tiFunctions.names,
           tiMonitor' \in Registries, tiRegistry' \in Registries, tiUpset' \in BOOLEAN,
           ~tiUpset' => /\ ~tiUpset /\ DOMAIN tiRegistry' = DOMAIN tiRegistry
                        /\ \A t \in DOMAIN tiRegistry :
                             /\ tiRegistry'[t].repo = tiRegistry[t].repo
                             /\ tiRegistry'[t].status = "active" => tiRegistry[t].status = "active"
    PROVE  ToolInv'
<1>1. ToolTyped' /\ OwnClones' /\ \A q \in Commands : Fits(tiCommand[q])'
  <2>1. Registries' = Registries
    BY DEF Registries, Escapes
  <2>2. ToolCommands' = ToolCommands
    BY <2>1 DEF ToolCommands
  <2>3. ToolTyped'
    BY <2>1, <2>2 DEF ToolInv, ToolTyped
  <2>4. OwnClones'
    BY DEF ToolInv, OwnClones, Phase, Dir, Escapes
  <2>5. \A q \in Commands : Fits(tiCommand[q])'
    BY DEF ToolInv, Fits, Escapes
  <2>6. QED BY <2>3, <2>4, <2>5
<1>2. ASSUME ~tiUpset' PROVE (ToolsApart /\ FunctionsFollow /\ HoldersApart /\ FilesFollow)'
  <2>1. ToolsApart /\ FunctionsFollow /\ HoldersApart /\ FilesFollow
    BY <1>2 DEF ToolInv
  <2>2. /\ DOMAIN tiRegistry' = DOMAIN tiRegistry
        /\ \A t \in DOMAIN tiRegistry : /\ ToolDir(t)' = ToolDir(t) /\ (Active(t)' => Active(t))
                                        /\ OwnFiles(t)' <=> OwnFiles(t)
    BY <1>2 DEF ToolDir, Active, OwnFiles
  <2>3. ToolsApart'
    BY <2>1 DEF ToolsApart, Busy, Tool, Phase
  <2>4. FunctionsFollow'
    BY <2>1, <2>2 DEF FunctionsFollow, InStep, ToolThere, Between, Phase, Tool
  <2>5. HoldersApart'
    BY <2>1, <2>2 DEF HoldersApart, Holds, Phase, Tool, Dir
  <2>6. FilesFollow'
    BY <2>1, <2>2 DEF FilesFollow, Phase, Dir
  <2>7. QED BY <2>3, <2>4, <2>5, <2>6
<1>3. QED BY <1>1, <1>2 DEF ToolInv

LEMMA MonitorStartsKeeps == ASSUME ToolInv, MonitorStarts PROVE ToolInv'
BY MonitorKeeps DEF MonitorStarts, ToolInv, ToolTyped, FunctionsFile

LEMMA FileIsMadeKeeps == ASSUME ToolInv, FileIsMade PROVE ToolInv'
<1>1. PICK new : new = [tiFunctions EXCEPT !.state = "ok"]
  OBVIOUS
<1>2. tiFunctions' = new /\ UNCHANGED <<tiFiles, tiMissed, tiRegistry, tiMonitor, tiCommand, tiReused, tiUpset>>
  BY <1>1 DEF FileIsMade, Elsewhere
<1>3. ToolTyped /\ tiFunctions \in FunctionFiles
  BY DEF ToolInv, ToolTyped
<1>4. new \in FunctionFiles /\ new.names = tiFunctions.names
  BY <1>1, <1>3 DEF FunctionFiles
<1>5. QED BY <1>2, <1>3, <1>4, MonitorKeeps DEF ToolTyped

LEMMA AutoRevokeKeeps == ASSUME ToolInv, AutoRevoke PROVE ToolInv'
<1>1. ToolTyped
  BY DEF ToolInv
<1>2. PICK new : new = Revoked
  OBVIOUS
<1>3. /\ new \in Registries /\ DOMAIN new = DOMAIN tiMonitor
      /\ \A t \in DOMAIN tiMonitor : /\ new[t].repo = tiMonitor[t].repo
                                     /\ new[t].status = "active" => tiMonitor[t].status = "active"
  BY <1>1, <1>2, RevokedKeeps DEF ToolTyped
<1>4. /\ tiMonitor' = new /\ tiRegistry' = new /\ tiUpset' = (tiUpset \/ tiMonitor # tiRegistry)
      /\ UNCHANGED <<tiFiles, tiFunctions, tiMissed, tiCommand, tiReused>>
  BY <1>2 DEF AutoRevoke, SaveTools, FunctionsFile
<1>5. ~tiUpset' => ~tiUpset /\ tiMonitor = tiRegistry
  BY <1>4
<1>6. tiUpset' \in BOOLEAN
  BY <1>4
<1>7. QED BY <1>1, <1>3, <1>4, <1>5, <1>6, MonitorKeeps DEF ToolTyped

LEMMA ToolStep == ToolInv /\ [ToolNext]_tiVars => ToolInv'
<1> SUFFICES ASSUME ToolInv, [ToolNext]_tiVars PROVE ToolInv'
  OBVIOUS
<1>1. CASE UNCHANGED tiVars
  BY <1>1, MonitorKeeps DEF tiVars, ToolInv, ToolTyped
<1>2. ASSUME NEW p \in Commands, CommandStep(p) PROVE ToolInv'
  BY <1>2, CloneKeeps, ValidateKeeps, SandboxKeeps, VerifyKeeps, RegisterKeeps,
     RollBackKeeps, ForgetKeeps, RemoveKeeps, ReadKeeps, WriteKeeps DEF CommandStep
<1>3. ASSUME NEW p \in Commands, NEW tool \in DOMAIN tiRegistry, NEW again \in BOOLEAN,
             UninstallCalled(p, tool, again)
      PROVE  ToolInv'
  BY <1>3, UninstallCalledKeeps
<1>4. ASSUME NEW p \in Commands, NEW repo \in ToolRepos, InstallCalled(p, repo) PROVE ToolInv'
  BY <1>4, InstallCalledKeeps
<1>5. QED
  BY <1>1, <1>2, <1>3, <1>4, DiesKeeps, MonitorStartsKeeps, AutoRevokeKeeps, FileIsMadeKeeps DEF ToolNext

LEMMA ToolInductive == ToolSpec => []ToolInv
BY ToolStarts, ToolStep, PTL DEF ToolSpec

LEMMA ToolsMatch == ToolInv => ToolsMatchRegistry
<1> SUFFICES ASSUME ToolInv PROVE ToolsMatchRegistry
  OBVIOUS
<1>1. FilesLostOnlyByReuse
  BY DEF ToolInv, FilesFollow, FilesLostOnlyByReuse, AtRest, ToolDir
<1>2. FunctionsMatchRegistry
  <2>1. ASSUME AtRest, NEW t \in RepoTools \ tiMissed PROVE t \in tiFunctions.names <=> t \in DOMAIN tiRegistry
    <3>1. FunctionsFollow /\ \A p \in Commands : ~Between(p, t)
      BY <2>1 DEF ToolInv, AtRest, Between, BetweenPhases
    <3>2. QED BY <3>1 DEF FunctionsFollow, InStep
  <2>2. QED BY <2>1 DEF FunctionsMatchRegistry
<1>3. NoPythonOnPosix
  BY RegistryParts DEF NoPythonOnPosix, Escapes, ToolInv, ToolTyped
<1>4. QED BY <1>1, <1>2, <1>3 DEF ToolsMatchRegistry


-----------------------------------------------------------------------------
(* The package manager. *)

NoRef == <<"", "">>
Contents == [of : Nat, torn : BOOLEAN]
PkEntries == [repo : {r[1] : r \in PkRefs}, tag : {r[2] : r \in PkRefs}, content : Contents]
Lists == UNION {[keys -> PkEntries] : keys \in SUBSET PkKeys}
PkRuns ==
  [at : {"rest", "pull", "cache", "copy", "save", "unlink", "forget"}, key : PkKeys \cup {""},
   ref : PkRefs \cup {NoRef}, content : Contents, modules : Lists, seen : Lists]

PkTyped ==
  /\ pkPushes \in Nat /\ pkTags \in [PkRefs -> Nat] /\ pkPush \in [ref : PkRefs \cup {NoRef}, content : Nat]
  /\ pkCache \in [PkRefs -> Contents] /\ pkFiles \in [PkKeys -> Contents]
  /\ pkLock \in [torn : BOOLEAN, modules : Lists] /\ pkRun \in [PkProcesses -> PkRuns]

\* The references that install a key.
RefOf(key, ref) == \E s \in PkSpecs : s.key = key /\ ref \in {<<s.repo, s.tag>>, <<s.key, "latest">>}
RunFits(run) ==
  /\ run.at # "rest" => run.key \in PkKeys
  /\ run.at \in {"pull", "cache", "copy", "save"} => RefOf(run.key, run.ref)
  /\ run.modules = run.seen
GotFits(got) ==
  got = <<got[1], got[2], got[3]>> /\ RefOf(got[1], got[2]) /\ got[3] \in Contents /\ got[3] # Nothing

\* What is listed, cached or under way was published under its reference.
Listed(modules) ==
  \A k \in DOMAIN modules : <<<<modules[k].repo, modules[k].tag>>, modules[k].content.of>> \in pkEver
AllPublished ==
  /\ \A r \in PkRefs : pkTags[r] # 0 => pkTags[r] \in pkBlobs /\ <<r, pkTags[r]>> \in pkEver
  /\ pkPush.content # 0 => pkPush.content \in pkBlobs /\ pkPush.ref \in PkRefs
  /\ \A r \in PkRefs : pkCache[r] # Nothing => <<r, pkCache[r].of>> \in pkEver
  /\ Listed(pkLock.modules)
  /\ \A p \in PkProcesses :
       /\ Listed(Run(p).modules)
       /\ Run(p).at \in {"cache", "copy", "save"} => <<Run(p).ref, Run(p).content.of>> \in pkEver

\* A key that nothing upset: at most one process is at work on it, what that one fetched is
\* what the cache, the directory and in the end the lockfile have, and what was installed of
\* it is what the cache has.
AtWork(p, k) == Run(p).at # "rest" /\ Run(p).key = k
RunSound(run) ==
  /\ run.at = "cache" => pkCache[run.ref] = Nothing
  /\ run.at = "copy" => pkCache[run.ref] \in {run.content, Nothing}
  /\ run.at = "save" => pkFiles[run.key] = run.content
  /\ run.at = "forget" => pkFiles[run.key] = Nothing
FileListed(k) ==
  pkFiles[k] = IF k \in DOMAIN pkLock.modules THEN pkLock.modules[k].content ELSE Nothing
KeySound(k) ==
  /\ \A p, q \in PkProcesses : AtWork(p, k) /\ AtWork(q, k) => p = q
  /\ \A p \in PkProcesses : AtWork(p, k) => RunSound(Run(p))
  /\ \A got \in pkGot : got[1] = k => pkCache[got[2]] = got[3]
  /\ ~pkLock.torn /\ (\A p \in PkProcesses : AtWork(p, k) => Run(p).at \notin {"save", "forget"}) =>
       FileListed(k)

PkInv ==
  /\ PkTyped /\ AllPublished
  /\ \A p \in PkProcesses : RunFits(Run(p))
  /\ \A got \in pkGot : GotFits(got)
  /\ \A k \in PkKeys \ pkUpset : KeySound(k)

LEMMA OneKey == ASSUME NEW j, NEW k, NEW ref, RefOf(j, ref), RefOf(k, ref) PROVE j = k
<1>1. PICK s \in PkSpecs : s.key = j /\ ref \in {<<s.repo, s.tag>>, <<s.key, "latest">>}
  BY DEF RefOf
<1>2. PICK t \in PkSpecs : t.key = k /\ ref \in {<<t.repo, t.tag>>, <<t.key, "latest">>}
  BY DEF RefOf
<1>3. ref[1] \in {s.repo, s.key} /\ ref[1] \in {t.repo, t.key}
  BY <1>1, <1>2
<1>4. s.repo \in {t.repo, t.key} \/ t.repo \in {s.repo, s.key} \/ s.key = t.key
  BY <1>3
<1>5. s.key = t.key
  BY <1>4, SpecsAssumption
<1>6. QED BY <1>1, <1>2, <1>5

LEMMA RefsOfKeys ==
    ASSUME NEW key, NEW ref, RefOf(key, ref) PROVE key \in PkKeys /\ ref \in PkRefs /\ ref = <<ref[1], ref[2]>>
<1>1. PICK s \in PkSpecs : s.key = key /\ ref \in {<<s.repo, s.tag>>, <<s.key, "latest">>}
  BY DEF RefOf
<1>2. <<s.repo, s.tag>> \in PkRefs /\ <<s.key, "latest">> \in PkRefs /\ s.key \in PkKeys
  BY DEF PkRefs, PkKeys
<1>3. QED BY <1>1, <1>2

LEMMA EmptyList == <<>> \in Lists /\ DOMAIN <<>> = {}
<1>1. <<>> \in Seq(PkEntries) /\ Len(<<>>) = 0
  OBVIOUS
<1>2. DOMAIN <<>> = {}
  BY <1>1
<1>3. <<>> \in [{} -> PkEntries]
  BY <1>1, <1>2
<1>4. {} \in SUBSET PkKeys
  OBVIOUS
<1>5. QED BY <1>2, <1>3, <1>4 DEF Lists

LEMMA ListParts ==
    ASSUME NEW modules \in Lists
    PROVE  DOMAIN modules \subseteq PkKeys /\ \A k \in DOMAIN modules : modules[k] \in PkEntries
BY DEF Lists

LEMMA MakesList ==
    ASSUME NEW keys \in SUBSET PkKeys, NEW modules \in [keys -> PkEntries]
    PROVE  modules \in Lists /\ DOMAIN modules = keys
BY DEF Lists

LEMMA NothingIs == Nothing \in Contents /\ Nothing.of = 0
BY DEF Nothing, Contents

LEMMA AsleepIs ==
    /\ Asleep \in PkRuns /\ Asleep.at = "rest" /\ RunFits(Asleep) /\ Asleep.modules = <<>>
BY EmptyList, NothingIs DEF Asleep, PkRuns, RunFits, NoRef

LEMMA RunParts ==
    ASSUME NEW run \in PkRuns
    PROVE  /\ run.modules \in Lists /\ run.seen \in Lists /\ run.content \in Contents
           /\ run.key \in PkKeys \cup {""} /\ run.ref \in PkRefs \cup {NoRef}
BY DEF PkRuns

LEMMA PackagesStart == PackagesInit => PkInv
<1> SUFFICES ASSUME PackagesInit PROVE PkInv
  OBVIOUS
<1>1. /\ pkTags = [r \in PkRefs |-> 0] /\ pkPush = [ref |-> NoRef, content |-> 0] /\ pkPushes = 0
      /\ pkCache = [r \in PkRefs |-> Nothing] /\ pkFiles = [k \in PkKeys |-> Nothing]
      /\ pkLock = [torn |-> FALSE, modules |-> <<>>] /\ pkRun = [p \in PkProcesses |-> Asleep] /\ pkGot = {}
  BY DEF PackagesInit, NoRef
<1>2. PkTyped
  BY <1>1, EmptyList, NothingIs, AsleepIs DEF PkTyped
<1>3. \A p \in PkProcesses : Run(p) = Asleep
  BY <1>1 DEF Run
<1>4. AllPublished
  BY <1>1, <1>3, AsleepIs, EmptyList DEF AllPublished, Listed
<1>5. \A k \in PkKeys : KeySound(k)
  BY <1>1, <1>3, AsleepIs, EmptyList DEF KeySound, AtWork, FileListed
<1>6. QED BY <1>1, <1>2, <1>3, <1>4, <1>5, AsleepIs DEF PkInv

-----------------------------------------------------------------------------
LEMMA RunBecomes ==
    ASSUME PkTyped, NEW p \in PkProcesses, NEW w \in PkRuns, RunIs(p, w)
    PROVE  /\ pkRun' \in [PkProcesses -> PkRuns] /\ Run(p)' = w
           /\ \A q \in PkProcesses : q # p => Run(q)' = Run(q)
BY DEF PkTyped, RunIs, Run

LEMMA TypedRun == ASSUME PkTyped, NEW p \in PkProcesses PROVE Run(p) \in PkRuns
BY DEF PkTyped, Run

\* What a key keeps in a step that has nothing to do with it.
LEMMA KeyKept ==
    ASSUME PkInv, NEW k \in PkKeys, KeySound(k),
           \A p \in PkProcesses : AtWork(p, k)' <=> AtWork(p, k),
           \A p \in PkProcesses : AtWork(p, k) => Run(p)' = Run(p),
           pkFiles'[k] = pkFiles[k], \A r \in PkRefs : RefOf(k, r) => pkCache'[r] = pkCache[r],
           \A got \in pkGot' : got[1] = k => got \in pkGot,
           \/ pkLock'.torn
           \/ /\ ~pkLock.torn /\ (k \in DOMAIN pkLock'.modules <=> k \in DOMAIN pkLock.modules)
              /\ k \in DOMAIN pkLock.modules => pkLock'.modules[k] = pkLock.modules[k]
    PROVE  KeySound(k)'
<1>1. \A p, q \in PkProcesses : AtWork(p, k)' /\ AtWork(q, k)' => p = q
  BY DEF KeySound
<1>2. ASSUME NEW p \in PkProcesses, AtWork(p, k)' PROVE RunSound(Run(p))'
  <2>1. PICK run : run = Run(p) /\ run = Run(p)' /\ run.at # "rest" /\ run.key = k
    BY <1>2 DEF AtWork
  <2>2. RunSound(run)
    BY <1>2, <2>1 DEF KeySound, AtWork
  <2>3. run.at \in {"cache", "copy"} => pkCache'[run.ref] = pkCache[run.ref]
    <3>1. RunFits(run)
      BY <2>1 DEF PkInv
    <3>2. run.at \in {"cache", "copy"} => RefOf(k, run.ref)
      BY <2>1, <3>1 DEF RunFits
    <3>3. QED BY <3>2, RefsOfKeys
  <2>4. QED BY <2>1, <2>2, <2>3 DEF RunSound
<1>3. ASSUME NEW got \in pkGot', got[1] = k PROVE pkCache'[got[2]] = got[3]
  <2>1. got \in pkGot /\ GotFits(got)
    BY <1>3 DEF PkInv
  <2>2. pkCache[got[2]] = got[3]
    BY <1>3, <2>1 DEF KeySound
  <2>3. RefOf(k, got[2])
    BY <1>3, <2>1 DEF GotFits
  <2>4. QED BY <2>2, <2>3, RefsOfKeys
<1>4. ASSUME ~pkLock'.torn, \A p \in PkProcesses : AtWork(p, k)' => Run(p)'.at \notin {"save", "forget"}
      PROVE  FileListed(k)'
  <2>1. ~pkLock.torn /\ (k \in DOMAIN pkLock'.modules <=> k \in DOMAIN pkLock.modules)
        /\ (k \in DOMAIN pkLock.modules => pkLock'.modules[k] = pkLock.modules[k])
    BY <1>4
  <2>2. FileListed(k)
    BY <1>4, <2>1 DEF KeySound
  <2>3. QED BY <2>1, <2>2 DEF FileListed
<1>5. QED BY <1>1, <1>2, <1>3, <1>4 DEF KeySound

\* A step of p is no matter of the keys it is not at work on, if it leaves their files,
\* their references' place in the cache and their entries alone.
LEMMA OthersKept ==
    ASSUME PkInv, NEW p \in PkProcesses, NEW w \in PkRuns, RunIs(p, w), NEW key,
           Run(p).at # "rest" => Run(p).key = key, w.at # "rest" => w.key = key,
           NEW k \in PkKeys \ pkUpset, k # key,
           pkFiles'[k] = pkFiles[k], \A r \in PkRefs : RefOf(k, r) => pkCache'[r] = pkCache[r],
           \A got \in pkGot' : got[1] = k => got \in pkGot,
           \/ pkLock'.torn
           \/ /\ ~pkLock.torn /\ (k \in DOMAIN pkLock'.modules <=> k \in DOMAIN pkLock.modules)
              /\ k \in DOMAIN pkLock.modules => pkLock'.modules[k] = pkLock.modules[k]
           \/ UNCHANGED pkLock
    PROVE  KeySound(k)'
<1>1. PkTyped /\ KeySound(k)
  BY DEF PkInv
<1>2. Run(p)' = w /\ \A q \in PkProcesses : q # p => Run(q)' = Run(q)
  BY <1>1, RunBecomes
<1>3. ASSUME NEW q \in PkProcesses
      PROVE  (AtWork(q, k)' <=> AtWork(q, k)) /\ (AtWork(q, k) => Run(q)' = Run(q))
  <2>1. CASE q = p
    BY <1>2, <2>1 DEF AtWork
  <2>2. CASE q # p
    BY <1>2, <2>2 DEF AtWork
  <2>3. QED BY <2>1, <2>2
<1>4. \/ pkLock'.torn
      \/ /\ ~pkLock.torn /\ (k \in DOMAIN pkLock'.modules <=> k \in DOMAIN pkLock.modules)
         /\ k \in DOMAIN pkLock.modules => pkLock'.modules[k] = pkLock.modules[k]
  OBVIOUS
<1>5. QED BY <1>1, <1>3, <1>4, KeyKept

LEMMA SameKeys ==
    ASSUME UNCHANGED <<pkCache, pkFiles, pkLock, pkRun, pkGot>>, NEW k \in PkKeys, KeySound(k)
    PROVE  KeySound(k)'
BY DEF KeySound, AtWork, RunSound, FileListed, Run

\* What p does leaves all that is published so.
LEMMA StillPublished ==
    ASSUME PkInv, NEW p \in PkProcesses, NEW w \in PkRuns, RunIs(p, w), UNCHANGED Registry,
           Listed(w.modules), w.at \in {"cache", "copy", "save"} => <<w.ref, w.content.of>> \in pkEver,
           Listed(pkLock'.modules), \A r \in PkRefs : pkCache'[r] # Nothing => <<r, pkCache'[r].of>> \in pkEver
    PROVE  AllPublished'
<1>1. PkTyped /\ AllPublished
  BY DEF PkInv
<1>2. Run(p)' = w /\ \A q \in PkProcesses : q # p => Run(q)' = Run(q)
  BY <1>1, RunBecomes
<1>3. UNCHANGED <<pkBlobs, pkTags, pkPush, pkEver>>
  BY DEF Registry
<1>4. Listed(pkLock.modules)'
  BY <1>3 DEF Listed
<1>5. ASSUME NEW q \in PkProcesses
      PROVE  /\ Listed(Run(q).modules)'
             /\ Run(q)'.at \in {"cache", "copy", "save"} => <<Run(q)'.ref, Run(q)'.content.of>> \in pkEver'
  <2>1. CASE q = p
    BY <1>2, <1>3, <2>1 DEF Listed
  <2>2. CASE q # p
    BY <1>1, <1>2, <1>3, <2>2 DEF Listed, AllPublished
  <2>3. QED BY <2>1, <2>2
<1>6. QED BY <1>1, <1>3, <1>4, <1>5 DEF AllPublished

LEMMA StillFits ==
    ASSUME PkInv, NEW p \in PkProcesses, NEW w \in PkRuns, RunIs(p, w), RunFits(w)
    PROVE  \A q \in PkProcesses : RunFits(Run(q))'
<1>1. PkTyped /\ \A q \in PkProcesses : RunFits(Run(q))
  BY DEF PkInv
<1>2. Run(p)' = w /\ \A q \in PkProcesses : q # p => Run(q)' = Run(q)
  BY <1>1, RunBecomes
<1>3. QED BY <1>1, <1>2 DEF RunFits

\* A key that p alone is at work on, after its step.
LEMMA OwnKey ==
    ASSUME PkInv, NEW p \in PkProcesses, NEW w \in PkRuns, RunIs(p, w), NEW k \in PkKeys \ pkUpset,
           Run(p).at # "rest", Run(p).key = k,
           w.at # "rest" => w.key = k /\ RunSound(w)',
           \A got \in pkGot' : got[1] = k => pkCache'[got[2]] = got[3],
           ~pkLock'.torn /\ w.at \notin {"save", "forget"} => FileListed(k)'
    PROVE  KeySound(k)'
<1>1. PkTyped /\ KeySound(k) /\ AtWork(p, k)
  BY DEF PkInv, AtWork
<1>2. Run(p)' = w /\ \A q \in PkProcesses : q # p => Run(q)' = Run(q)
  BY <1>1, RunBecomes
<1>3. \A q \in PkProcesses : AtWork(q, k)' => q = p
  BY <1>1, <1>2 DEF KeySound, AtWork
<1>4. AtWork(p, k)' => RunSound(Run(p))'
  BY <1>2 DEF AtWork, RunSound
<1>5. w.at = "rest" \/ AtWork(p, k)'
  BY <1>2 DEF AtWork
<1>6. ASSUME ~pkLock'.torn, \A q \in PkProcesses : AtWork(q, k)' => Run(q)'.at \notin {"save", "forget"}
      PROVE  FileListed(k)'
  BY <1>2, <1>5, <1>6
<1>7. QED BY <1>3, <1>4, <1>6 DEF KeySound

LEMMA PushBlobKeeps == ASSUME PkInv, NEW ref \in PkRefs, PushBlob(ref) PROVE PkInv'
<1>1. /\ pkPushes' = pkPushes + 1 /\ pkBlobs' = pkBlobs \cup {pkPushes'}
      /\ pkPush' = [ref |-> ref, content |-> pkPushes']
      /\ UNCHANGED <<pkTags, pkEver, pkCache, pkFiles, pkLock, pkRun, pkGot, pkUpset>>
  BY DEF PushBlob
<1>2. PkTyped'
  BY <1>1 DEF PkInv, PkTyped
<1>3. AllPublished'
  BY <1>1 DEF PkInv, AllPublished, Listed, Run
<1>4. \A k \in PkKeys \ pkUpset' : KeySound(k)'
  BY <1>1, SameKeys DEF PkInv
<1>5. (\A p \in PkProcesses : RunFits(Run(p))') /\ \A got \in pkGot' : GotFits(got)
  BY <1>1 DEF PkInv, RunFits, Run
<1>6. QED BY <1>2, <1>3, <1>4, <1>5 DEF PkInv

LEMMA PushManifestKeeps == ASSUME PkInv, PushManifest PROVE PkInv'
<1>1. /\ pkPush.content # 0 /\ pkPush' = [pkPush EXCEPT !.content = 0]
      /\ UNCHANGED <<pkBlobs, pkPushes, pkCache, pkFiles, pkLock, pkRun, pkGot, pkUpset>>
  BY DEF PushManifest
<1>2. \/ /\ pkTags' = [pkTags EXCEPT ![pkPush.ref] = pkPush.content]
         /\ pkEver' = pkEver \cup {<<pkPush.ref, pkPush.content>>}
      \/ UNCHANGED <<pkTags, pkEver>>
  BY DEF PushManifest
<1>3. PkTyped /\ AllPublished
  BY DEF PkInv
<1>4. pkPush \in [ref : PkRefs \cup {NoRef}, content : Nat] /\ pkTags \in [PkRefs -> Nat]
  BY <1>3 DEF PkTyped
<1>5. pkPush.content \in pkBlobs /\ pkPush.ref \in PkRefs
  BY <1>1, <1>3 DEF AllPublished
<1>6. PkTyped'
  BY <1>1, <1>2, <1>3, <1>4, <1>5 DEF PkTyped
<1>7. \A r \in PkRefs : pkTags'[r] # 0 => pkTags'[r] \in pkBlobs' /\ <<r, pkTags'[r]>> \in pkEver'
  BY <1>1, <1>2, <1>3, <1>4, <1>5 DEF AllPublished
<1>8. pkEver \subseteq pkEver' /\ pkPush'.content = 0
  BY <1>1, <1>2, <1>4
<1>9. AllPublished'
  BY <1>1, <1>3, <1>7, <1>8 DEF AllPublished, Listed, Run
<1>10. \A k \in PkKeys \ pkUpset' : KeySound(k)'
  BY <1>1, SameKeys DEF PkInv
<1>11. (\A p \in PkProcesses : RunFits(Run(p))') /\ \A got \in pkGot' : GotFits(got)
  BY <1>1 DEF PkInv, RunFits, Run
<1>12. QED BY <1>6, <1>9, <1>10, <1>11 DEF PkInv

LEMMA ClearCacheKeeps == ASSUME PkInv, ClearCache PROVE PkInv'
<1>1. /\ pkCache' = [r \in PkRefs |-> Nothing] /\ pkGot' = {}
      /\ UNCHANGED <<pkBlobs, pkTags, pkPush, pkPushes, pkEver, pkFiles, pkLock, pkRun, pkUpset>>
  BY DEF ClearCache, Registry
<1>2. PkTyped'
  BY <1>1, NothingIs DEF PkInv, PkTyped
<1>3. AllPublished'
  BY <1>1 DEF PkInv, AllPublished, Listed, Run
<1>4. \A p \in PkProcesses : RunFits(Run(p)) /\ Run(p)' = Run(p)
  BY <1>1 DEF PkInv, Run
<1>5. ASSUME NEW k \in PkKeys \ pkUpset PROVE KeySound(k)'
  <2>1. KeySound(k)
    BY DEF PkInv
  <2>2. ASSUME NEW p \in PkProcesses, AtWork(p, k)' PROVE RunSound(Run(p))'
    <3>1. RunSound(Run(p)) /\ Run(p).at # "rest" /\ Run(p).key = k
      BY <1>4, <2>1, <2>2 DEF KeySound, AtWork
    <3>2. Run(p).at \in {"cache", "copy"} => Run(p).ref \in PkRefs
      BY <1>4, RefsOfKeys DEF RunFits
    <3>3. QED BY <1>1, <1>4, <3>1, <3>2 DEF RunSound
  <2>3. FileListed(k)' <=> FileListed(k)
    BY <1>1 DEF FileListed
  <2>4. QED BY <1>1, <1>4, <2>1, <2>2, <2>3 DEF KeySound, AtWork
<1>6. (\A p \in PkProcesses : RunFits(Run(p))') /\ \A got \in pkGot' : GotFits(got)
  BY <1>1, <1>4 DEF RunFits
<1>7. QED BY <1>1, <1>2, <1>3, <1>5, <1>6 DEF PkInv

\* A command begins: alone on its key, or the key is upset.
LEMMA BeginsKeeps ==
    ASSUME PkInv, NEW p \in PkProcesses, NEW key \in PkKeys, NEW run \in PkRuns, Begins(p, key, run),
           run.at \in {"pull", "unlink"}, run.at = "pull" => RefOf(key, run.ref)
    PROVE  PkInv'
<1>1. PICK loaded : loaded = Loaded(pkLock)
  OBVIOUS
<1> DEFINE with == [run EXCEPT !.key = key, !.modules = loaded, !.seen = loaded]
<1>2. /\ Run(p).at = "rest" /\ RunIs(p, with)
      /\ pkUpset' = IF \E q \in PkProcesses : Run(q).at # "rest" /\ Run(q).key = key THEN pkUpset \cup {key} ELSE pkUpset
      /\ UNCHANGED <<Registry, pkCache, pkFiles, pkLock, pkGot>>
  BY <1>1 DEF Begins
<1>3. PkTyped /\ AllPublished
  BY DEF PkInv
<1>4. loaded \in Lists /\ Listed(loaded)
  BY <1>1, <1>3, EmptyList DEF PkTyped, Loaded, AllPublished, Listed
<1>5. PICK w \in PkRuns : w = with
  BY <1>4 DEF PkRuns
<1>6. w.at = run.at /\ w.ref = run.ref /\ w.key = key /\ w.modules = loaded /\ w.seen = loaded
  BY <1>5 DEF PkRuns
<1>7. RunIs(p, w)
  BY <1>5, <1>2
<1>8. RunFits(w)
  BY <1>6 DEF RunFits
<1>9. /\ UNCHANGED <<pkTags, pkPush, pkPushes, pkCache, pkFiles, pkLock, pkGot>>
      /\ pkRun' \in [PkProcesses -> PkRuns]
  BY <1>2, <1>7, <1>3, <1>5, RunBecomes DEF Registry
<1>10. PkTyped'
  BY <1>3, <1>9 DEF PkTyped
<1>11. AllPublished'
  <2>1. Listed(w.modules) /\ w.at \notin {"cache", "copy", "save"}
    BY <1>4, <1>6
  <2>2. Listed(pkLock'.modules) /\ \A r \in PkRefs : pkCache'[r] # Nothing => <<r, pkCache'[r].of>> \in pkEver
    BY <1>3, <1>9 DEF AllPublished
  <2>3. QED BY <1>2, <1>7, <1>5, <2>1, <2>2, StillPublished
<1>12. \A q \in PkProcesses : RunFits(Run(q))'
  BY <1>2, <1>7, <1>5, <1>8, StillFits
<1>13. ASSUME NEW k \in PkKeys \ pkUpset' PROVE KeySound(k)'
  <2>1. k \in PkKeys \ pkUpset
    BY <1>2, <1>7, <1>13
  <2>2. CASE k # key
    <3>1. pkFiles'[k] = pkFiles[k] /\ \A r \in PkRefs : RefOf(k, r) => pkCache'[r] = pkCache[r]
      BY <1>9
    <3>2. (\A got \in pkGot' : got[1] = k => got \in pkGot) /\ UNCHANGED pkLock
      BY <1>9
    <3>3. QED BY <1>2, <1>7, <1>5, <1>6, <2>1, <2>2, <3>1, <3>2, OthersKept
  <2>3. CASE k = key
    <3>1. \A q \in PkProcesses : ~AtWork(q, k)
      BY <1>2, <1>7, <1>13, <2>3 DEF AtWork
    <3>2. KeySound(k)
      BY <2>1 DEF PkInv
    <3>3. Run(p)' = w /\ \A q \in PkProcesses : q # p => Run(q)' = Run(q)
      BY <1>2, <1>7, <1>3, <1>5, RunBecomes
    <3>4. \A q \in PkProcesses : AtWork(q, k)' => q = p
      BY <3>1, <3>3 DEF AtWork
    <3>5. RunSound(w)'
      BY <1>6 DEF RunSound
    <3>6. \A q \in PkProcesses : AtWork(q, k)' => RunSound(Run(q))'
      BY <3>3, <3>4, <3>5 DEF RunSound
    <3>7. FileListed(k)' <=> FileListed(k)
      BY <1>9 DEF FileListed
    <3>8. ~pkLock.torn => FileListed(k)
      BY <3>1, <3>2 DEF KeySound
    <3>9. \A got \in pkGot' : got[1] = k => pkCache'[got[2]] = got[3]
      BY <1>9, <3>2 DEF KeySound
    <3>10. QED BY <1>9, <3>4, <3>6, <3>7, <3>8, <3>9 DEF KeySound
  <2>4. QED BY <2>2, <2>3
<1>14. \A got \in pkGot' : GotFits(got)
  BY <1>9 DEF PkInv
<1>15. QED BY <1>10, <1>11, <1>12, <1>13, <1>14 DEF PkInv

LEMMA AsleepBut ==
    ASSUME NEW at \in {"pull", "unlink"}, NEW ref \in PkRefs \cup {NoRef}
    PROVE  /\ [Asleep EXCEPT !.at = at, !.ref = ref] \in PkRuns
           /\ [Asleep EXCEPT !.at = at, !.ref = ref].at = at /\ [Asleep EXCEPT !.at = at, !.ref = ref].ref = ref
BY AsleepIs DEF PkRuns, Asleep

LEMMA InstallKeeps ==
    ASSUME PkInv, NEW p \in PkProcesses, NEW s \in PkSpecs, NEW force, InstallModule(p, s, force)
    PROVE  PkInv'
<1> DEFINE run == [Asleep EXCEPT !.at = "pull", !.ref = <<s.repo, s.tag>>]
<1>1. Begins(p, s.key, run)
  BY DEF InstallModule
<1>2. s.key \in PkKeys /\ <<s.repo, s.tag>> \in PkRefs /\ RefOf(s.key, <<s.repo, s.tag>>)
  BY DEF PkKeys, PkRefs, RefOf
<1>3. run \in PkRuns /\ run.at = "pull" /\ run.ref = <<s.repo, s.tag>>
  BY <1>2, AsleepBut
<1> HIDE DEF run
<1>4. QED BY <1>1, <1>2, <1>3, BeginsKeeps

LEMMA UpdateKeeps ==
    ASSUME PkInv, NEW p \in PkProcesses, NEW key \in PkKeys, UpdateModule(p, key) PROVE PkInv'
<1> DEFINE run == [Asleep EXCEPT !.at = "pull", !.ref = <<key, "latest">>]
<1>1. Begins(p, key, run)
  BY DEF UpdateModule
<1>2. <<key, "latest">> \in PkRefs /\ RefOf(key, <<key, "latest">>)
  BY DEF PkKeys, PkRefs, RefOf
<1>3. run \in PkRuns /\ run.at = "pull" /\ run.ref = <<key, "latest">>
  BY <1>2, AsleepBut
<1> HIDE DEF run
<1>4. QED BY <1>1, <1>2, <1>3, BeginsKeeps

LEMMA UninstallKeeps ==
    ASSUME PkInv, NEW p \in PkProcesses, NEW key \in PkKeys, UninstallModule(p, key) PROVE PkInv'
<1> DEFINE run == [Asleep EXCEPT !.at = "unlink"]
<1>1. Begins(p, key, run)
  BY DEF UninstallModule
<1>2. run \in PkRuns /\ run.at = "unlink"
  BY AsleepIs DEF PkRuns, Asleep
<1> HIDE DEF run
<1>3. QED BY <1>1, <1>2, BeginsKeeps

\* A step of a process at work: what is left to show of it.
LEMMA WorkKeeps ==
    ASSUME PkInv, NEW p \in PkProcesses, NEW w \in PkRuns, RunIs(p, w), NEW key,
           Run(p).at # "rest", Run(p).key = key, w.at # "rest" => w.key = key, RunFits(w),
           UNCHANGED Registry, Listed(w.modules), Listed(pkLock'.modules),
           w.at \in {"cache", "copy", "save"} => <<w.ref, w.content.of>> \in pkEver,
           pkCache' \in [PkRefs -> Contents], pkFiles' \in [PkKeys -> Contents],
           pkLock' \in [torn : BOOLEAN, modules : Lists],
           \A r \in PkRefs : pkCache'[r] # Nothing => <<r, pkCache'[r].of>> \in pkEver,
           \A got \in pkGot' : GotFits(got) /\ (got \in pkGot \/ got[1] = key),
           pkUpset \subseteq pkUpset', key \notin pkUpset' => KeySound(key)',
           \A k \in PkKeys : k # key => pkFiles'[k] = pkFiles[k],
           \A r \in PkRefs : RefOf(key, r) \/ pkCache'[r] = pkCache[r],
           \A k \in PkKeys \ pkUpset' : k # key =>
             \/ pkLock'.torn
             \/ /\ ~pkLock.torn /\ (k \in DOMAIN pkLock'.modules <=> k \in DOMAIN pkLock.modules)
                /\ k \in DOMAIN pkLock.modules => pkLock'.modules[k] = pkLock.modules[k]
             \/ UNCHANGED pkLock
    PROVE  PkInv'
<1>1. PkTyped /\ AllPublished
  BY DEF PkInv
<1>2. pkRun' \in [PkProcesses -> PkRuns]
  BY <1>1, RunBecomes
<1>3. PkTyped'
  BY <1>1, <1>2 DEF PkTyped, Registry
<1>4. AllPublished'
  BY StillPublished
<1>5. \A q \in PkProcesses : RunFits(Run(q))'
  BY StillFits
<1>6. ASSUME NEW k \in PkKeys \ pkUpset' PROVE KeySound(k)'
  <2>1. CASE k = key
    BY <1>6, <2>1
  <2>2. CASE k # key
    <3>1. k \in PkKeys \ pkUpset /\ pkFiles'[k] = pkFiles[k]
      BY <2>2
    <3>2. \A r \in PkRefs : RefOf(k, r) => pkCache'[r] = pkCache[r]
      BY <2>2, OneKey
    <3>3. \A got \in pkGot' : got[1] = k => got \in pkGot
      BY <2>2
    <3>4. \/ pkLock'.torn
          \/ /\ ~pkLock.torn /\ (k \in DOMAIN pkLock'.modules <=> k \in DOMAIN pkLock.modules)
             /\ k \in DOMAIN pkLock.modules => pkLock'.modules[k] = pkLock.modules[k]
          \/ UNCHANGED pkLock
      BY <2>2
    <3>5. QED BY <2>2, <3>1, <3>2, <3>3, <3>4, OthersKept
  <2>3. QED BY <2>1, <2>2
<1>7. QED BY <1>3, <1>4, <1>5, <1>6 DEF PkInv

\* Of the key that a process alone is at work on.
LEMMA MineAlone ==
    ASSUME PkInv, NEW p \in PkProcesses, Run(p).at # "rest"
    PROVE  /\ Run(p) \in PkRuns /\ RunFits(Run(p)) /\ Listed(Run(p).modules) /\ Run(p).key \in PkKeys
           /\ Run(p).at \in {"cache", "copy", "save"} => <<Run(p).ref, Run(p).content.of>> \in pkEver
           /\ Run(p).at \in {"pull", "cache", "copy", "save"} =>
                RefOf(Run(p).key, Run(p).ref) /\ Run(p).ref \in PkRefs
           /\ Run(p).key \notin pkUpset =>
                /\ RunSound(Run(p))
                /\ \A got \in pkGot : got[1] = Run(p).key => pkCache[got[2]] = got[3]
                /\ ~pkLock.torn /\ Run(p).at \notin {"save", "forget"} => FileListed(Run(p).key)
<1>1. PkTyped /\ AllPublished /\ RunFits(Run(p)) /\ Run(p).key \in PkKeys
  BY DEF PkInv, RunFits
<1>2. Run(p) \in PkRuns
  BY <1>1, TypedRun
<1>3. Run(p).at \in {"pull", "cache", "copy", "save"} => RefOf(Run(p).key, Run(p).ref)
  BY <1>1 DEF RunFits
<1>4. Listed(Run(p).modules)
      /\ (Run(p).at \in {"cache", "copy", "save"} => <<Run(p).ref, Run(p).content.of>> \in pkEver)
  BY <1>1 DEF AllPublished
<1>5. ASSUME Run(p).key \notin pkUpset
      PROVE  /\ RunSound(Run(p))
             /\ \A got \in pkGot : got[1] = Run(p).key => pkCache[got[2]] = got[3]
             /\ ~pkLock.torn /\ Run(p).at \notin {"save", "forget"} => FileListed(Run(p).key)
  <2>1. KeySound(Run(p).key) /\ AtWork(p, Run(p).key)
    BY <1>1, <1>5 DEF PkInv, AtWork
  <2>2. \A q \in PkProcesses : AtWork(q, Run(p).key) => q = p
    BY <2>1 DEF KeySound
  <2>3. QED BY <2>1, <2>2 DEF KeySound
<1>6. QED BY <1>1, <1>2, <1>3, <1>4, <1>5, RefsOfKeys

\* A run that goes on to another phase, with other contents.
Onward(run, at, content) == [run EXCEPT !.at = at, !.content = content]

LEMMA Onwards ==
    ASSUME NEW run \in PkRuns, NEW at \in {"cache", "copy", "save", "forget"}, NEW content \in Contents
    PROVE  /\ Onward(run, at, content) \in PkRuns
           /\ Onward(run, at, content).at = at /\ Onward(run, at, content).content = content
           /\ Onward(run, at, content).key = run.key /\ Onward(run, at, content).ref = run.ref
           /\ Onward(run, at, content).modules = run.modules /\ Onward(run, at, content).seen = run.seen
BY DEF PkRuns, Onward

LEMMA PullKeeps == ASSUME PkInv, NEW p \in PkProcesses, PullModule(p) PROVE PkInv'
<1>1. PICK run : run = Run(p)
  OBVIOUS
<1>2. PICK key : key = run.key
  OBVIOUS
<1>3. /\ run.at = "pull" /\ UNCHANGED <<Registry, pkCache, pkFiles, pkLock, pkGot, pkUpset>>
  BY <1>1 DEF PullModule
<1>4. PkTyped /\ AllPublished
  BY DEF PkInv
<1>5. /\ run \in PkRuns /\ RunFits(run) /\ Listed(run.modules) /\ RefOf(key, run.ref) /\ run.ref \in PkRefs
      /\ key \notin pkUpset =>
           /\ \A got \in pkGot : got[1] = key => pkCache[got[2]] = got[3]
           /\ ~pkLock.torn => FileListed(key)
      /\ key \in PkKeys
  BY <1>1, <1>2, <1>3, MineAlone
<1>6. PICK c \in Contents : c = pkCache[run.ref]
  BY <1>4, <1>5 DEF PkTyped
<1>7. PICK t \in Nat : t = pkTags[run.ref]
  BY <1>4, <1>5 DEF PkTyped
<1>8. PICK new \in Contents : new = [of |-> t, torn |-> FALSE]
  BY DEF Contents
<1>9. \/ c # Nothing /\ RunIs(p, Onward(run, "copy", c))
      \/ c = Nothing /\ t # 0 /\ RunIs(p, Onward(run, "cache", new))
      \/ RunIs(p, Asleep)
  BY <1>1, <1>6, <1>7, <1>8 DEF PullModule, CacheHit, Onward
<1>10. PICK w \in PkRuns :
         /\ RunIs(p, w) /\ RunFits(w) /\ (w.at # "rest" => w.key = key) /\ Listed(w.modules)
         /\ w.at \in {"rest", "copy", "cache"}
         /\ w.at = "copy" => w.ref = run.ref /\ w.content = c /\ c # Nothing
         /\ w.at = "cache" => w.ref = run.ref /\ w.content = new /\ c = Nothing /\ t # 0
  <2>1. CASE c # Nothing /\ RunIs(p, Onward(run, "copy", c))
    <3>1. PICK w \in PkRuns :
            /\ w = Onward(run, "copy", c)
            /\ w.at = "copy" /\ w.content = c /\ w.key = run.key /\ w.ref = run.ref
            /\ w.modules = run.modules /\ w.seen = run.seen
      BY <1>5, Onwards
    <3>2. RunIs(p, w) /\ w.key = key /\ Listed(w.modules)
      BY <1>2, <1>5, <2>1, <3>1
    <3>3. RunFits(w)
      BY <1>2, <1>3, <1>5, <3>1 DEF RunFits
    <3>4. QED BY <2>1, <3>1, <3>2, <3>3
  <2>2. CASE c = Nothing /\ t # 0 /\ RunIs(p, Onward(run, "cache", new))
    <3>1. PICK w \in PkRuns :
            /\ w = Onward(run, "cache", new)
            /\ w.at = "cache" /\ w.content = new /\ w.key = run.key /\ w.ref = run.ref
            /\ w.modules = run.modules /\ w.seen = run.seen
      BY <1>5, Onwards
    <3>2. RunIs(p, w) /\ w.key = key /\ Listed(w.modules)
      BY <1>2, <1>5, <2>2, <3>1
    <3>3. RunFits(w)
      BY <1>2, <1>3, <1>5, <3>1 DEF RunFits
    <3>4. QED BY <2>2, <3>1, <3>2, <3>3
  <2>3. CASE RunIs(p, Asleep)
    BY <2>3, AsleepIs, EmptyList DEF Listed
  <2>4. QED BY <1>9, <2>1, <2>2, <2>3
<1>11. w.at \in {"cache", "copy", "save"} => <<w.ref, w.content.of>> \in pkEver
  BY <1>4, <1>5, <1>6, <1>7, <1>8, <1>10 DEF AllPublished
<1>12. ASSUME key \notin pkUpset' PROVE KeySound(key)'
  <2>1. key \in PkKeys \ pkUpset
    BY <1>3, <1>5, <1>12
  <2>2. w.at # "rest" => w.key = key /\ RunSound(w)'
    BY <1>3, <1>6, <1>10 DEF RunSound
  <2>3. \A got \in pkGot' : got[1] = key => pkCache'[got[2]] = got[3]
    BY <1>3, <1>5, <2>1
  <2>4. ~pkLock'.torn /\ w.at \notin {"save", "forget"} => FileListed(key)'
    BY <1>3, <1>5, <2>1 DEF FileListed
  <2>5. Run(p).at # "rest" /\ Run(p).key = key
    BY <1>1, <1>2, <1>3
  <2>6. QED BY ONLY PkInv, p \in PkProcesses, <1>10, <2>1, <2>2, <2>3, <2>4, <2>5, OwnKey
<1>13. Run(p).at # "rest" /\ Run(p).key = key
  BY <1>1, <1>2, <1>3
<1>14. /\ UNCHANGED Registry /\ Listed(pkLock'.modules)
       /\ pkCache' \in [PkRefs -> Contents] /\ pkFiles' \in [PkKeys -> Contents]
       /\ pkLock' \in [torn : BOOLEAN, modules : Lists]
       /\ \A r \in PkRefs : pkCache'[r] # Nothing => <<r, pkCache'[r].of>> \in pkEver
  BY <1>3, <1>4 DEF PkTyped, AllPublished
<1>15. /\ \A got \in pkGot' : GotFits(got) /\ (got \in pkGot \/ got[1] = key)
       /\ pkUpset \subseteq pkUpset'
       /\ \A k \in PkKeys : k # key => pkFiles'[k] = pkFiles[k]
       /\ \A r \in PkRefs : RefOf(key, r) \/ pkCache'[r] = pkCache[r]
       /\ UNCHANGED pkLock
  BY <1>3 DEF PkInv
<1>16. QED BY <1>10, <1>11, <1>12, <1>13, <1>14, <1>15, WorkKeeps

LEMMA FillKeeps == ASSUME PkInv, NEW p \in PkProcesses, FillCache(p) PROVE PkInv'
<1>1. PICK run : run = Run(p)
  OBVIOUS
<1>2. PICK key : key = run.key
  OBVIOUS
<1>3. /\ run.at = "cache" /\ pkCache' = [pkCache EXCEPT ![run.ref] = run.content]
      /\ RunIs(p, [run EXCEPT !.at = "copy"])
      /\ UNCHANGED <<Registry, pkFiles, pkLock, pkGot, pkUpset>>
  BY <1>1 DEF FillCache
<1>4. PkTyped /\ AllPublished
  BY DEF PkInv
<1>5. /\ run \in PkRuns /\ RunFits(run) /\ Listed(run.modules) /\ RefOf(key, run.ref) /\ run.ref \in PkRefs
      /\ <<run.ref, run.content.of>> \in pkEver
      /\ key \notin pkUpset =>
           /\ RunSound(run) /\ \A got \in pkGot : got[1] = key => pkCache[got[2]] = got[3]
           /\ ~pkLock.torn => FileListed(key)
      /\ key \in PkKeys
  BY <1>1, <1>2, <1>3, MineAlone
<1>6. run.content \in Contents
  BY <1>5, RunParts
<1>7. PICK w \in PkRuns :
        /\ RunIs(p, w) /\ w.at = "copy" /\ w.content = run.content /\ w.key = run.key /\ w.ref = run.ref
        /\ w.modules = run.modules /\ w.seen = run.seen
  <2>1. PICK c \in Contents : c = run.content
    BY <1>6
  <2>2. run \in PkRuns
    BY <1>5
  <2>3. PICK w \in PkRuns :
          /\ w = Onward(run, "copy", c)
          /\ w.at = "copy" /\ w.content = c /\ w.key = run.key /\ w.ref = run.ref
          /\ w.modules = run.modules /\ w.seen = run.seen
    BY <2>2, Onwards
  <2>4. w = [run EXCEPT !.at = "copy"]
    BY <2>1, <2>2, <2>3 DEF PkRuns, Onward
  <2>5. QED BY <1>3, <2>1, <2>3, <2>4
<1>8. RunFits(w)
  BY <1>2, <1>5, <1>7 DEF RunFits
<1>9. pkCache' \in [PkRefs -> Contents] /\ pkCache'[run.ref] = run.content
      /\ \A r \in PkRefs : r # run.ref => pkCache'[r] = pkCache[r]
  BY <1>3, <1>4, <1>5, <1>6 DEF PkTyped
<1>10. ASSUME key \notin pkUpset' PROVE KeySound(key)'
  <2>1. key \in PkKeys \ pkUpset
    BY <1>3, <1>5, <1>10
  <2>2. w.at # "rest" => w.key = key /\ RunSound(w)'
    BY <1>2, <1>7, <1>9 DEF RunSound
  <2>3. ASSUME NEW got \in pkGot', got[1] = key PROVE pkCache'[got[2]] = got[3]
    <3>1. got \in pkGot /\ GotFits(got)
      BY <1>3 DEF PkInv
    <3>2. pkCache[got[2]] = got[3] /\ got[3] # Nothing /\ RefOf(key, got[2])
      BY <1>5, <2>1, <2>3, <3>1 DEF GotFits
    <3>3. got[2] \in PkRefs /\ pkCache[run.ref] = Nothing
      BY <1>3, <1>5, <2>1, <3>2, RefsOfKeys DEF RunSound
    <3>4. QED BY <1>9, <3>2, <3>3
  <2>4. ~pkLock'.torn /\ w.at \notin {"save", "forget"} => FileListed(key)'
    BY <1>3, <1>5, <2>1 DEF FileListed
  <2>5. Run(p).at # "rest" /\ Run(p).key = key
    BY <1>1, <1>2, <1>3
  <2>6. QED BY ONLY PkInv, p \in PkProcesses, <1>7, <2>1, <2>2, <2>3, <2>4, <2>5, OwnKey
<1>11. /\ Run(p).at # "rest" /\ Run(p).key = key /\ w.key = key /\ Listed(w.modules)
       /\ w.at \in {"cache", "copy", "save"} => <<w.ref, w.content.of>> \in pkEver
  BY <1>1, <1>2, <1>3, <1>5, <1>7
<1>12. /\ UNCHANGED Registry /\ Listed(pkLock'.modules) /\ pkFiles' \in [PkKeys -> Contents]
       /\ pkLock' \in [torn : BOOLEAN, modules : Lists]
       /\ \A r \in PkRefs : pkCache'[r] # Nothing => <<r, pkCache'[r].of>> \in pkEver
  BY <1>3, <1>4, <1>5, <1>9 DEF PkTyped, AllPublished
<1>13. /\ \A got \in pkGot' : GotFits(got) /\ (got \in pkGot \/ got[1] = key)
       /\ pkUpset \subseteq pkUpset'
       /\ \A k \in PkKeys : k # key => pkFiles'[k] = pkFiles[k]
       /\ \A r \in PkRefs : RefOf(key, r) \/ pkCache'[r] = pkCache[r]
       /\ UNCHANGED pkLock
  BY <1>3, <1>5, <1>9 DEF PkInv
<1>14. QED BY <1>7, <1>8, <1>9, <1>10, <1>11, <1>12, <1>13, WorkKeeps

LEMMA UnlinkKeeps == ASSUME PkInv, NEW p \in PkProcesses, UnlinkModule(p) PROVE PkInv'
<1>1. PICK run : run = Run(p)
  OBVIOUS
<1>2. PICK key : key = run.key
  OBVIOUS
<1>3. /\ run.at = "unlink" /\ pkFiles' = [pkFiles EXCEPT ![key] = Nothing]
      /\ RunIs(p, [run EXCEPT !.at = "forget"])
      /\ UNCHANGED <<Registry, pkCache, pkLock, pkGot, pkUpset>>
  BY <1>1, <1>2 DEF UnlinkModule
<1>4. PkTyped /\ AllPublished
  BY DEF PkInv
<1>5. /\ run \in PkRuns /\ RunFits(run) /\ Listed(run.modules)
      /\ key \notin pkUpset => \A got \in pkGot : got[1] = key => pkCache[got[2]] = got[3]
      /\ key \in PkKeys
  BY <1>1, <1>2, <1>3, MineAlone
<1>6. run.content \in Contents
  BY <1>5, RunParts
<1>7. PICK w \in PkRuns :
        /\ RunIs(p, w) /\ w.at = "forget" /\ w.content = run.content /\ w.key = run.key /\ w.ref = run.ref
        /\ w.modules = run.modules /\ w.seen = run.seen
  <2>1. PICK c \in Contents : c = run.content
    BY <1>6
  <2>2. run \in PkRuns
    BY <1>5
  <2>3. PICK w \in PkRuns :
          /\ w = Onward(run, "forget", c)
          /\ w.at = "forget" /\ w.content = c /\ w.key = run.key /\ w.ref = run.ref
          /\ w.modules = run.modules /\ w.seen = run.seen
    BY <2>2, Onwards
  <2>4. w = [run EXCEPT !.at = "forget"]
    BY <2>1, <2>2, <2>3 DEF PkRuns, Onward
  <2>5. QED BY <1>3, <2>1, <2>3, <2>4
<1>8. RunFits(w)
  BY <1>2, <1>5, <1>7 DEF RunFits
<1>9. /\ pkFiles' \in [PkKeys -> Contents] /\ pkFiles'[key] = Nothing
      /\ \A k \in PkKeys : k # key => pkFiles'[k] = pkFiles[k]
  BY <1>3, <1>4, <1>5, NothingIs DEF PkTyped
<1>10. ASSUME key \notin pkUpset' PROVE KeySound(key)'
  <2>1. key \in PkKeys \ pkUpset
    BY <1>3, <1>5, <1>10
  <2>2. w.at # "rest" => w.key = key /\ RunSound(w)'
    BY <1>2, <1>7, <1>9 DEF RunSound
  <2>3. \A got \in pkGot' : got[1] = key => pkCache'[got[2]] = got[3]
    BY <1>3, <1>5, <2>1
  <2>4. ~pkLock'.torn /\ w.at \notin {"save", "forget"} => FileListed(key)'
    BY <1>7
  <2>5. Run(p).at # "rest" /\ Run(p).key = key
    BY <1>1, <1>2, <1>3
  <2>6. QED BY ONLY PkInv, p \in PkProcesses, <1>7, <2>1, <2>2, <2>3, <2>4, <2>5, OwnKey
<1>11. /\ Run(p).at # "rest" /\ Run(p).key = key /\ w.key = key /\ Listed(w.modules)
       /\ w.at \notin {"cache", "copy", "save"}
  BY <1>1, <1>2, <1>3, <1>5, <1>7
<1>12. /\ UNCHANGED Registry /\ Listed(pkLock'.modules) /\ pkCache' \in [PkRefs -> Contents]
       /\ pkLock' \in [torn : BOOLEAN, modules : Lists]
       /\ \A r \in PkRefs : pkCache'[r] # Nothing => <<r, pkCache'[r].of>> \in pkEver
  BY <1>3, <1>4 DEF PkTyped, AllPublished
<1>13. /\ \A got \in pkGot' : GotFits(got) /\ (got \in pkGot \/ got[1] = key)
       /\ pkUpset \subseteq pkUpset'
       /\ \A r \in PkRefs : RefOf(key, r) \/ pkCache'[r] = pkCache[r]
       /\ UNCHANGED pkLock
  BY <1>3 DEF PkInv
<1>14. QED BY <1>7, <1>8, <1>9, <1>10, <1>11, <1>12, <1>13, WorkKeeps

LEMMA CopyKeeps == ASSUME PkInv, NEW p \in PkProcesses, CopyModule(p) PROVE PkInv'
<1>1. PICK run : run = Run(p)
  OBVIOUS
<1>2. PICK key : key = run.key
  OBVIOUS
<1>3. PICK cached : cached = pkCache[run.ref]
  OBVIOUS
<1>4. /\ run.at = "copy" /\ pkFiles' = [pkFiles EXCEPT ![key] = cached]
      /\ UNCHANGED <<Registry, pkCache, pkLock>>
      /\ \/ cached = Nothing /\ RunIs(p, Asleep) /\ pkUpset' = pkUpset \cup {key} /\ UNCHANGED pkGot
         \/ /\ cached # Nothing /\ RunIs(p, [run EXCEPT !.at = "save"])
            /\ pkGot' = pkGot \cup {<<key, run.ref, cached>>} /\ UNCHANGED pkUpset
  BY <1>1, <1>2, <1>3 DEF CopyModule
<1>5. PkTyped /\ AllPublished
  BY DEF PkInv
<1>6. /\ run \in PkRuns /\ RunFits(run) /\ Listed(run.modules) /\ RefOf(key, run.ref) /\ run.ref \in PkRefs
      /\ <<run.ref, run.content.of>> \in pkEver
      /\ key \notin pkUpset =>
           /\ RunSound(run) /\ \A got \in pkGot : got[1] = key => pkCache[got[2]] = got[3]
      /\ key \in PkKeys
  BY <1>1, <1>2, <1>4, MineAlone
<1>7. run.content \in Contents /\ cached \in Contents
  BY <1>3, <1>5, <1>6, RunParts DEF PkTyped
<1>8. PICK w \in PkRuns :
        /\ RunIs(p, w) /\ RunFits(w) /\ (w.at # "rest" => w.key = key) /\ Listed(w.modules)
        /\ \/ w.at = "rest" /\ cached = Nothing /\ pkUpset' = pkUpset \cup {key} /\ UNCHANGED pkGot
           \/ /\ w.at = "save" /\ w.ref = run.ref /\ w.content = run.content /\ cached # Nothing
              /\ pkGot' = pkGot \cup {<<key, run.ref, cached>>} /\ UNCHANGED pkUpset
  <2>1. CASE cached = Nothing
    BY <1>4, <2>1, AsleepIs, EmptyList DEF Listed
  <2>2. CASE cached # Nothing
    <3>1. PICK c \in Contents : c = run.content
      BY <1>7
    <3>2. run \in PkRuns
      BY <1>6
    <3>3. PICK w \in PkRuns :
            /\ w = Onward(run, "save", c)
            /\ w.at = "save" /\ w.content = c /\ w.key = run.key /\ w.ref = run.ref
            /\ w.modules = run.modules /\ w.seen = run.seen
      BY <3>2, Onwards
    <3>4. w = [run EXCEPT !.at = "save"]
      BY <3>1, <3>2, <3>3 DEF PkRuns, Onward
    <3>5. RunFits(w) /\ w.key = key /\ Listed(w.modules)
      BY <1>2, <1>6, <3>3 DEF RunFits
    <3>6. RunIs(p, w) /\ pkGot' = pkGot \cup {<<key, run.ref, cached>>} /\ UNCHANGED pkUpset
      BY <1>4, <2>2, <3>4
    <3>7. QED BY <2>2, <3>1, <3>3, <3>5, <3>6
  <2>3. QED BY <2>1, <2>2
<1>9. /\ pkFiles' \in [PkKeys -> Contents] /\ pkFiles'[key] = cached
      /\ \A k \in PkKeys : k # key => pkFiles'[k] = pkFiles[k]
  BY <1>4, <1>5, <1>6, <1>7 DEF PkTyped
<1>10. ASSUME key \notin pkUpset' PROVE KeySound(key)'
  <2>1. key \in PkKeys \ pkUpset /\ w.at = "save" /\ w.content = run.content /\ cached # Nothing
        /\ pkGot' = pkGot \cup {<<key, run.ref, cached>>}
    BY <1>6, <1>8, <1>10
  <2>2. cached = run.content
    BY <1>3, <1>4, <1>6, <2>1 DEF RunSound
  <2>3. w.at # "rest" => w.key = key /\ RunSound(w)'
    BY <1>8, <1>9, <2>1, <2>2 DEF RunSound
  <2>4. \A got \in pkGot' : got[1] = key => pkCache'[got[2]] = got[3]
    BY <1>3, <1>4, <1>6, <2>1
  <2>5. ~pkLock'.torn /\ w.at \notin {"save", "forget"} => FileListed(key)'
    BY <2>1
  <2>6. Run(p).at # "rest" /\ Run(p).key = key
    BY <1>1, <1>2, <1>4
  <2>7. QED BY ONLY PkInv, p \in PkProcesses, <1>8, <2>1, <2>3, <2>4, <2>5, <2>6, OwnKey
<1>11. /\ Run(p).at # "rest" /\ Run(p).key = key
       /\ w.at \in {"cache", "copy", "save"} => <<w.ref, w.content.of>> \in pkEver
  BY <1>1, <1>2, <1>4, <1>6, <1>8
<1>12. /\ UNCHANGED Registry /\ Listed(pkLock'.modules) /\ pkCache' \in [PkRefs -> Contents]
       /\ pkLock' \in [torn : BOOLEAN, modules : Lists]
       /\ \A r \in PkRefs : pkCache'[r] # Nothing => <<r, pkCache'[r].of>> \in pkEver
  BY <1>4, <1>5 DEF PkTyped, AllPublished
<1>13. \A got \in pkGot' : GotFits(got) /\ (got \in pkGot \/ got[1] = key)
  <2>1. \A got \in pkGot : GotFits(got)
    BY DEF PkInv
  <2>2. cached # Nothing => GotFits(<<key, run.ref, cached>>)
    BY <1>6, <1>7 DEF GotFits
  <2>3. QED BY <1>8, <2>1, <2>2
<1>14. /\ pkUpset \subseteq pkUpset' /\ UNCHANGED pkLock
       /\ \A r \in PkRefs : RefOf(key, r) \/ pkCache'[r] = pkCache[r]
  BY <1>4, <1>8
<1>15. QED BY <1>8, <1>9, <1>10, <1>11, <1>12, <1>13, <1>14, WorkKeeps

LEMMA CrashKeeps == ASSUME PkInv, NEW p \in PkProcesses, PkCrash(p) PROVE PkInv'
<1>1. PICK run : run = Run(p)
  OBVIOUS
<1>2. PICK key : key = run.key
  OBVIOUS
<1>3. /\ run.at \notin {"rest", "pull"} /\ RunIs(p, Asleep) /\ pkUpset' = pkUpset \cup {key}
      /\ UNCHANGED <<Registry, pkGot>>
  BY <1>1, <1>2 DEF PkCrash
<1>4. PkTyped /\ AllPublished
  BY DEF PkInv
<1>5. /\ run \in PkRuns
      /\ run.at \in {"cache", "copy", "save"} => <<run.ref, run.content.of>> \in pkEver
      /\ run.at \in {"pull", "cache", "copy", "save"} => RefOf(key, run.ref) /\ run.ref \in PkRefs
      /\ key \in PkKeys
  BY <1>1, <1>2, <1>3, MineAlone
<1>6. run.content \in Contents
  BY <1>5, RunParts
<1>7. /\ pkCache' \in [PkRefs -> Contents] /\ \A r \in PkRefs : RefOf(key, r) \/ pkCache'[r] = pkCache[r]
      /\ \A r \in PkRefs : pkCache'[r] # Nothing => <<r, pkCache'[r].of>> \in pkEver
  <2>1. CASE run.at = "cache"
    <3>1. pkCache' = [pkCache EXCEPT ![run.ref] = [run.content EXCEPT !.torn = TRUE]]
      BY <1>1, <2>1 DEF PkCrash
    <3>2. PICK c \in Contents : c = run.content
      BY <1>6
    <3>3. PICK torn \in Contents : torn = [c EXCEPT !.torn = TRUE] /\ torn.of = c.of
      <4>1. [c EXCEPT !.torn = TRUE] \in Contents /\ [c EXCEPT !.torn = TRUE].of = c.of
        BY DEF Contents
      <4>2. QED BY <4>1
    <3>4. /\ pkCache' \in [PkRefs -> Contents] /\ pkCache'[run.ref] = torn
          /\ \A r \in PkRefs : r # run.ref => pkCache'[r] = pkCache[r]
      BY <1>4, <1>5, <2>1, <3>1, <3>2, <3>3 DEF PkTyped
    <3>5. QED BY <1>4, <1>5, <2>1, <3>2, <3>3, <3>4 DEF AllPublished
  <2>2. CASE run.at # "cache"
    <3>1. pkCache' = pkCache
      BY <1>1, <2>2 DEF PkCrash
    <3>2. QED BY <1>4, <3>1 DEF PkTyped, AllPublished
  <2>3. QED BY <2>1, <2>2
<1>8. pkFiles' \in [PkKeys -> Contents] /\ \A k \in PkKeys : k # key => pkFiles'[k] = pkFiles[k]
  <2>1. CASE run.at = "copy"
    <3>1. pkFiles' = [pkFiles EXCEPT ![key] = [pkCache[run.ref] EXCEPT !.torn = TRUE]]
      BY <1>1, <1>2, <2>1 DEF PkCrash
    <3>2. PICK c \in Contents : c = pkCache[run.ref]
      BY <1>4, <1>5, <2>1 DEF PkTyped
    <3>3. PICK torn \in Contents : torn = [c EXCEPT !.torn = TRUE]
      BY DEF Contents
    <3>4. pkFiles' = [pkFiles EXCEPT ![key] = torn]
      BY <3>1, <3>2, <3>3
    <3>5. QED BY <1>4, <1>5, <3>4 DEF PkTyped
  <2>2. CASE run.at # "copy"
    <3>1. pkFiles' = pkFiles
      BY <1>1, <2>2 DEF PkCrash
    <3>2. QED BY <1>4, <3>1 DEF PkTyped
  <2>3. QED BY <2>1, <2>2
<1>9. /\ pkLock' \in [torn : BOOLEAN, modules : Lists] /\ pkLock'.modules = pkLock.modules
      /\ pkLock'.torn \/ UNCHANGED pkLock
  <2>1. pkLock' = (IF run.at \in {"save", "forget"} THEN [pkLock EXCEPT !.torn = TRUE] ELSE pkLock)
    BY <1>1 DEF PkCrash
  <2>2. pkLock \in [torn : BOOLEAN, modules : Lists]
    BY <1>4 DEF PkTyped
  <2>3. QED BY <2>1, <2>2
<1>10. Run(p).at # "rest" /\ Run(p).key = key
  BY <1>1, <1>2, <1>3
<1>11. /\ UNCHANGED Registry /\ Listed(pkLock'.modules) /\ pkUpset \subseteq pkUpset' /\ key \in pkUpset'
       /\ \A got \in pkGot' : GotFits(got) /\ (got \in pkGot \/ got[1] = key)
  BY <1>3, <1>4, <1>9 DEF AllPublished, PkInv
<1>12. /\ Asleep \in PkRuns /\ Asleep.at = "rest" /\ RunFits(Asleep) /\ Listed(Asleep.modules) /\ RunIs(p, Asleep)
  BY <1>3, AsleepIs, EmptyList DEF Listed
<1>13. QED BY <1>7, <1>8, <1>9, <1>10, <1>11, <1>12, WorkKeeps

\* What a command makes of the modules it loaded.
LEMMA RewrittenIs ==
    ASSUME NEW run \in PkRuns, run.key \in PkKeys, run.at = "save" => run.ref \in PkRefs,
           run.at \in {"save", "forget"}
    PROVE  /\ Rewritten(run) \in Lists
           /\ run.at = "forget" => DOMAIN Rewritten(run) = DOMAIN run.modules \ {run.key}
           /\ run.at = "save" => /\ DOMAIN Rewritten(run) = DOMAIN run.modules \cup {run.key}
                                 /\ Rewritten(run)[run.key] =
                                      [repo |-> run.ref[1], tag |-> run.ref[2], content |-> run.content]
           /\ \A k \in DOMAIN Rewritten(run) : k # run.key => Rewritten(run)[k] = run.modules[k]
<1>1. PICK key \in PkKeys : key = run.key
  OBVIOUS
<1>2. PICK old \in Lists : old = run.modules
  BY RunParts
<1>3. PICK content \in Contents : content = run.content
  BY RunParts
<1>4. DOMAIN old \subseteq PkKeys /\ \A k \in DOMAIN old : old[k] \in PkEntries
  BY ListParts
<1>5. CASE run.at = "forget"
  <2>1. Rewritten(run) = [k \in DOMAIN old \ {key} |-> old[k]]
    BY <1>1, <1>2, <1>5 DEF Rewritten
  <2>2. [k \in DOMAIN old \ {key} |-> old[k]] \in [DOMAIN old \ {key} -> PkEntries]
    BY <1>4
  <2>3. Rewritten(run) \in Lists
    BY <1>4, <2>1, <2>2, MakesList
  <2>4. QED BY <1>1, <1>2, <1>5, <2>1, <2>3
<1>6. CASE run.at = "save"
  <2>1. PICK entry \in PkEntries : entry = [repo |-> run.ref[1], tag |-> run.ref[2], content |-> content]
    BY <1>6 DEF PkEntries
  <2>2. Rewritten(run) = [k \in DOMAIN old \cup {key} |-> IF k = key THEN entry ELSE old[k]]
    BY <1>1, <1>2, <1>3, <1>6, <2>1 DEF Rewritten
  <2>3. [k \in DOMAIN old \cup {key} |-> IF k = key THEN entry ELSE old[k]] \in [DOMAIN old \cup {key} -> PkEntries]
    BY <1>4
  <2>4. Rewritten(run) \in Lists
    BY <1>4, <2>2, <2>3, MakesList
  <2>5. Rewritten(run)[key] = entry
    BY <2>2
  <2>6. QED BY <1>1, <1>2, <1>3, <1>6, <2>1, <2>2, <2>4, <2>5
<1>7. QED BY <1>5, <1>6

LEMMA SaveKeeps == ASSUME PkInv, NEW p \in PkProcesses, SaveLock(p) PROVE PkInv'
<1>1. PICK run : run = Run(p)
  OBVIOUS
<1>2. PICK key : key = run.key
  OBVIOUS
<1>3. /\ run.at \in {"save", "forget"} /\ pkLock' = [torn |-> FALSE, modules |-> Rewritten(run)]
      /\ pkUpset' = pkUpset \cup (IF pkLock.torn THEN PkKeys ELSE Trampled(run, pkLock.modules))
      /\ RunIs(p, Asleep) /\ UNCHANGED <<Registry, pkCache, pkFiles, pkGot>>
  BY <1>1 DEF SaveLock
<1>4. PkTyped /\ AllPublished
  BY DEF PkInv
<1>5. /\ run \in PkRuns /\ RunFits(run) /\ Listed(run.modules)
      /\ run.at = "save" => <<run.ref, run.content.of>> \in pkEver /\ RefOf(key, run.ref) /\ run.ref \in PkRefs
      /\ key \notin pkUpset =>
           /\ RunSound(run) /\ \A got \in pkGot : got[1] = key => pkCache[got[2]] = got[3]
      /\ key \in PkKeys
  BY <1>1, <1>2, <1>3, MineAlone
<1>6. PICK new : new = Rewritten(run)
  OBVIOUS
<1>7. /\ new \in Lists
      /\ run.at = "forget" => DOMAIN new = DOMAIN run.modules \ {key}
      /\ run.at = "save" => /\ DOMAIN new = DOMAIN run.modules \cup {key}
                            /\ new[key] = [repo |-> run.ref[1], tag |-> run.ref[2], content |-> run.content]
      /\ \A k \in DOMAIN new : k # key => new[k] = run.modules[k]
  BY <1>2, <1>3, <1>5, <1>6, RewrittenIs
<1>8. pkLock' \in [torn : BOOLEAN, modules : Lists] /\ pkLock'.modules = new /\ ~pkLock'.torn
  BY <1>3, <1>6, <1>7
<1>9. Listed(pkLock'.modules)
  <2>1. run.at = "save" => run.ref = <<run.ref[1], run.ref[2]>>
    BY <1>5, RefsOfKeys
  <2>2. run.at = "save" => <<<<new[key].repo, new[key].tag>>, new[key].content.of>> \in pkEver
    BY <1>5, <1>7, <2>1
  <2>3. ASSUME NEW k \in DOMAIN new
        PROVE  <<<<new[k].repo, new[k].tag>>, new[k].content.of>> \in pkEver
    <3>1. CASE k = key
      BY <1>3, <1>7, <2>2, <2>3, <3>1
    <3>2. CASE k # key
      <4>1. k \in DOMAIN run.modules /\ new[k] = run.modules[k]
        BY <1>3, <1>7, <2>3, <3>2
      <4>2. QED BY <1>5, <4>1 DEF Listed
    <3>3. QED BY <3>1, <3>2
  <2>4. QED BY <1>8, <2>3 DEF Listed
<1>10. ASSUME key \notin pkUpset' PROVE KeySound(key)'
  <2>1. key \in PkKeys \ pkUpset
    BY <1>3, <1>5, <1>10
  <2>2. Asleep.at # "rest" => Asleep.key = key /\ RunSound(Asleep)'
    BY AsleepIs
  <2>3. \A got \in pkGot' : got[1] = key => pkCache'[got[2]] = got[3]
    BY <1>3, <1>5, <2>1
  <2>4. FileListed(key)'
    <3>1. run.at = "save" => pkFiles[key] = run.content /\ key \in DOMAIN new /\ new[key].content = run.content
      BY <1>2, <1>5, <1>7, <2>1 DEF RunSound
    <3>2. run.at = "forget" => pkFiles[key] = Nothing /\ key \notin DOMAIN new
      BY <1>2, <1>5, <1>7, <2>1 DEF RunSound
    <3>3. pkFiles' = pkFiles /\ pkLock'.modules = new
      BY <1>3, <1>8
    <3>4. QED BY <1>3, <3>1, <3>2, <3>3 DEF FileListed
  <2>5. Run(p).at # "rest" /\ Run(p).key = key /\ RunIs(p, Asleep) /\ Asleep \in PkRuns
    BY <1>1, <1>2, <1>3, AsleepIs
  <2>6. QED BY ONLY PkInv, p \in PkProcesses, <2>1, <2>2, <2>3, <2>4, <2>5, OwnKey
<1>11. ASSUME NEW k \in PkKeys \ pkUpset', k # key
       PROVE  /\ ~pkLock.torn /\ (k \in DOMAIN pkLock'.modules <=> k \in DOMAIN pkLock.modules)
              /\ k \in DOMAIN pkLock.modules => pkLock'.modules[k] = pkLock.modules[k]
  <2>1. PICK now : now = pkLock.modules
    OBVIOUS
  <2>2. ~pkLock.torn /\ k \notin Trampled(run, now)
    BY <1>3, <1>11, <2>1
  <2>3. /\ k \in DOMAIN run.seen <=> k \in DOMAIN now
        /\ k \in DOMAIN now => run.seen[k] = now[k]
    BY <2>2 DEF Trampled
  <2>4. run.modules = run.seen
    BY <1>5 DEF RunFits
  <2>5. k \in DOMAIN new <=> k \in DOMAIN run.modules
    BY <1>3, <1>7, <1>11
  <2>6. k \in DOMAIN now => new[k] = now[k]
    BY <1>7, <1>11, <2>3, <2>4, <2>5
  <2>7. QED BY <1>8, <2>1, <2>2, <2>3, <2>4, <2>5, <2>6
<1>12. /\ Run(p).at # "rest" /\ Run(p).key = key /\ RunIs(p, Asleep) /\ Asleep \in PkRuns
       /\ Asleep.at = "rest" /\ RunFits(Asleep) /\ Listed(Asleep.modules)
  BY <1>1, <1>2, <1>3, AsleepIs, EmptyList DEF Listed
<1>13. /\ UNCHANGED Registry /\ pkCache' \in [PkRefs -> Contents] /\ pkFiles' \in [PkKeys -> Contents]
       /\ \A r \in PkRefs : pkCache'[r] # Nothing => <<r, pkCache'[r].of>> \in pkEver
  BY <1>3, <1>4 DEF PkTyped, AllPublished
<1>14. /\ \A got \in pkGot' : GotFits(got) /\ (got \in pkGot \/ got[1] = key)
       /\ pkUpset \subseteq pkUpset'
       /\ \A k \in PkKeys : k # key => pkFiles'[k] = pkFiles[k]
       /\ \A r \in PkRefs : RefOf(key, r) \/ pkCache'[r] = pkCache[r]
  BY <1>3 DEF PkInv
<1>15. QED BY <1>8, <1>9, <1>10, <1>11, <1>12, <1>13, <1>14, WorkKeeps

LEMMA PackagesStep == PkInv /\ [PackagesNext]_pkVars => PkInv'
<1> SUFFICES ASSUME PkInv, [PackagesNext]_pkVars PROVE PkInv'
  OBVIOUS
<1>1. CASE UNCHANGED pkVars
  BY <1>1 DEF pkVars, PkInv, PkTyped, AllPublished, Listed, RunFits, GotFits, KeySound, AtWork, RunSound,
              FileListed, Run
<1>2. ASSUME NEW r \in PkRefs, PushBlob(r) PROVE PkInv'
  BY <1>2, PushBlobKeeps
<1>3. ASSUME NEW p \in PkProcesses, NEW s \in PkSpecs, NEW force \in BOOLEAN, InstallModule(p, s, force)
      PROVE  PkInv'
  BY <1>3, InstallKeeps
<1>4. ASSUME NEW p \in PkProcesses, NEW k \in PkKeys, UpdateModule(p, k) \/ UninstallModule(p, k) PROVE PkInv'
  BY <1>4, UpdateKeeps, UninstallKeeps
<1>5. ASSUME NEW p \in PkProcesses,
             PullModule(p) \/ FillCache(p) \/ CopyModule(p) \/ UnlinkModule(p) \/ SaveLock(p) \/ PkCrash(p)
      PROVE  PkInv'
  BY <1>5, PullKeeps, FillKeeps, CopyKeeps, UnlinkKeeps, SaveKeeps, CrashKeeps
<1>6. QED BY <1>1, <1>2, <1>3, <1>4, <1>5, PushManifestKeeps, ClearCacheKeeps DEF PackagesNext

LEMMA PackagesInductive == PackagesSpec => []PkInv
BY PackagesStart, PackagesStep, PTL DEF PackagesSpec

LEMMA PackagesFine == PkInv => PackagesAreSound
<1> SUFFICES ASSUME PkInv PROVE PackagesAreSound
  OBVIOUS
<1>1. LockMatchesFiles
  <2> SUFFICES ASSUME \A p \in PkProcesses : Run(p).at = "rest", ~pkLock.torn, NEW k \in PkKeys \ pkUpset
               PROVE  FileListed(k)
    BY DEF LockMatchesFiles, FileListed
  <2>1. KeySound(k)
    BY DEF PkInv
  <2>2. QED BY <2>1 DEF KeySound, AtWork
<1>2. TagsAreFrozen
  <2> SUFFICES ASSUME NEW g \in pkGot, NEW h \in pkGot, g[2] = h[2], g[1] \notin pkUpset PROVE g = h
    BY DEF TagsAreFrozen
  <2>1. GotFits(g) /\ GotFits(h)
    BY DEF PkInv
  <2>2. g[1] = h[1] /\ g[1] \in PkKeys
    BY <2>1, OneKey, RefsOfKeys DEF GotFits
  <2>3. KeySound(g[1])
    BY <2>2 DEF PkInv
  <2>4. g[3] = h[3]
    BY <2>2, <2>3 DEF KeySound
  <2>5. QED BY <2>1, <2>2, <2>4 DEF GotFits
<1>3. InstalledWasPublished
  BY DEF PkInv, AllPublished, Listed, InstalledWasPublished
<1>4. QED BY <1>1, <1>2, <1>3 DEF PackagesAreSound

\* The registry and the tools' directories agree, and host_functions.json with them but for
\* the tools whose entry was not written or was lost; lockfile, module directory and
\* registry of packages agree unless commands overlap or fail half-way
\* (tool_installer.py:482-599, 823-866, hlfpm.py).
THEOREM InstallsAgree == ToolSpec /\ PackagesSpec => []InstallsMatch
<1>1. ToolInv /\ PkInv => InstallsMatch
  BY ToolsMatch, PackagesFine DEF InstallsMatch
<1>2. QED BY <1>1, ToolInductive, PackagesInductive, PTL
=============================================================================
