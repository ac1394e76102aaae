------------------------------- MODULE HlfVm -------------------------------
(* hlf/bytecode.py: BytecodeCompiler translates a tree into instructions with
   patched jumps, and HlfVM runs them on a stack under a gas limit.  Values keep
   what the VM tells apart: numbers (a bool is one), text, result lists.  The
   constant pool, the binary layout and its checksum are left out: an operand
   is the constant it indexes. *)
EXTENDS Integers, Sequences

CONSTANTS VmPrograms,   \* the syntax trees to run
          GasLimits     \* the values of max_gas

VARIABLES vmTree, vmCode, vmLimit,  \* the input: a tree, compiled, and max_gas
          vmIp, vmStack, vmGas,  \* ip (in instructions), stack, gas_used
          vmScope, vmImmut,      \* scope, immutables
          vmEnd                  \* "" while running, then how execute() ended
vmVars == <<vmTree, vmCode, vmLimit, vmIp, vmStack, vmGas, vmScope, vmImmut, vmEnd>>

Num(n) == <<"num", n>>
Bool(b) == Num(IF b THEN 1 ELSE 0)
Text(x) == <<"text", x>>
\* _to_num: text that is no number counts as 0.
ToNum(v) == IF v[1] = "num" THEN v[2] ELSE 0
Truthy(v) == v \notin {Num(0), <<"list", 0>>}

-----------------------------------------------------------------------------
(* The compiler.  Code is a sequence of <<opcode, operand>>. *)
Push(v) == <<"PUSH_CONST", v>>
Binary == {"ADD", "SUB", "DIV", "MOD", "CMP_EQ", "CMP_LT", "AND", "OR"}

\* _compile_expression: postfix, left operand first.
RECURSIVE CompileExpression(_)
CompileExpression(e) ==
  CASE e.op = "const" -> <<Push(e.value)>>
    [] e.op = "ref" -> << <<"LOAD", e.name>> >>
    [] e.op = "NOT" -> Append(CompileExpression(e.left), <<"NOT", 0>>)
    [] OTHER -> CompileExpression(e.left) \o CompileExpression(e.right) \o << <<e.op, 0>> >>

\* Mutant: JMP over the else branch is patched one instruction too far.
JumpTooFar(base, then, else) == <<"JMP", base + Len(then) + 1 + Len(else) + 1>>
JumpOver(base, then, else) == <<"JMP", base + Len(then) + 1 + Len(else)>>
Branch(target) == <<"JZ", target>>

\* _compile_node and its _emit_ handlers: the code of a node placed at base.
\* Arguments precede their count, which precedes the call.
RECURSIVE CompileNodes(_, _)
CompileNode(node, base) ==
  CASE node.tag = "SET" -> <<Push(node.value), <<"STORE_IMMUT", node.name>> >>
    [] node.tag = "ASSIGN" -> Append(CompileExpression(node.rhs), <<"STORE", node.name>>)
    [] node.tag = "INTENT" -> <<Push(Text("action")), Push(Text("target")), <<"INTENT", "action">> >>
    [] node.tag = "RESULT" -> <<Push(node.value), Push(Text("ok")), <<"RESULT", 0>> >>
    [] node.tag \in {"CALL_BUILTIN", "CALL_HOST", "CALL_TOOL"} ->
         [i \in 1..node.args |-> Push(Text("arg"))] \o <<Push(Num(node.args)), <<node.tag, "f">> >>
    [] node.tag = "MEMORY" -> <<Push(Num(1)), Push(Text("content")), <<"MEMORY_STORE", "m">> >>
    [] node.tag = "RECALL" -> <<Push(Num(node.topK)), <<"MEMORY_RECALL", "m">> >>
    [] node.tag = "THOUGHT" -> <<Push(Text("thought")), <<"TAG", "THOUGHT">> >>
    [] node.tag = "IF" ->
         LET test == CompileExpression(node.condition)
             body == base + Len(test) + 1
             then == CompileNodes(node.then, body)
             else == CompileNodes(node.else, body + Len(then) + 1)
         IN IF node.else = <<>>
            THEN test \o <<Branch(body + Len(then))>> \o then
            ELSE test \o <<Branch(body + Len(then) + 1)>> \o then
                   \o <<JumpOver(body, then, else)>> \o else
    [] OTHER -> << <<"TAG", node.tag>> >>     \* no handler: the tag alone
CompileNodes(nodes, base) ==
  IF nodes = <<>> THEN <<>>
  ELSE LET first == CompileNode(Head(nodes), base)
       IN first \o CompileNodes(Tail(nodes), base + Len(first))
\* compile
Compile(tree) == Append(CompileNodes(tree, 0), <<"HALT", 0>>)

-----------------------------------------------------------------------------
(* The machine. *)
\* _OP_GAS
OpGas(op) == CASE op \in {"CALL_TOOL", "MEMORY_STORE", "MEMORY_RECALL"} -> 3
               [] op = "CALL_BUILTIN" -> 2 [] op = "CALL_HOST" -> 5
               [] op = "HALT" -> 0 [] OTHER -> 1

HlfVmInit ==
  /\ vmTree \in VmPrograms /\ vmCode = Compile(vmTree) /\ vmLimit \in GasLimits
  /\ vmIp = 0 /\ vmStack = <<>> /\ vmGas = 0
  /\ vmScope = <<>> /\ vmImmut = {} /\ vmEnd = ""

Instr == vmCode[vmIp + 1]
Depth == Len(vmStack)
Top(n) == vmStack[Depth - n]
Below(n) == SubSeq(vmStack, 1, Depth - n)
Lookup(scope, x, default) == IF x \in DOMAIN scope THEN scope[x] ELSE default
Bind(scope, x, v) == [y \in DOMAIN scope \cup {x} |-> IF y = x THEN v ELSE scope[y]]

\* How many values an instruction takes off the stack (_pop); a call takes its
\* count and then that many.
Pops(instr) ==
  CASE instr[1] \in {"PUSH_CONST", "LOAD", "JMP", "HALT"} -> 0
    [] instr[1] \in Binary \cup {"INTENT", "RESULT", "MEMORY_STORE"} -> 2
    [] instr[1] \in {"CALL_BUILTIN", "CALL_HOST", "CALL_TOOL"} ->
         IF Depth = 0 THEN 1 ELSE 1 + ToNum(Top(0))
    [] instr[1] = "TAG" -> IF Depth = 0 THEN 0 ELSE 1
    [] OTHER -> 1

\* The arithmetic, comparison and logic opcodes; "zero" is a division by zero.
\* A true division is whole for the divisors 0 and 1 of the inputs.
Apply(op, a, b) ==
  CASE op = "ADD" -> Num(ToNum(a) + ToNum(b))
    [] op = "SUB" -> Num(ToNum(a) - ToNum(b))
    [] op \in {"DIV", "MOD"} /\ ToNum(b) = 0 -> <<"zero", 0>>
    [] op = "DIV" /\ ToNum(b) # 0 -> Num(ToNum(a) \div ToNum(b))
    [] op = "MOD" /\ ToNum(b) # 0 -> Num(ToNum(a) % ToNum(b))
    [] op = "CMP_EQ" -> Bool(a = b)
    [] op = "CMP_LT" -> Bool(ToNum(a) < ToNum(b))
    [] op = "AND" -> Bool(Truthy(a) /\ Truthy(b))
    [] op = "OR" -> Bool(Truthy(a) \/ Truthy(b))
Operate(op) == Apply(op, Top(1), Top(0))

RECALL == Bind(vmScope, "RECALL_m",
  <<"list", LET k == ToNum(Top(0)) n == Lookup(vmScope, "MEMORY_m", <<"list", 0>>)[2]
            IN IF k < n THEN k ELSE n>>)

\* What an instruction leaves on the stack, above what it did not take.
Pushed(instr) ==
  CASE instr[1] = "PUSH_CONST" -> <<instr[2]>>
    [] instr[1] = "LOAD" -> <<Lookup(vmScope, instr[2], Text(instr[2]))>>
    [] instr[1] \in Binary -> <<Operate(instr[1])>>
    [] instr[1] = "NOT" -> <<Bool(~Truthy(Top(0)))>>
    [] instr[1] = "MEMORY_RECALL" -> <<RECALL["RECALL_m"]>>
    [] OTHER -> <<>>

Scoped(instr) ==
  CASE instr[1] \in {"STORE", "STORE_IMMUT"} -> Bind(vmScope, instr[2], Top(0))
    [] instr[1] = "CALL_BUILTIN" -> Bind(vmScope, "f_RESULT", Text("result"))
    [] instr[1] = "MEMORY_STORE" ->
         Bind(vmScope, "MEMORY_m", <<"list", Lookup(vmScope, "MEMORY_m", <<"list", 0>>)[2] + 1>>)
    [] instr[1] = "MEMORY_RECALL" -> RECALL
    [] OTHER -> vmScope

Fetchable == vmEnd = "" /\ vmIp < Len(vmCode)
Charge(instr) == vmGas + OpGas(instr[1])
Stop(why) == vmEnd' = why /\ UNCHANGED <<vmTree, vmCode, vmLimit, vmStack, vmScope, vmImmut>>

Exhausted(instr) == Charge(instr) > vmLimit

\* The gas is charged, then compared: the counter of a refused run is over the limit.
VmGasOut ==
  /\ Fetchable /\ Exhausted(Instr)
  /\ vmGas' = Charge(Instr) /\ vmIp' = vmIp + 1 /\ Stop("gas")

Faults(instr) ==
  \/ Depth < Pops(instr)
  \/ instr[1] \in Binary /\ Operate(instr[1])[1] = "zero"
  \/ instr[1] = "STORE" /\ instr[2] \in vmImmut
\* _pop on an empty stack, a division by zero, STORE to an immutable.
VmFaults ==
  /\ Fetchable /\ ~Exhausted(Instr) /\ Faults(Instr)
  /\ vmGas' = Charge(Instr) /\ vmIp' = vmIp + 1
  /\ Stop(IF Depth < Pops(Instr) THEN "underflow" ELSE "raised")

\* One round of execute()'s loop with _dispatch.
VmStep ==
  /\ Fetchable /\ ~Exhausted(Instr) /\ ~Faults(Instr)
  /\ vmGas' = Charge(Instr)
  /\ vmIp' = IF Instr[1] = "JMP" \/ (Instr[1] = "JZ" /\ ~Truthy(Top(0))) THEN Instr[2]
             ELSE vmIp + 1
  /\ vmStack' = Below(Pops(Instr)) \o Pushed(Instr)
  /\ vmScope' = Scoped(Instr)
  /\ vmImmut' = IF Instr[1] = "STORE_IMMUT" THEN vmImmut \cup {Instr[2]} ELSE vmImmut
  /\ vmEnd' = CASE Instr[1] = "RESULT" -> "result" [] Instr[1] = "HALT" -> "halt" [] OTHER -> ""
  /\ UNCHANGED <<vmTree, vmCode, vmLimit>>

HlfVmNext == VmGasOut \/ VmFaults \/ VmStep

-----------------------------------------------------------------------------
(* The meaning of a tree, evaluated without code, stack or jumps. *)
RECURSIVE Value(_, _)
Value(e, scope) ==
  CASE e.op = "const" -> e.value
    [] e.op = "ref" -> Lookup(scope, e.name, Text(e.name))
    [] e.op = "NOT" -> Bool(~Truthy(Value(e.left, scope)))
    [] OTHER -> Apply(e.op, Value(e.left, scope), Value(e.right, scope))

RECURSIVE Meaning(_, _)
Meaning(nodes, s) ==
  IF nodes = <<>> \/ s.end # "" THEN s
  ELSE LET node == Head(nodes)
           memories == Lookup(s.scope, "MEMORY_m", <<"list", 0>>)[2]
           Put(x, v) == [s EXCEPT !.scope = Bind(s.scope, x, v)]
           After == CASE node.tag = "SET" -> [Put(node.name, node.value) EXCEPT !.immut = @ \cup {node.name}]
             [] node.tag = "ASSIGN" ->
                  IF Value(node.rhs, s.scope)[1] = "zero" \/ node.name \in s.immut
                  THEN [s EXCEPT !.end = "raised"] ELSE Put(node.name, Value(node.rhs, s.scope))
             [] node.tag = "RESULT" -> [s EXCEPT !.end = "result"]
             [] node.tag = "CALL_BUILTIN" -> Put("f_RESULT", Text("result"))
             [] node.tag = "MEMORY" -> Put("MEMORY_m", <<"list", memories + 1>>)
             [] node.tag = "RECALL" -> Put("RECALL_m", <<"list", IF node.topK < memories THEN node.topK ELSE memories>>)
             [] node.tag = "IF" -> IF Value(node.condition, s.scope)[1] = "zero" THEN [s EXCEPT !.end = "raised"]
                  ELSE Meaning(IF Truthy(Value(node.condition, s.scope)) THEN node.then ELSE node.else, s)
             [] OTHER -> s
       IN Meaning(Tail(nodes), After)
MeaningOf(tree) == Meaning(tree, [scope |-> <<>>, immut |-> {}, end |-> ""])

\* A run that the gas limit does not cut short ends as its tree means, with the
\* variables its tree gives: the jumps, the operand order and the immutability
\* check of the compiled code agree with the source.
CompiledMeansSource ==
  vmEnd \in {"result", "halt", "raised"} =>
    /\ vmEnd = "raised" <=> MeaningOf(vmTree).end = "raised"
    /\ vmEnd = "result" <=> MeaningOf(vmTree).end = "result"
    /\ vmScope = MeaningOf(vmTree).scope

\* The code of a tree never pops an empty stack, and a run that ends leaves
\* nothing on it but the lists of RECALL, which no instruction takes back
\* except a bare TAG (_dispatch, TAG: "if self.stack").
StackIsBalanced ==
  /\ vmEnd # "underflow"
  /\ vmEnd \in {"result", "halt"} => \A i \in DOMAIN vmStack : vmStack[i][1] = "list"

\* The instructions that took effect cost at most max_gas, and a refused one
\* puts the counter over it by less than its own price.
GasIsBounded ==
  IF vmEnd = "gas" THEN vmGas > vmLimit /\ vmGas - vmLimit <= 5 ELSE vmGas <= vmLimit

\* Compiled programs do what their trees mean, within the gas they are given.
VmRunsTheSource == CompiledMeansSource /\ StackIsBalanced /\ GasIsBounded
=============================================================================
