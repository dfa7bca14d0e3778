--------------------------- MODULE GeneratorProofs ---------------------------
(***************************************************************************)
(* Theorems about the code generator, for every set of nodes and trees.    *)
(*                                                                         *)
(* What makes them hard is the distance between a test and what relies on  *)
(* it: GenVarDef looks a name up before its expression is generated and    *)
(* enters it afterwards, GenAsgn keeps an entry of the registry meanwhile. *)
(* The invariant says what may lie between: while an entry or a store is   *)
(* pending, every task before it is part of an expression (Ordered), and   *)
(* none of those touches the registry's names.                             *)
(***************************************************************************)
EXTENDS Machine, FiniteSetTheorems, TLAPS

Pure == {"expr", "push", "pop", "text", "count", "numbered", "store", "fail"}

Ordered(s) ==
  \A k \in 1 .. Len(s) :
    s[k].do \in {"register", "store"} =>
      \A j \in 1 .. k - 1 : s[j].do \in Pure

Pending(s, V) ==
  \A k \in 1 .. Len(s) :
    /\ s[k].do = "store" => s[k].index \in 1 .. Len(V)
    /\ s[k].do = "register" =>
         \A i \in 1 .. Len(V) : V[i].Ident # s[k].var.Ident

(* A scope is begun as soon as it is queued, so every end that is queued   *)
(* belongs to an open scope, but for that of a loop about to begin.        *)
Ends(s) == {k \in 1 .. Len(s) : s[k].do = "end"}

Balanced(s, n) ==
  /\ \A k \in 2 .. Len(s) : s[k].do # "begin"
  /\ Cardinality(Ends(s)) =
       n + (IF s # <<>> /\ s[1].do = "begin" THEN 1 ELSE 0)

Nested ==
  \A i \in 1 .. Len(ScopeRegistry) :
    /\ ScopeRegistry[i] <= Len(VarRegistry)
    /\ \A j \in i .. Len(ScopeRegistry) : ScopeRegistry[i] <= ScopeRegistry[j]

Queued(s, V, n) ==
  s \in Seq(Task) /\ Ordered(s) /\ Pending(s, V) /\ Balanced(s, n)

IInv ==
  /\ TypeOK /\ NamesUnique /\ Nested
  /\ Queued(todo, VarRegistry, Len(ScopeRegistry))

-----------------------------------------------------------------------------
(* What a task holds is determined by what it does.                        *)
LEMMA TaskFields ==
  ASSUME NEW t \in Task
  PROVE  /\ t.do = "stmt" => t.node \in StmtNodes
         /\ t.do = "expr" => t.node \in ExprNodes
         /\ t.do \in {"push", "pop", "text"} => t.ins \in Instr
         /\ t.do = "count" => t.id \in Counters
         /\ t.do = "numbered" => t.ins \in Instr /\ t.id \in Counters /\ t.loc \in Locals
         /\ t.do = "register" =>
              t.var \in [Ident : STRING, IsMutable : BOOLEAN, IsInit : BOOLEAN]
         /\ t.do = "store" => t.index \in Nat
BY DEF Task

(* The constructors of tasks.                                              *)
LEMMA InstrType ==
  /\ \A op \in Mnemonics, a, b \in Registers : Ins(op, a, b) \in Instr
  /\ \A op \in Mnemonics, a \in Registers, n \in Int : Imm(op, a, n) \in Instr
  /\ \A op \in Mnemonics, x \in Locals : ToLocal(op, x) \in Instr
<1>1. \A x \in Locals : At(None, 0, x) \in Labels
  BY DEF At, Labels
<1>2. NoLabel \in Labels /\ None \in Registers
  BY <1>1 DEF NoLabel, Locals, Registers
<1>3. 0 \in Int
  OBVIOUS
<1>4. ASSUME NEW op \in Mnemonics, NEW a \in Registers, NEW b \in Registers,
             NEW n \in Int, NEW to \in Labels
      PROVE  [op |-> op, a |-> a, b |-> b, n |-> n, to |-> to] \in Instr
  BY DEF Instr
<1>5. \A op \in Mnemonics, a, b \in Registers : Ins(op, a, b) \in Instr
  BY <1>2, <1>3, <1>4 DEF Ins
<1>6. \A op \in Mnemonics, a \in Registers, n \in Int : Imm(op, a, n) \in Instr
  BY <1>2, <1>4 DEF Imm
<1>7. \A op \in Mnemonics, x \in Locals : ToLocal(op, x) \in Instr
  BY <1>1, <1>2, <1>3, <1>4 DEF ToLocal
<1> QED  BY <1>5, <1>6, <1>7

LEMMA TaskType ==
  /\ \A n \in StmtNodes : Stmt(n) \in Task
  /\ \A n \in ExprNodes : Expr(n) \in Task
  /\ \A i \in Instr : Push(i) \in Task /\ Text(i) \in Task
  /\ \A r \in Registers : Pop(r) \in Task
  /\ \A c \in Counters : Count(c) \in Task /\ Label(c) \in Task
  /\ \A op \in Mnemonics, x \in Locals, c \in Counters : Numbered(op, c, x) \in Task
  /\ Begin \in Task /\ End \in Task /\ Fail \in Task
<1>1. \A n \in StmtNodes : Stmt(n) \in Task
  BY DEF Stmt, Task
<1>2. \A n \in ExprNodes : Expr(n) \in Task
  BY DEF Expr, Task
<1>3. \A i \in Instr : Push(i) \in Task /\ Text(i) \in Task
  BY DEF Push, Text, Task
<1>4. \A r \in Registers : Pop(r) \in Task
  BY InstrType DEF Pop, Task, Registers, Mnemonics
<1>5. \A op \in Mnemonics, x \in Locals, c \in Counters : Numbered(op, c, x) \in Task
  <2> TAKE op \in Mnemonics, x \in Locals, c \in Counters
  <2>1. Ins(op, None, None) \in Instr
    BY InstrType DEF Registers
  <2> QED  BY <2>1 DEF Numbered, Task
<1>6. \A c \in Counters : Count(c) \in Task /\ Label(c) \in Task
  BY <1>5 DEF Count, Label, Task, Mnemonics, Locals
<1>7. Begin \in Task /\ End \in Task /\ Fail \in Task
  BY DEF Begin, End, Fail, Task
<1> QED  BY <1>1, <1>2, <1>3, <1>4, <1>5, <1>6, <1>7

(* Most tasks register, store, begin and end nothing, and most of those    *)
(* are part of expressions.  A loop is a Begin, plain tasks and an End.    *)
PlainTasks == {t \in Task : t.do \notin {"register", "store", "begin", "end"}}
PureTasks  == {t \in PlainTasks : t.do \in Pure}

Loop(p) ==
  /\ p \in Seq(Task) /\ Len(p) > 1
  /\ p[1].do = "begin" /\ p[Len(p)].do = "end"
  /\ \A k \in 2 .. Len(p) - 1 : p[k] \in PlainTasks

LEMMA TaskClass ==
  /\ \A n \in StmtNodes : Stmt(n) \in PlainTasks
  /\ \A n \in ExprNodes : Expr(n) \in PureTasks
  /\ \A i \in Instr : Push(i) \in PureTasks /\ Text(i) \in PureTasks
  /\ \A r \in Registers : Pop(r) \in PureTasks
  /\ \A c \in Counters : Count(c) \in PureTasks /\ Label(c) \in PureTasks
  /\ \A op \in Mnemonics, x \in Locals, c \in Counters :
       Numbered(op, c, x) \in PureTasks
  /\ Fail \in PureTasks
  /\ PureTasks \subseteq PlainTasks
BY TaskType
   DEF PlainTasks, PureTasks, Pure, Stmt, Expr, Push, Pop, Text, Count, Label,
       Numbered, Fail

(* The children of a node are nodes of the kinds its kind asks for.        *)
LEMMA Kids ==
  ASSUME NEW n \in Nodes
  PROVE  /\ n.nt \in {"BinExpr", "Interval"} =>
              n.kids[1] \in ExprNodes /\ n.kids[2] \in ExprNodes
         /\ n.nt \in {"Asgn", "VarDef", "Exit"} => n.kids[1] \in ExprNodes
         /\ n.nt \in {"If", "While"} =>
              n.kids[1] \in ExprNodes /\ n.kids[2] \in StmtNodes
         /\ n.nt = "For" =>
              /\ n.kids[1] \in StmtNodes /\ n.kids[2] \in ExprNodes
              /\ n.kids[3] \in StmtNodes
         /\ n.nt = "Scope" =>
              /\ n.kids \in Seq(Nodes)
              /\ \A i \in 1 .. Len(n.kids) : n.kids[i] \in StmtNodes
<1>1. WellFormed(n)
  BY GeneratorAssumption
<1>2. n.kids \in Seq(Nodes)
  BY <1>1 DEF WellFormed
<1>3. \A i \in 1 .. Len(n.kids) : n.kids[i] \in Nodes
  BY <1>2
<1>4. CASE n.nt = "Scope"
  BY <1>1, <1>2, <1>3, <1>4 DEF WellFormed, StmtNodes
<1>5. CASE n.nt \in {"BinExpr", "Interval"}
  <2>1. Children[n.nt] = <<ExprKinds, ExprKinds>>
    BY <1>5 DEF Children
  <2>2. Len(n.kids) = 2 /\ n.kids[1].nt \in ExprKinds /\ n.kids[2].nt \in ExprKinds
    BY <1>1, <1>2, <1>5, <2>1 DEF WellFormed
  <2> QED  BY <1>3, <1>5, <2>2 DEF ExprNodes
<1>6. CASE n.nt \in {"Asgn", "VarDef", "Exit"}
  <2>1. Len(n.kids) = 1 /\ n.kids[1].nt \in ExprKinds
    BY <1>1, <1>6 DEF WellFormed, Children
  <2> QED  BY <1>3, <1>6, <2>1 DEF ExprNodes
<1>7. CASE n.nt \in {"If", "While"}
  <2>1. Children[n.nt] = <<ExprKinds, {"Scope"}>>
    BY <1>7 DEF Children
  <2>2. Len(n.kids) = 2 /\ n.kids[1].nt \in ExprKinds /\ n.kids[2].nt = "Scope"
    BY <1>1, <1>2, <1>7, <2>1 DEF WellFormed
  <2> QED  BY <1>3, <1>7, <2>2 DEF ExprNodes, StmtNodes, StmtKinds
<1>8. CASE n.nt = "For"
  <2>1. /\ Len(n.kids) = 3 /\ n.kids[1].nt = "VarDef"
        /\ n.kids[2].nt \in ExprKinds /\ n.kids[3].nt = "Scope"
    BY <1>1, <1>8 DEF WellFormed, Children
  <2> QED  BY <1>3, <1>8, <2>1 DEF ExprNodes, StmtNodes, StmtKinds
<1> QED  BY <1>4, <1>5, <1>6, <1>7, <1>8

-----------------------------------------------------------------------------
(* The tasks of each Gen function.                                         *)
LEMMA Names ==
  /\ "push" \in Mnemonics /\ "pushi" \in Mnemonics /\ "pushm" \in Mnemonics
  /\ "pop" \in Mnemonics /\ "mov" \in Mnemonics /\ "movi" \in Mnemonics
  /\ "add" \in Mnemonics /\ "sub" \in Mnemonics /\ "mul" \in Mnemonics
  /\ "div" \in Mnemonics /\ "inc" \in Mnemonics /\ "dec" \in Mnemonics
  /\ "cmp" \in Mnemonics /\ "cmpi" \in Mnemonics /\ "setl" \in Mnemonics
  /\ "setg" \in Mnemonics /\ "je" \in Mnemonics /\ "jl" \in Mnemonics
  /\ "jg" \in Mnemonics /\ "label" \in Mnemonics /\ "syscall" \in Mnemonics
  /\ "drop" \in Mnemonics /\ "store" \in Mnemonics
  /\ None \in Registers /\ "rax" \in Registers /\ "rbx" \in Registers
  /\ "rcx" \in Registers /\ "rdi" \in Registers /\ "rsp" \in Registers
  /\ "while" \in Counters /\ "if" \in Counters /\ "for" \in Counters
  /\ "exp" \in Counters
  /\ None \in Locals /\ ".sb" \in Locals /\ ".se" \in Locals
  /\ ".eb" \in Locals /\ ".ee" \in Locals
BY DEF Mnemonics, Registers, Counters, Locals

LEMMA StmtBodies ==
  ASSUME NEW n \in StmtNodes
  PROVE  /\ n.nt = "While" => Loop(GenWhile(n))
         /\ n.nt = "If"    => GenIf(n)    \in Seq(PlainTasks)
         /\ n.nt = "For"   => Loop(GenFor(n))
         /\ n.nt = "Scope" => GenScope(n) \in Seq(PlainTasks)
         /\ n.nt = "Exit"  => GenExit(n)  \in Seq(PlainTasks)
<1>1. n \in Nodes
  BY DEF StmtNodes
<1>2. /\ \A op \in Mnemonics, a, b \in Registers :
           Push(Ins(op, a, b)) \in PlainTasks /\ Text(Ins(op, a, b)) \in PlainTasks
      /\ \A op \in Mnemonics, a \in Registers, k \in Int :
           Text(Imm(op, a, k)) \in PlainTasks
      /\ \A op \in Mnemonics, x \in Locals : Text(ToLocal(op, x)) \in PlainTasks
  BY InstrType, TaskClass
<1>3. 0 \in Int /\ 1 \in Int /\ 60 \in Int
  OBVIOUS
<1>4. CASE n.nt = "While"
  <2>1. n.kids[1] \in ExprNodes /\ n.kids[2] \in StmtNodes
    BY <1>1, <1>4, Kids
  <2>2. /\ Count("while") \in PlainTasks
        /\ Label("while") \in PlainTasks
        /\ Stmt(n.kids[2]) \in PlainTasks
        /\ Expr(n.kids[1]) \in PlainTasks
        /\ Pop("rax") \in PlainTasks
        /\ Text(Imm("cmpi", "rax", 1)) \in PlainTasks
        /\ Push(Ins("push", "rax", None)) \in PlainTasks
        /\ Numbered("je", "while", None) \in PlainTasks
    BY <1>2, <1>3, <2>1, TaskClass, Names
  <2>3. Begin \in Task /\ Begin.do = "begin" /\ End \in Task /\ End.do = "end"
    BY TaskType DEF Begin, End
  <2>4. \A t \in PlainTasks : t \in Task
    BY DEF PlainTasks
  <2>5. /\ GenWhile(n) \in Seq(Task) /\ Len(GenWhile(n)) = 10
        /\ GenWhile(n)[1] = Begin /\ GenWhile(n)[10] = End
    BY <2>2, <2>3, <2>4 DEF GenWhile
  <2>6. \A k \in 2 .. 9 : GenWhile(n)[k] \in PlainTasks
    BY <2>2 DEF GenWhile
  <2> QED  BY <1>4, <2>3, <2>5, <2>6 DEF Loop
<1>5. CASE n.nt = "If"
  <2>1. n.kids[1] \in ExprNodes /\ n.kids[2] \in StmtNodes
    BY <1>1, <1>5, Kids
  <2>2. /\ Expr(n.kids[1]) \in PlainTasks
        /\ Count("if") \in PlainTasks
        /\ Pop("rax") \in PlainTasks
        /\ Text(Imm("cmpi", "rax", 0)) \in PlainTasks
        /\ Numbered("je", "if", ".se") \in PlainTasks
        /\ Label("if") \in PlainTasks
        /\ Stmt(n.kids[2]) \in PlainTasks
    BY <1>2, <1>3, <2>1, TaskClass, Names
  <2> QED  BY <1>5, <2>2 DEF GenIf
<1>6. CASE n.nt = "For"
  <2>1. n.kids[1] \in StmtNodes /\ n.kids[2] \in ExprNodes /\ n.kids[3] \in StmtNodes
    BY <1>1, <1>6, Kids
  <2>2. /\ Stmt(n.kids[1]) \in PlainTasks
        /\ Expr(n.kids[2]) \in PlainTasks
        /\ Pop("rax") \in PlainTasks
        /\ Pop("rcx") \in PlainTasks
        /\ Text(Ins("add", "rax", "rcx")) \in PlainTasks
        /\ Push(Ins("push", "rcx", None)) \in PlainTasks
        /\ Push(Ins("push", "rax", None)) \in PlainTasks
        /\ Count("for") \in PlainTasks
        /\ Label("for") \in PlainTasks
        /\ Stmt(n.kids[3]) \in PlainTasks
        /\ Text(Ins("inc", "rcx", None)) \in PlainTasks
        /\ Text(Ins("cmp", "rcx", "rax")) \in PlainTasks
        /\ Numbered("jl", "for", None) \in PlainTasks
    BY <1>2, <1>3, <2>1, TaskClass, Names
  <2>3. Begin \in Task /\ Begin.do = "begin" /\ End \in Task /\ End.do = "end"
    BY TaskType DEF Begin, End
  <2>4. \A t \in PlainTasks : t \in Task
    BY DEF PlainTasks
  <2>5. /\ GenFor(n) \in Seq(Task) /\ Len(GenFor(n)) = 19
        /\ GenFor(n)[1] = Begin /\ GenFor(n)[19] = End
    BY <2>2, <2>3, <2>4 DEF GenFor
  <2>6. \A k \in 2 .. 18 : GenFor(n)[k] \in PlainTasks
    BY <2>2 DEF GenFor
  <2> QED  BY <1>6, <2>3, <2>5, <2>6 DEF Loop
<1>7. CASE n.nt = "Scope"
  <2> DEFINE body == [i \in 1 .. Len(n.kids) |-> Stmt(n.kids[i])]
  <2>1. n.kids \in Seq(Nodes) /\ \A i \in 1 .. Len(n.kids) : n.kids[i] \in StmtNodes
    BY <1>1, <1>7, Kids
  <2>2. body \in Seq(PlainTasks)
    BY <2>1, TaskClass
  <2>3. /\ Text(ToLocal("label", ".sb")) \in PlainTasks
        /\ Text(ToLocal("label", ".se")) \in PlainTasks
    BY <1>2, Names
  <2>4. /\ << Text(ToLocal("label", ".sb")) >> \in Seq(PlainTasks)
        /\ << Text(ToLocal("label", ".se")) >> \in Seq(PlainTasks)
    BY <2>3
  <2> QED  BY <1>7, <2>2, <2>4 DEF GenScope
<1>8. CASE n.nt = "Exit"
  <2>1. n.kids[1] \in ExprNodes
    BY <1>1, <1>8, Kids
  <2>2. /\ Expr(n.kids[1]) \in PlainTasks
        /\ Text(Imm("movi", "rax", 60)) \in PlainTasks
        /\ Pop("rdi") \in PlainTasks
        /\ Text(Ins("syscall", None, None)) \in PlainTasks
    BY <1>2, <1>3, <2>1, TaskClass, Names
  <2> QED  BY <1>8, <2>2 DEF GenExit
<1> QED  BY <1>4, <1>5, <1>6, <1>7, <1>8

LEMMA ArithmeticPure ==
  ASSUME NEW op
  PROVE  Arithmetic(op) \in Seq(PureTasks)
<1>1. /\ \A m \in Mnemonics, a, b \in Registers : Text(Ins(m, a, b)) \in PureTasks
      /\ \A m \in Mnemonics, a \in Registers, k \in Int : Text(Imm(m, a, k)) \in PureTasks
      /\ \A m \in Mnemonics, x \in Locals : Text(ToLocal(m, x)) \in PureTasks
  BY InstrType, TaskClass
<1>2. 1 \in Int
  OBVIOUS
<1>3. /\ Text(Ins("add", "rax", "rbx")) \in PureTasks
      /\ Text(Ins("sub", "rax", "rbx")) \in PureTasks
      /\ Text(Ins("mul", "rbx", None)) \in PureTasks
      /\ Text(Ins("div", "rbx", None)) \in PureTasks
      /\ Text(Ins("cmp", "rax", "rbx")) \in PureTasks
      /\ Text(Ins("setl", "rax", None)) \in PureTasks
      /\ Text(Ins("setg", "rax", None)) \in PureTasks
      /\ Text(Ins("mov", "rcx", "rax")) \in PureTasks
      /\ Text(Ins("mul", "rcx", None)) \in PureTasks
      /\ Text(Ins("dec", "rbx", None)) \in PureTasks
      /\ Text(Imm("cmpi", "rbx", 1)) \in PureTasks
  BY <1>1, <1>2, Names
<1>4. /\ Text(ToLocal("je", ".ee")) \in PureTasks
      /\ Text(ToLocal("jg", ".eb")) \in PureTasks
      /\ Text(ToLocal("label", ".eb")) \in PureTasks
      /\ Text(ToLocal("label", ".ee")) \in PureTasks
  BY <1>1, Names
<1>5. Count("exp") \in PureTasks /\ Label("exp") \in PureTasks /\ Fail \in PureTasks
  BY TaskClass, Names
<1>6. CASE op = "^"
  BY <1>3, <1>4, <1>5, <1>6 DEF Arithmetic
<1>7. CASE op \in {"+", "-", "*", "/"}
  BY <1>3, <1>7 DEF Arithmetic
<1>8. CASE op \in {"<", ">"}
  BY <1>3, <1>8 DEF Arithmetic
<1>9. CASE op \notin {"^", "+", "-", "*", "/", "<", ">"}
  <2>1. Arithmetic(op) = << Fail >>
    BY <1>9 DEF Arithmetic
  <2> QED  BY <1>5, <2>1
<1> QED  BY <1>6, <1>7, <1>8, <1>9

LEMMA ExprBodies ==
  ASSUME NEW n \in ExprNodes
  PROVE  /\ n.nt = "BinExpr"  => GenBinExpr(n)  \in Seq(PureTasks)
         /\ n.nt = "Interval" => GenInterval(n) \in Seq(PureTasks)
<1>1. n \in Nodes
  BY DEF ExprNodes
<1>2. \A op \in Mnemonics, a, b \in Registers :
        Push(Ins(op, a, b)) \in PureTasks /\ Text(Ins(op, a, b)) \in PureTasks
  BY InstrType, TaskClass
<1>3. ASSUME n.nt \in {"BinExpr", "Interval"}
      PROVE  n.kids[1] \in ExprNodes /\ n.kids[2] \in ExprNodes
  BY <1>1, <1>3, Kids
<1>4. CASE n.nt = "BinExpr"
  <2> DEFINE before == << Expr(n.kids[1]), Expr(n.kids[2]), Pop("rbx"), Pop("rax") >>
             after  == << Push(Ins("push", "rax", None)) >>
  <2>1. before \in Seq(PureTasks)
    <3>1. /\ Expr(n.kids[1]) \in PureTasks /\ Expr(n.kids[2]) \in PureTasks
          /\ Pop("rbx") \in PureTasks /\ Pop("rax") \in PureTasks
      BY <1>3, <1>4, TaskClass, Names
    <3> QED  BY <3>1
  <2>2. after \in Seq(PureTasks)
    <3>1. Push(Ins("push", "rax", None)) \in PureTasks
      BY <1>2, Names
    <3> QED  BY <3>1
  <2>3. Arithmetic(n.name) \in Seq(PureTasks)
    BY ArithmeticPure
  <2>4. GenBinExpr(n) = before \o Arithmetic(n.name) \o after
    BY DEF GenBinExpr
  <2> HIDE DEF before, after
  <2> QED  BY <1>4, <2>1, <2>2, <2>3, <2>4
<1>5. CASE n.nt = "Interval"
  <2>1. /\ Expr(n.kids[2]) \in PureTasks
        /\ Expr(n.kids[1]) \in PureTasks
        /\ Pop("rax") \in PureTasks
        /\ Pop("rbx") \in PureTasks
        /\ Text(Ins("sub", "rbx", "rax")) \in PureTasks
        /\ Push(Ins("push", "rbx", None)) \in PureTasks
    BY <1>2, <1>3, <1>5, TaskClass, Names
  <2> QED  BY <1>5, <2>1 DEF GenInterval
<1> QED  BY <1>4, <1>5

-----------------------------------------------------------------------------
(* Replacing the first task by others.                                     *)
LEMMA Replaced ==
  ASSUME NEW s \in Seq(Task), s # <<>>, NEW p \in Seq(Task)
  PROVE  LET r == p \o Tail(s)
         IN  /\ r \in Seq(Task)
             /\ Len(r) = Len(p) + Len(s) - 1
             /\ \A k \in 1 .. Len(p) : r[k] = p[k]
             /\ \A k \in Len(p) + 1 .. Len(r) :
                  r[k] = s[k - Len(p) + 1] /\ k - Len(p) + 1 \in 2 .. Len(s)
<1>1. Tail(s) \in Seq(Task) /\ Len(Tail(s)) = Len(s) - 1
  OBVIOUS
<1>2. \A k \in 1 .. Len(s) - 1 : Tail(s)[k] = s[k + 1]
  OBVIOUS
<1> QED  BY <1>1, <1>2

(* While the first task is no part of an expression nothing is pending.    *)
LEMMA NothingPending ==
  ASSUME NEW s \in Seq(Task), s # <<>>, Ordered(s), s[1].do \notin Pure
  PROVE  \A k \in 2 .. Len(s) : s[k].do \notin {"register", "store"}
BY DEF Ordered

LEMMA ThenKeeps ==
  ASSUME NEW s \in Seq(Task), s # <<>>, NEW V \in Seq(Variable),
         Ordered(s), Pending(s, V),
         NEW p \in Seq(Task), Ordered(p), Pending(p, V),
         s[1].do \in Pure => \A i \in 1 .. Len(p) : p[i].do \in Pure
  PROVE  LET r == p \o Tail(s)
         IN  r \in Seq(Task) /\ Ordered(r) /\ Pending(r, V)
<1> DEFINE r == p \o Tail(s)
<1>1. /\ r \in Seq(Task)
      /\ Len(r) = Len(p) + Len(s) - 1
      /\ \A k \in 1 .. Len(p) : r[k] = p[k]
      /\ \A k \in Len(p) + 1 .. Len(r) :
           r[k] = s[k - Len(p) + 1] /\ k - Len(p) + 1 \in 2 .. Len(s)
  BY Replaced
<1> HIDE DEF r
<1>2. Len(p) \in Nat /\ Len(s) \in Nat /\ Len(s) > 0 /\ Len(r) \in Nat
  BY <1>1
<1>3. Pending(r, V)
  <2> SUFFICES ASSUME NEW k \in 1 .. Len(r)
               PROVE  /\ r[k].do = "store" => r[k].index \in 1 .. Len(V)
                      /\ r[k].do = "register" =>
                           \A i \in 1 .. Len(V) : V[i].Ident # r[k].var.Ident
    BY DEF Pending
  <2>1. CASE k \in 1 .. Len(p)
    BY <1>1, <2>1 DEF Pending
  <2>2. CASE k \in Len(p) + 1 .. Len(r)
    <3>1. r[k] = s[k - Len(p) + 1] /\ k - Len(p) + 1 \in 1 .. Len(s)
      BY <1>1, <1>2, <2>2
    <3> QED  BY <3>1 DEF Pending
  <2> QED  BY <1>2, <2>1, <2>2
<1>4. Ordered(r)
  <2> SUFFICES ASSUME NEW k \in 1 .. Len(r), r[k].do \in {"register", "store"},
                      NEW j \in 1 .. k - 1
               PROVE  r[j].do \in Pure
    BY DEF Ordered
  <2>1. CASE k \in 1 .. Len(p)
    <3>1. j \in 1 .. Len(p) /\ r[j] = p[j] /\ r[k] = p[k]
      BY <1>1, <1>2, <2>1
    <3> QED  BY <2>1, <3>1 DEF Ordered
  <2>2. CASE k \in Len(p) + 1 .. Len(r)
    <3> DEFINE m == k - Len(p) + 1
    <3>1. r[k] = s[m] /\ m \in 2 .. Len(s)
      BY <1>1, <2>2
    <3>2. \A i \in 1 .. m - 1 : s[i].do \in Pure
      BY <1>2, <3>1 DEF Ordered
    <3>3. s[1].do \in Pure
      BY <3>1, <3>2
    <3>4. CASE j \in 1 .. Len(p)
      BY <1>1, <3>3, <3>4
    <3>5. CASE j \in Len(p) + 1 .. Len(r)
      <4>1. r[j] = s[j - Len(p) + 1] /\ j - Len(p) + 1 \in 1 .. m - 1
        BY <1>1, <1>2, <3>5
      <4> QED  BY <3>2, <4>1
    <3> QED  BY <1>2, <2>2, <3>4, <3>5
  <2> QED  BY <1>2, <2>1, <2>2
<1> QED  BY <1>1, <1>3, <1>4 DEF r

(* Counting the scopes that are still to be ended.                         *)
LEMMA Shifted ==
  ASSUME NEW S \in SUBSET Int, IsFiniteSet(S), NEW d \in Int
  PROVE  LET T == {k + d : k \in S}
         IN  IsFiniteSet(T) /\ Cardinality(T) = Cardinality(S)
<1> DEFINE T == {k + d : k \in S}
           f == [k \in S |-> k + d]
<1>1. f \in Bijection(S, T)
  <2>1. f \in [S -> T]
    OBVIOUS
  <2>2. \A x, y \in S : f[x] = f[y] => x = y
    OBVIOUS
  <2>3. \A t \in T : \E x \in S : f[x] = t
    OBVIOUS
  <2> HIDE DEF f, T
  <2>4. f \in Injection(S, T)
    BY <2>1, <2>2 DEF Injection, IsInjective
  <2>5. f \in Surjection(S, T)
    BY <2>1, <2>3 DEF Surjection
  <2> QED  BY <2>4, <2>5 DEF Bijection
<1>2. ExistsBijection(S, T)
  BY <1>1 DEF ExistsBijection
<1> QED  BY <1>2, FS_Bijection

LEMMA EndsFinite ==
  ASSUME NEW s \in Seq(Task)
  PROVE  IsFiniteSet(Ends(s)) /\ Cardinality(Ends(s)) \in Nat
<1>1. IsFiniteSet(1 .. Len(s))
  BY FS_Interval
<1>2. IsFiniteSet(Ends(s))
  BY <1>1, FS_Subset DEF Ends
<1> QED  BY <1>2, FS_CardinalityType

LEMMA EndsReplaced ==
  ASSUME NEW s \in Seq(Task), s # <<>>, NEW p \in Seq(Task)
  PROVE  Ends(p \o Tail(s)) = Ends(p) \cup {k + (Len(p) - 1) : k \in Ends(s) \ {1}}
<1> DEFINE r == p \o Tail(s)
           E == {k + (Len(p) - 1) : k \in Ends(s) \ {1}}
<1>1. /\ Len(r) = Len(p) + Len(s) - 1
      /\ \A k \in 1 .. Len(p) : r[k] = p[k]
      /\ \A k \in Len(p) + 1 .. Len(r) :
           r[k] = s[k - Len(p) + 1] /\ k - Len(p) + 1 \in 2 .. Len(s)
  BY Replaced
<1>2. Len(p) \in Nat /\ Len(s) \in Nat /\ Len(s) > 0
  OBVIOUS
<1> HIDE DEF r
<1>3. ASSUME NEW k \in Ends(r)
      PROVE  k \in Ends(p) \cup E
  <2>1. k \in 1 .. Len(r) /\ r[k].do = "end"
    BY <1>3 DEF Ends
  <2>2. CASE k \in 1 .. Len(p)
    BY <1>1, <2>1, <2>2 DEF Ends
  <2>3. CASE k \in Len(p) + 1 .. Len(r)
    <3> DEFINE m == k - Len(p) + 1
    <3>1. r[k] = s[m] /\ m \in 2 .. Len(s)
      BY <1>1, <2>3
    <3>2. m \in Ends(s) \ {1} /\ k = m + (Len(p) - 1)
      BY <1>2, <2>1, <3>1 DEF Ends
    <3> QED  BY <3>2
  <2> QED  BY <1>1, <1>2, <2>1, <2>2, <2>3
<1>4. ASSUME NEW k \in Ends(p)
      PROVE  k \in Ends(r)
  BY <1>1, <1>2 DEF Ends
<1>5. ASSUME NEW m \in Ends(s) \ {1}
      PROVE  m + (Len(p) - 1) \in Ends(r)
  <2> DEFINE k == m + (Len(p) - 1)
  <2>1. m \in 2 .. Len(s) /\ s[m].do = "end"
    BY <1>2 DEF Ends
  <2>2. k \in Len(p) + 1 .. Len(r) /\ k - Len(p) + 1 = m
    BY <1>1, <1>2, <2>1
  <2>3. r[k] = s[m]
    BY <1>1, <2>2
  <2> QED  BY <1>2, <2>1, <2>2, <2>3 DEF Ends
<1> QED  BY <1>3, <1>4, <1>5 DEF r

LEMMA EndsCounted ==
  ASSUME NEW s \in Seq(Task), s # <<>>, NEW p \in Seq(Task)
  PROVE  /\ Ends(p) = {} =>
              Cardinality(Ends(p \o Tail(s))) = Cardinality(Ends(s) \ {1})
         /\ Ends(p) = {Len(p)} =>
              Cardinality(Ends(p \o Tail(s))) = Cardinality(Ends(s) \ {1}) + 1
<1> DEFINE E == {k + (Len(p) - 1) : k \in Ends(s) \ {1}}
<1>1. IsFiniteSet(Ends(s) \ {1}) /\ Ends(s) \ {1} \in SUBSET Int /\ Len(p) - 1 \in Int
  <2>1. IsFiniteSet(Ends(s) \ {1})
    BY EndsFinite, FS_RemoveElement
  <2>2. Ends(s) \ {1} \in SUBSET Int
    BY DEF Ends
  <2>3. Len(p) - 1 \in Int
    OBVIOUS
  <2> QED  BY <2>1, <2>2, <2>3
<1>2. IsFiniteSet(E) /\ Cardinality(E) = Cardinality(Ends(s) \ {1})
  BY <1>1, Shifted
<1>3. Ends(p \o Tail(s)) = Ends(p) \cup E
  BY EndsReplaced
<1>4. Len(p) \notin E
  BY DEF Ends
<1> HIDE DEF E
<1>5. CASE Ends(p) = {}
  <2>1. Ends(p \o Tail(s)) = E
    BY <1>3, <1>5
  <2> QED  BY <1>2, <1>5, <2>1
<1>6. CASE Ends(p) = {Len(p)}
  <2>1. Ends(p \o Tail(s)) = E \cup {Len(p)}
    BY <1>3, <1>6
  <2>2. Cardinality(E \cup {Len(p)}) = Cardinality(E) + 1
    BY <1>2, <1>4, FS_AddElement
  <2> QED  BY <1>2, <1>6, <2>1, <2>2
<1> QED  BY <1>5, <1>6

(* Tasks that neither begin nor end a scope leave the balance as it is.    *)
LEMMA BalanceKept ==
  ASSUME NEW s \in Seq(Task), s # <<>>, NEW n \in Nat, Balanced(s, n),
         s[1].do \notin {"begin", "end"}, NEW p \in Seq(Task),
         \A i \in 1 .. Len(p) : p[i].do \notin {"begin", "end"}
  PROVE  Balanced(p \o Tail(s), n)
<1> DEFINE r == p \o Tail(s)
<1>1. /\ r \in Seq(Task)
      /\ Len(r) = Len(p) + Len(s) - 1
      /\ \A k \in 1 .. Len(p) : r[k] = p[k]
      /\ \A k \in Len(p) + 1 .. Len(r) :
           r[k] = s[k - Len(p) + 1] /\ k - Len(p) + 1 \in 2 .. Len(s)
  BY Replaced
<1>2. Ends(p) = {} /\ Ends(s) \ {1} = Ends(s)
  BY DEF Ends
<1>3. Cardinality(Ends(r)) = n
  BY <1>2, EndsCounted DEF Balanced
<1> HIDE DEF r
<1>4. \A k \in 1 .. Len(r) : r[k].do # "begin"
  <2> TAKE k \in 1 .. Len(r)
  <2>1. CASE k \in 1 .. Len(p)
    BY <1>1, <2>1
  <2>2. CASE k \in Len(p) + 1 .. Len(r)
    BY <1>1, <2>2 DEF Balanced
  <2> QED  BY <1>1, <2>1, <2>2
<1>5. r # <<>> => 1 \in 1 .. Len(r)
  BY <1>1
<1> QED  BY <1>1, <1>3, <1>4, <1>5 DEF Balanced, r

LEMMA ThenQueued ==
  ASSUME NEW s, s # <<>>, NEW V \in Seq(Variable), NEW n \in Nat, Queued(s, V, n),
         s[1].do \notin {"begin", "end"},
         NEW p \in Seq(Task), Ordered(p), Pending(p, V),
         \A i \in 1 .. Len(p) : p[i].do \notin {"begin", "end"},
         s[1].do \in Pure => \A i \in 1 .. Len(p) : p[i].do \in Pure
  PROVE  Queued(p \o Tail(s), V, n)
<1>1. s \in Seq(Task) /\ Ordered(s) /\ Pending(s, V) /\ Balanced(s, n)
  BY DEF Queued
<1> QED  BY <1>1, ThenKeeps, BalanceKept DEF Queued

(* The cases of it: plain tasks, and a loop.                               *)
LEMMA ThenPlain ==
  ASSUME NEW s, s # <<>>, NEW V \in Seq(Variable), NEW n \in Nat, Queued(s, V, n),
         s[1].do \notin {"begin", "end"}, NEW p \in Seq(PlainTasks),
         s[1].do \in Pure => p \in Seq(PureTasks)
  PROVE  Queued(p \o Tail(s), V, n)
<1>1. \A i \in 1 .. Len(p) :
        p[i] \in Task /\ p[i].do \notin {"register", "store", "begin", "end"}
  BY DEF PlainTasks
<1>2. p \in Seq(Task)
  BY DEF PlainTasks
<1>3. Ordered(p) /\ Pending(p, V)
  BY <1>1 DEF Ordered, Pending
<1>4. s[1].do \in Pure => \A i \in 1 .. Len(p) : p[i].do \in Pure
  BY DEF PureTasks
<1> QED  BY <1>1, <1>2, <1>3, <1>4, ThenQueued

LEMMA ThenLoop ==
  ASSUME NEW s, s # <<>>, NEW V \in Seq(Variable), NEW n \in Nat, Queued(s, V, n),
         s[1].do = "stmt", NEW p, Loop(p)
  PROVE  Queued(p \o Tail(s), V, n)
<1> DEFINE r == p \o Tail(s)
<1>1. s \in Seq(Task) /\ Ordered(s) /\ Pending(s, V) /\ Balanced(s, n) /\ p \in Seq(Task)
  BY DEF Queued, Loop
<1>2. /\ Len(p) > 1 /\ Len(p) \in Nat /\ p[1].do = "begin" /\ p[Len(p)].do = "end"
      /\ \A k \in 2 .. Len(p) - 1 :
           p[k].do \notin {"register", "store", "begin", "end"}
  BY <1>1 DEF Loop, PlainTasks
<1>3. \A k \in 1 .. Len(p) : p[k].do \notin {"register", "store"}
  <2> TAKE k \in 1 .. Len(p)
  <2>1. k = 1 \/ k = Len(p) \/ k \in 2 .. Len(p) - 1
    BY <1>2
  <2> QED  BY <1>2, <2>1
<1>4. Ordered(p) /\ Pending(p, V)
  BY <1>3 DEF Ordered, Pending
<1>5. r \in Seq(Task) /\ Ordered(r) /\ Pending(r, V)
  BY <1>1, <1>4, ThenKeeps DEF Pure
<1>6. Ends(p) = {Len(p)} /\ Ends(s) \ {1} = Ends(s)
  <2>1. \A k \in 1 .. Len(p) : p[k].do = "end" <=> k = Len(p)
    <3> TAKE k \in 1 .. Len(p)
    <3>1. k = 1 \/ k = Len(p) \/ k \in 2 .. Len(p) - 1
      BY <1>2
    <3> QED  BY <1>2, <3>1
  <2> QED  BY <1>2, <2>1 DEF Ends
<1>7. Cardinality(Ends(r)) = n + 1
  BY <1>1, <1>6, EndsCounted DEF Balanced
<1>8. /\ Len(r) = Len(p) + Len(s) - 1
      /\ \A k \in 1 .. Len(p) : r[k] = p[k]
      /\ \A k \in Len(p) + 1 .. Len(r) :
           r[k] = s[k - Len(p) + 1] /\ k - Len(p) + 1 \in 2 .. Len(s)
  BY <1>1, Replaced
<1> HIDE DEF r
<1>9. r # <<>> /\ r[1].do = "begin"
  BY <1>1, <1>2, <1>5, <1>8
<1>10. \A k \in 2 .. Len(r) : r[k].do # "begin"
  <2> TAKE k \in 2 .. Len(r)
  <2>1. CASE k \in 1 .. Len(p)
    <3>1. k = Len(p) \/ k \in 2 .. Len(p) - 1
      BY <1>2, <2>1
    <3> QED  BY <1>2, <1>8, <2>1, <3>1
  <2>2. CASE k \in Len(p) + 1 .. Len(r)
    BY <1>1, <1>8, <2>2 DEF Balanced
  <2> QED  BY <1>2, <2>1, <2>2
<1> QED  BY <1>5, <1>7, <1>9, <1>10 DEF Queued, Balanced, r

-----------------------------------------------------------------------------
(* What every action has in common.                                        *)
LEMMA FirstTask ==
  ASSUME TypeOK, NEW d, Doing(d)
  PROVE  /\ todo \in Seq(Task) /\ todo # <<>> /\ Head(todo) = todo[1]
         /\ todo[1] \in Task /\ todo[1].do = d
BY DEF TypeOK, Doing

LEMMA FindVarFinds ==
  ASSUME TypeOK, NamesUnique, NEW x, Known(x)
  PROVE  FindVar(x) \in 1 .. Len(VarRegistry)
<1>1. PICK i \in 1 .. Len(VarRegistry) : VarRegistry[i].Ident = x
  BY DEF Known
<1>2. \A j \in 1 .. i - 1 : VarRegistry[j].Ident # x
  <2>1. Len(VarRegistry) \in Nat
    BY DEF TypeOK
  <2> QED  BY <1>1, <2>1 DEF NamesUnique
<1>3. \E k \in 1 .. Len(VarRegistry) :
        /\ VarRegistry[k].Ident = x
        /\ \A j \in 1 .. k - 1 : VarRegistry[j].Ident # x
  BY <1>1, <1>2
<1> QED  BY <1>3 DEF FindVar

(* The last part of TypeOK follows from the queue.                         *)
LEMMA StoreInRange ==
  ASSUME Queued(todo, VarRegistry, Len(ScopeRegistry)), Doing("store")
  PROVE  Head(todo).index \in 1 .. Len(VarRegistry)
<1>1. todo \in Seq(Task) /\ Pending(todo, VarRegistry)
  BY DEF Queued
<1>2. todo # <<>> /\ Head(todo).do = "store"
  BY DEF Doing
<1>3. Len(todo) \in Nat /\ Len(todo) > 0 /\ Head(todo) = todo[1]
  BY <1>1, <1>2
<1> QED  BY <1>1, <1>2, <1>3 DEF Pending

(* What is left to show of a step that leaves the registries alone, and of *)
(* one that changes nothing but the queue.                                 *)
LEMMA Settled ==
  ASSUME IInv, Queued(todo', VarRegistry, Len(ScopeRegistry)),
         UNCHANGED <<NDEBUG, Tree, VarRegistry, ScopeRegistry, ctl>>,
         TEXT' \in Seq([ins : Instr, sp : Int]), StackPtr' \in Int,
         IDs' \in [Counters -> Nat], IDs'.exp < ExpWrap
  PROVE  IInv'
<1>1. Queued(todo, VarRegistry, Len(ScopeRegistry))'
  OBVIOUS
<1>2. todo' \in Seq(Task)
  BY DEF Queued
<1>3. (Doing("store") => Head(todo).index \in 1 .. Len(VarRegistry))'
  BY <1>1, StoreInRange, PTL
<1>4. TypeOK'
  BY <1>2, <1>3 DEF IInv, TypeOK
<1>5. NamesUnique' /\ Nested'
  BY DEF IInv, NamesUnique, Nested
<1> QED  BY <1>1, <1>4, <1>5 DEF IInv

LEMMA Requeued ==
  ASSUME IInv, NEW p, Then(p),
         Queued(p \o Tail(todo), VarRegistry, Len(ScopeRegistry)),
         UNCHANGED <<NDEBUG, Tree, TEXT, VarRegistry, StackPtr, ScopeRegistry, IDs, ctl>>
  PROVE  IInv'
<1>1. Queued(todo', VarRegistry, Len(ScopeRegistry))
  BY DEF Then
<1>2. /\ TEXT' \in Seq([ins : Instr, sp : Int]) /\ StackPtr' \in Int
      /\ IDs' \in [Counters -> Nat] /\ IDs'.exp < ExpWrap
  BY DEF IInv, TypeOK
<1> QED  BY <1>1, <1>2, Settled

LEMMA NoTasks ==
  /\ <<>> \in Seq(Task) /\ <<>> \in Seq(PureTasks) /\ <<>> \in Seq(PlainTasks)
  /\ Len(<<>>) = 0 /\ Ordered(<<>>) /\ \A V : Pending(<<>>, V)
BY DEF Ordered, Pending

(* The first task is done and neither begins nor ends a scope.             *)
LEMMA Dropped ==
  ASSUME IInv, NEW d, Doing(d), d \notin {"begin", "end"}
  PROVE  Queued(<<>> \o Tail(todo), VarRegistry, Len(ScopeRegistry))
<1>1. /\ todo # <<>> /\ todo[1].do \notin {"begin", "end"}
      /\ VarRegistry \in Seq(Variable) /\ Len(ScopeRegistry) \in Nat
      /\ Queued(todo, VarRegistry, Len(ScopeRegistry))
  BY FirstTask DEF IInv, TypeOK
<1> QED  BY <1>1, NoTasks, ThenPlain

-----------------------------------------------------------------------------
(* The Gen functions.                                                      *)
LEMMA GenKeeps ==
  ASSUME IInv, Gen
  PROVE  IInv'
<1> DEFINE s == todo
           V == VarRegistry
           n == Len(ScopeRegistry)
<1>1. TypeOK /\ Queued(s, V, n) /\ V \in Seq(Variable) /\ n \in Nat
  BY DEF IInv, TypeOK
<1>2. UNCHANGED <<NDEBUG, Tree, TEXT, VarRegistry, StackPtr, ScopeRegistry, IDs, ctl>>
  BY DEF Gen
<1>3. ASSUME NEW kind, On("stmt", kind)
      PROVE  Node \in StmtNodes /\ Node.nt = kind /\ s # <<>> /\ s[1].do = "stmt"
  BY <1>1, <1>3, FirstTask, TaskFields DEF On, Node
<1>4. ASSUME NEW kind, On("expr", kind)
      PROVE  Node \in ExprNodes /\ Node.nt = kind /\ s # <<>> /\ s[1].do = "expr"
  BY <1>1, <1>4, FirstTask, TaskFields DEF On, Node
<1> HIDE DEF s, V, n
<1>5. ASSUME NEW kind, On("stmt", kind), NEW p \in Seq(PlainTasks)
      PROVE  Queued(p \o Tail(s), V, n)
  BY <1>1, <1>3, <1>5, ThenPlain DEF Pure
<1>6. ASSUME NEW kind, On("stmt", kind), NEW p, Loop(p)
      PROVE  Queued(p \o Tail(s), V, n)
  BY <1>1, <1>3, <1>6, ThenLoop
<1>7. ASSUME NEW kind, On("expr", kind), NEW p \in Seq(PureTasks)
      PROVE  Queued(p \o Tail(s), V, n)
  <2>1. p \in Seq(PlainTasks)
    BY TaskClass
  <2> QED  BY <1>1, <1>4, <1>7, <2>1, ThenPlain
<1>8. \E p : Then(p) /\ Queued(p \o Tail(s), V, n)
  <2>1. CASE On("stmt", "While") /\ Then(GenWhile(Node))
    BY <1>3, <1>6, <2>1, StmtBodies
  <2>2. CASE On("stmt", "If") /\ Then(GenIf(Node))
    BY <1>3, <1>5, <2>2, StmtBodies
  <2>3. CASE On("stmt", "For") /\ Then(GenFor(Node))
    BY <1>3, <1>6, <2>3, StmtBodies
  <2>4. CASE On("stmt", "Scope") /\ Then(GenScope(Node))
    BY <1>3, <1>5, <2>4, StmtBodies
  <2>5. CASE On("stmt", "Exit") /\ Then(GenExit(Node))
    BY <1>3, <1>5, <2>5, StmtBodies
  <2>6. CASE On("expr", "BinExpr") /\ Then(GenBinExpr(Node))
    BY <1>4, <1>7, <2>6, ExprBodies
  <2>7. CASE On("expr", "Interval") /\ Then(GenInterval(Node))
    BY <1>4, <1>7, <2>7, ExprBodies
  <2> QED  BY <2>1, <2>2, <2>3, <2>4, <2>5, <2>6, <2>7 DEF Gen
<1> QED  BY <1>2, <1>8, Requeued DEF s, V, n

LEMMA GenTermKeeps ==
  ASSUME IInv, GenTerm
  PROVE  IInv'
<1> USE DEF IInv
<1>1. PICK p \in Seq(PureTasks) : todo # <<>> /\ todo[1].do = "expr" /\ Then(p)
  <2>1. ASSUME NEW kind, On("expr", kind)
        PROVE  Node \in ExprNodes /\ todo # <<>> /\ todo[1].do = "expr"
    BY <2>1, FirstTask, TaskFields DEF On, Node
  <2>2. \A m \in Mnemonics, a \in Registers, k \in Int :
          << Push(Imm(m, a, k)) >> \in Seq(PureTasks)
    <3> TAKE m \in Mnemonics, a \in Registers, k \in Int
    <3>1. Push(Imm(m, a, k)) \in PureTasks
      BY InstrType, TaskClass
    <3> QED  BY <3>1
  <2>3. CASE On("expr", "Num") /\ Then(<< Push(Imm("pushi", None, Node.num)) >>)
    <3>1. Node.num \in Int
      <4>1. Node \in Nodes
        BY <2>1, <2>3 DEF ExprNodes
      <4> QED  BY <4>1, GeneratorAssumption DEF WellFormed
    <3>2. << Push(Imm("pushi", None, Node.num)) >> \in Seq(PureTasks)
      BY <2>2, <3>1, Names
    <3> QED  BY <2>1, <2>3, <3>2
  <2>4. CASE /\ On("expr", "Ident") /\ Known(Node.name)
             /\ Then(<< Push(Imm("pushm", "rsp", Offset(StackPtr, FindVar(Node.name)))) >>)
    <3>1. FindVar(Node.name) \in 1 .. Len(VarRegistry)
      BY <2>4, FindVarFinds
    <3>2. VarRegistry[FindVar(Node.name)] \in Variable
      BY <3>1 DEF TypeOK
    <3>3. Offset(StackPtr, FindVar(Node.name)) \in Int
      BY <3>2 DEF Offset, Variable, TypeOK
    <3>4. << Push(Imm("pushm", "rsp", Offset(StackPtr, FindVar(Node.name)))) >> \in Seq(PureTasks)
      BY <2>2, <3>3, Names
    <3> QED  BY <2>1, <2>4, <3>4
  <2>5. CASE On("expr", "Ident") /\ Then(<<>>)
    BY <2>1, <2>5, NoTasks
  <2> QED  BY <2>3, <2>4, <2>5 DEF GenTerm
<1>2. p \in Seq(PlainTasks)
  BY TaskClass
<1>3. UNCHANGED <<NDEBUG, Tree, TEXT, VarRegistry, StackPtr, ScopeRegistry, IDs, ctl>>
  BY DEF GenTerm
<1>4. Len(ScopeRegistry) \in Nat /\ VarRegistry \in Seq(Variable)
  BY DEF TypeOK
<1>5. Queued(p \o Tail(todo), VarRegistry, Len(ScopeRegistry))
  BY <1>1, <1>2, <1>4, ThenPlain
<1> QED  BY <1>1, <1>3, <1>5, Requeued

(* A registration is queued for a name that is not taken.                  *)
LEMMA RegisterQueued ==
  ASSUME IInv, NEW p, todo # <<>>, todo[1].do = "stmt",
         NEW t, t \in Task, t.do = "register", ~Known(t.var.Ident),
         \/ p = << t >>
         \/ \E e \in Task : e.do = "expr" /\ p = << e, t >>
  PROVE  Queued(p \o Tail(todo), VarRegistry, Len(ScopeRegistry))
<1>1. \A i \in 1 .. Len(VarRegistry) : VarRegistry[i].Ident # t.var.Ident
  BY DEF Known
<1>2. /\ p \in Seq(Task) /\ Len(p) \in 1 .. 2 /\ p[Len(p)] = t
      /\ Len(p) = 2 => p[1].do = "expr"
  <2>1. CASE p = << t >>
    BY <2>1
  <2>2. CASE \E e \in Task : e.do = "expr" /\ p = << e, t >>
    BY <2>2
  <2> QED  BY <2>1, <2>2
<1>3. \A i \in 1 .. Len(p) : p[i].do \in {"expr", "register"}
  BY <1>2
<1>4. Ordered(p)
  BY <1>2 DEF Ordered, Pure
<1>5. Pending(p, VarRegistry)
  BY <1>1, <1>2 DEF Pending
<1>6. \A i \in 1 .. Len(p) : p[i].do \notin {"begin", "end"}
  BY <1>3
<1>7. Len(ScopeRegistry) \in Nat /\ VarRegistry \in Seq(Variable)
  BY DEF IInv, TypeOK
<1>8. Queued(todo, VarRegistry, Len(ScopeRegistry))
  BY DEF IInv
<1> QED  BY <1>2, <1>4, <1>5, <1>6, <1>7, <1>8, ThenQueued DEF Pure

LEMMA GenVarDefKeeps ==
  ASSUME IInv, GenVarDef
  PROVE  IInv'
<1> DEFINE later == Register(Node.name, Node.num = 1, TRUE)
<1>1. /\ Node \in Nodes /\ Node.nt = "VarDef" /\ Doing("stmt")
      /\ todo # <<>> /\ todo[1].do = "stmt"
  BY FirstTask, TaskFields DEF IInv, GenVarDef, On, Node, StmtNodes
<1>2. Node.kids[1] \in ExprNodes /\ Node.name \in STRING
  BY <1>1, Kids, GeneratorAssumption DEF WellFormed
<1>3. UNCHANGED <<NDEBUG, Tree, TEXT, VarRegistry, StackPtr, ScopeRegistry, IDs, ctl>>
  BY DEF GenVarDef
<1>4. CASE Then(<<>>)
  BY <1>1, <1>3, <1>4, Dropped, Requeued
<1>5. CASE ~Known(Node.name) /\ Then(<< Expr(Node.kids[1]), later >>)
  <2>1. Expr(Node.kids[1]) \in Task /\ Expr(Node.kids[1]).do = "expr"
    BY <1>2, TaskType DEF Expr
  <2>2. later \in Task /\ later.do = "register" /\ later.var.Ident = Node.name
    BY <1>2 DEF Register, Task
  <2> DEFINE p == << Expr(Node.kids[1]), later >>
  <2> HIDE DEF later
  <2>3. \E e \in Task : e.do = "expr" /\ p = << e, later >>
    BY <2>1
  <2>4. Then(p)
    BY <1>5 DEF later
  <2> HIDE DEF p
  <2>5. Queued(p \o Tail(todo), VarRegistry, Len(ScopeRegistry))
    BY <1>1, <1>5, <2>2, <2>3, RegisterQueued
  <2> QED  BY <1>3, <2>4, <2>5, Requeued
<1> QED  BY <1>4, <1>5 DEF GenVarDef

LEMMA GenDeclKeeps ==
  ASSUME IInv, GenDecl
  PROVE  IInv'
<1> DEFINE later == Register(Node.name, Node.num = 1, FALSE)
<1>1. /\ Node \in Nodes /\ Doing("stmt") /\ todo # <<>> /\ todo[1].do = "stmt"
  BY FirstTask, TaskFields DEF IInv, GenDecl, On, Node, StmtNodes
<1>2. Node.name \in STRING
  BY <1>1, GeneratorAssumption DEF WellFormed
<1>3. UNCHANGED <<NDEBUG, Tree, TEXT, VarRegistry, StackPtr, ScopeRegistry, IDs, ctl>>
  BY DEF GenDecl
<1>4. CASE Then(<<>>)
  BY <1>1, <1>3, <1>4, Dropped, Requeued
<1>5. CASE ~Known(Node.name) /\ Then(<< later >>)
  <2>1. later \in Task /\ later.do = "register" /\ later.var.Ident = Node.name
    BY <1>2 DEF Register, Task
  <2> DEFINE p == << later >>
  <2> HIDE DEF later
  <2>2. Then(p)
    BY <1>5 DEF later
  <2>3. Queued(p \o Tail(todo), VarRegistry, Len(ScopeRegistry))
    BY <1>1, <1>5, <2>1, RegisterQueued
  <2> HIDE DEF p
  <2> QED  BY <1>3, <2>2, <2>3, Requeued
<1> QED  BY <1>4, <1>5 DEF GenDecl

(* A store is queued for an entry there is; assignments are expressions,   *)
(* so what is pending may stay behind it.                                  *)
LEMMA GenAsgnKeeps ==
  ASSUME IInv, GenAsgn
  PROVE  IInv'
<1>1. /\ Node \in Nodes /\ Node.nt = "Asgn"
      /\ \E d \in {"stmt", "expr"} : Doing(d)
      /\ todo # <<>> /\ todo[1].do \in {"stmt", "expr"}
  BY FirstTask, TaskFields DEF IInv, GenAsgn, On, Node, StmtNodes, ExprNodes
<1>2. Node.kids[1] \in ExprNodes
  BY <1>1, Kids
<1>3. UNCHANGED <<NDEBUG, Tree, TEXT, VarRegistry, StackPtr, ScopeRegistry, IDs, ctl>>
  BY DEF GenAsgn
<1>4. CASE Then(<<>>)
  BY <1>1, <1>3, <1>4, Dropped, Requeued
<1>5. CASE Known(Node.name) /\ Then(<< Expr(Node.kids[1]), Store(FindVar(Node.name)) >>)
  <2> DEFINE later == Store(FindVar(Node.name))
             p     == << Expr(Node.kids[1]), later >>
  <2>1. Expr(Node.kids[1]) \in Task /\ Expr(Node.kids[1]).do = "expr"
    BY <1>2, TaskType DEF Expr
  <2>2. FindVar(Node.name) \in 1 .. Len(VarRegistry)
    BY <1>5, FindVarFinds DEF IInv
  <2>3. later \in Task /\ later.do = "store" /\ later.index \in 1 .. Len(VarRegistry)
    BY <2>2 DEF Store, Task
  <2>4. Then(p)
    BY <1>5
  <2> HIDE DEF later
  <2>5. p \in Seq(Task) /\ Len(p) = 2 /\ p[1].do = "expr" /\ p[2] = later
    BY <2>1, <2>3
  <2> HIDE DEF p
  <2>6. \A i \in 1 .. Len(p) : p[i].do \in {"expr", "store"}
    BY <2>3, <2>5
  <2>7. /\ \A i \in 1 .. Len(p) : p[i].do \in Pure
        /\ \A i \in 1 .. Len(p) : p[i].do \notin {"begin", "end"}
    BY <2>6 DEF Pure
  <2>8. Ordered(p)
    BY <2>5, <2>7 DEF Ordered
  <2>9. Pending(p, VarRegistry)
    BY <2>3, <2>5 DEF Pending
  <2>10. /\ Len(ScopeRegistry) \in Nat /\ VarRegistry \in Seq(Variable)
         /\ Queued(todo, VarRegistry, Len(ScopeRegistry))
    BY DEF IInv, TypeOK
  <2>11. Queued(p \o Tail(todo), VarRegistry, Len(ScopeRegistry))
    BY <1>1, <2>5, <2>7, <2>8, <2>9, <2>10, ThenQueued
  <2> QED  BY <1>3, <2>4, <2>11, Requeued
<1> QED  BY <1>4, <1>5 DEF GenAsgn

-----------------------------------------------------------------------------
(* The tasks that write, and those that end the process.                   *)
LEMMA WriteKeeps ==
  ASSUME IInv, PushStack \/ PopStack \/ TextEntry \/ NumberedEntry \/ NextID
  PROVE  IInv'
<1> USE DEF IInv
<1>1. PICK d \in {"push", "pop", "text", "numbered", "count"} : Doing(d)
  BY DEF PushStack, PopStack, TextEntry, NumberedEntry, NextID
<1>2. todo \in Seq(Task) /\ todo # <<>> /\ Head(todo) \in Task
  BY <1>1, FirstTask
<1>3. Then(<<>>) /\ UNCHANGED <<NDEBUG, Tree, VarRegistry, ScopeRegistry, ctl>>
  BY DEF PushStack, PopStack, TextEntry, NumberedEntry, NextID
<1>4. Queued(todo', VarRegistry, Len(ScopeRegistry))
  BY <1>1, <1>3, Dropped DEF Then
<1>5. ASSUME NEW i \in Instr
      PROVE  Append(TEXT, Line(i)) \in Seq([ins : Instr, sp : Int])
  BY <1>5 DEF TypeOK, Line
<1>6. /\ TEXT' \in Seq([ins : Instr, sp : Int]) /\ StackPtr' \in Int
      /\ IDs' \in [Counters -> Nat] /\ IDs'.exp < ExpWrap
  <2>1. CASE PushStack \/ PopStack \/ TextEntry
    <3>1. Head(todo).ins \in Instr
      BY <1>2, <2>1, TaskFields DEF PushStack, PopStack, TextEntry, Doing
    <3>2. TEXT' = Append(TEXT, Line(Head(todo).ins)) /\ UNCHANGED IDs
      BY <2>1 DEF PushStack, PopStack, TextEntry, Write
    <3>3. StackPtr' \in Int
      BY <2>1 DEF PushStack, PopStack, TextEntry, TypeOK
    <3> QED  BY <1>5, <3>1, <3>2, <3>3 DEF TypeOK
  <2>2. CASE NumberedEntry
    <3> DEFINE t == Head(todo)
    <3>1. t.ins \in Instr /\ t.id \in Counters /\ t.loc \in Locals
      BY <1>2, <2>2, TaskFields DEF NumberedEntry, Doing
    <3>2. At(t.id, IDs[t.id], t.loc) \in Labels
      BY <3>1 DEF At, Labels, TypeOK
    <3>3. [t.ins EXCEPT !.to = At(t.id, IDs[t.id], t.loc)] \in Instr
      BY <3>1, <3>2 DEF Instr
    <3>4. TEXT' = Append(TEXT, Line([t.ins EXCEPT !.to = At(t.id, IDs[t.id], t.loc)]))
      BY <2>2 DEF NumberedEntry, Write
    <3>5. UNCHANGED <<StackPtr, IDs>>
      BY <2>2 DEF NumberedEntry
    <3> QED  BY <1>5, <3>3, <3>4, <3>5 DEF TypeOK
  <2>3. CASE NextID
    <3> DEFINE c == Head(todo).id
    <3>1. c \in Counters
      BY <1>2, <2>3, TaskFields DEF NextID, Doing
    <3>2. IDs' = [IDs EXCEPT ![c] = IF c = "exp" THEN (@ + 1) % ExpWrap ELSE @ + 1]
      BY <2>3 DEF NextID, Increment
    <3>3. IDs \in [Counters -> Nat] /\ IDs.exp < ExpWrap /\ ExpWrap \in Nat \ {0}
      BY GeneratorAssumption DEF TypeOK
    <3>4. /\ \A k \in Counters : IDs[k] + 1 \in Nat
          /\ (IDs["exp"] + 1) % ExpWrap \in 0 .. ExpWrap - 1
      BY <3>3 DEF Counters
    <3>5. UNCHANGED <<TEXT, StackPtr>>
      BY <2>3 DEF NextID
    <3>6. CASE c = "exp"
      <4>1. IDs' = [IDs EXCEPT !["exp"] = (IDs["exp"] + 1) % ExpWrap]
        BY <3>2, <3>6
      <4>2. IDs'["exp"] = (IDs["exp"] + 1) % ExpWrap
        BY <3>3, <4>1 DEF Counters
      <4>3. IDs' \in [Counters -> Nat]
        <5>1. (IDs["exp"] + 1) % ExpWrap \in Nat
          BY <3>3, <3>4
        <5> QED  BY <3>3, <4>1, <5>1
      <4> QED  BY <3>3, <3>4, <3>5, <4>2, <4>3 DEF TypeOK
    <3>7. CASE c # "exp"
      <4>1. IDs' = [IDs EXCEPT ![c] = IDs[c] + 1]
        BY <3>2, <3>7
      <4> QED  BY <3>1, <3>3, <3>4, <3>5, <3>7, <4>1 DEF TypeOK, Counters
    <3> QED  BY <3>6, <3>7
  <2> QED  BY <2>1, <2>2, <2>3
<1> QED  BY <1>3, <1>4, <1>6, Settled

LEMMA EndingKeeps ==
  ASSUME IInv, GenFunction \/ InvalidOperator \/ Overrun
  PROVE  IInv'
<1>1. CASE NDEBUG /\ Then(<<>>) /\ UNCHANGED ctl /\ GenFunction
  <2>1. \E d \in {"stmt", "expr"} : Doing(d)
    BY <1>1 DEF GenFunction, On
  <2>2. UNCHANGED <<NDEBUG, Tree, TEXT, VarRegistry, StackPtr, ScopeRegistry, IDs, ctl>>
    BY <1>1 DEF GenFunction
  <2> QED  BY <1>1, <2>1, <2>2, Dropped, Requeued
<1>2. CASE /\ ctl' \in {"exit", "crash"}
           /\ UNCHANGED <<NDEBUG, Tree, todo, TEXT, VarRegistry, StackPtr,
                          ScopeRegistry, IDs>>
  <2>1. TypeOK'
    BY <1>2 DEF IInv, TypeOK, Doing
  <2>2. NamesUnique' /\ Nested' /\ Queued(todo, VarRegistry, Len(ScopeRegistry))'
    BY <1>2 DEF IInv, NamesUnique, Nested
  <2> QED  BY <2>1, <2>2 DEF IInv
<1> QED  BY <1>1, <1>2 DEF GenFunction, InvalidOperator, Overrun

-----------------------------------------------------------------------------
(* The tasks that change the registries.                                   *)
LEMMA Free ==
  ASSUME NEW s, NEW V, NEW n, Queued(s, V, n), NEW W,
         \A k \in 1 .. Len(s) : s[k].do \notin {"register", "store"}
  PROVE  Queued(s, W, n)
BY DEF Queued, Pending

LEMMA DropFirst ==
  ASSUME NEW s \in Seq(Task), s # <<>>
  PROVE  LET r == <<>> \o Tail(s)
         IN  /\ Len(r) = Len(s) - 1
             /\ \A k \in 1 .. Len(r) : r[k] = s[k + 1] /\ k + 1 \in 2 .. Len(s)
<1> DEFINE r == <<>> \o Tail(s)
<1>1. /\ Len(r) = 0 + Len(s) - 1
      /\ \A k \in 0 + 1 .. Len(r) : r[k] = s[k - 0 + 1] /\ k - 0 + 1 \in 2 .. Len(s)
  BY NoTasks, Replaced
<1> QED  BY <1>1

LEMMA Prefix ==
  ASSUME NEW T, NEW q \in Seq(T), NEW m \in 0 .. Len(q)
  PROVE  /\ SubSeq(q, 1, m) \in Seq(T) /\ Len(SubSeq(q, 1, m)) = m
         /\ \A i \in 1 .. m : SubSeq(q, 1, m)[i] = q[i]
OBVIOUS

(* A task that is no part of an expression leaves nothing pending.         *)
LEMMA FreeTail ==
  ASSUME NEW s \in Seq(Task), s # <<>>, Ordered(s), s[1].do \notin Pure
  PROVE  \A k \in 1 .. Len(<<>> \o Tail(s)) :
           (<<>> \o Tail(s))[k].do \notin {"register", "store"}
<1> DEFINE r == <<>> \o Tail(s)
<1>1. \A k \in 1 .. Len(r) : r[k] = s[k + 1] /\ k + 1 \in 2 .. Len(s)
  BY DropFirst
<1> HIDE DEF r
<1>2. \A k \in 2 .. Len(s) : s[k].do \notin {"register", "store"}
  BY NothingPending
<1>3. \A k \in 1 .. Len(r) : r[k].do \notin {"register", "store"}
  BY <1>1, <1>2
<1> QED  BY <1>3 DEF r

LEMMA RegisterVarKeeps ==
  ASSUME IInv, RegisterVar
  PROVE  IInv'
<1> DEFINE V == VarRegistry
           r == <<>> \o Tail(todo)
<1>1. /\ todo \in Seq(Task) /\ todo # <<>> /\ Head(todo) = todo[1]
      /\ todo[1] \in Task /\ todo[1].do = "register"
  BY FirstTask DEF IInv, RegisterVar
<1>2. Queued(todo, V, Len(ScopeRegistry)) /\ Ordered(todo) /\ Pending(todo, V)
  BY DEF IInv, Queued
<1>3. Queued(r, V, Len(ScopeRegistry))
  BY Dropped DEF IInv, RegisterVar
<1>4. /\ todo' = r
      /\ UNCHANGED <<NDEBUG, Tree, TEXT, StackPtr, ScopeRegistry, IDs, ctl>>
  BY DEF RegisterVar, Then
<1> HIDE DEF r
<1>5. Queued(todo, VarRegistry, Len(ScopeRegistry))'
  <2>1. \A k \in 1 .. Len(r) : r[k].do \notin {"register", "store"}
    BY <1>1, <1>2, FreeTail DEF Pure, r
  <2>2. Queued(r, VarRegistry', Len(ScopeRegistry))
    BY <1>3, <2>1, Free
  <2> QED  BY <1>4, <2>2
<1>6. PICK v \in Variable : VarRegistry' = Append(V, v) /\ v.Ident = todo[1].var.Ident
  <2> DEFINE w == todo[1].var
             v == [Ident |-> w.Ident, IsMutable |-> w.IsMutable,
                   IsInit |-> w.IsInit, StackIndex |-> StackPtr]
  <2>1. w \in [Ident : STRING, IsMutable : BOOLEAN, IsInit : BOOLEAN]
    BY <1>1, TaskFields
  <2>2. v \in Variable
    BY <2>1 DEF Variable, IInv, TypeOK
  <2>3. VarRegistry' = Append(V, v)
    BY <1>1 DEF RegisterVar
  <2> QED  BY <2>2, <2>3
<1>7. V \in Seq(Variable) /\ Len(V) \in Nat
  BY DEF IInv, TypeOK
<1>8. /\ VarRegistry' \in Seq(Variable) /\ Len(VarRegistry') = Len(V) + 1
      /\ \A i \in 1 .. Len(V) : VarRegistry'[i] = V[i]
      /\ VarRegistry'[Len(V) + 1] = v
  BY <1>6, <1>7
<1>9. \A i \in 1 .. Len(V) : V[i].Ident # v.Ident
  <2>1. 1 \in 1 .. Len(todo)
    BY <1>1
  <2> QED  BY <1>1, <1>2, <1>6, <2>1 DEF Pending
<1> HIDE DEF V
<1>10. NamesUnique'
  <2> SUFFICES ASSUME NEW i \in 1 .. Len(V) + 1, NEW j \in 1 .. Len(V) + 1,
                      VarRegistry'[i].Ident = VarRegistry'[j].Ident
               PROVE  i = j
    BY <1>8 DEF NamesUnique
  <2>1. CASE i \in 1 .. Len(V) /\ j \in 1 .. Len(V)
    BY <1>8, <2>1 DEF IInv, NamesUnique, V
  <2>2. CASE i = Len(V) + 1 \/ j = Len(V) + 1
    BY <1>7, <1>8, <1>9, <2>2
  <2> QED  BY <1>7, <2>1, <2>2
<1>11. Nested'
  <2>1. \A i \in 1 .. Len(ScopeRegistry) : ScopeRegistry[i] \in Nat
    BY DEF IInv, TypeOK
  <2> QED  BY <1>4, <1>7, <1>8, <2>1 DEF IInv, Nested, V
<1>12. TypeOK'
  <2>1. (Doing("store") => Head(todo).index \in 1 .. Len(VarRegistry))'
    BY <1>5, StoreInRange, PTL
  <2>2. todo' \in Seq(Task)
    BY <1>5 DEF Queued
  <2> QED  BY <1>4, <1>8, <2>1, <2>2 DEF IInv, TypeOK
<1> QED  BY <1>5, <1>10, <1>11, <1>12 DEF IInv

LEMMA StoreVarKeeps ==
  ASSUME IInv, StoreVar
  PROVE  IInv'
<1> DEFINE V == VarRegistry
           r == <<>> \o Tail(todo)
           m == Head(todo).index
<1>1. Queued(r, V, Len(ScopeRegistry))
  BY Dropped DEF IInv, StoreVar
<1>2. todo' = r /\ UNCHANGED <<NDEBUG, Tree, ScopeRegistry, IDs, ctl>>
  BY DEF StoreVar, Then
<1> HIDE DEF r
<1>3. m \in 1 .. Len(V) /\ V \in Seq(Variable) /\ StackPtr \in Int
  BY DEF IInv, TypeOK, StoreVar
<1>4. V[m].StackIndex \in Int /\ V[m] \in Variable
  <2>1. V[m] \in Variable
    BY <1>3
  <2> QED  BY <2>1 DEF Variable
<1>5. /\ VarRegistry' \in Seq(Variable) /\ Len(VarRegistry') = Len(V)
      /\ \A i \in 1 .. Len(V) : VarRegistry'[i].Ident = V[i].Ident
      /\ TEXT' \in Seq([ins : Instr, sp : Int]) /\ StackPtr' \in Int
  <2>1. CASE V[m].IsInit
    <3>1. /\ TEXT' = TEXT \o
               << Line(Ins("pop", "rax", None)),
                  [ins |-> Imm("store", "rsp", Offset(StackPtr - 1, m)),
                   sp  |-> StackPtr - 1] >>
          /\ StackPtr' = StackPtr - 1 /\ UNCHANGED VarRegistry
      BY <2>1 DEF StoreVar
    <3>2. Ins("pop", "rax", None) \in Instr
      BY InstrType, Names
    <3>3. Imm("store", "rsp", Offset(StackPtr - 1, m)) \in Instr
      <4>1. Offset(StackPtr - 1, m) \in Int
        BY <1>3, <1>4 DEF Offset
      <4> QED  BY <4>1, InstrType, Names
    <3>4. /\ Line(Ins("pop", "rax", None)) \in [ins : Instr, sp : Int]
          /\ [ins |-> Imm("store", "rsp", Offset(StackPtr - 1, m)),
              sp  |-> StackPtr - 1] \in [ins : Instr, sp : Int]
      BY <1>3, <3>2, <3>3 DEF Line
    <3>5. TEXT \in Seq([ins : Instr, sp : Int])
      BY DEF IInv, TypeOK
    <3>6. TEXT' \in Seq([ins : Instr, sp : Int])
      BY <3>1, <3>4, <3>5
    <3> QED  BY <1>3, <3>1, <3>6
  <2>2. CASE ~V[m].IsInit
    <3>1. /\ VarRegistry' = [V EXCEPT ![m].IsInit = TRUE, ![m].StackIndex = StackPtr]
          /\ StackPtr' = StackPtr + 1 /\ UNCHANGED TEXT
      BY <2>2 DEF StoreVar
    <3> DEFINE w == [V[m] EXCEPT !.IsInit = TRUE, !.StackIndex = StackPtr]
    <3>2. VarRegistry' = [V EXCEPT ![m] = w]
      BY <1>3, <3>1
    <3>3. w \in Variable /\ w.Ident = V[m].Ident
      BY <1>3, <1>4 DEF Variable
    <3> HIDE DEF w
    <3>4. /\ VarRegistry' \in Seq(Variable) /\ Len(VarRegistry') = Len(V)
          /\ \A i \in 1 .. Len(V) : VarRegistry'[i] = IF i = m THEN w ELSE V[i]
      BY <1>3, <3>2, <3>3
    <3> QED  BY <1>3, <3>1, <3>3, <3>4 DEF IInv, TypeOK
  <2> QED  BY <2>1, <2>2
<1>6. Queued(todo, VarRegistry, Len(ScopeRegistry))'
  <2>1. Pending(r, VarRegistry')
    BY <1>1, <1>5 DEF Queued, Pending
  <2> QED  BY <1>1, <1>2, <2>1 DEF Queued
<1>7. NamesUnique'
  BY <1>5 DEF IInv, NamesUnique
<1>8. Nested'
  BY <1>2, <1>5 DEF IInv, Nested
<1>9. TypeOK'
  <2>1. (Doing("store") => Head(todo).index \in 1 .. Len(VarRegistry))'
    BY <1>6, StoreInRange, PTL
  <2>2. todo' \in Seq(Task)
    BY <1>6 DEF Queued
  <2> QED  BY <1>2, <1>5, <2>1, <2>2 DEF IInv, TypeOK
<1> QED  BY <1>6, <1>7, <1>8, <1>9 DEF IInv

LEMMA BeginScopeKeeps ==
  ASSUME IInv, BeginScope
  PROVE  IInv'
<1> DEFINE V == VarRegistry
           n == Len(ScopeRegistry)
           r == <<>> \o Tail(todo)
<1>1. /\ todo \in Seq(Task) /\ todo # <<>> /\ todo[1].do = "begin"
      /\ V \in Seq(Variable) /\ ScopeRegistry \in Seq(Nat) /\ Len(V) \in Nat /\ n \in Nat
  BY FirstTask DEF IInv, BeginScope, TypeOK
<1>2. Ordered(todo) /\ Pending(todo, V) /\ Balanced(todo, n)
  BY DEF IInv, Queued
<1>3. /\ todo' = r /\ ScopeRegistry' = Append(ScopeRegistry, Len(V))
      /\ UNCHANGED <<NDEBUG, Tree, TEXT, VarRegistry, StackPtr, IDs, ctl>>
  BY DEF BeginScope, Then
<1>4. /\ ScopeRegistry' \in Seq(Nat) /\ Len(ScopeRegistry') = n + 1
      /\ \A i \in 1 .. n : ScopeRegistry'[i] = ScopeRegistry[i]
      /\ ScopeRegistry'[n + 1] = Len(V)
  BY <1>1, <1>3
<1>5. r \in Seq(Task) /\ Ordered(r) /\ Pending(r, V)
  BY <1>1, <1>2, NoTasks, ThenKeeps DEF Pure
<1>6. Balanced(r, n + 1)
  <2>1. /\ Len(r) = Len(todo) - 1
        /\ \A k \in 1 .. Len(r) : r[k] = todo[k + 1] /\ k + 1 \in 2 .. Len(todo)
    BY <1>1, DropFirst
  <2>2. Ends(<<>>) = {} /\ Ends(todo) \ {1} = Ends(todo)
    BY <1>1 DEF Ends
  <2>3. Cardinality(Ends(r)) = Cardinality(Ends(todo))
    BY <1>1, <2>2, NoTasks, EndsCounted
  <2>4. Cardinality(Ends(r)) = n + 1
    BY <1>1, <1>2, <2>3 DEF Balanced
  <2> HIDE DEF r
  <2>5. \A k \in 1 .. Len(r) : r[k].do # "begin"
    <3>1. \A k \in 2 .. Len(todo) : todo[k].do # "begin"
      BY <1>2 DEF Balanced
    <3> QED  BY <2>1, <3>1
  <2>6. r # <<>> => 1 \in 1 .. Len(r)
    BY <1>5
  <2> QED  BY <1>1, <1>5, <2>4, <2>5, <2>6 DEF Balanced
<1>7. Queued(todo, VarRegistry, Len(ScopeRegistry))'
  BY <1>3, <1>4, <1>5, <1>6 DEF Queued
<1>8. Nested'
  <2> SUFFICES ASSUME NEW i \in 1 .. n + 1
               PROVE  /\ ScopeRegistry'[i] <= Len(V)
                      /\ \A j \in i .. n + 1 : ScopeRegistry'[i] <= ScopeRegistry'[j]
    BY <1>3, <1>4 DEF Nested
  <2>1. CASE i \in 1 .. n
    <3>1. ScopeRegistry'[i] = ScopeRegistry[i] /\ ScopeRegistry[i] <= Len(V)
      BY <1>4, <2>1 DEF IInv, Nested
    <3>2. ASSUME NEW j \in i .. n + 1
          PROVE  ScopeRegistry'[i] <= ScopeRegistry'[j]
      <4>1. CASE j \in i .. n
        BY <1>4, <2>1, <4>1 DEF IInv, Nested
      <4>2. CASE j = n + 1
        BY <1>4, <3>1, <4>2
      <4> QED  BY <1>1, <2>1, <4>1, <4>2
    <3> QED  BY <3>1, <3>2
  <2>2. CASE i = n + 1
    BY <1>1, <1>4, <2>2
  <2> QED  BY <1>1, <2>1, <2>2
<1>9. TypeOK' /\ NamesUnique'
  <2>1. (Doing("store") => Head(todo).index \in 1 .. Len(VarRegistry))'
    BY <1>7, StoreInRange, PTL
  <2> QED  BY <1>3, <1>4, <1>5, <2>1 DEF IInv, TypeOK, NamesUnique
<1> QED  BY <1>7, <1>8, <1>9 DEF IInv

(* An end at the head of the queue belongs to a scope that is open.        *)
LEMMA EndHasScope ==
  ASSUME NEW s \in Seq(Task), s # <<>>, s[1].do = "end", NEW n \in Nat, Balanced(s, n)
  PROVE  n > 0 /\ Cardinality(Ends(s) \ {1}) = n - 1
<1>1. 1 \in Ends(s)
  BY DEF Ends
<1>2. Cardinality(Ends(s)) = n
  BY DEF Balanced
<1>3. IsFiniteSet(Ends(s)) /\ Cardinality(Ends(s)) \in Nat
  BY EndsFinite
<1>4. /\ IsFiniteSet(Ends(s) \ {1})
      /\ Cardinality(Ends(s) \ {1}) = Cardinality(Ends(s)) - 1
  BY <1>1, <1>3, FS_RemoveElement
<1>5. Cardinality(Ends(s) \ {1}) \in Nat
  BY <1>4, FS_CardinalityType
<1> QED  BY <1>2, <1>4, <1>5

LEMMA EndScopeKeeps ==
  ASSUME IInv, EndScope
  PROVE  IInv'
<1> DEFINE V == VarRegistry
           n == Len(ScopeRegistry)
           r == <<>> \o Tail(todo)
           kept == ScopeRegistry[n]
<1>1. /\ todo \in Seq(Task) /\ todo # <<>> /\ todo[1].do = "end"
      /\ V \in Seq(Variable) /\ ScopeRegistry \in Seq(Nat) /\ Len(V) \in Nat /\ n \in Nat
      /\ StackPtr \in Int /\ TEXT \in Seq([ins : Instr, sp : Int])
  BY FirstTask DEF IInv, EndScope, TypeOK
<1>2. Ordered(todo) /\ Pending(todo, V) /\ Balanced(todo, n)
  BY DEF IInv, Queued
<1>3. n > 0 /\ Cardinality(Ends(todo) \ {1}) = n - 1
  BY <1>1, <1>2, EndHasScope
<1>4. kept \in Nat /\ kept <= Len(V)
  BY <1>1, <1>3 DEF IInv, Nested
<1>5. /\ todo' = r /\ ScopeRegistry' = SubSeq(ScopeRegistry, 1, n - 1)
      /\ VarRegistry' = SubSeq(V, 1, kept) /\ StackPtr' = StackPtr - (Len(V) - kept)
      /\ TEXT' = Append(TEXT, Line(Imm("drop", "rsp", Len(V) - kept)))
      /\ UNCHANGED <<NDEBUG, Tree, IDs, ctl>>
  BY DEF EndScope, Then, Closed, Lowered, Write
<1>6. /\ ScopeRegistry' \in Seq(Nat) /\ Len(ScopeRegistry') = n - 1
      /\ \A i \in 1 .. n - 1 : ScopeRegistry'[i] = ScopeRegistry[i]
  <2>1. n - 1 \in 0 .. Len(ScopeRegistry)
    BY <1>1, <1>3
  <2> QED  BY <1>1, <1>5, <2>1, Prefix
<1>7. /\ VarRegistry' \in Seq(Variable) /\ Len(VarRegistry') = kept
      /\ \A i \in 1 .. kept : VarRegistry'[i] = V[i]
  <2>1. kept \in 0 .. Len(V)
    BY <1>1, <1>4
  <2> QED  BY <1>1, <1>5, <2>1, Prefix
<1>8. r \in Seq(Task) /\ Ordered(r)
  BY <1>1, <1>2, NoTasks, ThenKeeps DEF Pure
<1>9. Pending(r, VarRegistry')
  <2>1. \A k \in 1 .. Len(r) : r[k].do \notin {"register", "store"}
    BY <1>1, <1>2, FreeTail DEF Pure
  <2> QED  BY <2>1 DEF Pending
<1>10. Balanced(r, n - 1)
  <2>1. /\ Len(r) = Len(todo) - 1
        /\ \A k \in 1 .. Len(r) : r[k] = todo[k + 1] /\ k + 1 \in 2 .. Len(todo)
    BY <1>1, DropFirst
  <2>2. Ends(<<>>) = {}
    BY DEF Ends
  <2>3. Cardinality(Ends(r)) = n - 1
    BY <1>1, <1>3, <2>2, NoTasks, EndsCounted
  <2> HIDE DEF r
  <2>4. \A k \in 1 .. Len(r) : r[k].do # "begin"
    <3>1. \A k \in 2 .. Len(todo) : todo[k].do # "begin"
      BY <1>2 DEF Balanced
    <3> QED  BY <2>1, <3>1
  <2>5. r # <<>> => 1 \in 1 .. Len(r)
    BY <1>8
  <2> QED  BY <1>1, <1>8, <2>3, <2>4, <2>5 DEF Balanced
<1>11. Queued(todo, VarRegistry, Len(ScopeRegistry))'
  BY <1>5, <1>6, <1>8, <1>9, <1>10 DEF Queued
<1>12. Nested'
  <2> SUFFICES ASSUME NEW i \in 1 .. n - 1
               PROVE  /\ ScopeRegistry[i] <= kept
                      /\ \A j \in i .. n - 1 : ScopeRegistry[i] <= ScopeRegistry[j]
    BY SMTT(20), <1>6, <1>7 DEF Nested
  <2>1. \A j \in i .. n : ScopeRegistry[i] <= ScopeRegistry[j]
    BY <1>1 DEF IInv, Nested
  <2> QED  BY <1>1, <1>3, <2>1
<1>13. NamesUnique'
  <2> SUFFICES ASSUME NEW i \in 1 .. kept, NEW j \in 1 .. kept,
                      VarRegistry'[i].Ident = VarRegistry'[j].Ident
               PROVE  i = j
    BY <1>7 DEF NamesUnique
  <2>1. i \in 1 .. Len(V) /\ j \in 1 .. Len(V)
    BY <1>1, <1>4
  <2> QED  BY <1>7, <2>1 DEF IInv, NamesUnique
<1>14. TypeOK'
  <2>1. (Doing("store") => Head(todo).index \in 1 .. Len(VarRegistry))'
    BY <1>11, StoreInRange, PTL
  <2>2. Len(V) - kept \in Int
    BY <1>1, <1>4
  <2>3. Imm("drop", "rsp", Len(V) - kept) \in Instr
    BY <2>2, InstrType, Names
  <2>4. TEXT' \in Seq([ins : Instr, sp : Int])
    BY <1>1, <1>5, <2>3 DEF Line
  <2>5. StackPtr' \in Int
    BY <1>1, <1>5, <2>2
  <2> QED  BY <1>5, <1>6, <1>7, <1>8, <2>1, <2>4, <2>5 DEF IInv, TypeOK
<1> QED  BY <1>11, <1>12, <1>13, <1>14 DEF IInv

-----------------------------------------------------------------------------
LEMMA InitKeeps ==
  ASSUME Init
  PROVE  IInv
<1>1. Tree \in Seq(StmtNodes)
  BY GeneratorAssumption DEF Init
<1>2. todo = [i \in 1 .. Len(Tree) |-> Stmt(Tree[i])]
  BY DEF Init
<1>3. \A i \in 1 .. Len(Tree) : Stmt(Tree[i]) \in Task /\ Stmt(Tree[i]).do = "stmt"
  BY <1>1, TaskType DEF Stmt
<1>4. /\ todo \in Seq(Task) /\ Len(todo) \in Nat
      /\ \A k \in 1 .. Len(todo) : todo[k].do = "stmt"
  BY <1>1, <1>2, <1>3
<1>5. VarRegistry = <<>> /\ ScopeRegistry = <<>> /\ Len(ScopeRegistry) = 0
  BY DEF Init
<1>6. Queued(todo, VarRegistry, Len(ScopeRegistry))
  <2>1. Ends(todo) = {}
    BY <1>4 DEF Ends
  <2>2. Cardinality(Ends(todo)) = 0
    BY <2>1, FS_EmptySet
  <2>3. todo # <<>> => 1 \in 1 .. Len(todo)
    BY <1>4
  <2>4. Balanced(todo, 0)
    BY <1>4, <2>2, <2>3 DEF Balanced
  <2>5. Ordered(todo) /\ Pending(todo, VarRegistry)
    BY <1>4 DEF Ordered, Pending
  <2> QED  BY <1>4, <1>5, <2>4, <2>5 DEF Queued
<1>7. TypeOK
  <2>1. Doing("store") => Head(todo).index \in 1 .. Len(VarRegistry)
    BY <1>6, StoreInRange
  <2>2. TEXT = <<>> /\ StackPtr = 0 /\ ctl = "gen" /\ NDEBUG \in BOOLEAN
    BY DEF Init
  <2>3. IDs \in [Counters -> Nat] /\ IDs.exp < ExpWrap
    BY GeneratorAssumption DEF Init, Counters
  <2>4. TEXT \in Seq([ins : Instr, sp : Int]) /\ VarRegistry \in Seq(Variable)
    BY <1>5, <2>2
  <2>5. ScopeRegistry \in Seq(Nat)
    BY <1>5
  <2>6. StackPtr \in Int /\ ctl \in {"gen", "exit", "crash"}
    BY <2>2
  <2> QED  BY <1>1, <1>4, <2>1, <2>2, <2>3, <2>4, <2>5, <2>6 DEF TypeOK
<1>8. NamesUnique /\ Nested
  BY <1>5 DEF NamesUnique, Nested
<1> QED  BY <1>6, <1>7, <1>8 DEF IInv

LEMMA StepKeeps ==
  ASSUME IInv, [Step]_genvars
  PROVE  IInv'
<1>1. CASE Step
  BY <1>1, GenKeeps, GenTermKeeps, GenVarDefKeeps, GenDeclKeeps, GenAsgnKeeps,
     WriteKeeps, EndingKeeps, RegisterVarKeeps, StoreVarKeeps, BeginScopeKeeps,
     EndScopeKeeps DEF Step
<1>2. CASE UNCHANGED genvars
  BY <1>2 DEF genvars, IInv, TypeOK, NamesUnique, Nested, Doing
<1> QED  BY <1>1, <1>2

LEMMA InvariantHolds == Spec => []IInv
<1>1. Init => IInv
  BY InitKeeps
<1>2. IInv /\ [Step]_genvars => IInv'
  BY StepKeeps
<1> QED  BY <1>1, <1>2, PTL DEF Spec

-----------------------------------------------------------------------------
(* The state keeps its types: ExpCount stays below its width, and the      *)
(* Variable* that GenAsgn (generate.c:296) looks up before its expression  *)
(* is generated still points into the registry when the value is stored.   *)
THEOREM TypeCorrect == Spec => []TypeOK
<1>1. IInv => TypeOK
  BY DEF IInv
<1> QED  BY <1>1, InvariantHolds, PTL

(* No name is entered twice into VarRegistry, though GenVarDef             *)
(* (generate.c:260) tests for it before, and enters it after, it generates *)
(* an expression.                                                          *)
THEOREM NamesAreUnique == Spec => []NamesUnique
<1>1. IInv => NamesUnique
  BY DEF IInv
<1> QED  BY <1>1, InvariantHolds, PTL

(* EndScope (generator.c:70) always finds a scope, subtracts no more       *)
(* variables than there are, and leaves none open when the tree is done.   *)
THEOREM ScopesAreNested == Spec => []ScopesNest
<1>1. IInv => ScopesNest
  <2> SUFFICES ASSUME IInv
               PROVE  ScopesNest
    OBVIOUS
  <2>1. /\ todo \in Seq(Task) /\ ScopeRegistry \in Seq(Nat)
        /\ Balanced(todo, Len(ScopeRegistry))
    BY DEF IInv, Queued, TypeOK
  <2>2. ASSUME NEW i \in 1 .. Len(ScopeRegistry)
        PROVE  /\ ScopeRegistry[i] <= Len(VarRegistry)
               /\ i > 1 => ScopeRegistry[i - 1] <= ScopeRegistry[i]
    <3>1. ScopeRegistry[i] <= Len(VarRegistry)
      BY DEF IInv, Nested
    <3>2. ASSUME i > 1
          PROVE  ScopeRegistry[i - 1] <= ScopeRegistry[i]
      <4>1. i - 1 \in 1 .. Len(ScopeRegistry) /\ i \in i - 1 .. Len(ScopeRegistry)
        BY <2>1, <3>2
      <4> QED  BY <4>1 DEF IInv, Nested
    <3> QED  BY <3>1, <3>2
  <2>3. ASSUME Doing("end")
        PROVE  ScopeRegistry # <<>>
    <3>1. todo # <<>> /\ todo[1].do = "end"
      BY <2>3, FirstTask DEF IInv
    <3>2. Len(ScopeRegistry) > 0
      <4>1. Len(ScopeRegistry) \in Nat
        BY <2>1
      <4> QED  BY <2>1, <3>1, <4>1, EndHasScope
    <3> QED  BY <3>2
  <2>4. ASSUME todo = <<>>
        PROVE  ScopeRegistry = <<>>
    <3>1. Ends(todo) = {}
      BY <2>4 DEF Ends
    <3>2. Cardinality(Ends(todo)) = 0
      BY <3>1, FS_EmptySet
    <3>3. Len(ScopeRegistry) = 0
      BY <2>1, <2>4, <3>2 DEF Balanced
    <3> QED  BY <2>1, <3>3
  <2> QED  BY <2>2, <2>3, <2>4 DEF ScopesNest
<1> QED  BY <1>1, InvariantHolds, PTL

(* The process that is built never changes the generator's state: every    *)
(* behaviour of the two together is one of the generator, and has the      *)
(* properties above.                                                       *)
THEOREM MachineGenerates ==
  MachSpec => Spec /\ [](TypeOK /\ NamesUnique /\ ScopesNest)
<1>1. MachInit => Init
  BY DEF MachInit
<1>2. [MachNext]_allvars => [Step]_genvars
  <2> SUFFICES ASSUME [MachNext]_allvars
               PROVE  [Step]_genvars
    OBVIOUS
  <2>1. CASE Step /\ UNCHANGED machvars
    BY <2>1
  <2>2. CASE Assemble
    BY <2>2 DEF Assemble
  <2>3. CASE Run
    BY <2>3 DEF Run, XPush, XPop, XDrop, XStore, XCompute, XDiv, XJump, XSyscall,
                XRunOff
  <2>4. CASE UNCHANGED allvars
    BY <2>4 DEF allvars
  <2> QED  BY <2>1, <2>2, <2>3, <2>4 DEF MachNext
<1>3. MachSpec => Spec
  BY <1>1, <1>2, PTL DEF MachSpec, Spec
<1> QED  BY <1>3, TypeCorrect, NamesAreUnique, ScopesAreNested, PTL
=============================================================================
