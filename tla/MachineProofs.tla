---------------------------- MODULE MachineProofs ----------------------------
(***************************************************************************)
(* StackPtr and the stack of the program that is built, for every set of   *)
(* nodes and trees.                                                        *)
(*                                                                         *)
(* The first half is about the generator: what each task does to StackPtr  *)
(* is what the line it writes does to the stack, except that a declared    *)
(* variable is given its first value without a push of its own.  The       *)
(* second is about the machine, which follows the text wherever it jumps.  *)
(***************************************************************************)
EXTENDS GeneratorProofs, SequenceTheorems

Pushes == {"push", "pushi", "pushm"}
Moves  == Pushes \cup {"pop", "drop"}

NoDecl == \A n \in Nodes : n.nt # "Decl"

(* A task whose line does to the stack what the task does to StackPtr.     *)
Sound ==
  {t \in Task :
     /\ t.do = "push" => t.ins.op \in Pushes
     /\ t.do = "pop"  => t.ins.op = "pop"
     /\ t.do \in {"text", "numbered"} => t.ins.op \notin Moves
     /\ NoDecl /\ t.do = "register" => t.var.IsInit}

AllInit == \A i \in 1 .. Len(VarRegistry) : VarRegistry[i].IsInit

Tasked == todo \in Seq(Sound) /\ (NoDecl => AllInit)

-----------------------------------------------------------------------------
LEMMA SoundClass ==
  /\ \A n \in StmtNodes : Stmt(n) \in Sound
  /\ \A n \in ExprNodes : Expr(n) \in Sound
  /\ \A op \in Pushes, a, b \in Registers : Push(Ins(op, a, b)) \in Sound
  /\ \A op \in Pushes, a \in Registers, n \in Int : Push(Imm(op, a, n)) \in Sound
  /\ \A op \in Mnemonics \ Moves, a, b \in Registers : Text(Ins(op, a, b)) \in Sound
  /\ \A op \in Mnemonics \ Moves, a \in Registers, n \in Int :
       Text(Imm(op, a, n)) \in Sound
  /\ \A op \in Mnemonics \ Moves, x \in Locals : Text(ToLocal(op, x)) \in Sound
  /\ \A r \in Registers : Pop(r) \in Sound
  /\ \A c \in Counters : Count(c) \in Sound /\ Label(c) \in Sound
  /\ \A op \in Mnemonics \ Moves, x \in Locals, c \in Counters :
       Numbered(op, c, x) \in Sound
  /\ Begin \in Sound /\ End \in Sound /\ Fail \in Sound
<1>1. /\ \A n \in StmtNodes : Stmt(n) \in Sound
      /\ \A n \in ExprNodes : Expr(n) \in Sound
  BY TaskType DEF Stmt, Expr, Sound
<1>2. Pushes \subseteq Mnemonics
  BY DEF Pushes, Mnemonics
<1>3. /\ \A op \in Pushes, a, b \in Registers : Push(Ins(op, a, b)) \in Sound
      /\ \A op \in Pushes, a \in Registers, n \in Int : Push(Imm(op, a, n)) \in Sound
  BY <1>2, TaskType, InstrType DEF Push, Ins, Imm, Sound
<1>4. /\ \A op \in Mnemonics \ Moves, a, b \in Registers : Text(Ins(op, a, b)) \in Sound
      /\ \A op \in Mnemonics \ Moves, a \in Registers, n \in Int :
           Text(Imm(op, a, n)) \in Sound
      /\ \A op \in Mnemonics \ Moves, x \in Locals : Text(ToLocal(op, x)) \in Sound
  BY TaskType, InstrType DEF Text, Ins, Imm, ToLocal, Sound
<1>5. \A r \in Registers : Pop(r) \in Sound
  BY TaskType DEF Pop, Ins, Sound
<1>6. \A op \in Mnemonics \ Moves, x \in Locals, c \in Counters :
        Numbered(op, c, x) \in Sound
  BY TaskType DEF Numbered, Ins, Sound
<1>7. "label" \in Mnemonics \ Moves /\ None \in Locals
  BY Names DEF Moves, Pushes
<1>8. \A c \in Counters : Count(c) \in Sound /\ Label(c) \in Sound
  BY <1>6, <1>7, TaskType DEF Count, Label, Sound
<1>9. Begin \in Sound /\ End \in Sound /\ Fail \in Sound
  BY TaskType DEF Begin, End, Fail, Sound
<1> QED BY <1>1, <1>3, <1>4, <1>5, <1>6, <1>8, <1>9

(* The mnemonics the Gen functions write beside pushes and pops.           *)
LEMMA PlainNames ==
  /\ "push" \in Pushes /\ "pushi" \in Pushes /\ "pushm" \in Pushes
  /\ {"mov", "movi", "add", "sub", "mul", "div", "inc", "dec", "cmp", "cmpi",
      "setl", "setg", "je", "jl", "jg", "label", "syscall"} \subseteq Mnemonics \ Moves
BY DEF Pushes, Moves, Mnemonics

LEMMA SoundStmts ==
  ASSUME NEW n \in StmtNodes
  PROVE  /\ n.nt = "While" => GenWhile(n) \in Seq(Sound)
         /\ n.nt = "If"    => GenIf(n)    \in Seq(Sound)
         /\ n.nt = "For"   => GenFor(n)   \in Seq(Sound)
         /\ n.nt = "Scope" => GenScope(n) \in Seq(Sound)
         /\ n.nt = "Exit"  => GenExit(n)  \in Seq(Sound)
<1>1. n \in Nodes
  BY DEF StmtNodes
<1>2. 0 \in Int /\ 1 \in Int /\ 60 \in Int
  OBVIOUS
<1>3. CASE n.nt = "While"
  <2>1. n.kids[1] \in ExprNodes /\ n.kids[2] \in StmtNodes
    BY <1>1, <1>3, Kids
  <2>2. /\ Count("while") \in Sound /\ Label("while") \in Sound
        /\ Stmt(n.kids[2]) \in Sound /\ Expr(n.kids[1]) \in Sound
        /\ Pop("rax") \in Sound /\ Text(Imm("cmpi", "rax", 1)) \in Sound
        /\ Push(Ins("push", "rax", None)) \in Sound
        /\ Numbered("je", "while", None) \in Sound
        /\ Begin \in Sound /\ End \in Sound
    BY <1>2, <2>1, SoundClass, Names, PlainNames
  <2> QED BY <1>3, <2>2 DEF GenWhile
<1>4. CASE n.nt = "If"
  <2>1. n.kids[1] \in ExprNodes /\ n.kids[2] \in StmtNodes
    BY <1>1, <1>4, Kids
  <2>2. /\ Expr(n.kids[1]) \in Sound /\ Count("if") \in Sound
        /\ Pop("rax") \in Sound /\ Text(Imm("cmpi", "rax", 0)) \in Sound
        /\ Numbered("je", "if", ".se") \in Sound /\ Label("if") \in Sound
        /\ Stmt(n.kids[2]) \in Sound
    BY <1>2, <2>1, SoundClass, Names, PlainNames
  <2> QED BY <1>4, <2>2 DEF GenIf
<1>5. CASE n.nt = "For"
  <2>1. n.kids[1] \in StmtNodes /\ n.kids[2] \in ExprNodes /\ n.kids[3] \in StmtNodes
    BY <1>1, <1>5, Kids
  <2>2. /\ Stmt(n.kids[1]) \in Sound /\ Expr(n.kids[2]) \in Sound
        /\ Pop("rax") \in Sound /\ Pop("rcx") \in Sound
        /\ Text(Ins("add", "rax", "rcx")) \in Sound
        /\ Push(Ins("push", "rcx", None)) \in Sound
        /\ Push(Ins("push", "rax", None)) \in Sound
        /\ Count("for") \in Sound /\ Label("for") \in Sound
        /\ Stmt(n.kids[3]) \in Sound
        /\ Text(Ins("inc", "rcx", None)) \in Sound
        /\ Text(Ins("cmp", "rcx", "rax")) \in Sound
        /\ Numbered("jl", "for", None) \in Sound
        /\ Begin \in Sound /\ End \in Sound
    BY <1>2, <2>1, SoundClass, Names, PlainNames
  <2> QED BY <1>5, <2>2 DEF GenFor
<1>6. CASE n.nt = "Scope"
  <2> DEFINE body == [i \in 1 .. Len(n.kids) |-> Stmt(n.kids[i])]
  <2>1. n.kids \in Seq(Nodes) /\ \A i \in 1 .. Len(n.kids) : n.kids[i] \in StmtNodes
    BY <1>1, <1>6, Kids
  <2>2. body \in Seq(Sound)
    BY <2>1, SoundClass
  <2>3. /\ Text(ToLocal("label", ".sb")) \in Sound
        /\ Text(ToLocal("label", ".se")) \in Sound
    BY SoundClass, Names, PlainNames
  <2>4. /\ << Text(ToLocal("label", ".sb")) >> \in Seq(Sound)
        /\ << Text(ToLocal("label", ".se")) >> \in Seq(Sound)
    BY <2>3
  <2> QED BY <1>6, <2>2, <2>4 DEF GenScope
<1>7. CASE n.nt = "Exit"
  <2>1. n.kids[1] \in ExprNodes
    BY <1>1, <1>7, Kids
  <2>2. /\ Expr(n.kids[1]) \in Sound /\ Text(Imm("movi", "rax", 60)) \in Sound
        /\ Pop("rdi") \in Sound /\ Text(Ins("syscall", None, None)) \in Sound
    BY <1>2, <2>1, SoundClass, Names, PlainNames
  <2> QED BY <1>7, <2>2 DEF GenExit
<1> QED BY <1>3, <1>4, <1>5, <1>6, <1>7

LEMMA SoundArithmetic ==
  ASSUME NEW op
  PROVE  Arithmetic(op) \in Seq(Sound)
<1>1. 1 \in Int
  OBVIOUS
<1>2. /\ Text(Ins("add", "rax", "rbx")) \in Sound
      /\ Text(Ins("sub", "rax", "rbx")) \in Sound
      /\ Text(Ins("mul", "rbx", None)) \in Sound
      /\ Text(Ins("div", "rbx", None)) \in Sound
      /\ Text(Ins("cmp", "rax", "rbx")) \in Sound
      /\ Text(Ins("setl", "rax", None)) \in Sound
      /\ Text(Ins("setg", "rax", None)) \in Sound
      /\ Text(Ins("mov", "rcx", "rax")) \in Sound
      /\ Text(Ins("mul", "rcx", None)) \in Sound
      /\ Text(Ins("dec", "rbx", None)) \in Sound
      /\ Text(Imm("cmpi", "rbx", 1)) \in Sound
  BY <1>1, SoundClass, Names, PlainNames
<1>3. /\ Text(ToLocal("je", ".ee")) \in Sound /\ Text(ToLocal("jg", ".eb")) \in Sound
      /\ Text(ToLocal("label", ".eb")) \in Sound
      /\ Text(ToLocal("label", ".ee")) \in Sound
      /\ Count("exp") \in Sound /\ Label("exp") \in Sound /\ Fail \in Sound
  BY SoundClass, Names, PlainNames
<1>4. CASE op = "^"
  BY <1>2, <1>3, <1>4 DEF Arithmetic
<1>5. CASE op \in {"+", "-", "*", "/"}
  BY <1>2, <1>5 DEF Arithmetic
<1>6. CASE op \in {"<", ">"}
  BY <1>2, <1>6 DEF Arithmetic
<1>7. CASE op \notin {"^", "+", "-", "*", "/", "<", ">"}
  <2>1. Arithmetic(op) = << Fail >>
    BY <1>7 DEF Arithmetic
  <2> QED BY <1>3, <2>1
<1> QED BY <1>4, <1>5, <1>6, <1>7

LEMMA SoundExprs ==
  ASSUME NEW n \in ExprNodes
  PROVE  /\ n.nt = "BinExpr"  => GenBinExpr(n)  \in Seq(Sound)
         /\ n.nt = "Interval" => GenInterval(n) \in Seq(Sound)
<1>1. n \in Nodes
  BY DEF ExprNodes
<1>2. CASE n.nt = "BinExpr"
  <2> DEFINE before == << Expr(n.kids[1]), Expr(n.kids[2]), Pop("rbx"), Pop("rax") >>
             after  == << Push(Ins("push", "rax", None)) >>
  <2>1. n.kids[1] \in ExprNodes /\ n.kids[2] \in ExprNodes
    BY <1>1, <1>2, Kids
  <2>2. /\ Expr(n.kids[1]) \in Sound /\ Expr(n.kids[2]) \in Sound
        /\ Pop("rbx") \in Sound /\ Pop("rax") \in Sound
        /\ Push(Ins("push", "rax", None)) \in Sound
    BY <2>1, SoundClass, Names, PlainNames
  <2>3. before \in Seq(Sound) /\ after \in Seq(Sound)
    BY <2>2
  <2>4. Arithmetic(n.name) \in Seq(Sound)
    BY SoundArithmetic
  <2>5. GenBinExpr(n) = before \o Arithmetic(n.name) \o after
    BY DEF GenBinExpr
  <2> HIDE DEF before, after
  <2> QED BY <1>2, <2>3, <2>4, <2>5
<1>3. CASE n.nt = "Interval"
  <2>1. n.kids[1] \in ExprNodes /\ n.kids[2] \in ExprNodes
    BY <1>1, <1>3, Kids
  <2>2. /\ Expr(n.kids[2]) \in Sound /\ Expr(n.kids[1]) \in Sound
        /\ Pop("rax") \in Sound /\ Pop("rbx") \in Sound
        /\ Text(Ins("sub", "rbx", "rax")) \in Sound
        /\ Push(Ins("push", "rbx", None)) \in Sound
    BY <2>1, SoundClass, Names, PlainNames
  <2> QED BY <1>3, <2>2 DEF GenInterval
<1> QED BY <1>2, <1>3
LEMMA SoundThen ==
  ASSUME todo \in Seq(Sound), todo # <<>>, NEW p \in Seq(Sound), Then(p)
  PROVE  todo' \in Seq(Sound)
<1>1. Tail(todo) \in Seq(Sound)
  OBVIOUS
<1> QED BY <1>1 DEF Then

LEMMA StepTasked == IInv /\ Tasked /\ Step => Tasked'
<1> SUFFICES ASSUME IInv, Tasked, Step PROVE Tasked'
  OBVIOUS
<1>0. <<>> \in Seq(Sound)
  OBVIOUS
<1>1. /\ todo \in Seq(Sound) /\ todo \in Seq(Task) /\ VarRegistry \in Seq(Variable)
      /\ StackPtr \in Int
  BY DEF IInv, TypeOK, Tasked
<1>2. ASSUME NEW d, Doing(d)
      PROVE  todo # <<>> /\ Head(todo) \in Sound /\ Head(todo).do = d
  BY <1>1, <1>2 DEF Doing
<1>3. ASSUME NEW kind, On("stmt", kind)
      PROVE  todo # <<>> /\ Node \in StmtNodes /\ Node \in Nodes /\ Node.nt = kind
  BY <1>2, <1>3, TaskFields DEF On, Node, Sound, StmtNodes
<1>4. ASSUME NEW kind, On("expr", kind)
      PROVE  todo # <<>> /\ Node \in ExprNodes /\ Node \in Nodes /\ Node.nt = kind
  BY <1>2, <1>4, TaskFields DEF On, Node, Sound, ExprNodes
<1>5. ASSUME UNCHANGED VarRegistry, todo # <<>>, NEW p \in Seq(Sound), Then(p)
      PROVE  Tasked'
  BY <1>1, <1>5, SoundThen DEF Tasked, AllInit
<1>6. ASSUME UNCHANGED VarRegistry, todo # <<>>, Then(<<>>)
      PROVE  Tasked'
  BY <1>0, <1>5, <1>6
<1>18. ASSUME NEW a \in Sound PROVE << a >> \in Seq(Sound)
  OBVIOUS
<1>19. ASSUME NEW a \in Sound, NEW b \in Sound PROVE << a, b >> \in Seq(Sound)
  OBVIOUS
<1>7. CASE Gen
  <2>1. UNCHANGED VarRegistry
    BY <1>7 DEF Gen
  <2>2. CASE On("stmt", "While") /\ Then(GenWhile(Node))
    BY <1>3, <1>5, <2>1, <2>2, SoundStmts
  <2>3. CASE On("stmt", "If") /\ Then(GenIf(Node))
    BY <1>3, <1>5, <2>1, <2>3, SoundStmts
  <2>4. CASE On("stmt", "For") /\ Then(GenFor(Node))
    BY <1>3, <1>5, <2>1, <2>4, SoundStmts
  <2>5. CASE On("stmt", "Scope") /\ Then(GenScope(Node))
    BY <1>3, <1>5, <2>1, <2>5, SoundStmts
  <2>6. CASE On("stmt", "Exit") /\ Then(GenExit(Node))
    BY <1>3, <1>5, <2>1, <2>6, SoundStmts
  <2>7. CASE On("expr", "BinExpr") /\ Then(GenBinExpr(Node))
    BY <1>4, <1>5, <2>1, <2>7, SoundExprs
  <2>8. CASE On("expr", "Interval") /\ Then(GenInterval(Node))
    BY <1>4, <1>5, <2>1, <2>8, SoundExprs
  <2> QED BY <1>7, <2>2, <2>3, <2>4, <2>5, <2>6, <2>7, <2>8 DEF Gen
<1>8. CASE GenTerm
  <2>1. UNCHANGED VarRegistry
    BY <1>8 DEF GenTerm
  <2>2. CASE On("expr", "Num") /\ Then(<< Push(Imm("pushi", None, Node.num)) >>)
    <3>1. Node.num \in Int
      BY <1>4, <2>2, GeneratorAssumption DEF WellFormed
    <3>2. Push(Imm("pushi", None, Node.num)) \in Sound
      BY <3>1, SoundClass, Names, PlainNames
    <3>3. << Push(Imm("pushi", None, Node.num)) >> \in Seq(Sound)
      BY <3>2
    <3> QED BY <1>4, <1>5, <2>1, <2>2, <3>3
  <2>3. CASE /\ On("expr", "Ident") /\ Known(Node.name)
             /\ Then(<< Push(Imm("pushm", "rsp", Offset(StackPtr, FindVar(Node.name)))) >>)
    <3>1. FindVar(Node.name) \in 1 .. Len(VarRegistry)
      BY <2>3, FindVarFinds DEF IInv
    <3>2. Offset(StackPtr, FindVar(Node.name)) \in Int
      <4>1. VarRegistry[FindVar(Node.name)] \in Variable
        BY <1>1, <3>1
      <4> QED BY <1>1, <4>1 DEF Offset, Variable
    <3>3. Push(Imm("pushm", "rsp", Offset(StackPtr, FindVar(Node.name)))) \in Sound
      BY <3>2, SoundClass, Names, PlainNames
    <3>4. << Push(Imm("pushm", "rsp", Offset(StackPtr, FindVar(Node.name)))) >>
            \in Seq(Sound)
      BY <3>3
    <3> QED BY <1>4, <1>5, <2>1, <2>3, <3>4
  <2>4. CASE On("expr", "Ident") /\ Then(<<>>)
    BY <1>4, <1>6, <2>1, <2>4
  <2> QED BY <1>8, <2>2, <2>3, <2>4 DEF GenTerm
<1>9. CASE GenVarDef
  <2>1. UNCHANGED VarRegistry /\ On("stmt", "VarDef")
    BY <1>9 DEF GenVarDef
  <2>2. CASE Then(<<>>)
    BY <1>3, <1>6, <2>1, <2>2
  <2>3. CASE Then(<< Expr(Node.kids[1]), Register(Node.name, Node.num = 1, TRUE) >>)
    <3>1. Node.kids[1] \in ExprNodes /\ Node.name \in STRING
      BY <1>3, <2>1, Kids, GeneratorAssumption DEF WellFormed
    <3>2. Register(Node.name, Node.num = 1, TRUE) \in Sound
      BY <3>1 DEF Register, Task, Sound
    <3>3. Expr(Node.kids[1]) \in Sound
      BY <3>1, SoundClass
    <3>4. << Expr(Node.kids[1]), Register(Node.name, Node.num = 1, TRUE) >> \in Seq(Sound)
      BY <1>19, <3>2, <3>3, Zenon
    <3> QED BY <1>3, <1>5, <2>1, <2>3, <3>4
  <2> QED BY <1>9, <2>2, <2>3 DEF GenVarDef
<1>10. CASE GenDecl
  <2>1. UNCHANGED VarRegistry /\ On("stmt", "Decl")
    BY <1>10 DEF GenDecl
  <2>2. CASE Then(<<>>)
    BY <1>3, <1>6, <2>1, <2>2
  <2>3. CASE Then(<< Register(Node.name, Node.num = 1, FALSE) >>)
    <3>1. Node.name \in STRING /\ ~NoDecl
      BY <1>3, <2>1, GeneratorAssumption DEF WellFormed, NoDecl
    <3>2. Register(Node.name, Node.num = 1, FALSE) \in Sound
      BY <3>1 DEF Register, Task, Sound
    <3>3. << Register(Node.name, Node.num = 1, FALSE) >> \in Seq(Sound)
      BY <1>18, <3>2, Zenon
    <3> QED BY <1>3, <1>5, <2>1, <2>3, <3>3
  <2> QED BY <1>10, <2>2, <2>3 DEF GenDecl
<1>11. CASE GenAsgn
  <2>1. /\ UNCHANGED VarRegistry /\ todo # <<>>
        /\ Node \in Nodes /\ Node.nt = "Asgn"
    BY <1>3, <1>4, <1>11 DEF GenAsgn
  <2>2. CASE Then(<<>>)
    BY <1>6, <2>1, <2>2
  <2>3. CASE Known(Node.name) /\ Then(<< Expr(Node.kids[1]), Store(FindVar(Node.name)) >>)
    <3>1. Node.kids[1] \in ExprNodes
      BY <2>1, Kids
    <3>2. FindVar(Node.name) \in 1 .. Len(VarRegistry)
      BY <2>3, FindVarFinds DEF IInv
    <3>3. Store(FindVar(Node.name)) \in Sound
      BY <3>2 DEF Store, Task, Sound
    <3>4. Expr(Node.kids[1]) \in Sound
      BY <3>1, SoundClass
    <3>5. << Expr(Node.kids[1]), Store(FindVar(Node.name)) >> \in Seq(Sound)
      BY <3>3, <3>4
    <3> QED BY <1>5, <2>1, <2>3, <3>5
  <2> QED BY <1>11, <2>2, <2>3 DEF GenAsgn
<1>12. CASE GenFunction
  <2>1. UNCHANGED VarRegistry /\ todo # <<>>
    BY <1>3, <1>4, <1>12 DEF GenFunction
  <2>2. CASE UNCHANGED todo
    BY <2>1, <2>2 DEF Tasked, AllInit
  <2> QED BY <1>6, <1>12, <2>1, <2>2 DEF GenFunction
<1>13. CASE InvalidOperator \/ Overrun
  BY <1>13 DEF InvalidOperator, Overrun, Tasked, AllInit
<1>14. CASE PushStack \/ PopStack \/ TextEntry \/ NextID \/ NumberedEntry \/ BeginScope
  BY <1>2, <1>6, <1>14
     DEF PushStack, PopStack, TextEntry, NextID, NumberedEntry, BeginScope
<1>15. CASE RegisterVar
  <2>1. todo # <<>> /\ Head(todo) \in Sound /\ Head(todo).do = "register" /\ Then(<<>>)
    BY <1>2, <1>15 DEF RegisterVar
  <2>2. todo' \in Seq(Sound)
    BY <1>1, <1>0, <2>1, SoundThen
  <2>3. ASSUME NoDecl PROVE AllInit'
    <3>1. AllInit /\ Head(todo).var.IsInit
      BY <2>1, <2>3 DEF Tasked, Sound
    <3>2. PICK v : VarRegistry' = Append(VarRegistry, v) /\ v.IsInit
      BY <1>15, <3>1 DEF RegisterVar
    <3>3. /\ Len(VarRegistry') = Len(VarRegistry) + 1 /\ Len(VarRegistry) \in Nat
          /\ \A i \in 1 .. Len(VarRegistry) : VarRegistry'[i] = VarRegistry[i]
          /\ VarRegistry'[Len(VarRegistry) + 1] = v
      BY <1>1, <3>2
    <3> QED BY <3>1, <3>2, <3>3 DEF AllInit
  <2> QED BY <2>2, <2>3 DEF Tasked
<1>16. CASE StoreVar
  <2>1. todo # <<>> /\ Then(<<>>)
    BY <1>2, <1>16 DEF StoreVar
  <2>2. todo' \in Seq(Sound)
    BY <1>1, <1>0, <2>1, SoundThen
  <2>3. ASSUME NoDecl PROVE AllInit'
    <3>1. AllInit
      BY <2>3 DEF Tasked
    <3>2. Head(todo).index \in 1 .. Len(VarRegistry)
      BY <1>16 DEF StoreVar, IInv, TypeOK
    <3>3. UNCHANGED VarRegistry
      BY <1>16, <3>1, <3>2 DEF StoreVar, AllInit
    <3> QED BY <3>1, <3>3 DEF AllInit
  <2> QED BY <2>2, <2>3 DEF Tasked
<1>17. CASE EndScope
  <2>1. todo # <<>> /\ Then(<<>>)
    BY <1>2, <1>17 DEF EndScope
  <2>2. todo' \in Seq(Sound)
    BY <1>1, <1>0, <2>1, SoundThen
  <2>3. ASSUME NoDecl PROVE AllInit'
    <3> DEFINE kept == ScopeRegistry[Len(ScopeRegistry)]
    <3>1. AllInit /\ VarRegistry' = SubSeq(VarRegistry, 1, kept)
      BY <1>17, <2>3 DEF Tasked, EndScope
    <3>2. kept \in 0 .. Len(VarRegistry)
      <4>1. ScopeRegistry \in Seq(Nat) /\ Len(ScopeRegistry) \in Nat
        BY DEF IInv, TypeOK
      <4>2. todo # <<>> /\ todo[1].do = "end"
        BY <1>2, <1>17 DEF EndScope
      <4>3. Balanced(todo, Len(ScopeRegistry))
        BY DEF IInv, Queued
      <4>4. Len(ScopeRegistry) > 0
        BY <1>1, <4>1, <4>2, <4>3, EndHasScope
      <4>5. kept \in Nat /\ Len(ScopeRegistry) \in 1 .. Len(ScopeRegistry)
        BY <4>1, <4>4
      <4>6. kept <= Len(VarRegistry)
        BY <4>5 DEF IInv, Nested
      <4> QED BY <1>1, <4>5, <4>6
    <3> HIDE DEF kept
    <3>3. /\ Len(VarRegistry') = kept
          /\ \A i \in 1 .. kept : VarRegistry'[i] = VarRegistry[i]
      BY <1>1, <3>1, <3>2
    <3> QED BY <3>1, <3>2, <3>3 DEF AllInit
  <2> QED BY <2>2, <2>3 DEF Tasked
<1> QED
  BY <1>7, <1>8, <1>9, <1>10, <1>11, <1>12, <1>13, <1>14, <1>15, <1>16, <1>17 DEF Step
-----------------------------------------------------------------------------
(* The text T accounts for a StackPtr of p: line by line it is never below *)
(* what the lines have pushed, and above it only if a variable may be      *)
(* declared without a value.                                               *)
Lines == [ins : Instr, sp : Int]

Accounts(T, p) ==
  \A i \in 0 .. Len(T) :
    LET after == IF i = 0 THEN 0 ELSE T[i].sp + Effect(T[i].ins)
        next  == IF i < Len(T) THEN T[i + 1].sp ELSE p
    IN  after <= next /\ (NoDecl => next = after)

LEMMA EffectType == \A i \in Instr : Effect(i) \in Int
BY DEF Effect, Instr

LEMMA AccountsAppend ==
  ASSUME NEW T \in Seq(Lines), NEW p \in Int, NEW i \in Instr, Accounts(T, p)
  PROVE  Accounts(Append(T, [ins |-> i, sp |-> p]), p + Effect(i))
<1> DEFINE l == [ins |-> i, sp |-> p]
           R == Append(T, l)
<1>1. Len(T) \in Nat /\ Effect(i) \in Int /\ l \in Lines
  BY EffectType DEF Lines
<1>2. /\ Len(R) = Len(T) + 1 /\ R[Len(T) + 1] = l
      /\ \A k \in 1 .. Len(T) : R[k] = T[k]
  BY <1>1
<1> HIDE DEF R
<1>3. ASSUME NEW k \in 0 .. Len(R)
      PROVE  LET after == IF k = 0 THEN 0 ELSE R[k].sp + Effect(R[k].ins)
                 next  == IF k < Len(R) THEN R[k + 1].sp ELSE p + Effect(i)
             IN  after <= next /\ (NoDecl => next = after)
  <2>1. CASE k = Len(T) + 1
    BY <1>1, <1>2, <2>1
  <2>2. CASE k = Len(T)
    <3>1. k = 0 \/ R[k] = T[k]
      BY <1>1, <1>2, <2>2
    <3>2. R[k + 1].sp = p /\ k < Len(R) /\ k \in 0 .. Len(T) /\ ~(k < Len(T))
      BY <1>1, <1>2, <2>2
    <3> QED BY <3>1, <3>2 DEF Accounts
  <2>3. CASE k < Len(T)
    <3>1. k = 0 \/ R[k] = T[k]
      BY <1>1, <1>2, <2>3
    <3>2. R[k + 1] = T[k + 1] /\ k < Len(R) /\ k \in 0 .. Len(T)
      BY <1>1, <1>2, <2>3
    <3> QED BY <2>3, <3>1, <3>2 DEF Accounts
  <2> QED BY <1>1, <1>2, <2>1, <2>2, <2>3
<1> QED BY <1>2, <1>3 DEF Accounts, R

(* Nothing written, and StackPtr no lower.                                 *)
LEMMA AccountsRaised ==
  ASSUME NEW T \in Seq(Lines), NEW p \in Int, Accounts(T, p), ~NoDecl
  PROVE  Accounts(T, p + 1)
<1>1. ASSUME NEW i \in 0 .. Len(T)
      PROVE  (IF i = 0 THEN 0 ELSE T[i].sp + Effect(T[i].ins))
               <= (IF i < Len(T) THEN T[i + 1].sp ELSE p + 1)
  <2>1. (IF i = 0 THEN 0 ELSE T[i].sp + Effect(T[i].ins)) \in Int
    <3>1. Len(T) \in Nat
      OBVIOUS
    <3>2. ASSUME i # 0 PROVE T[i] \in Lines
      BY <3>1, <3>2
    <3> QED BY <3>2, EffectType DEF Lines
  <2> QED BY <1>1, <2>1 DEF Accounts
<1> QED BY <1>1 DEF Accounts

(* What a step writes, and what it does to StackPtr.                       *)
LEMMA StepWrites ==
  ASSUME IInv, Tasked, Step
  PROVE  \/ UNCHANGED <<TEXT, StackPtr>>
         \/ /\ ~NoDecl
            /\ TEXT' = TEXT /\ StackPtr' = StackPtr + 1
         \/ \E i \in Instr : /\ TEXT' = Append(TEXT, [ins |-> i, sp |-> StackPtr])
                             /\ StackPtr' = StackPtr + Effect(i)
         \/ \E i, j \in Instr :
              /\ Effect(i) = -1 /\ Effect(j) = 0
              /\ TEXT' = Append(Append(TEXT, [ins |-> i, sp |-> StackPtr]),
                                [ins |-> j, sp |-> StackPtr - 1])
              /\ StackPtr' = StackPtr - 1
<1>1. /\ todo \in Seq(Sound) /\ VarRegistry \in Seq(Variable) /\ StackPtr \in Int
      /\ TEXT \in Seq(Lines) /\ IDs \in [Counters -> Nat]
  BY DEF IInv, TypeOK, Tasked, Lines
<1>2. ASSUME NEW d, Doing(d)
      PROVE  /\ Head(todo) \in Sound /\ Head(todo) \in Task /\ Head(todo).do = d
  BY <1>1, <1>2 DEF Doing, Sound
<1>3. CASE \/ Gen \/ GenTerm \/ GenVarDef \/ GenDecl \/ GenAsgn \/ GenFunction
           \/ InvalidOperator \/ NextID \/ RegisterVar \/ BeginScope \/ Overrun
  BY <1>3 DEF Gen, GenTerm, GenVarDef, GenDecl, GenAsgn, GenFunction, InvalidOperator,
              NextID, RegisterVar, BeginScope, Overrun
<1>4. CASE PushStack
  <2>1. Head(todo).ins \in Instr /\ Head(todo).ins.op \in Pushes
    BY <1>2, <1>4, TaskFields DEF PushStack, Sound
  <2>2. Effect(Head(todo).ins) = 1
    BY <2>1 DEF Effect, Pushes
  <2> QED BY <1>4, <2>1, <2>2 DEF PushStack, Write, Line
<1>5. CASE PopStack
  <2>1. Head(todo).ins \in Instr /\ Head(todo).ins.op = "pop"
    BY <1>2, <1>5, TaskFields DEF PopStack, Sound
  <2>2. Effect(Head(todo).ins) = -1
    BY <2>1 DEF Effect
  <2>3. StackPtr' = StackPtr + Effect(Head(todo).ins)
    BY <1>1, <1>5, <2>2 DEF PopStack
  <2> QED BY <1>5, <2>1, <2>3 DEF PopStack, Write, Line
<1>6. CASE TextEntry
  <2>1. Head(todo).ins \in Instr /\ Head(todo).ins.op \notin Moves
    BY <1>2, <1>6, TaskFields DEF TextEntry, Sound
  <2>2. Effect(Head(todo).ins) = 0
    BY <2>1 DEF Effect, Moves, Pushes
  <2>3. StackPtr' = StackPtr + Effect(Head(todo).ins)
    BY <1>1, <1>6, <2>2 DEF TextEntry
  <2> QED BY <1>6, <2>1, <2>3 DEF TextEntry, Write, Line
<1>7. CASE NumberedEntry
  <2> DEFINE t == Head(todo)
             i == [t.ins EXCEPT !.to = At(t.id, IDs[t.id], t.loc)]
  <2>1. t.ins \in Instr /\ t.ins.op \notin Moves /\ t.id \in Counters /\ t.loc \in Locals
    BY <1>2, <1>7, TaskFields DEF NumberedEntry, Sound
  <2>2. At(t.id, IDs[t.id], t.loc) \in Labels
    BY <1>1, <2>1 DEF At, Labels
  <2>3. i \in Instr /\ i.op = t.ins.op
    BY <2>1, <2>2 DEF Instr
  <2>4. TEXT' = Append(TEXT, [ins |-> i, sp |-> StackPtr]) /\ StackPtr' = StackPtr
    BY <1>7 DEF NumberedEntry, Write, Line
  <2> HIDE DEF i
  <2>5. Effect(i) = 0
    BY <2>1, <2>3 DEF Effect, Moves, Pushes
  <2>6. StackPtr' = StackPtr + Effect(i)
    BY <1>1, <2>4, <2>5
  <2> QED BY <2>3, <2>4, <2>6
<1>8. CASE StoreVar
  <2> DEFINE k == Head(todo).index
  <2>1. k \in 1 .. Len(VarRegistry)
    BY <1>8 DEF StoreVar, IInv, TypeOK
  <2>2. VarRegistry[k] \in Variable
    BY <1>1, <2>1
  <2>3. CASE ~VarRegistry[k].IsInit
    <3>1. TEXT' = TEXT /\ StackPtr' = StackPtr + 1
      BY <1>8, <2>3 DEF StoreVar
    <3>2. ~NoDecl
      BY <2>1, <2>3 DEF Tasked, AllInit
    <3> QED BY <3>1, <3>2
  <2>4. CASE VarRegistry[k].IsInit
    <3> DEFINE i == Ins("pop", "rax", None)
               j == Imm("store", "rsp", Offset(StackPtr - 1, k))
    <3>1. TEXT' = TEXT \o << [ins |-> i, sp |-> StackPtr], [ins |-> j, sp |-> StackPtr - 1] >>
          /\ StackPtr' = StackPtr - 1
      BY <1>8, <2>4 DEF StoreVar, Line
    <3>2. Offset(StackPtr - 1, k) \in Int
      BY <1>1, <2>2 DEF Offset, Variable
    <3>3. i \in Instr /\ j \in Instr
      BY <3>2, InstrType, Names
    <3>4. Effect(i) = -1 /\ Effect(j) = 0
      BY DEF Effect, Ins, Imm
    <3> DEFINE l == [ins |-> i, sp |-> StackPtr]
               m == [ins |-> j, sp |-> StackPtr - 1]
    <3>5. l \in Lines /\ m \in Lines
      BY <1>1, <3>3 DEF Lines
    <3>6. TEXT' = TEXT \o << l, m >>
      BY <3>1
    <3> HIDE DEF l, m
    <3>7. TEXT \o << l, m >> = Append(Append(TEXT, l), m)
      BY <1>1, <3>5
    <3>8. TEXT' = Append(Append(TEXT, l), m)
      BY <3>6, <3>7
    <3> HIDE DEF i, j
    <3> QED BY <3>1, <3>3, <3>4, <3>8 DEF l, m
  <2> QED BY <2>3, <2>4
<1>9. CASE EndScope
  <2> DEFINE ended == Len(VarRegistry) - ScopeRegistry[Len(ScopeRegistry)]
             i == Imm("drop", "rsp", ended)
  <2>1. ended \in Int
    <3>1. ScopeRegistry \in Seq(Nat) /\ Len(ScopeRegistry) \in Nat
      BY DEF IInv, TypeOK
    <3>2. todo \in Seq(Task) /\ todo # <<>> /\ todo[1].do = "end"
      BY <1>9 DEF EndScope, Doing, IInv, TypeOK
    <3>3. Balanced(todo, Len(ScopeRegistry))
      BY DEF IInv, Queued
    <3>4. Len(ScopeRegistry) > 0
      BY <3>1, <3>2, <3>3, EndHasScope
    <3> QED BY <1>1, <3>1, <3>4
  <2>2. TEXT' = Append(TEXT, [ins |-> i, sp |-> StackPtr]) /\ StackPtr' = StackPtr - ended
    BY <1>9 DEF EndScope, Write, Line, Lowered
  <2>3. i \in Instr
    BY <2>1, InstrType, Names
  <2>4. Effect(i) = 0 - ended
    BY DEF Effect, Imm
  <2> HIDE DEF ended, i
  <2>5. StackPtr' = StackPtr + Effect(i)
    BY <1>1, <2>1, <2>2, <2>4
  <2> QED BY <2>2, <2>3, <2>5
<1> QED BY <1>3, <1>4, <1>5, <1>6, <1>7, <1>8, <1>9 DEF Step
LEMMA StepAccounts ==
  ASSUME IInv, Tasked, Accounts(TEXT, StackPtr), Step
  PROVE  Accounts(TEXT, StackPtr)'
<1>1. TEXT \in Seq(Lines) /\ StackPtr \in Int
  BY DEF IInv, TypeOK, Lines
<1>2. CASE UNCHANGED <<TEXT, StackPtr>>
  BY <1>2 DEF Accounts
<1>3. CASE ~NoDecl /\ TEXT' = TEXT /\ StackPtr' = StackPtr + 1
  <2>1. Accounts(TEXT, StackPtr + 1)
    BY <1>1, <1>3, AccountsRaised
  <2> QED BY <1>3, <2>1 DEF Accounts
<1>4. CASE \E i \in Instr : /\ TEXT' = Append(TEXT, [ins |-> i, sp |-> StackPtr])
                            /\ StackPtr' = StackPtr + Effect(i)
  <2>1. Accounts(TEXT', StackPtr')
    BY <1>1, <1>4, AccountsAppend
  <2> QED BY <2>1 DEF Accounts
<1>5. ASSUME NEW i \in Instr, NEW j \in Instr, Effect(i) = -1, Effect(j) = 0,
             TEXT' = Append(Append(TEXT, [ins |-> i, sp |-> StackPtr]),
                            [ins |-> j, sp |-> StackPtr - 1]),
             StackPtr' = StackPtr - 1
      PROVE  Accounts(TEXT, StackPtr)'
  <2> DEFINE T == Append(TEXT, [ins |-> i, sp |-> StackPtr])
             p == StackPtr + Effect(i)
  <2>1. T \in Seq(Lines) /\ p \in Int /\ p = StackPtr - 1 /\ p + Effect(j) = StackPtr - 1
    BY <1>1, <1>5 DEF Lines
  <2>2. Accounts(T, p)
    BY <1>1, AccountsAppend
  <2> HIDE DEF T, p
  <2>3. Accounts(Append(T, [ins |-> j, sp |-> p]), p + Effect(j))
    BY <2>1, <2>2, AccountsAppend
  <2>4. TEXT' = Append(T, [ins |-> j, sp |-> p])
    BY <1>5, <2>1 DEF T
  <2>5. Accounts(TEXT', StackPtr')
    BY <1>5, <2>1, <2>3, <2>4
  <2> QED BY <2>5 DEF Accounts
<1> QED BY <1>2, <1>3, <1>4, <1>5, StepWrites

LEMMA AccountsHold == Spec => [](IInv /\ Tasked /\ Accounts(TEXT, StackPtr))
<1>1. Init => IInv /\ Tasked /\ Accounts(TEXT, StackPtr)
  <2> SUFFICES ASSUME Init PROVE IInv /\ Tasked /\ Accounts(TEXT, StackPtr)
    OBVIOUS
  <2>1. IInv
    BY InitKeeps
  <2>2. todo \in Seq(Sound)
    <3>1. Tree \in Seq(StmtNodes)
      BY GeneratorAssumption DEF Init
    <3>2. \A i \in 1 .. Len(Tree) : Stmt(Tree[i]) \in Sound
      BY <3>1, SoundClass
    <3> QED BY <3>1, <3>2 DEF Init
  <2>3. Len(VarRegistry) = 0 /\ Len(TEXT) = 0 /\ StackPtr = 0
    BY DEF Init
  <2>4. AllInit
    BY <2>3 DEF AllInit
  <2>5. Accounts(TEXT, StackPtr)
    BY <2>3 DEF Accounts
  <2> QED BY <2>1, <2>2, <2>4, <2>5 DEF Tasked
<1>2. IInv /\ Tasked /\ Accounts(TEXT, StackPtr) /\ [Step]_genvars
        => (IInv /\ Tasked /\ Accounts(TEXT, StackPtr))'
  <2> SUFFICES ASSUME IInv, Tasked, Accounts(TEXT, StackPtr), [Step]_genvars
               PROVE  IInv' /\ Tasked' /\ Accounts(TEXT, StackPtr)'
    OBVIOUS
  <2>1. IInv'
    BY StepKeeps
  <2>2. CASE Step
    BY <2>1, <2>2, StepTasked, StepAccounts
  <2>3. CASE UNCHANGED genvars
    BY <2>1, <2>3 DEF genvars, Tasked, AllInit, Accounts
  <2> QED BY <2>1, <2>2, <2>3
<1> QED BY <1>1, <1>2, PTL DEF Spec

-----------------------------------------------------------------------------
(* The machine.  Once it is built the text no longer changes, and wherever *)
(* control is the stack is as the line there was written for.              *)
Mirrored ==
  status = "running" /\ pc <= Len(TEXT) /\ Level =>
    /\ Len(stack) <= TEXT[pc].sp
    /\ Accounted => Len(stack) = TEXT[pc].sp

MInv ==
  /\ status # "unbuilt" => Generated
  /\ status = "unbuilt" => pc = 1 /\ stack = <<>>
  /\ status = "running" => Assembles
  /\ pc \in Nat \ {0}
  /\ \E S : stack \in Seq(S)
  /\ Mirrored

LEMMA TextKept ==
  ASSUME TEXT' = TEXT, StackPtr' = StackPtr
  PROVE  /\ Level' = Level /\ Accounted' = Accounted /\ Assembles' = Assembles
<1>1. /\ Marks' = Marks /\ Jumps' = Jumps
      /\ \A i : Owner(i)' = Owner(i)
  BY DEF Marks, Jumps, Owner, IsLocal
<1>2. \A i : FullName(i)' = FullName(i)
  BY <1>1 DEF FullName, IsLocal
<1> QED BY <1>1, <1>2 DEF Level, Accounted, Assembles, After, Above

(* A line that does not jump.                                              *)
LEMMA LineMirrors ==
  ASSUME IInv, Accounts(TEXT, StackPtr), MInv, status = "running",
         pc <= Len(TEXT), UNCHANGED <<genvars, status>>, pc' = pc + 1,
         \E S : stack' \in Seq(S), Len(stack') = Len(stack) + Effect(Fetched)
  PROVE  MInv'
<1>1. /\ TEXT \in Seq(Lines) /\ pc \in 1 .. Len(TEXT) /\ Len(TEXT) \in Nat
      /\ Len(stack) \in Nat /\ TEXT' = TEXT /\ StackPtr' = StackPtr
      /\ Len(stack') \in Nat
  BY DEF IInv, TypeOK, Lines, MInv, genvars
<1>2. TEXT[pc].sp \in Int /\ Fetched = TEXT[pc].ins /\ Fetched \in Instr
      /\ Effect(Fetched) \in Int
  <2>1. TEXT[pc] \in Lines
    BY <1>1
  <2> QED BY <2>1, EffectType DEF Lines, Fetched
<1>3. Level' = Level /\ Accounted' = Accounted /\ Assembles' = Assembles
  BY <1>1, TextKept
<1>4. ASSUME pc' <= Len(TEXT'), Level
      PROVE  /\ Len(stack') <= TEXT'[pc'].sp
             /\ Accounted => Len(stack') = TEXT'[pc'].sp
  <2>1. pc < Len(TEXT) /\ TEXT[pc + 1].sp \in Int /\ pc # 0 /\ pc \in 0 .. Len(TEXT)
    <3>1. pc < Len(TEXT)
      BY <1>1, <1>4
    <3>2. TEXT[pc + 1] \in Lines
      BY <1>1, <3>1
    <3> QED BY <1>1, <3>1, <3>2 DEF Lines
  <2>2. TEXT[pc].sp + Effect(Fetched) <= TEXT[pc + 1].sp
    BY <1>2, <2>1 DEF Accounts
  <2>3. Accounted => TEXT[pc + 1].sp = TEXT[pc].sp + Effect(Fetched)
    BY <1>2, <2>1 DEF Accounted, After, Above
  <2>4. /\ Len(stack) <= TEXT[pc].sp
        /\ Accounted => Len(stack) = TEXT[pc].sp
    BY <1>1, <1>4 DEF MInv, Mirrored
  <2> QED BY <1>1, <1>2, <2>1, <2>2, <2>3, <2>4
<1>5. Mirrored'
  BY <1>3, <1>4 DEF Mirrored
<1>6. status' = "running" /\ Generated' /\ Assembles' /\ pc' \in Nat \ {0}
  BY <1>1, <1>3 DEF MInv, Generated, genvars
<1> QED BY <1>5, <1>6 DEF MInv

(* A jump lands on a label written at the same StackPtr, if jumps are level. *)
LEMMA JumpMirrors ==
  ASSUME IInv, Accounts(TEXT, StackPtr), MInv, XJump
  PROVE  MInv'
<1>1. /\ status = "running" /\ pc <= Len(TEXT)
      /\ Fetched.op \in {"label", "je", "jl", "jg"}
      /\ UNCHANGED <<genvars, status, stack>>
      /\ \/ pc' = pc + 1
         \/ Fetched.op # "label" /\ pc' = Target(pc)
  BY DEF XJump, Execute, Advance
<1>2. /\ pc \in 1 .. Len(TEXT) /\ Len(TEXT) \in Nat
      /\ TEXT' = TEXT /\ StackPtr' = StackPtr /\ stack' = stack
      /\ Len(stack) \in Nat
  BY <1>1 DEF IInv, TypeOK, MInv, genvars
<1>3. CASE pc' = pc + 1
  <2>1. Effect(Fetched) = 0
    BY <1>1 DEF Effect
  <2>2. Len(stack') = Len(stack) + Effect(Fetched)
    BY <1>2, <2>1
  <2>3. \E S : stack' \in Seq(S)
    BY <1>2 DEF MInv
  <2> QED BY <1>1, <1>3, <2>2, <2>3, LineMirrors
<1>4. CASE Fetched.op # "label" /\ pc' = Target(pc)
  <2>1. pc \in Jumps
    BY <1>1, <1>2, <1>4 DEF Jumps, Fetched
  <2>2. \E j \in Marks : FullName(j) = FullName(pc)
    BY <1>1, <2>1 DEF MInv, Assembles
  <2>3. Target(pc) \in Marks /\ FullName(Target(pc)) = FullName(pc)
    BY <2>2 DEF Target
  <2>4. pc' \in 1 .. Len(TEXT)
    BY <1>4, <2>3 DEF Marks
  <2>5. Level => TEXT[pc'].sp = TEXT[pc].sp
    BY <1>4, <2>1, <2>3 DEF Level
  <2>6. Level' = Level /\ Accounted' = Accounted /\ Assembles' = Assembles
    BY <1>2, TextKept
  <2>7. Mirrored'
    <3>1. SUFFICES ASSUME Level
                   PROVE  /\ Len(stack) <= TEXT[pc'].sp
                          /\ Accounted => Len(stack) = TEXT[pc'].sp
      BY <1>2, <2>6 DEF Mirrored
    <3> QED BY <1>1, <2>5, <3>1 DEF MInv, Mirrored
  <2>8. status' = "running" /\ Generated' /\ Assembles' /\ pc' \in Nat \ {0}
    BY <1>1, <1>2, <2>4, <2>6 DEF MInv, Generated, genvars
  <2> QED BY <1>2, <2>7, <2>8 DEF MInv
<1> QED BY <1>1, <1>3, <1>4

LEMMA StopMirrors ==
  ASSUME MInv, status = "running", NEW how, how \notin {"running", "unbuilt"},
         Stop(how), UNCHANGED genvars
  PROVE  MInv'
BY DEF MInv, Stop, Mirrored, Generated, genvars

LEMMA PrefixType ==
  ASSUME NEW S, NEW s \in Seq(S), NEW n \in 0 .. Len(s)
  PROVE  SubSeq(s, 1, n) \in Seq(S) /\ Len(SubSeq(s, 1, n)) = n
OBVIOUS

LEMMA RunMirrors ==
  ASSUME IInv, Accounts(TEXT, StackPtr), MInv, Run
  PROVE  MInv'
<1>1. PICK S : stack \in Seq(S)
  BY DEF MInv
<1>2. Len(stack) \in Nat /\ pc \in Nat \ {0}
  BY <1>1 DEF MInv
<1>3. ASSUME NEW op, Execute(op)
      PROVE  /\ status = "running" /\ pc <= Len(TEXT) /\ Fetched.op = op
             /\ Fetched.n \in Int
  <2>1. TEXT \in Seq(Lines) /\ pc \in 1 .. Len(TEXT) /\ Len(TEXT) \in Nat
    BY <1>2, <1>3 DEF IInv, TypeOK, Lines, Execute
  <2>2. TEXT[pc] \in Lines
    BY <2>1
  <2> QED BY <1>3, <2>2 DEF Execute, Fetched, Lines, Instr
<1>4. ASSUME NEW op, Execute(op), UNCHANGED <<genvars, status>>, Advance,
             \E T : stack' \in Seq(T), Len(stack') = Len(stack) + Effect(Fetched)
      PROVE  MInv'
  BY <1>3, <1>4, LineMirrors DEF Advance
<1>5. ASSUME NEW op, op \notin Moves, Execute(op), UNCHANGED <<genvars, status, stack>>,
             Advance
      PROVE  MInv'
  <2>1. Effect(Fetched) = 0
    BY <1>3, <1>5 DEF Effect, Moves, Pushes
  <2>2. stack' \in Seq(S) /\ Len(stack') = Len(stack) + Effect(Fetched)
    BY <1>1, <1>2, <1>5, <2>1
  <2> QED BY <1>4, <1>5, <2>2
<1>6. ASSUME NEW op, Execute(op), NEW how \in {"fault", "stray", "exited"}, Stop(how),
             UNCHANGED genvars
      PROVE  MInv'
  BY <1>3, <1>6, StopMirrors
<1>7. ASSUME NEW op \in Pushes, Execute(op), NEW v, Pushed(v), UNCHANGED genvars
      PROVE  MInv'
  <2>1. CASE Stop("fault")
    BY <1>6, <1>7, <2>1
  <2>2. CASE stack' = Append(stack, v) /\ Advance /\ UNCHANGED <<status, regs, flags>>
    <3>1. Effect(Fetched) = 1
      BY <1>3, <1>7 DEF Effect, Pushes
    <3>2. stack' \in Seq(S \cup {v}) /\ Len(stack') = Len(stack) + 1
      <4>1. stack \in Seq(S \cup {v})
        BY <1>1
      <4> QED BY <2>2, <4>1
    <3> QED BY <1>4, <1>7, <2>2, <3>1, <3>2
  <2> QED BY <1>7, <2>1, <2>2 DEF Pushed
<1>8. CASE XPush
  <2>1. UNCHANGED genvars
    BY <1>8 DEF XPush
  <2>2. CASE Execute("push") /\ Pushed(A)
    BY <1>7, <2>1, <2>2 DEF Pushes
  <2>3. CASE Execute("pushi") /\ Pushed(Fetched.n % Word)
    BY <1>7, <2>1, <2>3 DEF Pushes
  <2>4. CASE Execute("pushm") /\ Pushed(stack[Top - Fetched.n])
    BY <1>7, <2>1, <2>4 DEF Pushes
  <2>5. CASE Execute("pushm") /\ Stop("stray")
    BY <1>6, <2>1, <2>5
  <2> QED BY <1>8, <2>2, <2>3, <2>4, <2>5 DEF XPush
<1>9. CASE XPop
  <2>1. Execute("pop") /\ UNCHANGED genvars
    BY <1>9 DEF XPop
  <2>2. CASE Stop("stray")
    BY <1>6, <2>1, <2>2
  <2>3. CASE /\ Top > 0 /\ stack' = SubSeq(stack, 1, Top - 1)
             /\ Advance /\ UNCHANGED <<status, flags>>
    <3>1. Effect(Fetched) = -1
      BY <1>3, <2>1 DEF Effect
    <3>2. stack' \in Seq(S) /\ Len(stack') = Len(stack) - 1
      <4>1. stack' = SubSeq(stack, 1, Len(stack) - 1) /\ Len(stack) > 0
        BY <2>3 DEF Top
      <4>2. Len(stack) - 1 \in 0 .. Len(stack)
        BY <1>2, <4>1
      <4> QED BY <1>1, <4>1, <4>2, PrefixType
    <3>3. Len(stack') = Len(stack) + Effect(Fetched)
      BY <1>2, <3>1, <3>2
    <3> QED BY <1>4, <2>1, <2>3, <3>2, <3>3
  <2> QED BY <1>9, <2>2, <2>3 DEF XPop
<1>10. CASE XDrop
  <2>1. Execute("drop") /\ UNCHANGED genvars
    BY <1>10 DEF XDrop
  <2>2. CASE Stop("stray")
    BY <1>6, <2>1, <2>2
  <2>3. CASE /\ Fetched.n \in 0 .. Top /\ stack' = SubSeq(stack, 1, Top - Fetched.n)
             /\ Advance /\ UNCHANGED <<status, regs, flags>>
    <3>1. Effect(Fetched) = 0 - Fetched.n
      BY <1>3, <2>1 DEF Effect
    <3>2. stack' \in Seq(S) /\ Len(stack') = Len(stack) - Fetched.n
      BY <1>1, <1>2, <2>3 DEF Top
    <3>3. Len(stack') = Len(stack) + Effect(Fetched)
      BY <1>2, <1>3, <2>1, <3>1, <3>2
    <3> QED BY <1>4, <2>1, <2>3, <3>2, <3>3
  <2> QED BY <1>10, <2>2, <2>3 DEF XDrop
<1>11. CASE XStore
  <2>1. Execute("store") /\ UNCHANGED genvars
    BY <1>11 DEF XStore
  <2>2. CASE Stop("stray")
    BY <1>6, <2>1, <2>2
  <2>3. CASE /\ stack' = [stack EXCEPT ![Top - Fetched.n] = regs["rax"]]
             /\ Fetched.n \in 0 .. Top - 1
             /\ Advance /\ UNCHANGED <<status, regs, flags>>
    <3>1. Effect(Fetched) = 0
      BY <1>3, <2>1 DEF Effect
    <3>2. stack' \in Seq(S \cup {regs["rax"]}) /\ Len(stack') = Len(stack)
      <4>1. stack \in Seq(S \cup {regs["rax"]})
        BY <1>1
      <4>2. Top - Fetched.n \in 1 .. Len(stack)
        BY <1>2, <2>3 DEF Top
      <4> QED BY <2>3, <4>1, <4>2, ExceptSeq
    <3>3. Len(stack') = Len(stack) + Effect(Fetched)
      BY <1>2, <3>1, <3>2
    <3> QED BY <1>4, <2>1, <2>3, <3>2, <3>3
  <2> QED BY <1>11, <2>2, <2>3 DEF XStore
<1>12. CASE XCompute
  <2>1. UNCHANGED <<genvars, status, stack>> /\ Advance
    BY <1>12 DEF XCompute
  <2>2. PICK op \in {"mov", "movi", "add", "sub", "mul", "inc", "dec", "setl", "setg",
                     "cmp", "cmpi"} : Execute(op)
    BY <1>12 DEF XCompute
  <2> QED BY <1>5, <2>1, <2>2 DEF Moves, Pushes
<1>13. CASE XDiv
  <2>1. Execute("div") /\ UNCHANGED genvars
    BY <1>13 DEF XDiv
  <2>2. CASE Stop("fault")
    BY <1>6, <2>1, <2>2
  <2>3. CASE Advance /\ UNCHANGED <<status, flags, stack>>
    BY <1>5, <2>1, <2>3 DEF Moves, Pushes
  <2> QED BY <1>13, <2>2, <2>3 DEF XDiv
<1>14. CASE XJump
  BY <1>14, JumpMirrors
<1>15. CASE XSyscall
  BY <1>6, <1>15 DEF XSyscall
<1>16. CASE XRunOff
  BY <1>16, StopMirrors DEF XRunOff
<1> QED BY <1>8, <1>9, <1>10, <1>11, <1>12, <1>13, <1>14, <1>15, <1>16 DEF Run
LEMMA MachInitHolds == MachInit => MInv
<1> SUFFICES ASSUME MachInit PROVE MInv
  OBVIOUS
<1>1. stack \in Seq({}) /\ pc = 1 /\ status = "unbuilt" /\ stack = <<>>
  BY DEF MachInit
<1> QED BY <1>1 DEF MInv, Mirrored

LEMMA MachNextMirrors ==
  ASSUME IInv, Accounts(TEXT, StackPtr), MInv, [MachNext]_allvars
  PROVE  MInv'
<1>1. CASE UNCHANGED allvars
  BY <1>1, TextKept DEF MInv, Mirrored, Generated, allvars, machvars, genvars
<1>2. CASE Step /\ UNCHANGED machvars
  <2>1. ~Generated
    BY <1>2 DEF Generated, Step, Doing, On, Gen, GenTerm, GenVarDef, GenDecl, GenAsgn,
                GenFunction, InvalidOperator, PushStack, PopStack, TextEntry, NextID,
                NumberedEntry, RegisterVar, StoreVar, BeginScope, EndScope, Overrun
  <2>2. status = "unbuilt" /\ UNCHANGED <<status, pc, stack>>
    BY <1>2, <2>1 DEF MInv, machvars
  <2> QED BY <2>2 DEF MInv, Mirrored
<1>3. CASE Assemble
  <2>1. /\ TEXT' = TEXT /\ StackPtr' = StackPtr /\ UNCHANGED <<pc, stack>>
        /\ pc = 1 /\ stack = <<>> /\ Generated /\ Generated'
    BY <1>3 DEF Assemble, MInv, Generated, genvars
  <2>2. Level' = Level /\ Accounted' = Accounted /\ Assembles' = Assembles
    BY <2>1, TextKept
  <2>3. status' # "unbuilt" /\ (status' = "running" => Assembles')
    BY <1>3, <2>2 DEF Assemble
  <2>4. ASSUME pc <= Len(TEXT)
        PROVE  0 <= TEXT[pc].sp /\ (Accounted => 0 = TEXT[pc].sp)
    <3>1. /\ TEXT \in Seq(Lines) /\ Len(TEXT) \in Nat /\ 1 \in 1 .. Len(TEXT)
      BY <2>1, <2>4 DEF IInv, TypeOK, Lines
    <3>2. TEXT[1] \in Lines
      BY <3>1
    <3>3. TEXT[1].sp \in Int
      BY <3>2 DEF Lines
    <3>4. 0 <= TEXT[1].sp
      BY <3>1, <3>3 DEF Accounts
    <3>5. Accounted => TEXT[1].sp = 0
      BY <3>1, <3>3 DEF Accounted, After, Above
    <3> QED BY <2>1, <3>4, <3>5
  <2>5. Mirrored'
    BY <2>1, <2>2, <2>4 DEF Mirrored
  <2>6. stack' \in Seq({}) /\ pc' \in Nat \ {0}
    BY <2>1
  <2> QED BY <2>1, <2>3, <2>5, <2>6 DEF MInv
<1>4. CASE Run
  BY <1>4, RunMirrors
<1> QED BY <1>1, <1>2, <1>3, <1>4 DEF MachNext

LEMMA MachInvariant ==
  MachSpec => [](IInv /\ Tasked /\ Accounts(TEXT, StackPtr) /\ MInv)
<1>1. MachSpec => Spec
  BY MachineGenerates
<1>2. MachSpec => [](IInv /\ Tasked /\ Accounts(TEXT, StackPtr))
  BY <1>1, AccountsHold, PTL
<1>3. IInv /\ Accounts(TEXT, StackPtr) /\ MInv /\ [MachNext]_allvars => MInv'
  BY MachNextMirrors
<1> QED BY <1>2, <1>3, MachInitHolds, PTL DEF MachSpec
-----------------------------------------------------------------------------
(* Where every declaration has a value, StackPtr counts exactly the slots  *)
(* the lines push (generator.c:78, generate.c:151).                        *)
THEOREM WithoutDeclarations == NoDecl => (Spec => []Accounted)
<1> SUFFICES ASSUME NoDecl PROVE Spec => []Accounted
  OBVIOUS
<1>1. IInv /\ Accounts(TEXT, StackPtr) => Accounted
  <2> SUFFICES ASSUME Accounts(TEXT, StackPtr) PROVE Accounted
    OBVIOUS
  <2> QED BY DEF Accounts, Accounted, After, Above
<1> QED BY <1>1, AccountsHold, PTL

(* Whatever the nodes, however many lines are run and however often the    *)
(* program jumps: StackPtr never falls behind the stack, and no line is    *)
(* reached with another stack than it was written for unless a jump is not *)
(* level, or a slot was counted that no line has pushed.                   *)
THEOREM StackIsMirrored == MachSpec => []StackMirrored
<1>1. IInv /\ Accounts(TEXT, StackPtr) /\ MInv => StackMirrored
  <2> SUFFICES ASSUME IInv, Accounts(TEXT, StackPtr), MInv PROVE StackMirrored
    OBVIOUS
  <2>1. \A i \in 0 .. Len(TEXT) : After(i) <= Above(i)
    BY DEF Accounts, After, Above
  <2>2. ASSUME status = "running", pc <= Len(TEXT)
        PROVE  Len(stack) \in Nat /\ TEXT[pc].sp \in Int
    <3>1. TEXT \in Seq(Lines) /\ pc \in 1 .. Len(TEXT)
      BY <2>2 DEF IInv, TypeOK, Lines, MInv
    <3>2. TEXT[pc] \in Lines
      BY <3>1
    <3> QED BY <3>2 DEF Lines, MInv
  <2> QED BY <2>1, <2>2 DEF StackMirrored, MInv, Mirrored
<1> QED BY <1>1, MachInvariant, PTL
=============================================================================
