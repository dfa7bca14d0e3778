------------------------------ MODULE Generator ------------------------------
(***************************************************************************)
(* The code generator of neolang: src/gen/generator.c (its state) and      *)
(* src/gen/generate.c (one function per kind of node).                     *)
(*                                                                         *)
(* A Gen function writes lines of assembly and calls other Gen functions.  *)
(* Below, each is the list of tasks its body performs, in their order.     *)
(* `todo' holds the tasks left, those of a callee before the rest of its   *)
(* caller, and a step performs the first.  TEXT is a sequence of           *)
(* instructions: comments, and the sections nothing is written to, are     *)
(* left out, and so are operand sizes, which the generator never uses.     *)
(***************************************************************************)
EXTENDS Integers, Sequences

CONSTANTS
  Nodes,           \* the nodes of the trees, closed under taking children
  Trees,           \* the statement lists Generate may be given
  MAX_STACK_VARS,  \* capacity of VarRegistry, not tested
  MAX_SCOPES,      \* capacity of ScopeRegistry, not tested
  ExpWrap          \* the number of values of ExpCount, a u8: 256

(* A node: its kind, the name or operator it holds, its number (the value  *)
(* of a literal, or 1 for a definition marked `var'), and its children.    *)
(* Functions are never generated, so their children are left out.          *)
ExprKinds == {"Num", "Ident", "BinExpr", "Interval", "Asgn", "Call"}
StmtKinds == {"Asgn", "Decl", "VarDef", "Scope", "FunDecl", "FunDef", "Call",
              "Exit", "If", "For", "While"}

Children ==
  [Num     |-> <<>>,           Ident   |-> <<>>,
   BinExpr |-> <<ExprKinds, ExprKinds>>,
   Interval |-> <<ExprKinds, ExprKinds>>,
   Asgn    |-> <<ExprKinds>>,  Call    |-> <<>>,
   Decl    |-> <<>>,           VarDef  |-> <<ExprKinds>>,
   FunDecl |-> <<>>,           FunDef  |-> <<>>,
   Exit    |-> <<ExprKinds>>,  If      |-> <<ExprKinds, {"Scope"}>>,
   While   |-> <<ExprKinds, {"Scope"}>>,
   For     |-> <<{"VarDef"}, ExprKinds, {"Scope"}>>]

WellFormed(n) ==
  /\ n.nt \in ExprKinds \cup StmtKinds
  /\ n.name \in STRING
  /\ n.num \in Nat
  /\ n.kids \in Seq(Nodes)
  /\ IF n.nt = "Scope"
     THEN \A i \in 1 .. Len(n.kids) : n.kids[i].nt \in StmtKinds
     ELSE /\ Len(n.kids) = Len(Children[n.nt])
          /\ \A i \in 1 .. Len(n.kids) : n.kids[i].nt \in Children[n.nt][i]

StmtNodes == {n \in Nodes : n.nt \in StmtKinds}
ExprNodes == {n \in Nodes : n.nt \in ExprKinds}

ASSUME GeneratorAssumption ==
  /\ \A n \in Nodes : WellFormed(n)
  /\ Trees \subseteq Seq(StmtNodes)
  /\ MAX_STACK_VARS \in Nat
  /\ MAX_SCOPES \in Nat
  /\ ExpWrap \in Nat \ {0}

-----------------------------------------------------------------------------
(* Instructions: an operation, its operands (registers), a constant and a *)
(* label, any of which may be absent.  A label is a name with a number, or *)
(* local to the label before it.                                           *)
None == "none"
At(name, id, local) == [name |-> name, id |-> id, local |-> local]
NoLabel       == At(None, 0, None)
Ins(op, a, b) == [op |-> op, a |-> a, b |-> b, n |-> 0, to |-> NoLabel]
Imm(op, a, n) == [op |-> op, a |-> a, b |-> None, n |-> n, to |-> NoLabel]
ToLocal(op, local) ==
  [op |-> op, a |-> None, b |-> None, n |-> 0, to |-> At(None, 0, local)]

(* Tasks.                                                                  *)
Stmt(n)     == [do |-> "stmt", node |-> n]         \* GenStmt
Expr(n)     == [do |-> "expr", node |-> n]         \* GenExpr
Push(i)     == [do |-> "push", ins |-> i]          \* PushStack
Pop(r)      == [do |-> "pop",  ins |-> Ins("pop", r, None)]
Text(i)     == [do |-> "text", ins |-> i]          \* TextEntry
Count(c)    == [do |-> "count", id |-> c]          \* ++ of a static counter
Numbered(op, c, loc) ==                            \* TextEntry with a counter
  [do |-> "numbered", ins |-> Ins(op, None, None), id |-> c, loc |-> loc]
Register(x, mut, init) ==                          \* RegisterVar
  [do |-> "register", var |-> [Ident |-> x, IsMutable |-> mut, IsInit |-> init]]
Store(i)    == [do |-> "store", index |-> i]       \* the end of GenAsgn
Begin       == [do |-> "begin"]                    \* BeginScope
End         == [do |-> "end"]                      \* EndScope
Fail        == [do |-> "fail"]                     \* RUNTIME_ERR

Label(c)    == Numbered("label", c, None)

GenWhile(n) ==
  << Begin, Count("while"), Label("while"), Stmt(n.kids[2]), Expr(n.kids[1]),
     Pop("rax"), Text(Imm("cmpi", "rax", 1)), Push(Ins("push", "rax", None)),
     Numbered("je", "while", None), End >>

GenInterval(n) ==
  << Expr(n.kids[2]), Expr(n.kids[1]), Pop("rax"), Pop("rbx"),
     Text(Ins("sub", "rbx", "rax")), Push(Ins("push", "rbx", None)) >>

GenIf(n) ==
  << Expr(n.kids[1]), Count("if"), Pop("rax"), Text(Imm("cmpi", "rax", 0)),
     Numbered("je", "if", ".se"), Label("if"), Stmt(n.kids[2]) >>

BugFor(n) ==
  << Begin, Stmt(n.kids[1]), Expr(n.kids[2]),
     Pop("rax"), Pop("rcx"), Text(Ins("add", "rax", "rcx")),
     Push(Ins("push", "rcx", None)), Push(Ins("push", "rax", None)),
     Count("for"), Label("for"), Stmt(n.kids[3]),
     Pop("rax"), Pop("rcx"),
     Text(Ins("cmp", "rcx", "rax")),
     Push(Ins("push", "rcx", None)), Push(Ins("push", "rax", None)),
     Numbered("jl", "for", None), End >>

GenFor(n) ==
  << Begin, Stmt(n.kids[1]), Expr(n.kids[2]),
     Pop("rax"), Pop("rcx"), Text(Ins("add", "rax", "rcx")),
     Push(Ins("push", "rcx", None)), Push(Ins("push", "rax", None)),
     Count("for"), Label("for"), Stmt(n.kids[3]),
     Pop("rax"), Pop("rcx"),
     Text(Ins("inc", "rcx", None)), Text(Ins("cmp", "rcx", "rax")),
     Push(Ins("push", "rcx", None)), Push(Ins("push", "rax", None)),
     Numbered("jl", "for", None), End >>

(* What GenBinExpr writes for an operator, with its operands in rax, rbx.  *)
Arithmetic(op) ==
  CASE op = "+" -> << Text(Ins("add", "rax", "rbx")) >>
    [] op = "-" -> << Text(Ins("sub", "rax", "rbx")) >>
    [] op = "*" -> << Text(Ins("mul", "rbx", None)) >>
    [] op = "/" -> << Text(Ins("div", "rbx", None)) >>
    [] op = "^" -> << Count("exp"), Label("exp"),
                      Text(Imm("cmpi", "rbx", 1)), Text(ToLocal("je", ".ee")),
                      Text(Ins("mov", "rcx", "rax")),
                      Text(ToLocal("label", ".eb")), Text(Ins("mul", "rcx", None)),
                      Text(Imm("cmpi", "rbx", 1)), Text(Ins("dec", "rbx", None)),
                      Text(ToLocal("jg", ".eb")), Text(ToLocal("label", ".ee")) >>
    [] op = "<" -> << Text(Ins("cmp", "rax", "rbx")), Text(Ins("setl", "rax", None)) >>
    [] op = ">" -> << Text(Ins("cmp", "rax", "rbx")), Text(Ins("setg", "rax", None)) >>
    [] OTHER    -> << Fail >>

GenBinExpr(n) ==
  << Expr(n.kids[1]), Expr(n.kids[2]), Pop("rbx"), Pop("rax") >>
    \o Arithmetic(n.name) \o << Push(Ins("push", "rax", None)) >>

GenScope(n) ==
  << Text(ToLocal("label", ".sb")) >>
    \o [i \in 1 .. Len(n.kids) |-> Stmt(n.kids[i])]
    \o << Text(ToLocal("label", ".se")) >>

GenExit(n) ==
  << Expr(n.kids[1]), Text(Imm("movi", "rax", 60)), Pop("rdi"),
     Text(Ins("syscall", None, None)) >>

-----------------------------------------------------------------------------
VARIABLES
  NDEBUG,         \* whether the build compiles NASSERT_MSG to nothing
  Tree,           \* the program
  todo,           \* tasks left
  TEXT,           \* what was written, each line with StackPtr before it
  VarRegistry,    \* the variables in scope, VarCount of them
  StackPtr,       \* where the generator believes the stack of the target is
  ScopeRegistry,  \* VarCount at the beginning of each open scope
  IDs,            \* the static counters WhileID, IfID, ForID and ExpCount
  ctl             \* "gen", or "exit" (RUNTIME_ERR), or "crash" (an overrun)

genvars ==
  <<NDEBUG, Tree, todo, TEXT, VarRegistry, StackPtr, ScopeRegistry, IDs, ctl>>

Doing(do)    == ctl = "gen" /\ todo # <<>> /\ Head(todo).do = do
On(do, kind) == Doing(do) /\ Head(todo).node.nt = kind
Node         == Head(todo).node
Then(tasks)  == todo' = tasks \o Tail(todo)
Line(i)      == [ins |-> i, sp |-> StackPtr]
Write(i)     == TEXT' = Append(TEXT, Line(i))

(* FindVar: the first variable of that name.                               *)
Known(x)   == \E i \in 1 .. Len(VarRegistry) : VarRegistry[i].Ident = x
FindVar(x) == CHOOSE i \in 1 .. Len(VarRegistry) :
                /\ VarRegistry[i].Ident = x
                /\ \A j \in 1 .. i - 1 : VarRegistry[j].Ident # x

(* Slots between the top of the stack and a variable.  StackPtr and        *)
(* StackIndex are u64, and the assembler reads the offset as signed: the   *)
(* difference is that of the integers.                                     *)
BugOffset(sp, i) == sp - VarRegistry[i].StackIndex - 1
Offset(sp, i)    == sp - VarRegistry[i].StackIndex

(* InitGenerator, and the loop of GenRoot.                                 *)
Init ==
  /\ NDEBUG \in BOOLEAN
  /\ Tree \in Trees
  /\ todo = [i \in 1 .. Len(Tree) |-> Stmt(Tree[i])]
  /\ TEXT = <<>>
  /\ VarRegistry = <<>>
  /\ StackPtr = 0
  /\ ScopeRegistry = <<>>
  /\ IDs = [while |-> 0, if |-> 0, for |-> 0, exp |-> 0]
  /\ ctl = "gen"

(* The functions that only call others and write text.                     *)
Gen ==
  /\ \/ On("stmt", "While")    /\ Then(GenWhile(Node))
     \/ On("stmt", "If")       /\ Then(GenIf(Node))
     \/ On("stmt", "For")      /\ Then(GenFor(Node))
     \/ On("stmt", "Scope")    /\ Then(GenScope(Node))
     \/ On("stmt", "Exit")     /\ Then(GenExit(Node))
     \/ On("expr", "BinExpr")  /\ Then(GenBinExpr(Node))
     \/ On("expr", "Interval") /\ Then(GenInterval(Node))
  /\ UNCHANGED <<NDEBUG, Tree, TEXT, VarRegistry, StackPtr, ScopeRegistry, IDs, ctl>>

(* A literal is pushed, and so is a variable that has a value.  Of any     *)
(* other name nothing is written at all.                                   *)
GenTerm ==
  /\ \/ /\ On("expr", "Num")
        /\ Then(<< Push(Imm("pushi", None, Node.num)) >>)
     \/ /\ On("expr", "Ident")
        /\ Known(Node.name) /\ VarRegistry[FindVar(Node.name)].IsInit
        /\ Then(<< Push(Imm("pushm", "rsp", Offset(StackPtr, FindVar(Node.name)))) >>)
     \/ /\ On("expr", "Ident")
        /\ Known(Node.name) => ~VarRegistry[FindVar(Node.name)].IsInit
        /\ Then(<<>>)
  /\ UNCHANGED <<NDEBUG, Tree, TEXT, VarRegistry, StackPtr, ScopeRegistry, IDs, ctl>>

(* A name that is taken keeps its variable: the definition is ignored.     *)
BugVarDef ==
  /\ On("stmt", "VarDef")
  /\ Then(<< Expr(Node.kids[1]), Register(Node.name, Node.num = 1, TRUE) >>)
  /\ UNCHANGED <<NDEBUG, Tree, TEXT, VarRegistry, StackPtr, ScopeRegistry, IDs, ctl>>
GenVarDef ==
  /\ On("stmt", "VarDef")
  /\ \/ Known(Node.name) /\ Then(<<>>)
     \/ /\ ~Known(Node.name)
        /\ Then(<< Expr(Node.kids[1]), Register(Node.name, Node.num = 1, TRUE) >>)
  /\ UNCHANGED <<NDEBUG, Tree, TEXT, VarRegistry, StackPtr, ScopeRegistry, IDs, ctl>>

GenDecl ==
  /\ On("stmt", "Decl")
  /\ \/ Known(Node.name) /\ Then(<<>>)
     \/ /\ ~Known(Node.name)
        /\ Then(<< Register(Node.name, Node.num = 1, FALSE) >>)
  /\ UNCHANGED <<NDEBUG, Tree, TEXT, VarRegistry, StackPtr, ScopeRegistry, IDs, ctl>>

(* So is an assignment to an unknown name or a constant.                   *)
GenAsgn ==
  /\ On("stmt", "Asgn") \/ On("expr", "Asgn")
  /\ \/ /\ Known(Node.name) /\ VarRegistry[FindVar(Node.name)].IsMutable
        /\ Then(<< Expr(Node.kids[1]), Store(FindVar(Node.name)) >>)
     \/ /\ Known(Node.name) => ~VarRegistry[FindVar(Node.name)].IsMutable
        /\ Then(<<>>)
  /\ UNCHANGED <<NDEBUG, Tree, TEXT, VarRegistry, StackPtr, ScopeRegistry, IDs, ctl>>

(* GenFunDef, GenFunDecl, GenCall: NASSERT_MSG(false, "Unimplemented").    *)
GenFunction ==
  /\ On("expr", "Call")
       \/ \E kind \in {"FunDef", "FunDecl", "Call"} : On("stmt", kind)
  /\ \/ NDEBUG  /\ Then(<<>>)    /\ UNCHANGED ctl
     \/ ~NDEBUG /\ ctl' = "exit" /\ UNCHANGED todo
  /\ UNCHANGED <<NDEBUG, Tree, TEXT, VarRegistry, StackPtr, ScopeRegistry, IDs>>

InvalidOperator ==
  /\ Doing("fail")
  /\ ctl' = "exit"
  /\ UNCHANGED <<NDEBUG, Tree, todo, TEXT, VarRegistry, StackPtr, ScopeRegistry, IDs>>

BugPushStack ==                    \* the push is not counted
  /\ Doing("push")
  /\ Write(Head(todo).ins)
  /\ Then(<<>>)
  /\ UNCHANGED <<NDEBUG, Tree, VarRegistry, StackPtr, ScopeRegistry, IDs, ctl>>
PushStack ==
  /\ Doing("push")
  /\ Write(Head(todo).ins)
  /\ StackPtr' = StackPtr + 1
  /\ Then(<<>>)
  /\ UNCHANGED <<NDEBUG, Tree, VarRegistry, ScopeRegistry, IDs, ctl>>

PopStack ==
  /\ Doing("pop")
  /\ Write(Head(todo).ins)
  /\ StackPtr' = StackPtr - 1
  /\ Then(<<>>)
  /\ UNCHANGED <<NDEBUG, Tree, VarRegistry, ScopeRegistry, IDs, ctl>>

TextEntry ==
  /\ Doing("text")
  /\ Write(Head(todo).ins)
  /\ Then(<<>>)
  /\ UNCHANGED <<NDEBUG, Tree, VarRegistry, StackPtr, ScopeRegistry, IDs, ctl>>

(* The counters are static: a nested construct of the same kind has        *)
(* increased them by the time its parent reads them again.                 *)
BugForget(c) == [IDs EXCEPT ![c] = @]
BugWrap(c)   == [IDs EXCEPT ![c] = @ + 1]
Increment(c) ==
  [IDs EXCEPT ![c] = IF c = "exp" THEN (@ + 1) % ExpWrap ELSE @ + 1]

NextID ==
  /\ Doing("count")
  /\ IDs' = Increment(Head(todo).id)
  /\ Then(<<>>)
  /\ UNCHANGED <<NDEBUG, Tree, TEXT, VarRegistry, StackPtr, ScopeRegistry, ctl>>

NumberedEntry ==
  /\ Doing("numbered")
  /\ LET t == Head(todo)
     IN  Write([t.ins EXCEPT !.to = At(t.id, IDs[t.id], t.loc)])
  /\ Then(<<>>)
  /\ UNCHANGED <<NDEBUG, Tree, VarRegistry, StackPtr, ScopeRegistry, IDs, ctl>>

RegisterVar ==
  /\ Doing("register")
  /\ LET v == Head(todo).var
     IN  VarRegistry' = Append(VarRegistry,
           [Ident |-> v.Ident, IsMutable |-> v.IsMutable, IsInit |-> v.IsInit,
            StackIndex |-> StackPtr])
  /\ Then(<<>>)
  /\ UNCHANGED <<NDEBUG, Tree, TEXT, StackPtr, ScopeRegistry, IDs, ctl>>

(* The end of GenAsgn: the value is popped into the variable, or, at the   *)
(* first assignment to a declared one, stays where it was pushed.          *)
StoreVar ==
  /\ Doing("store")
  /\ LET i == Head(todo).index
     IN  \/ /\ VarRegistry[i].IsInit
            /\ TEXT' = TEXT \o
                 << Line(Ins("pop", "rax", None)),
                    [ins |-> Imm("store", "rsp", Offset(StackPtr - 1, i)),
                     sp  |-> StackPtr - 1] >>
            /\ StackPtr' = StackPtr - 1
            /\ UNCHANGED VarRegistry
         \/ /\ ~VarRegistry[i].IsInit
            /\ VarRegistry' = [VarRegistry EXCEPT ![i].IsInit = TRUE,
                                                  ![i].StackIndex = StackPtr]
            /\ StackPtr' = StackPtr + 1
            /\ UNCHANGED TEXT
  /\ Then(<<>>)
  /\ UNCHANGED <<NDEBUG, Tree, ScopeRegistry, IDs, ctl>>

BeginScope ==
  /\ Doing("begin")
  /\ ScopeRegistry' = Append(ScopeRegistry, Len(VarRegistry))
  /\ Then(<<>>)
  /\ UNCHANGED <<NDEBUG, Tree, TEXT, VarRegistry, StackPtr, IDs, ctl>>

BugLowered(n) == StackPtr
Lowered(n)    == StackPtr - n
BugClosed     == ScopeRegistry
Closed        == SubSeq(ScopeRegistry, 1, Len(ScopeRegistry) - 1)

EndScope ==
  /\ Doing("end")
  /\ LET kept  == ScopeRegistry[Len(ScopeRegistry)]
         ended == Len(VarRegistry) - kept
     IN  /\ Write(Imm("drop", "rsp", ended))
         /\ VarRegistry' = SubSeq(VarRegistry, 1, kept)
         /\ StackPtr' = Lowered(ended)
  /\ ScopeRegistry' = Closed
  /\ Then(<<>>)
  /\ UNCHANGED <<NDEBUG, Tree, IDs, ctl>>

(* Neither array is tested for room.  Writing past its end may do no harm, *)
(* and the actions above go on, or end the process.                        *)
Overrun ==
  /\ \/ Doing("register") /\ Len(VarRegistry) >= MAX_STACK_VARS
     \/ Doing("begin") /\ Len(ScopeRegistry) >= MAX_SCOPES
  /\ ctl' = "crash"
  /\ UNCHANGED <<NDEBUG, Tree, todo, TEXT, VarRegistry, StackPtr, ScopeRegistry, IDs>>

Step ==
  \/ Gen       \/ GenTerm   \/ GenVarDef \/ GenDecl \/ GenAsgn
  \/ GenFunction \/ InvalidOperator
  \/ PushStack \/ PopStack  \/ TextEntry \/ NextID  \/ NumberedEntry
  \/ RegisterVar \/ StoreVar \/ BeginScope \/ EndScope \/ Overrun

Generated == ctl = "gen" /\ todo = <<>>
Spec      == Init /\ [][Step]_genvars

-----------------------------------------------------------------------------
Counters  == {"while", "if", "for", "exp"}
Locals    == {None, ".sb", ".se", ".eb", ".ee"}
Registers == {None, "rax", "rbx", "rcx", "rdi", "rsp"}
Mnemonics == {"push", "pushi", "pushm", "pop", "drop", "store", "mov", "movi",
              "add", "sub", "mul", "div", "inc", "dec", "cmp", "cmpi", "setl",
              "setg", "je", "jl", "jg", "label", "syscall"}
Labels    == [name : Counters \cup {None}, id : Nat, local : Locals]
Instr     == [op : Mnemonics, a : Registers, b : Registers, n : Int, to : Labels]

Task ==
  [do : {"stmt"}, node : StmtNodes]
    \cup [do : {"expr"}, node : ExprNodes]
    \cup [do : {"push", "pop", "text"}, ins : Instr]
    \cup [do : {"count"}, id : Counters]
    \cup [do : {"numbered"}, ins : Instr, id : Counters, loc : Locals]
    \cup [do : {"register"},
          var : [Ident : STRING, IsMutable : BOOLEAN, IsInit : BOOLEAN]]
    \cup [do : {"store"}, index : Nat]
    \cup [do : {"begin", "end", "fail"}]

Variable == [Ident : STRING, IsMutable : BOOLEAN, IsInit : BOOLEAN, StackIndex : Int]

(* Types; ExpCount is a u8, and the Variable* that GenAsgn keeps while its *)
(* expression is generated still points into the registry.                 *)
TypeOK ==
  /\ NDEBUG \in BOOLEAN
  /\ Tree \in Seq(StmtNodes)
  /\ todo \in Seq(Task)
  /\ TEXT \in Seq([ins : Instr, sp : Int])
  /\ VarRegistry \in Seq(Variable)
  /\ StackPtr \in Int
  /\ ScopeRegistry \in Seq(Nat)
  /\ IDs \in [Counters -> Nat] /\ IDs.exp < ExpWrap
  /\ ctl \in {"gen", "exit", "crash"}
  /\ Doing("store") => Head(todo).index \in 1 .. Len(VarRegistry)

(* The registry never holds a name twice, so that the first variable       *)
(* FindVar meets is the only one: the test of GenVarDef comes before its   *)
(* expression is generated, and the variable is entered after it.          *)
NamesUnique ==
  \A i, j \in 1 .. Len(VarRegistry) :
    VarRegistry[i].Ident = VarRegistry[j].Ident => i = j

(* Every scope still to be ended was begun, and none of them begins beyond *)
(* the variables there are: EndScope subtracts no more than VarCount and   *)
(* never reads before the start of ScopeRegistry.  When the tree is done   *)
(* all are closed.                                                         *)
ScopesNest ==
  /\ \A i \in 1 .. Len(ScopeRegistry) :
       /\ ScopeRegistry[i] <= Len(VarRegistry)
       /\ i > 1 => ScopeRegistry[i - 1] <= ScopeRegistry[i]
  /\ Doing("end") => ScopeRegistry # <<>>
  /\ todo = <<>> => ScopeRegistry = <<>>
=============================================================================
