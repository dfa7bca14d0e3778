------------------------------- MODULE Parser -------------------------------
(***************************************************************************)
(* The parser of neolang: src/parser/parser.c (the token cursor) and       *)
(* src/parser/parse.c (recursive descent).                                 *)
(*                                                                         *)
(* The TryParse functions are lists of instructions, in Productions.  The  *)
(* actions below are the control of C that all of them share: entering a   *)
(* function, testing and consuming a token, returning a node or NULL to    *)
(* the caller, and raising SYNTAX_ERR.  The cursor is never moved back: a  *)
(* function that gives up returns NULL with the tokens it has consumed     *)
(* gone.                                                                   *)
(***************************************************************************)
EXTENDS Productions

CONSTANTS
  Sources,         \* the token strings Parse may be given
  BeyondTable,     \* what OPINFOS['~'] reads, past the end of the table
  MAX_NODE_STATS,  \* capacity of NodeRoot.Stats, tested by TryParseRoot
  MAX_SCOPE_STATS, \* capacity of Stats in TryParseScope, not tested
  MAX_FUN_ARGS     \* capacity of ArgDecls and ArgExprs, not tested

OpInfo == [Assoc : {"left", "right"}, Prec : 0 .. 255]

ASSUME ParserAssumption ==
  /\ Sources \subseteq Seq(Kinds)
  /\ BeyondTable \in OpInfo
  /\ MAX_NODE_STATS \in Nat
  /\ MAX_SCOPE_STATS \in Nat
  /\ MAX_FUN_ARGS \in Nat

(* Precedence and associativity of an operator token.  The table is        *)
(* indexed by character and ends at '^': the operators it does not list    *)
(* below that read zeroes, '~' reads whatever the build placed after it.   *)
OPINFOS(op) ==
  CASE op \in {"+", "-"}           -> [Assoc |-> "left",  Prec |-> 1]
    [] op \in {"*", "/", "<", ">"} -> [Assoc |-> "left",  Prec |-> 2]
    [] op = "^"                    -> [Assoc |-> "right", Prec |-> 3]
    [] op = "~"                    -> BeyondTable
    [] OTHER                       -> [Assoc |-> "left",  Prec |-> 0]

(* The least precedence the right operand may have, in a u8.               *)
BugNextMinPrec(op) == OPINFOS(op).Prec     \* every operator right-associative
NextMinPrec(op) ==
  IF OPINFOS(op).Assoc = "left" THEN (OPINFOS(op).Prec + 1) % 256
                                ELSE OPINFOS(op).Prec

-----------------------------------------------------------------------------
VARIABLES
  Tokens,      \* the token array
  TokenIndex,  \* how many of them have been consumed
  stack,       \* the active calls, innermost last
  kids,        \* per active call, the nodes it has collected so far
  ctl,         \* "run", or "node" / "null" just after a call returned,
               \* or "crash" (NULL dereferenced), or "exit" (RUNTIME_ERR)
  val,         \* the node returned last
  from,        \* history: TokenIndex when the call that returned last began
  HasErrors,   \* the flag of TryParseRoot
  ErrCount     \* errors raised

vars == <<Tokens, TokenIndex, stack, kids, ctl, val, from, HasErrors, ErrCount>>

(* One active call: function, instruction, alternative of an ordered       *)
(* choice, cursor at entry, and the MinPrec argument of TryParseBinExpr.   *)
Frame == [fn : Functions, pc : 1 .. 7, alt : 1 .. 12, at : Nat, min : 0 .. 255]

Enter(f, at, min) == [fn |-> f, pc |-> 1, alt |-> 1, at |-> at, min |-> min]

Node(nt, at, ks) == [nt |-> nt, at |-> at, kids |-> ks]
Null == Node("NULL", 0, <<>>)

Top == stack[Len(stack)]
Ins == Body[Top.fn][Top.pc]

(* Peek: the token Offset places ahead, "end" for NULL.                    *)
Peek(Offset) ==
  IF TokenIndex + Offset >= Len(Tokens) THEN "end"
                                        ELSE Tokens[TokenIndex + Offset + 1]

At(k) == Peek(0) = k

Running(do) == stack # <<>> /\ ctl = "run"
                 /\ Top.pc <= Size(Top.fn) /\ Ins.do = do
Resumed(c, do) == stack # <<>> /\ ctl = c /\ Ins.do = do

Goto(pc)   == stack' = [stack EXCEPT ![Len(stack)].pc = pc]
BugCollect(n) == kids' = [kids EXCEPT ![Len(kids)] = <<n>> \o @]
Collect(n) == kids' = [kids EXCEPT ![Len(kids)] = Append(@, n)]
Consume    == TokenIndex' = TokenIndex + 1

Call(f, at, min) ==
  /\ stack' = Append(stack, Enter(f, at, min))
  /\ kids'  = Append(kids, <<>>)
  /\ ctl'   = "run"

Return(c, n) ==
  /\ stack' = SubSeq(stack, 1, Len(stack) - 1)
  /\ kids'  = SubSeq(kids, 1, Len(kids) - 1)
  /\ ctl'   = c
  /\ val'   = n
  /\ from'  = Top.at

SYNTAX_ERR == ErrCount' = ErrCount + 1

BugResyncKeepsSemi ==            \* stops at the semicolon instead of after it
  \E n \in TokenIndex .. Len(Tokens) :
    /\ \A i \in TokenIndex + 1 .. n : Tokens[i] # "SEMI"
    /\ n < Len(Tokens) => Tokens[n + 1] = "SEMI"
    /\ TokenIndex' = n

BugResyncPastEnd ==              \* looks for a semicolon only
  \E n \in TokenIndex + 1 .. Len(Tokens) + 1 :
    /\ \A i \in TokenIndex + 1 .. n - 1 : Tokens[i] # "SEMI"
    /\ n <= Len(Tokens) => Tokens[n] = "SEMI"
    /\ TokenIndex' = n

(* TryParseStmt resynchronises: while (Peek(0) && Consume() is not ';').   *)
Resync ==
  \E n \in TokenIndex .. Len(Tokens) :
    /\ \A i \in TokenIndex + 1 .. n - 1 : Tokens[i] # "SEMI"
    /\ n = Len(Tokens) \/ (n > TokenIndex /\ Tokens[n] = "SEMI")
    /\ TokenIndex' = n

(* The early return of a function whose instruction did not succeed.       *)
GiveUp(miss) ==
  \/ /\ miss = "quiet"
     /\ Return("null", Null)
     /\ UNCHANGED <<TokenIndex, ErrCount>>
  \/ /\ miss = "error" \/ (miss = "errorAt" /\ ~At("end"))
     /\ SYNTAX_ERR
     /\ Return("null", Null)
     /\ UNCHANGED TokenIndex
  \/ /\ miss = "errorAt" /\ At("end")      \* Peek(0)->Line of a NULL token
     /\ ctl' = "crash"
     /\ UNCHANGED <<TokenIndex, stack, kids, val, from, ErrCount>>
  \/ /\ miss = "skip"
     /\ SYNTAX_ERR
     /\ Resync
     /\ Return("null", Null)

-----------------------------------------------------------------------------
(* InitParser, and the call of TryParseRoot by Parse.                      *)
Init ==
  /\ Tokens \in Sources
  /\ TokenIndex = 0
  /\ stack = << Enter("Root", 0, 0) >>
  /\ kids = << <<>> >>
  /\ ctl = "run"
  /\ val = Null
  /\ from = 0
  /\ HasErrors = FALSE
  /\ ErrCount = 0

(* TryConsumeSub and TryConsumeType on a token that matches.               *)
TokenHit ==
  /\ \/ Running("eat") /\ UNCHANGED kids
     \/ (Running("take") \/ Running("opt"))
          /\ Collect(Node(Ins.arg[1], TokenIndex + 1, <<>>))
  /\ At(Ins.arg[1])
  /\ Consume
  /\ Goto(Top.pc + 1)
  /\ UNCHANGED <<Tokens, ctl, val, from, HasErrors, ErrCount>>

TokenMiss ==
  /\ Running("eat") \/ Running("take")
  /\ ~At(Ins.arg[1])
  /\ GiveUp(Ins.miss)
  /\ UNCHANGED <<Tokens, HasErrors>>

OptMiss ==
  /\ Running("opt")
  /\ ~At(Ins.arg[1])
  /\ Goto(Top.pc + 1)
  /\ UNCHANGED <<Tokens, TokenIndex, kids, ctl, val, from, HasErrors, ErrCount>>

(* TryParseBinExpr: a parenthesised subexpression, or else a term.         *)
Branch ==
  /\ Running("fork")
  /\ \/ At(Ins.arg[1]) /\ Consume /\ Goto(Top.pc + 3)
     \/ ~At(Ins.arg[1]) /\ Goto(Top.pc + 1) /\ UNCHANGED TokenIndex
  /\ UNCHANGED <<Tokens, kids, ctl, val, from, HasErrors, ErrCount>>

CallSub ==
  /\ Running("call")
  /\ Call(Ins.arg[1], TokenIndex, 0)
  /\ UNCHANGED <<Tokens, TokenIndex, val, from, HasErrors, ErrCount>>

SubNode ==
  /\ Resumed("node", "call")
  /\ Collect(val)
  /\ Goto(Top.pc + 1)
  /\ ctl' = "run"
  /\ UNCHANGED <<Tokens, TokenIndex, val, from, HasErrors, ErrCount>>

SubNull ==
  /\ \E do \in {"call", "list", "climb"} : Resumed("null", do)
  /\ GiveUp(Ins.miss)
  /\ UNCHANGED <<Tokens, HasErrors>>

(* The if / else if chains of TryParseTerm, TryParseExpr and TryParseStmt. *)
TryNext ==
  /\ Running("first")
  /\ Top.alt <= Len(Ins.arg)
  /\ Call(Ins.arg[Top.alt], TokenIndex, 0)
  /\ UNCHANGED <<Tokens, TokenIndex, val, from, HasErrors, ErrCount>>

FirstNode ==
  /\ Resumed("node", "first")
  /\ Collect(val)
  /\ Goto(Top.pc + 1)
  /\ ctl' = "run"
  /\ UNCHANGED <<Tokens, TokenIndex, val, from, HasErrors, ErrCount>>

FirstNull ==
  /\ Resumed("null", "first")
  /\ stack' = [stack EXCEPT ![Len(stack)].alt = @ + 1]
  /\ ctl' = "run"
  /\ UNCHANGED <<Tokens, TokenIndex, kids, val, from, HasErrors, ErrCount>>

NoneLeft ==
  /\ Running("first")
  /\ Top.alt > Len(Ins.arg)
  /\ GiveUp(Ins.miss)
  /\ UNCHANGED <<Tokens, HasErrors>>

(* The statement loops of TryParseRoot and TryParseScope.  Only the root   *)
(* tests the capacity of its array; RUNTIME_ERR calls exit().              *)
StatsHead ==
  /\ Running("stats")
  /\ \/ /\ \/ At("end")
           \/ \E k \in 1 .. Len(Ins.arg) : At(Ins.arg[k])
        /\ Goto(Top.pc + 1)
        /\ UNCHANGED <<kids, ctl, ErrCount>>
     \/ /\ ~At("end")
        /\ \A k \in 1 .. Len(Ins.arg) : ~At(Ins.arg[k])
        /\ \/ /\ Top.fn = "Root" => Len(kids[Len(kids)]) < MAX_NODE_STATS
              /\ Call("Stmt", TokenIndex, 0)
              /\ UNCHANGED ErrCount
           \/ /\ Top.fn = "Root" /\ Len(kids[Len(kids)]) >= MAX_NODE_STATS
              /\ ctl' = "exit"
              /\ ErrCount' = ErrCount + 1
              /\ UNCHANGED <<stack, kids>>
  /\ UNCHANGED <<Tokens, TokenIndex, val, from, HasErrors>>

StatsNode ==
  /\ Resumed("node", "stats")
  /\ Collect(val)
  /\ ctl' = "run"
  /\ UNCHANGED <<Tokens, TokenIndex, stack, val, from, HasErrors, ErrCount>>

(* A scope forgets the statements it could not parse, the root does not.   *)
StatsNull ==
  /\ Resumed("null", "stats")
  /\ HasErrors' = (HasErrors \/ Top.fn = "Root")
  /\ ctl' = "run"
  /\ UNCHANGED <<Tokens, TokenIndex, stack, kids, val, from, ErrCount>>

(* The argument loops of TryParseFunDecl and TryParseCall.                 *)
ListHead ==
  /\ Running("list")
  /\ \/ /\ At("RPAREN")
        /\ Consume
        /\ Goto(Top.pc + 1)
        /\ UNCHANGED <<kids, ctl>>
     \/ /\ ~At("RPAREN")
        /\ Call(Ins.arg[1], TokenIndex, 0)
        /\ UNCHANGED TokenIndex
  /\ UNCHANGED <<Tokens, val, from, HasErrors, ErrCount>>

(* After an argument: a comma is consumed, or else the token AFTER the     *)
(* next one is asked to be ')'.                                            *)
ListItem ==
  /\ Resumed("node", "list")
  /\ \/ /\ At("COMMA")
        /\ Consume
        /\ Collect(val)
        /\ ctl' = "run"
        /\ UNCHANGED <<stack, val, from, ErrCount>>
     \/ /\ ~At("COMMA") /\ Peek(1) = "RPAREN"
        /\ Collect(val)
        /\ ctl' = "run"
        /\ UNCHANGED <<TokenIndex, stack, val, from, ErrCount>>
     \/ /\ ~At("COMMA") /\ Peek(1) = "end"         \* Peek(1)->Subtype of NULL
        /\ ctl' = "crash"
        /\ UNCHANGED <<TokenIndex, stack, kids, val, from, ErrCount>>
     \/ /\ ~At("COMMA") /\ Peek(1) \notin {"RPAREN", "end"}
        /\ SYNTAX_ERR
        /\ Return("null", Null)
        /\ UNCHANGED TokenIndex
  /\ UNCHANGED <<Tokens, HasErrors>>

(* The arrays whose capacity nothing tests: a statement of a scope, or an  *)
(* argument, is stored past their end.  That may do no harm, and the other *)
(* actions go on, or end the process.                                      *)
ArrayFull ==
  \/ Ins.do = "stats" /\ Top.fn = "Scope"
       /\ Len(kids[Len(kids)]) >= MAX_SCOPE_STATS
  \/ Ins.do = "list" /\ Len(kids[Len(kids)]) > MAX_FUN_ARGS  \* after the name

Overrun ==
  /\ Resumed("node", "stats") \/ Resumed("node", "list")
  /\ ArrayFull
  /\ ctl' = "crash"
  /\ UNCHANGED <<Tokens, TokenIndex, stack, kids, val, from, HasErrors, ErrCount>>

(* Precedence climbing: the loop of TryParseBinExpr over the operators     *)
(* that bind at least as tightly as MinPrec.                               *)
ClimbHead ==
  /\ Running("climb")
  /\ \/ /\ Peek(0) \in Operators
        /\ OPINFOS(Peek(0)).Prec >= Top.min
        /\ Consume
        /\ Call("BinExpr", TokenIndex + 1, NextMinPrec(Peek(0)))
     \/ /\ Peek(0) \in Operators => OPINFOS(Peek(0)).Prec < Top.min
        /\ Goto(Size(Top.fn) + 1)
        /\ UNCHANGED <<TokenIndex, kids, ctl>>
  /\ UNCHANGED <<Tokens, val, from, HasErrors, ErrCount>>

(* The operator is the token before the one the right operand began at.    *)
ClimbNode ==
  /\ Resumed("node", "climb")
  /\ kids' = [kids EXCEPT ![Len(kids)] =
                << Node("BinExpr", from, <<@[1], val>>) >>]
  /\ ctl' = "run"
  /\ UNCHANGED <<Tokens, TokenIndex, stack, val, from, HasErrors, ErrCount>>

(* The functions that only pass on the node another function built.        *)
PassOn == {"NumLit", "Ident", "Term", "Expr", "BinExpr", "Stmt"}

EndOfBody ==
  /\ stack # <<>> /\ ctl = "run" /\ Top.pc > Size(Top.fn)
  /\ LET ks == kids[Len(kids)]
     IN  \/ /\ Top.fn = "Root" /\ HasErrors
            /\ Return("null", Null)
         \/ /\ Top.fn = "Root" => ~HasErrors
            /\ Return("node", IF Top.fn \in PassOn THEN ks[1]
                              ELSE Node(Top.fn, Top.at + 1, ks))
  /\ UNCHANGED <<Tokens, TokenIndex, HasErrors, ErrCount>>

Stopped == stack = <<>> \/ ctl \in {"crash", "exit"}
Halt    == Stopped /\ UNCHANGED vars

Next ==
  \/ TokenHit  \/ TokenMiss \/ OptMiss   \/ Branch
  \/ CallSub   \/ SubNode   \/ SubNull
  \/ TryNext   \/ FirstNode \/ FirstNull \/ NoneLeft
  \/ StatsHead \/ StatsNode \/ StatsNull
  \/ ListHead  \/ ListItem  \/ Overrun
  \/ ClimbHead \/ ClimbNode
  \/ EndOfBody \/ Halt

Spec == Init /\ [][Next]_vars

(* The program is one thread: it is never kept from its next step.         *)
FairSpec == Spec /\ WF_vars(Next)

-----------------------------------------------------------------------------
(* Types, and the cursor within the token array.                           *)
TypeOK ==
  /\ Tokens \in Seq(Kinds)
  /\ TokenIndex \in 0 .. Len(Tokens)
  /\ stack \in Seq(Frame)
  /\ ctl \in {"run", "node", "null", "crash", "exit"}
  /\ from \in 0 .. Len(Tokens)
  /\ HasErrors \in BOOLEAN
  /\ ErrCount \in Nat

(* Whenever TryParseStmt returns to the loop of TryParseRoot or            *)
(* TryParseScope, with a node, with NULL after "Missing semicolon", or     *)
(* after resynchronising, it has consumed at least one token: neither      *)
(* `while (Peek(0) ...)' loop can spin on a token nobody wants.            *)
StmtProgress ==
  stack # <<>> /\ ctl \in {"node", "null"} /\ Ins.do = "stats"
    => TokenIndex > from

(* The recursion is as deep as the tokens consumed allow and no deeper:    *)
(* at most two calls per token below the five of an untouched statement,   *)
(* TryParseRoot, Stmt, FunDef, FunDecl, Decl.  (Nothing else bounds it.)   *)
StackDepth == Len(stack) <= 2 * TokenIndex + 5

(* A program NULL is returned for has at least one error message: main     *)
(* never stops a compilation in silence.                                   *)
RejectionIsReported == stack = <<>> /\ ctl = "null" => ErrCount > 0

(* No token is looked at past the end of a program that ends in ';',       *)
(* except by the argument loops (Peek(1)): expressions never swallow the   *)
(* semicolon, so Peek(0)->Line in TryParseExpr has a token to read.        *)
CrashOnlyIfUnterminated ==
  ctl = "crash" => \/ Tokens = <<>> \/ Tokens[Len(Tokens)] # "SEMI"
                   \/ Ins.do = "list" \/ ArrayFull

(* A tree is made of the nodes of node_types.h: how many children a node   *)
(* has, and of which kinds they are.                                       *)
ExprKinds == {"NUMLIT", "ID", "BinExpr", "Interval", "Asgn", "Call"}
StmtKinds == {"Asgn", "Decl", "VarDef", "Scope", "FunDecl", "FunDef", "Call",
              "Exit", "If", "For", "While"}

Arity(nt) ==
  CASE nt \in Kinds                                            -> {0}
    [] nt = "Exit"                                             -> {1}
    [] nt \in {"BinExpr", "Interval", "Asgn", "VarDef", "FunDef",
               "If", "While"}                                  -> {2}
    [] nt = "For"                                              -> {3}
    [] nt = "Decl"                                             -> {2, 3}
    [] nt \in {"Call", "FunDecl"}                              -> Nat \ {0}
    [] nt \in {"Scope", "Root"}                                -> Nat

Slot(nt, i) ==
  CASE nt \in {"BinExpr", "Interval", "Exit"} -> ExprKinds
    [] nt \in {"Asgn", "Call"}  -> IF i = 1 THEN {"ID"} ELSE ExprKinds
    [] nt \in {"If", "While"}   -> IF i = 1 THEN ExprKinds ELSE {"Scope"}
    [] nt = "For"    -> IF i = 1 THEN {"VarDef"}
                        ELSE IF i = 2 THEN ExprKinds ELSE {"Scope"}
    [] nt = "VarDef" -> IF i = 1 THEN {"Decl"} ELSE ExprKinds
    [] nt = "FunDef" -> IF i = 1 THEN {"FunDecl"} ELSE {"Scope"}
    [] nt = "FunDecl" -> {"Decl"}
    [] nt = "Decl"   -> IF i = 1 THEN {"BITYPE"}
                        ELSE IF i = 2 THEN {"var", "ID"} ELSE {"ID"}
    [] nt \in {"Scope", "Root"} -> StmtKinds

Shaped(n) ==
  /\ Len(n.kids) \in Arity(n.nt)
  /\ \A i \in 1 .. Len(n.kids) : n.kids[i].nt \in Slot(n.nt, i)
  /\ n.nt = "Decl" => (n.kids[2].nt = "var" <=> Len(n.kids) = 3)

(* The nodes of the tree n down to the depth d, and the places in the      *)
(* source of the tokens that are kept in them.                             *)
Kids(n) == {n.kids[i] : i \in 1 .. Len(n.kids)}

Within(n, d) ==
  LET part[k \in Nat] ==
        IF k = 0 THEN {n} ELSE UNION {{m} \cup Kids(m) : m \in part[k - 1]}
  IN  part[d]

Cover(n, d) == {m.at : m \in {p \in Within(n, d) : p.nt \in Kinds}}

(* All of X is left of all of Y.                                           *)
Before(X, Y) == \A x \in X, y \in Y : x < y

Parted(n, d) ==
  /\ \A i, j \in 1 .. Len(n.kids) :
       i < j => Before(Cover(n.kids[i], d), Cover(n.kids[j], d))
  /\ n.nt = "BinExpr" => /\ Before(Cover(n.kids[1], d), {n.at})
                         /\ Before({n.at}, Cover(n.kids[2], d))

(* What a function returns is a tree the generator can read: every node    *)
(* has the children of its kind, operators lie between their operands, and *)
(* no token is kept twice or out of its order in the source, whatever      *)
(* alternatives were tried and given up.  (A tree is never deeper than it  *)
(* has tokens.)                                                            *)
TreesWellFormed ==
  ctl = "node" =>
    LET d == TokenIndex - from
    IN  \A n \in Within(val, d) :
          /\ Shaped(n) /\ Parted(n, d)
          /\ n.nt \in Kinds => n.at \in from + 1 .. TokenIndex /\ Tokens[n.at] = n.nt
          /\ n.nt = "BinExpr" => Tokens[n.at] \in Operators

(* Parse comes to an end on every token string: it returns, or stops the   *)
(* process.                                                                *)
Terminates == <>Stopped
=============================================================================
