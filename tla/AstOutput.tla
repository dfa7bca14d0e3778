------------------------------ MODULE AstOutput ------------------------------
(***************************************************************************)
(* The syntax tree as JSON: src/debug/ast_output.c (one Output function    *)
(* per kind of node) and the writer it calls, src/debug/jWrite.c.          *)
(*                                                                         *)
(* An Output function is the list of the calls its body makes; `todo'      *)
(* holds those left, a callee's before the rest of its caller's.  The      *)
(* buffer is filled lexeme by lexeme: a brace, a comma, a key or a value   *)
(* is one, which stands for the token of the source it renders.  What of a *)
(* lexeme may fit before the end of the buffer is left out.                *)
(***************************************************************************)
EXTENDS Integers, Sequences

CONSTANTS
  Trees,                  \* the statement lists OutputAST may be given
  JWRITE_STACK_DEPTH,     \* capacity of nodeStack
  MAX_AST_JSON_FILESIZE   \* capacity of AST, with its terminator

ASSUME AstOutputAssumption ==
  /\ JWRITE_STACK_DEPTH \in Nat \ {0}
  /\ MAX_AST_JSON_FILESIZE \in Nat /\ MAX_AST_JSON_FILESIZE > 1

VARIABLES
  Tree,   \* the statements of the root
  todo,   \* calls left
  jw,     \* g_jWriteControl: out (buffer up to bufp), nodeStack, error
  json    \* bin/ast.json, empty before it is written

vars == <<Tree, todo, jw, json>>

-----------------------------------------------------------------------------
(* A lexeme: punctuation, a key or an enumerator, which have no place in   *)
(* the source, or what the token at a place of it becomes: a number        *)
(* ("double"), a name, an operator or a type.                              *)
Lexeme(kind, at) == [kind |-> kind, at |-> at]
Mark(kind)       == Lexeme(kind, 0)

(* jWrite.  A node of the stack: its type, and how many elements it has.   *)
StackNode(type) == [nodeType |-> type, elementNo |-> 0]
Pos(w)  == Len(w.nodeStack)
TopType(w) == w.nodeStack[Pos(w)].nodeType
Error(w, e) == [w EXCEPT !.error = e]

BugPutch(w, c) ==                        \* no place kept for the terminator
  IF Len(w.out) >= MAX_AST_JSON_FILESIZE
  THEN Error(w, "BUF_FULL") ELSE [w EXCEPT !.out = Append(@, c)]
jwPutch(w, c) ==
  IF Len(w.out) + 1 >= MAX_AST_JSON_FILESIZE
  THEN Error(w, "BUF_FULL") ELSE [w EXCEPT !.out = Append(@, c)]

jwPush(w, type) ==
  IF Pos(w) >= JWRITE_STACK_DEPTH
  THEN Error(w, "STACK_FULL")
  ELSE [w EXCEPT !.nodeStack = Append(@, StackNode(type))]

(* The root stays on the stack.                                            *)
jwPop(w) ==
  IF Pos(w) = 1
  THEN Error(w, "STACK_EMPTY")
  ELSE [w EXCEPT !.nodeStack = SubSeq(@, 1, Pos(w) - 1)]

(* elementNo++ > 0: a comma.                                               *)
Comma(w) ==
  LET counted == [w EXCEPT !.nodeStack[Pos(w)].elementNo = @ + 1]
  IN  IF w.nodeStack[Pos(w)].elementNo > 0 THEN jwPutch(counted, Mark(",")) ELSE counted

_jwArr(w) == IF TopType(w) # "ARRAY" THEN Error(w, "NOT_ARRAY") ELSE Comma(w)

(* After a comma that found no place nothing else is written.              *)
IfOK(w, next) == IF w.error = "OK" THEN next ELSE w

jw_key(w, key) ==
  LET begun == IF TopType(w) # "OBJECT" THEN Error(w, "NOT_OBJECT") ELSE Comma(w)
  IN  jwPush(jwPutch(jwPutch(begun, key), Mark(":")), "VALUE")

(* jw_string; and jw_raw, which jw_int and jw_double call.                 *)
jw_value(w, v) ==
  CASE TopType(w) = "ARRAY"  -> IfOK(_jwArr(w), jwPutch(_jwArr(w), v))
    [] TopType(w) = "VALUE"  -> jwPop(jwPutch(w, v))
    [] TopType(w) = "OBJECT" -> Error(w, "NOT_VALUE")

(* jw_object and jw_array.                                                 *)
BugOpen(w, type, brace) ==               \* the VALUE is left on the stack
  CASE TopType(w) = "ARRAY"  -> IfOK(_jwArr(w), jwPush(jwPutch(_jwArr(w), brace), type))
    [] TopType(w) = "VALUE"  -> jwPush(jwPutch(w, brace), type)
    [] TopType(w) = "OBJECT" -> Error(w, "NOT_VALUE")
Open(w, type, brace) ==
  CASE TopType(w) = "ARRAY"  -> IfOK(_jwArr(w), jwPush(jwPutch(_jwArr(w), brace), type))
    [] TopType(w) = "VALUE"  -> jwPush(jwPutch(jwPop(w), brace), type)
    [] TopType(w) = "OBJECT" -> Error(w, "NOT_VALUE")

jwEnd(w) ==
  CASE TopType(w) = "OBJECT" -> jwPutch(jwPop(w), Mark("}"))
    [] TopType(w) = "ARRAY"  -> jwPutch(jwPop(w), Mark("]"))
    [] TopType(w) = "VALUE"  -> Error(jwPop(w), "MISSING_VALUE")

jwClose(w) == IF Pos(w) = 1 THEN jwPutch(w, Mark("]")) ELSE Error(w, "NEST_ERROR")

jwOpen == jwPutch([out |-> <<>>, nodeStack |-> <<StackNode("ARRAY")>>,
                   error |-> "OK"], Mark("["))

(* Every call does nothing once there is an error.                         *)
Apply(w, call) ==
  IF w.error # "OK" THEN w
  ELSE CASE call.do = "key"    -> jw_key(w, call.arg)
         [] call.do = "value"  -> jw_value(w, call.arg)
         [] call.do = "object" -> Open(w, "OBJECT", Mark("{"))
         [] call.do = "array"  -> Open(w, "ARRAY", Mark("["))
         [] call.do = "end"    -> jwEnd(w)
         [] call.do = "close"  -> jwClose(w)

-----------------------------------------------------------------------------
(* The calls of an Output function: of jWrite, or of another.              *)
Call(do, arg) == [do |-> do, arg |-> arg]
Object  == Call("object", Mark("{"))
Array   == Call("array", Mark("["))
End     == Call("end", Mark(""))
Close   == Call("close", Mark(""))
Key(k)  == Call("key", Mark(k))
Value(kind, at) == Call("value", Lexeme(kind, at))
Output(f, n) == [do |-> "output", fn |-> f, node |-> n]

API == {"object", "array", "end", "close", "key", "value"}

(* An object that says what kind of node it is and has one thing more.     *)
Holding(h, key, value) ==
  << Object, Key("holds"), Value(h, 0), Key(key), value, End >>
HoldingNone(h) == << Object, Key("holds"), Value(h, 0), End >>

OutputTerm(n) ==
  IF n.nt = "NUMLIT" THEN Holding("_TERM_NUMLIT", "num_lit", Value("double", n.at))
                     ELSE Holding("_TERM_IDENT", "id", Value("name", n.at))

OutputBinExpr(n) ==
  << Object, Key("lhs"), Output("Expr", n.kids[1]), Key("rhs"),
     Output("Expr", n.kids[2]), Key("op"), Value("op", n.at), End >>

(* Of an interval, an assignment and a call no more than their kind.       *)
OutputExpr(n) ==
  CASE n.nt \in {"NUMLIT", "ID"} -> Holding("_TERM", "term", Output("Term", n))
    [] n.nt = "BinExpr"  -> Holding("_BIN_EXPR", "bin_expr", Output("BinExpr", n))
    [] n.nt = "Interval" -> HoldingNone("_INTERVAL")
    [] n.nt = "Asgn"     -> HoldingNone("_ASGN")
    [] n.nt = "Call"     -> HoldingNone("_CALL")

OutputScope(n) ==
  << Array >> \o [i \in 1 .. Len(n.kids) |-> Output("Stmt", n.kids[i])] \o << End >>

(* Where a declaration has its type and its name.                          *)
TypeAt(decl) == decl.kids[1].at
NameAt(decl) == decl.kids[Len(decl.kids)].at

(* The initial value of a loop variable is not written.                    *)
OutputFor(n) ==
  << Object, Key("type"), Value("type", TypeAt(n.kids[1].kids[1])),
     Key("id"), Value("name", NameAt(n.kids[1].kids[1])),
     Key("scope"), Output("Scope", n.kids[3]),
     Key("range"), Output("Expr", n.kids[2]), End >>

OutputAsgn(n) ==
  << Object, Key("id"), Value("name", n.kids[1].at),
     Key("expr"), Output("Expr", n.kids[2]), End >>

OutputDecl(n) ==
  << Object, Key("type"), Value("type", TypeAt(n)),
     Key("id"), Value("name", NameAt(n)), End >>

OutputDef(n) ==
  << Object, Key("type"), Value("type", TypeAt(n.kids[1])),
     Key("id"), Value("name", NameAt(n.kids[1])),
     Key("expr"), Output("Expr", n.kids[2]), End >>

OutputExit(n) == << Object, Key("expr"), Output("Expr", n.kids[1]), End >>

OutputIf(n) ==
  << Object, Key("expr"), Output("Expr", n.kids[1]),
     Key("scope"), Output("Scope", n.kids[2]), End >>

(* Of a while, a function and a call no more than their kind.              *)
OutputStmt(n) ==
  CASE n.nt = "Exit"    -> Holding("_STMT_EXIT", "exit", Output("Exit", n))
    [] n.nt = "Asgn"    -> Holding("_ASGN", "asgn", Output("Asgn", n))
    [] n.nt = "Decl"    -> Holding("_DECL", "decl", Output("Decl", n))
    [] n.nt = "VarDef"  -> Holding("_VAR_DEF", "def", Output("VarDef", n))
    [] n.nt = "For"     -> Holding("_STMT_FOR", "for", Output("For", n))
    [] n.nt = "Scope"   -> Holding("_SCOPE", "scope", Output("Scope", n))
    [] n.nt = "If"      -> Holding("_STMT_IF", "if", Output("If", n))
    [] n.nt = "While"   -> HoldingNone("_STMT_WHILE")
    [] n.nt = "FunDecl" -> HoldingNone("_FUN_DECL")
    [] n.nt = "FunDef"  -> HoldingNone("_FUN_DEF")
    [] n.nt = "Call"    -> HoldingNone("_CALL")

Body(f, n) ==
  CASE f = "Stmt" -> OutputStmt(n)  [] f = "Expr"    -> OutputExpr(n)
    [] f = "Term" -> OutputTerm(n)  [] f = "BinExpr" -> OutputBinExpr(n)
    [] f = "If"   -> OutputIf(n)    [] f = "For"     -> OutputFor(n)
    [] f = "Asgn" -> OutputAsgn(n)  [] f = "VarDef"  -> OutputDef(n)
    [] f = "Decl" -> OutputDecl(n)  [] f = "Scope"   -> OutputScope(n)
    [] f = "Exit" -> OutputExit(n)

-----------------------------------------------------------------------------
(* OutputAST: jwOpen, the statements, jwEnd on the root, and jwClose, whose *)
(* results nobody looks at.                                                *)
RootCalls(tree) ==
  [i \in 1 .. Len(tree) |-> Output("Stmt", tree[i])] \o << End, Close >>

Init ==
  /\ Tree \in Trees
  /\ todo = RootCalls(Tree)
  /\ jw = jwOpen
  /\ json = <<>>

OutputNode ==
  /\ todo # <<>> /\ Head(todo).do = "output"
  /\ todo' = Body(Head(todo).fn, Head(todo).node) \o Tail(todo)
  /\ UNCHANGED <<Tree, jw, json>>

CallWriter ==
  /\ todo # <<>> /\ Head(todo).do \in API
  /\ jw' = Apply(jw, Head(todo))
  /\ todo' = Tail(todo)
  /\ UNCHANGED <<Tree, json>>

(* fputs of what is in the buffer, whether or not there was an error.      *)
WriteFile ==
  /\ todo = <<>> /\ json = <<>>
  /\ json' = jw.out
  /\ UNCHANGED <<Tree, todo, jw>>

Written == todo = <<>> /\ json = jw.out
Halt    == Written /\ UNCHANGED vars

Next == OutputNode \/ CallWriter \/ WriteFile \/ Halt
Spec == Init /\ [][Next]_vars

-----------------------------------------------------------------------------
(* The writer keeps within its two arrays, and leaves a byte of AST for    *)
(* the terminator fputs asks for, whatever the tree is and whatever calls  *)
(* follow an error.                                                        *)
WriterFits ==
  /\ Len(jw.out) < MAX_AST_JSON_FILESIZE
  /\ Len(jw.nodeStack) \in 1 .. JWRITE_STACK_DEPTH
=============================================================================
