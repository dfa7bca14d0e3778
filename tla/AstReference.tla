----------------------------- MODULE AstReference -----------------------------
(***************************************************************************)
(* The JSON a syntax tree should be written as, stated as a value and not  *)
(* as a sequence of calls: an object is a list of members, an array a list *)
(* of values, and punctuation follows from that.                           *)
(*                                                                         *)
(* A value is given by its text, and by the heights the stack of the       *)
(* writer comes to, above where it is begun, until the value is written.   *)
(***************************************************************************)
EXTENDS AstOutput

Atom(lexeme) == [text |-> << lexeme >>, heights |-> {}]
Then(v, w)   == [text |-> v.text \o w.text, heights |-> v.heights \cup w.heights]
Enclosed(v)  == [text |-> v.text, heights |-> {1} \cup {1 + h : h \in v.heights}]

(* A key is on the stack until its value is begun.                         *)
KeyPart(k)   == [text |-> << Mark(k), Mark(":") >>, heights |-> {1}]
Member(k, v) == Then(KeyPart(k), v)

(* A comma before each part but the first.                                 *)
Separator(i) == [text |-> IF i = 1 THEN <<>> ELSE << Mark(",") >>, heights |-> {}]

Listed(open, n, parts, close) ==
  LET rest[i \in 1 .. n + 1] ==
        IF i = n + 1 THEN Atom(Mark(close))
        ELSE Then(Then(Separator(i), parts[i]), rest[i + 1])
  IN  Enclosed(Then(Atom(Mark(open)), rest[1]))

Obj(members)   == Listed("{", Len(members), members, "}")
Arr(n, values) == Listed("[", n, values, "]")

Of(kind, at)    == Atom(Lexeme(kind, at))
Holds(h)        == Member("holds", Atom(Mark(h)))
HoldsOnly(h)    == Obj(<< Holds(h) >>)
Tagged(h, k, v) == Obj(<< Holds(h), Member(k, v) >>)
Type(decl)      == Member("type", Of("type", TypeAt(decl)))
Id(decl)        == Member("id", Of("name", NameAt(decl)))

(* A place in a tree is a node, and the kind of value it is written as; v  *)
(* gives the values of the places below n.                                 *)
AstValue(as, n, v) ==
  LET Expr(i)  == v[<<"expr", n.kids[i]>>]
      Stmts(s) == Arr(Len(s.kids),
                      [i \in 1 .. Len(s.kids) |-> v[<<"stmt", s.kids[i]>>]])
  IN  IF as = "expr"
      THEN CASE n.nt = "NUMLIT" ->
                  Tagged("_TERM", "term",
                    Tagged("_TERM_NUMLIT", "num_lit", Of("double", n.at)))
             [] n.nt = "ID" ->
                  Tagged("_TERM", "term", Tagged("_TERM_IDENT", "id", Of("name", n.at)))
             [] n.nt = "BinExpr" ->
                  Tagged("_BIN_EXPR", "bin_expr",
                    Obj(<< Member("lhs", Expr(1)), Member("rhs", Expr(2)),
                           Member("op", Of("op", n.at)) >>))
             [] n.nt = "Interval" -> HoldsOnly("_INTERVAL")
             [] n.nt = "Asgn"     -> HoldsOnly("_ASGN")
             [] n.nt = "Call"     -> HoldsOnly("_CALL")
      ELSE CASE n.nt = "Exit" ->
                  Tagged("_STMT_EXIT", "exit", Obj(<< Member("expr", Expr(1)) >>))
             [] n.nt = "Asgn" ->
                  Tagged("_ASGN", "asgn",
                    Obj(<< Member("id", Of("name", n.kids[1].at)),
                           Member("expr", Expr(2)) >>))
             [] n.nt = "Decl" -> Tagged("_DECL", "decl", Obj(<< Type(n), Id(n) >>))
             [] n.nt = "VarDef" ->
                  Tagged("_VAR_DEF", "def",
                    Obj(<< Type(n.kids[1]), Id(n.kids[1]), Member("expr", Expr(2)) >>))
             [] n.nt = "For" ->
                  Tagged("_STMT_FOR", "for",
                    Obj(<< Type(n.kids[1].kids[1]), Id(n.kids[1].kids[1]),
                           Member("scope", Stmts(n.kids[3])),
                           Member("range", Expr(2)) >>))
             [] n.nt = "Scope" -> Tagged("_SCOPE", "scope", Stmts(n))
             [] n.nt = "If" ->
                  Tagged("_STMT_IF", "if",
                    Obj(<< Member("expr", Expr(1)),
                           Member("scope", Stmts(n.kids[2])) >>))
             [] n.nt = "While"   -> HoldsOnly("_STMT_WHILE")
             [] n.nt = "FunDecl" -> HoldsOnly("_FUN_DECL")
             [] n.nt = "FunDef"  -> HoldsOnly("_FUN_DEF")
             [] n.nt = "Call"    -> HoldsOnly("_CALL")

(* The values of the places of some nodes that have all their children    *)
(* among them, if none of them heads a tree of a depth above d.            *)
AstValues(nodes, d) ==
  LET value[k \in 0 .. d] ==
        [p \in {"expr", "stmt"} \X nodes |->
           IF k = 0 THEN Atom(Mark("too deep"))
                    ELSE AstValue(p[1], p[2], value[k - 1])]
  IN  value[d]

Document(nodes, d) ==
  LET v == AstValues(nodes, d)
  IN  Arr(Len(Tree), [i \in 1 .. Len(Tree) |-> v[<<"stmt", Tree[i]>>]])

-----------------------------------------------------------------------------
(* bin/ast.json is the whole tree if that is not too deep for the writer   *)
(* and not too long.  Otherwise it is the beginning of it, cut off where   *)
(* the writer stopped: nothing after an error is ever written, and nothing *)
(* is written wrongly.                                                     *)
WholeOrCut(nodes, d) ==
  json # <<>> =>
    LET document == Document(nodes, d)
        fits == /\ \A h \in document.heights : h <= JWRITE_STACK_DEPTH
                /\ Len(document.text) < MAX_AST_JSON_FILESIZE
    IN  IF fits THEN json = document.text
        ELSE /\ Len(json) < Len(document.text)
             /\ json = SubSeq(document.text, 1, Len(json))
=============================================================================
