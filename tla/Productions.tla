----------------------------- MODULE Productions -----------------------------
(***************************************************************************)
(* The TryParse functions of src/parser/parse.c.  Each is a short list of  *)
(* instructions, one per call or test of its C body; how they are carried  *)
(* out is in Parser.                                                       *)
(*                                                                         *)
(* A token is its subtype.  The eleven built-in types are one kind, both   *)
(* numeric literals are one kind, and "other" stands for every token no    *)
(* production asks for ('.', string literals, ret, cont, true, ...).       *)
(***************************************************************************)
EXTENDS Integers, Sequences

(* Names that begin with Bug are wrong versions of the definition below    *)
(* them: each shows that some property of the parser can fail.             *)
BugOperators == {"+", "-", "*", "/", "^", "=", "<", ">", "~", "#", "@", "SEMI"}

Operators == {"+", "-", "*", "/", "^", "=", "<", ">", "~", "#", "@"}
Specials  == {"LBRACK", "RBRACK", "LPAREN", "RPAREN", "LBRACE", "RBRACE",
              "COMMA", "COLON", "SEMI"}
Keywords  == {"if", "for", "while", "exit", "var"}
Kinds     == Operators \cup Specials \cup Keywords
               \cup {"ID", "NUMLIT", "BITYPE", "other"}

-----------------------------------------------------------------------------
(* Instructions.  `miss' is what the function does when the instruction    *)
(* does not succeed: return NULL quietly, return NULL after one            *)
(* SYNTAX_ERR ("error"), the same with a message that reads                *)
(* Peek(0)->Line ("errorAt"), or resynchronise after the error ("skip").   *)

Instr(do, arg, miss) == [do |-> do, arg |-> arg, miss |-> miss]

Eat(k)         == Instr("eat",   <<k>>, "quiet")  \* TryConsumeSub, else NULL
BugNeed(k)     == Instr("eat",   <<k>>, "quiet")
Need(k)        == Instr("eat",   <<k>>, "error")  \* TryConsumeSub, else error
Take(k)        == Instr("take",  <<k>>, "quiet")  \* TryConsumeType, kept
Opt(k)         == Instr("opt",   <<k>>, "quiet")  \* TryConsumeSub, optional
Try(f)         == Instr("call",  <<f>>, "quiet")  \* call f, else NULL
Must(f)        == Instr("call",  <<f>>, "error")  \* call f, else error
First(fs, m)   == Instr("first", fs, m)           \* ordered choice
ListOf(f)      == Instr("list",  <<f>>, "error")  \* arguments up to "RPAREN"
StatsUntil(ks) == Instr("stats", ks, "quiet")     \* statements up to ks or end
Fork(k)        == Instr("fork",  <<k>>, "quiet")  \* on k skip two
Climb          == Instr("climb", <<>>, "error")   \* the operator loop

TryParseWhile    == << Eat("while"), Must("Expr"), Must("Scope") >>
TryParseFunDef   == << Try("FunDecl"), Must("Scope") >>
TryParseFunDecl  == << Try("Decl"), Eat("LPAREN"), ListOf("Decl") >>
TryParseCall     == << Try("Ident"), Eat("LPAREN"), ListOf("Expr") >>
TryParseNumLit   == << Take("NUMLIT") >>
TryParseIdent    == << Take("ID") >>
TryParseTerm     == << First(<<"NumLit", "Ident">>, "quiet") >>
BugBinExpr       == << Fork("LPAREN"), Must("Term"), Climb,
                       Must("BinExpr"), Climb >>
TryParseBinExpr  == << Fork("LPAREN"), Must("Term"), Climb,
                       Must("BinExpr"), Need("RPAREN"), Climb >>
TryParseExpr     == << First(<<"Interval", "Asgn", "Call", "BinExpr">>,
                             "errorAt") >>
BugInterval      == << Try("Expr"), Eat("COMMA"), Must("Expr") >>
TryParseInterval == << Eat("LBRACK"), Try("Expr"), Eat("COMMA"), Must("Expr"),
                       Need("RBRACK") >>
TryParseAsgn     == << Try("Ident"), Eat("="), Must("Expr") >>
TryParseVarDef   == << Try("Decl"), Eat("="), Must("Expr") >>
TryParseDecl     == << Take("BITYPE"), Eat("COLON"), Opt("var"), Try("Ident") >>
BugScope         == << Eat("LBRACE"), StatsUntil(<<"RBRACE">>),
                       Eat("RBRACE"), Eat("SEMI") >>
TryParseScope    == << Eat("LBRACE"), StatsUntil(<<"RBRACE">>), Need("RBRACE") >>
TryParseIf       == << Eat("if"), Must("Expr"), Must("Scope") >>
BugFor           == << Eat("for"), Must("VarDef"), Must("Expr"), Must("Scope") >>
TryParseFor      == << Eat("for"), Must("VarDef"), Need("COLON"), Must("Expr"),
                       Must("Scope") >>
TryParseExit     == << Eat("exit"), Must("Expr") >>
BugStmt          == << First(<<"For", "VarDef", "If", "While", "Scope", "Exit",
                               "Asgn", "Decl", "FunDef", "FunDecl", "Call">>,
                             "quiet"), Need("SEMI") >>
TryParseStmt     == << First(<<"For", "VarDef", "If", "While", "Scope", "Exit",
                               "Asgn", "Decl", "FunDef", "FunDecl", "Call">>,
                             "skip"), Need("SEMI") >>
TryParseRoot     == << StatsUntil(<<>>) >>

Body ==
  [While    |-> TryParseWhile,    FunDef  |-> TryParseFunDef,
   FunDecl  |-> TryParseFunDecl,  Call    |-> TryParseCall,
   NumLit   |-> TryParseNumLit,   Ident   |-> TryParseIdent,
   Term     |-> TryParseTerm,     BinExpr |-> TryParseBinExpr,
   Expr     |-> TryParseExpr,     Interval |-> TryParseInterval,
   Asgn     |-> TryParseAsgn,     VarDef  |-> TryParseVarDef,
   Decl     |-> TryParseDecl,     Scope   |-> TryParseScope,
   If       |-> TryParseIf,       For     |-> TryParseFor,
   Exit     |-> TryParseExit,     Stmt    |-> TryParseStmt,
   Root     |-> TryParseRoot]

Functions == DOMAIN Body
Size(f)   == Len(Body[f])
=============================================================================
