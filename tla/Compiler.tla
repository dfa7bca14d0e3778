------------------------------- MODULE Compiler -------------------------------
(***************************************************************************)
(* The whole compiler on one source: main of src/entry.c from Tokenize on, *)
(* with the lexer, the parser, the AST output and the generator in their   *)
(* places, what each hands to the next, and the program that is built.     *)
(*                                                                         *)
(* `at' is the call main has come to, named as in Driver.  What a phase    *)
(* does within is its own module's; here are the calls and returns.        *)
(* Identifiers are single letters.                                         *)
(***************************************************************************)
EXTENDS AstReference, SequencesExt

CONSTANTS
  Sources, Letters, Digits, DigitValue, Spelling, BITYPES,
  MAX_TOKENS, MAX_LIT_CHARS, BeyondTable,
  MAX_NODE_STATS, MAX_SCOPE_STATS, MAX_FUN_ARGS,
  MAX_STACK_VARS, MAX_SCOPES, ExpWrap, Values, Byte, StackSlots

VARIABLES
  at, status,                                           \* main
  Source, Index, Line, Column, tokens, lexpc, start, HasDecimal,
  Tokens, TokenIndex, frames, kids, parsectl, val, from, HasErrors, ErrCount,
  NDEBUG, Program, tasks, TEXT, VarRegistry, StackPtr, ScopeRegistry, IDs, genctl,
  process, pc, regs, flags, memory

lexvars   == <<Source, Index, Line, Column, tokens, lexpc, start, HasDecimal>>
parsevars == <<Tokens, TokenIndex, frames, kids, parsectl, val, from, HasErrors, ErrCount>>
astvars   == vars                                       \* of AstOutput
genvars   == <<NDEBUG, Program, tasks, TEXT, VarRegistry, StackPtr, ScopeRegistry,
               IDs, genctl>>
machvars  == <<process, pc, regs, flags, memory>>
compvars  == <<at, status, lexvars, parsevars, astvars, genvars, machvars>>

SPECIAL_SYMBOLS == {"LBRACK", "RBRACK", "LPAREN", "RPAREN", "LBRACE", "RBRACE",
                    "COMMA", "COLON", "SEMI"}
OPERATORS       == {"+", "-", "*", "/", "^", "=", "<", ">", "~", "#", "@"}
KEYWORDS        == {Spelling[k] : k \in DOMAIN Spelling}

L == INSTANCE Lexer WITH Tokens <- tokens, pc <- lexpc
P == INSTANCE Parser WITH Sources <- {<<>>}, stack <- frames, ctl <- parsectl
M == INSTANCE Machine WITH
       Nodes <- {}, Tree <- Program, todo <- tasks, ctl <- genctl,
       status <- process, stack <- memory, Word <- Values

(* What each phase assumes of its constants; a source is not one of the    *)
(* marks by which Driver tells files apart, and the words of token_types.c *)
(* the sources use are keywords of the grammar.                            *)
ASSUME CompilerAssumption ==
  /\ Sources \subseteq Seq(L!Chars) /\ Sources \cap {<<"absent">>, <<"torn">>} = {}
  /\ MAX_TOKENS \in Nat /\ MAX_LIT_CHARS \in Nat \ {0}
  /\ \A i, j \in DOMAIN L!Classes : i # j => L!Classes[i] \cap L!Classes[j] = {}
  /\ DOMAIN Spelling \subseteq P!Keywords
  /\ BeyondTable \in P!OpInfo
  /\ MAX_NODE_STATS \in Nat /\ MAX_SCOPE_STATS \in Nat /\ MAX_FUN_ARGS \in Nat

-----------------------------------------------------------------------------
(* What the parser asks of a token: the subtype Tokenize gave it, the      *)
(* character itself or KEY_SUBTYPES at the place of the word, or its type. *)
(* The '\0' taken for a symbol is no subtype any production asks for.      *)
Lexed(t) == SubSeq(Source, t.at, t.to)

Kind(t) ==
  CASE t.type \in {"_SPEC", "_OP"} /\ t.sub \in SPECIAL_SYMBOLS \cup OPERATORS -> t.sub
    [] t.type = "_NUMLIT" -> "NUMLIT"
    [] t.type = "_ID"     -> "ID"
    [] t.type = "_BITYPE" -> "BITYPE"
    [] t.type = "_KEY"    -> CHOOSE k \in DOMAIN Spelling : Spelling[k] = Lexed(t)
    [] OTHER              -> "other"

Name(i)   == Source[tokens[i].at]
Number(i) == FoldLeft(LAMBDA n, d : 10 * n + DigitValue[d], 0, Lexed(tokens[i]))

(* The generator reads the parser's nodes.  A declaration has its type, an *)
(* optional `var' and its name.                                            *)
GenNode(nt, name, num, ks) == [nt |-> nt, name |-> name, num |-> num, kids |-> ks]
Declared(nt, decl, ks) ==
  GenNode(nt, Name(Last(decl.kids).at), IF Len(decl.kids) = 3 THEN 1 ELSE 0, ks)

BugView(n, ks) ==                        \* the declaration is left among the children
  CASE n.nt = "NUMLIT"  -> GenNode("Num", "", Number(n.at), <<>>)
    [] n.nt = "ID"      -> GenNode("Ident", Name(n.at), 0, <<>>)
    [] n.nt = "BinExpr" -> GenNode("BinExpr", Tokens[n.at], 0, ks)
    [] n.nt = "Asgn"    -> GenNode("Asgn", Name(n.kids[1].at), 0, << ks[2] >>)
    [] n.nt = "Decl"    -> Declared("Decl", n, <<>>)
    [] n.nt = "VarDef"  -> Declared("VarDef", n.kids[1], ks)
    [] n.nt \in {"FunDecl", "FunDef", "Call"} -> GenNode(n.nt, "", 0, <<>>)
    [] OTHER            -> GenNode(n.nt, "", 0, ks)

(* A node, given its children as the generator reads them.                 *)
View(n, ks) ==
  CASE n.nt = "NUMLIT"  -> GenNode("Num", "", Number(n.at), <<>>)
    [] n.nt = "ID"      -> GenNode("Ident", Name(n.at), 0, <<>>)
    [] n.nt = "BinExpr" -> GenNode("BinExpr", Tokens[n.at], 0, ks)
    [] n.nt = "Asgn"    -> GenNode("Asgn", Name(n.kids[1].at), 0, << ks[2] >>)
    [] n.nt = "Decl"    -> Declared("Decl", n, <<>>)
    [] n.nt = "VarDef"  -> Declared("VarDef", n.kids[1], << ks[2] >>)
    [] n.nt \in {"FunDecl", "FunDef", "Call"} -> GenNode(n.nt, "", 0, <<>>)
    [] OTHER            -> GenNode(n.nt, "", 0, ks)

(* The tree of n down to the depth d, which is below its leaves: a tree is *)
(* never deeper than it has tokens.                                        *)
Seen(n, d) ==
  LET nodes == P!Within(n, d)
      seen[k \in Nat] ==
        [m \in nodes |->
           View(m, IF k = 0 THEN <<>>
                   ELSE [i \in 1 .. Len(m.kids) |-> seen[k - 1][m.kids[i]]])]
  IN  seen[d][n]

-----------------------------------------------------------------------------
(* main has read the source; the phases have not begun.                    *)
CompInit ==
  /\ at = "lex" /\ status = "none"
  /\ L!Init
  /\ P!Init
  /\ Init
  /\ NDEBUG = FALSE
  /\ M!MachInit

Goto(step) == at' = step /\ UNCHANGED status
Exit(s)    == at' = "exit" /\ status' = s
Crash      == at' = "idle" /\ status' = "crash"

Lex ==
  /\ at = "lex" /\ ~L!Stopped
  /\ L!Next
  /\ UNCHANGED <<at, status, parsevars, astvars, genvars, machvars>>

Tokenized ==
  /\ at = "lex" /\ L!Stopped
  /\ \/ lexpc = "out" /\ Goto("parse") /\ Tokens' = [i \in DOMAIN tokens |-> Kind(tokens[i])]
     \/ lexpc = "exit" /\ Exit("failure") /\ UNCHANGED Tokens
     \/ lexpc = "overrun" /\ Crash /\ UNCHANGED Tokens
  /\ UNCHANGED <<lexvars, TokenIndex, frames, kids, parsectl, val, from, HasErrors,
                 ErrCount, astvars, genvars, machvars>>

Parse ==
  /\ at = "parse" /\ ~P!Stopped
  /\ P!Next
  /\ UNCHANGED <<at, status, lexvars, astvars, genvars, machvars>>

(* A tree, whether or not there were errors within its scopes; or NULL.    *)
BugParsed ==                             \* EXIT_SUCCESS for a NULL
  /\ at = "parse" /\ P!Stopped
  /\ \/ /\ parsectl = "node" /\ Goto("ast")
        /\ Tree' = val.kids /\ todo' = RootCalls(val.kids)
     \/ /\ \/ parsectl \in {"null", "exit"} /\ Exit("success")
           \/ parsectl = "crash" /\ Crash
        /\ UNCHANGED <<Tree, todo>>
  /\ UNCHANGED <<lexvars, parsevars, jw, json, genvars, machvars>>
Parsed ==
  /\ at = "parse" /\ P!Stopped
  /\ \/ /\ parsectl = "node" /\ Goto("ast")
        /\ Tree' = val.kids /\ todo' = RootCalls(val.kids)
     \/ /\ \/ parsectl \in {"null", "exit"} /\ Exit("failure")
           \/ parsectl = "crash" /\ Crash
        /\ UNCHANGED <<Tree, todo>>
  /\ UNCHANGED <<lexvars, parsevars, jw, json, genvars, machvars>>

OutputAST ==
  /\ at = "ast" /\ ~Written
  /\ Next
  /\ UNCHANGED <<at, status, lexvars, parsevars, genvars, machvars>>

(* The same tree is generated from, in a build of either kind.             *)
OutputDone ==
  /\ at = "ast" /\ Written
  /\ Goto("gen")
  /\ NDEBUG' \in BOOLEAN
  /\ Program' = [i \in 1 .. Len(Tree) |-> Seen(Tree[i], Len(Tokens) + 1)]
  /\ tasks' = [i \in DOMAIN Program' |-> M!Stmt(Program'[i])]
  /\ UNCHANGED <<lexvars, parsevars, astvars, TEXT, VarRegistry, StackPtr,
                 ScopeRegistry, IDs, genctl, machvars>>

Generate ==
  /\ at = "gen"
  /\ M!Step
  /\ UNCHANGED <<at, status, lexvars, parsevars, astvars, machvars>>

GenerateDone ==
  /\ at = "gen"
  /\ \/ M!Generated /\ Goto("create")
     \/ genctl = "exit" /\ Exit("failure")
     \/ genctl = "crash" /\ Crash
  /\ UNCHANGED <<lexvars, parsevars, astvars, genvars, machvars>>

WriteAsm ==
  /\ \/ at = "create" /\ Goto("write")
     \/ at = "write" /\ Goto("nasm")
  /\ UNCHANGED <<lexvars, parsevars, astvars, genvars, machvars>>

Nasm ==
  /\ at = "nasm"
  /\ M!Assemble
  /\ Goto("ld")
  /\ UNCHANGED <<lexvars, parsevars, astvars>>

(* Whether or not nasm has made anything to link.                          *)
Ld ==
  /\ at = "ld" /\ Exit("success")
  /\ UNCHANGED <<lexvars, parsevars, astvars, genvars, machvars>>

Cleanup ==
  /\ at = "exit" /\ Goto("idle")
  /\ UNCHANGED <<lexvars, parsevars, astvars, genvars, machvars>>

(* The program is run.                                                     *)
Run ==
  /\ at = "idle" /\ status = "success"
  /\ M!Run
  /\ UNCHANGED <<at, status, lexvars, parsevars, astvars>>

Finished == at = "idle" /\ (status = "success" => process # "running")
CompHalt == Finished /\ UNCHANGED compvars

CompNext ==
  \/ Lex \/ Tokenized \/ Parse \/ Parsed \/ OutputAST \/ OutputDone
  \/ Generate \/ GenerateDone \/ WriteAsm \/ Nasm \/ Ld \/ Cleanup \/ Run \/ CompHalt

CompSpec == CompInit /\ [][CompNext]_compvars

-----------------------------------------------------------------------------
(* How this compilation looks to Driver, in which a phase is one step.     *)
Assembled == process \notin {"unbuilt", "rejected"}
Linked    == status = "success"
NasmDone  == at = "ld" \/ Linked
Returned  == at \notin {"lex", "parse"} /\ frames = <<>> /\ parsectl = "node"
HasRaised == status = "failure" \/ (Returned /\ ErrCount > 0)
If(b, s)  == IF b THEN s ELSE {}

D == INSTANCE Driver WITH
  Procs <- {1}, Texts <- Sources, Absent <- <<"absent">>, Torn <- <<"torn">>,
  CommandLines <- {}, Faults <- {"tool"}, MaxRuns <- 1,
  at       <- << at >>,
  cmd      <- << [named |-> TRUE, text |-> Source, ast |-> TRUE, long |-> FALSE] >>,
  hooked   <- {1},
  raised   <- If(HasRaised, {1}),
  shown    <- If(HasRaised /\ at = "idle" /\ status # "crash", {1}),
  status   <- << status >>,
  asm      <- IF at = "write" THEN <<"torn">>
              ELSE IF at = "nasm" \/ NasmDone THEN Source ELSE <<"absent">>,
  writers  <- If(at = "write", {1}),
  mixed    <- FALSE,
  obj      <- IF NasmDone /\ Assembled THEN Source ELSE <<"absent">>,
  exe      <- IF Linked /\ Assembled THEN Source ELSE <<"absent">>,
  runs     <- 1,
  accepted <- If(at \in {"create", "write", "nasm"} \/ NasmDone, {Source}),
  intact   <- If(NasmDone => Assembled, {1}),
  overlap  <- FALSE,
  short    <- FALSE

(* Driver knows every way each phase can end, and what is raised by then:  *)
(* the compilation with its phases filled in takes Driver's steps only.    *)
DriverAllows == [][D!Next]_(D!vars)

(* What each phase is given is what its module is written for: a token is  *)
(* of a kind, a node has the children of its kind.                         *)
Shaped(n) ==
  IF n.nt = "Scope"
  THEN \A i \in 1 .. Len(n.kids) : n.kids[i].nt \in M!StmtKinds
  ELSE /\ Len(n.kids) = Len(M!Children[n.nt])
       /\ \A i \in 1 .. Len(n.kids) : n.kids[i].nt \in M!Children[n.nt][i]

HandedOnWell ==
  /\ \A i \in DOMAIN Tokens : Tokens[i] \in P!Kinds
  /\ at = "gen" => \A i \in DOMAIN Program :
        /\ Program[i].nt \in M!StmtKinds
        /\ \A n \in P!Within(Program[i], Len(Tokens)) : Shaped(n)

(* WholeOrCut of the tree of this source, which is never deeper than the   *)
(* source has tokens.                                                      *)
AstWholeOrCut ==
  WholeOrCut(UNION {P!Within(Tree[i], Len(Tokens)) : i \in 1 .. Len(Tree)}, Len(Tokens))
=============================================================================
