----------------------------- MODULE CompilerProofs -----------------------------
(***************************************************************************)
(* What is proved of the compiler as a whole: it takes Driver's steps only *)
(* (RefinesDriver), each phase is given what its own module is written for *)
(* (PhasesFit), the writer of the tree keeps within its arrays on the tree *)
(* of any source (WriterFitsAlways), and what it writes of that tree is    *)
(* right (AstWholeOrCutAlways).                                            *)
(*                                                                         *)
(* The parser's part rests on ParserProofs, instantiated here as PP: what  *)
(* holds of the parser on any tokens holds of it on those Tokenize leaves. *)
(* The lexer's part is that a word taken for a keyword is one, and the     *)
(* generator's is Seen, followed down the tree one layer at a time.  What  *)
(* is written rests on AstOutputProofs, which asks for a tree of the right *)
(* shape, and for a depth that bounds it: the tokens of the source.        *)
(***************************************************************************)
EXTENDS Compiler, AstOutputProofs

(* main's calls before it exits, and where a compilation can be.           *)
Phases == {"lex", "parse", "ast", "gen", "create", "write", "nasm", "ld"}

Control ==
  /\ \/ at \in Phases /\ status = "none"
     \/ at = "exit" /\ status \in {"success", "failure"}
     \/ at = "idle" /\ status \in {"success", "failure", "crash"}
  /\ Source \in Sources
  /\ at = "lex" => frames # <<>>

LEMMA SourceKept == L!Next => Source' = Source
BY DEF L!Next, L!TooManyTokens, L!LoopHead, L!FirstSign, L!SecondSign, L!CommentChar,
       L!DropChar, L!Symbol, L!StartLiteral, L!LiteralTooLong, L!LiteralChar, L!Overrun,
       L!Number, L!StringLiteral, L!Word, L!Finish, L!Halt, L!vars

(* A program that runs has been built, and running does not change that.   *)
LEMMA RunKeeps == M!Run => Assembled /\ Assembled'
BY DEF M!Run, M!XPush, M!XPop, M!XDrop, M!XStore, M!XCompute, M!XDiv, M!XJump,
       M!XSyscall, M!XRunOff, M!Execute, M!Pushed, M!Stop, Assembled

(* What Driver sees of a compilation is a function of a few things.        *)
LEMMA Stutter ==
  ASSUME UNCHANGED <<at, Source, status, HasRaised>>, NasmDone => Assembled' = Assembled
  PROVE  UNCHANGED D!vars
BY DEF D!vars, D!files, D!history, NasmDone, Linked

LEMMA ToDriver == D!Step(1) => D!Next
BY DEF D!Next

LEMMA Replace == \A a, b : [<<a>> EXCEPT ![1] = b] = <<b>> /\ <<a>>[1] = a
OBVIOUS

LEMMA DriverStep ==
  ASSUME Control, CompNext
  PROVE  D!Next \/ UNCHANGED D!vars
<1>1. CASE Lex
  <2>1. /\ at = "lex" /\ status = "none" /\ Source' = Source
        /\ UNCHANGED <<at, status, process>>
    BY <1>1, SourceKept DEF Lex, Control, machvars
  <2> QED BY <2>1, Stutter DEF HasRaised, Returned, NasmDone, Linked
<1>2. CASE Tokenized
  <2>1. /\ at = "lex" /\ status = "none" /\ frames # <<>>
        /\ UNCHANGED <<Source, frames, parsectl, ErrCount, process>>
    BY <1>2 DEF Tokenized, Control, lexvars, machvars
  <2>2. ~HasRaised /\ ~NasmDone /\ ~Linked
    BY <2>1 DEF HasRaised, Returned, NasmDone, Linked
  <2>3. CASE Goto("parse")
    <3>1. at' = "parse" /\ status' = "none" /\ ~HasRaised' /\ ~NasmDone' /\ ~Linked'
      BY <2>1, <2>3 DEF Goto, HasRaised, Returned, NasmDone, Linked
    <3>2. D!Tokenize(1)
      BY <2>1, <2>2, <3>1, Replace
      DEF D!Tokenize, D!Phase, D!Goto, D!files, D!history, If
    <3> QED BY <3>2, ToDriver DEF D!Step
  <2>4. CASE Exit("failure")
    <3>1. at' = "exit" /\ status' = "failure" /\ HasRaised' /\ ~NasmDone' /\ ~Linked'
      BY <2>1, <2>4 DEF Exit, HasRaised, NasmDone, Linked
    <3>2. D!Tokenize(1)
      BY <2>1, <2>2, <3>1, Replace
      DEF D!Tokenize, D!Phase, D!RUNTIME_ERR, D!Raise, D!Exit, D!Goto, D!files, D!history, If
    <3> QED BY <3>2, ToDriver DEF D!Step
  <2>5. CASE Crash
    <3>1. at' = "idle" /\ status' = "crash" /\ ~HasRaised' /\ ~NasmDone' /\ ~Linked'
      BY <2>1, <2>5 DEF Crash, HasRaised, Returned, NasmDone, Linked
    <3>2. D!PhaseCrash(1)
      BY <2>1, <2>2, <3>1, Replace
      DEF D!PhaseCrash, D!Die, D!Goto, D!files, D!history, If
    <3> QED BY <3>2, ToDriver DEF D!Step
  <2> QED BY <1>2, <2>3, <2>4, <2>5 DEF Tokenized
<1>3. CASE Parse
  <2>1. /\ at = "parse" /\ status = "none"
        /\ UNCHANGED <<at, status, Source, process>>
    BY <1>3 DEF Parse, Control, lexvars, machvars
  <2> QED BY <2>1, Stutter DEF HasRaised, Returned, NasmDone, Linked
<1>4. CASE Parsed
  <2>1. /\ at = "parse" /\ status = "none" /\ ~HasRaised /\ ~NasmDone /\ ~Linked
        /\ frames = <<>> \/ parsectl \in {"crash", "exit"}
        /\ UNCHANGED <<Source, frames, parsectl, ErrCount, process>>
    BY <1>4 DEF Parsed, Control, P!Stopped, HasRaised, Returned, NasmDone, Linked,
                lexvars, parsevars, machvars
  <2>2. CASE parsectl = "node" /\ Goto("ast")
    <3>1. at' = "ast" /\ status' = "none" /\ ~NasmDone' /\ ~Linked'
      BY <2>1, <2>2 DEF Goto, NasmDone, Linked
    <3>2. D!Parse(1)
      BY <2>1, <3>1, Replace
      DEF D!Parse, D!Phase, D!Raise, D!Goto, D!files, D!history, If
    <3> QED BY <3>2, ToDriver DEF D!Step
  <2>3. CASE Exit("failure")
    <3>1. at' = "exit" /\ status' = "failure" /\ HasRaised' /\ ~NasmDone' /\ ~Linked'
      BY <2>1, <2>3 DEF Exit, HasRaised, NasmDone, Linked
    <3>2. D!Parse(1)
      BY <2>1, <3>1, Replace
      DEF D!Parse, D!Phase, D!RUNTIME_ERR, D!Raise, D!Exit, D!Goto, D!files, D!history, If
    <3> QED BY <3>2, ToDriver DEF D!Step
  <2>4. CASE parsectl = "crash" /\ Crash
    <3>1. at' = "idle" /\ status' = "crash" /\ ~HasRaised' /\ ~NasmDone' /\ ~Linked'
      BY <2>1, <2>4 DEF Crash, HasRaised, Returned, NasmDone, Linked
    <3>2. D!PhaseCrash(1)
      BY <2>1, <3>1, Replace
      DEF D!PhaseCrash, D!Die, D!Goto, D!files, D!history, If
    <3> QED BY <3>2, ToDriver DEF D!Step
  <2> QED BY <1>4, <2>2, <2>3, <2>4 DEF Parsed
<1>5. CASE OutputAST
  <2>1. UNCHANGED <<at, status, Source, frames, parsectl, ErrCount, process>>
    BY <1>5 DEF OutputAST, lexvars, parsevars, machvars
  <2> QED BY <2>1, Stutter DEF HasRaised, Returned, Assembled
<1>6. CASE OutputDone
  <2>1. /\ at = "ast" /\ at' = "gen" /\ status = "none" /\ status' = "none"
        /\ UNCHANGED <<Source, frames, parsectl, ErrCount, process>>
    BY <1>6 DEF OutputDone, Control, Goto, lexvars, parsevars, machvars
  <2>2. ~NasmDone /\ ~Linked /\ ~NasmDone' /\ ~Linked' /\ HasRaised' = HasRaised
    BY <2>1 DEF NasmDone, Linked, HasRaised, Returned
  <2>3. D!OutputAST(1)
    BY <2>1, <2>2, Replace DEF D!OutputAST, D!Goto, D!files, D!history, If
  <2> QED BY <2>3, ToDriver DEF D!Step
<1>7. CASE Generate
  <2>1. UNCHANGED <<at, status, Source, frames, parsectl, ErrCount, process>>
    BY <1>7 DEF Generate, lexvars, parsevars, machvars
  <2> QED BY <2>1, Stutter DEF HasRaised, Returned, Assembled
<1>8. CASE GenerateDone
  <2>1. /\ at = "gen" /\ status = "none"
        /\ UNCHANGED <<Source, frames, parsectl, ErrCount, process>>
    BY <1>8 DEF GenerateDone, Control, lexvars, parsevars, machvars
  <2>2. ~NasmDone /\ ~Linked
    BY <2>1 DEF NasmDone, Linked
  <2>3. CASE Goto("create")
    <3>1. at' = "create" /\ status' = "none" /\ ~NasmDone' /\ ~Linked'
          /\ HasRaised' = HasRaised
      BY <2>1, <2>3 DEF Goto, NasmDone, Linked, HasRaised, Returned
    <3>2. D!Generate(1)
      BY <2>1, <2>2, <3>1, Replace
      DEF D!Generate, D!Goto, D!Source, D!files, D!history, If
    <3> QED BY <3>2, ToDriver DEF D!Step
  <2>4. CASE Exit("failure")
    <3>1. at' = "exit" /\ status' = "failure" /\ HasRaised' /\ ~NasmDone' /\ ~Linked'
      BY <2>1, <2>4 DEF Exit, HasRaised, NasmDone, Linked
    <3>2. D!Generate(1)
      BY <2>1, <2>2, <3>1, Replace
      DEF D!Generate, D!RUNTIME_ERR, D!Raise, D!Exit, D!Goto, D!files, D!history, If
    <3> QED BY <3>2, ToDriver DEF D!Step
  <2>5. CASE Crash
    <3>1. at' = "idle" /\ status' = "crash" /\ ~NasmDone' /\ ~Linked'
          /\ HasRaised' = HasRaised
      BY <2>1, <2>5 DEF Crash, NasmDone, Linked, HasRaised, Returned
    <3>2. D!PhaseCrash(1)
      BY <2>1, <2>2, <3>1, Replace
      DEF D!PhaseCrash, D!Die, D!Goto, D!files, D!history, If
    <3> QED BY <3>2, ToDriver DEF D!Step
  <2> QED BY <1>8, <2>3, <2>4, <2>5 DEF GenerateDone
<1>9. CASE WriteAsm
  <2>1. /\ status = "none" /\ status' = "none"
        /\ \/ at = "create" /\ at' = "write"
           \/ at = "write" /\ at' = "nasm"
        /\ UNCHANGED <<Source, frames, parsectl, ErrCount, process>>
    BY <1>9 DEF WriteAsm, Control, Goto, lexvars, parsevars, machvars
  <2>2. ~NasmDone /\ ~Linked /\ ~NasmDone' /\ ~Linked' /\ HasRaised' = HasRaised
    BY <2>1 DEF NasmDone, Linked, HasRaised, Returned
  <2>3. CASE at = "create"
    <3>1. D!Create(1)
      BY <2>1, <2>2, <2>3, Replace DEF D!Create, D!Goto, D!history, If
    <3> QED BY <3>1, ToDriver DEF D!Step
  <2>4. CASE at = "write"
    <3>1. D!Write(1)
      BY <2>1, <2>2, <2>4, Replace DEF D!Write, D!Goto, D!Source, If
    <3> QED BY <3>1, ToDriver DEF D!Step
  <2> QED BY <2>1, <2>3, <2>4
<1>10. CASE Nasm
  <2>1. /\ at = "nasm" /\ at' = "ld" /\ status = "none" /\ status' = "none"
        /\ UNCHANGED <<Source, frames, parsectl, ErrCount>>
        /\ Source \in Sources /\ Source # <<"absent">>
    BY <1>10, CompilerAssumption DEF Nasm, Control, Goto, lexvars, parsevars
  <2>2. ~NasmDone /\ ~Linked /\ NasmDone' /\ ~Linked' /\ HasRaised' = HasRaised
    BY <2>1 DEF NasmDone, Linked, HasRaised, Returned
  <2>3. CASE Assembled'
    <3>1. D!Nasm(1)
      BY <2>1, <2>2, <2>3, Replace DEF D!Nasm, D!Made, D!File, D!Goto, If
    <3> QED BY <3>1, ToDriver DEF D!Step
  <2>4. CASE ~Assembled'
    <3>1. D!Nasm(1)
      BY <2>1, <2>2, <2>4, Replace DEF D!Nasm, D!Made, D!File, D!Goto, If
    <3> QED BY <3>1, ToDriver DEF D!Step
  <2> QED BY <2>3, <2>4
<1>11. CASE Ld
  <2>1. /\ at = "ld" /\ at' = "exit" /\ status = "none" /\ status' = "success"
        /\ UNCHANGED <<Source, frames, parsectl, ErrCount, process>>
        /\ Source \in Sources /\ Source # <<"absent">>
    BY <1>11, CompilerAssumption
    DEF Ld, Control, Exit, lexvars, parsevars, machvars
  <2>2. NasmDone /\ ~Linked /\ NasmDone' /\ Linked' /\ HasRaised' = HasRaised
        /\ Assembled' = Assembled
    BY <2>1 DEF NasmDone, Linked, HasRaised, Returned, Assembled
  <2>3. CASE Assembled
    <3>1. D!Ld(1)
      BY <2>1, <2>2, <2>3, Replace DEF D!Ld, D!Made, D!File, D!Exit, D!Goto, If
    <3> QED BY <3>1, ToDriver DEF D!Step
  <2>4. CASE ~Assembled
    <3>1. D!Ld(1)
      BY <2>1, <2>2, <2>4, Replace DEF D!Ld, D!Made, D!File, D!Exit, D!Goto, If
    <3> QED BY <3>1, ToDriver DEF D!Step
  <2> QED BY <2>3, <2>4
<1>12. CASE Cleanup
  <2>1. /\ at = "exit" /\ at' = "idle" /\ status' = status
        /\ status \in {"success", "failure"}
        /\ UNCHANGED <<Source, frames, parsectl, ErrCount, process>>
    BY <1>12 DEF Cleanup, Control, Goto, Phases, lexvars, parsevars, machvars
  <2>2. /\ HasRaised' = HasRaised /\ Assembled' = Assembled /\ Linked' = Linked
        /\ NasmDone = Linked /\ NasmDone' = Linked
    BY <2>1 DEF HasRaised, Returned, Assembled, NasmDone, Linked
  <2>3. D!Cleanup(1)
    BY <2>1, <2>2, Replace DEF D!Cleanup, D!Goto, D!files, D!history, If
  <2> QED BY <2>3, ToDriver DEF D!Step
<1>13. CASE Run
  <2>1. UNCHANGED <<at, status, Source, frames, parsectl, ErrCount>> /\ M!Run
    BY <1>13 DEF Run, lexvars, parsevars
  <2> QED BY <2>1, Stutter, RunKeeps DEF HasRaised, Returned
<1>14. CASE CompHalt
  <2>1. UNCHANGED <<at, status, Source, frames, parsectl, ErrCount, process>>
    BY <1>14 DEF CompHalt, compvars, lexvars, parsevars, machvars
  <2> QED BY <2>1, Stutter DEF HasRaised, Returned, Assembled
<1> QED BY <1>1, <1>2, <1>3, <1>4, <1>5, <1>6, <1>7, <1>8, <1>9, <1>10, <1>11,
           <1>12, <1>13, <1>14 DEF CompNext

LEMMA InitControl == CompInit => Control
<1> SUFFICES ASSUME CompInit PROVE Control
  OBVIOUS
<1>1. /\ at = "lex" /\ status = "none" /\ Source \in Sources
      /\ frames = << P!Enter("Root", 0, 0) >>
  BY DEF CompInit, L!Init, P!Init
<1>2. \A frame : Len(<< frame >>) = 1 /\ Len(<<>>) = 0
  OBVIOUS
<1>3. frames # <<>>
  BY <1>1, <1>2
<1> QED BY <1>1, <1>3 DEF Control, Phases

LEMMA NextControl == Control /\ [CompNext]_compvars => Control'
<1> SUFFICES ASSUME Control, [CompNext]_compvars PROVE Control'
  OBVIOUS
<1>1. CASE Lex
  <2>1. at' = at /\ status' = status /\ Source' = Source /\ frames' = frames
    BY <1>1, SourceKept DEF Lex, parsevars
  <2> QED BY <2>1 DEF Control
<1>2. CASE Tokenized
  BY <1>2 DEF Tokenized, Control, Phases, Goto, Exit, Crash, lexvars
<1>3. CASE Parse
  BY <1>3 DEF Parse, Control, lexvars
<1>4. CASE Parsed
  BY <1>4 DEF Parsed, Control, Phases, Goto, Exit, Crash, lexvars
<1>5. CASE OutputAST
  BY <1>5 DEF OutputAST, Control, lexvars, parsevars
<1>6. CASE OutputDone
  BY <1>6 DEF OutputDone, Control, Phases, Goto, lexvars, parsevars
<1>7. CASE Generate
  BY <1>7 DEF Generate, Control, lexvars, parsevars
<1>8. CASE GenerateDone
  BY <1>8 DEF GenerateDone, Control, Phases, Goto, Exit, Crash, lexvars
<1>9. CASE WriteAsm
  BY <1>9 DEF WriteAsm, Control, Phases, Goto, lexvars
<1>10. CASE Nasm
  BY <1>10 DEF Nasm, Control, Phases, Goto, lexvars
<1>11. CASE Ld
  BY <1>11 DEF Ld, Control, Phases, Exit, lexvars
<1>12. CASE Cleanup
  BY <1>12 DEF Cleanup, Control, Phases, Goto, lexvars
<1>13. CASE Run
  BY <1>13 DEF Run, Control, lexvars, parsevars
<1>14. CASE UNCHANGED compvars
  BY <1>14 DEF Control, compvars, lexvars, parsevars
<1> QED BY <1>1, <1>2, <1>3, <1>4, <1>5, <1>6, <1>7, <1>8, <1>9, <1>10, <1>11,
           <1>12, <1>13, <1>14 DEF CompNext, CompHalt

(* DriverAllows for every source, alphabet and capacity: the lexer, the    *)
(* parser, the writer and the generator, in the order main calls them,     *)
(* never do to bin/ or to the error stack what Driver does not know of.    *)
THEOREM RefinesDriver == CompSpec => DriverAllows
<1>1. Control /\ [CompNext]_compvars => [D!Next]_(D!vars)
  <2>1. UNCHANGED compvars => UNCHANGED D!vars
    <3>1. UNCHANGED compvars =>
            UNCHANGED <<at, Source, status, frames, parsectl, ErrCount, process>>
      BY DEF compvars, lexvars, parsevars, machvars
    <3> QED BY <3>1, Stutter DEF HasRaised, Returned, Assembled
  <2> QED BY <2>1, DriverStep
<1> QED BY InitControl, NextControl, <1>1, PTL DEF CompSpec, DriverAllows

-----------------------------------------------------------------------------
(* What each phase hands to the next.  The proofs of the parser hold of    *)
(* the parser in its place here: on the tokens Tokenized leaves, which are *)
(* any sequence of kinds.                                                  *)
PP == INSTANCE ParserProofs WITH
        Sources <- Seq(P!Kinds), stack <- frames, ctl <- parsectl

(* What they assume of their constants.                                    *)
LEMMA ParserTaken ==
  /\ Seq(P!Kinds) \subseteq Seq(PP!Kinds)
  /\ BeyondTable \in PP!OpInfo
  /\ MAX_NODE_STATS \in Nat
  /\ MAX_SCOPE_STATS \in Nat
  /\ MAX_FUN_ARGS \in Nat
<1>1. P!Kinds = PP!Kinds
  BY DEF P!Kinds, PP!Kinds, P!Operators, PP!Operators, P!Specials, PP!Specials,
         P!Keywords, PP!Keywords
<1>2. P!OpInfo = PP!OpInfo
  BY DEF P!OpInfo, PP!OpInfo
<1> QED BY <1>1, <1>2, CompilerAssumption

LEMMA SameParser ==
  /\ [P!Next]_parsevars => [PP!Next]_(PP!vars)
  /\ \A n, d : P!Within(n, d) = PP!Within(n, d)
  /\ \A n : P!Shaped(n) = PP!Shaped(n)
  /\ P!StmtKinds = PP!StmtKinds
<1>1. P!Next => PP!Next
  BY DEF
       P!Next, PP!Next, P!vars, PP!vars, P!TokenHit, PP!TokenHit, P!TokenMiss,
       PP!TokenMiss, P!OptMiss, PP!OptMiss, P!Branch, PP!Branch, P!CallSub,
       PP!CallSub, P!SubNode, PP!SubNode, P!SubNull, PP!SubNull, P!TryNext,
       PP!TryNext, P!FirstNode, PP!FirstNode, P!FirstNull, PP!FirstNull,
       P!NoneLeft, PP!NoneLeft, P!StatsHead, PP!StatsHead, P!StatsNode,
       PP!StatsNode, P!StatsNull, PP!StatsNull, P!ListHead, PP!ListHead,
       P!ListItem, PP!ListItem, P!Overrun, PP!Overrun, P!ArrayFull,
       PP!ArrayFull, P!ClimbHead, PP!ClimbHead, P!ClimbNode, PP!ClimbNode,
       P!EndOfBody, PP!EndOfBody, P!PassOn, PP!PassOn, P!Halt, PP!Halt,
       P!Stopped, PP!Stopped, P!Running, PP!Running, P!Resumed, PP!Resumed,
       P!Goto, PP!Goto, P!Collect, PP!Collect, P!Consume, PP!Consume, P!Call,
       PP!Call, P!Return, PP!Return, P!GiveUp, PP!GiveUp, P!SYNTAX_ERR,
       PP!SYNTAX_ERR, P!Resync, PP!Resync, P!Top, PP!Top, P!Ins, PP!Ins,
       P!Peek, PP!Peek, P!At, PP!At, P!Enter, PP!Enter, P!Node, PP!Node,
       P!Null, PP!Null, P!Size, PP!Size, P!Functions, PP!Functions, P!Body,
       PP!Body, P!TryParseWhile, PP!TryParseWhile, P!TryParseFunDef,
       PP!TryParseFunDef, P!TryParseFunDecl, PP!TryParseFunDecl,
       P!TryParseCall, PP!TryParseCall, P!TryParseNumLit, PP!TryParseNumLit,
       P!TryParseIdent, PP!TryParseIdent, P!TryParseTerm, PP!TryParseTerm,
       P!TryParseBinExpr, PP!TryParseBinExpr, P!TryParseExpr, PP!TryParseExpr,
       P!TryParseInterval, PP!TryParseInterval, P!TryParseAsgn,
       PP!TryParseAsgn, P!TryParseVarDef, PP!TryParseVarDef, P!TryParseDecl,
       PP!TryParseDecl, P!TryParseScope, PP!TryParseScope, P!TryParseIf,
       PP!TryParseIf, P!TryParseFor, PP!TryParseFor, P!TryParseExit,
       PP!TryParseExit, P!TryParseStmt, PP!TryParseStmt, P!TryParseRoot,
       PP!TryParseRoot, P!Instr, PP!Instr, P!Eat, PP!Eat, P!Need, PP!Need,
       P!Take, PP!Take, P!Opt, PP!Opt, P!Try, PP!Try, P!Must, PP!Must, P!First,
       PP!First, P!ListOf, PP!ListOf, P!StatsUntil, PP!StatsUntil, P!Fork,
       PP!Fork, P!Climb, PP!Climb, P!NextMinPrec, PP!NextMinPrec, P!OPINFOS,
       PP!OPINFOS, P!Operators, PP!Operators, P!Specials, PP!Specials,
       P!Keywords, PP!Keywords, P!Kinds, PP!Kinds
<1>2. UNCHANGED parsevars => UNCHANGED PP!vars
  BY DEF parsevars, PP!vars
<1>3. \A n, d : P!Within(n, d) = PP!Within(n, d)
  BY DEF P!Within, PP!Within, P!Kids, PP!Kids
<1>4. /\ \A n : P!Shaped(n) = PP!Shaped(n)
      /\ P!StmtKinds = PP!StmtKinds
  BY DEF P!Shaped, PP!Shaped, P!Arity, PP!Arity, P!Slot, PP!Slot, P!ExprKinds,
         PP!ExprKinds, P!StmtKinds, PP!StmtKinds, P!Kinds, PP!Kinds, P!Operators,
         PP!Operators, P!Specials, PP!Specials, P!Keywords, PP!Keywords
<1> QED BY <1>1, <1>2, <1>3, <1>4

(* The tokens of type "_KEY" are words of token_types.c.                   *)
KeysSpelled ==
  /\ \E S : tokens \in Seq(S)
  /\ \A k \in 1 .. Len(tokens) :
       tokens[k].type = "_KEY" => SubSeq(Source, tokens[k].at, tokens[k].to) \in KEYWORDS

LEMMA StoredSpelled ==
  ASSUME KeysSpelled, Source' = Source, NEW t, tokens' = Append(tokens, t),
         t.type = "_KEY" => SubSeq(Source, t.at, t.to) \in KEYWORDS
  PROVE  KeysSpelled'
<1>1. PICK S : tokens \in Seq(S)
  BY DEF KeysSpelled
<1>2. tokens' \in Seq(S \cup {t}) /\ Len(tokens') = Len(tokens) + 1
      /\ Len(tokens) \in Nat
      /\ \A k \in 1 .. Len(tokens') :
           tokens'[k] = IF k <= Len(tokens) THEN tokens[k] ELSE t
  BY <1>1
<1> QED BY <1>2 DEF KeysSpelled, KEYWORDS

LEMMA LexerSpells ==
  ASSUME KeysSpelled, L!Next
  PROVE  KeysSpelled'
<1>1. Source' = Source
  BY SourceKept
<1>2. CASE UNCHANGED tokens
  BY <1>1, <1>2 DEF KeysSpelled, KEYWORDS
<1>3. CASE L!Symbol
  <2> DEFINE t == L!Token(IF L!PeekChar \in L!Specials THEN "_SPEC" ELSE "_OP", L!PeekChar,
                          Index + 1, Index + 1, L!GetLine, L!GetColumn)
  <2>1. tokens' = Append(tokens, t)
    BY <1>3 DEF L!Symbol, L!Store
  <2>2. t.type # "_KEY"
    BY DEF L!Token
  <2> HIDE DEF t
  <2> QED BY <1>1, <2>1, <2>2, StoredSpelled
<1>4. CASE L!Number
  <2> DEFINE t == L!Token("_NUMLIT", IF HasDecimal THEN "FLOAT" ELSE "INT",
                          start + 1, Index, L!GetLine, L!GetColumn)
  <2>1. tokens' = Append(tokens, t)
    BY <1>4 DEF L!Number, L!Store
  <2>2. t.type # "_KEY"
    BY DEF L!Token
  <2> HIDE DEF t
  <2> QED BY <1>1, <2>1, <2>2, StoredSpelled
<1>5. CASE L!StringLiteral
  <2> DEFINE t == L!Token("_STRLIT", "NONE", start, Index + 1, Line', Column')
  <2>1. tokens' = Append(tokens, t)
    BY <1>5 DEF L!StringLiteral, L!Store
  <2>2. t.type # "_KEY"
    BY DEF L!Token
  <2> HIDE DEF t
  <2> QED BY <1>1, <2>1, <2>2, StoredSpelled
<1>6. CASE L!Word
  <2> DEFINE w == SubSeq(Source, start + 1, Index)
             t == L!Token(L!WordType(w), "NONE", start + 1, Index, L!GetLine, L!GetColumn)
  <2>1. tokens' = Append(tokens, t)
    BY <1>6 DEF L!Word, L!Store
  <2>2. t.type = "_KEY" => SubSeq(Source, t.at, t.to) \in KEYWORDS
    BY DEF L!Token, L!WordType
  <2> HIDE DEF t
  <2> QED BY <1>1, <2>1, <2>2, StoredSpelled
<1> QED
  BY <1>2, <1>3, <1>4, <1>5, <1>6
  DEF L!Next, L!TooManyTokens, L!LoopHead, L!FirstSign, L!SecondSign, L!CommentChar,
      L!DropChar, L!StartLiteral, L!LiteralTooLong, L!LiteralChar, L!Overrun,
      L!Finish, L!Halt, L!vars

LEMMA KindsOfTokens ==
  ASSUME KeysSpelled
  PROVE  [i \in DOMAIN tokens |-> Kind(tokens[i])] \in Seq(P!Kinds)
<1>1. PICK S : tokens \in Seq(S)
  BY DEF KeysSpelled
<1>2. DOMAIN tokens = 1 .. Len(tokens) /\ Len(tokens) \in Nat
  BY <1>1
<1>3. ASSUME NEW i \in 1 .. Len(tokens) PROVE Kind(tokens[i]) \in P!Kinds
  <2> DEFINE t == tokens[i]
  <2>1. t.type = "_KEY" => \E k \in DOMAIN Spelling : Spelling[k] = Lexed(t)
    BY <1>3 DEF KeysSpelled, KEYWORDS, Lexed
  <2>2. t.type = "_KEY" =>
          (CHOOSE k \in DOMAIN Spelling : Spelling[k] = Lexed(t)) \in P!Kinds
    <3>1. DOMAIN Spelling \subseteq P!Kinds
      BY CompilerAssumption DEF P!Kinds
    <3> QED BY <2>1, <3>1
  <2>3. SPECIAL_SYMBOLS \cup OPERATORS \subseteq P!Kinds
    BY DEF SPECIAL_SYMBOLS, OPERATORS, P!Kinds, P!Specials, P!Operators
  <2>4. {"NUMLIT", "ID", "BITYPE", "other"} \subseteq P!Kinds
    BY DEF P!Kinds
  <2> SUFFICES Kind(t) \in P!Kinds
    OBVIOUS
  <2> HIDE DEF t
  <2>5. CASE t.type = "_KEY"
    BY <2>2, <2>5 DEF Kind
  <2>6. CASE t.type \in {"_SPEC", "_OP"} /\ t.sub \in SPECIAL_SYMBOLS \cup OPERATORS
    BY <2>3, <2>6 DEF Kind
  <2>7. CASE t.type # "_KEY" /\ ~(t.type \in {"_SPEC", "_OP"}
                                  /\ t.sub \in SPECIAL_SYMBOLS \cup OPERATORS)
    <3>1. Kind(t) \in {"NUMLIT", "ID", "BITYPE", "other"}
      BY <2>7 DEF Kind
    <3> QED BY <2>4, <3>1
  <2> QED BY <2>5, <2>6, <2>7
<1> QED BY <1>2, <1>3

-----------------------------------------------------------------------------
(* The generator's tree.  Of the trees to ever greater depths Seen is made *)
(* of, each is made of the last: Leaves, and then Layer again and again.   *)
Leaves(N)   == [m \in N |-> View(m, <<>>)]
Layer(N, g) == [m \in N |-> View(m, [i \in 1 .. Len(m.kids) |-> g[m.kids[i]]])]

LEMMA LayersExist ==
  ASSUME NEW N
  PROVE  \E f : f = [k \in Nat |-> IF k = 0 THEN Leaves(N) ELSE Layer(N, f[k - 1])]
<1> DEFINE Starts(f, k) ==
             f = [i \in 0 .. k |-> IF i = 0 THEN Leaves(N) ELSE Layer(N, f[i - 1])]
           Ks == {k \in Nat : \E f : Starts(f, k)}
<1>1. 0 \in Ks
  <2>1. Starts([i \in 0 .. 0 |-> Leaves(N)], 0)
    OBVIOUS
  <2> QED BY <2>1
<1>2. ASSUME NEW k \in Nat, k \in Ks PROVE k + 1 \in Ks
  <2>1. PICK f : Starts(f, k)
    BY <1>2
  <2>2. \A i \in 0 .. k : f[i] = IF i = 0 THEN Leaves(N) ELSE Layer(N, f[i - 1])
    BY <2>1
  <2> DEFINE g == [i \in 0 .. k + 1 |-> IF i = 0 THEN Leaves(N) ELSE Layer(N, f[i - 1])]
  <2>3. \A i \in 0 .. k + 1 : g[i] = IF i = 0 THEN Leaves(N) ELSE Layer(N, f[i - 1])
    OBVIOUS
  <2>4. /\ \A i \in 0 .. k + 1 : i # 0 => i - 1 \in 0 .. k
        /\ \A i \in 0 .. k : i \in 0 .. k + 1
    OBVIOUS
  <2> HIDE DEF Starts, g
  <2>5. \A i \in 0 .. k : g[i] = f[i]
    BY <2>2, <2>3, <2>4
  <2>6. \A i \in 0 .. k + 1 : g[i] = IF i = 0 THEN Leaves(N) ELSE Layer(N, g[i - 1])
    BY <2>3, <2>4, <2>5
  <2>7. g = [i \in 0 .. k + 1 |-> IF i = 0 THEN Leaves(N) ELSE Layer(N, g[i - 1])]
    <3>1. g = [i \in 0 .. k + 1 |-> g[i]]
      BY DEF g
    <3> QED BY <2>6, <3>1, Zenon
  <2>8. Starts(g, k + 1)
    BY <2>7 DEF Starts
  <2> QED BY <2>8, <1>2
<1>3. \A k \in Nat : \E f : Starts(f, k)
  <2> HIDE DEF Ks
  <2>1. Nat \subseteq Ks
    BY <1>1, <1>2, ParserTaken, PP!AllDepths
  <2> QED BY <2>1 DEF Ks
<1> DEFINE F(k) == CHOOSE f : Starts(f, k)
           h == [k \in Nat |-> F(k)[k]]
<1>4. \A k \in Nat : Starts(F(k), k)
  BY <1>3
<1>5. \A k \in Nat : \A i \in 0 .. k :
        F(k)[i] = IF i = 0 THEN Leaves(N) ELSE Layer(N, F(k)[i - 1])
  <2>1. \A f, k : Starts(f, k) =>
          \A i \in 0 .. k : f[i] = IF i = 0 THEN Leaves(N) ELSE Layer(N, f[i - 1])
    OBVIOUS
  <2> HIDE DEF F, Starts
  <2> QED BY <1>4, <2>1, Zenon
<1> HIDE DEF F
<1>6. \A k \in Nat : h[k + 1] = Layer(N, h[k])
  <2> DEFINE E == {i \in Nat : \A k \in Nat : i <= k => F(k)[i] = h[i]}
  <2>1. 0 \in E
    BY <1>5
  <2>2. ASSUME NEW i \in Nat, i \in E PROVE i + 1 \in E
    <3>1. ASSUME NEW k \in Nat, i + 1 <= k PROVE F(k)[i + 1] = Layer(N, h[i])
      <4>1. /\ i + 1 \in 0 .. k /\ i + 1 # 0 /\ (i + 1) - 1 = i /\ i <= k
        BY <3>1
      <4>2. F(k)[i + 1] = Layer(N, F(k)[i])
        BY <1>5, <4>1
      <4> QED BY <2>2, <4>1, <4>2
    <3>2. h[i + 1] = F(i + 1)[i + 1] /\ i + 1 \in Nat /\ i + 1 <= i + 1
      OBVIOUS
    <3> QED BY <3>1, <3>2
  <2>3. Nat \subseteq E
    <3> HIDE DEF E
    <3> QED BY <2>1, <2>2, ParserTaken, PP!AllDepths
  <2>4. ASSUME NEW k \in Nat PROVE h[k + 1] = Layer(N, h[k])
    <3>1. /\ k + 1 \in Nat /\ k + 1 \in 0 .. k + 1 /\ k + 1 # 0 /\ (k + 1) - 1 = k
          /\ k <= k + 1
      OBVIOUS
    <3>2. h[k + 1] = Layer(N, F(k + 1)[k])
      BY <1>5, <3>1
    <3> QED BY <2>3, <3>1, <3>2
  <2> QED BY <2>4
<1>7. h[0] = Leaves(N)
  BY <1>5
<1>8. ASSUME NEW k \in Nat, k # 0 PROVE h[k] = Layer(N, h[k - 1])
  <2>1. k - 1 \in Nat /\ (k - 1) + 1 = k
    BY <1>8
  <2> QED BY <1>6, <2>1
<1>9. h = [k \in Nat |-> IF k = 0 THEN Leaves(N) ELSE Layer(N, h[k - 1])]
  BY <1>7, <1>8
<1> QED BY <1>9

LEMMA SeenIs ==
  ASSUME NEW n, NEW d \in Nat
  PROVE  \E f : /\ Seen(n, d) = f[d][n]
                /\ f[0] = Leaves(P!Within(n, d))
                /\ \A k \in Nat : f[k + 1] = Layer(P!Within(n, d), f[k])
<1> DEFINE N == P!Within(n, d)
           Made(f) == f = [k \in Nat |->
                             [m \in N |->
                                View(m, IF k = 0 THEN <<>>
                                        ELSE [i \in 1 .. Len(m.kids) |-> f[k - 1][m.kids[i]]])]]
           seen == CHOOSE f : Made(f)
<1>1. \E f : Made(f)
  <2>1. PICK f : f = [k \in Nat |-> IF k = 0 THEN Leaves(N) ELSE Layer(N, f[k - 1])]
    BY LayersExist
  <2>2. \A k \in Nat : (IF k = 0 THEN Leaves(N) ELSE Layer(N, f[k - 1]))
          = [m \in N |-> View(m, IF k = 0 THEN <<>>
                                 ELSE [i \in 1 .. Len(m.kids) |-> f[k - 1][m.kids[i]]])]
    BY DEF Leaves, Layer
  <2>3. Made(f)
    BY <2>1, <2>2, Zenon
  <2> QED BY <2>3
<1>2. Made(seen)
  BY <1>1
<1>3. Seen(n, d) = seen[d][n]
  BY DEF Seen
<1> HIDE DEF seen
<1>4. \A k \in Nat : seen[k] =
        [m \in N |-> View(m, IF k = 0 THEN <<>>
                             ELSE [i \in 1 .. Len(m.kids) |-> seen[k - 1][m.kids[i]]])]
  BY <1>2, Zenon
<1>5. seen[0] = Leaves(N)
  BY <1>4 DEF Leaves
<1>6. ASSUME NEW k \in Nat PROVE seen[k + 1] = Layer(N, seen[k])
  <2>1. k + 1 \in Nat /\ k + 1 # 0 /\ (k + 1) - 1 = k
    OBVIOUS
  <2> QED BY <1>4, <2>1 DEF Layer
<1> QED BY <1>3, <1>5, <1>6
(* The nodes of a tree, one generation after the other.                    *)
LEMMA WithinHere ==
  /\ \A n : P!Within(n, 0) = {n}
  /\ \A n, d : d \in Nat =>
       P!Within(n, d + 1) = UNION {{m} \cup P!Kids(m) : m \in P!Within(n, d)}
<1>1. \A n, d : P!Within(n, d) = PP!Within(n, d)
  BY SameParser
<1>2. \A n : PP!Within(n, 0) = {n}
  BY ParserTaken, PP!WithinIs
<1>3. \A n : \A d \in Nat : PP!Within(n, d + 1) = PP!Step(PP!Within(n, d))
  BY ParserTaken, PP!WithinIs
<1>4. \A S : PP!Step(S) = UNION {{m} \cup P!Kids(m) : m \in S}
  BY DEF PP!Step, PP!Kids, P!Kids
<1> QED BY <1>1, <1>2, <1>3, <1>4

LEMMA WithinGrows ==
  ASSUME NEW n, NEW a \in Nat, NEW b \in Nat, a <= b
  PROVE  P!Within(n, a) \subseteq P!Within(n, b)
<1> DEFINE Ks == {c \in Nat : P!Within(n, a) \subseteq P!Within(n, a + c)}
<1>1. 0 \in Ks
  <2>1. a + 0 = a
    OBVIOUS
  <2> QED BY <2>1
<1>2. ASSUME NEW c \in Nat, c \in Ks PROVE c + 1 \in Ks
  <2>1. a + (c + 1) = (a + c) + 1 /\ a + c \in Nat
    OBVIOUS
  <2>2. P!Within(n, a + c) \subseteq P!Within(n, (a + c) + 1)
    BY <2>1, WithinHere
  <2> QED BY <1>2, <2>1, <2>2
<1>3. b - a \in Nat /\ a + (b - a) = b
  OBVIOUS
<1>4. Nat \subseteq Ks
  <2> HIDE DEF Ks
  <2> QED BY <1>1, <1>2, ParserTaken, PP!AllDepths
<1>5. b - a \in Ks
  BY <1>3, <1>4
<1> QED BY <1>3, <1>5

(* The kinds of node there are in a tree, below its root, besides those of *)
(* a single token that carry no name and no number.                        *)
Kept      == P!ExprKinds \cup P!StmtKinds
Named(nt) == CASE nt = "NUMLIT" -> "Num" [] nt = "ID" -> "Ident" [] OTHER -> nt

LEMMA ViewNamed ==
  ASSUME NEW m, m.nt \in Kept, NEW ks
  PROVE  View(m, ks).nt = Named(m.nt)
BY DEF View, Named, Kept, P!ExprKinds, P!StmtKinds, GenNode, Declared

LEMMA NamedKinds ==
  /\ \A nt \in P!ExprKinds : Named(nt) \in M!ExprKinds
  /\ \A nt \in P!StmtKinds : Named(nt) = nt
  /\ P!StmtKinds = M!StmtKinds
BY DEF Named, P!ExprKinds, P!StmtKinds, M!ExprKinds, M!StmtKinds

(* A node with as many children as its kind has, each of its place's kinds. *)
LEMMA ShapedOf ==
  ASSUME NEW v, v.nt # "Scope", NEW A, NEW B, NEW C
  PROVE  /\ M!Children[v.nt] = << A >> /\ Len(v.kids) = 1 /\ v.kids[1].nt \in A
              => Shaped(v)
         /\ M!Children[v.nt] = << A, B >> /\ Len(v.kids) = 2 /\ v.kids[1].nt \in A
              /\ v.kids[2].nt \in B => Shaped(v)
         /\ M!Children[v.nt] = << A, B, C >> /\ Len(v.kids) = 3 /\ v.kids[1].nt \in A
              /\ v.kids[2].nt \in B /\ v.kids[3].nt \in C => Shaped(v)
<1> DEFINE ch == M!Children[v.nt]
<1> SUFFICES
      /\ (ch = << A >> /\ Len(v.kids) = 1 /\ v.kids[1].nt \in A) => Shaped(v)
      /\ (ch = << A, B >> /\ Len(v.kids) = 2 /\ v.kids[1].nt \in A
            /\ v.kids[2].nt \in B) => Shaped(v)
      /\ (ch = << A, B, C >> /\ Len(v.kids) = 3 /\ v.kids[1].nt \in A
            /\ v.kids[2].nt \in B /\ v.kids[3].nt \in C) => Shaped(v)
  OBVIOUS
<1>1. (Len(v.kids) = Len(ch) /\ \A i \in 1 .. Len(v.kids) : v.kids[i].nt \in ch[i])
        => Shaped(v)
  BY DEF Shaped
<1> HIDE DEF ch
<1>2. \A i \in 1 .. 1 : i = 1
  OBVIOUS
<1>3. \A i \in 1 .. 2 : i = 1 \/ i = 2
  OBVIOUS
<1>4. \A i \in 1 .. 3 : i = 1 \/ i = 2 \/ i = 3
  OBVIOUS
<1>5. ch = << A >> => Len(ch) = 1 /\ ch[1] = A
  OBVIOUS
<1>6. ch = << A, B >> => Len(ch) = 2 /\ ch[1] = A /\ ch[2] = B
  OBVIOUS
<1>7. ch = << A, B, C >> => Len(ch) = 3 /\ ch[1] = A /\ ch[2] = B /\ ch[3] = C
  OBVIOUS
<1>8. ASSUME ch = << A >>, Len(v.kids) = 1, v.kids[1].nt \in A PROVE Shaped(v)
  BY <1>1, <1>2, <1>5, <1>8
<1>9. ASSUME ch = << A, B >>, Len(v.kids) = 2, v.kids[1].nt \in A, v.kids[2].nt \in B
      PROVE  Shaped(v)
  BY <1>1, <1>3, <1>6, <1>9
<1>10. ASSUME ch = << A, B, C >>, Len(v.kids) = 3, v.kids[1].nt \in A,
              v.kids[2].nt \in B, v.kids[3].nt \in C
       PROVE  Shaped(v)
  BY <1>1, <1>4, <1>7, <1>10
<1> QED BY <1>8, <1>9, <1>10

(* What the generator reads of a node that is as the parser makes it.      *)
LEMMA ViewShaped ==
  ASSUME NEW m, m.nt \in Kept, P!Shaped(m), NEW ks, \E S : ks \in Seq(S),
         Len(ks) = Len(m.kids),
         \A i \in 1 .. Len(ks) : m.kids[i].nt \in Kept => ks[i].nt = Named(m.kids[i].nt)
  PROVE  /\ Shaped(View(m, ks))
         /\ \A i \in 1 .. Len(View(m, ks).kids) :
              \E j \in 1 .. Len(m.kids) :
                View(m, ks).kids[i] = ks[j] /\ m.kids[j].nt \in Kept
<1> DEFINE v == View(m, ks)
<1>1. \A i \in 1 .. Len(m.kids) : m.kids[i].nt \in P!Slot(m.nt, i)
  BY DEF P!Shaped
<1>2. Len(m.kids) \in P!Arity(m.nt)
  BY DEF P!Shaped
<1>3. P!ExprKinds \subseteq Kept /\ P!StmtKinds \subseteq Kept /\ "Scope" \in Kept
      /\ "VarDef" \in Kept /\ "ID" \in Kept
  BY DEF Kept, P!ExprKinds, P!StmtKinds
<1>4. \A nt \in {"Scope", "VarDef"} : Named(nt) = nt
  BY DEF Named
<1>5. Len(<<>>) = 0 /\ Len(<< ks[2] >>) = 1 /\ << ks[2] >>[1] = ks[2]
  OBVIOUS
<1>6. CASE m.nt \in {"NUMLIT", "ID", "Decl", "FunDecl", "FunDef", "Call"}
  <2>1. v.kids = <<>>
    BY <1>6 DEF View, GenNode, Declared
  <2>2. v.nt \in {"Num", "Ident", "Decl", "FunDecl", "FunDef", "Call"}
    BY <1>6, ViewNamed DEF Named
  <2>3. M!Children[v.nt] = <<>> /\ v.nt # "Scope"
    BY <2>2 DEF M!Children
  <2> HIDE DEF v
  <2>4. Shaped(v) /\ \A i \in 1 .. Len(v.kids) : FALSE
    BY <1>5, <2>1, <2>3 DEF Shaped
  <2> QED BY <2>4 DEF v
<1>7. CASE m.nt \in {"Asgn", "VarDef"}
  <2>1. v.kids = << ks[2] >> /\ v.nt = m.nt
    BY <1>7 DEF View, GenNode, Declared
  <2>2. Len(m.kids) = 2
    BY <1>2, <1>7 DEF P!Arity, P!Kinds, P!Operators, P!Specials, P!Keywords
  <2>3. m.kids[2].nt \in P!ExprKinds
    BY <1>1, <1>7, <2>2 DEF P!Slot
  <2>4. m.kids[2].nt \in Kept /\ ks[2].nt \in M!ExprKinds
    BY <1>3, <2>2, <2>3, NamedKinds
  <2>5. M!Children[v.nt] = << M!ExprKinds >> /\ v.nt # "Scope"
    BY <1>7, <2>1 DEF M!Children
  <2> HIDE DEF v
  <2>6. Shaped(v)
    BY <2>1, <2>4, <2>5 DEF Shaped
  <2>7. \A i \in 1 .. Len(v.kids) :
          \E j \in 1 .. Len(m.kids) : v.kids[i] = ks[j] /\ m.kids[j].nt \in Kept
    BY <2>1, <2>2, <2>4
  <2> QED BY <2>6, <2>7 DEF v
<1>8. CASE m.nt \in {"BinExpr", "Interval", "Exit", "If", "While", "For", "Scope"}
  <2>1. v.kids = ks /\ v.nt = m.nt
    BY <1>8 DEF View, GenNode
  <2>2. \A i \in 1 .. Len(m.kids) :
          m.kids[i].nt \in P!ExprKinds \cup P!StmtKinds \cup {"Scope", "VarDef"}
    BY <1>1, <1>8 DEF P!Slot
  <2>3. \A i \in 1 .. Len(m.kids) : m.kids[i].nt \in Kept
    BY <1>3, <2>2
  <2>4. \A i \in 1 .. Len(ks) : ks[i].nt = Named(m.kids[i].nt)
    BY <2>3
  <2>5. Shaped(v)
    <3>1. CASE m.nt \in {"BinExpr", "Interval"}
      <4>1. Len(m.kids) = 2
        BY <1>2, <3>1 DEF P!Arity, P!Kinds, P!Operators, P!Specials, P!Keywords
      <4>2. M!Children[m.nt] = << M!ExprKinds, M!ExprKinds >>
        BY <3>1 DEF M!Children
      <4>3. \A i \in 1 .. 2 : ks[i].nt \in M!ExprKinds
        BY <1>1, <2>4, <3>1, <4>1, NamedKinds DEF P!Slot
      <4> HIDE DEF v
      <4> QED BY <2>1, <3>1, <4>1, <4>2, <4>3, ShapedOf
    <3>2. CASE m.nt = "Exit"
      <4>1. Len(m.kids) = 1
        BY <1>2, <3>2 DEF P!Arity, P!Kinds, P!Operators, P!Specials, P!Keywords
      <4>2. M!Children[m.nt] = << M!ExprKinds >>
        BY <3>2 DEF M!Children
      <4>3. ks[1].nt \in M!ExprKinds
        BY <1>1, <2>4, <3>2, <4>1, NamedKinds DEF P!Slot
      <4> HIDE DEF v
      <4> QED BY <2>1, <3>2, <4>1, <4>2, <4>3, ShapedOf
    <3>3. CASE m.nt \in {"If", "While"}
      <4>1. Len(m.kids) = 2
        BY <1>2, <3>3 DEF P!Arity, P!Kinds, P!Operators, P!Specials, P!Keywords
      <4>2. M!Children[m.nt] = << M!ExprKinds, {"Scope"} >>
        BY <3>3 DEF M!Children
      <4>3. m.kids[1].nt \in P!ExprKinds /\ m.kids[2].nt = "Scope"
        BY <1>1, <3>3, <4>1 DEF P!Slot
      <4>4. ks[1].nt \in M!ExprKinds /\ ks[2].nt = "Scope"
        BY <1>4, <2>4, <4>1, <4>3, NamedKinds
      <4> HIDE DEF v
      <4> QED BY <2>1, <3>3, <4>1, <4>2, <4>4, ShapedOf
    <3>4. CASE m.nt = "For"
      <4>1. Len(m.kids) = 3
        BY <1>2, <3>4 DEF P!Arity, P!Kinds, P!Operators, P!Specials, P!Keywords
      <4>2. M!Children[m.nt] = << {"VarDef"}, M!ExprKinds, {"Scope"} >>
        BY <3>4 DEF M!Children
      <4>3. m.kids[1].nt = "VarDef" /\ m.kids[2].nt \in P!ExprKinds
            /\ m.kids[3].nt = "Scope"
        BY <1>1, <3>4, <4>1 DEF P!Slot
      <4>4. ks[1].nt = "VarDef" /\ ks[2].nt \in M!ExprKinds /\ ks[3].nt = "Scope"
        BY <1>4, <2>4, <4>1, <4>3, NamedKinds
      <4> HIDE DEF v
      <4> QED BY <2>1, <3>4, <4>1, <4>2, <4>4, ShapedOf
    <3>5. CASE m.nt = "Scope"
      <4>1. \A i \in 1 .. Len(ks) : ks[i].nt \in M!StmtKinds
        <5>1. \A i \in 1 .. Len(ks) : m.kids[i].nt \in P!StmtKinds
          BY <1>1, <3>5 DEF P!Slot
        <5> QED BY <2>4, <5>1, NamedKinds
      <4> HIDE DEF v
      <4> QED BY <2>1, <3>5, <4>1 DEF Shaped
    <3> QED BY <1>8, <3>1, <3>2, <3>3, <3>4, <3>5
  <2> HIDE DEF v
  <2>6. \A i \in 1 .. Len(v.kids) :
          \E j \in 1 .. Len(m.kids) : v.kids[i] = ks[j] /\ m.kids[j].nt \in Kept
    BY <2>1, <2>3
  <2> QED BY <2>5, <2>6 DEF v
<1> QED BY <1>6, <1>7, <1>8 DEF Kept, P!ExprKinds, P!StmtKinds
(* Every node of the generator's tree, down to the depth before the last,  *)
(* has the children of its kind.                                           *)
LEMMA SeenShaped ==
  ASSUME NEW n, n.nt \in Kept, NEW e \in Nat,
         \A d \in Nat : \A m \in P!Within(n, d) : P!Shaped(m)
  PROVE  /\ Seen(n, e + 1).nt = Named(n.nt)
         /\ \A x \in P!Within(Seen(n, e + 1), e) : Shaped(x)
<1> DEFINE d == e + 1
           N == P!Within(n, d)
<1> SUFFICES /\ Seen(n, d).nt = Named(n.nt)
             /\ \A x \in P!Within(Seen(n, d), e) : Shaped(x)
  OBVIOUS
<1>1. d \in Nat /\ d # 0 /\ d - 1 = e
  OBVIOUS
<1> HIDE DEF d
<1>2. PICK f : /\ Seen(n, d) = f[d][n]
               /\ f[0] = Leaves(N)
               /\ \A k \in Nat : f[k + 1] = Layer(N, f[k])
  BY <1>1, SeenIs
<1>3. \A m \in P!Within(n, 0) : m = n
  BY WithinHere
<1>4. \A k \in 0 .. d : P!Within(n, d - k) \subseteq N
  BY <1>1, WithinGrows
<1>5. n \in N
  BY <1>1, <1>3, <1>4, WithinHere
<1> DEFINE ks(k, m) == [i \in 1 .. Len(m.kids) |-> f[k][m.kids[i]]]
<1>6. \A k \in Nat : \A m \in N : f[k + 1][m] = View(m, ks(k, m))
  BY <1>2 DEF Layer
<1>7. ASSUME NEW k \in Nat, NEW m \in N, m.nt \in Kept PROVE f[k][m].nt = Named(m.nt)
  <2>1. CASE k = 0
    <3>1. f[0][m] = View(m, <<>>)
      BY <1>2 DEF Leaves
    <3> QED BY <1>7, <2>1, <3>1, ViewNamed
  <2>2. CASE k # 0
    <3>1. k - 1 \in Nat /\ (k - 1) + 1 = k
      BY <2>2
    <3>2. f[k][m] = View(m, ks(k - 1, m))
      BY <1>6, <3>1
    <3> QED BY <1>7, <3>2, ViewNamed
  <2> QED BY <2>1, <2>2
<1>8. ASSUME NEW k \in 0 .. d, k # 0, NEW m \in P!Within(n, d - k), m.nt \in Kept
      PROVE  /\ Shaped(f[k][m])
             /\ \A x \in P!Kids(f[k][m]) :
                  \E c \in P!Within(n, d - (k - 1)) : c.nt \in Kept /\ x = f[k - 1][c]
  <2>1. k - 1 \in Nat /\ (k - 1) + 1 = k /\ d - k \in Nat /\ k - 1 \in 0 .. d
        /\ d - (k - 1) = (d - k) + 1
    BY <1>1, <1>8
  <2>2. m \in N
    BY <1>4
  <2> DEFINE s == ks(k - 1, m)
  <2>3. f[k][m] = View(m, s)
    BY <1>6, <2>1, <2>2
  <2>4. P!Shaped(m)
    BY <2>1
  <2>5. Len(m.kids) \in Nat
    BY <1>8, <2>4
    DEF P!Shaped, P!Arity, Kept, P!ExprKinds, P!StmtKinds, P!Kinds
  <2>6. \A i \in 1 .. Len(m.kids) : m.kids[i] \in P!Within(n, d - (k - 1))
    <3>1. \A i \in 1 .. Len(m.kids) : m.kids[i] \in P!Kids(m)
      BY DEF P!Kids
    <3>2. P!Within(n, d - (k - 1)) = UNION {{p} \cup P!Kids(p) : p \in P!Within(n, d - k)}
      BY <2>1, WithinHere
    <3> QED BY <3>1, <3>2
  <2>7. \A i \in 1 .. Len(m.kids) : m.kids[i] \in N
    BY <1>4, <2>1, <2>6
  <2>8. /\ \E S : s \in Seq(S)
        /\ Len(s) = Len(m.kids)
        /\ \A i \in 1 .. Len(m.kids) : s[i] = f[k - 1][m.kids[i]]
    <3>1. s \in [1 .. Len(m.kids) -> {s[i] : i \in 1 .. Len(m.kids)}]
      OBVIOUS
    <3>2. s \in Seq({s[i] : i \in 1 .. Len(m.kids)}) /\ Len(s) = Len(m.kids)
      BY <2>5, <3>1
    <3> QED BY <3>2
  <2>9. \A i \in 1 .. Len(m.kids) : m.kids[i].nt \in Kept => s[i].nt = Named(m.kids[i].nt)
    BY <1>7, <2>1, <2>7, <2>8
  <2> HIDE DEF s
  <2>10. /\ Shaped(View(m, s))
         /\ \A i \in 1 .. Len(View(m, s).kids) :
              \E j \in 1 .. Len(m.kids) :
                View(m, s).kids[i] = s[j] /\ m.kids[j].nt \in Kept
    BY <1>8, <2>4, <2>8, <2>9, ViewShaped
  <2>11. ASSUME NEW x \in P!Kids(View(m, s))
         PROVE  \E c \in P!Within(n, d - (k - 1)) : c.nt \in Kept /\ x = f[k - 1][c]
    <3>1. PICK i \in 1 .. Len(View(m, s).kids) : x = View(m, s).kids[i]
      BY <2>11 DEF P!Kids
    <3>2. PICK j \in 1 .. Len(m.kids) : x = s[j] /\ m.kids[j].nt \in Kept
      BY <2>10, <3>1
    <3> QED BY <2>6, <2>8, <3>2
  <2> QED BY <2>3, <2>10, <2>11
<1> DEFINE Comes(x, c) == \E k \in 0 .. d : \E m \in P!Within(n, d - k) :
                            d - c <= k /\ m.nt \in Kept /\ x = f[k][m]
           C == {c \in Nat : c <= d => \A x \in P!Within(Seen(n, d), c) : Comes(x, c)}
<1>9. 0 \in C
  <2>1. d \in 0 .. d /\ d - d = 0 /\ d - 0 = d /\ n \in P!Within(n, 0)
    BY <1>1, WithinHere
  <2>2. Comes(f[d][n], 0)
    BY <2>1
  <2>3. \A x \in P!Within(Seen(n, d), 0) : x = f[d][n]
    BY <1>2, WithinHere
  <2> QED BY <2>2, <2>3
<1>10. ASSUME NEW c \in Nat, c \in C PROVE c + 1 \in C
  <2> SUFFICES ASSUME c + 1 <= d, NEW x \in P!Within(Seen(n, d), c + 1)
               PROVE  Comes(x, c + 1)
    OBVIOUS
  <2>1. c <= d
    BY <1>1
  <2>2. PICK y \in P!Within(Seen(n, d), c) : x = y \/ x \in P!Kids(y)
    BY WithinHere
  <2>3. PICK k \in 0 .. d : \E m \in P!Within(n, d - k) :
          d - c <= k /\ m.nt \in Kept /\ y = f[k][m]
    BY <1>10, <2>1, <2>2
  <2>4. PICK m \in P!Within(n, d - k) : d - c <= k /\ m.nt \in Kept /\ y = f[k][m]
    BY <2>3
  <2>5. CASE x = y
    <3>1. d - (c + 1) <= k
      BY <1>1, <2>4
    <3> QED BY <2>4, <2>5, <3>1
  <2>6. CASE x \in P!Kids(y)
    <3>1. k # 0 /\ k - 1 \in 0 .. d /\ d - (c + 1) <= k - 1
      BY <1>1, <2>4
    <3>2. \E p \in P!Within(n, d - (k - 1)) : p.nt \in Kept /\ x = f[k - 1][p]
      BY <1>8, <2>4, <2>6, <3>1
    <3> QED BY <3>1, <3>2
  <2> QED BY <2>2, <2>5, <2>6
<1>11. Nat \subseteq C
  <2> HIDE DEF C
  <2> QED BY <1>9, <1>10, ParserTaken, PP!AllDepths
<1>12. ASSUME NEW x \in P!Within(Seen(n, d), e) PROVE Shaped(x)
  <2>1. e <= d /\ d - e = 1
    BY <1>1
  <2>2. Comes(x, e)
    BY <1>11, <2>1
  <2>3. PICK k \in 0 .. d : \E m \in P!Within(n, d - k) :
          d - e <= k /\ m.nt \in Kept /\ x = f[k][m]
    BY <2>2
  <2>4. k # 0
    BY <2>1, <2>3
  <2> QED BY <1>8, <2>3, <2>4
<1> QED BY <1>1, <1>2, <1>5, <1>7, <1>12
-----------------------------------------------------------------------------
(* What is true at each call of main: the parser starts where its proofs   *)
(* have it start, and is under way as they say; the statements of a tree   *)
(* are as the parser makes them, and of a program as the generator reads.  *)
Parsing    == PP!IInv /\ PP!Rooted /\ PP!Collected /\ PP!RootReturned
TreeSound  == \A i \in 1 .. Len(Tree) :
                /\ Tree[i].nt \in P!StmtKinds
                /\ \A d \in Nat : \A m \in P!Within(Tree[i], d) : P!Shaped(m)
GenReady   == \A i \in DOMAIN Program :
                /\ Program[i].nt \in M!StmtKinds
                /\ \A n \in P!Within(Program[i], Len(Tokens)) : Shaped(n)

Handed ==
  /\ KeysSpelled
  /\ Tokens \in Seq(P!Kinds)
  /\ at = "lex"   => PP!Init
  /\ at = "parse" => Parsing
  /\ at = "ast"   => TreeSound
  /\ at = "gen"   => GenReady

LEMMA ParsingStarts == PP!Init => Parsing
<1> SUFFICES ASSUME PP!Init PROVE Parsing
  OBVIOUS
<1>1. PP!IInv /\ PP!Collected
  BY ParserTaken, PP!InitIInv, PP!InitCollected
<1>2. frames = << PP!Enter("Root", 0, 0) >> /\ parsectl = "run"
  BY DEF PP!Init
<1>3. PP!Rooted
  BY <1>2 DEF PP!Rooted, PP!Enter
<1>4. PP!RootReturned
  BY <1>2 DEF PP!RootReturned
<1> QED BY <1>1, <1>3, <1>4 DEF Parsing

LEMMA ParsingStartsNext == PP!Init' => Parsing'
BY ParsingStarts, PTL

LEMMA ParsingGoesOn == Parsing /\ P!Next => Parsing'
<1> SUFFICES ASSUME Parsing, P!Next PROVE Parsing'
  OBVIOUS
<1>1. [PP!Next]_(PP!vars)
  BY SameParser
<1>2. PP!IInv' /\ PP!Rooted' /\ PP!Collected'
  BY <1>1, ParserTaken, PP!NextIInv, PP!NextRooted, PP!NextCollected DEF Parsing
<1>3. PP!RootReturned'
  BY <1>1, ParserTaken, PP!NextRootReturned DEF Parsing
<1> QED BY <1>2, <1>3 DEF Parsing

LEMMA InitHanded == CompInit => Handed
<1> SUFFICES ASSUME CompInit PROVE Handed
  OBVIOUS
<1>1. at = "lex" /\ tokens = <<>> /\ P!Init
  BY DEF CompInit, L!Init
<1>2. KeysSpelled
  <2>1. tokens \in Seq({}) /\ Len(tokens) = 0
    BY <1>1
  <2> QED BY <2>1 DEF KeysSpelled
<1>3. Tokens = <<>> /\ Tokens \in Seq(P!Kinds)
  BY <1>1 DEF P!Init
<1>4. PP!Init
  BY <1>1, <1>3 DEF P!Init, PP!Init, P!Enter, PP!Enter, P!Null, PP!Null, P!Node, PP!Node
<1> QED BY <1>1, <1>2, <1>3, <1>4 DEF Handed

LEMMA NextHanded == Handed /\ [CompNext]_compvars => Handed'
<1> SUFFICES ASSUME Handed, [CompNext]_compvars PROVE Handed'
  OBVIOUS
<1>1. UNCHANGED lexvars => KeysSpelled'
  BY DEF Handed, KeysSpelled, lexvars, KEYWORDS
<1>2. UNCHANGED parsevars => /\ Tokens' \in Seq(P!Kinds)
                             /\ UNCHANGED PP!vars
  BY DEF Handed, parsevars, PP!vars
<1>3. CASE Lex
  <2>1. at = "lex" /\ at' = at /\ L!Next /\ UNCHANGED parsevars
    BY <1>3 DEF Lex
  <2>2. KeysSpelled'
    BY <2>1, LexerSpells DEF Handed
  <2>3. PP!Init'
    BY <2>1 DEF Handed, PP!Init, parsevars
  <2> QED BY <1>2, <2>1, <2>2, <2>3 DEF Handed
<1>4. CASE Tokenized
  <2>1. /\ at = "lex" /\ UNCHANGED lexvars
        /\ UNCHANGED <<TokenIndex, frames, kids, parsectl, val, from, HasErrors, ErrCount>>
    BY <1>4 DEF Tokenized
  <2>2. CASE Goto("parse") /\ Tokens' = [i \in DOMAIN tokens |-> Kind(tokens[i])]
    <3>1. Tokens' \in Seq(P!Kinds) /\ at' = "parse"
      BY <2>2, KindsOfTokens DEF Handed, Goto
    <3>2. PP!Init'
      BY <2>1, <3>1 DEF Handed, PP!Init
    <3> QED BY <1>1, <2>1, <3>1, <3>2, ParsingStartsNext DEF Handed
  <2>3. CASE (Exit("failure") \/ Crash) /\ UNCHANGED Tokens
    BY <1>1, <2>1, <2>3 DEF Handed, Exit, Crash
  <2> QED BY <1>4, <2>2, <2>3 DEF Tokenized
<1>5. CASE Parse
  <2>1. at = "parse" /\ at' = at /\ P!Next /\ UNCHANGED lexvars
    BY <1>5 DEF Parse
  <2>2. Parsing'
    BY <2>1, ParsingGoesOn DEF Handed
  <2>3. Tokens' \in Seq(PP!Kinds)
    BY <2>2 DEF Parsing, PP!IInv, PP!TypeOK
  <2>4. Tokens' \in Seq(P!Kinds)
    BY <2>3 DEF P!Kinds, PP!Kinds, P!Operators, PP!Operators, P!Specials, PP!Specials,
                P!Keywords, PP!Keywords
  <2> QED BY <1>1, <2>1, <2>2, <2>4 DEF Handed
<1>6. CASE Parsed
  <2>1. /\ at = "parse" /\ P!Stopped /\ UNCHANGED lexvars /\ UNCHANGED parsevars
    BY <1>6 DEF Parsed
  <2>2. CASE parsectl = "node" /\ Goto("ast") /\ Tree' = val.kids
    <3>1. frames = <<>>
      BY <2>1, <2>2 DEF P!Stopped
    <3>2. Parsing
      BY <2>1 DEF Handed
    <3>3. \A i \in 1 .. Len(val.kids) :
            /\ val.kids[i].nt \in PP!StmtKinds
            /\ \A d \in Nat : \A m \in PP!Within(val.kids[i], d) : PP!Shaped(m)
      BY <2>2, <3>1, <3>2, ParserTaken, PP!RootStatements DEF Parsing
    <3>4. TreeSound'
      BY <2>2, <3>3, SameParser DEF TreeSound
    <3> QED BY <1>1, <1>2, <2>1, <2>2, <3>4 DEF Handed, Goto
  <2>3. CASE Exit("failure") \/ Crash
    BY <1>1, <1>2, <2>1, <2>3 DEF Handed, Exit, Crash
  <2> QED BY <1>6, <2>2, <2>3 DEF Parsed
<1>7. CASE OutputAST
  <2>1. at = "ast" /\ at' = at /\ Next /\ UNCHANGED lexvars /\ UNCHANGED parsevars
    BY <1>7 DEF OutputAST
  <2>2. Tree' = Tree
    BY <2>1 DEF Next, OutputNode, CallWriter, WriteFile, Halt, vars
  <2> QED BY <1>1, <1>2, <2>1, <2>2 DEF Handed, TreeSound
<1>8. CASE OutputDone
  <2>1. /\ at = "ast" /\ at' = "gen" /\ UNCHANGED lexvars /\ UNCHANGED parsevars
        /\ Program' = [i \in 1 .. Len(Tree) |-> Seen(Tree[i], Len(Tokens) + 1)]
    BY <1>8 DEF OutputDone, Goto
  <2>2. Len(Tokens) \in Nat /\ Tokens' = Tokens
    BY <2>1 DEF Handed, parsevars
  <2>3. ASSUME NEW i \in 1 .. Len(Tree)
        PROVE  /\ Program'[i].nt \in M!StmtKinds
               /\ \A n \in P!Within(Program'[i], Len(Tokens)) : Shaped(n)
    <3>1. /\ Tree[i].nt \in P!StmtKinds
          /\ \A d \in Nat : \A m \in P!Within(Tree[i], d) : P!Shaped(m)
      BY <2>1 DEF Handed, TreeSound
    <3>2. Tree[i].nt \in Kept
      BY <3>1 DEF Kept
    <3>3. /\ Seen(Tree[i], Len(Tokens) + 1).nt = Named(Tree[i].nt)
          /\ \A n \in P!Within(Seen(Tree[i], Len(Tokens) + 1), Len(Tokens)) : Shaped(n)
      BY <2>2, <3>1, <3>2, SeenShaped
    <3> QED BY <2>1, <3>1, <3>3, NamedKinds
  <2>4. DOMAIN Program' = 1 .. Len(Tree)
    BY <2>1
  <2>5. GenReady'
    BY <2>2, <2>3, <2>4 DEF GenReady
  <2> QED BY <1>1, <1>2, <2>1, <2>5 DEF Handed
<1>9. CASE Generate
  <2>1. at = "gen" /\ at' = at /\ M!Step /\ UNCHANGED lexvars /\ UNCHANGED parsevars
    BY <1>9 DEF Generate
  <2>2. Program' = Program
    BY <2>1 DEF M!Step, M!Gen, M!GenTerm, M!GenVarDef, M!GenDecl, M!GenAsgn,
       M!GenFunction, M!InvalidOperator, M!PushStack, M!PopStack, M!TextEntry, M!NextID,
       M!NumberedEntry, M!RegisterVar, M!StoreVar, M!BeginScope, M!EndScope, M!Overrun
  <2>3. Tokens' = Tokens
    BY <2>1 DEF parsevars
  <2> QED BY <1>1, <1>2, <2>1, <2>2, <2>3 DEF Handed, GenReady
<1>10. CASE GenerateDone \/ WriteAsm \/ Nasm \/ Ld \/ Cleanup \/ Run
  <2>1. /\ UNCHANGED lexvars /\ UNCHANGED parsevars
        /\ at' \notin {"lex", "parse", "ast", "gen"}
    BY <1>10 DEF GenerateDone, WriteAsm, Nasm, Ld, Cleanup, Run, Goto, Exit, Crash
  <2> QED BY <1>1, <1>2, <2>1 DEF Handed
<1>11. CASE UNCHANGED compvars
  <2>1. /\ UNCHANGED lexvars /\ UNCHANGED parsevars /\ at' = at /\ Tree' = Tree
        /\ Program' = Program /\ Tokens' = Tokens
    BY <1>11 DEF compvars, astvars, vars, genvars, parsevars, lexvars
  <2>2. UNCHANGED PP!vars
    BY <1>2, <2>1
  <2>3. PP!Init => PP!Init'
    BY <2>2 DEF PP!Init, PP!vars
  <2>4. Parsing => Parsing'
    BY <2>2, ParserTaken, PP!NextIInv, PP!NextRooted, PP!NextCollected,
       PP!NextRootReturned DEF Parsing
  <2> QED BY <1>1, <1>2, <2>1, <2>3, <2>4 DEF Handed, TreeSound, GenReady
<1> QED BY <1>3, <1>4, <1>5, <1>6, <1>7, <1>8, <1>9, <1>10, <1>11 DEF CompNext, CompHalt

(* HandedOnWell for every source, alphabet and capacity: what each phase   *)
(* leaves is what the next is written for.  Every token Tokenize gives has *)
(* a kind the parser knows, and every node the generator comes to has the  *)
(* children it goes on to, of the kinds it goes on to them as.             *)
THEOREM PhasesFit == CompSpec => []HandedOnWell
<1>1. Handed => HandedOnWell
  <2> SUFFICES ASSUME Handed PROVE HandedOnWell
    OBVIOUS
  <2>1. \A i \in DOMAIN Tokens : Tokens[i] \in P!Kinds
    BY DEF Handed
  <2> QED BY <2>1 DEF Handed, GenReady, HandedOnWell
<1> QED BY InitHanded, NextHanded, <1>1, PTL DEF CompSpec

(* WriterFits where the writer is called from: for the tree of any source. *)
THEOREM WriterFitsAlways == CompSpec => []WriterFits
<1>1. CompInit => Good(jw)
  BY OpenedGood DEF CompInit, Init
<1>2. Good(jw) /\ [CompNext]_compvars => Good(jw)'
  <2> SUFFICES ASSUME Good(jw), [CompNext]_compvars PROVE Good(jw')
    BY DEF Good
  <2>1. CASE OutputAST
    BY <2>1, NextGood DEF OutputAST
  <2>2. CASE jw' = jw
    BY <2>2
  <2>3. ASSUME ~OutputAST PROVE jw' = jw
    BY <2>3 DEF CompNext, CompHalt, compvars, astvars, vars, Lex, Tokenized, Parse,
       Parsed, OutputDone, Generate, GenerateDone, WriteAsm, Nasm, Ld, Cleanup, Run
  <2> QED BY <2>1, <2>2, <2>3
<1>3. Good(jw) => WriterFits
  BY DEF Good, WriterFits
<1> QED BY <1>1, <1>2, <1>3, PTL DEF CompSpec
-----------------------------------------------------------------------------
(* bin/ast.json.  The nodes of the tree, and where they stand in it, make  *)
(* a document AstOutputProofs can read: the tree has the shape its proofs  *)
(* ask for (TreeSound), and no place in it is deeper than the source has   *)
(* tokens (PP!RootDepth).                                                  *)
NodesOf(tree, d) == UNION {P!Within(tree[i], d) : i \in 1 .. Len(tree)}

PlacesOf(N, d) ==
  {p \in {"expr", "stmt"} \X N \X (1 .. d) :
     /\ PP!Low(p[2], p[3])
     /\ p[2].nt \in IF p[1] = "expr" THEN P!ExprKinds ELSE P!StmtKinds}

LEMMA PlaceIs ==
  \A N : \A d \in Nat : \A as, m, k :
    <<as, m, k>> \in PlacesOf(N, d) <=>
      /\ as \in {"expr", "stmt"} /\ m \in N /\ k \in 1 .. d /\ PP!Low(m, k)
      /\ as = "expr" => m.nt \in P!ExprKinds
      /\ as = "stmt" => m.nt \in P!StmtKinds
BY DEF PlacesOf

(* Nodes that are all there, of a shape that is right, and not too deep.   *)
Closed(N, d) ==
  /\ d \in Nat
  /\ \A m \in N : P!Shaped(m) /\ P!Kids(m) \subseteq N

LEMMA TreeClosed ==
  ASSUME NEW tree, NEW d \in Nat,
         \A i \in 1 .. Len(tree) :
           /\ \A e \in Nat : \A m \in P!Within(tree[i], e) : P!Shaped(m)
           /\ PP!Low(tree[i], d)
  PROVE  /\ Closed(NodesOf(tree, d), d)
         /\ \A i \in 1 .. Len(tree) : tree[i] \in NodesOf(tree, d) /\ d \in 1 .. d
<1>1. ASSUME NEW m \in NodesOf(tree, d)
      PROVE  P!Shaped(m) /\ P!Kids(m) \subseteq NodesOf(tree, d)
  <2>1. PICK i \in 1 .. Len(tree) : m \in P!Within(tree[i], d)
    BY <1>1 DEF NodesOf
  <2>2. \A n : P!Within(n, d) = PP!Within(n, d) /\ P!Kids(n) = PP!Kids(n)
    BY SameParser DEF P!Kids, PP!Kids
  <2>3. PP!Kids(m) \subseteq PP!Within(tree[i], d)
    BY <2>1, <2>2, ParserTaken, PP!LowWithin
  <2> QED BY <2>1, <2>2, <2>3 DEF NodesOf
<1>2. ASSUME NEW i \in 1 .. Len(tree) PROVE tree[i] \in NodesOf(tree, d) /\ d \in 1 .. d
  <2>1. tree[i] \in P!Within(tree[i], d)
    <3>1. tree[i] \in PP!Within(tree[i], d)
      BY ParserTaken, PP!WithinKids
    <3> QED BY <3>1, SameParser
  <2>2. d \in Nat \ {0}
    BY ParserTaken, PP!LowKid
  <2> QED BY <2>1, <2>2 DEF NodesOf
<1> QED BY <1>1, <1>2 DEF Closed

(* The child of a node in a place stands in one a level down.              *)
LEMMA KidPlace ==
  ASSUME NEW N, NEW d, Closed(N, d), NEW m \in N, NEW k \in 1 .. d, PP!Low(m, k),
         NEW i \in 1 .. Len(m.kids)
  PROVE  /\ m.kids[i] \in N /\ PP!Low(m.kids[i], k - 1) /\ k - 1 \in 1 .. d
         /\ m.kids[i].nt \in P!ExprKinds => <<"expr", m.kids[i], k - 1>> \in PlacesOf(N, d)
         /\ m.kids[i].nt \in P!StmtKinds => <<"stmt", m.kids[i], k - 1>> \in PlacesOf(N, d)
<1>1. d \in Nat /\ k \in Nat
  BY DEF Closed
<1>2. m.kids[i] \in P!Kids(m) /\ m.kids[i] \in PP!Kids(m)
  BY DEF P!Kids, PP!Kids
<1>3. m.kids[i] \in N
  BY <1>2 DEF Closed
<1>4. PP!Low(m.kids[i], k - 1)
  BY <1>2, ParserTaken, PP!LowKid
<1>5. k - 1 \in Nat \ {0}
  BY <1>4, ParserTaken, PP!LowKid
<1>6. k - 1 \in 1 .. d
  BY <1>1, <1>5
<1> QED BY <1>1, <1>3, <1>4, <1>6, PlaceIs

(* So do the statements of a scope, which are written with the level the   *)
(* scope is written with.                                                  *)
LEMMA ScopePlaces ==
  ASSUME NEW N, NEW d, Closed(N, d), NEW s \in N, s.nt = "Scope",
         NEW k \in 1 .. d, PP!Low(s, k),
         NEW j \in {k, k - 1}, j \in 1 .. d \/ j = k - 1
  PROVE  Scoped(PlacesOf(N, d), s, j)
<1>1. d \in Nat /\ k \in Nat /\ P!Shaped(s)
  BY DEF Closed
<1>2. Len(s.kids) \in Nat /\ \A i \in 1 .. Len(s.kids) : s.kids[i].nt \in P!StmtKinds
  BY <1>1 DEF P!Shaped, P!Arity, P!Slot, P!Kinds, P!Operators, P!Specials, P!Keywords
<1>3. ASSUME NEW i \in 1 .. Len(s.kids)
      PROVE  <<"stmt", s.kids[i], j>> \in PlacesOf(N, d)
  <2>1. /\ s.kids[i] \in N /\ PP!Low(s.kids[i], k - 1) /\ k - 1 \in 1 .. d
        /\ s.kids[i].nt \in P!StmtKinds
    BY <1>2, KidPlace
  <2>2. j \in 1 .. d /\ j \in Nat /\ k - 1 <= j
    BY <1>1, <2>1
  <2>3. PP!Low(s.kids[i], j)
    BY <2>1, <2>2, ParserTaken, PP!LowWiden
  <2> QED BY <1>1, <2>1, <2>2, <2>3, PlaceIs
<1> QED BY <1>2, <1>3 DEF Scoped

(* What the shape of a node says of its children.                          *)
LEMMA KidsOfKind ==
  ASSUME NEW m, P!Shaped(m)
  PROVE  /\ m.nt \in {"BinExpr", "Asgn", "VarDef", "If"} => Len(m.kids) = 2
         /\ m.nt = "Exit" => Len(m.kids) = 1
         /\ m.nt = "For" => Len(m.kids) = 3
         /\ m.nt = "Decl" => Len(m.kids) \in {2, 3}
         /\ m.nt = "BinExpr" => m.kids[1].nt \in P!ExprKinds /\ m.kids[2].nt \in P!ExprKinds
         /\ m.nt \in {"Exit", "If"} => m.kids[1].nt \in P!ExprKinds
         /\ m.nt \in {"Asgn", "VarDef", "For"} => m.kids[2].nt \in P!ExprKinds
         /\ m.nt = "VarDef" => m.kids[1].nt = "Decl"
         /\ m.nt = "For" => m.kids[1].nt = "VarDef" /\ m.kids[3].nt = "Scope"
         /\ m.nt = "If" => m.kids[2].nt = "Scope"
<1>1. m.nt \notin P!Kinds \/ m.nt \notin {"BinExpr", "Asgn", "VarDef", "If", "Exit",
                                           "For", "Decl"}
  BY DEF P!Kinds, P!Operators, P!Specials, P!Keywords
<1>2. /\ Len(m.kids) \in P!Arity(m.nt)
      /\ \A i \in 1 .. Len(m.kids) : m.kids[i].nt \in P!Slot(m.nt, i)
  BY DEF P!Shaped
<1>3. /\ m.nt \in {"BinExpr", "Asgn", "VarDef", "If"} => P!Arity(m.nt) = {2}
      /\ m.nt = "Exit" => P!Arity(m.nt) = {1}
      /\ m.nt = "For" => P!Arity(m.nt) = {3}
      /\ m.nt = "Decl" => P!Arity(m.nt) = {2, 3}
  BY <1>1 DEF P!Arity
<1>4. /\ m.nt \in {"BinExpr", "Asgn", "VarDef", "If"} => Len(m.kids) = 2
      /\ m.nt = "Exit" => Len(m.kids) = 1
      /\ m.nt = "For" => Len(m.kids) = 3
      /\ m.nt = "Decl" => Len(m.kids) \in {2, 3}
  BY <1>2, <1>3
<1>5. /\ Len(m.kids) \in {1, 2, 3} => m.kids[1].nt \in P!Slot(m.nt, 1)
      /\ Len(m.kids) \in {2, 3} => m.kids[2].nt \in P!Slot(m.nt, 2)
      /\ Len(m.kids) = 3 => m.kids[3].nt \in P!Slot(m.nt, 3)
  BY <1>2
<1> QED BY <1>4, <1>5 DEF P!Slot

LEMMA TreeReadable ==
  ASSUME NEW N, NEW d, Closed(N, d)
  PROVE  Readable(N, PlacesOf(N, d), d)
<1> DEFINE Q == PlacesOf(N, d)
           doc == [nodes |-> N, places |-> Q]
<1>1. d \in Nat
  BY DEF Closed
<1>2. doc.nodes = N /\ doc.places = Q
  OBVIOUS
<1> SUFFICES ASSUME NEW as, NEW m, NEW k, <<as, m, k>> \in Q
             PROVE  as \in {"expr", "stmt"} /\ k \in 1 .. d /\ Legible(doc, as, m, k)
  BY <1>1 DEF Readable
<1>3. /\ as \in {"expr", "stmt"} /\ m \in N /\ k \in 1 .. d /\ PP!Low(m, k)
      /\ as = "expr" => m.nt \in P!ExprKinds
      /\ as = "stmt" => m.nt \in P!StmtKinds
  BY <1>1, PlaceIs
<1>4. k \in Nat \ {0} /\ P!Shaped(m)
  BY <1>1, <1>3 DEF Closed
<1> HIDE DEF doc, Q
<1>5. ASSUME NEW i \in 1 .. Len(m.kids)
      PROVE  /\ m.kids[i] \in N /\ PP!Low(m.kids[i], k - 1) /\ k - 1 \in 1 .. d
             /\ m.kids[i].nt \in P!ExprKinds => <<"expr", m.kids[i], k - 1>> \in Q
             /\ m.kids[i].nt \in P!StmtKinds => <<"stmt", m.kids[i], k - 1>> \in Q
  BY <1>3, KidPlace DEF Q
<1>6. ASSUME NEW c \in N, c.nt = "Decl" PROVE DeclReady(N, c)
  <2>1. P!Shaped(c) /\ P!Kids(c) \subseteq N
    BY DEF Closed
  <2>2. Len(c.kids) \in {2, 3}
    BY <1>6, <2>1, KidsOfKind
  <2>3. 1 \in 1 .. Len(c.kids) /\ Len(c.kids) \in 1 .. Len(c.kids)
    BY <2>2
  <2> QED BY <2>1, <2>3 DEF DeclReady, P!Kids
<1>7. ASSUME NEW i \in 1 .. Len(m.kids), m.kids[i].nt = "Scope"
      PROVE  Scoped(Q, m.kids[i], k - 1)
  <2>1. m.kids[i] \in N /\ PP!Low(m.kids[i], k - 1) /\ k - 1 \in 1 .. d
    BY <1>5
  <2> QED BY <1>7, <2>1, ScopePlaces DEF Q
<1>8. ASSUME m.nt = "BinExpr" PROVE Ready(doc, "BinExpr", m, k - 1)
  <2>1. 1 \in 1 .. Len(m.kids) /\ 2 \in 1 .. Len(m.kids)
    BY <1>4, <1>8, KidsOfKind
  <2>2. m.kids[1].nt \in P!ExprKinds /\ m.kids[2].nt \in P!ExprKinds
    BY <1>4, <1>8, KidsOfKind
  <2> QED BY <1>2, <1>3, <1>5, <2>1, <2>2 DEF Ready
<1>9. ASSUME m.nt = "Exit" PROVE Ready(doc, m.nt, m, k - 1)
  <2>1. 1 \in 1 .. Len(m.kids) /\ m.kids[1].nt \in P!ExprKinds
    BY <1>4, <1>9, KidsOfKind
  <2> QED BY <1>2, <1>5, <1>9, <2>1 DEF Ready
<1>10. ASSUME m.nt = "Asgn" PROVE Ready(doc, m.nt, m, k - 1)
  <2>1. 1 \in 1 .. Len(m.kids) /\ 2 \in 1 .. Len(m.kids) /\ m.kids[2].nt \in P!ExprKinds
    BY <1>4, <1>10, KidsOfKind
  <2> QED BY <1>2, <1>5, <1>10, <2>1 DEF Ready
<1>11. ASSUME m.nt = "Decl" PROVE Ready(doc, m.nt, m, k - 1)
  BY <1>2, <1>3, <1>6, <1>11 DEF Ready
<1>12. ASSUME m.nt = "VarDef" PROVE Ready(doc, m.nt, m, k - 1)
  <2>1. /\ 1 \in 1 .. Len(m.kids) /\ 2 \in 1 .. Len(m.kids)
        /\ m.kids[2].nt \in P!ExprKinds /\ m.kids[1].nt = "Decl"
    BY <1>4, <1>12, KidsOfKind
  <2>2. DeclReady(N, m.kids[1]) /\ <<"expr", m.kids[2], k - 1>> \in Q
    BY <1>5, <1>6, <2>1
  <2> QED BY <1>2, <1>12, <2>2 DEF Ready
<1>13. ASSUME m.nt = "For" PROVE Ready(doc, m.nt, m, k - 1)
  <2>1. /\ 1 \in 1 .. Len(m.kids) /\ 2 \in 1 .. Len(m.kids) /\ 3 \in 1 .. Len(m.kids)
        /\ m.kids[2].nt \in P!ExprKinds /\ m.kids[1].nt = "VarDef"
        /\ m.kids[3].nt = "Scope"
    BY <1>4, <1>13, KidsOfKind
  <2>2. <<"expr", m.kids[2], k - 1>> \in Q /\ m.kids[1] \in N
    BY <1>5, <2>1
  <2>3. DeclReady(N, m.kids[1].kids[1])
    <3> DEFINE v == m.kids[1]
    <3>1. v \in N /\ v.nt = "VarDef"
      BY <2>1, <2>2
    <3> HIDE DEF v
    <3>2. P!Shaped(v) /\ P!Kids(v) \subseteq N
      BY <3>1 DEF Closed
    <3>3. 1 \in 1 .. Len(v.kids) /\ v.kids[1].nt = "Decl"
      BY <3>1, <3>2, KidsOfKind
    <3>4. v.kids[1] \in N
      BY <3>2, <3>3 DEF P!Kids
    <3>5. DeclReady(N, v.kids[1])
      BY <1>6, <3>3, <3>4
    <3> QED BY <3>5 DEF v
  <2>4. Scoped(Q, m.kids[3], k - 1)
    BY <1>7, <2>1
  <2> QED BY <1>2, <1>13, <2>2, <2>3, <2>4 DEF Ready
<1>14. ASSUME m.nt = "Scope" PROVE Ready(doc, m.nt, m, k - 1)
  <2>1. Scoped(Q, m, k - 1)
    BY <1>3, <1>14, ScopePlaces DEF Q
  <2> QED BY <1>2, <1>14, <2>1 DEF Ready
<1>15. ASSUME m.nt = "If" PROVE Ready(doc, m.nt, m, k - 1)
  <2>1. /\ 1 \in 1 .. Len(m.kids) /\ 2 \in 1 .. Len(m.kids)
        /\ m.kids[1].nt \in P!ExprKinds /\ m.kids[2].nt = "Scope"
    BY <1>4, <1>15, KidsOfKind
  <2>2. <<"expr", m.kids[1], k - 1>> \in Q /\ Scoped(Q, m.kids[2], k - 1)
    BY <1>5, <1>7, <2>1
  <2> QED BY <1>2, <1>15, <2>2 DEF Ready
<1>16. CASE as = "expr"
  <2>1. m.nt \in {"NUMLIT", "ID"} => Ready(doc, "Term", m, k - 1)
    BY <1>2, <1>3 DEF Ready
  <2>2. m.nt \in {"NUMLIT", "ID", "BinExpr", "Interval", "Asgn", "Call"}
    BY <1>3, <1>16 DEF P!ExprKinds
  <2> QED BY <1>2, <1>3, <1>4, <1>8, <1>16, <2>1, <2>2 DEF Legible
<1>17. CASE as = "stmt"
  <2>1. m.nt \in {"Exit", "Asgn", "Decl", "VarDef", "For", "Scope", "If", "While",
                  "FunDecl", "FunDef", "Call"}
    BY <1>3, <1>17 DEF P!StmtKinds
  <2>2. m.nt \in Parts => Ready(doc, m.nt, m, k - 1)
    BY <1>9, <1>10, <1>11, <1>12, <1>13, <1>14, <1>15, <2>1 DEF Parts
  <2> QED BY <1>2, <1>3, <1>4, <1>17, <2>1, <2>2 DEF Legible
<1> QED BY <1>3, <1>16, <1>17
(* The state of the writer, its nodes and their depth being N and d.       *)
Writing(N, d) ==
  \E doc : /\ WellRead(doc) /\ Document(N, d) \in Texts(Ats(doc.nodes))
           /\ Whole(doc, Document(N, d), jw, todo, json)

OfTree(N, d) == N = NodesOf(Tree, Len(Tokens)) /\ d = Len(Tokens)

LEMMA WritingIs == \A N, d : OfTree(N, d) /\ Writing(N, d) => AstWholeOrCut
<1> SUFFICES ASSUME NEW N, NEW d, OfTree(N, d), Writing(N, d) PROVE AstWholeOrCut
  OBVIOUS
<1>1. PICK doc : Whole(doc, Document(N, d), jw, todo, json)
  BY DEF Writing
<1>2. WholeOrCut(N, d)
  BY <1>1, WholeIs
<1> QED BY <1>2 DEF OfTree, AstWholeOrCut, NodesOf

LEMMA WritingIsNext == (\A N, d : OfTree(N, d) /\ Writing(N, d) => AstWholeOrCut)'
BY WritingIs, PTL

(* A tree the writer is given can be written.                              *)
OutputBegins ==
  \A tree, N, d, places :
    /\ Readable(N, places, d) /\ Len(tree) \in Nat
    /\ \A i \in 1 .. Len(tree) : <<"stmt", tree[i], d>> \in places
    /\ Tree = tree /\ todo = RootCalls(tree) /\ jw = jwOpen /\ json = <<>>
    => Writing(N, d)

LEMMA OutputBeginsNow == OutputBegins
<1> SUFFICES ASSUME NEW tree, NEW N, NEW d, NEW places,
                    Readable(N, places, d), Len(tree) \in Nat,
                    \A i \in 1 .. Len(tree) : <<"stmt", tree[i], d>> \in places,
                    Tree = tree, todo = RootCalls(tree), jw = jwOpen, json = <<>>
             PROVE  Writing(N, d)
  BY DEF OutputBegins
<1>1. PICK doc : /\ WellRead(doc) /\ Document(N, d) \in Texts(Ats(doc.nodes))
                 /\ RootRun(doc, RootCalls(tree), Document(N, d))
  BY DocumentIs
<1>2. PICK x : x = Document(N, d)
  OBVIOUS
<1>3. Whole(doc, x, jwOpen, RootCalls(tree), <<>>)
  BY <1>1, <1>2, InitWhole
<1>4. Whole(doc, Document(N, d), jw, todo, json)
  BY <1>2, <1>3
<1> QED BY <1>1, <1>4 DEF Writing

LEMMA OutputBeginsNext == OutputBegins'
BY OutputBeginsNow, PTL

LEMMA WritingGoesOn == \A N, d : Writing(N, d) /\ [Next]_vars => Writing(N, d)'
<1> SUFFICES ASSUME NEW N, NEW d, Writing(N, d), [Next]_vars PROVE Writing(N, d)'
  OBVIOUS
<1>1. PICK doc : /\ WellRead(doc) /\ Document(N, d) \in Texts(Ats(doc.nodes))
                 /\ Whole(doc, Document(N, d), jw, todo, json)
  BY DEF Writing
<1>2. PICK x : x = Document(N, d)
  OBVIOUS
<1>3. Whole(doc, x, jw', todo', json')
  BY <1>1, <1>2, NextWhole
<1>4. Tree' = Tree
  BY DEF Next, OutputNode, CallWriter, WriteFile, Halt, vars
<1>5. Document(N, d)' = x
  BY <1>2, <1>4 DEF Document
<1> QED BY <1>1, <1>2, <1>3, <1>5 DEF Writing
AstInv ==
  /\ at \in {"lex", "parse"} => jw = jwOpen /\ json = <<>>
  /\ at = "ast" => \E N, d : OfTree(N, d) /\ Writing(N, d)
  /\ AstWholeOrCut

LEMMA InitAst == CompInit => AstInv
<1> SUFFICES ASSUME CompInit PROVE AstInv
  OBVIOUS
<1>1. at = "lex" /\ jw = jwOpen /\ json = <<>>
  BY DEF CompInit, Init
<1> QED BY <1>1 DEF AstInv, AstWholeOrCut, WholeOrCut

(* OutputAST is called with what the parser has returned.                  *)
LEMMA ParsedAst ==
  ASSUME Handed, AstInv, Parsed, parsectl = "node",
         at' = "ast", Tree' = val.kids, todo' = RootCalls(val.kids)
  PROVE  \E N, d : OfTree(N, d)' /\ Writing(N, d)'
<1>1. /\ at = "parse" /\ frames = <<>> /\ Tokens' = Tokens /\ Tokens \in Seq(P!Kinds)
      /\ jw' = jwOpen /\ json' = <<>>
  BY DEF Parsed, P!Stopped, parsevars, AstInv, Handed
<1>2. Parsing
  BY <1>1 DEF Handed
<1>3. PICK tree : tree = val.kids
  OBVIOUS
<1>4. PICK d : d = Len(Tokens)
  OBVIOUS
<1>5. PICK N : N = NodesOf(tree, d)
  OBVIOUS
<1>6. /\ \E S : tree \in Seq(S)
      /\ \A i \in 1 .. Len(tree) :
           /\ tree[i].nt \in PP!StmtKinds
           /\ \A e \in Nat : \A m \in PP!Within(tree[i], e) : PP!Shaped(m)
  BY <1>1, <1>2, <1>3, ParserTaken, PP!RootStatements DEF Parsing
<1>7. \A i \in 1 .. Len(tree) : PP!Low(tree[i], d)
  BY <1>1, <1>2, <1>3, <1>4, ParserTaken, PP!RootDepth DEF Parsing
<1>8. /\ d \in Nat
      /\ \A i \in 1 .. Len(tree) :
           /\ tree[i].nt \in P!StmtKinds
           /\ \A e \in Nat : \A m \in P!Within(tree[i], e) : P!Shaped(m)
           /\ PP!Low(tree[i], d)
  BY <1>1, <1>4, <1>6, <1>7, SameParser
<1>9. /\ Closed(N, d)
      /\ \A i \in 1 .. Len(tree) : tree[i] \in N /\ d \in 1 .. d
  BY <1>5, <1>8, TreeClosed
<1>10. Readable(N, PlacesOf(N, d), d)
  BY <1>9, TreeReadable
<1>11. \A i \in 1 .. Len(tree) : <<"stmt", tree[i], d>> \in PlacesOf(N, d)
  BY <1>8, <1>9, PlaceIs
<1>12. Len(tree) \in Nat
  BY <1>6
<1>13. Writing(N, d)'
  BY <1>1, <1>3, <1>10, <1>11, <1>12, OutputBeginsNext DEF OutputBegins
<1>14. OfTree(N, d)'
  BY <1>1, <1>3, <1>4, <1>5 DEF OfTree
<1> QED BY <1>13, <1>14

(* Nothing but OutputAST writes the file or changes the tree of it.        *)
LEMMA AstKept ==
  ASSUME AstWholeOrCut, UNCHANGED <<Tree, Tokens, json>>
  PROVE  AstWholeOrCut'
BY DEF AstWholeOrCut, WholeOrCut, Document

LEMMA NextAst == Handed /\ AstInv /\ [CompNext]_compvars => AstInv'
<1> SUFFICES ASSUME Handed, AstInv, [CompNext]_compvars PROVE AstInv'
  OBVIOUS
<1>1. (json = <<>>)' => AstWholeOrCut'
  BY DEF AstWholeOrCut, WholeOrCut
<1>2. CASE Lex \/ Tokenized \/ Parse
  <2>1. /\ jw' = jwOpen /\ json' = <<>> /\ at' # "ast"
    BY <1>2 DEF Lex, Tokenized, Parse, AstInv, Goto, Exit, Crash, astvars, vars
  <2> QED BY <1>1, <2>1 DEF AstInv
<1>3. CASE Parsed
  <2>1. jw' = jwOpen /\ json' = <<>>
    BY <1>3 DEF Parsed, AstInv
  <2>2. ASSUME at' = "ast" PROVE \E N, d : OfTree(N, d)' /\ Writing(N, d)'
    BY <1>3, <2>2, ParsedAst DEF Parsed, Goto, Exit, Crash
  <2> QED BY <1>1, <2>1, <2>2 DEF AstInv
<1>4. CASE OutputAST
  <2>1. at = "ast" /\ at' = at /\ Next /\ UNCHANGED parsevars
    BY <1>4 DEF OutputAST
  <2>2. PICK N, d : OfTree(N, d) /\ Writing(N, d)
    BY <2>1 DEF AstInv
  <2>3. Tree' = Tree /\ Tokens' = Tokens
    BY <2>1 DEF Next, OutputNode, CallWriter, WriteFile, Halt, vars, parsevars
  <2>4. Writing(N, d)'
    BY <2>1, <2>2, WritingGoesOn
  <2>5. OfTree(N, d)'
    BY <2>2, <2>3 DEF OfTree
  <2>6. AstWholeOrCut'
    BY <2>4, <2>5, WritingIsNext
  <2> QED BY <2>1, <2>4, <2>5, <2>6 DEF AstInv
<1>5. CASE OutputDone \/ Generate \/ GenerateDone \/ WriteAsm \/ Nasm \/ Ld \/ Cleanup \/ Run
  <2>1. /\ UNCHANGED <<Tree, Tokens, json>>
        /\ at' \notin {"lex", "parse", "ast"}
    BY <1>5 DEF OutputDone, Generate, GenerateDone, WriteAsm, Nasm, Ld, Cleanup, Run,
                Goto, Exit, Crash, parsevars, astvars, vars
  <2>2. AstWholeOrCut'
    BY <2>1, AstKept DEF AstInv
  <2> QED BY <2>1, <2>2 DEF AstInv
<1>6. CASE UNCHANGED compvars
  <2>1. /\ UNCHANGED <<at, Tree, Tokens, json>> /\ UNCHANGED vars /\ jw' = jw
    BY <1>6 DEF compvars, parsevars, astvars, vars
  <2>2. AstWholeOrCut'
    BY <2>1, AstKept DEF AstInv
  <2>3. ASSUME at = "ast" PROVE \E N, d : OfTree(N, d)' /\ Writing(N, d)'
    <3>1. PICK N, d : OfTree(N, d) /\ Writing(N, d)
      BY <2>3 DEF AstInv
    <3>2. Writing(N, d)'
      BY <2>1, <3>1, WritingGoesOn
    <3>3. OfTree(N, d)'
      BY <2>1, <3>1 DEF OfTree
    <3> QED BY <3>2, <3>3
  <2> QED BY <2>1, <2>2, <2>3 DEF AstInv
<1> QED BY <1>2, <1>3, <1>4, <1>5, <1>6 DEF CompNext, CompHalt

(* AstWholeOrCut for every source and every capacity of the writer: what   *)
(* bin/ast.json holds is the document of the tree or, where the writer     *)
(* came to the end of its buffer or of its stack, the beginning of it.     *)
THEOREM AstWholeOrCutAlways == CompSpec => []AstWholeOrCut
<1>1. AstInv => AstWholeOrCut
  BY DEF AstInv
<1> QED BY InitHanded, NextHanded, InitAst, NextAst, <1>1, PTL DEF CompSpec
=============================================================================
