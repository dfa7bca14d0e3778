------------------------------ MODULE MCCompiler ------------------------------
(***************************************************************************)
(* Source texts for TLC to compile and run, character by character.        *)
(***************************************************************************)
EXTENDS CompilerReference

(* OutputAST has been given no tree yet.                                   *)
MCTrees == {<<>>}

MCDigits     == {"1", "2", "3", "4", "5", "7"}
MCDigitValue == [d \in MCDigits |->
  CASE d = "1" -> 1 [] d = "2" -> 2 [] d = "3" -> 3 [] d = "4" -> 4 [] d = "5" -> 5
    [] d = "7" -> 7]

MCSpelling == [exit |-> <<"e", "x", "i", "t">>, if |-> <<"i", "f">>,
               for |-> <<"f", "o", "r">>, while |-> <<"w", "h", "i", "l", "e">>,
               var |-> <<"v", "a", "r">>]
MCBitypes  == {<<"u">>}
MCLetters  == {"e", "x", "i", "t", "f", "o", "r", "w", "h", "l", "v", "a", "u", "y"}

(* What a build may have placed after OPINFOS.                             *)
MCWild == [Assoc |-> "right", Prec |-> 255]

Strings(alphabet, n) == UNION {[1 .. k -> alphabet] : k \in 0 .. n}
Join(chunks)         == FlattenSeq(chunks)

blank == <<"blank">>
exit  == MCSpelling["exit"] \o blank
semi  == <<"SEMI">>

(* Numbers differ from place to place, so that trees differ in value, but  *)
(* an exponent is 1.                                                       *)
Numbered(e) ==
  [i \in DOMAIN e |-> IF e[i] # "n" THEN e[i]
                      ELSE IF i > 1 /\ e[i - 1] = "^" THEN "1"
                      ELSE <<"5", "7", "3", "2", "4", "3", "5", "2", "4">>[i]]

(* `exit', an expression, and a semicolon.  The expression is of at most   *)
(* four characters, over three operators and parentheses, or over '<' and  *)
(* the operators without an entry of their own in OPINFOS, or of five that *)
(* begin as an expression does.                                            *)
Plain == {"n", "+", "*", "^", "LPAREN", "RPAREN"}
ExprTexts ==
  {exit \o Numbered(e) \o semi :
     e \in Strings(Plain, 4) \cup Strings({"n", "<", "#", "=", "~"}, 4)
             \cup {<< c >> \o d : c \in {"n", "LPAREN"}, d \in [1 .. 4 -> Plain]}}

-----------------------------------------------------------------------------
(* Statements, as lists of words.  An expression that begins with a name   *)
(* is taken for an assignment or a call, so these begin with a number.     *)
Decl(n)   == << <<"u">>, <<"COLON">>, << n >> >>
VarDecl   == << <<"u">>, <<"COLON">>, MCSpelling["var"] \o blank, <<"x">> >>
Is(e)     == << <<"=">> >> \o e
Exit_(e)  == << exit >> \o e
Block(ss) == << <<"LBRACE">> >> \o ss \o << <<"RBRACE">> >>
Stmt(s)   == s \o << semi >>
Op(n, op, x) == << << n >>, << op >>, << x >> >>
Keyed(k)  == << MCSpelling[k] \o blank >>

DefX    == Stmt(VarDecl \o Is(<< <<"3">> >>))
DefY    == Stmt(Decl("y") \o Is(Op("2", "*", "x")))
Declare == Stmt(Decl("y"))
Assign  == Stmt(<< <<"x">> >> \o Is(Op("7", "-", "x")))
Leave   == Stmt(Exit_(Op("1", "*", "x")))
Inner   == Stmt(Exit_(<< <<"x">>, <<"=">>, <<"2">> >>))
Test    == Stmt(Keyed("if") \o Op("2", "<", "x") \o Block(Leave))
Loop    == Stmt(Keyed("for") \o Decl("i") \o Is(<< <<"1">> >>) \o << <<"COLON">> >>
                  \o << <<"LBRACK">>, <<"1">>, <<"COMMA">>, <<"3">>, <<"RBRACK">> >>
                  \o Block(Stmt(<< <<"x">> >> \o Is(Op("1", "+", "i")))))
Count   == Stmt(Keyed("for") \o Decl("i") \o Is(<< <<"1">> >>)
                  \o << <<"COLON">>, <<"2">> >> \o Block(Assign))
Spin    == Stmt(Keyed("while") \o << <<"1">> >> \o Block(<<>>))
Nested  == Stmt(Block(Stmt(Block(Assign))))
Fun     == Stmt(Decl("y") \o << <<"LPAREN">>, <<"RPAREN">> >>)

Stmts == {DefX, DefY, Declare, Assign, Leave, Inner, Test, Loop, Count, Spin,
          Nested, Fun}

Drop(s, i) == SubSeq(s, 1, i - 1) \o SubSeq(s, i + 1, Len(s))

(* After a definition of x, one or two statements, and an exit; and one    *)
(* that lacks a word, or of which only a beginning is there.               *)
ProgramTexts ==
  {Join(DefX \o a \o Leave) : a \in Stmts}
    \cup {Join(DefX \o a \o b \o Leave) : a, b \in Stmts}
    \cup UNION {{Join(DefX \o Drop(a, i)) : i \in DOMAIN a} : a \in Stmts}
    \cup UNION {{Join(SubSeq(a, 1, i)) : i \in DOMAIN a} : a \in Stmts}

(* Longer expressions: of every operator, and with parentheses in          *)
(* different places.                                                       *)
ChainTexts ==
  {exit \o Numbered(<<"n", o1, "n", o2, "n", o3, "n">>) \o semi :
     o1, o2, o3 \in {"+", "*", "^", "<", "#", "=", "~"}} \cup
  {exit \o Numbered(e) \o semi : e \in
     UNION {{<<"n", o1, "n", o2, "n", o3, "n">>,
             <<"n", o1, "LPAREN", "n", o2, "n", "RPAREN", o3, "n">>,
             <<"n", o1, "n", o2, "LPAREN", "n", o3, "n", "RPAREN">>} :
              o1, o2, o3 \in {"+", "-", "*", "/", "^", "<"}}}

(* The file run.sh compiles, in the place of its number; comments.         *)
CommentTexts ==
  {<<"DOLLAR", "DOLLAR", "u", "nl", "nl">> \o exit \o <<"1", "3">> \o semi,
   exit \o <<"1", "DOLLAR", "x", "DOLLAR">> \o semi,
   exit \o <<"1">> \o semi \o <<"DOLLAR", "DOLLAR">>, <<>>}

MCSources == ExprTexts \cup ChainTexts \cup ProgramTexts \cup CommentTexts
=============================================================================
