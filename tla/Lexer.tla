-------------------------------- MODULE Lexer --------------------------------
(***************************************************************************)
(* The lexer of neolang: src/lexer/lexer.c (the character cursor and its   *)
(* line and column) and Tokenize of src/lexer/tokenize.c.                  *)
(*                                                                         *)
(* A character is a model of its class: "blank" and "nl" are the isspace   *)
(* characters, "DOLLAR" opens a comment, "QUOTE" a string literal, and     *)
(* "odd" is every character no test of Tokenize asks for.  Letters (with   *)
(* '_'), Digits, SPECIAL_SYMBOLS and OPERATORS are sets of characters;     *)
(* words of KEYWORDS and BITYPES are sequences of them.                    *)
(***************************************************************************)
EXTENDS Integers, Sequences, FiniteSets

CONSTANTS
  Sources,                    \* the source texts Tokenize may be given
  Letters, Digits,
  SPECIAL_SYMBOLS, OPERATORS, \* the special symbols without '.'
  KEYWORDS, BITYPES,          \* sets of words
  MAX_TOKENS,                 \* capacity of the array Tokens
  MAX_LIT_CHARS               \* capacity of NumLit, StrLit and Ident

Spaces == {"blank", "nl"}
Chars  == Letters \cup Digits \cup SPECIAL_SYMBOLS \cup OPERATORS \cup Spaces
            \cup {"DOLLAR", "QUOTE", "DOT", "odd"}

Reserved == Spaces \cup {"DOLLAR", "QUOTE", "DOT", "odd", "NUL"}
Classes  == <<Letters, Digits, SPECIAL_SYMBOLS, OPERATORS, Reserved>>

ASSUME LexerAssumption ==
  /\ Sources \subseteq Seq(Chars)
  /\ MAX_TOKENS \in Nat
  /\ MAX_LIT_CHARS \in Nat \ {0}
  /\ \A i, j \in DOMAIN Classes : i # j => Classes[i] \cap Classes[j] = {}

VARIABLES
  Source,      \* the source text
  Index,       \* how many of its characters have been consumed
  Line,        \* of the next character, from 1
  Column,      \* of the next character, from 1
  Tokens,      \* the tokens stored so far
  pc,          \* where Tokenize is: see States
  start,       \* Index when the literal or word being read began
  HasDecimal   \* the numeric literal being read has its '.'

vars == <<Source, Index, Line, Column, Tokens, pc, start, HasDecimal>>

(* "loop": the head of the loop.  "sign": one '$' read.  "line", "block":  *)
(* within a comment.                                                       *)
(* "body": the chain of tests on the next character.  "num", "str",        *)
(* "word": within a literal.  "out": returned.  "exit": RUNTIME_ERR.       *)
(* "overrun": memory beyond a literal's buffer overwritten.                *)
States == {"loop", "sign", "line", "block", "body", "num", "str", "word",
           "out", "exit", "overrun"}

(* The characters of the string Source, which ends in '\0'.                *)
CharAt(i) == IF i <= Len(Source) THEN Source[i] ELSE "NUL"

PeekChar == CharAt(Index + 1)

(* Names that begin with Bug are wrong versions of the definition below     *)
(* them: each shows that some property of this module can fail.            *)
BugConsumeChar ==                  \* the column is not reset
  /\ Index' = Index + 1
  /\ \/ PeekChar = "nl" /\ Line' = Line + 1
     \/ PeekChar # "nl" /\ Line' = Line
  /\ Column' = Column + 1

ConsumeChar ==
  /\ Index' = Index + 1
  /\ \/ PeekChar = "nl" /\ Line' = Line + 1 /\ Column' = 1
     \/ PeekChar # "nl" /\ Line' = Line /\ Column' = Column + 1

GetLine   == Line
GetColumn == Column

TokenRecords ==
  [type : {"_SPEC", "_OP", "_NUMLIT", "_STRLIT", "_ID", "_KEY", "_BITYPE"},
   sub : Chars \cup {"NUL", "INT", "FLOAT", "NONE"},
   at : Nat, to : Nat, line : Nat, column : Nat]

(* A token, with the positions of its first and last character in Source.  *)
Token(type, sub, at, to, line, column) ==
  [type |-> type, sub |-> sub, at |-> at, to |-> to,
   line |-> line, column |-> column]

Store(t) == Tokens' = Append(Tokens, t)

cursor == <<Index, Line, Column>>

-----------------------------------------------------------------------------
(* InitLexer, and the call of Tokenize by main with TokenCount zero.       *)
Init ==
  /\ Source \in Sources
  /\ Index = 0
  /\ Line = 1
  /\ Column = 1
  /\ Tokens = <<>>
  /\ pc = "loop"
  /\ start = 0
  /\ HasDecimal = FALSE

BugFull == Len(Tokens) > MAX_TOKENS
Full    == Len(Tokens) >= MAX_TOKENS

(* while (PeekChar(0)): the capacity is tested on every turn of the loop,  *)
(* whether or not a token follows.                                         *)
TooManyTokens ==
  /\ pc = "loop" /\ PeekChar # "NUL"
  /\ Full
  /\ pc' = "exit"
  /\ UNCHANGED <<Source, cursor, Tokens, start, HasDecimal>>

LoopHead ==
  /\ pc = "loop" /\ PeekChar \notin {"NUL", "DOLLAR"}
  /\ ~Full
  /\ pc' = "body"
  /\ UNCHANGED <<Source, cursor, Tokens, start, HasDecimal>>

(* TryConsumeChar('$'), and again: "$$" comments to the end of the line,   *)
(* "$" to the next "$".                                                    *)
FirstSign ==
  /\ pc = "loop" /\ PeekChar = "DOLLAR"
  /\ ~Full
  /\ ConsumeChar
  /\ pc' = "sign"
  /\ UNCHANGED <<Source, Tokens, start, HasDecimal>>

SecondSign ==
  /\ pc = "sign"
  /\ \/ PeekChar = "DOLLAR" /\ ConsumeChar /\ pc' = "line"
     \/ PeekChar # "DOLLAR" /\ pc' = "block" /\ UNCHANGED cursor
  /\ UNCHANGED <<Source, Tokens, start, HasDecimal>>

BugClosing == "DOLLAR"
Closing == IF pc = "line" THEN "nl" ELSE "DOLLAR"

BugCommentChar ==                  \* does not ask whether the source ends
  /\ pc \in {"line", "block"}
  /\ ConsumeChar
  /\ pc' = IF PeekChar = Closing THEN "body" ELSE pc
  /\ UNCHANGED <<Source, Tokens, start, HasDecimal>>

(* After a comment the same turn of the loop goes on with whatever         *)
(* character is next, the end of the source included.                      *)
CommentChar ==
  /\ pc \in {"line", "block"}
  /\ \/ PeekChar = "NUL" /\ pc' = "body" /\ UNCHANGED cursor
     \/ PeekChar = Closing /\ ConsumeChar /\ pc' = "body"
     \/ PeekChar \notin {"NUL", Closing} /\ ConsumeChar /\ UNCHANGED pc
  /\ UNCHANGED <<Source, Tokens, start, HasDecimal>>

BugDropChar ==                     \* an unknown character is not consumed
  /\ pc = "body"
  /\ PeekChar \in Spaces \cup {"odd", "DOLLAR"}
  /\ IF PeekChar \in Spaces THEN ConsumeChar ELSE UNCHANGED cursor
  /\ pc' = "loop"
  /\ UNCHANGED <<Source, Tokens, start, HasDecimal>>

(* isspace, or no test succeeded: the character is dropped.  ('$' is the   *)
(* latter when it follows a comment.)                                      *)
DropChar ==
  /\ pc = "body"
  /\ PeekChar \in Spaces \cup {"odd", "DOLLAR"}
  /\ ConsumeChar
  /\ pc' = "loop"
  /\ UNCHANGED <<Source, Tokens, start, HasDecimal>>

(* strchr() also finds the '\0' that ends SPECIAL_SYMBOLS.                 *)
Specials == SPECIAL_SYMBOLS \cup {"DOT", "NUL"}

(* A special symbol or an operator; its position is where it stands.       *)
Symbol ==
  /\ pc = "body"
  /\ PeekChar \in Specials \cup OPERATORS
  /\ LET type == IF PeekChar \in Specials THEN "_SPEC" ELSE "_OP"
     IN  Store(Token(type, PeekChar, Index + 1, Index + 1, GetLine, GetColumn))
  /\ ConsumeChar
  /\ pc' = "loop"
  /\ UNCHANGED <<Source, start, HasDecimal>>

BugStartLiteral ==                 \* the length of the last literal is kept
  /\ pc = "body"
  /\ \/ PeekChar \in Digits /\ pc' = "num" /\ UNCHANGED cursor
     \/ PeekChar \in Letters /\ pc' = "word" /\ UNCHANGED cursor
     \/ PeekChar = "QUOTE" /\ ConsumeChar /\ pc' = "str"
  /\ HasDecimal' = FALSE
  /\ UNCHANGED <<Source, Tokens, start>>

StartLiteral ==
  /\ pc = "body"
  /\ \/ PeekChar \in Digits /\ pc' = "num" /\ UNCHANGED cursor
     \/ PeekChar \in Letters /\ pc' = "word" /\ UNCHANGED cursor
     \/ PeekChar = "QUOTE" /\ ConsumeChar /\ pc' = "str"
  /\ start' = Index'
  /\ HasDecimal' = FALSE
  /\ UNCHANGED <<Source, Tokens>>

BugInLiteral ==                    \* no digits within words
  \/ pc = "num"  /\ PeekChar \in Digits \cup {"DOT"}
  \/ pc = "str"  /\ PeekChar \notin {"NUL", "QUOTE"}
  \/ pc = "word" /\ PeekChar \in Letters

(* The conditions of the three inner loops.                                *)
InLiteral ==
  \/ pc = "num"  /\ PeekChar \in Digits \cup {"DOT"}
  \/ pc = "str"  /\ PeekChar \notin {"NUL", "QUOTE"}
  \/ pc = "word" /\ PeekChar \in Letters \cup Digits

LitLen == Index - start

SecondDecimal == pc = "num" /\ PeekChar = "DOT" /\ HasDecimal

LiteralTooLong ==
  /\ InLiteral
  /\ LitLen >= MAX_LIT_CHARS
  /\ pc' = "exit"
  /\ UNCHANGED <<Source, cursor, Tokens, start, HasDecimal>>

LiteralChar ==
  /\ InLiteral /\ ~SecondDecimal
  /\ LitLen < MAX_LIT_CHARS
  /\ ConsumeChar
  /\ HasDecimal' = (HasDecimal \/ (pc = "num" /\ PeekChar = "DOT"))
  /\ UNCHANGED <<Source, Tokens, pc, start>>

(* The terminating '\0' is written at LitLen.  A literal that fills its    *)
(* buffer is terminated beyond it: what is there, if anything, is lost.    *)
EndOfLiteral ==
  /\ pc \in {"num", "str", "word"}
  /\ ~InLiteral \/ (SecondDecimal /\ LitLen < MAX_LIT_CHARS)

Overrun ==
  /\ EndOfLiteral
  /\ LitLen >= MAX_LIT_CHARS
  /\ pc' = "overrun"
  /\ UNCHANGED <<Source, cursor, Tokens, start, HasDecimal>>

(* A literal's position is read after its last character.                  *)
Number ==
  /\ pc = "num" /\ EndOfLiteral
  /\ Store(Token("_NUMLIT", IF HasDecimal THEN "FLOAT" ELSE "INT",
                 start + 1, Index, GetLine, GetColumn))
  /\ pc' = "loop"
  /\ UNCHANGED <<Source, cursor, start, HasDecimal>>

(* The closing quote is consumed whether or not it is there.               *)
StringLiteral ==
  /\ pc = "str" /\ EndOfLiteral
  /\ ConsumeChar
  /\ Store(Token("_STRLIT", "NONE", start, Index + 1, Line', Column'))
  /\ pc' = "loop"
  /\ UNCHANGED <<Source, start, HasDecimal>>

(* Identifier, keyword or built-in type: strcmp() with each whole word.    *)
WordType(w) ==
  IF w \in BITYPES THEN "_BITYPE" ELSE IF w \in KEYWORDS THEN "_KEY" ELSE "_ID"

Word ==
  /\ pc = "word" /\ EndOfLiteral
  /\ Store(Token(WordType(SubSeq(Source, start + 1, Index)), "NONE",
                 start + 1, Index, GetLine, GetColumn))
  /\ pc' = "loop"
  /\ UNCHANGED <<Source, cursor, start, HasDecimal>>

(* The end of the source: the tokens are copied out.                       *)
Finish ==
  /\ pc = "loop" /\ PeekChar = "NUL"
  /\ pc' = "out"
  /\ UNCHANGED <<Source, cursor, Tokens, start, HasDecimal>>

Stopped == pc \in {"out", "exit", "overrun"}
Halt    == Stopped /\ UNCHANGED vars

Next ==
  \/ TooManyTokens \/ LoopHead \/ FirstSign \/ SecondSign \/ CommentChar
  \/ DropChar \/ Symbol \/ StartLiteral
  \/ LiteralTooLong \/ LiteralChar \/ Overrun
  \/ Number \/ StringLiteral \/ Word
  \/ Finish \/ Halt

Spec == Init /\ [][Next]_vars

(* One thread, never kept from its next step.                              *)
FairSpec == Spec /\ WF_vars(Next)

-----------------------------------------------------------------------------
(* Types, and how far the cursor can go: one character past the end, the   *)
(* '\0' that a comment or a string literal at the end makes it consume.    *)
TypeOK ==
  /\ Source \in Seq(Chars)
  /\ Index \in 0 .. Len(Source) + 1
  /\ Line \in Nat \ {0} /\ Column \in Nat \ {0}
  /\ Tokens \in Seq(TokenRecords)
  /\ pc \in States
  /\ start \in Nat
  /\ HasDecimal \in BOOLEAN

(* The array Tokens is never written past its end: of all that one turn of *)
(* the loop may do after the test, only one store is ever done.            *)
TokensFit == Len(Tokens) <= MAX_TOKENS

(* Tokens lie in the source in their order, without overlap, and behind    *)
(* the cursor: no character is given to two tokens.                        *)
SpansInOrder ==
  \A k \in DOMAIN Tokens :
    /\ Tokens[k].at <= Tokens[k].to
    /\ Tokens[k].to <= Index
    /\ k > 1 => Tokens[k - 1].to < Tokens[k].at

(* Line l, column c is where the character after the first n stands.       *)
IsPosition(n, l, c) ==
  /\ l = 1 + Cardinality({i \in 1 .. n : CharAt(i) = "nl"})
  /\ c \in 1 .. n + 1
  /\ c <= n => CharAt(n + 1 - c) = "nl"
  /\ \A i \in n + 2 - c .. n : CharAt(i) # "nl"

(* Line and Column say where the cursor is, and the position of a token is *)
(* where a symbol stands and where a literal or a word has ended: error    *)
(* messages point into the right line through comments and multi-line      *)
(* strings.                                                                *)
PositionsRight ==
  /\ IsPosition(Index, Line, Column)
  /\ \A k \in DOMAIN Tokens :
       LET t == Tokens[k]
       IN  IsPosition(IF t.type \in {"_SPEC", "_OP"} THEN t.at - 1 ELSE t.to,
                      t.line, t.column)

(* Tokenize comes to an end on every source.                               *)
Terminates == <>Stopped
=============================================================================
