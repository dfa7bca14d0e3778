--------------------------- MODULE LexerReference ---------------------------
(***************************************************************************)
(* What the lexer should answer, stated without its cursor: the division   *)
(* of a source into comments, words, numbers, strings and symbols, each as *)
(* long as it can be.  Where an item starts is the least set of places     *)
(* closed under "the next starts behind this one", not a recursion, so     *)
(* that LexerProofs can reason about it.                                   *)
(***************************************************************************)
EXTENDS Lexer

(* The first position from i on that holds c, or the '\0' after the source. *)
Find(c, i) == CHOOSE k \in i .. Len(Source) + 1 :
                /\ CharAt(k) \in {c, "NUL"}
                /\ \A m \in i .. k - 1 : CharAt(m) # c

(* What is written at i .. j; a word or a number ends where it is longest. *)
IsWord(i, j) == \A k \in i .. j : CharAt(k) \in Letters \cup Digits

IsNumber(i, j) ==
  /\ \A k \in i .. j : CharAt(k) \in Digits \cup {"DOT"}
  /\ \A k, m \in i .. j : CharAt(k) = "DOT" /\ CharAt(m) = "DOT" => k = m

WordEnd(i)   == CHOOSE j \in i .. Len(Source) : IsWord(i, j) /\ ~IsWord(i, j + 1)
NumberEnd(i) == CHOOSE j \in i .. Len(Source) : IsNumber(i, j) /\ ~IsNumber(i, j + 1)

Item(at, to, type) == [at |-> at, to |-> to, type |-> type]

(* What starts at position i.  A comment is "$$" to the end of the line, or *)
(* everything within two signs "$" (tests/syntax.neo:1-5).                 *)
ItemAt(i) ==
  LET c == CharAt(i)
  IN  CASE c = "DOLLAR" /\ CharAt(i + 1) = "DOLLAR"
                             -> Item(i, Find("nl", i + 2), "line")
        [] c = "DOLLAR" /\ CharAt(i + 1) # "DOLLAR"
                             -> Item(i, Find("DOLLAR", i + 1), "block")
        [] c \in Letters     -> Item(i, WordEnd(i), WordType(SubSeq(Source, i, WordEnd(i))))
        [] c \in Digits      -> Item(i, NumberEnd(i), "_NUMLIT")
        [] c = "QUOTE"       -> Item(i, Find("QUOTE", i + 1), "_STRLIT")
        [] c \in OPERATORS   -> Item(i, i, "_OP")
        [] c \in SPECIAL_SYMBOLS \cup {"DOT"} -> Item(i, i, "_SPEC")
        [] OTHER             -> Item(i, i, "space")

(* Where items start, and where the last one ends: at 1, and behind every  *)
(* item that starts.  (One that the '\0' ends reaches past the source.)     *)
Behind(i) == ItemAt(i).to + 1

Starts ==
  LET behind == [i \in 1 .. Len(Source) |-> Behind(i)]
      ends   == {behind[i] : i \in 1 .. Len(Source)}
      closed == {D \in SUBSET (ends \cup {1}) :
                   1 \in D /\ \A i \in D : i <= Len(Source) => behind[i] \in D}
  IN  {i \in ends \cup {1} : \A D \in closed : i \in D}

(* Of the starts S: those of a comment, and those of a token.              *)
Comments(S)  == {i \in S : ItemAt(i).type \in {"line", "block"}}
DocTokens(S) == {i \in S : ItemAt(i).type \notin {"line", "block", "space"}}

(* The quotes around a string literal, the second of which may be missing. *)
Quotes(it) == IF it.type # "_STRLIT" THEN 0
              ELSE IF it.to > Len(Source) THEN 1 ELSE 2

Agrees(t) ==
  /\ Item(t.at, t.to, t.type) = ItemAt(t.at)
  /\ t.type = "_NUMLIT" =>
       (t.sub = "FLOAT" <=> \E m \in t.at .. t.to : CharAt(m) = "DOT")

(* With SpansInOrder: the tokens are those of the division, in its order.  *)
Agree(S) ==
  /\ {Tokens[k].at : k \in DOMAIN Tokens} = DocTokens(S)
  /\ \A k \in DOMAIN Tokens : Agrees(Tokens[k])

(* No comment ends the source.                                             *)
CommentsEnd(S) == \A i \in Comments(S) : ItemAt(i).to < Len(Source)

(* Nor is a comment followed at once by another.                           *)
CommentsApart(S) ==
  \A i \in Comments(S) :
    ItemAt(i).to < Len(Source) /\ CharAt(Behind(i)) # "DOLLAR"

(* The item has as many characters as its buffer has room for, or more.    *)
TooLong(it) == it.to - it.at + 1 - Quotes(it) >= MAX_LIT_CHARS

-----------------------------------------------------------------------------
(* When no comment ends the source and none is followed at once by another *)
(* comment, Tokenize divides the source as it should: whole words, whole   *)
(* literals, nothing of a comment, nothing lost.                           *)
TokensAsDocumented ==
  pc = "out" => LET S == Starts IN CommentsApart(S) => Agree(S)

(* "Everything within the signs is treated as comments." and "$$ This is a *)
(* single line comment." (tests/syntax.neo:2-3, :5): where no comment ends *)
(* the source, comments may also follow one another at once.               *)
CommentsIgnored ==
  pc = "out" => LET S == Starts IN CommentsEnd(S) => Agree(S)

(* "// special symbol" (tokenize.c:40): a token of that type is one of     *)
(* SPECIAL_SYMBOLS (token_types.c:5).                                      *)
SymbolIsSpecial ==
  \A k \in DOMAIN Tokens :
    Tokens[k].type = "_SPEC" => Tokens[k].sub \in SPECIAL_SYMBOLS \cup {"DOT"}

(* Tokenize only stops the compilation at a limit, or one before it: there *)
(* are at least MAX_TOKENS tokens, or a literal of MAX_LIT_CHARS characters *)
(* or more.  (Both limits are missed by one: the capacity of the array is   *)
(* tested before a token is known to follow, and the terminator of a        *)
(* literal has no place in its buffer.)                                     *)
RejectsOnlyAtLimits ==
  pc \in {"exit", "overrun"} =>
    LET S == Starts
    IN  CommentsApart(S) => \/ Cardinality(DocTokens(S)) >= MAX_TOKENS
                            \/ \E i \in DocTokens(S) : TooLong(ItemAt(i))
=============================================================================
