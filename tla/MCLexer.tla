------------------------------- MODULE MCLexer -------------------------------
(***************************************************************************)
(* Source texts for TLC to read.                                           *)
(***************************************************************************)
EXTENDS LexerReference, SequencesExt

Texts(alphabet, n) == UNION {[1 .. k -> alphabet] : k \in 0 .. n}

MCLetters  == {"i", "f"}
MCDigits   == {"8"}
MCSpecials == {"SEMI"}
MCOps      == {"+"}
MCKeywords == {<<"i", "f">>}
MCBitypes  == {<<"i", "8">>}

(* Words, numbers, strings and symbols side by side.                       *)
WordTexts == Texts({"i", "f", "8", "DOT", "QUOTE", "+", "odd", "blank"}, 5)

(* Comments of both kinds, next to and within everything else.             *)
CommentTexts == Texts({"DOLLAR", "nl", "i", "QUOTE", "odd"}, 6)

(* Whole comments of both kinds, and lines of a word, one after the other. *)
AdjacentTexts ==
  {FlattenSeq(c) : c \in Texts({<<"DOLLAR", "DOLLAR", "nl">>, <<"i", "nl">>,
                                <<"DOLLAR", "DOLLAR", "i", "nl">>,
                                <<"DOLLAR", "i", "DOLLAR">>}, 3)}

(* Literals and comments where the arrays are full.                        *)
LimitTexts == Texts({"i", "8", "DOT", "QUOTE", "SEMI", "DOLLAR", "nl"}, 5)

AllTexts == WordTexts \cup CommentTexts \cup LimitTexts
=============================================================================
