------------------------------- MODULE MCParser -------------------------------
(***************************************************************************)
(* Token strings for TLC to parse.                                         *)
(***************************************************************************)
EXTENDS ParserReference, SequencesExt

Strings(alphabet, n) == UNION {[1 .. k -> alphabet] : k \in 0 .. n}
Chains(chunks, n)    == {FlattenSeq(c) : c \in Strings(chunks, n)}

(* What a build may have placed after OPINFOS.                             *)
MCZero == [Assoc |-> "left", Prec |-> 0]

(* Statements and scopes, cut off anywhere.                                *)
StmtSources ==
  Chains({<<"exit", "NUMLIT">>, <<"exit">>, <<"SEMI">>, <<"LBRACE">>,
          <<"RBRACE">>, <<"other">>}, 5)

(* Expressions, of operators of two precedences and of none.               *)
ExprSources ==
  {<<"exit">> \o e \o <<"SEMI">> :
     e \in Strings({"NUMLIT", "+", "*", "#", "LPAREN", "RPAREN"}, 4)}

decl    == <<"BITYPE", "COLON", "ID">>
vardecl == <<"BITYPE", "COLON", "var", "ID">>

(* Definitions, assignments and the compound statements.                   *)
ControlSources ==
  {h \o c : h \in { <<"for">> \o decl \o <<"=">>, <<"if">>, <<"while">>,
                    vardecl \o <<"=">>, <<"exit", "ID", "=">> },
            c \in Chains({<<"NUMLIT">>, <<"COLON">>, <<"LBRACE", "RBRACE">>,
                          <<"SEMI">>}, 5)}

(* Names and types where several alternatives begin alike: declarations,   *)
(* functions, calls and intervals, and everything they are mistaken for.   *)
NameSources ==
  {h \o c : h \in { decl, decl \o <<"LPAREN">>, <<"BITYPE">> \o vardecl,
                    <<"ID", "ID", "LPAREN">>, <<"ID", "=", "LBRACK">>,
                    <<"exit", "ID">>, <<"exit", "LBRACK">> },
            c \in Chains({<<"NUMLIT">>, decl, <<"LPAREN">>, <<"RPAREN">>, <<"COMMA">>,
                          <<"RBRACK">>, <<"LBRACE", "RBRACE">>, <<"SEMI">>}, 3)}

Programs == StmtSources \cup ExprSources \cup ControlSources \cup NameSources

(* The few strings the disagreements with the documentation show on.       *)
DocSources ==
  {h \o c : h \in {<<"exit">>, <<"BITYPE", "COLON">>, <<"ID">>,
                   <<"ID", "ID", "LPAREN">>},
            c \in Strings({"ID", "NUMLIT", "LPAREN", "COMMA", "RPAREN", "SEMI"}, 3)}
=============================================================================
