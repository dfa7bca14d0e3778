--------------------------- MODULE ParserReference ---------------------------
(***************************************************************************)
(* What the parser should answer, stated without its cursor and its stack: *)
(* the grammar of docs/README.md as a derivability relation on token       *)
(* ranges, and the tree the precedence table asks for.  These definitions  *)
(* are recursive, so this module is for TLC only.                          *)
(***************************************************************************)
EXTENDS Parser, FiniteSets

Binary(k) == k \in Operators

(* Tokens i .. j (an empty range when j < i) derive the nonterminal nt.    *)
(* Commas between arguments are those of the comment at parse.c:67 and 97, *)
(* the parenthesised expression is that of docs/TODO.md:10.                *)
RECURSIVE Derives(_, _, _)
Derives(nt, i, j) ==
  LET Is(k, t) == k \in 1 .. Len(Tokens) /\ Tokens[k] = t
      Args(f, a, b) ==          \* an f, or f's separated by commas
        \/ b < a
        \/ \E cut \in SUBSET {k \in a .. b : Is(k, "COMMA")} :
             LET lo == cut \cup {a - 1}
                 Next1(k) == CHOOSE m \in cut \cup {b + 1} :
                    m > k /\ \A n \in cut \cup {b + 1} : n > k => m <= n
             IN  \A k \in lo : Derives(f, k + 1, Next1(k) - 1)
  IN  CASE nt = "root" ->
             j < i \/ \E k \in i .. j :
                        Derives("stmt", i, k) /\ Derives("root", k + 1, j)
        [] nt = "scope" ->
             j > i /\ Is(i, "LBRACE") /\ Is(j, "RBRACE")
               /\ Derives("root", i + 1, j - 1)
        [] nt = "stmt" ->
             /\ j > i /\ Is(j, "SEMI")
             /\ \/ Is(i, "exit") /\ Derives("expr", i + 1, j - 1)
                \/ \E s \in {"asgn", "decl", "var_def", "scope", "fun_decl",
                             "fun_def", "call"} : Derives(s, i, j - 1)
                \/ /\ Is(i, "if") \/ Is(i, "while")
                   /\ \E k \in i + 1 .. j - 1 : /\ Derives("expr", i + 1, k)
                                                /\ Derives("scope", k + 1, j - 1)
                \/ /\ Is(i, "for")
                   /\ \E c, k \in i + 1 .. j - 1 :
                        /\ c < k /\ Is(c, "COLON")
                        /\ Derives("var_def", i + 1, c - 1)
                        /\ Derives("expr", c + 1, k)
                        /\ Derives("scope", k + 1, j - 1)
        [] nt = "call" ->
             Is(i, "ID") /\ Is(i + 1, "LPAREN") /\ Is(j, "RPAREN") /\ j > i + 1
               /\ Args("expr", i + 2, j - 1)
        [] nt = "fun_decl" ->
             Is(j, "RPAREN") /\ \E k \in i .. j - 1 :
               Is(k, "LPAREN") /\ Derives("decl", i, k - 1)
                               /\ Args("decl", k + 1, j - 1)
        [] nt = "fun_def" ->
             \E k \in i .. j : /\ Derives("fun_decl", i, k)
                               /\ Derives("scope", k + 1, j)
        [] nt = "expr" ->
             \/ j = i /\ (Is(i, "NUMLIT") \/ Is(i, "ID"))
             \/ Is(i, "LPAREN") /\ Is(j, "RPAREN") /\ j > i
                  /\ Derives("expr", i + 1, j - 1)
             \/ \E k \in i + 1 .. j - 1 :
                  Binary(Tokens[k]) /\ Derives("expr", i, k - 1)
                                    /\ Derives("expr", k + 1, j)
             \/ /\ Is(i, "LBRACK") /\ Is(j, "RBRACK")
                /\ \E k \in i + 1 .. j - 1 :
                     Is(k, "COMMA") /\ Derives("expr", i + 1, k - 1)
                                /\ Derives("expr", k + 1, j - 1)
             \/ Derives("asgn", i, j)
             \/ Derives("call", i, j)
        [] nt = "asgn" ->
             Is(i, "ID") /\ Is(i + 1, "=") /\ Derives("expr", i + 2, j)
        [] nt = "var_def" ->
             \E k \in i .. j :
               Is(k, "=") /\ Derives("decl", i, k - 1) /\ Derives("expr", k + 1, j)
        [] nt = "decl" ->
             /\ Is(i, "BITYPE") /\ Is(i + 1, "COLON") /\ Is(j, "ID")
             /\ j = i + 2 \/ (j = i + 3 /\ Is(i + 2, "var"))

Derivable == Derives("root", 1, Len(Tokens))

(* The program was accepted, and nothing was reported on the way.          *)
Accepted == stack = <<>> /\ ctl = "node" /\ ErrCount = 0

(* Where alternatives cannot share a first token, giving up without        *)
(* restoring the cursor is harmless.  A program is of that kind if every   *)
(* name is followed by '=' and every type begins a definition, and no      *)
(* token opens an interval or a call.                                      *)
ChoiceFree ==
  /\ \A i \in DOMAIN Tokens : Tokens[i] = "ID" =>
       i < Len(Tokens) /\ Tokens[i + 1] = "="
  /\ \A i \in DOMAIN Tokens : Tokens[i] = "BITYPE" =>
       /\ i + 2 <= Len(Tokens) /\ Tokens[i + 1] = "COLON"
       /\ Tokens[i + 2] \in {"ID", "var"}
       /\ Tokens[i + 2] = "var" => i + 3 <= Len(Tokens) /\ Tokens[i + 3] = "ID"
  /\ \A i \in DOMAIN Tokens : Tokens[i] # "LBRACK"

-----------------------------------------------------------------------------
(* The operators of tokens i .. j outside every parenthesis.               *)
Depth(i, k) == Cardinality({m \in i .. k - 1 : Tokens[m] = "LPAREN"})
                 - Cardinality({m \in i .. k - 1 : Tokens[m] = "RPAREN"})
OuterOps(i, j) == {k \in i .. j : Tokens[k] \in Operators /\ Depth(i, k) = 0}

(* The tree of an expression: split at the operator that binds least, the  *)
(* last of them if it associates to the left, the first if to the right.   *)
RECURSIVE PrecTree(_, _)
PrecTree(i, j) ==
  LET ops == OuterOps(i, j)
      Prec(k) == OPINFOS(Tokens[k]).Prec
      least == {k \in ops : \A m \in ops : Prec(k) <= Prec(m)}
      split == CHOOSE k \in least :
                 IF OPINFOS(Tokens[k]).Assoc = "left"
                 THEN \A m \in least : m <= k
                 ELSE \A m \in least : k <= m
  IN  IF ops # {}
      THEN Node("BinExpr", split,
                <<PrecTree(i, split - 1), PrecTree(split + 1, j)>>)
      ELSE IF Tokens[i] = "LPAREN" THEN PrecTree(i + 1, j - 1)
      ELSE Node(Tokens[i], i, <<>>)

-----------------------------------------------------------------------------
(* On programs whose alternatives cannot share a first token the parser    *)
(* is a decision procedure for the documented grammar.                     *)
AcceptedIffDerivable ==
  stack = <<>> /\ ChoiceFree => (Accepted <=> Derivable)

(* docs/README.md gives the productions of the language: on every program  *)
(* the parser accepts what they derive and reports what they do not.       *)
GrammarDecides == stack = <<>> => (Accepted <=> Derivable)

(* `exit' followed by an accepted expression without names holds the tree  *)
(* that precedence and associativity ask for.                              *)
PrecedenceTree ==
  Accepted /\ Tokens # <<>> /\ Tokens[1] = "exit"
     /\ (\A i \in DOMAIN Tokens : Tokens[i] \notin {"ID", "LBRACK"})
     /\ Cardinality({i \in DOMAIN Tokens : Tokens[i] = "SEMI"}) = 1
    => val.kids[1].kids = << PrecTree(2, Len(Tokens) - 1) >>
=============================================================================
