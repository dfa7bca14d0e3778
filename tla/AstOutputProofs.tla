---------------------------- MODULE AstOutputProofs ----------------------------
(***************************************************************************)
(* The JSON writer keeps within its buffer and its stack, for every tree   *)
(* and every capacity of the two: each of its functions does, whatever it  *)
(* is called with and whether or not the one before it failed.             *)
(*                                                                         *)
(* And what it writes of a tree that is well-formed and of bounded depth   *)
(* is the Document of AstReference, or the beginning of it where one of    *)
(* the arrays was full: the calls left to do always write what is missing  *)
(* of the document (Whole).                                                *)
(***************************************************************************)
EXTENDS AstReference, SequenceTheorems, WellFoundedInduction, TLAPS

NodeTypes == {"ARRAY", "OBJECT", "VALUE"}
Entry     == [nodeType : NodeTypes, elementNo : Nat]
Errors    == {"OK", "BUF_FULL", "STACK_FULL", "STACK_EMPTY", "NOT_ARRAY",
              "NOT_OBJECT", "NOT_VALUE", "MISSING_VALUE", "NEST_ERROR"}
Writer(S) == [out : Seq(S), nodeStack : Seq(Entry), error : Errors]

(* The invariant, of a writer: its lexemes are of whatever kinds it was    *)
(* given, and its stack always holds the root.                             *)
Good(w) ==
  /\ \E S : w \in Writer(S)
  /\ Len(w.out) < MAX_AST_JSON_FILESIZE
  /\ Len(w.nodeStack) \in 1 .. JWRITE_STACK_DEPTH

-----------------------------------------------------------------------------
(* The four functions that touch the writer's state.                       *)
LEMMA ErrorGood ==
  ASSUME NEW w, Good(w), NEW e \in Errors
  PROVE  Good(Error(w, e))
<1>1. PICK S : w \in Writer(S)
  BY DEF Good
<1>2. /\ Error(w, e) \in Writer(S)
      /\ Error(w, e).out = w.out /\ Error(w, e).nodeStack = w.nodeStack
  BY <1>1 DEF Error, Writer
<1> QED BY <1>2 DEF Good

LEMMA PutchGood ==
  ASSUME NEW w, Good(w), NEW c
  PROVE  Good(jwPutch(w, c))
<1>1. PICK S : w \in Writer(S)
  BY DEF Good
<1>2. CASE Len(w.out) + 1 >= MAX_AST_JSON_FILESIZE
  BY <1>2, ErrorGood DEF jwPutch, Errors
<1>3. CASE ~(Len(w.out) + 1 >= MAX_AST_JSON_FILESIZE)
  <2> DEFINE v == [w EXCEPT !.out = Append(@, c)]
  <2>1. w.out \in Seq(S \cup {c}) /\ Len(w.out) \in Nat
    BY <1>1 DEF Writer
  <2>2. Append(w.out, c) \in Seq(S \cup {c}) /\ Len(Append(w.out, c)) = Len(w.out) + 1
    BY <2>1, AppendProperties
  <2>3. v.out = Append(w.out, c) /\ v.nodeStack = w.nodeStack
    BY <1>1 DEF Writer
  <2>4. v \in Writer(S \cup {c})
    BY <1>1, <2>2 DEF Writer
  <2>5. Len(v.out) < MAX_AST_JSON_FILESIZE
    BY <1>3, <2>1, <2>2, <2>3, AstOutputAssumption
  <2>6. Good(v)
    BY <2>3, <2>4, <2>5 DEF Good
  <2> QED BY <1>3, <2>6 DEF jwPutch
<1> QED BY <1>2, <1>3

LEMMA PushGood ==
  ASSUME NEW w, Good(w), NEW type \in NodeTypes
  PROVE  Good(jwPush(w, type))
<1>1. PICK S : w \in Writer(S)
  BY DEF Good
<1>2. CASE Pos(w) >= JWRITE_STACK_DEPTH
  BY <1>2, ErrorGood DEF jwPush, Errors
<1>3. CASE ~(Pos(w) >= JWRITE_STACK_DEPTH)
  <2> DEFINE s == StackNode(type)
             v == [w EXCEPT !.nodeStack = Append(@, s)]
  <2>1. s \in Entry /\ w.nodeStack \in Seq(Entry) /\ Len(w.nodeStack) \in Nat
    BY <1>1 DEF Writer, Entry, StackNode
  <2> HIDE DEF s
  <2>2. /\ Append(w.nodeStack, s) \in Seq(Entry)
        /\ Len(Append(w.nodeStack, s)) = Len(w.nodeStack) + 1
    BY <2>1, AppendProperties
  <2>3. v.nodeStack = Append(w.nodeStack, s) /\ v.out = w.out
    BY <1>1 DEF Writer
  <2>4. v \in Writer(S)
    BY <1>1, <2>2 DEF Writer
  <2>5. Len(v.nodeStack) \in 1 .. JWRITE_STACK_DEPTH
    BY <1>3, <2>1, <2>2, <2>3, AstOutputAssumption DEF Pos
  <2>6. Good(v)
    BY <2>3, <2>4, <2>5 DEF Good
  <2> QED BY <1>3, <2>6 DEF jwPush, s
<1> QED BY <1>2, <1>3

LEMMA PopGood ==
  ASSUME NEW w, Good(w)
  PROVE  Good(jwPop(w))
<1>1. PICK S : w \in Writer(S)
  BY DEF Good
<1>2. CASE Pos(w) = 1
  BY <1>2, ErrorGood DEF jwPop, Errors
<1>3. CASE Pos(w) # 1
  <2> DEFINE t == SubSeq(w.nodeStack, 1, Pos(w) - 1)
             v == [w EXCEPT !.nodeStack = t]
  <2>1. /\ w.nodeStack \in Seq(Entry) /\ Pos(w) = Len(w.nodeStack)
        /\ Pos(w) \in 2 .. JWRITE_STACK_DEPTH /\ Pos(w) \in Nat
    <3>1. w.nodeStack \in Seq(Entry) /\ Pos(w) = Len(w.nodeStack)
      BY <1>1 DEF Writer, Pos
    <3>2. Pos(w) \in 1 .. JWRITE_STACK_DEPTH
      BY DEF Good, Pos
    <3>3. \A p \in 1 .. JWRITE_STACK_DEPTH :
            p # 1 => p \in 2 .. JWRITE_STACK_DEPTH /\ p \in Nat
      BY AstOutputAssumption
    <3> QED BY <1>3, <3>1, <3>2, <3>3
  <2>2. t \in Seq(Entry) /\ Len(t) = Pos(w) - 1
    <3> DEFINE k == Pos(w) - 1
    <3>1. k \in 1 .. Len(w.nodeStack) /\ 1 \in 1 .. Len(w.nodeStack) + 1
      BY <2>1
    <3> HIDE DEF k
    <3>2. SubSeq(w.nodeStack, 1, k) \in Seq(Entry) /\ Len(SubSeq(w.nodeStack, 1, k)) = k
      BY <2>1, <3>1, SubSeqProperties
    <3> QED BY <3>2 DEF k
  <2> HIDE DEF t
  <2>3. v.nodeStack = t /\ v.out = w.out
    BY <1>1 DEF Writer
  <2>4. v \in Writer(S)
    BY <1>1, <2>2 DEF Writer
  <2>5. Len(v.nodeStack) \in 1 .. JWRITE_STACK_DEPTH
    BY <2>1, <2>2, <2>3, AstOutputAssumption
  <2>6. Good(v)
    BY <2>3, <2>4, <2>5 DEF Good
  <2> QED BY <1>3, <2>6 DEF jwPop, t
<1> QED BY <1>2, <1>3

LEMMA CommaGood ==
  ASSUME NEW w, Good(w)
  PROVE  Good(Comma(w))
<1>1. PICK S : w \in Writer(S)
  BY DEF Good
<1> DEFINE i == Pos(w)
           n == w.nodeStack[i]
           m == [n EXCEPT !.elementNo = @ + 1]
           t == [w.nodeStack EXCEPT ![i] = m]
           v == [w EXCEPT !.nodeStack[Pos(w)].elementNo = @ + 1]
<1>2. /\ w.nodeStack \in Seq(Entry) /\ i \in 1 .. Len(w.nodeStack)
      /\ i \in DOMAIN w.nodeStack
  BY <1>1, AstOutputAssumption DEF Writer, Good, Pos
<1>3. n \in Entry
  BY <1>2
<1>4. m \in Entry
  BY <1>3 DEF Entry
<1>5. t \in Seq(Entry) /\ Len(t) = Len(w.nodeStack)
  BY <1>2, <1>4, ExceptSeq
<1>6. v = [w EXCEPT !.nodeStack = t]
  BY <1>1, <1>2, <1>3 DEF Writer, Entry
<1> HIDE DEF t, m, n, i, v
<1>7. v.nodeStack = t /\ v.out = w.out /\ v \in Writer(S)
  BY <1>1, <1>5, <1>6 DEF Writer
<1>8. Good(v)
  BY <1>5, <1>7 DEF Good
<1> QED BY <1>8, PutchGood DEF Comma, v

-----------------------------------------------------------------------------
(* What is built from them.                                                *)
LEMMA TopTypeIs ==
  ASSUME NEW w, Good(w)
  PROVE  TopType(w) \in NodeTypes
<1>1. PICK S : w \in Writer(S)
  BY DEF Good
<1>2. w.nodeStack \in Seq(Entry) /\ Pos(w) \in 1 .. Len(w.nodeStack)
  BY <1>1, AstOutputAssumption DEF Writer, Good, Pos
<1>3. w.nodeStack[Pos(w)] \in Entry
  BY <1>2
<1> QED BY <1>3 DEF TopType, Entry

LEMMA ArrGood ==
  ASSUME NEW w, Good(w)
  PROVE  Good(_jwArr(w))
BY ErrorGood, CommaGood DEF _jwArr, Errors

LEMMA KeyGood ==
  ASSUME NEW w, Good(w), NEW k
  PROVE  Good(jw_key(w, k))
<1> DEFINE b == IF TopType(w) # "OBJECT" THEN Error(w, "NOT_OBJECT") ELSE Comma(w)
<1>1. Good(b)
  BY ErrorGood, CommaGood DEF Errors
<1> HIDE DEF b
<1>2. Good(jwPutch(b, k))
  BY <1>1, PutchGood
<1>3. Good(jwPutch(jwPutch(b, k), Mark(":")))
  BY <1>2, PutchGood
<1>4. Good(jwPush(jwPutch(jwPutch(b, k), Mark(":")), "VALUE"))
  BY <1>3, PushGood DEF NodeTypes
<1> QED BY <1>4 DEF jw_key, b

LEMMA ValueGood ==
  ASSUME NEW w, Good(w), NEW v
  PROVE  Good(jw_value(w, v))
<1>1. Good(_jwArr(w)) /\ Good(jwPutch(_jwArr(w), v))
  BY ArrGood, PutchGood
<1>2. Good(jwPop(jwPutch(w, v)))
  BY PutchGood, PopGood
<1>3. Good(Error(w, "NOT_VALUE"))
  BY ErrorGood DEF Errors
<1>4. TopType(w) \in NodeTypes
  BY TopTypeIs
<1> QED BY <1>1, <1>2, <1>3, <1>4 DEF jw_value, IfOK, NodeTypes

LEMMA OpenGood ==
  ASSUME NEW w, Good(w), NEW type \in NodeTypes, NEW brace
  PROVE  Good(Open(w, type, brace))
<1>1. Good(_jwArr(w)) /\ Good(jwPutch(_jwArr(w), brace))
  BY ArrGood, PutchGood
<1>2. Good(jwPush(jwPutch(_jwArr(w), brace), type))
  BY <1>1, PushGood
<1>3. Good(jwPutch(jwPop(w), brace))
  BY PutchGood, PopGood
<1>4. Good(jwPush(jwPutch(jwPop(w), brace), type))
  BY <1>3, PushGood
<1>5. Good(Error(w, "NOT_VALUE"))
  BY ErrorGood DEF Errors
<1>6. TopType(w) \in NodeTypes
  BY TopTypeIs
<1> QED BY <1>1, <1>2, <1>4, <1>5, <1>6 DEF Open, IfOK, NodeTypes

LEMMA EndGood ==
  ASSUME NEW w, Good(w)
  PROVE  Good(jwEnd(w)) /\ Good(jwClose(w))
<1>1. Good(jwPop(w))
  BY PopGood
<1>2. Good(jwPutch(jwPop(w), Mark("}"))) /\ Good(jwPutch(jwPop(w), Mark("]")))
  BY <1>1, PutchGood
<1>3. Good(Error(jwPop(w), "MISSING_VALUE"))
  BY <1>1, ErrorGood DEF Errors
<1>4. Good(jwPutch(w, Mark("]"))) /\ Good(Error(w, "NEST_ERROR"))
  BY PutchGood, ErrorGood DEF Errors
<1>5. TopType(w) \in NodeTypes
  BY TopTypeIs
<1> QED BY <1>2, <1>3, <1>4, <1>5 DEF jwEnd, jwClose, NodeTypes

(* A call of the writer, whichever it is and whatever has gone before.     *)
LEMMA ApplyGood ==
  ASSUME NEW w, Good(w), NEW call, call.do \in API
  PROVE  Good(Apply(w, call))
<1>1. Good(jw_key(w, call.arg)) /\ Good(jw_value(w, call.arg))
  BY KeyGood, ValueGood
<1>2. Good(Open(w, "OBJECT", Mark("{"))) /\ Good(Open(w, "ARRAY", Mark("[")))
  BY OpenGood DEF NodeTypes
<1>3. Good(jwEnd(w)) /\ Good(jwClose(w))
  BY EndGood
<1> QED BY <1>1, <1>2, <1>3 DEF Apply, API

LEMMA OpenedGood == Good(jwOpen)
<1> DEFINE w == [out |-> <<>>, nodeStack |-> <<StackNode("ARRAY")>>, error |-> "OK"]
<1>1. StackNode("ARRAY") \in Entry
  BY DEF StackNode, Entry, NodeTypes
<1>2. <<StackNode("ARRAY")>> \in Seq(Entry) /\ Len(<<StackNode("ARRAY")>>) = 1
  BY <1>1
<1>3. <<>> \in Seq({}) /\ Len(<<>>) = 0
  OBVIOUS
<1>4. w \in Writer({})
  BY <1>2, <1>3 DEF Writer, Errors
<1>5. w.out = <<>> /\ w.nodeStack = <<StackNode("ARRAY")>>
  OBVIOUS
<1>6. Good(w)
  BY <1>2, <1>3, <1>4, <1>5, AstOutputAssumption DEF Good
<1> QED BY <1>6, PutchGood DEF jwOpen

LEMMA NextGood == Good(jw) /\ [Next]_vars => Good(jw')
<1> SUFFICES ASSUME Good(jw), [Next]_vars PROVE Good(jw')
  OBVIOUS
<1>1. CASE OutputNode
  BY <1>1 DEF OutputNode
<1>2. CASE CallWriter
  BY <1>2, ApplyGood DEF CallWriter
<1>3. CASE WriteFile
  BY <1>3 DEF WriteFile
<1>4. CASE UNCHANGED vars
  BY <1>4 DEF vars
<1> QED BY <1>1, <1>2, <1>3, <1>4 DEF Next, Halt

-----------------------------------------------------------------------------
(* WriterFits for every tree, every depth of the stack and every size of   *)
(* the buffer: a tree that is too deep or too long is cut off, and neither *)
(* array is ever written past its end.                                     *)
THEOREM WriterInBounds == Spec => []WriterFits
<1>1. Init => Good(jw)
  BY OpenedGood DEF Init
<1>2. Good(jw) /\ [Next]_vars => Good(jw)'
  BY NextGood DEF Good
<1>3. Good(jw) => WriterFits
  BY DEF Good, WriterFits
<1> QED BY <1>1, <1>2, <1>3, PTL DEF Spec
-----------------------------------------------------------------------------
(* What is written.  A set of depths that holds 0, and with a depth the    *)
(* next, holds all.                                                        *)
LEMMA EveryNat ==
  ASSUME NEW N, 0 \in N, \A k \in Nat : k \in N => k + 1 \in N
  PROVE  Nat \subseteq N
<1> DEFINE T == Nat \ N
<1> SUFFICES ASSUME T # {} PROVE FALSE
  OBVIOUS
<1>1. PICK m \in T : \A k \in T : ~(<<k, m>> \in OpToRel(<, Nat))
  <2>1. T \subseteq Nat
    OBVIOUS
  <2> HIDE DEF T
  <2> QED BY <2>1, NatLessThanWellFounded, WFMin, Zenon
<1>2. m # 0 /\ m - 1 \in Nat /\ m - 1 < m /\ (m - 1) + 1 = m
  <2>1. m \in Nat /\ m \notin N
    OBVIOUS
  <2>2. m # 0
    BY <2>1
  <2> QED BY <2>1, <2>2
<1>3. m - 1 \in N
  BY <1>1, <1>2 DEF OpToRel
<1> QED BY <1>1, <1>2, <1>3

(* Values, of lexemes whose places are in A.                               *)
Words == {"{", "}", "[", "]", ",", ":", "double", "name", "op", "type",
          "holds", "num_lit", "id", "lhs", "rhs", "term", "bin_expr", "scope", "range",
          "expr", "exit", "asgn", "decl", "def", "for", "if",
          "_TERM", "_TERM_NUMLIT", "_TERM_IDENT", "_BIN_EXPR", "_INTERVAL", "_ASGN",
          "_CALL", "_STMT_EXIT", "_DECL", "_VAR_DEF", "_STMT_FOR", "_SCOPE", "_STMT_IF",
          "_STMT_WHILE", "_FUN_DECL", "_FUN_DEF"}

Lexemes(A) == [kind : Words, at : A]
Texts(A)   == [text : Seq(Lexemes(A)), heights : SUBSET Nat]

LEMMA ThenIs ==
  ASSUME NEW A, NEW v \in Texts(A), NEW w \in Texts(A)
  PROVE  Then(v, w) \in Texts(A)
BY ConcatProperties DEF Then, Texts

LEMMA AtomIs ==
  ASSUME NEW A, NEW c \in Lexemes(A)
  PROVE  Atom(c) \in Texts(A)
BY DEF Atom, Texts

LEMMA MarkIs ==
  ASSUME NEW A, 0 \in A, NEW k \in Words
  PROVE  Mark(k) \in Lexemes(A)
BY DEF Mark, Lexeme, Lexemes

LEMMA EnclosedIs ==
  ASSUME NEW A, NEW v \in Texts(A)
  PROVE  Enclosed(v) \in Texts(A)
<1>1. {1} \cup {1 + h : h \in v.heights} \subseteq Nat
  BY DEF Texts
<1> QED BY <1>1 DEF Enclosed, Texts

LEMMA MemberIs ==
  ASSUME NEW A, 0 \in A, NEW k \in Words, NEW v \in Texts(A)
  PROVE  KeyPart(k) \in Texts(A) /\ Member(k, v) \in Texts(A)
<1>1. Mark(k) \in Lexemes(A) /\ Mark(":") \in Lexemes(A)
  BY MarkIs, ZenonT(60) DEF Words
<1>2. KeyPart(k) \in Texts(A)
  BY <1>1 DEF KeyPart, Texts
<1> QED BY <1>2, ThenIs DEF Member

LEMMA SeparatorIs ==
  ASSUME NEW A, 0 \in A, NEW i
  PROVE  Separator(i) \in Texts(A)
<1>1. Mark(",") \in Lexemes(A)
  BY MarkIs DEF Words
<1> DEFINE t == IF i = 1 THEN <<>> ELSE << Mark(",") >>
<1>2. t \in Seq(Lexemes(A))
  <2>1. \A c \in Lexemes(A) : << c >> \in Seq(Lexemes(A))
    OBVIOUS
  <2>2. <<>> \in Seq(Lexemes(A))
    OBVIOUS
  <2> QED BY <1>1, <2>1, <2>2, Zenon
<1> HIDE DEF t
<1>3. Separator(i) = [text |-> t, heights |-> {}]
  BY DEF Separator, t
<1> QED BY <1>2, <1>3 DEF Texts

(* A list from its i-th part on.                                           *)
Behind(A, n, parts, close, r) ==
  /\ r \in [1 .. n + 1 -> Texts(A)]
  /\ r[n + 1] = Atom(Mark(close))
  /\ \A i \in 1 .. n : r[i] = Then(Then(Separator(i), parts[i]), r[i + 1])

BehindOpen(A, open, n, parts, close, x) ==
  \E r : Behind(A, n, parts, close, r) /\ x = Enclosed(Then(Atom(Mark(open)), r[1]))

LEMMA ListedIs ==
  ASSUME NEW A, 0 \in A, NEW n \in Nat, NEW parts,
         \A i \in 1 .. n : parts[i] \in Texts(A),
         NEW open \in Words, NEW close \in Words
  PROVE  /\ BehindOpen(A, open, n, parts, close, Listed(open, n, parts, close))
         /\ Listed(open, n, parts, close) \in Texts(A)
<1> DEFINE Turn(i, r) == Then(Then(Separator(i), parts[i]), r)
           End1 == Atom(Mark(close))
           Made(r) == r = [i \in 1 .. n + 1 |-> IF i = n + 1 THEN End1 ELSE Turn(i, r[i + 1])]
           From(k, r) == /\ r \in [n + 1 - k .. n + 1 -> Texts(A)]
                         /\ r[n + 1] = End1
                         /\ \A i \in n + 1 - k .. n : r[i] = Turn(i, r[i + 1])
           Ks == {k \in Nat : k <= n => \E r : From(k, r)}
<1>1. End1 \in Texts(A)
  BY MarkIs, AtomIs
<1>2. \A i \in 1 .. n : \A r \in Texts(A) : Turn(i, r) \in Texts(A)
  BY SeparatorIs, ThenIs
<1> HIDE DEF Turn, End1
<1>3. 0 \in Ks
  <2> DEFINE r == [i \in n + 1 .. n + 1 |-> End1]
  <2>1. r \in [n + 1 - 0 .. n + 1 -> Texts(A)] /\ r[n + 1] = End1
    BY <1>1
  <2>2. From(0, r)
    <3> HIDE DEF r
    <3>1. \A i \in n + 1 - 0 .. n : FALSE
      OBVIOUS
    <3> QED BY <2>1, <3>1
  <2> QED BY <2>2
<1>4. ASSUME NEW k \in Nat, k \in Ks PROVE k + 1 \in Ks
  <2> SUFFICES ASSUME k + 1 <= n PROVE \E r : From(k + 1, r)
    OBVIOUS
  <2>1. PICK r : From(k, r)
    BY <1>4
  <2> DEFINE j == n - k
  <2>2. /\ j \in 1 .. n /\ n + 1 - k = j + 1 /\ n + 1 - (k + 1) = j
        /\ j .. n + 1 = {j} \cup (j + 1 .. n + 1) /\ j \notin j + 1 .. n + 1
        /\ n + 1 \in j + 1 .. n + 1 /\ j + 1 \in j + 1 .. n + 1
        /\ \A i \in j .. n : i + 1 \in j + 1 .. n + 1 /\ (i # j => i \in j + 1 .. n)
    OBVIOUS
  <2> HIDE DEF j
  <2>3. /\ r \in [j + 1 .. n + 1 -> Texts(A)] /\ r[n + 1] = End1
        /\ \A i \in j + 1 .. n : r[i] = Turn(i, r[i + 1])
    BY <2>1, <2>2
  <2> DEFINE s == [i \in j .. n + 1 |-> IF i = j THEN Turn(j, r[j + 1]) ELSE r[i]]
  <2>4. Turn(j, r[j + 1]) \in Texts(A)
    BY <1>2, <2>2, <2>3
  <2>5. s \in [j .. n + 1 -> Texts(A)]
    BY <2>2, <2>3, <2>4
  <2>6. s[j] = Turn(j, r[j + 1]) /\ \A i \in j + 1 .. n + 1 : s[i] = r[i]
    BY <2>2
  <2> HIDE DEF s
  <2>7. \A i \in j .. n : s[i] = Turn(i, s[i + 1])
    BY <2>2, <2>3, <2>6
  <2>8. From(k + 1, s)
    BY <2>2, <2>3, <2>5, <2>6, <2>7
  <2> QED BY <2>8
<1>5. \E r : From(n, r)
  <2> HIDE DEF Ks
  <2>1. Nat \subseteq Ks
    BY <1>3, <1>4, EveryNat
  <2> QED BY <2>1 DEF Ks
<1>6. \E r : Made(r)
  <2>1. PICK r : From(n, r)
    BY <1>5
  <2>2. /\ n + 1 - n = 1 /\ n + 1 \in 1 .. n + 1
        /\ \A i \in 1 .. n + 1 : i # n + 1 => i \in 1 .. n
    OBVIOUS
  <2>3. /\ r \in [1 .. n + 1 -> Texts(A)] /\ r[n + 1] = End1
        /\ \A i \in 1 .. n : r[i] = Turn(i, r[i + 1])
    BY <2>1, <2>2
  <2>4. \A i \in 1 .. n + 1 : r[i] = IF i = n + 1 THEN End1 ELSE Turn(i, r[i + 1])
    BY <2>2, <2>3
  <2>5. r = [i \in 1 .. n + 1 |-> r[i]]
    BY <2>3
  <2>6. Made(r)
    BY <2>4, <2>5, Zenon
  <2> QED BY <2>6
<1> DEFINE rest == CHOOSE r : Made(r)
<1>7. Made(rest)
  BY <1>6
<1>8. Listed(open, n, parts, close) = Enclosed(Then(Atom(Mark(open)), rest[1]))
  BY DEF Listed, Turn, End1
<1> HIDE DEF rest
<1>9. /\ \A i \in 1 .. n : rest[i] = Turn(i, rest[i + 1])
      /\ rest[n + 1] = End1
  <2>1. \A i \in 1 .. n + 1 : rest[i] = IF i = n + 1 THEN End1 ELSE Turn(i, rest[i + 1])
    BY <1>7
  <2>2. \A i \in 1 .. n : i \in 1 .. n + 1 /\ i # n + 1
    OBVIOUS
  <2>3. n + 1 \in 1 .. n + 1
    OBVIOUS
  <2> QED BY <2>1, <2>2, <2>3
<1>10. \A i \in 1 .. n + 1 : rest[i] \in Texts(A)
  <2> DEFINE Ns == {k \in Nat : k <= n => rest[n + 1 - k] \in Texts(A)}
  <2>1. 0 \in Ns
    BY <1>1, <1>9
  <2>2. ASSUME NEW k \in Nat, k \in Ns PROVE k + 1 \in Ns
    <3> SUFFICES ASSUME k + 1 <= n PROVE rest[n + 1 - (k + 1)] \in Texts(A)
      OBVIOUS
    <3>1. /\ n + 1 - (k + 1) \in 1 .. n /\ k <= n
          /\ (n + 1 - (k + 1)) + 1 = n + 1 - k
      OBVIOUS
    <3> QED BY <1>2, <1>9, <2>2, <3>1
  <2>3. Nat \subseteq Ns
    <3> HIDE DEF Ns
    <3> QED BY <2>1, <2>2, EveryNat
  <2>4. \A i \in 1 .. n + 1 : n + 1 - i \in Nat /\ n + 1 - i <= n /\ n + 1 - (n + 1 - i) = i
    OBVIOUS
  <2> QED BY <2>3, <2>4
<1>11. Behind(A, n, parts, close, rest)
  <2>1. rest \in [1 .. n + 1 -> Texts(A)]
    <3>1. rest = [i \in 1 .. n + 1 |-> rest[i]]
      BY <1>7
    <3> QED BY <1>10, <3>1
  <2> QED BY <1>9, <2>1 DEF Behind, Turn, End1
<1>12. Listed(open, n, parts, close) \in Texts(A)
  <2>1. Atom(Mark(open)) \in Texts(A)
    BY MarkIs, AtomIs
  <2>2. rest[1] \in Texts(A)
    BY <1>10
  <2> QED BY <1>8, <2>1, <2>2, ThenIs, EnclosedIs
<1> QED BY <1>8, <1>11, <1>12 DEF BehindOpen
LEMMA ObjIs ==
  ASSUME NEW A, 0 \in A, NEW p \in Texts(A), NEW q \in Texts(A), NEW r \in Texts(A),
         NEW s \in Texts(A)
  PROVE  /\ Obj(<< p >>) \in Texts(A)
         /\ Obj(<< p, q >>) \in Texts(A)
         /\ Obj(<< p, q, r >>) \in Texts(A)
         /\ Obj(<< p, q, r, s >>) \in Texts(A)
<1>1. /\ Len(<< p >>) = 1 /\ Len(<< p, q >>) = 2 /\ Len(<< p, q, r >>) = 3
      /\ Len(<< p, q, r, s >>) = 4
  OBVIOUS
<1>2. /\ \A i \in 1 .. 1 : << p >>[i] \in Texts(A)
      /\ \A i \in 1 .. 2 : << p, q >>[i] \in Texts(A)
      /\ \A i \in 1 .. 3 : << p, q, r >>[i] \in Texts(A)
      /\ \A i \in 1 .. 4 : << p, q, r, s >>[i] \in Texts(A)
  OBVIOUS
<1>3. "{" \in Words /\ "}" \in Words
  BY DEF Words
<1>4. /\ Listed("{", 1, << p >>, "}") \in Texts(A)
      /\ Listed("{", 2, << p, q >>, "}") \in Texts(A)
      /\ Listed("{", 3, << p, q, r >>, "}") \in Texts(A)
      /\ Listed("{", 4, << p, q, r, s >>, "}") \in Texts(A)
  BY <1>2, <1>3, ListedIs
<1> QED BY <1>1, <1>4 DEF Obj

LEMMA ArrIs ==
  ASSUME NEW A, 0 \in A, NEW n \in Nat, NEW values,
         \A i \in 1 .. n : values[i] \in Texts(A)
  PROVE  Arr(n, values) \in Texts(A)
<1>1. "[" \in Words /\ "]" \in Words
  BY DEF Words
<1> QED BY <1>1, ListedIs DEF Arr

LEMMA OfIs ==
  ASSUME NEW A, NEW k \in {"double", "name", "op", "type"}, NEW at \in A
  PROVE  Lexeme(k, at) \in Lexemes(A) /\ Of(k, at) \in Texts(A)
<1>1. Lexeme(k, at) \in Lexemes(A)
  BY DEF Lexeme, Lexemes, Words
<1> QED BY <1>1, AtomIs DEF Of

LEMMA TaggedIs ==
  ASSUME NEW A, 0 \in A, NEW h \in Words, NEW k \in Words, NEW v \in Texts(A)
  PROVE  HoldsOnly(h) \in Texts(A) /\ Tagged(h, k, v) \in Texts(A)
<1>1. Holds(h) \in Texts(A)
  <2>1. Atom(Mark(h)) \in Texts(A)
    BY MarkIs, AtomIs
  <2>2. "holds" \in Words
    BY DEF Words
  <2> QED BY <2>1, <2>2, MemberIs DEF Holds
<1>2. Member(k, v) \in Texts(A)
  BY MemberIs
<1> QED BY <1>1, <1>2, ObjIs DEF HoldsOnly, Tagged

-----------------------------------------------------------------------------
(* A document: nodes of a tree, where they stand in it (a place is a node, *)
(* what it is written as and how many levels may be below it), and the     *)
(* value of each place.                                                    *)
Ats(nodes) == {0} \cup {m.at : m \in nodes}

DeclReady(nodes, m) == m.kids[1] \in nodes /\ m.kids[Len(m.kids)] \in nodes
Scoped(places, s, k) ==
  /\ Len(s.kids) \in Nat
  /\ \A i \in 1 .. Len(s.kids) : <<"stmt", s.kids[i], k>> \in places

(* What an Output function that another one calls makes of its node, where *)
(* v gives the values of the places below.                                 *)
PartStmts(s, v) == Arr(Len(s.kids), [i \in 1 .. Len(s.kids) |-> v[<<"stmt", s.kids[i]>>]])
Part(f, m, v) ==
  CASE f = "Term" ->
         IF m.nt = "NUMLIT" THEN Tagged("_TERM_NUMLIT", "num_lit", Of("double", m.at))
                            ELSE Tagged("_TERM_IDENT", "id", Of("name", m.at))
    [] f = "BinExpr" ->
         Obj(<< Member("lhs", v[<<"expr", m.kids[1]>>]),
                Member("rhs", v[<<"expr", m.kids[2]>>]), Member("op", Of("op", m.at)) >>)
    [] f = "Exit" -> Obj(<< Member("expr", v[<<"expr", m.kids[1]>>]) >>)
    [] f = "Asgn" -> Obj(<< Member("id", Of("name", m.kids[1].at)),
                            Member("expr", v[<<"expr", m.kids[2]>>]) >>)
    [] f = "Decl" -> Obj(<< Type(m), Id(m) >>)
    [] f = "VarDef" -> Obj(<< Type(m.kids[1]), Id(m.kids[1]),
                              Member("expr", v[<<"expr", m.kids[2]>>]) >>)
    [] f = "For" -> Obj(<< Type(m.kids[1].kids[1]), Id(m.kids[1].kids[1]),
                           Member("scope", PartStmts(m.kids[3], v)),
                           Member("range", v[<<"expr", m.kids[2]>>]) >>)
    [] f = "Scope" -> PartStmts(m, v)
    [] f = "If" -> Obj(<< Member("expr", v[<<"expr", m.kids[1]>>]),
                          Member("scope", PartStmts(m.kids[2], v)) >>)

Parts == {"Term", "BinExpr", "Exit", "Asgn", "Decl", "VarDef", "For", "Scope", "If"}

(* A function can write its node, with the places below it at level k.     *)
Ready(doc, f, m, k) ==
  CASE f = "Term"    -> m \in doc.nodes /\ m.nt \in {"NUMLIT", "ID"}
    [] f = "BinExpr" -> /\ m \in doc.nodes
                        /\ <<"expr", m.kids[1], k>> \in doc.places
                        /\ <<"expr", m.kids[2], k>> \in doc.places
    [] f = "Exit"    -> <<"expr", m.kids[1], k>> \in doc.places
    [] f = "Asgn"    -> m.kids[1] \in doc.nodes /\ <<"expr", m.kids[2], k>> \in doc.places
    [] f = "Decl"    -> DeclReady(doc.nodes, m)
    [] f = "VarDef"  -> /\ DeclReady(doc.nodes, m.kids[1])
                        /\ <<"expr", m.kids[2], k>> \in doc.places
    [] f = "For"     -> /\ DeclReady(doc.nodes, m.kids[1].kids[1])
                        /\ <<"expr", m.kids[2], k>> \in doc.places
                        /\ Scoped(doc.places, m.kids[3], k)
    [] f = "Scope"   -> Scoped(doc.places, m, k)
    [] f = "If"      -> /\ <<"expr", m.kids[1], k>> \in doc.places
                        /\ Scoped(doc.places, m.kids[2], k)
    [] f = "Expr"    -> <<"expr", m, k>> \in doc.places
    [] f = "Stmt"    -> <<"stmt", m, k>> \in doc.places

(* A place whose node has the children its kind has.                       *)
Legible(doc, as, m, k) ==
  /\ m \in doc.nodes /\ k \in Nat \ {0}
  /\ \/ /\ as = "expr"
        /\ m.nt \in {"NUMLIT", "ID", "BinExpr", "Interval", "Asgn", "Call"}
        /\ m.nt \in {"NUMLIT", "ID"} => Ready(doc, "Term", m, k - 1)
        /\ m.nt = "BinExpr" => Ready(doc, "BinExpr", m, k - 1)
     \/ /\ as = "stmt"
        /\ m.nt \in {"Exit", "Asgn", "Decl", "VarDef", "For", "Scope", "If", "While",
                     "FunDecl", "FunDef", "Call"}
        /\ m.nt \in Parts => Ready(doc, m.nt, m, k - 1)

WellRead(doc) ==
  \A as, m, k : <<as, m, k>> \in doc.places =>
    /\ Legible(doc, as, m, k)
    /\ doc.value[k][<<as, m>>] = AstValue(as, m, doc.value[k - 1])

(* The value a function writes.                                            *)
Val(doc, f, m, k) ==
  IF f = "Expr" THEN doc.value[k][<<"expr", m>>]
  ELSE IF f = "Stmt" THEN doc.value[k][<<"stmt", m>>]
  ELSE Part(f, m, doc.value[k])

LEMMA PartIs ==
  ASSUME NEW doc, NEW k,
         \A as, m : <<as, m, k>> \in doc.places =>
           doc.value[k][<<as, m>>] \in Texts(Ats(doc.nodes)),
         NEW f \in Parts, NEW m, Ready(doc, f, m, k)
  PROVE  Part(f, m, doc.value[k]) \in Texts(Ats(doc.nodes))
<1> DEFINE A == Ats(doc.nodes)
           v == doc.value[k]
<1>1. 0 \in A /\ \A n \in doc.nodes : n.at \in A
  BY DEF Ats
<1>2. \A n : <<"expr", n, k>> \in doc.places => v[<<"expr", n>>] \in Texts(A)
  OBVIOUS
<1>3. ASSUME NEW s, Scoped(doc.places, s, k) PROVE PartStmts(s, v) \in Texts(A)
  <2> DEFINE values == [i \in 1 .. Len(s.kids) |-> v[<<"stmt", s.kids[i]>>]]
  <2>1. Len(s.kids) \in Nat /\ \A i \in 1 .. Len(s.kids) : values[i] \in Texts(A)
    BY <1>3 DEF Scoped
  <2> HIDE DEF values
  <2>2. Arr(Len(s.kids), values) \in Texts(A)
    BY <1>1, <2>1, ArrIs
  <2> QED BY <2>2 DEF PartStmts, values
<1>4. ASSUME NEW n \in doc.nodes
      PROVE  /\ Of("double", n.at) \in Texts(A) /\ Of("name", n.at) \in Texts(A)
             /\ Of("op", n.at) \in Texts(A) /\ Of("type", n.at) \in Texts(A)
  BY <1>1, OfIs
<1> HIDE DEF A, v
<1>5. ASSUME NEW n, DeclReady(doc.nodes, n)
      PROVE  Type(n) \in Texts(A) /\ Id(n) \in Texts(A)
  <2>1. Of("type", TypeAt(n)) \in Texts(A) /\ Of("name", NameAt(n)) \in Texts(A)
    BY <1>4, <1>5 DEF DeclReady, TypeAt, NameAt
  <2>2. "type" \in Words /\ "id" \in Words
    BY DEF Words
  <2> QED BY <1>1, <2>1, <2>2, MemberIs DEF Type, Id
<1>6. ASSUME NEW x \in Texts(A)
      PROVE  /\ Member("lhs", x) \in Texts(A) /\ Member("rhs", x) \in Texts(A)
             /\ Member("op", x) \in Texts(A) /\ Member("expr", x) \in Texts(A)
             /\ Member("id", x) \in Texts(A) /\ Member("scope", x) \in Texts(A)
             /\ Member("range", x) \in Texts(A)
  <2>1. /\ "lhs" \in Words /\ "rhs" \in Words /\ "op" \in Words /\ "expr" \in Words
        /\ "id" \in Words /\ "scope" \in Words /\ "range" \in Words
    BY DEF Words
  <2> QED BY <1>1, <2>1, MemberIs
<1>7. CASE f = "Term"
  <2>1. m \in doc.nodes
    BY <1>7 DEF Ready
  <2>2. /\ "_TERM_NUMLIT" \in Words /\ "num_lit" \in Words /\ "_TERM_IDENT" \in Words
        /\ "id" \in Words
    BY DEF Words
  <2>3. /\ Tagged("_TERM_NUMLIT", "num_lit", Of("double", m.at)) \in Texts(A)
        /\ Tagged("_TERM_IDENT", "id", Of("name", m.at)) \in Texts(A)
    BY <1>1, <1>4, <2>1, <2>2, TaggedIs
  <2> QED BY <1>7, <2>3 DEF Part, A
<1>8. CASE f = "BinExpr"
  <2>1. /\ m \in doc.nodes /\ v[<<"expr", m.kids[1]>>] \in Texts(A)
        /\ v[<<"expr", m.kids[2]>>] \in Texts(A)
    BY <1>2, <1>8 DEF Ready
  <2>2. /\ Member("lhs", v[<<"expr", m.kids[1]>>]) \in Texts(A)
        /\ Member("rhs", v[<<"expr", m.kids[2]>>]) \in Texts(A)
        /\ Member("op", Of("op", m.at)) \in Texts(A)
    BY <1>4, <1>6, <2>1
  <2>3. Obj(<< Member("lhs", v[<<"expr", m.kids[1]>>]),
               Member("rhs", v[<<"expr", m.kids[2]>>]), Member("op", Of("op", m.at)) >>)
          \in Texts(A)
    BY <1>1, <2>2, ObjIs
  <2> QED BY <1>8, <2>3 DEF Part, A, v
<1>9. CASE f = "Exit"
  <2>1. Member("expr", v[<<"expr", m.kids[1]>>]) \in Texts(A)
    BY <1>2, <1>6, <1>9 DEF Ready
  <2>2. Obj(<< Member("expr", v[<<"expr", m.kids[1]>>]) >>) \in Texts(A)
    BY <1>1, <2>1, ObjIs
  <2> QED BY <1>9, <2>2 DEF Part, A, v
<1>10. CASE f = "Asgn"
  <2>1. m.kids[1] \in doc.nodes /\ v[<<"expr", m.kids[2]>>] \in Texts(A)
    BY <1>2, <1>10 DEF Ready
  <2>2. /\ Member("id", Of("name", m.kids[1].at)) \in Texts(A)
        /\ Member("expr", v[<<"expr", m.kids[2]>>]) \in Texts(A)
    BY <1>4, <1>6, <2>1
  <2>3. Obj(<< Member("id", Of("name", m.kids[1].at)),
               Member("expr", v[<<"expr", m.kids[2]>>]) >>) \in Texts(A)
    BY <1>1, <2>2, ObjIs
  <2> QED BY <1>10, <2>3 DEF Part, A, v
<1>11. CASE f = "Decl"
  <2>1. Type(m) \in Texts(A) /\ Id(m) \in Texts(A)
    BY <1>5, <1>11 DEF Ready
  <2>2. Obj(<< Type(m), Id(m) >>) \in Texts(A)
    BY <1>1, <2>1, ObjIs
  <2> QED BY <1>11, <2>2 DEF Part, A
<1>12. CASE f = "VarDef"
  <2>1. /\ Type(m.kids[1]) \in Texts(A) /\ Id(m.kids[1]) \in Texts(A)
        /\ v[<<"expr", m.kids[2]>>] \in Texts(A)
    BY <1>2, <1>5, <1>12 DEF Ready
  <2>2. Member("expr", v[<<"expr", m.kids[2]>>]) \in Texts(A)
    BY <1>6, <2>1
  <2>3. Obj(<< Type(m.kids[1]), Id(m.kids[1]), Member("expr", v[<<"expr", m.kids[2]>>]) >>)
          \in Texts(A)
    BY <1>1, <2>1, <2>2, ObjIs
  <2> QED BY <1>12, <2>3 DEF Part, A, v
<1>13. CASE f = "For"
  <2> DEFINE d == m.kids[1].kids[1]
             p == Type(d)
             q == Id(d)
             r == Member("scope", PartStmts(m.kids[3], v))
             s == Member("range", v[<<"expr", m.kids[2]>>])
  <2>1. /\ DeclReady(doc.nodes, d) /\ v[<<"expr", m.kids[2]>>] \in Texts(A)
        /\ Scoped(doc.places, m.kids[3], k)
    BY <1>2, <1>13 DEF Ready
  <2>2. p \in Texts(A) /\ q \in Texts(A)
    BY <1>5, <2>1
  <2>3. r \in Texts(A) /\ s \in Texts(A)
    BY <1>3, <1>6, <2>1 DEF A, v
  <2>4. Part(f, m, v) = Obj(<< p, q, r, s >>)
    BY <1>13 DEF Part
  <2> HIDE DEF p, q, r, s
  <2>5. Obj(<< p, q, r, s >>) \in Texts(A)
    BY <1>1, <2>2, <2>3, ObjIs
  <2> QED BY <2>4, <2>5 DEF A, v
<1>14. CASE f = "Scope"
  BY <1>3, <1>14 DEF Ready, Part, A, v
<1>15. CASE f = "If"
  <2>1. /\ v[<<"expr", m.kids[1]>>] \in Texts(A) /\ Scoped(doc.places, m.kids[2], k)
    BY <1>2, <1>15 DEF Ready
  <2>2. /\ Member("expr", v[<<"expr", m.kids[1]>>]) \in Texts(A)
        /\ Member("scope", PartStmts(m.kids[2], v)) \in Texts(A)
    BY <1>3, <1>6, <2>1 DEF A, v
  <2>3. Obj(<< Member("expr", v[<<"expr", m.kids[1]>>]),
               Member("scope", PartStmts(m.kids[2], v)) >>) \in Texts(A)
    BY <1>1, <2>2, ObjIs
  <2> QED BY <1>15, <2>3 DEF Part, A, v
<1> QED BY <1>7, <1>8, <1>9, <1>10, <1>11, <1>12, <1>13, <1>14, <1>15 DEF Parts
(* OutputExpr and OutputStmt write one object, that says what kind of node *)
(* it is, and mostly has what another function writes besides.             *)
FunctionOf(as) == IF as = "expr" THEN "Expr" ELSE "Stmt"

TaggedBy(doc, as, m, k, h, key, g) ==
  /\ Ready(doc, g, m, k - 1)
  /\ AstValue(as, m, doc.value[k - 1]) = Tagged(h, key, Part(g, m, doc.value[k - 1]))
  /\ Body(FunctionOf(as), m) = Holding(h, key, Output(g, m))

OnlyHolding(doc, as, m, k, h) ==
  /\ AstValue(as, m, doc.value[k - 1]) = HoldsOnly(h)
  /\ Body(FunctionOf(as), m) = HoldingNone(h)

WrittenSo(doc, as, m, k) ==
  \/ \E h, key \in Words : \E g \in Parts : TaggedBy(doc, as, m, k, h, key, g)
  \/ \E h \in Words : OnlyHolding(doc, as, m, k, h)

LEMMA WrittenAs ==
  ASSUME NEW doc, NEW as, NEW m, NEW k, Legible(doc, as, m, k)
  PROVE  WrittenSo(doc, as, m, k)
<1> DEFINE v == doc.value[k - 1]
<1>1. CASE as = "expr"
  <2>1. Body(FunctionOf(as), m) = OutputExpr(m)
    BY <1>1 DEF FunctionOf, Body
  <2>2. CASE m.nt \in {"NUMLIT", "ID"}
    <3>1. /\ AstValue(as, m, v) = Tagged("_TERM", "term", Part("Term", m, v))
          /\ Body(FunctionOf(as), m) = Holding("_TERM", "term", Output("Term", m))
      BY <1>1, <2>1, <2>2 DEF AstValue, OutputExpr, Part
    <3>2. TaggedBy(doc, as, m, k, "_TERM", "term", "Term")
      BY <1>1, <2>2, <3>1 DEF TaggedBy, Legible, Parts
    <3> QED BY <3>2 DEF Words, Parts, WrittenSo
  <2>3. CASE m.nt = "BinExpr"
    <3>1. /\ AstValue(as, m, v) = Tagged("_BIN_EXPR", "bin_expr", Part("BinExpr", m, v))
          /\ Body(FunctionOf(as), m)
               = Holding("_BIN_EXPR", "bin_expr", Output("BinExpr", m))
      BY <1>1, <2>1, <2>3 DEF AstValue, OutputExpr, Part
    <3>2. TaggedBy(doc, as, m, k, "_BIN_EXPR", "bin_expr", "BinExpr")
      BY <1>1, <2>3, <3>1 DEF TaggedBy, Legible, Parts
    <3> QED BY <3>2 DEF Words, Parts, WrittenSo
  <2>4. CASE m.nt \in {"Interval", "Asgn", "Call"}
    <3>1. \E h \in {"_INTERVAL", "_ASGN", "_CALL"} :
            AstValue(as, m, v) = HoldsOnly(h) /\ Body(FunctionOf(as), m) = HoldingNone(h)
      BY <1>1, <2>1, <2>4 DEF AstValue, OutputExpr
    <3> QED BY <3>1, ZenonT(60) DEF Words, WrittenSo, OnlyHolding
  <2> QED BY <1>1, <2>2, <2>3, <2>4 DEF Legible
<1>2. CASE as = "stmt"
  <2>1. Body(FunctionOf(as), m) = OutputStmt(m)
    BY <1>2 DEF FunctionOf, Body
  <2>2. m.nt \in Parts => Ready(doc, m.nt, m, k - 1)
    BY <1>2 DEF Legible
  <2>3. CASE m.nt = "Exit"
    <3>1. /\ AstValue(as, m, v) = Tagged("_STMT_EXIT", "exit", Part("Exit", m, v))
          /\ OutputStmt(m) = Holding("_STMT_EXIT", "exit", Output("Exit", m))
      BY <1>2, <2>3 DEF AstValue, OutputStmt, Part
    <3>2. TaggedBy(doc, as, m, k, "_STMT_EXIT", "exit", "Exit")
      BY <2>1, <2>2, <2>3, <3>1 DEF TaggedBy, Parts
    <3> QED BY <3>2 DEF Words, Parts, WrittenSo
  <2>4. CASE m.nt = "Asgn"
    <3>1. /\ AstValue(as, m, v) = Tagged("_ASGN", "asgn", Part("Asgn", m, v))
          /\ OutputStmt(m) = Holding("_ASGN", "asgn", Output("Asgn", m))
      BY <1>2, <2>4 DEF AstValue, OutputStmt, Part
    <3>2. TaggedBy(doc, as, m, k, "_ASGN", "asgn", "Asgn")
      BY <2>1, <2>2, <2>4, <3>1 DEF TaggedBy, Parts
    <3> QED BY <3>2 DEF Words, Parts, WrittenSo
  <2>5. CASE m.nt = "Decl"
    <3>1. /\ AstValue(as, m, v) = Tagged("_DECL", "decl", Part("Decl", m, v))
          /\ OutputStmt(m) = Holding("_DECL", "decl", Output("Decl", m))
      BY <1>2, <2>5 DEF AstValue, OutputStmt, Part
    <3>2. TaggedBy(doc, as, m, k, "_DECL", "decl", "Decl")
      BY <2>1, <2>2, <2>5, <3>1 DEF TaggedBy, Parts
    <3> QED BY <3>2 DEF Words, Parts, WrittenSo
  <2>6. CASE m.nt = "VarDef"
    <3>1. /\ AstValue(as, m, v) = Tagged("_VAR_DEF", "def", Part("VarDef", m, v))
          /\ OutputStmt(m) = Holding("_VAR_DEF", "def", Output("VarDef", m))
      BY <1>2, <2>6 DEF AstValue, OutputStmt, Part
    <3>2. TaggedBy(doc, as, m, k, "_VAR_DEF", "def", "VarDef")
      BY <2>1, <2>2, <2>6, <3>1 DEF TaggedBy, Parts
    <3> QED BY <3>2 DEF Words, Parts, WrittenSo
  <2>7. CASE m.nt = "For"
    <3>1. /\ AstValue(as, m, v) = Tagged("_STMT_FOR", "for", Part("For", m, v))
          /\ OutputStmt(m) = Holding("_STMT_FOR", "for", Output("For", m))
      BY <1>2, <2>7 DEF AstValue, OutputStmt, Part, PartStmts
    <3>2. TaggedBy(doc, as, m, k, "_STMT_FOR", "for", "For")
      BY <2>1, <2>2, <2>7, <3>1 DEF TaggedBy, Parts
    <3> QED BY <3>2 DEF Words, Parts, WrittenSo
  <2>8. CASE m.nt = "Scope"
    <3>1. /\ AstValue(as, m, v) = Tagged("_SCOPE", "scope", Part("Scope", m, v))
          /\ OutputStmt(m) = Holding("_SCOPE", "scope", Output("Scope", m))
      BY <1>2, <2>8 DEF AstValue, OutputStmt, Part, PartStmts
    <3>2. TaggedBy(doc, as, m, k, "_SCOPE", "scope", "Scope")
      BY <2>1, <2>2, <2>8, <3>1 DEF TaggedBy, Parts
    <3> QED BY <3>2 DEF Words, Parts, WrittenSo
  <2>9. CASE m.nt = "If"
    <3>1. /\ AstValue(as, m, v) = Tagged("_STMT_IF", "if", Part("If", m, v))
          /\ OutputStmt(m) = Holding("_STMT_IF", "if", Output("If", m))
      BY <1>2, <2>9 DEF AstValue, OutputStmt, Part, PartStmts
    <3>2. TaggedBy(doc, as, m, k, "_STMT_IF", "if", "If")
      BY <2>1, <2>2, <2>9, <3>1 DEF TaggedBy, Parts
    <3> QED BY <3>2 DEF Words, Parts, WrittenSo
  <2>10. CASE m.nt \in {"While", "FunDecl", "FunDef", "Call"}
    <3>1. \E h \in {"_STMT_WHILE", "_FUN_DECL", "_FUN_DEF", "_CALL"} :
            AstValue(as, m, v) = HoldsOnly(h) /\ OutputStmt(m) = HoldingNone(h)
      BY <1>2, <2>10 DEF AstValue, OutputStmt
    <3> QED BY <2>1, <3>1, ZenonT(60) DEF Words, WrittenSo, OnlyHolding
  <2> QED BY <1>2, <2>3, <2>4, <2>5, <2>6, <2>7, <2>8, <2>9, <2>10 DEF Legible
<1> QED BY <1>1, <1>2 DEF Legible

(* Every place has a value of lexemes that are at its nodes, whatever the  *)
(* levels below it: by induction on them.                                  *)
LEMMA PlacesHaveTexts ==
  ASSUME NEW doc, WellRead(doc), NEW as, NEW m, NEW k, <<as, m, k>> \in doc.places
  PROVE  doc.value[k][<<as, m>>] \in Texts(Ats(doc.nodes))
<1> DEFINE A == Ats(doc.nodes)
           Typed(j) == \A b, n : <<b, n, j>> \in doc.places =>
                                   doc.value[j][<<b, n>>] \in Texts(A)
           Ks == {j \in Nat : Typed(j)}
<1>1. 0 \in Ks
  BY DEF WellRead, Legible
<1>2. ASSUME NEW j \in Nat, j \in Ks PROVE j + 1 \in Ks
  <2> SUFFICES ASSUME NEW b, NEW n, <<b, n, j + 1>> \in doc.places
               PROVE  doc.value[j + 1][<<b, n>>] \in Texts(A)
    OBVIOUS
  <2>1. (j + 1) - 1 = j
    OBVIOUS
  <2>2. /\ Legible(doc, b, n, j + 1)
        /\ doc.value[j + 1][<<b, n>>] = AstValue(b, n, doc.value[j])
    BY <2>1 DEF WellRead
  <2>3. 0 \in A
    BY DEF Ats
  <2>4. ASSUME NEW h \in Words, NEW key \in Words, NEW g \in Parts,
               TaggedBy(doc, b, n, j + 1, h, key, g)
        PROVE  AstValue(b, n, doc.value[j]) \in Texts(A)
    <3>1. /\ Ready(doc, g, n, j)
          /\ AstValue(b, n, doc.value[j]) = Tagged(h, key, Part(g, n, doc.value[j]))
      BY <2>1, <2>4 DEF TaggedBy
    <3>2. Typed(j)
      BY <1>2
    <3>3. Part(g, n, doc.value[j]) \in Texts(A)
      BY <3>1, <3>2, PartIs
    <3> QED BY <2>3, <3>1, <3>3, TaggedIs
  <2>5. ASSUME NEW h \in Words, OnlyHolding(doc, b, n, j + 1, h)
        PROVE  AstValue(b, n, doc.value[j]) \in Texts(A)
    <3>1. Atom(Mark(h)) \in Texts(A)
      BY <2>3, MarkIs, AtomIs
    <3> QED BY <2>1, <2>3, <2>5, <3>1, TaggedIs DEF OnlyHolding
  <2> HIDE DEF A
  <2>6. WrittenSo(doc, b, n, j + 1)
    BY <2>2, WrittenAs
  <2> QED BY <2>2, <2>4, <2>5, <2>6 DEF WrittenSo
<1>3. Nat \subseteq Ks
  <2> HIDE DEF Ks
  <2> QED BY <1>1, <1>2, EveryNat
<1>4. k \in Nat
  BY DEF WellRead, Legible
<1> QED BY <1>3, <1>4
-----------------------------------------------------------------------------
(* The body of an Output function is an object or an array of items: a     *)
(* call of the writer for one lexeme, or of another Output function.       *)
Means(doc, call, x) ==
  /\ call.do = "output" /\ call.fn \in Parts \cup {"Expr", "Stmt"}
  /\ \E k \in Nat : /\ Ready(doc, call.fn, call.node, k)
                    /\ x = Val(doc, call.fn, call.node, k)
  /\ x \in Texts(Ats(doc.nodes))

Item(doc, call, x) ==
  \/ /\ call.do = "value" /\ call.arg \in Lexemes(Ats(doc.nodes)) /\ x = Atom(call.arg)
  \/ Means(doc, call, x)

IsSeq(b) == \E Q : b \in Seq(Q)

ObjectWith(doc, b, x, n, ks, vs, ps) ==
  /\ IsSeq(b) /\ n \in Nat /\ Len(b) = 2 * n + 2 /\ b[1] = Object /\ b[2 * n + 2] = End
  /\ \A i \in 1 .. n : /\ ks[i] \in Words /\ Item(doc, b[2 * i + 1], vs[i])
                       /\ b[2 * i] = Key(ks[i]) /\ ps[i] = Member(ks[i], vs[i])
  /\ x = Listed("{", n, ps, "}")
ObjectOf(doc, b, x) == \E n, ks, vs, ps : ObjectWith(doc, b, x, n, ks, vs, ps)

ArrayWith(doc, b, x, n, vs) ==
  /\ IsSeq(b) /\ n \in Nat /\ Len(b) = n + 2 /\ b[1] = Array /\ b[n + 2] = End
  /\ \A i \in 1 .. n : Item(doc, b[i + 1], vs[i])
  /\ x = Listed("[", n, vs, "]")
ArrayOf(doc, b, x) == \E n, vs : ArrayWith(doc, b, x, n, vs)

LEMMA Object1 ==
  ASSUME NEW doc, NEW k \in Words, NEW c, NEW v, Item(doc, c, v)
  PROVE  ObjectOf(doc, << Object, Key(k), c, End >>, Obj(<< Member(k, v) >>))
<1> DEFINE b == << Object, Key(k), c, End >>
           ks == << k >>
           vs == << v >>
           ps == << Member(k, v) >>
<1>1. Len(b) = 2 * 1 + 2 /\ b[1] = Object /\ b[2 * 1 + 2] = End
  OBVIOUS
<1>2. \A i \in 1 .. 1 : /\ ks[i] \in Words /\ Item(doc, b[2 * i + 1], vs[i])
                        /\ b[2 * i] = Key(ks[i]) /\ ps[i] = Member(ks[i], vs[i])
  <2>1. \A i \in 1 .. 1 : i = 1
    OBVIOUS
  <2> QED BY <2>1
<1>5. IsSeq(b)
  <2>1. b \in Seq({Object, Key(k), c, End})
    OBVIOUS
  <2> HIDE DEF b
  <2> QED BY <2>1 DEF IsSeq
<1>3. Obj(ps) = Listed("{", 1, ps, "}")
  BY DEF Obj
<1> HIDE DEF b, ks, vs, ps
<1>4. ObjectOf(doc, b, Obj(ps))
  <2>1. ObjectWith(doc, b, Obj(ps), 1, ks, vs, ps)
    BY <1>1, <1>2, <1>3, <1>5 DEF ObjectWith
  <2> QED BY <2>1 DEF ObjectOf
<1> QED BY <1>4 DEF b, ps

LEMMA Object2 ==
  ASSUME NEW doc, NEW k1 \in Words, NEW c1, NEW v1, Item(doc, c1, v1),
         NEW k2 \in Words, NEW c2, NEW v2, Item(doc, c2, v2)
  PROVE  ObjectOf(doc, << Object, Key(k1), c1, Key(k2), c2, End >>,
                  Obj(<< Member(k1, v1), Member(k2, v2) >>))
<1> DEFINE b == << Object, Key(k1), c1, Key(k2), c2, End >>
           ks == << k1, k2 >>
           vs == << v1, v2 >>
           ps == << Member(k1, v1), Member(k2, v2) >>
<1>1. Len(b) = 2 * 2 + 2 /\ b[1] = Object /\ b[2 * 2 + 2] = End
  OBVIOUS
<1>2. \A i \in 1 .. 2 : /\ ks[i] \in Words /\ Item(doc, b[2 * i + 1], vs[i])
                        /\ b[2 * i] = Key(ks[i]) /\ ps[i] = Member(ks[i], vs[i])
  <2>1. \A i \in 1 .. 2 : i = 1 \/ i = 2
    OBVIOUS
  <2> QED BY <2>1
<1>5. IsSeq(b)
  <2>1. b \in Seq({Object, Key(k1), c1, Key(k2), c2, End})
    OBVIOUS
  <2> HIDE DEF b
  <2> QED BY <2>1 DEF IsSeq
<1>3. Obj(ps) = Listed("{", 2, ps, "}")
  BY DEF Obj
<1> HIDE DEF b, ks, vs, ps
<1>4. ObjectOf(doc, b, Obj(ps))
  <2>1. ObjectWith(doc, b, Obj(ps), 2, ks, vs, ps)
    BY <1>1, <1>2, <1>3, <1>5 DEF ObjectWith
  <2> QED BY <2>1 DEF ObjectOf
<1> QED BY <1>4 DEF b, ps

LEMMA Object3 ==
  ASSUME NEW doc, NEW k1 \in Words, NEW c1, NEW v1, Item(doc, c1, v1),
         NEW k2 \in Words, NEW c2, NEW v2, Item(doc, c2, v2),
         NEW k3 \in Words, NEW c3, NEW v3, Item(doc, c3, v3)
  PROVE  ObjectOf(doc, << Object, Key(k1), c1, Key(k2), c2, Key(k3), c3, End >>,
                  Obj(<< Member(k1, v1), Member(k2, v2), Member(k3, v3) >>))
<1> DEFINE b == << Object, Key(k1), c1, Key(k2), c2, Key(k3), c3, End >>
           ks == << k1, k2, k3 >>
           vs == << v1, v2, v3 >>
           ps == << Member(k1, v1), Member(k2, v2), Member(k3, v3) >>
<1>1. Len(b) = 2 * 3 + 2 /\ b[1] = Object /\ b[2 * 3 + 2] = End
  OBVIOUS
<1>2. \A i \in 1 .. 3 : /\ ks[i] \in Words /\ Item(doc, b[2 * i + 1], vs[i])
                        /\ b[2 * i] = Key(ks[i]) /\ ps[i] = Member(ks[i], vs[i])
  <2>1. \A i \in 1 .. 3 : i = 1 \/ i = 2 \/ i = 3
    OBVIOUS
  <2> QED BY <2>1
<1>5. IsSeq(b)
  <2>1. b \in Seq({Object, Key(k1), c1, Key(k2), c2, Key(k3), c3, End})
    OBVIOUS
  <2> HIDE DEF b
  <2> QED BY <2>1 DEF IsSeq
<1>3. Obj(ps) = Listed("{", 3, ps, "}")
  BY DEF Obj
<1> HIDE DEF b, ks, vs, ps
<1>4. ObjectOf(doc, b, Obj(ps))
  <2>1. ObjectWith(doc, b, Obj(ps), 3, ks, vs, ps)
    BY <1>1, <1>2, <1>3, <1>5 DEF ObjectWith
  <2> QED BY <2>1 DEF ObjectOf
<1> QED BY <1>4 DEF b, ps

LEMMA Object4 ==
  ASSUME NEW doc, NEW k1 \in Words, NEW c1, NEW v1, Item(doc, c1, v1),
         NEW k2 \in Words, NEW c2, NEW v2, Item(doc, c2, v2),
         NEW k3 \in Words, NEW c3, NEW v3, Item(doc, c3, v3),
         NEW k4 \in Words, NEW c4, NEW v4, Item(doc, c4, v4)
  PROVE  ObjectOf(doc,
           << Object, Key(k1), c1, Key(k2), c2, Key(k3), c3, Key(k4), c4, End >>,
           Obj(<< Member(k1, v1), Member(k2, v2), Member(k3, v3), Member(k4, v4) >>))
<1> DEFINE b == << Object, Key(k1), c1, Key(k2), c2, Key(k3), c3, Key(k4), c4, End >>
           ks == << k1, k2, k3, k4 >>
           vs == << v1, v2, v3, v4 >>
           ps == << Member(k1, v1), Member(k2, v2), Member(k3, v3), Member(k4, v4) >>
<1>1. Len(b) = 2 * 4 + 2 /\ b[1] = Object /\ b[2 * 4 + 2] = End
  OBVIOUS
<1>2. \A i \in 1 .. 4 : /\ ks[i] \in Words /\ Item(doc, b[2 * i + 1], vs[i])
                        /\ b[2 * i] = Key(ks[i]) /\ ps[i] = Member(ks[i], vs[i])
  <2>1. \A i \in 1 .. 4 : i = 1 \/ i = 2 \/ i = 3 \/ i = 4
    OBVIOUS
  <2> QED BY <2>1
<1>5. IsSeq(b)
  <2>1. b \in Seq({Object, Key(k1), c1, Key(k2), c2, Key(k3), c3, Key(k4), c4, End})
    OBVIOUS
  <2> HIDE DEF b
  <2> QED BY <2>1 DEF IsSeq
<1>3. Obj(ps) = Listed("{", 4, ps, "}")
  BY DEF Obj
<1> HIDE DEF b, ks, vs, ps
<1>4. ObjectOf(doc, b, Obj(ps))
  <2>1. ObjectWith(doc, b, Obj(ps), 4, ks, vs, ps)
    BY <1>1, <1>2, <1>3, <1>5 DEF ObjectWith
  <2> QED BY <2>1 DEF ObjectOf
<1> QED BY <1>4 DEF b, ps

LEMMA ReadyMeans ==
  ASSUME NEW doc, WellRead(doc), NEW k \in Nat, NEW f \in Parts \cup {"Expr", "Stmt"},
         NEW m, Ready(doc, f, m, k)
  PROVE  Means(doc, Output(f, m), Val(doc, f, m, k))
<1>1. Output(f, m).do = "output" /\ Output(f, m).fn = f /\ Output(f, m).node = m
  BY DEF Output
<1>2. Val(doc, f, m, k) \in Texts(Ats(doc.nodes))
  <2>1. CASE f = "Expr"
    <3>1. <<"expr", m, k>> \in doc.places
      BY <2>1 DEF Ready
    <3> QED BY <2>1, <3>1, PlacesHaveTexts DEF Val
  <2>2. CASE f = "Stmt"
    <3>1. <<"stmt", m, k>> \in doc.places
      BY <2>2 DEF Ready
    <3> QED BY <2>2, <3>1, PlacesHaveTexts DEF Val
  <2>3. CASE f \in Parts
    <3>1. \A as, n : <<as, n, k>> \in doc.places =>
            doc.value[k][<<as, n>>] \in Texts(Ats(doc.nodes))
      BY PlacesHaveTexts
    <3>2. Part(f, m, doc.value[k]) \in Texts(Ats(doc.nodes))
      BY <2>3, <3>1, PartIs
    <3> QED BY <2>3, <3>2 DEF Val, Parts
  <2> QED BY <2>1, <2>2, <2>3
<1> QED BY <1>1, <1>2 DEF Means
LEMMA ValueItem ==
  ASSUME NEW doc, NEW at \in Ats(doc.nodes), NEW k \in {"double", "name", "op", "type"}
  PROVE  Item(doc, Value(k, at), Of(k, at))
<1>1. Lexeme(k, at) \in Lexemes(Ats(doc.nodes))
  BY OfIs
<1> QED BY <1>1 DEF Item, Value, Call, Of

LEMMA HoldsItem ==
  ASSUME NEW doc, NEW h \in Words
  PROVE  Item(doc, Value(h, 0), Atom(Mark(h)))
<1>1. 0 \in Ats(doc.nodes)
  BY DEF Ats
<1>2. Mark(h) \in Lexemes(Ats(doc.nodes))
  BY <1>1, MarkIs
<1> QED BY <1>2 DEF Item, Value, Call, Mark

(* A list of statements.                                                   *)
LEMMA StmtsAre ==
  ASSUME NEW doc, WellRead(doc), NEW k \in Nat, NEW s, Scoped(doc.places, s, k)
  PROVE  ArrayOf(doc, OutputScope(s), PartStmts(s, doc.value[k]))
<1> DEFINE n == Len(s.kids)
           cs == [i \in 1 .. n |-> Output("Stmt", s.kids[i])]
           vs == [i \in 1 .. n |-> doc.value[k][<<"stmt", s.kids[i]>>]]
           b == << Array >> \o cs \o << End >>
<1>1. n \in Nat /\ \A i \in 1 .. n : Item(doc, cs[i], vs[i])
  <2>1. n \in Nat /\ \A i \in 1 .. n : Ready(doc, "Stmt", s.kids[i], k)
    BY DEF Scoped, Ready
  <2>2. \A i \in 1 .. n : Means(doc, Output("Stmt", s.kids[i]), Val(doc, "Stmt", s.kids[i], k))
    BY <2>1, ReadyMeans
  <2> QED BY <2>1, <2>2 DEF Item, Val
<1>2. /\ IsSeq(b) /\ Len(b) = n + 2 /\ b[1] = Array /\ b[n + 2] = End
      /\ \A i \in 1 .. n : b[i + 1] = cs[i]
  <2>1. PICK S : S = {cs[i] : i \in 1 .. n} \cup {Array, End}
    OBVIOUS
  <2>2. \A c \in S : << c >> \in Seq(S) /\ Len(<< c >>) = 1 /\ << c >>[1] = c
    OBVIOUS
  <2>3. /\ cs \in Seq(S) /\ Len(cs) = n /\ << Array >> \in Seq(S) /\ << End >> \in Seq(S)
        /\ Len(<< Array >>) = 1 /\ << Array >>[1] = Array
        /\ Len(<< End >>) = 1 /\ << End >>[1] = End
    <3>1. cs \in Seq(S) /\ Len(cs) = n
      BY <1>1, <2>1
    <3>2. Array \in S /\ End \in S
      BY <2>1
    <3> QED BY <2>2, <3>1, <3>2
  <2> HIDE DEF cs
  <2>4. << Array >> \o cs \in Seq(S) /\ Len(<< Array >> \o cs) = n + 1
    BY <1>1, <2>3, ConcatProperties
  <2>5. /\ (<< Array >> \o cs)[1] = Array
        /\ \A i \in 1 .. n : (<< Array >> \o cs)[i + 1] = cs[i]
    BY <1>1, <2>3, ConcatProperties
  <2>6. /\ Len(b) = n + 2 /\ b[n + 2] = End
        /\ \A i \in 1 .. n + 1 : b[i] = (<< Array >> \o cs)[i]
    BY <1>1, <2>3, <2>4, ConcatProperties
  <2>8. IsSeq(b)
    <3>1. b \in Seq(S)
      BY <2>3, <2>4, ConcatProperties
    <3> QED BY <3>1 DEF IsSeq
  <2>7. 1 \in 1 .. n + 1 /\ \A i \in 1 .. n : i + 1 \in 1 .. n + 1
    BY <1>1
  <2> QED BY <2>5, <2>6, <2>7, <2>8
<1> HIDE DEF n, cs, vs, b
<1>3. ArrayWith(doc, b, Arr(n, vs), n, vs)
  BY <1>1, <1>2 DEF ArrayWith, Arr
<1>4. ArrayOf(doc, b, Arr(n, vs))
  BY <1>3 DEF ArrayOf
<1> QED BY <1>4 DEF n, cs, vs, b, OutputScope, PartStmts

LEMMA BodyIs ==
  ASSUME NEW doc, WellRead(doc), NEW k \in Nat, NEW f \in Parts \cup {"Expr", "Stmt"},
         NEW m, Ready(doc, f, m, k)
  PROVE  \/ ObjectOf(doc, Body(f, m), Val(doc, f, m, k))
         \/ ArrayOf(doc, Body(f, m), Val(doc, f, m, k))
<1> DEFINE v == doc.value[k]
<1>1. \A n \in doc.nodes : n.at \in Ats(doc.nodes)
  BY DEF Ats
<1>2. ASSUME NEW n, <<"expr", n, k>> \in doc.places
      PROVE  Item(doc, Output("Expr", n), v[<<"expr", n>>])
  <2>1. Ready(doc, "Expr", n, k)
    BY <1>2 DEF Ready
  <2>2. Means(doc, Output("Expr", n), Val(doc, "Expr", n, k))
    BY <2>1, ReadyMeans
  <2> QED BY <2>2 DEF Item, Val
<1>3. ASSUME NEW s, Scoped(doc.places, s, k)
      PROVE  Item(doc, Output("Scope", s), PartStmts(s, v))
  <2>1. Ready(doc, "Scope", s, k)
    BY <1>3 DEF Ready
  <2>2. Means(doc, Output("Scope", s), Val(doc, "Scope", s, k))
    BY <2>1, ReadyMeans DEF Parts
  <2> QED BY <2>2 DEF Item, Val, Part
<1>4. ASSUME NEW n, DeclReady(doc.nodes, n)
      PROVE  /\ Item(doc, Value("type", TypeAt(n)), Of("type", TypeAt(n)))
             /\ Item(doc, Value("name", NameAt(n)), Of("name", NameAt(n)))
  BY <1>1, <1>4, ValueItem DEF DeclReady, TypeAt, NameAt
<1>5. /\ "holds" \in Words /\ "lhs" \in Words /\ "rhs" \in Words /\ "op" \in Words
      /\ "expr" \in Words /\ "id" \in Words /\ "scope" \in Words /\ "range" \in Words
      /\ "type" \in Words /\ "num_lit" \in Words /\ "_TERM_NUMLIT" \in Words
      /\ "_TERM_IDENT" \in Words
  BY DEF Words
<1>6. ASSUME NEW h \in Words, NEW key \in Words, NEW c, NEW x, Item(doc, c, x)
      PROVE  ObjectOf(doc, Holding(h, key, c), Tagged(h, key, x))
  <2>1. Item(doc, Value(h, 0), Atom(Mark(h)))
    BY HoldsItem
  <2> QED BY <1>5, <1>6, <2>1, Object2 DEF Holding, Tagged, Holds
<1>7. ASSUME NEW h \in Words
      PROVE  ObjectOf(doc, HoldingNone(h), HoldsOnly(h))
  <2>1. Item(doc, Value(h, 0), Atom(Mark(h)))
    BY HoldsItem
  <2> QED BY <1>5, <2>1, Object1 DEF HoldingNone, HoldsOnly, Holds
<1> HIDE DEF v
<1>8. ASSUME NEW as, f = FunctionOf(as), as \in {"expr", "stmt"},
             <<as, m, k>> \in doc.places
      PROVE  ObjectOf(doc, Body(f, m), Val(doc, f, m, k))
  <2>1. Legible(doc, as, m, k) /\ v[<<as, m>>] = AstValue(as, m, doc.value[k - 1])
    BY <1>8 DEF WellRead, v
  <2>2. Val(doc, f, m, k) = AstValue(as, m, doc.value[k - 1])
    BY <1>8, <2>1 DEF Val, FunctionOf, v
  <2>3. k - 1 \in Nat
    BY <2>1 DEF Legible
  <2>4. ASSUME NEW h \in Words, NEW key \in Words, NEW g \in Parts,
               TaggedBy(doc, as, m, k, h, key, g)
        PROVE  ObjectOf(doc, Body(f, m), Val(doc, f, m, k))
    <3>1. Means(doc, Output(g, m), Val(doc, g, m, k - 1))
      BY <2>3, <2>4, ReadyMeans DEF TaggedBy
    <3>2. Item(doc, Output(g, m), Part(g, m, doc.value[k - 1]))
      BY <3>1 DEF Item, Val, Parts
    <3>3. ObjectOf(doc, Holding(h, key, Output(g, m)),
                   Tagged(h, key, Part(g, m, doc.value[k - 1])))
      BY <1>6, <3>2
    <3> QED BY <1>8, <2>2, <2>4, <3>3 DEF TaggedBy
  <2>5. ASSUME NEW h \in Words, OnlyHolding(doc, as, m, k, h)
        PROVE  ObjectOf(doc, Body(f, m), Val(doc, f, m, k))
    BY <1>7, <1>8, <2>2, <2>5 DEF OnlyHolding
  <2>6. WrittenSo(doc, as, m, k)
    BY <2>1, WrittenAs
  <2> QED BY <2>4, <2>5, <2>6 DEF WrittenSo
<1>9. CASE f = "Expr"
  BY <1>8, <1>9 DEF FunctionOf, Ready
<1>10. CASE f = "Stmt"
  BY <1>8, <1>10 DEF FunctionOf, Ready
<1>11. CASE f = "Term"
  <2>1. /\ Item(doc, Value("double", m.at), Of("double", m.at))
        /\ Item(doc, Value("name", m.at), Of("name", m.at))
    BY <1>1, <1>11, ValueItem DEF Ready
  <2>2. /\ ObjectOf(doc, Holding("_TERM_NUMLIT", "num_lit", Value("double", m.at)),
                    Tagged("_TERM_NUMLIT", "num_lit", Of("double", m.at)))
        /\ ObjectOf(doc, Holding("_TERM_IDENT", "id", Value("name", m.at)),
                    Tagged("_TERM_IDENT", "id", Of("name", m.at)))
    BY <1>5, <1>6, <2>1
  <2> QED BY <1>11, <2>2 DEF Body, OutputTerm, Val, Part
<1>12. CASE f = "BinExpr"
  <2>1. /\ Item(doc, Output("Expr", m.kids[1]), v[<<"expr", m.kids[1]>>])
        /\ Item(doc, Output("Expr", m.kids[2]), v[<<"expr", m.kids[2]>>])
        /\ Item(doc, Value("op", m.at), Of("op", m.at))
    BY <1>1, <1>2, <1>12, ValueItem DEF Ready
  <2>2. Body(f, m) = OutputBinExpr(m) /\ Val(doc, f, m, k) = Part(f, m, v)
    BY <1>12 DEF Body, Val, v
  <2>3. ObjectOf(doc, OutputBinExpr(m), Part(f, m, v))
    BY <1>5, <1>12, <2>1, Object3 DEF OutputBinExpr, Part
  <2> QED BY <2>2, <2>3
<1>13. CASE f = "Exit"
  <2>1. Item(doc, Output("Expr", m.kids[1]), v[<<"expr", m.kids[1]>>])
    BY <1>2, <1>13 DEF Ready
  <2>2. Body(f, m) = OutputExit(m) /\ Val(doc, f, m, k) = Part(f, m, v)
    BY <1>13 DEF Body, Val, v
  <2>3. ObjectOf(doc, OutputExit(m), Part(f, m, v))
    BY <1>5, <1>13, <2>1, Object1 DEF OutputExit, Part
  <2> QED BY <2>2, <2>3
<1>14. CASE f = "Asgn"
  <2>1. /\ Item(doc, Value("name", m.kids[1].at), Of("name", m.kids[1].at))
        /\ Item(doc, Output("Expr", m.kids[2]), v[<<"expr", m.kids[2]>>])
    BY <1>1, <1>2, <1>14, ValueItem DEF Ready
  <2>2. Body(f, m) = OutputAsgn(m) /\ Val(doc, f, m, k) = Part(f, m, v)
    BY <1>14 DEF Body, Val, v
  <2>3. ObjectOf(doc, OutputAsgn(m), Part(f, m, v))
    BY <1>5, <1>14, <2>1, Object2 DEF OutputAsgn, Part
  <2> QED BY <2>2, <2>3
<1>15. CASE f = "Decl"
  <2>1. DeclReady(doc.nodes, m)
    BY <1>15 DEF Ready
  <2>2. Body(f, m) = OutputDecl(m) /\ Val(doc, f, m, k) = Part(f, m, v)
    BY <1>15 DEF Body, Val, v
  <2>3. ObjectOf(doc, OutputDecl(m), Part(f, m, v))
    BY <1>4, <1>5, <1>15, <2>1, Object2 DEF OutputDecl, Part, Type, Id
  <2> QED BY <2>2, <2>3
<1>16. CASE f = "VarDef"
  <2>1. /\ DeclReady(doc.nodes, m.kids[1])
        /\ Item(doc, Output("Expr", m.kids[2]), v[<<"expr", m.kids[2]>>])
    BY <1>2, <1>16 DEF Ready
  <2>2. Body(f, m) = OutputDef(m) /\ Val(doc, f, m, k) = Part(f, m, v)
    BY <1>16 DEF Body, Val, v
  <2>3. ObjectOf(doc, OutputDef(m), Part(f, m, v))
    BY <1>4, <1>5, <1>16, <2>1, Object3 DEF OutputDef, Part, Type, Id
  <2> QED BY <2>2, <2>3
<1>17. CASE f = "For"
  <2>1. /\ DeclReady(doc.nodes, m.kids[1].kids[1])
        /\ Item(doc, Output("Expr", m.kids[2]), v[<<"expr", m.kids[2]>>])
        /\ Item(doc, Output("Scope", m.kids[3]), PartStmts(m.kids[3], v))
    BY <1>2, <1>3, <1>17 DEF Ready
  <2>2. Body(f, m) = OutputFor(m) /\ Val(doc, f, m, k) = Part(f, m, v)
    BY <1>17 DEF Body, Val, v
  <2>3. ObjectOf(doc, OutputFor(m), Part(f, m, v))
    BY <1>4, <1>5, <1>17, <2>1, Object4 DEF OutputFor, Part, Type, Id
  <2> QED BY <2>2, <2>3
<1>18. CASE f = "Scope"
  <2>1. Scoped(doc.places, m, k)
    BY <1>18 DEF Ready
  <2>2. Body(f, m) = OutputScope(m) /\ Val(doc, f, m, k) = PartStmts(m, v)
    BY <1>18 DEF Body, Val, v, Part
  <2> QED BY <2>1, <2>2, StmtsAre DEF v
<1>19. CASE f = "If"
  <2>1. /\ Item(doc, Output("Expr", m.kids[1]), v[<<"expr", m.kids[1]>>])
        /\ Item(doc, Output("Scope", m.kids[2]), PartStmts(m.kids[2], v))
    BY <1>2, <1>3, <1>19 DEF Ready
  <2>2. Body(f, m) = OutputIf(m) /\ Val(doc, f, m, k) = Part(f, m, v)
    BY <1>19 DEF Body, Val, v
  <2>3. ObjectOf(doc, OutputIf(m), Part(f, m, v))
    BY <1>5, <1>19, <2>1, Object2 DEF OutputIf, Part
  <2> QED BY <2>2, <2>3
<1> QED
  BY <1>9, <1>10, <1>11, <1>12, <1>13, <1>14, <1>15, <1>16, <1>17, <1>18, <1>19 DEF Parts
-----------------------------------------------------------------------------
(* How a writer with room for everything goes through calls: before each,  *)
(* its stack, what it writes from there on, and the heights of the stack   *)
(* from there on.  An Output function is one step of it.  (The provers do  *)
(* better with a name than with a field, a tuple or a concatenation.)      *)
TextOf(v) == v.text
One(c)    == << c >>
Cat(s, t) == s \o t

Config(A) == [stack : Seq(Entry), text : Seq(Lexemes(A)), heights : SUBSET Nat]

Element(type, n) == [nodeType |-> type, elementNo |-> n]

(* A value is due on s: after it the stack is b, and before it a comma may *)
(* be.                                                                     *)
Due(s, b, sep) ==
  \/ b # <<>> /\ s = Append(b, StackNode("VALUE")) /\ sep = <<>>
  \/ \E u \in Seq(Entry) : \E n \in Nat :
       /\ s = Append(u, Element("ARRAY", n)) /\ b = Append(u, Element("ARRAY", n + 1))
       /\ sep = TextOf(Separator(n + 1))

KeyLeads(call, x, y) ==
  \E k \in Words : \E u \in Seq(Entry) : \E n \in Nat :
    /\ call = Key(k)
    /\ x.stack = Append(u, Element("OBJECT", n))
    /\ y.stack = Append(Append(u, Element("OBJECT", n + 1)), StackNode("VALUE"))
    /\ TextOf(x) = Cat(TextOf(Separator(n + 1)),
                       Cat(One(Mark(k)), Cat(One(Mark(":")), TextOf(y))))
    /\ x.heights = {Len(u) + 2} \cup y.heights

ItemLeads(x, y, v) ==
  \E sep : /\ Due(x.stack, y.stack, sep)
           /\ TextOf(x) = Cat(sep, Cat(TextOf(v), TextOf(y)))
           /\ x.heights = {Len(y.stack) + h : h \in v.heights} \cup y.heights

OpenLeads(type, brace, x, y) ==
  \E b \in Seq(Entry) : \E sep :
    /\ Due(x.stack, b, sep)
    /\ y.stack = Append(b, StackNode(type))
    /\ TextOf(x) = Cat(sep, Cat(One(Mark(brace)), TextOf(y)))
    /\ x.heights = {Len(b) + 1} \cup y.heights

EndLeads(type, brace, x, y) ==
  \E u \in Seq(Entry) : \E n \in Nat :
    /\ u # <<>> /\ x.stack = Append(u, Element(type, n)) /\ y.stack = u
    /\ TextOf(x) = Cat(One(Mark(brace)), TextOf(y))
    /\ x.heights = y.heights

Leads(doc, call, x, y) ==
  /\ TextOf(y) # <<>>
  /\ \/ KeyLeads(call, x, y)
     \/ \E v : Item(doc, call, v) /\ ItemLeads(x, y, v)
     \/ call = Object /\ OpenLeads("OBJECT", "{", x, y)
     \/ call = Array /\ OpenLeads("ARRAY", "[", x, y)
     \/ call = End /\ EndLeads("OBJECT", "}", x, y)
     \/ call = End /\ EndLeads("ARRAY", "]", x, y)

Runs(doc, calls, y) ==
  /\ y \in [1 .. Len(calls) + 1 -> Config(Ats(doc.nodes))]
  /\ \A j \in 1 .. Len(calls) : Leads(doc, calls[j], y[j], y[j + 1])

LEMMA CatIs ==
  ASSUME NEW S, NEW s \in Seq(S), NEW t \in Seq(S)
  PROVE  /\ Cat(s, t) \in Seq(S) /\ Cat(<<>>, t) = t
         /\ t # <<>> => Cat(s, t) # <<>>
         /\ \A u \in Seq(S) : Cat(Cat(s, t), u) = Cat(s, Cat(t, u))
<1>1. Cat(s, t) \in Seq(S)
  BY ConcatProperties DEF Cat
<1>2. Cat(<<>>, t) = t
  BY ConcatEmptySeq DEF Cat
<1>3. t # <<>> => Cat(s, t) # <<>>
  BY ConcatEqualIffEmpty DEF Cat
<1>4. \A u \in Seq(S) : Cat(Cat(s, t), u) = Cat(s, Cat(t, u))
  BY ConcatAssociative DEF Cat
<1> QED BY <1>1, <1>2, <1>3, <1>4

LEMMA OneIs ==
  ASSUME NEW S, NEW c \in S
  PROVE  One(c) \in Seq(S) /\ Len(One(c)) = 1 /\ One(c)[1] = c
BY DEF One

LEMMA Pair ==
  ASSUME NEW S, NEW c \in S, NEW d \in S
  PROVE  << c, d >> = << c >> \o << d >>
<1>1. PICK p, q : p = << c >> /\ q = << d >>
  OBVIOUS
<1>2. /\ p \in Seq(S) /\ Len(p) = 1 /\ p[1] = c
      /\ q \in Seq(S) /\ Len(q) = 1 /\ q[1] = d
  BY <1>1
<1>3. PICK r : r = p \o q
  OBVIOUS
<1>4. /\ r \in Seq(S) /\ Len(r) = 2
      /\ \A i \in 1 .. 2 : r[i] = IF i <= 1 THEN p[i] ELSE q[i - 1]
  <2>1. /\ p \o q \in Seq(S) /\ Len(p \o q) = Len(p) + Len(q)
        /\ \A i \in 1 .. Len(p) + Len(q) :
             (p \o q)[i] = IF i <= Len(p) THEN p[i] ELSE q[i - Len(p)]
    BY <1>2, ConcatProperties
  <2> QED BY <1>2, <1>3, <2>1
<1>5. r[1] = c /\ r[2] = d
  BY <1>2, <1>4
<1>6. r = << c, d >>
  BY <1>4, <1>5
<1> QED BY <1>1, <1>3, <1>6

LEMMA TextIs ==
  ASSUME NEW A, NEW v \in Texts(A)
  PROVE  TextOf(v) \in Seq(Lexemes(A)) /\ v.heights \in SUBSET Nat
BY DEF TextOf, Texts

LEMMA ThenText ==
  ASSUME NEW A, NEW v \in Texts(A), NEW w \in Texts(A), NEW t \in Seq(Lexemes(A))
  PROVE  Cat(TextOf(Then(v, w)), t) = Cat(TextOf(v), Cat(TextOf(w), t))
<1>1. TextOf(Then(v, w)) = Cat(TextOf(v), TextOf(w))
  BY DEF TextOf, Then, Cat
<1>2. TextOf(v) \in Seq(Lexemes(A)) /\ TextOf(w) \in Seq(Lexemes(A))
  BY TextIs
<1> QED BY <1>1, <1>2, CatIs

LEMMA MemberText ==
  ASSUME NEW A, 0 \in A, NEW k \in Words, NEW v \in Texts(A), NEW t \in Seq(Lexemes(A))
  PROVE  Cat(TextOf(Member(k, v)), t)
           = Cat(One(Mark(k)), Cat(One(Mark(":")), Cat(TextOf(v), t)))
<1> DEFINE m == Mark(k)
           c == Mark(":")
<1>1. m \in Lexemes(A) /\ c \in Lexemes(A)
  BY MarkIs, ZenonT(60) DEF Words
<1>2. KeyPart(k) \in Texts(A) /\ TextOf(KeyPart(k)) = << m, c >>
  BY MemberIs DEF KeyPart, TextOf
<1> HIDE DEF m, c
<1>3. One(m) \in Seq(Lexemes(A)) /\ One(c) \in Seq(Lexemes(A))
  BY <1>1, OneIs
<1>4. << m, c >> = Cat(One(m), One(c))
  BY <1>1, Pair DEF Cat, One
<1>5. TextOf(v) \in Seq(Lexemes(A)) /\ Cat(TextOf(v), t) \in Seq(Lexemes(A))
  <2>1. TextOf(v) \in Seq(Lexemes(A))
    BY TextIs
  <2> QED BY <2>1, CatIs
<1>6. Cat(TextOf(Member(k, v)), t) = Cat(TextOf(KeyPart(k)), Cat(TextOf(v), t))
  BY <1>2, ThenText DEF Member
<1>7. Cat(Cat(One(m), One(c)), Cat(TextOf(v), t))
        = Cat(One(m), Cat(One(c), Cat(TextOf(v), t)))
  BY <1>3, <1>5, CatIs
<1> QED BY <1>2, <1>4, <1>6, <1>7 DEF m, c

LEMMA DueIs ==
  ASSUME NEW A, 0 \in A, NEW s, NEW b \in Seq(Entry), NEW sep, Due(s, b, sep)
  PROVE  sep \in Seq(Lexemes(A)) /\ b # <<>>
<1>1. CASE b # <<>> /\ s = Append(b, StackNode("VALUE")) /\ sep = <<>>
  BY <1>1
<1>2. ASSUME NEW u \in Seq(Entry), NEW n \in Nat,
             b = Append(u, Element("ARRAY", n + 1)), sep = TextOf(Separator(n + 1))
      PROVE  sep \in Seq(Lexemes(A)) /\ b # <<>>
  <2>1. sep \in Seq(Lexemes(A))
    BY <1>2, SeparatorIs, TextIs
  <2>2. Element("ARRAY", n + 1) \in Entry
    BY DEF Element, Entry, NodeTypes
  <2>3. Len(b) = Len(u) + 1 /\ Len(u) \in Nat
    BY <1>2, <2>2, AppendProperties
  <2> QED BY <2>1, <2>3
<1> QED BY <1>1, <1>2 DEF Due

LEMMA ElementIs ==
  ASSUME NEW type \in NodeTypes, NEW n \in Nat, NEW b \in Seq(Entry)
  PROVE  /\ Element(type, n) \in Entry /\ StackNode(type) = Element(type, 0)
         /\ Append(b, Element(type, n)) \in Seq(Entry)
         /\ Len(Append(b, Element(type, n))) = Len(b) + 1
<1>1. Element(type, n) \in Entry /\ StackNode(type) = Element(type, 0)
  BY DEF Element, Entry, StackNode
<1> QED BY <1>1, AppendProperties

(* Heights, raised by b.                                                   *)
LEMMA Heights ==
  ASSUME NEW b \in Nat, NEW H \in SUBSET Nat, NEW G \in SUBSET Nat
  PROVE  /\ {b + h : h \in {1} \cup {1 + g : g \in H}}
              = {b + 1} \cup {b + 1 + h : h \in H}
         /\ {b + 1 + h : h \in {1} \cup H} = {b + 2} \cup {b + 1 + h : h \in H}
         /\ {b + h : h \in H \cup G} = {b + h : h \in H} \cup {b + h : h \in G}
         /\ {b + h : h \in H} \in SUBSET Nat
<1>1. \A h \in Nat : b + (1 + h) = b + 1 + h /\ b + h \in Nat
  OBVIOUS
<1>2. b + 1 + 1 = b + 2
  OBVIOUS
<1>3. {b + h : h \in {1} \cup {1 + g : g \in H}} = {b + 1} \cup {b + 1 + h : h \in H}
  <2>1. ASSUME NEW x \in {b + h : h \in {1} \cup {1 + g : g \in H}}
        PROVE  x \in {b + 1} \cup {b + 1 + h : h \in H}
    <3>1. PICK h \in {1} \cup {1 + g : g \in H} : x = b + h
      OBVIOUS
    <3> QED BY <1>1, <3>1
  <2>2. ASSUME NEW x \in {b + 1} \cup {b + 1 + h : h \in H}
        PROVE  x \in {b + h : h \in {1} \cup {1 + g : g \in H}}
    <3>1. CASE x = b + 1
      BY <3>1
    <3>2. ASSUME NEW h \in H, x = b + 1 + h
          PROVE  x \in {b + i : i \in {1} \cup {1 + g : g \in H}}
      <4>1. 1 + h \in {1} \cup {1 + g : g \in H} /\ x = b + (1 + h)
        BY <1>1, <3>2
      <4> QED BY <4>1
    <3> QED BY <2>2, <3>1, <3>2
  <2> QED BY <2>1, <2>2
<1>4. {b + 1 + h : h \in {1} \cup H} = {b + 2} \cup {b + 1 + h : h \in H}
  BY <1>2
<1>5. {b + h : h \in H \cup G} = {b + h : h \in H} \cup {b + h : h \in G}
  OBVIOUS
<1>6. {b + h : h \in H} \in SUBSET Nat
  BY <1>1
<1> QED BY <1>3, <1>4, <1>5, <1>6
LEMMA ItemIs ==
  ASSUME NEW doc, NEW call, NEW v, Item(doc, call, v)
  PROVE  v \in Texts(Ats(doc.nodes))
BY AtomIs DEF Item, Means

(* The brackets of a value, and what is between them.                      *)
LEMMA AtomFields ==
  ASSUME NEW c, NEW x, x = Atom(c)
  PROVE  TextOf(x) = One(c) /\ x.heights = {}
BY DEF Atom, TextOf, One

EnclosedSo(open, v, b, t, x) ==
  /\ Cat(TextOf(x), t) = Cat(One(Mark(open)), Cat(TextOf(v), t))
  /\ {b + h : h \in x.heights} = {b + 1} \cup {b + 1 + h : h \in v.heights}

LEMMA EnclosedText ==
  ASSUME NEW A, 0 \in A, NEW open \in Words, NEW v \in Texts(A), NEW b \in Nat,
         NEW t \in Seq(Lexemes(A)), NEW x, x = Enclosed(Then(Atom(Mark(open)), v))
  PROVE  EnclosedSo(open, v, b, t, x)
<1> DEFINE o == Atom(Mark(open))
<1>1. o \in Texts(A) /\ TextOf(o) = One(Mark(open)) /\ o.heights = {}
  BY MarkIs, AtomIs DEF Atom, TextOf, One
<1>2. Then(o, v) \in Texts(A) /\ Then(o, v).heights = v.heights
  BY <1>1, ThenIs DEF Then
<1>3. TextOf(x) = TextOf(Then(o, v)) /\ x.heights = {1} \cup {1 + h : h \in v.heights}
  BY <1>2 DEF Enclosed, TextOf
<1> HIDE DEF o
<1>4. Cat(TextOf(Then(o, v)), t) = Cat(TextOf(o), Cat(TextOf(v), t))
  BY <1>1, ThenText
<1>5. {b + h : h \in x.heights} = {b + 1} \cup {b + 1 + h : h \in v.heights}
  <2>1. PICK H \in SUBSET Nat : H = v.heights
    BY TextIs
  <2>2. x.heights = {1} \cup {1 + g : g \in H}
    BY <1>3, <2>1
  <2>3. {b + h : h \in {1} \cup {1 + g : g \in H}} = {b + 1} \cup {b + 1 + h : h \in H}
    BY Heights
  <2> QED BY <2>1, <2>2, <2>3
<1> QED BY <1>1, <1>3, <1>4, <1>5 DEF EnclosedSo

LEMMA ObjectRuns ==
  ASSUME NEW doc, NEW b, NEW x, NEW n, NEW ks, NEW vs, NEW ps,
         ObjectWith(doc, b, x, n, ks, vs, ps),
         NEW a \in Config(Ats(doc.nodes)), NEW z \in Config(Ats(doc.nodes)),
         TextOf(z) # <<>>, ItemLeads(a, z, x)
  PROVE  \E y : Runs(doc, b, y) /\ y[1] = a /\ y[Len(b) + 1] = z
<1> DEFINE A == Ats(doc.nodes)
           B == z.stack
           t == TextOf(z)
<1>1. /\ 0 \in A /\ n \in Nat
      /\ \A i \in 1 .. n : /\ ks[i] \in Words /\ vs[i] \in Texts(A)
                           /\ ps[i] = Member(ks[i], vs[i]) /\ ps[i] \in Texts(A)
  <2>1. 0 \in A /\ n \in Nat
    BY DEF Ats, ObjectWith
  <2>2. \A i \in 1 .. n : /\ ks[i] \in Words /\ vs[i] \in Texts(A)
                          /\ ps[i] = Member(ks[i], vs[i])
    BY ItemIs DEF ObjectWith
  <2> QED BY <2>1, <2>2, MemberIs
<1>2. B \in Seq(Entry) /\ Len(B) \in Nat /\ t \in Seq(Lexemes(A)) /\ z.heights \in SUBSET Nat
  BY DEF Config, TextOf
<1>3. "{" \in Words /\ "}" \in Words
  BY DEF Words
<1> HIDE DEF A, B, t
<1>4. PICK r : /\ Behind(A, n, ps, "}", r)
               /\ x = Enclosed(Then(Atom(Mark("{")), r[1]))
  <2>1. x = Listed("{", n, ps, "}")
    BY DEF ObjectWith
  <2>2. \A i \in 1 .. n : ps[i] \in Texts(A)
    BY <1>1
  <2>3. BehindOpen(A, "{", n, ps, "}", Listed("{", n, ps, "}"))
    BY <1>1, <1>3, <2>2, ListedIs
  <2> QED BY <2>1, <2>3 DEF BehindOpen
<1>5. /\ \A i \in 1 .. n + 1 : r[i] \in Texts(A)
      /\ r[n + 1] = Atom(Mark("}"))
      /\ \A i \in 1 .. n : r[i] = Then(Then(Separator(i), ps[i]), r[i + 1])
      /\ 1 \in 1 .. n + 1 /\ n + 1 \in 1 .. n + 1
      /\ \A i \in 1 .. n : i \in 1 .. n + 1 /\ i + 1 \in 1 .. n + 1
  <2>1. /\ 1 \in 1 .. n + 1 /\ n + 1 \in 1 .. n + 1
        /\ \A i \in 1 .. n : i \in 1 .. n + 1 /\ i + 1 \in 1 .. n + 1
    BY <1>1
  <2>2. /\ r \in [1 .. n + 1 -> Texts(A)] /\ r[n + 1] = Atom(Mark("}"))
        /\ \A i \in 1 .. n : r[i] = Then(Then(Separator(i), ps[i]), r[i + 1])
    BY <1>4 DEF Behind
  <2>3. \A i \in 1 .. n + 1 : r[i] \in Texts(A)
    BY <2>2
  <2> QED BY <2>1, <2>2, <2>3
<1>6. PICK sep : /\ Due(a.stack, B, sep)
                 /\ TextOf(a) = Cat(sep, Cat(TextOf(x), t))
                 /\ a.heights = {Len(B) + h : h \in x.heights} \cup z.heights
  BY DEF ItemLeads, B, t
<1>7. B # <<>>
  BY <1>1, <1>2, <1>6, DueIs
<1> DEFINE Raised(H) == {Len(B) + 1 + h : h \in H}
           KT(i) == Cat(TextOf(r[i]), t)
           VT(i) == Cat(TextOf(vs[i]), KT(i + 1))
           KH(i) == Raised(r[i].heights) \cup z.heights
           VH(i) == Raised(vs[i].heights) \cup KH(i + 1)
           KS(i) == Append(B, Element("OBJECT", i - 1))
           VS(i) == Append(Append(B, Element("OBJECT", i)), StackNode("VALUE"))
           K(i) == [stack |-> KS(i), text |-> KT(i), heights |-> KH(i)]
           V(i) == [stack |-> VS(i), text |-> VT(i), heights |-> VH(i)]
<1>8. \A i \in 1 .. n + 1 : /\ KT(i) \in Seq(Lexemes(A)) /\ KT(i) # <<>>
                            /\ KH(i) \in SUBSET Nat
                            /\ KS(i) \in Seq(Entry) /\ Len(KS(i)) = Len(B) + 1
  <2> TAKE i \in 1 .. n + 1
  <2>1. TextOf(r[i]) \in Seq(Lexemes(A)) /\ r[i].heights \in SUBSET Nat
    BY <1>5, TextIs
  <2>2. KT(i) \in Seq(Lexemes(A)) /\ KT(i) # <<>>
    BY <1>2, <2>1, CatIs DEF t
  <2>3. KH(i) \in SUBSET Nat
    BY <1>2, <2>1
  <2>4. i - 1 \in Nat /\ "OBJECT" \in NodeTypes
    BY <1>1 DEF NodeTypes
  <2>5. KS(i) \in Seq(Entry) /\ Len(KS(i)) = Len(B) + 1
    BY <1>2, <2>4, ElementIs
  <2> QED BY <2>2, <2>3, <2>5
<1>9. \A i \in 1 .. n : /\ VT(i) \in Seq(Lexemes(A)) /\ VT(i) # <<>>
                        /\ VH(i) \in SUBSET Nat /\ VS(i) \in Seq(Entry)
                        /\ TextOf(vs[i]) \in Seq(Lexemes(A)) /\ vs[i].heights \in SUBSET Nat
  <2> TAKE i \in 1 .. n
  <2>1. TextOf(vs[i]) \in Seq(Lexemes(A)) /\ vs[i].heights \in SUBSET Nat
    BY <1>1, TextIs
  <2>2. KT(i + 1) \in Seq(Lexemes(A)) /\ KT(i + 1) # <<>> /\ KH(i + 1) \in SUBSET Nat
    BY <1>5, <1>8
  <2> HIDE DEF KT, KH
  <2>3. VT(i) \in Seq(Lexemes(A)) /\ VT(i) # <<>>
    BY <2>1, <2>2, CatIs
  <2>4. VH(i) \in SUBSET Nat
    BY <1>2, <2>1, <2>2
  <2>5. i \in Nat /\ "OBJECT" \in NodeTypes /\ "VALUE" \in NodeTypes /\ 0 \in Nat
    BY <1>1 DEF NodeTypes
  <2>6. Append(B, Element("OBJECT", i)) \in Seq(Entry)
    BY <1>2, <2>5, ElementIs
  <2>7. StackNode("VALUE") \in Entry
    BY DEF StackNode, Entry, NodeTypes
  <2>8. VS(i) \in Seq(Entry)
    BY <2>6, <2>7, AppendProperties
  <2> QED BY <2>1, <2>3, <2>4, <2>8
<1>10. \A i \in 1 .. n + 1 : K(i) \in Config(A)
  <2> HIDE DEF KT, KH, KS
  <2> QED BY <1>8 DEF Config
<1>11. \A i \in 1 .. n : V(i) \in Config(A)
  <2> HIDE DEF VT, VH, VS
  <2> QED BY <1>9 DEF Config
<1>12. \A i : /\ K(i).stack = KS(i) /\ TextOf(K(i)) = KT(i) /\ K(i).heights = KH(i)
              /\ V(i).stack = VS(i) /\ TextOf(V(i)) = VT(i) /\ V(i).heights = VH(i)
  BY DEF TextOf
<1> HIDE DEF K, V
<1>13. Leads(doc, Object, a, K(1))
  <2>0. PICK v \in Texts(A) : v = r[1]
    BY <1>5
  <2>1. /\ Cat(TextOf(x), t) = Cat(One(Mark("{")), Cat(TextOf(v), t))
        /\ {Len(B) + h : h \in x.heights} = {Len(B) + 1} \cup {Len(B) + 1 + h : h \in v.heights}
    <3>1. x = Enclosed(Then(Atom(Mark("{")), v))
      BY <1>4, <2>0
    <3>2. PICK l \in Nat : l = Len(B)
      BY <1>2
    <3>3. 0 \in A
      BY <1>1
    <3>4. /\ Cat(TextOf(x), t) = Cat(One(Mark("{")), Cat(TextOf(v), t))
          /\ {l + h : h \in x.heights} = {l + 1} \cup {l + 1 + h : h \in v.heights}
      <4> HIDE DEF A
      <4>1. t \in Seq(Lexemes(A)) /\ "{" \in Words
        BY <1>2, <1>3
      <4>2. EnclosedSo("{", v, l, t, x)
        BY <3>1, <3>3, <4>1, EnclosedText
      <4> QED BY <4>2 DEF EnclosedSo
    <3> QED BY <3>2, <3>4
  <2>2. /\ Cat(TextOf(x), t) = Cat(One(Mark("{")), KT(1))
        /\ {Len(B) + h : h \in x.heights} = {Len(B) + 1} \cup Raised(r[1].heights)
    BY <2>0, <2>1
  <2>3. K(1).stack = Append(B, StackNode("OBJECT"))
    BY <1>12 DEF Element, StackNode
  <2>4. TextOf(a) = Cat(sep, Cat(One(Mark("{")), TextOf(K(1))))
    BY <1>6, <1>12, <2>2
  <2>5. a.heights = {Len(B) + 1} \cup K(1).heights
    BY <1>6, <1>12, <2>2
  <2>6. OpenLeads("OBJECT", "{", a, K(1))
    BY <1>2, <1>6, <2>3, <2>4, <2>5 DEF OpenLeads
  <2>7. TextOf(K(1)) # <<>>
    BY <1>5, <1>8, <1>12
  <2> QED BY <2>6, <2>7 DEF Leads
<1>14. \A i \in 1 .. n : Leads(doc, Key(ks[i]), K(i), V(i))
  <2> TAKE i \in 1 .. n
  <2> DEFINE p == ps[i]
             s == Separator(i)
             k == ks[i]
  <2>1. s \in Texts(A) /\ p \in Texts(A) /\ p = Member(k, vs[i]) /\ r[i + 1] \in Texts(A)
    BY <1>1, <1>5, SeparatorIs
  <2>2. Then(s, p) \in Texts(A)
    BY <2>1, ThenIs
  <2>3. KT(i) = Cat(TextOf(Then(s, p)), KT(i + 1))
    <3>1. r[i] = Then(Then(s, p), r[i + 1])
      BY <1>5
    <3>2. PICK v, w \in Texts(A) : v = Then(s, p) /\ w = r[i + 1]
      BY <2>1, <2>2
    <3>3. Cat(TextOf(Then(v, w)), t) = Cat(TextOf(v), Cat(TextOf(w), t))
      BY <1>2, ThenText
    <3> QED BY <3>1, <3>2, <3>3
  <2>4. Cat(TextOf(Then(s, p)), KT(i + 1)) = Cat(TextOf(s), Cat(TextOf(p), KT(i + 1)))
    <3>1. KT(i + 1) \in Seq(Lexemes(A))
      BY <1>5, <1>8
    <3> HIDE DEF KT
    <3> QED BY <2>1, <3>1, ThenText
  <2>5. Cat(TextOf(p), KT(i + 1)) = Cat(One(Mark(k)), Cat(One(Mark(":")), VT(i)))
    <3>1. KT(i + 1) \in Seq(Lexemes(A))
      BY <1>5, <1>8
    <3> HIDE DEF KT
    <3> QED BY <1>1, <2>1, <3>1, MemberText
  <2>6. KH(i) = {Len(B) + 2} \cup VH(i)
    <3>1. r[i].heights = ({1} \cup vs[i].heights) \cup r[i + 1].heights
      <4>1. r[i].heights = (s.heights \cup p.heights) \cup r[i + 1].heights
        <5>1. r[i] = Then(Then(s, p), r[i + 1])
          BY <1>5
        <5> HIDE DEF s, p
        <5> QED BY <5>1 DEF Then
      <4>2. s.heights = {}
        BY DEF Separator
      <4>3. p.heights = {1} \cup vs[i].heights
        BY <2>1 DEF Then, Member, KeyPart
      <4> HIDE DEF s, p
      <4> QED BY <4>1, <4>2, <4>3
    <3>2. PICK H \in SUBSET Nat : H = vs[i].heights
      BY <1>9
    <3>3. PICK G \in SUBSET Nat : G = r[i + 1].heights
      BY <2>1, TextIs
    <3>4. Raised({1} \cup H) = {Len(B) + 2} \cup Raised(H)
      BY <1>2, Heights
    <3>5. Raised(({1} \cup H) \cup G) = Raised({1} \cup H) \cup Raised(G)
      OBVIOUS
    <3> HIDE DEF Raised
    <3> QED BY <3>1, <3>2, <3>3, <3>4, <3>5
  <2>7. (i - 1) + 1 = i /\ i - 1 \in Nat
    BY <1>1
  <2>8. KeyLeads(Key(k), K(i), V(i))
    <3>1. TextOf(K(i)) = Cat(TextOf(s), Cat(One(Mark(k)), Cat(One(Mark(":")), TextOf(V(i)))))
      BY <1>12, <2>3, <2>4, <2>5
    <3>2. K(i).heights = {Len(B) + 2} \cup V(i).heights
      BY <1>12, <2>6
    <3>3. K(i).stack = Append(B, Element("OBJECT", i - 1))
      BY <1>12
    <3>4. V(i).stack = Append(Append(B, Element("OBJECT", i)), StackNode("VALUE"))
      BY <1>12
    <3>5. k \in Words
      BY <1>1
    <3> HIDE DEF k, s
    <3>6. KeyLeads(Key(k), K(i), V(i)) <=>
            \E l \in Words : \E u \in Seq(Entry) : \E m \in Nat :
              /\ Key(k) = Key(l)
              /\ K(i).stack = Append(u, Element("OBJECT", m))
              /\ V(i).stack = Append(Append(u, Element("OBJECT", m + 1)), StackNode("VALUE"))
              /\ TextOf(K(i)) = Cat(TextOf(Separator(m + 1)),
                                    Cat(One(Mark(l)), Cat(One(Mark(":")), TextOf(V(i)))))
              /\ K(i).heights = {Len(u) + 2} \cup V(i).heights
      BY DEF KeyLeads
    <3> SUFFICES \E l \in Words : \E u \in Seq(Entry) : \E m \in Nat :
              /\ Key(k) = Key(l)
              /\ K(i).stack = Append(u, Element("OBJECT", m))
              /\ V(i).stack = Append(Append(u, Element("OBJECT", m + 1)), StackNode("VALUE"))
              /\ TextOf(K(i)) = Cat(TextOf(Separator(m + 1)),
                                    Cat(One(Mark(l)), Cat(One(Mark(":")), TextOf(V(i)))))
              /\ K(i).heights = {Len(u) + 2} \cup V(i).heights
      BY <3>6
    <3> B \in Seq(Entry) /\ i - 1 \in Nat
      BY <1>2, <2>7
    <3> WITNESS k \in Words
    <3> WITNESS B \in Seq(Entry)
    <3> WITNESS i - 1 \in Nat
    <3> QED BY <2>7, <3>1, <3>2, <3>3, <3>4 DEF s
  <2>9. TextOf(V(i)) # <<>>
    BY <1>9, <1>12
  <2> QED BY <2>8, <2>9 DEF Leads
<1>15. \A i \in 1 .. n : Leads(doc, b[2 * i + 1], V(i), K(i + 1))
  <2> TAKE i \in 1 .. n
  <2>1. Item(doc, b[2 * i + 1], vs[i])
    BY DEF ObjectWith
  <2>2. /\ K(i + 1).stack = Append(B, Element("OBJECT", i))
        /\ V(i).stack = Append(K(i + 1).stack, StackNode("VALUE"))
    BY <1>1, <1>12
  <2>3. Due(V(i).stack, K(i + 1).stack, <<>>)
    <3>1. K(i + 1).stack # <<>>
      <4>1. Len(K(i + 1).stack) = Len(B) + 1
        BY <1>5, <1>8, <1>12, ZenonT(60)
      <4>2. Len(<<>>) = 0
        OBVIOUS
      <4> QED BY <1>2, <4>1, <4>2
    <3> QED BY <2>2, <3>1 DEF Due
  <2>4. TextOf(V(i)) = Cat(<<>>, Cat(TextOf(vs[i]), TextOf(K(i + 1))))
    <3>1. TextOf(V(i)) = VT(i) /\ VT(i) = Cat(TextOf(vs[i]), TextOf(K(i + 1)))
      BY <1>12
    <3>2. VT(i) \in Seq(Lexemes(A))
      BY <1>9
    <3> HIDE DEF VT
    <3>3. Cat(<<>>, VT(i)) = VT(i)
      BY <3>2, CatIs
    <3> QED BY <3>1, <3>3
  <2>5. V(i).heights = {Len(K(i + 1).stack) + h : h \in vs[i].heights} \cup K(i + 1).heights
    <3>1. Len(K(i + 1).stack) = Len(B) + 1
      BY <1>5, <1>8, <1>12, ZenonT(60)
    <3>2. V(i).heights = VH(i) /\ K(i + 1).heights = KH(i + 1)
      BY <1>12
    <3> HIDE DEF KH
    <3> QED BY <3>1, <3>2
  <2>6. ItemLeads(V(i), K(i + 1), vs[i])
    BY <2>3, <2>4, <2>5 DEF ItemLeads
  <2>7. TextOf(K(i + 1)) # <<>>
    BY <1>5, <1>8, <1>12
  <2> QED BY <2>1, <2>6, <2>7 DEF Leads
<1>16. Leads(doc, End, K(n + 1), z)
  <2>1. K(n + 1).stack = Append(B, Element("OBJECT", n))
    BY <1>1, <1>12
  <2>2. TextOf(K(n + 1)) = Cat(One(Mark("}")), t)
    <3>1. TextOf(r[n + 1]) = One(Mark("}"))
      BY <1>5, AtomFields
    <3> QED BY <1>12, <3>1
  <2>3. K(n + 1).heights = z.heights
    <3>1. r[n + 1].heights = {}
      BY <1>5, AtomFields
    <3> QED BY <1>12, <3>1
  <2>4. EndLeads("OBJECT", "}", K(n + 1), z)
    BY <1>1, <1>2, <1>7, <2>1, <2>2, <2>3 DEF EndLeads, B, t
  <2> QED BY <2>4 DEF Leads
<1> DEFINE M == 2 * n + 2
           y == [j \in 1 .. M + 1 |->
                   IF j = 1 THEN a ELSE IF j = M + 1 THEN z
                   ELSE IF j % 2 = 0 THEN K(j \div 2) ELSE V(j \div 2)]
<1>17. /\ y[1] = a /\ y[M + 1] = z
       /\ \A i \in 1 .. n + 1 : y[2 * i] = K(i)
       /\ \A i \in 1 .. n : y[2 * i + 1] = V(i)
  <2>1. \A i \in 1 .. n + 1 : /\ 2 * i \in 1 .. M + 1 /\ 2 * i # 1 /\ 2 * i # M + 1
                              /\ (2 * i) % 2 = 0 /\ (2 * i) \div 2 = i
    BY <1>1
  <2>2. \A i \in 1 .. n : /\ 2 * i + 1 \in 1 .. M + 1 /\ 2 * i + 1 # 1
                          /\ 2 * i + 1 # M + 1 /\ (2 * i + 1) % 2 = 1
                          /\ (2 * i + 1) \div 2 = i
    BY <1>1
  <2>3. 1 \in 1 .. M + 1 /\ M + 1 \in 1 .. M + 1 /\ M + 1 # 1
    BY <1>1
  <2> HIDE DEF M
  <2> QED BY <2>1, <2>2, <2>3
<1>18. \A j \in 1 .. M + 1 : \/ j = 1 \/ j = M + 1
                             \/ \E i \in 1 .. n + 1 : j = 2 * i
                             \/ \E i \in 1 .. n : j = 2 * i + 1
  <2> TAKE j \in 1 .. M + 1
  <2>1. j = 2 * (j \div 2) \/ j = 2 * (j \div 2) + 1
    OBVIOUS
  <2>2. j \div 2 \in 0 .. n + 1
    BY <1>1
  <2> QED BY <1>1, <2>1, <2>2
<1>19. y \in [1 .. M + 1 -> Config(A)]
  <2>1. \A j \in 1 .. M + 1 : y[j] \in Config(A)
    <3> HIDE DEF y
    <3> QED BY <1>10, <1>11, <1>17, <1>18 DEF A
  <2> QED BY <2>1
<1> HIDE DEF y
<1>20. Len(b) = M
  BY DEF ObjectWith
<1>21. \A j \in 1 .. M : Leads(doc, b[j], y[j], y[j + 1])
  <2>1. /\ b[1] = Object /\ b[M] = End /\ M = 2 * (n + 1) /\ 2 * 1 = 1 + 1
        /\ \A i \in 1 .. n : b[2 * i] = Key(ks[i]) /\ (2 * i + 1) + 1 = 2 * (i + 1)
    <3>1. b[1] = Object /\ b[M] = End /\ \A i \in 1 .. n : b[2 * i] = Key(ks[i])
      BY DEF ObjectWith
    <3>2. /\ M = 2 * (n + 1) /\ 2 * 1 = 1 + 1
          /\ \A i \in 1 .. n : (2 * i + 1) + 1 = 2 * (i + 1)
      BY <1>1
    <3> QED BY <3>1, <3>2
  <2>2. Leads(doc, b[1], y[1], y[1 + 1])
    BY <1>5, <1>13, <1>17, <2>1
  <2>3. Leads(doc, b[M], y[M], y[M + 1])
    BY <1>5, <1>16, <1>17, <2>1
  <2>4. \A i \in 1 .. n : Leads(doc, b[2 * i], y[2 * i], y[2 * i + 1])
    BY <1>5, <1>14, <1>17, <2>1
  <2>5. \A i \in 1 .. n : Leads(doc, b[2 * i + 1], y[2 * i + 1], y[(2 * i + 1) + 1])
    BY <1>5, <1>15, <1>17, <2>1
  <2> TAKE j \in 1 .. M
  <2>6. \/ j = 1 \/ j = M
        \/ \E i \in 1 .. n : j = 2 * i
        \/ \E i \in 1 .. n : j = 2 * i + 1
    <3>1. j \in 1 .. M + 1 /\ j # M + 1
      BY <1>1
    <3>2. \A i \in 1 .. n + 1 : i = n + 1 \/ i \in 1 .. n
      BY <1>1
    <3> HIDE DEF M
    <3> QED BY <1>18, <2>1, <3>1, <3>2
  <2> HIDE DEF M
  <2> QED BY <2>2, <2>3, <2>4, <2>5, <2>6
<1> HIDE DEF M
<1>22. Runs(doc, b, y)
  BY <1>19, <1>20, <1>21 DEF Runs, A
<1> QED BY <1>17, <1>20, <1>22
LEMMA ArrayRuns ==
  ASSUME NEW doc, NEW b, NEW x, NEW n, NEW vs, ArrayWith(doc, b, x, n, vs),
         NEW a \in Config(Ats(doc.nodes)), NEW z \in Config(Ats(doc.nodes)),
         TextOf(z) # <<>>, ItemLeads(a, z, x)
  PROVE  \E y : Runs(doc, b, y) /\ y[1] = a /\ y[Len(b) + 1] = z
<1> DEFINE A == Ats(doc.nodes)
           B == z.stack
           t == TextOf(z)
<1>1. 0 \in A /\ n \in Nat /\ \A i \in 1 .. n : vs[i] \in Texts(A)
  <2>1. 0 \in A /\ n \in Nat
    BY DEF Ats, ArrayWith
  <2>2. \A i \in 1 .. n : vs[i] \in Texts(A)
    BY ItemIs DEF ArrayWith
  <2> QED BY <2>1, <2>2
<1>2. B \in Seq(Entry) /\ Len(B) \in Nat /\ t \in Seq(Lexemes(A)) /\ z.heights \in SUBSET Nat
  BY DEF Config, TextOf
<1>3. "[" \in Words /\ "]" \in Words
  BY DEF Words
<1> HIDE DEF A, B, t
<1>4. PICK r : /\ Behind(A, n, vs, "]", r)
               /\ x = Enclosed(Then(Atom(Mark("[")), r[1]))
  <2>1. x = Listed("[", n, vs, "]")
    BY DEF ArrayWith
  <2>2. \A i \in 1 .. n : vs[i] \in Texts(A)
    BY <1>1
  <2>3. BehindOpen(A, "[", n, vs, "]", Listed("[", n, vs, "]"))
    BY <1>1, <1>3, <2>2, ListedIs
  <2> QED BY <2>1, <2>3 DEF BehindOpen
<1>5. /\ \A i \in 1 .. n + 1 : r[i] \in Texts(A)
      /\ r[n + 1] = Atom(Mark("]"))
      /\ \A i \in 1 .. n : r[i] = Then(Then(Separator(i), vs[i]), r[i + 1])
      /\ 1 \in 1 .. n + 1 /\ n + 1 \in 1 .. n + 1
      /\ \A i \in 1 .. n : i \in 1 .. n + 1 /\ i + 1 \in 1 .. n + 1
  <2>1. /\ 1 \in 1 .. n + 1 /\ n + 1 \in 1 .. n + 1
        /\ \A i \in 1 .. n : i \in 1 .. n + 1 /\ i + 1 \in 1 .. n + 1
    BY <1>1
  <2>2. /\ r \in [1 .. n + 1 -> Texts(A)] /\ r[n + 1] = Atom(Mark("]"))
        /\ \A i \in 1 .. n : r[i] = Then(Then(Separator(i), vs[i]), r[i + 1])
    BY <1>4 DEF Behind
  <2>3. \A i \in 1 .. n + 1 : r[i] \in Texts(A)
    BY <2>2
  <2> QED BY <2>1, <2>2, <2>3
<1>6. PICK sep : /\ Due(a.stack, B, sep)
                 /\ TextOf(a) = Cat(sep, Cat(TextOf(x), t))
                 /\ a.heights = {Len(B) + h : h \in x.heights} \cup z.heights
  BY DEF ItemLeads, B, t
<1>7. B # <<>>
  BY <1>1, <1>2, <1>6, DueIs
<1> DEFINE Raised(H) == {Len(B) + 1 + h : h \in H}
           KT(i) == Cat(TextOf(r[i]), t)
           KH(i) == Raised(r[i].heights) \cup z.heights
           KS(i) == Append(B, Element("ARRAY", i - 1))
           K(i) == [stack |-> KS(i), text |-> KT(i), heights |-> KH(i)]
<1>8. \A i \in 1 .. n + 1 : /\ KT(i) \in Seq(Lexemes(A)) /\ KT(i) # <<>>
                            /\ KH(i) \in SUBSET Nat
                            /\ KS(i) \in Seq(Entry) /\ Len(KS(i)) = Len(B) + 1
  <2> TAKE i \in 1 .. n + 1
  <2>1. TextOf(r[i]) \in Seq(Lexemes(A)) /\ r[i].heights \in SUBSET Nat
    BY <1>5, TextIs
  <2>2. KT(i) \in Seq(Lexemes(A)) /\ KT(i) # <<>>
    BY <1>2, <2>1, CatIs DEF t
  <2>3. KH(i) \in SUBSET Nat
    BY <1>2, <2>1
  <2>4. i - 1 \in Nat /\ "ARRAY" \in NodeTypes
    BY <1>1 DEF NodeTypes
  <2>5. KS(i) \in Seq(Entry) /\ Len(KS(i)) = Len(B) + 1
    BY <1>2, <2>4, ElementIs
  <2> QED BY <2>2, <2>3, <2>5
<1>9. \A i \in 1 .. n + 1 : K(i) \in Config(A)
  <2> HIDE DEF KT, KH, KS
  <2> QED BY <1>8 DEF Config
<1>10. \A i : K(i).stack = KS(i) /\ TextOf(K(i)) = KT(i) /\ K(i).heights = KH(i)
  BY DEF TextOf
<1> HIDE DEF K
<1>11. Leads(doc, Array, a, K(1))
  <2>1. PICK v \in Texts(A) : v = r[1]
    BY <1>5
  <2>2. /\ Cat(TextOf(x), t) = Cat(One(Mark("[")), Cat(TextOf(v), t))
        /\ {Len(B) + h : h \in x.heights} = {Len(B) + 1} \cup {Len(B) + 1 + h : h \in v.heights}
    <3>1. x = Enclosed(Then(Atom(Mark("[")), v))
      BY <1>4, <2>1
    <3>2. PICK l \in Nat : l = Len(B)
      BY <1>2
    <3>3. 0 \in A /\ t \in Seq(Lexemes(A)) /\ "[" \in Words
      BY <1>1, <1>2, <1>3
    <3>4. EnclosedSo("[", v, l, t, x)
      BY <3>1, <3>3, EnclosedText
    <3> QED BY <3>2, <3>4 DEF EnclosedSo
  <2>3. /\ Cat(TextOf(x), t) = Cat(One(Mark("[")), KT(1))
        /\ {Len(B) + h : h \in x.heights} = {Len(B) + 1} \cup Raised(r[1].heights)
    BY <2>1, <2>2
  <2>4. K(1).stack = Append(B, StackNode("ARRAY"))
    BY <1>10 DEF Element, StackNode
  <2>5. TextOf(a) = Cat(sep, Cat(One(Mark("[")), TextOf(K(1))))
    BY <1>6, <1>10, <2>3
  <2>6. a.heights = {Len(B) + 1} \cup K(1).heights
    BY <1>6, <1>10, <2>3
  <2>7. OpenLeads("ARRAY", "[", a, K(1))
    BY <1>2, <1>6, <2>4, <2>5, <2>6 DEF OpenLeads
  <2>8. TextOf(K(1)) # <<>>
    BY <1>5, <1>8, <1>10
  <2> QED BY <2>7, <2>8 DEF Leads
<1>12. \A i \in 1 .. n : Leads(doc, b[i + 1], K(i), K(i + 1))
  <2> TAKE i \in 1 .. n
  <2> DEFINE s == Separator(i)
             p == vs[i]
  <2>1. s \in Texts(A) /\ p \in Texts(A) /\ r[i + 1] \in Texts(A)
    BY <1>1, <1>5, SeparatorIs
  <2>2. Then(s, p) \in Texts(A)
    BY <2>1, ThenIs
  <2>3. KT(i) = Cat(TextOf(Then(s, p)), KT(i + 1))
    <3>1. r[i] = Then(Then(s, p), r[i + 1])
      BY <1>5
    <3>2. PICK v, w \in Texts(A) : v = Then(s, p) /\ w = r[i + 1]
      BY <2>1, <2>2
    <3>3. Cat(TextOf(Then(v, w)), t) = Cat(TextOf(v), Cat(TextOf(w), t))
      BY <1>2, ThenText
    <3> QED BY <3>1, <3>2, <3>3
  <2>4. Cat(TextOf(Then(s, p)), KT(i + 1)) = Cat(TextOf(s), Cat(TextOf(p), KT(i + 1)))
    <3>1. KT(i + 1) \in Seq(Lexemes(A))
      BY <1>5, <1>8
    <3> HIDE DEF KT
    <3> QED BY <2>1, <3>1, ThenText
  <2>5. KH(i) = Raised(p.heights) \cup KH(i + 1)
    <3>1. r[i].heights = p.heights \cup r[i + 1].heights
      <4>1. r[i].heights = (s.heights \cup p.heights) \cup r[i + 1].heights
        <5>1. r[i] = Then(Then(s, p), r[i + 1])
          BY <1>5
        <5> HIDE DEF s, p
        <5> QED BY <5>1 DEF Then
      <4>2. s.heights = {}
        BY DEF Separator
      <4> HIDE DEF s, p
      <4> QED BY <4>1, <4>2
    <3>2. Raised(p.heights \cup r[i + 1].heights)
            = Raised(p.heights) \cup Raised(r[i + 1].heights)
      OBVIOUS
    <3> HIDE DEF Raised, p
    <3> QED BY <3>1, <3>2
  <2>6. (i - 1) + 1 = i /\ i - 1 \in Nat /\ (i + 1) - 1 = i
    BY <1>1
  <2>7. /\ K(i).stack = Append(B, Element("ARRAY", i - 1))
        /\ K(i + 1).stack = Append(B, Element("ARRAY", i))
    BY <1>10, <2>6
  <2>8. Due(K(i).stack, K(i + 1).stack, TextOf(s))
    <3> DEFINE j == i - 1
    <3>1. j \in Nat /\ j + 1 = i
      BY <2>6
    <3>2. /\ K(i).stack = Append(B, Element("ARRAY", j))
          /\ K(i + 1).stack = Append(B, Element("ARRAY", j + 1))
          /\ TextOf(s) = TextOf(Separator(j + 1))
      BY <2>7, <3>1
    <3> HIDE DEF j, s
    <3> QED BY <1>2, <3>1, <3>2 DEF Due
  <2>9. TextOf(K(i)) = Cat(TextOf(s), Cat(TextOf(p), TextOf(K(i + 1))))
    BY <1>10, <2>3, <2>4
  <2>10. K(i).heights = {Len(K(i + 1).stack) + h : h \in p.heights} \cup K(i + 1).heights
    <3>1. Len(K(i + 1).stack) = Len(B) + 1
      BY <1>5, <1>8, <1>10
    <3>2. K(i).heights = KH(i) /\ K(i + 1).heights = KH(i + 1)
      BY <1>10
    <3> HIDE DEF KH
    <3> QED BY <2>5, <3>1, <3>2
  <2>11. ItemLeads(K(i), K(i + 1), p)
    BY <2>8, <2>9, <2>10 DEF ItemLeads
  <2>12. TextOf(K(i + 1)) # <<>> /\ Item(doc, b[i + 1], p)
    BY <1>5, <1>8, <1>10 DEF ArrayWith
  <2> QED BY <2>11, <2>12 DEF Leads
<1>13. Leads(doc, End, K(n + 1), z)
  <2>1. K(n + 1).stack = Append(B, Element("ARRAY", n))
    BY <1>1, <1>10
  <2>2. TextOf(K(n + 1)) = Cat(One(Mark("]")), t)
    <3>1. TextOf(r[n + 1]) = One(Mark("]"))
      BY <1>5, AtomFields
    <3> QED BY <1>10, <3>1
  <2>3. K(n + 1).heights = z.heights
    <3>1. r[n + 1].heights = {}
      BY <1>5, AtomFields
    <3> QED BY <1>10, <3>1
  <2>4. EndLeads("ARRAY", "]", K(n + 1), z)
    BY <1>1, <1>2, <1>7, <2>1, <2>2, <2>3 DEF EndLeads, B, t
  <2> QED BY <2>4 DEF Leads
<1> DEFINE M == n + 2
           y == [j \in 1 .. M + 1 |->
                   IF j = 1 THEN a ELSE IF j = M + 1 THEN z ELSE K(j - 1)]
<1>14. y[1] = a /\ y[M + 1] = z /\ \A i \in 1 .. n + 1 : y[i + 1] = K(i)
  <2>1. \A i \in 1 .. n + 1 : /\ i + 1 \in 1 .. M + 1 /\ i + 1 # 1 /\ i + 1 # M + 1
                              /\ (i + 1) - 1 = i
    BY <1>1
  <2>2. 1 \in 1 .. M + 1 /\ M + 1 \in 1 .. M + 1 /\ M + 1 # 1
    BY <1>1
  <2> HIDE DEF M
  <2> QED BY <2>1, <2>2
<1>15. \A j \in 1 .. M + 1 : j = 1 \/ j = M + 1 \/ \E i \in 1 .. n + 1 : j = i + 1
  <2> TAKE j \in 1 .. M + 1
  <2>1. j = (j - 1) + 1 /\ (j # 1 /\ j # M + 1 => j - 1 \in 1 .. n + 1)
    BY <1>1
  <2> QED BY <2>1
<1>16. y \in [1 .. M + 1 -> Config(A)]
  <2>1. \A j \in 1 .. M + 1 : y[j] \in Config(A)
    <3> HIDE DEF y
    <3> QED BY <1>9, <1>14, <1>15 DEF A
  <2> QED BY <2>1
<1> HIDE DEF y
<1>17. Len(b) = M
  BY DEF ArrayWith
<1>18. \A j \in 1 .. M : Leads(doc, b[j], y[j], y[j + 1])
  <2>1. /\ b[1] = Array /\ b[M] = End /\ M = (n + 1) + 1
    BY <1>1 DEF ArrayWith
  <2>2. Leads(doc, b[1], y[1], y[1 + 1])
    BY <1>5, <1>11, <1>14, <2>1
  <2>3. Leads(doc, b[M], y[M], y[M + 1])
    BY <1>5, <1>13, <1>14, <2>1
  <2>4. \A i \in 1 .. n : Leads(doc, b[i + 1], y[i + 1], y[(i + 1) + 1])
    BY <1>5, <1>12, <1>14
  <2> TAKE j \in 1 .. M
  <2>5. j = 1 \/ j = M \/ \E i \in 1 .. n : j = i + 1
    <3>1. j \in 1 .. M + 1 /\ j # M + 1
      BY <1>1
    <3>2. \A i \in 1 .. n + 1 : i = n + 1 \/ i \in 1 .. n
      BY <1>1
    <3> HIDE DEF M
    <3> QED BY <1>15, <2>1, <3>1, <3>2
  <2> HIDE DEF M
  <2> QED BY <2>2, <2>3, <2>4, <2>5
<1> HIDE DEF M
<1>19. Runs(doc, b, y)
  BY <1>16, <1>17, <1>18 DEF Runs, A
<1> QED BY <1>14, <1>17, <1>19

(* An Output function is the calls of its body.                            *)
LEMMA BodyRuns ==
  ASSUME NEW doc, WellRead(doc), NEW call, NEW x, Means(doc, call, x),
         NEW a \in Config(Ats(doc.nodes)), NEW z \in Config(Ats(doc.nodes)),
         TextOf(z) # <<>>, ItemLeads(a, z, x)
  PROVE  LET b == Body(call.fn, call.node)
         IN  IsSeq(b) /\ \E y : Runs(doc, b, y) /\ y[1] = a /\ y[Len(b) + 1] = z
<1> DEFINE b == Body(call.fn, call.node)
<1>1. PICK k \in Nat : Ready(doc, call.fn, call.node, k) /\ x = Val(doc, call.fn, call.node, k)
  BY DEF Means
<1>5. call.fn \in Parts \cup {"Expr", "Stmt"}
  BY DEF Means
<1>2. ObjectOf(doc, b, x) \/ ArrayOf(doc, b, x)
  BY <1>1, <1>5, BodyIs
<1> HIDE DEF b
<1>3. CASE ObjectOf(doc, b, x)
  <2>1. PICK n, ks, vs, ps : ObjectWith(doc, b, x, n, ks, vs, ps)
    BY <1>3 DEF ObjectOf
  <2>2. \E y : Runs(doc, b, y) /\ y[1] = a /\ y[Len(b) + 1] = z
    BY <2>1, ObjectRuns
  <2>3. IsSeq(b)
    BY <2>1 DEF ObjectWith
  <2> QED BY <2>2, <2>3 DEF b
<1>4. CASE ArrayOf(doc, b, x)
  <2>1. PICK n, vs : ArrayWith(doc, b, x, n, vs)
    BY <1>4 DEF ArrayOf
  <2>2. \E y : Runs(doc, b, y) /\ y[1] = a /\ y[Len(b) + 1] = z
    BY <2>1, ArrayRuns
  <2>3. IsSeq(b)
    BY <2>1 DEF ArrayWith
  <2> QED BY <2>2, <2>3 DEF b
<1> QED BY <1>2, <1>3, <1>4
-----------------------------------------------------------------------------
(* The writer itself.  It is on its way, with r left of the text T; or it  *)
(* has stopped, with a part of it written, as the buffer was full.         *)
Begins(s, T) == Len(s) < Len(T) /\ s = SubSeq(T, 1, Len(s))
On(w, r, T)  == w.error = "OK" /\ Cat(w.out, r) = T
Full(w, T)   == /\ w.error # "OK" /\ Begins(w.out, T)
                /\ Len(w.out) + 1 >= MAX_AST_JSON_FILESIZE

LEMMA BeginsIs ==
  ASSUME NEW S, NEW s \in Seq(S), NEW r \in Seq(S), r # <<>>
  PROVE  Begins(s, Cat(s, r))
<1>1. /\ s \o r \in Seq(S) /\ Len(s \o r) = Len(s) + Len(r)
      /\ Len(s) \in Nat /\ Len(r) \in Nat
      /\ \A i \in 1 .. Len(s) + Len(r) :
           (s \o r)[i] = IF i <= Len(s) THEN s[i] ELSE r[i - Len(s)]
  BY ConcatProperties
<1>2. Len(r) # 0
  BY EmptySeq
<1> DEFINE T == s \o r
<1>3. Len(s) < Len(T) /\ \A i \in 1 .. Len(s) : T[i] = s[i] /\ T[i] \in S
  <2>1. \A i \in 1 .. Len(s) : i \in 1 .. Len(s) + Len(r) /\ i <= Len(s) /\ s[i] \in S
    BY <1>1
  <2> QED BY <1>1, <1>2, <2>1
<1> HIDE DEF T
<1>4. SubSeq(T, 1, Len(s)) = s
  <2> DEFINE q == SubSeq(T, 1, Len(s))
             m == Len(s)
  <2>1. m \in Nat /\ m \in Int /\ 1 \in Int /\ \A i \in 1 .. m : T[i] \in S
    BY <1>1, <1>3
  <2>2. /\ SubSeq(T, 1, m) \in Seq(S)
        /\ Len(SubSeq(T, 1, m)) = IF 1 <= m THEN m - 1 + 1 ELSE 0
        /\ \A i \in 1 .. m - 1 + 1 : SubSeq(T, 1, m)[i] = T[1 + i - 1]
    <3> HIDE DEF m
    <3> QED BY <2>1, SubSeqProperties
  <2>3. q \in Seq(S) /\ Len(q) = m
    BY <2>1, <2>2
  <2>4. \A i \in 1 .. m : q[i] = T[i]
    <3>1. \A i \in 1 .. m : i \in 1 .. m - 1 + 1 /\ 1 + i - 1 = i
      BY <2>1
    <3> QED BY <2>2, <3>1
  <2> HIDE DEF q
  <2>5. q = s
    BY <1>3, <2>3, <2>4, SeqEqual
  <2> QED BY <2>5 DEF q
<1> QED BY <1>3, <1>4 DEF Begins, Cat, T

(* The top of a stack.                                                     *)
LEMMA TopIs ==
  ASSUME NEW u \in Seq(Entry), NEW e \in Entry, NEW f \in Entry, NEW s, s = Append(u, e)
  PROVE  /\ s \in Seq(Entry) /\ Len(s) = Len(u) + 1 /\ Len(u) \in Nat /\ s[Len(s)] = e
         /\ SubSeq(s, 1, Len(s) - 1) = u
         /\ [s EXCEPT ![Len(s)] = f] = Append(u, f)
<1>1. /\ s \in Seq(Entry) /\ Len(s) = Len(u) + 1 /\ Len(u) \in Nat /\ s[Len(u) + 1] = e
      /\ \A i \in 1 .. Len(u) : s[i] = u[i]
  BY AppendProperties
<1>2. SubSeq(s, 1, Len(s) - 1) = u
  <2> DEFINE m == Len(u)
             q == SubSeq(s, 1, m)
  <2>1. Len(s) - 1 = m /\ m \in Nat /\ m \in Int /\ 1 \in Int
    BY <1>1
  <2>2. \A i \in 1 .. m : s[i] \in Entry
    BY <1>1
  <2>3. /\ SubSeq(s, 1, m) \in Seq(Entry)
        /\ Len(SubSeq(s, 1, m)) = IF 1 <= m THEN m - 1 + 1 ELSE 0
        /\ \A i \in 1 .. m - 1 + 1 : SubSeq(s, 1, m)[i] = s[1 + i - 1]
    <3> HIDE DEF m
    <3> QED BY <2>1, <2>2, SubSeqProperties
  <2>4. q \in Seq(Entry) /\ Len(q) = m
    BY <2>1, <2>3
  <2>5. \A i \in 1 .. m : q[i] = u[i]
    <3>1. \A i \in 1 .. m : i \in 1 .. m - 1 + 1 /\ 1 + i - 1 = i
      BY <2>1
    <3> QED BY <1>1, <2>3, <3>1
  <2> HIDE DEF q
  <2>6. q = u
    BY <2>4, <2>5, SeqEqual
  <2> QED BY <2>1, <2>6 DEF q
<1>3. [s EXCEPT ![Len(s)] = f] = Append(u, f)
  <2> DEFINE p == [s EXCEPT ![Len(s)] = f]
             q == Append(u, f)
  <2>1. Len(s) \in 1 .. Len(s)
    BY <1>1
  <2>2. /\ p \in Seq(Entry) /\ Len(p) = Len(s)
        /\ \A j \in 1 .. Len(s) : p[j] = IF j = Len(s) THEN f ELSE s[j]
    <3>1. PICK i \in 1 .. Len(s) : i = Len(s)
      BY <2>1
    <3>2. [s EXCEPT ![i] = f] \in Seq(Entry) /\ Len([s EXCEPT ![i] = f]) = Len(s)
      BY <1>1, ExceptSeq
    <3>3. \A j \in 1 .. Len(s) : [s EXCEPT ![i] = f][j] = IF j = i THEN f ELSE s[j]
      <4>1. DOMAIN s = 1 .. Len(s)
        BY <1>1
      <4> QED BY <4>1
    <3> QED BY <3>1, <3>2, <3>3
  <2>3. /\ q \in Seq(Entry) /\ Len(q) = Len(u) + 1 /\ q[Len(u) + 1] = f
        /\ \A i \in 1 .. Len(u) : q[i] = u[i]
    BY AppendProperties
  <2> HIDE DEF p, q
  <2>4. \A j \in 1 .. Len(u) + 1 : j = Len(u) + 1 \/ j \in 1 .. Len(u)
    BY <1>1
  <2>5. \A j \in 1 .. Len(u) : j # Len(u) + 1 /\ j \in 1 .. Len(u) + 1
    BY <1>1
  <2>6. Len(u) + 1 \in 1 .. Len(u) + 1
    BY <1>1
  <2>7. \A j \in 1 .. Len(p) : p[j] = q[j]
    BY <1>1, <2>2, <2>3, <2>4, <2>5, <2>6
  <2>8. p = q
    BY <1>1, <2>2, <2>3, <2>7, SeqEqual
  <2> QED BY <2>8 DEF p, q
<1> QED BY <1>1, <1>2, <1>3
(* What the four functions do to a writer that is on its way, and to one   *)
(* whose buffer is full: that stays full, whatever is called.              *)
LEMMA PutOn ==
  ASSUME NEW S, NEW w \in Writer(S), NEW c \in S, NEW r \in Seq(S), NEW T,
         On(w, Cat(One(c), r), T)
  PROVE  /\ jwPutch(w, c) \in Writer(S) /\ jwPutch(w, c).nodeStack = w.nodeStack
         /\ \/ /\ On(jwPutch(w, c), r, T)
               /\ Len(jwPutch(w, c).out) < MAX_AST_JSON_FILESIZE
            \/ Full(jwPutch(w, c), T)
<1> DEFINE o == w.out
           p == Append(o, c)
<1>1. o \in Seq(S) /\ w.error = "OK" /\ Cat(o, Cat(One(c), r)) = T
  BY DEF Writer, On
<1>2. One(c) \in Seq(S) /\ Len(One(c)) = 1 /\ One(c)[1] = c
  BY OneIs
<1>3. Cat(One(c), r) \in Seq(S) /\ Cat(One(c), r) # <<>>
  <2>1. Cat(One(c), r) \in Seq(S)
    BY <1>2, CatIs
  <2>2. Len(One(c) \o r) = Len(One(c)) + Len(r) /\ Len(r) \in Nat
    BY <1>2, ConcatProperties
  <2>3. Len(<<>>) = 0
    OBVIOUS
  <2> QED BY <1>2, <2>1, <2>2, <2>3 DEF Cat
<1>4. CASE Len(o) + 1 >= MAX_AST_JSON_FILESIZE
  <2>1. /\ jwPutch(w, c) = [w EXCEPT !.error = "BUF_FULL"]
    BY <1>4 DEF jwPutch, Error
  <2>2. /\ jwPutch(w, c) \in Writer(S) /\ jwPutch(w, c).out = o
        /\ jwPutch(w, c).error = "BUF_FULL" /\ jwPutch(w, c).nodeStack = w.nodeStack
    BY <2>1 DEF Writer, Errors
  <2>3. Begins(o, T)
    BY <1>1, <1>3, BeginsIs
  <2> QED BY <1>4, <2>2, <2>3 DEF Full
<1>5. CASE ~(Len(o) + 1 >= MAX_AST_JSON_FILESIZE)
  <2>1. jwPutch(w, c) = [w EXCEPT !.out = p]
    BY <1>5 DEF jwPutch
  <2>2. p \in Seq(S) /\ Len(p) = Len(o) + 1 /\ Len(o) \in Nat
    BY <1>1, AppendProperties
  <2> HIDE DEF p
  <2>3. /\ jwPutch(w, c) \in Writer(S) /\ jwPutch(w, c).out = p
        /\ jwPutch(w, c).error = "OK" /\ jwPutch(w, c).nodeStack = w.nodeStack
    BY <1>1, <2>1, <2>2 DEF Writer
  <2>4. p = Cat(o, One(c))
    BY <1>1 DEF p, Cat, One
  <2> HIDE DEF o
  <2>5. Cat(Cat(o, One(c)), r) = Cat(o, Cat(One(c), r))
    BY <1>1, <1>2, CatIs
  <2>6. On(jwPutch(w, c), r, T)
    BY <1>1, <2>3, <2>4, <2>5 DEF On
  <2> QED BY <1>5, <2>2, <2>3, <2>6, AstOutputAssumption
<1> QED BY <1>4, <1>5

LEMMA PutFull ==
  ASSUME NEW S, NEW w \in Writer(S), NEW c, NEW T, Full(w, T)
  PROVE  jwPutch(w, c) \in Writer(S) /\ Full(jwPutch(w, c), T)
<1>1. jwPutch(w, c) = [w EXCEPT !.error = "BUF_FULL"]
  BY DEF jwPutch, Error, Full
<1>2. /\ jwPutch(w, c) \in Writer(S) /\ jwPutch(w, c).out = w.out
      /\ jwPutch(w, c).error = "BUF_FULL"
  BY <1>1 DEF Writer, Errors
<1> QED BY <1>2 DEF Full

LEMMA PushOn ==
  ASSUME NEW S, NEW w \in Writer(S), NEW type \in NodeTypes
  PROVE  /\ jwPush(w, type) \in Writer(S) /\ jwPush(w, type).out = w.out
         /\ \/ /\ jwPush(w, type).error = w.error
               /\ jwPush(w, type).nodeStack = Append(w.nodeStack, StackNode(type))
               /\ Len(w.nodeStack) + 1 <= JWRITE_STACK_DEPTH
            \/ /\ jwPush(w, type).error = "STACK_FULL"
               /\ Len(w.nodeStack) + 1 > JWRITE_STACK_DEPTH
<1>1. CASE Pos(w) >= JWRITE_STACK_DEPTH
  <2>1. jwPush(w, type) = [w EXCEPT !.error = "STACK_FULL"]
    BY <1>1 DEF jwPush, Error
  <2>2. Len(w.nodeStack) \in Nat
    BY DEF Writer
  <2>3. Len(w.nodeStack) + 1 > JWRITE_STACK_DEPTH
    BY <1>1, <2>2, AstOutputAssumption DEF Pos
  <2> QED BY <2>1, <2>3 DEF Writer, Errors
<1>2. CASE ~(Pos(w) >= JWRITE_STACK_DEPTH)
  <2> DEFINE s == Append(w.nodeStack, StackNode(type))
  <2>1. jwPush(w, type) = [w EXCEPT !.nodeStack = s]
    BY <1>2 DEF jwPush
  <2>2. w.nodeStack \in Seq(Entry) /\ StackNode(type) \in Entry /\ Len(w.nodeStack) \in Nat
    BY DEF Writer, StackNode, Entry
  <2>3. s \in Seq(Entry)
    BY <2>2, AppendProperties
  <2> HIDE DEF s
  <2>4. /\ jwPush(w, type) \in Writer(S) /\ jwPush(w, type).out = w.out
        /\ jwPush(w, type).error = w.error /\ jwPush(w, type).nodeStack = s
    BY <2>1, <2>3 DEF Writer
  <2>5. Len(w.nodeStack) + 1 <= JWRITE_STACK_DEPTH
    BY <1>2, <2>2, AstOutputAssumption DEF Pos
  <2> QED BY <2>4, <2>5 DEF s
<1> QED BY <1>1, <1>2

LEMMA PushFull ==
  ASSUME NEW S, NEW w \in Writer(S), NEW type \in NodeTypes, NEW T, Full(w, T)
  PROVE  Full(jwPush(w, type), T)
BY PushOn DEF Full

LEMMA PopOn ==
  ASSUME NEW S, NEW w \in Writer(S), NEW u \in Seq(Entry), NEW e \in Entry,
         u # <<>>, w.nodeStack = Append(u, e)
  PROVE  /\ jwPop(w) \in Writer(S) /\ jwPop(w).out = w.out
         /\ jwPop(w).error = w.error /\ jwPop(w).nodeStack = u
<1>1. /\ Len(w.nodeStack) = Len(u) + 1 /\ Len(u) \in Nat
      /\ SubSeq(w.nodeStack, 1, Len(w.nodeStack) - 1) = u
  BY TopIs
<1>2. Len(u) # 0
  BY EmptySeq
<1>3. jwPop(w) = [w EXCEPT !.nodeStack = u]
  BY <1>1, <1>2 DEF jwPop, Pos
<1> QED BY <1>3 DEF Writer

LEMMA PopFull ==
  ASSUME NEW S, NEW w \in Writer(S), NEW T, Full(w, T), Len(w.nodeStack) # 0
  PROVE  jwPop(w) \in Writer(S) /\ Full(jwPop(w), T)
<1>1. CASE Pos(w) = 1
  <2>1. jwPop(w) = [w EXCEPT !.error = "STACK_EMPTY"]
    BY <1>1 DEF jwPop, Error
  <2> QED BY <2>1 DEF Writer, Errors, Full
<1>2. CASE Pos(w) # 1
  <2> DEFINE s == SubSeq(w.nodeStack, 1, Pos(w) - 1)
  <2>1. jwPop(w) = [w EXCEPT !.nodeStack = s]
    BY <1>2 DEF jwPop
  <2>2. s \in Seq(Entry)
    <3>1. w.nodeStack \in Seq(Entry) /\ Pos(w) = Len(w.nodeStack) /\ Pos(w) \in Nat
      BY DEF Writer, Pos
    <3>2. PICK m \in Nat : m = Pos(w) - 1
      BY <3>1 DEF Pos
    <3>3. \A i \in 1 .. m : w.nodeStack[i] \in Entry
      BY <3>1, <3>2
    <3>4. m \in Int /\ 1 \in Int
      OBVIOUS
    <3>5. SubSeq(w.nodeStack, 1, m) \in Seq(Entry)
      BY <3>3, <3>4, SubSeqProperties
    <3> QED BY <3>2, <3>5
  <2> HIDE DEF s
  <2>3. /\ jwPop(w) \in Writer(S) /\ jwPop(w).out = w.out /\ jwPop(w).error = w.error
    BY <2>1, <2>2 DEF Writer
  <2> QED BY <2>3 DEF Full
<1> QED BY <1>1, <1>2
(* A comma before what comes next, unless it is the first.                 *)
LEMMA SeparatorText ==
  ASSUME NEW n \in Nat
  PROVE  /\ n > 0 => TextOf(Separator(n + 1)) = One(Mark(","))
         /\ ~(n > 0) => TextOf(Separator(n + 1)) = <<>>
<1>1. TextOf(Separator(n + 1)) = IF n + 1 = 1 THEN <<>> ELSE << Mark(",") >>
  BY DEF TextOf, Separator
<1>2. n > 0 => n + 1 # 1
  OBVIOUS
<1>3. ~(n > 0) => n + 1 = 1
  OBVIOUS
<1> QED BY <1>1, <1>2, <1>3 DEF One

LEMMA ElementCounted ==
  ASSUME NEW type \in NodeTypes, NEW n \in Nat
  PROVE  /\ Element(type, n) \in Entry /\ Element(type, n + 1) \in Entry
         /\ Element(type, n).elementNo = n
         /\ [Element(type, n) EXCEPT !.elementNo = @ + 1] = Element(type, n + 1)
BY DEF Element, Entry

Topped(w, u, type, n) == w.nodeStack = Append(u, Element(type, n))
Counted(w) == [w EXCEPT !.nodeStack[Pos(w)].elementNo = @ + 1]

LEMMA CountTop ==
  ASSUME NEW S, NEW w \in Writer(S), NEW u \in Seq(Entry), NEW n \in Nat,
         NEW type \in NodeTypes, Topped(w, u, type, n)
  PROVE  /\ Counted(w) \in Writer(S) /\ Counted(w).out = w.out
         /\ Counted(w).error = w.error
         /\ Topped(Counted(w), u, type, n + 1)
         /\ w.nodeStack[Pos(w)].elementNo = n
<1>1. PICK e \in Entry : e = Element(type, n)
  BY ElementCounted
<1>2. PICK f \in Entry : f = Element(type, n + 1)
  BY ElementCounted
<1>3. PICK ns \in Seq(Entry) : ns = w.nodeStack
  BY DEF Writer
<1>4. ns = Append(u, e)
  BY <1>1, <1>3 DEF Topped
<1>5. /\ Len(ns) = Len(u) + 1 /\ Len(u) \in Nat /\ ns[Len(ns)] = e
      /\ [ns EXCEPT ![Len(ns)] = f] = Append(u, f)
  BY <1>4, TopIs
<1>6. e.elementNo = n /\ [e EXCEPT !.elementNo = @ + 1] = f
  BY <1>1, <1>2, ElementCounted
<1>7. Counted(w) = [w EXCEPT !.nodeStack = Append(u, f)]
  <2>1. Counted(w) = [w EXCEPT !.nodeStack =
                        [ns EXCEPT ![Len(ns)] = [ns[Len(ns)] EXCEPT !.elementNo = @ + 1]]]
    BY <1>3 DEF Counted, Pos, Writer
  <2> QED BY <1>5, <1>6, <2>1
<1>8. Append(u, f) \in Seq(Entry)
  BY AppendProperties
<1>9. w.nodeStack[Pos(w)].elementNo = n
  BY <1>3, <1>5, <1>6 DEF Pos
<1> QED BY <1>2, <1>7, <1>8, <1>9 DEF Writer, Topped

LEMMA CommaOn ==
  ASSUME NEW S, Mark(",") \in S, NEW w \in Writer(S), NEW u \in Seq(Entry), NEW n \in Nat,
         NEW type \in NodeTypes, Topped(w, u, type, n),
         NEW sep, sep = TextOf(Separator(n + 1)),
         NEW r \in Seq(S), NEW T, On(w, Cat(sep, r), T)
  PROVE  /\ Comma(w) \in Writer(S)
         /\ Topped(Comma(w), u, type, n + 1)
         /\ On(Comma(w), r, T) \/ Full(Comma(w), T)
<1>1. PICK v \in Writer(S) : v = Counted(w)
  <2>1. Counted(w) \in Writer(S)
    BY CountTop
  <2> QED BY <2>1
<1>2. /\ v.out = w.out /\ v.error = w.error
      /\ Topped(v, u, type, n + 1)
      /\ w.nodeStack[Pos(w)].elementNo = n
  BY <1>1, CountTop, ZenonT(60)
<1>3. Comma(w) = IF n > 0 THEN jwPutch(v, Mark(",")) ELSE v
  BY <1>1, <1>2 DEF Comma, Counted
<1>4. On(v, Cat(sep, r), T)
  BY <1>2 DEF On
<1>5. CASE n > 0
  <2>1. On(v, Cat(One(Mark(",")), r), T)
    BY <1>4, <1>5, SeparatorText
  <2>2. /\ jwPutch(v, Mark(",")) \in Writer(S) /\ jwPutch(v, Mark(",")).nodeStack = v.nodeStack
        /\ On(jwPutch(v, Mark(",")), r, T) \/ Full(jwPutch(v, Mark(",")), T)
    BY <2>1, PutOn
  <2> QED BY <1>2, <1>3, <1>5, <2>2 DEF Topped
<1>6. CASE ~(n > 0)
  <2>1. Cat(<<>>, r) = r
    BY CatIs
  <2>2. sep = <<>>
    BY <1>6, SeparatorText
  <2> QED BY <1>2, <1>3, <1>4, <1>6, <2>1, <2>2
<1> QED BY <1>5, <1>6
-----------------------------------------------------------------------------
(* A writer that has the stack s, with r left to write; or is full.        *)
Going(S, v, s, r, T) ==
  v \in Writer(S) /\ v.nodeStack = s /\ (On(v, r, T) \/ Full(v, T))

TooDeep(S, v, h, T) ==
  /\ v \in Writer(S)
  /\ \/ Full(v, T)
     \/ v.error # "OK" /\ Begins(v.out, T) /\ h > JWRITE_STACK_DEPTH

LEMMA PutGoing ==
  ASSUME NEW S, NEW v, NEW s, NEW c \in S, NEW r \in Seq(S), NEW T,
         Going(S, v, s, Cat(One(c), r), T)
  PROVE  Going(S, jwPutch(v, c), s, r, T)
<1>1. v \in Writer(S) /\ v.nodeStack = s
  BY DEF Going
<1>2. CASE On(v, Cat(One(c), r), T)
  BY <1>1, <1>2, PutOn DEF Going
<1>3. CASE Full(v, T)
  <2>1. jwPutch(v, c) = [v EXCEPT !.error = "BUF_FULL"]
    BY <1>3 DEF jwPutch, Error, Full
  <2>2. jwPutch(v, c).nodeStack = s
    BY <1>1, <2>1 DEF Writer
  <2> QED BY <1>1, <1>3, <2>2, PutFull DEF Going
<1> QED BY <1>2, <1>3 DEF Going

LEMMA PopGoing ==
  ASSUME NEW S, NEW v, NEW u \in Seq(Entry), NEW e \in Entry, u # <<>>, NEW r, NEW T,
         NEW s, s = Append(u, e), Going(S, v, s, r, T)
  PROVE  Going(S, jwPop(v), u, r, T)
<1>1. v \in Writer(S) /\ v.nodeStack = Append(u, e) /\ (On(v, r, T) \/ Full(v, T))
  BY DEF Going
<1>2. /\ jwPop(v) \in Writer(S) /\ jwPop(v).out = v.out
      /\ jwPop(v).error = v.error /\ jwPop(v).nodeStack = u
  BY <1>1, PopOn
<1> QED BY <1>1, <1>2 DEF Going, On, Full

LEMMA PushGoing ==
  ASSUME NEW S, NEW v, NEW b \in Seq(Entry), NEW r \in Seq(S), r # <<>>, NEW T,
         Going(S, v, b, r, T), NEW type \in NodeTypes
  PROVE  \/ /\ Going(S, jwPush(v, type), Append(b, StackNode(type)), r, T)
            /\ Len(b) + 1 <= JWRITE_STACK_DEPTH
         \/ TooDeep(S, jwPush(v, type), Len(b) + 1, T)
<1>1. v \in Writer(S) /\ v.nodeStack = b /\ (On(v, r, T) \/ Full(v, T))
  BY DEF Going
<1>2. PICK p \in Writer(S) : p = jwPush(v, type)
  BY <1>1, PushOn
<1>3. /\ p.out = v.out
      /\ \/ /\ p.error = v.error /\ p.nodeStack = Append(b, StackNode(type))
            /\ Len(b) + 1 <= JWRITE_STACK_DEPTH
         \/ p.error = "STACK_FULL" /\ Len(b) + 1 > JWRITE_STACK_DEPTH
  BY <1>1, <1>2, PushOn
<1>4. CASE Full(v, T)
  BY <1>1, <1>2, <1>4, PushFull DEF TooDeep
<1>5. CASE On(v, r, T)
  <2>1. Begins(v.out, T)
    <3>1. v.out \in Seq(S) /\ Cat(v.out, r) = T
      BY <1>1, <1>5 DEF Writer, On
    <3> QED BY <3>1, BeginsIs
  <2>2. CASE /\ p.error = v.error /\ p.nodeStack = Append(b, StackNode(type))
             /\ Len(b) + 1 <= JWRITE_STACK_DEPTH
    BY <1>2, <1>3, <1>5, <2>2 DEF Going, On
  <2>3. CASE p.error = "STACK_FULL" /\ Len(b) + 1 > JWRITE_STACK_DEPTH
    BY <1>2, <1>3, <2>1, <2>3 DEF TooDeep
  <2> QED BY <1>3, <2>2, <2>3
<1> QED BY <1>1, <1>4, <1>5

LEMMA CommaGoing ==
  ASSUME NEW S, Mark(",") \in S, NEW w \in Writer(S), NEW u \in Seq(Entry), NEW n \in Nat,
         NEW type \in NodeTypes, Topped(w, u, type, n),
         NEW sep, sep = TextOf(Separator(n + 1)),
         NEW r \in Seq(S), NEW T, On(w, Cat(sep, r), T),
         NEW s, s = Append(u, Element(type, n + 1))
  PROVE  Going(S, Comma(w), s, r, T)
<1>1. /\ Comma(w) \in Writer(S) /\ Topped(Comma(w), u, type, n + 1)
      /\ On(Comma(w), r, T) \/ Full(Comma(w), T)
  BY CommaOn
<1> QED BY <1>1 DEF Going, Topped

LEMMA TypeOfTop ==
  ASSUME NEW S, NEW w \in Writer(S), NEW u \in Seq(Entry), NEW n \in Nat,
         NEW type \in NodeTypes, Topped(w, u, type, n)
  PROVE  TopType(w) = type
<1>1. PICK e \in Entry : e = Element(type, n)
  BY ElementCounted
<1>2. w.nodeStack[Len(w.nodeStack)] = e
  <2>1. PICK s \in Seq(Entry) : s = w.nodeStack
    BY DEF Writer
  <2>2. s = Append(u, e)
    BY <1>1, <2>1 DEF Topped
  <2>3. s[Len(s)] = e
    BY <2>2, TopIs
  <2> QED BY <2>1, <2>3
<1>3. e.nodeType = type
  BY <1>1 DEF Element
<1> QED BY <1>2, <1>3 DEF TopType, Pos
(* What a call of the writer leads to.                                     *)
Moved(S, v, x, y, T) ==
  \/ /\ Going(S, v, y.stack, TextOf(y), T)
     /\ \A h \in x.heights : h <= JWRITE_STACK_DEPTH \/ h \in y.heights
  \/ \E h \in x.heights : TooDeep(S, v, h, T)

LEMMA FullGoing ==
  ASSUME NEW S, NEW v, NEW s, NEW r, NEW q, NEW T, Going(S, v, s, r, T), v.error # "OK"
  PROVE  Going(S, v, s, q, T) /\ Full(v, T) /\ v \in Writer(S)
BY DEF Going, On

LEMMA KeyMoves ==
  ASSUME NEW A, 0 \in A, NEW S, S = Lexemes(A), NEW w \in Writer(S),
         NEW x \in Config(A), NEW y \in Config(A),
         NEW T, On(w, TextOf(x), T), w.nodeStack = x.stack, TextOf(y) # <<>>,
         NEW call, KeyLeads(call, x, y)
  PROVE  Moved(S, Apply(w, call), x, y, T)
<1>1. PICK k \in Words, u \in Seq(Entry), n \in Nat :
        /\ call = Key(k)
        /\ x.stack = Append(u, Element("OBJECT", n))
        /\ y.stack = Append(Append(u, Element("OBJECT", n + 1)), StackNode("VALUE"))
        /\ TextOf(x) = Cat(TextOf(Separator(n + 1)),
                           Cat(One(Mark(k)), Cat(One(Mark(":")), TextOf(y))))
        /\ x.heights = {Len(u) + 2} \cup y.heights
  BY DEF KeyLeads
<1>2. PICK c \in S : c = Mark(k)
  BY MarkIs
<1>3. PICK d \in S : d = Mark(":")
  BY MarkIs DEF Words
<1>4. Mark(",") \in S
  BY MarkIs DEF Words
<1>5. PICK r \in Seq(S) : r = TextOf(y)
  BY DEF Config, TextOf
<1>6. PICK r1 \in Seq(S) : r1 = Cat(One(d), r)
  BY OneIs, CatIs
<1>7. PICK r2 \in Seq(S) : r2 = Cat(One(c), r1)
  BY OneIs, CatIs
<1>8. "OBJECT" \in NodeTypes /\ "VALUE" \in NodeTypes /\ n + 1 \in Nat
  BY DEF NodeTypes
<1>9. PICK b \in Seq(Entry) : b = Append(u, Element("OBJECT", n + 1))
  BY <1>8, ElementIs
<1>10. Len(b) = Len(u) + 1
  BY <1>8, <1>9, ElementIs
<1>11. PICK sep : sep = TextOf(Separator(n + 1))
  OBVIOUS
<1>12. On(w, Cat(sep, r2), T) /\ Topped(w, u, "OBJECT", n) /\ w.error = "OK"
  <2>1. TextOf(x) = Cat(sep, r2)
    BY <1>1, <1>2, <1>3, <1>5, <1>6, <1>7, <1>11
  <2> QED BY <1>1, <2>1 DEF Topped, On
<1>13. Going(S, Comma(w), b, r2, T)
  BY <1>4, <1>8, <1>9, <1>11, <1>12, CommaGoing
<1>14. Going(S, jwPutch(Comma(w), c), b, r1, T)
  BY <1>7, <1>13, PutGoing
<1>15. Going(S, jwPutch(jwPutch(Comma(w), c), d), b, r, T)
  BY <1>6, <1>14, PutGoing
<1>16. PICK v : v = jwPush(jwPutch(jwPutch(Comma(w), c), d), "VALUE")
  OBVIOUS
<1>17. r # <<>>
  BY <1>5
<1>18. \/ /\ Going(S, v, Append(b, StackNode("VALUE")), r, T)
          /\ Len(b) + 1 <= JWRITE_STACK_DEPTH
       \/ TooDeep(S, v, Len(b) + 1, T)
  BY <1>8, <1>15, <1>16, <1>17, PushGoing
<1>19. Apply(w, call) = v
  <2>1. TopType(w) = "OBJECT"
    BY <1>8, <1>12, TypeOfTop
  <2>2. jw_key(w, c) = v
    BY <1>3, <1>16, <2>1 DEF jw_key
  <2>3. call.do = "key" /\ call.arg = c
    BY <1>1, <1>2 DEF Key, Call
  <2> QED BY <1>12, <2>2, <2>3 DEF Apply
<1>20. Len(b) + 1 = Len(u) + 2
  BY <1>10
<1>21. Len(b) + 1 \in x.heights /\ \A h \in x.heights : h = Len(b) + 1 \/ h \in y.heights
  BY <1>1, <1>20
<1>22. y.stack = Append(b, StackNode("VALUE"))
  BY <1>1, <1>9
<1>23. CASE TooDeep(S, v, Len(b) + 1, T)
  BY <1>19, <1>21, <1>23 DEF Moved
<1>24. CASE /\ Going(S, v, Append(b, StackNode("VALUE")), r, T)
            /\ Len(b) + 1 <= JWRITE_STACK_DEPTH
  <2>1. Going(S, v, y.stack, TextOf(y), T)
    BY <1>5, <1>22, <1>24
  <2>2. \A h \in x.heights : h <= JWRITE_STACK_DEPTH \/ h \in y.heights
    BY <1>21, <1>24
  <2> QED BY <1>19, <2>1, <2>2 DEF Moved
<1> QED BY <1>18, <1>23, <1>24
(* Where a value is due, the stack says so, and so is the place for it.    *)
InValue(S, w, b, r, T) ==
  TopType(w) = "VALUE" /\ \E e \in Entry : Going(S, w, Append(b, e), r, T)
InArray(S, w, b, r, T) ==
  TopType(w) = "ARRAY" /\ Going(S, Comma(w), b, r, T)

LEMMA DueGoing ==
  ASSUME NEW S, Mark(",") \in S, NEW w \in Writer(S), NEW b \in Seq(Entry), NEW sep,
         Due(w.nodeStack, b, sep), NEW r \in Seq(S), NEW T, On(w, Cat(sep, r), T)
  PROVE  /\ b # <<>>
         /\ InValue(S, w, b, r, T) \/ InArray(S, w, b, r, T)
<1>1. "VALUE" \in NodeTypes /\ "ARRAY" \in NodeTypes /\ 0 \in Nat
  BY DEF NodeTypes
<1>2. CASE b # <<>> /\ w.nodeStack = Append(b, StackNode("VALUE")) /\ sep = <<>>
  <2>1. PICK e \in Entry : e = Element("VALUE", 0) /\ e = StackNode("VALUE")
    BY <1>1, ElementIs
  <2>2. Topped(w, b, "VALUE", 0)
    BY <1>2, <2>1 DEF Topped
  <2>3. TopType(w) = "VALUE"
    BY <1>1, <2>2, TypeOfTop
  <2>4. On(w, r, T)
    <3>1. Cat(<<>>, r) = r
      BY CatIs
    <3> QED BY <1>2, <3>1
  <2>5. Going(S, w, Append(b, e), r, T)
    BY <1>2, <2>1, <2>4 DEF Going
  <2> QED BY <1>2, <2>3, <2>5 DEF InValue
<1>3. CASE \E u \in Seq(Entry) : \E n \in Nat :
             /\ w.nodeStack = Append(u, Element("ARRAY", n))
             /\ b = Append(u, Element("ARRAY", n + 1))
             /\ sep = TextOf(Separator(n + 1))
  <2>1. PICK u \in Seq(Entry), n \in Nat :
             /\ w.nodeStack = Append(u, Element("ARRAY", n))
             /\ b = Append(u, Element("ARRAY", n + 1))
             /\ sep = TextOf(Separator(n + 1))
    BY <1>3
  <2>2. Topped(w, u, "ARRAY", n)
    BY <2>1 DEF Topped
  <2>3. TopType(w) = "ARRAY"
    BY <1>1, <2>2, TypeOfTop
  <2>4. Going(S, Comma(w), b, r, T)
    BY <1>1, <2>1, <2>2, CommaGoing
  <2>5. b # <<>>
    <3>1. PICK f \in Entry : f = Element("ARRAY", n + 1)
      BY <1>1, ElementCounted
    <3>2. b = Append(u, f)
      BY <2>1, <3>1
    <3> QED BY <3>2, AppendProperties
  <2> QED BY <2>3, <2>4, <2>5 DEF InArray
<1> QED BY <1>2, <1>3 DEF Due

LEMMA ValueMoves ==
  ASSUME NEW A, 0 \in A, NEW S, S = Lexemes(A), NEW w \in Writer(S),
         NEW x \in Config(A), NEW y \in Config(A),
         NEW T, On(w, TextOf(x), T), w.nodeStack = x.stack,
         NEW call, call.do = "value", call.arg \in S, NEW v, v = Atom(call.arg),
         ItemLeads(x, y, v)
  PROVE  Moved(S, Apply(w, call), x, y, T)
<1>1. PICK sep : /\ Due(x.stack, y.stack, sep)
                 /\ TextOf(x) = Cat(sep, Cat(TextOf(v), TextOf(y)))
                 /\ x.heights = {Len(y.stack) + h : h \in v.heights} \cup y.heights
  BY DEF ItemLeads
<1>2. PICK c \in S : c = call.arg
  OBVIOUS
<1>3. TextOf(v) = One(c) /\ v.heights = {}
  BY <1>2, AtomFields
<1>4. Mark(",") \in S
  BY MarkIs DEF Words
<1>5. PICK r \in Seq(S) : r = TextOf(y)
  BY DEF Config, TextOf
<1>6. PICK r1 \in Seq(S) : r1 = Cat(One(c), r)
  BY OneIs, CatIs
<1>7. PICK b \in Seq(Entry) : b = y.stack
  BY DEF Config
<1>8. On(w, Cat(sep, r1), T) /\ w.error = "OK"
  <2>1. TextOf(x) = Cat(sep, r1)
    BY <1>1, <1>3, <1>5, <1>6
  <2> QED BY <2>1 DEF On
<1>9. x.heights = y.heights
  BY <1>1, <1>3
<1>10. b # <<>> /\ (InValue(S, w, b, r1, T) \/ InArray(S, w, b, r1, T))
  BY <1>1, <1>4, <1>7, <1>8, DueGoing
<1>11. Apply(w, call) = jw_value(w, c)
  BY <1>2, <1>8 DEF Apply
<1>12. Going(S, jw_value(w, c), b, r, T)
  <2>1. CASE InValue(S, w, b, r1, T)
    <3>1. PICK e \in Entry : Going(S, w, Append(b, e), r1, T)
      BY <2>1 DEF InValue
    <3>2. PICK s : s = Append(b, e)
      OBVIOUS
    <3>3. Going(S, jwPutch(w, c), s, r, T)
      BY <1>6, <3>1, <3>2, PutGoing
    <3>4. Going(S, jwPop(jwPutch(w, c)), b, r, T)
      BY <1>10, <3>2, <3>3, PopGoing
    <3> QED BY <2>1, <3>4 DEF InValue, jw_value
  <2>2. CASE InArray(S, w, b, r1, T)
    <3>1. jw_value(w, c) = IF Comma(w).error = "OK" THEN jwPutch(Comma(w), c) ELSE Comma(w)
      BY <2>2 DEF InArray, jw_value, _jwArr, IfOK
    <3>2. Going(S, Comma(w), b, r1, T)
      BY <2>2 DEF InArray
    <3>3. Going(S, jwPutch(Comma(w), c), b, r, T)
      BY <1>6, <3>2, PutGoing
    <3>4. CASE Comma(w).error = "OK"
      BY <3>1, <3>3, <3>4
    <3>5. CASE Comma(w).error # "OK"
      <4>1. Going(S, Comma(w), b, r, T)
        BY <3>2, <3>5, FullGoing
      <4> QED BY <3>1, <3>5, <4>1
    <3> QED BY <3>4, <3>5
  <2> QED BY <1>10, <2>1, <2>2
<1> QED BY <1>5, <1>7, <1>9, <1>11, <1>12 DEF Moved
LEMMA OpenMoves ==
  ASSUME NEW A, 0 \in A, NEW S, S = Lexemes(A), NEW w \in Writer(S),
         NEW x \in Config(A), NEW y \in Config(A),
         NEW T, On(w, TextOf(x), T), w.nodeStack = x.stack, TextOf(y) # <<>>,
         NEW type \in {"OBJECT", "ARRAY"}, NEW brace \in {"{", "["},
         OpenLeads(type, brace, x, y)
  PROVE  Moved(S, Open(w, type, Mark(brace)), x, y, T)
<1>0. PICK b \in Seq(Entry) : \E sep :
    /\ Due(x.stack, b, sep)
    /\ y.stack = Append(b, StackNode(type))
    /\ TextOf(x) = Cat(sep, Cat(One(Mark(brace)), TextOf(y)))
    /\ x.heights = {Len(b) + 1} \cup y.heights
  BY DEF OpenLeads
<1>1. PICK sep :
    /\ Due(x.stack, b, sep)
    /\ y.stack = Append(b, StackNode(type))
    /\ TextOf(x) = Cat(sep, Cat(One(Mark(brace)), TextOf(y)))
    /\ x.heights = {Len(b) + 1} \cup y.heights
  BY <1>0
<1>2. PICK c \in S : c = Mark(brace)
  BY MarkIs DEF Words
<1>3. Mark(",") \in S /\ type \in NodeTypes
  BY MarkIs DEF Words, NodeTypes
<1>4. PICK r \in Seq(S) : r = TextOf(y)
  BY DEF Config, TextOf
<1>5. PICK r1 \in Seq(S) : r1 = Cat(One(c), r)
  BY OneIs, CatIs
<1>6. On(w, Cat(sep, r1), T)
  <2>1. TextOf(x) = Cat(sep, r1)
    BY <1>1, <1>2, <1>4, <1>5
  <2> QED BY <2>1
<1>7. b # <<>> /\ (InValue(S, w, b, r1, T) \/ InArray(S, w, b, r1, T))
  BY <1>1, <1>3, <1>6, DueGoing
<1>8. PICK v : v = Open(w, type, c)
  OBVIOUS
<1>9. r # <<>>
  BY <1>4
<1>10. \/ /\ Going(S, v, Append(b, StackNode(type)), r, T)
          /\ Len(b) + 1 <= JWRITE_STACK_DEPTH
       \/ TooDeep(S, v, Len(b) + 1, T)
  <2>1. CASE InValue(S, w, b, r1, T)
    <3>1. PICK e \in Entry : Going(S, w, Append(b, e), r1, T)
      BY <2>1 DEF InValue
    <3>2. PICK s : s = Append(b, e)
      OBVIOUS
    <3>3. Going(S, jwPop(w), b, r1, T)
      BY <1>7, <3>1, <3>2, PopGoing
    <3>4. Going(S, jwPutch(jwPop(w), c), b, r, T)
      BY <1>5, <3>3, PutGoing
    <3>5. v = jwPush(jwPutch(jwPop(w), c), type)
      BY <1>8, <2>1 DEF InValue, Open
    <3> QED BY <1>3, <1>9, <3>4, <3>5, PushGoing
  <2>2. CASE InArray(S, w, b, r1, T)
    <3>1. v = IF Comma(w).error = "OK" THEN jwPush(jwPutch(Comma(w), c), type)
                                       ELSE Comma(w)
      BY <1>8, <2>2 DEF InArray, Open, _jwArr, IfOK
    <3>2. Going(S, Comma(w), b, r1, T)
      BY <2>2 DEF InArray
    <3>3. Going(S, jwPutch(Comma(w), c), b, r, T)
      BY <1>5, <3>2, PutGoing
    <3>4. CASE Comma(w).error = "OK"
      <4>1. v = jwPush(jwPutch(Comma(w), c), type)
        BY <3>1, <3>4
      <4> QED BY <1>3, <1>9, <3>3, <4>1, PushGoing
    <3>5. CASE Comma(w).error # "OK"
      <4>1. Full(Comma(w), T) /\ Comma(w) \in Writer(S)
        BY <3>2, <3>5, FullGoing
      <4> QED BY <3>1, <3>5, <4>1 DEF TooDeep
    <3> QED BY <3>4, <3>5
  <2> QED BY <1>7, <2>1, <2>2
<1>11. Len(b) + 1 \in x.heights /\ \A h \in x.heights : h = Len(b) + 1 \/ h \in y.heights
  BY <1>1
<1>12. CASE TooDeep(S, v, Len(b) + 1, T)
  BY <1>2, <1>8, <1>11, <1>12 DEF Moved
<1>13. CASE /\ Going(S, v, Append(b, StackNode(type)), r, T)
            /\ Len(b) + 1 <= JWRITE_STACK_DEPTH
  <2>1. Going(S, v, y.stack, TextOf(y), T)
    BY <1>1, <1>4, <1>13
  <2>2. \A h \in x.heights : h <= JWRITE_STACK_DEPTH \/ h \in y.heights
    BY <1>11, <1>13
  <2> QED BY <1>2, <1>8, <2>1, <2>2 DEF Moved
<1> QED BY <1>10, <1>12, <1>13

LEMMA EndMoves ==
  ASSUME NEW A, 0 \in A, NEW S, S = Lexemes(A), NEW w \in Writer(S),
         NEW x \in Config(A), NEW y \in Config(A),
         NEW T, On(w, TextOf(x), T), w.nodeStack = x.stack,
         NEW type, NEW brace,
         \/ type = "OBJECT" /\ brace = "}"
         \/ type = "ARRAY" /\ brace = "]",
         EndLeads(type, brace, x, y)
  PROVE  Moved(S, jwEnd(w), x, y, T)
<1>1. PICK u \in Seq(Entry), n \in Nat :
    /\ u # <<>> /\ x.stack = Append(u, Element(type, n)) /\ y.stack = u
    /\ TextOf(x) = Cat(One(Mark(brace)), TextOf(y))
    /\ x.heights = y.heights
  BY DEF EndLeads
<1>2. PICK c \in S : c = Mark(brace)
  BY MarkIs DEF Words
<1>3. type \in NodeTypes
  BY DEF NodeTypes
<1>4. PICK r \in Seq(S) : r = TextOf(y)
  BY DEF Config, TextOf
<1>5. PICK r1 \in Seq(S) : r1 = Cat(One(c), r)
  BY OneIs, CatIs
<1>6. PICK e \in Entry : e = Element(type, n)
  BY <1>3, ElementCounted
<1>7. PICK s : s = Append(u, e)
  OBVIOUS
<1>8. Topped(w, u, type, n)
  BY <1>1 DEF Topped
<1>9. TopType(w) = type
  BY <1>3, <1>8, TypeOfTop
<1>10. Going(S, w, s, r1, T)
  <2>1. On(w, r1, T)
    BY <1>1, <1>2, <1>4, <1>5
  <2> QED BY <1>1, <1>6, <1>7, <2>1 DEF Going
<1>11. Going(S, jwPop(w), u, r1, T)
  BY <1>1, <1>7, <1>10, PopGoing
<1>12. Going(S, jwPutch(jwPop(w), c), u, r, T)
  BY <1>5, <1>11, PutGoing
<1>13. jwEnd(w) = jwPutch(jwPop(w), c)
  BY <1>2, <1>9 DEF jwEnd
<1> QED BY <1>1, <1>4, <1>12, <1>13 DEF Moved

(* A call of the writer, from a configuration that leads to another.       *)
LEMMA CallMoves ==
  ASSUME NEW doc, NEW S, S = Lexemes(Ats(doc.nodes)), NEW w \in Writer(S),
         NEW x \in Config(Ats(doc.nodes)), NEW y \in Config(Ats(doc.nodes)),
         NEW T, On(w, TextOf(x), T), w.nodeStack = x.stack,
         NEW call, call.do \in API, Leads(doc, call, x, y)
  PROVE  Moved(S, Apply(w, call), x, y, T)
<1>1. PICK A : A = Ats(doc.nodes)
  OBVIOUS
<1>2. 0 \in A
  BY <1>1 DEF Ats
<1>3. S = Lexemes(A) /\ x \in Config(A) /\ y \in Config(A)
  BY <1>1
<1>4. w.error = "OK" /\ TextOf(y) # <<>>
  BY DEF On, Leads
<1>5. CASE KeyLeads(call, x, y)
  BY <1>2, <1>3, <1>4, <1>5, KeyMoves
<1>6. ASSUME NEW v, Item(doc, call, v), ItemLeads(x, y, v)
      PROVE  Moved(S, Apply(w, call), x, y, T)
  <2>1. ~Means(doc, call, v)
    BY DEF Means, API
  <2>2. call.do = "value" /\ call.arg \in S /\ v = Atom(call.arg)
    BY <1>6, <2>1 DEF Item
  <2> QED BY <1>2, <1>3, <1>6, <2>2, ValueMoves
<1>7. CASE call = Object /\ OpenLeads("OBJECT", "{", x, y)
  <2>1. Apply(w, call) = Open(w, "OBJECT", Mark("{"))
    BY <1>4, <1>7 DEF Apply, Object, Call
  <2> QED BY <1>2, <1>3, <1>4, <1>7, <2>1, OpenMoves
<1>8. CASE call = Array /\ OpenLeads("ARRAY", "[", x, y)
  <2>1. Apply(w, call) = Open(w, "ARRAY", Mark("["))
    BY <1>4, <1>8 DEF Apply, Array, Call
  <2> QED BY <1>2, <1>3, <1>4, <1>8, <2>1, OpenMoves
<1>9. ASSUME call = End
      PROVE  Apply(w, call) = jwEnd(w)
  BY <1>4, <1>9 DEF Apply, End, Call
<1>10. CASE call = End /\ EndLeads("OBJECT", "}", x, y)
  BY <1>2, <1>3, <1>9, <1>10, EndMoves
<1>11. CASE call = End /\ EndLeads("ARRAY", "]", x, y)
  BY <1>2, <1>3, <1>9, <1>11, EndMoves
<1> QED BY <1>5, <1>6, <1>7, <1>8, <1>10, <1>11 DEF Leads
-----------------------------------------------------------------------------
(* The calls left of OutputAST, and how the writer goes through them, down *)
(* to the brackets of the root.                                            *)
Ended(z) ==
  /\ \E n \in Nat : z.stack = Append(<<>>, Element("ARRAY", n))
  /\ TextOf(z) = One(Mark("]")) /\ z.heights = {}

Running(doc, calls, l, y) ==
  /\ IsSeq(calls) /\ l \in Nat /\ Len(calls) = l + 2
  /\ calls[l + 1] = End /\ calls[l + 2] = Close
  /\ y \in [1 .. l + 1 -> Config(Ats(doc.nodes))]
  /\ \A j \in 1 .. l : Leads(doc, calls[j], y[j], y[j + 1])
  /\ Ended(y[l + 1])

LEMMA TailIs ==
  ASSUME NEW s, IsSeq(s), NEW m \in Nat, Len(s) = m + 1
  PROVE  /\ s # <<>> /\ Head(s) = s[1] /\ IsSeq(Tail(s)) /\ Len(Tail(s)) = m
         /\ \A i \in 1 .. m : Tail(s)[i] = s[i + 1]
<1>1. PICK Q : s \in Seq(Q)
  BY DEF IsSeq
<1>2. s # <<>>
  <2>1. Len(<<>>) = 0
    OBVIOUS
  <2> QED BY <2>1
<1>3. /\ Head(s) = s[1] /\ Tail(s) \in Seq(Q) /\ Len(Tail(s)) = m
      /\ \A i \in 1 .. m : Tail(s)[i] = s[i + 1]
  BY <1>1, <1>2, HeadTailProperties
<1> QED BY <1>2, <1>3 DEF IsSeq

Joined(d, s, t) ==
  /\ IsSeq(d) /\ Len(d) = Len(s) + Len(t) /\ Len(s) \in Nat /\ Len(t) \in Nat
  /\ \A i \in 1 .. Len(s) : d[i] = s[i]
  /\ \A i \in 1 .. Len(t) : d[Len(s) + i] = t[i]

LEMMA JoinIs ==
  ASSUME NEW s, IsSeq(s), NEW t, IsSeq(t), NEW d, d = s \o t
  PROVE  Joined(d, s, t)
<1>1. PICK Q : s \in Seq(Q) /\ t \in Seq(Q)
  <2>1. PICK Q : s \in Seq(Q)
    BY DEF IsSeq
  <2>2. PICK R : t \in Seq(R)
    BY DEF IsSeq
  <2>3. s \in Seq(Q \cup R) /\ t \in Seq(Q \cup R)
    BY <2>1, <2>2
  <2> QED BY <2>3
<1>2. s \o t \in Seq(Q) /\ Len(s \o t) = Len(s) + Len(t)
  BY <1>1, ConcatProperties
<1>3. Len(s) \in Nat /\ Len(t) \in Nat
  BY <1>1
<1>4. /\ \A i \in 1 .. Len(s) : (s \o t)[i] = s[i]
      /\ \A i \in 1 .. Len(t) : (s \o t)[Len(s) + i] = t[i]
  <2>1. \A i \in 1 .. Len(s) + Len(t) :
          (s \o t)[i] = IF i <= Len(s) THEN s[i] ELSE t[i - Len(s)]
    BY <1>1, ConcatProperties
  <2>2. \A i \in 1 .. Len(s) : i \in 1 .. Len(s) + Len(t) /\ i <= Len(s)
    BY <1>3
  <2>3. \A i \in 1 .. Len(t) : /\ Len(s) + i \in 1 .. Len(s) + Len(t)
                               /\ ~(Len(s) + i <= Len(s)) /\ Len(s) + i - Len(s) = i
    BY <1>3
  <2> QED BY <2>1, <2>2, <2>3
<1> QED BY <1>2, <1>3, <1>4 DEF IsSeq, Joined

LEMMA RestRuns ==
  ASSUME NEW doc, NEW calls, NEW l, NEW y, Running(doc, calls, l, y), l # 0
  PROVE  \E z : Running(doc, Tail(calls), l - 1, z) /\ z[1] = y[2]
<1> DEFINE z == [j \in 1 .. l |-> y[j + 1]]
<1>1. l \in Nat /\ l - 1 \in Nat /\ (l + 1) \in Nat
  BY DEF Running
<1>2. /\ IsSeq(Tail(calls)) /\ Len(Tail(calls)) = l + 1
      /\ \A i \in 1 .. l + 1 : Tail(calls)[i] = calls[i + 1]
  <2>1. IsSeq(calls) /\ Len(calls) = (l + 1) + 1
    BY <1>1 DEF Running
  <2> QED BY <1>1, <2>1, TailIs
<1>3. z \in [1 .. l -> Config(Ats(doc.nodes))] /\ \A j \in 1 .. l : z[j] = y[j + 1]
  BY <1>1 DEF Running
<1> HIDE DEF z
<1>4. Running(doc, Tail(calls), l - 1, z)
  <2>1. \A j \in 1 .. l - 1 : Leads(doc, Tail(calls)[j], z[j], z[j + 1])
    <3>1. \A j \in 1 .. l - 1 : /\ j \in 1 .. l + 1 /\ j \in 1 .. l /\ j + 1 \in 1 .. l
                                /\ j + 1 + 1 = (j + 1) + 1
      BY <1>1
    <3>2. \A j \in 1 .. l : Leads(doc, calls[j], y[j], y[j + 1])
      BY DEF Running
    <3> QED BY <1>2, <1>3, <3>1, <3>2
  <2>2. /\ Len(Tail(calls)) = (l - 1) + 2 /\ (l - 1) + 1 = l
        /\ Tail(calls)[(l - 1) + 1] = End /\ Tail(calls)[(l - 1) + 2] = Close
    <3>1. l \in 1 .. l + 1 /\ l + 1 \in 1 .. l + 1 /\ (l + 1) + 1 = l + 2
      BY <1>1
    <3>2. (l - 1) + 1 = l /\ (l - 1) + 2 = l + 1
      BY <1>1
    <3> QED BY <1>2, <3>1, <3>2 DEF Running
  <2>3. Ended(z[(l - 1) + 1])
    <3>1. l \in 1 .. l
      BY <1>1
    <3> QED BY <1>3, <2>2, <3>1 DEF Running
  <2> QED BY <1>1, <1>2, <1>3, <2>1, <2>2, <2>3 DEF Running
<1>5. z[1] = y[2]
  BY <1>1, <1>3
<1> QED BY <1>4, <1>5
(* An Output function is replaced by the calls of its body.                *)
LEMMA SplicedRuns ==
  ASSUME NEW doc, NEW calls, NEW l, NEW y, Running(doc, calls, l, y), l # 0,
         NEW b, IsSeq(b), NEW a, Runs(doc, b, a), a[1] = y[1], a[Len(b) + 1] = y[2]
  PROVE  \E k, z : Running(doc, b \o Tail(calls), k, z) /\ z[1] = y[1]
<1>1. PICK r : Running(doc, Tail(calls), l - 1, r) /\ r[1] = y[2]
  BY RestRuns
<1>2. PICK m \in Nat : m = l - 1
  BY <1>1 DEF Running
<1>3. PICK t : t = Tail(calls)
  OBVIOUS
<1>4. Running(doc, t, m, r)
  BY <1>1, <1>2, <1>3
<1>5. IsSeq(t) /\ Len(t) = m + 2
  BY <1>4 DEF Running
<1>6. PICK n \in Nat : n = Len(b)
  <2>1. PICK d : d = b \o t
    OBVIOUS
  <2>2. Joined(d, b, t)
    BY <1>5, <2>1, JoinIs
  <2> QED BY <2>2 DEF Joined
<1>7. PICK d : d = b \o t
  OBVIOUS
<1>8. /\ IsSeq(d) /\ Len(d) = n + (m + 2)
      /\ \A i \in 1 .. n : d[i] = b[i]
      /\ \A i \in 1 .. m + 2 : d[n + i] = t[i]
  <2>1. Joined(d, b, t)
    BY <1>5, <1>7, JoinIs
  <2> QED BY <1>5, <1>6, <2>1 DEF Joined
<1>9. PICK C : C = Config(Ats(doc.nodes))
  OBVIOUS
<1>10. /\ a \in [1 .. n + 1 -> C] /\ a[n + 1] = r[1]
       /\ \A j \in 1 .. n : Leads(doc, b[j], a[j], a[j + 1])
  BY <1>1, <1>6, <1>9 DEF Runs
<1>11. /\ r \in [1 .. m + 1 -> C] /\ t[m + 1] = End /\ t[m + 2] = Close
       /\ \A j \in 1 .. m : Leads(doc, t[j], r[j], r[j + 1])
       /\ Ended(r[m + 1])
  BY <1>4, <1>9 DEF Running
<1> DEFINE z == [j \in 1 .. n + m + 1 |-> IF j <= n THEN a[j] ELSE r[j - n]]
<1>12. /\ z \in [1 .. n + m + 1 -> C]
       /\ \A j \in 1 .. n : z[j] = a[j]
       /\ \A i \in 1 .. m + 1 : z[n + i] = r[i]
  <2>1. \A j \in 1 .. n : j \in 1 .. n + m + 1 /\ j \in 1 .. n + 1 /\ j <= n
    OBVIOUS
  <2>2. \A i \in 1 .. m + 1 : /\ n + i \in 1 .. n + m + 1 /\ ~(n + i <= n)
                              /\ (n + i) - n = i
    OBVIOUS
  <2>3. \A j \in 1 .. n + m + 1 : j \in 1 .. n \/ (~(j <= n) /\ j - n \in 1 .. m + 1)
    OBVIOUS
  <2>4. \A j \in 1 .. n + m + 1 : (IF j <= n THEN a[j] ELSE r[j - n]) \in C
    BY <1>10, <1>11, <2>1, <2>3
  <2> QED BY <2>1, <2>2, <2>4
<1> HIDE DEF z
<1>13. z[n + 1] = a[n + 1]
  <2>1. 1 \in 1 .. m + 1
    OBVIOUS
  <2> QED BY <1>10, <1>12, <2>1
<1>14. \A j \in 1 .. n + 1 : z[j] = a[j]
  <2>1. \A j \in 1 .. n + 1 : j \in 1 .. n \/ j = n + 1
    OBVIOUS
  <2> QED BY <1>12, <1>13, <2>1
<1>15. \A j \in 1 .. n + m : Leads(doc, d[j], z[j], z[j + 1])
  <2>1. ASSUME NEW j \in 1 .. n PROVE Leads(doc, d[j], z[j], z[j + 1])
    <3>1. j \in 1 .. n + 1 /\ j + 1 \in 1 .. n + 1
      BY <2>1
    <3> QED BY <1>8, <1>10, <1>14, <2>1, <3>1
  <2>2. ASSUME NEW i \in 1 .. m PROVE Leads(doc, d[n + i], z[n + i], z[n + i + 1])
    <3>1. /\ i \in 1 .. m + 2 /\ i \in 1 .. m + 1 /\ i + 1 \in 1 .. m + 1
          /\ n + i + 1 = n + (i + 1)
      BY <2>2
    <3>2. d[n + i] = t[i] /\ z[n + i] = r[i] /\ z[n + (i + 1)] = r[i + 1]
      BY <1>8, <1>12, <3>1
    <3>3. Leads(doc, t[i], r[i], r[i + 1])
      BY <1>11, <2>2
    <3> QED BY <3>1, <3>2, <3>3
  <2>3. \A j \in 1 .. n + m : j \in 1 .. n \/ \E i \in 1 .. m : j = n + i
    <3>1. \A j \in 1 .. n + m : j \in 1 .. n \/ (j - n \in 1 .. m /\ j = n + (j - n))
      OBVIOUS
    <3> QED BY <3>1
  <2> QED BY <2>1, <2>2, <2>3
<1>16. Running(doc, d, n + m, z)
  <2>1. /\ n + (m + 2) = n + m + 2 /\ n + (m + 1) = n + m + 1 /\ n + m \in Nat
        /\ m + 1 \in 1 .. m + 2 /\ m + 2 \in 1 .. m + 2 /\ m + 1 \in 1 .. m + 1
    OBVIOUS
  <2>2. d[n + m + 1] = End /\ d[n + m + 2] = Close
    BY <1>8, <1>11, <2>1
  <2>3. z[n + m + 1] = r[m + 1]
    BY <1>12, <2>1
  <2> QED BY <1>8, <1>9, <1>11, <1>12, <1>15, <2>1, <2>2, <2>3 DEF Running
<1>17. z[1] = y[1]
  <2>1. 1 \in 1 .. n + 1
    OBVIOUS
  <2> QED BY <1>14, <2>1
<1> QED BY <1>3, <1>7, <1>16, <1>17
(* The calls for a whole tree, from the bracket jwOpen has written.        *)
RootRun(doc, calls, x) ==
  \E l, y : /\ Running(doc, calls, l, y)
            /\ y[1].stack = Append(<<>>, Element("ARRAY", 0))
            /\ TextOf(x) = Cat(One(Mark("[")), TextOf(y[1]))
            /\ x.heights = {1} \cup y[1].heights

LEMMA ThenTextOf ==
  ASSUME NEW v, NEW w
  PROVE  TextOf(Then(v, w)) = Cat(TextOf(v), TextOf(w))
BY DEF TextOf, Then, Cat

LEMMA RootRuns ==
  ASSUME NEW doc, NEW tree, NEW n \in Nat, Len(tree) = n, NEW vs,
         \A i \in 1 .. n : Means(doc, Output("Stmt", tree[i]), vs[i]),
         NEW x, x = Arr(n, vs)
  PROVE  x \in Texts(Ats(doc.nodes)) /\ RootRun(doc, RootCalls(tree), x)
<1> DEFINE A == Ats(doc.nodes)
<1>1. 0 \in A /\ \A i \in 1 .. n : vs[i] \in Texts(A)
  BY DEF Ats, Means
<1> HIDE DEF A
<1>2. "[" \in Words /\ "]" \in Words
  BY DEF Words
<1>3. BehindOpen(A, "[", n, vs, "]", x) /\ x \in Texts(A)
  BY <1>1, <1>2, ListedIs DEF Arr
<1>4. PICK r : /\ Behind(A, n, vs, "]", r)
               /\ x = Enclosed(Then(Atom(Mark("[")), r[1]))
  BY <1>3 DEF BehindOpen
<1>5. /\ \A i \in 1 .. n + 1 : r[i] \in Texts(A)
      /\ r[n + 1] = Atom(Mark("]"))
      /\ \A i \in 1 .. n : r[i] = Then(Then(Separator(i), vs[i]), r[i + 1])
      /\ 1 \in 1 .. n + 1 /\ n + 1 \in 1 .. n + 1
      /\ \A i \in 1 .. n : i \in 1 .. n + 1 /\ i + 1 \in 1 .. n + 1
  <2>1. /\ 1 \in 1 .. n + 1 /\ n + 1 \in 1 .. n + 1
        /\ \A i \in 1 .. n : i \in 1 .. n + 1 /\ i + 1 \in 1 .. n + 1
    OBVIOUS
  <2>2. /\ r \in [1 .. n + 1 -> Texts(A)] /\ r[n + 1] = Atom(Mark("]"))
        /\ \A i \in 1 .. n : r[i] = Then(Then(Separator(i), vs[i]), r[i + 1])
    BY <1>4 DEF Behind
  <2>3. \A i \in 1 .. n + 1 : r[i] \in Texts(A)
    BY <2>2
  <2> QED BY <2>1, <2>2, <2>3
<1>6. PICK B \in Seq(Entry) : B = <<>> /\ Len(B) = 0
  <2>1. <<>> \in Seq(Entry) /\ Len(<<>>) = 0
    OBVIOUS
  <2> QED BY <2>1
<1> DEFINE Raised(H) == {1 + h : h \in H}
           KT(i) == TextOf(r[i])
           KH(i) == Raised(r[i].heights)
           KS(i) == Append(B, Element("ARRAY", i - 1))
           K(i) == [stack |-> KS(i), text |-> KT(i), heights |-> KH(i)]
<1>7. \A i \in 1 .. n + 1 : /\ KT(i) \in Seq(Lexemes(A)) /\ KH(i) \in SUBSET Nat
                            /\ KS(i) \in Seq(Entry) /\ Len(KS(i)) = 1
  <2> TAKE i \in 1 .. n + 1
  <2>1. KT(i) \in Seq(Lexemes(A)) /\ r[i].heights \in SUBSET Nat
    BY <1>5, TextIs
  <2>2. KH(i) \in SUBSET Nat
    BY <2>1
  <2>3. "ARRAY" \in NodeTypes
    BY DEF NodeTypes
  <2>4. KS(i) \in Seq(Entry) /\ Len(KS(i)) = 1
    <3>1. PICK j \in Nat : j = i - 1
      OBVIOUS
    <3>2. /\ Append(B, Element("ARRAY", j)) \in Seq(Entry)
          /\ Len(Append(B, Element("ARRAY", j))) = Len(B) + 1
      BY <2>3, ElementIs
    <3> QED BY <1>6, <3>1, <3>2
  <2> QED BY <2>1, <2>2, <2>4
<1>8. \A i \in 1 .. n + 1 : K(i) \in Config(A)
  <2> HIDE DEF KT, KH, KS
  <2> QED BY <1>7 DEF Config
<1>9. \A i : K(i).stack = KS(i) /\ TextOf(K(i)) = KT(i) /\ K(i).heights = KH(i)
  BY DEF TextOf
<1> HIDE DEF K
<1>10. ASSUME NEW i \in 1 .. n
       PROVE  /\ ItemLeads(K(i), K(i + 1), vs[i])
              /\ KT(i + 1) # <<>> => KT(i) # <<>>
  <2> DEFINE s == Separator(i)
             p == vs[i]
  <2>1. s \in Texts(A) /\ p \in Texts(A) /\ r[i + 1] \in Texts(A)
    BY <1>1, <1>5, SeparatorIs
  <2>2. Then(s, p) \in Texts(A)
    BY <2>1, ThenIs
  <2>3. KT(i) = Cat(TextOf(Then(s, p)), KT(i + 1))
    <3>1. r[i] = Then(Then(s, p), r[i + 1])
      BY <1>5
    <3>2. PICK v, w : v = Then(s, p) /\ w = r[i + 1]
      OBVIOUS
    <3> QED BY <3>1, <3>2, ThenTextOf
  <2>4. Cat(TextOf(Then(s, p)), KT(i + 1)) = Cat(TextOf(s), Cat(TextOf(p), KT(i + 1)))
    <3>1. KT(i + 1) \in Seq(Lexemes(A))
      BY <1>5, <1>7
    <3> HIDE DEF KT
    <3> QED BY <2>1, <3>1, ThenText
  <2>5. KH(i) = Raised(p.heights) \cup KH(i + 1)
    <3>1. r[i].heights = p.heights \cup r[i + 1].heights
      <4>1. r[i].heights = (s.heights \cup p.heights) \cup r[i + 1].heights
        <5>1. r[i] = Then(Then(s, p), r[i + 1])
          BY <1>5
        <5> HIDE DEF s, p
        <5> QED BY <5>1 DEF Then
      <4>2. s.heights = {}
        BY DEF Separator
      <4> HIDE DEF s, p
      <4> QED BY <4>1, <4>2
    <3>2. Raised(p.heights \cup r[i + 1].heights)
            = Raised(p.heights) \cup Raised(r[i + 1].heights)
      OBVIOUS
    <3> HIDE DEF Raised, p
    <3> QED BY <3>1, <3>2
  <2>6. PICK j \in Nat : j = i - 1 /\ j + 1 = i /\ (i + 1) - 1 = j + 1
    OBVIOUS
  <2>7. Due(K(i).stack, K(i + 1).stack, TextOf(s))
    <3>1. /\ K(i).stack = Append(B, Element("ARRAY", j))
          /\ K(i + 1).stack = Append(B, Element("ARRAY", j + 1))
          /\ TextOf(s) = TextOf(Separator(j + 1))
      BY <1>9, <2>6
    <3> HIDE DEF s
    <3> QED BY <1>6, <3>1 DEF Due
  <2>8. TextOf(K(i)) = Cat(TextOf(s), Cat(TextOf(p), TextOf(K(i + 1))))
    BY <1>9, <2>3, <2>4
  <2>9. K(i).heights = {Len(K(i + 1).stack) + h : h \in p.heights} \cup K(i + 1).heights
    <3>1. Len(K(i + 1).stack) = 1
      BY <1>5, <1>7, <1>9
    <3>2. K(i).heights = KH(i) /\ K(i + 1).heights = KH(i + 1)
      BY <1>9
    <3> HIDE DEF KH
    <3> QED BY <2>5, <3>1, <3>2
  <2>10. KT(i + 1) # <<>> => KT(i) # <<>>
    <3>1. TextOf(Then(s, p)) \in Seq(Lexemes(A))
      BY <2>2, TextIs
    <3>2. KT(i + 1) \in Seq(Lexemes(A))
      BY <1>5, <1>7
    <3> HIDE DEF KT
    <3> QED BY <2>3, <3>1, <3>2, CatIs
  <2> QED BY <2>7, <2>8, <2>9, <2>10 DEF ItemLeads
<1>11. \A i \in 1 .. n + 1 : KT(i) # <<>>
  <2> DEFINE N == {k \in Nat : k <= n => KT(n + 1 - k) # <<>>}
  <2>1. 0 \in N
    <3>1. One(Mark("]")) # <<>>
      <4>1. Len(<< Mark("]") >>) = 1 /\ Len(<<>>) = 0
        OBVIOUS
      <4> QED BY <4>1 DEF One
    <3>2. KT(n + 1) # <<>>
      BY <1>5, <3>1, AtomFields
    <3> HIDE DEF KT
    <3> QED BY <3>2
  <2>2. ASSUME NEW k \in Nat, k \in N PROVE k + 1 \in N
    <3> SUFFICES ASSUME k + 1 <= n PROVE KT(n + 1 - (k + 1)) # <<>>
      OBVIOUS
    <3>1. PICK i \in 1 .. n : i = n + 1 - (k + 1) /\ i + 1 = n + 1 - k
      OBVIOUS
    <3>2. KT(n + 1 - k) # <<>>
      BY <2>2
    <3> HIDE DEF KT
    <3> QED BY <1>10, <3>1, <3>2
  <2> HIDE DEF N
  <2>3. \A k \in Nat : k \in N
    BY <2>1, <2>2, EveryNat
  <2> TAKE i \in 1 .. n + 1
  <2>4. PICK k \in Nat : k <= n /\ i = n + 1 - k
    <3>1. n + 1 - i \in Nat /\ n + 1 - i <= n /\ i = n + 1 - (n + 1 - i)
      OBVIOUS
    <3> QED BY <3>1
  <2>5. KT(n + 1 - k) # <<>>
    BY <2>3, <2>4 DEF N
  <2> HIDE DEF KT
  <2> QED BY <2>4, <2>5
<1> DEFINE y == [i \in 1 .. n + 1 |-> K(i)]
<1>12. y \in [1 .. n + 1 -> Config(A)] /\ \A i \in 1 .. n + 1 : y[i] = K(i)
  BY <1>8
<1> HIDE DEF y
<1>13. PICK cs : cs = [i \in 1 .. n |-> Output("Stmt", tree[i])]
  OBVIOUS
<1>14. IsSeq(cs) /\ Len(cs) = n /\ \A i \in 1 .. n : cs[i] = Output("Stmt", tree[i])
  <2>1. PICK Q : Q = {Output("Stmt", tree[i]) : i \in 1 .. n}
    OBVIOUS
  <2>2. cs \in Seq(Q) /\ Len(cs) = n
    BY <1>13, <2>1
  <2> QED BY <1>13, <2>2 DEF IsSeq
<1>15. PICK last : last = << End, Close >>
  OBVIOUS
<1>16. IsSeq(last) /\ Len(last) = 2 /\ last[1] = End /\ last[2] = Close
  <2>1. last \in Seq({End, Close})
    BY <1>15
  <2> QED BY <1>15, <2>1 DEF IsSeq
<1>17. PICK d : d = cs \o last
  OBVIOUS
<1>18. /\ IsSeq(d) /\ Len(d) = n + 2 /\ \A i \in 1 .. n : d[i] = cs[i]
       /\ d[n + 1] = End /\ d[n + 2] = Close
  <2>1. Joined(d, cs, last)
    BY <1>14, <1>16, <1>17, JoinIs
  <2>2. 1 \in 1 .. 2 /\ 2 \in 1 .. 2
    OBVIOUS
  <2> QED BY <1>14, <1>16, <2>1, <2>2 DEF Joined
<1>19. d = RootCalls(tree)
  BY <1>13, <1>15, <1>17 DEF RootCalls
<1>20. \A i \in 1 .. n : Leads(doc, d[i], y[i], y[i + 1])
  <2> TAKE i \in 1 .. n
  <2>1. d[i] = Output("Stmt", tree[i]) /\ y[i] = K(i) /\ y[i + 1] = K(i + 1)
    BY <1>5, <1>12, <1>14, <1>18
  <2>2. Item(doc, Output("Stmt", tree[i]), vs[i])
    BY DEF Item
  <2>3. ItemLeads(K(i), K(i + 1), vs[i])
    BY <1>10
  <2>4. TextOf(K(i + 1)) # <<>>
    BY <1>5, <1>9, <1>11
  <2> HIDE DEF KT, KH, KS
  <2> QED BY <2>1, <2>2, <2>3, <2>4 DEF Leads
<1>21. Ended(y[n + 1])
  <2>1. K(n + 1).stack = Append(<<>>, Element("ARRAY", n))
    <3>1. (n + 1) - 1 = n
      OBVIOUS
    <3> QED BY <1>6, <1>9, <3>1
  <2>2. TextOf(K(n + 1)) = One(Mark("]"))
    BY <1>5, <1>9, AtomFields
  <2>3. K(n + 1).heights = {}
    <3>1. r[n + 1].heights = {}
      BY <1>5, AtomFields
    <3> QED BY <1>9, <3>1
  <2>4. y[n + 1] = K(n + 1)
    BY <1>5, <1>12
  <2> HIDE DEF KT, KH, KS
  <2> QED BY <2>1, <2>2, <2>3, <2>4 DEF Ended
<1>22. Running(doc, d, n, y)
  BY <1>12, <1>18, <1>20, <1>21 DEF Running, A
<1>23. /\ y[1].stack = Append(<<>>, Element("ARRAY", 0))
       /\ TextOf(x) = Cat(One(Mark("[")), TextOf(y[1]))
       /\ x.heights = {1} \cup y[1].heights
  <2>1. y[1] = K(1) /\ 1 - 1 = 0
    BY <1>5, <1>12
  <2>2. y[1].stack = Append(<<>>, Element("ARRAY", 0))
    BY <1>6, <1>9, <2>1
  <2>3. PICK a, v : a = Atom(Mark("[")) /\ v = Then(a, r[1])
    OBVIOUS
  <2>4. x = Enclosed(v) /\ TextOf(a) = One(Mark("[")) /\ a.heights = {}
    BY <1>4, <2>3, AtomFields
  <2>5. TextOf(x) = TextOf(v) /\ x.heights = {1} \cup Raised(v.heights)
    BY <2>4 DEF Enclosed, TextOf
  <2>6. TextOf(v) = Cat(One(Mark("[")), KT(1))
    BY <2>3, <2>4, ThenTextOf
  <2>7. v.heights = r[1].heights
    <3>1. v.heights = a.heights \cup r[1].heights
      BY <2>3 DEF Then
    <3> QED BY <2>4, <3>1
  <2> QED BY <1>9, <2>1, <2>2, <2>5, <2>6, <2>7
<1> QED BY <1>3, <1>19, <1>22, <1>23 DEF RootRun, A
-----------------------------------------------------------------------------
(* The invariant, of a writer w, the calls left and the file, where x is   *)
(* what the tree should be written as.                                     *)
Fits(x) == /\ \A h \in x.heights : h <= JWRITE_STACK_DEPTH
           /\ Len(TextOf(x)) < MAX_AST_JSON_FILESIZE
Outcome(out, x) == IF Fits(x) THEN out = TextOf(x) ELSE Begins(out, TextOf(x))

OnWay(doc, x, w, calls) ==
  \E l, y : /\ Running(doc, calls, l, y) /\ w.nodeStack = y[1].stack
            /\ On(w, TextOf(y[1]), TextOf(x))
            /\ y[1].heights \subseteq x.heights
            /\ \A h \in x.heights : h <= JWRITE_STACK_DEPTH \/ h \in y[1].heights

Stopped(x, w, calls, file) ==
  /\ w.error # "OK" /\ Outcome(w.out, x)
  /\ file = <<>> \/ (file = w.out /\ calls = <<>>)

Whole(doc, x, w, calls, file) ==
  /\ w \in Writer(Lexemes(Ats(doc.nodes)))
  /\ (OnWay(doc, x, w, calls) /\ file = <<>>) \/ Stopped(x, w, calls, file)

LEMMA LeadsDown ==
  ASSUME NEW doc, NEW call, NEW x, NEW y, Leads(doc, call, x, y)
  PROVE  y.heights \subseteq x.heights
BY DEF Leads, KeyLeads, ItemLeads, OpenLeads, EndLeads

LEMMA FullOutcome ==
  ASSUME NEW S, NEW w \in Writer(S), NEW x, TextOf(x) \in Seq(S), Full(w, TextOf(x))
  PROVE  w.error # "OK" /\ Outcome(w.out, x)
<1>1. Len(w.out) \in Nat /\ Len(TextOf(x)) \in Nat
  BY DEF Writer
<1>2. /\ w.error # "OK" /\ Begins(w.out, TextOf(x))
      /\ Len(w.out) < Len(TextOf(x)) /\ Len(w.out) + 1 >= MAX_AST_JSON_FILESIZE
  BY DEF Full, Begins
<1>3. ~(Len(TextOf(x)) < MAX_AST_JSON_FILESIZE)
  BY <1>1, <1>2, AstOutputAssumption
<1> QED BY <1>2, <1>3 DEF Outcome, Fits

LEMMA InitWhole ==
  ASSUME NEW doc, NEW calls, NEW x, x \in Texts(Ats(doc.nodes)), RootRun(doc, calls, x)
  PROVE  Whole(doc, x, jwOpen, calls, <<>>)
<1>1. PICK l, y : /\ Running(doc, calls, l, y)
                  /\ y[1].stack = Append(<<>>, Element("ARRAY", 0))
                  /\ TextOf(x) = Cat(One(Mark("[")), TextOf(y[1]))
                  /\ x.heights = {1} \cup y[1].heights
  BY DEF RootRun
<1>2. PICK A : A = Ats(doc.nodes) /\ 0 \in A
  BY DEF Ats
<1>3. PICK S : S = Lexemes(A)
  OBVIOUS
<1>4. PICK c \in S : c = Mark("[")
  BY <1>2, <1>3, MarkIs DEF Words
<1>5. y[1] \in Config(A)
  <2>1. 1 \in 1 .. l + 1
    BY <1>1 DEF Running
  <2> QED BY <1>1, <1>2, <2>1 DEF Running
<1>6. PICK r \in Seq(S) : r = TextOf(y[1])
  BY <1>3, <1>5 DEF Config, TextOf
<1>7. PICK T : T = TextOf(x)
  OBVIOUS
<1>8. PICK e \in Entry : e = Element("ARRAY", 0) /\ e = StackNode("ARRAY")
  <2>1. <<>> \in Seq(Entry) /\ "ARRAY" \in NodeTypes
    BY DEF NodeTypes
  <2> QED BY <2>1, ElementIs
<1>9. PICK w0 : w0 = [out |-> <<>>, nodeStack |-> << e >>, error |-> "OK"]
  OBVIOUS
<1>10. w0 \in Writer(S) /\ w0.nodeStack = << e >> /\ w0.out = <<>> /\ w0.error = "OK"
  <2>1. << e >> \in Seq(Entry) /\ <<>> \in Seq(S)
    OBVIOUS
  <2> QED BY <1>9, <2>1 DEF Writer, Errors
<1>11. Going(S, w0, << e >>, Cat(One(c), r), T)
  <2>1. Cat(One(c), r) = T
    BY <1>1, <1>4, <1>6, <1>7
  <2>2. Cat(<<>>, Cat(One(c), r)) = Cat(One(c), r)
    <3>1. PICK q \in Seq(S) : q = Cat(One(c), r)
      BY OneIs, CatIs
    <3>2. Cat(<<>>, q) = q
      BY CatIs
    <3> QED BY <3>1, <3>2
  <2>3. On(w0, Cat(One(c), r), T)
    BY <1>10, <2>1, <2>2 DEF On
  <2> QED BY <1>10, <2>3 DEF Going
<1>12. Going(S, jwPutch(w0, c), << e >>, r, T)
  BY <1>11, PutGoing
<1>13. jwOpen = jwPutch(w0, c)
  BY <1>4, <1>8, <1>9 DEF jwOpen
<1>14. PICK w : w = jwOpen
  OBVIOUS
<1>15. w \in Writer(S) /\ w.nodeStack = << e >> /\ (On(w, r, T) \/ Full(w, T))
  BY <1>12, <1>13, <1>14 DEF Going
<1>16. CASE On(w, r, T)
  <2>1. w.nodeStack = y[1].stack
    <3>1. Append(<<>>, e) = << e >>
      OBVIOUS
    <3> QED BY <1>1, <1>8, <1>15, <3>1
  <2>2. y[1].heights \subseteq x.heights
    BY <1>1
  <2>3. \A h \in x.heights : h <= JWRITE_STACK_DEPTH \/ h \in y[1].heights
    BY <1>1, AstOutputAssumption
  <2>4. OnWay(doc, x, w, calls)
    BY <1>1, <1>6, <1>7, <1>16, <2>1, <2>2, <2>3 DEF OnWay
  <2> QED BY <1>2, <1>3, <1>14, <1>15, <2>4 DEF Whole
<1>17. CASE Full(w, T)
  <2>1. TextOf(x) \in Seq(S)
    BY <1>2, <1>3, TextIs
  <2>2. w.error # "OK" /\ Outcome(w.out, x)
    BY <1>7, <1>15, <1>17, <2>1, FullOutcome
  <2> QED BY <1>2, <1>3, <1>14, <1>15, <2>2 DEF Whole, Stopped
<1> QED BY <1>15, <1>16, <1>17
(* The bracket of the root: jwEnd writes it although the root is not to be *)
(* popped, and what comes after that error is not written.                 *)
LEMMA RootEnds ==
  ASSUME NEW A, 0 \in A, NEW S, S = Lexemes(A), NEW w \in Writer(S), NEW z, Ended(z),
         w.nodeStack = z.stack, NEW x, TextOf(x) \in Seq(S),
         On(w, TextOf(z), TextOf(x)), \A h \in x.heights : h <= JWRITE_STACK_DEPTH
  PROVE  /\ jwEnd(w) \in Writer(S) /\ jwEnd(w).error # "OK"
         /\ Outcome(jwEnd(w).out, x)
<1>1. PICK n \in Nat : z.stack = Append(<<>>, Element("ARRAY", n))
  BY DEF Ended
<1>2. PICK c \in S : c = Mark("]")
  BY MarkIs DEF Words
<1>3. PICK u \in Seq(Entry) : u = <<>> /\ Len(u) = 0
  <2>1. <<>> \in Seq(Entry) /\ Len(<<>>) = 0
    OBVIOUS
  <2> QED BY <2>1
<1>4. "ARRAY" \in NodeTypes
  BY DEF NodeTypes
<1>5. Topped(w, u, "ARRAY", n)
  BY <1>1, <1>3 DEF Topped
<1>6. TopType(w) = "ARRAY"
  BY <1>4, <1>5, TypeOfTop
<1>7. Pos(w) = 1
  <2>1. Len(Append(u, Element("ARRAY", n))) = Len(u) + 1
    BY <1>4, ElementIs
  <2> QED BY <1>1, <1>3, <2>1 DEF Pos
<1>8. PICK v : v = [w EXCEPT !.error = "STACK_EMPTY"]
  OBVIOUS
<1>9. /\ v \in Writer(S) /\ v.out = w.out /\ v.error = "STACK_EMPTY"
  BY <1>8 DEF Writer, Errors
<1>10. jwEnd(w) = jwPutch(v, c)
  BY <1>2, <1>6, <1>7, <1>8 DEF jwEnd, jwPop, Error
<1>11. PICK o \in Seq(S) : o = w.out /\ o = v.out
  BY <1>9 DEF Writer
<1>12. PICK T \in Seq(S) : T = TextOf(x)
  OBVIOUS
<1>13. Cat(o, One(c)) = T
  BY <1>2, <1>11, <1>12 DEF Ended, On
<1>14. One(c) \in Seq(S) /\ Len(One(c)) = 1 /\ One(c)[1] = c
  BY OneIs
<1>15. One(c) # <<>>
  <2>1. Len(One(c)) # 0
    BY <1>14
  <2> QED BY <1>14, <2>1, EmptySeq
<1>16. Len(T) = Len(o) + 1 /\ Len(o) \in Nat
  <2>1. Len(o \o One(c)) = Len(o) + Len(One(c))
    BY <1>14, ConcatProperties
  <2> QED BY <1>13, <1>14, <2>1 DEF Cat
<1>17. PICK e : e = jwPutch(v, c)
  OBVIOUS
<1>18. CASE Len(o) + 1 >= MAX_AST_JSON_FILESIZE
  <2>1. e = [v EXCEPT !.error = "BUF_FULL"]
    BY <1>11, <1>17, <1>18 DEF jwPutch, Error
  <2>2. e \in Writer(S) /\ e.out = o /\ e.error = "BUF_FULL"
    BY <1>9, <1>11, <2>1 DEF Writer, Errors
  <2>3. Begins(o, T)
    BY <1>13, <1>14, <1>15, BeginsIs
  <2>4. ~(Len(T) < MAX_AST_JSON_FILESIZE)
    BY <1>16, <1>18, AstOutputAssumption
  <2>5. Outcome(e.out, x)
    BY <1>12, <2>2, <2>3, <2>4 DEF Outcome, Fits
  <2> QED BY <1>10, <1>17, <2>2, <2>5
<1>19. CASE ~(Len(o) + 1 >= MAX_AST_JSON_FILESIZE)
  <2>1. e = [v EXCEPT !.out = Append(o, c)]
    BY <1>11, <1>17, <1>19 DEF jwPutch
  <2>2. Append(o, c) = T
    BY <1>13 DEF Cat, One
  <2>3. e \in Writer(S) /\ e.out = T /\ e.error = "STACK_EMPTY"
    BY <1>9, <2>1, <2>2 DEF Writer, Errors
  <2>4. Len(T) < MAX_AST_JSON_FILESIZE
    BY <1>16, <1>19, AstOutputAssumption
  <2>5. Outcome(e.out, x)
    BY <1>12, <2>3, <2>4 DEF Outcome, Fits
  <2> QED BY <1>10, <1>17, <2>3, <2>5
<1> QED BY <1>18, <1>19

(* A call of the writer.                                                   *)
LEMMA CallWhole ==
  ASSUME NEW doc, NEW x, x \in Texts(Ats(doc.nodes)), NEW w, NEW calls, NEW file,
         Whole(doc, x, w, calls, file), calls # <<>>, Head(calls).do \in API
  PROVE  Whole(doc, x, Apply(w, Head(calls)), Tail(calls), file)
<1>1. PICK A : A = Ats(doc.nodes) /\ 0 \in A
  BY DEF Ats
<1>2. PICK S : S = Lexemes(A) /\ w \in Writer(S)
  BY <1>1 DEF Whole
<1>3. TextOf(x) \in Seq(S)
  BY <1>1, <1>2, TextIs
<1>4. PICK c : c = Head(calls)
  OBVIOUS
<1>5. PICK e : e = Apply(w, c)
  OBVIOUS
<1>6. CASE Stopped(x, w, calls, file)
  <2>1. e = w
    BY <1>5, <1>6 DEF Apply, Stopped
  <2>2. file = <<>>
    BY <1>6 DEF Stopped
  <2> QED BY <1>1, <1>2, <1>4, <1>5, <1>6, <2>1, <2>2 DEF Whole, Stopped
<1>7. CASE OnWay(doc, x, w, calls) /\ file = <<>>
  <2>1. PICK l, y :
          /\ Running(doc, calls, l, y) /\ w.nodeStack = y[1].stack
          /\ On(w, TextOf(y[1]), TextOf(x))
          /\ y[1].heights \subseteq x.heights
          /\ \A h \in x.heights : h <= JWRITE_STACK_DEPTH \/ h \in y[1].heights
    BY <1>7 DEF OnWay
  <2>2. l \in Nat /\ IsSeq(calls) /\ Len(calls) = (l + 1) + 1 /\ l + 1 \in Nat
    BY <2>1 DEF Running
  <2>3. c = calls[1]
    BY <1>4, <2>2, TailIs
  <2>4. CASE l = 0
    <3>1. Ended(y[1]) /\ c = End
      BY <2>1, <2>3, <2>4 DEF Running
    <3>2. \A h \in x.heights : h <= JWRITE_STACK_DEPTH
      BY <2>1, <3>1 DEF Ended
    <3>3. e = jwEnd(w)
      BY <1>5, <2>1, <3>1 DEF Apply, End, Call, On
    <3>4. e \in Writer(S) /\ e.error # "OK" /\ Outcome(e.out, x)
      BY <1>1, <1>2, <1>3, <2>1, <3>1, <3>2, <3>3, RootEnds
    <3> QED BY <1>1, <1>2, <1>4, <1>5, <1>7, <3>4 DEF Whole, Stopped
  <2>5. CASE l # 0
    <3>1. /\ y[1] \in Config(A) /\ y[2] \in Config(A)
          /\ Leads(doc, c, y[1], y[2])
      <4>1. 1 \in 1 .. l /\ 1 + 1 = 2 /\ 1 \in 1 .. l + 1 /\ 2 \in 1 .. l + 1
        BY <2>2, <2>5
      <4> QED BY <1>1, <2>1, <2>3, <4>1 DEF Running
    <3>2. Moved(S, e, y[1], y[2], TextOf(x))
      <4>1. PICK a \in Config(A), b \in Config(A) : a = y[1] /\ b = y[2]
        BY <3>1
      <4>2. Leads(doc, c, a, b) /\ On(w, TextOf(a), TextOf(x)) /\ w.nodeStack = a.stack
        BY <2>1, <3>1, <4>1
      <4>3. Moved(S, Apply(w, c), a, b, TextOf(x))
        BY <1>1, <1>2, <1>4, <4>2, CallMoves
      <4> QED BY <1>5, <4>1, <4>3
    <3>3. y[2].heights \subseteq x.heights
      BY <2>1, <3>1, LeadsDown
    <3>4. ASSUME e \in Writer(S), Full(e, TextOf(x))
          PROVE  Whole(doc, x, e, Tail(calls), file)
      <4>1. e.error # "OK" /\ Outcome(e.out, x)
        BY <1>3, <3>4, FullOutcome
      <4> QED BY <1>1, <1>2, <1>7, <3>4, <4>1 DEF Whole, Stopped
    <3>5. CASE \E h \in y[1].heights : TooDeep(S, e, h, TextOf(x))
      <4>1. PICK h \in y[1].heights : TooDeep(S, e, h, TextOf(x))
        BY <3>5
      <4>2. e \in Writer(S)
        BY <4>1 DEF TooDeep
      <4>3. CASE Full(e, TextOf(x))
        BY <1>4, <1>5, <3>4, <4>2, <4>3
      <4>4. CASE e.error # "OK" /\ Begins(e.out, TextOf(x)) /\ h > JWRITE_STACK_DEPTH
        <5>1. h \in x.heights
          BY <2>1, <4>1
        <5>2. ~(h <= JWRITE_STACK_DEPTH)
          <6>1. h \in Nat
            BY <1>1, <5>1, TextIs
          <6> QED BY <4>4, <6>1, AstOutputAssumption
        <5>3. Outcome(e.out, x)
          BY <4>4, <5>1, <5>2 DEF Outcome, Fits
        <5>4. Whole(doc, x, e, Tail(calls), file)
          BY <1>1, <1>2, <1>7, <4>2, <4>4, <5>3 DEF Whole, Stopped
        <5> QED BY <1>4, <1>5, <5>4
      <4> QED BY <4>1, <4>3, <4>4 DEF TooDeep
    <3>6. CASE /\ Going(S, e, y[2].stack, TextOf(y[2]), TextOf(x))
               /\ \A h \in y[1].heights : h <= JWRITE_STACK_DEPTH \/ h \in y[2].heights
      <4>1. /\ e \in Writer(S) /\ e.nodeStack = y[2].stack
            /\ On(e, TextOf(y[2]), TextOf(x)) \/ Full(e, TextOf(x))
        BY <3>6 DEF Going
      <4>2. CASE Full(e, TextOf(x))
        BY <1>4, <1>5, <3>4, <4>1, <4>2
      <4>3. CASE On(e, TextOf(y[2]), TextOf(x))
        <5>1. PICK r : Running(doc, Tail(calls), l - 1, r) /\ r[1] = y[2]
          BY <2>1, <2>5, RestRuns
        <5>2. \A h \in x.heights : h <= JWRITE_STACK_DEPTH \/ h \in y[2].heights
          BY <2>1, <3>6
        <5>3. OnWay(doc, x, e, Tail(calls))
          BY <3>3, <4>1, <4>3, <5>1, <5>2 DEF OnWay
        <5> QED BY <1>1, <1>2, <1>4, <1>5, <1>7, <4>1, <5>3 DEF Whole
      <4> QED BY <4>1, <4>2, <4>3
    <3> QED BY <3>2, <3>5, <3>6 DEF Moved
  <2> QED BY <2>4, <2>5
<1> QED BY <1>6, <1>7 DEF Whole

(* An Output function.                                                     *)
LEMMA OutputWhole ==
  ASSUME NEW doc, WellRead(doc), NEW x, NEW w, NEW calls, NEW file,
         Whole(doc, x, w, calls, file), calls # <<>>, Head(calls).do = "output",
         NEW b, b = Body(Head(calls).fn, Head(calls).node)
  PROVE  Whole(doc, x, w, b \o Tail(calls), file)
<1>1. CASE Stopped(x, w, calls, file)
  BY <1>1 DEF Whole, Stopped
<1>2. CASE OnWay(doc, x, w, calls) /\ file = <<>>
  <2>1. PICK l, y :
          /\ Running(doc, calls, l, y) /\ w.nodeStack = y[1].stack
          /\ On(w, TextOf(y[1]), TextOf(x))
          /\ y[1].heights \subseteq x.heights
          /\ \A h \in x.heights : h <= JWRITE_STACK_DEPTH \/ h \in y[1].heights
    BY <1>2 DEF OnWay
  <2>2. l \in Nat /\ IsSeq(calls) /\ Len(calls) = (l + 1) + 1 /\ l + 1 \in Nat
    BY <2>1 DEF Running
  <2>3. PICK c : c = Head(calls) /\ c = calls[1]
    BY <2>2, TailIs
  <2>4. l # 0
    <3>1. End.do = "end"
      BY DEF End, Call
    <3> QED BY <2>1, <2>3, <3>1 DEF Running
  <2>5. PICK p, q \in Config(Ats(doc.nodes)) : /\ p = y[1] /\ q = y[2]
                                              /\ Leads(doc, c, p, q)
    <3>1. 1 \in 1 .. l /\ 1 + 1 = 2 /\ 1 \in 1 .. l + 1 /\ 2 \in 1 .. l + 1
      BY <2>2, <2>4
    <3> QED BY <2>1, <2>3, <3>1 DEF Running
  <2>6. c.do = "output"
    BY <2>3
  <2>7. PICK v : Item(doc, c, v) /\ ItemLeads(p, q, v)
    <3>1. c # Object /\ c # Array /\ c # End /\ \A k : c # Key(k)
      <4>1. /\ Object.do = "object" /\ Array.do = "array" /\ End.do = "end"
            /\ \A k : Key(k).do = "key"
        BY DEF Object, Array, End, Key, Call
      <4> QED BY <2>6, <4>1
    <3> QED BY <2>5, <3>1 DEF Leads, KeyLeads
  <2>8. Means(doc, c, v)
    BY <2>6, <2>7 DEF Item
  <2>9. TextOf(q) # <<>>
    BY <2>5 DEF Leads
  <2>10. IsSeq(b) /\ \E a : Runs(doc, b, a) /\ a[1] = p /\ a[Len(b) + 1] = q
    BY <2>3, <2>7, <2>8, <2>9, BodyRuns
  <2>11. PICK a : Runs(doc, b, a) /\ a[1] = p /\ a[Len(b) + 1] = q
    BY <2>10
  <2>12. PICK k, z : Running(doc, b \o Tail(calls), k, z) /\ z[1] = y[1]
    BY <2>1, <2>4, <2>5, <2>10, <2>11, SplicedRuns
  <2>13. OnWay(doc, x, w, b \o Tail(calls))
    BY <2>1, <2>12 DEF OnWay
  <2> QED BY <1>2, <2>13 DEF Whole
<1> QED BY <1>1, <1>2 DEF Whole

LEMMA NextWhole ==
  ASSUME NEW doc, WellRead(doc), NEW x, x \in Texts(Ats(doc.nodes)),
         Whole(doc, x, jw, todo, json), [Next]_vars
  PROVE  Whole(doc, x, jw', todo', json')
<1>1. CASE OutputNode
  BY <1>1, OutputWhole DEF OutputNode
<1>2. CASE CallWriter
  BY <1>2, CallWhole DEF CallWriter
<1>3. CASE WriteFile
  <2>1. ~OnWay(doc, x, jw, todo)
    <3> SUFFICES ASSUME NEW l, NEW y, Running(doc, todo, l, y) PROVE FALSE
      BY DEF OnWay
    <3>1. l \in Nat /\ Len(todo) = l + 2 /\ todo = <<>> /\ Len(<<>>) = 0
      BY <1>3 DEF Running, WriteFile
    <3> QED BY <3>1
  <2> QED BY <1>3, <2>1 DEF WriteFile, Whole, Stopped
<1>4. CASE UNCHANGED vars
  BY <1>4 DEF vars
<1> QED BY <1>1, <1>2, <1>3, <1>4 DEF Next, Halt
-----------------------------------------------------------------------------
(* The values of the places of some nodes, level by level.                 *)
Levels(nodes, d, v) ==
  \A k \in 1 .. d : \A as \in {"expr", "stmt"} : \A m \in nodes :
    v[k][<<as, m>>] = AstValue(as, m, v[k - 1])

LEMMA ValuesAre ==
  ASSUME NEW nodes, NEW d \in Nat
  PROVE  \E v : Levels(nodes, d, v) /\ AstValues(nodes, d) = v[d]
<1> DEFINE Level(k, u) == [p \in {"expr", "stmt"} \X nodes |->
                             IF k = 0 THEN Atom(Mark("too deep"))
                                      ELSE AstValue(p[1], p[2], u)]
           Made(f) == f = [k \in 0 .. d |-> Level(k, f[k - 1])]
           Upto(k, f) == f[0] = Level(0, 0) /\ \A i \in 1 .. k : f[i] = Level(i, f[i - 1])
           Ks == {k \in Nat : \E f : Upto(k, f)}
<1>1. \A u : Level(0, u) = Level(0, 0)
  OBVIOUS
<1>2. \A k \in 1 .. d : \A u : \A as \in {"expr", "stmt"} : \A m \in nodes :
        Level(k, u)[<<as, m>>] = AstValue(as, m, u)
  <2> TAKE k \in 1 .. d
  <2> TAKE u
  <2> TAKE as \in {"expr", "stmt"}
  <2> TAKE m \in nodes
  <2>1. k # 0
    OBVIOUS
  <2>2. PICK p \in {"expr", "stmt"} \X nodes : p = <<as, m>> /\ p[1] = as /\ p[2] = m
    <3>1. <<as, m>> \in {"expr", "stmt"} \X nodes
      OBVIOUS
    <3>2. <<as, m>>[1] = as /\ <<as, m>>[2] = m
      OBVIOUS
    <3> QED BY <3>1, <3>2, Zenon
  <2>3. Level(k, u)[p] = AstValue(p[1], p[2], u)
    BY <2>1
  <2> QED BY <2>2, <2>3
<1> HIDE DEF Level
<1>3. 0 \in Ks
  <2>1. PICK f : f = [i \in {0} |-> Level(0, 0)]
    OBVIOUS
  <2>2. f[0] = Level(0, 0)
    BY <2>1
  <2>3. \A i \in 1 .. 0 : FALSE
    OBVIOUS
  <2> QED BY <2>2, <2>3
<1>4. ASSUME NEW k \in Nat, k \in Ks PROVE k + 1 \in Ks
  <2>1. PICK r : Upto(k, r)
    BY <1>4
  <2> DEFINE s == [i \in 0 .. k + 1 |-> IF i = k + 1 THEN Level(k + 1, r[k]) ELSE r[i]]
  <2>2. /\ \A i \in 0 .. k : i \in 0 .. k + 1 /\ i # k + 1
        /\ k + 1 \in 0 .. k + 1 /\ k \in 0 .. k /\ 0 \in 0 .. k
        /\ \A i \in 1 .. k + 1 : i = k + 1 \/ (i \in 1 .. k)
        /\ \A i \in 1 .. k : i \in 0 .. k /\ i - 1 \in 0 .. k
        /\ (k + 1) - 1 = k
    OBVIOUS
  <2>3. s[k + 1] = Level(k + 1, r[k]) /\ \A i \in 0 .. k : s[i] = r[i]
    BY <2>2
  <2> HIDE DEF s
  <2>4. Upto(k + 1, s)
    BY <2>1, <2>2, <2>3
  <2> HIDE DEF Upto
  <2> QED BY <2>4
<1>5. PICK r : Upto(d, r)
  <2> HIDE DEF Ks
  <2>1. Nat \subseteq Ks
    BY <1>3, <1>4, EveryNat
  <2> QED BY <2>1 DEF Ks
<1>6. \E f : Made(f)
  <2> DEFINE s == [i \in 0 .. d |-> r[i]]
  <2>1. /\ \A i \in 0 .. d : i = 0 \/ (i \in 1 .. d /\ i - 1 \in 0 .. d)
        /\ \A i \in 1 .. d : i \in 0 .. d
        /\ 0 \in 0 .. d
    OBVIOUS
  <2>2. \A i \in 0 .. d : s[i] = r[i]
    OBVIOUS
  <2>3. s = [i \in 0 .. d |-> s[i]]
    OBVIOUS
  <2> HIDE DEF s
  <2>4. \A i \in 0 .. d : s[i] = Level(i, s[i - 1])
    BY <1>1, <1>5, <2>1, <2>2
  <2>5. Made(s)
    BY <2>3, <2>4, Zenon
  <2> QED BY <2>5
<1> DEFINE value == CHOOSE f : Made(f)
<1>7. Made(value)
  BY <1>6
<1>8. AstValues(nodes, d) = value[d]
  BY DEF AstValues, Level
<1> HIDE DEF value
<1>9. \A k \in 1 .. d : value[k] = Level(k, value[k - 1])
  <2>1. \A k \in 1 .. d : k \in 0 .. d
    OBVIOUS
  <2>2. \A k \in 0 .. d : value[k] = Level(k, value[k - 1])
    BY <1>7
  <2> QED BY <2>1, <2>2
<1>10. Levels(nodes, d, value)
  <2> SUFFICES ASSUME NEW k \in 1 .. d, NEW as \in {"expr", "stmt"}, NEW m \in nodes
               PROVE  value[k][<<as, m>>] = AstValue(as, m, value[k - 1])
    BY DEF Levels
  <2>1. PICK u : u = value[k - 1]
    OBVIOUS
  <2>2. value[k] = Level(k, u)
    BY <1>9, <2>1
  <2>3. Level(k, u)[<<as, m>>] = AstValue(as, m, u)
    BY <1>2
  <2> QED BY <2>1, <2>2, <2>3
<1> QED BY <1>8, <1>10

(* Nodes that can all be read, and the places they stand in, of which no   *)
(* level is above d.                                                       *)
Readable(nodes, places, d) ==
  /\ d \in Nat
  /\ \A as, m, k : <<as, m, k>> \in places =>
       /\ as \in {"expr", "stmt"} /\ k \in 1 .. d
       /\ Legible([nodes |-> nodes, places |-> places], as, m, k)

LEMMA DocumentIs ==
  ASSUME NEW nodes, NEW places, NEW d, Readable(nodes, places, d),
         NEW tree, Len(tree) \in Nat,
         \A i \in 1 .. Len(tree) : <<"stmt", tree[i], d>> \in places,
         Tree = tree
  PROVE  \E doc : /\ WellRead(doc) /\ Document(nodes, d) \in Texts(Ats(doc.nodes))
                  /\ RootRun(doc, RootCalls(tree), Document(nodes, d))
<1>1. PICK v : Levels(nodes, d, v) /\ AstValues(nodes, d) = v[d]
  BY ValuesAre DEF Readable
<1>2. PICK old : old = [nodes |-> nodes, places |-> places]
  OBVIOUS
<1>3. PICK doc : doc = [nodes |-> nodes, places |-> places, value |-> v]
  OBVIOUS
<1>4. /\ doc.nodes = nodes /\ doc.places = places /\ doc.value = v
      /\ old.nodes = nodes /\ old.places = places
  BY <1>2, <1>3
<1>5. \A f, m, k : Ready(old, f, m, k) => Ready(doc, f, m, k)
  <2> TAKE f, m, k
  <2>1. Ready(old, f, m, k) = Ready(doc, f, m, k)
    BY <1>4, Zenon DEF Ready
  <2> QED BY <2>1
<1>6. \A as, m, k : Legible(old, as, m, k) => Legible(doc, as, m, k)
  BY <1>4, <1>5, ZenonT(60) DEF Legible
<1>7. WellRead(doc)
  <2> SUFFICES ASSUME NEW as, NEW m, NEW k, <<as, m, k>> \in doc.places
               PROVE  /\ Legible(doc, as, m, k)
                      /\ doc.value[k][<<as, m>>] = AstValue(as, m, doc.value[k - 1])
    BY DEF WellRead
  <2>1. as \in {"expr", "stmt"} /\ k \in 1 .. d /\ Legible(old, as, m, k)
    BY <1>2, <1>4 DEF Readable
  <2>2. Legible(doc, as, m, k)
    BY <1>6, <2>1
  <2>3. m \in nodes
    BY <1>4, <2>2 DEF Legible
  <2> QED BY <1>1, <1>4, <2>1, <2>2, <2>3 DEF Levels
<1>8. PICK n \in Nat : n = Len(tree)
  OBVIOUS
<1>9. PICK vs : vs = [i \in 1 .. n |-> v[d][<<"stmt", tree[i]>>]]
  OBVIOUS
<1>10. \A i \in 1 .. n : Means(doc, Output("Stmt", tree[i]), vs[i])
  <2> TAKE i \in 1 .. n
  <2>1. Ready(doc, "Stmt", tree[i], d)
    BY <1>4, <1>8 DEF Ready
  <2>2. d \in Nat
    BY DEF Readable
  <2>3. Means(doc, Output("Stmt", tree[i]), Val(doc, "Stmt", tree[i], d))
    BY <1>7, <2>1, <2>2, ReadyMeans
  <2> QED BY <1>4, <1>9, <2>3 DEF Val
<1>11. Document(nodes, d) = Arr(n, vs)
  BY <1>1, <1>8, <1>9 DEF Document
<1> QED BY <1>7, <1>8, <1>10, <1>11, RootRuns

(* What is in the file when it is there.                                   *)
LEMMA WholeIs ==
  ASSUME NEW doc, NEW nodes, NEW d, Whole(doc, Document(nodes, d), jw, todo, json)
  PROVE  WholeOrCut(nodes, d)
<1>1. PICK x : x = Document(nodes, d)
  OBVIOUS
<1>2. json # <<>> => json = jw.out /\ Outcome(jw.out, x)
  BY <1>1 DEF Whole, Stopped
<1>3. json # <<>> => IF Fits(x) THEN json = x.text
                     ELSE Len(json) < Len(x.text) /\ json = SubSeq(x.text, 1, Len(json))
  BY <1>2 DEF Outcome, Begins, TextOf
<1> QED BY <1>1, <1>3 DEF WholeOrCut, Fits, TextOf
=============================================================================
