----------------------------- MODULE LexerProofs -----------------------------
(***************************************************************************)
(* The lexer, for every source text, alphabet and capacity: how far the    *)
(* cursor goes, that the token array is never overrun, that tokens do not  *)
(* overlap, that line and column numbers are right, and that the source is *)
(* divided as LexerReference divides it.                                   *)
(***************************************************************************)
EXTENDS LexerReference, FiniteSetTheorems, SequenceTheorems, WellFoundedInduction, TLAPS

(* Where Tokenize is past the tests at the head of the loop.               *)
Within  == {"sign", "line", "block", "body", "num", "str", "word"}
Literal == {"num", "str", "word"}

(* How far the source may belong to tokens: a literal being read is not    *)
(* one yet.                                                                *)
Reach == CASE pc = "str"            -> start - 1
           [] pc \in {"num", "word"} -> start
           [] OTHER                 -> Index

SpansOK(e) ==
  \A k \in 1 .. Len(Tokens) :
    /\ Tokens[k].at <= Tokens[k].to
    /\ Tokens[k].to <= e
    /\ k > 1 => Tokens[k - 1].to < Tokens[k].at

PositionOK(t) ==
  IsPosition(IF t.type \in {"_SPEC", "_OP"} THEN t.at - 1 ELSE t.to,
             t.line, t.column)

(* Where the cursor may be, the room left, and what a literal starts with. *)
Bounds ==
  /\ Len(Tokens) <= MAX_TOKENS
  /\ pc \in Within => Index <= Len(Source) /\ Len(Tokens) < MAX_TOKENS
  /\ pc \in Literal => start <= Index
  /\ pc = "str" => start >= 1
  /\ pc = "num"  /\ start = Index => PeekChar \in Digits
  /\ pc = "word" /\ start = Index => PeekChar \in Letters

Positions ==
  /\ IsPosition(Index, Line, Column)
  /\ \A k \in 1 .. Len(Tokens) : PositionOK(Tokens[k])

(* The inductive invariant.  That the cursor stays within one of the end   *)
(* needs Bounds: whatever consumes without looking does so inside a turn   *)
(* of the loop, and only the last thing a turn does passes the end.        *)
IInv == TypeOK /\ Bounds /\ SpansOK(Reach) /\ Positions

-----------------------------------------------------------------------------
(* ConsumeChar, within the source and its terminator.                      *)
LEMMA ConsumeLemma ==
  ASSUME TypeOK, IsPosition(Index, Line, Column), Index <= Len(Source),
         ConsumeChar, Source' = Source
  PROVE  /\ Index' = Index + 1 /\ Index' \in 0 .. Len(Source) + 1
         /\ Line' \in Nat \ {0} /\ Column' \in Nat \ {0}
         /\ IsPosition(Index, Line, Column)'
<1> DEFINE S(n) == {i \in 1 .. n : CharAt(i) = "nl"}
<1>1. /\ Len(Source) \in Nat /\ Index \in Nat /\ Line \in Nat \ {0}
      /\ Column \in Nat \ {0} /\ Index' = Index + 1
  BY DEF TypeOK, ConsumeChar
<1>2. \A i : CharAt(i)' = CharAt(i)
  BY DEF CharAt
<1>3. Line = 1 + Cardinality(S(Index)) /\ Column \in 1 .. Index + 1
  BY DEF IsPosition
<1>4. IsFiniteSet(S(Index)) /\ Cardinality(S(Index)) \in Nat
  <2>1. IsFiniteSet(1 .. Index)
    BY <1>1, FS_Interval
  <2>2. S(Index) \subseteq 1 .. Index
    OBVIOUS
  <2> QED BY <2>1, <2>2, FS_Subset, FS_CardinalityType
<1>5. CASE PeekChar = "nl"
  <2>1. Line' = Line + 1 /\ Column' = 1
    BY <1>5 DEF ConsumeChar
  <2>2. S(Index + 1) = S(Index) \cup {Index + 1} /\ Index + 1 \notin S(Index)
    BY <1>1, <1>5 DEF PeekChar
  <2>3. Cardinality(S(Index + 1)) = Cardinality(S(Index)) + 1
    BY <1>4, <2>2, FS_AddElement
  <2>4. /\ Line' = 1 + Cardinality(S(Index + 1))
        /\ Column' \in 1 .. Index' + 1
        /\ CharAt(Index' + 1 - Column') = "nl"
        /\ \A i \in Index' + 2 - Column' .. Index' : CharAt(i) # "nl"
    BY <1>1, <1>3, <1>4, <1>5, <2>1, <2>3 DEF PeekChar
  <2>5. IsPosition(Index, Line, Column)'
    BY <1>1, <1>2, <2>4 DEF IsPosition
  <2> QED BY <1>1, <2>1, <2>5
<1>6. CASE PeekChar # "nl"
  <2>1. Line' = Line /\ Column' = Column + 1
    BY <1>6 DEF ConsumeChar
  <2>2. S(Index + 1) = S(Index)
    BY <1>1, <1>6 DEF PeekChar
  <2>3. /\ Column <= Index => CharAt(Index + 1 - Column) = "nl"
        /\ \A i \in Index + 2 - Column .. Index : CharAt(i) # "nl"
    BY DEF IsPosition
  <2>4. Index' + 1 - Column' = Index + 1 - Column
    BY <1>1, <2>1
  <2>5. \A i \in Index' + 2 - Column' .. Index' : CharAt(i) # "nl"
    BY <1>1, <1>6, <2>1, <2>3 DEF PeekChar
  <2>6. Column' \in 1 .. Index' + 1 /\ (Column' <= Index' => Column <= Index)
    BY <1>1, <1>3, <2>1
  <2>7. Line' = 1 + Cardinality(S(Index'))
    BY <1>1, <1>3, <2>1, <2>2
  <2>8. IsPosition(Index, Line, Column)'
    BY <1>2, <2>3, <2>4, <2>5, <2>6, <2>7 DEF IsPosition
  <2> QED BY <1>1, <2>1, <2>8
<1> QED BY <1>5, <1>6

-----------------------------------------------------------------------------
(* A step that stores no token: what it leaves of the invariant to show is *)
(* Bounds and that Reach does not shrink.                                  *)
LEMMA QuietStep ==
  ASSUME IInv, Source' = Source, Tokens' = Tokens,
         UNCHANGED cursor \/ (ConsumeChar /\ Index <= Len(Source)),
         pc' \in States, start' \in Nat, HasDecimal' \in BOOLEAN,
         Reach' \in Int, Reach' >= Reach, Bounds'
  PROVE  IInv'
<1>1. \A i : CharAt(i)' = CharAt(i)
  BY DEF CharAt
<1>2. /\ Index' \in 0 .. Len(Source) + 1
      /\ Line' \in Nat \ {0} /\ Column' \in Nat \ {0}
      /\ IsPosition(Index, Line, Column)'
  <2>1. CASE UNCHANGED cursor
    BY <1>1, <2>1 DEF cursor, IInv, TypeOK, Positions, IsPosition
  <2>2. CASE ConsumeChar /\ Index <= Len(Source)
    BY <2>2, ConsumeLemma DEF IInv, Positions
  <2> QED BY <2>1, <2>2
<1>3. TypeOK'
  BY <1>2 DEF IInv, TypeOK
<1>4. SpansOK(Reach)'
  <2>1. SpansOK(Reach) /\ Reach \in Int
    BY DEF IInv, Reach, TypeOK
  <2>2. \A k \in 1 .. Len(Tokens) : Tokens[k].to \in Nat
    <3>1. \A k \in 1 .. Len(Tokens) : Tokens[k] \in TokenRecords
      BY DEF IInv, TypeOK
    <3> QED BY <3>1 DEF TokenRecords
  <2> HIDE DEF Reach
  <2> QED BY <2>1, <2>2 DEF SpansOK
<1>5. Positions'
  BY <1>1, <1>2 DEF IInv, Positions, PositionOK, IsPosition
<1> QED BY <1>3, <1>4, <1>5 DEF IInv

(* A step that stores a token.                                             *)
LEMMA StoreStep ==
  ASSUME IInv, Source' = Source, NEW t \in TokenRecords, Store(t),
         UNCHANGED cursor \/ (ConsumeChar /\ Index <= Len(Source)),
         Len(Tokens) < MAX_TOKENS,
         pc' = "loop", start' = start, HasDecimal' = HasDecimal,
         Reach < t.at, t.at <= t.to, t.to <= Index',
         PositionOK(t)'
  PROVE  IInv'
<1>1. \A i : CharAt(i)' = CharAt(i)
  BY DEF CharAt
<1>2. /\ Index' \in 0 .. Len(Source) + 1
      /\ Line' \in Nat \ {0} /\ Column' \in Nat \ {0}
      /\ IsPosition(Index, Line, Column)'
  <2>1. CASE UNCHANGED cursor
    BY <1>1, <2>1 DEF cursor, IInv, TypeOK, Positions, IsPosition
  <2>2. CASE ConsumeChar /\ Index <= Len(Source)
    BY <2>2, ConsumeLemma DEF IInv, Positions
  <2> QED BY <2>1, <2>2
<1>3. /\ Tokens \in Seq(TokenRecords) /\ Tokens' \in Seq(TokenRecords)
      /\ Len(Tokens) \in Nat /\ Len(Tokens') = Len(Tokens) + 1
      /\ \A k \in 1 .. Len(Tokens) : Tokens'[k] = Tokens[k]
      /\ Tokens'[Len(Tokens) + 1] = t
  BY AppendProperties DEF Store, IInv, TypeOK
<1>4. TypeOK'
  BY <1>2, <1>3 DEF IInv, TypeOK, States
<1>5. Bounds'
  BY <1>3, LexerAssumption DEF IInv, Bounds, Within, Literal
<1>6. Reach \in Int /\ Reach' = Index'
  BY DEF Reach, IInv, TypeOK
<1>7. SpansOK(Reach)'
  <2>1. /\ t.at \in Nat /\ t.to \in Nat
        /\ \A k \in 1 .. Len(Tokens) : Tokens[k].at \in Nat /\ Tokens[k].to \in Nat
    <3>1. \A k \in 1 .. Len(Tokens) : Tokens[k] \in TokenRecords
      BY <1>3
    <3> QED BY <3>1 DEF TokenRecords
  <2>2. SpansOK(Reach)
    BY DEF IInv
  <2>3. Index' \in Nat
    BY <1>2 DEF IInv, TypeOK
  <2> DEFINE r == Reach
  <2>4. SpansOK(r) /\ r \in Int /\ r < t.at
    BY <1>6, <2>2
  <2> HIDE DEF r
  <2>5. ASSUME NEW k \in 1 .. Len(Tokens')
        PROVE  /\ Tokens'[k].at <= Tokens'[k].to
               /\ Tokens'[k].to <= Index'
               /\ k > 1 => Tokens'[k - 1].to < Tokens'[k].at
    <3>1. CASE k \in 1 .. Len(Tokens)
      <4>1. k > 1 => k - 1 \in 1 .. Len(Tokens)
        BY <1>3, <3>1
      <4>2. /\ Tokens[k].at <= Tokens[k].to /\ Tokens[k].to <= r
            /\ k > 1 => Tokens[k - 1].to < Tokens[k].at
        BY <2>4, <3>1 DEF SpansOK
      <4>3. Tokens[k].to < t.at
        BY <2>1, <2>4, <3>1, <4>2
      <4> QED BY SMTT(20), <1>3, <2>1, <2>3, <3>1, <4>1, <4>2, <4>3
    <3>2. CASE k = Len(Tokens) + 1
      <4>1. k > 1 => k - 1 \in 1 .. Len(Tokens) /\ k - 1 = Len(Tokens)
        BY <1>3, <3>2
      <4>2. Tokens'[k] = t
        BY <1>3, <3>2
      <4>3. ASSUME k > 1 PROVE Tokens'[k - 1].to < t.at
        <5>1. Tokens'[k - 1] = Tokens[k - 1] /\ Tokens[k - 1].to <= r
          BY <1>3, <2>4, <4>1, <4>3 DEF SpansOK
        <5>2. Tokens[k - 1].to \in Nat
          BY <2>1, <4>1, <4>3
        <5> QED BY <2>1, <2>4, <5>1, <5>2
      <4> QED BY <4>2, <4>3
    <3> QED BY <1>3, <3>1, <3>2
  <2> QED BY <1>6, <2>5 DEF SpansOK
<1>8. Positions'
  <2>1. ASSUME NEW k \in 1 .. Len(Tokens') PROVE PositionOK(Tokens[k])'
    <3>1. CASE k \in 1 .. Len(Tokens)
      <4>1. PositionOK(Tokens[k]) /\ Tokens'[k] = Tokens[k]
        BY <1>3, <3>1 DEF IInv, Positions
      <4> QED BY <1>1, <4>1 DEF PositionOK, IsPosition
    <3>2. CASE k = Len(Tokens) + 1
      BY <1>3, <3>2
    <3> QED BY <1>3, <3>1, <3>2
  <2> QED BY <1>2, <2>1 DEF Positions
<1> QED BY <1>4, <1>5, <1>7, <1>8 DEF IInv

-----------------------------------------------------------------------------
(* The first states.                                                       *)
LEMMA InitIInv == Init => IInv
<1> SUFFICES ASSUME Init PROVE IInv
  OBVIOUS
<1>1. TypeOK
  <2>1. Source \in Seq(Chars) /\ Tokens \in Seq(TokenRecords)
    BY LexerAssumption DEF Init
  <2>2. Len(Source) \in Nat
    BY <2>1
  <2>3. HasDecimal \in BOOLEAN
    BY DEF Init
  <2> QED BY <2>1, <2>2, <2>3 DEF Init, TypeOK, States
<1>2. Bounds
  BY LexerAssumption DEF Init, Bounds, Within, Literal
<1>3. SpansOK(Reach)
  BY DEF Init, SpansOK
<1>4. Positions
  <2>1. {i \in 1 .. 0 : CharAt(i) = "nl"} = {}
    OBVIOUS
  <2>2. Cardinality({i \in 1 .. 0 : CharAt(i) = "nl"}) = 0
    BY <2>1, FS_EmptySet
  <2>3. IsPosition(Index, Line, Column)
    BY <2>2 DEF Init, IsPosition
  <2> QED BY <2>3 DEF Init, Positions
<1> QED BY <1>1, <1>2, <1>3, <1>4 DEF IInv

(* Every step.                                                             *)
LEMMA NextIInv == IInv /\ [Next]_vars => IInv'
<1> SUFFICES ASSUME IInv, [Next]_vars PROVE IInv'
  OBVIOUS
<1>0. /\ Source \in Seq(Chars) /\ Len(Source) \in Nat
      /\ Index \in 0 .. Len(Source) + 1 /\ start \in Nat
      /\ HasDecimal \in BOOLEAN /\ pc \in States /\ Len(Tokens) \in Nat
      /\ Bounds
  BY DEF IInv, TypeOK
<1>a. /\ "NUL" \notin Digits \cup Letters /\ "DOT" \notin Digits
      /\ MAX_TOKENS \in Nat
  <2>1. Classes[1] \cap Classes[5] = {} /\ Classes[2] \cap Classes[5] = {}
    BY LexerAssumption DEF Classes
  <2> QED BY <2>1, LexerAssumption DEF Classes, Reserved
<1>b. ASSUME PeekChar # "NUL" PROVE Index < Len(Source)
  BY <1>0, <1>b DEF PeekChar, CharAt
<1>c. ASSUME ConsumeChar PROVE Index' = Index + 1
  BY <1>c DEF ConsumeChar
<1>1. CASE TooManyTokens
  <2>1. Bounds'
    BY <1>0, <1>1 DEF TooManyTokens, Bounds, Within, Literal
  <2>2. Reach' = Reach /\ Reach \in Int
    BY <1>0, <1>1 DEF TooManyTokens, Reach, cursor
  <2> QED BY <1>0, <1>1, <2>1, <2>2, QuietStep DEF TooManyTokens, States
<1>2. CASE LoopHead
  <2>1. Bounds'
    BY <1>0, <1>a, <1>b, <1>2 DEF LoopHead, Full, Bounds, Within, Literal, cursor
  <2>2. Reach' = Reach /\ Reach \in Int
    BY <1>0, <1>2 DEF LoopHead, Reach, cursor
  <2> QED BY <1>0, <1>2, <2>1, <2>2, QuietStep DEF LoopHead, States
<1>3. CASE FirstSign
  <2>1. Index < Len(Source) /\ Index' = Index + 1
    BY <1>b, <1>c, <1>3 DEF FirstSign
  <2>2. Bounds'
    BY <1>0, <1>a, <1>3, <2>1 DEF FirstSign, Full, Bounds, Within, Literal
  <2>3. Reach' \in Int /\ Reach' >= Reach
    BY <1>0, <1>3, <2>1 DEF FirstSign, Reach
  <2> QED BY <1>0, <1>3, <2>1, <2>2, <2>3, QuietStep DEF FirstSign, States
<1>4. CASE SecondSign
  <2>1. CASE PeekChar = "DOLLAR" /\ ConsumeChar /\ pc' = "line"
    <3>1. Index < Len(Source) /\ Index' = Index + 1
      BY <1>b, <1>c, <2>1
    <3>2. Bounds'
      BY <1>0, <1>a, <1>4, <2>1, <3>1 DEF SecondSign, Bounds, Within, Literal
    <3>3. Reach' \in Int /\ Reach' >= Reach
      BY <1>0, <1>4, <2>1, <3>1 DEF SecondSign, Reach
    <3> QED BY <1>0, <1>4, <2>1, <3>1, <3>2, <3>3, QuietStep
            DEF SecondSign, States
  <2>2. CASE pc' = "block" /\ UNCHANGED cursor
    <3>1. Bounds'
      BY <1>0, <1>a, <1>4, <2>2 DEF SecondSign, Bounds, Within, Literal, cursor
    <3>2. Reach' \in Int /\ Reach' >= Reach
      BY <1>0, <1>4, <2>2 DEF SecondSign, Reach, cursor
    <3> QED BY <1>0, <1>4, <2>2, <3>1, <3>2, QuietStep DEF SecondSign, States
  <2> QED BY <1>4, <2>1, <2>2 DEF SecondSign
<1>5. CASE CommentChar
  <2>1. pc' \in {"line", "block", "body"}
    BY <1>5 DEF CommentChar
  <2>2. CASE UNCHANGED cursor
    <3>1. Bounds'
      BY <1>0, <1>a, <1>5, <2>1, <2>2 DEF CommentChar, Bounds, Within, Literal, cursor
    <3>2. Reach' \in Int /\ Reach' >= Reach
      BY <1>0, <1>5, <2>1, <2>2 DEF CommentChar, Reach, cursor
    <3> QED BY <1>0, <1>5, <2>1, <2>2, <3>1, <3>2, QuietStep
            DEF CommentChar, States
  <2>3. CASE PeekChar # "NUL" /\ ConsumeChar
    <3>1. Index < Len(Source) /\ Index' = Index + 1
      BY <1>b, <1>c, <2>3
    <3>2. Bounds'
      BY <1>0, <1>a, <1>5, <2>1, <3>1 DEF CommentChar, Bounds, Within, Literal
    <3>3. Reach' \in Int /\ Reach' >= Reach
      BY <1>0, <1>5, <2>1, <3>1 DEF CommentChar, Reach
    <3> QED BY <1>0, <1>5, <2>1, <2>3, <3>1, <3>2, <3>3, QuietStep
            DEF CommentChar, States
  <2> QED BY <1>5, <2>2, <2>3 DEF CommentChar, Closing
<1>6. CASE DropChar
  <2>1. Index < Len(Source) /\ Index' = Index + 1
    BY <1>b, <1>c, <1>6 DEF DropChar, Spaces
  <2>2. Bounds'
    BY <1>0, <1>a, <1>6, <2>1 DEF DropChar, Bounds, Within, Literal
  <2>3. Reach' \in Int /\ Reach' >= Reach
    BY <1>0, <1>6, <2>1 DEF DropChar, Reach
  <2> QED BY <1>0, <1>6, <2>1, <2>2, <2>3, QuietStep DEF DropChar, States
<1>7. CASE Symbol
  <2> PICK t : t = Token(IF PeekChar \in Specials THEN "_SPEC" ELSE "_OP",
                         PeekChar, Index + 1, Index + 1, GetLine, GetColumn)
    OBVIOUS
  <2>1. /\ Store(t) /\ ConsumeChar /\ pc = "body" /\ Index' = Index + 1
        /\ Index <= Len(Source) /\ Len(Tokens) < MAX_TOKENS
    BY <1>0, <1>c, <1>7 DEF Symbol, Bounds, Within
  <2>2. PeekChar \in Chars \cup {"NUL"}
    BY <1>0 DEF PeekChar, CharAt
  <2>3. Line \in Nat /\ Column \in Nat
    BY DEF IInv, TypeOK
  <2>4. t \in TokenRecords
    BY <1>0, <2>2, <2>3 DEF Token, TokenRecords, GetLine, GetColumn
  <2>5. /\ t.at = Index + 1 /\ t.to = Index + 1 /\ t.type \in {"_SPEC", "_OP"}
        /\ t.line = Line /\ t.column = Column
    BY DEF Token, GetLine, GetColumn
  <2>6. PositionOK(t)'
    <3>1. IsPosition(Index, Line, Column) /\ \A i : CharAt(i)' = CharAt(i)
      BY <1>7 DEF IInv, Positions, Symbol, CharAt
    <3>2. t.at - 1 = Index
      BY <1>0, <2>5
    <3> QED BY <2>5, <3>1, <3>2 DEF PositionOK, IsPosition
  <2>7. Reach = Index
    BY <2>1 DEF Reach
  <2> QED BY <1>0, <1>7, <2>1, <2>4, <2>5, <2>6, <2>7, StoreStep DEF Symbol
<1>8. CASE StartLiteral
  <2>1. pc = "body" /\ Index <= Len(Source) /\ start' = Index'
        /\ Len(Tokens) < MAX_TOKENS
    BY <1>0, <1>8 DEF StartLiteral, Bounds, Within
  <2>a. HasDecimal' \in BOOLEAN
    BY <1>8 DEF StartLiteral
  <2>2. CASE PeekChar \in Digits /\ pc' = "num" /\ UNCHANGED cursor
    <3>1. PeekChar' = PeekChar
      BY <1>8, <2>2 DEF StartLiteral, cursor, PeekChar, CharAt
    <3>2. Bounds'
      BY <1>0, <1>8, <2>1, <2>2, <3>1
         DEF StartLiteral, Bounds, Within, Literal, cursor
    <3>3. Reach' \in Int /\ Reach' >= Reach
      BY <1>0, <2>1, <2>2 DEF Reach, cursor
    <3>4. /\ start' \in Nat /\ pc' \in States
          /\ Source' = Source /\ Tokens' = Tokens
      BY <1>0, <1>8, <2>1, <2>2 DEF StartLiteral, States, cursor
    <3> QED BY <2>2, <3>2, <3>3, <3>4, <2>a, QuietStep
  <2>3. CASE PeekChar \in Letters /\ pc' = "word" /\ UNCHANGED cursor
    <3>1. PeekChar' = PeekChar
      BY <1>8, <2>3 DEF StartLiteral, cursor, PeekChar, CharAt
    <3>2. Bounds'
      BY <1>0, <1>8, <2>1, <2>3, <3>1
         DEF StartLiteral, Bounds, Within, Literal, cursor
    <3>3. Reach' \in Int /\ Reach' >= Reach
      BY <1>0, <2>1, <2>3 DEF Reach, cursor
    <3>4. /\ start' \in Nat /\ pc' \in States
          /\ Source' = Source /\ Tokens' = Tokens
      BY <1>0, <1>8, <2>1, <2>3 DEF StartLiteral, States, cursor
    <3> QED BY <2>3, <3>2, <3>3, <3>4, <2>a, QuietStep
  <2>4. CASE PeekChar = "QUOTE" /\ ConsumeChar /\ pc' = "str"
    <3>1. Index < Len(Source) /\ Index' = Index + 1
      BY <1>b, <1>c, <2>4
    <3>2. Bounds'
      BY <1>0, <1>8, <2>1, <2>4, <3>1 DEF StartLiteral, Bounds, Within, Literal
    <3>3. Reach' \in Int /\ Reach' >= Reach
      BY <1>0, <2>1, <2>4, <3>1 DEF Reach
    <3>4. /\ start' \in Nat /\ pc' \in States
          /\ Source' = Source /\ Tokens' = Tokens
      BY <1>0, <1>8, <2>1, <2>4, <3>1 DEF StartLiteral, States
    <3> QED BY <2>1, <2>4, <3>2, <3>3, <3>4, <2>a, QuietStep
  <2> QED BY <1>8, <2>2, <2>3, <2>4 DEF StartLiteral
<1>9. CASE LiteralTooLong \/ Overrun
  <2>1. pc \in Literal /\ pc' \in {"exit", "overrun"}
        /\ UNCHANGED <<Source, cursor, Tokens, start, HasDecimal>>
    BY <1>9 DEF LiteralTooLong, Overrun, InLiteral, EndOfLiteral, Literal
  <2>2. Bounds'
    BY <1>0, <2>1 DEF Bounds, Within, Literal
  <2>3. Reach' \in Int /\ Reach' >= Reach
    BY <1>0, <2>1 DEF Reach, cursor, Literal, Bounds
  <2> QED BY <1>0, <2>1, <2>2, <2>3, QuietStep DEF States
<1>10. CASE LiteralChar
  <2>1. /\ pc \in Literal /\ pc' = pc /\ start' = start /\ ConsumeChar
        /\ Source' = Source /\ Tokens' = Tokens /\ PeekChar # "NUL"
    BY <1>a, <1>10 DEF LiteralChar, InLiteral, Literal
  <2>2. Index < Len(Source) /\ Index' = Index + 1
    BY <1>b, <1>c, <2>1
  <2>3. Bounds'
    BY <1>0, <2>1, <2>2 DEF Bounds, Within, Literal
  <2>4. Reach' = Reach /\ Reach \in Int
    BY <1>0, <2>1 DEF Reach, Literal
  <2>5. HasDecimal' \in BOOLEAN
    BY <1>0, <1>10 DEF LiteralChar
  <2> QED BY <1>0, <2>1, <2>2, <2>3, <2>4, <2>5, QuietStep
<1>d. ASSUME pc \in {"num", "word"}, EndOfLiteral PROVE start < Index
  <2>1. pc = "num" => PeekChar \notin Digits
    BY <1>a, <1>d DEF EndOfLiteral, InLiteral, SecondDecimal
  <2>2. pc = "word" => PeekChar \notin Letters
    BY <1>d DEF EndOfLiteral, InLiteral, SecondDecimal
  <2> QED BY <1>0, <1>d, <2>1, <2>2 DEF Bounds, Literal
<1>e. ASSUME NEW t, t.to = Index, t.type \notin {"_SPEC", "_OP"},
             t.line = Line, t.column = Column, Source' = Source
      PROVE  PositionOK(t)'
  <2>1. IsPosition(Index, Line, Column) /\ \A i : CharAt(i)' = CharAt(i)
    BY <1>e DEF IInv, Positions, CharAt
  <2> QED BY <1>e, <2>1 DEF PositionOK, IsPosition
<1>11. CASE Number \/ Word
  <2> PICK t : /\ Store(t)
               /\ \E type \in {"_NUMLIT", "_ID", "_KEY", "_BITYPE"},
                    sub \in {"INT", "FLOAT", "NONE"} :
                    t = Token(type, sub, start + 1, Index, GetLine, GetColumn)
    BY <1>11 DEF Number, Word, WordType
  <2>1. /\ pc \in {"num", "word"} /\ start < Index /\ pc' = "loop"
        /\ Index <= Len(Source) /\ Len(Tokens) < MAX_TOKENS
        /\ UNCHANGED <<Source, cursor, start, HasDecimal>>
    BY <1>0, <1>d, <1>11 DEF Number, Word, Bounds, Within
  <2>2. Line \in Nat /\ Column \in Nat
    BY DEF IInv, TypeOK
  <2>3. t \in TokenRecords
    BY <1>0, <2>2 DEF Token, TokenRecords, GetLine, GetColumn
  <2>4. /\ t.at = start + 1 /\ t.to = Index /\ t.type \notin {"_SPEC", "_OP"}
        /\ t.line = Line /\ t.column = Column
    BY DEF Token, GetLine, GetColumn
  <2>5. PositionOK(t)'
    BY <1>e, <2>1, <2>4
  <2>6. Reach = start /\ Reach < t.at /\ t.at <= t.to /\ t.to <= Index'
    BY <1>0, <2>1, <2>4 DEF Reach, cursor
  <2> QED BY <1>0, <2>1, <2>3, <2>5, <2>6, StoreStep
<1>12. CASE StringLiteral
  <2> PICK t : /\ Store(t)
               /\ t = Token("_STRLIT", "NONE", start, Index + 1, Line', Column')
    BY <1>12 DEF StringLiteral
  <2>1. /\ pc = "str" /\ start <= Index /\ start >= 1 /\ pc' = "loop"
        /\ Index <= Len(Source) /\ Len(Tokens) < MAX_TOKENS
        /\ ConsumeChar /\ UNCHANGED <<Source, start, HasDecimal>>
    BY <1>0, <1>12 DEF StringLiteral, Bounds, Within, Literal
  <2>2. /\ Index' = Index + 1 /\ Line' \in Nat /\ Column' \in Nat
        /\ IsPosition(Index, Line, Column)'
    BY <2>1, ConsumeLemma DEF IInv, Positions
  <2>3. t \in TokenRecords
    BY <1>0, <2>2 DEF Token, TokenRecords
  <2>4. /\ t.at = start /\ t.to = Index' /\ t.type \notin {"_SPEC", "_OP"}
        /\ t.line = Line' /\ t.column = Column'
    BY <2>2 DEF Token
  <2>5. PositionOK(t)'
    BY <2>2, <2>4 DEF PositionOK
  <2>6. Reach = start - 1 /\ Reach < t.at /\ t.at <= t.to /\ t.to <= Index'
    BY <1>0, <2>1, <2>2, <2>4 DEF Reach
  <2> QED BY <1>0, <2>1, <2>3, <2>5, <2>6, StoreStep
<1>13. CASE Finish
  <2>1. Bounds'
    BY <1>0, <1>13 DEF Finish, Bounds, Within, Literal
  <2>2. Reach' = Reach /\ Reach \in Int
    BY <1>0, <1>13 DEF Finish, Reach, cursor
  <2> QED BY <1>0, <1>13, <2>1, <2>2, QuietStep DEF Finish, States
<1>14. CASE UNCHANGED vars
  <2>1. /\ UNCHANGED <<Source, Index, Line, Column, Tokens, pc, start, HasDecimal>>
        /\ \A i : CharAt(i)' = CharAt(i)
    BY <1>14 DEF vars, CharAt
  <2>2. Bounds'
    BY <2>1 DEF IInv, Bounds, PeekChar
  <2>3. Reach' = Reach /\ Reach \in Int
    BY <1>0, <2>1 DEF Reach
  <2> QED BY <1>0, <2>1, <2>2, <2>3, QuietStep DEF cursor
<1> QED
  BY <1>1, <1>2, <1>3, <1>4, <1>5, <1>6, <1>7, <1>8, <1>9, <1>10, <1>11, <1>12,
     <1>13, <1>14 DEF Next, Halt

-----------------------------------------------------------------------------
(* TypeOK for every source: the cursor never goes more than one past the   *)
(* end, so that Tokenize reads nothing beyond the terminator of Source.    *)
THEOREM TypeCorrect == Spec => []TypeOK
<1>1. IInv => TypeOK
  BY DEF IInv
<1> QED BY InitIInv, NextIInv, <1>1, PTL DEF Spec

(* TokensFit for every source and capacity: one test per turn of the loop  *)
(* is enough, because no turn stores two tokens.                           *)
THEOREM TokenArrayFits == Spec => []TokensFit
<1>1. IInv => TokensFit
  BY DEF IInv, Bounds, TokensFit
<1> QED BY InitIInv, NextIInv, <1>1, PTL DEF Spec

(* SpansInOrder for every source: no character is part of two tokens.      *)
THEOREM SpansCorrect == Spec => []SpansInOrder
<1>1. IInv => SpansInOrder
  <2>1. SUFFICES ASSUME IInv PROVE SpansInOrder
    OBVIOUS
  <2>2. /\ Tokens \in Seq(TokenRecords) /\ Index \in Nat /\ start \in Nat
        /\ pc \in Literal => start <= Index
    BY <2>1 DEF IInv, TypeOK, Bounds
  <2>3. \A k \in 1 .. Len(Tokens) : Tokens[k] \in TokenRecords
    BY <2>2
  <2>4. \A k \in 1 .. Len(Tokens) : Tokens[k].to \in Nat
    BY <2>3 DEF TokenRecords
  <2>5. Reach \in Int /\ Reach <= Index
    BY <2>2 DEF Reach, Literal
  <2>6. SpansOK(Reach)
    BY <2>1 DEF IInv
  <2>7. DOMAIN Tokens = 1 .. Len(Tokens)
    BY <2>2
  <2> HIDE DEF Reach
  <2> QED BY <2>2, <2>4, <2>5, <2>6, <2>7 DEF SpansOK, SpansInOrder
<1> QED BY InitIInv, NextIInv, <1>1, PTL DEF Spec

(* PositionsRight for every source: the cursor's line and column, and the  *)
(* ones stored with the tokens, are those of the source text.              *)
THEOREM PositionsCorrect == Spec => []PositionsRight
<1>1. IInv => PositionsRight
  <2>1. SUFFICES ASSUME IInv PROVE PositionsRight
    OBVIOUS
  <2>2. DOMAIN Tokens = 1 .. Len(Tokens)
    BY <2>1 DEF IInv, TypeOK
  <2> QED BY <2>1, <2>2 DEF IInv, Positions, PositionOK, PositionsRight
<1> QED BY InitIInv, NextIInv, <1>1, PTL DEF Spec

-----------------------------------------------------------------------------
(* The division of the source.  Two arguments meet here.  About the        *)
(* division: up to a start, its items lie side by side (Cut), and behind   *)
(* the next item the same holds (NextCut), by leaving out of a closed set  *)
(* what lies within that item.  About Tokenize: from one start to the next *)
(* it reads one item (At), of which the characters read so far are those   *)
(* of the item.                                                            *)
LEMMA FirstNat ==
  ASSUME NEW T \in SUBSET Nat, T # {}
  PROVE  \E m \in T : \A k \in T : m <= k
<1>1. \E m \in T : \A k \in T : ~(<<k, m>> \in OpToRel(<, Nat))
  BY NatLessThanWellFounded, WFMin, Zenon
<1>2. \A k, m \in Nat : k < m => <<k, m>> \in OpToRel(<, Nat)
  BY DEF OpToRel
<1>3. \A k, m \in Nat : ~(k < m) => m <= k
  OBVIOUS
<1> QED BY <1>1, <1>2, <1>3

(* The classes of characters are apart, and '\0' is in none.               *)
LEMMA Alphabet ==
  /\ Letters \cap Digits = {} /\ Letters \cap SPECIAL_SYMBOLS = {}
  /\ Letters \cap OPERATORS = {} /\ Digits \cap SPECIAL_SYMBOLS = {}
  /\ Digits \cap OPERATORS = {} /\ SPECIAL_SYMBOLS \cap OPERATORS = {}
  /\ (Letters \cup Digits \cup SPECIAL_SYMBOLS \cup OPERATORS) \cap Reserved = {}
  /\ "NUL" \notin Chars
<1>1. \A i, j \in 1 .. 5 : i # j => Classes[i] \cap Classes[j] = {}
  BY LexerAssumption DEF Classes
<1>2. /\ Classes[1] = Letters /\ Classes[2] = Digits /\ Classes[3] = SPECIAL_SYMBOLS
      /\ Classes[4] = OPERATORS /\ Classes[5] = Reserved
  BY DEF Classes
<1>3. /\ Classes[1] \cap Classes[2] = {} /\ Classes[1] \cap Classes[3] = {}
      /\ Classes[1] \cap Classes[4] = {} /\ Classes[2] \cap Classes[3] = {}
      /\ Classes[2] \cap Classes[4] = {} /\ Classes[3] \cap Classes[4] = {}
      /\ Classes[1] \cap Classes[5] = {} /\ Classes[2] \cap Classes[5] = {}
      /\ Classes[3] \cap Classes[5] = {} /\ Classes[4] \cap Classes[5] = {}
  BY <1>1
<1> QED BY <1>2, <1>3 DEF Chars, Spaces, Reserved

LEMMA Characters ==
  ASSUME Source \in Seq(Chars), NEW i \in Nat \ {0}
  PROVE  /\ CharAt(i) \in Chars \cup {"NUL"}
         /\ CharAt(i) = "NUL" <=> i > Len(Source)
BY Alphabet DEF CharAt

-----------------------------------------------------------------------------
(* Where items end.                                                        *)
LEMMA FindEnds ==
  ASSUME Source \in Seq(Chars), NEW c, NEW i \in 1 .. Len(Source) + 1
  PROVE  /\ Find(c, i) \in i .. Len(Source) + 1
         /\ CharAt(Find(c, i)) \in {c, "NUL"}
         /\ \A m \in i .. Find(c, i) - 1 : CharAt(m) # c
<1> DEFINE T == {k \in i .. Len(Source) + 1 : CharAt(k) \in {c, "NUL"}}
<1>1. Len(Source) \in Nat
  OBVIOUS
<1>2. CharAt(Len(Source) + 1) = "NUL"
  BY <1>1 DEF CharAt
<1>3. T \in SUBSET Nat /\ T # {}
  BY <1>1, <1>2
<1>4. PICK k \in T : \A m \in T : k <= m
  BY <1>3, FirstNat
<1>5. k \in i .. Len(Source) + 1 /\ CharAt(k) \in {c, "NUL"}
      /\ \A m \in i .. k - 1 : CharAt(m) # c
  BY <1>1, <1>4
<1> QED BY <1>5 DEF Find

LEMMA FindIs ==
  ASSUME Source \in Seq(Chars), NEW c, NEW i \in 1 .. Len(Source) + 1,
         NEW k \in i .. Len(Source) + 1, CharAt(k) \in {c, "NUL"},
         \A m \in i .. k - 1 : CharAt(m) # c
  PROVE  Find(c, i) = k
<1> DEFINE f == Find(c, i)
<1>1. /\ f \in i .. Len(Source) + 1 /\ CharAt(f) \in {c, "NUL"}
      /\ \A m \in i .. f - 1 : CharAt(m) # c
  BY FindEnds
<1>2. Len(Source) \in Nat /\ k \in Nat \ {0} /\ f \in Nat \ {0}
  BY <1>1
<1> HIDE DEF f
<1>3. ASSUME f < k PROVE FALSE
  <2>1. f \in i .. k - 1 /\ f <= Len(Source)
    BY <1>1, <1>2, <1>3
  <2> QED BY <1>1, <1>2, <2>1, Characters
<1>4. ASSUME k < f PROVE FALSE
  <2>1. k \in i .. f - 1 /\ k <= Len(Source)
    BY <1>1, <1>2, <1>4
  <2> QED BY <1>1, <1>2, <2>1, Characters
<1> QED BY <1>2, <1>3, <1>4 DEF f

LEMMA WordEnds ==
  ASSUME Source \in Seq(Chars), NEW i \in 1 .. Len(Source), CharAt(i) \in Letters
  PROVE  /\ WordEnd(i) \in i .. Len(Source)
         /\ \A j \in i .. Len(Source) :
              IsWord(i, j) /\ ~IsWord(i, j + 1) => WordEnd(i) = j
         /\ \A j \in i .. Len(Source) : IsWord(i, j) => j <= WordEnd(i)
<1> DEFINE T == {k \in i .. Len(Source) + 1 : ~IsWord(i, k)}
<1>1. Len(Source) \in Nat /\ CharAt(Len(Source) + 1) = "NUL"
  BY DEF CharAt
<1>2. ~IsWord(i, Len(Source) + 1)
  BY <1>1, Alphabet DEF IsWord, Reserved
<1>3. T \in SUBSET Nat /\ T # {}
  BY <1>1, <1>2
<1>4. PICK k \in T : \A m \in T : k <= m
  BY <1>3, FirstNat
<1>5. IsWord(i, i)
  BY DEF IsWord
<1>6. /\ k - 1 \in i .. Len(Source) /\ IsWord(i, k - 1) /\ ~IsWord(i, k - 1 + 1)
  <2>1. k # i /\ k - 1 \in i .. Len(Source) /\ k - 1 \notin T /\ k - 1 + 1 = k
    BY <1>1, <1>4, <1>5
  <2> QED BY <1>1, <2>1, <1>4
<1>7. /\ WordEnd(i) \in i .. Len(Source)
      /\ IsWord(i, WordEnd(i)) /\ ~IsWord(i, WordEnd(i) + 1)
  BY <1>6 DEF WordEnd
<1>8. ASSUME NEW a \in i .. Len(Source), NEW b \in i .. Len(Source),
             ~IsWord(i, a + 1), IsWord(i, b), a < b
      PROVE  FALSE
  BY <1>1, <1>8 DEF IsWord
<1> QED BY <1>1, <1>7, <1>8

LEMMA NumberEnds ==
  ASSUME Source \in Seq(Chars), NEW i \in 1 .. Len(Source), CharAt(i) \in Digits
  PROVE  /\ NumberEnd(i) \in i .. Len(Source)
         /\ \A j \in i .. Len(Source) :
              IsNumber(i, j) /\ ~IsNumber(i, j + 1) => NumberEnd(i) = j
         /\ \A j \in i .. Len(Source) : IsNumber(i, j) => j <= NumberEnd(i)
<1> DEFINE T == {k \in i .. Len(Source) + 1 : ~IsNumber(i, k)}
<1>1. Len(Source) \in Nat /\ CharAt(Len(Source) + 1) = "NUL"
  BY DEF CharAt
<1>2. ~IsNumber(i, Len(Source) + 1)
  BY <1>1, Alphabet DEF IsNumber, Reserved
<1>3. T \in SUBSET Nat /\ T # {}
  BY <1>1, <1>2
<1>4. PICK k \in T : \A m \in T : k <= m
  BY <1>3, FirstNat
<1>5. IsNumber(i, i)
  BY DEF IsNumber
<1>6. /\ k - 1 \in i .. Len(Source) /\ IsNumber(i, k - 1) /\ ~IsNumber(i, k - 1 + 1)
  <2>1. k # i /\ k - 1 \in i .. Len(Source) /\ k - 1 \notin T /\ k - 1 + 1 = k
    BY <1>1, <1>4, <1>5
  <2> QED BY <1>1, <2>1, <1>4
<1>7. /\ NumberEnd(i) \in i .. Len(Source)
      /\ IsNumber(i, NumberEnd(i)) /\ ~IsNumber(i, NumberEnd(i) + 1)
  BY <1>6 DEF NumberEnd
<1>8. ASSUME NEW a \in i .. Len(Source), NEW b \in i .. Len(Source),
             ~IsNumber(i, a + 1), IsNumber(i, b), a < b
      PROVE  FALSE
  BY <1>1, <1>8 DEF IsNumber
<1> QED BY <1>1, <1>7, <1>8

LEMMA ItemIs ==
  ASSUME NEW i
  PROVE  LET c == CharAt(i) IN
         /\ c = "DOLLAR" /\ CharAt(i + 1) = "DOLLAR"
              => ItemAt(i) = Item(i, Find("nl", i + 2), "line")
         /\ c = "DOLLAR" /\ CharAt(i + 1) # "DOLLAR"
              => ItemAt(i) = Item(i, Find("DOLLAR", i + 1), "block")
         /\ c \in Letters
              => ItemAt(i) = Item(i, WordEnd(i), WordType(SubSeq(Source, i, WordEnd(i))))
         /\ c \in Digits    => ItemAt(i) = Item(i, NumberEnd(i), "_NUMLIT")
         /\ c = "QUOTE"     => ItemAt(i) = Item(i, Find("QUOTE", i + 1), "_STRLIT")
         /\ c \in OPERATORS => ItemAt(i) = Item(i, i, "_OP")
         /\ c \in SPECIAL_SYMBOLS \cup {"DOT"} => ItemAt(i) = Item(i, i, "_SPEC")
         /\ c \notin Letters \cup Digits \cup OPERATORS \cup SPECIAL_SYMBOLS
                     \cup {"DOLLAR", "QUOTE", "DOT"}
              => ItemAt(i) = Item(i, i, "space")
<1> DEFINE c == CharAt(i)
<1>1. CASE c = "DOLLAR"
  BY <1>1, Alphabet DEF ItemAt, Reserved
<1>2. CASE c = "QUOTE"
  BY <1>2, Alphabet DEF ItemAt, Reserved
<1>3. CASE c = "DOT"
  BY <1>3, Alphabet DEF ItemAt, Reserved
<1>4. CASE c \in Letters
  BY <1>4, Alphabet DEF ItemAt, Reserved
<1>5. CASE c \in Digits
  BY <1>5, Alphabet DEF ItemAt, Reserved
<1>6. CASE c \in OPERATORS
  BY <1>6, Alphabet DEF ItemAt, Reserved
<1>7. CASE c \in SPECIAL_SYMBOLS
  BY <1>7, Alphabet DEF ItemAt, Reserved
<1>8. CASE c \notin Letters \cup Digits \cup OPERATORS \cup SPECIAL_SYMBOLS
                     \cup {"DOLLAR", "QUOTE", "DOT"}
  BY <1>8 DEF ItemAt
<1> QED BY <1>1, <1>2, <1>3, <1>4, <1>5, <1>6, <1>7, <1>8

(* An item has a character, and reaches the '\0' at most.                  *)
LEMMA ItemEnds ==
  ASSUME Source \in Seq(Chars), NEW i \in 1 .. Len(Source)
  PROVE  ItemAt(i).at = i /\ ItemAt(i).to \in i .. Len(Source) + 1
<1> DEFINE c == CharAt(i)
<1>1. Len(Source) \in Nat /\ i \in Nat \ {0} /\ i \in i .. Len(Source) + 1
  OBVIOUS
<1>2. CASE c = "DOLLAR" /\ CharAt(i + 1) = "DOLLAR"
  <2>1. i + 2 \in 1 .. Len(Source) + 1
    BY <1>1, <1>2, Characters
  <2>2. Find("nl", i + 2) \in i + 2 .. Len(Source) + 1
    BY <2>1, FindEnds
  <2>3. ItemAt(i) = Item(i, Find("nl", i + 2), "line")
    BY <1>2, ItemIs
  <2> QED BY <1>1, <2>2, <2>3 DEF Item
<1>3. CASE c = "DOLLAR" /\ CharAt(i + 1) # "DOLLAR"
  <2>1. Find("DOLLAR", i + 1) \in i + 1 .. Len(Source) + 1
    BY <1>1, FindEnds
  <2>2. ItemAt(i) = Item(i, Find("DOLLAR", i + 1), "block")
    BY <1>3, ItemIs
  <2> QED BY <1>1, <2>1, <2>2 DEF Item
<1>4. CASE c \in Letters
  <2>2. ItemAt(i) = Item(i, WordEnd(i), WordType(SubSeq(Source, i, WordEnd(i))))
    BY <1>4, ItemIs
  <2> QED BY <1>1, <1>4, <2>2, WordEnds DEF Item
<1>5. CASE c \in Digits
  <2>2. ItemAt(i) = Item(i, NumberEnd(i), "_NUMLIT")
    BY <1>5, ItemIs
  <2> QED BY <1>1, <1>5, <2>2, NumberEnds DEF Item
<1>6. CASE c = "QUOTE"
  <2>2. ItemAt(i) = Item(i, Find("QUOTE", i + 1), "_STRLIT")
    BY <1>6, ItemIs
  <2>3. Find("QUOTE", i + 1) \in i + 1 .. Len(Source) + 1
    BY <1>1, FindEnds
  <2> QED BY <1>1, <2>2, <2>3 DEF Item
<1>7. CASE c \notin Letters \cup Digits \cup {"DOLLAR", "QUOTE"}
  <2>1. \E type : ItemAt(i) = Item(i, i, type)
    BY <1>7, ItemIs
  <2> QED BY <1>1, <2>1 DEF Item
<1> QED BY <1>2, <1>3, <1>4, <1>5, <1>6, <1>7
-----------------------------------------------------------------------------
(* The division.                                                           *)
LEMMA StartsClosed ==
  ASSUME Source \in Seq(Chars)
  PROVE  /\ Starts \subseteq 1 .. Len(Source) + 2
         /\ \A i \in Starts : i \in Nat \ {0}
         /\ 1 \in Starts
         /\ \A i \in Starts : i <= Len(Source) => Behind(i) \in Starts
<1> DEFINE behind == [i \in 1 .. Len(Source) |-> Behind(i)]
           ends   == {behind[i] : i \in 1 .. Len(Source)}
           closed == {D \in SUBSET (ends \cup {1}) :
                        1 \in D /\ \A i \in D : i <= Len(Source) => behind[i] \in D}
<1>1. Starts = {i \in ends \cup {1} : \A D \in closed : i \in D}
  BY DEF Starts
<1>2. \A i \in 1 .. Len(Source) : behind[i] = Behind(i) /\ behind[i] \in i + 1 .. Len(Source) + 2
  BY ItemEnds DEF Behind
<1>3. ends \subseteq 1 .. Len(Source) + 2
  BY <1>2
<1>4. Starts \subseteq 1 .. Len(Source) + 2 /\ 1 \in Starts
  BY <1>1, <1>3
<1>a. \A i \in Starts : i \in Nat \ {0}
  BY <1>4
<1>5. ASSUME NEW i \in Starts, i <= Len(Source) PROVE Behind(i) \in Starts
  <2>1. i \in 1 .. Len(Source)
    BY <1>4, <1>5
  <2>2. Behind(i) \in ends /\ behind[i] = Behind(i)
    BY <1>2, <2>1
  <2>3. ASSUME NEW D \in closed PROVE Behind(i) \in D
    BY <1>1, <1>5, <2>2
  <2> QED BY <1>1, <2>2, <2>3
<1> QED BY <1>4, <1>a, <1>5

(* Up to the start p the items lie side by side.                           *)
Cut(p) == p \in Starts /\ \A j \in Starts : j < p => Behind(j) <= p

LEMMA NextCut ==
  ASSUME Source \in Seq(Chars), NEW p, Cut(p), p <= Len(Source)
  PROVE  /\ Cut(Behind(p)) /\ p < Behind(p)
         /\ \A j \in Starts : j < Behind(p) => j <= p
<1> DEFINE behind == [i \in 1 .. Len(Source) |-> Behind(i)]
           ends   == {behind[i] : i \in 1 .. Len(Source)}
           closed == {D \in SUBSET (ends \cup {1}) :
                        1 \in D /\ \A i \in D : i <= Len(Source) => behind[i] \in D}
           S == Starts
           q == Behind(p)
           D == {j \in S : j <= p \/ q <= j}
<1>1. S = {i \in ends \cup {1} : \A E \in closed : i \in E}
  BY DEF Starts
<1>2. \A i \in 1 .. Len(Source) : behind[i] = Behind(i) /\ Behind(i) \in i + 1 .. Len(Source) + 2
  BY ItemEnds DEF Behind
<1>3. /\ S \subseteq 1 .. Len(Source) + 2 /\ 1 \in S /\ Len(Source) \in Nat
      /\ \A i \in S : i <= Len(Source) => Behind(i) \in S
  BY StartsClosed
<1>4. p \in S /\ p \in 1 .. Len(Source) /\ \A j \in S : j < p => Behind(j) <= p
  BY <1>3 DEF Cut
<1>5. q \in S /\ q \in p + 1 .. Len(Source) + 2
  BY <1>2, <1>3, <1>4
<1>6. D \in closed
  <2>1. D \in SUBSET (ends \cup {1})
    BY <1>1
  <2>2. 1 \in D
    BY <1>3, <1>4
  <2>3. ASSUME NEW i \in D, i <= Len(Source) PROVE behind[i] \in D
    <3>1. i \in S /\ i \in 1 .. Len(Source) /\ behind[i] = Behind(i) /\ Behind(i) \in S
          /\ Behind(i) \in i + 1 .. Len(Source) + 2
      BY <1>2, <1>3, <2>3
    <3>2. CASE i < p
      BY <1>3, <1>4, <3>1, <3>2
    <3>3. CASE i = p
      BY <1>5, <3>1, <3>3
    <3>4. CASE q <= i
      BY <1>5, <3>1, <3>4
    <3> QED BY <1>4, <2>3, <3>1, <3>2, <3>3, <3>4
  <2> QED BY <2>1, <2>2, <2>3
<1> HIDE DEF q
<1>7. \A j \in S : j <= p \/ q <= j
  BY <1>1, <1>6
<1>8. \A j \in S : j < q => j <= p
  BY <1>3, <1>5, <1>7
<1>9. \A j \in S : j < q => Behind(j) <= q
  BY <1>2, <1>3, <1>4, <1>5, <1>8 DEF q
<1> QED BY <1>3, <1>4, <1>5, <1>8, <1>9 DEF Cut, q
-----------------------------------------------------------------------------
(* All of this is about the source, which stays.                           *)
LEMMA SourceKept ==
  ASSUME Source' = Source
  PROVE  /\ \A i : CharAt(i)' = CharAt(i) /\ ItemAt(i)' = ItemAt(i) /\ Behind(i)' = Behind(i)
         /\ Starts' = Starts
<1>1. \A i : CharAt(i)' = CharAt(i)
  BY DEF CharAt
<1>2. \A c, i : Find(c, i)' = Find(c, i)
  BY <1>1 DEF Find
<1>3. \A i : WordEnd(i)' = WordEnd(i) /\ NumberEnd(i)' = NumberEnd(i)
  BY <1>1 DEF WordEnd, NumberEnd, IsWord, IsNumber
<1>4. \A i : ItemAt(i)' = ItemAt(i)
  BY <1>1, <1>2, <1>3 DEF ItemAt
<1>5. \A i : Behind(i)' = Behind(i)
  BY <1>4 DEF Behind
<1>6. Starts' = Starts
  BY <1>5 DEF Starts
<1> QED BY <1>1, <1>4, <1>5, <1>6

(* T holds the tokens of the division that start before p, one by one.     *)
Done(T, p) ==
  /\ Cut(p)
  /\ \A k \in 1 .. Len(T) :
       T[k].at \in DocTokens(Starts) /\ T[k].at < p /\ Agrees(T[k])
  /\ \A k, m \in 1 .. Len(T) : k < m => T[k].at < T[m].at
  /\ \A i \in DocTokens(Starts) : i < p => \E k \in 1 .. Len(T) : T[k].at = i

LEMMA DoneKept ==
  ASSUME Source' = Source, NEW p, NEW T, T = Tokens', Done(T, p)
  PROVE  Done(Tokens, p)'
<1>1. \A t : Agrees(t)' = Agrees(t)
  BY SourceKept DEF Agrees
<1>2. DocTokens(Starts)' = DocTokens(Starts)
  BY SourceKept DEF DocTokens
<1>3. Cut(p)' = Cut(p)
  BY SourceKept DEF Cut
<1> QED BY <1>1, <1>2, <1>3 DEF Done

(* Past an item that is no token.                                          *)
LEMMA DonePast ==
  ASSUME Source \in Seq(Chars), NEW T, NEW p, Done(T, p), p <= Len(Source),
         ItemAt(p).type \in {"line", "block", "space"}
  PROVE  Done(T, Behind(p))
<1>1. /\ Cut(Behind(p)) /\ p < Behind(p)
      /\ \A j \in Starts : j < Behind(p) => j <= p
  BY NextCut DEF Done
<1>2. /\ \A i \in Starts : i \in Nat /\ i # 0
      /\ Len(Source) \in Nat /\ p \in Starts
      /\ Behind(p) \in Starts
  BY StartsClosed DEF Done, Cut
<1>3. \A i \in DocTokens(Starts) : i \in Starts /\ i # p
  BY DEF DocTokens
<1>4. ASSUME NEW i \in DocTokens(Starts), i < Behind(p) PROVE i < p
  <2>1. i \in Nat /\ p \in Nat
    BY <1>2, <1>3
  <2>2. i <= p /\ i # p
    BY <1>1, <1>3, <1>4
  <2> QED BY <2>1, <2>2
<1>5. ASSUME NEW i \in Starts, i < p PROVE i < Behind(p)
  <2>1. i \in Nat /\ p \in Nat /\ Behind(p) \in Nat
    BY <1>2
  <2> QED BY <1>1, <1>5, <2>1
<1> QED BY <1>1, <1>3, <1>4, <1>5 DEF Done

(* Past a token, which is stored.                                          *)
LEMMA DoneAppend ==
  ASSUME Source \in Seq(Chars), NEW T \in Seq(TokenRecords), NEW p, Done(T, p),
         p <= Len(Source), ItemAt(p).type \notin {"line", "block", "space"},
         NEW t \in TokenRecords, t.at = p, Agrees(t)
  PROVE  Done(Append(T, t), Behind(p))
<1> DEFINE R == Append(T, t)
<1>1. /\ Cut(Behind(p)) /\ p < Behind(p)
      /\ \A j \in Starts : j < Behind(p) => j <= p
  BY NextCut DEF Done
<1>2. /\ \A i \in Starts : i \in Nat /\ i # 0
      /\ Len(Source) \in Nat /\ p \in Starts
      /\ Behind(p) \in Starts /\ p \in DocTokens(Starts)
  BY StartsClosed DEF Done, Cut, DocTokens
<1>3. /\ Len(T) \in Nat /\ Len(R) = Len(T) + 1 /\ R[Len(T) + 1] = t
      /\ \A k \in 1 .. Len(T) : R[k] = T[k]
  BY AppendProperties
<1> HIDE DEF R
<1>4. \A i \in DocTokens(Starts) : i \in Starts
  BY DEF DocTokens
<1>5. ASSUME NEW k \in 1 .. Len(R)
      PROVE  R[k].at \in DocTokens(Starts) /\ R[k].at < Behind(p) /\ Agrees(R[k])
  <2>1. CASE k \in 1 .. Len(T)
    <3>1. R[k] = T[k] /\ T[k].at \in DocTokens(Starts) /\ T[k].at < p /\ Agrees(T[k])
      BY <1>3, <2>1 DEF Done
    <3>2. T[k].at \in Starts
      BY <1>4, <3>1
    <3>3. T[k].at \in Nat /\ p \in Nat /\ Behind(p) \in Nat
      BY <1>2, <3>2
    <3> QED BY <1>1, <3>1, <3>3
  <2>2. CASE k = Len(T) + 1
    BY <1>1, <1>2, <1>3, <2>2
  <2> QED BY <1>3, <2>1, <2>2
<1>6. ASSUME NEW k \in 1 .. Len(R), NEW m \in 1 .. Len(R), k < m
      PROVE  R[k].at < R[m].at
  <2>1. k \in 1 .. Len(T) /\ R[k] = T[k] /\ T[k].at < p
    BY <1>3, <1>6 DEF Done
  <2>2. CASE m \in 1 .. Len(T)
    BY <1>3, <1>6, <2>1, <2>2 DEF Done
  <2>3. CASE m = Len(T) + 1
    BY <1>3, <2>1, <2>3
  <2> QED BY <1>3, <2>2, <2>3
<1>7. ASSUME NEW i \in DocTokens(Starts), i < Behind(p)
      PROVE  \E k \in 1 .. Len(R) : R[k].at = i
  <2>1. i < p \/ i = p
    BY <1>1, <1>2, <1>4, <1>7
  <2>2. CASE i < p
    <3>1. PICK k \in 1 .. Len(T) : T[k].at = i
      BY <2>2 DEF Done
    <3> QED BY <1>3, <3>1
  <2>3. CASE i = p
    <3>1. Len(T) + 1 \in 1 .. Len(R) /\ R[Len(T) + 1].at = i
      BY <1>3, <2>3
    <3> QED BY <3>1
  <2> QED BY <2>1, <2>2, <2>3
<1> QED BY <1>1, <1>5, <1>6, <1>7 DEF Done, R
-----------------------------------------------------------------------------
(* What Tokenize has read of the item that starts at p, or why it stopped  *)
(* there.                                                                  *)
Stuck(p) == p \in DocTokens(Starts) /\ TooLong(ItemAt(p))

At(p) ==
  /\ pc \in {"loop", "out"} => p = Index + 1
  /\ pc = "out" => Index >= Len(Source)
  /\ pc = "sign" => p = Index /\ CharAt(p) = "DOLLAR"
  /\ pc = "line" => /\ p < Index
                    /\ CharAt(p) = "DOLLAR" /\ CharAt(p + 1) = "DOLLAR"
                    /\ \A k \in p + 2 .. Index : CharAt(k) # "nl"
  /\ pc = "block" => /\ p <= Index
                     /\ CharAt(p) = "DOLLAR" /\ CharAt(p + 1) # "DOLLAR"
                     /\ \A k \in p + 1 .. Index : CharAt(k) # "DOLLAR"
  /\ pc = "body" => p = Index + 1 /\ PeekChar \notin {"DOLLAR", "NUL"}
  /\ pc = "num" => /\ p = start + 1 /\ CharAt(p) \in Digits /\ IsNumber(p, Index)
                   /\ HasDecimal <=> \E m \in p .. Index : CharAt(m) = "DOT"
  /\ pc = "word" => p = start + 1 /\ CharAt(p) \in Letters /\ IsWord(p, Index)
  /\ pc = "str" => /\ p = start /\ CharAt(p) = "QUOTE"
                   /\ \A k \in p + 1 .. Index : CharAt(k) # "QUOTE"
  /\ pc = "exit" => Len(Tokens) >= MAX_TOKENS \/ Stuck(p)
  /\ pc = "overrun" => Stuck(p)

Reading == \E p \in Starts : Done(Tokens, p) /\ At(p)

(* A step that leaves the tokens as they are, and the next start with p or *)
(* behind an item that is no token.                                        *)
LEMMA ReadOn ==
  ASSUME Source' = Source, Tokens' = Tokens, Source \in Seq(Chars),
         NEW p, Done(Tokens, p), NEW q, At(q)',
         \/ q = p
         \/ /\ q = Behind(p) /\ p <= Len(Source)
            /\ ItemAt(p).type \in {"line", "block", "space"}
  PROVE  Reading'
<1>1. Done(Tokens, q) /\ q \in Starts
  <2>1. CASE q = p
    BY <2>1 DEF Done, Cut
  <2>2. CASE /\ q = Behind(p) /\ p <= Len(Source)
             /\ ItemAt(p).type \in {"line", "block", "space"}
    <3>1. Done(Tokens, q)
      BY <2>2, DonePast
    <3> QED BY <3>1 DEF Done, Cut
  <2> QED BY <2>1, <2>2
<1>2. Done(Tokens, q)' /\ q \in Starts'
  BY <1>1, DoneKept, SourceKept
<1> QED BY <1>2 DEF Reading

(* A step that stores the token that starts at p.                          *)
LEMMA ReadToken ==
  ASSUME Source' = Source, IInv, NEW p, Done(Tokens, p), p <= Len(Source),
         NEW t \in TokenRecords, Store(t), Item(t.at, t.to, t.type) = ItemAt(p),
         t.type = "_NUMLIT" =>
           (t.sub = "FLOAT" <=> \E m \in t.at .. t.to : CharAt(m) = "DOT"),
         pc' = "loop", Index' = t.to
  PROVE  Reading'
<1>1. Source \in Seq(Chars) /\ Tokens \in Seq(TokenRecords) /\ Index' = t.to
  BY DEF IInv, TypeOK
<1>2. p \in Nat \ {0} /\ Len(Source) \in Nat
  BY <1>1, StartsClosed DEF Done, Cut
<1>3. ItemAt(p).at = p
  BY <1>1, <1>2, ItemEnds
<1>4. t.at = p /\ t.to = ItemAt(p).to /\ t.type = ItemAt(p).type
  BY <1>3 DEF Item
<1>5. Agrees(t)
  BY <1>4 DEF Agrees
<1>6. t.type \notin {"line", "block", "space"}
  BY DEF TokenRecords
<1>7. PICK q : q = Behind(p)
  OBVIOUS
<1>8. Done(Tokens', q)
  BY <1>1, <1>4, <1>5, <1>6, <1>7, DoneAppend DEF Store
<1>9. Done(Tokens, q)' /\ q \in Starts'
  BY <1>8, DoneKept, SourceKept DEF Done, Cut
<1>10. At(q)'
  BY <1>1, <1>4, <1>7 DEF At, Behind
<1> QED BY <1>9, <1>10 DEF Reading

(* Comments in which Tokenize is, when none ends the source.               *)
LEMMA LineComment ==
  ASSUME Source \in Seq(Chars), CommentsApart(Starts), NEW p \in Starts, At(p),
         pc = "line", Index \in 0 .. Len(Source), PeekChar \in {"nl", "NUL"}
  PROVE  /\ PeekChar = "nl" /\ p <= Len(Source)
         /\ ItemAt(p).type = "line" /\ ItemAt(p).to = Index + 1
         /\ CharAt(Index + 2) \notin {"DOLLAR", "NUL"}
<1>1. /\ p \in Nat \ {0} /\ Len(Source) \in Nat /\ Index \in Nat /\ p < Index
      /\ CharAt(p) = "DOLLAR" /\ CharAt(p + 1) = "DOLLAR"
      /\ \A k \in p + 2 .. Index : CharAt(k) # "nl"
  BY StartsClosed DEF At
<1>2. p + 2 \in 1 .. Len(Source) + 1 /\ Index + 1 \in p + 2 .. Len(Source) + 1
  BY <1>1
<1>3. Find("nl", p + 2) = Index + 1
  BY <1>1, <1>2, FindIs DEF PeekChar
<1>4. ItemAt(p) = Item(p, Index + 1, "line")
  BY <1>1, <1>3, ItemIs
<1>5. ItemAt(p).type = "line" /\ ItemAt(p).to = Index + 1 /\ p \in Comments(Starts)
  BY <1>4 DEF Item, Comments
<1>6. Index + 1 < Len(Source) /\ CharAt(Index + 2) # "DOLLAR"
  BY <1>1, <1>5 DEF CommentsApart, Behind
<1>7. PeekChar # "NUL" /\ CharAt(Index + 2) # "NUL"
  BY <1>1, <1>6, Characters DEF PeekChar
<1> QED BY <1>1, <1>5, <1>6, <1>7

LEMMA BlockComment ==
  ASSUME Source \in Seq(Chars), CommentsApart(Starts), NEW p \in Starts, At(p),
         pc = "block", Index \in 0 .. Len(Source), PeekChar \in {"DOLLAR", "NUL"}
  PROVE  /\ PeekChar = "DOLLAR" /\ p <= Len(Source)
         /\ ItemAt(p).type = "block" /\ ItemAt(p).to = Index + 1
         /\ CharAt(Index + 2) \notin {"DOLLAR", "NUL"}
<1>1. /\ p \in Nat \ {0} /\ Len(Source) \in Nat /\ Index \in Nat /\ p <= Index
      /\ CharAt(p) = "DOLLAR" /\ CharAt(p + 1) # "DOLLAR"
      /\ \A k \in p + 1 .. Index : CharAt(k) # "DOLLAR"
  BY StartsClosed DEF At
<1>2. p + 1 \in 1 .. Len(Source) + 1 /\ Index + 1 \in p + 1 .. Len(Source) + 1
  BY <1>1
<1>3. Find("DOLLAR", p + 1) = Index + 1
  BY <1>1, <1>2, FindIs DEF PeekChar
<1>4. ItemAt(p) = Item(p, Index + 1, "block")
  BY <1>1, <1>3, ItemIs
<1>5. ItemAt(p).type = "block" /\ ItemAt(p).to = Index + 1 /\ p \in Comments(Starts)
  BY <1>4 DEF Item, Comments
<1>6. Index + 1 < Len(Source) /\ CharAt(Index + 2) # "DOLLAR"
  BY <1>1, <1>5 DEF CommentsApart, Behind
<1>7. PeekChar # "NUL" /\ CharAt(Index + 2) # "NUL"
  BY <1>1, <1>6, Characters DEF PeekChar
<1> QED BY <1>1, <1>5, <1>6, <1>7

(* The end of the literal or word being read.                              *)
LEMMA LiteralItem ==
  ASSUME IInv, NEW p \in Starts, At(p), pc \in Literal
  PROVE  /\ p \in 1 .. Len(Source) /\ Index \in Nat /\ Index <= Len(Source)
         /\ Len(Source) \in Nat /\ start \in Nat /\ start <= Index
         /\ pc = "num"  => p = start + 1 /\ ItemAt(p) = Item(p, NumberEnd(p), "_NUMLIT")
         /\ pc = "word" => /\ p = start + 1
                           /\ ItemAt(p) = Item(p, WordEnd(p),
                                                WordType(SubSeq(Source, p, WordEnd(p))))
         /\ pc = "str"  => p = start /\ ItemAt(p) = Item(p, Find("QUOTE", p + 1), "_STRLIT")
<1>1. /\ Source \in Seq(Chars) /\ Len(Source) \in Nat /\ Index \in Nat /\ Index <= Len(Source)
      /\ start \in Nat /\ start <= Index
  BY DEF IInv, TypeOK, Bounds, Within, Literal
<1>2. p \in Nat \ {0}
  BY <1>1, StartsClosed
<1>3. CharAt(p) # "NUL"
  BY Alphabet DEF At, Literal, Reserved
<1>4. p \in 1 .. Len(Source)
  BY <1>1, <1>2, <1>3, Characters
<1> QED BY <1>1, <1>4, ItemIs DEF At

LEMMA LiteralStuck ==
  ASSUME IInv, NEW p \in Starts, At(p), pc \in Literal, LitLen >= MAX_LIT_CHARS
  PROVE  Stuck(p)
<1>1. /\ p \in 1 .. Len(Source) /\ Index \in Nat /\ Index <= Len(Source)
      /\ Len(Source) \in Nat /\ start \in Nat /\ start <= Index
      /\ Source \in Seq(Chars) /\ MAX_LIT_CHARS \in Nat \ {0}
  BY LiteralItem, LexerAssumption DEF IInv, TypeOK
<1>2. Index - start >= MAX_LIT_CHARS /\ Index > start
  BY <1>1 DEF LitLen
<1>3. CASE pc = "num"
  <2>1. p = start + 1 /\ ItemAt(p) = Item(p, NumberEnd(p), "_NUMLIT")
    BY <1>3, LiteralItem
  <2>2. NumberEnd(p) \in p .. Len(Source) /\ Index <= NumberEnd(p)
    BY <1>1, <1>2, <1>3, <2>1, NumberEnds DEF At
  <2>3. Quotes(ItemAt(p)) = 0
    BY <2>1 DEF Quotes, Item
  <2>4. TooLong(ItemAt(p))
    BY <1>1, <1>2, <2>1, <2>2, <2>3 DEF TooLong, Item
  <2> QED BY <2>1, <2>4 DEF Stuck, DocTokens, Item
<1>4. CASE pc = "word"
  <2>1. p = start + 1 /\ \E type \in {"_BITYPE", "_KEY", "_ID"} :
                           ItemAt(p) = Item(p, WordEnd(p), type)
    BY <1>4, LiteralItem DEF WordType
  <2>2. WordEnd(p) \in p .. Len(Source) /\ Index <= WordEnd(p)
    BY <1>1, <1>2, <1>4, <2>1, WordEnds DEF At
  <2>3. Quotes(ItemAt(p)) = 0
    BY <2>1 DEF Quotes, Item
  <2>4. TooLong(ItemAt(p))
    BY <1>1, <1>2, <2>1, <2>2, <2>3 DEF TooLong, Item
  <2> QED BY <2>1, <2>4 DEF Stuck, DocTokens, Item
<1>5. CASE pc = "str"
  <2> DEFINE f == Find("QUOTE", p + 1)
  <2>1. p = start /\ ItemAt(p) = Item(p, f, "_STRLIT")
    BY <1>5, LiteralItem
  <2>2. f \in p + 1 .. Len(Source) + 1 /\ CharAt(f) \in {"QUOTE", "NUL"}
    BY <1>1, FindEnds
  <2> HIDE DEF f
  <2>3. f > Index
    <3>1. SUFFICES ASSUME f <= Index PROVE FALSE
      BY <1>1, <2>2
    <3>2. f \in p + 1 .. Index /\ f \in Nat \ {0} /\ f <= Len(Source)
      BY <1>1, <2>2, <3>1
    <3>3. CharAt(f) # "QUOTE"
      BY <1>5, <3>2 DEF At
    <3>4. CharAt(f) # "NUL"
      BY <1>1, <3>2, Characters
    <3> QED BY <2>2, <3>3, <3>4
  <2>4. TooLong(ItemAt(p))
    <3>1. ItemAt(p).type = "_STRLIT" /\ ItemAt(p).at = p /\ ItemAt(p).to = f
      BY <2>1 DEF Item
    <3>2. Quotes(ItemAt(p)) = IF f > Len(Source) THEN 1 ELSE 2
      BY <3>1 DEF Quotes
    <3> QED BY <1>1, <1>2, <2>1, <2>2, <2>3, <3>1, <3>2 DEF TooLong
  <2> QED BY <2>1, <2>4 DEF Stuck, DocTokens, Item
<1> QED BY <1>3, <1>4, <1>5 DEF Literal

(* One more character of it.                                               *)
LEMMA LiteralGrows ==
  ASSUME IInv, NEW p \in Starts, At(p), LiteralChar
  PROVE  At(p)'
<1>1. /\ pc \in Literal /\ pc' = pc /\ start' = start /\ Source' = Source
      /\ InLiteral /\ ~SecondDecimal /\ Index' = Index + 1
      /\ HasDecimal' = (HasDecimal \/ (pc = "num" /\ PeekChar = "DOT"))
  BY DEF LiteralChar, InLiteral, Literal, ConsumeChar
<1>2. /\ p \in 1 .. Len(Source) /\ Index \in Nat /\ Index <= Len(Source)
      /\ Len(Source) \in Nat /\ start \in Nat /\ start <= Index
      /\ HasDecimal \in BOOLEAN /\ p <= Index + 1
  BY <1>1, LiteralItem DEF IInv, TypeOK, Literal
<1>3. \A i : CharAt(i)' = CharAt(i)
  BY <1>1, SourceKept
<1>4. CASE pc = "num"
  <2>1. /\ p = start + 1 /\ CharAt(p) \in Digits /\ IsNumber(p, Index)
        /\ HasDecimal <=> \E m \in p .. Index : CharAt(m) = "DOT"
    BY <1>4 DEF At
  <2>2. /\ CharAt(Index + 1) \in Digits \cup {"DOT"}
        /\ CharAt(Index + 1) = "DOT" => ~HasDecimal
    BY <1>1, <1>4 DEF InLiteral, SecondDecimal, PeekChar
  <2>3. \A k \in p .. Index + 1 : k \in p .. Index \/ k = Index + 1
    BY <1>2
  <2>4. IsNumber(p, Index + 1)
    BY <2>1, <2>2, <2>3 DEF IsNumber
  <2>5. HasDecimal' <=> \E m \in p .. Index + 1 : CharAt(m) = "DOT"
    <3>1. HasDecimal' <=> HasDecimal \/ CharAt(Index + 1) = "DOT"
      BY <1>1, <1>4 DEF PeekChar
    <3>2. Index + 1 \in p .. Index + 1 /\ \A k \in p .. Index : k \in p .. Index + 1
      BY <1>2
    <3> QED BY <2>1, <2>3, <3>1, <3>2
  <2>6. IsNumber(p, Index)'
    BY <1>1, <1>3, <2>4 DEF IsNumber
  <2> QED BY <1>1, <1>3, <1>4, <2>1, <2>5, <2>6 DEF At
<1>5. CASE pc = "word"
  <2>1. p = start + 1 /\ CharAt(p) \in Letters /\ IsWord(p, Index)
    BY <1>5 DEF At
  <2>2. CharAt(Index + 1) \in Letters \cup Digits
    BY <1>1, <1>5 DEF InLiteral, PeekChar
  <2>3. \A k \in p .. Index + 1 : k \in p .. Index \/ k = Index + 1
    BY <1>2
  <2>4. IsWord(p, Index)'
    BY <1>1, <1>3, <2>1, <2>2, <2>3 DEF IsWord
  <2> QED BY <1>1, <1>3, <1>5, <2>1, <2>4 DEF At
<1>6. CASE pc = "str"
  <2>1. /\ p = start /\ CharAt(p) = "QUOTE"
        /\ \A k \in p + 1 .. Index : CharAt(k) # "QUOTE"
    BY <1>6 DEF At
  <2>2. CharAt(Index + 1) # "QUOTE"
    BY <1>1, <1>6 DEF InLiteral, PeekChar
  <2>3. \A k \in p + 1 .. Index + 1 : k \in p + 1 .. Index \/ k = Index + 1
    BY <1>2
  <2> QED BY <1>1, <1>3, <1>6, <2>1, <2>2, <2>3 DEF At
<1> QED BY <1>1, <1>4, <1>5, <1>6 DEF Literal
LEMMA NextReads ==
  ASSUME IInv, CommentsApart(Starts), Reading, [Next]_vars
  PROVE  Reading'
<1>1. PICK p \in Starts : Done(Tokens, p) /\ At(p)
  BY DEF Reading
<1>2. /\ Source \in Seq(Chars) /\ Len(Source) \in Nat /\ Index \in 0 .. Len(Source) + 1
      /\ pc \in Within => Index <= Len(Source)
      /\ p \in Nat \ {0} /\ HasDecimal \in BOOLEAN /\ start \in Nat
      /\ Tokens \in Seq(TokenRecords) /\ Len(Tokens) \in Nat
      /\ Line \in Nat /\ Column \in Nat
  BY StartsClosed DEF IInv, TypeOK, Bounds
<1>3. Source' = Source /\ \A i : CharAt(i)' = CharAt(i) /\ ItemAt(i)' = ItemAt(i)
  <2>1. Source' = Source
    BY DEF Next, vars, TooManyTokens, LoopHead, FirstSign, SecondSign, CommentChar, DropChar,
           Symbol, StartLiteral, LiteralTooLong, LiteralChar, Overrun, Number,
           StringLiteral, Word, Finish, Halt
  <2> QED BY <2>1, SourceKept
<1>4. ASSUME ConsumeChar PROVE Index' = Index + 1
  BY <1>4 DEF ConsumeChar
<1>5. ASSUME PeekChar # "NUL" PROVE Index < Len(Source)
  BY <1>2, <1>5 DEF PeekChar, CharAt
<1>6. ASSUME Tokens' = Tokens, At(p)' PROVE Reading'
  BY <1>1, <1>2, <1>3, <1>6, ReadOn
<1>7. CASE TooManyTokens
  <2>1. At(p)'
    BY <1>2, <1>7, LexerAssumption DEF TooManyTokens, At, Full
  <2> QED BY <1>6, <1>7, <2>1 DEF TooManyTokens
<1>8. CASE LoopHead
  <2>1. p = Index + 1 /\ PeekChar \notin {"DOLLAR", "NUL"} /\ pc' = "body"
        /\ Index' = Index /\ Tokens' = Tokens
    BY <1>1, <1>8 DEF LoopHead, At, cursor
  <2>2. At(p)'
    BY <1>3, <2>1 DEF At, PeekChar
  <2> QED BY <1>6, <2>1, <2>2
<1>9. CASE FirstSign
  <2>1. p = Index + 1 /\ CharAt(p) = "DOLLAR" /\ pc' = "sign"
        /\ Index' = Index + 1 /\ Tokens' = Tokens
    BY <1>1, <1>4, <1>9 DEF FirstSign, At, PeekChar
  <2>2. At(p)'
    BY <1>3, <2>1 DEF At
  <2> QED BY <1>6, <2>1, <2>2
<1>10. CASE SecondSign
  <2>1. p = Index /\ CharAt(p) = "DOLLAR" /\ Tokens' = Tokens
    BY <1>1, <1>10 DEF SecondSign, At
  <2>2. CASE PeekChar = "DOLLAR" /\ ConsumeChar /\ pc' = "line"
    <3>1. Index' = p + 1 /\ CharAt(p + 1) = "DOLLAR"
      BY <1>4, <2>1, <2>2 DEF PeekChar
    <3>2. At(p)'
      BY <1>2, <1>3, <2>1, <2>2, <3>1 DEF At
    <3> QED BY <1>6, <2>1, <3>2
  <2>3. CASE PeekChar # "DOLLAR" /\ pc' = "block" /\ UNCHANGED cursor
    <3>1. Index' = p /\ CharAt(p + 1) # "DOLLAR"
      BY <2>1, <2>3 DEF PeekChar, cursor
    <3>2. At(p)'
      BY <1>2, <1>3, <2>1, <2>3, <3>1 DEF At
    <3> QED BY <1>6, <2>1, <3>2
  <2> QED BY <1>10, <2>2, <2>3 DEF SecondSign
<1>11. CASE CommentChar
  <2>1. Tokens' = Tokens /\ Index \in 0 .. Len(Source)
    BY <1>2, <1>11 DEF CommentChar, Within
  <2>2. CASE pc = "line" /\ PeekChar \in {"nl", "NUL"}
    <3>1. /\ PeekChar = "nl" /\ p <= Len(Source)
          /\ ItemAt(p).type = "line" /\ Behind(p) = Index + 2
          /\ CharAt(Index + 2) \notin {"DOLLAR", "NUL"}
      BY <1>1, <1>2, <2>1, <2>2, LineComment DEF Behind
    <3>2. Index' = Index + 1 /\ pc' = "body"
      BY <1>4, <1>11, <2>2, <3>1 DEF CommentChar, Closing
    <3> PICK q : q = Index + 2
      OBVIOUS
    <3>3. At(q)'
      BY <1>2, <1>3, <3>1, <3>2 DEF At, PeekChar
    <3> QED BY <1>1, <1>2, <1>3, <2>1, <3>1, <3>3, ReadOn
  <2>3. CASE pc = "block" /\ PeekChar \in {"DOLLAR", "NUL"}
    <3>1. /\ PeekChar = "DOLLAR" /\ p <= Len(Source)
          /\ ItemAt(p).type = "block" /\ Behind(p) = Index + 2
          /\ CharAt(Index + 2) \notin {"DOLLAR", "NUL"}
      BY <1>1, <1>2, <2>1, <2>3, BlockComment DEF Behind
    <3>2. Index' = Index + 1 /\ pc' = "body"
      BY <1>4, <1>11, <2>3, <3>1 DEF CommentChar, Closing
    <3> PICK q : q = Index + 2
      OBVIOUS
    <3>3. At(q)'
      BY <1>2, <1>3, <3>1, <3>2 DEF At, PeekChar
    <3> QED BY <1>1, <1>2, <1>3, <2>1, <3>1, <3>3, ReadOn
  <2>4. CASE PeekChar \notin {"NUL", Closing}
    <3>1. Index' = Index + 1 /\ pc' = pc /\ pc \in {"line", "block"} /\ Index \in Nat
      BY <1>2, <1>4, <1>11, <2>4 DEF CommentChar
    <3>2. CASE pc = "line"
      <4>1. CharAt(Index + 1) # "nl"
        BY <2>4, <3>2 DEF Closing, PeekChar
      <4>2. /\ p < Index /\ CharAt(p) = "DOLLAR" /\ CharAt(p + 1) = "DOLLAR"
            /\ \A k \in p + 2 .. Index + 1 : CharAt(k) # "nl"
        BY <1>1, <1>2, <3>1, <3>2, <4>1 DEF At
      <4>3. At(p)'
        BY <1>2, <1>3, <3>1, <3>2, <4>2 DEF At
      <4> QED BY <1>6, <2>1, <4>3
    <3>3. CASE pc = "block"
      <4>1. CharAt(Index + 1) # "DOLLAR"
        BY <2>4, <3>3 DEF Closing, PeekChar
      <4>2. /\ p <= Index /\ CharAt(p) = "DOLLAR" /\ CharAt(p + 1) # "DOLLAR"
            /\ \A k \in p + 1 .. Index + 1 : CharAt(k) # "DOLLAR"
        BY <1>1, <1>2, <3>1, <3>3, <4>1 DEF At
      <4>3. At(p)'
        BY <1>2, <1>3, <3>1, <3>3, <4>2 DEF At
      <4> QED BY <1>6, <2>1, <4>3
    <3> QED BY <3>1, <3>2, <3>3
  <2> QED BY <1>11, <2>2, <2>3, <2>4 DEF CommentChar, Closing
<1>12. CASE DropChar
  <2>1. /\ PeekChar \in Spaces \cup {"odd", "DOLLAR"} /\ pc = "body" /\ pc' = "loop"
        /\ Index' = Index + 1 /\ Tokens' = Tokens /\ Index < Len(Source)
    BY <1>4, <1>5, <1>12 DEF DropChar, Spaces
  <2> PICK q : q = Index + 2
    OBVIOUS
  <2>2. At(q)'
    BY <1>2, <2>1 DEF At
  <2>3. p = Index + 1 /\ CharAt(p) \in Spaces \cup {"odd"}
    BY <1>1, <2>1 DEF At, PeekChar
  <2>4. ItemAt(p) = Item(p, p, "space")
    BY <2>3, ItemIs, Alphabet DEF Reserved, Spaces
  <2>5. q = Behind(p) /\ p <= Len(Source) /\ ItemAt(p).type = "space"
    BY <1>2, <2>1, <2>3, <2>4 DEF Item, Behind
  <2> QED BY <1>1, <1>2, <1>3, <2>1, <2>2, <2>5, ReadOn
<1>13. CASE Symbol
  <2> PICK t : t = Token(IF PeekChar \in Specials THEN "_SPEC" ELSE "_OP",
                         PeekChar, Index + 1, Index + 1, GetLine, GetColumn)
    OBVIOUS
  <2>1. /\ Store(t) /\ pc = "body" /\ pc' = "loop" /\ Index' = Index + 1
        /\ PeekChar \in Specials \cup OPERATORS
    BY <1>4, <1>13 DEF Symbol
  <2>2. p = Index + 1 /\ PeekChar # "NUL" /\ CharAt(p) = PeekChar
    BY <1>1, <2>1 DEF At, PeekChar
  <2>3. p <= Len(Source) /\ PeekChar \in Chars
    BY <1>2, <2>2, Characters
  <2>4. t \in TokenRecords
    BY <1>2, <2>3 DEF Token, TokenRecords, GetLine, GetColumn
  <2>5. t.at = p /\ t.to = p /\ t.to = Index' /\ t.type \in {"_SPEC", "_OP"}
        /\ t.type = IF PeekChar \in Specials THEN "_SPEC" ELSE "_OP"
    BY <2>1, <2>2 DEF Token
  <2>6. ItemAt(p) = Item(p, p, t.type)
    <3>1. CASE PeekChar \in Specials
      BY <2>2, <2>5, <3>1, ItemIs DEF Specials
    <3>2. CASE PeekChar \notin Specials
      BY <2>1, <2>2, <2>5, <3>2, ItemIs
    <3> QED BY <3>1, <3>2
  <2> QED BY <1>1, <1>3, <2>1, <2>3, <2>4, <2>5, <2>6, ReadToken
<1>14. CASE StartLiteral
  <2>1. pc = "body" /\ start' = Index' /\ HasDecimal' = FALSE /\ Tokens' = Tokens
    BY <1>14 DEF StartLiteral
  <2>2. p = Index + 1 /\ CharAt(p) = PeekChar
    BY <1>1, <2>1 DEF At, PeekChar
  <2>3. CASE PeekChar \in Digits /\ pc' = "num" /\ UNCHANGED cursor
    <3>1. Index' = Index /\ p = start' + 1
      BY <2>1, <2>2, <2>3 DEF cursor
    <3>2. IsNumber(p, Index)'
      BY <1>2, <2>2, <3>1 DEF IsNumber
    <3>3. At(p)'
      BY <1>2, <1>3, <2>1, <2>2, <2>3, <3>1, <3>2 DEF At
    <3> QED BY <1>6, <2>1, <3>3
  <2>4. CASE PeekChar \in Letters /\ pc' = "word" /\ UNCHANGED cursor
    <3>1. Index' = Index /\ p = start' + 1
      BY <2>1, <2>2, <2>4 DEF cursor
    <3>2. IsWord(p, Index)'
      BY <1>2, <2>2, <3>1 DEF IsWord
    <3>3. At(p)'
      BY <1>2, <1>3, <2>1, <2>2, <2>4, <3>1, <3>2 DEF At
    <3> QED BY <1>6, <2>1, <3>3
  <2>5. CASE PeekChar = "QUOTE" /\ ConsumeChar /\ pc' = "str"
    <3>1. Index' = p /\ start' = p
      BY <1>4, <2>1, <2>2, <2>5
    <3>2. At(p)'
      BY <1>2, <1>3, <2>1, <2>2, <2>5, <3>1 DEF At
    <3> QED BY <1>6, <2>1, <3>2
  <2> QED BY <1>14, <2>3, <2>4, <2>5 DEF StartLiteral
<1>15. CASE LiteralTooLong \/ Overrun
  <2>1. /\ pc \in Literal /\ LitLen >= MAX_LIT_CHARS /\ pc' \in {"exit", "overrun"}
        /\ Tokens' = Tokens
    BY <1>15 DEF LiteralTooLong, Overrun, InLiteral, EndOfLiteral, Literal
  <2>2. Stuck(p)
    BY <1>1, <2>1, LiteralStuck
  <2>3. Stuck(p)'
    BY <1>3, <2>2, SourceKept DEF Stuck, DocTokens, TooLong, Quotes
  <2>4. At(p)'
    BY <2>1, <2>3 DEF At
  <2> QED BY <1>6, <2>1, <2>4
<1>16. CASE LiteralChar
  BY <1>1, <1>6, <1>16, LiteralGrows DEF LiteralChar
<1>17. CASE Number
  <2> PICK t : t = Token("_NUMLIT", IF HasDecimal THEN "FLOAT" ELSE "INT",
                         start + 1, Index, GetLine, GetColumn)
    OBVIOUS
  <2>1. /\ Store(t) /\ pc = "num" /\ pc' = "loop" /\ Index' = Index /\ EndOfLiteral
    BY <1>17 DEF Number, cursor
  <2>2. /\ p = start + 1 /\ CharAt(p) \in Digits /\ IsNumber(p, Index)
        /\ HasDecimal <=> \E m \in p .. Index : CharAt(m) = "DOT"
    BY <1>1, <2>1 DEF At
  <2>3. /\ p \in 1 .. Len(Source) /\ Index <= Len(Source) /\ start <= Index
        /\ ItemAt(p) = Item(p, NumberEnd(p), "_NUMLIT")
    BY <1>1, <2>1, LiteralItem DEF Literal
  <2>4. \/ CharAt(Index + 1) \notin Digits \cup {"DOT"}
        \/ CharAt(Index + 1) = "DOT" /\ HasDecimal
    BY <2>1 DEF EndOfLiteral, InLiteral, SecondDecimal, PeekChar
  <2>5. Index >= p
    <3>1. SUFFICES ASSUME Index < p PROVE FALSE
      BY <1>2
    <3>2. p = Index + 1 /\ p .. Index = {}
      BY <1>2, <2>2, <2>3, <3>1
    <3> QED BY <2>2, <2>4, <3>2
  <2>6. ~IsNumber(p, Index + 1)
    <3>1. Index + 1 \in p .. Index + 1
      BY <1>2, <2>5
    <3>2. ASSUME NEW m \in p .. Index PROVE m \in p .. Index + 1 /\ m # Index + 1
      BY <1>2
    <3> QED BY <2>2, <2>4, <3>1, <3>2 DEF IsNumber
  <2>7. NumberEnd(p) = Index
    BY <1>2, <2>2, <2>3, <2>5, <2>6, NumberEnds
  <2>8. t \in TokenRecords
    BY <1>2 DEF Token, TokenRecords, GetLine, GetColumn
  <2>9. /\ t.at = p /\ t.to = Index /\ t.type = "_NUMLIT"
        /\ t.sub = "FLOAT" <=> HasDecimal
    BY <2>2 DEF Token
  <2> QED BY <1>1, <1>3, <2>1, <2>2, <2>3, <2>7, <2>8, <2>9, ReadToken
<1>18. CASE Word
  <2> PICK t : t = Token(WordType(SubSeq(Source, start + 1, Index)), "NONE",
                         start + 1, Index, GetLine, GetColumn)
    OBVIOUS
  <2>1. /\ Store(t) /\ pc = "word" /\ pc' = "loop" /\ Index' = Index /\ EndOfLiteral
    BY <1>18 DEF Word, cursor
  <2>2. /\ p = start + 1 /\ CharAt(p) \in Letters /\ IsWord(p, Index)
    BY <1>1, <2>1 DEF At
  <2>3. /\ p \in 1 .. Len(Source) /\ Index <= Len(Source) /\ start <= Index
        /\ ItemAt(p) = Item(p, WordEnd(p), WordType(SubSeq(Source, p, WordEnd(p))))
    BY <1>1, <2>1, LiteralItem DEF Literal
  <2>4. CharAt(Index + 1) \notin Letters \cup Digits
    BY <2>1 DEF EndOfLiteral, InLiteral, SecondDecimal, PeekChar
  <2>5. Index >= p
    <3>1. SUFFICES ASSUME Index < p PROVE FALSE
      BY <1>2
    <3>2. p = Index + 1
      BY <1>2, <2>2, <2>3, <3>1
    <3> QED BY <2>2, <2>4, <3>2
  <2>6. ~IsWord(p, Index + 1)
    <3>1. Index + 1 \in p .. Index + 1
      BY <1>2, <2>5
    <3> QED BY <2>4, <3>1 DEF IsWord
  <2>7. WordEnd(p) = Index
    BY <1>2, <2>2, <2>3, <2>5, <2>6, WordEnds
  <2>8. t \in TokenRecords
    BY <1>2 DEF Token, TokenRecords, GetLine, GetColumn, WordType
  <2>9. /\ t.at = p /\ t.to = Index /\ t.type # "_NUMLIT"
        /\ t.type = WordType(SubSeq(Source, p, Index))
    BY <2>2 DEF Token, WordType
  <2> QED BY <1>1, <1>3, <2>1, <2>2, <2>3, <2>7, <2>8, <2>9, ReadToken
<1>19. CASE StringLiteral
  <2> PICK t : t = Token("_STRLIT", "NONE", start, Index + 1, Line', Column')
    OBVIOUS
  <2>1. /\ Store(t) /\ pc = "str" /\ pc' = "loop" /\ Index' = Index + 1 /\ EndOfLiteral
        /\ ConsumeChar
    BY <1>4, <1>19 DEF StringLiteral
  <2>2. p = start /\ \A k \in p + 1 .. Index : CharAt(k) # "QUOTE"
    BY <1>1, <2>1 DEF At
  <2>3. /\ p \in 1 .. Len(Source) /\ Index <= Len(Source) /\ start <= Index
        /\ ItemAt(p) = Item(p, Find("QUOTE", p + 1), "_STRLIT")
    BY <1>1, <2>1, LiteralItem DEF Literal
  <2>4. CharAt(Index + 1) \in {"QUOTE", "NUL"}
    BY <2>1 DEF EndOfLiteral, InLiteral, SecondDecimal, PeekChar
  <2>5. /\ p + 1 \in 1 .. Len(Source) + 1 /\ Index + 1 \in p + 1 .. Len(Source) + 1
        /\ Index + 1 - 1 = Index
    BY <1>2, <2>2, <2>3
  <2>6. Find("QUOTE", p + 1) = Index + 1
    BY <1>2, <2>2, <2>4, <2>5, FindIs
  <2>7. Line' \in Nat /\ Column' \in Nat
    BY <1>2, <2>1 DEF ConsumeChar
  <2>8. t \in TokenRecords
    BY <1>2, <2>7 DEF Token, TokenRecords
  <2>9. t.at = p /\ t.to = Index + 1 /\ t.type = "_STRLIT"
    BY <2>2 DEF Token
  <2> QED BY <1>1, <1>3, <2>1, <2>3, <2>6, <2>8, <2>9, ReadToken
<1>20. CASE Finish
  <2>1. p = Index + 1 /\ pc' = "out" /\ Index' = Index /\ Tokens' = Tokens
        /\ CharAt(Index + 1) = "NUL"
    BY <1>1, <1>20 DEF Finish, At, cursor, PeekChar
  <2>2. Index >= Len(Source)
    BY <1>2, <2>1, Characters
  <2>3. At(p)'
    BY <1>3, <2>1, <2>2 DEF At
  <2> QED BY <1>6, <2>1, <2>3
<1>21. CASE UNCHANGED vars
  <2>1. Stuck(p)' = Stuck(p)
    BY <1>3, SourceKept DEF Stuck, DocTokens, TooLong, Quotes
  <2>2. At(p)'
    BY <1>1, <1>3, <1>21, <2>1 DEF At, vars, PeekChar, IsWord, IsNumber
  <2> QED BY <1>6, <1>21, <2>2 DEF vars
<1> QED
  BY <1>7, <1>8, <1>9, <1>10, <1>11, <1>12, <1>13, <1>14, <1>15, <1>16, <1>17, <1>18,
     <1>19, <1>20, <1>21 DEF Next, Halt
-----------------------------------------------------------------------------
LEMMA ReadsOn == Spec => [](IInv /\ (CommentsApart(Starts) => Reading))
<1>1. Init => Reading
  <2> SUFFICES ASSUME Init PROVE Reading
    OBVIOUS
  <2>1. Source \in Seq(Chars) /\ Len(Tokens) = 0 /\ Index = 0 /\ pc = "loop"
    BY LexerAssumption DEF Init
  <2>2. 1 \in Starts /\ \A i \in Starts : i \in Nat \ {0}
    BY <2>1, StartsClosed
  <2>3. \A i \in Starts : ~(i < 1)
    BY <2>2
  <2>4. Done(Tokens, 1)
    BY <2>1, <2>2, <2>3 DEF Done, Cut, DocTokens
  <2>5. At(1)
    BY <2>1 DEF At
  <2> QED BY <2>2, <2>4, <2>5 DEF Reading
<1>2. IInv /\ (CommentsApart(Starts) => Reading) /\ [Next]_vars
        => (CommentsApart(Starts) => Reading)'
  <2> SUFFICES ASSUME IInv, CommentsApart(Starts) => Reading, [Next]_vars,
                      CommentsApart(Starts)'
               PROVE  Reading'
    OBVIOUS
  <2>1. Source' = Source
    BY DEF Next, vars, TooManyTokens, LoopHead, FirstSign, SecondSign, CommentChar, DropChar,
           Symbol, StartLiteral, LiteralTooLong, LiteralChar, Overrun, Number,
           StringLiteral, Word, Finish, Halt
  <2>2. CommentsApart(Starts)
    BY <2>1, SourceKept DEF CommentsApart, Comments
  <2> QED BY <2>2, NextReads
<1> QED BY InitIInv, NextIInv, <1>1, <1>2, PTL DEF Spec

(* TokensAsDocumented for every source, alphabet and capacity: what        *)
(* Tokenize (tokenize.c:21) returns is the division of the source.         *)
THEOREM DividesAsDocumented == Spec => []TokensAsDocumented
<1>1. IInv /\ (CommentsApart(Starts) => Reading) => TokensAsDocumented
  <2> SUFFICES ASSUME IInv, Reading, pc = "out" PROVE Agree(Starts)
    BY DEF TokensAsDocumented
  <2>1. PICK p \in Starts : Done(Tokens, p) /\ At(p)
    BY DEF Reading
  <2>2. /\ Source \in Seq(Chars) /\ Len(Source) \in Nat /\ Index \in Nat
        /\ DOMAIN Tokens = 1 .. Len(Tokens)
    BY DEF IInv, TypeOK
  <2>3. p > Len(Source)
    BY <2>1, <2>2 DEF At
  <2>4. ASSUME NEW i \in DocTokens(Starts) PROVE i < p
    <3>1. i \in Starts /\ i \in Nat \ {0} /\ p \in Nat
      BY <2>2, StartsClosed DEF DocTokens
    <3>2. CharAt(i) # "NUL"
      <4>1. ASSUME CharAt(i) = "NUL" PROVE ItemAt(i) = Item(i, i, "space")
        BY <4>1, ItemIs, Alphabet DEF Reserved
      <4> QED BY <4>1 DEF Item, DocTokens
    <3>3. i <= Len(Source)
      BY <2>2, <3>1, <3>2, Characters
    <3> QED BY <2>2, <2>3, <3>1, <3>3
  <2>5. {Tokens[k].at : k \in 1 .. Len(Tokens)} = DocTokens(Starts)
    BY <2>1, <2>4 DEF Done
  <2> QED BY <2>1, <2>2, <2>5 DEF Agree, Done
<1> QED BY <1>1, ReadsOn, PTL

(* RejectsOnlyAtLimits likewise: TOO_MANY_TOKENS and the overflow of a     *)
(* literal (tokenize.c:24, :75, :105, :130) have their reason in the source. *)
THEOREM RejectsForAReason == Spec => []RejectsOnlyAtLimits
<1>1. IInv /\ (CommentsApart(Starts) => Reading) => RejectsOnlyAtLimits
  <2> SUFFICES ASSUME IInv, Reading, pc \in {"exit", "overrun"}
               PROVE  \/ Cardinality(DocTokens(Starts)) >= MAX_TOKENS
                      \/ \E i \in DocTokens(Starts) : TooLong(ItemAt(i))
    BY DEF RejectsOnlyAtLimits
  <2>1. PICK p \in Starts : Done(Tokens, p) /\ At(p)
    BY DEF Reading
  <2>2. CASE Stuck(p)
    BY <2>2 DEF Stuck
  <2>3. CASE Len(Tokens) >= MAX_TOKENS
    <3> DEFINE S == 1 .. Len(Tokens)
               D == DocTokens(Starts)
               f == [k \in S |-> Tokens[k].at]
    <3>1. /\ Source \in Seq(Chars) /\ Len(Source) \in Nat /\ Len(Tokens) \in Nat
          /\ MAX_TOKENS \in Nat
      BY LexerAssumption DEF IInv, TypeOK
    <3>2. IsFiniteSet(S) /\ Cardinality(S) = Len(Tokens)
      <4>1. /\ IsFiniteSet(1 .. Len(Tokens))
            /\ Cardinality(1 .. Len(Tokens))
                 = IF 1 > Len(Tokens) THEN 0 ELSE Len(Tokens) - 1 + 1
        BY <3>1, FS_Interval, 1 \in Int, Len(Tokens) \in Int, Zenon
      <4> QED BY <3>1, <4>1
    <3>3. D \subseteq 1 .. Len(Source) + 2 /\ IsFiniteSet(1 .. Len(Source) + 2)
      BY <3>1, StartsClosed, FS_Interval DEF DocTokens
    <3>4. IsFiniteSet(D) /\ Cardinality(D) \in Nat
      BY <3>3, FS_Subset, FS_CardinalityType
    <3>5. \A k \in S : f[k] \in D /\ f[k] \in Nat
      BY <2>1, <3>1, StartsClosed DEF Done, DocTokens
    <3>6. \A k, m \in S : k < m => f[k] < f[m]
      BY <2>1 DEF Done
    <3>7. \A k, m \in S : f[k] = f[m] => k = m
      BY <3>1, <3>5, <3>6
    <3>8. f \in Injection(S, D)
      BY <3>5, <3>7 DEF Injection, IsInjective
    <3>9. Cardinality(S) <= Cardinality(D)
      BY <3>4, <3>8, FS_Injection
    <3> QED BY <2>3, <3>1, <3>2, <3>4, <3>9
  <2> QED BY <2>1, <2>2, <2>3 DEF At
<1> QED BY <1>1, ReadsOn, PTL
=============================================================================
