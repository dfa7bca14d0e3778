---------------------------- MODULE ParserProofs ----------------------------
(***************************************************************************)
(* The parser, for every token string: types, progress of the statement    *)
(* loops, the depth of the recursion, that a rejection is reported, where  *)
(* a missing token can be dereferenced, that every step descends, and that *)
(* the trees that are returned are well formed.                            *)
(* One inductive invariant, over the cursor and the active calls only,     *)
(* carries the first three; the others add conjuncts to it.                *)
(***************************************************************************)
EXTENDS Parser, SequenceTheorems, WellFoundedInduction, TLAPS

(* How many calls deep, beyond two per token before its first one, a call  *)
(* of each function can be.                                                *)
Weight ==
  [f \in Functions |->
     CASE f = "Root"                       -> 1
       [] f \in {"Stmt", "Expr"}           -> 2
       [] f \in {"FunDecl", "Term"}        -> 4
       [] f \in {"Decl", "NumLit", "Ident"} -> 5
       [] OTHER                            -> 3]

(* The instructions a function may reach without having consumed a token.  *)
Leading(f, pc) == pc = 1 \/ (f = "BinExpr" /\ pc <= 2)

(* The functions an instruction may call.                                  *)
Callees(f, pc) ==
  LET ins == Body[f][pc]
  IN  CASE ins.do \in {"call", "list"} -> {ins.arg[1]}
        [] ins.do = "first" -> {ins.arg[i] : i \in 1 .. Len(ins.arg)}
        [] ins.do = "stats" -> {"Stmt"}
        [] ins.do = "climb" -> {"BinExpr"}
        [] OTHER -> {}

(* What the proofs use of an instruction of the TryParse functions.        *)
BodyFact(f, pc) ==
  LET ins == Body[f][pc]
  IN  /\ ins.do \in {"eat", "take", "opt", "call", "first", "list",
                     "stats", "fork", "climb"}
      /\ f # "Root" /\ Leading(f, pc)
           => ins.do \in {"eat", "take", "call", "first", "fork"}
      /\ ins.do = "fork" => f = "BinExpr" /\ pc = 1
      /\ f = "BinExpr" /\ pc = 1 => ins.do = "fork"
      /\ ins.do = "climb" => f = "BinExpr" /\ pc > 2
      /\ ins.do \in {"eat", "take", "opt", "fork"} => ins.arg[1] # "end"
      /\ ins.do = "first" => Len(ins.arg) \in 1 .. 11
      /\ f = "Stmt" => \/ pc = 1 /\ ins.do = "first" /\ ins.miss = "skip"
                       \/ pc = 2 /\ ins.do = "eat"
      /\ f = "Root" => ins.do = "stats"
      /\ \A g \in Callees(f, pc) :
           /\ g \in Functions \ {"Root"}
           /\ g = "Stmt" => ins.do = "stats"
           /\ Weight[g] >= Weight[f] + (IF f = "Root" \/ Leading(f, pc)
                                        THEN 1 ELSE -1)

-----------------------------------------------------------------------------
(* The table of instructions has those facts, function by function.        *)
LEMMA BodyLemma ==
  \A f \in Functions : /\ Size(f) \in 1 .. 6
                       /\ f = "BinExpr" => Size(f) = 6
                       /\ Weight[f] \in 1 .. 5
                       /\ \A pc \in 1 .. Size(f) : BodyFact(f, pc)
<1>1. SUFFICES ASSUME NEW f \in Functions
               PROVE  /\ Size(f) \in 1 .. 6
                      /\ f = "BinExpr" => Size(f) = 6
                      /\ Weight[f] \in 1 .. 5
                      /\ \A pc \in 1 .. Size(f) : BodyFact(f, pc)
  OBVIOUS
<1>2. Functions = {"While", "FunDef", "FunDecl", "Call", "NumLit", "Ident",
                   "Term", "BinExpr", "Expr", "Interval", "Asgn", "VarDef",
                   "Decl", "Scope", "If", "For", "Exit", "Stmt", "Root"}
  BY DEF Functions, Body
<1>3. Weight[f] \in 1 .. 5
  BY DEF Weight
<1> USE DEF Size, BodyFact, Callees, Leading, Instr, Eat, Need, Take, Opt, Try, Must,
            First, ListOf, StatsUntil, Fork, Climb
<1>4. CASE f = "While"
  <2>1. Body[f] = TryParseWhile
    BY <1>4 DEF Body
  <2> QED BY <1>4, <1>2, <1>3, <2>1 DEF TryParseWhile, Weight
<1>5. CASE f = "FunDef"
  <2>1. Body[f] = TryParseFunDef
    BY <1>5 DEF Body
  <2> QED BY <1>5, <1>2, <1>3, <2>1 DEF TryParseFunDef, Weight
<1>6. CASE f = "FunDecl"
  <2>1. Body[f] = TryParseFunDecl
    BY <1>6 DEF Body
  <2> QED BY <1>6, <1>2, <1>3, <2>1 DEF TryParseFunDecl, Weight
<1>7. CASE f = "Call"
  <2>1. Body[f] = TryParseCall
    BY <1>7 DEF Body
  <2> QED BY <1>7, <1>2, <1>3, <2>1 DEF TryParseCall, Weight
<1>8. CASE f = "NumLit"
  <2>1. Body[f] = TryParseNumLit
    BY <1>8 DEF Body
  <2> QED BY <1>8, <1>2, <1>3, <2>1 DEF TryParseNumLit, Weight
<1>9. CASE f = "Ident"
  <2>1. Body[f] = TryParseIdent
    BY <1>9 DEF Body
  <2> QED BY <1>9, <1>2, <1>3, <2>1 DEF TryParseIdent, Weight
<1>10. CASE f = "Term"
  <2>1. Body[f] = TryParseTerm
    BY <1>10 DEF Body
  <2> QED BY <1>10, <1>2, <1>3, <2>1 DEF TryParseTerm, Weight
<1>11. CASE f = "BinExpr"
  <2>1. Body[f] = TryParseBinExpr
    BY <1>11 DEF Body
  <2>2. Size(f) = 6
    BY <2>1 DEF TryParseBinExpr
  <2>3. BodyFact(f, 1)
    BY <1>11, <1>2, <2>1 DEF TryParseBinExpr, Weight
  <2>4. BodyFact(f, 2)
    BY <1>11, <1>2, <2>1 DEF TryParseBinExpr, Weight
  <2>5. BodyFact(f, 3)
    BY <1>11, <1>2, <2>1 DEF TryParseBinExpr, Weight
  <2>6. BodyFact(f, 4)
    BY <1>11, <1>2, <2>1 DEF TryParseBinExpr, Weight
  <2>7. BodyFact(f, 5)
    BY <1>11, <1>2, <2>1 DEF TryParseBinExpr, Weight
  <2>8. BodyFact(f, 6)
    BY <1>11, <1>2, <2>1 DEF TryParseBinExpr, Weight
  <2> QED BY SMTT(20), <1>3, <1>11, <2>2, <2>3, <2>4, <2>5, <2>6, <2>7, <2>8
<1>12. CASE f = "Expr"
  <2>1. Body[f] = TryParseExpr
    BY <1>12 DEF Body
  <2> QED BY <1>12, <1>2, <1>3, <2>1 DEF TryParseExpr, Weight
<1>13. CASE f = "Interval"
  <2>1. Body[f] = TryParseInterval
    BY <1>13 DEF Body
  <2> QED BY <1>13, <1>2, <1>3, <2>1 DEF TryParseInterval, Weight
<1>14. CASE f = "Asgn"
  <2>1. Body[f] = TryParseAsgn
    BY <1>14 DEF Body
  <2> QED BY <1>14, <1>2, <1>3, <2>1 DEF TryParseAsgn, Weight
<1>15. CASE f = "VarDef"
  <2>1. Body[f] = TryParseVarDef
    BY <1>15 DEF Body
  <2> QED BY <1>15, <1>2, <1>3, <2>1 DEF TryParseVarDef, Weight
<1>16. CASE f = "Decl"
  <2>1. Body[f] = TryParseDecl
    BY <1>16 DEF Body
  <2> QED BY <1>16, <1>2, <1>3, <2>1 DEF TryParseDecl, Weight
<1>17. CASE f = "Scope"
  <2>1. Body[f] = TryParseScope
    BY <1>17 DEF Body
  <2>2. Size(f) = 3
    BY <2>1 DEF TryParseScope
  <2>3. BodyFact(f, 1)
    BY <1>17, <1>2, <2>1 DEF TryParseScope, Weight
  <2>4. BodyFact(f, 2)
    BY <1>17, <1>2, <2>1 DEF TryParseScope, Weight
  <2>5. BodyFact(f, 3)
    BY <1>17, <1>2, <2>1 DEF TryParseScope, Weight
  <2> QED BY <1>3, <1>17, <2>2, <2>3, <2>4, <2>5
<1>18. CASE f = "If"
  <2>1. Body[f] = TryParseIf
    BY <1>18 DEF Body
  <2> QED BY <1>18, <1>2, <1>3, <2>1 DEF TryParseIf, Weight
<1>19. CASE f = "For"
  <2>1. Body[f] = TryParseFor
    BY <1>19 DEF Body
  <2> QED BY <1>19, <1>2, <1>3, <2>1 DEF TryParseFor, Weight
<1>20. CASE f = "Exit"
  <2>1. Body[f] = TryParseExit
    BY <1>20 DEF Body
  <2> QED BY <1>20, <1>2, <1>3, <2>1 DEF TryParseExit, Weight
<1>21. CASE f = "Stmt"
  <2>1. Body[f] = TryParseStmt
    BY <1>21 DEF Body
  <2>2. Size(f) = 2
    BY <2>1 DEF TryParseStmt
  <2>3. BodyFact(f, 1)
    <3>1. /\ Body[f][1].do = "first" /\ Body[f][1].miss = "skip"
          /\ Body[f][1].arg = <<"For", "VarDef", "If", "While", "Scope", "Exit",
                                "Asgn", "Decl", "FunDef", "FunDecl", "Call">>
      BY <2>1 DEF TryParseStmt
    <3>2. Callees(f, 1) = {"For", "VarDef", "If", "While", "Scope", "Exit",
                           "Asgn", "Decl", "FunDef", "FunDecl", "Call"}
      BY <3>1
    <3>3. \A g \in Callees(f, 1) : /\ g \in Functions \ {"Root", "Stmt"}
                                   /\ Weight[g] >= 3
      BY <3>2, <1>2 DEF Weight
    <3>4. Weight[f] = 2
      BY <1>21 DEF Weight
    <3> QED BY <1>21, <3>1, <3>3, <3>4
  <2>4. BodyFact(f, 2)
    BY <1>21, <1>2, <2>1 DEF TryParseStmt, Weight
  <2> QED BY <1>3, <1>21, <2>2, <2>3, <2>4
<1>22. CASE f = "Root"
  <2>1. Body[f] = TryParseRoot
    BY <1>22 DEF Body
  <2> QED BY <1>22, <1>2, <1>3, <2>1 DEF TryParseRoot, Weight
<1> QED BY <1>2, <1>4, <1>5, <1>6, <1>7, <1>8, <1>9, <1>10, <1>11, <1>12,
           <1>13, <1>14, <1>15, <1>16, <1>17, <1>18, <1>19, <1>20, <1>21, <1>22

-----------------------------------------------------------------------------
(* Where the span of tokens of call k of the stack s ends so far, the      *)
(* cursor being at t: where the call it waits for began.                   *)
End(s, t, k) == IF k < Len(s) THEN s[k + 1].at ELSE t

(* A call that can wait for another one to return.                         *)
Waiting(F) ==
  /\ F.pc <= Size(F.fn)
  /\ Body[F.fn][F.pc].do = "first" => F.alt <= Len(Body[F.fn][F.pc].arg)

FrameOK(s, t, k) ==
  LET F == s[k]
  IN  /\ F.pc <= Size(F.fn) + 1
      /\ F.at <= End(s, t, k)
      /\ F.fn # "Root" /\ ~Leading(F.fn, F.pc) => F.at < End(s, t, k)
      /\ F.fn = "Stmt" => F.at < Len(Tokens)
      /\ k <= 2 * F.at + Weight[F.fn]
      /\ k > 1 => F.fn # "Root"
      /\ k < Len(s) => Waiting(F) /\ s[k + 1].fn \in Callees(F.fn, F.pc)

FramesOK(s, t) == \A k \in 1 .. Len(s) : FrameOK(s, t, k)

Returned ==
  stack # <<>> /\ ctl \in {"node", "null"} =>
    /\ Waiting(Top)
    /\ Top.at <= from
    /\ from <= TokenIndex
    /\ ctl = "node" \/ Ins.do = "stats" => from < TokenIndex

(* The inductive invariant.  Progress of a statement is only inductive     *)
(* together with where each active call began and with which of them must  *)
(* have consumed a token since (all that are past their Leading            *)
(* instructions): the function that returns was called by one of those.    *)
IInv == TypeOK /\ FramesOK(stack, TokenIndex) /\ Returned

-----------------------------------------------------------------------------
(* The three ways the stack changes keep the frames right: the innermost   *)
(* call moves on, calls a function, or returns.                            *)
LEMMA GotoLemma ==
  ASSUME NEW s \in Seq(Frame), s # <<>>,
         NEW t \in Nat, NEW u \in Nat, t <= u, FramesOK(s, t),
         NEW F \in Frame, F.fn = s[Len(s)].fn, F.at = s[Len(s)].at,
         F.pc <= Size(F.fn) + 1,
         F.fn = "Root" \/ Leading(F.fn, F.pc) \/ F.at < u
  PROVE  LET r == [s EXCEPT ![Len(s)] = F]
         IN  r \in Seq(Frame) /\ FramesOK(r, u)
<1> DEFINE r == [s EXCEPT ![Len(s)] = F]
<1>1. Len(s) \in Nat \ {0}
  OBVIOUS
<1>2. /\ r \in Seq(Frame) /\ Len(r) = Len(s)
      /\ \A k \in 1 .. Len(s) : r[k] = IF k = Len(s) THEN F ELSE s[k]
  BY <1>1, ExceptSeq
<1> HIDE DEF r
<1>3. ASSUME NEW k \in 1 .. Len(r)
      PROVE  FrameOK(r, u, k)
  <2>1. s[k] \in Frame /\ FrameOK(s, t, k)
    BY <1>1, <1>2, <1>3 DEF FramesOK
  <2>2. CASE k < Len(s)
    <3>1. /\ r[k] = s[k] /\ r[k + 1].at = s[k + 1].at
          /\ r[k + 1].fn = s[k + 1].fn
      BY <1>1, <1>2, <2>2
    <3> QED BY <1>2, <2>1, <2>2, <3>1 DEF FrameOK, End
  <2>3. CASE k = Len(s)
    <3>1. r[k] = F /\ End(r, u, k) = u /\ ~(k < Len(r)) /\ End(s, t, k) = t
      BY <1>1, <1>2, <2>3 DEF End
    <3>2. F.at <= u
      BY <2>1, <2>3, <3>1 DEF FrameOK, Frame
    <3> QED BY <2>1, <2>3, <3>1, <3>2 DEF FrameOK
  <2> QED BY <1>2, <1>3, <2>2, <2>3
<1> QED BY <1>2, <1>3 DEF FramesOK, r

(* A call on top of active calls that are in order leaves them in order.  *)
LEMMA CallLemma ==
  ASSUME NEW s \in Seq(Frame), s # <<>>,
         NEW t \in Nat, NEW u \in Nat, t <= u, FramesOK(s, t),
         Waiting(s[Len(s)]),
         NEW g \in Callees(s[Len(s)].fn, s[Len(s)].pc), NEW min \in 0 .. 255,
         g = "Stmt" => u < Len(Tokens)
  PROVE  LET r == Append(s, Enter(g, u, min))
         IN  r \in Seq(Frame) /\ FramesOK(r, u)
<1> DEFINE n == Len(s)
           r == Append(s, Enter(g, u, min))
<1>1. n \in Nat \ {0} /\ s[n] \in Frame /\ FrameOK(s, t, n)
  BY DEF FramesOK
<1>2. BodyFact(s[n].fn, s[n].pc) /\ Weight[s[n].fn] \in Nat
  BY SMTT(20), <1>1, BodyLemma DEF Frame, Waiting
<1>3. /\ g \in Functions \ {"Root"}
      /\ Weight[g] >= Weight[s[n].fn]
           + (IF s[n].fn = "Root" \/ Leading(s[n].fn, s[n].pc) THEN 1 ELSE -1)
  BY <1>2 DEF BodyFact
<1>4. Weight[g] \in Nat /\ Size(g) \in Nat \ {0}
  <2>1. g \in Functions
    BY <1>3
  <2>2. Weight[g] \in 1 .. 5 /\ Size(g) \in 1 .. 6
    BY <2>1, BodyLemma, Zenon
  <2> QED BY <2>2
<1>5. Enter(g, u, min) \in Frame
  BY <1>3 DEF Enter, Frame
<1>6. /\ r \in Seq(Frame) /\ Len(r) = n + 1 /\ r[n + 1] = Enter(g, u, min)
      /\ \A k \in 1 .. n : r[k] = s[k]
  BY <1>1, <1>5, AppendProperties
<1> HIDE DEF r
<1>7. ASSUME NEW k \in 1 .. Len(r)
      PROVE  FrameOK(r, u, k)
  <2>1. CASE k < n
    <3>1. r[k] = s[k] /\ r[k + 1] = s[k + 1] /\ FrameOK(s, t, k)
      BY <1>1, <1>6, <2>1 DEF FramesOK
    <3> QED BY <1>1, <1>6, <2>1, <3>1 DEF FrameOK, End
  <2>2. CASE k = n
    <3>1. r[k] = s[k] /\ r[k + 1].at = u /\ r[k + 1].fn = g
      BY <1>1, <1>6, <2>2 DEF Enter
    <3> QED BY <1>1, <1>6, <2>2, <3>1 DEF FrameOK, End, Frame
  <2>3. CASE k = n + 1
    <3>1. r[k].fn = g /\ r[k].pc = 1 /\ r[k].at = u
      BY <1>6, <2>3 DEF Enter
    <3>2. k <= 2 * u + Weight[g]
      <4>1. /\ n <= 2 * s[n].at + Weight[s[n].fn]
            /\ s[n].at \in Nat /\ s[n].at <= t
            /\ ~Leading(s[n].fn, s[n].pc) /\ s[n].fn # "Root" => s[n].at < t
        BY <1>1 DEF FrameOK, End, Frame
      <4>2. CASE s[n].fn = "Root" \/ Leading(s[n].fn, s[n].pc)
        BY <1>1, <1>2, <1>3, <1>4, <2>3, <4>1, <4>2
      <4>3. CASE ~(s[n].fn = "Root" \/ Leading(s[n].fn, s[n].pc))
        BY SMTT(20), <1>1, <1>2, <1>3, <1>4, <2>3, <4>1, <4>3
      <4> QED BY <4>2, <4>3
    <3>3. End(r, u, k) = u /\ ~(k < Len(r)) /\ Leading(g, 1)
      BY <1>1, <1>6, <2>3 DEF End, Leading
    <3> QED BY <1>3, <1>4, <3>1, <3>2, <3>3 DEF FrameOK
  <2> QED BY <1>1, <1>6, <1>7, <2>1, <2>2, <2>3
<1> QED BY <1>6, <1>7 DEF FramesOK, r

(* So does a return, and a caller that waits in a statement loop sees the *)
(* cursor beyond where the call began.                                     *)
LEMMA ReturnLemma ==
  ASSUME NEW s \in Seq(Frame), s # <<>>,
         NEW t \in Nat, NEW u \in Nat, t <= u, FramesOK(s, t)
  PROVE  LET n == Len(s)
             r == SubSeq(s, 1, n - 1)
         IN  /\ r \in Seq(Frame)
             /\ FramesOK(r, u)
             /\ r # <<>> =>
                  /\ Waiting(r[Len(r)])
                  /\ r[Len(r)].at <= s[n].at
                  /\ s[n].fn # "Root"
                  /\ Body[r[Len(r)].fn][r[Len(r)].pc].do = "stats"
                       => s[n].fn = "Stmt"
<1> DEFINE n == Len(s)
           r == SubSeq(s, 1, n - 1)
<1>1. n \in Nat \ {0}
  OBVIOUS
<1>2. /\ r \in Seq(Frame) /\ Len(r) = n - 1
      /\ \A k \in 1 .. n - 1 : r[k] = s[k]
  <2>1. \A k \in 1 .. n - 1 : s[k] \in Frame
    BY <1>1
  <2>2. /\ r \in Seq(Frame)
        /\ Len(r) = IF 1 <= n - 1 THEN (n - 1) - 1 + 1 ELSE 0
        /\ \A i \in 1 .. (n - 1) - 1 + 1 : r[i] = s[1 + i - 1]
    BY <1>1, <2>1, SubSeqProperties
  <2> HIDE DEF r, n
  <2>3. r \in Seq(Frame) /\ Len(r) = n - 1
    BY <1>1, <2>2
  <2>4. ASSUME NEW k \in 1 .. n - 1
        PROVE  r[k] = s[k]
    <3>1. 1 + k - 1 = k /\ k \in 1 .. (n - 1) - 1 + 1
      BY <1>1
    <3> QED BY <2>2, <3>1
  <2> QED BY <2>3, <2>4
<1> HIDE DEF r
<1>3. \A k \in 1 .. n : s[k] \in Frame /\ FrameOK(s, t, k)
  BY <1>1 DEF FramesOK
<1>4. ASSUME NEW k \in 1 .. Len(r)
      PROVE  FrameOK(r, u, k)
  <2>1. CASE k < n - 1
    <3>1. r[k] = s[k] /\ r[k + 1] = s[k + 1]
      BY <1>1, <1>2, <2>1
    <3> QED BY <1>1, <1>2, <1>3, <2>1, <3>1 DEF FrameOK, End
  <2>2. CASE k = n - 1
    <3>1. /\ r[k] = s[k] /\ s[k] \in Frame /\ FrameOK(s, t, k)
          /\ s[k + 1] \in Frame /\ s[k + 1].at <= t
      BY <1>1, <1>2, <1>3, <2>2 DEF FrameOK, End
    <3>2. /\ End(s, t, k) = s[k + 1].at /\ End(r, u, k) = u /\ ~(k < Len(r))
      BY <1>1, <1>2, <2>2 DEF End
    <3>3. s[k].at \in Nat /\ s[k + 1].at \in Nat /\ s[k + 1].at <= u
      BY <3>1 DEF Frame
    <3> QED BY <3>1, <3>2, <3>3 DEF FrameOK
  <2> QED BY <1>1, <1>2, <2>1, <2>2
<1>5. ASSUME r # <<>>
      PROVE  /\ Waiting(r[Len(r)])
             /\ r[Len(r)].at <= s[n].at
             /\ s[n].fn # "Root"
             /\ Body[r[Len(r)].fn][r[Len(r)].pc].do = "stats"
                  => s[n].fn = "Stmt"
  <2>1. n - 1 \in 1 .. n /\ r[Len(r)] = s[n - 1] /\ n > 1
    BY <1>1, <1>2, <1>5
  <2>2. /\ Waiting(s[n - 1]) /\ s[n - 1].at <= s[n].at /\ s[n].fn # "Root"
        /\ s[n].fn \in Callees(s[n - 1].fn, s[n - 1].pc)
    BY <1>1, <1>3, <2>1 DEF FrameOK, End
  <2> QED BY <2>1, <2>2 DEF Callees
<1> QED BY <1>2, <1>4, <1>5 DEF FramesOK, r

-----------------------------------------------------------------------------
(* What the invariant says of the innermost call.                          *)
LEMMA TopLemma ==
  ASSUME IInv, stack # <<>>
  PROVE  /\ Len(stack) \in Nat \ {0}
         /\ Top \in Frame
         /\ FrameOK(stack, TokenIndex, Len(stack))
         /\ Size(Top.fn) \in 1 .. 6
         /\ Top.fn = "BinExpr" => Size(Top.fn) = 6
         /\ Top.pc <= Size(Top.fn) => BodyFact(Top.fn, Top.pc)
         /\ Top.at <= TokenIndex
         /\ Top.fn # "Root" /\ ~Leading(Top.fn, Top.pc) => Top.at < TokenIndex
<1>1. stack \in Seq(Frame) /\ Len(stack) \in Nat \ {0}
  BY DEF IInv, TypeOK
<1>2. Top \in Frame /\ FrameOK(stack, TokenIndex, Len(stack))
  BY <1>1 DEF IInv, FramesOK, Top
<1>3. Top.fn \in Functions /\ Top.pc \in 1 .. 7
  BY <1>2 DEF Frame
<1>4. /\ Size(Top.fn) \in 1 .. 6
      /\ Top.fn = "BinExpr" => Size(Top.fn) = 6
      /\ \A pc \in 1 .. Size(Top.fn) : BodyFact(Top.fn, pc)
  BY <1>3, BodyLemma, Zenon
<1>5. Top.pc <= Size(Top.fn) => BodyFact(Top.fn, Top.pc)
  BY <1>3, <1>4
<1>6. End(stack, TokenIndex, Len(stack)) = TokenIndex
  BY <1>1 DEF End
<1>7. /\ Top.at <= TokenIndex
      /\ Top.fn # "Root" /\ ~Leading(Top.fn, Top.pc) => Top.at < TokenIndex
  BY <1>2, <1>6 DEF FrameOK, Top
<1> QED BY <1>1, <1>2, <1>4, <1>5, <1>7

(* The innermost call moves on to its next instruction.                    *)
LEMMA GotoStep ==
  ASSUME IInv, stack # <<>>,
         NEW pc \in 1 .. 7, Goto(pc), pc <= Size(Top.fn) + 1,
         Tokens' = Tokens, TokenIndex' \in TokenIndex .. Len(Tokens),
         \/ Top.fn = "Root"
         \/ Leading(Top.fn, pc)
         \/ Top.at < TokenIndex',
         ctl' = "run", from' = from, HasErrors' = HasErrors,
         ErrCount' = ErrCount
  PROVE  IInv'
<1>1. /\ stack \in Seq(Frame) /\ Tokens \in Seq(Kinds) /\ Len(Tokens) \in Nat
      /\ TokenIndex \in Nat /\ TokenIndex' \in Nat /\ TokenIndex <= TokenIndex'
      /\ FramesOK(stack, TokenIndex)
  BY DEF IInv, TypeOK
<1>2. /\ stack' = [stack EXCEPT ![Len(stack)] = [Top EXCEPT !.pc = pc]]
      /\ [Top EXCEPT !.pc = pc] \in Frame
  BY ZenonT(30), TopLemma DEF Goto, Top, Frame
<1>3. stack' \in Seq(Frame) /\ FramesOK(stack', TokenIndex')
  BY ZenonT(30), <1>1, <1>2, TopLemma, GotoLemma DEF Top, Frame
<1>4. FramesOK(stack, TokenIndex)'
  BY <1>3 DEF FramesOK, FrameOK, End, Waiting
<1>5. TypeOK'
  BY <1>1, <1>3 DEF IInv, TypeOK
<1>6. Returned'
  BY DEF Returned
<1> QED BY <1>4, <1>5, <1>6 DEF IInv

(* The innermost call calls another function.                              *)
LEMMA CallStep ==
  ASSUME IInv, stack # <<>>, Waiting(Top),
         NEW g \in Callees(Top.fn, Top.pc), NEW min \in 0 .. 255,
         Call(g, TokenIndex', min),
         Tokens' = Tokens, TokenIndex' \in TokenIndex .. Len(Tokens),
         g = "Stmt" => TokenIndex' < Len(Tokens),
         from' = from, HasErrors' = HasErrors, ErrCount' = ErrCount
  PROVE  IInv'
<1>1. /\ stack \in Seq(Frame) /\ Tokens \in Seq(Kinds) /\ Len(Tokens) \in Nat
      /\ TokenIndex \in Nat /\ TokenIndex' \in Nat /\ TokenIndex <= TokenIndex'
      /\ FramesOK(stack, TokenIndex)
  BY DEF IInv, TypeOK
<1>2. stack' \in Seq(Frame) /\ FramesOK(stack', TokenIndex')
  BY <1>1, CallLemma DEF Call, Top
<1>3. FramesOK(stack, TokenIndex)'
  BY <1>2 DEF FramesOK, FrameOK, End, Waiting
<1>4. TypeOK'
  BY <1>1, <1>2 DEF IInv, TypeOK, Call
<1>5. Returned'
  BY DEF Returned, Call
<1> QED BY <1>3, <1>4, <1>5 DEF IInv

(* The innermost call returns.  A node it returns spans a token, and so    *)
(* does any return of TryParseStmt.                                        *)
LEMMA ReturnStep ==
  ASSUME IInv, stack # <<>>,
         NEW c \in {"node", "null"}, NEW n, Return(c, n),
         Tokens' = Tokens, TokenIndex' \in TokenIndex .. Len(Tokens),
         c = "node" /\ Top.fn # "Root" => Top.at < TokenIndex',
         Top.fn = "Stmt" => Top.at < TokenIndex',
         HasErrors' = HasErrors, ErrCount' \in Nat
  PROVE  IInv'
<1>1. /\ stack \in Seq(Frame) /\ Tokens \in Seq(Kinds) /\ Len(Tokens) \in Nat
      /\ TokenIndex \in Nat /\ TokenIndex' \in Nat /\ TokenIndex <= TokenIndex'
      /\ FramesOK(stack, TokenIndex)
  BY DEF IInv, TypeOK
<1>2. /\ stack' \in Seq(Frame) /\ FramesOK(stack', TokenIndex')
      /\ stack' # <<>> =>
           /\ Waiting(stack'[Len(stack')])
           /\ stack'[Len(stack')].at <= Top.at
           /\ Top.fn # "Root"
           /\ Body[stack'[Len(stack')].fn][stack'[Len(stack')].pc].do = "stats"
                => Top.fn = "Stmt"
  BY <1>1, ReturnLemma DEF Return, Top
<1>3. FramesOK(stack, TokenIndex)'
  BY <1>2 DEF FramesOK, FrameOK, End, Waiting
<1>4. Top.at <= TokenIndex /\ Top.at \in Nat /\ from' = Top.at /\ ctl' = c
  BY TopLemma DEF Frame, Return
<1>5. TypeOK'
  BY <1>1, <1>2, <1>4 DEF IInv, TypeOK
<1>6. Returned'
  BY <1>1, <1>2, <1>4 DEF Returned, Top, Ins, Waiting
<1> QED BY <1>3, <1>5, <1>6 DEF IInv

(* A function gives up.  TryParseStmt does so past its first token or by   *)
(* skipping to the next statement, which consumes one.                     *)
LEMMA GiveUpStep ==
  ASSUME IInv, stack # <<>>, NEW m, GiveUp(m),
         Top.fn = "Stmt" => m = "skip" \/ Top.at < TokenIndex,
         Tokens' = Tokens, HasErrors' = HasErrors
  PROVE  IInv'
<1>1. /\ Tokens \in Seq(Kinds) /\ Len(Tokens) \in Nat /\ ErrCount \in Nat
      /\ TokenIndex \in Nat /\ TokenIndex <= Len(Tokens)
  BY DEF IInv, TypeOK
<1>2. Top.at <= TokenIndex /\ Top.at \in Nat
  BY TopLemma DEF Frame
<1>3. CASE Return("null", Null) /\ UNCHANGED <<TokenIndex, ErrCount>> /\ m # "skip"
  BY <1>1, <1>3, ReturnStep
<1>4. CASE SYNTAX_ERR /\ Return("null", Null) /\ UNCHANGED TokenIndex
           /\ m # "skip"
  BY <1>1, <1>4, ReturnStep DEF SYNTAX_ERR
<1>5. CASE ctl' = "crash" /\ UNCHANGED <<TokenIndex, stack, kids, val, from, ErrCount>>
  <2>1. TypeOK' /\ Returned'
    BY <1>5 DEF IInv, TypeOK, Returned
  <2>2. FramesOK(stack, TokenIndex)'
    BY <1>5 DEF IInv, FramesOK, FrameOK, End, Waiting
  <2> QED BY <2>1, <2>2 DEF IInv
<1>6. CASE SYNTAX_ERR /\ Resync /\ Return("null", Null)
  <2>1. PICK n \in TokenIndex .. Len(Tokens) :
          /\ n = Len(Tokens) \/ n > TokenIndex
          /\ TokenIndex' = n
    BY <1>6 DEF Resync
  <2>2. Top.fn = "Stmt" => Top.at < Len(Tokens)
    BY TopLemma DEF FrameOK, Top
  <2>3. Top.fn = "Stmt" => Top.at < TokenIndex'
    BY <1>1, <1>2, <2>1, <2>2
  <2> QED BY <1>1, <1>6, <2>1, <2>3, ReturnStep DEF SYNTAX_ERR
<1> QED BY <1>3, <1>4, <1>5, <1>6 DEF GiveUp

(* Only the resumption and the cursor change.                              *)
LEMMA ResumeStep ==
  ASSUME IInv, stack # <<>>, UNCHANGED <<Tokens, stack, from>>,
         TokenIndex' \in TokenIndex .. Len(Tokens),
         ctl' \in {"run", "crash", "exit"},
         HasErrors' \in BOOLEAN, ErrCount' \in Nat
  PROVE  IInv'
<1>1. /\ stack \in Seq(Frame) /\ Tokens \in Seq(Kinds) /\ Len(Tokens) \in Nat
      /\ TokenIndex \in Nat /\ TokenIndex' \in Nat /\ TokenIndex <= TokenIndex'
      /\ FramesOK(stack, TokenIndex)
  BY DEF IInv, TypeOK
<1>2. TypeOK' /\ Returned'
  BY <1>1 DEF IInv, TypeOK, Returned
<1>3. ASSUME NEW k \in 1 .. Len(stack) PROVE FrameOK(stack, TokenIndex', k)
  <2>1. stack[k] \in Frame /\ FrameOK(stack, TokenIndex, k)
    BY <1>1, <1>3 DEF FramesOK
  <2>2. End(stack, TokenIndex', k) = End(stack, TokenIndex, k)
          \/ (/\ End(stack, TokenIndex, k) = TokenIndex
              /\ End(stack, TokenIndex', k) = TokenIndex')
    BY DEF End
  <2> QED BY <1>1, <2>1, <2>2 DEF FrameOK, Frame
<1>4. FramesOK(stack, TokenIndex)'
  BY <1>3 DEF FramesOK, FrameOK, End, Waiting
<1> QED BY <1>2, <1>4 DEF IInv

-----------------------------------------------------------------------------
LEMMA InitIInv == Init => IInv
<1> SUFFICES ASSUME Init PROVE IInv
  OBVIOUS
<1>1. "Root" \in Functions
  BY DEF Functions, Body
<1>2. Weight["Root"] = 1 /\ Size("Root") \in 1 .. 6
  BY <1>1, BodyLemma, Zenon DEF Weight
<1>3. Enter("Root", 0, 0) \in Frame /\ Tokens \in Seq(Kinds)
  BY <1>1, ParserAssumption DEF Enter, Frame, Init
<1>4. /\ stack \in Seq(Frame) /\ Len(stack) = 1
      /\ stack[1].fn = "Root" /\ stack[1].pc = 1 /\ stack[1].at = 0
  BY <1>3 DEF Init, Enter
<1>5. TypeOK
  <2>1. Len(Tokens) \in Nat
    BY <1>3
  <2>2. /\ TokenIndex \in 0 .. Len(Tokens) /\ from \in 0 .. Len(Tokens)
        /\ ctl = "run" /\ HasErrors = FALSE /\ ErrCount = 0
    BY <2>1 DEF Init
  <2> QED BY <1>3, <1>4, <2>2 DEF TypeOK
<1>6. FramesOK(stack, TokenIndex)
  BY <1>2, <1>4, <1>5 DEF FramesOK, FrameOK, End, Init, TypeOK
<1>7. Returned
  BY DEF Returned, Init
<1> QED BY <1>5, <1>6, <1>7 DEF IInv

(* The MinPrec argument stays a u8, whatever OPINFOS['~'] reads.           *)
LEMMA MinPrecLemma == \A op : NextMinPrec(op) \in 0 .. 255
<1>1. \A op : OPINFOS(op) \in OpInfo
  BY ParserAssumption DEF OPINFOS, OpInfo
<1>2. ASSUME NEW op PROVE NextMinPrec(op) \in 0 .. 255
  <2>1. OPINFOS(op).Prec \in 0 .. 255
    BY <1>1 DEF OpInfo
  <2> QED BY <2>1 DEF NextMinPrec
<1> QED BY <1>2

(* Every step, action by action.                                           *)
LEMMA NextIInv == IInv /\ [Next]_vars => IInv'
<1> SUFFICES ASSUME IInv, [Next]_vars PROVE IInv'
  OBVIOUS
<1>0. /\ Tokens \in Seq(Kinds) /\ Len(Tokens) \in Nat
      /\ TokenIndex \in 0 .. Len(Tokens) /\ ErrCount \in Nat
      /\ HasErrors \in BOOLEAN
  BY DEF IInv, TypeOK
<1>a. ASSUME stack # <<>>
      PROVE  /\ Len(stack) \in Nat \ {0} /\ Top \in Frame
             /\ FrameOK(stack, TokenIndex, Len(stack))
             /\ Size(Top.fn) \in 1 .. 6
             /\ Top.fn = "BinExpr" => Size(Top.fn) = 6
             /\ Top.at <= TokenIndex /\ Top.at \in Nat
             /\ Top.pc \in 1 .. 7 /\ Top.pc <= Size(Top.fn) + 1
             /\ Top.fn # "Root" /\ ~Leading(Top.fn, Top.pc)
                  => Top.at < TokenIndex
             /\ Top.pc <= Size(Top.fn) => BodyFact(Top.fn, Top.pc)
  BY <1>a, TopLemma DEF FrameOK, Top, Frame
<1>b. ASSUME stack # <<>>, ~At("end") PROVE TokenIndex < Len(Tokens)
  BY <1>0, <1>b DEF At, Peek
<1>c. ASSUME stack # <<>>, Top.pc <= Size(Top.fn),
             Ins.do \notin {"eat", "take", "call", "first", "fork"}
      PROVE  Top.fn = "Root" \/ Top.at < TokenIndex
  BY <1>a, <1>c DEF BodyFact, Ins
<1>d. ASSUME stack # <<>>, Top.pc <= Size(Top.fn), Top.fn = "Stmt"
      PROVE  \/ Ins.do = "first" /\ Ins.miss = "skip"
             \/ Ins.do = "eat" /\ Top.at < TokenIndex
  BY <1>a, <1>d DEF BodyFact, Ins, Leading
<1>e. ASSUME stack # <<>>, Top.pc <= Size(Top.fn), Ins.do # "stats"
      PROVE  \A g \in Callees(Top.fn, Top.pc) : g # "Stmt"
  BY <1>a, <1>e DEF BodyFact, Ins
<1>f. ASSUME stack # <<>>, ctl \in {"node", "null"}
      PROVE  /\ Top.pc <= Size(Top.fn)
             /\ Top.at <= from /\ from <= TokenIndex /\ from \in Nat
             /\ ctl = "node" => from < TokenIndex
             /\ Ins.do = "first" => Top.alt <= Len(Ins.arg)
  BY <1>0, <1>f DEF IInv, TypeOK, Returned, Waiting, Ins
<1>1. CASE TokenHit
  <2>1. /\ stack # <<>> /\ Top.pc <= Size(Top.fn) /\ Goto(Top.pc + 1)
        /\ Ins.do \in {"eat", "take", "opt"} /\ Peek(0) = Ins.arg[1]
        /\ TokenIndex' = TokenIndex + 1
    BY <1>1 DEF TokenHit, Running, Consume, At
  <2>2. Peek(0) # "end"
    BY <1>a, <2>1 DEF BodyFact, Ins
  <2>3. TokenIndex < Len(Tokens)
    BY <1>b, <2>1, <2>2 DEF At
  <2> QED BY <1>0, <1>1, <1>a, <2>1, <2>3, GotoStep DEF TokenHit, Running
<1>2. CASE TokenMiss
  <2>1. /\ stack # <<>> /\ Top.pc <= Size(Top.fn)
        /\ Ins.do \in {"eat", "take"} /\ GiveUp(Ins.miss)
    BY <1>2 DEF TokenMiss, Running
  <2> QED BY <1>2, <1>d, <2>1, GiveUpStep DEF TokenMiss
<1>3. CASE OptMiss
  <2>1. /\ stack # <<>> /\ Top.pc <= Size(Top.fn)
        /\ Ins.do = "opt" /\ Goto(Top.pc + 1)
    BY <1>3 DEF OptMiss, Running
  <2> QED BY <1>0, <1>3, <1>a, <1>c, <2>1, GotoStep DEF OptMiss, Running
<1>4. CASE Branch
  <2>1. /\ stack # <<>> /\ Top.pc <= Size(Top.fn) /\ Ins.do = "fork"
    BY <1>4 DEF Branch, Running
  <2>2. Top.fn = "BinExpr" /\ Top.pc = 1 /\ Ins.arg[1] # "end"
    BY <1>a, <2>1 DEF BodyFact, Ins
  <2>3. Size(Top.fn) = 6
    BY <1>a, <2>1, <2>2
  <2>4. CASE At(Ins.arg[1]) /\ Consume /\ Goto(Top.pc + 3)
    <3>1. TokenIndex < Len(Tokens) /\ TokenIndex' = TokenIndex + 1
      BY <1>b, <2>1, <2>2, <2>4 DEF At, Consume
    <3> QED BY <1>0, <1>4, <1>a, <2>1, <2>2, <2>3, <2>4, <3>1, GotoStep
            DEF Branch, Running
  <2>5. CASE Goto(Top.pc + 1) /\ UNCHANGED TokenIndex
    BY <1>0, <1>4, <1>a, <2>1, <2>2, <2>3, <2>5, GotoStep
       DEF Branch, Running, Leading
  <2> QED BY <1>4, <2>4, <2>5 DEF Branch
<1>5. CASE CallSub
  <2>1. /\ stack # <<>> /\ Top.pc <= Size(Top.fn) /\ Ins.do = "call"
        /\ Call(Ins.arg[1], TokenIndex, 0)
    BY <1>5 DEF CallSub, Running
  <2>2. Waiting(Top) /\ Ins.arg[1] \in Callees(Top.fn, Top.pc)
    BY <2>1 DEF Waiting, Callees, Ins
  <2> QED BY <1>0, <1>5, <1>e, <2>1, <2>2, CallStep DEF CallSub
<1>6. CASE SubNode
  <2>1. stack # <<>> /\ ctl = "node" /\ Ins.do = "call" /\ Goto(Top.pc + 1)
    BY <1>6 DEF SubNode, Resumed
  <2> QED BY <1>0, <1>6, <1>a, <1>f, <2>1, GotoStep DEF SubNode
<1>7. CASE SubNull
  <2>1. /\ stack # <<>> /\ ctl = "null" /\ Ins.do \in {"call", "list", "climb"}
        /\ GiveUp(Ins.miss)
    BY <1>7 DEF SubNull, Resumed
  <2> QED BY <1>7, <1>d, <1>f, <2>1, GiveUpStep DEF SubNull
<1>8. CASE TryNext
  <2>1. /\ stack # <<>> /\ Top.pc <= Size(Top.fn) /\ Ins.do = "first"
        /\ Top.alt <= Len(Ins.arg) /\ Call(Ins.arg[Top.alt], TokenIndex, 0)
    BY <1>8 DEF TryNext, Running
  <2>2. Top.alt \in 1 .. Len(Ins.arg)
    BY <1>a, <2>1 DEF BodyFact, Ins, Frame
  <2>3. Waiting(Top) /\ Ins.arg[Top.alt] \in Callees(Top.fn, Top.pc)
    BY <2>1, <2>2 DEF Waiting, Callees, Ins
  <2>4. /\ Ins.arg[Top.alt] # "Stmt" /\ TokenIndex' = TokenIndex
        /\ Call(Ins.arg[Top.alt], TokenIndex', 0)
    BY <1>8, <1>e, <2>1, <2>3 DEF TryNext
  <2> DEFINE g == Ins.arg[Top.alt]
  <2>5. /\ g \in Callees(Top.fn, Top.pc) /\ g # "Stmt"
        /\ Call(g, TokenIndex', 0)
    BY <2>3, <2>4
  <2> HIDE DEF g
  <2> QED BY <1>0, <1>8, <2>1, <2>3, <2>4, <2>5, CallStep DEF TryNext
<1>9. CASE FirstNode
  <2>1. stack # <<>> /\ ctl = "node" /\ Ins.do = "first" /\ Goto(Top.pc + 1)
    BY <1>9 DEF FirstNode, Resumed
  <2> QED BY <1>0, <1>9, <1>a, <1>f, <2>1, GotoStep DEF FirstNode
<1>10. CASE FirstNull
  <2> DEFINE F == [Top EXCEPT !.alt = @ + 1]
  <2>1. /\ stack # <<>> /\ ctl = "null" /\ Ins.do = "first"
        /\ stack' = [stack EXCEPT ![Len(stack)] = F]
    BY <1>10 DEF FirstNull, Resumed, Top
  <2>2. Len(Ins.arg) \in 1 .. 11
    BY <1>a, <1>f, <2>1 DEF BodyFact, Ins
  <2>3. F \in Frame /\ F.fn = Top.fn /\ F.at = Top.at /\ F.pc = Top.pc
    <3>1. Top \in Frame
      BY <1>a, <2>1
    <3>2. Top.alt \in 1 .. 12 /\ Top.alt <= Len(Ins.arg)
      BY <1>f, <2>1, <3>1 DEF Frame
    <3>3. Top.alt + 1 \in 1 .. 12
      <4>1. \A a \in 1 .. 12, n \in 1 .. 11 : a <= n => a + 1 \in 1 .. 12
        OBVIOUS
      <4> QED BY <2>2, <3>2, <4>1, Zenon
    <3> QED BY <3>1, <3>3 DEF Frame
  <2>4. F.fn = "Root" \/ Leading(F.fn, F.pc) \/ F.at < TokenIndex
    BY <1>a, <2>1, <2>3
  <2>5. stack \in Seq(Frame) /\ FramesOK(stack, TokenIndex)
    BY DEF IInv, TypeOK
  <2> HIDE DEF F
  <2>6. stack' \in Seq(Frame) /\ FramesOK(stack', TokenIndex)
    <3>1. /\ TokenIndex \in Nat /\ TokenIndex <= TokenIndex
          /\ F.fn = stack[Len(stack)].fn /\ F.at = stack[Len(stack)].at
          /\ F.pc <= Size(F.fn) + 1
      BY <1>0, <1>a, <2>1, <2>3 DEF Top
    <3> QED BY <2>1, <2>3, <2>4, <2>5, <3>1, GotoLemma
  <2>7. FramesOK(stack, TokenIndex)'
    BY SMTT(20), <1>10, <2>6 DEF FirstNull, FramesOK, FrameOK, End, Waiting
  <2>8. TypeOK' /\ Returned'
    BY <1>10, <2>6 DEF FirstNull, IInv, TypeOK, Returned
  <2> QED BY <2>7, <2>8 DEF IInv
<1>11. CASE NoneLeft
  <2>1. /\ stack # <<>> /\ Top.pc <= Size(Top.fn) /\ Ins.do = "first"
        /\ GiveUp(Ins.miss)
    BY <1>11 DEF NoneLeft, Running
  <2> QED BY <1>11, <1>d, <2>1, GiveUpStep DEF NoneLeft
<1>12. CASE StatsHead
  <2>1. stack # <<>> /\ Top.pc <= Size(Top.fn) /\ Ins.do = "stats" /\ ctl = "run"
    BY <1>12 DEF StatsHead, Running
  <2>2. CASE Goto(Top.pc + 1) /\ UNCHANGED <<kids, ctl, ErrCount>>
    BY <1>0, <1>12, <1>a, <1>c, <2>1, <2>2, GotoStep DEF StatsHead
  <2>3. CASE ~At("end") /\ Call("Stmt", TokenIndex, 0) /\ UNCHANGED ErrCount
    <3>1. Waiting(Top) /\ "Stmt" \in Callees(Top.fn, Top.pc)
      BY <2>1 DEF Waiting, Callees, Ins
    <3> QED BY <1>0, <1>12, <1>b, <2>1, <2>3, <3>1, CallStep DEF StatsHead
  <2>4. CASE ctl' = "exit" /\ ErrCount' = ErrCount + 1 /\ UNCHANGED <<stack, kids>>
    BY <1>0, <1>12, <2>1, <2>4, ResumeStep DEF StatsHead
  <2> QED BY <1>12, <2>2, <2>3, <2>4 DEF StatsHead
<1>13. CASE StatsNode
  BY <1>0, <1>13, ResumeStep DEF StatsNode, Resumed
<1>14. CASE StatsNull
  BY <1>0, <1>14, ResumeStep DEF StatsNull, Resumed
<1>15. CASE ListHead
  <2>1. stack # <<>> /\ Top.pc <= Size(Top.fn) /\ Ins.do = "list" /\ ctl = "run"
    BY <1>15 DEF ListHead, Running
  <2>2. CASE /\ At("RPAREN") /\ Consume /\ Goto(Top.pc + 1)
             /\ UNCHANGED <<kids, ctl>>
    <3>1. TokenIndex < Len(Tokens) /\ TokenIndex' = TokenIndex + 1
      BY <1>b, <2>1, <2>2 DEF At, Consume
    <3> QED BY <1>0, <1>15, <1>a, <2>1, <2>2, <3>1, GotoStep DEF ListHead
  <2>3. CASE Call(Ins.arg[1], TokenIndex, 0) /\ UNCHANGED TokenIndex
    <3>1. Waiting(Top) /\ Ins.arg[1] \in Callees(Top.fn, Top.pc)
      BY <2>1 DEF Waiting, Callees, Ins
    <3> QED BY <1>0, <1>15, <1>e, <2>1, <2>3, <3>1, CallStep DEF ListHead
  <2> QED BY <1>15, <2>2, <2>3 DEF ListHead
<1>16. CASE ListItem
  <2>1. stack # <<>> /\ ctl = "node" /\ Ins.do = "list"
    BY <1>16 DEF ListItem, Resumed
  <2>2. CASE At("COMMA") /\ Consume /\ ctl' = "run" /\ UNCHANGED <<stack, from, ErrCount>>
    <3>1. TokenIndex < Len(Tokens) /\ TokenIndex' = TokenIndex + 1
      BY <1>b, <2>1, <2>2 DEF At, Consume
    <3> QED BY <1>0, <1>16, <2>1, <2>2, <3>1, ResumeStep DEF ListItem
  <2>3. CASE ctl' \in {"run", "crash"} /\ UNCHANGED <<TokenIndex, stack, from, ErrCount>>
    BY <1>0, <1>16, <2>1, <2>3, ResumeStep DEF ListItem
  <2>4. CASE SYNTAX_ERR /\ Return("null", Null) /\ UNCHANGED TokenIndex
    BY <1>0, <1>16, <1>d, <1>f, <2>1, <2>4, ReturnStep DEF ListItem, SYNTAX_ERR
  <2> QED BY <1>16, <2>2, <2>3, <2>4 DEF ListItem
<1>17. CASE ClimbHead
  <2>1. stack # <<>> /\ Top.pc <= Size(Top.fn) /\ Ins.do = "climb" /\ ctl = "run"
    BY <1>17 DEF ClimbHead, Running
  <2>2. CASE /\ Peek(0) \in Operators /\ Consume
             /\ Call("BinExpr", TokenIndex + 1, NextMinPrec(Peek(0)))
    <3>1. TokenIndex < Len(Tokens) /\ TokenIndex' = TokenIndex + 1
      BY <1>b, <2>1, <2>2 DEF At, Consume, Operators
    <3>2. NextMinPrec(Peek(0)) \in 0 .. 255
      BY MinPrecLemma
    <3>3. Waiting(Top) /\ "BinExpr" \in Callees(Top.fn, Top.pc)
      BY <2>1 DEF Waiting, Callees, Ins
    <3> DEFINE m == NextMinPrec(Peek(0))
    <3>4. Call("BinExpr", TokenIndex', m) /\ m \in 0 .. 255
      BY <2>2, <3>1, <3>2
    <3>5. /\ Tokens' = Tokens /\ from' = from
          /\ HasErrors' = HasErrors /\ ErrCount' = ErrCount
      BY <1>17 DEF ClimbHead
    <3>6. TokenIndex' \in TokenIndex .. Len(Tokens)
      BY <1>0, <3>1
    <3> HIDE DEF m
    <3> QED BY <2>1, <3>3, <3>4, <3>5, <3>6, CallStep
  <2>3. CASE Goto(Size(Top.fn) + 1) /\ UNCHANGED <<TokenIndex, kids, ctl>>
    BY <1>0, <1>17, <1>a, <1>c, <2>1, <2>3, GotoStep DEF ClimbHead
  <2> QED BY <1>17, <2>2, <2>3 DEF ClimbHead
<1>18. CASE ClimbNode
  BY <1>0, <1>18, ResumeStep DEF ClimbNode, Resumed
<1>19. CASE EndOfBody
  <2>1. stack # <<>> /\ Top.pc > Size(Top.fn)
    BY <1>19 DEF EndOfBody
  <2>2. Top.fn = "BinExpr" => Size(Top.fn) = 6
    BY <1>a, <2>1
  <2>3. Top.fn # "Root" => Top.at < TokenIndex
    BY <1>a, <2>1, <2>2 DEF Leading
  <2>4. PICK c \in {"node", "null"},
             n \in {Null, IF Top.fn \in PassOn THEN kids[Len(kids)][1]
                         ELSE Node(Top.fn, Top.at + 1, kids[Len(kids)])} :
          Return(c, n)
    BY <1>19 DEF EndOfBody
  <2> QED BY <1>0, <1>19, <2>1, <2>3, <2>4, ReturnStep DEF EndOfBody
<1>20. CASE Overrun
  BY <1>0, <1>20, ResumeStep DEF Overrun, Resumed
<1>21. CASE UNCHANGED vars
  <2>1. TypeOK' /\ Returned'
    BY <1>21 DEF vars, IInv, TypeOK, Returned, Top, Ins
  <2>2. FramesOK(stack, TokenIndex)'
    BY <1>21 DEF vars, IInv, FramesOK, FrameOK, End, Waiting
  <2> QED BY <2>1, <2>2 DEF IInv
<1> QED
  BY <1>1, <1>2, <1>3, <1>4, <1>5, <1>6, <1>7, <1>8, <1>9, <1>10, <1>11, <1>12,
     <1>13, <1>14, <1>15, <1>16, <1>17, <1>18, <1>19, <1>20, <1>21 DEF Next, Halt

-----------------------------------------------------------------------------
(* TypeOK for every token string: in particular the cursor of parser.c     *)
(* never passes the end of the token array.                                *)
THEOREM TypeCorrect == Spec => []TypeOK
<1>1. IInv => TypeOK
  BY DEF IInv
<1> QED BY InitIInv, NextIInv, <1>1, PTL DEF Spec

(* StmtProgress for every token string: a call of TryParseStmt that        *)
(* returns to a statement loop has consumed a token.                       *)
THEOREM Progress == Spec => []StmtProgress
<1>1. IInv => StmtProgress
  <2>1. SUFFICES ASSUME IInv, stack # <<>>, ctl \in {"node", "null"},
                        Ins.do = "stats"
                 PROVE  TokenIndex > from
    BY DEF StmtProgress
  <2>2. from < TokenIndex
    BY <2>1 DEF IInv, Returned
  <2> QED BY <2>1, <2>2 DEF IInv, TypeOK
<1> QED BY InitIInv, NextIInv, <1>1, PTL DEF Spec

(* StackDepth for every token string: the recursion of parse.c is as deep  *)
(* as the input makes it, two calls for each token consumed, and no more.  *)
THEOREM DepthBound == Spec => []StackDepth
<1>1. IInv => StackDepth
  <2>1. SUFFICES ASSUME IInv PROVE StackDepth
    OBVIOUS
  <2>2. TokenIndex \in Nat /\ stack \in Seq(Frame)
    BY <2>1 DEF IInv, TypeOK
  <2>3. CASE stack = <<>>
    <3>1. Len(stack) = 0
      BY <2>3
    <3> QED BY <2>2, <3>1 DEF StackDepth
  <2>4. CASE stack # <<>>
    <3>1. /\ Len(stack) \in Nat /\ Top \in Frame
          /\ Top.at <= TokenIndex /\ Top.at \in Nat
          /\ FrameOK(stack, TokenIndex, Len(stack))
      BY <2>1, <2>4, TopLemma DEF Frame
    <3>2. Len(stack) <= 2 * Top.at + Weight[Top.fn]
      BY <3>1 DEF FrameOK, Top
    <3>3. Top.fn \in Functions
      BY <3>1 DEF Frame
    <3>4. Weight[Top.fn] \in 1 .. 5
      BY <3>3, BodyLemma, Zenon
    <3> QED BY <2>2, <3>1, <3>2, <3>4 DEF StackDepth
  <2> QED BY <2>3, <2>4
<1> QED BY InitIInv, NextIInv, <1>1, PTL DEF Spec

-----------------------------------------------------------------------------
(* A rejected program has an error.  The call of TryParseRoot is the first *)
(* of every stack, and it sets HasErrors only for a statement that came    *)
(* back NULL, and TryParseStmt never gives up without an error.            *)
Rooted == stack # <<>> => stack[1].fn = "Root"

Reported ==
  /\ HasErrors => ErrCount > 0
  /\ ctl = "null" /\ (stack = <<>> \/ Top.fn = "Root") => ErrCount > 0

LEMMA StmtBody ==
  /\ Size("Stmt") = 2
  /\ Body["Stmt"][1].do = "first" /\ Body["Stmt"][1].miss = "skip"
  /\ Body["Stmt"][2].do = "eat" /\ Body["Stmt"][2].miss = "error"
<1>1. Body["Stmt"] = TryParseStmt
  BY DEF Body
<1> QED BY <1>1 DEF Size, TryParseStmt, First, Need, Instr

(* The stack a step leaves behind begins with the call it began with.      *)
LEMMA NextRooted == IInv /\ Rooted /\ [Next]_vars => Rooted'
<1> SUFFICES ASSUME IInv, Rooted, [Next]_vars PROVE Rooted'
  OBVIOUS
<1>1. stack \in Seq(Frame) /\ Len(stack) \in Nat
  BY DEF IInv, TypeOK
<1>2. ASSUME stack # <<>>
      PROVE  /\ Len(stack) \in Nat \ {0} /\ Top = stack[Len(stack)]
             /\ stack[1].fn = "Root" /\ Top \in Frame
  BY <1>1, <1>2 DEF Rooted, Top
<1>3. ASSUME stack # <<>>, NEW pc, Goto(pc) PROVE Rooted'
  <2>1. stack'[1] = IF Len(stack) = 1 THEN [Top EXCEPT !.pc = pc] ELSE stack[1]
    BY <1>1, <1>2, <1>3 DEF Goto
  <2>2. [Top EXCEPT !.pc = pc].fn = Top.fn
    BY <1>2, <1>3 DEF Frame
  <2> QED BY <1>2, <1>3, <2>1, <2>2 DEF Rooted
<1>4. ASSUME stack # <<>>, NEW f, NEW at, NEW min, Call(f, at, min) PROVE Rooted'
  <2>1. stack'[1] = stack[1]
    BY <1>1, <1>2, <1>4 DEF Call
  <2> QED BY <1>2, <1>4, <2>1 DEF Rooted
<1>5. ASSUME stack # <<>>, NEW c, NEW n, Return(c, n) PROVE Rooted'
  <2>1. Len(stack) = 1 => stack' = <<>>
    BY <1>1, <1>5 DEF Return
  <2>2. Len(stack) > 1 => stack'[1] = stack[1]
    BY <1>1, <1>5 DEF Return
  <2>3. stack[1].fn = "Root" /\ (Len(stack) = 1 \/ Len(stack) > 1)
    BY <1>2, <1>5
  <2>4. CASE Len(stack) = 1
    BY <2>1, <2>4 DEF Rooted
  <2>5. CASE Len(stack) > 1
    <3>1. stack'[1].fn = "Root"
      BY <2>2, <2>3, <2>5
    <3> QED BY <3>1 DEF Rooted
  <2> QED BY <2>3, <2>4, <2>5
<1>6. ASSUME UNCHANGED stack PROVE Rooted'
  BY <1>6 DEF Rooted
<1>7. ASSUME stack # <<>>, NEW miss, GiveUp(miss) PROVE Rooted'
  BY <1>5, <1>6, <1>7 DEF GiveUp
<1>8. CASE TokenHit \/ OptMiss \/ Branch \/ SubNode \/ FirstNode
  BY <1>3, <1>8 DEF TokenHit, OptMiss, Branch, SubNode, FirstNode, Running, Resumed
<1>9. CASE TokenMiss \/ SubNull \/ NoneLeft
  BY <1>7, <1>9 DEF TokenMiss, SubNull, NoneLeft, Running, Resumed
<1>10. CASE CallSub \/ TryNext
  BY <1>4, <1>10 DEF CallSub, TryNext, Running
<1>11. CASE FirstNull
  <2>1. stack' = [stack EXCEPT ![Len(stack)] = [Top EXCEPT !.alt = Top.alt + 1]]
        /\ stack # <<>>
    BY <1>11 DEF FirstNull, Top, Resumed
  <2>2. stack'[1] = IF Len(stack) = 1 THEN [Top EXCEPT !.alt = Top.alt + 1] ELSE stack[1]
    BY <1>1, <1>2, <2>1
  <2>3. [Top EXCEPT !.alt = Top.alt + 1].fn = Top.fn
    BY <1>2, <2>1 DEF Frame
  <2> QED BY <1>2, <2>1, <2>2, <2>3 DEF Rooted
<1>12. CASE StatsHead \/ ListHead \/ ClimbHead
  BY <1>3, <1>4, <1>6, <1>12 DEF StatsHead, ListHead, ClimbHead, Running
<1>13. CASE ListItem
  BY <1>5, <1>6, <1>13 DEF ListItem, Resumed
<1>14. CASE StatsNode \/ StatsNull \/ Overrun \/ ClimbNode \/ UNCHANGED vars
  BY <1>6, <1>14 DEF StatsNode, StatsNull, Overrun, ClimbNode, vars
<1>15. CASE EndOfBody
  BY <1>5, <1>15 DEF EndOfBody
<1> QED
  BY <1>8, <1>9, <1>10, <1>11, <1>12, <1>13, <1>14, <1>15 DEF Next, Halt

(* Who gives up without an error was not called by TryParseRoot.           *)
LEMMA QuietLemma ==
  ASSUME IInv, Rooted, stack # <<>>, Top.pc <= Size(Top.fn),
         Ins.do # "stats", Ins.do \in {"first", "eat"} => Ins.miss = "quiet"
  PROVE  Len(stack) > 1 /\ stack[Len(stack) - 1].fn # "Root"
<1>1. /\ stack \in Seq(Frame) /\ Len(stack) \in Nat \ {0}
      /\ Top \in Frame /\ BodyFact(Top.fn, Top.pc)
  BY TopLemma DEF IInv, TypeOK
<1>2. Top.fn # "Root" /\ Top.pc \in 1 .. 7
  BY <1>1 DEF BodyFact, Ins, Frame
<1>3. Len(stack) > 1
  BY <1>1, <1>2 DEF Rooted, Top
<1>4. Top.fn # "Stmt"
  <2>1. SUFFICES ASSUME Top.fn = "Stmt" PROVE FALSE
    OBVIOUS
  <2>2. Top.pc \in {1, 2}
    BY <1>2, <2>1, StmtBody
  <2> QED BY <2>1, <2>2, StmtBody DEF Ins
<1>5. ASSUME stack[Len(stack) - 1].fn = "Root" PROVE FALSE
  <2> DEFINE k == Len(stack) - 1
             F == stack[k]
  <2>1. k \in 1 .. Len(stack) /\ k < Len(stack) /\ k + 1 = Len(stack)
    BY <1>1, <1>3
  <2>2. F \in Frame /\ FrameOK(stack, TokenIndex, k)
    BY <1>1, <2>1 DEF IInv, FramesOK
  <2>3. Waiting(F) /\ Top.fn \in Callees(F.fn, F.pc)
    BY <2>1, <2>2 DEF FrameOK, Top
  <2>4. F.pc \in 1 .. Size("Root")
    BY <1>5, <2>2, <2>3 DEF Waiting, Frame
  <2>5. Body["Root"][F.pc].do = "stats"
    <3>1. Body["Root"] = TryParseRoot
      BY DEF Body
    <3> QED BY <2>4, <3>1 DEF Size, TryParseRoot, StatsUntil, Instr
  <2> QED BY <1>4, <1>5, <2>3, <2>5 DEF Callees
<1> QED BY <1>3, <1>5

LEMMA NextReported == IInv /\ Rooted /\ Reported /\ [Next]_vars => Reported'
<1> SUFFICES ASSUME IInv, Rooted, Reported, [Next]_vars PROVE Reported'
  OBVIOUS
<1>1. /\ stack \in Seq(Frame) /\ Len(stack) \in Nat
      /\ ErrCount \in Nat /\ HasErrors \in BOOLEAN
  BY DEF IInv, TypeOK
<1>2. ASSUME ctl' # "null", HasErrors' = HasErrors, ErrCount' \in {ErrCount, ErrCount + 1}
      PROVE  Reported'
  BY <1>1, <1>2 DEF Reported
<1>3. ASSUME HasErrors' = HasErrors, ErrCount' = ErrCount + 1
      PROVE  Reported'
  <2>1. ErrCount' > 0
    BY <1>1, <1>3
  <2> QED BY <2>1 DEF Reported
<1>4. ASSUME stack # <<>>, Top.pc <= Size(Top.fn), Ins.do # "stats",
             Ins.do \in {"first", "eat"} => Ins.miss = "quiet",
             Return("null", Null), UNCHANGED <<HasErrors, ErrCount>>
      PROVE  Reported'
  <2>1. Len(stack) > 1 /\ stack[Len(stack) - 1].fn # "Root"
    BY <1>4, QuietLemma
  <2>2. /\ Len(stack') = Len(stack) - 1
        /\ stack'[Len(stack')] = stack[Len(stack) - 1]
    BY <1>1, <1>4, <2>1 DEF Return
  <2>3. stack' # <<>> /\ Top'.fn # "Root"
    BY <1>1, <2>1, <2>2 DEF Top
  <2> QED BY <1>4, <2>3 DEF Reported
<1>5. ASSUME stack # <<>>, Top.pc <= Size(Top.fn), Ins.do # "stats",
             GiveUp(Ins.miss), UNCHANGED HasErrors
      PROVE  Reported'
  <2>1. CASE Ins.miss = "quiet"
    BY <1>4, <1>5, <2>1 DEF GiveUp
  <2>2. CASE Ins.miss # "quiet"
    BY <1>2, <1>3, <1>5, <2>2 DEF GiveUp, SYNTAX_ERR
  <2> QED BY <2>1, <2>2
<1>6. ASSUME stack # <<>>, ctl \in {"node", "null"} PROVE Top.pc <= Size(Top.fn)
  BY <1>6 DEF IInv, Returned, Waiting
<1>7. CASE TokenMiss
  BY <1>5, <1>7 DEF TokenMiss, Running
<1>8. CASE SubNull
  BY <1>5, <1>6, <1>8 DEF SubNull, Resumed
<1>9. CASE NoneLeft
  BY <1>5, <1>9 DEF NoneLeft, Running
<1>10. CASE ListItem
  BY <1>2, <1>3, <1>10 DEF ListItem, SYNTAX_ERR, Resumed
<1>11. CASE EndOfBody
  BY <1>1, <1>11 DEF EndOfBody, Reported, Return
<1>12. CASE StatsNull
  BY <1>1, <1>12 DEF StatsNull, Reported, Resumed
<1>13. CASE TokenHit \/ OptMiss \/ Branch \/ CallSub \/ SubNode \/ TryNext
  BY <1>2, <1>13 DEF TokenHit, OptMiss, Branch, CallSub, SubNode, TryNext, Call,
                     Running
<1>14. CASE FirstNode \/ FirstNull \/ StatsNode \/ Overrun \/ ClimbNode
  BY <1>2, <1>14 DEF FirstNode, FirstNull, StatsNode, Overrun, ClimbNode
<1>15. CASE StatsHead \/ ListHead \/ ClimbHead
  BY <1>2, <1>15 DEF StatsHead, ListHead, ClimbHead, Call, Running
<1>16. CASE UNCHANGED vars
  BY <1>16 DEF vars, Reported, Top
<1> QED
  BY <1>7, <1>8, <1>9, <1>10, <1>11, <1>12, <1>13, <1>14, <1>15, <1>16 DEF Next, Halt

(* RejectionIsReported for every token string: whenever Parse returns NULL *)
(* and main stops the compilation, there is an error to show.              *)
THEOREM RejectionsAreReported == Spec => []RejectionIsReported
<1>1. Init => Rooted /\ Reported
  BY DEF Init, Rooted, Reported, Enter
<1>2. IInv /\ Reported => RejectionIsReported
  BY DEF Reported, RejectionIsReported
<1> QED BY InitIInv, NextIInv, NextRooted, NextReported, <1>1, <1>2, PTL DEF Spec

-----------------------------------------------------------------------------
(* Where an expression may run out of tokens.  The functions of            *)
(* expressions call each other only and never consume a semicolon, and     *)
(* TryParseExpr is called after another token than a semicolon.            *)
ExprFunctions ==
  {"Expr", "Interval", "Asgn", "Call", "BinExpr", "Term", "NumLit", "Ident"}

ExprFact(f, pc) ==
  LET ins == Body[f][pc]
  IN  /\ f \in ExprFunctions =>
           /\ ins.do \in {"eat", "take", "opt", "fork"} => ins.arg[1] # "SEMI"
           /\ Callees(f, pc) \subseteq ExprFunctions
           /\ ins.do # "stats" /\ ins.miss # "skip"
      /\ ins.miss = "errorAt" => f = "Expr"
      /\ "Expr" \in Callees(f, pc) =>
           /\ pc > 1 /\ ~Leading(f, pc)
           /\ f \notin ExprFunctions =>
                /\ ins.do = "call" /\ Body[f][pc - 1].do = "eat"
                /\ Body[f][pc - 1].arg[1] # "SEMI"

(* Every call above one of an expression's functions is of one too; none   *)
(* has consumed a semicolon, and none is what TryParseExpr was called after.*)
Unbroken ==
  \A k \in 1 .. Len(stack) :
    /\ stack[k].fn \in ExprFunctions =>
         /\ \A j \in k .. Len(stack) : stack[j].fn \in ExprFunctions
         /\ \A i \in stack[k].at + 1 .. TokenIndex : Tokens[i] # "SEMI"
    /\ stack[k].fn = "Expr" => stack[k].at > 0 /\ Tokens[stack[k].at] # "SEMI"

(* A function of a statement that is about to call TryParseExpr has         *)
(* consumed a token that is not a semicolon just before.                    *)
Ready ==
  (/\ stack # <<>> /\ ctl = "run" /\ Top.pc <= Size(Top.fn)
   /\ Top.fn \notin ExprFunctions /\ "Expr" \in Callees(Top.fn, Top.pc))
  => TokenIndex > 0 /\ Tokens[TokenIndex] # "SEMI"

LEMMA ExprBody ==
  \A f \in Functions : \A pc \in 1 .. Size(f) : ExprFact(f, pc)
<1> SUFFICES ASSUME NEW f \in Functions, NEW pc \in 1 .. Size(f)
             PROVE  ExprFact(f, pc)
  OBVIOUS
<1>1. Functions = {"While", "FunDef", "FunDecl", "Call", "NumLit", "Ident",
                   "Term", "BinExpr", "Expr", "Interval", "Asgn", "VarDef",
                   "Decl", "Scope", "If", "For", "Exit", "Stmt", "Root"}
  BY DEF Functions, Body
<1> USE DEF Size, ExprFact, ExprFunctions, Callees, Leading, Instr, Eat, Need, Take,
            Opt, Try, Must, First, ListOf, StatsUntil, Fork, Climb
<1>2. CASE f = "While"
  <2>1. Body[f] = TryParseWhile
    BY <1>2 DEF Body
  <2> QED BY <1>2, <2>1 DEF TryParseWhile
<1>3. CASE f = "FunDef"
  <2>1. Body[f] = TryParseFunDef
    BY <1>3 DEF Body
  <2> QED BY <1>3, <2>1 DEF TryParseFunDef
<1>4. CASE f = "FunDecl"
  <2>1. Body[f] = TryParseFunDecl
    BY <1>4 DEF Body
  <2> QED BY <1>4, <2>1 DEF TryParseFunDecl
<1>5. CASE f = "Call"
  <2>1. Body[f] = TryParseCall
    BY <1>5 DEF Body
  <2> QED BY <1>5, <2>1 DEF TryParseCall
<1>6. CASE f = "NumLit"
  <2>1. Body[f] = TryParseNumLit
    BY <1>6 DEF Body
  <2> QED BY <1>6, <2>1 DEF TryParseNumLit
<1>7. CASE f = "Ident"
  <2>1. Body[f] = TryParseIdent
    BY <1>7 DEF Body
  <2> QED BY <1>7, <2>1 DEF TryParseIdent
<1>8. CASE f = "Term"
  <2>1. Body[f] = TryParseTerm
    BY <1>8 DEF Body
  <2> QED BY <1>8, <2>1 DEF TryParseTerm
<1>9. CASE f = "BinExpr"
  <2>1. Body[f] = TryParseBinExpr
    BY <1>9 DEF Body
  <2> QED BY <1>9, <2>1 DEF TryParseBinExpr
<1>10. CASE f = "Expr"
  <2>1. Body[f] = TryParseExpr
    BY <1>10 DEF Body
  <2>2. /\ pc = 1 /\ Body[f][1].do = "first" /\ Body[f][1].miss = "errorAt"
        /\ Body[f][1].arg = <<"Interval", "Asgn", "Call", "BinExpr">>
    BY <2>1 DEF TryParseExpr
  <2>3. Callees(f, 1) = {"Interval", "Asgn", "Call", "BinExpr"}
    BY <2>2
  <2> HIDE DEF Callees
  <2> QED BY <1>10, <2>2, <2>3
<1>11. CASE f = "Interval"
  <2>1. Body[f] = TryParseInterval
    BY <1>11 DEF Body
  <2> QED BY <1>11, <2>1 DEF TryParseInterval
<1>12. CASE f = "Asgn"
  <2>1. Body[f] = TryParseAsgn
    BY <1>12 DEF Body
  <2> QED BY <1>12, <2>1 DEF TryParseAsgn
<1>13. CASE f = "VarDef"
  <2>1. Body[f] = TryParseVarDef
    BY <1>13 DEF Body
  <2> QED BY <1>13, <2>1 DEF TryParseVarDef
<1>14. CASE f = "Decl"
  <2>1. Body[f] = TryParseDecl
    BY <1>14 DEF Body
  <2> QED BY <1>14, <2>1 DEF TryParseDecl
<1>15. CASE f = "Scope"
  <2>1. Body[f] = TryParseScope
    BY <1>15 DEF Body
  <2> QED BY <1>15, <2>1 DEF TryParseScope
<1>16. CASE f = "If"
  <2>1. Body[f] = TryParseIf
    BY <1>16 DEF Body
  <2> QED BY <1>16, <2>1 DEF TryParseIf
<1>17. CASE f = "For"
  <2>1. Body[f] = TryParseFor
    BY <1>17 DEF Body
  <2> QED BY <1>17, <2>1 DEF TryParseFor
<1>18. CASE f = "Exit"
  <2>1. Body[f] = TryParseExit
    BY <1>18 DEF Body
  <2> QED BY <1>18, <2>1 DEF TryParseExit
<1>19. CASE f = "Stmt"
  <2>1. Body[f] = TryParseStmt
    BY <1>19 DEF Body
  <2>2. /\ Size(f) = 2
        /\ Body[f][1].do = "first" /\ Body[f][1].miss = "skip"
        /\ Body[f][1].arg = <<"For", "VarDef", "If", "While", "Scope", "Exit",
                              "Asgn", "Decl", "FunDef", "FunDecl", "Call">>
        /\ Body[f][2].do = "eat" /\ Body[f][2].miss = "error"
    BY <2>1 DEF TryParseStmt
  <2>3. Callees(f, 1) = {"For", "VarDef", "If", "While", "Scope", "Exit",
                         "Asgn", "Decl", "FunDef", "FunDecl", "Call"}
    BY <2>2
  <2>4. pc \in {1, 2} /\ Callees(f, 2) = {}
    BY <2>2
  <2> HIDE DEF Callees, Size
  <2> QED BY <1>19, <2>2, <2>3, <2>4
<1>20. CASE f = "Root"
  <2>1. Body[f] = TryParseRoot
    BY <1>20 DEF Body
  <2> QED BY <1>20, <2>1 DEF TryParseRoot
<1> QED BY <1>1, <1>2, <1>3, <1>4, <1>5, <1>6, <1>7, <1>8, <1>9, <1>10, <1>11,
           <1>12, <1>13, <1>14, <1>15, <1>16, <1>17, <1>18, <1>19, <1>20

(* The calls that stay keep what Unbroken says of them, and a call that is *)
(* added gets it, as long as an expression consumes no semicolon.          *)
LEMMA UnbrokenStep ==
  ASSUME IInv, Unbroken, stack # <<>>, Tokens' = Tokens,
         TokenIndex' \in TokenIndex .. Len(Tokens),
         Top.fn \in ExprFunctions =>
           \A i \in TokenIndex + 1 .. TokenIndex' : Tokens[i] # "SEMI",
         Len(stack') \in Nat,
         \A k \in 1 .. Len(stack') :
           \/ /\ k \in 1 .. Len(stack)
              /\ stack'[k].fn = stack[k].fn /\ stack'[k].at = stack[k].at
           \/ /\ k = Len(stack) + 1 /\ stack'[k].at = TokenIndex'
              /\ Top.fn \in ExprFunctions => stack'[k].fn \in ExprFunctions
              /\ stack'[k].fn = "Expr"
                   => TokenIndex' > 0 /\ Tokens[TokenIndex'] # "SEMI"
  PROVE  Unbroken'
<1>1. /\ TokenIndex \in Nat /\ TokenIndex' \in Nat /\ TokenIndex <= TokenIndex'
      /\ stack \in Seq(Frame) /\ Len(stack) \in Nat \ {0} /\ Len(Tokens) \in Nat
  BY DEF IInv, TypeOK
<1> SUFFICES ASSUME NEW k \in 1 .. Len(stack')
             PROVE  /\ stack'[k].fn \in ExprFunctions =>
                         /\ \A j \in k .. Len(stack') :
                              stack'[j].fn \in ExprFunctions
                         /\ \A i \in stack'[k].at + 1 .. TokenIndex' :
                              Tokens[i] # "SEMI"
                    /\ stack'[k].fn = "Expr" =>
                         stack'[k].at > 0 /\ Tokens[stack'[k].at] # "SEMI"
  BY DEF Unbroken
<1>2. CASE k = Len(stack) + 1
  <2>1. /\ stack'[k].at = TokenIndex'
        /\ stack'[k].fn = "Expr"
             => TokenIndex' > 0 /\ Tokens[TokenIndex'] # "SEMI"
        /\ \A j \in k .. Len(stack') : j = k
    BY <1>1, <1>2
  <2> QED BY <1>1, <2>1
<1>3. CASE k \in 1 .. Len(stack)
  <2>1. /\ stack'[k].fn = stack[k].fn /\ stack'[k].at = stack[k].at
        /\ stack[k].at \in Nat
    <3>1. stack[k] \in Frame /\ k # Len(stack) + 1
      BY <1>1, <1>3
    <3> QED BY <3>1 DEF Frame
  <2>2. ASSUME stack[k].fn \in ExprFunctions
        PROVE  /\ \A i \in stack[k].at + 1 .. TokenIndex' : Tokens[i] # "SEMI"
               /\ \A j \in k .. Len(stack) : stack[j].fn \in ExprFunctions
               /\ Top.fn \in ExprFunctions
    <3>1. /\ \A j \in k .. Len(stack) : stack[j].fn \in ExprFunctions
          /\ \A i \in stack[k].at + 1 .. TokenIndex : Tokens[i] # "SEMI"
      BY <1>3, <2>2 DEF Unbroken
    <3>2. Top.fn \in ExprFunctions
      BY <1>1, <1>3, <3>1 DEF Top
    <3> QED BY <1>1, <2>1, <3>1, <3>2
  <2>3. ASSUME stack[k].fn \in ExprFunctions, NEW j \in k .. Len(stack')
        PROVE  stack'[j].fn \in ExprFunctions
    <3>1. j \in 1 .. Len(stack')
      BY <1>1, <1>3
    <3>2. CASE j = Len(stack) + 1
      BY <1>1, <2>2, <2>3, <3>1, <3>2
    <3>3. CASE j \in 1 .. Len(stack)
      <4>1. stack'[j].fn = stack[j].fn
        BY <1>1, <3>1, <3>3
      <4> QED BY <1>1, <2>2, <2>3, <3>3, <4>1
    <3> QED BY <3>1, <3>2, <3>3
  <2>4. stack[k].fn = "Expr" => stack[k].at > 0 /\ Tokens[stack[k].at] # "SEMI"
    BY <1>3 DEF Unbroken
  <2> QED BY <2>1, <2>2, <2>3, <2>4
<1> QED BY <1>1, <1>2, <1>3

(* What a step may do to the calls, to the cursor and to the resumption.   *)
LEMMA UnbrokenGoto ==
  ASSUME IInv, Unbroken, stack # <<>>, NEW F \in Frame,
         F.fn = Top.fn, F.at = Top.at, Tokens' = Tokens,
         stack' = [stack EXCEPT ![Len(stack)] = F],
         \/ TokenIndex' = TokenIndex
         \/ /\ TokenIndex < Len(Tokens) /\ TokenIndex' = TokenIndex + 1
            /\ Top.fn \in ExprFunctions => Peek(0) # "SEMI"
  PROVE  Unbroken'
<1>1. /\ TokenIndex \in Nat /\ TokenIndex <= Len(Tokens) /\ Len(Tokens) \in Nat
      /\ stack \in Seq(Frame) /\ Len(stack) \in Nat \ {0}
  BY DEF IInv, TypeOK
<1>2. /\ Len(stack') = Len(stack)
      /\ \A k \in 1 .. Len(stack) : /\ stack'[k].fn = stack[k].fn
                                    /\ stack'[k].at = stack[k].at
  BY <1>1 DEF Top
<1>3. /\ TokenIndex' \in TokenIndex .. Len(Tokens)
      /\ Top.fn \in ExprFunctions =>
           \A i \in TokenIndex + 1 .. TokenIndex' : Tokens[i] # "SEMI"
  BY <1>1 DEF Peek
<1> QED BY <1>1, <1>2, <1>3, UnbrokenStep

LEMMA UnbrokenStays ==
  ASSUME IInv, Unbroken, stack # <<>>, UNCHANGED <<Tokens, stack>>,
         \/ TokenIndex' = TokenIndex
         \/ /\ TokenIndex < Len(Tokens) /\ TokenIndex' = TokenIndex + 1
            /\ Top.fn \in ExprFunctions => Peek(0) # "SEMI"
  PROVE  Unbroken'
<1>1. stack \in Seq(Frame) /\ Len(stack) \in Nat \ {0}
  BY DEF IInv, TypeOK
<1>2. Top \in Frame /\ stack' = [stack EXCEPT ![Len(stack)] = Top]
  BY <1>1 DEF Top
<1> QED BY <1>2, UnbrokenGoto

LEMMA UnbrokenCall ==
  ASSUME IInv, Unbroken, stack # <<>>, Tokens' = Tokens,
         NEW g, NEW min, Call(g, TokenIndex', min),
         Top.fn \in ExprFunctions => g \in ExprFunctions,
         g = "Expr" => /\ TokenIndex' > 0 /\ Tokens[TokenIndex'] # "SEMI",
         \/ TokenIndex' = TokenIndex
         \/ /\ TokenIndex < Len(Tokens) /\ TokenIndex' = TokenIndex + 1
            /\ Top.fn \in ExprFunctions => Peek(0) # "SEMI"
  PROVE  Unbroken'
<1>1. /\ TokenIndex \in Nat /\ TokenIndex <= Len(Tokens) /\ Len(Tokens) \in Nat
      /\ stack \in Seq(Frame) /\ Len(stack) \in Nat \ {0}
  BY DEF IInv, TypeOK
<1>2. /\ Len(stack') = Len(stack) + 1
      /\ \A k \in 1 .. Len(stack) : stack'[k] = stack[k]
      /\ stack'[Len(stack) + 1].fn = g
      /\ stack'[Len(stack) + 1].at = TokenIndex'
  BY <1>1 DEF Call, Enter
<1>3. /\ TokenIndex' \in TokenIndex .. Len(Tokens)
      /\ Top.fn \in ExprFunctions =>
           \A i \in TokenIndex + 1 .. TokenIndex' : Tokens[i] # "SEMI"
  BY <1>1 DEF Peek
<1> QED BY <1>1, <1>2, <1>3, UnbrokenStep

LEMMA UnbrokenReturn ==
  ASSUME IInv, Unbroken, stack # <<>>, Tokens' = Tokens,
         NEW c, NEW n, Return(c, n),
         TokenIndex' \in TokenIndex .. Len(Tokens),
         TokenIndex' = TokenIndex \/ Top.fn \notin ExprFunctions
  PROVE  Unbroken'
<1>1. /\ TokenIndex \in Nat /\ Len(Tokens) \in Nat
      /\ stack \in Seq(Frame) /\ Len(stack) \in Nat \ {0}
  BY DEF IInv, TypeOK
<1>2. Len(stack') = Len(stack) - 1 /\ Len(stack') \in Nat
  <2>1. stack' = SubSeq(stack, 1, Len(stack) - 1)
    BY DEF Return
  <2>2. CASE Len(stack) = 1
    BY <2>1, <2>2
  <2>3. CASE Len(stack) > 1
    BY <1>1, <2>1, <2>3
  <2>4. \A m \in Nat \ {0} : m = 1 \/ m > 1
    OBVIOUS
  <2> QED BY <1>1, <2>2, <2>3, <2>4, Zenon
<1>3. ASSUME NEW k \in 1 .. Len(stack')
      PROVE  k \in 1 .. Len(stack) /\ stack'[k] = stack[k]
  <2>1. k \in 1 .. (Len(stack) - 1) - 1 + 1 /\ 1 + k - 1 = k
    BY <1>1, <1>2
  <2>2. stack' = SubSeq(stack, 1, Len(stack) - 1)
    BY DEF Return
  <2> QED BY <1>1, <2>1, <2>2
<1>4. \A i \in TokenIndex + 1 .. TokenIndex : Tokens[i] # "SEMI"
  BY <1>1
<1> QED BY <1>1, <1>2, <1>3, <1>4, UnbrokenStep

(* So has one of an expression: it is past its first token.                *)
LEMMA ReadyLemma ==
  ASSUME IInv, Unbroken, Ready, stack # <<>>, ctl = "run",
         Top.pc <= Size(Top.fn), "Expr" \in Callees(Top.fn, Top.pc)
  PROVE  TokenIndex > 0 /\ Tokens[TokenIndex] # "SEMI"
<1>1. CASE Top.fn \notin ExprFunctions
  BY <1>1 DEF Ready
<1>2. CASE Top.fn \in ExprFunctions
  <2>1. Top \in Frame /\ Len(stack) \in Nat \ {0}
    BY TopLemma
  <2>2. ExprFact(Top.fn, Top.pc)
    BY <2>1, ExprBody DEF Frame
  <2>3. "Root" \notin ExprFunctions /\ ~Leading(Top.fn, Top.pc)
    BY <2>2 DEF ExprFact, ExprFunctions
  <2>4. Top.at < TokenIndex /\ Top.at \in Nat /\ TokenIndex \in Nat
    BY <1>2, <2>1, <2>3, TopLemma DEF Frame, IInv, TypeOK
  <2>5. \A i \in Top.at + 1 .. TokenIndex : Tokens[i] # "SEMI"
    BY <1>2, <2>1 DEF Unbroken, Top
  <2> QED BY <2>4, <2>5
<1> QED BY <1>1, <1>2

LEMMA NextUnbroken == IInv /\ Unbroken /\ Ready /\ [Next]_vars => Unbroken'
<1> SUFFICES ASSUME IInv, Unbroken, Ready, [Next]_vars PROVE Unbroken'
  OBVIOUS
<1>1. /\ stack \in Seq(Frame) /\ Len(stack) \in Nat
      /\ TokenIndex \in Nat /\ TokenIndex <= Len(Tokens) /\ Len(Tokens) \in Nat
  BY DEF IInv, TypeOK
<1>2. ASSUME stack # <<>>
      PROVE  /\ Top \in Frame /\ Len(stack) \in Nat \ {0} /\ Size(Top.fn) \in 1 .. 6
             /\ Top.pc <= Size(Top.fn) =>
                  BodyFact(Top.fn, Top.pc) /\ ExprFact(Top.fn, Top.pc)
             /\ ctl \in {"node", "null"} => Top.pc <= Size(Top.fn)
  BY <1>2, TopLemma, ExprBody DEF Frame, IInv, Returned, Waiting
<1>3. Peek(0) # "end" => TokenIndex < Len(Tokens)
  BY <1>1 DEF Peek
<1>4. ASSUME stack # <<>>, NEW pc \in 1 .. 7, Goto(pc), Tokens' = Tokens,
             \/ TokenIndex' = TokenIndex
             \/ /\ TokenIndex < Len(Tokens) /\ TokenIndex' = TokenIndex + 1
                /\ Top.fn \in ExprFunctions => Peek(0) # "SEMI"
      PROVE  Unbroken'
  <2> DEFINE F == [Top EXCEPT !.pc = pc]
  <2>1. F \in Frame /\ F.fn = Top.fn /\ F.at = Top.at
    BY <1>2, <1>4 DEF Frame
  <2>2. stack' = [stack EXCEPT ![Len(stack)] = F]
    BY <1>4 DEF Goto, Top
  <2> HIDE DEF F
  <2> QED BY <1>4, <2>1, <2>2, UnbrokenGoto
<1>5. ASSUME stack # <<>>, Top.pc <= Size(Top.fn), ctl = "run",
             NEW g \in Callees(Top.fn, Top.pc), NEW min, Call(g, TokenIndex', min),
             UNCHANGED <<Tokens, TokenIndex>>
      PROVE  Unbroken'
  <2>1. Top.fn \in ExprFunctions => g \in ExprFunctions
    BY <1>2, <1>5 DEF ExprFact
  <2>2. g = "Expr" => TokenIndex > 0 /\ Tokens[TokenIndex] # "SEMI"
    <3>1. SUFFICES ASSUME g = "Expr"
                   PROVE  TokenIndex > 0 /\ Tokens[TokenIndex] # "SEMI"
      OBVIOUS
    <3> QED BY <1>5, <3>1, ReadyLemma
  <2> QED BY <1>5, <2>1, <2>2, UnbrokenCall
<1>6. ASSUME stack # <<>>, Top.pc <= Size(Top.fn), GiveUp(Ins.miss),
             Tokens' = Tokens
      PROVE  Unbroken'
  <2>1. Ins.miss = "skip" => Top.fn \notin ExprFunctions
    BY <1>2, <1>6 DEF ExprFact, Ins
  <2>2. CASE Return("null", Null) /\ UNCHANGED TokenIndex
    BY <1>1, <1>6, <2>2, UnbrokenReturn
  <2>3. CASE UNCHANGED <<TokenIndex, stack>>
    BY <1>6, <2>3, UnbrokenStays
  <2>4. CASE Ins.miss = "skip" /\ Resync /\ Return("null", Null)
    <3>1. TokenIndex' \in TokenIndex .. Len(Tokens)
      BY <2>4 DEF Resync
    <3> QED BY <1>6, <2>1, <2>4, <3>1, UnbrokenReturn
  <2> QED BY <1>6, <2>2, <2>3, <2>4 DEF GiveUp
<1>7. CASE TokenHit
  <2>1. /\ stack # <<>> /\ Top.pc <= Size(Top.fn) /\ Goto(Top.pc + 1)
        /\ Ins.do \in {"eat", "take", "opt"} /\ Peek(0) = Ins.arg[1]
        /\ TokenIndex' = TokenIndex + 1 /\ Tokens' = Tokens
    BY <1>7 DEF TokenHit, Running, Consume, At
  <2>2. Peek(0) # "end" /\ (Top.fn \in ExprFunctions => Peek(0) # "SEMI")
    BY <1>2, <2>1 DEF BodyFact, ExprFact, Ins
  <2>3. Top.pc + 1 \in 1 .. 7
    BY <1>2, <2>1 DEF Frame
  <2> QED BY <1>3, <1>4, <2>1, <2>2, <2>3
<1>8. CASE Branch
  <2>1. /\ stack # <<>> /\ Top.pc <= Size(Top.fn) /\ Ins.do = "fork"
        /\ Tokens' = Tokens
    BY <1>8 DEF Branch, Running
  <2>2. /\ Top.fn = "BinExpr" /\ Top.pc = 1 /\ Ins.arg[1] # "end"
        /\ Top.fn \in ExprFunctions => Ins.arg[1] # "SEMI"
    BY <1>2, <2>1 DEF BodyFact, ExprFact, Ins
  <2>3. Top.pc + 3 \in 1 .. 7 /\ Top.pc + 1 \in 1 .. 7
    BY <2>2
  <2>4. CASE At(Ins.arg[1]) /\ Consume /\ Goto(Top.pc + 3)
    BY <1>3, <1>4, <2>1, <2>2, <2>3, <2>4 DEF At, Consume
  <2>5. CASE Goto(Top.pc + 1) /\ UNCHANGED TokenIndex
    BY <1>4, <2>1, <2>3, <2>5
  <2> QED BY <1>8, <2>4, <2>5 DEF Branch
<1>9. CASE OptMiss \/ SubNode \/ FirstNode
  <2>1. /\ stack # <<>> /\ Top.pc <= Size(Top.fn) /\ Goto(Top.pc + 1)
        /\ TokenIndex' = TokenIndex /\ Tokens' = Tokens
    BY <1>2, <1>9 DEF OptMiss, SubNode, FirstNode, Running, Resumed
  <2>2. Top.pc + 1 \in 1 .. 7
    BY <1>2, <2>1 DEF Frame
  <2> QED BY <1>4, <2>1, <2>2
<1>10. CASE CallSub
  <2>1. /\ stack # <<>> /\ Top.pc <= Size(Top.fn) /\ ctl = "run"
        /\ Ins.do = "call" /\ Call(Ins.arg[1], TokenIndex, 0)
        /\ UNCHANGED <<Tokens, TokenIndex>>
    BY <1>10 DEF CallSub, Running
  <2>2. Ins.arg[1] \in Callees(Top.fn, Top.pc)
    BY <2>1 DEF Callees, Ins
  <2> QED BY <1>5, <2>1, <2>2
<1>11. CASE TryNext
  <2>1. /\ stack # <<>> /\ Top.pc <= Size(Top.fn) /\ ctl = "run"
        /\ Ins.do = "first" /\ Call(Ins.arg[Top.alt], TokenIndex, 0)
        /\ Top.alt <= Len(Ins.arg) /\ UNCHANGED <<Tokens, TokenIndex>>
    BY <1>11 DEF TryNext, Running
  <2>2. Top.alt \in 1 .. Len(Ins.arg)
    BY <1>2, <2>1 DEF BodyFact, Ins, Frame
  <2>3. Ins.arg[Top.alt] \in Callees(Top.fn, Top.pc)
    BY <2>1, <2>2 DEF Callees, Ins
  <2> DEFINE g == Ins.arg[Top.alt]
  <2>4. g \in Callees(Top.fn, Top.pc) /\ Call(g, TokenIndex', 0)
    BY <2>1, <2>3
  <2> HIDE DEF g
  <2> QED BY <1>5, <2>1, <2>4
<1>12. CASE TokenMiss \/ SubNull \/ NoneLeft
  <2>1. /\ stack # <<>> /\ Top.pc <= Size(Top.fn) /\ GiveUp(Ins.miss)
        /\ Tokens' = Tokens
    BY <1>2, <1>12 DEF TokenMiss, SubNull, NoneLeft, Running, Resumed
  <2> QED BY <1>6, <2>1
<1>13. CASE FirstNull
  <2> DEFINE F == [Top EXCEPT !.alt = @ + 1]
  <2>1. /\ stack # <<>> /\ Top.pc <= Size(Top.fn) /\ Ins.do = "first"
        /\ stack' = [stack EXCEPT ![Len(stack)] = F]
        /\ UNCHANGED <<Tokens, TokenIndex>>
    BY <1>2, <1>13 DEF FirstNull, Resumed, Top
  <2>2. F \in Frame /\ F.fn = Top.fn /\ F.at = Top.at
    <3>1. Len(Ins.arg) \in 1 .. 11 /\ Top.alt <= Len(Ins.arg) /\ Top \in Frame
      BY <1>2, <1>13, <2>1 DEF BodyFact, Ins, IInv, Returned, Waiting,
                               FirstNull, Resumed
    <3>2. \A a \in 1 .. 12, n \in 1 .. 11 : a <= n => a + 1 \in 1 .. 12
      OBVIOUS
    <3>3. Top.alt \in 1 .. 12
      BY <3>1 DEF Frame
    <3>4. Top.alt + 1 \in 1 .. 12
      BY <3>1, <3>2, <3>3, Zenon
    <3> QED BY <3>1, <3>4 DEF Frame
  <2> HIDE DEF F
  <2> QED BY <2>1, <2>2, UnbrokenGoto
<1>14. CASE StatsHead
  <2>1. /\ stack # <<>> /\ Top.pc <= Size(Top.fn) /\ ctl = "run"
        /\ Ins.do = "stats" /\ UNCHANGED <<Tokens, TokenIndex>>
    BY <1>14 DEF StatsHead, Running
  <2>2. CASE Goto(Top.pc + 1)
    <3>1. Top.pc + 1 \in 1 .. 7
      BY <1>2, <2>1 DEF Frame
    <3> QED BY <1>4, <2>1, <2>2, <3>1
  <2>3. CASE Call("Stmt", TokenIndex, 0)
    <3>1. "Stmt" \in Callees(Top.fn, Top.pc)
      BY <2>1 DEF Callees, Ins
    <3> QED BY <1>5, <2>1, <2>3, <3>1
  <2>4. CASE UNCHANGED stack
    BY <2>1, <2>4, UnbrokenStays
  <2> QED BY <1>14, <2>2, <2>3, <2>4 DEF StatsHead
<1>15. CASE StatsNode \/ StatsNull \/ Overrun \/ ClimbNode
  BY <1>15, UnbrokenStays DEF StatsNode, StatsNull, Overrun, ClimbNode, Resumed
<1>16. CASE ListHead
  <2>1. /\ stack # <<>> /\ Top.pc <= Size(Top.fn) /\ ctl = "run"
        /\ Ins.do = "list" /\ Tokens' = Tokens
    BY <1>16 DEF ListHead, Running
  <2>2. CASE At("RPAREN") /\ Consume /\ Goto(Top.pc + 1)
    <3>1. Top.pc + 1 \in 1 .. 7
      BY <1>2, <2>1 DEF Frame
    <3> QED BY <1>3, <1>4, <2>1, <2>2, <3>1 DEF At, Consume
  <2>3. CASE Call(Ins.arg[1], TokenIndex, 0) /\ UNCHANGED TokenIndex
    <3>1. Ins.arg[1] \in Callees(Top.fn, Top.pc)
      BY <2>1 DEF Callees, Ins
    <3> QED BY <1>5, <2>1, <2>3, <3>1
  <2> QED BY <1>16, <2>2, <2>3 DEF ListHead
<1>17. CASE ListItem
  <2>1. stack # <<>> /\ Tokens' = Tokens
    BY <1>17 DEF ListItem, Resumed
  <2>2. CASE At("COMMA") /\ Consume /\ UNCHANGED stack
    BY <1>3, <2>1, <2>2, UnbrokenStays DEF At, Consume
  <2>3. CASE UNCHANGED <<TokenIndex, stack>>
    BY <2>1, <2>3, UnbrokenStays
  <2>4. CASE Return("null", Null) /\ UNCHANGED TokenIndex
    BY <1>1, <2>1, <2>4, UnbrokenReturn
  <2> QED BY <1>17, <2>2, <2>3, <2>4 DEF ListItem
<1>18. CASE ClimbHead
  <2>1. /\ stack # <<>> /\ Top.pc <= Size(Top.fn) /\ ctl = "run"
        /\ Ins.do = "climb" /\ Tokens' = Tokens
    BY <1>18 DEF ClimbHead, Running
  <2>2. CASE /\ Peek(0) \in Operators /\ Consume
             /\ Call("BinExpr", TokenIndex + 1, NextMinPrec(Peek(0)))
    <3>1. /\ TokenIndex < Len(Tokens) /\ TokenIndex' = TokenIndex + 1
          /\ Peek(0) # "SEMI"
      BY <1>3, <2>2 DEF Consume, Operators
    <3>2. Call("BinExpr", TokenIndex', NextMinPrec(Peek(0)))
      BY <2>2, <3>1
    <3>3. "BinExpr" \in ExprFunctions
      BY DEF ExprFunctions
    <3> QED BY <2>1, <3>1, <3>2, <3>3, UnbrokenCall
  <2>3. CASE Goto(Size(Top.fn) + 1) /\ UNCHANGED TokenIndex
    <3>1. Size(Top.fn) + 1 \in 1 .. 7
      BY <1>2, <2>1
    <3> QED BY <1>4, <2>1, <2>3, <3>1
  <2> QED BY <1>18, <2>2, <2>3 DEF ClimbHead
<1>19. CASE EndOfBody
  <2>1. PICK c, n : Return(c, n)
    BY <1>19 DEF EndOfBody
  <2> QED BY <1>1, <1>19, <2>1, UnbrokenReturn DEF EndOfBody
<1>20. CASE UNCHANGED vars
  BY <1>20 DEF vars, Unbroken
<1> QED
  BY <1>7, <1>8, <1>9, <1>10, <1>11, <1>12, <1>13, <1>14, <1>15, <1>16, <1>17,
     <1>18, <1>19, <1>20 DEF Next, Halt

(* A step that leads to a call of TryParseExpr consumed a token for it: no  *)
(* function calls it at once, and all but the lists have one before it.     *)
LEMMA NextReady == IInv /\ Ready /\ [Next]_vars => Ready'
<1> SUFFICES ASSUME IInv, Ready, [Next]_vars, IInv' PROVE Ready'
  BY NextIInv
<1> SUFFICES ASSUME stack' # <<>>, ctl' = "run", Top'.pc <= Size(Top'.fn),
                    Top'.fn \notin ExprFunctions,
                    "Expr" \in Callees(Top'.fn, Top'.pc)
             PROVE  TokenIndex' > 0 /\ Tokens'[TokenIndex'] # "SEMI"
  BY DEF Ready
<1>1. /\ stack \in Seq(Frame) /\ Len(stack) \in Nat
      /\ TokenIndex \in Nat /\ TokenIndex <= Len(Tokens) /\ Len(Tokens) \in Nat
      /\ stack' \in Seq(Frame) /\ Len(stack') \in Nat \ {0}
      /\ Top' = stack'[Len(stack')]
  BY DEF IInv, TypeOK, Top
<1>2. /\ Top'.pc > 1 /\ Top'.pc \in 1 .. 7
      /\ Body[Top'.fn][Top'.pc].do = "call"
      /\ Body[Top'.fn][Top'.pc - 1].do = "eat"
      /\ Body[Top'.fn][Top'.pc - 1].arg[1] # "SEMI"
  <2>1. Top' \in Frame
    BY <1>1
  <2>2. Top'.fn \in Functions /\ Top'.pc \in 1 .. 7
    BY <2>1 DEF Frame
  <2>3. Size(Top'.fn) \in 1 .. 6
    BY <2>2, BodyLemma, Zenon
  <2>4. ExprFact(Top'.fn, Top'.pc)
    BY <2>2, <2>3, ExprBody
  <2> QED BY <2>2, <2>4 DEF ExprFact
<1>3. ASSUME stack # <<>>
      PROVE  /\ Top \in Frame /\ Len(stack) \in Nat \ {0}
             /\ ctl \in {"node", "null"} => Top.pc <= Size(Top.fn)
  BY <1>3, TopLemma DEF IInv, Returned, Waiting
<1>4. ASSUME stack # <<>>, NEW pc, Goto(pc)
      PROVE  Top'.fn = Top.fn /\ Top'.pc = pc
  <2>1. Top' = [Top EXCEPT !.pc = pc]
    BY <1>1, <1>3, <1>4 DEF Goto, Top
  <2> QED BY <1>3, <1>4, <2>1 DEF Frame
<1>5. ASSUME stack # <<>>, Goto(Top.pc + 1)
      PROVE  Ins.do = "eat" /\ Ins.arg[1] # "SEMI"
  <2>1. Top'.fn = Top.fn /\ Top'.pc = Top.pc + 1
    BY <1>4, <1>5
  <2>2. Top'.pc - 1 = Top.pc
    BY <1>3, <1>5, <2>1 DEF Frame
  <2> QED BY <1>2, <2>1, <2>2 DEF Ins
<1>6. ASSUME NEW g, NEW at, NEW min, Call(g, at, min) PROVE FALSE
  <2>1. Top' = Enter(g, at, min)
    BY <1>1, <1>6 DEF Call
  <2> QED BY <1>2, <2>1 DEF Enter
<1>7. ASSUME stack # <<>>, Body[Top.fn][Top.pc].do # "call", UNCHANGED stack
      PROVE  FALSE
  BY <1>2, <1>7 DEF Top
<1>8. ASSUME NEW m, GiveUp(m) PROVE FALSE
  BY <1>8 DEF GiveUp, Return
<1>9. CASE TokenHit
  <2>1. /\ stack # <<>> /\ Goto(Top.pc + 1) /\ Peek(0) = Ins.arg[1]
        /\ Top.pc <= Size(Top.fn) /\ Ins.do \in {"eat", "take", "opt"}
        /\ TokenIndex' = TokenIndex + 1 /\ Tokens' = Tokens
    BY <1>9 DEF TokenHit, Running, Consume, At
  <2>2. Ins.arg[1] \notin {"SEMI", "end"}
    BY <1>5, <2>1, TopLemma DEF BodyFact, Ins
  <2>3. Peek(0) = Tokens[TokenIndex + 1]
    BY <1>1, <2>1, <2>2 DEF Peek
  <2> QED BY <1>1, <2>1, <2>2, <2>3
<1>10. CASE OptMiss \/ SubNode \/ FirstNode
  BY <1>5, <1>10 DEF OptMiss, SubNode, FirstNode, Running, Resumed
<1>11. CASE Branch
  <2>1. stack # <<>> /\ Ins.do = "fork" /\ Top.pc <= Size(Top.fn)
    BY <1>11 DEF Branch, Running
  <2>2. PICK pc : Goto(pc)
    BY <1>11 DEF Branch
  <2>3. Top'.fn = "BinExpr"
    BY <1>4, <2>1, <2>2, TopLemma DEF BodyFact, Ins
  <2> QED BY <2>3 DEF ExprFunctions
<1>12. CASE CallSub \/ TryNext
  BY <1>6, <1>12 DEF CallSub, TryNext
<1>13. CASE TokenMiss \/ SubNull \/ NoneLeft
  BY <1>8, <1>13 DEF TokenMiss, SubNull, NoneLeft
<1>14. CASE FirstNull
  <2>1. stack # <<>> /\ Ins.do = "first"
        /\ stack' = [stack EXCEPT ![Len(stack)] = [Top EXCEPT !.alt = @ + 1]]
    BY <1>14 DEF FirstNull, Resumed, Top
  <2>2. Top' = [Top EXCEPT !.alt = @ + 1]
    BY <1>1, <1>3, <2>1
  <2>3. Top'.fn = Top.fn /\ Top'.pc = Top.pc
    BY <1>3, <2>1, <2>2 DEF Frame
  <2> QED BY <1>2, <2>1, <2>3 DEF Ins
<1>15. CASE StatsHead
  BY <1>5, <1>6, <1>15 DEF StatsHead, Running
<1>16. CASE ListHead
  BY <1>5, <1>6, <1>16 DEF ListHead, Running
<1>17. CASE StatsNode \/ StatsNull \/ ClimbNode
  BY <1>7, <1>17 DEF StatsNode, StatsNull, ClimbNode, Resumed, Ins
<1>18. CASE ListItem
  BY <1>7, <1>18 DEF ListItem, Resumed, Ins, Return
<1>19. CASE Overrun
  BY <1>19 DEF Overrun
<1>20. CASE ClimbHead
  <2>1. stack # <<>> /\ Ins.do = "climb" /\ Top.pc <= Size(Top.fn)
    BY <1>20 DEF ClimbHead, Running
  <2>2. CASE Goto(Size(Top.fn) + 1)
    BY <1>4, <2>1, <2>2, TopLemma DEF BodyFact, Ins, ExprFunctions
  <2>3. CASE Call("BinExpr", TokenIndex + 1, NextMinPrec(Peek(0)))
    BY <1>6, <2>3
  <2> QED BY <1>20, <2>2, <2>3 DEF ClimbHead
<1>21. CASE EndOfBody
  BY <1>21 DEF EndOfBody, Return
<1>22. CASE UNCHANGED vars
  BY <1>22 DEF vars, Ready, Top
<1> QED
  BY <1>9, <1>10, <1>11, <1>12, <1>13, <1>14, <1>15, <1>16, <1>17, <1>18, <1>19,
     <1>20, <1>21, <1>22 DEF Next, Halt

(* Only three steps crash: TryParseExpr at the end of the tokens, which    *)
(* were not consumed up to a semicolon, and the two that are excepted.     *)
LEMMA NextCrash ==
  IInv /\ Unbroken /\ CrashOnlyIfUnterminated /\ [Next]_vars
    => CrashOnlyIfUnterminated'
<1> SUFFICES ASSUME IInv, Unbroken, CrashOnlyIfUnterminated, [Next]_vars,
                    ctl' = "crash", Tokens' # <<>>,
                    Tokens'[Len(Tokens')] = "SEMI"
             PROVE  Ins'.do = "list" \/ ArrayFull'
  BY DEF CrashOnlyIfUnterminated
<1>1. /\ stack \in Seq(Frame) /\ Len(stack) \in Nat
      /\ TokenIndex \in Nat /\ TokenIndex <= Len(Tokens) /\ Len(Tokens) \in Nat
  BY DEF IInv, TypeOK
<1>2. ASSUME stack # <<>>, Top.pc <= Size(Top.fn), GiveUp(Ins.miss), Tokens' = Tokens
      PROVE  FALSE
  <2>1. Ins.miss = "errorAt" /\ At("end")
    BY <1>2 DEF GiveUp, Return
  <2>2. Top \in Frame /\ Len(stack) \in Nat \ {0} /\ Top.at \in Nat
        /\ Top.at <= TokenIndex
    BY <1>2, TopLemma DEF Frame
  <2>3. Top.fn = "Expr"
    <3>1. ExprFact(Top.fn, Top.pc)
      BY <1>2, <2>2, ExprBody DEF Frame
    <3> QED BY <2>1, <3>1 DEF ExprFact, Ins
  <2>4. /\ \A i \in Top.at + 1 .. TokenIndex : Tokens[i] # "SEMI"
        /\ Top.at > 0 /\ Tokens[Top.at] # "SEMI"
    BY <2>2, <2>3 DEF Unbroken, Top, ExprFunctions
  <2>5. Tokens[TokenIndex] # "SEMI"
    BY <1>1, <2>2, <2>4
  <2>6. TokenIndex = Len(Tokens)
    <3>1. ASSUME TokenIndex < Len(Tokens) PROVE FALSE
      <4>1. Peek(0) = Tokens[TokenIndex + 1] /\ Tokens[TokenIndex + 1] \in Kinds
        BY <1>1, <3>1 DEF Peek, IInv, TypeOK
      <4>2. "end" \notin Kinds
        BY DEF Kinds, Operators, Specials, Keywords
      <4> QED BY <2>1, <4>1, <4>2 DEF At
    <3> QED BY <1>1, <3>1
  <2> QED BY <1>2, <2>5, <2>6
<1>3. CASE TokenMiss \/ SubNull \/ NoneLeft
  <2>1. /\ stack # <<>> /\ Top.pc <= Size(Top.fn) /\ GiveUp(Ins.miss)
        /\ Tokens' = Tokens
    BY <1>3 DEF TokenMiss, SubNull, NoneLeft, Running, Resumed, IInv, Returned,
                Waiting
  <2> QED BY <1>2, <2>1
<1>4. CASE ListItem
  BY <1>4 DEF ListItem, Resumed, Ins, Top, Return
<1>5. CASE Overrun
  BY <1>5 DEF Overrun, ArrayFull, Ins, Top
<1>6. CASE TokenHit \/ OptMiss \/ Branch
  BY <1>6 DEF TokenHit, OptMiss, Branch, Running
<1>7. CASE CallSub \/ SubNode \/ TryNext \/ FirstNode \/ FirstNull
  BY <1>7 DEF CallSub, SubNode, TryNext, FirstNode, FirstNull, Call
<1>8. CASE StatsHead \/ StatsNode \/ StatsNull
  BY <1>8 DEF StatsHead, StatsNode, StatsNull, Call, Running
<1>9. CASE ListHead \/ ClimbHead \/ ClimbNode \/ EndOfBody
  BY <1>9 DEF ListHead, ClimbHead, ClimbNode, EndOfBody, Call, Return, Running
<1>10. CASE UNCHANGED vars
  BY <1>10 DEF vars, CrashOnlyIfUnterminated, ArrayFull, Ins, Top
<1> QED
  BY <1>3, <1>4, <1>5, <1>6, <1>7, <1>8, <1>9, <1>10 DEF Next, Halt

(* CrashOnlyIfUnterminated for every token string: of a program that ends  *)
(* in a semicolon no token is asked for past the end but by the argument   *)
(* loops.                                                                  *)
THEOREM CrashesAreUnterminated == Spec => []CrashOnlyIfUnterminated
<1>1. Init => Unbroken /\ Ready /\ CrashOnlyIfUnterminated
  <2>1. SUFFICES ASSUME Init PROVE Unbroken /\ Ready /\ CrashOnlyIfUnterminated
    OBVIOUS
  <2>2. /\ Len(stack) = 1 /\ stack[1].fn = "Root" /\ Top.fn = "Root"
        /\ Top.pc = 1 /\ ctl = "run"
    BY <2>1 DEF Init, Enter, Top
  <2>3. "Root" \notin ExprFunctions /\ "Expr" \notin Callees("Root", 1)
    <3>1. Body["Root"] = TryParseRoot
      BY DEF Body
    <3> QED BY <3>1 DEF ExprFunctions, Callees, TryParseRoot, StatsUntil, Instr
  <2>4. Unbroken
    <3>1. \A k \in 1 .. Len(stack) : stack[k].fn = "Root"
      BY <2>2
    <3> QED BY <2>3, <3>1 DEF Unbroken, ExprFunctions
  <2>5. Ready /\ CrashOnlyIfUnterminated
    BY <2>2, <2>3 DEF Ready, CrashOnlyIfUnterminated
  <2> QED BY <2>4, <2>5
<1> QED BY InitIInv, NextIInv, NextUnbroken, NextReady, NextCrash, <1>1, PTL
        DEF Spec
-----------------------------------------------------------------------------
(* Why Parse ends.  A step that consumes no token lowers the rank of one   *)
(* active call and leaves those below it alone.  The rank of a call falls  *)
(* with its instruction and its alternative and, within one of them, from  *)
(* running to waiting to resumed; a loop may begin again, which raises it  *)
(* by less than a call that consumed something had kept back.              *)
Left(F) == (8 - F.pc) * 13 + (13 - F.alt)

(* Where the call that frame k waits for, or has been resumed by, began.   *)
Began(k) == IF k < Len(stack) THEN stack[k + 1].at ELSE from

Rank(k) ==
  IF k = Len(stack) /\ ctl = "run" THEN 4 * Left(stack[k]) + 1
  ELSE 4 * (IF Began(k) < TokenIndex THEN Left(stack[k]) ELSE Left(stack[k]) - 1)
         + (IF k < Len(stack) THEN 3 ELSE 2)

Descends ==
  \E k \in 1 .. Len(stack) :
    /\ k <= Len(stack') /\ Rank(k)' < Rank(k)
    /\ \A j \in 1 .. k - 1 : Rank(j)' = Rank(j)

Proceeds ==
  \/ Stopped'
  \/ TokenIndex' > TokenIndex
  \/ TokenIndex' = TokenIndex /\ Descends

StepsDescend == [][Proceeds]_vars
(* No rank ever exceeds a constant; with the depth of the stack bounded by *)
(* the tokens (DepthBound), only finitely many steps can follow one another *)
(* without consuming a token.                                              *)
Ranked == \A k \in 1 .. Len(stack) : Rank(k) \in 0 .. 415

LEMMA LeftLemma == \A F \in Frame : Left(F) \in 14 .. 103 /\ Left(F) \in Nat
<1>1. SUFFICES ASSUME NEW F \in Frame PROVE Left(F) \in 14 .. 103
  OBVIOUS
<1>2. F.pc \in 1 .. 7 /\ F.alt \in 1 .. 12
  BY DEF Frame
<1> QED BY <1>2 DEF Left

(* A call that waits for the same call as before keeps its rank.           *)
LEMMA RankBelow ==
  ASSUME NEW j, j < Len(stack), j < Len(stack'), stack'[j] = stack[j],
         stack'[j + 1].at = stack[j + 1].at, TokenIndex' = TokenIndex,
         NEW n \in Nat, NEW m \in Nat, n = Len(stack), m = Len(stack'), j \in Nat
  PROVE  Rank(j)' = Rank(j)
<1>1. j # Len(stack) /\ j # Len(stack')
  OBVIOUS
<1>2. /\ Rank(j) = 4 * (IF stack[j + 1].at < TokenIndex THEN Left(stack[j])
                                                        ELSE Left(stack[j]) - 1) + 3
      /\ Rank(j)' = 4 * (IF stack'[j + 1].at < TokenIndex'
                           THEN Left(stack'[j]) ELSE Left(stack'[j]) - 1) + 3
  BY <1>1 DEF Rank, Began, Left
<1> QED BY <1>2 DEF Left

(* The innermost call moves on, or a loop of it begins again after what it *)
(* called has consumed a token.                                            *)
LEMMA MoveDescends ==
  ASSUME stack # <<>>, stack \in Seq(Frame), NEW F \in Frame,
         F.at = Top.at, stack' = [stack EXCEPT ![Len(stack)] = F],
         TokenIndex' = TokenIndex, ctl' = "run",
         \/ Left(F) < Left(Top)
         \/ Left(F) = Left(Top) /\ ctl # "run" /\ from < TokenIndex
  PROVE  Descends
<1> PICK n \in Nat \ {0} : n = Len(stack)
  OBVIOUS
<1>1. /\ Top = stack[n] /\ Top \in Frame
      /\ stack' \in Seq(Frame) /\ Len(stack') = n /\ stack'[n] = F
      /\ \A j \in 1 .. n - 1 : stack'[j] = stack[j]
  BY ExceptSeq DEF Top
<1>2. Rank(n)' = 4 * Left(F) + 1
  BY <1>1 DEF Rank, Left
<1>3. Rank(n) = IF ctl = "run" THEN 4 * Left(Top) + 1
                ELSE 4 * (IF from < TokenIndex THEN Left(Top) ELSE Left(Top) - 1) + 2
  BY <1>1 DEF Rank, Began
<1>4. Left(F) \in Nat /\ Left(Top) \in Nat
  BY <1>1, LeftLemma, Zenon
<1>5. Rank(n)' < Rank(n)
  BY <1>2, <1>3, <1>4
<1>6. ASSUME NEW j \in 1 .. n - 1 PROVE Rank(j)' = Rank(j)
  <2>1. /\ j < n /\ j < Len(stack') /\ j \in Nat /\ stack'[j] = stack[j]
        /\ stack'[j + 1].at = stack[j + 1].at
    BY <1>1, <1>6
  <2> QED BY <1>1, <2>1, RankBelow
<1> QED BY <1>1, <1>5, <1>6 DEF Descends

(* A call of a function that begins at the cursor.                         *)
LEMMA CallDescends ==
  ASSUME stack # <<>>, stack \in Seq(Frame), TokenIndex \in Nat, NEW f, NEW min,
         ctl = "run", Call(f, TokenIndex, min), TokenIndex' = TokenIndex
  PROVE  Descends
<1> PICK n \in Nat \ {0} : n = Len(stack)
  OBVIOUS
<1> DEFINE e == Enter(f, TokenIndex, min)
<1>1. /\ Top = stack[n] /\ Top \in Frame
      /\ stack' = Append(stack, e) /\ Len(stack') = n + 1
      /\ \A j \in 1 .. n : stack'[j] = stack[j]
      /\ stack'[n + 1] = e
  BY DEF Call, Top
<1>2. e.at = TokenIndex
  BY DEF Enter
<1>3. Rank(n)' = 4 * (Left(Top) - 1) + 3
  BY <1>1, <1>2 DEF Rank, Began, Left
<1>4. Rank(n) = 4 * Left(Top) + 1
  BY <1>1 DEF Rank
<1>5. Rank(n)' < Rank(n)
  <2>1. Left(Top) \in Nat
    BY <1>1, LeftLemma, Zenon
  <2> QED BY <1>3, <1>4, <2>1
<1>6. ASSUME NEW j \in 1 .. n - 1 PROVE Rank(j)' = Rank(j)
  <2>1. /\ j < n /\ j < Len(stack') /\ j \in Nat /\ stack'[j] = stack[j]
        /\ stack'[j + 1].at = stack[j + 1].at
    BY <1>1, <1>6
  <2>2. n \in Nat /\ n + 1 \in Nat
    BY <1>1
  <2> QED BY <1>1, <2>1, <2>2, RankBelow
<1> QED BY <1>1, <1>5, <1>6 DEF Descends

(* A return: its caller waits no longer, and what it waited for began      *)
(* where it did before.                                                    *)
LEMMA ReturnDescends ==
  ASSUME stack # <<>>, stack \in Seq(Frame), NEW c \in {"node", "null"}, NEW v,
         Return(c, v), TokenIndex' = TokenIndex
  PROVE  Stopped' \/ Descends
<1> PICK n \in Nat \ {0} : n = Len(stack)
  OBVIOUS
<1>1. /\ Top = stack[n] /\ Top \in Frame
      /\ stack' = SubSeq(stack, 1, n - 1) /\ ctl' = c /\ from' = Top.at
  BY DEF Return, Top
<1>2. stack' \in Seq(Frame) /\ Len(stack') = n - 1
  BY <1>1
<1>3. \A j \in 1 .. n - 1 : stack'[j] = stack[j]
  BY <1>1
<1>4. CASE n = 1
  BY <1>2, <1>4 DEF Stopped
<1>5. CASE n > 1
  <2>1. n - 1 \in Nat \ {0} /\ stack'[n - 1] = stack[n - 1] /\ stack[n - 1] \in Frame
    BY <1>1, <1>3, <1>5
  <2> DEFINE L == IF Top.at < TokenIndex THEN Left(stack[n - 1])
                                         ELSE Left(stack[n - 1]) - 1
  <2>2. Rank(n - 1)' = 4 * L + 2
    BY <1>1, <1>2, <2>1 DEF Rank, Began, Left
  <2>3. Rank(n - 1) = 4 * L + 3
    BY <1>1, <2>1 DEF Rank, Began
  <2>4. Rank(n - 1)' < Rank(n - 1)
    <3>1. Left(stack[n - 1]) \in Nat
      BY <2>1, LeftLemma, Zenon
    <3>2. L \in Int
      BY <3>1
    <3> HIDE DEF L
    <3> QED BY <2>2, <2>3, <3>2
  <2>5. ASSUME NEW j \in 1 .. (n - 1) - 1 PROVE Rank(j)' = Rank(j)
    <3>1. /\ j < n /\ j < Len(stack') /\ j \in Nat /\ stack'[j] = stack[j]
          /\ stack'[j + 1].at = stack[j + 1].at
      BY <1>1, <1>2, <1>3, <2>5
    <3> QED BY <1>1, <1>2, <2>1, <3>1, RankBelow
  <2>6. n - 1 \in 1 .. Len(stack) /\ n - 1 <= Len(stack')
    BY <1>1, <1>2, <2>1
  <2> QED BY <2>4, <2>5, <2>6 DEF Descends
<1>6. \A m \in Nat \ {0} : m = 1 \/ m > 1
  OBVIOUS
<1>7. n = 1 \/ n > 1
  BY <1>6, Zenon
<1> QED BY <1>4, <1>5, <1>7
(* Every step of the parser is one of these.                               *)
LEMMA NextProceeds == IInv /\ Next => Proceeds
<1> SUFFICES ASSUME IInv, Next PROVE Proceeds
  OBVIOUS
<1>1. /\ stack \in Seq(Frame) /\ Len(stack) \in Nat
      /\ TokenIndex \in Nat /\ TokenIndex <= Len(Tokens) /\ Len(Tokens) \in Nat
      /\ ctl \in {"run", "node", "null", "crash", "exit"} /\ from \in Nat
  BY DEF IInv, TypeOK
<1>2. ASSUME stack # <<>>
      PROVE  /\ Top \in Frame /\ Len(stack) \in Nat \ {0} /\ Size(Top.fn) \in 1 .. 6
             /\ Top.pc <= Size(Top.fn) => BodyFact(Top.fn, Top.pc)
             /\ ctl \in {"node", "null"} =>
                  /\ Top.pc <= Size(Top.fn)
                  /\ ctl = "node" \/ Ins.do = "stats" => from < TokenIndex
  BY <1>2, TopLemma DEF IInv, Returned, Waiting
<1>3. ASSUME Consume PROVE Proceeds
  BY <1>1, <1>3 DEF Consume, Proceeds
<1>4. ASSUME stack # <<>>, NEW pc \in 1 .. 7, pc > Top.pc, Goto(pc),
             ctl' = "run", TokenIndex' = TokenIndex
      PROVE  Proceeds
  <2> DEFINE F == [Top EXCEPT !.pc = pc]
  <2>1. F \in Frame /\ F.at = Top.at /\ F.pc = pc /\ F.alt = Top.alt
    BY <1>2, <1>4 DEF Frame
  <2>2. stack' = [stack EXCEPT ![Len(stack)] = F]
    BY <1>4 DEF Goto, Top
  <2>3. Left(F) < Left(Top)
    <3>1. Top.pc \in 1 .. 7 /\ Top.alt \in 1 .. 12
      BY <1>2, <1>4 DEF Frame
    <3>2. Left(F) = (8 - pc) * 13 + (13 - Top.alt)
      BY <2>1 DEF Left
    <3>3. Left(Top) = (8 - Top.pc) * 13 + (13 - Top.alt)
      BY DEF Left
    <3>4. \A p, q \in 1 .. 7, a \in 1 .. 12 :
            p < q => (8 - q) * 13 + (13 - a) < (8 - p) * 13 + (13 - a)
      OBVIOUS
    <3>5. Top.pc < pc
      BY <1>4, <3>1
    <3> QED BY <3>1, <3>2, <3>3, <3>4, <3>5, Zenon
  <2> HIDE DEF F
  <2> QED BY <1>1, <1>4, <2>1, <2>2, <2>3, MoveDescends DEF Proceeds
<1>5. ASSUME NEW g, NEW min, Call(g, TokenIndex, min), stack # <<>>, ctl = "run",
             TokenIndex' = TokenIndex
      PROVE  Proceeds
  BY <1>1, <1>5, CallDescends DEF Proceeds
<1>6. ASSUME stack # <<>>, NEW c \in {"node", "null"}, NEW v, Return(c, v),
             TokenIndex' = TokenIndex
      PROVE  Proceeds
  BY <1>1, <1>6, ReturnDescends DEF Proceeds
<1>7. ASSUME stack # <<>>, NEW m, GiveUp(m)
      PROVE  Proceeds
  <2>1. CASE Return("null", Null) /\ UNCHANGED TokenIndex
    BY <1>6, <1>7, <2>1
  <2>2. CASE ctl' = "crash"
    BY <2>2 DEF Proceeds, Stopped
  <2>3. CASE Resync /\ Return("null", Null)
    <3>1. TokenIndex' = TokenIndex \/ TokenIndex' > TokenIndex
      BY <1>1, <2>3 DEF Resync
    <3> QED BY <1>6, <1>7, <2>3, <3>1 DEF Proceeds
  <2> QED BY <1>7, <2>1, <2>2, <2>3 DEF GiveUp
<1>8. ASSUME stack # <<>>, UNCHANGED <<stack, TokenIndex>>, ctl' = "run",
             ctl # "run", from < TokenIndex
      PROVE  Proceeds
  <2>1. stack' = [stack EXCEPT ![Len(stack)] = Top]
    BY <1>1, <1>8 DEF Top
  <2> QED BY <1>1, <1>2, <1>8, <2>1, MoveDescends DEF Proceeds
<1>9. CASE TokenHit
  BY <1>3, <1>9 DEF TokenHit
<1>10. CASE OptMiss \/ SubNode \/ FirstNode
  <2>1. /\ stack # <<>> /\ Top.pc <= Size(Top.fn) /\ Goto(Top.pc + 1)
        /\ ctl' = "run" /\ TokenIndex' = TokenIndex
    BY <1>2, <1>10 DEF OptMiss, SubNode, FirstNode, Running, Resumed
  <2>2. Top.pc + 1 \in 1 .. 7 /\ Top.pc + 1 > Top.pc
    BY <1>2, <2>1 DEF Frame
  <2> QED BY <1>4, <2>1, <2>2
<1>11. CASE Branch
  <2>1. stack # <<>> /\ Top.pc <= Size(Top.fn) /\ ctl' = "run"
    BY <1>11 DEF Branch, Running
  <2>2. Top.pc + 1 \in 1 .. 7 /\ Top.pc + 1 > Top.pc
    BY <1>2, <2>1 DEF Frame
  <2> QED BY <1>3, <1>4, <1>11, <2>1, <2>2 DEF Branch
<1>12. CASE CallSub \/ TryNext
  BY <1>5, <1>12 DEF CallSub, TryNext, Running
<1>13. CASE TokenMiss \/ SubNull \/ NoneLeft
  BY <1>7, <1>13 DEF TokenMiss, SubNull, NoneLeft, Running, Resumed
<1>14. CASE FirstNull
  <2> DEFINE F == [Top EXCEPT !.alt = @ + 1]
  <2>1. /\ stack # <<>> /\ Top.pc <= Size(Top.fn) /\ Ins.do = "first"
        /\ stack' = [stack EXCEPT ![Len(stack)] = F]
        /\ ctl' = "run" /\ TokenIndex' = TokenIndex
    BY <1>2, <1>14 DEF FirstNull, Resumed, Top
  <2>2. Top.alt + 1 \in 1 .. 12 /\ Top \in Frame
    <3>1. Len(Ins.arg) \in 1 .. 11 /\ Top.alt <= Len(Ins.arg) /\ Top \in Frame
      BY <1>2, <1>14, <2>1 DEF BodyFact, Ins, IInv, Returned, Waiting,
                               FirstNull, Resumed
    <3>2. \A a \in 1 .. 12, n \in 1 .. 11 : a <= n => a + 1 \in 1 .. 12
      OBVIOUS
    <3>3. Top.alt \in 1 .. 12
      BY <3>1 DEF Frame
    <3> QED BY <3>1, <3>2, <3>3, Zenon
  <2>3. F \in Frame /\ F.at = Top.at /\ F.pc = Top.pc /\ F.alt = Top.alt + 1
    BY <2>2 DEF Frame
  <2>4. Left(F) < Left(Top)
    BY <2>2, <2>3 DEF Left, Frame
  <2> HIDE DEF F
  <2> QED BY <1>1, <2>1, <2>3, <2>4, MoveDescends DEF Proceeds
<1>15. CASE StatsHead
  <2>1. /\ stack # <<>> /\ Top.pc <= Size(Top.fn) /\ ctl = "run"
        /\ TokenIndex' = TokenIndex
    BY <1>15 DEF StatsHead, Running
  <2>2. CASE Goto(Top.pc + 1) /\ UNCHANGED ctl
    <3>1. Top.pc + 1 \in 1 .. 7 /\ Top.pc + 1 > Top.pc
      BY <1>2, <2>1 DEF Frame
    <3> QED BY <1>4, <2>1, <2>2, <3>1
  <2>3. CASE Call("Stmt", TokenIndex, 0)
    BY <1>5, <2>1, <2>3
  <2>4. CASE ctl' = "exit"
    BY <2>4 DEF Proceeds, Stopped
  <2> QED BY <1>15, <2>2, <2>3, <2>4 DEF StatsHead
<1>16. CASE StatsNode \/ StatsNull
  BY <1>2, <1>8, <1>16 DEF StatsNode, StatsNull, Resumed
<1>17. CASE ListHead
  BY <1>3, <1>5, <1>17 DEF ListHead, Running
<1>18. CASE ListItem
  <2>1. stack # <<>> /\ ctl = "node"
    BY <1>18 DEF ListItem, Resumed
  <2>2. CASE Consume
    BY <1>3, <2>2
  <2>3. CASE ctl' = "run" /\ UNCHANGED <<TokenIndex, stack>>
    BY <1>2, <1>8, <2>1, <2>3
  <2>4. CASE ctl' = "crash"
    BY <2>4 DEF Proceeds, Stopped
  <2>5. CASE Return("null", Null) /\ UNCHANGED TokenIndex
    BY <1>6, <2>1, <2>5
  <2> QED BY <1>18, <2>2, <2>3, <2>4, <2>5 DEF ListItem
<1>19. CASE Overrun
  BY <1>19 DEF Overrun, Proceeds, Stopped
<1>20. CASE ClimbHead
  <2>1. /\ stack # <<>> /\ Top.pc <= Size(Top.fn) /\ ctl = "run" /\ Ins.do = "climb"
    BY <1>20 DEF ClimbHead, Running
  <2>2. CASE Goto(Size(Top.fn) + 1) /\ UNCHANGED <<TokenIndex, ctl>>
    <3>1. Size(Top.fn) + 1 \in 1 .. 7 /\ Size(Top.fn) + 1 > Top.pc
      BY <1>2, <2>1 DEF Frame
    <3> QED BY <1>4, <2>1, <2>2, <3>1
  <2> QED BY <1>3, <1>20, <2>2 DEF ClimbHead
<1>21. CASE ClimbNode
  BY <1>2, <1>8, <1>21 DEF ClimbNode, Resumed
<1>22. CASE EndOfBody
  BY <1>6, <1>22 DEF EndOfBody
<1>23. CASE Halt
  BY <1>23 DEF Halt, Stopped, vars, Proceeds
<1> QED
  BY <1>9, <1>10, <1>11, <1>12, <1>13, <1>14, <1>15, <1>16, <1>17, <1>18, <1>19,
     <1>20, <1>21, <1>22, <1>23 DEF Next

(* The safety half of Terminates, for every token string: each step of     *)
(* Parse stops it, consumes a token, or lowers the rank of one active call *)
(* and touches the rank of none below that one; ranks are never negative   *)
(* and never above a constant.  With a stack whose depth the tokens bound  *)
(* (DepthBound) no infinite sequence of steps is left.                     *)
THEOREM StepsAlwaysDescend == Spec => StepsDescend /\ []Ranked
<1>1. IInv /\ [Next]_vars => [Proceeds]_vars
  BY NextProceeds
<1>2. \A l \in 14 .. 103 :
        /\ 4 * l + 1 \in 0 .. 415 /\ 4 * l + 2 \in 0 .. 415 /\ 4 * l + 3 \in 0 .. 415
        /\ 4 * (l - 1) + 2 \in 0 .. 415 /\ 4 * (l - 1) + 3 \in 0 .. 415
  OBVIOUS
<1>3. IInv => Ranked
  <2>1. SUFFICES ASSUME IInv PROVE \A k \in 1 .. Len(stack) : Rank(k) \in 0 .. 415
    BY DEF Ranked
  <2>2. TAKE k \in 1 .. Len(stack)
  <2>3. stack[k] \in Frame
    BY <2>1 DEF IInv, TypeOK
  <2>4. Left(stack[k]) \in 14 .. 103
    BY <2>3, LeftLemma, Zenon
  <2> DEFINE L == Left(stack[k])
  <2>5. \/ Rank(k) = 4 * L + 1 \/ Rank(k) = 4 * L + 3 \/ Rank(k) = 4 * L + 2
        \/ Rank(k) = 4 * (L - 1) + 3 \/ Rank(k) = 4 * (L - 1) + 2
    BY DEF Rank
  <2>6. /\ 4 * L + 1 \in 0 .. 415 /\ 4 * L + 2 \in 0 .. 415 /\ 4 * L + 3 \in 0 .. 415
        /\ 4 * (L - 1) + 2 \in 0 .. 415 /\ 4 * (L - 1) + 3 \in 0 .. 415
    BY <1>2, <2>4, Zenon
  <2> HIDE DEF L
  <2> QED BY <2>5, <2>6, Zenon
<1> QED BY InitIInv, NextIInv, <1>1, <1>3, PTL DEF Spec, StepsDescend
-----------------------------------------------------------------------------
(* Trees.  What is said of Within is proved for the least depth at which   *)
(* it could fail.                                                          *)
LEMMA FirstNat ==
  ASSUME NEW T \in SUBSET Nat, T # {}
  PROVE  \E m \in T : \A k \in T : m <= k
<1>1. \E m \in T : \A k \in T : ~(<<k, m>> \in OpToRel(<, Nat))
  BY NatLessThanWellFounded, WFMin, Zenon
<1>2. \A k, m \in Nat : k < m => <<k, m>> \in OpToRel(<, Nat)
  BY DEF OpToRel
<1>3. \A k, m \in Nat : ~(k < m) => m <= k
  OBVIOUS
<1> QED BY <1>1, <1>2, <1>3

(* A set of depths that holds 0, and with a depth the next, holds all.     *)
LEMMA AllDepths ==
  ASSUME NEW D, 0 \in D, \A k \in Nat : k \in D => k + 1 \in D
  PROVE  Nat \subseteq D
<1> DEFINE T == Nat \ D
<1> SUFFICES ASSUME T # {} PROVE FALSE
  OBVIOUS
<1>1. PICK m \in T : \A k \in T : m <= k
  BY FirstNat
<1>2. m # 0 /\ m - 1 \in Nat /\ ~(m <= m - 1)
  BY <1>1
<1>3. m - 1 \in D
  BY <1>1, <1>2
<1> QED BY <1>1, <1>2, <1>3

(* One generation more.                                                    *)
Step(S) == UNION {{m} \cup Kids(m) : m \in S}

LEMMA PartsExist ==
  ASSUME NEW n
  PROVE  \E f : f = [k \in Nat |-> IF k = 0 THEN {n} ELSE Step(f[k - 1])]
<1> DEFINE Starts(f, k) ==
             f = [i \in 0 .. k |-> IF i = 0 THEN {n} ELSE Step(f[i - 1])]
           D == {k \in Nat : \E f : Starts(f, k)}
<1>1. 0 \in D
  <2>1. Starts([i \in 0 .. 0 |-> {n}], 0)
    OBVIOUS
  <2> QED BY <2>1
<1>2. ASSUME NEW k \in Nat, k \in D PROVE k + 1 \in D
  <2>1. PICK f : Starts(f, k)
    BY <1>2
  <2>2. \A i \in 0 .. k : f[i] = IF i = 0 THEN {n} ELSE Step(f[i - 1])
    BY <2>1
  <2> DEFINE g == [i \in 0 .. k + 1 |-> IF i = 0 THEN {n} ELSE Step(f[i - 1])]
  <2>3. \A i \in 0 .. k + 1 : g[i] = IF i = 0 THEN {n} ELSE Step(f[i - 1])
    OBVIOUS
  <2>4. /\ \A i \in 0 .. k + 1 : i # 0 => i - 1 \in 0 .. k
        /\ \A i \in 0 .. k : i \in 0 .. k + 1
    OBVIOUS
  <2> HIDE DEF Starts, g
  <2>5. \A i \in 0 .. k : g[i] = f[i]
    BY <2>2, <2>3, <2>4
  <2>6. \A i \in 0 .. k + 1 : g[i] = IF i = 0 THEN {n} ELSE Step(g[i - 1])
    BY <2>3, <2>4, <2>5
  <2>7. g = [i \in 0 .. k + 1 |-> IF i = 0 THEN {n} ELSE Step(g[i - 1])]
    <3>1. g = [i \in 0 .. k + 1 |-> g[i]]
      BY DEF g
    <3> QED BY <2>6, <3>1, Zenon
  <2>8. Starts(g, k + 1)
    BY <2>7 DEF Starts
  <2> QED BY <2>8, <1>2
<1>3. \A k \in Nat : \E f : Starts(f, k)
  <2> HIDE DEF D
  <2>1. Nat \subseteq D
    BY <1>1, <1>2, AllDepths
  <2> QED BY <2>1 DEF D
<1> DEFINE F(k) == CHOOSE f : Starts(f, k)
           h == [k \in Nat |-> F(k)[k]]
<1>4. \A k \in Nat : Starts(F(k), k)
  BY <1>3
<1>5. \A k \in Nat : \A i \in 0 .. k : F(k)[i] = IF i = 0 THEN {n} ELSE Step(F(k)[i - 1])
  <2>1. \A f, k : Starts(f, k) =>
          \A i \in 0 .. k : f[i] = IF i = 0 THEN {n} ELSE Step(f[i - 1])
    OBVIOUS
  <2> HIDE DEF F, Starts
  <2> QED BY <1>4, <2>1, Zenon
<1> HIDE DEF F
<1>6. \A k \in Nat : h[k + 1] = Step(h[k])
  <2> DEFINE E == {i \in Nat : \A k \in Nat : i <= k => F(k)[i] = h[i]}
  <2>1. 0 \in E
    BY <1>5
  <2>2. ASSUME NEW i \in Nat, i \in E PROVE i + 1 \in E
    <3>1. ASSUME NEW k \in Nat, i + 1 <= k PROVE F(k)[i + 1] = Step(h[i])
      <4>1. /\ i + 1 \in 0 .. k /\ i + 1 # 0 /\ (i + 1) - 1 = i /\ i <= k
        BY <3>1
      <4>2. F(k)[i + 1] = Step(F(k)[i])
        BY <1>5, <4>1
      <4> QED BY <2>2, <4>1, <4>2
    <3>2. h[i + 1] = F(i + 1)[i + 1] /\ i + 1 \in Nat /\ i + 1 <= i + 1
      OBVIOUS
    <3> QED BY <3>1, <3>2
  <2>3. Nat \subseteq E
    <3> HIDE DEF E
    <3> QED BY <2>1, <2>2, AllDepths
  <2>4. ASSUME NEW k \in Nat PROVE h[k + 1] = Step(h[k])
    <3>1. /\ k + 1 \in Nat /\ k + 1 \in 0 .. k + 1 /\ k + 1 # 0 /\ (k + 1) - 1 = k
          /\ k <= k + 1
      OBVIOUS
    <3>2. h[k + 1] = Step(F(k + 1)[k])
      BY <1>5, <3>1
    <3> QED BY <2>3, <3>1, <3>2
  <2> QED BY <2>4
<1>7. h[0] = {n}
  BY <1>5
<1>8. ASSUME NEW k \in Nat, k # 0 PROVE h[k] = Step(h[k - 1])
  <2>1. k - 1 \in Nat /\ (k - 1) + 1 = k
    BY <1>8
  <2> QED BY <1>6, <2>1
<1>9. h = [k \in Nat |-> IF k = 0 THEN {n} ELSE Step(h[k - 1])]
  BY <1>7, <1>8
<1> QED BY <1>9

LEMMA WithinIs ==
  ASSUME NEW n
  PROVE  /\ Within(n, 0) = {n}
         /\ \A d \in Nat : Within(n, d + 1) = Step(Within(n, d))
<1> DEFINE Parts(f) == f = [k \in Nat |-> IF k = 0 THEN {n}
                            ELSE UNION {{m} \cup Kids(m) : m \in f[k - 1]}]
           part == CHOOSE f : Parts(f)
<1>1. Parts(part)
  <2>1. \E f : Parts(f)
    BY PartsExist DEF Step
  <2> QED BY <2>1
<1>2. \A d : Within(n, d) = part[d]
  BY DEF Within
<1> HIDE DEF part
<1>3. /\ part[0] = {n}
      /\ \A d \in Nat : d + 1 \in Nat /\ d + 1 # 0 /\ (d + 1) - 1 = d
  BY <1>1
<1>4. \A d \in Nat : part[d + 1] = Step(part[d])
  BY <1>1, <1>3 DEF Step
<1> QED BY <1>2, <1>3, <1>4

(* The tree below a node is made of the trees below its children.          *)
LEMMA WithinKids ==
  ASSUME NEW n
  PROVE  /\ \A d \in Nat : n \in Within(n, d)
         /\ \A d \in Nat : Within(n, d + 1) = {n} \cup UNION {Within(k, d) : k \in Kids(n)}
<1> DEFINE D == {d \in Nat : \A k : k \in Within(k, d)}
           E == {d \in Nat : Within(n, d + 1) = {n} \cup UNION {Within(k, d) : k \in Kids(n)}}
<1>1. Nat \subseteq D
  <2>1. 0 \in D
    BY WithinIs
  <2>2. ASSUME NEW d \in Nat, d \in D PROVE d + 1 \in D
    <3>1. ASSUME NEW k PROVE k \in Within(k, d + 1)
      <4>1. k \in Within(k, d) /\ Within(k, d + 1) = Step(Within(k, d))
        BY <2>2, WithinIs
      <4> QED BY <4>1 DEF Step
    <3> QED BY <3>1
  <2> HIDE DEF D
  <2> QED BY <2>1, <2>2, AllDepths
<1>2. Nat \subseteq E
  <2>1. 0 \in E
    <3>1. Within(n, 0) = {n} /\ Within(n, 0 + 1) = Step({n}) /\ 0 + 1 = 1
      BY WithinIs
    <3>2. \A k : Within(k, 0) = {k}
      BY WithinIs
    <3>3. UNION {Within(k, 0) : k \in Kids(n)} = Kids(n)
      BY <3>2
    <3>4. Step({n}) = {n} \cup Kids(n)
      BY DEF Step
    <3> QED BY <3>1, <3>3, <3>4
  <2>2. ASSUME NEW d \in Nat, d \in E PROVE d + 1 \in E
    <3> DEFINE below(c) == UNION {Within(k, c) : k \in Kids(n)}
    <3>1. /\ Within(n, d + 1) = {n} \cup below(d)
          /\ Within(n, (d + 1) + 1) = Step(Within(n, d + 1))
          /\ \A k : Within(k, d + 1) = Step(Within(k, d))
      <4>1. d + 1 \in Nat
        OBVIOUS
      <4> QED BY <2>2, <4>1, WithinIs
    <3>2. Step({n} \cup below(d)) = Step({n}) \cup Step(below(d))
      BY Zenon DEF Step
    <3>3. Step({n}) = {n} \cup Kids(n)
      BY DEF Step
    <3>4. Step(below(d)) = below(d + 1)
      <4>1. \A x : x \in Step(below(d)) <=> \E k \in Kids(n) : x \in Step(Within(k, d))
        BY DEF Step
      <4>2. \A x : x \in below(d + 1) <=> \E k \in Kids(n) : x \in Within(k, d + 1)
        OBVIOUS
      <4> HIDE DEF below
      <4> QED BY <3>1, <4>1, <4>2
    <3>5. Kids(n) \subseteq below(d + 1)
      BY <1>1
    <3>6. d + 1 \in Nat
      OBVIOUS
    <3>7. Within(n, (d + 1) + 1) = {n} \cup below(d + 1)
      <4> HIDE DEF below
      <4> QED BY <3>1, <3>2, <3>3, <3>4, <3>5
    <3> QED BY <3>6, <3>7
  <2> HIDE DEF E
  <2> QED BY <2>1, <2>2, AllDepths
<1>3. \A d \in Nat : d \in D /\ d \in E
  BY <1>1, <1>2
<1> QED BY <1>3
(* What TreesWellFormed asks of a node, of a tree, and of the trees a call *)
(* has collected, where T are the tokens and a + 1 .. b the places in      *)
(* which theirs may lie.                                                   *)
Good(T, n, a, b) ==
  /\ Shaped(n)
  /\ \A e \in Nat : Parted(n, e)
  /\ n.nt \in Kinds => n.at \in a + 1 .. b /\ T[n.at] = n.nt
  /\ n.nt = "BinExpr" => T[n.at] \in Operators

Fits(T, n, a, b) == \A d \in Nat : \A m \in Within(n, d) : Good(T, m, a, b)

Row(T, ks, a, b) ==
  /\ \A i \in 1 .. Len(ks) : Fits(T, ks[i], a, b)
  /\ \A i, j \in 1 .. Len(ks) : i < j =>
       \A e \in Nat : Before(Cover(ks[i], e), Cover(ks[j], e))

LEMMA CoverIn ==
  ASSUME NEW T, NEW n, NEW a, NEW b, Fits(T, n, a, b)
  PROVE  \A e \in Nat : Cover(n, e) \subseteq a + 1 .. b
BY DEF Fits, Good, Cover

LEMMA FitsWiden ==
  ASSUME NEW T, NEW n, NEW a \in Nat, NEW b \in Nat, Fits(T, n, a, b),
         NEW c \in Nat, c <= a, NEW d \in Nat, b <= d
  PROVE  Fits(T, n, c, d)
<1>1. a + 1 .. b \subseteq c + 1 .. d
  OBVIOUS
<1>2. \A m : Good(T, m, a, b) => Good(T, m, c, d)
  BY <1>1 DEF Good
<1> QED BY <1>2 DEF Fits

LEMMA RowWiden ==
  ASSUME NEW T, NEW ks, NEW a \in Nat, NEW b \in Nat, Row(T, ks, a, b),
         NEW d \in Nat, b <= d
  PROVE  Row(T, ks, a, d)
<1>1. \A n : Fits(T, n, a, b) => Fits(T, n, a, d)
  BY FitsWiden
<1> QED BY <1>1 DEF Row

(* A node of trees that lie side by side.                                  *)
LEMMA FitsNode ==
  ASSUME NEW T, NEW n, NEW a, NEW b, Row(T, n.kids, a, b), Shaped(n),
         n.nt \in Kinds => n.at \in a + 1 .. b /\ T[n.at] = n.nt,
         n.nt = "BinExpr" =>
           /\ T[n.at] \in Operators
           /\ \A e \in Nat : /\ Before(Cover(n.kids[1], e), {n.at})
                             /\ Before({n.at}, Cover(n.kids[2], e))
  PROVE  Fits(T, n, a, b)
<1>1. Good(T, n, a, b)
  BY DEF Good, Parted, Row
<1>2. \A k \in Kids(n) : Fits(T, k, a, b)
  BY DEF Kids, Row
<1>3. ASSUME NEW d \in Nat PROVE \A m \in Within(n, d) : Good(T, m, a, b)
  <2>1. CASE d = 0
    BY <1>1, <2>1, WithinIs
  <2>2. CASE d # 0
    <3>1. d - 1 \in Nat /\ d = (d - 1) + 1
      BY <2>2
    <3>2. Within(n, d) = {n} \cup UNION {Within(k, d - 1) : k \in Kids(n)}
      BY <3>1, WithinKids
    <3> QED BY <1>1, <1>2, <3>1, <3>2 DEF Fits
  <2> QED BY <2>1, <2>2
<1> QED BY <1>3 DEF Fits

LEMMA FitsLeaf ==
  ASSUME NEW T, NEW k \in Kinds, NEW p, NEW a, NEW b, p \in a + 1 .. b, T[p] = k
  PROVE  Fits(T, Node(k, p, <<>>), a, b)
<1> DEFINE n == Node(k, p, <<>>)
<1>1. n.nt = k /\ n.at = p /\ n.kids = <<>> /\ Len(n.kids) = 0
  BY DEF Node
<1> HIDE DEF n
<1>2. k \notin {"BinExpr", "Interval", "Asgn", "VarDef", "FunDef", "If", "While",
                "For", "Decl", "Call", "FunDecl", "Scope", "Root", "Exit"}
  BY DEF Kinds, Operators, Specials, Keywords
<1>3. Row(T, n.kids, a, b)
  BY <1>1 DEF Row
<1>4. Shaped(n)
  <2>1. Arity(k) = {0}
    BY <1>2 DEF Arity
  <2> QED BY <1>1, <1>2, <2>1 DEF Shaped
<1> QED BY <1>1, <1>2, <1>3, <1>4, FitsNode DEF n

(* One tree more, right of those there are.                                *)
LEMMA RowAppend ==
  ASSUME NEW T, NEW S, NEW ks \in Seq(S), NEW a \in Nat, NEW c \in Nat, a <= c,
         Row(T, ks, a, c), NEW n, NEW b \in Nat, c <= b, Fits(T, n, c, b)
  PROVE  Row(T, Append(ks, n), a, b)
<1> DEFINE r == Append(ks, n)
<1>1. /\ Len(r) = Len(ks) + 1 /\ Len(ks) \in Nat
      /\ \A i \in 1 .. Len(ks) : r[i] = ks[i]
      /\ r[Len(ks) + 1] = n
  OBVIOUS
<1> HIDE DEF r
<1>2. Fits(T, n, a, b)
  BY FitsWiden
<1>3. Row(T, ks, a, b)
  BY RowWiden
<1>4. \A i \in 1 .. Len(r) : Fits(T, r[i], a, b)
  BY <1>1, <1>2, <1>3 DEF Row
<1>5. ASSUME NEW i \in 1 .. Len(ks), NEW e \in Nat
      PROVE  Before(Cover(ks[i], e), Cover(n, e))
  <2>1. Cover(ks[i], e) \subseteq a + 1 .. c
    BY CoverIn DEF Row
  <2>2. Cover(n, e) \subseteq c + 1 .. b
    BY CoverIn
  <2>3. \A x \in a + 1 .. c, y \in c + 1 .. b : x < y
    OBVIOUS
  <2> QED BY <2>1, <2>2, <2>3 DEF Before
<1>6. ASSUME NEW i \in 1 .. Len(r), NEW j \in 1 .. Len(r), i < j, NEW e \in Nat
      PROVE  Before(Cover(r[i], e), Cover(r[j], e))
  <2>1. i \in 1 .. Len(ks) /\ (j \in 1 .. Len(ks) \/ j = Len(ks) + 1)
    BY <1>1, <1>6
  <2> QED BY <1>1, <1>3, <1>5, <1>6, <2>1 DEF Row
<1> QED BY <1>4, <1>6 DEF Row, r
-----------------------------------------------------------------------------
(* How deep a tree is.  A chain of length d leads down from a node; a node *)
(* is lower than d if none of that length does.                            *)
Chain(n, p, d) == p[0] = n /\ \A i \in 0 .. d - 1 : p[i + 1] \in Kids(p[i])

Low(n, d) == d \in Nat /\ \A p : ~Chain(n, p, d)

LEMMA LowWiden ==
  ASSUME NEW n, NEW d, Low(n, d), NEW e \in Nat, d <= e
  PROVE  Low(n, e)
<1>1. d \in Nat /\ \A i \in 0 .. d - 1 : i \in 0 .. e - 1
  BY DEF Low
<1>2. ASSUME NEW p, Chain(n, p, e) PROVE FALSE
  <2>1. Chain(n, p, d)
    BY <1>1, <1>2 DEF Chain
  <2> QED BY <2>1 DEF Low
<1> QED BY <1>2 DEF Low

LEMMA LowKid ==
  ASSUME NEW n, NEW d, Low(n, d)
  PROVE  d \in Nat \ {0} /\ \A k \in Kids(n) : Low(k, d - 1)
<1>1. d \in Nat
  BY DEF Low
<1>2. d # 0
  <2>1. ASSUME d = 0 PROVE FALSE
    <3> DEFINE p == [i \in {0} |-> n]
    <3>1. Chain(n, p, d)
      BY <2>1 DEF Chain
    <3> QED BY <3>1 DEF Low
  <2> QED BY <2>1
<1>3. ASSUME NEW k \in Kids(n), NEW p, Chain(k, p, d - 1) PROVE FALSE
  <2> DEFINE q == [i \in 0 .. d |-> IF i = 0 THEN n ELSE p[i - 1]]
  <2>1. q[0] = n /\ \A i \in 0 .. d : i # 0 => q[i] = p[i - 1]
    BY <1>1
  <2> HIDE DEF q
  <2>2. ASSUME NEW i \in 0 .. d - 1 PROVE q[i + 1] \in Kids(q[i])
    <3>1. i \in Nat /\ i + 1 \in 0 .. d /\ i \in 0 .. d /\ i + 1 # 0 /\ (i + 1) - 1 = i
      BY <1>1
    <3>2. q[i + 1] = p[i]
      BY <2>1, <3>1
    <3>3. CASE i = 0
      BY <1>3, <2>1, <3>2, <3>3 DEF Chain
    <3>4. CASE i # 0
      <4>1. i - 1 \in 0 .. (d - 1) - 1 /\ (i - 1) + 1 = i
        BY <1>1, <3>1, <3>4
      <4>2. q[i] = p[i - 1] /\ p[(i - 1) + 1] \in Kids(p[i - 1])
        BY <1>3, <2>1, <3>1, <3>4, <4>1 DEF Chain
      <4> QED BY <3>2, <4>1, <4>2
    <3> QED BY <3>3, <3>4
  <2>3. Chain(n, q, d)
    BY <2>1, <2>2 DEF Chain
  <2> QED BY <2>3 DEF Low
<1>4. d - 1 \in Nat
  BY <1>1, <1>2
<1> QED BY <1>1, <1>2, <1>3, <1>4 DEF Low

LEMMA LowNode ==
  ASSUME NEW n, NEW d \in Nat, \A k \in Kids(n) : Low(k, d)
  PROVE  Low(n, d + 1)
<1>1. ASSUME NEW p, Chain(n, p, d + 1) PROVE FALSE
  <2> DEFINE q == [i \in 0 .. d |-> p[i + 1]]
  <2>1. \A i \in 0 .. d : q[i] = p[i + 1]
    OBVIOUS
  <2> HIDE DEF q
  <2>2. 0 \in 0 .. (d + 1) - 1 /\ 0 \in 0 .. d /\ 0 + 1 = 1
    OBVIOUS
  <2>3. p[1] \in Kids(n) /\ q[0] = p[1]
    BY <1>1, <2>1, <2>2 DEF Chain
  <2>4. ASSUME NEW i \in 0 .. d - 1 PROVE q[i + 1] \in Kids(q[i])
    <3>1. i \in 0 .. d /\ i + 1 \in 0 .. d /\ i + 1 \in 0 .. (d + 1) - 1
      OBVIOUS
    <3>2. p[(i + 1) + 1] \in Kids(p[i + 1])
      BY <1>1, <3>1 DEF Chain
    <3> QED BY <2>1, <3>1, <3>2
  <2>5. Chain(p[1], q, d)
    BY <2>3, <2>4 DEF Chain
  <2> QED BY <2>3, <2>5 DEF Low
<1> QED BY <1>1 DEF Low

(* A depth below which there is nothing is one at which Within has the     *)
(* whole tree.                                                             *)
LEMMA LowWithin ==
  \A d \in Nat : \A n : Low(n, d) =>
    \A m \in Within(n, d) : Low(m, d) /\ Kids(m) \subseteq Within(n, d)
<1> DEFINE D == {d \in Nat : \A n : Low(n, d) =>
                   \A m \in Within(n, d) : Low(m, d) /\ Kids(m) \subseteq Within(n, d)}
<1>1. 0 \in D
  BY LowKid
<1>2. ASSUME NEW d \in Nat, d \in D PROVE d + 1 \in D
  <2>1. SUFFICES ASSUME NEW n, Low(n, d + 1), NEW m \in Within(n, d + 1)
                 PROVE  Low(m, d + 1) /\ Kids(m) \subseteq Within(n, d + 1)
    OBVIOUS
  <2>2. Within(n, d + 1) = {n} \cup UNION {Within(k, d) : k \in Kids(n)}
    BY WithinKids
  <2>3. \A k \in Kids(n) : Low(k, d) /\ k \in Within(k, d)
    <3>1. (d + 1) - 1 = d
      OBVIOUS
    <3>2. \A k \in Kids(n) : Low(k, (d + 1) - 1)
      BY <2>1, LowKid
    <3> QED BY <3>1, <3>2, WithinKids
  <2>4. CASE m = n
    BY <2>1, <2>2, <2>3, <2>4
  <2>5. CASE \E k \in Kids(n) : m \in Within(k, d)
    <3>1. PICK k \in Kids(n) : m \in Within(k, d)
      BY <2>5
    <3>2. Low(m, d) /\ Kids(m) \subseteq Within(k, d)
      BY <1>2, <2>3, <3>1
    <3>3. Low(m, d + 1)
      BY <3>2, LowWiden
    <3> QED BY <2>2, <3>1, <3>2, <3>3
  <2> QED BY <2>2, <2>4, <2>5
<1>3. Nat \subseteq D
  <2> HIDE DEF D
  <2> QED BY <1>1, <1>2, AllDepths
<1> QED BY <1>3

(* Trees side by side in a span of w tokens, each of them made of one      *)
(* token at least.                                                         *)
Lean(ks, w) ==
  /\ w \in Int /\ Len(ks) <= w
  /\ \A i \in 1 .. Len(ks) : Low(ks[i], w - Len(ks) + 1)

LEMMA LeanWiden ==
  ASSUME NEW S, NEW ks \in Seq(S), NEW w, Lean(ks, w), NEW v \in Int, w <= v
  PROVE  Lean(ks, v)
<1>1. /\ Len(ks) \in Nat /\ w \in Int /\ Len(ks) <= w
      /\ \A i \in 1 .. Len(ks) : Low(ks[i], w - Len(ks) + 1)
  BY DEF Lean
<1>2. v - Len(ks) + 1 \in Nat /\ w - Len(ks) + 1 <= v - Len(ks) + 1
  BY <1>1
<1>3. \A i \in 1 .. Len(ks) : Low(ks[i], v - Len(ks) + 1)
  BY <1>1, <1>2, LowWiden
<1> QED BY <1>1, <1>3 DEF Lean

LEMMA LeanAppend ==
  ASSUME NEW S, NEW ks \in Seq(S), NEW w, Lean(ks, w), NEW n, NEW v \in Int, w < v,
         Low(n, v - w)
  PROVE  Lean(Append(ks, n), v)
<1> DEFINE r == Append(ks, n)
<1>1. /\ Len(ks) \in Nat /\ w \in Int /\ Len(ks) <= w
      /\ \A i \in 1 .. Len(ks) : Low(ks[i], w - Len(ks) + 1)
  BY DEF Lean
<1>2. /\ Len(r) = Len(ks) + 1 /\ r[Len(ks) + 1] = n
      /\ \A i \in 1 .. Len(ks) : r[i] = ks[i]
  OBVIOUS
<1> HIDE DEF r
<1>3. /\ v - Len(r) + 1 \in Nat /\ w - Len(ks) + 1 <= v - Len(r) + 1
      /\ v - w <= v - Len(r) + 1 /\ Len(r) <= v
  BY <1>1, <1>2
<1>4. \A i \in 1 .. Len(ks) : Low(ks[i], v - Len(r) + 1)
  BY <1>1, <1>3, LowWiden
<1>5. Low(n, v - Len(r) + 1)
  BY <1>3, LowWiden
<1>6. \A i \in 1 .. Len(r) : i \in 1 .. Len(ks) \/ i = Len(ks) + 1
  BY <1>1, <1>2
<1>7. \A i \in 1 .. Len(r) : Low(r[i], v - Len(r) + 1)
  BY <1>2, <1>4, <1>5, <1>6
<1>8. Lean(r, v)
  BY <1>3, <1>7 DEF Lean
<1> QED BY <1>8 DEF r
-----------------------------------------------------------------------------
(* The kinds of node a function returns.                                   *)
Yields(f) ==
  CASE f = "NumLit"  -> {"NUMLIT"}
    [] f = "Ident"   -> {"ID"}
    [] f = "Term"    -> {"NUMLIT", "ID"}
    [] f = "BinExpr" -> {"NUMLIT", "ID", "BinExpr"}
    [] f = "Expr"    -> ExprKinds
    [] f = "Stmt"    -> StmtKinds
    [] OTHER         -> {f}

(* What an instruction adds to the trees a call holds; and what the i-th   *)
(* tree held by a call of f may be.                                        *)
Offers(f, pc) ==
  IF Body[f][pc].do \in {"take", "opt"} THEN {Body[f][pc].arg[1]}
  ELSE UNION {Yields(g) : g \in Callees(f, pc)}

Place(f, i) == IF f \in PassOn THEN Yields(f) ELSE Slot(f, i)

(* How many trees a call holds when it comes to an instruction: so many,   *)
(* one more in a declaration with `var', any number more in the loops.     *)
Count ==
  [While |-> <<0, 0, 1, 2>>,
   FunDef |-> <<0, 1, 2>>,
   FunDecl |-> <<0, 1, 1, 1>>,
   Call |-> <<0, 1, 1, 1>>,
   NumLit |-> <<0, 1>>,
   Ident |-> <<0, 1>>,
   Term |-> <<0, 1>>,
   BinExpr |-> <<0, 0, 1, 0, 1, 1, 1>>,
   Expr |-> <<0, 1>>,
   Interval |-> <<0, 0, 1, 1, 2, 2>>,
   Asgn |-> <<0, 1, 1, 2>>,
   VarDef |-> <<0, 1, 1, 2>>,
   Decl |-> <<0, 1, 1, 1, 2>>,
   Scope |-> <<0, 0, 0, 0>>,
   If |-> <<0, 0, 1, 2>>,
   For |-> <<0, 0, 1, 1, 2, 3>>,
   Exit |-> <<0, 0, 1>>,
   Stmt |-> <<0, 1, 1>>,
   Root |-> <<0, 0>>]

Many(f, pc) ==
  \/ f = "Root"
  \/ f = "Scope" /\ pc >= 2
  \/ f \in {"FunDecl", "Call"} /\ pc >= 3

(* v is the kind of the second of them.                                    *)
Number(f, pc, n, v) ==
  IF f = "Decl"
  THEN \/ n = Count[f][pc] /\ (pc = 5 => v # "var")
       \/ n = Count[f][pc] + 1 /\ pc >= 4 /\ v = "var"
  ELSE n = Count[f][pc] \/ (Many(f, pc) /\ n > Count[f][pc])

HeldFact(f, pc) ==
  LET ins == Body[f][pc]
  IN  /\ ins.do = "climb" <=> f = "BinExpr" /\ pc \in {3, 6}
      /\ ins.do \in {"take", "opt"} => ins.arg[1] \in Kinds
      /\ \A n \in Nat : \A v : Number(f, pc, n, v) =>
           /\ ins.do \in {"eat", "opt", "list", "stats", "fork"} =>
                Number(f, pc + 1, n, v)
           /\ ins.do = "fork" => Number(f, pc + 3, n, v)
           /\ ins.do \in {"list", "stats"} =>
                \A k \in Offers(f, pc) : \A u : k \in Place(f, n + 1) /\ Number(f, pc, n + 1, u)
           /\ ins.do \in {"take", "opt", "call", "first"} =>
                \A k \in Offers(f, pc) :
                  /\ k \in Place(f, n + 1)
                  /\ \A u : (n = 1 => u = k) /\ (n > 1 => u = v)
                            => Number(f, pc + 1, n + 1, u)
           /\ ins.do = "climb" =>
                /\ n = 1 /\ \A u : Number(f, pc, 1, u) /\ Number(f, 7, 1, u)
                /\ Offers(f, pc) \cup Place(f, 1) \subseteq ExprKinds
                /\ "BinExpr" \in Place(f, 1)

EndFact(f) ==
  /\ \A v : Number(f, 1, 0, v)
  /\ \A n \in Nat : \A v : Number(f, Size(f) + 1, n, v) =>
       /\ f \in PassOn => n = 1
       /\ f \notin PassOn => /\ n \in Arity(f) /\ f \notin Kinds \cup {"BinExpr"}
                             /\ Yields(f) = {f}
                             /\ f = "Decl" => (v = "var" <=> n = 3)

LEMMA HeldTable ==
  \A f \in Functions : EndFact(f) /\ \A pc \in 1 .. Size(f) : HeldFact(f, pc)
<1> SUFFICES ASSUME NEW f \in Functions
             PROVE  EndFact(f) /\ \A pc \in 1 .. Size(f) : HeldFact(f, pc)
  OBVIOUS
<1>1. Functions = {"While", "FunDef", "FunDecl", "Call", "NumLit", "Ident",
                   "Term", "BinExpr", "Expr", "Interval", "Asgn", "VarDef",
                   "Decl", "Scope", "If", "For", "Exit", "Stmt", "Root"}
  BY DEF Functions, Body
<1> USE DEF Size, HeldFact, EndFact, Callees, Instr, Eat, Need, Take, Opt, Try, Must,
            First, ListOf, StatsUntil, Fork, Climb, Offers, Place, PassOn, Number, Many
<1>2. CASE f = "While"
  <2>1. Body[f] = TryParseWhile /\ Count[f] = <<0, 0, 1, 2>>
    BY <1>2 DEF Body, Count
  <2> QED BY <1>2, <2>1 DEF TryParseWhile, Yields, Slot, Arity, Kinds, Operators, Specials,
                          Keywords, ExprKinds, StmtKinds
<1>3. CASE f = "FunDef"
  <2>1. Body[f] = TryParseFunDef /\ Count[f] = <<0, 1, 2>>
    BY <1>3 DEF Body, Count
  <2> QED BY <1>3, <2>1 DEF TryParseFunDef, Yields, Slot, Arity, Kinds, Operators, Specials,
                          Keywords, ExprKinds, StmtKinds
<1>4. CASE f = "FunDecl"
  <2>1. Body[f] = TryParseFunDecl /\ Count[f] = <<0, 1, 1, 1>>
    BY <1>4 DEF Body, Count
  <2> QED BY <1>4, <2>1 DEF TryParseFunDecl, Yields, Slot, Arity, Kinds, Operators, Specials,
                          Keywords, ExprKinds, StmtKinds
<1>5. CASE f = "Call"
  <2>1. Body[f] = TryParseCall /\ Count[f] = <<0, 1, 1, 1>>
    BY <1>5 DEF Body, Count
  <2> QED BY <1>5, <2>1 DEF TryParseCall, Yields, Slot, Arity, Kinds, Operators, Specials,
                          Keywords, ExprKinds, StmtKinds
<1>6. CASE f = "NumLit"
  <2>1. Body[f] = TryParseNumLit /\ Count[f] = <<0, 1>>
    BY <1>6 DEF Body, Count
  <2> QED BY <1>6, <2>1 DEF TryParseNumLit, Yields, Slot, Arity, Kinds, Operators, Specials,
                          Keywords, ExprKinds, StmtKinds
<1>7. CASE f = "Ident"
  <2>1. Body[f] = TryParseIdent /\ Count[f] = <<0, 1>>
    BY <1>7 DEF Body, Count
  <2> QED BY <1>7, <2>1 DEF TryParseIdent, Yields, Slot, Arity, Kinds, Operators, Specials,
                          Keywords, ExprKinds, StmtKinds
<1>8. CASE f = "Term"
  <2>1. Body[f] = TryParseTerm /\ Count[f] = <<0, 1>>
    BY <1>8 DEF Body, Count
  <2> QED BY <1>8, <2>1 DEF TryParseTerm, Yields, Slot, Arity, Kinds, Operators, Specials,
                          Keywords, ExprKinds, StmtKinds
<1>9. CASE f = "BinExpr"
  <2>1. Body[f] = TryParseBinExpr /\ Count[f] = <<0, 0, 1, 0, 1, 1, 1>>
    BY <1>9 DEF Body, Count
  <2> QED BY <1>9, <2>1 DEF TryParseBinExpr, Yields, Slot, Arity, Kinds, Operators, Specials,
                          Keywords, ExprKinds, StmtKinds
<1>10. CASE f = "Expr"
  <2>1. Body[f] = TryParseExpr /\ Count[f] = <<0, 1>>
    BY <1>10 DEF Body, Count
  <2>2. Size(f) = 1 /\ Body[f][1].do = "first"
    BY <2>1 DEF TryParseExpr
  <2>3. Callees(f, 1) = {"Interval", "Asgn", "Call", "BinExpr"}
    BY <2>1 DEF TryParseExpr
  <2>4. Offers(f, 1) \subseteq ExprKinds /\ Place(f, 1) = ExprKinds
    BY <1>10, <2>2, <2>3 DEF Yields, ExprKinds
  <2>5. EndFact(f)
    BY <1>10, <2>1, <2>2
  <2>6. HeldFact(f, 1)
    <3> HIDE DEF Offers, Place, Callees
    <3> QED BY <1>10, <2>1, <2>2, <2>4
  <2> HIDE DEF EndFact, HeldFact
  <2> QED BY <2>2, <2>5, <2>6
<1>11. CASE f = "Interval"
  <2>1. Body[f] = TryParseInterval /\ Count[f] = <<0, 0, 1, 1, 2, 2>>
    BY <1>11 DEF Body, Count
  <2> QED BY <1>11, <2>1 DEF TryParseInterval, Yields, Slot, Arity, Kinds, Operators, Specials,
                          Keywords, ExprKinds, StmtKinds
<1>12. CASE f = "Asgn"
  <2>1. Body[f] = TryParseAsgn /\ Count[f] = <<0, 1, 1, 2>>
    BY <1>12 DEF Body, Count
  <2> QED BY <1>12, <2>1 DEF TryParseAsgn, Yields, Slot, Arity, Kinds, Operators, Specials,
                          Keywords, ExprKinds, StmtKinds
<1>13. CASE f = "VarDef"
  <2>1. Body[f] = TryParseVarDef /\ Count[f] = <<0, 1, 1, 2>>
    BY <1>13 DEF Body, Count
  <2> QED BY <1>13, <2>1 DEF TryParseVarDef, Yields, Slot, Arity, Kinds, Operators, Specials,
                          Keywords, ExprKinds, StmtKinds
<1>14. CASE f = "Decl"
  <2>1. Body[f] = TryParseDecl /\ Count[f] = <<0, 1, 1, 1, 2>>
    BY <1>14 DEF Body, Count
  <2> QED BY <1>14, <2>1 DEF TryParseDecl, Yields, Slot, Arity, Kinds, Operators, Specials,
                          Keywords, ExprKinds, StmtKinds
<1>15. CASE f = "Scope"
  <2>1. Body[f] = TryParseScope /\ Count[f] = <<0, 0, 0, 0>>
    BY <1>15 DEF Body, Count
  <2> QED BY <1>15, <2>1 DEF TryParseScope, Yields, Slot, Arity, Kinds, Operators, Specials,
                          Keywords, ExprKinds, StmtKinds
<1>16. CASE f = "If"
  <2>1. Body[f] = TryParseIf /\ Count[f] = <<0, 0, 1, 2>>
    BY <1>16 DEF Body, Count
  <2> QED BY <1>16, <2>1 DEF TryParseIf, Yields, Slot, Arity, Kinds, Operators, Specials,
                          Keywords, ExprKinds, StmtKinds
<1>17. CASE f = "For"
  <2>1. Body[f] = TryParseFor /\ Count[f] = <<0, 0, 1, 1, 2, 3>>
    BY <1>17 DEF Body, Count
  <2> QED BY <1>17, <2>1 DEF TryParseFor, Yields, Slot, Arity, Kinds, Operators, Specials,
                          Keywords, ExprKinds, StmtKinds
<1>18. CASE f = "Exit"
  <2>1. Body[f] = TryParseExit /\ Count[f] = <<0, 0, 1>>
    BY <1>18 DEF Body, Count
  <2> QED BY <1>18, <2>1 DEF TryParseExit, Yields, Slot, Arity, Kinds, Operators, Specials,
                          Keywords, ExprKinds, StmtKinds
<1>19. CASE f = "Stmt"
  <2>1. Body[f] = TryParseStmt /\ Count[f] = <<0, 1, 1>>
    BY <1>19 DEF Body, Count
  <2>2. /\ Size(f) = 2 /\ Body[f][1].do = "first" /\ Body[f][2].do = "eat"
    BY <2>1 DEF TryParseStmt
  <2>3. Callees(f, 1) = StmtKinds
    <3>1. Body[f][1].arg = <<"For", "VarDef", "If", "While", "Scope", "Exit", "Asgn",
                             "Decl", "FunDef", "FunDecl", "Call">>
      BY <2>1 DEF TryParseStmt
    <3> QED BY <2>2, <3>1 DEF StmtKinds
  <2>4. Offers(f, 1) \subseteq StmtKinds /\ Place(f, 1) = StmtKinds
    <3>1. \A g \in StmtKinds : Yields(g) = {g}
      BY DEF StmtKinds, Yields
    <3> HIDE DEF Callees
    <3> QED BY <1>19, <2>2, <2>3, <3>1 DEF Yields
  <2>5. EndFact(f)
    BY <1>19, <2>1, <2>2
  <2>6. HeldFact(f, 1) /\ HeldFact(f, 2)
    <3> HIDE DEF Offers, Place, Callees
    <3> QED BY <1>19, <2>1, <2>2, <2>4
  <2> HIDE DEF EndFact, HeldFact
  <2> QED BY <2>2, <2>5, <2>6
<1>20. CASE f = "Root"
  <2>1. Body[f] = TryParseRoot /\ Count[f] = <<0, 0>>
    BY <1>20 DEF Body, Count
  <2> QED BY <1>20, <2>1 DEF TryParseRoot, Yields, Slot, Arity, Kinds, Operators, Specials,
                          Keywords, ExprKinds, StmtKinds
<1> QED
  BY <1>1, <1>2, <1>3, <1>4, <1>5, <1>6, <1>7, <1>8, <1>9, <1>10, <1>11, <1>12, <1>13, <1>14, <1>15, <1>16, <1>17, <1>18, <1>19, <1>20
-----------------------------------------------------------------------------
(* Whether a call of f that has come to pc has consumed a token that is in *)
(* none of its trees.                                                      *)
Spent(f, pc) ==
  IF \/ f \in {"While", "If", "For", "Exit", "Scope", "Interval"} /\ pc >= 2
     \/ f \in {"FunDecl", "Call", "Asgn", "VarDef", "Decl"} /\ pc >= 3
  THEN 1 ELSE 0

LEMMA SpentTable ==
  \A f \in Functions :
    /\ Spent(f, 1) = 0
    /\ f \notin PassOn \cup {"Root"} => Spent(f, Size(f) + 1) = 1 \/ Arity(f) = {2}
    /\ f \in PassOn => \A pc \in Nat : Spent(f, pc) = 0
    /\ \A pc \in 1 .. Size(f) :
         /\ Spent(f, pc) \in 0 .. 1 /\ Spent(f, pc + 1) \in Spent(f, pc) .. 1
         /\ Body[f][pc].do # "eat" => Spent(f, pc + 1) = Spent(f, pc)
<1> SUFFICES ASSUME NEW f \in Functions
             PROVE  /\ Spent(f, 1) = 0
                    /\ f \notin PassOn \cup {"Root"}
                         => Spent(f, Size(f) + 1) = 1 \/ Arity(f) = {2}
                    /\ f \in PassOn => \A pc \in Nat : Spent(f, pc) = 0
                    /\ \A pc \in 1 .. Size(f) :
                         /\ Spent(f, pc) \in 0 .. 1
                         /\ Spent(f, pc + 1) \in Spent(f, pc) .. 1
                         /\ Body[f][pc].do # "eat" => Spent(f, pc + 1) = Spent(f, pc)
  OBVIOUS
<1> DEFINE A == {"While", "If", "For", "Exit", "Scope", "Interval"}
           B == {"FunDecl", "Call", "Asgn", "VarDef", "Decl"}
<1>1. Functions = A \cup B \cup PassOn \cup {"FunDef", "Root"}
  BY DEF Functions, Body, PassOn
<1>2. f \in A => Size(f) >= 1 /\ Body[f][1].do = "eat"
  BY DEF Size, Body, TryParseWhile, TryParseIf, TryParseFor, TryParseExit, TryParseScope,
         TryParseInterval, Instr, Eat, Need, Take, Opt, Try, Must, First, ListOf,
         StatsUntil
<1>3. f \in B => Size(f) >= 2 /\ Body[f][2].do = "eat"
  BY DEF Size, Body, TryParseFunDecl, TryParseCall, TryParseAsgn, TryParseVarDef,
         TryParseDecl, Instr, Eat, Need, Take, Opt, Try, Must, First, ListOf
<1>4. Arity("FunDef") = {2}
  BY DEF Arity, Kinds, Operators, Specials, Keywords
<1>5. Size(f) \in 1 .. 6
  BY BodyLemma
<1>6. ASSUME NEW pc \in 1 .. Size(f), Body[f][pc].do # "eat"
      PROVE  Spent(f, pc + 1) = Spent(f, pc)
  <2>1. ~(f \in A /\ pc = 1) /\ ~(f \in B /\ pc = 2) /\ pc \in Nat \ {0}
    BY <1>2, <1>3, <1>5, <1>6
  <2>2. (f \in A => pc >= 2) /\ (f \in B => (pc >= 3 <=> pc + 1 >= 3))
    BY <2>1
  <2> QED BY <2>1, <2>2 DEF Spent
<1>7. ASSUME f \in PassOn, NEW pc \in Nat PROVE Spent(f, pc) = 0
  BY <1>7 DEF Spent, PassOn
<1>8. ASSUME f \notin PassOn \cup {"Root"}
      PROVE  Spent(f, Size(f) + 1) = 1 \/ Arity(f) = {2}
  <2>1. f \in A \/ f \in B \/ f = "FunDef"
    BY <1>1, <1>8
  <2>2. (f \in A => Size(f) + 1 >= 2) /\ (f \in B => Size(f) + 1 >= 3)
    BY <1>2, <1>3, <1>5
  <2> QED BY <1>4, <2>1, <2>2 DEF Spent
<1>9. \A pc \in 1 .. Size(f) :
        Spent(f, pc) \in 0 .. 1 /\ Spent(f, pc + 1) \in Spent(f, pc) .. 1
  BY <1>5 DEF Spent
<1>10. Spent(f, 1) = 0
  BY DEF Spent
<1> QED BY <1>6, <1>7, <1>8, <1>9, <1>10

(* The trees ks of the call F, at pc, leave room for the tokens that it    *)
(* has spent of a span that ends at e.                                     *)
Slim(F, pc, ks, e) == Lean(ks, e - F.at - Spent(F.fn, pc))

LEMMA SlimOn ==
  ASSUME NEW F, F.fn \in Functions, NEW pc \in 1 .. Size(F.fn), F.at \in Nat,
         NEW S, NEW ks \in Seq(S), NEW t \in Nat, Slim(F, pc, ks, t)
  PROVE  /\ \A e \in Nat : t <= e => Slim(F, pc, ks, e)
         /\ \A e \in Nat : t < e => Slim(F, pc + 1, ks, e)
         /\ Body[F.fn][pc].do # "eat" =>
              \A e \in Nat : t <= e => Slim(F, pc + 1, ks, e)
         /\ F.fn \in PassOn => \A q, e \in Nat : t <= e => Slim(F, q, ks, e)
<1> DEFINE x == Spent(F.fn, pc)
           y == Spent(F.fn, pc + 1)
<1>1. /\ x \in 0 .. 1 /\ y \in x .. 1
      /\ Body[F.fn][pc].do # "eat" => y = x
  BY SpentTable
<1>2. Lean(ks, t - F.at - x)
  BY DEF Slim
<1> HIDE DEF x, y
<1>3. \A v \in Int : t - F.at - x <= v => Lean(ks, v)
  BY <1>2, LeanWiden
<1>4. ASSUME NEW e \in Nat, t <= e PROVE Slim(F, pc, ks, e)
  <2>1. e - F.at - x \in Int /\ t - F.at - x <= e - F.at - x
    BY <1>1, <1>4
  <2> QED BY <1>3, <2>1 DEF Slim, x
<1>5. ASSUME NEW e \in Nat, t < e \/ (t <= e /\ Body[F.fn][pc].do # "eat")
      PROVE  Slim(F, pc + 1, ks, e)
  <2>1. e - F.at - y \in Int /\ t - F.at - x <= e - F.at - y
    BY <1>1, <1>5
  <2> QED BY <1>3, <2>1 DEF Slim, y
<1>6. ASSUME F.fn \in PassOn, NEW q \in Nat, NEW e \in Nat, t <= e
      PROVE  Slim(F, q, ks, e)
  <2>1. Spent(F.fn, q) = 0 /\ x = 0
    BY <1>6, SpentTable, BodyLemma DEF x
  <2>2. e - F.at - 0 \in Int /\ t - F.at - x <= e - F.at - 0
    BY <1>6, <2>1
  <2> QED BY <1>3, <2>1, <2>2 DEF Slim
<1> QED BY <1>4, <1>5, <1>6

(* One tree more, in the tokens from t on.                                 *)
LEMMA SlimAppend ==
  ASSUME NEW F, F.fn \in Functions, NEW pc \in 1 .. Size(F.fn), F.at \in Nat,
         NEW S, NEW ks \in Seq(S), NEW t \in Nat, Slim(F, pc, ks, t),
         NEW n, NEW e \in Nat, Low(n, e - t)
  PROVE  /\ Slim(F, pc, Append(ks, n), e)
         /\ Body[F.fn][pc].do # "eat" => Slim(F, pc + 1, Append(ks, n), e)
<1> DEFINE x == Spent(F.fn, pc)
           w == t - F.at - x
           v == e - F.at - x
<1>1. /\ x \in 0 .. 1
      /\ Body[F.fn][pc].do # "eat" => Spent(F.fn, pc + 1) = x
  BY SpentTable
<1>2. Lean(ks, w)
  BY DEF Slim
<1> HIDE DEF x
<1>3. e - t \in Nat \ {0}
  BY LowKid
<1>4. v \in Int /\ w < v /\ v - w = e - t
  <2>1. \A a \in Nat : /\ e - a - x \in Int /\ t - a - x < e - a - x
                      /\ (e - a - x) - (t - a - x) = e - t
    BY <1>1, <1>3
  <2> QED BY <2>1
<1> HIDE DEF w, v
<1>5. Low(n, v - w)
  BY <1>4
<1>6. Lean(Append(ks, n), v)
  BY <1>2, <1>4, <1>5, LeanAppend
<1>7. Slim(F, pc, Append(ks, n), e)
  BY <1>6 DEF Slim, v, x
<1>8. ASSUME Body[F.fn][pc].do # "eat" PROVE Slim(F, pc + 1, Append(ks, n), e)
  <2>1. Spent(F.fn, pc + 1) = x
    BY <1>1, <1>8
  <2> QED BY <1>6, <2>1 DEF Slim, v
<1> QED BY <1>7, <1>8

(* The node of a function that builds one of the trees it holds at its     *)
(* end.                                                                    *)
LEMMA SlimEnd ==
  ASSUME NEW F, F.fn \in Functions, F.at \in Nat, NEW e \in Nat,
         NEW n, NEW S, n.kids \in Seq(S), Slim(F, Size(F.fn) + 1, n.kids, e),
         F.fn \notin PassOn, Len(n.kids) \in Arity(F.fn)
  PROVE  Low(n, e - F.at + 1) /\ (F.fn # "Root" => Low(n, e - F.at))
<1> DEFINE x == Spent(F.fn, Size(F.fn) + 1)
           l == Len(n.kids)
           w == e - F.at
           d == w - x - l + 1
<1>1. x \in 0 .. 1
  BY DEF Spent
<1>2. F.fn # "Root" => x = 1 \/ l = 2
  BY SpentTable
<1>3. /\ l \in Nat /\ l <= w - x /\ w \in Int
      /\ \A i \in 1 .. l : Low(n.kids[i], d)
  BY DEF Slim, Lean
<1> HIDE DEF x, l, w
<1>4. ASSUME NEW v \in Nat, l # 0 => d <= v PROVE Low(n, v + 1)
  <2>1. ASSUME NEW k \in Kids(n) PROVE Low(k, v)
    <3>1. PICK i \in 1 .. l : k = n.kids[i]
      BY DEF Kids, l
    <3>2. Low(n.kids[i], d) /\ l # 0
      BY <1>3, <3>1
    <3> HIDE DEF d
    <3> QED BY <1>4, <3>1, <3>2, LowWiden
  <2> QED BY <2>1, LowNode
<1>5. w \in Nat /\ (l # 0 => d <= w)
  BY <1>1, <1>3
<1>6. Low(n, w + 1)
  BY <1>4, <1>5
<1>7. ASSUME F.fn # "Root" PROVE Low(n, w)
  <2>1. w - 1 \in Nat /\ (l # 0 => d <= w - 1) /\ (w - 1) + 1 = w
    BY <1>1, <1>2, <1>3, <1>7
  <2>2. Low(n, (w - 1) + 1)
    BY <1>4, <2>1
  <2> QED BY <2>1, <2>2
<1> QED BY <1>6, <1>7 DEF w

(* The trees a call of f at instruction pc holds.                          *)
Held(f, pc, ks) ==
  /\ \A i \in 1 .. Len(ks) : ks[i].nt \in Place(f, i)
  /\ Number(f, pc, Len(ks), ks[2].nt)

(* For the calls s with the cursor at t, of which the last to return had   *)
(* begun at u (c is ctl): whether call k waits for another, and where its  *)
(* span ends, which is where that one began.                               *)
Waits(s, c, k)      == k < Len(s) \/ c # "run"
Edge(s, c, t, u, k) == IF k < Len(s) THEN s[k + 1].at
                       ELSE IF c = "run" THEN t ELSE u

(* The trees ks of the call F lie in its span; behind them there is the    *)
(* operator if it waits for a right operand.                               *)
CallOK(T, F, ks, e, w) ==
  LET climbs == w /\ Body[F.fn][F.pc].do = "climb"
  IN  /\ Held(F.fn, F.pc, ks)
      /\ Row(T, ks, F.at, IF climbs THEN e - 1 ELSE e)
      /\ Slim(F, F.pc, ks, IF climbs THEN e - 1 ELSE e)
      /\ climbs => F.at < e /\ T[e] \in Operators

CallsOK(T, s, q, c, t, u) ==
  \A k \in 1 .. Len(s) : CallOK(T, s[k], q[k], Edge(s, c, t, u, k), Waits(s, c, k))

Nested(q) == \E S : q \in Seq(Seq(S))

Collected ==
  ctl \in {"run", "node", "null"} =>
    /\ Nested(kids) /\ Len(kids) = Len(stack)
    /\ CallsOK(Tokens, stack, kids, ctl, TokenIndex, from)
    /\ ctl = "node" =>
         /\ Fits(Tokens, val, from, TokenIndex) /\ from <= TokenIndex
         /\ Low(val, TokenIndex - from + 1)
         /\ stack # <<>> => /\ val.nt \in Offers(Top.fn, Top.pc)
                           /\ Low(val, TokenIndex - from)

LEMMA NestedAppend ==
  ASSUME NEW q, Nested(q)
  PROVE  /\ Nested(Append(q, <<>>)) /\ Len(Append(q, <<>>)) = Len(q) + 1
         /\ Append(q, <<>>)[Len(q) + 1] = <<>>
         /\ \A k \in 1 .. Len(q) : Append(q, <<>>)[k] = q[k]
<1>1. PICK S : q \in Seq(Seq(S))
  BY DEF Nested
<1>2. <<>> \in Seq(S)
  OBVIOUS
<1>3. Append(q, <<>>) \in Seq(Seq(S))
  BY <1>1, <1>2
<1> QED BY <1>1, <1>3 DEF Nested

LEMMA NestedFront ==
  ASSUME NEW q, Nested(q), Len(q) > 0
  PROVE  LET r == SubSeq(q, 1, Len(q) - 1)
         IN  /\ Nested(r) /\ Len(r) = Len(q) - 1
             /\ \A k \in 1 .. Len(q) - 1 : r[k] = q[k]
<1>1. PICK S : q \in Seq(Seq(S))
  BY DEF Nested
<1> DEFINE n == Len(q)
           r == SubSeq(q, 1, n - 1)
<1>2. n \in Nat \ {0} /\ \A k \in 1 .. n - 1 : q[k] \in Seq(S)
  BY <1>1
<1>3. /\ r \in Seq(Seq(S))
      /\ Len(r) = IF 1 <= n - 1 THEN (n - 1) - 1 + 1 ELSE 0
      /\ \A i \in 1 .. (n - 1) - 1 + 1 : r[i] = q[1 + i - 1]
  BY <1>1, <1>2, SubSeqProperties
<1> HIDE DEF r, n
<1>4. Len(r) = n - 1 /\ n - 1 = (n - 1) - 1 + 1 /\ \A k \in Nat : 1 + k - 1 = k
  BY <1>2, <1>3
<1>5. \A k \in 1 .. n - 1 : r[k] = q[k]
  <2> SUFFICES ASSUME NEW k \in 1 .. n - 1 PROVE r[k] = q[k]
    OBVIOUS
  <2>1. k \in 1 .. (n - 1) - 1 + 1 /\ 1 + k - 1 = k
    BY <1>2, <1>4
  <2> QED BY <1>3, <2>1
<1>6. Nested(r)
  BY <1>3 DEF Nested
<1> QED BY <1>4, <1>5, <1>6 DEF r, n

(* One call's trees are replaced.                                          *)
LEMMA NestedExcept ==
  ASSUME NEW q, Nested(q), Len(q) > 0, NEW S, NEW ks \in Seq(S)
  PROVE  LET r == [q EXCEPT ![Len(q)] = ks]
         IN  /\ Nested(r) /\ Len(r) = Len(q) /\ r[Len(q)] = ks
             /\ \A k \in 1 .. Len(q) - 1 : r[k] = q[k]
<1>1. PICK U : q \in Seq(Seq(U))
  BY DEF Nested
<1> DEFINE r == [q EXCEPT ![Len(q)] = ks]
           V == U \cup S
<1>2. /\ q \in [1 .. Len(q) -> Seq(U)] /\ Len(q) \in Nat \ {0}
  BY <1>1
<1>3. Seq(U) \subseteq Seq(V) /\ ks \in Seq(V)
  <2>1. \A s \in Seq(U) : s \in Seq(V)
    <3> SUFFICES ASSUME NEW s \in Seq(U) PROVE s \in Seq(V)
      OBVIOUS
    <3>1. s \in [1 .. Len(s) -> U] /\ Len(s) \in Nat
      OBVIOUS
    <3>2. s \in [1 .. Len(s) -> V]
      BY <3>1
    <3> QED BY <3>1, <3>2
  <2>2. ks \in [1 .. Len(ks) -> S] /\ Len(ks) \in Nat
    OBVIOUS
  <2>3. ks \in [1 .. Len(ks) -> V]
    BY <2>2
  <2> QED BY <2>1, <2>2, <2>3
<1>4. r \in [1 .. Len(q) -> Seq(V)]
  BY <1>2, <1>3
<1>5. r \in Seq(Seq(V)) /\ Len(r) = Len(q)
  BY <1>2, <1>4
<1>6. r[Len(q)] = ks /\ \A k \in 1 .. Len(q) - 1 : r[k] = q[k]
  BY <1>2
<1> HIDE DEF r, V
<1>7. Nested(r)
  BY <1>5 DEF Nested
<1> QED BY <1>5, <1>6, <1>7 DEF r
(* The calls below the innermost one are as they were.                     *)
LEMMA CallsBelow ==
  ASSUME NEW T, NEW s, NEW q, NEW c, NEW t, NEW u, CallsOK(T, s, q, c, t, u),
         Len(s) \in Nat \ {0},
         NEW r, NEW p, NEW d, NEW v, NEW w, Len(r) \in Nat, Len(s) <= Len(r),
         \A k \in 1 .. Len(s) - 1 : r[k] = s[k] /\ p[k] = q[k],
         r[Len(s)].at = s[Len(s)].at
  PROVE  \A k \in 1 .. Len(s) - 1 :
           CallOK(T, r[k], p[k], Edge(r, d, v, w, k), Waits(r, d, k))
<1> SUFFICES ASSUME NEW k \in 1 .. Len(s) - 1
             PROVE  CallOK(T, r[k], p[k], Edge(r, d, v, w, k), Waits(r, d, k))
  OBVIOUS
<1>1. k < Len(s) /\ k < Len(r) /\ k \in 1 .. Len(s)
  OBVIOUS
<1>2. CallOK(T, s[k], q[k], Edge(s, c, t, u, k), Waits(s, c, k))
  BY <1>1 DEF CallsOK
<1>3. r[k + 1].at = s[k + 1].at
  BY <1>1
<1>4. /\ Edge(r, d, v, w, k) = Edge(s, c, t, u, k)
      /\ Waits(r, d, k) = TRUE /\ Waits(s, c, k) = TRUE
  BY <1>1, <1>3 DEF Edge, Waits
<1> QED BY <1>2, <1>4

(* The innermost call moves on, with the trees ks.                         *)
LEMMA MoveCollects ==
  ASSUME IInv, Collected, stack # <<>>, ctl \in {"run", "node", "null"},
         NEW F, F.fn = Top.fn, F.at = Top.at,
         Len(stack') = Len(stack), stack'[Len(stack)] = F,
         \A k \in 1 .. Len(stack) - 1 : stack'[k] = stack[k],
         NEW ks, Nested(kids'), Len(kids') = Len(kids), kids'[Len(kids)] = ks,
         \A k \in 1 .. Len(kids) - 1 : kids'[k] = kids[k],
         Tokens' = Tokens, ctl' = "run",
         Held(F.fn, F.pc, ks), Row(Tokens, ks, F.at, TokenIndex'),
         Slim(F, F.pc, ks, TokenIndex')
  PROVE  Collected'
<1>1. /\ Len(stack) \in Nat \ {0} /\ Len(kids) = Len(stack)
      /\ CallsOK(Tokens, stack, kids, ctl, TokenIndex, from)
  BY TopLemma DEF Collected
<1>2. \A k \in 1 .. Len(stack) - 1 :
        CallOK(Tokens, stack'[k], kids'[k], Edge(stack', ctl', TokenIndex', from', k),
               Waits(stack', ctl', k))
  BY <1>1, CallsBelow DEF Top
<1>3. /\ Edge(stack', ctl', TokenIndex', from', Len(stack)) = TokenIndex'
      /\ Waits(stack', ctl', Len(stack)) = FALSE
  BY <1>1 DEF Edge, Waits
<1>4. CallOK(Tokens, stack'[Len(stack)], kids'[Len(stack)],
             Edge(stack', ctl', TokenIndex', from', Len(stack)),
             Waits(stack', ctl', Len(stack)))
  BY <1>1, <1>3 DEF CallOK
<1>5. \A k \in 1 .. Len(stack') : k \in 1 .. Len(stack) - 1 \/ k = Len(stack)
  BY <1>1
<1>6. CallsOK(Tokens, stack', kids', ctl', TokenIndex', from')
  BY <1>2, <1>4, <1>5 DEF CallsOK
<1> QED BY <1>1, <1>6 DEF Collected

(* It calls another function, past an operator or not.                     *)
LEMMA CallCollects ==
  ASSUME IInv, Collected, stack # <<>>, ctl = "run",
         NEW g \in Functions, NEW min, Call(g, TokenIndex', min), Tokens' = Tokens,
         \/ Ins.do # "climb" /\ TokenIndex' = TokenIndex
         \/ /\ TokenIndex' = TokenIndex + 1 /\ Ins.do = "climb"
            /\ Tokens[TokenIndex + 1] \in Operators
  PROVE  Collected'
<1> DEFINE n == Len(stack)
<1>1. /\ n \in Nat \ {0} /\ Len(kids) = n /\ TokenIndex \in Nat
      /\ CallsOK(Tokens, stack, kids, ctl, TokenIndex, from)
      /\ Top.at <= TokenIndex /\ Top.at \in Nat /\ stack \in Seq(Frame)
  BY TopLemma DEF Collected, IInv, TypeOK, Frame
<1>2. /\ Len(stack') = n + 1 /\ stack'[n + 1] = Enter(g, TokenIndex', min)
      /\ \A k \in 1 .. n : stack'[k] = stack[k]
  BY <1>1 DEF Call
<1>3. /\ Nested(kids') /\ Len(kids') = n + 1 /\ kids'[n + 1] = <<>>
      /\ \A k \in 1 .. n : kids'[k] = kids[k]
  BY <1>1, NestedAppend DEF Call, Collected
<1>4. \A k \in 1 .. n - 1 :
        CallOK(Tokens, stack'[k], kids'[k], Edge(stack', ctl', TokenIndex', from', k),
               Waits(stack', ctl', k))
  <2>1. /\ CallsOK(Tokens, stack, kids, ctl, TokenIndex, from)
        /\ Len(stack) \in Nat \ {0} /\ Len(stack') \in Nat /\ Len(stack) <= Len(stack')
        /\ \A k \in 1 .. Len(stack) - 1 : stack'[k] = stack[k] /\ kids'[k] = kids[k]
        /\ stack'[Len(stack)].at = stack[Len(stack)].at
    BY <1>1, <1>2, <1>3
  <2>2. \A k \in 1 .. Len(stack) - 1 :
          CallOK(Tokens, stack'[k], kids'[k], Edge(stack', ctl', TokenIndex', from', k),
                 Waits(stack', ctl', k))
    BY <2>1, CallsBelow
  <2> QED BY <2>2
<1>5. CallOK(Tokens, stack'[n], kids'[n], Edge(stack', ctl', TokenIndex', from', n),
             Waits(stack', ctl', n))
  <2>1. CallOK(Tokens, stack[n], kids[n], TokenIndex, FALSE)
    <3>1. Edge(stack, ctl, TokenIndex, from, n) = TokenIndex /\ Waits(stack, ctl, n) = FALSE
      BY <1>1 DEF Edge, Waits
    <3>2. n \in 1 .. Len(stack)
      BY <1>1
    <3>3. CallOK(Tokens, stack[n], kids[n], Edge(stack, ctl, TokenIndex, from, n),
                 Waits(stack, ctl, n))
      BY <1>1, <3>2 DEF CallsOK
    <3> QED BY <3>1, <3>3
  <2>2. /\ Edge(stack', ctl', TokenIndex', from', n) = TokenIndex'
        /\ Waits(stack', ctl', n) = TRUE
    BY <1>1, <1>2 DEF Edge, Waits, Enter
  <2>3. Ins = Body[stack[n].fn][stack[n].pc] /\ Top = stack[n]
    BY DEF Ins, Top
  <2>4. (IF Ins.do = "climb" THEN TokenIndex' - 1 ELSE TokenIndex') = TokenIndex
    BY <1>1
  <2> QED BY <1>1, <1>2, <1>3, <2>1, <2>2, <2>3, <2>4 DEF CallOK
<1>6. CallOK(Tokens, stack'[n + 1], kids'[n + 1],
             Edge(stack', ctl', TokenIndex', from', n + 1), Waits(stack', ctl', n + 1))
  <2>1. Waits(stack', ctl', n + 1) = FALSE
    BY <1>1, <1>2 DEF Waits, Call
  <2>2. Number(g, 1, 0, <<>>[2].nt)
    BY HeldTable, Zenon DEF EndFact
  <2>3. Held(g, 1, <<>>) /\ \A a, b : Row(Tokens, <<>>, a, b)
    BY <2>2 DEF Held, Row
  <2>4. Held(stack'[n + 1].fn, stack'[n + 1].pc, kids'[n + 1])
    BY <1>2, <1>3, <2>3 DEF Enter
  <2>5. Edge(stack', ctl', TokenIndex', from', n + 1) = TokenIndex'
    BY <1>1, <1>2 DEF Edge, Call
  <2> DEFINE F == stack'[n + 1]
  <2>6. F.fn = g /\ F.pc = 1 /\ F.at = TokenIndex' /\ TokenIndex' \in Nat
    BY <1>1, <1>2 DEF Enter
  <2> HIDE DEF F
  <2>7. Slim(F, F.pc, <<>>, TokenIndex')
    <3>1. Spent(F.fn, F.pc) = 0
      BY <2>6, SpentTable
    <3>2. TokenIndex' - F.at - 0 = 0
      <4>1. \A t \in Nat : t - t - 0 = 0
        OBVIOUS
      <4> QED BY <2>6, <4>1
    <3>3. Lean(<<>>, 0)
      BY DEF Lean
    <3> QED BY <3>1, <3>2, <3>3 DEF Slim
  <2> QED BY <1>3, <2>1, <2>3, <2>4, <2>5, <2>7 DEF CallOK, F
<1>7. CallsOK(Tokens, stack', kids', ctl', TokenIndex', from')
  <2>1. \A k \in 1 .. Len(stack') : k \in 1 .. n - 1 \/ k = n \/ k = n + 1
    BY <1>1, <1>2
  <2> QED BY <1>4, <1>5, <1>6, <2>1 DEF CallsOK
<1> QED BY <1>2, <1>3, <1>7 DEF Collected, Call

(* It returns, with a tree of its span and of a kind its caller expects.   *)
LEMMA ReturnCollects ==
  ASSUME IInv, Collected, stack # <<>>, ctl \in {"run", "node", "null"},
         NEW c \in {"node", "null"}, NEW v, Return(c, v), Tokens' = Tokens,
         c = "node" => /\ Fits(Tokens, v, Top.at, TokenIndex') /\ Top.at <= TokenIndex'
                       /\ v.nt \in Yields(Top.fn)
                       /\ Low(v, TokenIndex' - Top.at + 1)
                       /\ Top.fn # "Root" => Low(v, TokenIndex' - Top.at)
  PROVE  Collected'
<1> DEFINE n == Len(stack)
<1>1. /\ n \in Nat \ {0} /\ Len(kids) = n
      /\ CallsOK(Tokens, stack, kids, ctl, TokenIndex, from)
      /\ stack \in Seq(Frame)
  BY TopLemma DEF Collected, IInv, TypeOK
<1>2. Len(stack') = n - 1 /\ \A k \in 1 .. n - 1 : stack'[k] = stack[k]
  BY <1>1 DEF Return
<1>3. /\ Nested(kids') /\ Len(kids') = n - 1
      /\ \A k \in 1 .. n - 1 : kids'[k] = kids[k]
  BY <1>1, NestedFront DEF Return, Collected
<1>4. ctl' = c /\ val' = v /\ from' = Top.at /\ Top.at = stack[n].at
  BY DEF Return, Top
<1>5. ASSUME NEW k \in 1 .. n - 1
      PROVE  CallOK(Tokens, stack'[k], kids'[k],
                    Edge(stack', ctl', TokenIndex', from', k), Waits(stack', ctl', k))
  <2>1. CallOK(Tokens, stack[k], kids[k], stack[k + 1].at, TRUE)
    <3>1. k < n /\ k \in 1 .. n
      BY <1>1
    <3>2. Edge(stack, ctl, TokenIndex, from, k) = stack[k + 1].at
            /\ Waits(stack, ctl, k) = TRUE
      BY <3>1 DEF Edge, Waits
    <3> QED BY <1>1, <3>1, <3>2 DEF CallsOK
  <2>2. /\ Edge(stack', ctl', TokenIndex', from', k) = stack[k + 1].at
        /\ Waits(stack', ctl', k) = TRUE
    <3>1. CASE k < n - 1
      BY <1>1, <1>2, <3>1 DEF Edge, Waits
    <3>2. CASE k = n - 1
      BY <1>1, <1>2, <1>4, <3>2 DEF Edge, Waits
    <3>3. k < n - 1 \/ k = n - 1
      BY <1>1
    <3> QED BY <3>1, <3>2, <3>3
  <2> QED BY <1>2, <1>3, <2>1, <2>2
<1>6. CallsOK(Tokens, stack', kids', ctl', TokenIndex', from')
  BY <1>2, <1>5 DEF CallsOK
<1>7. ASSUME c = "node", stack' # <<>>
      PROVE  v.nt \in Offers(Top.fn, Top.pc)' /\ Top.fn # "Root"
  <2>1. n - 1 \in 1 .. n /\ n - 1 < n /\ Top' = stack[n - 1] /\ n - 1 + 1 = n
    BY <1>1, <1>2, <1>7 DEF Top
  <2>2. Top.fn \in Callees(stack[n - 1].fn, stack[n - 1].pc)
    BY <1>1, <2>1 DEF IInv, FramesOK, FrameOK, Top
  <2>3. Offers(stack[n - 1].fn, stack[n - 1].pc)
          = UNION {Yields(g) : g \in Callees(stack[n - 1].fn, stack[n - 1].pc)}
    BY <2>2 DEF Offers, Callees
  <2>4. v.nt \in Offers(Top.fn, Top.pc)'
    BY <1>7, <2>1, <2>2, <2>3
  <2>5. Top.fn # "Root"
    <3>1. n > 1 /\ n \in 1 .. n
      BY <1>1, <2>1
    <3> QED BY <1>1, <3>1 DEF IInv, FramesOK, FrameOK, Top
  <2> QED BY <2>4, <2>5
<1> QED BY <1>2, <1>3, <1>4, <1>6, <1>7 DEF Collected
-----------------------------------------------------------------------------
(* The trees of the innermost call, and the span they lie in.              *)
LEMMA TopHolds ==
  ASSUME IInv, Collected, stack # <<>>, ctl \in {"run", "node", "null"}
  PROVE  LET ks == kids[Len(kids)]
             climbs == ctl # "run" /\ Ins.do = "climb"
             e == IF ctl = "run" THEN TokenIndex ELSE from
         IN  /\ Len(kids) = Len(stack) /\ Len(stack) \in Nat \ {0} /\ Nested(kids)
             /\ \E S : ks \in Seq(S)
             /\ Held(Top.fn, Top.pc, ks)
             /\ Row(Tokens, ks, Top.at, IF climbs THEN e - 1 ELSE e)
             /\ Slim(Top, Top.pc, ks, IF climbs THEN e - 1 ELSE e)
             /\ climbs => Top.at < e /\ Tokens[e] \in Operators
<1> DEFINE n == Len(stack)
<1>1. /\ n \in Nat \ {0} /\ Len(kids) = n /\ Nested(kids)
      /\ CallsOK(Tokens, stack, kids, ctl, TokenIndex, from)
  BY TopLemma DEF Collected
<1>2. n \in 1 .. Len(stack) /\ Top = stack[n]
  BY <1>1 DEF Top
<1>3. CallOK(Tokens, Top, kids[n], Edge(stack, ctl, TokenIndex, from, n),
             Waits(stack, ctl, n))
  BY <1>1, <1>2 DEF CallsOK
<1>4. /\ Edge(stack, ctl, TokenIndex, from, n) = IF ctl = "run" THEN TokenIndex ELSE from
      /\ Waits(stack, ctl, n) = (ctl # "run")
  BY <1>1 DEF Edge, Waits
<1>5. \E S : kids[n] \in Seq(S)
  BY <1>1 DEF Nested
<1> QED BY <1>1, <1>3, <1>4, <1>5 DEF CallOK, Ins

(* It goes on to the instruction of F without a further tree.              *)
LEMMA KeepCollects ==
  ASSUME IInv, Collected, stack # <<>>, ctl \in {"run", "node", "null"},
         NEW F, F.fn = Top.fn, F.at = Top.at,
         stack' = [stack EXCEPT ![Len(stack)] = F],
         UNCHANGED <<Tokens, kids>>, ctl' = "run",
         Held(F.fn, F.pc, kids[Len(kids)]), TokenIndex' \in Nat,
         NEW c \in Nat, Row(Tokens, kids[Len(kids)], Top.at, c), c <= TokenIndex',
         Slim(Top, F.pc, kids[Len(kids)], TokenIndex')
  PROVE  Collected'
<1>1. /\ Len(stack) \in Nat \ {0} /\ Len(kids) = Len(stack) /\ Nested(kids)
      /\ stack \in Seq(Frame) /\ Top.at \in Nat
  BY TopLemma DEF Collected, IInv, TypeOK, Frame
<1>2. /\ Len(stack') = Len(stack) /\ stack'[Len(stack)] = F
      /\ \A k \in 1 .. Len(stack) - 1 : stack'[k] = stack[k]
  BY <1>1
<1>3. Row(Tokens, kids[Len(kids)], F.at, TokenIndex')
  BY <1>1, RowWiden
<1>4. Slim(F, F.pc, kids[Len(kids)], TokenIndex')
  BY DEF Slim
<1> QED BY <1>1, <1>2, <1>3, <1>4, MoveCollects

LEMMA HeldAppend ==
  ASSUME NEW f \in Functions, NEW pc \in 1 .. Size(f), NEW S, NEW ks \in Seq(S),
         NEW n, n.nt \in Offers(f, pc), Held(f, pc, ks)
  PROVE  /\ Body[f][pc].do \in {"take", "opt", "call", "first"}
              => Held(f, pc + 1, Append(ks, n))
         /\ Body[f][pc].do \in {"list", "stats"} => Held(f, pc, Append(ks, n))
<1> DEFINE r == Append(ks, n)
<1>1. HeldFact(f, pc)
  BY HeldTable, Zenon
<1>2. /\ Len(r) = Len(ks) + 1 /\ Len(ks) \in Nat /\ r[Len(ks) + 1] = n
      /\ \A i \in 1 .. Len(ks) : r[i] = ks[i]
  OBVIOUS
<1> HIDE DEF r
<1>3. /\ Len(ks) = 1 => r[2].nt = n.nt
      /\ Len(ks) > 1 => r[2].nt = ks[2].nt
  <2>1. CASE Len(ks) = 1
    BY <1>2, <2>1
  <2>2. CASE Len(ks) > 1
    BY <1>2, <2>2
  <2> QED BY <2>1, <2>2
<1>4. ASSUME n.nt \in Place(f, Len(ks) + 1), NEW i \in 1 .. Len(r)
      PROVE  r[i].nt \in Place(f, i)
  <2>1. i \in 1 .. Len(ks) \/ i = Len(ks) + 1
    BY <1>2
  <2> QED BY <1>2, <1>4, <2>1 DEF Held
<1>5. Number(f, pc, Len(ks), ks[2].nt)
  BY DEF Held
<1>6. CASE Body[f][pc].do \in {"take", "opt", "call", "first"}
  <2>1. /\ n.nt \in Place(f, Len(ks) + 1)
        /\ Number(f, pc + 1, Len(ks) + 1, r[2].nt)
    BY <1>1, <1>2, <1>3, <1>5, <1>6 DEF HeldFact
  <2>2. Held(f, pc + 1, r)
    BY <1>2, <1>4, <2>1 DEF Held
  <2> QED BY <1>6, <2>2 DEF r
<1>7. CASE Body[f][pc].do \in {"list", "stats"}
  <2>1. /\ n.nt \in Place(f, Len(ks) + 1)
        /\ Number(f, pc, Len(ks) + 1, r[2].nt)
    BY <1>1, <1>2, <1>5, <1>7 DEF HeldFact
  <2>2. Held(f, pc, r)
    BY <1>2, <1>4, <2>1 DEF Held
  <2> QED BY <1>7, <2>2 DEF r
<1> QED BY <1>6, <1>7

(* It collects a tree, which begins behind those it holds.                 *)
LEMMA TakeCollects ==
  ASSUME IInv, Collected, stack # <<>>, ctl \in {"run", "node", "null"},
         NEW n, n.nt \in Offers(Top.fn, Top.pc), Collect(n),
         Top.pc <= Size(Top.fn),
         \/ Ins.do \in {"take", "opt", "call", "first"} /\ Goto(Top.pc + 1)
         \/ Ins.do \in {"list", "stats"} /\ UNCHANGED stack,
         Tokens' = Tokens, ctl' = "run", TokenIndex' \in Nat,
         NEW c \in Nat, Row(Tokens, kids[Len(kids)], Top.at, c), Top.at <= c,
         c <= TokenIndex', Fits(Tokens, n, c, TokenIndex'),
         Slim(Top, Top.pc, kids[Len(kids)], c), Low(n, TokenIndex' - c)
  PROVE  Collected'
<1> DEFINE ks == kids[Len(kids)]
           r  == Append(ks, n)
           F  == stack'[Len(stack)]
<1>1. /\ Len(stack) \in Nat \ {0} /\ Len(kids) = Len(stack) /\ Nested(kids)
      /\ \E S : ks \in Seq(S)
      /\ Held(Top.fn, Top.pc, ks)
  BY TopHolds
<1>2. /\ stack \in Seq(Frame) /\ Top \in Frame /\ Top.fn \in Functions
      /\ Top.at \in Nat /\ Top.pc \in 1 .. Size(Top.fn)
  BY TopLemma, SMTT(30) DEF IInv, TypeOK, Frame
<1>3. PICK S : ks \in Seq(S)
  BY <1>1
<1>4. \E U : r \in Seq(U)
  <2>1. ks \in [1 .. Len(ks) -> S] /\ Len(ks) \in Nat
    BY <1>3
  <2> DEFINE U == S \cup {n}
  <2>2. ks \in [1 .. Len(ks) -> U] /\ n \in U
    BY <2>1
  <2> HIDE DEF U, ks
  <2>3. ks \in Seq(U)
    BY <2>1, <2>2
  <2>4. Append(ks, n) \in Seq(U)
    BY <2>2, <2>3
  <2> QED BY <2>4
<1>5. Row(Tokens, r, Top.at, TokenIndex')
  BY <1>2, <1>3, RowAppend
<1>6. /\ Ins.do \in {"take", "opt", "call", "first"} => Held(Top.fn, Top.pc + 1, r)
      /\ Ins.do \in {"list", "stats"} => Held(Top.fn, Top.pc, r)
  <2> HIDE DEF ks, r
  <2>1. r = Append(ks, n)
    BY DEF r
  <2> QED BY <1>1, <1>2, <1>3, <2>1, HeldAppend DEF Ins
<1>7. /\ Nested(kids') /\ Len(kids') = Len(kids) /\ kids'[Len(kids)] = r
      /\ \A k \in 1 .. Len(kids) - 1 : kids'[k] = kids[k]
  <2>1. kids' = [kids EXCEPT ![Len(kids)] = r]
    BY DEF Collect
  <2> HIDE DEF r
  <2>2. PICK U : r \in Seq(U)
    BY <1>4
  <2>3. Nested(kids) /\ Len(kids) > 0
    BY <1>1
  <2>4. \A X : X \in Seq(U) =>
          LET p == [kids EXCEPT ![Len(kids)] = X]
          IN  /\ Nested(p) /\ Len(p) = Len(kids) /\ p[Len(kids)] = X
              /\ \A k \in 1 .. Len(kids) - 1 : p[k] = kids[k]
    BY <2>3, NestedExcept
  <2> QED BY <2>1, <2>2, <2>4
<1>8. /\ Len(stack') = Len(stack)
      /\ \A k \in 1 .. Len(stack) - 1 : stack'[k] = stack[k]
      /\ F.fn = Top.fn /\ F.at = Top.at
      /\ F.pc = IF Ins.do \in {"list", "stats"} THEN Top.pc ELSE Top.pc + 1
  <2>1. CASE Ins.do \in {"take", "opt", "call", "first"} /\ Goto(Top.pc + 1)
    <3> DEFINE G == [Top EXCEPT !.pc = Top.pc + 1]
    <3>1. stack' = [stack EXCEPT ![Len(stack)] = G]
      BY <2>1, ZenonT(30) DEF Goto, Top
    <3>2. G.fn = Top.fn /\ G.at = Top.at /\ G.pc = Top.pc + 1
      BY <1>2 DEF Frame
    <3> HIDE DEF G
    <3>3. /\ Len(stack') = Len(stack) /\ F = G
          /\ \A k \in 1 .. Len(stack) - 1 : stack'[k] = stack[k]
      BY <1>1, <1>2, <3>1
    <3> HIDE DEF F
    <3> QED BY <2>1, <3>2, <3>3
  <2>2. CASE Ins.do \in {"list", "stats"} /\ UNCHANGED stack
    BY <1>1, <2>2 DEF Top
  <2> QED BY <2>1, <2>2
<1>9. Slim(F, F.pc, r, TokenIndex')
  <2>1. /\ Slim(Top, Top.pc, r, TokenIndex')
        /\ Body[Top.fn][Top.pc].do # "eat" => Slim(Top, Top.pc + 1, r, TokenIndex')
    <3> HIDE DEF r, ks
    <3>1. r = Append(ks, n) /\ Slim(Top, Top.pc, ks, c)
      BY DEF r, ks
    <3> QED BY <1>2, <1>3, <3>1, SlimAppend
  <2> HIDE DEF r, F
  <2>2. Slim(Top, F.pc, r, TokenIndex')
    BY <1>8, <2>1 DEF Ins
  <2> QED BY <1>8, <2>2 DEF Slim
<1> HIDE DEF r, F
<1>10. Held(F.fn, F.pc, r) /\ Row(Tokens, r, F.at, TokenIndex')
  BY <1>5, <1>6, <1>8
<1> QED BY <1>1, <1>7, <1>8, <1>9, <1>10, MoveCollects DEF F

LEMMA GiveUpCollects ==
  ASSUME IInv, Collected, stack # <<>>, ctl \in {"run", "node", "null"},
         NEW m, GiveUp(m), Tokens' = Tokens
  PROVE  Collected'
<1>1. CASE Return("null", Null)
  BY <1>1, ReturnCollects
<1>2. CASE ctl' = "crash"
  BY <1>2 DEF Collected
<1> QED BY <1>1, <1>2 DEF GiveUp
-----------------------------------------------------------------------------
LEMMA InitCollected == Init => Collected
<1> SUFFICES ASSUME Init PROVE Collected
  OBVIOUS
<1>1. /\ stack = <<Enter("Root", 0, 0)>> /\ kids = << <<>> >> /\ ctl = "run"
      /\ Len(stack) = 1 /\ Len(kids) = 1 /\ kids[1] = <<>>
      /\ stack[1].fn = "Root" /\ stack[1].pc = 1
  BY DEF Init, Enter
<1>2. Number("Root", 1, 0, <<>>[2].nt)
  <2>1. "Root" \in Functions
    BY DEF Functions, Body
  <2> QED BY <2>1, HeldTable, Zenon DEF EndFact
<1>3. CallOK(Tokens, stack[1], kids[1], Edge(stack, ctl, TokenIndex, from, 1),
             Waits(stack, ctl, 1))
  <2>1. Slim(stack[1], 1, kids[1], 0)
    <3>1. Spent("Root", 1) = 0 /\ stack[1].at = 0
      BY <1>1 DEF Spent, Enter
    <3>2. 0 - 0 - 0 = 0
      OBVIOUS
    <3>3. Lean(<<>>, 0)
      BY DEF Lean
    <3> QED BY <1>1, <3>1, <3>2, <3>3 DEF Slim
  <2>2. Edge(stack, ctl, TokenIndex, from, 1) = 0
    BY <1>1 DEF Edge, Init
  <2> QED BY <1>1, <1>2, <2>1, <2>2 DEF CallOK, Held, Row, Waits
<1>4. Nested(kids)
  <2>1. kids \in Seq(Seq({}))
    BY <1>1
  <2> QED BY <2>1 DEF Nested
<1>5. CallsOK(Tokens, stack, kids, ctl, TokenIndex, from)
  BY <1>1, <1>3 DEF CallsOK
<1> QED BY <1>1, <1>4, <1>5 DEF Collected
-----------------------------------------------------------------------------
(* What the trees of a call allow the instruction it is at.                *)
LEMMA HeldOn ==
  ASSUME NEW f \in Functions, NEW pc \in 1 .. Size(f), NEW S, NEW ks \in Seq(S),
         Held(f, pc, ks)
  PROVE  /\ Body[f][pc].do \in {"eat", "opt", "list", "stats", "fork"}
              => Held(f, pc + 1, ks)
         /\ Body[f][pc].do = "fork" => Held(f, pc + 3, ks)
         /\ Body[f][pc].do = "climb" =>
              /\ f = "BinExpr" /\ Len(ks) = 1 /\ Held(f, 7, ks)
              /\ ks[1].nt \in ExprKinds /\ Offers(f, pc) \subseteq ExprKinds
              /\ \A n : n.nt = "BinExpr" => Held(f, pc, <<n>>)
<1>1. HeldFact(f, pc)
  BY HeldTable, Zenon
<1>2. /\ Len(ks) \in Nat /\ Number(f, pc, Len(ks), ks[2].nt)
      /\ \A i \in 1 .. Len(ks) : ks[i].nt \in Place(f, i)
  BY DEF Held
<1>3. CASE Body[f][pc].do \in {"eat", "opt", "list", "stats", "fork"}
  BY <1>1, <1>2, <1>3 DEF HeldFact, Held
<1>4. CASE Body[f][pc].do = "climb"
  <2>1. /\ f = "BinExpr" /\ Len(ks) = 1
        /\ \A u : Number(f, pc, 1, u) /\ Number(f, 7, 1, u)
        /\ Offers(f, pc) \subseteq ExprKinds /\ Place(f, 1) \subseteq ExprKinds
        /\ "BinExpr" \in Place(f, 1)
    BY <1>1, <1>2, <1>4 DEF HeldFact
  <2>2. Held(f, 7, ks) /\ ks[1].nt \in ExprKinds
    BY <1>2, <2>1 DEF Held
  <2>3. ASSUME NEW n, n.nt = "BinExpr" PROVE Held(f, pc, <<n>>)
    BY <2>1, <2>3 DEF Held
  <2> QED BY <1>4, <2>1, <2>2, <2>3
<1> QED BY <1>3, <1>4

(* It goes on to another instruction without a further tree.               *)
LEMMA GotoCollects ==
  ASSUME IInv, Collected, stack # <<>>, ctl \in {"run", "node", "null"},
         NEW p, Goto(p), UNCHANGED <<Tokens, kids>>, ctl' = "run",
         Held(Top.fn, p, kids[Len(kids)]), TokenIndex' \in Nat,
         NEW c \in Nat, Row(Tokens, kids[Len(kids)], Top.at, c), c <= TokenIndex',
         Slim(Top, p, kids[Len(kids)], TokenIndex')
  PROVE  Collected'
<1> DEFINE G == [Top EXCEPT !.pc = p]
<1>1. stack' = [stack EXCEPT ![Len(stack)] = G]
  BY ZenonT(30) DEF Goto, Top
<1>2. Top \in Frame
  BY TopLemma
<1>3. G.fn = Top.fn /\ G.at = Top.at /\ G.pc = p
  BY <1>2 DEF Frame
<1> HIDE DEF G
<1> QED BY <1>1, <1>3, KeepCollects

(* What a call returns that is done.                                       *)
LEMMA EndCollects ==
  ASSUME IInv, Collected, EndOfBody
  PROVE  Collected'
<1> DEFINE ks == kids[Len(kids)]
<1>1. stack # <<>> /\ ctl = "run" /\ Top.pc > Size(Top.fn)
      /\ Tokens' = Tokens /\ TokenIndex' = TokenIndex
  BY DEF EndOfBody
<1>2. /\ Held(Top.fn, Top.pc, ks) /\ Row(Tokens, ks, Top.at, TokenIndex)
      /\ Slim(Top, Top.pc, ks, TokenIndex)
      /\ \E S : ks \in Seq(S)
  BY <1>1, TopHolds
<1>3. /\ Top.fn \in Functions /\ Top.pc = Size(Top.fn) + 1
      /\ Top.at \in Nat /\ TokenIndex \in Nat /\ Top.at <= TokenIndex
  BY <1>1, TopLemma DEF FrameOK, IInv, TypeOK, Frame, Top
<1>4. EndFact(Top.fn)
  BY <1>3, HeldTable, Zenon
<1>5. Len(ks) \in Nat /\ Number(Top.fn, Size(Top.fn) + 1, Len(ks), ks[2].nt)
  BY <1>2, <1>3 DEF Held
<1> DEFINE n == IF Top.fn \in PassOn THEN ks[1] ELSE Node(Top.fn, Top.at + 1, ks)
<1>6. CASE Return("null", Null)
  BY <1>1, <1>6, ReturnCollects
<1>7. CASE Return("node", n)
  <2>1. Fits(Tokens, n, Top.at, TokenIndex) /\ n.nt \in Yields(Top.fn)
    <3>1. CASE Top.fn \in PassOn
      <4>1. Len(ks) = 1 /\ n = ks[1]
        BY <1>4, <1>5, <3>1 DEF EndFact
      <4>2. ks[1].nt \in Yields(Top.fn)
        BY <1>2, <3>1, <4>1 DEF Held, Place
      <4> QED BY <1>2, <4>1, <4>2 DEF Row
    <3>2. CASE Top.fn \notin PassOn
      <4>1. n.nt = Top.fn /\ n.kids = ks
        BY <3>2 DEF Node
      <4>2. /\ Len(ks) \in Arity(Top.fn) /\ Top.fn \notin Kinds \cup {"BinExpr"}
            /\ Yields(Top.fn) = {Top.fn}
            /\ Top.fn = "Decl" => (ks[2].nt = "var" <=> Len(ks) = 3)
        BY <1>4, <1>5, <3>2 DEF EndFact
      <4>3. \A i \in 1 .. Len(ks) : ks[i].nt \in Slot(Top.fn, i)
        BY <1>2, <3>2 DEF Held, Place
      <4> HIDE DEF n, ks
      <4>4. Shaped(n)
        BY <4>1, <4>2, <4>3 DEF Shaped
      <4>5. Fits(Tokens, n, Top.at, TokenIndex)
        BY <1>2, <4>1, <4>2, <4>4, FitsNode
      <4> QED BY <4>1, <4>2, <4>5
    <3> QED BY <3>1, <3>2
  <2>2. Low(n, TokenIndex - Top.at + 1) /\ (Top.fn # "Root" => Low(n, TokenIndex - Top.at))
    <3>1. CASE Top.fn \in PassOn
      <4>1. Len(ks) = 1 /\ n = ks[1]
        BY <1>4, <1>5, <3>1 DEF EndFact
      <4>2. Spent(Top.fn, Top.pc) = 0
        BY <1>3, <3>1, SpentTable DEF Size
      <4> DEFINE w == TokenIndex - Top.at
      <4>3. w \in Nat /\ w - 0 - 1 + 1 = w /\ w - 0 = w /\ w - 1 + 1 = w
        BY <1>3
      <4>4. Lean(ks, w - 0)
        BY <1>2, <4>2 DEF Slim
      <4> HIDE DEF w, ks, n
      <4>5. Low(n, w)
        BY <4>1, <4>3, <4>4 DEF Lean
      <4>6. Low(n, w + 1)
        BY <4>3, <4>5, LowWiden
      <4> QED BY <4>5, <4>6 DEF w
    <3>2. CASE Top.fn \notin PassOn
      <4>1. n.kids = ks /\ Len(ks) \in Arity(Top.fn)
        BY <1>4, <1>5, <3>2 DEF EndFact, Node
      <4> HIDE DEF n, ks
      <4>2. PICK S : n.kids \in Seq(S)
        BY <1>2, <4>1
      <4>3. Slim(Top, Size(Top.fn) + 1, n.kids, TokenIndex) /\ Len(n.kids) \in Arity(Top.fn)
        BY <1>2, <1>3, <4>1
      <4> QED BY <1>3, <3>2, <4>2, <4>3, SlimEnd
    <3> QED BY <3>1, <3>2
  <2> HIDE DEF n
  <2> QED BY <1>1, <1>3, <1>7, <2>1, <2>2, ReturnCollects
<1> QED BY <1>6, <1>7 DEF EndOfBody
(* The left operand, the operator and the right operand become one tree.   *)
LEMMA ClimbCollects ==
  ASSUME IInv, Collected, ClimbNode, Top.pc \in 1 .. Size(Top.fn),
         TokenIndex \in Nat, from \in Nat, from <= TokenIndex, Top.at \in Nat
  PROVE  Collected'
<1> DEFINE ks == kids[Len(kids)]
           n  == Node("BinExpr", from, <<ks[1], val>>)
<1>1. /\ stack # <<>> /\ ctl = "node" /\ Ins.do = "climb" /\ ctl' = "run"
      /\ UNCHANGED <<Tokens, TokenIndex, stack>>
      /\ kids' = [kids EXCEPT ![Len(kids)] = <<n>>]
  BY ZenonT(30) DEF ClimbNode, Resumed
<1>2. /\ Len(kids) = Len(stack) /\ Len(stack) \in Nat \ {0} /\ Nested(kids)
      /\ \E S : ks \in Seq(S)
      /\ Held(Top.fn, Top.pc, ks) /\ Row(Tokens, ks, Top.at, from - 1)
      /\ Slim(Top, Top.pc, ks, from - 1)
      /\ Top.at < from /\ Tokens[from] \in Operators
  BY <1>1, TopHolds
<1>3. /\ Fits(Tokens, val, from, TokenIndex) /\ val.nt \in Offers(Top.fn, Top.pc)
      /\ Low(val, TokenIndex - from)
  BY <1>1 DEF Collected
<1>4. PICK S : ks \in Seq(S)
  BY <1>2
<1>5. /\ Len(ks) = 1 /\ ks[1].nt \in ExprKinds /\ val.nt \in ExprKinds
      /\ \A m : m.nt = "BinExpr" => Held(Top.fn, Top.pc, <<m>>)
  <2>1. Top.fn \in Functions
    BY <1>1, TopLemma DEF Frame
  <2> HIDE DEF ks, n
  <2> QED BY <1>1, <1>2, <1>3, <1>4, <2>1, HeldOn DEF Ins
<1>6. /\ n.nt = "BinExpr" /\ n.at = from /\ n.kids = <<ks[1], val>>
      /\ Len(n.kids) = 2 /\ n.kids[1] = ks[1] /\ n.kids[2] = val
  BY DEF Node
<1>7. Fits(Tokens, ks[1], Top.at, from - 1)
  BY <1>5, <1>2 DEF Row
<1>s. Spent(Top.fn, Top.pc) = 0
  <2>1. Top.fn = "BinExpr"
    BY <1>1, <1>2, TopLemma DEF BodyFact, Ins
  <2> QED BY <2>1 DEF Spent
<1>r. Low(ks[1], from - 1 - Top.at)
  <2> DEFINE w == from - 1 - Top.at
  <2> HIDE DEF ks
  <2>1. w \in Nat /\ w - 0 = w /\ w - 1 + 1 = w
    BY <1>2
  <2>2. Lean(ks, w - 0)
    BY <1>2, <1>s DEF Slim
  <2> HIDE DEF w
  <2>3. Low(ks[1], w)
    BY <1>5, <2>1, <2>2 DEF Lean
  <2> QED BY <2>3 DEF w
<1> DEFINE l == ks[1]
<1> HIDE DEF n, ks
<1>8. /\ \A e \in Nat : Cover(l, e) \subseteq Top.at + 1 .. from - 1
      /\ \A e \in Nat : Cover(val, e) \subseteq from + 1 .. TokenIndex
  BY <1>3, <1>7, CoverIn
<1>9. /\ Fits(Tokens, l, Top.at, TokenIndex) /\ Fits(Tokens, val, Top.at, TokenIndex)
  BY <1>2, <1>3, <1>7, FitsWiden
<1> HIDE DEF l
<1>10. \A e \in Nat : /\ Before(Cover(l, e), Cover(val, e))
                       /\ Before(Cover(l, e), {from}) /\ Before({from}, Cover(val, e))
  <2>1. /\ \A x \in Top.at + 1 .. from - 1, y \in from + 1 .. TokenIndex : x < y
        /\ \A x \in Top.at + 1 .. from - 1 : x < from
        /\ \A y \in from + 1 .. TokenIndex : from < y
    OBVIOUS
  <2> QED BY <1>8, <2>1 DEF Before
<1>11. Row(Tokens, n.kids, Top.at, TokenIndex)
  BY <1>6, <1>9, <1>10 DEF Row, l
<1>12. Shaped(n)
  <2>1. Len(n.kids) \in Arity(n.nt) /\ n.nt # "Decl" /\ Slot(n.nt, 1) = ExprKinds
        /\ Slot(n.nt, 2) = ExprKinds /\ n.nt \notin Kinds
    BY <1>6 DEF Arity, Slot, Kinds, Operators, Specials, Keywords
  <2> QED BY <1>5, <1>6, <2>1 DEF Shaped
<1>13. Fits(Tokens, n, Top.at, TokenIndex)
  <2>1. n.nt \notin Kinds
    BY <1>6 DEF Kinds, Operators, Specials, Keywords
  <2> QED BY <1>2, <1>6, <1>10, <1>11, <1>12, <2>1, FitsNode DEF l
<1>t. Low(n, TokenIndex - Top.at)
  <2> DEFINE w == TokenIndex - Top.at - 1
  <2>1. w \in Nat /\ w + 1 = TokenIndex - Top.at /\ from - 1 - Top.at <= w /\ TokenIndex - from <= w
    BY <1>2
  <2> HIDE DEF w
  <2>2. Low(l, w)
    BY <1>r, <2>1, LowWiden DEF l
  <2>3. Low(val, w)
    BY <1>3, <2>1, LowWiden
  <2>4. \A k \in Kids(n) : k = l \/ k = val
    BY <1>6 DEF Kids, l
  <2>5. Low(n, w + 1)
    BY <2>1, <2>2, <2>3, <2>4, LowNode
  <2> QED BY <2>1, <2>5
<1> DEFINE r == <<n>>
<1>14. /\ r \in Seq({n}) /\ Len(r) = 1 /\ r[1] = n
  OBVIOUS
<1>15. Held(Top.fn, Top.pc, r)
  BY <1>5, <1>6
<1> HIDE DEF r
<1>16. Row(Tokens, r, Top.at, TokenIndex)
  BY <1>13, <1>14 DEF Row
<1>l. Slim(Top, Top.pc, r, TokenIndex)
  <2> DEFINE w == TokenIndex - Top.at
  <2>1. w \in Nat /\ 1 <= w /\ w - 0 = w /\ w - 1 + 1 = w
    BY <1>2
  <2> HIDE DEF w
  <2>2. Lean(r, w)
    BY <1>14, <1>t, <2>1 DEF Lean, w
  <2> QED BY <1>s, <2>1, <2>2 DEF Slim, w
<1>17. /\ Nested(kids') /\ Len(kids') = Len(kids) /\ kids'[Len(kids)] = r
       /\ \A k \in 1 .. Len(kids) - 1 : kids'[k] = kids[k]
  <2>1. \A X : X \in Seq({n}) =>
          LET p == [kids EXCEPT ![Len(kids)] = X]
          IN  /\ Nested(p) /\ Len(p) = Len(kids) /\ p[Len(kids)] = X
              /\ \A k \in 1 .. Len(kids) - 1 : p[k] = kids[k]
    BY <1>2, NestedExcept
  <2>2. kids' = [kids EXCEPT ![Len(kids)] = r]
    BY <1>1 DEF r
  <2> QED BY <1>14, <2>1, <2>2
<1>18. /\ Len(stack') = Len(stack) /\ stack'[Len(stack)] = Top
       /\ \A k \in 1 .. Len(stack) - 1 : stack'[k] = stack[k]
  BY <1>1 DEF Top
<1> QED BY <1>1, <1>15, <1>16, <1>17, <1>18, <1>l, MoveCollects
LEMMA NextCollected == IInv /\ Collected /\ [Next]_vars => Collected'
<1> SUFFICES ASSUME IInv, Collected, [Next]_vars PROVE Collected'
  OBVIOUS
<1> DEFINE ks == kids[Len(kids)]
<1>0. TokenIndex \in Nat /\ TokenIndex <= Len(Tokens)
  BY DEF IInv, TypeOK
<1>a. ASSUME stack # <<>>
      PROVE  /\ Top.fn \in Functions /\ Top.pc \in 1 .. 7
             /\ Top.at <= TokenIndex /\ Top.at \in Nat
             /\ Top.pc <= Size(Top.fn) =>
                  Top.pc \in 1 .. Size(Top.fn) /\ BodyFact(Top.fn, Top.pc)
  BY <1>a, TopLemma DEF Frame
<1>f. ASSUME stack # <<>>, ctl \in {"node", "null"}
      PROVE  /\ Top.pc <= Size(Top.fn) /\ Top.pc \in 1 .. Size(Top.fn)
             /\ Top.at <= from /\ from <= TokenIndex /\ from \in Nat
  BY <1>0, <1>a, <1>f DEF IInv, TypeOK, Returned, Waiting, Ins
<1>g. ASSUME stack # <<>>, ctl = "run", Top.pc <= Size(Top.fn)
      PROVE  /\ Row(Tokens, ks, Top.at, TokenIndex)
             /\ Ins.do \in {"eat", "opt", "list", "stats", "fork"}
                  => Held(Top.fn, Top.pc + 1, ks)
             /\ Ins.do = "fork" => Held(Top.fn, Top.pc + 3, ks)
             /\ Ins.do = "climb" => Top.fn = "BinExpr" /\ Held(Top.fn, 7, ks)
             /\ Slim(Top, Top.pc, ks, TokenIndex)
             /\ Slim(Top, Top.pc + 1, ks, TokenIndex + 1)
             /\ Ins.do # "eat" => Slim(Top, Top.pc + 1, ks, TokenIndex)
             /\ Top.fn \in PassOn => \A q, e \in Nat : TokenIndex <= e => Slim(Top, q, ks, e)
  <2>1. /\ Held(Top.fn, Top.pc, ks) /\ Row(Tokens, ks, Top.at, TokenIndex)
        /\ \E S : ks \in Seq(S)
        /\ Slim(Top, Top.pc, ks, TokenIndex)
    BY <1>g, TopHolds
  <2> HIDE DEF ks
  <2>2. /\ Slim(Top, Top.pc + 1, ks, TokenIndex + 1)
        /\ Ins.do # "eat" => Slim(Top, Top.pc + 1, ks, TokenIndex)
        /\ Top.fn \in PassOn => \A q, e \in Nat : TokenIndex <= e => Slim(Top, q, ks, e)
    <3>1. /\ TokenIndex + 1 \in Nat /\ TokenIndex < TokenIndex + 1
          /\ TokenIndex <= TokenIndex /\ Top.fn \in Functions /\ Top.at \in Nat
          /\ Top.pc \in 1 .. Size(Top.fn)
      BY <1>0, <1>a, <1>g
    <3>2. PICK S : ks \in Seq(S)
      BY <2>1
    <3> QED BY <1>0, <2>1, <3>1, <3>2, SlimOn DEF Ins
  <2> QED BY <1>a, <1>g, <2>1, <2>2, HeldOn DEF Ins
<1>h. ASSUME stack # <<>>, ctl \in {"node", "null"}, Ins.do # "climb"
      PROVE  /\ Row(Tokens, ks, Top.at, from) /\ Held(Top.fn, Top.pc, ks)
             /\ Slim(Top, Top.pc, ks, from) /\ Slim(Top, Top.pc, ks, TokenIndex)
             /\ ctl = "node" => /\ Fits(Tokens, val, from, TokenIndex)
                                /\ val.nt \in Offers(Top.fn, Top.pc)
                                /\ Low(val, TokenIndex - from)
  <2>1. /\ Held(Top.fn, Top.pc, ks) /\ Row(Tokens, ks, Top.at, from)
        /\ Slim(Top, Top.pc, ks, from) /\ \E S : ks \in Seq(S)
    BY <1>h, TopHolds
  <2> HIDE DEF ks
  <2>2. PICK S : ks \in Seq(S)
    BY <2>1
  <2>3. Slim(Top, Top.pc, ks, TokenIndex)
    BY <1>0, <1>a, <1>f, <1>h, <2>1, <2>2, SlimOn
  <2> QED BY <1>h, <2>1, <2>3 DEF Collected
<1> HIDE DEF ks
<1>1. CASE TokenHit
  <2>1. /\ stack # <<>> /\ Top.pc <= Size(Top.fn) /\ Goto(Top.pc + 1)
        /\ ctl = "run" /\ ctl' = "run" /\ Tokens' = Tokens
        /\ Ins.do \in {"eat", "take", "opt"} /\ Peek(0) = Ins.arg[1]
        /\ TokenIndex' = TokenIndex + 1
    BY <1>1 DEF TokenHit, Running, Consume, At
  <2>2. CASE Running("eat") /\ UNCHANGED kids
    <3>1. Ins.do = "eat"
      BY <2>2 DEF Running
    <3> QED BY <1>0, <1>g, <2>1, <2>2, <3>1, GotoCollects DEF ks
  <2>3. CASE /\ Running("take") \/ Running("opt")
             /\ Collect(Node(Ins.arg[1], TokenIndex + 1, <<>>))
    <3> DEFINE n == Node(Ins.arg[1], TokenIndex + 1, <<>>)
    <3>1. Ins.do \in {"take", "opt"}
      BY <2>3 DEF Running
    <3>2. Ins.arg[1] \in Kinds /\ n.nt = Ins.arg[1]
      <4>1. HeldFact(Top.fn, Top.pc)
        BY <1>a, <2>1, HeldTable, Zenon
      <4> QED BY <3>1, <4>1 DEF HeldFact, Ins, Node
    <3>3. n.nt \in Offers(Top.fn, Top.pc)
      BY <3>1, <3>2 DEF Offers, Ins
    <3>4. Tokens[TokenIndex + 1] = Ins.arg[1]
      <4>1. "end" \notin Kinds
        BY DEF Kinds, Operators, Specials, Keywords
      <4> QED BY <1>0, <2>1, <3>2, <4>1 DEF Peek
    <3>5. Fits(Tokens, n, TokenIndex, TokenIndex')
      BY <1>0, <2>1, <3>2, <3>4, FitsLeaf
    <3>6. Collect(n)
      BY <2>3
    <3>7. Low(n, TokenIndex' - TokenIndex)
      <4>1. Kids(n) = {}
        <5>1. n.kids = <<>> /\ Len(<<>>) = 0
          BY DEF Node
        <5> QED BY <5>1 DEF Kids
      <4>2. Low(n, 0 + 1)
        BY <4>1, LowNode
      <4>3. TokenIndex' - TokenIndex = 0 + 1
        BY <1>0, <2>1
      <4> QED BY <4>2, <4>3
    <3> HIDE DEF n
    <3> QED BY <1>0, <1>a, <1>g, <2>1, <3>1, <3>3, <3>5, <3>6, <3>7, TakeCollects DEF ks
  <2> QED BY <1>1, <2>2, <2>3 DEF TokenHit
<1>2. CASE TokenMiss
  BY <1>2, GiveUpCollects DEF TokenMiss, Running
<1>3. CASE OptMiss
  <2>1. /\ stack # <<>> /\ Top.pc <= Size(Top.fn) /\ Goto(Top.pc + 1)
        /\ ctl = "run" /\ ctl' = "run" /\ UNCHANGED <<Tokens, TokenIndex, kids>>
        /\ Ins.do = "opt"
    BY <1>3 DEF OptMiss, Running
  <2> QED BY <1>0, <1>g, <2>1, GotoCollects DEF ks
<1>4. CASE Branch
  <2>1. /\ stack # <<>> /\ Top.pc <= Size(Top.fn) /\ Ins.do = "fork"
        /\ ctl = "run" /\ ctl' = "run" /\ UNCHANGED <<Tokens, kids>>
    BY <1>4 DEF Branch, Running
  <2>2. CASE Consume /\ Goto(Top.pc + 3)
    <3>1. /\ Top.fn \in PassOn /\ Top.pc + 3 \in Nat /\ TokenIndex + 1 \in Nat
          /\ TokenIndex <= TokenIndex + 1 /\ TokenIndex' = TokenIndex + 1
      BY <1>0, <1>a, <2>1, <2>2 DEF BodyFact, PassOn, Ins, Consume
    <3>2. Slim(Top, Top.pc + 3, ks, TokenIndex')
      BY <1>g, <2>1, <3>1
    <3> QED BY <1>0, <1>g, <2>1, <2>2, <3>1, <3>2, GotoCollects DEF ks
  <2>3. CASE Goto(Top.pc + 1) /\ UNCHANGED TokenIndex
    BY <1>0, <1>g, <2>1, <2>3, GotoCollects DEF ks
  <2> QED BY <1>4, <2>2, <2>3 DEF Branch
<1>5. CASE CallSub
  <2>1. /\ stack # <<>> /\ Top.pc <= Size(Top.fn) /\ Ins.do = "call" /\ ctl = "run"
        /\ Call(Ins.arg[1], TokenIndex', 0) /\ UNCHANGED <<Tokens, TokenIndex>>
    BY <1>5 DEF CallSub, Running
  <2>2. Ins.arg[1] \in Functions
    BY <1>a, <2>1 DEF BodyFact, Callees, Ins
  <2> QED BY <2>1, <2>2, CallCollects
<1>6. CASE SubNode
  <2>1. /\ stack # <<>> /\ ctl = "node" /\ Ins.do = "call" /\ Goto(Top.pc + 1)
        /\ Collect(val) /\ ctl' = "run" /\ UNCHANGED <<Tokens, TokenIndex>>
    BY <1>6 DEF SubNode, Resumed
  <2> QED BY <1>0, <1>f, <1>h, <2>1, TakeCollects DEF ks
<1>7. CASE SubNull
  BY <1>7, GiveUpCollects DEF SubNull, Resumed
<1>8. CASE TryNext
  <2>1. /\ stack # <<>> /\ Top.pc <= Size(Top.fn) /\ Ins.do = "first" /\ ctl = "run"
        /\ Call(Ins.arg[Top.alt], TokenIndex', 0) /\ UNCHANGED <<Tokens, TokenIndex>>
        /\ Top.alt <= Len(Ins.arg)
    BY <1>8 DEF TryNext, Running
  <2>2. Ins.arg[Top.alt] \in Functions
    <3>1. Top.alt \in 1 .. Len(Ins.arg)
      BY <1>a, <2>1, TopLemma DEF BodyFact, Ins, Frame
    <3> QED BY <1>a, <2>1, <3>1 DEF BodyFact, Callees, Ins
  <2> DEFINE g == Ins.arg[Top.alt]
  <2>3. g \in Functions /\ Call(g, TokenIndex', 0)
    BY <2>1, <2>2
  <2> HIDE DEF g
  <2> QED BY <2>1, <2>3, CallCollects
<1>9. CASE FirstNode
  <2>1. /\ stack # <<>> /\ ctl = "node" /\ Ins.do = "first" /\ Goto(Top.pc + 1)
        /\ Collect(val) /\ ctl' = "run" /\ UNCHANGED <<Tokens, TokenIndex>>
    BY <1>9 DEF FirstNode, Resumed
  <2> QED BY <1>0, <1>f, <1>h, <2>1, TakeCollects DEF ks
<1>10. CASE FirstNull
  <2> DEFINE F == [Top EXCEPT !.alt = @ + 1]
  <2>1. /\ stack # <<>> /\ ctl = "null" /\ Ins.do = "first" /\ ctl' = "run"
        /\ stack' = [stack EXCEPT ![Len(stack)] = F]
        /\ UNCHANGED <<Tokens, TokenIndex, kids>>
    BY <1>10 DEF FirstNull, Resumed, Top
  <2>2. F.fn = Top.fn /\ F.at = Top.at /\ F.pc = Top.pc
    BY <2>1, TopLemma DEF Frame
  <2> HIDE DEF F
  <2> QED BY <1>0, <1>f, <1>h, <2>1, <2>2, KeepCollects DEF ks
<1>11. CASE NoneLeft
  BY <1>11, GiveUpCollects DEF NoneLeft, Running
<1>12. CASE StatsHead
  <2>1. /\ stack # <<>> /\ Top.pc <= Size(Top.fn) /\ Ins.do = "stats" /\ ctl = "run"
        /\ UNCHANGED <<Tokens, TokenIndex>>
    BY <1>12 DEF StatsHead, Running
  <2>2. CASE Goto(Top.pc + 1) /\ UNCHANGED <<kids, ctl>>
    BY <1>0, <1>g, <2>1, <2>2, GotoCollects DEF ks
  <2>3. CASE Call("Stmt", TokenIndex, 0)
    <3>1. "Stmt" \in Functions /\ Call("Stmt", TokenIndex', 0)
      BY <2>1, <2>3 DEF Functions, Body
    <3> QED BY <2>1, <3>1, CallCollects
  <2>4. CASE ctl' = "exit"
    BY <2>4 DEF Collected
  <2> QED BY <1>12, <2>2, <2>3, <2>4 DEF StatsHead
<1>13. CASE StatsNode
  <2>1. /\ stack # <<>> /\ ctl = "node" /\ Ins.do = "stats" /\ Collect(val)
        /\ ctl' = "run" /\ UNCHANGED <<Tokens, TokenIndex, stack>>
    BY <1>13 DEF StatsNode, Resumed
  <2> QED BY <1>0, <1>f, <1>h, <2>1, TakeCollects DEF ks
<1>14. CASE StatsNull
  <2>1. /\ stack # <<>> /\ ctl = "null" /\ Ins.do = "stats"
        /\ ctl' = "run" /\ UNCHANGED <<Tokens, TokenIndex, stack, kids>>
    BY <1>14 DEF StatsNull, Resumed
  <2>2. stack' = [stack EXCEPT ![Len(stack)] = Top]
    BY <2>1 DEF IInv, TypeOK, Top
  <2> QED BY <1>0, <1>f, <1>h, <2>1, <2>2, KeepCollects DEF ks
<1>15. CASE ListHead
  <2>1. /\ stack # <<>> /\ Top.pc <= Size(Top.fn) /\ Ins.do = "list" /\ ctl = "run"
        /\ Tokens' = Tokens
    BY <1>15 DEF ListHead, Running
  <2>2. CASE Consume /\ Goto(Top.pc + 1) /\ UNCHANGED <<kids, ctl>>
    BY <1>0, <1>g, <2>1, <2>2, GotoCollects DEF ks, Consume
  <2>3. CASE Call(Ins.arg[1], TokenIndex, 0) /\ UNCHANGED TokenIndex
    <3>1. Ins.arg[1] \in Functions /\ Call(Ins.arg[1], TokenIndex', 0)
      BY <1>a, <2>1, <2>3 DEF BodyFact, Callees, Ins
    <3> QED BY <2>1, <2>3, <3>1, CallCollects
  <2> QED BY <1>15, <2>2, <2>3 DEF ListHead
<1>16. CASE ListItem
  <2>1. stack # <<>> /\ ctl = "node" /\ Ins.do = "list" /\ Tokens' = Tokens
    BY <1>16 DEF ListItem, Resumed
  <2>2. CASE /\ TokenIndex' \in {TokenIndex, TokenIndex + 1}
             /\ Collect(val) /\ ctl' = "run" /\ UNCHANGED stack
    <3>1. /\ TokenIndex' \in Nat /\ from <= TokenIndex' /\ TokenIndex <= TokenIndex'
          /\ from \in Nat
      BY <1>0, <1>f, <2>1, <2>2
    <3>2. Fits(Tokens, val, from, TokenIndex')
      BY <1>0, <1>h, <2>1, <3>1, FitsWiden
    <3>3. Low(val, TokenIndex' - from)
      <4>1. TokenIndex' - from \in Nat /\ TokenIndex - from <= TokenIndex' - from
        <5>1. \A f, t, u \in Nat : f <= u /\ t <= u => u - f \in Nat /\ t - f <= u - f
          OBVIOUS
        <5> QED BY <1>0, <3>1, <5>1
      <4> QED BY <1>h, <2>1, <4>1, LowWiden
    <3> QED BY <1>0, <1>f, <1>h, <2>1, <2>2, <3>1, <3>2, <3>3, TakeCollects DEF ks
  <2>3. CASE ctl' = "crash"
    BY <2>3 DEF Collected
  <2>4. CASE Return("null", Null)
    BY <2>1, <2>4, ReturnCollects
  <2> QED BY <1>16, <2>2, <2>3, <2>4 DEF ListItem, Consume
<1>17. CASE ClimbHead
  <2>1. /\ stack # <<>> /\ Top.pc <= Size(Top.fn) /\ Ins.do = "climb" /\ ctl = "run"
        /\ Tokens' = Tokens
    BY <1>17 DEF ClimbHead, Running
  <2>2. CASE /\ Peek(0) \in Operators /\ Consume
             /\ Call("BinExpr", TokenIndex + 1, NextMinPrec(Peek(0)))
    <3> DEFINE m == NextMinPrec(Peek(0))
    <3>1. /\ TokenIndex' = TokenIndex + 1 /\ Call("BinExpr", TokenIndex', m)
          /\ "BinExpr" \in Functions
      BY <2>2 DEF Consume, Functions, Body
    <3>2. Tokens[TokenIndex + 1] \in Operators
      BY <1>0, <2>2 DEF Peek, Operators
    <3> HIDE DEF m
    <3> QED BY <2>1, <3>1, <3>2, CallCollects
  <2>3. CASE Goto(Size(Top.fn) + 1) /\ UNCHANGED <<TokenIndex, kids, ctl>>
    <3>1. Size(Top.fn) + 1 = 7 /\ Held(Top.fn, 7, ks)
      BY <1>g, <2>1, TopLemma
    <3>2. Goto(7)
      BY <2>3, <3>1
    <3>3. Slim(Top, 7, ks, TokenIndex')
      <4>1. Top.fn \in PassOn /\ TokenIndex <= TokenIndex /\ TokenIndex' = TokenIndex
        BY <1>0, <1>g, <2>1, <2>3 DEF PassOn
      <4> QED BY <1>0, <1>g, <2>1, <4>1
    <3> QED BY <1>0, <1>g, <2>1, <2>3, <3>1, <3>2, <3>3, GotoCollects DEF ks
  <2> QED BY <1>17, <2>2, <2>3 DEF ClimbHead
<1>18. CASE ClimbNode
  <2>1. stack # <<>> /\ ctl = "node"
    BY <1>18 DEF ClimbNode, Resumed
  <2> QED BY <1>0, <1>18, <1>a, <1>f, <2>1, ClimbCollects
<1>19. CASE EndOfBody
  BY <1>19, EndCollects
<1>20. CASE Overrun
  BY <1>20 DEF Overrun, Collected
<1>21. CASE UNCHANGED vars
  BY <1>21 DEF vars, Collected, Nested, CallsOK, CallOK, Edge, Waits, Top
<1> QED
  BY <1>1, <1>2, <1>3, <1>4, <1>5, <1>6, <1>7, <1>8, <1>9, <1>10, <1>11, <1>12, <1>13,
     <1>14, <1>15, <1>16, <1>17, <1>18, <1>19, <1>20, <1>21
     DEF Next, Halt

(* The node a TryParse function returns heads a tree the generator can     *)
(* read, down to its leaves: children of the kinds and in the number       *)
(* node_types.h gives, operators between their operands, tokens in the     *)
(* order of the source.                                                    *)
THEOREM TreesAreWellFormed == Spec => []TreesWellFormed
<1>1. IInv /\ Collected => TreesWellFormed
  <2> SUFFICES ASSUME IInv, Collected, ctl = "node" PROVE TreesWellFormed
    BY DEF TreesWellFormed
  <2> DEFINE d == TokenIndex - from
  <2>1. d \in Nat /\ Fits(Tokens, val, from, TokenIndex)
    BY DEF IInv, TypeOK, Collected
  <2>2. \A n \in Within(val, d) : Good(Tokens, n, from, TokenIndex)
    BY <2>1 DEF Fits
  <2> QED BY <2>1, <2>2 DEF TreesWellFormed, Good
<1> QED BY InitIInv, NextIInv, InitCollected, NextCollected, <1>1, PTL DEF Spec

(* The tree a TryParse function returns to another has at most as many     *)
(* levels as tokens were consumed for it: every level costs a token of its *)
(* own.  That bounds the recursion of what walks the tree, the generator   *)
(* and the writer of bin/ast.json, neither of which tests how deep it is.  *)
TreesLow == ctl = "node" /\ stack # <<>> => Low(val, TokenIndex - from)

(* For every string of tokens, every table and every capacity.             *)
THEOREM TreesAreLow == Spec => []TreesLow
<1>1. Collected => TreesLow
  BY DEF Collected, TreesLow
<1> QED BY InitIInv, NextIInv, InitCollected, NextCollected, <1>1, PTL DEF Spec

-----------------------------------------------------------------------------
(* What Parse returns in the end is the node of TryParseRoot: a caller of  *)
(* the parser may read a list of statements from it.                       *)
RootReturned ==
  stack = <<>> /\ ctl = "node" => val.nt = "Root" /\ \E S : val.kids \in Seq(S)

LEMMA NextRootReturned ==
  IInv /\ Rooted /\ Collected /\ RootReturned /\ [Next]_vars => RootReturned'
<1> SUFFICES ASSUME IInv, Rooted, Collected, RootReturned, [Next]_vars,
                    stack' = <<>>, ctl' = "node"
             PROVE  val'.nt = "Root" /\ \E S : val'.kids \in Seq(S)
  BY DEF RootReturned
<1>1. stack \in Seq(Frame) /\ Len(stack) \in Nat
  BY DEF IInv, TypeOK
<1>2. ASSUME stack # <<>>, NEW pc, Goto(pc) PROVE FALSE
  BY <1>1, <1>2 DEF Goto
<1>3. ASSUME NEW f, NEW a, NEW min, Call(f, a, min) PROVE FALSE
  <2>1. Len(stack') = Len(stack) + 1
    BY <1>1, <1>3 DEF Call
  <2> QED BY <1>1, <2>1
<1>4. ASSUME NEW n, Return("null", n) PROVE FALSE
  BY <1>4 DEF Return
<1>5. ASSUME NEW miss, GiveUp(miss), stack # <<>> PROVE FALSE
  BY <1>4, <1>5 DEF GiveUp
<1>6. CASE TokenHit \/ OptMiss \/ Branch \/ SubNode \/ FirstNode
  BY <1>2, <1>6 DEF TokenHit, OptMiss, Branch, SubNode, FirstNode, Running, Resumed
<1>7. CASE TokenMiss \/ SubNull \/ NoneLeft
  BY <1>5, <1>7 DEF TokenMiss, SubNull, NoneLeft, Running, Resumed
<1>8. CASE CallSub \/ TryNext
  BY <1>3, <1>8 DEF CallSub, TryNext
<1>9. CASE FirstNull \/ StatsNode \/ StatsNull \/ Overrun \/ ClimbNode
  BY <1>9 DEF FirstNull, StatsNode, StatsNull, Overrun, ClimbNode
<1>10. CASE StatsHead \/ ListHead \/ ClimbHead
  BY <1>2, <1>3, <1>10 DEF StatsHead, ListHead, ClimbHead, Running
<1>11. CASE ListItem
  BY <1>4, <1>11 DEF ListItem, Resumed
<1>12. CASE UNCHANGED vars
  BY <1>12 DEF RootReturned, vars
<1>13. CASE EndOfBody
  <2> DEFINE ks == kids[Len(kids)]
  <2>1. stack # <<>> /\ ctl = "run"
    BY <1>13 DEF EndOfBody
  <2>2. Return("node", IF Top.fn \in PassOn THEN ks[1] ELSE Node(Top.fn, Top.at + 1, ks))
    BY <1>4, <1>13 DEF EndOfBody
  <2>3. Len(stack) = 1
    <3>1. SubSeq(stack, 1, Len(stack) - 1) = <<>>
      BY <2>2 DEF Return
    <3>2. Len(SubSeq(stack, 1, Len(stack) - 1)) = Len(stack) - 1 /\ Len(stack) # 0
      BY <1>1, <2>1
    <3>3. Len(<<>>) = 0
      OBVIOUS
    <3>4. Len(stack) - 1 = 0
      BY <3>1, <3>2, <3>3, Zenon
    <3> QED BY <1>1, <3>4
  <2>4. Top.fn = "Root"
    BY <2>1, <2>3 DEF Rooted, Top
  <2>5. val' = Node("Root", Top.at + 1, ks)
    BY <2>2, <2>4 DEF Return, PassOn
  <2>6. \E S : ks \in Seq(S)
    BY <2>1, TopHolds
  <2> HIDE DEF ks
  <2> QED BY <2>5, <2>6 DEF Node
<1> QED BY <1>6, <1>7, <1>8, <1>9, <1>10, <1>11, <1>12, <1>13 DEF Next, Halt

(* The statements of a program, then, are well-formed down to their leaves. *)
LEMMA RootStatements ==
  ASSUME Collected, RootReturned, stack = <<>>, ctl = "node"
  PROVE  /\ \E S : val.kids \in Seq(S)
         /\ \A i \in 1 .. Len(val.kids) :
              /\ val.kids[i].nt \in StmtKinds
              /\ \A d \in Nat : \A m \in Within(val.kids[i], d) : Shaped(m)
<1>1. val.nt = "Root" /\ \E S : val.kids \in Seq(S)
  BY DEF RootReturned
<1>2. \A d \in Nat : \A m \in Within(val, d) : Shaped(m)
  BY DEF Collected, Fits, Good
<1>3. \A i \in 1 .. Len(val.kids) : val.kids[i].nt \in StmtKinds
  <2>1. Shaped(val)
    BY <1>2, WithinKids
  <2> QED BY <1>1, <2>1 DEF Shaped, Slot
<1>4. ASSUME NEW i \in 1 .. Len(val.kids), NEW d \in Nat, NEW m \in Within(val.kids[i], d)
      PROVE  Shaped(m)
  <2>1. val.kids[i] \in Kids(val)
    BY DEF Kids
  <2>2. m \in Within(val, d + 1) /\ d + 1 \in Nat
    BY <2>1, WithinKids
  <2> QED BY <1>2, <2>2
<1> QED BY <1>1, <1>3, <1>4

(* And none of them is deeper than the program has tokens.                 *)
LEMMA RootDepth ==
  ASSUME IInv, Collected, stack = <<>>, ctl = "node"
  PROVE  \A i \in 1 .. Len(val.kids) : Low(val.kids[i], Len(Tokens))
<1> DEFINE d == TokenIndex - from
<1>1. Low(val, d + 1)
  BY DEF Collected
<1>2. d \in Nat /\ d <= Len(Tokens) /\ Len(Tokens) \in Nat /\ (d + 1) - 1 = d
  BY DEF IInv, TypeOK, Collected
<1> HIDE DEF d
<1>3. ASSUME NEW i \in 1 .. Len(val.kids) PROVE Low(val.kids[i], Len(Tokens))
  <2>1. val.kids[i] \in Kids(val)
    BY DEF Kids
  <2>2. Low(val.kids[i], (d + 1) - 1)
    BY <1>1, <2>1, LowKid
  <2>3. Low(val.kids[i], d)
    BY <1>2, <2>2
  <2> QED BY <1>2, <2>3, LowWiden
<1> QED BY <1>3
=============================================================================
