-------------------------- MODULE MachineReference --------------------------
(***************************************************************************)
(* What a neolang program means, stated on its tree alone, and for which   *)
(* programs the code generator gets it right.  These definitions are       *)
(* recursive, so this module is for TLC only.                              *)
(***************************************************************************)
EXTENDS Machine, FiniteSets

GoOn        == -2     \* the program did not exit
Unspecified == -1     \* nothing is promised
Largest     == (Word \div 2) - 1
Checked(v)  == IF v \in 0 .. Largest THEN v ELSE Unspecified

Without(env, x) == [y \in DOMAIN env \ {x} |-> env[y]]
With(env, x, v, mut) ==
  [y \in DOMAIN env \cup {x} |-> IF y = x THEN [val |-> v, mut |-> mut] ELSE env[y]]

(* The value of an expression: a natural number, as long as nothing        *)
(* overflows.  Comparisons are of bytes: setl and setg set no more.        *)
RECURSIVE Value(_, _)
Value(e, env) ==
  LET L == Value(e.kids[1], env)
      R == Value(e.kids[2], env)
  IN  CASE e.nt = "Num"   -> Checked(e.num)
        [] e.nt = "Ident" -> IF e.name \in DOMAIN env THEN env[e.name].val
                                                      ELSE Unspecified
        [] e.nt \in {"BinExpr", "Interval"} ->
             IF L < 0 \/ R < 0 THEN Unspecified
             ELSE CASE e.nt = "Interval" -> Checked(R - L)
                    [] e.name = "+" -> Checked(L + R)
                    [] e.name = "-" -> Checked(L - R)
                    [] e.name = "*" -> Checked(L * R)
                    [] e.name = "/" -> IF R = 0 THEN Unspecified ELSE L \div R
                    [] e.name = "^" -> Checked(L ^ R)
                    [] e.name = "<" -> IF L >= Byte THEN Unspecified
                                       ELSE IF L < R THEN 1 ELSE 0
                    [] e.name = ">" -> IF L >= Byte THEN Unspecified
                                       ELSE IF L > R THEN 1 ELSE 0
                    [] OTHER -> Unspecified
        [] OTHER -> Unspecified

(* Executing statements: the variables afterwards, and the exit code.  A   *)
(* second definition of a name, and an assignment to an unknown name or to *)
(* a constant, have no effect.                                             *)
Result(env, out) == [env |-> env, out |-> out]

RECURSIVE RunStats(_, _), RunStmt(_, _), Iterate(_, _, _, _)
RunStats(stats, env) ==
  IF stats = <<>> THEN Result(env, GoOn)
  ELSE LET r == RunStmt(Head(stats), env)
       IN  IF r.out = GoOn THEN RunStats(Tail(stats), r.env) ELSE r

(* A loop runs its body for i, i + 1, ... up to the limit, and at least    *)
(* once; more than Word turns are not followed.                            *)
Iterate(f, env, limit, turns) ==
  LET i == f.kids[1].name
      r == RunStats(f.kids[3].kids, env)
      n == r.env[i].val + 1
  IN  IF turns = 0 THEN Result(env, Unspecified)
      ELSE IF r.out # GoOn THEN r
      ELSE IF n < limit THEN Iterate(f, [r.env EXCEPT ![i].val = n], limit, turns - 1)
      ELSE Result(Without(r.env, i), GoOn)

RunStmt(s, env) ==
  CASE s.nt = "VarDef" ->
         LET v == Value(s.kids[1], env)
         IN  IF s.name \in DOMAIN env THEN Result(env, GoOn)
             ELSE IF v < 0 THEN Result(env, Unspecified)
             ELSE Result(With(env, s.name, v, s.num = 1), GoOn)
    [] s.nt = "Asgn" ->
         LET v == Value(s.kids[1], env)
         IN  IF s.name \notin DOMAIN env \/ ~env[s.name].mut THEN Result(env, GoOn)
             ELSE IF v < 0 THEN Result(env, Unspecified)
             ELSE Result(With(env, s.name, v, TRUE), GoOn)
    [] s.nt = "Exit" ->
         LET v == Value(s.kids[1], env)
         IN  Result(env, IF v < 0 THEN Unspecified ELSE v % Byte)
    [] s.nt = "Scope" -> RunStats(s.kids, env)
    [] s.nt = "If" ->
         LET v == Value(s.kids[1], env)
         IN  IF v < 0 THEN Result(env, Unspecified)
             ELSE IF v = 0 THEN Result(env, GoOn)
             ELSE RunStats(s.kids[2].kids, env)
    [] s.nt = "For" ->
         LET r == RunStmt(s.kids[1], env)
             range == Value(s.kids[2], r.env)
             limit == r.env[s.kids[1].name].val + range
         IN  IF r.out # GoOn THEN r
             ELSE IF range < 1 \/ limit > Largest THEN Result(env, Unspecified)
             ELSE Iterate(s, r.env, limit, Word)
    [] OTHER -> Result(env, Unspecified)

Meaning == RunStats(Tree, [x \in {} |-> 0]).out

-----------------------------------------------------------------------------
(* The programs the generator is right about.  In an expression every name *)
(* is a variable with a value, and a power is a first power.               *)
RECURSIVE Powers(_)
Powers(n) ==
  LET RECURSIVE Sum(_)
      Sum(i) == IF i = 0 THEN 0 ELSE Sum(i - 1) + Powers(n.kids[i])
  IN  Sum(Len(n.kids)) + IF n.nt = "BinExpr" /\ n.name = "^" THEN 1 ELSE 0

RECURSIVE CleanExpr(_, _)
CleanExpr(e, known) ==
  \/ e.nt = "Num"
  \/ e.nt = "Ident" /\ e.name \in known
  \/ /\ e.nt \in {"BinExpr", "Interval"}
     /\ CleanExpr(e.kids[1], known) /\ CleanExpr(e.kids[2], known)
     /\ e.nt = "BinExpr" =>
          /\ e.name \in {"+", "-", "*", "/", "^", "<", ">"}
          /\ e.name = "^" => e.kids[2].nt = "Num" /\ e.kids[2].num = 1

(* A body holds assignments and exits only: no scope within a scope.       *)
CleanBody(scope, known) ==
  \A i \in DOMAIN scope.kids :
    LET s == scope.kids[i]
    IN  s.nt \in {"Asgn", "Exit"} /\ CleanExpr(s.kids[1], known)

(* A loop variable has a new name, the body of an `if' has no power, and a *)
(* scope of its own comes before every other scope: the local labels of a  *)
(* body must be alone with the label before them.                          *)
RECURSIVE CleanFrom(_, _)
CleanFrom(k, known) ==
  k > Len(Tree) \/
  LET s == Tree[k]
  IN  /\ \/ /\ s.nt = "VarDef"
            /\ s.name \in known \/ CleanExpr(s.kids[1], known)
         \/ /\ s.nt \in {"Asgn", "Exit"}
            /\ CleanExpr(s.kids[1], known)
         \/ /\ s.nt = "If"
            /\ CleanExpr(s.kids[1], known)
            /\ CleanBody(s.kids[2], known) /\ Powers(s.kids[2]) = 0
         \/ /\ s.nt = "For"
            /\ s.kids[1].name \notin known
            /\ CleanExpr(s.kids[1].kids[1], known)
            /\ CleanExpr(s.kids[2], known \cup {s.kids[1].name})
            /\ CleanBody(s.kids[3], known \cup {s.kids[1].name})
         \/ /\ s.nt = "Scope"
            /\ CleanBody(s, known)
            /\ \A j \in 1 .. k - 1 : Tree[j].nt \notin {"Scope", "If", "For"}
      /\ CleanFrom(k + 1, IF s.nt = "VarDef" THEN known \cup {s.name} ELSE known)

Clean ==
  /\ CleanFrom(1, {})
  /\ Powers([nt |-> "Root", name |-> "", num |-> 0, kids |-> Tree]) <= ExpWrap

Specified == Clean /\ Meaning # Unspecified

-----------------------------------------------------------------------------
(* A clean program whose values neither overflow nor divide by zero exits  *)
(* with the code it should, or runs off its end if it never exits.         *)
ExitsRight ==
  status \notin {"unbuilt", "running"} /\ Specified =>
    IF Meaning = GoOn THEN status = "ranoff"
                      ELSE status = "exited" /\ ExitCode = Meaning

(* nasm accepts the text of every clean program, no slot was counted that  *)
(* was not pushed, and every jump is level: the stack is as high as the    *)
(* generator believed, however control got there (StackMirrored).          *)
CleanTexts ==
  Generated /\ status = "unbuilt" /\ ~(Assembles /\ Accounted /\ Level) => ~Clean

(* A clean program whose meaning is specified comes to an end.             *)
CleanEnds == Specified => <>Ended

(* docs/TODO.md lists scopes, `for' and `if' as done: every program of     *)
(* definitions and such statements can be assembled.                       *)
ScopesAssemble == status # "rejected"

(* docs/TODO.md lists binary expressions as done: `exit a ^ b' exits with  *)
(* the power.                                                              *)
PowersAreRight ==
  status = "exited" /\ Meaning >= 0 => ExitCode = Meaning
=============================================================================
