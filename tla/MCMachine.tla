------------------------------ MODULE MCMachine ------------------------------
(***************************************************************************)
(* Trees for TLC to compile and run.                                       *)
(***************************************************************************)
EXTENDS MachineReference

N(nt, name, num, kids) == [nt |-> nt, name |-> name, num |-> num, kids |-> kids]

Num(v)       == N("Num", "", v, <<>>)
Id(x)        == N("Ident", x, 0, <<>>)
Bin(l, op, r) == N("BinExpr", op, 0, <<l, r>>)
Range(l, r)  == N("Interval", "", 0, <<l, r>>)
Let(x, e)    == N("Asgn", x, 0, <<e>>)
Def(x, e)    == N("VarDef", x, 0, <<e>>)
Var(x, e)    == N("VarDef", x, 1, <<e>>)
Block(ss)    == N("Scope", "", 0, ss)
If(e, ss)    == N("If", "", 0, <<e, Block(ss)>>)
While(e, ss) == N("While", "", 0, <<e, Block(ss)>>)
For(d, e, ss) == N("For", "", 0, <<d, e, Block(ss)>>)
Exit(e)      == N("Exit", "", 0, <<e>>)

x == Id("x")
y == Id("y")

(* Statements of which every sequence is tried: definitions of variables   *)
(* and constants, assignments, and the control statements.                 *)
Plain ==
  { Var("y", Bin(x, "*", Num(3))),
    Def("y", Num(9)),
    Let("x", Bin(Bin(y, "-", x), "+", Num(1))),
    Let("y", Bin(x, "^", Num(1))),
    If(Bin(x, "<", Num(3)), << Let("x", Num(7)) >>),
    If(Bin(y, ">", x), << Exit(y) >>),
    For(Def("i", Num(0)), Range(Num(1), Num(3)), << Let("x", Bin(x, "+", Id("i"))) >>),
    For(Var("i", x), Num(2), << Let("y", Id("i")), Let("i", Bin(Id("i"), "+", Num(1))) >>),
    Block(<< Let("x", Bin(y, "/", x)) >>),
    Exit(Bin(x, "/", Bin(y, "-", Num(9)))) }

(* Statements the generator is not right about, or refuses.                *)
Odd ==
  { N("Decl", "y", 1, <<>>), N("Decl", "x", 0, <<>>), Exit(y),
    Let("y", Let("x", Num(4))),
    Exit(Bin(Num(2), "^", Num(2))),
    If(x, << If(y, << Exit(Num(1)) >>) >>),
    If(x, << Var("y", Num(3)), Exit(Bin(y, "^", Num(1))) >>),
    For(Def("i", Num(0)), Num(2), << Var("z", Id("i")), Let("x", Id("z")) >>),
    For(Def("i", Num(0)), Num(2), << For(Def("j", Num(0)), Num(2), <<>>) >>),
    For(Var("i", Num(0)), Num(2), << Let("i", Num(0)) >>),
    While(Bin(x, ">", Num(1)), << Let("x", Bin(x, "-", Num(1))) >>),
    While(Num(1), << Var("z", x) >>),
    Block(<< Var("z", x), Block(<<>>) >>),
    Exit(Bin(x, "=", Num(2))), Exit(N("Call", "f", 0, <<>>)),
    N("FunDecl", "f", 0, <<>>), N("FunDef", "f", 0, <<>>), N("Call", "f", 0, <<>>) }

Strings(alphabet, n) == UNION {[1 .. k -> alphabet] : k \in 0 .. n}

MCTrees ==
  {<< Var("x", Num(v)), Var("y", Num(4)) >> \o s \o << Exit(x) >> :
       v \in {2, 5}, s \in Strings(Plain, 2)}
    \cup {<< Var("x", Num(2)) >> \o s \o << Exit(x) >> : s \in Strings(Plain, 3)}
    \cup Strings(Plain \cup Odd \cup {Var("x", Num(2))}, 2)

(* The few trees the disagreements with the documentation show on.         *)
PowerTrees == {<< Exit(Bin(Num(a), "^", Num(b))) >> : a \in 0 .. 3, b \in 1 .. 2}
ScopeTrees == {<< Var("x", Num(2)), Var("y", Num(4)), s, t, Exit(x) >> :
                 s, t \in Plain \ {Var("y", Bin(x, "*", Num(3))), Def("y", Num(9)),
                                    Let("y", Bin(x, "^", Num(1)))}}

(* No tree is deeper than the four levels of children this adds.           *)
Heads(trees) == UNION {{t[i] : i \in DOMAIN t} : t \in trees}
WithKids(ns) == ns \cup UNION {{n.kids[i] : i \in DOMAIN n.kids} : n \in ns}
Within(trees) == WithKids(WithKids(WithKids(WithKids(Heads(trees)))))

MCNodes    == Within({<<s>> : s \in Plain \cup Odd \cup
                {Var("x", Num(2)), Var("x", Num(5)), Var("y", Num(4)), Exit(x)}})
PowerNodes == Within(PowerTrees)
ScopeNodes == Within(ScopeTrees)
=============================================================================
