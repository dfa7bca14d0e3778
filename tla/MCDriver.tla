------------------------------- MODULE MCDriver -------------------------------
(***************************************************************************)
(* Two processes compile two texts in the same directory, three times in   *)
(* all, and everything the environment can do to them happens.             *)
(***************************************************************************)
EXTENDS Driver

Line(t, ast, long) == [named |-> TRUE, text |-> t, ast |-> ast, long |-> long]

CONSTANTS t1, t2

MCTexts  == {t1, t2}
MCFaults == FaultKinds

(* run.sh's, with -fout-ast; one with a path too long for a message; and   *)
(* one without a source.                                                   *)
MCCommandLines ==
  {Line(t1, TRUE, FALSE), Line(t2, FALSE, TRUE),
   [Line(t1, FALSE, FALSE) EXCEPT !.named = FALSE]}
=============================================================================
