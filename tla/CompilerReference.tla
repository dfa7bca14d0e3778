--------------------------- MODULE CompilerReference ---------------------------
(***************************************************************************)
(* What a compilation should come to, from the characters of the source to *)
(* the exit code of the program: the references of the phases, applied to  *)
(* what each is handed.  They are recursive, so this module is for TLC     *)
(* only.                                                                   *)
(***************************************************************************)
EXTENDS Compiler

Grammar == INSTANCE ParserReference WITH
             Sources <- {<<>>}, stack <- frames, ctl <- parsectl
Semantics == INSTANCE MachineReference WITH
               Nodes <- {}, Tree <- Program, todo <- tasks, ctl <- genctl,
               status <- process, stack <- memory, Word <- Values

(* `exit' and an expression of numbers, as the grammar has it: main builds *)
(* a program that exits with the value the precedence table gives, if that *)
(* is specified and the generator has the powers right.                    *)
ExitsAsWritten ==
  Finished /\ lexpc = "out" /\ Len(Tokens) > 2 /\ Tokens[1] = "exit"
    /\ (\A i \in 2 .. Len(Tokens) - 1 : Tokens[i] \notin {"ID", "LBRACK", "SEMI"})
    /\ Grammar!Derives("stmt", 1, Len(Tokens))
    => LET e == Seen(Grammar!PrecTree(2, Len(Tokens) - 1), Len(Tokens))
           v == Semantics!Value(e, [x \in {} |-> 0])
       IN  Semantics!CleanExpr(e, {}) /\ Semantics!Powers(e) <= ExpWrap /\ v >= 0
             => status = "success" /\ process = "exited" /\ Semantics!ExitCode = v % Byte

(* A program of the statements the generator handles (Clean, in            *)
(* MachineReference: no while among them) does what its tree means, and a  *)
(* compilation that reports success of it has built it.                    *)
RunsAsCompiled ==
  Finished /\ status = "success" /\ Semantics!Clean => Assembled /\ Semantics!ExitsRight

(* At each hand-over, what the phase's own reference asks of it.           *)
ParsedRight   == at = "parse" => Grammar!AcceptedIffDerivable /\ Grammar!PrecedenceTree
=============================================================================
