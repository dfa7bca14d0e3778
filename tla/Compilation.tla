----------------------------- MODULE Compilation -----------------------------
(***************************************************************************)
(* What `neolang file' promises its user, whatever it does inside: a job   *)
(* is begun for a source text and ends refused, lost or done, and only a   *)
(* job that is under way changes the program, once.  A job is fair as long *)
(* as no other job has run beside or after it and nothing it depends on    *)
(* has failed.  A fair job that ends done has left the program of its own  *)
(* text.                                                                   *)
(***************************************************************************)
CONSTANTS
  Procs,     \* the processes jobs run in
  Texts,     \* the texts a job may be given
  Programs   \* what the program may be: a text stands for its program

VARIABLES
  job,       \* per process "none", "busy", "built", "refused", "lost" or "done"
  text,      \* per process the text of its job
  fair,      \* the processes whose job is fair
  program    \* what the user finds

vars == <<job, text, fair, program>>

Active == {"busy", "built"}

Init ==
  /\ job = [p \in Procs |-> "none"]
  /\ text \in [Procs -> Texts]
  /\ fair = {}
  /\ program \in Programs

Begin(p, t) ==
  /\ job[p] \notin Active
  /\ job'  = [job EXCEPT ![p] = "busy"]
  /\ text' = [text EXCEPT ![p] = t]
  /\ fair' = IF \A q \in Procs \ {p} : job[q] \notin Active THEN {p} ELSE {}
  /\ UNCHANGED program

(* Something the job depends on fails.                                     *)
Disturb(p) ==
  /\ job[p] \in Active
  /\ fair' = fair \ {p}
  /\ UNCHANGED <<job, text, program>>

Build(p) ==
  /\ job[p] = "busy"
  /\ job' = [job EXCEPT ![p] = "built"]
  /\ fair' \in {fair, fair \ {p}}
  /\ program' \in Programs
  /\ p \in fair' => program' = text[p]
  /\ UNCHANGED text

Finish(p) ==
  /\ job[p] = "built"
  /\ job' = [job EXCEPT ![p] = "done"]
  /\ UNCHANGED <<text, fair, program>>

Refuse(p) ==
  /\ job[p] = "busy"
  /\ job' = [job EXCEPT ![p] = "refused"]
  /\ UNCHANGED <<text, fair, program>>

Lose(p) ==
  /\ job[p] \in Active
  /\ job' = [job EXCEPT ![p] = "lost"]
  /\ UNCHANGED <<text, fair, program>>

Next ==
  \E p \in Procs :
    \/ \E t \in Texts : Begin(p, t)
    \/ Disturb(p) \/ Build(p) \/ Finish(p) \/ Refuse(p) \/ Lose(p)

Spec == Init /\ [][Next]_vars
=============================================================================
