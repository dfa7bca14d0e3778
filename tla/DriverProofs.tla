----------------------------- MODULE DriverProofs -----------------------------
(***************************************************************************)
(* Proofs about the driver, for any number of processes, texts, command    *)
(* lines, compilations and kinds of failure.                               *)
(*                                                                         *)
(* The inductive invariant follows one compilation through its files: from *)
(* the step that made it on, each of bin/out.asm, bin/out.o and bin/out is *)
(* the text of a compilation that is intact, and nobody else is running.   *)
(***************************************************************************)
EXTENDS Driver, TLAPS

(* What Exit sets is there until Cleanup has run, and nothing before.      *)
StatusInv ==
  \A p \in Procs :
    /\ at[p] \notin {"idle", "exit"} => status[p] = "none"
    /\ at[p] = "exit" => status[p] \in {"success", "failure"}

(* A failure has raised its message, and Cleanup has shown it.             *)
MessageInv ==
  \A p \in Procs :
    /\ at[p] = "exit" /\ status[p] = "failure" => p \in raised
    /\ at[p] = "idle" /\ status[p] = "failure" /\ p \in hooked => p \in shown

(* Two that run have overlapped; nobody runs beside an intact one.         *)
AloneInv ==
  /\ \A p, q \in Procs : p # q /\ Running(p) /\ Running(q) => overlap
  /\ \A p \in intact, q \in Procs : p # q => ~Running(q)

(* bin/out.asm is open in those about to write it, two of which overlap.   *)
WriterInv ==
  /\ \A p \in writers : at[p] = "write"
  /\ mixed => overlap
  /\ mixed => \A p \in intact : at[p] # "write"

(* The files of an intact compilation are its own.                         *)
IntactInv ==
  \A p \in intact :
    /\ at[p] = "nasm" => asm = Source(p)
    /\ at[p] = "ld" => obj = Source(p)
    /\ at[p] \in {"exit", "idle"} /\ status[p] = "success" => exe = Source(p)

(* A file holds what Generate returned, whole unless there is a reason.    *)
AcceptedInv ==
  /\ \A p \in Procs :
       at[p] \in {"create", "write", "nasm", "ld"} => Source(p) \in accepted
  /\ {asm, obj, exe} \subseteq accepted \cup {Absent, Torn}
  /\ Torn \in {obj, exe} => overlap \/ short
  /\ \A p \in Procs : at[p] = "nasm" /\ asm = Torn => overlap \/ short

Inv == /\ TypeOK /\ StatusInv /\ MessageInv /\ AloneInv /\ WriterInv
       /\ IntactInv /\ AcceptedInv

USE DriverAssumption DEF Steps, File, Source, Running

LEMMA InitInv == Init => Inv
<1> SUFFICES ASSUME Init PROVE Inv
  OBVIOUS
<1>1. CommandLines \subseteq CommandLine
  BY DEF CommandLine
<1>2. cmd \in [Procs -> CommandLine]
  BY <1>1 DEF Init
<1>3. TypeOK
  <2>1. at \in [Procs -> Steps] /\ status \in [Procs -> {"none", "success", "failure",
         "crash", "killed"}]
    BY DEF Init
  <2>2. runs \in 0..MaxRuns
    BY DEF Init
  <2>. QED
    BY <1>2, <2>1, <2>2 DEF Init, TypeOK
<1>. QED
  BY <1>3 DEF Init, Inv, StatusInv, MessageInv, AloneInv, WriterInv, IntactInv,
              AcceptedInv

LEMMA SourceType == TypeOK => \A p \in Procs : Source(p) \in Texts
  BY DEF TypeOK, CommandLine

(* One lemma for each conjunct: what the steps do to it.                   *)

LEMMA Next_TypeOK == Inv /\ [Next]_vars => TypeOK'
<1> SUFFICES ASSUME Inv, [Next]_vars PROVE TypeOK'
  OBVIOUS
<1> USE DEF Inv, TypeOK, StatusInv, MessageInv, AloneInv, WriterInv, IntactInv,
           AcceptedInv, files, history, Goto, Exit, Raise, RUNTIME_ERR, Die
<1>1. ASSUME NEW p \in Procs, Start(p) PROVE TypeOK'
  BY <1>1 DEF Start
<1>2. ASSUME NEW p \in Procs, RegisterCleanup(p) PROVE TypeOK'
  BY <1>2 DEF RegisterCleanup
<1>3. ASSUME NEW p \in Procs, CheckArguments(p) PROVE TypeOK'
  BY <1>3 DEF CheckArguments
<1>4. ASSUME NEW p \in Procs, ReadSource(p) PROVE TypeOK'
  BY <1>4 DEF ReadSource
<1>5. ASSUME NEW p \in Procs, MessageOverflow(p) \/ PhaseCrash(p) \/ Kill(p) PROVE TypeOK'
  BY <1>5 DEF MessageOverflow, PhaseCrash, Kill
<1>6. ASSUME NEW p \in Procs, Tokenize(p) \/ Parse(p) PROVE TypeOK'
  BY <1>6 DEF Tokenize, Parse, Phase
<1>7. ASSUME NEW p \in Procs, OutputAST(p) PROVE TypeOK'
  BY <1>7 DEF OutputAST
<1>8. ASSUME NEW p \in Procs, Generate(p) PROVE TypeOK'
  BY <1>8, SourceType DEF Generate
<1>9. ASSUME NEW p \in Procs, Create(p) PROVE TypeOK'
  <2>1. at' \in [Procs -> Steps]
    BY <1>9 DEF Create
  <2>2. status' \in [Procs -> {"none", "success", "failure", "crash", "killed"}]
    BY <1>9 DEF Create
  <2>3. asm' \in File /\ writers' \subseteq Procs /\ raised' \subseteq Procs
    BY <1>9 DEF Create
  <2>4. mixed' \in BOOLEAN
    BY <1>9 DEF Create
  <2>5. UNCHANGED <<cmd, hooked, shown, obj, exe, runs, history>>
    BY <1>9 DEF Create
  <2>. HIDE DEF Inv, StatusInv, MessageInv, AloneInv, WriterInv, IntactInv, AcceptedInv
  <2>6. TypeOK
    BY DEF Inv
  <2>. QED
    BY <2>1, <2>2, <2>3, <2>4, <2>5, <2>6
<1>10. ASSUME NEW p \in Procs, Write(p) PROVE TypeOK'
  <2>1. asm' \in File
    BY <1>10, SourceType DEF Write
  <2>2. at' \in [Procs -> Steps] /\ status' \in [Procs -> {"none", "success", "failure",
         "crash", "killed"}]
    BY <1>10 DEF Write
  <2>3. intact' \subseteq Procs /\ writers' \subseteq Procs
    BY <1>10 DEF Write
  <2>6. raised' \subseteq Procs
    BY <1>10 DEF Write
  <2>7. short' \in BOOLEAN
    BY <1>10 DEF Write
  <2>4. UNCHANGED <<cmd, hooked, shown, mixed, obj, exe, runs, accepted, overlap>>
    BY <1>10 DEF Write
  <2>. HIDE DEF Inv, StatusInv, MessageInv, AloneInv, WriterInv, IntactInv, AcceptedInv
  <2>5. TypeOK
    BY DEF Inv
  <2>. QED
    BY <2>1, <2>2, <2>3, <2>4, <2>5, <2>6, <2>7
<1>11. ASSUME NEW p \in Procs, Nasm(p) PROVE TypeOK'
  BY <1>11 DEF Nasm, Made
<1>12. ASSUME NEW p \in Procs, Ld(p) PROVE TypeOK'
  BY <1>12 DEF Ld, Made
<1>13. ASSUME NEW p \in Procs, Cleanup(p) PROVE TypeOK'
  BY <1>13 DEF Cleanup
<1>14. CASE UNCHANGED vars
  BY <1>14 DEF vars
<1>. QED
  BY <1>1, <1>2, <1>3, <1>4, <1>5, <1>6, <1>7, <1>8, <1>9, <1>10, <1>11, <1>12, <1>13,
       <1>14 DEF Next, Step, Halt

LEMMA Next_StatusInv == Inv /\ [Next]_vars => StatusInv'
<1> SUFFICES ASSUME Inv, [Next]_vars PROVE StatusInv'
  OBVIOUS
<1> USE DEF Inv, TypeOK, StatusInv, MessageInv, AloneInv, WriterInv, IntactInv,
           AcceptedInv, files, history, Goto, Exit, Raise, RUNTIME_ERR, Die
<1>1. ASSUME NEW p \in Procs, Start(p) PROVE StatusInv'
  BY <1>1 DEF Start
<1>2. ASSUME NEW p \in Procs, RegisterCleanup(p) PROVE StatusInv'
  BY <1>2 DEF RegisterCleanup
<1>3. ASSUME NEW p \in Procs, CheckArguments(p) PROVE StatusInv'
  BY <1>3 DEF CheckArguments
<1>4. ASSUME NEW p \in Procs, ReadSource(p) PROVE StatusInv'
  BY <1>4 DEF ReadSource
<1>5. ASSUME NEW p \in Procs, MessageOverflow(p) \/ PhaseCrash(p) \/ Kill(p)
       PROVE StatusInv'
  BY <1>5 DEF MessageOverflow, PhaseCrash, Kill
<1>6. ASSUME NEW p \in Procs, Tokenize(p) \/ Parse(p) PROVE StatusInv'
  BY <1>6 DEF Tokenize, Parse, Phase
<1>7. ASSUME NEW p \in Procs, OutputAST(p) PROVE StatusInv'
  BY <1>7 DEF OutputAST
<1>8. ASSUME NEW p \in Procs, Generate(p) PROVE StatusInv'
  BY <1>8 DEF Generate
<1>9. ASSUME NEW p \in Procs, Create(p) PROVE StatusInv'
  BY <1>9 DEF Create
<1>10. ASSUME NEW p \in Procs, Write(p) PROVE StatusInv'
  BY <1>10 DEF Write
<1>11. ASSUME NEW p \in Procs, Nasm(p) PROVE StatusInv'
  BY <1>11 DEF Nasm, Made
<1>12. ASSUME NEW p \in Procs, Ld(p) PROVE StatusInv'
  BY <1>12 DEF Ld, Made
<1>13. ASSUME NEW p \in Procs, Cleanup(p) PROVE StatusInv'
  BY <1>13 DEF Cleanup
<1>14. CASE UNCHANGED vars
  BY <1>14 DEF vars
<1>. QED
  BY <1>1, <1>2, <1>3, <1>4, <1>5, <1>6, <1>7, <1>8, <1>9, <1>10, <1>11, <1>12, <1>13,
       <1>14 DEF Next, Step, Halt

LEMMA Next_MessageInv == Inv /\ [Next]_vars => MessageInv'
<1> SUFFICES ASSUME Inv, [Next]_vars PROVE MessageInv'
  OBVIOUS
<1> USE DEF Inv, TypeOK, StatusInv, MessageInv, AloneInv, WriterInv, IntactInv,
           AcceptedInv, files, history, Goto, Exit, Raise, RUNTIME_ERR, Die
<1>1. ASSUME NEW p \in Procs, Start(p) PROVE MessageInv'
  BY <1>1 DEF Start
<1>2. ASSUME NEW p \in Procs, RegisterCleanup(p) PROVE MessageInv'
  BY <1>2 DEF RegisterCleanup
<1>3. ASSUME NEW p \in Procs, CheckArguments(p) PROVE MessageInv'
  BY <1>3 DEF CheckArguments
<1>4. ASSUME NEW p \in Procs, ReadSource(p) PROVE MessageInv'
  BY <1>4 DEF ReadSource
<1>5. ASSUME NEW p \in Procs, MessageOverflow(p) \/ PhaseCrash(p) \/ Kill(p)
       PROVE MessageInv'
  BY <1>5 DEF MessageOverflow, PhaseCrash, Kill
<1>6. ASSUME NEW p \in Procs, Tokenize(p) \/ Parse(p) PROVE MessageInv'
  BY <1>6 DEF Tokenize, Parse, Phase
<1>7. ASSUME NEW p \in Procs, OutputAST(p) PROVE MessageInv'
  BY <1>7 DEF OutputAST
<1>8. ASSUME NEW p \in Procs, Generate(p) PROVE MessageInv'
  BY <1>8 DEF Generate
<1>9. ASSUME NEW p \in Procs, Create(p) PROVE MessageInv'
  BY <1>9 DEF Create
<1>10. ASSUME NEW p \in Procs, Write(p) PROVE MessageInv'
  BY <1>10 DEF Write
<1>11. ASSUME NEW p \in Procs, Nasm(p) PROVE MessageInv'
  BY <1>11 DEF Nasm, Made
<1>12. ASSUME NEW p \in Procs, Ld(p) PROVE MessageInv'
  BY <1>12 DEF Ld, Made
<1>13. ASSUME NEW p \in Procs, Cleanup(p) PROVE MessageInv'
  BY <1>13 DEF Cleanup
<1>14. CASE UNCHANGED vars
  BY <1>14 DEF vars
<1>. QED
  BY <1>1, <1>2, <1>3, <1>4, <1>5, <1>6, <1>7, <1>8, <1>9, <1>10, <1>11, <1>12, <1>13,
       <1>14 DEF Next, Step, Halt

LEMMA Next_AloneInv == Inv /\ [Next]_vars => AloneInv'
<1> SUFFICES ASSUME Inv, [Next]_vars PROVE AloneInv'
  OBVIOUS
<1> USE DEF Inv, TypeOK, StatusInv, MessageInv, AloneInv, WriterInv, IntactInv,
           AcceptedInv, files, history, Goto, Exit, Raise, RUNTIME_ERR, Die
<1>1. ASSUME NEW p \in Procs, Start(p) PROVE AloneInv'
  <2>1. at' = [at EXCEPT ![p] = "atexit"]
    BY <1>1 DEF Start
  <2>2. CASE \A q \in Procs \ {p} : ~Running(q)
    <3>1. intact' = {p} /\ overlap' = overlap
      BY <1>1, <2>2 DEF Start
    <3>. QED
      BY <2>1, <2>2, <3>1
  <2>3. CASE \E q \in Procs \ {p} : Running(q)
    <3>1. intact' = {} /\ overlap' = TRUE
      BY <1>1, <2>3 DEF Start
    <3>. QED
      BY <3>1
  <2>. QED
    BY <2>2, <2>3
<1>2. ASSUME NEW p \in Procs, RegisterCleanup(p) PROVE AloneInv'
  BY <1>2 DEF RegisterCleanup
<1>3. ASSUME NEW p \in Procs, CheckArguments(p) PROVE AloneInv'
  BY <1>3 DEF CheckArguments
<1>4. ASSUME NEW p \in Procs, ReadSource(p) PROVE AloneInv'
  BY <1>4 DEF ReadSource
<1>5. ASSUME NEW p \in Procs, MessageOverflow(p) \/ PhaseCrash(p) \/ Kill(p) PROVE AloneInv'
  BY <1>5 DEF MessageOverflow, PhaseCrash, Kill
<1>6. ASSUME NEW p \in Procs, Tokenize(p) \/ Parse(p) PROVE AloneInv'
  BY <1>6 DEF Tokenize, Parse, Phase
<1>7. ASSUME NEW p \in Procs, OutputAST(p) PROVE AloneInv'
  BY <1>7 DEF OutputAST
<1>8. ASSUME NEW p \in Procs, Generate(p) PROVE AloneInv'
  BY <1>8 DEF Generate
<1>9. ASSUME NEW p \in Procs, Create(p) PROVE AloneInv'
  BY <1>9 DEF Create
<1>10. ASSUME NEW p \in Procs, Write(p) PROVE AloneInv'
  BY <1>10 DEF Write
<1>11. ASSUME NEW p \in Procs, Nasm(p) PROVE AloneInv'
  BY <1>11 DEF Nasm, Made
<1>12. ASSUME NEW p \in Procs, Ld(p) PROVE AloneInv'
  BY <1>12 DEF Ld, Made
<1>13. ASSUME NEW p \in Procs, Cleanup(p) PROVE AloneInv'
  BY <1>13 DEF Cleanup
<1>14. CASE UNCHANGED vars
  BY <1>14 DEF vars
<1>. QED
  BY <1>1, <1>2, <1>3, <1>4, <1>5, <1>6, <1>7, <1>8, <1>9, <1>10, <1>11, <1>12, <1>13,
       <1>14 DEF Next, Step, Halt

LEMMA Next_WriterInv == Inv /\ [Next]_vars => WriterInv'
<1> SUFFICES ASSUME Inv, [Next]_vars PROVE WriterInv'
  OBVIOUS
<1> USE DEF Inv, TypeOK, StatusInv, MessageInv, AloneInv, WriterInv, IntactInv,
           AcceptedInv, files, history, Goto, Exit, Raise, RUNTIME_ERR, Die
<1>1. ASSUME NEW p \in Procs, Start(p) PROVE WriterInv'
  BY <1>1 DEF Start
<1>2. ASSUME NEW p \in Procs, RegisterCleanup(p) PROVE WriterInv'
  BY <1>2 DEF RegisterCleanup
<1>3. ASSUME NEW p \in Procs, CheckArguments(p) PROVE WriterInv'
  BY <1>3 DEF CheckArguments
<1>4. ASSUME NEW p \in Procs, ReadSource(p) PROVE WriterInv'
  BY <1>4 DEF ReadSource
<1>5. ASSUME NEW p \in Procs, MessageOverflow(p) \/ PhaseCrash(p) \/ Kill(p)
       PROVE WriterInv'
  BY <1>5 DEF MessageOverflow, PhaseCrash, Kill
<1>6. ASSUME NEW p \in Procs, Tokenize(p) \/ Parse(p) PROVE WriterInv'
  BY <1>6 DEF Tokenize, Parse, Phase
<1>7. ASSUME NEW p \in Procs, OutputAST(p) PROVE WriterInv'
  BY <1>7 DEF OutputAST
<1>8. ASSUME NEW p \in Procs, Generate(p) PROVE WriterInv'
  BY <1>8 DEF Generate
<1>9. ASSUME NEW p \in Procs, Create(p) PROVE WriterInv'
  <2>1. CASE writers = {}
    <3>1. \A r \in writers' : at'[r] = "write"
      BY <1>9, <2>1 DEF Create
    <3>2. CASE ~mixed'
      BY <3>1, <3>2
    <3>3. CASE UNCHANGED mixed /\ at' = [at EXCEPT ![p] = "exit"]
      BY <1>9, <3>1, <3>3 DEF Create
    <3>. QED
      BY <1>9, <2>1, <3>2, <3>3 DEF Create
  <2>2. CASE writers # {}
    <3>1. PICK q \in writers : at[q] = "write"
      BY <2>2
    <3>2. q \in Procs /\ q # p /\ overlap /\ p \notin intact
      BY <1>9, <3>1 DEF Create
    <3>3. overlap' = overlap /\ intact' = intact
      BY <1>9 DEF Create
    <3>4. \A r \in intact : at[r] # "write"
      BY <1>9, <3>1, <3>2 DEF Create
    <3>. QED
      BY <1>9, <3>2, <3>3, <3>4 DEF Create
  <2>. QED
    BY <2>1, <2>2
<1>10. ASSUME NEW p \in Procs, Write(p) PROVE WriterInv'
  BY <1>10 DEF Write
<1>11. ASSUME NEW p \in Procs, Nasm(p) PROVE WriterInv'
  BY <1>11 DEF Nasm, Made
<1>12. ASSUME NEW p \in Procs, Ld(p) PROVE WriterInv'
  BY <1>12 DEF Ld, Made
<1>13. ASSUME NEW p \in Procs, Cleanup(p) PROVE WriterInv'
  BY <1>13 DEF Cleanup
<1>14. CASE UNCHANGED vars
  BY <1>14 DEF vars
<1>. QED
  BY <1>1, <1>2, <1>3, <1>4, <1>5, <1>6, <1>7, <1>8, <1>9, <1>10, <1>11, <1>12, <1>13,
       <1>14 DEF Next, Step, Halt

LEMMA Next_IntactInv == Inv /\ [Next]_vars => IntactInv'
<1> SUFFICES ASSUME Inv, [Next]_vars PROVE IntactInv'
  OBVIOUS
<1> USE DEF Inv, TypeOK, StatusInv, MessageInv, AloneInv, WriterInv, IntactInv,
           AcceptedInv, files, history, Goto, Exit, Raise, RUNTIME_ERR, Die
<1>1. ASSUME NEW p \in Procs, Start(p) PROVE IntactInv'
  BY <1>1 DEF Start
<1>2. ASSUME NEW p \in Procs, RegisterCleanup(p) PROVE IntactInv'
  BY <1>2 DEF RegisterCleanup
<1>3. ASSUME NEW p \in Procs, CheckArguments(p) PROVE IntactInv'
  BY <1>3 DEF CheckArguments
<1>4. ASSUME NEW p \in Procs, ReadSource(p) PROVE IntactInv'
  BY <1>4 DEF ReadSource
<1>5. ASSUME NEW p \in Procs, MessageOverflow(p) \/ PhaseCrash(p) \/ Kill(p)
       PROVE IntactInv'
  BY <1>5 DEF MessageOverflow, PhaseCrash, Kill
<1>6. ASSUME NEW p \in Procs, Tokenize(p) \/ Parse(p) PROVE IntactInv'
  BY <1>6 DEF Tokenize, Parse, Phase
<1>7. ASSUME NEW p \in Procs, OutputAST(p) PROVE IntactInv'
  BY <1>7 DEF OutputAST
<1>8. ASSUME NEW p \in Procs, Generate(p) PROVE IntactInv'
  BY <1>8 DEF Generate
<1>9. ASSUME NEW p \in Procs, Create(p) PROVE IntactInv'
  BY <1>9 DEF Create
<1>10. ASSUME NEW p \in Procs, Write(p) PROVE IntactInv'
  BY <1>10 DEF Write
<1>11. ASSUME NEW p \in Procs, Nasm(p) PROVE IntactInv'
  BY <1>11 DEF Nasm, Made
<1>12. ASSUME NEW p \in Procs, Ld(p) PROVE IntactInv'
  BY <1>12 DEF Ld, Made
<1>13. ASSUME NEW p \in Procs, Cleanup(p) PROVE IntactInv'
  BY <1>13 DEF Cleanup
<1>14. CASE UNCHANGED vars
  BY <1>14 DEF vars
<1>. QED
  BY <1>1, <1>2, <1>3, <1>4, <1>5, <1>6, <1>7, <1>8, <1>9, <1>10, <1>11, <1>12, <1>13,
       <1>14 DEF Next, Step, Halt

LEMMA Next_AcceptedInv == Inv /\ [Next]_vars => AcceptedInv'
<1> SUFFICES ASSUME Inv, [Next]_vars PROVE AcceptedInv'
  OBVIOUS
<1> USE DEF Inv, TypeOK, StatusInv, MessageInv, AloneInv, WriterInv, IntactInv,
           AcceptedInv, files, history, Goto, Exit, Raise, RUNTIME_ERR, Die
<1>1. ASSUME NEW p \in Procs, Start(p) PROVE AcceptedInv'
  BY <1>1 DEF Start
<1>2. ASSUME NEW p \in Procs, RegisterCleanup(p) PROVE AcceptedInv'
  BY <1>2 DEF RegisterCleanup
<1>3. ASSUME NEW p \in Procs, CheckArguments(p) PROVE AcceptedInv'
  BY <1>3 DEF CheckArguments
<1>4. ASSUME NEW p \in Procs, ReadSource(p) PROVE AcceptedInv'
  BY <1>4 DEF ReadSource
<1>5. ASSUME NEW p \in Procs, MessageOverflow(p) \/ PhaseCrash(p) \/ Kill(p)
       PROVE AcceptedInv'
  BY <1>5 DEF MessageOverflow, PhaseCrash, Kill
<1>6. ASSUME NEW p \in Procs, Tokenize(p) \/ Parse(p) PROVE AcceptedInv'
  BY <1>6 DEF Tokenize, Parse, Phase
<1>7. ASSUME NEW p \in Procs, OutputAST(p) PROVE AcceptedInv'
  BY <1>7 DEF OutputAST
<1>8. ASSUME NEW p \in Procs, Generate(p) PROVE AcceptedInv'
  BY <1>8 DEF Generate
<1>9. ASSUME NEW p \in Procs, Create(p) PROVE AcceptedInv'
  BY <1>9 DEF Create
<1>10. ASSUME NEW p \in Procs, Write(p) PROVE AcceptedInv'
  BY <1>10 DEF Write
<1>11. ASSUME NEW p \in Procs, Nasm(p) PROVE AcceptedInv'
  BY <1>11 DEF Nasm, Made
<1>12. ASSUME NEW p \in Procs, Ld(p) PROVE AcceptedInv'
  BY <1>12 DEF Ld, Made
<1>13. ASSUME NEW p \in Procs, Cleanup(p) PROVE AcceptedInv'
  BY <1>13 DEF Cleanup
<1>14. CASE UNCHANGED vars
  BY <1>14 DEF vars
<1>. QED
  BY <1>1, <1>2, <1>3, <1>4, <1>5, <1>6, <1>7, <1>8, <1>9, <1>10, <1>11, <1>12, <1>13,
       <1>14 DEF Next, Step, Halt

LEMMA NextInv == Inv /\ [Next]_vars => Inv'
  BY Next_TypeOK, Next_StatusInv, Next_MessageInv, Next_AloneInv, Next_WriterInv,
     Next_IntactInv, Next_AcceptedInv DEF Inv

(* The inductive invariant holds, whatever is scheduled.                   *)
THEOREM Invariant == Safe => []Inv
  BY InitInv, NextInv, PTL DEF Safe

(* Each variable of the driver keeps its type.                             *)
THEOREM TypeCorrect == Spec => []TypeOK
  BY Invariant, PTL DEF Inv, Spec

(* A compilation that nothing disturbed and that returned EXIT_SUCCESS has *)
(* left its own program in bin/out, whatever was there before.             *)
THEOREM LeavesOwnProgram == Spec => []OwnProgram
<1>1. Inv => OwnProgram
  BY DEF Inv, IntactInv, OwnProgram, TypeOK
<1>. QED
  BY <1>1, Invariant, PTL DEF Spec

(* No text that Generate refused is ever the program, and no file cut off, *)
(* unless compilations overlapped or a file was cut off behind their back. *)
THEOREM OnlyAccepted == Spec => []ProgramAccepted
<1>1. Inv => ProgramAccepted
  BY DEF Inv, AcceptedInv, ProgramAccepted
<1>. QED
  BY <1>1, Invariant, PTL DEF Spec

(* Whoever fails after Cleanup was registered has said why.                *)
THEOREM NoSilentFailure == Spec => []NeverSilent
<1>1. Inv => NeverSilent
  BY DEF Inv, TypeOK, MessageInv, NeverSilent
<1>. QED
  BY <1>1, Invariant, PTL DEF Spec

-----------------------------------------------------------------------------
(* The refinement: each step of the driver is one of Compilation, or none. *)
Jobs    == [p \in Procs |-> Job(p)]
Sources == [p \in Procs |-> Source(p)]

(* A step of p that leaves the others alone changes at most the job of p.  *)
LEMMA OthersKeepJobs ==
  ASSUME TypeOK, TypeOK', NEW p \in Procs, NEW step, NEW s,
         at' = [at EXCEPT ![p] = step],
         status' = [status EXCEPT ![p] = s] \/ status' = status
  PROVE  Jobs' = [Jobs EXCEPT ![p] = Job(p)']
<1>1. \A q \in Procs \ {p} : at'[q] = at[q] /\ status'[q] = status[q]
  BY DEF TypeOK
<1>2. \A q \in Procs \ {p} : Job(q)' = Job(q)
  BY <1>1 DEF Job
<1>. QED
  BY <1>2 DEF Jobs

(* What the job of a process is, by where it stands.                       *)
LEMMA JobCases ==
  ASSUME TypeOK, NEW p \in Procs
  PROVE  /\ at[p] \notin {"idle", "exit"} => Job(p) = "busy"
         /\ at[p] = "exit" /\ status[p] # "success" => Job(p) = "busy"
         /\ at[p] = "exit" /\ status[p] = "success" => Job(p) = "built"
         /\ at[p] = "idle" /\ status[p] = "none" => Job(p) = "none"
         /\ at[p] = "idle" /\ status[p] = "success" => Job(p) = "done"
         /\ at[p] = "idle" /\ status[p] = "failure" => Job(p) = "refused"
         /\ at[p] = "idle" /\ status[p] \in {"crash", "killed"} => Job(p) = "lost"
         /\ Running(p) <=> Job(p) \in Promise!Active
  BY DEF TypeOK, Job, Promise!Active

(* A step within a compilation is no step of the promise.                  *)
LEMMA StaysBusy ==
  ASSUME TypeOK, TypeOK', NEW p \in Procs, NEW step, NEW s,
         at' = [at EXCEPT ![p] = step],
         status' = [status EXCEPT ![p] = s] \/ status' = status,
         at[p] \notin {"idle", "exit"}, step # "idle",
         step = "exit" => status'[p] = "failure"
  PROVE  Jobs[p] = "busy" /\ Jobs' = Jobs
<1>1. at'[p] = step
  BY DEF TypeOK
<1>2. Job(p) = "busy" /\ Job(p)' = "busy"
  BY <1>1 DEF Job
<1>3. Jobs' = [Jobs EXCEPT ![p] = "busy"]
  BY <1>2, OthersKeepJobs
<1>. QED
  BY <1>2, <1>3 DEF Jobs

LEMMA FailureSet ==
  ASSUME TypeOK, NEW p \in Procs, status' = [status EXCEPT ![p] = "failure"]
  PROVE  status'[p] = "failure"
  BY DEF TypeOK

(* The driver is what Compilation promises.                                *)
LEMMA InitRefines == Init => Promise!Init
<1> SUFFICES ASSUME Init PROVE Promise!Init
  OBVIOUS
<1>1. TypeOK
  BY InitInv DEF Inv
<1>2. \A p \in Procs : Job(p) = "none"
  BY DEF Init, Job
<1>. QED
  BY <1>1, <1>2, SourceType DEF Init, Promise!Init

LEMMA NextRefines == Inv /\ Inv' /\ [Next]_vars => [Promise!Next]_Promise!vars
<1> SUFFICES ASSUME Inv, Inv', [Next]_vars PROVE [Promise!Next]_Promise!vars
  OBVIOUS
<1>0. TypeOK /\ TypeOK'
  BY DEF Inv
<1> USE <1>0
<1>1. ASSUME NEW p \in Procs, Start(p) PROVE Promise!Next
  <2>1. at' = [at EXCEPT ![p] = "atexit"] /\ status' = [status EXCEPT ![p] = "none"]
    BY <1>1 DEF Start, Goto
  <2>2. Jobs' = [Jobs EXCEPT ![p] = "busy"]
    <3>1. Job(p)' = "busy"
      BY <2>1 DEF TypeOK, Job
    <3>. QED
      BY <2>1, <3>1, OthersKeepJobs
  <2>3. PICK t \in Texts : Sources' = [Sources EXCEPT ![p] = t]
    <3>1. PICK c \in CommandLines : cmd' = [cmd EXCEPT ![p] = c]
      BY <1>1 DEF Start
    <3>2. c.text \in Texts
      BY DEF CommandLine
    <3>3. Sources' = [Sources EXCEPT ![p] = c.text]
      BY <3>1 DEF Sources, TypeOK
    <3>. QED
      BY <3>2, <3>3
  <2>4. \A q \in Procs : Running(q) <=> Jobs[q] \in Promise!Active
    BY JobCases DEF Jobs
  <2>5. Jobs[p] \notin Promise!Active
    BY <1>1, <2>4 DEF Start
  <2>6. intact' = IF \A q \in Procs \ {p} : Jobs[q] \notin Promise!Active THEN {p} ELSE {}
    BY <1>1, <2>4 DEF Start
  <2>7. Promise!Begin(p, t)
    BY <1>1, <2>2, <2>3, <2>5, <2>6 DEF Start, files, Promise!Begin, Jobs, Sources
  <2>. QED
    BY <2>7 DEF Promise!Next
<1>2. ASSUME NEW p \in Procs,
             \/ RegisterCleanup(p) \/ CheckArguments(p) \/ ReadSource(p)
             \/ Tokenize(p) \/ Parse(p) \/ OutputAST(p) \/ Generate(p) \/ Create(p)
      PROVE  UNCHANGED Promise!vars
  <2>1. at[p] \notin {"idle", "exit"}
    BY <1>2 DEF RegisterCleanup, CheckArguments, ReadSource, Tokenize, Parse, Phase,
                OutputAST, Generate, Create
  <2>2. UNCHANGED <<cmd, intact, exe>>
    BY <1>2 DEF RegisterCleanup, CheckArguments, ReadSource, Tokenize, Parse, Phase,
                OutputAST, Generate, Create, files, history
  <2>3. \/ RUNTIME_ERR(p)
        \/ \E step \in Steps \ {"idle", "exit"} : Goto(p, step) /\ UNCHANGED status
    BY <1>2 DEF RegisterCleanup, CheckArguments, ReadSource, Tokenize, Parse, Phase,
                OutputAST, Generate, Create, RUNTIME_ERR
  <2>4. Jobs' = Jobs
    BY <2>1, <2>3, StaysBusy, FailureSet DEF RUNTIME_ERR, Exit, Goto
  <2>. QED
    BY <2>2, <2>4 DEF Promise!vars, Jobs
<1>3. ASSUME NEW p \in Procs, MessageOverflow(p) \/ PhaseCrash(p) \/ Kill(p)
      PROVE  Promise!Next
  <2>1. PICK s \in {"crash", "killed"} : Running(p) /\ Die(p, s)
    BY <1>3 DEF MessageOverflow, PhaseCrash, Kill
  <2>2. Job(p)' = "lost"
    BY <2>1 DEF Die, Goto, TypeOK, Job
  <2>3. Jobs' = [Jobs EXCEPT ![p] = "lost"]
    BY <2>1, <2>2, OthersKeepJobs DEF Die, Goto
  <2>4. Jobs[p] \in Promise!Active
    BY <2>1, JobCases DEF Jobs
  <2>5. Promise!Lose(p)
    BY <2>1, <2>3, <2>4 DEF Die, history, Promise!Lose, Jobs
  <2>. QED
    BY <2>5 DEF Promise!Next
<1>4. ASSUME NEW p \in Procs, Write(p) \/ Nasm(p)
      PROVE  UNCHANGED Promise!vars \/ Promise!Next
  <2>1. at[p] \notin {"idle", "exit"} /\ UNCHANGED <<cmd, exe>>
    BY <1>4 DEF Write, Nasm
  <2>2. intact' \in {intact, intact \ {p}}
    BY <1>4 DEF Write, Nasm, Made
  <2>3. RUNTIME_ERR(p) \/ \E step \in {"nasm", "ld"} : Goto(p, step) /\ UNCHANGED status
    BY <1>4 DEF Write, Nasm
  <2>4. Jobs[p] = "busy" /\ Jobs' = Jobs
    BY <2>1, <2>3, StaysBusy, FailureSet DEF RUNTIME_ERR, Exit, Goto
  <2>5. CASE intact' = intact
    BY <2>1, <2>4, <2>5 DEF Promise!vars, Jobs
  <2>6. CASE intact' = intact \ {p}
    <3>1. Promise!Disturb(p)
      BY <2>1, <2>4, <2>6 DEF Promise!Disturb, Promise!Active, Jobs
    <3>. QED
      BY <3>1 DEF Promise!Next
  <2>. QED
    BY <2>2, <2>5, <2>6
<1>5. ASSUME NEW p \in Procs, Ld(p) PROVE Promise!Next
  <2>1. /\ at[p] = "ld" /\ UNCHANGED cmd
        /\ at' = [at EXCEPT ![p] = "exit"] /\ status' = [status EXCEPT ![p] = "success"]
        /\ intact' \in {intact, intact \ {p}} /\ exe' \in File
    BY <1>5 DEF Ld, Made, Exit, Goto
  <2>2. Job(p) = "busy" /\ Job(p)' = "built"
    BY <2>1 DEF TypeOK, Job
  <2>3. Jobs' = [Jobs EXCEPT ![p] = "built"]
    BY <2>1, <2>2, OthersKeepJobs
  <2>4. p \in intact' => exe' = Source(p)
    <3>1. at'[p] = "exit" /\ status'[p] = "success"
      BY <2>1 DEF TypeOK
    <3>. QED
      BY <2>1, <3>1 DEF Inv, IntactInv
  <2>5. Promise!Build(p)
    BY <2>1, <2>2, <2>3, <2>4 DEF Promise!Build, Jobs
  <2>. QED
    BY <2>5 DEF Promise!Next
<1>6. ASSUME NEW p \in Procs, Cleanup(p) PROVE Promise!Next
  <2>1. /\ at[p] = "exit" /\ at' = [at EXCEPT ![p] = "idle"]
        /\ UNCHANGED <<cmd, status, intact, exe>>
    BY <1>6 DEF Cleanup, Goto, files, history
  <2>2. CASE status[p] = "success"
    <3>1. Job(p) = "built" /\ Job(p)' = "done"
      BY <2>1, <2>2 DEF TypeOK, Job
    <3>2. Promise!Finish(p)
      BY <2>1, <3>1, OthersKeepJobs DEF Promise!Finish, Jobs
    <3>. QED
      BY <3>2 DEF Promise!Next
  <2>3. CASE status[p] = "failure"
    <3>1. Job(p) = "busy" /\ Job(p)' = "refused"
      BY <2>1, <2>3 DEF TypeOK, Job
    <3>2. Promise!Refuse(p)
      BY <2>1, <3>1, OthersKeepJobs DEF Promise!Refuse, Jobs
    <3>. QED
      BY <3>2 DEF Promise!Next
  <2>. QED
    BY <2>1, <2>2, <2>3 DEF Inv, StatusInv
<1>7. CASE UNCHANGED vars
  BY <1>7 DEF vars, files, history, Promise!vars, Job
<1>. QED
  BY <1>1, <1>2, <1>3, <1>4, <1>5, <1>6, <1>7 DEF Next, Step, Halt

(* The driver keeps the promise: nothing but the last tool of a compilation*)
(* changes the program, and an undisturbed one makes its own of it.        *)
THEOREM Refinement == Spec => KeepsPromise
  BY InitRefines, InitInv, NextInv, NextRefines, Invariant, PTL
  DEF Spec, Safe, KeepsPromise, Promise!Spec
=============================================================================
