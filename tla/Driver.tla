-------------------------------- MODULE Driver --------------------------------
(***************************************************************************)
(* The driver of neolang: main and Cleanup of src/entry.c, as a process    *)
(* among others that compile in the same directory, and the files that     *)
(* outlive them: bin/out.asm, bin/out.o and bin/out.                       *)
(*                                                                         *)
(* A phase is one step with the outcomes its own module shows it to have.  *)
(* The environment fails in the ways Faults names.  A text stands for the  *)
(* assembly, the object and the program made of it; Torn is a file that is *)
(* not the whole of any of these, Absent no file at all.                   *)
(***************************************************************************)
EXTENDS Naturals

CONSTANTS
  Procs,         \* the processes that may run the compiler
  Texts,         \* the source texts there are
  Absent, Torn,
  CommandLines,  \* what main may be started with
  Faults,        \* the failures of the environment considered
  MaxRuns        \* bound: how many compilations are started

(* argc >= 2; the text of the file argv[1]; whether argv[2] is "-fout-ast"; *)
(* whether argv[1] is too long for MsgRoot.                                *)
CommandLine == [named : BOOLEAN, text : Texts, ast : BOOLEAN, long : BOOLEAN]
FaultKinds  == {"atexit", "open", "close", "short", "tool", "kill"}

ASSUME DriverAssumption ==
  /\ Absent \notin Texts /\ Torn \notin Texts /\ Absent # Torn
  /\ CommandLines \subseteq CommandLine
  /\ Faults \subseteq FaultKinds
  /\ MaxRuns \in Nat

VARIABLES
  at,        \* per process, the call of main it is about to make
  cmd,       \* per process, its command line
  hooked,    \* the processes that have registered Cleanup
  raised,    \* the processes with a message on their error stack
  shown,     \* the processes that have printed theirs
  status,    \* per process "none", "success", "failure", "crash", "killed"
  asm,       \* bin/out.asm
  writers,   \* the processes that have it open
  mixed,     \* whether two of these had it open at once
  obj,       \* bin/out.o
  exe,       \* bin/out
  runs,      \* compilations started
  accepted,  \* history: the texts Generate has returned assembly for
  intact,    \* history: the processes whose compilation nothing has disturbed
  overlap,   \* history: two compilations have run at once
  short      \* history: a file was left cut off, and nothing noticed

files   == <<asm, writers, mixed, obj, exe>>
history == <<accepted, intact, overlap, short>>
vars    == <<at, cmd, hooked, raised, shown, status, files, runs, history>>

Steps == {"idle", "atexit", "argc", "read", "lex", "parse", "ast", "gen",
          "create", "write", "nasm", "ld", "exit"}

Running(p) == at[p] # "idle"
File       == Texts \cup {Absent, Torn}
Source(p)  == cmd[p].text

Goto(p, step)  == at' = [at EXCEPT ![p] = step]
Exit(p, s)     == Goto(p, "exit") /\ status' = [status EXCEPT ![p] = s]
Raise(p)       == raised' = raised \cup {p}

(* RUNTIME_ERR: raise, then exit(EXIT_FAILURE).                            *)
RUNTIME_ERR(p) == Raise(p) /\ Exit(p, "failure")

(* The process is gone, and no handler runs.                               *)
Die(p, s) ==
  /\ Goto(p, "idle")
  /\ status'  = [status EXCEPT ![p] = s]
  /\ writers' = writers \ {p}
  /\ UNCHANGED <<cmd, hooked, raised, shown, asm, mixed, obj, exe, runs, history>>

Init ==
  /\ at = [p \in Procs |-> "idle"]
  /\ cmd \in [Procs -> CommandLines]
  /\ hooked = {} /\ raised = {} /\ shown = {}
  /\ status = [p \in Procs |-> "none"]
  /\ asm = Absent /\ writers = {} /\ mixed = FALSE
  /\ obj = Absent /\ exe = Absent
  /\ runs = 0
  /\ accepted = {} /\ intact = {} /\ overlap = FALSE /\ short = FALSE

-----------------------------------------------------------------------------
(* A process is started: InitMemArena, with an empty error stack.          *)
Start(p) ==
  /\ ~Running(p) /\ runs < MaxRuns
  /\ \E c \in CommandLines : cmd' = [cmd EXCEPT ![p] = c]
  /\ Goto(p, "atexit")
  /\ status' = [status EXCEPT ![p] = "none"]
  /\ hooked' = hooked \ {p} /\ raised' = raised \ {p} /\ shown' = shown \ {p}
  /\ runs' = runs + 1
  /\ LET alone == \A q \in Procs \ {p} : ~Running(q)
     IN  /\ intact'  = IF alone THEN {p} ELSE {}
         /\ overlap' = (overlap \/ ~alone)
  /\ UNCHANGED <<files, accepted, short>>

RegisterCleanup(p) ==
  /\ at[p] = "atexit"
  /\ \/ Goto(p, "argc") /\ hooked' = hooked \cup {p} /\ UNCHANGED <<status, raised>>
     \/ "atexit" \in Faults /\ RUNTIME_ERR(p) /\ UNCHANGED hooked
  /\ UNCHANGED <<cmd, shown, files, runs, history>>

CheckArguments(p) ==
  /\ at[p] = "argc"
  /\ \/ cmd[p].named /\ Goto(p, "read") /\ UNCHANGED <<status, raised>>
     \/ ~cmd[p].named /\ RUNTIME_ERR(p)
  /\ UNCHANGED <<cmd, hooked, shown, files, runs, history>>

BugReadSource(p) ==                    \* looks at the arguments again
  /\ at[p] = "read"
  /\ \/ Goto(p, "lex")
     \/ "open" \in Faults /\ Goto(p, "argc")
  /\ UNCHANGED <<cmd, hooked, raised, shown, status, files, runs, history>>

(* fopen, fread, fclose.  Each of their messages holds the path, and       *)
(* vsprintf writes it into MsgRoot whatever its length.                    *)
ReadSource(p) ==
  /\ at[p] = "read"
  /\ \/ Goto(p, "lex") /\ UNCHANGED <<status, raised>>
     \/ Faults \cap {"open", "close"} # {} /\ RUNTIME_ERR(p)
  /\ UNCHANGED <<cmd, hooked, shown, files, runs, history>>

MessageOverflow(p) ==
  /\ at[p] = "read" /\ cmd[p].long
  /\ Faults \cap {"open", "close"} # {}
  /\ Die(p, "crash")

(* A phase that goes on, or leaves by RUNTIME_ERR, ...                     *)
Phase(p, from, to) ==
  /\ at[p] = from
  /\ \/ Goto(p, to) /\ UNCHANGED <<status, raised>>
     \/ RUNTIME_ERR(p)
  /\ UNCHANGED <<cmd, hooked, shown, files, runs, history>>

(* ... or is ended by a signal: a missing token, an array overrun.         *)
PhaseCrash(p) ==
  /\ at[p] \in {"lex", "parse", "gen"}
  /\ Die(p, "crash")

Tokenize(p) == Phase(p, "lex", "parse")

BugParse(p) == Phase(p, "parse", "ast") \/
  (at[p] = "parse" /\ Exit(p, "failure")  \* NULL, and nothing raised
    /\ UNCHANGED <<cmd, hooked, raised, shown, files, runs, history>>)

(* A tree is returned, with errors on the stack or without; or NULL, never *)
(* without.                                                                *)
Parse(p) ==
  \/ Phase(p, "parse", "ast")
  \/ /\ at[p] = "parse"
     /\ \/ Goto(p, "ast") /\ Raise(p) /\ UNCHANGED status
        \/ Raise(p) /\ Exit(p, "failure")
     /\ UNCHANGED <<cmd, hooked, shown, files, runs, history>>

(* Check returns true.  OutputAST fails where its file does.               *)
OutputAST(p) ==
  /\ at[p] = "ast"
  /\ \/ Goto(p, "gen") /\ UNCHANGED <<status, raised>>
     \/ cmd[p].ast /\ Faults \cap {"open", "close"} # {} /\ RUNTIME_ERR(p)
  /\ UNCHANGED <<cmd, hooked, shown, files, runs, history>>

BugGenerate(p) ==                      \* an error is raised and Generate goes on
  /\ at[p] = "gen"
  /\ \/ accepted' = accepted \cup {Source(p)} /\ UNCHANGED raised
     \/ Raise(p) /\ UNCHANGED accepted
  /\ Goto(p, "create")
  /\ UNCHANGED <<cmd, hooked, shown, status, files, runs, intact, overlap, short>>

Generate(p) ==
  /\ at[p] = "gen"
  /\ \/ /\ Goto(p, "create")
        /\ accepted' = accepted \cup {Source(p)}
        /\ UNCHANGED <<status, raised>>
     \/ RUNTIME_ERR(p) /\ UNCHANGED accepted
  /\ UNCHANGED <<cmd, hooked, shown, files, runs, intact, overlap, short>>

BugCreate(p) ==                        \* "a": what was there is kept
  /\ at[p] = "create"
  /\ Goto(p, "write")
  /\ asm' = IF asm = Absent THEN Torn ELSE asm
  /\ writers' = writers \cup {p}
  /\ mixed' = (writers # {} \/ asm # Absent)
  /\ UNCHANGED <<cmd, hooked, raised, shown, status, obj, exe, runs, history>>

(* fopen(.., "w") truncates the file.                                      *)
Create(p) ==
  /\ at[p] = "create"
  /\ \/ /\ Goto(p, "write")
        /\ asm' = Torn
        /\ writers' = writers \cup {p}
        /\ mixed' = (writers # {})
        /\ UNCHANGED <<status, raised>>
     \/ /\ "open" \in Faults
        /\ RUNTIME_ERR(p)
        /\ UNCHANGED <<asm, writers, mixed>>
  /\ UNCHANGED <<cmd, hooked, shown, obj, exe, runs, history>>

(* fputs, then fclose.  What fputs returns is not looked at, so that a     *)
(* text cut off is noticed only if fclose fails as well.                   *)
Write(p) ==
  /\ at[p] = "write"
  /\ \/ /\ asm' = IF mixed THEN Torn ELSE Source(p)
        /\ Goto(p, "nasm")
        /\ UNCHANGED <<status, raised, intact, short>>
     \/ /\ "short" \in Faults
        /\ asm' = Torn
        /\ Goto(p, "nasm")
        /\ intact' = intact \ {p} /\ short' = TRUE
        /\ UNCHANGED <<status, raised>>
     \/ /\ "close" \in Faults
        /\ asm' = Torn
        /\ RUNTIME_ERR(p)
        /\ UNCHANGED <<intact, short>>
  /\ writers' = writers \ {p}
  /\ UNCHANGED <<cmd, hooked, shown, mixed, obj, exe, runs, accepted, overlap>>

(* What a tool makes of its input, and what it leaves when it fails: the   *)
(* file as it was, or none, or a part of it if it was stopped halfway.     *)
Made(p, in, out, new) ==
  \/ in # Absent /\ new = in /\ UNCHANGED <<intact, short>>
  \/ /\ "tool" \in Faults \/ in \in {Absent, Torn}
     /\ new \in {out, Absent}
     /\ intact' = intact \ {p} /\ UNCHANGED short
  \/ /\ "tool" \in Faults
     /\ new = Torn
     /\ intact' = intact \ {p} /\ short' = TRUE

BugNasm(p) ==                          \* "nasm .. &": ld may come first
  /\ at[p] = "nasm"
  /\ obj' \in {obj, asm}
  /\ Goto(p, "ld")
  /\ UNCHANGED <<cmd, hooked, raised, shown, status, asm, writers, mixed, exe,
                 runs, history>>

(* system("nasm ..."): the status is not looked at.                        *)
Nasm(p) ==
  /\ at[p] = "nasm"
  /\ obj' \in File /\ Made(p, asm, obj, obj')
  /\ Goto(p, "ld")
  /\ UNCHANGED <<cmd, hooked, raised, shown, status, asm, writers, mixed, exe,
                 runs, accepted, overlap>>

(* system("ld ..."), whose status is not looked at either, and return      *)
(* EXIT_SUCCESS.                                                           *)
Ld(p) ==
  /\ at[p] = "ld"
  /\ exe' \in File /\ Made(p, obj, exe, exe')
  /\ Exit(p, "success")
  /\ UNCHANGED <<cmd, hooked, raised, shown, asm, writers, mixed, obj, runs,
                 accepted, overlap>>

(* exit: Cleanup prints the error stack, if it was registered.             *)
Cleanup(p) ==
  /\ at[p] = "exit"
  /\ shown' = IF p \in hooked /\ p \in raised THEN shown \cup {p} ELSE shown
  /\ Goto(p, "idle")
  /\ UNCHANGED <<cmd, hooked, raised, status, files, runs, history>>

(* A signal from outside, at any moment.                                   *)
Kill(p) ==
  /\ "kill" \in Faults /\ Running(p)
  /\ Die(p, "killed")

Step(p) ==
  \/ RegisterCleanup(p) \/ CheckArguments(p) \/ ReadSource(p) \/ MessageOverflow(p)
  \/ Tokenize(p) \/ Parse(p) \/ PhaseCrash(p) \/ OutputAST(p) \/ Generate(p)
  \/ Create(p) \/ Write(p) \/ Nasm(p) \/ Ld(p) \/ Cleanup(p)

AllDone == runs = MaxRuns /\ \A p \in Procs : ~Running(p)
Halt    == AllDone /\ UNCHANGED vars

Next == (\E p \in Procs : Start(p) \/ Step(p) \/ Kill(p)) \/ Halt

(* Every process is scheduled, and the tools it waits for come back.       *)
Safe == Init /\ [][Next]_vars
Spec == Safe /\ \A p \in Procs : WF_vars(Step(p))

-----------------------------------------------------------------------------
TypeOK ==
  /\ at \in [Procs -> Steps]
  /\ cmd \in [Procs -> CommandLine]
  /\ hooked \subseteq Procs /\ raised \subseteq Procs /\ shown \subseteq Procs
  /\ status \in [Procs -> {"none", "success", "failure", "crash", "killed"}]
  /\ asm \in File /\ obj \in File /\ exe \in File
  /\ writers \subseteq Procs /\ mixed \in BOOLEAN
  /\ runs \in 0..MaxRuns
  /\ accepted \subseteq Texts /\ intact \subseteq Procs
  /\ overlap \in BOOLEAN /\ short \in BOOLEAN

(* A compilation that nothing disturbed and that returned EXIT_SUCCESS has *)
(* left the program of its own text in bin/out: whatever bin/ held before, *)
(* from compilations that failed, crashed or were killed at any step.      *)
OwnProgram ==
  \A p \in intact : ~Running(p) /\ status[p] = "success" => exe = Source(p)

(* bin/out is never made of a text Generate refused; it is one whole       *)
(* program unless compilations have overlapped or a file was cut off.      *)
ProgramAccepted ==
  /\ exe \in accepted \cup {Absent, Torn}
  /\ exe = Torn => overlap \/ short

(* A compilation that ends in failure after Cleanup was registered has     *)
(* printed a message: no path to EXIT_FAILURE leaves the error stack empty.*)
NeverSilent ==
  \A p \in hooked : ~Running(p) /\ status[p] = "failure" => p \in shown

(* Every compilation ends, by itself or by a signal.                       *)
Ends == \A p \in Procs : Running(p) ~> ~Running(p)

-----------------------------------------------------------------------------
(* What a user sees of it: a job is busy until the last tool has run.      *)
Job(p) ==
  CASE Running(p) -> IF at[p] = "exit" /\ status[p] = "success" THEN "built" ELSE "busy"
    [] ~Running(p) /\ status[p] = "none"                -> "none"
    [] ~Running(p) /\ status[p] = "success"             -> "done"
    [] ~Running(p) /\ status[p] = "failure"             -> "refused"
    [] ~Running(p) /\ status[p] \in {"crash", "killed"} -> "lost"

Promise == INSTANCE Compilation WITH
  Programs <- File,
  job      <- [p \in Procs |-> Job(p)],
  text     <- [p \in Procs |-> Source(p)],
  fair     <- intact,
  program  <- exe

(* The driver keeps the promise of Compilation: no step of a compilation   *)
(* but its last tool changes the program, and a fair one makes its own.    *)
KeepsPromise == Promise!Spec
=============================================================================
