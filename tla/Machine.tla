------------------------------- MODULE Machine -------------------------------
(***************************************************************************)
(* What becomes of the generator's output: nasm and ld (entry.c:88) and    *)
(* the x86-64 process they build, as far as the generator uses them.       *)
(*                                                                         *)
(* Words have Word values (2^64) and bytes Byte values (256).  A slot of   *)
(* the stack is a word; the slots the kernel fills before _start are not   *)
(* the program's: reaching them, or below rsp, is "stray".                 *)
(***************************************************************************)
EXTENDS Generator

CONSTANTS Word, Byte,
          StackSlots     \* how many words the stack has room for

ASSUME MachineAssumption ==
  /\ Byte \in Nat /\ Byte > 1
  /\ Word \in Nat /\ Word > 60 /\ Word % (2 * Byte) = 0
  /\ StackSlots \in Nat

VARIABLES
  status,   \* "unbuilt", "rejected" by nasm, "running", or how it ended:
            \* "exited", "fault" (a signal), "stray", "ranoff" the end of TEXT
  pc,       \* the line of TEXT to be executed next
  regs,     \* the registers
  flags,    \* what the last cmp or dec compared
  stack     \* the program's part of the stack, its top last

machvars == <<status, pc, regs, flags, stack>>
allvars  == <<genvars, machvars>>

Ended == \/ status \in {"rejected", "exited", "fault", "stray", "ranoff"}
         \/ ctl # "gen"

-----------------------------------------------------------------------------
(* A local label belongs to the last label before it that is not local.    *)
Marks   == {i \in 1 .. Len(TEXT) : TEXT[i].ins.op = "label"}
Jumps   == {i \in 1 .. Len(TEXT) : TEXT[i].ins.op \in {"je", "jl", "jg"}}
IsLocal(to) == to.name = None

Owner(i) ==
  LET before == {j \in Marks : j <= i /\ ~IsLocal(TEXT[j].ins.to)}
  IN  IF before = {} THEN At("_start", 0, None)
      ELSE TEXT[CHOOSE j \in before : \A k \in before : k <= j].ins.to

FullName(i) ==
  LET to == TEXT[i].ins.to
  IN  IF IsLocal(to) THEN [Owner(i) EXCEPT !.local = to.local] ELSE to

Assembles ==
  /\ \A i, j \in Marks : FullName(i) = FullName(j) => i = j
  /\ \A i \in Jumps : \E j \in Marks : FullName(j) = FullName(i)

Target(i) == CHOOSE j \in Marks : FullName(j) = FullName(i)

(* Slots by which an instruction raises the stack.                         *)
Effect(ins) ==
  CASE ins.op \in {"push", "pushi", "pushm"} -> 1
    [] ins.op = "pop"  -> -1
    [] ins.op = "drop" -> 0 - ins.n
    [] OTHER           -> 0

(* Where line i leaves the stack, by the StackPtr it was written at; and   *)
(* the StackPtr the line after it was, or is to be, written at.            *)
After(i) == IF i = 0 THEN 0 ELSE TEXT[i].sp + Effect(TEXT[i].ins)
Above(i) == IF i < Len(TEXT) THEN TEXT[i + 1].sp ELSE StackPtr

(* No slot was counted that no line has pushed.                            *)
Accounted == \A i \in 0 .. Len(TEXT) : Above(i) = After(i)

(* A jump and the label it goes to were written at the same StackPtr.      *)
Level ==
  \A i \in Jumps, j \in Marks : FullName(i) = FullName(j) => TEXT[i].sp = TEXT[j].sp

-----------------------------------------------------------------------------
Fetched == TEXT[pc].ins
Execute(op) == status = "running" /\ pc <= Len(TEXT) /\ Fetched.op = op
A       == regs[Fetched.a]           \* the operands, in Intel order
B       == regs[Fetched.b]
Top     == Len(stack)
Signed(v) == IF v >= Word \div 2 THEN v - Word ELSE v

Set(r, v)  == regs' = [regs EXCEPT ![r] = v % Word]
Dest(v)    == Set(Fetched.a, v)
LowByte(b) == Dest((A - (A % Byte)) + (IF b THEN 1 ELSE 0))
Advance    == pc' = pc + 1
Stop(how)  == status' = how /\ UNCHANGED <<pc, regs, flags, stack>>

Assemble ==
  /\ Generated /\ status = "unbuilt"
  /\ status' = IF Assembles THEN "running" ELSE "rejected"
  /\ UNCHANGED <<genvars, pc, regs, flags, stack>>

Pushed(v) == IF Top < StackSlots
             THEN stack' = Append(stack, v) /\ Advance
                    /\ UNCHANGED <<status, regs, flags>>
             ELSE Stop("fault")

XPush ==
  /\ \/ Execute("push")  /\ Pushed(A)
     \/ Execute("pushi") /\ Pushed(Fetched.n % Word)
     \/ /\ Execute("pushm")
        /\ IF Fetched.n \in 0 .. Top - 1 THEN Pushed(stack[Top - Fetched.n])
                                       ELSE Stop("stray")
  /\ UNCHANGED genvars

XPop ==
  /\ Execute("pop")
  /\ IF Top > 0
     THEN /\ Dest(stack[Top])
          /\ stack' = SubSeq(stack, 1, Top - 1)
          /\ Advance
          /\ UNCHANGED <<status, flags>>
     ELSE Stop("stray")
  /\ UNCHANGED genvars

XDrop ==                               \* add rsp, 8 * n
  /\ Execute("drop")
  /\ IF Fetched.n \in 0 .. Top
     THEN /\ stack' = SubSeq(stack, 1, Top - Fetched.n)
          /\ Advance
          /\ UNCHANGED <<status, regs, flags>>
     ELSE Stop("stray")
  /\ UNCHANGED genvars

XStore ==                              \* mov [rsp + 8 * n], rax
  /\ Execute("store")
  /\ IF Fetched.n \in 0 .. Top - 1
     THEN /\ stack' = [stack EXCEPT ![Top - Fetched.n] = regs["rax"]]
          /\ Advance
          /\ UNCHANGED <<status, regs, flags>>
     ELSE Stop("stray")
  /\ UNCHANGED genvars

(* mul leaves the low word of the product in rax; setl and setg write the  *)
(* low byte of their operand; dec, like cmp, sets the flags.               *)
XCompute ==
  /\ \/ Execute("mov")  /\ Dest(B) /\ UNCHANGED flags
     \/ Execute("movi") /\ Dest(Fetched.n) /\ UNCHANGED flags
     \/ Execute("add")  /\ Dest(A + B) /\ UNCHANGED flags
     \/ Execute("sub")  /\ Dest(A + Word - B) /\ UNCHANGED flags
     \/ Execute("mul")  /\ Set("rax", regs["rax"] * A) /\ UNCHANGED flags
     \/ Execute("inc")  /\ Dest(A + 1) /\ UNCHANGED flags
     \/ Execute("dec")  /\ Dest(A + Word - 1) /\ flags' = <<A, 1>>
     \/ Execute("setl") /\ UNCHANGED flags
          /\ LowByte(Signed(flags[1]) < Signed(flags[2]))
     \/ Execute("setg") /\ UNCHANGED flags
          /\ LowByte(Signed(flags[1]) > Signed(flags[2]))
     \/ Execute("cmp")  /\ flags' = <<A, B>> /\ UNCHANGED regs
     \/ Execute("cmpi") /\ flags' = <<A, Fetched.n>> /\ UNCHANGED regs
  /\ Advance
  /\ UNCHANGED <<genvars, status, stack>>

XDiv ==                                \* rdx is zero: an unsigned division
  /\ Execute("div")
  /\ IF A = 0 THEN Stop("fault")
     ELSE Set("rax", regs["rax"] \div A) /\ Advance
            /\ UNCHANGED <<status, flags, stack>>
  /\ UNCHANGED genvars

XJump ==
  /\ \/ Execute("label") /\ Advance
     \/ Execute("je") /\ pc' = IF flags[1] = flags[2] THEN Target(pc) ELSE pc + 1
     \/ Execute("jl") /\ pc' = IF Signed(flags[1]) < Signed(flags[2])
                               THEN Target(pc) ELSE pc + 1
     \/ Execute("jg") /\ pc' = IF Signed(flags[1]) > Signed(flags[2])
                               THEN Target(pc) ELSE pc + 1
  /\ UNCHANGED <<genvars, status, regs, flags, stack>>

XSyscall ==                            \* rax holds 60, the number of exit
  /\ Execute("syscall")
  /\ Stop("exited")
  /\ UNCHANGED genvars

XRunOff ==
  /\ status = "running" /\ pc > Len(TEXT)
  /\ Stop("ranoff")
  /\ UNCHANGED genvars

Run == \/ XPush \/ XPop \/ XDrop \/ XStore \/ XCompute \/ XDiv \/ XJump
       \/ XSyscall \/ XRunOff

ExitCode == regs["rdi"] % Byte

MachInit ==
  /\ Init
  /\ status = "unbuilt"
  /\ pc = 1
  /\ regs = [r \in {"rax", "rbx", "rcx", "rdi"} |-> 0]
  /\ flags = <<0, 0>>
  /\ stack = <<>>

MachNext ==
  \/ Step /\ UNCHANGED machvars
  \/ Assemble
  \/ Run
  \/ Ended /\ UNCHANGED allvars

(* The compiler is one thread and the program it builds is another: each   *)
(* is never kept from its next step.                                       *)
MachSpec == MachInit /\ [][MachNext]_allvars /\ WF_allvars(MachNext)
-----------------------------------------------------------------------------
(* StackPtr never falls behind the stack of the target: no line leaves the *)
(* stack higher than the next was written for.  So, whatever the program   *)
(* and however control got there, as long as jumps are level the stack is  *)
(* never higher than the generator believed when it wrote a line, and just *)
(* as high if every slot it counted was pushed.                            *)
StackMirrored ==
  /\ \A i \in 0 .. Len(TEXT) : After(i) <= Above(i)
  /\ status = "running" /\ pc <= Len(TEXT) /\ Len(stack) > TEXT[pc].sp => ~Level
  /\ status = "running" /\ pc <= Len(TEXT) /\ Len(stack) < TEXT[pc].sp
       => ~(Level /\ Accounted)
=============================================================================
