-------------------------------- MODULE Arena --------------------------------
(***************************************************************************)
(* Memory and errors of neolang: the arena of src/util/arena.c, from which *)
(* every object of the compiler is allocated, the error stack of           *)
(* src/util/error.c, whose messages live in the arena too, the assertion   *)
(* macro of src/util/assert.h, which raises an error when the arena cannot *)
(* grow, and Cleanup of src/entry.c, which prints the stack at exit.       *)
(*                                                                         *)
(* realloc() is external: it extends the block where it is, moves it, or   *)
(* returns NULL.  A block is a number, 0 for NULL; a pointer is a block    *)
(* and an offset.  The contents of memory are not modelled.                *)
(***************************************************************************)
EXTENDS Integers, Sequences

CONSTANTS
  InitBytes,   \* the argument of InitMemArena
  Requests,    \* sizes the compiler asks for
  MsgLens,     \* lengths of error messages, with the terminator
  AssertLen,   \* length of "Memory arena resize failure." and its prefix
  MAX_ERRORS,  \* capacity of ErrStack
  MaxAllocs,   \* bound: no more requests than this
  MaxRaised    \* bound: no more errors raised by the compiler than this

ASSUME ArenaAssumption ==
  /\ InitBytes \in Nat \ {0}
  /\ Requests \subseteq Nat
  /\ MsgLens \subseteq Nat \ {0}
  /\ AssertLen \in Nat \ {0}
  /\ MAX_ERRORS \in Nat /\ MaxAllocs \in Nat /\ MaxRaised \in Nat

ErrCode == {"_ASSERT_ERROR", "_RUNTIME_ERROR", "_SYNTAX_ERROR"}

(* The errors whose macro calls exit().                                    *)
Fatal == {"_ASSERT_ERROR", "_RUNTIME_ERROR"}

VARIABLES
  NDEBUG,     \* whether the build leaves assertions out
  Block,      \* the block that State->Block points to
  held,       \* how many bytes that block really has
  SizeBytes,  \* how many the arena believes it has
  BlockPtr,   \* how many have been handed out
  allocs,     \* history: the pointers handed out, with their sizes
  ErrStack,   \* the errors raised: code, and which pointer is the message
  want,       \* the active calls of _Alloc, innermost last: size, and the
              \* code of the error whose message it is for, or "none"
  phase,      \* "run", "exit" (Cleanup follows), "done", or "crash"
  shown       \* history: the errors whose message Cleanup could still print

vars == <<NDEBUG, Block, held, SizeBytes, BlockPtr, allocs, ErrStack, want,
          phase, shown>>

Pointer == [block : Nat, off : Nat, len : Nat]
Error   == [code : ErrCode, msg : Nat \ {0}]
Demand  == [bytes : Nat, code : ErrCode \cup {"none"}]

Busy == phase = "run" /\ want # <<>>
Top  == want[Len(want)]

BugFits(n) == BlockPtr < SizeBytes   \* asks only for the next byte
Fits(n)    == BlockPtr + n < SizeBytes

-----------------------------------------------------------------------------
(* InitMemArena.                                                           *)
Init ==
  /\ NDEBUG \in BOOLEAN
  /\ Block = 1
  /\ held = InitBytes
  /\ SizeBytes = InitBytes
  /\ BlockPtr = 0
  /\ allocs = <<>>
  /\ ErrStack = <<>>
  /\ want = <<>>
  /\ phase = "run"
  /\ shown = {}

(* Somebody calls Alloc, or raises an error: _RaiseError allocates the     *)
(* message first.                                                          *)
Ask ==
  /\ phase = "run" /\ want = <<>>
  /\ Len(allocs) < MaxAllocs
  /\ \/ \E n \in Requests : want' = <<[bytes |-> n, code |-> "none"]>>
     \/ /\ Len(ErrStack) < MaxRaised
        /\ \E n \in MsgLens, c \in {"_RUNTIME_ERROR", "_SYNTAX_ERROR"} :
             want' = <<[bytes |-> n, code |-> c]>>
  /\ UNCHANGED <<NDEBUG, Block, held, SizeBytes, BlockPtr, allocs, ErrStack,
                 phase, shown>>

BugHandOut(b) ==                   \* the message is the object before
  /\ allocs' = Append(allocs,
                    [block |-> b, off |-> BlockPtr, len |-> Top.bytes])
  /\ BlockPtr' = BlockPtr + Top.bytes
  /\ ErrStack' = IF Top.code = "none" THEN ErrStack
                 ELSE Append(ErrStack,
                             [code |-> Top.code, msg |-> Len(allocs)])
  /\ \/ /\ Top.code \in Fatal
        /\ phase' = "exit" /\ want' = <<>>
     \/ /\ Top.code \notin Fatal
        /\ want' = SubSeq(want, 1, Len(want) - 1) /\ UNCHANGED phase

(* The end of _Alloc, from the block b, and what its caller does next:     *)
(* _RaiseError pushes the error, RUNTIME_ERR and NASSERT_MSG then exit     *)
(* from wherever they are.                                                 *)
HandOut(b) ==
  /\ allocs' = Append(allocs,
                    [block |-> b, off |-> BlockPtr, len |-> Top.bytes])
  /\ BlockPtr' = BlockPtr + Top.bytes
  /\ ErrStack' = IF Top.code = "none" THEN ErrStack
                 ELSE Append(ErrStack,
                             [code |-> Top.code, msg |-> Len(allocs) + 1])
  /\ \/ /\ Top.code \in Fatal
        /\ phase' = "exit" /\ want' = <<>>
     \/ /\ Top.code \notin Fatal
        /\ want' = SubSeq(want, 1, Len(want) - 1) /\ UNCHANGED phase

Allocate ==
  /\ Busy /\ Fits(Top.bytes)
  /\ HandOut(Block)
  /\ UNCHANGED <<NDEBUG, Block, held, SizeBytes, shown>>

(* What p points to is memory of the block.                                *)
Readable(p) == p.block = Block /\ p.off + p.len <= held

(* Three stores nothing checks, which may do no harm or end the process:   *)
(* that of whoever asked to memory the block does not have, the push of an *)
(* error onto a full stack, and a caller's through a pointer it was given  *)
(* before the block moved, or beyond it (State, Tokens, the nodes).        *)
BadStore ==
  /\ phase = "run"
  /\ \/ Busy /\ Fits(Top.bytes) /\ BlockPtr + Top.bytes > held
     \/ Busy /\ Top.code # "none" /\ Len(ErrStack) >= MAX_ERRORS
     \/ want = <<>> /\ \E i \in DOMAIN allocs : ~Readable(allocs[i])
  /\ phase' = "crash"
  /\ UNCHANGED <<NDEBUG, Block, held, SizeBytes, BlockPtr, allocs, ErrStack,
                 want, shown>>

(* _Resize: SizeBytes grows by twice the request, whatever realloc does.   *)
BugGrown == 2 * SizeBytes            \* doubles the arena instead
Grown    == SizeBytes + 2 * Top.bytes

BugResizeInPlace ==                 \* forgets to move BlockPtr on
  /\ Busy /\ ~Fits(Top.bytes)
  /\ SizeBytes' = Grown
  /\ held' = Grown
  /\ allocs' = Append(allocs,
                    [block |-> Block, off |-> BlockPtr, len |-> Top.bytes])
  /\ want' = SubSeq(want, 1, Len(want) - 1)
  /\ UNCHANGED <<NDEBUG, Block, BlockPtr, ErrStack, phase, shown>>

ResizeInPlace ==
  /\ Busy /\ ~Fits(Top.bytes)
  /\ SizeBytes' = Grown
  /\ held' = Grown
  /\ HandOut(Block)
  /\ UNCHANGED <<NDEBUG, Block, shown>>

ResizeMoves ==
  /\ Busy /\ ~Fits(Top.bytes)
  /\ SizeBytes' = Grown
  /\ held' = Grown
  /\ Block' = Block + 1
  /\ HandOut(Block + 1)
  /\ UNCHANGED <<NDEBUG, shown>>

BugResizeFails ==                   \* SizeBytes grows only with the block
  /\ Busy /\ ~Fits(Top.bytes) /\ ~NDEBUG
  /\ want' = Append(want, [bytes |-> AssertLen, code |-> "_ASSERT_ERROR"])
  /\ UNCHANGED <<NDEBUG, Block, held, SizeBytes, BlockPtr, allocs, ErrStack,
                 phase, shown>>

(* realloc returns NULL.  With assertions the failure is an error, and its *)
(* message is allocated from the arena that could not grow; without them   *)
(* Block becomes NULL, and the caller stores through it.                   *)
ResizeFails ==
  /\ Busy /\ ~Fits(Top.bytes)
  /\ SizeBytes' = Grown
  /\ \/ /\ ~NDEBUG
        /\ want' = Append(want, [bytes |-> AssertLen, code |-> "_ASSERT_ERROR"])
        /\ UNCHANGED <<Block, held, phase>>
     \/ /\ NDEBUG
        /\ Block' = 0 /\ held' = 0 /\ phase' = "crash"
        /\ UNCHANGED want
  /\ UNCHANGED <<NDEBUG, BlockPtr, allocs, ErrStack, shown>>

(* main returns.                                                           *)
Return ==
  /\ phase = "run" /\ want = <<>>
  /\ phase' = "exit"
  /\ UNCHANGED <<NDEBUG, Block, held, SizeBytes, BlockPtr, allocs, ErrStack,
                 want, shown>>

CanRead(i) == Readable(allocs[ErrStack[i].msg])

BugCleanup ==                       \* destroys the arena before it prints
  /\ phase = "exit"
  /\ Block' = 0 /\ held' = 0
  /\ shown' = {i \in DOMAIN ErrStack : allocs[ErrStack[i].msg].block = Block'}
  /\ phase' = "done"
  /\ UNCHANGED <<NDEBUG, SizeBytes, BlockPtr, allocs, ErrStack, want>>

(* Cleanup, at exit: PrintErrorStack, then DestroyMemArena.  A message in  *)
(* memory the block no longer has is lost, or reading it ends the process. *)
Cleanup ==
  /\ phase = "exit"
  /\ \/ /\ shown' = {i \in DOMAIN ErrStack : CanRead(i)}
        /\ Block' = 0 /\ held' = 0
        /\ phase' = "done"
     \/ \E e \in DOMAIN ErrStack :
          /\ ~CanRead(e)
          /\ shown' = {i \in 1 .. e - 1 : CanRead(i)}
          /\ phase' = "crash"
          /\ UNCHANGED <<Block, held>>
  /\ UNCHANGED <<NDEBUG, SizeBytes, BlockPtr, allocs, ErrStack, want>>

Stopped == phase \in {"done", "crash"}
Halt    == Stopped /\ UNCHANGED vars

Next ==
  \/ Ask \/ Allocate \/ BadStore
  \/ ResizeInPlace \/ ResizeMoves \/ ResizeFails
  \/ Return \/ Cleanup \/ Halt

Spec == Init /\ [][Next]_vars

-----------------------------------------------------------------------------
(* Types, the sizes of the stacks apart.                                   *)
TypeOK ==
  /\ NDEBUG \in BOOLEAN
  /\ Block \in Nat /\ held \in Nat /\ SizeBytes \in Nat /\ BlockPtr \in Nat
  /\ allocs \in Seq(Pointer)
  /\ ErrStack \in Seq(Error)
  /\ want \in Seq(Demand)
  /\ phase \in {"run", "exit", "done", "crash"}

(* No two objects share memory, in the same block or in blocks one became  *)
(* by moving: what one part of the compiler stores, no other overwrites.   *)
Disjoint ==
  \A i, j \in DOMAIN allocs :
    i < j => allocs[i].off + allocs[i].len <= allocs[j].off

(* realloc has never failed: SizeBytes is what the block really has.       *)
Sound == held = SizeBytes

(* While realloc does not fail, every object lies in the block, however    *)
(* often it was resized, and a byte is left behind the last one (Generate  *)
(* allocates the assembly without its terminator).                         *)
InBlock ==
  Sound => \A i \in DOMAIN allocs : allocs[i].off + allocs[i].len < held

(* A failed realloc raises an error, which allocates, which may resize and *)
(* fail again: at most twice, and then the process exits.                  *)
FailureDepth == Len(want) <= 3

(* At exit every message that was raised can be printed, if the arena      *)
(* never had to grow.                                                      *)
ErrorsShown ==
  phase = "done" /\ SizeBytes = InitBytes => shown = DOMAIN ErrStack

(* As long as realloc has neither failed nor moved the block, every store  *)
(* and every message lies in memory the process has, however often the     *)
(* arena grew: only a full error stack can make an access end the process. *)
CrashOnlyPastLimits ==
  phase = "crash" => ~Sound \/ Block # 1 \/ Len(ErrStack) >= MAX_ERRORS

(* The arena goes on after "Max arena size exceeded; resizing"             *)
(* (arena.c:55): the pointers it has handed out stay good.                 *)
PointersStayValid ==
  phase = "run" => \A i \in DOMAIN allocs : allocs[i].block = Block
=============================================================================
