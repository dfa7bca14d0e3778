----------------------------- MODULE ArenaProofs -----------------------------
(***************************************************************************)
(* The arena, for every request and every outcome of realloc(): objects    *)
(* are disjoint and inside the block, a failure to grow ends, and only     *)
(* what realloc() moved or refused, or a full error stack, can crash.      *)
(***************************************************************************)
EXTENDS Arena, SequenceTheorems, TLAPS

(* There is always room for one byte more: why growing by a multiple of    *)
(* the request is enough, whatever the arena's size.                       *)
Room == BlockPtr < SizeBytes

Behind == \A i \in 1 .. Len(allocs) : allocs[i].off + allocs[i].len <= BlockPtr

Apart == \A i, j \in 1 .. Len(allocs) :
           i < j => allocs[i].off + allocs[i].len <= allocs[j].off

(* The calls pending above the first are for messages of the assertion.    *)
(* Each failure has made SizeBytes larger, so the third call fits.         *)
Pending ==
  /\ Len(want) <= 3
  /\ \A i \in 2 .. Len(want) :
       want[i] = [bytes |-> AssertLen, code |-> "_ASSERT_ERROR"]
  /\ Len(want) = 3 => BlockPtr + AssertLen < SizeBytes

(* The inductive invariant.                                                *)
IInv == TypeOK /\ Room /\ Behind /\ Apart /\ Pending

-----------------------------------------------------------------------------
(* Arithmetic that the steps below use.                                    *)
LEMMA TwoMore == \A a, b \in Nat : b = a + 1 /\ b = 3 => a = 2
OBVIOUS

(* An upper bound may be raised.                                           *)
LEMMA Weaken == \A a, b, c, d \in Nat : a + b <= c /\ c <= d => a + b <= d
OBVIOUS

(* What _Alloc does once there is room, be it before or after a resize.    *)
LEMMA HandOutLemma ==
  ASSUME IInv, Busy, NEW b \in Nat, HandOut(b),
         NDEBUG' = NDEBUG, Block' \in Nat, held' \in Nat,
         SizeBytes' \in Nat, BlockPtr + Top.bytes < SizeBytes'
  PROVE  IInv'
<1>1. /\ want \in Seq(Demand) /\ Len(want) \in Nat \ {0} /\ Top \in Demand
      /\ BlockPtr \in Nat /\ Len(allocs) \in Nat /\ allocs \in Seq(Pointer)
      /\ ErrStack \in Seq(Error)
  BY DEF IInv, TypeOK, Busy, Top
<1>2. Top.bytes \in Nat /\ Top.code \in ErrCode \cup {"none"}
  BY <1>1 DEF Demand
<1> DEFINE p == [block |-> b, off |-> BlockPtr, len |-> Top.bytes]
<1>3. p \in Pointer /\ allocs' = Append(allocs, p)
  BY <1>1, <1>2 DEF HandOut, Pointer
<1>4. p.off = BlockPtr /\ p.len = Top.bytes
  OBVIOUS
<1> HIDE DEF p
<1>5. /\ allocs' \in Seq(Pointer) /\ Len(allocs') = Len(allocs) + 1
      /\ \A i \in 1 .. Len(allocs) : allocs'[i] = allocs[i]
      /\ allocs'[Len(allocs) + 1] = p
  BY <1>1, <1>3, AppendProperties
<1>6. ErrStack' \in Seq(Error)
  <2>1. CASE Top.code = "none"
    BY <1>1, <2>1 DEF HandOut
  <2>2. CASE Top.code \in ErrCode
    <3>1. [code |-> Top.code, msg |-> Len(allocs) + 1] \in Error
      BY <1>1, <2>2 DEF Error
    <3>2. ErrStack' = Append(ErrStack, [code |-> Top.code, msg |-> Len(allocs) + 1])
      BY <2>2 DEF HandOut, ErrCode
    <3> QED BY <1>1, <3>1, <3>2, AppendProperties
  <2> QED BY <1>2, <2>1, <2>2
<1>7. want' = <<>> /\ phase' \in {"run", "exit"}
  <2>1. CASE Top.code \in Fatal
    BY <2>1 DEF HandOut
  <2>2. CASE Top.code \notin Fatal
    <3>1. Len(want) = 1
      <4>0. Len(want) \in Nat \ {0}
        BY <1>1
      <4>1. SUFFICES ASSUME Len(want) \in 2 .. Len(want) PROVE FALSE
        BY <4>0
      <4>2. Top = [bytes |-> AssertLen, code |-> "_ASSERT_ERROR"]
        BY <4>1 DEF IInv, Pending, Top
      <4>3. Top.code = "_ASSERT_ERROR"
        BY <4>2
      <4> QED BY <2>2, <4>3 DEF Fatal
    <3>2. want' = SubSeq(want, 1, 0)
      BY <2>2, <3>1 DEF HandOut
    <3> QED BY <1>1, <2>2, <3>2 DEF HandOut, Busy
  <2> QED BY <2>1, <2>2
<1>8. BlockPtr' = BlockPtr + Top.bytes /\ BlockPtr' \in Nat
  BY <1>1, <1>2 DEF HandOut
<1>9. TypeOK'
  BY <1>5, <1>6, <1>7, <1>8 DEF IInv, TypeOK
<1>10. Room'
  BY <1>8 DEF Room
<1>11. \A i \in 1 .. Len(allocs) : /\ allocs[i].off \in Nat /\ allocs[i].len \in Nat
                                   /\ allocs[i].off + allocs[i].len <= BlockPtr
  <2>1. \A i \in 1 .. Len(allocs) : allocs[i] \in Pointer
    BY <1>1
  <2> QED BY <2>1 DEF IInv, Behind, Pointer
<1>12. Behind'
  <2>1. ASSUME NEW i \in 1 .. Len(allocs')
        PROVE  allocs'[i].off + allocs'[i].len <= BlockPtr'
    <3>1. CASE i \in 1 .. Len(allocs)
      <4>1. allocs'[i] = allocs[i]
        BY <1>5, <3>1
      <4>2. /\ allocs[i].off \in Nat /\ allocs[i].len \in Nat
            /\ allocs[i].off + allocs[i].len <= BlockPtr
        BY <1>11, <3>1
      <4>3. BlockPtr <= BlockPtr' /\ BlockPtr \in Nat /\ BlockPtr' \in Nat
        BY <1>1, <1>2, <1>8
      <4> QED BY <4>1, <4>2, <4>3, Weaken, Zenon
    <3>2. CASE i = Len(allocs) + 1
      <4>1. allocs'[i] = p
        BY <1>5, <3>2
      <4>2. BlockPtr \in Nat
        BY <1>1
      <4> QED BY <1>2, <1>4, <1>8, <4>1, <4>2
    <3> QED BY <1>1, <1>5, <3>1, <3>2
  <2> QED BY <2>1 DEF Behind
<1>13. Apart'
  <2>1. ASSUME NEW i \in 1 .. Len(allocs'), NEW j \in 1 .. Len(allocs'), i < j
        PROVE  allocs'[i].off + allocs'[i].len <= allocs'[j].off
    <3>1. i \in 1 .. Len(allocs) /\ allocs'[i] = allocs[i]
      BY <1>1, <1>5, <2>1
    <3>2. CASE j \in 1 .. Len(allocs)
      <4>1. allocs'[j] = allocs[j]
        BY <1>5, <3>2
      <4> QED BY <2>1, <3>1, <3>2, <4>1 DEF IInv, Apart
    <3>3. CASE j = Len(allocs) + 1
      BY <1>4, <1>5, <1>11, <3>1, <3>3
    <3> QED BY <1>1, <1>5, <3>2, <3>3
  <2> QED BY <2>1 DEF Apart
<1>14. Pending'
  BY <1>7 DEF Pending
<1> QED BY <1>9, <1>10, <1>12, <1>13, <1>14 DEF IInv

(* The first states.                                                       *)
LEMMA InitIInv == Init => IInv
<1> SUFFICES ASSUME Init PROVE IInv
  OBVIOUS
<1>1. NDEBUG \in BOOLEAN
  BY DEF Init
<1>2. TypeOK
  BY <1>1, ArenaAssumption DEF Init, TypeOK
<1> QED BY <1>2, ArenaAssumption DEF Init, IInv, Room, Behind, Apart, Pending

(* Every step.                                                             *)
LEMMA NextIInv == IInv /\ [Next]_vars => IInv'
<1> SUFFICES ASSUME IInv, [Next]_vars PROVE IInv'
  OBVIOUS
<1>0. /\ Block \in Nat /\ held \in Nat /\ SizeBytes \in Nat /\ BlockPtr \in Nat
      /\ want \in Seq(Demand) /\ Len(want) \in Nat
  BY DEF IInv, TypeOK
<1>a. ASSUME Busy PROVE Len(want) # 0 /\ Top \in Demand /\ Top.bytes \in Nat
  <2>1. Top \in Demand /\ Len(want) # 0
    BY <1>0, <1>a DEF Busy, Top
  <2> QED BY <2>1 DEF Demand
<1>c. ASSUME Len(want) \in {2, 3} PROVE Top.bytes = AssertLen
  <2>1. Len(want) \in 2 .. Len(want)
    BY <1>c
  <2>2. Top = [bytes |-> AssertLen, code |-> "_ASSERT_ERROR"]
    BY <2>1 DEF IInv, Pending, Top
  <2> QED BY <2>2
<1>1. CASE Ask
  <2>1. want' \in Seq(Demand) /\ Len(want') = 1
    <3>1. PICK d \in Demand : want' = <<d>>
      <4>1. CASE \E n \in Requests : want' = <<[bytes |-> n, code |-> "none"]>>
        BY <4>1, ArenaAssumption DEF Demand
      <4>2. CASE \E n \in MsgLens, c \in {"_RUNTIME_ERROR", "_SYNTAX_ERROR"} :
                   want' = <<[bytes |-> n, code |-> c]>>
        BY <4>2, ArenaAssumption DEF Demand, ErrCode
      <4> QED BY <1>1, <4>1, <4>2 DEF Ask
    <3> QED BY <3>1
  <2>2. TypeOK'
    BY <1>1, <2>1 DEF Ask, IInv, TypeOK
  <2> QED BY <1>1, <2>1, <2>2 DEF Ask, IInv, Room, Behind, Apart, Pending
<1>2. CASE Allocate
  BY <1>0, <1>2, HandOutLemma DEF Allocate, Fits
<1>3. CASE BadStore
  <2>1. TypeOK'
    BY <1>3 DEF BadStore, IInv, TypeOK
  <2> QED BY <1>3, <2>1 DEF BadStore, IInv, Room, Behind, Apart, Pending
<1>b. ASSUME Busy PROVE Grown \in Nat /\ BlockPtr + Top.bytes < Grown
  BY <1>0, <1>a, <1>b DEF Grown, IInv, Room
<1>4. CASE ResizeInPlace
  BY <1>0, <1>b, <1>4, HandOutLemma DEF ResizeInPlace
<1>5. CASE ResizeMoves
  BY <1>0, <1>b, <1>5, HandOutLemma DEF ResizeMoves
<1>6. CASE ResizeFails
  <2>1. /\ Busy /\ ~Fits(Top.bytes) /\ SizeBytes' = Grown
        /\ UNCHANGED <<NDEBUG, BlockPtr, allocs, ErrStack>>
    BY <1>6 DEF ResizeFails
  <2>2. Len(want) <= 2
    <3>1. /\ Len(want) <= 3
          /\ Len(want) = 3 => BlockPtr + AssertLen < SizeBytes
      BY DEF IInv, Pending
    <3>2. ASSUME Len(want) = 3 PROVE BlockPtr + Top.bytes < SizeBytes
      BY <1>c, <3>1, <3>2
    <3>3. Len(want) \in Nat /\ ~(BlockPtr + Top.bytes < SizeBytes)
      BY <1>0, <2>1 DEF Fits
    <3>4. Len(want) # 3
      BY <3>2, <3>3
    <3> QED BY <3>1, <3>3, <3>4
  <2>3. Room' /\ Behind' /\ Apart'
    BY <1>0, <1>a, <1>b, <2>1 DEF IInv, Room, Behind, Apart
  <2>4. CASE want' = want /\ Block' = 0 /\ held' = 0 /\ phase' = "crash"
    <3>1. TypeOK'
      BY <1>b, <2>1, <2>4 DEF IInv, TypeOK
    <3>2. Pending'
      BY <1>0, <2>1, <2>2, <2>4 DEF IInv, Pending
    <3> QED BY <2>3, <3>1, <3>2 DEF IInv
  <2>5. CASE /\ want' = Append(want, [bytes |-> AssertLen, code |-> "_ASSERT_ERROR"])
             /\ UNCHANGED <<Block, held, phase>>
    <3> DEFINE d == [bytes |-> AssertLen, code |-> "_ASSERT_ERROR"]
    <3>1. d \in Demand /\ want' = Append(want, d)
      BY <2>5, ArenaAssumption DEF Demand, ErrCode
    <3>2. /\ want' \in Seq(Demand) /\ Len(want') = Len(want) + 1
          /\ \A i \in 1 .. Len(want) : want'[i] = want[i]
          /\ want'[Len(want) + 1] = d
      BY <1>0, <3>1, AppendProperties
    <3>3. TypeOK'
      BY <1>b, <2>1, <2>5, <3>2 DEF IInv, TypeOK
    <3>4. BlockPtr + Top.bytes < Grown /\ SizeBytes' = Grown /\ BlockPtr' = BlockPtr
      BY <1>b, <2>1
    <3>5. ASSUME Len(want') = 3 PROVE BlockPtr' + AssertLen < SizeBytes'
      <4>0. Len(want') \in Nat
        BY <3>2
      <4>1. Len(want) = 2
        BY <3>5, <1>0, <3>2, <4>0, TwoMore, Zenon
      <4>2. Top.bytes = AssertLen
        BY <1>c, <4>1
      <4> QED BY <3>4, <4>2
    <3>6. \A i \in 2 .. Len(want') : want'[i] = d
      <4> HIDE DEF d
      <4>1. \A i \in 2 .. Len(want) : want[i] = d
        BY DEF IInv, Pending, d
      <4> QED BY <1>0, <3>2, <4>1
    <3>7. Pending'
      BY <1>0, <2>2, <3>2, <3>5, <3>6 DEF Pending
    <3> QED BY <2>3, <3>3, <3>7 DEF IInv
  <2> QED BY <1>6, <2>4, <2>5 DEF ResizeFails
<1>7. CASE Return
  <2>1. TypeOK'
    BY <1>7 DEF Return, IInv, TypeOK
  <2> QED BY <1>7, <2>1 DEF Return, IInv, Room, Behind, Apart, Pending
<1>8. CASE Cleanup
  <2>1. TypeOK'
    BY <1>8 DEF Cleanup, IInv, TypeOK
  <2> QED BY <1>8, <2>1 DEF Cleanup, IInv, Room, Behind, Apart, Pending
<1>9. CASE UNCHANGED vars
  <2>1. TypeOK'
    BY <1>9 DEF vars, IInv, TypeOK
  <2> QED BY <1>9, <2>1 DEF vars, IInv, Room, Behind, Apart, Pending
<1> QED BY <1>1, <1>2, <1>3, <1>4, <1>5, <1>6, <1>7, <1>8, <1>9 DEF Next, Halt

-----------------------------------------------------------------------------
(* Disjoint for every sequence of requests: no two objects share memory.   *)
THEOREM AllocationsDisjoint == Spec => []Disjoint
<1>1. IInv => Disjoint
  <2>1. ASSUME IInv PROVE DOMAIN allocs = 1 .. Len(allocs)
    BY <2>1 DEF IInv, TypeOK
  <2> QED BY <2>1 DEF IInv, Apart, Disjoint
<1> QED BY InitIInv, NextIInv, <1>1, PTL DEF Spec

(* InBlock for every sequence of requests: a resize makes room for the     *)
(* request it is for, large or small, and a byte more.                     *)
THEOREM AllocationsInBlock == Spec => []InBlock
<1>1. IInv => InBlock
  <2>1. SUFFICES ASSUME IInv, Sound, NEW i \in DOMAIN allocs
                 PROVE  allocs[i].off + allocs[i].len < held
    BY DEF InBlock
  <2>2. /\ allocs \in Seq(Pointer) /\ i \in 1 .. Len(allocs)
        /\ BlockPtr \in Nat /\ SizeBytes \in Nat
    BY <2>1 DEF IInv, TypeOK
  <2>3. allocs[i].off \in Nat /\ allocs[i].len \in Nat
    <3>1. allocs[i] \in Pointer
      BY <2>2
    <3> QED BY <3>1 DEF Pointer
  <2> QED BY <2>1, <2>2, <2>3 DEF IInv, Behind, Room, Sound
<1> QED BY InitIInv, NextIInv, <1>1, PTL DEF Spec

(* FailureDepth for every arena: reporting that the arena cannot grow does *)
(* not recur without end, although the report has to be allocated.         *)
THEOREM FailureEnds == Spec => []FailureDepth
<1>1. IInv => FailureDepth
  BY DEF IInv, Pending, FailureDepth
<1> QED BY InitIInv, NextIInv, <1>1, PTL DEF Spec

(* TypeOK for every sequence of requests and every outcome of realloc.     *)
THEOREM TypeCorrect == Spec => []TypeOK
<1>1. IInv => TypeOK
  BY DEF IInv
<1> QED BY InitIInv, NextIInv, <1>1, PTL DEF Spec

-----------------------------------------------------------------------------
(* Every error's message is an object of the arena; and as long as the     *)
(* arena has its first size, its first block holds every object.  Growing  *)
(* is always by a byte or more, so the first size does not come back.      *)
Kept ==
  /\ InitBytes <= SizeBytes
  /\ \A e \in 1 .. Len(ErrStack) : ErrStack[e].msg \in 1 .. Len(allocs)
  /\ SizeBytes = InitBytes =>
       /\ \A i \in 1 .. Len(allocs) : allocs[i].block = 1
       /\ phase # "done" => Block = 1 /\ held = InitBytes
       /\ phase = "done" => shown = DOMAIN ErrStack

(* Handing out an object keeps messages what they were, and in the block.  *)
LEMMA HandOutKept ==
  ASSUME IInv, Kept, Busy, NEW b \in Nat, HandOut(b), SizeBytes' \in Nat,
         SizeBytes <= SizeBytes',
         SizeBytes' = InitBytes => b = 1 /\ Block' = 1 /\ held' = InitBytes
  PROVE  Kept'
<1>1. /\ Len(allocs) \in Nat /\ allocs \in Seq(Pointer)
      /\ ErrStack \in Seq(Error) /\ Len(ErrStack) \in Nat
      /\ SizeBytes \in Nat /\ InitBytes \in Nat
  BY ArenaAssumption DEF IInv, TypeOK
<1> DEFINE p == [block |-> b, off |-> BlockPtr, len |-> Top.bytes]
           e == [code |-> Top.code, msg |-> Len(allocs) + 1]
<1>2. p.block = b /\ e.msg = Len(allocs) + 1
  OBVIOUS
<1>3. /\ allocs' = Append(allocs, p)
      /\ ErrStack' = ErrStack \/ ErrStack' = Append(ErrStack, e)
  BY DEF HandOut
<1>p. p \in Pointer /\ (ErrStack' = Append(ErrStack, e) => e \in Error)
  <2>1. want \in Seq(Demand) /\ Len(want) \in 1 .. Len(want) /\ BlockPtr \in Nat
    BY DEF IInv, TypeOK, Busy
  <2>2. Top \in Demand
    BY <2>1 DEF Top
  <2>3. p \in Pointer
    BY <2>1, <2>2 DEF Demand, Pointer
  <2>4. CASE Top.code = "none"
    <3>1. ErrStack' = ErrStack
      BY <2>4 DEF HandOut
    <3>2. Len(Append(ErrStack, e)) = Len(ErrStack) + 1
      BY <1>1
    <3>3. ErrStack' # Append(ErrStack, e)
      BY <1>1, <3>1, <3>2
    <3> QED BY <2>3, <3>3
  <2>5. CASE Top.code \in ErrCode
    BY <1>1, <2>3, <2>5 DEF Error
  <2> QED BY <2>2, <2>4, <2>5 DEF Demand
<1> HIDE DEF p, e
<1>4. /\ Len(allocs') = Len(allocs) + 1
      /\ \A i \in 1 .. Len(allocs) : allocs'[i] = allocs[i]
      /\ allocs'[Len(allocs) + 1] = p
  BY <1>1, <1>3, <1>p, AppendProperties
<1>5. \A k \in 1 .. Len(ErrStack') : ErrStack'[k].msg \in 1 .. Len(allocs')
  <2>1. \A k \in 1 .. Len(ErrStack) : ErrStack[k].msg \in 1 .. Len(allocs')
    BY <1>1, <1>4 DEF Kept
  <2>2. CASE ErrStack' = ErrStack
    BY <2>1, <2>2
  <2>3. CASE ErrStack' = Append(ErrStack, e)
    <3>1. /\ Len(ErrStack') = Len(ErrStack) + 1
          /\ \A k \in 1 .. Len(ErrStack) : ErrStack'[k] = ErrStack[k]
          /\ ErrStack'[Len(ErrStack) + 1] = e
      BY <1>1, <1>p, <2>3, AppendProperties
    <3>2. e.msg \in 1 .. Len(allocs')
      BY <1>1, <1>2, <1>4
    <3>3. ASSUME NEW k \in 1 .. Len(ErrStack')
          PROVE  ErrStack'[k].msg \in 1 .. Len(allocs')
      <4>1. CASE k = Len(ErrStack) + 1
        BY <3>1, <3>2, <4>1
      <4>2. CASE k # Len(ErrStack) + 1
        <5>1. k \in 1 .. Len(ErrStack)
          BY <1>1, <3>1, <4>2
        <5> QED BY <2>1, <3>1, <5>1
      <4> QED BY <4>1, <4>2
    <3> QED BY <3>3
  <2> QED BY <1>3, <2>2, <2>3
<1>6. phase' # "done"
  BY DEF HandOut, Busy
<1>7. ASSUME SizeBytes' = InitBytes
      PROVE  \A i \in 1 .. Len(allocs') : allocs'[i].block = 1
  <2>1. SizeBytes = InitBytes /\ b = 1
    BY <1>1, <1>7 DEF Kept
  <2>2. \A i \in 1 .. Len(allocs) : allocs'[i].block = 1
    BY <1>4, <2>1 DEF Kept
  <2> QED BY <1>1, <1>2, <1>4, <2>1, <2>2
<1>8. InitBytes <= SizeBytes'
  BY <1>1 DEF Kept
<1> QED BY <1>5, <1>6, <1>7, <1>8 DEF Kept

(* Kept in every step.                                                     *)
LEMMA NextKept == IInv /\ Kept /\ [Next]_vars => Kept'
<1> SUFFICES ASSUME IInv, Kept, [Next]_vars PROVE Kept'
  OBVIOUS
<1>0. /\ Block \in Nat /\ held \in Nat /\ SizeBytes \in Nat /\ BlockPtr \in Nat
      /\ want \in Seq(Demand) /\ Len(want) \in Nat
      /\ InitBytes \in Nat /\ InitBytes <= SizeBytes
  BY ArenaAssumption DEF IInv, TypeOK, Kept
<1>a. ASSUME Busy, ~Fits(Top.bytes)
      PROVE  Grown \in Nat /\ SizeBytes < Grown
  <2>1. Top \in Demand
    BY <1>0, <1>a DEF Busy, Top
  <2>2. Top.bytes \in Nat /\ Top.bytes > 0
    BY <1>0, <1>a, <2>1 DEF Demand, Fits, IInv, Room
  <2> QED BY <1>0, <2>2 DEF Grown
<1>1. CASE Ask
  BY <1>1 DEF Ask, Kept
<1>2. CASE Allocate
  <2>1. SizeBytes = InitBytes => Block = 1 /\ held = InitBytes
    BY <1>2 DEF Allocate, Busy, Kept
  <2> QED BY <1>0, <1>2, <2>1, HandOutKept DEF Allocate
<1>3. CASE BadStore
  BY <1>3 DEF BadStore, Kept
<1>4. CASE ResizeInPlace
  <2>1. /\ Busy /\ HandOut(Block) /\ SizeBytes' = Grown
        /\ Grown \in Nat /\ SizeBytes < Grown
    BY <1>4, <1>a DEF ResizeInPlace
  <2> QED BY <1>0, <2>1, HandOutKept
<1>5. CASE ResizeMoves
  <2>1. /\ Busy /\ HandOut(Block + 1) /\ SizeBytes' = Grown
        /\ Grown \in Nat /\ SizeBytes < Grown
    BY <1>5, <1>a DEF ResizeMoves
  <2> QED BY <1>0, <2>1, HandOutKept
<1>6. CASE ResizeFails
  <2>1. /\ SizeBytes' = Grown /\ Grown \in Nat /\ SizeBytes < Grown
        /\ UNCHANGED <<allocs, ErrStack>>
    BY <1>6, <1>a DEF ResizeFails
  <2>2. InitBytes <= SizeBytes' /\ SizeBytes' # InitBytes
    BY <1>0, <2>1
  <2> QED BY <2>1, <2>2 DEF Kept
<1>7. CASE Return
  BY <1>7 DEF Return, Kept
<1>8. CASE Cleanup
  <2>1. ASSUME SizeBytes = InitBytes, NEW k \in 1 .. Len(ErrStack)
        PROVE  CanRead(k)
    <3>1. PICK i \in 1 .. Len(allocs) : i = ErrStack[k].msg
      BY DEF Kept
    <3>2. allocs[i].block = 1 /\ Block = 1 /\ held = InitBytes
      BY <1>8, <2>1 DEF Cleanup, Kept
    <3>3. allocs[i] \in Pointer
      BY DEF IInv, TypeOK
    <3>4. allocs[i].off + allocs[i].len <= BlockPtr /\ BlockPtr < SizeBytes
      BY DEF IInv, Behind, Room
    <3>5. allocs[i].off + allocs[i].len <= held
      BY <1>0, <2>1, <3>2, <3>3, <3>4 DEF Pointer
    <3> QED BY <3>1, <3>2, <3>5 DEF CanRead, Readable
  <2>2. DOMAIN ErrStack = 1 .. Len(ErrStack)
    BY DEF IInv, TypeOK
  <2>3. CASE /\ shown' = {i \in DOMAIN ErrStack : CanRead(i)}
             /\ phase' = "done"
    <3>1. SizeBytes = InitBytes => shown' = DOMAIN ErrStack
      BY <2>1, <2>2, <2>3
    <3> QED BY <1>8, <2>3, <3>1 DEF Cleanup, Kept
  <2>4. CASE phase' = "crash" /\ UNCHANGED <<Block, held>>
    BY <1>8, <2>4 DEF Cleanup, Kept
  <2> QED BY <1>8, <2>3, <2>4 DEF Cleanup
<1>9. CASE UNCHANGED vars
  BY <1>9 DEF vars, Kept
<1> QED BY <1>1, <1>2, <1>3, <1>4, <1>5, <1>6, <1>7, <1>8, <1>9 DEF Next, Halt

(* ErrorsShown for every sequence of requests and errors: the exit handler *)
(* can read all messages, unless the arena had to grow.                    *)
THEOREM MessagesShown == Spec => []ErrorsShown
<1>1. Init => Kept
  BY ArenaAssumption DEF Init, Kept
<1>2. Kept => ErrorsShown
  BY DEF Kept, ErrorsShown
<1> QED BY InitIInv, NextIInv, NextKept, <1>1, <1>2, PTL DEF Spec

-----------------------------------------------------------------------------
(* While realloc has not moved the block, it holds every object.           *)
Blocks ==
  phase \in {"run", "exit"} =>
    /\ Block # 0
    /\ Block = 1 => \A i \in 1 .. Len(allocs) : allocs[i].block = 1

(* An object is handed out from the block as it is then.                   *)
LEMMA HandOutBlocks ==
  ASSUME IInv, Blocks, Busy, NEW b \in Nat \ {0}, HandOut(b), Block' = b,
         b = 1 => Block = 1
  PROVE  Blocks'
<1>1. /\ allocs \in Seq(Pointer) /\ Len(allocs) \in Nat /\ BlockPtr \in Nat
      /\ want \in Seq(Demand) /\ Len(want) \in 1 .. Len(want)
  BY DEF IInv, TypeOK, Busy
<1>2. Top.bytes \in Nat
  <2>1. Top \in Demand
    BY <1>1 DEF Top
  <2> QED BY <2>1 DEF Demand
<1> DEFINE p == [block |-> b, off |-> BlockPtr, len |-> Top.bytes]
<1>3. p \in Pointer /\ p.block = b /\ allocs' = Append(allocs, p)
  BY <1>1, <1>2 DEF HandOut, Pointer
<1> HIDE DEF p
<1>4. /\ Len(allocs') = Len(allocs) + 1
      /\ \A i \in 1 .. Len(allocs) : allocs'[i] = allocs[i]
      /\ allocs'[Len(allocs) + 1] = p
  BY <1>1, <1>3, AppendProperties
<1>5. ASSUME b = 1, NEW i \in 1 .. Len(allocs') PROVE allocs'[i].block = 1
  <2>1. CASE i \in 1 .. Len(allocs)
    BY <1>4, <1>5, <2>1 DEF Blocks, Busy
  <2>2. CASE i = Len(allocs) + 1
    BY <1>3, <1>4, <1>5, <2>2
  <2> QED BY <1>1, <1>4, <2>1, <2>2
<1> QED BY <1>5 DEF Blocks

(* Blocks in every step.                                                   *)
LEMMA NextBlocks == IInv /\ Blocks /\ [Next]_vars => Blocks'
<1> SUFFICES ASSUME IInv, Blocks, [Next]_vars PROVE Blocks'
  OBVIOUS
<1>0. Block \in Nat /\ (Busy => Block # 0)
  BY DEF IInv, TypeOK, Blocks, Busy
<1>1. CASE Ask
  BY <1>1 DEF Ask, Blocks
<1>2. CASE Allocate
  BY <1>0, <1>2, HandOutBlocks DEF Allocate
<1>3. CASE BadStore
  BY <1>3 DEF BadStore, Blocks
<1>4. CASE ResizeInPlace
  BY <1>0, <1>4, HandOutBlocks DEF ResizeInPlace
<1>5. CASE ResizeMoves
  BY <1>0, <1>5, HandOutBlocks DEF ResizeMoves
<1>6. CASE ResizeFails
  BY <1>6 DEF ResizeFails, Blocks
<1>7. CASE Return
  BY <1>7 DEF Return, Blocks
<1>8. CASE Cleanup
  BY <1>8 DEF Cleanup, Blocks
<1>9. CASE UNCHANGED vars
  BY <1>9 DEF vars, Blocks
<1> QED BY <1>1, <1>2, <1>3, <1>4, <1>5, <1>6, <1>7, <1>8, <1>9 DEF Next, Halt

(* Until realloc fails or moves the block, what was handed out stays.      *)
LEMMA InReach ==
  ASSUME IInv, Blocks, Sound, Block = 1, phase \in {"run", "exit"},
         NEW i \in 1 .. Len(allocs)
  PROVE  Readable(allocs[i])
<1>1. /\ allocs[i] \in Pointer /\ BlockPtr \in Nat /\ SizeBytes \in Nat
      /\ held = SizeBytes /\ allocs[i].block = 1
  BY DEF IInv, TypeOK, Blocks, Sound
<1>2. allocs[i].off \in Nat /\ allocs[i].len \in Nat
  BY <1>1 DEF Pointer
<1>3. allocs[i].off + allocs[i].len <= held
  BY <1>1, <1>2 DEF IInv, Behind, Room
<1> QED BY <1>1, <1>3 DEF Readable

(* A step that ends in a crash is an access to what is not there; and      *)
(* after a crash nothing changes.                                          *)
LEMMA NextCrash ==
  IInv /\ Kept /\ Blocks /\ CrashOnlyPastLimits /\ [Next]_vars
    => CrashOnlyPastLimits'
<1> SUFFICES ASSUME IInv, Kept, Blocks, CrashOnlyPastLimits, [Next]_vars
             PROVE  CrashOnlyPastLimits'
  OBVIOUS
<1>0. /\ held \in Nat /\ SizeBytes \in Nat /\ BlockPtr \in Nat
      /\ want \in Seq(Demand) /\ InitBytes \in Nat \ {0} /\ InitBytes <= SizeBytes
  BY ArenaAssumption DEF IInv, TypeOK, Kept
<1>1. ASSUME Busy PROVE Top.bytes \in Nat
  <2>1. Top \in Demand
    BY <1>0, <1>1 DEF Busy, Top
  <2> QED BY <2>1 DEF Demand
<1>2. ASSUME NEW b \in Nat, Busy, HandOut(b) PROVE phase' # "crash"
  BY <1>2 DEF HandOut, Busy
<1>3. CASE Ask
  BY <1>3 DEF Ask, CrashOnlyPastLimits
<1>4. CASE Allocate
  BY <1>2, <1>4 DEF Allocate, IInv, TypeOK, CrashOnlyPastLimits
<1>5. CASE BadStore
  <2>1. ASSUME Busy, Fits(Top.bytes), BlockPtr + Top.bytes > held
        PROVE  ~Sound
    BY <1>0, <1>1, <2>1 DEF Fits, Sound
  <2>2. ASSUME \E i \in DOMAIN allocs : ~Readable(allocs[i])
        PROVE  ~Sound \/ Block # 1
    <3>1. phase = "run" /\ DOMAIN allocs = 1 .. Len(allocs)
      BY <1>5 DEF BadStore, IInv, TypeOK
    <3> QED BY <2>2, <3>1, InReach
  <2>3. ~Sound \/ Block # 1 \/ Len(ErrStack) >= MAX_ERRORS
    BY <1>5, <2>1, <2>2 DEF BadStore
  <2>4. UNCHANGED <<Block, held, SizeBytes, ErrStack>>
    BY <1>5 DEF BadStore
  <2> QED BY <2>3, <2>4 DEF CrashOnlyPastLimits, Sound
<1>6. CASE ResizeInPlace
  BY <1>2, <1>6 DEF ResizeInPlace, IInv, TypeOK, CrashOnlyPastLimits
<1>7. CASE ResizeMoves
  BY <1>2, <1>7 DEF ResizeMoves, IInv, TypeOK, CrashOnlyPastLimits
<1>8. CASE ResizeFails
  <2>1. CASE NDEBUG
    <3>1. held' = 0 /\ SizeBytes' = SizeBytes + 2 * Top.bytes
      BY <1>8, <2>1 DEF ResizeFails, Grown
    <3>2. Top.bytes \in Nat
      BY <1>1, <1>8 DEF ResizeFails
    <3>3. SizeBytes' # 0
      BY <1>0, <3>1, <3>2
    <3> QED BY <3>1, <3>3 DEF CrashOnlyPastLimits, Sound
  <2>2. CASE ~NDEBUG
    BY <1>8, <2>2 DEF ResizeFails, Busy, CrashOnlyPastLimits
  <2> QED BY <2>1, <2>2
<1>9. CASE Return
  BY <1>9 DEF Return, CrashOnlyPastLimits
<1>10. CASE Cleanup
  <2>1. CASE phase' = "done"
    BY <2>1 DEF CrashOnlyPastLimits
  <2>2. CASE /\ \E e \in DOMAIN ErrStack : ~CanRead(e)
             /\ UNCHANGED <<Block, held>>
    <3>1. PICK e \in 1 .. Len(ErrStack) : ~Readable(allocs[ErrStack[e].msg])
      BY <2>2 DEF IInv, TypeOK, CanRead
    <3>2. ErrStack[e].msg \in 1 .. Len(allocs) /\ phase = "exit"
      BY <1>10 DEF Kept, Cleanup
    <3>3. ~Sound \/ Block # 1
      BY <3>1, <3>2, InReach
    <3>4. SizeBytes' = SizeBytes
      BY <1>10 DEF Cleanup
    <3> QED BY <2>2, <3>3, <3>4 DEF CrashOnlyPastLimits, Sound
  <2> QED BY <1>10, <2>1, <2>2 DEF Cleanup
<1>11. CASE UNCHANGED vars
  BY <1>11 DEF vars, CrashOnlyPastLimits, Sound
<1> QED BY <1>3, <1>4, <1>5, <1>6, <1>7, <1>8, <1>9, <1>10, <1>11 DEF Next, Halt

(* CrashOnlyPastLimits for every arena and every capacity of the error     *)
(* stack: a store, or a message printed at exit, ends the process only     *)
(* behind a realloc that failed or moved the block, or a full error stack. *)
THEOREM CrashesExplained == Spec => []CrashOnlyPastLimits
<1>1. Init => Kept /\ Blocks /\ CrashOnlyPastLimits
  <2> SUFFICES ASSUME Init PROVE Kept /\ Blocks /\ CrashOnlyPastLimits
    OBVIOUS
  <2>1. allocs = <<>> /\ ErrStack = <<>> /\ Block = 1 /\ phase = "run"
        /\ held = InitBytes /\ SizeBytes = InitBytes /\ InitBytes \in Nat
    BY ArenaAssumption DEF Init
  <2> QED BY <2>1 DEF Kept, Blocks, CrashOnlyPastLimits
<1> QED BY InitIInv, NextIInv, NextKept, NextBlocks, NextCrash, <1>1, PTL DEF Spec
=============================================================================
