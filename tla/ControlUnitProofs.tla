-------------------------- MODULE ControlUnitProofs --------------------------
(***************************************************************************)
(* What the sequencer guarantees of any microprogram, jump table, set of   *)
(* opcodes and microstack height: its registers keep their widths, and a   *)
(* return always lands just after a call.                                  *)
(***************************************************************************)
EXTENDS ControlUnit, TLAPS

\* The wiring of the address adders: the next address fits the bus.
LEMMA AfterType == \A a \in UAddr : After(a) \in UAddr
  BY DEF After, UAddr

\* A jump-table read brings an address, also past the rows that were loaded.
LEMMA TargetType == \A j \in Nat : Target(j) \in UAddr
<1> SUFFICES ASSUME NEW j \in Nat PROVE Target(j) \in UAddr
  OBVIOUS
<1>1. CASE j < Len(uJumpTab)
  <2>1. j + 1 \in 1..Len(uJumpTab)
    BY <1>1, UJumpTabAssumption
  <2> QED BY <1>1, <2>1, UJumpTabAssumption DEF Target
<1>2. CASE ~(j < Len(uJumpTab))
  BY <1>2 DEF Target, UAddr
<1> QED BY <1>1, <1>2

\* Whatever word is at an address, it is a microinstruction.
LEMMA InstType == \A a \in UAddr : Inst(a).jump \in JIndex
<1> SUFFICES ASSUME NEW a \in UAddr PROVE Inst(a).jump \in JIndex
  OBVIOUS
<1>1. CASE a < Len(uMem)
  <2>1. uMem[a + 1] \in MicroType
    BY <1>1, UMemAssumption DEF UAddr
  <2> QED BY <1>1, <2>1 DEF Inst, MicroType
<1>2. CASE ~(a < Len(uMem))
  BY <1>2 DEF Inst, Blank, JIndex
<1> QED BY <1>1, <1>2

\* Flipping one bit of the opcode leaves a byte.
LEMMA FlipType == \A o \in Byte : Flip(o, 8) \in Byte /\ Flip(o, 4) \in Byte
<1> SUFFICES ASSUME NEW o \in Byte PROVE Flip(o, 8) \in Byte /\ Flip(o, 4) \in Byte
  OBVIOUS
<1>1. Flip(o, 8) \in Byte
  BY Z3 DEF Flip, Byte
<1>2. Flip(o, 4) \in Byte
  BY Z3 DEF Flip, Byte
<1> QED BY <1>1, <1>2

\* So every control point leaves a byte in the opcode field.
LEMMA OpcodesAfterType == \A ctrl : \A o \in Byte : OpcodesAfter(ctrl, o) \subseteq Byte
  BY FlipType, OpcodesAssumption, Zenon DEF OpcodesAfter

-----------------------------------------------------------------------------
LEMMA InitTypeOK == Init => TypeOK
  BY HeightAssumption DEF Init, TypeOK, UAddr, SPtr, Byte, Slots, Statuses

LEMMA StepTypeOK == TypeOK /\ [Next]_vars => TypeOK'
<1> SUFFICES ASSUME TypeOK, [Next]_vars PROVE TypeOK'
  OBVIOUS
<1> USE DEF TypeOK
<1>n. NextUpc \in UAddr
  BY AfterType DEF NextUpc
<1>t. Target(UInst.jump) \in UAddr /\ Target(opc % 128) \in UAddr
  BY InstType, TargetType DEF UInst, JIndex, Byte
<1>s. ASSUME NEW why \in Statuses, StopWith(why) PROVE TypeOK'
  BY <1>s DEF StopWith
<1>g. ASSUME NEW a \in UAddr, GoTo(a) PROVE TypeOK'
  BY <1>g DEF GoTo
<1>e. ASSUME NEW j, Target(j) \in UAddr, Enter(j) PROVE TypeOK'
  <2>1. CASE usp = CTRL_STACK_HEIGHT /\ StopWith("overflow")
    BY <1>s, <2>1 DEF Statuses
  <2>2. CASE /\ usp # CTRL_STACK_HEIGHT
             /\ ustack' = [ustack EXCEPT ![usp] = NextUpc]
             /\ usp' = (usp + 1) % 8
             /\ upc' = Target(j)
             /\ UNCHANGED <<opc, status>>
    <3>1. usp' \in SPtr
      BY <2>2 DEF SPtr
    <3>2. ustack' \in [Slots -> UAddr]
      BY <1>n, <2>2
    <3> QED BY <1>e, <2>2, <3>1, <3>2
  <2> QED BY <1>e, <2>1, <2>2 DEF Enter
<1>1. CASE ControlPoint
  BY <1>1, <1>n, OpcodesAfterType DEF ControlPoint
<1>2. CASE Skip
  BY <1>2, <1>n, <1>g DEF Skip
<1>3. CASE Jump
  BY <1>3, <1>t, <1>g DEF Jump
<1>4. CASE Restart
  <2>1. 0 \in UAddr
    BY DEF UAddr
  <2> QED BY <1>4, <1>g, <2>1 DEF Restart
<1>5. CASE CallLabel
  BY <1>5, <1>t, <1>e DEF CallLabel
<1>6. CASE CallByOpcode
  BY <1>6, <1>t, <1>e DEF CallByOpcode
<1>7. CASE Return
  <2>1. CASE UspBelow \notin Slots
    BY <1>7, <1>s, <2>1 DEF Return, Statuses
  <2>2. CASE UspBelow \in Slots
    BY <1>7, <2>2, SMTT(30) DEF Return, UspBelow, SPtr, UAddr
  <2> QED BY <2>1, <2>2
<1>8. CASE Halt
  BY <1>8, <1>s DEF Halt, Statuses
<1>9. CASE PrintOperand
  BY <1>9, <1>n, <1>g DEF PrintOperand
<1>10. CASE EmergencyHalt
  BY <1>10, <1>s DEF EmergencyHalt, Statuses
<1>11. CASE UNCHANGED vars
  BY <1>11 DEF vars
<1> QED
  BY <1>1, <1>2, <1>3, <1>4, <1>5, <1>6, <1>7, <1>8, <1>9, <1>10, <1>11
  DEF Next, Step, Done

\* The registers of the sequencer keep their widths, and the microstack its
\* addresses, for every microprogram.
THEOREM TypeCorrect == Spec => []TypeOK
  BY InitTypeOK, StepTypeOK, PTL DEF Spec

-----------------------------------------------------------------------------
(* FramesFollowCalls with TypeOK is inductive: a call saves the address     *)
(* after itself, and the pointer cannot wrap into Slots, since the height   *)
(* leaves the wrapped value 7 outside.                                      *)

\* The word of a call is one that was loaded, so the address after it is one
\* of uMem's elements: the call itself, in 1-based terms.
LEMMA CallSaves ==
  ASSUME TypeOK, UInst.op \in {"call", "callopc"}
  PROVE  NextUpc \in DOMAIN uMem /\ uMem[NextUpc].op \in {"call", "callopc"}
<1>0. Len(uMem) \in Nat /\ Len(uMem) < 4096
  BY UMemAssumption
<1>1. upc < Len(uMem)
  BY DEF UInst, Inst, Blank
<1>2. NextUpc = upc + 1
  <2>1. upc \in Nat /\ upc + 1 < 4096
    BY <1>0, <1>1 DEF TypeOK, UAddr
  <2>2. (upc + 1) % 4096 = upc + 1
    BY <2>1
  <2> QED BY <2>2 DEF NextUpc, After
<1> QED
  BY <1>1, <1>2, UMemAssumption DEF UInst, Inst, TypeOK, UAddr

LEMMA StepFrames == TypeOK /\ FramesFollowCalls /\ [Next]_vars => FramesFollowCalls'
<1> SUFFICES ASSUME TypeOK, FramesFollowCalls, [Next]_vars PROVE FramesFollowCalls'
  OBVIOUS
<1>u. ASSUME UNCHANGED <<usp, ustack>> PROVE FramesFollowCalls'
  BY <1>u DEF FramesFollowCalls
<1>e. ASSUME NEW j, Enter(j), UInst.op \in {"call", "callopc"} PROVE FramesFollowCalls'
  <2>1. CASE usp = CTRL_STACK_HEIGHT
    BY <1>e, <1>u, <2>1 DEF Enter, StopWith
  <2>2. CASE usp # CTRL_STACK_HEIGHT
    <3>1. usp \in Slots /\ usp' = usp + 1
      <4>1. usp \in 0..CTRL_STACK_HEIGHT
        <5>1. CASE usp = 0
          BY <5>1, HeightAssumption
        <5>2. CASE usp # 0
          <6>1. usp - 1 \in 0..(usp - 1)
            BY <5>2 DEF TypeOK, SPtr
          <6>2. usp - 1 \in Slots
            BY <6>1 DEF FramesFollowCalls
          <6> QED BY <6>2, HeightAssumption DEF Slots, TypeOK, SPtr
        <5> QED BY <5>1, <5>2
      <4> QED BY <1>e, <2>2, <4>1, HeightAssumption DEF Enter, Slots
    <3>2. ustack' = [ustack EXCEPT ![usp] = NextUpc]
      BY <1>e, <2>2 DEF Enter
    <3>3. \A s \in 0..(usp' - 1) : s = usp \/ s \in 0..(usp - 1)
      BY <3>1 DEF TypeOK, SPtr
    <3>4. NextUpc \in DOMAIN uMem /\ uMem[NextUpc].op \in {"call", "callopc"}
      BY <1>e, CallSaves
    <3>5. ASSUME NEW s \in 0..(usp' - 1)
          PROVE  s \in Slots /\ ustack'[s] \in DOMAIN uMem
                 /\ uMem[ustack'[s]].op \in {"call", "callopc"}
      <4>1. CASE s = usp
        BY <3>1, <3>2, <3>4, <4>1 DEF TypeOK
      <4>2. CASE s \in 0..(usp - 1) /\ s # usp
        BY <3>2, <4>2 DEF TypeOK, FramesFollowCalls
      <4> QED BY <3>3, <4>1, <4>2
    <3> QED BY <3>5 DEF FramesFollowCalls
  <2> QED BY <2>1, <2>2
<1>1. CASE ControlPoint
  BY <1>1, <1>u DEF ControlPoint
<1>2. CASE Skip
  BY <1>2, <1>u DEF Skip, GoTo
<1>3. CASE Jump
  BY <1>3, <1>u DEF Jump, GoTo
<1>4. CASE Restart
  BY <1>4, <1>u DEF Restart, GoTo
<1>5. CASE CallLabel
  BY <1>5, <1>e DEF CallLabel
<1>6. CASE CallByOpcode
  BY <1>6, <1>e DEF CallByOpcode
<1>7. CASE Return
  <2>1. CASE UspBelow \notin Slots
    BY <1>7, <1>u, <2>1 DEF Return, StopWith
  <2>2. CASE UspBelow \in Slots
    <3>1. usp' = usp - 1 /\ usp' \in Slots
      BY <1>7, <2>2, HeightAssumption DEF Return, UspBelow, Slots, TypeOK, SPtr
    <3>2. ustack' = [ustack EXCEPT ![usp'] = 0]
      BY <1>7, <2>2 DEF Return
    <3>3. ASSUME NEW s \in 0..(usp' - 1)
          PROVE  s \in 0..(usp - 1) /\ s # usp'
      BY <3>1, <3>3 DEF TypeOK, SPtr, Slots
    <3> QED BY <3>1, <3>2, <3>3 DEF FramesFollowCalls, TypeOK
  <2> QED BY <2>1, <2>2
<1>8. CASE Halt
  BY <1>8, <1>u DEF Halt, StopWith
<1>9. CASE PrintOperand
  BY <1>9, <1>u DEF PrintOperand, GoTo
<1>10. CASE EmergencyHalt
  BY <1>10, <1>u DEF EmergencyHalt, StopWith
<1>11. CASE UNCHANGED vars
  BY <1>11, <1>u DEF vars
<1> QED
  BY <1>1, <1>2, <1>3, <1>4, <1>5, <1>6, <1>7, <1>8, <1>9, <1>10, <1>11
  DEF Next, Step, Done

\* Whatever the microprogram, even one whose calls and returns do not balance,
\* no return uses an address that a call did not save.
THEOREM FramesCorrect == Spec => []FramesFollowCalls
<1>1. Init => FramesFollowCalls
  BY DEF Init, FramesFollowCalls
<1> QED BY <1>1, StepFrames, TypeCorrect, PTL DEF Spec

-----------------------------------------------------------------------------
(* Where the frames are, for the theorems about any opcode: the pointer      *)
(* counts registers that exist.                                              *)

\* Frames are in the microstack, so there are no more of them than registers.
LEMMA FramesFit ==
  ASSUME TypeOK, FramesFollowCalls
  PROVE  usp <= CTRL_STACK_HEIGHT
<1>1. CASE usp = 0
  BY <1>1, HeightAssumption
<1>2. CASE usp # 0
  <2>1. usp - 1 \in 0..(usp - 1)
    BY <1>2 DEF TypeOK, SPtr
  <2>2. usp - 1 \in Slots
    BY <2>1 DEF FramesFollowCalls
  <2> QED BY <2>2, HeightAssumption DEF Slots, TypeOK, SPtr
<1> QED BY <1>1, <1>2

\* A call that does not overflow saves the next address in the register that
\* the pointer, not yet incremented, names.
LEMMA EnterSaves ==
  ASSUME TypeOK, FramesFollowCalls, NEW j, Enter(j), usp # CTRL_STACK_HEIGHT
  PROVE  /\ usp \in Slots
         /\ usp' = usp + 1
         /\ ustack' = [ustack EXCEPT ![usp] = NextUpc]
         /\ upc' = Target(j)
         /\ status' = status
<1>1. usp \in Slots /\ usp + 1 \in 1..7
  BY FramesFit, HeightAssumption DEF Slots, TypeOK, SPtr
<1>2. (usp + 1) % 8 = usp + 1
  BY <1>1 DEF TypeOK, SPtr
<1> QED BY <1>1, <1>2 DEF Enter

\* A return that finds a register reads the last frame: with none there is no
\* register below the pointer, which wraps to 7.
LEMMA ReturnFinds ==
  ASSUME TypeOK, UspBelow \in Slots
  PROVE  usp # 0 /\ UspBelow = usp - 1
BY HeightAssumption DEF UspBelow, Slots, TypeOK, SPtr

-----------------------------------------------------------------------------
(* Returns match calls when no return can be reached with nothing saved.     *)

\* With nothing on the microstack control is in the main loop, and the first
\* frame returns there.
AboveMain(M) == /\ IF usp = 0 THEN upc \in M ELSE ustack[0] \in M
                /\ NeverWild

LEMMA AboveMainStep ==
  ASSUME NEW M, MainLoop(M), TypeOK, FramesFollowCalls, AboveMain(M), [Next]_vars
  PROVE  AboveMain(M)'
<1>m. ASSUME usp = 0 PROVE UInst.op # "return" /\ Onwards(upc) \subseteq M
  BY <1>m DEF AboveMain, MainLoop, UInst
<1>n. UInst.op \in {"ctrl", "print", "call", "callopc"} \/ UInst.cond # "always"
        => NextUpc \in Onwards(upc)
  BY DEF Onwards, UInst, NextUpc
\* The frames stay, and control too if there are none.
<1>l. ASSUME UNCHANGED <<usp, ustack, status>>, usp = 0 => upc' \in M
      PROVE  AboveMain(M)'
  BY <1>l DEF AboveMain, NeverWild
<1>x. ASSUME NEW why, StopWith(why), why \notin {"underflow", "wild"}
      PROVE  AboveMain(M)'
  BY <1>x DEF AboveMain, NeverWild, StopWith
<1>e. ASSUME NEW j, Enter(j), UInst.op \in {"call", "callopc"} PROVE AboveMain(M)'
  <2>1. CASE usp = CTRL_STACK_HEIGHT
    BY <1>e, <1>x, <2>1 DEF Enter
  <2>2. CASE usp # CTRL_STACK_HEIGHT
    <3>1. /\ usp \in Slots
          /\ usp' = usp + 1
          /\ ustack' = [ustack EXCEPT ![usp] = NextUpc]
          /\ status' = status
      BY <1>e, <2>2, EnterSaves
    <3>2. usp' # 0
      BY <3>1 DEF TypeOK, SPtr
    <3>3. ustack'[0] \in M
      <4>1. CASE usp = 0
        BY <1>e, <1>m, <1>n, <3>1, <4>1 DEF TypeOK
      <4>2. CASE usp # 0
        BY <3>1, <4>2, HeightAssumption DEF AboveMain, TypeOK, Slots
      <4> QED BY <4>1, <4>2
    <3> QED BY <3>1, <3>2, <3>3 DEF AboveMain, NeverWild
  <2> QED BY <2>1, <2>2
<1>1. CASE ControlPoint
  BY <1>1, <1>l, <1>m, <1>n DEF ControlPoint
<1>2. CASE Skip
  BY <1>2, <1>l, <1>m, <1>n DEF Skip, GoTo
<1>3. CASE Jump
  <2>1. upc' \in Onwards(upc)
    BY <1>3 DEF Jump, GoTo, Onwards, UInst
  <2> QED BY <1>3, <1>l, <1>m, <2>1 DEF Jump, GoTo
<1>4. CASE Restart
  BY <1>4, <1>l DEF Restart, GoTo, MainLoop
<1>5. CASE CallLabel
  BY <1>5, <1>e DEF CallLabel
<1>6. CASE CallByOpcode
  BY <1>6, <1>e DEF CallByOpcode
<1>7. CASE Return
  <2>1. usp \in 1..CTRL_STACK_HEIGHT
    BY <1>7, <1>m, FramesFit DEF Return, TypeOK, SPtr
  <2>2. UspBelow \in Slots /\ UspBelow = usp - 1
    BY <2>1, HeightAssumption DEF UspBelow, Slots
  <2>3. /\ usp' = usp - 1
        /\ upc' = ustack[usp - 1]
        /\ ustack' = [ustack EXCEPT ![usp - 1] = 0]
        /\ status' = status
    BY <1>7, <2>2 DEF Return
  <2>4. CASE usp = 1
    BY <2>3, <2>4 DEF AboveMain, NeverWild
  <2>5. CASE usp # 1
    <3>1. usp' # 0 /\ ustack'[0] = ustack[0] /\ usp # 0
      BY <2>1, <2>3, <2>5, HeightAssumption DEF TypeOK, Slots
    <3> QED BY <2>3, <3>1 DEF AboveMain, NeverWild
  <2> QED BY <2>4, <2>5
<1>8. CASE Halt
  BY <1>8, <1>x DEF Halt
<1>9. CASE PrintOperand
  BY <1>9, <1>l, <1>m, <1>n DEF PrintOperand, GoTo
<1>10. CASE EmergencyHalt
  BY <1>10, <1>x DEF EmergencyHalt
<1>11. CASE UNCHANGED vars
  BY <1>11, <1>l DEF vars, AboveMain
<1> QED
  BY <1>1, <1>2, <1>3, <1>4, <1>5, <1>6, <1>7, <1>8, <1>9, <1>10, <1>11
  DEF Next, Step, Done

\* A microprogram whose main loop contains no return never returns with nothing
\* saved, whatever opcodes its programs bring: return_from_procedure finds a
\* frame, in a register that exists.
THEOREM ReturnsMatchCalls ==
  ASSUME NEW M, MainLoop(M)
  PROVE  Spec => []NeverWild
<1>1. Init => AboveMain(M)
  BY DEF Init, AboveMain, MainLoop, NeverWild
<1>2. TypeOK /\ FramesFollowCalls /\ AboveMain(M) /\ [Next]_vars => AboveMain(M)'
  BY AboveMainStep
<1>3. AboveMain(M) => NeverWild
  BY DEF AboveMain
<1> QED BY <1>1, <1>2, <1>3, TypeCorrect, FramesCorrect, PTL DEF Spec

-----------------------------------------------------------------------------
(* Control stays inside a closed microprogram, whatever the opcodes.         *)

\* Control and every address it may return to are in A.
Inside(A) == /\ upc \in A
             /\ \A s \in 0..(usp - 1) : s \in Slots /\ ustack[s] \in A
             /\ status # "invalid"

LEMMA InsideStep ==
  ASSUME NEW A, Closed(A), TypeOK, FramesFollowCalls, Inside(A), [Next]_vars
  PROVE  Inside(A)'
<1>c. /\ 0 \in A
      /\ \A j \in JIndex : Target(j) \in A
      /\ Onwards(upc) \subseteq A
      /\ UInst.op # "invalid"
  BY DEF Closed, Inside, UInst
<1>n. UInst.op \in {"ctrl", "print", "call", "callopc"} \/ UInst.cond # "always"
        => NextUpc \in A
  BY <1>c DEF Onwards, UInst, NextUpc
<1>t. Target(UInst.jump) \in A /\ Target(opc % 128) \in A
  <2>1. UInst.jump \in JIndex /\ opc % 128 \in JIndex
    BY InstType DEF TypeOK, UInst, JIndex, Byte
  <2> QED BY <1>c, <2>1
\* The frames stay: it is enough that control does not leave.
<1>l. ASSUME UNCHANGED <<usp, ustack, status>>, upc' \in A
      PROVE  Inside(A)'
  BY <1>l DEF Inside
<1>x. ASSUME NEW why, StopWith(why), why # "invalid"
      PROVE  Inside(A)'
  BY <1>x DEF Inside, StopWith
<1>e. ASSUME NEW j, Enter(j), Target(j) \in A, UInst.op \in {"call", "callopc"}
      PROVE  Inside(A)'
  <2>1. CASE usp = CTRL_STACK_HEIGHT
    BY <1>e, <1>x, <2>1 DEF Enter
  <2>2. CASE usp # CTRL_STACK_HEIGHT
    <3>1. /\ usp \in Slots
          /\ usp' = usp + 1
          /\ ustack' = [ustack EXCEPT ![usp] = NextUpc]
          /\ upc' = Target(j)
          /\ status' = status
      BY <1>e, <2>2, EnterSaves
    <3>2. ASSUME NEW s \in 0..(usp' - 1) PROVE s \in Slots /\ ustack'[s] \in A
      <4>1. CASE s = usp
        BY <1>e, <1>n, <3>1, <4>1 DEF TypeOK
      <4>2. CASE s \in 0..(usp - 1) /\ s # usp
        BY <3>1, <4>2 DEF TypeOK, Inside
      <4> QED BY <3>1, <3>2, <4>1, <4>2 DEF TypeOK, SPtr
    <3> QED BY <1>e, <3>1, <3>2 DEF Inside
  <2> QED BY <2>1, <2>2
<1>1. CASE ControlPoint
  BY <1>1, <1>l, <1>n DEF ControlPoint
<1>2. CASE Skip
  BY <1>2, <1>l, <1>n DEF Skip, GoTo
<1>3. CASE Jump
  BY <1>3, <1>l, <1>t DEF Jump, GoTo
<1>4. CASE Restart
  BY <1>4, <1>l, <1>c DEF Restart, GoTo
<1>5. CASE CallLabel
  BY <1>5, <1>e, <1>t DEF CallLabel
<1>6. CASE CallByOpcode
  BY <1>6, <1>e, <1>t DEF CallByOpcode
<1>7. CASE Return
  <2>1. CASE UspBelow \notin Slots
    BY <1>7, <1>x, <2>1 DEF Return
  <2>2. CASE UspBelow \in Slots
    <3>1. usp # 0 /\ UspBelow = usp - 1
      BY <2>2, ReturnFinds
    <3>2. /\ usp' = usp - 1
          /\ upc' = ustack[usp - 1]
          /\ ustack' = [ustack EXCEPT ![usp - 1] = 0]
          /\ status' = status
      BY <1>7, <2>2, <3>1 DEF Return
    <3>3. upc' \in A
      BY <3>1, <3>2 DEF Inside, TypeOK, SPtr
    <3>4. ASSUME NEW s \in 0..(usp' - 1) PROVE s \in 0..(usp - 1) /\ s # usp - 1
      BY <3>1, <3>2, <3>4 DEF TypeOK, SPtr
    <3> QED BY <3>2, <3>3, <3>4 DEF Inside, TypeOK
  <2> QED BY <2>1, <2>2
<1>8. CASE Halt
  BY <1>8, <1>x, <1>c DEF Halt
<1>9. CASE PrintOperand
  BY <1>9, <1>l, <1>n DEF PrintOperand, GoTo
<1>10. CASE EmergencyHalt
  BY <1>10, <1>x DEF EmergencyHalt
<1>11. CASE UNCHANGED vars
  BY <1>11, <1>l DEF vars, Inside
<1> QED
  BY <1>1, <1>2, <1>3, <1>4, <1>5, <1>6, <1>7, <1>8, <1>9, <1>10, <1>11
  DEF Next, Step, Done

\* A closed microprogram never runs into words that were not loaded, nor meets
\* a microinstruction type the controller rejects, whatever opcodes its programs
\* bring, undefined ones included.
THEOREM ClosedStaysInProgram ==
  ASSUME NEW A, Closed(A)
  PROVE  Spec => []StaysInProgram
<1>1. Init => Inside(A)
  BY DEF Init, Inside, Closed
<1>2. TypeOK /\ FramesFollowCalls /\ Inside(A) /\ [Next]_vars => Inside(A)'
  BY InsideStep
<1>3. Inside(A) => StaysInProgram
  BY DEF Inside, StaysInProgram, Closed
<1> QED BY <1>1, <1>2, <1>3, TypeCorrect, FramesCorrect, PTL DEF Spec

-----------------------------------------------------------------------------
(* A return with nothing saved is never reported.                            *)

NeverReported == status # "underflow"

\* With fewer registers than the pointer can count, as in the source (5), the check
\* of return_from_procedure never reports anything, whatever the microprogram: a
\* return with nothing saved wraps the pointer to 7, past the registers and past
\* the height it is compared with.
THEOREM LowerHeightNeverReports ==
  ASSUME CTRL_STACK_HEIGHT < 7
  PROVE  Spec => []NeverReported
<1>1. Init => NeverReported
  BY DEF Init, NeverReported
<1>2. TypeOK /\ FramesFollowCalls /\ NeverReported /\ [Next]_vars => NeverReported'
  <2> SUFFICES ASSUME TypeOK, FramesFollowCalls, status # "underflow", [Next]_vars
               PROVE  status' # "underflow"
    BY DEF NeverReported
  <2>1. UspBelow # CTRL_STACK_HEIGHT
    BY FramesFit, HeightAssumption DEF UspBelow, TypeOK, SPtr
  <2> QED BY <2>1 DEF Next, Step, Done, vars, ControlPoint, Skip, Jump, Restart,
             CallLabel, CallByOpcode, Enter, Return, Halt, PrintOperand,
             EmergencyHalt, StopWith, GoTo
<1> QED BY <1>1, <1>2, TypeCorrect, FramesCorrect, PTL DEF Spec
=============================================================================
