---------------------------- MODULE ControlUnit ----------------------------
(***************************************************************************)
(* The sequencer of FabComp's microcontroller (microcontroller.cpp): which *)
(* microinstruction comes next.  One step is one turn of the loop of       *)
(* interpret_microprogram.                                                 *)
(*                                                                         *)
(* The data path is abstracted away: a condition may turn out either way,  *)
(* an instruction fetch may bring any opcode of Opcodes, and a control     *)
(* point or condition may end in emergency_halt.  FabComp refines this     *)
(* module with the data.                                                   *)
(***************************************************************************)
EXTENDS Naturals, Sequences

CONSTANTS
  uMem,              \* the microprogram: address a is element a + 1
  uJumpTab,          \* the jump table, addresses of uMem: index j is element j + 1
  Opcodes,           \* the opcodes an instruction word may carry
  CTRL_STACK_HEIGHT  \* the number of registers of the microstack

UAddr  == 0..4095    \* CTRL_ADDR_WIDTH = 12
JIndex == 0..127     \* CTRL_JADR_WIDTH = 7
SPtr   == 0..7       \* CTRL_SPTR_WIDTH = 3
Byte   == 0..255     \* IR(15..8)

MicroType ==
  [ op : {"ctrl", "jump", "restart", "call", "callopc", "return",
          "halt", "reject", "print", "invalid"},
    cond : STRING, ctrl : STRING, jump : JIndex ]

(* The types that may carry a condition (0xa to 0xe). *)
Conditional == {"jump", "restart", "call", "callopc", "return"}

ASSUME UMemAssumption ==
  /\ uMem \in Seq(MicroType) /\ Len(uMem) < 4096
  /\ \A n \in DOMAIN uMem : uMem[n].cond # "always" => uMem[n].op \in Conditional
ASSUME UJumpTabAssumption == uJumpTab \in Seq(UAddr) /\ Len(uJumpTab) <= 128
ASSUME OpcodesAssumption == Opcodes \subseteq Byte
ASSUME HeightAssumption == CTRL_STACK_HEIGHT \in 1..7   \* uSP must be able to hold it

Slots == 0..(CTRL_STACK_HEIGHT - 1)

VARIABLES
  upc,     \* uPC
  usp,     \* uSP: the number of saved return addresses
  ustack,  \* the microstack
  opc,     \* IR(15..8), the opcode of the current instruction
  status   \* "run", or why the machine stopped

vars == <<upc, usp, ustack, opc, status>>

Statuses == { "run", "halt", "reject", "invalid",
              "overflow", "underflow",  \* the two emergency halts of the microstack
              "fatal",                  \* any other emergency halt
              "wild",                   \* an access outside ustack: undefined behaviour
              "stray" }                 \* the same, outside a bank of the data path

TypeOK == /\ upc \in UAddr
          /\ usp \in SPtr
          /\ ustack \in [Slots -> UAddr]
          /\ opc \in Byte
          /\ status \in Statuses

-----------------------------------------------------------------------------
(* A word nobody loaded is 0: control point 0x00. *)
Blank == [op |-> "ctrl", cond |-> "always", ctrl |-> "Addr[0] <- Mem[Reg[14]]", jump |-> 0]

Inst(a)   == IF a < Len(uMem) THEN uMem[a + 1] ELSE Blank
After(a)  == (a + 1) % 4096
Target(j) == IF j < Len(uJumpTab) THEN uJumpTab[j + 1] ELSE 0

UInst   == Inst(upc)
NextUpc == After(upc)

Init == /\ upc = 0
        /\ usp = 0
        /\ ustack = [s \in Slots |-> 0]
        /\ opc = 0
        /\ status = "run"

(* The machine stops; the rest of its state is never looked at again. *)
StopWith(why) == /\ status' = why
                 /\ UNCHANGED <<upc, usp, ustack, opc>>

GoTo(a) == /\ upc' = a
           /\ UNCHANGED <<usp, ustack, opc, status>>

Flip(byte, bit) == IF (byte \div bit) % 2 = 1 THEN byte - bit ELSE byte + bit

(* Mutant: the bit's number in IR, 11, used on IR(opc). *)
OpcodesAfterWordBit(ctrl, o) ==
  CASE ctrl = "IR <- Mem[PC]"    -> Opcodes
    [] ctrl = "IR(opc)(3) <- 0"  -> {Flip(o, 2048)}
    [] ctrl = "IR(opc)(2) <- 0"  -> {Flip(o, 1024)}
    [] OTHER                     -> {o}

(* What a control point can leave in IR(opc), which held o. *)
OpcodesAfter(ctrl, o) ==
  CASE ctrl = "IR <- Mem[PC]"    -> Opcodes
    [] ctrl = "IR(opc)(3) <- 0"  -> {Flip(o, 8)}
    [] ctrl = "IR(opc)(2) <- 0"  -> {Flip(o, 4)}
    [] OTHER                     -> {o}

(* C-type: execute_rtl. *)
ControlPoint ==
  /\ UInst.op = "ctrl"
  /\ upc' = NextUpc
  /\ opc' \in OpcodesAfter(UInst.ctrl, opc)
  /\ UNCHANGED <<usp, ustack, status>>

(* A conditional microinstruction whose condition holds does nothing. *)
Skip == /\ UInst.cond # "always"
        /\ GoTo(NextUpc)

Jump == /\ UInst.op = "jump"
        /\ GoTo(Target(UInst.jump))

Restart == /\ UInst.op = "restart"
           /\ GoTo(0)

(* Mutants: the saved address is that of the call itself; it is saved above
   the pointer.                                                            *)
EnterUnincremented(j) ==
  \/ /\ usp = CTRL_STACK_HEIGHT
     /\ StopWith("overflow")
  \/ /\ usp # CTRL_STACK_HEIGHT
     /\ ustack' = [ustack EXCEPT ![usp] = upc]
     /\ usp' = (usp + 1) % 8
     /\ upc' = Target(j)
     /\ UNCHANGED <<opc, status>>
EnterAbove(j) ==
  \/ /\ usp = CTRL_STACK_HEIGHT
     /\ StopWith("overflow")
  \/ /\ usp # CTRL_STACK_HEIGHT
     /\ ustack' = [ustack EXCEPT ![(usp + 1) % CTRL_STACK_HEIGHT] = NextUpc]
     /\ usp' = (usp + 1) % 8
     /\ upc' = Target(j)
     /\ UNCHANGED <<opc, status>>

(* uprocedure_call: save the return address and go to row j's address. *)
Enter(j) ==
  \/ /\ usp = CTRL_STACK_HEIGHT
     /\ StopWith("overflow")
  \/ /\ usp # CTRL_STACK_HEIGHT
     /\ ustack' = [ustack EXCEPT ![usp] = NextUpc]
     /\ usp' = (usp + 1) % 8
     /\ upc' = Target(j)
     /\ UNCHANGED <<opc, status>>

CallLabel == /\ UInst.op = "call"
             /\ Enter(UInst.jump)

(* Mutant: the next row of the jump table. *)
CallNextOpcode == /\ UInst.op = "callopc"
                  /\ Enter((opc + 1) % 128)

(* uJBUS carries the low 7 bits of the opcode. *)
CallByOpcode == /\ UInst.op = "callopc"
                /\ Enter(opc % 128)

(* uSP is decremented first, and wraps at 0.  A popped register is written
   before it is read again: its old value is forgotten.                    *)
UspBelow == (usp + 7) % 8

(* Mutant: the pointer stays where it is. *)
ReturnInPlace ==
  /\ UInst.op = "return"
  /\ UspBelow \in Slots
  /\ upc' = ustack[UspBelow]
  /\ UNCHANGED <<usp, ustack, opc, status>>

Return ==
  /\ UInst.op = "return"
  /\ \/ /\ UspBelow \notin Slots
        /\ StopWith(IF UspBelow = CTRL_STACK_HEIGHT THEN "underflow" ELSE "wild")
     \/ /\ UspBelow \in Slots
        /\ usp' = UspBelow
        /\ upc' = ustack[UspBelow]
        /\ ustack' = [ustack EXCEPT ![UspBelow] = 0]
        /\ UNCHANGED <<opc, status>>

Halt == /\ UInst.op \in {"halt", "reject", "invalid"}
        /\ StopWith(UInst.op)

PrintOperand == /\ UInst.op = "print"
                /\ GoTo(NextUpc)

(* emergency_halt, or worse, in an accessor that a control point, condition or
   print uses.                                                              *)
EmergencyHalt == /\ UInst.op \in {"ctrl", "print"} \/ UInst.cond # "always"
                 /\ \E why \in {"fatal", "stray"} : StopWith(why)

Step == ControlPoint \/ Skip \/ Jump \/ Restart \/ CallLabel \/ CallByOpcode
        \/ Return \/ Halt \/ PrintOperand \/ EmergencyHalt

Done == /\ status # "run"
        /\ UNCHANGED vars

Next == (status = "run" /\ Step) \/ Done

Spec == Init /\ [][Next]_vars

-----------------------------------------------------------------------------
(* Two conditions on the words of a microprogram, checked one word at a time. *)

(* Where control goes from address a, a call being passed over. *)
Onwards(a) ==
  LET inst == Inst(a)
  IN  (IF inst.op \in {"ctrl", "print", "call", "callopc"} \/ inst.cond # "always"
       THEN {After(a)} ELSE {})
      \cup (IF inst.op = "jump" THEN {Target(inst.jump)} ELSE {})

(* M contains the main loop, where no procedure is active, and no return. *)
MainLoop(M) == /\ 0 \in M
               /\ \A a \in M : Onwards(a) \subseteq M /\ Inst(a).op # "return"

(* A contains every word control can reach, whatever the opcode, and nothing else. *)
Closed(A) == /\ 0 \in A
             /\ \A j \in JIndex : Target(j) \in A
             /\ \A a \in A : a < Len(uMem) /\ Onwards(a) \subseteq A /\ Inst(a).op # "invalid"

-----------------------------------------------------------------------------
(* Properties of a microprogram under this sequencer. *)

Running == status = "run"

\* The microstack is never indexed outside its registers, and its pointer
\* never wraps: every return has its call.
NeverWild == status \notin {"underflow", "wild"}

\* A return with nothing on the microstack is reported: "underflowed the
\* microstack" (microcontroller.cpp:152), and no other register is read.
UnderflowReported == status # "wild"

\* Calls and returns of the microprogram also fit in the microstack.
StackSafe == NeverWild /\ status # "overflow"

\* Every saved address is the one after a call, so that a return always lands
\* just after a call microinstruction.
FramesFollowCalls ==
  \A s \in 0..(usp - 1) :
    /\ s \in Slots
    /\ ustack[s] \in DOMAIN uMem
    /\ uMem[ustack[s]].op \in {"call", "callopc"}

\* Whenever an instruction begins, no procedure of the previous one is left
\* on the microstack.
FetchBalanced == status = "run" /\ upc = 0 => usp = 0

\* Control never runs past the end of the microprogram, nor reaches a
\* microinstruction type the controller rejects.
StaysInProgram == (status = "run" => upc < Len(uMem)) /\ status # "invalid"

\* The listing writes "IR(opc)(n) <- 0" but the control point flips the bit:
\* whenever it runs, the bit is set, so that flipping it clears it.
FlipsClear ==
  [][opc' # opc /\ UInst.ctrl # "IR <- Mem[PC]" => opc' < opc]_vars
=============================================================================
