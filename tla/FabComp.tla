------------------------------- MODULE FabComp -------------------------------
(***************************************************************************)
(* The whole machine: the sequencer of ControlUnit driving DataPath.  A    *)
(* condition is decided by the registers, a fetch brings what memory       *)
(* holds, and an accessor that finds nonsense halts the machine.  One step *)
(* is one microinstruction.                                                *)
(***************************************************************************)
EXTENDS DataPath, Sequences

CONSTANTS
  uMem, uJumpTab, CTRL_STACK_HEIGHT,  \* as in ControlUnit
  Starts   \* the memory, registers, PC and leftovers that a run may begin with

ASSUME StartsAssumption ==
  \A s \in Starts : /\ IsMemory(s.mem) /\ s.reg \in [RegId -> Word] /\ s.pc \in Word
                    /\ s.left.word \in Word /\ s.left.cntl \in [OpndId -> Control]
                    /\ s.left.i \in 0..3

VARIABLES upc, usp, ustack, status

machine == <<upc, usp, ustack, status, dataVars>>

AnyOpcode == 0..255
CU == INSTANCE ControlUnit WITH Opcodes <- AnyOpcode

UInst == CU!UInst

(* The simulator starts with its registers 0, and PC where the program says; an
   instruction in the middle of a program finds there what others left.    *)
Init == /\ CU!Init
        /\ \E s \in Starts :
             /\ mem = s.mem /\ reg = s.reg /\ pc = s.pc
             /\ mdr = s.left.word /\ tmp = s.left.word /\ regshift = s.left.word
             /\ val = [n \in OpndId |-> s.left.word]
             /\ addr = [n \in OpndId |-> s.left.word]
             /\ cntl = s.left.cntl
             /\ i = s.left.i
        /\ utmp = 0 /\ modes = 0 /\ out = 0

DataStays == UNCHANGED dataVars

ControlPoint == /\ UInst.op = "ctrl"
                /\ Fault(UInst.ctrl) = "none"
                /\ Transfer(UInst.ctrl)
                /\ upc' = CU!NextUpc
                /\ UNCHANGED <<usp, ustack, status>>

(* The conditional microinstructions are skipped when the condition holds. *)
Decided == UInst.cond # "always" => CondFault(UInst.cond) = "none"
Taken   == UInst.cond # "always" => ~Holds(UInst.cond)

Skip == /\ Decided /\ ~Taken
        /\ CU!Skip
        /\ DataStays

Jump == Decided /\ Taken /\ CU!Jump /\ DataStays

Restart == Decided /\ Taken /\ CU!Restart /\ DataStays

CallLabel == Decided /\ Taken /\ CU!CallLabel /\ DataStays

(* regshift takes the opcode to the bus. *)
CallByOpcode ==
  /\ Decided /\ Taken
  /\ CU!CallByOpcode
  /\ regshift' = opc
  /\ UNCHANGED <<pc, mdr, tmp, opc, modes, reg, val, addr, mem, cntl, i, utmp, out>>

Return == Decided /\ Taken /\ CU!Return /\ DataStays

Halt == CU!Halt /\ DataStays

PrintOperand == /\ ~NoOperand(1)
                /\ CU!PrintOperand
                /\ out' = Operand(1)
                /\ UNCHANGED <<pc, mdr, tmp, opc, modes, reg, val, addr, mem, cntl, i, utmp, regshift>>

(* Why the current microinstruction cannot be carried out, if it cannot. *)
Trouble ==
  CASE UInst.op = "ctrl"                   -> Fault(UInst.ctrl)
    [] UInst.op = "print" /\ NoOperand(1)  -> "fatal"
    [] UInst.cond # "always"               -> CondFault(UInst.cond)
    [] OTHER                               -> "none"

EmergencyHalt == /\ Trouble # "none"
                 /\ CU!StopWith(Trouble)
                 /\ DataStays

Step == ControlPoint \/ Skip \/ Jump \/ Restart \/ CallLabel \/ CallByOpcode
        \/ Return \/ Halt \/ PrintOperand \/ EmergencyHalt

Done == /\ status # "run"
        /\ UNCHANGED machine

Next == (status = "run" /\ Step) \/ Done

(* The simulator's loop runs until the machine stops. *)
Spec == Init /\ [][Next]_machine /\ WF_machine(Next)

\* The machine with its data takes only steps that the sequencer alone allows,
\* IR(opc) being what a control point may leave there after a fetch of any byte.
\* What holds of ControlUnit with every opcode then holds of the machine.  That
\* allows overflow and flips that set: what the certificate says for the known
\* opcodes carries over only to programs that have no others (FetchesKnown).
FollowsSequencer == CU!Spec
=============================================================================
