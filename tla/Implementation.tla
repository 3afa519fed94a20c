---------------------------- MODULE Implementation ----------------------------
(***************************************************************************)
(* FabComp implements the ISA.  The programmer's state is the one at the   *)
(* last instruction boundary, kept in the history variable arch: inside an *)
(* instruction PC, the registers and memory pass through states that no    *)
(* instruction set describes.                                              *)
(***************************************************************************)
EXTENDS FabComp

VARIABLE arch

Boundary == [pc |-> pc, reg |-> reg, mem |-> mem, out |-> out]

HInit == Init /\ arch = Boundary
HNext == Next /\ arch' = IF status' = "run" /\ upc' = 0 THEN Boundary' ELSE arch
HSpec == HInit /\ [][HNext]_<<machine, arch>> /\ WF_<<machine, arch>>(HNext)

Promise == INSTANCE ISA WITH pc <- arch.pc, reg <- arch.reg, mem <- arch.mem, out <- arch.out

-----------------------------------------------------------------------------
\* From one instruction boundary to the next the machine does what the ISA says
\* of the instruction there, and it stops only where the ISA halts or rejects:
\* the microprogram of hard.tex implements isa.tex.
ImplementsISA == Promise!Spec

\* Every instruction ends: the loops of the microprogram over the operands
\* terminate, and so do its nested procedures.
InstructionsEnd == []<>(upc = 0 \/ status # "run")

\* An operation reads values, never the address of an operand that was loaded
\* from memory: operand 1 may be called 10000 ("not used", hard.tex:98) only as
\* Val[0], when operand 0 was loaded; and a jump reads an address.
ReadsValues ==
  status = "run" =>
    \A n \in OperandsOf(UInst.ctrl) :
      \/ n \in {1, 2} /\ cntl[n] \in RegId \cup {17, 18, 19}
      \/ n = 1 /\ cntl[1] = 16 /\ cntl[0] \in {19, 20}
      \/ n = 0 /\ cntl[0] = 20

\* The machine stops only where its microprogram halts or rejects the opcode:
\* no accessor meets an operand number, a control word or an address that it
\* refuses (emergency_halt, accessors.cpp), and the microstack fits.
NoEmergency == status \in {"run", "halt", "reject"}
=============================================================================
