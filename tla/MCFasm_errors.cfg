\* An error in a scaled operand does not stop the assembler.
CONSTANTS
  Sources <- SomeSources
  Regs    <- SmallRegs
SPECIFICATION Spec
INVARIANT ErrorsBailOut
