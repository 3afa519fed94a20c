\* The microstack height of the source.
CONSTANTS
  uMem     <- TinyProgram
  uJumpTab <- TinyTable
  Opcodes  <- TinyOpcodes
  CTRL_STACK_HEIGHT = 5
SPECIFICATION Spec
INVARIANTS UnderflowReported
