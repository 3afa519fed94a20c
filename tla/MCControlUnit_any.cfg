\* Any byte in the opcode field.
CONSTANTS
  uMem     <- UMem
  uJumpTab <- UJumpTab
  Opcodes  <- AllOpcodes
  CTRL_STACK_HEIGHT = 5
SPECIFICATION Spec
INVARIANTS NeverWild FramesFollowCalls StaysInProgram
