\* An operand too few, an operand too many.
CONSTANTS
  uMem     <- UMem
  uJumpTab <- UJumpTab
  CTRL_STACK_HEIGHT = 5
  Starts   <- CountStarts
SPECIFICATION HSpec
PROPERTY ImplementsISA
