\* A comparison whose difference is not a word.
CONSTANTS
  uMem     <- UMem
  uJumpTab <- UJumpTab
  CTRL_STACK_HEIGHT = 5
  Starts   <- OverflowStarts
SPECIFICATION HSpec
PROPERTY ImplementsISA
