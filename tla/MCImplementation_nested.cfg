\* Operations that call another one, in the short form, on memory.
CONSTANTS
  uMem     <- UMem
  uJumpTab <- UJumpTab
  CTRL_STACK_HEIGHT = 5
  Starts   <- NestedStarts
SPECIFICATION HSpec
PROPERTY ImplementsISA
