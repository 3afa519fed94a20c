\* Every instruction, address mode and edge value.
CONSTANTS
  uMem     <- UMem
  uJumpTab <- UJumpTab
  CTRL_STACK_HEIGHT = 5
  Starts   <- AllStarts
SPECIFICATION HSpec
INVARIANTS ReadsValues NoEmergency DataTypeOK Wired NoContention
PROPERTIES ImplementsISA FollowsSequencer TicksImplementSteps
