\* The test programs, and the operand certificate of the microprogram.
CONSTANTS
  uMem     <- UMem
  uJumpTab <- UJumpTab
  CTRL_STACK_HEIGHT = 5
  Starts   <- Tests
  Opcodes  <- LegalOpcodes
  Meets    <- FabMeets
SPECIFICATION HSpec
PROPERTIES ImplementsISA InstructionsEnd TestsPass FetchesKnown
