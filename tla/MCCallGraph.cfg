\* FabComp's certificate: every instruction the assembler can write.
CONSTANTS
  uMem     <- UMem
  uJumpTab <- UJumpTab
  Opcodes  <- LegalOpcodes
  CTRL_STACK_HEIGHT = 5
  Root     <- MainCtx
  Ctx      <- FabCtx
  Code     <- FabCode
  Lvl      <- FabLvl
SPECIFICATION Spec
INVARIANTS StackSafe FetchBalanced
PROPERTY FlipsClear
