\* Sources of one subject line, in fixed company.
CONSTANTS
  Sources <- SomeSources
  Regs    <- SmallRegs
SPECIFICATION Spec
INVARIANTS OperandsFit AcceptsLegal AssemblesMeaning ReferencesInside
