SPECIFICATION RawSpec
CONSTANTS
  Base = 0
  Span = 4
  Sizes = {1, 2}
  Opcodes <- MCOpcodes
  Meaning <- X86RiscVMeaning
  Deferred <- NoOpcodes
  Literals <- MCLiterals
  Parts <- Operands
  Slot <- Slots
  Signatures <- X86Signatures
  PrefixLength = 2
  Baselines <- X86Baselines
INVARIANT TypeOK
INVARIANT BlocksPartition
INVARIANT BlocksMaximal
INVARIANT FlowCovered
INVARIANT FlowSound
INVARIANT FunctionsPartition
INVARIANT FunctionsOfBlocks
INVARIANT LiftFollowsGraph
INVARIANT DiffExact
CHECK_DEADLOCK FALSE
