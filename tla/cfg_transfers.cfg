SPECIFICATION RawSpec
CONSTANTS
  Base = 0
  Span = 4
  Sizes = {1, 2}
  Opcodes <- ArmBranches
  Meaning <- ArmMeaning
  Deferred <- NoOpcodes
  Literals <- MCLiterals
  Parts <- Operands
  Slot <- Slots
  Signatures <- X86Signatures
  PrefixLength = 2
  Baselines <- NoListings
INVARIANT TransfersEndBlocks
CHECK_DEADLOCK FALSE
