SPECIFICATION RawSpec
CONSTANTS
  Base = 0
  Span = 4
  Sizes = {1, 2}
  Opcodes <- Mips
  Meaning <- MipsMeaning
  Deferred <- MipsDelayed
  Literals <- MCLiterals
  Parts <- Operands
  Slot <- Slots
  Signatures <- X86Signatures
  PrefixLength = 2
  Baselines <- NoListings
INVARIANT LiftInventsNothing
CHECK_DEADLOCK FALSE
