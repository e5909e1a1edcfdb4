SPECIFICATION FairSpec
CONSTANTS
  Operands <- MCOperands
  Expressions <- MCExpressions
  Conditions <- MCConditions
  MaxLength = 2
  Limits <- MCLimits
  RuleLimit = 9
  Unspecified <- MCUnspecified
INVARIANT TypeOK
INVARIANT MiniDecides
INVARIANT OpaqueIsForced
INVARIANT EffortBounded
PROPERTY Ends
CHECK_DEADLOCK FALSE
