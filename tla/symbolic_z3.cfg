SPECIFICATION Spec
CONSTANTS
  Operands <- MCOperands
  Expressions <- QuotientExpressions
  Conditions <- Quotients
  MaxLength = 2
  Limits <- MCLimits
  RuleLimit = 9
  Unspecified <- MCUnspecified
INVARIANT WitnessSatisfies
CHECK_DEADLOCK FALSE
