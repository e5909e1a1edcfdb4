SPECIFICATION RulesSpec
CONSTANTS
  MaxBlocks = 1
  Shapes <- AllShapes
  IdomOfEntry = {TRUE, FALSE}
  Bits = 3
  Class <- MCClass
  Frequent <- MCFrequent
  Fold <- MCFold
  Words <- MCWords
  Marker <- MCMarker
  Limit <- MCLimit
  Files <- MCFiles
  Literal <- MCLiteral
  Requests <- RawRequests
  Noisy <- MCNoisy
  SectionNames <- MCSections
INVARIANT RuleMatchesItsSample
CHECK_DEADLOCK FALSE
