SPECIFICATION RulesSpec
CONSTANTS
  MaxBlocks = 6
  Shapes <- AllShapes
  IdomOfEntry = {TRUE, FALSE}
  Bits = 3
  Class <- MCClass
  Frequent <- MCFrequent
  Fold <- MCFold
  Words <- MCWords
  Marker <- MCMarker
  Limit <- MCLimit
  Files <- MCFiles
  Literal <- MCLiteral
  Requests <- AllRequests
  Noisy <- MCNoisy
  SectionNames <- MCSections
INVARIANTS
  StraightCodePasses
  ResultsSortable
  ResultsAreEvidence
  BetterTextWins
  SampleMatched
CHECK_DEADLOCK FALSE
