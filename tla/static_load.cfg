SPECIFICATION Spec
CONSTANTS
  Limit = 1
  Excess = 2
  Nodes <- MCNodes
  Bodies <- OneBody
  NoNode = NoNode
  NoBody = NoBody
  n1 = n1
  n2 = n2
  b1 = b1

INVARIANTS TypeOK MemoryBounded ParsersBounded ContainerOfTheBytes UndisturbedReadIsExact
PROPERTY CallAnswered
