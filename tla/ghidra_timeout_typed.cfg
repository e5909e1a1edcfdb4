SPECIFICATION Spec
CONSTANTS
  Requests <- MCRequests
  Images <- OneImage
  Functions <- TwoFunctions
  FunctionsOf <- OneFunctionsOf
  NativeOf <- OneNativeOf
  Dirs <- OneDir
  Breaks <- MCBreaks
  Forks = TRUE
  Platforms <- MCPlatforms
  NoDir = NoDir
  NoImage = NoImage
  r1 = r1
  r2 = r2
  i1 = i1
  i2 = i2
  f1 = f1
  f2 = f2
  g1 = g1
  d1 = d1
  d2 = d2

INVARIANT TimeoutIsTyped
