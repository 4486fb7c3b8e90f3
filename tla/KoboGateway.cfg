SPECIFICATION Spec
CONSTANTS
  Books = {b1, x1}
  Known = {b1}
  Calls = {c1, c2}
  Devices = {d1, d2}
  Second = 2
  Files <- MCFiles
  Covered = {b1}
  IdLists <- MCIdLists
  Puts <- MCPuts
  MaxCalls = 2
  MaxFaults = 1
  b1 = b1 x1 = x1 c1 = c1 c2 = c2 d1 = d1 d2 = d2
SYMMETRY Symmetries
CHECK_DEADLOCK FALSE
INVARIANTS OnlyOverlappingTokensSurvive RevokedTokensServeNothing SecondStateNeedsOverlap StartsAreReal ProgressArrives
PROPERTIES StoreTokenNeverBack
