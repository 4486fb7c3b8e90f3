SPECIFICATION MCSpec
CONSTANTS
  f1 = f1 f2 = f2 f3 = f3 c1 = c1 c2 = c2 c3 = c3 m1 = m1
  Uploads = {f1, f2, f3}
  Conversions = {c1, c2, c3}
  Metadata = {m1}
  Others = {c2, f3}
  Limit <- MCLimit
  Parts <- MCParts
  Concurrency = 2
  MaxAttempts = 2
  MaxFaults = 2
INVARIANTS CompleteSendsAll ToastsAreNews
PROPERTIES UploadsAreTold ComesToRest
CHECK_DEADLOCK FALSE
