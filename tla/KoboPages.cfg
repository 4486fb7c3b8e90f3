SPECIFICATION PagesSpec
CONSTANTS
  Books = {b1, b2, b3}
  Shelves = {s1}
  Readable = {b1, b2, b3}
  Editors = {e1, e2}
  Syncs = {q1}
  Ops <- AllOps
  Gap = 2
  Second = 2
  Limit = 2
  MaxEdits = 2
  MaxDeaths = 1
  MaxLosses = 0
  b1 = b1 b2 = b2 b3 = b3 s1 = s1 s2 = s2 e1 = e1 e2 = e2 q1 = q1 q2 = q2
CHECK_DEADLOCK FALSE
INVARIANTS ShowsOnlyOffered SecondRowNeedsRace
PROPERTIES PagesAdvance
