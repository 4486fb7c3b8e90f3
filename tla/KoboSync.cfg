SPECIFICATION TurnsSpec
CONSTANTS
  Books = {b1, b2}
  Shelves = {s1, s2}
  Readable = {b1, b2}
  Editors = {e1}
  Syncs = {q1}
  Ops <- LibraryOps
  Gap = 1
  Second = 2
  Limit = 1
  MaxEdits = 2
  MaxDeaths = 0
  MaxLosses = 1
  b1 = b1 b2 = b2 b3 = b3 s1 = s1 s2 = s2 e1 = e1 e2 = e2 q1 = q1 q2 = q2
SYMMETRY Symmetries
CONSTRAINT TakingTurns
CHECK_DEADLOCK FALSE
INVARIANTS NewBooksArrive RestoresArrive RemovedBooksGo TagsAreCurrent
