SPECIFICATION Spec
CONSTANTS
  p1 = p1
  c1 = c1
  c2 = c2
  a1 = a1
  Sweeper = Sweeper
  NoBook = NoBook
  Completes = {c1, c2}
  Aborts = {a1}
  Parts = {p1}
INVARIANTS OneBookPerUpload SuccessHasBook BooksAreWhole SettledLeavesNothing
PROPERTIES LifecycleSafe SettlesForGood
CHECK_DEADLOCK FALSE
