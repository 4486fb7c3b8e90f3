SPECIFICATION SafeSpec
CONSTANTS
  first = first
  second = second
  w1 = w1
  w2 = w2
  epub = epub
  kepub = kepub
  NoJob = NoJob
  Jobs = {first, second}
  Workers = {w1, w2}
  Files = {epub}
  MaxDeliveries = 1
SYMMETRY WorkerSymmetry
INVARIANTS ReadyIsFresh DoneMeansSynced LockedFileIsOwned
PROPERTIES LifecycleSafe
CHECK_DEADLOCK FALSE
