SPECIFICATION Spec
CONSTANTS
  first = first
  second = second
  w1 = w1
  w2 = w2
  epub = epub
  kepub = kepub
  NoJob = NoJob
  Jobs = {first}
  Workers = {w1}
  Files = {epub, kepub}
  MaxDeliveries = 2
INVARIANTS DoneMeansSynced
PROPERTIES SettlesForGood FilesSettle
CHECK_DEADLOCK FALSE
