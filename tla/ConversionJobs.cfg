SPECIFICATION SafeSpec
CONSTANTS
  epub = epub
  kepub = kepub
  user = user
  kobo = kobo
  w1 = w1
  w2 = w2
  Unsupported = Unsupported
  NoFile = NoFile
  NoJob = NoJob
  Keys = {epub, kepub}
  Uploaded = {epub}
  Jobs = {user, kobo}
  KoboJobs = {kobo}
  Workers = {w1, w2}
  Source <- PairSource
  Target <- PairTarget
  MaxDeliveries = 2
  RunTimeout = 0
  StaleWindow = 1
  MaxReads = 0
SYMMETRY WorkerSymmetry
CONSTRAINT OneMismatch
INVARIANTS DoneJobDelivers ListedFileStored
PROPERTIES LifecycleSafe
CHECK_DEADLOCK FALSE
