SPECIFICATION Spec
CONSTANTS
  epub = epub
  kepub = kepub
  user = user
  kobo = kobo
  w1 = w1
  w2 = w2
  Unsupported = Unsupported
  NoFile = NoFile
  NoJob = NoJob
  Keys = {epub, kepub}
  Uploaded = {epub}
  Jobs = {user, kobo}
  KoboJobs = {kobo}
  Workers = {w1}
  Source <- PairSource
  Target <- MixedTarget
  MaxDeliveries = 2
  RunTimeout = 1
  StaleWindow = 2
  MaxReads = 1
INVARIANTS SweepSparesLiveRuns
PROPERTIES SettlesForGood
CHECK_DEADLOCK FALSE
