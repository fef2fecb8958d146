SPECIFICATION MCFairSpec
CONSTANTS
  Active = {n1, n2}
  Delayed = n3
  Observer = {o1}
  EventCount = 2
  Reconnect = 3
  MaxFailures = 1
  Launcher = {l1, l2}
  Reader = {r1}
  foreground = foreground
  nobody = nobody
  Dep = {d1, d2}
  NoDep = nodep
  Child = {p1, p2}
  SoakWorker = soakworker
  Lease = 1
  Duration = 1
  MaxTime = 2
  MaxSoakFaults = 1
  MaxEdits = 1
  MaxKills = 2
  MaxChanges = 2
  MaxExposureFaults = 1
  MaxTroubles = 2
INVARIANTS
  TranscriptIsTrue
  NothingLost
  NothingLeftRunning
  PassedIsReal
  VerifiedIsBuilt
  StoppedIsRestored
  AcceptanceHolds
PROPERTIES
  OutcomeStays
  TreeSurvives
  OperationsEnd
CHECK_DEADLOCK FALSE
