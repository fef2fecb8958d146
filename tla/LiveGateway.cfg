SPECIFICATION FairSpec
CONSTANTS
  i1 = i1
  i2 = i2
  c1 = c1
  c2 = c2
  gateway = gateway
  cli = cli
  Writer = {gateway}
  Ingest = {}
  Observer = {observer}
  EventId = {i1, i2}
  Content = {c1, c2}
  Raw <- MCTyped
  Revision = {1, 2}
  NoEvent = NoEvent
  MaxRequests = 7
  MaxCrashes = 2
INVARIANTS
  ObserversAgree
  ArtifactsStored
PROPERTIES
  ObserversReport
  ImplementsEventLog
CHECK_DEADLOCK FALSE
