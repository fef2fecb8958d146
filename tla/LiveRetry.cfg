SPECIFICATION Spec
CONSTANTS
  i1 = i1
  i2 = i2
  c1 = c1
  c2 = c2
  gateway = gateway
  cli = cli
  Writer = {gateway}
  Ingest = {}
  Observer = {}
  EventId = {i1, i2}
  Content = {c1, c2}
  Raw <- MCUntyped
  Revision = {1}
  NoEvent = NoEvent
  MaxRequests = 2
  MaxCrashes = 0
INVARIANT RetryAccepted
CHECK_DEADLOCK FALSE
