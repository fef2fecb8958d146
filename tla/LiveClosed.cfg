SPECIFICATION Spec
CONSTANTS
  i1 = i1
  i2 = i2
  c1 = c1
  c2 = c2
  gateway = gateway
  cli = cli
  Writer = {gateway, cli}
  Ingest = {cli}
  Observer = {}
  EventId = {i1, i2}
  Content = {c1, c2}
  Raw <- MCTyped
  Revision = {1}
  NoEvent = NoEvent
  MaxRequests = 3
  MaxCrashes = 0
PROPERTY ClosedIsTerminal
CHECK_DEADLOCK FALSE
