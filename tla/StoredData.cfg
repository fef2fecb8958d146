SPECIFICATION MCSpec
CONSTANTS
  Artifact = {a1}
  Retention = 0
  MaxTime = 2
  MaxRecords = 2
  MaxTasks = 1
  MaxBlock = 0
  MaxFaults = 2
  i1 = i1
  i2 = i2
  c1 = c1
  c2 = c2
  gateway = gateway
  cli = cli
  Writer = {gateway, cli}
  Ingest = {cli}
  Observer = {}
  EventId = {i1, i2}
  Content = {c1, c2}
  Raw <- MCRaw
  Revision = {1}
  NoEvent = NoEvent
  MaxRequests = 5
  MaxCrashes = 1
  Reviewer = {r1, r2, r3}
  Dispute = {critical}
  Critical = {critical}
  MaxRevision = 2
  MaxEvents = 2
  MaxFailures = 1
INVARIANTS
  ChainIntact
  SnapshotSelfContained
  RowsHaveArtifacts
  RestoreAllOrNothing
  AuditVerifies
  PlanIsReviewed
PROPERTY
  CompleteKept
CHECK_DEADLOCK FALSE
