SPECIFICATION FairSpec
CONSTANTS
  Launch = {core, quick, rival}
  Core = {core, rival}
  Reused = {rival}
  MaxFaults = 1
  CoreLab = core
  TunnelLab = quick
INVARIANTS
  OneLab
  SafeResultsHold
  PostflightHolds
PROPERTIES
  RunEnds
CHECK_DEADLOCK FALSE
