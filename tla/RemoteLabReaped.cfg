SPECIFICATION LabSpec
CONSTANTS
  Launch = {core, quick, rival}
  Core = {core, rival}
  Reused = {rival}
  MaxFaults = 1
  CoreLab = core
  TunnelLab = quick
INVARIANT NodesVerified
CHECK_DEADLOCK FALSE
