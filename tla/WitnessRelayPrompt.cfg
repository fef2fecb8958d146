SPECIFICATION FairSpec
CONSTANTS
  a1 = a1
  a2 = a2
  b = b
  c1 = c1
  ida = ida
  idb = idb
  idc = idc
  na = na
  nb = nb
  Task = {a1, b}
  TaskId = {ida, idb}
  Nonce = {na, nb}
  idOf <- MCIdOf
  nonceOf <- MCNonceOf
  Expirable = {}
  DropAckOnce = {ida}
  NoTask = NoTask
  NoReceipt = NoReceipt
  Expected = 2
  Reconnect = 2
  PromptClose = TRUE
  SlowRelay = FALSE
  MaxConn = 3
  MaxProcs = 1
  MaxRuns = 2
  MaxFaults = 1
  MaxRestores = 0
INVARIANTS
  NoAbort
  DoneIsConfirmed
PROPERTIES
  SessionSucceeds
CHECK_DEADLOCK FALSE
