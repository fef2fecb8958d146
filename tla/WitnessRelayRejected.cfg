SPECIFICATION Spec
CONSTANTS
  a1 = a1
  a2 = a2
  b = b
  c1 = c1
  ida = ida
  idb = idb
  idc = idc
  na = na
  nb = nb
  Task = {a1, b}
  TaskId = {ida, idb}
  Nonce = {na, nb}
  idOf <- MCIdOf
  nonceOf <- MCNonceOf
  Expirable = {}
  DropAckOnce = {}
  NoTask = NoTask
  NoReceipt = NoReceipt
  Expected = 2
  Reconnect = 1
  PromptClose = TRUE
  SlowRelay = FALSE
  MaxConn = 2
  MaxProcs = 1
  MaxRuns = 2
  MaxFaults = 1
  MaxRestores = 0
INVARIANT RejectedIsCounted
CHECK_DEADLOCK FALSE
