SPECIFICATION Spec
CONSTANTS
  a1 = a1
  a2 = a2
  b = b
  c1 = c1
  ida = ida
  idb = idb
  idc = idc
  na = na
  nb = nb
  Task = {a1, a2, b}
  TaskId = {ida, idb}
  Nonce = {na, nb}
  idOf <- MCIdOf
  nonceOf <- MCNonceOf
  Expirable = {b}
  DropAckOnce = {}
  NoTask = NoTask
  NoReceipt = NoReceipt
  Expected = 2
  Reconnect = 1
  PromptClose = FALSE
  SlowRelay = TRUE
  MaxConn = 2
  MaxProcs = 2
  MaxRuns = 2
  MaxFaults = 0
  MaxRestores = 1
INVARIANTS
  ReceiptsAgree
  ReceiptBelongsToTask
PROPERTIES
  JournalFinal
  ImplementsReceipts
CHECK_DEADLOCK FALSE
