SPECIFICATION SyncFairSpec
CONSTANTS
  x1 = x1  x2 = x2
  t1 = t1  t2 = t2
  a1 = a1
  Txs = {x1, x2}
  Transfers = {t1, t2}
  Addresses = {a1}
  TxOf <- MC_TxOf
  AddressOf <- MC_AddressOf
  Reverted = {x2}
  Relevant = {x1, x2}
  Required = 1
  Lookback = 1
  BatchSize = 2
  MaxRetries = 1
  QueueRetries = 1
  BatchRetries = 1
  MaxHead = 4
  FaultKinds = {"reorg", "cursor_read", "no_logs", "null_block", "cursor_write", "scan_error", "receipt_error",
    "send_error", "send_unknown", "mark_error", "week", "crash"}
  MaxFaults = 2
  None = None
INVARIANTS SyncTypeOK PublishedIsFinal ScannedIsStored
PROPERTIES FinalIsPublished
CHECK_DEADLOCK FALSE
