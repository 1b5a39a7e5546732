SPECIFICATION FairSpec
CONSTANTS
  x1 = x1  x2 = x2
  t1 = t1  t2 = t2  t3 = t3  t4 = t4
  a1 = a1
  u1 = u1
  Txs = {x1, x2}
  Transfers = {t1, t2, t3, t4}
  Addresses = {a1}
  TxOf <- MC_TxOf
  AddressOf <- MC_AddressOf
  AmountOf <- MC_AmountOf
  OwnerOf <- MC_OwnerOf
  Reverted = {}
  Relevant = {x1, x2}
  Ignored = {t4}
  Consumers = {c1, c2}
  Company = Company
  Asset = a
  Chain = c
  Required = 1
  Lookback = 0
  BatchSize = 1
  MaxRetries = 0
  QueueRetries = 1
  BatchRetries = 0
  MaxHead = 3
  FaultKinds = {"send_unknown",
    "rebalance", "consumer_crash", "lost_answer", "rpc_down", "db_error"}
  MaxFaults = 1
  None = None
INVARIANTS TypeOK ShownIsBooked AddressBalanceIsBacked RefusedHasSibling
PROPERTIES ContractSpec FinalIsCredited
CHECK_DEADLOCK FALSE
