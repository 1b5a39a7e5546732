SPECIFICATION FairSpec
CONSTANTS
  i1 = i1  i2 = i2  i3 = i3
  u1 = u1  u2 = u2
  Items = {i1, i2, i3}
  Workers = {w1, w2}
  UserOf <- MC_UserOf
  AmountOf <- MC_AmountOf
  MaxRetries = 1
  Asset = a
  Chain = c
  FaultKinds = {"lost_answer", "rpc_down", "db_error", "crash", "lease_lapse"}
  MaxFaults = 2
  None = None
INVARIANTS TypeOK ItemsArePaidOnce CreditNeedsExecution CompletedIsPaid
PROPERTIES ItemsEnd
CHECK_DEADLOCK FALSE
