SPECIFICATION Spec
CONSTANTS
  Orders = {w1}
  Workers = {v1, v2}
  User = u1
  ManualAuto = {w1}
  ManualManual = {}
  UserOf <- MC_UserOf
  StrategyOf <- MC_StrategyOf
  AmountOf <- MC_AmountOf
  FeeOf <- MC_FeeOf
  Funds <- MC_Funds
  Asset = a1
  Chain = "ethereum"
  Precision = 2
  MaxAttempts = 2
  AdminOps = {"approve", "cancel", "fail"}
  FaultKinds = {"lost_answer", "rpc_down", "db_write", "crash", "lost_hash", "lease_lapse", "commit_unknown", "rollback", "event_read"}
  MaxFaults = 2
  MaxTransfers = 0
  None = None
SYMMETRY Alike
INVARIANTS TypeOK SettledIsMined
CHECK_DEADLOCK FALSE
