SPECIFICATION FairSpec
CONSTANTS
  Orders = {w1, w2}
  Workers = {v1, v2}
  User = u1
  ManualAuto = {}
  ManualManual = {}
  UserOf <- MC_UserOf
  StrategyOf <- MC_StrategyOf
  AmountOf <- MC_AmountOf
  FeeOf <- MC_FeeOf
  Funds <- MC_Funds
  Asset = a1
  Chain = "tron"
  Precision = 6
  MaxAttempts = 2
  AdminOps = {}
  FaultKinds = {"lost_answer"}
  MaxFaults = 1
  MaxTransfers = 0
  None = None
INVARIANT ConfirmedIsCharged
PROPERTY ContractSpec AutoOrdersClose
CHECK_DEADLOCK FALSE
