SPECIFICATION Spec
CONSTANTS
  Orders = {w1}
  Workers = {v1}
  User = u1
  ManualAuto = {}
  ManualManual = {}
  UserOf <- MC_UserOf
  StrategyOf <- MC_StrategyOf
  AmountOf <- MC_AmountOf
  FeeOf <- MC_FeeOf
  Funds <- MC_Funds
  Asset = a1
  Chain = "ethereum"
  Precision = 6
  MaxAttempts = 2
  AdminOps = {}
  FaultKinds = {"crash"}
  MaxFaults = 1
  MaxTransfers = 0
  None = None
INVARIANTS ConfirmedIsCharged
CHECK_DEADLOCK FALSE
