SPECIFICATION Spec
CONSTANTS
  Orders = {w1, w2}
  Workers = {v1, v2}
  User = u1
  ManualAuto = {w1}
  ManualManual = {w2}
  UserOf <- MC_UserOf
  StrategyOf <- MC_StrategyOf
  AmountOf <- MC_AmountOf
  FeeOf <- MC_FeeOf
  Funds <- MC_Funds
  Asset = a1
  Chain = "tron"
  Precision = 6
  MaxAttempts = 2
  AdminOps = {"approve", "cancel", "reject", "complete", "sethash"}
  FaultKinds = {}
  MaxFaults = 0
  MaxTransfers = 2
  None = None
SYMMETRY WorkersAlike
INVARIANTS OneLiveTransfer LockedIsHeld ProcessingIsHeld
PROPERTY ContractSpec
CHECK_DEADLOCK FALSE
