SPECIFICATION Spec
CONSTANTS
  o1 = o1  o2 = o2
  u1 = u1  u2 = u2
  Orders = {o1, o2}
  PayerOf <- MC_PayerOf
  PayeeOf <- MC_PayeeOf
  Strategies = {"auto", "manual_auto", "manual"}
  AmountOf <- MC_AmountOf
  DustOf <- MC_DustOf
  Funds <- MC_Funds
  Asset = a
  Chain = c
  FaultKinds = {"lost_answer", "rpc_down", "db_error", "crash", "rollback"}
  MaxFaults = 2
  None = None
INVARIANTS TypeOK CompletedIsPaid OrdersAreAccounted LockedIsHeld
CHECK_DEADLOCK FALSE
