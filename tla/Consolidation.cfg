SPECIFICATION FairSpec
CONSTANTS
  i1 = i1  e1 = e1  k1 = k1  p1 = p1  v1 = v1
  Executors = {e1}
  Trackers = {k1}
  TopUppers = {p1}
  Verifiers = {v1}
  Instances = {i1}
  InstanceOf <- MC_InstanceOf
  MaxTasks = 2
  MaxRetries = 1
  EvmMaxBumps = 1
  MaxTopUpAttempts = 2
  MaxNativeSpend = 1
  Events = {"rpc_error", "gas_price", "db_read", "db_error", "send_error", "send_unknown", "crash", "lease_lapse", "reorg", "gas_rise", "revert", "cancel", "retry", "deposit"}
  MaxEvents = 1
  None = None
INVARIANTS TypeOK ConfirmedIsSwept RetriesAreBounded
PROPERTY TaskEnds
CHECK_DEADLOCK FALSE
