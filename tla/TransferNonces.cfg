SPECIFICATION FairSpec
CONSTANTS
  Natives = {}
  Tokens = {k1}
  Items = {b1, b2}
  TopUps = {g1}
  MaxConcurrency = 1
  MaxNonce = 4
  FaultKinds = {"ttl", "nonce_error", "gas_price", "estimate_error", "sign_error", "send_error", "send_unknown", "drop", "crash"}
  MaxFaults = 2
  None = None
INVARIANTS TypeOK NoncesAreUnique NoGaps
PROPERTY RequestsEnd
CHECK_DEADLOCK FALSE
