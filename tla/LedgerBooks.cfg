SPECIFICATION Spec
CONSTANTS
  Users = {u1, u2}
  Chains = {c1}
  Assets = {a1}
  Keys = {k1, k2, k3}
  Withdrawals = {w1}
  Amounts = {1}
  Fees = {0, 1}
  MaxRaw = 2
  FinalStatuses = {"failed"}
  EditableTypes = {"SYS_WALLET_HOT"}
  FlippableTypes = {"USER_LIABILITY"}
  FlipsInUse = FALSE
  PausableAssets = {a1}
  None = None
SYMMETRY All_are_alike
INVARIANTS TypeOK TrialBalance RecordsAreBacked
PROPERTY JournalSpec
