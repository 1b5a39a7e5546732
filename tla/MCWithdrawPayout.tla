--------------------------- MODULE MCWithdrawPayout ---------------------------
(* Small instances of WithdrawPayout for TLC: withdrawals of the same amount *)
(* and fee by one user whose funds cover all of them.                        *)
EXTENDS WithdrawPayout, TLC

CONSTANTS User, ManualAuto, ManualManual  \* the orders of each manual strategy

MC_UserOf   == [w \in Orders |-> User]
MC_AmountOf == [w \in Orders |-> 2]
MC_FeeOf    == [w \in Orders |-> 1]
MC_Funds    == User :> 2 * Cardinality(Orders)

MC_StrategyOf ==
  [w \in Orders |-> IF w \in ManualAuto THEN "manual_auto"
                    ELSE IF w \in ManualManual THEN "manual_manual" ELSE "auto"]

\* Sound where all orders have the same strategy.
Alike == Permutations(Orders) \cup Permutations(Workers)
WorkersAlike == Permutations(Workers)
===============================================================================
