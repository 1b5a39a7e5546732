-------------------------- MODULE MCInternalTransfer --------------------------
(* A small instance of InternalTransfer for TLC: two orders of one payer, of   *)
(* any strategy, one with dust; each can be paid from the other's hold, and the *)
(* payer's money does not suffice for both.                                    *)
EXTENDS InternalTransfer, TLC

CONSTANTS o1, o2, u1, u2

MC_PayerOf  == o1 :> u1 @@ o2 :> u1
MC_PayeeOf  == o1 :> u2 @@ o2 :> u2
MC_AmountOf == o1 :> 2 @@ o2 :> 3
MC_DustOf   == o1 :> 0 @@ o2 :> 1
MC_Funds    == u1 :> 5 @@ u2 :> 1
===============================================================================
