-------------------------- MODULE MCDepositPipeline --------------------------
(* A small instance of DepositPipeline for TLC: a transaction that pays an   *)
(* address twice, and one that pays it once and once by a transfer the       *)
(* consumer ignores.                                                         *)
EXTENDS DepositPipeline

CONSTANTS x1, x2, t1, t2, t3, t4, a1, u1

MC_TxOf      == t1 :> x1 @@ t2 :> x1 @@ t3 :> x2 @@ t4 :> x2
MC_AddressOf == [t \in Transfers |-> a1]
MC_AmountOf  == t1 :> 1 @@ t2 :> 2 @@ t3 :> 1 @@ t4 :> 2
MC_OwnerOf   == a1 :> u1
===============================================================================
