---------------------------- MODULE MCTransferBatch ----------------------------
(* A small instance of TransferBatch for TLC: three items, two of them of one *)
(* user, and two replicas.                                                     *)
EXTENDS TransferBatch, TLC

CONSTANTS i1, i2, i3, u1, u2

MC_UserOf   == i1 :> u1 @@ i2 :> u1 @@ i3 :> u2
MC_AmountOf == i1 :> 1 @@ i2 :> 2 @@ i3 :> 1
===============================================================================
