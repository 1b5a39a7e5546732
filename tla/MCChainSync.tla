----------------------------- MODULE MCChainSync -----------------------------
(* A small instance of ChainSync for TLC: a transaction that pays a monitored *)
(* address, and one that the chain reverts.                                   *)
EXTENDS ChainSync, TLC

CONSTANTS x1, x2, t1, t2, a1

MC_TxOf      == t1 :> x1 @@ t2 :> x2
MC_AddressOf == [t \in Transfers |-> a1]
===============================================================================
