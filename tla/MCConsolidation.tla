---- MODULE MCConsolidation ----
(* One worker of each kind, all of one instance: a claim, which names the   *)
(* instance only, does not tell them apart.                                 *)
EXTENDS Consolidation

CONSTANTS i1, e1, k1, p1, v1

MC_InstanceOf == [w \in Workers |-> i1]
====
