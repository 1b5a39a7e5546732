---------------------------- MODULE DepositContract ----------------------------
(***************************************************************************)
(* What the deposit path promises: a transfer becomes final on the chain   *)
(* first and is credited afterwards, at most one transfer per transaction  *)
(* (the ledger's key is the transaction hash), and neither is taken back.  *)
(***************************************************************************)
CONSTANTS Transfers, TxOf

VARIABLES
  final,   \* transfers the chain can no longer take back
  credited \* transfers the owner's balance contains

vars == <<final, credited>>

Init == final = {} /\ credited = {}

Finalise ==
  /\ \E T \in SUBSET (Transfers \ final) : T # {} /\ final' = final \cup T
  /\ UNCHANGED credited

Credit(t) ==
  /\ t \in final
  /\ \A s \in credited : TxOf[s] # TxOf[t]
  /\ credited' = credited \cup {t}
  /\ UNCHANGED final

Next == Finalise \/ \E t \in Transfers : Credit(t)
Spec == Init /\ [][Next]_vars
===============================================================================
