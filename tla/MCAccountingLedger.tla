-------------------------- MODULE MCAccountingLedger --------------------------
(* Small instances of AccountingLedger for TLC. *)
EXTENDS AccountingLedger, TLC

All_are_alike == Permutations(Users) \cup Permutations(Keys) \cup Permutations(Withdrawals)
===============================================================================
