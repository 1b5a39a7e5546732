---------------------------- MODULE PostingJournal ----------------------------
(***************************************************************************)
(* What the accounting service promises its callers, and nothing else.     *)
(* Under every idempotency key at most one request is ever booked, it is   *)
(* never changed afterwards, it is balanced, and the book of net debits    *)
(* moves by exactly that request.  The detailed ledger (AccountingLedger)  *)
(* is shown to implement this module.                                      *)
(***************************************************************************)
EXTENDS Integers, Functions

CONSTANTS Keys,        \* idempotency keys
          BalanceKey,  \* <<account, asset, bucket>>
          None         \* "no request under this key"

VARIABLES journal,     \* key -> the request booked under it, or None
          book         \* balance key -> total debits minus total credits

vars == <<journal, book>>

\* The balance keys of asset a in a set of them.
OfAsset(S, a) == {k \in S : k[2] = a}

\* Debits equal credits, asset by asset; net[k] > 0 is a debit, < 0 a credit.
Balanced(net) ==
  \A k \in DOMAIN net : SumFunctionOnSet(net, OfAsset(DOMAIN net, k[2])) = 0

Init == /\ journal = [k \in Keys |-> None]
        /\ book = [k \in BalanceKey |-> 0]

\* Book one balanced request under a free key.
Book(key) ==
  /\ journal[key] = None
  /\ \E r \in {journal'[key]} :
        /\ r # None
        /\ DOMAIN r.net \subseteq BalanceKey
        /\ Balanced(r.net)
        /\ journal' = [journal EXCEPT ![key] = r]
        /\ book' = [k \in BalanceKey |->
                      IF k \in DOMAIN r.net THEN book[k] + r.net[k] ELSE book[k]]

Next == \E key \in Keys : Book(key)

Spec == Init /\ [][Next]_vars
===============================================================================
