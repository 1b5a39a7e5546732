--------------------------- MODULE WithdrawContract ---------------------------
(***************************************************************************)
(* What a withdrawal promises its user, without workers, tasks or faults.  *)
(* The user's money is first held, then either paid out or given back,     *)
(* never both; the order is accepted only on held money, and it is closed  *)
(* only after the money went the way the verdict says, once and for all.   *)
(***************************************************************************)
CONSTANTS Orders

VARIABLES money,   \* order -> where the amount is
          verdict  \* order -> what the user is told

vars == <<money, verdict>>

\* The verdicts that close an order, by where its money went.
Closing == [paid |-> {"completed"}, refunded |-> {"failed", "cancelled", "rejected"}]

Init == /\ money = [w \in Orders |-> "own"]
        /\ verdict = [w \in Orders |-> "none"]

Hold(w) == /\ money[w] = "own"
           /\ money' = [money EXCEPT ![w] = "held"]
           /\ UNCHANGED verdict

Accept(w) == /\ money[w] = "held" /\ verdict[w] = "none"
             /\ verdict' = [verdict EXCEPT ![w] = "open"]
             /\ UNCHANGED money

\* Only an order the user knows of is paid; a hold may always be given back.
Pay(w) == /\ money[w] = "held" /\ verdict[w] = "open"
          /\ money' = [money EXCEPT ![w] = "paid"]
          /\ UNCHANGED verdict

Refund(w) == /\ money[w] = "held"
             /\ money' = [money EXCEPT ![w] = "refunded"]
             /\ UNCHANGED verdict

Close(w) == /\ verdict[w] = "open" /\ money[w] \in DOMAIN Closing
            /\ \E v \in Closing[money[w]] : verdict' = [verdict EXCEPT ![w] = v]
            /\ UNCHANGED money

Next == \E w \in Orders : Hold(w) \/ Accept(w) \/ Pay(w) \/ Refund(w) \/ Close(w)

Spec == Init /\ [][Next]_vars
===============================================================================
