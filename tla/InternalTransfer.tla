--------------------------- MODULE InternalTransfer ---------------------------
(***************************************************************************)
(* A transfer from one user to another inside the ledger.  The business    *)
(* service takes the order (submitInternalTransferLogic.go): an automatic  *)
(* one is booked at once, any other is frozen until an operator approves,  *)
(* rejects or cancels it in the admin service, or its owner cancels it.    *)
(*                                                                         *)
(* The business service writes the whole row of the copy it holds (gorm    *)
(* Save), without a lock; an operator's transaction holds the row lock     *)
(* over its ledger call, so that writers of the row wait for it.  Each     *)
(* ledger call and each write is a step.                                   *)
(***************************************************************************)
EXTENDS Integers, FiniteSets, Functions

CONSTANTS
  Orders,     \* transfer orders
  PayerOf, PayeeOf, \* order -> user
  Strategies, \* what the audit rules may say of an order
  AmountOf,   \* order -> raw amount
  DustOf,     \* order -> what of it lies beyond six decimals
  Funds,      \* user -> available balance to begin with
  Asset, Chain,
  FaultKinds, \* which faults may occur
  MaxFaults,  \* bound on the faults of a behaviour
  None

ASSUME TransferAssumption ==
  /\ MaxFaults \in Nat
  /\ PayerOf \in [Orders -> Range(PayerOf)] /\ PayeeOf \in [Orders -> Range(PayeeOf)]
  /\ \A o \in Orders : AmountOf[o] \in Nat \ {0} /\ DustOf[o] \in 0 .. AmountOf[o]
  /\ \A o \in Orders : PayerOf[o] # PayeeOf[o]

VARIABLES
  posted, balance, enabled, support, retired, normalSide, record, inflight, \* the ledger
  order,    \* order -> row of currency_transfer_orders, or None
  submit,   \* order -> the handler that takes it, with its copy of the row
  cancel,   \* order -> the copy its owner's cancellation has read, or None
  operator, \* order -> the operator transaction that holds its row, or None
  entry,    \* order -> statuses of its records with the payer and the payee
  torn,     \* orders whose row and bookings went different ways (history)
  faults

ledgerVars == <<posted, balance, enabled, support, retired, normalSide, record, inflight>>
vars == <<ledgerVars, order, submit, cancel, operator, entry, torn, faults>>

Users == Range(PayerOf) \cup Range(PayeeOf)
LedgerKeys == ({"transfer", "freeze", "unfreeze"} \X Orders) \cup ({"deposit"} \X Users)

L == INSTANCE AccountingLedger WITH
  Chains <- {Chain}, Assets <- {Asset}, Keys <- LedgerKeys, Withdrawals <- {},
  Amounts <- Range(AmountOf), Fees <- {}, MaxRaw <- SumFunction(Funds),
  FinalStatuses <- {}, EditableTypes <- {}, FlippableTypes <- {}, FlipsInUse <- FALSE,
  PausableAssets <- {}

Fault(kind) == kind \in FaultKinds /\ faults < MaxFaults /\ faults' = faults + 1

-------------------------------------------------------------------------------
(* Ledger calls.                                                           *)

Available(u) == L!UserKey(u, Asset, "available")
Locked(u)    == L!UserKey(u, Asset, "locked")

\* What an approval takes is the hold, if the row knows of one.
TransferFrom(o, bucket) ==
  L!Request("Transfer", None,
    L!Move(L!UserKey(PayerOf[o], Asset, bucket), Available(PayeeOf[o]), AmountOf[o]))

FreezeOf(o) ==
  L!Request("FreezeUserAssets", None, L!Move(Available(PayerOf[o]), Locked(PayerOf[o]), AmountOf[o]))

\* A refund is cut to six decimals, for the asset of any precision.
Refund(o) == AmountOf[o] - DustOf[o]

\* Rejections and cancellations share a key but not the biz ref.
UnfreezeOf(o, act) ==
  [L!Request("UnfreezeUserAssets", None,
     L!Move(Locked(PayerOf[o]), Available(PayerOf[o]), Refund(o))) EXCEPT !.biz = act]

\* What the caller learns.  An error leaves it open whether the request was booked.
Call(op, o, req, ok) ==
  LET key == <<op, o>>
  IN \/ /\ ok = L!Accepts(key, req, L!UserTypes)
        /\ L!Post(key, req, L!UserTypes, {})
        /\ UNCHANGED <<torn, faults>>
     \/ /\ ~ok /\ Fault("lost_answer")
        /\ L!Post(key, req, L!UserTypes, {})
        /\ torn' = torn \cup {o}
     \/ ~ok /\ Fault("rpc_down") /\ UNCHANGED <<ledgerVars, torn>>

-------------------------------------------------------------------------------
(* SubmitInternalTransfer.                                                 *)

\* A row of currency_transfer_orders.
RowType == [strategy : Strategies, status : {"pending", "completed", "failed", "rejected", "cancelled"},
            frozen : BOOLEAN, paid : BOOLEAN, by : {None, "payer", "operator"}]

\* Neither a row, a decision nor a request is taken for its absence.
ASSUME NoneAssumption ==
  /\ None \notin RowType \cup {"approve", "reject", "cancel"}
  /\ \A o \in Orders :
       None \notin {TransferFrom(o, "available"), TransferFrom(o, "locked"), FreezeOf(o),
                    UnfreezeOf(o, "reject"), UnfreezeOf(o, "cancel")}

NewRow(s) ==
  [strategy |-> s, status |-> "pending", frozen |-> FALSE, paid |-> FALSE, by |-> None]
Handler(pc, row) == [pc |-> pc, row |-> row]

Create(o) ==
  /\ submit[o].pc = "new"
  /\ \E s \in Strategies :
       /\ order' = [order EXCEPT ![o] = NewRow(s)]
       /\ submit' = [submit EXCEPT ![o] = Handler("call", NewRow(s))]
  /\ UNCHANGED <<ledgerVars, cancel, operator, entry, torn, faults>>

\* Mutant: the copy that is saved does not say that the amount was frozen.
Execute_ForgetsHold(o) ==
  LET row  == submit[o].row
      auto == row.strategy = "auto"
  IN /\ submit[o].pc = "call"
     /\ \E ok \in BOOLEAN :
          /\ IF auto THEN Call("transfer", o, TransferFrom(o, "available"), ok)
                     ELSE Call("freeze", o, FreezeOf(o), ok)
          /\ submit' = [submit EXCEPT ![o] = Handler("save",
               IF ~ok THEN [row EXCEPT !.status = "failed"]
               ELSE IF auto THEN [row EXCEPT !.status = "completed", !.paid = TRUE]
               ELSE row)]
     /\ UNCHANGED <<order, cancel, operator, entry>>

\* executeTransfer of an automatic order, freezeTransferAmount of any other.
Execute(o) ==
  LET row  == submit[o].row
      auto == row.strategy = "auto"
  IN /\ submit[o].pc = "call"
     /\ \E ok \in BOOLEAN :
          /\ IF auto THEN Call("transfer", o, TransferFrom(o, "available"), ok)
                     ELSE Call("freeze", o, FreezeOf(o), ok)
          /\ submit' = [submit EXCEPT ![o] = Handler("save",
               IF ~ok THEN [row EXCEPT !.status = "failed"]
               ELSE IF auto THEN [row EXCEPT !.status = "completed", !.paid = TRUE]
               ELSE [row EXCEPT !.frozen = TRUE])]
     /\ UNCHANGED <<order, cancel, operator, entry>>

\* Save writes what the handler holds over whatever the row has become.
Saved(o, row, seen) ==
  /\ operator[o] = None
  /\ order' = [order EXCEPT ![o] = row]
  /\ torn' = IF order[o] = seen THEN torn ELSE torn \cup {o}

\* A failed write of a completed order marks it failed; other errors of this
\* write are ignored.
SaveOrder(o) ==
  LET row == submit[o].row
  IN /\ submit[o].pc = "save"
     /\ \/ /\ Saved(o, row, NewRow(row.strategy))
           /\ submit' = [submit EXCEPT ![o].pc = IF row.status = "failed" THEN "done" ELSE "entry"]
           /\ UNCHANGED faults
        \/ /\ Fault("db_error")
           /\ torn' = torn \cup {o}
           /\ submit' = [submit EXCEPT ![o] =
                IF row.status = "completed" THEN Handler("save", [row EXCEPT !.status = "failed"])
                ELSE Handler(IF row.status = "failed" THEN "done" ELSE "entry", row)]
           /\ UNCHANGED order
     /\ UNCHANGED <<ledgerVars, cancel, operator, entry>>

\* Mutant: the payee is shown a transfer that waits for its approval.
WriteEntries_BothSides(o) ==
  /\ submit[o].pc = "entry"
  /\ submit' = [submit EXCEPT ![o].pc = "done"]
  /\ entry' = [entry EXCEPT ![o].payer = @ \cup {submit[o].row.status},
                            ![o].payee = {submit[o].row.status}]
  /\ UNCHANGED <<ledgerVars, order, cancel, operator, torn, faults>>

\* createInternalTransferRecords, createPendingInternalTransferRecord.
WriteEntries(o) ==
  /\ submit[o].pc = "entry"
  /\ submit' = [submit EXCEPT ![o].pc = "done"]
  /\ entry' = IF submit[o].row.status = "completed"
                THEN [entry EXCEPT ![o].payer = @ \cup {"completed"}, ![o].payee = {"completed"}]
                ELSE [entry EXCEPT ![o].payer = @ \cup {"pending"}]
  /\ UNCHANGED <<ledgerVars, order, cancel, operator, torn, faults>>

\* The business service dies with the handler.
SubmitCrash(o) ==
  /\ submit[o].pc \in {"call", "save", "entry"}
  /\ Fault("crash")
  /\ submit' = [submit EXCEPT ![o].pc = "done"]
  /\ torn' = torn \cup {o}
  /\ UNCHANGED <<ledgerVars, order, cancel, operator, entry>>

Submit(o) == Create(o) \/ Execute(o) \/ SaveOrder(o) \/ WriteEntries(o)

-------------------------------------------------------------------------------
(* CancelInternalTransfer of the business service, by the payer.           *)

CancelRead(o) ==
  /\ cancel[o] = None
  /\ order[o] # None /\ order[o].status = "pending"
  /\ cancel' = [cancel EXCEPT ![o] = order[o]]
  /\ UNCHANGED <<ledgerVars, order, submit, operator, entry, torn, faults>>

\* The hold and the records are left as they are.
CancelSave(o) ==
  /\ cancel[o] # None
  /\ Saved(o, [cancel[o] EXCEPT !.status = "cancelled", !.by = "payer"], cancel[o])
  /\ cancel' = [cancel EXCEPT ![o] = None]
  /\ UNCHANGED <<ledgerVars, submit, operator, entry, faults>>

-------------------------------------------------------------------------------
(* The operators: the call under the row lock, then the end of the            *)
(* transaction.  A call that fails rolls back, the status "failed" with it.   *)

\* Mutant: the status is not looked at again under the row lock.
Undecided_AnyStatus(o, act) ==
  /\ operator[o] = None /\ order[o] # None
  /\ act = "approve" => order[o].strategy = "manual_auto"

Undecided(o, act) ==
  /\ operator[o] = None /\ order[o] # None
  /\ \/ order[o].status = "pending"
     \/ act = "cancel" /\ order[o].status = "processing"
  /\ act = "approve" => order[o].strategy = "manual_auto"

\* Mutant: the answer of the ledger is not looked at.
Decide_Regardless(o, act) ==
  /\ Undecided(o, act)
  /\ \E ok \in BOOLEAN :
       IF act = "approve"
         THEN Call("transfer", o,
                   TransferFrom(o, IF order[o].frozen THEN "locked" ELSE "available"), ok)
       ELSE IF order[o].frozen THEN Call("unfreeze", o, UnfreezeOf(o, act), ok)
       ELSE ok /\ UNCHANGED <<ledgerVars, torn, faults>>
  /\ operator' = [operator EXCEPT ![o] = act]
  /\ UNCHANGED <<order, submit, cancel, entry>>

Decide(o, act) ==
  /\ Undecided(o, act)
  /\ \E ok \in BOOLEAN :
       /\ IF act = "approve"
            THEN Call("transfer", o,
                      TransferFrom(o, IF order[o].frozen THEN "locked" ELSE "available"), ok)
          ELSE IF order[o].frozen THEN Call("unfreeze", o, UnfreezeOf(o, act), ok)
          ELSE ok /\ UNCHANGED <<ledgerVars, torn, faults>>
       /\ operator' = IF ok THEN [operator EXCEPT ![o] = act] ELSE operator
  /\ UNCHANGED <<order, submit, cancel, entry>>

Decided(act) == CASE act = "approve" -> "completed" [] act = "reject" -> "rejected"
                  [] act = "cancel" -> "cancelled"

\* UpdateStatusByIdempotencyKey and, for an approval, what is missing is created.
Restated(o, act) ==
  CASE act = "approve" -> [payer |-> {"completed"}, payee |-> {"completed"}]
    [] OTHER -> [entry[o] EXCEPT !.payer = IF @ = {} THEN {} ELSE {Decided(act)}]

\* Only a rejection writes the records in the transaction that may roll back.
Close(o) ==
  LET act == operator[o]
  IN /\ act # None
     /\ operator' = [operator EXCEPT ![o] = None]
     /\ \/ /\ order' = [order EXCEPT ![o].status = Decided(act), ![o].by = "operator",
                                     ![o].paid = @ \/ act = "approve"]
           /\ entry' = [entry EXCEPT ![o] = Restated(o, act)]
           /\ UNCHANGED <<torn, faults>>
        \/ /\ Fault("rollback")
           /\ torn' = torn \cup {o}
           /\ entry' = IF act = "reject" THEN entry ELSE [entry EXCEPT ![o] = Restated(o, act)]
           /\ UNCHANGED order
     /\ UNCHANGED <<ledgerVars, submit, cancel>>

-------------------------------------------------------------------------------
Init ==
  /\ posted = [k \in LedgerKeys |->
       IF k[1] = "deposit" THEN L!DepositRequest(k[2], Asset, Chain, Funds[k[2]]) ELSE None]
  /\ balance = [k \in L!BalanceKey |->
       IF k = L!SystemKey(L!HotAccount(Chain), Asset) THEN SumFunction(Funds)
       ELSE IF k \in {Available(u) : u \in Users} THEN Funds[k[1][2]]
       ELSE 0]
  /\ enabled = {Asset}
  /\ support = L!AccountTypes \X {Asset}
  /\ retired = {}
  /\ normalSide = [t \in L!AccountTypes |-> L!InitialSide(t)]
  /\ record = [k \in LedgerKeys |-> None]
  /\ inflight = {}
  /\ order = [o \in Orders |-> None]
  /\ submit = [o \in Orders |-> Handler("new", None)]
  /\ cancel = [o \in Orders |-> None]
  /\ operator = [o \in Orders |-> None]
  /\ entry = [o \in Orders |-> [payer |-> {}, payee |-> {}]]
  /\ torn = {}
  /\ faults = 0

OrderStep(o) ==
  \/ Submit(o) \/ SubmitCrash(o) \/ CancelRead(o) \/ CancelSave(o) \/ Close(o)
  \/ \E act \in {"approve", "reject", "cancel"} : Decide(o, act)

Next == \E o \in Orders : OrderStep(o)

Spec == Init /\ [][Next]_vars

-------------------------------------------------------------------------------
(* Properties.                                                             *)

\* The tables and the handlers' copies have their types, the payee has a record
\* only of a completed transfer, and no transfer is held and paid for at once
\* by a handler of the business service.
TypeOK ==
  /\ order \in [Orders -> RowType \cup {None}]
  /\ cancel \in [Orders -> RowType \cup {None}]
  /\ operator \in [Orders -> {None, "approve", "reject", "cancel"}]
  /\ \A o \in Orders :
       /\ submit[o].pc \in {"new", "call", "save", "entry", "done"}
       /\ submit[o].pc # "new" =>
            submit[o].row \in RowType /\ ~(submit[o].row.frozen /\ submit[o].row.paid)
       /\ entry[o].payee \subseteq {"completed"}
  /\ torn \subseteq Orders /\ faults \in 0 .. MaxFaults

Moved(op, o) == posted[<<op, o>>] # None

\* What the payee is shown and what the order claims is in the ledger: no row
\* or record says completed without the transfer, whoever wrote it last.
CompletedIsPaid ==
  \A o \in Orders :
    (order[o] # None /\ (order[o].status = "completed" \/ order[o].paid)) \/ entry[o].payee # {}
      => Moved("transfer", o)

\* What has become of the hold and of the money, by the state of the order.
Accounted(o) ==
  CASE order[o].status = "pending" ->
         Moved("freeze", o) /\ ~Moved("unfreeze", o) /\ ~Moved("transfer", o)
    [] order[o].status = "completed" -> ~Moved("unfreeze", o)
    [] order[o].status = "failed" -> ~Moved("freeze", o) /\ ~Moved("transfer", o)
    [] OTHER -> /\ ~Moved("transfer", o)
                /\ Moved("unfreeze", o) <=> Moved("freeze", o) /\ order[o].by = "operator"

Quiet(o) == submit[o].pc \in {"entry", "done"} /\ order[o] # None /\ operator[o] = None

\* Row and bookings agree: an open order is held and nothing else, a completed
\* one is paid and not refunded, a failed one moved nothing, one the operators
\* refused was refunded and not paid.  It holds of every order that no fault and
\* no overwritten row has torn, except that nobody returns the hold of an order
\* its payer cancelled.
OrdersAreAccounted == \A o \in Orders \ torn : Quiet(o) => Accounted(o)

\* What an order still holds: an approval takes all of it, a refund all but the dust.
Held(o) ==
  IF ~Moved("freeze", o) \/ posted[<<"transfer", o>>] = TransferFrom(o, "locked") THEN 0
  ELSE IF Moved("unfreeze", o) THEN DustOf[o] ELSE AmountOf[o]

\* Holds do not pay for each other (approve and reject race for one order, the
\* locked bucket is one per user): while nothing is torn, each hold is spent once,
\* and the locked balance of a user is the sum of what the orders still hold, the
\* dust of refunds and the holds of orders the user cancelled among it.
LockedIsHeld ==
  torn = {} => \A u \in Users :
    balance[Locked(u)] = SumFunctionOnSet([o \in Orders |-> Held(o)],
                                          {o \in Orders : PayerOf[o] = u})
===============================================================================
