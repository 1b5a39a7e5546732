---------------------------- MODULE WithdrawPayout ----------------------------
(***************************************************************************)
(* The life of a withdrawal, from CreateWithdraw in the business service   *)
(* over the operators' decisions in the admin service to the payout worker *)
(* (withdraw_payout_worker.go) that broadcasts, confirms and settles it.   *)
(*                                                                         *)
(* The three share the order and task tables and call the accounting       *)
(* ledger (AccountingLedger, instantiated as L) and the chain service.     *)
(* Every remote call and every database statement is a step of its own;    *)
(* a database transaction is one step, but the ledger calls an operator's  *)
(* transaction makes while it holds the order's row lock are not part of   *)
(* it.  A task may be due at any time: back-off delays are left out.       *)
(***************************************************************************)
EXTENDS Integers, Sequences, FiniteSets, Functions

CONSTANTS
  Orders,       \* withdrawal ids
  Workers,      \* payout workers, one per replica of the business service
  UserOf,       \* order -> user
  StrategyOf,   \* order -> "auto", "manual_auto" or "manual_manual"
  AmountOf,     \* order -> raw amount
  FeeOf,        \* order -> raw fee, deducted from the amount
  Funds,        \* user -> available balance to begin with
  Asset,
  Chain,        \* "tron", or the name of an EVM chain
  Precision,    \* decimals of the asset
  MaxAttempts,  \* max_broadcast_attempts
  AdminOps,     \* what operators do to orders
  FaultKinds,   \* which faults may occur
  MaxFaults,    \* bound on the faults of a behaviour
  MaxTransfers, \* bound on the transfers an operator sends for an order
  None

ASSUME PayoutAssumption ==
  /\ MaxAttempts \in Nat \ {0}
  /\ MaxFaults \in Nat /\ Precision \in Nat
  /\ \A w \in Orders : FeeOf[w] \in Nat /\ AmountOf[w] \in Nat /\ FeeOf[w] < AmountOf[w]
  /\ Funds \in [{UserOf[w] : w \in Orders} -> Nat]

VARIABLES
  posted, balance, enabled, support, retired, normalSide, record, inflight, \* the ledger
  creator, \* order -> where CreateWithdraw stands
  order,   \* order -> row of currency_withdraw_orders, or None
  task,    \* order -> row of the payout task table, or None
  lock,    \* order -> lock_owner of its task, or None
  admin,   \* order -> operator transaction that holds its row, or None
  worker,  \* worker -> its control state and what it has read
  chain,   \* order -> fates of the transfers sent for it; a hash is an index
  faults

ledgerVars == <<posted, balance, enabled, support, retired, normalSide, record, inflight>>
orderVars == <<creator, order, task, lock, admin, worker, chain, faults>>

Users == {UserOf[w] : w \in Orders}
LedgerKeys == ({"freeze", "settle", "unfreeze"} \X Orders) \cup ({"deposit"} \X Users)

L == INSTANCE AccountingLedger WITH
  Chains <- {Chain}, Assets <- {Asset}, Keys <- LedgerKeys, Withdrawals <- {},
  Amounts <- Range(AmountOf), Fees <- Range(FeeOf), MaxRaw <- SumFunction(Funds),
  FinalStatuses <- {"failed"}, EditableTypes <- {}, FlippableTypes <- {}, FlipsInUse <- FALSE,
  PausableAssets <- {}

vars == <<ledgerVars, orderVars>>

NoHash == 0

-------------------------------------------------------------------------------
(* Faults and remote calls.                                                *)

Fault(kind) == kind \in FaultKinds /\ faults < MaxFaults /\ faults' = faults + 1

LedgerRequest(op, w) ==
  CASE op = "freeze"   -> L!FreezeRequest(w, UserOf[w], Asset, AmountOf[w])
    [] op = "unfreeze" -> L!UnfreezeRequest(w, UserOf[w], Asset, AmountOf[w])
    [] op = "settle"   -> L!SettleRequest(w, UserOf[w], Asset, Chain,
                                          AmountOf[w] - FeeOf[w], FeeOf[w])

\* The ledger's handler for a request under key withdraw:<op>:<order id>.
Book(op, w) ==
  \/ op = "freeze" /\ L!FreezeWithdraw(<<op, w>>, w, UserOf[w], Asset, AmountOf[w])
  \/ op = "unfreeze" /\ L!UnfreezeWithdraw(<<op, w>>, w, UserOf[w], Asset, AmountOf[w], "failed")
  \/ op = "settle" /\ L!SettleWithdraw(<<op, w>>, w, UserOf[w], Asset, Chain,
                                       AmountOf[w] - FeeOf[w], FeeOf[w])

\* callAccountingTxWithRetry: what the caller learns once its retries are used
\* up.  An error leaves it open whether the request was booked.
Call(op, w, ok) ==
  \/ /\ ok = L!Accepts(<<op, w>>, LedgerRequest(op, w), L!UserTypes \cup L!SystemTypes)
     /\ Book(op, w)
     /\ UNCHANGED faults
  \/ ~ok /\ Book(op, w) /\ Fault("lost_answer")
  \/ ~ok /\ Fault("rpc_down") /\ UNCHANGED ledgerVars

-------------------------------------------------------------------------------
(* CreateWithdraw, and CreateCurrencyWithdrawal of the admin service: freeze, *)
(* then insert the order (an automatic one with its task), else unfreeze.     *)

NewTask(mode, state, hash) ==
  [mode |-> mode, state |-> state, txHash |-> hash, attempts |-> 0]

FirstTask(w) ==
  IF StrategyOf[w] = "manual_manual" THEN NewTask("manual", "awaiting_manual_txhash", NoHash)
  ELSE NewTask("system", "pending_broadcast", NoHash)

CreateFreeze(w) ==
  /\ creator[w] = "new"
  /\ \E ok \in BOOLEAN :
       /\ Call("freeze", w, ok)
       /\ creator' = [creator EXCEPT ![w] = IF ok THEN "insert" ELSE "done"]
  /\ UNCHANGED <<order, task, lock, admin, worker, chain>>

InsertOrder(w) ==
  /\ order' = [order EXCEPT ![w] =
       [status |-> IF StrategyOf[w] = "auto" THEN "processing" ELSE "pending",
        txHash |-> NoHash]]
  /\ task' = IF StrategyOf[w] = "auto" THEN [task EXCEPT ![w] = FirstTask(w)] ELSE task

CreateInsert(w) ==
  /\ creator[w] = "insert"
  /\ \/ InsertOrder(w) /\ creator' = [creator EXCEPT ![w] = "done"] /\ UNCHANGED faults
     \/ /\ Fault("db_write")
        /\ creator' = [creator EXCEPT ![w] = "undo"]
        /\ UNCHANGED <<order, task>>
     \/ Fault("commit_unknown") /\ InsertOrder(w) /\ creator' = [creator EXCEPT ![w] = "undo"]
  /\ UNCHANGED <<ledgerVars, lock, admin, worker, chain>>

CreateUndo(w) ==
  /\ creator[w] = "undo"
  /\ \E ok \in BOOLEAN : Call("unfreeze", w, ok)
  /\ creator' = [creator EXCEPT ![w] = "done"]
  /\ UNCHANGED <<order, task, lock, admin, worker, chain>>

CreateCrash(w) ==
  /\ creator[w] \in {"insert", "undo"}
  /\ Fault("crash")
  /\ creator' = [creator EXCEPT ![w] = "done"]
  /\ UNCHANGED <<ledgerVars, order, task, lock, admin, worker, chain>>

-------------------------------------------------------------------------------
(* The payout worker.                                                      *)

Open == {"pending_broadcast", "confirming", "settle_pending", "awaiting_manual_txhash"}

Idle == [pc |-> "idle", w |-> None, task |-> None, order |-> None, todo |-> <<>>]

\* The updates a handler still has to send; it ignores their errors.
SetOrder(fields) == [table |-> "order", fields |-> fields]
SetTask(fields)  == [table |-> "task", fields |-> fields]

\* An update sets the columns it names.
Updated(row, fields) == [f \in DOMAIN row |-> IF f \in DOMAIN fields THEN fields[f] ELSE row[f]]

Goes(v, pc, todo) == worker' = [worker EXCEPT ![v].pc = pc, ![v].todo = todo]
Writes(v, todo) == Goes(v, "writing", todo)

\* ListDue and AcquireLock.
Take(v, w) ==
  /\ worker[v] = Idle
  /\ task[w] # None /\ task[w].state \in Open
  /\ lock[w] = None
  /\ lock' = [lock EXCEPT ![w] = v]
  /\ worker' = [worker EXCEPT ![v] =
       [pc |-> "locked", w |-> w, task |-> None, order |-> None, todo |-> <<>>]]
  /\ UNCHANGED <<ledgerVars, creator, order, task, admin, chain, faults>>

ReadTask(v) ==
  /\ worker[v].pc = "locked"
  /\ worker' = [worker EXCEPT ![v].pc = "loaded", ![v].task = task[worker[v].w]]
  /\ UNCHANGED <<ledgerVars, creator, order, task, lock, admin, chain, faults>>

\* The hash a handler works with: that of one row, or else that of the other.
EitherHash(first, second) == IF first.txHash # NoHash THEN first.txHash ELSE second.txHash

\* Mutant: the task takes the order's word for it.
FailTask_OrderStatus == SetTask([state |-> "cancelled"])

FailTask == SetTask([state |-> "failed"])
AwaitHash == SetTask([mode |-> "manual", state |-> "awaiting_manual_txhash"])
Rebroadcast == SetTask([mode |-> "system", state |-> "pending_broadcast"])
ForgetHash == SetTask([mode |-> "system", state |-> "pending_broadcast", txHash |-> NoHash])

AwaitingStart(t, o) ==
  LET hash == EitherHash(o, t)
  IN <<"writing", IF hash = NoHash THEN <<AwaitHash>>
                  ELSE <<SetTask([mode |-> "manual", state |-> "confirming", txHash |-> hash])>>>>

BroadcastStart(w, t) ==
  IF StrategyOf[w] = "manual_manual" THEN <<"writing", <<AwaitHash>>>>
  ELSE <<IF t.attempts >= MaxAttempts THEN "unfreeze" ELSE "broadcast", <<>>>>

ConfirmStart(t, o) ==
  IF EitherHash(t, o) # NoHash THEN <<"status", <<>>>>
  ELSE <<"writing", <<IF t.mode = "manual" THEN AwaitHash ELSE Rebroadcast>>>>

\* processOne's switch: the control point a handler starts at and the updates
\* it sends right away.
Start(w, t, o) ==
  CASE o.status = "completed" -> <<"writing", <<SetTask([state |-> "done"])>>>>
    [] o.status \in {"failed", "cancelled"} -> <<"writing", <<FailTask>>>>
    [] OTHER ->
       CASE t.state = "awaiting_manual_txhash" -> AwaitingStart(t, o)
         [] t.state = "pending_broadcast" -> BroadcastStart(w, t)
         [] t.state = "confirming" -> ConfirmStart(t, o)
         [] t.state = "settle_pending" -> <<"settle", <<>>>>
         [] OTHER -> <<"writing", <<FailTask>>>>

ReadOrder(v) ==
  LET w == worker[v].w
      start == Start(w, worker[v].task, order[w])
  IN /\ worker[v].pc = "loaded"
     /\ worker' = [worker EXCEPT ![v].order = order[w], ![v].pc = start[1], ![v].todo = start[2]]
     /\ UNCHANGED <<ledgerVars, creator, order, task, lock, admin, chain, faults>>

Sent(w) == chain' = [chain EXCEPT ![w] = Append(@, "pending")]

\* handlePendingBroadcast from its NativeTransfer/TokenTransfer on.
Broadcast(v) ==
  LET w == worker[v].w
      attempts == worker[v].task.attempts + 1
      Failed == IF attempts >= MaxAttempts THEN Goes(v, "unfreeze", <<>>)
                ELSE Writes(v, <<SetTask([mode |-> "system", state |-> "pending_broadcast",
                                                attempts |-> attempts])>>)
      hash == Len(chain[w]) + 1
  IN /\ worker[v].pc = "broadcast"
     /\ \/ /\ Sent(w)
           /\ Writes(v, <<SetOrder([txHash |-> hash]),
                          SetTask([mode |-> "system", state |-> "confirming",
                                   txHash |-> hash, attempts |-> attempts])>>)
           /\ UNCHANGED faults
        \/ Failed /\ UNCHANGED <<chain, faults>>
        \/ Fault("lost_hash") /\ Sent(w) /\ Failed
     /\ UNCHANGED <<ledgerVars, creator, order, task, lock, admin>>

\* Mutant: what is found outside any block counts from block 0 on every chain.
Answers_FoundIsConfirmed(status) == {status, "confirmed"}

\* What GetTransactionStatus tells a worker of a transfer.  IsConfirmed looks at
\* the depth alone, and the difference of head and block is unsigned: to a worker
\* a reverted transfer is failed or confirmed, whichever the depth says.  On TRON
\* a transfer in no block has block number 0, and is confirmed once it is found.
Answers(status) ==
  {status} \cup (IF status = "failed" \/ Chain = "tron" THEN {"confirmed"} ELSE {})

\* Mutant: a transfer the node does not report yet counts as dropped.
CheckStatus_PendingIsDropped(v) ==
  /\ worker[v].pc = "status"
  /\ IF chain[worker[v].w][EitherHash(worker[v].task, worker[v].order)] = "confirmed"
       THEN Writes(v, <<SetTask([state |-> "settle_pending"])>>)
       ELSE Writes(v, <<ForgetHash>>)
  /\ UNCHANGED <<ledgerVars, creator, order, task, lock, admin, chain, faults>>

\* handleConfirming from its GetTransactionStatus on: confirmed by either the
\* flag or the status comes before failed.
CheckStatus(v) ==
  LET t == worker[v].task
      transfer == chain[worker[v].w][EitherHash(t, worker[v].order)]
      Failed == CASE t.mode = "manual" -> Writes(v, <<AwaitHash>>)
                  [] t.mode = "system" /\ t.attempts < MaxAttempts -> Writes(v, <<ForgetHash>>)
                  [] OTHER -> Goes(v, "unfreeze", <<>>)
  IN /\ worker[v].pc = "status"
     /\ \/ \E answer \in Answers(transfer) :
             /\ \/ answer = "pending" /\ Writes(v, <<>>)
                \/ answer = "confirmed" /\ Writes(v, <<SetTask([state |-> "settle_pending"])>>)
                \/ answer = "failed" /\ Failed
             /\ UNCHANGED faults
        \/ Fault("rpc_down") /\ Writes(v, <<>>)
     /\ UNCHANGED <<ledgerVars, creator, order, task, lock, admin, chain>>

\* Mutant: a settlement that seems to have failed fails the order.
Settle_FailsOnError(v) ==
  /\ worker[v].pc = "settle"
  /\ \E ok \in BOOLEAN :
       Call("settle", worker[v].w, ok) /\ Goes(v, IF ok THEN "finalize" ELSE "unfreeze", <<>>)
  /\ UNCHANGED <<creator, order, task, lock, admin, chain>>

\* handleSettlePending: a refusal leaves the task due for another try.
Settle(v) ==
  /\ worker[v].pc = "settle"
  /\ \E ok \in BOOLEAN :
       Call("settle", worker[v].w, ok) /\ Goes(v, IF ok THEN "finalize" ELSE "writing", <<>>)
  /\ UNCHANGED <<creator, order, task, lock, admin, chain>>

\* Its database transaction, which waits for the order's row.
Finalize(v) ==
  LET w == worker[v].w
  IN /\ worker[v].pc = "finalize"
     /\ Writes(v, <<>>)
     /\ \/ /\ admin[w] = None
           /\ order' = [order EXCEPT ![w].status = "completed"]
           /\ task' = [task EXCEPT ![w].state = "done"]
           /\ UNCHANGED faults
        \/ Fault("db_write") /\ UNCHANGED <<order, task>>
     /\ UNCHANGED <<ledgerVars, creator, lock, admin, chain>>

\* Mutant: the order is failed, its money stays locked.
FailAndUnfreeze_NoRefund(v) ==
  /\ worker[v].pc = "unfreeze"
  /\ Writes(v, <<SetOrder([status |-> "failed"]), FailTask>>)
  /\ UNCHANGED <<ledgerVars, creator, order, task, lock, admin, chain, faults>>

\* Mutant: the task is failed, the order is forgotten.
FailAndUnfreeze_ForgetsOrder(v) ==
  /\ worker[v].pc = "unfreeze"
  /\ \E ok \in BOOLEAN : Call("unfreeze", worker[v].w, ok)
  /\ Writes(v, <<FailTask>>)
  /\ UNCHANGED <<creator, order, task, lock, admin, chain>>

\* failAndUnfreeze writes the amount with six decimals, which the ledger refuses
\* for an asset that has fewer; it goes on whatever the ledger answers.
FailAndUnfreeze(v) ==
  /\ worker[v].pc = "unfreeze"
  /\ IF Precision < 6 THEN UNCHANGED <<ledgerVars, faults>>
     ELSE \E ok \in BOOLEAN : Call("unfreeze", worker[v].w, ok)
  /\ Writes(v, <<SetOrder([status |-> "failed"]), FailTask>>)
  /\ UNCHANGED <<creator, order, task, lock, admin, chain>>

\* UpdateFields: a blind update of the row by id.
Write(v) ==
  LET w == worker[v].w
      head == Head(worker[v].todo)
  IN /\ worker[v].pc = "writing" /\ worker[v].todo # <<>>
     /\ worker' = [worker EXCEPT ![v].todo = Tail(@)]
     /\ \/ /\ head.table = "order" /\ admin[w] = None
           /\ order' = [order EXCEPT ![w] = Updated(@, head.fields)]
           /\ UNCHANGED task
        \/ /\ head.table = "task"
           /\ task' = [task EXCEPT ![w] = Updated(@, head.fields)]
           /\ UNCHANGED order
     /\ UNCHANGED <<ledgerVars, creator, lock, admin, chain, faults>>

\* One update fails, or the handler's 20 seconds are over and all of them do.
LoseWrites(v) ==
  /\ worker[v].pc = "writing" /\ worker[v].todo # <<>>
  /\ Fault("db_write")
  /\ \E todo \in {Tail(worker[v].todo), <<>>} : Writes(v, todo)
  /\ UNCHANGED <<ledgerVars, creator, order, task, lock, admin, chain>>

\* ReleaseLock frees the task only for its owner.
Release(v) ==
  LET w == worker[v].w
  IN /\ worker[v].pc = "writing" /\ worker[v].todo = <<>>
     /\ lock' = IF lock[w] = v THEN [lock EXCEPT ![w] = None] ELSE lock
     /\ worker' = [worker EXCEPT ![v] = Idle]
     /\ UNCHANGED <<ledgerVars, creator, order, task, admin, chain, faults>>

Crash(v) ==
  /\ worker[v] # Idle
  /\ Fault("crash")
  /\ worker' = [worker EXCEPT ![v] = Idle]
  /\ UNCHANGED <<ledgerVars, creator, order, task, lock, admin, chain>>

\* lock_until passes: of a worker that died, or that is still at work.
ExpireLock(w) ==
  /\ lock[w] # None
  /\ IF worker[lock[w]].w = w THEN Fault("lease_lapse") ELSE UNCHANGED faults
  /\ lock' = [lock EXCEPT ![w] = None]
  /\ UNCHANGED <<ledgerVars, creator, order, task, admin, worker, chain>>

-------------------------------------------------------------------------------
(* Operators.  A transaction takes the order's row, calls the ledger and    *)
(* commits what it decided; a ledger error rolls it back at once.           *)

Terminal == {"completed", "failed", "cancelled", "rejected"}

\* Mutant: completing by hand was copied from failing.
LedgerCallOf_CompleteUnfreezes ==
  [approve |-> "freeze", cancel |-> "unfreeze", reject |-> "unfreeze",
   fail |-> "unfreeze", complete |-> "unfreeze"]

LedgerCallOf == [approve |-> "freeze", cancel |-> "unfreeze", reject |-> "unfreeze",
                 fail |-> "unfreeze", complete |-> "settle"]

\* Mutant: cancelling forgot the status check of the row it locked.
Decides_CancelUnchecked(op, w, hash) ==
  \/ op = "approve" /\ order[w].status = "pending" /\ hash = NoHash
  \/ op \in {"cancel", "reject"} /\ hash = NoHash

\* Which decision a status and a strategy admit, and the hash it comes with.
Decides(op, w, hash) ==
  \/ op = "approve" /\ order[w].status = "pending" /\ hash = NoHash
  \/ op \in {"cancel", "reject"} /\ order[w].status = "pending" /\ hash = NoHash
  \/ op = "fail" /\ order[w].status \in {"pending", "processing"} /\ hash = NoHash
  \/ /\ op = "complete" /\ order[w].status = "processing"
     /\ StrategyOf[w] = "manual_manual" /\ hash \in DOMAIN chain[w]

\* An unfreeze is skipped when the order's freeze event cannot be read.
AdminCall(op, w, hash) ==
  /\ order[w] # None /\ admin[w] = None
  /\ Decides(op, w, hash)
  /\ \E ok \in BOOLEAN :
       /\ \/ Call(LedgerCallOf[op], w, ok)
          \/ LedgerCallOf[op] = "unfreeze" /\ ok /\ Fault("event_read") /\ UNCHANGED ledgerVars
       /\ admin' = IF ok THEN [admin EXCEPT ![w] = [op |-> op, hash |-> hash]] ELSE admin
  /\ UNCHANGED <<creator, order, task, lock, worker, chain>>

\* A tx_hash in the update moves the task to confirming, also on completion.
Confirming(t, hash) ==
  Updated(IF t = None THEN NewTask("manual", "confirming", hash) ELSE t,
          [mode |-> "manual", state |-> "confirming", txHash |-> hash])

Restated(w, status) == order' = [order EXCEPT ![w].status = status]

CommitApprove(w) ==
  /\ Restated(w, "processing")
  /\ task' = IF task[w] = None THEN [task EXCEPT ![w] = FirstTask(w)] ELSE task

CommitCancel(w) == Restated(w, "cancelled") /\ UNCHANGED task
CommitReject(w) == Restated(w, "rejected") /\ UNCHANGED task

CommitFail(w) ==
  /\ Restated(w, "failed")
  /\ task' = IF task[w] = None THEN task ELSE [task EXCEPT ![w].state = "failed"]

\* The task is set to done, and then to confirming for the hash.
CommitComplete(w, hash) ==
  /\ order' = [order EXCEPT ![w] = [status |-> "completed", txHash |-> hash]]
  /\ task' = [task EXCEPT ![w] = Confirming(@, hash)]

AdminCommit(w) ==
  LET op == admin[w].op
  IN /\ admin[w] # None
     /\ \/ op = "approve" /\ CommitApprove(w)
        \/ op = "cancel" /\ CommitCancel(w)
        \/ op = "reject" /\ CommitReject(w)
        \/ op = "fail" /\ CommitFail(w)
        \/ op = "complete" /\ CommitComplete(w, admin[w].hash)
     /\ admin' = [admin EXCEPT ![w] = None]
     /\ UNCHANGED <<ledgerVars, creator, lock, worker, chain, faults>>

\* The hot wallet turns out too low for an approval; otherwise a write of the
\* transaction failed or the service died.
AdminRollback(w) ==
  /\ admin[w] # None
  /\ IF admin[w].op = "approve" THEN UNCHANGED faults ELSE Fault("rollback")
  /\ admin' = [admin EXCEPT ![w] = None]
  /\ UNCHANGED <<ledgerVars, creator, order, task, lock, worker, chain>>

\* UpdateCurrencyWithdrawal with a tx_hash alone, set or cleared.
AdminSetHash(w, hash) ==
  /\ order[w] # None /\ admin[w] = None
  /\ order[w].status = "processing" /\ StrategyOf[w] = "manual_manual"
  /\ order' = [order EXCEPT ![w].txHash = hash]
  /\ task' = [task EXCEPT ![w] =
       IF hash # NoHash THEN Confirming(@, hash)
       ELSE Updated(@, [mode |-> "manual", state |-> "awaiting_manual_txhash", txHash |-> NoHash])]
  /\ UNCHANGED <<ledgerVars, creator, lock, admin, worker, chain, faults>>

-------------------------------------------------------------------------------
(* Outside: the transfers operators send themselves, and the chain, where a *)
(* transfer is "pending" in no block, and then executed ("confirmed") or      *)
(* reverted ("failed") in one that stays.                                     *)

ManualTransfer(w) ==
  /\ order[w] # None /\ order[w].status = "processing" /\ StrategyOf[w] = "manual_manual"
  /\ Len(chain[w]) < MaxTransfers
  /\ \A i \in DOMAIN chain[w] : chain[w][i] = "failed"
  /\ Sent(w)
  /\ UNCHANGED <<ledgerVars, creator, order, task, lock, admin, worker, faults>>

ChainDecides(w) ==
  /\ \E i \in DOMAIN chain[w], fate \in {"confirmed", "failed"} :
       chain[w][i] = "pending" /\ chain' = [chain EXCEPT ![w][i] = fate]
  /\ UNCHANGED <<ledgerVars, creator, order, task, lock, admin, worker, faults>>

-------------------------------------------------------------------------------
\* Every user's funds came in by one deposit.
Deposit(u) == L!DepositRequest(u, Asset, Chain, Funds[u])

Init ==
  /\ posted = [k \in LedgerKeys |-> IF k[1] = "deposit" THEN Deposit(k[2]) ELSE None]
  /\ balance = [k \in L!BalanceKey |->
       IF k = L!SystemKey(L!HotAccount(Chain), Asset) THEN SumFunction(Funds)
       ELSE IF k \in {L!UserKey(u, Asset, "available") : u \in Users} THEN Funds[k[1][2]]
       ELSE 0]
  /\ enabled = {Asset}
  /\ support = L!AccountTypes \X {Asset}
  /\ retired = {}
  /\ normalSide = [t \in L!AccountTypes |-> L!InitialSide(t)]
  /\ record = [k \in LedgerKeys |-> None]
  /\ inflight = {}
  /\ creator = [w \in Orders |-> "new"]
  /\ order = [w \in Orders |-> None]
  /\ task = [w \in Orders |-> None]
  /\ lock = [w \in Orders |-> None]
  /\ admin = [w \in Orders |-> None]
  /\ worker = [v \in Workers |-> Idle]
  /\ chain = [w \in Orders |-> <<>>]
  /\ faults = 0

CreateStep(w) == CreateFreeze(w) \/ CreateInsert(w) \/ CreateUndo(w) \/ CreateCrash(w)

Handler(v) ==
  ReadTask(v) \/ ReadOrder(v) \/ Broadcast(v) \/ CheckStatus(v) \/ Settle(v) \/ Finalize(v)
  \/ FailAndUnfreeze(v) \/ Write(v) \/ Release(v)

WorkerStep(v) == Handler(v) \/ LoseWrites(v) \/ Crash(v) \/ \E w \in Orders : Take(v, w)

AdminStep(w) ==
  \/ \E op \in AdminOps \cap DOMAIN LedgerCallOf, hash \in {NoHash} \cup DOMAIN chain[w] :
       AdminCall(op, w, hash)
  \/ AdminCommit(w)
  \/ AdminRollback(w)
  \/ "sethash" \in AdminOps /\ \E hash \in {NoHash} \cup DOMAIN chain[w] : AdminSetHash(w, hash)

Next ==
  \/ \E v \in Workers : WorkerStep(v)
  \/ \E w \in Orders : CreateStep(w) \/ AdminStep(w) \/ ExpireLock(w)
                       \/ ManualTransfer(w) \/ ChainDecides(w)

Spec == Init /\ [][Next]_vars

\* The worker loop polls for ever and takes due tasks oldest first, a request
\* handler runs to its end, a transaction ends, a lease runs out, and the chain
\* decides every transfer.  Operators and faults owe nothing.
Fairness ==
  /\ \A v \in Workers : WF_vars(Handler(v))
  /\ \A v \in Workers, w \in Orders : SF_vars(Take(v, w))
  /\ \A w \in Orders :
       /\ WF_vars(CreateStep(w))
       /\ WF_vars(AdminCommit(w))
       /\ WF_vars(ExpireLock(w))
       /\ WF_vars(ChainDecides(w))

FairSpec == Spec /\ Fairness

-------------------------------------------------------------------------------
(* Properties.                                                             *)

OrderRow == [status : {"pending", "processing"} \cup Terminal, txHash : Nat]
TaskRow  == [mode : {"system", "manual"}, state : Open \cup {"done", "failed"},
             txHash : Nat, attempts : 0 .. MaxAttempts]

Decision == [op : DOMAIN LedgerCallOf, hash : Nat]

\* Neither a row, a decision, a request nor a lock owner is taken for its absence.
ASSUME NoneAssumption ==
  /\ None \notin OrderRow \cup TaskRow \cup Decision \cup Workers
  /\ \A w \in Orders, op \in {"freeze", "settle", "unfreeze"} : LedgerRequest(op, w) # None

\* Every table row and control state has its type; statuses, states and modes
\* are those of the two tables, attempts never pass MaxAttempts, and an order's
\* tx_hash is the hash of a transfer that was sent for that very order.
TypeOK ==
  /\ creator \in [Orders -> {"new", "insert", "undo", "done"}]
  /\ order \in [Orders -> OrderRow \cup {None}]
  /\ task \in [Orders -> TaskRow \cup {None}]
  /\ lock \in [Orders -> Workers \cup {None}]
  /\ DOMAIN worker = Workers
  /\ \A w \in Orders : order[w] # None => order[w].txHash \in {NoHash} \cup DOMAIN chain[w]

Has(op, w) == posted[<<op, w>>] # None

\* An order is never paid for twice: of the transfers sent for it, at most one
\* is or may still become final.
OneLiveTransfer ==
  \A w \in Orders : Cardinality({i \in DOMAIN chain[w] : chain[w][i] # "failed"}) <= 1

\* The chain has a transfer of the order in a block; on TRON, one was sent.
Mined(w) == \E i \in DOMAIN chain[w] : chain[w][i] # "pending" \/ Chain = "tron"

\* The ledger deducts nothing for which no transfer has been sent and, but on
\* TRON, mined; and an order is called completed only when it has deducted it.
SettledIsMined ==
  \A w \in Orders :
    /\ Has("settle", w) => Mined(w)
    /\ order[w] # None /\ order[w].status = "completed" => Has("settle", w)

\* The locked balance of a user is exactly what his unsettled, unreturned
\* withdrawals hold: none of them can be settled at the expense of another.
LockedIsHeld ==
  \A u \in Users :
    balance[L!UserKey(u, Asset, "locked")] =
      SumFunction([w \in Orders |->
        IF UserOf[w] = u /\ Has("freeze", w) /\ ~Has("settle", w) /\ ~Has("unfreeze", w)
          THEN AmountOf[w] ELSE 0])

\* Where the ledger says the amount of a withdrawal is.
Money(w) ==
  IF Has("settle", w) THEN IF Has("unfreeze", w) THEN "both" ELSE "paid"
  ELSE IF Has("unfreeze", w) THEN "refunded"
  ELSE IF Has("freeze", w) THEN "held" ELSE "own"

Verdict(w) ==
  IF order[w] = None THEN "none"
  ELSE IF order[w].status \in Terminal THEN order[w].status ELSE "open"

\* Every withdrawal keeps the contract, whatever workers, operators and lost
\* answers do in between: its money is held, then paid or given back but never
\* both, and the order closes after its money and the way its money went.
Contract == INSTANCE WithdrawContract WITH
  money <- [w \in Orders |-> Money(w)], verdict <- [w \in Orders |-> Verdict(w)]
ContractSpec == Contract!Spec

\* A transfer the chain has confirmed is, or can still be, charged to the user:
\* its money has not been given back meanwhile.
ConfirmedIsCharged ==
  \A w \in Orders :
    (\E i \in DOMAIN chain[w] : chain[w][i] = "confirmed") => Money(w) \in {"held", "paid"}

\* An order in processing still has its money held, but for a worker or an
\* operator in the middle of closing it.
ProcessingIsHeld ==
  \A w \in Orders :
    order[w] # None /\ order[w].status = "processing" /\ admin[w] = None
    /\ (\A v \in Workers : worker[v].w = w => worker[v].pc \notin {"writing", "finalize"})
    => Money(w) = "held"

\* Every automatic withdrawal that was accepted is completed or failed in the
\* end, and its task comes to rest with it.
AutoOrdersClose ==
  \A w \in Orders : StrategyOf[w] = "auto" =>
    (order[w] # None ~> order[w] # None /\ order[w].status \in Terminal
                        /\ task[w].state \notin Open /\ lock[w] = None)
===============================================================================
