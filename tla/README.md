# TLA+ verification of Internal Wallet

Internal Wallet is a wallet back end written in Go: a dozen gRPC services over
one MariaDB, Redis, Kafka and three block chains. This directory models its money
paths: the double-entry ledger every movement is booked in, and what moves money
through it or beside it: withdrawals, deposits from the block scanner to the balance,
transfers between users, batches of credits, and the sweeps of deposit addresses.

## 1. Inventory

| Component | State it keeps | Operations | Interacts with | What is hard | What makes it correct |
|---|---|---|---|---|---|
| **Accounting ledger** `services/accounting` (`engine.PostTx`, posting templates) | `acct_ledger_txs`, `acct_ledger_postings`, `acct_balances`, `user_transaction_records` | freeze / settle / unfreeze a withdrawal, confirm a deposit, transfer, fund a wallet, freeze / unfreeze assets, adjust | called by business, admin and the deposit consumer | retries under one key, several rows in one request, records written after the commit | balances equal the journal, debits equal credits, one movement per key, nothing below zero, records link to real postings |
| **Accounting set-up** | `asset`, `acct_account_types`, `acct_account_type_assets` | pause an asset, edit / retire / flip an account type, change a precision | read by the engine outside its transaction | configuration that changes under live balances | the books stay balanced whatever is configured |
| **Amount codec, fee rules** `pkg/accounting`, `common/withdrawcalc` | none | decimal to raw units and back, fee and minimum rules | everyone who talks to the ledger | truncation, precision mismatches | one amount means the same raw amount in freeze, settle and unfreeze |
| **Withdrawal creation** (business and admin) | `currency_withdraw_orders`, the payout task | freeze, insert, undo | ledger (RPC), database | lost answers, failed or unknown commits | no order without its money, no money without its order |
| **Payout worker** `withdraw_payout_worker.go` | payout tasks with leases | broadcast, confirm, settle, fail and unfreeze | ledger, chain service, operators (same rows) | several replicas, leases, blind updates, crashes around remote calls | paid at most once; charged if and only if paid (section 4 says where not); every order closes |
| **Operators' decisions** (admin) | the same orders and tasks | approve, cancel, reject, fail, complete, set a hash | ledger inside a database transaction | a rollback cannot take the ledger call back; the worker runs meanwhile | a closed order is final; an approved one holds its money |
| **Deposit confirmation** (business consumer) | deposit records, address balances, consumer offsets | one Kafka message per confirmed transfer | chainsync by Kafka, ledger | redelivery, rebalances, swallowed errors, keys by tx hash | what is shown is booked; every final transfer is credited unless a sibling has its key |
| **Chain synchronisation** `services/chainsync` | scan cursor and head in Redis, rows of pending transactions, Kafka retry queue | scan, store, confirm, publish, expire | nodes, Kafka | reorganisations nobody looks for, transactions judged before their logs are read, reads and writes that fail or come back empty, a crash between publish and mark | nothing is published before it is final, nothing slips by the cursor |
| **Internal transfers** (business and admin) | `currency_transfer_orders` | submit, freeze, approve, reject, cancel by user or operator | ledger | an order is visible before its freeze; a cancellation without a lock or an unfreeze | frozen money is either transferred or given back |
| **Transfer batches** (admin worker) | batches and items | claim, credit, mark, recover, retry | ledger | stale claims, lost answers | every item credited at most once; the batch status tells the truth |
| **Consolidation** `services/consolidation` | `consolidation_tasks` (claim, lease, version) | discover, execute, track, bump, top up, rent energy | chain service, signer | claims by instance that lapse, ambiguous broadcasts, abandoned transactions | confirmed means swept, bounded retries, no address locked for ever |
| **Chain access** `services/chainrpc` | per wallet a lock and the last nonce used | transfer, alone or in batches; build, broadcast, query | signer, nodes; top-ups leave the same wallet | nodes that lag, unknown sends, a lock held over remote calls | no nonce used twice, none skipped; the lock is always given back |
| **Signer** | key shards in memory, seeds | derive, sign | everyone who sends | cryptography, little state | outside this project |
| **Swap**, **placeholder reconciliation** | swap orders, display rows | quote, broadcast, repair | aggregators, chain service | external state machines | later, if time allows |
| **Market**, **notification**, **gateway**, operator console | caches, sessions | feeds, pushes, routing | | pure I/O | not modelled |

`PROJECT.json` lists each component with its files, and under `hazards` the
places where this code is hard to test.

## 2. Modules

    PostingJournal     WithdrawContract       DepositContract          abstract
          ^ refines          ^ refines              ^ refines          specifications
    AccountingLedger <-- WithdrawPayout       DepositPipeline --EXTENDS--> ChainSync
          ^  ^  ^----------------------------------/                       (detailed)
          |  \---- InternalTransfer, TransferBatch    Consolidation   NonceManager

    proofs: one module <Module>Proofs per detailed module, of the same name (ChainSync's
            are the first part of DepositPipelineProofs), over the lemmas of Sums
    runs:   one MC module per detailed module

An arrow to `AccountingLedger` is `L == INSTANCE AccountingLedger`: the caller's
requests go through the ledger's own guards and idempotency keys.

* **PostingJournal** is what the ledger promises: a book of net debits and a
  journal of requests by idempotency key. Its only step books one balanced
  request under a fresh key and moves the book by exactly that request.
* **AccountingLedger** models `engine.PostTx` and the templates over it. A handler
  is one step, because its only multi-row write is one database transaction; what is
  *not* in that transaction is kept apart where it matters. `posted` stands for the
  headers under their unique key, `balance` for `acct_balances`, `support`, `enabled`,
  `retired` and `normalSide` for the set-up tables, `record` for
  `user_transaction_records`. The record write that ends a handler is a separate step
  (`WriteRecord`), so it can be overtaken or lost (`LoseRecordWrite`). A request is a
  function from balance rows to net debits: the engine sums the postings of one row
  before it does anything with them.
* **WithdrawContract**: the money of a withdrawal is the user's own, held, then paid
  or refunded, never both; a verdict is reached once and agrees with the money.
* **WithdrawPayout** composes creation, operators, worker, chain and ledger. Every
  remote call and every database statement of the worker is a step. `worker[v].task`
  and `.order` are the rows as they were *read*; `todo` are the updates a handler has
  yet to send, which are blind. `admin[w]` is an operator transaction that holds
  the row lock and has made its ledger call but not committed. `chain[w]` is what the chain
  has made of each transfer; what a worker is *told* of it is `Answers`, after
  `GetTransactionStatus`: its flag `IsConfirmed` looks at the depth only, so a reverted transfer
  is answered as failed or as confirmed (which of the two is a matter of three blocks, and the
  model has no depth), and on TRON one in no block may be confirmed as well. On TRON
  the set joins the answers of both queries, the one for a transfer's info and the fallback
  for the bare transfer.
* **ChainSync**: head tracker, scanner and cursor, stored rows, confirm manager
  with its batch retries, Kafka retry queue and daily clean-up, as goroutines that share
  only the database, Redis and the head. `chain[x]` is the block of a transaction,
  `row[t]` a stored transfer, `scan` and `confirm` the loops' local state, `log`
  what Kafka has. `moved` records the transactions a reorganisation has touched, `lost` the
  transfers a fault has cost or the clean-up has given up. `Relevant` are the transactions that
  pass `isTransactionRelevant`: the others, which only events or internal calls connect with a
  monitored address, are in the chain and not in what the scanner gets (`Shown`).
* **DepositContract**: a transfer becomes final first and is credited afterwards, at
  most one per transaction, and neither is taken back.
* **DepositPipeline** extends ChainSync with Kafka sessions (offsets, rebalances) and
  `TransactionConfirmProcessor`, which books in the ledger, inserts the deposit's
  row and adds to the address balance, in separate statements. `dropped` records the messages it
  leaves without a booking, and why: before the end of a partition without offset, refused,
  after an error, or because they are `Ignored` (the counterparty is an address of the service
  itself, or the asset is unknown), which is no error to it.
* **InternalTransfer**: `submit[o]`, `cancel[o]` and `operator[o]` are the handlers under
  way with the copies of the row they hold; the business service writes whole rows
  (`Save`), an operator's transaction locks the row over its ledger call. `torn` marks
  orders whose rows and bookings a fault has set apart.
* **TransferBatch**: operators' handlers are one step (they lock the batch row); a
  worker's round is `RecoverStaleProcessing`, `ClaimNextRunnable`, `Credit`, `Mark`,
  `Count`, `WriteStatus`, each a statement or call. `raced` records a retry between the
  count and the write.
* **Consolidation**: one deposit address on an EVM chain. `task[t]` is a row with its
  claim; since a version is only compared with the one a worker has read, `fresh` is the set of
  workers whose row is still as they read it. `net` is what the chain knows of each
  signed transaction, `topups` the gas records. `streak` counts the transactions
  signed since the last success or decision, `unguarded` a discovery whose
  look-up of failed tasks itself failed. The late `ReleaseClaim` of a worker whose
  row has already been turned is part of the lapse of claims (`Lapse`).
* **NonceManager**: one hot wallet on an EVM chain. `call[c]` is where a request is and the
  nonce it was given, `lock` the mutex of the wallet, `lastNonce` and `trusted` the
  entry of the manager and whether its ttl still runs. `sent`, `dropped` and `mined` are the
  network; a node answers `PendingNonceAt` with any prefix of what is known.
  `lagged` and `forgot` record that one of the manager's two safeguards is gone. Top-ups are
  sent by the consolidation service from the same wallet without the manager.

| Action | Code |
|---|---|
| `CreateFreeze`, `CreateInsert`, `CreateUndo` | `CreateWithdraw`: the freeze, the transaction, the compensating unfreeze |
| `Take`, `Release`, `ExpireLock`, `ReadTask`, `ReadOrder` | `ListDue` + `AcquireLock`, `ReleaseLock`, the lapse of `lock_until`, the reads of `processOne` |
| `Broadcast`, `CheckStatus`, `Settle`, `Finalize`, `FailAndUnfreeze`, `Write`, `LoseWrites` | the handlers of the payout worker and their updates |
| `AdminCall`, `AdminCommit`, `AdminRollback`, `AdminSetHash` | row lock, guard and ledger call; commit; rollback; a `tx_hash` alone |
| `Mine`, `Reorganise`, `RefreshHead`, `Scanner`, `Confirmer`, `Requeue`, `RetryMessage` | the chain; the loops of chainsync, one call per step |
| `Process`, `Commit`, `Reassign` | the consumer's statements, its offset commits, a rebalance |
| `OrderStep` | submission, the payer's cancellation and the operators' decisions, one call or write per step |
| `Operator`, `Round`, `LeaseLapse` | handlers of the batch; one statement of a worker's round; an item found stale |
| `Discover`, `Execute`, `Tracks`, `TopsUp`, `Verifies` | the loops of the consolidation service |
| `Start`, `AcquireNonce`, `SuggestGasPrice`, `Sign`, `SendTransaction` | a request or a batch's goroutine; the calls of `ETHNativeTransfer` and `ETHTokenTransfer`, with the deferred release |
| `BuildTransaction`, then `Sign`, `SendTransaction` | the calls of a top-up |
| `Cancel`, `SoftDelete` + `ForceRetryPending`, `ContextCancelled` | operators' calls; the heartbeat that finds its claim gone |

**Faults** are a constant (`FaultKinds`, in Consolidation `Events`) with a budget
(`MaxFaults`, `MaxEvents`), so a run says exactly which faults its properties survive:

| Fault | Stands for |
|---|---|
| `lost_answer`, `rpc_down` | the ledger booked and the answer is lost; a call never arrives |
| `lost_hash`, `send_unknown`, `send_error` | a transfer or message is sent and its call fails; it is not sent |
| `db_write`, `db_error`, `commit_unknown`, `mark_error`, `rollback` | an update fails; a statement fails or its commit is reported as failed; a mark after publishing fails; an operator transaction fails after its ledger call |
| `crash`, `consumer_crash`, `rebalance` | a process dies; a partition changes hands under a message |
| `lease_lapse` | a lease or claim ends under a worker that is still busy |
| `event_read`, `db_read` | a read that a decision depends on fails |
| `reorg` | a block that is not final is replaced |
| `cursor_read`, `cursor_write`, `scan_error`, `no_logs`, `receipt_error`, `rpc_error`, `gas_price` | Redis or the node does not answer, or not with everything; the price is above the limit |
| `null_block` | a node that lags answers a block with null, which reads as a block without transactions |
| `nonce_error`, `sign_error`, `estimate_error`, `gas_price`, `send_error`, `send_unknown` | (transfers) the node or the signer does not answer; the transaction is not accepted, or it is and the answer is lost |
| `drop`, `ttl` | a pending transaction leaves the pools; the manager's entry is too old to be trusted (costs nothing of the budget) |
| `week` | a row is older than the seven days the clean-up allows |
| `gas_rise`, `revert` | fees rise above what the address holds; a transaction reverts |

## 3. Runs

Every run finishes within five minutes with two workers; the longest are
`PayoutAuto`, `DepositPath` (three minutes each), `Consolidation` (all for their liveness), `PayoutManual` and
`TransferOrders`.

| Run | Instance | Shows |
|---|---|---|
| `LedgerBooks` | 2 users, 1 asset, 3 keys, `MaxRaw` 2, set-up changes, delayed and lost record writes; 63,280 states | `TypeOK`, `TrialBalance`, `RecordsAreBacked`, refinement `JournalSpec` |
| `PayoutAuto` | 2 automatic orders on TRON, 2 workers, 1 lost answer, fair; 134,477 states | `ConfirmedIsCharged`, refinement `ContractSpec`, liveness `AutoOrdersClose` |
| `PayoutManual` | one order of each manual strategy on TRON, 2 workers, operators, no faults; 900,487 states | `OneLiveTransfer`, `LockedIsHeld`, `ProcessingIsHeld`, refinement `ContractSpec` (closed orders stay closed) |
| `PayoutFaulty` | 1 order on an EVM chain, 2 workers, any 2 of 9 faults, an asset of precision 2; about 2.2 million states | `TypeOK`, `SettledIsMined` |
| `PayoutCrash` | 1 automatic order, 1 crash | violation of `ConfirmedIsCharged` |
| `SyncFaults` | 2 transactions (one reverts), 2 transfers, `Required`, `Lookback`, `MaxRetries` 1, `BatchSize` 2, `MaxHead` 4, any 2 of 12 faults, fair; 711,907 states | `SyncTypeOK`, `PublishedIsFinal`, `ScannedIsStored`, liveness `FinalIsPublished` |
| `DepositPath` | 2 transactions with 2 transfers each (one of the second is ignored by the consumer), 2 consumers, `MaxHead` 3, 1 of 6 faults, fair; 506,969 states | `TypeOK`, `ShownIsBooked`, `AddressBalanceIsBacked`, `RefusedHasSibling`, refinement `ContractSpec`, liveness `FinalIsCredited` |
| `TransferOrders` | 2 orders of one payer whose funds do not suffice for both, any strategy, one amount with dust, 2 of 5 faults; 1,647,810 states | `TypeOK`, `CompletedIsPaid`, `OrdersAreAccounted`, `LockedIsHeld` |
| `TransferBatch` | 3 items of 2 users, 2 workers, 1 retry, 2 of 5 faults, fair; 57,472 states | `TypeOK`, `ItemsArePaidOnce`, `CreditNeedsExecution`, `CompletedIsPaid`, liveness `ItemsEnd` |
| `Consolidation` | 1 worker of each kind in one instance, 2 tasks, 1 retry, 1 bump, 2 top-ups, any 1 of 14 events, fair; 617,522 states | `TypeOK`, `ConfirmedIsSwept`, `RetriesAreBounded`, liveness `TaskEnds` |
| `TransferNonces` | 1 token transfer, 1 batch of 2 native transfers with 1 goroutine at a time, 1 top-up, `MaxNonce` 4, 2 of 8 faults and an entry that expires, fair; 355,628 states | `TypeOK`, `NoncesAreUnique`, `NoGaps`, liveness `RequestsEnd` |
| `NonceLeak` | the same, without fairness | violation of `LockIsReturned` |

*Bounds.* Three keys allow a booking, its replay, and a request that collides with it or
depends on it; with `MaxRaw` 2 both ends of a balance row are reached; a template touches
one asset, so one is enough. Two orders of one user are needed for one to be settled out
of the other's locked money; two workers for one to work on what another has read;
two faults for every pair of failures to meet. `MaxAttempts` 2 and one retry tell a retry
from the last attempt. In `SyncFaults` a head of 4 leaves room for a block, its
confirmation, the block above it and a replacement; the batch of two rows is larger
than the work left after one failure. `DepositPath` has the smallest chain on which
two transactions are final and one pays twice; the other's two
transfers are one that counts and one that is skipped, in either order. In `SyncFaults`
and `DepositPath` all transactions are `Relevant`, since one that is not changes nothing but the
chain; the theorems are for any choice. The payout runs that
state what holds of money and orders are on TRON, since what may be told there includes
all that may be told on an EVM chain; `PayoutFaulty` is on an EVM chain, where
`SettledIsMined` says more. Three items let one be claimed, one be
finished and one wait. In `Consolidation` one retry and one bump give four
transactions per task, so a second task beyond the bound would show; an operator's
retry alone repeats all of it, which is why it shares the budget of one with the
faults. With one top-up worker the branch of `CreateTopUp` that finds another's
record is not reached, and a claim is contended within one instance, where
it does not tell the workers apart.
In `TransferNonces` three transfers and a top-up can each take the nonce of any other, and
`MaxNonce` 4 lets every one of them be counted; a batch of two and one place of the
semaphore (the code has five) make an item wait for a place as well as for the lock.
Runs with `CHECK_DEADLOCK FALSE` end when all orders, transfers or tasks have.

*Environment assumptions.* An operator sends a transfer of his own only when the earlier
ones have failed, and enters only hashes of transfers sent for that very order (the code
checks the existence of the hash, not what it pays). A block `Required` deep stays where it is;
in the payout model, which has no blocks, so does every mined transfer. Which addresses are
monitored does not change, and a monitored address that is the company's is its hot wallet's. In the
consolidation model nonces are mined in order, a mined transaction uses up the gas
of the address, and a new address holds tokens and no gas.

*Fairness*, stated only where a run checks liveness:

* `PayoutAuto` (`FairSpec`): handlers run to their end; the worker polls for ever and takes
  due tasks oldest first (strong fairness on `Take`, which the other worker's lease
  interrupts); leases lapse; the chain decides each transfer.
* `SyncFaults` (`SyncFairness`): the chain grows and every loop ticks on (weak fairness on
  each); no fault owes anything.
* `DepositPath` (`Fairness`): the same, and the replicas work through their partitions.
* `TransferBatch` (`FairSpec`): workers tick on, time passes for stale items, and an item
  that waits for its retry is old enough at one of the ticks (strong fairness on the
  claim, which the back-off interrupts).
* `Consolidation` (`Fairness`): the workers' loops run on, and time passes: transactions
  grow old, claims lapse, top-ups settle, mined blocks become final. Nothing says that
  a sweep is ever mined.
* `TransferNonces` (`FairSpec`): handlers run to their end, the goroutines of a batch start,
  and a free lock goes to whoever waits for it (Go's mutex is fair to the starving; weak
  fairness is enough here, as requests do not return).

Operators and depositors owe nothing. Back-off delays are left out: a task may be
due at any time, which the delays only restrict.

## 4. What the violations show, and what else the models show

* **PayoutCrash.** The hash of a transfer is written only after it is sent. A crash in
  between leaves a `pending_broadcast` task without a hash or a counted attempt; the
  transfer is sent again, and if that one fails the money is returned while the first
  transfer is confirmed. (Also: the handler's 20 s context ending right after the broadcast.)
* **NonceLeak.** A transfer takes the lock of the wallet in `AcquireNonce` and defers the release
  only after the gas price, although a comment says that the defer covers every way out.
  One unanswered gas price keeps the wallet locked until chainrpc restarts.

Properties are claimed only for the faults they survive, or with the exception named by a
history variable. Where the code gives them up:

* *Withdrawals.* `GetTransactionStatus` calls a transfer confirmed when its receipt is three blocks
  deep, whatever the receipt says (`gettransactionstatuslogic.go:113`), and the worker asks for
  that flag before it asks for `FAILED` (`withdraw_payout_worker.go:459`). A reverted transfer is
  therefore sent again by a worker that looks early, and *settled* by one that looks late: the user
  pays for what he never got, with one worker and no fault. On TRON the fallback (:172-215) takes
  the block number for 0 and confirms what is in no block. So no run claims that a settled order
  was received; what remains is `SettledIsMined`, that *some* transfer was mined (on TRON:
  sent). The other payout properties hold with the answers as they are.
  Also given up: `ContractSpec` under `rpc_down` and `event_read` and for assets of fewer than
  six decimals (an order is failed or cancelled while its money stays locked);
  `OneLiveTransfer` under `crash`, `lost_hash`, `db_write` and `lease_lapse`; `SettledIsMined`
  when operators complete orders by hand with a hash that is in no block; `ProcessingIsHeld` under
  `rollback`: approval relies on a freeze with the order's old key to "ensure funds are
  frozen", and after a cancellation that rolled back behind its unfreeze the freeze is
  answered as a duplicate and nothing is held. `ContractSpec` when operators use `fail`: the
  worker's last transaction sets `completed` by order id without a status guard, over
  an order that an operator has failed meanwhile.
* *Chain synchronisation.* Nothing handles a reorganisation: `ReorgDetector` has no caller,
  although `transaction_confirm_manager.go:312-314` leaves it to a dedicated job, so a moved
  transaction is confirmed by the block it was first seen in (`moved`). A Redis
  error on reading the cursor restarts near the head, logs that do not come are
  scanned as none, a block answered as null is taken for an empty one, and rows a week old
  are given up (`lost`). Blocks of Ethereum and BSC are read without receipts, and a transaction
  is kept if its sender or recipient is monitored (`address_monitor_scan_blocks.go:260-311`; logs,
  though looked at, are empty by then, and a token's recipient is put in only for a direct
  `transfer`). A `transferFrom`, a multisend or a contract's transfer to a monitored
  address is passed by the cursor for good, without any fault, although the parser
  (`token_parser.go:154-159`) and the table (`unconfirmed_transaction_repository.go:93`) are made
  for swaps and authorised transfers. `ScannedIsStored`, `FinalIsPublished` and `FinalIsCredited`
  are therefore about `Relevant` transactions only.
* *Deposits.* The ledger's key is the transaction hash, so the second transfer of a
  transaction to monitored addresses is refused (`RefusedHasSibling` says that only
  those are). A transfer from an address of the service, or of an asset it does not know, is done
  without a booking (`Ignored`). A consumer group without an offset starts at the newest message.
* *Internal transfers.* The payer's cancellation never unfreezes; a whole-row `Save` can
  overwrite an operator's decision; an approval after a refund that rolled back
  takes another order's hold (`torn`).
* *Batches.* A retry between a worker's count and its write leaves items in "retrying" under a
  batch that is shown as ended (`raced`).
* *Consolidation* (`Stranded`, `unguarded`). A top-up record left pending by a crash or a
  failed write is read by nobody (`GetPendingRecords` has no caller), and a task that needs
  gas for tokens that are gone cannot leave that state, since the estimate fails. A sweep
  whose first transaction went out unnoticed may end as permanently failed
  although the tokens arrived, and the address is then never discovered again. A top-up
  that was sent although its call failed counts neither as sent nor towards the cap.
* *Nonces.* A nonce is used twice once the entry has expired, been lost in a restart or missed
  an unknown send (`forgot`) and at the same time a node lags or has dropped something. A
  dropped transaction leaves its nonce empty below later ones, and each success renews the
  entry, so the manager counts on above it. Top-ups and payouts may take the same nonce; one of
  the two is then refused, or replaces the other.

## 5. Proofs

`Sums` holds what the other proof modules need of `SumFunctionOnSet` and `SumFunction`: the
value on the empty set, the sum with one more index (`SumPicked`, `SumTakeOut`), what one changed index does
to it (`SumChanged`), bounds and monotonicity. The library defines a sum by a fold, whose
recursion the provers cannot follow. A sum is characterised instead as the last value of any
function that starts at 0 and adds one term at a time, and the lemmas go by induction over
the finite subsets of the index set: the strict subset order on them is well founded, and
a least counterexample has a smaller one.

`AccountingLedgerProofs`, for every choice of the constants that satisfies
`AmountAssumption`, `NoneAssumption` and `SetupAssumption`:

* `TypeCorrect == Spec => []TypeOK`. Inductive: every action books through `Post`, whose
  guard `Fits` bounds each row it changes, or leaves the books alone. It contains the
  no-underflow property.
* `ImplementsJournal`: as long as no normal side is flipped under booked money
  (`~FlipsInUse`), `Spec` implements `JournalSpec`. The invariant adds that the sides in use are
  those installed; each booking then moves the book, read in net debits, by exactly the
  request (`Delta` is undone by `NetDebit`), and a replay or refusal is a stutter. Without
  the hypothesis it is false: flipping a side changes the sign of a balance.
* `RecordsBacked == Spec => []RecordsAreBacked`. The strengthening `RecordsInv` adds that every
  row *in flight* is backed; it is kept because a key, once booked, is never booked
  differently (`PostedGrows`).
* `BooksBalance == Spec => []TrialBalance`, under `~FlipsInUse` as above: debits equal credits over
  all rows of an asset. By `ImplementsJournal` the book moves by exactly the request, all of
  its rows or none, and `PostTx` has checked that the request's own postings sum to zero.

`TransferBatchProofs`, under `BatchAssumption` (users, amounts and replicas arbitrary):

* `TypeCorrect`, and `CreditsNeedExecution`: no item is credited unless the batch was started.
* `CompletedBatchesPaid == Spec => []CompletedIsPaid`. Not inductive alone: the status is
  written from an older count. `SettledInv` adds that a successful item is booked and that a
  worker carrying the verdict "completed" has seen, and still has, only successes;
  `BatchInv` joins it with the other invariants.
* `ItemsPaidOnce == Spec => []ItemsArePaidOnce`, for finitely many items: each user has received
  the sum of what was booked for him. A credit adds one item to that sum only if its key
  is new, whatever worker makes it, however often it is retried (`PaidInv`).

`NonceManagerProofs`, for any requests, top-ups, bounds and faults under `NonceAssumption`:

* `TypeCorrect`: with the types, that a managed transfer at work holds the lock (so no
  two hold nonces at once) and that a batch keeps to its semaphore.
* `NoGapsEver == Spec => []NoGaps`. `GapInv` adds that no nonce handed out has a gap below it
  and that the remembered nonce was sent. Lemma `Steps` reduces the actions to four
  effects on nonces (granted, read, sent, at rest), over which the invariants are shown.
* `UniqueNonces == Spec => []NoncesAreUnique`. `UniqueInv` has one clause per safeguard: with a
  complete memory all that was sent is at or below `lastNonce` and below what is handed
  out; with nodes that keep up, what is handed out is free (`FreshAnswersAreFree` uses `GapInv`).

`InternalTransferProofs`, under `NoneAssumption`, for any orders and faults:

* `TypeCorrect`.
* `ShownIsPaid == Spec => []CompletedIsPaid`. The invariant (`PaidAt`) is about every copy of a
  row, the table's, a handler's and a canceller's: one that says paid or completed was booked.
* `HoldsAreKept == Spec => []LockedIsHeld`, for finitely many orders: what is locked for a payer is
  the sum of what his orders hold. `HoldAt` adds that nothing is paid or given back out of an order
  before its hold is booked, and that a row says "frozen" only after it.
* `AccountsAgree == Spec => []OrdersAreAccounted`. `AccountsAt` says, for orders no fault has
  torn, how far the books may be ahead of the row at each point of a handler: before
  the ledger answers the row and the books agree, and from the booking to the write
  the operator holds the row lock, so that nobody else may act on the older row.

`WithdrawPayoutProofs`, under `NoneAssumption`, for any orders, workers and operators. Each
theorem's hypotheses take out the faults and operations that make its claim false:

* `TypeCorrect`; a hash that is known is of a transfer sent for that order.
* `CompletedOnlySettled`: an order called completed was settled in the ledger.
* `SettledOnlyMined`: a settled order has a transfer that was mined, or on TRON sent (`AllPaid`,
  `Vouched`: a `settle_pending` task, and a worker about to settle, have one). Without the manual
  "complete", which settles without looking at the chain.
* `PaidOnlyOnce`: at most one live transfer (`AllSole`), without crashes, failed task writes,
  lost hashes and lapsed leases: run `PayoutCrash` shows that a crash breaks it.
* `ProcessingOnlyHeld`: a processing order has its money held (`AllHeld`), without the faults that
  part the tables from the ledger: a crash, a failed write, a lost answer, a rollback or an
  unknown commit after the ledger call.
* `ConfirmedChargeable`: a confirmed transfer is charged or still can be (`AllCharged` over
  `AllSole`). Besides the faults of `PaidOnlyOnce`, rollbacks and unknown commits, without the manual "fail", which races the worker, and
  without lost answers to a cancel or reject: the order is then still pending with its money
  back, can be approved, and its second freeze is taken for a replay of the first.
* `LockedOnlyHeld == Spec => []LockedIsHeld`, for finitely many orders, under the same hypotheses:
  what is locked for a user is the sum of what his orders hold. The books alone do not say so: the
  ledger would settle an order after its refund, out of another order's hold. So the proof first
  shows that nobody asks for it (`OrderlyInv`: with `AllPaid`, `AllSole`, `AllCharged` and `AllPast`, whoever
  settles or refunds does so on money that is held, `StepBooks`, and an order is spent once,
  `AllSpent`; `AllPast` says that a task once ready for its settlement does not go back, since a
  reverted transfer may be failed to one worker, who then refunds, and confirmed to the next), then that each booking moves the balance by what it moves the sum (`HoldsInv`).
* `KeepsWithdrawContract == Spec => ContractSpec`: `WithdrawPayout` implements `WithdrawContract`, every
  step a step of the contract or a stutter. Besides the above it needs that a refund reaches the
  ledger (`Dependable`: no `rpc_down` and `event_read`, six decimals) and that the ledger then takes
  it (`RefundAccepted`, from `HoldsInv`: the hold is there and fits back). `AllClosed` adds that who
  turns an order down, or still has to write it, has the money back. The bookings of a step map to
  `Hold`, `Pay` and `Refund`, the changes of a row to `Accept` and `Close`; that a late worker cannot
  reopen or restate a closed order is what the mapping of rows shows. With one fault of any
  other kind TLC finds the contract broken on two orders of one user, save `lost_hash`, which the
  contract survives there, but not `AllSole`, on which the proof rests.

`DepositPipelineProofs`, part 1 (`ChainSync`), for any transactions, depths, batch sizes and budgets:

* `SyncTypeCorrect`: the cursor and the confirm loop's view of the head are never ahead of the chain.
* `OnlyFinalIsPublished == SyncSpec => []PublishedIsFinal`. `SeenInv` adds that the block in
  every row, scan and batch of an unmoved transaction is the chain's; then the depth test of
  the confirm loop is about the real block, and what is final stays final (`FinalStays`).
* `NothingSlipsBy == SyncSpec => []ScannedIsStored`. `StoredInv` extends the claim from the
  cursor to the blocks a scan has already done with and to the block in hand, whose
  transfers are stored, still to do, or lost to a fault. It is about relevant transactions, for
  any choice of them; of the others nothing is ever stored.

Part 2, on top of part 1, under `RequestAssumption`:

* `TypeCorrect`, and `ShownOnlyBooked == Spec => []ShownIsBooked`. `PipeInv` relates what a
  consumer has in hand and what each partition carries to the rows and the books.
* `KeepsContract`: the pipeline implements `DepositContract`, step by step, under `DistinctRequests`
  (two deposits of one transaction never make the same request). Otherwise the second
  is answered as a replay of the first, and is never credited.
* `BalanceIsBacked == Spec => []AddressBalanceIsBacked`, for finitely many transactions: what an address
  shows is never more than what was booked for it. The balance is read in one statement
  and written in another (`prev`), so `BackedInv` bounds the row and every *read* of it by what
  was counted; one update more than its read is lost, never invented.
* `RefusalsHaveSiblings == Spec => []RefusedHasSibling`, for finitely many transfers: the ledger refuses
  a deposit only for a sibling under its key. Every other reason is excluded: `RoomInv` keeps
  each balance between 0 and the sum of the booked deposits, so that one more fits in
  `MaxRaw`, and no row of the set-up tables against it.

`ConsolidationProofs`, under `ConsolidationAssumption` (any number of tasks, instances and workers,
each worker a loop of one kind):

* `TypeCorrect`; `ConfirmedSwept == Spec => []ConfirmedIsSwept`; `RetriesBounded == Spec => []RetriesAreBounded`.
* They share one invariant, `ConsInv`. `WorkersKnow`: what a worker whose version is current may
  rely on, at each point of its loop (a fresh tracker's transaction is the row's, and what
  it holds as final is final); a stale one writes nothing, since every write is guarded by the
  version. `RowsAreSound`: at most one active row per address, stored transactions were sent,
  a confirmed row's transaction succeeded, and the transactions spent on a row fit the
  budget of its retries and bumps (`Spent`; void after a discovery that could not read the failures, `unguarded`). `Legal` lists the changes a row may undergo, so
  that what one worker knows is shown to survive the others once instead of per action.

*Model-checked only*, on the instances of section 3: all liveness (fairness and `ENABLED` are out
of the prover's reach), and what the theorems' hypotheses leave out where a run still has it.

## 6. Not modelled

The components marked `not_modelled` in `PROJECT.json`: the amount codec and fee rules are
pure functions (the models take raw integers, except where a conversion decides an
outcome: the refusal in `FailAndUnfreeze`, the dust of a refund); signer, market
data, notification and gateway keep hardly any state; swap and the
reconciliation of display rows are candidates for later. Most lines of the
repository are generated (`proto/pb`) or user interface and hold no logic of their own.

Inside the modelled ones: risk checks, limits and the audit rules that choose a
strategy; events, audit logs, mails and alerts; row locks and lock waits inside `PostTx`;
creating assets and account types; user-facing records in the payout model, and the
depth of a transfer there (`Answers` allows what any depth may answer; reorganisations after the
worker's three blocks, and a TRON node that answers without a head, are left out; the statuses
DROPPED and REPLACED are never reported); in the deposit path addresses that become
monitored or cease to be, company addresses other than the hot wallet's, and the
display rows of self-custody wallets (the hot wallet's funding is
in the model and in `LedgerBooks`, but no address of `DepositPath` is the company's); in
Consolidation TRON's energy, bandwidth and activation, sweeps of native
balances, the fee guard and the expected fee's arithmetic.
In chain access TRON (its transactions have no nonce), requests that bring a nonce or a gas
price of their own, and fee queries; the payout and consolidation models take a
transfer as one call.

## 7. Plan

1. Consolidation under contention: a second instance, a second top-up worker and two events
   at once; TRON's energy rental; the cap on top-up spending under unknown sends.
2. **Row-level PostTx**: the reads before the transaction, the per-row updates and row
   locks, refining `AccountingLedger`; lock order and stale normal sides.
3. **AmountCodec**: parsers, truncations and the inner-deduct fee rules as operators,
   checked against rationals over bounded inputs.
4. Proofs: weaker hypotheses for `ProcessingOnlyHeld` (which of its faults hurt only
   together with another) and for `KeepsWithdrawContract` (`lost_hash`); the abstract steps of
   `PostTx` once item 2 stands.
