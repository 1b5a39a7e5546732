------------------------------ MODULE ChainSync ------------------------------
(***************************************************************************)
(* The chainsync service on one chain: the head tracker, the block scanner *)
(* (address_monitor_*.go) that stores the transfers of monitored addresses,*)
(* the confirm manager that publishes them to Kafka once they are deep     *)
(* enough, and the retry queue for messages Kafka did not take.            *)
(*                                                                         *)
(* A transfer is one event of a transaction that touches one monitored     *)
(* address.  The service runs as one process; the scanner, the confirm     *)
(* loop, the retry queue and the daily clean-up are goroutines that share  *)
(* only the database and the head.  A reading or writing call to Redis, a  *)
(* node, the database or Kafka is a step; waiting times are left out.      *)
(* Nothing in the service handles a reorganisation: ReorgDetector has no   *)
(* caller, so a stored row keeps the block it was first seen in.           *)
(***************************************************************************)
EXTENDS Integers, Sequences, FiniteSets, SequencesExt

CONSTANTS
  Txs,           \* transaction hashes
  Transfers,     \* transfer events of these transactions
  Addresses,     \* monitored addresses
  TxOf,          \* transfer -> transaction
  AddressOf,     \* transfer -> monitored address
  Reverted,      \* transactions the chain executes without success
  Relevant,      \* transactions whose sender or recipient, as a block lists them,
                 \* is a monitored address
  Required,      \* confirmations of the chain; no block that deep is replaced
  Lookback,      \* BlockLookback, where a scan starts without a cursor
  BatchSize,     \* blocks a scan reads
  MaxRetries,    \* max_retries of a row
  QueueRetries,  \* max_retries of a message in the retry queue
  BatchRetries,  \* MaxRetries of the batch processor
  MaxHead,       \* bound on the blocks of a behaviour
  FaultKinds,    \* which faults may occur
  MaxFaults,     \* bound on the faults of a behaviour
  None

ASSUME SyncAssumption ==
  /\ TxOf \in [Transfers -> Txs] /\ AddressOf \in [Transfers -> Addresses]
  /\ Relevant \subseteq Txs
  /\ Required \in Nat /\ Lookback \in Nat /\ BatchSize \in Nat \ {0}
  /\ MaxRetries \in Nat /\ QueueRetries \in Nat \ {0} /\ BatchRetries \in Nat
  /\ MaxHead \in Nat \ {0} /\ MaxFaults \in Nat
  /\ None \notin Transfers /\ None \notin [block : Nat, status : {"pending", "sent", "failed"}, left : Nat]

VARIABLES
  chain,   \* transaction -> height of the block it is in, or 0
  head,    \* height of the last block
  moved,   \* transactions a reorganisation has taken from their block (history)
  known,   \* what the head tracker knows of head
  cursor,  \* chain:last_processed_block in Redis
  scan,    \* the scanner
  row,     \* transfer -> row of unconfirmed_transactions, or None
  confirm, \* the confirm manager and the batch it holds in memory
  queue,   \* pending rows of kafka_failed_messages
  log,     \* address -> messages under its Kafka key
  lost,    \* transfers the service has dropped (history)
  faults

chainVars == <<chain, head, moved>>
syncVars == <<chainVars, known, cursor, scan, row, confirm, queue, log, lost, faults>>

Fault(kind) == kind \in FaultKinds /\ faults < MaxFaults /\ faults' = faults + 1

\* Deep enough that no reorganisation reaches it.
Deep(x) == chain[x] # 0 /\ head - chain[x] >= Required

\* The messages that went out, whenever and however often.
Published == UNION {Range(log[a]) : a \in Addresses}

-------------------------------------------------------------------------------
(* The chain.                                                              *)

Mine ==
  /\ head < MaxHead
  /\ head' = head + 1
  /\ \E S \in SUBSET {x \in Txs : chain[x] = 0} :
       chain' = [x \in Txs |-> IF x \in S THEN head + 1 ELSE chain[x]]
  /\ UNCHANGED <<moved, known, cursor, scan, row, confirm, queue, log, lost, faults>>

\* A reorganisation puts a transaction into another of the replaced blocks, or
\* into none of them.
Reorganise(x) ==
  /\ ~Deep(x)
  /\ Fault("reorg")
  /\ \E h \in {0} \cup {i \in 1 .. head : head - i < Required} :
       h # chain[x] /\ chain' = [chain EXCEPT ![x] = h]
  /\ moved' = moved \cup {x}
  /\ UNCHANGED <<head, known, cursor, scan, row, confirm, queue, log, lost>>

\* HeadTracker.refreshOnce; Set never lowers the head.
RefreshHead ==
  /\ known < head
  /\ known' = head
  /\ UNCHANGED <<chainVars, cursor, scan, row, confirm, queue, log, lost, faults>>

-------------------------------------------------------------------------------
(* The scanner.                                                            *)

ScanIdle == [pc |-> "idle", block |-> 0, last |-> 0, todo |-> {}]

\* Transfers are worked through in a fixed order.
First(S) == CHOOSE t \in S : TRUE

Between(low, high) == {t \in Transfers : chain[TxOf[t]] \in low .. high}

\* isTransactionRelevant: blocks are read without receipts, so a transaction
\* shows its sender and its recipient and no events.  One that only its events
\* or its internal calls connect with a monitored address is passed over.
Shown(low, high) == {t \in Between(low, high) : TxOf[t] \in Relevant}

Least(i, j) == IF i < j THEN i ELSE j

\* Mutant: a scan starts one block late.
ScanFrom_OffByOne(base) ==
  /\ base + 1 < head
  /\ scan' = [pc |-> "fetch", block |-> base + 2, last |-> Least(head, base + 1 + BatchSize),
              todo |-> {}]
  /\ UNCHANGED <<chainVars, known, cursor, row, confirm, queue, log>>

\* scanNewBlocksBatch reads on from the cursor up to the head itself.
ScanFrom(base) ==
  /\ base < head
  /\ scan' = [pc |-> "fetch", block |-> base + 1, last |-> Least(head, base + BatchSize),
              todo |-> {}]
  /\ UNCHANGED <<chainVars, known, cursor, row, confirm, queue, log>>

Fallback == IF known > Lookback THEN known - Lookback ELSE 1

\* A cursor that cannot be read is replaced by a look back from the head.
ScanStart ==
  /\ scan.pc = "idle"
  /\ \/ ScanFrom(cursor) /\ UNCHANGED <<lost, faults>>
     \/ /\ Fault("cursor_read")
        /\ ScanFrom(Fallback)
        /\ lost' = lost \cup {t \in Shown(cursor + 1, Fallback) : row[t] = None}

\* The relevant transfers of a block.  A failed transaction is left out if its
\* status is known yet; the events of one whose logs cannot be read are missed,
\* and a block the node answers as null is read as an empty one.
ScanFetch ==
  LET shown == Shown(scan.block, scan.block)
  IN /\ scan.pc = "fetch"
     /\ \E seen \in SUBSET Reverted, missed \in SUBSET shown :
          /\ \/ missed = {} /\ UNCHANGED faults
             \/ missed # {} /\ Fault("no_logs")
             \/ missed # {} /\ missed = shown /\ Fault("null_block")
          /\ lost' = lost \cup missed
          /\ scan' = [scan EXCEPT !.pc = "save",
                                  !.todo = {t \in shown : TxOf[t] \notin seen} \ missed]
     /\ UNCHANGED <<chainVars, known, cursor, row, confirm, queue, log>>

NewRow(block) == [block |-> block, status |-> "pending", left |-> MaxRetries]

\* saveUnconfirmedTransactionWithIndex: what is stored is left alone.
ScanSave ==
  LET t == First(scan.todo)
  IN /\ scan.pc = "save" /\ scan.todo # {}
     /\ scan' = [scan EXCEPT !.todo = @ \ {t}]
     /\ row' = IF row[t] = None THEN [row EXCEPT ![t] = NewRow(scan.block)] ELSE row
     /\ UNCHANGED <<chainVars, known, cursor, confirm, queue, log, lost, faults>>

\* Mutant: the cursor runs ahead of a block that is not stored yet.
ScanAdvance_TooEarly ==
  /\ scan.pc = "save"
  /\ cursor' = scan.block
  /\ scan' = IF scan.block = scan.last THEN ScanIdle
             ELSE [scan EXCEPT !.pc = "fetch", !.block = @ + 1]
  /\ UNCHANGED <<chainVars, known, row, confirm, queue, log, lost, faults>>

\* The cursor follows each block; a write of it that fails is only logged.
ScanAdvance ==
  /\ scan.pc = "save" /\ scan.todo = {}
  /\ \/ cursor' = scan.block /\ UNCHANGED faults
     \/ Fault("cursor_write") /\ UNCHANGED cursor
  /\ scan' = IF scan.block = scan.last THEN ScanIdle
             ELSE [scan EXCEPT !.pc = "fetch", !.block = @ + 1]
  /\ UNCHANGED <<chainVars, known, row, confirm, queue, log, lost>>

\* A block that cannot be read or a row that cannot be written ends the scan.
ScanAbort ==
  /\ scan.pc # "idle"
  /\ Fault("scan_error")
  /\ scan' = ScanIdle
  /\ UNCHANGED <<chainVars, known, cursor, row, confirm, queue, log, lost>>

-------------------------------------------------------------------------------
(* The confirm manager.                                                    *)

ConfirmIdle == [pc |-> "idle", batch |-> <<>>, todo |-> {}, t |-> None,
                head |-> 0, err |-> FALSE, left |-> 0]

\* checkAndConfirmTransactions takes the pending rows into memory.
ConfirmStart ==
  LET due == {t \in Transfers : row[t] # None /\ row[t].status = "pending" /\ row[t].block <= known}
  IN /\ confirm.pc = "idle" /\ due # {}
     /\ confirm' = [pc |-> "check", batch |-> [t \in due |-> row[t].block], todo |-> due,
                    t |-> None, head |-> known, err |-> FALSE, left |-> BatchRetries]
     /\ UNCHANGED <<chainVars, known, cursor, scan, row, queue, log, lost, faults>>

Restated(t, status, left) ==
  row' = IF row[t] = None THEN row ELSE [row EXCEPT ![t].status = status, ![t].left = left]

\* On to the next row of the batch.
Passes(t, err) ==
  confirm' = [confirm EXCEPT !.pc = "check", !.t = None, !.todo = @ \ {t}, !.err = @ \/ err]

DeepEnough(t) == confirm.head - confirm.batch[t] >= Required

\* Mutant: one confirmation too few.
Check_OneShort ==
  LET t == First(confirm.todo)
  IN /\ confirm.pc = "check" /\ confirm.todo # {}
     /\ IF chain[TxOf[t]] # 0 /\ TxOf[t] \notin Reverted
           /\ confirm.head - confirm.batch[t] + 1 >= Required
          THEN confirm' = [confirm EXCEPT !.pc = "send", !.t = t]
          ELSE Passes(t, FALSE)
     /\ UNCHANGED <<chainVars, known, cursor, scan, row, queue, log, lost, faults>>

\* processTransactions up to the receipt.  One that cannot be had, or says
\* nothing yet, leaves the row pending; one of a failure is the end of it.
Check ==
  LET t == First(confirm.todo)
      x == TxOf[t]
  IN /\ confirm.pc = "check" /\ confirm.todo # {}
     /\ \/ ~DeepEnough(t) /\ Passes(t, FALSE) /\ UNCHANGED <<row, faults>>
        \/ DeepEnough(t) /\ chain[x] = 0 /\ Passes(t, FALSE) /\ UNCHANGED <<row, faults>>
        \/ DeepEnough(t) /\ Fault("receipt_error") /\ \E err \in BOOLEAN : Passes(t, err)
           /\ UNCHANGED row
        \/ /\ DeepEnough(t) /\ chain[x] # 0 /\ x \in Reverted
           /\ Passes(t, FALSE) /\ Restated(t, "failed", 0)
           /\ UNCHANGED faults
        \/ /\ DeepEnough(t) /\ chain[x] # 0 /\ x \notin Reverted
           /\ confirm' = [confirm EXCEPT !.pc = "send", !.t = t]
           /\ UNCHANGED <<row, faults>>
     /\ UNCHANGED <<chainVars, known, cursor, scan, queue, log, lost>>

Publish(t) == log' = [log EXCEPT ![AddressOf[t]] = Append(@, t)]

\* A send that fails, or seems to, is queued and the row is marked failed.
Send ==
  LET t == confirm.t
  IN /\ confirm.pc = "send"
     /\ \/ /\ Publish(t)
           /\ confirm' = [confirm EXCEPT !.pc = "mark"]
           /\ UNCHANGED <<row, queue, faults>>
        \/ /\ \/ Fault("send_error") /\ UNCHANGED log
              \/ Fault("send_unknown") /\ Publish(t)
           /\ queue' = Append(queue, [t |-> t, left |-> QueueRetries])
           /\ row' = IF row[t] = None THEN row ELSE [row EXCEPT ![t].status = "failed"]
           /\ Passes(t, TRUE)
     /\ UNCHANGED <<chainVars, known, cursor, scan, lost>>

\* MarkAsSent.
Mark ==
  LET t == confirm.t
  IN /\ confirm.pc = "mark"
     /\ \/ /\ row' = IF row[t] = None THEN row ELSE [row EXCEPT ![t].status = "sent"]
           /\ Passes(t, FALSE)
           /\ UNCHANGED faults
        \/ Fault("mark_error") /\ Passes(t, TRUE) /\ UNCHANGED row
     /\ UNCHANGED <<chainVars, known, cursor, scan, queue, log, lost>>

\* processSingleBatch: after any error the whole batch is done again from
\* memory, with the rows that were sent and marked meanwhile.
EndBatch ==
  /\ confirm.pc = "check" /\ confirm.todo = {}
  /\ confirm' = IF confirm.err /\ confirm.left > 0
                  THEN [confirm EXCEPT !.todo = DOMAIN confirm.batch, !.head = known,
                                       !.err = FALSE, !.left = @ - 1]
                  ELSE ConfirmIdle
  /\ UNCHANGED <<chainVars, known, cursor, scan, row, queue, log, lost, faults>>

\* retryFailedTransactions, once a day.
Requeue(t) ==
  /\ row[t] # None /\ row[t].status = "failed" /\ row[t].left > 0
  /\ row' = [row EXCEPT ![t].status = "pending", ![t].left = @ - 1]
  /\ UNCHANGED <<chainVars, known, cursor, scan, confirm, queue, log, lost, faults>>

\* DeleteExpiredTransactions: seven days and still not sent.
Expire(t) ==
  /\ row[t] # None /\ row[t].status # "sent"
  /\ Fault("week")
  /\ row' = [row EXCEPT ![t] = None]
  /\ lost' = lost \cup {t}
  /\ UNCHANGED <<chainVars, known, cursor, scan, confirm, queue, log>>

\* Mutant: a message stays in the queue after its last try.
RetryMessage_Forever(i) ==
  /\ i \in DOMAIN queue
  /\ \/ Publish(queue[i].t) /\ queue' = RemoveAt(queue, i) /\ UNCHANGED faults
     \/ Fault("send_error") /\ queue' = [queue EXCEPT ![i].left = @ - 1] /\ UNCHANGED log
  /\ UNCHANGED <<chainVars, known, cursor, scan, row, confirm, lost>>

\* KafkaRetryQueue.retryMessage.
RetryMessage(i) ==
  LET m == queue[i]
      Left == IF m.left = 1 THEN RemoveAt(queue, i) ELSE [queue EXCEPT ![i].left = @ - 1]
  IN /\ i \in DOMAIN queue
     /\ \/ Publish(m.t) /\ queue' = RemoveAt(queue, i) /\ UNCHANGED faults
        \/ Publish(m.t) /\ Fault("mark_error") /\ UNCHANGED queue
        \/ Fault("send_error") /\ queue' = Left /\ UNCHANGED log
     /\ UNCHANGED <<chainVars, known, cursor, scan, row, confirm, lost>>

\* The service dies and comes back; the head is warmed from Redis.
SyncCrash ==
  /\ Fault("crash")
  /\ scan' = ScanIdle
  /\ confirm' = ConfirmIdle
  /\ UNCHANGED <<chainVars, known, cursor, row, queue, log, lost>>

-------------------------------------------------------------------------------
SyncInit ==
  /\ chain = [x \in Txs |-> 0] /\ head = 1 /\ moved = {}
  /\ known = 1 /\ cursor = 1
  /\ scan = ScanIdle /\ confirm = ConfirmIdle
  /\ row = [t \in Transfers |-> None]
  /\ queue = <<>>
  /\ log = [a \in Addresses |-> <<>>]
  /\ lost = {}
  /\ faults = 0

Scanner == ScanStart \/ ScanFetch \/ ScanSave \/ ScanAdvance
Confirmer == ConfirmStart \/ Check \/ Send \/ Mark \/ EndBatch

SyncNext ==
  \/ Mine \/ RefreshHead \/ Scanner \/ Confirmer \/ ScanAbort \/ SyncCrash
  \/ \E x \in Txs : Reorganise(x)
  \/ \E t \in Transfers : Requeue(t) \/ Expire(t)
  \/ \E i \in DOMAIN queue : RetryMessage(i)

SyncSpec == SyncInit /\ [][SyncNext]_syncVars

\* Every goroutine ticks for ever and the chain grows.  Faults owe nothing.
SyncFairness ==
  /\ WF_syncVars(Mine) /\ WF_syncVars(RefreshHead)
  /\ WF_syncVars(Scanner) /\ WF_syncVars(Confirmer)
  /\ \A t \in Transfers : WF_syncVars(Requeue(t))
  /\ WF_syncVars(\E i \in DOMAIN queue : RetryMessage(i))

SyncFairSpec == SyncSpec /\ SyncFairness

-------------------------------------------------------------------------------
(* Properties.                                                             *)

Heights == 0 .. MaxHead
RowType == [block : 1 .. MaxHead, status : {"pending", "sent", "failed"}, left : 0 .. MaxRetries]

ChainTyped ==
  /\ chain \in [Txs -> 0 .. head] /\ head \in 1 .. MaxHead
  /\ moved \subseteq Txs /\ lost \subseteq Transfers
  /\ known \in 1 .. head /\ cursor \in 1 .. head
  /\ faults \in 0 .. MaxFaults

ScanTyped ==
  /\ scan \in [pc : {"idle", "fetch", "save"}, block : 0 .. head, last : 0 .. head,
               todo : SUBSET Transfers]
  /\ scan.pc # "idle" => scan.block \in 1 .. scan.last

ConfirmTyped ==
  /\ DOMAIN confirm = DOMAIN ConfirmIdle
  /\ confirm.pc \in {"idle", "check", "send", "mark"}
  /\ confirm.head \in 0 .. known /\ confirm.err \in BOOLEAN /\ confirm.left \in 0 .. BatchRetries
  /\ DOMAIN confirm.batch \subseteq Transfers
  /\ \A t \in DOMAIN confirm.batch : confirm.batch[t] \in 1 .. head
  /\ confirm.todo \subseteq DOMAIN confirm.batch
  /\ confirm.pc \in {"send", "mark"} => confirm.t \in confirm.todo

StoreTyped ==
  /\ row \in [Transfers -> RowType \cup {None}]
  /\ queue \in Seq([t : Transfers, left : 1 .. QueueRetries])
  /\ log \in [Addresses -> Seq(Transfers)]

\* Rows, cursors and control states have their types; neither the cursor nor what
\* the confirm loop has read is ahead of the chain, and the row in its hand
\* belongs to the batch it read.
SyncTypeOK == ChainTyped /\ ScanTyped /\ ConfirmTyped /\ StoreTyped

\* Nothing is published before it is final: of the transactions no
\* reorganisation has touched, only executed ones that no reorganisation can
\* touch any more go out.
PublishedIsFinal ==
  \A t \in Published : TxOf[t] \notin moved => Deep(TxOf[t]) /\ TxOf[t] \notin Reverted

\* No transfer the scanner looks for slips by the cursor: a relevant one in a
\* scanned block is stored, unless a reorganisation put it there afterwards or
\* the service is known to have dropped it.
ScannedIsStored ==
  \A t \in Shown(2, cursor) :
    row[t] # None \/ TxOf[t] \in moved \/ TxOf[t] \in Reverted \/ t \in lost

\* Every final transfer the scanner looks for is published in the end, unless a
\* fault is known to have cost it: crashes, failed calls and restarted scans
\* lose none.
FinalIsPublished ==
  \A t \in Transfers :
    (Deep(TxOf[t]) /\ TxOf[t] \in Relevant \ Reverted)
      ~> (t \in Published \/ t \in lost \/ TxOf[t] \in moved)
===============================================================================
