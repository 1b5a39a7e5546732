----------------------------- MODULE TransferBatch -----------------------------
(***************************************************************************)
(* A batch of credits to users inside the ledger.  Operators import it,    *)
(* have it approved and start it; from then on the workers of the admin    *)
(* service's replicas (transfer_batch_worker.go) claim its items one by    *)
(* one, book each through AdminAdjust and mark it, and at the end of each  *)
(* round count the items and write the status of the batch.                *)
(*                                                                         *)
(* Operators' handlers lock the row of the batch and are one step; the     *)
(* workers lock a row of an item while they claim it and nothing else, so  *)
(* each of their statements is a step.  Batches share no row and no key:   *)
(* one is enough.                                                          *)
(***************************************************************************)
EXTENDS Integers, FiniteSets, Functions

CONSTANTS
  Items,      \* the transfers of the batch
  Workers,    \* replicas of the admin service
  UserOf,     \* item -> the user it credits
  AmountOf,   \* item -> raw amount
  MaxRetries, \* bound on how often an operator retries one item
  Asset, Chain,
  FaultKinds, \* which faults may occur
  MaxFaults,  \* bound on the faults of a behaviour
  None

ASSUME BatchAssumption ==
  /\ MaxRetries \in Nat /\ MaxFaults \in Nat
  /\ AmountOf \in [Items -> Nat \ {0}]
  /\ UserOf \in [Items -> Range(UserOf)]
  /\ None \notin Items \cup {"success", "failed", "processing", "completed", "partial_failed"}

VARIABLES
  posted, balance, enabled, support, retired, normalSide, record, inflight, \* the ledger
  batch,  \* status of the row of transfer_batches, or None
  item,   \* item -> its row of transfer_batch_items
  lapsed, \* items whose lease has run out while they are being processed
  worker, \* replica -> where it is in its round
  raced,  \* a status was written over items that no longer bear it out (history)
  faults

ledgerVars == <<posted, balance, enabled, support, retired, normalSide, record, inflight>>
vars == <<ledgerVars, batch, item, lapsed, worker, raced, faults>>

Users == Range(UserOf)
LedgerKeys == Items \X (0 .. MaxRetries)

L == INSTANCE AccountingLedger WITH
  Chains <- {Chain}, Assets <- {Asset}, Keys <- LedgerKeys, Withdrawals <- {},
  Amounts <- Range(AmountOf), Fees <- {}, MaxRaw <- SumFunction(AmountOf),
  FinalStatuses <- {}, EditableTypes <- {}, FlippableTypes <- {}, FlipsInUse <- FALSE,
  PausableAssets <- {}

\* "Nothing booked" is told from every request.
ASSUME NoneAssumption ==
  None \notin [op : L!OpTypes, biz : L!BizRefs, net : UNION {[S -> Int] : S \in SUBSET L!BalanceKey}]

Fault(kind) == kind \in FaultKinds /\ faults < MaxFaults /\ faults' = faults + 1

Statuses(S) == {item[i].status : i \in S}

-------------------------------------------------------------------------------
(* The operators.                                                          *)

\* Nothing but the batch and its items changes.
Decides(status, rows) ==
  /\ batch' = status
  /\ item' = rows
  /\ UNCHANGED <<ledgerVars, lapsed, worker, raced, faults>>

ImportTransferBatch == batch = None /\ Decides("draft", item)

SubmitTransferBatch == batch = "draft" /\ Decides("pending", item)

\* A rejection leaves the items pending.
ApproveTransferBatch ==
  /\ batch = "pending"
  /\ \E status \in {"approved", "cancelled"} : Decides(status, item)

Unfinished == {"pending", "retrying", "processing"}

CancelledItems ==
  [i \in Items |-> IF item[i].status \in Unfinished
                     THEN [item[i] EXCEPT !.status = "failed"] ELSE item[i]]

\* Mutant: a batch that has been started may be cancelled.
CancelTransferBatch_Started ==
  /\ batch \in {"draft", "pending", "approved", "processing"}
  /\ Decides("cancelled", CancelledItems)

CancelTransferBatch ==
  /\ batch \in {"draft", "pending", "approved"}
  /\ Decides("cancelled", CancelledItems)

ExecuteTransferBatch == batch = "approved" /\ Decides("processing", item)

\* Failed items, all or a selection, are to be done again.
RetryTransferBatch ==
  /\ batch \in {"processing", "partial_failed"}
  /\ \E S \in SUBSET {i \in Items : item[i].status = "failed" /\ item[i].retries < MaxRetries} :
       /\ S # {}
       /\ Decides("processing",
            [i \in Items |-> IF i \in S
               THEN [status |-> "retrying", retries |-> item[i].retries + 1] ELSE item[i]])

Operator ==
  \/ ImportTransferBatch \/ SubmitTransferBatch \/ ApproveTransferBatch
  \/ CancelTransferBatch \/ ExecuteTransferBatch \/ RetryTransferBatch

-------------------------------------------------------------------------------
(* A round of a worker over the batch.                                     *)

Idle == [pc |-> "idle", item |-> None, result |-> None]
At(pc, i, result) == [pc |-> pc, item |-> i, result |-> result]
Goes(w, to) == worker' = [worker EXCEPT ![w] = to]
Holds(w, i) == worker[w].item = i

\* tick: the list of batches in processing, which may be out of date when the
\* worker comes to this one.
Tick(w) ==
  /\ worker[w].pc = "idle"
  /\ batch = "processing"
  /\ Goes(w, At("recover", None, None))
  /\ UNCHANGED <<ledgerVars, batch, item, lapsed, raced, faults>>

\* Ten minutes have passed since the item was claimed: its worker is gone, or
\* is still there although its call to the ledger times out after 15 seconds.
LeaseLapse(i) ==
  /\ item[i].status = "processing" /\ i \notin lapsed
  /\ IF \E w \in Workers : Holds(w, i) THEN Fault("lease_lapse") ELSE UNCHANGED faults
  /\ lapsed' = lapsed \cup {i}
  /\ UNCHANGED <<ledgerVars, batch, item, worker, raced>>

\* Mutant: items of a worker that died are not taken back.
RecoverStaleProcessing_Never(w) ==
  /\ worker[w].pc = "recover"
  /\ Goes(w, At("claim", None, None))
  /\ UNCHANGED <<ledgerVars, batch, item, lapsed, raced, faults>>

\* An error of the update is logged.
RecoverStaleProcessing(w) ==
  /\ worker[w].pc = "recover"
  /\ Goes(w, At("claim", None, None))
  /\ \/ /\ item' = [i \in Items |-> IF item[i].status = "processing" /\ i \in lapsed
                      THEN [item[i] EXCEPT !.status = "retrying"] ELSE item[i]]
        /\ lapsed' = {}
        /\ UNCHANGED faults
     \/ Fault("db_error") /\ UNCHANGED <<item, lapsed>>
  /\ UNCHANGED <<ledgerVars, batch, raced>>

ClaimNextRunnable(w) ==
  /\ worker[w].pc = "claim"
  /\ \E i \in Items :
       /\ item[i].status \in {"pending", "retrying"}
       /\ item' = [item EXCEPT ![i].status = "processing"]
       /\ lapsed' = lapsed \ {i}
       /\ Goes(w, At("credit", i, None))
  /\ UNCHANGED <<ledgerVars, batch, raced, faults>>

\* Items to be retried may have been tried less than three seconds ago.
NoRunnableItem(w) ==
  /\ worker[w].pc = "claim"
  /\ IF "pending" \in Statuses(Items) THEN Fault("db_error") ELSE UNCHANGED faults
  /\ Goes(w, At("count", None, None))
  /\ UNCHANGED <<ledgerVars, batch, item, lapsed, raced>>

\* Mutant: a retry is a new request to the ledger.
KeyOf_PerRetry(i) == <<i, item[i].retries>>

\* transferBatchCreditIdemKeyAndBizRef: by batch and item.
KeyOf(i) == <<i, 0>>

CreditNet(i) == L!AdjustNet(L!UserKey(UserOf[i], Asset, "available"), "increase", AmountOf[i])
CreditTypes  == L!GlobalTypes \cup L!UserTypes

AdminAdjust(i) ==
  L!AdminAdjust(KeyOf(i), L!UserKey(UserOf[i], Asset, "available"), "increase", AmountOf[i])

\* Whatever is not a success fails the item, an answer that was lost as well.
Credit(w) ==
  LET i  == worker[w].item
      ok == L!Accepts(KeyOf(i), L!Request("AdminAdjust", None, CreditNet(i)), CreditTypes)
      To(result) == Goes(w, At("mark", i, result))
  IN /\ worker[w].pc = "credit"
     /\ \/ AdminAdjust(i) /\ To(IF ok THEN "success" ELSE "failed") /\ UNCHANGED faults
        \/ Fault("lost_answer") /\ AdminAdjust(i) /\ To("failed")
        \/ Fault("rpc_down") /\ UNCHANGED ledgerVars /\ To("failed")
     /\ UNCHANGED <<batch, item, lapsed, raced>>

\* Mutant: a late failure overwrites a success.
Mark_Overwrites(w) ==
  /\ worker[w].pc = "mark"
  /\ item' = [item EXCEPT ![worker[w].item].status = worker[w].result]
  /\ Goes(w, At("claim", None, None))
  /\ UNCHANGED <<ledgerVars, batch, lapsed, raced, faults>>

\* MarkSuccess, MarkFailed: a success is final, and nothing else is looked at.
Mark(w) ==
  LET i == worker[w].item
  IN /\ worker[w].pc = "mark"
     /\ Goes(w, At("claim", None, None))
     /\ \/ /\ item' = [item EXCEPT ![i].status = IF @ = "success" THEN @ ELSE worker[w].result]
           /\ UNCHANGED faults
        \/ Fault("db_error") /\ UNCHANGED item
     /\ UNCHANGED <<ledgerVars, batch, lapsed, raced>>

\* What refreshBatchStatus makes of the counts.
Verdict ==
  IF Statuses(Items) \cap Unfinished # {} THEN "open"
  ELSE IF "failed" \in Statuses(Items) THEN "partial_failed" ELSE "completed"

\* Mutant: the status is written while items are still open.
Count_AlwaysWrites(w) ==
  /\ worker[w].pc = "count"
  /\ Goes(w, At("write", None, Verdict))
  /\ UNCHANGED <<ledgerVars, batch, item, lapsed, raced, faults>>

\* CountByBatchGroupByStatus; an open batch keeps its status.
Count(w) ==
  /\ worker[w].pc = "count"
  /\ \/ /\ Goes(w, IF Verdict = "open" THEN Idle ELSE At("write", None, Verdict))
        /\ UNCHANGED faults
     \/ Fault("db_error") /\ Goes(w, Idle)
  /\ UNCHANGED <<ledgerVars, batch, item, lapsed, raced>>

\* UpdateFields: whatever has become of the batch and the items since the count.
WriteStatus(w) ==
  /\ worker[w].pc = "write"
  /\ Goes(w, Idle)
  /\ \/ /\ batch' = worker[w].result
        /\ raced' = (raced \/ Verdict # worker[w].result)
        /\ UNCHANGED faults
     \/ Fault("db_error") /\ UNCHANGED <<batch, raced>>
  /\ UNCHANGED <<ledgerVars, item, lapsed>>

\* The replica dies; what it held is taken back when the lease has lapsed.
Crash(w) ==
  /\ worker[w].pc # "idle"
  /\ Fault("crash")
  /\ Goes(w, Idle)
  /\ UNCHANGED <<ledgerVars, batch, item, lapsed, raced>>

Round(w) ==
  \/ Tick(w) \/ RecoverStaleProcessing(w) \/ ClaimNextRunnable(w) \/ NoRunnableItem(w)
  \/ Credit(w) \/ Mark(w) \/ Count(w) \/ WriteStatus(w)

-------------------------------------------------------------------------------
Init ==
  /\ L!Init
  /\ batch = None
  /\ item = [i \in Items |-> [status |-> "pending", retries |-> 0]]
  /\ lapsed = {}
  /\ worker = [w \in Workers |-> Idle]
  /\ raced = FALSE
  /\ faults = 0

Next ==
  \/ Operator
  \/ \E w \in Workers : Round(w) \/ Crash(w)
  \/ \E i \in Items : LeaseLapse(i)

Spec == Init /\ [][Next]_vars

\* The workers tick on, time passes, and an item that waits for its retry is old
\* enough at one of the ticks.  Operators do nothing of themselves.
FairSpec ==
  /\ Spec
  /\ \A w \in Workers : WF_vars(Round(w)) /\ SF_vars(ClaimNextRunnable(w))
  /\ \A i \in Items : WF_vars(LeaseLapse(i))

-------------------------------------------------------------------------------
(* Properties.                                                             *)

BatchStatuses == {"draft", "pending", "approved", "processing",
                  "partial_failed", "completed", "cancelled"}
ItemType == [status : Unfinished \cup {"success", "failed"}, retries : 0 .. MaxRetries]

\* Where a round may be, with what it carries.
RoundStates ==
  {At(pc, None, None) : pc \in {"idle", "recover", "claim", "count"}}
  \cup {At("credit", i, None) : i \in Items}
  \cup {At("mark", i, result) : i \in Items, result \in {"success", "failed"}}
  \cup {At("write", None, result) : result \in {"completed", "partial_failed"}}

\* The rows and the rounds have their types; a worker that books or marks has an
\* item, and one that is about to write a status has a final one.
TypeOK ==
  /\ batch \in BatchStatuses \cup {None}
  /\ item \in [Items -> ItemType]
  /\ lapsed \subseteq Items
  /\ worker \in [Workers -> RoundStates]
  /\ raced \in BOOLEAN /\ faults \in 0 .. MaxFaults

Booked(i) == posted[<<i, 0>>] # None

\* However often an item is retried, claimed again after its lease, or its answer
\* lost, a user has received the amounts of the booked items once each, and every
\* item that is shown as a success is booked.
ItemsArePaidOnce ==
  /\ \A u \in Users :
       balance[L!UserKey(u, Asset, "available")] =
         SumFunctionOnSet(AmountOf, {i \in Items : UserOf[i] = u /\ Booked(i)})
  /\ \A i \in Items : item[i].status = "success" => Booked(i)

\* Money moves only for a batch that was approved and started, and such a batch
\* can no longer be shown as cancelled, whatever rounds are under way.
CreditNeedsExecution ==
  (\E i \in Items : Booked(i)) \/ (\E w \in Workers : worker[w].pc # "idle")
    => batch \in {"processing", "partial_failed", "completed"}

\* A batch that is shown as completed has paid every item, also when the status
\* was counted before other rounds and a retry went on.
CompletedIsPaid ==
  batch = "completed" => \A i \in Items : item[i].status = "success" /\ Booked(i)

\* An item that was started or retried is paid or failed in the end, although its
\* worker may die and its lease may lapse, unless such a write has stranded it.
ItemsEnd ==
  \A i \in Items :
    batch = "processing" /\ item[i].status \in Unfinished
      ~> item[i].status \in {"success", "failed"} \/ raced
===============================================================================
