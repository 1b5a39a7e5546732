-------------------------- MODULE TransferBatchProofs --------------------------
(* Theorems about TransferBatch, for any items, users, amounts and replicas.   *)
EXTENDS TransferBatch, Sums

-------------------------------------------------------------------------------
(* What the ledger does with a credit.                                       *)

Target(i)        == L!UserKey(UserOf[i], Asset, "available")
CreditRequest(i) == L!Request("AdminAdjust", None, CreditNet(i))

LEMMA CreditIsNotNone ==
  ASSUME NEW i \in Items
  PROVE  CreditRequest(i) # None
<1> DEFINE contra(t) == L!SystemKey(L!SysAccount(t), Asset)
           Nets == UNION {[S -> Int] : S \in SUBSET L!BalanceKey}
<1>1. Target(i) \in L!BalanceKey
  BY BatchAssumption DEF Target, L!BalanceKey, L!Buckets, Users
<1>2. contra("SYS_ADJUST_INCOME") \in L!BalanceKey /\ contra("SYS_ADJUST_EXPENSE") \in L!BalanceKey
  BY DEF L!BalanceKey, L!SystemAccounts, L!GlobalTypes
<1>3. \A d, c \in L!BalanceKey : L!Move(d, c, AmountOf[i]) \in Nets
  <2> TAKE d, c \in L!BalanceKey
  <2>1. AmountOf[i] \in Int
    BY BatchAssumption
  <2>2. L!Move(d, c, AmountOf[i]) \in [{d, c} -> Int]
    BY <2>1 DEF L!Move
  <2> QED
    BY <2>2
<1>4. Target(i)[2] = Asset
  BY DEF Target, L!UserKey
<1>5. CreditNet(i) \in Nets
  <2> HIDE DEF Nets
  <2> QED
    BY <1>1, <1>2, <1>3, <1>4 DEF CreditNet, L!AdjustNet, Target
<1> HIDE DEF Nets
<1>6. CreditRequest(i) \in [op : L!OpTypes, biz : L!BizRefs, net : Nets]
  BY <1>5 DEF CreditRequest, L!Request, L!OpTypes, L!BizRefs
<1> QED
  BY <1>6, NoneAssumption DEF Nets

\* A credit takes no booking back, and an accepted one is booked.
LEMMA CreditBooks ==
  ASSUME DOMAIN posted = LedgerKeys, NEW i \in Items, AdminAdjust(i)
  PROVE  /\ DOMAIN posted' = LedgerKeys
         /\ \A j \in Items : Booked(j) => Booked(j)'
         /\ L!Accepts(KeyOf(i), CreditRequest(i), CreditTypes) => Booked(i)'
<1> DEFINE key == KeyOf(i)
           req == CreditRequest(i)
<1>1. key \in LedgerKeys /\ key = <<i, 0>>
  BY BatchAssumption DEF KeyOf, LedgerKeys
<1>2. L!TypeOf(Target(i)) = "USER_LIABILITY"
  BY DEF Target, L!UserKey, L!UserAccount, L!TypeOf
<1>3. L!GlobalTypes \cup {L!TypeOf(Target(i))} = CreditTypes
  BY <1>2 DEF CreditTypes, L!UserTypes
<1>4. PICK writes : L!Post(key, req, CreditTypes, writes)
  BY <1>3 DEF AdminAdjust, L!AdminAdjust, CreditRequest, CreditNet, Target
<1>5. req # None
  BY CreditIsNotNone
<1>6. \/ posted' = [posted EXCEPT ![key] = req]
      \/ posted' = posted /\ ~L!Succeeds(key, req, L!EnsureSupport(CreditTypes))
  BY <1>4 DEF L!Post, L!Booked
<1> HIDE DEF key, req
<1>7. L!Accepts(key, req, CreditTypes) => posted' = [posted EXCEPT ![key] = req]
  BY <1>6 DEF L!Accepts
<1>8. DOMAIN posted' = LedgerKeys
  BY <1>6
<1>9. \A k \in LedgerKeys : posted[k] # None => posted'[k] # None
  BY <1>5, <1>6
<1>10. \A j \in Items : <<j, 0>> \in LedgerKeys
  BY BatchAssumption DEF LedgerKeys
<1>11. L!Accepts(key, req, CreditTypes) => posted'[key] # None
  BY <1>1, <1>5, <1>7
<1> QED
  BY <1>1, <1>8, <1>9, <1>10, <1>11 DEF Booked, key, req

-------------------------------------------------------------------------------
(* Type correctness.                                                         *)

\* A round that is at a step carries what the step needs.
LEMMA RoundCarries ==
  ASSUME TypeOK, NEW w \in Workers
  PROVE  /\ worker[w].pc \in {"credit", "mark"} => worker[w].item \in Items
         /\ worker[w].pc = "mark" => worker[w].result \in {"success", "failed"}
         /\ worker[w].pc = "write" => worker[w].result \in {"completed", "partial_failed"}
BY DEF TypeOK, RoundStates, At

LEMMA GoesType ==
  ASSUME TypeOK, NEW w \in Workers, NEW to \in RoundStates, Goes(w, to)
  PROVE  worker' \in [Workers -> RoundStates]
BY DEF TypeOK, Goes

LEMMA PlainStates ==
  /\ Idle \in RoundStates
  /\ \A pc \in {"recover", "claim", "count"} : At(pc, None, None) \in RoundStates
  /\ \A i \in Items : At("credit", i, None) \in RoundStates
  /\ \A i \in Items, r \in {"success", "failed"} : At("mark", i, r) \in RoundStates
  /\ \A r \in {"completed", "partial_failed"} : At("write", None, r) \in RoundStates
<1>1. Idle = At("idle", None, None)
  BY DEF Idle, At
<1>2. \A pc \in {"idle", "recover", "claim", "count"} : At(pc, None, None) \in RoundStates
  BY DEF RoundStates
<1>3. \A i \in Items : At("credit", i, None) \in RoundStates
  BY DEF RoundStates
<1>4. \A i \in Items, r \in {"success", "failed"} : At("mark", i, r) \in RoundStates
  BY DEF RoundStates
<1>5. \A r \in {"completed", "partial_failed"} : At("write", None, r) \in RoundStates
  BY DEF RoundStates
<1> QED
  BY <1>1, <1>2, <1>3, <1>4, <1>5

LEMMA FaultType ==
  ASSUME TypeOK, NEW kind, Fault(kind) \/ UNCHANGED faults
  PROVE  faults' \in 0 .. MaxFaults
BY BatchAssumption DEF TypeOK, Fault

LEMMA OperatorType == TypeOK /\ Operator => TypeOK'
<1> SUFFICES ASSUME TypeOK, Operator PROVE TypeOK'
  OBVIOUS
<1>1. batch' \in BatchStatuses
  BY DEF Operator, ImportTransferBatch, SubmitTransferBatch, ApproveTransferBatch,
         CancelTransferBatch, ExecuteTransferBatch, RetryTransferBatch, Decides, BatchStatuses
<1>2. item' \in [Items -> ItemType]
  BY BatchAssumption
     DEF TypeOK, ItemType, Unfinished, Operator, ImportTransferBatch, SubmitTransferBatch,
         ApproveTransferBatch, CancelTransferBatch, CancelledItems, ExecuteTransferBatch,
         RetryTransferBatch, Decides
<1>3. UNCHANGED <<lapsed, worker, raced, faults>>
  BY DEF Operator, ImportTransferBatch, SubmitTransferBatch, ApproveTransferBatch,
         CancelTransferBatch, ExecuteTransferBatch, RetryTransferBatch, Decides
<1> QED
  BY <1>1, <1>2, <1>3 DEF TypeOK

LEMMA RoundType == ASSUME TypeOK, NEW w \in Workers, Round(w) PROVE TypeOK'
<1> USE RoundCarries, PlainStates
<1>1. CASE Tick(w)
  BY <1>1, GoesType DEF Tick, TypeOK
<1>2. CASE RecoverStaleProcessing(w)
  <2>1. worker' \in [Workers -> RoundStates]
    BY <1>2, GoesType DEF RecoverStaleProcessing
  <2>2. item' \in [Items -> ItemType] /\ lapsed' \subseteq Items
    BY <1>2 DEF RecoverStaleProcessing, TypeOK, ItemType, Unfinished
  <2> QED
    BY <1>2, <2>1, <2>2, FaultType DEF RecoverStaleProcessing, TypeOK
<1>3. CASE ClaimNextRunnable(w)
  <2> PICK i \in Items :
        /\ item' = [item EXCEPT ![i].status = "processing"]
        /\ lapsed' = lapsed \ {i}
        /\ Goes(w, At("credit", i, None))
    BY <1>3 DEF ClaimNextRunnable
  <2>1. item' \in [Items -> ItemType]
    BY DEF TypeOK, ItemType, Unfinished
  <2> QED
    BY <1>3, <2>1, GoesType DEF ClaimNextRunnable, TypeOK
<1>4. CASE NoRunnableItem(w)
  BY <1>4, GoesType, FaultType DEF NoRunnableItem, TypeOK
<1>5. CASE Credit(w)
  <2>1. PICK r \in {"success", "failed"} : Goes(w, At("mark", worker[w].item, r))
    BY <1>5 DEF Credit
  <2>2. worker' \in [Workers -> RoundStates]
    BY <1>5, <2>1, GoesType DEF Credit
  <2>3. faults' \in 0 .. MaxFaults
    BY <1>5, FaultType DEF Credit
  <2> QED
    BY <1>5, <2>2, <2>3 DEF Credit, TypeOK
<1>6. CASE Mark(w)
  <2>1. worker' \in [Workers -> RoundStates]
    BY <1>6, GoesType DEF Mark
  <2>2. item' \in [Items -> ItemType]
    BY <1>6 DEF Mark, TypeOK, ItemType, Unfinished
  <2> QED
    BY <1>6, <2>1, <2>2, FaultType DEF Mark, TypeOK
<1>7. CASE Count(w)
  <2>1. Verdict \in {"open", "partial_failed", "completed"}
    BY DEF Verdict
  <2>2. worker' \in [Workers -> RoundStates]
    BY <1>7, <2>1, GoesType DEF Count
  <2> QED
    BY <1>7, <2>2, FaultType DEF Count, TypeOK
<1>8. CASE WriteStatus(w)
  <2>1. worker' \in [Workers -> RoundStates]
    BY <1>8, GoesType DEF WriteStatus
  <2>2. batch' \in BatchStatuses \cup {None}
    BY <1>8 DEF WriteStatus, TypeOK, BatchStatuses
  <2>3. raced' \in BOOLEAN
    BY <1>8 DEF WriteStatus, TypeOK
  <2> QED
    BY <1>8, <2>1, <2>2, <2>3, FaultType DEF WriteStatus, TypeOK
<1> QED
  BY <1>1, <1>2, <1>3, <1>4, <1>5, <1>6, <1>7, <1>8 DEF Round

LEMMA NextType == TypeOK /\ [Next]_vars => TypeOK'
<1> SUFFICES ASSUME TypeOK, [Next]_vars PROVE TypeOK'
  OBVIOUS
<1>1. CASE Operator
  BY <1>1, OperatorType
<1>2. ASSUME NEW w \in Workers, Round(w) PROVE TypeOK'
  BY <1>2, RoundType
<1>3. ASSUME NEW w \in Workers, Crash(w) PROVE TypeOK'
  BY <1>3, PlainStates, GoesType, FaultType DEF Crash, TypeOK
<1>4. ASSUME NEW i \in Items, LeaseLapse(i) PROVE TypeOK'
  BY <1>4, FaultType DEF LeaseLapse, TypeOK
<1>5. CASE UNCHANGED vars
  BY <1>5 DEF vars, TypeOK
<1> QED
  BY <1>1, <1>2, <1>3, <1>4, <1>5 DEF Next

LEMMA InitType == Init => TypeOK
<1> SUFFICES ASSUME Init PROVE TypeOK
  OBVIOUS
<1>1. item \in [Items -> ItemType] /\ faults \in 0 .. MaxFaults
  BY BatchAssumption DEF Init, ItemType, Unfinished
<1>2. worker \in [Workers -> RoundStates]
  BY PlainStates DEF Init
<1> QED
  BY <1>1, <1>2 DEF Init, TypeOK

\* Rows and rounds keep their types, and a worker that is about to write the
\* status of a batch has a final one in hand, for any number of items, replicas,
\* retries and faults (the guard `pending == 0` of refreshBatchStatus).
THEOREM TypeCorrect == Spec => []TypeOK
BY InitType, NextType, PTL DEF Spec

-------------------------------------------------------------------------------
(* Safety.                                                                   *)

\* What a success rests on while it travels from the ledger's answer to the
\* item and from the items to the batch.
SettledInv ==
  /\ DOMAIN posted = LedgerKeys
  /\ \A i \in Items : item[i].status = "success" => Booked(i)
  /\ \A w \in Workers :
       worker[w].pc = "mark" /\ worker[w].result = "success" => Booked(worker[w].item)
  /\ \A w \in Workers :
       worker[w].pc = "write" /\ worker[w].result = "completed" =>
         \A i \in Items : item[i].status = "success"

BatchInv == TypeOK /\ SettledInv /\ CreditNeedsExecution /\ CompletedIsPaid

\* Only a credit touches the ledger, and no booking is ever taken back.
LEMMA BookingsStay ==
  ASSUME TypeOK, DOMAIN posted = LedgerKeys, [Next]_vars
  PROVE  /\ DOMAIN posted' = LedgerKeys
         /\ \A i \in Items : Booked(i) => Booked(i)'
         /\ posted' = posted \/ \E w \in Workers : Credit(w)
<1>1. posted' = posted \/ \E w \in Workers : Credit(w)
  <2>1. CASE Operator
    BY <2>1 DEF Operator, ImportTransferBatch, SubmitTransferBatch, ApproveTransferBatch,
       CancelTransferBatch, ExecuteTransferBatch, RetryTransferBatch, Decides, ledgerVars
  <2>2. ASSUME NEW w \in Workers, Round(w) \/ Crash(w)
        PROVE  posted' = posted \/ Credit(w)
    BY <2>2 DEF Round, Crash, Tick, RecoverStaleProcessing, ClaimNextRunnable, NoRunnableItem,
       Mark, Count, WriteStatus, ledgerVars
  <2>3. ASSUME NEW i \in Items, LeaseLapse(i) PROVE posted' = posted
    BY <2>3 DEF LeaseLapse, ledgerVars
  <2>4. CASE UNCHANGED vars
    BY <2>4 DEF vars, ledgerVars
  <2> QED
    BY <2>1, <2>2, <2>3, <2>4 DEF Next
<1>2. CASE posted' = posted
  BY <1>1, <1>2 DEF Booked
<1>3. ASSUME NEW w \in Workers, Credit(w)
      PROVE  DOMAIN posted' = LedgerKeys /\ \A i \in Items : Booked(i) => Booked(i)'
  <2>1. worker[w].item \in Items
    BY <1>3, RoundCarries DEF Credit
  <2>2. CASE AdminAdjust(worker[w].item)
    BY <2>1, <2>2, CreditBooks
  <2>3. CASE UNCHANGED ledgerVars
    BY <2>3 DEF ledgerVars, Booked
  <2> QED
    BY <1>3, <2>2, <2>3 DEF Credit
<1> QED
  BY <1>1, <1>2, <1>3

\* A success is final, and an item becomes one only by the mark of a worker.
LEMMA SuccessStays ==
  ASSUME TypeOK, [Next]_vars, NEW i \in Items
  PROVE  /\ item[i].status = "success" => item'[i].status = "success"
         /\ item'[i].status = "success" /\ item[i].status # "success" =>
              \E w \in Workers : /\ worker[w].pc = "mark" /\ worker[w].result = "success"
                                 /\ worker[w].item = i
<1>0. item \in [Items -> ItemType]
  BY DEF TypeOK
<1>1. CASE Operator
  <2>1. CASE ImportTransferBatch \/ SubmitTransferBatch \/ ApproveTransferBatch
             \/ ExecuteTransferBatch
    BY <2>1 DEF ImportTransferBatch, SubmitTransferBatch, ApproveTransferBatch,
       ExecuteTransferBatch, Decides
  <2>2. CASE CancelTransferBatch
    BY <1>0, <2>2 DEF CancelTransferBatch, CancelledItems, Unfinished, Decides
  <2>3. CASE RetryTransferBatch
    <3> PICK S \in SUBSET {j \in Items : item[j].status = "failed" /\ item[j].retries < MaxRetries} :
          item' = [j \in Items |-> IF j \in S
                     THEN [status |-> "retrying", retries |-> item[j].retries + 1] ELSE item[j]]
      BY <2>3 DEF RetryTransferBatch, Decides
    <3> QED
      OBVIOUS
  <2> QED
    BY <1>1, <2>1, <2>2, <2>3 DEF Operator
<1>2. ASSUME NEW w \in Workers, Round(w) \/ Crash(w)
      PROVE  /\ item[i].status = "success" => item'[i].status = "success"
             /\ item'[i].status = "success" /\ item[i].status # "success" =>
                  /\ worker[w].pc = "mark" /\ worker[w].result = "success"
                  /\ worker[w].item = i
  <2>1. CASE Mark(w)
    BY <1>0, <2>1, RoundCarries DEF Mark, ItemType
  <2>2. CASE RecoverStaleProcessing(w)
    BY <1>0, <2>2 DEF RecoverStaleProcessing, ItemType
  <2>3. CASE ClaimNextRunnable(w)
    BY <1>0, <2>3 DEF ClaimNextRunnable, ItemType
  <2>4. CASE Tick(w) \/ NoRunnableItem(w) \/ Credit(w) \/ Count(w) \/ WriteStatus(w) \/ Crash(w)
    BY <2>4 DEF Tick, NoRunnableItem, Credit, Count, WriteStatus, Crash
  <2> QED
    BY <1>2, <2>1, <2>2, <2>3, <2>4 DEF Round
<1>3. ASSUME NEW j \in Items, LeaseLapse(j) PROVE item' = item
  BY <1>3 DEF LeaseLapse
<1>4. CASE UNCHANGED vars
  BY <1>4 DEF vars
<1> QED
  BY <1>1, <1>2, <1>3, <1>4 DEF Next

\* Where a success may come from that a worker has in hand.
LEMMA WorkerLearns ==
  ASSUME TypeOK, DOMAIN posted = LedgerKeys, [Next]_vars, NEW w \in Workers
  PROVE  /\ worker'[w].pc = "mark" /\ worker'[w].result = "success" =>
              worker'[w] = worker[w] \/ (worker'[w].item \in Items /\ posted'[<<worker'[w].item, 0>>] # None)
         /\ worker'[w].pc = "write" /\ worker'[w].result = "completed" =>
              \/ worker'[w] = worker[w]
              \/ item' = item /\ \A i \in Items : item[i].status = "success"
         /\ worker[w].pc = "idle" => worker'[w] = worker[w] \/ batch = "processing"
<1>0. worker \in [Workers -> RoundStates]
  BY DEF TypeOK
<1>1. CASE Operator \/ (\E i \in Items : LeaseLapse(i)) \/ UNCHANGED vars
  BY <1>1 DEF Operator, ImportTransferBatch, SubmitTransferBatch, ApproveTransferBatch,
     CancelTransferBatch, ExecuteTransferBatch, RetryTransferBatch, Decides, LeaseLapse, vars
<1>2. ASSUME NEW v \in Workers, Round(v) \/ Crash(v), v # w PROVE worker'[w] = worker[w]
  BY <1>0, <1>2 DEF Round, Crash, Tick, RecoverStaleProcessing, ClaimNextRunnable, NoRunnableItem,
     Credit, Mark, Count, WriteStatus, Goes
<1>3. CASE Tick(w) \/ RecoverStaleProcessing(w) \/ ClaimNextRunnable(w) \/ NoRunnableItem(w)
           \/ Mark(w) \/ WriteStatus(w) \/ Crash(w)
  BY <1>0, <1>3 DEF Crash, Tick, RecoverStaleProcessing, ClaimNextRunnable, NoRunnableItem,
     Mark, WriteStatus, Goes, At, Idle
<1>4. CASE Credit(w)
  <2> DEFINE i == worker[w].item
             ok == L!Accepts(KeyOf(i), CreditRequest(i), CreditTypes)
  <2>1. i \in Items /\ worker[w].pc = "credit"
    BY <1>4, RoundCarries DEF Credit
  <2>2. CASE AdminAdjust(i) /\ Goes(w, At("mark", i, IF ok THEN "success" ELSE "failed"))
    <3>1. PICK j \in Items : j = i
      BY <2>1
    <3>2. ok => Booked(j)'
      BY <2>2, <3>1, CreditBooks
    <3>3. worker'[w] = At("mark", j, IF ok THEN "success" ELSE "failed")
      BY <1>0, <2>2, <3>1 DEF Goes
    <3> HIDE DEF ok
    <3>4. worker'[w].pc = "mark" /\ worker'[w].item = j
          /\ worker'[w].result = (IF ok THEN "success" ELSE "failed")
      BY <3>3 DEF At
    <3> QED
      BY <2>1, <3>2, <3>4 DEF Booked
  <2>3. CASE Goes(w, At("mark", i, "failed"))
    BY <1>0, <2>1, <2>3 DEF Goes, At
  <2> QED
    BY <1>4, <2>2, <2>3 DEF Credit, CreditRequest
<1>5. CASE Count(w)
  <2>1. Verdict = "completed" => \A i \in Items : item[i].status = "success"
    BY DEF TypeOK, ItemType, Verdict, Statuses, Unfinished
  <2> QED
    BY <1>0, <1>5, <2>1 DEF Count, Goes, At, Idle
<1> QED
  BY <1>1, <1>2, <1>3, <1>4, <1>5 DEF Next, Round

LEMMA SettledStep ==
  ASSUME TypeOK, SettledInv, [Next]_vars
  PROVE  SettledInv'
<1>1. DOMAIN posted' = LedgerKeys /\ \A i \in Items : Booked(i) => Booked(i)'
  BY BookingsStay DEF SettledInv
<1>2. \A i \in Items : item'[i].status = "success" => Booked(i)'
  BY <1>1, SuccessStays DEF SettledInv
<1>3. ASSUME NEW w \in Workers, worker'[w].pc = "mark", worker'[w].result = "success"
      PROVE  posted'[<<worker'[w].item, 0>>] # None
  <2>1. CASE worker'[w] = worker[w]
    <3>1. PICK j \in Items : j = worker[w].item
      BY <1>3, <2>1, RoundCarries
    <3>2. Booked(j)
      BY <1>3, <2>1, <3>1 DEF SettledInv
    <3> QED
      BY <1>1, <2>1, <3>1, <3>2 DEF Booked
  <2>2. CASE worker'[w] # worker[w]
    BY <1>3, <2>2, WorkerLearns DEF SettledInv
  <2> QED
    BY <2>1, <2>2
<1>4. ASSUME NEW w \in Workers, worker'[w].pc = "write", worker'[w].result = "completed",
             NEW i \in Items
      PROVE  item'[i].status = "success"
  BY <1>4, WorkerLearns, SuccessStays DEF SettledInv
<1>5. \A w \in Workers :
        worker'[w].pc = "mark" /\ worker'[w].result = "success" =>
          posted'[<<worker'[w].item, 0>>] # None
  BY <1>3
<1> QED
  BY <1>1, <1>2, <1>4, <1>5 DEF SettledInv, Booked

Started == {"processing", "partial_failed", "completed"}

\* A started batch stays started, and is completed only by a worker's verdict.
LEMMA BatchGoes ==
  ASSUME TypeOK, [Next]_vars
  PROVE  /\ batch \in Started => batch' \in Started
         /\ batch' = "completed" =>
              \/ batch = "completed"
              \/ /\ item' = item
                 /\ \E w \in Workers : worker[w].pc = "write" /\ worker[w].result = "completed"
<1>1. CASE Operator
  <2>1. CASE ImportTransferBatch \/ SubmitTransferBatch \/ ApproveTransferBatch
             \/ ExecuteTransferBatch
    BY <2>1, BatchAssumption DEF ImportTransferBatch, SubmitTransferBatch, ApproveTransferBatch,
       ExecuteTransferBatch, Decides, Started
  <2>2. CASE CancelTransferBatch
    BY <2>2 DEF CancelTransferBatch, Decides, Started
  <2>3. CASE RetryTransferBatch
    BY <2>3 DEF RetryTransferBatch, Decides, Started
  <2> QED
    BY <1>1, <2>1, <2>2, <2>3 DEF Operator
<1>2. ASSUME NEW w \in Workers, WriteStatus(w)
      PROVE  /\ batch \in Started => batch' \in Started
             /\ batch' = "completed" => batch = "completed" \/ (item' = item /\
                  worker[w].pc = "write" /\ worker[w].result = "completed")
  BY <1>2, RoundCarries DEF WriteStatus, Started
<1>3. ASSUME NEW w \in Workers, Round(w) \/ Crash(w), ~WriteStatus(w) PROVE batch' = batch
  BY <1>3 DEF Round, Crash, Tick, RecoverStaleProcessing, ClaimNextRunnable, NoRunnableItem,
     Credit, Mark, Count
<1>4. CASE (\E i \in Items : LeaseLapse(i)) \/ UNCHANGED vars
  BY <1>4 DEF LeaseLapse, vars
<1> QED
  BY <1>1, <1>2, <1>3, <1>4 DEF Next

LEMMA NeedsExecutionStep ==
  ASSUME TypeOK, SettledInv, CreditNeedsExecution, [Next]_vars
  PROVE  CreditNeedsExecution'
<1>1. CASE batch \in Started
  BY <1>1, BatchGoes DEF CreditNeedsExecution, Started
<1>2. CASE batch \notin Started
  <2>1. \A w \in Workers : worker[w].pc = "idle"
    BY <1>2 DEF CreditNeedsExecution, Started
  <2>2. \A w \in Workers : worker'[w].pc = "idle"
    BY <1>2, <2>1, WorkerLearns DEF SettledInv, Started
  <2>3. posted' = posted
    BY <2>1, BookingsStay DEF SettledInv, Credit
  <2>4. \A i \in Items : ~Booked(i)'
    BY <1>2, <2>3 DEF CreditNeedsExecution, Booked, Started
  <2> QED
    BY <2>2, <2>4 DEF CreditNeedsExecution
<1> QED
  BY <1>1, <1>2

LEMMA CompletedStep ==
  ASSUME TypeOK, SettledInv, CompletedIsPaid, [Next]_vars
  PROVE  CompletedIsPaid'
<1> SUFFICES ASSUME batch' = "completed", NEW i \in Items
             PROVE  item'[i].status = "success" /\ Booked(i)'
  BY DEF CompletedIsPaid
<1>1. item'[i].status = "success"
  BY BatchGoes, SuccessStays DEF CompletedIsPaid, SettledInv
<1> QED
  BY <1>1, SettledStep DEF SettledInv

LEMMA InvInit == Init => BatchInv
<1> SUFFICES ASSUME Init PROVE BatchInv
  OBVIOUS
<1>1. posted = [k \in LedgerKeys |-> None]
  BY DEF Init, L!Init
<1>2. \A i \in Items : <<i, 0>> \in LedgerKeys
  BY BatchAssumption DEF LedgerKeys
<1>3. SettledInv /\ CreditNeedsExecution
  BY <1>1, <1>2 DEF Init, SettledInv, CreditNeedsExecution, Booked, Idle
<1>4. CompletedIsPaid
  BY BatchAssumption DEF Init, CompletedIsPaid
<1> QED
  BY <1>3, <1>4, InitType DEF BatchInv

LEMMA InvNext == BatchInv /\ [Next]_vars => BatchInv'
BY NextType, SettledStep, NeedsExecutionStep, CompletedStep DEF BatchInv

LEMMA InvHolds == Spec => []BatchInv
BY InvInit, InvNext, PTL DEF Spec

\* Money moves only for a batch that was approved and started, and a started one
\* can no longer be cancelled, whatever rounds are under way on how many replicas
\* (the status guards of the operators' handlers against processOne).
THEOREM CreditsNeedExecution == Spec => []CreditNeedsExecution
BY InvHolds, PTL DEF BatchInv

\* A batch that is shown as completed has paid every item, however late the
\* status is written, marks arrive and retries interfere (refreshBatchStatus
\* against MarkSuccess and MarkFailed).
THEOREM CompletedBatchesPaid == Spec => []CompletedIsPaid
BY InvHolds, PTL DEF BatchInv

-------------------------------------------------------------------------------
(* What the users have received.                                             *)

PaidItems(u) == {i \in Items : UserOf[i] = u /\ Booked(i)}

\* Users' accounts keep their normal side, by which a credit raises them.
SidesInv ==
  /\ posted = [k \in LedgerKeys |-> posted[k]] /\ DOMAIN balance = L!BalanceKey
  /\ normalSide["USER_LIABILITY"] = "credit"

PaidInv ==
  /\ SidesInv
  /\ \A u \in Users :
       balance[L!UserKey(u, Asset, "available")] = SumFunctionOnSet(AmountOf, PaidItems(u))

\* A credit raises the balance of the item's user by its amount.
LEMMA CreditRaises ==
  ASSUME SidesInv, NEW i \in Items
  PROVE  /\ Target(i) \in DOMAIN CreditNet(i)
         /\ L!Delta(CreditNet(i), Target(i)) = AmountOf[i]
         /\ \A u \in Users : u # UserOf[i] =>
              L!UserKey(u, Asset, "available") \notin DOMAIN CreditNet(i)
<1> DEFINE expense == L!SystemKey(L!SysAccount("SYS_ADJUST_EXPENSE"), Asset)
<1>1. L!TypeOf(Target(i)) = "USER_LIABILITY" /\ Target(i)[2] = Asset
  BY DEF Target, L!UserKey, L!UserAccount, L!TypeOf
<1>2. \A u \in Users : L!UserKey(u, Asset, "available") # expense
  BY DEF L!UserKey, L!UserAccount, L!SystemKey, L!SysAccount
<1>3. CreditNet(i) = L!Move(expense, Target(i), AmountOf[i])
  BY <1>1 DEF SidesInv, CreditNet, L!AdjustNet, Target
<1>4. UserOf[i] \in Users /\ AmountOf[i] \in Int
  BY BatchAssumption DEF Users
<1>5. Target(i) # expense
  BY <1>2, <1>4 DEF Target
<1>6. DOMAIN CreditNet(i) = {expense, Target(i)} /\ CreditNet(i)[Target(i)] = -AmountOf[i]
  BY <1>3, <1>5 DEF L!Move
<1>7. L!Delta(CreditNet(i), Target(i)) = AmountOf[i]
  <2>1. L!Delta(CreditNet(i), Target(i)) = -(-AmountOf[i])
    BY <1>1, <1>6 DEF SidesInv, L!Delta
  <2> QED
    BY <1>4, <2>1
<1>8. ASSUME NEW u \in Users, u # UserOf[i]
      PROVE  L!UserKey(u, Asset, "available") # Target(i)
  BY <1>8 DEF Target, L!UserKey, L!UserAccount
<1> QED
  BY <1>2, <1>6, <1>7, <1>8

\* An item is booked for the first time and paid, or the ledger stays as it is.
LEMMA CreditPays ==
  ASSUME SidesInv, NEW i \in Items, AdminAdjust(i)
  PROVE  /\ normalSide' = normalSide
         /\ \/ UNCHANGED <<posted, balance>>
            \/ /\ ~Booked(i)
               /\ posted' = [posted EXCEPT ![KeyOf(i)] = CreditRequest(i)]
               /\ balance' = L!Apply(CreditNet(i))
<1> DEFINE key == KeyOf(i)
           req == CreditRequest(i)
<1>1. key \in LedgerKeys /\ key = <<i, 0>>
  BY BatchAssumption DEF KeyOf, LedgerKeys
<1>2. PICK types, writes : L!Post(key, req, types, writes)
  BY DEF AdminAdjust, L!AdminAdjust, CreditRequest, CreditNet, Target
<1>3. req.net = CreditNet(i)
  BY DEF CreditRequest, L!Request
<1> HIDE DEF key, req
<1>4. normalSide' = normalSide
  BY <1>2 DEF L!Post, L!setupVars
<1>5. \/ UNCHANGED <<posted, balance>>
      \/ posted[key] \in {req, None} /\ L!Booked(key, req)
  BY <1>2 DEF L!Post, L!Succeeds
<1>6. ASSUME posted[key] = req, req # None, L!Booked(key, req)
      PROVE  UNCHANGED <<posted, balance>>
  BY <1>1, <1>6 DEF L!Booked, SidesInv
<1>7. req # None
  BY CreditIsNotNone DEF req
<1>8. ASSUME posted[key] = None, L!Booked(key, req)
      PROVE  /\ ~Booked(i)
             /\ posted' = [posted EXCEPT ![key] = req] /\ balance' = L!Apply(CreditNet(i))
  BY <1>1, <1>3, <1>8 DEF L!Booked, Booked
<1>9. \/ UNCHANGED <<posted, balance>>
      \/ /\ ~Booked(i)
         /\ posted' = [posted EXCEPT ![key] = req] /\ balance' = L!Apply(CreditNet(i))
  BY <1>5, <1>6, <1>7, <1>8
<1> QED
  BY <1>4, <1>9 DEF key, req

LEMMA CreditKeepsPaid ==
  ASSUME IsFiniteSet(Items), PaidInv, NEW i \in Items, AdminAdjust(i)
  PROVE  PaidInv'
<1> SidesInv
  BY DEF PaidInv
<1>1. CASE UNCHANGED <<posted, balance>>
  BY <1>1, CreditPays DEF PaidInv, SidesInv, PaidItems, Booked
<1>2. CASE /\ ~Booked(i)
           /\ posted' = [posted EXCEPT ![KeyOf(i)] = CreditRequest(i)]
           /\ balance' = L!Apply(CreditNet(i))
  <2>1. SidesInv'
    <3>1. posted' = [k \in LedgerKeys |-> posted'[k]]
      BY <1>2 DEF SidesInv
    <3> QED
      BY <1>2, <3>1, CreditPays DEF SidesInv, L!Apply
  <2>2. \A j \in Items : <<j, 0>> \in LedgerKeys
    BY BatchAssumption DEF LedgerKeys
  <2>3. \A j \in Items : Booked(j)' <=> j = i \/ Booked(j)
    BY <1>2, <2>2, CreditIsNotNone DEF Booked, KeyOf, SidesInv
  <2> SUFFICES ASSUME NEW u \in Users
               PROVE  balance'[L!UserKey(u, Asset, "available")]
                        = SumFunctionOnSet(AmountOf, PaidItems(u)')
    BY <2>1 DEF PaidInv
  <2> DEFINE k == L!UserKey(u, Asset, "available")
  <2>4. k \in L!BalanceKey
    BY DEF L!BalanceKey, L!Buckets
  <2>5. balance[k] = SumFunctionOnSet(AmountOf, PaidItems(u))
    BY DEF PaidInv
  <2>6. CASE u = UserOf[i]
    <3>1. k = Target(i)
      BY <2>6 DEF Target
    <3>2. balance'[k] = balance[k] + AmountOf[i]
      BY <1>2, <2>4, <3>1, CreditRaises DEF L!Apply
    <3>3. i \in PaidItems(u)' /\ PaidItems(u)' \ {i} = PaidItems(u) /\ IsFiniteSet(PaidItems(u)')
      <4>1. PaidItems(u)' = PaidItems(u) \cup {i} /\ i \notin PaidItems(u)
        BY <1>2, <2>3, <2>6 DEF PaidItems
      <4>2. PaidItems(u)' \subseteq Items
        BY DEF PaidItems
      <4> QED
        BY <4>1, <4>2, FS_Subset
    <3>4. \A j \in Items : AmountOf[j] \in Int
      BY BatchAssumption
    <3>5. \A j \in PaidItems(u)' : AmountOf[j] \in Int
      BY <3>4 DEF PaidItems
    <3>6. SumFunctionOnSet(AmountOf, PaidItems(u)')
            = AmountOf[i] + SumFunctionOnSet(AmountOf, PaidItems(u))
      BY <3>3, <3>5, SumTakeOut
    <3>7. IsFiniteSet(PaidItems(u)) /\ \A j \in PaidItems(u) : AmountOf[j] \in Int
      BY <3>4, FS_Subset DEF PaidItems
    <3>8. SumFunctionOnSet(AmountOf, PaidItems(u)) \in Int
      BY <3>7, SumType
    <3> QED
      BY <2>5, <3>2, <3>4, <3>6, <3>8
  <2>7. CASE u # UserOf[i]
    <3>1. balance'[k] = balance[k]
      BY <1>2, <2>4, <2>7, CreditRaises DEF L!Apply
    <3>2. PaidItems(u)' = PaidItems(u)
      BY <2>3, <2>7 DEF PaidItems
    <3> QED
      BY <2>5, <3>1, <3>2
  <2> QED
    BY <2>6, <2>7
<1> QED
  BY <1>1, <1>2, CreditPays

\* Whoever else moves, the ledger stays as it is.
LEMMA LedgerMoves ==
  ASSUME [Next]_vars
  PROVE  UNCHANGED ledgerVars \/ \E w \in Workers : Credit(w)
<1>1. CASE Operator
  BY <1>1 DEF Operator, ImportTransferBatch, SubmitTransferBatch, ApproveTransferBatch,
     CancelTransferBatch, ExecuteTransferBatch, RetryTransferBatch, Decides
<1>2. ASSUME NEW w \in Workers, Round(w) \/ Crash(w)
      PROVE  UNCHANGED ledgerVars \/ Credit(w)
  BY <1>2 DEF Round, Crash, Tick, RecoverStaleProcessing, ClaimNextRunnable, NoRunnableItem,
     Mark, Count, WriteStatus
<1>3. ASSUME NEW i \in Items, LeaseLapse(i) PROVE UNCHANGED ledgerVars
  BY <1>3 DEF LeaseLapse
<1> QED
  BY <1>1, <1>2, <1>3 DEF Next, vars

LEMMA PaidStep ==
  ASSUME IsFiniteSet(Items), TypeOK, PaidInv, [Next]_vars
  PROVE  PaidInv'
<1>1. CASE UNCHANGED ledgerVars
  BY <1>1 DEF ledgerVars, PaidInv, SidesInv, PaidItems, Booked
<1>2. ASSUME NEW w \in Workers, Credit(w), ~UNCHANGED ledgerVars PROVE PaidInv'
  <2>1. worker[w].item \in Items /\ AdminAdjust(worker[w].item)
    BY <1>2, RoundCarries DEF Credit
  <2> QED
    BY <2>1, CreditKeepsPaid
<1> QED
  BY <1>1, <1>2, LedgerMoves

LEMMA PaidInit == Init => PaidInv
<1> SUFFICES ASSUME Init PROVE PaidInv
  OBVIOUS
<1>1. SidesInv
  BY DEF Init, L!Init, SidesInv, L!InitialSide, L!AccountTypes
<1>2. \A i \in Items : ~Booked(i)
  BY BatchAssumption DEF Init, L!Init, Booked, LedgerKeys
<1>3. ASSUME NEW u \in Users
      PROVE  balance[L!UserKey(u, Asset, "available")] = SumFunctionOnSet(AmountOf, PaidItems(u))
  <2>1. PaidItems(u) = {}
    BY <1>2 DEF PaidItems
  <2>2. balance[L!UserKey(u, Asset, "available")] = 0
    BY DEF Init, L!Init, L!BalanceKey, L!Buckets
  <2> QED
    BY <2>1, <2>2, SumEmpty
<1> QED
  BY <1>1, <1>3 DEF PaidInv

\* However often an item is claimed again after its lease, retried by an operator
\* or answered too late, a user has the amounts of the booked items once each,
\* and what is shown as a success is booked, for any finite batch (the idempotency
\* key of transferBatchCreditIdemKeyAndBizRef against processOne).
THEOREM ItemsPaidOnce == ASSUME IsFiniteSet(Items) PROVE Spec => []ItemsArePaidOnce
<1>1. TypeOK /\ PaidInv /\ [Next]_vars => PaidInv'
  BY PaidStep
<1>2. PaidInv /\ SettledInv => ItemsArePaidOnce
  BY DEF PaidInv, SettledInv, ItemsArePaidOnce, PaidItems
<1> QED
  BY <1>1, <1>2, PaidInit, TypeCorrect, InvHolds, PTL DEF Spec, BatchInv
===============================================================================
