------------------------- MODULE WithdrawPayoutProofs -------------------------
(* Theorems about WithdrawPayout, for any orders, workers, amounts, operators, *)
(* faults and bounds.                                                          *)
EXTENDS WithdrawPayout, Sums

-------------------------------------------------------------------------------
(* The type invariant.                                                       *)

Fates    == {"pending", "confirmed", "failed"}
Stages   == {"locked", "loaded", "writing", "broadcast", "status", "settle", "finalize", "unfreeze"}
ReadRows == {"writing", "broadcast", "status", "settle", "finalize", "unfreeze"}

\* A hash names a transfer that was sent for this very order, or none.
Hashes(w) == {NoHash} \cup DOMAIN chain[w]

OrderFields(f, w) ==
  /\ DOMAIN f \subseteq {"status", "txHash"}
  /\ "status" \in DOMAIN f => f["status"] = "failed"
  /\ "txHash" \in DOMAIN f => f["txHash"] \in Hashes(w)

TaskFields(f, w) ==
  /\ DOMAIN f \subseteq {"mode", "state", "txHash", "attempts"}
  /\ "mode" \in DOMAIN f => f["mode"] \in {"system", "manual"}
  /\ "state" \in DOMAIN f => f["state"] \in Open \cup {"done", "failed"}
  /\ "txHash" \in DOMAIN f => f["txHash"] \in Hashes(w)
  /\ "attempts" \in DOMAIN f => f["attempts"] \in 0 .. MaxAttempts

\* An update a worker still has to send for order w.
IsUpdate(u, w) ==
  \/ u.table = "order" /\ OrderFields(u.fields, w)
  \/ u.table = "task" /\ TaskFields(u.fields, w)

Updates(q, w) ==
  \/ q = <<>>
  \/ \E a \in {q[1]} : q = <<a>> /\ IsUpdate(a, w)
  \/ \E a \in {q[1]}, b \in {q[2]} : q = <<a, b>> /\ IsUpdate(a, w) /\ IsUpdate(b, w)

\* A task belongs to an order, an order in processing has a task.
RowsAt(w) ==
  /\ creator[w] \in {"new", "insert", "undo", "done"}
  /\ order[w] # None => order[w] \in OrderRow /\ order[w].txHash \in Hashes(w)
  /\ task[w] # None => task[w] \in TaskRow /\ task[w].txHash \in Hashes(w) /\ order[w] # None
  /\ order[w] # None /\ order[w].status = "processing" => task[w] # None
  /\ lock[w] \in Workers \cup {None}
  /\ admin[w] # None =>
       /\ admin[w].op \in AdminOps \cap DOMAIN LedgerCallOf
       /\ admin[w].hash \in Hashes(w) /\ order[w] # None
  /\ chain[w] \in Seq(Fates)

\* What a worker has read of its task and order are rows they had; what it goes
\* by when it broadcasts or asks for a status is in them.
WorkerAt(v) ==
  LET s == worker[v]
  IN s # Idle =>
       /\ s = [pc |-> s.pc, w |-> s.w, task |-> s.task, order |-> s.order, todo |-> s.todo]
       /\ s.pc \in Stages /\ s.w \in Orders /\ task[s.w] # None
       /\ s.pc # "locked" => s.task \in TaskRow /\ s.task.txHash \in Hashes(s.w)
       /\ s.pc \in ReadRows => s.order \in OrderRow /\ s.order.txHash \in Hashes(s.w)
       /\ s.pc = "broadcast" => s.task.attempts < MaxAttempts
       /\ s.pc = "status" => EitherHash(s.task, s.order) # NoHash
       /\ Updates(s.todo, s.w)

BookTyped ==
  /\ posted = [k \in LedgerKeys |-> posted[k]]
  /\ enabled = {Asset} /\ support = L!AccountTypes \X {Asset}

Shapes ==
  /\ BookTyped
  /\ creator = [w \in Orders |-> creator[w]]
  /\ order = [w \in Orders |-> order[w]]
  /\ task = [w \in Orders |-> task[w]]
  /\ lock = [w \in Orders |-> lock[w]]
  /\ admin = [w \in Orders |-> admin[w]]
  /\ chain = [w \in Orders |-> chain[w]]
  /\ worker = [v \in Workers |-> worker[v]]

AllRows    == \A w \in Orders : RowsAt(w)
AllWorkers == \A v \in Workers : WorkerAt(v)
WellTyped  == Shapes /\ AllRows /\ AllWorkers

\* What the ledger, the tasks and the workers take for paid is mined, but for the
\* orders that operators complete by hand: they may do so before it is.
Vouched(w) ==
  ("complete" \in AdminOps /\ StrategyOf[w] = "manual_manual") \/ Mined(w)

PaidAt(w) ==
  /\ Has("settle", w) => Vouched(w)
  /\ task[w] # None /\ task[w].state = "settle_pending" => Vouched(w)
  /\ order[w] # None /\ order[w].status = "completed" => Has("settle", w)
  /\ admin[w] # None /\ admin[w].op = "complete" => Has("settle", w)

Settles(u) == u.table = "task" /\ "state" \in DOMAIN u.fields /\ u.fields["state"] = "settle_pending"

WorkerPaid(v) ==
  LET s == worker[v]
  IN s # Idle =>
       /\ s.pc = "settle" => Vouched(s.w)
       /\ s.pc = "finalize" => Has("settle", s.w)
       /\ s.pc # "locked" /\ s.task.state = "settle_pending" => Vouched(s.w)
       /\ \A i \in DOMAIN s.todo : Settles(s.todo[i]) => Vouched(s.w)

AllPaid == (\A w \in Orders : PaidAt(w)) /\ (\A v \in Workers : WorkerPaid(v))

-------------------------------------------------------------------------------
(* What a ledger call does.                                                  *)

Operations == {"freeze", "settle", "unfreeze"}

LEMMA KeyIsInAsset ==
  ASSUME NEW w \in Orders, NEW op \in Operations
  PROVE  \A k \in DOMAIN LedgerRequest(op, w).net : k[2] = Asset
<1> DEFINE InAsset(net) == \A k \in DOMAIN net : k[2] = Asset
<1>1. \A u, b1, b2, amt :
         InAsset(L!Move(L!UserKey(u, Asset, b1), L!UserKey(u, Asset, b2), amt))
  BY DEF L!UserKey, L!Move
<1>2. \A u, c, b, amt :
         InAsset(L!Move(L!UserKey(u, Asset, b), L!SystemKey(L!HotAccount(c), Asset), amt))
  BY DEF L!UserKey, L!SystemKey, L!Move
<1>3. \A u, c, amt, fee : InAsset(L!SettleRequest(w, u, Asset, c, amt, fee).net)
  <2> TAKE u, c, amt, fee
  <2>1. CASE fee = 0
    <3>1. L!SettleRequest(w, u, Asset, c, amt, fee).net =
            L!Move(L!UserKey(u, Asset, "locked"), L!SystemKey(L!HotAccount(c), Asset), amt)
      BY <2>1 DEF L!SettleRequest, L!Request
    <3> QED
      BY <1>2, <3>1
  <2>2. CASE fee # 0
    <3>1. DOMAIN L!SettleRequest(w, u, Asset, c, amt, fee).net =
            {L!UserKey(u, Asset, "locked"), L!SystemKey(L!HotAccount(c), Asset),
             L!SystemKey(L!SysAccount("SYS_FEE_INCOME"), Asset)}
      BY <2>2 DEF L!SettleRequest, L!Request
    <3> QED
      BY <3>1 DEF L!UserKey, L!SystemKey
  <2> QED
    BY <2>1, <2>2
<1> HIDE DEF InAsset
<1>4. \A u, amt : InAsset(L!FreezeRequest(w, u, Asset, amt).net)
                  /\ InAsset(L!UnfreezeRequest(w, u, Asset, amt).net)
  BY <1>1 DEF L!FreezeRequest, L!UnfreezeRequest, L!Request
<1>5. InAsset(LedgerRequest(op, w).net)
  BY <1>3, <1>4 DEF LedgerRequest, Operations
<1> QED
  BY <1>5 DEF InAsset

CallEffect(op, w, ok) ==
  /\ BookTyped'
  /\ \A o \in Operations, x \in Orders : o # op \/ x # w => Has(o, x)' = Has(o, x)
  /\ Has(op, w) \/ ok => Has(op, w)'
  /\ "lost_answer" \notin FaultKinds /\ ~ok => Has(op, w)' = Has(op, w)

LEMMA BookEffect ==
  ASSUME BookTyped, NEW w \in Orders, NEW op \in Operations, Book(op, w)
  PROVE  CallEffect(op, w, L!Accepts(<<op, w>>, LedgerRequest(op, w), L!UserTypes \cup L!SystemTypes))
<1> DEFINE key == <<op, w>>
           req == LedgerRequest(op, w)
           all == L!UserTypes \cup L!SystemTypes
<1>1. PICK types, writes : types \in {L!UserTypes, all} /\ L!Post(key, req, types, writes)
  <2>1. CASE op = "freeze"
    BY <2>1 DEF Book, L!FreezeWithdraw, LedgerRequest
  <2>2. CASE op = "unfreeze"
    BY <2>2 DEF Book, L!UnfreezeWithdraw, LedgerRequest
  <2>3. CASE op = "settle"
    BY <2>3 DEF Book, L!SettleWithdraw, LedgerRequest
  <2> QED
    BY <2>1, <2>2, <2>3 DEF Operations
<1>2. \A t \in {L!UserTypes, all} : L!EnsureSupport(t) = support
  BY DEF BookTyped, L!EnsureSupport, L!UserTypes, L!SystemTypes, L!AccountTypes
<1>3. support' = support /\ enabled' = enabled
  BY <1>1, <1>2 DEF L!Post, L!setupVars
<1>4. L!Accepts(key, req, all) <=> L!Succeeds(key, req, support)
  BY <1>2, KeyIsInAsset DEF L!Accepts, BookTyped
<1>5. IF L!Accepts(key, req, all) THEN posted' = [posted EXCEPT ![key] = req] ELSE UNCHANGED posted
  BY <1>1, <1>3, <1>4 DEF L!Post, L!Booked
<1>6. \A o \in Operations, x \in Orders : <<o, x>> \in LedgerKeys
  BY DEF LedgerKeys, Operations
<1>7. req # None
  BY NoneAssumption DEF Operations
<1> HIDE DEF req, all
<1>8. BookTyped'
  <2>1. posted' = [k \in LedgerKeys |-> posted'[k]]
    BY <1>5 DEF BookTyped
  <2> QED
    BY <1>3, <2>1 DEF BookTyped
<1>9. \A o \in Operations, x \in Orders : o # op \/ x # w => Has(o, x)' = Has(o, x)
  BY <1>5, <1>6 DEF BookTyped, Has
<1>10. L!Accepts(key, req, all) \/ Has(op, w) => Has(op, w)'
  BY <1>5, <1>6, <1>7 DEF BookTyped, Has
<1>11. ~L!Accepts(key, req, all) => Has(op, w)' = Has(op, w)
  BY <1>5 DEF Has
<1> QED
  BY <1>8, <1>9, <1>10, <1>11 DEF CallEffect, req, all

LEMMA CallHasEffect ==
  ASSUME BookTyped, NEW w \in Orders, NEW op \in Operations, NEW ok \in BOOLEAN, Call(op, w, ok)
  PROVE  CallEffect(op, w, ok)
<1>1. CASE UNCHANGED ledgerVars /\ ~ok
  BY <1>1 DEF CallEffect, ledgerVars, BookTyped, Has
<1>2. CASE Book(op, w) /\
           (\/ ~ok /\ "lost_answer" \in FaultKinds
            \/ ok = L!Accepts(<<op, w>>, LedgerRequest(op, w), L!UserTypes \cup L!SystemTypes))
  BY <1>2, BookEffect DEF CallEffect
<1> QED
  BY <1>1, <1>2 DEF Call, Fault

-------------------------------------------------------------------------------
(* A step is about one order, and of the workers at most about one.          *)

Elsewhere(w) ==
  \A x \in Orders : x # w =>
    /\ UNCHANGED <<creator[x], order[x], task[x], lock[x], admin[x], chain[x]>>
    /\ \A op \in Operations : Has(op, x)' = Has(op, x)

\* No transfer is forgotten, no row deleted, no confirmation or booking undone.
Grows(w) ==
  /\ Hashes(w) \subseteq Hashes(w)'
  /\ Mined(w) => Mined(w)'
  /\ order[w] # None => (order[w] # None)'
  /\ task[w] # None => (task[w] # None)'
  /\ \A op \in Operations : Has(op, w) => Has(op, w)'

KeepsAt(w) == Shapes' /\ Elsewhere(w) /\ Grows(w) /\ RowsAt(w)'

LEMMA UpdatesStay ==
  ASSUME NEW w, Hashes(w) \subseteq Hashes(w)', NEW q, Updates(q, w)
  PROVE  Updates(q, w)'
<1>1. \A u : IsUpdate(u, w) => IsUpdate(u, w)'
  BY DEF IsUpdate, OrderFields, TaskFields
<1> QED
  BY <1>1 DEF Updates

LEMMA WorkerStays ==
  ASSUME WellTyped, NEW w \in Orders, Elsewhere(w), Grows(w),
         NEW v \in Workers, worker'[v] = worker[v]
  PROVE  WorkerAt(v)'
<1> DEFINE s == worker[v]
<1>1. WorkerAt(v)
  BY DEF WellTyped, AllWorkers
<1>2. SUFFICES ASSUME s # Idle PROVE WorkerAt(v)'
  BY DEF WorkerAt
<1>3. s.w \in Orders /\ task[s.w] # None /\ Updates(s.todo, s.w)
  BY <1>1, <1>2 DEF WorkerAt
<1>4. Hashes(s.w) \subseteq Hashes(s.w)' /\ (task[s.w] # None)'
  BY <1>3 DEF Elsewhere, Grows, Hashes
<1>5. Updates(s.todo, s.w)'
  <2> DEFINE o == s.w
             q == s.todo
  <2>1. o' = o /\ q' = q
    OBVIOUS
  <2>2. ASSUME NEW x, NEW y, Hashes(x) \subseteq Hashes(x)', Updates(y, x) PROVE Updates(y, x)'
    BY <2>2, UpdatesStay
  <2> QED
    BY <1>3, <1>4, <2>1, <2>2
<1> QED
  BY <1>1, <1>2, <1>4, <1>5 DEF WorkerAt

LEMMA ChangeKeepsTypes ==
  ASSUME WellTyped, NEW w \in Orders, KeepsAt(w),
         \A v \in Workers : worker'[v] = worker[v] \/ WorkerAt(v)'
  PROVE  WellTyped'
<1>1. AllRows'
  <2> SUFFICES ASSUME NEW x \in Orders, x # w PROVE RowsAt(x)'
    BY DEF AllRows, KeepsAt
  <2>1. RowsAt(x)
    BY DEF WellTyped, AllRows
  <2> QED
    BY <2>1 DEF KeepsAt, Elsewhere, RowsAt, Hashes
<1>2. AllWorkers'
  BY WorkerStays DEF AllWorkers, KeepsAt
<1> QED
  BY <1>1, <1>2 DEF WellTyped, KeepsAt

-------------------------------------------------------------------------------
(* Type correctness: the steps of CreateWithdraw, of operators and the chain. *)

LEMMA HashType ==
  ASSUME NEW w, chain[w] \in Seq(Fates)
  PROVE  Hashes(w) = 0 .. Len(chain[w]) /\ Hashes(w) \subseteq Nat
BY DEF Hashes, NoHash

LEMMA RowTypes ==
  /\ \A st \in {"pending", "processing"} \cup Terminal, h \in Nat : [status |-> st, txHash |-> h] \in OrderRow
  /\ \A m \in {"system", "manual"}, st \in Open \cup {"done", "failed"}, h \in Nat :
        NewTask(m, st, h) \in TaskRow
  /\ \A w \in Orders : FirstTask(w) \in TaskRow /\ FirstTask(w).txHash = NoHash
BY PayoutAssumption DEF OrderRow, TaskRow, NewTask, FirstTask, Open, NoHash

LEMMA CreateStepTypes ==
  ASSUME WellTyped, NEW w \in Orders, CreateStep(w)
  PROVE  KeepsAt(w) /\ UNCHANGED worker
<1>1. Shapes /\ RowsAt(w)
  BY DEF WellTyped, AllRows
<1> USE DEF Shapes, RowsAt, KeepsAt, Elsewhere, Grows, Hashes, Mined
<1>2. CASE CreateFreeze(w)
  <2>1. PICK ok \in BOOLEAN :
          CallEffect("freeze", w, ok)
          /\ creator' = [creator EXCEPT ![w] = IF ok THEN "insert" ELSE "done"]
    BY <1>1, <1>2, CallHasEffect DEF CreateFreeze, Operations
  <2> QED
    BY <1>1, <1>2, <2>1 DEF CreateFreeze, CallEffect
<1>3. CASE CreateUndo(w)
  <2>1. PICK ok \in BOOLEAN : CallEffect("unfreeze", w, ok)
    BY <1>1, <1>3, CallHasEffect DEF CreateUndo, Operations
  <2> QED
    BY <1>1, <1>3, <2>1 DEF CreateUndo, CallEffect
<1>4. CASE CreateCrash(w)
  BY <1>1, <1>4 DEF CreateCrash, ledgerVars, BookTyped, Has
<1>5. CASE CreateInsert(w)
  <2>1. UNCHANGED <<ledgerVars, lock, admin, worker, chain>>
        /\ \E c \in {"undo", "done"} : creator' = [creator EXCEPT ![w] = c]
    BY <1>5 DEF CreateInsert
  <2>2. CASE InsertOrder(w)
    <3>1. order'[w] \in OrderRow /\ order'[w].txHash = NoHash
          /\ (order'[w].status = "processing" => StrategyOf[w] = "auto")
      BY <1>1, <2>2, RowTypes DEF InsertOrder, NoHash
    <3>2. task'[w] = task[w] \/ task'[w] = FirstTask(w)
      BY <1>1, <2>2 DEF InsertOrder
    <3>3. StrategyOf[w] = "auto" => task'[w] = FirstTask(w)
      BY <1>1, <2>2 DEF InsertOrder
    <3> QED
      BY <1>1, <2>1, <2>2, <3>1, <3>2, <3>3, RowTypes, NoneAssumption
         DEF InsertOrder, ledgerVars, BookTyped, Has
  <2>3. CASE UNCHANGED <<order, task>>
    BY <1>1, <2>1, <2>3 DEF ledgerVars, BookTyped, Has
  <2> QED
    BY <1>5, <2>2, <2>3 DEF CreateInsert
<1> QED
  BY <1>2, <1>3, <1>4, <1>5 DEF CreateStep

LEMMA ChainStepTypes ==
  ASSUME WellTyped, NEW w \in Orders, ExpireLock(w) \/ ManualTransfer(w) \/ ChainDecides(w)
  PROVE  KeepsAt(w) /\ UNCHANGED worker
<1>1. Shapes /\ RowsAt(w)
  BY DEF WellTyped, AllRows
<1> USE DEF Shapes, RowsAt, KeepsAt, Elsewhere, Grows, Hashes, Mined
<1>2. CASE ExpireLock(w)
  BY <1>1, <1>2 DEF ExpireLock, ledgerVars, BookTyped, Has
<1>3. CASE ManualTransfer(w)
  <2>1. chain' = [chain EXCEPT ![w] = Append(chain[w], "pending")]
    BY <1>3 DEF ManualTransfer, Sent
  <2>2. chain'[w] = Append(chain[w], "pending") /\ chain'[w] \in Seq(Fates)
    BY <1>1, <2>1 DEF Fates
  <2>3. DOMAIN chain[w] \subseteq DOMAIN chain'[w] /\ \A i \in DOMAIN chain[w] : chain'[w][i] = chain[w][i]
    BY <1>1, <2>2
  <2> QED
    BY <1>1, <1>3, <2>1, <2>2, <2>3 DEF ManualTransfer, ledgerVars, BookTyped, Has
<1>4. CASE ChainDecides(w)
  <2>1. PICK i \in DOMAIN chain[w], fate \in {"confirmed", "failed"} :
          chain[w][i] = "pending" /\ chain' = [chain EXCEPT ![w][i] = fate]
    BY <1>4 DEF ChainDecides
  <2>2. chain'[w] = [chain[w] EXCEPT ![i] = fate]
    BY <1>1, <2>1
  <2>3. chain'[w] \in Seq(Fates) /\ DOMAIN chain'[w] = DOMAIN chain[w]
    BY <1>1, <2>2 DEF Fates
  <2>4. \A j \in DOMAIN chain[w] : chain[w][j] # "pending" => chain'[w][j] # "pending"
    BY <1>1, <2>1, <2>2
  <2> QED
    BY <1>1, <1>4, <2>1, <2>3, <2>4 DEF ChainDecides, ledgerVars, BookTyped, Has
<1> QED
  BY <1>2, <1>3, <1>4

LEMMA UpdatedTask ==
  ASSUME NEW w \in Orders, NEW r \in TaskRow, r.txHash \in Hashes(w), NEW f, TaskFields(f, w),
         Hashes(w) \subseteq Nat
  PROVE  Updated(r, f) \in TaskRow /\ Updated(r, f).txHash \in Hashes(w)
BY DEF TaskRow, TaskFields, Updated

LEMMA UpdatedOrder ==
  ASSUME NEW w \in Orders, NEW r \in OrderRow, r.txHash \in Hashes(w), NEW f, OrderFields(f, w),
         Hashes(w) \subseteq Nat
  PROVE  /\ Updated(r, f) \in OrderRow /\ Updated(r, f).txHash \in Hashes(w)
         /\ Updated(r, f).status \in {r.status, "failed"}
BY DEF OrderRow, OrderFields, Updated, Terminal

LEMMA ConfirmingType ==
  ASSUME NEW w \in Orders, NEW t, t = None \/ (t \in TaskRow /\ t.txHash \in Hashes(w)),
         NEW h \in Hashes(w), Hashes(w) \subseteq Nat
  PROVE  Confirming(t, h) \in TaskRow /\ Confirming(t, h).txHash \in Hashes(w)
<1> DEFINE r == IF t = None THEN NewTask("manual", "confirming", h) ELSE t
           f == [mode |-> "manual", state |-> "confirming", txHash |-> h]
<1>1. r \in TaskRow /\ r.txHash \in Hashes(w)
  BY RowTypes DEF Open, NewTask
<1>2. TaskFields(f, w)
  BY DEF TaskFields, Open
<1>3. Confirming(t, h) = Updated(r, f)
  BY DEF Confirming
<1> HIDE DEF r, f
<1> QED
  BY <1>1, <1>2, <1>3, UpdatedTask

LEMMA AdminStepTypes ==
  ASSUME WellTyped, NEW w \in Orders, AdminStep(w)
  PROVE  KeepsAt(w) /\ UNCHANGED worker
<1>1. Shapes /\ RowsAt(w) /\ Hashes(w) \subseteq Nat
  BY HashType DEF WellTyped, AllRows, RowsAt
<1>2. UNCHANGED ledgerVars => BookTyped' /\ \A op, x : Has(op, x)' = Has(op, x)
  BY <1>1 DEF ledgerVars, Shapes, BookTyped, Has
<1>3. order[w] # None => order[w] \in OrderRow
  BY <1>1 DEF RowsAt
<1> USE DEF Shapes, RowsAt, KeepsAt, Elsewhere, Grows, Mined
<1>4. ASSUME NEW op \in AdminOps \cap DOMAIN LedgerCallOf, NEW hash \in Hashes(w), AdminCall(op, w, hash)
      PROVE  KeepsAt(w) /\ UNCHANGED worker
  <2>1. LedgerCallOf[op] \in Operations
    BY DEF LedgerCallOf, Operations
  <2>2. PICK ok \in BOOLEAN :
          /\ \/ Call(LedgerCallOf[op], w, ok)
             \/ UNCHANGED ledgerVars
          /\ admin' = IF ok THEN [admin EXCEPT ![w] = [op |-> op, hash |-> hash]] ELSE admin
    BY <1>4 DEF AdminCall
  <2>3. BookTyped' /\ (\A o \in Operations, x \in Orders : x # w => Has(o, x)' = Has(o, x))
        /\ \A o \in Operations : Has(o, w) => Has(o, w)'
    BY <1>1, <1>2, <2>1, <2>2, CallHasEffect DEF CallEffect
  <2>4. order[w] # None /\ UNCHANGED <<creator, order, task, lock, worker, chain>>
    BY <1>4 DEF AdminCall
  <2>5. admin'[w] = admin[w] \/ admin'[w] = [op |-> op, hash |-> hash]
    BY <1>1, <2>2
  <2>6. (admin' = [x \in Orders |-> admin'[x]]) /\ \A x \in Orders : x # w => admin'[x] = admin[x]
    BY <1>1, <2>2
  <2> QED
    BY <1>1, <2>3, <2>4, <2>5, <2>6 DEF Hashes
<1>5. CASE AdminCommit(w)
  <2>1. /\ admin[w] # None /\ order[w] \in OrderRow /\ admin[w].hash \in Hashes(w)
        /\ order[w].txHash \in Hashes(w)
        /\ UNCHANGED <<ledgerVars, creator, lock, worker, chain>>
        /\ admin' = [admin EXCEPT ![w] = None]
    BY <1>1, <1>5 DEF AdminCommit
  <2>2. \/ CommitApprove(w)
        \/ CommitCancel(w) \/ CommitReject(w)
        \/ CommitFail(w)
        \/ CommitComplete(w, admin[w].hash)
    BY <1>5 DEF AdminCommit
  <2>3. /\ order' = [order EXCEPT ![w] = order'[w]] /\ task' = [task EXCEPT ![w] = task'[w]]
        /\ order'[w] \in OrderRow /\ order'[w].txHash \in Hashes(w)
        /\ task'[w] # None => task'[w] \in TaskRow /\ task'[w].txHash \in Hashes(w)
        /\ task[w] # None => task'[w] # None
        /\ order'[w].status = "processing" => task'[w] # None
    <3>1. ASSUME NEW st \in {"processing"} \cup Terminal, Restated(w, st)
          PROVE  /\ order' = [order EXCEPT ![w] = order'[w]]
                 /\ order'[w] \in OrderRow /\ order'[w].txHash \in Hashes(w)
                 /\ order'[w].status = st
      BY <1>1, <2>1, <3>1 DEF Restated, OrderRow
    <3>2. CASE CommitApprove(w)
      <4>1. task'[w] = IF task[w] = None THEN FirstTask(w) ELSE task[w]
        BY <1>1, <3>2 DEF CommitApprove
      <4>2. task' = [task EXCEPT ![w] = task'[w]]
        BY <1>1, <3>2 DEF CommitApprove
      <4>3. FirstTask(w) \in TaskRow /\ FirstTask(w).txHash \in Hashes(w) /\ FirstTask(w) # None
        BY RowTypes, NoneAssumption DEF Hashes
      <4> QED
        BY <1>1, <3>1, <3>2, <4>1, <4>2, <4>3 DEF CommitApprove
    <3>3. CASE CommitCancel(w) \/ CommitReject(w)
      <4>1. PICK st \in {"cancelled", "rejected"} : Restated(w, st) /\ UNCHANGED task
        BY <3>3 DEF CommitCancel, CommitReject
      <4>2. /\ order' = [order EXCEPT ![w] = order'[w]]
            /\ order'[w] \in OrderRow /\ order'[w].txHash \in Hashes(w)
            /\ order'[w].status \in {"cancelled", "rejected"}
        BY <3>1, <4>1 DEF Terminal
      <4>3. task' = [task EXCEPT ![w] = task'[w]] /\ task'[w] = task[w]
        BY <1>1, <4>1
      <4> QED
        BY <1>1, <4>2, <4>3
    <3>4. CASE CommitFail(w)
      <4>1. Restated(w, "failed")
        BY <3>4 DEF CommitFail
      <4>2. task'[w] = IF task[w] = None THEN None ELSE [task[w] EXCEPT !.state = "failed"]
        BY <1>1, <3>4 DEF CommitFail
      <4>3. task' = [task EXCEPT ![w] = task'[w]]
        BY <1>1, <3>4 DEF CommitFail
      <4>4. task[w] # None => /\ [task[w] EXCEPT !.state = "failed"] \in TaskRow
                              /\ [task[w] EXCEPT !.state = "failed"].txHash = task[w].txHash
        BY <1>1 DEF TaskRow
      <4>5. /\ order' = [order EXCEPT ![w] = order'[w]]
            /\ order'[w] \in OrderRow /\ order'[w].txHash \in Hashes(w)
            /\ order'[w].status = "failed"
        BY <3>1, <4>1 DEF Terminal
      <4>6. (task'[w] # None => task'[w] \in TaskRow /\ task'[w].txHash \in Hashes(w))
            /\ (task[w] # None => task'[w] # None)
        BY <1>1, <4>2, <4>4, NoneAssumption
      <4> QED
        BY <4>3, <4>5, <4>6
    <3>5. CASE CommitComplete(w, admin[w].hash)
      <4>1. order' = [order EXCEPT ![w] = order'[w]] /\ task' = [task EXCEPT ![w] = task'[w]]
        BY <1>1, <3>5 DEF CommitComplete
      <4>2. order'[w] = [status |-> "completed", txHash |-> admin[w].hash]
            /\ task'[w] = Confirming(task[w], admin[w].hash)
        BY <1>1, <3>5 DEF CommitComplete
      <4>3. order'[w] \in OrderRow /\ order'[w].txHash \in Hashes(w) /\ order'[w].status = "completed"
        BY <1>1, <2>1, <4>2, RowTypes DEF Terminal
      <4>4. task'[w] \in TaskRow /\ task'[w].txHash \in Hashes(w)
        <5>1. task[w] = None \/ (task[w] \in TaskRow /\ task[w].txHash \in Hashes(w))
          BY <1>1
        <5>2. Confirming(task[w], admin[w].hash) \in TaskRow
              /\ Confirming(task[w], admin[w].hash).txHash \in Hashes(w)
          BY <1>1, <2>1, <5>1, ConfirmingType
        <5> QED
          BY <4>2, <5>2
      <4> QED
        BY <4>1, <4>3, <4>4, NoneAssumption
    <3> QED
      BY <2>2, <3>2, <3>3, <3>4, <3>5
  <2>4. order'[w] # None
    BY <2>3, NoneAssumption
  <2>5. Hashes(w)' = Hashes(w)
    BY <2>1 DEF Hashes
  <2> QED
    BY <1>1, <1>2, <2>1, <2>3, <2>4, <2>5
<1>6. CASE AdminRollback(w)
  BY <1>1, <1>2, <1>6 DEF AdminRollback, Hashes
<1>7. ASSUME NEW hash \in Hashes(w), AdminSetHash(w, hash)
      PROVE  KeepsAt(w) /\ UNCHANGED worker
  <2> DEFINE f == [mode |-> "manual", state |-> "awaiting_manual_txhash", txHash |-> NoHash]
  <2>1. /\ order[w] # None /\ order[w].status = "processing" /\ task[w] # None
        /\ UNCHANGED <<ledgerVars, creator, lock, admin, worker, chain>>
    BY <1>1, <1>7 DEF AdminSetHash
  <2>2. order'[w] = [order[w] EXCEPT !.txHash = hash]
        /\ task'[w] = IF hash # NoHash THEN Confirming(task[w], hash) ELSE Updated(task[w], f)
    BY <1>1, <1>7 DEF AdminSetHash
  <2>3. order'[w] \in OrderRow /\ order'[w].txHash \in Hashes(w) /\ order'[w] # None
    BY <1>1, <1>3, <2>1, <2>2, NoneAssumption DEF OrderRow
  <2>4. TaskFields(f, w)
    BY DEF TaskFields, Open, Hashes
  <2>5. task'[w] \in TaskRow /\ task'[w].txHash \in Hashes(w) /\ task'[w] # None
    <3> HIDE DEF f
    <3> QED
      BY <1>1, <2>1, <2>2, <2>4, ConfirmingType, UpdatedTask, NoneAssumption
  <2>6. /\ order' = [x \in Orders |-> order'[x]] /\ task' = [x \in Orders |-> task'[x]]
        /\ \A x \in Orders : x # w => UNCHANGED <<order[x], task[x]>>
    BY <1>1, <1>7 DEF AdminSetHash
  <2>7. Hashes(w)' = Hashes(w)
    BY <2>1 DEF Hashes
  <2> QED
    BY <1>1, <1>2, <2>1, <2>3, <2>5, <2>6, <2>7
<1> QED
  BY <1>4, <1>5, <1>6, <1>7 DEF AdminStep, Hashes

-------------------------------------------------------------------------------
(* Type correctness: the steps of the worker.                                 *)

\* The updates the worker sends.
LEMMA SentUpdates ==
  ASSUME NEW w \in Orders
  PROVE  /\ IsUpdate(FailTask, w) /\ IsUpdate(AwaitHash, w) /\ IsUpdate(Rebroadcast, w)
         /\ IsUpdate(ForgetHash, w) /\ IsUpdate(SetOrder([status |-> "failed"]), w)
         /\ IsUpdate(SetTask([state |-> "done"]), w)
         /\ IsUpdate(SetTask([state |-> "settle_pending"]), w)
         /\ \A n \in 0 .. MaxAttempts :
              IsUpdate(SetTask([mode |-> "system", state |-> "pending_broadcast", attempts |-> n]), w)
         /\ \A h \in Hashes(w) : IsUpdate(SetOrder([txHash |-> h]), w)
         /\ \A h \in Hashes(w) :
              IsUpdate(SetTask([mode |-> "manual", state |-> "confirming", txHash |-> h]), w)
         /\ \A h \in Hashes(w), n \in 0 .. MaxAttempts :
              IsUpdate(SetTask([mode |-> "system", state |-> "confirming", txHash |-> h, attempts |-> n]), w)
BY DEF IsUpdate, OrderFields, TaskFields, SetTask, SetOrder, FailTask, AwaitHash, Rebroadcast,
       ForgetHash, Open, Hashes

LEMMA UpdateQueues ==
  ASSUME NEW w
  PROVE  /\ Updates(<<>>, w)
         /\ \A a : IsUpdate(a, w) => Updates(<<a>>, w)
         /\ \A a, b : IsUpdate(a, w) /\ IsUpdate(b, w) => Updates(<<a, b>>, w)
         /\ \A q : Updates(q, w) /\ q # <<>> => IsUpdate(Head(q), w) /\ Updates(Tail(q), w)
<1>1. \A q : Updates(q, w) /\ q # <<>> => IsUpdate(Head(q), w) /\ Updates(Tail(q), w)
  <2> SUFFICES ASSUME NEW q, Updates(q, w), q # <<>>
               PROVE  IsUpdate(Head(q), w) /\ Updates(Tail(q), w)
    OBVIOUS
  <2>1. ASSUME NEW a, q = <<a>>, IsUpdate(a, w) PROVE IsUpdate(Head(q), w) /\ Updates(Tail(q), w)
    BY <2>1 DEF Updates
  <2>2. ASSUME NEW a, NEW b, q = <<a, b>>, IsUpdate(a, w), IsUpdate(b, w)
        PROVE  IsUpdate(Head(q), w) /\ Updates(Tail(q), w)
    <3>1. Head(q) = a /\ Tail(q) = <<b>>
      BY <2>2
    <3> QED
      BY <2>2, <3>1 DEF Updates
  <2> QED
    BY <2>1, <2>2 DEF Updates
<1> QED
  BY <1>1 DEF Updates

\* What a handler starts with, and when.
LEMMA StartType ==
  ASSUME NEW w \in Orders, NEW t \in TaskRow, t.txHash \in Hashes(w),
         NEW o \in OrderRow, o.txHash \in Hashes(w)
  PROVE  LET start == Start(w, t, o)
         IN /\ start[1] \in {"writing", "unfreeze", "broadcast", "status", "settle"}
            /\ start[1] = "broadcast" => t.attempts < MaxAttempts
            /\ start[1] = "status" => EitherHash(t, o) # NoHash
            /\ start[1] = "settle" => t.state = "settle_pending"
            /\ start[2] = <<>>
               \/ \E a \in {start[2][1]} : start[2] = <<a>> /\ IsUpdate(a, w) /\ ~Settles(a)
<1> DEFINE Good(start) ==
      /\ start[1] \in {"writing", "unfreeze", "broadcast", "status", "settle"}
      /\ start[1] = "broadcast" => t.attempts < MaxAttempts
      /\ start[1] = "status" => EitherHash(t, o) # NoHash
      /\ start[1] = "settle" => t.state = "settle_pending"
      /\ start[2] = <<>>
         \/ \E a \in {start[2][1]} : start[2] = <<a>> /\ IsUpdate(a, w) /\ ~Settles(a)
<1>1. ASSUME NEW a, IsUpdate(a, w), ~Settles(a) PROVE Good(<<"writing", <<a>>>>)
  BY <1>1
<1>2. /\ \A a \in {FailTask, AwaitHash, Rebroadcast, SetTask([state |-> "done"])} :
           IsUpdate(a, w) /\ ~Settles(a)
      /\ \A h \in Hashes(w) :
           LET a == SetTask([mode |-> "manual", state |-> "confirming", txHash |-> h])
           IN IsUpdate(a, w) /\ ~Settles(a)
  <2>1. \A a \in {FailTask, AwaitHash, Rebroadcast, SetTask([state |-> "done"])} : ~Settles(a)
    BY DEF Settles, SetTask, FailTask, AwaitHash, Rebroadcast
  <2>2. \A h : ~Settles(SetTask([mode |-> "manual", state |-> "confirming", txHash |-> h]))
    BY DEF Settles, SetTask
  <2> QED
    BY <2>1, <2>2, SentUpdates
<1>3. Good(AwaitingStart(t, o))
  <2>1. EitherHash(o, t) \in Hashes(w)
    BY DEF EitherHash
  <2> HIDE DEF Good
  <2> QED
    BY <1>1, <1>2, <2>1 DEF AwaitingStart
<1>4. Good(BroadcastStart(w, t))
  <2>1. CASE StrategyOf[w] = "manual_manual"
    <3> HIDE DEF Good
    <3> QED
      BY <1>1, <1>2, <2>1 DEF BroadcastStart
  <2>2. CASE StrategyOf[w] # "manual_manual" /\ t.attempts >= MaxAttempts
    BY <2>2 DEF BroadcastStart
  <2>3. CASE StrategyOf[w] # "manual_manual" /\ ~(t.attempts >= MaxAttempts)
    <3>1. t.attempts < MaxAttempts
      BY <2>3, PayoutAssumption DEF TaskRow
    <3> QED
      BY <2>3, <3>1 DEF BroadcastStart
  <2> QED
    BY <2>1, <2>2, <2>3
<1>5. Good(ConfirmStart(t, o))
  <2>1. CASE EitherHash(t, o) # NoHash
    BY <2>1 DEF ConfirmStart
  <2>2. CASE EitherHash(t, o) = NoHash
    <3> HIDE DEF Good
    <3> QED
      BY <1>1, <1>2, <2>2 DEF ConfirmStart
  <2> QED
    BY <2>1, <2>2
<1>6. t.state = "settle_pending" => Good(<<"settle", <<>>>>)
  OBVIOUS
<1>7. Good(<<"writing", <<FailTask>>>>) /\ Good(<<"writing", <<SetTask([state |-> "done"])>>>>)
  <2> HIDE DEF Good
  <2> QED
    BY <1>1, <1>2
<1>8. Good(Start(w, t, o))
  <2> HIDE DEF Good
  <2> QED
    BY <1>3, <1>4, <1>5, <1>6, <1>7 DEF Start
<1> QED
  BY <1>8

OthersRest(v) == \A y \in Workers : y # v => worker'[y] = worker[y]

\* A handler that goes on after it has read the rows.
LEMMA GoesOn ==
  ASSUME WellTyped, NEW v \in Workers, NEW w, worker[v] # Idle, worker[v].w = w, worker[v].pc \in ReadRows,
         Hashes(w) \subseteq Hashes(w)', (task[w] # None)',
         NEW p \in {"writing", "finalize", "unfreeze"}, NEW q, Goes(v, p, q), Updates(q, w)'
  PROVE  WorkerAt(v)' /\ OthersRest(v) /\ worker' = [x \in Workers |-> worker'[x]]
<1> DEFINE s == worker[v]
<1>1. /\ s = [pc |-> s.pc, w |-> s.w, task |-> s.task, order |-> s.order, todo |-> s.todo]
      /\ w \in Orders /\ s.task \in TaskRow /\ s.task.txHash \in Hashes(w)
      /\ s.order \in OrderRow /\ s.order.txHash \in Hashes(w)
      /\ worker = [x \in Workers |-> worker[x]]
  BY DEF WellTyped, AllWorkers, WorkerAt, ReadRows, Shapes
<1>2. worker'[v] = [pc |-> p, w |-> w, task |-> s.task, order |-> s.order, todo |-> q]
  BY <1>1 DEF Goes
<1>3. worker' = [x \in Workers |-> worker'[x]] /\ OthersRest(v)
  BY <1>1 DEF Goes, OthersRest
<1>4. worker'[v].w = w /\ worker'[v].pc = p /\ worker'[v].task = s.task
      /\ worker'[v].order = s.order /\ worker'[v].todo = q
  BY <1>2
<1>5. Updates(worker[v].todo, worker[v].w)'
  BY <1>4 DEF Updates, IsUpdate, OrderFields, TaskFields, Hashes
<1> QED
  BY <1>1, <1>2, <1>3, <1>4, <1>5 DEF WorkerAt, Stages

\* A step that at most books something and takes or frees the lock of w.
LEMMA RowsRest ==
  ASSUME WellTyped, NEW w \in Orders, UNCHANGED <<creator, order, task, admin, chain>>,
         lock' = [lock EXCEPT ![w] = lock'[w]], lock'[w] \in Workers \cup {None},
         BookTyped', worker' = [x \in Workers |-> worker'[x]],
         \A o \in Operations, x \in Orders : x # w => Has(o, x)' = Has(o, x),
         \A o \in Operations : Has(o, w) => Has(o, w)'
  PROVE  KeepsAt(w)
<1>1. Shapes /\ RowsAt(w)
  BY DEF WellTyped, AllRows
<1> QED
  BY <1>1 DEF KeepsAt, Shapes, RowsAt, Elsewhere, Grows, Mined, Hashes

LEMMA BooksRest ==
  ASSUME WellTyped, UNCHANGED ledgerVars
  PROVE  BookTyped' /\ \A op, x : Has(op, x)' = Has(op, x)
BY DEF WellTyped, Shapes, ledgerVars, BookTyped, Has

Moves(v, w) == KeepsAt(w) /\ WorkerAt(v)' /\ OthersRest(v)

\* A worker at work: the order it has in hand and what it has read.
LEMMA AtWork ==
  ASSUME WellTyped, NEW v \in Workers, worker[v] # Idle
  PROVE  /\ worker[v].w \in Orders /\ WorkerAt(v) /\ RowsAt(worker[v].w) /\ task[worker[v].w] # None
         /\ Shapes /\ Hashes(worker[v].w) \subseteq Nat
BY HashType DEF WellTyped, AllWorkers, AllRows, WorkerAt, RowsAt

LEMMA TakeTypes ==
  ASSUME WellTyped, NEW v \in Workers, NEW w \in Orders, Take(v, w)
  PROVE  Moves(v, w)
<1>1. Shapes /\ UNCHANGED <<ledgerVars, creator, order, task, admin, chain>>
      /\ lock' = [lock EXCEPT ![w] = v] /\ task[w] # None
  BY DEF WellTyped, Take
<1>2. worker' = [worker EXCEPT ![v] = [pc |-> "locked", w |-> w, task |-> None, order |-> None, todo |-> <<>>]]
  BY DEF Take
<1>3. worker'[v] = [pc |-> "locked", w |-> w, task |-> None, order |-> None, todo |-> <<>>]
      /\ OthersRest(v) /\ worker' = [x \in Workers |-> worker'[x]]
  BY <1>1, <1>2 DEF Shapes, OthersRest
<1>4. WorkerAt(v)'
  BY <1>1, <1>3 DEF WorkerAt, Stages, ReadRows, Updates
<1>5. KeepsAt(w)
  BY <1>1, <1>3, RowsRest, BooksRest DEF Shapes
<1> QED
  BY <1>3, <1>4, <1>5 DEF Moves

\* What a worker must be like after a step.
LEMMA NewWorker ==
  ASSUME NEW v \in Workers, NEW w \in Orders, NEW p \in Stages, NEW t, NEW o, NEW q,
         worker'[v] = [pc |-> p, w |-> w, task |-> t, order |-> o, todo |-> q],
         (task[w] # None)', Updates(q, w)',
         p # "locked" => t \in TaskRow /\ t.txHash \in Hashes(w)',
         p \in ReadRows => o \in OrderRow /\ o.txHash \in Hashes(w)',
         p = "broadcast" => t.attempts < MaxAttempts,
         p = "status" => EitherHash(t, o) # NoHash
  PROVE  WorkerAt(v)'
<1>1. /\ worker'[v].pc = p /\ worker'[v].w = w /\ worker'[v].task = t
      /\ worker'[v].order = o /\ worker'[v].todo = q
  OBVIOUS
<1>2. Updates(worker[v].todo, worker[v].w)'
  BY <1>1 DEF Updates, IsUpdate, OrderFields, TaskFields, Hashes
<1> QED
  BY <1>1, <1>2 DEF WorkerAt, Hashes

LEMMA ReadTaskTypes ==
  ASSUME WellTyped, NEW v \in Workers, NEW w, worker[v].w = w, ReadTask(v)
  PROVE  w \in Orders /\ Moves(v, w)
<1>1. worker[v] # Idle
  BY DEF ReadTask, Idle
<1> DEFINE s == worker[v]
<1>2. /\ w \in Orders /\ WorkerAt(v) /\ RowsAt(w) /\ task[w] # None /\ Shapes
      /\ UNCHANGED <<ledgerVars, creator, order, task, lock, admin, chain>>
  BY <1>1, AtWork DEF ReadTask
<1>3. PICK t, o, q : t = task[w] /\ o = s.order /\ q = s.todo
  OBVIOUS
<1>4. s = [pc |-> s.pc, w |-> w, task |-> s.task, order |-> o, todo |-> q] /\ Updates(q, w)
  BY <1>1, <1>2, <1>3 DEF WorkerAt
<1>5. worker'[v] = [pc |-> "loaded", w |-> w, task |-> t, order |-> o, todo |-> q]
  BY <1>2, <1>3, <1>4 DEF ReadTask, Shapes
<1>6. OthersRest(v) /\ worker' = [x \in Workers |-> worker'[x]]
  BY <1>2 DEF ReadTask, Shapes, OthersRest
<1>7. t \in TaskRow /\ t.txHash \in Hashes(w)
  BY <1>2, <1>3 DEF RowsAt
<1>8. Hashes(w)' = Hashes(w)
  BY <1>2 DEF Hashes
<1>9. WorkerAt(v)'
  BY <1>2, <1>4, <1>5, <1>7, <1>8, NewWorker, UpdatesStay DEF Stages, ReadRows
<1>10. KeepsAt(w)
  BY <1>2, <1>6, RowsRest, BooksRest DEF Shapes, RowsAt
<1> QED
  BY <1>2, <1>6, <1>9, <1>10 DEF Moves

LEMMA ReadOrderTypes ==
  ASSUME WellTyped, NEW v \in Workers, NEW w, worker[v].w = w, ReadOrder(v)
  PROVE  w \in Orders /\ Moves(v, w)
<1>1. worker[v] # Idle
  BY DEF ReadOrder, Idle
<1> DEFINE s == worker[v]
<1>2. /\ w \in Orders /\ WorkerAt(v) /\ RowsAt(w) /\ task[w] # None /\ Shapes
      /\ UNCHANGED <<ledgerVars, creator, order, task, lock, admin, chain>>
      /\ s.pc = "loaded"
  BY <1>1, AtWork DEF ReadOrder
<1>3. PICK t, o, p, q : t = s.task /\ o = order[w] /\ p = Start(w, t, o)[1] /\ q = Start(w, t, o)[2]
  OBVIOUS
<1>4. s = [pc |-> s.pc, w |-> w, task |-> t, order |-> s.order, todo |-> s.todo]
      /\ t \in TaskRow /\ t.txHash \in Hashes(w)
  BY <1>1, <1>2, <1>3 DEF WorkerAt
<1>5. worker'[v] = [pc |-> p, w |-> w, task |-> t, order |-> o, todo |-> q]
  BY <1>2, <1>3, <1>4 DEF ReadOrder, Shapes
<1>6. OthersRest(v) /\ worker' = [x \in Workers |-> worker'[x]]
  BY <1>2 DEF ReadOrder, Shapes, OthersRest
<1>7. o \in OrderRow /\ o.txHash \in Hashes(w)
  BY <1>2, <1>3 DEF RowsAt
<1>8. Hashes(w)' = Hashes(w)
  BY <1>2 DEF Hashes
<1>9. /\ p \in {"writing", "unfreeze", "broadcast", "status", "settle"}
      /\ p = "broadcast" => t.attempts < MaxAttempts
      /\ p = "status" => EitherHash(t, o) # NoHash
      /\ Updates(q, w)
  <2>1. /\ p \in {"writing", "unfreeze", "broadcast", "status", "settle"}
        /\ p = "broadcast" => t.attempts < MaxAttempts
        /\ p = "status" => EitherHash(t, o) # NoHash
        /\ q = <<>> \/ \E a \in {q[1]} : q = <<a>> /\ IsUpdate(a, w)
    BY <1>2, <1>3, <1>4, <1>7, StartType
  <2> QED
    BY <2>1 DEF Updates
<1>10. WorkerAt(v)'
  BY <1>2, <1>4, <1>5, <1>7, <1>8, <1>9, NewWorker, UpdatesStay DEF Stages, ReadRows
<1>11. KeepsAt(w)
  BY <1>2, <1>6, RowsRest, BooksRest DEF Shapes, RowsAt
<1> QED
  BY <1>2, <1>6, <1>10, <1>11 DEF Moves

\* A worker that puts its task down, and the lock it may have with it.
LEMMA PutDownTypes ==
  ASSUME WellTyped, NEW v \in Workers, NEW w, worker[v].w = w, Release(v) \/ Crash(v)
  PROVE  w \in Orders /\ Moves(v, w)
<1>1. worker[v] # Idle
  BY DEF Release, Crash, Idle
<1>2. /\ w \in Orders /\ Shapes /\ RowsAt(w)
      /\ UNCHANGED <<ledgerVars, creator, order, task, admin, chain>>
      /\ worker' = [worker EXCEPT ![v] = Idle]
  BY <1>1, AtWork DEF Release, Crash
<1>3. lock' = [lock EXCEPT ![w] = lock'[w]] /\ lock'[w] \in Workers \cup {None}
  BY <1>2 DEF Release, Crash, Shapes, RowsAt
<1>4. worker'[v] = Idle /\ OthersRest(v) /\ worker' = [x \in Workers |-> worker'[x]]
  BY <1>2 DEF Shapes, OthersRest
<1>5. KeepsAt(w)
  BY <1>2, <1>3, <1>4, RowsRest, BooksRest
<1> QED
  BY <1>2, <1>4, <1>5 DEF Moves, WorkerAt

\* A handler that goes on and leaves rows and chain alone.
LEMMA RestTypes ==
  ASSUME WellTyped, NEW v \in Workers, NEW w, worker[v] # Idle, worker[v].w = w, worker[v].pc \in ReadRows,
         UNCHANGED <<creator, order, task, lock, admin, chain>>, BookTyped',
         \A o \in Operations, x \in Orders : x # w => Has(o, x)' = Has(o, x),
         \A o \in Operations : Has(o, w) => Has(o, w)',
         NEW p \in {"writing", "finalize", "unfreeze"}, NEW q, Goes(v, p, q), Updates(q, w)
  PROVE  w \in Orders /\ Moves(v, w)
<1>1. w \in Orders /\ task[w] # None /\ Shapes /\ RowsAt(w)
  BY AtWork
<1>2. Hashes(w) = Hashes(w)'
  BY DEF Hashes
<1>3. Updates(q, w)'
  BY <1>2, UpdatesStay
<1>4. WorkerAt(v)' /\ OthersRest(v) /\ worker' = [x \in Workers |-> worker'[x]]
  BY <1>1, <1>2, <1>3, GoesOn
<1>5. KeepsAt(w)
  BY <1>1, <1>4, RowsRest DEF Shapes, RowsAt
<1> QED
  BY <1>1, <1>4, <1>5 DEF Moves

LEMMA LoseWritesTypes ==
  ASSUME WellTyped, NEW v \in Workers, NEW w, worker[v].w = w, LoseWrites(v)
  PROVE  w \in Orders /\ Moves(v, w)
<1>1. worker[v] # Idle /\ worker[v].pc \in ReadRows
  BY DEF LoseWrites, Idle, ReadRows
<1>2. w \in Orders /\ Updates(worker[v].todo, w) /\ worker[v].todo # <<>>
  BY <1>1, AtWork DEF WorkerAt, LoseWrites
<1>3. PICK q \in {Tail(worker[v].todo), <<>>} : Goes(v, "writing", q)
  BY DEF LoseWrites, Writes
<1>4. Updates(q, w)
  BY <1>2, <1>3, UpdateQueues
<1>5. UNCHANGED <<ledgerVars, creator, order, task, lock, admin, chain>>
  BY DEF LoseWrites
<1> QED
  BY <1>1, <1>2, <1>3, <1>4, <1>5, RestTypes, BooksRest

LEMMA CheckStatusTypes ==
  ASSUME WellTyped, NEW v \in Workers, NEW w, worker[v].w = w, CheckStatus(v)
  PROVE  w \in Orders /\ Moves(v, w)
<1>1. worker[v] # Idle /\ worker[v].pc \in ReadRows /\ w \in Orders
  BY AtWork DEF CheckStatus, Idle, ReadRows
<1>2. UNCHANGED <<ledgerVars, creator, order, task, lock, admin, chain>>
  BY DEF CheckStatus
<1>3. \/ Goes(v, "writing", <<>>) \/ Goes(v, "unfreeze", <<>>)
      \/ \E a \in {SetTask([state |-> "settle_pending"]), AwaitHash, ForgetHash} : Goes(v, "writing", <<a>>)
  BY DEF CheckStatus, Writes
<1>4. PICK p, q : p \in {"writing", "unfreeze"} /\ Goes(v, p, q) /\ Updates(q, w)
  BY <1>1, <1>3, SentUpdates, UpdateQueues
<1> QED
  BY <1>1, <1>2, <1>4, RestTypes, BooksRest

LEMMA SettleTypes ==
  ASSUME WellTyped, NEW v \in Workers, NEW w, worker[v].w = w, Settle(v) \/ FailAndUnfreeze(v)
  PROVE  w \in Orders /\ Moves(v, w)
<1>1. worker[v] # Idle /\ worker[v].pc \in ReadRows /\ w \in Orders /\ BookTyped
  BY AtWork DEF Settle, FailAndUnfreeze, Idle, ReadRows, Shapes
<1>2. UNCHANGED <<creator, order, task, lock, admin, chain>>
  BY DEF Settle, FailAndUnfreeze
<1>3. PICK p, q : p \in {"writing", "finalize"} /\ Goes(v, p, q) /\ Updates(q, w)
  <2>1. CASE Settle(v)
    <3>1. \E p \in {"writing", "finalize"} : Goes(v, p, <<>>)
      BY <2>1 DEF Settle
    <3> QED
      BY <3>1, UpdateQueues
  <2>2. CASE FailAndUnfreeze(v)
    <3>1. Goes(v, "writing", <<SetOrder([status |-> "failed"]), FailTask>>)
      BY <2>2 DEF FailAndUnfreeze, Writes
    <3> QED
      BY <1>1, <3>1, SentUpdates, UpdateQueues
  <2> QED
    BY <2>1, <2>2
<1>4. /\ BookTyped'
      /\ \A o \in Operations, x \in Orders : x # w => Has(o, x)' = Has(o, x)
      /\ \A o \in Operations : Has(o, w) => Has(o, w)'
  <2>1. CASE UNCHANGED ledgerVars
    BY <2>1, BooksRest
  <2>2. CASE \E op \in {"settle", "unfreeze"}, ok \in BOOLEAN : Call(op, w, ok)
    <3>1. PICK op \in {"settle", "unfreeze"}, ok \in BOOLEAN : Call(op, w, ok)
      BY <2>2
    <3>2. op \in Operations
      BY DEF Operations
    <3>3. CallEffect(op, w, ok)
      BY <1>1, <3>1, <3>2, CallHasEffect
    <3>4. BookTyped' /\ \A o \in Operations, x \in Orders : o # op \/ x # w => Has(o, x)' = Has(o, x)
      BY <3>3 DEF CallEffect
    <3>5. Has(op, w) => Has(op, w)'
      BY <3>3 DEF CallEffect
    <3>6. \A o \in Operations : Has(o, w) => Has(o, w)'
      BY <1>1, <3>4, <3>5
    <3> QED
      BY <3>4, <3>6
  <2> QED
    BY <2>1, <2>2 DEF Settle, FailAndUnfreeze
<1> QED
  BY <1>1, <1>2, <1>3, <1>4, RestTypes

LEMMA BroadcastTypes ==
  ASSUME WellTyped, NEW v \in Workers, NEW w, worker[v].w = w, Broadcast(v)
  PROVE  w \in Orders /\ Moves(v, w)
<1>1. worker[v] # Idle /\ worker[v].pc \in ReadRows /\ worker[v].pc = "broadcast"
  BY DEF Broadcast, Idle, ReadRows
<1>2. /\ w \in Orders /\ task[w] # None /\ Shapes /\ RowsAt(w)
      /\ UNCHANGED <<ledgerVars, creator, order, task, lock, admin>>
  BY <1>1, AtWork DEF Broadcast
<1>3. PICK n, h : n = worker[v].task.attempts + 1 /\ h = Len(chain[w]) + 1
  OBVIOUS
<1>4. n \in 0 .. MaxAttempts
  <2>1. worker[v].task \in TaskRow /\ worker[v].task.attempts < MaxAttempts
    BY <1>1, AtWork DEF WorkerAt
  <2>2. worker[v].task.attempts \in Nat
    BY <2>1, PayoutAssumption DEF TaskRow
  <2> QED
    BY <1>3, <2>1, <2>2, PayoutAssumption
<1> DEFINE late == SetTask([mode |-> "system", state |-> "pending_broadcast", attempts |-> n])
           sent == <<SetOrder([txHash |-> h]),
                     SetTask([mode |-> "system", state |-> "confirming", txHash |-> h, attempts |-> n])>>
<1>5. /\ UNCHANGED chain \/ chain' = [chain EXCEPT ![w] = Append(chain[w], "pending")]
      /\ \/ Goes(v, "unfreeze", <<>>) \/ Goes(v, "writing", <<late>>)
         \/ Goes(v, "writing", sent) /\ chain' = [chain EXCEPT ![w] = Append(chain[w], "pending")]
  BY <1>3 DEF Broadcast, Sent, Writes
<1>6. chain'[w] \in Seq(Fates) /\ DOMAIN chain[w] \subseteq DOMAIN chain'[w]
      /\ (\A i \in DOMAIN chain[w] : chain'[w][i] = chain[w][i])
      /\ chain' = [x \in Orders |-> chain'[x]] /\ \A x \in Orders : x # w => chain'[x] = chain[x]
  <2>1. CASE UNCHANGED chain
    BY <1>2, <2>1 DEF Shapes, RowsAt
  <2>2. CASE chain' = [chain EXCEPT ![w] = Append(chain[w], "pending")]
    <3>1. chain'[w] = Append(chain[w], "pending") /\ chain'[w] \in Seq(Fates)
      BY <1>2, <2>2 DEF Fates, Shapes, RowsAt
    <3>2. DOMAIN chain[w] \subseteq DOMAIN chain'[w] /\ \A i \in DOMAIN chain[w] : chain'[w][i] = chain[w][i]
      BY <1>2, <3>1 DEF RowsAt
    <3> QED
      BY <1>2, <2>2, <3>1, <3>2 DEF Shapes
  <2> QED
    BY <1>5, <2>1, <2>2
<1>7. Hashes(w) \subseteq Hashes(w)'
  BY <1>6 DEF Hashes
<1>8. PICK p, q : p \in {"writing", "unfreeze"} /\ Goes(v, p, q) /\ Updates(q, w)'
  <2>1. CASE Goes(v, "unfreeze", <<>>)
    BY <2>1 DEF Updates
  <2>2. CASE Goes(v, "writing", <<late>>)
    <3>1. Updates(<<late>>, w)
      BY <1>2, <1>4, SentUpdates, UpdateQueues
    <3>2. PICK q : q = <<late>>
      OBVIOUS
    <3>3. Updates(q, w)'
      BY <1>7, <3>1, <3>2, UpdatesStay
    <3> QED
      BY <2>2, <3>2, <3>3
  <2>3. CASE Goes(v, "writing", sent) /\ chain' = [chain EXCEPT ![w] = Append(chain[w], "pending")]
    <3>1. h \in Hashes(w)'
      BY <1>2, <1>3, <2>3 DEF Hashes, Shapes, RowsAt
    <3>2. PICK q : q = sent
      OBVIOUS
    <3>3. Updates(q, w)'
      BY <1>4, <3>1, <3>2 DEF Updates, IsUpdate, OrderFields, TaskFields, SetOrder, SetTask, Open
    <3> QED
      BY <2>3, <3>2, <3>3
  <2> QED
    BY <1>5, <2>1, <2>2, <2>3
<1>9. (task[w] # None)' /\ BookTyped' /\ \A op, x : Has(op, x)' = Has(op, x)
  BY <1>2, BooksRest
<1>10. WorkerAt(v)' /\ OthersRest(v) /\ worker' = [x \in Workers |-> worker'[x]]
  BY <1>1, <1>7, <1>8, <1>9, GoesOn
<1>11. KeepsAt(w)
  BY <1>2, <1>6, <1>7, <1>9, <1>10 DEF KeepsAt, Shapes, RowsAt, Elsewhere, Grows, Mined
<1> QED
  BY <1>2, <1>10, <1>11 DEF Moves

LEMMA FinalizeTypes ==
  ASSUME WellTyped, NEW v \in Workers, NEW w, worker[v].w = w, Finalize(v)
  PROVE  w \in Orders /\ Moves(v, w)
<1>1. worker[v] # Idle /\ worker[v].pc \in ReadRows /\ Goes(v, "writing", <<>>)
      /\ UNCHANGED <<ledgerVars, creator, lock, admin, chain>>
  BY DEF Finalize, Idle, ReadRows, Writes
<1>2. /\ w \in Orders /\ task[w] # None /\ Shapes /\ RowsAt(w)
  BY <1>1, AtWork
<1>3. CASE UNCHANGED <<order, task>>
  <2>1. Updates(<<>>, w)
    BY UpdateQueues
  <2> QED
    BY <1>1, <1>3, <2>1, RestTypes, BooksRest
<1>4. CASE order' = [order EXCEPT ![w].status = "completed"] /\ task' = [task EXCEPT ![w].state = "done"]
  <2>1. /\ order'[w] = [order[w] EXCEPT !.status = "completed"]
        /\ task'[w] = [task[w] EXCEPT !.state = "done"]
        /\ order' = [x \in Orders |-> order'[x]] /\ task' = [x \in Orders |-> task'[x]]
        /\ \A x \in Orders : x # w => UNCHANGED <<order[x], task[x]>>
    BY <1>2, <1>4 DEF Shapes
  <2>2. order'[w] \in OrderRow /\ order'[w].txHash \in Hashes(w) /\ order'[w] # None
    BY <1>2, <2>1, NoneAssumption DEF RowsAt, OrderRow, Terminal
  <2>3. task'[w] \in TaskRow /\ task'[w].txHash \in Hashes(w) /\ task'[w] # None
    BY <1>2, <2>1, NoneAssumption DEF RowsAt, TaskRow
  <2>4. Hashes(w)' = Hashes(w) /\ BookTyped' /\ \A op, x : Has(op, x)' = Has(op, x)
    BY <1>1, BooksRest DEF Hashes
  <2>5. Updates(<<>>, w)'
    BY DEF Updates
  <2>6. WorkerAt(v)' /\ OthersRest(v) /\ worker' = [x \in Workers |-> worker'[x]]
    BY <1>1, <2>3, <2>4, <2>5, GoesOn
  <2>7. KeepsAt(w)
    BY <1>1, <1>2, <2>1, <2>2, <2>3, <2>4, <2>6 DEF KeepsAt, Shapes, RowsAt, Elsewhere, Grows, Mined
  <2> QED
    BY <1>2, <2>6, <2>7 DEF Moves
<1> QED
  BY <1>3, <1>4 DEF Finalize

LEMMA WriteTypes ==
  ASSUME WellTyped, NEW v \in Workers, NEW w, worker[v].w = w, Write(v)
  PROVE  w \in Orders /\ Moves(v, w)
<1>1. worker[v] # Idle /\ worker[v].pc \in ReadRows /\ worker[v].pc = "writing"
      /\ UNCHANGED <<ledgerVars, creator, lock, admin, chain>>
  BY DEF Write, Idle, ReadRows
<1>2. /\ w \in Orders /\ task[w] # None /\ Shapes /\ RowsAt(w) /\ WorkerAt(v)
      /\ Hashes(w) \subseteq Nat
  BY <1>1, AtWork
<1>3. PICK u, q : u = Head(worker[v].todo) /\ q = Tail(worker[v].todo)
  OBVIOUS
<1>4. IsUpdate(u, w) /\ Updates(q, w)
  BY <1>1, <1>2, <1>3, UpdateQueues DEF WorkerAt, Write
<1>5. order[w] # None /\ order[w] \in OrderRow /\ order[w].txHash \in Hashes(w)
      /\ task[w] \in TaskRow /\ task[w].txHash \in Hashes(w)
  BY <1>2 DEF RowsAt
<1>6. /\ order' = [x \in Orders |-> order'[x]] /\ task' = [x \in Orders |-> task'[x]]
      /\ \A x \in Orders : x # w => UNCHANGED <<order[x], task[x]>>
      /\ order'[w] = order[w] \/ (u.table = "order" /\ order'[w] = Updated(order[w], u.fields))
      /\ task'[w] = task[w] \/ (u.table = "task" /\ task'[w] = Updated(task[w], u.fields))
  BY <1>2, <1>3 DEF Write, Shapes
<1>7. order'[w] \in OrderRow /\ order'[w].txHash \in Hashes(w) /\ order'[w] # None
  BY <1>2, <1>4, <1>5, <1>6, UpdatedOrder, NoneAssumption DEF IsUpdate
<1>8. task'[w] \in TaskRow /\ task'[w].txHash \in Hashes(w) /\ task'[w] # None
  BY <1>2, <1>4, <1>5, <1>6, UpdatedTask, NoneAssumption DEF IsUpdate
<1>9. Hashes(w)' = Hashes(w) /\ BookTyped' /\ \A op, x : Has(op, x)' = Has(op, x)
  BY <1>1, BooksRest DEF Hashes
<1>10. worker'[v] = [pc |-> "writing", w |-> w, task |-> worker[v].task, order |-> worker[v].order, todo |-> q]
  BY <1>1, <1>2, <1>3 DEF Write, WorkerAt, Shapes
<1>11. OthersRest(v) /\ worker' = [x \in Workers |-> worker'[x]]
  BY <1>2 DEF Write, Shapes, OthersRest
<1>12. WorkerAt(v)'
  <2>1. PICK t, o : t = worker[v].task /\ o = worker[v].order
    OBVIOUS
  <2>2. t \in TaskRow /\ t.txHash \in Hashes(w)' /\ o \in OrderRow /\ o.txHash \in Hashes(w)'
    BY <1>1, <1>2, <1>9, <2>1 DEF WorkerAt
  <2> QED
    BY <1>2, <1>4, <1>8, <1>9, <1>10, <2>1, <2>2, NewWorker, UpdatesStay DEF Stages
<1>13. KeepsAt(w)
  BY <1>1, <1>2, <1>6, <1>7, <1>8, <1>9, <1>11 DEF KeepsAt, Shapes, RowsAt, Elsewhere, Grows, Mined
<1> QED
  BY <1>2, <1>11, <1>12, <1>13 DEF Moves

LEMMA WorkerStepTypes ==
  ASSUME WellTyped, NEW v \in Workers, WorkerStep(v)
  PROVE  \E w \in Orders : Moves(v, w)
<1>1. CASE \E w \in Orders : Take(v, w)
  BY <1>1, TakeTypes
<1>2. PICK w : w = worker[v].w
  OBVIOUS
<1>3. CASE ReadTask(v)
  BY <1>2, <1>3, ReadTaskTypes
<1>4. CASE ReadOrder(v)
  BY <1>2, <1>4, ReadOrderTypes
<1>5. CASE Broadcast(v)
  BY <1>2, <1>5, BroadcastTypes
<1>6. CASE CheckStatus(v)
  BY <1>2, <1>6, CheckStatusTypes
<1>7. CASE Settle(v) \/ FailAndUnfreeze(v)
  BY <1>2, <1>7, SettleTypes
<1>8. CASE Finalize(v)
  BY <1>2, <1>8, FinalizeTypes
<1>9. CASE Write(v)
  BY <1>2, <1>9, WriteTypes
<1>10. CASE Release(v) \/ Crash(v)
  BY <1>2, <1>10, PutDownTypes
<1>11. CASE LoseWrites(v)
  BY <1>2, <1>11, LoseWritesTypes
<1> QED
  BY <1>1, <1>3, <1>4, <1>5, <1>6, <1>7, <1>8, <1>9, <1>10, <1>11 DEF WorkerStep, Handler

LEMMA InitWellTyped == Init => WellTyped
<1> SUFFICES ASSUME Init PROVE WellTyped
  OBVIOUS
<1>1. Shapes
  BY DEF Init, Shapes, BookTyped
<1>2. AllRows
  BY DEF Init, AllRows, RowsAt
<1>3. AllWorkers
  BY DEF Init, AllWorkers, WorkerAt
<1> QED
  BY <1>1, <1>2, <1>3 DEF WellTyped

LEMMA StutterWellTyped == WellTyped /\ UNCHANGED vars => WellTyped'
<1> SUFFICES ASSUME WellTyped, UNCHANGED vars PROVE WellTyped'
  OBVIOUS
<1> USE DEF vars, ledgerVars, orderVars, WellTyped
<1>1. Shapes'
  BY DEF Shapes, BookTyped
<1>2. AllRows'
  BY DEF AllRows, RowsAt, Hashes
<1>3. ASSUME NEW v \in Workers PROVE WorkerAt(v)'
  <2>1. CASE worker[v] = Idle
    BY <2>1 DEF WorkerAt
  <2>2. CASE worker[v] # Idle
    <3>1. PICK w \in Orders : w = worker[v].w
      BY <2>2, AtWork
    <3>2. Elsewhere(w) /\ Grows(w)
      BY DEF Elsewhere, Grows, Hashes, Mined, Has
    <3> QED
      BY <3>2, WorkerStays
  <2> QED
    BY <2>1, <2>2
<1> QED
  BY <1>1, <1>2, <1>3 DEF AllWorkers

\* Each step moves one order, and of the workers at most one.
LEMMA NextWellTyped == WellTyped /\ [Next]_vars => WellTyped'
<1> SUFFICES ASSUME WellTyped, [Next]_vars PROVE WellTyped'
  OBVIOUS
<1>1. CASE UNCHANGED vars
  BY <1>1, StutterWellTyped
<1>2. ASSUME NEW v \in Workers, WorkerStep(v) PROVE WellTyped'
  <2>1. PICK w \in Orders : Moves(v, w)
    BY <1>2, WorkerStepTypes
  <2> QED
    BY <2>1, ChangeKeepsTypes DEF Moves, OthersRest
<1>3. ASSUME NEW w \in Orders,
             CreateStep(w) \/ AdminStep(w) \/ ExpireLock(w) \/ ManualTransfer(w) \/ ChainDecides(w)
      PROVE  WellTyped'
  <2>1. KeepsAt(w) /\ UNCHANGED worker
    BY <1>3, CreateStepTypes, AdminStepTypes, ChainStepTypes
  <2> QED
    BY <2>1, ChangeKeepsTypes
<1> QED
  BY <1>1, <1>2, <1>3 DEF Next

LEMMA WellTypedImpliesTypeOK == WellTyped => TypeOK
<1> SUFFICES ASSUME WellTyped PROVE TypeOK
  OBVIOUS
<1>1. Shapes /\ \A w \in Orders : RowsAt(w)
  BY DEF WellTyped, AllRows
<1>2. \A w \in Orders :
        /\ creator[w] \in {"new", "insert", "undo", "done"} /\ order[w] \in OrderRow \cup {None}
        /\ task[w] \in TaskRow \cup {None} /\ lock[w] \in Workers \cup {None}
        /\ order[w] # None => order[w].txHash \in {NoHash} \cup DOMAIN chain[w]
  BY <1>1 DEF RowsAt, Hashes
<1>3. DOMAIN worker = Workers
  BY <1>1 DEF Shapes
<1> HIDE DEF Shapes
<1>4. /\ creator \in [Orders -> {"new", "insert", "undo", "done"}]
      /\ order \in [Orders -> OrderRow \cup {None}]
      /\ task \in [Orders -> TaskRow \cup {None}]
      /\ lock \in [Orders -> Workers \cup {None}]
  BY <1>1, <1>2 DEF Shapes
<1> QED
  BY <1>2, <1>3, <1>4 DEF TypeOK

LEMMA SpecWellTyped == Spec => []WellTyped
<1> QED
  BY InitWellTyped, NextWellTyped, PTL DEF Spec

\* Whatever operators, workers, faults and the chain do, the rows of the order
\* and task tables stay of their types and the hash on an order is that of a
\* transfer sent for it.
THEOREM TypeCorrect == Spec => []TypeOK
<1> QED
  BY SpecWellTyped, WellTypedImpliesTypeOK, PTL

-------------------------------------------------------------------------------
(* Nothing is settled, or called completed, but what the chain has paid out.  *)

\* A step about w and perhaps v leaves what the others go by.
LEMMA PaidElsewhere ==
  ASSUME WellTyped, AllPaid, NEW w \in Orders, KeepsAt(w), PaidAt(w)',
         \A v \in Workers : worker'[v] = worker[v] \/ WorkerPaid(v)'
  PROVE  AllPaid'
<1>1. \A x \in Orders : Vouched(x) => Vouched(x)'
  BY DEF KeepsAt, Elsewhere, Grows, Vouched, Mined
<1>2. \A x \in Orders : Has("settle", x) => Has("settle", x)'
  BY DEF KeepsAt, Elsewhere, Grows, Operations
<1>3. ASSUME NEW x \in Orders, x # w PROVE PaidAt(x)'
  <2>1. PaidAt(x)
    BY DEF AllPaid
  <2>2. UNCHANGED <<order[x], task[x], admin[x]>> /\ Has("settle", x)' = Has("settle", x)
    BY <1>3 DEF KeepsAt, Elsewhere, Operations
  <2> QED
    BY <1>1, <2>1, <2>2 DEF PaidAt
<1>4. ASSUME NEW v \in Workers, worker'[v] = worker[v] PROVE WorkerPaid(v)'
  <2> SUFFICES ASSUME worker[v] # Idle PROVE WorkerPaid(v)'
    BY <1>4 DEF WorkerPaid
  <2>1. PICK x \in Orders : x = worker[v].w
    BY AtWork
  <2>2. worker'[v].w = x /\ (Vouched(x) => Vouched(x)') /\ (Has("settle", x) => Has("settle", x)')
    BY <1>1, <1>2, <1>4, <2>1
  <2>3. WorkerPaid(v)
    BY DEF AllPaid
  <2>4. /\ worker[v].pc = "settle" => Vouched(x)'
        /\ worker[v].pc = "finalize" => Has("settle", x)'
        /\ worker[v].pc # "locked" /\ worker[v].task.state = "settle_pending" => Vouched(x)'
        /\ \A i \in DOMAIN worker[v].todo : Settles(worker[v].todo[i]) => Vouched(x)'
    BY <2>1, <2>2, <2>3 DEF WorkerPaid
  <2>5. (worker[v].w)' = x
    BY <2>2
  <2> QED
    BY <1>4, <2>4, <2>5 DEF WorkerPaid, Vouched, Mined, Has, Settles
<1> QED
  BY <1>3, <1>4 DEF AllPaid

\* A ledger call other than a settlement settles nothing.
LEMMA OnlySettleSettles ==
  ASSUME NEW w \in Orders, NEW op \in {"freeze", "unfreeze"}, NEW ok, CallEffect(op, w, ok)
  PROVE  Has("settle", w)' = Has("settle", w)
BY DEF CallEffect, Operations

LEMMA CreateStepPaid ==
  ASSUME WellTyped, AllPaid, NEW w \in Orders, CreateStep(w)
  PROVE  PaidAt(w)'
<1>1. Shapes /\ RowsAt(w) /\ PaidAt(w) /\ BookTyped
  BY DEF WellTyped, AllRows, AllPaid, Shapes
<1>2. Has("settle", w)' = Has("settle", w)
  <2>1. CASE CreateFreeze(w)
    <3>1. PICK ok \in BOOLEAN : Call("freeze", w, ok)
      BY <2>1 DEF CreateFreeze
    <3>2. CallEffect("freeze", w, ok)
      BY <1>1, <3>1, CallHasEffect DEF Operations
    <3> QED
      BY <3>2, OnlySettleSettles
  <2>2. CASE CreateUndo(w)
    <3>1. PICK ok \in BOOLEAN : Call("unfreeze", w, ok)
      BY <2>2 DEF CreateUndo
    <3>2. CallEffect("unfreeze", w, ok)
      BY <1>1, <3>1, CallHasEffect DEF Operations
    <3> QED
      BY <3>2, OnlySettleSettles
  <2>3. CASE CreateInsert(w) \/ CreateCrash(w)
    BY <2>3, BooksRest DEF CreateInsert, CreateCrash
  <2> QED
    BY <2>1, <2>2, <2>3 DEF CreateStep
<1>3. UNCHANGED <<chain, admin>>
  BY DEF CreateStep, CreateFreeze, CreateInsert, CreateUndo, CreateCrash
<1>4. order'[w] = order[w] \/ order'[w].status \in {"processing", "pending"}
  BY <1>1 DEF CreateStep, CreateFreeze, CreateInsert, CreateUndo, CreateCrash, InsertOrder, Shapes
<1>5. task'[w] = task[w] \/ task'[w] = FirstTask(w)
  BY <1>1 DEF CreateStep, CreateFreeze, CreateInsert, CreateUndo, CreateCrash, InsertOrder, Shapes
<1>6. FirstTask(w).state # "settle_pending"
  BY DEF FirstTask, NewTask
<1> QED
  BY <1>1, <1>2, <1>3, <1>4, <1>5, <1>6 DEF PaidAt, Vouched, Mined

LEMMA ChainStepPaid ==
  ASSUME WellTyped, AllPaid, NEW w \in Orders, KeepsAt(w),
         ExpireLock(w) \/ ManualTransfer(w) \/ ChainDecides(w)
  PROVE  PaidAt(w)'
<1>1. UNCHANGED <<ledgerVars, order, task, admin>> /\ PaidAt(w)
  BY DEF ExpireLock, ManualTransfer, ChainDecides, AllPaid
<1>2. Has("settle", w)' = Has("settle", w) /\ (Vouched(w) => Vouched(w)')
  BY <1>1, BooksRest DEF KeepsAt, Grows, Vouched
<1> QED
  BY <1>1, <1>2 DEF PaidAt

LEMMA AdminStepPaid ==
  ASSUME WellTyped, AllPaid, NEW w \in Orders, AdminStep(w)
  PROVE  PaidAt(w)'
<1>1. Shapes /\ RowsAt(w) /\ PaidAt(w) /\ BookTyped
  BY DEF WellTyped, AllRows, AllPaid, Shapes
<1>2. ASSUME NEW op \in AdminOps \cap DOMAIN LedgerCallOf, NEW hash, AdminCall(op, w, hash)
      PROVE  PaidAt(w)'
  <2>1. UNCHANGED <<order, task, chain>>
    BY <1>2 DEF AdminCall
  <2>2. PICK ok \in BOOLEAN :
          /\ Call(LedgerCallOf[op], w, ok) \/ (UNCHANGED ledgerVars /\ op # "complete")
          /\ admin' = IF ok THEN [admin EXCEPT ![w] = [op |-> op, hash |-> hash]] ELSE admin
    <3>1. op # "complete" \/ LedgerCallOf[op] # "unfreeze"
      BY DEF LedgerCallOf
    <3> QED
      BY <1>2, <3>1 DEF AdminCall
  <2>3. admin'[w] = admin[w] \/ (ok /\ admin'[w] = [op |-> op, hash |-> hash])
    BY <1>1, <2>2 DEF Shapes
  <2>4. CASE op = "complete"
    <3>1. Call("settle", w, ok)
      BY <2>2, <2>4 DEF LedgerCallOf
    <3>2. CallEffect("settle", w, ok)
      BY <1>1, <3>1, CallHasEffect DEF Operations
    <3>3. (Has("settle", w) => Has("settle", w)') /\ (ok => Has("settle", w)')
      BY <3>2 DEF CallEffect
    <3>4. "complete" \in AdminOps /\ StrategyOf[w] = "manual_manual"
      BY <1>2, <2>4 DEF AdminCall, Decides
    <3> QED
      BY <1>1, <2>1, <2>3, <3>3, <3>4 DEF PaidAt, Vouched
  <2>5. CASE op # "complete"
    <3>1. Has("settle", w)' = Has("settle", w)
      <4>1. CASE UNCHANGED ledgerVars
        BY <4>1, BooksRest
      <4>2. CASE Call(LedgerCallOf[op], w, ok)
        <5>1. LedgerCallOf[op] \in {"freeze", "unfreeze"}
          BY <2>5 DEF LedgerCallOf
        <5>2. CallEffect(LedgerCallOf[op], w, ok)
          BY <1>1, <4>2, <5>1, CallHasEffect DEF Operations
        <5> QED
          BY <5>1, <5>2, OnlySettleSettles
      <4> QED
        BY <2>2, <4>1, <4>2
    <3> QED
      BY <1>1, <2>1, <2>3, <2>5, <3>1 DEF PaidAt, Vouched, Mined
  <2> QED
    BY <2>4, <2>5
<1>3. CASE AdminCommit(w)
  <2>1. Has("settle", w)' = Has("settle", w) /\ UNCHANGED chain /\ admin'[w] = None /\ admin[w] # None
    BY <1>1, <1>3, BooksRest DEF AdminCommit, Shapes
  <2>2. task'[w] # None /\ task'[w].state = "settle_pending" => task'[w] = task[w]
    <3>1. CASE CommitApprove(w)
      <4>1. task'[w] = task[w] \/ task'[w] = FirstTask(w)
        BY <1>1, <3>1 DEF CommitApprove, Shapes
      <4> QED
        BY <4>1 DEF FirstTask, NewTask
    <3>2. CASE CommitCancel(w) \/ CommitReject(w)
      BY <3>2 DEF CommitCancel, CommitReject
    <3>3. CASE CommitFail(w)
      <4>1. task'[w] = task[w] \/ task'[w] = [task[w] EXCEPT !.state = "failed"]
        BY <1>1, <3>3 DEF CommitFail, Shapes
      <4>2. task[w] # None => [task[w] EXCEPT !.state = "failed"].state = "failed"
        BY <1>1 DEF RowsAt, TaskRow
      <4>3. task[w] = None => task'[w] = task[w]
        BY <1>1, <3>3 DEF CommitFail, Shapes
      <4> QED
        BY <4>1, <4>2, <4>3
    <3>4. CASE CommitComplete(w, admin[w].hash)
      <4>1. task'[w] = Confirming(task[w], admin[w].hash)
        BY <1>1, <3>4 DEF CommitComplete, Shapes
      <4>2. \A t, h : t = None \/ t \in TaskRow => Confirming(t, h).state = "confirming"
        BY DEF Confirming, Updated, NewTask, TaskRow
      <4> QED
        BY <1>1, <4>1, <4>2 DEF RowsAt
    <3> QED
      BY <1>3, <3>1, <3>2, <3>3, <3>4 DEF AdminCommit
  <2>3. order'[w] # None /\ order'[w].status = "completed" => admin[w].op = "complete"
    <3>1. order[w] \in OrderRow
      BY <1>1, <2>1 DEF RowsAt
    <3>2. \A st : Restated(w, st) => order'[w].status = st
      BY <1>1, <3>1 DEF Restated, Shapes, OrderRow
    <3> QED
      BY <1>3, <3>2 DEF AdminCommit, CommitApprove, CommitCancel, CommitReject, CommitFail
  <2> QED
    BY <1>1, <2>1, <2>2, <2>3 DEF PaidAt, Vouched, Mined
<1>4. CASE AdminRollback(w)
  <2>1. Has("settle", w)' = Has("settle", w) /\ UNCHANGED <<order, task, chain>> /\ admin'[w] = None
    BY <1>1, <1>4, BooksRest DEF AdminRollback, Shapes
  <2> QED
    BY <1>1, <2>1 DEF PaidAt, Vouched, Mined
<1>5. ASSUME NEW hash, AdminSetHash(w, hash)
      PROVE  PaidAt(w)'
  <2>1. Has("settle", w)' = Has("settle", w) /\ UNCHANGED <<chain, admin>>
        /\ order[w].status = "processing" /\ order[w] \in OrderRow /\ task[w] \in TaskRow
    BY <1>1, <1>5, BooksRest DEF AdminSetHash, RowsAt
  <2>2. order'[w].status = "processing"
    BY <1>1, <1>5, <2>1 DEF AdminSetHash, Shapes, OrderRow
  <2>3. task'[w].state \in {"confirming", "awaiting_manual_txhash"}
    <3>1. task'[w] = IF hash # NoHash THEN Confirming(task[w], hash)
                     ELSE Updated(task[w], [mode |-> "manual", state |-> "awaiting_manual_txhash", txHash |-> NoHash])
      BY <1>1, <1>5 DEF AdminSetHash, Shapes
    <3>2. \A t \in TaskRow : \A h : Confirming(t, h).state = "confirming"
      BY NoneAssumption DEF Confirming, Updated, TaskRow
    <3>3. \A t \in TaskRow : \A h :
            Updated(t, [mode |-> "manual", state |-> "awaiting_manual_txhash", txHash |-> h]).state
              = "awaiting_manual_txhash"
      BY DEF Updated, TaskRow
    <3> QED
      BY <2>1, <3>1, <3>2, <3>3
  <2> QED
    BY <1>1, <2>1, <2>2, <2>3 DEF PaidAt, Vouched, Mined
<1> QED
  BY <1>2, <1>3, <1>4, <1>5 DEF AdminStep

LEMMA TailSettles ==
  ASSUME NEW w, NEW q, Updates(q, w), q # <<>>, NEW P \in BOOLEAN,
         \A i \in DOMAIN q : Settles(q[i]) => P
  PROVE  (Settles(Head(q)) => P) /\ \A i \in DOMAIN Tail(q) : Settles(Tail(q)[i]) => P
<1>1. ASSUME NEW a, q = <<a>>
      PROVE  (Settles(Head(q)) => P) /\ \A i \in DOMAIN Tail(q) : Settles(Tail(q)[i]) => P
  <2>1. Head(q) = a /\ Tail(q) = <<>> /\ 1 \in DOMAIN q /\ q[1] = a
    BY <1>1
  <2> QED
    BY <2>1
<1>2. ASSUME NEW a, NEW b, q = <<a, b>>
      PROVE  (Settles(Head(q)) => P) /\ \A i \in DOMAIN Tail(q) : Settles(Tail(q)[i]) => P
  <2>1. Head(q) = a /\ Tail(q) = <<b>> /\ 1 \in DOMAIN q /\ 2 \in DOMAIN q /\ q[1] = a /\ q[2] = b
    BY <1>2
  <2> QED
    BY <2>1
<1> QED
  BY <1>1, <1>2 DEF Updates

LEMMA NewWorkerPaid ==
  ASSUME NEW v, NEW w, NEW p, NEW t, NEW o, NEW q,
         worker'[v] = [pc |-> p, w |-> w, task |-> t, order |-> o, todo |-> q],
         p = "settle" => Vouched(w)',
         p = "finalize" => Has("settle", w)',
         p # "locked" /\ t.state = "settle_pending" => Vouched(w)',
         \A i \in DOMAIN q : Settles(q[i]) => Vouched(w)'
  PROVE  WorkerPaid(v)'
<1>1. /\ worker'[v].pc = p /\ worker'[v].w = w /\ worker'[v].task = t /\ worker'[v].todo = q
  OBVIOUS
<1>2. (worker[v].w)' = w
  BY <1>1
<1> QED
  BY <1>1, <1>2 DEF WorkerPaid, Vouched, Mined, Has, Settles

\* A handler that goes on, and what it must have made sure of.
LEMMA GoesOnPaid ==
  ASSUME WellTyped, AllPaid, NEW v \in Workers, NEW w, worker[v] # Idle, worker[v].w = w,
         worker[v].pc \in ReadRows, KeepsAt(w),
         NEW p \in {"writing", "finalize", "unfreeze"}, NEW q, Goes(v, p, q),
         p = "finalize" => Has("settle", w)',
         \A i \in DOMAIN q : Settles(q[i]) => Vouched(w)'
  PROVE  WorkerPaid(v)'
<1>1. PICK t, o : t = worker[v].task /\ o = worker[v].order
  OBVIOUS
<1> DEFINE s == worker[v]
<1>2. s = [pc |-> s.pc, w |-> s.w, task |-> s.task, order |-> s.order, todo |-> s.todo]
      /\ worker = [x \in Workers |-> worker[x]]
  BY DEF WellTyped, AllWorkers, WorkerAt, Shapes
<1>3. worker'[v] = [pc |-> p, w |-> w, task |-> t, order |-> o, todo |-> q]
  <2>1. worker'[v] = [pc |-> p, w |-> w, task |-> s.task, order |-> s.order, todo |-> q]
    BY <1>2 DEF Goes
  <2> QED
    BY <1>1, <2>1
<1>4. t.state = "settle_pending" => Vouched(w)
  BY <1>1 DEF AllPaid, WorkerPaid, ReadRows
<1>5. Vouched(w) => Vouched(w)'
  BY DEF KeepsAt, Grows, Vouched
<1> QED
  BY <1>3, <1>4, <1>5, NewWorkerPaid

\* A handler that leaves the rows alone.
LEMMA RestPaid ==
  ASSUME WellTyped, AllPaid, NEW w \in Orders, KeepsAt(w), UNCHANGED <<order, task, admin>>,
         Has("settle", w)' => Has("settle", w) \/ Vouched(w)
  PROVE  PaidAt(w)'
<1>1. PaidAt(w) /\ (Vouched(w) => Vouched(w)') /\ (Has("settle", w) => Has("settle", w)')
  BY DEF AllPaid, KeepsAt, Grows, Vouched, Operations
<1> QED
  BY <1>1 DEF PaidAt

Pays(v, w) == Moves(v, w) /\ PaidAt(w)' /\ WorkerPaid(v)'

LEMMA TakePaid ==
  ASSUME WellTyped, AllPaid, NEW v \in Workers, NEW w \in Orders, Take(v, w)
  PROVE  Pays(v, w)
<1>1. Moves(v, w) /\ KeepsAt(w)
  BY TakeTypes DEF Moves
<1>2. PaidAt(w)'
  BY <1>1, RestPaid, BooksRest DEF Take
<1>3. worker'[v] = [pc |-> "locked", w |-> w, task |-> None, order |-> None, todo |-> <<>>]
  BY DEF Take, WellTyped, Shapes
<1> QED
  BY <1>1, <1>2, <1>3, NewWorkerPaid DEF Pays

LEMMA ReadPaid ==
  ASSUME WellTyped, AllPaid, NEW v \in Workers, NEW w, worker[v].w = w, ReadTask(v) \/ ReadOrder(v)
  PROVE  w \in Orders /\ Pays(v, w)
<1>1. w \in Orders /\ Moves(v, w) /\ KeepsAt(w)
  BY ReadTaskTypes, ReadOrderTypes DEF Moves
<1>2. UNCHANGED <<ledgerVars, order, task, admin, chain>> /\ worker[v] # Idle
  BY DEF ReadTask, ReadOrder, Idle
<1>3. PaidAt(w)'
  BY <1>1, <1>2, RestPaid, BooksRest
<1>4. /\ worker[v] = [pc |-> worker[v].pc, w |-> w, task |-> worker[v].task,
                      order |-> worker[v].order, todo |-> worker[v].todo]
      /\ worker = [x \in Workers |-> worker[x]] /\ Updates(worker[v].todo, w)
      /\ RowsAt(w) /\ PaidAt(w) /\ WorkerPaid(v) /\ task[w] # None
  BY <1>1, <1>2, AtWork DEF WorkerAt, Shapes, AllPaid
<1>5. Vouched(w) => Vouched(w)'
  BY <1>1 DEF KeepsAt, Grows, Vouched
<1>6. CASE ReadTask(v)
  <2>1. PICK t, o, q : t = task[w] /\ o = worker[v].order /\ q = worker[v].todo
    OBVIOUS
  <2>2. worker'[v] = [pc |-> "loaded", w |-> w, task |-> t, order |-> o, todo |-> q]
    BY <1>4, <1>6, <2>1 DEF ReadTask
  <2>3. t.state = "settle_pending" => Vouched(w)
    BY <1>4, <2>1 DEF PaidAt
  <2>4. \A i \in DOMAIN q : Settles(q[i]) => Vouched(w)
    BY <1>2, <1>4, <2>1 DEF WorkerPaid
  <2> QED
    BY <1>1, <1>3, <1>5, <2>2, <2>3, <2>4, NewWorkerPaid DEF Pays
<1>7. CASE ReadOrder(v)
  <2>1. PICK t, o, p, q : t = worker[v].task /\ o = order[w]
                          /\ p = Start(w, t, o)[1] /\ q = Start(w, t, o)[2]
    OBVIOUS
  <2>2. worker'[v] = [pc |-> p, w |-> w, task |-> t, order |-> o, todo |-> q]
    BY <1>4, <1>7, <2>1 DEF ReadOrder
  <2>3. t \in TaskRow /\ t.txHash \in Hashes(w) /\ worker[v].pc = "loaded"
    BY <1>1, <1>2, <1>7, <2>1, AtWork DEF WorkerAt, ReadOrder
  <2>4. o \in OrderRow /\ o.txHash \in Hashes(w)
    BY <1>4, <2>1 DEF RowsAt
  <2>5. /\ p \in {"writing", "unfreeze", "broadcast", "status", "settle"}
        /\ p = "settle" => t.state = "settle_pending"
        /\ q = <<>> \/ \E a \in {q[1]} : q = <<a>> /\ ~Settles(a)
    BY <1>1, <2>1, <2>3, <2>4, StartType
  <2>6. t.state = "settle_pending" => Vouched(w)
    BY <1>2, <1>4, <2>1, <2>3 DEF WorkerPaid
  <2>7. \A i \in DOMAIN q : ~Settles(q[i])
    BY <2>5
  <2> QED
    BY <1>1, <1>3, <1>5, <2>2, <2>5, <2>6, <2>7, NewWorkerPaid DEF Pays
<1> QED
  BY <1>6, <1>7

LEMMA PutDownPaid ==
  ASSUME WellTyped, AllPaid, NEW v \in Workers, NEW w, worker[v].w = w, Release(v) \/ Crash(v)
  PROVE  w \in Orders /\ Pays(v, w)
<1>1. w \in Orders /\ Moves(v, w) /\ KeepsAt(w)
  BY PutDownTypes DEF Moves
<1>2. UNCHANGED <<ledgerVars, order, task, admin, chain>>
  BY DEF Release, Crash
<1>3. worker'[v] = Idle
  BY DEF Release, Crash, WellTyped, Shapes
<1> QED
  BY <1>1, <1>2, <1>3, RestPaid, BooksRest DEF Pays, WorkerPaid

LEMMA LoseWritesPaid ==
  ASSUME WellTyped, AllPaid, NEW v \in Workers, NEW w, worker[v].w = w, LoseWrites(v)
  PROVE  w \in Orders /\ Pays(v, w)
<1>1. w \in Orders /\ Moves(v, w) /\ KeepsAt(w)
  BY LoseWritesTypes DEF Moves
<1>2. UNCHANGED <<ledgerVars, order, task, admin, chain>> /\ worker[v] # Idle
      /\ worker[v].pc \in ReadRows
  BY DEF LoseWrites, Idle, ReadRows
<1>3. PICK q \in {Tail(worker[v].todo), <<>>} : Goes(v, "writing", q)
  BY DEF LoseWrites, Writes
<1>4. Updates(worker[v].todo, w) /\ worker[v].todo # <<>>
      /\ \A i \in DOMAIN worker[v].todo : Settles(worker[v].todo[i]) => Vouched(w)
  BY <1>2, AtWork DEF WorkerAt, LoseWrites, AllPaid, WorkerPaid
<1>5. \A i \in DOMAIN q : Settles(q[i]) => Vouched(w)
  <2>1. Vouched(w) \in BOOLEAN
    BY DEF Vouched, Mined
  <2>2. \A i \in DOMAIN Tail(worker[v].todo) : Settles(Tail(worker[v].todo)[i]) => Vouched(w)
    BY <1>4, <2>1, TailSettles
  <2>3. CASE q = <<>>
    <3>1. DOMAIN q = {}
      BY <2>3
    <3> QED
      BY <3>1
  <2>4. CASE q = Tail(worker[v].todo)
    BY <2>2, <2>4, Zenon
  <2> QED
    BY <1>3, <2>3, <2>4
<1>6. Vouched(w) => Vouched(w)'
  BY <1>1 DEF KeepsAt, Grows, Vouched
<1> QED
  BY <1>1, <1>2, <1>3, <1>5, <1>6, RestPaid, BooksRest, GoesOnPaid DEF Pays

LEMMA BroadcastPaid ==
  ASSUME WellTyped, AllPaid, NEW v \in Workers, NEW w, worker[v].w = w, Broadcast(v)
  PROVE  w \in Orders /\ Pays(v, w)
<1>1. w \in Orders /\ Moves(v, w) /\ KeepsAt(w)
  BY BroadcastTypes DEF Moves
<1>2. UNCHANGED <<ledgerVars, order, task, admin>> /\ worker[v] # Idle /\ worker[v].pc \in ReadRows
  BY DEF Broadcast, Idle, ReadRows
<1>3. PICK n, h : n = worker[v].task.attempts + 1 /\ h = Len(chain[w]) + 1
  OBVIOUS
<1> DEFINE late == SetTask([mode |-> "system", state |-> "pending_broadcast", attempts |-> n])
           sent == SetTask([mode |-> "system", state |-> "confirming", txHash |-> h, attempts |-> n])
<1>4. \/ Goes(v, "unfreeze", <<>>) \/ Goes(v, "writing", <<late>>)
      \/ Goes(v, "writing", <<SetOrder([txHash |-> h]), sent>>)
  BY <1>3 DEF Broadcast, Writes
<1>5. ~Settles(late) /\ ~Settles(sent) /\ ~Settles(SetOrder([txHash |-> h]))
  BY DEF Settles, SetTask, SetOrder
<1> HIDE DEF late, sent
<1>6. PICK p, q : p \in {"writing", "unfreeze"} /\ Goes(v, p, q) /\ \A i \in DOMAIN q : ~Settles(q[i])
  <2>1. \A a, b : ~Settles(a) /\ ~Settles(b) =>
          \A q \in {<<>>, <<a>>, <<a, b>>} : \A i \in DOMAIN q : ~Settles(q[i])
    OBVIOUS
  <2> QED
    BY <1>4, <1>5, <2>1
<1> QED
  BY <1>1, <1>2, <1>6, RestPaid, BooksRest, GoesOnPaid DEF Pays

\* A task waits for its settlement only when the transfer whose hash the worker
\* has read is in a block, or may be taken for it.
LEMMA CheckStatusPaid ==
  ASSUME WellTyped, AllPaid, NEW v \in Workers, NEW w, worker[v].w = w, CheckStatus(v)
  PROVE  w \in Orders /\ Pays(v, w)
<1>1. w \in Orders /\ Moves(v, w) /\ KeepsAt(w)
  BY CheckStatusTypes DEF Moves
<1>2. UNCHANGED <<ledgerVars, order, task, admin, chain>> /\ worker[v] # Idle /\ worker[v].pc \in ReadRows
      /\ worker[v].pc = "status"
  BY DEF CheckStatus, Idle, ReadRows
<1> DEFINE hash == EitherHash(worker[v].task, worker[v].order)
           go == SetTask([state |-> "settle_pending"])
<1>3. hash \in DOMAIN chain[w]
  <2>1. hash # NoHash /\ worker[v].task.txHash \in Hashes(w) /\ worker[v].order.txHash \in Hashes(w)
    BY <1>2, AtWork DEF WorkerAt
  <2> QED
    BY <2>1 DEF EitherHash, Hashes
<1>4. \/ Goes(v, "writing", <<>>) \/ Goes(v, "unfreeze", <<>>)
      \/ Goes(v, "writing", <<AwaitHash>>) \/ Goes(v, "writing", <<ForgetHash>>)
      \/ "confirmed" \in Answers(chain[w][hash]) /\ Goes(v, "writing", <<go>>)
  BY DEF CheckStatus, Writes
<1>5. ~Settles(AwaitHash) /\ ~Settles(ForgetHash)
  BY DEF Settles, SetTask, AwaitHash, ForgetHash
<1>6. "confirmed" \in Answers(chain[w][hash]) => Vouched(w)
  BY <1>3 DEF Answers, Vouched, Mined
<1> HIDE DEF hash, go
<1>7. PICK p, q : p \in {"writing", "unfreeze"} /\ Goes(v, p, q)
                  /\ \A i \in DOMAIN q : Settles(q[i]) => Vouched(w)
  <2>1. CASE Goes(v, "writing", <<>>) \/ Goes(v, "unfreeze", <<>>)
    <3>1. DOMAIN <<>> = {}
      OBVIOUS
    <3> QED
      BY <2>1, <3>1
  <2>2. ASSUME NEW a, Goes(v, "writing", <<a>>), Settles(a) => Vouched(w)
        PROVE  \E p, q : p \in {"writing", "unfreeze"} /\ Goes(v, p, q)
                         /\ \A i \in DOMAIN q : Settles(q[i]) => Vouched(w)
    <3>1. \A i \in DOMAIN <<a>> : <<a>>[i] = a
      OBVIOUS
    <3>2. \A i \in DOMAIN <<a>> : Settles(<<a>>[i]) => Vouched(w)
      BY <2>2, <3>1
    <3> QED
      BY <2>2, <3>2
  <2> QED
    BY <1>4, <1>5, <1>6, <2>1, <2>2
<1>8. Vouched(w) => Vouched(w)'
  BY <1>1 DEF KeepsAt, Grows, Vouched
<1> QED
  BY <1>1, <1>2, <1>7, <1>8, RestPaid, BooksRest, GoesOnPaid DEF Pays

LEMMA SettlePaid ==
  ASSUME WellTyped, AllPaid, NEW v \in Workers, NEW w, worker[v].w = w, Settle(v)
  PROVE  w \in Orders /\ Pays(v, w)
<1>1. w \in Orders /\ Moves(v, w) /\ KeepsAt(w) /\ BookTyped
  BY SettleTypes DEF Moves, WellTyped, Shapes
<1>2. UNCHANGED <<order, task, admin, chain>> /\ worker[v] # Idle /\ worker[v].pc \in ReadRows
      /\ worker[v].pc = "settle"
  BY DEF Settle, Idle, ReadRows
<1>3. PICK ok \in BOOLEAN : Call("settle", w, ok) /\ Goes(v, IF ok THEN "finalize" ELSE "writing", <<>>)
  BY DEF Settle
<1>4. CallEffect("settle", w, ok)
  BY <1>1, <1>3, CallHasEffect DEF Operations
<1>5. Vouched(w)
  BY <1>2 DEF AllPaid, WorkerPaid
<1>6. PaidAt(w)'
  BY <1>1, <1>2, <1>5, RestPaid
<1>7. PICK p, q : /\ p \in {"writing", "finalize"} /\ q = <<>> /\ Goes(v, p, q)
                  /\ p = "finalize" => Has("settle", w)'
  BY <1>3, <1>4 DEF CallEffect
<1>8. \A i \in DOMAIN q : Settles(q[i]) => Vouched(w)'
  <2>1. DOMAIN q = {}
    BY <1>7
  <2> QED
    BY <2>1
<1> QED
  BY <1>1, <1>2, <1>6, <1>7, <1>8, GoesOnPaid DEF Pays

LEMMA FailAndUnfreezePaid ==
  ASSUME WellTyped, AllPaid, NEW v \in Workers, NEW w, worker[v].w = w, FailAndUnfreeze(v)
  PROVE  w \in Orders /\ Pays(v, w)
<1>1. w \in Orders /\ Moves(v, w) /\ KeepsAt(w) /\ BookTyped
  BY SettleTypes DEF Moves, WellTyped, Shapes
<1>2. UNCHANGED <<order, task, admin, chain>> /\ worker[v] # Idle /\ worker[v].pc \in ReadRows
  BY DEF FailAndUnfreeze, Idle, ReadRows
<1>3. Has("settle", w)' = Has("settle", w)
  <2>1. CASE UNCHANGED ledgerVars
    BY <2>1, BooksRest
  <2>2. CASE \E ok \in BOOLEAN : Call("unfreeze", w, ok)
    <3>1. PICK ok \in BOOLEAN : Call("unfreeze", w, ok)
      BY <2>2
    <3>2. CallEffect("unfreeze", w, ok)
      BY <1>1, <3>1, CallHasEffect DEF Operations
    <3> QED
      BY <1>1, <3>2, OnlySettleSettles
  <2> QED
    BY <2>1, <2>2 DEF FailAndUnfreeze
<1>4. PaidAt(w)'
  BY <1>1, <1>2, <1>3, RestPaid
<1>5. PICK q : q = <<SetOrder([status |-> "failed"]), FailTask>>
  OBVIOUS
<1>6. Goes(v, "writing", q)
  BY <1>5 DEF FailAndUnfreeze, Writes
<1>7. \A i \in DOMAIN q : ~Settles(q[i])
  <2>1. ~Settles(SetOrder([status |-> "failed"])) /\ ~Settles(FailTask)
    BY DEF Settles, SetOrder, FailTask, SetTask
  <2>2. \A a, b : ~Settles(a) /\ ~Settles(b) => \A i \in DOMAIN <<a, b>> : ~Settles(<<a, b>>[i])
    OBVIOUS
  <2> QED
    BY <1>5, <2>1, <2>2
<1> QED
  BY <1>1, <1>2, <1>4, <1>6, <1>7, GoesOnPaid DEF Pays

LEMMA FinalizePaid ==
  ASSUME WellTyped, AllPaid, NEW v \in Workers, NEW w, worker[v].w = w, Finalize(v)
  PROVE  w \in Orders /\ Pays(v, w)
<1>1. w \in Orders /\ Moves(v, w) /\ KeepsAt(w)
  BY FinalizeTypes DEF Moves
<1>2. /\ UNCHANGED <<ledgerVars, admin, chain>> /\ worker[v] # Idle /\ worker[v].pc \in ReadRows
      /\ worker[v].pc = "finalize" /\ Goes(v, "writing", <<>>)
  BY DEF Finalize, Idle, ReadRows, Writes
<1>3. /\ Has("settle", w)' = Has("settle", w) /\ Has("settle", w)
      /\ PaidAt(w) /\ RowsAt(w) /\ Shapes /\ task[w] # None
  BY <1>1, <1>2, BooksRest, AtWork DEF AllPaid, WorkerPaid
<1>4. task'[w] = task[w] \/ task'[w].state = "done"
  <2>1. task[w] \in TaskRow
    BY <1>3 DEF RowsAt
  <2> QED
    BY <1>1, <1>3, <2>1 DEF Finalize, Shapes, TaskRow
<1>5. PaidAt(w)'
  BY <1>2, <1>3, <1>4 DEF PaidAt, Vouched, Mined
<1>6. PICK q : q = <<>> /\ Goes(v, "writing", q) /\ DOMAIN q = {}
  BY <1>2
<1> QED
  BY <1>1, <1>2, <1>5, <1>6, GoesOnPaid DEF Pays

LEMMA WritePaid ==
  ASSUME WellTyped, AllPaid, NEW v \in Workers, NEW w, worker[v].w = w, Write(v)
  PROVE  w \in Orders /\ Pays(v, w)
<1>1. w \in Orders /\ Moves(v, w) /\ KeepsAt(w)
  BY WriteTypes DEF Moves
<1>2. /\ UNCHANGED <<ledgerVars, admin, chain>> /\ worker[v] # Idle /\ worker[v].pc = "writing"
      /\ worker[v].todo # <<>>
  BY DEF Write, Idle
<1>3. PICK t, o, u, q : /\ t = worker[v].task /\ o = worker[v].order
                        /\ u = Head(worker[v].todo) /\ q = Tail(worker[v].todo)
  OBVIOUS
<1>4. /\ WorkerAt(v) /\ RowsAt(w) /\ Shapes /\ task[w] # None /\ PaidAt(w) /\ WorkerPaid(v)
      /\ Has("settle", w)' = Has("settle", w) /\ Hashes(w) \subseteq Nat
  BY <1>1, <1>2, AtWork, BooksRest DEF AllPaid
<1>5. /\ worker[v] = [pc |-> worker[v].pc, w |-> w, task |-> t, order |-> o, todo |-> worker[v].todo]
      /\ Updates(worker[v].todo, w)
      /\ \A i \in DOMAIN worker[v].todo : Settles(worker[v].todo[i]) => Vouched(w)
      /\ t.state = "settle_pending" => Vouched(w)
  BY <1>2, <1>3, <1>4 DEF WorkerAt, WorkerPaid
<1>6. worker'[v] = [pc |-> "writing", w |-> w, task |-> t, order |-> o, todo |-> q]
  <2>1. worker'[v] = [worker[v] EXCEPT !.todo = q]
    BY <1>3, <1>4 DEF Write, Shapes
  <2> QED
    BY <1>2, <1>5, <2>1
<1>7. IsUpdate(u, w) /\ (Settles(u) => Vouched(w)) /\ \A i \in DOMAIN q : Settles(q[i]) => Vouched(w)
  <2>1. Vouched(w) \in BOOLEAN
    BY DEF Vouched, Mined
  <2> QED
    BY <1>2, <1>3, <1>5, <2>1, UpdateQueues, TailSettles
<1>8. Vouched(w) => Vouched(w)'
  BY <1>1 DEF KeepsAt, Grows, Vouched
<1>9. /\ order'[w] = order[w] \/ (u.table = "order" /\ order'[w] = Updated(order[w], u.fields))
      /\ task'[w] = task[w] \/ (u.table = "task" /\ task'[w] = Updated(task[w], u.fields))
  BY <1>1, <1>3, <1>4 DEF Write, Shapes
<1>10. order'[w].status \in {order[w].status, "failed"}
  BY <1>1, <1>4, <1>7, <1>9, UpdatedOrder DEF IsUpdate, RowsAt
<1>11. task'[w].state = "settle_pending" => task[w].state = "settle_pending" \/ Settles(u)
  <2>1. task[w] \in TaskRow
    BY <1>4 DEF RowsAt
  <2> QED
    BY <1>9, <2>1 DEF Updated, TaskRow, Settles
<1>12. PaidAt(w)'
  <2>1. order[w] # None
    BY <1>4 DEF RowsAt
  <2> QED
    BY <1>2, <1>4, <1>7, <1>8, <1>10, <1>11, <2>1 DEF PaidAt
<1> QED
  BY <1>1, <1>5, <1>6, <1>7, <1>8, <1>12, NewWorkerPaid DEF Pays

LEMMA WorkerStepPaid ==
  ASSUME WellTyped, AllPaid, NEW v \in Workers, WorkerStep(v)
  PROVE  \E w \in Orders : Pays(v, w)
<1>1. CASE \E w \in Orders : Take(v, w)
  BY <1>1, TakePaid
<1>2. PICK w : w = worker[v].w
  OBVIOUS
<1>3. CASE ReadTask(v) \/ ReadOrder(v)
  BY <1>2, <1>3, ReadPaid
<1>4. CASE Broadcast(v)
  BY <1>2, <1>4, BroadcastPaid
<1>5. CASE CheckStatus(v)
  BY <1>2, <1>5, CheckStatusPaid
<1>6. CASE Settle(v)
  BY <1>2, <1>6, SettlePaid
<1>7. CASE FailAndUnfreeze(v)
  BY <1>2, <1>7, FailAndUnfreezePaid
<1>8. CASE Finalize(v)
  BY <1>2, <1>8, FinalizePaid
<1>9. CASE Write(v)
  BY <1>2, <1>9, WritePaid
<1>10. CASE Release(v) \/ Crash(v)
  BY <1>2, <1>10, PutDownPaid
<1>11. CASE LoseWrites(v)
  BY <1>2, <1>11, LoseWritesPaid
<1> QED
  BY <1>1, <1>3, <1>4, <1>5, <1>6, <1>7, <1>8, <1>9, <1>10, <1>11 DEF WorkerStep, Handler

LEMMA InitPaid == Init => AllPaid
<1> SUFFICES ASSUME Init PROVE AllPaid
  OBVIOUS
<1>1. \A w \in Orders : ~Has("settle", w)
  <2>1. \A w \in Orders : <<"settle", w>> \in LedgerKeys /\ <<"settle", w>>[1] # "deposit"
    BY DEF LedgerKeys
  <2> QED
    BY <2>1 DEF Init, Has
<1> QED
  BY <1>1 DEF Init, AllPaid, PaidAt, WorkerPaid

LEMMA NextPaid == WellTyped /\ AllPaid /\ [Next]_vars => AllPaid'
<1> SUFFICES ASSUME WellTyped, AllPaid, [Next]_vars PROVE AllPaid'
  OBVIOUS
<1>1. CASE UNCHANGED vars
  BY <1>1 DEF vars, ledgerVars, orderVars, AllPaid, PaidAt, WorkerPaid, Vouched, Mined, Has, Settles
<1>2. ASSUME NEW v \in Workers, WorkerStep(v) PROVE AllPaid'
  <2>1. PICK w \in Orders : Pays(v, w)
    BY <1>2, WorkerStepPaid
  <2> QED
    BY <2>1, PaidElsewhere DEF Pays, Moves, OthersRest
<1>3. ASSUME NEW w \in Orders,
             CreateStep(w) \/ AdminStep(w) \/ ExpireLock(w) \/ ManualTransfer(w) \/ ChainDecides(w)
      PROVE  AllPaid'
  <2>1. KeepsAt(w) /\ UNCHANGED worker
    BY <1>3, CreateStepTypes, AdminStepTypes, ChainStepTypes
  <2>2. PaidAt(w)'
    BY <1>3, <2>1, CreateStepPaid, AdminStepPaid, ChainStepPaid
  <2> QED
    BY <2>1, <2>2, PaidElsewhere
<1> QED
  BY <1>1, <1>2, <1>3 DEF Next

LEMMA SpecPaid == Spec => [](WellTyped /\ AllPaid)
<1>1. Init => WellTyped /\ AllPaid
  BY InitWellTyped, InitPaid
<1>2. (WellTyped /\ AllPaid) /\ [Next]_vars => (WellTyped /\ AllPaid)'
  BY NextWellTyped, NextPaid
<1> QED
  BY <1>1, <1>2, PTL DEF Spec

\* An order is called completed only when the ledger has settled it: true of
\* every worker and operator, under every fault.
CompletedIsSettled ==
  \A w \in Orders : order[w] # None /\ order[w].status = "completed" => Has("settle", w)

THEOREM CompletedOnlySettled == Spec => []CompletedIsSettled
<1>1. WellTyped /\ AllPaid => CompletedIsSettled
  BY DEF AllPaid, PaidAt, CompletedIsSettled
<1> QED
  BY <1>1, SpecPaid, PTL

\* Whatever is lost, repeated, interleaved or crashes, the ledger settles only
\* what has been sent and, but on TRON, been taken into a block, executed or
\* reverted; provided no operator completes orders by hand: he names a transfer,
\* and the ledger is called without a look at its fate.
THEOREM SettledOnlyMined == "complete" \notin AdminOps => (Spec => []SettledIsMined)
<1> SUFFICES ASSUME "complete" \notin AdminOps PROVE Spec => []SettledIsMined
  OBVIOUS
<1>1. WellTyped /\ AllPaid => SettledIsMined
  BY DEF AllPaid, PaidAt, Vouched, SettledIsMined
<1> QED
  BY <1>1, SpecPaid, PTL

-------------------------------------------------------------------------------
(* No order is paid for twice, unless a worker dies or outlives its lease, a  *)
(* hash or a table write is lost.                                             *)

Steady == FaultKinds \cap {"crash", "db_write", "lost_hash", "lease_lapse"} = {}

BySystem(w) == StrategyOf[w] # "manual_manual"
Mode(w) == IF BySystem(w) THEN "system" ELSE "manual"

AllFailed(w) == \A i \in DOMAIN chain[w] : chain[w][i] = "failed"
On(v, w) == worker[v] # Idle /\ worker[v].w = w

Confirms(u) == u.table = "task" /\ "state" \in DOMAIN u.fields /\ u.fields["state"] = "confirming"

FailsOrder(u) == u.table = "order" /\ "status" \in DOMAIN u.fields

\* The transfer is sent, the task does not show it yet.
Sending(w) == \E v \in Workers : On(v, w) /\ \E i \in DOMAIN worker[v].todo : Confirms(worker[v].todo[i])

\* A task to broadcast has no transfer that may still become final, a task that
\* is confirmed goes by the last transfer.
Sure(w, st, h) ==
  /\ st \in {"pending_broadcast", "confirming", "settle_pending", "done", "failed"}
  /\ st = "pending_broadcast" => AllFailed(w)
  /\ st = "confirming" => h # NoHash /\ h = Len(chain[w])

SureUpdate(u, w) ==
  /\ FailsOrder(u) => BySystem(w)
  /\ u.table = "task" =>
    /\ "state" \in DOMAIN u.fields
    /\ "mode" \in DOMAIN u.fields => u.fields["mode"] = Mode(w)
    /\ BySystem(w) =>
         Sure(w, u.fields["state"], IF "txHash" \in DOMAIN u.fields THEN u.fields["txHash"] ELSE NoHash)

SoleAt(w) ==
  /\ \A i \in DOMAIN chain[w] : i < Len(chain[w]) => chain[w][i] = "failed"
  /\ creator[w] \in {"new", "insert"} => order[w] = None
  /\ order[w] = None \/ order[w].status = "pending" => task[w] = None /\ chain[w] = <<>>
  /\ admin[w] # None =>
       /\ admin[w].op \in {"approve", "cancel", "reject"} => order[w].status = "pending"
       /\ admin[w].op = "complete" => ~BySystem(w)
  /\ task[w] # None =>
       /\ task[w].mode = Mode(w)
       /\ BySystem(w) =>
            task[w].state # "awaiting_manual_txhash"
            /\ (Sending(w) \/ Sure(w, task[w].state, task[w].txHash))

WorkerSole(v) ==
  LET s == worker[v]
  IN s # Idle =>
       /\ lock[s.w] = v
       /\ s.pc # "writing" => s.todo = <<>>
       /\ s.pc # "locked" => s.task.mode = Mode(s.w)
       /\ s.pc \in {"broadcast", "unfreeze"} => BySystem(s.w) /\ AllFailed(s.w)
       /\ BySystem(s.w) =>
            /\ s.pc = "loaded" => Sure(s.w, s.task.state, s.task.txHash)
            /\ s.pc = "status" => s.task.txHash # NoHash /\ s.task.txHash = Len(chain[s.w])
       /\ \A i \in DOMAIN s.todo : SureUpdate(s.todo[i], s.w)

AllSole == (\A w \in Orders : SoleAt(w)) /\ (\A v \in Workers : WorkerSole(v))

SureStays(w) ==
  BySystem(w) => (AllFailed(w) => AllFailed(w)') /\ Len(chain[w])' = Len(chain[w])

LEMMA SureRests ==
  ASSUME NEW w, SureStays(w)
  PROVE  /\ \A st, h : BySystem(w) /\ Sure(w, st, h) => Sure(w, st, h)'
         /\ \A u : SureUpdate(u, w) => SureUpdate(u, w)'
<1>1. \A st, h : BySystem(w) /\ Sure(w, st, h) => Sure(w, st, h)'
  BY DEF Sure, SureStays
<1> QED
  BY <1>1 DEF SureUpdate, BySystem, Mode

LEMMA NewWorkerSole ==
  ASSUME NEW v, NEW w, NEW p, NEW t, NEW o, NEW q,
         worker'[v] = [pc |-> p, w |-> w, task |-> t, order |-> o, todo |-> q],
         lock'[w] = v,
         p # "writing" => q = <<>>,
         p # "locked" => t.mode = Mode(w),
         p \in {"broadcast", "unfreeze"} => BySystem(w) /\ AllFailed(w)',
         BySystem(w) /\ p = "loaded" => Sure(w, t.state, t.txHash)',
         BySystem(w) /\ p = "status" => t.txHash # NoHash /\ t.txHash = Len(chain[w])',
         \A i \in DOMAIN q : SureUpdate(q[i], w)'
  PROVE  WorkerSole(v)'
<1>1. /\ worker'[v].pc = p /\ worker'[v].w = w /\ worker'[v].task = t /\ worker'[v].todo = q
  OBVIOUS
<1>2. (worker[v].w)' = w
  BY <1>1
<1> QED
  BY <1>1, <1>2 DEF WorkerSole, Sure, SureUpdate, AllFailed, BySystem, Mode, FailsOrder

\* What a worker goes by rests on the transfers of its order alone.
LEMMA WorkerSoleRests ==
  ASSUME WellTyped, NEW v \in Workers, WorkerSole(v), worker'[v] = worker[v],
         NEW w, On(v, w), lock'[w] = v, SureStays(w)
  PROVE  WorkerSole(v)'
<1> DEFINE s == worker[v]
<1>1. s = [pc |-> s.pc, w |-> s.w, task |-> s.task, order |-> s.order, todo |-> s.todo] /\ s.w = w
  BY DEF WellTyped, AllWorkers, WorkerAt, On
<1>2. PICK p, t, o, q : p = s.pc /\ t = s.task /\ o = s.order /\ q = s.todo
  OBVIOUS
<1>3. worker'[v] = [pc |-> p, w |-> w, task |-> t, order |-> o, todo |-> q]
  BY <1>1, <1>2
<1>4. /\ p # "writing" => q = <<>>
      /\ p # "locked" => t.mode = Mode(w)
      /\ p \in {"broadcast", "unfreeze"} => BySystem(w) /\ AllFailed(w)
      /\ BySystem(w) /\ p = "loaded" => Sure(w, t.state, t.txHash)
      /\ BySystem(w) /\ p = "status" => t.txHash # NoHash /\ t.txHash = Len(chain[w])
      /\ \A i \in DOMAIN q : SureUpdate(q[i], w)
  BY <1>1, <1>2 DEF WorkerSole, On
<1>5. BySystem(w) => (AllFailed(w) => AllFailed(w)') /\ Len(chain[w])' = Len(chain[w])
  BY DEF SureStays
<1> QED
  BY <1>3, <1>4, <1>5, SureRests, NewWorkerSole

\* A worker rests, or it is and stays at work on w.
Stays(v, w) ==
  \/ worker'[v] = worker[v]
  \/ (worker[v] # Idle => worker[v].w = w) /\ (worker'[v] # Idle => worker'[v].w = w)

LEMMA SendingRests ==
  ASSUME NEW x, \A v \in Workers : worker'[v] = worker[v] \/ (~On(v, x) /\ ~On(v, x)')
  PROVE  Sending(x)' <=> Sending(x)
BY DEF Sending, On

LEMMA SoleElsewhere ==
  ASSUME WellTyped, AllSole, NEW w \in Orders, KeepsAt(w), SoleAt(w)',
         \A v \in Workers : Stays(v, w),
         \A v \in Workers : WorkerSole(v)' \/ (worker'[v] = worker[v] /\ ~On(v, w))
  PROVE  AllSole'
<1>1. \A x \in Orders : x # w => UNCHANGED <<creator[x], order[x], task[x], lock[x], admin[x], chain[x]>>
  BY DEF KeepsAt, Elsewhere
<1>2. ASSUME NEW x \in Orders, x # w PROVE SoleAt(x)'
  <2>1. SoleAt(x) /\ UNCHANGED <<creator[x], order[x], task[x], lock[x], admin[x], chain[x]>>
    BY <1>1, <1>2 DEF AllSole
  <2>2. \A v \in Workers : worker'[v] = worker[v] \/ (~On(v, x) /\ ~On(v, x)')
    BY <1>2 DEF Stays, On
  <2>3. Sending(x)' <=> Sending(x)
    BY <2>2, SendingRests
  <2>4. \A st, h : Sure(x, st, h)' <=> Sure(x, st, h)
    BY <2>1 DEF Sure, AllFailed
  <2> QED
    BY <2>1, <2>3, <2>4 DEF SoleAt, BySystem, Mode
<1>3. ASSUME NEW v \in Workers, worker'[v] = worker[v], ~On(v, w) PROVE WorkerSole(v)'
  <2>1. CASE worker[v] = Idle
    BY <1>3, <2>1 DEF WorkerSole
  <2>2. CASE worker[v] # Idle
    <3>1. PICK x \in Orders : x = worker[v].w
      BY <2>2, AtWork
    <3>2. x # w /\ On(v, x)
      BY <1>3, <2>2, <3>1 DEF On
    <3>3. UNCHANGED <<lock[x], chain[x]>>
      BY <1>1, <3>2
    <3>4. SureStays(x)
      BY <3>3 DEF SureStays, AllFailed
    <3>5. lock'[x] = v /\ WorkerSole(v)
      BY <2>2, <3>1, <3>3 DEF AllSole, WorkerSole
    <3> QED
      BY <1>3, <3>2, <3>4, <3>5, WorkerSoleRests
  <2> QED
    BY <2>1, <2>2
<1> QED
  BY <1>2, <1>3 DEF AllSole

\* A step of an order without a worker.
OrderSole(w) ==
  /\ SoleAt(w)' /\ SureStays(w) /\ UNCHANGED worker
  /\ (lock[w])' = lock[w] \/ \A v \in Workers : ~On(v, w)

LEMMA OrderSoleKeeps ==
  ASSUME WellTyped, AllSole, NEW w \in Orders, KeepsAt(w), OrderSole(w)
  PROVE  AllSole'
<1>1. \A v \in Workers : worker'[v] = worker[v] /\ Stays(v, w)
  BY DEF OrderSole, Stays
<1>2. ASSUME NEW v \in Workers, On(v, w) PROVE WorkerSole(v)'
  <2>1. WorkerSole(v) /\ lock[w] = v
    BY <1>2 DEF AllSole, WorkerSole, On
  <2>2. lock'[w] = v /\ SureStays(w)
    BY <1>2, <2>1 DEF OrderSole
  <2> QED
    BY <1>1, <1>2, <2>1, <2>2, WorkerSoleRests
<1> QED
  BY <1>1, <1>2, SoleElsewhere DEF OrderSole

LEMMA FirstTaskSure ==
  ASSUME NEW w, AllFailed(w)
  PROVE  /\ FirstTask(w).mode = Mode(w)
         /\ BySystem(w) => /\ FirstTask(w).state # "awaiting_manual_txhash"
                           /\ Sure(w, FirstTask(w).state, FirstTask(w).txHash)
BY DEF FirstTask, NewTask, Mode, BySystem, Sure

LEMMA CreateStepSole ==
  ASSUME WellTyped, AllSole, NEW w \in Orders, CreateStep(w)
  PROVE  OrderSole(w)
<1>1. Shapes /\ RowsAt(w) /\ SoleAt(w)
  BY DEF WellTyped, AllRows, AllSole
<1>2. UNCHANGED <<chain, admin, lock, worker>>
  BY DEF CreateStep, CreateFreeze, CreateInsert, CreateUndo, CreateCrash
<1>3. SureStays(w) /\ (Sending(w)' <=> Sending(w)) /\ \A st, h : Sure(w, st, h)' <=> Sure(w, st, h)
  BY <1>2 DEF SureStays, AllFailed, Sending, On, Sure
<1>4. CASE UNCHANGED <<order, task>> /\ (creator'[w] \in {"new", "insert"} => creator[w] \in {"new", "insert"})
  BY <1>1, <1>2, <1>3, <1>4 DEF SoleAt, OrderSole
<1>5. CASE InsertOrder(w) /\ creator[w] = "insert" /\ creator'[w] \in {"done", "undo"}
  <2>1. order[w] = None /\ chain[w] = <<>> /\ admin[w] = None
    BY <1>1, <1>5 DEF SoleAt, RowsAt
  <2>2. task'[w] = task[w] \/ task'[w] = FirstTask(w)
    BY <1>1, <1>5 DEF InsertOrder, Shapes
  <2>3. AllFailed(w)
    BY <2>1 DEF AllFailed
  <2>4. order'[w].status = "pending" => task'[w] = None
    <3>1. task[w] = None
      BY <1>1, <2>1 DEF RowsAt
    <3>2. StrategyOf[w] = "auto" => order'[w].status = "processing"
      BY <1>1, <1>5 DEF InsertOrder, Shapes
    <3>3. StrategyOf[w] # "auto" => task'[w] = task[w]
      BY <1>5 DEF InsertOrder
    <3> QED
      BY <3>1, <3>2, <3>3
  <2>5. order'[w] # None
    <3>1. order'[w] \in OrderRow
      BY <1>1, <1>5, RowTypes DEF InsertOrder, Shapes, NoHash
    <3> QED
      BY <3>1, NoneAssumption
  <2>6. SoleAt(w)'
    BY <1>1, <1>2, <1>3, <1>5, <2>1, <2>2, <2>3, <2>4, <2>5, FirstTaskSure DEF SoleAt, BySystem, Mode
  <2> QED
    BY <1>2, <1>3, <2>6 DEF OrderSole
<1>6. creator'[w] \in {"new", "insert"} => creator[w] \in {"new", "insert"}
  BY <1>1 DEF CreateStep, CreateFreeze, CreateInsert, CreateUndo, CreateCrash, Shapes
<1>7. UNCHANGED <<order, task>> \/ (InsertOrder(w) /\ creator[w] = "insert" /\ creator'[w] \in {"done", "undo"})
  BY <1>1 DEF CreateStep, CreateFreeze, CreateInsert, CreateUndo, CreateCrash, Shapes
<1> QED
  BY <1>4, <1>5, <1>6, <1>7

LEMMA ChainStepSole ==
  ASSUME WellTyped, AllSole, Steady, NEW w \in Orders, ExpireLock(w) \/ ManualTransfer(w) \/ ChainDecides(w)
  PROVE  OrderSole(w)
<1>1. Shapes /\ RowsAt(w) /\ SoleAt(w) /\ chain[w] \in Seq(Fates)
  BY DEF WellTyped, AllRows, AllSole, RowsAt
<1>2. UNCHANGED <<creator, order, task, admin, worker>>
  BY DEF ExpireLock, ManualTransfer, ChainDecides
<1>3. Sending(w)' <=> Sending(w)
  BY <1>2 DEF Sending, On
<1>4. CASE ExpireLock(w)
  <2>1. UNCHANGED chain /\ lock[w] # None /\ worker[lock[w]].w # w
    BY <1>4 DEF ExpireLock, Fault, Steady
  <2>2. ASSUME NEW v \in Workers PROVE ~On(v, w)
    BY <2>1 DEF AllSole, WorkerSole, On
  <2>3. SureStays(w) /\ \A st, h : Sure(w, st, h)' <=> Sure(w, st, h)
    BY <2>1 DEF SureStays, AllFailed, Sure
  <2>4. SoleAt(w)'
    BY <1>1, <1>2, <1>3, <2>1, <2>3 DEF SoleAt
  <2> QED
    BY <1>2, <2>2, <2>3, <2>4 DEF OrderSole
<1>5. CASE ManualTransfer(w)
  <2>1. chain' = [chain EXCEPT ![w] = Append(chain[w], "pending")] /\ AllFailed(w) /\ ~BySystem(w)
        /\ order[w] # None /\ order[w].status = "processing" /\ UNCHANGED lock
    BY <1>5 DEF ManualTransfer, Sent, AllFailed, BySystem
  <2>2. chain'[w] = Append(chain[w], "pending")
    BY <1>1, <2>1 DEF Shapes
  <2>3. \A i \in DOMAIN chain'[w] : i < Len(chain'[w]) => chain'[w][i] = "failed"
    <3>1. \A i \in DOMAIN chain'[w] : i < Len(chain'[w]) => i \in DOMAIN chain[w] /\ chain'[w][i] = chain[w][i]
      BY <1>1, <2>2
    <3> QED
      BY <2>1, <3>1 DEF AllFailed
  <2>4. SoleAt(w)'
    BY <1>1, <1>2, <2>1, <2>3 DEF SoleAt, BySystem, Mode
  <2> QED
    BY <1>2, <2>1, <2>4 DEF OrderSole, SureStays
<1>6. CASE ChainDecides(w)
  <2>1. PICK i \in DOMAIN chain[w], fate \in {"confirmed", "failed"} :
          chain[w][i] = "pending" /\ chain' = [chain EXCEPT ![w][i] = fate]
    BY <1>6 DEF ChainDecides
  <2>2. chain'[w] = [chain[w] EXCEPT ![i] = fate] /\ UNCHANGED lock
    BY <1>1, <1>6, <2>1 DEF Shapes, ChainDecides
  <2>3. Len(chain'[w]) = Len(chain[w]) /\ DOMAIN chain'[w] = DOMAIN chain[w]
        /\ \A j \in DOMAIN chain[w] : j # i => chain'[w][j] = chain[w][j]
    BY <1>1, <2>2
  <2>4. \A j \in DOMAIN chain'[w] : j < Len(chain'[w]) => chain'[w][j] = "failed"
    BY <1>1, <2>1, <2>3 DEF SoleAt
  <2>5. ~AllFailed(w) /\ chain[w] # <<>>
    BY <1>1, <2>1 DEF AllFailed
  <2>6. SureStays(w) /\ \A st, h : Sure(w, st, h) => Sure(w, st, h)'
    BY <2>3, <2>5 DEF SureStays, Sure
  <2>7. SoleAt(w)'
    BY <1>1, <1>2, <1>3, <2>4, <2>5, <2>6 DEF SoleAt, BySystem, Mode
  <2> QED
    BY <1>2, <2>2, <2>6, <2>7 DEF OrderSole
<1> QED
  BY <1>4, <1>5, <1>6

LEMMA AdminStepSole ==
  ASSUME WellTyped, AllSole, NEW w \in Orders, AdminStep(w)
  PROVE  OrderSole(w)
<1>1. Shapes /\ RowsAt(w) /\ SoleAt(w)
  BY DEF WellTyped, AllRows, AllSole
<1>2. UNCHANGED <<creator, chain, lock, worker>>
  BY DEF AdminStep, AdminCall, AdminCommit, AdminRollback, AdminSetHash
<1>3. SureStays(w) /\ (Sending(w)' <=> Sending(w)) /\ \A st, h : Sure(w, st, h)' <=> Sure(w, st, h)
  BY <1>2 DEF SureStays, AllFailed, Sending, On, Sure
<1>4. SUFFICES SoleAt(w)'
  BY <1>2, <1>3 DEF OrderSole
<1>5. ASSUME NEW op, NEW hash, AdminCall(op, w, hash)
      PROVE  SoleAt(w)'
  <2>1. /\ op \in {"approve", "cancel", "reject"} => order[w].status = "pending"
        /\ op = "complete" => ~BySystem(w)
        /\ UNCHANGED <<order, task>>
    BY <1>5 DEF AdminCall, Decides, BySystem
  <2>2. admin'[w] = admin[w] \/ admin'[w] = [op |-> op, hash |-> hash]
    BY <1>1, <1>5 DEF AdminCall, Shapes
  <2> QED
    BY <1>1, <1>2, <1>3, <2>1, <2>2 DEF SoleAt, BySystem
<1>6. CASE AdminRollback(w)
  <2>1. UNCHANGED <<order, task>> /\ admin'[w] = None
    BY <1>1, <1>6 DEF AdminRollback, Shapes
  <2> QED
    BY <1>1, <1>2, <1>3, <2>1 DEF SoleAt
<1>7. CASE AdminCommit(w)
  <2>1. admin'[w] = None /\ admin[w] # None /\ order[w] # None /\ order[w] \in OrderRow
    BY <1>1, <1>7 DEF AdminCommit, RowsAt, Shapes
  <2>2. \A st : Restated(w, st) => order'[w].status = st
    BY <1>1, <2>1 DEF Restated, Shapes, OrderRow
  <2>3. order'[w].status \in {"processing", "cancelled", "rejected", "failed", "completed"} /\ order'[w] # None
    <3>1. order'[w].status \in {"processing", "cancelled", "rejected", "failed", "completed"}
      <4>1. CASE CommitComplete(w, admin[w].hash)
        BY <1>1, <4>1 DEF CommitComplete, Shapes
      <4> QED
        BY <1>7, <2>2, <4>1 DEF AdminCommit, CommitApprove, CommitCancel, CommitReject, CommitFail
    <3>2. (order[w] # None)'
      <4>1. KeepsAt(w)
        BY AdminStepTypes
      <4> QED
        BY <2>1, <4>1 DEF KeepsAt, Grows
    <3> QED
      BY <3>1, <3>2
  <2>4. task'[w] # None => /\ task'[w].mode = Mode(w)
                           /\ BySystem(w) => /\ task'[w].state # "awaiting_manual_txhash"
                                             /\ Sending(w) \/ Sure(w, task'[w].state, task'[w].txHash)
    <3>1. CASE admin[w].op = "approve" /\ CommitApprove(w)
      <4>1. chain[w] = <<>>
        BY <1>1, <2>1, <3>1 DEF SoleAt
      <4>2. AllFailed(w)
        BY <4>1 DEF AllFailed
      <4>3. task'[w] = task[w] \/ task'[w] = FirstTask(w)
        BY <1>1, <3>1 DEF CommitApprove, Shapes
      <4> QED
        BY <1>1, <4>2, <4>3, FirstTaskSure DEF SoleAt
    <3>2. CASE CommitCancel(w) \/ CommitReject(w)
      BY <1>1, <3>2 DEF CommitCancel, CommitReject, SoleAt
    <3>3. CASE CommitFail(w)
      <4>1. task'[w] = IF task[w] = None THEN task[w] ELSE [task[w] EXCEPT !.state = "failed"]
        BY <1>1, <3>3 DEF CommitFail, Shapes
      <4>2. task[w] # None => /\ [task[w] EXCEPT !.state = "failed"].state = "failed"
                              /\ [task[w] EXCEPT !.state = "failed"].mode = task[w].mode
        BY <1>1 DEF RowsAt, TaskRow
      <4> QED
        BY <1>1, <4>1, <4>2 DEF SoleAt, Sure
    <3>4. CASE admin[w].op = "complete" /\ CommitComplete(w, admin[w].hash)
      <4>1. ~BySystem(w)
        BY <1>1, <2>1, <3>4 DEF SoleAt
      <4>2. task'[w] = Confirming(task[w], admin[w].hash)
        BY <1>1, <3>4 DEF CommitComplete, Shapes
      <4>3. \A t, h : t = None \/ t \in TaskRow => Confirming(t, h).mode = "manual"
        BY DEF Confirming, Updated, NewTask, TaskRow
      <4> QED
        BY <1>1, <4>1, <4>2, <4>3 DEF RowsAt, Mode
    <3> QED
      BY <1>7, <3>1, <3>2, <3>3, <3>4 DEF AdminCommit
  <2> QED
    BY <1>1, <1>2, <1>3, <2>1, <2>3, <2>4 DEF SoleAt, BySystem, Mode
<1>8. ASSUME NEW hash, AdminSetHash(w, hash)
      PROVE  SoleAt(w)'
  <2>1. /\ ~BySystem(w) /\ UNCHANGED admin /\ admin[w] = None /\ order[w] # None
        /\ order[w].status = "processing" /\ order[w] \in OrderRow /\ task[w] \in TaskRow
    BY <1>1, <1>8 DEF AdminSetHash, RowsAt, BySystem
  <2>2. order'[w] = [order[w] EXCEPT !.txHash = hash]
    BY <1>1, <1>8 DEF AdminSetHash, Shapes
  <2>3. order'[w].status = "processing"
    BY <2>1, <2>2 DEF OrderRow
  <2>4. order'[w] # None
    <3>1. KeepsAt(w)
      BY AdminStepTypes
    <3> QED
      BY <2>1, <3>1 DEF KeepsAt, Grows
  <2>5. task'[w].mode = "manual"
    <3>1. task'[w] = IF hash # NoHash THEN Confirming(task[w], hash)
                     ELSE Updated(task[w], [mode |-> "manual", state |-> "awaiting_manual_txhash", txHash |-> NoHash])
      BY <1>1, <1>8 DEF AdminSetHash, Shapes
    <3>2. \A t \in TaskRow : \A h : Confirming(t, h).mode = "manual"
      BY NoneAssumption DEF Confirming, Updated, TaskRow
    <3>3. \A t \in TaskRow : \A h :
            Updated(t, [mode |-> "manual", state |-> "awaiting_manual_txhash", txHash |-> h]).mode = "manual"
      BY DEF Updated, TaskRow
    <3> QED
      BY <2>1, <3>1, <3>2, <3>3
  <2> QED
    BY <1>1, <1>2, <2>1, <2>3, <2>4, <2>5 DEF SoleAt, BySystem, Mode
<1> QED
  BY <1>5, <1>6, <1>7, <1>8 DEF AdminStep

LEMMA WorkerAlone ==
  ASSUME AllSole, NEW v \in Workers, NEW w, On(v, w)
  PROVE  /\ \A y \in Workers : y # v => ~On(y, w)
         /\ Sending(w) => \E i \in DOMAIN worker[v].todo : Confirms(worker[v].todo[i])
BY DEF AllSole, WorkerSole, On, Sending

WSole(v, w) ==
  SoleAt(w)' /\ WorkerSole(v)' /\ Stays(v, w) /\ \A y \in Workers : y # v => ~On(y, w)

LEMMA WorkerSoleKeeps ==
  ASSUME WellTyped, AllSole, NEW v \in Workers, NEW w \in Orders, Moves(v, w), WSole(v, w)
  PROVE  AllSole'
BY SoleElsewhere DEF Moves, OthersRest, WSole, Stays

\* The updates that are sure whatever the chain says.
LEMMA SureUpdates ==
  ASSUME NEW w
  PROVE  /\ SureUpdate(FailTask, w) /\ SureUpdate(SetTask([state |-> "done"]), w)
         /\ SureUpdate(SetTask([state |-> "settle_pending"]), w)
         /\ ~BySystem(w) => SureUpdate(AwaitHash, w)
         /\ ~BySystem(w) => \A h :
              SureUpdate(SetTask([mode |-> "manual", state |-> "confirming", txHash |-> h]), w)
         /\ BySystem(w) /\ AllFailed(w) => SureUpdate(ForgetHash, w)
         /\ BySystem(w) /\ AllFailed(w) => \A n :
              SureUpdate(SetTask([mode |-> "system", state |-> "pending_broadcast", attempts |-> n]), w)
         /\ \A h : SureUpdate(SetOrder([txHash |-> h]), w)
         /\ BySystem(w) => SureUpdate(SetOrder([status |-> "failed"]), w)
BY DEF SureUpdate, Sure, FailsOrder, SetTask, SetOrder, FailTask, AwaitHash, ForgetHash, Mode

\* A handler starts to broadcast or to give up only without a live transfer, and
\* asks the chain about the last one.
LEMMA StartSole ==
  ASSUME NEW w, NEW t, t.mode = Mode(w), BySystem(w) => Sure(w, t.state, t.txHash), NEW o
  PROVE  LET start == Start(w, t, o)
         IN /\ start[1] # "writing" => start[2] = <<>>
            /\ start[1] \in {"broadcast", "unfreeze"} => BySystem(w) /\ AllFailed(w)
            /\ BySystem(w) /\ start[1] = "status" => t.txHash # NoHash /\ t.txHash = Len(chain[w])
            /\ start[2] = <<>> \/ \E a \in {start[2][1]} : start[2] = <<a>> /\ SureUpdate(a, w)
<1> DEFINE Good(start) ==
      /\ start[1] # "writing" => start[2] = <<>>
      /\ start[1] \in {"broadcast", "unfreeze"} => BySystem(w) /\ AllFailed(w)
      /\ BySystem(w) /\ start[1] = "status" => t.txHash # NoHash /\ t.txHash = Len(chain[w])
      /\ start[2] = <<>> \/ \E a \in {start[2][1]} : start[2] = <<a>> /\ SureUpdate(a, w)
<1>1. ASSUME NEW a, SureUpdate(a, w) PROVE Good(<<"writing", <<a>>>>)
  BY <1>1
<1>2. t.state = "awaiting_manual_txhash" => Good(AwaitingStart(t, o))
  <2>1. t.state = "awaiting_manual_txhash" => ~BySystem(w)
    BY DEF Sure
  <2> HIDE DEF Good
  <2> QED
    BY <1>1, <2>1, SureUpdates DEF AwaitingStart
<1>3. t.state = "pending_broadcast" => Good(BroadcastStart(w, t))
  <2> SUFFICES ASSUME t.state = "pending_broadcast" PROVE Good(BroadcastStart(w, t))
    OBVIOUS
  <2>1. CASE ~BySystem(w)
    <3>1. SureUpdate(AwaitHash, w)
      BY <2>1, SureUpdates
    <3> HIDE DEF Good
    <3> QED
      BY <1>1, <2>1, <3>1 DEF BroadcastStart, BySystem
  <2>2. CASE BySystem(w)
    <3>1. AllFailed(w)
      BY <2>2 DEF Sure
    <3>2. BroadcastStart(w, t) = <<"unfreeze", <<>>>> \/ BroadcastStart(w, t) = <<"broadcast", <<>>>>
      BY <2>2 DEF BroadcastStart, BySystem
    <3> QED
      BY <2>2, <3>1, <3>2
  <2> QED
    BY <2>1, <2>2
<1>4. t.state = "confirming" => Good(ConfirmStart(t, o))
  <2> SUFFICES ASSUME t.state = "confirming" PROVE Good(ConfirmStart(t, o))
    OBVIOUS
  <2>1. BySystem(w) => t.txHash # NoHash /\ t.txHash = Len(chain[w])
    BY DEF Sure
  <2>2. CASE EitherHash(t, o) # NoHash
    BY <2>1, <2>2 DEF ConfirmStart
  <2>3. CASE EitherHash(t, o) = NoHash
    <3>1. ~BySystem(w)
      BY <2>1, <2>3 DEF EitherHash
    <3>2. ConfirmStart(t, o) = <<"writing", <<AwaitHash>>>>
      BY <2>3, <3>1 DEF ConfirmStart, Mode
    <3> HIDE DEF Good
    <3> QED
      BY <1>1, <3>1, <3>2, SureUpdates
  <2> QED
    BY <2>2, <2>3
<1>5. Good(<<"settle", <<>>>>)
  OBVIOUS
<1>6. Good(<<"writing", <<FailTask>>>>) /\ Good(<<"writing", <<SetTask([state |-> "done"])>>>>)
  <2> HIDE DEF Good
  <2> QED
    BY <1>1, SureUpdates
<1>7. Good(Start(w, t, o))
  <2> HIDE DEF Good
  <2> QED
    BY <1>2, <1>3, <1>4, <1>5, <1>6 DEF Start
<1> QED
  BY <1>7

LEMMA GoesOnSole ==
  ASSUME WellTyped, AllSole, NEW v \in Workers, NEW w, On(v, w), worker[v].pc \in ReadRows, UNCHANGED lock,
         NEW p \in {"writing", "finalize", "unfreeze"}, NEW q, Goes(v, p, q),
         p # "writing" => q = <<>>,
         p = "unfreeze" => BySystem(w) /\ AllFailed(w)',
         \A i \in DOMAIN q : SureUpdate(q[i], w)'
  PROVE  WorkerSole(v)' /\ Stays(v, w) /\ \A y \in Workers : y # v => ~On(y, w)
<1> DEFINE s == worker[v]
<1>1. s = [pc |-> s.pc, w |-> s.w, task |-> s.task, order |-> s.order, todo |-> s.todo]
      /\ worker = [x \in Workers |-> worker[x]] /\ s.w = w
  BY DEF WellTyped, AllWorkers, WorkerAt, Shapes, On
<1>2. PICK t, o : t = s.task /\ o = s.order
  OBVIOUS
<1>3. worker'[v] = [pc |-> p, w |-> w, task |-> t, order |-> o, todo |-> q]
  <2>1. worker'[v] = [pc |-> p, w |-> w, task |-> s.task, order |-> s.order, todo |-> q]
    BY <1>1 DEF Goes
  <2> QED
    BY <1>2, <2>1
<1>4. lock'[w] = v /\ t.mode = Mode(w)
  BY <1>1, <1>2 DEF AllSole, WorkerSole, On, ReadRows
<1>5. WorkerSole(v)'
  BY <1>3, <1>4, NewWorkerSole
<1>6. worker'[v].w = w
  BY <1>3
<1> QED
  BY <1>1, <1>5, <1>6, WorkerAlone DEF Stays

LEMMA RowsRestSole ==
  ASSUME AllSole, NEW w \in Orders, UNCHANGED <<creator, order, task, admin, chain>>,
         Sending(w) => Sending(w)'
  PROVE  SoleAt(w)'
<1>1. SoleAt(w)
  BY DEF AllSole
<1>2. \A st, h : Sure(w, st, h)' <=> Sure(w, st, h)
  BY DEF Sure, AllFailed
<1> QED
  BY <1>1, <1>2 DEF SoleAt

LEMMA NothingToSend ==
  ASSUME AllSole, NEW v \in Workers, NEW w, On(v, w), worker[v].pc # "writing" \/ worker[v].todo = <<>>
  PROVE  ~Sending(w)
<1>1. worker[v].todo = <<>>
  BY DEF AllSole, WorkerSole, On
<1>2. DOMAIN worker[v].todo = {}
  BY <1>1
<1> QED
  BY <1>2, WorkerAlone

\* A worker takes a task no other has in hand.
LEMMA TakeSole ==
  ASSUME WellTyped, AllSole, NEW v \in Workers, NEW w \in Orders, Take(v, w)
  PROVE  WSole(v, w)
<1>1. /\ worker[v] = Idle /\ lock[w] = None /\ lock' = [lock EXCEPT ![w] = v]
      /\ UNCHANGED <<creator, order, task, admin, chain>>
      /\ worker'[v] = [pc |-> "locked", w |-> w, task |-> None, order |-> None, todo |-> <<>>]
      /\ lock'[w] = v
  BY DEF Take, WellTyped, Shapes
<1>2. \A y \in Workers : ~On(y, w)
  BY <1>1, NoneAssumption DEF AllSole, WorkerSole, On
<1>3. SoleAt(w)'
  BY <1>1, <1>2, RowsRestSole DEF Sending
<1>4. WorkerSole(v)'
  BY <1>1, NewWorkerSole
<1>5. Stays(v, w)
  BY <1>1 DEF Stays
<1> QED
  BY <1>2, <1>3, <1>4, <1>5 DEF WSole

LEMMA ReadSole ==
  ASSUME WellTyped, AllSole, NEW v \in Workers, NEW w, worker[v].w = w, ReadTask(v) \/ ReadOrder(v)
  PROVE  WSole(v, w)
<1>1. /\ On(v, w) /\ w \in Orders /\ worker[v].pc \in {"locked", "loaded"}
      /\ UNCHANGED <<creator, order, task, lock, admin, chain>>
  BY AtWork DEF ReadTask, ReadOrder, Idle, On
<1>2. /\ worker[v] = [pc |-> worker[v].pc, w |-> w, task |-> worker[v].task,
                      order |-> worker[v].order, todo |-> worker[v].todo]
      /\ worker = [x \in Workers |-> worker[x]] /\ task[w] # None
      /\ WorkerSole(v) /\ SoleAt(w)
  BY <1>1, AtWork DEF WorkerAt, Shapes, On, AllSole
<1>3. lock'[w] = v /\ worker[v].todo = <<>> /\ ~Sending(w)
  BY <1>1, <1>2, NothingToSend DEF WorkerSole, On
<1>4. SoleAt(w)'
  BY <1>1, <1>3, RowsRestSole
<1>5. \A st, h : Sure(w, st, h)' <=> Sure(w, st, h)
  BY <1>1 DEF Sure, AllFailed
<1>6. CASE ReadTask(v)
  <2>1. PICK t, o, q : t = task[w] /\ o = worker[v].order /\ q = worker[v].todo
    OBVIOUS
  <2>2. worker'[v] = [pc |-> "loaded", w |-> w, task |-> t, order |-> o, todo |-> q]
    BY <1>2, <1>6, <2>1 DEF ReadTask
  <2>3. t.mode = Mode(w) /\ (BySystem(w) => Sure(w, t.state, t.txHash)')
    BY <1>2, <1>3, <1>5, <2>1 DEF SoleAt
  <2>4. q = <<>> /\ DOMAIN q = {}
    BY <1>3, <2>1
  <2>5. WorkerSole(v)'
    BY <1>3, <2>2, <2>3, <2>4, NewWorkerSole
  <2>6. worker'[v].w = w
    BY <2>2
  <2> QED
    BY <1>1, <1>4, <2>5, <2>6, WorkerAlone DEF WSole, Stays, On
<1>7. CASE ReadOrder(v)
  <2>1. PICK t, o, p, q : t = worker[v].task /\ o = order[w]
                          /\ p = Start(w, t, o)[1] /\ q = Start(w, t, o)[2]
    OBVIOUS
  <2>2. worker'[v] = [pc |-> p, w |-> w, task |-> t, order |-> o, todo |-> q]
    BY <1>2, <1>7, <2>1 DEF ReadOrder
  <2>3. t.mode = Mode(w) /\ (BySystem(w) => Sure(w, t.state, t.txHash))
    BY <1>1, <1>2, <1>7, <2>1 DEF WorkerSole, ReadOrder, On
  <2>4. /\ p # "writing" => q = <<>>
        /\ p \in {"broadcast", "unfreeze"} => BySystem(w) /\ AllFailed(w)
        /\ BySystem(w) /\ p = "status" => t.txHash # NoHash /\ t.txHash = Len(chain[w])
        /\ q = <<>> \/ \E a \in {q[1]} : q = <<a>> /\ SureUpdate(a, w)
    BY <2>1, <2>3, StartSole
  <2>5. \A i \in DOMAIN q : SureUpdate(q[i], w)
    BY <2>4
  <2>6. p # "loaded" /\ SureStays(w) /\ AllFailed(w)' = AllFailed(w) /\ Len(chain[w])' = Len(chain[w])
    <3>1. p # "loaded"
      <4>1. t \in TaskRow /\ t.txHash \in Hashes(w) /\ o \in OrderRow /\ o.txHash \in Hashes(w)
        BY <1>1, <1>7, <2>1, AtWork DEF WorkerAt, RowsAt, ReadOrder, On
      <4> QED
        BY <1>1, <2>1, <4>1, StartType
    <3> QED
      BY <1>1, <3>1 DEF SureStays, AllFailed
  <2>7. WorkerSole(v)'
    BY <1>3, <2>2, <2>3, <2>4, <2>5, <2>6, SureRests, NewWorkerSole
  <2>8. worker'[v].w = w
    BY <2>2
  <2> QED
    BY <1>1, <1>4, <2>7, <2>8, WorkerAlone DEF WSole, Stays, On
<1> QED
  BY <1>6, <1>7

LEMMA PutDownSole ==
  ASSUME WellTyped, AllSole, Steady, NEW v \in Workers, NEW w, worker[v].w = w,
         Release(v) \/ Crash(v) \/ LoseWrites(v)
  PROVE  WSole(v, w)
<1>1. Release(v)
  BY DEF Crash, LoseWrites, Fault, Steady
<1>2. /\ On(v, w) /\ w \in Orders /\ worker[v].todo = <<>>
      /\ UNCHANGED <<creator, order, task, admin, chain>> /\ worker' = [worker EXCEPT ![v] = Idle]
  BY <1>1, AtWork DEF Release, Idle, On
<1>3. worker'[v] = Idle
  BY <1>2 DEF WellTyped, Shapes
<1>4. SoleAt(w)'
  BY <1>2, NothingToSend, RowsRestSole
<1> QED
  BY <1>2, <1>3, <1>4, WorkerAlone DEF WSole, Stays, WorkerSole, On

LEMMA GoesTo ==
  ASSUME WellTyped, NEW v \in Workers, NEW w, On(v, w), NEW p, NEW q, Goes(v, p, q)
  PROVE  /\ worker'[v].pc = p /\ worker'[v].w = w /\ worker'[v].todo = q
         /\ worker'[v].task = worker[v].task /\ worker'[v].order = worker[v].order
<1> DEFINE s == worker[v]
<1>1. s = [pc |-> s.pc, w |-> s.w, task |-> s.task, order |-> s.order, todo |-> s.todo]
      /\ worker = [x \in Workers |-> worker[x]] /\ s.w = w
  BY DEF WellTyped, AllWorkers, WorkerAt, Shapes, On
<1>2. worker'[v] = [pc |-> p, w |-> w, task |-> s.task, order |-> s.order, todo |-> q]
  BY <1>1 DEF Goes
<1> QED
  BY <1>2

\* A worker sends only while every earlier transfer has failed.
LEMMA BroadcastSole ==
  ASSUME WellTyped, AllSole, Steady, NEW v \in Workers, NEW w, worker[v].w = w, Broadcast(v)
  PROVE  WSole(v, w)
<1>1. /\ On(v, w) /\ w \in Orders /\ worker[v].pc \in ReadRows /\ worker[v].pc = "broadcast"
      /\ UNCHANGED <<creator, order, task, lock, admin>>
  BY AtWork DEF Broadcast, Idle, ReadRows, On
<1>2. /\ SoleAt(w) /\ BySystem(w) /\ AllFailed(w) /\ ~Sending(w) /\ Shapes /\ chain[w] \in Seq(Fates)
      /\ task[w] # None
  BY <1>1, AtWork, NothingToSend DEF AllSole, WorkerSole, On, RowsAt
<1>3. PICK n, h : n = worker[v].task.attempts + 1 /\ h = Len(chain[w]) + 1
  OBVIOUS
<1> DEFINE late == SetTask([mode |-> "system", state |-> "pending_broadcast", attempts |-> n])
           conf == SetTask([mode |-> "system", state |-> "confirming", txHash |-> h, attempts |-> n])
           hint == SetOrder([txHash |-> h])
<1>4. \/ UNCHANGED chain /\ Goes(v, "unfreeze", <<>>)
      \/ UNCHANGED chain /\ Goes(v, "writing", <<late>>)
      \/ Sent(w) /\ Goes(v, "writing", <<hint, conf>>)
  BY <1>3 DEF Broadcast, Writes, Fault, Steady
<1>5. CASE UNCHANGED chain /\ (Goes(v, "unfreeze", <<>>) \/ Goes(v, "writing", <<late>>))
  <2>1. SureUpdate(late, w)
    BY <1>2, SureUpdates
  <2> HIDE DEF late
  <2>2. PICK p, q : /\ p \in {"writing", "unfreeze"} /\ Goes(v, p, q) /\ (p # "writing" => q = <<>>)
                    /\ \A i \in DOMAIN q : SureUpdate(q[i], w)
    <3>1. CASE Goes(v, "unfreeze", <<>>)
      <4>1. DOMAIN <<>> = {}
        OBVIOUS
      <4> QED
        BY <3>1, <4>1
    <3>2. CASE Goes(v, "writing", <<late>>)
      <4>1. \A i \in DOMAIN <<late>> : <<late>>[i] = late
        OBVIOUS
      <4>2. \A i \in DOMAIN <<late>> : SureUpdate(<<late>>[i], w)
        BY <2>1, <4>1
      <4> QED
        BY <3>2, <4>2
    <3> QED
      BY <1>5, <3>1, <3>2
  <2>3. SureStays(w) /\ AllFailed(w)'
    BY <1>2, <1>5 DEF SureStays, AllFailed
  <2>4. SoleAt(w)'
    BY <1>1, <1>2, <1>5, RowsRestSole
  <2> QED
    BY <1>1, <1>2, <2>2, <2>3, <2>4, SureRests, GoesOnSole DEF WSole
<1>6. CASE Sent(w) /\ Goes(v, "writing", <<hint, conf>>)
  <2>1. chain'[w] = Append(chain[w], "pending")
    BY <1>1, <1>2, <1>6 DEF Sent, Shapes
  <2>2. Len(chain'[w]) = h /\ h # NoHash
        /\ \A i \in DOMAIN chain'[w] : i < Len(chain'[w]) => i \in DOMAIN chain[w] /\ chain'[w][i] = chain[w][i]
    BY <1>2, <1>3, <2>1 DEF NoHash
  <2>3. SureUpdate(conf, w)' /\ SureUpdate(hint, w)' /\ Confirms(conf)
    BY <1>2, <2>2 DEF SureUpdate, Sure, FailsOrder, Mode, BySystem, SetTask, SetOrder, Confirms
  <2>4. PICK q : q = <<hint, conf>>
    OBVIOUS
  <2> HIDE DEF conf, hint
  <2>5. \A i \in DOMAIN q : SureUpdate(q[i], w)'
    <3>1. \A i \in DOMAIN q : q[i] = hint \/ q[i] = conf
      BY <2>4
    <3> QED
      BY <2>3, <3>1
  <2>6. WorkerSole(v)' /\ Stays(v, w) /\ \A y \in Workers : y # v => ~On(y, w)
    BY <1>1, <1>6, <2>4, <2>5, GoesOnSole
  <2>7. Sending(w)'
    <3>1. worker'[v].todo = q /\ worker'[v].w = w /\ worker'[v] # Idle /\ 2 \in DOMAIN q /\ q[2] = conf
      <4>1. worker'[v].todo = q /\ worker'[v].w = w /\ worker'[v].pc = "writing"
        BY <1>1, <1>6, <2>4, GoesTo
      <4>2. worker'[v] # Idle
        BY <4>1 DEF Idle
      <4> QED
        BY <2>4, <4>1, <4>2
    <3>2. Confirms(q[2])
      BY <2>3, <3>1
    <3> QED
      BY <3>1, <3>2 DEF Sending, On, Confirms
  <2>8. \A i \in DOMAIN chain'[w] : i < Len(chain'[w]) => chain'[w][i] = "failed"
    BY <1>2, <2>2 DEF AllFailed
  <2>9. order[w] # None /\ order[w].status # "pending"
    BY <1>2 DEF SoleAt
  <2>10. SoleAt(w)'
    BY <1>1, <1>2, <2>7, <2>8, <2>9 DEF SoleAt, BySystem, Mode
  <2> QED
    BY <2>6, <2>10 DEF WSole
<1> QED
  BY <1>4, <1>5, <1>6

\* A worker forgets a hash, or gives up, only when the last transfer has failed.
LEMMA CheckStatusSole ==
  ASSUME WellTyped, AllSole, NEW v \in Workers, NEW w, worker[v].w = w, CheckStatus(v)
  PROVE  WSole(v, w)
<1>1. /\ On(v, w) /\ w \in Orders /\ worker[v].pc \in ReadRows /\ worker[v].pc = "status"
      /\ UNCHANGED <<creator, order, task, lock, admin, chain>>
  BY AtWork DEF CheckStatus, Idle, ReadRows, On
<1>2. SoleAt(w) /\ WorkerSole(v) /\ ~Sending(w) /\ chain[w] \in Seq(Fates)
  BY <1>1, AtWork, NothingToSend DEF AllSole, On, RowsAt
<1>3. SoleAt(w)'
  BY <1>1, <1>2, RowsRestSole
<1>4. worker[v].task.mode = Mode(w)
      /\ (BySystem(w) => worker[v].task.txHash # NoHash /\ worker[v].task.txHash = Len(chain[w]))
  BY <1>1, <1>2 DEF WorkerSole, On
<1>5. BySystem(w) /\ chain[w][EitherHash(worker[v].task, worker[v].order)] = "failed" => AllFailed(w)
  <2> SUFFICES ASSUME BySystem(w), chain[w][EitherHash(worker[v].task, worker[v].order)] = "failed",
                      NEW i \in DOMAIN chain[w]
               PROVE  chain[w][i] = "failed"
    BY DEF AllFailed
  <2>1. EitherHash(worker[v].task, worker[v].order) = Len(chain[w])
    BY <1>4 DEF EitherHash
  <2>2. i < Len(chain[w]) \/ i = Len(chain[w])
    BY <1>2
  <2> QED
    BY <1>2, <2>1, <2>2 DEF SoleAt
<1> DEFINE go == SetTask([state |-> "settle_pending"])
<1>6. \/ Goes(v, "writing", <<>>) \/ Goes(v, "writing", <<go>>)
      \/ ~BySystem(w) /\ Goes(v, "writing", <<AwaitHash>>)
      \/ BySystem(w) /\ AllFailed(w) /\ (Goes(v, "writing", <<ForgetHash>>) \/ Goes(v, "unfreeze", <<>>))
  <2>1. worker[v].task.mode = "manual" <=> ~BySystem(w)
    BY <1>4 DEF Mode
  <2>2. \/ Goes(v, "writing", <<>>) \/ Goes(v, "writing", <<go>>)
        \/ /\ chain[w][EitherHash(worker[v].task, worker[v].order)] = "failed"
           /\ \/ worker[v].task.mode = "manual" /\ Goes(v, "writing", <<AwaitHash>>)
              \/ worker[v].task.mode # "manual" /\ (Goes(v, "writing", <<ForgetHash>>) \/ Goes(v, "unfreeze", <<>>))
    BY DEF CheckStatus, Answers, Writes
  <2> QED
    BY <1>5, <2>1, <2>2
<1>7. SureUpdate(go, w) /\ (~BySystem(w) => SureUpdate(AwaitHash, w))
      /\ (BySystem(w) /\ AllFailed(w) => SureUpdate(ForgetHash, w))
  BY SureUpdates
<1> HIDE DEF go
<1>8. PICK p, q : /\ p \in {"writing", "unfreeze"} /\ Goes(v, p, q) /\ (p # "writing" => q = <<>>)
                  /\ p = "unfreeze" => BySystem(w) /\ AllFailed(w)
                  /\ q = <<>> \/ \E a \in {q[1]} : q = <<a>> /\ SureUpdate(a, w)
  <2>1. ASSUME NEW a, Goes(v, "writing", <<a>>), SureUpdate(a, w)
        PROVE  \E p, q : /\ p \in {"writing", "unfreeze"} /\ Goes(v, p, q) /\ (p # "writing" => q = <<>>)
                         /\ p = "unfreeze" => BySystem(w) /\ AllFailed(w)
                         /\ q = <<>> \/ \E b \in {q[1]} : q = <<b>> /\ SureUpdate(b, w)
    <3>1. \E b \in {<<a>>[1]} : <<a>> = <<b>> /\ SureUpdate(b, w)
      BY <2>1
    <3> QED
      BY <2>1, <3>1
  <2> QED
    BY <1>6, <1>7, <2>1
<1>9. \A i \in DOMAIN q : SureUpdate(q[i], w)
  BY <1>8
<1>10. SureStays(w) /\ (AllFailed(w) => AllFailed(w)')
  BY <1>1 DEF SureStays, AllFailed
<1> QED
  BY <1>1, <1>3, <1>8, <1>9, <1>10, SureRests, GoesOnSole DEF WSole

LEMMA SettleSole ==
  ASSUME WellTyped, AllSole, NEW v \in Workers, NEW w, worker[v].w = w, Settle(v) \/ FailAndUnfreeze(v)
  PROVE  WSole(v, w)
<1>1. /\ On(v, w) /\ w \in Orders /\ worker[v].pc \in ReadRows /\ worker[v].pc \in {"settle", "unfreeze"}
      /\ UNCHANGED <<creator, order, task, lock, admin, chain>>
  BY AtWork DEF Settle, FailAndUnfreeze, Idle, ReadRows, On
<1>2. WorkerSole(v) /\ ~Sending(w)
  BY <1>1, NothingToSend DEF AllSole, On
<1>3. SoleAt(w)'
  BY <1>1, <1>2, RowsRestSole
<1>4. PICK p, q : /\ p \in {"writing", "finalize"} /\ Goes(v, p, q) /\ (p # "writing" => q = <<>>)
                  /\ \A i \in DOMAIN q : SureUpdate(q[i], w)
  <2>1. CASE Settle(v)
    <3>1. DOMAIN <<>> = {}
      OBVIOUS
    <3> QED
      BY <2>1, <3>1 DEF Settle
  <2>2. CASE FailAndUnfreeze(v)
    <3>1. SureUpdate(SetOrder([status |-> "failed"]), w) /\ SureUpdate(FailTask, w)
      BY <1>1, <1>2, <2>2, SureUpdates DEF WorkerSole, On, FailAndUnfreeze
    <3>2. Goes(v, "writing", <<SetOrder([status |-> "failed"]), FailTask>>)
      BY <2>2 DEF FailAndUnfreeze, Writes
    <3>3. \A a, b : \A i \in DOMAIN <<a, b>> : <<a, b>>[i] = a \/ <<a, b>>[i] = b
      OBVIOUS
    <3> QED
      BY <3>1, <3>2, <3>3
  <2> QED
    BY <2>1, <2>2
<1>5. SureStays(w)
  BY <1>1 DEF SureStays, AllFailed
<1> QED
  BY <1>1, <1>3, <1>4, <1>5, SureRests, GoesOnSole DEF WSole

LEMMA FinalizeSole ==
  ASSUME WellTyped, AllSole, Steady, NEW v \in Workers, NEW w, worker[v].w = w, Finalize(v)
  PROVE  WSole(v, w)
<1>1. /\ On(v, w) /\ w \in Orders /\ worker[v].pc \in ReadRows /\ worker[v].pc = "finalize"
      /\ Goes(v, "writing", <<>>) /\ UNCHANGED <<creator, lock, admin, chain>>
      /\ admin[w] = None /\ order' = [order EXCEPT ![w].status = "completed"]
      /\ task' = [task EXCEPT ![w].state = "done"]
  BY AtWork DEF Finalize, Writes, Idle, ReadRows, On, Fault, Steady
<1>2. /\ SoleAt(w) /\ Shapes /\ task[w] \in TaskRow /\ order[w] \in OrderRow /\ task[w] # None
      /\ order[w] # None
  BY <1>1, AtWork DEF AllSole, RowsAt, On
<1>3. /\ task'[w] = [task[w] EXCEPT !.state = "done"]
      /\ order'[w] = [order[w] EXCEPT !.status = "completed"]
  BY <1>1, <1>2 DEF Shapes
<1>4. task'[w].mode = Mode(w) /\ task'[w].state = "done" /\ order'[w].status = "completed"
  BY <1>2, <1>3 DEF TaskRow, OrderRow, SoleAt
<1>5. order'[w] # None
  BY <1>1, <1>2, FinalizeTypes DEF Moves, KeepsAt, Grows
<1>6. Sure(w, "done", task'[w].txHash)
  BY DEF Sure
<1>7. SoleAt(w)'
  BY <1>1, <1>2, <1>4, <1>5, <1>6 DEF SoleAt, Sure, BySystem, Mode
<1>8. PICK q : q = <<>> /\ Goes(v, "writing", q) /\ DOMAIN q = {}
  BY <1>1
<1> QED
  BY <1>1, <1>7, <1>8, GoesOnSole DEF WSole

LEMMA TailSole ==
  ASSUME NEW w, NEW q, Updates(q, w), q # <<>>, \A i \in DOMAIN q : SureUpdate(q[i], w)
  PROVE  /\ SureUpdate(Head(q), w) /\ \A i \in DOMAIN Tail(q) : SureUpdate(Tail(q)[i], w)
         /\ (\E i \in DOMAIN q : Confirms(q[i])) =>
              Confirms(Head(q)) \/ \E i \in DOMAIN Tail(q) : Confirms(Tail(q)[i])
<1>1. ASSUME NEW a, q = <<a>>
      PROVE  Head(q) = a /\ Tail(q) = <<>> /\ DOMAIN q = {1} /\ q[1] = a /\ DOMAIN Tail(q) = {}
  BY <1>1
<1>2. ASSUME NEW a, NEW b, q = <<a, b>>
      PROVE  /\ Head(q) = a /\ Tail(q) = <<b>> /\ DOMAIN q = {1, 2} /\ q[1] = a /\ q[2] = b
             /\ DOMAIN Tail(q) = {1} /\ Tail(q)[1] = b
  BY <1>2
<1> QED
  BY <1>1, <1>2 DEF Updates

LEMMA WriteSole ==
  ASSUME WellTyped, AllSole, NEW v \in Workers, NEW w, worker[v].w = w, Write(v)
  PROVE  WSole(v, w)
<1>1. /\ On(v, w) /\ w \in Orders /\ worker[v].pc = "writing" /\ worker[v].todo # <<>>
      /\ UNCHANGED <<creator, lock, admin, chain>>
  BY AtWork DEF Write, Idle, On
<1>2. PICK t, o, u, q : /\ t = worker[v].task /\ o = worker[v].order
                        /\ u = Head(worker[v].todo) /\ q = Tail(worker[v].todo)
  OBVIOUS
<1>3. /\ SoleAt(w) /\ Shapes /\ task[w] \in TaskRow /\ order[w] \in OrderRow /\ task[w] # None
      /\ order[w] # None /\ WorkerSole(v) /\ WorkerAt(v) /\ order[w].txHash \in Hashes(w)
      /\ Hashes(w) \subseteq Nat
  BY <1>1, AtWork DEF AllSole, RowsAt, On
<1>4. /\ worker[v] = [pc |-> worker[v].pc, w |-> w, task |-> t, order |-> o, todo |-> worker[v].todo]
      /\ Updates(worker[v].todo, w) /\ t.mode = Mode(w) /\ lock[w] = v
      /\ \A i \in DOMAIN worker[v].todo : SureUpdate(worker[v].todo[i], w)
  BY <1>1, <1>2, <1>3 DEF WorkerAt, WorkerSole, On
<1>5. /\ IsUpdate(u, w) /\ SureUpdate(u, w) /\ \A i \in DOMAIN q : SureUpdate(q[i], w)
      /\ Sending(w) => Confirms(u) \/ \E i \in DOMAIN q : Confirms(q[i])
  <2>1. Sending(w) => \E i \in DOMAIN worker[v].todo : Confirms(worker[v].todo[i])
    BY <1>1, WorkerAlone
  <2> QED
    BY <1>1, <1>2, <1>4, <2>1, TailSole, UpdateQueues
<1>6. worker'[v] = [pc |-> "writing", w |-> w, task |-> t, order |-> o, todo |-> q]
  <2>1. worker'[v] = [worker[v] EXCEPT !.todo = q]
    BY <1>2, <1>3 DEF Write, Shapes
  <2> QED
    BY <1>1, <1>4, <2>1
<1>7. SureStays(w) /\ \A st, h : Sure(w, st, h)' <=> Sure(w, st, h)
  BY <1>1 DEF SureStays, AllFailed, Sure
<1>8. WorkerSole(v)'
  BY <1>1, <1>4, <1>5, <1>6, <1>7, SureRests, NewWorkerSole
<1>9. (\E i \in DOMAIN q : Confirms(q[i])) => Sending(w)'
  <2>1. worker'[v].todo = q /\ worker'[v].w = w /\ worker'[v].pc = "writing"
    BY <1>6
  <2>2. worker'[v] # Idle
    BY <2>1 DEF Idle
  <2> QED
    BY <2>1, <2>2 DEF Sending, On, Confirms
<1>10. \/ /\ u.table = "order" /\ task'[w] = task[w]
          /\ order'[w] = Updated(order[w], u.fields)
       \/ u.table = "task" /\ order'[w] = order[w] /\ task'[w] = Updated(task[w], u.fields)
  BY <1>1, <1>2, <1>3 DEF Write, Shapes
<1>11. order'[w] # None /\ order[w].status # "pending" /\ order'[w].status # "pending"
       /\ admin'[w] = admin[w] /\ (admin[w] = None \/ order'[w] = order[w])
  <2>1. order'[w] # None
    BY <1>1, <1>3, WriteTypes DEF Moves, KeepsAt, Grows
  <2>2. order[w].status # "pending"
    BY <1>3 DEF SoleAt
  <2>3. order'[w].status \in {order[w].status, "failed"}
    BY <1>1, <1>3, <1>5, <1>10, UpdatedOrder DEF IsUpdate
  <2>4. admin[w] = None \/ order'[w] = order[w]
    BY <1>1, <1>2, <1>3 DEF Write, Shapes
  <2> QED
    BY <1>1, <2>1, <2>2, <2>3, <2>4
<1>12. task'[w].mode = Mode(w)
       /\ (BySystem(w) => /\ task'[w].state # "awaiting_manual_txhash"
                          /\ Sending(w)' \/ Sure(w, task'[w].state, task'[w].txHash))
  <2>1. CASE u.table = "order" /\ task'[w] = task[w]
    <3>1. Sending(w) => Sending(w)'
      BY <1>5, <1>9, <2>1 DEF Confirms
    <3> QED
      BY <1>3, <2>1, <3>1 DEF SoleAt
  <2>2. CASE u.table = "task" /\ task'[w] = Updated(task[w], u.fields)
    <3>1. PICK f, r, row : f = u.fields /\ r = task[w] /\ row = Updated(r, f)
      OBVIOUS
    <3>2. /\ r \in TaskRow /\ "state" \in DOMAIN f /\ ("mode" \in DOMAIN f => f["mode"] = Mode(w))
          /\ BySystem(w) => Sure(w, f["state"], IF "txHash" \in DOMAIN f THEN f["txHash"] ELSE NoHash)
          /\ r.mode = Mode(w)
      BY <1>3, <1>5, <2>2, <3>1 DEF SureUpdate, SoleAt
    <3>3. /\ row.mode = IF "mode" \in DOMAIN f THEN f["mode"] ELSE r.mode
          /\ row.state = f["state"]
          /\ row.txHash = IF "txHash" \in DOMAIN f THEN f["txHash"] ELSE r.txHash
      BY <3>1, <3>2 DEF Updated, TaskRow
    <3>4. BySystem(w) => Sure(w, row.state, row.txHash)
      BY <3>2, <3>3 DEF Sure
    <3>5. BySystem(w) => row.state # "awaiting_manual_txhash"
      BY <3>4 DEF Sure
    <3> QED
      BY <2>2, <3>1, <3>2, <3>3, <3>4, <3>5
  <2> QED
    BY <1>10, <2>1, <2>2
<1>13. SoleAt(w)'
  BY <1>1, <1>3, <1>7, <1>11, <1>12 DEF SoleAt, BySystem, Mode
<1>14. Stays(v, w)
  BY <1>1, <1>6 DEF Stays, On
<1> QED
  BY <1>1, <1>8, <1>13, <1>14, WorkerAlone DEF WSole

LEMMA WorkerStepSole ==
  ASSUME WellTyped, AllSole, Steady, NEW v \in Workers, WorkerStep(v)
  PROVE  \E w \in Orders : Moves(v, w) /\ WSole(v, w)
<1>1. CASE \E w \in Orders : Take(v, w)
  BY <1>1, TakeTypes, TakeSole
<1>2. PICK w : w = worker[v].w
  OBVIOUS
<1>3. CASE ReadTask(v) \/ ReadOrder(v)
  BY <1>2, <1>3, ReadTaskTypes, ReadOrderTypes, ReadSole
<1>4. CASE Broadcast(v)
  BY <1>2, <1>4, BroadcastTypes, BroadcastSole
<1>5. CASE CheckStatus(v)
  BY <1>2, <1>5, CheckStatusTypes, CheckStatusSole
<1>6. CASE Settle(v) \/ FailAndUnfreeze(v)
  BY <1>2, <1>6, SettleTypes, SettleSole
<1>7. CASE Finalize(v)
  BY <1>2, <1>7, FinalizeTypes, FinalizeSole
<1>8. CASE Write(v)
  BY <1>2, <1>8, WriteTypes, WriteSole
<1>9. CASE Release(v) \/ Crash(v)
  BY <1>2, <1>9, PutDownTypes, PutDownSole
<1>10. CASE LoseWrites(v)
  BY <1>2, <1>10, LoseWritesTypes, PutDownSole
<1> QED
  BY <1>1, <1>3, <1>4, <1>5, <1>6, <1>7, <1>8, <1>9, <1>10 DEF WorkerStep, Handler

LEMMA InitSole == Init => AllSole
<1> SUFFICES ASSUME Init PROVE AllSole
  OBVIOUS
<1>1. \A w \in Orders : SoleAt(w)
  BY DEF Init, SoleAt
<1>2. \A v \in Workers : WorkerSole(v)
  BY DEF Init, WorkerSole
<1> QED
  BY <1>1, <1>2 DEF AllSole

LEMMA StutterSole == AllSole /\ UNCHANGED vars => AllSole'
<1> SUFFICES ASSUME AllSole, UNCHANGED vars PROVE AllSole'
  OBVIOUS
<1> USE DEF vars, ledgerVars, orderVars
<1>1. \A x, st, h : Sure(x, st, h)' <=> Sure(x, st, h)
  BY DEF Sure, AllFailed
<1>2. \A x : Sending(x)' <=> Sending(x)
  BY DEF Sending, On
<1>3. \A x \in Orders : SoleAt(x)'
  BY <1>1, <1>2 DEF AllSole, SoleAt
<1>4. \A v \in Workers : WorkerSole(v)'
  BY DEF AllSole, WorkerSole, SureUpdate, Sure, AllFailed
<1> QED
  BY <1>3, <1>4 DEF AllSole

LEMMA NextSole == WellTyped /\ AllSole /\ Steady /\ [Next]_vars => AllSole'
<1> SUFFICES ASSUME WellTyped, AllSole, Steady, [Next]_vars PROVE AllSole'
  OBVIOUS
<1>1. CASE UNCHANGED vars
  BY <1>1, StutterSole
<1>2. ASSUME NEW v \in Workers, WorkerStep(v) PROVE AllSole'
  BY <1>2, WorkerStepSole, WorkerSoleKeeps
<1>3. ASSUME NEW w \in Orders,
             CreateStep(w) \/ AdminStep(w) \/ ExpireLock(w) \/ ManualTransfer(w) \/ ChainDecides(w)
      PROVE  AllSole'
  <2>1. KeepsAt(w)
    BY <1>3, CreateStepTypes, AdminStepTypes, ChainStepTypes
  <2>2. OrderSole(w)
    BY <1>3, CreateStepSole, AdminStepSole, ChainStepSole
  <2> QED
    BY <2>1, <2>2, OrderSoleKeeps
<1> QED
  BY <1>1, <1>2, <1>3 DEF Next

LEMMA SpecSole == Steady => (Spec => [](WellTyped /\ AllSole))
<1> SUFFICES ASSUME Steady PROVE Spec => [](WellTyped /\ AllSole)
  OBVIOUS
<1>1. Init => WellTyped /\ AllSole
  BY InitWellTyped, InitSole
<1>2. (WellTyped /\ AllSole) /\ [Next]_vars => (WellTyped /\ AllSole)'
  BY NextWellTyped, NextSole
<1> QED
  BY <1>1, <1>2, PTL DEF Spec

\* Workers, operators, the chain and lost answers of the ledger never make an
\* order paid for twice; a worker that dies or outlives its lease may, and so
\* may a lost hash or a lost write of the task.
THEOREM PaidOnlyOnce ==
  FaultKinds \cap {"crash", "db_write", "lost_hash", "lease_lapse"} = {} => (Spec => []OneLiveTransfer)
<1> SUFFICES ASSUME Steady PROVE Spec => []OneLiveTransfer
  BY DEF Steady
<1>1. WellTyped /\ AllSole => OneLiveTransfer
  <2> SUFFICES ASSUME WellTyped, AllSole, NEW w \in Orders
               PROVE  Cardinality({i \in DOMAIN chain[w] : chain[w][i] # "failed"}) <= 1
    BY DEF OneLiveTransfer
  <2> DEFINE live == {i \in DOMAIN chain[w] : chain[w][i] # "failed"}
  <2>1. chain[w] \in Seq(Fates) /\ \A i \in DOMAIN chain[w] : i < Len(chain[w]) => chain[w][i] = "failed"
    BY DEF WellTyped, AllRows, RowsAt, AllSole, SoleAt
  <2>2. live \subseteq {Len(chain[w])}
    BY <2>1
  <2>3. IsFiniteSet({Len(chain[w])}) /\ Cardinality({Len(chain[w])}) = 1
    BY FS_Singleton
  <2>4. Cardinality(live) <= Cardinality({Len(chain[w])})
    BY <2>2, <2>3, FS_Subset
  <2> QED
    BY <2>3, <2>4
<1> QED
  BY <1>1, SpecSole, PTL

-------------------------------------------------------------------------------
(* An order in processing has its money held, unless a write, an answer, a    *)
(* transaction or a service is lost.                                          *)

Solid == FaultKinds \cap {"crash", "db_write", "lost_answer", "rollback", "commit_unknown"} = {}

\* A worker has given the money back, or deducted it, and is about to close the order.
FailingBy(v, w) ==
  On(v, w) /\ worker[v].pc = "writing" /\ \E i \in DOMAIN worker[v].todo : FailsOrder(worker[v].todo[i])
FinalizingBy(v, w) == On(v, w) /\ worker[v].pc = "finalize"

Failing(w)    == \E v \in Workers : FailingBy(v, w)
Finalizing(w) == \E v \in Workers : FinalizingBy(v, w)

Deciding(w, ops) == admin[w] # None /\ admin[w].op \in ops

HeldAt(w) ==
  /\ creator[w] # "undo"
  /\ creator[w] \in {"new", "insert"} => order[w] = None
  /\ creator[w] = "insert" \/ order[w] # None => Has("freeze", w)
  /\ order[w] = None => ~Has("unfreeze", w) /\ ~Has("settle", w)
  /\ Deciding(w, {"approve"}) => order[w].status = "pending"
  /\ order[w] # None /\ order[w].status \in {"pending", "processing"} =>
       /\ Has("unfreeze", w) => Deciding(w, {"cancel", "reject", "fail"}) \/ Failing(w)
       /\ Has("settle", w) => Deciding(w, {"complete"}) \/ Finalizing(w)

AllHeld == \A w \in Orders : HeldAt(w)

LEMMA HandlerStays ==
  ASSUME WellTyped, NEW v \in Workers, NEW w, worker[v].w = w, Handler(v)
  PROVE  On(v, w) /\ w \in Orders /\ Stays(v, w)
<1>1. worker[v] # Idle
  BY DEF Handler, ReadTask, ReadOrder, Broadcast, CheckStatus, Settle, Finalize, FailAndUnfreeze,
         Write, Release, Idle
<1>2. On(v, w) /\ w \in Orders /\ WorkerAt(v) /\ worker = [x \in Workers |-> worker[x]]
  BY <1>1, AtWork DEF On, Shapes
<1>3. PICK p, t, o, q : worker[v] = [pc |-> p, w |-> w, task |-> t, order |-> o, todo |-> q]
  BY <1>1, <1>2 DEF WorkerAt
<1>4. CASE ReadTask(v)
  <2>1. worker'[v] = [[worker[v] EXCEPT !.pc = "loaded"] EXCEPT !.task = task[w]]
    BY <1>2, <1>4 DEF ReadTask
  <2>2. worker'[v].w = w
    BY <1>3, <2>1
  <2> QED
    BY <1>2, <2>2 DEF Stays
<1>5. CASE ReadOrder(v)
  <2>1. PICK r, y, z : r = order[w] /\ y = Start(w, t, r)[1] /\ z = Start(w, t, r)[2]
    OBVIOUS
  <2>2. worker[v].task = t /\ worker[v].w = w
    BY <1>3
  <2>3. worker'[v].w = w
    BY <1>2, <1>3, <1>5, <2>1, <2>2 DEF ReadOrder
  <2> QED
    BY <1>2, <2>3 DEF Stays
<1>6. CASE Write(v)
  <2>1. PICK z : worker' = [worker EXCEPT ![v].todo = z]
    BY <1>6 DEF Write
  <2>2. worker'[v].w = w
    BY <1>2, <1>3, <2>1
  <2> QED
    BY <1>2, <2>2 DEF Stays
<1>7. CASE Release(v)
  BY <1>2, <1>7 DEF Release, Stays
<1>8. CASE \E y, z : Goes(v, y, z)
  BY <1>2, <1>8, GoesTo DEF Stays
<1>9. CASE Broadcast(v) \/ CheckStatus(v) \/ Settle(v) \/ Finalize(v) \/ FailAndUnfreeze(v)
  BY <1>8, <1>9 DEF Broadcast, CheckStatus, Settle, Finalize, FailAndUnfreeze, Writes
<1> QED
  BY <1>2, <1>4, <1>5, <1>6, <1>7, <1>9 DEF Handler

LEMMA HeldRests ==
  ASSUME NEW w, HeldAt(w), UNCHANGED <<creator[w], order[w], admin[w]>>,
         \A op \in Operations : Has(op, w)' = Has(op, w),
         Failing(w) => Failing(w)', Finalizing(w) => Finalizing(w)'
  PROVE  HeldAt(w)'
BY DEF HeldAt, Deciding, Operations

LEMMA OthersGoOn ==
  ASSUME NEW v, OthersRest(v), NEW w
  PROVE  /\ FailingBy(v, w)' \/ ~FailingBy(v, w) => (Failing(w) => Failing(w)')
         /\ FinalizingBy(v, w)' \/ ~FinalizingBy(v, w) => (Finalizing(w) => Finalizing(w)')
<1>1. \A y \in Workers : y # v => FailingBy(y, w)' = FailingBy(y, w) /\ FinalizingBy(y, w)' = FinalizingBy(y, w)
  BY DEF OthersRest, FailingBy, FinalizingBy, On
<1> QED
  BY <1>1 DEF Failing, Finalizing

LEMMA HeldElsewhere ==
  ASSUME AllHeld, NEW w \in Orders, Elsewhere(w), HeldAt(w)', \A v \in Workers : Stays(v, w)
  PROVE  AllHeld'
<1> SUFFICES ASSUME NEW x \in Orders, x # w PROVE HeldAt(x)'
  BY DEF AllHeld
<1>1. \A v \in Workers : worker'[v] = worker[v] \/ (~On(v, x) /\ ~On(v, x)')
  BY DEF Stays, On
<1>2. (Failing(x) => Failing(x)') /\ (Finalizing(x) => Finalizing(x)')
  BY <1>1 DEF Failing, Finalizing, FailingBy, FinalizingBy, On
<1>3. HeldAt(x) /\ UNCHANGED <<creator[x], order[x], admin[x]>> /\ \A op \in Operations : Has(op, x)' = Has(op, x)
  BY DEF AllHeld, Elsewhere
<1> QED
  BY <1>2, <1>3, HeldRests

\* The steps that neither move money nor close an order.
LEMMA QuietHeld ==
  ASSUME WellTyped, AllHeld, NEW v \in Workers, NEW w \in Orders, Moves(v, w),
         UNCHANGED <<ledgerVars, creator, order, admin>>,
         On(v, w) => worker[v].pc # "finalize" /\ (worker[v].pc = "writing" => worker[v].todo = <<>>)
  PROVE  HeldAt(w)'
<1>1. HeldAt(w) /\ OthersRest(v)
  BY DEF AllHeld, Moves
<1>2. ~FailingBy(v, w) /\ ~FinalizingBy(v, w)
  <2>1. DOMAIN <<>> = {}
    OBVIOUS
  <2> QED
    BY <2>1 DEF FailingBy, FinalizingBy
<1> QED
  BY <1>1, <1>2, OthersGoOn, BooksRest, HeldRests

LEMMA UnfreezeFails ==
  ASSUME WellTyped, NEW v \in Workers, NEW w, worker[v].w = w, FailAndUnfreeze(v)
  PROVE  Failing(w)'
<1>1. On(v, w)
  BY HandlerStays DEF Handler
<1>2. PICK a, b : a = SetOrder([status |-> "failed"]) /\ b = FailTask
  OBVIOUS
<1>3. worker'[v].pc = "writing" /\ worker'[v].w = w /\ worker'[v].todo = <<a, b>>
  BY <1>1, <1>2, GoesTo DEF FailAndUnfreeze, Writes
<1>4. FailsOrder(a)
  BY <1>2 DEF FailsOrder, SetOrder
<1>5. 1 \in DOMAIN <<a, b>> /\ <<a, b>>[1] = a
  OBVIOUS
<1>6. FailsOrder(worker'[v].todo[1]) /\ 1 \in DOMAIN worker'[v].todo
  BY <1>3, <1>4, <1>5
<1>7. worker'[v] # Idle
  BY <1>3 DEF Idle
<1> QED
  BY <1>3, <1>6, <1>7 DEF Failing, FailingBy, On, FailsOrder

LEMMA MoneyHeld ==
  ASSUME WellTyped, AllHeld, Solid, NEW v \in Workers, NEW w, worker[v].w = w,
         Settle(v) \/ FailAndUnfreeze(v)
  PROVE  HeldAt(w)'
<1>1. /\ On(v, w) /\ w \in Orders /\ Moves(v, w) /\ HeldAt(w) /\ BookTyped
      /\ order[w] # None /\ UNCHANGED <<creator, order, admin>>
  <2>1. On(v, w) /\ w \in Orders
    BY HandlerStays DEF Handler
  <2>2. task[w] # None /\ RowsAt(w)
    BY <2>1, AtWork DEF On
  <2> QED
    BY <2>1, <2>2, SettleTypes DEF RowsAt, AllHeld, WellTyped, Shapes, Settle, FailAndUnfreeze
<1>2. OthersRest(v) /\ ~FailingBy(v, w) /\ ~FinalizingBy(v, w)
  BY <1>1 DEF Moves, FailingBy, FinalizingBy, Settle, FailAndUnfreeze
<1>3. (Failing(w) => Failing(w)') /\ (Finalizing(w) => Finalizing(w)')
  BY <1>2, OthersGoOn
<1>4. CASE Settle(v)
  <2>1. PICK ok \in BOOLEAN :
          CallEffect("settle", w, ok) /\ Goes(v, IF ok THEN "finalize" ELSE "writing", <<>>)
    BY <1>1, <1>4, CallHasEffect DEF Settle, Operations
  <2>2. /\ Has("freeze", w)' = Has("freeze", w) /\ Has("unfreeze", w)' = Has("unfreeze", w)
        /\ ~ok => Has("settle", w)' = Has("settle", w)
    BY <1>1, <2>1 DEF CallEffect, Operations, Solid
  <2>3. ok => Finalizing(w)'
    <3>1. ok => worker'[v].pc = "finalize" /\ worker'[v].w = w
      BY <1>1, <2>1, GoesTo
    <3> QED
      BY <3>1 DEF Finalizing, FinalizingBy, On, Idle
  <2> QED
    BY <1>1, <1>3, <2>2, <2>3 DEF HeldAt, Deciding
<1>5. CASE FailAndUnfreeze(v)
  <2>1. Has("freeze", w)' = Has("freeze", w) /\ Has("settle", w)' = Has("settle", w)
    <3>1. CASE UNCHANGED ledgerVars
      BY <3>1, BooksRest
    <3>2. ASSUME NEW ok \in BOOLEAN, Call("unfreeze", w, ok)
          PROVE  Has("freeze", w)' = Has("freeze", w) /\ Has("settle", w)' = Has("settle", w)
      BY <1>1, <3>2, CallHasEffect DEF CallEffect, Operations
    <3> QED
      BY <1>5, <3>1, <3>2 DEF FailAndUnfreeze
  <2>2. Failing(w)'
    BY <1>5, UnfreezeFails
  <2> QED
    BY <1>1, <1>3, <2>1, <2>2 DEF HeldAt, Deciding
<1> QED
  BY <1>4, <1>5

LEMMA FinalizeHeld ==
  ASSUME WellTyped, AllHeld, Solid, NEW v \in Workers, NEW w, worker[v].w = w, Finalize(v)
  PROVE  HeldAt(w)'
<1>1. /\ w \in Orders /\ Moves(v, w) /\ UNCHANGED <<ledgerVars, creator, admin>> /\ admin[w] = None
      /\ order' = [order EXCEPT ![w].status = "completed"]
  BY FinalizeTypes DEF Finalize, Fault, Solid
<1>2. HeldAt(w) /\ RowsAt(w) /\ Shapes /\ On(v, w) /\ task[w] # None
  BY <1>1, HandlerStays, AtWork DEF Handler, AllHeld, On
<1>3. order[w] # None /\ order[w] \in OrderRow
  BY <1>2 DEF RowsAt
<1>4. order'[w] = [order[w] EXCEPT !.status = "completed"]
  BY <1>1, <1>2 DEF Shapes
<1>5. order'[w].status = "completed"
  BY <1>3, <1>4 DEF OrderRow
<1>6. (order[w] # None)'
  BY <1>1, <1>3 DEF Moves, KeepsAt, Grows
<1>7. \A op \in Operations : Has(op, w)' = Has(op, w)
  BY <1>1, BooksRest
<1> QED
  BY <1>1, <1>2, <1>3, <1>5, <1>6, <1>7 DEF HeldAt, Deciding, Operations

\* An update fails the order or leaves it, and what is still to do, as it is.
LEMMA WriteEffect ==
  ASSUME WellTyped, NEW v \in Workers, NEW w, worker[v].w = w, Write(v)
  PROVE  /\ order[w] # None /\ (order[w] # None)'
         /\ \/ order'[w].status = "failed" /\ admin[w] = None /\ FailingBy(v, w)
            \/ /\ order'[w].status = order[w].status
               /\ (Failing(w) => Failing(w)') /\ (Finalizing(w) => Finalizing(w)')
<1>1. /\ w \in Orders /\ Moves(v, w) /\ UNCHANGED <<ledgerVars, creator, admin>>
      /\ worker[v].pc = "writing" /\ worker[v].todo # <<>>
  BY WriteTypes DEF Write
<1>2. RowsAt(w) /\ Shapes /\ On(v, w) /\ WorkerAt(v) /\ task[w] # None
  BY <1>1, HandlerStays, AtWork DEF Handler, On
<1>3. PICK u, q : u = Head(worker[v].todo) /\ q = Tail(worker[v].todo)
  OBVIOUS
<1>4. Updates(worker[v].todo, w) /\ IsUpdate(u, w)
  BY <1>1, <1>2, <1>3, UpdateQueues DEF WorkerAt, On
<1>5. order[w] # None /\ order[w] \in OrderRow /\ order[w].txHash \in Hashes(w) /\ Hashes(w) \subseteq Nat
  BY <1>2, HashType DEF RowsAt
<1>6. /\ order'[w] = order[w] \/ (u.table = "order" /\ admin[w] = None /\ order'[w] = Updated(order[w], u.fields))
      /\ u.table = "order" => order'[w] = Updated(order[w], u.fields)
  BY <1>1, <1>2, <1>3 DEF Write, Shapes
<1>7. (order[w] # None)'
  BY <1>1, <1>5 DEF Moves, KeepsAt, Grows
<1>8. CASE FailsOrder(u)
  <2>1. PICK f, r : f = u.fields /\ r = order[w]
    OBVIOUS
  <2>2. u.table = "order" /\ OrderFields(f, w) /\ "status" \in DOMAIN f /\ f["status"] = "failed"
    BY <1>4, <1>8, <2>1 DEF FailsOrder, IsUpdate, OrderFields
  <2>3. order'[w] = Updated(r, f) /\ r \in OrderRow
    BY <1>5, <1>6, <2>1, <2>2
  <2>4. order'[w].status = "failed"
    BY <2>2, <2>3 DEF Updated, OrderRow
  <2>5. admin[w] = None
    BY <1>2, <1>3, <2>2 DEF Write
  <2>6. FailingBy(v, w)
    <3>1. 1 \in DOMAIN worker[v].todo /\ worker[v].todo[1] = u
      BY <1>1, <1>3, <1>4 DEF Updates
    <3> QED
      BY <1>1, <1>2, <1>8, <3>1 DEF FailingBy
  <2> QED
    BY <1>5, <1>7, <2>4, <2>5, <2>6
<1>9. CASE ~FailsOrder(u)
  <2>1. order'[w].status = order[w].status
    <3>1. CASE u.table = "order"
      <4>1. "status" \notin DOMAIN u.fields
        BY <1>9, <3>1 DEF FailsOrder
      <4> QED
        BY <1>5, <1>6, <3>1, <4>1 DEF Updated, OrderRow
    <3> QED
      BY <1>6, <3>1
  <2>2. FailingBy(v, w)' \/ ~FailingBy(v, w)
    <3>1. (\E i \in DOMAIN worker[v].todo : FailsOrder(worker[v].todo[i])) =>
            \E i \in DOMAIN q : FailsOrder(q[i])
      <4>1. ASSUME NEW a, worker[v].todo = <<a>>
            PROVE  (\E i \in DOMAIN worker[v].todo : FailsOrder(worker[v].todo[i])) => FailsOrder(u)
        BY <1>3, <4>1
      <4>2. ASSUME NEW a, NEW b, worker[v].todo = <<a, b>>
            PROVE  (\E i \in DOMAIN worker[v].todo : FailsOrder(worker[v].todo[i])) =>
                     FailsOrder(u) \/ \E i \in DOMAIN q : FailsOrder(q[i])
        <5>1. u = a /\ q = <<b>> /\ DOMAIN q = {1} /\ q[1] = b
          BY <1>3, <4>2
        <5>2. \A i \in DOMAIN worker[v].todo : worker[v].todo[i] = a \/ worker[v].todo[i] = b
          BY <4>2
        <5> QED
          BY <5>1, <5>2
      <4> QED
        BY <1>1, <1>4, <1>9, <4>1, <4>2 DEF Updates
    <3>2. worker'[v].pc = "writing" /\ worker'[v].w = w /\ worker'[v].todo = q
      <4>1. PICK p, t, o : worker[v] = [pc |-> p, w |-> w, task |-> t, order |-> o, todo |-> worker[v].todo]
                           /\ p = "writing"
        BY <1>1, <1>2 DEF WorkerAt, On
      <4>2. worker'[v] = [worker[v] EXCEPT !.todo = q]
        BY <1>2, <1>3 DEF Write, Shapes
      <4> QED
        BY <4>1, <4>2
    <3>3. worker'[v] # Idle
      BY <3>2 DEF Idle
    <3> QED
      BY <3>1, <3>2, <3>3 DEF FailingBy, On, FailsOrder
  <2>3. (Failing(w) => Failing(w)') /\ (Finalizing(w) => Finalizing(w)')
    <3>1. ~FinalizingBy(v, w) /\ OthersRest(v)
      BY <1>1 DEF FinalizingBy, Moves
    <3> QED
      BY <2>2, <3>1, OthersGoOn
  <2> QED
    BY <1>5, <1>7, <2>1, <2>3
<1> QED
  BY <1>8, <1>9

LEMMA WriteHeld ==
  ASSUME WellTyped, AllHeld, NEW v \in Workers, NEW w, worker[v].w = w, Write(v)
  PROVE  HeldAt(w)'
<1>1. w \in Orders /\ UNCHANGED <<ledgerVars, creator, admin>>
  BY WriteTypes DEF Write
<1>2. HeldAt(w) /\ \A op \in Operations : Has(op, w)' = Has(op, w)
  BY <1>1, BooksRest DEF AllHeld
<1> QED
  BY <1>1, <1>2, WriteEffect DEF HeldAt, Deciding, Operations

LEMMA WorkerStepHeld ==
  ASSUME WellTyped, AllHeld, Solid, NEW v \in Workers, WorkerStep(v)
  PROVE  AllHeld'
<1>1. SUFFICES \E w \in Orders : Moves(v, w) /\ Stays(v, w) /\ HeldAt(w)'
  <2>1. ASSUME NEW w \in Orders, Moves(v, w), Stays(v, w), HeldAt(w)' PROVE AllHeld'
    BY <2>1, HeldElsewhere DEF Moves, KeepsAt, OthersRest, Stays
  <2> QED
    BY <2>1
<1>2. ASSUME NEW w \in Orders, Take(v, w)
      PROVE  Moves(v, w) /\ Stays(v, w) /\ HeldAt(w)'
  <2>1. Moves(v, w) /\ UNCHANGED <<ledgerVars, creator, order, admin>> /\ worker[v] = Idle
    BY <1>2, TakeTypes DEF Take
  <2>2. worker'[v].w = w
    <3>1. worker'[v] = [pc |-> "locked", w |-> w, task |-> None, order |-> None, todo |-> <<>>]
      BY <1>2 DEF Take, WellTyped, Shapes
    <3> QED
      BY <3>1
  <2> QED
    BY <2>1, <2>2, QuietHeld DEF Stays, On
<1>3. PICK w : w = worker[v].w
  OBVIOUS
<1>4. ASSUME Handler(v) PROVE w \in Orders /\ Stays(v, w) /\ On(v, w)
  BY <1>3, <1>4, HandlerStays
<1>5. CASE ReadTask(v) \/ ReadOrder(v) \/ Broadcast(v) \/ CheckStatus(v) \/ Release(v)
  <2>1. Moves(v, w)
    BY <1>3, <1>5, ReadTaskTypes, ReadOrderTypes, BroadcastTypes, CheckStatusTypes, PutDownTypes
  <2>2. UNCHANGED <<ledgerVars, creator, order, admin>>
        /\ worker[v].pc # "finalize" /\ (worker[v].pc = "writing" => worker[v].todo = <<>>)
    BY <1>5 DEF ReadTask, ReadOrder, Broadcast, CheckStatus, Release
  <2> QED
    BY <1>4, <1>5, <2>1, <2>2, QuietHeld DEF Handler
<1>6. CASE Settle(v) \/ FailAndUnfreeze(v)
  BY <1>3, <1>4, <1>6, SettleTypes, MoneyHeld DEF Handler
<1>7. CASE Finalize(v)
  BY <1>3, <1>4, <1>7, FinalizeTypes, FinalizeHeld DEF Handler
<1>8. CASE Write(v)
  BY <1>3, <1>4, <1>8, WriteTypes, WriteHeld DEF Handler
<1>9. ~LoseWrites(v) /\ ~Crash(v)
  BY DEF LoseWrites, Crash, Fault, Solid
<1> QED
  BY <1>2, <1>5, <1>6, <1>7, <1>8, <1>9 DEF WorkerStep, Handler

LEMMA CreateStepHeld ==
  ASSUME WellTyped, AllHeld, Solid, NEW w \in Orders, CreateStep(w)
  PROVE  HeldAt(w)'
<1>1. Shapes /\ RowsAt(w) /\ HeldAt(w) /\ BookTyped
  BY DEF WellTyped, AllRows, AllHeld, Shapes
<1>2. UNCHANGED <<admin, worker>>
  BY DEF CreateStep, CreateFreeze, CreateInsert, CreateUndo, CreateCrash
<1>3. ~CreateUndo(w) /\ ~CreateCrash(w)
  BY <1>1 DEF CreateUndo, CreateCrash, HeldAt, Fault, Solid
<1>4. CASE CreateFreeze(w)
  <2>1. PICK ok \in BOOLEAN :
          CallEffect("freeze", w, ok) /\ creator' = [creator EXCEPT ![w] = IF ok THEN "insert" ELSE "done"]
    BY <1>1, <1>4, CallHasEffect DEF CreateFreeze, Operations
  <2>2. creator'[w] = (IF ok THEN "insert" ELSE "done") /\ UNCHANGED order /\ order[w] = None /\ admin[w] = None
    BY <1>1, <1>4, <2>1 DEF CreateFreeze, Shapes, HeldAt, RowsAt
  <2>3. /\ Has("unfreeze", w)' = Has("unfreeze", w) /\ Has("settle", w)' = Has("settle", w)
        /\ ok => Has("freeze", w)'
    BY <2>1 DEF CallEffect, Operations
  <2> QED
    BY <1>1, <1>2, <2>2, <2>3 DEF HeldAt, Deciding
<1>5. CASE CreateInsert(w)
  <2>1. /\ UNCHANGED ledgerVars /\ creator[w] = "insert" /\ creator' = [creator EXCEPT ![w] = "done"]
        /\ InsertOrder(w)
    BY <1>5 DEF CreateInsert, Fault, Solid
  <2>2. creator'[w] = "done" /\ \A op \in Operations : Has(op, w)' = Has(op, w)
    BY <1>1, <2>1, BooksRest DEF Shapes
  <2>3. ~Has("unfreeze", w)' /\ ~Has("settle", w)' /\ Has("freeze", w)' /\ admin'[w] = None
    BY <1>1, <1>2, <2>1, <2>2 DEF HeldAt, RowsAt, Operations
  <2> QED
    BY <2>2, <2>3 DEF HeldAt, Deciding
<1> QED
  BY <1>3, <1>4, <1>5 DEF CreateStep

LEMMA AdminStepHeld ==
  ASSUME WellTyped, AllHeld, Solid, NEW w \in Orders, AdminStep(w)
  PROVE  HeldAt(w)'
<1>1. Shapes /\ RowsAt(w) /\ HeldAt(w) /\ BookTyped
  BY DEF WellTyped, AllRows, AllHeld, Shapes
<1>2. UNCHANGED <<creator, worker>> /\ (Failing(w)' <=> Failing(w)) /\ (Finalizing(w)' <=> Finalizing(w))
  <2>1. UNCHANGED <<creator, worker>>
    BY DEF AdminStep, AdminCall, AdminCommit, AdminRollback, AdminSetHash
  <2> QED
    BY <2>1 DEF Failing, FailingBy, Finalizing, FinalizingBy, On
<1>3. order[w] # None /\ order[w] \in OrderRow
  BY <1>1 DEF AdminStep, AdminCall, AdminCommit, AdminRollback, AdminSetHash, RowsAt
<1>4. (order[w] # None)'
  BY <1>3, AdminStepTypes DEF KeepsAt, Grows
<1>5. ASSUME NEW op \in AdminOps \cap DOMAIN LedgerCallOf, NEW hash \in Nat, AdminCall(op, w, hash)
      PROVE  HeldAt(w)'
  <2>1. PICK ok \in BOOLEAN :
          /\ \/ Call(LedgerCallOf[op], w, ok)
             \/ LedgerCallOf[op] = "unfreeze" /\ ok /\ UNCHANGED ledgerVars
          /\ admin' = IF ok THEN [admin EXCEPT ![w] = [op |-> op, hash |-> hash]] ELSE admin
    BY <1>5 DEF AdminCall
  <2>2. admin[w] = None /\ UNCHANGED order /\ (op = "approve" => order[w].status = "pending")
        /\ op \in {"approve", "cancel", "reject", "fail", "complete"}
    BY <1>5 DEF AdminCall, Decides, LedgerCallOf
  <2>3. admin'[w] = IF ok THEN [op |-> op, hash |-> hash] ELSE None
    BY <1>1, <2>1, <2>2 DEF Shapes
  <2>4. ok => Deciding(w, {op})'
    <3>1. [op |-> op, hash |-> hash] # None
      <4>1. [op |-> op, hash |-> hash] \in Decision
        BY DEF Decision
      <4> QED
        BY <4>1, NoneAssumption
    <3> QED
      BY <2>3, <3>1 DEF Deciding
  <2>5. /\ Has("freeze", w)' = Has("freeze", w)
        /\ Has("unfreeze", w)' = Has("unfreeze", w) \/ (ok /\ op \in {"cancel", "reject", "fail"})
        /\ Has("settle", w)' = Has("settle", w) \/ (ok /\ op = "complete")
    <3>1. CASE UNCHANGED ledgerVars
      BY <3>1, BooksRest
    <3>2. CASE Call(LedgerCallOf[op], w, ok)
      <4>1. LedgerCallOf[op] \in Operations
        BY DEF LedgerCallOf, Operations
      <4>2. CallEffect(LedgerCallOf[op], w, ok)
        BY <1>1, <3>2, <4>1, CallHasEffect
      <4>3. /\ \A o \in Operations : o # LedgerCallOf[op] => Has(o, w)' = Has(o, w)
            /\ ~ok => Has(LedgerCallOf[op], w)' = Has(LedgerCallOf[op], w)
            /\ Has(LedgerCallOf[op], w) => Has(LedgerCallOf[op], w)'
        BY <4>2 DEF CallEffect, Solid
      <4>4. Has("freeze", w)
        BY <1>1, <1>3 DEF HeldAt
      <4>5. CASE op = "approve"
        BY <4>3, <4>4, <4>5 DEF LedgerCallOf, Operations
      <4>6. CASE op \in {"cancel", "reject", "fail"}
        BY <4>3, <4>6 DEF LedgerCallOf, Operations
      <4>7. CASE op = "complete"
        BY <4>3, <4>7 DEF LedgerCallOf, Operations
      <4> QED
        BY <2>2, <4>5, <4>6, <4>7
    <3> QED
      BY <2>1, <3>1, <3>2
  <2>6. ~Deciding(w, {"approve", "cancel", "reject", "fail", "complete"})
    BY <2>2 DEF Deciding
  <2>7. Deciding(w, {"approve"})' => ok /\ op = "approve"
    <3>1. \A h : [op |-> op, hash |-> h].op = op
      OBVIOUS
    <3> QED
      BY <2>3, <3>1 DEF Deciding
  <2>8. /\ op \in {"cancel", "reject", "fail"} /\ ok => Deciding(w, {"cancel", "reject", "fail"})'
        /\ op = "complete" /\ ok => Deciding(w, {"complete"})'
    BY <2>4 DEF Deciding
  <2>9. creator'[w] # "undo" /\ creator'[w] \notin {"new", "insert"} /\ Has("freeze", w)
    BY <1>1, <1>2, <1>3 DEF HeldAt
  <2>10. order[w].status \in {"pending", "processing"} =>
           (Has("unfreeze", w) => Failing(w)) /\ (Has("settle", w) => Finalizing(w))
    BY <1>1, <1>3, <2>6 DEF HeldAt, Deciding
  <2> QED
    BY <1>2, <1>3, <2>2, <2>5, <2>7, <2>8, <2>9, <2>10 DEF HeldAt
<1>6. CASE AdminCommit(w)
  <2>1. /\ admin[w] # None /\ admin'[w] = None
        /\ \A op \in Operations : Has(op, w)' = Has(op, w)
    BY <1>1, <1>6, BooksRest DEF AdminCommit, Shapes
  <2>2. \A st : Restated(w, st) => order'[w].status = st
    BY <1>1, <1>3 DEF Restated, Shapes, OrderRow
  <2>3. /\ order'[w].status \in {"processing", "cancelled", "rejected", "failed", "completed"}
        /\ order'[w].status = "processing" => admin[w].op = "approve"
    <3>1. CASE CommitComplete(w, admin[w].hash)
      BY <1>1, <3>1 DEF CommitComplete, Shapes
    <3> QED
      BY <1>6, <2>2, <3>1 DEF AdminCommit, CommitApprove, CommitCancel, CommitReject, CommitFail
  <2>4. CASE order'[w].status = "processing"
    <3>1. Deciding(w, {"approve"}) /\ ~Deciding(w, {"cancel", "reject", "fail"}) /\ ~Deciding(w, {"complete"})
      BY <2>1, <2>3, <2>4 DEF Deciding
    <3>2. ~Deciding(w, {"approve"})'
      BY <2>1 DEF Deciding
    <3> QED
      BY <1>1, <1>2, <1>3, <1>4, <2>1, <2>4, <3>1, <3>2 DEF HeldAt, Operations
  <2>5. CASE order'[w].status # "processing"
    BY <1>1, <1>2, <1>3, <1>4, <2>1, <2>3, <2>5 DEF HeldAt, Deciding, Operations
  <2> QED
    BY <2>4, <2>5
<1>7. CASE AdminRollback(w)
  <2>1. /\ admin[w] # None /\ admin[w].op = "approve" /\ admin'[w] = None /\ UNCHANGED order
        /\ \A op \in Operations : Has(op, w)' = Has(op, w)
    BY <1>1, <1>7, BooksRest DEF AdminRollback, Fault, Solid, Shapes
  <2> QED
    BY <1>1, <1>2, <1>3, <2>1 DEF HeldAt, Deciding, Operations
<1>8. ASSUME NEW hash, AdminSetHash(w, hash)
      PROVE  HeldAt(w)'
  <2>1. /\ admin[w] = None /\ admin'[w] = None /\ order'[w] = [order[w] EXCEPT !.txHash = hash]
        /\ \A op \in Operations : Has(op, w)' = Has(op, w)
    BY <1>1, <1>8, BooksRest DEF AdminSetHash, Shapes
  <2>2. order'[w].status = order[w].status
    BY <1>3, <2>1 DEF OrderRow
  <2> QED
    BY <1>1, <1>2, <1>3, <1>4, <2>1, <2>2 DEF HeldAt, Deciding, Operations
<1>9. Hashes(w) \subseteq Nat
  BY <1>1, HashType DEF RowsAt
<1> QED
  BY <1>5, <1>6, <1>7, <1>8, <1>9 DEF AdminStep, Hashes

LEMMA ChainStepHeld ==
  ASSUME WellTyped, AllHeld, NEW w \in Orders, ExpireLock(w) \/ ManualTransfer(w) \/ ChainDecides(w)
  PROVE  HeldAt(w)'
<1>1. UNCHANGED <<ledgerVars, creator, order, admin, worker>>
  BY DEF ExpireLock, ManualTransfer, ChainDecides
<1>2. Failing(w)' = Failing(w) /\ Finalizing(w)' = Finalizing(w)
  BY <1>1 DEF Failing, FailingBy, Finalizing, FinalizingBy, On
<1> QED
  BY <1>1, <1>2, BooksRest, HeldRests DEF AllHeld

LEMMA InitHeld == Init => AllHeld
<1> SUFFICES ASSUME Init, NEW w \in Orders PROVE HeldAt(w)
  BY DEF AllHeld
<1>1. \A op \in Operations : ~Has(op, w)
  BY DEF Init, Has, LedgerKeys, Operations
<1> QED
  BY <1>1 DEF Init, HeldAt, Deciding, Operations

LEMMA NextHeld == WellTyped /\ AllHeld /\ Solid /\ [Next]_vars => AllHeld'
<1> SUFFICES ASSUME WellTyped, AllHeld, Solid, [Next]_vars PROVE AllHeld'
  OBVIOUS
<1>1. CASE UNCHANGED vars
  <2>1. UNCHANGED <<posted, creator, order, admin, worker>>
    BY <1>1 DEF vars, ledgerVars, orderVars
  <2> QED
    BY <2>1 DEF AllHeld, HeldAt, Deciding, Has, Failing, FailingBy, Finalizing, FinalizingBy, On
<1>2. ASSUME NEW v \in Workers, WorkerStep(v) PROVE AllHeld'
  BY <1>2, WorkerStepHeld
<1>3. ASSUME NEW w \in Orders,
             CreateStep(w) \/ AdminStep(w) \/ ExpireLock(w) \/ ManualTransfer(w) \/ ChainDecides(w)
      PROVE  AllHeld'
  <2>1. Elsewhere(w) /\ UNCHANGED worker
    BY <1>3, CreateStepTypes, AdminStepTypes, ChainStepTypes DEF KeepsAt
  <2>2. HeldAt(w)'
    BY <1>3, CreateStepHeld, AdminStepHeld, ChainStepHeld
  <2>3. \A v \in Workers : Stays(v, w)
    BY <2>1 DEF Stays
  <2> QED
    BY <2>1, <2>2, <2>3, HeldElsewhere
<1> QED
  BY <1>1, <1>2, <1>3 DEF Next

LEMMA SpecHeld == Solid => (Spec => [](WellTyped /\ AllHeld))
<1> SUFFICES ASSUME Solid PROVE Spec => [](WellTyped /\ AllHeld)
  OBVIOUS
<1>1. Init => WellTyped /\ AllHeld
  BY InitWellTyped, InitHeld
<1>2. (WellTyped /\ AllHeld) /\ [Next]_vars => (WellTyped /\ AllHeld)'
  BY NextWellTyped, NextHeld
<1> QED
  BY <1>1, <1>2, PTL DEF Spec

\* As long as no crash, write, answer, commit or rollback gets lost between the
\* ledger and the tables, an order in processing has its money held: neither is a
\* withdrawal that was given up or deducted left open, nor one with its money
\* gone approved, whoever holds stale rows, lapsed leases or a lost hash.
THEOREM ProcessingOnlyHeld ==
  FaultKinds \cap {"crash", "db_write", "lost_answer", "rollback", "commit_unknown"} = {}
    => (Spec => []ProcessingIsHeld)
<1> SUFFICES ASSUME Solid PROVE Spec => []ProcessingIsHeld
  BY DEF Solid
<1>1. WellTyped /\ AllHeld => ProcessingIsHeld
  <2> SUFFICES ASSUME WellTyped, AllHeld, NEW w \in Orders,
                      order[w] # None, order[w].status = "processing", admin[w] = None,
                      \A v \in Workers : worker[v].w = w => worker[v].pc \notin {"writing", "finalize"}
               PROVE  Money(w) = "held"
    BY DEF ProcessingIsHeld
  <2>1. ~Failing(w) /\ ~Finalizing(w)
    BY DEF Failing, FailingBy, Finalizing, FinalizingBy, On
  <2>2. Has("freeze", w) /\ ~Has("unfreeze", w) /\ ~Has("settle", w)
    BY <2>1 DEF AllHeld, HeldAt, Deciding
  <2> QED
    BY <2>2 DEF Money
<1> QED
  BY <1>1, SpecHeld, PTL

-------------------------------------------------------------------------------
(* What the chain has confirmed is, or can still be, charged to the user, as  *)
(* long as nothing is lost on the way and no operator fails orders by hand.   *)

Orderly ==
  /\ Steady
  /\ FaultKinds \cap {"commit_unknown", "rollback"} = {}
  /\ "fail" \notin AdminOps
  /\ "lost_answer" \notin FaultKinds \/ AdminOps \cap {"cancel", "reject"} = {}

\* The order has been given up, or whoever gave its money back is about to do so.
GivenUp(w) ==
  /\ order[w] # None
  /\ \/ order[w].status \in {"failed", "cancelled", "rejected"}
     \/ Deciding(w, {"cancel", "reject"})
     \/ Failing(w)

ChargedAt(w) ==
  /\ creator[w] # "undo"
  /\ creator[w] = "insert" \/ order[w] # None => Has("freeze", w)
  /\ order[w] # None /\ order[w].status \in {"cancelled", "rejected"} => task[w] = None
  /\ Has("unfreeze", w) => AllFailed(w) /\ GivenUp(w)
  /\ Deciding(w, {"complete"}) => ~Has("unfreeze", w)

\* A worker that sends, asks, settles or gives up has its money still to dispose of.
WorkerCharges(v) ==
  worker[v].pc \in {"broadcast", "status", "settle", "finalize", "unfreeze"} => ~Has("unfreeze", worker[v].w)

AllCharged == (\A w \in Orders : ChargedAt(w)) /\ (\A v \in Workers : WorkerCharges(v))

LEMMA ChargedRests ==
  ASSUME NEW w, ChargedAt(w), UNCHANGED <<creator[w], order[w], task[w], admin[w]>>,
         \A op \in Operations : Has(op, w)' = Has(op, w),
         Has("unfreeze", w) => (AllFailed(w) => AllFailed(w)') /\ (Failing(w) => Failing(w)')
  PROVE  ChargedAt(w)'
BY DEF ChargedAt, GivenUp, Deciding, Operations

\* An order whose money is still held may take any course.
LEMMA ChargedIfHeld ==
  ASSUME NEW w, creator'[w] # "undo", Has("freeze", w)', ~Has("unfreeze", w)',
         order'[w].status \in {"cancelled", "rejected"} => task'[w] = None
  PROVE  ChargedAt(w)'
BY DEF ChargedAt

LEMMA ChargedElsewhere ==
  ASSUME WellTyped, AllCharged, NEW w \in Orders, Elsewhere(w), ChargedAt(w)', \A v \in Workers : Stays(v, w),
         \A v \in Workers : WorkerCharges(v)' \/ (worker'[v] = worker[v] /\ ~On(v, w))
  PROVE  AllCharged'
<1>1. ASSUME NEW x \in Orders, x # w PROVE ChargedAt(x)'
  <2>1. \A v \in Workers : worker'[v] = worker[v] \/ (~On(v, x) /\ ~On(v, x)')
    BY <1>1 DEF Stays, On
  <2>2. Failing(x) => Failing(x)'
    BY <2>1 DEF Failing, FailingBy, On
  <2>3. /\ ChargedAt(x) /\ UNCHANGED <<creator[x], order[x], task[x], admin[x], chain[x]>>
        /\ \A op \in Operations : Has(op, x)' = Has(op, x)
    BY <1>1 DEF AllCharged, Elsewhere
  <2>4. AllFailed(x)' = AllFailed(x)
    BY <2>3 DEF AllFailed
  <2> QED
    BY <2>2, <2>3, <2>4, ChargedRests
<1>2. ASSUME NEW v \in Workers, worker'[v] = worker[v], ~On(v, w) PROVE WorkerCharges(v)'
  <2>1. CASE worker[v] = Idle
    BY <1>2, <2>1 DEF WorkerCharges, Idle
  <2>2. CASE worker[v] # Idle
    <3>1. PICK x \in Orders : x = worker[v].w
      BY <2>2, AtWork
    <3>2. x # w
      BY <1>2, <2>2, <3>1 DEF On
    <3>3. Has("unfreeze", x)' = Has("unfreeze", x)
      BY <3>2 DEF Elsewhere, Operations
    <3>4. worker'[v].w = x /\ worker'[v].pc = worker[v].pc
      BY <1>2, <3>1
    <3>5. WorkerCharges(v)
      BY DEF AllCharged
    <3> QED
      BY <3>1, <3>3, <3>4, <3>5 DEF WorkerCharges, Has
  <2> QED
    BY <2>1, <2>2
<1> QED
  BY <1>1, <1>2 DEF AllCharged

\* An order with a worker is neither pending nor turned down; no operator is about
\* to cancel it, and if its money is gone it is given up or the worker does so.
LEMMA InHand ==
  ASSUME WellTyped, AllSole, AllCharged, NEW v \in Workers, NEW w, On(v, w)
  PROVE  /\ w \in Orders /\ task[w] # None /\ order[w] # None /\ order[w] \in OrderRow
         /\ order[w].status \notin {"pending", "cancelled", "rejected"}
         /\ ~Deciding(w, {"cancel", "reject"}) /\ creator[w] # "undo" /\ Has("freeze", w)
         /\ Failing(w) => FailingBy(v, w)
         /\ ChargedAt(w) /\ SoleAt(w)
<1>1. w \in Orders /\ RowsAt(w) /\ task[w] # None
  BY AtWork DEF On
<1>2. ChargedAt(w) /\ SoleAt(w)
  BY <1>1 DEF AllCharged, AllSole
<1>3. order[w] # None /\ order[w] \in OrderRow /\ order[w].status \notin {"pending", "cancelled", "rejected"}
  BY <1>1, <1>2 DEF RowsAt, SoleAt, ChargedAt
<1>4. ~Deciding(w, {"cancel", "reject"})
  BY <1>2, <1>3 DEF SoleAt, Deciding
<1>5. Failing(w) => FailingBy(v, w)
  BY WorkerAlone DEF Failing, FailingBy
<1> QED
  BY <1>1, <1>2, <1>3, <1>4, <1>5 DEF ChargedAt

\* A worker that goes on with an order's money in hand.
LEMMA ChargesOn ==
  ASSUME WellTyped, NEW v \in Workers, NEW w, On(v, w), Stays(v, w), ~Has("unfreeze", w)'
  PROVE  WorkerCharges(v)'
<1>1. worker'[v] = Idle \/ worker'[v].w = w
  BY DEF Stays, On
<1> QED
  BY <1>1 DEF WorkerCharges, Idle, Has

LEMMA WorkerShape ==
  ASSUME WellTyped, NEW v \in Workers, NEW w, On(v, w)
  PROVE  /\ worker = [x \in Workers |-> worker[x]]
         /\ worker[v] = [pc |-> worker[v].pc, w |-> w, task |-> worker[v].task,
                         order |-> worker[v].order, todo |-> worker[v].todo]
<1>1. WorkerAt(v) /\ worker = [x \in Workers |-> worker[x]] /\ worker[v].w = w /\ worker[v] # Idle
  BY AtWork DEF On, Shapes
<1> QED
  BY <1>1 DEF WorkerAt

\* A worker that takes a task, reads its rows or puts it down.
LEMMA QuietCharged ==
  ASSUME WellTyped, AllCharged, NEW v \in Workers, NEW w \in Orders, OthersRest(v),
         UNCHANGED <<ledgerVars, creator, order, task, admin, chain>>,
         On(v, w) => (worker[v].pc = "writing" => worker[v].todo = <<>>),
         worker'[v].pc \in {"idle", "locked", "loaded", "writing"}
  PROVE  ChargedAt(w)' /\ WorkerCharges(v)'
<1>1. ChargedAt(w)
  BY DEF AllCharged
<1>2. ~FailingBy(v, w)
  <2>1. DOMAIN <<>> = {}
    OBVIOUS
  <2> QED
    BY <2>1 DEF FailingBy
<1>3. (Failing(w) => Failing(w)') /\ AllFailed(w)' = AllFailed(w)
  BY <1>2, OthersGoOn DEF AllFailed
<1>4. \A op \in Operations : Has(op, w)' = Has(op, w)
  BY BooksRest
<1>5. ChargedAt(w)'
  BY <1>1, <1>3, <1>4, ChargedRests
<1> QED
  BY <1>5 DEF WorkerCharges

LEMMA ReadOrderCharged ==
  ASSUME WellTyped, AllSole, AllCharged, NEW v \in Workers, NEW w, worker[v].w = w, ReadOrder(v)
  PROVE  ChargedAt(w)' /\ WorkerCharges(v)'
<1>1. /\ On(v, w) /\ w \in Orders /\ Stays(v, w) /\ Moves(v, w) /\ worker[v].pc = "loaded"
      /\ UNCHANGED <<ledgerVars, creator, order, task, admin, chain>>
  BY HandlerStays, ReadOrderTypes DEF Handler, ReadOrder
<1>2. CASE ~Has("unfreeze", w)
  <2>1. ~Has("unfreeze", w)' /\ Has("freeze", w)' = Has("freeze", w)
    BY <1>1, <1>2, BooksRest
  <2>2. creator[w] # "undo" /\ Has("freeze", w) /\ order[w].status \notin {"cancelled", "rejected"}
    BY <1>1, InHand
  <2>3. ChargedAt(w)'
    BY <1>1, <2>1, <2>2, ChargedIfHeld
  <2> QED
    BY <1>1, <2>1, <2>3, ChargesOn
<1>3. CASE Has("unfreeze", w)
  <2>1. order[w].status = "failed"
    BY <1>1, <1>3, InHand DEF ChargedAt, GivenUp, FailingBy
  <2>2. PICK t, o, y, z : t = worker[v].task /\ o = order[w] /\ y = Start(w, t, o)[1] /\ z = Start(w, t, o)[2]
    OBVIOUS
  <2>3. y = "writing"
    BY <2>1, <2>2 DEF Start
  <2>4. PICK p, k, c, q : /\ p = worker[v].pc /\ k = worker[v].task
                           /\ c = worker[v].order /\ q = worker[v].todo
    OBVIOUS
  <2>5. worker[v] = [pc |-> p, w |-> w, task |-> k, order |-> c, todo |-> q]
    BY <1>1, <2>4, WorkerShape
  <2>6. worker'[v].pc = y
    <3>1. worker[v].w = w /\ t = k /\ worker = [x \in Workers |-> worker[x]]
      BY <1>1, <2>2, <2>4, WorkerShape DEF On
    <3> QED
      BY <2>2, <2>5, <3>1 DEF ReadOrder
  <2> QED
    BY <1>1, <2>3, <2>6, QuietCharged DEF Moves
<1> QED
  BY <1>2, <1>3

\* The steps that need the money held, and leave it so.
LEMMA WorkingCharged ==
  ASSUME WellTyped, AllSole, AllCharged, Steady, NEW v \in Workers, NEW w, worker[v].w = w,
         Broadcast(v) \/ CheckStatus(v) \/ Settle(v) \/ Finalize(v)
  PROVE  ChargedAt(w)' /\ WorkerCharges(v)'
<1>1. /\ On(v, w) /\ w \in Orders /\ Stays(v, w) /\ ~Has("unfreeze", w) /\ UNCHANGED creator
      /\ BookTyped
  <2>1. On(v, w) /\ w \in Orders /\ Stays(v, w)
    BY HandlerStays DEF Handler
  <2>2. WorkerCharges(v)
    BY DEF AllCharged
  <2> QED
    BY <2>1, <2>2 DEF WorkerCharges, Broadcast, CheckStatus, Settle, Finalize, WellTyped, Shapes
<1>2. /\ creator[w] # "undo" /\ Has("freeze", w) /\ order[w].status \notin {"cancelled", "rejected"}
      /\ order[w] # None /\ order[w] \in OrderRow
  BY <1>1, InHand
<1>3. Has("unfreeze", w)' = Has("unfreeze", w) /\ Has("freeze", w)' = Has("freeze", w)
  <2>1. CASE UNCHANGED ledgerVars
    BY <2>1, BooksRest
  <2>2. CASE Settle(v)
    <3>1. PICK ok \in BOOLEAN : CallEffect("settle", w, ok)
      BY <1>1, <2>2, CallHasEffect DEF Settle, Operations
    <3> QED
      BY <1>1, <3>1 DEF CallEffect, Operations
  <2> QED
    BY <2>1, <2>2 DEF Broadcast, CheckStatus, Finalize
<1>4. order'[w].status \notin {"cancelled", "rejected"}
  <2>1. CASE UNCHANGED order
    BY <1>2, <2>1
  <2>2. CASE order' = [order EXCEPT ![w].status = "completed"]
    <3>1. order'[w] = [order[w] EXCEPT !.status = "completed"]
      BY <1>1, <2>2 DEF WellTyped, Shapes
    <3>2. order'[w].status = "completed"
      BY <1>2, <3>1 DEF OrderRow
    <3> QED
      BY <3>2
  <2> QED
    BY <2>1, <2>2 DEF Broadcast, CheckStatus, Settle, Finalize
<1>5. ChargedAt(w)'
  BY <1>1, <1>2, <1>3, <1>4, ChargedIfHeld
<1> QED
  BY <1>1, <1>3, <1>5, ChargesOn

LEMMA FailAndUnfreezeCharged ==
  ASSUME WellTyped, AllSole, AllCharged, NEW v \in Workers, NEW w, worker[v].w = w, FailAndUnfreeze(v)
  PROVE  ChargedAt(w)' /\ WorkerCharges(v)'
<1>1. /\ On(v, w) /\ w \in Orders /\ AllFailed(w) /\ ~Has("unfreeze", w) /\ worker[v].pc = "unfreeze"
      /\ BookTyped /\ UNCHANGED <<creator, order, admin, chain>>
  <2>1. On(v, w) /\ w \in Orders
    BY HandlerStays DEF Handler
  <2> QED
    BY <2>1 DEF AllCharged, WorkerCharges, AllSole, WorkerSole, On, FailAndUnfreeze, WellTyped, Shapes
<1>2. /\ creator[w] # "undo" /\ Has("freeze", w) /\ order[w].status \notin {"cancelled", "rejected"} /\ order[w] # None
      /\ ChargedAt(w) /\ SoleAt(w)
  BY <1>1, InHand
<1>3. Has("freeze", w)'
  <2>1. CASE UNCHANGED ledgerVars
    BY <1>2, <2>1, BooksRest
  <2>2. ASSUME NEW ok \in BOOLEAN, Call("unfreeze", w, ok) PROVE Has("freeze", w)'
    BY <1>1, <1>2, <2>2, CallHasEffect DEF CallEffect, Operations
  <2> QED
    BY <2>1, <2>2 DEF FailAndUnfreeze
<1>4. GivenUp(w)' /\ AllFailed(w)'
  BY <1>1, <1>2, UnfreezeFails DEF GivenUp, AllFailed
<1>5. ~Deciding(w, {"complete"})'
  <2>1. BySystem(w)
    BY <1>1 DEF AllSole, WorkerSole, On
  <2> QED
    BY <1>1, <1>2, <2>1 DEF SoleAt, Deciding
<1>6. ChargedAt(w)'
  BY <1>1, <1>2, <1>3, <1>4, <1>5 DEF ChargedAt
<1>7. worker'[v].pc = "writing"
  BY <1>1, GoesTo DEF FailAndUnfreeze, Writes
<1> QED
  BY <1>6, <1>7 DEF WorkerCharges

LEMMA WriteCharged ==
  ASSUME WellTyped, AllSole, AllCharged, NEW v \in Workers, NEW w, worker[v].w = w, Write(v)
  PROVE  ChargedAt(w)' /\ WorkerCharges(v)'
<1>1. /\ On(v, w) /\ w \in Orders /\ worker[v].pc = "writing"
      /\ UNCHANGED <<ledgerVars, creator, admin, chain>>
  <2>1. On(v, w) /\ w \in Orders
    BY HandlerStays DEF Handler
  <2> QED
    BY <2>1 DEF Write
<1>2. /\ creator[w] # "undo" /\ Has("freeze", w) /\ order[w].status \notin {"cancelled", "rejected"}
      /\ ~Deciding(w, {"cancel", "reject"}) /\ ChargedAt(w)
  BY <1>1, InHand
<1>3. \A op \in Operations : Has(op, w)' = Has(op, w)
  BY <1>1, BooksRest
<1>4. /\ (order[w] # None)' /\ order'[w].status \notin {"cancelled", "rejected"}
      /\ \/ order'[w].status = "failed"
         \/ order'[w].status = order[w].status /\ (Failing(w) => Failing(w)')
  BY <1>2, WriteEffect
<1>5. Has("unfreeze", w) => AllFailed(w)' /\ GivenUp(w)'
  BY <1>1, <1>2, <1>4 DEF ChargedAt, GivenUp, AllFailed
<1>6. ChargedAt(w)'
  BY <1>1, <1>2, <1>3, <1>4, <1>5 DEF ChargedAt, Deciding, Operations
<1>7. worker'[v].pc = "writing"
  <2>1. PICK p, t, o, q : /\ p = worker[v].pc /\ t = worker[v].task
                           /\ o = worker[v].order /\ q = worker[v].todo
    OBVIOUS
  <2>2. worker[v] = [pc |-> p, w |-> w, task |-> t, order |-> o, todo |-> q]
    BY <1>1, <2>1, WorkerShape
  <2>3. PICK z : worker' = [worker EXCEPT ![v].todo = z]
    BY DEF Write
  <2>4. p = "writing" /\ worker = [x \in Workers |-> worker[x]]
    BY <1>1, <2>1, WorkerShape
  <2> QED
    BY <2>2, <2>3, <2>4
<1> QED
  BY <1>6, <1>7 DEF WorkerCharges

LEMMA WorkerStepCharged ==
  ASSUME WellTyped, AllSole, AllCharged, Steady, NEW v \in Workers, WorkerStep(v)
  PROVE  AllCharged'
<1>1. SUFFICES \E w \in Orders : Moves(v, w) /\ WSole(v, w) /\ ChargedAt(w)' /\ WorkerCharges(v)'
  <2>1. ASSUME NEW w \in Orders, Moves(v, w), WSole(v, w), ChargedAt(w)', WorkerCharges(v)' PROVE AllCharged'
    BY <2>1, ChargedElsewhere DEF Moves, KeepsAt, OthersRest, WSole, Stays
  <2> QED
    BY <2>1
<1>2. ASSUME NEW w \in Orders, Take(v, w)
      PROVE  Moves(v, w) /\ WSole(v, w) /\ ChargedAt(w)' /\ WorkerCharges(v)'
  <2>1. Moves(v, w) /\ WSole(v, w)
    BY <1>2, TakeTypes, TakeSole
  <2>2. UNCHANGED <<ledgerVars, creator, order, task, admin, chain>> /\ worker[v] = Idle
    BY <1>2 DEF Take
  <2>3. worker'[v].pc = "locked"
    <3>1. worker'[v] = [pc |-> "locked", w |-> w, task |-> None, order |-> None, todo |-> <<>>]
      BY <1>2 DEF Take, WellTyped, Shapes
    <3> QED
      BY <3>1
  <2> QED
    BY <2>1, <2>2, <2>3, QuietCharged DEF Moves, On
<1>3. PICK w : w = worker[v].w
  OBVIOUS
<1>4. ASSUME Handler(v) PROVE w \in Orders /\ On(v, w)
  BY <1>3, <1>4, HandlerStays
<1>5. CASE ReadTask(v)
  <2>1. Moves(v, w) /\ WSole(v, w) /\ worker[v].pc = "locked" /\ w \in Orders
        /\ UNCHANGED <<ledgerVars, creator, order, task, admin, chain>>
    BY <1>3, <1>5, ReadTaskTypes, ReadSole DEF ReadTask
  <2>2. worker'[v].pc = "loaded"
    <3>1. PICK p, t, o, q : /\ p = worker[v].pc /\ t = worker[v].task
                             /\ o = worker[v].order /\ q = worker[v].todo
      OBVIOUS
    <3>2. worker[v] = [pc |-> p, w |-> w, task |-> t, order |-> o, todo |-> q]
      BY <1>4, <1>5, <3>1, WorkerShape DEF Handler
    <3>3. PICK r : r = task[w]
      OBVIOUS
    <3>4. worker'[v] = [[worker[v] EXCEPT !.pc = "loaded"] EXCEPT !.task = r]
      BY <1>3, <1>4, <1>5, <3>3, WorkerShape DEF ReadTask, Handler
    <3> QED
      BY <3>2, <3>4
  <2> QED
    BY <2>1, <2>2, QuietCharged DEF Moves
<1>6. CASE Release(v)
  <2>1. Moves(v, w) /\ WSole(v, w) /\ worker[v].todo = <<>> /\ w \in Orders
        /\ UNCHANGED <<ledgerVars, creator, order, task, admin, chain>>
    BY <1>3, <1>6, PutDownTypes, PutDownSole DEF Release
  <2>2. worker'[v].pc = "idle"
    BY <1>6 DEF Release, Idle, WellTyped, Shapes
  <2> QED
    BY <2>1, <2>2, QuietCharged DEF Moves
<1>7. CASE ReadOrder(v)
  BY <1>3, <1>4, <1>7, ReadOrderTypes, ReadSole, ReadOrderCharged DEF Handler
<1>8. CASE Broadcast(v)
  BY <1>3, <1>4, <1>8, BroadcastTypes, BroadcastSole, WorkingCharged DEF Handler
<1>9. CASE CheckStatus(v)
  BY <1>3, <1>4, <1>9, CheckStatusTypes, CheckStatusSole, WorkingCharged DEF Handler
<1>10. CASE Settle(v)
  BY <1>3, <1>4, <1>10, SettleTypes, SettleSole, WorkingCharged DEF Handler
<1>11. CASE Finalize(v)
  BY <1>3, <1>4, <1>11, FinalizeTypes, FinalizeSole, WorkingCharged DEF Handler
<1>12. CASE FailAndUnfreeze(v)
  BY <1>3, <1>4, <1>12, SettleTypes, SettleSole, FailAndUnfreezeCharged DEF Handler
<1>13. CASE Write(v)
  BY <1>3, <1>4, <1>13, WriteTypes, WriteSole, WriteCharged DEF Handler
<1>14. ~LoseWrites(v) /\ ~Crash(v)
  BY DEF LoseWrites, Crash, Fault, Steady
<1> QED
  BY <1>2, <1>5, <1>6, <1>7, <1>8, <1>9, <1>10, <1>11, <1>12, <1>13, <1>14 DEF WorkerStep, Handler

\* A step of an order without a worker's doing.
OrderCharged(w) ==
  /\ ChargedAt(w)' /\ UNCHANGED worker
  /\ Has("unfreeze", w)' = Has("unfreeze", w) \/ \A v \in Workers : ~On(v, w)

LEMMA OrderChargedKeeps ==
  ASSUME WellTyped, AllCharged, NEW w \in Orders, Elsewhere(w), OrderCharged(w)
  PROVE  AllCharged'
<1>1. ASSUME NEW v \in Workers, On(v, w) PROVE WorkerCharges(v)'
  <2>1. WorkerCharges(v) /\ worker'[v] = worker[v] /\ worker[v].w = w
        /\ Has("unfreeze", w)' = Has("unfreeze", w)
    BY <1>1 DEF AllCharged, OrderCharged, On
  <2> QED
    BY <2>1 DEF WorkerCharges, Has
<1>2. \A v \in Workers : worker'[v] = worker[v] /\ Stays(v, w)
  BY DEF OrderCharged, Stays
<1> QED
  BY <1>1, <1>2, ChargedElsewhere DEF OrderCharged

LEMMA CreateStepCharged ==
  ASSUME WellTyped, AllSole, AllCharged, Orderly, NEW w \in Orders, CreateStep(w)
  PROVE  OrderCharged(w)
<1>1. Shapes /\ RowsAt(w) /\ ChargedAt(w) /\ SoleAt(w) /\ BookTyped
  BY DEF WellTyped, AllRows, AllSole, AllCharged, Shapes
<1>2. UNCHANGED <<admin, worker>>
  BY DEF CreateStep, CreateFreeze, CreateInsert, CreateUndo, CreateCrash
<1>3. ~CreateUndo(w) /\ ~CreateCrash(w)
  BY <1>1 DEF CreateUndo, CreateCrash, ChargedAt, Fault, Orderly, Steady
<1>4. ~Has("unfreeze", w) /\ order[w] = None
  BY <1>1, <1>3 DEF ChargedAt, GivenUp, SoleAt, CreateStep, CreateFreeze, CreateInsert
<1>5. CASE CreateFreeze(w)
  <2>1. PICK ok \in BOOLEAN :
          CallEffect("freeze", w, ok) /\ creator' = [creator EXCEPT ![w] = IF ok THEN "insert" ELSE "done"]
    BY <1>1, <1>5, CallHasEffect DEF CreateFreeze, Operations
  <2>2. creator'[w] = (IF ok THEN "insert" ELSE "done") /\ UNCHANGED order
    BY <1>1, <1>5, <2>1 DEF CreateFreeze, Shapes
  <2>3. Has("unfreeze", w)' = Has("unfreeze", w) /\ (ok => Has("freeze", w)')
    BY <2>1 DEF CallEffect, Operations
  <2> QED
    BY <1>2, <1>4, <2>2, <2>3 DEF OrderCharged, ChargedAt
<1>6. CASE CreateInsert(w)
  <2>1. /\ UNCHANGED ledgerVars /\ creator[w] = "insert" /\ creator' = [creator EXCEPT ![w] = "done"]
        /\ InsertOrder(w)
    BY <1>6 DEF CreateInsert, Fault, Orderly, Steady
  <2>2. creator'[w] = "done" /\ \A op \in Operations : Has(op, w)' = Has(op, w)
    BY <1>1, <2>1, BooksRest DEF Shapes
  <2>3. ~Has("unfreeze", w)' /\ Has("freeze", w)' /\ Has("unfreeze", w)' = Has("unfreeze", w)
    BY <1>1, <1>4, <2>1, <2>2 DEF ChargedAt, Operations
  <2>4. order'[w].status \notin {"cancelled", "rejected"}
    BY <1>1, <2>1 DEF InsertOrder, Shapes
  <2> QED
    BY <1>2, <2>2, <2>3, <2>4, ChargedIfHeld DEF OrderCharged
<1> QED
  BY <1>3, <1>5, <1>6 DEF CreateStep

\* While an order is open and no operator has it, only a worker, and none where
\* operators send the transfers themselves, can have given its money back.
LEMMA OpenIsHeld ==
  ASSUME WellTyped, AllSole, AllCharged, NEW w \in Orders,
         order[w].status \in {"pending", "processing"}, ~Deciding(w, {"cancel", "reject"}),
         order[w].status = "pending" \/ ~BySystem(w)
  PROVE  ~Has("unfreeze", w)
<1>1. ChargedAt(w) /\ SoleAt(w)
  BY DEF AllCharged, AllSole
<1>2. ASSUME NEW v \in Workers, FailingBy(v, w) PROVE FALSE
  <2>1. On(v, w) /\ order[w].status # "pending"
    BY <1>2, InHand DEF FailingBy
  <2>2. BySystem(w)
    BY <1>2 DEF AllSole, WorkerSole, SureUpdate, FailingBy, On
  <2> QED
    BY <2>1, <2>2
<1> QED
  BY <1>1, <1>2 DEF ChargedAt, GivenUp, Failing

LEMMA AdminStepCharged ==
  ASSUME WellTyped, AllSole, AllCharged, Orderly, NEW w \in Orders, AdminStep(w)
  PROVE  OrderCharged(w)
<1>1. Shapes /\ RowsAt(w) /\ ChargedAt(w) /\ SoleAt(w) /\ BookTyped
  BY DEF WellTyped, AllRows, AllSole, AllCharged, Shapes
<1>2. UNCHANGED <<creator, worker, chain>> /\ Failing(w)' = Failing(w) /\ AllFailed(w)' = AllFailed(w)
  <2>1. UNCHANGED <<creator, worker, chain>>
    BY DEF AdminStep, AdminCall, AdminCommit, AdminRollback, AdminSetHash
  <2> QED
    BY <2>1 DEF Failing, FailingBy, On, AllFailed
<1>3. order[w] # None /\ order[w] \in OrderRow /\ Has("freeze", w) /\ creator[w] # "undo"
  BY <1>1 DEF AdminStep, AdminCall, AdminCommit, AdminRollback, AdminSetHash, RowsAt, ChargedAt
<1>4. (order[w] # None)' /\ Has("freeze", w)'
  BY <1>3, AdminStepTypes DEF KeepsAt, Grows, Operations
<1>5. ASSUME NEW op \in AdminOps \cap DOMAIN LedgerCallOf, NEW hash \in Nat, AdminCall(op, w, hash)
      PROVE  OrderCharged(w)
  <2>1. PICK ok \in BOOLEAN :
          /\ \/ Call(LedgerCallOf[op], w, ok)
             \/ LedgerCallOf[op] = "unfreeze" /\ ok /\ UNCHANGED ledgerVars
          /\ admin' = IF ok THEN [admin EXCEPT ![w] = [op |-> op, hash |-> hash]] ELSE admin
    BY <1>5 DEF AdminCall
  <2>2. /\ admin[w] = None /\ UNCHANGED <<order, task>>
        /\ op \in {"approve", "cancel", "reject", "complete"}
        /\ op # "complete" => order[w].status = "pending"
        /\ op = "complete" => order[w].status = "processing" /\ ~BySystem(w)
    BY <1>5 DEF AdminCall, Decides, LedgerCallOf, Orderly, BySystem
  <2>3. admin'[w] = IF ok THEN [op |-> op, hash |-> hash] ELSE None
    BY <1>1, <2>1, <2>2 DEF Shapes
  <2>4. ~Has("unfreeze", w)
    BY <2>2, OpenIsHeld DEF Deciding
  <2>5. CASE op \in {"approve", "complete"}
    <3>1. ~Has("unfreeze", w)'
      <4>1. CASE UNCHANGED ledgerVars
        BY <2>4, <4>1, BooksRest
      <4>2. CASE Call(LedgerCallOf[op], w, ok)
        <5>1. LedgerCallOf[op] \in Operations /\ LedgerCallOf[op] # "unfreeze"
          BY <2>5 DEF LedgerCallOf, Operations
        <5>2. CallEffect(LedgerCallOf[op], w, ok)
          BY <1>1, <4>2, <5>1, CallHasEffect
        <5> QED
          BY <2>4, <5>1, <5>2 DEF CallEffect, Operations
      <4> QED
        BY <2>1, <4>1, <4>2
    <3>2. order'[w].status \notin {"cancelled", "rejected"} /\ creator'[w] # "undo"
      BY <1>2, <1>3, <2>2, <2>5
    <3>3. ChargedAt(w)'
      BY <1>4, <3>1, <3>2, ChargedIfHeld
    <3>4. Has("unfreeze", w)' = Has("unfreeze", w)
      BY <2>4, <3>1 DEF Has
    <3> QED
      BY <1>2, <3>3, <3>4 DEF OrderCharged
  <2>6. CASE op \in {"cancel", "reject"}
    <3>1. task[w] = None /\ chain[w] = <<>>
      BY <1>1, <2>2, <2>6 DEF SoleAt
    <3>2. AllFailed(w)
      BY <3>1 DEF AllFailed
    <3>3. \A v \in Workers : ~On(v, w)
      BY <3>1, AtWork DEF On
    <3>4. ~ok => Has("unfreeze", w)' = Has("unfreeze", w)
      <4>1. CASE Call(LedgerCallOf[op], w, ok)
        <5>1. LedgerCallOf[op] = "unfreeze" /\ "lost_answer" \notin FaultKinds
          BY <2>6 DEF LedgerCallOf, Orderly
        <5> QED
          BY <1>1, <4>1, <5>1, CallHasEffect DEF CallEffect, Operations
      <4> QED
        BY <2>1, <4>1
    <3>5. ok => Deciding(w, {"cancel", "reject"})' /\ ~Deciding(w, {"complete"})'
      <4>1. [op |-> op, hash |-> hash] \in Decision
        BY DEF Decision
      <4> QED
        BY <2>3, <2>6, <4>1, NoneAssumption DEF Deciding
    <3>6. ~ok => ~Deciding(w, {"complete"})'
      BY <2>3 DEF Deciding
    <3>7. Has("unfreeze", w)' => AllFailed(w)' /\ GivenUp(w)'
      BY <1>2, <1>4, <2>4, <3>2, <3>4, <3>5 DEF GivenUp
    <3>8. ChargedAt(w)'
      BY <1>1, <1>2, <1>3, <1>4, <2>2, <3>5, <3>6, <3>7 DEF ChargedAt
    <3> QED
      BY <1>2, <3>3, <3>8 DEF OrderCharged
  <2> QED
    BY <2>2, <2>5, <2>6
<1>6. CASE AdminCommit(w)
  <2>1. /\ admin[w] # None /\ admin'[w] = None /\ admin[w].op \in AdminOps
        /\ \A op \in Operations : Has(op, w)' = Has(op, w)
    BY <1>1, <1>6, BooksRest DEF AdminCommit, Shapes, RowsAt
  <2>2. \A st : Restated(w, st) => order'[w].status = st
    BY <1>1, <1>3 DEF Restated, Shapes, OrderRow
  <2>3. ~Deciding(w, {"complete"})'
    BY <2>1 DEF Deciding
  <2>4. CASE admin[w].op \in {"cancel", "reject"}
    <3>1. order'[w].status \in {"cancelled", "rejected"} /\ UNCHANGED task /\ task[w] = None
      BY <1>1, <1>6, <2>1, <2>2, <2>4 DEF AdminCommit, CommitCancel, CommitReject, SoleAt
    <3>2. Has("unfreeze", w)' => AllFailed(w)' /\ GivenUp(w)'
      BY <1>1, <1>2, <1>4, <2>1, <3>1 DEF ChargedAt, GivenUp, Operations
    <3>3. ChargedAt(w)'
      BY <1>2, <1>3, <1>4, <2>3, <3>1, <3>2 DEF ChargedAt
    <3> QED
      BY <1>2, <2>1, <3>3 DEF OrderCharged, Operations
  <2>5. CASE admin[w].op \in {"approve", "complete"}
    <3>1. ~Has("unfreeze", w)
      <4>1. CASE admin[w].op = "complete"
        BY <1>1, <2>1, <4>1 DEF ChargedAt, Deciding
      <4>2. CASE admin[w].op = "approve"
        <5>1. order[w].status = "pending" /\ ~Deciding(w, {"cancel", "reject"})
          BY <1>1, <2>1, <4>2 DEF SoleAt, Deciding
        <5> QED
          BY <5>1, OpenIsHeld
      <4> QED
        BY <2>5, <4>1, <4>2
    <3>2. order'[w].status \in {"processing", "completed"}
      <4>1. CASE CommitComplete(w, admin[w].hash)
        BY <1>1, <4>1 DEF CommitComplete, Shapes
      <4>2. CASE CommitApprove(w)
        BY <2>2, <4>2 DEF CommitApprove
      <4> QED
        BY <1>6, <2>5, <4>1, <4>2 DEF AdminCommit
    <3> QED
      BY <1>2, <1>3, <1>4, <2>1, <3>1, <3>2, ChargedIfHeld DEF OrderCharged, Operations
  <2>6. admin[w].op \in {"approve", "cancel", "reject", "complete"}
    BY <1>6, <2>1 DEF AdminCommit, Orderly
  <2> QED
    BY <2>4, <2>5, <2>6
<1>7. CASE AdminRollback(w)
  <2>1. /\ admin[w] # None /\ admin[w].op = "approve" /\ admin'[w] = None /\ UNCHANGED <<order, task>>
        /\ \A op \in Operations : Has(op, w)' = Has(op, w)
    BY <1>1, <1>7, BooksRest DEF AdminRollback, Fault, Orderly, Shapes
  <2>2. order[w].status = "pending" /\ ~Deciding(w, {"cancel", "reject"})
    BY <1>1, <2>1 DEF SoleAt, Deciding
  <2>3. ~Has("unfreeze", w)
    BY <2>2, OpenIsHeld
  <2> QED
    BY <1>2, <1>3, <1>4, <2>1, <2>2, <2>3, ChargedIfHeld DEF OrderCharged, Operations
<1>8. ASSUME NEW hash, AdminSetHash(w, hash)
      PROVE  OrderCharged(w)
  <2>1. /\ admin[w] = None /\ order'[w] = [order[w] EXCEPT !.txHash = hash]
        /\ order[w].status = "processing" /\ ~BySystem(w)
        /\ \A op \in Operations : Has(op, w)' = Has(op, w)
    BY <1>1, <1>8, BooksRest DEF AdminSetHash, Shapes, BySystem
  <2>2. order'[w].status = "processing"
    BY <1>3, <2>1 DEF OrderRow
  <2>3. ~Has("unfreeze", w)
    BY <2>1, OpenIsHeld DEF Deciding
  <2> QED
    BY <1>2, <1>3, <1>4, <2>1, <2>2, <2>3, ChargedIfHeld DEF OrderCharged, Operations
<1>9. Hashes(w) \subseteq Nat
  BY <1>1, HashType DEF RowsAt
<1> QED
  BY <1>5, <1>6, <1>7, <1>8, <1>9 DEF AdminStep, Hashes

LEMMA ChainStepCharged ==
  ASSUME WellTyped, AllSole, AllCharged, NEW w \in Orders, ExpireLock(w) \/ ManualTransfer(w) \/ ChainDecides(w)
  PROVE  OrderCharged(w)
<1>1. UNCHANGED <<ledgerVars, creator, order, task, admin, worker>> /\ ChargedAt(w) /\ SoleAt(w)
  BY DEF ExpireLock, ManualTransfer, ChainDecides, AllCharged, AllSole
<1>2. Failing(w)' = Failing(w) /\ \A op \in Operations : Has(op, w)' = Has(op, w)
  BY <1>1, BooksRest DEF Failing, FailingBy, On
<1>3. UNCHANGED chain \/ ~Has("unfreeze", w)
  <2>1. CASE ExpireLock(w)
    BY <2>1 DEF ExpireLock
  <2>2. CASE ManualTransfer(w)
    <3>1. order[w].status = "processing" /\ ~BySystem(w)
      BY <2>2 DEF ManualTransfer, BySystem
    <3>2. ~Deciding(w, {"cancel", "reject"})
      BY <1>1, <3>1 DEF SoleAt, Deciding
    <3> QED
      BY <3>1, <3>2, OpenIsHeld
  <2>3. CASE ChainDecides(w)
    BY <1>1, <2>3 DEF ChainDecides, ChargedAt, AllFailed
  <2> QED
    BY <2>1, <2>2, <2>3
<1>4. Has("unfreeze", w) => AllFailed(w)' = AllFailed(w)
  BY <1>3 DEF AllFailed
<1>5. ChargedAt(w)'
  BY <1>1, <1>2, <1>4, ChargedRests
<1> QED
  BY <1>1, <1>2, <1>5 DEF OrderCharged, Operations

LEMMA InitCharged == Init => AllCharged
<1> SUFFICES ASSUME Init PROVE AllCharged
  OBVIOUS
<1>1. \A op \in Operations, w \in Orders : ~Has(op, w)
  BY DEF Init, Has, LedgerKeys, Operations
<1>2. ASSUME NEW w \in Orders PROVE ChargedAt(w)
  BY <1>1 DEF Init, ChargedAt, Deciding, Operations
<1>3. ASSUME NEW v \in Workers PROVE WorkerCharges(v)
  BY DEF Init, WorkerCharges, Idle
<1> QED
  BY <1>2, <1>3 DEF AllCharged

LEMMA NextCharged == WellTyped /\ AllSole /\ AllCharged /\ Orderly /\ [Next]_vars => AllCharged'
<1> SUFFICES ASSUME WellTyped, AllSole, AllCharged, Orderly, [Next]_vars PROVE AllCharged'
  OBVIOUS
<1>1. CASE UNCHANGED vars
  <2>1. UNCHANGED <<posted, creator, order, task, admin, worker, chain>>
    BY <1>1 DEF vars, ledgerVars, orderVars
  <2>2. \A w : Failing(w)' = Failing(w) /\ AllFailed(w)' = AllFailed(w)
    BY <2>1 DEF Failing, FailingBy, On, AllFailed
  <2>3. \A op, w : Has(op, w)' = Has(op, w)
    BY <2>1 DEF Has
  <2>4. \A w \in Orders : ChargedAt(w)'
    BY <2>1, <2>2, <2>3 DEF AllCharged, ChargedAt, GivenUp, Deciding
  <2>5. \A v \in Workers : WorkerCharges(v)'
    BY <2>1 DEF AllCharged, WorkerCharges, Has
  <2> QED
    BY <2>4, <2>5 DEF AllCharged
<1>2. ASSUME NEW v \in Workers, WorkerStep(v) PROVE AllCharged'
  BY <1>2, WorkerStepCharged DEF Orderly
<1>3. ASSUME NEW w \in Orders,
             CreateStep(w) \/ AdminStep(w) \/ ExpireLock(w) \/ ManualTransfer(w) \/ ChainDecides(w)
      PROVE  AllCharged'
  <2>1. Elsewhere(w)
    BY <1>3, CreateStepTypes, AdminStepTypes, ChainStepTypes DEF KeepsAt
  <2>2. OrderCharged(w)
    BY <1>3, CreateStepCharged, AdminStepCharged, ChainStepCharged
  <2> QED
    BY <2>1, <2>2, OrderChargedKeeps
<1> QED
  BY <1>1, <1>2, <1>3 DEF Next

LEMMA SpecCharged == Orderly => (Spec => [](WellTyped /\ AllSole /\ AllCharged))
<1> SUFFICES ASSUME Orderly PROVE Spec => [](WellTyped /\ AllSole /\ AllCharged)
  OBVIOUS
<1>1. Init => WellTyped /\ AllSole /\ AllCharged
  BY InitWellTyped, InitSole, InitCharged
<1>2. (WellTyped /\ AllSole /\ AllCharged) /\ [Next]_vars => (WellTyped /\ AllSole /\ AllCharged)'
  BY NextWellTyped, NextSole, NextCharged DEF Orderly
<1> QED
  BY <1>1, <1>2, PTL DEF Spec

\* A transfer the chain has confirmed can be charged to the user: its money has
\* not been given back, by a worker that gave the order up or by an operator.
\* The hypothesis leaves out what breaks it: besides what may send a transfer
\* twice, a creation or a cancellation whose outcome is not known to who asked
\* for it, and operators who fail an order a worker has in hand.
THEOREM ConfirmedChargeable ==
  ASSUME FaultKinds \cap {"crash", "db_write", "lost_hash", "lease_lapse", "commit_unknown", "rollback"} = {},
         "fail" \notin AdminOps,
         "lost_answer" \notin FaultKinds \/ AdminOps \cap {"cancel", "reject"} = {}
  PROVE  Spec => []ConfirmedIsCharged
<1>1. Orderly
  BY DEF Orderly, Steady
<1>2. WellTyped /\ AllSole /\ AllCharged => ConfirmedIsCharged
  <2> SUFFICES ASSUME WellTyped, AllSole, AllCharged, NEW w \in Orders,
                      NEW i \in DOMAIN chain[w], chain[w][i] = "confirmed"
               PROVE  Money(w) \in {"held", "paid"}
    BY DEF ConfirmedIsCharged
  <2>1. order[w] # None
    <3>1. chain[w] # <<>>
      OBVIOUS
    <3> QED
      BY <3>1 DEF AllSole, SoleAt
  <2>2. Has("freeze", w) /\ ~Has("unfreeze", w)
    BY <2>1 DEF AllCharged, ChargedAt, AllFailed
  <2> QED
    BY <2>2 DEF Money
<1> QED
  BY <1>1, <1>2, SpecCharged, PTL

-------------------------------------------------------------------------------
(* A task that was ready for its settlement does not go back, so that nobody  *)
(* gives an order up that the ledger has settled: a reverted transfer may be  *)
(* failed to one worker and confirmed to the next.                            *)

PastStates == {"settle_pending", "done", "failed"}
Past(w) == task[w] # None /\ task[w].state \in PastStates

Returns(u) == u.table = "task" /\ "state" \in DOMAIN u.fields /\ u.fields["state"] \notin PastStates

\* The task is what a handler updates last, and it does not take it back.
Onward(q, w) ==
  \/ q = <<>>
  \/ \E a \in {q[1]} : q = <<a>> /\ (Returns(a) => ~Past(w))
  \/ \E a \in {q[1]}, b \in {q[2]} : q = <<a, b>> /\ a.table = "order" /\ (Returns(b) => ~Past(w))

PastAt(w) == BySystem(w) /\ Has("settle", w) => Past(w)

WorkerPast(v) ==
  LET s == worker[v]
  IN s # Idle /\ BySystem(s.w) =>
       /\ s.pc = "loaded" => s.task.state = task[s.w].state
       /\ s.pc = "settle" => Past(s.w)
       /\ s.pc \in {"broadcast", "status", "unfreeze"} => ~Past(s.w)
       /\ Onward(s.todo, s.w)

AllPast == (\A w \in Orders : PastAt(w)) /\ (\A v \in Workers : WorkerPast(v))

LEMMA OnwardQueues ==
  ASSUME NEW w
  PROVE  /\ Onward(<<>>, w)
         /\ \A a : (Returns(a) => ~Past(w)) => Onward(<<a>>, w)
         /\ \A a, b : a.table = "order" /\ (Returns(b) => ~Past(w)) => Onward(<<a, b>>, w)
BY DEF Onward

LEMMA NewWorkerPast ==
  ASSUME NEW v, NEW w, NEW p, NEW t, NEW o, NEW q,
         worker'[v] = [pc |-> p, w |-> w, task |-> t, order |-> o, todo |-> q],
         BySystem(w) /\ p = "loaded" => t.state = task'[w].state,
         BySystem(w) /\ p = "settle" => Past(w)',
         BySystem(w) /\ p \in {"broadcast", "status", "unfreeze"} => ~Past(w)',
         BySystem(w) => Onward(q, w)'
  PROVE  WorkerPast(v)'
<1>1. worker'[v].pc = p /\ worker'[v].w = w /\ worker'[v].task = t /\ worker'[v].todo = q
  OBVIOUS
<1>2. (worker[v].w)' = w
  BY <1>1
<1> QED
  BY <1>1, <1>2 DEF WorkerPast, Onward, Past, Returns, BySystem

LEMMA WorkerPastRests ==
  ASSUME NEW v \in Workers, WorkerPast(v), worker'[v] = worker[v],
         task'[worker[v].w] = task[worker[v].w] \/ ~BySystem(worker[v].w)
  PROVE  WorkerPast(v)'
BY DEF WorkerPast, Onward, Past, Returns, BySystem

LEMMA PastElsewhere ==
  ASSUME WellTyped, AllPast, NEW w \in Orders, Elsewhere(w), PastAt(w)',
         \A v \in Workers : WorkerPast(v)' \/ (worker'[v] = worker[v] /\ ~On(v, w))
  PROVE  AllPast'
<1>1. ASSUME NEW x \in Orders, x # w PROVE PastAt(x)'
  <2>1. PastAt(x) /\ task'[x] = task[x] /\ Has("settle", x)' = Has("settle", x)
    BY <1>1 DEF AllPast, Elsewhere, Operations
  <2> QED
    BY <2>1 DEF PastAt, Past, BySystem
<1>2. ASSUME NEW v \in Workers, worker'[v] = worker[v], ~On(v, w) PROVE WorkerPast(v)'
  <2>1. CASE worker[v] = Idle
    BY <1>2, <2>1 DEF WorkerPast, Idle
  <2>2. CASE worker[v] # Idle
    <3>1. worker[v].w \in Orders /\ worker[v].w # w
      BY <1>2, <2>2, AtWork DEF On
    <3>2. task'[worker[v].w] = task[worker[v].w] /\ WorkerPast(v)
      BY <3>1 DEF Elsewhere, AllPast
    <3> QED
      BY <1>2, <3>2, WorkerPastRests
  <2> QED
    BY <2>1, <2>2
<1> QED
  BY <1>1, <1>2 DEF AllPast

LEMMA RowsRestPast ==
  ASSUME AllPast, NEW w \in Orders, UNCHANGED task, Has("settle", w)' = Has("settle", w)
  PROVE  PastAt(w)'
BY DEF AllPast, PastAt, Past, BySystem

LEMMA GoesOnPast ==
  ASSUME WellTyped, NEW v \in Workers, NEW w, On(v, w),
         NEW p \in {"writing", "finalize", "unfreeze"}, NEW q, Goes(v, p, q),
         BySystem(w) /\ p = "unfreeze" => ~Past(w)', BySystem(w) => Onward(q, w)'
  PROVE  WorkerPast(v)'
<1>1. worker'[v].pc = p /\ worker'[v].w = w /\ worker'[v].todo = q
  BY GoesTo
<1> QED
  BY <1>1 DEF WorkerPast, Onward, Past, Returns, BySystem

\* A handler asks, sends or gives up only for a task that is not ready yet.
LEMMA StartPast ==
  ASSUME NEW w, NEW t, NEW o
  PROVE  LET start == Start(w, t, o)
         IN /\ start[1] # "loaded"
            /\ start[1] = "settle" => t.state \in PastStates
            /\ start[1] \in {"broadcast", "status", "unfreeze"} => t.state \notin PastStates
            /\ start[2] = <<>>
               \/ \E a \in {start[2][1]} : start[2] = <<a>> /\ (Returns(a) => t.state \notin PastStates)
<1> DEFINE Good(start) ==
      /\ start[1] # "loaded"
      /\ start[1] = "settle" => t.state \in PastStates
      /\ start[1] \in {"broadcast", "status", "unfreeze"} => t.state \notin PastStates
      /\ start[2] = <<>>
         \/ \E a \in {start[2][1]} : start[2] = <<a>> /\ (Returns(a) => t.state \notin PastStates)
<1>1. ASSUME NEW a, Returns(a) => t.state \notin PastStates PROVE Good(<<"writing", <<a>>>>)
  BY <1>1
<1>2. ASSUME t.state \notin PastStates
      PROVE  Good(AwaitingStart(t, o)) /\ Good(BroadcastStart(w, t)) /\ Good(ConfirmStart(t, o))
  <2>1. \A p \in {"broadcast", "status", "unfreeze"} : Good(<<p, <<>>>>)
    BY <1>2
  <2> HIDE DEF Good
  <2>2. \A a : Good(<<"writing", <<a>>>>)
    BY <1>1, <1>2
  <2> QED
    BY <2>1, <2>2 DEF AwaitingStart, BroadcastStart, ConfirmStart
<1>3. t.state = "settle_pending" => Good(<<"settle", <<>>>>)
  BY DEF PastStates
<1>4. Good(<<"writing", <<FailTask>>>>) /\ Good(<<"writing", <<SetTask([state |-> "done"])>>>>)
  <2>1. ~Returns(FailTask) /\ ~Returns(SetTask([state |-> "done"]))
    BY DEF Returns, FailTask, SetTask, PastStates
  <2> HIDE DEF Good
  <2> QED
    BY <1>1, <2>1
<1>5. t.state \in {"awaiting_manual_txhash", "pending_broadcast", "confirming"} => t.state \notin PastStates
  BY DEF PastStates
<1>6. Good(Start(w, t, o))
  <2> HIDE DEF Good
  <2> QED
    BY <1>2, <1>3, <1>4, <1>5 DEF Start
<1> QED
  BY <1>6

LEMMA ReadPast ==
  ASSUME WellTyped, AllSole, AllPast, NEW v \in Workers, NEW w, worker[v].w = w,
         ReadTask(v) \/ ReadOrder(v)
  PROVE  PastAt(w)' /\ WorkerPast(v)'
<1>1. /\ On(v, w) /\ w \in Orders /\ task[w] # None /\ worker[v].pc \in {"locked", "loaded"}
      /\ UNCHANGED <<ledgerVars, task>>
  BY AtWork DEF ReadTask, ReadOrder, Idle, On
<1>2. /\ worker[v] = [pc |-> worker[v].pc, w |-> w, task |-> worker[v].task,
                      order |-> worker[v].order, todo |-> worker[v].todo]
      /\ worker = [x \in Workers |-> worker[x]]
  BY <1>1, WorkerShape
<1>3. worker[v].todo = <<>> /\ WorkerPast(v)
  BY <1>1 DEF AllSole, WorkerSole, AllPast, On
<1>4. PastAt(w)' /\ Past(w)' = Past(w)
  BY <1>1, BooksRest, RowsRestPast DEF Operations, Past
<1>5. CASE ReadTask(v)
  <2>1. PICK t, o, q : t = task[w] /\ o = worker[v].order /\ q = worker[v].todo
    OBVIOUS
  <2>2. worker'[v] = [pc |-> "loaded", w |-> w, task |-> t, order |-> o, todo |-> q]
    BY <1>2, <1>5, <2>1 DEF ReadTask
  <2>3. t.state = task'[w].state /\ Onward(q, w)'
    BY <1>1, <1>3, <2>1 DEF Onward
  <2>4. WorkerPast(v)'
    BY <2>2, <2>3, NewWorkerPast
  <2> QED
    BY <1>4, <2>4
<1>6. CASE ReadOrder(v)
  <2>1. PICK t, o, p, q : t = worker[v].task /\ o = order[w]
                          /\ p = Start(w, t, o)[1] /\ q = Start(w, t, o)[2]
    OBVIOUS
  <2>2. worker'[v] = [pc |-> p, w |-> w, task |-> t, order |-> o, todo |-> q]
    BY <1>2, <1>6, <2>1 DEF ReadOrder
  <2>3. BySystem(w) => (t.state \in PastStates <=> Past(w))
    BY <1>1, <1>3, <1>6, <2>1 DEF WorkerPast, ReadOrder, On, Past
  <2>4. /\ p # "loaded"
        /\ p = "settle" => t.state \in PastStates
        /\ p \in {"broadcast", "status", "unfreeze"} => t.state \notin PastStates
        /\ q = <<>> \/ \E a \in {q[1]} : q = <<a>> /\ (Returns(a) => t.state \notin PastStates)
    BY <2>1, StartPast
  <2>5. BySystem(w) => Onward(q, w)'
    BY <1>4, <2>3, <2>4 DEF Onward, Returns
  <2>6. WorkerPast(v)'
    BY <1>4, <2>2, <2>3, <2>4, <2>5, NewWorkerPast
  <2> QED
    BY <1>4, <2>6
<1> QED
  BY <1>5, <1>6

\* The steps that send, ask or book, and leave the task for their last update.
LEMMA WorkingPast ==
  ASSUME WellTyped, AllPast, NEW v \in Workers, NEW w, worker[v].w = w,
         Broadcast(v) \/ CheckStatus(v) \/ Settle(v) \/ FailAndUnfreeze(v)
  PROVE  PastAt(w)' /\ WorkerPast(v)'
<1>1. On(v, w) /\ w \in Orders /\ UNCHANGED task /\ BookTyped
  <2>1. On(v, w) /\ w \in Orders
    BY HandlerStays DEF Handler
  <2> QED
    BY <2>1 DEF Broadcast, CheckStatus, Settle, FailAndUnfreeze, WellTyped, Shapes
<1>2. /\ PastAt(w)
      /\ BySystem(w) =>
           /\ worker[v].pc = "settle" => Past(w)
           /\ worker[v].pc \in {"broadcast", "status", "unfreeze"} => ~Past(w)
  BY <1>1 DEF AllPast, WorkerPast, On
<1>3. Past(w)' = Past(w) /\ \A q : Onward(q, w)' = Onward(q, w)
  BY <1>1 DEF Past, Onward, Returns
<1>4. CASE Settle(v)
  <2>1. PICK ok \in BOOLEAN : Goes(v, IF ok THEN "finalize" ELSE "writing", <<>>)
    BY <1>4 DEF Settle
  <2>2. WorkerPast(v)'
    BY <1>1, <1>3, <2>1, OnwardQueues, GoesOnPast
  <2>3. PastAt(w)'
    BY <1>2, <1>3, <1>4 DEF PastAt, Settle, BySystem
  <2> QED
    BY <2>2, <2>3
<1>5. CASE FailAndUnfreeze(v)
  <2>1. Has("settle", w)' = Has("settle", w)
    <3>1. CASE UNCHANGED ledgerVars
      BY <3>1, BooksRest DEF Operations
    <3>2. ASSUME NEW ok \in BOOLEAN, Call("unfreeze", w, ok) PROVE Has("settle", w)' = Has("settle", w)
      BY <1>1, <3>2, CallHasEffect DEF CallEffect, Operations
    <3> QED
      BY <1>5, <3>1, <3>2 DEF FailAndUnfreeze
  <2>2. Onward(<<SetOrder([status |-> "failed"]), FailTask>>, w)
    <3>1. SetOrder([status |-> "failed"]).table = "order" /\ ~Returns(FailTask)
      BY DEF SetOrder, Returns, FailTask, SetTask, PastStates
    <3> QED
      BY <3>1, OnwardQueues
  <2>3. WorkerPast(v)'
    BY <1>1, <1>3, <1>5, <2>2, GoesOnPast DEF FailAndUnfreeze, Writes
  <2> QED
    BY <1>1, <2>1, <2>3, RowsRestPast
<1>6. CASE Broadcast(v) \/ CheckStatus(v)
  <2>1. UNCHANGED ledgerVars /\ worker[v].pc \in {"broadcast", "status"}
    BY <1>6 DEF Broadcast, CheckStatus
  <2>2. BySystem(w) => \A a, b, h : Onward(<<>>, w) /\ Onward(<<a>>, w) /\ Onward(<<SetOrder(h), b>>, w)
    BY <1>2, <2>1, OnwardQueues DEF SetOrder
  <2>3. \/ \E a : Goes(v, "writing", <<a>>)
        \/ \E b, h : Goes(v, "writing", <<SetOrder(h), b>>)
        \/ Goes(v, "writing", <<>>) \/ Goes(v, "unfreeze", <<>>)
    BY <1>6 DEF Broadcast, CheckStatus, Writes
  <2>4. PICK p, q : p \in {"writing", "unfreeze"} /\ Goes(v, p, q) /\ (BySystem(w) => Onward(q, w))
    BY <2>2, <2>3
  <2>5. WorkerPast(v)'
    BY <1>1, <1>2, <1>3, <2>1, <2>4, GoesOnPast
  <2> QED
    BY <1>1, <2>1, <2>5, BooksRest, RowsRestPast DEF Operations
<1> QED
  BY <1>4, <1>5, <1>6

LEMMA FinalizePast ==
  ASSUME WellTyped, AllPast, NEW v \in Workers, NEW w, worker[v].w = w, Finalize(v)
  PROVE  PastAt(w)' /\ WorkerPast(v)'
<1>1. On(v, w) /\ w \in Orders /\ Moves(v, w) /\ UNCHANGED ledgerVars /\ Goes(v, "writing", <<>>)
  BY HandlerStays, FinalizeTypes DEF Handler, Finalize, Writes
<1>2. WorkerPast(v)'
  <2>1. Onward(<<>>, w)'
    BY DEF Onward
  <2> QED
    BY <1>1, <2>1, GoesOnPast
<1>3. CASE UNCHANGED task
  BY <1>1, <1>2, <1>3, BooksRest, RowsRestPast DEF Operations
<1>4. CASE task' = [task EXCEPT ![w].state = "done"]
  <2>1. task[w] # None /\ task[w] \in TaskRow /\ task'[w] = [task[w] EXCEPT !.state = "done"]
    BY <1>1, <1>4, AtWork DEF On, RowsAt, Shapes
  <2>2. task'[w].state = "done" /\ (task[w] # None)'
    BY <1>1, <2>1 DEF TaskRow, Moves, KeepsAt, Grows
  <2> QED
    BY <1>2, <2>2 DEF PastAt, Past, PastStates
<1> QED
  BY <1>3, <1>4 DEF Finalize

\* A task that is ready stays so when it is written, and is written last.
LEMMA WritePast ==
  ASSUME WellTyped, AllPast, NEW v \in Workers, NEW w, worker[v].w = w, Write(v)
  PROVE  PastAt(w)' /\ WorkerPast(v)'
<1>1. /\ On(v, w) /\ w \in Orders /\ Moves(v, w) /\ UNCHANGED ledgerVars
      /\ worker[v].pc = "writing" /\ worker[v].todo # <<>>
  BY HandlerStays, WriteTypes DEF Handler, Write
<1>2. PICK t, o, q : t = worker[v].task /\ o = worker[v].order /\ q = worker[v].todo
  OBVIOUS
<1>3. PICK u, z : u = Head(q) /\ z = Tail(q)
  OBVIOUS
<1>4. /\ worker[v] = [pc |-> "writing", w |-> w, task |-> t, order |-> o, todo |-> q]
      /\ worker = [x \in Workers |-> worker[x]]
  BY <1>1, <1>2, WorkerShape
<1>5. worker'[v] = [pc |-> "writing", w |-> w, task |-> t, order |-> o, todo |-> z]
  <2>1. worker' = [worker EXCEPT ![v].todo = z]
    BY <1>2, <1>3 DEF Write
  <2> QED
    BY <1>4, <2>1
<1>6. task[w] # None /\ task[w] \in TaskRow /\ task'[w] # None /\ Shapes
  BY <1>1, AtWork DEF On, RowsAt, Moves, KeepsAt, Grows
<1>7. /\ u.table = "order" => task'[w] = task[w]
      /\ task'[w] = task[w] \/ (u.table = "task" /\ task'[w] = Updated(task[w], u.fields))
  BY <1>1, <1>2, <1>3, <1>6 DEF Write, Shapes
<1>8. PastAt(w) /\ (BySystem(w) => Onward(q, w)) /\ Has("settle", w)' = Has("settle", w)
  BY <1>1, <1>2, BooksRest DEF AllPast, WorkerPast, On, Operations
<1>9. (Returns(u) => ~Past(w)) => (Past(w) => Past(w)')
  <2>1. CASE task'[w] = task[w]
    BY <2>1 DEF Past
  <2>2. CASE u.table = "task" /\ task'[w] = Updated(task[w], u.fields)
    <3>1. PICK f, r : f = u.fields /\ r = task[w]
      OBVIOUS
    <3>2. task'[w].state = IF "state" \in DOMAIN f THEN f["state"] ELSE r.state
      BY <1>6, <2>2, <3>1 DEF Updated, TaskRow
    <3> QED
      BY <1>6, <2>2, <3>1, <3>2 DEF Past, Returns
  <2> QED
    BY <1>7, <2>1, <2>2
<1>10. ASSUME BySystem(w) PROVE (Returns(u) => ~Past(w)) /\ Onward(z, w)'
  <2>1. ASSUME NEW a, q = <<a>>, Returns(a) => ~Past(w)
        PROVE  (Returns(u) => ~Past(w)) /\ Onward(z, w)'
    <3>1. u = a /\ z = <<>>
      BY <1>3, <2>1
    <3> QED
      BY <2>1, <3>1 DEF Onward
  <2>2. ASSUME NEW a, NEW b, q = <<a, b>>, a.table = "order", Returns(b) => ~Past(w)
        PROVE  (Returns(u) => ~Past(w)) /\ Onward(z, w)'
    <3>1. u = a /\ z = <<b>> /\ z[1] = b
      BY <1>3, <2>2
    <3>2. ~Returns(u) /\ Past(w)' = Past(w)
      BY <1>7, <2>2, <3>1 DEF Returns, Past
    <3> QED
      BY <2>2, <3>1, <3>2 DEF Onward, Returns
  <2> QED
    BY <1>1, <1>2, <1>8, <1>10, <2>1, <2>2 DEF Onward
<1>11. PastAt(w)'
  BY <1>8, <1>9, <1>10 DEF PastAt, BySystem
<1>12. WorkerPast(v)'
  BY <1>5, <1>10, NewWorkerPast
<1> QED
  BY <1>11, <1>12

LEMMA WorkerStepPast ==
  ASSUME WellTyped, AllSole, AllPast, Steady, NEW v \in Workers, WorkerStep(v)
  PROVE  AllPast'
<1>1. SUFFICES \E w \in Orders : Moves(v, w) /\ WSole(v, w) /\ PastAt(w)' /\ WorkerPast(v)'
  <2>1. ASSUME NEW w \in Orders, Moves(v, w), WSole(v, w), PastAt(w)', WorkerPast(v)' PROVE AllPast'
    BY <2>1, PastElsewhere DEF Moves, KeepsAt, OthersRest, WSole
  <2> QED
    BY <2>1
<1>2. ASSUME NEW w \in Orders, Take(v, w)
      PROVE  Moves(v, w) /\ WSole(v, w) /\ PastAt(w)' /\ WorkerPast(v)'
  <2>1. Moves(v, w) /\ WSole(v, w)
    BY <1>2, TakeTypes, TakeSole
  <2>2. worker'[v] = [pc |-> "locked", w |-> w, task |-> None, order |-> None, todo |-> <<>>]
    BY <1>2 DEF Take, WellTyped, Shapes
  <2>3. WorkerPast(v)'
    <3>1. Onward(<<>>, w)'
      BY DEF Onward
    <3> QED
      BY <2>2, <3>1, NewWorkerPast
  <2> QED
    BY <1>2, <2>1, <2>3, BooksRest, RowsRestPast DEF Take, Operations
<1>3. PICK w : w = worker[v].w
  OBVIOUS
<1>4. ASSUME Handler(v) PROVE w \in Orders
  BY <1>3, <1>4, HandlerStays
<1>5. CASE ReadTask(v) \/ ReadOrder(v)
  BY <1>3, <1>4, <1>5, ReadTaskTypes, ReadOrderTypes, ReadSole, ReadPast DEF Handler
<1>6. CASE Release(v)
  <2>1. Moves(v, w) /\ WSole(v, w) /\ w \in Orders /\ UNCHANGED <<ledgerVars, task>>
    BY <1>3, <1>6, PutDownTypes, PutDownSole DEF Release
  <2>2. worker'[v] = Idle
    BY <1>6 DEF Release, WellTyped, Shapes
  <2> QED
    BY <2>1, <2>2, BooksRest, RowsRestPast DEF WorkerPast, Operations
<1>7. CASE Broadcast(v) \/ CheckStatus(v)
  BY <1>3, <1>4, <1>7, BroadcastTypes, BroadcastSole, CheckStatusTypes, CheckStatusSole, WorkingPast DEF Handler
<1>8. CASE Settle(v) \/ FailAndUnfreeze(v)
  BY <1>3, <1>4, <1>8, SettleTypes, SettleSole, WorkingPast DEF Handler
<1>9. CASE Finalize(v)
  BY <1>3, <1>4, <1>9, FinalizeTypes, FinalizeSole, FinalizePast DEF Handler
<1>10. CASE Write(v)
  BY <1>3, <1>4, <1>10, WriteTypes, WriteSole, WritePast DEF Handler
<1>11. ~LoseWrites(v) /\ ~Crash(v)
  BY DEF LoseWrites, Crash, Fault, Steady
<1> QED
  BY <1>2, <1>5, <1>6, <1>7, <1>8, <1>9, <1>10, <1>11 DEF WorkerStep, Handler

\* A step of an order without a worker's doing.
OrderPast(w) ==
  /\ PastAt(w)' /\ UNCHANGED worker
  /\ task'[w] = task[w] \/ ~BySystem(w) \/ \A v \in Workers : ~On(v, w)

LEMMA OrderPastKeeps ==
  ASSUME WellTyped, AllPast, NEW w \in Orders, Elsewhere(w), OrderPast(w)
  PROVE  AllPast'
<1>1. ASSUME NEW v \in Workers, On(v, w) PROVE WorkerPast(v)'
  <2>1. WorkerPast(v) /\ worker'[v] = worker[v] /\ worker[v].w = w
        /\ (task'[w] = task[w] \/ ~BySystem(w))
    BY <1>1 DEF AllPast, OrderPast, On
  <2> QED
    BY <2>1, WorkerPastRests
<1> QED
  BY <1>1, PastElsewhere DEF OrderPast

\* A task is created for an order that has none, and has not been settled.
LEMMA FirstTaskPast ==
  ASSUME WellTyped, AllPast, NEW w \in Orders, task[w] = None, UNCHANGED worker,
         Has("settle", w)' = Has("settle", w)
  PROVE  OrderPast(w)
<1>1. \A v \in Workers : ~On(v, w)
  BY AtWork DEF On
<1>2. BySystem(w) => ~Has("settle", w)
  BY DEF AllPast, PastAt, Past
<1> QED
  BY <1>1, <1>2 DEF OrderPast, PastAt, BySystem

LEMMA CreateStepPast ==
  ASSUME WellTyped, AllSole, AllPast, NEW w \in Orders, CreateStep(w)
  PROVE  OrderPast(w)
<1>1. Shapes /\ RowsAt(w) /\ SoleAt(w) /\ BookTyped /\ UNCHANGED worker
  BY DEF WellTyped, AllRows, AllSole, Shapes,
         CreateStep, CreateFreeze, CreateInsert, CreateUndo, CreateCrash
<1>2. Has("settle", w)' = Has("settle", w)
  <2>1. CASE UNCHANGED ledgerVars
    BY <2>1, BooksRest DEF Operations
  <2>2. ASSUME NEW op \in {"freeze", "unfreeze"}, NEW ok \in BOOLEAN, Call(op, w, ok)
        PROVE  Has("settle", w)' = Has("settle", w)
    BY <1>1, <2>2, CallHasEffect DEF CallEffect, Operations
  <2> QED
    BY <2>1, <2>2 DEF CreateStep, CreateFreeze, CreateInsert, CreateUndo, CreateCrash
<1>3. CASE UNCHANGED task
  BY <1>1, <1>2, <1>3, RowsRestPast DEF OrderPast
<1>4. CASE CreateInsert(w)
  <2>1. task[w] = None
    BY <1>1, <1>4 DEF CreateInsert, SoleAt, RowsAt
  <2> QED
    BY <1>1, <1>2, <2>1, FirstTaskPast
<1> QED
  BY <1>3, <1>4 DEF CreateStep, CreateFreeze, CreateUndo, CreateCrash

LEMMA AdminStepPast ==
  ASSUME WellTyped, AllSole, AllPast, Orderly, NEW w \in Orders, AdminStep(w)
  PROVE  OrderPast(w)
<1>1. Shapes /\ RowsAt(w) /\ SoleAt(w) /\ BookTyped /\ UNCHANGED worker
  BY DEF WellTyped, AllRows, AllSole, Shapes,
         AdminStep, AdminCall, AdminCommit, AdminRollback, AdminSetHash
<1>2. CASE ~BySystem(w)
  BY <1>1, <1>2 DEF OrderPast, PastAt, BySystem
<1>3. ASSUME NEW op \in AdminOps \cap DOMAIN LedgerCallOf, NEW hash, AdminCall(op, w, hash), BySystem(w)
      PROVE  OrderPast(w)
  <2>1. UNCHANGED task /\ op \in {"approve", "cancel", "reject"}
    BY <1>3 DEF AdminCall, Decides, LedgerCallOf, Orderly, BySystem
  <2>2. Has("settle", w)' = Has("settle", w)
    <3>1. CASE UNCHANGED ledgerVars
      BY <3>1, BooksRest DEF Operations
    <3>2. ASSUME NEW ok \in BOOLEAN, Call(LedgerCallOf[op], w, ok)
          PROVE  Has("settle", w)' = Has("settle", w)
      <4>1. LedgerCallOf[op] \in {"freeze", "unfreeze"}
        BY <2>1 DEF LedgerCallOf
      <4>2. CallEffect(LedgerCallOf[op], w, ok)
        BY <1>1, <3>2, <4>1, CallHasEffect DEF Operations
      <4> QED
        BY <4>1, <4>2 DEF CallEffect, Operations
    <3> QED
      BY <1>3, <3>1, <3>2 DEF AdminCall
  <2> QED
    BY <1>1, <2>1, <2>2, RowsRestPast DEF OrderPast
<1>4. CASE AdminCommit(w) /\ BySystem(w)
  <2>1. /\ admin[w] # None /\ admin[w].op \in {"approve", "cancel", "reject"}
        /\ Has("settle", w)' = Has("settle", w)
    BY <1>1, <1>4, BooksRest DEF AdminCommit, RowsAt, SoleAt, Orderly, Operations
  <2>2. task[w] = None
    BY <1>1, <2>1 DEF SoleAt
  <2> QED
    BY <1>1, <2>1, <2>2, FirstTaskPast
<1>5. CASE AdminRollback(w)
  BY <1>1, <1>5, BooksRest, RowsRestPast DEF AdminRollback, OrderPast, Operations
<1>6. \A hash : AdminSetHash(w, hash) => ~BySystem(w)
  BY DEF AdminSetHash, BySystem
<1> QED
  BY <1>2, <1>3, <1>4, <1>5, <1>6 DEF AdminStep

LEMMA ChainStepPast ==
  ASSUME AllPast, NEW w \in Orders, ExpireLock(w) \/ ManualTransfer(w) \/ ChainDecides(w)
  PROVE  OrderPast(w)
<1>1. UNCHANGED <<ledgerVars, task, worker>>
  BY DEF ExpireLock, ManualTransfer, ChainDecides
<1>2. Has("settle", w)' = Has("settle", w)
  BY <1>1 DEF ledgerVars, Has
<1> QED
  BY <1>1, <1>2, RowsRestPast DEF OrderPast

LEMMA InitPast == Init => AllPast
<1> SUFFICES ASSUME Init PROVE AllPast
  OBVIOUS
<1>1. \A w \in Orders : ~Has("settle", w)
  BY DEF Init, Has, LedgerKeys
<1>2. \A v \in Workers : worker[v] = Idle
  BY DEF Init
<1> QED
  BY <1>1, <1>2 DEF AllPast, PastAt, WorkerPast

LEMMA NextPast == WellTyped /\ AllSole /\ AllPast /\ Orderly /\ [Next]_vars => AllPast'
<1> SUFFICES ASSUME WellTyped, AllSole, AllPast, Orderly, [Next]_vars PROVE AllPast'
  OBVIOUS
<1>1. CASE UNCHANGED vars
  <2>1. UNCHANGED <<posted, task, worker>>
    BY <1>1 DEF vars, ledgerVars, orderVars
  <2>2. \A v \in Workers : WorkerPast(v)'
    BY <2>1, WorkerPastRests DEF AllPast
  <2>3. \A w \in Orders : PastAt(w)'
    BY <2>1, RowsRestPast DEF Has
  <2> QED
    BY <2>2, <2>3 DEF AllPast
<1>2. ASSUME NEW v \in Workers, WorkerStep(v) PROVE AllPast'
  BY <1>2, WorkerStepPast DEF Orderly
<1>3. ASSUME NEW w \in Orders,
             CreateStep(w) \/ AdminStep(w) \/ ExpireLock(w) \/ ManualTransfer(w) \/ ChainDecides(w)
      PROVE  AllPast'
  <2>1. Elsewhere(w)
    BY <1>3, CreateStepTypes, AdminStepTypes, ChainStepTypes DEF KeepsAt
  <2>2. OrderPast(w)
    BY <1>3, CreateStepPast, AdminStepPast, ChainStepPast
  <2> QED
    BY <2>1, <2>2, OrderPastKeeps
<1> QED
  BY <1>1, <1>2, <1>3 DEF Next

\* What a worker gives up has not been settled.
LEMMA UnfreezeUnsettled ==
  ASSUME WellTyped, AllSole, AllPast, NEW v \in Workers, NEW w, worker[v].w = w, FailAndUnfreeze(v)
  PROVE  ~Has("settle", w)
<1>1. On(v, w) /\ w \in Orders /\ worker[v].pc = "unfreeze"
  BY HandlerStays DEF Handler, FailAndUnfreeze
<1>2. BySystem(w) /\ ~Past(w)
  BY <1>1 DEF AllSole, WorkerSole, AllPast, WorkerPast, On
<1> QED
  BY <1>1, <1>2 DEF AllPast, PastAt

-------------------------------------------------------------------------------
(* The money of an order goes one way: it is taken out of its hold once, by a *)
(* settlement or by a refund.                                                *)

SpentAt(w) ==
  /\ Has("settle", w) \/ Has("unfreeze", w) => Has("freeze", w)
  /\ Has("unfreeze", w) => ~Has("settle", w)
  /\ Has("settle", w) => order[w] # None /\ order[w].status # "pending"

AllSpent == \A w \in Orders : SpentAt(w)

OrderlyInv == WellTyped /\ AllPaid /\ AllSole /\ AllCharged /\ AllPast /\ AllSpent

\* The calls that reach the ledger, and what is known when they do.
Booking(op, w) ==
  /\ Book(op, w) /\ UNCHANGED order
  /\ op = "settle" => /\ Has("freeze", w) /\ ~Has("unfreeze", w)
                      /\ order[w] # None /\ order[w].status # "pending"
  /\ op = "unfreeze" => Has("freeze", w) /\ ~Has("settle", w)

LEMMA CallBooks ==
  ASSUME NEW op, NEW w, NEW ok, Call(op, w, ok)
  PROVE  Book(op, w) \/ UNCHANGED ledgerVars
BY DEF Call

LEMMA WorkerBooks ==
  ASSUME OrderlyInv, NEW v \in Workers, WorkerStep(v)
  PROVE  UNCHANGED ledgerVars \/ \E w \in Orders, op \in Operations : Booking(op, w)
<1>1. WellTyped /\ AllSole /\ AllCharged /\ AllPast
  BY DEF OrderlyInv
<1> PICK w : w = worker[v].w
  OBVIOUS
<1>2. ASSUME Handler(v) PROVE On(v, w) /\ w \in Orders
  BY <1>1, <1>2, HandlerStays
<1>3. ASSUME On(v, w)
      PROVE  Has("freeze", w) /\ order[w] # None /\ order[w].status # "pending"
  <2>1. order[w].status \notin {"pending", "cancelled", "rejected"} /\ Has("freeze", w) /\ order[w] # None
    BY <1>1, <1>3, InHand
  <2> QED
    BY <2>1
<1>4. CASE Settle(v)
  <2>1. On(v, w) /\ w \in Orders
    BY <1>2, <1>4 DEF Handler
  <2>2. ~Has("unfreeze", w)
    BY <1>1, <1>4 DEF AllCharged, WorkerCharges, Settle
  <2>3. Book("settle", w) \/ UNCHANGED ledgerVars
    BY <1>4, CallBooks DEF Settle
  <2> QED
    BY <1>3, <1>4, <2>1, <2>2, <2>3 DEF Booking, Operations, Settle
<1>5. CASE FailAndUnfreeze(v)
  <2>1. On(v, w) /\ w \in Orders
    BY <1>2, <1>5 DEF Handler
  <2>2. ~Has("settle", w)
    BY <1>1, <1>5, UnfreezeUnsettled
  <2>3. Book("unfreeze", w) \/ UNCHANGED ledgerVars
    BY <1>5, CallBooks DEF FailAndUnfreeze
  <2> QED
    BY <1>3, <1>5, <2>1, <2>2, <2>3 DEF Booking, Operations, FailAndUnfreeze
<1>6. CASE ~Settle(v) /\ ~FailAndUnfreeze(v)
  BY <1>6 DEF WorkerStep, Handler, ReadTask, ReadOrder, Broadcast, CheckStatus, Finalize, Write,
              Release, LoseWrites, Crash, Take
<1> QED
  BY <1>4, <1>5, <1>6

LEMMA CreateBooks ==
  ASSUME OrderlyInv, NEW w \in Orders, CreateStep(w)
  PROVE  UNCHANGED ledgerVars \/ Booking("freeze", w)
<1>1. ~CreateUndo(w)
  BY DEF OrderlyInv, AllCharged, ChargedAt, CreateUndo
<1>2. CASE CreateFreeze(w)
  BY <1>2, CallBooks DEF CreateFreeze, Booking
<1>3. CASE CreateInsert(w) \/ CreateCrash(w)
  BY <1>3 DEF CreateInsert, CreateCrash
<1> QED
  BY <1>1, <1>2, <1>3 DEF CreateStep

LEMMA AdminBooks ==
  ASSUME OrderlyInv, Orderly, NEW w \in Orders, AdminStep(w)
  PROVE  UNCHANGED ledgerVars \/ \E op \in Operations : Booking(op, w)
<1>1. WellTyped /\ AllSole /\ AllCharged /\ SpentAt(w) /\ ChargedAt(w)
  BY DEF OrderlyInv, AllSpent, AllCharged
<1>2. ASSUME NEW op \in AdminOps \cap DOMAIN LedgerCallOf, NEW hash, AdminCall(op, w, hash)
      PROVE  UNCHANGED ledgerVars \/ \E o \in Operations : Booking(o, w)
  <2>1. /\ order[w] # None /\ admin[w] = None /\ UNCHANGED order
        /\ op \in {"approve", "cancel", "reject", "complete"}
        /\ op \in {"cancel", "reject"} => order[w].status = "pending"
        /\ op = "complete" => order[w].status = "processing" /\ ~BySystem(w)
    BY <1>2 DEF AdminCall, Decides, LedgerCallOf, Orderly, BySystem
  <2>2. Has("freeze", w)
    BY <1>1, <2>1 DEF ChargedAt
  <2>3. Book(LedgerCallOf[op], w) \/ UNCHANGED ledgerVars
    BY <1>2, CallBooks DEF AdminCall
  <2>4. CASE op = "approve"
    BY <2>1, <2>3, <2>4 DEF LedgerCallOf, Booking, Operations
  <2>5. CASE op \in {"cancel", "reject"}
    <3>1. ~Has("settle", w)
      BY <1>1, <2>1, <2>5 DEF SpentAt
    <3> QED
      BY <2>1, <2>2, <2>3, <2>5, <3>1 DEF LedgerCallOf, Booking, Operations
  <2>6. CASE op = "complete"
    <3>1. ~Has("unfreeze", w)
      BY <1>1, <2>1, <2>6, OpenIsHeld DEF Deciding
    <3> QED
      BY <2>1, <2>2, <2>3, <2>6, <3>1 DEF LedgerCallOf, Booking, Operations
  <2> QED
    BY <2>1, <2>4, <2>5, <2>6
<1>3. CASE ~\E op \in AdminOps \cap DOMAIN LedgerCallOf, hash \in {NoHash} \cup DOMAIN chain[w] :
               AdminCall(op, w, hash)
  BY <1>3 DEF AdminStep, AdminCommit, AdminRollback, AdminSetHash
<1> QED
  BY <1>2, <1>3

\* A step books one request at most, and none that may not be booked now.
LEMMA StepBooks ==
  ASSUME OrderlyInv, Orderly, [Next]_vars
  PROVE  UNCHANGED ledgerVars \/ \E w \in Orders, op \in Operations : Booking(op, w)
<1>1. CASE UNCHANGED vars
  BY <1>1 DEF vars
<1>2. ASSUME NEW w \in Orders, CreateStep(w)
      PROVE  UNCHANGED ledgerVars \/ \E op \in Operations : Booking(op, w)
  BY <1>2, CreateBooks DEF Operations
<1>3. ASSUME NEW w \in Orders, ExpireLock(w) \/ ManualTransfer(w) \/ ChainDecides(w)
      PROVE  UNCHANGED ledgerVars
  BY <1>3 DEF ExpireLock, ManualTransfer, ChainDecides
<1> QED
  BY <1>1, <1>2, <1>3, WorkerBooks, AdminBooks DEF Next

\* How the row of an order may change in a step.
RowMoves(w) ==
  \/ order'[w] = order[w]
  \/ /\ order[w] = None /\ creator[w] = "insert"
     /\ order'[w] # None /\ order'[w].status \in {"pending", "processing"}
  \/ /\ order[w] # None /\ order'[w] # None
     /\ \/ order'[w].status = order[w].status
        \/ order'[w].status = "failed" /\ admin[w] = None /\ Failing(w)
        \/ order'[w].status = "completed" /\ admin[w] = None /\ Finalizing(w)
        \/ /\ admin[w] # None
           /\ <<admin[w].op, order'[w].status>> \in
                {<<"approve", "processing">>, <<"cancel", "cancelled">>, <<"reject", "rejected">>,
                 <<"fail", "failed">>, <<"complete", "completed">>}

LEMMA WorkerRows ==
  ASSUME WellTyped, NEW v \in Workers, WorkerStep(v), NEW x \in Orders
  PROVE  RowMoves(x)
<1>1. CASE Write(v)
  <2>1. PICK w : w = worker[v].w
    OBVIOUS
  <2>2. /\ order[w] # None /\ (order[w] # None)'
        /\ \/ order'[w].status = "failed" /\ admin[w] = None /\ FailingBy(v, w)
           \/ order'[w].status = order[w].status
    BY <1>1, <2>1, WriteEffect
  <2>3. x # w => order'[x] = order[x]
    BY <1>1, <2>1, WriteTypes DEF Moves, KeepsAt, Elsewhere
  <2> QED
    BY <2>2, <2>3 DEF RowMoves, Failing
<1>2. CASE Finalize(v)
  <2>1. PICK w : w = worker[v].w
    OBVIOUS
  <2>2. CASE UNCHANGED order
    BY <2>2 DEF RowMoves
  <2>3. CASE admin[w] = None /\ order' = [order EXCEPT ![w].status = "completed"]
    <3>1. On(v, w) /\ w \in Orders /\ task[w] # None /\ worker[v].pc = "finalize" /\ Shapes
      BY <1>2, <2>1, HandlerStays, AtWork DEF Handler, On, Finalize
    <3>2. order[w] # None /\ order[w] \in OrderRow
      BY <3>1 DEF WellTyped, AllRows, RowsAt
    <3>3. order'[w] = [order[w] EXCEPT !.status = "completed"] /\ (x # w => order'[x] = order[x])
      BY <2>3, <3>1 DEF Shapes
    <3>4. order'[w].status = "completed"
      BY <3>2, <3>3 DEF OrderRow
    <3>5. (order[w] # None)'
      BY <1>2, <2>1, <3>2, FinalizeTypes DEF Moves, KeepsAt, Grows
    <3>6. Finalizing(w)
      BY <3>1 DEF Finalizing, FinalizingBy
    <3> QED
      BY <2>3, <3>2, <3>3, <3>4, <3>5, <3>6 DEF RowMoves
  <2> QED
    BY <1>2, <2>1, <2>2, <2>3 DEF Finalize
<1>3. CASE ~Write(v) /\ ~Finalize(v)
  <2>1. UNCHANGED order
    BY <1>3 DEF WorkerStep, Handler, ReadTask, ReadOrder, Broadcast, CheckStatus, Settle,
                FailAndUnfreeze, Release, LoseWrites, Crash, Take
  <2> QED
    BY <2>1 DEF RowMoves
<1> QED
  BY <1>1, <1>2, <1>3

LEMMA CreateRows ==
  ASSUME WellTyped, AllSole, NEW w \in Orders, CreateStep(w)
  PROVE  RowMoves(w)
<1>1. CASE UNCHANGED order
  BY <1>1 DEF RowMoves
<1>2. CASE CreateInsert(w) /\ InsertOrder(w)
  <2>1. creator[w] = "insert" /\ order[w] = None /\ order = [x \in Orders |-> order[x]]
    BY <1>2 DEF CreateInsert, AllSole, SoleAt, WellTyped, Shapes
  <2>2. PICK st \in {"pending", "processing"} : order'[w] = [status |-> st, txHash |-> NoHash]
    BY <1>2, <2>1 DEF InsertOrder
  <2>3. [status |-> st, txHash |-> NoHash] \in OrderRow
    BY DEF OrderRow, NoHash
  <2>4. order'[w] # None /\ order'[w].status = st
    BY <2>2, <2>3, NoneAssumption
  <2> QED
    BY <2>1, <2>4 DEF RowMoves
<1> QED
  BY <1>1, <1>2 DEF CreateStep, CreateFreeze, CreateInsert, CreateUndo, CreateCrash

LEMMA AdminRows ==
  ASSUME WellTyped, NEW w \in Orders, AdminStep(w)
  PROVE  RowMoves(w)
<1>1. Shapes /\ RowsAt(w)
  BY DEF WellTyped, AllRows
<1>2. order[w] # None /\ order[w] \in OrderRow
  BY <1>1 DEF AdminStep, AdminCall, AdminCommit, AdminRollback, AdminSetHash, RowsAt
<1>3. (order[w] # None)'
  BY <1>2, AdminStepTypes DEF KeepsAt, Grows
<1>4. CASE UNCHANGED order
  BY <1>4 DEF RowMoves
<1>5. CASE AdminCommit(w)
  <2>1. \A st : Restated(w, st) => order'[w].status = st
    BY <1>1, <1>2 DEF Restated, Shapes, OrderRow
  <2>2. admin[w] # None
    BY <1>5 DEF AdminCommit
  <2>3. CASE admin[w].op = "complete" /\ CommitComplete(w, admin[w].hash)
    <3>1. order'[w].status = "completed"
      BY <1>1, <2>3 DEF CommitComplete, Shapes
    <3> QED
      BY <1>2, <1>3, <2>2, <2>3, <3>1 DEF RowMoves
  <2>4. CASE \/ admin[w].op = "approve" /\ Restated(w, "processing")
             \/ admin[w].op = "cancel" /\ Restated(w, "cancelled")
             \/ admin[w].op = "reject" /\ Restated(w, "rejected")
             \/ admin[w].op = "fail" /\ Restated(w, "failed")
    BY <1>2, <1>3, <2>1, <2>2, <2>4 DEF RowMoves
  <2> QED
    BY <1>5, <2>3, <2>4 DEF AdminCommit, CommitApprove, CommitCancel, CommitReject, CommitFail
<1>6. ASSUME NEW hash, AdminSetHash(w, hash) PROVE RowMoves(w)
  <2>1. order'[w] = [order[w] EXCEPT !.txHash = hash]
    BY <1>1, <1>6 DEF AdminSetHash, Shapes
  <2>2. order'[w].status = order[w].status
    BY <1>2, <2>1 DEF OrderRow
  <2> QED
    BY <1>2, <1>3, <2>2 DEF RowMoves
<1> QED
  BY <1>4, <1>5, <1>6 DEF AdminStep, AdminCall, AdminRollback

LEMMA RowsMove ==
  ASSUME WellTyped, AllSole, [Next]_vars, NEW x \in Orders
  PROVE  RowMoves(x)
<1>1. CASE UNCHANGED vars
  BY <1>1 DEF vars, orderVars, RowMoves
<1>2. ASSUME NEW w \in Orders,
             CreateStep(w) \/ AdminStep(w) \/ ExpireLock(w) \/ ManualTransfer(w) \/ ChainDecides(w)
      PROVE  RowMoves(x)
  <2>1. x # w => order'[x] = order[x]
    BY <1>2, CreateStepTypes, AdminStepTypes, ChainStepTypes DEF KeepsAt, Elsewhere
  <2>2. RowMoves(w)
    <3>1. CASE ExpireLock(w) \/ ManualTransfer(w) \/ ChainDecides(w)
      BY <3>1 DEF ExpireLock, ManualTransfer, ChainDecides, RowMoves
    <3> QED
      BY <1>2, <3>1, CreateRows, AdminRows
  <2> QED
    BY <2>1, <2>2 DEF RowMoves
<1> QED
  BY <1>1, <1>2, WorkerRows DEF Next

\* What a booking does to what has been booked.
LEMMA BookingHas ==
  ASSUME WellTyped, NEW w \in Orders, NEW op \in Operations, Book(op, w)
  PROVE  /\ \A o \in Operations, x \in Orders : o # op \/ x # w => Has(o, x)' = Has(o, x)
         /\ Has(op, w) => Has(op, w)'
BY BookEffect DEF WellTyped, Shapes, CallEffect

LEMMA SpentStep ==
  ASSUME OrderlyInv, Orderly, [Next]_vars
  PROVE  AllSpent'
<1>1. WellTyped /\ AllSole /\ AllSpent
  BY DEF OrderlyInv
<1> SUFFICES ASSUME NEW x \in Orders PROVE SpentAt(x)'
  BY DEF AllSpent
<1>2. SpentAt(x) /\ RowMoves(x)
  BY <1>1, RowsMove DEF AllSpent
<1>3. order[x] # None /\ order[x].status # "pending" => order'[x] # None /\ order'[x].status # "pending"
  BY <1>2 DEF RowMoves
<1>4. CASE UNCHANGED ledgerVars
  <2>1. \A op : Has(op, x)' = Has(op, x)
    BY <1>4 DEF ledgerVars, Has
  <2> QED
    BY <1>2, <1>3, <2>1 DEF SpentAt
<1>5. ASSUME NEW w \in Orders, NEW op \in Operations, Booking(op, w), x # w
      PROVE  SpentAt(x)'
  <2>1. \A o \in Operations : Has(o, x)' = Has(o, x)
    BY <1>1, <1>5, BookingHas DEF Booking
  <2> QED
    BY <1>2, <1>3, <2>1 DEF SpentAt, Operations
<1>6. ASSUME NEW op \in Operations, Booking(op, x)
      PROVE  SpentAt(x)'
  <2>1. /\ \A o \in Operations : o # op => Has(o, x)' = Has(o, x)
        /\ Has(op, x) => Has(op, x)'
    BY <1>1, <1>6, BookingHas DEF Booking
  <2>2. CASE op = "freeze"
    BY <1>2, <1>3, <2>1, <2>2 DEF SpentAt, Operations
  <2>3. CASE op = "settle"
    BY <1>2, <1>3, <1>6, <2>1, <2>3 DEF SpentAt, Operations, Booking
  <2>4. CASE op = "unfreeze"
    BY <1>2, <1>3, <1>6, <2>1, <2>4 DEF SpentAt, Operations, Booking
  <2> QED
    BY <2>2, <2>3, <2>4 DEF Operations
<1> QED
  BY <1>4, <1>5, <1>6, StepBooks

LEMMA InitSpent == Init => AllSpent
<1> SUFFICES ASSUME Init, NEW w \in Orders PROVE SpentAt(w)
  BY DEF AllSpent
<1>1. \A op \in Operations : ~Has(op, w)
  BY DEF Init, Has, LedgerKeys, Operations
<1> QED
  BY <1>1 DEF SpentAt, Operations

LEMMA SpecOrderly == Orderly => (Spec => []OrderlyInv)
<1> SUFFICES ASSUME Orderly PROVE Spec => []OrderlyInv
  OBVIOUS
<1>1. Init => OrderlyInv
  BY InitWellTyped, InitPaid, InitSole, InitCharged, InitPast, InitSpent DEF OrderlyInv
<1>2. OrderlyInv /\ [Next]_vars => OrderlyInv'
  BY NextWellTyped, NextPaid, NextSole, NextCharged, NextPast, SpentStep DEF Orderly, OrderlyInv
<1> QED
  BY <1>1, <1>2, PTL DEF Spec

-------------------------------------------------------------------------------
(* Holds do not pay for each other.                                          *)

UserBalance(u, b) == L!UserKey(u, Asset, b)

\* What a request moves in a bucket of the order's user.
Shift(op, w, b) ==
  IF b = "locked" THEN IF op = "freeze" THEN AmountOf[w] ELSE -AmountOf[w]
  ELSE IF op = "freeze" THEN -AmountOf[w]
  ELSE IF op = "unfreeze" THEN AmountOf[w] ELSE 0

LEMMA AmountsType ==
  ASSUME NEW w \in Orders
  PROVE  /\ AmountOf[w] \in Nat /\ FeeOf[w] \in Nat /\ FeeOf[w] < AmountOf[w] /\ UserOf[w] \in Users
         /\ \A op, b : Shift(op, w, b) \in Int
BY PayoutAssumption DEF Shift, Users

\* A request debits a bucket of the user by what it takes out of it.
LEMMA RequestDebits ==
  ASSUME NEW w \in Orders, NEW op \in Operations, NEW u \in Users, NEW b \in L!Buckets
  PROVE  LET net == LedgerRequest(op, w).net
         IN IF UserBalance(u, b) \in DOMAIN net
              THEN u = UserOf[w] /\ net[UserBalance(u, b)] = -Shift(op, w, b)
              ELSE u # UserOf[w] \/ Shift(op, w, b) = 0
<1> DEFINE net == LedgerRequest(op, w).net
           key == UserBalance(u, b)
<1> PICK free, held, hot, income :
      /\ free = L!UserKey(UserOf[w], Asset, "available") /\ held = L!UserKey(UserOf[w], Asset, "locked")
      /\ hot = L!SystemKey(L!HotAccount(Chain), Asset)
      /\ income = L!SystemKey(L!SysAccount("SYS_FEE_INCOME"), Asset)
  OBVIOUS
<1>1. /\ key = free <=> u = UserOf[w] /\ b = "available"
      /\ key = held <=> u = UserOf[w] /\ b = "locked"
      /\ key # hot /\ key # income /\ free # held /\ held # hot /\ held # income /\ hot # income
  BY DEF UserBalance, L!UserKey, L!UserAccount, L!SystemKey, L!HotAccount, L!SysAccount
<1>2. b \in {"available", "locked"}
  BY DEF L!Buckets
<1>3. AmountOf[w] \in Nat /\ FeeOf[w] \in Nat /\ FeeOf[w] < AmountOf[w]
  BY AmountsType
<1> HIDE DEF key
<1>4. CASE op = "freeze"
  <2>1. net = L!Move(free, held, AmountOf[w])
    BY <1>4 DEF LedgerRequest, L!FreezeRequest, L!Request
  <2> HIDE DEF net
  <2>2. DOMAIN net = {free, held} /\ net[free] = AmountOf[w] /\ net[held] = -AmountOf[w]
    BY <1>1, <2>1 DEF L!Move
  <2> QED
    BY <1>1, <1>2, <1>3, <1>4, <2>2 DEF net, key, Shift
<1>5. CASE op = "unfreeze"
  <2>1. net = L!Move(held, free, AmountOf[w])
    BY <1>5 DEF LedgerRequest, L!UnfreezeRequest, L!Request
  <2> HIDE DEF net
  <2>2. DOMAIN net = {free, held} /\ net[held] = AmountOf[w] /\ net[free] = -AmountOf[w]
    BY <1>1, <2>1 DEF L!Move
  <2> QED
    BY <1>1, <1>2, <1>3, <1>5, <2>2 DEF net, key, Shift
<1>6. CASE op = "settle"
  <2>1. free \notin DOMAIN net /\ held \in DOMAIN net /\ net[held] = AmountOf[w]
        /\ DOMAIN net \subseteq {held, hot, income}
    <3>1. CASE FeeOf[w] = 0
      <4>1. net = L!Move(held, hot, AmountOf[w] - FeeOf[w])
        BY <1>6, <3>1 DEF LedgerRequest, L!SettleRequest, L!Request
      <4> QED
        BY <1>1, <1>3, <3>1, <4>1 DEF L!Move, UserBalance, L!UserKey, L!UserAccount, L!SystemKey, L!HotAccount
    <3>2. CASE FeeOf[w] # 0
      <4>1. net = [k \in {held, hot, income} |->
                     IF k = held THEN AmountOf[w] - FeeOf[w] + FeeOf[w]
                     ELSE IF k = hot THEN -(AmountOf[w] - FeeOf[w]) ELSE -FeeOf[w]]
        BY <1>6, <3>2 DEF LedgerRequest, L!SettleRequest, L!Request
      <4>2. free \notin {held, hot, income}
        BY DEF L!UserKey, L!UserAccount, L!SystemKey, L!HotAccount, L!SysAccount
      <4> QED
        BY <1>3, <4>1, <4>2
    <3> QED
      BY <3>1, <3>2
  <2> HIDE DEF net
  <2> QED
    BY <1>1, <1>2, <1>3, <1>6, <2>1 DEF net, key, Shift
<1> QED
  BY <1>4, <1>5, <1>6 DEF Operations, net, key

\* So that booking it moves that bucket, and no other of a user.
LEMMA ApplyShifts ==
  ASSUME DOMAIN balance = L!BalanceKey, normalSide["USER_LIABILITY"] = "credit",
         NEW w \in Orders, NEW op \in Operations, NEW u \in Users, NEW b \in L!Buckets,
         balance[UserBalance(u, b)] \in Int
  PROVE  L!Apply(LedgerRequest(op, w).net)[UserBalance(u, b)] =
           balance[UserBalance(u, b)] + (IF u = UserOf[w] THEN Shift(op, w, b) ELSE 0)
<1> DEFINE net == LedgerRequest(op, w).net
           key == UserBalance(u, b)
<1>1. key \in L!BalanceKey
  BY DEF UserBalance, L!BalanceKey
<1>2. L!TypeOf(key) = "USER_LIABILITY"
  BY DEF UserBalance, L!UserKey, L!UserAccount, L!TypeOf
<1>3. IF key \in DOMAIN net THEN u = UserOf[w] /\ net[key] = -Shift(op, w, b)
                            ELSE u # UserOf[w] \/ Shift(op, w, b) = 0
  BY RequestDebits
<1> HIDE DEF net, key
<1>4. L!Delta(net, key) = -net[key]
  BY <1>2 DEF L!Delta
<1>5. L!Apply(net)[key] = IF key \in DOMAIN net THEN balance[key] + L!Delta(net, key) ELSE balance[key]
  BY <1>1 DEF L!Apply
<1>6. Shift(op, w, b) \in Int /\ balance[key] \in Int
  BY AmountsType DEF key
<1>7. CASE key \in DOMAIN net
  BY <1>3, <1>4, <1>5, <1>6, <1>7 DEF net, key
<1>8. CASE key \notin DOMAIN net
  BY <1>3, <1>5, <1>6, <1>8 DEF net, key
<1> QED
  BY <1>7, <1>8

\* What an order holds of a user's money.
HeldBy(u, w) ==
  IF UserOf[w] = u /\ Has("freeze", w) /\ ~Has("settle", w) /\ ~Has("unfreeze", w)
    THEN AmountOf[w] ELSE 0
HeldFor(u)   == [w \in Orders |-> HeldBy(u, w)]
HeldSum(u)   == SumFunctionOnSet(HeldFor(u), Orders)

\* The ledger's configuration is as it was installed, what a user has locked is
\* what his orders hold, and with what is available no more than he came with.
HoldsInv ==
  /\ DOMAIN balance = L!BalanceKey /\ normalSide["USER_LIABILITY"] = "credit" /\ retired = {}
  /\ \A u \in Users :
       /\ balance[UserBalance(u, "locked")] = HeldSum(u)
       /\ balance[UserBalance(u, "available")] \in Nat
       /\ balance[UserBalance(u, "available")] + balance[UserBalance(u, "locked")] <= Funds[u]

LEMMA HeldType ==
  ASSUME NEW u, NEW w \in Orders
  PROVE  HeldFor(u)[w] = HeldBy(u, w) /\ HeldBy(u, w) \in Nat
BY AmountsType DEF HeldFor, HeldBy

LEMMA HeldSumType ==
  ASSUME IsFiniteSet(Orders), NEW u
  PROVE  HeldSum(u) \in Nat /\ \A w \in Orders : HeldBy(u, w) <= HeldSum(u)
<1>1. \A w \in Orders : HeldFor(u)[w] = HeldBy(u, w) /\ HeldFor(u)[w] \in Nat
  BY HeldType
<1>2. SumFunctionOnSet(HeldFor(u), Orders) \in Nat
      /\ \A w \in Orders : HeldFor(u)[w] <= SumFunctionOnSet(HeldFor(u), Orders)
  BY <1>1, SumOfNaturals
<1> QED
  BY <1>1, <1>2 DEF HeldSum

\* What a booking does to rows and requests.
LEMMA BookMoves ==
  ASSUME WellTyped, NEW w \in Orders, NEW op \in Operations, Book(op, w)
  PROVE  /\ UNCHANGED <<normalSide, retired>>
         /\ \/ UNCHANGED <<posted, balance>>
            \/ /\ ~Has(op, w) /\ Has(op, w)'
               /\ \A o \in Operations, x \in Orders : o # op \/ x # w => Has(o, x)' = Has(o, x)
               /\ L!Fits(LedgerRequest(op, w).net)
               /\ balance' = L!Apply(LedgerRequest(op, w).net)
<1> PICK key, req : key = <<op, w>> /\ req = LedgerRequest(op, w)
  OBVIOUS
<1>1. PICK types, writes : L!Post(key, req, types, writes)
  BY DEF Book, L!FreezeWithdraw, L!UnfreezeWithdraw, L!SettleWithdraw, LedgerRequest, Operations
<1>2. UNCHANGED <<normalSide, retired>>
  BY <1>1 DEF L!Post, L!setupVars
<1>3. posted = [k \in LedgerKeys |-> posted[k]] /\ key \in LedgerKeys
  BY DEF WellTyped, Shapes, BookTyped, LedgerKeys, Operations
<1>4. \/ UNCHANGED <<posted, balance>>
      \/ L!Booked(key, req) /\ (posted[key] = req \/ (posted[key] = None /\ L!Fits(req.net)))
  BY <1>1 DEF L!Post, L!Succeeds
<1>5. req # None
  BY NoneAssumption DEF Operations
<1>6. CASE L!Booked(key, req) /\ posted[key] = req
  BY <1>2, <1>3, <1>5, <1>6 DEF L!Booked
<1>7. CASE L!Booked(key, req) /\ posted[key] = None /\ L!Fits(req.net)
  <2>1. posted' = [posted EXCEPT ![key] = req] /\ balance' = L!Apply(req.net)
    BY <1>7 DEF L!Booked
  <2>2. ~Has(op, w) /\ Has(op, w)'
    BY <1>3, <1>5, <1>7, <2>1 DEF Has
  <2>3. \A o \in Operations, x \in Orders : o # op \/ x # w => Has(o, x)' = Has(o, x)
    BY BookingHas
  <2> QED
    BY <1>2, <1>7, <2>1, <2>2, <2>3
<1> QED
  BY <1>2, <1>4, <1>6, <1>7

\* A booking takes out of, or puts into, a hold what the order's sum shows.
LEMMA HeldMoves ==
  ASSUME IsFiniteSet(Orders), WellTyped, AllSpent, NEW w \in Orders, NEW op \in Operations,
         Booking(op, w), ~Has(op, w), Has(op, w)',
         \A o \in Operations, x \in Orders : o # op \/ x # w => Has(o, x)' = Has(o, x), NEW u \in Users
  PROVE  HeldSum(u)' = HeldSum(u) + (IF u = UserOf[w] THEN Shift(op, w, "locked") ELSE 0)
<1>1. \A x \in Orders : x # w => HeldBy(u, x)' = HeldBy(u, x)
  BY DEF HeldBy, Operations
<1>2. SpentAt(w)
  BY DEF AllSpent
<1>3. HeldBy(u, w)' = HeldBy(u, w) + (IF u = UserOf[w] THEN Shift(op, w, "locked") ELSE 0)
  <2>1. AmountOf[w] \in Nat
    BY AmountsType
  <2>2. CASE u # UserOf[w]
    BY <2>2 DEF HeldBy
  <2>3. CASE u = UserOf[w] /\ op = "freeze"
    BY <1>2, <2>1, <2>3 DEF HeldBy, Shift, SpentAt, Operations
  <2>4. CASE u = UserOf[w] /\ op # "freeze"
    BY <1>2, <2>1, <2>4 DEF HeldBy, Shift, SpentAt, Operations, Booking
  <2> QED
    BY <2>2, <2>3, <2>4
<1> PICK f, g : f = HeldFor(u) /\ g = HeldFor(u)'
  OBVIOUS
<1>4. \A x \in Orders : f[x] = HeldBy(u, x) /\ g[x] = HeldBy(u, x)' /\ f[x] \in Int /\ g[x] \in Int
  <2>1. \A x \in Orders : HeldBy(u, x)' \in Nat
    BY AmountsType DEF HeldBy
  <2> QED
    BY <2>1, HeldType DEF HeldFor
<1>5. \A x \in Orders : x # w => g[x] = f[x]
  BY <1>1, <1>4
<1>6. SumFunctionOnSet(g, Orders) = SumFunctionOnSet(f, Orders) + g[w] - f[w]
  BY <1>4, <1>5, SumChanged
<1>7. \A n, a, c \in Int : n + (a + c) - a = n + c
  OBVIOUS
<1>8. Shift(op, w, "locked") \in Int /\ SumFunctionOnSet(f, Orders) \in Int
  BY <1>4, AmountsType, SumType
<1> QED
  BY <1>3, <1>4, <1>6, <1>7, <1>8 DEF HeldSum

LEMMA HoldsStep ==
  ASSUME IsFiniteSet(Orders), OrderlyInv, Orderly, HoldsInv, [Next]_vars
  PROVE  HoldsInv'
<1>1. WellTyped /\ AllSpent
  BY DEF OrderlyInv
<1>2. CASE UNCHANGED ledgerVars
  <2>1. UNCHANGED <<posted, balance, normalSide, retired>>
    BY <1>2 DEF ledgerVars
  <2>2. \A u : HeldFor(u)' = HeldFor(u)
    BY <2>1 DEF HeldFor, HeldBy, Has
  <2> QED
    BY <2>1, <2>2 DEF HoldsInv, HeldSum
<1>3. ASSUME NEW w \in Orders, NEW op \in Operations, Booking(op, w)
      PROVE  HoldsInv'
  <2>1. /\ UNCHANGED <<normalSide, retired>>
        /\ \/ UNCHANGED <<posted, balance>>
           \/ /\ ~Has(op, w) /\ Has(op, w)'
              /\ \A o \in Operations, x \in Orders : o # op \/ x # w => Has(o, x)' = Has(o, x)
              /\ L!Fits(LedgerRequest(op, w).net)
              /\ balance' = L!Apply(LedgerRequest(op, w).net)
    BY <1>1, <1>3, BookMoves DEF Booking
  <2>2. CASE UNCHANGED <<posted, balance>>
    <3>1. \A u : HeldFor(u)' = HeldFor(u)
      BY <2>2 DEF HeldFor, HeldBy, Has
    <3> QED
      BY <2>1, <2>2, <3>1 DEF HoldsInv, HeldSum
  <2>3. CASE /\ ~Has(op, w) /\ Has(op, w)'
             /\ \A o \in Operations, x \in Orders : o # op \/ x # w => Has(o, x)' = Has(o, x)
             /\ L!Fits(LedgerRequest(op, w).net)
             /\ balance' = L!Apply(LedgerRequest(op, w).net)
    <3>1. DOMAIN balance' = L!BalanceKey
      BY <2>3 DEF L!Apply
    <3>2. ASSUME NEW u \in Users
          PROVE  /\ balance'[UserBalance(u, "locked")] = HeldSum(u)'
                 /\ balance'[UserBalance(u, "available")] \in Nat
                 /\ balance'[UserBalance(u, "available")] + balance'[UserBalance(u, "locked")] <= Funds[u]
      <4>1. /\ balance[UserBalance(u, "locked")] = HeldSum(u)
            /\ balance[UserBalance(u, "available")] \in Nat
            /\ balance[UserBalance(u, "available")] + balance[UserBalance(u, "locked")] <= Funds[u]
            /\ DOMAIN balance = L!BalanceKey /\ normalSide["USER_LIABILITY"] = "credit"
        BY DEF HoldsInv
      <4>2. "locked" \in L!Buckets /\ "available" \in L!Buckets
        BY DEF L!Buckets
      <4>3. HeldSum(u) \in Nat /\ Funds[u] \in Nat
        BY HeldSumType, PayoutAssumption DEF Users
      <4>4. \A b \in L!Buckets :
              balance'[UserBalance(u, b)] =
                balance[UserBalance(u, b)] + (IF u = UserOf[w] THEN Shift(op, w, b) ELSE 0)
        <5>1. \A b \in L!Buckets : balance[UserBalance(u, b)] \in Int
          BY <4>1, <4>3 DEF L!Buckets
        <5> QED
          BY <2>3, <4>1, <5>1, ApplyShifts
      <4>5. HeldSum(u)' = HeldSum(u) + (IF u = UserOf[w] THEN Shift(op, w, "locked") ELSE 0)
        BY <1>1, <1>3, <2>3, HeldMoves
      <4>6. AmountOf[w] \in Nat
        BY AmountsType
      <4>7. CASE u # UserOf[w]
        BY <4>1, <4>2, <4>3, <4>4, <4>5, <4>7
      <4>8. CASE u = UserOf[w]
        <5>1. balance'[UserBalance(u, "available")] >= 0
          <6>1. CASE op = "freeze"
            <7> PICK key, net : key = UserBalance(u, "available") /\ net = LedgerRequest(op, w).net
              OBVIOUS
            <7>1. Shift(op, w, "available") = -AmountOf[w] /\ AmountOf[w] # 0
              BY <6>1, AmountsType DEF Shift
            <7>2. key \in DOMAIN net
              <8>1. ~(u # UserOf[w] \/ Shift(op, w, "available") = 0)
                BY <4>6, <4>8, <7>1
              <8> QED
                BY <1>3, <4>2, <8>1, RequestDebits
            <7>3. key \in L!BalanceKey
              BY <4>2 DEF UserBalance, L!BalanceKey
            <7>4. balance'[key] = balance[key] + L!Delta(net, key)
              BY <2>3, <7>2, <7>3 DEF L!Apply
            <7>5. balance'[key] \in 0 .. SumFunction(Funds)
              BY <2>3, <7>2, <7>4 DEF L!Fits
            <7>6. \A n, m : n \in 0 .. m => n >= 0
              OBVIOUS
            <7> QED
              BY <7>5, <7>6
          <6>2. CASE op # "freeze"
            BY <4>1, <4>2, <4>4, <4>6, <4>8, <6>2 DEF Shift
          <6> QED
            BY <6>1, <6>2
        <5>2. Shift(op, w, "available") \in Int /\ Shift(op, w, "locked") \in Int
              /\ Shift(op, w, "available") + Shift(op, w, "locked") <= 0
          BY <4>6 DEF Shift
        <5> QED
          BY <4>1, <4>2, <4>3, <4>4, <4>5, <4>8, <5>1, <5>2
      <4> QED
        BY <4>7, <4>8
    <3> QED
      BY <2>1, <3>1, <3>2 DEF HoldsInv
  <2> QED
    BY <2>1, <2>2, <2>3
<1> QED
  BY <1>2, <1>3, StepBooks

LEMMA HoldsInit == IsFiniteSet(Orders) /\ Init => HoldsInv
<1> SUFFICES ASSUME IsFiniteSet(Orders), Init PROVE HoldsInv
  OBVIOUS
<1>1. DOMAIN balance = L!BalanceKey /\ normalSide["USER_LIABILITY"] = "credit" /\ retired = {}
  BY DEF Init, L!InitialSide, L!AccountTypes
<1>2. ASSUME NEW u \in Users
      PROVE  HeldSum(u) = 0 /\ balance[UserBalance(u, "locked")] = 0
             /\ balance[UserBalance(u, "available")] = Funds[u] /\ Funds[u] \in Nat
  <2>1. HeldSum(u) = 0
    <3>1. \A w \in Orders : HeldFor(u)[w] = 0 /\ HeldFor(u)[w] \in Int
      BY DEF Init, HeldFor, HeldBy, Has, LedgerKeys
    <3>2. {} \in SUBSET Orders
      OBVIOUS
    <3> QED
      BY <3>1, <3>2, SumOfPart, SumEmpty DEF HeldSum
  <2>2. /\ UserBalance(u, "locked") \in L!BalanceKey /\ UserBalance(u, "available") \in L!BalanceKey
        /\ UserBalance(u, "locked") # L!SystemKey(L!HotAccount(Chain), Asset)
        /\ UserBalance(u, "available") # L!SystemKey(L!HotAccount(Chain), Asset)
        /\ UserBalance(u, "locked") \notin {L!UserKey(x, Asset, "available") : x \in Users}
        /\ UserBalance(u, "available") \in {L!UserKey(x, Asset, "available") : x \in Users}
        /\ UserBalance(u, "available")[1][2] = u
    BY DEF UserBalance, L!BalanceKey, L!Buckets, L!UserKey, L!UserAccount, L!SystemKey, L!HotAccount
  <2>3. Funds[u] \in Nat
    BY PayoutAssumption DEF Users
  <2> QED
    BY <2>1, <2>2, <2>3 DEF Init
<1> QED
  BY <1>1, <1>2 DEF HoldsInv

LEMMA SpecHolds == IsFiniteSet(Orders) /\ Orderly => (Spec => [](OrderlyInv /\ HoldsInv))
<1> SUFFICES ASSUME IsFiniteSet(Orders), Orderly PROVE Spec => [](OrderlyInv /\ HoldsInv)
  OBVIOUS
<1>1. OrderlyInv /\ HoldsInv /\ [Next]_vars => HoldsInv'
  BY HoldsStep
<1> QED
  BY <1>1, HoldsInit, SpecOrderly, PTL DEF Spec

\* What the ledger keeps locked for a user is what his withdrawals in progress
\* hold, so that no settlement or refund is paid from the hold of another order,
\* for any users, orders, amounts, fees and deposits.  The hypotheses are those
\* of ConfirmedChargeable: they keep an order from being settled and refunded.
THEOREM LockedOnlyHeld ==
  ASSUME IsFiniteSet(Orders),
         FaultKinds \cap {"crash", "db_write", "lost_hash", "lease_lapse", "commit_unknown", "rollback"} = {},
         "fail" \notin AdminOps,
         "lost_answer" \notin FaultKinds \/ AdminOps \cap {"cancel", "reject"} = {}
  PROVE  Spec => []LockedIsHeld
<1>1. Orderly
  BY DEF Orderly, Steady
<1>2. HoldsInv => LockedIsHeld
  <2>1. \A u : HeldSum(u) = SumFunction(HeldFor(u))
    BY DEF HeldSum, HeldFor, SumFunction
  <2> QED
    BY <2>1 DEF HoldsInv, LockedIsHeld, HeldFor, HeldBy, UserBalance
<1> QED
  BY <1>1, <1>2, SpecHolds, PTL

-------------------------------------------------------------------------------
(* A withdrawal keeps its contract: where it is closed, its money went first.  *)

Dependable ==
  /\ IsFiniteSet(Orders) /\ Orderly
  /\ FaultKinds \cap {"rpc_down", "event_read"} = {} /\ Precision >= 6

\* Who turns an order down has given its money back before.
ClosedAt(w) ==
  /\ order[w] # None /\ order[w].status \in {"failed", "cancelled", "rejected"} => Has("unfreeze", w)
  /\ Deciding(w, {"cancel", "reject"}) => Has("unfreeze", w)
  /\ Failing(w) => Has("unfreeze", w)

AllClosed == \A w \in Orders : ClosedAt(w)

ContractInv == OrderlyInv /\ HoldsInv /\ AllClosed

\* Debit and credit of two accounts balance, asset by asset.
LEMMA MoveBalances ==
  ASSUME NEW k1, NEW k2, NEW amt \in Int, k1 # k2, k1[2] = Asset, k2[2] = Asset
  PROVE  L!Balanced(L!Move(k1, k2, amt))
<1> DEFINE net == L!Move(k1, k2, amt)
<1>1. DOMAIN net = {k1, k2} /\ net[k1] = amt /\ net[k2] = -amt
  BY DEF L!Move
<1> HIDE DEF net
<1>2. \A k \in DOMAIN net : L!OfAsset(DOMAIN net, k[2]) = {k1, k2}
  BY <1>1 DEF L!OfAsset
<1>3. IsFiniteSet({k1, k2}) /\ IsFiniteSet({k2}) /\ {k1, k2} \ {k1} = {k2} /\ {k2} \ {k2} = {}
  BY FS_Singleton, FS_AddElement, FS_EmptySet
<1>4. SumFunctionOnSet(net, {k1, k2}) = net[k1] + SumFunctionOnSet(net, {k2})
  BY <1>1, <1>3, SumTakeOut
<1>5. SumFunctionOnSet(net, {k2}) = net[k2] + SumFunctionOnSet(net, {})
  BY <1>1, <1>3, SumTakeOut
<1>6. SumFunctionOnSet(net, {k1, k2}) = 0
  BY <1>1, <1>4, <1>5, SumEmpty
<1>7. L!SumFunctionOnSet(net, {k1, k2}) = SumFunctionOnSet(net, {k1, k2})
  BY DEF L!SumFunctionOnSet, L!FoldFunctionOnSet, L!MapThenFoldSet,
         SumFunctionOnSet, FoldFunctionOnSet, MapThenFoldSet
<1>8. L!Balanced(net)
  BY <1>2, <1>6, <1>7 DEF L!Balanced
<1> QED
  BY <1>8 DEF net

\* What a user came with is part of what all came with.
LEMMA FundsAreFunded ==
  ASSUME IsFiniteSet(Orders), NEW u \in Users
  PROVE  Funds[u] \in Nat /\ SumFunction(Funds) \in Nat /\ Funds[u] <= SumFunction(Funds)
<1>1. IsFiniteSet(Users)
  <2>1. [w \in Orders |-> UserOf[w]] \in Surjection(Orders, Users)
    BY DEF Users, Surjection
  <2> QED
    BY <2>1, FS_Surjection
<1>2. DOMAIN Funds = Users /\ \A x \in Users : Funds[x] \in Nat
  BY PayoutAssumption DEF Users
<1>3. SumFunctionOnSet(Funds, Users) \in Nat /\ \A x \in Users : Funds[x] <= SumFunctionOnSet(Funds, Users)
  BY <1>1, <1>2, SumOfNaturals
<1>4. SumFunction(Funds) = SumFunctionOnSet(Funds, Users)
  BY <1>2 DEF SumFunction
<1> QED
  BY <1>2, <1>3, <1>4

\* The ledger takes a refund of money that is held.
LEMMA RefundAccepted ==
  ASSUME IsFiniteSet(Orders), WellTyped, HoldsInv, NEW w \in Orders,
         Has("freeze", w), ~Has("settle", w), ~Has("unfreeze", w), Book("unfreeze", w)
  PROVE  Has("unfreeze", w)'
<1> PICK key, req, net, all, free, held, u :
      /\ key = <<"unfreeze", w>> /\ req = LedgerRequest("unfreeze", w) /\ net = req.net
      /\ all = L!UserTypes \cup L!SystemTypes /\ u = UserOf[w]
      /\ free = UserBalance(u, "available") /\ held = UserBalance(u, "locked")
  OBVIOUS
<1>1. net = L!Move(held, free, AmountOf[w])
  BY DEF LedgerRequest, L!UnfreezeRequest, L!Request, UserBalance
<1>2. AmountOf[w] \in Nat /\ u \in Users
  BY AmountsType
<1>3. /\ held # free /\ held[2] = Asset /\ free[2] = Asset
      /\ L!TypeOf(held) = "USER_LIABILITY" /\ L!TypeOf(free) = "USER_LIABILITY"
  BY DEF UserBalance, L!UserKey, L!UserAccount, L!TypeOf
<1>4. DOMAIN net = {held, free} /\ net[held] = AmountOf[w] /\ net[free] = -AmountOf[w]
  BY <1>1, <1>3 DEF L!Move
<1>5. L!Balanced(net)
  BY <1>1, <1>2, <1>3, MoveBalances
<1>6. L!Admissible(net, L!EnsureSupport(all))
  <2>1. "USER_LIABILITY" \in L!AccountTypes
    BY DEF L!AccountTypes
  <2>2. <<"USER_LIABILITY", Asset>> \in L!EnsureSupport(all) /\ retired = {}
    BY <2>1 DEF L!EnsureSupport, WellTyped, Shapes, BookTyped, HoldsInv
  <2> QED
    BY <1>3, <1>4, <2>2 DEF L!Admissible
<1>7. L!Fits(net)
  <2>1. /\ normalSide["USER_LIABILITY"] = "credit" /\ balance[held] = HeldSum(u) /\ balance[free] \in Nat
        /\ balance[free] + balance[held] <= Funds[u]
    BY <1>2 DEF HoldsInv
  <2>2. HeldSum(u) \in Nat /\ AmountOf[w] <= HeldSum(u)
    <3>1. HeldBy(u, w) = AmountOf[w]
      BY DEF HeldBy
    <3> QED
      BY <3>1, HeldSumType
  <2>3. Funds[u] \in Nat /\ SumFunction(Funds) \in Nat /\ Funds[u] <= SumFunction(Funds)
    BY <1>2, FundsAreFunded
  <2>4. L!Delta(net, held) = -AmountOf[w] /\ L!Delta(net, free) = AmountOf[w]
    BY <1>2, <1>3, <1>4, <2>1 DEF L!Delta
  <2>5. /\ balance[held] + L!Delta(net, held) \in 0 .. SumFunction(Funds)
        /\ balance[free] + L!Delta(net, free) \in 0 .. SumFunction(Funds)
    BY <1>2, <2>1, <2>2, <2>3, <2>4
  <2> QED
    BY <1>4, <2>5 DEF L!Fits
<1>8. posted[key] = None
  BY DEF Has
<1>9. L!Accepts(key, req, all)
  <2>1. \A k \in DOMAIN net : k[2] \in enabled
    BY <1>3, <1>4 DEF WellTyped, Shapes, BookTyped
  <2> QED
    BY <1>5, <1>6, <1>7, <1>8, <2>1 DEF L!Accepts, L!Succeeds
<1>10. CallEffect("unfreeze", w, TRUE)
  BY <1>9, BookEffect DEF WellTyped, Shapes, Operations
<1> QED
  BY <1>10 DEF CallEffect

NoneFails(q) == \A i \in DOMAIN q : ~FailsOrder(q[i])

LEMMA Harmless ==
  /\ \A f : ~FailsOrder(SetTask(f))
  /\ \A h : ~FailsOrder(SetOrder([txHash |-> h]))
  /\ NoneFails(<<>>)
  /\ \A a : ~FailsOrder(a) => NoneFails(<<a>>)
  /\ \A a, b : ~FailsOrder(a) /\ ~FailsOrder(b) => NoneFails(<<a, b>>)
<1>1. \A f : ~FailsOrder(SetTask(f))
  BY DEF FailsOrder, SetTask
<1>2. \A h : ~FailsOrder(SetOrder([txHash |-> h]))
  BY DEF FailsOrder, SetOrder
<1>3. NoneFails(<<>>)
  BY DEF NoneFails
<1>4. ASSUME NEW a, ~FailsOrder(a) PROVE NoneFails(<<a>>)
  <2>1. \A i \in DOMAIN <<a>> : <<a>>[i] = a
    OBVIOUS
  <2> QED
    BY <1>4, <2>1 DEF NoneFails
<1>5. ASSUME NEW a, NEW b, ~FailsOrder(a), ~FailsOrder(b) PROVE NoneFails(<<a, b>>)
  <2>1. \A i \in DOMAIN <<a, b>> : <<a, b>>[i] = a \/ <<a, b>>[i] = b
    OBVIOUS
  <2> QED
    BY <1>5, <2>1 DEF NoneFails
<1> QED
  BY <1>1, <1>2, <1>3, <1>4, <1>5

LEMMA StartFailsNone ==
  ASSUME NEW w, NEW t, NEW o
  PROVE  NoneFails(Start(w, t, o)[2])
<1> DEFINE Quiet(s) == NoneFails(s[2])
<1>1. \A y, q : NoneFails(q) => Quiet(<<y, q>>)
  OBVIOUS
<1>2. \A y, f : Quiet(<<y, <<SetTask(f)>>>>) /\ Quiet(<<y, <<>>>>)
  BY <1>1, Harmless
<1> HIDE DEF Quiet
<1>3. Quiet(AwaitingStart(t, o)) /\ Quiet(BroadcastStart(w, t)) /\ Quiet(ConfirmStart(t, o))
  BY <1>2 DEF AwaitingStart, BroadcastStart, ConfirmStart, AwaitHash, Rebroadcast
<1>4. Quiet(Start(w, t, o))
  BY <1>2, <1>3 DEF Start, FailTask
<1> QED
  BY <1>4 DEF Quiet

\* A handler that sends no such update fails no order.
LEMMA GoesQuiet ==
  ASSUME WellTyped, NEW v \in Workers, NEW w, On(v, w), NEW p, NEW q, Goes(v, p, q), NoneFails(q)
  PROVE  \A x : ~FailingBy(v, x)'
<1>1. worker'[v].todo = q
  BY GoesTo
<1> QED
  BY <1>1 DEF FailingBy, NoneFails, FailsOrder

\* Only failAndUnfreeze sends the update that fails an order.
LEMMA OnlyUnfreezeFails ==
  ASSUME WellTyped, Steady, NEW v \in Workers, WorkerStep(v), NEW x, FailingBy(v, x)'
  PROVE  FailingBy(v, x) \/ (FailAndUnfreeze(v) /\ worker[v].w = x)
<1> PICK w : w = worker[v].w
  OBVIOUS
<1>1. ~LoseWrites(v) /\ ~Crash(v)
  BY DEF LoseWrites, Crash, Fault, Steady
<1>2. ASSUME Handler(v) PROVE On(v, w) /\ w \in Orders /\ Stays(v, w)
  BY <1>2, HandlerStays
<1>3. worker'[v].pc = "writing" /\ worker'[v].w = x /\ worker'[v] # Idle
  BY DEF FailingBy, On
<1>4. \A y \in Orders : ~Take(v, y)
  <2> SUFFICES ASSUME NEW y \in Orders, Take(v, y) PROVE FALSE
    OBVIOUS
  <2>1. worker'[v] = [pc |-> "locked", w |-> y, task |-> None, order |-> None, todo |-> <<>>]
    BY DEF Take, WellTyped, Shapes
  <2> QED
    BY <1>3, <2>1
<1>5. Handler(v)
  BY <1>1, <1>4 DEF WorkerStep
<1>6. On(v, w) /\ w \in Orders /\ x = w
  BY <1>2, <1>3, <1>5 DEF Stays, On
<1> PICK p, t, o, q : p = worker[v].pc /\ t = worker[v].task /\ o = worker[v].order /\ q = worker[v].todo
  OBVIOUS
<1>7. worker[v] = [pc |-> p, w |-> w, task |-> t, order |-> o, todo |-> q]
      /\ worker = [y \in Workers |-> worker[y]]
  BY <1>6, WorkerShape
<1>8. ~ReadTask(v)
  <2> SUFFICES ASSUME ReadTask(v) PROVE FALSE
    OBVIOUS
  <2>1. PICK r : worker'[v] = [[worker[v] EXCEPT !.pc = "loaded"] EXCEPT !.task = r]
    BY <1>7 DEF ReadTask
  <2>2. worker'[v].pc = "loaded"
    BY <1>7, <2>1
  <2> QED
    BY <1>3, <2>2
<1>9. ~ReadOrder(v)
  <2> SUFFICES ASSUME ReadOrder(v) PROVE FALSE
    OBVIOUS
  <2> PICK r, y, z : r = order[w] /\ y = Start(w, t, r)[1] /\ z = Start(w, t, r)[2]
    OBVIOUS
  <2>1. NoneFails(z)
    BY StartFailsNone
  <2>2. worker[v].task = t /\ worker[v].w = w
    BY <1>7
  <2>3. worker'[v].todo = z
    BY <1>7, <2>2 DEF ReadOrder
  <2> QED
    BY <2>1, <2>3 DEF FailingBy, NoneFails, FailsOrder
<1>10. ASSUME NEW y, NEW z, Goes(v, y, z), NoneFails(z) PROVE FALSE
  BY <1>6, <1>10, GoesQuiet
<1>11. ~Broadcast(v)
  BY <1>10, Harmless DEF Broadcast, Writes
<1>12. ~CheckStatus(v)
  BY <1>10, Harmless DEF CheckStatus, Writes, AwaitHash, ForgetHash
<1>13. ~Settle(v) /\ ~Finalize(v)
  BY <1>10, Harmless DEF Settle, Finalize, Writes
<1>14. ~Release(v)
  BY <1>3, <1>7 DEF Release
<1>15. Write(v) => FailingBy(v, w)
  <2> SUFFICES ASSUME Write(v) PROVE FailingBy(v, w)
    OBVIOUS
  <2>1. q # <<>> /\ p = "writing" /\ Updates(q, w)
    BY <1>6, <1>7, AtWork DEF Write, WorkerAt, On
  <2>2. worker'[v].todo = Tail(q)
    <3>1. PICK z : z = Tail(q)
      OBVIOUS
    <3>2. worker[v].todo = q
      BY <1>7
    <3>3. worker'[v] = [worker[v] EXCEPT !.todo = z]
      BY <1>7, <3>1, <3>2 DEF Write
    <3> QED
      BY <1>7, <3>1, <3>3
  <2>3. PICK i \in DOMAIN Tail(q) : FailsOrder(Tail(q)[i])
    BY <2>2 DEF FailingBy, FailsOrder
  <2>4. \E j \in DOMAIN q : FailsOrder(q[j])
    <3>1. ASSUME NEW a, q = <<a>> PROVE FALSE
      <4>1. Tail(q) = <<>> /\ DOMAIN Tail(q) = {}
        BY <3>1
      <4> QED
        BY <2>3, <4>1
    <3>2. ASSUME NEW a, NEW b, q = <<a, b>> PROVE \E j \in DOMAIN q : FailsOrder(q[j])
      <4>1. Tail(q) = <<b>> /\ DOMAIN q = {1, 2} /\ q[2] = b
        BY <3>2
      <4>2. Tail(q)[i] = b
        BY <2>3, <4>1
      <4> QED
        BY <2>3, <4>1, <4>2
    <3> QED
      BY <2>1, <3>1, <3>2 DEF Updates
  <2> QED
    BY <1>6, <1>7, <2>1, <2>4 DEF FailingBy
<1> QED
  BY <1>5, <1>6, <1>8, <1>9, <1>11, <1>12, <1>13, <1>14, <1>15 DEF Handler

\* The call of failAndUnfreeze gives the money back, even if its answer is lost.
LEMMA UnfreezeRefunds ==
  ASSUME Dependable, ContractInv, NEW v \in Workers, NEW w, worker[v].w = w, FailAndUnfreeze(v)
  PROVE  Has("unfreeze", w)'
<1>1. WellTyped /\ AllSole /\ AllCharged /\ AllPast /\ HoldsInv /\ IsFiniteSet(Orders)
  BY DEF ContractInv, OrderlyInv, Dependable
<1>2. On(v, w) /\ w \in Orders
  BY <1>1, HandlerStays DEF Handler
<1>3. Has("freeze", w) /\ order[w] # None
  BY <1>1, <1>2, InHand
<1>4. ~Has("unfreeze", w)
  BY <1>1 DEF AllCharged, WorkerCharges, FailAndUnfreeze
<1>5. ~Has("settle", w)
  BY <1>1, UnfreezeUnsettled
<1>6. Book("unfreeze", w)
  <2>1. ~(Precision < 6) /\ ~Fault("rpc_down")
    BY PayoutAssumption DEF Dependable, Fault
  <2> QED
    BY <2>1 DEF FailAndUnfreeze, Call
<1> QED
  BY <1>1, <1>2, <1>3, <1>4, <1>5, <1>6, RefundAccepted

\* Bookings stay.
LEMMA HasStays ==
  ASSUME OrderlyInv, Orderly, [Next]_vars, NEW o \in Operations, NEW x \in Orders, Has(o, x)
  PROVE  Has(o, x)'
<1>1. CASE UNCHANGED ledgerVars
  BY <1>1 DEF ledgerVars, Has
<1>2. ASSUME NEW w \in Orders, NEW op \in Operations, Booking(op, w) PROVE Has(o, x)'
  BY <1>2, BookingHas DEF Booking, OrderlyInv
<1> QED
  BY <1>1, <1>2, StepBooks

\* A decision to turn an order down is taken with its money given back.
LEMMA DecidingRefunds ==
  ASSUME Dependable, ContractInv, NEW w \in Orders, AdminStep(w), Deciding(w, {"cancel", "reject"})'
  PROVE  Deciding(w, {"cancel", "reject"}) \/ Has("unfreeze", w)'
<1>1. Shapes /\ BookTyped
  BY DEF ContractInv, OrderlyInv, WellTyped, Shapes
<1>2. ASSUME NEW op \in AdminOps \cap DOMAIN LedgerCallOf, NEW hash, AdminCall(op, w, hash)
      PROVE  Has("unfreeze", w)'
  <2>1. PICK ok \in BOOLEAN :
          /\ \/ Call(LedgerCallOf[op], w, ok)
             \/ Fault("event_read")
          /\ admin' = IF ok THEN [admin EXCEPT ![w] = [op |-> op, hash |-> hash]] ELSE admin
          /\ admin[w] = None
    BY <1>2 DEF AdminCall
  <2>2. ok /\ admin'[w] = [op |-> op, hash |-> hash]
    BY <1>1, <2>1 DEF Deciding, Shapes
  <2>3. op \in {"cancel", "reject"}
    BY <2>2 DEF Deciding
  <2>4. Call("unfreeze", w, ok)
    BY <2>1, <2>3 DEF LedgerCallOf, Fault, Dependable
  <2>5. CallEffect("unfreeze", w, ok)
    BY <1>1, <2>4, CallHasEffect DEF Operations
  <2> QED
    BY <2>2, <2>5 DEF CallEffect
<1>3. CASE AdminCommit(w) \/ AdminRollback(w)
  <2>1. admin'[w] = None
    BY <1>1, <1>3 DEF AdminCommit, AdminRollback, Shapes
  <2> QED
    BY <2>1 DEF Deciding
<1>4. CASE \E hash : AdminSetHash(w, hash)
  BY <1>4 DEF AdminSetHash, Deciding
<1> QED
  BY <1>2, <1>3, <1>4 DEF AdminStep

LEMMA ClosedStep ==
  ASSUME Dependable, ContractInv, [Next]_vars
  PROVE  AllClosed'
<1>1. WellTyped /\ AllSole /\ OrderlyInv /\ Orderly /\ Steady
  BY DEF ContractInv, OrderlyInv, Dependable, Orderly
<1> SUFFICES ASSUME NEW x \in Orders PROVE ClosedAt(x)'
  BY DEF AllClosed
<1>2. ClosedAt(x) /\ RowMoves(x) /\ RowsAt(x)
  BY <1>1, RowsMove DEF ContractInv, AllClosed, WellTyped, AllRows
<1>3. Has("unfreeze", x) => Has("unfreeze", x)'
  BY <1>1, HasStays DEF Operations
<1>4. (order[x] # None)' /\ order'[x].status \in {"failed", "cancelled", "rejected"} => Has("unfreeze", x)'
  BY <1>1, <1>2, <1>3 DEF RowMoves, ClosedAt, Deciding, RowsAt, Orderly
<1>5. Deciding(x, {"cancel", "reject"})' => Has("unfreeze", x)'
  <2>1. CASE admin'[x] = admin[x]
    BY <1>2, <1>3, <2>1 DEF ClosedAt, Deciding
  <2>2. CASE admin'[x] # admin[x]
    <3>1. AdminStep(x)
      <4>1. UNCHANGED vars => admin' = admin
        BY DEF vars, orderVars
      <4>2. ASSUME NEW w \in Orders, w # x,
                   CreateStep(w) \/ AdminStep(w) \/ ExpireLock(w) \/ ManualTransfer(w) \/ ChainDecides(w)
            PROVE  admin'[x] = admin[x]
        BY <1>1, <4>2, CreateStepTypes, AdminStepTypes, ChainStepTypes DEF KeepsAt, Elsewhere
      <4>3. ASSUME NEW v \in Workers, WorkerStep(v) PROVE admin' = admin
        BY <4>3 DEF WorkerStep, Handler, ReadTask, ReadOrder, Broadcast, CheckStatus, Settle, Finalize,
                    FailAndUnfreeze, Write, Release, LoseWrites, Crash, Take
      <4>4. CreateStep(x) \/ ExpireLock(x) \/ ManualTransfer(x) \/ ChainDecides(x) => admin' = admin
        BY DEF CreateStep, CreateFreeze, CreateInsert, CreateUndo, CreateCrash,
               ExpireLock, ManualTransfer, ChainDecides
      <4> QED
        BY <2>2, <4>1, <4>2, <4>3, <4>4 DEF Next
    <3> QED
      BY <1>2, <1>3, <3>1, DecidingRefunds DEF ClosedAt
  <2> QED
    BY <2>1, <2>2
<1>6. ASSUME NEW v \in Workers, FailingBy(v, x)' PROVE Has("unfreeze", x)'
  <2>1. CASE worker'[v] = worker[v]
    BY <1>2, <1>3, <1>6, <2>1 DEF ClosedAt, Failing, FailingBy, On
  <2>2. CASE WorkerStep(v)
    <3>1. FailingBy(v, x) \/ (FailAndUnfreeze(v) /\ worker[v].w = x)
      BY <1>1, <1>6, <2>2, OnlyUnfreezeFails
    <3>2. FailingBy(v, x) => Has("unfreeze", x)
      BY <1>2 DEF ClosedAt, Failing
    <3> QED
      BY <1>3, <3>1, <3>2, UnfreezeRefunds
  <2>3. worker'[v] = worker[v] \/ WorkerStep(v)
    <3>1. UNCHANGED vars => worker' = worker
      BY DEF vars, orderVars
    <3>2. ASSUME NEW w \in Orders,
                 CreateStep(w) \/ AdminStep(w) \/ ExpireLock(w) \/ ManualTransfer(w) \/ ChainDecides(w)
          PROVE  worker' = worker
      BY <3>2 DEF CreateStep, CreateFreeze, CreateInsert, CreateUndo, CreateCrash,
                  AdminStep, AdminCall, AdminCommit, AdminRollback, AdminSetHash,
                  ExpireLock, ManualTransfer, ChainDecides
    <3>3. ASSUME NEW y \in Workers, y # v, WorkerStep(y) PROVE worker'[v] = worker[v]
      <4>1. \E w \in Orders : Moves(y, w)
        BY <1>1, <3>3, WorkerStepTypes
      <4> QED
        BY <3>3, <4>1 DEF Moves, OthersRest
    <3> QED
      BY <3>1, <3>2, <3>3 DEF Next
  <2> QED
    BY <2>1, <2>2, <2>3
<1>7. Failing(x)' => Has("unfreeze", x)'
  BY <1>6 DEF Failing
<1> QED
  BY <1>4, <1>5, <1>7 DEF ClosedAt, Deciding

LEMMA InitClosed == Init => AllClosed
<1> SUFFICES ASSUME Init, NEW w \in Orders PROVE ClosedAt(w)
  BY DEF AllClosed
<1>1. order[w] = None /\ admin[w] = None /\ \A v \in Workers : worker[v] = Idle
  BY DEF Init
<1> QED
  BY <1>1 DEF ClosedAt, Deciding, Failing, FailingBy, On

LEMMA SpecContract == Dependable => (Spec => []ContractInv)
<1> SUFFICES ASSUME Dependable PROVE Spec => []ContractInv
  OBVIOUS
<1>1. ContractInv /\ [Next]_vars => AllClosed'
  BY ClosedStep
<1>2. Spec => [](OrderlyInv /\ HoldsInv)
  BY SpecHolds DEF Dependable
<1> QED
  BY <1>1, <1>2, InitClosed, PTL DEF Spec, ContractInv

\* What the contract sees of the step of an order: its money, or its verdict.
MoneyStep(w) ==
  /\ \A x \in Orders : Verdict(x)' = Verdict(x) /\ (x # w => Money(x)' = Money(x))
  /\ \/ Money(w) = "own" /\ Money(w)' = "held"
     \/ Money(w) = "held" /\ Verdict(w) = "open" /\ Money(w)' = "paid"
     \/ Money(w) = "held" /\ Money(w)' = "refunded"

VerdictStep(w) ==
  /\ \A x \in Orders : Money(x)' = Money(x) /\ (x # w => Verdict(x)' = Verdict(x))
  /\ \/ Verdict(w) = "none" /\ Money(w) = "held" /\ Verdict(w)' = "open"
     \/ Verdict(w) = "open" /\ Money(w) = "paid" /\ Verdict(w)' = "completed"
     \/ Verdict(w) = "open" /\ Money(w) = "refunded" /\ Verdict(w)' \in {"failed", "cancelled", "rejected"}

LEMMA StepsOfContract ==
  /\ \A w \in Orders : MoneyStep(w) \/ VerdictStep(w) => Contract!Next
  /\ (\A x \in Orders : Money(x)' = Money(x) /\ Verdict(x)' = Verdict(x)) => UNCHANGED Contract!vars
<1>1. ASSUME NEW w \in Orders, MoneyStep(w) PROVE Contract!Next
  <2>1. Contract!Hold(w) \/ Contract!Pay(w) \/ Contract!Refund(w)
    BY <1>1 DEF MoneyStep, Contract!Hold, Contract!Pay, Contract!Refund
  <2> QED
    BY <2>1 DEF Contract!Next
<1>2. ASSUME NEW w \in Orders, VerdictStep(w) PROVE Contract!Next
  <2>1. /\ DOMAIN Contract!Closing = {"paid", "refunded"} /\ Contract!Closing["paid"] = {"completed"}
        /\ Contract!Closing["refunded"] = {"failed", "cancelled", "rejected"}
    BY DEF Contract!Closing
  <2>2. CASE Verdict(w) = "none" /\ Money(w) = "held" /\ Verdict(w)' = "open"
    <3>1. Contract!Accept(w)
      BY <1>2, <2>2 DEF VerdictStep, Contract!Accept
    <3> QED
      BY <3>1 DEF Contract!Next
  <2>3. CASE /\ Verdict(w) = "open" /\ Money(w) \in DOMAIN Contract!Closing
             /\ Verdict(w)' \in Contract!Closing[Money(w)]
    <3>1. Contract!Close(w)
      BY <1>2, <2>3 DEF VerdictStep, Contract!Close
    <3> QED
      BY <3>1 DEF Contract!Next
  <2> QED
    BY <1>2, <2>1, <2>2, <2>3 DEF VerdictStep
<1>3. (\A x \in Orders : Money(x)' = Money(x) /\ Verdict(x)' = Verdict(x)) => UNCHANGED Contract!vars
  BY DEF Contract!vars
<1> QED
  BY <1>1, <1>2, <1>3

\* An order that is closed has had its money settled or given back.
LEMMA ClosedIsSpent ==
  ASSUME ContractInv, NEW w \in Orders, order[w] # None
  PROVE  /\ order[w].status = "completed" => Money(w) = "paid"
         /\ order[w].status \in {"failed", "cancelled", "rejected"} => Money(w) = "refunded"
BY DEF ContractInv, OrderlyInv, AllPaid, PaidAt, AllClosed, ClosedAt, AllSpent, SpentAt, Money

LEMMA BookingKeepsContract ==
  ASSUME Dependable, ContractInv, NEW w \in Orders, NEW op \in Operations, Booking(op, w)
  PROVE  Contract!Next \/ UNCHANGED Contract!vars
<1>1. \A x \in Orders : Verdict(x)' = Verdict(x)
  BY DEF Booking, Verdict
<1>2. CASE \A x \in Orders, o \in Operations : Has(o, x)' = Has(o, x)
  <2>1. \A x \in Orders : Money(x)' = Money(x)
    BY <1>2 DEF Money, Operations
  <2> QED
    BY <1>1, <2>1, StepsOfContract
<1>3. CASE /\ ~Has(op, w) /\ Has(op, w)'
           /\ \A o \in Operations, x \in Orders : o # op \/ x # w => Has(o, x)' = Has(o, x)
  <2>1. \A x \in Orders : x # w => Money(x)' = Money(x)
    BY <1>3 DEF Money, Operations
  <2>2. SpentAt(w)
    BY DEF ContractInv, OrderlyInv, AllSpent
  <2>3. CASE op = "freeze"
    <3>1. Money(w) = "own" /\ Money(w)' = "held"
      BY <1>3, <2>2, <2>3 DEF Money, Operations, SpentAt
    <3> QED
      BY <1>1, <2>1, <3>1, StepsOfContract DEF MoneyStep
  <2>4. CASE op = "settle"
    <3>1. Money(w) = "held" /\ Money(w)' = "paid" /\ order[w] # None
      BY <1>3, <2>2, <2>4 DEF Money, Operations, SpentAt, Booking
    <3>2. Verdict(w) = "open"
      BY <3>1, ClosedIsSpent DEF Verdict, Terminal
    <3> QED
      BY <1>1, <2>1, <3>1, <3>2, StepsOfContract DEF MoneyStep
  <2>5. CASE op = "unfreeze"
    <3>1. Money(w) = "held" /\ Money(w)' = "refunded"
      BY <1>3, <2>2, <2>5 DEF Money, Operations, SpentAt, Booking
    <3> QED
      BY <1>1, <2>1, <3>1, StepsOfContract DEF MoneyStep
  <2> QED
    BY <2>3, <2>4, <2>5 DEF Operations
<1>4. WellTyped /\ Book(op, w)
  BY DEF ContractInv, OrderlyInv, Booking
<1>5. UNCHANGED posted => \A x \in Orders, o \in Operations : Has(o, x)' = Has(o, x)
  BY DEF Has
<1> QED
  BY <1>2, <1>3, <1>4, <1>5, BookMoves

\* A row that a step changes is accepted, or closed the way its money went.
LEMMA RowKeepsContract ==
  ASSUME Dependable, ContractInv, NEW w \in Orders, RowMoves(w), UNCHANGED ledgerVars,
         \A x \in Orders : x # w => order'[x] = order[x]
  PROVE  Contract!Next \/ UNCHANGED Contract!vars
<1>1. \A x \in Orders : Money(x)' = Money(x)
  BY DEF ledgerVars, Money, Has
<1>2. \A x \in Orders : x # w => Verdict(x)' = Verdict(x)
  BY DEF Verdict
<1>3. CASE Verdict(w)' = Verdict(w)
  <2>1. \A x \in Orders : Verdict(x)' = Verdict(x)
    BY <1>2, <1>3
  <2> QED
    BY <1>1, <2>1, StepsOfContract
<1>4. CASE order[w] = None /\ Verdict(w)' # Verdict(w)
  <2>1. creator[w] = "insert" /\ (order[w] # None)' /\ order'[w].status \in {"pending", "processing"}
    BY <1>4 DEF RowMoves, Verdict
  <2>2. Verdict(w) = "none" /\ Verdict(w)' = "open"
    BY <1>4, <2>1 DEF Verdict, Terminal
  <2>3. Money(w) = "held"
    BY <1>4, <2>1 DEF ContractInv, OrderlyInv, AllCharged, ChargedAt, GivenUp, AllSpent, SpentAt, Money
  <2> QED
    BY <1>1, <1>2, <2>2, <2>3, StepsOfContract DEF VerdictStep
<1>5. CASE order[w] # None /\ Verdict(w)' # Verdict(w)
  <2>1. /\ RowsAt(w) /\ PaidAt(w) /\ SpentAt(w) /\ ClosedAt(w) /\ SoleAt(w)
        /\ \A v \in Workers : WorkerPaid(v)
    BY DEF ContractInv, OrderlyInv, WellTyped, AllRows, AllPaid, AllSpent, AllClosed, AllSole
  <2>2. (order[w] # None)' /\ order'[w].status # order[w].status
    BY <1>5 DEF RowMoves, Verdict
  <2>3. order[w].status \in Terminal => Verdict(w) = order[w].status
    BY <1>5 DEF Verdict
  <2>4. CASE order'[w].status = "completed"
    <3>1. Has("settle", w)
      BY <1>5, <2>1, <2>2, <2>4 DEF RowMoves, PaidAt, Finalizing, FinalizingBy, On, WorkerPaid, Failing
    <3>2. Money(w) = "paid"
      BY <2>1, <3>1 DEF Money, SpentAt
    <3>3. Verdict(w) = "open"
      BY <1>5, <2>2, <2>4, <3>2, ClosedIsSpent DEF Verdict, Terminal
    <3>4. Verdict(w)' = "completed"
      BY <2>2, <2>4 DEF Verdict, Terminal
    <3> QED
      BY <1>1, <1>2, <3>2, <3>3, <3>4, StepsOfContract DEF VerdictStep
  <2>5. CASE order'[w].status \in {"failed", "cancelled", "rejected"}
    <3>1. Has("unfreeze", w)
      BY <1>5, <2>1, <2>2, <2>5 DEF RowMoves, ClosedAt, Deciding, RowsAt, Dependable, Orderly
    <3>2. Money(w) = "refunded"
      BY <2>1, <3>1 DEF Money, SpentAt
    <3>3. Verdict(w) = "open"
      <4>1. order[w].status # "completed"
        BY <1>5, <3>2, ClosedIsSpent
      <4>2. order[w].status \notin {"failed", "cancelled", "rejected"}
        <5>1. Failing(w) => order[w].status \notin {"cancelled", "rejected"}
          BY InHand DEF ContractInv, OrderlyInv, Failing, FailingBy
        <5>2. admin[w] # None => admin[w].op # "fail"
          BY <2>1 DEF RowsAt, Dependable, Orderly
        <5>3. admin[w] # None /\ admin[w].op \in {"cancel", "reject"} => order[w].status = "pending"
          BY <2>1 DEF SoleAt
        <5> QED
          BY <1>5, <2>2, <2>5, <5>1, <5>2, <5>3 DEF RowMoves
      <4> QED
        BY <1>5, <4>1, <4>2 DEF Verdict, Terminal
    <3>4. Verdict(w)' \in {"failed", "cancelled", "rejected"}
      BY <2>2, <2>5 DEF Verdict, Terminal
    <3> QED
      BY <1>1, <1>2, <3>2, <3>3, <3>4, StepsOfContract DEF VerdictStep
  <2>6. CASE order'[w].status \notin Terminal
    <3>1. order[w].status = "pending" /\ order'[w].status = "processing"
      BY <1>5, <2>1, <2>2, <2>6 DEF RowMoves, SoleAt, Terminal
    <3>2. Verdict(w) = "open" /\ Verdict(w)' = "open"
      BY <1>5, <2>2, <3>1 DEF Verdict, Terminal
    <3> QED
      BY <1>5, <3>2
  <2> QED
    BY <2>4, <2>5, <2>6 DEF Terminal
<1> QED
  BY <1>3, <1>4, <1>5

\* A step changes the row of one order at most.
LEMMA OneRowMoves ==
  ASSUME WellTyped, [Next]_vars
  PROVE  UNCHANGED order \/ \E w \in Orders : \A x \in Orders : x # w => order'[x] = order[x]
<1>1. CASE UNCHANGED vars
  BY <1>1 DEF vars, orderVars
<1>2. ASSUME NEW w \in Orders,
             CreateStep(w) \/ AdminStep(w) \/ ExpireLock(w) \/ ManualTransfer(w) \/ ChainDecides(w)
      PROVE  \A x \in Orders : x # w => order'[x] = order[x]
  BY <1>2, CreateStepTypes, AdminStepTypes, ChainStepTypes DEF KeepsAt, Elsewhere
<1>3. ASSUME NEW v \in Workers, WorkerStep(v)
      PROVE  \E w \in Orders : \A x \in Orders : x # w => order'[x] = order[x]
  BY <1>3, WorkerStepTypes DEF Moves, KeepsAt, Elsewhere
<1> QED
  BY <1>1, <1>2, <1>3 DEF Next

\* Every withdrawal keeps the contract: its money is held before the order is
\* accepted, then paid out or given back but not both, and the order is closed
\* after its money moved, the way it moved.  The hypotheses leave out what breaks
\* it: workers that go on and fail an order whose refund did not reach the ledger
\* (no connection, an amount written with more decimals than the asset has, a
\* freeze event that cannot be read), operators who fail an order a worker has in
\* hand, workers that die or outlive their lease, lost writes, and a creation or
\* a cancellation whose outcome is not known to who asked for it.
THEOREM KeepsWithdrawContract ==
  ASSUME IsFiniteSet(Orders),
         FaultKinds \cap {"crash", "db_write", "lost_hash", "lease_lapse", "commit_unknown", "rollback",
                          "rpc_down", "event_read"} = {},
         "fail" \notin AdminOps,
         "lost_answer" \notin FaultKinds \/ AdminOps \cap {"cancel", "reject"} = {},
         Precision >= 6
  PROVE  Spec => ContractSpec
<1>1. Dependable
  BY DEF Dependable, Orderly, Steady
<1>2. Init => Contract!Init
  <2> SUFFICES ASSUME Init PROVE Contract!Init
    OBVIOUS
  <2>1. ASSUME NEW w \in Orders PROVE Money(w) = "own" /\ Verdict(w) = "none"
    <3>1. \A op \in Operations : ~Has(op, w)
      BY DEF Init, Has, LedgerKeys, Operations
    <3>2. order[w] = None
      BY DEF Init
    <3> QED
      BY <3>1, <3>2 DEF Money, Verdict, Operations
  <2> QED
    BY <2>1 DEF Contract!Init
<1>3. ContractInv /\ [Next]_vars => [Contract!Next]_(Contract!vars)
  <2> SUFFICES ASSUME ContractInv, [Next]_vars PROVE Contract!Next \/ UNCHANGED Contract!vars
    OBVIOUS
  <2>1. WellTyped /\ AllSole /\ OrderlyInv /\ Orderly
    BY <1>1 DEF ContractInv, OrderlyInv, Dependable
  <2>2. CASE UNCHANGED ledgerVars
    <3>1. CASE UNCHANGED order
      <4>1. \A x \in Orders : Money(x)' = Money(x) /\ Verdict(x)' = Verdict(x)
        BY <2>2, <3>1 DEF ledgerVars, Money, Has, Verdict
      <4> QED
        BY <4>1, StepsOfContract
    <3>2. ASSUME NEW w \in Orders, \A x \in Orders : x # w => order'[x] = order[x]
          PROVE  Contract!Next \/ UNCHANGED Contract!vars
      BY <1>1, <2>1, <2>2, <3>2, RowsMove, RowKeepsContract
    <3> QED
      BY <2>1, <3>1, <3>2, OneRowMoves
  <2> QED
    BY <1>1, <2>1, <2>2, StepBooks, BookingKeepsContract
<1> QED
  BY <1>1, <1>2, <1>3, SpecContract, PTL DEF Spec, ContractSpec, Contract!Spec

===============================================================================
