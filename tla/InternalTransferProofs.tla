------------------------ MODULE InternalTransferProofs ------------------------
(* Theorems about InternalTransfer, for any orders, users, amounts and faults. *)
EXTENDS InternalTransfer, Sums

-------------------------------------------------------------------------------
(* The invariants.                                                           *)

EntryStatuses == {"pending", "completed", "rejected", "cancelled"}
Stages        == {"new", "call", "save", "entry", "done"}

\* The row exists from the first step of its handler on; a copy is of a row, the
\* owner's of one that was open; before the ledger has answered, the handler's
\* copy is the row it created.
Copies(o) ==
  LET s == submit[o]
  IN /\ s.pc = "new" <=> order[o] = None
     /\ order[o] = None => cancel[o] = None /\ operator[o] = None
     /\ cancel[o] # None => cancel[o].status = "pending"
     /\ s.pc = "call" => s.row = NewRow(s.row.strategy)
     /\ s.pc = "save" => s.row.status \in {"pending", "completed", "failed"}

WellTyped ==
  /\ TypeOK
  /\ DOMAIN posted = LedgerKeys /\ posted = [k \in LedgerKeys |-> posted[k]]
  /\ enabled = {Asset}
  /\ submit \in [Orders -> [pc : Stages, row : RowType \cup {None}]]
  /\ entry \in [Orders -> [payer : SUBSET EntryStatuses, payee : SUBSET {"completed"}]]
  /\ \A o \in Orders : Copies(o)

\* Whoever holds a row that says the transfer was paid, it was.
PaidFor(row, o) == row.status = "completed" \/ row.paid => Moved("transfer", o)

PaidAt(o) ==
  /\ order[o] # None => PaidFor(order[o], o)
  /\ cancel[o] # None => PaidFor(cancel[o], o)
  /\ submit[o].pc # "new" => PaidFor(submit[o].row, o)
  /\ operator[o] = "approve" => Moved("transfer", o)
  /\ entry[o].payee # {} => Moved("transfer", o)

Untouched(o) == ~Moved("freeze", o) /\ ~Moved("transfer", o) /\ ~Moved("unfreeze", o)

\* The handler is at work and nobody has decided the order it created.
HandlerAccounts(o) ==
  LET s == submit[o]
  IN s.pc \in {"call", "save"} /\ order[o].status = "pending" /\ operator[o] = None =>
       /\ ~Moved("unfreeze", o)
       /\ s.pc = "call" => Untouched(o)
       /\ s.pc = "save" /\ s.row.status = "pending" =>
            s.row.frozen /\ Moved("freeze", o) /\ ~Moved("transfer", o)
       /\ s.pc = "save" /\ s.row.status = "failed" => Untouched(o)

\* The handler has written its row: from here on the operators hold the row
\* lock from their booking to their write.
RowAccounts(o) ==
  submit[o].pc \in {"entry", "done"} =>
    /\ operator[o] = None => Accounted(o) /\ (order[o].status = "pending" => order[o].frozen)
    /\ operator[o] = "approve" => ~Moved("unfreeze", o)
    /\ operator[o] \in {"reject", "cancel"} =>
         Moved("freeze", o) /\ Moved("unfreeze", o) /\ ~Moved("transfer", o)

AccountsAt(o) ==
  /\ submit[o].pc = "new" => Untouched(o)
  /\ HandlerAccounts(o)
  /\ RowAccounts(o)

-------------------------------------------------------------------------------
(* What a ledger call does.                                                  *)

BookTyped == posted = [k \in LedgerKeys |-> posted[k]] /\ enabled = {Asset}

Requests(o) == {TransferFrom(o, "available"), TransferFrom(o, "locked"), FreezeOf(o),
                UnfreezeOf(o, "reject"), UnfreezeOf(o, "cancel")}
Operations  == {"transfer", "freeze", "unfreeze"}

LEMMA RequestsAreReal ==
  ASSUME NEW o \in Orders, NEW req \in Requests(o)
  PROVE  req # None /\ \A k \in DOMAIN req.net : k[2] = Asset
<1>1. req # None
  BY NoneAssumption DEF Requests
<1> DEFINE InAsset(net) == \A k \in DOMAIN net : k[2] = Asset
<1>2. \A u1, u2, b1, b2, amt :
         InAsset(L!Move(L!UserKey(u1, Asset, b1), L!UserKey(u2, Asset, b2), amt))
  BY DEF L!UserKey, L!Move
<1> HIDE DEF InAsset
<1>3. \A b : InAsset(TransferFrom(o, b).net)
  BY <1>2 DEF TransferFrom, Available, L!Request
<1>4. InAsset(FreezeOf(o).net)
  BY <1>2 DEF FreezeOf, Available, Locked, L!Request
<1>5. \A act : InAsset(UnfreezeOf(o, act).net)
  BY <1>2 DEF UnfreezeOf, Available, Locked, L!Request
<1>6. InAsset(req.net)
  BY <1>3, <1>4, <1>5 DEF Requests
<1> QED
  BY <1>1, <1>6 DEF InAsset

\* A call touches one key of its order.  A success books the request; a failure
\* that does not tear the order books nothing.
CallEffect(op, o, ok) ==
  /\ BookTyped'
  /\ \A k \in LedgerKeys : k # <<op, o>> => posted'[k] = posted[k]
  /\ Moved(op, o) => Moved(op, o)'
  /\ ok => Moved(op, o)' /\ UNCHANGED <<torn, faults>>
  /\ ~ok => o \in torn' \/ UNCHANGED posted
  /\ torn' \in {torn, torn \cup {o}}
  /\ faults' = faults \/ (faults < MaxFaults /\ faults' = faults + 1)

LEMMA PostEffect ==
  ASSUME BookTyped, NEW op \in Operations, NEW o \in Orders, NEW req \in Requests(o),
         L!Post(<<op, o>>, req, L!UserTypes, {})
  PROVE  /\ BookTyped'
         /\ IF L!Accepts(<<op, o>>, req, L!UserTypes)
              THEN posted' = [posted EXCEPT ![<<op, o>>] = req]
              ELSE UNCHANGED posted
<1> DEFINE key == <<op, o>>
<1>1. key \in LedgerKeys
  BY DEF LedgerKeys, Operations
<1>2. enabled' = enabled
  BY DEF L!Post, L!setupVars
<1>3. support' = L!EnsureSupport(L!UserTypes)
  BY DEF L!Post
<1>4. L!Accepts(key, req, L!UserTypes) <=> L!Succeeds(key, req, support')
  BY <1>3, RequestsAreReal DEF L!Accepts, BookTyped
<1>5. IF L!Accepts(key, req, L!UserTypes)
        THEN posted' = [posted EXCEPT ![key] = req] ELSE UNCHANGED posted
  BY <1>4 DEF L!Post, L!Booked
<1> QED
  BY <1>1, <1>2, <1>5 DEF BookTyped

LEMMA CallHasEffect ==
  ASSUME BookTyped, NEW op \in Operations, NEW o \in Orders, NEW req \in Requests(o),
         NEW ok \in BOOLEAN, Call(op, o, req, ok)
  PROVE  CallEffect(op, o, ok)
<1> DEFINE key == <<op, o>>
<1>1. key \in LedgerKeys /\ req # None
  BY RequestsAreReal DEF LedgerKeys, Operations
<1>2. ASSUME ok = L!Accepts(key, req, L!UserTypes), L!Post(key, req, L!UserTypes, {}),
             UNCHANGED <<torn, faults>>
      PROVE  CallEffect(op, o, ok)
  BY <1>1, <1>2, PostEffect DEF CallEffect, BookTyped, Moved
<1>3. ASSUME ~ok, Fault("lost_answer"), L!Post(key, req, L!UserTypes, {}), torn' = torn \cup {o}
      PROVE  CallEffect(op, o, ok)
  BY <1>1, <1>3, PostEffect DEF CallEffect, BookTyped, Moved, Fault
<1>4. ASSUME ~ok, Fault("rpc_down"), UNCHANGED <<ledgerVars, torn>>
      PROVE  CallEffect(op, o, ok)
  BY <1>1, <1>4 DEF CallEffect, BookTyped, Moved, Fault, ledgerVars
<1> QED
  BY <1>2, <1>3, <1>4 DEF Call

-------------------------------------------------------------------------------
(* What the steps do.                                                        *)

Acts == {"approve", "reject", "cancel"}

\* The row an order gets, and what the handler holds after the ledger's answer.
Answered(row, ok) ==
  IF ~ok THEN [row EXCEPT !.status = "failed"]
  ELSE IF row.strategy = "auto" THEN [row EXCEPT !.status = "completed", !.paid = TRUE]
  ELSE [row EXCEPT !.frozen = TRUE]

ExecuteEffect(o, ok) ==
  LET row == submit[o].row
  IN /\ submit[o].pc = "call"
     /\ CallEffect(IF row.strategy = "auto" THEN "transfer" ELSE "freeze", o, ok)
     /\ submit' = [submit EXCEPT ![o] = Handler("save", Answered(row, ok))]
     /\ UNCHANGED <<order, cancel, operator, entry>>

DecideEffect(o, act, ok) ==
  /\ Undecided(o, act)
  /\ IF act = "approve" THEN CallEffect("transfer", o, ok)
     ELSE IF order[o].frozen THEN CallEffect("unfreeze", o, ok)
     ELSE ok /\ UNCHANGED <<posted, enabled, torn, faults>>
  /\ operator' = IF ok THEN [operator EXCEPT ![o] = act] ELSE operator
  /\ UNCHANGED <<order, submit, cancel, entry>>

LEMMA ExecuteHasEffect ==
  ASSUME BookTyped, NEW o \in Orders, Execute(o)
  PROVE  \E ok \in BOOLEAN : ExecuteEffect(o, ok)
<1> DEFINE row == submit[o].row
<1>1. PICK ok \in BOOLEAN :
        /\ IF row.strategy = "auto" THEN Call("transfer", o, TransferFrom(o, "available"), ok)
                                    ELSE Call("freeze", o, FreezeOf(o), ok)
        /\ submit' = [submit EXCEPT ![o] = Handler("save", Answered(row, ok))]
  BY DEF Execute, Answered
<1>2. CallEffect(IF row.strategy = "auto" THEN "transfer" ELSE "freeze", o, ok)
  BY <1>1, CallHasEffect DEF Requests, Operations
<1> QED
  BY <1>1, <1>2 DEF Execute, ExecuteEffect

LEMMA DecideHasEffect ==
  ASSUME BookTyped, NEW o \in Orders, NEW act \in Acts, Decide(o, act)
  PROVE  \E ok \in BOOLEAN : DecideEffect(o, act, ok)
<1>1. PICK ok \in BOOLEAN :
        /\ IF act = "approve"
             THEN Call("transfer", o,
                       TransferFrom(o, IF order[o].frozen THEN "locked" ELSE "available"), ok)
           ELSE IF order[o].frozen THEN Call("unfreeze", o, UnfreezeOf(o, act), ok)
           ELSE ok /\ UNCHANGED <<ledgerVars, torn, faults>>
        /\ operator' = IF ok THEN [operator EXCEPT ![o] = act] ELSE operator
  BY DEF Decide
<1>2. CASE act = "approve"
  <2>1. TransferFrom(o, IF order[o].frozen THEN "locked" ELSE "available") \in Requests(o)
    BY DEF Requests
  <2>2. CallEffect("transfer", o, ok)
    BY <1>1, <1>2, <2>1, CallHasEffect DEF Operations
  <2> QED
    BY <1>1, <1>2, <2>2 DEF Decide, DecideEffect
<1>3. CASE act # "approve" /\ order[o].frozen
  <2>1. UnfreezeOf(o, act) \in Requests(o)
    BY <1>3 DEF Requests, Acts
  <2>2. CallEffect("unfreeze", o, ok)
    BY <1>1, <1>3, <2>1, CallHasEffect DEF Operations
  <2> QED
    BY <1>1, <1>3, <2>2 DEF Decide, DecideEffect
<1>4. CASE act # "approve" /\ ~order[o].frozen
  BY <1>1, <1>4 DEF Decide, DecideEffect, ledgerVars
<1> QED
  BY <1>2, <1>3, <1>4

\* A step is about one order: of the others it changes no row, copy or booking.
Alone(p) ==
  /\ UNCHANGED <<order[p], submit[p], cancel[p], operator[p], entry[p]>>
  /\ \A op \in Operations : Moved(op, p)' = Moved(op, p)
  /\ p \in torn => p \in torn'

LEMMA CallIsLocal ==
  ASSUME NEW op \in Operations, NEW o \in Orders, NEW ok \in BOOLEAN, CallEffect(op, o, ok)
  PROVE  \A p \in Orders, q \in Operations : p # o \/ q # op => Moved(q, p)' = Moved(q, p)
<1> TAKE p \in Orders, q \in Operations
<1>1. <<q, p>> \in LedgerKeys
  BY DEF LedgerKeys, Operations
<1> QED
  BY <1>1 DEF CallEffect, Moved

LEMMA StepIsLocal ==
  ASSUME WellTyped, NEW o \in Orders, OrderStep(o), NEW p \in Orders, p # o
  PROVE  Alone(p)
<1> USE DEF Alone, WellTyped, TypeOK
<1>1. BookTyped
  BY DEF BookTyped
<1>2. CASE Create(o)
  BY <1>2 DEF Create, ledgerVars, Moved
<1>3. CASE Execute(o)
  <2>1. PICK ok \in BOOLEAN : ExecuteEffect(o, ok)
    BY <1>1, <1>3, ExecuteHasEffect
  <2>2. PICK op \in Operations : CallEffect(op, o, ok)
    BY <2>1 DEF ExecuteEffect, Operations
  <2>3. \A q \in Operations : Moved(q, p)' = Moved(q, p)
    BY <2>2, CallIsLocal
  <2>4. torn \subseteq torn'
    BY <2>2 DEF CallEffect
  <2>5. UNCHANGED <<order, cancel, operator, entry>>
    BY <2>1 DEF ExecuteEffect
  <2>6. submit'[p] = submit[p]
    BY <2>1 DEF ExecuteEffect
  <2> QED
    BY <2>3, <2>4, <2>5, <2>6
<1>4. CASE SaveOrder(o)
  BY <1>4 DEF SaveOrder, Saved, ledgerVars, Moved
<1>5. CASE WriteEntries(o)
  BY <1>5 DEF WriteEntries, ledgerVars, Moved
<1>6. CASE SubmitCrash(o) \/ CancelRead(o) \/ CancelSave(o)
  BY <1>6 DEF SubmitCrash, CancelRead, CancelSave, Saved, ledgerVars, Moved
<1>7. CASE Close(o)
  BY <1>7 DEF Close, ledgerVars, Moved
<1>8. ASSUME NEW act \in Acts, Decide(o, act)
      PROVE  Alone(p)
  <2>1. PICK ok \in BOOLEAN : DecideEffect(o, act, ok)
    BY <1>1, <1>8, DecideHasEffect
  <2>2. CASE \E op \in Operations : CallEffect(op, o, ok)
    BY <2>1, <2>2, CallIsLocal DEF DecideEffect, CallEffect
  <2>3. CASE UNCHANGED <<posted, torn>>
    BY <2>1, <2>3 DEF DecideEffect, Moved
  <2> QED
    BY <2>1, <2>2, <2>3 DEF DecideEffect, Operations
<1> QED
  BY <1>2, <1>3, <1>4, <1>5, <1>6, <1>7, <1>8 DEF OrderStep, Submit, Acts

-------------------------------------------------------------------------------
(* Type correctness.                                                         *)

LEMMA NewRowType ==
  ASSUME NEW s \in Strategies
  PROVE  /\ NewRow(s) \in RowType
         /\ NewRow(s).strategy = s /\ NewRow(s).status = "pending"
         /\ ~NewRow(s).frozen /\ ~NewRow(s).paid
BY DEF NewRow, RowType

LEMMA AnsweredType ==
  ASSUME NEW row \in RowType, NEW ok \in BOOLEAN, ~row.frozen, ~row.paid
  PROVE  /\ Answered(row, ok) \in RowType
         /\ ~(Answered(row, ok).frozen /\ Answered(row, ok).paid)
         /\ Answered(row, ok).status \in {row.status, "completed", "failed"}
BY DEF Answered, RowType

\* What the tables hold of one order.
TypedAt(o) ==
  /\ order[o] \in RowType \cup {None}
  /\ cancel[o] \in RowType \cup {None}
  /\ operator[o] \in {None, "approve", "reject", "cancel"}
  /\ submit[o] \in [pc : Stages, row : RowType \cup {None}]
  /\ submit[o].pc # "new" =>
       submit[o].row \in RowType /\ ~(submit[o].row.frozen /\ submit[o].row.paid)
  /\ entry[o] \in [payer : SUBSET EntryStatuses, payee : SUBSET {"completed"}]
  /\ Copies(o)

Shapes ==
  /\ BookTyped
  /\ order  = [o \in Orders |-> order[o]]
  /\ cancel = [o \in Orders |-> cancel[o]]
  /\ operator = [o \in Orders |-> operator[o]]
  /\ submit = [o \in Orders |-> submit[o]]
  /\ entry  = [o \in Orders |-> entry[o]]
  /\ torn \subseteq Orders /\ faults \in 0 .. MaxFaults

AllTyped == \A o \in Orders : TypedAt(o)

LEMMA WellTypedPointwise == WellTyped <=> Shapes /\ AllTyped
<1>1. WellTyped => Shapes /\ AllTyped
  BY DEF AllTyped, WellTyped, TypeOK, Shapes, TypedAt, BookTyped
<1>2. Shapes /\ AllTyped => WellTyped
  <2> SUFFICES ASSUME Shapes, \A o \in Orders : TypedAt(o) PROVE WellTyped
    BY DEF AllTyped
  <2>1. order \in [Orders -> RowType \cup {None}] /\ cancel \in [Orders -> RowType \cup {None}]
    BY DEF Shapes, TypedAt
  <2>2. operator \in [Orders -> {None, "approve", "reject", "cancel"}]
    BY DEF Shapes, TypedAt
  <2>3. submit \in [Orders -> [pc : Stages, row : RowType \cup {None}]]
    BY DEF Shapes, TypedAt
  <2>4. entry \in [Orders -> [payer : SUBSET EntryStatuses, payee : SUBSET {"completed"}]]
    BY DEF Shapes, TypedAt
  <2>5. \A o \in Orders : submit[o].pc \in Stages /\ entry[o].payee \subseteq {"completed"}
    BY <2>3, <2>4
  <2>6. DOMAIN posted = LedgerKeys /\ posted = [k \in LedgerKeys |-> posted[k]] /\ enabled = {Asset}
    BY DEF Shapes, BookTyped
  <2>7. \A o \in Orders : Copies(o)
    BY DEF TypedAt
  <2>8. torn \subseteq Orders /\ faults \in 0 .. MaxFaults
    BY DEF Shapes
  <2>9. \A o \in Orders : TypedAt(o)
    OBVIOUS
  <2>10. \A o \in Orders : submit[o].pc # "new" =>
           submit[o].row \in RowType /\ ~(submit[o].row.frozen /\ submit[o].row.paid)
    BY <2>9 DEF TypedAt
  <2>11. TypeOK
    BY <2>1, <2>2, <2>5, <2>8, <2>10 DEF TypeOK, Stages
  <2> QED
    BY <2>3, <2>4, <2>6, <2>7, <2>11 DEF WellTyped
<1> QED
  BY <1>1, <1>2

LEMMA ShapesKept ==
  ASSUME WellTyped, NEW o \in Orders, OrderStep(o)
  PROVE  Shapes'
<1>1. Shapes
  BY WellTypedPointwise DEF AllTyped
<1> USE <1>1, TransferAssumption DEF Shapes
<1>2. CASE Create(o)
  BY <1>2 DEF Create, ledgerVars, BookTyped
<1>3. CASE Execute(o)
  <2>1. PICK ok \in BOOLEAN : ExecuteEffect(o, ok)
    BY <1>3, ExecuteHasEffect
  <2>2. BookTyped' /\ torn' \subseteq Orders /\ faults' \in 0 .. MaxFaults
    BY <2>1 DEF ExecuteEffect, CallEffect
  <2>3. submit' = [p \in Orders |-> submit'[p]] /\ UNCHANGED <<order, cancel, operator, entry>>
    BY <2>1 DEF ExecuteEffect
  <2> QED
    BY <2>2, <2>3
<1>4. CASE SaveOrder(o)
  BY <1>4 DEF SaveOrder, Saved, ledgerVars, BookTyped, Fault
<1>5. CASE WriteEntries(o)
  BY <1>5 DEF WriteEntries, ledgerVars, BookTyped
<1>6. CASE SubmitCrash(o) \/ CancelRead(o) \/ CancelSave(o)
  BY <1>6 DEF SubmitCrash, CancelRead, CancelSave, Saved, ledgerVars, BookTyped, Fault
<1>7. CASE Close(o)
  <2>1. order' = [p \in Orders |-> order'[p]] /\ entry' = [p \in Orders |-> entry'[p]]
    BY <1>7 DEF Close
  <2>2. torn' \subseteq Orders /\ faults' \in 0 .. MaxFaults
    BY <1>7 DEF Close, Fault
  <2> QED
    BY <1>7, <2>1, <2>2 DEF Close, ledgerVars, BookTyped
<1>8. ASSUME NEW act \in Acts, Decide(o, act)
      PROVE  Shapes'
  <2>1. PICK ok \in BOOLEAN : DecideEffect(o, act, ok)
    BY <1>8, DecideHasEffect
  <2>2. BookTyped' /\ torn' \subseteq Orders /\ faults' \in 0 .. MaxFaults
    <3>1. CASE \E op \in Operations : CallEffect(op, o, ok)
      BY <3>1 DEF CallEffect
    <3>2. CASE UNCHANGED <<posted, enabled, torn, faults>>
      BY <3>2 DEF BookTyped
    <3> QED
      BY <2>1, <3>1, <3>2 DEF DecideEffect, Operations
  <2> QED
    BY <2>1, <2>2 DEF DecideEffect
<1> QED
  BY <1>2, <1>3, <1>4, <1>5, <1>6, <1>7, <1>8 DEF OrderStep, Submit, Acts

LEMMA TypedKept ==
  ASSUME WellTyped, NEW o \in Orders, OrderStep(o)
  PROVE  TypedAt(o)'
<1>1. Shapes /\ TypedAt(o)
  BY WellTypedPointwise DEF AllTyped
<1> USE NoneAssumption DEF Shapes, TypedAt, Copies, Stages
<1>2. CASE Create(o)
  <2>1. PICK s \in Strategies :
          /\ order' = [order EXCEPT ![o] = NewRow(s)]
          /\ submit' = [submit EXCEPT ![o] = Handler("call", NewRow(s))]
    BY <1>2 DEF Create
  <2> QED
    BY <1>1, <1>2, <2>1, NewRowType DEF Create, Handler
<1>3. CASE Execute(o)
  <2>1. PICK ok \in BOOLEAN : ExecuteEffect(o, ok)
    BY <1>1, <1>3, ExecuteHasEffect
  <2> DEFINE row == submit[o].row
             new == Answered(row, ok)
  <2>2. submit[o].pc = "call" /\ row \in RowType /\ row = NewRow(row.strategy)
    BY <1>1, <2>1 DEF ExecuteEffect
  <2>3. row.strategy \in Strategies /\ row.status = "pending" /\ ~row.frozen /\ ~row.paid
    BY <2>2, NewRowType DEF RowType
  <2>4. new \in RowType /\ ~(new.frozen /\ new.paid) /\ new.status \in {"pending", "completed", "failed"}
    BY <2>2, <2>3, AnsweredType
  <2>5. submit'[o] = Handler("save", new)
    BY <1>1, <2>1 DEF ExecuteEffect
  <2> HIDE DEF new
  <2> QED
    BY <1>1, <2>1, <2>2, <2>4, <2>5 DEF ExecuteEffect, Handler
<1>4. CASE SaveOrder(o)
  <2> DEFINE row == submit[o].row
  <2>1. submit[o].pc = "save" /\ row \in RowType /\ ~(row.frozen /\ row.paid)
    BY <1>1, <1>4 DEF SaveOrder
  <2>2. [row EXCEPT !.status = "failed"] \in RowType
    BY <2>1 DEF RowType
  <2>3. order[o] # None /\ UNCHANGED <<cancel, operator, entry>>
    BY <1>1, <1>4, <2>1 DEF SaveOrder
  <2>4. submit'[o] \in {Handler("save", [row EXCEPT !.status = "failed"]),
                        Handler("done", row), Handler("entry", row)}
    BY <1>1, <1>4 DEF SaveOrder, Handler
  <2>5. order'[o] \in {order[o], row}
    BY <1>1, <1>4 DEF SaveOrder, Saved
  <2>6. TypedAt(o)
    BY <1>1
  <2> QED
    BY <2>1, <2>2, <2>3, <2>4, <2>5, <2>6 DEF Handler, RowType
<1>5. CASE WriteEntries(o)
  <2>1. submit'[o] = [submit[o] EXCEPT !.pc = "done"]
    BY <1>1, <1>5 DEF WriteEntries
  <2>2. entry'[o] \in [payer : SUBSET EntryStatuses, payee : SUBSET {"completed"}]
    BY <1>1, <1>5 DEF WriteEntries, EntryStatuses
  <2> QED
    BY <1>1, <1>5, <2>1, <2>2 DEF WriteEntries
<1>6. CASE SubmitCrash(o)
  BY <1>1, <1>6 DEF SubmitCrash
<1>7. CASE CancelRead(o)
  BY <1>1, <1>7 DEF CancelRead
<1>8. CASE CancelSave(o)
  <2> DEFINE row == [cancel[o] EXCEPT !.status = "cancelled", !.by = "payer"]
  <2>1. row \in RowType
    BY <1>1, <1>8 DEF CancelSave, RowType
  <2>2. order'[o] = row /\ cancel'[o] = None
    BY <1>1, <1>8 DEF CancelSave, Saved
  <2> HIDE DEF row
  <2> QED
    BY <1>1, <1>8, <2>1, <2>2 DEF CancelSave
<1>9. CASE Close(o)
  <2> DEFINE act == operator[o]
  <2>1. act \in Acts /\ order[o] \in RowType /\ order[o] # None
    BY <1>1, <1>9 DEF Close, Acts
  <2>2. Decided(act) \in {"completed", "rejected", "cancelled"}
    BY <2>1 DEF Decided, Acts
  <2>3. Restated(o, act) \in [payer : SUBSET EntryStatuses, payee : SUBSET {"completed"}]
    BY <1>1, <2>1, <2>2 DEF Restated, Acts, EntryStatuses
  <2>4. order'[o] \in RowType
    <3>1. \/ order'[o] = order[o]
          \/ order'[o] = [order[o] EXCEPT !.status = Decided(act), !.by = "operator",
                                          !.paid = @ \/ act = "approve"]
      BY <1>1, <1>9 DEF Close
    <3> QED
      BY <2>1, <2>2, <3>1 DEF RowType
  <2>5. entry'[o] \in {entry[o], Restated(o, act)} /\ operator'[o] = None
    BY <1>1, <1>9 DEF Close
  <2> QED
    BY <1>1, <1>9, <2>1, <2>3, <2>4, <2>5 DEF Close
<1>10. ASSUME NEW act \in Acts, Decide(o, act)
       PROVE  TypedAt(o)'
  <2>1. PICK ok \in BOOLEAN : DecideEffect(o, act, ok)
    BY <1>1, <1>10, DecideHasEffect
  <2>2. operator'[o] \in {operator[o], act} /\ order[o] # None
    BY <1>1, <2>1 DEF DecideEffect, Undecided
  <2> QED
    BY <1>1, <2>1, <2>2 DEF DecideEffect, Acts
<1> QED
  BY <1>2, <1>3, <1>4, <1>5, <1>6, <1>7, <1>8, <1>9, <1>10 DEF OrderStep, Submit, Acts

LEMMA InitWellTyped == Init => WellTyped
<1> SUFFICES ASSUME Init PROVE WellTyped
  OBVIOUS
<1>1. Shapes
  BY TransferAssumption DEF Init, Shapes, BookTyped
<1>2. \A o \in Orders : TypedAt(o)
  BY DEF Init, TypedAt, Copies, Handler, Stages
<1> QED
  BY <1>1, <1>2, WellTypedPointwise DEF AllTyped

LEMMA NextWellTyped == WellTyped /\ [Next]_vars => WellTyped'
<1>1. ASSUME WellTyped, NEW o \in Orders, OrderStep(o)
      PROVE  WellTyped'
  <2>1. Shapes' /\ TypedAt(o)'
    BY <1>1, ShapesKept, TypedKept
  <2>2. ASSUME NEW p \in Orders, p # o
        PROVE  TypedAt(p)'
    <3>1. TypedAt(p)
      BY <1>1, WellTypedPointwise DEF AllTyped
    <3>2. Alone(p)
      BY <1>1, <2>2, StepIsLocal
    <3> QED
      BY <3>1, <3>2 DEF TypedAt, Copies, Alone
  <2>3. AllTyped'
    BY <2>1, <2>2 DEF AllTyped
  <2>4. WellTyped' <=> Shapes' /\ AllTyped'
    BY WellTypedPointwise, PTL
  <2> QED
    BY <2>1, <2>3, <2>4
<1>2. ASSUME WellTyped, UNCHANGED vars
      PROVE  WellTyped'
  BY <1>2 DEF vars, ledgerVars, WellTyped, TypeOK, Copies
<1> QED
  BY <1>1, <1>2 DEF Next

\* Whatever the users and operators do and whichever faults occur, the tables
\* and the copies of their rows keep their types: the payee's records only ever
\* say completed, and no handler holds money for an order it has paid.
THEOREM TypeCorrect == Spec => []TypeOK
<1>1. Spec => []WellTyped
  BY InitWellTyped, NextWellTyped, PTL DEF Spec
<1>2. WellTyped => TypeOK
  BY DEF WellTyped
<1> QED
  BY <1>1, <1>2, PTL

-------------------------------------------------------------------------------
(* A transfer that is shown was paid.                                        *)

\* No booking is taken back.
LEMMA BookingsStand ==
  ASSUME WellTyped, NEW o \in Orders, OrderStep(o), Moved("transfer", o)
  PROVE  Moved("transfer", o)'
<1>1. BookTyped
  BY DEF WellTyped, BookTyped
<1>2. CASE Execute(o)
  <2>1. PICK ok \in BOOLEAN : ExecuteEffect(o, ok)
    BY <1>1, <1>2, ExecuteHasEffect
  <2>2. PICK op \in Operations : CallEffect(op, o, ok)
    BY <2>1 DEF ExecuteEffect, Operations
  <2> QED
    BY <2>2, CallIsLocal DEF CallEffect, Operations
<1>3. ASSUME NEW act \in Acts, Decide(o, act)
      PROVE  Moved("transfer", o)'
  <2>1. PICK ok \in BOOLEAN : DecideEffect(o, act, ok)
    BY <1>1, <1>3, DecideHasEffect
  <2>2. CASE \E op \in Operations : CallEffect(op, o, ok)
    BY <2>2, CallIsLocal DEF CallEffect, Operations
  <2>3. CASE UNCHANGED posted
    BY <2>3 DEF Moved
  <2> QED
    BY <2>1, <2>2, <2>3 DEF DecideEffect, Operations
<1>4. CASE UNCHANGED posted
  BY <1>4 DEF Moved
<1> QED
  BY <1>2, <1>3, <1>4
     DEF OrderStep, Submit, Acts, Create, SaveOrder, WriteEntries, SubmitCrash, CancelRead,
         CancelSave, Close, ledgerVars

LEMMA PaidKept ==
  ASSUME WellTyped, NEW o \in Orders, PaidAt(o), OrderStep(o)
  PROVE  PaidAt(o)'
<1>1. Shapes /\ TypedAt(o)
  BY WellTypedPointwise DEF AllTyped
<1>2. BookTyped
  BY <1>1 DEF Shapes
<1> DEFINE Paid == Moved("transfer", o)
<1>3. Paid => Paid'
  BY BookingsStand
<1> USE DEF PaidAt, PaidFor
<1>4. CASE Create(o)
  <2>1. PICK s \in Strategies :
          order'[o] = NewRow(s) /\ submit'[o] = Handler("call", NewRow(s))
    BY <1>1, <1>4 DEF Create, Shapes
  <2> QED
    BY <1>3, <1>4, <2>1, NewRowType DEF Create, Handler
<1>5. CASE Execute(o)
  <2>1. PICK ok \in BOOLEAN : ExecuteEffect(o, ok)
    BY <1>2, <1>5, ExecuteHasEffect
  <2> DEFINE row == submit[o].row
  <2>2. row \in RowType /\ row.status = "pending" /\ ~row.paid
    BY <1>1, <2>1, NewRowType DEF ExecuteEffect, TypedAt, Copies, RowType
  <2>3. submit'[o].row = Answered(row, ok)
    BY <1>1, <2>1 DEF ExecuteEffect, Shapes, Handler
  <2>4. ASSUME row.strategy = "auto", ok PROVE Paid'
    <3>1. CallEffect("transfer", o, ok)
      BY <2>1, <2>4 DEF ExecuteEffect
    <3> QED
      BY <2>4, <3>1 DEF CallEffect
  <2>5. Answered(row, ok).status = "completed" \/ Answered(row, ok).paid => Paid'
    BY <2>2, <2>4 DEF Answered, RowType
  <2> QED
    BY <1>3, <2>1, <2>3, <2>5 DEF ExecuteEffect
<1>6. CASE SaveOrder(o)
  <2> DEFINE row == submit[o].row
  <2>1. submit[o].pc = "save" /\ row \in RowType /\ UNCHANGED <<cancel, operator, entry>>
    BY <1>1, <1>6 DEF SaveOrder, TypedAt
  <2>2. submit'[o].row \in {row, [row EXCEPT !.status = "failed"]}
    BY <1>1, <1>6 DEF SaveOrder, Handler, Shapes, TypedAt
  <2>3. order'[o] \in {order[o], row} /\ order[o] # None
    BY <1>1, <1>6, <2>1 DEF SaveOrder, Saved, Shapes, TypedAt, Copies
  <2> QED
    BY <1>3, <2>1, <2>2, <2>3 DEF RowType
<1>7. CASE WriteEntries(o)
  <2>1. submit[o].pc = "entry" /\ submit'[o].row = submit[o].row
    BY <1>1, <1>7 DEF WriteEntries, Shapes, TypedAt
  <2>2. entry'[o].payee = entry[o].payee \/ submit[o].row.status = "completed"
    BY <1>1, <1>7 DEF WriteEntries, Shapes, TypedAt
  <2> QED
    BY <1>3, <1>7, <2>1, <2>2 DEF WriteEntries
<1>8. CASE SubmitCrash(o) \/ CancelRead(o)
  BY <1>1, <1>3, <1>8 DEF SubmitCrash, CancelRead, Shapes, TypedAt
<1>9. CASE CancelSave(o)
  <2>1. cancel[o] \in RowType /\ cancel[o] # None
    BY <1>1, <1>9 DEF CancelSave, TypedAt
  <2>2. order'[o] = [cancel[o] EXCEPT !.status = "cancelled", !.by = "payer"] /\ cancel'[o] = None
    BY <1>1, <1>9 DEF CancelSave, Saved, Shapes
  <2> QED
    BY <1>3, <1>9, <2>1, <2>2 DEF CancelSave, RowType
<1>10. CASE Close(o)
  <2> DEFINE act == operator[o]
  <2>1. act \in Acts /\ order[o] \in RowType /\ order[o] # None
    BY <1>1, <1>10 DEF Close, Acts, TypedAt, Copies
  <2>2. Decided(act) = "completed" => act = "approve"
    BY <2>1 DEF Decided, Acts
  <2>3. \/ order'[o] = order[o]
        \/ order'[o] = [order[o] EXCEPT !.status = Decided(act), !.by = "operator",
                                        !.paid = @ \/ act = "approve"]
    BY <1>1, <1>10 DEF Close, Shapes
  <2>4. (order[o] # None => PaidFor(order[o], o))'
    BY <1>3, <2>1, <2>2, <2>3 DEF RowType
  <2>5. entry'[o] \in {entry[o], Restated(o, act)} /\ operator'[o] = None
    BY <1>1, <1>10 DEF Close, Shapes
  <2>6. Restated(o, act).payee = entry[o].payee \/ act = "approve"
    BY <1>1, <2>1 DEF Restated, Acts, TypedAt
  <2>7. UNCHANGED <<submit, cancel>>
    BY <1>10 DEF Close
  <2> QED
    BY <1>3, <2>1, <2>4, <2>5, <2>6, <2>7, NoneAssumption
<1>11. ASSUME NEW act \in Acts, Decide(o, act)
       PROVE  PaidAt(o)'
  <2>1. PICK ok \in BOOLEAN : DecideEffect(o, act, ok)
    BY <1>2, <1>11, DecideHasEffect
  <2>2. operator'[o] = operator[o] \/ (operator'[o] = act /\ ok)
    BY <1>1, <2>1 DEF DecideEffect, Shapes
  <2>3. act = "approve" /\ ok => Paid'
    BY <2>1 DEF DecideEffect, CallEffect
  <2> QED
    BY <1>3, <2>1, <2>2, <2>3 DEF DecideEffect
<1> QED
  BY <1>4, <1>5, <1>6, <1>7, <1>8, <1>9, <1>10, <1>11 DEF OrderStep, Submit, Acts

\* Whatever faults occur and however the handler, the owner and the operators
\* interleave, no order and no record of a payee says completed without the
\* booked transfer: the copies that a late Save writes back say only what was paid.
THEOREM ShownIsPaid == Spec => []CompletedIsPaid
<1> DEFINE Paid == \A o \in Orders : PaidAt(o)
<1>1. Init => WellTyped /\ Paid
  <2> SUFFICES ASSUME Init PROVE Paid
    BY InitWellTyped
  <2> QED
    BY NoneAssumption DEF Init, PaidAt, PaidFor, Handler
<1>2. WellTyped /\ Paid /\ [Next]_vars => WellTyped' /\ Paid'
  <2>1. ASSUME WellTyped, Paid, NEW o \in Orders, OrderStep(o)
        PROVE  Paid'
    <3>1. PaidAt(o)'
      BY <2>1, PaidKept
    <3>2. ASSUME NEW p \in Orders, p # o
          PROVE  PaidAt(p)'
      <4>1. Alone(p)
        BY <2>1, <3>2, StepIsLocal
      <4> QED
        BY <2>1, <4>1 DEF PaidAt, PaidFor, Alone, Operations
    <3> QED
      BY <3>1, <3>2
  <2>2. ASSUME Paid, UNCHANGED vars
        PROVE  Paid'
    BY <2>2 DEF PaidAt, PaidFor, Moved, vars, ledgerVars
  <2> QED
    BY <2>1, <2>2, NextWellTyped DEF Next
<1>3. Paid => CompletedIsPaid
  BY DEF CompletedIsPaid, PaidAt, PaidFor
<1> HIDE DEF Paid
<1> QED
  BY <1>1, <1>2, <1>3, PTL DEF Spec

-------------------------------------------------------------------------------
(* Row and bookings agree.                                                   *)

LEMMA SameBookings ==
  ASSUME UNCHANGED posted, NEW o
  PROVE  \A op : Moved(op, o)' = Moved(op, o)
BY DEF Moved

LEMMA TornStays ==
  ASSUME BookTyped, NEW o \in Orders, OrderStep(o), o \notin torn'
  PROVE  o \notin torn
<1>1. CASE Execute(o)
  <2>1. PICK ok \in BOOLEAN : ExecuteEffect(o, ok)
    BY <1>1, ExecuteHasEffect
  <2> QED
    BY <2>1 DEF ExecuteEffect, CallEffect
<1>2. ASSUME NEW act \in Acts, Decide(o, act)
      PROVE  o \notin torn
  <2>1. PICK ok \in BOOLEAN : DecideEffect(o, act, ok)
    BY <1>2, DecideHasEffect
  <2>2. CASE \E op \in Operations : CallEffect(op, o, ok)
    BY <2>2 DEF CallEffect
  <2> QED
    BY <2>1, <2>2 DEF DecideEffect, Operations
<1>3. CASE SaveOrder(o) \/ CancelSave(o)
  BY <1>3 DEF SaveOrder, CancelSave, Saved
<1> QED
  BY <1>1, <1>2, <1>3 DEF OrderStep, Submit, Acts, Create, WriteEntries, SubmitCrash, CancelRead, Close

LEMMA AccountsKeptAt ==
  ASSUME WellTyped, NEW o \in Orders, AccountsAt(o), OrderStep(o), o \notin torn'
  PROVE  AccountsAt(o)'
<1>1. Shapes /\ TypedAt(o) /\ BookTyped
  BY WellTypedPointwise DEF AllTyped, Shapes
<1> USE DEF AccountsAt, HandlerAccounts, RowAccounts, Untouched
<1>2. CASE Create(o)
  <2>1. PICK s \in Strategies : order'[o] = NewRow(s) /\ submit'[o] = Handler("call", NewRow(s))
    BY <1>1, <1>2 DEF Create, Shapes
  <2>2. \A op : Moved(op, o)' = Moved(op, o)
    BY <1>2, SameBookings DEF Create, ledgerVars
  <2> QED
    BY <1>2, <2>1, <2>2 DEF Create, Handler
<1>3. CASE Execute(o)
  <2>1. PICK ok \in BOOLEAN : ExecuteEffect(o, ok)
    BY <1>1, <1>3, ExecuteHasEffect
  <2> DEFINE row == submit[o].row
             op  == IF row.strategy = "auto" THEN "transfer" ELSE "freeze"
  <2>2. row \in RowType /\ row.status = "pending"
    BY <1>1, <2>1, NewRowType DEF ExecuteEffect, TypedAt, Copies, RowType
  <2>3. submit'[o] = Handler("save", Answered(row, ok))
    BY <1>1, <2>1 DEF ExecuteEffect, Shapes
  <2>4. CallEffect(op, o, ok) /\ op \in Operations
    BY <2>1 DEF ExecuteEffect, Operations
  <2>5. ASSUME order[o].status = "pending", operator[o] = None
        PROVE  HandlerAccounts(o)'
    <3>1. Untouched(o)
      BY <2>1, <2>5 DEF ExecuteEffect
    <3>2. CASE ~ok
      <4>1. UNCHANGED posted
        BY <2>4, <3>2 DEF CallEffect
      <4>2. Untouched(o)'
        BY <3>1, <4>1, SameBookings
      <4>3. submit'[o].row.status = "failed"
        BY <2>2, <2>3, <3>2 DEF Answered, Handler, RowType
      <4> QED
        BY <4>2, <4>3
    <3>3. CASE ok /\ row.strategy = "auto"
      <4>1. ~Moved("unfreeze", o)'
        BY <2>4, <3>1, <3>3, CallIsLocal DEF Operations
      <4>2. submit'[o].pc = "save" /\
            submit'[o].row = [row EXCEPT !.status = "completed", !.paid = TRUE]
        BY <2>3, <3>3 DEF Answered, Handler
      <4>3. submit'[o].row.status = "completed"
        BY <2>2, <4>2 DEF RowType
      <4> QED
        BY <4>1, <4>2, <4>3
    <3>4. CASE ok /\ row.strategy # "auto"
      <4>1. ~Moved("unfreeze", o)' /\ ~Moved("transfer", o)'
        BY <2>4, <3>1, <3>4, CallIsLocal DEF Operations
      <4>2. Moved("freeze", o)'
        <5>1. CallEffect("freeze", o, ok)
          BY <2>4, <3>4
        <5> QED
          BY <3>4, <5>1 DEF CallEffect
      <4>3. submit'[o].row.status = "pending" /\ submit'[o].row.frozen /\ submit'[o].pc = "save"
        BY <2>2, <2>3, <3>4 DEF Answered, Handler, RowType
      <4> QED
        BY <4>1, <4>2, <4>3
    <3> QED
      BY <3>2, <3>3, <3>4
  <2>6. submit'[o].pc = "save"
    BY <2>3 DEF Handler
  <2> QED
    BY <2>1, <2>5, <2>6 DEF ExecuteEffect
<1>4. CASE SaveOrder(o)
  <2> DEFINE row == submit[o].row
  <2>1. submit[o].pc = "save" /\ row \in RowType /\ row.status \in {"pending", "completed", "failed"}
    BY <1>1, <1>4 DEF SaveOrder, TypedAt, Copies
  <2>2. /\ operator[o] = None /\ order[o] = NewRow(row.strategy)
        /\ order'[o] = row /\ submit'[o].pc \in {"entry", "done"}
    BY <1>1, <1>4 DEF SaveOrder, Saved, Shapes, TypedAt
  <2>3. order[o].status = "pending"
    BY <2>1, <2>2, NewRowType DEF RowType
  <2>4. \A op : Moved(op, o)' = Moved(op, o)
    BY <1>4, SameBookings DEF SaveOrder, ledgerVars
  <2>5. Accounted(o)' /\ (row.status = "pending" => row.frozen)
    BY <2>1, <2>2, <2>3, <2>4 DEF Accounted
  <2>6. operator'[o] = None
    BY <1>4, <2>2 DEF SaveOrder
  <2> QED
    BY <2>2, <2>5, <2>6, NoneAssumption
<1>5. CASE WriteEntries(o)
  <2>1. \A op : Moved(op, o)' = Moved(op, o)
    BY <1>5, SameBookings DEF WriteEntries, ledgerVars
  <2>2. submit[o].pc = "entry" /\ submit'[o].pc = "done" /\ UNCHANGED <<order, operator>>
    BY <1>1, <1>5 DEF WriteEntries, Shapes, TypedAt
  <2>3. Accounted(o)' <=> Accounted(o)
    BY <2>1, <2>2 DEF Accounted
  <2> QED
    BY <2>1, <2>2, <2>3
<1>6. CASE CancelRead(o)
  <2>1. \A op : Moved(op, o)' = Moved(op, o)
    BY <1>6, SameBookings DEF CancelRead, ledgerVars
  <2> QED
    BY <1>6, <2>1 DEF CancelRead, Accounted
<1>7. CASE CancelSave(o)
  <2>1. \A op : Moved(op, o)' = Moved(op, o)
    BY <1>7, SameBookings DEF CancelSave, ledgerVars
  <2>2. /\ order[o] # None /\ order[o].status = "pending" /\ order[o] \in RowType
        /\ order'[o] = [order[o] EXCEPT !.status = "cancelled", !.by = "payer"]
        /\ UNCHANGED <<submit, operator>> /\ operator[o] = None
    BY <1>1, <1>7 DEF CancelSave, Saved, Shapes, TypedAt, Copies
  <2>3. order'[o].status = "cancelled" /\ order'[o].by = "payer"
    BY <2>2 DEF RowType
  <2>4. submit[o].pc # "new"
    BY <1>1, <2>2 DEF TypedAt, Copies
  <2>5. Accounted(o) => Accounted(o)'
    BY <2>1, <2>2, <2>3 DEF Accounted
  <2> QED
    BY <2>2, <2>3, <2>4, <2>5, NoneAssumption
<1>8. CASE Close(o)
  <2> DEFINE act == operator[o]
  <2>1. \A op : Moved(op, o)' = Moved(op, o)
    BY <1>8, SameBookings DEF Close, ledgerVars
  <2>2. act \in Acts /\ order[o] \in RowType /\ submit[o].pc # "new"
    BY <1>1, <1>8 DEF Close, Acts, TypedAt, Copies
  <2>3. order'[o] = [order[o] EXCEPT !.status = Decided(act), !.by = "operator",
                                     !.paid = @ \/ act = "approve"]
    BY <1>1, <1>8 DEF Close, Shapes
  <2>4. order'[o].status = Decided(act) /\ order'[o].by = "operator"
    BY <2>2, <2>3 DEF RowType
  <2>5. Decided(act) = (IF act = "approve" THEN "completed"
                        ELSE IF act = "reject" THEN "rejected" ELSE "cancelled")
    BY <2>2 DEF Decided, Acts
  <2>6. operator'[o] = None /\ UNCHANGED submit
    BY <1>1, <1>8 DEF Close, Shapes
  <2>7. submit[o].pc \in {"entry", "done"} => Accounted(o)'
    BY <2>1, <2>2, <2>4, <2>5 DEF Accounted, Acts
  <2> QED
    BY <2>2, <2>4, <2>5, <2>6, <2>7, NoneAssumption
<1>9. ASSUME NEW act \in Acts, Decide(o, act)
      PROVE  AccountsAt(o)'
  <2>1. PICK ok \in BOOLEAN : DecideEffect(o, act, ok)
    BY <1>1, <1>9, DecideHasEffect
  <2>2. /\ order[o].status = "pending" /\ operator[o] = None /\ submit[o].pc # "new"
        /\ UNCHANGED <<order, submit>>
    BY <1>1, <2>1 DEF DecideEffect, Undecided, TypedAt, Copies, RowType
  <2>3. CASE ~ok
    <3>1. UNCHANGED <<posted, operator>>
      BY <2>1, <2>3 DEF DecideEffect, CallEffect
    <3>2. \A op : Moved(op, o)' = Moved(op, o)
      BY <3>1, SameBookings
    <3> QED
      BY <2>2, <3>1, <3>2 DEF Accounted
  <2>4. CASE ok
    <3>1. operator'[o] = act /\ act # None
      BY <1>1, <2>1, <2>4, NoneAssumption DEF DecideEffect, Shapes, Acts
    <3>2. ASSUME submit[o].pc \in {"entry", "done"}, act = "approve"
          PROVE  ~Moved("unfreeze", o)'
      <4>1. CallEffect("transfer", o, ok)
        BY <2>1, <3>2 DEF DecideEffect
      <4> QED
        BY <2>2, <3>2, <4>1, CallIsLocal DEF Accounted, Operations
    <3>3. ASSUME submit[o].pc \in {"entry", "done"}, act # "approve"
          PROVE  Moved("freeze", o)' /\ Moved("unfreeze", o)' /\ ~Moved("transfer", o)'
      <4>1. CallEffect("unfreeze", o, ok)
        BY <2>1, <2>2, <3>3 DEF DecideEffect
      <4> QED
        BY <2>2, <2>4, <3>3, <4>1, CallIsLocal DEF Accounted, Operations, CallEffect
    <3> QED
      BY <2>2, <3>1, <3>2, <3>3 DEF Acts
  <2> QED
    BY <2>3, <2>4
<1>10. ~SubmitCrash(o)
  BY DEF SubmitCrash
<1> QED
  BY <1>2, <1>3, <1>4, <1>5, <1>6, <1>7, <1>8, <1>9, <1>10 DEF OrderStep, Submit, Acts

Agree == \A o \in Orders \ torn : AccountsAt(o)

LEMMA AgreeHolds == Spec => [](WellTyped /\ Agree)
<1>1. Init => WellTyped /\ Agree
  <2> SUFFICES ASSUME Init PROVE Agree
    BY InitWellTyped
  <2>1. ASSUME NEW o \in Orders PROVE Untouched(o)
    BY DEF Init, Untouched, Moved, LedgerKeys
  <2> QED
    BY <2>1 DEF Init, Agree, AccountsAt, HandlerAccounts, RowAccounts, Handler
<1>2. WellTyped /\ Agree /\ [Next]_vars => WellTyped' /\ Agree'
  <2> USE DEF Agree
  <2>1. ASSUME WellTyped, Agree, NEW o \in Orders, OrderStep(o)
        PROVE  Agree'
    <3>1. ASSUME o \notin torn' PROVE AccountsAt(o)'
      <4>1. o \notin torn
        BY <2>1, <3>1, TornStays DEF WellTyped, BookTyped
      <4> QED
        BY <2>1, <3>1, <4>1, AccountsKeptAt
    <3>2. ASSUME NEW p \in Orders, p # o, p \notin torn'
          PROVE  AccountsAt(p)'
      <4>1. Alone(p)
        BY <2>1, <3>2, StepIsLocal
      <4>2. AccountsAt(p)
        BY <2>1, <3>2, <4>1 DEF Alone
      <4> QED
        BY <4>1, <4>2
           DEF AccountsAt, HandlerAccounts, RowAccounts, Accounted, Untouched, Alone, Operations
    <3> QED
      BY <3>1, <3>2
  <2>2. ASSUME Agree, UNCHANGED vars
        PROVE  Agree'
    <3>1. \A o \in Orders, op \in Operations : Moved(op, o)' = Moved(op, o)
      BY <2>2 DEF Moved, vars, ledgerVars
    <3>2. UNCHANGED <<order, submit, operator, torn>>
      BY <2>2 DEF vars
    <3> QED
      BY <2>2, <3>1, <3>2
         DEF AccountsAt, HandlerAccounts, RowAccounts, Accounted, Untouched, Operations
  <2> QED
    BY <2>1, <2>2, NextWellTyped DEF Next
<1> QED
  BY <1>1, <1>2, PTL DEF Spec

\* Row and bookings agree for every order no fault and no overwritten row has
\* torn: held while open, paid when completed, refunded when an operator refused
\* it, untouched when it failed - however the operators, the owner and the
\* handler interleave.
THEOREM AccountsAgree == Spec => []OrdersAreAccounted
<1>1. Agree => OrdersAreAccounted
  BY DEF Agree, OrdersAreAccounted, AccountsAt, RowAccounts, Quiet
<1> QED
  BY <1>1, AgreeHolds, PTL

-------------------------------------------------------------------------------
(* The locked balances are what the orders hold.                             *)

\* The booking of a request that was not booked before.
Books(op, o, req) ==
  /\ posted[<<op, o>>] = None
  /\ posted' = [posted EXCEPT ![<<op, o>>] = req]
  /\ balance' = L!Apply(req.net)

\* All that a step does to the ledger, while nothing is torn.
LedgerStep(o) ==
  /\ normalSide' = normalSide
  /\ \/ UNCHANGED <<posted, balance>>
     \/ submit[o].pc = "call" /\ Books("transfer", o, TransferFrom(o, "available"))
     \/ submit[o].pc = "call" /\ Books("freeze", o, FreezeOf(o))
     \/ /\ Undecided(o, "approve")
        /\ Books("transfer", o, TransferFrom(o, IF order[o].frozen THEN "locked" ELSE "available"))
     \/ \E act \in {"reject", "cancel"} :
          Undecided(o, act) /\ order[o].frozen /\ Books("unfreeze", o, UnfreezeOf(o, act))

LEMMA PostBooks ==
  ASSUME BookTyped, NEW op \in Operations, NEW o \in Orders, NEW req \in Requests(o),
         L!Post(<<op, o>>, req, L!UserTypes, {})
  PROVE  /\ normalSide' = normalSide
         /\ UNCHANGED <<posted, balance>> \/ Books(op, o, req)
<1> DEFINE key == <<op, o>>
<1>1. key \in LedgerKeys /\ req # None
  BY RequestsAreReal DEF LedgerKeys, Operations
<1>2. normalSide' = normalSide
  BY DEF L!Post, L!setupVars
<1>3. \/ UNCHANGED <<posted, balance>>
      \/ posted[key] \in {req, None} /\ L!Booked(key, req)
  BY DEF L!Post, L!Succeeds
<1>4. ASSUME posted[key] = req, L!Booked(key, req)
      PROVE  UNCHANGED <<posted, balance>>
  BY <1>1, <1>4 DEF L!Booked, BookTyped
<1>5. ASSUME posted[key] = None, L!Booked(key, req)
      PROVE  Books(op, o, req)
  BY <1>5 DEF L!Booked, Books
<1> QED
  BY <1>2, <1>3, <1>4, <1>5

LEMMA CallBooks ==
  ASSUME BookTyped, NEW op \in Operations, NEW o \in Orders, NEW req \in Requests(o),
         NEW ok \in BOOLEAN, Call(op, o, req, ok)
  PROVE  /\ normalSide' = normalSide
         /\ UNCHANGED <<posted, balance>> \/ Books(op, o, req)
<1>1. L!Post(<<op, o>>, req, L!UserTypes, {}) \/ UNCHANGED ledgerVars
  BY DEF Call
<1> QED
  BY <1>1, PostBooks DEF ledgerVars

LEMMA StepBooks ==
  ASSUME BookTyped, NEW o \in Orders, OrderStep(o)
  PROVE  LedgerStep(o)
<1>1. CASE Execute(o)
  <2>1. PICK ok \in BOOLEAN :
          IF submit[o].row.strategy = "auto"
            THEN Call("transfer", o, TransferFrom(o, "available"), ok)
            ELSE Call("freeze", o, FreezeOf(o), ok)
    BY <1>1 DEF Execute
  <2>2. CASE Call("transfer", o, TransferFrom(o, "available"), ok)
    BY <1>1, <2>2, CallBooks DEF Execute, Requests, Operations, LedgerStep
  <2>3. CASE Call("freeze", o, FreezeOf(o), ok)
    BY <1>1, <2>3, CallBooks DEF Execute, Requests, Operations, LedgerStep
  <2> QED
    BY <2>1, <2>2, <2>3
<1>2. CASE Decide(o, "approve")
  <2> DEFINE req == TransferFrom(o, IF order[o].frozen THEN "locked" ELSE "available")
  <2>1. PICK ok \in BOOLEAN : Call("transfer", o, req, ok)
    BY <1>2 DEF Decide
  <2>2. req \in Requests(o)
    BY DEF Requests
  <2> HIDE DEF req
  <2>3. normalSide' = normalSide /\ (UNCHANGED <<posted, balance>> \/ Books("transfer", o, req))
    BY <2>1, <2>2, CallBooks DEF Operations
  <2> QED
    BY <1>2, <2>3 DEF Decide, LedgerStep, req
<1>3. ASSUME NEW act \in {"reject", "cancel"}, Decide(o, act)
      PROVE  LedgerStep(o)
  <2>1. CASE order[o].frozen
    <3>1. PICK ok \in BOOLEAN : Call("unfreeze", o, UnfreezeOf(o, act), ok)
      BY <1>3, <2>1 DEF Decide
    <3>2. UnfreezeOf(o, act) \in Requests(o)
      BY DEF Requests
    <3>3. /\ normalSide' = normalSide
          /\ UNCHANGED <<posted, balance>> \/ Books("unfreeze", o, UnfreezeOf(o, act))
      BY <3>1, <3>2, CallBooks DEF Operations
    <3> QED
      BY <1>3, <2>1, <3>3 DEF Decide, LedgerStep
  <2>2. CASE ~order[o].frozen
    BY <1>3, <2>2 DEF Decide, LedgerStep, ledgerVars
  <2> QED
    BY <2>1, <2>2
<1>4. CASE Create(o) \/ SaveOrder(o) \/ WriteEntries(o) \/ SubmitCrash(o) \/ CancelRead(o)
           \/ CancelSave(o) \/ Close(o)
  BY <1>4 DEF Create, SaveOrder, WriteEntries, SubmitCrash, CancelRead, CancelSave, Close,
              LedgerStep, ledgerVars
<1> QED
  BY <1>1, <1>2, <1>3, <1>4 DEF OrderStep, Submit

\* A row says that its amount is held only after its handler has written it, and
\* before the hold nothing was taken out of it.
HoldAt(o) ==
  /\ submit[o].pc \in {"new", "call", "save"} =>
       /\ order[o] # None => ~order[o].frozen
       /\ cancel[o] # None => ~cancel[o].frozen
  /\ ~Moved("freeze", o) =>
       ~Moved("unfreeze", o) /\ posted[<<"transfer", o>>] # TransferFrom(o, "locked")

HeldOf      == [o \in Orders |-> Held(o)]
OrdersOf(u) == {o \in Orders : PayerOf[o] = u}

HoldsInv ==
  /\ DOMAIN balance = L!BalanceKey /\ normalSide["USER_LIABILITY"] = "credit"
  /\ torn = {} => \A o \in Orders : HoldAt(o)
  /\ torn = {} => \A u \in Users : balance[Locked(u)] = SumFunctionOnSet(HeldOf, OrdersOf(u))

LEMMA HeldType ==
  ASSUME NEW o \in Orders
  PROVE  Held(o) \in Int
BY TransferAssumption DEF Held

\* The locked balance of a payer changes with what the order holds.
LEMMA SumMoves ==
  ASSUME IsFiniteSet(Orders), NEW o \in Orders, NEW change \in Int,
         Held(o)' = Held(o) + change,
         \A p \in Orders : p # o => Held(p)' = Held(p),
         NEW u \in Users,
         balance[Locked(u)] = SumFunctionOnSet(HeldOf, OrdersOf(u)),
         balance'[Locked(u)] = balance[Locked(u)] + (IF u = PayerOf[o] THEN change ELSE 0)
  PROVE  balance'[Locked(u)] = SumFunctionOnSet(HeldOf', OrdersOf(u))
<1>1. IsFiniteSet(OrdersOf(u)) /\ OrdersOf(u) \subseteq Orders
  BY FS_Subset DEF OrdersOf
<1>2. /\ \A p \in Orders : HeldOf[p] \in Int /\ (p # o => HeldOf'[p] = HeldOf[p])
      /\ HeldOf'[o] = HeldOf[o] + change /\ HeldOf[o] \in Int
  BY HeldType DEF HeldOf
<1>3. SumFunctionOnSet(HeldOf, OrdersOf(u)) \in Int
  BY <1>1, <1>2, SumType
<1>4. CASE u = PayerOf[o]
  <2>1. o \in OrdersOf(u) /\ HeldOf'[o] \in Int
    BY <1>2, <1>4 DEF OrdersOf
  <2>2. SumFunctionOnSet(HeldOf', OrdersOf(u))
          = SumFunctionOnSet(HeldOf, OrdersOf(u)) + HeldOf'[o] - HeldOf[o]
    BY <1>1, <1>2, <2>1, SumChanged
  <2>3. \A n, h, g \in Int : g = h + change => n + g - h = n + change
    OBVIOUS
  <2>4. SumFunctionOnSet(HeldOf', OrdersOf(u)) = SumFunctionOnSet(HeldOf, OrdersOf(u)) + change
    BY <1>2, <1>3, <2>1, <2>2, <2>3
  <2> QED
    BY <1>4, <2>4
<1>5. CASE u # PayerOf[o]
  <2>1. \A p \in OrdersOf(u) : HeldOf[p] = HeldOf'[p] /\ HeldOf[p] \in Int
    BY <1>1, <1>2, <1>5 DEF OrdersOf
  <2>2. SumFunctionOnSet(HeldOf, OrdersOf(u)) = SumFunctionOnSet(HeldOf', OrdersOf(u))
    BY <1>1, <2>1, SumCongruence
  <2>3. balance'[Locked(u)] = balance[Locked(u)] + 0
    BY <1>5
  <2> QED
    BY <1>3, <2>2, <2>3
<1> QED
  BY <1>4, <1>5

\* What a request does to the locked balances.
LEMMA RequestMoves ==
  ASSUME DOMAIN balance = L!BalanceKey, normalSide["USER_LIABILITY"] = "credit",
         \A u \in Users : balance[Locked(u)] \in Int,
         NEW b1 \in L!Buckets, NEW b2 \in L!Buckets, NEW u1 \in Users, NEW u2 \in Users,
         NEW amt \in Int, <<u1, b1>> # <<u2, b2>>, NEW u \in Users,
         balance' = L!Apply(L!Move(L!UserKey(u1, Asset, b1), L!UserKey(u2, Asset, b2), amt))
  PROVE  balance'[Locked(u)] = balance[Locked(u)]
           + (IF <<u, "locked">> = <<u1, b1>> THEN -amt
              ELSE IF <<u, "locked">> = <<u2, b2>> THEN amt ELSE 0)
<1> DEFINE k1 == L!UserKey(u1, Asset, b1)
           k2 == L!UserKey(u2, Asset, b2)
           net == L!Move(k1, k2, amt)
<1>1. Locked(u) \in L!BalanceKey
  BY DEF Locked, L!BalanceKey, L!Buckets
<1>2. /\ Locked(u) = k1 <=> <<u, "locked">> = <<u1, b1>>
      /\ Locked(u) = k2 <=> <<u, "locked">> = <<u2, b2>>
      /\ k1 # k2
  BY DEF Locked, L!UserKey, L!UserAccount
<1>3. L!TypeOf(Locked(u)) = "USER_LIABILITY"
  BY DEF Locked, L!UserKey, L!UserAccount, L!TypeOf
<1> HIDE DEF k1, k2
<1>4. DOMAIN net = {k1, k2} /\ net[k1] = amt /\ net[k2] = -amt
  BY <1>2 DEF L!Move
<1>5. L!Delta(net, Locked(u)) = -net[Locked(u)]
  BY <1>3 DEF L!Delta
<1>6. balance'[Locked(u)] =
        IF Locked(u) \in DOMAIN net THEN balance[Locked(u)] - net[Locked(u)] ELSE balance[Locked(u)]
  <2>1. balance' = L!Apply(net)
    BY DEF k1, k2
  <2>2. balance'[Locked(u)] =
        IF Locked(u) \in DOMAIN net THEN balance[Locked(u)] + L!Delta(net, Locked(u))
                                    ELSE balance[Locked(u)]
    BY <1>1, <2>1 DEF L!Apply
  <2> HIDE DEF net
  <2>3. Locked(u) \in DOMAIN net => net[Locked(u)] \in Int
    BY <1>4
  <2>4. Locked(u) \in DOMAIN net =>
          balance[Locked(u)] + L!Delta(net, Locked(u)) = balance[Locked(u)] - net[Locked(u)]
    BY <1>5, <2>3
  <2> QED
    BY <2>2, <2>4
<1> HIDE DEF net
<1>7. CASE Locked(u) = k1
  BY <1>2, <1>4, <1>6, <1>7
<1>8. CASE Locked(u) = k2
  BY <1>2, <1>4, <1>6, <1>8
<1>9. CASE Locked(u) # k1 /\ Locked(u) # k2
  BY <1>2, <1>4, <1>6, <1>9
<1> QED
  BY <1>7, <1>8, <1>9

\* A booking is about one order, and changes its bookings by one.
LEMMA BooksOne ==
  ASSUME BookTyped, NEW op \in Operations, NEW o \in Orders, NEW req \in Requests(o),
         Books(op, o, req)
  PROVE  /\ ~Moved(op, o) /\ Moved(op, o)' /\ posted'[<<op, o>>] = req
         /\ \A q \in Operations, p \in Orders : q # op \/ p # o =>
              posted'[<<q, p>>] = posted[<<q, p>>] /\ Moved(q, p)' = Moved(q, p)
         /\ \A p \in Orders : p # o => Held(p)' = Held(p)
<1>1. \A q \in Operations, p \in Orders : <<q, p>> \in LedgerKeys
  BY DEF LedgerKeys, Operations
<1>2. ~Moved(op, o) /\ Moved(op, o)' /\ posted'[<<op, o>>] = req
  BY <1>1, RequestsAreReal DEF Books, BookTyped, Moved
<1>3. \A q \in Operations, p \in Orders : q # op \/ p # o =>
         posted'[<<q, p>>] = posted[<<q, p>>] /\ Moved(q, p)' = Moved(q, p)
  BY <1>1 DEF Books, BookTyped, Moved
<1>4. ASSUME NEW p \in Orders, p # o PROVE Held(p)' = Held(p)
  BY <1>3, <1>4 DEF Held, Operations
<1> QED
  BY <1>2, <1>3, <1>4

\* The transfer of a hold is told from one of available money.
LEMMA SourcesDiffer ==
  ASSUME NEW o \in Orders
  PROVE  TransferFrom(o, "available") # TransferFrom(o, "locked")
<1> DEFINE hold == L!UserKey(PayerOf[o], Asset, "locked")
           free == L!UserKey(PayerOf[o], Asset, "available")
           to   == Available(PayeeOf[o])
<1>1. hold # free /\ hold # to
  BY DEF L!UserKey, Available
<1>2. \A b : DOMAIN TransferFrom(o, b).net = {L!UserKey(PayerOf[o], Asset, b), to}
  BY DEF TransferFrom, L!Request, L!Move
<1>3. hold \in DOMAIN TransferFrom(o, "locked").net /\ hold \notin DOMAIN TransferFrom(o, "available").net
  BY <1>1, <1>2
<1> QED
  BY <1>3

\* An order the operators decide with its amount held holds all of it.
LEMMA DecidedIsHeld ==
  ASSUME WellTyped, NEW o \in Orders, AccountsAt(o), HoldAt(o),
         NEW act \in Acts, Undecided(o, act), order[o].frozen
  PROVE  /\ Moved("freeze", o) /\ ~Moved("unfreeze", o) /\ ~Moved("transfer", o)
         /\ Held(o) = AmountOf[o]
<1>1. TypedAt(o)
  BY WellTypedPointwise DEF AllTyped
<1>2. order[o] # None /\ operator[o] = None /\ order[o].status = "pending"
  BY <1>1 DEF Undecided, TypedAt, RowType
<1>3. submit[o].pc \in {"entry", "done"}
  BY <1>1, <1>2 DEF HoldAt, TypedAt, Stages
<1>4. Moved("freeze", o) /\ ~Moved("unfreeze", o) /\ ~Moved("transfer", o)
  BY <1>2, <1>3 DEF AccountsAt, RowAccounts, Accounted
<1>5. None # TransferFrom(o, "locked")
  BY NoneAssumption
<1> QED
  BY <1>4, <1>5 DEF Held, Moved

LEMMA PartiesType ==
  ASSUME NEW o \in Orders
  PROVE  /\ PayerOf[o] \in Users /\ PayeeOf[o] \in Users /\ PayerOf[o] # PayeeOf[o]
         /\ AmountOf[o] \in Int /\ Refund(o) \in Int /\ DustOf[o] \in Int
         /\ AmountOf[o] - Refund(o) = DustOf[o]
BY TransferAssumption DEF Users, Range, Refund

\* Each booking changes the locked balance of the payer by what the order holds
\* more or less after it.
LEMMA BookingMoves ==
  ASSUME WellTyped, HoldsInv, NEW o \in Orders, AccountsAt(o), HoldAt(o), LedgerStep(o),
         ~UNCHANGED <<posted, balance>>,
         \A u \in Users : balance[Locked(u)] \in Int
  PROVE  /\ ~Moved("freeze", o)' =>
              ~Moved("unfreeze", o)' /\ posted'[<<"transfer", o>>] # TransferFrom(o, "locked")
         /\ \A p \in Orders : p # o => Held(p)' = Held(p)
         /\ \E change \in Int :
              /\ Held(o)' = Held(o) + change
              /\ \A u \in Users : balance'[Locked(u)] =
                   balance[Locked(u)] + (IF u = PayerOf[o] THEN change ELSE 0)
<1> BookTyped /\ L!Buckets = {"available", "locked"} /\ Operations = {"transfer", "freeze", "unfreeze"}
  BY DEF WellTyped, BookTyped, L!Buckets, Operations
<1> DOMAIN balance = L!BalanceKey /\ normalSide["USER_LIABILITY"] = "credit"
  BY DEF HoldsInv
<1> USE PartiesType
<1>1. CASE submit[o].pc = "call" /\ Books("freeze", o, FreezeOf(o))
  <2>1. FreezeOf(o) \in Requests(o)
    BY DEF Requests
  <2>2. /\ ~Moved("freeze", o) /\ Moved("freeze", o)' /\ Moved("unfreeze", o)' = Moved("unfreeze", o)
        /\ posted'[<<"transfer", o>>] = posted[<<"transfer", o>>]
        /\ \A p \in Orders : p # o => Held(p)' = Held(p)
    BY <1>1, <2>1, BooksOne
  <2>3. Held(o) = 0 /\ Held(o)' = AmountOf[o]
    BY <2>2 DEF HoldAt, Held
  <2>4. balance' = L!Apply(L!Move(L!UserKey(PayerOf[o], Asset, "available"),
                                  L!UserKey(PayerOf[o], Asset, "locked"), AmountOf[o]))
    BY <1>1 DEF Books, FreezeOf, L!Request, Available, Locked
  <2>5. ASSUME NEW u \in Users
        PROVE  balance'[Locked(u)] =
                 balance[Locked(u)] + (IF u = PayerOf[o] THEN AmountOf[o] ELSE 0)
    <3>1. balance'[Locked(u)] = balance[Locked(u)]
           + (IF <<u, "locked">> = <<PayerOf[o], "available">> THEN -AmountOf[o]
              ELSE IF <<u, "locked">> = <<PayerOf[o], "locked">> THEN AmountOf[o] ELSE 0)
      BY <2>4, RequestMoves
    <3> QED
      BY <3>1
  <2> QED
    BY <2>2, <2>3, <2>5
<1>2. ASSUME NEW b \in {"available", "locked"}, Books("transfer", o, TransferFrom(o, b)),
             b = "locked" => Held(o) = AmountOf[o] /\ Moved("freeze", o) /\ ~Moved("unfreeze", o)
      PROVE  /\ ~Moved("freeze", o)' =>
                   ~Moved("unfreeze", o)' /\ posted'[<<"transfer", o>>] # TransferFrom(o, "locked")
             /\ \A p \in Orders : p # o => Held(p)' = Held(p)
             /\ \E change \in Int :
                  /\ Held(o)' = Held(o) + change
                  /\ \A u \in Users : balance'[Locked(u)] =
                       balance[Locked(u)] + (IF u = PayerOf[o] THEN change ELSE 0)
  <2>1. TransferFrom(o, b) \in Requests(o)
    BY DEF Requests
  <2>2. /\ ~Moved("transfer", o) /\ posted'[<<"transfer", o>>] = TransferFrom(o, b)
        /\ Moved("unfreeze", o)' = Moved("unfreeze", o) /\ Moved("freeze", o)' = Moved("freeze", o)
        /\ \A p \in Orders : p # o => Held(p)' = Held(p)
    BY <1>2, <2>1, BooksOne
  <2>3. balance' = L!Apply(L!Move(L!UserKey(PayerOf[o], Asset, b),
                                  L!UserKey(PayeeOf[o], Asset, "available"), AmountOf[o]))
    BY <1>2 DEF Books, TransferFrom, L!Request, Available
  <2>4. ASSUME NEW u \in Users
        PROVE  balance'[Locked(u)] = balance[Locked(u)]
                 + (IF u = PayerOf[o] /\ b = "locked" THEN -AmountOf[o] ELSE 0)
    <3>1. balance'[Locked(u)] = balance[Locked(u)]
           + (IF <<u, "locked">> = <<PayerOf[o], b>> THEN -AmountOf[o]
              ELSE IF <<u, "locked">> = <<PayeeOf[o], "available">> THEN AmountOf[o] ELSE 0)
      BY <2>3, RequestMoves
    <3> QED
      BY <3>1
  <2>5. posted[<<"transfer", o>>] # TransferFrom(o, "locked")
    BY <2>2, NoneAssumption DEF Moved
  <2>6. CASE b = "available"
    <3>1. Held(o)' = Held(o) + 0
      BY <2>2, <2>5, <2>6, SourcesDiffer, HeldType DEF Held
    <3>2. \A u \in Users : balance'[Locked(u)] =
            balance[Locked(u)] + (IF u = PayerOf[o] THEN 0 ELSE 0)
      BY <2>4, <2>6
    <3> QED
      BY <2>2, <2>6, <3>1, <3>2, SourcesDiffer DEF HoldAt
  <2>7. CASE b = "locked"
    <3>1. Held(o)' = Held(o) + (-AmountOf[o])
      BY <1>2, <2>2, <2>7 DEF Held
    <3>2. \A u \in Users : balance'[Locked(u)] =
            balance[Locked(u)] + (IF u = PayerOf[o] THEN -AmountOf[o] ELSE 0)
      BY <2>4, <2>7
    <3> QED
      BY <1>2, <2>2, <2>7, <3>1, <3>2
  <2> QED
    BY <2>6, <2>7
<1>3. ASSUME NEW act \in {"reject", "cancel"}, Undecided(o, act), order[o].frozen,
             Books("unfreeze", o, UnfreezeOf(o, act))
      PROVE  /\ Moved("freeze", o)' /\ \A p \in Orders : p # o => Held(p)' = Held(p)
             /\ Held(o)' = Held(o) + (-Refund(o))
             /\ \A u \in Users : balance'[Locked(u)] =
                  balance[Locked(u)] + (IF u = PayerOf[o] THEN -Refund(o) ELSE 0)
  <2>1. UnfreezeOf(o, act) \in Requests(o)
    BY DEF Requests
  <2>2. Moved("freeze", o) /\ ~Moved("transfer", o) /\ Held(o) = AmountOf[o]
    BY <1>3, DecidedIsHeld DEF Acts
  <2>3. /\ Moved("unfreeze", o)' /\ Moved("freeze", o)' = Moved("freeze", o)
        /\ posted'[<<"transfer", o>>] = posted[<<"transfer", o>>]
        /\ \A p \in Orders : p # o => Held(p)' = Held(p)
    <3>1. Books("unfreeze", o, UnfreezeOf(o, act)) /\ "unfreeze" \in Operations
      BY <1>3 DEF Operations
    <3>2. /\ Moved("unfreeze", o)'
          /\ \A q \in Operations, p \in Orders : q # "unfreeze" \/ p # o =>
               posted'[<<q, p>>] = posted[<<q, p>>] /\ Moved(q, p)' = Moved(q, p)
          /\ \A p \in Orders : p # o => Held(p)' = Held(p)
      BY ONLY <3>1, <2>1, BooksOne, BookTyped, o \in Orders
    <3>3. "freeze" \in Operations /\ "transfer" \in Operations
      BY DEF Operations
    <3> QED
      BY ONLY <3>2, <3>3, o \in Orders
  <2>4. Held(o)' = DustOf[o]
    BY <2>2, <2>3, NoneAssumption DEF Held, Moved
  <2>5. balance' = L!Apply(L!Move(L!UserKey(PayerOf[o], Asset, "locked"),
                                  L!UserKey(PayerOf[o], Asset, "available"), Refund(o)))
    BY <1>3 DEF Books, UnfreezeOf, L!Request, Available, Locked
  <2>6. ASSUME NEW u \in Users
        PROVE  balance'[Locked(u)] =
                 balance[Locked(u)] + (IF u = PayerOf[o] THEN -Refund(o) ELSE 0)
    <3>1. balance'[Locked(u)] = balance[Locked(u)]
           + (IF <<u, "locked">> = <<PayerOf[o], "locked">> THEN -Refund(o)
              ELSE IF <<u, "locked">> = <<PayerOf[o], "available">> THEN Refund(o) ELSE 0)
      BY <2>5, RequestMoves
    <3> QED
      BY <3>1
  <2> QED
    BY <2>2, <2>3, <2>4, <2>6
<1>4. CASE submit[o].pc = "call" /\ Books("transfer", o, TransferFrom(o, "available"))
  BY <1>2, <1>4
<1>5. CASE /\ Undecided(o, "approve")
           /\ Books("transfer", o, TransferFrom(o, IF order[o].frozen THEN "locked" ELSE "available"))
  <2>1. CASE order[o].frozen
    BY <1>2, <1>5, <2>1, DecidedIsHeld DEF Acts
  <2>2. CASE ~order[o].frozen
    BY <1>2, <1>5, <2>2
  <2> QED
    BY <2>1, <2>2
<1>6. CASE \E act \in {"reject", "cancel"} :
             Undecided(o, act) /\ order[o].frozen /\ Books("unfreeze", o, UnfreezeOf(o, act))
  <2>1. -Refund(o) \in Int
    OBVIOUS
  <2> QED
    BY <1>3, <1>6, <2>1
<1> QED
  BY <1>1, <1>4, <1>5, <1>6 DEF LedgerStep

\* What the other steps do to what HoldAt looks at.
LEMMA HoldKept ==
  ASSUME WellTyped, NEW o \in Orders, HoldAt(o), OrderStep(o), o \notin torn',
         submit'[o].pc \in {"new", "call", "save"}
  PROVE  /\ order'[o] # None => ~order'[o].frozen
         /\ cancel'[o] # None => ~cancel'[o].frozen
<1>1. Shapes /\ TypedAt(o) /\ BookTyped
  BY WellTypedPointwise DEF AllTyped, Shapes
<1>2. submit[o].pc \in Stages /\ order[o] \in RowType \cup {None} /\ cancel[o] \in RowType \cup {None}
  BY <1>1 DEF TypedAt
<1>3. CASE Create(o)
  <2>1. PICK s \in Strategies : order'[o] = NewRow(s)
    BY <1>1, <1>3 DEF Create, Shapes
  <2> QED
    BY <1>1, <1>3, <2>1, NewRowType DEF Create, TypedAt, Copies
<1>4. CASE Execute(o)
  BY <1>4 DEF HoldAt, Execute
<1>5. CASE SaveOrder(o)
  <2>1. submit'[o].pc \in {"entry", "done"} \/ o \in torn'
    BY <1>1, <1>5 DEF SaveOrder, Shapes, TypedAt
  <2> QED
    BY <2>1
<1>6. CASE WriteEntries(o) \/ SubmitCrash(o)
  <2>1. submit'[o].pc = "done"
    BY <1>1, <1>6 DEF WriteEntries, SubmitCrash, Shapes, TypedAt
  <2> QED
    BY <2>1
<1>7. CASE CancelRead(o)
  <2>1. cancel'[o] = order[o] /\ order[o] # None /\ UNCHANGED <<order, submit>>
    BY <1>1, <1>7 DEF CancelRead, Shapes
  <2>2. ~order[o].frozen
    BY <2>1 DEF HoldAt
  <2> QED
    BY <2>1, <2>2
<1>8. CASE CancelSave(o)
  <2>1. /\ order'[o] = [cancel[o] EXCEPT !.status = "cancelled", !.by = "payer"]
        /\ cancel'[o] = None /\ cancel[o] # None /\ UNCHANGED submit
    BY <1>1, <1>8 DEF CancelSave, Saved, Shapes
  <2>2. order'[o].frozen = cancel[o].frozen
    BY <1>2, <2>1 DEF RowType
  <2> QED
    BY <2>1, <2>2 DEF HoldAt
<1>9. CASE Close(o)
  <2>1. UNCHANGED <<submit, cancel>> /\ order[o] # None
    BY <1>1, <1>9 DEF Close, TypedAt, Copies
  <2>2. order' = order \/ order'[o] = [order[o] EXCEPT !.status = Decided(operator[o]),
                              !.by = "operator", !.paid = @ \/ operator[o] = "approve"]
    BY <1>1, <1>9 DEF Close, Shapes
  <2>3. order'[o].frozen = order[o].frozen
    BY <1>2, <2>1, <2>2 DEF RowType
  <2> QED
    BY <2>1, <2>3 DEF HoldAt
<1>10. ASSUME NEW act \in Acts, Decide(o, act)
       PROVE  UNCHANGED <<order, submit, cancel>>
  BY <1>10 DEF Decide
<1> QED
  BY <1>3, <1>4, <1>5, <1>6, <1>7, <1>8, <1>9, <1>10 DEF OrderStep, Submit, HoldAt, Acts

LEMMA HoldsStep ==
  ASSUME IsFiniteSet(Orders), WellTyped, Agree, HoldsInv, NEW o \in Orders, OrderStep(o)
  PROVE  HoldsInv'
<1>1. BookTyped /\ torn \subseteq Orders
  BY DEF WellTyped, BookTyped, TypeOK
<1>2. LedgerStep(o)
  BY <1>1, StepBooks
<1>3. DOMAIN balance' = L!BalanceKey /\ normalSide'["USER_LIABILITY"] = "credit"
  BY <1>2 DEF HoldsInv, LedgerStep, Books, L!Apply
<1> SUFFICES ASSUME torn' = {}
             PROVE  /\ \A p \in Orders : HoldAt(p)'
                    /\ \A u \in Users : balance'[Locked(u)] = SumFunctionOnSet(HeldOf', OrdersOf(u))
  BY <1>3 DEF HoldsInv
<1>4. torn = {}
  <2>1. o \notin torn
    BY <1>1, TornStays
  <2>2. \A p \in Orders : p # o => p \notin torn
    BY StepIsLocal DEF Alone
  <2> QED
    BY <1>1, <2>1, <2>2
<1>5. AccountsAt(o) /\ (\A p \in Orders : HoldAt(p))
      /\ \A u \in Users : balance[Locked(u)] = SumFunctionOnSet(HeldOf, OrdersOf(u))
  BY <1>4 DEF HoldsInv, Agree
<1>6. \A u \in Users : balance[Locked(u)] \in Int
  <2> SUFFICES ASSUME NEW u \in Users PROVE SumFunctionOnSet(HeldOf, OrdersOf(u)) \in Int
    BY <1>5
  <2>1. IsFiniteSet(OrdersOf(u)) /\ \A p \in OrdersOf(u) : HeldOf[p] \in Int
    BY FS_Subset, HeldType DEF OrdersOf, HeldOf
  <2> QED
    BY <2>1, SumType
<1>7. ASSUME NEW p \in Orders, p # o PROVE HoldAt(p)'
  <2>1. Alone(p)
    BY <1>7, StepIsLocal
  <2>2. posted'[<<"transfer", p>>] = posted[<<"transfer", p>>]
    <3>1. <<"transfer", p>> \in LedgerKeys
      BY DEF LedgerKeys
    <3> QED
      BY <1>1, <1>2, <1>7, <3>1 DEF LedgerStep, Books, BookTyped
  <2> QED
    BY <1>5, <2>1, <2>2 DEF Alone, HoldAt, Operations
<1>8. submit'[o].pc \in {"new", "call", "save"} =>
        /\ order'[o] # None => ~order'[o].frozen
        /\ cancel'[o] # None => ~cancel'[o].frozen
  BY <1>5, HoldKept
<1>9. CASE UNCHANGED <<posted, balance>>
  <2>1. HoldAt(o)'
    BY <1>5, <1>8, <1>9 DEF HoldAt, Moved
  <2>2. HeldOf' = HeldOf
    BY <1>9 DEF HeldOf, Held, Moved
  <2> QED
    BY <1>5, <1>7, <1>9, <2>1, <2>2
<1>10. CASE ~UNCHANGED <<posted, balance>>
  <2>1. /\ ~Moved("freeze", o)' =>
             ~Moved("unfreeze", o)' /\ posted'[<<"transfer", o>>] # TransferFrom(o, "locked")
        /\ \A p \in Orders : p # o => Held(p)' = Held(p)
        /\ \E change \in Int :
             /\ Held(o)' = Held(o) + change
             /\ \A u \in Users : balance'[Locked(u)] =
                  balance[Locked(u)] + (IF u = PayerOf[o] THEN change ELSE 0)
    BY <1>2, <1>5, <1>6, <1>10, BookingMoves
  <2>2. HoldAt(o)'
    BY <1>8, <2>1 DEF HoldAt
  <2>3. PICK change \in Int :
          /\ Held(o)' = Held(o) + change
          /\ \A u \in Users : balance'[Locked(u)] =
               balance[Locked(u)] + (IF u = PayerOf[o] THEN change ELSE 0)
    BY <2>1
  <2>4. \A u \in Users : balance'[Locked(u)] = SumFunctionOnSet(HeldOf', OrdersOf(u))
    BY <1>5, <2>1, <2>3, SumMoves
  <2> QED
    BY <1>7, <2>2, <2>4
<1> QED
  BY <1>9, <1>10

LEMMA HoldsInit == IsFiniteSet(Orders) /\ Init => HoldsInv
<1> SUFFICES ASSUME IsFiniteSet(Orders), Init PROVE HoldsInv
  OBVIOUS
<1>1. DOMAIN balance = L!BalanceKey /\ normalSide["USER_LIABILITY"] = "credit"
  BY DEF Init, L!InitialSide, L!AccountTypes
<1>2. ASSUME NEW o \in Orders
      PROVE  ~Moved("freeze", o) /\ ~Moved("unfreeze", o) /\ ~Moved("transfer", o)
  BY DEF Init, Moved, LedgerKeys
<1>3. \A o \in Orders : HoldAt(o)
  BY <1>2, NoneAssumption DEF Init, HoldAt, Moved
<1>4. ASSUME NEW u \in Users
      PROVE  balance[Locked(u)] = SumFunctionOnSet(HeldOf, OrdersOf(u))
  <2>1. SumFunctionOnSet(HeldOf, OrdersOf(u)) = 0
    <3>1. IsFiniteSet(OrdersOf(u)) /\ {} \in SUBSET OrdersOf(u)
      BY FS_Subset DEF OrdersOf
    <3>2. \A o \in OrdersOf(u) : HeldOf[o] = 0 /\ HeldOf[o] \in Int
      BY <1>2 DEF OrdersOf, HeldOf, Held
    <3> QED
      BY <3>1, <3>2, SumOfPart, SumEmpty
  <2>2. Locked(u) \in L!BalanceKey
    BY DEF Locked, L!BalanceKey, L!Buckets
  <2>3. Locked(u) # L!SystemKey(L!HotAccount(Chain), Asset) /\ Locked(u) \notin {Available(v) : v \in Users}
    BY DEF Locked, Available, L!UserKey, L!SystemKey, L!HotAccount, L!UserAccount
  <2>4. balance[Locked(u)] = 0
    BY <2>2, <2>3 DEF Init
  <2> QED
    BY <2>1, <2>4
<1> QED
  BY <1>1, <1>3, <1>4 DEF HoldsInv

\* Holds do not pay for each other: for any orders and users, while no fault and
\* no overwritten row has torn an order, every user's locked balance is the sum of
\* what the open orders hold and what refunds and owners' cancellations left
\* behind - an approval takes the hold of its own order, once, and a refund never
\* follows it (approve, reject and cancel against submit).
THEOREM HoldsAreKept ==
  ASSUME IsFiniteSet(Orders)
  PROVE  Spec => []LockedIsHeld
<1>1. WellTyped /\ Agree /\ HoldsInv /\ [Next]_vars => HoldsInv'
  <2>1. ASSUME HoldsInv, UNCHANGED vars
        PROVE  HoldsInv'
    BY <2>1 DEF vars, ledgerVars, HoldsInv, HoldAt, HeldOf, Held, Moved
  <2> QED
    BY <2>1, HoldsStep DEF Next
<1>2. HoldsInv => LockedIsHeld
  BY DEF HoldsInv, LockedIsHeld, HeldOf, OrdersOf
<1> QED
  BY <1>1, <1>2, HoldsInit, AgreeHolds, PTL DEF Spec
===============================================================================
