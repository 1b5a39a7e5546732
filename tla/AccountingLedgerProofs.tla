------------------------ MODULE AccountingLedgerProofs ------------------------
(* Theorems about AccountingLedger, for every set of users, assets, keys...  *)
EXTENDS AccountingLedger, Sums

-------------------------------------------------------------------------------
(* The requests of the templates are well formed.                            *)

LEMMA SystemKeyType ==
  ASSUME NEW s \in SystemAccounts, NEW a \in Assets
  PROVE  SystemKey(s, a) \in BalanceKey
BY DEF BalanceKey

LEMMA UserKeyType ==
  ASSUME NEW u \in Users, NEW a \in Assets, NEW b \in Buckets
  PROVE  UserKey(u, a, b) \in BalanceKey
BY DEF BalanceKey

LEMMA SystemAccountType ==
  /\ \A c \in Chains : HotAccount(c) \in SystemAccounts
  /\ \A t \in GlobalTypes : SysAccount(t) \in SystemAccounts
BY DEF SystemAccounts

\* Every balance key belongs to an account type of the chart.
LEMMA TypeOfKey ==
  ASSUME NEW k \in BalanceKey
  PROVE  TypeOf(k) \in AccountTypes
BY DEF BalanceKey, UserKey, SystemKey, UserAccount, SystemAccounts, HotAccount, SysAccount,
       TypeOf, AccountTypes

LEMMA MoveIsRequest ==
  ASSUME NEW d \in BalanceKey, NEW c \in BalanceKey, NEW amt \in Int,
         NEW op \in OpTypes, NEW w \in BizRefs
  PROVE  IsRequest(Request(op, w, Move(d, c, amt)))
BY DEF IsRequest, Request, Move

\* A booked request is told from "nothing booked".
LEMMA RequestIsNotNone ==
  ASSUME NEW r, IsRequest(r)
  PROVE  r # None
<1> DEFINE Nets == UNION {[S -> Int] : S \in SUBSET BalanceKey}
           Requests == [op : OpTypes, biz : BizRefs, net : Nets]
<1>1. r.net \in Nets
  BY DEF IsRequest
<1> HIDE DEF Nets
<1>2. Request(r.op, r.biz, r.net) \in Requests
  BY <1>1 DEF IsRequest, Request
<1>3. r \in Requests
  BY <1>2 DEF IsRequest
<1> QED
  BY <1>3, NoneAssumption DEF Nets

LEMMA SettleIsRequest ==
  ASSUME NEW w \in BizRefs, NEW u \in Users, NEW a \in Assets, NEW c \in Chains,
         NEW amt \in Int, NEW fee \in Int
  PROVE  IsRequest(SettleRequest(w, u, a, c, amt, fee))
<1> DEFINE locked == UserKey(u, a, "locked")
           hot    == SystemKey(HotAccount(c), a)
           income == SystemKey(SysAccount("SYS_FEE_INCOME"), a)
<1>1. locked \in BalanceKey
  BY UserKeyType DEF Buckets
<1>2. hot \in BalanceKey /\ income \in BalanceKey
  BY SystemKeyType, SystemAccountType DEF GlobalTypes
<1>3. CASE fee = 0
  BY <1>1, <1>2, <1>3, MoveIsRequest DEF SettleRequest, OpTypes
<1>4. CASE fee # 0
  <2> DEFINE net == [k \in {locked, hot, income} |->
                       IF k = locked THEN amt + fee ELSE IF k = hot THEN -amt ELSE -fee]
  <2>1. net \in [{locked, hot, income} -> Int]
    OBVIOUS
  <2>2. {locked, hot, income} \subseteq BalanceKey
    BY <1>1, <1>2
  <2>3. SettleRequest(w, u, a, c, amt, fee) = Request("SettleWithdraw", w, net)
    BY <1>4 DEF SettleRequest
  <2> HIDE DEF net, locked, hot, income
  <2>4. IsRequest(Request("SettleWithdraw", w, net))
    BY <2>1, <2>2 DEF IsRequest, Request, OpTypes
  <2> QED
    BY <2>3, <2>4
<1> QED
  BY <1>3, <1>4

LEMMA AdjustIsRequest ==
  ASSUME NEW target \in BalanceKey, NEW direction, NEW amt \in Int
  PROVE  IsRequest(Request("AdminAdjust", None, AdjustNet(target, direction, amt)))
<1>1. target[2] \in Assets
  BY DEF BalanceKey, UserKey, SystemKey
<1>2. SystemKey(SysAccount("SYS_ADJUST_INCOME"), target[2]) \in BalanceKey
  BY <1>1, SystemKeyType, SystemAccountType DEF GlobalTypes
<1>3. SystemKey(SysAccount("SYS_ADJUST_EXPENSE"), target[2]) \in BalanceKey
  BY <1>1, SystemKeyType, SystemAccountType DEF GlobalTypes
<1> QED
  BY <1>2, <1>3, MoveIsRequest DEF AdjustNet, OpTypes, BizRefs

-------------------------------------------------------------------------------
(* Every money operation is one booking: a well-formed request, posted with   *)
(* the record write that belongs to it.                                      *)

\* The record write a template may leave behind request r, booked under key.
Follows(w, key, r) ==
  \/ r.biz \in Withdrawals /\ \E s \in FinalStatuses : w = Restate(r.biz, s)
  \/ /\ r.biz \in Withdrawals /\ r.op = "FreezeWithdraw"
     /\ w = Upsert(r.biz, Row("pending", key, None, None))
  \/ /\ r.biz \in Withdrawals /\ r.op = "SettleWithdraw"
     /\ w = Upsert(r.biz, Row("success", None, key, None))
  \/ /\ r.op \in {"ConfirmDeposit", "AdminAdjust"}
     /\ w = Upsert(key, Row("completed", None, None, key))

WellPosted(key, r, types, writes) ==
  /\ IsRequest(r)
  /\ types \subseteq AccountTypes
  /\ \A w \in writes : Follows(w, key, r)
  /\ Post(key, r, types, writes)

Booking == \E key \in Keys : \E r, types, writes : WellPosted(key, r, types, writes)

LEMMA BookingIntro ==
  ASSUME NEW key \in Keys, NEW r, NEW types, NEW writes, WellPosted(key, r, types, writes)
  PROVE  Booking
BY DEF Booking

LEMMA WithdrawStepBooks == WithdrawStep => Booking
<1> SUFFICES ASSUME NEW key \in Keys, NEW w \in BizRefs, NEW u \in Users,
                    NEW a \in Assets, NEW amt \in Amounts,
                    \/ FreezeWithdraw(key, w, u, a, amt)
                    \/ \E c \in Chains, fee \in Fees : SettleWithdraw(key, w, u, a, c, amt, fee)
                    \/ \E final \in FinalStatuses : UnfreezeWithdraw(key, w, u, a, amt, final)
             PROVE  Booking
  BY DEF WithdrawStep
<1>1. amt \in Int /\ UserTypes \subseteq AccountTypes /\ SystemTypes \subseteq AccountTypes
  BY AmountAssumption DEF UserTypes, SystemTypes, AccountTypes
<1>2. UserKey(u, a, "available") \in BalanceKey /\ UserKey(u, a, "locked") \in BalanceKey
  BY UserKeyType DEF Buckets
<1>3. CASE FreezeWithdraw(key, w, u, a, amt)
  <2> DEFINE r == FreezeRequest(w, u, a, amt)
             writes == IfWithdrawal(w, Upsert(w, Row("pending", key, None, None)))
  <2>1. IsRequest(r)
    BY <1>1, <1>2, MoveIsRequest DEF FreezeRequest, OpTypes
  <2>2. \A x \in writes : Follows(x, key, r)
    BY DEF IfWithdrawal, FreezeRequest, Request, Follows
  <2> QED
    BY <1>1, <1>3, <2>1, <2>2, BookingIntro DEF FreezeWithdraw, WellPosted
<1>4. ASSUME NEW c \in Chains, NEW fee \in Fees, SettleWithdraw(key, w, u, a, c, amt, fee)
      PROVE  Booking
  <2> DEFINE r == SettleRequest(w, u, a, c, amt, fee)
             writes == IfWithdrawal(w, Upsert(w, Row("success", None, key, None)))
  <2>1. IsRequest(r)
    BY <1>1, AmountAssumption, SettleIsRequest
  <2>2. \A x \in writes : Follows(x, key, r)
    BY DEF IfWithdrawal, SettleRequest, Request, Follows
  <2> QED
    BY <1>1, <1>4, <2>1, <2>2, BookingIntro DEF SettleWithdraw, WellPosted
<1>5. ASSUME NEW final \in FinalStatuses, UnfreezeWithdraw(key, w, u, a, amt, final)
      PROVE  Booking
  <2> DEFINE r == UnfreezeRequest(w, u, a, amt)
             writes == IfWithdrawal(w, Restate(w, final))
  <2>1. IsRequest(r)
    BY <1>1, <1>2, MoveIsRequest DEF UnfreezeRequest, OpTypes
  <2>2. \A x \in writes : Follows(x, key, r)
    BY DEF IfWithdrawal, UnfreezeRequest, Request, Follows
  <2> QED
    BY <1>1, <1>5, <2>1, <2>2, BookingIntro DEF UnfreezeWithdraw, WellPosted
<1> QED
  BY <1>3, <1>4, <1>5

LEMMA FundingStepBooks == FundingStep => Booking
<1> SUFFICES ASSUME NEW key \in Keys, NEW a \in Assets, NEW amt \in Amounts,
                    \/ \E u \in Users, c \in Chains : ConfirmDeposit(key, u, a, c, amt)
                    \/ \E c \in Chains : FundSystemWallet(key, a, c, amt)
                    \/ \E from, to \in Users \X Buckets : Transfer(key, from, to, a, amt)
                    \/ \E u \in Users : FreezeUserAssets(key, u, a, amt)
                    \/ \E u \in Users : UnfreezeUserAssets(key, u, a, amt)
             PROVE  Booking
  BY DEF FundingStep
<1>1. amt \in Int /\ UserTypes \subseteq AccountTypes /\ SystemTypes \subseteq AccountTypes
  BY AmountAssumption DEF UserTypes, SystemTypes, AccountTypes
<1>2. \A u \in Users : UserKey(u, a, "available") \in BalanceKey /\ UserKey(u, a, "locked") \in BalanceKey
  BY UserKeyType DEF Buckets
<1>3. \A c \in Chains : SystemKey(HotAccount(c), a) \in BalanceKey
  BY SystemKeyType, SystemAccountType
<1>4. SystemKey(SysAccount("SYS_CAPITAL"), a) \in BalanceKey
  BY SystemKeyType, SystemAccountType DEF GlobalTypes
<1>5. None \in BizRefs
  BY DEF BizRefs
<1>6. ASSUME NEW u \in Users, NEW c \in Chains, ConfirmDeposit(key, u, a, c, amt)
      PROVE  Booking
  <2> DEFINE r == DepositRequest(u, a, c, amt)
             writes == {Upsert(key, Row("completed", None, None, key))}
  <2>1. IsRequest(r)
    BY <1>1, <1>2, <1>3, <1>5, MoveIsRequest DEF DepositRequest, OpTypes
  <2>2. \A x \in writes : Follows(x, key, r)
    BY DEF DepositRequest, Request, Follows
  <2> QED
    BY <1>1, <1>6, <2>1, <2>2, BookingIntro DEF ConfirmDeposit, WellPosted
<1>7. ASSUME NEW c \in Chains, FundSystemWallet(key, a, c, amt)
      PROVE  Booking
  BY <1>1, <1>3, <1>4, <1>5, <1>7, MoveIsRequest, BookingIntro
     DEF FundSystemWallet, OpTypes, WellPosted
<1>8. ASSUME NEW from \in Users \X Buckets, NEW to \in Users \X Buckets,
             Transfer(key, from, to, a, amt)
      PROVE  Booking
  <2>1. UserKey(from[1], a, from[2]) \in BalanceKey /\ UserKey(to[1], a, to[2]) \in BalanceKey
    BY UserKeyType
  <2> QED
    BY <1>1, <1>5, <1>8, <2>1, MoveIsRequest, BookingIntro DEF Transfer, OpTypes, WellPosted
<1>9. ASSUME NEW u \in Users, FreezeUserAssets(key, u, a, amt)
      PROVE  Booking
  BY <1>1, <1>2, <1>5, <1>9, MoveIsRequest, BookingIntro
     DEF FreezeUserAssets, OpTypes, WellPosted
<1>10. ASSUME NEW u \in Users, UnfreezeUserAssets(key, u, a, amt)
       PROVE  Booking
  BY <1>1, <1>2, <1>5, <1>10, MoveIsRequest, BookingIntro
     DEF UnfreezeUserAssets, OpTypes, WellPosted
<1> QED
  BY <1>6, <1>7, <1>8, <1>9, <1>10

LEMMA AdjustStepBooks == AdjustStep => Booking
<1> SUFFICES ASSUME NEW key \in Keys, NEW target \in BalanceKey, NEW amt \in Amounts,
                    NEW d \in {"increase", "decrease"}, AdminAdjust(key, target, d, amt)
             PROVE  Booking
  BY DEF AdjustStep
<1> DEFINE r == Request("AdminAdjust", None, AdjustNet(target, d, amt))
<1>1. IsRequest(r)
  BY AmountAssumption, AdjustIsRequest
<1>2. GlobalTypes \cup {TypeOf(target)} \subseteq AccountTypes
  BY TypeOfKey DEF AccountTypes
<1>3. Follows(Upsert(key, Row("completed", None, None, key)), key, r)
  BY DEF Request, Follows
<1> QED
  BY <1>1, <1>2, <1>3, BookingIntro DEF AdminAdjust, WellPosted

LEMMA MoneyStepBooks == WithdrawStep \/ FundingStep \/ AdjustStep => Booking
BY WithdrawStepBooks, FundingStepBooks, AdjustStepBooks

-------------------------------------------------------------------------------
(* Type correctness: no balance leaves its column, whatever is booked.       *)

WriteType == [id : Withdrawals \cup Keys, change : {"row"}, value : Rows]
        \cup [id : Withdrawals, change : {"status"}, value : FinalStatuses]

\* A request that fits keeps every balance inside its column.
LEMMA ApplyType ==
  ASSUME TypeOK, NEW r, IsRequest(r), Fits(r.net)
  PROVE  Apply(r.net) \in [BalanceKey -> 0 .. MaxRaw]
BY DEF TypeOK, IsRequest, Fits, Apply

\* What a handler may leave to be written is a typed record write.
LEMMA FollowsType ==
  ASSUME NEW key \in Keys, NEW r, NEW w, Follows(w, key, r)
  PROVE  w \in WriteType
BY DEF Follows, Upsert, Restate, Row, WriteType, Rows, Statuses

LEMMA BookingType ==
  ASSUME TypeOK, NEW key \in Keys, NEW r, NEW types, NEW writes,
         WellPosted(key, r, types, writes)
  PROVE  TypeOK'
<1>1. support' \subseteq AccountTypes \X Assets
  BY DEF TypeOK, WellPosted, Post, EnsureSupport
<1>2. UNCHANGED <<enabled, retired, normalSide, record>>
  BY DEF WellPosted, Post, setupVars
<1>3. CASE ~Succeeds(key, r, support')
  BY <1>1, <1>2, <1>3 DEF WellPosted, Post, TypeOK, IsRequest
<1>4. CASE Succeeds(key, r, support')
  <2>1. posted' = [posted EXCEPT ![key] = r] /\ inflight' = inflight \cup writes
    BY <1>4 DEF WellPosted, Post, Booked
  <2>2. posted' = [k \in Keys |-> posted'[k]]
    BY <2>1 DEF TypeOK
  <2>3. \A k \in Keys : posted'[k] = None \/ IsRequest(posted'[k])
    BY <2>1 DEF TypeOK, WellPosted
  <2>4. balance' \in [BalanceKey -> 0 .. MaxRaw]
    <3>1. CASE posted[key] = None
      <4>1. balance' = Apply(r.net)
        BY <1>4, <3>1 DEF WellPosted, Post, Booked
      <4>2. r # None => Fits(r.net)
        BY <1>4, <3>1 DEF Succeeds
      <4> QED
        BY <4>1, <4>2, RequestIsNotNone, ApplyType DEF WellPosted
    <3>2. CASE posted[key] # None
      BY <1>4, <3>2 DEF WellPosted, Post, Booked, TypeOK
    <3> QED
      BY <3>1, <3>2
  <2>5. inflight' \subseteq WriteType
    BY <2>1, FollowsType DEF TypeOK, WellPosted, WriteType
  <2> QED
    BY <1>1, <1>2, <2>2, <2>3, <2>4, <2>5 DEF TypeOK, WriteType
<1> QED
  BY <1>3, <1>4

LEMMA RecordStepType == TypeOK /\ RecordStep => TypeOK'
<1> SUFFICES ASSUME TypeOK, RecordStep PROVE TypeOK'
  OBVIOUS
<1>1. \A w \in WriteType : Written(w) \in [Withdrawals \cup Keys -> Rows \cup {None}]
  BY DEF TypeOK, Written, WriteType, Rows, Statuses
<1>2. \A id \in Withdrawals, s \in FinalStatuses : Restate(id, s) \in WriteType
  BY DEF Restate, WriteType
<1>3. UNCHANGED <<bookVars, setupVars>>
  BY DEF RecordStep, WriteRecord, LoseRecordWrite, UpsertUserTransactionRecordMeta
<1>4. record' \in [Withdrawals \cup Keys -> Rows \cup {None}] /\ inflight' \subseteq inflight
  BY <1>1, <1>2 DEF TypeOK, WriteType, RecordStep, WriteRecord, LoseRecordWrite,
                    UpsertUserTransactionRecordMeta
<1> QED
  BY <1>3, <1>4 DEF TypeOK, bookVars, setupVars, IsRequest

LEMMA SetupStepType == TypeOK /\ SetupStep => TypeOK'
BY SetupAssumption
   DEF TypeOK, SetupStep, UpdateAssetStatus, SetAccountTypeAssets, DeleteAccountType,
       UpdateAccountType, bookVars, setupVars, recordVars, IsRequest

LEMMA InitType == Init => TypeOK
BY AmountAssumption DEF Init, TypeOK, IsRequest, InitialSide, Sides, AccountTypes

LEMMA NextType == TypeOK /\ [Next]_ledgerVars => TypeOK'
<1> SUFFICES ASSUME TypeOK, [Next]_ledgerVars PROVE TypeOK'
  OBVIOUS
<1>1. CASE WithdrawStep \/ FundingStep \/ AdjustStep
  BY <1>1, MoneyStepBooks, BookingType DEF Booking
<1>2. CASE RecordStep
  BY <1>2, RecordStepType
<1>3. CASE SetupStep
  BY <1>3, SetupStepType
<1>4. CASE UNCHANGED ledgerVars
  BY <1>4 DEF ledgerVars, TypeOK, IsRequest
<1> QED
  BY <1>1, <1>2, <1>3, <1>4 DEF Next

\* Every variable keeps its type, and in particular no balance row is ever
\* negative or outgrows its column, for any users, assets, keys and amounts and
\* whatever the administrators do: the guard of applyBalanceDelta suffices.
THEOREM TypeCorrect == Spec => []TypeOK
<1>1. Init => TypeOK
  BY InitType
<1>2. TypeOK /\ [Next]_ledgerVars => TypeOK'
  BY NextType
<1> QED
  BY <1>1, <1>2, PTL DEF Spec

-------------------------------------------------------------------------------
(* Refinement: the ledger implements the journal.                            *)

LEMMA NegatedZero ==
  ASSUME NEW n, n = 0
  PROVE  -n = n
<1>1. n \in Int /\ n + n = 0
  OBVIOUS
<1>2. \A i \in Int : i + i = 0 => -i = i
  OBVIOUS
<1> QED
  BY <1>1, <1>2

\* A booking under a fresh key is the journal's step.
LEMMA BookedIsJournalStep ==
  ASSUME TypeOK, UNCHANGED normalSide, NEW key \in Keys, NEW r, IsRequest(r),
         posted[key] = None, Balanced(r.net),
         posted' = [posted EXCEPT ![key] = r], balance' = Apply(r.net)
  PROVE  Journal!Book(key)
<1>1. posted'[key] = r
  BY DEF TypeOK
<1>2. r # None
  BY RequestIsNotNone
<1>3. DOMAIN r.net \subseteq BalanceKey /\ r.net \in [DOMAIN r.net -> Int]
  BY DEF IsRequest
<1>4. Journal!Balanced(r.net)
  BY DEF Balanced, OfAsset, SumFunctionOnSet, FoldFunctionOnSet, MapThenFoldSet,
         Journal!Balanced, Journal!OfAsset, Journal!SumFunctionOnSet,
         Journal!FoldFunctionOnSet, Journal!MapThenFoldSet
<1>5. ASSUME NEW k \in BalanceKey
      PROVE  NetDebit(k)' = IF k \in DOMAIN r.net THEN NetDebit(k) + r.net[k] ELSE NetDebit(k)
  <2>1. balance[k] \in Int
    BY DEF TypeOK
  <2>2. k \in DOMAIN r.net => r.net[k] \in Int
    BY <1>3
  <2>3. balance'[k] = IF k \in DOMAIN r.net THEN balance[k] + Delta(r.net, k) ELSE balance[k]
    BY DEF Apply
  <2> QED
    BY <2>1, <2>2, <2>3 DEF NetDebit, Delta
<1> DEFINE debits == [k \in BalanceKey |-> NetDebit(k)]
<1>6. debits' = [k \in BalanceKey |->
                   IF k \in DOMAIN r.net THEN debits[k] + r.net[k] ELSE debits[k]]
  BY <1>5
<1> QED
  BY <1>1, <1>2, <1>3, <1>4, <1>6 DEF Journal!Book

LEMMA BookingIsJournalStep ==
  ASSUME TypeOK, NEW key \in Keys, NEW r, NEW types, NEW writes,
         WellPosted(key, r, types, writes)
  PROVE  [Journal!Next]_(Journal!vars)
<1>1. UNCHANGED normalSide
  BY DEF WellPosted, Post, setupVars
<1>2. CASE ~Succeeds(key, r, support') \/ posted[key] # None
  <2>1. UNCHANGED <<posted, balance>>
    BY <1>2 DEF WellPosted, Post, Booked, Succeeds, TypeOK
  <2> QED
    BY <1>1, <2>1 DEF Journal!vars, NetDebit
<1>3. CASE Succeeds(key, r, support') /\ posted[key] = None
  <2>1. posted' = [posted EXCEPT ![key] = r] /\ balance' = Apply(r.net)
    BY <1>3 DEF WellPosted, Post, Booked
  <2>2. Balanced(r.net) /\ IsRequest(r)
    BY <1>3 DEF Succeeds, WellPosted
  <2> QED
    BY <1>1, <1>3, <2>1, <2>2, BookedIsJournalStep DEF Journal!Next
<1> QED
  BY <1>2, <1>3

\* A type whose accounts are empty reads the same on either side.
LEMMA FlipKeepsBook ==
  ASSUME TypeOK, NEW t \in AccountTypes, NEW side \in Sides, ~InUse(t), UpdateAccountType(t, side)
  PROVE  UNCHANGED Journal!vars
<1>1. UNCHANGED <<posted, balance>>
  BY DEF UpdateAccountType, bookVars
<1>2. ASSUME NEW k \in BalanceKey PROVE NetDebit(k)' = NetDebit(k)
  <2>1. CASE TypeOf(k) = t
    <3>1. balance[k] = 0 /\ -balance[k] = balance[k]
      BY <2>1, NegatedZero DEF InUse
    <3> QED
      BY <1>1, <3>1 DEF NetDebit
  <2>2. CASE TypeOf(k) # t
    <3>1. normalSide'[TypeOf(k)] = normalSide[TypeOf(k)]
      BY <2>2, TypeOfKey DEF UpdateAccountType, TypeOK
    <3> QED
      BY <1>1, <3>1 DEF NetDebit
  <2> QED
    BY <2>1, <2>2
<1> QED
  BY <1>1, <1>2 DEF Journal!vars

LEMMA StepIsJournalStep ==
  ASSUME ~FlipsInUse, TypeOK, [Next]_ledgerVars
  PROVE  [Journal!Next]_(Journal!vars)
<1>1. CASE WithdrawStep \/ FundingStep \/ AdjustStep
  BY <1>1, MoneyStepBooks, BookingIsJournalStep DEF Booking
<1>2. CASE RecordStep
  BY <1>2 DEF RecordStep, WriteRecord, LoseRecordWrite, UpsertUserTransactionRecordMeta,
              bookVars, setupVars, Journal!vars, NetDebit
<1>3. CASE SetupStep
  <2>1. CASE \E t \in FlippableTypes, side \in Sides :
               (FlipsInUse \/ ~InUse(t)) /\ UpdateAccountType(t, side)
    BY <2>1, FlipKeepsBook, SetupAssumption
  <2>2. CASE UNCHANGED <<posted, balance, normalSide>>
    BY <2>2 DEF Journal!vars, NetDebit
  <2> QED
    BY <1>3, <2>1, <2>2 DEF SetupStep, UpdateAssetStatus, SetAccountTypeAssets,
                            DeleteAccountType, bookVars, setupVars
<1>4. CASE UNCHANGED ledgerVars
  BY <1>4 DEF ledgerVars, Journal!vars, NetDebit
<1> QED
  BY <1>1, <1>2, <1>3, <1>4 DEF Next

\* While no operator rewrites the side of a type that holds money, every step
\* books one balanced request under a fresh key and moves the book by exactly
\* it, or changes neither: a replayed, refused or half-recorded request never
\* moves money (engine.PostTx).
THEOREM ImplementsJournal ==
  ASSUME ~FlipsInUse
  PROVE  Spec => JournalSpec
<1>1. Init => Journal!Init
  <2> SUFFICES ASSUME Init PROVE Journal!Init
    OBVIOUS
  <2>1. ASSUME NEW k \in BalanceKey PROVE NetDebit(k) = 0
    <3>1. balance[k] = 0
      BY DEF Init
    <3>2. -balance[k] = balance[k]
      BY <3>1, NegatedZero
    <3>3. NetDebit(k) = balance[k]
      BY <3>2 DEF NetDebit
    <3> QED
      BY <3>1, <3>3
  <2>2. [k \in BalanceKey |-> NetDebit(k)] = [k \in BalanceKey |-> 0]
    BY <2>1
  <2> QED
    BY <2>2 DEF Init, Journal!Init
<1>2. TypeOK /\ [Next]_ledgerVars => [Journal!Next]_(Journal!vars)
  BY StepIsJournalStep
<1> QED
  BY <1>1, <1>2, TypeCorrect, PTL DEF Spec, JournalSpec, Journal!Spec

-------------------------------------------------------------------------------
(* Double entry: the book always balances.                                   *)

\* The balance rows of an asset are finitely many.
LEMMA RowsAreFinite ==
  ASSUME IsFiniteSet(Users), IsFiniteSet(Chains), NEW a \in Assets
  PROVE  IsFiniteSet(OfAsset(BalanceKey, a))
<1> DEFINE owned  == {UserKey(u, a, b) : u \in Users, b \in Buckets}
           hot    == {SystemKey(HotAccount(c), a) : c \in Chains}
           global == {SystemKey(SysAccount(t), a) : t \in GlobalTypes}
<1>1. IsFiniteSet(Buckets) /\ IsFiniteSet(GlobalTypes)
  <2>1. IsFiniteSet({"SYS_FEE_INCOME"} \cup {"SYS_ADJUST_EXPENSE"})
    BY FS_Singleton, FS_AddElement
  <2>2. IsFiniteSet(({"SYS_FEE_INCOME"} \cup {"SYS_ADJUST_EXPENSE"}) \cup {"SYS_ADJUST_INCOME"})
    BY <2>1, FS_AddElement
  <2>3. IsFiniteSet((({"SYS_FEE_INCOME"} \cup {"SYS_ADJUST_EXPENSE"}) \cup {"SYS_ADJUST_INCOME"})
                    \cup {"SYS_CAPITAL"})
    BY <2>2, FS_AddElement
  <2>4. IsFiniteSet({"available"} \cup {"locked"})
    BY FS_Singleton, FS_AddElement
  <2>5. Buckets = {"available"} \cup {"locked"}
    BY DEF Buckets
  <2>6. GlobalTypes = (({"SYS_FEE_INCOME"} \cup {"SYS_ADJUST_EXPENSE"}) \cup {"SYS_ADJUST_INCOME"})
                      \cup {"SYS_CAPITAL"}
    BY DEF GlobalTypes
  <2> QED
    BY <2>3, <2>4, <2>5, <2>6
<1>2. IsFiniteSet(owned)
  <2> DEFINE f == [x \in Users \X Buckets |-> UserKey(x[1], a, x[2])]
  <2>1. IsFiniteSet(Users \X Buckets)
    BY <1>1, FS_Product
  <2>2. f \in [Users \X Buckets -> owned]
    OBVIOUS
  <2>3. \A k \in owned : \E x \in Users \X Buckets : f[x] = k
    <3> SUFFICES ASSUME NEW u \in Users, NEW b \in Buckets
                 PROVE  \E x \in Users \X Buckets : f[x] = UserKey(u, a, b)
      OBVIOUS
    <3>1. <<u, b>> \in Users \X Buckets /\ f[<<u, b>>] = UserKey(u, a, b)
      OBVIOUS
    <3> QED
      BY <3>1
  <2> HIDE DEF owned, f
  <2>4. f \in Surjection(Users \X Buckets, owned)
    BY <2>2, <2>3 DEF Surjection
  <2> QED
    BY <2>1, <2>4, FS_Surjection
<1>3. IsFiniteSet(hot)
  <2> DEFINE f == [c \in Chains |-> SystemKey(HotAccount(c), a)]
  <2>1. f \in Surjection(Chains, hot)
    BY DEF Surjection
  <2> HIDE DEF f, hot
  <2> QED
    BY <2>1, FS_Surjection
<1>4. IsFiniteSet(global)
  <2> DEFINE f == [t \in GlobalTypes |-> SystemKey(SysAccount(t), a)]
  <2>1. f \in Surjection(GlobalTypes, global)
    BY DEF Surjection
  <2> HIDE DEF f, global
  <2> QED
    BY <1>1, <2>1, FS_Surjection
<1>5. IsFiniteSet(owned \cup (hot \cup global))
  <2> HIDE DEF owned, hot, global
  <2> QED
    BY <1>2, <1>3, <1>4, FS_Union
<1>6. OfAsset(BalanceKey, a) \subseteq owned \cup (hot \cup global)
  BY DEF OfAsset, BalanceKey, UserKey, SystemKey, SystemAccounts
<1> HIDE DEF owned, hot, global
<1> QED
  BY <1>5, <1>6, FS_Subset

\* A balanced request leaves the total of every asset where it was.
LEMMA BalancedKeepsTotal ==
  ASSUME NEW a, IsFiniteSet(OfAsset(BalanceKey, a)),
         NEW book \in [BalanceKey -> Int], NEW net, net \in [DOMAIN net -> Int],
         DOMAIN net \subseteq BalanceKey, Balanced(net)
  PROVE  LET after == [k \in BalanceKey |-> IF k \in DOMAIN net THEN book[k] + net[k] ELSE book[k]]
         IN  SumFunctionOnSet(after, OfAsset(BalanceKey, a))
               = SumFunctionOnSet(book, OfAsset(BalanceKey, a))
<1> DEFINE after == [k \in BalanceKey |-> IF k \in DOMAIN net THEN book[k] + net[k] ELSE book[k]]
           moves == [k \in BalanceKey |-> IF k \in DOMAIN net THEN net[k] ELSE 0]
           rows  == OfAsset(BalanceKey, a)
           moved == OfAsset(DOMAIN net, a)
<1>1. /\ rows \subseteq BalanceKey /\ moved \subseteq DOMAIN net /\ moved \subseteq rows
      /\ \A k \in rows \ moved : k \notin DOMAIN net
  BY DEF OfAsset
<1>2. IsFiniteSet(rows) /\ IsFiniteSet(moved)
  BY <1>1, FS_Subset
<1>3. /\ \A k \in rows : book[k] \in Int /\ moves[k] \in Int /\ after[k] = book[k] + moves[k]
      /\ \A k \in rows \ moved : moves[k] = 0
      /\ \A k \in moved : moves[k] = net[k] /\ moves[k] \in Int
  BY <1>1
<1>4. SumFunctionOnSet(net, moved) = 0
  <2>1. CASE moved = {}
    BY <2>1, SumEmpty
  <2>2. CASE moved # {}
    <3>1. PICK k \in moved : k \in DOMAIN net /\ k[2] = a
      BY <2>2 DEF OfAsset
    <3> QED
      BY <3>1 DEF Balanced
  <2> QED
    BY <2>1, <2>2
<1> HIDE DEF after, moves, rows, moved
<1>5. SumFunctionOnSet(moves, rows) = SumFunctionOnSet(moves, moved)
  BY <1>1, <1>2, <1>3, SumOfPart
<1>6. SumFunctionOnSet(moves, moved) = SumFunctionOnSet(net, moved)
  BY <1>2, <1>3, SumCongruence
<1>7. SumFunctionOnSet(after, rows) = SumFunctionOnSet(book, rows) + SumFunctionOnSet(moves, rows)
  BY <1>2, <1>3, SumAdded
<1>8. SumFunctionOnSet(book, rows) \in Int
  BY <1>2, <1>3, SumType
<1>9. SumFunctionOnSet(after, rows) = SumFunctionOnSet(book, rows)
  BY <1>4, <1>5, <1>6, <1>7, <1>8
<1> QED
  BY <1>9 DEF after, rows

Debits == [k \in BalanceKey |-> NetDebit(k)]

LEMMA DebitsType ==
  ASSUME TypeOK
  PROVE  Debits \in [BalanceKey -> Int]
BY DEF TypeOK, Debits, NetDebit

LEMMA StepKeepsTotal ==
  ASSUME ~FlipsInUse, TypeOK, [Next]_ledgerVars, NEW a, IsFiniteSet(OfAsset(BalanceKey, a))
  PROVE  SumFunctionOnSet(Debits', OfAsset(BalanceKey, a))
           = SumFunctionOnSet(Debits, OfAsset(BalanceKey, a))
<1>1. CASE UNCHANGED Journal!vars
  BY <1>1 DEF Journal!vars, Debits
<1>2. ASSUME NEW key \in Keys, Journal!Book(key)
      PROVE  SumFunctionOnSet(Debits', OfAsset(BalanceKey, a))
               = SumFunctionOnSet(Debits, OfAsset(BalanceKey, a))
  <2> DEFINE net == posted'[key].net
  <2>1. /\ posted'[key] # None /\ DOMAIN net \subseteq BalanceKey /\ Journal!Balanced(net)
        /\ Debits' = [k \in BalanceKey |->
                        IF k \in DOMAIN net THEN Debits[k] + net[k] ELSE Debits[k]]
    BY <1>2 DEF Journal!Book, Debits
  <2>2. net \in [DOMAIN net -> Int]
    BY <2>1, NextType DEF TypeOK, IsRequest
  <2>3. Balanced(net)
    BY <2>1
       DEF Balanced, OfAsset, SumFunctionOnSet, FoldFunctionOnSet, MapThenFoldSet,
           Journal!Balanced, Journal!OfAsset, Journal!SumFunctionOnSet,
           Journal!FoldFunctionOnSet, Journal!MapThenFoldSet
  <2> HIDE DEF net
  <2> QED
    BY <2>1, <2>2, <2>3, DebitsType, BalancedKeepsTotal
<1> QED
  BY <1>1, <1>2, StepIsJournalStep DEF Journal!Next

\* The trial balance: for any number of users, chains and assets, and whatever
\* is booked, replayed, refused or adjusted, the debit balances of an asset
\* equal its credit balances, as long as no side is rewritten under booked money
\* (engine.PostTx checks each request, and moves all of its rows or none).
THEOREM BooksBalance ==
  ASSUME ~FlipsInUse, IsFiniteSet(Users), IsFiniteSet(Chains)
  PROVE  Spec => []TrialBalance
<1>1. Init => TrialBalance
  <2> SUFFICES ASSUME Init, NEW a \in Assets
               PROVE  SumFunctionOnSet(Debits, OfAsset(BalanceKey, a)) = 0
    BY DEF TrialBalance, Debits
  <2>1. \A k \in OfAsset(BalanceKey, a) : Debits[k] = 0
    BY NegatedZero DEF Init, Debits, NetDebit, OfAsset
  <2>2. SumFunctionOnSet(Debits, OfAsset(BalanceKey, a)) = SumFunctionOnSet(Debits, {})
    BY <2>1, RowsAreFinite, SumOfPart
  <2> QED
    BY <2>2, SumEmpty
<1>2. TypeOK /\ TrialBalance /\ [Next]_ledgerVars => TrialBalance'
  <2> SUFFICES ASSUME TypeOK, TrialBalance, [Next]_ledgerVars, NEW a \in Assets
               PROVE  SumFunctionOnSet(Debits', OfAsset(BalanceKey, a)) = 0
    BY DEF TrialBalance, Debits
  <2>1. SumFunctionOnSet(Debits, OfAsset(BalanceKey, a)) = 0
    BY DEF TrialBalance, Debits
  <2> QED
    BY <2>1, RowsAreFinite, StepKeepsTotal
<1> QED
  BY <1>1, <1>2, TypeCorrect, PTL DEF Spec

-------------------------------------------------------------------------------
(* The read model never claims a booking that did not happen.                *)

\* A booked request stays as it was booked, whatever is posted later.
LEMMA PostedGrows ==
  ASSUME TypeOK, [Next]_ledgerVars, NEW k \in Keys, posted[k] # None
  PROVE  posted'[k] = posted[k]
<1>1. CASE WithdrawStep \/ FundingStep \/ AdjustStep
  <2>a. PICK key \in Keys : \E r, types, writes : WellPosted(key, r, types, writes)
    BY <1>1, MoneyStepBooks DEF Booking
  <2>1. PICK r, types, writes : WellPosted(key, r, types, writes)
    BY <2>a
  <2>2. posted' = posted \/ (posted' = [posted EXCEPT ![key] = r] /\ posted[key] \in {r, None})
    BY <2>1 DEF WellPosted, Post, Booked, Succeeds
  <2> QED
    BY <2>2 DEF TypeOK
<1>2. CASE RecordStep \/ SetupStep
  BY <1>2 DEF RecordStep, WriteRecord, LoseRecordWrite, UpsertUserTransactionRecordMeta, SetupStep,
              UpdateAssetStatus, SetAccountTypeAssets, DeleteAccountType, UpdateAccountType, bookVars
<1> QED
  BY <1>1, <1>2 DEF Next, ledgerVars

\* The strengthening: a row that is still to be written is backed already, so
\* whichever of the late writes arrives, and in which order, leaves a true row.
InflightAreBacked == \A w \in inflight : w.change = "row" => Backed(w.id, w.value)

RecordsInv == TypeOK /\ RecordsAreBacked /\ InflightAreBacked

\* A link that leads to a booking goes on leading to it.
LEMMA BackedStays ==
  ASSUME TypeOK, [Next]_ledgerVars, NEW id, NEW row \in Rows, Backed(id, row)
  PROVE  Backed(id, row)'
<1>1. \A k \in Keys : posted[k] # None => posted'[k] = posted[k]
  BY PostedGrows
<1>2. row.freeze \in Keys \cup {None} /\ row.settle \in Keys \cup {None}
      /\ row.confirm \in Keys \cup {None}
  BY DEF Rows
<1> QED
  BY <1>1, <1>2 DEF Backed

\* The write a template leaves behind is backed once its request is booked.
LEMMA FollowsBacked ==
  ASSUME NEW key \in Keys, NEW r, r # None, NEW w, Follows(w, key, r),
         posted'[key] = r, w.change = "row"
  PROVE  Backed(w.id, w.value)'
BY DEF Follows, Upsert, Restate, Row, Backed

LEMMA BookingKeepsRecords ==
  ASSUME RecordsInv, [Next]_ledgerVars, Booking
  PROVE  RecordsAreBacked' /\ InflightAreBacked'
<1> TypeOK
  BY DEF RecordsInv
<1>a. PICK key \in Keys : \E r, types, writes : WellPosted(key, r, types, writes)
  BY DEF Booking
<1>1. PICK r, types, writes : WellPosted(key, r, types, writes)
  BY <1>a
<1>2. record' = record
  BY <1>1 DEF WellPosted, Post
<1>3. \A id \in Withdrawals \cup Keys : record[id] # None => record[id] \in Rows
  BY DEF TypeOK
<1>4. RecordsAreBacked'
  BY <1>2, <1>3, BackedStays DEF RecordsInv, RecordsAreBacked
<1>5. ASSUME NEW w \in inflight, w.change = "row"
      PROVE  Backed(w.id, w.value)'
  <2>1. w.value \in Rows
    BY <1>5 DEF TypeOK
  <2> QED
    BY <1>5, <2>1, BackedStays DEF RecordsInv, InflightAreBacked
<1>6. ASSUME NEW w \in inflight', w \notin inflight, w.change = "row"
      PROVE  Backed(w.id, w.value)'
  <2>1. w \in writes /\ posted' = [posted EXCEPT ![key] = r]
    BY <1>1, <1>6 DEF WellPosted, Post, Booked
  <2>2. posted'[key] = r /\ r # None /\ Follows(w, key, r)
    BY <1>1, <2>1, RequestIsNotNone DEF TypeOK, WellPosted
  <2> QED
    BY <1>6, <2>2, FollowsBacked
<1> QED
  BY <1>4, <1>5, <1>6 DEF InflightAreBacked

LEMMA RecordStepKeepsRecords ==
  ASSUME RecordsInv, RecordStep
  PROVE  RecordsAreBacked' /\ InflightAreBacked'
<1>1. UNCHANGED posted /\ inflight' \subseteq inflight
  BY DEF RecordStep, WriteRecord, LoseRecordWrite, UpsertUserTransactionRecordMeta, bookVars
<1>2. InflightAreBacked'
  BY <1>1 DEF RecordsInv, InflightAreBacked, Backed
<1>3. ASSUME NEW w \in WriteType, record' = Written(w),
             w.change = "row" => Backed(w.id, w.value)
      PROVE  RecordsAreBacked'
  <2>1. \A id \in Withdrawals \cup Keys : \A row : Backed(id, row) => Backed(id, row)'
    BY <1>1 DEF Backed
  <2> SUFFICES ASSUME NEW id \in Withdrawals \cup Keys, record'[id] # None
               PROVE  Backed(id, record'[id])
    BY <1>1 DEF RecordsAreBacked, Backed
  <2>2. record \in [Withdrawals \cup Keys -> Rows \cup {None}]
    BY DEF RecordsInv, TypeOK
  <2>3. CASE record'[id] = record[id]
    BY <2>3 DEF RecordsInv, RecordsAreBacked
  <2>4. CASE w.change = "row" /\ w.id = id /\ record'[id] = w.value
    BY <1>3, <2>4
  <2>5. CASE /\ record[id] # None
             /\ record'[id] = [record[id] EXCEPT !.status = w.value]
    <3>1. Backed(id, record[id]) /\ record[id] \in Rows
      BY <2>2, <2>5 DEF RecordsInv, RecordsAreBacked
    <3> QED
      BY <2>5, <3>1 DEF Backed, Rows
  <2> QED
    BY <1>3, <2>2, <2>3, <2>4, <2>5 DEF Written, WriteType
<1>4. ASSUME NEW w \in inflight, WriteRecord(w)
      PROVE  RecordsAreBacked'
  BY <1>3, <1>4 DEF RecordsInv, InflightAreBacked, TypeOK, WriteType, WriteRecord
<1>5. ASSUME NEW w \in inflight, LoseRecordWrite(w)
      PROVE  RecordsAreBacked'
  BY <1>5 DEF RecordsInv, RecordsAreBacked, Backed, LoseRecordWrite, bookVars
<1>6. ASSUME NEW id \in Withdrawals, NEW s \in FinalStatuses,
             UpsertUserTransactionRecordMeta(id, s)
      PROVE  RecordsAreBacked'
  BY <1>3, <1>6 DEF UpsertUserTransactionRecordMeta, Restate, WriteType
<1> QED
  BY <1>2, <1>4, <1>5, <1>6 DEF RecordStep

\* Records are written after their booking, out of order, or never; still no
\* record ever links to a freeze, a settlement or a deposit that was not booked
\* for it (the best-effort writes at the end of the withdrawal handlers).
THEOREM RecordsBacked == Spec => []RecordsAreBacked
<1>1. Init => RecordsInv
  BY InitType DEF Init, RecordsInv, RecordsAreBacked, InflightAreBacked
<1>2. RecordsInv /\ [Next]_ledgerVars => RecordsInv'
  <2> SUFFICES ASSUME RecordsInv, [Next]_ledgerVars PROVE RecordsInv'
    OBVIOUS
  <2>1. TypeOK'
    BY NextType DEF RecordsInv
  <2>2. CASE WithdrawStep \/ FundingStep \/ AdjustStep
    BY <2>1, <2>2, MoneyStepBooks, BookingKeepsRecords DEF RecordsInv
  <2>3. CASE RecordStep
    BY <2>1, <2>3, RecordStepKeepsRecords DEF RecordsInv
  <2>4. CASE SetupStep \/ UNCHANGED ledgerVars
    <3>1. UNCHANGED <<posted, record, inflight>>
      BY <2>4 DEF SetupStep, UpdateAssetStatus, SetAccountTypeAssets, DeleteAccountType,
                  UpdateAccountType, bookVars, setupVars, recordVars, ledgerVars
    <3> QED
      BY <2>1, <3>1 DEF RecordsInv, RecordsAreBacked, InflightAreBacked, Backed
  <2> QED
    BY <2>2, <2>3, <2>4 DEF Next
<1>3. RecordsInv => RecordsAreBacked
  BY DEF RecordsInv
<1> QED
  BY <1>1, <1>2, <1>3, PTL DEF Spec
===============================================================================
