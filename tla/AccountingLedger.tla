--------------------------- MODULE AccountingLedger ---------------------------
(***************************************************************************)
(* The accounting service: one double-entry ledger per asset, written only *)
(* through the posting templates of services/accounting/rpc/internal/logic *)
(* and the engine they share (engine.PostTx).                              *)
(*                                                                         *)
(* A handler of the service is one step here: it reads the asset, creates  *)
(* whatever is missing, and runs PostTx, whose database transaction        *)
(* is atomic.  The user-facing record it writes afterwards is best effort: *)
(* a later step of its own that may be overtaken by others or lost.        *)
(* Amounts are raw integers; parsing them is left out.                     *)
(***************************************************************************)
EXTENDS Integers, Functions

CONSTANTS
  Users,          \* user ids
  Chains,         \* chain codes
  Assets,         \* asset codes
  Keys,           \* idempotency keys; a key also names the ledger tx it booked
  Withdrawals,    \* biz refs that parse as the id of a withdrawal
  Amounts,        \* raw amounts of a request
  Fees,           \* raw fees of a settlement
  MaxRaw,         \* largest value of the column balance_raw (DECIMAL(65,0))
  FinalStatuses,  \* record statuses a caller may ask for
  EditableTypes,  \* account types whose asset list operators edit, or retire
  FlippableTypes, \* account types whose normal side operators rewrite
  FlipsInUse,     \* TRUE: they rewrite it though accounts of the type hold money
  PausableAssets, \* assets operators disable and enable
  None

ASSUME AmountAssumption ==
  /\ MaxRaw \in Nat
  /\ Amounts \subseteq Nat \ {0}
  /\ Fees \subseteq Nat

-------------------------------------------------------------------------------
(* The chart of accounts.  An account is <<type, owner or chain>>.         *)

GlobalTypes == {"SYS_FEE_INCOME", "SYS_ADJUST_EXPENSE", "SYS_ADJUST_INCOME", "SYS_CAPITAL"}
AccountTypes == GlobalTypes \cup {"USER_LIABILITY", "SYS_WALLET_HOT"}
Buckets == {"available", "locked"}
Sides == {"debit", "credit"}

UserAccount(u) == <<"USER_LIABILITY", u>>
HotAccount(c)  == <<"SYS_WALLET_HOT", c>>
SysAccount(t)  == <<t, None>>

SystemAccounts == {HotAccount(c) : c \in Chains} \cup {SysAccount(t) : t \in GlobalTypes}

\* Rows of acct_balances: system accounts use the available bucket only.
UserKey(u, a, b) == <<UserAccount(u), a, b>>
SystemKey(s, a)  == <<s, a, "available">>
BalanceKey == {UserKey(u, a, b) : u \in Users, a \in Assets, b \in Buckets}
         \cup {SystemKey(s, a) : s \in SystemAccounts, a \in Assets}

TypeOf(k) == k[1][1]

OpTypes == {"FreezeWithdraw", "SettleWithdraw", "UnfreezeWithdraw", "ConfirmDeposit", "Transfer",
            "FundSystemWallet", "FreezeUserAssets", "UnfreezeUserAssets", "AdminAdjust"}
BizRefs == Withdrawals \cup {None}

ASSUME NoneAssumption ==
  None \notin [op : OpTypes, biz : BizRefs, net : UNION {[S -> Int] : S \in SUBSET BalanceKey}]

ASSUME SetupAssumption ==
  /\ PausableAssets \subseteq Assets
  /\ EditableTypes \cup FlippableTypes \subseteq AccountTypes

\* The account type rows the service is installed with.
InitialSide(t) == IF t \in {"SYS_WALLET_HOT", "SYS_ADJUST_EXPENSE"} THEN "debit" ELSE "credit"

VARIABLES
  posted,     \* idempotency key -> the request booked under it, or None
  balance,    \* balance key -> balance_raw (a missing row reads 0)
  enabled,    \* the assets with status 1
  support,    \* <<account type, asset>> rows of acct_account_type_assets
  retired,    \* soft-deleted account types
  normalSide, \* account type -> side
  record,     \* record id -> user transaction record, or None
  inflight    \* record writes of handlers that have booked and not yet written

ledgerVars == <<posted, balance, enabled, support, retired, normalSide, record, inflight>>
bookVars   == <<posted, balance, support>>
setupVars  == <<enabled, retired, normalSide>>
recordVars == <<record, inflight>>

-------------------------------------------------------------------------------
(* engine.PostTx.                                                          *)

\* Debit one balance key and credit another: net > 0 is a debit.
Move(debited, credited, amt) ==
  [k \in {debited, credited} |-> IF k = debited THEN amt ELSE -amt]

Request(op, biz, net) == [op |-> op, biz |-> biz, net |-> net]

OfAsset(S, a) == {k \in S : k[2] = a}

\* Debits equal credits for every asset of the request.
Balanced(net) ==
  \A k \in DOMAIN net : SumFunctionOnSet(net, OfAsset(DOMAIN net, k[2])) = 0

\* What a net debit does to a balance, by the normal side of its account.
Delta(net, k) == IF normalSide[TypeOf(k)] = "debit" THEN net[k] ELSE -net[k]

\* Every account's type is live and supports the asset.
Admissible(net, sup) ==
  \A k \in DOMAIN net : TypeOf(k) \notin retired /\ <<TypeOf(k), k[2]>> \in sup

\* Mutant: the conditional update lost its `balance_raw + ? >= 0`.
Fits_NoUnderflowCheck(net) == \A k \in DOMAIN net : balance[k] + Delta(net, k) <= MaxRaw

\* No balance row underflows, none outgrows its column.
Fits(net) == \A k \in DOMAIN net : balance[k] + Delta(net, k) \in 0 .. MaxRaw

\* The request is answered with success: booked now, or a replay of itself.
Succeeds(key, req, sup) ==
  /\ Balanced(req.net)
  /\ Admissible(req.net, sup)
  /\ posted[key] = req \/ (posted[key] = None /\ Fits(req.net))

\* Mutant: rows that would shrink to zero are taken for missing and skipped.
Apply_SkipsEmptiedRows(net) ==
  [k \in BalanceKey |->
     IF k \in DOMAIN net /\ balance[k] + Delta(net, k) # 0
       THEN balance[k] + Delta(net, k) ELSE balance[k]]

Apply(net) ==
  [k \in BalanceKey |-> IF k \in DOMAIN net THEN balance[k] + Delta(net, k) ELSE balance[k]]

\* Mutant: a duplicate header is not told from a new one.
Booked_ReplayMoves(key, req) ==
  /\ posted' = [posted EXCEPT ![key] = req]
  /\ balance' = IF Fits(req.net) THEN Apply(req.net) ELSE balance

\* Write the header under its unique key and move the balances; a header
\* that is already there, with the same request hash, changes nothing.
Booked(key, req) ==
  /\ posted' = [posted EXCEPT ![key] = req]
  /\ balance' = IF posted[key] = None THEN Apply(req.net) ELSE balance

\* EnsureUserAccountingSetup / EnsureSystemAccounts: the account types
\* support (again) every enabled asset, in a transaction before the posting.
EnsureSupport(types) == support \cup (types \X enabled)

\* What a caller is told: the handlers check the asset first, then post.
Accepts(key, req, types) ==
  /\ \A k \in DOMAIN req.net : k[2] \in enabled
  /\ Succeeds(key, req, EnsureSupport(types))

\* Mutant: the record is written whatever the posting answered.
Post_WritesAnyway(key, req, types, writes) ==
  /\ support' = EnsureSupport(types)
  /\ IF Succeeds(key, req, support') THEN Booked(key, req) ELSE UNCHANGED <<posted, balance>>
  /\ inflight' = inflight \cup writes
  /\ UNCHANGED <<setupVars, record>>

\* One template: ensure, post, then hand over the record write.
Post(key, req, types, writes) ==
  /\ support' = EnsureSupport(types)
  /\ IF Succeeds(key, req, support')
       THEN Booked(key, req) /\ inflight' = inflight \cup writes
       ELSE UNCHANGED <<posted, balance, inflight>>
  /\ UNCHANGED <<setupVars, record>>

UserTypes   == {"USER_LIABILITY"}
SystemTypes == GlobalTypes \cup {"SYS_WALLET_HOT"}

-------------------------------------------------------------------------------
(* The posting templates.                                                  *)

Row(status, freeze, settle, confirm) ==
  [status |-> status, freeze |-> freeze, settle |-> settle, confirm |-> confirm]
Upsert(id, row)    == [id |-> id, change |-> "row", value |-> row]
Restate(id, state) == [id |-> id, change |-> "status", value |-> state]

\* Only a biz ref that is a withdrawal id has a record.
IfWithdrawal(w, write) == IF w \in Withdrawals THEN {write} ELSE {}

FreezeRequest(w, u, a, amt) ==
  Request("FreezeWithdraw", w, Move(UserKey(u, a, "available"), UserKey(u, a, "locked"), amt))

\* The fee posting is left out when the fee is zero.
SettleRequest(w, u, a, c, amt, fee) ==
  LET locked == UserKey(u, a, "locked")
      hot    == SystemKey(HotAccount(c), a)
      income == SystemKey(SysAccount("SYS_FEE_INCOME"), a)
  IN Request("SettleWithdraw", w,
       IF fee = 0 THEN Move(locked, hot, amt)
       ELSE [k \in {locked, hot, income} |->
               IF k = locked THEN amt + fee ELSE IF k = hot THEN -amt ELSE -fee])

UnfreezeRequest(w, u, a, amt) ==
  Request("UnfreezeWithdraw", w, Move(UserKey(u, a, "locked"), UserKey(u, a, "available"), amt))

FreezeWithdraw(key, w, u, a, amt) ==
  /\ a \in enabled
  /\ Post(key, FreezeRequest(w, u, a, amt), UserTypes,
          IfWithdrawal(w, Upsert(w, Row("pending", key, None, None))))

SettleWithdraw(key, w, u, a, c, amt, fee) ==
  /\ a \in enabled
  /\ Post(key, SettleRequest(w, u, a, c, amt, fee), UserTypes \cup SystemTypes,
          IfWithdrawal(w, Upsert(w, Row("success", None, key, None))))

UnfreezeWithdraw(key, w, u, a, amt, final) ==
  /\ a \in enabled
  /\ Post(key, UnfreezeRequest(w, u, a, amt), UserTypes, IfWithdrawal(w, Restate(w, final)))

DepositRequest(u, a, c, amt) ==
  Request("ConfirmDeposit", None,
          Move(SystemKey(HotAccount(c), a), UserKey(u, a, "available"), amt))

\* The record of a deposit is keyed by the ledger tx it was booked under.
ConfirmDeposit(key, u, a, c, amt) ==
  /\ a \in enabled
  /\ Post(key, DepositRequest(u, a, c, amt), UserTypes \cup SystemTypes,
          {Upsert(key, Row("completed", None, None, key))})

Transfer(key, from, to, a, amt) ==
  /\ from # to
  /\ a \in enabled
  /\ Post(key,
          Request("Transfer", None,
                  Move(UserKey(from[1], a, from[2]), UserKey(to[1], a, to[2]), amt)),
          UserTypes, {})

FundSystemWallet(key, a, c, amt) ==
  /\ a \in enabled
  /\ Post(key,
          Request("FundSystemWallet", None,
                  Move(SystemKey(HotAccount(c), a), SystemKey(SysAccount("SYS_CAPITAL"), a), amt)),
          SystemTypes, {})

\* FreezeUserAssets (up) and UnfreezeUserAssets (down).
FreezeUserAssets(key, u, a, amt) ==
  /\ a \in enabled
  /\ Post(key,
          Request("FreezeUserAssets", None,
                  Move(UserKey(u, a, "available"), UserKey(u, a, "locked"), amt)),
          UserTypes, {})

UnfreezeUserAssets(key, u, a, amt) ==
  /\ a \in enabled
  /\ Post(key,
          Request("UnfreezeUserAssets", None,
                  Move(UserKey(u, a, "locked"), UserKey(u, a, "available"), amt)),
          UserTypes, {})

\* What raises a debit-normal balance or lowers a credit-normal one debits the
\* target against adjustment income; the other two credit it against expense.
AdjustNet(target, direction, amt) ==
  LET contra(t) == SystemKey(SysAccount(t), target[2])
      debitSide == normalSide[TypeOf(target)] = "debit"
  IN IF (direction = "increase") = debitSide
       THEN Move(target, contra("SYS_ADJUST_INCOME"), amt)
       ELSE Move(contra("SYS_ADJUST_EXPENSE"), target, amt)

\* No asset status check here; a raise of a user's available balance shows up
\* as a deposit in the user's records.
AdminAdjust(key, target, direction, amt) ==
  /\ TypeOf(target) \notin {"SYS_ADJUST_EXPENSE", "SYS_ADJUST_INCOME"}
  /\ Post(key,
          Request("AdminAdjust", None, AdjustNet(target, direction, amt)),
          GlobalTypes \cup {TypeOf(target)},
          IF direction = "increase" /\ TypeOf(target) = "USER_LIABILITY" /\ target[3] = "available"
            THEN {Upsert(key, Row("completed", None, None, key))} ELSE {})

-------------------------------------------------------------------------------
(* The read model.                                                         *)

\* Upsert replaces the whole row; a status change needs the row to exist.
Written(w) ==
  IF w.change = "row" THEN [record EXCEPT ![w.id] = w.value]
  ELSE IF record[w.id] = None THEN record
  ELSE [record EXCEPT ![w.id].status = w.value]

\* The tail of a handler, after its booking; other handlers ran in between.
WriteRecord(w) ==
  /\ w \in inflight
  /\ record' = Written(w)
  /\ inflight' = inflight \ {w}
  /\ UNCHANGED <<bookVars, setupVars>>

\* The write failed or the process died: the booking stands without it.
LoseRecordWrite(w) ==
  /\ w \in inflight
  /\ inflight' = inflight \ {w}
  /\ UNCHANGED <<bookVars, setupVars, record>>

UpsertUserTransactionRecordMeta(id, state) ==
  /\ record' = Written(Restate(id, state))
  /\ UNCHANGED <<bookVars, setupVars, inflight>>

-------------------------------------------------------------------------------
(* Set-up operations of the administrators.                                *)

UpdateAssetStatus(a) ==
  /\ enabled' = IF a \in enabled THEN enabled \ {a} ELSE enabled \cup {a}
  /\ UNCHANGED <<bookVars, retired, normalSide, recordVars>>

\* Replaces the asset list of a live type.
SetAccountTypeAssets(t, assets) ==
  /\ t \notin retired
  /\ support' = {s \in support : s[1] # t} \cup ({t} \X assets)
  /\ UNCHANGED <<posted, balance, setupVars, recordVars>>

DeleteAccountType(t) ==
  /\ t \notin retired
  /\ retired' = retired \cup {t}
  /\ UNCHANGED <<bookVars, enabled, normalSide, recordVars>>

\* Nothing checks that the accounts of the type are empty.
UpdateAccountType(t, side) ==
  /\ t \notin retired
  /\ normalSide' = [normalSide EXCEPT ![t] = side]
  /\ UNCHANGED <<bookVars, enabled, retired, recordVars>>

-------------------------------------------------------------------------------
Init ==
  /\ posted = [k \in Keys |-> None]
  /\ balance = [k \in BalanceKey |-> 0]
  /\ enabled = Assets
  /\ support = {}
  /\ retired = {}
  /\ normalSide = [t \in AccountTypes |-> InitialSide(t)]
  /\ record = [id \in Withdrawals \cup Keys |-> None]
  /\ inflight = {}

WithdrawStep ==
  \E key \in Keys, w \in BizRefs, u \in Users, a \in Assets, amt \in Amounts :
    \/ FreezeWithdraw(key, w, u, a, amt)
    \/ \E c \in Chains, fee \in Fees : SettleWithdraw(key, w, u, a, c, amt, fee)
    \/ \E final \in FinalStatuses : UnfreezeWithdraw(key, w, u, a, amt, final)

FundingStep ==
  \E key \in Keys, a \in Assets, amt \in Amounts :
    \/ \E u \in Users, c \in Chains : ConfirmDeposit(key, u, a, c, amt)
    \/ \E c \in Chains : FundSystemWallet(key, a, c, amt)
    \/ \E from, to \in Users \X Buckets : Transfer(key, from, to, a, amt)
    \/ \E u \in Users : FreezeUserAssets(key, u, a, amt)
    \/ \E u \in Users : UnfreezeUserAssets(key, u, a, amt)

AdjustStep ==
  \E key \in Keys, target \in BalanceKey, amt \in Amounts, d \in {"increase", "decrease"} :
    AdminAdjust(key, target, d, amt)

RecordStep ==
  \/ \E w \in inflight : WriteRecord(w) \/ LoseRecordWrite(w)
  \/ \E id \in Withdrawals, s \in FinalStatuses : UpsertUserTransactionRecordMeta(id, s)

\* Some account of the type holds money.
InUse(t) == \E k \in BalanceKey : TypeOf(k) = t /\ balance[k] # 0

SetupStep ==
  \/ \E a \in PausableAssets : UpdateAssetStatus(a)
  \/ \E t \in EditableTypes :
        DeleteAccountType(t) \/ \E assets \in SUBSET Assets : SetAccountTypeAssets(t, assets)
  \/ \E t \in FlippableTypes, side \in Sides :
        (FlipsInUse \/ ~InUse(t)) /\ UpdateAccountType(t, side)

Next == WithdrawStep \/ FundingStep \/ AdjustStep \/ RecordStep \/ SetupStep

Spec == Init /\ [][Next]_ledgerVars

-------------------------------------------------------------------------------
(* Properties.                                                             *)

Statuses == {"pending", "success", "completed"} \cup FinalStatuses

Rows == [status : Statuses, freeze : Keys \cup {None},
         settle : Keys \cup {None}, confirm : Keys \cup {None}]

IsRequest(r) ==
  /\ r = Request(r.op, r.biz, r.net)
  /\ r.op \in OpTypes /\ r.biz \in BizRefs
  /\ DOMAIN r.net \subseteq BalanceKey
  /\ r.net \in [DOMAIN r.net -> Int]

\* Every variable holds a value of its type.  In particular no balance row is
\* ever negative or outgrows its column, whatever is booked in which order
\* (the `balance_raw + ? >= 0` guard of applyBalanceDelta).
TypeOK ==
  /\ posted = [k \in Keys |-> posted[k]]
  /\ \A k \in Keys : posted[k] = None \/ IsRequest(posted[k])
  /\ balance \in [BalanceKey -> 0 .. MaxRaw]
  /\ enabled \subseteq Assets
  /\ support \subseteq AccountTypes \X Assets
  /\ retired \subseteq AccountTypes
  /\ normalSide \in [AccountTypes -> Sides]
  /\ record \in [Withdrawals \cup Keys -> Rows \cup {None}]
  /\ inflight \subseteq [id : Withdrawals \cup Keys, change : {"row"}, value : Rows]
               \cup [id : Withdrawals, change : {"status"}, value : FinalStatuses]

\* The balance of a row in net debits, whatever its normal side.
NetDebit(k) == IF normalSide[TypeOf(k)] = "debit" THEN balance[k] ELSE -balance[k]

\* Double entry: over the whole chart of accounts the debit balances of an
\* asset equal its credit balances, after every booking, replay and refusal.
TrialBalance ==
  \A a \in Assets :
    SumFunctionOnSet([k \in BalanceKey |-> NetDebit(k)], OfAsset(BalanceKey, a)) = 0

\* The links of a record lead to transactions that were booked for it.
Backed(id, row) ==
  LET Backs(link, op) == link # None =>
        posted[link] # None /\ posted[link].op = op /\ posted[link].biz = id
  IN /\ Backs(row.freeze, "FreezeWithdraw")
     /\ Backs(row.settle, "SettleWithdraw")
     /\ row.confirm # None =>
          row.confirm = id /\ posted[id] # None /\ posted[id].op \in {"ConfirmDeposit", "AdminAdjust"}

\* A user transaction record never claims a ledger transaction that was not
\* booked: the links of a withdrawal's record lead to a freeze and a settlement
\* of that very withdrawal, the link of a deposit to the transaction the record
\* is keyed by, though records are written late, out of order or not at all.
RecordsAreBacked ==
  \A id \in Withdrawals \cup Keys : record[id] # None => Backed(id, record[id])

\* The ledger implements the journal: read in net debits, every step books one
\* balanced request under a fresh key and moves the book by exactly it, or
\* leaves both alone.  A replayed or refused request is a stutter.
Journal == INSTANCE PostingJournal WITH
  journal <- posted, book <- [k \in BalanceKey |-> NetDebit(k)]
JournalSpec == Journal!Spec
===============================================================================
