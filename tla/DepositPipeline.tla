---------------------------- MODULE DepositPipeline ----------------------------
(***************************************************************************)
(* From the chain to a user's balance: ChainSync publishes confirmed       *)
(* transfers to Kafka, the replicas of the business service consume them   *)
(* (kafka_consumer.go), and TransactionConfirmProcessor books each one in  *)
(* the accounting ledger (AccountingLedger, instantiated as L) and in the  *)
(* tables of the business service.                                         *)
(*                                                                         *)
(* The messages of one address share a Kafka key and so a partition, which *)
(* one replica at a time consumes in order.  A replica that loses a        *)
(* partition finishes the message in its hand beside the new owner.        *)
(***************************************************************************)
EXTENDS ChainSync, TLC, Functions

CONSTANTS
  Consumers, \* replicas of the business service
  OwnerOf,   \* address -> user, or Company for the hot wallet's address
  AmountOf,  \* transfer -> raw amount
  Ignored,   \* transfers between addresses of the service itself, and those of
             \* an asset the service does not know
  Asset, Chain, Company

ASSUME DepositAssumption ==
  /\ Consumers # {}
  /\ OwnerOf \in [Addresses -> Range(OwnerOf)]
  /\ AmountOf \in [Transfers -> Nat \ {0}]
  /\ Ignored \subseteq Transfers
  /\ None \notin {"skipped", "ignored", "refused", "error"}

VARIABLES
  posted, balance, enabled, support, retired, normalSide, record, inflight, \* the ledger
  owner,     \* address -> the replica its partition is assigned to
  next,      \* address -> messages the owner's session has marked
  committed, \* address -> committed offset, or None
  proc,      \* replica -> address -> the message being processed
  deposit,   \* transaction -> the transfer its row of wallet_deposits shows
  addressBalance, \* address -> row of wallet_deposit_address_balances
  change,    \* transaction -> the transfer of its balance change row
  dropped    \* transfer -> why a replica gave up on it, or None (history)

ledgerVars == <<posted, balance, enabled, support, retired, normalSide, record, inflight>>
tableVars == <<deposit, addressBalance, change>>
offsetVars == <<owner, next, committed>>
consumerVars == <<ledgerVars, offsetVars, proc, tableVars, dropped>>
vars == <<syncVars, consumerVars>>

\* Everything of ChainSync but the fault budget.
quiet == <<chainVars, known, cursor, scan, row, confirm, queue, log, lost>>

Users == Range(OwnerOf) \ {Company}
Deposits == {t \in Transfers : OwnerOf[AddressOf[t]] # Company}
LedgerKeys == ({"deposit"} \X Txs) \cup ({"fund"} \X Transfers)

L == INSTANCE AccountingLedger WITH
  Chains <- {Chain}, Assets <- {Asset}, Keys <- LedgerKeys, Withdrawals <- {},
  Amounts <- Range(AmountOf), Fees <- {}, MaxRaw <- SumFunction(AmountOf),
  FinalStatuses <- {}, EditableTypes <- {}, FlippableTypes <- {}, FlipsInUse <- FALSE,
  PausableAssets <- {}

\* Mutant: a key per transfer, as if a transaction paid an address only once.
KeyOf_PerTransfer(t) == <<"fund", t>>

\* depositConfirmIdemKeyAndBizRef hashes the transaction hash alone,
\* systemWalletFundIdempotencyKey the event as well.
KeyOf(t) == IF t \in Deposits THEN <<"deposit", TxOf[t]>> ELSE <<"fund", t>>

Request(t) == L!DepositRequest(OwnerOf[AddressOf[t]], Asset, Chain, AmountOf[t])

ASSUME RequestAssumption ==
  None \notin [op : L!OpTypes, biz : L!BizRefs, net : UNION {[S -> Int] : S \in SUBSET L!BalanceKey}]

Book(t) ==
  IF t \in Deposits
    THEN L!ConfirmDeposit(KeyOf(t), OwnerOf[AddressOf[t]], Asset, Chain, AmountOf[t])
    ELSE L!FundSystemWallet(KeyOf(t), Asset, Chain, AmountOf[t])

-------------------------------------------------------------------------------
(* Kafka: sessions and offsets.                                            *)

Idle == [pc |-> "idle", t |-> None, prev |-> 0]

\* Offsets.Initial is OffsetNewest: a partition nobody has committed an offset
\* of is consumed from its end, past the messages that are already there.
StartOf(a) == IF committed[a] = None THEN Len(log[a]) ELSE committed[a]

Skipped(a) ==
  IF committed[a] = None THEN {log[a][i] : i \in next[a] + 1 .. Len(log[a])} ELSE {}

\* A new session of partition a: its owner died, or the group was rebalanced.
\* A replica starts it once its own handler of the partition has returned.
Reassign(a, c) ==
  /\ \/ /\ Fault("rebalance")
        /\ proc[c][a] = Idle
        /\ UNCHANGED proc
     \/ /\ Fault("consumer_crash")
        /\ c = owner[a] \/ proc[c][a] = Idle
        /\ proc' = [proc EXCEPT ![owner[a]][a] = Idle]
  /\ owner' = [owner EXCEPT ![a] = c]
  /\ next' = [next EXCEPT ![a] = StartOf(a)]
  /\ dropped' = [t \in Transfers |->
       IF t \in Skipped(a) /\ dropped[t] = None THEN "skipped" ELSE dropped[t]]
  /\ UNCHANGED <<quiet, ledgerVars, committed, tableVars>>

\* The offsets of marked messages are committed every second.
Commit(a) ==
  /\ next[a] > 0 /\ committed[a] # next[a]
  /\ committed' = [committed EXCEPT ![a] = next[a]]
  /\ UNCHANGED <<syncVars, ledgerVars, owner, next, proc, tableVars, dropped>>

Steps(c, a, pc) == proc' = [proc EXCEPT ![c][a].pc = pc]

\* Mutant: a message is marked when it is handed over.
Fetch_MarksFirst(c, a) ==
  /\ owner[a] = c /\ proc[c][a] = Idle /\ next[a] < Len(log[a])
  /\ proc' = [proc EXCEPT ![c][a] = [Idle EXCEPT !.pc = "credit", !.t = log[a][next[a] + 1]]]
  /\ next' = [next EXCEPT ![a] = @ + 1]
  /\ UNCHANGED <<syncVars, ledgerVars, owner, committed, tableVars, dropped>>

\* ConsumeClaim hands the next message to the processor.
Fetch(c, a) ==
  /\ owner[a] = c /\ proc[c][a] = Idle /\ next[a] < Len(log[a])
  /\ proc' = [proc EXCEPT ![c][a] = [Idle EXCEPT !.pc = "credit", !.t = log[a][next[a] + 1]]]
  /\ UNCHANGED <<syncVars, ledgerVars, offsetVars, tableVars, dropped>>

\* Mutant: a mark counts in whatever session follows.
Finish_AnySession(c, a) ==
  /\ proc[c][a].pc = "mark"
  /\ proc' = [proc EXCEPT ![c][a] = Idle]
  /\ next' = [next EXCEPT ![a] = @ + 1]
  /\ UNCHANGED <<syncVars, ledgerVars, owner, committed, tableVars, dropped>>

\* MarkMessage, which counts only in the session that delivered the message.
Finish(c, a) ==
  /\ proc[c][a].pc = "mark"
  /\ proc' = [proc EXCEPT ![c][a] = Idle]
  /\ next' = IF owner[a] = c THEN [next EXCEPT ![a] = @ + 1] ELSE next
  /\ UNCHANGED <<syncVars, ledgerVars, owner, committed, tableVars, dropped>>

-------------------------------------------------------------------------------
(* The processor.  An error of it is logged and the message is marked.     *)

GivesUp(c, a, why) ==
  /\ Steps(c, a, "mark")
  /\ dropped' = [dropped EXCEPT ![proc[c][a].t] = why]

\* Mutant: the counterparty of a transfer is not looked at.
Credit_BooksInternal(c, a) ==
  LET t == proc[c][a].t
  IN /\ proc[c][a].pc = "credit"
     /\ Book(t)
     /\ IF posted'[KeyOf(t)] = Request(t) THEN Steps(c, a, "record") /\ UNCHANGED dropped
        ELSE GivesUp(c, a, "refused")
     /\ UNCHANGED <<syncVars, offsetVars, tableVars>>

\* Mutant: a deposit the ledger refused is recorded all the same.
Credit_RecordsRefused(c, a) ==
  LET t == proc[c][a].t
  IN /\ proc[c][a].pc = "credit"
     /\ Book(t)
     /\ Steps(c, a, IF t \in Deposits THEN "record" ELSE "mark")
     /\ UNCHANGED <<syncVars, offsetVars, tableVars, dropped>>

\* GetAsset and ConfirmDeposit, or FundSystemWallet, unless the processor returns
\* before them without an error.
Credit(c, a) ==
  LET t == proc[c][a].t
      ok == t \in Deposits =>
              L!Accepts(KeyOf(t), Request(t), L!UserTypes \cup L!SystemTypes)
  IN /\ proc[c][a].pc = "credit"
     /\ \/ /\ t \in Ignored
           /\ GivesUp(c, a, "ignored")
           /\ UNCHANGED <<ledgerVars, faults>>
        \/ /\ t \notin Ignored
           /\ Book(t)
           /\ IF ~ok THEN GivesUp(c, a, "refused")
              ELSE Steps(c, a, IF t \in Deposits THEN "record" ELSE "mark") /\ UNCHANGED dropped
           /\ UNCHANGED faults
        \/ t \notin Ignored /\ Fault("lost_answer") /\ Book(t) /\ GivesUp(c, a, "error")
        \/ Fault("rpc_down") /\ UNCHANGED ledgerVars /\ GivesUp(c, a, "error")
     /\ UNCHANGED <<quiet, offsetVars, tableVars>>

\* upsertWalletDepositRecord, by transaction hash.
Record(c, a) ==
  LET t == proc[c][a].t
  IN /\ proc[c][a].pc = "record"
     /\ \/ /\ deposit' = [deposit EXCEPT ![TxOf[t]] = t]
           /\ Steps(c, a, "seen")
           /\ UNCHANGED faults
        \/ Fault("db_error") /\ Steps(c, a, "mark") /\ UNCHANGED deposit
     /\ UNCHANGED <<quiet, ledgerVars, offsetVars, addressBalance, change, dropped>>

\* updateDepositAddressBalanceViaRPC: FindByTxHash, whose error reads as no row.
LookUpChange(c, a) ==
  /\ proc[c][a].pc = "seen"
  /\ \/ /\ Steps(c, a, IF change[TxOf[proc[c][a].t]] # None THEN "mark" ELSE "read")
        /\ UNCHANGED faults
     \/ Fault("db_error") /\ Steps(c, a, "read")
  /\ UNCHANGED <<quiet, ledgerVars, offsetVars, tableVars, dropped>>

\* The transaction reads the balance without locking it; an error reads as 0.
ReadBalance(c, a) ==
  /\ proc[c][a].pc = "read"
  /\ \E prev \in {addressBalance[a], 0} :
       /\ IF prev = addressBalance[a] THEN UNCHANGED faults ELSE Fault("db_error")
       /\ proc' = [proc EXCEPT ![c][a].pc = "add", ![c][a].prev = prev]
  /\ UNCHANGED <<quiet, ledgerVars, offsetVars, tableVars, dropped>>

\* Mutant: the unique index on the transaction hash is gone.
AddBalance_NoUniqueIndex(c, a) ==
  LET t == proc[c][a].t
  IN /\ proc[c][a].pc = "add"
     /\ addressBalance' = [addressBalance EXCEPT ![a] = proc[c][a].prev + AmountOf[t]]
     /\ change' = [change EXCEPT ![TxOf[t]] = t]
     /\ Steps(c, a, "mark")
     /\ UNCHANGED <<syncVars, ledgerVars, offsetVars, deposit, dropped>>

\* It writes the sum and the change row, whose unique transaction hash undoes
\* both for a transaction that has been counted.
AddBalance(c, a) ==
  LET t == proc[c][a].t
  IN /\ proc[c][a].pc = "add"
     /\ IF change[TxOf[t]] = None
          THEN /\ addressBalance' = [addressBalance EXCEPT ![a] = proc[c][a].prev + AmountOf[t]]
               /\ change' = [change EXCEPT ![TxOf[t]] = t]
          ELSE UNCHANGED <<addressBalance, change>>
     /\ Steps(c, a, "mark")
     /\ UNCHANGED <<syncVars, ledgerVars, offsetVars, deposit, dropped>>

-------------------------------------------------------------------------------
Init ==
  /\ SyncInit
  /\ L!Init
  /\ owner = [a \in Addresses |-> CHOOSE c \in Consumers : TRUE] \* they are alike
  /\ next = [a \in Addresses |-> 0]
  /\ committed = [a \in Addresses |-> None]
  /\ proc = [c \in Consumers |-> [a \in Addresses |-> Idle]]
  /\ deposit = [x \in Txs |-> None]
  /\ addressBalance = [a \in Addresses |-> 0]
  /\ change = [x \in Txs |-> None]
  /\ dropped = [t \in Transfers |-> None]

Process(c, a) ==
  Fetch(c, a) \/ Credit(c, a) \/ Record(c, a) \/ LookUpChange(c, a) \/ ReadBalance(c, a)
  \/ AddBalance(c, a) \/ Finish(c, a)

Next ==
  \/ SyncNext /\ UNCHANGED consumerVars
  \/ \E a \in Addresses : Commit(a) \/ \E c \in Consumers : Process(c, a) \/ Reassign(a, c)

Spec == Init /\ [][Next]_vars

\* The loops of chainsync tick for ever, the chain grows, and the replicas work
\* through the partitions they own.  Faults owe nothing.
Fairness ==
  /\ WF_vars(Mine /\ UNCHANGED consumerVars)
  /\ WF_vars(RefreshHead /\ UNCHANGED consumerVars)
  /\ WF_vars(Scanner /\ UNCHANGED consumerVars)
  /\ WF_vars(Confirmer /\ UNCHANGED consumerVars)
  /\ WF_vars(\E t \in Transfers : Requeue(t) /\ UNCHANGED consumerVars)
  /\ WF_vars(\E c \in Consumers, a \in Addresses : Process(c, a))

FairSpec == Spec /\ Fairness

-------------------------------------------------------------------------------
(* Properties.                                                             *)

Booked(t) ==
  IF t \in Deposits THEN posted[KeyOf(t)] = Request(t) ELSE posted[KeyOf(t)] # None

\* Every table and control state has its type, and what a replica has in hand
\* is a message of the very partition it came from.
TypeOK ==
  /\ SyncTypeOK
  /\ owner \in [Addresses -> Consumers]
  /\ \A a \in Addresses :
       /\ next[a] \in 0 .. Len(log[a])
       /\ committed[a] \in {None} \cup (1 .. Len(log[a]))
       /\ addressBalance[a] \in Nat
       /\ \A c \in Consumers : proc[c][a] # Idle => AddressOf[proc[c][a].t] = a
  /\ deposit \in [Txs -> Deposits \cup {None}] /\ change \in [Txs -> Deposits \cup {None}]
  /\ dropped \in [Transfers -> {None, "skipped", "ignored", "refused", "error"}]

\* The deposit list shows what the ledger has booked: owner, amount and
\* transaction of a shown deposit are those of the booking under its key.
ShownIsBooked == \A x \in Txs : deposit[x] # None => Booked(deposit[x])

\* An address is never believed to hold more than its deposits brought in,
\* whatever is delivered twice, processed side by side or read wrongly.
AddressBalanceIsBacked ==
  \A a \in Addresses :
    addressBalance[a] <= SumFunction([x \in Txs |->
      IF change[x] # None /\ AddressOf[change[x]] = a /\ Booked(change[x])
        THEN AmountOf[change[x]] ELSE 0])

\* The ledger refuses a deposit only because another deposit of the same
\* transaction has taken its key, and never one the processor ignores.
RefusedHasSibling ==
  \A t \in Transfers : dropped[t] = "refused" =>
    \E s \in Deposits \ (Ignored \cup {t}) : TxOf[s] = TxOf[t] /\ Booked(s)

\* The whole path keeps the deposit contract for every transaction that no
\* reorganisation has touched: final first, credited once, never taken back.
Contract == INSTANCE DepositContract WITH
  Transfers <- Deposits,
  final <- {t \in Deposits : TxOf[t] \notin moved \cup Reverted /\ Deep(TxOf[t])},
  credited <- {t \in Deposits : TxOf[t] \notin moved /\ Booked(t)}
ContractSpec == Contract!Spec

\* Every final transfer the scanner looks for and the processor does not ignore
\* is credited in the end, unless its transaction has credited another one or a
\* fault is known to have cost it: retries, restarts and redeliveries lose none.
FinalIsCredited ==
  <>[](\A t \in Transfers \ Ignored :
         Deep(TxOf[t]) /\ TxOf[t] \in Relevant \ Reverted
           => Booked(t) \/ t \in lost \/ dropped[t] # None \/ TxOf[t] \in moved)
===============================================================================
