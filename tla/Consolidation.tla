----------------------------- MODULE Consolidation -----------------------------
(***************************************************************************)
(* The sweep of one deposit address on an EVM chain: its token balance is  *)
(* sent to the hot wallet.  A scheduler discovers the balance and creates  *)
(* a task; executors sign and broadcast, trackers follow the transaction,  *)
(* bump its gas or give it up, top-up workers buy gas for the address and  *)
(* verifiers wait for it.  All of them share the rows of the tasks under a *)
(* claim (claimed_by, claimed_until) and a version.                        *)
(*                                                                         *)
(* A version is only ever compared with the one a worker has read, so the  *)
(* model keeps the set of workers whose row is `fresh'.  A claim that has  *)
(* run out counts as none.  Back-off delays are left out: a row may be due *)
(* at any time.                                                            *)
(***************************************************************************)
EXTENDS Integers, Sequences, FiniteSets

CONSTANTS
  Executors, Trackers, TopUppers, Verifiers, \* the workers of all instances
  Instances,        \* replicas of the service
  InstanceOf,       \* worker -> the instance it runs in
  MaxTasks,         \* bound on the tasks created for the address
  MaxRetries, EvmMaxBumps, MaxTopUpAttempts,
  MaxNativeSpend,   \* cap on the top-ups of a task, in top-ups
  Events, MaxEvents, \* which faults, calls of operators and deposits, how many
  None

Workers == Executors \cup Trackers \cup TopUppers \cup Verifiers
Tasks == 1 .. MaxTasks

\* active_task_key: the rows that keep the address to themselves.
ActiveStatuses == {"pending", "need_gas", "in_progress", "timeout"}
Statuses == ActiveStatuses \cup {"confirmed", "permanent_failed", "cancelled"}

\* Transactions are told apart by their nonce and a number.
TxIds == Nat \X Nat

Rows == [status : Statuses, tx : TxIds \cup {None}, retry : 0 .. MaxRetries, bump : 0 .. EvmMaxBumps,
         age : {"young", "late", "lost"}, claim : Instances \cup {None}]

\* Each worker is a loop of its own and of one kind.
ASSUME ConsolidationAssumption ==
  /\ InstanceOf \in [Workers -> Instances]
  /\ Executors \cap (Trackers \cup TopUppers \cup Verifiers) = {}
  /\ Trackers \cap (TopUppers \cup Verifiers) = {} /\ TopUppers \cap Verifiers = {}
  /\ {MaxTasks, MaxRetries, EvmMaxBumps, MaxTopUpAttempts, MaxNativeSpend,
      MaxEvents} \subseteq Nat
  /\ None \notin Instances \cup Nat \cup TxIds \cup Rows

VARIABLES
  task,       \* task -> its row of consolidation_tasks, or None
  fresh,      \* workers that have read the row they work on as it is now
  work,       \* worker -> where it is
  net,        \* <<nonce, number>> -> what the chain knows of that transaction
  holds, gas, \* the address holds a balance worth sweeping; it can pay a fee
  topups,     \* task -> its rows of consolidation_topup_records
  retrying,   \* the task a manual retry has taken the records from, or None
  streak,     \* transactions signed since the last success or decision (history)
  unguarded,  \* a discovery could not read the terminal failures (history)
  events

chainVars == <<net, holds, gas>>
history == <<streak, unguarded>>
vars == <<task, fresh, work, chainVars, topups, retrying, history, events>>

Event(kind) == kind \in Events /\ events < MaxEvents /\ events' = events + 1
NoEvent == UNCHANGED events

-------------------------------------------------------------------------------
(* Rows, claims and versions.                                              *)

Active(t) == task[t] # None /\ task[t].status \in ActiveStatuses

NewRow == [status |-> "pending", tx |-> None, retry |-> 0, bump |-> 0, age |-> "young", claim |-> None]

On(t) == {w \in Workers : work[w].task = t}

\* What a worker has read of the row can make a difference only while the row is
\* fresh, except for the transaction in it and its age.
Idle == [pc |-> "idle", task |-> None, tx |-> None, age |-> None, data |-> None]
Goes(w, pc, data) == work' = [work EXCEPT ![w].pc = pc, ![w].data = data]

\* ClaimByStatuses, ClaimByTaskID: an unclaimed row, read as it is claimed.
Claim(w, t) ==
  /\ work[w].pc = "idle"
  /\ task[t] # None
  /\ task[t].claim = None
  /\ task' = [task EXCEPT ![t].claim = InstanceOf[w]]
  /\ fresh' = fresh \cup {w}
  /\ work' = [work EXCEPT ![w] = [pc |-> "check", task |-> t, tx |-> task[t].tx, age |-> task[t].age, data |-> None]]

\* Mutant: an update that looks at neither version nor claim.
Leased_Unchecked(w) == TRUE

\* updateWithLease goes through: the claim is the instance's and the version
\* the one the worker has read.
Leased(w) == w \in fresh /\ task[work[w].task].claim = InstanceOf[w]

Tracked(status) == status \in {"in_progress", "timeout"}

\* The row a transition leaves behind: without a claim.
Turned(t, status) ==
  [task[t] EXCEPT !.status = status, !.claim = None, !.age = IF Tracked(status) THEN @ ELSE "young"]

\* A leased update that writes `row`, or nothing.
Mark(w, row) ==
  LET t == work[w].task IN
  IF Leased(w)
    THEN task' = [task EXCEPT ![t] = row] /\ fresh' = fresh \ On(t)
    ELSE UNCHANGED <<task, fresh>>

\* ReleaseClaim: by instance, whichever of its workers holds the claim.
Released(row, w) == IF row.claim = InstanceOf[w] THEN [row EXCEPT !.claim = None] ELSE row

\* A worker is done with a task after a last update, or without one.
Ends(w, row) ==
  LET t == work[w].task IN
  /\ task' = [task EXCEPT ![t] = Released(IF Leased(w) THEN row ELSE @, w)]
  /\ fresh' = fresh \ (IF Leased(w) THEN On(t) ELSE {w})
  /\ work' = [work EXCEPT ![w] = Idle]

Leaves(w) ==
  LET t == work[w].task IN
  /\ task' = [task EXCEPT ![t] = Released(@, w)]
  /\ fresh' = fresh \ {w}
  /\ work' = [work EXCEPT ![w] = Idle]

\* Mutant: one retry too many.
Retried_OneMore(w) ==
  LET t == work[w].task IN
  IF task[t].retry <= MaxRetries
    THEN [NewRow EXCEPT !.retry = task[t].retry + 1]
    ELSE Turned(t, "permanent_failed")

\* MarkRetryPending and its callers: to be signed anew, or given up.
Retried(w) ==
  LET t == work[w].task IN
  IF task[t].retry < MaxRetries
    THEN [NewRow EXCEPT !.retry = task[t].retry + 1]
    ELSE Turned(t, "permanent_failed")

-------------------------------------------------------------------------------
(* The chain, as far as the service sees it.                               *)

OnChain == {"mined", "final", "reverted"}
Known(n) == {id \in DOMAIN net : id[1] = n /\ net[id] # "unsent"}
Taken(n) == \E id \in Known(n) : net[id] \in OnChain

\* PendingNonceAt: the first nonce the node has no transaction for.
PendingNonce ==
  1 + Cardinality({n \in 1 .. Cardinality(DOMAIN net) : \A m \in 1 .. n : Known(m) # {}})

\* Signed transactions of one nonce are told apart by a number.
NewTx(n) == <<n, 1 + Cardinality({id \in DOMAIN net : id[1] = n})>>

\* BroadcastTransaction, when it reaches the node: known transactions stay as
\* they are, and a nonce that is used up is refused.
Sent(id) == IF net[id] = "unsent" /\ ~Taken(id[1]) THEN [net EXCEPT ![id] = "sent"] ELSE net

-------------------------------------------------------------------------------
(* The scheduler.                                                          *)

TerminalFailed == \E t \in Tasks : task[t] # None /\ task[t].status = "permanent_failed"

\* Mutant: nothing is asked about tasks that have failed for good.
MayDiscover_NoTerminalGuard == NoEvent /\ UNCHANGED unguarded

\* HasTerminalFailedTokenTask; an error counts as no.
MayDiscover ==
  \/ ~TerminalFailed /\ NoEvent /\ UNCHANGED unguarded
  \/ TerminalFailed /\ Event("db_read") /\ unguarded' = TRUE

\* discoverOneAddress: one active task per address, by look-up and unique key.
\* The cooldown after a confirmed task may be over at any time.
Discover(t) ==
  /\ task[t] = None
  /\ \A s \in 1 .. t - 1 : task[s] # None
  /\ \A s \in Tasks : ~Active(s)
  /\ holds
  /\ MayDiscover
  /\ task' = [task EXCEPT ![t] = NewRow]
  /\ UNCHANGED <<fresh, work, chainVars, topups, retrying, streak>>

-------------------------------------------------------------------------------
(* An executor.                                                            *)

ExecutorClaims(w) ==
  /\ \E t \in Tasks : task[t] # None /\ task[t].status = "pending" /\ Claim(w, t)
  /\ UNCHANGED <<chainVars, topups, retrying, history, events>>

\* failOrRetry: nothing has been signed yet.
FailOrRetry(w) ==
  LET t == work[w].task
      n == task[t].retry IN
  Ends(w, IF n < MaxRetries THEN [Turned(t, "pending") EXCEPT !.retry = n + 1]
                            ELSE Turned(t, "permanent_failed"))

\* execute up to the signature: balances and fees, and the nonce the
\* transaction is built for.
Precheck(w) ==
  LET t == work[w].task IN
  /\ work[w].pc = "check"
  /\ \/ Event("rpc_error") /\ FailOrRetry(w)
     \/ Event("gas_price") /\ holds /\ Ends(w, Turned(t, "pending"))
     \/ NoEvent /\ ~holds /\ Ends(w, Turned(t, "permanent_failed"))
     \/ NoEvent /\ holds /\ ~gas /\ Ends(w, Turned(t, "need_gas"))
     \/ NoEvent /\ holds /\ gas /\ Goes(w, "signed", PendingNonce) /\ UNCHANGED <<task, fresh>>
  /\ UNCHANGED <<chainVars, topups, retrying, history>>

\* A signed transaction is stored, in the row and, for the model, in `net`.
Stored(t, id, row) ==
  /\ task' = [task EXCEPT ![t] = [row EXCEPT !.status = "in_progress", !.tx = id, !.age = "young"]]
  /\ net' = [x \in DOMAIN net \cup {id} |-> IF x \in DOMAIN net THEN net[x] ELSE "unsent"]
  /\ streak' = streak + 1
  /\ UNCHANGED <<holds, gas, unguarded>>

\* Stored before it is broadcast, and only under the lease.
MarkInProgress(w) ==
  LET t  == work[w].task
      id == NewTx(work[w].data) IN
  /\ work[w].pc = "signed"
  /\ \/ /\ Leased(w)
        /\ \/ /\ NoEvent
              /\ Stored(t, id, task[t]) /\ fresh' = fresh \ (On(t) \ {w})
              /\ Goes(w, "broadcast", id)
           \/ /\ Event("db_error")  \* committed, and reported as failed
              /\ Stored(t, id, Released(task[t], w)) /\ fresh' = fresh \ On(t)
              /\ work' = [work EXCEPT ![w] = Idle]
     \/ NoEvent /\ ~Leased(w) /\ Leaves(w) /\ UNCHANGED <<chainVars, history>>
  /\ UNCHANGED <<topups, retrying>>

\* An answer that fails does not say whether the transaction went out.
Broadcast(w) ==
  LET id == work[w].data IN
  /\ work[w].pc = "broadcast"
  /\ \/ /\ NoEvent /\ ~Taken(id[1]) /\ net' = Sent(id) /\ Leaves(w)
     \/ /\ \/ NoEvent /\ Taken(id[1]) /\ net' = net
           \/ Event("send_error") /\ net' = net
           \/ Event("send_unknown") /\ net' = Sent(id)
        /\ Goes(w, "retry", None) /\ UNCHANGED <<task, fresh>>
  /\ UNCHANGED <<holds, gas, topups, retrying, history>>

\* scheduleRetryInProgress: under the version after MarkInProgress.
RetryInProgress(w) ==
  /\ work[w].pc = "retry"
  /\ Ends(w, Retried(w))
  /\ UNCHANGED <<chainVars, topups, retrying, history, events>>

Execute(w) ==
  \/ ExecutorClaims(w) \/ Precheck(w) \/ MarkInProgress(w) \/ Broadcast(w)
  \/ RetryInProgress(w)

-------------------------------------------------------------------------------
(* A tracker.                                                              *)

\* Mutant: tasks that have timed out are not looked at.
TrackerClaims_InProgress(w) ==
  /\ \E t \in Tasks : task[t] # None /\ task[t].status = "in_progress" /\ Claim(w, t)
  /\ UNCHANGED <<chainVars, topups, retrying, history, events>>

TrackerClaims(w) ==
  /\ \E t \in Tasks : task[t] # None /\ Tracked(task[t].status) /\ Claim(w, t)
  /\ UNCHANGED <<chainVars, topups, retrying, history, events>>

\* GetTransactionReceipt of the transaction in the row as it was claimed.
Look(w) ==
  LET state == net[work[w].tx] IN
  /\ work[w].pc = "check"
  /\ \/ NoEvent /\ Goes(w, "track", IF state \in OnChain THEN state ELSE "none")
     \/ Event("rpc_error") /\ Goes(w, "track", "error")
  /\ UNCHANGED <<task, fresh, chainVars, topups, retrying, history>>

\* hasEnoughConfirmations
Confirmed(receipt) == receipt = "final"

MarkConfirmed(w) ==
  /\ Ends(w, Turned(work[w].task, "confirmed"))
  /\ streak' = IF Leased(w) THEN 0 ELSE streak

\* Not before its time, and a limited number of times.
MayBump(w) == task[work[w].task].bump < EvmMaxBumps /\ work[w].age = "late"

\* The answer is acted upon.  A transaction that has reverted, or has had no
\* receipt for MaxNoReceiptDuration, is given up; one that is missing is bumped
\* or sent again.
Track(w) ==
  LET receipt == work[w].data
      missing == receipt \in {"none", "error"}
      lost    == missing /\ work[w].age = "lost" IN
  /\ work[w].pc = "track"
  /\ \/ Confirmed(receipt) /\ MarkConfirmed(w)
     \/ receipt = "mined" /\ ~Confirmed(receipt) /\ Leaves(w) /\ UNCHANGED streak
     \/ (receipt = "reverted" \/ lost) /\ Ends(w, Retried(w)) /\ UNCHANGED streak
     \/ /\ missing /\ ~lost /\ UNCHANGED <<task, fresh, streak>>
        /\ Goes(w, IF receipt = "none" /\ MayBump(w) THEN "bump" ELSE "resend", None)
  /\ UNCHANGED <<chainVars, topups, retrying, unguarded, events>>

\* MarkRebroadcastInProgress
BumpedRow(w) == [task[work[w].task] EXCEPT !.bump = @ + 1]

\* maybeBumpEvmGas: only if the address can pay and the fees have gone up.  The
\* replacement is stored before it is sent.
BumpGas(w) ==
  LET t  == work[w].task
      id == NewTx(work[w].tx[1]) IN
  /\ work[w].pc = "bump"
  /\ \/ NoEvent /\ Goes(w, "resend", None) /\ UNCHANGED <<task, fresh, chainVars, history>>
     \/ /\ Event("rpc_error") /\ Mark(w, Turned(t, "in_progress"))
        /\ Goes(w, "resend", None) /\ UNCHANGED <<chainVars, history>>
     \/ /\ gas /\ Leased(w) /\ NoEvent
        /\ Stored(t, id, BumpedRow(w))
        /\ fresh' = fresh \ On(t)
        /\ Goes(w, "send", id)
  /\ UNCHANGED <<topups, retrying>>

\* The replacement goes out, or not: its error is only logged.
SendBump(w) ==
  /\ work[w].pc = "send"
  /\ \/ NoEvent /\ net' = Sent(work[w].data)
     \/ Event("send_error") /\ net' = net
  /\ Goes(w, "resend", None)
  /\ UNCHANGED <<task, fresh, holds, gas, topups, retrying, history>>

\* maybeRebroadcast sends the transaction of the row as it was claimed, also
\* after a bump, and MarkTimeout follows when it has been pending too long.
Resend(w) ==
  LET t  == work[w].task
      tx == work[w].tx IN
  /\ work[w].pc = "resend"
  /\ net' = IF work[w].age = "young" THEN net ELSE Sent(tx)
  /\ \/ task[t].status = "in_progress" /\ work[w].age = "late" /\ Ends(w, Turned(t, "timeout"))
     \/ Leaves(w)
  /\ UNCHANGED <<holds, gas, topups, retrying, history, events>>

Tracks(w) ==
  TrackerClaims(w) \/ Look(w) \/ Track(w) \/ BumpGas(w) \/ SendBump(w) \/ Resend(w)

-------------------------------------------------------------------------------
(* Top-ups: a worker buys gas for a task, a verifier waits for it.         *)

Undeleted(t) == {i \in DOMAIN topups[t] : topups[t][i].status # "deleted"}
Open(t) == {i \in Undeleted(t) : topups[t][i].status \in {"pending", "sent"}}
Record(t, i, status) == [topups EXCEPT ![t][i].status = IF @ \in {"pending", "sent"} THEN status ELSE @]

\* sendTopUp: failed top-ups count as attempts and not as money.
Cost(t) == Cardinality({i \in Undeleted(t) : topups[t][i].status # "failed"})

TopUpClaims(w) ==
  /\ \E t \in Tasks : task[t] # None /\ task[t].status = "need_gas" /\ Claim(w, t)
  /\ UNCHANGED <<chainVars, topups, retrying, history, events>>

\* MarkPending: as new, but with the retries it has had.
Resumed(t) == [NewRow EXCEPT !.retry = task[t].retry]

\* stillNeedsGas: the price may be too high to say, and the estimate of a
\* transfer fails when the tokens are gone.
GasVerdict(verdict) ==
  \/ verdict = "enough" /\ NoEvent /\ holds /\ gas
  \/ verdict = "enough" /\ Event("gas_price") /\ holds
  \/ verdict = "short" /\ NoEvent /\ holds /\ ~gas
  \/ verdict = "unknown" /\ NoEvent /\ ~holds
  \/ verdict = "unknown" /\ Event("rpc_error")

\* handleNeedGas up to the new record.
HandleNeedGas(w) ==
  LET t == work[w].task
      refused == Cardinality(Undeleted(t)) >= MaxTopUpAttempts \/ Cost(t) + 1 > MaxNativeSpend IN
  /\ work[w].pc = "check"
  /\ \/ GasVerdict("enough") /\ Ends(w, Resumed(t))
     \/ GasVerdict("unknown") /\ Ends(w, Turned(t, "need_gas"))
     \/ GasVerdict("short") /\ Open(t) # {} /\ Ends(w, Turned(t, "need_gas"))
     \/ GasVerdict("short") /\ Open(t) = {} /\ refused
          /\ Ends(w, Turned(t, "permanent_failed"))
     \/ GasVerdict("short") /\ Open(t) = {} /\ ~refused /\ Goes(w, "create", None)
          /\ UNCHANGED <<task, fresh>>
  /\ UNCHANGED <<chainVars, topups, retrying, history>>

\* CreateIgnoreDuplicate: one open record per task, by its unique key.
CreateTopUp(w) ==
  LET t == work[w].task
      created == topups' = [topups EXCEPT ![t] = Append(@, [status |-> "pending", net |-> "unsent"])] IN
  /\ work[w].pc = "create"
  /\ IF Open(t) # {}
       THEN NoEvent /\ Ends(w, Turned(t, "need_gas")) /\ UNCHANGED topups
       ELSE \/ created /\ NoEvent /\ Goes(w, "send", Len(topups[t]) + 1) /\ UNCHANGED <<task, fresh>>
            \/ created /\ Event("db_error") /\ Leaves(w)  \* committed, and reported as failed
  /\ UNCHANGED <<chainVars, retrying, history>>

\* The transfer of gas; after an error, whatever became of it, the record is
\* failed and the task left as it is.
SendTopUp(w) ==
  LET t == work[w].task
      i == work[w].data
      failed == Record(t, i, "failed") IN
  /\ work[w].pc = "send"
  /\ \/ /\ NoEvent /\ topups' = [topups EXCEPT ![t][i].net = "sent"]
        /\ Goes(w, "sent", i) /\ UNCHANGED <<task, fresh>>
     \/ Event("send_error") /\ topups' = failed /\ Leaves(w)
     \/ /\ Event("send_unknown") /\ topups' = [failed EXCEPT ![t][i].net = "sent"]
        /\ Leaves(w)
  /\ UNCHANGED <<chainVars, retrying, streak, unguarded>>

\* MarkSent, then MarkNeedGas; when the first fails the record stays pending.
MarkSent(w) ==
  LET t == work[w].task IN
  /\ work[w].pc = "sent"
  /\ \/ NoEvent /\ topups' = Record(t, work[w].data, "sent") /\ Ends(w, Turned(t, "need_gas"))
     \/ Event("db_error") /\ UNCHANGED topups /\ Leaves(w)
  /\ UNCHANGED <<chainVars, retrying, history>>

TopsUp(w) ==
  \/ TopUpClaims(w) \/ HandleNeedGas(w) \/ CreateTopUp(w) \/ SendTopUp(w) \/ MarkSent(w)

\* processRecord: a transfer that is settled closes its record, and the task,
\* in whatever status, is claimed to be looked at, or left to its worker.
Verify(w) ==
  /\ work[w].pc = "idle"
  /\ \E t \in Tasks : \E i \in Undeleted(t) :
       /\ topups[t][i].status = "sent"
       /\ topups[t][i].net \in {"ok", "reverted"}
       /\ topups' = Record(t, i, IF topups[t][i].net = "ok" THEN "confirmed" ELSE "failed")
       /\ \/ Claim(w, t)
          \/ task[t].claim # None /\ UNCHANGED <<task, fresh, work>>
  /\ UNCHANGED <<chainVars, retrying, history, events>>

\* rescheduleTask
Reschedule(w) ==
  LET t == work[w].task IN
  /\ work[w].pc = "check"
  /\ \/ task[t].status # "need_gas" /\ NoEvent /\ Leaves(w)
     \/ task[t].status = "need_gas" /\ GasVerdict("enough") /\ Ends(w, Resumed(t))
     \/ /\ task[t].status = "need_gas" /\ (GasVerdict("short") \/ GasVerdict("unknown"))
        /\ Ends(w, Turned(t, "need_gas"))
  /\ UNCHANGED <<chainVars, topups, retrying, history>>

Verifies(w) == Verify(w) \/ Reschedule(w)

-------------------------------------------------------------------------------
(* Operators.                                                              *)

\* MarkCancelled: whoever works on the task, but not once it is being broadcast.
Cancel(t) ==
  /\ Event("cancel")
  /\ Active(t) /\ task[t].status # "in_progress"
  /\ task' = [task EXCEPT ![t] = Turned(t, "cancelled")]
  /\ fresh' = fresh \ On(t)
  /\ streak' = 0
  /\ UNCHANGED <<work, chainVars, topups, retrying, unguarded>>

\* Of a deleted record only a transfer under way matters.
Deleted(record) ==
  [status |-> "deleted", net |-> IF record.net = "sent" THEN "sent" ELSE "unsent"]

\* RetryConsolidationTask: the top-ups of the task are forgotten ...
SoftDelete(t) ==
  /\ Event("retry")
  /\ retrying = None
  /\ task[t] # None /\ task[t].status \notin {"in_progress", "confirmed"}
  /\ topups' = [topups EXCEPT ![t] = [i \in DOMAIN @ |-> Deleted(@[i])]]
  /\ retrying' = t
  /\ UNCHANGED <<task, fresh, work, chainVars, history>>

\* ... and the task, unless it has moved on or another one has the address,
\* starts again; the bumps it has had still count.
ForceRetryPending ==
  LET t == retrying
      may == /\ task[t] # None /\ task[t].status \notin {"in_progress", "confirmed", "cancelled"}
             /\ \A s \in Tasks \ {t} : ~Active(s) IN
  /\ retrying # None
  /\ retrying' = None
  /\ IF may
       THEN /\ task' = [task EXCEPT ![t] = [NewRow EXCEPT !.bump = task[t].bump]]
            /\ fresh' = fresh \ On(t)
            /\ streak' = 0
       ELSE UNCHANGED <<task, fresh, streak>>
  /\ UNCHANGED <<work, chainVars, topups, unguarded, events>>

-------------------------------------------------------------------------------
(* What the service has no say in.                                         *)

\* An instance dies with everything its workers know; its claims stay.
Crash(instance) ==
  LET its == {w \in Workers : InstanceOf[w] = instance} IN
  /\ \E w \in its : work[w] # Idle
  /\ Event("crash")
  /\ work' = [w \in Workers |-> IF w \in its THEN Idle ELSE work[w]]
  /\ fresh' = fresh \ its
  /\ UNCHANGED <<task, chainVars, topups, retrying, history>>

\* A claim runs out: when nobody of its instance is at work on the task, or
\* when a worker does not come to its renewal in time.
Lapse(t) ==
  /\ task[t] # None /\ task[t].claim # None
  /\ IF \E w \in On(t) : InstanceOf[w] = task[t].claim
       THEN Event("lease_lapse") ELSE NoEvent
  /\ task' = [task EXCEPT ![t].claim = None]
  /\ UNCHANGED <<fresh, work, chainVars, topups, retrying, history>>

\* claimHeartbeat finds the claim gone and cancels the worker's context: the
\* call under way fails, and so do the writes after it.
ContextCancelled(w) ==
  /\ w \in Executors \cup TopUppers
  /\ work[w].pc # "idle"
  /\ task[work[w].task].claim # InstanceOf[w]
  /\ Leaves(w)
  /\ UNCHANGED <<chainVars, topups, retrying, history, events>>

\* Time passes for a transaction: until it may be bumped or called late
\* (EvmBumpAfterSeconds, MaxPendingDuration), until MaxNoReceiptDuration.
Age(t) ==
  /\ task[t] # None /\ Tracked(task[t].status) /\ task[t].age # "lost"
  /\ task' = [task EXCEPT ![t].age = IF @ = "young" THEN "late" ELSE "lost"]
  /\ UNCHANGED <<fresh, work, chainVars, topups, retrying, history, events>>

\* Nonces are mined in order, one transaction each (the others are dropped), and
\* it costs gas either way.
Mine(id) ==
  LET included(state) == [x \in DOMAIN net |-> IF x = id THEN state ELSE IF x[1] = id[1] THEN "unsent" ELSE net[x]] IN
  /\ net[id] = "sent"
  /\ ~Taken(id[1]) /\ \A n \in 1 .. id[1] - 1 : Taken(n)
  /\ gas
  /\ \/ holds /\ NoEvent /\ net' = included("mined") /\ holds' = FALSE
     \/ ~holds /\ NoEvent /\ net' = included("reverted") /\ UNCHANGED holds
     \/ holds /\ Event("revert") /\ net' = included("reverted") /\ UNCHANGED holds
  /\ gas' = FALSE
  /\ UNCHANGED <<task, fresh, work, topups, retrying, history>>

Finalise(id) ==
  /\ net[id] = "mined"
  /\ net' = [net EXCEPT ![id] = "final"]
  /\ UNCHANGED <<task, fresh, work, holds, gas, topups, retrying, history, events>>

\* A reorganisation takes back a sweep that is not final.
Reorganise(id) ==
  /\ net[id] = "mined" /\ ~Taken(id[1] + 1)
  /\ Event("reorg")
  /\ net' = [net EXCEPT ![id] = "sent"]
  /\ holds' = TRUE
  /\ UNCHANGED <<task, fresh, work, gas, topups, retrying, history>>

SettleTopUp(t, i) ==
  LET settled(net_) == [topups EXCEPT ![t][i].net = IF topups[t][i].status = "deleted" THEN "unsent" ELSE net_] IN
  /\ topups[t][i].net = "sent"
  /\ \/ NoEvent /\ topups' = settled("ok") /\ gas' = TRUE
     \/ Event("revert") /\ topups' = settled("reverted") /\ gas' = gas
  /\ UNCHANGED <<task, fresh, work, net, holds, retrying, history>>

\* Users deposit again; fees rise.
Deposit ==
  /\ Event("deposit")
  /\ holds' = TRUE
  /\ UNCHANGED <<task, fresh, work, net, gas, topups, retrying, history>>

FeesRise ==
  /\ gas /\ Event("gas_rise")
  /\ gas' = FALSE
  /\ UNCHANGED <<task, fresh, work, net, holds, topups, retrying, history>>

-------------------------------------------------------------------------------

Init ==
  /\ task = [t \in Tasks |-> None]
  /\ fresh = {}
  /\ work = [w \in Workers |-> Idle]
  /\ net = <<>>
  /\ holds = TRUE /\ gas = FALSE
  /\ topups = [t \in Tasks |-> <<>>]
  /\ retrying = None
  /\ streak = 0 /\ unguarded = FALSE
  /\ events = 0

Works(w) ==
  \/ w \in Executors /\ Execute(w)
  \/ w \in Trackers /\ Tracks(w)
  \/ w \in TopUppers /\ TopsUp(w)
  \/ w \in Verifiers /\ Verifies(w)

TimePasses ==
  \/ \E t \in Tasks : Lapse(t) \/ Age(t)
  \/ \E t \in Tasks : \E i \in DOMAIN topups[t] : SettleTopUp(t, i)
  \/ \E id \in DOMAIN net : Finalise(id)

Next ==
  \/ \E w \in Workers : Works(w) \/ ContextCancelled(w)
  \/ \E t \in Tasks : Discover(t) \/ Cancel(t) \/ SoftDelete(t)
  \/ ForceRetryPending
  \/ \E instance \in Instances : Crash(instance)
  \/ \E id \in DOMAIN net : Mine(id) \/ Reorganise(id)
  \/ Deposit \/ TimePasses \/ FeesRise

Spec == Init /\ [][Next]_vars

\* The workers' loops run on, time passes, and a top-up or a mined transaction
\* is settled.  Nothing says that a transaction is ever mined.
Fairness ==
  /\ \A w \in Workers : WF_vars(Works(w))
  /\ WF_vars(TimePasses)

FairSpec == Spec /\ Fairness

-------------------------------------------------------------------------------
(* Properties.                                                             *)

\* Types, and what unique keys and claims keep apart: one active task per
\* address, one open top-up per task, a transaction wherever one is tracked.
TypeOK ==
  /\ \A t \in Tasks : Active(t) => \A s \in Tasks \ {t} : ~Active(s)
  /\ task \in [Tasks -> Rows \cup {None}]
  /\ \A t \in Tasks : task[t] # None /\ Tracked(task[t].status) => task[t].tx \in DOMAIN net
  /\ \A t \in Tasks : Cardinality(Open(t)) <= 1
  /\ fresh \subseteq {w \in Workers : work[w] # Idle}
  /\ DOMAIN net \subseteq TxIds
  /\ \A id \in DOMAIN net : net[id] \in {"unsent", "sent"} \cup OnChain
  /\ streak \in Nat

\* A task is confirmed only when the transaction in its row, not one it had
\* before, has swept the address for good; workers whose claim has run out,
\* bumps and reorganisations notwithstanding (status_tracker.go,
\* updateWithLease).
ConfirmedIsSwept ==
  \A t \in Tasks : (task[t] # None /\ task[t].status = "confirmed") =>
    \E id \in DOMAIN net : id = task[t].tx /\ net[id] = "final"

\* Between two successes or decisions of operators no more transactions are
\* signed for an address than the retries and bumps of one task allow: no new
\* task is a way around them, unless a discovery could not read the failed one
\* (docs/current-consolidation-logic.md, "Goals").
RetriesAreBounded ==
  streak <= (MaxRetries + 1) * (EvmMaxBumps + 1) \/ unguarded

\* A task that waits for gas in vain: its tokens are gone, so that no estimate
\* succeeds, or its record was left pending by a worker that is gone, and no
\* worker reads such records.
Stranded(t) ==
  /\ task[t].status = "need_gas"
  /\ \/ ~holds
     \/ \E i \in Open(t) :
          /\ topups[t][i].status = "pending"
          /\ \A w \in On(t) : work[w].pc \notin {"send", "sent"}

\* The address is not locked for ever: an active task is confirmed, cancelled
\* or given up, through crashes, lapsed claims, lost transactions and failed
\* calls, unless it is stranded (executor.go, the comment on a broadcast that
\* fails; status_tracker.go, "prevents indefinite address lock").
TaskEnds == \A t \in Tasks : Active(t) ~> (~Active(t) \/ Stranded(t))
===============================================================================
