-------------------------- MODULE ConsolidationProofs --------------------------
(***************************************************************************)
(* Proofs about the sweeps of Consolidation.  The workers of a task are    *)
(* kept apart by two tests of updateWithLease, claim and version; what a   *)
(* worker with the current version (one in `fresh') may rely on is stated  *)
(* in Knows, what each update may do to a row in Legal.  Every action is   *)
(* shown to be legal and to leave what the other workers know true.        *)
(***************************************************************************)
EXTENDS Consolidation, FiniteSetTheorems, TLAPS

-------------------------------------------------------------------------------
(* The inductive invariant.                                                *)

Ages == {"young", "late", "lost"}
Pcs == {"idle", "check", "signed", "broadcast", "retry", "track", "bump", "send", "resend",
        "create", "sent"}
Receipts == {"none", "error"} \cup OnChain

Places == [pc : Pcs, task : Tasks \cup {None}, tx : TxIds \cup {None}, age : Ages \cup {None},
           data : Nat \cup TxIds \cup {None} \cup Receipts]

TopUps == [status : {"pending", "sent", "confirmed", "failed", "deleted"},
           net : {"unsent", "sent", "ok", "reverted"}]

WorkTyped ==
  /\ task \in [Tasks -> Rows \cup {None}]
  /\ fresh \subseteq Workers
  /\ work \in [Workers -> Places]

NetTyped ==
  /\ IsFiniteSet(DOMAIN net) /\ DOMAIN net \subseteq TxIds
  /\ net \in [DOMAIN net -> {"unsent", "sent"} \cup OnChain]

Typed ==
  /\ WorkTyped
  /\ NetTyped
  /\ topups \in [Tasks -> Seq(TopUps)]
  /\ retrying \in Tasks \cup {None}
  /\ streak \in Nat
  /\ unguarded \in BOOLEAN

\* A worker is at a task that exists, or nowhere.
AtWork(w) ==
  /\ work[w].pc = "idle" => work[w].task = None /\ w \notin fresh
  /\ work[w].pc # "idle" => work[w].task \in Tasks /\ task[work[w].task] # None

\* Whoever holds the current version of a row knows its status.
ExecutorKnows(w) ==
  LET row == task[work[w].task] IN
  /\ work[w].pc = "signed" => work[w].data \in Nat
  /\ w \in fresh =>
       IF work[w].pc \in {"check", "signed"} THEN row.status = "pending" ELSE row.status = "in_progress"

\* A tracker follows a transaction that is stored; its receipt, once final, stays
\* so; with the current version it is the transaction of the row.
TrackerKnows(w) ==
  LET row == task[work[w].task] IN
  work[w].pc # "idle" =>
    /\ work[w].tx \in DOMAIN net
    /\ work[w].pc = "track" /\ work[w].data = "final" => net[work[w].tx] = "final"
    /\ w \in fresh =>
         /\ Tracked(row.status)
         /\ row.tx = work[w].tx
         /\ work[w].pc = "bump" => row.bump < EvmMaxBumps

TopUpperKnows(w) ==
  LET t == work[w].task IN
  /\ w \in fresh => task[t].status = "need_gas"
  /\ work[w].pc \in {"send", "sent"} => work[w].data \in 1 .. Len(topups[t])

Knows(w) ==
  /\ w \in Executors => ExecutorKnows(w)
  /\ w \in Trackers => TrackerKnows(w)
  /\ w \in TopUppers => TopUpperKnows(w)

WorkersKnow == \A w \in Workers : AtWork(w) /\ Knows(w)

OneActive == \A t, s \in Tasks : Active(t) /\ Active(s) => t = s
TxIsStored ==
  \A t \in Tasks : task[t] # None /\ Tracked(task[t].status) => task[t].tx \in DOMAIN net
Swept ==
  \A t \in Tasks : task[t] # None /\ task[t].status = "confirmed" =>
    task[t].tx \in DOMAIN net /\ net[task[t].tx] = "final"

\* What the retries of a task and its current attempt may have cost so far.
Spent(row) ==
  row.retry * (EvmMaxBumps + 1) + (IF Tracked(row.status) THEN 1 + row.bump ELSE 0)

InBudget ==
  unguarded \/
    /\ streak <= (MaxRetries + 1) * (EvmMaxBumps + 1)
    /\ \A t \in Tasks : Active(t) => streak <= Spent(task[t])
    /\ (\A t \in Tasks : ~Active(t)) /\ ~TerminalFailed => streak = 0

RowsAreSound == OneActive /\ TxIsStored /\ Swept /\ InBudget

OneOpen == \A t \in Tasks : \A i, j \in Open(t) : i = j

ConsInv == Typed /\ WorkersKnow /\ RowsAreSound /\ OneOpen

-------------------------------------------------------------------------------
(* What a step does to a row, and to what others rely on.                  *)

SameCore(o, n) == o.status = n.status /\ o.tx = n.tx /\ o.retry = n.retry /\ o.bump = n.bump

\* The transitions of a row.  The claim and the age are nobody's concern here.
Legal(t, n) ==
  LET o == task[t]
      counts(r, b) == n.retry = r /\ n.bump = b IN
  /\ \/ /\ o # None /\ SameCore(o, n) /\ streak' = streak
     \/ /\ Active(t) /\ n.status = "pending" /\ n.retry = o.retry + 1 /\ streak' = streak
     \/ /\ Active(t) /\ ~Tracked(o.status) /\ n.status \in {"pending", "need_gas"}
        /\ n.retry = o.retry /\ streak' = streak
     \/ /\ Active(t) /\ n.status = "permanent_failed" /\ streak' = streak
     \/ /\ Active(t) /\ o.status = "pending" /\ n.status = "in_progress" /\ counts(o.retry, o.bump)
        /\ n.tx \in DOMAIN net' /\ streak' = streak + 1
     \/ /\ Active(t) /\ Tracked(o.status) /\ n.status = "in_progress"
        /\ counts(o.retry, o.bump + 1) /\ n.tx \in DOMAIN net' /\ streak' = streak + 1
     \/ /\ Active(t) /\ Tracked(o.status) /\ Tracked(n.status)
        /\ counts(o.retry, o.bump) /\ n.tx = o.tx /\ streak' = streak
     \/ /\ Active(t) /\ n.status = "confirmed" /\ n.tx \in DOMAIN net'
        /\ net'[n.tx] = "final" /\ streak' = 0
     \/ /\ Active(t) /\ n.status = "cancelled" /\ streak' = 0
     \/ /\ o # None /\ (\A s \in Tasks \ {t} : ~Active(s)) /\ n.status = "pending" /\ streak' = 0
     \/ /\ o = None /\ (\A s \in Tasks : ~Active(s)) /\ n.status = "pending"
        /\ (~TerminalFailed \/ unguarded') /\ streak' = streak
  /\ unguarded => unguarded'

\* Transactions are stored for good, and what is final stays final.
NetGrows ==
  /\ DOMAIN net \subseteq DOMAIN net'
  /\ \A id \in DOMAIN net : net[id] = "final" => net'[id] = "final"

TopUpsGrow == \A t \in Tasks : Len(topups[t]) <= Len(topups'[t])

RowsRemain == \A t \in Tasks : task[t] # None => task'[t] # None

\* The step is another's: if v has the current version, it still has.
Quiet(v) ==
  /\ work'[v] = work[v]
  /\ v \in fresh' => v \in fresh /\ SameCore(task[work[v].task], task'[work[v].task])

LEMMA OthersKnow ==
  ASSUME Typed, NEW v \in Workers, AtWork(v), Knows(v),
         Quiet(v), NetGrows, TopUpsGrow, RowsRemain
  PROVE  AtWork(v)' /\ Knows(v)'
<1>. USE DEF Quiet
<1>1. AtWork(v)'
  BY DEF AtWork, RowsRemain
<1>2. CASE v \in Executors
  <2>1. ExecutorKnows(v)'
    BY <1>2 DEF Knows, ExecutorKnows, SameCore
  <2>. QED BY <1>1, <1>2, <2>1, ConsolidationAssumption DEF Knows
<1>3. CASE v \in Trackers
  <2>1. ASSUME work[v].pc # "idle" PROVE TrackerKnows(v)'
    <3>1. TrackerKnows(v) /\ work[v].tx \in DOMAIN net
      BY <1>3, <2>1 DEF Knows, TrackerKnows
    <3>2. work[v].tx \in DOMAIN net' /\ (net[work[v].tx] = "final" => net'[work[v].tx] = "final")
      BY <3>1 DEF NetGrows
    <3>. QED BY <2>1, <3>1, <3>2 DEF TrackerKnows, SameCore, Tracked
  <2>2. TrackerKnows(v)'
    BY <2>1 DEF TrackerKnows
  <2>. QED BY <1>1, <1>3, <2>2, ConsolidationAssumption DEF Knows
<1>4. CASE v \in TopUppers
  <2>1. ASSUME work[v].pc # "idle" PROVE TopUpperKnows(v)'
    <3>1. TopUpperKnows(v) /\ work[v].task \in Tasks
      BY <1>4, <2>1 DEF Knows, AtWork
    <3>2. \A i : i \in 1 .. Len(topups[work[v].task]) => i \in 1 .. Len(topups'[work[v].task])
      BY <3>1 DEF TopUpsGrow, Typed, WorkTyped
    <3>. QED BY <3>1, <3>2 DEF TopUpperKnows, SameCore
  <2>2. TopUpperKnows(v)'
    BY <2>1, <1>1, <1>4 DEF TopUpperKnows, AtWork
  <2>. QED BY <1>1, <1>4, <2>2, ConsolidationAssumption DEF Knows
<1>. QED BY <1>1, <1>2, <1>3, <1>4 DEF Knows

-------------------------------------------------------------------------------
(* Every legal change of a row keeps the rows sound.                       *)

LEMMA RowBounds ==
  ASSUME Typed, NEW t \in Tasks, task[t] # None
  PROVE  /\ task[t] \in Rows
         /\ task[t].retry \in 0 .. MaxRetries /\ task[t].bump \in 0 .. EvmMaxBumps
BY DEF Typed, WorkTyped, Rows

\* The arithmetic of retries and bumps, out of the way of the rest.
LEMMA Budget ==
  ASSUME NEW R \in Nat, NEW B \in Nat, NEW r \in 0 .. R, NEW b \in 0 .. B, NEW s \in Nat
  PROVE  /\ r * (B + 1) \in Nat /\ (r + 1) * (B + 1) = r * (B + 1) + (B + 1)
         /\ r * (B + 1) <= R * (B + 1)
         /\ (R + 1) * (B + 1) = R * (B + 1) + (B + 1)
         /\ R * (B + 1) \in Nat
<1> DEFINE C == B + 1
<1>1. C \in Nat /\ R - r \in Nat
  OBVIOUS
<1>2. r * C \in Nat /\ (R - r) * C \in Nat /\ R * C \in Nat
  BY <1>1
<1>3. R * C = r * C + (R - r) * C
  BY <1>1
<1>4. (r + 1) * C = r * C + C /\ (R + 1) * C = R * C + C
  BY <1>1
<1>. QED BY <1>2, <1>3, <1>4

LEMMA RowsKeptActive ==
  ASSUME Typed, OneActive, NEW t \in Tasks, NEW n \in Rows,
         task' = [task EXCEPT ![t] = n], Legal(t, n)
  PROVE  /\ OneActive'
         /\ \A s \in Tasks \ {t} : Active(s)' <=> Active(s)
         /\ Active(t)' <=> n.status \in ActiveStatuses
<1>1. n # None
  BY ConsolidationAssumption
<1>2. task'[t] = n /\ \A s \in Tasks \ {t} : task'[s] = task[s]
  BY DEF Typed, WorkTyped
<1>3. \A s \in Tasks \ {t} : Active(s)' <=> Active(s)
  BY <1>2 DEF Active
<1>4. Active(t)' <=> n.status \in ActiveStatuses
  BY <1>1, <1>2 DEF Active
<1>5. Active(t)' => Active(t) \/ \A s \in Tasks \ {t} : ~Active(s)
  BY <1>4 DEF Legal, SameCore, Active, ActiveStatuses, Tracked
<1>. QED BY <1>3, <1>4, <1>5 DEF OneActive

LEMMA RowsKeptChain ==
  ASSUME Typed, TxIsStored, Swept, NEW t \in Tasks, NEW n \in Rows,
         task' = [task EXCEPT ![t] = n], Legal(t, n), NetGrows
  PROVE  TxIsStored' /\ Swept'
<1>1. task'[t] = n /\ \A s \in Tasks \ {t} : task'[s] = task[s]
  BY DEF Typed, WorkTyped
<1>2. Tracked(n.status) => n.tx \in DOMAIN net'
  BY DEF Legal, SameCore, Active, Tracked, TxIsStored, NetGrows
<1>3. n.status = "confirmed" => n.tx \in DOMAIN net' /\ net'[n.tx] = "final"
  BY DEF Legal, SameCore, Active, ActiveStatuses, Tracked, Swept, NetGrows
<1>4. TxIsStored'
  BY <1>1, <1>2 DEF TxIsStored, NetGrows, Tracked
<1>. QED BY <1>1, <1>3, <1>4 DEF Swept, NetGrows

\* The cases of Legal, as far as the count of signatures goes.
LEMMA LegalCost ==
  ASSUME Typed, NEW t \in Tasks, NEW n \in Rows, Legal(t, n), Active(t),
         n.status \in ActiveStatuses, streak <= Spent(task[t])
  PROVE  streak' <= Spent(n)
<1>1. /\ task[t].retry \in 0 .. MaxRetries /\ task[t].bump \in 0 .. EvmMaxBumps
      /\ n.retry \in 0 .. MaxRetries /\ n.bump \in 0 .. EvmMaxBumps
      /\ task[t] # None /\ streak \in Nat
  BY RowBounds DEF Active, Rows, Typed, WorkTyped
<1>2. EvmMaxBumps \in Nat /\ MaxRetries \in Nat
  BY ConsolidationAssumption
<1> DEFINE C(r) == r * (EvmMaxBumps + 1)
<1>3. /\ C(task[t].retry) \in Nat /\ C(n.retry) \in Nat
      /\ C(task[t].retry + 1) = C(task[t].retry) + (EvmMaxBumps + 1)
  BY <1>1, <1>2, Budget
<1>4. Spent(task[t]) = C(task[t].retry) + (IF Tracked(task[t].status) THEN 1 + task[t].bump ELSE 0)
  BY DEF Spent
<1>5. Spent(n) = C(n.retry) + (IF Tracked(n.status) THEN 1 + n.bump ELSE 0)
  BY DEF Spent
<1>6. CASE n.retry = task[t].retry
  <2>1. C(n.retry) = C(task[t].retry)
    BY <1>6
  <2> HIDE DEF C
  <2>. QED BY <1>1, <1>2, <1>3, <1>4, <1>5, <1>6, <2>1 DEF Legal, SameCore, Active, ActiveStatuses, Tracked
<1>7. CASE n.retry = task[t].retry + 1
  <2>1. C(n.retry) = C(task[t].retry) + (EvmMaxBumps + 1)
    BY <1>3, <1>7
  <2> HIDE DEF C
  <2>. QED BY <1>1, <1>2, <1>3, <1>4, <1>5, <1>7, <2>1 DEF Legal, SameCore, Active, ActiveStatuses, Tracked
<1>8. CASE streak' = 0
  <2> HIDE DEF C
  <2>. QED BY <1>1, <1>3, <1>5, <1>8
<1>9. n.retry = task[t].retry \/ n.retry = task[t].retry + 1 \/ streak' = 0
  BY <1>1 DEF Legal, SameCore, Active, ActiveStatuses, Tracked
<1>. QED BY <1>6, <1>7, <1>8, <1>9

LEMMA SpentIsBounded ==
  ASSUME NEW n \in Rows
  PROVE  /\ Spent(n) \in Nat
         /\ Spent(n) <= (MaxRetries + 1) * (EvmMaxBumps + 1)
<1>1. n.retry \in 0 .. MaxRetries /\ n.bump \in 0 .. EvmMaxBumps
  BY DEF Rows
<1>2. EvmMaxBumps \in Nat /\ MaxRetries \in Nat
  BY ConsolidationAssumption
<1> DEFINE C(r) == r * (EvmMaxBumps + 1)
<1>3. /\ C(n.retry) \in Nat /\ C(n.retry) <= C(MaxRetries) /\ C(MaxRetries) \in Nat
      /\ C(MaxRetries + 1) = C(MaxRetries) + (EvmMaxBumps + 1)
  BY <1>1, <1>2, Budget
<1>4. Spent(n) = C(n.retry) + (IF Tracked(n.status) THEN 1 + n.bump ELSE 0)
  BY DEF Spent
<1>5. Spent(n) <= C(MaxRetries + 1) /\ Spent(n) \in Nat
  <2> HIDE DEF C
  <2>. QED BY <1>1, <1>2, <1>3, <1>4
<1>. QED BY <1>5

LEMMA RowsKeptBudget ==
  ASSUME Typed, OneActive, InBudget, NEW t \in Tasks, NEW n \in Rows,
         task' = [task EXCEPT ![t] = n], Legal(t, n), unguarded' \in BOOLEAN
  PROVE  InBudget'
<1>1. task'[t] = n /\ n # None /\ \A s \in Tasks \ {t} : task'[s] = task[s]
  BY ConsolidationAssumption DEF Typed, WorkTyped
<1>2. /\ OneActive'
      /\ \A s \in Tasks \ {t} : Active(s)' <=> Active(s)
      /\ Active(t)' <=> n.status \in ActiveStatuses
  BY RowsKeptActive
<1> DEFINE Bound == (MaxRetries + 1) * (EvmMaxBumps + 1)
<1> SUFFICES ASSUME ~unguarded'
             PROVE  /\ streak' <= Bound
                    /\ \A s \in Tasks : Active(s)' => streak' <= Spent(task'[s])
                    /\ (\A s \in Tasks : ~Active(s)') /\ ~TerminalFailed' => streak' = 0
  BY DEF InBudget
<1>3. /\ ~unguarded
      /\ streak <= Bound
      /\ \A s \in Tasks : Active(s) => streak <= Spent(task[s])
      /\ (\A s \in Tasks : ~Active(s)) /\ ~TerminalFailed => streak = 0
      /\ streak \in Nat
  BY DEF InBudget, Legal, Typed, WorkTyped
<1>4. Bound \in Nat
  <2>1. MaxRetries \in Nat /\ EvmMaxBumps \in Nat
    BY ConsolidationAssumption
  <2>. QED BY <2>1
<1>5. ASSUME Active(t)' PROVE streak' <= Spent(n)
  <2>1. n.status \in ActiveStatuses
    BY <1>2, <1>5
  <2>2. CASE Active(t)
    BY <2>1, <2>2, <1>3, LegalCost
  <2>3. CASE ~Active(t)
    <3>1. streak' = 0
      BY <2>1, <2>3, <1>3 DEF Legal, SameCore, Active, ActiveStatuses
    <3>. QED BY <3>1, SpentIsBounded
  <2>. QED BY <2>2, <2>3
<1>6. ASSUME NEW s \in Tasks \ {t}, Active(s)' PROVE streak' <= Spent(task'[s])
  <2>1. Active(s) /\ task'[s] = task[s] /\ ~Active(t)
    BY <1>1, <1>2, <1>6 DEF OneActive
  <2>2. streak' = streak \/ streak' = 0
    BY <2>1 DEF Legal
  <2>3. Spent(task[s]) \in Nat
    BY <2>1, SpentIsBounded DEF Active, Typed, WorkTyped
  <2>. QED BY <2>1, <2>2, <2>3, <1>3
<1>7. streak' <= Bound
  <2>1. CASE Active(t)'
    <3>1. streak' \in Nat /\ Spent(n) <= Bound /\ Spent(n) \in Nat
      BY <1>3, SpentIsBounded DEF Legal
    <3> HIDE DEF Bound
    <3>. QED BY <2>1, <1>5, <3>1, <1>4
  <2>2. CASE ~Active(t)'
    <3>1. streak' = streak \/ streak' = 0
      BY <2>2, <1>2 DEF Legal, SameCore, ActiveStatuses, Tracked
    <3> HIDE DEF Bound
    <3>. QED BY <3>1, <1>3, <1>4
  <2>. QED BY <2>1, <2>2
<1>8. ASSUME \A s \in Tasks : ~Active(s)', ~TerminalFailed' PROVE streak' = 0
  <2>1. \A s \in Tasks \ {t} : ~Active(s) /\ ~(task[s] # None /\ task[s].status = "permanent_failed")
    BY <1>1, <1>2, <1>8 DEF TerminalFailed
  <2>2. n.status \notin ActiveStatuses /\ n.status # "permanent_failed"
    BY <1>1, <1>2, <1>8 DEF TerminalFailed
  <2>3. CASE streak' = 0
    BY <2>3
  <2>4. CASE task[t] # None /\ SameCore(task[t], n) /\ streak' = streak
    <3>1. ~Active(t) /\ task[t].status # "permanent_failed"
      BY <2>2, <2>4 DEF SameCore, Active
    <3>. QED BY <3>1, <2>1, <2>4, <1>3 DEF TerminalFailed
  <2>. QED BY <2>2, <2>3, <2>4 DEF Legal, ActiveStatuses, Tracked
<1>. QED BY <1>1, <1>5, <1>6, <1>7, <1>8

LEMMA RowsKept ==
  ASSUME Typed, RowsAreSound, NEW t \in Tasks, NEW n \in Rows,
         task' = [task EXCEPT ![t] = n], Legal(t, n), NetGrows, unguarded' \in BOOLEAN
  PROVE  RowsAreSound'
<1>1. OneActive'
  BY RowsKeptActive DEF RowsAreSound
<1>2. TxIsStored' /\ Swept'
  BY RowsKeptChain DEF RowsAreSound
<1>3. InBudget'
  BY RowsKeptBudget DEF RowsAreSound
<1>. QED BY <1>1, <1>2, <1>3 DEF RowsAreSound

LEMMA RowsUntouched ==
  ASSUME Typed, RowsAreSound, NetGrows, UNCHANGED <<task, history>>
  PROVE  RowsAreSound'
<1>1. OneActive' /\ InBudget'
  BY DEF RowsAreSound, OneActive, InBudget, Active, TerminalFailed, history
<1>2. TxIsStored' /\ Swept'
  BY DEF RowsAreSound, TxIsStored, Swept, NetGrows
<1>. QED BY <1>1, <1>2 DEF RowsAreSound

-------------------------------------------------------------------------------
(* The ways a worker goes on: it claims, stays at a task, or is done.      *)

LEMMA ReleasedIsRow ==
  ASSUME NEW w \in Workers, NEW row \in Rows
  PROVE  Released(row, w) \in Rows /\ SameCore(row, Released(row, w))
BY DEF Released, SameCore, Rows

LEMMA ReleasedIsLegal ==
  ASSUME NEW t \in Tasks, NEW w \in Workers, NEW row \in Rows, Legal(t, row)
  PROVE  Legal(t, Released(row, w))
BY ReleasedIsRow DEF Legal, SameCore

LEMMA IdleIsPlace == Idle \in Places /\ Idle.pc = "idle" /\ Idle.task = None
BY DEF Idle, Places, Pcs

\* After the change of one row to n, with every worker at it out of date.
LEMMA Written ==
  ASSUME Typed, WorkersKnow, RowsAreSound, NEW t \in Tasks,
         NEW n \in Rows, task' = [task EXCEPT ![t] = n], Legal(t, n), NetGrows, TopUpsGrow,
         unguarded' \in BOOLEAN
  PROVE  /\ RowsAreSound' /\ RowsRemain /\ task' \in [Tasks -> Rows \cup {None}]
         /\ \A v \in Workers :
              /\ work'[v] = work[v]
              /\ v \in fresh' => v \in fresh /\ (work[v].task # t \/ SameCore(task[t], n))
              => AtWork(v)' /\ Knows(v)'
<1>1. task'[t] = n /\ n # None /\ \A s \in Tasks \ {t} : task'[s] = task[s]
  BY ConsolidationAssumption DEF Typed, WorkTyped
<1>2. RowsAreSound'
  BY RowsKept
<1>3. RowsRemain /\ task' \in [Tasks -> Rows \cup {None}]
  BY <1>1 DEF RowsRemain, Typed, WorkTyped
<1>4. ASSUME NEW v \in Workers, work'[v] = work[v],
             v \in fresh' => v \in fresh /\ (work[v].task # t \/ SameCore(task[t], n))
      PROVE  AtWork(v)' /\ Knows(v)'
  <2>1. AtWork(v) /\ Knows(v)
    BY DEF WorkersKnow
  <2>2. ASSUME v \in fresh' PROVE SameCore(task[work[v].task], task'[work[v].task])
    <3>1. work[v].task \in Tasks
      BY <1>4, <2>1, <2>2 DEF AtWork
    <3>2. CASE work[v].task = t
      BY <1>1, <1>4, <2>2, <3>2
    <3>3. CASE work[v].task # t
      BY <1>1, <3>1, <3>3 DEF SameCore
    <3>. QED BY <3>2, <3>3
  <2>3. Quiet(v)
    BY <1>4, <2>2 DEF Quiet
  <2>. QED BY <1>3, <2>1, <2>3, OthersKnow
<1>. QED BY <1>2, <1>3, <1>4

\* A worker that is done has nothing to know.
LEMMA IdleKnows ==
  ASSUME NEW w \in Workers, work'[w] = Idle, w \notin fresh'
  PROVE  AtWork(w)' /\ Knows(w)'
<1>1. work'[w].pc = "idle" /\ work'[w].task = None
  BY IdleIsPlace
<1>. QED BY <1>1 DEF AtWork, Knows, ExecutorKnows, TrackerKnows, TopUpperKnows

LEMMA Ending ==
  ASSUME Typed, WorkersKnow, RowsAreSound, NEW w \in Workers, work[w].pc # "idle",
         NEW row, Ends(w, row),
         Leased(w) => row \in Rows /\ Legal(work[w].task, row),
         ~Leased(w) => UNCHANGED history,
         NetGrows, TopUpsGrow, unguarded' \in BOOLEAN
  PROVE  WorkTyped' /\ WorkersKnow' /\ RowsAreSound'
<1> DEFINE t == work[w].task
           n == Released(IF Leased(w) THEN row ELSE task[t], w)
<1>1. t \in Tasks /\ task[t] # None /\ task[t] \in Rows
  BY DEF WorkersKnow, AtWork, Typed, WorkTyped
<1>2. task' = [task EXCEPT ![t] = n]
  BY <1>1 DEF Ends, Typed, WorkTyped
<1>3. Legal(t, task[t]) \/ Leased(w)
  BY <1>1 DEF Legal, SameCore, history
<1>4. n \in Rows /\ Legal(t, n)
  BY <1>1, <1>3, ReleasedIsRow, ReleasedIsLegal
<1>5. /\ fresh' = fresh \ (IF Leased(w) THEN On(t) ELSE {w})
      /\ work' = [work EXCEPT ![w] = Idle]
  BY DEF Ends
<1>6. w \in On(t) /\ (Leased(w) \/ SameCore(task[t], n))
  BY <1>1, ReleasedIsRow DEF On
<1>7. work' \in [Workers -> Places] /\ fresh' \subseteq Workers /\ work'[w] = Idle /\ w \notin fresh'
  BY <1>5, <1>6, IdleIsPlace DEF Typed, WorkTyped
<1> HIDE DEF n
<1>8. ASSUME NEW v \in Workers, v # w
      PROVE  /\ work'[v] = work[v]
             /\ v \in fresh' => v \in fresh /\ (work[v].task # t \/ SameCore(task[t], n))
  BY <1>5, <1>6, <1>8 DEF On, Typed, WorkTyped
<1>9. /\ RowsAreSound' /\ task' \in [Tasks -> Rows \cup {None}]
      /\ \A v \in Workers \ {w} : AtWork(v)' /\ Knows(v)'
  BY <1>1, <1>2, <1>4, <1>8, Written
<1>10. AtWork(w)' /\ Knows(w)'
  BY <1>7, IdleKnows
<1>. QED BY <1>7, <1>9, <1>10 DEF WorkersKnow, WorkTyped

LEMMA Leaving ==
  ASSUME Typed, WorkersKnow, RowsAreSound, NEW w \in Workers, work[w].pc # "idle",
         Leaves(w), UNCHANGED history, NetGrows, TopUpsGrow
  PROVE  WorkTyped' /\ WorkersKnow' /\ RowsAreSound'
<1> DEFINE t == work[w].task
           n == Released(task[t], w)
<1>1. t \in Tasks /\ task[t] # None /\ task[t] \in Rows
  BY DEF WorkersKnow, AtWork, Typed, WorkTyped
<1>2. task' = [task EXCEPT ![t] = n]
  BY <1>1 DEF Leaves, Typed, WorkTyped
<1>3. unguarded' \in BOOLEAN /\ n \in Rows /\ SameCore(task[t], n)
  BY <1>1, ReleasedIsRow DEF history, Typed
<1>4. Legal(t, n)
  BY <1>1, <1>3 DEF Legal, history
<1>5. /\ fresh' = fresh \ {w}
      /\ work' = [work EXCEPT ![w] = Idle]
  BY DEF Leaves
<1>6. work' \in [Workers -> Places] /\ fresh' \subseteq Workers /\ work'[w] = Idle /\ w \notin fresh'
  BY <1>5, IdleIsPlace DEF Typed, WorkTyped
<1> HIDE DEF n
<1>7. ASSUME NEW v \in Workers, v # w
      PROVE  /\ work'[v] = work[v]
             /\ v \in fresh' => v \in fresh /\ (work[v].task # t \/ SameCore(task[t], n))
  BY <1>3, <1>5, <1>7 DEF Typed, WorkTyped
<1>8. /\ RowsAreSound' /\ task' \in [Tasks -> Rows \cup {None}]
      /\ \A v \in Workers \ {w} : AtWork(v)' /\ Knows(v)'
  BY <1>1, <1>2, <1>3, <1>4, <1>7, Written
<1>9. AtWork(w)' /\ Knows(w)'
  BY <1>6, IdleKnows
<1>. QED BY <1>6, <1>8, <1>9 DEF WorkersKnow, WorkTyped

LEMMA Claiming ==
  ASSUME Typed, WorkersKnow, RowsAreSound, NEW w \in Workers, NEW t \in Tasks, Claim(w, t),
         w \in Executors => task[t].status = "pending",
         w \in Trackers => Tracked(task[t].status),
         w \in TopUppers => task[t].status = "need_gas",
         UNCHANGED history, NetGrows, TopUpsGrow
  PROVE  WorkTyped' /\ WorkersKnow' /\ RowsAreSound'
<1> DEFINE n == [task[t] EXCEPT !.claim = InstanceOf[w]]
           new == [pc |-> "check", task |-> t, tx |-> task[t].tx, age |-> task[t].age, data |-> None]
<1>1. task[t] # None /\ task[t] \in Rows /\ InstanceOf[w] \in Instances
  BY ConsolidationAssumption DEF Claim, Typed, WorkTyped
<1>2. n \in Rows /\ SameCore(task[t], n) /\ n.tx = task[t].tx /\ n.status = task[t].status
  BY <1>1 DEF Rows, SameCore
<1>3. /\ task' = [task EXCEPT ![t] = n]
      /\ fresh' = fresh \cup {w}
      /\ work' = [work EXCEPT ![w] = new]
  BY <1>1 DEF Claim, Typed, WorkTyped
<1>4. new \in Places
  BY <1>1 DEF Places, Pcs, Ages, Rows
<1>5. unguarded' \in BOOLEAN /\ Legal(t, n)
  BY <1>1, <1>2 DEF history, Typed, Legal
<1>6. task'[t] = n /\ work'[w] = new /\ work' \in [Workers -> Places] /\ fresh' \subseteq Workers
  BY <1>3, <1>4 DEF Typed, WorkTyped
<1>7. new.pc = "check" /\ new.task = t /\ new.tx = task[t].tx
  OBVIOUS
<1> HIDE DEF n, new
<1>8. ASSUME NEW v \in Workers, v # w
      PROVE  /\ work'[v] = work[v]
             /\ v \in fresh' => v \in fresh /\ (work[v].task # t \/ SameCore(task[t], n))
  BY <1>2, <1>3, <1>8 DEF Typed, WorkTyped
<1>9. /\ RowsAreSound' /\ task' \in [Tasks -> Rows \cup {None}]
      /\ \A v \in Workers \ {w} : AtWork(v)' /\ Knows(v)'
  BY <1>1, <1>2, <1>3, <1>5, <1>8, Written
<1>10. AtWork(w)'
  BY <1>2, <1>6, <1>7, ConsolidationAssumption DEF AtWork
<1>11. w \in Executors => ExecutorKnows(w)'
  BY <1>2, <1>6, <1>7 DEF ExecutorKnows
<1>12. w \in Trackers => TrackerKnows(w)'
  <2>1. Tracked(task[t].status) => task[t].tx \in DOMAIN net'
    BY <1>1 DEF RowsAreSound, TxIsStored, NetGrows
  <2>. QED BY <2>1, <1>2, <1>6, <1>7 DEF TrackerKnows
<1>13. w \in TopUppers => TopUpperKnows(w)'
  BY <1>2, <1>6, <1>7 DEF TopUpperKnows
<1>. QED BY <1>6, <1>9, <1>10, <1>11, <1>12, <1>13 DEF WorkersKnow, Knows, WorkTyped

LEMMA GoesTo ==
  ASSUME Typed, NEW w \in Workers, NEW pc \in Pcs,
         NEW data \in Nat \cup TxIds \cup {None} \cup Receipts, Goes(w, pc, data)
  PROVE  /\ work'[w] \in Places
         /\ work'[w].pc = pc /\ work'[w].task = work[w].task /\ work'[w].tx = work[w].tx
         /\ work'[w].data = data
         /\ work' \in [Workers -> Places] /\ \A v \in Workers \ {w} : work'[v] = work[v]
<1>1. work[w] \in Places /\ work' = [work EXCEPT ![w] = [[work[w] EXCEPT !.pc = pc] EXCEPT !.data = data]]
  BY DEF Goes, Typed, WorkTyped
<1>2. PICK p, t, x, a, d : work[w] = [pc |-> p, task |-> t, tx |-> x, age |-> a, data |-> d]
  BY <1>1 DEF Places
<1> DEFINE new == [pc |-> pc, task |-> t, tx |-> x, age |-> a, data |-> data]
<1> DEFINE mid == [pc |-> pc, task |-> t, tx |-> x, age |-> a, data |-> d]
<1>3. [work[w] EXCEPT !.pc = pc] = mid
  BY <1>2
<1>4. [[work[w] EXCEPT !.pc = pc] EXCEPT !.data = data] = new
  <2>1. [mid EXCEPT !.data = data] = new
    OBVIOUS
  <2> HIDE DEF mid, new
  <2>. QED BY <1>3, <2>1, Zenon
<1>5. new \in Places
  BY <1>1, <1>2 DEF Places
<1>6. work' = [work EXCEPT ![w] = new]
  BY <1>1, <1>4
<1>7. work'[w] = new /\ work' \in [Workers -> Places] /\ \A v \in Workers \ {w} : work'[v] = work[v]
  BY <1>5, <1>6 DEF Typed, WorkTyped
<1>. QED BY <1>2, <1>5, <1>7

\* A worker goes on at its task; the rows stay.
LEMMA Going ==
  ASSUME Typed, WorkersKnow, RowsAreSound, NEW w \in Workers, work[w].pc # "idle",
         NEW pc \in Pcs \ {"idle"}, NEW data \in Nat \cup TxIds \cup {None} \cup Receipts,
         Goes(w, pc, data), UNCHANGED <<task, fresh, history>>, NetGrows, TopUpsGrow, Knows(w)'
  PROVE  WorkTyped' /\ WorkersKnow' /\ RowsAreSound'
<1>1. /\ work'[w].pc = pc /\ work'[w].task = work[w].task
      /\ work' \in [Workers -> Places] /\ \A v \in Workers \ {w} : work'[v] = work[v]
  BY GoesTo
<1>2. RowsAreSound' /\ RowsRemain
  BY RowsUntouched DEF RowsRemain
<1>3. AtWork(w)'
  BY <1>1 DEF WorkersKnow, AtWork
<1>4. ASSUME NEW v \in Workers \ {w} PROVE AtWork(v)' /\ Knows(v)'
  BY <1>1, <1>2, OthersKnow DEF WorkersKnow, Quiet, SameCore
<1>. QED BY <1>1, <1>2, <1>3, <1>4 DEF WorkersKnow, WorkTyped, Typed

LEMMA NetStays ==
  ASSUME net' = net
  PROVE  NetGrows /\ (NetTyped => NetTyped')
BY DEF NetGrows, NetTyped

LEMMA TopUpsStay ==
  ASSUME Typed, topups' = topups
  PROVE  TopUpsGrow
BY DEF TopUpsGrow, Typed

LEMMA NetSent ==
  ASSUME NetTyped, NEW id, net' = Sent(id)
  PROVE  NetGrows /\ NetTyped'
<1>1. CASE net' = net
  BY <1>1, NetStays
<1>2. CASE net[id] = "unsent" /\ net' = [net EXCEPT ![id] = "sent"]
  <2>1. DOMAIN net' = DOMAIN net /\ \A x \in DOMAIN net : net'[x] = IF x = id THEN "sent" ELSE net[x]
    BY <1>2 DEF NetTyped
  <2>2. NetGrows
    BY <1>2, <2>1 DEF NetGrows
  <2>3. net' \in [DOMAIN net' -> {"unsent", "sent"} \cup OnChain]
    BY <1>2, <2>1 DEF NetTyped
  <2>. QED BY <2>1, <2>2, <2>3 DEF NetTyped
<1>. QED BY <1>1, <1>2 DEF Sent

\* What is left when the tasks and the workers are settled.
LEMMA Whole ==
  ASSUME Typed, OneOpen, WorkTyped', WorkersKnow', RowsAreSound', NetTyped',
         UNCHANGED <<topups, retrying>>, streak' \in Nat, unguarded' \in BOOLEAN
  PROVE  ConsInv'
BY DEF ConsInv, Typed, OneOpen, Open, Undeleted

-------------------------------------------------------------------------------
(* The rows that updates write.                                            *)

LEMMA AtTask ==
  ASSUME Typed, WorkersKnow, NEW w \in Workers, work[w].pc # "idle"
  PROVE  /\ work[w].task \in Tasks /\ task[work[w].task] # None
         /\ task[work[w].task] \in Rows
         /\ work[w] \in Places /\ AtWork(w) /\ Knows(w)
BY DEF WorkersKnow, AtWork, Typed, WorkTyped

LEMMA TurnedIsRow ==
  ASSUME NEW t \in Tasks, task[t] \in Rows, NEW status \in Statuses
  PROVE  LET n == Turned(t, status) IN
         /\ n \in Rows
         /\ n.status = status /\ n.tx = task[t].tx /\ n.retry = task[t].retry /\ n.bump = task[t].bump
BY DEF Turned, Rows

LEMMA NewRowIsRow ==
  /\ NewRow \in Rows /\ NewRow.status = "pending" /\ NewRow.retry = 0
  /\ \A r \in 0 .. MaxRetries :
       LET n == [NewRow EXCEPT !.retry = r] IN n \in Rows /\ n.status = "pending" /\ n.retry = r
  /\ \A b \in 0 .. EvmMaxBumps :
       LET n == [NewRow EXCEPT !.bump = b] IN n \in Rows /\ n.status = "pending"
BY ConsolidationAssumption DEF NewRow, Rows, Statuses, ActiveStatuses

LEMMA RetriedIsLegal ==
  ASSUME Typed, WorkersKnow, NEW w \in Workers, work[w].pc # "idle",
         Active(work[w].task), UNCHANGED history
  PROVE  Retried(w) \in Rows /\ Legal(work[w].task, Retried(w))
<1> DEFINE t == work[w].task
<1>1. /\ t \in Tasks /\ task[t] \in Rows
      /\ task[t].retry \in 0 .. MaxRetries
  BY AtTask DEF Rows
<1>2. CASE task[t].retry < MaxRetries
  <2>1. Retried(w) = [NewRow EXCEPT !.retry = task[t].retry + 1]
    BY <1>2 DEF Retried
  <2>2. task[t].retry + 1 \in 0 .. MaxRetries
    BY <1>1, <1>2, ConsolidationAssumption
  <2>3. /\ Retried(w) \in Rows /\ Retried(w).status = "pending"
        /\ Retried(w).retry = task[t].retry + 1
    BY <2>1, <2>2, NewRowIsRow
  <2>. QED BY <2>3 DEF Legal, history
<1>3. CASE ~(task[t].retry < MaxRetries)
  <2>1. Retried(w) = Turned(t, "permanent_failed")
    BY <1>3 DEF Retried
  <2>2. Retried(w) \in Rows /\ Retried(w).status = "permanent_failed"
    BY <1>1, <2>1, TurnedIsRow DEF Statuses
  <2>. QED BY <2>2 DEF Legal, history
<1>. QED BY <1>2, <1>3

\* An update that gives an unsigned task back, sends it for gas, or gives it up.
LEMMA TurnedIsLegal ==
  ASSUME NEW t \in Tasks, task[t] \in Rows, Active(t), UNCHANGED history,
         NEW status \in {"pending", "need_gas", "permanent_failed"},
         Tracked(task[t].status) => status = "permanent_failed"
  PROVE  Turned(t, status) \in Rows /\ Legal(t, Turned(t, status))
<1>1. LET n == Turned(t, status) IN n \in Rows /\ n.status = status /\ n.retry = task[t].retry
  BY TurnedIsRow DEF Statuses, ActiveStatuses
<1>. QED BY <1>1 DEF Legal, history

\* An ending that leaves chain, top-ups and history alone.
LEMMA EndsWhole ==
  ASSUME ConsInv, NEW w \in Workers, work[w].pc # "idle",
         NEW row, Ends(w, row), Leased(w) => row \in Rows /\ Legal(work[w].task, row),
         UNCHANGED <<net, topups, retrying, history>>
  PROVE  ConsInv'
<1>1. NetGrows /\ NetTyped' /\ TopUpsGrow /\ unguarded' \in BOOLEAN /\ streak' \in Nat
  BY NetStays, TopUpsStay DEF ConsInv, Typed, history
<1>2. WorkTyped' /\ WorkersKnow' /\ RowsAreSound'
  BY <1>1, Ending DEF ConsInv
<1>. QED BY <1>1, <1>2, Whole DEF ConsInv

LEMMA LeavesWhole ==
  ASSUME ConsInv, NEW w \in Workers, work[w].pc # "idle", Leaves(w),
         NetGrows, NetTyped', UNCHANGED <<topups, retrying, history>>
  PROVE  ConsInv'
<1>1. TopUpsGrow /\ unguarded' \in BOOLEAN /\ streak' \in Nat
  BY TopUpsStay DEF ConsInv, Typed, history
<1>2. WorkTyped' /\ WorkersKnow' /\ RowsAreSound'
  BY <1>1, Leaving DEF ConsInv
<1>. QED BY <1>1, <1>2, Whole DEF ConsInv

LEMMA GoesWhole ==
  ASSUME ConsInv, NEW w \in Workers, work[w].pc # "idle",
         NEW pc \in Pcs \ {"idle"}, NEW data \in Nat \cup TxIds \cup {None} \cup Receipts,
         Goes(w, pc, data), UNCHANGED <<task, fresh, topups, retrying, history>>,
         NetGrows, NetTyped', Knows(w)'
  PROVE  ConsInv'
<1>1. TopUpsGrow /\ unguarded' \in BOOLEAN /\ streak' \in Nat
  BY TopUpsStay DEF ConsInv, Typed, history
<1>2. WorkTyped' /\ WorkersKnow' /\ RowsAreSound'
  BY <1>1, Going DEF ConsInv
<1>. QED BY <1>1, <1>2, Whole DEF ConsInv

LEMMA ClaimWhole ==
  ASSUME ConsInv, NEW w \in Workers, NEW t \in Tasks, Claim(w, t),
         w \in Executors => task[t].status = "pending",
         w \in Trackers => Tracked(task[t].status),
         w \in TopUppers => task[t].status = "need_gas",
         UNCHANGED <<net, topups, retrying, history>>
  PROVE  ConsInv'
<1>1. NetGrows /\ NetTyped' /\ TopUpsGrow /\ unguarded' \in BOOLEAN /\ streak' \in Nat
  BY NetStays, TopUpsStay DEF ConsInv, Typed, history
<1>2. WorkTyped' /\ WorkersKnow' /\ RowsAreSound'
  BY <1>1, Claiming DEF ConsInv
<1>. QED BY <1>1, <1>2, Whole DEF ConsInv

-------------------------------------------------------------------------------
(* Executors.                                                              *)

LEMMA ExecutorLease ==
  ASSUME Typed, WorkersKnow, NEW w \in Executors, work[w].pc # "idle", Leased(w)
  PROVE  LET t == work[w].task IN
         /\ t \in Tasks /\ task[t] \in Rows /\ Active(t)
         /\ task[t].status = IF work[w].pc \in {"check", "signed"} THEN "pending" ELSE "in_progress"
BY AtTask DEF Leased, Knows, ExecutorKnows, Active, ActiveStatuses, Workers

LEMMA ExecutorOnly ==
  ASSUME NEW w \in Executors
  PROVE  w \in Workers /\ w \notin Trackers /\ w \notin TopUppers
BY ConsolidationAssumption DEF Workers

LEMMA ExecutorKnowing ==
  ASSUME NEW w \in Executors, ExecutorKnows(w)'
  PROVE  Knows(w)'
BY ExecutorOnly DEF Knows

LEMMA NonceType ==
  ASSUME NetTyped
  PROVE  PendingNonce \in Nat /\ \A n \in Nat : NewTx(n) \in TxIds
<1>1. Cardinality(DOMAIN net) \in Nat
  BY FS_CardinalityType DEF NetTyped
<1> DEFINE S == 1 .. Cardinality(DOMAIN net)
           T == {n \in S : \A m \in 1 .. n : Known(m) # {}}
<1>2. IsFiniteSet(S)
  BY <1>1, FS_Interval
<1>3. Cardinality(T) \in Nat
  <2>1. IsFiniteSet(T)
    BY <1>2, FS_Subset
  <2>. QED BY <2>1, FS_CardinalityType
<1>4. PendingNonce \in Nat
  BY <1>3 DEF PendingNonce
<1>5. ASSUME NEW n \in Nat PROVE NewTx(n) \in TxIds
  <2> DEFINE U == {id \in DOMAIN net : id[1] = n}
  <2>1. IsFiniteSet(U)
    BY FS_Subset DEF NetTyped
  <2>2. Cardinality(U) \in Nat
    BY <2>1, FS_CardinalityType
  <2>. QED BY <2>2 DEF NewTx, TxIds
<1>. QED BY <1>4, <1>5

LEMMA StoredRow ==
  ASSUME NetTyped, NEW t \in Tasks, NEW id \in TxIds, NEW row \in Rows, Stored(t, id, row)
  PROVE  LET n == [row EXCEPT !.status = "in_progress", !.tx = id, !.age = "young"] IN
         /\ n \in Rows /\ n.status = "in_progress" /\ n.tx = id /\ n.retry = row.retry /\ n.bump = row.bump
         /\ task' = [task EXCEPT ![t] = n]
         /\ n.tx \in DOMAIN net' /\ NetGrows /\ NetTyped'
         /\ streak' = streak + 1 /\ unguarded' = unguarded
<1> DEFINE n == [row EXCEPT !.status = "in_progress", !.tx = id, !.age = "young"]
<1>1. n \in Rows /\ n.status = "in_progress" /\ n.tx = id /\ n.retry = row.retry /\ n.bump = row.bump
  BY DEF Rows, Statuses, ActiveStatuses
<1>2. /\ net' = [x \in DOMAIN net \cup {id} |-> IF x \in DOMAIN net THEN net[x] ELSE "unsent"]
      /\ DOMAIN net' = DOMAIN net \cup {id}
  BY DEF Stored
<1>3. NetGrows /\ id \in DOMAIN net'
  BY <1>2 DEF NetGrows
<1>4. NetTyped'
  <2>1. IsFiniteSet(DOMAIN net')
    BY <1>2, FS_AddElement DEF NetTyped
  <2>2. net' \in [DOMAIN net' -> {"unsent", "sent"} \cup OnChain]
    BY <1>2 DEF NetTyped
  <2>. QED BY <1>2, <2>1, <2>2 DEF NetTyped
<1>. QED BY <1>1, <1>3, <1>4 DEF Stored

LEMMA PrecheckWhole ==
  ASSUME ConsInv, NEW w \in Executors, Precheck(w)
  PROVE  ConsInv'
<1> DEFINE t == work[w].task
<1>1. /\ w \in Workers /\ work[w].pc = "check" /\ work[w].pc # "idle"
      /\ UNCHANGED <<net, topups, retrying, history>>
  BY ExecutorOnly DEF Precheck, chainVars
<1>2. Leased(w) => t \in Tasks /\ task[t] \in Rows /\ Active(t) /\ task[t].status = "pending"
  BY <1>1, ExecutorLease DEF ConsInv
<1>3. CASE \E row : Ends(w, row) /\ (row = Turned(t, "pending") \/ row = Turned(t, "need_gas")
                                       \/ row = Turned(t, "permanent_failed"))
  <2>1. PICK row : Ends(w, row) /\ (row = Turned(t, "pending") \/ row = Turned(t, "need_gas")
                                       \/ row = Turned(t, "permanent_failed"))
    BY <1>3
  <2>2. Leased(w) => row \in Rows /\ Legal(t, row)
    BY <1>1, <1>2, <2>1, TurnedIsLegal DEF Tracked
  <2>. QED BY <1>1, <2>1, <2>2, EndsWhole
<1>4. CASE Ends(w, [Turned(t, "pending") EXCEPT !.retry = task[t].retry + 1]) /\ task[t].retry < MaxRetries
  <2> DEFINE row == [Turned(t, "pending") EXCEPT !.retry = task[t].retry + 1]
  <2>1. Leased(w) => row \in Rows /\ Legal(t, row)
    <3> SUFFICES ASSUME Leased(w) PROVE row \in Rows /\ Legal(t, row)
      OBVIOUS
    <3>1. Turned(t, "pending") \in Rows /\ Turned(t, "pending").status = "pending"
      BY <1>2, TurnedIsRow DEF Statuses, ActiveStatuses
    <3>2. task[t].retry + 1 \in 0 .. MaxRetries
      BY <1>2, <1>4, ConsolidationAssumption DEF Rows
    <3>3. row \in Rows /\ row.status = "pending" /\ row.retry = task[t].retry + 1
      BY <3>1, <3>2 DEF Rows
    <3>. QED BY <1>1, <1>2, <3>3 DEF Legal, history
  <2> HIDE DEF row
  <2>. QED BY <1>1, <1>4, <2>1, EndsWhole DEF row
<1>5. CASE Goes(w, "signed", PendingNonce) /\ UNCHANGED <<task, fresh>>
  <2>1. NetGrows /\ NetTyped' /\ NetTyped
    BY <1>1, NetStays DEF ConsInv, Typed
  <2>2. PendingNonce \in Nat
    BY <2>1, NonceType
  <2>3. work'[w].pc = "signed" /\ work'[w].task = t /\ work'[w].data \in Nat
    BY <1>1, <1>5, <2>2, GoesTo DEF ConsInv, Pcs
  <2>4. ExecutorKnows(w)'
    <3>1. ExecutorKnows(w)
      BY <1>1 DEF ConsInv, WorkersKnow, Knows
    <3>. QED BY <1>1, <1>5, <2>3, <3>1 DEF ExecutorKnows
  <2>5. Knows(w)'
    BY <2>4, ExecutorKnowing
  <2>. QED BY <1>1, <1>5, <2>1, <2>2, <2>5, GoesWhole DEF Pcs
<1>. QED BY <1>3, <1>4, <1>5 DEF Precheck, FailOrRetry

LEMMA MarkInProgressWhole ==
  ASSUME ConsInv, NEW w \in Executors, MarkInProgress(w)
  PROVE  ConsInv'
<1> DEFINE t == work[w].task
           id == NewTx(work[w].data)
<1>1. /\ w \in Workers /\ work[w].pc = "signed" /\ work[w].pc # "idle"
      /\ UNCHANGED <<topups, retrying>>
      /\ Typed /\ NetTyped /\ WorkersKnow /\ RowsAreSound /\ TopUpsGrow
  BY ExecutorOnly, TopUpsStay DEF MarkInProgress, ConsInv, Typed
<1>2. t \in Tasks /\ task[t] \in Rows /\ task[t] # None /\ id \in TxIds
  <2>1. work[w].data \in Nat
    BY <1>1 DEF WorkersKnow, Knows, ExecutorKnows
  <2>. QED BY <1>1, <2>1, AtTask, NonceType
<1>3. CASE ~Leased(w)
  BY <1>1, <1>3, NetStays, LeavesWhole DEF MarkInProgress, chainVars
<1>4. CASE Leased(w)
  <2>1. Active(t) /\ task[t].status = "pending"
    BY <1>1, <1>4, ExecutorLease
  <2>2. ASSUME NEW row \in Rows, SameCore(task[t], row), Stored(t, id, row)
        PROVE  \E n \in Rows : /\ task' = [task EXCEPT ![t] = n] /\ n.status = "in_progress"
                               /\ Legal(t, n) /\ NetGrows /\ NetTyped'
                               /\ streak' \in Nat /\ unguarded' \in BOOLEAN
    <3> DEFINE n == [row EXCEPT !.status = "in_progress", !.tx = id, !.age = "young"]
    <3>1. /\ n \in Rows /\ n.status = "in_progress" /\ n.tx = id /\ n.retry = row.retry /\ n.bump = row.bump
          /\ task' = [task EXCEPT ![t] = n]
          /\ n.tx \in DOMAIN net' /\ NetGrows /\ NetTyped'
          /\ streak' = streak + 1 /\ unguarded' = unguarded
      BY <1>1, <1>2, <2>2, StoredRow
    <3> HIDE DEF n
    <3>2. Legal(t, n)
      BY <2>1, <2>2, <3>1 DEF Legal, SameCore
    <3>3. streak' \in Nat /\ unguarded' \in BOOLEAN
      BY <1>1, <3>1 DEF Typed
    <3>. QED BY <3>1, <3>2, <3>3
  <2>3. CASE Stored(t, id, task[t]) /\ fresh' = fresh \ (On(t) \ {w}) /\ Goes(w, "broadcast", id)
    <3>1. PICK n \in Rows : /\ task' = [task EXCEPT ![t] = n] /\ n.status = "in_progress"
                            /\ Legal(t, n) /\ NetGrows /\ NetTyped'
                            /\ streak' \in Nat /\ unguarded' \in BOOLEAN
      BY <1>2, <2>2, <2>3 DEF SameCore
    <3>2. /\ work'[w].pc = "broadcast" /\ work'[w].task = t
          /\ work' \in [Workers -> Places] /\ \A v \in Workers \ {w} : work'[v] = work[v]
      BY <1>1, <1>2, <2>3, GoesTo DEF Pcs
    <3>3. ASSUME NEW v \in Workers \ {w}
          PROVE  /\ work'[v] = work[v]
                 /\ v \in fresh' => v \in fresh /\ (work[v].task # t \/ SameCore(task[t], n))
      BY <2>3, <3>2 DEF On
    <3>4. /\ RowsAreSound' /\ task' \in [Tasks -> Rows \cup {None}]
          /\ \A v \in Workers \ {w} : AtWork(v)' /\ Knows(v)'
      BY <1>1, <1>2, <3>1, <3>3, Written
    <3>5. task'[t] = n /\ n # None
      BY <1>1, <1>2, <3>1, ConsolidationAssumption DEF Typed, WorkTyped
    <3>6. AtWork(w)' /\ ExecutorKnows(w)'
      BY <1>2, <3>1, <3>2, <3>5 DEF AtWork, ExecutorKnows
    <3>7. Knows(w)'
      BY <3>6, ExecutorKnowing
    <3>8. WorkTyped' /\ WorkersKnow'
      BY <1>1, <2>3, <3>2, <3>4, <3>6, <3>7 DEF Typed, WorkTyped, WorkersKnow
    <3>. QED BY <1>1, <3>1, <3>4, <3>8, Whole DEF ConsInv
  <2>4. CASE /\ Stored(t, id, Released(task[t], w)) /\ fresh' = fresh \ On(t)
             /\ work' = [work EXCEPT ![w] = Idle]
    <3>1. PICK n \in Rows : /\ task' = [task EXCEPT ![t] = n] /\ n.status = "in_progress"
                            /\ Legal(t, n) /\ NetGrows /\ NetTyped'
                            /\ streak' \in Nat /\ unguarded' \in BOOLEAN
      BY <1>1, <1>2, <2>2, <2>4, ReleasedIsRow
    <3>2. /\ work'[w] = Idle /\ w \notin fresh'
          /\ work' \in [Workers -> Places] /\ \A v \in Workers \ {w} : work'[v] = work[v]
      BY <1>1, <2>4, IdleIsPlace DEF On, Typed, WorkTyped
    <3>3. ASSUME NEW v \in Workers \ {w}
          PROVE  /\ work'[v] = work[v]
                 /\ v \in fresh' => v \in fresh /\ (work[v].task # t \/ SameCore(task[t], n))
      BY <2>4, <3>2 DEF On
    <3>4. /\ RowsAreSound' /\ task' \in [Tasks -> Rows \cup {None}]
          /\ \A v \in Workers \ {w} : AtWork(v)' /\ Knows(v)'
      BY <1>1, <1>2, <3>1, <3>3, Written
    <3>5. AtWork(w)' /\ Knows(w)'
      BY <1>1, <3>2, IdleKnows
    <3>6. WorkTyped' /\ WorkersKnow'
      BY <1>1, <2>4, <3>2, <3>4, <3>5 DEF Typed, WorkTyped, WorkersKnow
    <3>. QED BY <1>1, <3>1, <3>4, <3>6, Whole DEF ConsInv
  <2>. QED BY <1>4, <2>3, <2>4 DEF MarkInProgress
<1>. QED BY <1>3, <1>4

LEMMA BroadcastWhole ==
  ASSUME ConsInv, NEW w \in Executors, Broadcast(w)
  PROVE  ConsInv'
<1>1. /\ w \in Workers /\ work[w].pc = "broadcast" /\ work[w].pc # "idle"
      /\ UNCHANGED <<topups, retrying, history>> /\ NetTyped
  BY ExecutorOnly DEF Broadcast, ConsInv, Typed
<1>2. NetGrows /\ NetTyped'
  BY <1>1, NetStays, NetSent DEF Broadcast
<1>3. CASE Leaves(w)
  BY <1>1, <1>2, <1>3, LeavesWhole
<1>4. CASE Goes(w, "retry", None) /\ UNCHANGED <<task, fresh>>
  <2>1. work'[w].pc = "retry" /\ work'[w].task = work[w].task
    BY <1>1, <1>4, GoesTo DEF ConsInv, Pcs
  <2>2. ExecutorKnows(w)
    BY <1>1 DEF ConsInv, WorkersKnow, Knows
  <2>3. ExecutorKnows(w)'
    BY <1>1, <1>4, <2>1, <2>2 DEF ExecutorKnows
  <2>4. Knows(w)'
    BY <2>3, ExecutorKnowing
  <2>. QED BY <1>1, <1>2, <1>4, <2>4, GoesWhole DEF Pcs
<1>. QED BY <1>3, <1>4 DEF Broadcast

LEMMA ExecuteWhole ==
  ASSUME ConsInv, NEW w \in Executors, Execute(w)
  PROVE  ConsInv'
<1>1. w \in Workers /\ w \notin Trackers /\ w \notin TopUppers
  BY ExecutorOnly
<1>2. CASE ExecutorClaims(w)
  <2>1. PICK t \in Tasks : task[t].status = "pending" /\ Claim(w, t)
    BY <1>2 DEF ExecutorClaims
  <2>. QED BY <1>1, <1>2, <2>1, ClaimWhole DEF ExecutorClaims, chainVars
<1>3. CASE RetryInProgress(w)
  <2>1. work[w].pc = "retry" /\ Ends(w, Retried(w)) /\ UNCHANGED <<net, topups, retrying, history>>
    BY <1>3 DEF RetryInProgress, chainVars
  <2>2. Leased(w) => Retried(w) \in Rows /\ Legal(work[w].task, Retried(w))
    BY <1>1, <2>1, ExecutorLease, RetriedIsLegal DEF ConsInv
  <2>. QED BY <1>1, <2>1, <2>2, EndsWhole
<1>. QED BY <1>2, <1>3, PrecheckWhole, MarkInProgressWhole, BroadcastWhole DEF Execute

-------------------------------------------------------------------------------
(* Trackers.                                                               *)

LEMMA TrackerOnly ==
  ASSUME NEW w \in Trackers
  PROVE  w \in Workers /\ w \notin Executors /\ w \notin TopUppers
BY ConsolidationAssumption DEF Workers

LEMMA TrackerKnowing ==
  ASSUME NEW w \in Trackers, TrackerKnows(w)'
  PROVE  Knows(w)'
BY TrackerOnly DEF Knows

LEMMA TrackerHas ==
  ASSUME Typed, WorkersKnow, NEW w \in Trackers, work[w].pc # "idle"
  PROVE  /\ work[w].tx \in DOMAIN net /\ work[w].tx \in TxIds
         /\ TrackerKnows(w)
BY TrackerOnly DEF WorkersKnow, Knows, TrackerKnows, Typed, NetTyped

LEMMA TrackerLease ==
  ASSUME Typed, WorkersKnow, NEW w \in Trackers, work[w].pc # "idle", Leased(w)
  PROVE  LET t == work[w].task IN
         /\ t \in Tasks /\ task[t] \in Rows /\ Active(t) /\ Tracked(task[t].status)
         /\ task[t].tx = work[w].tx
         /\ work[w].pc = "bump" => task[t].bump < EvmMaxBumps
<1>1. TrackerKnows(w) /\ w \in fresh
  BY TrackerHas DEF Leased
<1>2. /\ work[w].task \in Tasks /\ task[work[w].task] # None
      /\ task[work[w].task] \in Rows
  BY TrackerOnly, AtTask
<1>. QED BY <1>1, <1>2 DEF TrackerKnows, Active, ActiveStatuses, Tracked

LEMMA EndsKeeps ==
  ASSUME ConsInv, NEW w \in Workers, work[w].pc # "idle", NEW row, Ends(w, row),
         Leased(w) => row \in Rows /\ Legal(work[w].task, row),
         ~Leased(w) => UNCHANGED history,
         NetGrows, NetTyped', streak' \in Nat, unguarded' \in BOOLEAN,
         UNCHANGED <<topups, retrying>>
  PROVE  ConsInv'
<1>1. TopUpsGrow
  BY TopUpsStay DEF ConsInv
<1>2. WorkTyped' /\ WorkersKnow' /\ RowsAreSound'
  BY <1>1, Ending DEF ConsInv
<1>. QED BY <1>2, Whole DEF ConsInv

\* A tracker goes on, with another receipt or none.
LEMMA TrackerGoes ==
  ASSUME ConsInv, NEW w \in Trackers, work[w].pc # "idle", NEW pc \in Pcs \ {"idle"},
         NEW data \in Nat \cup TxIds \cup {None} \cup Receipts,
         Goes(w, pc, data), UNCHANGED <<task, fresh, topups, retrying, history>>,
         NetGrows, NetTyped',
         pc = "track" /\ data = "final" => net'[work[w].tx] = "final",
         pc = "bump" => task[work[w].task].bump < EvmMaxBumps
  PROVE  ConsInv'
<1>1. w \in Workers /\ Typed /\ WorkersKnow
  BY TrackerOnly DEF ConsInv
<1>2. /\ work'[w].pc = pc /\ work'[w].task = work[w].task /\ work'[w].tx = work[w].tx
      /\ work'[w].data = data
  BY <1>1, GoesTo
<1>3. TrackerKnows(w) /\ work[w].tx \in DOMAIN net'
  BY <1>1, TrackerHas DEF NetGrows
<1>4. TrackerKnows(w)'
  BY <1>2, <1>3 DEF TrackerKnows
<1>5. Knows(w)'
  BY <1>4, TrackerKnowing
<1>. QED BY <1>1, <1>5, GoesWhole

LEMMA LookWhole ==
  ASSUME ConsInv, NEW w \in Trackers, Look(w)
  PROVE  ConsInv'
<1>1. /\ work[w].pc = "check" /\ UNCHANGED <<task, fresh, net, topups, retrying, history>>
      /\ Typed /\ WorkersKnow /\ NetTyped /\ NetGrows /\ NetTyped'
  BY NetStays DEF Look, chainVars, ConsInv, Typed
<1>2. PICK data \in Receipts : Goes(w, "track", data) /\ (data = "final" => net[work[w].tx] = "final")
  BY DEF Look, Receipts, OnChain
<1>. QED BY <1>1, <1>2, TrackerGoes DEF Pcs

LEMMA TrackWhole ==
  ASSUME ConsInv, NEW w \in Trackers, Track(w)
  PROVE  ConsInv'
<1> DEFINE t == work[w].task
<1>1. /\ w \in Workers /\ work[w].pc = "track" /\ work[w].pc # "idle"
      /\ UNCHANGED <<net, topups, retrying, unguarded>>
      /\ Typed /\ WorkersKnow /\ NetGrows /\ NetTyped'
  BY TrackerOnly, NetStays DEF Track, chainVars, ConsInv, Typed
<1>2. Leased(w) => /\ t \in Tasks /\ task[t] \in Rows /\ Active(t) /\ Tracked(task[t].status)
                   /\ task[t].tx = work[w].tx
  BY <1>1, TrackerLease
<1>3. unguarded' \in BOOLEAN /\ streak \in Nat
  BY <1>1 DEF Typed
<1>4. CASE work[w].data = "final" /\ MarkConfirmed(w)
  <2>1. work[w].tx \in DOMAIN net' /\ net'[work[w].tx] = "final"
    BY <1>1, <1>4, TrackerHas DEF TrackerKnows
  <2>2. Leased(w) => Turned(t, "confirmed") \in Rows /\ Legal(t, Turned(t, "confirmed"))
    <3> SUFFICES ASSUME Leased(w) PROVE Turned(t, "confirmed") \in Rows /\ Legal(t, Turned(t, "confirmed"))
      OBVIOUS
    <3>1. LET n == Turned(t, "confirmed") IN n \in Rows /\ n.status = "confirmed" /\ n.tx = work[w].tx
      BY <1>2, TurnedIsRow DEF Statuses
    <3>. QED BY <1>1, <1>2, <1>4, <2>1, <3>1 DEF Legal, MarkConfirmed
  <2>3. streak' \in Nat /\ (~Leased(w) => UNCHANGED history)
    BY <1>1, <1>3, <1>4 DEF MarkConfirmed, history
  <2>. QED BY <1>1, <1>3, <1>4, <2>2, <2>3, EndsKeeps DEF MarkConfirmed
<1>5. CASE Leaves(w) /\ UNCHANGED streak
  BY <1>1, <1>5, LeavesWhole DEF history
<1>6. CASE Ends(w, Retried(w)) /\ UNCHANGED streak
  <2>1. Leased(w) => Retried(w) \in Rows /\ Legal(t, Retried(w))
    BY <1>1, <1>2, <1>6, RetriedIsLegal DEF history
  <2>. QED BY <1>1, <1>6, <2>1, EndsWhole DEF history
<1>7. CASE /\ UNCHANGED <<task, fresh, streak>>
           /\ \E pc \in {"bump", "resend"} :
                Goes(w, pc, None) /\ (pc = "bump" => task[t].bump < EvmMaxBumps)
  <2>1. PICK pc \in {"bump", "resend"} :
               Goes(w, pc, None) /\ (pc = "bump" => task[t].bump < EvmMaxBumps)
    BY <1>7
  <2>. QED BY <1>1, <1>7, <2>1, TrackerGoes DEF history, Pcs
<1>. QED BY <1>4, <1>5, <1>6, <1>7 DEF Track, Confirmed, MayBump

\* A tracker that has written the row and goes on without its version.
LEMMA TrackerWrites ==
  ASSUME ConsInv, NEW w \in Trackers, work[w].pc # "idle", NEW pc \in {"resend", "send"},
         NEW data \in TxIds \cup {None}, NEW n \in Rows,
         task' = [task EXCEPT ![work[w].task] = n], fresh' = fresh \ On(work[w].task),
         Goes(w, pc, data), Legal(work[w].task, n),
         NetGrows, NetTyped', streak' \in Nat, unguarded' \in BOOLEAN,
         UNCHANGED <<topups, retrying>>
  PROVE  ConsInv'
<1> DEFINE t == work[w].task
<1>1. /\ w \in Workers /\ Typed /\ WorkersKnow /\ RowsAreSound /\ TopUpsGrow
      /\ t \in Tasks /\ task[t] # None
  BY TrackerOnly, TopUpsStay, AtTask DEF ConsInv
<1>2. /\ work'[w].pc = pc /\ work'[w].task = t /\ work'[w].tx = work[w].tx
      /\ work' \in [Workers -> Places] /\ \A v \in Workers \ {w} : work'[v] = work[v]
  BY <1>1, GoesTo DEF Pcs
<1>3. /\ RowsAreSound' /\ task' \in [Tasks -> Rows \cup {None}]
      /\ \A v \in Workers \ {w} : AtWork(v)' /\ Knows(v)'
  <2>1. ASSUME NEW v \in Workers \ {w}
        PROVE  /\ work'[v] = work[v]
               /\ v \in fresh' => v \in fresh /\ (work[v].task # t \/ SameCore(task[t], n))
    BY <1>2 DEF On
  <2>. QED BY <1>1, <2>1, Written
<1>4. task'[t] = n /\ n # None /\ w \notin fresh'
  BY <1>1, ConsolidationAssumption DEF Typed, WorkTyped, On
<1>5. work[w].tx \in DOMAIN net'
  BY <1>1, TrackerHas DEF NetGrows
<1>6. AtWork(w)' /\ TrackerKnows(w)'
  BY <1>1, <1>2, <1>4, <1>5 DEF AtWork, TrackerKnows
<1>7. Knows(w)'
  BY <1>6, TrackerKnowing
<1>8. WorkTyped' /\ WorkersKnow'
  BY <1>1, <1>2, <1>3, <1>6, <1>7 DEF Typed, WorkTyped, WorkersKnow
<1>. QED BY <1>1, <1>3, <1>8, Whole DEF ConsInv

LEMMA BumpGasWhole ==
  ASSUME ConsInv, NEW w \in Trackers, BumpGas(w)
  PROVE  ConsInv'
<1> DEFINE t == work[w].task
           id == NewTx(work[w].tx[1])
<1>1. /\ work[w].pc = "bump" /\ work[w].pc # "idle" /\ UNCHANGED <<topups, retrying>>
      /\ Typed /\ WorkersKnow /\ NetTyped /\ streak \in Nat /\ unguarded \in BOOLEAN
  BY DEF BumpGas, ConsInv, Typed
<1>2. Leased(w) => /\ t \in Tasks /\ task[t] \in Rows /\ Active(t) /\ Tracked(task[t].status)
                   /\ task[t].tx = work[w].tx /\ task[t].bump < EvmMaxBumps
  BY <1>1, TrackerLease
<1>3. id \in TxIds
  BY <1>1, TrackerHas, NonceType DEF TxIds
<1>4. CASE Goes(w, "resend", None) /\ UNCHANGED <<task, fresh, net, history>>
  BY <1>1, <1>4, NetStays, TrackerGoes DEF Pcs
<1>5. CASE /\ Leased(w) /\ Mark(w, Turned(t, "in_progress"))
           /\ Goes(w, "resend", None) /\ UNCHANGED <<net, history>>
  <2> DEFINE n == Turned(t, "in_progress")
  <2>1. /\ n \in Rows /\ n.status = "in_progress" /\ n.tx = task[t].tx
        /\ n.retry = task[t].retry /\ n.bump = task[t].bump
    BY <1>2, <1>5, TurnedIsRow DEF Statuses, ActiveStatuses
  <2>2. task' = [task EXCEPT ![t] = n] /\ fresh' = fresh \ On(t)
    BY <1>5 DEF Mark
  <2>3. Legal(t, n) /\ streak' \in Nat /\ unguarded' \in BOOLEAN
    BY <1>1, <1>2, <1>5, <2>1 DEF Legal, history, Tracked
  <2> HIDE DEF n
  <2>. QED BY <1>1, <1>5, <2>1, <2>2, <2>3, NetStays, TrackerWrites
<1>6. CASE /\ Leased(w) /\ Stored(t, id, BumpedRow(w)) /\ fresh' = fresh \ On(t)
           /\ Goes(w, "send", id)
  <2> DEFINE row == BumpedRow(w)
             n == [row EXCEPT !.status = "in_progress", !.tx = id, !.age = "young"]
  <2>1. row \in Rows /\ row.bump = task[t].bump + 1 /\ row.retry = task[t].retry
    BY <1>2, <1>6, ConsolidationAssumption DEF BumpedRow, Rows
  <2> HIDE DEF row
  <2>2. /\ n \in Rows /\ n.status = "in_progress" /\ n.tx = id /\ n.retry = row.retry /\ n.bump = row.bump
        /\ task' = [task EXCEPT ![t] = n]
        /\ n.tx \in DOMAIN net' /\ NetGrows /\ NetTyped'
        /\ streak' = streak + 1 /\ unguarded' = unguarded
    BY <1>1, <1>2, <1>3, <1>6, <2>1, StoredRow DEF row
  <2> HIDE DEF n
  <2>3. Legal(t, n) /\ streak' \in Nat /\ unguarded' \in BOOLEAN
    BY <1>1, <1>2, <1>6, <2>1, <2>2 DEF Legal
  <2>. QED BY <1>1, <1>3, <1>6, <2>2, <2>3, TrackerWrites
<1>. QED BY <1>4, <1>5, <1>6 DEF BumpGas, Mark, chainVars

LEMMA ResendWhole ==
  ASSUME ConsInv, NEW w \in Trackers, Resend(w)
  PROVE  ConsInv'
<1> DEFINE t == work[w].task
<1>1. /\ w \in Workers /\ work[w].pc = "resend" /\ work[w].pc # "idle"
      /\ UNCHANGED <<topups, retrying, history>>
      /\ Typed /\ WorkersKnow /\ NetTyped /\ streak' \in Nat /\ unguarded' \in BOOLEAN
  BY TrackerOnly DEF Resend, ConsInv, Typed, history
<1>2. NetGrows /\ NetTyped'
  BY <1>1, NetStays, NetSent DEF Resend
<1>3. CASE Leaves(w)
  BY <1>1, <1>2, <1>3, LeavesWhole
<1>4. CASE Ends(w, Turned(t, "timeout"))
  <2>1. Leased(w) => Turned(t, "timeout") \in Rows /\ Legal(t, Turned(t, "timeout"))
    <3> SUFFICES ASSUME Leased(w) PROVE Turned(t, "timeout") \in Rows /\ Legal(t, Turned(t, "timeout"))
      OBVIOUS
    <3>1. t \in Tasks /\ task[t] \in Rows /\ Active(t) /\ Tracked(task[t].status)
      BY <1>1, TrackerLease
    <3>2. LET n == Turned(t, "timeout") IN
          /\ n \in Rows /\ n.status = "timeout" /\ n.tx = task[t].tx
          /\ n.retry = task[t].retry /\ n.bump = task[t].bump
      BY <3>1, TurnedIsRow DEF Statuses, ActiveStatuses
    <3>. QED BY <1>1, <3>1, <3>2 DEF Legal, Tracked, history
  <2>. QED BY <1>1, <1>2, <1>4, <2>1, EndsKeeps
<1>. QED BY <1>3, <1>4 DEF Resend

LEMMA TracksWhole ==
  ASSUME ConsInv, NEW w \in Trackers, Tracks(w)
  PROVE  ConsInv'
<1>1. w \in Workers /\ w \notin Executors /\ w \notin TopUppers
  BY TrackerOnly
<1>2. CASE TrackerClaims(w)
  <2>1. PICK t \in Tasks : Tracked(task[t].status) /\ Claim(w, t)
    BY <1>2 DEF TrackerClaims
  <2>. QED BY <1>1, <1>2, <2>1, ClaimWhole DEF TrackerClaims, chainVars
<1>3. CASE SendBump(w)
  <2>1. /\ work[w].pc # "idle" /\ Goes(w, "resend", None)
        /\ UNCHANGED <<task, fresh, topups, retrying, history>> /\ NetTyped
    BY <1>3 DEF SendBump, ConsInv, Typed
  <2>2. NetGrows /\ NetTyped'
    BY <1>3, <2>1, NetStays, NetSent DEF SendBump
  <2>. QED BY <2>1, <2>2, TrackerGoes DEF Pcs
<1>. QED BY <1>2, <1>3, LookWhole, TrackWhole, BumpGasWhole, ResendWhole DEF Tracks

-------------------------------------------------------------------------------
(* Top-ups: at most one record of a task is open.                          *)

IsOpen(record) == record.status \in {"pending", "sent"}

Tidy(f) ==
  /\ f \in [Tasks -> Seq(TopUps)]
  /\ \A t \in Tasks : \A i, j \in DOMAIN f[t] : IsOpen(f[t][i]) /\ IsOpen(f[t][j]) => i = j

LEMMA TopUpsTidy ==
  ASSUME Typed, OneOpen
  PROVE  Tidy(topups)
BY DEF Typed, OneOpen, Open, Undeleted, Tidy, IsOpen

LEMMA TidyKeeps ==
  ASSUME Tidy(topups')
  PROVE  OneOpen' /\ topups' \in [Tasks -> Seq(TopUps)]
BY DEF OneOpen, Open, Undeleted, Tidy, IsOpen

LEMMA OpenIs ==
  ASSUME Typed, NEW t \in Tasks
  PROVE  Open(t) = {i \in DOMAIN topups[t] : IsOpen(topups[t][i])}
BY DEF Open, Undeleted, IsOpen

SetAt(f, t, i, rec) == [f EXCEPT ![t] = [f[t] EXCEPT ![i] = rec]]

LEMMA TidyUpdate ==
  ASSUME NEW f, Tidy(f), NEW t \in Tasks, NEW i \in DOMAIN f[t], NEW rec \in TopUps,
         IsOpen(rec) => IsOpen(f[t][i])
  PROVE  LET g == SetAt(f, t, i, rec) IN
         /\ Tidy(g) /\ DOMAIN g[t] = DOMAIN f[t] /\ g[t][i] = rec
         /\ \A s \in Tasks : Len(g[s]) = Len(f[s])
<1> DEFINE g == SetAt(f, t, i, rec)
<1>1. f \in [Tasks -> Seq(TopUps)] /\ f[t] \in Seq(TopUps)
  BY DEF Tidy
<1> DEFINE h == [f[t] EXCEPT ![i] = rec]
<1>2. /\ h \in Seq(TopUps) /\ Len(h) = Len(f[t]) /\ DOMAIN h = DOMAIN f[t]
      /\ \A j \in DOMAIN f[t] : h[j] = IF j = i THEN rec ELSE f[t][j]
  BY <1>1
<1>3. g \in [Tasks -> Seq(TopUps)] /\ g[t] = h /\ \A s \in Tasks \ {t} : g[s] = f[s]
  BY <1>1, <1>2 DEF SetAt
<1> HIDE DEF h, g
<1>4. ASSUME NEW s \in Tasks, NEW j \in DOMAIN g[s], NEW k \in DOMAIN g[s],
             IsOpen(g[s][j]), IsOpen(g[s][k])
      PROVE  j = k
  <2>1. CASE s # t
    BY <1>3, <1>4, <2>1 DEF Tidy
  <2>2. CASE s = t
    <3>1. IsOpen(f[t][j]) /\ IsOpen(f[t][k]) /\ j \in DOMAIN f[t] /\ k \in DOMAIN f[t]
      BY <1>2, <1>3, <1>4, <2>2
    <3>. QED BY <3>1 DEF Tidy
  <2>. QED BY <2>1, <2>2
<1>5. \A s \in Tasks : Len(g[s]) = Len(f[s])
  BY <1>2, <1>3
<1>6. DOMAIN g[t] = DOMAIN f[t] /\ g[t][i] = rec
  BY <1>2, <1>3
<1>7. Tidy(g)
  BY <1>3, <1>4 DEF Tidy
<1>. QED BY <1>5, <1>6, <1>7 DEF g

LEMMA TopUpIs ==
  ASSUME NEW r \in TopUps
  PROVE  /\ r = [status |-> r.status, net |-> r.net]
         /\ \A s \in {"pending", "sent", "confirmed", "failed", "deleted"} : [r EXCEPT !.status = s] \in TopUps /\ [r EXCEPT !.status = s].status = s
         /\ \A n \in {"unsent", "sent", "ok", "reverted"} : [r EXCEPT !.net = n] \in TopUps /\ [r EXCEPT !.net = n].status = r.status
BY DEF TopUps

\* Record closes what is open and opens nothing.
LEMMA RecordTidy ==
  ASSUME Typed, OneOpen, NEW t \in Tasks, NEW i \in DOMAIN topups[t],
         NEW status \in {"sent", "confirmed", "failed"}
  PROVE  LET g == Record(t, i, status) IN
         /\ Tidy(g) /\ DOMAIN g[t] = DOMAIN topups[t]
         /\ \A s \in Tasks : Len(g[s]) = Len(topups[s])
<1> DEFINE old == topups[t][i]
           rec == [old EXCEPT !.status = IF old.status \in {"pending", "sent"} THEN status ELSE old.status]
           g == Record(t, i, status)
<1>1. topups[t] \in Seq(TopUps) /\ old \in TopUps
  BY DEF Typed
<1>2. old.status \in {"pending", "sent", "confirmed", "failed", "deleted"}
  BY <1>1 DEF TopUps
<1>3. rec \in TopUps /\ (IsOpen(rec) => IsOpen(topups[t][i]))
  BY <1>1, <1>2, TopUpIs DEF IsOpen
<1>4. g = SetAt(topups, t, i, rec)
  BY DEF Record, Typed, SetAt
<1> HIDE DEF rec, g, old
<1>5. Tidy(topups)
  BY TopUpsTidy
<1>6. Tidy(g) /\ (\A s \in Tasks : Len(g[s]) = Len(topups[s])) /\ DOMAIN g[t] = DOMAIN topups[t]
  BY <1>3, <1>4, <1>5, TidyUpdate
<1>. QED BY <1>6 DEF g

LEMMA WholeTidy ==
  ASSUME Typed, WorkTyped', WorkersKnow', RowsAreSound', NetTyped', Tidy(topups'),
         retrying' \in Tasks \cup {None}, streak' \in Nat, unguarded' \in BOOLEAN
  PROVE  ConsInv'
BY TidyKeeps DEF ConsInv, Typed

LEMMA LengthsGrow ==
  ASSUME Typed, \A s \in Tasks : Len(topups'[s]) = Len(topups[s])
  PROVE  TopUpsGrow
BY DEF TopUpsGrow, Typed

LEMMA TopUpperOnly ==
  ASSUME NEW w \in TopUppers
  PROVE  w \in Workers /\ w \notin Executors /\ w \notin Trackers
BY ConsolidationAssumption DEF Workers

LEMMA TopUpperLease ==
  ASSUME Typed, WorkersKnow, NEW w \in TopUppers, work[w].pc # "idle", Leased(w)
  PROVE  LET t == work[w].task IN
         t \in Tasks /\ task[t] \in Rows /\ Active(t) /\ task[t].status = "need_gas"
BY TopUpperOnly, AtTask DEF Leased, Knows, TopUpperKnows, Active, ActiveStatuses

LEMMA TopUpperLeaves ==
  ASSUME ConsInv, NEW w \in TopUppers, work[w].pc # "idle", Leaves(w), Tidy(topups'), TopUpsGrow,
         UNCHANGED <<net, retrying, history>>
  PROVE  ConsInv'
<1>1. /\ w \in Workers /\ NetGrows /\ NetTyped' /\ retrying' \in Tasks \cup {None}
      /\ streak' \in Nat /\ unguarded' \in BOOLEAN
  BY TopUpperOnly, NetStays DEF ConsInv, Typed, history
<1>2. WorkTyped' /\ WorkersKnow' /\ RowsAreSound'
  BY <1>1, Leaving DEF ConsInv
<1>. QED BY <1>1, <1>2, WholeTidy DEF ConsInv

LEMMA TopUpperGoes ==
  ASSUME ConsInv, NEW w \in TopUppers, work[w].pc # "idle", NEW pc \in {"create", "send", "sent"},
         NEW data \in Nat \cup {None}, Goes(w, pc, data),
         pc \in {"send", "sent"} => data \in 1 .. Len(topups'[work[w].task]),
         Tidy(topups'), TopUpsGrow, UNCHANGED <<task, fresh, net, retrying, history>>
  PROVE  ConsInv'
<1>1. /\ w \in Workers /\ NetGrows /\ NetTyped' /\ retrying' \in Tasks \cup {None}
      /\ streak' \in Nat /\ unguarded' \in BOOLEAN
  BY TopUpperOnly, NetStays DEF ConsInv, Typed, history
<1>2. work'[w].pc = pc /\ work'[w].task = work[w].task /\ work'[w].data = data
  BY <1>1, GoesTo DEF ConsInv, Pcs
<1>3. TopUpperKnows(w)
  BY <1>1 DEF ConsInv, WorkersKnow, Knows
<1>4. Knows(w)'
  BY <1>2, <1>3, TopUpperOnly DEF Knows, TopUpperKnows
<1>5. WorkTyped' /\ WorkersKnow' /\ RowsAreSound'
  BY <1>1, <1>4, Going DEF ConsInv, Pcs
<1>. QED BY <1>1, <1>5, WholeTidy DEF ConsInv

LEMMA ResumedIsLegal ==
  ASSUME NEW t \in Tasks, task[t] \in Rows, Active(t), task[t].status = "need_gas", UNCHANGED history
  PROVE  Resumed(t) \in Rows /\ Legal(t, Resumed(t))
<1>1. task[t].retry \in 0 .. MaxRetries
  BY DEF Rows
<1>2. Resumed(t) \in Rows /\ Resumed(t).status = "pending" /\ Resumed(t).retry = task[t].retry
  BY <1>1, NewRowIsRow DEF Resumed
<1>. QED BY <1>2 DEF Legal, Tracked, history

LEMMA HandleNeedGasWhole ==
  ASSUME ConsInv, NEW w \in TopUppers, HandleNeedGas(w)
  PROVE  ConsInv'
<1> DEFINE t == work[w].task
<1>1. /\ w \in Workers /\ work[w].pc = "check" /\ work[w].pc # "idle"
      /\ UNCHANGED <<net, topups, retrying, history>> /\ Typed /\ WorkersKnow
  BY TopUpperOnly DEF HandleNeedGas, chainVars, ConsInv
<1>2. Leased(w) => t \in Tasks /\ task[t] \in Rows /\ Active(t) /\ task[t].status = "need_gas"
  BY <1>1, TopUpperLease
<1>3. CASE Ends(w, Resumed(t))
  BY <1>1, <1>2, <1>3, ResumedIsLegal, EndsWhole
<1>4. CASE \E status \in {"need_gas", "permanent_failed"} : Ends(w, Turned(t, status))
  <2>1. PICK status \in {"need_gas", "permanent_failed"} : Ends(w, Turned(t, status))
    BY <1>4
  <2>2. Leased(w) => Turned(t, status) \in Rows /\ Legal(t, Turned(t, status))
    BY <1>1, <1>2, TurnedIsLegal DEF Tracked
  <2>. QED BY <1>1, <2>1, <2>2, EndsWhole
<1>5. CASE Goes(w, "create", None) /\ UNCHANGED <<task, fresh>>
  <2>1. Tidy(topups') /\ TopUpsGrow
    BY <1>1, TopUpsTidy, TopUpsStay DEF ConsInv
  <2>. QED BY <1>1, <1>5, <2>1, TopUpperGoes
<1>. QED BY <1>3, <1>4, <1>5 DEF HandleNeedGas

\* A new record where none is open.
LEMMA CreatedTidy ==
  ASSUME Typed, OneOpen, NEW t \in Tasks, Open(t) = {},
         topups' = [topups EXCEPT ![t] = Append(@, [status |-> "pending", net |-> "unsent"])]
  PROVE  Tidy(topups') /\ TopUpsGrow /\ Len(topups'[t]) = Len(topups[t]) + 1
<1> DEFINE rec == [status |-> "pending", net |-> "unsent"]
           h == Append(topups[t], rec)
<1>1. topups[t] \in Seq(TopUps) /\ rec \in TopUps
  BY DEF Typed, TopUps
<1>2. /\ h \in Seq(TopUps) /\ Len(h) = Len(topups[t]) + 1
      /\ \A j \in DOMAIN h : j # Len(topups[t]) + 1 => j \in DOMAIN topups[t] /\ h[j] = topups[t][j]
  BY <1>1
<1>3. topups' \in [Tasks -> Seq(TopUps)] /\ topups'[t] = h /\ \A s \in Tasks \ {t} : topups'[s] = topups[s]
  BY <1>2 DEF Typed
<1>4. \A j \in DOMAIN topups[t] : ~IsOpen(topups[t][j])
  BY OpenIs
<1> HIDE DEF h
<1>5. ASSUME NEW s \in Tasks, NEW j \in DOMAIN topups'[s], NEW k \in DOMAIN topups'[s],
             IsOpen(topups'[s][j]), IsOpen(topups'[s][k])
      PROVE  j = k
  <2>1. CASE s # t
    BY <1>3, <1>5, <2>1, TopUpsTidy DEF Tidy
  <2>2. CASE s = t
    BY <1>2, <1>3, <1>4, <1>5, <2>2
  <2>. QED BY <2>1, <2>2
<1>6. Tidy(topups')
  BY <1>3, <1>5 DEF Tidy
<1>7. TopUpsGrow
  BY <1>1, <1>2, <1>3 DEF TopUpsGrow, Typed
<1>. QED BY <1>2, <1>3, <1>6, <1>7

LEMMA CreateTopUpWhole ==
  ASSUME ConsInv, NEW w \in TopUppers, CreateTopUp(w)
  PROVE  ConsInv'
<1> DEFINE t == work[w].task
<1>1. /\ w \in Workers /\ work[w].pc = "create" /\ work[w].pc # "idle"
      /\ UNCHANGED <<net, retrying, history>> /\ Typed /\ OneOpen /\ WorkersKnow
  BY TopUpperOnly DEF CreateTopUp, chainVars, ConsInv
<1>2. t \in Tasks /\ topups[t] \in Seq(TopUps)
  BY <1>1, AtTask DEF Typed
<1>3. CASE Open(t) # {}
  <2>1. Leased(w) => Turned(t, "need_gas") \in Rows /\ Legal(t, Turned(t, "need_gas"))
    BY <1>1, TopUpperLease, TurnedIsLegal DEF Tracked
  <2>2. Ends(w, Turned(t, "need_gas")) /\ UNCHANGED topups
    BY <1>3 DEF CreateTopUp
  <2>. QED BY <1>1, <2>1, <2>2, EndsWhole
<1>4. CASE Open(t) = {}
  <2>1. topups' = [topups EXCEPT ![t] = Append(@, [status |-> "pending", net |-> "unsent"])]
    BY <1>4 DEF CreateTopUp
  <2>2. Tidy(topups') /\ TopUpsGrow /\ Len(topups'[t]) = Len(topups[t]) + 1
    BY <1>1, <1>2, <1>4, <2>1, CreatedTidy
  <2>3. CASE Leaves(w)
    BY <1>1, <2>2, <2>3, TopUpperLeaves
  <2>4. CASE Goes(w, "send", Len(topups[t]) + 1) /\ UNCHANGED <<task, fresh>>
    <3>1. Len(topups[t]) + 1 \in Nat /\ Len(topups[t]) + 1 \in 1 .. Len(topups'[t])
      BY <1>2, <2>2
    <3>. QED BY <1>1, <2>2, <2>4, <3>1, TopUpperGoes
  <2>. QED BY <1>4, <2>3, <2>4 DEF CreateTopUp
<1>. QED BY <1>3, <1>4

WithNet(f, t, i, n) == [f EXCEPT ![t][i].net = n]

LEMMA WithNetTidy ==
  ASSUME NEW f, Tidy(f), NEW t \in Tasks, NEW i \in DOMAIN f[t],
         NEW n \in {"unsent", "sent", "ok", "reverted"}
  PROVE  LET g == WithNet(f, t, i, n) IN
         Tidy(g) /\ \A s \in Tasks : Len(g[s]) = Len(f[s])
<1> DEFINE old == f[t][i]
           rec == [old EXCEPT !.net = n]
           g == WithNet(f, t, i, n)
<1>1. old \in TopUps
  BY DEF Tidy
<1>2. rec \in TopUps /\ (IsOpen(rec) => IsOpen(f[t][i]))
  <2>1. PICK s, m : old = [status |-> s, net |-> m]
    BY <1>1 DEF TopUps
  <2>2. rec = [status |-> s, net |-> n]
    BY <2>1
  <2>. QED BY <1>1, <2>1, <2>2 DEF TopUps, IsOpen
<1>3. g = SetAt(f, t, i, rec)
  BY DEF WithNet, SetAt, Tidy
<1> HIDE DEF rec, g, old
<1>4. Tidy(g) /\ \A s \in Tasks : Len(g[s]) = Len(f[s])
  BY <1>2, <1>3, TidyUpdate
<1>. QED BY <1>4 DEF g

LEMMA SendTopUpWhole ==
  ASSUME ConsInv, NEW w \in TopUppers, SendTopUp(w)
  PROVE  ConsInv'
<1> DEFINE t == work[w].task
           i == work[w].data
           failed == Record(t, i, "failed")
<1>1. /\ w \in Workers /\ work[w].pc = "send" /\ work[w].pc # "idle"
      /\ UNCHANGED <<net, retrying, history>> /\ Typed /\ OneOpen /\ WorkersKnow
  BY TopUpperOnly DEF SendTopUp, chainVars, history, ConsInv
<1>2. t \in Tasks /\ topups[t] \in Seq(TopUps) /\ i \in DOMAIN topups[t] /\ i \in Nat
  <2>1. t \in Tasks /\ topups[t] \in Seq(TopUps)
    BY <1>1, AtTask DEF Typed
  <2>2. i \in 1 .. Len(topups[t])
    BY <1>1 DEF WorkersKnow, Knows, TopUpperKnows
  <2>. QED BY <2>1, <2>2
<1>3. Tidy(topups)
  BY <1>1, TopUpsTidy
<1>4. /\ Tidy(failed) /\ DOMAIN failed[t] = DOMAIN topups[t]
      /\ \A s \in Tasks : Len(failed[s]) = Len(topups[s])
  BY <1>1, <1>2, RecordTidy
<1> HIDE DEF failed
<1>5. CASE topups' = WithNet(topups, t, i, "sent") /\ Goes(w, "sent", i) /\ UNCHANGED <<task, fresh>>
  <2>1. Tidy(topups') /\ \A s \in Tasks : Len(topups'[s]) = Len(topups[s])
    BY <1>2, <1>3, <1>5, WithNetTidy
  <2>2. TopUpsGrow /\ i \in 1 .. Len(topups'[t])
    BY <1>1, <1>2, <2>1, LengthsGrow
  <2>. QED BY <1>1, <1>2, <1>5, <2>1, <2>2, TopUpperGoes
<1>6. CASE (topups' = failed \/ topups' = WithNet(failed, t, i, "sent")) /\ Leaves(w)
  <2>1. Tidy(topups') /\ \A s \in Tasks : Len(topups'[s]) = Len(topups[s])
    BY <1>2, <1>4, <1>6, WithNetTidy
  <2>. QED BY <1>1, <1>6, <2>1, LengthsGrow, TopUpperLeaves
<1>. QED BY <1>5, <1>6 DEF SendTopUp, WithNet, failed

LEMMA MarkSentWhole ==
  ASSUME ConsInv, NEW w \in TopUppers, MarkSent(w)
  PROVE  ConsInv'
<1> DEFINE t == work[w].task
           i == work[w].data
           row == Turned(t, "need_gas")
<1>1. /\ w \in Workers /\ work[w].pc = "sent" /\ work[w].pc # "idle"
      /\ UNCHANGED <<net, retrying, history>> /\ Typed /\ OneOpen /\ WorkersKnow /\ RowsAreSound
      /\ NetGrows /\ NetTyped' /\ retrying' \in Tasks \cup {None}
      /\ streak' \in Nat /\ unguarded' \in BOOLEAN
  BY TopUpperOnly, NetStays DEF MarkSent, chainVars, history, ConsInv, Typed
<1>2. t \in Tasks /\ topups[t] \in Seq(TopUps) /\ i \in DOMAIN topups[t]
  <2>1. t \in Tasks /\ topups[t] \in Seq(TopUps)
    BY <1>1, AtTask DEF Typed
  <2>2. i \in 1 .. Len(topups[t])
    BY <1>1 DEF WorkersKnow, Knows, TopUpperKnows
  <2>. QED BY <2>1, <2>2
<1>3. CASE topups' = Record(t, i, "sent") /\ Ends(w, row)
  <2>1. Tidy(topups') /\ \A s \in Tasks : Len(topups'[s]) = Len(topups[s])
    BY <1>1, <1>2, <1>3, RecordTidy
  <2>2. Leased(w) => row \in Rows /\ Legal(t, row)
    BY <1>1, TopUpperLease, TurnedIsLegal DEF Tracked
  <2>3. WorkTyped' /\ WorkersKnow' /\ RowsAreSound'
    BY <1>1, <1>3, <2>1, <2>2, LengthsGrow, Ending
  <2>. QED BY <1>1, <2>1, <2>3, WholeTidy
<1>4. CASE UNCHANGED topups /\ Leaves(w)
  BY <1>1, <1>4, TopUpsTidy, TopUpsStay, TopUpperLeaves
<1>. QED BY <1>3, <1>4 DEF MarkSent

LEMMA TopsUpWhole ==
  ASSUME ConsInv, NEW w \in TopUppers, TopsUp(w)
  PROVE  ConsInv'
<1>1. w \in Workers /\ w \notin Executors /\ w \notin Trackers
  BY TopUpperOnly
<1>2. CASE TopUpClaims(w)
  <2>1. PICK t \in Tasks : task[t].status = "need_gas" /\ Claim(w, t)
    BY <1>2 DEF TopUpClaims
  <2>. QED BY <1>1, <1>2, <2>1, ClaimWhole DEF TopUpClaims, chainVars
<1>. QED BY <1>2, HandleNeedGasWhole, CreateTopUpWhole, SendTopUpWhole, MarkSentWhole DEF TopsUp

-------------------------------------------------------------------------------
(* Verifiers.                                                              *)

LEMMA VerifierOnly ==
  ASSUME NEW w \in Verifiers
  PROVE  w \in Workers /\ w \notin Executors /\ w \notin Trackers /\ w \notin TopUppers
BY ConsolidationAssumption DEF Workers

LEMMA VerifyWhole ==
  ASSUME ConsInv, NEW w \in Verifiers, Verify(w)
  PROVE  ConsInv'
<1>1. /\ w \in Workers /\ w \notin Executors /\ w \notin Trackers /\ w \notin TopUppers
      /\ UNCHANGED <<net, retrying, history>> /\ Typed /\ OneOpen /\ WorkersKnow /\ RowsAreSound
      /\ NetGrows /\ NetTyped' /\ retrying' \in Tasks \cup {None}
      /\ streak' \in Nat /\ unguarded' \in BOOLEAN
  BY VerifierOnly, NetStays DEF Verify, chainVars, history, ConsInv, Typed
<1>2. PICK t \in Tasks : \E i \in DOMAIN topups[t] : \E status \in {"confirmed", "failed"} :
         /\ topups' = Record(t, i, status)
         /\ Claim(w, t) \/ UNCHANGED <<task, fresh, work>>
  BY DEF Verify, Undeleted
<1>3. PICK i \in DOMAIN topups[t], status \in {"confirmed", "failed"} :
         /\ topups' = Record(t, i, status)
         /\ Claim(w, t) \/ UNCHANGED <<task, fresh, work>>
  BY <1>2
<1>4. Tidy(topups') /\ TopUpsGrow
  <2>1. Tidy(topups') /\ \A s \in Tasks : Len(topups'[s]) = Len(topups[s])
    BY <1>1, <1>3, RecordTidy
  <2>. QED BY <1>1, <2>1, LengthsGrow
<1>5. CASE Claim(w, t)
  <2>1. WorkTyped' /\ WorkersKnow' /\ RowsAreSound'
    BY <1>1, <1>4, <1>5, Claiming
  <2>. QED BY <1>1, <1>4, <2>1, WholeTidy
<1>6. CASE UNCHANGED <<task, fresh, work>>
  <2>1. RowsAreSound'
    BY <1>1, <1>6, RowsUntouched
  <2>2. WorkersKnow'
    BY <1>1, <1>4, <1>6, OthersKnow DEF WorkersKnow, Quiet, SameCore, RowsRemain
  <2>3. WorkTyped'
    BY <1>1, <1>6 DEF Typed, WorkTyped
  <2>. QED BY <1>1, <1>4, <2>1, <2>2, <2>3, WholeTidy
<1>. QED BY <1>3, <1>5, <1>6

LEMMA RescheduleWhole ==
  ASSUME ConsInv, NEW w \in Verifiers, Reschedule(w)
  PROVE  ConsInv'
<1> DEFINE t == work[w].task
<1>1. /\ w \in Workers /\ work[w].pc = "check" /\ work[w].pc # "idle"
      /\ UNCHANGED <<net, topups, retrying, history>> /\ Typed /\ WorkersKnow /\ NetTyped
  BY VerifierOnly DEF Reschedule, chainVars, ConsInv, Typed
<1>2. t \in Tasks /\ task[t] \in Rows /\ task[t] # None
  BY <1>1, AtTask
<1>3. CASE Leaves(w)
  BY <1>1, <1>3, NetStays, LeavesWhole
<1>4. CASE task[t].status = "need_gas" /\ (Ends(w, Resumed(t)) \/ Ends(w, Turned(t, "need_gas")))
  <2>1. Active(t)
    BY <1>2, <1>4 DEF Active, ActiveStatuses
  <2>2. Resumed(t) \in Rows /\ Legal(t, Resumed(t))
    BY <1>1, <1>2, <1>4, <2>1, ResumedIsLegal
  <2>3. Turned(t, "need_gas") \in Rows /\ Legal(t, Turned(t, "need_gas"))
    BY <1>1, <1>2, <1>4, <2>1, TurnedIsLegal DEF Tracked
  <2>. QED BY <1>1, <1>4, <2>2, <2>3, EndsWhole
<1>. QED BY <1>3, <1>4 DEF Reschedule

LEMMA VerifiesWhole ==
  ASSUME ConsInv, NEW w \in Verifiers, Verifies(w)
  PROVE  ConsInv'
BY VerifyWhole, RescheduleWhole DEF Verifies

-------------------------------------------------------------------------------
(* Operators, the scheduler and the passing of time.                       *)

\* A row is changed by nobody who works on it.
LEMMA RowWhole ==
  ASSUME ConsInv, NEW t \in Tasks, NEW n \in Rows, task' = [task EXCEPT ![t] = n], Legal(t, n),
         work' = work, fresh' \subseteq fresh,
         \A v \in fresh' : work[v].task # t \/ SameCore(task[t], n),
         UNCHANGED <<net, topups>>, retrying' \in Tasks \cup {None},
         streak' \in Nat, unguarded' \in BOOLEAN
  PROVE  ConsInv'
<1>1. NetGrows /\ NetTyped' /\ TopUpsGrow /\ Tidy(topups')
  BY NetStays, TopUpsStay, TopUpsTidy DEF ConsInv, Typed
<1>2. RowsAreSound' /\ task' \in [Tasks -> Rows \cup {None}] /\ \A v \in Workers : AtWork(v)' /\ Knows(v)'
  BY <1>1, Written DEF ConsInv
<1>3. WorkersKnow' /\ WorkTyped'
  BY <1>2 DEF WorkersKnow, ConsInv, Typed, WorkTyped
<1>. QED BY <1>1, <1>2, <1>3, WholeTidy DEF ConsInv

\* The chain or the top-ups move on their own.
LEMMA WorldWhole ==
  ASSUME ConsInv, UNCHANGED <<task, fresh, work, history>>, NetGrows, NetTyped', Tidy(topups'), TopUpsGrow,
         retrying' \in Tasks \cup {None}
  PROVE  ConsInv'
<1>1. RowsAreSound'
  BY RowsUntouched DEF ConsInv
<1>2. WorkersKnow'
  BY OthersKnow DEF ConsInv, WorkersKnow, Quiet, SameCore, RowsRemain
<1>3. WorkTyped' /\ streak' \in Nat /\ unguarded' \in BOOLEAN
  BY DEF ConsInv, Typed, WorkTyped, history
<1>. QED BY <1>1, <1>2, <1>3, WholeTidy DEF ConsInv

LEMMA NetWhole ==
  ASSUME ConsInv, UNCHANGED <<task, fresh, work, topups, retrying, history>>, NetGrows, NetTyped'
  PROVE  ConsInv'
BY TopUpsTidy, TopUpsStay, WorldWhole DEF ConsInv, Typed

LEMMA DiscoverWhole ==
  ASSUME ConsInv, NEW t \in Tasks, Discover(t)
  PROVE  ConsInv'
<1>1. /\ Typed /\ WorkersKnow /\ UNCHANGED <<fresh, work, net, topups, retrying, streak>>
      /\ task' = [task EXCEPT ![t] = NewRow] /\ task[t] = None
      /\ \A s \in Tasks : ~Active(s)
      /\ (~TerminalFailed /\ unguarded' = unguarded) \/ unguarded' = TRUE
  BY DEF Discover, MayDiscover, chainVars, ConsInv
<1>2. NewRow \in Rows /\ NewRow.status = "pending"
  BY NewRowIsRow
<1>3. Legal(t, NewRow)
  BY <1>1, <1>2 DEF Legal
<1>4. \A v \in fresh' : work[v].task # t
  BY <1>1 DEF Typed, WorkTyped, WorkersKnow, AtWork
<1>5. streak' \in Nat /\ unguarded' \in BOOLEAN /\ retrying' \in Tasks \cup {None}
  BY <1>1 DEF Typed
<1>. QED BY <1>1, <1>2, <1>3, <1>4, <1>5, RowWhole

LEMMA CancelWhole ==
  ASSUME ConsInv, NEW t \in Tasks, Cancel(t)
  PROVE  ConsInv'
<1> DEFINE n == Turned(t, "cancelled")
<1>1. /\ Typed /\ UNCHANGED <<work, net, topups, retrying, unguarded>>
      /\ task' = [task EXCEPT ![t] = n] /\ fresh' = fresh \ On(t) /\ Active(t) /\ streak' = 0
  BY DEF Cancel, chainVars, ConsInv
<1>2. task[t] \in Rows
  BY <1>1 DEF Active, Typed, WorkTyped
<1>3. n \in Rows /\ n.status = "cancelled"
  BY <1>2, TurnedIsRow DEF Statuses
<1> HIDE DEF n
<1>4. Legal(t, n)
  BY <1>1, <1>3 DEF Legal
<1>5. fresh' \subseteq fresh /\ \A v \in fresh' : work[v].task # t
  BY <1>1 DEF On, Typed, WorkTyped
<1>6. streak' \in Nat /\ unguarded' \in BOOLEAN /\ retrying' \in Tasks \cup {None}
  BY <1>1 DEF Typed
<1>. QED BY <1>1, <1>3, <1>4, <1>5, <1>6, RowWhole

LEMMA ForceRetryWhole ==
  ASSUME ConsInv, ForceRetryPending
  PROVE  ConsInv'
<1> DEFINE t == retrying
           n == [NewRow EXCEPT !.bump = task[t].bump]
<1>1. /\ Typed /\ t \in Tasks /\ UNCHANGED <<work, net, topups, unguarded>> /\ retrying' = None
  BY DEF ForceRetryPending, chainVars, ConsInv, Typed
<1>2. CASE /\ task[t] # None /\ (\A s \in Tasks \ {t} : ~Active(s))
           /\ task' = [task EXCEPT ![t] = n] /\ fresh' = fresh \ On(t) /\ streak' = 0
  <2>1. task[t].bump \in 0 .. EvmMaxBumps
    BY <1>1, <1>2, RowBounds
  <2>2. n \in Rows /\ n.status = "pending"
    BY <2>1, NewRowIsRow
  <2> HIDE DEF n
  <2>3. Legal(t, n)
    BY <1>1, <1>2, <2>2 DEF Legal
  <2>4. fresh' \subseteq fresh /\ \A v \in fresh' : work[v].task # t
    BY <1>1, <1>2 DEF On, Typed, WorkTyped
  <2>5. streak' \in Nat /\ unguarded' \in BOOLEAN /\ retrying' \in Tasks \cup {None}
    BY <1>1, <1>2 DEF Typed
  <2>. QED BY <1>1, <1>2, <2>2, <2>3, <2>4, <2>5, RowWhole
<1>3. CASE UNCHANGED <<task, fresh, streak>>
  <2>1. NetGrows /\ NetTyped' /\ TopUpsGrow /\ Tidy(topups')
    BY <1>1, NetStays, TopUpsStay, TopUpsTidy DEF ConsInv, Typed
  <2>. QED BY <1>1, <1>3, <2>1, WorldWhole DEF history
<1>. QED BY <1>2, <1>3 DEF ForceRetryPending

LEMMA SoftDeleteWhole ==
  ASSUME ConsInv, NEW t \in Tasks, SoftDelete(t)
  PROVE  ConsInv'
<1> DEFINE h == [i \in DOMAIN topups[t] |-> Deleted(topups[t][i])]
<1>1. /\ Typed /\ NetTyped /\ UNCHANGED <<task, fresh, work, net, history>> /\ retrying' = t
      /\ topups' = [topups EXCEPT ![t] = h]
  BY DEF SoftDelete, chainVars, ConsInv, Typed
<1>2. topups[t] \in Seq(TopUps)
  BY <1>1 DEF Typed
<1>3. \A i \in DOMAIN topups[t] : Deleted(topups[t][i]) \in TopUps /\ ~IsOpen(Deleted(topups[t][i]))
  BY DEF Deleted, TopUps, IsOpen
<1>4. DOMAIN topups[t] = 1 .. Len(topups[t]) /\ Len(topups[t]) \in Nat
  BY <1>2
<1>5. h \in [1 .. Len(topups[t]) -> TopUps] /\ \A i \in DOMAIN h : ~IsOpen(h[i])
  BY <1>3, <1>4
<1> HIDE DEF h
<1>6. h \in Seq(TopUps) /\ Len(h) = Len(topups[t])
  BY <1>4, <1>5
<1>7. topups' \in [Tasks -> Seq(TopUps)] /\ topups'[t] = h /\ \A s \in Tasks \ {t} : topups'[s] = topups[s]
  BY <1>1, <1>6 DEF Typed
<1>8. Tidy(topups')
  BY <1>1, <1>5, <1>7, TopUpsTidy DEF Tidy, ConsInv
<1>9. TopUpsGrow
  <2>1. \A s \in Tasks : Len(topups'[s]) = Len(topups[s])
    BY <1>6, <1>7
  <2>. QED BY <1>1, <2>1, LengthsGrow
<1>. QED BY <1>1, <1>8, <1>9, NetStays, WorldWhole

LEMMA CrashWhole ==
  ASSUME ConsInv, NEW instance, Crash(instance)
  PROVE  ConsInv'
<1> DEFINE its == {w \in Workers : InstanceOf[w] = instance}
<1>1. /\ Typed /\ WorkersKnow /\ UNCHANGED <<task, net, topups, retrying, history>>
      /\ work' = [w \in Workers |-> IF w \in its THEN Idle ELSE work[w]] /\ fresh' = fresh \ its
      /\ retrying' \in Tasks \cup {None} /\ streak' \in Nat /\ unguarded' \in BOOLEAN
  BY DEF Crash, chainVars, history, ConsInv, Typed
<1>2. NetGrows /\ NetTyped' /\ TopUpsGrow /\ Tidy(topups') /\ RowsRemain
  BY <1>1, NetStays, TopUpsStay, TopUpsTidy DEF ConsInv, Typed, RowsRemain
<1>3. RowsAreSound'
  BY <1>1, <1>2, RowsUntouched DEF ConsInv
<1>4. ASSUME NEW v \in Workers PROVE AtWork(v)' /\ Knows(v)'
  <2>1. CASE v \in its
    BY <1>1, <2>1, IdleKnows
  <2>2. CASE v \notin its
    BY <1>1, <1>2, <2>2, OthersKnow DEF WorkersKnow, Quiet, SameCore
  <2>. QED BY <2>1, <2>2
<1>5. WorkTyped'
  BY <1>1, IdleIsPlace DEF Typed, WorkTyped
<1>. QED BY <1>1, <1>2, <1>3, <1>4, <1>5, WholeTidy DEF WorkersKnow

LEMMA LapseWhole ==
  ASSUME ConsInv, NEW t \in Tasks, Lapse(t)
  PROVE  ConsInv'
<1> DEFINE n == [task[t] EXCEPT !.claim = None]
<1>1. /\ Typed /\ UNCHANGED <<fresh, work, net, topups, retrying, history>>
      /\ task[t] # None /\ task[t] \in Rows
      /\ retrying' \in Tasks \cup {None} /\ streak' \in Nat /\ unguarded' \in BOOLEAN
  BY DEF Lapse, chainVars, history, ConsInv, Typed, WorkTyped
<1>2. task' = [task EXCEPT ![t] = n]
  BY <1>1 DEF Lapse, Typed, WorkTyped
<1>3. n \in Rows /\ SameCore(task[t], n)
  BY <1>1 DEF Rows, SameCore
<1> HIDE DEF n
<1>4. Legal(t, n)
  BY <1>1, <1>3 DEF Legal, history
<1>. QED BY <1>1, <1>2, <1>3, <1>4, RowWhole

LEMMA AgeWhole ==
  ASSUME ConsInv, NEW t \in Tasks, Age(t)
  PROVE  ConsInv'
<1> DEFINE n == [task[t] EXCEPT !.age = IF task[t].age = "young" THEN "late" ELSE "lost"]
<1>1. /\ Typed /\ UNCHANGED <<fresh, work, net, topups, retrying, history>>
      /\ task[t] # None /\ task[t] \in Rows
      /\ retrying' \in Tasks \cup {None} /\ streak' \in Nat /\ unguarded' \in BOOLEAN
  BY DEF Age, chainVars, history, ConsInv, Typed, WorkTyped
<1>2. task' = [task EXCEPT ![t] = n]
  BY <1>1 DEF Age, Typed, WorkTyped
<1>3. n \in Rows /\ SameCore(task[t], n)
  BY <1>1 DEF Rows, SameCore
<1> HIDE DEF n
<1>4. Legal(t, n)
  BY <1>1, <1>3 DEF Legal, history
<1>. QED BY <1>1, <1>2, <1>3, <1>4, RowWhole

LEMMA CancelledContextWhole ==
  ASSUME ConsInv, NEW w \in Workers, ContextCancelled(w)
  PROVE  ConsInv'
BY NetStays, LeavesWhole DEF ContextCancelled, chainVars, ConsInv, Typed

\* A nonce with a transaction that is final takes no other one.
LEMMA MineWhole ==
  ASSUME ConsInv, NEW id \in DOMAIN net, Mine(id)
  PROVE  ConsInv'
<1>1. /\ NetTyped /\ UNCHANGED <<task, fresh, work, topups, retrying, history>>
      /\ net[id] = "sent" /\ ~Taken(id[1])
  BY DEF Mine, ConsInv, Typed
<1>2. PICK state \in {"mined", "reverted"} :
        net' = [x \in DOMAIN net |-> IF x = id THEN state ELSE IF x[1] = id[1] THEN "unsent" ELSE net[x]]
  BY DEF Mine
<1>3. ASSUME NEW x \in DOMAIN net, net[x] = "final" PROVE net'[x] = "final"
  BY <1>1, <1>2, <1>3 DEF Taken, Known, OnChain
<1>4. NetGrows /\ NetTyped'
  BY <1>1, <1>2, <1>3 DEF NetGrows, NetTyped, OnChain
<1>. QED BY <1>1, <1>4, NetWhole

LEMMA NetStep ==
  ASSUME ConsInv, NEW id \in DOMAIN net, net[id] = "mined", NEW state \in {"sent", "final"},
         net' = [net EXCEPT ![id] = state],
         UNCHANGED <<task, fresh, work, topups, retrying, history>>
  PROVE  ConsInv'
<1>1. NetTyped
  BY DEF ConsInv, Typed
<1>2. DOMAIN net' = DOMAIN net /\ \A x \in DOMAIN net : net'[x] = IF x = id THEN state ELSE net[x]
  BY <1>1 DEF NetTyped
<1>3. NetGrows
  BY <1>2 DEF NetGrows
<1>4. net' \in [DOMAIN net' -> {"unsent", "sent"} \cup OnChain]
  BY <1>1, <1>2 DEF NetTyped, OnChain
<1>5. NetTyped'
  BY <1>1, <1>2, <1>4 DEF NetTyped
<1>. QED BY <1>3, <1>5, NetWhole

LEMMA SettleTopUpWhole ==
  ASSUME ConsInv, NEW t \in Tasks, NEW i \in DOMAIN topups[t], SettleTopUp(t, i)
  PROVE  ConsInv'
<1>1. /\ Typed /\ UNCHANGED <<task, fresh, work, net, retrying, history>>
      /\ retrying' \in Tasks \cup {None}
  BY DEF SettleTopUp, ConsInv, Typed
<1>2. PICK n \in {"unsent", "sent", "ok", "reverted"} : topups' = WithNet(topups, t, i, n)
  BY DEF SettleTopUp, WithNet
<1>3. Tidy(topups') /\ \A s \in Tasks : Len(topups'[s]) = Len(topups[s])
  BY <1>2, TopUpsTidy, WithNetTidy DEF ConsInv
<1>4. NetGrows /\ NetTyped' /\ TopUpsGrow
  BY <1>1, <1>3, NetStays, LengthsGrow DEF Typed
<1>. QED BY <1>1, <1>3, <1>4, WorldWhole

-------------------------------------------------------------------------------
(* The invariant, and what follows from it.                                *)

LEMMA InitHolds == Init => ConsInv
<1> SUFFICES ASSUME Init PROVE ConsInv
  OBVIOUS
<1>1. WorkTyped
  BY IdleIsPlace DEF Init, WorkTyped
<1>2. NetTyped
  <2>1. DOMAIN net = {}
    BY DEF Init
  <2>. QED BY <2>1, FS_EmptySet DEF Init, NetTyped
<1>3. Typed
  <2>1. topups \in [Tasks -> Seq(TopUps)]
    <3>1. <<>> \in Seq(TopUps)
      OBVIOUS
    <3>. QED BY <3>1 DEF Init
  <2>2. retrying = None /\ streak \in Nat /\ unguarded \in BOOLEAN
    BY DEF Init
  <2>. QED BY <1>1, <1>2, <2>1, <2>2 DEF Typed
<1>4. WorkersKnow
  BY IdleIsPlace DEF Init, WorkersKnow, AtWork, Knows, ExecutorKnows, TrackerKnows, TopUpperKnows
<1>5. \A t \in Tasks : task[t] = None
  BY DEF Init
<1>6. (MaxRetries + 1) * (EvmMaxBumps + 1) >= 0
  <2>1. MaxRetries \in Nat /\ EvmMaxBumps \in Nat /\ 0 \in 0 .. MaxRetries /\ 0 \in 0 .. EvmMaxBumps
    BY ConsolidationAssumption
  <2>2. /\ (MaxRetries + 1) * (EvmMaxBumps + 1) = MaxRetries * (EvmMaxBumps + 1) + (EvmMaxBumps + 1)
        /\ MaxRetries * (EvmMaxBumps + 1) \in Nat
    BY <2>1, Budget
  <2> DEFINE P == MaxRetries * (EvmMaxBumps + 1)
             Q == (MaxRetries + 1) * (EvmMaxBumps + 1)
  <2>3. Q = P + (EvmMaxBumps + 1) /\ P \in Nat
    BY <2>2
  <2> HIDE DEF P, Q
  <2>4. Q >= 0
    BY <2>1, <2>3
  <2>. QED BY <2>4 DEF Q
<1>7. RowsAreSound
  BY <1>5, <1>6 DEF Init, RowsAreSound, OneActive, TxIsStored, Swept, InBudget, Active
<1>8. OneOpen
  BY DEF Init, OneOpen, Open, Undeleted
<1>. QED BY <1>3, <1>4, <1>7, <1>8 DEF ConsInv

LEMMA StutterWhole ==
  ASSUME ConsInv, UNCHANGED <<task, fresh, work, net, topups, retrying, history>>
  PROVE  ConsInv'
BY NetStays, NetWhole DEF ConsInv, Typed

LEMMA NextHolds == ConsInv /\ [Next]_vars => ConsInv'
<1> SUFFICES ASSUME ConsInv, [Next]_vars PROVE ConsInv'
  OBVIOUS
<1>1. CASE \E w \in Workers : Works(w) \/ ContextCancelled(w)
  <2>1. PICK w \in Workers : Works(w) \/ ContextCancelled(w)
    BY <1>1
  <2>. QED BY <2>1, ExecuteWhole, TracksWhole, TopsUpWhole, VerifiesWhole, CancelledContextWhole
       DEF Works
<1>2. CASE \E t \in Tasks : Discover(t) \/ Cancel(t) \/ SoftDelete(t)
  BY <1>2, DiscoverWhole, CancelWhole, SoftDeleteWhole
<1>3. CASE ForceRetryPending
  BY <1>3, ForceRetryWhole
<1>4. CASE \E instance \in Instances : Crash(instance)
  BY <1>4, CrashWhole
<1>5. CASE \E id \in DOMAIN net : Mine(id) \/ Reorganise(id)
  <2>1. PICK id \in DOMAIN net : Mine(id) \/ Reorganise(id)
    BY <1>5
  <2>2. CASE Mine(id)
    BY <2>2, MineWhole
  <2>3. CASE Reorganise(id)
    BY <2>3, NetStep DEF Reorganise
  <2>. QED BY <2>1, <2>2, <2>3
<1>6. CASE Deposit \/ FeesRise
  BY <1>6, StutterWhole DEF Deposit, FeesRise
<1>7. CASE TimePasses
  <2>1. CASE \E t \in Tasks : Lapse(t) \/ Age(t)
    BY <2>1, LapseWhole, AgeWhole
  <2>2. CASE \E t \in Tasks : \E i \in DOMAIN topups[t] : SettleTopUp(t, i)
    BY <2>2, SettleTopUpWhole
  <2>3. CASE \E id \in DOMAIN net : Finalise(id)
    BY <2>3, NetStep DEF Finalise
  <2>. QED BY <1>7, <2>1, <2>2, <2>3 DEF TimePasses
<1>8. CASE UNCHANGED vars
  BY <1>8, StutterWhole DEF vars, chainVars
<1>. QED BY <1>1, <1>2, <1>3, <1>4, <1>5, <1>6, <1>7, <1>8 DEF Next

LEMMA ConsInvariant == Spec => []ConsInv
BY InitHolds, NextHolds, PTL DEF Spec

\* Rows, claims and transactions keep their types; an address never has two
\* active tasks, nor a task two open top-ups (active_task_key, open_topup_key).
THEOREM TypeCorrect == Spec => []TypeOK
<1>1. ConsInv => TypeOK
  <2> SUFFICES ASSUME ConsInv PROVE TypeOK
    OBVIOUS
  <2>1. \A t \in Tasks : Active(t) => \A s \in Tasks \ {t} : ~Active(s)
    BY DEF ConsInv, RowsAreSound, OneActive
  <2>2. ASSUME NEW t \in Tasks PROVE Cardinality(Open(t)) <= 1
    <3>1. CASE Open(t) = {}
      BY <3>1, FS_EmptySet
    <3>2. CASE Open(t) # {}
      <4>1. PICK i : i \in Open(t)
        BY <3>2
      <4>2. Open(t) = {i}
        BY <4>1 DEF ConsInv, OneOpen
      <4>3. Cardinality({i}) = 1
        BY FS_Singleton
      <4>4. Cardinality(Open(t)) = 1
        BY <4>2, <4>3, Zenon
      <4>. QED BY <4>4
    <3>. QED BY <3>1, <3>2
  <2>3. fresh \subseteq {w \in Workers : work[w] # Idle}
    BY IdleIsPlace DEF ConsInv, Typed, WorkTyped, WorkersKnow, AtWork
  <2>4. \A id \in DOMAIN net : net[id] \in {"unsent", "sent"} \cup OnChain
    BY DEF ConsInv, Typed, NetTyped
  <2>. QED BY <2>1, <2>2, <2>3, <2>4 DEF TypeOK, ConsInv, Typed, WorkTyped, NetTyped, RowsAreSound, TxIsStored
<1>. QED BY <1>1, ConsInvariant, PTL

\* A confirmed task's own transaction has swept the address for good, for any
\* workers, instances and limits (status_tracker.go, updateWithLease).
THEOREM ConfirmedSwept == Spec => []ConfirmedIsSwept
<1>1. ConsInv => ConfirmedIsSwept
  BY DEF ConsInv, RowsAreSound, Swept, ConfirmedIsSwept
<1>. QED BY <1>1, ConsInvariant, PTL

\* Between two successes or decisions no more is signed for an address than the
\* retries and bumps of one task allow (executor.go, scheduleRetryInProgress;
\* status_tracker.go, maybeBumpEvmGas; HasTerminalFailedTokenTask).
THEOREM RetriesBounded == Spec => []RetriesAreBounded
<1>1. ConsInv => RetriesAreBounded
  BY DEF ConsInv, RowsAreSound, InBudget, RetriesAreBounded
<1>. QED BY <1>1, ConsInvariant, PTL

===============================================================================
