------------------------ MODULE DepositPipelineProofs ------------------------
(* Theorems about ChainSync, for any transactions, transfers, confirmation     *)
(* depth, look back and numbers of faults and retries; then about              *)
(* DepositPipeline, which extends it, for any owners, amounts, replicas and    *)
(* faults.  What is proved of the chain service carries over: no step of a     *)
(* replica touches its state.                                                  *)
EXTENDS DepositPipeline, SequenceTheorems, Sums

-------------------------------------------------------------------------------
(* PART 1: the chain service.                                                *)

-------------------------------------------------------------------------------
(* Helpers.                                                                  *)

\* What a queue without one of its messages consists of.
LEMMA RemoveAtKeeps ==
  ASSUME NEW S, NEW s \in Seq(S), NEW i \in DOMAIN s
  PROVE  /\ RemoveAt(s, i) \in Seq(S)
         /\ \A j \in DOMAIN RemoveAt(s, i) : \E k \in DOMAIN s : RemoveAt(s, i)[j] = s[k]
<1> DEFINE p == SubSeq(s, 1, i - 1)
           q == SubSeq(s, i + 1, Len(s))
<1>1. i \in 1 .. Len(s) /\ Len(s) \in Nat
  OBVIOUS
<1>2. p \in Seq(S) /\ Len(p) = i - 1 /\ \A j \in 1 .. i - 1 : p[j] = s[j]
  <2>1. \A j \in 1 .. i - 1 : s[j] \in S
    BY <1>1
  <2> QED
    BY <1>1, <2>1, SubSeqProperties
<1>3. q \in Seq(S) /\ Len(q) = Len(s) - i /\ \A j \in 1 .. Len(s) - i : q[j] = s[i + j]
  <2>1. \A j \in i + 1 .. Len(s) : s[j] \in S
    BY <1>1
  <2>2. \A j \in 1 .. Len(s) - (i + 1) + 1 : q[j] = s[i + 1 + j - 1]
    BY <1>1, <2>1, SubSeqProperties
  <2>3. q \in Seq(S) /\ Len(q) = IF i + 1 <= Len(s) THEN Len(s) - (i + 1) + 1 ELSE 0
    BY <1>1, <2>1, SubSeqProperties
  <2> QED
    BY <1>1, <2>2, <2>3
<1> HIDE DEF p, q
<1>4. RemoveAt(s, i) = p \o q
  BY DEF RemoveAt, p, q
<1>5. /\ p \o q \in Seq(S) /\ Len(p \o q) = Len(s) - 1
      /\ \A j \in 1 .. i - 1 : (p \o q)[j] = p[j]
      /\ \A j \in i .. Len(s) - 1 : (p \o q)[j] = q[j - (i - 1)]
  <2>1. p \o q \in Seq(S) /\ Len(p \o q) = i - 1 + (Len(s) - i)
    BY <1>2, <1>3, ConcatProperties
  <2>2. i - 1 + (Len(s) - i) = Len(s) - 1
    BY <1>1
  <2>3. ASSUME NEW j \in 1 .. i - 1 PROVE (p \o q)[j] = p[j]
    BY <1>1, <1>2, <1>3
  <2>4. ASSUME NEW j \in i .. Len(s) - 1 PROVE (p \o q)[j] = q[j - (i - 1)]
    BY <1>1, <1>2, <1>3
  <2> QED
    BY <2>1, <2>2, <2>3, <2>4
<1>6. ASSUME NEW j \in DOMAIN (p \o q) PROVE \E k \in DOMAIN s : (p \o q)[j] = s[k]
  <2>1. j \in 1 .. Len(s) - 1
    BY <1>5
  <2>2. CASE j <= i - 1
    <3>1. (p \o q)[j] = p[j] /\ j \in 1 .. i - 1
      BY <1>1, <1>5, <2>1, <2>2
    <3>2. p[j] = s[j] /\ j \in 1 .. Len(s)
      BY <1>1, <1>2, <3>1
    <3> QED
      BY <3>1, <3>2
  <2>3. CASE ~(j <= i - 1)
    <3>1. (p \o q)[j] = q[j - (i - 1)] /\ j - (i - 1) \in 1 .. Len(s) - i
      BY <1>1, <1>2, <1>3, <1>5, <2>1, <2>3
    <3>2. j + 1 \in 1 .. Len(s) /\ j - (i - 1) + i = j + 1
      BY <1>1, <2>1, <3>1
    <3>3. q[j - (i - 1)] = s[j - (i - 1) + i]
      BY <1>3, <3>1
    <3>4. j + 1 \in DOMAIN s
      BY <1>1, <3>2
    <3> QED
      BY <3>1, <3>2, <3>3, <3>4
  <2> QED
    BY <2>2, <2>3
<1> QED
  BY <1>4, <1>5, <1>6

\* A message that is published is the only one that is new.
LEMMA PublishAdds ==
  ASSUME StoreTyped, NEW t \in Transfers, Publish(t)
  PROVE  log' \in [Addresses -> Seq(Transfers)] /\ Published' \subseteq Published \cup {t}
<1>1. log \in [Addresses -> Seq(Transfers)] /\ AddressOf[t] \in Addresses
  BY SyncAssumption DEF StoreTyped
<1>2. log' \in [Addresses -> Seq(Transfers)]
  BY <1>1 DEF Publish
<1>3. ASSUME NEW a \in Addresses PROVE Range(log'[a]) \subseteq Range(log[a]) \cup {t}
  <2>1. log'[a] = log[a] \/ log'[a] = Append(log[a], t)
    BY <1>1 DEF Publish
  <2>2. \A j \in DOMAIN Append(log[a], t) :
          Append(log[a], t)[j] = t \/ \E k \in DOMAIN log[a] : Append(log[a], t)[j] = log[a][k]
    BY <1>1
  <2> QED
    BY <2>1, <2>2 DEF Range
<1> QED
  BY <1>2, <1>3 DEF Published

\* The loop keeps its batch and its view of the head from row to row.
LEMMA PassesKeeps ==
  ASSUME ConfirmTyped, NEW t, NEW err \in BOOLEAN, Passes(t, err)
  PROVE  /\ DOMAIN confirm' = DOMAIN ConfirmIdle
         /\ confirm'.pc = "check" /\ confirm'.todo = confirm.todo \ {t}
         /\ confirm'.batch = confirm.batch /\ confirm'.head = confirm.head
         /\ confirm'.err \in BOOLEAN /\ confirm'.left = confirm.left
<1>1. (confirm.err \/ err) \in BOOLEAN
  BY DEF ConfirmTyped
<1> QED
  BY <1>1 DEF ConfirmTyped, Passes, ConfirmIdle

-------------------------------------------------------------------------------
(* Type correctness.                                                         *)

LEMMA FaultType ==
  ASSUME ChainTyped, NEW kind, Fault(kind) \/ UNCHANGED faults
  PROVE  faults' \in 0 .. MaxFaults
BY SyncAssumption DEF ChainTyped, Fault

LEMMA IdleTyped ==
  /\ ScanIdle \in [pc : {"idle"}, block : {0}, last : {0}, todo : {{}}]
  /\ ConfirmIdle.pc = "idle" /\ ConfirmIdle.head = 0 /\ ConfirmIdle.err = FALSE
  /\ ConfirmIdle.left = 0 /\ ConfirmIdle.todo = {} /\ DOMAIN ConfirmIdle.batch = {}
<1>1. DOMAIN <<>> = {}
  OBVIOUS
<1> QED
  BY <1>1 DEF ScanIdle, ConfirmIdle

LEMMA SyncInitType == SyncInit => SyncTypeOK
<1> SUFFICES ASSUME SyncInit PROVE SyncTypeOK
  OBVIOUS
<1>1. ChainTyped
  BY SyncAssumption DEF SyncInit, ChainTyped
<1>2. ScanTyped
  BY IdleTyped DEF SyncInit, ScanTyped
<1>3. ConfirmTyped
  <2>1. confirm = ConfirmIdle /\ known \in Nat /\ head \in Nat
    BY <1>1 DEF SyncInit, ChainTyped
  <2>2. confirm.err \in BOOLEAN
    BY <2>1, IdleTyped
  <2>3. confirm.head \in 0 .. known /\ confirm.left \in 0 .. BatchRetries
    BY <2>1, IdleTyped, SyncAssumption
  <2> QED
    BY <2>1, <2>2, <2>3, IdleTyped DEF ConfirmTyped
<1>4. StoreTyped
  BY DEF SyncInit, StoreTyped
<1> QED
  BY <1>1, <1>2, <1>3, <1>4 DEF SyncTypeOK

\* The chain grows and is rearranged, and nobody's view of it goes stale.
LEMMA ChainStepType ==
  ASSUME SyncTypeOK, Mine \/ (\E x \in Txs : Reorganise(x)) \/ RefreshHead
  PROVE  SyncTypeOK'
<1> USE DEF SyncTypeOK
<1>1. ChainTyped'
  <2>1. CASE Mine
    <3> PICK S \in SUBSET {x \in Txs : chain[x] = 0} :
          chain' = [x \in Txs |-> IF x \in S THEN head + 1 ELSE chain[x]]
      BY <2>1 DEF Mine
    <3>1. head' = head + 1 /\ head' \in 1 .. MaxHead
      BY <2>1, SyncAssumption DEF Mine, ChainTyped
    <3>2. chain' \in [Txs -> 0 .. head']
      BY <3>1 DEF ChainTyped
    <3> QED
      BY <2>1, <3>1, <3>2 DEF Mine, ChainTyped
  <2>2. ASSUME NEW x \in Txs, Reorganise(x) PROVE ChainTyped'
    <3>1. faults' \in 0 .. MaxFaults
      BY <2>2, FaultType DEF Reorganise
    <3> QED
      BY <2>2, <3>1 DEF Reorganise, ChainTyped
  <2>3. CASE RefreshHead
    BY <2>3 DEF RefreshHead, ChainTyped, chainVars
  <2> QED
    BY <2>1, <2>2, <2>3
<1>2. head <= head' /\ known <= known' /\ UNCHANGED <<scan, row, confirm, queue, log>>
  BY DEF Mine, Reorganise, RefreshHead, ChainTyped, chainVars
<1>3. head \in Nat /\ head' \in Nat /\ known \in Nat /\ known' \in Nat
  BY <1>1 DEF ChainTyped
<1>4. ScanTyped'
  BY <1>2, <1>3 DEF ScanTyped
<1>5. ConfirmTyped'
  BY <1>2, <1>3 DEF ConfirmTyped
<1>6. StoreTyped'
  BY <1>2 DEF StoreTyped
<1> QED
  BY <1>1, <1>4, <1>5, <1>6

\* The part of a step that is not its own part of the state.
LEMMA OthersKeep ==
  ASSUME SyncTypeOK, UNCHANGED chainVars
  PROVE  /\ known' = known /\ cursor' \in 1 .. head /\ lost' \subseteq Transfers
            /\ faults' \in 0 .. MaxFaults => ChainTyped'
         /\ scan' = scan => ScanTyped'
         /\ known' = known /\ confirm' = confirm => ConfirmTyped'
         /\ UNCHANGED <<row, queue, log>> => StoreTyped'
BY DEF SyncTypeOK, ChainTyped, ScanTyped, ConfirmTyped, StoreTyped, chainVars

LEMMA ScannerType ==
  ASSUME SyncTypeOK, Scanner \/ ScanAbort
  PROVE  SyncTypeOK'
<1> USE DEF SyncTypeOK
<1>0. UNCHANGED <<chainVars, known, confirm, queue, log>>
  BY DEF Scanner, ScanStart, ScanFrom, ScanFetch, ScanSave, ScanAdvance, ScanAbort
<1>1. head \in Nat /\ known \in Nat \ {0} /\ cursor \in Nat
  BY DEF ChainTyped
<1>2. ConfirmTyped'
  BY <1>0, OthersKeep
<1>3. CASE ScanStart
  <2>1. Fallback \in Nat
    BY <1>1, SyncAssumption DEF Fallback
  <2>2. PICK base \in Nat : ScanFrom(base)
    BY <1>1, <1>3, <2>1 DEF ScanStart
  <2>3. Least(head, base + BatchSize) \in base + 1 .. head
    BY <1>1, <2>2, SyncAssumption DEF Least, ScanFrom
  <2>4. ScanTyped'
    BY <1>0, <1>1, <2>2, <2>3 DEF ScanFrom, ScanTyped, chainVars
  <2>5. lost' \subseteq Transfers
    BY <1>3 DEF ScanStart, ChainTyped, Shown, Between
  <2>6. ChainTyped'
    BY <1>0, <1>3, <2>2, <2>5, FaultType, OthersKeep DEF ScanStart, ScanFrom, ChainTyped
  <2>7. StoreTyped'
    BY <1>0, <2>2, OthersKeep DEF ScanFrom
  <2> QED
    BY <1>2, <2>4, <2>6, <2>7
<1>4. CASE ScanFetch
  <2>1. PICK seen \in SUBSET Reverted, missed \in SUBSET Shown(scan.block, scan.block) :
          /\ lost' = lost \cup missed
          /\ scan' = [scan EXCEPT !.pc = "save",
               !.todo = {t \in Shown(scan.block, scan.block) : TxOf[t] \notin seen} \ missed]
    BY <1>4 DEF ScanFetch
  <2>2. Shown(scan.block, scan.block) \subseteq Transfers
    BY DEF Shown, Between
  <2>3. ScanTyped'
    BY <1>0, <1>4, <2>1, <2>2 DEF ScanFetch, ScanTyped, chainVars
  <2>4. faults' \in 0 .. MaxFaults
    BY <1>4, FaultType DEF ScanFetch
  <2>5. lost' \subseteq Transfers
    BY <2>1, <2>2 DEF ChainTyped
  <2>6. ChainTyped' /\ StoreTyped'
    BY <1>0, <1>4, <2>4, <2>5, OthersKeep DEF ScanFetch, ChainTyped
  <2> QED
    BY <1>2, <2>3, <2>6
<1>5. CASE ScanSave
  <2> DEFINE t == First(scan.todo)
  <2>1. t \in Transfers
    BY <1>5 DEF ScanSave, First, ScanTyped
  <2>2. ScanTyped'
    BY <1>0, <1>5 DEF ScanSave, ScanTyped, chainVars
  <2>3. NewRow(scan.block) \in RowType
    BY <1>1, <1>5, SyncAssumption DEF ScanSave, ScanTyped, ChainTyped, NewRow, RowType
  <2>4. StoreTyped'
    BY <1>0, <1>5, <2>1, <2>3 DEF ScanSave, StoreTyped
  <2> QED
    BY <1>0, <1>2, <1>5, <2>2, <2>4, OthersKeep DEF ScanSave, ChainTyped
<1>6. CASE ScanAdvance
  <2>1. scan.block \in 1 .. scan.last /\ scan.last \in 0 .. head
    BY <1>6 DEF ScanAdvance, ScanTyped
  <2>2. ScanTyped'
    <3>1. CASE scan.block = scan.last
      BY <1>0, <1>1, <1>6, <3>1, IdleTyped DEF ScanAdvance, ScanTyped, chainVars
    <3>2. CASE scan.block # scan.last
      <4>1. scan' = [scan EXCEPT !.pc = "fetch", !.block = @ + 1]
        BY <1>6, <3>2 DEF ScanAdvance
      <4>2. scan.block + 1 \in 1 .. scan.last /\ scan.block + 1 \in 0 .. head
        BY <1>1, <2>1, <3>2
      <4> QED
        BY <1>0, <4>1, <4>2 DEF ScanTyped, chainVars
    <3> QED
      BY <3>1, <3>2
  <2>3. cursor' \in 1 .. head
    BY <1>1, <1>6, <2>1 DEF ScanAdvance, ChainTyped
  <2> QED
    BY <1>0, <1>2, <1>6, <2>2, <2>3, FaultType, OthersKeep DEF ScanAdvance, ChainTyped
<1>7. CASE ScanAbort
  <2>1. ScanTyped'
    BY <1>0, <1>1, <1>7, IdleTyped DEF ScanAbort, ScanTyped, chainVars
  <2> QED
    BY <1>0, <1>2, <1>7, <2>1, FaultType, OthersKeep DEF ScanAbort, ChainTyped
<1> QED
  BY <1>3, <1>4, <1>5, <1>6, <1>7 DEF Scanner

\* What a row becomes when the confirm loop restates it.
LEMMA RestatedType ==
  ASSUME StoreTyped, NEW t \in Transfers, NEW status \in {"pending", "sent", "failed"},
         NEW left \in 0 .. MaxRetries, Restated(t, status, left)
  PROVE  row' \in [Transfers -> RowType \cup {None}]
<1>1. row[t] # None => row[t] \in RowType
  BY DEF StoreTyped
<1>2. row[t] # None => [row[t] EXCEPT !.status = status, !.left = left] \in RowType
  BY <1>1 DEF RowType
<1> QED
  BY <1>1, <1>2 DEF Restated, StoreTyped, RowType

LEMMA ConfirmerType ==
  ASSUME SyncTypeOK, Confirmer
  PROVE  SyncTypeOK'
<1> USE DEF SyncTypeOK
<1>0. UNCHANGED <<chainVars, known, cursor, scan, lost>>
  BY DEF Confirmer, ConfirmStart, Check, Send, Mark, EndBatch
<1>1. /\ head \in Nat /\ known \in 1 .. head /\ confirm.head \in 0 .. known
      /\ head' = head /\ known' = known
  BY <1>0 DEF ChainTyped, ConfirmTyped, chainVars
<1>2. ScanTyped'
  BY <1>0, OthersKeep
<1>3. ASSUME faults' \in 0 .. MaxFaults PROVE ChainTyped'
  BY <1>0, <1>3, OthersKeep DEF ChainTyped
<1>4. ASSUME NEW t, NEW err \in BOOLEAN, Passes(t, err) PROVE ConfirmTyped'
  BY <1>1, <1>4, PassesKeeps DEF ConfirmTyped
<1>5. CASE ConfirmStart
  <2> DEFINE due == {t \in Transfers :
                       row[t] # None /\ row[t].status = "pending" /\ row[t].block <= known}
  <2>1. ASSUME NEW t \in due PROVE row[t].block \in 1 .. head
    BY <1>1 DEF StoreTyped, RowType
  <2>2. /\ DOMAIN confirm' = DOMAIN ConfirmIdle
        /\ confirm'.pc = "check" /\ confirm'.batch = [t \in due |-> row[t].block]
        /\ confirm'.todo = due /\ confirm'.head = known /\ confirm'.err \in BOOLEAN
        /\ confirm'.left = BatchRetries
    BY <1>5 DEF ConfirmStart, ConfirmIdle
  <2> HIDE DEF due
  <2>3. /\ DOMAIN confirm'.batch = due /\ due \subseteq Transfers
        /\ \A t \in due : confirm'.batch[t] \in 1 .. head
    BY <2>1, <2>2 DEF due
  <2>4. ConfirmTyped'
    BY <1>1, <2>2, <2>3, SyncAssumption DEF ConfirmTyped
  <2>5. StoreTyped' /\ faults' \in 0 .. MaxFaults
    BY <1>0, <1>5, OthersKeep, FaultType DEF ConfirmStart
  <2> QED
    BY <1>2, <1>3, <2>4, <2>5
<1>6. CASE Check
  <2> DEFINE t == First(confirm.todo)
  <2>1. t \in confirm.todo /\ t \in Transfers
    BY <1>6 DEF Check, First, ConfirmTyped
  <2>2. ASSUME \E err \in BOOLEAN : Passes(t, err) PROVE ConfirmTyped'
    <3> PICK err \in BOOLEAN : Passes(t, err)
      BY <2>2
    <3> QED
      BY <1>4
  <2>3. ASSUME confirm' = [confirm EXCEPT !.pc = "send", !.t = t] PROVE ConfirmTyped'
    <3>1. DOMAIN confirm' = DOMAIN confirm /\ confirm'.pc = "send" /\ confirm'.t = t
          /\ confirm'.batch = confirm.batch /\ confirm'.todo = confirm.todo
          /\ confirm'.head = confirm.head /\ confirm'.err \in BOOLEAN
          /\ confirm'.left = confirm.left
      BY <2>3 DEF ConfirmTyped, ConfirmIdle
    <3> QED
      BY <1>1, <2>1, <3>1 DEF ConfirmTyped
  <2>4. ConfirmTyped'
    BY <1>6, <2>2, <2>3 DEF Check
  <2>5. faults' \in 0 .. MaxFaults
    BY <1>6, FaultType DEF Check
  <2>6. row' = row \/ Restated(t, "failed", 0)
    BY <1>6 DEF Check
  <2>7. row' \in [Transfers -> RowType \cup {None}]
    BY <2>1, <2>6, RestatedType, SyncAssumption DEF StoreTyped
  <2>8. StoreTyped'
    BY <1>6, <2>7 DEF Check, StoreTyped
  <2> QED
    BY <1>2, <1>3, <2>4, <2>5, <2>8
<1>7. CASE Send
  <2> DEFINE t == confirm.t
  <2>1. t \in confirm.todo /\ t \in Transfers
    BY <1>7 DEF Send, ConfirmTyped
  <2>2. CASE Publish(t) /\ confirm' = [confirm EXCEPT !.pc = "mark"]
             /\ UNCHANGED <<row, queue, faults>>
    <3>1. DOMAIN confirm' = DOMAIN confirm /\ confirm'.pc = "mark" /\ confirm'.t = t
          /\ confirm'.batch = confirm.batch /\ confirm'.todo = confirm.todo
          /\ confirm'.head = confirm.head /\ confirm'.err \in BOOLEAN
          /\ confirm'.left = confirm.left
      BY <2>2 DEF ConfirmTyped, ConfirmIdle
    <3>2. ConfirmTyped'
      BY <1>1, <2>1, <3>1 DEF ConfirmTyped
    <3>3. StoreTyped'
      BY <2>1, <2>2, PublishAdds DEF StoreTyped
    <3> QED
      BY <1>2, <1>3, <2>2, <3>2, <3>3, FaultType
  <2>3. CASE /\ \/ Fault("send_error") /\ UNCHANGED log
                \/ Fault("send_unknown") /\ Publish(t)
             /\ queue' = Append(queue, [t |-> t, left |-> QueueRetries])
             /\ row' = IF row[t] = None THEN row ELSE [row EXCEPT ![t].status = "failed"]
             /\ Passes(t, TRUE)
    <3>1. ConfirmTyped'
      BY <1>4, <2>3
    <3>2. faults' \in 0 .. MaxFaults
      BY <2>3, FaultType
    <3>3. log' \in [Addresses -> Seq(Transfers)]
      BY <2>1, <2>3, PublishAdds DEF StoreTyped
    <3>4. row' \in [Transfers -> RowType \cup {None}]
      BY <2>1, <2>3 DEF StoreTyped, RowType
    <3>5. queue' \in Seq([t : Transfers, left : 1 .. QueueRetries])
      BY <2>1, <2>3, SyncAssumption DEF StoreTyped
    <3>6. StoreTyped'
      BY <3>3, <3>4, <3>5 DEF StoreTyped
    <3> QED
      BY <1>2, <1>3, <3>1, <3>2, <3>6
  <2> QED
    BY <1>7, <2>2, <2>3 DEF Send
<1>8. CASE Mark
  <2>1. confirm.t \in Transfers
    BY <1>8 DEF Mark, ConfirmTyped
  <2>2. ConfirmTyped'
    BY <1>4, <1>8 DEF Mark
  <2>3. faults' \in 0 .. MaxFaults
    BY <1>8, FaultType DEF Mark
  <2>4. row' \in [Transfers -> RowType \cup {None}]
    <3>1. row \in [Transfers -> RowType \cup {None}]
      BY DEF StoreTyped
    <3>2. ASSUME row[confirm.t] # None
          PROVE  [row[confirm.t] EXCEPT !.status = "sent"] \in RowType
      BY <2>1, <3>1, <3>2 DEF RowType
    <3>3. CASE row' = row
      BY <3>1, <3>3
    <3>4. CASE row' # row
      <4>1. row[confirm.t] # None
        BY <1>8, <3>4 DEF Mark
      <4>2. row' = [row EXCEPT ![confirm.t].status = "sent"]
        BY <1>8, <3>4 DEF Mark
      <4> QED
        BY <2>1, <3>1, <3>2, <4>1, <4>2
    <3> QED
      BY <3>3, <3>4
  <2>5. StoreTyped'
    BY <1>8, <2>4 DEF Mark, StoreTyped
  <2> QED
    BY <1>2, <1>3, <2>2, <2>3, <2>5
<1>9. CASE EndBatch
  <2>1. StoreTyped' /\ faults' \in 0 .. MaxFaults
    BY <1>0, <1>9, OthersKeep, FaultType DEF EndBatch
  <2>2. ASSUME confirm' = ConfirmIdle PROVE ConfirmTyped'
    <3>1. /\ DOMAIN confirm' = DOMAIN ConfirmIdle /\ confirm'.pc = "idle"
          /\ confirm'.head = 0 /\ confirm'.err \in BOOLEAN /\ confirm'.left = 0
          /\ confirm'.todo = {} /\ DOMAIN confirm'.batch = {}
      BY <2>2, IdleTyped
    <3> QED
      BY <1>1, <3>1, SyncAssumption DEF ConfirmTyped
  <2>3. ASSUME /\ confirm.left > 0
               /\ confirm' = [confirm EXCEPT !.todo = DOMAIN confirm.batch, !.head = known,
                                             !.err = FALSE, !.left = @ - 1]
        PROVE  ConfirmTyped'
    <3>0. confirm.pc = "check"
      BY <1>9 DEF EndBatch
    <3>1. DOMAIN confirm' = DOMAIN confirm /\ confirm'.pc = confirm.pc
          /\ confirm'.batch = confirm.batch /\ confirm'.todo = DOMAIN confirm.batch
          /\ confirm'.head = known /\ confirm'.err \in BOOLEAN
          /\ confirm'.left = confirm.left - 1
      BY <2>3 DEF ConfirmTyped, ConfirmIdle
    <3>2. confirm'.left \in 0 .. BatchRetries
      BY <2>3, <3>1, SyncAssumption DEF ConfirmTyped
    <3> QED
      BY <1>1, <3>0, <3>1, <3>2 DEF ConfirmTyped
  <2>4. ConfirmTyped'
    BY <1>9, <2>2, <2>3 DEF EndBatch
  <2> QED
    BY <1>2, <1>3, <2>1, <2>4
<1> QED
  BY <1>5, <1>6, <1>7, <1>8, <1>9 DEF Confirmer

LEMMA BackgroundType ==
  ASSUME SyncTypeOK,
         \/ SyncCrash
         \/ \E t \in Transfers : Requeue(t) \/ Expire(t)
         \/ \E i \in DOMAIN queue : RetryMessage(i)
  PROVE  SyncTypeOK'
<1> USE DEF SyncTypeOK
<1>0. UNCHANGED <<chainVars, known, cursor>>
  BY DEF SyncCrash, Requeue, Expire, RetryMessage
<1>1. CASE SyncCrash
  <2>1. ScanTyped'
    BY <1>0, <1>1, IdleTyped DEF SyncCrash, ScanTyped, ChainTyped, chainVars
  <2>2. /\ DOMAIN confirm' = DOMAIN ConfirmIdle /\ confirm'.pc = "idle"
        /\ confirm'.head = 0 /\ confirm'.err \in BOOLEAN /\ confirm'.left = 0
        /\ confirm'.todo = {} /\ DOMAIN confirm'.batch = {}
    BY <1>1, IdleTyped DEF SyncCrash
  <2>3. ConfirmTyped'
    BY <1>0, <2>2, SyncAssumption DEF ConfirmTyped, ChainTyped
  <2>4. ChainTyped' /\ StoreTyped'
    BY <1>0, <1>1, FaultType, OthersKeep DEF SyncCrash, ChainTyped
  <2> QED
    BY <2>1, <2>3, <2>4
<1>2. ASSUME NEW t \in Transfers, Requeue(t) \/ Expire(t) PROVE SyncTypeOK'
  <2>1. ScanTyped' /\ ConfirmTyped' /\ UNCHANGED <<queue, log>>
    BY <1>0, <1>2, OthersKeep DEF Requeue, Expire
  <2>2. lost' \subseteq Transfers /\ faults' \in 0 .. MaxFaults
    BY <1>2, FaultType DEF Requeue, Expire, ChainTyped
  <2>3. ChainTyped'
    BY <1>0, <2>2, OthersKeep DEF ChainTyped
  <2>4. row' \in [Transfers -> RowType \cup {None}]
    <3>1. CASE Requeue(t)
      <4>1. row[t] \in RowType /\ row[t].left > 0
        <5>1. row[t] \in RowType \cup {None} /\ row[t] # None /\ row[t].left > 0
          BY <3>1 DEF Requeue, StoreTyped
        <5> QED
          BY <5>1
      <4>2. row[t].left - 1 \in 0 .. MaxRetries
        BY <4>1, SyncAssumption DEF RowType
      <4>3. row' = [row EXCEPT ![t].status = "pending", ![t].left = row[t].left - 1]
        BY <3>1 DEF Requeue, StoreTyped
      <4>4. row'[t] \in RowType
        BY <4>1, <4>2, <4>3 DEF StoreTyped, RowType
      <4> QED
        BY <4>3, <4>4 DEF StoreTyped
    <3>2. CASE Expire(t)
      BY <3>2 DEF Expire, StoreTyped
    <3> QED
      BY <1>2, <3>1, <3>2
  <2> QED
    BY <2>1, <2>3, <2>4 DEF StoreTyped
<1>3. ASSUME NEW i \in DOMAIN queue, RetryMessage(i) PROVE SyncTypeOK'
  <2> DEFINE Messages == [t : Transfers, left : 1 .. QueueRetries]
  <2>1. ScanTyped' /\ ConfirmTyped' /\ UNCHANGED row
    BY <1>0, <1>3, OthersKeep DEF RetryMessage
  <2>2. faults' \in 0 .. MaxFaults /\ lost' = lost
    BY <1>3, FaultType DEF RetryMessage
  <2>3. ChainTyped'
    BY <1>0, <2>2, OthersKeep DEF ChainTyped
  <2>4. queue \in Seq(Messages) /\ queue[i] \in Messages
    <3>1. queue \in Seq(Messages)
      BY DEF StoreTyped
    <3> HIDE DEF Messages
    <3> QED
      BY <3>1
  <2>5. RemoveAt(queue, i) \in Seq(Messages)
    BY <2>4, RemoveAtKeeps
  <2>6. queue[i].left # 1 => [queue EXCEPT ![i].left = @ - 1] \in Seq(Messages)
    <3>1. queue[i].left # 1 => [queue[i] EXCEPT !.left = @ - 1] \in Messages
      <4>1. PICK m \in Messages : m = queue[i]
        BY <2>4
      <4>2. m.left \in 1 .. QueueRetries /\ (m.left # 1 => m.left - 1 \in 1 .. QueueRetries)
        BY SyncAssumption
      <4>3. \A n \in 1 .. QueueRetries : [m EXCEPT !.left = n] \in Messages
        OBVIOUS
      <4>4. m.left # 1 => [m EXCEPT !.left = m.left - 1] \in Messages
        BY <4>2, <4>3
      <4> HIDE DEF Messages
      <4> QED
        BY <4>1, <4>4
    <3> QED
      BY <2>4, <3>1
  <2>7. queue' \in Seq(Messages)
    BY <1>3, <2>4, <2>5, <2>6 DEF RetryMessage
  <2>8. log' \in [Addresses -> Seq(Transfers)]
    <3>1. queue[i].t \in Transfers
      BY <2>4
    <3>2. Publish(queue[i].t) \/ UNCHANGED log
      BY <1>3 DEF RetryMessage
    <3> QED
      BY <3>1, <3>2, PublishAdds DEF StoreTyped
  <2> QED
    BY <2>1, <2>3, <2>7, <2>8 DEF StoreTyped
<1> QED
  BY <1>1, <1>2, <1>3

LEMMA SyncNextType == SyncTypeOK /\ [SyncNext]_syncVars => SyncTypeOK'
<1> SUFFICES ASSUME SyncTypeOK, [SyncNext]_syncVars PROVE SyncTypeOK'
  OBVIOUS
<1>1. CASE UNCHANGED syncVars
  BY <1>1 DEF syncVars, chainVars, SyncTypeOK, ChainTyped, ScanTyped, ConfirmTyped, StoreTyped
<1> QED
  BY <1>1, ChainStepType, ScannerType, ConfirmerType, BackgroundType DEF SyncNext

\* Rows, cursors and the loops' local state keep their types, and neither the
\* cursor nor the confirm loop's view of the head is ever ahead of the chain
\* (the loops of address_monitor_block_scanner.go and
\* transaction_confirm_manager.go), for any instance.
THEOREM SyncTypeCorrect == SyncSpec => []SyncTypeOK
BY SyncInitType, SyncNextType, PTL DEF SyncSpec

-------------------------------------------------------------------------------
(* Nothing is published before it is final.                                  *)

Unmoved(t) == TxOf[t] \notin moved
Final(t)   == Deep(TxOf[t]) /\ TxOf[t] \notin Reverted

\* As long as no reorganisation touches a transaction, every copy of its height
\* is right - in the scanner, in its row, in the batch the confirm loop holds -
\* and whoever is about to publish it has seen it final.
SeenInv ==
  /\ \A t \in scan.todo : scan.block # 0 /\ (Unmoved(t) => chain[TxOf[t]] = scan.block)
  /\ \A t \in Transfers : Unmoved(t) /\ row[t] # None => row[t].block = chain[TxOf[t]]
  /\ \A t \in DOMAIN confirm.batch : Unmoved(t) => confirm.batch[t] = chain[TxOf[t]]
  /\ confirm.pc \in {"send", "mark"} /\ Unmoved(confirm.t) => Final(confirm.t)
  /\ \A i \in DOMAIN queue : Unmoved(queue[i].t) => Final(queue[i].t)

SyncInv == SyncTypeOK /\ SeenInv /\ PublishedIsFinal

\* What has been in a block stays in it, and what is final stays final.
LEMMA FinalStays ==
  ASSUME SyncTypeOK, [SyncNext]_syncVars, NEW t \in Transfers, Unmoved(t)'
  PROVE  /\ Unmoved(t)
         /\ chain[TxOf[t]] # 0 => chain'[TxOf[t]] = chain[TxOf[t]]
         /\ Final(t) => Final(t)'
<1>0. TxOf[t] \in Txs /\ chain \in [Txs -> 0 .. head] /\ head \in Nat /\ Required \in Nat
  BY SyncAssumption DEF SyncTypeOK, ChainTyped
<1>1. CASE Mine
  <2> PICK S \in SUBSET {x \in Txs : chain[x] = 0} :
        chain' = [x \in Txs |-> IF x \in S THEN head + 1 ELSE chain[x]]
    BY <1>1 DEF Mine
  <2>1. moved' = moved /\ head' = head + 1
    BY <1>1 DEF Mine
  <2>2. chain[TxOf[t]] # 0 => chain'[TxOf[t]] = chain[TxOf[t]]
    BY <1>0
  <2> QED
    BY <1>0, <2>1, <2>2 DEF Unmoved, Final, Deep
<1>2. ASSUME NEW x \in Txs, Reorganise(x)
      PROVE  Unmoved(t) /\ chain'[TxOf[t]] = chain[TxOf[t]] /\ head' = head
  BY <1>0, <1>2 DEF Reorganise, Unmoved
<1>3. CASE UNCHANGED chainVars
  BY <1>3 DEF chainVars, Unmoved, Final, Deep
<1>4. CASE \E x \in Txs : Reorganise(x)
  BY <1>2, <1>4 DEF Final, Deep
<1>5. UNCHANGED chainVars \/ Mine \/ (\E x \in Txs : Reorganise(x))
  BY DEF SyncNext, syncVars, RefreshHead, Scanner, ScanStart, ScanFrom, ScanFetch, ScanSave,
     ScanAdvance, Confirmer, ConfirmStart, Check, Send, Mark, EndBatch, ScanAbort, SyncCrash,
     Requeue, Expire, RetryMessage
<1> QED
  BY <1>1, <1>3, <1>4, <1>5

\* Where the copies of a height may come from.
LEMMA ScanSees ==
  ASSUME SyncTypeOK, [SyncNext]_syncVars, NEW t \in scan'.todo
  PROVE  \/ t \in scan.todo /\ scan'.block = scan.block
         \/ UNCHANGED chainVars /\ scan'.block # 0 /\ chain[TxOf[t]] = scan'.block
<1>1. scan \in [pc : {"idle", "fetch", "save"}, block : 0 .. head, last : 0 .. head,
                todo : SUBSET Transfers]
  BY DEF SyncTypeOK, ScanTyped
<1>2. CASE scan' = scan
  BY <1>2
<1>3. CASE ScanStart
  BY <1>3 DEF ScanStart, ScanFrom
<1>4. CASE ScanFetch
  <2>1. t \in Shown(scan.block, scan.block) /\ scan'.block = scan.block
    BY <1>1, <1>4 DEF ScanFetch
  <2>2. chain[TxOf[t]] = scan.block /\ scan.block # 0
    BY <1>1, <1>4, <2>1, SyncAssumption DEF Shown, Between, SyncTypeOK, ChainTyped, ScanTyped, ScanFetch
  <2> QED
    BY <1>4, <2>1, <2>2 DEF ScanFetch
<1>5. CASE ScanSave
  BY <1>1, <1>5 DEF ScanSave
<1>6. CASE ScanAdvance
  BY <1>1, <1>6, IdleTyped DEF ScanAdvance
<1>7. CASE ScanAbort \/ SyncCrash
  BY <1>7, IdleTyped DEF ScanAbort, SyncCrash
<1>8. \/ scan' = scan \/ ScanStart \/ ScanFetch \/ ScanSave \/ ScanAdvance \/ ScanAbort
      \/ SyncCrash
  BY DEF SyncNext, syncVars, Mine, Reorganise, RefreshHead, Scanner, Confirmer, ConfirmStart,
     Check, Send, Mark, EndBatch, Requeue, Expire, RetryMessage
<1> QED
  BY <1>2, <1>3, <1>4, <1>5, <1>6, <1>7, <1>8

LEMMA RowSees ==
  ASSUME SyncTypeOK, [SyncNext]_syncVars, NEW t \in Transfers, row'[t] # None
  PROVE  \/ row[t] # None /\ row'[t].block = row[t].block
         \/ UNCHANGED chainVars /\ scan.pc = "save" /\ t \in scan.todo
            /\ row'[t].block = scan.block
<1>1. row \in [Transfers -> RowType \cup {None}] /\ (row[t] # None => row[t] \in RowType)
  BY DEF SyncTypeOK, StoreTyped
<1>2. CASE row' = row
  BY <1>2
<1>3. CASE ScanSave
  BY <1>1, <1>3 DEF ScanSave, First, NewRow
<1>4. CASE \E u \in Transfers : Requeue(u) \/ Expire(u)
  BY <1>1, <1>4 DEF Requeue, Expire, RowType
<1>5. ASSUME NEW u, NEW status, NEW left, Restated(u, status, left)
      PROVE  row[t] # None /\ row'[t].block = row[t].block
  BY <1>1, <1>5 DEF Restated, RowType
<1>6. CASE Send \/ Mark
  <2>1. \/ row' = row
        \/ row[confirm.t] # None /\ row' = [row EXCEPT ![confirm.t].status = "failed"]
        \/ row[confirm.t] # None /\ row' = [row EXCEPT ![confirm.t].status = "sent"]
    BY <1>6 DEF Send, Mark
  <2> QED
    BY <1>1, <2>1 DEF RowType
<1>7. CASE Check
  BY <1>5, <1>7 DEF Check
<1>8. \/ row' = row \/ ScanSave \/ (\E u \in Transfers : Requeue(u) \/ Expire(u))
      \/ Send \/ Mark \/ Check
  BY DEF SyncNext, syncVars, Mine, Reorganise, RefreshHead, Scanner, ScanStart, ScanFrom,
     ScanFetch, ScanAdvance, Confirmer, ConfirmStart, EndBatch, ScanAbort, SyncCrash, RetryMessage
<1> QED
  BY <1>2, <1>3, <1>4, <1>6, <1>7, <1>8

LEMMA ConfirmSees ==
  ASSUME SyncTypeOK, [SyncNext]_syncVars
  PROVE  /\ \/ confirm'.batch = confirm.batch
            \/ DOMAIN confirm'.batch = {}
            \/ /\ UNCHANGED chainVars
               /\ \A t \in DOMAIN confirm'.batch :
                    row[t] # None /\ confirm'.batch[t] = row[t].block
         /\ confirm'.pc \in {"send", "mark"} =>
              \/ confirm.pc \in {"send", "mark"} /\ confirm'.t = confirm.t
              \/ /\ UNCHANGED chainVars
                 /\ confirm'.t \in DOMAIN confirm.batch /\ DeepEnough(confirm'.t)
                 /\ chain[TxOf[confirm'.t]] # 0 /\ TxOf[confirm'.t] \notin Reverted
<1>1. ConfirmTyped
  BY DEF SyncTypeOK
<1>2. CASE confirm' = confirm
  BY <1>2
<1>3. CASE confirm' = ConfirmIdle
  BY <1>3, IdleTyped
<1>4. CASE ConfirmStart
  BY <1>4 DEF ConfirmStart
<1>5. ASSUME NEW t, NEW err \in BOOLEAN, Passes(t, err)
      PROVE  confirm'.batch = confirm.batch /\ confirm'.pc = "check"
  BY <1>1, <1>5, PassesKeeps
<1>6. CASE Check
  <2> DEFINE t == First(confirm.todo)
  <2>1. t \in DOMAIN confirm.batch
    BY <1>1, <1>6 DEF Check, First, ConfirmTyped
  <2>2. CASE \E err \in BOOLEAN : Passes(t, err)
    BY <1>5, <2>2
  <2>3. CASE /\ DeepEnough(t) /\ chain[TxOf[t]] # 0 /\ TxOf[t] \notin Reverted
             /\ confirm' = [confirm EXCEPT !.pc = "send", !.t = t]
    <3>1. confirm'.batch = confirm.batch /\ confirm'.t = t
      BY <1>1, <2>3 DEF ConfirmTyped, ConfirmIdle
    <3>2. UNCHANGED chainVars
      BY <1>6 DEF Check
    <3> HIDE DEF t
    <3> QED
      BY <2>1, <2>3, <3>1, <3>2
  <2> QED
    BY <1>6, <2>2, <2>3 DEF Check
<1>7. CASE Send
  <2>1. CASE confirm' = [confirm EXCEPT !.pc = "mark"]
    BY <1>1, <1>7, <2>1 DEF Send, ConfirmTyped, ConfirmIdle
  <2> QED
    BY <1>5, <1>7, <2>1 DEF Send
<1>8. CASE Mark
  BY <1>5, <1>8 DEF Mark
<1>9. CASE EndBatch
  <2>1. confirm' = ConfirmIdle \/ (confirm'.batch = confirm.batch /\ confirm'.pc = "check")
    BY <1>1, <1>9 DEF EndBatch, ConfirmTyped, ConfirmIdle
  <2> QED
    BY <1>3, <2>1
<1>10. \/ confirm' = confirm \/ confirm' = ConfirmIdle \/ ConfirmStart \/ Check \/ Send
       \/ Mark \/ EndBatch
  BY DEF SyncNext, syncVars, Mine, Reorganise, RefreshHead, Scanner, ScanStart, ScanFrom,
     ScanFetch, ScanSave, ScanAdvance, Confirmer, ScanAbort, SyncCrash, Requeue, Expire,
     RetryMessage
<1> QED
  BY <1>2, <1>3, <1>4, <1>6, <1>7, <1>8, <1>9, <1>10

\* Only what the confirm loop sends gets into the queue and, from either, out.
LEMMA QueueSees ==
  ASSUME SyncTypeOK, [SyncNext]_syncVars
  PROVE  /\ \A i \in DOMAIN queue' :
              \/ \E k \in DOMAIN queue : queue'[i].t = queue[k].t
              \/ confirm.pc = "send" /\ queue'[i].t = confirm.t
         /\ \A t \in Published' :
              \/ t \in Published
              \/ \E k \in DOMAIN queue : t = queue[k].t
              \/ confirm.pc = "send" /\ t = confirm.t
<1> DEFINE Messages == [t : Transfers, left : 1 .. QueueRetries]
<1>1. queue \in Seq(Messages)
  BY DEF SyncTypeOK, StoreTyped
<1>2. CASE UNCHANGED <<queue, log>>
  BY <1>2 DEF Published
<1>3. CASE Send
  <2>1. confirm.pc = "send" /\ confirm.t \in Transfers
    BY <1>3 DEF Send, SyncTypeOK, ConfirmTyped
  <2>2. queue' = queue \/ queue' = Append(queue, [t |-> confirm.t, left |-> QueueRetries])
    BY <1>3 DEF Send
  <2>3. \A i \in DOMAIN queue' :
          (\E k \in DOMAIN queue : queue'[i].t = queue[k].t) \/ queue'[i].t = confirm.t
    <3>1. CASE queue' = queue
      BY <3>1
    <3>2. CASE queue' = Append(queue, [t |-> confirm.t, left |-> QueueRetries])
      <4> TAKE i \in DOMAIN queue'
      <4>1. i \in 1 .. Len(queue) + 1
        BY <1>1, <3>2
      <4>2. CASE i = Len(queue) + 1
        BY <1>1, <3>2, <4>2
      <4>3. CASE i # Len(queue) + 1
        <5>1. i \in DOMAIN queue /\ queue'[i] = queue[i]
          BY <1>1, <3>2, <4>1, <4>3
        <5> QED
          BY <5>1
      <4> QED
        BY <4>2, <4>3
    <3> QED
      BY <2>2, <3>1, <3>2
  <2>4. Published' \subseteq Published \cup {confirm.t}
    <3>1. Publish(confirm.t) \/ UNCHANGED log
      BY <1>3 DEF Send
    <3> QED
      BY <2>1, <3>1, PublishAdds DEF SyncTypeOK, Published
  <2> QED
    BY <2>1, <2>3, <2>4
<1>4. ASSUME NEW i \in DOMAIN queue, RetryMessage(i)
      PROVE  /\ \A j \in DOMAIN queue' : \E k \in DOMAIN queue : queue'[j].t = queue[k].t
             /\ Published' \subseteq Published \cup {queue[i].t}
  <2>1. \A j \in DOMAIN queue : queue[j] \in Messages
    <3> HIDE DEF Messages
    <3> QED
      BY <1>1
  <2>2. \/ queue' = queue \/ queue' = RemoveAt(queue, i)
        \/ queue' = [queue EXCEPT ![i].left = @ - 1]
    BY <1>4 DEF RetryMessage
  <2>3. \A j \in DOMAIN queue' : \E k \in DOMAIN queue : queue'[j].t = queue[k].t
    <3>1. CASE queue' = queue
      BY <3>1
    <3>2. CASE queue' = RemoveAt(queue, i)
      <4>1. \A j \in DOMAIN RemoveAt(queue, i) :
              \E k \in DOMAIN queue : RemoveAt(queue, i)[j] = queue[k]
        BY <1>1, RemoveAtKeeps
      <4> QED
        BY <3>2, <4>1
    <3>3. CASE queue' = [queue EXCEPT ![i].left = @ - 1]
      <4>1. DOMAIN queue' = DOMAIN queue /\ \A j \in DOMAIN queue : queue'[j].t = queue[j].t
        <5>1. DOMAIN queue' = DOMAIN queue
          BY <1>1, <3>3
        <5>2. ASSUME NEW j \in DOMAIN queue PROVE queue'[j].t = queue[j].t
          BY <2>1, <3>3
        <5> QED
          BY <5>1, <5>2
      <4> QED
        BY <4>1
    <3> QED
      BY <2>2, <3>1, <3>2, <3>3
  <2>4. Publish(queue[i].t) \/ UNCHANGED log
    BY <1>4 DEF RetryMessage
  <2>5. Published' \subseteq Published \cup {queue[i].t}
    BY <2>1, <2>4, PublishAdds DEF SyncTypeOK, Published
  <2> QED
    BY <2>3, <2>5
<1>5. UNCHANGED <<queue, log>> \/ Send \/ \E i \in DOMAIN queue : RetryMessage(i)
  BY DEF SyncNext, syncVars, Mine, Reorganise, RefreshHead, Scanner, ScanStart, ScanFrom,
     ScanFetch, ScanSave, ScanAdvance, Confirmer, ConfirmStart, Check, Mark, EndBatch, ScanAbort,
     SyncCrash, Requeue, Expire
<1> QED
  BY <1>2, <1>3, <1>4, <1>5

LEMMA SyncInvInit == SyncInit => SyncInv
<1> SUFFICES ASSUME SyncInit PROVE SyncInv
  OBVIOUS
<1>1. SeenInv
  BY IdleTyped DEF SyncInit, SeenInv
<1>2. PublishedIsFinal
  BY DEF SyncInit, PublishedIsFinal, Published, Range
<1> QED
  BY <1>1, <1>2, SyncInitType DEF SyncInv

LEMMA SyncInvNext == SyncInv /\ [SyncNext]_syncVars => SyncInv'
<1> SUFFICES ASSUME SyncInv, [SyncNext]_syncVars PROVE SyncInv'
  OBVIOUS
<1>0. SyncTypeOK /\ SyncTypeOK' /\ SeenInv /\ PublishedIsFinal
  BY SyncNextType DEF SyncInv
<1>1. ASSUME NEW t \in scan'.todo
      PROVE  scan'.block # 0 /\ (Unmoved(t)' => chain'[TxOf[t]] = scan'.block)
  <2>1. t \in Transfers
    BY <1>0 DEF SyncTypeOK, ScanTyped
  <2> QED
    BY <1>0, <2>1, ScanSees, FinalStays DEF SeenInv, chainVars
<1>2. ASSUME NEW t \in Transfers, Unmoved(t)', row'[t] # None
      PROVE  row'[t].block = chain'[TxOf[t]]
  <2>1. Unmoved(t)
    BY <1>0, <1>2, FinalStays
  <2>2. CASE row[t] # None /\ row'[t].block = row[t].block
    <3>1. row[t].block = chain[TxOf[t]] /\ row[t].block \in 1 .. MaxHead
      BY <1>0, <2>1, <2>2 DEF SeenInv, SyncTypeOK, StoreTyped, RowType
    <3> QED
      BY <1>0, <1>2, <2>2, <3>1, FinalStays
  <2>3. CASE UNCHANGED chainVars /\ t \in scan.todo /\ row'[t].block = scan.block
    BY <1>0, <2>1, <2>3 DEF SeenInv, chainVars
  <2> QED
    BY <1>0, <1>2, <2>2, <2>3, RowSees
<1>3. ASSUME NEW t \in DOMAIN confirm'.batch, Unmoved(t)'
      PROVE  confirm'.batch[t] = chain'[TxOf[t]]
  <2>1. t \in Transfers
    BY <1>0 DEF SyncTypeOK, ConfirmTyped
  <2>2. Unmoved(t)
    BY <1>0, <1>3, <2>1, FinalStays
  <2>3. CASE confirm'.batch = confirm.batch
    <3>1. confirm.batch[t] = chain[TxOf[t]] /\ confirm.batch[t] # 0
      BY <1>0, <2>2, <2>3 DEF SeenInv, SyncTypeOK, ConfirmTyped, ChainTyped
    <3> QED
      BY <1>0, <1>3, <2>1, <2>3, <3>1, FinalStays
  <2>4. CASE UNCHANGED chainVars /\ row[t] # None /\ confirm'.batch[t] = row[t].block
    BY <1>0, <2>1, <2>2, <2>4 DEF SeenInv, chainVars
  <2> QED
    BY <1>0, <2>3, <2>4, ConfirmSees
<1>4. ASSUME confirm'.pc \in {"send", "mark"}, NEW t \in Transfers, t = confirm'.t, Unmoved(t)'
      PROVE  Final(t)'
  <2>1. Unmoved(t)
    BY <1>0, <1>4, FinalStays
  <2>2. CASE confirm.pc \in {"send", "mark"} /\ t = confirm.t
    BY <1>0, <1>4, <2>1, <2>2, FinalStays DEF SeenInv
  <2>3. CASE /\ t \in DOMAIN confirm.batch /\ DeepEnough(t)
             /\ chain[TxOf[t]] # 0 /\ TxOf[t] \notin Reverted
    <3>1. confirm.batch[t] = chain[TxOf[t]]
      BY <1>0, <2>1, <2>3 DEF SeenInv
    <3>2. /\ chain[TxOf[t]] \in Nat /\ head \in Nat /\ Required \in Nat
          /\ confirm.head \in Nat /\ confirm.head <= head
      BY <1>0, SyncAssumption DEF SyncTypeOK, ChainTyped, ConfirmTyped
    <3>3. Deep(TxOf[t])
      BY <2>3, <3>1, <3>2 DEF DeepEnough, Deep
    <3> QED
      BY <1>0, <1>4, <2>3, <3>3, FinalStays DEF Final
  <2> QED
    BY <1>0, <1>4, <2>2, <2>3, ConfirmSees
<1>5. ASSUME NEW t \in Transfers, Unmoved(t)',
             (\E k \in DOMAIN queue : t = queue[k].t) \/ (confirm.pc = "send" /\ t = confirm.t)
                \/ t \in Published
      PROVE  Final(t)'
  <2>1. Unmoved(t)
    BY <1>0, <1>5, FinalStays
  <2>2. Final(t)
    BY <1>0, <1>5, <2>1 DEF SeenInv, PublishedIsFinal, Unmoved, Final
  <2> QED
    BY <1>0, <1>5, <2>2, FinalStays
<1>6. ASSUME NEW i \in DOMAIN queue' PROVE Unmoved(queue[i].t)' => Final(queue[i].t)'
  <2>1. PICK t \in Transfers : t = queue'[i].t
    <3> DEFINE Messages == [t : Transfers, left : 1 .. QueueRetries]
    <3>1. queue' \in Seq(Messages)
      BY <1>0 DEF SyncTypeOK, StoreTyped
    <3> HIDE DEF Messages
    <3>2. queue'[i] \in Messages
      BY <3>1
    <3> QED
      BY <3>2 DEF Messages
  <2>2. Unmoved(t)' => Final(t)'
    BY <1>0, <1>5, <2>1, QueueSees
  <2> QED
    BY <2>1, <2>2 DEF Unmoved, Final, Deep
<1>7. PublishedIsFinal'
  <2>1. ASSUME NEW t \in Published' PROVE t \in Transfers
    BY <1>0 DEF SyncTypeOK, StoreTyped, Published, Range
  <2>2. ASSUME NEW t \in Published', Unmoved(t)' PROVE Final(t)'
    BY <1>0, <1>5, <2>1, <2>2, QueueSees
  <2> QED
    BY <2>2 DEF PublishedIsFinal, Unmoved, Final
<1>8. (confirm.pc \in {"send", "mark"} /\ Unmoved(confirm.t) => Final(confirm.t))'
  <2> SUFFICES ASSUME confirm'.pc \in {"send", "mark"}
               PROVE  (Unmoved(confirm.t) => Final(confirm.t))'
    OBVIOUS
  <2>1. PICK t \in Transfers : t = confirm'.t
    BY <1>0 DEF SyncTypeOK, ConfirmTyped
  <2>2. Unmoved(t)' => Final(t)'
    BY <1>4, <2>1
  <2> QED
    BY <2>1, <2>2 DEF Unmoved, Final, Deep
<1>9. SeenInv'
  BY <1>1, <1>2, <1>3, <1>6, <1>8 DEF SeenInv
<1> QED
  BY <1>0, <1>7, <1>9 DEF SyncInv

\* Of the transactions no reorganisation has touched only executed ones that are
\* out of its reach are ever published, whatever is retried, queued, requeued,
\* swept or restarted, for any number of transfers and faults (Check and the
\* retry paths of unconfirmed_transaction_batch_processor.go).
THEOREM OnlyFinalIsPublished == SyncSpec => []PublishedIsFinal
<1>1. SyncInv => PublishedIsFinal
  BY DEF SyncInv
<1> QED
  BY <1>1, SyncInvInit, SyncInvNext, PTL DEF SyncSpec

-------------------------------------------------------------------------------
(* Nothing slips by the cursor.                                              *)

Accounted(t) ==
  row[t] # None \/ TxOf[t] \in moved \/ TxOf[t] \in Reverted \/ t \in lost

\* The scanner leaves nothing behind, neither below the cursor nor below the block
\* it is at, and of that block only what it still has to store.
StoredInv ==
  /\ \A t \in Shown(2, cursor) : Accounted(t)
  /\ scan.pc # "idle" => \A t \in Shown(2, scan.block - 1) : Accounted(t)
  /\ scan.pc = "save" =>
       \A t \in Shown(scan.block, scan.block) : t \in scan.todo \/ Accounted(t)

\* A row is only ever deleted together with a note that it is lost.
LEMMA AccountedStays ==
  ASSUME SyncTypeOK, [SyncNext]_syncVars, NEW t \in Transfers, Accounted(t)
  PROVE  Accounted(t)'
<1>1. moved \subseteq moved' /\ lost \subseteq lost'
  BY DEF SyncNext, syncVars, chainVars, Mine, Reorganise, RefreshHead, Scanner, ScanStart, ScanFrom,
     ScanFetch, ScanSave, ScanAdvance, Confirmer, ConfirmStart, Check, Send, Mark, EndBatch,
     ScanAbort, SyncCrash, Requeue, Expire, RetryMessage
<1>2. row[t] # None => row'[t] # None \/ t \in lost'
  <2> SUFFICES ASSUME row[t] # None PROVE row'[t] # None \/ t \in lost'
    OBVIOUS
  <2>0. row \in [Transfers -> RowType \cup {None}] /\ row[t] \in RowType
    BY DEF SyncTypeOK, StoreTyped
  <2>1. None \notin RowType
    BY SyncAssumption DEF RowType
  <2>2. \A status \in {"pending", "sent", "failed"} :
          [row[t] EXCEPT !.status = status] \in RowType
    BY <2>0 DEF RowType
  <2>3. \A status \in {"pending", "sent", "failed"}, left \in 0 .. MaxRetries :
          [row[t] EXCEPT !.status = status, !.left = left] \in RowType
    BY <2>0 DEF RowType
  <2>4. CASE row' = row
    BY <2>4
  <2>5. CASE ScanSave
    BY <2>5 DEF ScanSave
  <2>6. ASSUME NEW u \in Transfers, Requeue(u) PROVE row'[t] # None
    <3>1. CASE u = t
      <4>1. row[t].left - 1 \in 0 .. MaxRetries
        BY <2>0, <2>6, <3>1, SyncAssumption DEF Requeue, RowType
      <4>2. row'[t] = [row[t] EXCEPT !.status = "pending", !.left = row[t].left - 1]
        BY <2>0, <2>6, <3>1 DEF Requeue
      <4>3. row'[t] \in RowType
        BY <2>3, <4>1, <4>2
      <4> QED
        BY <2>1, <4>3
    <3>2. CASE u # t
      BY <2>0, <2>6, <3>2 DEF Requeue
    <3> QED
      BY <3>1, <3>2
  <2>7. ASSUME NEW u \in Transfers, Expire(u) PROVE row'[t] # None \/ t \in lost'
    BY <2>0, <2>7 DEF Expire
  <2>8. CASE Send \/ Mark
    <3>1. \/ row' = row
          \/ row' = [row EXCEPT ![confirm.t].status = "failed"]
          \/ row' = [row EXCEPT ![confirm.t].status = "sent"]
      BY <2>8 DEF Send, Mark
    <3>2. \/ row'[t] = row[t]
          \/ row'[t] = [row[t] EXCEPT !.status = "failed"]
          \/ row'[t] = [row[t] EXCEPT !.status = "sent"]
      BY <2>0, <3>1
    <3> QED
      BY <2>1, <2>2, <3>2
  <2>9. CASE Check
    <3>1. row' = row \/ Restated(First(confirm.todo), "failed", 0)
      BY <2>9 DEF Check
    <3>2. row'[t] = row[t] \/ row'[t] = [row[t] EXCEPT !.status = "failed", !.left = 0]
      BY <2>0, <3>1 DEF Restated
    <3>3. 0 \in 0 .. MaxRetries
      BY SyncAssumption
    <3> QED
      BY <2>1, <2>3, <3>2, <3>3
  <2>10. \/ row' = row \/ ScanSave \/ (\E u \in Transfers : Requeue(u) \/ Expire(u))
         \/ Send \/ Mark \/ Check
    BY DEF SyncNext, syncVars, Mine, Reorganise, RefreshHead, Scanner, ScanStart, ScanFrom,
       ScanFetch, ScanAdvance, Confirmer, ConfirmStart, EndBatch, ScanAbort, SyncCrash,
       RetryMessage
  <2> QED
    BY <2>4, <2>5, <2>6, <2>7, <2>8, <2>9, <2>10
<1> QED
  BY <1>1, <1>2 DEF Accounted

\* A transaction gets into a block below the head only by a reorganisation.
LEMMA BelowStays ==
  ASSUME SyncTypeOK, [SyncNext]_syncVars, NEW t \in Transfers,
         NEW low \in Nat \ {0}, NEW high \in Nat, high <= head,
         chain'[TxOf[t]] \in low .. high
  PROVE  chain[TxOf[t]] \in low .. high \/ Accounted(t)'
<1>0. TxOf[t] \in Txs /\ chain \in [Txs -> 0 .. head] /\ head \in Nat
  BY SyncAssumption DEF SyncTypeOK, ChainTyped
<1>1. CASE Mine
  <2> PICK S \in SUBSET {x \in Txs : chain[x] = 0} :
        chain' = [x \in Txs |-> IF x \in S THEN head + 1 ELSE chain[x]]
    BY <1>1 DEF Mine
  <2> QED
    BY <1>0
<1>2. ASSUME NEW x \in Txs, Reorganise(x)
      PROVE  chain'[TxOf[t]] = chain[TxOf[t]] \/ TxOf[t] \in moved'
  BY <1>0, <1>2 DEF Reorganise
<1>3. CASE UNCHANGED chainVars
  BY <1>3 DEF chainVars
<1>4. UNCHANGED chainVars \/ Mine \/ (\E x \in Txs : Reorganise(x))
  BY DEF SyncNext, syncVars, RefreshHead, Scanner, ScanStart, ScanFrom, ScanFetch, ScanSave,
     ScanAdvance, Confirmer, ConfirmStart, Check, Send, Mark, EndBatch, ScanAbort, SyncCrash,
     Requeue, Expire, RetryMessage
<1> QED
  BY <1>1, <1>2, <1>3, <1>4 DEF Accounted

\* Below what has been scanned everything is accounted for.
LEMMA StoredStep ==
  ASSUME SyncTypeOK, StoredInv, [SyncNext]_syncVars
  PROVE  StoredInv'
<1>0. /\ TxOf \in [Transfers -> Txs] /\ chain \in [Txs -> 0 .. head] /\ head \in Nat
      /\ cursor \in 1 .. head /\ scan.block \in 0 .. head
      /\ scan.pc # "idle" => scan.block \in 1 .. head
  BY SyncAssumption DEF SyncTypeOK, ChainTyped, ScanTyped
<1>1. ASSUME NEW t \in Transfers, TxOf[t] \in Relevant
      PROVE  /\ chain[TxOf[t]] \in 2 .. cursor => Accounted(t)
             /\ scan.pc # "idle" /\ chain[TxOf[t]] \in 2 .. scan.block - 1 => Accounted(t)
             /\ scan.pc = "save" /\ chain[TxOf[t]] = scan.block =>
                  t \in scan.todo \/ Accounted(t)
  BY <1>0, <1>1 DEF StoredInv, Shown, Between
<1>2. ASSUME NEW t \in Transfers, TxOf[t] \in Relevant
      PROVE  /\ chain'[TxOf[t]] \in 2 .. cursor => Accounted(t)'
             /\ scan.pc # "idle" /\ chain'[TxOf[t]] \in 2 .. scan.block - 1 => Accounted(t)'
             /\ scan.pc = "save" /\ chain'[TxOf[t]] = scan.block =>
                  t \in scan.todo \/ Accounted(t)'
  <2>1. ASSUME chain'[TxOf[t]] \in 2 .. cursor PROVE Accounted(t)'
    BY <1>0, <1>1, <1>2, <2>1, BelowStays, AccountedStays
  <2>2. ASSUME scan.pc # "idle", chain'[TxOf[t]] \in 2 .. scan.block - 1 PROVE Accounted(t)'
    <3>1. scan.block - 1 \in Nat /\ scan.block - 1 <= head
      BY <1>0, <2>2
    <3> QED
      BY <1>0, <1>1, <1>2, <2>2, <3>1, BelowStays, AccountedStays
  <2>3. ASSUME scan.pc = "save", chain'[TxOf[t]] = scan.block
        PROVE  t \in scan.todo \/ Accounted(t)'
    <3>1. scan.block \in Nat \ {0} /\ chain'[TxOf[t]] \in scan.block .. scan.block
      BY <1>0, <2>3
    <3>2. chain[TxOf[t]] \in scan.block .. scan.block \/ Accounted(t)'
      BY <1>0, <3>1, BelowStays
    <3> QED
      BY <1>0, <1>1, <1>2, <2>3, <3>2, AccountedStays
  <2> QED
    BY <2>1, <2>2, <2>3
<1> SUFFICES ASSUME NEW t \in Transfers, TxOf[t] \in Relevant
               PROVE  /\ chain'[TxOf[t]] \in 2 .. cursor' => Accounted(t)'
                      /\ scan'.pc # "idle" /\ chain'[TxOf[t]] \in 2 .. scan'.block - 1 =>
                           Accounted(t)'
                      /\ scan'.pc = "save" /\ chain'[TxOf[t]] = scan'.block =>
                           t \in scan'.todo \/ Accounted(t)'
  <2>1. \A t \in Transfers :
          chain'[TxOf[t]] \in scan'.block .. scan'.block => chain'[TxOf[t]] = scan'.block
    BY SyncNextType, SyncAssumption DEF SyncTypeOK, ChainTyped, ScanTyped
  <2> QED
    BY <2>1 DEF StoredInv, Shown, Between
<1>3. CASE cursor' = cursor /\ (scan' = scan \/ scan' = ScanIdle)
  BY <1>2, <1>3, IdleTyped
<1>4. scan \in [pc : {"idle", "fetch", "save"}, block : 0 .. head, last : 0 .. head,
                todo : SUBSET Transfers]
  BY DEF SyncTypeOK, ScanTyped
<1>5. CASE ScanStart
  <2>1. PICK base \in Nat :
          /\ ScanFrom(base)
          /\ \/ base = cursor
             \/ lost' = lost \cup {u \in Shown(cursor + 1, base) : row[u] = None}
    <3>1. Fallback \in Nat
      BY SyncAssumption DEF Fallback, SyncTypeOK, ChainTyped
    <3> QED
      BY <1>0, <1>5, <3>1 DEF ScanStart
  <2>2. chain' = chain /\ cursor' = cursor /\ scan'.pc = "fetch" /\ scan'.block - 1 = base
    BY <2>1 DEF ScanFrom, chainVars
  <2>3. ASSUME chain[TxOf[t]] \in 2 .. base PROVE Accounted(t)'
    <3>1. CASE chain[TxOf[t]] \in 2 .. cursor
      BY <1>2, <2>2, <3>1
    <3>2. CASE chain[TxOf[t]] \in cursor + 1 .. base /\ base # cursor /\ row[t] = None
      BY <2>1, <3>2 DEF Shown, Between, Accounted
    <3>3. CASE row[t] # None
      BY <3>3, AccountedStays DEF Accounted
    <3> QED
      BY <1>0, <2>3, <3>1, <3>2, <3>3
  <2> QED
    BY <1>2, <2>2, <2>3
<1>6. CASE ScanFetch
  <2>1. PICK seen \in SUBSET Reverted, missed \in SUBSET Shown(scan.block, scan.block) :
          /\ lost' = lost \cup missed
          /\ scan' = [scan EXCEPT !.pc = "save",
               !.todo = {u \in Shown(scan.block, scan.block) : TxOf[u] \notin seen} \ missed]
    BY <1>6 DEF ScanFetch
  <2>2. /\ chain' = chain /\ cursor' = cursor /\ scan.pc # "idle" /\ scan'.block = scan.block
        /\ scan'.todo = {u \in Shown(scan.block, scan.block) : TxOf[u] \notin seen} \ missed
    BY <1>4, <1>6, <2>1 DEF ScanFetch, chainVars
  <2>3. ASSUME chain[TxOf[t]] = scan.block PROVE t \in scan'.todo \/ Accounted(t)'
    <3>1. t \in Shown(scan.block, scan.block)
      BY <1>0, <2>3 DEF Shown, Between
    <3> QED
      BY <2>1, <2>2, <3>1 DEF Accounted
  <2> QED
    BY <1>2, <2>2, <2>3
<1>7. CASE ScanSave
  <2>1. /\ chain' = chain /\ cursor' = cursor /\ scan.pc = "save" /\ scan'.block = scan.block
        /\ scan'.todo = scan.todo \ {First(scan.todo)}
    BY <1>4, <1>7 DEF ScanSave, chainVars
  <2>2. ASSUME t = First(scan.todo) PROVE Accounted(t)'
    <3>1. CASE row[t] # None
      BY <3>1, AccountedStays DEF Accounted
    <3>2. CASE row[t] = None
      <4>1. row'[t] = NewRow(scan.block)
        BY <1>7, <2>2, <3>2 DEF ScanSave, SyncTypeOK, StoreTyped
      <4>2. NewRow(scan.block) \in [block : Nat, status : {"pending", "sent", "failed"}, left : Nat]
        BY <1>0, SyncAssumption DEF NewRow
      <4> QED
        BY <4>1, <4>2, SyncAssumption DEF Accounted
    <3> QED
      BY <3>1, <3>2
  <2> QED
    BY <1>2, <2>1, <2>2
<1>8. CASE ScanAdvance
  <2>1. /\ chain' = chain /\ scan.pc = "save" /\ scan.todo = {}
        /\ cursor' \in {cursor, scan.block}
        /\ scan' = ScanIdle \/ (scan'.pc = "fetch" /\ scan'.block - 1 = scan.block)
    BY <1>0, <1>4, <1>8 DEF ScanAdvance, chainVars
  <2>2. chain[TxOf[t]] \in 2 .. scan.block => Accounted(t)'
    BY <1>0, <1>2, <2>1
  <2> QED
    BY <1>2, <2>1, <2>2, IdleTyped
<1> QED
  <2>1. \/ cursor' = cursor /\ (scan' = scan \/ scan' = ScanIdle)
        \/ ScanStart \/ ScanFetch \/ ScanSave \/ ScanAdvance
    BY DEF SyncNext, syncVars, Mine, Reorganise, RefreshHead, Scanner, Confirmer, ConfirmStart,
       Check, Send, Mark, EndBatch, ScanAbort, SyncCrash, Requeue, Expire, RetryMessage
  <2> QED
    BY <1>3, <1>5, <1>6, <1>7, <1>8, <2>1

\* Every transfer of a relevant transaction in a block at or below the cursor is
\* stored, or known to be moved, reverted or dropped, however often the scan is cut short, restarted or
\* sent back (scanNewBlocksBatch and its cursor in Redis), for any instance.
THEOREM NothingSlipsBy == SyncSpec => []ScannedIsStored
<1>1. SyncInit => StoredInv
  BY IdleTyped DEF SyncInit, StoredInv, Shown, Between
<1>2. StoredInv => ScannedIsStored
  BY DEF StoredInv, ScannedIsStored, Accounted
<1>3. SyncTypeOK /\ StoredInv /\ [SyncNext]_syncVars => StoredInv'
  BY StoredStep
<1> QED
  BY <1>1, <1>2, <1>3, SyncInitType, SyncNextType, PTL DEF SyncSpec

-------------------------------------------------------------------------------
(* PART 2: the deposit pipeline.                                             *)

-------------------------------------------------------------------------------
(* The inductive invariant.                                                  *)

Stages == {"credit", "record", "seen", "read", "add", "mark"}
Hand   == [pc : Stages \cup {"idle"}, t : Transfers \cup {None}, prev : Nat]
Rows   == [Txs -> Deposits \cup {None}]

Shapes ==
  /\ posted = [k \in LedgerKeys |-> posted[k]]
  /\ owner \in [Addresses -> Consumers]
  /\ next \in [Addresses -> Nat]
  /\ committed = [a \in Addresses |-> committed[a]]
  /\ proc \in [Consumers -> [Addresses -> Hand]]
  /\ deposit \in Rows /\ change \in Rows
  /\ addressBalance \in [Addresses -> Nat]
  /\ dropped \in [Transfers -> {None, "skipped", "ignored", "refused", "error"}]

\* A partition holds the messages of its address, and no offset is past its end.
PartitionAt(a) ==
  /\ \A i \in DOMAIN log[a] : AddressOf[log[a][i]] = a
  /\ next[a] <= Len(log[a])
  /\ committed[a] \in {None} \cup (1 .. Len(log[a]))

\* What a replica works on is a message of the partition; past its booking it is
\* a deposit the ledger has booked; the owner of the partition still has to mark it.
HandAt(c, a) ==
  proc[c][a] # Idle =>
    /\ proc[c][a].pc \in Stages /\ proc[c][a].t \in Range(log[a])
    /\ proc[c][a].pc \in {"record", "seen", "read", "add"} =>
         proc[c][a].t \in Deposits /\ Booked(proc[c][a].t)
    /\ owner[a] = c => next[a] < Len(log[a])

\* Under a transaction's key the ledger has booked a published deposit of that
\* very transaction which is not to be ignored, and the deposit list shows a booked one.
BookedAt(x) ==
  /\ posted[<<"deposit", x>>] # None =>
       \E t \in (Deposits \ Ignored) \cap Published : TxOf[t] = x /\ posted[<<"deposit", x>>] = Request(t)
  /\ deposit[x] # None => Booked(deposit[x])

PipeInv ==
  /\ SyncInv
  /\ Shapes
  /\ \A a \in Addresses : PartitionAt(a)
  /\ \A c \in Consumers, a \in Addresses : HandAt(c, a)
  /\ \A x \in Txs : BookedAt(x)

-------------------------------------------------------------------------------
(* What a booking does to the ledger.                                        *)

\* What a deposit books and what funding books is no None.
LEMMA MoveIsReal ==
  ASSUME NEW op \in L!OpTypes, NEW k1 \in L!BalanceKey, NEW k2 \in L!BalanceKey, NEW amt \in Int
  PROVE  L!Request(op, None, L!Move(k1, k2, amt)) # None
<1> DEFINE Nets == UNION {[S -> Int] : S \in SUBSET L!BalanceKey}
           Requests == [op : L!OpTypes, biz : L!BizRefs, net : Nets]
<1>1. L!Move(k1, k2, amt) \in [{k1, k2} -> Int] /\ {k1, k2} \in SUBSET L!BalanceKey
  BY DEF L!Move
<1>2. L!Move(k1, k2, amt) \in Nets
  BY <1>1
<1>3. None \in L!BizRefs
  BY DEF L!BizRefs
<1> HIDE DEF Nets
<1>4. L!Request(op, None, L!Move(k1, k2, amt)) \in Requests
  BY <1>2, <1>3 DEF L!Request
<1> QED
  BY <1>4, RequestAssumption DEF Nets

LEMMA KeysOfTheLedger ==
  /\ L!SystemKey(L!HotAccount(Chain), Asset) \in L!BalanceKey
  /\ L!SystemKey(L!SysAccount("SYS_CAPITAL"), Asset) \in L!BalanceKey
  /\ \A u \in Users : L!UserKey(u, Asset, "available") \in L!BalanceKey
<1>1. L!HotAccount(Chain) \in L!SystemAccounts /\ L!SysAccount("SYS_CAPITAL") \in L!SystemAccounts
  BY DEF L!SystemAccounts, L!GlobalTypes
<1> QED
  BY <1>1 DEF L!BalanceKey, L!Buckets

LEMMA OwnersAreUsers == \A t \in Deposits : OwnerOf[AddressOf[t]] \in Users
<1>1. \A t \in Deposits : AddressOf[t] \in Addresses /\ OwnerOf[AddressOf[t]] # Company
  BY SyncAssumption DEF Deposits
<1> QED
  BY <1>1, DepositAssumption DEF Users

LEMMA RequestIsReal == \A t \in Deposits : Request(t) # None
<1> SUFFICES ASSUME NEW t \in Deposits PROVE Request(t) # None
  OBVIOUS
<1>1. AmountOf[t] \in Int /\ "ConfirmDeposit" \in L!OpTypes
  BY DepositAssumption DEF Deposits, L!OpTypes
<1>2. L!UserKey(OwnerOf[AddressOf[t]], Asset, "available") \in L!BalanceKey
  BY KeysOfTheLedger, OwnersAreUsers
<1> QED
  BY <1>1, <1>2, KeysOfTheLedger, MoveIsReal DEF Request, L!DepositRequest

\* A template books its request under its key, if that is free, or does nothing.
LEMMA PostEffect ==
  ASSUME NEW key, NEW req, NEW types, NEW writes, L!Post(key, req, types, writes)
  PROVE  LET books == /\ posted[key] \in {None, req}
                      /\ posted' = [posted EXCEPT ![key] = req]
         IN (books \/ posted' = posted) /\ (L!Accepts(key, req, types) => books)
BY DEF L!Post, L!Accepts, L!Succeeds, L!Booked

LEMMA BookEffect ==
  ASSUME posted = [k \in LedgerKeys |-> posted[k]], NEW t \in Transfers, Book(t)
  PROVE  /\ posted' = [k \in LedgerKeys |-> posted'[k]]
         /\ \A x \in Txs : posted'[<<"deposit", x>>] # posted[<<"deposit", x>>] =>
              /\ t \in Deposits /\ x = TxOf[t]
              /\ posted[<<"deposit", x>>] = None /\ posted'[<<"deposit", x>>] = Request(t)
         /\ t \in Deposits /\ L!Accepts(KeyOf(t), Request(t), L!UserTypes \cup L!SystemTypes)
              => Booked(t)'
<1>0. TxOf[t] \in Txs /\ \A x \in Txs : <<"deposit", x>> \in LedgerKeys
  BY SyncAssumption DEF LedgerKeys
<1>1. CASE t \in Deposits
  <2> DEFINE key == KeyOf(t)
             req == Request(t)
             all == L!UserTypes \cup L!SystemTypes
  <2>1. PICK writes : L!Post(key, req, all, writes)
    BY <1>1 DEF Book, L!ConfirmDeposit, Request
  <2>2. key = <<"deposit", TxOf[t]>> /\ key \in LedgerKeys
    BY <1>0, <1>1 DEF KeyOf
  <2>3. Booked(t)' <=> posted'[key] = req
    BY <1>1 DEF Booked
  <2> HIDE DEF key, req, all
  <2>4. \/ posted' = posted
        \/ posted[key] \in {None, req} /\ posted' = [posted EXCEPT ![key] = req]
    BY <2>1, PostEffect
  <2>5. L!Accepts(key, req, all) => posted'[key] = req
    BY <2>1, <2>2, PostEffect
  <2>6. \A x \in Txs : <<"deposit", x>> = key => x = TxOf[t]
    BY <2>2
  <2> QED
    BY <1>0, <1>1, <2>2, <2>3, <2>4, <2>5, <2>6 DEF key, req, all
<1>2. CASE t \notin Deposits
  <2> DEFINE key == KeyOf(t)
  <2>1. PICK req, writes : L!Post(key, req, L!SystemTypes, writes)
    BY <1>2 DEF Book, L!FundSystemWallet
  <2>2. key = <<"fund", t>> /\ key \in LedgerKeys
    BY <1>2 DEF KeyOf, LedgerKeys
  <2> HIDE DEF key
  <2>3. posted' = posted \/ posted' = [posted EXCEPT ![key] = req]
    BY <2>1, PostEffect
  <2>4. \A x \in Txs : <<"deposit", x>> # key
    BY <2>2
  <2> QED
    BY <1>0, <1>2, <2>2, <2>3, <2>4
<1> QED
  BY <1>1, <1>2

\* What is booked for a deposit stays booked.
LEMMA BookedStays ==
  ASSUME NEW t \in Deposits, Booked(t),
         \A x \in Txs : posted'[<<"deposit", x>>] = posted[<<"deposit", x>>]
                        \/ posted[<<"deposit", x>>] = None
  PROVE  Booked(t)'
<1>1. TxOf[t] \in Txs /\ Request(t) # None /\ KeyOf(t) = <<"deposit", TxOf[t]>>
  BY SyncAssumption, RequestIsReal DEF Deposits, KeyOf
<1> QED
  BY <1>1 DEF Booked

-------------------------------------------------------------------------------
(* What the chain service does to the partitions.                            *)

LEMMA LogGrows ==
  ASSUME SyncTypeOK, [SyncNext]_syncVars
  PROVE  UNCHANGED log \/ \E t \in Transfers : Publish(t)
<1> DEFINE Messages == [t : Transfers, left : 1 .. QueueRetries]
<1>1. CASE Send
  <2>1. confirm.t \in Transfers
    BY <1>1 DEF Send, SyncTypeOK, ConfirmTyped
  <2> QED
    BY <1>1, <2>1 DEF Send
<1>2. ASSUME NEW i \in DOMAIN queue, RetryMessage(i)
      PROVE  UNCHANGED log \/ \E t \in Transfers : Publish(t)
  <2>1. queue \in Seq(Messages)
    BY DEF SyncTypeOK, StoreTyped
  <2> HIDE DEF Messages
  <2>2. queue[i] \in Messages
    BY <2>1
  <2>3. queue[i].t \in Transfers
    BY <2>2 DEF Messages
  <2> QED
    BY <1>2, <2>3 DEF RetryMessage
<1>3. UNCHANGED log \/ Send \/ \E i \in DOMAIN queue : RetryMessage(i)
  BY DEF SyncNext, syncVars, Mine, Reorganise, RefreshHead, Scanner, ScanStart, ScanFrom,
     ScanFetch, ScanSave, ScanAdvance, Confirmer, ConfirmStart, Check, Mark, EndBatch, ScanAbort,
     SyncCrash, Requeue, Expire
<1> QED
  BY <1>1, <1>2, <1>3

LEMMA PartitionGrows ==
  ASSUME StoreTyped, NEW t \in Transfers, Publish(t), NEW a \in Addresses,
         \A i \in DOMAIN log[a] : AddressOf[log[a][i]] = a
  PROVE  /\ \A i \in DOMAIN log'[a] : AddressOf[log'[a][i]] = a
         /\ Len(log[a]) <= Len(log'[a]) /\ Range(log[a]) \subseteq Range(log'[a])
<1>1. log \in [Addresses -> Seq(Transfers)] /\ AddressOf[t] \in Addresses
  BY SyncAssumption DEF StoreTyped
<1>2. CASE a # AddressOf[t]
  BY <1>1, <1>2 DEF Publish
<1>3. CASE a = AddressOf[t]
  <2> PICK s \in Seq(Transfers) : s = log[a]
    BY <1>1
  <2>1. log'[a] = Append(s, t)
    BY <1>1, <1>3 DEF Publish
  <2>2. /\ DOMAIN Append(s, t) = 1 .. Len(s) + 1 /\ Len(Append(s, t)) = Len(s) + 1
        /\ \A i \in 1 .. Len(s) : Append(s, t)[i] = s[i]
        /\ Append(s, t)[Len(s) + 1] = t
    OBVIOUS
  <2>3. DOMAIN s = 1 .. Len(s) /\ Len(s) \in Nat
    OBVIOUS
  <2>4. \A i \in DOMAIN log'[a] : AddressOf[log'[a][i]] = a
    BY <1>3, <2>1, <2>2, <2>3
  <2>5. Range(log[a]) \subseteq Range(log'[a])
    BY <2>1, <2>2, <2>3 DEF Range
  <2> QED
    BY <2>1, <2>2, <2>3, <2>4, <2>5
<1> QED
  BY <1>2, <1>3

\* A fault of a replica uses up the budget the chain service shares with it.
LEMMA QuietKeeps ==
  ASSUME SyncInv, UNCHANGED quiet, UNCHANGED faults \/ \E kind \in {"rebalance", "consumer_crash",
           "lost_answer", "rpc_down", "db_error"} : Fault(kind)
  PROVE  SyncInv' /\ Published' = Published
<1>1. faults' \in 0 .. MaxFaults
  BY FaultType DEF SyncInv, SyncTypeOK
<1>2. UNCHANGED <<chain, head, moved, known, cursor, scan, row, confirm, queue, log, lost>>
  BY DEF quiet, chainVars
<1>3. SyncTypeOK'
  BY <1>1, <1>2 DEF SyncInv, SyncTypeOK, ChainTyped, ScanTyped, ConfirmTyped, StoreTyped
<1>4. Published' = Published
  BY <1>2 DEF Published
<1>5. SeenInv' /\ PublishedIsFinal'
  BY <1>2, <1>4 DEF SyncInv, SeenInv, PublishedIsFinal, Unmoved, Final, Deep
<1> QED
  BY <1>3, <1>4, <1>5 DEF SyncInv

\* A step of the chain service: it takes nothing from the replicas.
LEMMA SyncStepKeeps ==
  ASSUME PipeInv, [SyncNext]_syncVars, UNCHANGED consumerVars
  PROVE  PipeInv'
<1>1. SyncInv'
  BY SyncInvNext DEF PipeInv
<1>2. /\ UNCHANGED <<posted, owner, next, committed, proc, deposit, addressBalance, change, dropped>>
      /\ SyncTypeOK /\ StoreTyped
  BY DEF consumerVars, ledgerVars, offsetVars, tableVars, PipeInv, SyncInv, SyncTypeOK
<1>3. UNCHANGED log \/ \E t \in Transfers : Publish(t)
  BY <1>2, LogGrows
<1>4. ASSUME NEW a \in Addresses
      PROVE  /\ \A i \in DOMAIN log'[a] : AddressOf[log'[a][i]] = a
             /\ Len(log[a]) <= Len(log'[a]) /\ Range(log[a]) \subseteq Range(log'[a])
             /\ Len(log[a]) \in Nat /\ Len(log'[a]) \in Nat
  <2>1. log[a] \in Seq(Transfers) /\ log'[a] \in Seq(Transfers)
    BY <1>1, <1>2 DEF StoreTyped, SyncInv, SyncTypeOK
  <2>2. \A i \in DOMAIN log[a] : AddressOf[log[a][i]] = a
    BY DEF PipeInv, PartitionAt
  <2>3. Len(log[a]) \in Nat /\ Len(log'[a]) \in Nat
    BY <2>1
  <2>4. CASE UNCHANGED log
    BY <2>2, <2>3, <2>4
  <2>5. CASE \E t \in Transfers : Publish(t)
    <3>1. PICK t \in Transfers : Publish(t)
      BY <2>5
    <3> QED
      BY <1>2, <2>2, <2>3, <3>1, PartitionGrows
  <2> QED
    BY <1>3, <2>4, <2>5
<1>5. Shapes'
  BY <1>2 DEF PipeInv, Shapes
<1>6. \A a \in Addresses : PartitionAt(a)'
  <2> TAKE a \in Addresses
  <2>1. next[a] \in Nat /\ PartitionAt(a)
    BY DEF PipeInv, Shapes
  <2> QED
    BY <1>2, <1>4, <2>1 DEF PartitionAt
<1>7. \A t \in Transfers : Booked(t)' <=> Booked(t)
  BY <1>2 DEF Booked
<1>8. \A c \in Consumers, a \in Addresses : HandAt(c, a)'
  <2> TAKE c \in Consumers, a \in Addresses
  <2>1. next[a] \in Nat /\ HandAt(c, a)
    BY DEF PipeInv, Shapes
  <2> QED
    BY <1>2, <1>4, <1>7, <2>1 DEF HandAt, Deposits
<1>9. Published \subseteq Published'
  BY <1>4 DEF Published
<1>10. \A x \in Txs : BookedAt(x)'
  <2> TAKE x \in Txs
  <2>1. BookedAt(x) /\ (deposit[x] # None => deposit[x] \in Transfers)
    BY DEF PipeInv, Shapes, Rows, Deposits
  <2> QED
    BY <1>2, <1>7, <1>9, <2>1 DEF BookedAt
<1> QED
  BY <1>1, <1>5, <1>6, <1>8, <1>10 DEF PipeInv

-------------------------------------------------------------------------------
(* What a replica does to its own hand, and to nobody else's.                *)

Holds(c, a, h) ==
  /\ proc' \in [Consumers -> [Addresses -> Hand]]
  /\ proc'[c][a] = h
  /\ \A d \in Consumers, b \in Addresses : d # c \/ b # a => proc'[d][b] = proc[d][b]

LEMMA HandIsTyped ==
  ASSUME PipeInv, NEW c \in Consumers, NEW a \in Addresses, proc[c][a].pc # "idle"
  PROVE  /\ proc[c][a] \in Hand /\ proc[c][a] # Idle /\ proc[c][a].t \in Transfers
         /\ AddressOf[proc[c][a].t] = a /\ proc[c][a].t \in Published
<1>1. proc[c][a] \in Hand /\ proc[c][a] # Idle
  BY DEF PipeInv, Shapes, Idle
<1>2. proc[c][a].t \in Range(log[a]) /\ log \in [Addresses -> Seq(Transfers)]
  BY <1>1 DEF PipeInv, HandAt, SyncInv, SyncTypeOK, StoreTyped
<1>3. PICK i \in DOMAIN log[a] : proc[c][a].t = log[a][i]
  BY <1>2 DEF Range
<1>4. log[a][i] \in Transfers
  BY <1>2
<1> QED
  BY <1>1, <1>2, <1>3, <1>4 DEF PipeInv, PartitionAt, Published

LEMMA StepsHolds ==
  ASSUME PipeInv, NEW c \in Consumers, NEW a \in Addresses, NEW pc \in Stages,
         proc[c][a].pc # "idle", Steps(c, a, pc)
  PROVE  Holds(c, a, [pc |-> pc, t |-> proc[c][a].t, prev |-> proc[c][a].prev])
<1>1. proc \in [Consumers -> [Addresses -> Hand]]
  BY DEF PipeInv, Shapes
<1> PICK p \in Hand : p = proc[c][a]
  BY <1>1
<1>2. proc' = [proc EXCEPT ![c] = [proc[c] EXCEPT ![a] = [p EXCEPT !.pc = pc]]]
  BY DEF Steps
<1>3. [p EXCEPT !.pc = pc] = [pc |-> pc, t |-> p.t, prev |-> p.prev]
  BY DEF Hand
<1>4. [pc |-> pc, t |-> p.t, prev |-> p.prev] \in Hand
  BY DEF Hand
<1> HIDE DEF Hand
<1> QED
  BY <1>1, <1>2, <1>3, <1>4 DEF Holds

LEMMA IdleIsHand == Idle \in Hand /\ Idle.pc = "idle"
BY DEF Idle, Hand

LEMMA RestHolds ==
  ASSUME PipeInv, NEW c \in Consumers, NEW a \in Addresses, NEW h \in Hand,
         proc' = [proc EXCEPT ![c][a] = h]
  PROVE  Holds(c, a, h)
<1>1. proc \in [Consumers -> [Addresses -> Hand]]
  BY DEF PipeInv, Shapes
<1> QED
  BY <1>1 DEF Holds

\* The hands of a step that changes one of them and no partition.
LEMMA HandsKeep ==
  ASSUME PipeInv, UNCHANGED <<log, owner>>, NEW c \in Consumers, NEW a \in Addresses, NEW h,
         Holds(c, a, h),
         \A t \in Deposits : Booked(t) => Booked(t)',
         next' = next \/ (h = Idle /\ owner[a] = c /\ next' = [next EXCEPT ![a] = @ + 1]),
         h # Idle =>
           /\ h.pc \in Stages /\ h.t \in Range(log[a])
           /\ h.pc \in {"record", "seen", "read", "add"} => h.t \in Deposits /\ Booked(h.t)'
           /\ owner[a] = c => next[a] < Len(log[a])
  PROVE  \A d \in Consumers, b \in Addresses : HandAt(d, b)'
<1> TAKE d \in Consumers, b \in Addresses
<1>1. CASE d = c /\ b = a
  <2>1. proc'[d][b] = h
    BY <1>1 DEF Holds
  <2>2. CASE h = Idle
    BY <2>1, <2>2 DEF HandAt, Idle
  <2>3. CASE h # Idle
    BY <1>1, <2>1, <2>3 DEF HandAt, Booked, Deposits
  <2> QED
    BY <2>2, <2>3
<1>2. CASE d # c \/ b # a
  <2>1. proc'[d][b] = proc[d][b] /\ HandAt(d, b)
    BY <1>2 DEF Holds, PipeInv
  <2>2. proc[d][b] # Idle /\ owner[b] = d => next'[b] = next[b]
    <3>1. CASE b = a
      BY <1>2, <3>1
    <3>2. CASE b # a
      BY <3>2 DEF PipeInv, Shapes
    <3> QED
      BY <3>1, <3>2
  <2>3. proc[d][b].pc \in {"record", "seen", "read", "add"} /\ proc[d][b] # Idle =>
          Booked(proc[d][b].t)'
    <3>1. PICK t : t = proc[d][b].t
      OBVIOUS
    <3>2. Booked(proc[d][b].t)' <=> Booked(t)'
      BY <2>1, <3>1 DEF Booked, Deposits
    <3> QED
      BY <2>1, <3>1, <3>2 DEF HandAt
  <2> QED
    BY <2>1, <2>2, <2>3 DEF HandAt
<1> QED
  BY <1>1, <1>2

-------------------------------------------------------------------------------
(* The steps of the replicas.                                                *)

LEMMA BooksRest ==
  ASSUME PipeInv, UNCHANGED posted, Published' = Published,
         \A x \in Txs : deposit'[x] = deposit[x] \/ Booked(deposit'[x])
  PROVE  \A x \in Txs : BookedAt(x)'
<1> TAKE x \in Txs
<1>1. BookedAt(x)
  BY DEF PipeInv
<1>2. Booked(deposit[x])' <=> Booked(deposit'[x])
  BY DEF Booked
<1>3. deposit'[x] # None => Booked(deposit'[x])
  BY <1>1 DEF BookedAt
<1> QED
  BY <1>1, <1>2, <1>3 DEF BookedAt

LEMMA PartitionsRest ==
  ASSUME PipeInv, UNCHANGED <<log, next, committed>>
  PROVE  \A a \in Addresses : PartitionAt(a)'
BY DEF PipeInv, PartitionAt

LEMMA NothingBooked == UNCHANGED posted => \A t \in Transfers : Booked(t) => Booked(t)'
BY DEF Booked

\* A replica's step between two calls: the hand alone moves on.
LEMMA HandStepKeeps ==
  ASSUME PipeInv, NEW c \in Consumers, NEW a \in Addresses, NEW pc \in Stages,
         proc[c][a].pc # "idle", NEW p \in Nat,
         Holds(c, a, [pc |-> pc, t |-> proc[c][a].t, prev |-> p]),
         pc # "mark" => proc[c][a].t \in Deposits /\ Booked(proc[c][a].t),
         UNCHANGED <<quiet, ledgerVars, offsetVars, dropped>>,
         UNCHANGED faults \/ Fault("db_error"),
         Shapes',
         \A x \in Txs : deposit'[x] = deposit[x] \/ Booked(deposit'[x])
  PROVE  PipeInv'
<1> PICK t : t = proc[c][a].t
  OBVIOUS
<1> DEFINE h == [pc |-> pc, t |-> t, prev |-> p]
<1>1. SyncInv' /\ Published' = Published
  BY QuietKeeps DEF PipeInv
<1>2. UNCHANGED <<log, owner, next, committed, posted>>
  BY DEF quiet, offsetVars, ledgerVars
<1>3. proc[c][a] # Idle /\ HandAt(c, a)
  BY HandIsTyped DEF PipeInv
<1>4. /\ h.pc = pc /\ h.t = t /\ t \in Range(log[a])
      /\ owner[a] = c => next[a] < Len(log[a])
  BY <1>3 DEF HandAt
<1>5. pc # "mark" => Booked(t)'
  BY <1>2 DEF Booked
<1>6. \A s \in Deposits : Booked(s) => Booked(s)'
  BY <1>2, NothingBooked DEF Deposits
<1> HIDE DEF h
<1>7. Holds(c, a, h) /\ (pc # "mark" => t \in Deposits)
  BY DEF h
<1>8. h.pc \in {"record", "seen", "read", "add"} => h.t \in Deposits /\ Booked(h.t)'
  <2>1. Booked(h.t)' <=> Booked(t)'
    BY <1>4 DEF Booked, h
  <2> QED
    BY <1>4, <1>5, <1>7, <2>1
<1>9. \A d \in Consumers, b \in Addresses : HandAt(d, b)'
  BY <1>2, <1>4, <1>6, <1>7, <1>8, HandsKeep
<1> QED
  BY <1>1, <1>2, <1>9, PartitionsRest, BooksRest DEF PipeInv

LEMMA RecordKeeps ==
  ASSUME PipeInv, NEW c \in Consumers, NEW a \in Addresses, Record(c, a)
  PROVE  PipeInv'
<1> PICK t : t = proc[c][a].t
  OBVIOUS
<1>1. /\ proc[c][a].pc = "record" /\ proc[c][a].pc # "idle" /\ HandAt(c, a)
  BY DEF Record, PipeInv
<1>2. /\ t \in Deposits /\ Booked(t) /\ TxOf[t] \in Txs /\ proc[c][a] \in Hand
  BY <1>1, HandIsTyped, SyncAssumption DEF HandAt
<1>3. deposit' = [deposit EXCEPT ![TxOf[t]] = t] \/ deposit' = deposit
  BY DEF Record
<1>4. \A x \in Txs : deposit'[x] = deposit[x] \/ Booked(deposit'[x])
  BY <1>2, <1>3 DEF PipeInv, Shapes, Rows
<1>5. PICK pc \in {"seen", "mark"} : Steps(c, a, pc)
  BY DEF Record
<1>6. /\ UNCHANGED <<quiet, ledgerVars, offsetVars, addressBalance, change, dropped>>
      /\ UNCHANGED faults \/ Fault("db_error")
  BY DEF Record
<1>7. Holds(c, a, [pc |-> pc, t |-> proc[c][a].t, prev |-> proc[c][a].prev]) /\ pc \in Stages
  BY <1>1, <1>5, StepsHolds DEF Stages
<1>8. Shapes'
  BY <1>2, <1>3, <1>6, <1>7 DEF PipeInv, Shapes, Rows, Holds, ledgerVars, offsetVars
<1>9. proc[c][a].prev \in Nat
  BY <1>2 DEF Hand
<1> QED
  BY <1>1, <1>2, <1>4, <1>6, <1>7, <1>8, <1>9, HandStepKeeps

LEMMA LookUpKeeps ==
  ASSUME PipeInv, NEW c \in Consumers, NEW a \in Addresses, LookUpChange(c, a)
  PROVE  PipeInv'
<1>1. /\ proc[c][a].pc = "seen" /\ proc[c][a].pc # "idle" /\ HandAt(c, a)
  BY DEF LookUpChange, PipeInv
<1>2. /\ proc[c][a].t \in Deposits /\ Booked(proc[c][a].t) /\ proc[c][a].prev \in Nat
  BY <1>1, HandIsTyped DEF HandAt, Hand
<1>3. PICK pc \in {"mark", "read"} : Steps(c, a, pc)
  BY DEF LookUpChange
<1>4. /\ UNCHANGED <<quiet, ledgerVars, offsetVars, tableVars, dropped>>
      /\ UNCHANGED faults \/ Fault("db_error")
  BY DEF LookUpChange
<1>5. Holds(c, a, [pc |-> pc, t |-> proc[c][a].t, prev |-> proc[c][a].prev]) /\ pc \in Stages
  BY <1>1, <1>3, StepsHolds DEF Stages
<1>6. Shapes'
  BY <1>4, <1>5 DEF PipeInv, Shapes, Holds, ledgerVars, offsetVars, tableVars
<1>7. \A x \in Txs : deposit'[x] = deposit[x]
  BY <1>4 DEF tableVars
<1> QED
  BY <1>1, <1>2, <1>4, <1>5, <1>6, <1>7, HandStepKeeps

LEMMA ReadBalanceKeeps ==
  ASSUME PipeInv, NEW c \in Consumers, NEW a \in Addresses, ReadBalance(c, a)
  PROVE  PipeInv'
<1>1. /\ proc[c][a].pc = "read" /\ proc[c][a].pc # "idle" /\ HandAt(c, a)
  BY DEF ReadBalance, PipeInv
<1>2. /\ proc[c][a].t \in Deposits /\ Booked(proc[c][a].t) /\ proc[c][a] \in Hand
  BY <1>1, HandIsTyped DEF HandAt
<1>3. PICK prev \in Nat : proc' = [proc EXCEPT ![c][a].pc = "add", ![c][a].prev = prev]
  BY DEF ReadBalance, PipeInv, Shapes
<1>4. /\ UNCHANGED <<quiet, ledgerVars, offsetVars, tableVars, dropped>>
      /\ UNCHANGED faults \/ Fault("db_error")
  BY DEF ReadBalance
<1> PICK p \in Hand : p = proc[c][a]
  BY <1>2
<1> DEFINE h == [pc |-> "add", t |-> p.t, prev |-> prev]
<1>5. Holds(c, a, h)
  <2>1. proc \in [Consumers -> [Addresses -> Hand]]
    BY DEF PipeInv, Shapes
  <2>2. h \in Hand
    BY DEF Hand, Stages
  <2> DEFINE q == [pc |-> "add", t |-> p.t, prev |-> p.prev]
  <2>3. [p EXCEPT !.pc = "add"] = q /\ [q EXCEPT !.prev = prev] = h
    BY DEF Hand
  <2> HIDE DEF q
  <2> HIDE DEF Hand, h
  <2>4. proc' = [proc EXCEPT ![c] = [proc[c] EXCEPT ![a] = h]]
    BY <1>3, <2>1, <2>3
  <2> QED
    BY <2>1, <2>2, <2>4 DEF Holds
<1>6. Shapes'
  BY <1>4, <1>5 DEF PipeInv, Shapes, Holds, ledgerVars, offsetVars, tableVars
<1>7. \A x \in Txs : deposit'[x] = deposit[x]
  BY <1>4 DEF tableVars
<1> QED
  BY <1>1, <1>2, <1>4, <1>5, <1>6, <1>7, HandStepKeeps DEF Stages

LEMMA AddBalanceKeeps ==
  ASSUME PipeInv, NEW c \in Consumers, NEW a \in Addresses, AddBalance(c, a)
  PROVE  PipeInv'
<1> PICK t : t = proc[c][a].t
  OBVIOUS
<1>1. /\ proc[c][a].pc = "add" /\ proc[c][a].pc # "idle" /\ HandAt(c, a)
  BY DEF AddBalance, PipeInv
<1>2. /\ t \in Deposits /\ Booked(t) /\ proc[c][a].prev \in Nat
      /\ TxOf[t] \in Txs /\ AmountOf[t] \in Nat
  BY <1>1, HandIsTyped, SyncAssumption, DepositAssumption DEF HandAt, Hand
<1>3. /\ addressBalance' = [addressBalance EXCEPT ![a] = proc[c][a].prev + AmountOf[t]]
           \/ addressBalance' = addressBalance
      /\ change' = [change EXCEPT ![TxOf[t]] = t] \/ change' = change
  BY DEF AddBalance
<1>4. /\ UNCHANGED <<quiet, ledgerVars, offsetVars, dropped>> /\ UNCHANGED faults
      /\ UNCHANGED deposit
  BY DEF AddBalance, syncVars, quiet
<1>5. Holds(c, a, [pc |-> "mark", t |-> proc[c][a].t, prev |-> proc[c][a].prev])
      /\ "mark" \in Stages
  BY <1>1, StepsHolds DEF AddBalance, Stages
<1>6. proc[c][a].prev + AmountOf[t] \in Nat
  BY <1>2
<1>7. addressBalance' \in [Addresses -> Nat] /\ change' \in Rows
  BY <1>2, <1>3, <1>6 DEF PipeInv, Shapes, Rows
<1>8. Shapes'
  BY <1>4, <1>5, <1>7 DEF PipeInv, Shapes, Holds, ledgerVars, offsetVars
<1>9. \A x \in Txs : deposit'[x] = deposit[x]
  BY <1>4
<1> QED
  BY <1>1, <1>2, <1>4, <1>5, <1>8, <1>9, HandStepKeeps

\* A booking: nothing booked is unbooked, the hand may go on if it is booked.
LEMMA CreditKeeps ==
  ASSUME PipeInv, NEW c \in Consumers, NEW a \in Addresses, Credit(c, a)
  PROVE  PipeInv'
<1> PICK t : t = proc[c][a].t
  OBVIOUS
<1>1. proc[c][a].pc = "credit" /\ proc[c][a].pc # "idle" /\ HandAt(c, a)
  BY DEF Credit, PipeInv
<1>2. /\ t \in Transfers /\ t \in Published /\ TxOf[t] \in Txs /\ t \in Range(log[a])
      /\ proc[c][a] \in Hand /\ (owner[a] = c => next[a] < Len(log[a]))
  BY <1>1, HandIsTyped, SyncAssumption DEF HandAt
<1>3. /\ UNCHANGED <<quiet, offsetVars, tableVars>>
      /\ UNCHANGED faults \/ Fault("lost_answer") \/ Fault("rpc_down")
  BY DEF Credit
<1>4. UNCHANGED <<log, owner, next, committed, deposit, change, addressBalance>>
  BY <1>3 DEF quiet, offsetVars, tableVars
<1>5. SyncInv' /\ Published' = Published
  BY <1>3, QuietKeeps DEF PipeInv
<1>6. posted = [k \in LedgerKeys |-> posted[k]]
  BY DEF PipeInv, Shapes
<1>7. /\ posted' = [k \in LedgerKeys |-> posted'[k]]
      /\ \A x \in Txs : posted'[<<"deposit", x>>] # posted[<<"deposit", x>>] =>
           /\ t \in Deposits \ Ignored /\ x = TxOf[t]
           /\ posted[<<"deposit", x>>] = None /\ posted'[<<"deposit", x>>] = Request(t)
  <2>1. (t \notin Ignored /\ Book(t)) \/ UNCHANGED posted
    BY DEF Credit, ledgerVars
  <2> QED
    BY <1>2, <1>6, <2>1, BookEffect
<1>8. \E pc \in {"record", "mark"} :
        /\ Steps(c, a, pc)
        /\ pc = "record" => t \in Deposits /\ Booked(t)'
        /\ dropped' = dropped \/ \E why \in {"ignored", "refused", "error"} : dropped' = [dropped EXCEPT ![t] = why]
  <2> DEFINE ok == t \in Deposits =>
                     L!Accepts(KeyOf(t), Request(t), L!UserTypes \cup L!SystemTypes)
  <2>1. CASE Book(t) /\ ok /\ Steps(c, a, IF t \in Deposits THEN "record" ELSE "mark") /\ UNCHANGED dropped
    <3>1. t \in Deposits => Booked(t)'
      BY <1>2, <1>6, <2>1, BookEffect
    <3> QED
      BY <2>1, <3>1
  <2>2. CASE GivesUp(c, a, "ignored") \/ GivesUp(c, a, "refused") \/ GivesUp(c, a, "error")
    BY <2>2 DEF GivesUp
  <2> QED
    BY <2>1, <2>2 DEF Credit
<1> PICK pc \in {"record", "mark"} :
        /\ Steps(c, a, pc)
        /\ pc = "record" => t \in Deposits /\ Booked(t)'
        /\ dropped' = dropped \/ \E why \in {"ignored", "refused", "error"} : dropped' = [dropped EXCEPT ![t] = why]
  BY <1>8
<1> DEFINE h == [pc |-> pc, t |-> t, prev |-> proc[c][a].prev]
<1>9. Holds(c, a, h)
  BY <1>1, StepsHolds DEF Stages
<1>10. dropped' \in [Transfers -> {None, "skipped", "ignored", "refused", "error"}]
  BY <1>2 DEF PipeInv, Shapes
<1>11. Shapes'
  BY <1>4, <1>7, <1>9, <1>10 DEF PipeInv, Shapes, Holds
<1>12. \A s \in Deposits : Booked(s) => Booked(s)'
  BY <1>7, BookedStays
<1>13. /\ h.pc \in Stages /\ h.t \in Range(log[a])
       /\ h.pc \in {"record", "seen", "read", "add"} => h.t \in Deposits /\ Booked(t)'
       /\ h.t = t
  BY <1>2 DEF Stages
<1> HIDE DEF h
<1>14. Booked(h.t)' <=> Booked(t)'
  BY <1>13 DEF Booked, h
<1>15. \A d \in Consumers, b \in Addresses : HandAt(d, b)'
  BY <1>2, <1>4, <1>9, <1>12, <1>13, <1>14, HandsKeep
<1>16. ASSUME NEW x \in Txs PROVE BookedAt(x)'
  <2>1. BookedAt(x) /\ deposit[x] \in Deposits \cup {None}
    BY DEF PipeInv, Shapes, Rows
  <2> PICK s : s = deposit[x]
    OBVIOUS
  <2>2. s # None => Booked(s)'
    BY <1>12, <2>1 DEF BookedAt
  <2>3. posted'[<<"deposit", x>>] # None =>
          \E r \in (Deposits \ Ignored) \cap Published :
            TxOf[r] = x /\ posted'[<<"deposit", x>>] = Request(r)
    BY <1>2, <1>7, <2>1 DEF BookedAt
  <2>4. deposit'[x] = s /\ (Booked(deposit[x])' <=> Booked(s)')
    BY <1>4 DEF Booked
  <2> QED
    BY <1>4, <1>5, <2>2, <2>3, <2>4 DEF BookedAt
<1> QED
  BY <1>4, <1>5, <1>11, <1>15, <1>16, PartitionsRest DEF PipeInv

LEMMA FetchKeeps ==
  ASSUME PipeInv, NEW c \in Consumers, NEW a \in Addresses, Fetch(c, a)
  PROVE  PipeInv'
<1>1. /\ owner[a] = c /\ proc[c][a] = Idle /\ next[a] < Len(log[a]) /\ next[a] \in Nat
      /\ proc' = [proc EXCEPT ![c][a] = [Idle EXCEPT !.pc = "credit", !.t = log[a][next[a] + 1]]]
      /\ UNCHANGED <<syncVars, ledgerVars, offsetVars, tableVars, dropped>>
  BY DEF Fetch, PipeInv, Shapes
<1>2. /\ UNCHANGED <<posted, owner, next, committed, deposit, change, addressBalance, dropped>>
      /\ UNCHANGED log /\ UNCHANGED quiet /\ UNCHANGED faults
  BY <1>1 DEF syncVars, quiet, ledgerVars, offsetVars, tableVars
<1>3. SyncInv' /\ Published' = Published
  BY <1>2, QuietKeeps DEF PipeInv
<1> PICK t : t = log[a][next[a] + 1]
  OBVIOUS
<1>4. t \in Transfers /\ t \in Range(log[a])
  <2>1. log[a] \in Seq(Transfers)
    BY DEF PipeInv, SyncInv, SyncTypeOK, StoreTyped
  <2>2. next[a] + 1 \in DOMAIN log[a]
    BY <1>1, <2>1
  <2> QED
    BY <2>1, <2>2 DEF Range
<1> DEFINE h == [pc |-> "credit", t |-> t, prev |-> 0]
<1>5. [Idle EXCEPT !.pc = "credit", !.t = t] = h /\ h \in Hand /\ h.pc = "credit" /\ h.t = t
  <2> DEFINE q == [pc |-> "credit", t |-> None, prev |-> 0]
  <2>1. [Idle EXCEPT !.pc = "credit"] = q /\ [q EXCEPT !.t = t] = h
    BY DEF Idle
  <2>2. [Idle EXCEPT !.pc = "credit", !.t = t] = [[Idle EXCEPT !.pc = "credit"] EXCEPT !.t = t]
    OBVIOUS
  <2> QED
    BY <1>4, <2>1, <2>2 DEF Hand, Stages
<1> HIDE DEF h
<1>6. Holds(c, a, h)
  BY <1>1, <1>5, RestHolds
<1>7. \A d \in Consumers, b \in Addresses : HandAt(d, b)'
  <2>1. \A s \in Deposits : Booked(s) => Booked(s)'
    BY <1>2, NothingBooked DEF Deposits
  <2>2. h.pc \in Stages /\ h.pc \notin {"record", "seen", "read", "add"}
    BY <1>5 DEF Stages
  <2> QED
    BY <1>1, <1>2, <1>4, <1>5, <1>6, <2>1, <2>2, HandsKeep
<1>8. Shapes'
  BY <1>2, <1>6 DEF PipeInv, Shapes, Holds
<1> QED
  BY <1>2, <1>3, <1>7, <1>8, PartitionsRest, BooksRest DEF PipeInv

LEMMA FinishKeeps ==
  ASSUME PipeInv, NEW c \in Consumers, NEW a \in Addresses, Finish(c, a)
  PROVE  PipeInv'
<1>1. /\ proc[c][a].pc = "mark" /\ proc[c][a].pc # "idle" /\ HandAt(c, a)
      /\ proc' = [proc EXCEPT ![c][a] = Idle]
      /\ next' = IF owner[a] = c THEN [next EXCEPT ![a] = @ + 1] ELSE next
      /\ UNCHANGED <<syncVars, ledgerVars, owner, committed, tableVars, dropped>>
  BY DEF Finish, PipeInv
<1>2. /\ UNCHANGED <<posted, owner, committed, deposit, change, addressBalance, dropped>>
      /\ UNCHANGED log /\ UNCHANGED quiet /\ UNCHANGED faults
  BY <1>1 DEF syncVars, quiet, ledgerVars, tableVars
<1>3. SyncInv' /\ Published' = Published
  BY <1>2, QuietKeeps DEF PipeInv
<1>4. Holds(c, a, Idle)
  BY <1>1, IdleIsHand, RestHolds
<1>5. owner[a] = c => next[a] < Len(log[a])
  BY <1>1, HandIsTyped DEF HandAt
<1>6. \A d \in Consumers, b \in Addresses : HandAt(d, b)'
  <2>1. \A s \in Deposits : Booked(s) => Booked(s)'
    BY <1>2, NothingBooked DEF Deposits
  <2>2. next' = next \/ (owner[a] = c /\ next' = [next EXCEPT ![a] = @ + 1])
    BY <1>1
  <2> QED
    BY <1>2, <1>4, <2>1, <2>2, HandsKeep
<1>7. next \in [Addresses -> Nat] /\ next' \in [Addresses -> Nat]
  BY <1>1 DEF PipeInv, Shapes
<1>8. ASSUME NEW b \in Addresses PROVE PartitionAt(b)'
  <2>1. PartitionAt(b) /\ Len(log[b]) \in Nat
    BY DEF PipeInv, SyncInv, SyncTypeOK, StoreTyped
  <2>2. next'[b] <= Len(log[b])
    <3>1. CASE b = a /\ owner[a] = c
      BY <1>1, <1>5, <1>7, <2>1, <3>1
    <3>2. CASE ~(b = a /\ owner[a] = c)
      BY <1>1, <1>7, <2>1, <3>2 DEF PartitionAt
    <3> QED
      BY <3>1, <3>2
  <2> QED
    BY <1>2, <2>1, <2>2 DEF PartitionAt
<1>9. Shapes'
  BY <1>2, <1>4, <1>7 DEF PipeInv, Shapes, Holds
<1> QED
  BY <1>2, <1>3, <1>6, <1>8, <1>9, BooksRest DEF PipeInv

LEMMA CommitKeeps ==
  ASSUME PipeInv, NEW a \in Addresses, Commit(a)
  PROVE  PipeInv'
<1>1. /\ next[a] > 0 /\ committed' = [committed EXCEPT ![a] = next[a]]
      /\ UNCHANGED <<syncVars, ledgerVars, owner, next, proc, tableVars, dropped>>
  BY DEF Commit
<1>2. /\ UNCHANGED <<posted, owner, next, proc, deposit, change, addressBalance, dropped>>
      /\ UNCHANGED log /\ UNCHANGED quiet /\ UNCHANGED faults
  BY <1>1 DEF syncVars, quiet, ledgerVars, tableVars
<1>3. SyncInv' /\ Published' = Published
  BY <1>2, QuietKeeps DEF PipeInv
<1>4. ASSUME NEW b \in Addresses PROVE PartitionAt(b)'
  <2>1. /\ PartitionAt(b) /\ Len(log[b]) \in Nat /\ next[b] \in Nat
        /\ committed = [d \in Addresses |-> committed[d]]
    BY DEF PipeInv, SyncInv, SyncTypeOK, StoreTyped, Shapes
  <2>2. committed'[b] = committed[b] \/ (b = a /\ committed'[b] = next[b])
    BY <1>1, <2>1
  <2>3. committed'[b] \in {None} \cup (1 .. Len(log[b]))
    BY <1>1, <2>1, <2>2 DEF PartitionAt
  <2> QED
    BY <1>2, <2>1, <2>3 DEF PartitionAt
<1>5. \A d \in Consumers, b \in Addresses : HandAt(d, b)'
  BY <1>2 DEF PipeInv, HandAt, Booked
<1>6. Shapes'
  BY <1>1, <1>2 DEF PipeInv, Shapes
<1> QED
  BY <1>2, <1>3, <1>4, <1>5, <1>6, BooksRest DEF PipeInv

\* The new owner of a partition has nothing of it in hand.
LEMMA ReassignKeeps ==
  ASSUME PipeInv, NEW a \in Addresses, NEW c \in Consumers, Reassign(a, c)
  PROVE  PipeInv'
<1>1. /\ owner' = [owner EXCEPT ![a] = c] /\ next' = [next EXCEPT ![a] = StartOf(a)]
      /\ dropped' = [t \in Transfers |->
           IF t \in Skipped(a) /\ dropped[t] = None THEN "skipped" ELSE dropped[t]]
      /\ UNCHANGED <<quiet, ledgerVars, committed, tableVars>>
      /\ Fault("rebalance") \/ Fault("consumer_crash")
      /\ \/ UNCHANGED proc /\ proc[c][a] = Idle
         \/ /\ proc' = [proc EXCEPT ![owner[a]][a] = Idle]
            /\ c = owner[a] \/ proc[c][a] = Idle
  BY DEF Reassign
<1>2. UNCHANGED <<posted, committed, deposit, change, addressBalance, log>>
  BY <1>1 DEF quiet, ledgerVars, tableVars
<1>3. SyncInv' /\ Published' = Published
  BY <1>1, QuietKeeps DEF PipeInv
<1>4. /\ proc \in [Consumers -> [Addresses -> Hand]] /\ owner \in [Addresses -> Consumers]
      /\ next \in [Addresses -> Nat]
      /\ dropped \in [Transfers -> {None, "skipped", "ignored", "refused", "error"}]
  BY DEF PipeInv, Shapes
<1>5. /\ proc' \in [Consumers -> [Addresses -> Hand]] /\ proc'[c][a] = Idle
      /\ \A d \in Consumers, b \in Addresses : proc'[d][b] = proc[d][b] \/ proc'[d][b] = Idle
  <2>1. CASE UNCHANGED proc /\ proc[c][a] = Idle
    BY <1>4, <2>1
  <2>2. CASE /\ proc' = [proc EXCEPT ![owner[a]][a] = Idle]
             /\ c = owner[a] \/ proc[c][a] = Idle
    <3> PICK o \in Consumers : o = owner[a]
      BY <1>4
    <3>1. proc' = [proc EXCEPT ![o] = [proc[o] EXCEPT ![a] = Idle]]
      BY <2>2
    <3> QED
      BY <1>4, <2>2, <3>1, IdleIsHand
  <2> QED
    BY <1>1, <2>1, <2>2
<1>6. Len(log[a]) \in Nat /\ StartOf(a) \in 0 .. Len(log[a])
  <2>1. PartitionAt(a) /\ Len(log[a]) \in Nat
    BY DEF PipeInv, SyncInv, SyncTypeOK, StoreTyped
  <2> QED
    BY <2>1 DEF StartOf, PartitionAt
<1>7. owner' \in [Addresses -> Consumers] /\ next' \in [Addresses -> Nat]
  BY <1>1, <1>4, <1>6
<1>8. dropped' \in [Transfers -> {None, "skipped", "ignored", "refused", "error"}]
  BY <1>1, <1>4
<1>9. Shapes'
  BY <1>2, <1>5, <1>7, <1>8 DEF PipeInv, Shapes
<1>10. ASSUME NEW b \in Addresses PROVE PartitionAt(b)'
  <2>1. PartitionAt(b)
    BY DEF PipeInv
  <2>2. next'[b] <= Len(log[b])
    BY <1>1, <1>4, <1>6, <2>1 DEF PartitionAt
  <2> QED
    BY <1>2, <2>1, <2>2 DEF PartitionAt
<1>11. ASSUME NEW d \in Consumers, NEW b \in Addresses PROVE HandAt(d, b)'
  <2>1. CASE proc'[d][b] = Idle
    BY <2>1 DEF HandAt, Idle
  <2>2. CASE proc'[d][b] # Idle
    <3>1. proc'[d][b] = proc[d][b] /\ HandAt(d, b) /\ ~(d = c /\ b = a)
      BY <1>5, <2>2 DEF PipeInv
    <3>2. owner'[b] = d => owner[b] = d /\ next'[b] = next[b]
      BY <1>1, <1>4, <3>1
    <3>3. PICK t : t = proc[d][b].t
      OBVIOUS
    <3>4. Booked(t)' <=> Booked(t)
      BY <1>2 DEF Booked
    <3>5. Booked(proc[d][b].t)' <=> Booked(t)'
      BY <3>1, <3>3 DEF Booked
    <3> QED
      BY <1>2, <3>1, <3>2, <3>3, <3>4, <3>5 DEF HandAt
  <2> QED
    BY <2>1, <2>2
<1> QED
  BY <1>2, <1>3, <1>9, <1>10, <1>11, BooksRest DEF PipeInv

-------------------------------------------------------------------------------
(* The theorems.                                                             *)

LEMMA InitPipeInv == Init => PipeInv
<1> SUFFICES ASSUME Init PROVE PipeInv
  OBVIOUS
<1>1. SyncInv
  BY SyncInvInit DEF Init
<1>2. /\ posted = [k \in LedgerKeys |-> None]
      /\ owner = [a \in Addresses |-> CHOOSE c \in Consumers : TRUE]
      /\ next = [a \in Addresses |-> 0]
      /\ committed = [a \in Addresses |-> None]
      /\ proc = [c \in Consumers |-> [a \in Addresses |-> Idle]]
      /\ deposit = [x \in Txs |-> None] /\ change = [x \in Txs |-> None]
      /\ addressBalance = [a \in Addresses |-> 0]
      /\ dropped = [t \in Transfers |-> None]
      /\ log = [a \in Addresses |-> <<>>]
  BY DEF Init, L!Init, SyncInit
<1>3. Shapes
  <2>1. owner \in [Addresses -> Consumers]
    BY <1>2, DepositAssumption
  <2>2. proc \in [Consumers -> [Addresses -> Hand]]
    BY <1>2, IdleIsHand
  <2> QED
    BY <1>2, <2>1, <2>2 DEF Shapes, Rows
<1>4. \A a \in Addresses : PartitionAt(a)
  BY <1>2 DEF PartitionAt
<1>5. \A c \in Consumers, a \in Addresses : HandAt(c, a)
  BY <1>2 DEF HandAt
<1>6. \A x \in Txs : BookedAt(x)
  BY <1>2 DEF BookedAt, LedgerKeys
<1> QED
  BY <1>1, <1>3, <1>4, <1>5, <1>6 DEF PipeInv

LEMMA NextPipeInv == PipeInv /\ [Next]_vars => PipeInv'
<1> SUFFICES ASSUME PipeInv, [Next]_vars PROVE PipeInv'
  OBVIOUS
<1>1. CASE UNCHANGED consumerVars /\ [SyncNext]_syncVars
  BY <1>1, SyncStepKeeps
<1>2. CASE \E a \in Addresses : Commit(a)
  BY <1>2, CommitKeeps
<1>3. CASE \E a \in Addresses, c \in Consumers : Process(c, a)
  BY <1>3, FetchKeeps, CreditKeeps, RecordKeeps, LookUpKeeps, ReadBalanceKeeps, AddBalanceKeeps,
     FinishKeeps DEF Process
<1>4. CASE \E a \in Addresses, c \in Consumers : Reassign(a, c)
  BY <1>4, ReassignKeeps
<1> QED
  BY <1>1, <1>2, <1>3, <1>4 DEF Next, vars

LEMMA SpecPipeInv == Spec => []PipeInv
BY InitPipeInv, NextPipeInv, PTL DEF Spec

\* Offsets, hands and tables keep their types beside those of the chain service:
\* no offset passes the end of its partition, and a replica only ever works on a
\* message of the partition it took it from (kafka_consumer.go).
THEOREM TypeCorrect == Spec => []TypeOK
<1>1. PipeInv => TypeOK
  <2> SUFFICES ASSUME PipeInv PROVE TypeOK
    OBVIOUS
  <2>1. SyncTypeOK /\ Shapes /\ \A a \in Addresses : PartitionAt(a)
    BY DEF PipeInv, SyncInv
  <2>2. ASSUME NEW a \in Addresses, NEW c \in Consumers, proc[c][a] # Idle
        PROVE  AddressOf[proc[c][a].t] = a
    <3>1. proc[c][a].pc # "idle"
      BY <2>2 DEF PipeInv, HandAt, Stages
    <3> QED
      BY <3>1, HandIsTyped
  <2>3. ASSUME NEW a \in Addresses
        PROVE  /\ next[a] \in 0 .. Len(log[a])
               /\ committed[a] \in {None} \cup (1 .. Len(log[a]))
               /\ addressBalance[a] \in Nat
    <3>1. Len(log[a]) \in Nat
      BY <2>1 DEF SyncTypeOK, StoreTyped
    <3> QED
      BY <2>1, <3>1 DEF Shapes, PartitionAt
  <2> QED
    BY <2>1, <2>2, <2>3 DEF TypeOK, Shapes, Rows
<1> QED
  BY <1>1, SpecPipeInv, PTL

\* What the deposit list shows is booked, owner, amount and transaction, however
\* often messages are delivered again, by whichever replicas and side by side
\* (TransactionConfirmProcessor, upsertWalletDepositRecord).
THEOREM ShownOnlyBooked == Spec => []ShownIsBooked
<1>1. PipeInv => ShownIsBooked
  BY DEF PipeInv, BookedAt, ShownIsBooked
<1> QED
  BY <1>1, SpecPipeInv, PTL

-------------------------------------------------------------------------------
(* The balance of an address.                                                *)

\* What the change row of a transaction accounts for at address a.
Share(x, a) ==
  IF change[x] # None /\ AddressOf[change[x]] = a /\ Booked(change[x])
    THEN AmountOf[change[x]] ELSE 0
Shares(a)  == [x \in Txs |-> Share(x, a)]
Counted(a) == SumFunctionOnSet(Shares(a), Txs)

\* The row of an address is backed by the change rows, and so is the balance a
\* replica has read and is about to add to, however old it is by then.
BackedAt(a) ==
  /\ addressBalance[a] <= Counted(a)
  /\ \A c \in Consumers : proc[c][a].pc = "add" => proc[c][a].prev <= Counted(a)

BackedInv == \A a \in Addresses : BackedAt(a)

LEMMA SharesType ==
  ASSUME PipeInv, NEW a
  PROVE  \A x \in Txs : Shares(a)[x] = Share(x, a) /\ Share(x, a) \in Nat
<1>1. \A x \in Txs : change[x] \in Deposits \cup {None}
  BY DEF PipeInv, Shapes, Rows
<1> QED
  BY <1>1, DepositAssumption DEF Share, Shares, Deposits

LEMMA CountedType ==
  ASSUME IsFiniteSet(Txs), PipeInv, NEW a
  PROVE  Counted(a) \in Nat
<1>1. \A x \in Txs : Shares(a)[x] \in Nat
  BY SharesType
<1> QED
  BY <1>1, SumOfNaturals DEF Counted

LEMMA NextCases ==
  ASSUME [Next]_vars
  PROVE  \/ UNCHANGED consumerVars /\ [SyncNext]_syncVars
         \/ \E a \in Addresses, c \in Consumers : Process(c, a) \/ Commit(a) \/ Reassign(a, c)
<1>1. Consumers # {}
  BY DepositAssumption
<1> QED
  BY <1>1 DEF Next, vars

\* No step takes a change row back or frees a key of the ledger.
LEMMA BooksOnlyGrow ==
  ASSUME PipeInv, [Next]_vars
  PROVE  /\ \A x \in Txs : posted'[<<"deposit", x>>] = posted[<<"deposit", x>>]
                           \/ posted[<<"deposit", x>>] = None
         /\ \A x \in Txs : change'[x] = change[x] \/ change[x] = None
<1>1. change \in Rows /\ posted = [k \in LedgerKeys |-> posted[k]]
  BY DEF PipeInv, Shapes
<1>2. UNCHANGED posted \/ \E t \in Transfers : Book(t)
  <2>1. ASSUME NEW a \in Addresses, NEW c \in Consumers, Credit(c, a)
        PROVE  UNCHANGED posted \/ \E t \in Transfers : Book(t)
    <3>1. proc[c][a].t \in Transfers
      BY <2>1, HandIsTyped DEF Credit
    <3> QED
      BY <2>1, <3>1 DEF Credit, ledgerVars
  <2>2. ASSUME NEW a \in Addresses, NEW c \in Consumers,
               (Process(c, a) /\ ~Credit(c, a)) \/ Commit(a) \/ Reassign(a, c)
        PROVE  UNCHANGED posted
    BY <2>2 DEF ledgerVars, Commit, Process, Reassign, Fetch, Record, LookUpChange, ReadBalance,
       AddBalance, Finish
  <2>3. CASE UNCHANGED consumerVars
    BY <2>3 DEF consumerVars, ledgerVars
  <2> QED
    BY <2>1, <2>2, <2>3, NextCases
<1>3. ASSUME NEW x \in Txs PROVE posted'[<<"deposit", x>>] = posted[<<"deposit", x>>]
                                 \/ posted[<<"deposit", x>>] = None
  BY <1>1, <1>2, BookEffect
<1>4. UNCHANGED change \/ \E a \in Addresses, c \in Consumers : AddBalance(c, a)
  <2>1. ASSUME NEW a \in Addresses, NEW c \in Consumers,
               (Process(c, a) /\ ~AddBalance(c, a)) \/ Commit(a) \/ Reassign(a, c)
        PROVE  UNCHANGED change
    BY <2>1 DEF tableVars, Commit, Process, Reassign, Fetch, Credit, Record, LookUpChange,
       ReadBalance, Finish
  <2>2. CASE UNCHANGED consumerVars
    BY <2>2 DEF consumerVars, tableVars
  <2> QED
    BY <2>1, <2>2, NextCases
<1>5. ASSUME NEW a \in Addresses, NEW c \in Consumers, AddBalance(c, a), NEW x \in Txs
      PROVE  change'[x] = change[x] \/ change[x] = None
  BY <1>1, <1>5 DEF AddBalance, Rows
<1> QED
  BY <1>3, <1>4, <1>5

\* So what the change rows account for only grows.
LEMMA CountedGrows ==
  ASSUME IsFiniteSet(Txs), PipeInv, [Next]_vars, NEW a
  PROVE  /\ \A x \in Txs : Share(x, a) <= Share(x, a)'
         /\ Counted(a) <= Counted(a)'
<1>1. PipeInv'
  BY NextPipeInv
<1>2. \A x \in Txs : Shares(a)[x] = Share(x, a) /\ Share(x, a) \in Nat
  BY SharesType
<1>3. \A x \in Txs : Shares(a)'[x] = Share(x, a)' /\ Share(x, a)' \in Nat
  <2>1. \A x \in Txs : change'[x] \in Deposits \cup {None}
    BY <1>1 DEF PipeInv, Shapes, Rows, Deposits
  <2> QED
    BY <2>1, DepositAssumption DEF Share, Shares, Deposits
<1>4. ASSUME NEW x \in Txs PROVE Share(x, a) <= Share(x, a)'
  <2> PICK t : t = change[x]
    OBVIOUS
  <2>1. CASE t = None
    BY <1>2, <1>3, <2>1 DEF Share
  <2>2. CASE t # None
    <3>1. change'[x] = t /\ t \in Deposits
      BY <2>2, BooksOnlyGrow DEF PipeInv, Shapes, Rows
    <3>2. Booked(t) => Booked(t)'
      BY <3>1, BooksOnlyGrow, BookedStays
    <3>3. Booked(change[x])' <=> Booked(t)'
      BY <3>1 DEF Booked
    <3> QED
      BY <1>2, <1>3, <2>2, <3>1, <3>2, <3>3 DEF Share
  <2> QED
    BY <2>1, <2>2
<1> QED
  BY <1>2, <1>3, <1>4, SumMonotonic DEF Counted

\* A replica is about to add what it read before, or has read just now.
LEMMA HandsAdd ==
  ASSUME PipeInv, [Next]_vars, NEW c \in Consumers, NEW a \in Addresses, proc'[c][a].pc = "add"
  PROVE  proc'[c][a] = proc[c][a] \/ ReadBalance(c, a)
<1>0. proc \in [Consumers -> [Addresses -> Hand]]
  BY DEF PipeInv, Shapes
<1>1. CASE UNCHANGED proc
  BY <1>1
<1>2. ASSUME NEW b \in Addresses, NEW d \in Consumers, NEW h, h.pc # "add", Holds(d, b, h)
      PROVE  proc'[c][a] = proc[c][a]
  BY <1>2 DEF Holds
<1>3. ASSUME NEW b \in Addresses, NEW d \in Consumers, proc' = [proc EXCEPT ![d][b] = Idle]
      PROVE  proc'[c][a] = proc[c][a]
  BY <1>2, <1>3, RestHolds, IdleIsHand
<1>4. ASSUME NEW b \in Addresses, NEW d \in Consumers, NEW pc \in Stages \ {"add"},
             proc[d][b].pc # "idle", Steps(d, b, pc)
      PROVE  proc'[c][a] = proc[c][a]
  <2> PICK q : q = [pc |-> pc, t |-> proc[d][b].t, prev |-> proc[d][b].prev]
    OBVIOUS
  <2>1. Holds(d, b, q) /\ q.pc # "add"
    BY <1>4, StepsHolds
  <2> QED
    BY <1>2, <2>1
<1>5. ASSUME NEW b \in Addresses, NEW d \in Consumers, Process(d, b)
      PROVE  proc'[c][a] = proc[c][a] \/ ReadBalance(c, a)
  <2>1. CASE Fetch(d, b)
    <3>1. PICK t : proc' = [proc EXCEPT ![d][b] = [Idle EXCEPT !.pc = "credit", !.t = t]]
      BY <2>1 DEF Fetch
    <3> PICK h : h = [Idle EXCEPT !.pc = "credit", !.t = t]
      OBVIOUS
    <3>2. h.pc = "credit"
      BY DEF Idle
    <3>3. proc' = [proc EXCEPT ![d][b] = h]
      BY <3>1
    <3>4. (d = c /\ b = a) => proc'[c][a] = h
      BY <1>0, <3>3
    <3>5. ~(d = c /\ b = a) => proc'[c][a] = proc[c][a]
      BY <1>0, <3>3
    <3> QED
      BY <3>2, <3>4, <3>5
  <2>2. CASE Credit(d, b)
    <3>1. \E pc \in Stages \ {"add"} : Steps(d, b, pc)
      BY <2>2 DEF Credit, GivesUp, Stages
    <3> QED
      BY <1>4, <2>2, <3>1 DEF Credit
  <2>3. CASE Record(d, b) \/ LookUpChange(d, b) \/ AddBalance(d, b)
    <3>1. proc[d][b].pc # "idle" /\ \E pc \in Stages \ {"add"} : Steps(d, b, pc)
      BY <2>3 DEF Record, LookUpChange, AddBalance, Stages
    <3> QED
      BY <1>4, <3>1
  <2>4. CASE Finish(d, b)
    BY <1>3, <2>4 DEF Finish
  <2>5. CASE ReadBalance(d, b)
    <3>1. (d = c /\ b = a) \/ proc'[c][a] = proc[c][a]
      BY <1>0, <2>5 DEF ReadBalance
    <3> QED
      BY <2>5, <3>1
  <2> QED
    BY <1>5, <2>1, <2>2, <2>3, <2>4, <2>5 DEF Process
<1>6. ASSUME NEW b \in Addresses, NEW d \in Consumers, Commit(b) \/ Reassign(b, d)
      PROVE  proc'[c][a] = proc[c][a]
  <2>1. UNCHANGED proc \/ proc' = [proc EXCEPT ![owner[b]][b] = Idle]
    BY <1>6 DEF Commit, Reassign
  <2>2. owner[b] \in Consumers
    BY DEF PipeInv, Shapes
  <2> QED
    BY <1>3, <2>1, <2>2
<1>7. CASE UNCHANGED consumerVars
  BY <1>7 DEF consumerVars
<1> QED
  BY <1>5, <1>6, <1>7, NextCases

LEMMA BalanceCases ==
  ASSUME [Next]_vars
  PROVE  UNCHANGED addressBalance \/ \E a \in Addresses, c \in Consumers : AddBalance(c, a)
<1>1. ASSUME NEW a \in Addresses, NEW c \in Consumers,
             (Process(c, a) /\ ~AddBalance(c, a)) \/ Commit(a) \/ Reassign(a, c)
      PROVE  UNCHANGED addressBalance
  BY <1>1 DEF tableVars, Commit, Process, Reassign, Fetch, Credit, Record, LookUpChange,
     ReadBalance, Finish
<1>2. CASE UNCHANGED consumerVars
  BY <1>2 DEF consumerVars, tableVars
<1> QED
  BY <1>1, <1>2, NextCases

\* The new row of an address is backed: the change row that is written with it
\* is new and accounts for the deposit in full.
LEMMA AddedIsBacked ==
  ASSUME IsFiniteSet(Txs), PipeInv, NEW c \in Consumers, NEW a \in Addresses, AddBalance(c, a),
         change[TxOf[proc[c][a].t]] = None, BackedAt(a)
  PROVE  addressBalance'[a] <= Counted(a)'
<1> PICK t : t = proc[c][a].t
  OBVIOUS
<1> PICK x : x = TxOf[t]
  OBVIOUS
<1>1. /\ proc[c][a].pc = "add" /\ t \in Deposits /\ Booked(t) /\ AddressOf[t] = a
      /\ proc[c][a].prev \in Nat /\ x \in Txs /\ AmountOf[t] \in Nat \ {0} /\ t # None
  <2>1. proc[c][a].pc = "add" /\ proc[c][a].pc # "idle" /\ HandAt(c, a)
    BY DEF AddBalance, PipeInv
  <2> QED
    BY <2>1, HandIsTyped, SyncAssumption, DepositAssumption DEF HandAt, Hand
<1>2. /\ addressBalance' = [addressBalance EXCEPT ![a] = proc[c][a].prev + AmountOf[t]]
      /\ change' = [change EXCEPT ![x] = t] /\ UNCHANGED posted
      /\ change[x] = None /\ addressBalance \in [Addresses -> Nat] /\ change \in Rows
  BY DEF AddBalance, ledgerVars, PipeInv, Shapes
<1>3. addressBalance'[a] = proc[c][a].prev + AmountOf[t] /\ proc[c][a].prev <= Counted(a)
  BY <1>1, <1>2 DEF BackedAt
<1>4. PipeInv /\ \A y \in Txs : Shares(a)[y] = Share(y, a) /\ Share(y, a) \in Nat
  BY SharesType
<1>5. Share(x, a) = 0 /\ Share(x, a)' = AmountOf[t]
  <2>1. change'[x] = t /\ Booked(t)'
    BY <1>1, <1>2 DEF Rows, Booked
  <2>2. Booked(change[x])' <=> Booked(t)'
    BY <2>1 DEF Booked
  <2> QED
    BY <1>1, <1>2, <2>1, <2>2 DEF Share
<1>6. ASSUME NEW y \in Txs, y # x PROVE Share(y, a)' = Share(y, a)
  <2>1. change'[y] = change[y] /\ (Booked(change[y])' <=> Booked(change[y]))
    BY <1>2, <1>6 DEF Rows, Booked
  <2> QED
    BY <2>1 DEF Share
<1>7. \A y \in Txs : Shares(a)'[y] = Share(y, a)'
  BY DEF Shares
<1>8. Counted(a)' = Counted(a) + AmountOf[t] - 0
  <2>1. Shares(a)'[x] \in Int /\ Shares(a)[x] = 0 /\ Shares(a)'[x] = AmountOf[t]
    BY <1>1, <1>4, <1>5, <1>7
  <2>2. \A y \in Txs : Shares(a)[y] \in Int /\ (y # x => Shares(a)'[y] = Shares(a)[y])
    BY <1>4, <1>6, <1>7
  <2> QED
    BY <1>1, <2>1, <2>2, SumChanged DEF Counted
<1> QED
  BY <1>1, <1>3, <1>8, CountedType

LEMMA BackedNext ==
  ASSUME IsFiniteSet(Txs), PipeInv, BackedInv, [Next]_vars
  PROVE  BackedInv'
<1> SUFFICES ASSUME NEW a \in Addresses PROVE BackedAt(a)'
  BY DEF BackedInv
<1>1. PipeInv' /\ BackedAt(a) /\ Counted(a) <= Counted(a)' /\ Counted(a) \in Nat
  BY NextPipeInv, CountedGrows, CountedType DEF BackedInv
<1>2. Counted(a)' \in Nat
  <2>1. \A x \in Txs : change'[x] \in Deposits \cup {None}
    BY <1>1 DEF PipeInv, Shapes, Rows, Deposits
  <2>2. \A x \in Txs : Shares(a)'[x] \in Nat
    BY <2>1, DepositAssumption DEF Share, Shares, Deposits
  <2> QED
    BY <2>2, SumOfNaturals DEF Counted
<1>3. addressBalance[a] \in Nat /\ addressBalance[a] <= Counted(a)
      /\ \A c \in Consumers : proc[c][a].pc = "add" => proc[c][a].prev \in Nat
  BY <1>1 DEF PipeInv, Shapes, Hand, BackedAt
<1>4. addressBalance'[a] <= Counted(a)'
  <2>1. CASE UNCHANGED addressBalance
    BY <1>1, <1>2, <1>3, <2>1
  <2>2. ASSUME NEW b \in Addresses, NEW c \in Consumers, AddBalance(c, b)
        PROVE  addressBalance'[a] <= Counted(a)'
    <3>1. CASE b = a /\ change[TxOf[proc[c][a].t]] = None
      BY <1>1, <2>2, <3>1, AddedIsBacked
    <3>2. CASE ~(b = a /\ change[TxOf[proc[c][a].t]] = None)
      <4>1. addressBalance'[a] = addressBalance[a]
        BY <2>2, <3>2 DEF AddBalance, PipeInv, Shapes
      <4> QED
        BY <1>1, <1>2, <1>3, <4>1
    <3> QED
      BY <3>1, <3>2
  <2> QED
    BY <2>1, <2>2, BalanceCases
<1>5. ASSUME NEW c \in Consumers, proc'[c][a].pc = "add"
      PROVE  proc'[c][a].prev <= Counted(a)'
  <2>1. CASE proc'[c][a] = proc[c][a]
    BY <1>1, <1>2, <1>3, <1>5, <2>1 DEF BackedAt
  <2>2. CASE ReadBalance(c, a)
    <3>1. proc'[c][a].prev \in {addressBalance[a], 0}
      BY <2>2 DEF ReadBalance, PipeInv, Shapes, Hand
    <3> QED
      BY <1>1, <1>2, <1>3, <3>1
  <2> QED
    BY <1>5, <2>1, <2>2, HandsAdd
<1> QED
  BY <1>4, <1>5 DEF BackedAt

\* An address is never believed to hold more than its booked deposits brought in:
\* the row and its change row are written together, and a second change row of a
\* transaction undoes both (updateDepositAddressBalanceViaRPC).
THEOREM BalanceIsBacked ==
  ASSUME IsFiniteSet(Txs)
  PROVE  Spec => []AddressBalanceIsBacked
<1>1. Init => BackedInv
  <2> SUFFICES ASSUME Init, NEW a \in Addresses PROVE BackedAt(a)
    BY DEF BackedInv
  <2>1. addressBalance[a] = 0 /\ \A c \in Consumers : proc[c][a] = Idle
    BY DEF Init
  <2>2. Counted(a) \in Nat
    BY CountedType, InitPipeInv
  <2> QED
    BY <2>1, <2>2 DEF BackedAt, Idle
<1>2. BackedInv => AddressBalanceIsBacked
  <2> SUFFICES ASSUME BackedInv, NEW a \in Addresses PROVE addressBalance[a] <= SumFunction(Shares(a))
    BY DEF AddressBalanceIsBacked, Shares, Share
  <2>1. DOMAIN Shares(a) = Txs
    BY DEF Shares
  <2> QED
    BY <2>1 DEF BackedInv, BackedAt, Counted, SumFunction
<1>3. PipeInv /\ BackedInv /\ [Next]_vars => BackedInv'
  BY BackedNext
<1> QED
  BY <1>1, <1>2, <1>3, SpecPipeInv, PTL DEF Spec

-------------------------------------------------------------------------------
(* Why the ledger refuses.                                                   *)

\* The accounts a transfer moves.
Hot        == L!SystemKey(L!HotAccount(Chain), Asset)
Counter(t) == IF t \in Deposits THEN L!UserKey(OwnerOf[AddressOf[t]], Asset, "available")
              ELSE L!SystemKey(L!SysAccount("SYS_CAPITAL"), Asset)
NetOf(t)   == L!Move(Hot, Counter(t), AmountOf[t])

BookedRaw(t) == IF Booked(t) THEN AmountOf[t] ELSE 0
BookedSum    == SumFunctionOnSet([t \in Transfers |-> BookedRaw(t)], Transfers)

\* No balance is larger than all that was booked, so that none outgrows its
\* column; nobody pauses the asset, retires an account type or flips its side.
RoomInv ==
  /\ enabled = {Asset} /\ retired = {}
  /\ normalSide = [ty \in L!AccountTypes |-> L!InitialSide(ty)]
  /\ DOMAIN balance = L!BalanceKey
  /\ \A k \in L!BalanceKey : balance[k] \in 0 .. BookedSum

\* Debit and credit of two accounts balance, asset by asset.
LEMMA MoveBalances ==
  ASSUME NEW k1, NEW k2, NEW amt \in Int, k1 # k2, k1[2] = Asset, k2[2] = Asset
  PROVE  L!Balanced(L!Move(k1, k2, amt))
<1> DEFINE net == L!Move(k1, k2, amt)
<1>1. DOMAIN net = {k1, k2} /\ net[k1] = amt /\ net[k2] = -amt
  BY DEF L!Move
<1> HIDE DEF net
<1>2. \A k \in DOMAIN net : L!OfAsset(DOMAIN net, k[2]) = {k1, k2}
  BY <1>1 DEF L!OfAsset
<1>3. IsFiniteSet({k1, k2}) /\ IsFiniteSet({k2}) /\ {k1, k2} \ {k1} = {k2} /\ {k2} \ {k2} = {}
  BY FS_Singleton, FS_AddElement, FS_EmptySet
<1>4. SumFunctionOnSet(net, {k1, k2}) = net[k1] + SumFunctionOnSet(net, {k2})
  BY <1>1, <1>3, SumTakeOut
<1>5. SumFunctionOnSet(net, {k2}) = net[k2] + SumFunctionOnSet(net, {})
  BY <1>1, <1>3, SumTakeOut
<1>6. SumFunctionOnSet(net, {k1, k2}) = 0
  BY <1>1, <1>4, <1>5, SumEmpty
<1>7. L!SumFunctionOnSet(net, {k1, k2}) = SumFunctionOnSet(net, {k1, k2})
  BY DEF L!SumFunctionOnSet, L!FoldFunctionOnSet, L!MapThenFoldSet,
         SumFunctionOnSet, FoldFunctionOnSet, MapThenFoldSet
<1>8. L!Balanced(net)
  BY <1>2, <1>6, <1>7 DEF L!Balanced
<1> QED
  BY <1>8 DEF net

\* The request of a transfer balances and raises both balances by its amount.
LEMMA NetRaises ==
  ASSUME NEW t \in Transfers, normalSide = [ty \in L!AccountTypes |-> L!InitialSide(ty)]
  PROVE  /\ DOMAIN NetOf(t) = {Hot, Counter(t)} /\ Hot \in L!BalanceKey /\ Counter(t) \in L!BalanceKey
         /\ \A k \in DOMAIN NetOf(t) :
              /\ L!Delta(NetOf(t), k) = AmountOf[t] /\ k[2] = Asset
              /\ L!TypeOf(k) \in (IF t \in Deposits THEN L!UserTypes \cup L!SystemTypes ELSE L!SystemTypes)
         /\ L!Balanced(NetOf(t)) /\ AmountOf[t] \in Nat \ {0}
<1>1. AmountOf[t] \in Nat \ {0}
  BY DepositAssumption
<1>2. /\ L!TypeOf(Hot) = "SYS_WALLET_HOT" /\ Hot[2] = Asset /\ Hot \in L!BalanceKey
      /\ L!InitialSide("SYS_WALLET_HOT") = "debit"
  BY KeysOfTheLedger DEF Hot, L!TypeOf, L!SystemKey, L!HotAccount, L!InitialSide
<1>3. /\ L!TypeOf(Counter(t)) = (IF t \in Deposits THEN "USER_LIABILITY" ELSE "SYS_CAPITAL")
      /\ Counter(t)[2] = Asset /\ Counter(t) \in L!BalanceKey
      /\ L!InitialSide("USER_LIABILITY") = "credit" /\ L!InitialSide("SYS_CAPITAL") = "credit"
  BY KeysOfTheLedger, OwnersAreUsers
     DEF Counter, L!TypeOf, L!SystemKey, L!SysAccount, L!UserKey, L!UserAccount, L!InitialSide
<1>4. Hot # Counter(t)
  BY <1>2, <1>3
<1>5. {"SYS_WALLET_HOT", "USER_LIABILITY", "SYS_CAPITAL"} \subseteq L!AccountTypes
  BY DEF L!AccountTypes, L!GlobalTypes
<1> PICK h : h = Hot
  OBVIOUS
<1> PICK k : k = Counter(t)
  OBVIOUS
<1> DEFINE net == L!Move(h, k, AmountOf[t])
<1>6. DOMAIN net = {h, k} /\ net[h] = AmountOf[t] /\ net[k] = -AmountOf[t] /\ h # k
  BY <1>1, <1>4 DEF L!Move
<1>7. L!Balanced(net)
  BY <1>1, <1>2, <1>3, <1>4, MoveBalances
<1> HIDE DEF net
<1>8. L!Delta(net, h) = AmountOf[t]
  BY <1>2, <1>5, <1>6 DEF L!Delta
<1>9. L!Delta(net, k) = AmountOf[t]
  BY <1>1, <1>3, <1>5, <1>6 DEF L!Delta
<1>10. /\ L!TypeOf(h) \in L!SystemTypes
       /\ L!TypeOf(k) \in (IF t \in Deposits THEN L!UserTypes \cup L!SystemTypes ELSE L!SystemTypes)
  BY <1>2, <1>3 DEF L!UserTypes, L!SystemTypes, L!GlobalTypes
<1>11. net = NetOf(t)
  BY DEF net, NetOf
<1> QED
  BY <1>1, <1>2, <1>3, <1>6, <1>7, <1>8, <1>9, <1>10, <1>11

LEMMA BookedRawType ==
  \A t \in Transfers : BookedRaw(t) \in Nat /\ BookedRaw(t) <= AmountOf[t] /\ AmountOf[t] \in Nat \ {0}
BY DepositAssumption DEF BookedRaw

LEMMA BookedSumType ==
  ASSUME IsFiniteSet(Transfers)
  PROVE  BookedSum \in Nat
<1> DEFINE f == [t \in Transfers |-> BookedRaw(t)]
<1>1. \A t \in Transfers : f[t] \in Nat
  BY BookedRawType
<1> HIDE DEF f
<1>2. SumFunctionOnSet(f, Transfers) \in Nat
  BY <1>1, SumOfNaturals
<1> QED
  BY <1>2 DEF BookedSum, f

\* The column of a balance has room for a transfer that is not booked yet.
LEMMA RoomForOneMore ==
  ASSUME IsFiniteSet(Transfers), NEW t \in Transfers, ~Booked(t)
  PROVE  BookedSum + AmountOf[t] <= SumFunction(AmountOf)
<1> DEFINE f == [s \in Transfers |-> BookedRaw(s)]
           g == [s \in Transfers |-> IF s = t THEN AmountOf[t] ELSE BookedRaw(s)]
<1>1. \A s \in Transfers : f[s] \in Int /\ g[s] \in Int /\ (s # t => g[s] = f[s]) /\ g[s] <= AmountOf[s]
                           /\ AmountOf[s] \in Int
  BY BookedRawType
<1>2. f[t] = 0 /\ g[t] = AmountOf[t]
  BY DEF BookedRaw
<1>3. BookedSum = SumFunctionOnSet(f, Transfers)
  BY DEF BookedSum
<1>4. SumFunction(AmountOf) = SumFunctionOnSet(AmountOf, Transfers)
  BY DepositAssumption DEF SumFunction
<1>5. AmountOf[t] \in Nat
  BY BookedRawType
<1> HIDE DEF f, g
<1>6. SumFunctionOnSet(g, Transfers) = SumFunctionOnSet(f, Transfers) + g[t] - f[t]
  BY <1>1, SumChanged
<1>7. SumFunctionOnSet(g, Transfers) <= SumFunctionOnSet(AmountOf, Transfers)
  BY <1>1, SumMonotonic
<1> QED
  BY <1>2, <1>3, <1>4, <1>5, <1>6, <1>7, BookedSumType

\* So a deposit whose key is free, or was taken by itself, is not refused.
LEMMA FreeIsAccepted ==
  ASSUME IsFiniteSet(Transfers), RoomInv, NEW t \in Deposits, posted[KeyOf(t)] \in {None, Request(t)}
  PROVE  L!Accepts(KeyOf(t), Request(t), L!UserTypes \cup L!SystemTypes)
<1> DEFINE all == L!UserTypes \cup L!SystemTypes
           net == Request(t).net
<1>1. t \in Transfers /\ net = NetOf(t)
  BY DEF Deposits, Request, L!DepositRequest, L!Request, NetOf, Hot, Counter
<1>2. normalSide = [ty \in L!AccountTypes |-> L!InitialSide(ty)] /\ enabled = {Asset} /\ retired = {}
      /\ \A k \in L!BalanceKey : balance[k] \in 0 .. BookedSum
  BY DEF RoomInv
<1>3. /\ DOMAIN net = {Hot, Counter(t)} /\ Hot \in L!BalanceKey /\ Counter(t) \in L!BalanceKey
      /\ \A k \in DOMAIN net :
           L!Delta(net, k) = AmountOf[t] /\ k[2] = Asset /\ L!TypeOf(k) \in all
      /\ L!Balanced(net) /\ AmountOf[t] \in Nat \ {0}
  BY <1>1, <1>2, NetRaises
<1> HIDE DEF net, all
<1>4. \A k \in DOMAIN net : k[2] \in enabled
  BY <1>2, <1>3
<1>5. L!Admissible(net, L!EnsureSupport(all))
  BY <1>2, <1>3 DEF L!Admissible, L!EnsureSupport
<1>6. posted[KeyOf(t)] = None => L!Fits(net)
  <2> SUFFICES ASSUME posted[KeyOf(t)] = None, NEW k \in DOMAIN net
               PROVE  balance[k] + L!Delta(net, k) \in 0 .. SumFunction(AmountOf)
    BY DEF L!Fits, L!SumFunction, L!SumFunctionOnSet, L!FoldFunctionOnSet, L!MapThenFoldSet,
           SumFunction, SumFunctionOnSet, FoldFunctionOnSet, MapThenFoldSet
  <2>1. ~Booked(t)
    BY <1>1, RequestIsReal DEF Booked
  <2>2. BookedSum + AmountOf[t] <= SumFunction(AmountOf)
    BY <1>1, <2>1, RoomForOneMore
  <2>3. k \in L!BalanceKey /\ balance[k] \in 0 .. BookedSum
    BY <1>2, <1>3
  <2>4. SumFunction(AmountOf) \in Int
    <3>1. \A s \in Transfers : AmountOf[s] \in Int
      BY BookedRawType
    <3> QED
      BY <3>1, DepositAssumption, SumType DEF SumFunction
  <2> QED
    BY <1>3, <2>2, <2>3, <2>4, BookedSumType
<1>7. L!Succeeds(KeyOf(t), Request(t), L!EnsureSupport(all))
  BY <1>3, <1>5, <1>6 DEF L!Succeeds, net
<1> QED
  BY <1>4, <1>7 DEF L!Accepts, all, net

\* What a booking does to the balances.
LEMMA BookMoves ==
  ASSUME posted = [k \in LedgerKeys |-> posted[k]], NEW t \in Transfers, Book(t)
  PROVE  /\ UNCHANGED <<enabled, retired, normalSide>>
         /\ \/ UNCHANGED <<posted, balance>>
            \/ \E req : /\ posted[KeyOf(t)] = None /\ posted' = [posted EXCEPT ![KeyOf(t)] = req]
                        /\ balance' = L!Apply(NetOf(t)) /\ req # None
                        /\ t \in Deposits => req = Request(t)
<1>1. PICK req, types, writes :
        /\ L!Post(KeyOf(t), req, types, writes) /\ req.net = NetOf(t) /\ req # None
        /\ t \in Deposits => req = Request(t)
  <2>1. CASE t \in Deposits
    <3>1. PICK writes : L!Post(KeyOf(t), Request(t), L!UserTypes \cup L!SystemTypes, writes)
      BY <2>1 DEF Book, L!ConfirmDeposit, Request
    <3>2. Request(t).net = NetOf(t) /\ Request(t) # None
      BY <2>1, RequestIsReal DEF Request, L!DepositRequest, L!Request, NetOf, Hot, Counter
    <3> QED
      BY <3>1, <3>2
  <2>2. CASE t \notin Deposits
    <3> DEFINE req == L!Request("FundSystemWallet", None, NetOf(t))
    <3>1. L!Post(KeyOf(t), req, L!SystemTypes, {})
      BY <2>2 DEF Book, L!FundSystemWallet, NetOf, Hot, Counter
    <3>2. "FundSystemWallet" \in L!OpTypes /\ AmountOf[t] \in Int
      BY DepositAssumption DEF L!OpTypes
    <3>3. req # None /\ req.net = NetOf(t)
      BY <2>2, <3>2, KeysOfTheLedger, MoveIsReal DEF NetOf, Hot, Counter, L!Request
    <3> QED
      BY <2>2, <3>1, <3>3
  <2> QED
    BY <2>1, <2>2
<1>2. KeyOf(t) \in LedgerKeys
  BY SyncAssumption DEF KeyOf, LedgerKeys
<1>3. UNCHANGED <<enabled, retired, normalSide>>
  BY <1>1 DEF L!Post, L!setupVars
<1>4. \/ UNCHANGED <<posted, balance>>
      \/ L!Booked(KeyOf(t), req) /\ posted[KeyOf(t)] \in {None, req}
  BY <1>1 DEF L!Post, L!Succeeds
<1>5. CASE L!Booked(KeyOf(t), req) /\ posted[KeyOf(t)] = None
  BY <1>1, <1>3, <1>5 DEF L!Booked
<1>6. CASE L!Booked(KeyOf(t), req) /\ posted[KeyOf(t)] = req
  <2>1. posted' = posted /\ balance' = balance
    BY <1>1, <1>2, <1>6 DEF L!Booked
  <2> QED
    BY <1>3, <2>1
<1> QED
  BY <1>3, <1>4, <1>5, <1>6

LEMMA RoomStep ==
  ASSUME IsFiniteSet(Transfers), PipeInv, RoomInv, NEW t \in Transfers, Book(t)
  PROVE  RoomInv'
<1>0. posted = [k \in LedgerKeys |-> posted[k]]
  BY DEF PipeInv, Shapes
<1>1. UNCHANGED <<enabled, retired, normalSide>>
  BY <1>0, BookMoves
<1>2. CASE UNCHANGED <<posted, balance>>
  <2>1. \A s \in Transfers : BookedRaw(s)' = BookedRaw(s)
    BY <1>2 DEF BookedRaw, Booked
  <2>2. BookedSum' = BookedSum
    BY <2>1 DEF BookedSum
  <2> QED
    BY <1>1, <1>2, <2>2 DEF RoomInv
<1>3. ASSUME NEW req, posted[KeyOf(t)] = None, posted' = [posted EXCEPT ![KeyOf(t)] = req],
             balance' = L!Apply(NetOf(t)), req # None, t \in Deposits => req = Request(t)
      PROVE  RoomInv'
  <2>1. \A s \in Transfers : KeyOf(s) \in LedgerKeys
    BY SyncAssumption DEF KeyOf, LedgerKeys
  <2>2. \A s \in Deposits : Request(s) # None
    BY RequestIsReal
  <2>3. ~Booked(t) /\ Booked(t)'
    BY <1>0, <1>3, <2>1, <2>2 DEF Booked
  <2>4. \A s \in Transfers : Booked(s) => Booked(s)'
    BY <1>0, <1>3, <2>1, <2>2 DEF Booked
  <2> DEFINE f == [s \in Transfers |-> BookedRaw(s)]
             g == [s \in Transfers |-> IF s = t THEN AmountOf[t] ELSE BookedRaw(s)]
             h == [s \in Transfers |-> BookedRaw(s)']
  <2>5. \A s \in Transfers : /\ f[s] \in Int /\ g[s] \in Int /\ h[s] \in Int
                             /\ (s # t => g[s] = f[s]) /\ g[s] <= h[s]
    BY <2>3, <2>4, DepositAssumption DEF BookedRaw
  <2>6. f[t] = 0 /\ g[t] = AmountOf[t] /\ AmountOf[t] \in Nat
    BY <2>3, DepositAssumption DEF BookedRaw
  <2>7. BookedSum = SumFunctionOnSet(f, Transfers) /\ BookedSum' = SumFunctionOnSet(h, Transfers)
    BY DEF BookedSum
  <2> HIDE DEF f, g, h
  <2>8. SumFunctionOnSet(g, Transfers) = SumFunctionOnSet(f, Transfers) + g[t] - f[t]
    BY <2>5, SumChanged
  <2>9. SumFunctionOnSet(g, Transfers) <= SumFunctionOnSet(h, Transfers)
    BY <2>5, SumMonotonic
  <2>10. SumFunctionOnSet(h, Transfers) \in Int
    BY <2>5, SumType
  <2>11. BookedSum \in Nat /\ BookedSum' \in Int /\ BookedSum + AmountOf[t] <= BookedSum'
    BY <2>6, <2>7, <2>8, <2>9, <2>10, BookedSumType
  <2>12. \A k \in L!BalanceKey : balance'[k] \in {balance[k], balance[k] + AmountOf[t]}
    BY <1>3, NetRaises DEF L!Apply, RoomInv
  <2>13. \A k \in L!BalanceKey : balance'[k] \in 0 .. BookedSum'
    BY <2>6, <2>11, <2>12 DEF RoomInv
  <2>14. DOMAIN balance' = L!BalanceKey
    BY <1>3 DEF L!Apply
  <2> QED
    BY <1>1, <2>13, <2>14 DEF RoomInv
<1> QED
  BY <1>0, <1>2, <1>3, BookMoves

\* What a step gives up as refused: a deposit whose key another one has taken.
LEMMA RefusedNow ==
  ASSUME IsFiniteSet(Transfers), PipeInv, RoomInv, [Next]_vars,
         NEW t \in Transfers, dropped'[t] = "refused", dropped[t] # "refused"
  PROVE  \E s \in Deposits \ (Ignored \cup {t}) : TxOf[s] = TxOf[t] /\ Booked(s)
<1>0. dropped \in [Transfers -> {None, "skipped", "ignored", "refused", "error"}]
  BY DEF PipeInv, Shapes
<1>1. PICK a \in Addresses, c \in Consumers : Credit(c, a)
  <2>1. ASSUME NEW a \in Addresses, NEW c \in Consumers,
               (Process(c, a) /\ ~Credit(c, a)) \/ Commit(a)
        PROVE  UNCHANGED dropped
    BY <2>1 DEF tableVars, Commit, Process, Fetch, Record, LookUpChange, ReadBalance, AddBalance,
       Finish
  <2>2. ASSUME NEW a \in Addresses, NEW c \in Consumers, Reassign(a, c)
        PROVE  dropped'[t] \in {dropped[t], "skipped"}
    BY <2>2 DEF Reassign
  <2>3. CASE UNCHANGED consumerVars
    BY <2>3 DEF consumerVars
  <2> QED
    BY <2>1, <2>2, <2>3, NextCases
<1> PICK m : m = proc[c][a].t
  OBVIOUS
<1>2. m \in Transfers
  BY <1>1, HandIsTyped DEF Credit
<1> DEFINE ok == m \in Deposits =>
                   L!Accepts(KeyOf(m), Request(m), L!UserTypes \cup L!SystemTypes)
<1>3. \/ GivesUp(c, a, "refused") /\ ~ok
      \/ UNCHANGED dropped \/ GivesUp(c, a, "error") \/ GivesUp(c, a, "ignored")
  BY <1>1 DEF Credit
<1>4. dropped' = [dropped EXCEPT ![m] = "refused"] /\ ~ok
  <2>1. \A why \in {"error", "ignored"} : GivesUp(c, a, why) => dropped'[t] \in {dropped[t], why}
    BY <1>0 DEF GivesUp
  <2> HIDE DEF ok
  <2> QED
    BY <1>3, <2>1 DEF GivesUp
<1>5. m = t /\ t \in Deposits
  BY <1>0, <1>4
<1>6. posted[KeyOf(t)] \notin {None, Request(t)}
  BY <1>4, <1>5, FreeIsAccepted
<1>7. KeyOf(t) = <<"deposit", TxOf[t]>> /\ TxOf[t] \in Txs
  BY <1>5, SyncAssumption DEF KeyOf
<1>8. PICK s \in Deposits \ Ignored : TxOf[s] = TxOf[t] /\ posted[<<"deposit", TxOf[t]>>] = Request(s)
  BY <1>6, <1>7 DEF PipeInv, BookedAt
<1>9. Booked(s)
  BY <1>7, <1>8 DEF Booked, KeyOf
<1> QED
  BY <1>6, <1>7, <1>8, <1>9

LEMMA RoomNext ==
  ASSUME IsFiniteSet(Transfers), PipeInv, RoomInv, [Next]_vars
  PROVE  RoomInv'
<1>1. CASE UNCHANGED ledgerVars
  <2>1. UNCHANGED <<posted, balance, enabled, retired, normalSide>>
    BY <1>1 DEF ledgerVars
  <2>2. \A s \in Transfers : BookedRaw(s)' = BookedRaw(s)
    BY <2>1 DEF BookedRaw, Booked
  <2>3. BookedSum' = BookedSum
    BY <2>2 DEF BookedSum
  <2> QED
    BY <2>1, <2>3 DEF RoomInv
<1>2. ASSUME NEW a \in Addresses, NEW c \in Consumers, Credit(c, a)
      PROVE  RoomInv'
  <2>1. proc[c][a].t \in Transfers
    BY <1>2, HandIsTyped DEF Credit
  <2>2. Book(proc[c][a].t) \/ UNCHANGED ledgerVars
    BY <1>2 DEF Credit
  <2> QED
    BY <1>1, <2>1, <2>2, RoomStep
<1>3. ASSUME NEW a \in Addresses, NEW c \in Consumers,
             (Process(c, a) /\ ~Credit(c, a)) \/ Commit(a) \/ Reassign(a, c)
      PROVE  UNCHANGED ledgerVars
  BY <1>3 DEF Commit, Process, Reassign, Fetch, Record, LookUpChange, ReadBalance, AddBalance, Finish
<1>4. CASE UNCHANGED consumerVars
  BY <1>1, <1>4 DEF consumerVars
<1> QED
  BY <1>1, <1>2, <1>3, <1>4, NextCases

\* The ledger refuses a deposit only because another deposit of the transaction,
\* not one to be ignored, has taken its key: never for want of room, an account type or an asset
\* (confirmDepositLogic.go, depositConfirmIdemKeyAndBizRef).
THEOREM RefusalsHaveSiblings ==
  ASSUME IsFiniteSet(Transfers)
  PROVE  Spec => []RefusedHasSibling
<1>1. Init => RoomInv /\ RefusedHasSibling
  <2> SUFFICES ASSUME Init PROVE RoomInv /\ RefusedHasSibling
    OBVIOUS
  <2>1. /\ enabled = {Asset} /\ retired = {} /\ balance = [k \in L!BalanceKey |-> 0]
        /\ normalSide = [ty \in L!AccountTypes |-> L!InitialSide(ty)]
        /\ dropped = [t \in Transfers |-> None]
    BY DEF Init, L!Init
  <2>2. BookedSum \in Nat
    BY BookedSumType
  <2>3. PipeInv
    BY InitPipeInv
  <2>4. None # "refused"
    BY DepositAssumption
  <2> QED
    BY <2>1, <2>2, <2>4 DEF RoomInv, RefusedHasSibling
<1>2. PipeInv /\ RoomInv /\ RefusedHasSibling /\ [Next]_vars => RefusedHasSibling'
  <2> SUFFICES ASSUME PipeInv, RoomInv, RefusedHasSibling, [Next]_vars,
                      NEW t \in Transfers, dropped'[t] = "refused"
               PROVE  \E s \in Deposits \ (Ignored \cup {t}) : TxOf[s] = TxOf[t] /\ Booked(s)'
    BY DEF RefusedHasSibling, Deposits
  <2>1. PICK s \in Deposits \ (Ignored \cup {t}) : TxOf[s] = TxOf[t] /\ Booked(s)
    BY RefusedNow DEF RefusedHasSibling
  <2>2. Booked(s)'
    BY <2>1, BooksOnlyGrow, BookedStays
  <2> QED
    BY <2>1, <2>2
<1>3. PipeInv /\ RoomInv /\ [Next]_vars => RoomInv'
  BY RoomNext
<1> QED
  BY <1>1, <1>2, <1>3, SpecPipeInv, PTL DEF Spec

-------------------------------------------------------------------------------
(* The path implements the deposit contract.                                 *)

\* The ledger tells the transfers of a transaction apart.
DistinctRequests ==
  \A s, t \in Deposits : TxOf[s] = TxOf[t] /\ Request(s) = Request(t) => s = t

FinalDeposits    == {t \in Deposits : TxOf[t] \notin moved \cup Reverted /\ Deep(TxOf[t])}
CreditedDeposits == {t \in Deposits : TxOf[t] \notin moved /\ Booked(t)}

\* What is credited is final: its key was taken by a published transfer.
LEMMA CreditedIsFinal == PipeInv => CreditedDeposits \subseteq FinalDeposits
<1> SUFFICES ASSUME PipeInv, NEW t \in CreditedDeposits PROVE t \in FinalDeposits
  OBVIOUS
<1>1. /\ t \in Deposits /\ TxOf[t] \notin moved /\ TxOf[t] \in Txs /\ Request(t) # None
      /\ posted[<<"deposit", TxOf[t]>>] = Request(t)
  BY SyncAssumption, RequestIsReal DEF CreditedDeposits, Deposits, Booked, KeyOf
<1>2. PICK s \in Published : TxOf[s] = TxOf[t]
  BY <1>1 DEF PipeInv, BookedAt
<1>3. Deep(TxOf[t]) /\ TxOf[t] \notin Reverted
  BY <1>1, <1>2 DEF PipeInv, SyncInv, PublishedIsFinal
<1> QED
  BY <1>1, <1>3 DEF FinalDeposits

\* No reorganisation reaches what is final.
LEMMA FinalRests ==
  ASSUME PipeInv, [SyncNext]_syncVars
  PROVE  FinalDeposits \subseteq FinalDeposits' /\ moved \subseteq moved'
<1>1. SyncTypeOK
  BY DEF PipeInv, SyncInv
<1>2. UNCHANGED moved \/ \E x \in Txs : ~Deep(x) /\ moved' = moved \cup {x}
  BY DEF SyncNext, syncVars, chainVars, Mine, Reorganise, RefreshHead, Scanner, ScanStart, ScanFrom,
     ScanFetch, ScanSave, ScanAdvance, Confirmer, ConfirmStart, Check, Send, Mark, EndBatch,
     ScanAbort, SyncCrash, Requeue, Expire, RetryMessage
<1>3. ASSUME NEW t \in FinalDeposits PROVE t \in FinalDeposits'
  <2>1. t \in Transfers /\ t \in Deposits /\ Unmoved(t) /\ Final(t)
    BY DEF FinalDeposits, Deposits, Unmoved, Final
  <2>2. Unmoved(t)'
    BY <1>2, <2>1 DEF Unmoved, Final
  <2>3. Final(t)'
    BY <1>1, <2>1, <2>2, FinalStays
  <2>4. TxOf[t] \notin moved' \cup Reverted /\ Deep(TxOf[t])'
    BY <2>2, <2>3 DEF Unmoved, Final, Deep
  <2> QED
    BY <2>1, <2>4 DEF FinalDeposits, Deposits
<1> QED
  BY <1>2, <1>3

LEMMA SyncStepFinalises ==
  ASSUME PipeInv, [SyncNext]_syncVars, UNCHANGED consumerVars
  PROVE  /\ CreditedDeposits' = CreditedDeposits
         /\ FinalDeposits \subseteq FinalDeposits' /\ FinalDeposits' \subseteq Deposits
<1>1. UNCHANGED posted
  BY DEF consumerVars, ledgerVars
<1>2. \A t \in Transfers : Booked(t)' <=> Booked(t)
  BY <1>1 DEF Booked
<1>3. CreditedDeposits' \subseteq CreditedDeposits
  BY <1>2, FinalRests DEF CreditedDeposits, Deposits
<1>4. ASSUME NEW t \in CreditedDeposits PROVE t \in CreditedDeposits'
  <2>1. t \in FinalDeposits'
    BY CreditedIsFinal, FinalRests
  <2>2. t \in Deposits /\ Booked(t)' /\ TxOf[t] \notin moved'
    BY <1>2, <2>1 DEF CreditedDeposits, FinalDeposits, Deposits
  <2> QED
    BY <2>2 DEF CreditedDeposits, Deposits
<1>5. FinalDeposits' \subseteq Deposits
  BY DEF FinalDeposits, Deposits
<1> QED
  BY <1>3, <1>4, <1>5, FinalRests

LEMMA ReplicaStepCredits ==
  ASSUME PipeInv, DistinctRequests,
         NEW a \in Addresses, Commit(a) \/ \E c \in Consumers : Process(c, a) \/ Reassign(a, c)
  PROVE  /\ FinalDeposits' = FinalDeposits
         /\ \/ CreditedDeposits' = CreditedDeposits
            \/ \E t \in FinalDeposits :
                 /\ \A s \in CreditedDeposits : TxOf[s] # TxOf[t]
                 /\ CreditedDeposits' = CreditedDeposits \cup {t}
<1>1. UNCHANGED quiet
  BY DEF Commit, Process, Reassign, Fetch, Credit, Record, LookUpChange, ReadBalance, AddBalance,
     Finish, syncVars, quiet
<1>2. UNCHANGED moved /\ FinalDeposits' = FinalDeposits
  BY <1>1 DEF quiet, chainVars, FinalDeposits, Deposits, Deep
<1>3. UNCHANGED posted \/ \E t \in Transfers \cap Published : Book(t)
  <2>1. CASE \E c \in Consumers : Credit(c, a)
    <3>1. PICK c \in Consumers : Credit(c, a)
      BY <2>1
    <3>2. proc[c][a].t \in Transfers \cap Published
      BY <3>1, HandIsTyped DEF Credit
    <3> QED
      BY <3>1, <3>2 DEF Credit, ledgerVars
  <2> QED
    BY <2>1 DEF Commit, Process, Reassign, Fetch, Record, LookUpChange, ReadBalance, AddBalance,
     Finish, ledgerVars
<1>4. CASE UNCHANGED posted
  BY <1>2, <1>4 DEF CreditedDeposits, Deposits, Booked
<1>5. ASSUME NEW t \in Transfers \cap Published, Book(t)
      PROVE  \/ CreditedDeposits' = CreditedDeposits
             \/ /\ t \in FinalDeposits
                /\ \A s \in CreditedDeposits : TxOf[s] # TxOf[t]
                /\ CreditedDeposits' = CreditedDeposits \cup {t}
  <2> DEFINE key(x) == <<"deposit", x>>
  <2>1. \A x \in Txs : posted'[key(x)] # posted[key(x)] =>
          t \in Deposits /\ x = TxOf[t] /\ posted[key(x)] = None /\ posted'[key(x)] = Request(t)
    BY <1>5, BookEffect DEF PipeInv, Shapes
  <2>2. \A s \in Deposits : /\ TxOf[s] \in Txs /\ Request(s) # None
                            /\ (Booked(s) <=> posted[key(TxOf[s])] = Request(s))
                            /\ (Booked(s)' <=> posted'[key(TxOf[s])] = Request(s))
    BY SyncAssumption, RequestIsReal DEF Deposits, Booked, KeyOf
  <2> HIDE DEF key
  <2>3. CASE \E x \in Txs : posted'[key(x)] # posted[key(x)] /\ x \notin moved
    <3>1. /\ t \in Deposits /\ TxOf[t] \notin moved
          /\ posted[key(TxOf[t])] = None /\ posted'[key(TxOf[t])] = Request(t)
      BY <2>1, <2>3
    <3>2. \A s \in CreditedDeposits : TxOf[s] # TxOf[t]
      BY <2>2, <3>1 DEF CreditedDeposits
    <3>3. ASSUME NEW s \in Deposits, TxOf[s] = TxOf[t], Booked(s)' PROVE s = t
      BY <2>2, <3>1, <3>3 DEF DistinctRequests
    <3>4. ASSUME NEW s \in Deposits, TxOf[s] # TxOf[t] PROVE Booked(s)' <=> Booked(s)
      BY <2>1, <2>2, <3>4
    <3>5. Booked(t)'
      BY <2>2, <3>1
    <3>6. CreditedDeposits' = CreditedDeposits \cup {t}
      BY <1>2, <3>1, <3>2, <3>3, <3>4, <3>5 DEF CreditedDeposits, Deposits
    <3>7. t \in FinalDeposits
      BY <3>1 DEF FinalDeposits, PipeInv, SyncInv, PublishedIsFinal
    <3> QED
      BY <3>2, <3>6, <3>7
  <2>4. CASE \A x \in Txs : x \notin moved => posted'[key(x)] = posted[key(x)]
    BY <1>2, <2>2, <2>4 DEF CreditedDeposits, Deposits
  <2> QED
    BY <2>3, <2>4
<1>6. ASSUME NEW t \in Transfers \cap Published, Book(t)
      PROVE  \/ CreditedDeposits' = CreditedDeposits
             \/ \E s \in FinalDeposits :
                  /\ \A r \in CreditedDeposits : TxOf[r] # TxOf[s]
                  /\ CreditedDeposits' = CreditedDeposits \cup {s}
  BY <1>5, <1>6
<1> QED
  BY <1>2, <1>3, <1>4, <1>6

\* As long as the ledger can tell the transfers of a transaction apart, the path
\* keeps the deposit contract for every transaction that no reorganisation has
\* touched: final first, credited once per transaction, never taken back,
\* whatever the chain service retries and whichever replica works beside another.
THEOREM KeepsContract ==
  ASSUME DistinctRequests
  PROVE  Spec => ContractSpec
<1>1. Init => Contract!Init
  <2> SUFFICES ASSUME Init PROVE Contract!Init
    OBVIOUS
  <2>1. chain = [x \in Txs |-> 0] /\ posted = [k \in LedgerKeys |-> None]
    BY DEF Init, SyncInit, L!Init
  <2>2. ASSUME NEW t \in Deposits PROVE ~Deep(TxOf[t]) /\ ~Booked(t)
    <3>1. TxOf[t] \in Txs /\ Request(t) # None
      BY SyncAssumption, RequestIsReal DEF Deposits
    <3> QED
      BY <2>1, <3>1 DEF Deep, Booked, KeyOf, LedgerKeys
  <2> QED
    BY <2>2 DEF Contract!Init
<1>2. PipeInv /\ [Next]_vars => [Contract!Next]_(Contract!vars)
  <2> SUFFICES ASSUME PipeInv, [Next]_vars PROVE [Contract!Next]_(Contract!vars)
    OBVIOUS
  <2>1. CASE UNCHANGED consumerVars /\ [SyncNext]_syncVars
    <3>1. /\ CreditedDeposits' = CreditedDeposits
          /\ FinalDeposits' = FinalDeposits \cup (FinalDeposits' \ FinalDeposits)
          /\ FinalDeposits' \ FinalDeposits \in SUBSET (Deposits \ FinalDeposits)
      BY <2>1, SyncStepFinalises
    <3>2. CASE FinalDeposits' = FinalDeposits
      BY <3>1, <3>2 DEF Contract!vars, FinalDeposits, CreditedDeposits
    <3>3. CASE FinalDeposits' # FinalDeposits
      <4>1. Contract!Finalise
        BY <3>1, <3>3 DEF Contract!Finalise, FinalDeposits, CreditedDeposits
      <4> QED
        BY <4>1 DEF Contract!Next
    <3> QED
      BY <3>2, <3>3
  <2>2. CASE \E a \in Addresses : Commit(a) \/ \E c \in Consumers : Process(c, a) \/ Reassign(a, c)
    <3>1. /\ FinalDeposits' = FinalDeposits
          /\ \/ CreditedDeposits' = CreditedDeposits
             \/ \E t \in FinalDeposits :
                  /\ \A s \in CreditedDeposits : TxOf[s] # TxOf[t]
                  /\ CreditedDeposits' = CreditedDeposits \cup {t}
      BY <2>2, ReplicaStepCredits
    <3>2. CASE CreditedDeposits' = CreditedDeposits
      BY <3>1, <3>2 DEF Contract!vars, FinalDeposits, CreditedDeposits
    <3>3. CASE CreditedDeposits' # CreditedDeposits
      <4>1. PICK t \in FinalDeposits :
                  /\ \A s \in CreditedDeposits : TxOf[s] # TxOf[t]
                  /\ CreditedDeposits' = CreditedDeposits \cup {t}
        BY <3>1, <3>3
      <4>2. Contract!Credit(t) /\ t \in Deposits
        BY <3>1, <4>1 DEF Contract!Credit, FinalDeposits, CreditedDeposits
      <4> QED
        BY <4>2 DEF Contract!Next
    <3> QED
      BY <3>2, <3>3
  <2> QED
    BY <2>1, <2>2 DEF Next, vars
<1> QED
  BY <1>1, <1>2, SpecPipeInv, PTL DEF Spec, ContractSpec, Contract!Spec

===============================================================================
