--------------------------- MODULE NonceManagerProofs ---------------------------
(* Theorems about NonceManager, for any requests, bounds and faults.            *)
EXTENDS NonceManager, FiniteSetTheorems, TLAPS

-------------------------------------------------------------------------------
(* Types, the lock and the semaphore.                                         *)

\* A managed transfer at work holds the address.
Locked == \A c \in Managed : call[c].pc \in Holding => lock = c

Places == Cardinality(Running) <= MaxConcurrency

LEMMA Groups ==
  /\ Managed \subseteq Calls /\ TopUps \subseteq Calls /\ Items \subseteq Managed
  /\ None \notin Managed /\ Managed \cap TopUps = {}
BY NonceAssumption DEF Calls, Managed

LEMMA TypesKept ==
  ASSUME NonceTypeOK, [Next]_vars
  PROVE  NonceTypeOK'
<1>0. MaxFaults \in Nat /\ MaxNonce \in Nat
  BY NonceAssumption
<1>1. ASSUME NEW kind, Fault(kind)
      PROVE  faults' \in 0 .. MaxFaults
  <2>1. faults \in Nat /\ faults < MaxFaults /\ faults' = faults + 1
    BY <1>0, <1>1 DEF Fault, NonceTypeOK
  <2> QED
    BY <1>0, <2>1
<1>2. ASSUME NEW c \in Calls, NEW pc \in {"new", "want"} \cup Holding \cup Ended, MovesTo(c, pc)
      PROVE  call' \in [Calls -> [pc : {"new", "want"} \cup Holding \cup Ended, nonce : Nat]]
  BY <1>2 DEF MovesTo, NonceTypeOK
<1>3. ASSUME NEW c \in Calls, NEW success \in BOOLEAN, Release(c, success)
      PROVE  lock' \in Managed \cup {None} /\ lastNonce' \in Nat /\ trusted' \in BOOLEAN
  <2>1. call[c].nonce \in Nat /\ lock \in Managed \cup {None} /\ lastNonce \in Nat /\ trusted \in BOOLEAN
    BY DEF NonceTypeOK
  <2>2. CASE c \in Managed /\ success
    BY <1>3, <2>1, <2>2 DEF Release
  <2>3. CASE ~(c \in Managed /\ success)
    BY <1>3, <2>1, <2>3 DEF Release, memo
  <2> QED
    BY <2>2, <2>3
<1>4. ASSUME NEW c \in Calls, Accept(c)
      PROVE  sent' \in [Calls -> Nat \cup {None}]
  BY <1>4 DEF Accept, NonceTypeOK
<1>5. \A p \in Answers : p \in Nat /\ NextNonce(p) \in Nat
  BY <1>0 DEF Answers, NextNonce, NonceTypeOK
<1>6. ASSUME NEW c \in Managed, Start(c)
      PROVE  NonceTypeOK'
  BY <1>2, <1>6, Groups DEF Start, memo, nodeVars, NonceTypeOK
<1>7. ASSUME NEW c \in Managed, AcquireNonce(c)
      PROVE  NonceTypeOK'
  <2>1. call' \in [Calls -> [pc : {"new", "want"} \cup Holding \cup Ended, nonce : Nat]]
    <3>1. CASE \E p \in Answers : call' = [call EXCEPT ![c] = [pc |-> "price", nonce |-> NextNonce(p)]]
      BY <1>5, <3>1, Groups DEF Holding, NonceTypeOK
    <3>2. CASE MovesTo(c, "failed")
      BY <1>2, <3>2, Groups DEF Ended
    <3> QED
      BY <1>7, <3>1, <3>2 DEF AcquireNonce
  <2>2. lock' \in Managed \cup {None} /\ lagged' \in BOOLEAN
    BY <1>7 DEF AcquireNonce, NonceTypeOK
  <2>3. faults' \in 0 .. MaxFaults
    BY <1>1, <1>7 DEF AcquireNonce, NonceTypeOK
  <2> QED
    BY <1>7, <2>1, <2>2, <2>3 DEF AcquireNonce, memo, nodeVars, NonceTypeOK
<1>8. ASSUME NEW c \in Managed, SuggestGasPrice(c)
      PROVE  NonceTypeOK'
  <2>1. MovesTo(c, "sign") \/ MovesTo(c, "unpriced")
    BY <1>8 DEF SuggestGasPrice
  <2>2. call' \in [Calls -> [pc : {"new", "want"} \cup Holding \cup Ended, nonce : Nat]]
    BY <1>2, <2>1, Groups DEF Holding, Ended
  <2>3. faults' \in 0 .. MaxFaults
    BY <1>1, <1>8 DEF SuggestGasPrice, NonceTypeOK
  <2> QED
    BY <1>8, <2>2, <2>3 DEF SuggestGasPrice, memo, nodeVars, NonceTypeOK
<1>9. ASSUME NEW c \in Calls, Sign(c)
      PROVE  NonceTypeOK'
  <2>1. MovesTo(c, "send") \/ MovesTo(c, "failed")
    BY <1>9 DEF Sign
  <2>2. call' \in [Calls -> [pc : {"new", "want"} \cup Holding \cup Ended, nonce : Nat]]
    BY <1>2, <2>1 DEF Holding, Ended
  <2>3. faults' \in 0 .. MaxFaults
    BY <1>1, <1>9 DEF Sign, NonceTypeOK
  <2>4. lock' \in Managed \cup {None} /\ lastNonce' \in Nat /\ trusted' \in BOOLEAN
    BY <1>3, <1>9 DEF Sign, memo, NonceTypeOK
  <2> QED
    BY <1>9, <2>2, <2>3, <2>4 DEF Sign, memo, nodeVars, NonceTypeOK
<1>10. ASSUME NEW c \in Calls, SendTransaction(c)
       PROVE  NonceTypeOK'
  <2>1. MovesTo(c, "ok") \/ MovesTo(c, "failed")
    BY <1>10 DEF SendTransaction
  <2>2. call' \in [Calls -> [pc : {"new", "want"} \cup Holding \cup Ended, nonce : Nat]]
    BY <1>2, <2>1 DEF Ended
  <2>3. faults' \in 0 .. MaxFaults
    BY <1>1, <1>10 DEF SendTransaction, NonceTypeOK
  <2>4. lock' \in Managed \cup {None} /\ lastNonce' \in Nat /\ trusted' \in BOOLEAN
    BY <1>3, <1>10 DEF SendTransaction
  <2>5. sent' \in [Calls -> Nat \cup {None}] /\ forgot' \in BOOLEAN
    BY <1>4, <1>10 DEF SendTransaction, NonceTypeOK
  <2> QED
    BY <1>10, <2>2, <2>3, <2>4, <2>5 DEF SendTransaction, memo, nodeVars, NonceTypeOK
<1>11. ASSUME NEW c \in TopUps, BuildTransaction(c)
       PROVE  NonceTypeOK'
  <2>1. call' \in [Calls -> [pc : {"new", "want"} \cup Holding \cup Ended, nonce : Nat]]
    <3>1. CASE \E p \in Answers : call' = [call EXCEPT ![c] = [pc |-> "sign", nonce |-> p]]
      BY <1>5, <3>1, Groups DEF Holding, NonceTypeOK
    <3>2. CASE MovesTo(c, "failed")
      BY <1>2, <3>2, Groups DEF Ended
    <3> QED
      BY <1>11, <3>1, <3>2 DEF BuildTransaction
  <2>2. faults' \in 0 .. MaxFaults
    BY <1>1, <1>11 DEF BuildTransaction, NonceTypeOK
  <2> QED
    BY <1>11, <2>1, <2>2 DEF BuildTransaction, memo, nodeVars, NonceTypeOK
<1>12. CASE Restart
  <2>1. call' \in [Calls -> [pc : {"new", "want"} \cup Holding \cup Ended, nonce : Nat]]
    BY <1>12 DEF Restart, Ended, NonceTypeOK
  <2> QED
    BY <1>1, <1>12, <2>1 DEF Restart, memo, nodeVars, NonceTypeOK
<1>13. CASE Mine
  BY <1>13 DEF Mine, memo, NonceTypeOK
<1>14. ASSUME NEW c \in Calls, Drop(c)
       PROVE  NonceTypeOK'
  BY <1>1, <1>14 DEF Drop, memo, NonceTypeOK
<1>15. CASE Expire
  BY <1>15 DEF Expire, memo, nodeVars, NonceTypeOK
<1>16. CASE UNCHANGED vars
  BY <1>16 DEF vars, memo, nodeVars, NonceTypeOK
<1> QED
  BY <1>6, <1>7, <1>8, <1>9, <1>10, <1>11, <1>12, <1>13, <1>14, <1>15, <1>16, Groups
     DEF Next, Transfers, TopsUp

\* A managed transfer that goes to work takes the free lock; the holder keeps it
\* until it ends.
LEMMA LockKept ==
  ASSUME NonceTypeOK, Locked, [Next]_vars
  PROVE  Locked'
<1>1. ASSUME NEW c \in Calls, NEW pc, MovesTo(c, pc), lock' = lock,
             c \in TopUps \/ pc \notin Holding \/ call[c].pc \in Holding
      PROVE  Locked'
  BY <1>1, Groups DEF MovesTo, Locked, NonceTypeOK
<1>2. ASSUME NEW c \in Managed, MovesTo(c, "failed") \/ MovesTo(c, "ok"), call[c].pc \in Holding
      PROVE  Locked'
  <2> SUFFICES ASSUME NEW d \in Managed, call'[d].pc \in Holding
               PROVE  FALSE
    BY DEF Locked
  <2>1. d # c
    BY <1>2, Groups DEF MovesTo, Holding, NonceTypeOK
  <2>2. call'[d] = call[d]
    BY <1>2, <2>1, Groups DEF MovesTo, NonceTypeOK
  <2> QED
    BY <1>2, <2>1, <2>2 DEF Locked
<1>3. ASSUME NEW c \in Managed, Start(c)
      PROVE  Locked'
  BY <1>1, <1>3, Groups DEF Start, Holding
<1>4. ASSUME NEW c \in Managed, AcquireNonce(c)
      PROVE  Locked'
  <2>1. CASE lock' = c
    BY <1>4, <2>1, Groups DEF AcquireNonce, MovesTo, Locked, NonceTypeOK
  <2>2. CASE MovesTo(c, "failed") /\ lock' = lock
    BY <1>1, <2>2, Groups DEF Holding
  <2> QED
    BY <1>4, <2>1, <2>2 DEF AcquireNonce
<1>5. ASSUME NEW c \in Managed, SuggestGasPrice(c)
      PROVE  Locked'
  BY <1>1, <1>5, Groups DEF SuggestGasPrice, Holding
<1>6. ASSUME NEW c \in Calls, Sign(c)
      PROVE  Locked'
  <2>1. CASE MovesTo(c, "send") /\ UNCHANGED lock
    BY <1>1, <1>6, <2>1 DEF Sign, Holding
  <2>2. CASE MovesTo(c, "failed") /\ Release(c, FALSE)
    BY <1>1, <1>2, <1>6, <2>2 DEF Sign, Release, Holding, Calls
  <2> QED
    BY <1>6, <2>1, <2>2 DEF Sign
<1>7. ASSUME NEW c \in Calls, SendTransaction(c)
      PROVE  Locked'
  <2>1. \E success \in BOOLEAN : Release(c, success) /\ (MovesTo(c, "ok") \/ MovesTo(c, "failed"))
    BY <1>7 DEF SendTransaction
  <2> QED
    BY <1>1, <1>2, <1>7, <2>1 DEF SendTransaction, Release, Holding, Calls
<1>8. ASSUME NEW c \in TopUps, BuildTransaction(c)
      PROVE  Locked'
  BY <1>8, Groups DEF BuildTransaction, MovesTo, Locked, NonceTypeOK
<1>9. CASE Restart
  BY <1>9, Groups DEF Restart, Locked, Holding, NonceTypeOK
<1>10. CASE UNCHANGED <<call, lock>>
  BY <1>10 DEF Locked
<1> QED
  BY <1>3, <1>4, <1>5, <1>6, <1>7, <1>8, <1>9, <1>10, Groups
     DEF Next, Transfers, TopsUp, Mine, Drop, Expire, vars

\* Only Start takes a place of the semaphore, and only a free one.
LEMMA PlacesKept ==
  ASSUME NonceTypeOK, Places, [Next]_vars
  PROVE  Places'
<1> DEFINE Busy == {"want"} \cup Holding
<1>0. IsFiniteSet(Running) /\ Cardinality(Running) \in Nat /\ MaxConcurrency \in Nat
  <2>1. IsFiniteSet(Items) /\ Running \subseteq Items
    BY NonceAssumption DEF Running
  <2> QED
    BY <2>1, FS_Subset, FS_CardinalityType, NonceAssumption
<1>1. ASSUME Running' \subseteq Running
      PROVE  Places'
  <2>1. Cardinality(Running') <= Cardinality(Running) /\ Cardinality(Running') \in Nat
    BY <1>0, <1>1, FS_Subset, FS_CardinalityType
  <2>2. Cardinality(Running)' = Cardinality(Running')
    OBVIOUS
  <2> QED
    BY <1>0, <2>1, <2>2 DEF Places
<1>2. ASSUME NEW c \in Calls, \A d \in Calls : d # c => call'[d] = call[d],
             call'[c].pc \in Busy => call[c].pc \in Busy \/ c \notin Items
      PROVE  Places'
  BY <1>1, <1>2, Groups DEF Running
<1>3. ASSUME NEW c \in Calls, NEW pc, MovesTo(c, pc)
      PROVE  call'[c].pc = pc /\ \A d \in Calls : d # c => call'[d] = call[d]
  BY <1>3 DEF MovesTo, NonceTypeOK
<1>4. ASSUME NEW c \in Managed, Start(c)
      PROVE  Places'
  <2>1. call'[c].pc = "want" /\ \A d \in Calls : d # c => call'[d] = call[d]
    BY <1>3, <1>4, Groups DEF Start
  <2>2. CASE c \notin Items
    BY <1>2, <2>1, <2>2, Groups
  <2>3. CASE c \in Items
    <3>1. Running' = Running \cup {c} /\ c \notin Running
      BY <1>4, <2>1, <2>3, Groups DEF Running, Start, Holding
    <3>2. Cardinality(Running') = Cardinality(Running) + 1
      BY <1>0, <3>1, FS_AddElement
    <3>3. Cardinality(Running)' = Cardinality(Running')
      OBVIOUS
    <3> QED
      BY <1>0, <1>4, <2>3, <3>2, <3>3 DEF Start, Places
  <2> QED
    BY <2>2, <2>3
<1>5. ASSUME NEW c \in Managed, AcquireNonce(c)
      PROVE  Places'
  <2>1. \A d \in Calls : d # c => call'[d] = call[d]
    BY <1>3, <1>5, Groups DEF AcquireNonce, NonceTypeOK
  <2> QED
    BY <1>2, <1>5, <2>1, Groups DEF AcquireNonce
<1>6. ASSUME NEW c \in Managed, SuggestGasPrice(c)
      PROVE  Places'
  BY <1>2, <1>3, <1>6, Groups DEF SuggestGasPrice, Holding
<1>7. ASSUME NEW c \in Calls, Sign(c)
      PROVE  Places'
  BY <1>2, <1>3, <1>7 DEF Sign, Holding
<1>8. ASSUME NEW c \in Calls, SendTransaction(c)
      PROVE  Places'
  BY <1>2, <1>3, <1>8 DEF SendTransaction, Holding
<1>9. ASSUME NEW c \in TopUps, BuildTransaction(c)
      PROVE  Places'
  <2>1. \A d \in Calls : d # c => call'[d] = call[d]
    BY <1>3, <1>9, Groups DEF BuildTransaction, NonceTypeOK
  <2> QED
    BY <1>2, <2>1, Groups
<1>10. CASE Restart
  BY <1>1, <1>10, Groups DEF Restart, Running, Holding
<1>11. CASE UNCHANGED call
  BY <1>1, <1>11 DEF Running
<1> QED
  BY <1>4, <1>5, <1>6, <1>7, <1>8, <1>9, <1>10, <1>11, Groups
     DEF Next, Transfers, TopsUp, Mine, Drop, Expire, vars

\* Types, the lock and the semaphore, for any number of requests, items and
\* top-ups (AcquireNonce, release, BatchTransfer).
THEOREM TypeCorrect == Spec => []TypeOK
<1>1. Init => TypeOK
  <2> SUFFICES ASSUME Init
               PROVE  TypeOK
    OBVIOUS
  <2>1. NonceTypeOK
    <3>1. [pc |-> "new", nonce |-> 0] \in [pc : {"new", "want"} \cup Holding \cup Ended, nonce : Nat]
      OBVIOUS
    <3>2. call \in [Calls -> [pc : {"new", "want"} \cup Holding \cup Ended, nonce : Nat]]
      BY <3>1 DEF Init
    <3>3. sent \in [Calls -> Nat \cup {None}] /\ lock \in Managed \cup {None} /\ dropped \subseteq Calls
      BY DEF Init
    <3>4. mined \in Nat /\ faults \in 0 .. MaxFaults /\ lastNonce \in Nat
      BY NonceAssumption DEF Init
    <3>5. lagged \in BOOLEAN /\ forgot \in BOOLEAN /\ trusted \in BOOLEAN
      BY DEF Init
    <3> QED
      BY <3>2, <3>3, <3>4, <3>5 DEF NonceTypeOK
  <2>2. Locked
    BY Groups DEF Init, Locked, Holding
  <2>3. Running = {}
    BY Groups DEF Init, Running, Holding
  <2>4. Cardinality(Running) = 0 /\ MaxConcurrency \in Nat
    BY <2>3, FS_EmptySet, NonceAssumption
  <2> QED
    BY <2>1, <2>2, <2>4 DEF TypeOK, Locked
<1>2. TypeOK /\ [Next]_vars => TypeOK'
  BY TypesKept, LockKept, PlacesKept DEF TypeOK, Locked, Places
<1> QED
  BY <1>1, <1>2, PTL DEF Spec

-------------------------------------------------------------------------------
(* What a step may do to the nonces.                                          *)

Early == {"new", "want"}

\* The manager hands out the nonce it makes of answer p.
Grants(c, p) ==
  /\ lock = None
  /\ call[c].pc \in Early
  /\ call' = [call EXCEPT ![c] = [pc |-> "price", nonce |-> NextNonce(p)]]
  /\ lagged \/ Used(p) => lagged'
  /\ forgot => forgot'
  /\ UNCHANGED <<lastNonce, trusted, sent, dropped>>

\* A top-up takes what a node answers.
Reads(c, p) ==
  /\ call[c].pc \in Early
  /\ call' = [call EXCEPT ![c] = [pc |-> "sign", nonce |-> p]]
  /\ lagged => lagged'
  /\ forgot => forgot'
  /\ UNCHANGED <<lastNonce, trusted, sent, dropped>>

\* A transaction is accepted, and remembered or not.
Sends(c) ==
  /\ call[c].pc = "send"
  /\ \E pc \in Ended : MovesTo(c, pc)
  /\ Accept(c)
  /\ lagged => lagged'
  /\ forgot => forgot'
  /\ dropped' = dropped
  /\ \/ c \in Managed /\ lastNonce' = call[c].nonce /\ trusted'
     \/ UNCHANGED <<lastNonce, trusted>> /\ (c \in Managed => forgot')

\* Nothing is handed out or sent, and what is forgotten is known to be.
Rests ==
  /\ \A c \in Calls :
       /\ call'[c].nonce = call[c].nonce
       /\ call'[c].pc \in Holding => call[c].pc \in Holding
       /\ call'[c].pc \in Early => call[c].pc \in Early
  /\ sent' = sent
  /\ dropped \subseteq dropped'
  /\ lagged => lagged'
  /\ forgot => forgot'
  /\ UNCHANGED <<lastNonce, trusted>> \/ (~trusted' /\ forgot')

LEMMA Steps ==
  ASSUME NonceTypeOK, [Next]_vars
  PROVE  \/ \E c \in Managed, p \in Answers : Grants(c, p)
         \/ \E c \in TopUps, p \in Answers : Reads(c, p)
         \/ \E c \in Calls : Sends(c)
         \/ Rests
<1>1. ASSUME NEW c \in Calls, NEW pc \in Holding \cup Ended, MovesTo(c, pc),
             pc \in Holding => call[c].pc \in Holding,
             UNCHANGED <<lastNonce, trusted, sent, dropped, lagged, forgot>>
      PROVE  Rests
  BY <1>1 DEF MovesTo, Rests, Early, Holding, Ended, NonceTypeOK
<1>2. ASSUME NEW c \in Managed, Start(c)
      PROVE  Rests
  BY <1>2, Groups DEF Start, MovesTo, Rests, Early, Holding, memo, nodeVars, NonceTypeOK
<1>3. ASSUME NEW c \in Managed, AcquireNonce(c)
      PROVE  Rests \/ \E p \in Answers : Grants(c, p)
  <2>1. CASE MovesTo(c, "failed") /\ lagged' = lagged
    BY <1>1, <1>3, <2>1, Groups DEF AcquireNonce, memo, nodeVars, Holding, Ended
  <2>2. CASE \E p \in Answers :
               /\ call' = [call EXCEPT ![c] = [pc |-> "price", nonce |-> NextNonce(p)]]
               /\ lagged' = (lagged \/ Used(p))
    BY <1>3, <2>2 DEF AcquireNonce, Grants, Early, memo, nodeVars
  <2> QED
    BY <1>3, <2>1, <2>2 DEF AcquireNonce
<1>4. ASSUME NEW c \in Managed, SuggestGasPrice(c)
      PROVE  Rests
  BY <1>1, <1>4, Groups DEF SuggestGasPrice, memo, nodeVars, Holding, Ended
<1>5. ASSUME NEW c \in Calls, Sign(c)
      PROVE  Rests
  <2>1. UNCHANGED <<lastNonce, trusted>>
    BY <1>5 DEF Sign, Release, memo
  <2> QED
    BY <1>1, <1>5, <2>1 DEF Sign, nodeVars, Holding, Ended
<1>6. ASSUME NEW c \in Calls, SendTransaction(c)
      PROVE  Rests \/ Sends(c)
  <2>1. CASE MovesTo(c, "ok") /\ Release(c, TRUE) /\ Accept(c) /\ forgot' = forgot
    BY <1>6, <2>1 DEF SendTransaction, Sends, Release, Ended, memo, nodeVars
  <2>2. CASE MovesTo(c, "failed") /\ Release(c, FALSE) /\ UNCHANGED <<sent, forgot>>
    <3>1. UNCHANGED <<lastNonce, trusted>>
      BY <2>2 DEF Release, memo
    <3> QED
      BY <1>1, <1>6, <2>2, <3>1 DEF SendTransaction, nodeVars, Holding, Ended
  <2>3. CASE MovesTo(c, "failed") /\ Release(c, FALSE) /\ Accept(c) /\ forgot' = (forgot \/ c \in Managed)
    BY <1>6, <2>3 DEF SendTransaction, Sends, Release, Ended, memo, nodeVars
  <2> QED
    BY <1>6, <2>1, <2>2, <2>3 DEF SendTransaction
<1>7. ASSUME NEW c \in TopUps, BuildTransaction(c)
      PROVE  Rests \/ \E p \in Answers : Reads(c, p)
  <2>1. CASE MovesTo(c, "failed")
    BY <1>1, <1>7, <2>1, Groups DEF BuildTransaction, memo, nodeVars, Holding, Ended
  <2>2. CASE \E p \in Answers : call' = [call EXCEPT ![c] = [pc |-> "sign", nonce |-> p]]
    BY <1>7, <2>2 DEF BuildTransaction, Reads, Early, memo, nodeVars
  <2> QED
    BY <1>7, <2>1, <2>2 DEF BuildTransaction
<1>8. CASE Restart
  BY <1>8 DEF Restart, Rests, Early, Holding, nodeVars, NonceTypeOK
<1>9. CASE Expire
  BY <1>9 DEF Expire, Rests, nodeVars
<1>10. CASE Mine
  BY <1>10 DEF Mine, Rests, memo
<1>11. ASSUME NEW c \in Calls, Drop(c)
       PROVE  Rests
  BY <1>11 DEF Drop, Rests, memo
<1>12. CASE UNCHANGED vars
  BY <1>12 DEF vars, Rests, memo, nodeVars
<1> QED
  BY <1>2, <1>3, <1>4, <1>5, <1>6, <1>7, <1>8, <1>9, <1>10, <1>11, <1>12, Groups
     DEF Next, Transfers, TopsUp

-------------------------------------------------------------------------------
(* Gaps.                                                                      *)

Known(k) == \E d \in Calls : sent[d] = k

Below(n) == \A k \in 0 .. n - 1 : Known(k)

\* A request has sent nothing before it ends.
Unsent == \A c \in Calls : call[c].pc \in Early \cup Holding => sent[c] = None

\* What the manager remembers was sent, and there is no gap below what was sent
\* or handed out.
GapInv ==
  /\ Unsent
  /\ \A c \in Calls : call[c].pc \in Holding => Below(call[c].nonce)
  /\ trusted => Known(lastNonce)
  /\ NoGaps

LEMMA UnsentKept ==
  ASSUME NonceTypeOK, Unsent, [Next]_vars
  PROVE  /\ Unsent'
         /\ \A c \in Calls : sent[c] # None => sent'[c] = sent[c]
<1>1. ASSUME NEW c \in Managed, NEW p \in Answers, Grants(c, p)
      PROVE  Unsent' /\ sent' = sent
  BY <1>1, Groups DEF Grants, Unsent, Early, Holding, NonceTypeOK
<1>2. ASSUME NEW c \in TopUps, NEW p \in Answers, Reads(c, p)
      PROVE  Unsent' /\ sent' = sent
  BY <1>2, Groups DEF Reads, Unsent, Early, Holding, NonceTypeOK
<1>3. ASSUME NEW c \in Calls, Sends(c)
      PROVE  Unsent' /\ \A d \in Calls : sent[d] # None => sent'[d] = sent[d]
  <2>1. sent[c] = None
    BY <1>3 DEF Sends, Unsent, Holding
  <2>2. call'[c].pc \in Ended /\ \A d \in Calls : d # c => call'[d] = call[d] /\ sent'[d] = sent[d]
    BY <1>3 DEF Sends, MovesTo, Accept, NonceTypeOK
  <2> QED
    BY <2>1, <2>2 DEF Unsent, Early, Holding, Ended
<1>4. CASE Rests
  BY <1>4 DEF Rests, Unsent
<1> QED
  BY <1>1, <1>2, <1>3, <1>4, Steps

\* A nonce under an answer, or the one after those remembered, has no gap below.
LEMMA AnswersHaveNoGap ==
  ASSUME NonceTypeOK, GapInv, NEW p \in Answers
  PROVE  Below(p) /\ Below(NextNonce(p)) /\ p \in Nat /\ NextNonce(p) \in Nat
<1>1. p \in Nat /\ \A k \in 0 .. p - 1 : Used(k)
  BY NonceAssumption DEF Answers
<1>2. Below(p)
  BY <1>1 DEF Below, Known, Used
<1>3. ASSUME trusted
      PROVE  Below(lastNonce + 1)
  <2>1. PICK d \in Calls : sent[d] = lastNonce
    BY <1>3 DEF GapInv, Known
  <2>2. lastNonce \in Nat /\ sent[d] # None
    BY <2>1, NonceAssumption DEF NonceTypeOK
  <2>3. \A k \in 0 .. lastNonce - 1 : Known(k)
    BY <2>1, <2>2 DEF GapInv, NoGaps, Known
  <2>4. \A k \in 0 .. lastNonce : k \in 0 .. lastNonce - 1 \/ k = lastNonce
    BY <2>2
  <2> QED
    BY <2>1, <2>2, <2>3, <2>4 DEF Below, Known
<1> QED
  BY <1>1, <1>2, <1>3 DEF NextNonce, NonceTypeOK

LEMMA GapInvKept ==
  ASSUME NonceTypeOK, GapInv, [Next]_vars
  PROVE  GapInv'
<1>1. Unsent' /\ \A c \in Calls : sent[c] # None => sent'[c] = sent[c]
  BY UnsentKept DEF GapInv
<1>2. \A k \in Nat : Known(k) => Known(k)'
  BY <1>1, NonceAssumption DEF Known
<1>3. ASSUME NEW n \in Nat, Below(n)
      PROVE  \A k \in 0 .. n - 1 : Known(k)'
  BY <1>2, <1>3 DEF Below
<1>4. \A c \in Calls : sent[c] # None => sent[c] \in Nat /\ \A k \in 0 .. sent[c] - 1 : Known(k)'
  BY <1>2 DEF GapInv, NoGaps, Known, NonceTypeOK
<1>5. \A c \in Calls : call[c].pc \in Holding =>
        call[c].nonce \in Nat /\ \A k \in 0 .. call[c].nonce - 1 : Known(k)'
  BY <1>3 DEF GapInv, NonceTypeOK
<1>6. \A p \in Answers : p \in Nat /\ NextNonce(p) \in Nat
         /\ (\A k \in 0 .. p - 1 : Known(k)') /\ (\A k \in 0 .. NextNonce(p) - 1 : Known(k)')
  BY <1>3, AnswersHaveNoGap
<1> DEFINE Handed == \A c \in Calls : call'[c].pc \in Holding => \A k \in 0 .. call'[c].nonce - 1 : Known(k)'
           Remembered == trusted' => Known(lastNonce)'
           Gapless == \A c \in Calls : sent'[c] # None => \A k \in 0 .. sent'[c] - 1 : Known(k)'
<1>7. CASE sent' = sent
  <2>1. Gapless
    BY <1>4, <1>7
  <2>2. \A k : Known(k) => Known(k)'
    BY <1>7 DEF Known
  <2>3. ASSUME NEW c \in Managed, NEW p \in Answers, Grants(c, p)
        PROVE  Handed /\ Remembered
    <3>1. call'[c].nonce = NextNonce(p) /\ \A d \in Calls : d # c => call'[d] = call[d]
      BY <2>3, Groups DEF Grants, NonceTypeOK
    <3>2. Handed
      BY <1>5, <1>6, <3>1
    <3>3. Remembered
      BY <1>7, <2>3 DEF GapInv, Grants, Known
    <3> QED
      BY <3>2, <3>3
  <2>4. ASSUME NEW c \in TopUps, NEW p \in Answers, Reads(c, p)
        PROVE  Handed /\ Remembered
    <3>1. call'[c].nonce = p /\ \A d \in Calls : d # c => call'[d] = call[d]
      BY <2>4, Groups DEF Reads, NonceTypeOK
    <3>2. Handed
      BY <1>5, <1>6, <3>1
    <3>3. Remembered
      BY <1>7, <2>4 DEF GapInv, Reads, Known
    <3> QED
      BY <3>2, <3>3
  <2>5. ASSUME Rests
        PROVE  Handed /\ Remembered
    <3>1. Handed
      BY <1>5, <2>5 DEF Rests
    <3>2. Remembered
      BY <1>7, <2>5 DEF GapInv, Rests, Known
    <3> QED
      BY <3>1, <3>2
  <2>6. ASSUME NEW c \in Calls, Sends(c)
        PROVE  FALSE
    <3>1. sent[c] = None /\ sent'[c] = call[c].nonce /\ call[c].nonce \in Nat
      BY <2>6 DEF Sends, Accept, GapInv, Unsent, Holding, NonceTypeOK
    <3> QED
      BY <1>7, <3>1, NonceAssumption
  <2>7. Handed /\ Remembered
    BY <2>3, <2>4, <2>5, <2>6, Steps
  <2> QED
    BY <1>1, <2>1, <2>7 DEF GapInv, Below, NoGaps, Known
<1>8. ASSUME NEW c \in Calls, Sends(c)
      PROVE  GapInv'
  <2>1. /\ \A d \in Calls : d # c => call'[d] = call[d] /\ sent'[d] = sent[d]
        /\ call'[c].pc \notin Holding
        /\ sent'[c] = call[c].nonce /\ call[c].pc \in Holding
    BY <1>8 DEF Sends, MovesTo, Accept, Ended, Holding, NonceTypeOK
  <2>2. Handed
    BY <1>5, <2>1
  <2>3. Gapless
    BY <1>4, <1>5, <2>1
  <2>4. Remembered
    <3>1. CASE lastNonce' = call[c].nonce
      BY <2>1, <3>1 DEF Known
    <3>2. CASE UNCHANGED <<lastNonce, trusted>>
      BY <1>2, <3>2 DEF GapInv, Known, NonceTypeOK
    <3> QED
      BY <1>8, <3>1, <3>2 DEF Sends
  <2> QED
    BY <1>1, <2>2, <2>3, <2>4 DEF GapInv, Below, NoGaps, Known
<1>9. \/ \E c \in Calls : Sends(c)
      \/ sent' = sent
  BY Steps DEF Grants, Reads, Rests
<1> QED
  BY <1>7, <1>8, <1>9

LEMMA GapInvAtFirst == Init => GapInv
BY NonceAssumption, Groups DEF Init, GapInv, Unsent, NoGaps, Below, Holding, Early

\* No transaction is ever sent above a nonce that was never used, whatever the
\* nodes answer, refuse or lose and whatever the service forgets (AcquireNonce,
\* release, BuildTransaction), for any number of requests and faults.
THEOREM NoGapsEver == Spec => []NoGaps
<1>1. Init => GapInv
  BY GapInvAtFirst
<1>2. NonceTypeOK /\ GapInv /\ [Next]_vars => GapInv'
  BY GapInvKept
<1>3. GapInv => NoGaps
  BY DEF GapInv
<1>4. Spec => []NonceTypeOK
  BY TypeCorrect, PTL DEF TypeOK
<1> QED
  BY <1>1, <1>2, <1>3, <1>4, PTL DEF Spec

-------------------------------------------------------------------------------
(* Nonces used twice.                                                         *)

\* While the manager has forgotten nothing, all it has sent lies at or below what
\* it remembers, and below what it has handed out.
Complete ==
  ~forgot =>
    /\ \A d \in Managed : sent[d] # None => trusted /\ sent[d] <= lastNonce
    /\ \A c, d \in Managed : call[c].pc \in Holding /\ sent[d] # None => sent[d] < call[c].nonce

\* While the nodes answer with all they know and lose nothing, what the manager
\* has handed out is free.
Free ==
  ~lagged /\ dropped = {} =>
    \A c, d \in Managed : call[c].pc \in Holding => sent[d] # call[c].nonce

UniqueInv == Complete /\ Free /\ NoncesAreUnique

\* A node that does not lag answers what the manager would count on to.
LEMMA FreshAnswersAreFree ==
  ASSUME NonceTypeOK, GapInv, NEW p \in Answers, ~Used(p), dropped = {}
  PROVE  NextNonce(p) = p /\ \A d \in Calls : sent[d] # p
<1>1. \A d \in Calls : sent[d] # p
  BY DEF Used
<1>2. p \in Nat /\ lastNonce \in Nat
  BY NonceAssumption DEF Answers, NonceTypeOK
<1>3. ASSUME trusted, lastNonce + 1 > p
      PROVE  FALSE
  <2>1. PICK d \in Calls : sent[d] = lastNonce
    BY <1>3 DEF GapInv, Known
  <2>2. sent[d] # None /\ p < lastNonce
    BY <1>1, <1>2, <1>3, <2>1, NonceAssumption
  <2>3. p \in 0 .. sent[d] - 1
    BY <1>2, <2>1, <2>2
  <2> QED
    BY <1>1, <2>2, <2>3 DEF GapInv, NoGaps
<1> QED
  BY <1>1, <1>3 DEF NextNonce

LEMMA UniqueInvKept ==
  ASSUME NonceTypeOK, Locked, GapInv, UniqueInv, [Next]_vars
  PROVE  UniqueInv'
<1>0. \A c \in Calls : /\ sent[c] \in Nat \cup {None} /\ call[c].nonce \in Nat
                       /\ call[c].pc \in Early \cup Holding => sent[c] = None
  BY DEF NonceTypeOK, GapInv, Unsent
<1>1. ASSUME NEW c \in Managed, NEW p \in Answers, Grants(c, p)
      PROVE  UniqueInv'
  <2>1. /\ call'[c].nonce = NextNonce(p)
        /\ \A d \in Managed : d # c => call'[d] = call[d] /\ call[d].pc \notin Holding
    BY <1>1, Groups DEF Grants, Locked, NonceTypeOK
  <2>2. Complete'
    <3>1. SUFFICES ASSUME ~forgot', NEW d \in Managed, sent[d] # None
                   PROVE  sent[d] < NextNonce(p)
      BY <1>1, <2>1, <3>1 DEF Grants, UniqueInv, Complete
    <3>2. trusted /\ sent[d] <= lastNonce
      BY <1>1, <3>1 DEF Grants, UniqueInv, Complete
    <3> QED
      BY <1>0, <3>1, <3>2, NonceAssumption, Groups, AnswersHaveNoGap DEF NextNonce, NonceTypeOK
  <2>3. Free'
    <3>1. SUFFICES ASSUME ~Used(p), dropped = {}, NEW d \in Managed
                   PROVE  sent[d] # NextNonce(p)
      BY <1>1, <2>1 DEF Grants, UniqueInv, Free
    <3> QED
      BY <3>1, FreshAnswersAreFree, Groups
  <2>4. NoncesAreUnique'
    BY <1>1 DEF Grants, UniqueInv, NoncesAreUnique
  <2> QED
    BY <2>2, <2>3, <2>4 DEF UniqueInv
<1>2. ASSUME NEW c \in TopUps, NEW p \in Answers, Reads(c, p)
      PROVE  UniqueInv'
  <2>1. \A d \in Managed : call'[d] = call[d]
    BY <1>2, Groups DEF Reads, NonceTypeOK
  <2> QED
    BY <1>2, <2>1 DEF Reads, UniqueInv, Complete, Free, NoncesAreUnique
<1>3. ASSUME NEW c \in TopUps, Sends(c)
      PROVE  UniqueInv'
  <2>1. \A d \in Managed : call'[d] = call[d] /\ sent'[d] = sent[d]
    BY <1>3, Groups DEF Sends, MovesTo, Accept, NonceTypeOK
  <2>2. UNCHANGED <<lastNonce, trusted, dropped>> /\ (forgot => forgot') /\ (lagged => lagged')
    BY <1>3, Groups DEF Sends
  <2> QED
    BY <2>1, <2>2 DEF UniqueInv, Complete, Free, NoncesAreUnique
<1>4. ASSUME NEW c \in Managed, Sends(c)
      PROVE  UniqueInv'
  <2>1. /\ \A d \in Managed : d # c => call'[d] = call[d] /\ sent'[d] = sent[d]
        /\ sent'[c] = call[c].nonce /\ call[c].pc \in Holding /\ call'[c].pc \notin Holding
    BY <1>4, Groups DEF Sends, MovesTo, Accept, Ended, Holding, NonceTypeOK
  <2>2. \A d \in Managed : call'[d].pc \notin Holding
    BY <2>1 DEF Locked
  <2>3. ~forgot' => \A d \in Managed : sent[d] # None => sent[d] < call[c].nonce
    BY <1>4, <2>1 DEF Sends, UniqueInv, Complete
  <2>4. Complete'
    <3>1. ASSUME ~forgot'
          PROVE  lastNonce' = call[c].nonce /\ trusted'
      BY <1>4, <3>1 DEF Sends
    <3>2. ASSUME ~forgot', NEW d \in Managed, sent'[d] # None
          PROVE  sent'[d] <= lastNonce'
      BY <1>0, <2>1, <2>3, <3>1, <3>2, Groups
    <3> QED
      BY <2>2, <3>1, <3>2 DEF Complete
  <2>5. Free'
    BY <2>2 DEF Free
  <2>6. NoncesAreUnique'
    <3>1. ASSUME ~forgot' \/ (~lagged' /\ dropped' = {}), NEW d \in Managed, sent[d] # None
          PROVE  sent[d] # call[c].nonce
      <4>1. CASE ~forgot'
        BY <1>0, <2>3, <3>1, <4>1, NonceAssumption, Groups
      <4>2. CASE ~lagged' /\ dropped' = {}
        BY <1>4, <2>1, <4>2 DEF Sends, UniqueInv, Free
      <4> QED
        BY <3>1, <4>1, <4>2
    <3>2. ~forgot' \/ (~lagged' /\ dropped' = {}) => ~forgot \/ (~lagged /\ dropped = {})
      BY <1>4 DEF Sends
    <3> QED
      BY <2>1, <3>1, <3>2, <1>0, NonceAssumption, Groups DEF UniqueInv, NoncesAreUnique
  <2> QED
    BY <2>4, <2>5, <2>6 DEF UniqueInv
<1>5. ASSUME Rests
      PROVE  UniqueInv'
  <2>1. Complete'
    <3>1. SUFFICES ASSUME ~forgot'
                   PROVE  Complete'
      BY DEF Complete
    <3>2. Complete /\ ~forgot /\ UNCHANGED <<lastNonce, trusted, sent>>
      BY <1>5, <3>1 DEF Rests, UniqueInv
    <3>3. \A c \in Managed : /\ call'[c].nonce = call[c].nonce
                             /\ call'[c].pc \in Holding => call[c].pc \in Holding
      BY <1>5, Groups DEF Rests
    <3> QED
      BY <3>2, <3>3 DEF Complete
  <2>2. Free'
    BY <1>5, Groups DEF Rests, UniqueInv, Free
  <2>3. NoncesAreUnique'
    BY <1>5 DEF Rests, UniqueInv, NoncesAreUnique
  <2> QED
    BY <2>1, <2>2, <2>3 DEF UniqueInv
<1> QED
  BY <1>1, <1>2, <1>3, <1>4, <1>5, Steps DEF Calls

\* No two transfers of chainrpc go out under one nonce while its memory is
\* complete, or while the nodes answer with all they know and lose nothing: either
\* side of the maximum that AcquireNonce takes is enough, for any number of
\* requests, top-ups and other faults.
THEOREM UniqueNonces == Spec => []NoncesAreUnique
<1>1. Init => UniqueInv
  BY NonceAssumption, Groups DEF Init, UniqueInv, Complete, Free, NoncesAreUnique, Holding
<1>2. Init => GapInv
  BY GapInvAtFirst
<1>3. TypeOK /\ GapInv /\ UniqueInv /\ [Next]_vars => GapInv' /\ UniqueInv'
  BY GapInvKept, UniqueInvKept DEF TypeOK, Locked
<1>4. UniqueInv => NoncesAreUnique
  BY DEF UniqueInv
<1> QED
  BY <1>1, <1>2, <1>3, <1>4, TypeCorrect, PTL DEF Spec
=============================================================================
