------------------------------ MODULE NonceManager ------------------------------
(***************************************************************************)
(* Nonces of the company's hot wallet on one EVM chain.  chainrpc hands    *)
(* them to the transfers it sends from its own memory and the node's       *)
(* answer (NonceManager); single transfers of the native coin or a token   *)
(* and the items of one BatchTransfer wait for one another on the lock of  *)
(* the address.  The gas top-ups of the consolidation service leave the    *)
(* same wallet and ask the node alone.                                     *)
(*                                                                         *)
(* Addresses share nothing, so one is enough.  The network is not trusted  *)
(* to be of one mind: an answer may lag behind what other nodes have       *)
(* accepted, and a node that lags accepts a nonce again.                   *)
(***************************************************************************)
EXTENDS Integers, FiniteSets

CONSTANTS
  Natives,        \* requests of NativeTransfer
  Tokens,         \* requests of TokenTransfer
  Items,          \* the native transfers of one request of BatchTransfer
  TopUps,         \* top-ups sent from the same wallet
  MaxConcurrency, \* goroutines of a batch that run at a time
  MaxNonce,       \* bound on the nonce a node answers
  FaultKinds,     \* which faults may occur
  MaxFaults,      \* bound on the faults of a behaviour
  None

Managed == Natives \cup Tokens \cup Items
Calls == Managed \cup TopUps

ASSUME NonceAssumption ==
  /\ TopUps \cap Managed = {}
  /\ IsFiniteSet(Items) /\ MaxConcurrency \in Nat
  /\ MaxNonce \in Nat /\ MaxFaults \in Nat
  /\ None \notin Calls \cup Nat

VARIABLES
  call,    \* request -> where it is, and the nonce it was given
  lock,    \* the request that holds the address, or None
  lastNonce,
  trusted, \* updatedAt is set and within the ttl
  sent,    \* request -> the nonce under which a node has accepted its transaction
  dropped, \* requests whose transaction the nodes have thrown away again
  mined,   \* how many nonces of the address are in blocks
  lagged,  \* the manager was given an answer that lagged (history)
  forgot,  \* the manager has lost track of a nonce (history)
  faults

memo == <<lastNonce, trusted>>
nodeVars == <<dropped, mined>>
vars == <<call, lock, memo, sent, nodeVars, lagged, forgot, faults>>

Holding == {"price", "sign", "send"}
Ended == {"ok", "failed", "unpriced"}

NonceTypeOK ==
  /\ call \in [Calls -> [pc : {"new", "want"} \cup Holding \cup Ended, nonce : Nat]]
  /\ lock \in Managed \cup {None}
  /\ lastNonce \in Nat /\ trusted \in BOOLEAN
  /\ sent \in [Calls -> Nat \cup {None}]
  /\ dropped \subseteq Calls /\ mined \in Nat
  /\ lagged \in BOOLEAN /\ forgot \in BOOLEAN
  /\ faults \in 0 .. MaxFaults

Init ==
  /\ call = [c \in Calls |-> [pc |-> "new", nonce |-> 0]]
  /\ lock = None
  /\ lastNonce = 0 /\ trusted = FALSE
  /\ sent = [c \in Calls |-> None]
  /\ dropped = {} /\ mined = 0
  /\ lagged = FALSE /\ forgot = FALSE /\ faults = 0

Fault(kind) == kind \in FaultKinds /\ faults < MaxFaults /\ faults' = faults + 1

-------------------------------------------------------------------------------
(* The nodes.                                                              *)

\* The nodes know of a transaction under nonce k.
Used(k) == \E c \in Calls \ dropped : sent[c] = k

\* PendingNonceAt: a node counts on from the transactions it knows of, which
\* may not be all there are.
Answers == {p \in 0 .. MaxNonce : \A k \in 0 .. p - 1 : Used(k)}

Mine ==
  /\ Used(mined)
  /\ mined' = mined + 1
  /\ UNCHANGED <<call, lock, memo, sent, dropped, lagged, forgot, faults>>

\* A transaction that waits too long leaves the pools.
Drop(c) ==
  /\ sent[c] # None /\ sent[c] >= mined
  /\ c \notin dropped
  /\ Fault("drop")
  /\ dropped' = dropped \cup {c}
  /\ UNCHANGED <<call, lock, memo, sent, mined, lagged, forgot>>

-------------------------------------------------------------------------------
(* A transfer (ETHNativeTransfer, ETHTokenTransfer).                       *)

MovesTo(c, pc) == call' = [call EXCEPT ![c].pc = pc]

Running == {c \in Items : call[c].pc \in {"want"} \cup Holding}

\* Mutant: all goroutines of a batch run at once.
Start_NoSemaphore(c) ==
  /\ call[c].pc = "new"
  /\ MovesTo(c, "want")
  /\ UNCHANGED <<lock, memo, sent, nodeVars, lagged, forgot, faults>>

\* A request comes in; an item of the batch takes a place of the semaphore.
Start(c) ==
  /\ call[c].pc = "new"
  /\ c \in Items => Cardinality(Running) < MaxConcurrency
  /\ MovesTo(c, "want")
  /\ UNCHANGED <<lock, memo, sent, nodeVars, lagged, forgot, faults>>

\* Mutant: the manager believes the node.
NextNonce_NodeOnly(p) == p

\* What the manager makes of the node's answer.
NextNonce(p) == IF trusted /\ lastNonce + 1 > p THEN lastNonce + 1 ELSE p

AcquireNonce(c) ==
  /\ call[c].pc = "want"
  /\ lock = None
  /\ \/ \E p \in Answers :
          /\ call' = [call EXCEPT ![c] = [pc |-> "price", nonce |-> NextNonce(p)]]
          /\ lagged' = (lagged \/ Used(p))
        /\ lock' = c
        /\ UNCHANGED faults
     \/ Fault("nonce_error") /\ MovesTo(c, "failed") /\ UNCHANGED <<lock, lagged>>
  /\ UNCHANGED <<memo, sent, nodeVars, forgot>>

\* Mutant: a nonce is recorded although nothing was sent.
Release_AlwaysRecords(c, success) ==
  IF c \in Managed
  THEN /\ lock' = None
       /\ lastNonce' = call[c].nonce /\ trusted' = TRUE
  ELSE UNCHANGED <<lock, memo>>

\* Mutant: only a transfer that was sent gives the lock back.
Release_OnSuccessOnly(c, success) ==
  IF c \in Managed /\ success
  THEN /\ lock' = None
       /\ lastNonce' = call[c].nonce /\ trusted' = TRUE
  ELSE UNCHANGED <<lock, memo>>

\* release(success) of a managed transfer.
Release(c, success) ==
  IF c \in Managed
  THEN /\ lock' = None
       /\ IF success THEN lastNonce' = call[c].nonce /\ trusted' = TRUE ELSE UNCHANGED memo
  ELSE UNCHANGED <<lock, memo>>

\* The price is asked for before the release is deferred: when the node does
\* not answer, the transfer returns and keeps the address.
SuggestGasPrice(c) ==
  /\ call[c].pc = "price"
  /\ \/ MovesTo(c, "sign") /\ UNCHANGED faults
     \/ Fault("gas_price") /\ MovesTo(c, "unpriced")
  /\ UNCHANGED <<lock, memo, sent, nodeVars, lagged, forgot>>

\* The gas limit, for which a token transfer has a default, and the signature.
Sign(c) ==
  /\ call[c].pc = "sign"
  /\ \/ MovesTo(c, "send") /\ UNCHANGED <<lock, memo, faults>>
     \/ /\ \/ Fault("sign_error")
           \/ c \notin Tokens \cup TopUps /\ Fault("estimate_error")
        /\ MovesTo(c, "failed") /\ Release(c, FALSE)
  /\ UNCHANGED <<sent, nodeVars, lagged, forgot>>

Accept(c) == sent' = [sent EXCEPT ![c] = call[c].nonce]

\* A nonce that is taken may be refused, as too low or as underpriced.
Refused(k) == k < mined \/ Used(k)

SendTransaction(c) ==
  /\ call[c].pc = "send"
  /\ \/ /\ Accept(c) /\ MovesTo(c, "ok") /\ Release(c, TRUE)
        /\ UNCHANGED <<forgot, faults>>
     \/ /\ \/ Refused(call[c].nonce) /\ UNCHANGED faults
           \/ Fault("send_error")
        /\ MovesTo(c, "failed") /\ Release(c, FALSE)
        /\ UNCHANGED <<sent, forgot>>
     \/ /\ Fault("send_unknown")
        /\ Accept(c) /\ MovesTo(c, "failed") /\ Release(c, FALSE)
        /\ forgot' = (forgot \/ c \in Managed)
  /\ UNCHANGED <<nodeVars, lagged>>

Transfers(c) ==
  AcquireNonce(c) \/ SuggestGasPrice(c) \/ Sign(c) \/ SendTransaction(c)

-------------------------------------------------------------------------------
(* A top-up: BuildTransaction, the signer, BroadcastTransaction.           *)

BuildTransaction(c) ==
  /\ call[c].pc = "new"
  /\ \/ /\ \E p \in Answers : call' = [call EXCEPT ![c] = [pc |-> "sign", nonce |-> p]]
        /\ UNCHANGED faults
     \/ Fault("nonce_error") /\ MovesTo(c, "failed")
     \/ Fault("gas_price") /\ MovesTo(c, "failed")
  /\ UNCHANGED <<lock, memo, sent, nodeVars, lagged, forgot>>

TopsUp(c) == BuildTransaction(c) \/ Sign(c) \/ SendTransaction(c)

-------------------------------------------------------------------------------
(* Time and restarts.                                                      *)

\* The ttl of the entry runs out.
Expire ==
  /\ "ttl" \in FaultKinds
  /\ trusted
  /\ trusted' = FALSE
  /\ forgot' = TRUE
  /\ UNCHANGED <<call, lock, lastNonce, sent, nodeVars, lagged, faults>>

\* chainrpc restarts: its requests, its locks and its memory are gone.
Restart ==
  /\ Fault("crash")
  /\ call' = [c \in Calls |->
                IF c \in Managed /\ (call[c].pc = "new" => c \in Items) /\ call[c].pc # "ok"
                THEN [call[c] EXCEPT !.pc = "failed"] ELSE call[c]]
  /\ lock' = None
  /\ lastNonce' = 0 /\ trusted' = FALSE
  /\ forgot' = TRUE
  /\ UNCHANGED <<sent, nodeVars, lagged>>

Next ==
  \/ \E c \in Managed : Start(c) \/ Transfers(c)
  \/ \E c \in TopUps : TopsUp(c)
  \/ Mine
  \/ \E c \in Calls : Drop(c)
  \/ Expire
  \/ Restart

Spec == Init /\ [][Next]_vars

(* Handlers run to their end, the goroutines of a batch start, and whoever  *)
(* waits for the lock gets it once nobody is in front of him.               *)
FairSpec ==
  /\ Spec
  /\ \A c \in Managed : WF_vars(Transfers(c))
  /\ \A c \in Items : WF_vars(Start(c))

-------------------------------------------------------------------------------
(* Properties.                                                             *)

\* Values have their types, a managed transfer at work holds the address, and
\* a batch keeps to its semaphore (AcquireNonce, BatchTransfer).
TypeOK ==
  /\ NonceTypeOK
  /\ \A c \in Managed : call[c].pc \in Holding => lock = c
  /\ Cardinality(Running) <= MaxConcurrency

\* No two transfers of chainrpc go out under one nonce as long as one of its
\* two safeguards holds: its memory is complete, or no answer of the nodes has
\* lagged and they have lost nothing (the maximum taken by AcquireNonce).
NoncesAreUnique ==
  ~forgot \/ (~lagged /\ dropped = {}) =>
    \A c, d \in Managed : c # d /\ sent[c] # None => sent[c] # sent[d]

\* Whatever is refused, lost, forgotten or repeated, no transaction is sent above
\* a nonce that has never been used: it could not be mined (AcquireNonce, which
\* counts on from its memory, and release, which records a nonce or not).
NoGaps ==
  \A c \in Calls : sent[c] # None =>
    \A k \in 0 .. sent[c] - 1 : \E d \in Calls : sent[d] = k

\* The address is held by a transfer that is still running (release is deferred
\* so that all ways out of a transfer call it).
LockIsReturned == lock # None => call[lock].pc \in Holding

\* Every request of a transfer, and so every batch, is answered, unless one
\* that got no gas price has returned with the lock and left everyone behind it
\* waiting (AcquireNonce, and the WaitGroup of BatchTransfer).
RequestsEnd ==
  \A c \in Managed :
    (c \in Items \/ call[c].pc = "want")
      ~> (call[c].pc \in Ended \/ (lock # None /\ call[lock].pc = "unpriced"))
=============================================================================
