--------------------------- MODULE FlashCartProofs ---------------------------
(* Proofs about FlashCart for every set of requests, users, keys, events   *)
(* and every initial stock.                                                *)
EXTENDS FlashCart, FiniteSetTheorems, TLAPS

(* What a handler inside create_order, or holding state_lock, may rely on: *)
(* its identity is one of the identities, its order is a published one.    *)
LEMMA Operands ==
  ASSUME CheckoutInv, NEW r \in Requests
  PROVE  /\ pc[r] \in CreatePC => req[r] \in CreateReq /\ Identity(r) \in Identities
         /\ pc[r] \in OrderPC \cup StatePC =>
              /\ target[r] \in orders /\ target[r] \in Requests
              /\ req[target[r]] \in CreateReq
         /\ pc[r] \in WebhookPC => req[r] \in WebhookReq
  BY DEF CheckoutInv, TypeOK, ContentsInv, OrderInv, TargetInv

(* The owner of an order is a fixed field of its request. *)
LEMMA SameIdentity ==
  req' = req => \A r \in Requests : Identity(r)' = Identity(r)
  BY DEF Identity

(* An arriving request waits for its lock, or was rejected. *)
LEMMA ArriveStep ==
  ASSUME TypeOK, NEW r \in Requests, Arrive(r)
  PROVE  /\ pc[r] = "idle"
         /\ pc' = [pc EXCEPT ![r] = pc'[r]] /\ pc'[r] \in {"identity", "cancel", "webhook", "done"}
         /\ \A s \in Requests \ {r} : req'[s] = req[s] /\ Identity(s)' = Identity(s)
         /\ UNCHANGED <<lockVars, stock, idempotency, orderVars, eventVars, payVars>>
<1>1. PICK b \in Input[r], o \in billed \cup {None} :
        /\ req' = [req EXCEPT ![r] = b]
        /\ pc' = [pc EXCEPT ![r] = IF Rejection(b) = "none" THEN FirstLabel(b) ELSE "done"]
  BY DEF Arrive
<1>2. b \in RequestBodies
  BY RequestAssumption
<1>3. FirstLabel(b) \in {"identity", "cancel", "webhook"}
  BY <1>2 DEF FirstLabel, RequestBodies, CreateReq, CancelReq, WebhookReq
<1>4. \A s \in Requests \ {r} : req'[s] = req[s] /\ Identity(s)' = Identity(s)
  BY <1>1 DEF TypeOK, Identity
<1> QED BY <1>1, <1>3, <1>4 DEF Arrive, At, TypeOK

(* The service starts in the invariant. *)
LEMMA InitInv == Init => CheckoutInv
<1> SUFFICES ASSUME Init PROVE CheckoutInv OBVIOUS
<1>1. TypeOK
  BY RequestAssumption, IdentityAssumption, StockAssumption
     DEF Init, TypeOK, Labels, Statuses, Replies
<1>2. ContentsInv /\ LockInv /\ OrderInv /\ TargetInv
  BY RequestAssumption, <1>1
     DEF Init, ContentsInv, LockInv, OrderInv, TargetInv, TypeOK,
         CorePC, OrderPC, StatePC, CreatePC, CancelPC, WebhookPC
<1>3. HeldUnits = {}
  BY DEF Init, HeldUnits, Reserved
<1>4. StockConserved
  BY <1>3, FS_EmptySet, StockAssumption DEF Init, StockConserved
<1> QED BY <1>1, <1>2, <1>4 DEF CheckoutInv

USE DEF At, Goto, Answer, lockVars, orderVars, eventVars, payVars

(* Units that are given back are a number of units. *)
LEMMA ReleaseTypes ==
  ASSUME CheckoutInv, NEW r \in Requests, pc[r] \in OrderPC \cup StatePC, ReleaseOnce(target[r])
  PROVE  /\ stock' \in Nat /\ released' \in [Requests -> BOOLEAN]
         /\ UNCHANGED <<orders, status, failureStatus, chargeId>>
<1>1. target[r] \in Requests /\ req[target[r]].quantity \in Nat
  <2>1. target[r] \in Requests /\ req[target[r]] \in CreateReq
    BY Operands
  <2> QED BY <2>1 DEF CreateReq
<1>2. stock \in Nat /\ released \in [Requests -> BOOLEAN]
  BY DEF CheckoutInv, TypeOK
<1> QED BY <1>1, <1>2 DEF ReleaseOnce

(* A step keeps the variables in their types. *)
LEMMA TypeStep == CheckoutInv /\ [Next]_vars => TypeOK'
<1> SUFFICES ASSUME CheckoutInv, [Next]_vars PROVE TypeOK' OBVIOUS
<1>a. TypeOK BY DEF CheckoutInv
<1> USE RequestAssumption, IdentityAssumption, StockAssumption, <1>a DEF TypeOK
<1>1. CASE UNCHANGED vars
  BY <1>1 DEF vars, threadVars
<1>2. CASE ResetState
  BY <1>2 DEF ResetState, Quiescent, InFlight, CorePC, OrderPC, StatePC, CreatePC, CancelPC, WebhookPC, Labels, RequestBodies, CreateReq, CancelReq, WebhookReq, Statuses, Replies
<1>3. ASSUME NEW r \in Requests, Arrive(r) PROVE TypeOK'
  BY <1>3, Operands DEF Arrive, Rejection, FirstLabel, CorePC, OrderPC, StatePC, CreatePC, CancelPC, WebhookPC, Labels, RequestBodies, CreateReq, CancelReq, WebhookReq, Statuses, Replies
<1>4. ASSUME NEW r \in Requests, FindIdentityLock(r) PROVE TypeOK'
  BY <1>4, Operands DEF FindIdentityLock, CorePC, OrderPC, StatePC, CreatePC, CancelPC, WebhookPC, Labels, Statuses, Replies
<1>5. ASSUME NEW r \in Requests, Acquire(r) PROVE TypeOK'
  <2>1. idLock' \in [Identities -> Requests \cup {None}]
    BY <1>5, Operands DEF Acquire, IdentityLockFree, CorePC, OrderPC, StatePC, CreatePC, CancelPC, WebhookPC, Labels, Statuses, Replies
  <2>2. pc' \in [Requests -> Labels] /\ target' \in [Requests -> Requests \cup {None}]
    BY <1>5, Operands DEF Acquire, IdentityLockFree, CorePC, OrderPC, StatePC, CreatePC, CancelPC, WebhookPC, Labels, Statuses, Replies
  <2>3. reply' \in [Requests -> Replies] /\ UNCHANGED <<req, stateLock, stock, idempotency, orderVars, eventVars, payVars>>
    BY <1>5 DEF Acquire, IdentityLockFree, CorePC, OrderPC, StatePC, CreatePC, CancelPC, WebhookPC, Labels, Statuses, Replies
  <2> QED BY <2>1, <2>2, <2>3
<1>6. ASSUME NEW r \in Requests, CheckFailed(r) PROVE TypeOK'
  <2>1. target[r] \in Requests /\ Identity(r) \in Identities
    BY <1>6, Operands DEF CheckFailed, Unlock, CorePC, OrderPC, StatePC, CreatePC, CancelPC, WebhookPC, Labels, Statuses, Replies
  <2>2. CASE status[target[r]] = "payment_failed"
    BY <1>6, <2>1, <2>2 DEF CheckFailed, Unlock, Labels, Replies
  <2>3. CASE status[target[r]] # "payment_failed"
    BY <1>6, <2>1, <2>3 DEF CheckFailed, Unlock, Labels, CreatePC
  <2> QED BY <2>2, <2>3
<1>7. ASSUME NEW r \in Requests, CheckPending(r) PROVE TypeOK'
  <2>1. Identity(r) \in Identities
    BY <1>7, Operands DEF CheckPending, Unlock, CorePC, OrderPC, StatePC, CreatePC, CancelPC, WebhookPC, Labels, Statuses, Replies
  <2>2. CASE status[target[r]] # "payment_pending"
    BY <1>7, <2>1, <2>2 DEF CheckPending, Unlock, Labels, Replies
  <2>3. CASE status[target[r]] = "payment_pending"
    BY <1>7, <2>1, <2>3 DEF CheckPending, Unlock, Labels, CreatePC
  <2> QED BY <2>2, <2>3
<1>8. ASSUME NEW r \in Requests, Reserve(r) PROVE TypeOK'
  <2>1. Identity(r) \in Identities /\ req[r].quantity \in Nat
    <3>1. req[r] \in CreateReq /\ Identity(r) \in Identities
      BY <1>8, Operands DEF Reserve, CreatePC
    <3> QED BY <3>1 DEF CreateReq
  <2>2. CASE InStock(req[r].quantity)
    BY <1>8, <2>1, <2>2 DEF Reserve, InStock, Labels, CreatePC
  <2>3. CASE ~InStock(req[r].quantity)
    BY <1>8, <2>1, <2>3 DEF Reserve, Unlock, Labels, Replies
  <2> QED BY <2>2, <2>3
<1>9. ASSUME NEW r \in Requests, Publish(r) PROVE TypeOK'
  BY <1>9, Operands DEF Publish, CorePC, OrderPC, StatePC, CreatePC, CancelPC, WebhookPC, Labels, Statuses, Replies
<1>10. ASSUME NEW r \in Requests, Charge(r) PROVE TypeOK'
  <2>1. target[r] \in Requests /\ Identity(r) \in Identities
    BY <1>10, Operands DEF Charge, Unlock, CorePC, OrderPC, StatePC, CreatePC, CancelPC, WebhookPC, Labels, Statuses, Replies
  <2>2. pc' \in [Requests -> Labels] /\ reply' \in [Requests -> Replies]
    BY <1>10 DEF Charge, Unlock, Labels, CreatePC, Replies
  <2>3. idLock' \in [Identities -> Requests \cup {None}] /\ stateLock' = stateLock
    BY <1>10, <2>1 DEF Charge, Unlock
  <2>4. charges' \subseteq Requests /\ billed' \subseteq Requests
    BY <1>10, <2>1 DEF Charge
  <2>5. UNCHANGED <<req, target, stock, idempotency, orderVars, eventVars>>
    BY <1>10 DEF Charge
  <2> QED BY <2>2, <2>3, <2>4, <2>5
<1>11. ASSUME NEW r \in Requests, DeclineStatus(r) PROVE TypeOK'
  <2>1. target[r] \in Requests
    BY <1>11, Operands DEF DeclineStatus, OrderPC, CorePC, CreatePC
  <2> QED BY <1>11, <2>1 DEF DeclineStatus, SetStatus, CreatePC, Labels, Statuses
<1>12. ASSUME NEW r \in Requests, DeclineCode(r) PROVE TypeOK'
  BY <1>12, Operands DEF DeclineCode, RecordDecline, CorePC, OrderPC, StatePC, CreatePC, CancelPC, WebhookPC, Labels, Statuses, Replies
<1>13. ASSUME NEW r \in Requests, DeclineRelease(r) PROVE TypeOK'
  <2>1. Identity(r) \in Identities /\ pc[r] \in OrderPC
    BY <1>13, Operands DEF DeclineRelease, OrderPC, CorePC, CreatePC
  <2>2. idLock' \in [Identities -> Requests \cup {None}] /\ UNCHANGED stateLock
    BY <1>13, <2>1 DEF DeclineRelease, Unlock
  <2>3. /\ pc' \in [Requests -> Labels] /\ reply' \in [Requests -> Replies]
        /\ UNCHANGED <<req, target, idempotency, eventVars, payVars>>
    BY <1>13 DEF DeclineRelease, Labels, Replies
  <2>4. /\ stock' \in Nat /\ released' \in [Requests -> BOOLEAN]
        /\ UNCHANGED <<orders, status, failureStatus, chargeId>>
    BY <1>13, <2>1, ReleaseTypes DEF DeclineRelease
  <2> QED BY <2>2, <2>3, <2>4
<1>14. ASSUME NEW r \in Requests, SetCharge(r) PROVE TypeOK'
  BY <1>14, Operands DEF SetCharge, CorePC, OrderPC, StatePC, CreatePC, CancelPC, WebhookPC, Labels, Statuses, Replies
<1>15. ASSUME NEW r \in Requests, SetPaid(r) PROVE TypeOK'
  BY <1>15, Operands DEF SetPaid, Unlock, SetStatus, CorePC, OrderPC, StatePC, CreatePC, CancelPC, WebhookPC, Labels, Statuses, Replies
<1>16. ASSUME NEW r \in Requests, Cancel(r) PROVE TypeOK'
  BY <1>16, Operands DEF Cancel, LockState, MayCancel, CorePC, OrderPC, StatePC, CreatePC, CancelPC, WebhookPC, Labels, Statuses, Replies
<1>17. ASSUME NEW r \in Requests, CancelWrite(r) PROVE TypeOK'
  BY <1>17, Operands DEF CancelWrite, SetStatus, CorePC, OrderPC, StatePC, CreatePC, CancelPC, WebhookPC, Labels, Statuses, Replies
<1>18. ASSUME NEW r \in Requests, CancelRelease(r) PROVE TypeOK'
  <2>1. pc[r] \in StatePC
    BY <1>18 DEF CancelRelease, StatePC, CancelPC
  <2>2. /\ pc' \in [Requests -> Labels] /\ reply' \in [Requests -> Replies]
        /\ stateLock' \in Requests \cup {None}
        /\ UNCHANGED <<req, target, idLock, idempotency, eventVars, payVars>>
    BY <1>18 DEF CancelRelease, UnlockState, Labels, Replies
  <2>3. /\ stock' \in Nat /\ released' \in [Requests -> BOOLEAN]
        /\ UNCHANGED <<orders, status, failureStatus, chargeId>>
    BY <1>18, <2>1, ReleaseTypes DEF CancelRelease
  <2> QED BY <2>2, <2>3
<1>19. ASSUME NEW r \in Requests, Webhook(r) PROVE TypeOK'
  <2>1. pc' \in [Requests -> Labels] /\ reply' \in [Requests -> Replies]
    BY <1>19 DEF Webhook, LockState, Labels, WebhookPC, Replies
  <2>2. stateLock' \in Requests \cup {None} /\ UNCHANGED idLock
    BY <1>19 DEF Webhook, LockState
  <2>3. UNCHANGED <<req, target, stock, idempotency, orderVars, eventVars, payVars>>
    BY <1>19 DEF Webhook, LockState
  <2> QED BY <2>1, <2>2, <2>3
<1>20. ASSUME NEW r \in Requests, WebhookPaid(r) PROVE TypeOK'
  BY <1>20, Operands DEF WebhookPaid, WebhookStatus, SetStatus, CorePC, OrderPC, StatePC, CreatePC, CancelPC, WebhookPC, Labels, Statuses, Replies
<1>21. ASSUME NEW r \in Requests, WebhookCharge(r) PROVE TypeOK'
  BY <1>21, Operands DEF WebhookCharge, CorePC, OrderPC, StatePC, CreatePC, CancelPC, WebhookPC, Labels, Statuses, Replies
<1>22. ASSUME NEW r \in Requests, WebhookFailed(r) PROVE TypeOK'
  BY <1>22, Operands DEF WebhookFailed, WebhookStatus, SetStatus, CorePC, OrderPC, StatePC, CreatePC, CancelPC, WebhookPC, Labels, Statuses, Replies
<1>23. ASSUME NEW r \in Requests, WebhookCode(r) PROVE TypeOK'
  BY <1>23, Operands DEF WebhookCode, RecordDecline, CorePC, OrderPC, StatePC, CreatePC, CancelPC, WebhookPC, Labels, Statuses, Replies
<1>24. ASSUME NEW r \in Requests, WebhookRelease(r) PROVE TypeOK'
  <2>1. pc[r] \in StatePC
    BY <1>24 DEF WebhookRelease, StatePC, WebhookPC
  <2>2. /\ pc' \in [Requests -> Labels]
        /\ UNCHANGED <<req, target, reply, lockVars, idempotency, eventVars, payVars>>
    BY <1>24 DEF WebhookRelease, Labels, WebhookPC
  <2>3. /\ stock' \in Nat /\ released' \in [Requests -> BOOLEAN]
        /\ UNCHANGED <<orders, status, failureStatus, chargeId>>
    BY <1>24, <2>1, ReleaseTypes DEF WebhookRelease
  <2> QED BY <2>2, <2>3
<1>25. ASSUME NEW r \in Requests, WebhookMark(r) PROVE TypeOK'
  <2>1. req[r].event \in Events
    <3>1. req[r] \in WebhookReq
      BY <1>25, Operands DEF WebhookMark, WebhookPC
    <3> QED BY <3>1 DEF WebhookReq
  <2>2. /\ pc' \in [Requests -> Labels] /\ reply' \in [Requests -> Replies]
        /\ stateLock' \in Requests \cup {None}
        /\ UNCHANGED <<req, target, idLock, stock, idempotency, orderVars, payVars>>
    BY <1>25 DEF WebhookMark, UnlockState, Labels, Replies
  <2>3. processedEvents' \subseteq Events /\ webhookEffects' \in [Events -> Nat]
    BY <1>25, <2>1 DEF WebhookMark, RememberEvent
  <2> QED BY <2>2, <2>3
<1> QED
  BY <1>1, <1>2, <1>3, <1>4, <1>5, <1>6, <1>7, <1>8, <1>9, <1>10, <1>11, <1>12, <1>13, <1>14, <1>15, <1>16, <1>17, <1>18, <1>19, <1>20, <1>21, <1>22, <1>23, <1>24, <1>25
     DEF Next, Step, CreateStep, CancelStep, WebhookStep

(* A handler keeps the request it was started with. *)
LEMMA ContentsStep == CheckoutInv /\ [Next]_vars => ContentsInv'
<1> SUFFICES ASSUME CheckoutInv, [Next]_vars PROVE ContentsInv' OBVIOUS
<1>a. TypeOK /\ ContentsInv BY DEF CheckoutInv
<1> USE RequestAssumption, IdentityAssumption, StockAssumption, <1>a DEF TypeOK, ContentsInv
<1>1. CASE UNCHANGED vars
  BY <1>1 DEF vars, threadVars, CorePC, OrderPC, StatePC, CreatePC, CancelPC, WebhookPC, RequestBodies, CreateReq, CancelReq, WebhookReq, Identities, Identity
<1>2. CASE ResetState
  <2>1. \A r \in Requests : pc'[r] \in {"idle", "done"}
    BY <1>2 DEF ResetState, Quiescent, InFlight
  <2> QED BY <2>1 DEF CreatePC, CancelPC, WebhookPC
<1>3. ASSUME NEW r \in Requests, Arrive(r) PROVE ContentsInv'
  BY <1>3 DEF Arrive, Rejection, FirstLabel, CorePC, OrderPC, StatePC, CreatePC, CancelPC, WebhookPC, RequestBodies, CreateReq, CancelReq, WebhookReq, Identities, Identity
<1>4. ASSUME NEW r \in Requests, FindIdentityLock(r) PROVE ContentsInv'
  BY <1>4 DEF FindIdentityLock, CorePC, OrderPC, StatePC, CreatePC, CancelPC, WebhookPC, RequestBodies, CreateReq, CancelReq, WebhookReq, Identities, Identity
<1>5. ASSUME NEW r \in Requests, Acquire(r) PROVE ContentsInv'
  BY <1>5 DEF Acquire, IdentityLockFree, CorePC, OrderPC, StatePC, CreatePC, CancelPC, WebhookPC, RequestBodies, CreateReq, CancelReq, WebhookReq, Identities, Identity
<1>6. ASSUME NEW r \in Requests, CheckFailed(r) PROVE ContentsInv'
  BY <1>6 DEF CheckFailed, Unlock, CorePC, OrderPC, StatePC, CreatePC, CancelPC, WebhookPC, RequestBodies, CreateReq, CancelReq, WebhookReq, Identities, Identity
<1>7. ASSUME NEW r \in Requests, CheckPending(r) PROVE ContentsInv'
  BY <1>7 DEF CheckPending, Unlock, CorePC, OrderPC, StatePC, CreatePC, CancelPC, WebhookPC, RequestBodies, CreateReq, CancelReq, WebhookReq, Identities, Identity
<1>8. ASSUME NEW r \in Requests, Reserve(r) PROVE ContentsInv'
  BY <1>8 DEF Reserve, Unlock, InStock, CorePC, OrderPC, StatePC, CreatePC, CancelPC, WebhookPC, RequestBodies, CreateReq, CancelReq, WebhookReq, Identities, Identity
<1>9. ASSUME NEW r \in Requests, Publish(r) PROVE ContentsInv'
  BY <1>9 DEF Publish, CorePC, OrderPC, StatePC, CreatePC, CancelPC, WebhookPC, RequestBodies, CreateReq, CancelReq, WebhookReq, Identities, Identity
<1>10. ASSUME NEW r \in Requests, Charge(r) PROVE ContentsInv'
  BY <1>10 DEF Charge, Unlock, CorePC, OrderPC, StatePC, CreatePC, CancelPC, WebhookPC, RequestBodies, CreateReq, CancelReq, WebhookReq, Identities, Identity
<1>11. ASSUME NEW r \in Requests, DeclineStatus(r) PROVE ContentsInv'
  BY <1>11 DEF DeclineStatus, SetStatus, CorePC, OrderPC, StatePC, CreatePC, CancelPC, WebhookPC, RequestBodies, CreateReq, CancelReq, WebhookReq, Identities, Identity
<1>12. ASSUME NEW r \in Requests, DeclineCode(r) PROVE ContentsInv'
  BY <1>12 DEF DeclineCode, RecordDecline, CorePC, OrderPC, StatePC, CreatePC, CancelPC, WebhookPC, RequestBodies, CreateReq, CancelReq, WebhookReq, Identities, Identity
<1>13. ASSUME NEW r \in Requests, DeclineRelease(r) PROVE ContentsInv'
  BY <1>13 DEF DeclineRelease, Unlock, ReleaseOnce, CorePC, OrderPC, StatePC, CreatePC, CancelPC, WebhookPC, RequestBodies, CreateReq, CancelReq, WebhookReq, Identities, Identity
<1>14. ASSUME NEW r \in Requests, SetCharge(r) PROVE ContentsInv'
  BY <1>14 DEF SetCharge, CorePC, OrderPC, StatePC, CreatePC, CancelPC, WebhookPC, RequestBodies, CreateReq, CancelReq, WebhookReq, Identities, Identity
<1>15. ASSUME NEW r \in Requests, SetPaid(r) PROVE ContentsInv'
  BY <1>15 DEF SetPaid, Unlock, SetStatus, CorePC, OrderPC, StatePC, CreatePC, CancelPC, WebhookPC, RequestBodies, CreateReq, CancelReq, WebhookReq, Identities, Identity
<1>16. ASSUME NEW r \in Requests, Cancel(r) PROVE ContentsInv'
  BY <1>16 DEF Cancel, LockState, MayCancel, CorePC, OrderPC, StatePC, CreatePC, CancelPC, WebhookPC, RequestBodies, CreateReq, CancelReq, WebhookReq, Identities, Identity
<1>17. ASSUME NEW r \in Requests, CancelWrite(r) PROVE ContentsInv'
  BY <1>17 DEF CancelWrite, SetStatus, CorePC, OrderPC, StatePC, CreatePC, CancelPC, WebhookPC, RequestBodies, CreateReq, CancelReq, WebhookReq, Identities, Identity
<1>18. ASSUME NEW r \in Requests, CancelRelease(r) PROVE ContentsInv'
  BY <1>18 DEF CancelRelease, UnlockState, ReleaseOnce, CorePC, OrderPC, StatePC, CreatePC, CancelPC, WebhookPC, RequestBodies, CreateReq, CancelReq, WebhookReq, Identities, Identity
<1>19. ASSUME NEW r \in Requests, Webhook(r) PROVE ContentsInv'
  BY <1>19 DEF Webhook, LockState, CorePC, OrderPC, StatePC, CreatePC, CancelPC, WebhookPC, RequestBodies, CreateReq, CancelReq, WebhookReq, Identities, Identity
<1>20. ASSUME NEW r \in Requests, WebhookPaid(r) PROVE ContentsInv'
  BY <1>20 DEF WebhookPaid, WebhookStatus, SetStatus, CorePC, OrderPC, StatePC, CreatePC, CancelPC, WebhookPC, RequestBodies, CreateReq, CancelReq, WebhookReq, Identities, Identity
<1>21. ASSUME NEW r \in Requests, WebhookCharge(r) PROVE ContentsInv'
  BY <1>21 DEF WebhookCharge, CorePC, OrderPC, StatePC, CreatePC, CancelPC, WebhookPC, RequestBodies, CreateReq, CancelReq, WebhookReq, Identities, Identity
<1>22. ASSUME NEW r \in Requests, WebhookFailed(r) PROVE ContentsInv'
  BY <1>22 DEF WebhookFailed, WebhookStatus, SetStatus, CorePC, OrderPC, StatePC, CreatePC, CancelPC, WebhookPC, RequestBodies, CreateReq, CancelReq, WebhookReq, Identities, Identity
<1>23. ASSUME NEW r \in Requests, WebhookCode(r) PROVE ContentsInv'
  BY <1>23 DEF WebhookCode, RecordDecline, CorePC, OrderPC, StatePC, CreatePC, CancelPC, WebhookPC, RequestBodies, CreateReq, CancelReq, WebhookReq, Identities, Identity
<1>24. ASSUME NEW r \in Requests, WebhookRelease(r) PROVE ContentsInv'
  BY <1>24 DEF WebhookRelease, ReleaseOnce, CorePC, OrderPC, StatePC, CreatePC, CancelPC, WebhookPC, RequestBodies, CreateReq, CancelReq, WebhookReq, Identities, Identity
<1>25. ASSUME NEW r \in Requests, WebhookMark(r) PROVE ContentsInv'
  BY <1>25 DEF WebhookMark, UnlockState, RememberEvent, CorePC, OrderPC, StatePC, CreatePC, CancelPC, WebhookPC, RequestBodies, CreateReq, CancelReq, WebhookReq, Identities, Identity
<1> QED
  BY <1>1, <1>2, <1>3, <1>4, <1>5, <1>6, <1>7, <1>8, <1>9, <1>10, <1>11, <1>12, <1>13, <1>14, <1>15, <1>16, <1>17, <1>18, <1>19, <1>20, <1>21, <1>22, <1>23, <1>24, <1>25
     DEF Next, Step, CreateStep, CancelStep, WebhookStep

(* Locks are taken when free and given back by their holder. *)
LEMMA LockStep == CheckoutInv /\ [Next]_vars => LockInv'
<1> SUFFICES ASSUME CheckoutInv, [Next]_vars PROVE LockInv' OBVIOUS
<1>a. TypeOK /\ LockInv BY DEF CheckoutInv
<1> USE RequestAssumption, IdentityAssumption, StockAssumption, <1>a DEF TypeOK, LockInv
<1>1. CASE UNCHANGED vars
  BY <1>1, SameIdentity DEF vars, threadVars, CorePC, OrderPC, StatePC, CreatePC, CancelPC, WebhookPC
<1>2. CASE ResetState
  BY <1>2 DEF ResetState, Quiescent, InFlight, CorePC, OrderPC, StatePC, CreatePC, CancelPC, WebhookPC
<1>3. ASSUME NEW r \in Requests, Arrive(r) PROVE LockInv'
  <2>1. pc[r] = "idle" /\ pc' = [pc EXCEPT ![r] = pc'[r]] /\ pc'[r] \in {"identity", "cancel", "webhook", "done"}
    BY <1>3, <1>a, ArriveStep
  <2>2. \A s \in Requests \ {r} : req'[s] = req[s] /\ Identity(s)' = Identity(s)
    BY <1>3, <1>a, ArriveStep
  <2>3. UNCHANGED <<lockVars, stock, idempotency, orderVars, eventVars, payVars>> /\ target' = [target EXCEPT ![r] = target'[r]]
    BY <1>3 DEF Arrive
  <2> QED BY <2>1, <2>2, <2>3 DEF CorePC, OrderPC, StatePC, CreatePC, CancelPC, WebhookPC
<1>4. ASSUME NEW r \in Requests, FindIdentityLock(r) PROVE LockInv'
  BY <1>4, Operands, SameIdentity DEF FindIdentityLock, CorePC, OrderPC, StatePC, CreatePC, CancelPC, WebhookPC
<1>5. ASSUME NEW r \in Requests, Acquire(r) PROVE LockInv'
  BY <1>5, SameIdentity, Operands DEF Acquire, IdentityLockFree, CorePC, OrderPC, StatePC, CreatePC, CancelPC, WebhookPC, OrderInv
<1>6. ASSUME NEW r \in Requests, CheckFailed(r) PROVE LockInv'
  BY <1>6, Operands, SameIdentity DEF CheckFailed, Unlock, CorePC, OrderPC, StatePC, CreatePC, CancelPC, WebhookPC
<1>7. ASSUME NEW r \in Requests, CheckPending(r) PROVE LockInv'
  BY <1>7, Operands, SameIdentity DEF CheckPending, Unlock, CorePC, OrderPC, StatePC, CreatePC, CancelPC, WebhookPC
<1>8. ASSUME NEW r \in Requests, Reserve(r) PROVE LockInv'
  BY <1>8, Operands, SameIdentity DEF Reserve, Unlock, InStock, CorePC, OrderPC, StatePC, CreatePC, CancelPC, WebhookPC
<1>9. ASSUME NEW r \in Requests, Publish(r) PROVE LockInv'
  BY <1>9, SameIdentity, Operands DEF Publish, CorePC, OrderPC, StatePC, CreatePC, CancelPC, WebhookPC, LockInv, TargetInv, OrderInv, SameContents
<1>10. ASSUME NEW r \in Requests, Charge(r) PROVE LockInv'
  BY <1>10, Operands, SameIdentity DEF Charge, Unlock, CorePC, OrderPC, StatePC, CreatePC, CancelPC, WebhookPC
<1>11. ASSUME NEW r \in Requests, DeclineStatus(r) PROVE LockInv'
  BY <1>11, Operands, SameIdentity DEF DeclineStatus, SetStatus, CorePC, OrderPC, StatePC, CreatePC, CancelPC, WebhookPC
<1>12. ASSUME NEW r \in Requests, DeclineCode(r) PROVE LockInv'
  BY <1>12, Operands, SameIdentity DEF DeclineCode, RecordDecline, CorePC, OrderPC, StatePC, CreatePC, CancelPC, WebhookPC
<1>13. ASSUME NEW r \in Requests, DeclineRelease(r) PROVE LockInv'
  <2>1. pc[r] \in CorePC /\ pc[r] \notin StatePC /\ Identity(r) \in Identities
    BY <1>13, Operands DEF DeclineRelease, CorePC, CreatePC, StatePC, CancelPC, WebhookPC
  <2>2. /\ pc' = [pc EXCEPT ![r] = "done"] /\ UNCHANGED <<req, stateLock>>
        /\ idLock' = [idLock EXCEPT ![Identity(r)] = None]
    BY <1>13 DEF DeclineRelease, Unlock
  <2>3. "done" \notin CorePC \cup StatePC
    BY DEF CorePC, CreatePC, StatePC, CancelPC, WebhookPC
  <2> QED BY <2>1, <2>2, <2>3, SameIdentity
<1>14. ASSUME NEW r \in Requests, SetCharge(r) PROVE LockInv'
  BY <1>14, Operands, SameIdentity DEF SetCharge, CorePC, OrderPC, StatePC, CreatePC, CancelPC, WebhookPC
<1>15. ASSUME NEW r \in Requests, SetPaid(r) PROVE LockInv'
  BY <1>15, Operands, SameIdentity DEF SetPaid, Unlock, SetStatus, CorePC, OrderPC, StatePC, CreatePC, CancelPC, WebhookPC
<1>16. ASSUME NEW r \in Requests, Cancel(r) PROVE LockInv'
  BY <1>16, Operands, SameIdentity DEF Cancel, LockState, MayCancel, CorePC, OrderPC, StatePC, CreatePC, CancelPC, WebhookPC
<1>17. ASSUME NEW r \in Requests, CancelWrite(r) PROVE LockInv'
  BY <1>17, Operands, SameIdentity DEF CancelWrite, SetStatus, CorePC, OrderPC, StatePC, CreatePC, CancelPC, WebhookPC
<1>18. ASSUME NEW r \in Requests, CancelRelease(r) PROVE LockInv'
  BY <1>18, Operands, SameIdentity DEF CancelRelease, UnlockState, ReleaseOnce, CorePC, OrderPC, StatePC, CreatePC, CancelPC, WebhookPC
<1>19. ASSUME NEW r \in Requests, Webhook(r) PROVE LockInv'
  BY <1>19, Operands, SameIdentity DEF Webhook, LockState, CorePC, OrderPC, StatePC, CreatePC, CancelPC, WebhookPC
<1>20. ASSUME NEW r \in Requests, WebhookPaid(r) PROVE LockInv'
  BY <1>20, Operands, SameIdentity DEF WebhookPaid, WebhookStatus, SetStatus, CorePC, OrderPC, StatePC, CreatePC, CancelPC, WebhookPC
<1>21. ASSUME NEW r \in Requests, WebhookCharge(r) PROVE LockInv'
  BY <1>21, Operands, SameIdentity DEF WebhookCharge, CorePC, OrderPC, StatePC, CreatePC, CancelPC, WebhookPC
<1>22. ASSUME NEW r \in Requests, WebhookFailed(r) PROVE LockInv'
  BY <1>22, Operands, SameIdentity DEF WebhookFailed, WebhookStatus, SetStatus, CorePC, OrderPC, StatePC, CreatePC, CancelPC, WebhookPC
<1>23. ASSUME NEW r \in Requests, WebhookCode(r) PROVE LockInv'
  BY <1>23, Operands, SameIdentity DEF WebhookCode, RecordDecline, CorePC, OrderPC, StatePC, CreatePC, CancelPC, WebhookPC
<1>24. ASSUME NEW r \in Requests, WebhookRelease(r) PROVE LockInv'
  BY <1>24, Operands, SameIdentity DEF WebhookRelease, ReleaseOnce, CorePC, OrderPC, StatePC, CreatePC, CancelPC, WebhookPC
<1>25. ASSUME NEW r \in Requests, WebhookMark(r) PROVE LockInv'
  BY <1>25, Operands, SameIdentity DEF WebhookMark, UnlockState, RememberEvent, CorePC, OrderPC, StatePC, CreatePC, CancelPC, WebhookPC
<1> QED
  BY <1>1, <1>2, <1>3, <1>4, <1>5, <1>6, <1>7, <1>8, <1>9, <1>10, <1>11, <1>12, <1>13, <1>14, <1>15, <1>16, <1>17, <1>18, <1>19, <1>20, <1>21, <1>22, <1>23, <1>24, <1>25
     DEF Next, Step, CreateStep, CancelStep, WebhookStep

(* One order per identity: the identity lock is held from lookup to entry. *)
LEMMA OrderStep == CheckoutInv /\ [Next]_vars => OrderInv'
<1> SUFFICES ASSUME CheckoutInv, [Next]_vars PROVE OrderInv' OBVIOUS
<1>a. TypeOK /\ OrderInv /\ TargetInv BY DEF CheckoutInv
<1> USE RequestAssumption, IdentityAssumption, StockAssumption, <1>a DEF OrderInv, TypeOK
<1>1. CASE UNCHANGED vars
  BY <1>1, SameIdentity DEF vars, threadVars, CorePC, OrderPC, StatePC, CreatePC, CancelPC, WebhookPC
<1>2. CASE ResetState
  BY <1>2 DEF ResetState, Quiescent, InFlight, CorePC, OrderPC, StatePC, CreatePC, CancelPC, WebhookPC
<1>3. ASSUME NEW r \in Requests, Arrive(r) PROVE OrderInv'
  <2>1. pc[r] = "idle" /\ pc' = [pc EXCEPT ![r] = pc'[r]] /\ pc'[r] \in {"identity", "cancel", "webhook", "done"}
    BY <1>3, <1>a, ArriveStep
  <2>2. \A s \in Requests \ {r} : req'[s] = req[s] /\ Identity(s)' = Identity(s)
    BY <1>3, <1>a, ArriveStep
  <2>3. UNCHANGED <<lockVars, stock, idempotency, orderVars, eventVars, payVars>> /\ target' = [target EXCEPT ![r] = target'[r]]
    BY <1>3 DEF Arrive
  <2> QED BY <2>1, <2>2, <2>3 DEF CorePC, OrderPC, StatePC, CreatePC, CancelPC, WebhookPC
<1>4. ASSUME NEW r \in Requests, FindIdentityLock(r) PROVE OrderInv'
  BY <1>4, SameIdentity, Operands DEF FindIdentityLock, CorePC, OrderPC, StatePC, CreatePC, CancelPC, WebhookPC
<1>5. ASSUME NEW r \in Requests, Acquire(r) PROVE OrderInv'
  BY <1>5, SameIdentity, Operands DEF Acquire, IdentityLockFree, CorePC, OrderPC, StatePC, CreatePC, CancelPC, WebhookPC, OrderInv
<1>6. ASSUME NEW r \in Requests, CheckFailed(r) PROVE OrderInv'
  BY <1>6, SameIdentity, Operands DEF CheckFailed, Unlock, CorePC, OrderPC, StatePC, CreatePC, CancelPC, WebhookPC
<1>7. ASSUME NEW r \in Requests, CheckPending(r) PROVE OrderInv'
  BY <1>7, SameIdentity, Operands DEF CheckPending, Unlock, CorePC, OrderPC, StatePC, CreatePC, CancelPC, WebhookPC
<1>8. ASSUME NEW r \in Requests, Reserve(r) PROVE OrderInv'
  BY <1>8, SameIdentity, Operands DEF Reserve, Unlock, InStock, CorePC, OrderPC, StatePC, CreatePC, CancelPC, WebhookPC
<1>9. ASSUME NEW r \in Requests, Publish(r) PROVE OrderInv'
  BY <1>9, SameIdentity, Operands DEF Publish, CorePC, OrderPC, StatePC, CreatePC, CancelPC, WebhookPC, LockInv, TargetInv, OrderInv, SameContents
<1>10. ASSUME NEW r \in Requests, Charge(r) PROVE OrderInv'
  BY <1>10, SameIdentity, Operands DEF Charge, Unlock, CorePC, OrderPC, StatePC, CreatePC, CancelPC, WebhookPC
<1>11. ASSUME NEW r \in Requests, DeclineStatus(r) PROVE OrderInv'
  BY <1>11, SameIdentity, Operands DEF DeclineStatus, SetStatus, CorePC, OrderPC, StatePC, CreatePC, CancelPC, WebhookPC
<1>12. ASSUME NEW r \in Requests, DeclineCode(r) PROVE OrderInv'
  BY <1>12, SameIdentity, Operands DEF DeclineCode, RecordDecline, CorePC, OrderPC, StatePC, CreatePC, CancelPC, WebhookPC
<1>13. ASSUME NEW r \in Requests, DeclineRelease(r) PROVE OrderInv'
  BY <1>13, SameIdentity, Operands DEF DeclineRelease, Unlock, ReleaseOnce, CorePC, OrderPC, StatePC, CreatePC, CancelPC, WebhookPC
<1>14. ASSUME NEW r \in Requests, SetCharge(r) PROVE OrderInv'
  BY <1>14, SameIdentity, Operands DEF SetCharge, CorePC, OrderPC, StatePC, CreatePC, CancelPC, WebhookPC
<1>15. ASSUME NEW r \in Requests, SetPaid(r) PROVE OrderInv'
  BY <1>15, SameIdentity, Operands DEF SetPaid, Unlock, SetStatus, CorePC, OrderPC, StatePC, CreatePC, CancelPC, WebhookPC
<1>16. ASSUME NEW r \in Requests, Cancel(r) PROVE OrderInv'
  BY <1>16, SameIdentity, Operands DEF Cancel, LockState, MayCancel, CorePC, OrderPC, StatePC, CreatePC, CancelPC, WebhookPC
<1>17. ASSUME NEW r \in Requests, CancelWrite(r) PROVE OrderInv'
  BY <1>17, SameIdentity, Operands DEF CancelWrite, SetStatus, CorePC, OrderPC, StatePC, CreatePC, CancelPC, WebhookPC
<1>18. ASSUME NEW r \in Requests, CancelRelease(r) PROVE OrderInv'
  BY <1>18, SameIdentity, Operands DEF CancelRelease, UnlockState, ReleaseOnce, CorePC, OrderPC, StatePC, CreatePC, CancelPC, WebhookPC
<1>19. ASSUME NEW r \in Requests, Webhook(r) PROVE OrderInv'
  BY <1>19, SameIdentity, Operands DEF Webhook, LockState, CorePC, OrderPC, StatePC, CreatePC, CancelPC, WebhookPC
<1>20. ASSUME NEW r \in Requests, WebhookPaid(r) PROVE OrderInv'
  BY <1>20, SameIdentity, Operands DEF WebhookPaid, WebhookStatus, SetStatus, CorePC, OrderPC, StatePC, CreatePC, CancelPC, WebhookPC
<1>21. ASSUME NEW r \in Requests, WebhookCharge(r) PROVE OrderInv'
  BY <1>21, SameIdentity, Operands DEF WebhookCharge, CorePC, OrderPC, StatePC, CreatePC, CancelPC, WebhookPC
<1>22. ASSUME NEW r \in Requests, WebhookFailed(r) PROVE OrderInv'
  BY <1>22, SameIdentity, Operands DEF WebhookFailed, WebhookStatus, SetStatus, CorePC, OrderPC, StatePC, CreatePC, CancelPC, WebhookPC
<1>23. ASSUME NEW r \in Requests, WebhookCode(r) PROVE OrderInv'
  BY <1>23, SameIdentity, Operands DEF WebhookCode, RecordDecline, CorePC, OrderPC, StatePC, CreatePC, CancelPC, WebhookPC
<1>24. ASSUME NEW r \in Requests, WebhookRelease(r) PROVE OrderInv'
  BY <1>24, SameIdentity, Operands DEF WebhookRelease, ReleaseOnce, CorePC, OrderPC, StatePC, CreatePC, CancelPC, WebhookPC
<1>25. ASSUME NEW r \in Requests, WebhookMark(r) PROVE OrderInv'
  BY <1>25, SameIdentity, Operands DEF WebhookMark, UnlockState, RememberEvent, CorePC, OrderPC, StatePC, CreatePC, CancelPC, WebhookPC
<1> QED
  BY <1>1, <1>2, <1>3, <1>4, <1>5, <1>6, <1>7, <1>8, <1>9, <1>10, <1>11, <1>12, <1>13, <1>14, <1>15, <1>16, <1>17, <1>18, <1>19, <1>20, <1>21, <1>22, <1>23, <1>24, <1>25
     DEF Next, Step, CreateStep, CancelStep, WebhookStep

(* A handler's order is found under the identity lock and kept. *)
LEMMA TargetStep == CheckoutInv /\ [Next]_vars => TargetInv'
<1> SUFFICES ASSUME CheckoutInv, [Next]_vars PROVE TargetInv' OBVIOUS
<1>a. TypeOK /\ LockInv /\ OrderInv /\ TargetInv BY DEF CheckoutInv
<1> USE RequestAssumption, IdentityAssumption, StockAssumption, <1>a DEF TargetInv, TypeOK
<1>1. CASE UNCHANGED vars
  BY <1>1, SameIdentity DEF vars, threadVars, CorePC, OrderPC, StatePC, CreatePC, CancelPC, WebhookPC
<1>2. CASE ResetState
  BY <1>2 DEF ResetState, Quiescent, InFlight, CorePC, OrderPC, StatePC, CreatePC, CancelPC, WebhookPC
<1>3. ASSUME NEW r \in Requests, Arrive(r) PROVE TargetInv'
  <2>1. pc[r] = "idle" /\ pc' = [pc EXCEPT ![r] = pc'[r]] /\ pc'[r] \in {"identity", "cancel", "webhook", "done"}
    BY <1>3, <1>a, ArriveStep
  <2>2. \A s \in Requests \ {r} : req'[s] = req[s] /\ Identity(s)' = Identity(s)
    BY <1>3, <1>a, ArriveStep
  <2>3. UNCHANGED <<lockVars, stock, idempotency, orderVars, eventVars, payVars>> /\ target' = [target EXCEPT ![r] = target'[r]]
    BY <1>3 DEF Arrive
  <2> QED BY <2>1, <2>2, <2>3 DEF OrderInv, SameContents, Fingerprint, CorePC, OrderPC, StatePC, CreatePC, CancelPC, WebhookPC
<1>4. ASSUME NEW r \in Requests, FindIdentityLock(r) PROVE TargetInv'
  BY <1>4, SameIdentity, Operands DEF FindIdentityLock, CorePC, OrderPC, StatePC, CreatePC, CancelPC, WebhookPC
<1>5. ASSUME NEW r \in Requests, Acquire(r) PROVE TargetInv'
  BY <1>5, SameIdentity, Operands DEF Acquire, IdentityLockFree, CorePC, OrderPC, StatePC, CreatePC, CancelPC, WebhookPC, OrderInv
<1>6. ASSUME NEW r \in Requests, CheckFailed(r) PROVE TargetInv'
  BY <1>6, SameIdentity, Operands DEF CheckFailed, Unlock, CorePC, OrderPC, StatePC, CreatePC, CancelPC, WebhookPC
<1>7. ASSUME NEW r \in Requests, CheckPending(r) PROVE TargetInv'
  BY <1>7, SameIdentity, Operands DEF CheckPending, Unlock, CorePC, OrderPC, StatePC, CreatePC, CancelPC, WebhookPC
<1>8. ASSUME NEW r \in Requests, Reserve(r) PROVE TargetInv'
  BY <1>8, SameIdentity, Operands DEF Reserve, Unlock, InStock, CorePC, OrderPC, StatePC, CreatePC, CancelPC, WebhookPC
<1>9. ASSUME NEW r \in Requests, Publish(r) PROVE TargetInv'
  BY <1>9, SameIdentity, Operands DEF Publish, CorePC, OrderPC, StatePC, CreatePC, CancelPC, WebhookPC, LockInv, TargetInv, OrderInv, SameContents
<1>10. ASSUME NEW r \in Requests, Charge(r) PROVE TargetInv'
  BY <1>10, SameIdentity, Operands DEF Charge, Unlock, CorePC, OrderPC, StatePC, CreatePC, CancelPC, WebhookPC
<1>11. ASSUME NEW r \in Requests, DeclineStatus(r) PROVE TargetInv'
  BY <1>11, SameIdentity, Operands DEF DeclineStatus, SetStatus, CorePC, OrderPC, StatePC, CreatePC, CancelPC, WebhookPC
<1>12. ASSUME NEW r \in Requests, DeclineCode(r) PROVE TargetInv'
  BY <1>12, SameIdentity, Operands DEF DeclineCode, RecordDecline, CorePC, OrderPC, StatePC, CreatePC, CancelPC, WebhookPC
<1>13. ASSUME NEW r \in Requests, DeclineRelease(r) PROVE TargetInv'
  BY <1>13, SameIdentity, Operands DEF DeclineRelease, Unlock, ReleaseOnce, CorePC, OrderPC, StatePC, CreatePC, CancelPC, WebhookPC
<1>14. ASSUME NEW r \in Requests, SetCharge(r) PROVE TargetInv'
  BY <1>14, SameIdentity, Operands DEF SetCharge, CorePC, OrderPC, StatePC, CreatePC, CancelPC, WebhookPC
<1>15. ASSUME NEW r \in Requests, SetPaid(r) PROVE TargetInv'
  BY <1>15, SameIdentity, Operands DEF SetPaid, Unlock, SetStatus, CorePC, OrderPC, StatePC, CreatePC, CancelPC, WebhookPC
<1>16. ASSUME NEW r \in Requests, Cancel(r) PROVE TargetInv'
  BY <1>16, SameIdentity, Operands DEF Cancel, LockState, MayCancel, CorePC, OrderPC, StatePC, CreatePC, CancelPC, WebhookPC
<1>17. ASSUME NEW r \in Requests, CancelWrite(r) PROVE TargetInv'
  BY <1>17, SameIdentity, Operands DEF CancelWrite, SetStatus, CorePC, OrderPC, StatePC, CreatePC, CancelPC, WebhookPC
<1>18. ASSUME NEW r \in Requests, CancelRelease(r) PROVE TargetInv'
  BY <1>18, SameIdentity, Operands DEF CancelRelease, UnlockState, ReleaseOnce, CorePC, OrderPC, StatePC, CreatePC, CancelPC, WebhookPC
<1>19. ASSUME NEW r \in Requests, Webhook(r) PROVE TargetInv'
  BY <1>19, SameIdentity, Operands DEF Webhook, LockState, CorePC, OrderPC, StatePC, CreatePC, CancelPC, WebhookPC
<1>20. ASSUME NEW r \in Requests, WebhookPaid(r) PROVE TargetInv'
  BY <1>20, SameIdentity, Operands DEF WebhookPaid, WebhookStatus, SetStatus, CorePC, OrderPC, StatePC, CreatePC, CancelPC, WebhookPC
<1>21. ASSUME NEW r \in Requests, WebhookCharge(r) PROVE TargetInv'
  BY <1>21, SameIdentity, Operands DEF WebhookCharge, CorePC, OrderPC, StatePC, CreatePC, CancelPC, WebhookPC
<1>22. ASSUME NEW r \in Requests, WebhookFailed(r) PROVE TargetInv'
  BY <1>22, SameIdentity, Operands DEF WebhookFailed, WebhookStatus, SetStatus, CorePC, OrderPC, StatePC, CreatePC, CancelPC, WebhookPC
<1>23. ASSUME NEW r \in Requests, WebhookCode(r) PROVE TargetInv'
  BY <1>23, SameIdentity, Operands DEF WebhookCode, RecordDecline, CorePC, OrderPC, StatePC, CreatePC, CancelPC, WebhookPC
<1>24. ASSUME NEW r \in Requests, WebhookRelease(r) PROVE TargetInv'
  BY <1>24, SameIdentity, Operands DEF WebhookRelease, ReleaseOnce, CorePC, OrderPC, StatePC, CreatePC, CancelPC, WebhookPC
<1>25. ASSUME NEW r \in Requests, WebhookMark(r) PROVE TargetInv'
  BY <1>25, SameIdentity, Operands DEF WebhookMark, UnlockState, RememberEvent, CorePC, OrderPC, StatePC, CreatePC, CancelPC, WebhookPC
<1> QED
  BY <1>1, <1>2, <1>3, <1>4, <1>5, <1>6, <1>7, <1>8, <1>9, <1>10, <1>11, <1>12, <1>13, <1>14, <1>15, <1>16, <1>17, <1>18, <1>19, <1>20, <1>21, <1>22, <1>23, <1>24, <1>25
     DEF Next, Step, CreateStep, CancelStep, WebhookStep

(* The units of one request are as many as its quantity. *)
LEMMA UnitsOfOne ==
  ASSUME NEW o, NEW q \in Nat
  PROVE  IsFiniteSet({o} \X (1..q)) /\ Cardinality({o} \X (1..q)) = q
<1>1. IsFiniteSet(1..q) /\ Cardinality(1..q) = q
  BY FS_Interval
<1>2. IsFiniteSet({o}) /\ Cardinality({o}) = 1
  BY FS_Singleton
<1> QED BY <1>1, <1>2, FS_Product

(* Units held are finitely many. *)
LEMMA HeldFinite == IsFiniteSet(HeldUnits)
<1>1. IsFiniteSet(1..MaxQuantity)
  BY FS_Interval, StockAssumption
<1>2. IsFiniteSet(Requests)
  BY RequestAssumption
<1>3. IsFiniteSet(Requests \X (1..MaxQuantity))
  BY <1>1, <1>2, FS_Product
<1>4. HeldUnits \in SUBSET (Requests \X (1..MaxQuantity))
  BY DEF HeldUnits
<1> QED BY <1>3, <1>4, FS_Subset

(* Reserving q units for an order that holds none adds q held units. *)
LEMMA TakeUnits ==
  ASSUME NEW H, NEW o, NEW q \in Nat, IsFiniteSet(H), \A u \in H : u[1] # o
  PROVE  Cardinality(H \cup ({o} \X (1..q))) = Cardinality(H) + q
<1>1. H \cap ({o} \X (1..q)) = {}
  OBVIOUS
<1>2. IsFiniteSet({o} \X (1..q)) /\ Cardinality({o} \X (1..q)) = q
  BY UnitsOfOne
<1>3. Cardinality(H \cup ({o} \X (1..q)))
        = Cardinality(H) + Cardinality({o} \X (1..q)) - Cardinality(H \cap ({o} \X (1..q)))
  BY <1>2, FS_Union
<1>4. Cardinality(H) \in Nat
  BY FS_CardinalityType
<1>5. Cardinality({}) = 0
  BY FS_EmptySet
<1>6. Cardinality(H \cap ({o} \X (1..q))) = 0
  BY <1>1, <1>5
<1> QED BY <1>2, <1>3, <1>4, <1>6

(* Giving back the q units of an order leaves q fewer. *)
LEMMA GiveUnits ==
  ASSUME NEW H, NEW o, NEW q \in Nat, IsFiniteSet(H), ({o} \X (1..q)) \subseteq H
  PROVE  Cardinality(H \ ({o} \X (1..q))) = Cardinality(H) - q
<1>1. H \cap ({o} \X (1..q)) = {o} \X (1..q)
  OBVIOUS
<1>2. Cardinality({o} \X (1..q)) = q
  BY UnitsOfOne
<1>3. Cardinality(H \ ({o} \X (1..q))) = Cardinality(H) - Cardinality(H \cap ({o} \X (1..q)))
  BY FS_Difference
<1> QED BY <1>1, <1>2, <1>3

(* What a step may do to the inventory: reserve for r, release order o, or *)
(* neither.                                                                *)
Reserving(r) ==
  /\ pc[r] = "reserve" /\ pc' = [pc EXCEPT ![r] = "publish"]
  /\ r \notin orders /\ req[r].quantity \in 1..MaxQuantity /\ req[r].quantity <= stock
  /\ stock' = stock - req[r].quantity
  /\ UNCHANGED <<orders, released, req>>
Releasing(o) ==
  /\ ReleaseOnce(o) /\ UNCHANGED req
  /\ \A p \in Requests : pc[p] = "publish" <=> pc'[p] = "publish"
Keeping ==
  /\ UNCHANGED <<stock, released>>
  /\ \A o \in Requests : Reserved(o)' = Reserved(o)
  /\ \A o \in Requests : Reserved(o) => req'[o] = req[o]
InventoryStep ==
  \/ ResetState \/ Keeping
  \/ \E r \in Requests : Reserving(r)
  \/ \E o \in orders : Releasing(o)


(* Every step of the service is one of these. *)
LEMMA InventorySteps == CheckoutInv /\ [Next]_vars => InventoryStep
<1> SUFFICES ASSUME CheckoutInv, [Next]_vars PROVE InventoryStep OBVIOUS
<1>a. TypeOK /\ OrderInv /\ TargetInv BY DEF CheckoutInv
<1>1. CASE UNCHANGED vars
  BY <1>1 DEF vars, threadVars, Reserved, Keeping, InventoryStep
<1>2. CASE ResetState
  BY <1>2 DEF InventoryStep
<1>3. ASSUME NEW r \in Requests, Arrive(r) PROVE InventoryStep
  <2>1. pc[r] = "idle" /\ pc' = [pc EXCEPT ![r] = pc'[r]] /\ pc'[r] \in {"identity", "cancel", "webhook", "done"}
    BY <1>3, <1>a, ArriveStep
  <2>2. \A s \in Requests \ {r} : req'[s] = req[s] /\ Identity(s)' = Identity(s)
    BY <1>3, <1>a, ArriveStep
  <2>3. UNCHANGED <<lockVars, stock, idempotency, orderVars, eventVars, payVars>> /\ target' = [target EXCEPT ![r] = target'[r]]
    BY <1>3 DEF Arrive
  <2>4. r \notin orders
    BY <1>a, <2>1 DEF OrderInv, OrderPC, CorePC, CreatePC
  <2>5. \A o \in Requests : Reserved(o)' = Reserved(o) /\ (Reserved(o) => req'[o] = req[o])
    BY <1>a, <2>1, <2>2, <2>3, <2>4 DEF Reserved, TypeOK
  <2> QED BY <2>3, <2>5 DEF Keeping, InventoryStep
<1>4. ASSUME NEW r \in Requests, FindIdentityLock(r) PROVE InventoryStep
  BY <1>4, <1>a DEF FindIdentityLock, Reserved, Keeping, TypeOK, InventoryStep
<1>5. ASSUME NEW r \in Requests, Acquire(r) PROVE InventoryStep
  BY <1>5, <1>a DEF Acquire, IdentityLockFree, Reserved, Keeping, TypeOK, InventoryStep
<1>6. ASSUME NEW r \in Requests, CheckFailed(r) PROVE InventoryStep
  BY <1>6, <1>a DEF CheckFailed, Unlock, Reserved, Keeping, TypeOK, InventoryStep
<1>7. ASSUME NEW r \in Requests, CheckPending(r) PROVE InventoryStep
  BY <1>7, <1>a DEF CheckPending, Unlock, Reserved, Keeping, TypeOK, InventoryStep
<1>8. ASSUME NEW r \in Requests, Reserve(r) PROVE InventoryStep
  <2>1. req[r].quantity \in 1..MaxQuantity /\ r \notin orders
    BY <1>8, <1>a, Operands DEF Reserve, CreatePC, CreateReq, TargetInv
  <2>2. CASE ~InStock(req[r].quantity)
    BY <1>8, <2>2, <1>a DEF Reserve, Keeping, Reserved, TypeOK, InventoryStep
  <2>3. CASE InStock(req[r].quantity)
    <3>1. Reserving(r)
      BY <1>8, <2>1, <2>3, <1>a, StockAssumption DEF Reserve, InStock, Reserving, TypeOK
    <3> QED BY <3>1 DEF InventoryStep
  <2> QED BY <2>2, <2>3
<1>9. ASSUME NEW r \in Requests, Publish(r) PROVE InventoryStep
  <2>1. r \notin orders /\ ~released[r]
    BY <1>9, <1>a DEF Publish, TargetInv, OrderInv
  <2>2. \A o \in Requests : Reserved(o)' = Reserved(o)
    BY <1>9, <1>a, <2>1 DEF Publish, Reserved, TypeOK
  <2> QED BY <1>9, <2>2 DEF Publish, Keeping, InventoryStep
<1>10. ASSUME NEW r \in Requests, Charge(r) PROVE InventoryStep
  BY <1>10, <1>a DEF Charge, Unlock, Reserved, Keeping, TypeOK, InventoryStep
<1>11. ASSUME NEW r \in Requests, DeclineStatus(r) PROVE InventoryStep
  BY <1>11, <1>a DEF DeclineStatus, SetStatus, Reserved, Keeping, TypeOK, InventoryStep
<1>12. ASSUME NEW r \in Requests, DeclineCode(r) PROVE InventoryStep
  BY <1>12, <1>a DEF DeclineCode, RecordDecline, Reserved, Keeping, TypeOK, InventoryStep
<1>13. ASSUME NEW r \in Requests, DeclineRelease(r) PROVE InventoryStep
  <2>1. target[r] \in orders
    BY <1>13, Operands DEF DeclineRelease, OrderPC, CorePC, CreatePC, StatePC, CancelPC, WebhookPC
  <2>2. ReleaseOnce(target[r]) /\ UNCHANGED req /\ pc[r] # "publish" /\ \E l \in Labels \ {"publish"} : pc' = [pc EXCEPT ![r] = l]
    BY <1>13 DEF DeclineRelease, Labels, WebhookPC
  <2>3. \A p \in Requests : pc[p] = "publish" <=> pc'[p] = "publish"
    BY <1>a, <2>2 DEF TypeOK
  <2> QED BY <2>1, <2>2, <2>3 DEF Releasing, InventoryStep
<1>14. ASSUME NEW r \in Requests, SetCharge(r) PROVE InventoryStep
  BY <1>14, <1>a DEF SetCharge, Reserved, Keeping, TypeOK, InventoryStep
<1>15. ASSUME NEW r \in Requests, SetPaid(r) PROVE InventoryStep
  BY <1>15, <1>a DEF SetPaid, Unlock, SetStatus, Reserved, Keeping, TypeOK, InventoryStep
<1>16. ASSUME NEW r \in Requests, Cancel(r) PROVE InventoryStep
  BY <1>16, <1>a DEF Cancel, LockState, MayCancel, Reserved, Keeping, TypeOK, InventoryStep
<1>17. ASSUME NEW r \in Requests, CancelWrite(r) PROVE InventoryStep
  BY <1>17, <1>a DEF CancelWrite, SetStatus, Reserved, Keeping, TypeOK, InventoryStep
<1>18. ASSUME NEW r \in Requests, CancelRelease(r) PROVE InventoryStep
  <2>1. target[r] \in orders
    BY <1>18, Operands DEF CancelRelease, OrderPC, CorePC, CreatePC, StatePC, CancelPC, WebhookPC
  <2>2. ReleaseOnce(target[r]) /\ UNCHANGED req /\ pc[r] # "publish" /\ \E l \in Labels \ {"publish"} : pc' = [pc EXCEPT ![r] = l]
    BY <1>18 DEF CancelRelease, Labels, WebhookPC
  <2>3. \A p \in Requests : pc[p] = "publish" <=> pc'[p] = "publish"
    BY <1>a, <2>2 DEF TypeOK
  <2> QED BY <2>1, <2>2, <2>3 DEF Releasing, InventoryStep
<1>19. ASSUME NEW r \in Requests, Webhook(r) PROVE InventoryStep
  BY <1>19, <1>a DEF Webhook, LockState, Reserved, Keeping, TypeOK, InventoryStep
<1>20. ASSUME NEW r \in Requests, WebhookPaid(r) PROVE InventoryStep
  BY <1>20, <1>a DEF WebhookPaid, WebhookStatus, SetStatus, Reserved, Keeping, TypeOK, InventoryStep
<1>21. ASSUME NEW r \in Requests, WebhookCharge(r) PROVE InventoryStep
  BY <1>21, <1>a DEF WebhookCharge, Reserved, Keeping, TypeOK, InventoryStep
<1>22. ASSUME NEW r \in Requests, WebhookFailed(r) PROVE InventoryStep
  BY <1>22, <1>a DEF WebhookFailed, WebhookStatus, SetStatus, Reserved, Keeping, TypeOK, InventoryStep
<1>23. ASSUME NEW r \in Requests, WebhookCode(r) PROVE InventoryStep
  BY <1>23, <1>a DEF WebhookCode, RecordDecline, Reserved, Keeping, TypeOK, InventoryStep
<1>24. ASSUME NEW r \in Requests, WebhookRelease(r) PROVE InventoryStep
  <2>1. target[r] \in orders
    BY <1>24, Operands DEF WebhookRelease, OrderPC, CorePC, CreatePC, StatePC, CancelPC, WebhookPC
  <2>2. ReleaseOnce(target[r]) /\ UNCHANGED req /\ pc[r] # "publish" /\ \E l \in Labels \ {"publish"} : pc' = [pc EXCEPT ![r] = l]
    BY <1>24 DEF WebhookRelease, Labels, WebhookPC
  <2>3. \A p \in Requests : pc[p] = "publish" <=> pc'[p] = "publish"
    BY <1>a, <2>2 DEF TypeOK
  <2> QED BY <2>1, <2>2, <2>3 DEF Releasing, InventoryStep
<1>25. ASSUME NEW r \in Requests, WebhookMark(r) PROVE InventoryStep
  BY <1>25, <1>a DEF WebhookMark, UnlockState, RememberEvent, Reserved, Keeping, TypeOK, InventoryStep
<1> QED
  BY <1>1, <1>2, <1>3, <1>4, <1>5, <1>6, <1>7, <1>8, <1>9, <1>10, <1>11, <1>12, <1>13, <1>14, <1>15, <1>16, <1>17, <1>18, <1>19, <1>20, <1>21, <1>22, <1>23, <1>24, <1>25
     DEF Next, Step, CreateStep, CancelStep, WebhookStep

(* The units held before and after _release_inventory_once.               *)
LEMMA ReleaseFacts ==
  ASSUME CheckoutInv, NEW o \in orders, Releasing(o)
  PROVE  /\ o \in Requests /\ req[o].quantity \in 1..MaxQuantity
         /\ (Reserved(o) <=> ~released[o])
         /\ \A p \in Requests : Reserved(p)' <=> Reserved(p) /\ p # o
<1>1. TypeOK /\ o \in Requests /\ req[o].quantity \in 1..MaxQuantity /\ pc[o] # "publish"
  BY DEF CheckoutInv, TypeOK, OrderInv, CreateReq, OrderPC, CorePC, CreatePC
<1> QED BY <1>1 DEF Reserved, Releasing, ReleaseOnce, TypeOK

(* No step loses a unit or restores one twice. *)
LEMMA StockStep == CheckoutInv /\ [Next]_vars => StockConserved'
<1> SUFFICES ASSUME CheckoutInv, InventoryStep PROVE StockConserved'
  BY InventorySteps
<1>a. TypeOK /\ StockConserved
  BY DEF CheckoutInv
<1>1. CASE ResetState
  <2>1. HeldUnits' = {}
    BY <1>1, <1>a DEF ResetState, Quiescent, InFlight, HeldUnits, Reserved
  <2> QED BY <1>1, <2>1, FS_EmptySet, StockAssumption DEF ResetState, StockConserved
<1>2. CASE Keeping
  <2>1. HeldUnits' = HeldUnits
    BY <1>2 DEF Keeping, HeldUnits
  <2> QED BY <1>2, <1>a, <2>1 DEF Keeping, StockConserved
<1>3. ASSUME NEW r \in Requests, Reserving(r) PROVE StockConserved'
  <2> DEFINE q == req[r].quantity
  <2>1. \A u \in HeldUnits : u[1] # r
    BY <1>3 DEF Reserving, HeldUnits, Reserved
  <2>2. HeldUnits' = HeldUnits \cup ({r} \X (1..q))
    BY <1>3, <1>a, StockAssumption DEF Reserving, HeldUnits, Reserved, TypeOK
  <2>3. q \in Nat /\ stock \in Nat /\ Cardinality(HeldUnits) \in Nat
    BY <1>3, <1>a, HeldFinite, FS_CardinalityType, StockAssumption DEF TypeOK, Reserving
  <2>4. Cardinality(HeldUnits') = Cardinality(HeldUnits) + q
    <3> HIDE DEF q
    <3> QED BY <2>1, <2>2, <2>3, HeldFinite, TakeUnits
  <2> QED BY <1>3, <1>a, <2>3, <2>4, StockAssumption DEF Reserving, StockConserved
<1>4. ASSUME NEW o \in orders, Releasing(o), released[o] PROVE StockConserved'
  <2>1. HeldUnits' = HeldUnits
    BY <1>4, ReleaseFacts DEF Releasing, HeldUnits
  <2> QED BY <1>4, <1>a, <2>1 DEF Releasing, ReleaseOnce, StockConserved
<1>5. ASSUME NEW o \in orders, Releasing(o), ~released[o] PROVE StockConserved'
  <2> DEFINE q == req[o].quantity
  <2>0. o \in Requests /\ q \in 1..MaxQuantity /\ Reserved(o)
    BY <1>5, ReleaseFacts
  <2>1. ({o} \X (1..q)) \subseteq HeldUnits
    BY <2>0, StockAssumption DEF HeldUnits
  <2>2. HeldUnits' = HeldUnits \ ({o} \X (1..q))
    BY <1>5, ReleaseFacts, StockAssumption DEF HeldUnits, Releasing
  <2>3. q \in Nat /\ stock \in Nat /\ Cardinality(HeldUnits) \in Nat
    BY <1>5, <1>a, ReleaseFacts, HeldFinite, FS_CardinalityType, StockAssumption DEF TypeOK
  <2>4. Cardinality(HeldUnits') = Cardinality(HeldUnits) - q
    <3> HIDE DEF q
    <3> QED BY <2>1, <2>2, <2>3, HeldFinite, GiveUnits
  <2> QED BY <1>5, <1>a, <2>3, <2>4, StockAssumption DEF Releasing, ReleaseOnce, StockConserved
<1> QED BY <1>1, <1>2, <1>3, <1>4, <1>5 DEF InventoryStep


-----------------------------------------------------------------------------
(* The invariant of the checkout holds in every state of every behaviour.  *)
THEOREM CheckoutInvariant == Spec => []CheckoutInv
<1>1. CheckoutInv /\ [Next]_vars => CheckoutInv'
  BY TypeStep, ContentsStep, LockStep, OrderStep, TargetStep, StockStep DEF CheckoutInv
<1> QED BY <1>1, InitInv, PTL DEF Spec

(* Type correctness. *)
THEOREM TypeCorrect == Spec => []TypeOK
<1>1. CheckoutInv => TypeOK
  BY DEF CheckoutInv
<1> QED BY <1>1, CheckoutInvariant, PTL

(* No interleaving of checkouts, retries, declines, webhooks and           *)
(* cancellations loses a unit of stock or restores one twice.              *)
THEOREM StockIsConserved == Spec => []StockConserved
<1>1. CheckoutInv => StockConserved
  BY DEF CheckoutInv
<1> QED BY <1>1, CheckoutInvariant, PTL

(* Whoever holds a lock is at work and waits for none: no deadlock, for any *)
(* number of requests that compete for the same order.                      *)
THEOREM HoldersAlwaysRun == Spec => []HoldersRun
<1>1. CheckoutInv => HoldersRun
  <2> SUFFICES ASSUME CheckoutInv, NEW r \in Requests,
                      r = stateLock \/ \E i \in Identities : idLock[i] = r
               PROVE  InFlight(r) /\ ~Waits(r)
    BY DEF HoldersRun
  <2>1. pc[r] \in CorePC \cup StatePC
    BY DEF CheckoutInv, LockInv
  <2> QED BY <2>1 DEF InFlight, Waits, CorePC, CreatePC, StatePC, CancelPC, WebhookPC
<1> QED BY <1>1, CheckoutInvariant, PTL

(* While a request is in flight, one of them waits for no lock.             *)
SomebodyRuns ==
  (\E r \in Requests : InFlight(r)) => \E s \in Requests : InFlight(s) /\ ~Waits(s)

(* The service is never stuck: a request that waits does so for a holder,   *)
(* and holders run.                                                         *)
THEOREM NeverStuck == Spec => []SomebodyRuns
<1>1. CheckoutInv /\ HoldersRun => SomebodyRuns
  <2> SUFFICES ASSUME CheckoutInv, HoldersRun, NEW r \in Requests, InFlight(r), Waits(r)
               PROVE  \E s \in Requests : InFlight(s) /\ ~Waits(s)
    BY DEF SomebodyRuns
  <2>1. CASE stateLock # None
    BY <2>1 DEF CheckoutInv, TypeOK, HoldersRun
  <2>2. CASE pc[r] = "acquire" /\ ~IdentityLockFree(r)
    <3>1. Identity(r) \in Identities
      BY <2>2 DEF CheckoutInv, ContentsInv, CreatePC
    <3>2. idLock[Identity(r)] \in Requests
      BY <2>2, <3>1 DEF IdentityLockFree, CheckoutInv, TypeOK
    <3> QED BY <3>1, <3>2 DEF HoldersRun
  <2> QED BY <2>1, <2>2 DEF Waits
<1> QED BY <1>1, CheckoutInvariant, HoldersAlwaysRun, PTL

(* How far a handler at a label is from its start.                          *)
Rank(label) ==
  CASE label = "idle" -> 0
    [] label \in {"identity", "cancel", "webhook"} -> 1
    [] label \in {"acquire", "cancel_write", "webhook_paid", "webhook_failed"} -> 2
    [] label \in {"check_failed", "reserve", "cancel_release", "webhook_charge", "webhook_code"} -> 3
    [] label \in {"check_pending", "publish", "webhook_release"} -> 4
    [] label \in {"charge", "webhook_mark"} -> 5
    [] label \in {"decline_status", "set_charge"} -> 6
    [] label \in {"decline_code", "set_paid"} -> 7
    [] label = "decline_release" -> 8
    [] label = "done" -> 9

(* The handler of r, and no other, comes closer to its answer.              *)
Advances(r) ==
  Rank(pc[r]) < Rank(pc'[r]) /\ \A s \in Requests \ {r} : pc'[s] = pc[s]

(* No handler ever goes back, and no step of the service is made without    *)
(* one going on: a request takes at most nine steps.                        *)
EveryStepAdvances == ResetState \/ \E r \in Requests : Advances(r)

(* The steps of one request go up its labels.                               *)
LEMMA RanksRise ==
  ASSUME TypeOK, NEW r \in Requests, Arrive(r) \/ Step(r)
  PROVE  Advances(r)
<1>a. pc \in [Requests -> Labels]
  BY DEF TypeOK
<1>1. CASE Arrive(r)
  BY <1>1, <1>a, ArriveStep DEF Advances, Rank
<1>2. CASE FindIdentityLock(r) \/ Acquire(r) \/ CheckFailed(r) \/ CheckPending(r) \/ Reserve(r) \/ Publish(r)
  BY <1>2, <1>a DEF FindIdentityLock, Acquire, CheckFailed, CheckPending, Reserve, Publish, Advances, Rank
<1>3. CASE Charge(r) \/ DeclineStatus(r) \/ DeclineCode(r) \/ DeclineRelease(r) \/ SetCharge(r) \/ SetPaid(r)
  BY <1>3, <1>a DEF Charge, DeclineStatus, DeclineCode, DeclineRelease, SetCharge, SetPaid, Advances, Rank, RecordDecline
<1>4. CASE Cancel(r) \/ CancelWrite(r) \/ CancelRelease(r)
  BY <1>4, <1>a DEF Cancel, CancelWrite, CancelRelease, Advances, Rank, LockState
<1>5. CASE Webhook(r) \/ WebhookPaid(r) \/ WebhookCharge(r) \/ WebhookFailed(r)
  BY <1>5, <1>a DEF Webhook, WebhookPaid, WebhookCharge, WebhookFailed, Advances, Rank, LockState, WebhookStatus
<1>6. CASE WebhookCode(r) \/ WebhookRelease(r) \/ WebhookMark(r)
  BY <1>6, <1>a DEF WebhookCode, WebhookRelease, WebhookMark, Advances, Rank, RecordDecline
<1> QED BY <1>1, <1>2, <1>3, <1>4, <1>5, <1>6 DEF Step, CreateStep, CancelStep, WebhookStep

(* Every handler is finite, whatever the others do: with NeverStuck, some   *)
(* handler in flight waits for nobody, and it goes on towards its answer.   *)
THEOREM HandlersOnlyAdvance == Spec => [][EveryStepAdvances]_vars
<1>1. TypeOK /\ Next => EveryStepAdvances
  BY RanksRise DEF Next, EveryStepAdvances
<1>2. TypeOK /\ [Next]_vars => [EveryStepAdvances]_vars
  BY <1>1
<1> QED BY <1>2, TypeCorrect, PTL DEF Spec

(* One user and key own one order, and no charge is without its order.     *)
THEOREM OneCheckout == Spec => []OneCheckoutPerIdentity
<1>1. CheckoutInv => OneCheckoutPerIdentity
  <2> SUFFICES ASSUME CheckoutInv PROVE OneCheckoutPerIdentity OBVIOUS
  <2>1. \A o, p \in orders : Identity(o) = Identity(p) => o = p
    BY DEF CheckoutInv, OrderInv
  <2> QED BY <2>1 DEF CheckoutInv, OrderInv, OneCheckoutPerIdentity
<1> QED BY <1>1, CheckoutInvariant, PTL

(* FlashCart implements InventoryLedger: units leave the stock for one     *)
(* order, never more than there are, and come back at most once.           *)
THEOREM ImplementsLedger == Spec => LedgerSpec
<1>1. Init => Ledger!LedgerInit
  BY DEF Init, Ledger!LedgerInit, UnitsHeld, Restored, Reserved
<1>2. CheckoutInv /\ [Next]_vars => [Ledger!LedgerNext]_(Ledger!ledgerVars)
  <2> SUFFICES ASSUME CheckoutInv, InventoryStep
               PROVE  [Ledger!LedgerNext]_(Ledger!ledgerVars)
    BY InventorySteps
  <2>a. TypeOK
    BY DEF CheckoutInv
  <2>1. ASSUME ResetState PROVE Ledger!Clear
    BY <2>1, <2>a DEF ResetState, Quiescent, InFlight, Ledger!Clear, UnitsHeld, Restored, Reserved
  <2>2. ASSUME Keeping PROVE UNCHANGED Ledger!ledgerVars
    BY <2>2 DEF Keeping, Ledger!ledgerVars, UnitsHeld, Restored
  <2>3. ASSUME NEW r \in Requests, Reserving(r) PROVE Ledger!Take(r)
    <3> DEFINE q == req[r].quantity
    <3>1. UnitsHeld[r] = 0 /\ r \notin Restored
      BY <2>3 DEF CheckoutInv, OrderInv, Reserving, UnitsHeld, Restored, Reserved
    <3>2. UnitsHeld' = [UnitsHeld EXCEPT ![r] = q] /\ Restored' = Restored
      BY <2>3, <2>a DEF TypeOK, Reserving, UnitsHeld, Restored, Reserved
    <3> QED BY <2>3, <3>1, <3>2 DEF Reserving, Ledger!Take
  <2>4. ASSUME NEW o \in orders, Releasing(o), released[o] PROVE UNCHANGED Ledger!ledgerVars
    <3>1. UnitsHeld' = UnitsHeld
      BY <2>4, ReleaseFacts DEF Releasing, UnitsHeld
    <3>2. Restored' = Restored
      BY <2>4, <2>a DEF TypeOK, Releasing, ReleaseOnce, Restored
    <3> QED BY <2>4, <3>1, <3>2 DEF Releasing, ReleaseOnce, Ledger!ledgerVars
  <2>5. ASSUME NEW o \in orders, Releasing(o), ~released[o] PROVE Ledger!GiveBack(o)
    <3>0. o \in Requests /\ req[o].quantity \in 1..MaxQuantity /\ Reserved(o)
      BY <2>5, ReleaseFacts
    <3>1. UnitsHeld[o] = req[o].quantity /\ UnitsHeld[o] > 0
      BY <3>0, StockAssumption DEF UnitsHeld
    <3>2. UnitsHeld' = [UnitsHeld EXCEPT ![o] = 0]
      BY <2>5, <3>0, ReleaseFacts DEF Releasing, UnitsHeld
    <3>3. Restored' = Restored \cup {o}
      BY <2>5, <2>a DEF TypeOK, Releasing, ReleaseOnce, Restored
    <3> QED BY <2>5, <3>0, <3>1, <3>2, <3>3 DEF Releasing, ReleaseOnce, Ledger!GiveBack
  <2> QED
    BY <2>1, <2>2, <2>3, <2>4, <2>5 DEF InventoryStep, Ledger!LedgerNext, TypeOK, CheckoutInv
<1> QED BY <1>1, <1>2, CheckoutInvariant, PTL DEF Spec, LedgerSpec, Ledger!LedgerSpec

==============================================================================
