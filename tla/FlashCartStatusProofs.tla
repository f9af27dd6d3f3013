------------------------ MODULE FlashCartStatusProofs ------------------------
(* Proofs about the status of an order in FlashCart, for any requests but   *)
(* webhooks: the checks of create_order, made without state_lock, suffice   *)
(* while only checkouts and cancellations change an order.  With a webhook  *)
(* among the requests each of the four theorems fails.                      *)
EXTENDS FlashCartProofs

NoWebhooks == \A r \in Requests : \A b \in Input[r] : b \notin WebhookReq

USE DEF At, Goto, Answer, lockVars, orderVars, eventVars, payVars

(* What a handler knows of its order, from its last look at the status.     *)
HandlerInv ==
  \A r \in Requests :
     /\ pc[r] \notin WebhookPC
     /\ pc[r] \in {"charge", "decline_status", "set_charge", "set_paid"} =>
          status[target[r]] = "payment_pending"
     /\ pc[r] \in {"decline_code", "decline_release"} => status[target[r]] = "payment_failed"
     /\ pc[r] = "decline_release" => failureStatus[target[r]] = "declined"
     /\ pc[r] \in {"set_charge", "set_paid"} => target[r] \in charges
     /\ pc[r] = "set_paid" => chargeId[target[r]] = target[r]
     /\ pc[r] = "cancel_write" => status[target[r]] = "paid"
     /\ pc[r] = "cancel_release" => status[target[r]] = "cancelled"

(* What the status of an order says of its other fields.                    *)
RecordInv ==
  \A o \in Requests :
     /\ o \notin orders => status[o] = "payment_pending"
     /\ status[o] \in {"payment_pending", "paid"} => ~released[o]
     /\ status[o] = "paid" => o \in charges /\ chargeId[o] = o
     /\ status[o] = "payment_failed" =>
          failureStatus[o] = "declined" \/ \E r \in Requests : target[r] = o /\ pc[r] = "decline_code"

StatusInv == HandlerInv /\ RecordInv /\ AnswersCarryCode

(* The identity lock lets one handler of create_order at an order at a time, *)
(* state_lock one cancellation.                                              *)
LEMMA OneHandler ==
  ASSUME CheckoutInv, NEW r \in Requests, NEW s \in Requests, r # s
  PROVE  /\ pc[r] \in OrderPC /\ pc[s] \in OrderPC => target[r] # target[s]
         /\ ~(pc[r] \in StatePC /\ pc[s] \in StatePC)
<1>1. ASSUME pc[r] \in OrderPC, pc[s] \in OrderPC, target[r] = target[s] PROVE FALSE
  <2>1. target[r] \in orders /\ Identity(r) = Identity(s)
    BY <1>1 DEF CheckoutInv, TargetInv
  <2>2. pc[r] \in CorePC /\ pc[s] \in CorePC
    BY <1>1 DEF OrderPC
  <2> QED BY <2>1, <2>2 DEF CheckoutInv, LockInv
<1>2. ~(pc[r] \in StatePC /\ pc[s] \in StatePC)
  BY DEF CheckoutInv, LockInv
<1> QED BY <1>1, <1>2

Working == {"charge", "decline_status", "decline_code", "decline_release", "set_charge", "set_paid",
            "cancel_write", "cancel_release"}

(* So one handler at a time is between its look at the status of an order    *)
(* and its last write.                                                       *)
LEMMA OneWorker ==
  ASSUME CheckoutInv, HandlerInv, NEW r \in Requests, NEW s \in Requests, r # s,
         pc[r] \in Working, pc[s] \in Working
  PROVE  target[r] # target[s]
<1>1. CASE pc[r] \in OrderPC /\ pc[s] \in OrderPC
  BY <1>1, OneHandler
<1>2. CASE pc[r] \in StatePC /\ pc[s] \in StatePC
  BY <1>2, OneHandler
<1>3. \A q \in Requests : pc[q] \in Working =>
        \/ pc[q] \in OrderPC /\ status[target[q]] \in {"payment_pending", "payment_failed"}
        \/ pc[q] \in StatePC /\ status[target[q]] \in {"paid", "cancelled"}
  BY DEF HandlerInv, Working, OrderPC, CorePC, CreatePC, StatePC, CancelPC, WebhookPC
<1> QED BY <1>1, <1>2, <1>3

(* No step of create_order or cancel_order breaks the invariant.             *)
LEMMA StatusStep == NoWebhooks /\ CheckoutInv /\ StatusInv /\ [Next]_vars => StatusInv'
<1> SUFFICES ASSUME NoWebhooks, CheckoutInv, StatusInv, [Next]_vars PROVE StatusInv'
  OBVIOUS
<1>a. TypeOK
  BY DEF CheckoutInv
<1>b. ASSUME NEW r \in Requests, pc[r] \in OrderPC \cup StatePC
      PROVE  target[r] \in Requests /\ target[r] \in orders
  BY <1>b, Operands
<1> USE <1>a DEF TypeOK, StatusInv, HandlerInv, RecordInv, AnswersCarryCode, Answered, WebhookPC,
                 OrderPC, CorePC, CreatePC, StatePC, CancelPC
<1>1. CASE UNCHANGED vars
  BY <1>1 DEF vars, threadVars
<1>2. CASE ResetState
  BY <1>2 DEF ResetState, Quiescent, InFlight
<1>3. ASSUME NEW r \in Requests, Arrive(r) PROVE StatusInv'
  <2>1. PICK b \in Input[r] :
          /\ reply' = [reply EXCEPT ![r] = Rejection(b)]
          /\ pc' = [pc EXCEPT ![r] = IF Rejection(b) = "none" THEN FirstLabel(b) ELSE "done"]
          /\ req' = [req EXCEPT ![r] = b]
    BY <1>3 DEF Arrive
  <2>2. b \in CreateReq \cup CancelReq
    BY RequestAssumption DEF RequestBodies, NoWebhooks
  <2>3. FirstLabel(b) \in {"identity", "cancel"}
    BY <2>2 DEF FirstLabel, CreateReq, CancelReq
  <2>4. pc[r] = "idle" /\ target' = [target EXCEPT ![r] = target'[r]] /\ UNCHANGED <<orderVars, charges>>
    BY <1>3 DEF Arrive
  <2> QED BY <2>1, <2>3, <2>4
<1>4. ASSUME NEW r \in Requests, FindIdentityLock(r) PROVE StatusInv'
  BY <1>4 DEF FindIdentityLock
<1>5. ASSUME NEW r \in Requests, Acquire(r) PROVE StatusInv'
  BY <1>5 DEF Acquire
<1>6. ASSUME NEW r \in Requests, CheckFailed(r) PROVE StatusInv'
  <2>1. target[r] \in Requests
    BY <1>6, <1>b DEF CheckFailed
  <2>2. \A s \in Requests : ~(target[s] = target[r] /\ pc[s] = "decline_code")
    BY <1>6, OneHandler DEF CheckFailed
  <2>3. status[target[r]] = "payment_failed" => failureStatus[target[r]] = "declined"
    BY <2>1, <2>2
  <2> QED BY <1>6, <2>1, <2>3 DEF CheckFailed
<1>7. ASSUME NEW r \in Requests, CheckPending(r) PROVE StatusInv'
  BY <1>7, <1>b DEF CheckPending
<1>8. ASSUME NEW r \in Requests, Reserve(r) PROVE StatusInv'
  BY <1>8 DEF Reserve
<1>9. ASSUME NEW r \in Requests, Publish(r) PROVE StatusInv'
  <2>1. target[r] = r /\ r \notin orders
    BY <1>9 DEF Publish, CheckoutInv, TargetInv
  <2> QED BY <1>9, <2>1 DEF Publish
<1>10. ASSUME NEW r \in Requests, Charge(r) PROVE StatusInv'
  <2>1. target[r] \in Requests /\ status[target[r]] = "payment_pending"
    BY <1>10, <1>b DEF Charge
  <2>2. charges \subseteq charges' /\ UNCHANGED <<orderVars, target, req>>
    BY <1>10 DEF Charge
  <2>3. \/ pc' = [pc EXCEPT ![r] = "decline_status"] /\ UNCHANGED reply
        \/ pc' = [pc EXCEPT ![r] = "done"] /\ reply' = [reply EXCEPT ![r] = "timeout"]
        \/ pc' = [pc EXCEPT ![r] = "set_charge"] /\ UNCHANGED reply /\ target[r] \in charges'
    BY <1>10 DEF Charge
  <2>4. pc[r] = "charge"
    BY <1>10 DEF Charge
  <2> QED BY <2>1, <2>2, <2>3, <2>4
<1>11. ASSUME NEW r \in Requests, pc[r] \in Working
       PROVE  /\ target[r] \in Requests /\ target[r] \in orders
              /\ \A q \in Requests \ {r} : pc[q] \in Working => target[q] # target[r]
  BY <1>11, <1>b, OneWorker DEF Working
<1> USE DEF Working
<1>12. ASSUME NEW r \in Requests, DeclineStatus(r) PROVE StatusInv'
  <2>1. pc[r] \in Working
    BY <1>12 DEF DeclineStatus
  <2>2. pc'[r] = "decline_code" /\ target'[r] = target[r]
    BY <1>12 DEF DeclineStatus
  <2> QED BY <1>11, <1>12, <2>1, <2>2 DEF DeclineStatus, SetStatus
<1>13. ASSUME NEW r \in Requests, DeclineCode(r) PROVE StatusInv'
  BY <1>11, <1>13 DEF DeclineCode, RecordDecline
<1>14. ASSUME NEW r \in Requests, DeclineRelease(r) PROVE StatusInv'
  BY <1>11, <1>14 DEF DeclineRelease, ReleaseOnce
<1>15. ASSUME NEW r \in Requests, SetCharge(r) PROVE StatusInv'
  BY <1>11, <1>15 DEF SetCharge
<1>16. ASSUME NEW r \in Requests, SetPaid(r) PROVE StatusInv'
  BY <1>11, <1>16 DEF SetPaid, SetStatus
<1>17. ASSUME NEW r \in Requests, Cancel(r) PROVE StatusInv'
  BY <1>17 DEF Cancel, LockState
<1>18. ASSUME NEW r \in Requests, CancelWrite(r) PROVE StatusInv'
  BY <1>11, <1>18 DEF CancelWrite, SetStatus
<1>19. ASSUME NEW r \in Requests, CancelRelease(r) PROVE StatusInv'
  BY <1>11, <1>19 DEF CancelRelease, ReleaseOnce
<1>20. ASSUME NEW r \in Requests, WebhookStep(r) PROVE FALSE
  BY <1>20 DEF WebhookStep, Webhook, WebhookPaid, WebhookFailed, WebhookStatus, WebhookCode, RecordDecline,
     WebhookCharge, WebhookRelease, WebhookMark
<1> QED
  BY <1>1, <1>2, <1>3, <1>4, <1>5, <1>6, <1>7, <1>8, <1>9, <1>10, <1>12, <1>13, <1>14, <1>15, <1>16,
     <1>17, <1>18, <1>19, <1>20 DEF Next, Step, CreateStep, CancelStep

(* Without webhooks the invariant holds in every state of every behaviour.  *)
THEOREM StatusInvariant == ASSUME NoWebhooks PROVE Spec => []StatusInv
<1>1. Init => StatusInv
  BY DEF Init, StatusInv, HandlerInv, RecordInv, AnswersCarryCode, Answered, WebhookPC
<1>2. CheckoutInv /\ StatusInv /\ [Next]_vars => StatusInv'
  BY StatusStep
<1> QED BY <1>1, <1>2, CheckoutInvariant, PTL DEF Spec

(* A repeated request never reads the failure_status of a failed order      *)
(* before it is written: every answer has a status code.                    *)
THEOREM AnswersAlwaysCarryCode == ASSUME NoWebhooks PROVE Spec => []AnswersCarryCode
<1>1. StatusInv => AnswersCarryCode
  BY DEF StatusInv
<1> QED BY <1>1, StatusInvariant, PTL

(* A paid order holds its units and is linked to its charge, also while     *)
(* retries of it and cancellations run.                                     *)
THEOREM PaidOrdersStayBacked == ASSUME NoWebhooks PROVE Spec => []PaidOrdersAreBacked
<1>1. CheckoutInv /\ StatusInv => PaidOrdersAreBacked
  BY DEF CheckoutInv, TypeOK, StatusInv, RecordInv, PaidOrdersAreBacked
<1> QED BY <1>1, StatusInvariant, CheckoutInvariant, PTL

(* The units paid for were in the store: orders and cancellations, however  *)
(* they interleave, never sell more than there was.                         *)
THEOREM NothingIsOversold == ASSUME NoWebhooks PROVE Spec => []NoOversell
<1>1. CheckoutInv /\ StatusInv => NoOversell
  <2> SUFFICES ASSUME CheckoutInv, StatusInv PROVE NoOversell
    OBVIOUS
  <2>1. PaidUnits \subseteq HeldUnits
    BY DEF PaidUnits, HeldUnits, Reserved, CheckoutInv, TypeOK, StatusInv, RecordInv
  <2>2. IsFiniteSet(HeldUnits) /\ Cardinality(PaidUnits) <= Cardinality(HeldUnits)
    BY <2>1, HeldFinite, FS_Subset
  <2>3. stock \in Nat /\ stock + Cardinality(HeldUnits) = InitialStock
    BY DEF CheckoutInv, TypeOK, StockConserved
  <2>4. Cardinality(PaidUnits) \in Nat /\ Cardinality(HeldUnits) \in Nat
    BY <2>1, <2>2, FS_Subset, FS_CardinalityType
  <2> QED BY <2>2, <2>3, <2>4, StockAssumption DEF NoOversell
<1> QED BY <1>1, StatusInvariant, CheckoutInvariant, PTL

(* An order leaves payment_pending once, and only a paid order is cancelled. *)
THEOREM StatusAlwaysAdvances == ASSUME NoWebhooks PROVE Spec => StatusAdvances
<1> DEFINE Advance ==
      \A o \in orders \cap orders' :
        status'[o] # status[o] =>
          <<status[o], status'[o]>> \in
             {<<"payment_pending", "paid">>, <<"payment_pending", "payment_failed">>,
              <<"paid", "cancelled">>}
<1>1. ASSUME CheckoutInv, StatusInv, [Next]_vars PROVE Advance
  <2>a. TypeOK
    BY <1>1 DEF CheckoutInv
  <2>1. \/ orders' = {} \/ status' = status
        \/ \E r \in Requests : DeclineStatus(r) \/ SetPaid(r) \/ CancelWrite(r)
    <3>1. CASE UNCHANGED vars
      BY <3>1 DEF vars
    <3>2. CASE ResetState
      BY <3>2 DEF ResetState
    <3>3. ASSUME NEW r \in Requests, Arrive(r) \/ CreateStep(r) \/ Cancel(r) \/ CancelRelease(r)
          PROVE  status' = status \/ DeclineStatus(r) \/ SetPaid(r)
      BY <3>3 DEF Arrive, CreateStep, FindIdentityLock, Acquire, CheckFailed, CheckPending, Reserve,
         Publish, Charge, DeclineCode, RecordDecline, DeclineRelease, ReleaseOnce, SetCharge, Cancel,
         CancelRelease
    <3>4. ASSUME NEW r \in Requests, WebhookStep(r) PROVE FALSE
      BY <1>1, <3>4 DEF StatusInv, HandlerInv, WebhookPC, WebhookStep, Webhook, WebhookPaid, WebhookFailed,
         WebhookStatus, WebhookCode, RecordDecline, WebhookCharge, WebhookRelease, WebhookMark
    <3> QED BY <1>1, <3>1, <3>2, <3>3, <3>4 DEF Next, Step, CancelStep
  <2>2. ASSUME NEW r \in Requests, DeclineStatus(r) \/ SetPaid(r) PROVE Advance
    BY <1>1, <2>2, <2>a DEF TypeOK, DeclineStatus, SetPaid, SetStatus, StatusInv, HandlerInv
  <2>3. ASSUME NEW r \in Requests, CancelWrite(r) PROVE Advance
    BY <1>1, <2>3, <2>a DEF TypeOK, CancelWrite, SetStatus, StatusInv, HandlerInv
  <2> QED BY <2>1, <2>2, <2>3
<1>2. CheckoutInv /\ StatusInv /\ [Next]_vars => [Advance]_vars
  BY <1>1
<1> QED BY <1>2, StatusInvariant, CheckoutInvariant, PTL DEF Spec, StatusAdvances
==============================================================================
