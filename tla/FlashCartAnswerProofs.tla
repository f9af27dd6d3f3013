------------------------ MODULE FlashCartAnswerProofs ------------------------
(* Proofs about what FlashCart answers, for any requests, with webhooks and *)
(* cancellations at any time: the retries of a checkout name one order, an  *)
(* event counts once, and a dead order ends without stock.                  *)
EXTENDS FlashCartProofs

USE DEF At, Goto, Answer, lockVars, orderVars, eventVars, payVars

(***************************************************************************)
(* How a request comes by its answer.                                      *)
(***************************************************************************)
CheckoutReplies == {"created", "timeout", "declined"}
OtherReplies == {"bad_request", "unauthorized", "mismatch", "not_found", "out_of_stock",
                 "cancelled", "forbidden", "not_paid"}

Ends(r) ==
  \/ pc[r] = "done" /\ reply'[r] = reply[r] /\ target'[r] = target[r]
  \/ pc[r] \in OrderPC /\ reply'[r] \in CheckoutReplies \cup {"none"} /\ target'[r] = target[r]
  \/ pc[r] # "done" /\ reply'[r] \in OtherReplies
  \/ Webhook(r) /\ reply'[r] = "duplicate" /\ req[r].event \in processedEvents
  \/ WebhookMark(r) /\ reply'[r] = "processed"

AnswerStep ==
  /\ orders \subseteq orders'
  /\ \A r \in Requests : pc[r] # "idle" => req'[r] = req[r]
  /\ \A r \in Requests : pc[r] = "done" => pc'[r] = "done"
  /\ \A r \in Requests : pc'[r] = "done" => Ends(r)

(* A request ends with an answer of its own handler, and then keeps it.     *)
LEMMA AnswerSteps == CheckoutInv /\ [Next]_vars => ResetState \/ AnswerStep
<1> SUFFICES ASSUME CheckoutInv, [Next]_vars, ~ResetState PROVE AnswerStep
  OBVIOUS
<1>a. TypeOK /\ ContentsInv
  BY DEF CheckoutInv
<1> USE <1>a DEF TypeOK, AnswerStep, Ends, OrderPC, CorePC, CreatePC, CheckoutReplies, OtherReplies
<1>1. CASE UNCHANGED vars
  BY <1>1 DEF vars, threadVars
<1>2. ASSUME NEW r \in Requests, Arrive(r) PROVE AnswerStep
  <2>1. PICK b \in Input[r] :
          /\ req' = [req EXCEPT ![r] = b] /\ reply' = [reply EXCEPT ![r] = Rejection(b)]
          /\ pc' = [pc EXCEPT ![r] = IF Rejection(b) = "none" THEN FirstLabel(b) ELSE "done"]
    BY <1>2 DEF Arrive
  <2>2. b \in CreateReq \cup CancelReq \cup WebhookReq
    BY RequestAssumption DEF RequestBodies
  <2>3. Rejection(b) \in {"none", "bad_request", "unauthorized"} /\ FirstLabel(b) # "done"
    BY <2>2 DEF Rejection, FirstLabel, CreateReq, CancelReq, WebhookReq
  <2>4. pc[r] = "idle" /\ orders' = orders
    BY <1>2 DEF Arrive
  <2>5. /\ \A s \in Requests : pc[s] # "idle" => req'[s] = req[s]
        /\ \A s \in Requests : pc[s] = "done" => pc'[s] = "done"
    BY <2>1, <2>4
  <2>6. target' = [target EXCEPT ![r] = target'[r]]
    BY <1>2 DEF Arrive
  <2>7. ASSUME NEW s \in Requests, pc'[s] = "done" PROVE Ends(s)
    <3>1. CASE s = r
      <4>1. reply'[r] = Rejection(b) /\ Rejection(b) # "none"
        BY <2>1, <2>3, <2>7, <3>1
      <4> QED BY <2>3, <2>4, <3>1, <4>1
    <3>2. CASE s # r
      BY <2>1, <2>6, <2>7, <3>2
    <3> QED BY <3>1, <3>2
  <2> QED BY <2>4, <2>5, <2>7
<1>3. ASSUME NEW r \in Requests, FindIdentityLock(r) PROVE AnswerStep
  BY <1>3 DEF FindIdentityLock
<1>4. ASSUME NEW r \in Requests, Acquire(r) PROVE AnswerStep
  BY <1>4 DEF Acquire
<1>5. ASSUME NEW r \in Requests, CheckFailed(r) PROVE AnswerStep
  <2>1. target[r] \in Requests
    BY <1>5, Operands DEF CheckFailed
  <2> QED BY <1>5, <2>1 DEF CheckFailed
<1>6. ASSUME NEW r \in Requests, CheckPending(r) PROVE AnswerStep
  BY <1>6 DEF CheckPending
<1>7. ASSUME NEW r \in Requests, Reserve(r) PROVE AnswerStep
  BY <1>7 DEF Reserve
<1>8. ASSUME NEW r \in Requests, Publish(r) PROVE AnswerStep
  BY <1>8 DEF Publish
<1>9. ASSUME NEW r \in Requests, Charge(r) PROVE AnswerStep
  BY <1>9 DEF Charge
<1>10. ASSUME NEW r \in Requests, DeclineStatus(r) \/ DeclineCode(r) \/ DeclineRelease(r)
       PROVE  AnswerStep
  BY <1>10 DEF DeclineStatus, DeclineCode, RecordDecline, DeclineRelease, SetStatus, ReleaseOnce
<1>11. ASSUME NEW r \in Requests, SetCharge(r) \/ SetPaid(r) PROVE AnswerStep
  BY <1>11 DEF SetCharge, SetPaid, SetStatus
<1>12. ASSUME NEW r \in Requests, Cancel(r) PROVE AnswerStep
  BY <1>12 DEF Cancel, LockState
<1>13. ASSUME NEW r \in Requests, CancelWrite(r) \/ CancelRelease(r) PROVE AnswerStep
  BY <1>13 DEF CancelWrite, CancelRelease, SetStatus, ReleaseOnce
<1>14. ASSUME NEW r \in Requests, Webhook(r) PROVE AnswerStep
  <2>1. \/ req[r].event \in processedEvents /\ Answer(r, "duplicate")
        \/ Answer(r, "not_found")
        \/ \E l \in WebhookPC : Goto(r, l)
    BY <1>14 DEF Webhook, LockState, WebhookPC
  <2>2. orders' = orders /\ At(r, "webhook")
    BY <1>14 DEF Webhook
  <2> QED BY <1>14, <2>1, <2>2 DEF WebhookPC
<1>15. ASSUME NEW r \in Requests, WebhookPaid(r) \/ WebhookFailed(r) \/ WebhookCode(r)
       PROVE  AnswerStep
  BY <1>15 DEF WebhookPaid, WebhookFailed, WebhookStatus, WebhookCode, RecordDecline, SetStatus
<1>16. ASSUME NEW r \in Requests, WebhookCharge(r) \/ WebhookRelease(r) PROVE AnswerStep
  BY <1>16 DEF WebhookCharge, WebhookRelease, ReleaseOnce
<1>17. ASSUME NEW r \in Requests, WebhookMark(r) PROVE AnswerStep
  BY <1>17 DEF WebhookMark
<1> QED
  BY <1>1, <1>2, <1>3, <1>4, <1>5, <1>6, <1>7, <1>8, <1>9, <1>10, <1>11, <1>12, <1>13, <1>14,
     <1>15, <1>16, <1>17 DEF Next, Step, CreateStep, CancelStep, WebhookStep

(***************************************************************************)
(* Retries agree.                                                          *)
(***************************************************************************)
AnswerInv ==
  \A r \in Requests : Answered(r) /\ reply[r] \in CheckoutReplies =>
    /\ target[r] \in orders
    /\ Identity(target[r]) = Identity(r) /\ SameContents(req[target[r]], req[r])

(* The answers given so far stand for the order they name.                  *)
LEMMA StepAnswer == CheckoutInv /\ AnswerInv /\ [Next]_vars => AnswerInv'
<1> SUFFICES ASSUME CheckoutInv, AnswerInv, [Next]_vars PROVE AnswerInv'
  OBVIOUS
<1>1. CASE ResetState
  BY <1>1 DEF ResetState, AnswerInv, Answered
<1>2. CASE AnswerStep
  <2> SUFFICES ASSUME NEW r \in Requests, Answered(r)', reply'[r] \in CheckoutReplies
               PROVE  /\ target'[r] \in orders' /\ Identity(target[r])' = Identity(r)'
                      /\ SameContents(req[target[r]], req[r])'
    BY DEF AnswerInv
  <2>1. pc'[r] = "done" /\ Ends(r)
    BY <1>2 DEF Answered, AnswerStep
  <2>2. /\ pc[r] # "idle" /\ target'[r] = target[r] /\ target[r] \in orders
        /\ Identity(target[r]) = Identity(r) /\ SameContents(req[target[r]], req[r])
    <3>1. CASE pc[r] = "done" /\ reply'[r] = reply[r] /\ target'[r] = target[r]
      <4>1. req'[r] = req[r]
        BY <1>2, <3>1 DEF AnswerStep
      <4> QED BY <3>1, <4>1 DEF AnswerInv, Answered
    <3>2. CASE pc[r] \in OrderPC /\ target'[r] = target[r]
      BY <3>2 DEF CheckoutInv, TargetInv, OrderPC, CorePC, CreatePC
    <3> QED BY <2>1, <3>1, <3>2 DEF Ends, OtherReplies, CheckoutReplies
  <2>3. target[r] \in Requests /\ pc[target[r]] # "idle" /\ target[r] \in orders'
    BY <1>2, <2>2 DEF AnswerStep, CheckoutInv, TypeOK, OrderInv, OrderPC, CorePC, CreatePC
  <2>4. req'[r] = req[r] /\ req'[target[r]] = req[target[r]]
    BY <1>2, <2>2, <2>3 DEF AnswerStep
  <2> QED BY <2>2, <2>3, <2>4 DEF Identity, SameContents, Fingerprint
<1> QED BY <1>1, <1>2, AnswerSteps

(* Two answers to one user and key name the same order and stand for the    *)
(* same purchase, also while webhooks and cancellations change the order.   *)
THEOREM RetriesAlwaysAgree == Spec => []RetriesAgree
<1>1. Init => AnswerInv
  BY DEF Init, AnswerInv, Answered
<1>2. CheckoutInv /\ AnswerInv => RetriesAgree
  <2> SUFFICES ASSUME CheckoutInv, AnswerInv, NEW r \in Requests, NEW s \in Requests,
                      Answered(r), reply[r] \in CheckoutReplies,
                      Answered(s), reply[s] \in CheckoutReplies, Identity(r) = Identity(s)
               PROVE  /\ target[r] = target[s]
                      /\ req[r].quantity = req[s].quantity /\ req[r].token = req[s].token
    BY DEF RetriesAgree, CheckoutReplies
  <2>1. /\ target[r] \in orders /\ target[s] \in orders
        /\ Identity(target[r]) = Identity(target[s])
        /\ SameContents(req[target[r]], req[r]) /\ SameContents(req[target[s]], req[s])
    BY DEF AnswerInv
  <2>2. target[r] = target[s]
    BY <2>1 DEF CheckoutInv, OrderInv
  <2> QED BY <2>1, <2>2 DEF SameContents, Fingerprint
<1>3. CheckoutInv /\ AnswerInv /\ [Next]_vars => AnswerInv'
  BY StepAnswer
<1> QED BY <1>1, <1>2, <1>3, CheckoutInvariant, PTL DEF Spec

(***************************************************************************)
(* Events.                                                                 *)
(***************************************************************************)
EventPC == WebhookPC \ {"webhook"}

EventInv ==
  /\ \A r \in Requests : pc[r] \in EventPC => req[r].event \notin processedEvents
  /\ \A e \in Events :
       IF e \in processedEvents
       THEN webhookEffects[e] = 1 /\ \E r \in Requests : Deliveries(e, "processed") = {r}
       ELSE webhookEffects[e] = 0 /\ Deliveries(e, "processed") = {} /\ Deliveries(e, "duplicate") = {}

EventStep ==
  /\ UNCHANGED eventVars \/ \E r \in Requests : WebhookMark(r)
  /\ \A r \in Requests : pc'[r] \in EventPC =>
       pc[r] \in EventPC \/ (pc[r] = "webhook" /\ req[r].event \notin processedEvents)

(* Only the end of a webhook counts an event, and only one not seen before. *)
LEMMA EventSteps == CheckoutInv /\ [Next]_vars => ResetState \/ EventStep
<1> SUFFICES ASSUME CheckoutInv, [Next]_vars, ~ResetState PROVE EventStep
  OBVIOUS
<1>a. TypeOK
  BY DEF CheckoutInv
<1> USE <1>a DEF TypeOK, EventStep, EventPC, WebhookPC
<1>1. CASE UNCHANGED vars
  BY <1>1 DEF vars, threadVars
<1>2. ASSUME NEW r \in Requests, Arrive(r) PROVE EventStep
  <2>1. pc' = [pc EXCEPT ![r] = pc'[r]] /\ pc'[r] \in {"identity", "cancel", "webhook", "done"}
        /\ UNCHANGED eventVars
    BY <1>2, ArriveStep
  <2> QED BY <2>1
<1>3. ASSUME NEW r \in Requests, CreateStep(r) PROVE EventStep
  <2>1. UNCHANGED eventVars
    BY <1>3 DEF CreateStep, FindIdentityLock, Acquire, CheckFailed, CheckPending, Reserve, Publish,
       Charge, DeclineStatus, DeclineCode, RecordDecline, DeclineRelease, SetCharge, SetPaid
  <2>2. \E l : pc' = [pc EXCEPT ![r] = l] /\ l \notin EventPC
    BY <1>3 DEF CreateStep, FindIdentityLock, Acquire, CheckFailed, CheckPending, Reserve, Publish,
       Charge, DeclineStatus, DeclineCode, RecordDecline, DeclineRelease, SetCharge, SetPaid
  <2> QED BY <2>1, <2>2
<1>4. ASSUME NEW r \in Requests, CancelStep(r) PROVE EventStep
  BY <1>4 DEF CancelStep, Cancel, LockState, CancelWrite, CancelRelease
<1>5. ASSUME NEW r \in Requests, Webhook(r) PROVE EventStep
  BY <1>5 DEF Webhook, LockState
<1>6. ASSUME NEW r \in Requests, WebhookPaid(r) \/ WebhookFailed(r) \/ WebhookCode(r) \/ WebhookCharge(r)
                                 \/ WebhookRelease(r)
      PROVE  EventStep
  BY <1>6 DEF WebhookPaid, WebhookFailed, WebhookStatus, WebhookCode, RecordDecline, WebhookCharge,
     WebhookRelease
<1>7. ASSUME NEW r \in Requests, WebhookMark(r) PROVE EventStep
  BY <1>7 DEF WebhookMark
<1> QED BY <1>1, <1>2, <1>3, <1>4, <1>5, <1>6, <1>7 DEF Next, Step, WebhookStep

(* What deliveries were answered, across a step.                            *)
LEMMA DeliveriesStep ==
  ASSUME CheckoutInv, AnswerStep, NEW e \in Events
  PROVE  /\ Deliveries(e, "processed")' =
              Deliveries(e, "processed") \cup {r \in Requests : WebhookMark(r) /\ req[r].event = e}
         /\ \A r \in Deliveries(e, "duplicate")' :
              r \in Deliveries(e, "duplicate") \/ e \in processedEvents
<1>1. ASSUME NEW r \in Requests, pc[r] = "done"
      PROVE  req'[r] = req[r] /\ (Answered(r)' <=> Answered(r)) /\ reply'[r] = reply[r]
  <2>1. req'[r] = req[r] /\ pc'[r] = "done" /\ Ends(r)
    BY <1>1 DEF AnswerStep
  <2> QED BY <1>1, <2>1 DEF Ends, OrderPC, CorePC, CreatePC, Webhook, WebhookMark, Answered
<1>2. ASSUME NEW r \in Requests, pc[r] # "done", pc'[r] = "done", reply'[r] = "processed"
      PROVE  WebhookMark(r)
  BY <1>2 DEF AnswerStep, Ends, CheckoutReplies, OtherReplies
<1>3. ASSUME NEW r \in Requests, WebhookMark(r)
      PROVE  /\ pc[r] # "done" /\ Answered(r)' /\ reply'[r] = "processed" /\ req'[r] = req[r]
             /\ req[r].op = "webhook"
  <2>1. req[r] \in WebhookReq
    BY <1>3 DEF CheckoutInv, ContentsInv, WebhookMark, WebhookPC
  <2>2. req[r] \in RequestBodies \cup {None} /\ req'[r] = req[r] /\ pc'[r] = "done" /\ reply'[r] = "processed"
    BY <1>3 DEF CheckoutInv, TypeOK, WebhookMark
  <2>3. req'[r] # None
    BY <2>1, <2>2, RequestAssumption DEF RequestBodies
  <2> QED BY <1>3, <2>1, <2>2, <2>3 DEF WebhookMark, Answered, WebhookReq
<1>4. ASSUME NEW r \in Requests, pc[r] # "done", pc'[r] = "done", reply'[r] = "duplicate"
      PROVE  req[r].event \in processedEvents /\ req'[r] = req[r]
  <2>1. Webhook(r) /\ req[r].event \in processedEvents
    BY <1>4 DEF AnswerStep, Ends, CheckoutReplies, OtherReplies
  <2> QED BY <2>1 DEF Webhook
<1>5. ASSUME NEW r \in Requests
      PROVE  r \in Deliveries(e, "processed")' <=>
               r \in Deliveries(e, "processed") \/ (WebhookMark(r) /\ req[r].event = e)
  <2>1. CASE pc[r] = "done"
    BY <1>1, <1>3, <2>1 DEF Deliveries, Answered
  <2>2. CASE pc[r] # "done"
    BY <1>2, <1>3, <2>2 DEF Deliveries, Answered
  <2> QED BY <2>1, <2>2
<1>6. ASSUME NEW r \in Deliveries(e, "duplicate")'
      PROVE  r \in Deliveries(e, "duplicate") \/ e \in processedEvents
  <2>1. r \in Requests /\ pc'[r] = "done" /\ reply'[r] = "duplicate" /\ req'[r].event = e
    BY DEF Deliveries, Answered
  <2>2. CASE pc[r] = "done"
    BY <1>1, <2>1, <2>2 DEF Deliveries, Answered
  <2>3. CASE pc[r] # "done"
    BY <1>4, <2>1, <2>3
  <2> QED BY <2>2, <2>3
<1>7. Deliveries(e, "processed")' \subseteq Requests /\ Deliveries(e, "processed") \subseteq Requests
  BY DEF Deliveries
<1> QED BY <1>5, <1>6, <1>7

(* An event is counted with the delivery that is answered "processed".      *)
LEMMA StepEvent == CheckoutInv /\ EventInv /\ [Next]_vars => EventInv'
<1> SUFFICES ASSUME CheckoutInv, EventInv, [Next]_vars PROVE EventInv'
  OBVIOUS
<1>1. CASE ResetState
  <2>1. \A e \in Events : \A code : Deliveries(e, code)' = {}
    BY <1>1 DEF ResetState, Deliveries, Answered
  <2>2. \A r \in Requests : pc'[r] \notin EventPC
    BY <1>1 DEF ResetState, Quiescent, InFlight, EventPC, WebhookPC
  <2> QED BY <1>1, <2>1, <2>2 DEF ResetState, EventInv
<1>2. ASSUME AnswerStep, EventStep, UNCHANGED eventVars, \A r \in Requests : ~WebhookMark(r) PROVE EventInv'
  <2>1. \A r \in Requests : pc'[r] \in EventPC => req'[r].event \notin processedEvents'
    BY <1>2 DEF EventInv, EventStep, AnswerStep, EventPC, WebhookPC
  <2>2. ASSUME NEW e \in Events
        PROVE  /\ Deliveries(e, "processed")' = Deliveries(e, "processed")
               /\ e \notin processedEvents => Deliveries(e, "duplicate")' \subseteq Deliveries(e, "duplicate")
    BY <1>2, DeliveriesStep
  <2> QED BY <1>2, <2>1, <2>2 DEF EventInv
<1>3. ASSUME AnswerStep, EventStep, NEW r \in Requests, WebhookMark(r) PROVE EventInv'
  <2>0. req[r] \in WebhookReq
    BY <1>3, Operands DEF WebhookMark, WebhookPC
  <2>a. PICK e0 \in Events : e0 = req[r].event
    BY <2>0 DEF WebhookReq
  <2>1. e0 \notin processedEvents /\ stateLock = r /\ webhookEffects \in [Events -> Nat]
    BY <1>3, <2>a DEF EventInv, WebhookMark, EventPC, WebhookPC, StatePC, CheckoutInv, LockInv, TypeOK
  <2>2. /\ processedEvents' = processedEvents \cup {e0} /\ UNCHANGED req
        /\ webhookEffects' = [webhookEffects EXCEPT ![e0] = @ + 1]
        /\ pc' = [pc EXCEPT ![r] = "done"]
    BY <1>3, <2>a DEF WebhookMark, RememberEvent
  <2>3. \A s \in Requests \ {r} : pc[s] \notin EventPC /\ ~WebhookMark(s)
    BY <2>1 DEF CheckoutInv, LockInv, StatePC, EventPC, WebhookMark, WebhookPC
  <2>4. \A s \in Requests : pc'[s] \notin EventPC
    BY <2>2, <2>3 DEF CheckoutInv, TypeOK, EventPC, WebhookPC
  <2>5. ASSUME NEW e \in Events, e # e0
        PROVE  /\ Deliveries(e, "processed")' = Deliveries(e, "processed")
               /\ e \notin processedEvents => Deliveries(e, "duplicate")' \subseteq Deliveries(e, "duplicate")
    BY <1>3, <2>a, <2>3, <2>5, DeliveriesStep
  <2>6. Deliveries(e0, "processed")' = {r}
    <3>1. Deliveries(e0, "processed") = {}
      BY <2>1 DEF EventInv
    <3>2. {s \in Requests : WebhookMark(s) /\ req[s].event = e0} = {r}
      BY <1>3, <2>a, <2>3
    <3>3. Deliveries(e0, "processed")' =
            Deliveries(e0, "processed") \cup {s \in Requests : WebhookMark(s) /\ req[s].event = e0}
      BY <1>3, <2>1, DeliveriesStep
    <3> QED BY <3>1, <3>2, <3>3
  <2>7. webhookEffects'[e0] = 1 /\ \A e \in Events \ {e0} : webhookEffects'[e] = webhookEffects[e]
    BY <2>1, <2>2 DEF EventInv
  <2>8. \A s \in Requests : pc'[s] \in EventPC => req'[s].event \notin processedEvents'
    BY <2>4
  <2>9. ASSUME NEW e \in Events
        PROVE  IF e \in processedEvents'
               THEN webhookEffects'[e] = 1 /\ \E s \in Requests : Deliveries(e, "processed")' = {s}
               ELSE /\ webhookEffects'[e] = 0 /\ Deliveries(e, "processed")' = {}
                    /\ Deliveries(e, "duplicate")' = {}
    <3>1. CASE e = e0
      BY <2>2, <2>6, <2>7, <3>1
    <3>2. CASE e # e0 /\ e \in processedEvents
      BY <2>2, <2>5, <2>7, <3>2 DEF EventInv
    <3>3. CASE e # e0 /\ e \notin processedEvents
      BY <2>2, <2>5, <2>7, <3>3 DEF EventInv
    <3> QED BY <3>1, <3>2, <3>3
  <2> QED BY <2>8, <2>9 DEF EventInv
<1>4. CASE UNCHANGED vars
  <2>1. \A e \in Events : \A code : Deliveries(e, code)' = Deliveries(e, code)
    BY <1>4 DEF vars, threadVars, Deliveries, Answered
  <2> QED BY <1>4, <2>1 DEF vars, threadVars, EventInv
<1> QED BY <1>1, <1>2, <1>3, <1>4, AnswerSteps, EventSteps DEF EventStep

(* However often and in whatever order an event is delivered, it counts     *)
(* exactly when one delivery of it was processed, and then once.            *)
THEOREM EventsCountOnce == Spec => []EventsTakeEffectOnce
<1>1. Init => EventInv
  BY DEF Init, EventInv, Deliveries, Answered, EventPC, WebhookPC
<1>2. EventInv => EventsTakeEffectOnce
  <2> SUFFICES ASSUME EventInv, NEW e \in Events
               PROVE  /\ webhookEffects[e] = Cardinality(Deliveries(e, "processed"))
                      /\ webhookEffects[e] <= 1
                      /\ (e \in processedEvents) <=> (webhookEffects[e] = 1)
                      /\ Deliveries(e, "duplicate") # {} => e \in processedEvents
    BY DEF EventsTakeEffectOnce
  <2>1. CASE e \in processedEvents
    <3>1. webhookEffects[e] = 1
      BY <2>1 DEF EventInv
    <3>2. PICK r \in Requests : Deliveries(e, "processed") = {r}
      BY <2>1 DEF EventInv
    <3>3. Cardinality({r}) = 1
      BY FS_Singleton
    <3> QED BY <2>1, <3>1, <3>2, <3>3
  <2>2. CASE e \notin processedEvents
    BY <2>2, FS_EmptySet DEF EventInv
  <2> QED BY <2>1, <2>2
<1>3. CheckoutInv /\ EventInv /\ [Next]_vars => EventInv'
  BY StepEvent
<1> QED BY <1>1, <1>2, <1>3, CheckoutInvariant, PTL DEF Spec

(***************************************************************************)
(* Dead orders.                                                            *)
(***************************************************************************)
Dead == {"payment_failed", "cancelled"}
ReleasePC == {"decline_code", "decline_release", "cancel_release", "webhook_code", "webhook_release"}
Releasers(o) == {r \in Requests : target[r] = o /\ pc[r] \in ReleasePC}

DeadInv ==
  /\ \A o \in Requests \ orders : status[o] = "payment_pending"
  /\ \A o \in orders : status[o] \in Dead /\ ~released[o] => Releasers(o) # {}

(* A step changes the status of an order only to one that holds stock, or   *)
(* leaves a handler that will release it; a releaser stays one until the    *)
(* flag is set.                                                             *)
DeadStep ==
  /\ orders \subseteq orders'
  /\ \A o \in Requests :
       /\ released[o] => released'[o]
       /\ \/ status'[o] = status[o]
          \/ o \in orders /\ (status'[o] \notin Dead \/ Releasers(o)' # {})
  /\ \A r \in Requests : pc[r] \in ReleasePC =>
       target'[r] = target[r] /\ (pc'[r] \in ReleasePC \/ released'[target[r]])

(* Every step is of that form, or resets the service.                       *)
LEMMA DeadSteps == CheckoutInv /\ [Next]_vars => ResetState \/ DeadStep
<1> SUFFICES ASSUME CheckoutInv, [Next]_vars, ~ResetState PROVE DeadStep
  OBVIOUS
<1>a. TypeOK
  BY DEF CheckoutInv
<1> USE <1>a DEF TypeOK, DeadStep, ReleasePC
<1>1. CASE UNCHANGED vars
  BY <1>1 DEF vars, threadVars
<1>2. ASSUME NEW r \in Requests, Arrive(r) PROVE DeadStep
  <2>1. pc[r] = "idle" /\ pc' = [pc EXCEPT ![r] = pc'[r]] /\ UNCHANGED orderVars
    BY <1>2, ArriveStep
  <2>2. target' = [target EXCEPT ![r] = target'[r]]
    BY <1>2 DEF Arrive
  <2> QED BY <2>1, <2>2
<1>3. ASSUME NEW r \in Requests, FindIdentityLock(r) \/ Acquire(r) \/ CheckFailed(r) \/ CheckPending(r)
                                 \/ Reserve(r)
      PROVE  DeadStep
  BY <1>3 DEF FindIdentityLock, Acquire, CheckFailed, CheckPending, Reserve
<1>4. ASSUME NEW r \in Requests, Publish(r) \/ Charge(r) \/ SetCharge(r) PROVE DeadStep
  BY <1>4 DEF Publish, Charge, SetCharge
<1>5. ASSUME NEW r \in Requests, pc[r] \in OrderPC \cup StatePC
      PROVE  target[r] \in Requests /\ target[r] \in orders
  BY <1>5, Operands
<1>6. ASSUME NEW r \in Requests, SetPaid(r) PROVE DeadStep
  BY <1>5, <1>6 DEF SetPaid, SetStatus, Dead, OrderPC, CorePC, CreatePC
<1>7. ASSUME NEW r \in Requests, NEW s \in Dead, SetStatus(target[r], s), pc[r] \in OrderPC \cup StatePC,
             NEW l \in ReleasePC, pc' = [pc EXCEPT ![r] = l], UNCHANGED target
      PROVE  DeadStep
  <2>1. r \in Releasers(target[r])'
    BY <1>7 DEF Releasers
  <2> QED BY <1>5, <1>7, <2>1 DEF SetStatus
<1>8. ASSUME NEW r \in Requests, DeclineStatus(r) PROVE DeadStep
  BY <1>7, <1>8 DEF DeclineStatus, Dead, OrderPC, CorePC, CreatePC
<1>9. ASSUME NEW r \in Requests, CancelWrite(r) PROVE DeadStep
  BY <1>7, <1>9 DEF CancelWrite, Dead, StatePC, CancelPC
<1>10. ASSUME NEW r \in Requests, WebhookFailed(r) PROVE DeadStep
  <2>1. CASE UNCHANGED orderVars
    BY <1>10, <2>1 DEF WebhookFailed, WebhookStatus
  <2>2. CASE SetStatus(target[r], "payment_failed") /\ Goto(r, "webhook_code")
    BY <1>7, <1>10, <2>2 DEF WebhookFailed, WebhookStatus, Dead, StatePC, WebhookPC
  <2> QED BY <1>10, <2>1, <2>2 DEF WebhookFailed, WebhookStatus
<1>11. ASSUME NEW r \in Requests, WebhookPaid(r) PROVE DeadStep
  BY <1>5, <1>11 DEF WebhookPaid, WebhookStatus, SetStatus, Dead, StatePC, WebhookPC
<1>12. ASSUME NEW r \in Requests, DeclineCode(r) \/ WebhookCode(r) PROVE DeadStep
  BY <1>12 DEF DeclineCode, WebhookCode, RecordDecline
<1>13. ASSUME NEW r \in Requests, DeclineRelease(r) \/ CancelRelease(r) \/ WebhookRelease(r) PROVE DeadStep
  <2>1. target[r] \in Requests
    BY <1>5, <1>13 DEF DeclineRelease, CancelRelease, WebhookRelease, OrderPC, CorePC, CreatePC, StatePC,
       CancelPC, WebhookPC
  <2>2. ReleaseOnce(target[r]) /\ UNCHANGED target /\ pc' = [pc EXCEPT ![r] = pc'[r]]
    BY <1>13 DEF DeclineRelease, CancelRelease, WebhookRelease
  <2> QED BY <2>1, <2>2 DEF ReleaseOnce
<1>14. ASSUME NEW r \in Requests, Cancel(r) \/ Webhook(r) \/ WebhookCharge(r) \/ WebhookMark(r) PROVE DeadStep
  BY <1>14 DEF Cancel, Webhook, LockState, WebhookCharge, WebhookMark
<1> QED
  BY <1>1, <1>2, <1>3, <1>4, <1>6, <1>8, <1>9, <1>10, <1>11, <1>12, <1>13, <1>14
     DEF Next, Step, CreateStep, CancelStep, WebhookStep

(* A dead order that holds units has a handler about to release it.         *)
LEMMA StepDead == CheckoutInv /\ DeadInv /\ [Next]_vars => DeadInv'
<1> SUFFICES ASSUME CheckoutInv, DeadInv, [Next]_vars PROVE DeadInv'
  OBVIOUS
<1>a. orders \subseteq Requests
  BY DEF CheckoutInv, TypeOK
<1>1. CASE ResetState
  BY <1>1 DEF ResetState, DeadInv
<1>2. CASE DeadStep
  <2>1. \A o \in Requests \ orders' : status'[o] = "payment_pending"
    BY <1>2 DEF DeadStep, DeadInv
  <2>2. ASSUME NEW o \in Requests, status'[o] \in Dead, ~released'[o] PROVE Releasers(o)' # {}
    <3>1. CASE status'[o] = status[o]
      <4>1. o \in orders /\ ~released[o]
        BY <1>2, <2>2, <3>1 DEF DeadStep, DeadInv, Dead
      <4>2. PICK r \in Requests : target[r] = o /\ pc[r] \in ReleasePC
        BY <2>2, <3>1, <4>1 DEF DeadInv, Releasers
      <4>3. target'[r] = o /\ pc'[r] \in ReleasePC
        BY <1>2, <2>2, <4>2 DEF DeadStep
      <4> QED BY <4>3 DEF Releasers
    <3>2. CASE status'[o] # status[o]
      BY <1>2, <2>2, <3>2 DEF DeadStep
    <3> QED BY <3>1, <3>2
  <2>3. orders' \subseteq Requests
    BY TypeStep DEF TypeOK
  <2> QED BY <2>1, <2>2, <2>3 DEF DeadInv
<1> QED BY <1>1, <1>2, DeadSteps

(* Whatever races a decline, a failure event and a cancellation, a failed   *)
(* or cancelled order gives back its stock once its handlers have finished. *)
THEOREM DeadOrdersGiveBack == Spec => []DeadOrdersHoldNothing
<1>1. Init => DeadInv
  BY DEF Init, DeadInv
<1>2. CheckoutInv /\ DeadInv => DeadOrdersHoldNothing
  BY DEF DeadInv, DeadOrdersHoldNothing, Releasers, Idle, InFlight, ReleasePC, Dead
<1>3. CheckoutInv /\ DeadInv /\ [Next]_vars => DeadInv'
  BY StepDead
<1> QED BY <1>1, <1>2, <1>3, CheckoutInvariant, PTL DEF Spec
=============================================================================
