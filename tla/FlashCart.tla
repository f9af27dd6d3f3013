------------------------------ MODULE FlashCart ------------------------------
(***************************************************************************)
(* The FlashCart checkout service, benchmarks/flashcart/source_app.py.     *)
(*                                                                         *)
(* FastAPI runs create_order and cancel_order on a pool of threads and     *)
(* payment_webhook on the event loop, so one process of this module is one *)
(* HTTP request.  Handlers interleave between two accesses to STATE that   *)
(* no common lock protects.  The module-level locks are:                   *)
(*   state_lock      held by cancel and the webhook, taken for an instant  *)
(*                   by _identity_lock: the variable stateLock;            *)
(*   identity locks  held by create_order for one (user, Idempotency-Key): *)
(*                   the variable idLock;                                  *)
(*   inventory_lock, payment.lock  guard sections that acquire nothing     *)
(*                   else, so each section is one atomic step.             *)
(* create_order does NOT hold state_lock while it reads and writes the     *)
(* status of its order.                                                    *)
(*                                                                         *)
(* An order is named by the request that created it (its id is a fresh     *)
(* uuid), and its immutable fields are fields of that request.             *)
(***************************************************************************)
EXTENDS Integers, FiniteSets

CONSTANTS
  Requests,      \* the HTTP requests of a behaviour
  Input,         \* Input[r]: the contents request r may be sent with
  Users, Admin,  \* bearer tokens the service accepts; Admin is one of them
  Keys,          \* Idempotency-Key values
  Events,        \* event ids of the payment provider
  Product,       \* the one product of the catalogue
  OtherProduct,  \* a product id the catalogue lacks
  InitialStock, MaxQuantity,
  None           \* no request, order, user or key

Tokens     == {"approved", "decline", "timeout-once"}
EventTypes == {"payment.succeeded", "payment.failed"}

CreateReq ==
  [op : {"create"}, user : Users \cup {None}, key : Keys \cup {None},
   product : {Product, OtherProduct}, quantity : 1..MaxQuantity, token : Tokens]
CancelReq  == [op : {"cancel"}, user : Users \cup {None}]
WebhookReq == [op : {"webhook"}, signed : BOOLEAN, event : Events, type : EventTypes]
RequestBodies == CreateReq \cup CancelReq \cup WebhookReq

ASSUME RequestAssumption ==
  /\ Requests # {} /\ IsFiniteSet(Requests) /\ None \notin Requests \cup RequestBodies
  /\ Input \in [Requests -> SUBSET RequestBodies]
ASSUME IdentityAssumption ==
  /\ Admin \in Users /\ None \notin Users \cup Keys
  /\ Product # OtherProduct
ASSUME StockAssumption ==
  InitialStock \in Nat /\ MaxQuantity \in Nat \ {0}

VARIABLES
  pc, req, target, reply,               \* the threads
  stateLock, idLock,                    \* the locks held across steps
  stock, idempotency, orders, status, failureStatus, released, chargeId,
  processedEvents, webhookEffects,      \* STATE
  charges, billed                       \* PaymentStub, and whom it was told of

threadVars == <<pc, req, target, reply>>
lockVars   == <<stateLock, idLock>>
orderVars  == <<orders, status, failureStatus, released, chargeId>>
eventVars  == <<processedEvents, webhookEffects>>
payVars    == <<charges, billed>>
vars == <<threadVars, lockVars, stock, idempotency, orderVars, eventVars, payVars>>

Statuses   == {"payment_pending", "payment_failed", "paid", "cancelled"}
Identities == Users \X Keys

Identity(r) == <<req[r].user, req[r].key>>
CreatePC  == {"identity", "acquire", "check_failed", "check_pending", "reserve",
              "publish", "charge", "decline_status", "decline_code",
              "decline_release", "set_charge", "set_paid"}
CancelPC  == {"cancel", "cancel_write", "cancel_release"}
WebhookPC == {"webhook", "webhook_paid", "webhook_charge", "webhook_failed",
              "webhook_code", "webhook_release", "webhook_mark"}
Labels == {"idle", "done"} \cup CreatePC \cup CancelPC \cup WebhookPC
Replies == {"none", "created", "cancelled", "processed", "duplicate",
            "bad_request", "unauthorized", "declined", "forbidden", "not_found",
            "mismatch", "out_of_stock", "not_paid", "timeout"}

Init ==
  /\ pc     = [r \in Requests |-> "idle"]
  /\ req    = [r \in Requests |-> None]
  /\ target = [r \in Requests |-> None]
  /\ reply  = [r \in Requests |-> "none"]
  /\ stateLock = None
  /\ idLock = [i \in Identities |-> None]
  /\ stock = InitialStock
  /\ idempotency = [i \in Identities |-> None]
  /\ orders = {}
  /\ status = [o \in Requests |-> "payment_pending"]
  /\ failureStatus = [o \in Requests |-> "none"]
  /\ released = [o \in Requests |-> FALSE]
  /\ chargeId = [o \in Requests |-> None]
  /\ processedEvents = {}
  /\ webhookEffects = [e \in Events |-> 0]
  /\ charges = {} /\ billed = {}

At(r, label)   == pc[r] = label
Goto(r, label) == pc' = [pc EXCEPT ![r] = label] /\ UNCHANGED <<req, target, reply>>
Answer(r, code) ==
  /\ pc' = [pc EXCEPT ![r] = "done"]
  /\ reply' = [reply EXCEPT ![r] = code]
  /\ UNCHANGED <<req, target>>

-----------------------------------------------------------------------------
(* A request arrives.  The id of an order leaves the service with its      *)
(* charge (the payment key) and with later replies, so a cancel or webhook *)
(* names an order the provider was told of, or an id nobody issued (None). *)

Rejection(b) ==
  CASE b.op = "create"  -> IF b.user = None THEN "unauthorized"
                           ELSE IF b.key = None THEN "bad_request" ELSE "none"
    [] b.op = "cancel"  -> IF b.user = None THEN "unauthorized" ELSE "none"
    [] b.op = "webhook" -> IF b.signed THEN "none" ELSE "unauthorized"

FirstLabel(b) ==
  CASE b.op = "create" -> "identity" [] b.op = "cancel" -> "cancel"
    [] b.op = "webhook" -> "webhook"

Arrive(r) ==
  /\ At(r, "idle")
  /\ \E b \in Input[r], o \in billed \cup {None} :
       /\ b.op = "create" => o = None
       /\ req'    = [req EXCEPT ![r] = b]
       /\ target' = [target EXCEPT ![r] = o]
       /\ reply'  = [reply EXCEPT ![r] = Rejection(b)]
       /\ pc' = [pc EXCEPT ![r] = IF Rejection(b) = "none" THEN FirstLabel(b) ELSE "done"]
  /\ UNCHANGED <<lockVars, stock, idempotency, orderVars, eventVars, payVars>>

-----------------------------------------------------------------------------
(* create_order and _create_order_core.                                    *)

\* quoted_total is one more field a retry may not change.
Fingerprint(b) == <<b.product, b.quantity, b.token>>
\* A mutant: a retry may carry other contents.
AnyContents(b, c) == TRUE
SameContents(b, c) == Fingerprint(b) = Fingerprint(c)

\* _identity_lock: state_lock is free for the instant of the setdefault.
FindIdentityLock(r) ==
  /\ At(r, "identity") /\ stateLock = None
  /\ Goto(r, "acquire")
  /\ UNCHANGED <<lockVars, stock, idempotency, orderVars, eventVars, payVars>>

\* A mutant: every request gets a lock object of its own (M02).
OwnLock(r) == TRUE
IdentityLockFree(r) == idLock[Identity(r)] = None

\* `with _identity_lock(identity)` and the lookup the lock protects.
Acquire(r) ==
  LET i == Identity(r)
      o == idempotency[i]
      Hold(label, order) ==
        /\ idLock' = [idLock EXCEPT ![i] = r]
        /\ pc' = [pc EXCEPT ![r] = label]
        /\ target' = [target EXCEPT ![r] = order]
        /\ UNCHANGED <<req, reply>>
      Refuse(code) == Answer(r, code) /\ UNCHANGED idLock
  IN  /\ At(r, "acquire") /\ IdentityLockFree(r)
      /\ \/ o # None /\ ~SameContents(req[o], req[r]) /\ Refuse("mismatch")
         \/ o # None /\ SameContents(req[o], req[r]) /\ Hold("check_failed", o)
         \/ o = None /\ req[r].product # Product /\ Refuse("not_found")
         \/ o = None /\ req[r].product = Product /\ Hold("reserve", r)
      /\ UNCHANGED <<stateLock, stock, idempotency, orderVars, eventVars, payVars>>

Unlock(r) == idLock' = [idLock EXCEPT ![Identity(r)] = None] /\ UNCHANGED stateLock

\* The two reads of order["status"] of a repeated request, another thread
\* may run between them.
CheckFailed(r) ==
  LET o == target[r] IN
  /\ At(r, "check_failed")
  /\ \/ /\ status[o] = "payment_failed"
        /\ Answer(r, failureStatus[o]) /\ Unlock(r)
     \/ /\ status[o] # "payment_failed"
        /\ Goto(r, "check_pending") /\ UNCHANGED lockVars
  /\ UNCHANGED <<stock, idempotency, orderVars, eventVars, payVars>>

\* A mutant: any order that did not fail is charged again.
ChargeAgain(r) ==
  /\ At(r, "check_pending") /\ Goto(r, "charge")
  /\ UNCHANGED <<lockVars, stock, idempotency, orderVars, eventVars, payVars>>
CheckPending(r) ==
  LET o == target[r] IN
  /\ At(r, "check_pending")
  /\ \/ status[o] # "payment_pending" /\ Answer(r, "created") /\ Unlock(r)
     \/ status[o] = "payment_pending" /\ Goto(r, "charge") /\ UNCHANGED lockVars
  /\ UNCHANGED <<stock, idempotency, orderVars, eventVars, payVars>>

\* A mutant: the check lets the stock go one below what is there.
OversellOne(q) == stock + 1 >= q
InStock(q) == stock >= q

Reserve(r) ==
  /\ At(r, "reserve")
  /\ \/ /\ InStock(req[r].quantity)
        /\ stock' = stock - req[r].quantity
        /\ Goto(r, "publish") /\ UNCHANGED lockVars
     \/ /\ ~InStock(req[r].quantity)
        /\ Answer(r, "out_of_stock") /\ Unlock(r) /\ UNCHANGED stock
  /\ UNCHANGED <<idempotency, orderVars, eventVars, payVars>>

\* STATE.orders and STATE.idempotency; nobody outside knows the id before
\* the charge, and the identity lock protects the second map.
Publish(r) ==
  /\ At(r, "publish")
  /\ orders' = orders \cup {r}
  /\ idempotency' = [idempotency EXCEPT ![Identity(r)] = r]
  /\ Goto(r, "charge")
  /\ UNCHANGED <<lockVars, stock, status, failureStatus, released, chargeId, eventVars, payVars>>

\* PaymentStub.charge.  A key is in timeout_keys only if it has a charge, and
\* a charged key returns first: a timeout happens exactly once.
Charge(r) ==
  LET o == target[r]
      new == o \notin charges
      token == req[o].token
  IN  /\ At(r, "charge")
      /\ billed' = billed \cup {o}
      /\ charges' = IF new /\ token = "decline" THEN charges ELSE charges \cup {o}
      /\ \/ new /\ token = "decline" /\ Goto(r, "decline_status") /\ UNCHANGED lockVars
         \/ new /\ token = "timeout-once" /\ Answer(r, "timeout") /\ Unlock(r)
         \/ (new => token = "approved") /\ Goto(r, "set_charge") /\ UNCHANGED lockVars
      /\ UNCHANGED <<stock, idempotency, orderVars, eventVars>>

SetStatus(o, s) ==
  /\ status' = [status EXCEPT ![o] = s]
  /\ UNCHANGED <<orders, failureStatus, released, chargeId>>

\* _release_inventory_once.  Mutants: no look at the flag (M09); the flag is
\* not set.
ReleaseAlways(o) ==
  /\ stock' = stock + req[o].quantity
  /\ released' = [released EXCEPT ![o] = TRUE]
  /\ UNCHANGED <<orders, status, failureStatus, chargeId>>
ReleaseUnmarked(o) ==
  stock' = stock + req[o].quantity /\ UNCHANGED orderVars
ReleaseOnce(o) ==
  /\ stock' = IF released[o] THEN stock ELSE stock + req[o].quantity
  /\ released' = [released EXCEPT ![o] = TRUE]
  /\ UNCHANGED <<orders, status, failureStatus, chargeId>>

\* A mutant: the decline is not recorded in failure_status.
DeclineUncoded(r) ==
  /\ At(r, "decline_status") /\ Goto(r, "decline_release")
  /\ SetStatus(target[r], "payment_failed")
  /\ UNCHANGED <<lockVars, stock, idempotency, eventVars, payVars>>
DeclineStatus(r) ==
  /\ At(r, "decline_status") /\ Goto(r, "decline_code")
  /\ SetStatus(target[r], "payment_failed")
  /\ UNCHANGED <<lockVars, stock, idempotency, eventVars, payVars>>

RecordDecline(r, from, to) ==
  /\ At(r, from) /\ Goto(r, to)
  /\ failureStatus' = [failureStatus EXCEPT ![target[r]] = "declined"]
  /\ UNCHANGED <<lockVars, stock, idempotency, orders, status, released, chargeId, eventVars, payVars>>

DeclineCode(r) == RecordDecline(r, "decline_code", "decline_release")

\* Mutants: the decline path leaves the stock reserved (M07); it leaves the
\* identity lock held.
DeclineKeeps(r) ==
  /\ At(r, "decline_release") /\ Answer(r, "declined") /\ Unlock(r)
  /\ UNCHANGED <<stock, idempotency, orderVars, eventVars, payVars>>
DeclineLocked(r) ==
  /\ At(r, "decline_release") /\ Answer(r, "declined") /\ ReleaseOnce(target[r])
  /\ UNCHANGED <<lockVars, idempotency, eventVars, payVars>>
DeclineRelease(r) ==
  /\ At(r, "decline_release") /\ Answer(r, "declined") /\ Unlock(r)
  /\ ReleaseOnce(target[r])
  /\ UNCHANGED <<idempotency, eventVars, payVars>>

\* A mutant: the charge is not linked to the order.
SkipChargeId(r) ==
  /\ At(r, "set_charge") /\ Goto(r, "set_paid")
  /\ UNCHANGED <<lockVars, stock, idempotency, orderVars, eventVars, payVars>>
SetCharge(r) ==
  LET o == target[r] IN
  /\ At(r, "set_charge") /\ Goto(r, "set_paid")
  /\ chargeId' = [chargeId EXCEPT ![o] = o]
  /\ UNCHANGED <<lockVars, stock, idempotency, orders, status, failureStatus, released, eventVars, payVars>>

\* Neither state_lock nor a second look at the status.
SetPaid(r) ==
  /\ At(r, "set_paid") /\ Answer(r, "created") /\ Unlock(r)
  /\ SetStatus(target[r], "paid")
  /\ UNCHANGED <<stock, idempotency, eventVars, payVars>>

CreateStep(r) ==
  \/ FindIdentityLock(r) \/ Acquire(r) \/ CheckFailed(r) \/ CheckPending(r)
  \/ Reserve(r) \/ Publish(r) \/ Charge(r) \/ DeclineStatus(r) \/ DeclineCode(r)
  \/ DeclineRelease(r) \/ SetCharge(r) \/ SetPaid(r)

-----------------------------------------------------------------------------
(* cancel_order, under state_lock.  Only holders of state_lock set the     *)
(* status to cancelled, so the two reads of the status act as one.         *)

LockState(r, label) == stateLock' = r /\ Goto(r, label) /\ UNCHANGED idLock
UnlockState == stateLock' = None /\ UNCHANGED idLock

MayCancel(r) == req[r].user \in {Admin, req[target[r]].user}

Cancel(r) ==
  LET o == target[r]
      found == o \in orders
      Return(code) == Answer(r, code) /\ UNCHANGED lockVars
  IN  /\ At(r, "cancel") /\ stateLock = None
      /\ \/ ~found /\ Return("not_found")
         \/ found /\ ~MayCancel(r) /\ Return("forbidden")
         \/ found /\ MayCancel(r) /\ status[o] = "cancelled" /\ Return("cancelled")
         \/ /\ found /\ MayCancel(r)
            /\ status[o] \in {"payment_pending", "payment_failed"} /\ Return("not_paid")
         \/ found /\ MayCancel(r) /\ status[o] = "paid" /\ LockState(r, "cancel_write")
      /\ UNCHANGED <<stock, idempotency, orderVars, eventVars, payVars>>

CancelWrite(r) ==
  /\ At(r, "cancel_write") /\ Goto(r, "cancel_release")
  /\ SetStatus(target[r], "cancelled")
  /\ UNCHANGED <<lockVars, stock, idempotency, eventVars, payVars>>

CancelRelease(r) ==
  /\ At(r, "cancel_release") /\ Answer(r, "cancelled") /\ UnlockState
  /\ ReleaseOnce(target[r])
  /\ UNCHANGED <<idempotency, eventVars, payVars>>

CancelStep(r) == Cancel(r) \/ CancelWrite(r) \/ CancelRelease(r)

-----------------------------------------------------------------------------
(* payment_webhook, under state_lock after the signature check.            *)

Webhook(r) ==
  LET o == target[r]
      Return(code) == Answer(r, code) /\ UNCHANGED lockVars
      seen == req[r].event \in processedEvents
  IN  /\ At(r, "webhook") /\ stateLock = None
      /\ \/ seen /\ Return("duplicate")
         \/ ~seen /\ o \notin orders /\ Return("not_found")
         \/ /\ ~seen /\ o \in orders /\ status[o] = "payment_pending"
            /\ LockState(r, IF req[r].type = "payment.succeeded"
                            THEN "webhook_paid" ELSE "webhook_failed")
         \/ /\ ~seen /\ o \in orders /\ status[o] # "payment_pending"
            /\ LockState(r, "webhook_mark")
      /\ UNCHANGED <<stock, idempotency, orderVars, eventVars, payVars>>

WebhookStatus(r, from, s, to) ==
  /\ At(r, from) /\ Goto(r, to) /\ SetStatus(target[r], s)
  /\ UNCHANGED <<lockVars, stock, idempotency, eventVars, payVars>>

WebhookPaid(r)   == WebhookStatus(r, "webhook_paid", "paid", "webhook_charge")
WebhookFailed(r) == WebhookStatus(r, "webhook_failed", "payment_failed", "webhook_code")
WebhookCode(r)   == RecordDecline(r, "webhook_code", "webhook_release")

\* Reads STATE.payment.charges without payment.lock.
WebhookCharge(r) ==
  LET o == target[r] IN
  /\ At(r, "webhook_charge") /\ Goto(r, "webhook_mark")
  /\ chargeId' = [chargeId EXCEPT ![o] = IF o \in charges THEN o ELSE @]
  /\ UNCHANGED <<lockVars, stock, idempotency, orders, status, failureStatus, released, eventVars, payVars>>

WebhookRelease(r) ==
  /\ At(r, "webhook_release") /\ Goto(r, "webhook_mark")
  /\ ReleaseOnce(target[r])
  /\ UNCHANGED <<lockVars, idempotency, eventVars, payVars>>

\* A mutant: the event is counted and never remembered (M05).
ForgetEvent(e) == processedEvents
RememberEvent(e) == processedEvents \cup {e}

WebhookMark(r) ==
  /\ At(r, "webhook_mark") /\ Answer(r, "processed") /\ UnlockState
  /\ webhookEffects' = [webhookEffects EXCEPT ![req[r].event] = @ + 1]
  /\ processedEvents' = RememberEvent(req[r].event)
  /\ UNCHANGED <<stock, idempotency, orderVars, payVars>>

WebhookStep(r) ==
  \/ Webhook(r) \/ WebhookPaid(r) \/ WebhookCharge(r) \/ WebhookFailed(r)
  \/ WebhookCode(r) \/ WebhookRelease(r) \/ WebhookMark(r)

-----------------------------------------------------------------------------
InFlight(r) == pc[r] \notin {"idle", "done"}
Quiescent   == \A r \in Requests : ~InFlight(r)

(* reset_state: the tests call it between requests.  What a finished       *)
(* request was answered belongs to the run that ended.                     *)
ResetState ==
  /\ Quiescent
  /\ stock' = InitialStock
  /\ idempotency' = [i \in Identities |-> None]
  /\ orders' = {} /\ charges' = {} /\ billed' = {} /\ processedEvents' = {}
  /\ status' = [o \in Requests |-> "payment_pending"]
  /\ failureStatus' = [o \in Requests |-> "none"]
  /\ released' = [o \in Requests |-> FALSE]
  /\ chargeId' = [o \in Requests |-> None]
  /\ webhookEffects' = [e \in Events |-> 0]
  /\ req'    = [r \in Requests |-> None]
  /\ target' = [r \in Requests |-> None]
  /\ reply'  = [r \in Requests |-> "none"]
  /\ UNCHANGED <<pc, lockVars>>

Step(r) == CreateStep(r) \/ CancelStep(r) \/ WebhookStep(r)
Next == ResetState \/ \E r \in Requests : Arrive(r) \/ Step(r)

(* The operating system runs every thread that can run.  Nobody is obliged *)
(* to send a request or to reset the service.                              *)
Spec == Init /\ [][Next]_vars /\ \A r \in Requests : WF_vars(Step(r))

-----------------------------------------------------------------------------
(* Properties.                                                             *)

(* Every variable holds what the program may store in it.                  *)
TypeOK ==
  /\ pc \in [Requests -> Labels]
  /\ req \in [Requests -> RequestBodies \cup {None}]
  /\ target \in [Requests -> Requests \cup {None}]
  /\ reply \in [Requests -> Replies]
  /\ stateLock \in Requests \cup {None}
  /\ idLock \in [Identities -> Requests \cup {None}]
  /\ stock \in Nat
  /\ idempotency \in [Identities -> Requests \cup {None}]
  /\ orders \subseteq Requests
  /\ status \in [Requests -> Statuses]
  /\ failureStatus \in [Requests -> {"none", "declined"}]
  /\ released \in [Requests -> BOOLEAN]
  /\ chargeId \in [Requests -> Requests \cup {None}]
  /\ processedEvents \subseteq Events
  /\ webhookEffects \in [Events -> Nat]
  /\ charges \subseteq Requests /\ billed \subseteq Requests

(* The stock in the store and the units held for orders, or by a request   *)
(* between its reservation and the order it publishes, are together the    *)
(* initial stock: no interleaving of reservations, declines, webhooks and  *)
(* cancellations loses a unit or restores one twice.                       *)
Reserved(o) == pc[o] = "publish" \/ (o \in orders /\ ~released[o])
HeldUnits ==
  {u \in Requests \X (1..MaxQuantity) : Reserved(u[1]) /\ u[2] <= req[u[1]].quantity}
StockConserved == stock + Cardinality(HeldUnits) = InitialStock

(* One user and key own one order and one charge, whatever the retries.    *)
OneCheckoutPerIdentity ==
  /\ \A o, p \in orders : Identity(o) = Identity(p) => o = p
  /\ charges \subseteq orders

(* Answers given to the retries of one checkout name the same order.       *)
Answered(r) == pc[r] = "done" /\ req[r] # None
RetriesAgree ==
  \A r, s \in Requests :
     /\ Answered(r) /\ reply[r] \in {"created", "timeout", "declined"}
     /\ Answered(s) /\ reply[s] \in {"created", "timeout", "declined"}
     /\ Identity(r) = Identity(s)
     => /\ target[r] = target[s]
        /\ req[r].quantity = req[s].quantity /\ req[r].token = req[s].token

(* An event takes effect at most once, exactly when one delivery of it was *)
(* answered "processed"; a delivery for a missing order, or one with a bad *)
(* signature, leaves the event to be delivered again.                      *)
Deliveries(e, code) ==
  {r \in Requests : /\ Answered(r) /\ req[r].op = "webhook"
                    /\ req[r].event = e /\ reply[r] = code}
EventsTakeEffectOnce ==
  \A e \in Events :
     /\ webhookEffects[e] = Cardinality(Deliveries(e, "processed"))
     /\ webhookEffects[e] <= 1
     /\ (e \in processedEvents) <=> (webhookEffects[e] = 1)
     /\ Deliveries(e, "duplicate") # {} => e \in processedEvents

(* Once no handler works on it, a failed or cancelled order holds no stock. *)
Idle(o) == \A r \in Requests : InFlight(r) => target[r] # o
DeadOrdersHoldNothing ==
  \A o \in orders :
     Idle(o) /\ status[o] \in {"payment_failed", "cancelled"} => released[o]

(* Every answer to a create carries a status code: the failure_status that *)
(* a repeated request reads has been written.                              *)
AnswersCarryCode == \A r \in Requests : Answered(r) => reply[r] # "none"

(* A paid order holds its units and is linked to its charge.               *)
PaidOrdersAreBacked ==
  \A o \in orders :
     status[o] = "paid" => ~released[o] /\ o \in charges /\ chargeId[o] = o

(* The payment state machine: an order leaves payment_pending once, and a  *)
(* paid order can only be cancelled.                                       *)
StatusAdvances ==
  [][\A o \in orders \cap orders' :
        status'[o] # status[o] =>
          <<status[o], status'[o]>> \in
             {<<"payment_pending", "paid">>, <<"payment_pending", "payment_failed">>,
              <<"paid", "cancelled">>}]_vars

(* Successful purchased quantity never exceeds the initial stock (M01).    *)
PaidUnits ==
  {u \in orders \X (1..MaxQuantity) :
     status[u[1]] = "paid" /\ u[2] <= req[u[1]].quantity}
NoOversell == Cardinality(PaidUnits) <= InitialStock

(* Nobody waits in a circle: whoever holds a lock is at work and waits for  *)
(* none, and no answered request keeps one.  create_order takes state_lock  *)
(* only before its identity lock and gives it back at once.                 *)
Waits(r) ==
  \/ pc[r] \in {"identity", "cancel", "webhook"} /\ stateLock # None
  \/ pc[r] = "acquire" /\ ~IdentityLockFree(r)
HoldersRun ==
  \A r \in Requests : r = stateLock \/ (\E i \in Identities : idLock[i] = r) =>
    InFlight(r) /\ ~Waits(r)

(* Every request that arrives is answered: no handler waits for ever for a *)
(* lock another holds.                                                     *)
EveryRequestAnswered == \A r \in Requests : InFlight(r) ~> ~InFlight(r)
-----------------------------------------------------------------------------
(* FlashCart implements InventoryLedger: the units an order holds are the   *)
(* quantity of its request while they are reserved.                        *)
UnitsHeld == [o \in Requests |-> IF Reserved(o) THEN req[o].quantity ELSE 0]
Restored  == {o \in Requests : released[o]}
Ledger == INSTANCE InventoryLedger
            WITH Orders <- Requests, held <- UnitsHeld, closed <- Restored
LedgerSpec == Ledger!LedgerSpec

-----------------------------------------------------------------------------
(* The inductive invariant the proofs of FlashCartProofs rest on.          *)

CorePC  == CreatePC \ {"identity", "acquire"}
OrderPC == CorePC \ {"reserve", "publish"}
StatePC == (CancelPC \ {"cancel"}) \cup (WebhookPC \ {"webhook"})

(* A handler at a label runs the request the label belongs to.             *)
ContentsInv ==
  \A r \in Requests :
     /\ pc[r] \in CreatePC => req[r] \in CreateReq /\ Identity(r) \in Identities
     /\ pc[r] \in CancelPC => req[r] \in CancelReq
     /\ pc[r] \in WebhookPC => req[r] \in WebhookReq

(* A lock is held by exactly the handler inside its critical section.      *)
LockInv ==
  /\ \A r \in Requests :
       /\ pc[r] \in CorePC => idLock[Identity(r)] = r
       /\ pc[r] \in StatePC <=> stateLock = r
  /\ \A i \in Identities, r \in Requests :
       idLock[i] = r => pc[r] \in CorePC /\ Identity(r) = i

(* The idempotency map names, for each identity, its one order.            *)
OrderInv ==
  /\ \A o \in orders :
       /\ pc[o] \in OrderPC \cup {"done"}
       /\ req[o] \in CreateReq /\ Identity(o) \in Identities
       /\ idempotency[Identity(o)] = o
  /\ \A i \in Identities, o \in Requests :
       idempotency[i] = o => o \in orders /\ Identity(o) = i
  /\ \A o \in Requests : released[o] => o \in orders
  /\ billed \subseteq orders /\ charges \subseteq orders

(* The order a handler works on.                                           *)
TargetInv ==
  \A r \in Requests :
     /\ pc[r] \in {"reserve", "publish"} =>
          target[r] = r /\ r \notin orders /\ idempotency[Identity(r)] = None
     /\ pc[r] \in OrderPC \cup StatePC => target[r] \in orders
     /\ pc[r] \in OrderPC =>
          \A o \in orders : target[r] = o =>
             Identity(o) = Identity(r) /\ SameContents(req[o], req[r])

CheckoutInv ==
  /\ TypeOK /\ ContentsInv /\ LockInv /\ OrderInv /\ TargetInv /\ StockConserved
=============================================================================
