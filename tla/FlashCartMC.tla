---------------------------- MODULE FlashCartMC ----------------------------
(* Instances of FlashCart for TLC: which requests arrive in each run.      *)
EXTENDS FlashCart

CONSTANTS r1, r2, r3, r4, r5, buyer, k1, k2, e1, e2, p1

Order(k, q, tokens) ==
  [op : {"create"}, user : {buyer}, key : {k}, product : {p1}, quantity : {q}, token : tokens]
Cancels(users) == [op : {"cancel"}, user : users]
Deliver(events, types) ==
  [op : {"webhook"}, signed : {TRUE}, event : events, type : types]

(* A checkout and its retry, one with other contents, a rival order, a     *)
(* cancellation: no webhook.                                               *)
CheckoutInput ==
  [r \in Requests |->
     CASE r = r1 -> Order(k1, 2, Tokens)
       [] r = r2 -> Order(k1, 2, Tokens) \cup Order(k1, 1, {"approved"})
       [] r = r3 -> Order(k2, 1, {"approved", "decline"})
                    \cup [op : {"create"}, user : {buyer, None}, key : {k2, None},
                          product : {OtherProduct}, quantity : {1}, token : {"approved"}]
       [] r = r4 -> Cancels({buyer, Admin, None})
       [] r = r5 -> Cancels({buyer})]

(* A checkout and its retry while the provider delivers two events, one of *)
(* them perhaps twice, and the buyer cancels.                              *)
WebhookInput ==
  [r \in Requests |->
     CASE r = r1 -> Order(k1, 2, Tokens)
       [] r = r2 -> Order(k1, 2, {"approved", "timeout-once"})
       [] r = r3 -> Deliver({e1}, EventTypes)
                    \cup [op : {"webhook"}, signed : {FALSE}, event : {e1}, type : EventTypes]
       [] r = r4 -> Deliver({e1, e2}, EventTypes)
       [] r = r5 -> Cancels({buyer})]

(* The retry of a timed-out checkout meets the late confirmation of its    *)
(* payment and a cancellation, and another buyer wants the last units.     *)
OversellInput ==
  [r \in Requests |->
     CASE r \in {r1, r2} -> Order(k1, 2, {"timeout-once"})
       [] r = r3 -> Deliver({e1}, {"payment.succeeded"})
       [] r = r4 -> Cancels({buyer})
       [] r = r5 -> Order(k2, 2, {"approved"})]
(* One request of every kind, waiting for the same locks and the same      *)
(* order.                                                                  *)
ProgressInput ==
  [r \in Requests |->
     CASE r = r1 -> Order(k1, 1, {"approved", "decline"})
       [] r = r2 -> Order(k1, 1, {"approved"})
       [] r = r3 -> Deliver({e1}, EventTypes)
       [] r = r4 -> Cancels({buyer})]
=============================================================================
