--------------------------- MODULE ProviderProofs ---------------------------
(* Proofs about one call of generate_json, for every retry limit.          *)
EXTENDS Provider, TLAPS

USE ProviderAssumption

(* More POSTs leave the request ids received so far among them.            *)
LEMMA MoreIds ==
  ASSUME NEW m \in Nat, NEW n \in Nat, m <= n, NEW ids \in Seq(1..m)
  PROVE  ids \in Seq(1..n)
<1>1. 1..m \subseteq 1..n
  OBVIOUS
<1> QED BY <1>1

(* A list of no or one member of a set.                                    *)
LEMMA OneId ==
  ASSUME NEW S, NEW x, x = None \/ x \in S
  PROVE  (IF x = None THEN <<>> ELSE <<x>>) \in Seq(S)
OBVIOUS

(* Accounting c covers the POSTs of the call, u messages besides those of  *)
(* an earlier request, and ids of POSTs up to p.                           *)
ReportsCost(c, u, p) ==
  /\ c \in Accountings
  /\ c.transport = Spent + attempt + 1
  /\ c.usage = Len(Before) + u
  /\ c.semantic = request /\ (c.repair <=> request = 2)
  /\ c.ids \in Seq(1..p)

(* What the call reports when its current request cost attempt + 1 POSTs.  *)
LEMMA Costs ==
  ASSUME CallInv, NEW u \in Nat, NEW p \in Nat, posts <= p,
         NEW resp, resp = None \/ resp \in 1..p
  PROVE  ReportsCost(CallAccounting(Accounting(u, attempt + 1, resp)), u, p)
<1> DEFINE own == Accounting(u, attempt + 1, resp)
           c == CallAccounting(own)
<1>1. own \in Accountings /\ own.ids \in Seq(1..p)
  <2>1. (IF resp = None THEN <<>> ELSE <<resp>>) \in Seq(1..p)
    BY OneId
  <2>2. (IF resp = None THEN <<>> ELSE <<resp>>) \in Seq(Nat)
    BY OneId
  <2> QED BY <2>1, <2>2 DEF Accounting, Accountings, CallInv, TypeOK
<1>2. own.transport = attempt + 1 /\ own.usage = u /\ own.semantic = 1 /\ ~own.repair
  BY DEF Accounting
<1>3. request = 1 => c = own
  BY DEF CallAccounting
<1>4. request = 2 => c = Combine(first.accounting, own)
  BY DEF CallAccounting
<1>5. request \in 1..2 /\ attempt \in Nat
  BY DEF CallInv, TypeOK
<1> HIDE DEF own, c
<1>6. ASSUME request = 1 PROVE ReportsCost(c, u, p)
  <2>1. c = own /\ Spent = 0 /\ Len(Before) = 0
    BY <1>3, <1>6 DEF Spent, Before
  <2> QED BY <1>1, <1>2, <1>5, <1>6, <2>1 DEF ReportsCost, Accountings
<1>7. ASSUME request = 2 PROVE ReportsCost(c, u, p)
  <2> DEFINE f == first.accounting
  <2>1. f \in Accountings /\ f.ids \in Seq(1..posts) /\ f.usage = 1
    BY <1>7 DEF CallInv, TrafficInv
  <2>2. f.ids \in Seq(1..p)
    BY <2>1, MoreIds DEF CallInv, TypeOK
  <2>3. f.ids \o own.ids \in Seq(1..p)
    BY <2>2, <1>1
  <2>4. f.ids \o own.ids \in Seq(Nat)
    BY <2>1, <1>1 DEF Accountings
  <2>5. Len(Before) = 1 /\ Spent = f.transport
    BY <1>7 DEF Before, Spent
  <2> HIDE DEF f
  <2>6. c = [usage |-> f.usage + own.usage, semantic |-> 2,
             transport |-> f.transport + own.transport, repair |-> TRUE,
             ids |-> f.ids \o own.ids]
    BY <1>4, <1>7 DEF Combine, f
  <2>7. /\ f.usage \in Nat /\ own.usage \in Nat /\ f.transport \in Nat /\ own.transport \in Nat
    BY <1>1, <2>1 DEF Accountings
  <2>8. c \in Accountings
    <3>1. \A a \in Nat, b \in Nat, s \in Seq(Nat) :
            [usage |-> a, semantic |-> 2, transport |-> b, repair |-> TRUE, ids |-> s] \in Accountings
      BY DEF Accountings
    <3>2. f.usage + own.usage \in Nat /\ f.transport + own.transport \in Nat
      BY <2>7
    <3> QED BY <2>4, <2>6, <3>1, <3>2
  <2>9. c.transport = f.transport + own.transport
    BY <2>6
  <2>13. c.transport = Spent + attempt + 1
    BY <1>2, <1>5, <2>5, <2>7, <2>9
  <2>10. c.usage = Len(Before) + u
    BY <1>2, <2>1, <2>5, <2>6
  <2>11. c.semantic = request /\ (c.repair <=> request = 2) /\ c.ids \in Seq(1..p)
    BY <1>7, <2>3, <2>6
  <2> QED BY <2>8, <2>13, <2>10, <2>11 DEF ReportsCost
<1>8. ReportsCost(c, u, p)
  BY <1>5, <1>6, <1>7
<1> QED BY <1>8 DEF c, own

(* The call starts in the invariant.                                       *)
LEMMA InitInv == Init => CallInv
<1> SUFFICES ASSUME Init PROVE CallInv
  OBVIOUS
<1>1. TypeOK
  BY DEF Init, TypeOK
<1>2. TrafficInv
  BY DEF Init, TrafficInv, Spent, Before, PostsBounded, AccountingMatchesTraffic, EvidenceKeepsAnswers
<1> QED BY <1>1, <1>2 DEF CallInv

(* An exception of _request accounts for every POST of the call.           *)
LEMMA RaiseStep ==
  ASSUME CallInv, pc = "post", posts' = posts + 1, NEW kind \in Kinds,
         NEW resp, resp = None \/ resp \in 1..posts',
         Raise(kind, resp)
  PROVE  CallInv'
<1> DEFINE c == CallAccounting(Accounting(0, attempt + 1, resp))
<1>1. /\ posts \in Nat /\ posts' \in Nat /\ attempt \in 0..MaxRetries
      /\ request \in 1..2 /\ posts = Spent + attempt /\ received = Before
      /\ (request = 2 => first \in [content : Contents, accounting : Accountings])
  BY DEF CallInv, TypeOK, TrafficInv
<1>2. /\ c \in Accountings /\ c.transport = posts' /\ c.usage = Len(Before) + 0
      /\ c.semantic = request /\ (c.repair <=> request = 2) /\ c.ids \in Seq(1..posts')
  <2>1. posts <= posts' /\ 0 \in Nat /\ (resp = None \/ resp \in 1..posts')
    BY <1>1
  <2>2. ReportsCost(c, 0, posts')
    BY <1>1, <2>1, Costs
  <2> HIDE DEF c
  <2> QED BY <1>1, <2>2 DEF ReportsCost
<1>3. result' = [kind |-> kind, accounting |-> c, responses |-> Before] /\ pc' = "done"
  BY <1>1 DEF Raise, End, Before
<1>4. Before \in Seq(Contents)
  BY <1>1 DEF Before
<1>5. /\ response' = resp /\ UNCHANGED <<request, attempt, answer, first, received>>
  BY DEF Raise
<1>6. TypeOK'
  BY <1>1, <1>2, <1>3, <1>4, <1>5 DEF CallInv, TypeOK, Kinds
<1>7. AccountingMatchesTraffic' /\ EvidenceKeepsAnswers'
  BY <1>1, <1>2, <1>3, <1>4, <1>5 DEF AccountingMatchesTraffic, EvidenceKeepsAnswers
<1>8. PostsBounded'
  BY <1>1 DEF CallInv, TrafficInv, PostsBounded, Spent, Accountings
<1>9. request' = 2 => first'.accounting.ids \in Seq(1..posts')
  BY <1>1, <1>5, MoreIds DEF CallInv, TrafficInv
<1> QED BY <1>1, <1>3, <1>5, <1>6, <1>7, <1>8, <1>9 DEF CallInv, TrafficInv

(* A retry is one POST of the request it belongs to.                       *)
LEMMA RetryStep ==
  ASSUME CallInv, pc = "post", posts' = posts + 1, attempt # MaxRetries,
         NEW resp, resp = None \/ resp \in 1..posts', NEW delay, Retry(delay, resp)
  PROVE  CallInv'
<1>1. /\ posts \in Nat /\ attempt \in 0..MaxRetries /\ request \in 1..2
      /\ posts = Spent + attempt /\ received = Before
  BY DEF CallInv, TypeOK, TrafficInv
<1>2. /\ attempt' = attempt + 1 /\ response' = resp
      /\ UNCHANGED <<pc, request, answer, first, result, received>>
  BY DEF Retry
<1>3. TypeOK'
  BY <1>1, <1>2 DEF CallInv, TypeOK
<1>4. request' = 2 => first'.accounting.ids \in Seq(1..posts')
  BY <1>1, <1>2, MoreIds DEF CallInv, TrafficInv
<1>5. PostsBounded'
  BY <1>1 DEF CallInv, TrafficInv, PostsBounded, Spent, Accountings
<1>6. AccountingMatchesTraffic' /\ EvidenceKeepsAnswers'
  BY <1>2 DEF AccountingMatchesTraffic, EvidenceKeepsAnswers
<1>7. posts' = Spent' + attempt' /\ received' = Before'
  BY <1>1, <1>2 DEF Spent, Before, CallInv, TrafficInv, Accountings
<1> QED BY <1>2, <1>3, <1>4, <1>5, <1>6, <1>7 DEF CallInv, TrafficInv

(* A message is one unit of usage and the evidence of its request.         *)
LEMMA AnswerStep == CallInv /\ Answers => CallInv'
<1> SUFFICES ASSUME CallInv, Answers PROVE CallInv'
  OBVIOUS
<1>1. /\ posts \in Nat /\ attempt \in 0..MaxRetries /\ request \in 1..2
      /\ posts = Spent + attempt /\ received = Before /\ received \in Seq(Contents)
  BY DEF CallInv, TypeOK, TrafficInv, Answers, Posted
<1>2. /\ posts' = posts + 1 /\ pc' = "validate" /\ response' = posts + 1
      /\ answer' \in [content : Contents, length : BOOLEAN]
      /\ received' = Append(received, answer'.content)
      /\ UNCHANGED <<request, attempt, first, result>>
  BY DEF Answers, Posted
<1>3. TypeOK'
  BY <1>1, <1>2 DEF CallInv, TypeOK
<1>4. request' = 2 => first'.accounting.ids \in Seq(1..posts')
  BY <1>1, <1>2, MoreIds DEF CallInv, TrafficInv
<1>5. PostsBounded'
  BY <1>1, <1>2 DEF CallInv, TrafficInv, PostsBounded, Spent, Accountings
<1>6. AccountingMatchesTraffic' /\ EvidenceKeepsAnswers'
  BY <1>2 DEF AccountingMatchesTraffic, EvidenceKeepsAnswers
<1>7. posts' = Spent' + attempt' + 1 /\ received' = Append(Before', answer'.content)
  BY <1>1, <1>2 DEF Spent, Before, CallInv, TrafficInv, Accountings
<1> QED BY <1>1, <1>2, <1>3, <1>4, <1>5, <1>6, <1>7 DEF CallInv, TrafficInv

(* A validated answer ends the call with the cost of all its POSTs.        *)
LEMMA EndStep ==
  ASSUME CallInv, pc = "validate", Unvalidated, NEW kind \in Kinds,
         NEW responses \in Seq(Contents),
         End(kind, CallAccounting(OwnAccounting), responses),
         kind = "response" => responses = received
  PROVE  CallInv'
<1> DEFINE c == CallAccounting(OwnAccounting)
<1>1. /\ posts \in Nat /\ attempt \in 0..MaxRetries /\ request \in 1..2
      /\ posts = Spent + attempt + 1 /\ received = Append(Before, answer.content)
      /\ response = None \/ response \in 1..posts
      /\ (request = 2 => first \in [content : Contents, accounting : Accountings])
      /\ answer \in [content : Contents, length : BOOLEAN]
  BY DEF CallInv, TypeOK, TrafficInv
<1>2. Before \in Seq(Contents)
  BY <1>1 DEF Before
<1>3. /\ c \in Accountings /\ c.transport = posts /\ c.usage = Len(Before) + 1
      /\ c.semantic = request /\ (c.repair <=> request = 2) /\ c.ids \in Seq(1..posts)
  <2>1. ReportsCost(CallAccounting(Accounting(1, attempt + 1, response)), 1, posts)
    BY <1>1, Costs
  <2>2. ReportsCost(c, 1, posts)
    BY <2>1 DEF OwnAccounting
  <2> HIDE DEF c
  <2> QED BY <1>1, <2>2 DEF ReportsCost
<1>4. Len(received) = Len(Before) + 1
  BY <1>1, <1>2
<1>5. /\ result' = [kind |-> kind, accounting |-> c, responses |-> responses] /\ pc' = "done"
      /\ UNCHANGED <<request, attempt, response, answer, first, posts, received>>
  BY DEF End, Unvalidated
<1>6. TypeOK'
  BY <1>1, <1>3, <1>5 DEF CallInv, TypeOK
<1>7. AccountingMatchesTraffic' /\ EvidenceKeepsAnswers'
  BY <1>3, <1>4, <1>5 DEF AccountingMatchesTraffic, EvidenceKeepsAnswers
<1>8. PostsBounded'
  BY <1>5 DEF CallInv, TrafficInv, PostsBounded
<1> QED BY <1>5, <1>6, <1>7, <1>8 DEF CallInv, TrafficInv

(* The repair carries the cost of the first request with it.               *)
LEMMA RepairStep == CallInv /\ Repair => CallInv'
<1> SUFFICES ASSUME CallInv, Repair PROVE CallInv'
  OBVIOUS
<1>1. /\ posts \in Nat /\ attempt \in 0..MaxRetries /\ request = 1
      /\ posts = attempt + 1 /\ received = <<answer.content>>
      /\ response = None \/ response \in 1..posts
      /\ answer \in [content : Contents, length : BOOLEAN]
  BY DEF CallInv, TypeOK, TrafficInv, Repair, CanRepair, Spent, Before
<1>2. /\ OwnAccounting \in Accountings /\ OwnAccounting.usage = 1
      /\ OwnAccounting.transport = attempt + 1 /\ OwnAccounting.ids \in Seq(1..posts)
  <2>1. (IF response = None THEN <<>> ELSE <<response>>) \in Seq(1..posts)
    BY <1>1, OneId
  <2>2. (IF response = None THEN <<>> ELSE <<response>>) \in Seq(Nat)
    BY <1>1, OneId
  <2> QED BY <1>1, <2>1, <2>2 DEF OwnAccounting, Accounting, Accountings
<1>3. /\ first' = [content |-> answer.content, accounting |-> OwnAccounting]
      /\ request' = 2 /\ attempt' = 0 /\ response' = None /\ answer' = None /\ pc' = "post"
      /\ UNCHANGED <<result, posts, received>>
  BY DEF Repair
<1>4. first' \in [content : Contents, accounting : Accountings]
  BY <1>1, <1>2, <1>3
<1>5. TypeOK'
  BY <1>1, <1>3, <1>4 DEF CallInv, TypeOK
<1>6. posts' = Spent' + attempt' /\ received' = Before'
  BY <1>1, <1>2, <1>3 DEF Spent, Before
<1>7. PostsBounded' /\ AccountingMatchesTraffic' /\ EvidenceKeepsAnswers'
  BY <1>3 DEF CallInv, TrafficInv, PostsBounded, AccountingMatchesTraffic, EvidenceKeepsAnswers
<1> QED BY <1>1, <1>2, <1>3, <1>4, <1>5, <1>6, <1>7 DEF CallInv, TrafficInv

(* Every step of the call keeps the invariant.                             *)
LEMMA StepInv == CallInv /\ [Next]_vars => CallInv'
<1> SUFFICES ASSUME CallInv, [Next]_vars PROVE CallInv'
  OBVIOUS
<1>0. posts \in Nat /\ (response # None => response \in 1..posts)
  BY DEF CallInv, TypeOK, TrafficInv
<1>1. CASE TimesOut
  <2>1. posts' = posts + 1 /\ pc = "post" /\ (response = None \/ response \in 1..posts')
    BY <1>0, <1>1 DEF TimesOut, Posted
  <2>2. CASE Raise("timeout", response)
    BY <2>1, <2>2, RaiseStep DEF Kinds
  <2>3. CASE ~LastAttempt /\ Retry(ExponentialBackoff, response)
    BY <2>1, <2>3, RetryStep DEF LastAttempt
  <2> QED BY <1>1, <2>2, <2>3 DEF TimesOut
<1>2. CASE TransportFails
  <2>1. posts' = posts + 1 /\ pc = "post" /\ (response = None \/ response \in 1..posts')
    BY <1>0, <1>2 DEF TransportFails, Posted
  <2> QED BY <1>2, <2>1, RaiseStep DEF TransportFails, Kinds
<1>3. CASE Unauthorized
  <2>1. posts' = posts + 1 /\ pc = "post" /\ posts + 1 \in 1..posts'
    BY <1>0, <1>3 DEF Unauthorized, Posted
  <2> QED BY <1>3, <2>1, RaiseStep DEF Unauthorized, Kinds
<1>4. CASE ClientError
  <2>1. posts' = posts + 1 /\ pc = "post" /\ posts + 1 \in 1..posts'
    BY <1>0, <1>4 DEF ClientError, Posted
  <2> QED BY <1>4, <2>1, RaiseStep DEF ClientError, Kinds
<1>5. CASE RateLimited
  <2>1. posts' = posts + 1 /\ pc = "post" /\ posts + 1 \in 1..posts'
    BY <1>0, <1>5 DEF RateLimited, Posted
  <2>2. PICK hard \in BOOLEAN, after \in RetryAfters \cup {None} :
          \/ CanRetry(hard, after) /\ Retry(after, posts + 1)
          \/ ~CanRetry(hard, after) /\ Raise("rate_limit", posts + 1)
    BY <1>5 DEF RateLimited
  <2>3. CASE CanRetry(hard, after) /\ Retry(after, posts + 1)
    BY <2>1, <2>3, RetryStep DEF CanRetry, LastAttempt
  <2>4. CASE Raise("rate_limit", posts + 1)
    BY <2>1, <2>4, RaiseStep DEF Kinds
  <2> QED BY <2>2, <2>3, <2>4
<1>6. CASE ServerError
  <2>1. posts' = posts + 1 /\ pc = "post" /\ posts + 1 \in 1..posts'
    BY <1>0, <1>6 DEF ServerError, Posted
  <2>2. CASE \E delay : ~LastAttempt /\ Retry(delay, posts + 1)
    BY <2>1, <2>2, RetryStep DEF LastAttempt
  <2>3. CASE Raise("unavailable", posts + 1)
    BY <2>1, <2>3, RaiseStep DEF Kinds
  <2> QED BY <1>6, <2>2, <2>3 DEF ServerError
<1>7. CASE BadEnvelope
  <2>1. posts' = posts + 1 /\ pc = "post" /\ posts + 1 \in 1..posts'
    BY <1>0, <1>7 DEF BadEnvelope, Posted
  <2> QED BY <1>7, <2>1, RaiseStep DEF BadEnvelope, Kinds
<1>8. CASE Answers
  BY <1>8, AnswerStep
<1>9. CASE Accept
  <2>1. <<>> \in Seq(Contents) /\ "ok" \in Kinds
    BY DEF Kinds
  <2> QED BY <1>9, <2>1, EndStep DEF Accept
<1>10. CASE Crash
  <2>1. /\ pc' = "done" /\ result' = [kind |-> "type_error", accounting |-> None, responses |-> <<>>]
        /\ UNCHANGED <<request, attempt, response, answer, first, posts, received>>
    BY <1>10 DEF Crash, End, Unvalidated
  <2>2. TypeOK'
    BY <2>1 DEF CallInv, TypeOK, Kinds
  <2>3. PostsBounded' /\ AccountingMatchesTraffic' /\ EvidenceKeepsAnswers'
    BY <2>1 DEF CallInv, TrafficInv, PostsBounded, AccountingMatchesTraffic, EvidenceKeepsAnswers
  <2> QED BY <2>1, <2>2, <2>3 DEF CallInv, TrafficInv
<1>11. CASE Repair
  BY <1>11, RepairStep
<1>12. CASE GiveUp
  <2>1. /\ request = 2 /\ received = Append(<<first.content>>, answer.content)
        /\ first \in [content : Contents, accounting : Accountings]
        /\ answer \in [content : Contents, length : BOOLEAN]
    BY <1>12 DEF GiveUp, CanRepair, CallInv, TypeOK, TrafficInv, Before
  <2>2. BothAnswers = received /\ BothAnswers \in Seq(Contents)
    BY <2>1 DEF BothAnswers
  <2> QED BY <1>12, <2>2, EndStep DEF GiveUp, Kinds
<1>13. CASE UNCHANGED vars
  BY <1>13 DEF vars, CallInv, TypeOK, TrafficInv, Spent, Before, PostsBounded,
     AccountingMatchesTraffic, EvidenceKeepsAnswers
<1> QED
  BY <1>1, <1>2, <1>3, <1>4, <1>5, <1>6, <1>7, <1>8, <1>9, <1>10, <1>11, <1>12, <1>13 DEF Next

-----------------------------------------------------------------------------
(* The invariant of the call holds whatever the server answers.            *)
THEOREM CallInvariant == Spec => []CallInv
<1> QED BY InitInv, StepInv, PTL DEF Spec

(* Two requests of at most MaxRetries + 1 POSTs each, for every limit.     *)
THEOREM PostsAreBounded == Spec => []PostsBounded
<1>1. CallInv => PostsBounded
  BY DEF CallInv, TrafficInv
<1> QED BY <1>1, CallInvariant, PTL

(* How far a call has come: its POSTs count, and the validation of an       *)
(* answer.                                                                  *)
Come == 2 * posts + (IF pc = "validate" THEN 0 ELSE 1)
CallGoesOn == Come < Come'

(* Every round of the loop and every validation brings the call further.    *)
LEMMA StepsGoOn == CallInv /\ Next => CallGoesOn
<1> SUFFICES ASSUME CallInv, Next PROVE CallGoesOn
  OBVIOUS
<1>1. posts \in Nat
  BY DEF CallInv, TypeOK
<1>2. CASE pc = "post" /\ posts' = posts + 1
  BY <1>1, <1>2 DEF CallGoesOn, Come
<1>3. CASE pc = "validate" /\ pc' # "validate" /\ posts' = posts
  BY <1>1, <1>3 DEF CallGoesOn, Come
<1>4. CASE TimesOut \/ TransportFails \/ Unauthorized \/ ClientError \/ RateLimited
           \/ ServerError \/ BadEnvelope \/ Answers
  BY <1>2, <1>4 DEF TimesOut, TransportFails, Unauthorized, ClientError, RateLimited, ServerError,
     BadEnvelope, Answers, Posted
<1>5. CASE Accept \/ Crash \/ Repair \/ GiveUp
  BY <1>3, <1>5 DEF Accept, Crash, Repair, GiveUp, End, Unvalidated
<1> QED BY <1>4, <1>5 DEF Next

(* However the server behaves, generate_json comes to its end: each step    *)
(* brings the call further, and there is a last place to come to.           *)
THEOREM CallsAreFinite ==
  Spec => [][CallGoesOn]_vars /\ [](Come <= 4 * (MaxRetries + 1) + 1)
<1>1. CallInv /\ [Next]_vars => [CallGoesOn]_vars
  BY StepsGoOn
<1>2. CallInv => Come <= 4 * (MaxRetries + 1) + 1
  <2> SUFFICES ASSUME CallInv PROVE Come <= 4 * (MaxRetries + 1) + 1
    OBVIOUS
  <2>1. posts \in Nat /\ MaxRetries \in Nat /\ posts <= 2 * (MaxRetries + 1)
    BY ProviderAssumption DEF ProviderAssumption, CallInv, TypeOK, TrafficInv, PostsBounded
  <2> QED BY <2>1 DEF Come
<1> QED BY <1>1, <1>2, CallInvariant, PTL DEF Spec

(* Success or failure, the accounting of the call is what it cost.         *)
THEOREM AccountingIsExact == Spec => []AccountingMatchesTraffic
<1>1. CallInv => AccountingMatchesTraffic
  BY DEF CallInv, TrafficInv
<1> QED BY <1>1, CallInvariant, PTL

(* Every message the call received is evidence of its failure.             *)
THEOREM EvidenceIsComplete == Spec => []EvidenceKeepsAnswers
<1>1. CallInv => EvidenceKeepsAnswers
  BY DEF CallInv, TrafficInv
<1> QED BY <1>1, CallInvariant, PTL
-----------------------------------------------------------------------------
(* The outcome of a call that ends now with result r.                      *)
LEMMA EndOutcome ==
  ASSUME CallInv, pc # "done", pc' = "done",
         result'.kind \in Kinds,
         result'.kind \in {"ok", "response"} \/ Len(received') \in 0..2,
         result'.kind = "response" => Len(received') \in 0..2,
         result'.kind = "ok" =>
           Len(received') \in 1..2 /\ received'[Len(received')] = "valid"
  PROVE  Abstract!Ask
<1>1. CallOutcome = None
  BY DEF CallOutcome
<1> DEFINE n == Len(received')
<1>2. CASE result'.kind = "ok"
  <2>1. CallOutcome' = [kind |-> "ok", rejected |-> n - 1, answer |-> "valid"]
    BY <1>2 DEF CallOutcome, CallKind
  <2>2. n - 1 \in 0..1
    BY <1>2
  <2>3. CallOutcome' \in {Abstract!Success(k) : k \in 0..1}
    BY <2>1, <2>2 DEF Abstract!Success
  <2> QED BY <1>1, <2>3 DEF Abstract!Ask, Abstract!Outcomes
<1>3. CASE result'.kind # "ok"
  <2> DEFINE k == CallKind'
  <2>1. k \in {"response", "error"}
    BY <1>3 DEF CallKind
  <2>2. CallOutcome' = [kind |-> k, rejected |-> n - 0, answer |-> None]
    BY <1>3, <2>1 DEF CallOutcome
  <2>3. n \in 0..2 /\ n - 0 = n
    BY <1>3
  <2>4. CallOutcome' = Abstract!Failure(k, n)
    BY <2>2, <2>3 DEF Abstract!Failure
  <2> HIDE DEF k, n
  <2>5. CallOutcome' \in {Abstract!Failure(kk, nn) : kk \in {"response", "error"}, nn \in 0..2}
    BY <2>1, <2>3, <2>4
  <2> QED BY <1>1, <2>5 DEF Abstract!Ask, Abstract!Outcomes
<1> QED BY <1>2, <1>3

(* What the last POST met decides whether there may be another.             *)
LEMMA DefinitiveStep == DefinitiveErrorsEnd /\ [Next]_vars => DefinitiveErrorsEnd'
<1> SUFFICES ASSUME DefinitiveErrorsEnd, [Next]_vars PROVE DefinitiveErrorsEnd'
  OBVIOUS
<1> USE DEF DefinitiveErrorsEnd, Posted
<1>1. ASSUME NEW kind, NEW resp, Raise(kind, resp) PROVE DefinitiveErrorsEnd'
  BY <1>1 DEF Raise, End
<1>2. CASE TransportFails \/ Unauthorized \/ ClientError \/ BadEnvelope
  BY <1>1, <1>2 DEF TransportFails, Unauthorized, ClientError, BadEnvelope
<1>3. CASE TimesOut \/ ServerError \/ Answers
  BY <1>3 DEF TimesOut, ServerError, Answers
<1>4. CASE RateLimited
  <2>1. PICK hard \in BOOLEAN, after \in RetryAfters \cup {None} :
          /\ last' = IF hard THEN "quota_exhausted" ELSE "rate_limited"
          /\ CanRetry(hard, after) \/ Raise("rate_limit", posts + 1)
    BY <1>4 DEF RateLimited
  <2> QED BY <1>1, <2>1 DEF CanRetry
<1>5. CASE Accept \/ Crash \/ GiveUp
  BY <1>5 DEF Accept, Crash, GiveUp, End
<1>6. CASE Repair
  BY <1>6 DEF Repair
<1>7. CASE UNCHANGED vars
  BY <1>7 DEF vars
<1> QED BY <1>2, <1>3, <1>4, <1>5, <1>6, <1>7 DEF Next

(* No definitive error is tried again, with any number of retries left.     *)
THEOREM DefinitiveErrorsAreFinal == Spec => []DefinitiveErrorsEnd
<1>1. Init => DefinitiveErrorsEnd
  BY DEF Init, DefinitiveErrorsEnd
<1> QED BY <1>1, DefinitiveStep, PTL DEF Spec

(* A retry sleeps for at most a minute, or for the back-off of its attempt. *)
LEMMA PauseStep ==
  ASSUME TypeOK, PausesAreBounded, [Next]_vars
  PROVE  PausesAreBounded'
<1> USE DEF PausesAreBounded, Posted
<1>1. ASSUME NEW resp, NEW delay, Retry(delay, resp),
             IF last' = "timeout" THEN \E n \in 0..(MaxRetries - 1) : delay = Backoff * 2^n
             ELSE delay \in 0..MaxPause
      PROVE  PausesAreBounded'
  BY <1>1 DEF Retry
<1>2. ExponentialBackoff \in Nat
  <2>1. attempt \in 0..MaxRetries /\ Backoff \in Nat
    BY ProviderAssumption DEF ProviderAssumption, TypeOK
  <2>2. 2^attempt \in Nat
    BY <2>1, ProviderAssumption DEF ProviderAssumption
  <2>3. \A a, b \in Nat : a * b \in Nat
    OBVIOUS
  <2> QED BY <2>1, <2>2, <2>3 DEF ExponentialBackoff
<1>3. CASE TimesOut
  <2>1. CASE LastAttempt
    BY <1>3, <2>1 DEF TimesOut, Raise
  <2>2. CASE ~LastAttempt
    <3>1. attempt \in 0..(MaxRetries - 1)
      BY <2>2, ProviderAssumption DEF ProviderAssumption, TypeOK, LastAttempt
    <3>2. Retry(ExponentialBackoff, response) /\ last' = "timeout"
      BY <1>3, <2>2 DEF TimesOut
    <3> QED BY <1>1, <3>1, <3>2 DEF ExponentialBackoff
  <2> QED BY <2>1, <2>2
<1>4. CASE RateLimited
  <2>0. last' # "timeout"
    BY <1>4 DEF RateLimited
  <2>1. PICK hard \in BOOLEAN, after \in RetryAfters \cup {None} :
          \/ CanRetry(hard, after) /\ Retry(after, posts + 1)
          \/ Raise("rate_limit", posts + 1)
    BY <1>4 DEF RateLimited
  <2>2. CASE CanRetry(hard, after) /\ Retry(after, posts + 1)
    <3>1. after \in 0..MaxPause
      BY <2>2 DEF CanRetry
    <3> QED BY <1>1, <2>0, <2>2, <3>1
  <2> QED BY <2>1, <2>2 DEF Raise
<1>5. CASE ServerError
  <2>0. last' # "timeout"
    BY <1>5 DEF ServerError
  <2> DEFINE delay(after) ==
        IF after # None /\ after \in 0..MaxPause THEN after ELSE ExponentialBackoff
  <2>1. PICK after \in RetryAfters \cup {None} :
          \/ Retry(Shortest(delay(after), MaxPause), posts + 1)
          \/ Raise("unavailable", posts + 1)
    BY <1>5 DEF ServerError
  <2>2. delay(after) \in Nat
    BY <1>2 DEF MaxPause
  <2> HIDE DEF delay
  <2>3. Shortest(delay(after), MaxPause) \in 0..MaxPause
    BY <2>2 DEF Shortest, MaxPause
  <2>4. CASE Retry(Shortest(delay(after), MaxPause), posts + 1)
    <3> DEFINE pause == Shortest(delay(after), MaxPause)
    <3>1. Retry(pause, posts + 1) /\ pause \in 0..MaxPause
      BY <2>3, <2>4
    <3> HIDE DEF pause
    <3> QED BY <1>1, <2>0, <3>1
  <2>5. CASE Raise("unavailable", posts + 1)
    BY <2>5 DEF Raise
  <2> QED BY <2>1, <2>4, <2>5
<1>6. CASE TransportFails \/ Unauthorized \/ ClientError \/ BadEnvelope
  BY <1>6 DEF TransportFails, Unauthorized, ClientError, BadEnvelope, Raise
<1>7. CASE Answers \/ Accept \/ Crash \/ Repair \/ GiveUp \/ UNCHANGED vars
  BY <1>7 DEF Answers, Accept, Crash, Repair, GiveUp, Unvalidated, vars
<1> QED BY <1>3, <1>4, <1>5, <1>6, <1>7 DEF Next

(* For every retry limit and back-off: a server makes the runner sleep for  *)
(* at most a minute, and a timeout for one of the configured back-offs.     *)
THEOREM PausesStayBounded == Spec => []PausesAreBounded
<1>1. Init => PausesAreBounded
  BY DEF Init, PausesAreBounded
<1>2. CallInv => TypeOK
  BY DEF CallInv
<1>3. TypeOK /\ PausesAreBounded /\ [Next]_vars => PausesAreBounded'
  BY PauseStep
<1> QED BY <1>1, <1>2, <1>3, CallInvariant, PTL DEF Spec

(* A step of the call is the step of ModelCall or none.                    *)
LEMMA StepRefines == CallInv /\ [Next]_vars => [Abstract!Ask]_CallOutcome
<1> SUFFICES ASSUME CallInv, [Next]_vars PROVE [Abstract!Ask]_CallOutcome
  OBVIOUS
<1>0. /\ pc = "post" => received = Before
      /\ pc = "validate" => received = Append(Before, answer.content)
      /\ Before \in Seq(Contents) /\ Len(Before) \in 0..1
      /\ pc = "validate" => answer \in [content : Contents, length : BOOLEAN]
  BY DEF CallInv, TypeOK, TrafficInv, Before
<1>1. pc = "validate" => Len(received) \in 1..2 /\ received[Len(received)] = answer.content
  BY <1>0
<1>2. ASSUME pc # "done", pc' # "done" PROVE UNCHANGED CallOutcome
  BY <1>2 DEF CallOutcome
<1>3. ASSUME NEW kind \in Kinds \ {"ok"}, NEW resp, pc = "post", Raise(kind, resp)
      PROVE  Abstract!Ask
  <2>1. pc' = "done" /\ result'.kind = kind /\ received' = received
    BY <1>3 DEF Raise, End
  <2> QED BY <1>0, <1>3, <2>1, EndOutcome
<1>4. ASSUME NEW delay, NEW resp, pc = "post", Retry(delay, resp) PROVE UNCHANGED CallOutcome
  BY <1>2, <1>4 DEF Retry
<1>5. CASE TimesOut
  BY <1>3, <1>4, <1>5 DEF TimesOut, Posted, Kinds
<1>6. CASE TransportFails \/ Unauthorized \/ ClientError \/ BadEnvelope
  BY <1>3, <1>6 DEF TransportFails, Unauthorized, ClientError, BadEnvelope, Posted, Kinds
<1>7. CASE RateLimited
  BY <1>3, <1>4, <1>7 DEF RateLimited, Posted, Kinds
<1>8. CASE ServerError
  BY <1>3, <1>4, <1>8 DEF ServerError, Posted, Kinds
<1>9. CASE Answers
  BY <1>2, <1>9 DEF Answers, Posted
<1>10. CASE Accept
  <2>1. pc = "validate" /\ pc' = "done" /\ result'.kind = "ok" /\ received' = received
    BY <1>10 DEF Accept, End, Unvalidated
  <2>2. answer.content = "valid"
    BY <1>0, <1>10 DEF Accept, Verdict, Contents
  <2> QED BY <1>1, <2>1, <2>2, EndOutcome DEF Kinds
<1>11. CASE Crash
  <2>1. pc = "validate" /\ pc' = "done" /\ result'.kind = "type_error" /\ received' = received
    BY <1>11 DEF Crash, End, Unvalidated
  <2> QED BY <1>1, <2>1, EndOutcome DEF Kinds
<1>12. CASE Repair
  BY <1>2, <1>12 DEF Repair
<1>13. CASE GiveUp
  <2>1. pc = "validate" /\ pc' = "done" /\ result'.kind = "response" /\ received' = received
    BY <1>13 DEF GiveUp, End, Unvalidated
  <2> QED BY <1>1, <2>1, EndOutcome DEF Kinds
<1>14. CASE UNCHANGED vars
  BY <1>14 DEF vars, CallOutcome, CallKind
<1> QED BY <1>5, <1>6, <1>7, <1>8, <1>9, <1>10, <1>11, <1>12, <1>13, <1>14 DEF Next

(* generate_json is what its scanners take it for: it ends once, with an   *)
(* answer that was accepted or with an exception, for every retry limit.   *)
THEOREM ImplementsModelCall == Spec => IsModelCall
<1>1. Init => Abstract!CallInit
  BY DEF Init, Abstract!CallInit, CallOutcome
<1> QED BY <1>1, StepRefines, CallInvariant, PTL DEF Spec, IsModelCall, Abstract!CallSpec
=============================================================================
