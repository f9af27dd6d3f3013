------------------------------ MODULE Provider ------------------------------
(***************************************************************************)
(* One call of generate_json, src/edgecase_forge/llm/openai_compatible.py: *)
(* a request with bounded transport retries, the validation of the answer, *)
(* and at most one repair request.  What the server does to each POST is   *)
(* the choice of the environment.  The fallible parts of the call end it   *)
(* with an exception that carries the accounting of all its attempts.      *)
(***************************************************************************)
EXTENDS Integers, Sequences

CONSTANTS
  MaxRetries,   \* max_transport_retries
  Backoff,      \* retry_backoff_seconds
  RetryAfters,  \* seconds a server may ask for, in a header that parses
  None

MaxPause == 60
Contents == {"valid", "not_json", "wrong_schema", "null"}

ASSUME ProviderAssumption ==
  /\ MaxRetries \in Nat /\ Backoff \in Nat
  /\ RetryAfters \subseteq Int /\ None \notin Int
  /\ \A n \in 0..MaxRetries : 2^n \in Nat

VARIABLES
  pc,        \* post | validate | done
  request,   \* 1, or 2 for the repair
  attempt,   \* of the loop in _request
  response,  \* number of the POST whose response the loop holds, or None
  answer,    \* [content, length]: the message and finish_reason "length"
  first,     \* LLMResult of the first request, once it is to be repaired
  result,    \* what the call returned or raised
  posts, last, pauses, received  \* the traffic: POSTs sent, what the last one
                                 \* met, the sleeps, the messages received

vars == <<pc, request, attempt, response, answer, first, result,
          posts, last, pauses, received>>

Init ==
  /\ pc = "post" /\ request = 1 /\ attempt = 0 /\ response = None
  /\ answer = None /\ first = None /\ result = None
  /\ posts = 0 /\ last = "none" /\ pauses = {} /\ received = <<>>

-----------------------------------------------------------------------------
(* AttemptAccounting.  A response that is read to its message is one unit   *)
(* of usage; its number stands for its x-request-id.                        *)
Accounting(usage, attempts, resp) ==
  [usage |-> usage, semantic |-> 1, transport |-> attempts, repair |-> FALSE,
   ids |-> IF resp = None THEN <<>> ELSE <<resp>>]

\* A mutant: a failed repair forgets the request before it.
SecondOnly(a, b) == [b EXCEPT !.semantic = 2, !.repair = TRUE]
Combine(a, b) ==
  [usage |-> a.usage + b.usage, semantic |-> 2,
   transport |-> a.transport + b.transport, repair |-> TRUE, ids |-> a.ids \o b.ids]

(* The accounting of the call so far, the current request being `own`.      *)
CallAccounting(own) == IF request = 1 THEN own ELSE Combine(first.accounting, own)

End(kind, accounting, responses) ==
  /\ pc' = "done"
  /\ result' = [kind |-> kind, accounting |-> accounting, responses |-> responses]

(* An exception of _request; generate_json adds the first request to one of *)
(* the repair.                                                              *)
Raise(kind, resp) ==
  /\ End(kind, CallAccounting(Accounting(0, attempt + 1, resp)),
         IF request = 1 THEN <<>> ELSE <<first.content>>)
  /\ response' = resp
  /\ UNCHANGED <<request, attempt, answer, first, pauses, received>>

(* sleep and continue.                                                      *)
Retry(delay, resp) ==
  /\ attempt' = attempt + 1 /\ response' = resp
  /\ pauses' = pauses \cup {[by |-> last', for |-> delay]}
  /\ UNCHANGED <<pc, request, answer, first, result, received>>

\* A mutant: one try more than configured.
OneTryMore == attempt > MaxRetries
LastAttempt == attempt = MaxRetries
ExponentialBackoff == Backoff * 2^attempt

Posted(what) == pc = "post" /\ posts' = posts + 1 /\ last' = what

(* httpx.TimeoutException: the loop keeps the response of an earlier try.   *)
TimesOut ==
  /\ Posted("timeout")
  /\ \/ LastAttempt /\ Raise("timeout", response)
     \/ ~LastAttempt /\ Retry(ExponentialBackoff, response)

(* Any other HTTP error of the client is not tried again.                   *)
TransportFails == Posted("transport_error") /\ Raise("unavailable", response)

(* 401 and 403, and any other 4xx but 429.                                  *)
Unauthorized == Posted("unauthorized") /\ Raise("authentication", posts + 1)
ClientError  == Posted("client_error") /\ Raise("unavailable", posts + 1)

\* A mutant: any Retry-After of a rate limit is honoured.
HonourAll(hard, after) == ~hard /\ after # None /\ ~LastAttempt
\* A mutant: an exhausted quota is tried again.
IgnoreQuota(hard, after) == after # None /\ after \in 0..MaxPause /\ ~LastAttempt
CanRetry(hard, after) == ~hard /\ after # None /\ after \in 0..MaxPause /\ ~LastAttempt

(* 429: only a soft limit with a short Retry-After is waited for.           *)
RateLimited ==
  \E hard \in BOOLEAN, after \in RetryAfters \cup {None} :
     /\ Posted(IF hard THEN "quota_exhausted" ELSE "rate_limited")
     /\ \/ CanRetry(hard, after) /\ Retry(after, posts + 1)
        \/ ~CanRetry(hard, after) /\ Raise("rate_limit", posts + 1)

Shortest(a, b) == IF a < b THEN a ELSE b

(* 5xx.                                                                     *)
ServerError ==
  \E after \in RetryAfters \cup {None} :
     LET asked == after # None /\ after \in 0..MaxPause
         delay == IF asked THEN after ELSE ExponentialBackoff
     IN  /\ Posted("server_error")
         /\ \/ ~LastAttempt /\ Retry(Shortest(delay, MaxPause), posts + 1)
            \/ LastAttempt /\ Raise("unavailable", posts + 1)

(* A response below 400 whose body is not JSON, or has no message.          *)
BadEnvelope == Posted("bad_envelope") /\ Raise("response", posts + 1)

(* A response with a message, whose content may be null.                    *)
Answers ==
  /\ Posted("answer")
  /\ \E content \in Contents, length \in BOOLEAN :
       /\ answer' = [content |-> content, length |-> length]
       /\ received' = Append(received, content)
  /\ pc' = "validate" /\ response' = posts + 1
  /\ UNCHANGED <<request, attempt, first, result, pauses>>

-----------------------------------------------------------------------------
(* _validate_result and its two callers.  "type_error" is no ProviderError: *)
(* the decoder, the repair message or the preserved evidence meets null.    *)
Verdict ==
  CASE answer.content = "null" -> "type_error"
    [] answer.content # "null" /\ answer.length -> "response"
    [] answer.content = "valid" /\ ~answer.length -> "ok"
    [] answer.content \in {"not_json", "wrong_schema"} /\ ~answer.length -> "response"

OwnAccounting == Accounting(1, attempt + 1, response)
Unvalidated == UNCHANGED <<request, attempt, response, answer, first, posts, last, pauses, received>>

Accept ==
  /\ pc = "validate" /\ Verdict = "ok"
  /\ End("ok", CallAccounting(OwnAccounting), <<>>) /\ Unvalidated

(* No handler of the call catches a TypeError.                              *)
Crash ==
  /\ pc = "validate" /\ Verdict = "type_error"
  /\ End("type_error", None, <<>>) /\ Unvalidated

\* A mutant: a repaired answer is repaired again.
RepairTwice == Len(received) <= 2
CanRepair == request = 1

(* The one repair: the messages grow by the answer and what is wrong in it. *)
Repair ==
  /\ pc = "validate" /\ Verdict = "response" /\ CanRepair
  /\ first' = [content |-> answer.content, accounting |-> OwnAccounting]
  /\ request' = 2 /\ attempt' = 0 /\ response' = None /\ answer' = None /\ pc' = "post"
  /\ UNCHANGED <<result, posts, last, pauses, received>>

\* A mutant: the evidence is the repaired answer only.
LastAnswer == <<answer.content>>
BothAnswers == <<first.content, answer.content>>
GiveUp ==
  /\ pc = "validate" /\ Verdict = "response" /\ ~CanRepair
  /\ End("response", CallAccounting(OwnAccounting), BothAnswers) /\ Unvalidated

Next ==
  \/ TimesOut \/ TransportFails \/ Unauthorized \/ ClientError \/ RateLimited
  \/ ServerError \/ BadEnvelope \/ Answers \/ Accept \/ Crash \/ Repair \/ GiveUp

Spec == Init /\ [][Next]_vars
-----------------------------------------------------------------------------
(* Properties.                                                              *)

Accountings ==
  [usage : Nat, semantic : 1..2, transport : Nat, repair : BOOLEAN, ids : Seq(Nat)]
Kinds == {"ok", "response", "timeout", "unavailable", "authentication", "rate_limit", "type_error"}

(* The call is in one of its phases, within its retries.                    *)
TypeOK ==
  /\ pc \in {"post", "validate", "done"} /\ request \in 1..2
  /\ attempt \in 0..MaxRetries /\ response \in Nat \cup {None}
  /\ answer \in [content : Contents, length : BOOLEAN] \cup {None}
  /\ first = None \/ first \in [content : Contents, accounting : Accountings]
  /\ result = None
       \/ result \in [kind : Kinds, accounting : Accountings \cup {None}, responses : Seq(Contents)]
  /\ posts \in Nat /\ received \in Seq(Contents)

(* Two requests of at most MaxRetries + 1 POSTs each, whatever the server   *)
(* answers.                                                                 *)
PostsBounded == posts <= 2 * (MaxRetries + 1)

(* What the call reports it cost is what it cost: every POST of both        *)
(* requests, the usage of every message, and whether there was a repair;    *)
(* also when it fails.                                                      *)
AccountingMatchesTraffic ==
  pc = "done" /\ result.accounting # None =>
    /\ result.accounting.transport = posts
    /\ result.accounting.usage = Len(received)
    /\ result.accounting.semantic = request
    /\ (result.accounting.repair <=> request = 2)
    /\ result.accounting.ids \in Seq(1..posts)

(* A model answer that could not be repaired leaves every message received  *)
(* in the evidence.                                                         *)
EvidenceKeepsAnswers ==
  pc = "done" /\ result.kind = "response" => result.responses = received

(* A refusal of the key, an exhausted quota, a broken connection and a 4xx  *)
(* are final, in the first request and in the repair.                       *)
DefinitiveErrorsEnd ==
  last \in {"unauthorized", "client_error", "quota_exhausted", "transport_error", "bad_envelope"}
    => pc = "done"

(* What a server says, with a Retry-After or an error, makes the runner     *)
(* sleep for at most a minute and never for less than no time.  A timeout   *)
(* has no such cap: the configured back-off doubles with every attempt of   *)
(* the request, but with no more of them than there are retries.            *)
PausesAreBounded ==
  \A p \in pauses :
     IF p.by = "timeout" THEN \E n \in 0..(MaxRetries - 1) : p.for = Backoff * 2^n
     ELSE p.for \in 0..MaxPause

(* The call is one ModelCall: it ends once, and an answer it returns is the *)
(* one valid message, after at most one that was not.                       *)
CallKind == IF result.kind \in {"ok", "response"} THEN result.kind ELSE "error"
CallOutcome ==
  IF pc # "done" THEN None
  ELSE [kind |-> CallKind,
        rejected |-> Len(received) - (IF CallKind = "ok" THEN 1 ELSE 0),
        answer |-> IF CallKind = "ok" THEN received[Len(received)] ELSE None]
Abstract == INSTANCE ModelCall WITH outcome <- CallOutcome
IsModelCall == Abstract!CallSpec

(* A call the server answered ends as a result or as a model-output error,  *)
(* which the suite records.                                                 *)
AnswersNeverAbort ==
  pc = "done" /\ last = "answer" => result.kind \in {"ok", "response"}

-----------------------------------------------------------------------------
(* The inductive invariant behind the proofs of ProviderProofs: where the   *)
(* POSTs and the messages of the call are accounted for.                    *)
Spent == IF request = 2 THEN first.accounting.transport ELSE 0
Before == IF request = 2 THEN <<first.content>> ELSE <<>>
TrafficInv ==
  /\ request = 2 =>
       /\ first \in [content : Contents, accounting : Accountings]
       /\ first.accounting.usage = 1
       /\ first.accounting.transport <= MaxRetries + 1
       /\ first.accounting.ids \in Seq(1..posts)
  /\ response # None => response \in 1..posts
  /\ pc = "post" => posts = Spent + attempt /\ received = Before
  /\ pc = "validate" =>
       /\ answer \in [content : Contents, length : BOOLEAN]
       /\ posts = Spent + attempt + 1 /\ received = Append(Before, answer.content)
  /\ PostsBounded /\ AccountingMatchesTraffic /\ EvidenceKeepsAnswers
CallInv == TypeOK /\ TrafficInv
=============================================================================
