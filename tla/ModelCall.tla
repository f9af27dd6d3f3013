----------------------------- MODULE ModelCall -----------------------------
(***************************************************************************)
(* What LLMProvider.generate_json promises a scanner (llm/base.py): it      *)
(* ends once, with an answer its response model accepted after at most one  *)
(* it rejected, or with an exception.  "response" is the exception that     *)
(* says the model's own output could not be used; the suite records it.     *)
(***************************************************************************)
EXTENDS Naturals

CONSTANT None
VARIABLE outcome   \* of the call, None while it runs

Success(rejected) == [kind |-> "ok", rejected |-> rejected, answer |-> "valid"]
Failure(kind, rejected) == [kind |-> kind, rejected |-> rejected, answer |-> None]

(* `rejected` counts the messages that did not become the answer.           *)
Outcomes ==
  {Success(n) : n \in 0..1} \cup {Failure(k, n) : k \in {"response", "error"}, n \in 0..2}

CallInit == outcome = None
Ask == outcome = None /\ outcome' \in Outcomes
CallSpec == CallInit /\ [][Ask]_outcome
=============================================================================
