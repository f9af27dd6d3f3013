-------------------------- MODULE CaseEvaluationMC --------------------------
(* Two Python files and a text file; two tests of one node each.            *)
EXTENDS CaseEvaluation, TLC
CONSTANTS n1, n2

Files == <<"a.py", "b.py">>
AllFiles == <<"README.md", "a.py", "b.py">>

(* Four functions call each other in every way that leaves g a helper of    *)
(* both handlers; the volatile effect, if any, is behind two calls.  In     *)
(* b.py one handler does everything itself.                                 *)
Body(route, calls, does, money) ==
  [route |-> route, params |-> {"payload"}, calls |-> calls, does |-> does, money |-> money]
TreesOfA ==
  {"f" :> Body(2, cf, {"if", "write"}, mf) @@ "k" :> Body(3, ck, {"idempotency"}, {})
     @@ "g" :> Body(None, cg, dg, {"order"}) @@ "h" :> Body(None, ch, dh, {}) :
   cf \in SUBSET {"g", "k"}, mf \in {{}, {"payload"}}, ck \in {{}, {"f"}, {"g", "print"}},
   cg \in {{}, {"f", "h"}}, dg \in {{}, {"effect", "raise"}}, ch \in {{}, {"g", "h"}},
   dh \in {{}, {"lock", "effect", "volatile_effect"}}}
TreesOfB ==
  {"m" :> Body(r, {}, d, {"payload"}) :
     r \in {None, 1}, d \in {{"effect", "ownership"}, {"effect", "volatile_effect", "webhook"}}}
TreesOf == "a.py" :> TreesOfA @@ "b.py" :> TreesOfB

(* Tests of up to four lines with two responses, for the finding named n1.  *)
Send(response) == [send |-> response, checks |-> {}]
Check(what) == [send |-> None, checks |-> what]
Lines == {Send("first"), Send("second"), Check({"ledger"}), Check({"first"}),
          Check({"second"}), Check({"ledger", "second"})}
Programs == UNION {[1..n -> Lines] : n \in 0..4}
TwoTests == {n1, n2}
Claim(test, id) == [test |-> test, invariant |-> id]
FindingLists ==
  {<<>>, <<Claim(n1, "INV-1")>>, <<Claim(n1, "INV-1"), Claim(n1, "INV-2")>>,
   <<Claim(n1, "INV-1"), Claim(n2, "INV-1")>>, <<Claim(n1, "INV-1"), Claim(n2, "INV-2"), Claim(n2, "INV-1")>>}
Answer(ids, findings, code, mentions, p1, p2) ==
  [invariants |-> ids, findings |-> findings, code |-> code, mentions |-> mentions,
   tests |-> n1 :> p1 @@ n2 :> p2]
Good == <<Send("first"), Send("second"), Check({"ledger"})>>
AnswersOf ==
  {Answer(ids, <<Claim(n1, "INV-1")>>, "module", {n1}, p, None) :
     ids \in {<<"INV-1">>, <<"INV-1", "INV-1">>, <<>>}, p \in Programs}
    \cup {Answer(<<"INV-1", "INV-2">>, l, "module", {n1, n2}, Good, p) :
            l \in FindingLists, p \in {None, Good, <<>>}}
    \cup {Answer(<<"INV-1", "INV-2">>, l, code, mentions, None, None) :
            l \in FindingLists, code \in {"blank", "broken"}, mentions \in {{}, {n1}, {n1, n2}}}

(* n1 occurs in every way; n2 once, if at all, and is never skipped.        *)
JUnits == {n1 :> a @@ n2 :> b :
             a \in Occurrences, b \in {<<>>, <<"passed">>, <<"assertion_failure">>, <<"error">>}}
Identity == [n \in TwoTests |-> n]
=============================================================================
