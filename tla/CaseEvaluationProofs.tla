------------------------- MODULE CaseEvaluationProofs -------------------------
(* Proofs about the evaluation of a case, for any repository, model answer,  *)
(* nodes and reports: a kill is recorded exactly when it was demonstrated.   *)
EXTENDS CaseEvaluation, ContractMapProofs

AnyExecution == [exit : AllExits \cup {"not_executed"}, junit : [Nodes -> Occurrences]]

(***************************************************************************)
(* What the two executions say.                                            *)
(***************************************************************************)
(* The executions TLC enumerates are executions.                            *)
LEMMA ExecutionsAreExecutions == Executions \subseteq AnyExecution
<1>1. NoReport \in [Nodes -> Occurrences]
  BY DEF NoReport, Occurrences
<1>2. [exit : Exits, junit : Reports] \subseteq AnyExecution
  BY CaseAssumption DEF CaseAssumption, AnyExecution
<1>3. /\ [exit |-> "other", junit |-> NoReport] \in AnyExecution
      /\ [exit |-> "not_executed", junit |-> NoReport] \in AnyExecution
  BY <1>1 DEF AnyExecution, AllExits
<1> QED BY <1>2, <1>3 DEF Executions, LocalExecutions, RestrictedExecutions

(* Only a key that occurs once has a definite outcome, what it occurs as.   *)
LEMMA OutcomeOfOne ==
  ASSUME NEW x \in AnyExecution, NEW n \in Nodes
  PROVE  /\ Outcome(x, n) = "passed" <=> x.junit[n] = <<"passed">>
         /\ Outcome(x, n) = "assertion_failure" <=> x.junit[n] = <<"assertion_failure">>
         /\ x.junit[n] = <<"passed">> => Occurs(x, n)
<1>1. x.junit[n] \in Occurrences
  BY DEF AnyExecution
<1>2. CASE x.junit[n] = <<>>
  BY <1>2 DEF Outcome, Occurs
<1>3. CASE \E k \in Kinds : x.junit[n] = <<k>>
  <2>1. PICK k \in Kinds : x.junit[n] = <<k>>
    BY <1>3
  <2>2. Len(<<k>>) = 1 /\ <<k>>[1] = k /\ <<k>> # <<>>
    OBVIOUS
  <2>3. <<k>> = <<"passed">> <=> k = "passed"
    OBVIOUS
  <2>4. <<k>> = <<"assertion_failure">> <=> k = "assertion_failure"
    OBVIOUS
  <2> QED BY <2>1, <2>2, <2>3, <2>4 DEF Outcome, Occurs
<1>4. CASE x.junit[n] = <<"passed", "assertion_failure">>
  <2>1. x.junit[n] # <<"passed">> /\ x.junit[n] # <<"assertion_failure">> /\ x.junit[n] # <<>>
    BY <1>4
  <2>2. Len(x.junit[n]) = 2
    BY <1>4
  <2> QED BY <2>1, <2>2 DEF Outcome, Occurs
<1> QED BY <1>1, <1>2, <1>3, <1>4 DEF Occurrences

(* A report has an error node exactly when a key occurs as one error.       *)
LEMMA ErrorOfOne ==
  ASSUME NEW x \in AnyExecution
  PROVE  HasErrorNode(x) <=> \E n \in Nodes : x.junit[n] = <<"error">>
<1>1. ASSUME NEW n \in Nodes
      PROVE  (\E i \in DOMAIN x.junit[n] : x.junit[n][i] = "error") <=> x.junit[n] = <<"error">>
  <2>1. x.junit[n] \in Occurrences
    BY DEF AnyExecution
  <2>2. ASSUME NEW k \in Kinds PROVE (\E i \in DOMAIN <<k>> : <<k>>[i] = "error") <=> <<k>> = <<"error">>
    OBVIOUS
  <2>3. ~ (\E i \in DOMAIN <<>> : <<>>[i] = "error") /\ <<>> # <<"error">>
    OBVIOUS
  <2>4. LET two == <<"passed", "assertion_failure">>
        IN  ~ (\E i \in DOMAIN two : two[i] = "error") /\ two # <<"error">>
    OBVIOUS
  <2> QED BY <2>1, <2>2, <2>3, <2>4 DEF Occurrences
<1> QED BY <1>1 DEF HasErrorNode

(* What _is_scoreable asks of a run.                                        *)
LEMMA ScoreableRuns ==
  ASSUME NEW x \in AnyExecution
  PROVE  Scoreable(x) <=>
           /\ x.exit = "0_or_1"
           /\ \E n \in Nodes : Occurs(x, n)
           /\ \A n \in Nodes : x.junit[n] # <<"error">>
<1>1. x.exit \in AllExits \cup {"not_executed"}
  BY DEF AnyExecution
<1>2. x.exit # "0_or_1" => HarnessStatus(x) # "complete"
  BY <1>1 DEF HarnessStatus, AllExits
<1>3. x.exit = "0_or_1" =>
        HarnessStatus(x) = IF \A n \in Nodes : ~Occurs(x, n) THEN "junit_error"
                           ELSE IF HasErrorNode(x) THEN "complete_with_node_errors" ELSE "complete"
  BY DEF HarnessStatus
<1> QED BY <1>2, <1>3, ErrorOfOne DEF Scoreable

(* The kills of a classification, before the inputs are verified.           *)
KillFound == \E n \in Occurring : Classification(n) = "candidate_kill"
Killed(n) ==
  /\ Scoreable(clean) /\ Scoreable(mutant)
  /\ Outcome(clean, n) = "passed" /\ Outcome(mutant, n) = "assertion_failure"
  /\ MapsToFinding(n)

(* The classification is read off the report and the two executions.        *)
LEMMA SameReading ==
  ASSUME UNCHANGED <<report, control, clean, mutant>>
  PROVE  /\ KillFound' <=> KillFound
         /\ [n \in Occurring |-> Classification(n)]' = [n \in Occurring |-> Classification(n)]
<1>1. Occurring' = Occurring
  BY DEF Occurring, Occurs
<1>2. \A n : Classification(n)' = Classification(n)
  BY DEF Classification, Outcome, Occurs, Scoreable, HarnessStatus, HasErrorNode, MapsToFinding, Eligible
<1> QED BY <1>1, <1>2 DEF KillFound

(* A mutant is a candidate kill of a node exactly when the node kills it.   *)
LEMMA CandidateKills ==
  ASSUME ~control, NEW n
  PROVE  Classification(n) = "candidate_kill" <=> Killed(n)
BY DEF Classification, Killed, Eligible

(* The differential finds a kill exactly when a node demonstrates it.       *)
LEMMA KillsAsDemonstrated ==
  ASSUME ~control, clean \in AnyExecution, mutant \in AnyExecution,
         changed = [clean |-> changed.clean, mutant |-> changed.mutant]
  PROVE  KillFound /\ ~IntegrityErrors <=> \E n \in Nodes : Demonstrates(n)
<1>1. clean # None /\ mutant # None
  BY CaseAssumption DEF CaseAssumption, AnyExecution
<1>2. ~IntegrityErrors <=> changed = [clean |-> "nothing", mutant |-> "nothing"]
  BY DEF IntegrityErrors
<1>3. ASSUME NEW n \in Nodes
      PROVE  Killed(n) <=>
               /\ clean.exit = "0_or_1" /\ mutant.exit = "0_or_1"
               /\ clean.junit[n] = <<"passed">> /\ mutant.junit[n] = <<"assertion_failure">>
               /\ \A x \in {clean, mutant}, other \in Nodes : x.junit[other] # <<"error">>
               /\ report.findings[BaseTest[n]] = 1
  <2>1. mutant.junit[n] = <<"assertion_failure">> => Occurs(mutant, n)
    BY DEF Occurs
  <2> QED BY <2>1, OutcomeOfOne, ScoreableRuns DEF Killed, MapsToFinding
<1>4. ASSUME NEW n \in Nodes, Killed(n) PROVE n \in Occurring
  BY <1>4, OutcomeOfOne DEF Killed, Occurring
<1>5. KillFound <=> \E n \in Nodes : Killed(n)
  BY <1>4, CandidateKills DEF KillFound, Occurring
<1> QED BY <1>1, <1>2, <1>3, <1>5 DEF Demonstrates

(* A kill is recorded without a mark beside it.                             *)
LEMMA KillsAreTrusted ==
  ASSUME ~control, KillFound
  PROVE  ~InfrastructureError(clean) /\ ~InfrastructureError(mutant)
<1>1. Scoreable(clean) /\ Scoreable(mutant)
  BY CandidateKills DEF KillFound, Killed
<1> QED BY <1>1 DEF Scoreable, InfrastructureError

(***************************************************************************)
(* The case.                                                               *)
(***************************************************************************)
Executed == {"classify", "verify", "record"}

CaseInv ==
  /\ control \in BOOLEAN
  /\ pc \in {"scan", "mutant", "done", "aborted"} \cup Executed
  /\ changed = [clean |-> changed.clean, mutant |-> changed.mutant]
  /\ pc = "scan" => clean = None
  /\ pc = "mutant" => ~control /\ clean \in AnyExecution
  /\ pc \in Executed => clean \in AnyExecution /\ (~control => mutant \in AnyExecution)
  /\ pc = "verify" =>
       /\ nodes = [n \in Occurring |-> Classification(n)]
       /\ evidence = [candidate |-> ~control /\ KillFound]
  /\ pc = "record" => evidence = [candidate |-> ~control /\ KillFound /\ ~IntegrityErrors]
  /\ KillsAreDemonstrated /\ MarksAreSound

(* A case starts in the invariant.                                          *)
LEMMA InitCase == Init => CaseInv
BY DEF Init, CaseInv, Executed, KillsAreDemonstrated, MarksAreSound

(* Every step of a case keeps the invariant.                                *)
LEMMA StepCase ==
  ASSUME CaseInv, [Next]_vars
  PROVE  CaseInv'
<1> USE DEF Executed
<1> DEFINE Later == pc' # "done" => KillsAreDemonstrated' /\ MarksAreSound'
<1>1. Later
  BY DEF KillsAreDemonstrated, MarksAreSound
<1> HIDE DEF Later
<1>2. CASE Scan
  BY <1>1, <1>2 DEF Scan, caseVars, CaseInv, Later
<1>3. CASE ModelOutputError \/ NoTest
  <2>1. evaluation' = NoMarks /\ pc' = "done" /\ clean = None /\ UNCHANGED <<control, clean, mutant, changed>>
    BY <1>3 DEF ModelOutputError, NoTest, ScanIsAll, CaseInv
  <2>2. KillsAreDemonstrated' /\ MarksAreSound'
    BY <2>1 DEF KillsAreDemonstrated, MarksAreSound, Demonstrates, NoMarks, Marks, KillMark, FaultMarks
  <2> QED BY <2>1, <2>2 DEF CaseInv
<1>4. CASE Abort
  BY <1>1, <1>4 DEF Abort, ScanIsAll, CaseInv, Later
<1>5. CASE RunClean
  <2>1. clean' \in AnyExecution
    BY <1>5, ExecutionsAreExecutions DEF RunClean
  <2>2. PICK what \in Changes : changed' = [changed EXCEPT !.clean = what]
    BY <1>5 DEF RunClean
  <2>3. changed' = [clean |-> changed'.clean, mutant |-> changed'.mutant]
    BY <2>2 DEF CaseInv
  <2> QED BY <1>1, <1>5, <2>1, <2>3 DEF RunClean, CaseInv, Later
<1>6. CASE RunMutant
  <2>1. mutant' \in AnyExecution
    BY <1>6, ExecutionsAreExecutions DEF RunMutant
  <2>2. PICK what \in Changes : changed' = [changed EXCEPT !.mutant = what]
    BY <1>6 DEF RunMutant
  <2>3. changed' = [clean |-> changed'.clean, mutant |-> changed'.mutant]
    BY <2>2 DEF CaseInv
  <2> QED BY <1>1, <1>6, <2>1, <2>3 DEF RunMutant, CaseInv, Later
<1>7. CASE BuildDifferential
  <2>1. /\ pc = "classify" /\ pc' = "verify" /\ UNCHANGED <<scanVars, control, clean, mutant, changed>>
        /\ nodes' = [n \in Occurring |-> Classification(n)]
        /\ evidence' = [candidate |-> ~control /\ KillsIn(nodes')]
    BY <1>7 DEF BuildDifferential
  <2>2. KillsIn(nodes') <=> KillFound
    BY <2>1 DEF KillsIn, KillFound
  <2>3. (KillFound' <=> KillFound) /\ [n \in Occurring |-> Classification(n)]' = nodes'
    BY <2>1, SameReading DEF scanVars
  <2>4. evidence' = [candidate |-> ~control' /\ KillFound']
    BY <2>1, <2>2, <2>3
  <2> QED BY <1>1, <2>1, <2>3, <2>4 DEF CaseInv, Later
<1>8. CASE VerifyInputs
  <2>1. /\ pc = "verify" /\ pc' = "record" /\ UNCHANGED <<scanVars, control, clean, mutant, changed>>
        /\ evidence' = [candidate |-> ~control /\ KillFound /\ ~IntegrityErrors]
    BY <1>8 DEF VerifyInputs, CaseInv
  <2>2. (KillFound' <=> KillFound) /\ (IntegrityErrors' <=> IntegrityErrors)
    BY <2>1, SameReading DEF scanVars, IntegrityErrors
  <2> QED BY <1>1, <2>1, <2>2 DEF CaseInv, Later
<1>9. CASE Record
  <2>1. /\ pc = "record" /\ pc' = "done" /\ UNCHANGED <<scanVars, control, clean, mutant, changed, evidence>>
        /\ evaluation' = [marks |-> MarksNow, candidate |-> CandidateKill]
    BY <1>9 DEF Record
  <2>2. CandidateKill = (~control /\ KillFound /\ ~IntegrityErrors)
    BY <2>1 DEF CandidateKill, CaseInv
  <2>3. (\E n \in Nodes : Demonstrates(n))' <=> \E n \in Nodes : Demonstrates(n)
    BY <2>1 DEF Demonstrates, scanVars
  <2>4. CandidateKill <=> \E n \in Nodes : Demonstrates(n)
    <3>1. CASE control
      BY <2>2, <3>1 DEF Demonstrates
    <3>2. CASE ~control
      <4>1. clean \in AnyExecution /\ mutant \in AnyExecution
            /\ changed = [clean |-> changed.clean, mutant |-> changed.mutant]
        BY <2>1, <3>2 DEF CaseInv
      <4> QED BY <2>2, <3>2, <4>1, KillsAsDemonstrated
    <3> QED BY <3>1, <3>2
  <2>5. KillsAreDemonstrated'
    BY <2>1, <2>3, <2>4 DEF KillsAreDemonstrated
  <2>6. MarksNow \in Marks /\ (control => KillMark \notin MarksNow)
    <3>1. CASE CandidateKill
      <4>1. ~control /\ ~IntegrityErrors /\ ~InfrastructureError(clean) /\ ~InfrastructureError(mutant)
        BY <2>2, <3>1, KillsAreTrusted
      <4> QED BY <3>1, <4>1 DEF MarksNow, Marks
    <3>2. CASE ~CandidateKill
      BY <3>2 DEF MarksNow, Marks, FaultMarks, KillMark
    <3> QED BY <3>1, <3>2
  <2>7. MarksAreSound'
    BY <2>1, <2>6 DEF MarksAreSound
  <2> QED BY <2>1, <2>5, <2>7 DEF CaseInv
<1>10. CASE UNCHANGED vars
  <2>1. UNCHANGED <<scanVars, caseVars>>
    BY <1>10 DEF vars
  <2>2. /\ KillFound' <=> KillFound
        /\ [n \in Occurring |-> Classification(n)]' = [n \in Occurring |-> Classification(n)]
    BY <2>1, SameReading DEF scanVars, caseVars
  <2>3. (IntegrityErrors' <=> IntegrityErrors) /\ (KillsAreDemonstrated' <=> KillsAreDemonstrated)
    BY <2>1 DEF caseVars, scanVars, IntegrityErrors, KillsAreDemonstrated, Demonstrates
  <2>4. MarksAreSound' <=> MarksAreSound
    BY <2>1 DEF caseVars, MarksAreSound
  <2> QED BY <2>1, <2>2, <2>3, <2>4 DEF CaseInv, caseVars
<1> QED
  BY <1>2, <1>3, <1>4, <1>5, <1>6, <1>7, <1>8, <1>9, <1>10 DEF Next

(* The invariant of a case holds throughout.                                *)
LEMMA CaseAlways == Spec => []CaseInv
BY InitCase, StepCase, PTL DEF Spec

(* For any answer of the model and any behaviour of its test: a kill is     *)
(* recorded when and only when a node demonstrates the fault.               *)
THEOREM KillsAreExact == Spec => []KillsAreDemonstrated
<1>1. CaseInv => KillsAreDemonstrated
  BY DEF CaseInv
<1> QED BY <1>1, CaseAlways, PTL

(* The suite is only handed marks it knows what to do with.                 *)
THEOREM MarksAreAlwaysSound == Spec => []MarksAreSound
<1>1. CaseInv => MarksAreSound
  BY DEF CaseInv
<1> QED BY <1>1, CaseAlways, PTL

(***************************************************************************)
(* The retry oracle of an accepted answer.                                 *)
(***************************************************************************)
(* The first position of a kind of line is its least.                       *)
LEMMA EarliestIsEarliest ==
  ASSUME NEW T \in SUBSET Nat, T # {}
  PROVE  Earliest(T) \in T /\ \A j \in T : Earliest(T) <= j
BY SmallestNumber DEF Earliest

(* The order the validator compares is the one the property asks for.       *)
LEMMA OrderedIsLedgerFirst ==
  ASSUME NEW S, NEW p \in Seq(S), OrderedOracle(p)
  PROVE  LedgerBeforeStatus(p)
<1> DEFINE first == Earliest(Requests(p))
           sent == Earliest(Retries(p))
           ledger == Earliest(Asserting(p, "ledger"))
           earlier == {p[i].send : i \in 1..sent-1} \ {None}
<1>1. DOMAIN p \subseteq Nat /\ \A i \in DOMAIN p : 1..i \subseteq DOMAIN p
  OBVIOUS
<1>2. Retries(p) # {} /\ Retries(p) \subseteq Requests(p) /\ Requests(p) \subseteq DOMAIN p
  BY DEF OrderedOracle, Retries, Requests
<1>3. Asserting(p, "ledger") # {} /\ Asserting(p, "ledger") \subseteq DOMAIN p
  BY DEF OrderedOracle, Asserting
<1>4. first \in Requests(p) /\ \A i \in Requests(p) : first <= i
  BY <1>1, <1>2, EarliestIsEarliest
<1>5. sent \in Retries(p) /\ \A i \in Retries(p) : sent <= i
  BY <1>1, <1>2, EarliestIsEarliest
<1>6. ledger \in Asserting(p, "ledger")
  BY <1>1, <1>3, EarliestIsEarliest
<1>7. /\ p[first].send # None /\ p[sent].send # None /\ p[sent].send # p[first].send
      /\ RetryResponse(p) = p[sent].send
  BY <1>4, <1>5 DEF Retries, Requests, RetryResponse
<1>8. earlier = {p[first].send}
  <2> HIDE DEF first, sent
  <2>1. first \in Nat /\ sent \in Nat /\ first >= 1 /\ sent \in DOMAIN p /\ first <= sent /\ first # sent
    BY <1>2, <1>4, <1>5, <1>7
  <2>2. first \in 1..sent-1
    BY <2>1
  <2>3. ASSUME NEW i \in 1..sent-1, p[i].send # None PROVE p[i].send = p[first].send
    <3>1. i \in Requests(p)
      BY <1>1, <2>1, <2>3 DEF Requests
    <3>2. i \notin Retries(p)
      BY <1>5, <2>1
    <3> QED BY <3>1, <3>2 DEF Retries, first
  <2> QED BY <1>7, <2>2, <2>3
<1>9. Cardinality(earlier) = 1
  BY <1>8, FS_Singleton
<1>10. ASSUME NEW i \in 1..ledger-1 PROVE p[sent].send \notin p[i].checks
  <2> DEFINE statuses == Asserting(p, p[sent].send)
  <2>1. statuses = {} \/ ledger <= Earliest(statuses)
    BY <1>7 DEF OrderedOracle
  <2>2. i \in DOMAIN p /\ ledger \in Nat /\ i < ledger
    BY <1>1, <1>6 DEF Asserting
  <2>3. statuses \subseteq DOMAIN p
    BY DEF Asserting
  <2> HIDE DEF ledger
  <2>4. ASSUME i \in statuses PROVE FALSE
    <3> HIDE DEF statuses
    <3>1. Earliest(statuses) <= i /\ Earliest(statuses) \in Nat
      BY <1>1, <2>3, <2>4, EarliestIsEarliest
    <3> QED BY <2>1, <2>2, <2>4, <3>1
  <2> QED BY <2>2, <2>4 DEF Asserting
<1>11. sent \in DOMAIN p /\ ledger \in DOMAIN p /\ "ledger" \in p[ledger].checks
  BY <1>2, <1>5, <1>6 DEF Asserting
<1> HIDE DEF sent, ledger
<1> QED BY <1>7, <1>8, <1>9, <1>10, <1>11 DEF LedgerBeforeStatus

OracleInv ==
  /\ scanPC \in {"prepared", "asked", "write"} => (enforced <=> PlanDemandsOracle)
  /\ scanPC = "write" => analysis = NoFindings \/ analysis \in Answers
  /\ scanPC = "write" /\ enforced => OracleFirst(analysis)

(* A case starts without an accepted answer.                                *)
LEMMA InitOracle == Init => OracleInv
BY DEF Init, ScanInit, OracleInv

(* An answer is accepted only in the order its plan demands.                *)
LEMMA StepOracle == OracleInv /\ [Next]_vars => OracleInv'
<1> SUFFICES ASSUME OracleInv, [Next]_vars PROVE OracleInv'
  OBVIOUS
<1>1. CASE UNCHANGED scanVars /\ (UNCHANGED target \/ scanPC = "prepare")
  BY <1>1 DEF scanVars, OracleInv, PlanDemandsOracle, PlanSignal
<1>2. CASE Scan
  <2>1. CASE agent # "baseline" /\ scanPC = "prepare" /\ MapNext /\ UNCHANGED scanVars
    BY <1>1, <2>1
  <2>2. CASE Prepare
    BY <2>2 DEF Prepare, mapVars, OracleInv, PlanDemandsOracle, PlanSignal
  <2>3. CASE SendPrompt
    BY <2>3 DEF SendPrompt, OracleInv, PlanDemandsOracle, PlanSignal
  <2>4. CASE ReceiveAnswer
    <3>1. UNCHANGED <<agent, enforced, target>> /\ scanPC = "asked"
      BY <2>4 DEF ReceiveAnswer, mapVars
    <3>2. scanPC' = "write" => analysis' \in Answers /\ (enforced => OracleFirst(analysis'))
      BY <2>4 DEF ReceiveAnswer, Accepted
    <3>3. OracleFirst(analysis)' <=> OracleFirst(analysis')
      BY DEF OracleFirst
    <3>4. scanPC' \in {"write", "model_error", "aborted"}
      BY <2>4 DEF ReceiveAnswer
    <3> QED BY <3>1, <3>2, <3>3, <3>4 DEF OracleInv, PlanDemandsOracle, PlanSignal
  <2>5. CASE MockAnswers
    <3>1. UNCHANGED <<agent, enforced, target>> /\ scanPC = "asked" /\ scanPC' = "write"
      BY <2>5 DEF MockAnswers, mapVars
    <3>2. analysis' = NoFindings /\ OracleFirst(analysis)'
      BY <2>5 DEF MockAnswers, OracleFirst, NoFindings
    <3> QED BY <3>1, <3>2 DEF OracleInv, PlanDemandsOracle, PlanSignal
  <2>6. CASE WriteRun
    BY <2>6 DEF WriteRun, OracleInv
  <2> QED BY <1>2, <2>1, <2>2, <2>3, <2>4, <2>5, <2>6 DEF Scan, ScanNext
<1>3. CASE ModelOutputError \/ NoTest \/ Abort
  BY <1>1, <1>3 DEF ModelOutputError, NoTest, Abort, ScanIsAll, mapVars
<1>4. CASE RunClean \/ RunMutant \/ BuildDifferential \/ VerifyInputs \/ Record
  BY <1>1, <1>4 DEF RunClean, RunMutant, BuildDifferential, VerifyInputs, Record, mapVars
<1>5. CASE UNCHANGED vars
  BY <1>1, <1>5 DEF vars, mapVars
<1> QED BY <1>2, <1>3, <1>4, <1>5 DEF Next

(* For any repository and any answer: what the stateful agent accepts for a *)
(* volatile effect asserts the ledger before the status of the retry,       *)
(* whatever the case before had for a plan.                                 *)
THEOREM OracleIsFirst == Spec => []RetryOracleFirst
<1>1. OracleInv => RetryOracleFirst
  <2> SUFFICES ASSUME OracleInv, scanPC = "write", PlanDemandsOracle,
                      NEW i \in DOMAIN analysis.findings
               PROVE  LET p == analysis.tests[analysis.findings[i].test]
                      IN  p # None /\ LedgerBeforeStatus(p)
    BY DEF RetryOracleFirst, AcceptedFinding, PlanDemandsOracle, PlanSignal
  <2> DEFINE p == analysis.tests[analysis.findings[i].test]
  <2>1. p # None /\ OrderedOracle(p)
    BY DEF OracleInv, OracleFirst
  <2>2. analysis \in Answers
    BY DEF OracleInv, NoFindings
  <2>3. p \in Seq(Range(p))
    BY <2>1, <2>2, ScannerAssumption DEF ScannerAssumption
  <2> HIDE DEF p
  <2>4. LedgerBeforeStatus(p)
    BY <2>1, <2>3, OrderedIsLedgerFirst
  <2> QED BY <2>1, <2>4 DEF p
<1> QED BY <1>1, InitOracle, StepOracle, PTL DEF Spec

(***************************************************************************)
(* What the prompt shows.                                                  *)
(***************************************************************************)
Parsed == {PythonFiles[i] : i \in {j \in DOMAIN status : status[j] = "parsed"}}

RouteInv ==
  /\ status \in Seq({"ignored", "broken", "parsed"}) /\ Len(status) <= Len(PythonFiles)
  /\ mapPC \in {"routes", "search"} => status # <<>> /\ status[Len(status)] = "parsed"
  /\ Sources \subseteq Parsed
  /\ agent = "baseline" /\ scanPC = "prepare" => routes = {}
  /\ RoutesComeFirst

(* A file that has routes was parsed, so the collector reads it too.        *)
LEMMA SourcesMayBeRead ==
  ASSUME RouteInv, NEW readable \in MayBeRead, agent # "baseline"
  PROVE  Sources \subseteq readable
<1>1. DOMAIN status \subseteq DOMAIN PythonFiles
  BY ContractMapAssumption DEF ContractMapAssumption, RouteInv
<1>2. Parsed \subseteq Range(PythonFiles) \ IgnoredByMap
  BY <1>1, PathsAssumption DEF PathsAssumption, Parsed, IgnoredByMap, Range, IsInjective
<1> QED BY <1>2 DEF RouteInv, MayBeRead

(* What fits of the files is either of files with routes alone or has all   *)
(* of them.                                                                 *)
LEMMA FittingRoutesFirst ==
  ASSUME NEW readable, Sources \subseteq readable, NEW S \in Fitting(readable)
  PROVE  S \subseteq Sources \/ Sources \subseteq S
BY DEF Fitting, Before

(* A scan starts without routes.                                            *)
LEMMA InitRoutes == Init => RouteInv
BY DEF Init, ScanInit, MapInit, RouteInv, Sources, Parsed, RoutesComeFirst

(* A parsed file stays parsed, and only such a file adds a route.           *)
LEMMA MapRoutes ==
  ASSUME RouteInv, MapNext, UNCHANGED scanVars, scanPC = "prepare", agent # "baseline"
  PROVE  RouteInv'
<1>1. RoutesComeFirst' /\ (agent' # "baseline")
  BY DEF scanVars, RoutesComeFirst
<1>2. Len(PythonFiles) \in Nat
  BY ContractMapAssumption DEF ContractMapAssumption
<1>3. CASE SkipFile \/ ParseFile
  <2>1. PICK what \in {"ignored", "broken", "parsed"} :
          /\ status' = Append(status, what) /\ Len(status) < Len(PythonFiles) /\ routes' = routes
          /\ mapPC' \in {"routes", "search"} => what = "parsed"
    BY <1>3 DEF SkipFile, ParseFile, MoreFiles
  <2>2. /\ status' \in Seq({"ignored", "broken", "parsed"}) /\ Len(status') = Len(status) + 1
        /\ status'[Len(status')] = what /\ status' # <<>>
        /\ \A j \in DOMAIN status : j \in DOMAIN status' /\ status'[j] = status[j]
    BY <2>1 DEF RouteInv
  <2>3. Parsed \subseteq Parsed'
    BY <2>2 DEF Parsed
  <2>4. Sources' = Sources
    BY <2>1 DEF Sources
  <2> QED BY <1>1, <1>2, <2>1, <2>2, <2>3, <2>4 DEF RouteInv
<1>4. CASE RouteDone
  <2>1. /\ routes' = routes \cup {[place |-> tree[root].route, source |-> LastFile,
                                   signals |-> RiskSignals(Facts(tree, root, seen))]}
        /\ mapPC = "search" /\ mapPC' = "routes" /\ UNCHANGED status
    BY <1>4 DEF RouteDone
  <2>2. Sources' \subseteq Sources \cup {LastFile}
    <3> DEFINE signals == RiskSignals(Facts(tree, root, seen))
    <3>1. routes' = routes \cup {[place |-> tree[root].route, source |-> LastFile, signals |-> signals]}
      BY <2>1
    <3> HIDE DEF signals
    <3>2. \A r \in routes' : r \in routes \/ r.source = LastFile
      BY <3>1
    <3> QED BY <3>2 DEF Sources
  <2>3. LastFile \in Parsed
    BY <2>1 DEF LastFile, Parsed, RouteInv
  <2>4. Parsed' = Parsed
    BY <2>1 DEF Parsed
  <2> QED BY <1>1, <2>1, <2>2, <2>3, <2>4 DEF RouteInv
<1>5. CASE StartSearch \/ Visit \/ FileDone \/ MapDone
  <2>1. UNCHANGED <<status, routes>> /\ (mapPC' \in {"routes", "search"} => mapPC \in {"routes", "search"})
    BY <1>5 DEF StartSearch, Visit, FileDone, MapDone
  <2>2. Sources' = Sources /\ Parsed' = Parsed
    BY <2>1 DEF Sources, Parsed
  <2> QED BY <1>1, <2>1, <2>2 DEF RouteInv
<1> QED BY <1>3, <1>4, <1>5 DEF MapNext

(* Every step of a case keeps the routes first.                             *)
LEMMA StepRoutes == RouteInv /\ [Next]_vars => RouteInv'
<1> SUFFICES ASSUME RouteInv, [Next]_vars PROVE RouteInv'
  OBVIOUS
<1>1. CASE UNCHANGED <<mapVars, scanVars>>
  BY <1>1 DEF mapVars, scanVars, RouteInv, Sources, Parsed, RoutesComeFirst
<1>2. CASE UNCHANGED mapVars /\ scanPC' \notin {"prepare", "prepared"}
  BY <1>2 DEF mapVars, RouteInv, Sources, Parsed, RoutesComeFirst
<1>3. CASE Prepare
  <2>1. /\ UNCHANGED mapVars /\ UNCHANGED agent /\ scanPC' = "prepared" /\ scanPC = "prepare"
    BY <1>3 DEF Prepare
  <2>2. PICK readable \in MayBeRead : context' \in Fitting(readable)
    BY <1>3 DEF Prepare
  <2>3. context' \subseteq Sources \/ Sources \subseteq context'
    <3>1. CASE agent = "baseline"
      BY <2>1, <3>1 DEF RouteInv, Sources
    <3>2. CASE agent # "baseline"
      BY <2>2, <3>2, SourcesMayBeRead, FittingRoutesFirst
    <3> QED BY <3>1, <3>2
  <2>4. Sources' = Sources /\ Parsed' = Parsed
    BY <2>1 DEF mapVars, Sources, Parsed
  <2> QED BY <2>1, <2>3, <2>4 DEF mapVars, RouteInv, RoutesComeFirst
<1>4. CASE SendPrompt
  <2>1. status' = <<>> /\ routes' = {} /\ mapPC' = "used" /\ scanPC' = "asked"
    BY <1>4 DEF SendPrompt
  <2> QED BY <2>1, ContractMapAssumption DEF ContractMapAssumption, RouteInv, Sources, Parsed, RoutesComeFirst
<1>5. CASE ReceiveAnswer \/ MockAnswers
  BY <1>2, <1>5 DEF ReceiveAnswer, MockAnswers
<1>6. CASE WriteRun
  BY <1>6 DEF WriteRun, RouteInv, Sources, Parsed, RoutesComeFirst
<1>7. CASE Scan
  BY <1>3, <1>4, <1>5, <1>6, <1>7, MapRoutes DEF Scan, ScanNext
<1>8. CASE ModelOutputError \/ NoTest \/ Abort
  BY <1>1, <1>8 DEF ModelOutputError, NoTest, Abort, ScanIsAll
<1>9. CASE RunClean \/ RunMutant \/ BuildDifferential \/ VerifyInputs \/ Record
  BY <1>1, <1>9 DEF RunClean, RunMutant, BuildDifferential, VerifyInputs, Record
<1>10. CASE UNCHANGED vars
  BY <1>1, <1>10 DEF vars
<1> QED BY <1>7, <1>8, <1>9, <1>10 DEF Next

(* For any repository, files that are skipped and sizes: no file without a  *)
(* route is in the prompt in the place of one that has routes.              *)
THEOREM RoutesAreFirst == Spec => []RoutesComeFirst
<1>1. RouteInv => RoutesComeFirst
  BY DEF RouteInv
<1> QED BY <1>1, InitRoutes, StepRoutes, PTL DEF Spec
(***************************************************************************)
(* The mapper within the case: the prompt ends its work, and what is       *)
(* dropped then is never read again.                                       *)
(***************************************************************************)
MapUsed == scanPC \notin {"prepare", "prepared"} => mapPC = "used"
MapOfCase == MapInv /\ FlowInv /\ TargetInv /\ MapUsed

(* A case starts with a mapper that starts.                                 *)
LEMMA InitMapOfCase == Init => MapOfCase
BY InitMap, InitFlow, InitTarget DEF Init, ScanInit, MapOfCase, MapUsed

(* A step of a case is one of the mapper, or drops the map, or leaves alone *)
(* what can still be read of it.                                            *)
LEMMA StepMapOfCase == MapOfCase /\ [Next]_vars => MapOfCase'
<1> SUFFICES ASSUME MapOfCase, [Next]_vars PROVE MapOfCase'
  OBVIOUS
<1>1. CASE [MapNext]_mapVars /\ MapUsed'
  BY <1>1, StepMap, StepFlow, StepTarget DEF MapOfCase
<1>2. CASE SendPrompt
  <2>1. mapPC' = "used" /\ status' = <<>> /\ flows' = {}
    BY <1>2 DEF SendPrompt
  <2> QED BY <2>1 DEF MapOfCase, MapInv, FlowInv, TargetInv, MapUsed
<1>3. CASE WriteRun
  <2>1. mapPC = "used" /\ UNCHANGED <<mapPC, status, flows>>
    BY <1>3 DEF WriteRun, MapOfCase, MapUsed
  <2> QED BY <2>1 DEF MapOfCase, MapInv, FlowInv, TargetInv, MapUsed
<1>4. CASE UNCHANGED <<mapVars, scanVars>>
  BY <1>1, <1>4 DEF mapVars, scanVars, MapOfCase, MapUsed
<1>5. CASE Prepare \/ ReceiveAnswer \/ MockAnswers
  <2>1. UNCHANGED mapVars /\ (scanPC' \notin {"prepare", "prepared"} => scanPC \notin {"prepare", "prepared"})
    BY <1>5 DEF Prepare, ReceiveAnswer, MockAnswers
  <2> QED BY <1>1, <2>1 DEF mapVars, MapOfCase, MapUsed
<1>6. CASE Scan
  <2>1. CASE scanPC = "prepare" /\ MapNext /\ UNCHANGED scanVars
    BY <1>1, <2>1 DEF scanVars, MapUsed
  <2> QED BY <1>2, <1>3, <1>5, <1>6, <2>1 DEF Scan, ScanNext
<1>7. CASE ModelOutputError \/ NoTest \/ Abort
  BY <1>4, <1>7 DEF ModelOutputError, NoTest, Abort, ScanIsAll
<1>8. CASE RunClean \/ RunMutant \/ BuildDifferential \/ VerifyInputs \/ Record
  BY <1>4, <1>8 DEF RunClean, RunMutant, BuildDifferential, VerifyInputs, Record
<1>9. CASE UNCHANGED vars
  BY <1>4, <1>9 DEF vars
<1> QED BY <1>6, <1>7, <1>8, <1>9 DEF Next

(* The map of a case stays what the mapper made it, until it is dropped.    *)
LEMMA MapOfCaseAlways == Spec => []MapOfCase
BY InitMapOfCase, StepMapOfCase, PTL DEF Spec

(* In every scan of a case the search finds what the handler reaches.       *)
THEOREM SearchOfCaseIsExact == Spec => []SearchFindsCalled
<1>1. MapOfCase => SearchFindsCalled
  BY SearchEnds DEF MapOfCase, MapInv, SearchFindsCalled
<1> QED BY <1>1, MapOfCaseAlways, PTL

(* In every scan of a case the plan aims at the worst flow of the           *)
(* repository.                                                              *)
THEOREM TargetOfCaseIsWorst == Spec => []TargetIsWorstFlow
<1>1. MapOfCase => TargetIsWorstFlow
  BY TargetInvIsWorst DEF MapOfCase
<1> QED BY <1>1, MapOfCaseAlways, PTL
=============================================================================
