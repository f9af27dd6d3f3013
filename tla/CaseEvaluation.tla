--------------------------- MODULE CaseEvaluation ---------------------------
(***************************************************************************)
(* The evaluation of one case: _run_case of benchmark/suite.py, from the    *)
(* scan of the case to the evaluation in the ledger, with the harness       *)
(* status of baseline/executor.py, the two backends, the node               *)
(* classification of benchmark/differential.py and the integrity checks of  *)
(* benchmark/artifacts.py.  The generated test runs against the clean       *)
(* program and, unless the case is the clean control C00, against the       *)
(* mutant; what the test process does is the choice of the environment.     *)
(***************************************************************************)
EXTENDS Scanner, CaseMarks

CONSTANTS
  Nodes,     \* the pytest node keys of a report
  BaseTest,  \* the test function of a node
  Reports,   \* the JUnit files a test process may leave, by node
  Exits      \* how the pytest process may end

(* A testcase of the JUnit file; an exception other than an assertion is an *)
(* error too.                                                               *)
Kinds == {"passed", "assertion_failure", "error", "skipped"}
(* What one node key occurs as: not at all, once, or (a duplicate) twice.   *)
Occurrences == {<<>>} \cup {<<k>> : k \in Kinds} \cup {<<"passed", "assertion_failure">>}
AllExits == {"timeout", "0_or_1", "2", "3", "4", "5", "other"}
NoReport == [n \in Nodes |-> <<>>]

ASSUME CaseAssumption ==
  /\ BaseTest \in [Nodes -> Tests]
  /\ Reports \subseteq [Nodes -> Occurrences] /\ Exits \subseteq AllExits
  /\ None \notin [exit : AllExits \cup {"not_executed"}, junit : [Nodes -> Occurrences]]

VARIABLES
  pc,         \* scan | mutant | classify | verify | record | done | aborted
  control,    \* the case is C00
  docker,     \* the execution backend
  clean, mutant, changed,  \* the executions, and what each of them modified
  nodes,      \* classification of each node that occurs
  evidence,   \* differential.json
  evaluation  \* what _run_case returns

caseVars == <<pc, control, docker, clean, mutant, changed, nodes, evidence, evaluation>>
vars == <<mapVars, scanVars, caseVars>>

Init ==
  /\ ScanInit
  /\ pc = "scan" /\ control \in BOOLEAN /\ docker \in BOOLEAN
  /\ clean = None /\ mutant = None /\ changed = [clean |-> "nothing", mutant |-> "nothing"]
  /\ nodes = None /\ evidence = None /\ evaluation = None

-----------------------------------------------------------------------------
(* The scan, and the ways of _run_case that end with it.                    *)
Scan == pc = "scan" /\ ScanNext /\ UNCHANGED caseVars

NoMarks == [marks |-> {}, candidate |-> FALSE]
ScanIsAll(pcNext, result) ==
  /\ pc = "scan" /\ pc' = pcNext /\ evaluation' = result
  /\ UNCHANGED <<control, docker, clean, mutant, changed, nodes, evidence>>
  /\ UNCHANGED <<mapVars, scanVars>>
ModelOutputError == scanPC = "model_error" /\ ScanIsAll("done", NoMarks)
NoTest == scanPC = "scanned" /\ ~report.tested /\ ScanIsAll("done", NoMarks)
Abort == scanPC = "aborted" /\ ScanIsAll("aborted", None)

-----------------------------------------------------------------------------
(* ExecutionResult.harness_status: the first that applies.                  *)
Occurs(x, n) == x.junit[n] # <<>>
HasErrorNode(x) == \E n \in Nodes : \E i \in DOMAIN x.junit[n] : x.junit[n][i] = "error"
HarnessStatus(x) ==
  CASE x.exit = "not_executed" -> "not_executed"
    [] x.exit = "timeout" -> "timeout"
    [] x.exit = "2" -> "interrupted"
    [] x.exit = "3" -> "internal_error"
    [] x.exit = "4" -> "usage_error"
    [] x.exit = "5" -> "no_tests"
    [] x.exit = "other" -> "spawn_error"
    [] x.exit = "0_or_1" ->
         IF \A n \in Nodes : ~Occurs(x, n) THEN "junit_error"
         ELSE IF HasErrorNode(x) THEN "complete_with_node_errors" ELSE "complete"

Scoreable(x) == HarnessStatus(x) = "complete"
InfrastructureError(x) ==
  HarnessStatus(x) \in {"not_executed", "internal_error", "usage_error", "spawn_error", "junit_error"}

(* _unique_nodes: a key that occurs twice is an error.                      *)
Outcome(x, n) ==
  IF Len(x.junit[n]) = 1 THEN x.junit[n][1]
  ELSE IF Occurs(x, n) THEN "duplicate" ELSE "missing"
Eligible(kind) == kind \in {"passed", "assertion_failure"}

MapsToFinding(n) == report.findings[BaseTest[n]] = 1

(* _classify_node.                                                          *)
Classification(n) ==
  LET c == Outcome(clean, n)
      m == Outcome(mutant, n)
  IN  CASE ~Scoreable(clean) -> "invalid"
        [] Scoreable(clean) /\ ~control /\ ~Scoreable(mutant) -> "invalid"
        [] OTHER ->
             CASE c = "missing" -> "invalid"
               [] c = "assertion_failure" -> "clean_false_positive"
               [] c \notin {"missing", "assertion_failure", "passed"} -> "invalid"
               [] c = "passed" ->
                    IF control THEN "clean_pass"
                    ELSE IF ~Eligible(m) THEN "invalid"
                    ELSE IF m = "passed" THEN "survived"
                    ELSE IF MapsToFinding(n) THEN "candidate_kill" ELSE "unmatched"

Occurring == {n \in Nodes : Occurs(clean, n) \/ (~control /\ Occurs(mutant, n))}

-----------------------------------------------------------------------------
(* run_generated_pytest runs the test as a process that can write to the    *)
(* repository and to the test; an OSError counts as a failed spawn.         *)
LocalExecutions ==
  [exit : Exits, junit : Reports] \cup {[exit |-> "other", junit |-> NoReport]}

(* run_restricted_pytest mounts both read-only in a container; an OSError   *)
(* counts as not executed.                                                  *)
RestrictedExecutions ==
  [exit : Exits, junit : Reports] \cup {[exit |-> "not_executed", junit |-> NoReport]}

(* _run_neutral_execution: the repository and the test file are hashed      *)
(* before and after.                                                        *)
Executions == IF docker THEN RestrictedExecutions ELSE LocalExecutions
Changes == IF docker THEN {"nothing"} ELSE {"nothing", "test", "repository"}

RunClean ==
  /\ pc = "scan" /\ scanPC = "scanned" /\ report.tested
  /\ pc' = IF control THEN "classify" ELSE "mutant"
  /\ clean' \in Executions
  /\ \E what \in Changes : changed' = [changed EXCEPT !.clean = what]
  /\ UNCHANGED <<mapVars, scanVars, control, docker, mutant, nodes, evidence, evaluation>>

RunMutant ==
  /\ pc = "mutant" /\ pc' = "classify"
  /\ mutant' \in Executions
  /\ \E what \in Changes : changed' = [changed EXCEPT !.mutant = what]
  /\ UNCHANGED <<mapVars, scanVars, control, docker, clean, nodes, evidence, evaluation>>

(* build_differential.                                                      *)
KillsIn(classified) == \E n \in DOMAIN classified : classified[n] = "candidate_kill"
BuildDifferential ==
  /\ pc = "classify" /\ pc' = "verify"
  /\ nodes' = [n \in Occurring |-> Classification(n)]
  /\ evidence' = [candidate |-> ~control /\ KillsIn(nodes')]
  /\ UNCHANGED <<mapVars, scanVars, control, docker, clean, mutant, changed, evaluation>>

\* A mutant: only the test file is compared.
TestChanged == "test" \in {changed.clean, changed.mutant}
IntegrityErrors == {changed.clean, changed.mutant} # {"nothing"}

(* integrity_errors and invalidate_differential, before the evidence is     *)
(* written.                                                                 *)
VerifyInputs ==
  /\ pc = "verify" /\ pc' = "record"
  /\ \/ /\ IntegrityErrors
        /\ nodes' = [n \in DOMAIN nodes |-> "invalid"]
        /\ evidence' = [candidate |-> FALSE]
     \/ ~IntegrityErrors /\ UNCHANGED <<nodes, evidence>>
  /\ UNCHANGED <<mapVars, scanVars, control, docker, clean, mutant, changed, evaluation>>

\* A mutant: the kill is taken from the nodes as they were classified first.
UncheckedKill == ~control /\ KillsIn([n \in Occurring |-> Classification(n)])
CandidateKill == evidence.candidate

MarksNow ==
  (IF CandidateKill THEN {KillMark} ELSE {})
    \cup (IF IntegrityErrors THEN {"integrity_error"} ELSE {})
    \cup (IF InfrastructureError(clean) \/ (~control /\ InfrastructureError(mutant))
          THEN {"infrastructure_error"} ELSE {})

(* The evaluation _run_case returns.                                        *)
Record ==
  /\ pc = "record" /\ pc' = "done"
  /\ evaluation' = [marks |-> MarksNow, candidate |-> CandidateKill]
  /\ UNCHANGED <<mapVars, scanVars, control, docker, clean, mutant, changed, nodes, evidence>>

Next ==
  \/ Scan \/ ModelOutputError \/ NoTest \/ Abort
  \/ RunClean \/ RunMutant \/ BuildDifferential \/ VerifyInputs \/ Record
Spec == Init /\ [][Next]_vars
-----------------------------------------------------------------------------
(* Properties.                                                              *)

(* A test demonstrates the fault when it passes on the clean program, fails *)
(* by assertion on the mutant, is named by exactly one finding, and nothing *)
(* else in the two runs casts doubt on it: both processes ended, no node    *)
(* erred, nothing was modified.                                             *)
Demonstrates(n) ==
  /\ ~control /\ None \notin {clean, mutant} /\ clean.exit = "0_or_1" /\ mutant.exit = "0_or_1"
  /\ clean.junit[n] = <<"passed">> /\ mutant.junit[n] = <<"assertion_failure">>
  /\ \A x \in {clean, mutant}, other \in Nodes : x.junit[other] # <<"error">>
  /\ report.findings[BaseTest[n]] = 1
  /\ changed = [clean |-> "nothing", mutant |-> "nothing"]

(* A case is a candidate kill exactly when a node of it demonstrates the    *)
(* fault (CHANGELOG, Differential evaluator v1).                            *)
KillsAreDemonstrated ==
  pc = "done" => (evaluation.candidate <=> \E n \in Nodes : Demonstrates(n))

(* What the suite is handed is one of the marks it expects: a kill never    *)
(* comes with doubt about the run, and never from the clean control.        *)
MarksAreSound ==
  pc = "done" =>
    /\ evaluation.marks \in Marks
    /\ control => KillMark \notin evaluation.marks
=============================================================================
