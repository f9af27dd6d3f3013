------------------------------ MODULE Scanner ------------------------------
(***************************************************************************)
(* One scan of a case by one of the three agents: BaselineScanner.scan of   *)
(* baseline/scanner.py with what ContractScanner and StatefulScanner        *)
(* override, the context of baseline/repository.py, and the response models *)
(* of contract/schema.py and stateful/validation.py.  The provider is       *)
(* ModelCall, what the model writes is the choice of the environment.       *)
(***************************************************************************)
EXTENDS ContractMap

CONSTANTS
  Paths,    \* all files with an allowed suffix, sorted; *.py among them
  Tests,    \* names of test functions
  Answers   \* what a model may answer

(* An answer has the invariant ids it defines, the findings, each with a    *)
(* test and an invariant id, and the test code: blank, broken (no Python)   *)
(* or a module, whose text has "def t(" for the t in `mentions` and which   *)
(* defines the functions that are not None in `tests`.  A function is a     *)
(* sequence of lines; a line sends a request and keeps its response in      *)
(* `send`, or asserts something about the ledger or the status of the       *)
(* responses in `checks`.                                                   *)
NoFindings ==
  [invariants |-> <<>>, findings |-> <<>>, code |-> "blank", mentions |-> {},
   tests |-> [t \in Tests |-> None]]

ASSUME PathsAssumption ==
  IsInjective(Paths) /\ IsInjective(PythonFiles) /\ Range(PythonFiles) \subseteq Range(Paths)

ASSUME ScannerAssumption ==
  \A a \in Answers : \A i \in DOMAIN a.findings :
    LET p == a.tests[a.findings[i].test] IN p # None => p \in Seq(Range(p))

VARIABLES
  scanPC,    \* prepare | prepared | asked | write | scanned | model_error | aborted
  agent,     \* the agent's name
  enforced,  \* the response model of the stateful agent demands the retry oracle
  context,   \* the files whose text is in the prompt
  outcome,   \* of the provider call
  analysis,  \* the accepted answer
  report     \* what report.json and generated_tests keep of it

scanVars == <<scanPC, agent, enforced, context, outcome, analysis, report>>
Call == INSTANCE ModelCall

(* The response model is that of the case before.                           *)
ScanInit ==
  /\ MapInit /\ scanPC = "prepare"
  /\ agent \in {"baseline", "contract_mapper", "stateful_attacker"}
  /\ enforced \in (IF agent = "stateful_attacker" THEN BOOLEAN ELSE {FALSE})
  /\ context = {} /\ outcome = None /\ analysis = None /\ report = None

-----------------------------------------------------------------------------
(* collect_repository_context takes the sources of the routes first, then   *)
(* the other files, each in the order of the paths, up to the first that    *)
(* does not fit.                                                            *)
Sources == {r.source : r \in routes}
Place(f) == CHOOSE i \in DOMAIN Paths : Paths[i] = f
Before(f, g) ==
  \/ f \in Sources /\ g \notin Sources
  \/ (f \in Sources <=> g \in Sources) /\ Place(f) < Place(g)

\* A mutant: a file that does not fit is passed over.
WhatFits(readable) == SUBSET readable
Fitting(readable) ==
  {S \in SUBSET readable : \A g \in S : \A f \in readable : Before(f, g) => f \in S}

(* The mapper and the collector pass over the same Python files.            *)
IgnoredByMap == {PythonFiles[i] : i \in {j \in DOMAIN status : status[j] = "ignored"}}
MayBeRead == {S \in SUBSET Range(Paths) :
                agent # "baseline" => S \cap Range(PythonFiles) = Range(PythonFiles) \ IgnoredByMap}

(* build_attack_plan: what it is about.                                     *)
PlanSignal == IF target = None THEN None ELSE TargetSignal[target[1]]

\* A mutant: the response model of the first case stays.
KeepModel == enforced
PlanDemandsOracle ==
  agent = "stateful_attacker" /\ PlanSignal = "unstable_external_effect_identity"

(* _prepare_repository.                                                     *)
Prepare ==
  /\ scanPC = "prepare" /\ (agent = "baseline" \/ mapPC = "mapped")
  /\ scanPC' = "prepared"
  /\ \E readable \in MayBeRead : context' \in Fitting(readable)
  /\ enforced' = PlanDemandsOracle
  /\ UNCHANGED <<agent, outcome, analysis, report>> /\ UNCHANGED mapVars

-----------------------------------------------------------------------------
(* ContractAnalysis.validate_invariant_links.                               *)
Linked(a) ==
  /\ IsInjective(a.invariants)
  /\ \A i \in DOMAIN a.findings :
       /\ a.findings[i].invariant \in Range(a.invariants)
       /\ a.findings[i].test \in a.mentions
  /\ a.findings # <<>> => a.code # "blank"

(* _validate_retry_oracle_order of one test: the first line that asserts    *)
(* the status of the second response does not precede the first line that   *)
(* asserts the ledger.                                                      *)
Requests(p) == {i \in DOMAIN p : p[i].send # None}
Earliest(S) == CHOOSE i \in S : \A j \in S : i <= j
Retries(p) == {i \in Requests(p) : p[i].send # p[Earliest(Requests(p))].send}
RetryResponse(p) == p[Earliest(Retries(p))].send
Asserting(p, what) == {i \in DOMAIN p : what \in p[i].checks}

OrderedOracle(p) ==
  /\ Retries(p) # {} /\ Asserting(p, "ledger") # {}
  /\ LET statuses == Asserting(p, RetryResponse(p))
     IN  statuses = {} \/ Earliest(Asserting(p, "ledger")) <= Earliest(statuses)

(* StatefulAnalysis.validate_stateful_oracle.                               *)
OracleFirst(a) ==
  \A i \in DOMAIN a.findings :
     LET p == a.tests[a.findings[i].test]
     IN  a.code = "module" /\ p # None /\ OrderedOracle(p)

Accepted(a) ==
  /\ agent # "baseline" => Linked(a)
  /\ enforced => OracleFirst(a)

(* The prompt leaves for the provider.  Of the map, only what the plan says *)
(* matters from here on.                                                    *)
SendPrompt ==
  /\ scanPC = "prepared" /\ scanPC' = "asked"
  /\ mapPC' = "used" /\ status' = <<>> /\ routes' = {} /\ flows' = {} /\ context' = {}
  /\ UNCHANGED <<tree, pending, root, queue, seen, target>>
  /\ UNCHANGED <<agent, enforced, outcome, analysis, report>>

(* provider.generate_json with the response model; a response error becomes *)
(* an evaluation, any other exception ends the suite.                       *)
ReceiveAnswer ==
  /\ scanPC = "asked" /\ Call!Ask
  /\ \/ outcome'.kind = "ok" /\ scanPC' = "write" /\ analysis' \in {a \in Answers : Accepted(a)}
     \/ outcome'.kind = "response" /\ scanPC' = "model_error" /\ UNCHANGED analysis
     \/ outcome'.kind = "error" /\ scanPC' = "aborted" /\ UNCHANGED analysis
  /\ UNCHANGED <<mapVars, agent, enforced, context, report>>

(* MockProvider.generate_json.                                              *)
MockAnswers ==
  /\ scanPC = "asked" /\ scanPC' = "write"
  /\ outcome' = Call!Success(0) /\ analysis' = NoFindings
  /\ UNCHANGED <<mapVars, agent, enforced, context, report>>

(* The rest of scan: of all it writes, the suite reads the report and the   *)
(* generated test, if there is one.                                         *)
WriteRun ==
  /\ scanPC = "write" /\ scanPC' = "scanned"
  /\ report' = [tested |-> analysis.code # "blank",
                findings |-> [t \in Tests |->
                  Cardinality({i \in DOMAIN analysis.findings : analysis.findings[i].test = t})]]
  /\ agent' = None /\ enforced' = FALSE /\ outcome' = None /\ analysis' = None /\ target' = None
  /\ UNCHANGED <<mapPC, status, tree, pending, root, queue, seen, routes, flows, context>>

ScanNext ==
  \/ agent # "baseline" /\ scanPC = "prepare" /\ MapNext /\ UNCHANGED scanVars
  \/ Prepare \/ SendPrompt \/ ReceiveAnswer \/ MockAnswers \/ WriteRun

-----------------------------------------------------------------------------
(* Properties.                                                              *)

(* Whatever the sizes of the files, no file without a route takes the place *)
(* of one that has routes ("Route source files are prioritized within the   *)
(* same bounded context budget", docs/ARCHITECTURE.md).                     *)
RoutesComeFirst ==
  scanPC = "prepared" => context \subseteq Sources \/ Sources \subseteq context

(* When the worst flow of this repository has a volatile effect identity,   *)
(* every finding the stateful agent accepts comes with a test that sends    *)
(* two requests and asserts the ledger before the status of the second;     *)
(* whatever the case before had for a plan (docs/ARCHITECTURE.md).          *)
AcceptedFinding(Holds(_)) ==
  scanPC = "write" /\ agent = "stateful_attacker" /\ target # None
    /\ TargetSignal[target[1]] = "unstable_external_effect_identity" =>
    \A i \in DOMAIN analysis.findings :
       LET p == analysis.tests[analysis.findings[i].test]
       IN  p # None /\ Holds(p)
LedgerBeforeStatus(p) ==
  \E sent \in DOMAIN p, ledger \in DOMAIN p :
     LET earlier == {p[i].send : i \in 1..sent-1} \ {None}
     IN  /\ Cardinality(earlier) = 1 /\ p[sent].send \notin earlier \cup {None}
         /\ "ledger" \in p[ledger].checks
         /\ \A i \in 1..ledger-1 : p[sent].send \notin p[i].checks
RetryOracleFirst == AcceptedFinding(LedgerBeforeStatus)

(* "assert the provider ledger/effect count after the retry"                *)
(* (stateful/validation.py): an assertion made before it shows nothing of   *)
(* what the retry did.                                                      *)
LedgerAfterRetry(p) ==
  \E ledger \in DOMAIN p : "ledger" \in p[ledger].checks
     /\ \E sent \in Retries(p) : sent < ledger
LedgerAssertedAfterRetry == AcceptedFinding(LedgerAfterRetry)
=============================================================================
