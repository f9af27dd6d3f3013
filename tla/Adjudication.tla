---------------------------- MODULE Adjudication ----------------------------
(***************************************************************************)
(* adjudicate_suite, src/edgecase_forge/benchmark/adjudication.py, on the  *)
(* files of a suite that SuiteRunner may still be writing.  A process is   *)
(* one `benchmark-adjudicate` invocation with its own decision file.       *)
(***************************************************************************)
EXTENDS SuiteRunner

CONSTANTS Adjudicators, MaxAdjudications  \* bound: invocations in a behaviour

Decisions == {"confirmed", "rejected"}
ASSUME AdjudicatorAssumption ==
  /\ Adjudicators # {} /\ MaxAdjudications \in Nat
  /\ \A broken \in {None, Empty, Garbled}, S \in SUBSET Pairs :
       broken \notin [decisions : [S -> Decisions], ledger : Seq(Evaluations), summary : Seq(Evaluations)]

VARIABLES
  adjudication,  \* adjudication.json: the decisions and the files they rest on
  adjudicationTmp, adjudicationHandle,
  overlay,       \* adjudicated-summary.json
  overlayTmp, overlayHandle,
  adjPC, cases, payload, invocations

decisionVars == <<adjudication, adjudicationTmp, adjudicationHandle>>
overlayVars  == <<overlay, overlayTmp, overlayHandle>>
adjVars == <<decisionVars, overlayVars, adjPC, cases, payload, invocations>>
vars == <<suiteVars, adjVars>>

DecisionFile == INSTANCE AtomicFile
  WITH Writers <- Adjudicators, file <- adjudication, tmp <- adjudicationTmp, handle <- adjudicationHandle
OverlayFile == INSTANCE AtomicFile
  WITH Writers <- Adjudicators, file <- overlay, tmp <- overlayTmp, handle <- overlayHandle

Candidates(evaluations) ==
  {evaluations[i].pair : i \in {j \in DOMAIN evaluations : "candidate" \in evaluations[j].marks}}

AdjInit ==
  /\ DecisionFile!FileInit /\ OverlayFile!FileInit
  /\ adjPC = [a \in Adjudicators |-> "off"]
  /\ cases = [a \in Adjudicators |-> <<>>]
  /\ payload = [a \in Adjudicators |-> None]
  /\ invocations = 0

AdjAt(a, label) == adjPC[a] = label
AdjGo(a, label) == adjPC' = [adjPC EXCEPT ![a] = label]

(* The inputs are there.                                                   *)
Adjudicate(a) ==
  /\ AdjAt(a, "off") /\ invocations < MaxAdjudications
  /\ config /\ Len(ledger) > 0 /\ summary # None
  /\ invocations' = invocations + 1 /\ AdjGo(a, "ledger")
  /\ UNCHANGED <<suiteVars, decisionVars, overlayVars, cases, payload>>

Adjudicable(evaluations) == Readable /\ Complete(evaluations)

(* A refusal, a kill and the end of the process alike.                     *)
AdjExit(a) ==
  /\ AdjGo(a, "off")
  /\ cases' = [cases EXCEPT ![a] = <<>>] /\ payload' = [payload EXCEPT ![a] = None]

(* read_progress, then the whole schedule must be there.                   *)
ReadLedger(a) ==
  /\ AdjAt(a, "ledger")
  /\ \/ /\ Adjudicable(ledger)
        /\ cases' = [cases EXCEPT ![a] = ledger] /\ AdjGo(a, "summary")
        /\ UNCHANGED payload
     \/ ~Adjudicable(ledger) /\ AdjExit(a)
  /\ UNCHANGED <<suiteVars, decisionVars, overlayVars, invocations>>

\* A mutant: the summary is not compared with the ledger.
AnySummary(a) == Complete(cases[a])
(* The summary must be readable and complete and hold the same evaluations; *)
(* the decision file must decide exactly the candidate kills.               *)
SummaryAgrees(a) == SummaryFile!Whole(summary) /\ Complete(summary) /\ summary = cases[a]

ReadSummary(a) ==
  /\ AdjAt(a, "summary")
  /\ \/ /\ SummaryAgrees(a)
        /\ \E d \in [Candidates(cases[a]) -> Decisions] :
             payload' = [payload EXCEPT ![a] = [decisions |-> d, ledger |-> None, summary |-> None]]
        /\ AdjGo(a, "hash") /\ UNCHANGED cases
     \/ AdjExit(a)   \* also a decision file of other candidates or another suite
  /\ UNCHANGED <<suiteVars, decisionVars, overlayVars, invocations>>

(* file_sha256 reads the files once more: what is hashed is what they hold  *)
(* now, not what was verified.                                              *)
HashFiles(a) ==
  /\ AdjAt(a, "hash") /\ AdjGo(a, "exists")
  /\ payload' = [payload EXCEPT ![a].ledger = ledger, ![a].summary = summary]
  /\ UNCHANGED <<suiteVars, decisionVars, overlayVars, cases, invocations>>

\* A mutant: an existing file is replaced.
AlwaysWrite(file, new) == "write"
(* _write_once: "write", "keep" an equal file, or "refuse" another one and  *)
(* one that cannot be read.                                                *)
WriteOnce(file, new) ==
  IF file = None THEN "write" ELSE IF file = new THEN "keep" ELSE "refuse"

Confirmed(d) == {p \in DOMAIN d : d[p] = "confirmed"}
\* A mutant: every blocker is lifted.
NoBlockers(evaluations) == {}
(* _build_adjudicated_summary: only pending_adjudication is lifted.        *)
OverlayBlockers(evaluations) == Blockers(evaluations) \ {"pending_adjudication"}
OverlayOf(adj, verified) ==
  [of |-> adj, confirmed |-> Confirmed(adj.decisions),
   blockers |-> OverlayBlockers(verified)]

(* The test whether adjudication.json exists, then its replacement through  *)
(* write_json_atomic.  Where another invocation has moved the temporary     *)
(* file away this one can only end: AdjDie.                                 *)
CheckAdjudication(a) ==
  LET verdict == WriteOnce(adjudication, payload[a]) IN
  /\ AdjAt(a, "exists")
  /\ \/ verdict = "write" /\ AdjGo(a, "open") /\ UNCHANGED <<cases, payload>>
     \/ verdict = "keep" /\ AdjGo(a, "overlay") /\ UNCHANGED <<cases, payload>>
     \/ verdict = "refuse" /\ AdjExit(a)
  /\ UNCHANGED <<suiteVars, decisionVars, overlayVars, invocations>>

WriteAdjudication(a) ==
  /\ \/ AdjAt(a, "open") /\ AdjGo(a, "write") /\ DecisionFile!Open(a)
     \/ AdjAt(a, "write") /\ AdjGo(a, "replace") /\ DecisionFile!Write(a, payload[a])
     \/ AdjAt(a, "replace") /\ AdjGo(a, "overlay") /\ DecisionFile!Move(a)
  /\ UNCHANGED <<suiteVars, overlayVars, cases, payload, invocations>>

(* The same for adjudicated-summary.json; the process ends with a file that *)
(* is equal, and with one that is not.                                      *)
CheckOverlay(a) ==
  LET verdict == WriteOnce(overlay, OverlayOf(payload[a], cases[a])) IN
  /\ AdjAt(a, "overlay")
  /\ \/ verdict = "write" /\ AdjGo(a, "open_overlay") /\ UNCHANGED <<cases, payload>>
     \/ verdict # "write" /\ AdjExit(a)
  /\ UNCHANGED <<suiteVars, decisionVars, overlayVars, invocations>>

WriteOverlay(a) ==
  /\ \/ /\ AdjAt(a, "open_overlay") /\ AdjGo(a, "write_overlay")
        /\ OverlayFile!Open(a) /\ UNCHANGED <<cases, payload>>
     \/ /\ AdjAt(a, "write_overlay") /\ AdjGo(a, "replace_overlay")
        /\ OverlayFile!Write(a, OverlayOf(payload[a], cases[a])) /\ UNCHANGED <<cases, payload>>
     \/ AdjAt(a, "replace_overlay") /\ AdjExit(a) /\ OverlayFile!Move(a)
  /\ UNCHANGED <<suiteVars, decisionVars, invocations>>

(* The process ends anywhere; what it had open may hold a part of its text. *)
AdjDie(a) ==
  /\ adjPC[a] # "off" /\ AdjExit(a)
  /\ \/ DecisionFile!Close(a) /\ OverlayFile!Close(a)
     \/ DecisionFile!Interrupt(a) /\ OverlayFile!Interrupt(a)
  /\ UNCHANGED <<suiteVars, invocations>>

AdjStep(a) ==
  \/ Adjudicate(a) \/ ReadLedger(a) \/ ReadSummary(a) \/ HashFiles(a)
  \/ CheckAdjudication(a) \/ WriteAdjudication(a) \/ CheckOverlay(a)
  \/ WriteOverlay(a) \/ AdjDie(a)

Next ==
  \/ RunnerNext /\ UNCHANGED adjVars
  \/ \E a \in Adjudicators : AdjStep(a)
(* Adjudications are never owed.                                           *)
Spec == Init /\ AdjInit /\ [][Next]_vars /\ RunnerFairness

-----------------------------------------------------------------------------
(* Properties.                                                             *)

(* Whoever adjudicates, decisions that can be read rest on the ledger and   *)
(* the summary as they are, with every pair of the schedule evaluated once, *)
(* and decide each candidate kill of theirs.                                *)
AdjudicationRestsOnLedger ==
  DecisionFile!Whole(adjudication) =>
    /\ adjudication.ledger = ledger /\ adjudication.summary = ledger
    /\ Distinct(ledger) /\ Complete(ledger)
    /\ DOMAIN adjudication.decisions = Candidates(ledger)

(* The confirmed score is the one of the decisions on disk, and is         *)
(* official only if nothing but the missing decisions stood against it.    *)
OverlayFollowsDecisions ==
  overlay # None =>
    /\ adjudication # None /\ overlay.of = adjudication
    /\ overlay.confirmed \subseteq Candidates(ledger)
    /\ overlay.blockers = {} =>
         /\ FullBenchmark /\ CleanGit
         /\ MarksOf(ledger) \subseteq {"candidate"}

(* An adjudication, and the summary over it, once written stay as they are. *)
AdjudicationImmutable ==
  [][/\ adjudication # None => adjudication' = adjudication
     /\ overlay # None => overlay' = overlay]_vars

-----------------------------------------------------------------------------
(* One suite with its adjudications implements BenchmarkRecord: a resumed   *)
(* suite, wherever it died, records and publishes what one that never died  *)
(* does, and an adjudication cannot come before its end.                    *)
Benchmark == INSTANCE BenchmarkRecord
  WITH record <- ledger, published <- summary, decided <- adjudication,
       confirmed <- IF overlay = None THEN None ELSE overlay.confirmed
BenchmarkSpec == Benchmark!RecordSpec
=============================================================================
