----------------------------- MODULE SuiteRunner -----------------------------
(***************************************************************************)
(* The benchmark suite runner, src/edgecase_forge/benchmark/suite.py, and  *)
(* the files it resumes from, artifacts.py.  A process of this module is   *)
(* one `benchmark-run` invocation on one suite directory; nothing in the   *)
(* code keeps two of them apart.  The files outlive the processes:         *)
(*   config    suite-config.json, written once after the mkdir             *)
(*   ledger    case-evaluations.jsonl, one flushed line per evaluation     *)
(*   summary   suite-summary.json, replaced through summaryTmp, which all  *)
(*             processes share (AtomicFile)                                *)
(* suite-events.jsonl is a log and is left out.                            *)
(***************************************************************************)
EXTENDS Naturals, Sequences, CaseMarks

CONSTANTS
  Runners,      \* benchmark-run invocations on the suite directory
  NumPairs,     \* (repetition, case) pairs; a pair is its place in the schedule
  Controls,     \* the pairs whose case is the clean control C00
  FullBenchmark,\* every case of CASE_IDS is selected
  CleanGit,     \* the frozen git state is available and not dirty
  MaxFailures,  \* bound: processes that die or give up
  None, Empty, Garbled \* a file that is not there, or holds no whole text

Pairs == 1..NumPairs
Evaluations ==
  {e \in [pair : Pairs, marks : Marks] : e.pair \in Controls => "candidate" \notin e.marks}

ASSUME SuiteAssumption ==
  /\ NumPairs \in Nat \ {0} /\ Controls \subseteq Pairs
  /\ FullBenchmark \in BOOLEAN /\ CleanGit \in BOOLEAN
  /\ MaxFailures \in Nat
  /\ Runners # {}
  /\ Empty \notin {None, Garbled}
  /\ \A broken \in {None, Empty, Garbled} : broken \notin Seq(Evaluations)

VARIABLES
  directory, config, ledger, torn, summary, summaryTmp,  \* the files
  runnerPC, seen, completed, next, current, handle,      \* the processes
  failures

fileVars   == <<directory, config, ledger, torn, summary, summaryTmp>>
runnerVars == <<runnerPC, seen, completed, next, current, handle>>
suiteVars  == <<fileVars, runnerVars, failures>>

SummaryFile == INSTANCE AtomicFile WITH Writers <- Runners, file <- summary, tmp <- summaryTmp

PairsOf(cases) == {cases[i].pair : i \in DOMAIN cases}
Complete(cases) == PairsOf(cases) = Pairs
MarksOf(cases) == UNION {cases[i].marks : i \in DOMAIN cases}

(* _write_summary: what the summary says is a function of its cases.       *)
BlockerOf == [candidate |-> "pending_adjudication",
              integrity_error |-> "integrity_check_failed",
              infrastructure_error |-> "evaluator_infrastructure_error"]
Unless(b, holds) == IF holds THEN {} ELSE {b}
\* A mutant: only the evaluation just made is looked at.
BlockersOfLast(cases) ==
  Unless("subset_selection", FullBenchmark)
    \cup Unless("incomplete_case_matrix", Complete(cases))
    \cup Unless("unfrozen_git_state", CleanGit)
    \cup {BlockerOf[m] : m \in cases[Len(cases)].marks}
Blockers(cases) ==
  Unless("subset_selection", FullBenchmark)
    \cup Unless("incomplete_case_matrix", Complete(cases))
    \cup Unless("unfrozen_git_state", CleanGit)
    \cup {BlockerOf[m] : m \in MarksOf(cases)}

(* read_progress refuses a torn line and a pair that occurs twice.  The     *)
(* evidence behind a line is written before the line and left alone.        *)
Distinct(cases) ==
  \A i, j \in DOMAIN cases : cases[i].pair = cases[j].pair => i = j
\* A mutant: a torn line is read as the lines before it.
IgnoreTorn == Distinct(ledger)
Readable == ~torn /\ Distinct(ledger)

Init ==
  /\ directory = FALSE /\ config = FALSE /\ torn = FALSE
  /\ ledger = <<>> /\ SummaryFile!FileInit
  /\ runnerPC = [r \in Runners |-> "off"]
  /\ seen = [r \in Runners |-> <<>>]
  /\ completed = [r \in Runners |-> {}]
  /\ next = [r \in Runners |-> 1]
  /\ current = [r \in Runners |-> None]
  /\ failures = 0

RunnerAt(r, label) == runnerPC[r] = label
Go(r, label) == runnerPC' = [runnerPC EXCEPT ![r] = label]
(* The process ends, and its memory with it.                               *)
Exit(r) ==
  /\ Go(r, "off")
  /\ seen' = [seen EXCEPT ![r] = <<>>] /\ completed' = [completed EXCEPT ![r] = {}]
  /\ next' = [next EXCEPT ![r] = 1] /\ current' = [current EXCEPT ![r] = None]
  /\ handle' = [handle EXCEPT ![r] = "closed"]

-----------------------------------------------------------------------------
(* mkdir(exist_ok=False), then suite-config.json.                          *)
StartSuite(r) ==
  /\ RunnerAt(r, "off") /\ ~directory
  /\ directory' = TRUE /\ Go(r, "config")
  /\ UNCHANGED <<config, ledger, torn, summary, summaryTmp, seen, completed, next, current, handle, failures>>

WriteConfig(r) ==
  /\ RunnerAt(r, "config")
  /\ config' = TRUE /\ Go(r, "load")
  /\ UNCHANGED <<directory, ledger, torn, summary, summaryTmp, seen, completed, next, current, handle, failures>>

\* A mutant: only a suite with a summary is resumed.
ResumeSummarised(r) ==
  /\ runnerPC[r] \in {"off", "finished"} /\ config /\ summary # None
  /\ Go(r, "load")
  /\ seen' = [seen EXCEPT ![r] = <<>>] /\ next' = [next EXCEPT ![r] = 1]
  /\ UNCHANGED <<fileVars, completed, current, handle, failures>>
(* --resume: the configuration must be there and equal to the frozen one.   *)
(* A suite that is finished may be resumed too.                             *)
ResumeSuite(r) ==
  /\ runnerPC[r] \in {"off", "finished"} /\ config
  /\ Go(r, "load")
  /\ seen' = [seen EXCEPT ![r] = <<>>] /\ next' = [next EXCEPT ![r] = 1]
  /\ UNCHANGED <<fileVars, completed, current, handle, failures>>

\* A mutant: the pairs that are done are remembered, their evaluations not.
LoadPairs(r) ==
  /\ RunnerAt(r, "load") /\ Readable
  /\ completed' = [completed EXCEPT ![r] = PairsOf(ledger)] /\ Go(r, "schedule")
  /\ UNCHANGED <<seen, next, current, handle>> /\ UNCHANGED <<fileVars, failures>>
(* read_progress.  A ledger it refuses ends the process with a ValueError. *)
LoadProgress(r) ==
  /\ RunnerAt(r, "load")
  /\ \/ /\ Readable
        /\ seen' = [seen EXCEPT ![r] = ledger]
        /\ completed' = [completed EXCEPT ![r] = PairsOf(ledger)]
        /\ Go(r, "schedule") /\ UNCHANGED <<next, current, handle>>
     \/ ~Readable /\ Exit(r)
  /\ UNCHANGED <<fileVars, failures>>

\* A mutant: the resumed suite runs every pair again.
SkipNothing(r) == FALSE
AlreadyDone(r) == next[r] \in completed[r]

(* `if (repetition, case_id) in completed: continue` *)
Skip(r) ==
  /\ RunnerAt(r, "schedule") /\ next[r] <= NumPairs /\ AlreadyDone(r)
  /\ next' = [next EXCEPT ![r] = @ + 1]
  /\ UNCHANGED <<fileVars, runnerPC, seen, completed, current, handle, failures>>

(* _run_case: its evidence goes to a fresh directory nobody else names.    *)
RunCase(r) ==
  /\ RunnerAt(r, "schedule") /\ next[r] <= NumPairs /\ ~AlreadyDone(r)
  /\ \E e \in Evaluations : e.pair = next[r] /\ current' = [current EXCEPT ![r] = e]
  /\ Go(r, "append")
  /\ UNCHANGED <<fileVars, seen, completed, next, handle, failures>>

(* append_jsonl: written, flushed and synced.  A line appended to a torn   *)
(* one is part of it.                                                      *)
\* A mutant: the file is written anew from what this process knows.
RewriteLedger(r) == Append(seen[r], current[r])
LedgerWith(r) == IF torn THEN ledger ELSE Append(ledger, current[r])

AppendLine(r) ==
  /\ RunnerAt(r, "append") /\ Go(r, "summary")
  /\ seen' = [seen EXCEPT ![r] = Append(@, current[r])]
  /\ ledger' = LedgerWith(r)
  /\ UNCHANGED <<directory, config, torn, summary, summaryTmp, completed, next, current, handle, failures>>

(* _write_summary through write_json_atomic.                               *)
OpenSummary(r) ==
  /\ RunnerAt(r, "summary") /\ Go(r, "write")
  /\ SummaryFile!Open(r)
  /\ UNCHANGED <<directory, config, ledger, torn, seen, completed, next, current, failures>>

WriteSummary(r) ==
  /\ RunnerAt(r, "write") /\ Go(r, "replace")
  /\ SummaryFile!Write(r, seen[r])
  /\ UNCHANGED <<directory, config, ledger, torn, seen, completed, next, current, failures>>

(* What is moved may be the text of another process, or what that one has   *)
(* only just opened; a temporary file another one has moved ends this one.  *)
ReplaceSummary(r) ==
  /\ RunnerAt(r, "replace")
  /\ \/ /\ SummaryFile!Move(r)
        /\ next' = [next EXCEPT ![r] = @ + 1] /\ Go(r, "schedule")
        /\ UNCHANGED <<seen, completed, current>>
     \/ summaryTmp = None /\ Exit(r) /\ UNCHANGED <<summary, summaryTmp>>
  /\ UNCHANGED <<directory, config, ledger, torn, failures>>

Finish(r) ==
  /\ RunnerAt(r, "schedule") /\ next[r] > NumPairs
  /\ Go(r, "finished")
  /\ UNCHANGED <<fileVars, seen, completed, next, current, handle, failures>>

(* A provider error other than a bad answer, an exception or a kill ends    *)
(* the process wherever it is; in the middle of the append or of the write  *)
(* of the summary it may leave a part of the text.                          *)
Die(r) ==
  /\ runnerPC[r] \notin {"off", "finished"} /\ failures < MaxFailures
  /\ failures' = failures + 1 /\ Exit(r)
  /\ UNCHANGED fileVars

Tear(r) ==
  /\ failures < MaxFailures /\ failures' = failures + 1 /\ Exit(r)
  /\ \/ RunnerAt(r, "append") /\ torn' = TRUE /\ UNCHANGED <<summary, summaryTmp>>
     \/ RunnerAt(r, "write") /\ SummaryFile!Interrupt(r) /\ UNCHANGED torn
  /\ UNCHANGED <<directory, config, ledger>>

RunnerStep(r) ==
  \/ WriteConfig(r) \/ LoadProgress(r) \/ Skip(r) \/ RunCase(r) \/ AppendLine(r)
  \/ OpenSummary(r) \/ WriteSummary(r) \/ ReplaceSummary(r) \/ Finish(r)
Invoke(r) == StartSuite(r) \/ ResumeSuite(r)
RunnerNext == \E r \in Runners : RunnerStep(r) \/ Invoke(r) \/ Die(r) \/ Tear(r)

(* A process runs while it can; the operator resumes an interrupted suite. *)
RunnerFairness ==
  \A r \in Runners : WF_suiteVars(RunnerStep(r)) /\ WF_suiteVars(Invoke(r))
RunnerSpec == Init /\ [][RunnerNext]_suiteVars /\ RunnerFairness
-----------------------------------------------------------------------------
(* Properties.                                                             *)

(* The files and the memory of the processes hold what they are meant to;   *)
(* a process never knows more evaluations than the schedule has.            *)
TypeOK ==
  /\ directory \in BOOLEAN /\ config \in BOOLEAN /\ torn \in BOOLEAN
  /\ ledger \in Seq(Evaluations)
  /\ summary \in Seq(Evaluations) \cup {None, Empty, Garbled}
  /\ summaryTmp \in Seq(Evaluations) \cup {None, Empty, Garbled}
  /\ runnerPC \in [Runners -> {"off", "config", "load", "schedule", "append",
                               "summary", "write", "replace", "finished"}]
  /\ handle \in [Runners -> {"closed", "tmp", "file", "lost"}]
  /\ seen \in [Runners -> Seq(Evaluations)]
  /\ \A r \in Runners : Len(seen[r]) <= NumPairs
  /\ completed \in [Runners -> SUBSET Pairs]
  /\ next \in [Runners -> 1..(NumPairs + 1)]
  /\ current \in [Runners -> Evaluations \cup {None}]
  /\ failures \in 0..MaxFailures

(* One process at a time: across every crash and resume the ledger is the   *)
(* schedule so far, each pair once, in its order, none skipped.             *)
LedgerFollowsSchedule ==
  Len(ledger) <= NumPairs /\ \A i \in DOMAIN ledger : ledger[i].pair = i

(* One process at a time: wherever it dies, in the middle of a file or      *)
(* between two, the summary can be read, never says more than the ledger,   *)
(* and never of other evaluations than the ledger holds.                    *)
SummaryFromLedger ==
  summary # None =>
    /\ SummaryFile!Whole(summary)
    /\ Len(summary) <= Len(ledger)
    /\ \A i \in DOMAIN summary : summary[i] = ledger[i]

(* A score that is official without adjudication has every pair of the     *)
(* frozen benchmark behind it, no candidate kill among them, and no pair   *)
(* whose inputs or harness cannot be trusted.                              *)
OfficialSummaryIsSound ==
  summary # None /\ Blockers(summary) = {} =>
    FullBenchmark /\ CleanGit /\ Complete(ledger) /\ MarksOf(ledger) = {}

(* Even when a suite is resumed twice at once: a summary may be lost,       *)
(* mixed or published before it is written, but one that can be read counts *)
(* a pair once, and every evaluation in it has its line in the ledger,      *)
(* unless the ledger is torn.                                               *)
SummaryOnLedger ==
  SummaryFile!Whole(summary) =>
    /\ Distinct(summary)
    /\ ~torn => \A i \in DOMAIN summary : \E j \in DOMAIN ledger : ledger[j] = summary[i]

(* Even then, a runner that comes to its end leaves no pair of the schedule *)
(* without a line, whatever the others wrote and skipped meanwhile, unless  *)
(* the ledger is torn.                                                      *)
FinishedSuiteIsRecorded ==
  \A r \in Runners : RunnerAt(r, "finished") => torn \/ Complete(ledger)

(* An empty summary is about to be filled: the runner whose open file was   *)
(* published by another one still writes to it, unless a runner has died.   *)
EmptySummaryIsBeingWritten ==
  summary = Empty => failures > 0 \/ \E r \in Runners : handle[r] = "file"

(* A suite that is resumed after every interruption gets all its           *)
(* evaluations, unless the process died between the mkdir and the          *)
(* configuration or in the middle of an append.                            *)
SuiteGetsDone ==
  <>[](Complete(ledger) \/ torn \/ (directory /\ ~config))

(* A suite that ended normally, resumed or not, is summarised in full.     *)
FinishedSuiteIsSummarised ==
  \A r \in Runners : RunnerAt(r, "finished") => summary # None /\ Complete(summary)
=============================================================================
