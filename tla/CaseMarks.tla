------------------------------ MODULE CaseMarks ------------------------------
(***************************************************************************)
(* What CaseEvaluation hands to SuiteRunner: the marks that stand against  *)
(* an evaluation in the summary.                                           *)
(***************************************************************************)
KillMark == "candidate"   \* a candidate kill that waits for a decision
FaultMarks == {"integrity_error",      \* inputs modified while the test ran
               "infrastructure_error"} \* a harness that failed

(* A candidate kill has no other mark.  Survivors, cases without a test and *)
(* unrepaired model answers have none.                                      *)
Marks == {{KillMark}} \cup SUBSET FaultMarks
=============================================================================
