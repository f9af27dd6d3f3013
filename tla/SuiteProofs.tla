----------------------------- MODULE SuiteProofs -----------------------------
(* Proofs about the suite runner: what holds of any number of runners on    *)
(* one directory, and what holds of one at a time, for every schedule and   *)
(* any number of deaths.                                                    *)
EXTENDS SuiteRunner, SequenceTheorems, TLAPS

USE SuiteAssumption

(***************************************************************************)
(* Types.                                                                  *)
(***************************************************************************)
Labels == {"off", "config", "load", "schedule", "append", "summary", "write", "replace", "finished"}
Texts == Seq(Evaluations) \cup {None, Empty, Garbled}
Handles == {"closed", "tmp", "file", "lost"}

Types ==
  /\ directory \in BOOLEAN /\ config \in BOOLEAN /\ torn \in BOOLEAN
  /\ ledger \in Seq(Evaluations)
  /\ summary \in Texts /\ summaryTmp \in Texts
  /\ handle \in [Runners -> Handles]
  /\ runnerPC \in [Runners -> Labels]
  /\ seen \in [Runners -> Seq(Evaluations)]
  /\ completed \in [Runners -> SUBSET Pairs]
  /\ next \in [Runners -> 1..(NumPairs + 1)]
  /\ \A r \in Runners : runnerPC[r] \in {"append", "summary", "write", "replace"} => next[r] <= NumPairs
  /\ current \in [Runners -> Evaluations \cup {None}]
  /\ \A r \in Runners : runnerPC[r] = "append" => current[r] \in Evaluations
  /\ \A r \in Runners : runnerPC[r] = "finished" => next[r] = NumPairs + 1
  /\ failures \in 0..MaxFailures

LEMMA AppendEvaluation ==
  ASSUME NEW s \in Seq(Evaluations), NEW e \in Evaluations
  PROVE  /\ Append(s, e) \in Seq(Evaluations)
         /\ Len(Append(s, e)) = Len(s) + 1
         /\ \A i \in 1..Len(s) : Append(s, e)[i] = s[i]
         /\ Append(s, e)[Len(s) + 1] = e
OBVIOUS

(* One more evaluation is one more pair, and another one if it is new.      *)
LEMMA AppendPairs ==
  ASSUME NEW s \in Seq(Evaluations), NEW e \in Evaluations
  PROVE  /\ PairsOf(Append(s, e)) = PairsOf(s) \cup {e.pair}
         /\ Distinct(s) /\ e.pair \notin PairsOf(s) => Distinct(Append(s, e))
<1>1. PICK t \in Seq(Evaluations) : t = Append(s, e)
  BY AppendEvaluation
<1>2. /\ Len(s) \in Nat /\ DOMAIN s = 1..Len(s) /\ DOMAIN t = 1..(Len(s) + 1)
      /\ \A i \in 1..Len(s) : t[i] = s[i]
      /\ t[Len(s) + 1] = e
  BY <1>1, AppendEvaluation
<1>3. \A i \in DOMAIN t : i \in DOMAIN s \/ i = Len(s) + 1
  BY <1>2
<1>4. DOMAIN s \subseteq DOMAIN t /\ Len(s) + 1 \in DOMAIN t
  BY <1>2
<1>5. \A i \in DOMAIN s : t[i] = s[i]
  BY <1>2
<1>6. PairsOf(t) = PairsOf(s) \cup {e.pair}
  BY <1>2, <1>3, <1>4, <1>5, Zenon DEF PairsOf
<1>7. ASSUME Distinct(s), e.pair \notin PairsOf(s) PROVE Distinct(t)
  <2>1. \A i \in DOMAIN s : s[i].pair # e.pair
    BY <1>7 DEF PairsOf
  <2> QED BY <1>2, <1>3, <1>5, <1>7, <2>1, Zenon DEF Distinct
<1> QED BY <1>1, <1>6, <1>7

LEMMA PairsOfSeq ==
  ASSUME NEW s \in Seq(Evaluations)
  PROVE  PairsOf(s) \subseteq Pairs
<1>1. \A i \in DOMAIN s : s[i] \in Evaluations
  OBVIOUS
<1> QED BY <1>1 DEF PairsOf, Evaluations

LEMMA InitTypes == Init => Types
<1> SUFFICES ASSUME Init PROVE Types
  OBVIOUS
<1>1. 1 \in 1..(NumPairs + 1) /\ 0 \in 0..MaxFailures
  OBVIOUS
<1>2. <<>> \in Seq(Evaluations)
  OBVIOUS
<1> QED BY <1>1, <1>2 DEF Init, Types, Labels, Texts, Handles, SummaryFile!FileInit

LEMMA ExitTypes ==
  ASSUME Types, NEW r \in Runners, Exit(r), UNCHANGED <<directory, config, ledger>>,
         torn' \in BOOLEAN, summary' \in Texts, summaryTmp' \in Texts, failures' \in 0..MaxFailures
  PROVE  Types'
<1>1. 1 \in 1..(NumPairs + 1) /\ <<>> \in Seq(Evaluations)
  OBVIOUS
<1> QED BY <1>1 DEF Types, Exit, Go, Labels, Handles

(* What a write, a move or a kill in the middle of a write leaves.          *)
LEMMA PutTypes ==
  ASSUME Types, NEW r \in Runners, NEW new \in Texts, SummaryFile!Put(r, new)
  PROVE  summary' \in Texts /\ summaryTmp' \in Texts /\ handle' \in [Runners -> Handles]
BY DEF Types, SummaryFile!Put, Handles

LEMMA MoveTypes ==
  ASSUME Types, NEW r \in Runners, SummaryFile!Move(r)
  PROVE  summary' \in Texts /\ summaryTmp' \in Texts /\ handle' \in [Runners -> Handles]
<1>1. \A h \in Handles : SummaryFile!Follow[h] \in Handles
  BY DEF Handles, SummaryFile!Follow
<1> QED BY <1>1 DEF Types, SummaryFile!Move, Texts

LEMMA StepTypes == Types /\ [RunnerNext]_suiteVars => Types'
<1> SUFFICES ASSUME Types, [RunnerNext]_suiteVars PROVE Types'
  OBVIOUS
<1>1. ASSUME NEW r \in Runners, StartSuite(r) PROVE Types'
  BY <1>1 DEF Types, StartSuite, Go, Labels, RunnerAt
<1>2. ASSUME NEW r \in Runners, WriteConfig(r) PROVE Types'
  BY <1>2 DEF Types, WriteConfig, Go, Labels, RunnerAt
<1>3. ASSUME NEW r \in Runners, ResumeSuite(r) PROVE Types'
  <2>1. 1 \in 1..(NumPairs + 1) /\ <<>> \in Seq(Evaluations)
    OBVIOUS
  <2> QED BY <1>3, <2>1 DEF Types, ResumeSuite, Go, Labels, fileVars
<1>4. ASSUME NEW r \in Runners, LoadProgress(r) PROVE Types'
  <2>1. CASE Readable /\ ~Exit(r)
    <3>1. PairsOf(ledger) \in SUBSET Pairs
      BY PairsOfSeq DEF Types
    <3>2. /\ seen' = [seen EXCEPT ![r] = ledger]
          /\ completed' = [completed EXCEPT ![r] = PairsOf(ledger)]
          /\ runnerPC' = [runnerPC EXCEPT ![r] = "schedule"]
          /\ UNCHANGED <<next, current, handle, directory, config, torn, ledger, summary, summaryTmp, failures>>
      BY <1>4, <2>1 DEF LoadProgress, Go, fileVars
    <3>3. seen' \in [Runners -> Seq(Evaluations)] /\ completed' \in [Runners -> SUBSET Pairs]
      BY <3>1, <3>2 DEF Types
    <3>4. /\ runnerPC' \in [Runners -> Labels]
          /\ \A q \in Runners : runnerPC'[q] \in {"append", "summary", "write", "replace", "finished"} =>
               runnerPC[q] = runnerPC'[q]
      BY <3>2 DEF Types, Labels
    <3> QED BY <3>2, <3>3, <3>4 DEF Types
  <2>2. CASE Exit(r)
    BY <1>4, <2>2, ExitTypes DEF LoadProgress, fileVars, Types
  <2> QED BY <1>4, <2>1, <2>2 DEF LoadProgress
<1>5. ASSUME NEW r \in Runners, Skip(r) PROVE Types'
  <2>1. next[r] \in 1..(NumPairs + 1) /\ next[r] <= NumPairs /\ runnerPC[r] = "schedule"
    BY <1>5 DEF Types, Skip, RunnerAt
  <2>2. next[r] + 1 \in 1..(NumPairs + 1)
    BY <2>1
  <2> QED BY <1>5, <2>1, <2>2 DEF Types, Skip, fileVars
<1>6. ASSUME NEW r \in Runners, RunCase(r) PROVE Types'
  <2>1. PICK e \in Evaluations : current' = [current EXCEPT ![r] = e]
    BY <1>6 DEF RunCase
  <2> QED BY <1>6, <2>1 DEF Types, RunCase, Go, Labels, fileVars, RunnerAt
<1>7. ASSUME NEW r \in Runners, AppendLine(r) PROVE Types'
  <2>1. current[r] \in Evaluations /\ seen[r] \in Seq(Evaluations)
    BY <1>7 DEF Types, AppendLine, RunnerAt
  <2>2. Append(seen[r], current[r]) \in Seq(Evaluations) /\ LedgerWith(r) \in Seq(Evaluations)
    BY <2>1, AppendEvaluation DEF Types, LedgerWith
  <2> QED BY <1>7, <2>2 DEF Types, AppendLine, Go, Labels, RunnerAt
<1>14. ASSUME NEW r \in Runners, OpenSummary(r) PROVE Types'
  BY <1>14 DEF Types, OpenSummary, SummaryFile!Open, Go, Labels, Texts, Handles, RunnerAt
<1>8. ASSUME NEW r \in Runners, WriteSummary(r) PROVE Types'
  <2>1. PICK new \in Texts : SummaryFile!Put(r, new)
    BY <1>8 DEF WriteSummary, SummaryFile!Write, Types, Texts
  <2>2. summary' \in Texts /\ summaryTmp' \in Texts /\ handle' \in [Runners -> Handles]
    BY <2>1, PutTypes
  <2> QED BY <1>8, <2>2 DEF Types, WriteSummary, Go, Labels, RunnerAt
<1>9. ASSUME NEW r \in Runners, ReplaceSummary(r) PROVE Types'
  <2>1. CASE Exit(r) /\ UNCHANGED <<summary, summaryTmp>>
    BY <1>9, <2>1, ExitTypes DEF ReplaceSummary, Types
  <2>2. CASE SummaryFile!Move(r) /\ ~Exit(r)
    <3>1. next[r] \in 1..NumPairs
      BY <1>9 DEF Types, ReplaceSummary, RunnerAt
    <3>2. next[r] + 1 \in 1..(NumPairs + 1)
      BY <3>1
    <3>3. summary' \in Texts /\ summaryTmp' \in Texts /\ handle' \in [Runners -> Handles]
      BY <2>2, MoveTypes
    <3>4. /\ next' = [next EXCEPT ![r] = next[r] + 1]
          /\ runnerPC' = [runnerPC EXCEPT ![r] = "schedule"]
          /\ UNCHANGED <<seen, completed, current, directory, config, ledger, torn, failures>>
      BY <1>9, <2>2 DEF ReplaceSummary, Go
    <3> QED BY <3>2, <3>3, <3>4 DEF Types, Labels
  <2>3. CASE SummaryFile!Move(r) /\ Exit(r)
    <3>1. summary' \in Texts /\ summaryTmp' \in Texts
      BY <2>3, MoveTypes
    <3> QED BY <1>9, <2>3, <3>1, ExitTypes DEF ReplaceSummary, Types
  <2> QED BY <1>9, <2>1, <2>2, <2>3 DEF ReplaceSummary
<1>10. ASSUME NEW r \in Runners, Finish(r) PROVE Types'
  <2>1. next[r] = NumPairs + 1
    BY <1>10 DEF Types, Finish
  <2> QED BY <1>10, <2>1 DEF Types, Finish, Go, Labels, RunnerAt, fileVars
<1>11. ASSUME NEW r \in Runners, Die(r) PROVE Types'
  <2>1. failures' \in 0..MaxFailures
    BY <1>11 DEF Types, Die
  <2> QED BY <1>11, <2>1, ExitTypes DEF Die, fileVars, Types
<1>12. ASSUME NEW r \in Runners, Tear(r) PROVE Types'
  <2>1. failures' \in 0..MaxFailures
    BY <1>12 DEF Types, Tear
  <2>2. summary' \in Texts /\ summaryTmp' \in Texts /\ torn' \in BOOLEAN
    <3>1. CASE UNCHANGED <<summary, summaryTmp>>
      BY <1>12, <3>1 DEF Tear, Types
    <3>2. CASE SummaryFile!Interrupt(r)
      BY <1>12, <3>2, PutTypes DEF Tear, SummaryFile!Interrupt, Texts, Types
    <3> QED BY <1>12, <3>1, <3>2 DEF Tear
  <2> QED BY <1>12, <2>1, <2>2, ExitTypes DEF Tear
<1>13. CASE UNCHANGED suiteVars
  BY <1>13 DEF Types, suiteVars, fileVars, runnerVars
<1> QED
  BY <1>1, <1>2, <1>3, <1>4, <1>5, <1>6, <1>7, <1>8, <1>9, <1>10, <1>11, <1>12, <1>13, <1>14
     DEF RunnerNext, RunnerStep, Invoke

(***************************************************************************)
(* Any number of runners.                                                  *)
(***************************************************************************)
LEMMA TypesAlways == RunnerSpec => []Types
  BY InitTypes, StepTypes, PTL DEF RunnerSpec

Longer(s) ==
  Len(s) >= Len(ledger) /\ \A i \in DOMAIN ledger : s[i] = ledger[i]

LEMMA StepGrows ==
  ASSUME Types, [RunnerNext]_suiteVars
  PROVE  Longer(ledger')
<1>1. ASSUME NEW r \in Runners, AppendLine(r) PROVE Longer(ledger')
  <2>1. current[r] \in Evaluations
    BY <1>1 DEF Types, AppendLine, RunnerAt
  <2> QED BY <1>1, <2>1, AppendEvaluation DEF Types, AppendLine, LedgerWith, Longer
<1>2. CASE UNCHANGED ledger
  BY <1>2 DEF Longer, Types
<1> QED
  BY <1>1, <1>2 DEF RunnerNext, RunnerStep, Invoke, StartSuite, WriteConfig, ResumeSuite,
     LoadProgress, Skip, RunCase, OpenSummary, WriteSummary, ReplaceSummary, Finish, Die, Tear,
     suiteVars, fileVars

(* What a process knows it read from the ledger or wrote to it, each pair   *)
(* once: it skips what it read and never turns back in the schedule.  What  *)
(* is behind it, it knows.                                                  *)
OnLedger(s, lines) == \A i \in DOMAIN s : \E j \in DOMAIN lines : lines[j] = s[i]
Recorded(s, lines, half) == Distinct(s) /\ (~half => OnLedger(s, lines))
Behind(r) ==
  {p \in Pairs : p < next[r] \/ (p = next[r] /\ runnerPC[r] \in {"summary", "write", "replace"})}
Working(r) == runnerPC[r] \in {"schedule", "append", "summary", "write", "replace", "finished"}

KnowledgeInv ==
  /\ \A r \in Runners : Recorded(seen[r], ledger, torn)
  /\ \A r \in Runners : PairsOf(seen[r]) \subseteq completed[r] \cup Behind(r)
  /\ \A r \in Runners : Working(r) => completed[r] \cup Behind(r) \subseteq PairsOf(seen[r])
  /\ \A r \in Runners : ~Working(r) => next[r] = 1
  /\ \A r \in Runners : runnerPC[r] = "append" =>
       current[r].pair = next[r] /\ next[r] \notin completed[r]

LEMMA StaysRecorded ==
  ASSUME Types, Types', [RunnerNext]_suiteVars, NEW s, Recorded(s, ledger, torn)
  PROVE  Recorded(s, ledger', torn')
<1>1. torn => torn'
  BY DEF RunnerNext, RunnerStep, Invoke, StartSuite, WriteConfig, ResumeSuite,
     LoadProgress, Skip, RunCase, AppendLine, OpenSummary, WriteSummary, ReplaceSummary, Finish,
     Die, Tear, suiteVars, fileVars
<1>2. Longer(ledger') /\ ledger \in Seq(Evaluations) /\ ledger' \in Seq(Evaluations)
  BY StepGrows DEF Types
<1>3. DOMAIN ledger \subseteq DOMAIN ledger'
  BY <1>2 DEF Longer
<1> QED BY <1>1, <1>2, <1>3 DEF Recorded, OnLedger, Longer

LEMMA NothingIsRecorded ==
  ASSUME NEW lines, NEW half
  PROVE  Recorded(<<>>, lines, half) /\ PairsOf(<<>>) = {}
BY DEF Recorded, OnLedger, Distinct, PairsOf

LEMMA InitKnowledge == Init => KnowledgeInv
BY NothingIsRecorded DEF Init, KnowledgeInv, Working

LEMMA StepKnowledge ==
  ASSUME Types, Types', KnowledgeInv, [RunnerNext]_suiteVars
  PROVE  KnowledgeInv'
<1> USE DEF RunnerAt
(* A step that changes neither what a process knows nor where it is.        *)
<1>1. ASSUME UNCHANGED <<seen, completed, next, current>>,
             NEW r \in Runners, NEW label, Go(r, label), label # "append",
             runnerPC[r] \in {"summary", "write", "replace"} <=> label \in {"summary", "write", "replace"},
             Working(r) <=> Working(r)'
      PROVE  KnowledgeInv'
  <2>1. \A q \in Runners : Behind(q)' = Behind(q) /\ (Working(q)' <=> Working(q))
    BY <1>1 DEF Behind, Go, Types, Working
  <2> QED BY <1>1, <2>1, StaysRecorded DEF KnowledgeInv, Go, Types
<1>2. ASSUME NEW r \in Runners, Exit(r) PROVE KnowledgeInv'
  <2>1. \A q \in Runners \ {r} : Behind(q)' = Behind(q) /\ (Working(q)' <=> Working(q))
    BY <1>2 DEF Behind, Exit, Go, Types, Working
  <2>2. /\ seen'[r] = <<>> /\ next'[r] = 1 /\ runnerPC'[r] = "off"
        /\ \A q \in Runners \ {r} : /\ seen'[q] = seen[q] /\ next'[q] = next[q]
                                      /\ completed'[q] = completed[q] /\ current'[q] = current[q]
                                      /\ runnerPC'[q] = runnerPC[q]
    BY <1>2 DEF Exit, Go, Types
  <2> QED BY <2>1, <2>2, StaysRecorded, NothingIsRecorded DEF KnowledgeInv, Working
<1>3. ASSUME NEW r \in Runners, StartSuite(r) PROVE KnowledgeInv'
  BY <1>1, <1>3 DEF StartSuite, Go, Types, Working
<1>4. ASSUME NEW r \in Runners, WriteConfig(r) PROVE KnowledgeInv'
  BY <1>1, <1>4 DEF WriteConfig, Go, Types, Working
<1>5. ASSUME NEW r \in Runners, ResumeSuite(r) PROVE KnowledgeInv'
  <2>1. \A q \in Runners \ {r} : Behind(q)' = Behind(q) /\ (Working(q)' <=> Working(q))
    BY <1>5 DEF Behind, ResumeSuite, Go, Types, Working
  <2>2. ~Working(r)' /\ next'[r] = 1 /\ seen'[r] = <<>> /\ runnerPC'[r] = "load"
    BY <1>5 DEF ResumeSuite, Go, Types, Working
  <2>3. /\ UNCHANGED <<completed, current, ledger, torn>>
        /\ \A q \in Runners \ {r} : seen'[q] = seen[q] /\ next'[q] = next[q] /\ runnerPC'[q] = runnerPC[q]
    BY <1>5 DEF ResumeSuite, Go, Types, fileVars
  <2> QED BY <2>1, <2>2, <2>3, StaysRecorded, NothingIsRecorded DEF KnowledgeInv
<1>6. ASSUME NEW r \in Runners, LoadProgress(r) PROVE KnowledgeInv'
  <2>1. CASE Exit(r)
    BY <1>2, <2>1
  <2>2. CASE ~Exit(r)
    <3>1. \A q \in Runners \ {r} : Behind(q)' = Behind(q) /\ (Working(q)' <=> Working(q))
      BY <1>6, <2>2 DEF Behind, LoadProgress, Go, Types, Working
    <3>2. Recorded(ledger, ledger, torn)
      BY <1>6, <2>2 DEF LoadProgress, Readable, Recorded, OnLedger
    <3>3. /\ seen' = [seen EXCEPT ![r] = ledger]
          /\ completed' = [completed EXCEPT ![r] = PairsOf(ledger)]
          /\ runnerPC' = [runnerPC EXCEPT ![r] = "schedule"]
          /\ UNCHANGED <<next, current, ledger, torn>>
      BY <1>6, <2>2 DEF LoadProgress, Go, fileVars
    <3>4. Behind(r)' = {}
      <4>1. next'[r] = 1 /\ runnerPC'[r] = "schedule"
        BY <1>6, <3>3 DEF LoadProgress, KnowledgeInv, Working, Types
      <4> QED BY <4>1 DEF Behind, Pairs
    <3> QED BY <3>1, <3>2, <3>3, <3>4, StaysRecorded DEF KnowledgeInv, Types, Working
  <2> QED BY <2>1, <2>2
<1>7. ASSUME NEW r \in Runners, Skip(r) PROVE KnowledgeInv'
  <2>1. \A q \in Runners \ {r} : Behind(q)' = Behind(q)
    BY <1>7 DEF Behind, Skip, Types
  <2>2. Behind(r) \subseteq Behind(r)' /\ Behind(r)' \subseteq Behind(r) \cup {next[r]} /\ next[r] \in completed[r]
    BY <1>7 DEF Behind, Skip, AlreadyDone, Types, Pairs
  <2>3. \A q \in Runners : Working(q)' <=> Working(q)
    BY <1>7 DEF Skip, Working
  <2>4. Working(r) /\ runnerPC[r] = "schedule"
    BY <1>7 DEF Skip, Working
  <2>5. \A q \in Runners : completed[q] \cup Behind(q) = completed[q] \cup Behind(q)'
    BY <2>1, <2>2
  <2> QED BY <1>7, <2>3, <2>4, <2>5, StaysRecorded DEF KnowledgeInv, Skip, Types, fileVars
<1>8. ASSUME NEW r \in Runners, RunCase(r) PROVE KnowledgeInv'
  <2>1. \A q \in Runners : Behind(q)' = Behind(q) /\ (Working(q)' <=> Working(q))
    BY <1>8 DEF Behind, RunCase, Go, Types, Working
  <2>2. current'[r].pair = next[r] /\ next[r] \notin completed[r]
    BY <1>8 DEF RunCase, Types, AlreadyDone
  <2> QED BY <1>8, <2>1, <2>2, StaysRecorded DEF KnowledgeInv, RunCase, Go, Types, fileVars
<1>9. ASSUME NEW r \in Runners, AppendLine(r) PROVE KnowledgeInv'
  <2> DEFINE s == seen[r]
             e == current[r]
  <2>1. /\ s \in Seq(Evaluations) /\ e \in Evaluations
        /\ e.pair = next[r] /\ e.pair \in Pairs /\ e.pair \notin PairsOf(s)
    <3>1. s \in Seq(Evaluations) /\ e \in Evaluations /\ runnerPC[r] = "append"
      BY <1>9 DEF AppendLine, Types
    <3>2. e.pair \in Pairs
      BY <3>1 DEF Evaluations
    <3>3. next[r] \notin Behind(r)
      BY <3>1 DEF Behind, Types
    <3> QED BY <3>1, <3>2, <3>3 DEF KnowledgeInv
  <2>2. Distinct(Append(s, e))
    BY <2>1, AppendPairs DEF KnowledgeInv, Recorded
  <2>3. PairsOf(Append(s, e)) = PairsOf(s) \cup {e.pair}
    BY <2>1, AppendPairs
  <2>4. ~torn' => OnLedger(Append(s, e), ledger')
    <3>1. SUFFICES ASSUME ~torn PROVE OnLedger(Append(s, e), ledger')
      BY <1>9 DEF AppendLine
    <3>2. ledger' = Append(ledger, e)
      BY <1>9, <3>1 DEF AppendLine, LedgerWith
    <3>3. OnLedger(s, ledger)
      BY <3>1 DEF KnowledgeInv, Recorded
    <3>4. /\ DOMAIN ledger \subseteq DOMAIN ledger'
          /\ \A i \in DOMAIN ledger : ledger'[i] = ledger[i]
          /\ Len(ledger) + 1 \in DOMAIN ledger' /\ ledger'[Len(ledger) + 1] = e
      BY <2>1, <3>2, AppendEvaluation DEF Types
    <3>5. \A i \in DOMAIN Append(s, e) : (i \in DOMAIN s /\ Append(s, e)[i] = s[i]) \/ Append(s, e)[i] = e
      BY <2>1, AppendEvaluation
    <3> QED BY <3>3, <3>4, <3>5 DEF OnLedger
  <2>5. Behind(r)' = Behind(r) \cup {e.pair} /\ \A q \in Runners \ {r} : Behind(q)' = Behind(q)
    BY <1>9, <2>1 DEF Behind, AppendLine, Go, Types, Pairs
  <2>6. seen' = [seen EXCEPT ![r] = Append(s, e)]
    BY <1>9 DEF AppendLine
  <2>9. Working(r) /\ \A q \in Runners : Working(q)' <=> Working(q)
    BY <1>9 DEF AppendLine, Go, Types, Working
  <2> HIDE DEF s, e
  <2>7. \A q \in Runners : Recorded(seen'[q], ledger', torn')
    BY <2>2, <2>4, <2>6, StaysRecorded DEF KnowledgeInv, Recorded, Types
  <2>8. /\ \A q \in Runners : PairsOf(seen'[q]) \subseteq completed[q] \cup Behind(q)'
        /\ \A q \in Runners : Working(q) => completed[q] \cup Behind(q)' \subseteq PairsOf(seen'[q])
    BY <2>3, <2>5, <2>6, <2>9 DEF KnowledgeInv, Types, s
  <2> QED BY <1>9, <2>7, <2>8, <2>9 DEF KnowledgeInv, AppendLine, Go, Types
<1>10. ASSUME NEW r \in Runners, OpenSummary(r) \/ WriteSummary(r) PROVE KnowledgeInv'
  BY <1>1, <1>10 DEF OpenSummary, WriteSummary, Go, Types, Working
<1>11. ASSUME NEW r \in Runners, ReplaceSummary(r) PROVE KnowledgeInv'
  <2>1. CASE Exit(r)
    BY <1>2, <2>1
  <2>2. CASE ~Exit(r)
    <3>1. /\ next' = [next EXCEPT ![r] = next[r] + 1] /\ next[r] \in Nat
          /\ runnerPC' = [runnerPC EXCEPT ![r] = "schedule"] /\ runnerPC[r] = "replace"
          /\ UNCHANGED <<seen, completed, current, ledger, torn>>
      BY <1>11, <2>2 DEF ReplaceSummary, Go, Types
    <3>2. \A q \in Runners \ {r} : Behind(q)' = Behind(q)
      BY <3>1 DEF Behind, Types
    <3>3. Behind(r)' = Behind(r)
      <4>1. next'[r] = next[r] + 1 /\ runnerPC'[r] = "schedule"
        BY <3>1 DEF Types
      <4>2. \A p \in Pairs : p < next[r] + 1 <=> p < next[r] \/ p = next[r]
        BY <3>1 DEF Pairs
      <4> QED BY <3>1, <4>1, <4>2 DEF Behind
    <3>4. \A q \in Runners : Working(q)' <=> Working(q)
      BY <3>1 DEF Working, Types
    <3>5. Working(r)
      BY <3>1 DEF Working
    <3> QED BY <3>1, <3>2, <3>3, <3>4, <3>5, StaysRecorded DEF KnowledgeInv, Types
  <2> QED BY <2>1, <2>2
<1>12. ASSUME NEW r \in Runners, Finish(r) PROVE KnowledgeInv'
  BY <1>1, <1>12 DEF Finish, Go, Types, Working
<1>13. ASSUME NEW r \in Runners, Die(r) \/ Tear(r) PROVE KnowledgeInv'
  BY <1>2, <1>13 DEF Die, Tear
<1>14. CASE UNCHANGED suiteVars
  BY <1>14 DEF KnowledgeInv, Behind, Working, suiteVars, fileVars, runnerVars
<1> QED
  BY <1>3, <1>4, <1>5, <1>6, <1>7, <1>8, <1>9, <1>10, <1>11, <1>12, <1>13, <1>14
     DEF RunnerNext, RunnerStep, Invoke

(* What is published or waits to be is what was there, a text that somebody *)
(* wrote of all he knew, or cannot be read: nobody writes anything else.    *)
FilesInv ==
  \A text \in {summary, summaryTmp} : SummaryFile!Whole(text) => Recorded(text, ledger, torn)

LEMMA InitFiles == Init => FilesInv
BY DEF Init, FilesInv, SummaryFile!FileInit, SummaryFile!Whole

LEMMA StepFiles ==
  ASSUME Types, Types', KnowledgeInv, FilesInv, [RunnerNext]_suiteVars
  PROVE  FilesInv'
<1> DEFINE Known(text) ==
      \/ ~SummaryFile!Whole(text) \/ text \in {summary, summaryTmp} \/ \E r \in Runners : text = seen[r]
<1>1. \A text : Known(text) /\ SummaryFile!Whole(text) => Recorded(text, ledger, torn)
  BY DEF KnowledgeInv, FilesInv
<1>2. Known(summary') /\ Known(summaryTmp')
  <2> USE DEF SummaryFile!Whole, SummaryFile!Put
  <2>1. ASSUME NEW r \in Runners, OpenSummary(r) PROVE Known(summary') /\ Known(summaryTmp')
    BY <2>1 DEF OpenSummary, SummaryFile!Open
  <2>2. ASSUME NEW r \in Runners, WriteSummary(r) PROVE Known(summary') /\ Known(summaryTmp')
    BY <2>2 DEF WriteSummary, SummaryFile!Write
  <2>3. ASSUME NEW r \in Runners, ReplaceSummary(r) PROVE Known(summary') /\ Known(summaryTmp')
    BY <2>3 DEF ReplaceSummary, SummaryFile!Move
  <2>4. ASSUME NEW r \in Runners, Tear(r) PROVE Known(summary') /\ Known(summaryTmp')
    BY <2>4 DEF Tear, SummaryFile!Interrupt
  <2>5. CASE UNCHANGED <<summary, summaryTmp>>
    BY <2>5
  <2> QED
    BY <2>1, <2>2, <2>3, <2>4, <2>5 DEF RunnerNext, RunnerStep, Invoke, StartSuite, WriteConfig,
       ResumeSuite, LoadProgress, Skip, RunCase, AppendLine, Finish, Die, suiteVars, fileVars
<1> HIDE DEF Known
<1>3. ASSUME NEW text, Known(text), SummaryFile!Whole(text) PROVE Recorded(text, ledger', torn')
  BY <1>1, <1>3, StaysRecorded
<1> QED BY <1>2, <1>3 DEF FilesInv, SummaryFile!Whole

LEMMA KnowledgeAlways == RunnerSpec => [](Types /\ KnowledgeInv /\ FilesInv)
<1>1. Types /\ KnowledgeInv /\ FilesInv /\ [RunnerNext]_suiteVars => (Types /\ KnowledgeInv /\ FilesInv)'
  BY StepTypes, StepKnowledge, StepFiles
<1> QED BY <1>1, InitTypes, InitKnowledge, InitFiles, PTL DEF RunnerSpec

(* Whoever else resumed the suite, and whoever's file a runner moves: each  *)
(* summary that can be read counts a pair once and, while the ledger is     *)
(* whole, nothing that has no line.                                         *)
THEOREM SummariesAreOnLedger == RunnerSpec => []SummaryOnLedger
<1>1. FilesInv => SummaryOnLedger
  BY DEF FilesInv, Recorded, OnLedger, SummaryOnLedger
<1> QED BY <1>1, KnowledgeAlways, PTL

(* A runner that comes to its end has everything behind it, so it knows an  *)
(* evaluation of every pair, and what it knows has a line.                  *)
THEOREM FinishedIsRecorded == RunnerSpec => []FinishedSuiteIsRecorded
<1>1. Types /\ KnowledgeInv => FinishedSuiteIsRecorded
  <2> SUFFICES ASSUME Types, KnowledgeInv, NEW r \in Runners, RunnerAt(r, "finished"), ~torn
               PROVE  Complete(ledger)
    BY DEF FinishedSuiteIsRecorded
  <2>1. next[r] = NumPairs + 1 /\ Working(r)
    BY DEF RunnerAt, Types, Working
  <2>2. Behind(r) = Pairs
    BY <2>1 DEF Behind, Pairs
  <2>3. Pairs \subseteq PairsOf(seen[r])
    BY <2>1, <2>2 DEF KnowledgeInv
  <2>4. PairsOf(seen[r]) \subseteq PairsOf(ledger)
    BY DEF KnowledgeInv, Recorded, OnLedger, PairsOf
  <2> QED BY <2>3, <2>4, PairsOfSeq DEF Complete, Types
<1> QED BY <1>1, KnowledgeAlways, PTL

(* An empty file has somebody who still writes to it, under either name.    *)
EmptyInv ==
  /\ \A r \in Runners : handle[r] # "closed" => RunnerAt(r, "write")
  /\ failures = 0 =>
       /\ summaryTmp = Empty => \E r \in Runners : handle[r] = "tmp"
       /\ summary = Empty => \E r \in Runners : handle[r] = "file"

LEMMA InitEmpty == Init => EmptyInv
BY SuiteAssumption DEF Init, EmptyInv, SummaryFile!FileInit

LEMMA StepEmpty ==
  ASSUME Types, EmptyInv, [RunnerNext]_suiteVars
  PROVE  EmptyInv'
<1> USE DEF RunnerAt
<1>1. ASSUME NEW r \in Runners, NEW label, Go(r, label), runnerPC[r] # "write",
             UNCHANGED <<summary, summaryTmp, handle, failures>>
      PROVE  EmptyInv'
  BY <1>1 DEF EmptyInv, Go, Types
<1>2. ASSUME NEW r \in Runners, Exit(r), runnerPC[r] # "write", UNCHANGED <<summary, summaryTmp, failures>>
      PROVE  EmptyInv'
  <2>1. handle' = handle
    BY <1>2 DEF Exit, EmptyInv, Types
  <2> QED BY <1>1, <1>2, <2>1 DEF Exit
<1>3. ASSUME NEW r \in Runners, Exit(r), failures' = failures + 1 PROVE EmptyInv'
  <2>1. failures' # 0
    BY <1>3 DEF Types
  <2> QED BY <1>3, <2>1 DEF EmptyInv, Exit, Go, Types
<1>4. ASSUME NEW r \in Runners, StartSuite(r) \/ WriteConfig(r) \/ ResumeSuite(r) \/ RunCase(r)
                                 \/ AppendLine(r) \/ Finish(r)
      PROVE  EmptyInv'
  BY <1>1, <1>4 DEF StartSuite, WriteConfig, ResumeSuite, RunCase, AppendLine, Finish, fileVars
<1>5. ASSUME NEW r \in Runners, LoadProgress(r) PROVE EmptyInv'
  BY <1>1, <1>2, <1>5 DEF LoadProgress, fileVars
<1>6. ASSUME NEW r \in Runners, Skip(r) PROVE EmptyInv'
  BY <1>6 DEF Skip, EmptyInv, fileVars
<1>7. ASSUME NEW r \in Runners, OpenSummary(r) PROVE EmptyInv'
  BY <1>7 DEF OpenSummary, SummaryFile!Open, EmptyInv, Go, Types
<1>8. ASSUME NEW r \in Runners, WriteSummary(r) PROVE EmptyInv'
  <2>1. PICK new : SummaryFile!Put(r, new) /\ new # Empty
    BY <1>8, SuiteAssumption DEF WriteSummary, SummaryFile!Write, SuiteAssumption, Types
  <2>2. \A q \in Runners : handle'[q] = IF q = r THEN "closed" ELSE handle[q]
    BY <2>1 DEF SummaryFile!Put, Types
  <2>3. summaryTmp' = Empty => summaryTmp = Empty /\ handle[r] # "tmp"
    BY <2>1 DEF SummaryFile!Put
  <2>4. summary' = Empty => summary = Empty /\ handle[r] # "file"
    BY <2>1 DEF SummaryFile!Put
  <2> QED BY <1>8, <2>2, <2>3, <2>4 DEF WriteSummary, EmptyInv, Go, Types
<1>9. ASSUME NEW r \in Runners, ReplaceSummary(r) PROVE EmptyInv'
  <2>1. CASE Exit(r) /\ UNCHANGED <<summary, summaryTmp>>
    BY <1>2, <1>9, <2>1 DEF ReplaceSummary
  <2>2. CASE SummaryFile!Move(r)
    <3>1. /\ summary' = summaryTmp /\ summaryTmp' # Empty /\ runnerPC[r] = "replace"
          /\ \A q \in Runners : handle'[q] = SummaryFile!Follow[handle[q]]
          /\ UNCHANGED failures
      BY <1>9, <2>2, SuiteAssumption DEF SummaryFile!Move, ReplaceSummary, SuiteAssumption
    <3>3. \A q \in Runners : runnerPC'[q] = runnerPC[q] \/ q = r
      BY <1>9 DEF ReplaceSummary, Go, Exit, Types
    <3>4. handle[r] = "closed" /\ handle'[r] = "closed"
      BY <3>1 DEF EmptyInv, SummaryFile!Follow
    <3>7. \A q \in Runners : /\ handle'[q] # "closed" => handle[q] # "closed"
                             /\ handle[q] = "tmp" => handle'[q] = "file"
      <4> TAKE q \in Runners
      <4>1. handle[q] \in Handles
        BY DEF Types
      <4>2. handle'[q] = SummaryFile!Follow[handle[q]]
        BY <3>1
      <4> QED BY <4>1, <4>2 DEF Handles, SummaryFile!Follow
    <3>5. \A q \in Runners : handle'[q] # "closed" => runnerPC'[q] = "write"
      BY <3>3, <3>4, <3>7 DEF EmptyInv
    <3>6. failures = 0 /\ summary' = Empty => \E q \in Runners : handle'[q] = "file"
      BY <3>1, <3>7 DEF EmptyInv
    <3> QED BY <3>1, <3>5, <3>6 DEF EmptyInv
  <2> QED BY <1>9, <2>1, <2>2 DEF ReplaceSummary
<1>10. ASSUME NEW r \in Runners, Die(r) \/ Tear(r) PROVE EmptyInv'
  BY <1>3, <1>10 DEF Die, Tear
<1>11. CASE UNCHANGED suiteVars
  BY <1>11 DEF EmptyInv, suiteVars, fileVars, runnerVars
<1> QED
  BY <1>4, <1>5, <1>6, <1>7, <1>8, <1>9, <1>10, <1>11 DEF RunnerNext, RunnerStep, Invoke

(* While no runner has died, a summary that is published empty is one that  *)
(* somebody is about to write.                                              *)
THEOREM EmptySummariesAreWritten == RunnerSpec => []EmptySummaryIsBeingWritten
<1>1. Types /\ EmptyInv => EmptySummaryIsBeingWritten
  <2>1. Types => failures = 0 \/ failures > 0
    BY DEF Types
  <2> QED BY <2>1 DEF EmptyInv, EmptySummaryIsBeingWritten
<1>2. Types /\ EmptyInv /\ [RunnerNext]_suiteVars => EmptyInv'
  BY StepEmpty
<1> QED BY <1>1, <1>2, InitEmpty, TypesAlways, PTL DEF RunnerSpec

(***************************************************************************)
(* One runner at a time.                                                   *)
(***************************************************************************)
Alone == \A q, r \in Runners : q = r

Prefix(s) == Len(s) <= Len(ledger) /\ \A i \in DOMAIN s : s[i] = ledger[i]

(* A runner at work knows the whole ledger, and the pairs still before it   *)
(* that it will not skip are those the ledger does not have.                *)
ScheduleInv ==
  /\ \A i \in DOMAIN ledger : ledger[i].pair = i
  /\ \A r \in Runners : Working(r) =>
       ~torn /\ seen[r] = ledger /\ completed[r] \subseteq 1..Len(ledger)
  /\ \A r \in Runners : ~Working(r) => seen[r] = <<>> /\ next[r] = 1
  /\ \A r \in Runners : RunnerAt(r, "schedule") =>
       next[r] <= Len(ledger) + 1 /\ next[r]..Len(ledger) \subseteq completed[r]
  /\ \A r \in Runners : RunnerAt(r, "append") =>
       next[r] = Len(ledger) + 1 /\ current[r].pair = next[r]
  /\ \A r \in Runners : runnerPC[r] \in {"summary", "write", "replace"} => next[r] = Len(ledger)
  /\ \A r \in Runners : RunnerAt(r, "write") => handle[r] = "tmp" /\ summaryTmp = Empty
  /\ \A r \in Runners : RunnerAt(r, "replace") => summaryTmp = ledger
  /\ summary # None => summary \in Seq(Evaluations) /\ Prefix(summary)

LEMMA InitSchedule == Init => ScheduleInv
BY DEF Init, ScheduleInv, Working, RunnerAt, SummaryFile!FileInit

LEMMA LedgerFits ==
  ASSUME Types, ScheduleInv
  PROVE  Len(ledger) <= NumPairs
<1>1. SUFFICES ASSUME Len(ledger) > NumPairs PROVE FALSE
  BY DEF Types
<1>2. Len(ledger) \in DOMAIN ledger /\ ledger[Len(ledger)] \in Evaluations
  BY <1>1 DEF Types
<1>3. ledger[Len(ledger)].pair = Len(ledger) /\ ledger[Len(ledger)].pair \in Pairs
  BY <1>2 DEF ScheduleInv, Evaluations
<1> QED BY <1>1, <1>3 DEF Pairs

LEMMA StepSchedule ==
  ASSUME Alone, Types, Types', ScheduleInv, [RunnerNext]_suiteVars
  PROVE  ScheduleInv'
<1> USE DEF RunnerAt, Working
<1>1. ASSUME NEW r \in Runners, Exit(r), UNCHANGED <<ledger, summary>>
      PROVE  ScheduleInv'
  <2>1. \A q \in Runners : q = r
    BY DEF Alone
  <2>2. runnerPC'[r] = "off" /\ seen'[r] = <<>> /\ next'[r] = 1
    BY <1>1 DEF Exit, Go, Types
  <2> QED BY <1>1, <2>1, <2>2 DEF ScheduleInv, Prefix
<1>2. ASSUME NEW r \in Runners, StartSuite(r) PROVE ScheduleInv'
  BY <1>2 DEF StartSuite, Go, ScheduleInv, Prefix, Types, Alone
<1>3. ASSUME NEW r \in Runners, WriteConfig(r) PROVE ScheduleInv'
  BY <1>3 DEF WriteConfig, Go, ScheduleInv, Prefix, Types, Alone
<1>4. ASSUME NEW r \in Runners, ResumeSuite(r) PROVE ScheduleInv'
  BY <1>4 DEF ResumeSuite, Go, ScheduleInv, Prefix, Types, fileVars, Alone
<1>5. ASSUME NEW r \in Runners, LoadProgress(r) PROVE ScheduleInv'
  <2>1. CASE Exit(r)
    BY <1>1, <1>5, <2>1 DEF LoadProgress, fileVars
  <2>2. CASE ~Exit(r)
    <3>1. /\ ~torn /\ seen'[r] = ledger /\ completed'[r] = PairsOf(ledger)
          /\ runnerPC'[r] = "schedule" /\ next'[r] = 1
          /\ UNCHANGED <<ledger, torn, summary, summaryTmp>>
      BY <1>5, <2>2 DEF LoadProgress, Readable, Go, Types, fileVars, ScheduleInv
    <3>2. PairsOf(ledger) = 1..Len(ledger)
      <4>1. DOMAIN ledger = 1..Len(ledger) /\ \A i \in DOMAIN ledger : ledger[i].pair = i
        BY DEF ScheduleInv, Types
      <4> QED BY <4>1 DEF PairsOf
    <3>3. \A q \in Runners : q = r
      BY DEF Alone
    <3>4. 1 <= Len(ledger) + 1
      BY DEF Types
    <3> QED BY <3>1, <3>2, <3>3, <3>4 DEF ScheduleInv, Prefix
  <2> QED BY <2>1, <2>2
<1>6. ASSUME NEW r \in Runners, Skip(r) PROVE ScheduleInv'
  <2>1. next[r] \in 1..Len(ledger) /\ next'[r] = next[r] + 1
    BY <1>6 DEF Skip, AlreadyDone, ScheduleInv, Types
  <2>2. next'[r] <= Len(ledger) + 1 /\ next'[r]..Len(ledger) \subseteq next[r]..Len(ledger)
    BY <2>1 DEF Types
  <2> QED BY <1>6, <2>1, <2>2 DEF Skip, ScheduleInv, Prefix, fileVars, Alone
<1>7. ASSUME NEW r \in Runners, RunCase(r) PROVE ScheduleInv'
  <2>1. next[r] = Len(ledger) + 1
    <3>1. next[r] <= Len(ledger) + 1 /\ next[r]..Len(ledger) \subseteq completed[r]
      BY <1>7 DEF RunCase, ScheduleInv
    <3>2. next[r] \notin completed[r] /\ next[r] \in Nat /\ Len(ledger) \in Nat
      BY <1>7 DEF RunCase, AlreadyDone, Types
    <3> QED BY <3>1, <3>2
  <2>2. current'[r].pair = next[r] /\ runnerPC'[r] = "append"
    BY <1>7 DEF RunCase, Go, Types
  <2> QED BY <1>7, <2>1, <2>2 DEF RunCase, ScheduleInv, Prefix, fileVars, Alone
<1>8. ASSUME NEW r \in Runners, AppendLine(r) PROVE ScheduleInv'
  <2>1. /\ ~torn /\ seen[r] = ledger /\ completed[r] \subseteq 1..Len(ledger)
        /\ next[r] = Len(ledger) + 1 /\ current[r].pair = next[r] /\ current[r] \in Evaluations
    BY <1>8 DEF AppendLine, ScheduleInv, Types
  <2>2. /\ ledger' = Append(ledger, current[r]) /\ seen'[r] = ledger'
        /\ runnerPC'[r] = "summary" /\ UNCHANGED <<torn, summary, summaryTmp, next, completed>>
    BY <1>8, <2>1 DEF AppendLine, LedgerWith, Go, Types
  <2>3. /\ Len(ledger') = Len(ledger) + 1
        /\ \A i \in DOMAIN ledger' : (i \in DOMAIN ledger /\ ledger'[i] = ledger[i])
                                     \/ (i = Len(ledger) + 1 /\ ledger'[i] = current[r])
        /\ \A i \in DOMAIN ledger : ledger'[i] = ledger[i]
    <3>1. ledger \in Seq(Evaluations)
      BY DEF Types
    <3>2. /\ ledger' \in Seq(Evaluations) /\ Len(ledger') = Len(ledger) + 1
          /\ \A i \in 1..Len(ledger) : ledger'[i] = ledger[i]
          /\ ledger'[Len(ledger) + 1] = current[r]
      BY <2>1, <2>2, <3>1, AppendEvaluation
    <3>3. DOMAIN ledger = 1..Len(ledger) /\ DOMAIN ledger' = 1..(Len(ledger) + 1) /\ Len(ledger) \in Nat
      BY <3>1, <3>2
    <3>4. \A i \in DOMAIN ledger' : i \in DOMAIN ledger \/ i = Len(ledger) + 1
      BY <3>3
    <3>5. \A i \in DOMAIN ledger : ledger'[i] = ledger[i]
      BY <3>2, <3>3
    <3> QED BY <3>2, <3>4, <3>5
  <2>4. \A i \in DOMAIN ledger' : ledger'[i].pair = i
    BY <2>1, <2>3 DEF ScheduleInv
  <2>5. \A s \in Seq(Evaluations) : Prefix(s) =>
          Len(s) <= Len(ledger') /\ \A i \in DOMAIN s : s[i] = ledger'[i]
    <3> SUFFICES ASSUME NEW s \in Seq(Evaluations), Prefix(s)
                 PROVE  Len(s) <= Len(ledger') /\ \A i \in DOMAIN s : s[i] = ledger'[i]
      OBVIOUS
    <3>1. Len(s) \in Nat /\ DOMAIN s = 1..Len(s)
      OBVIOUS
    <3>2. Len(ledger) \in Nat /\ DOMAIN ledger = 1..Len(ledger) /\ Len(s) <= Len(ledger)
      BY DEF Prefix, Types
    <3>3. DOMAIN s \subseteq DOMAIN ledger
      BY <3>1, <3>2
    <3> QED BY <2>3, <3>1, <3>2, <3>3 DEF Prefix
  <2>6. summary' # None => summary' \in Seq(Evaluations) /\ Prefix(summary)'
    BY <2>2, <2>5 DEF ScheduleInv, Prefix
  <2>7. \A q \in Runners : q = r
    BY DEF Alone
  <2>8. completed'[r] \subseteq 1..Len(ledger')
    BY <2>1, <2>2, <2>3 DEF Types
  <2> QED BY <2>1, <2>2, <2>3, <2>4, <2>6, <2>7, <2>8 DEF ScheduleInv
<1>9. ASSUME NEW r \in Runners, OpenSummary(r) PROVE ScheduleInv'
  BY <1>9 DEF OpenSummary, SummaryFile!Open, Go, ScheduleInv, Prefix, Types, Alone
<1>14. ASSUME NEW r \in Runners, WriteSummary(r) PROVE ScheduleInv'
  <2>1. handle[r] = "tmp" /\ summaryTmp = Empty /\ seen[r] = ledger /\ next[r] = Len(ledger)
    BY <1>14 DEF WriteSummary, ScheduleInv
  <2>2. summaryTmp' = ledger /\ UNCHANGED summary
    BY <1>14, <2>1 DEF WriteSummary, SummaryFile!Write, SummaryFile!Put, SummaryFile!Opened
  <2>3. runnerPC'[r] = "replace" /\ UNCHANGED <<ledger, torn, seen, completed, next, current>>
    BY <1>14 DEF WriteSummary, Go, Types
  <2>4. \A q \in Runners : q = r
    BY DEF Alone
  <2> QED BY <2>1, <2>2, <2>3, <2>4, <1>14 DEF WriteSummary, ScheduleInv, Prefix
<1>10. ASSUME NEW r \in Runners, ReplaceSummary(r) PROVE ScheduleInv'
  <2>1. summaryTmp = ledger /\ ledger \in Seq(Evaluations) /\ summaryTmp # None
    BY <1>10, SuiteAssumption DEF ReplaceSummary, ScheduleInv, Types, SuiteAssumption
  <2>2. next[r] = Len(ledger) /\ next'[r] = next[r] + 1 /\ runnerPC'[r] = "schedule"
    BY <1>10, <2>1 DEF ReplaceSummary, Go, ScheduleInv, Types
  <2>3. next'[r]..Len(ledger) = {} /\ next'[r] <= Len(ledger) + 1
    BY <2>1, <2>2
  <2>4. summary' = ledger /\ UNCHANGED <<ledger, torn, seen, completed>>
    BY <1>10, <2>1 DEF ReplaceSummary, SummaryFile!Move
  <2>5. \A q \in Runners : q = r
    BY DEF Alone
  <2>6. Working(r) /\ Prefix(ledger)
    BY <1>10, <2>1 DEF ReplaceSummary, Prefix
  <2> QED BY <2>1, <2>2, <2>3, <2>4, <2>5, <2>6 DEF ScheduleInv, Prefix
<1>11. ASSUME NEW r \in Runners, Finish(r) PROVE ScheduleInv'
  BY <1>11 DEF Finish, Go, ScheduleInv, Prefix, Types, fileVars, Alone
<1>12. ASSUME NEW r \in Runners, Die(r) \/ Tear(r) PROVE ScheduleInv'
  <2>1. RunnerAt(r, "write") /\ SummaryFile!Interrupt(r) => UNCHANGED summary
    BY DEF SummaryFile!Interrupt, SummaryFile!Put, ScheduleInv
  <2> QED BY <1>1, <1>12, <2>1 DEF Die, Tear, fileVars
<1>13. CASE UNCHANGED suiteVars
  BY <1>13 DEF ScheduleInv, Prefix, suiteVars, fileVars, runnerVars
<1> QED
  BY <1>2, <1>3, <1>4, <1>5, <1>6, <1>7, <1>8, <1>9, <1>10, <1>11, <1>12, <1>13, <1>14
     DEF RunnerNext, RunnerStep, Invoke

LEMMA ScheduleAlways ==
  ASSUME Alone PROVE RunnerSpec => [](Types /\ ScheduleInv)
<1>1. Types /\ ScheduleInv /\ [RunnerNext]_suiteVars => (Types /\ ScheduleInv)'
  BY StepTypes, StepSchedule
<1> QED BY <1>1, InitTypes, InitSchedule, PTL DEF RunnerSpec

(* The files and the memory of the one runner hold what they are meant to.  *)
THEOREM TypeCorrect == ASSUME Alone PROVE RunnerSpec => []TypeOK
<1>1. Types /\ ScheduleInv => TypeOK
  <2> SUFFICES ASSUME Types, ScheduleInv PROVE TypeOK
    OBVIOUS
  <2>1. Len(ledger) <= NumPairs /\ Len(<<>>) <= NumPairs
    BY LedgerFits
  <2>2. \A r \in Runners : Len(seen[r]) <= NumPairs
    BY <2>1 DEF ScheduleInv
  <2> QED BY <2>2 DEF Types, TypeOK, Labels, Texts, Handles
<1> QED BY <1>1, ScheduleAlways, PTL

(* Across every crash and resume the ledger is the schedule so far.         *)
THEOREM LedgerIsSchedule == ASSUME Alone PROVE RunnerSpec => []LedgerFollowsSchedule
<1>1. Types /\ ScheduleInv => LedgerFollowsSchedule
  BY LedgerFits DEF ScheduleInv, LedgerFollowsSchedule
<1> QED BY <1>1, ScheduleAlways, PTL

(* The summary is what the ledger was after one of its lines.               *)
THEOREM SummaryIsPrefix == ASSUME Alone PROVE RunnerSpec => []SummaryFromLedger
<1>1. ScheduleInv => SummaryFromLedger
  BY SuiteAssumption DEF ScheduleInv, SummaryFromLedger, Prefix, SummaryFile!Whole, SuiteAssumption
<1> QED BY <1>1, ScheduleAlways, PTL

(* A summary whose score is official has the whole benchmark behind it and  *)
(* no mark against any of its lines.                                        *)
THEOREM OfficialScoreIsSound == ASSUME Alone PROVE RunnerSpec => []OfficialSummaryIsSound
<1>1. Types /\ ScheduleInv => OfficialSummaryIsSound
  <2> SUFFICES ASSUME Types, ScheduleInv, summary # None, Blockers(summary) = {}
               PROVE  FullBenchmark /\ CleanGit /\ Complete(ledger) /\ MarksOf(ledger) = {}
    BY DEF OfficialSummaryIsSound
  <2>1. FullBenchmark /\ CleanGit /\ Complete(summary) /\ MarksOf(summary) = {}
    BY DEF Blockers, Unless
  <2>2. Prefix(summary) /\ summary \in Seq(Evaluations) /\ ledger \in Seq(Evaluations)
    BY DEF ScheduleInv, Types
  <2>3. PICK i \in DOMAIN summary : summary[i].pair = NumPairs
    BY <2>1 DEF Complete, PairsOf, Pairs
  <2>4. i = NumPairs
    BY <2>2, <2>3 DEF Prefix, ScheduleInv
  <2>5. Len(summary) = Len(ledger)
    BY <2>2, <2>3, <2>4, LedgerFits DEF Prefix
  <2>6. summary = ledger
    BY <2>2, <2>5, SeqEqual DEF Prefix
  <2> QED BY <2>1, <2>6
<1> QED BY <1>1, ScheduleAlways, PTL
=============================================================================
