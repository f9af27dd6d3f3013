-------------------------- MODULE AdjudicationProofs --------------------------
(* Proofs about adjudications beside one runner: what they rest on stays as *)
(* it is, because a complete suite has nothing more to write.               *)
EXTENDS Adjudication, SuiteProofs

USE SuiteAssumption, AdjudicatorAssumption

(***************************************************************************)
(* The suite under the adjudications.                                      *)
(***************************************************************************)
SuiteInv == Types /\ ScheduleInv
LEMMA InitSuite == Init => SuiteInv
BY InitTypes, InitSchedule DEF SuiteInv

LEMMA StepSuite ==
  ASSUME Alone, SuiteInv, [RunnerNext]_suiteVars
  PROVE  SuiteInv'
BY StepTypes, StepSchedule DEF SuiteInv

LEMMA NextIsSuiteStep == [Next]_vars => [RunnerNext]_suiteVars
BY DEF Next, vars, AdjStep, Adjudicate, ReadLedger, ReadSummary, HashFiles, CheckAdjudication,
       WriteAdjudication, CheckOverlay, WriteOverlay, AdjDie

(* A suite that is adjudicated, at any time and by any number, runs as one   *)
(* that is not: what SuiteProofs proves of it holds beside adjudications.   *)
THEOREM ImplementsSuite == Spec => RunnerSpec
BY NextIsSuiteStep, PTL DEF Spec, RunnerSpec

(* Whatever is adjudicated, and when, and by how many: the ledger is the    *)
(* schedule so far, the summary a beginning of it, and an official score    *)
(* has nothing against it.                                                  *)
THEOREM SuiteStaysSound ==
  ASSUME Alone
  PROVE  Spec => [](TypeOK /\ LedgerFollowsSchedule /\ SummaryFromLedger /\ OfficialSummaryIsSound)
BY ImplementsSuite, TypeCorrect, LedgerIsSchedule, SummaryIsPrefix, OfficialScoreIsSound, PTL

(* A complete ledger has the last line.                                    *)
LEMMA CompleteIsFull ==
  ASSUME SuiteInv, Complete(ledger)
  PROVE  Len(ledger) = NumPairs /\ Distinct(ledger)
<1>1. PICK i \in DOMAIN ledger : ledger[i].pair = NumPairs
  <2>1. NumPairs \in PairsOf(ledger)
    BY DEF Complete, Pairs
  <2> QED BY <2>1 DEF PairsOf
<1>2. i = NumPairs /\ i <= Len(ledger)
  BY <1>1 DEF SuiteInv, ScheduleInv, Types
<1>3. Len(ledger) \in Nat /\ Len(ledger) <= NumPairs
  BY LedgerFits DEF SuiteInv, Types
<1>4. Distinct(ledger)
  BY DEF SuiteInv, ScheduleInv, Distinct
<1> QED BY <1>2, <1>3, <1>4

(* A summary is published whole, and only when it is the ledger.           *)
LEMMA SummaryMoves ==
  ASSUME SuiteInv, [RunnerNext]_suiteVars
  PROVE  \/ UNCHANGED summary
         \/ \E r \in Runners : ReplaceSummary(r) /\ summary' = ledger
<1>1. ASSUME NEW r \in Runners, WriteSummary(r) \/ Tear(r) PROVE UNCHANGED summary
  <2>1. RunnerAt(r, "write") => handle[r] # "file"
    BY DEF SuiteInv, ScheduleInv
  <2> QED BY <1>1, <2>1 DEF WriteSummary, Tear, SummaryFile!Write, SummaryFile!Interrupt, SummaryFile!Put
<1>2. ASSUME NEW r \in Runners, ReplaceSummary(r)
      PROVE  UNCHANGED summary \/ summary' = ledger
  <2>1. summaryTmp = ledger
    BY <1>2 DEF ReplaceSummary, SuiteInv, ScheduleInv
  <2> QED BY <1>2, <2>1 DEF ReplaceSummary, SummaryFile!Move
<1> QED
  BY <1>1, <1>2 DEF RunnerNext, RunnerStep, Invoke, StartSuite, WriteConfig, ResumeSuite,
     LoadProgress, Skip, RunCase, AppendLine, OpenSummary, SummaryFile!Open, Finish, Die, suiteVars, fileVars

(* No step of the runner changes a complete ledger, nor a summary of it.   *)
LEMMA CompleteStays ==
  ASSUME Alone, SuiteInv, [RunnerNext]_suiteVars, Complete(ledger)
  PROVE  ledger' = ledger /\ (summary = ledger => summary' = summary)
<1>1. ASSUME NEW r \in Runners, AppendLine(r) PROVE FALSE
  <2>1. next[r] = Len(ledger) + 1 /\ next[r] <= NumPairs
    BY <1>1 DEF AppendLine, RunnerAt, SuiteInv, ScheduleInv, Types
  <2> QED BY <2>1, CompleteIsFull
<1>2. ledger' = ledger
  BY <1>1 DEF RunnerNext, RunnerStep, Invoke, StartSuite, WriteConfig, ResumeSuite, LoadProgress,
     Skip, RunCase, OpenSummary, WriteSummary, ReplaceSummary, Finish, Die, Tear, suiteVars, fileVars
<1> QED BY <1>2, SummaryMoves

(***************************************************************************)
(* What an adjudication rests on.                                          *)
(***************************************************************************)
AfterLedger == {"summary", "hash", "exists", "open", "write", "replace",
                "overlay", "open_overlay", "write_overlay", "replace_overlay"}
AfterSummary == AfterLedger \ {"summary"}
AfterHash == AfterSummary \ {"hash"}
Payloads ==
  [decisions : [Candidates(ledger) -> Decisions], ledger : {None, ledger}, summary : {None, ledger}]
Rests(text) ==
  Complete(ledger) /\ text \in Payloads /\ text.ledger = ledger /\ text.summary = ledger

RestInv ==
  /\ adjPC \in [Adjudicators -> {"off", "ledger"} \cup AfterLedger]
  /\ DOMAIN cases = Adjudicators /\ DOMAIN payload = Adjudicators
  /\ \A a \in Adjudicators : adjPC[a] \in AfterLedger => cases[a] = ledger /\ Complete(ledger)
  /\ \A a \in Adjudicators : adjPC[a] \in AfterSummary => payload[a] \in Payloads /\ summary = ledger
  /\ \A a \in Adjudicators : adjPC[a] \in AfterHash =>
       payload[a].ledger = ledger /\ payload[a].summary = ledger
  /\ \A text \in {adjudication, adjudicationTmp} : DecisionFile!Whole(text) => Rests(text)

LEMMA InitRest == AdjInit => RestInv
BY DEF AdjInit, RestInv, AfterLedger, AfterSummary, AfterHash, DecisionFile!FileInit, DecisionFile!Whole

(* What an adjudication leaves in the two files of the decisions was there, *)
(* is its payload, or cannot be read.                                       *)
LEMMA DecisionsMove ==
  ASSUME NEW a \in Adjudicators, WriteAdjudication(a) \/ AdjDie(a),
         NEW text \in {adjudication', adjudicationTmp'}, DecisionFile!Whole(text)
  PROVE  text \in {adjudication, adjudicationTmp} \/ (text = payload[a] /\ AdjAt(a, "write"))
BY DEF WriteAdjudication, AdjDie, DecisionFile!Whole, DecisionFile!Open, DecisionFile!Write,
       DecisionFile!Put, DecisionFile!Interrupt, DecisionFile!Close, DecisionFile!Move

LEMMA StepRest ==
  ASSUME Alone, SuiteInv, RestInv, [Next]_vars
  PROVE  RestInv'
<1> USE DEF AdjAt, AdjGo, AfterLedger, AfterSummary, AfterHash
<1>1. CASE [RunnerNext]_suiteVars /\ UNCHANGED adjVars
  <2>1. CASE Complete(ledger)
    <3>1. ledger' = ledger /\ (summary = ledger => summary' = summary)
      BY <1>1, <2>1, CompleteStays
    <3>2. Payloads' = Payloads /\ Complete(ledger)' = Complete(ledger)
      BY <3>1 DEF Payloads, Candidates, Complete, PairsOf
    <3> QED BY <1>1, <3>1, <3>2 DEF RestInv, Rests, DecisionFile!Whole, adjVars, decisionVars
  <2>2. CASE ~Complete(ledger)
    BY <1>1, <2>2 DEF RestInv, Rests, DecisionFile!Whole, adjVars, decisionVars
  <2> QED BY <2>1, <2>2
<1>2. ASSUME NEW a \in Adjudicators, AdjStep(a) PROVE RestInv'
  <2>1. UNCHANGED suiteVars
    BY <1>2 DEF AdjStep, Adjudicate, ReadLedger, ReadSummary, HashFiles, CheckAdjudication,
       WriteAdjudication, CheckOverlay, WriteOverlay, AdjDie
  <2>2. /\ UNCHANGED <<ledger, summary>> /\ Payloads' = Payloads
        /\ Complete(ledger)' = Complete(ledger)
    BY <2>1 DEF suiteVars, fileVars, Payloads, Candidates, Complete, PairsOf
  <2>12. UNCHANGED decisionVars =>
           \A text \in {adjudication', adjudicationTmp'} : DecisionFile!Whole(text) => Rests(text)'
    BY <2>2 DEF RestInv, Rests, decisionVars
  <2>3. ASSUME AdjExit(a), UNCHANGED decisionVars PROVE RestInv'
    BY <2>2, <2>3, <2>12 DEF AdjExit, RestInv, DecisionFile!Whole
  <2>4. CASE Adjudicate(a)
    BY <2>2, <2>4, <2>12 DEF Adjudicate, RestInv, DecisionFile!Whole
  <2>5. CASE ReadLedger(a)
    <3>1. CASE AdjExit(a)
      BY <2>3, <2>5, <3>1 DEF ReadLedger
    <3>2. CASE ~AdjExit(a)
      BY <2>2, <2>5, <2>12, <3>2 DEF ReadLedger, Adjudicable, RestInv, DecisionFile!Whole
    <3> QED BY <3>1, <3>2
  <2>6. CASE ReadSummary(a)
    <3>1. CASE AdjExit(a)
      BY <2>3, <2>6, <3>1 DEF ReadSummary
    <3>2. CASE ~AdjExit(a)
      <4>1. cases[a] = ledger /\ Complete(ledger) /\ summary = ledger
        BY <2>6, <3>2 DEF ReadSummary, SummaryAgrees, RestInv
      <4>2. PICK d \in [Candidates(ledger) -> Decisions] :
              payload' = [payload EXCEPT ![a] = [decisions |-> d, ledger |-> None, summary |-> None]]
        BY <2>6, <3>2, <4>1 DEF ReadSummary
      <4>3. [decisions |-> d, ledger |-> None, summary |-> None] \in Payloads
        BY DEF Payloads
      <4>4. adjPC' = [adjPC EXCEPT ![a] = "hash"] /\ UNCHANGED <<cases, decisionVars>>
        BY <2>6, <3>2 DEF ReadSummary
      <4> QED BY <2>2, <2>12, <4>1, <4>2, <4>3, <4>4 DEF RestInv, DecisionFile!Whole
    <3> QED BY <3>1, <3>2
  <2>7. CASE HashFiles(a)
    <3>1. payload[a] \in Payloads /\ summary = ledger
      BY <2>7 DEF HashFiles, RestInv
    <3>2. /\ payload' = [payload EXCEPT ![a] = [payload[a] EXCEPT !.ledger = ledger, !.summary = ledger]]
          /\ adjPC' = [adjPC EXCEPT ![a] = "exists"] /\ UNCHANGED <<cases, decisionVars>>
      BY <2>7, <3>1 DEF HashFiles
    <3>3. LET p == [payload[a] EXCEPT !.ledger = ledger, !.summary = ledger]
          IN  p \in Payloads /\ p.ledger = ledger /\ p.summary = ledger
      BY <3>1 DEF Payloads
    <3> QED BY <2>2, <2>12, <3>1, <3>2, <3>3, <2>7 DEF HashFiles, RestInv, DecisionFile!Whole
  <2>8. CASE CheckAdjudication(a)
    <3>1. CASE AdjExit(a)
      BY <2>3, <2>8, <3>1 DEF CheckAdjudication
    <3>2. CASE ~AdjExit(a)
      BY <2>2, <2>8, <2>12, <3>2 DEF CheckAdjudication, RestInv, DecisionFile!Whole
    <3> QED BY <3>1, <3>2
  <2>13. ASSUME WriteAdjudication(a) \/ AdjDie(a)
         PROVE  \A text \in {adjudication', adjudicationTmp'} : DecisionFile!Whole(text) => Rests(text)'
    <3>1. AdjAt(a, "write") => Rests(payload[a])
      BY DEF RestInv, Rests
    <3> QED BY <2>2, <2>13, <3>1, DecisionsMove DEF RestInv, Rests
  <2>9. CASE WriteAdjudication(a)
    BY <2>2, <2>9, <2>13 DEF WriteAdjudication, RestInv, DecisionFile!Whole
  <2>10. CASE CheckOverlay(a)
    <3>1. CASE AdjExit(a)
      BY <2>3, <2>10, <3>1 DEF CheckOverlay
    <3>2. CASE ~AdjExit(a)
      BY <2>2, <2>10, <2>12, <3>2 DEF CheckOverlay, RestInv, DecisionFile!Whole
    <3> QED BY <3>1, <3>2
  <2>11. CASE WriteOverlay(a)
    <3>1. CASE AdjExit(a)
      BY <2>3, <2>11, <3>1 DEF WriteOverlay
    <3>2. CASE ~AdjExit(a)
      BY <2>2, <2>11, <2>12, <3>2 DEF WriteOverlay, RestInv, DecisionFile!Whole
    <3> QED BY <3>1, <3>2
  <2>14. CASE AdjDie(a)
    BY <2>2, <2>13, <2>14 DEF AdjDie, AdjExit, RestInv, DecisionFile!Whole
  <2> QED BY <1>2, <2>4, <2>5, <2>6, <2>7, <2>8, <2>9, <2>10, <2>11, <2>14 DEF AdjStep
<1> QED BY <1>1, <1>2 DEF Next, vars

LEMMA RestAlways == ASSUME Alone PROVE Spec => [](SuiteInv /\ RestInv)
<1>1. SuiteInv /\ RestInv /\ [Next]_vars => (SuiteInv /\ RestInv)'
  BY NextIsSuiteStep, StepSuite, StepRest
<1> QED BY <1>1, InitSuite, InitRest, PTL DEF Spec

(* Whoever adjudicates, and however many at once: with one runner the       *)
(* decisions rest on the ledger and the summary as they are.                *)
THEOREM DecisionsRestOnLedger == ASSUME Alone PROVE Spec => []AdjudicationRestsOnLedger
<1>1. SuiteInv /\ RestInv => AdjudicationRestsOnLedger
  BY CompleteIsFull DEF RestInv, Rests, Payloads, AdjudicationRestsOnLedger
<1> QED BY <1>1, RestAlways, PTL

(***************************************************************************)
(* One adjudication at a time.                                             *)
(***************************************************************************)
AloneToo == \A a, b \in Adjudicators : a = b

AtDecisions == {"open", "write", "replace"}
AtOverlay == {"open_overlay", "write_overlay", "replace_overlay"}
(* The one adjudication finds each temporary file as it left it.            *)
HandlesInv ==
  /\ DOMAIN adjudicationHandle = Adjudicators /\ DOMAIN overlayHandle = Adjudicators
  /\ \A a \in Adjudicators :
       /\ adjudicationHandle[a] = IF AdjAt(a, "write") THEN "tmp" ELSE "closed"
       /\ overlayHandle[a] = IF AdjAt(a, "write_overlay") THEN "tmp" ELSE "closed"
       /\ AdjAt(a, "write") => adjudicationTmp = Empty
       /\ AdjAt(a, "replace") => adjudicationTmp = payload[a]
       /\ AdjAt(a, "write_overlay") => overlayTmp = Empty
       /\ AdjAt(a, "replace_overlay") => overlayTmp = OverlayOf(payload[a], cases[a])

OverlayInv ==
  /\ \A a \in Adjudicators : adjPC[a] \in AtDecisions => adjudication = None
  /\ \A a \in Adjudicators : adjPC[a] \in {"overlay"} \cup AtOverlay => adjudication = payload[a]
  /\ \A a \in Adjudicators : adjPC[a] \in AtOverlay => overlay = None
  /\ adjudication # None => Rests(adjudication)
  /\ overlay # None => adjudication # None /\ overlay = OverlayOf(adjudication, ledger)

LEMMA InitOverlay == AdjInit => HandlesInv /\ OverlayInv
BY DEF AdjInit, HandlesInv, OverlayInv, AtDecisions, AtOverlay, AdjAt, DecisionFile!FileInit, OverlayFile!FileInit

(* What an adjudication writes is a whole file.                            *)
LEMMA PayloadIsFile ==
  ASSUME SuiteInv, NEW p, Rests(p)
  PROVE  DecisionFile!Whole(p)
<1>1. ledger \in Seq(Evaluations)
  BY DEF SuiteInv, Types
<1>2. Candidates(ledger) \in SUBSET Pairs
  <2>1. \A i \in DOMAIN ledger : ledger[i] \in Evaluations
    BY <1>1
  <2> QED BY <2>1 DEF Candidates, Evaluations
<1>3. p \in [decisions : [Candidates(ledger) -> Decisions],
             ledger : Seq(Evaluations), summary : Seq(Evaluations)]
  BY <1>1 DEF Payloads, Rests
<1> QED BY <1>2, <1>3, AdjudicatorAssumption DEF AdjudicatorAssumption, DecisionFile!Whole

(* What the files of an adjudication hold changes only where it moves its   *)
(* temporary file there, and then there was none.                           *)
LEMMA FilesMove ==
  ASSUME AloneToo, SuiteInv, RestInv, HandlesInv, OverlayInv, NEW a \in Adjudicators, AdjStep(a)
  PROVE  \/ UNCHANGED <<adjudication, overlay>>
         \/ /\ AdjAt(a, "replace") /\ adjudication = None /\ adjudication' = payload[a]
            /\ Rests(payload[a]) /\ summary = ledger /\ UNCHANGED overlay
         \/ /\ AdjAt(a, "replace_overlay") /\ overlay = None
            /\ adjudication # None /\ adjudication = payload[a] /\ Rests(adjudication)
            /\ overlay' = OverlayOf(adjudication, ledger) /\ UNCHANGED adjudication
<1> USE DEF AdjAt, AtDecisions, AtOverlay
<1>1. CASE WriteAdjudication(a)
  <2>1. UNCHANGED overlay
    BY <1>1 DEF WriteAdjudication, overlayVars
  <2>2. CASE adjPC[a] = "replace"
    <3>1. adjudication = None /\ adjudication' = payload[a]
      BY <1>1, <2>2 DEF WriteAdjudication, DecisionFile!Move, OverlayInv, HandlesInv
    <3>2. Rests(payload[a]) /\ summary = ledger
      BY <2>2 DEF RestInv, Rests, AfterLedger, AfterSummary, AfterHash
    <3> QED BY <2>1, <2>2, <3>1, <3>2
  <2>3. CASE adjPC[a] # "replace"
    BY <1>1, <2>1, <2>3 DEF WriteAdjudication, DecisionFile!Open, DecisionFile!Write, DecisionFile!Put, HandlesInv
  <2> QED BY <2>2, <2>3
<1>2. CASE WriteOverlay(a)
  <2>1. UNCHANGED adjudication
    BY <1>2 DEF WriteOverlay, decisionVars
  <2>2. CASE adjPC[a] = "replace_overlay"
    <3>1. adjudication = payload[a] /\ overlay = None /\ overlay' = OverlayOf(payload[a], cases[a])
      BY <1>2, <2>2 DEF WriteOverlay, OverlayFile!Move, OverlayInv, HandlesInv
    <3>2. Rests(payload[a]) /\ cases[a] = ledger
      BY <2>2 DEF RestInv, Rests, AfterLedger, AfterSummary, AfterHash
    <3>3. payload[a] # None
      BY <3>2, PayloadIsFile DEF DecisionFile!Whole
    <3> QED BY <2>1, <2>2, <3>1, <3>2, <3>3
  <2>3. CASE adjPC[a] # "replace_overlay"
    BY <1>2, <2>1, <2>3 DEF WriteOverlay, OverlayFile!Open, OverlayFile!Write, OverlayFile!Put, HandlesInv
  <2> QED BY <2>2, <2>3
<1>3. CASE AdjDie(a)
  BY <1>3 DEF AdjDie, HandlesInv, DecisionFile!Close, DecisionFile!Interrupt, DecisionFile!Put,
     OverlayFile!Close, OverlayFile!Interrupt, OverlayFile!Put
<1> QED
  BY <1>1, <1>2, <1>3 DEF AdjStep, Adjudicate, ReadLedger, ReadSummary, HashFiles, CheckAdjudication,
     CheckOverlay, decisionVars, overlayVars

LEMMA StepHandles ==
  ASSUME AloneToo, RestInv, HandlesInv, OverlayInv, [Next]_vars
  PROVE  HandlesInv'
<1> USE DEF AdjAt, AdjGo
<1>1. CASE UNCHANGED adjVars
  BY <1>1 DEF HandlesInv, OverlayOf, OverlayBlockers, adjVars, decisionVars, overlayVars
<1>2. ASSUME NEW a \in Adjudicators, AdjStep(a) PROVE HandlesInv'
  <2>1. \A b \in Adjudicators : b = a
    BY DEF AloneToo
  <2>2. adjPC' = [adjPC EXCEPT ![a] = adjPC'[a]] /\ DOMAIN adjPC = Adjudicators
    BY <1>2 DEF AdjStep, Adjudicate, ReadLedger, ReadSummary, HashFiles, CheckAdjudication,
       WriteAdjudication, CheckOverlay, WriteOverlay, AdjDie, AdjExit, RestInv
  <2>3. ASSUME UNCHANGED <<decisionVars, overlayVars>>,
               adjPC[a] \notin {"write", "write_overlay"},
               adjPC'[a] \notin {"write", "replace", "write_overlay", "replace_overlay"}
        PROVE  HandlesInv'
    BY <2>1, <2>3 DEF HandlesInv, decisionVars, overlayVars
  <2>4. CASE Adjudicate(a) \/ ReadLedger(a) \/ ReadSummary(a) \/ HashFiles(a)
             \/ CheckAdjudication(a) \/ CheckOverlay(a)
    BY <2>2, <2>3, <2>4 DEF Adjudicate, ReadLedger, ReadSummary, HashFiles, CheckAdjudication,
       CheckOverlay, AdjExit
  <2>5. CASE WriteAdjudication(a)
    BY <2>1, <2>2, <2>5 DEF WriteAdjudication, DecisionFile!Open, DecisionFile!Write, DecisionFile!Put,
       DecisionFile!Opened, DecisionFile!Move, DecisionFile!Follow, HandlesInv, overlayVars
  <2>6. CASE WriteOverlay(a)
    BY <2>1, <2>2, <2>6 DEF WriteOverlay, OverlayFile!Open, OverlayFile!Write, OverlayFile!Put,
       OverlayFile!Opened, OverlayFile!Move, OverlayFile!Follow, HandlesInv, decisionVars, AdjExit
  <2>7. CASE AdjDie(a)
    BY <2>1, <2>2, <2>7 DEF AdjDie, AdjExit, HandlesInv, DecisionFile!Close, DecisionFile!Interrupt,
       DecisionFile!Put, OverlayFile!Close, OverlayFile!Interrupt, OverlayFile!Put
  <2> QED BY <1>2, <2>4, <2>5, <2>6, <2>7 DEF AdjStep
<1> QED BY <1>1, <1>2 DEF Next, vars

LEMMA StepOverlay ==
  ASSUME Alone, AloneToo, SuiteInv, RestInv, HandlesInv, OverlayInv, [Next]_vars
  PROVE  /\ OverlayInv'
         /\ adjudication # None => adjudication' = adjudication
         /\ overlay # None => overlay' = overlay
<1> USE DEF AdjAt, AdjGo, AtDecisions, AtOverlay
<1> DEFINE Kept == /\ adjudication # None => adjudication' = adjudication
                   /\ overlay # None => overlay' = overlay
<1>1. CASE [RunnerNext]_suiteVars /\ UNCHANGED adjVars
  <2>1. adjudication # None => ledger' = ledger
    BY <1>1, CompleteStays DEF OverlayInv, Rests
  <2>2. ledger' = ledger => \A text : Rests(text)' = Rests(text)
    BY DEF Rests, Payloads, Candidates, Complete, PairsOf
  <2>3. UNCHANGED <<adjudication, overlay, adjPC, payload>>
    BY <1>1 DEF adjVars, decisionVars, overlayVars
  <2> QED BY <2>1, <2>2, <2>3 DEF OverlayInv, OverlayOf
<1>2. ASSUME NEW a \in Adjudicators, AdjStep(a) PROVE OverlayInv' /\ Kept
  <2>1. UNCHANGED ledger
    BY <1>2 DEF AdjStep, Adjudicate, ReadLedger, ReadSummary, HashFiles, CheckAdjudication,
       WriteAdjudication, CheckOverlay, WriteOverlay, AdjDie, suiteVars, fileVars
  <2>2. \A b \in Adjudicators : b = a
    BY DEF AloneToo
  <2>3. \A text : Rests(text)' = Rests(text)
    BY <2>1 DEF Rests, Payloads, Candidates, Complete, PairsOf
  <2>4. Kept
    BY <1>2, FilesMove
  <2>5. adjudication' # None => Rests(adjudication)'
    BY <1>2, <2>3, FilesMove DEF OverlayInv
  <2>6. overlay' # None => adjudication' # None /\ overlay' = OverlayOf(adjudication', ledger)
    BY <1>2, FilesMove DEF OverlayInv
  <2>7. /\ adjPC'[a] \in AtDecisions => adjudication' = None
        /\ adjPC'[a] \in {"overlay"} \cup AtOverlay => adjudication' = payload'[a]
        /\ adjPC'[a] \in AtOverlay => overlay' = None
    <3>1. DOMAIN adjPC = Adjudicators /\ DOMAIN payload = Adjudicators
      BY DEF RestInv
    <3>2. CASE AdjExit(a)
      BY <3>1, <3>2 DEF AdjExit
    <3>3. CASE Adjudicate(a) \/ ReadLedger(a) \/ ReadSummary(a) \/ HashFiles(a)
      BY <3>1, <3>2, <3>3 DEF Adjudicate, ReadLedger, ReadSummary, HashFiles
    <3>4. CASE CheckAdjudication(a) \/ CheckOverlay(a)
      BY <3>1, <3>2, <3>4 DEF CheckAdjudication, CheckOverlay, WriteOnce, decisionVars, overlayVars, OverlayInv
    <3>5. CASE WriteAdjudication(a)
      <4>1. adjPC[a] \in {"open", "write"} => UNCHANGED adjudication
        BY <1>2, FilesMove
      <4>2. adjPC[a] = "replace" => adjudication' = payload[a]
        BY <3>5, FilesMove DEF WriteAdjudication, DecisionFile!Move, HandlesInv
      <4> QED BY <3>1, <3>5, <4>1, <4>2 DEF WriteAdjudication, OverlayInv
    <3>6. CASE WriteOverlay(a) /\ ~AdjExit(a)
      <4>1. adjPC[a] \in {"open_overlay", "write_overlay"} /\ UNCHANGED <<adjudication, payload>>
        BY <3>6 DEF WriteOverlay, decisionVars
      <4>2. UNCHANGED overlay
        BY <1>2, <4>1, FilesMove
      <4> QED BY <3>1, <3>6, <4>1, <4>2 DEF WriteOverlay, OverlayInv
    <3> QED BY <1>2, <3>2, <3>3, <3>4, <3>5, <3>6 DEF AdjStep, AdjDie
  <2> QED BY <2>1, <2>2, <2>4, <2>5, <2>6, <2>7 DEF OverlayInv, OverlayOf
<1> QED BY <1>1, <1>2 DEF Next, vars

LEMMA OverlayAlways ==
  ASSUME Alone, AloneToo PROVE Spec => [](SuiteInv /\ RestInv /\ HandlesInv /\ OverlayInv)
<1>1. SuiteInv /\ RestInv /\ HandlesInv /\ OverlayInv /\ [Next]_vars
        => (SuiteInv /\ RestInv /\ HandlesInv /\ OverlayInv)'
  BY NextIsSuiteStep, StepSuite, StepRest, StepHandles, StepOverlay
<1> QED BY <1>1, InitSuite, InitRest, InitOverlay, PTL DEF Spec

(* One adjudication at a time: what is written is never replaced, whatever  *)
(* later invocations decide and wherever one dies.                          *)
THEOREM AdjudicationStays ==
  ASSUME Alone, AloneToo PROVE Spec => AdjudicationImmutable
<1>1. SuiteInv /\ RestInv /\ HandlesInv /\ OverlayInv /\ [Next]_vars =>
        [/\ adjudication # None => adjudication' = adjudication
         /\ overlay # None => overlay' = overlay]_vars
  BY StepOverlay
<1> QED BY <1>1, OverlayAlways, PTL DEF Spec, AdjudicationImmutable

(* The marks of a ledger are marks a blocker stands for.                    *)
LEMMA MarksAreKnown ==
  ASSUME NEW s \in Seq(Evaluations)
  PROVE  MarksOf(s) \subseteq {"candidate", "integrity_error", "infrastructure_error"}
<1>1. \A e \in Evaluations : e.marks \subseteq {"candidate", "integrity_error", "infrastructure_error"}
  BY DEF Evaluations, Marks, KillMark, FaultMarks
<1>2. \A i \in DOMAIN s : s[i] \in Evaluations
  OBVIOUS
<1> QED BY <1>1, <1>2 DEF MarksOf

(* The confirmed score is that of the decisions on disk, and official only  *)
(* when nothing but the missing decisions stood against it.                 *)
THEOREM OverlayIsSound ==
  ASSUME Alone, AloneToo PROVE Spec => []OverlayFollowsDecisions
<1>1. SuiteInv /\ RestInv /\ OverlayInv => OverlayFollowsDecisions
  <2> SUFFICES ASSUME SuiteInv, RestInv, OverlayInv, overlay # None
               PROVE  /\ adjudication # None /\ overlay.of = adjudication
                      /\ overlay.confirmed \subseteq Candidates(ledger)
                      /\ overlay.blockers = {} =>
                           /\ FullBenchmark /\ CleanGit
                           /\ MarksOf(ledger) \subseteq {"candidate"}
    BY DEF OverlayFollowsDecisions
  <2>1. adjudication # None /\ overlay = OverlayOf(adjudication, ledger)
    BY DEF OverlayInv
  <2>2. overlay.of = adjudication /\ overlay.confirmed = Confirmed(adjudication.decisions)
        /\ overlay.blockers = OverlayBlockers(ledger)
    BY <2>1 DEF OverlayOf
  <2>3. DOMAIN adjudication.decisions = Candidates(ledger)
    BY <2>1 DEF OverlayInv, Rests, Payloads
  <2>4. overlay.confirmed \subseteq Candidates(ledger)
    BY <2>2, <2>3 DEF Confirmed
  <2>5. ASSUME overlay.blockers = {}
        PROVE  FullBenchmark /\ CleanGit /\ MarksOf(ledger) \subseteq {"candidate"}
    <3>1. Blockers(ledger) \subseteq {"pending_adjudication"}
      BY <2>2, <2>5 DEF OverlayBlockers
    <3>2. FullBenchmark /\ CleanGit
      BY <3>1 DEF Blockers, Unless
    <3>3. \A mark \in MarksOf(ledger) : BlockerOf[mark] = "pending_adjudication"
      BY <3>1 DEF Blockers
    <3>4. MarksOf(ledger) \subseteq {"candidate", "integrity_error", "infrastructure_error"}
      BY MarksAreKnown DEF SuiteInv, Types
    <3> QED BY <3>2, <3>3, <3>4 DEF BlockerOf
  <2> QED BY <2>1, <2>2, <2>4, <2>5
<1> QED BY <1>1, OverlayAlways, PTL

(***************************************************************************)
(* The suite and its adjudications implement BenchmarkRecord.              *)
(***************************************************************************)
(* A step of the runner records the next evaluation, publishes the record,  *)
(* or leaves both files as they are.                                        *)
LEMMA RunnerRecords ==
  ASSUME SuiteInv, RunnerNext, UNCHANGED adjVars
  PROVE  Benchmark!Evaluate \/ Benchmark!Publish \/ UNCHANGED <<ledger, summary>>
<1>1. ASSUME NEW r \in Runners, AppendLine(r) PROVE Benchmark!Evaluate
  <2>1. /\ ~torn /\ current[r] \in Evaluations /\ current[r].pair = Len(ledger) + 1
    BY <1>1 DEF AppendLine, RunnerAt, SuiteInv, ScheduleInv, Types, Working
  <2>2. ledger' = Append(ledger, current[r]) /\ UNCHANGED summary
    BY <1>1, <2>1 DEF AppendLine, LedgerWith
  <2> QED BY <2>1, <2>2 DEF Benchmark!Evaluate, adjVars, decisionVars, overlayVars
<1>2. ASSUME NEW r \in Runners, ReplaceSummary(r), summary' = ledger PROVE Benchmark!Publish
  <2>1. Len(ledger) = next[r] /\ next[r] >= 1
    BY <1>2 DEF ReplaceSummary, RunnerAt, SuiteInv, ScheduleInv, Types
  <2>2. ledger # <<>>
    BY <2>1
  <2> QED BY <1>2, <2>2 DEF ReplaceSummary, Benchmark!Publish, adjVars, decisionVars, overlayVars
<1>3. UNCHANGED summary \/ \E r \in Runners : ReplaceSummary(r) /\ summary' = ledger
  BY SummaryMoves
<1>4. UNCHANGED ledger \/ \E r \in Runners : AppendLine(r)
  BY DEF RunnerNext, RunnerStep, Invoke, StartSuite, WriteConfig, ResumeSuite, LoadProgress, Skip,
     RunCase, OpenSummary, WriteSummary, ReplaceSummary, Finish, Die, Tear, fileVars
<1> QED BY <1>1, <1>2, <1>3, <1>4

(* What is decided is the pairs of the candidate kills.                     *)
LEMMA KillsAreCandidates == Benchmark!Kills = Candidates(ledger)
BY DEF Benchmark!Kills, Candidates

(* A step of an adjudication decides, confirms, or leaves its files as they *)
(* are.                                                                     *)
LEMMA AdjudicationDecides ==
  ASSUME AloneToo, SuiteInv, RestInv, HandlesInv, OverlayInv, NEW a \in Adjudicators, AdjStep(a)
  PROVE  Benchmark!Decide \/ Benchmark!Confirm \/ UNCHANGED Benchmark!recordVars
<1>1. UNCHANGED <<ledger, summary>>
  BY DEF AdjStep, Adjudicate, ReadLedger, ReadSummary, HashFiles, CheckAdjudication,
     WriteAdjudication, CheckOverlay, WriteOverlay, AdjDie, suiteVars, fileVars
<1>2. CASE adjudication = None /\ adjudication' = payload[a] /\ Rests(payload[a]) /\ summary = ledger
           /\ UNCHANGED overlay
  <2>1. PICK d \in [Candidates(ledger) -> Decisions] :
          payload[a] = [decisions |-> d, ledger |-> ledger, summary |-> ledger]
    BY <1>2 DEF Rests, Payloads
  <2>2. Len(ledger) = NumPairs
    BY <1>2, CompleteIsFull DEF Rests
  <2>3. \E e \in [Benchmark!Kills -> {"confirmed", "rejected"}] :
          adjudication' = [decisions |-> e, ledger |-> ledger, summary |-> summary]
    BY <1>2, <2>1, KillsAreCandidates DEF Decisions
  <2> QED BY <1>1, <1>2, <2>2, <2>3 DEF Benchmark!Decide
<1>3. CASE overlay = None /\ adjudication # None /\ Rests(adjudication)
           /\ overlay' = OverlayOf(adjudication, ledger) /\ UNCHANGED adjudication
  <2>1. overlay'.confirmed = {p \in Benchmark!Kills : adjudication.decisions[p] = "confirmed"}
    <3>1. DOMAIN adjudication.decisions = Benchmark!Kills
      BY <1>3, KillsAreCandidates DEF Rests, Payloads
    <3> QED BY <1>3, <3>1 DEF OverlayOf, Confirmed
  <2>2. CASE overlay' = None
    BY <1>1, <1>3, <2>2 DEF Benchmark!recordVars
  <2>3. CASE overlay' # None
    BY <1>1, <1>3, <2>1, <2>3 DEF Benchmark!Confirm
  <2> QED BY <2>2, <2>3
<1>4. CASE UNCHANGED <<adjudication, overlay>>
  BY <1>1, <1>4 DEF Benchmark!recordVars
<1> QED BY <1>2, <1>3, <1>4, FilesMove

(* Wherever a suite dies and whatever adjudications do to it: its files     *)
(* read as those of a benchmark that records each pair once, publishes what *)
(* it recorded and is decided once, at its end.                             *)
THEOREM ImplementsRecord == ASSUME Alone, AloneToo PROVE Spec => BenchmarkSpec
<1>1. Init /\ AdjInit => Benchmark!RecordInit
  BY DEF Init, AdjInit, Benchmark!RecordInit, SummaryFile!FileInit, DecisionFile!FileInit, OverlayFile!FileInit
<1>2. SuiteInv /\ RestInv /\ HandlesInv /\ OverlayInv /\ [Next]_vars => [Benchmark!RecordNext]_(Benchmark!recordVars)
  <2> SUFFICES ASSUME SuiteInv, RestInv, HandlesInv, OverlayInv, [Next]_vars
               PROVE  [Benchmark!RecordNext]_(Benchmark!recordVars)
    OBVIOUS
  <2>1. CASE RunnerNext /\ UNCHANGED adjVars
    <3>1. UNCHANGED <<ledger, summary>> => UNCHANGED Benchmark!recordVars
      BY <2>1 DEF adjVars, decisionVars, overlayVars, Benchmark!recordVars
    <3> QED BY <2>1, <3>1, RunnerRecords DEF Benchmark!RecordNext
  <2>2. ASSUME NEW a \in Adjudicators, AdjStep(a) PROVE [Benchmark!RecordNext]_(Benchmark!recordVars)
    BY <2>2, AdjudicationDecides DEF Benchmark!RecordNext
  <2>3. CASE UNCHANGED vars
    BY <2>3 DEF vars, suiteVars, fileVars, adjVars, decisionVars, overlayVars, Benchmark!recordVars
  <2> QED BY <2>1, <2>2, <2>3 DEF Next
<1> QED BY <1>1, <1>2, OverlayAlways, PTL DEF Spec, BenchmarkSpec, Benchmark!RecordSpec
=============================================================================
