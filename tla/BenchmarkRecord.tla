--------------------------- MODULE BenchmarkRecord ---------------------------
(***************************************************************************)
(* What a benchmark promises to a reader of its files, abstracted from the  *)
(* processes that write them: evaluations are recorded once, in the order   *)
(* of the schedule; what is published is the record; the candidate kills    *)
(* are decided once, on a complete record that is published; the confirmed  *)
(* ones are published once.  Nothing is taken back.                         *)
(***************************************************************************)
EXTENDS Naturals, Sequences

CONSTANTS NumPairs, Evaluations, None

VARIABLES record, published, decided, confirmed

recordVars == <<record, published, decided, confirmed>>

RecordInit == record = <<>> /\ published = None /\ decided = None /\ confirmed = None

(* The next pair of the schedule is evaluated.                              *)
Evaluate ==
  /\ \E e \in Evaluations : e.pair = Len(record) + 1 /\ record' = Append(record, e)
  /\ UNCHANGED <<published, decided, confirmed>>

Publish ==
  /\ record # <<>> /\ published' = record
  /\ UNCHANGED <<record, decided, confirmed>>

(* The adjudicator decides every candidate kill, and names what it read.    *)
Kills == {e.pair : e \in {record[i] : i \in {j \in DOMAIN record : "candidate" \in record[j].marks}}}
Decide ==
  /\ decided = None /\ Len(record) = NumPairs /\ published = record
  /\ \E d \in [Kills -> {"confirmed", "rejected"}] :
       decided' = [decisions |-> d, ledger |-> record, summary |-> published]
  /\ UNCHANGED <<record, published, confirmed>>

Confirm ==
  /\ decided # None /\ confirmed = None
  /\ confirmed' = {p \in Kills : decided.decisions[p] = "confirmed"}
  /\ UNCHANGED <<record, published, decided>>

RecordNext == Evaluate \/ Publish \/ Decide \/ Confirm
RecordSpec == RecordInit /\ [][RecordNext]_recordVars
=============================================================================
