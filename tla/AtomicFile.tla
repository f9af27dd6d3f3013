----------------------------- MODULE AtomicFile -----------------------------
(***************************************************************************)
(* write_json_atomic, src/edgecase_forge/benchmark/artifacts.py, on one     *)
(* path that several processes write: each opens and truncates the one      *)
(* temporary file, writes its text to it, closes it, and moves it to the    *)
(* path.  A process that has the file open writes to it wherever somebody   *)
(* has moved it meanwhile (POSIX); its text goes out in one write, from the *)
(* beginning of the file, and may be shorter than what is there.            *)
(***************************************************************************)
CONSTANTS
  Writers,
  None,     \* no such file
  Empty,    \* opened and truncated, nothing written since
  Garbled   \* a part of a text, or parts of several

VARIABLES
  file, tmp,  \* what the path and the temporary file hold
  handle      \* where the file is that a process has open: "tmp", "file", or
              \* "lost" when another one has replaced it there

Whole(text) == text \notin {None, Empty, Garbled}

FileInit == file = None /\ tmp = None /\ handle = [w \in Writers |-> "closed"]

Open(w) ==
  /\ tmp' = Empty /\ handle' = [handle EXCEPT ![w] = "tmp"]
  /\ UNCHANGED file

(* The open file holds `new`, and is closed.                               *)
Put(w, new) ==
  /\ tmp' = (IF handle[w] = "tmp" THEN new ELSE tmp)
  /\ file' = (IF handle[w] = "file" THEN new ELSE file)
  /\ handle' = [handle EXCEPT ![w] = "closed"]

Opened(w) == IF handle[w] = "tmp" THEN tmp ELSE file
Write(w, text) ==
  \/ Put(w, text)
  \/ Opened(w) \notin {Empty, text} /\ Put(w, Garbled)  \* a longer text was there
Interrupt(w) == Put(w, Garbled)                         \* killed while writing

Close(w) == handle' = [handle EXCEPT ![w] = "closed"] /\ UNCHANGED <<file, tmp>>

\* A mutant: the file is copied to the path, not moved.
StayBehind == [closed |-> "closed", tmp |-> "lost", file |-> "lost", lost |-> "lost"]
Follow == [closed |-> "closed", tmp |-> "file", file |-> "lost", lost |-> "lost"]
Move(w) ==
  /\ tmp # None
  /\ file' = tmp /\ tmp' = None
  /\ handle' = [v \in Writers |-> Follow[handle[v]]]
=============================================================================
