----------------------------- MODULE RunDirectory -----------------------------
(***************************************************************************)
(* What the directory of ROOT files promises to whoever reads it while data *)
(* are taken: files appear one by one, the next run from its file 1 or the  *)
(* next file of the run, only the last file grows, and what was saved of a  *)
(* file stays as it is.  A file has no saved events when it appears.        *)
(***************************************************************************)
EXTENDS Integers, Sequences

VARIABLE dir  \* the files in the order of creation, with the saved events of each

Last == dir[Len(dir)]

File(r, i) == [run |-> r, idx |-> i, rows |-> <<>>]

Init == dir = <<>>

\* fopen, also when the file before it got no events.
NewRun == dir' = Append(dir, File(IF dir = <<>> THEN 0 ELSE Last.run + 1, 1))

\* A full file is followed by the next one of the run.
NextFile == /\ dir # <<>> /\ Last.rows # <<>>
            /\ dir' = Append(dir, File(Last.run, Last.idx + 1))

\* The events s are saved.
Save(s) == /\ dir # <<>> /\ s # <<>>
           /\ dir' = [dir EXCEPT ![Len(dir)].rows = @ \o s]

\* The events that a step adds to the last file.
Saved == SubSeq(dir'[Len(dir)].rows, Len(Last.rows) + 1, Len(dir'[Len(dir)].rows))

Next == NewRun \/ NextFile \/ Save(Saved)

Spec == Init /\ [][Next]_dir
===============================================================================
