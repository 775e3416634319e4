------------------------------- MODULE RunFiles -------------------------------
(***************************************************************************)
(* The ROOT files.  fopen closes what is open and starts the file of the   *)
(* next run, whose number is one more than the largest one found on disk.  *)
(* The event builder writes the start time, fills the tree, saves it now   *)
(* and then, goes on with the next file when one is full, and writes the   *)
(* end time.  fclose and the end of the program close the file.  The       *)
(* program may be killed and started again at any time.                    *)
(***************************************************************************)
EXTENDS Integers, Sequences, SequencesExt

CONSTANTS
  CheckEvery,  \* events between two looks at the size of the file (100)
  SaveEvery,   \* events between two saves of the tree (1000)
  SaveAfter,   \* seconds after which the tree is saved (60)
  LastRun,     \* largest run number that has five digits (99999)
  MaxOpens,    \* bound: fopen commands
  MaxRuns,     \* bound: startDAQ commands
  MaxEvents,   \* bound: events stored, in all runs
  MaxTime,     \* bound: seconds
  MaxKills     \* bound: times that the program is killed

ASSUME SizeAssumption == /\ CheckEvery \in Nat \ {0} /\ SaveEvery \in Nat \ {0}
                         /\ SaveAfter \in Nat /\ LastRun \in Nat
ASSUME BoundAssumption == /\ MaxOpens \in Nat /\ MaxRuns \in Nat /\ MaxEvents \in Nat
                          /\ MaxTime \in Nat /\ MaxKills \in Nat

VARIABLES
  pc,           \* the main thread
  open,         \* fileRoot, which is the last of files
  currentRun, fileIndex,
  files,        \* the directory, in the order of creation
  clock,
  runStartTime, runEndTime, stopEventBuilder,
  bpc, storedEvents, lastTimeSaved,
  timestamp,    \* sEvent.timestamp
  taken,        \* history: events filled and not lost by a kill
  opens, runs, kills

nameVars == <<currentRun, fileIndex>>
timeVars == <<runStartTime, runEndTime, stopEventBuilder>>
loopVars == <<bpc, storedEvents, lastTimeSaved, timestamp>>
countVars == <<opens, runs, kills>>
vars == <<pc, open, nameVars, files, clock, timeVars, loopVars, countVars, taken>>

None == -1  \* a time that was never written

Init == /\ pc = "idle" /\ open = FALSE /\ currentRun = -1 /\ fileIndex = 0
        /\ files = <<>> /\ clock = 0
        /\ runStartTime = 0 /\ runEndTime = 0 /\ stopEventBuilder = FALSE
        /\ bpc = "done" /\ storedEvents = 0 /\ lastTimeSaved = 0 /\ timestamp = 0
        /\ taken = <<>>
        /\ opens = 0 /\ runs = 0 /\ kills = 0

\* A file: the rows of its tree, how many of them are saved, the times and, for
\* the properties, how many runs wrote to it.
NewFile(r, i) == [run |-> r, idx |-> i, start |-> None, end |-> None,
                  rows |-> <<>>, saved |-> 0, runs |-> 0]

(***************************************************************************)
(* Operations on the files fs.                                             *)
(***************************************************************************)
Current(fs) == fs[Len(fs)]
Update(fs, f) == [fs EXCEPT ![Len(fs)] = f]

WriteRunStartTime(fs, t) == Update(fs, [Current(fs) EXCEPT !.start = t])
WriteRunEndTime(fs, t) == Update(fs, [Current(fs) EXCEPT !.end = t])

\* What a kill leaves of the open file.
LeaveRootFile(fs) ==
  Update(fs, [Current(fs) EXCEPT !.rows = SubSeq(@, 1, Current(fs).saved)])

\* Mutants of CloseRootFile: the tree is not written, or up to the count of the run.
CloseUnwritten(fs) == LeaveRootFile(fs)
CloseCounted(fs) == Update(fs, [Current(fs) EXCEPT !.saved = storedEvents])

\* The tree is written and the file closed.
CloseRootFile(fs) == Update(fs, [Current(fs) EXCEPT !.saved = Len(Current(fs).rows)])

\* Closes the file if there is one.
Closed(fs) == IF open THEN CloseRootFile(fs) ELSE fs

\* A file of the same name is recreated.
OpenRootFile(fs, r, i) ==
  LET same == {k \in DOMAIN fs : fs[k].run = r /\ fs[k].idx = i}
  IN Append(IF same = {} THEN fs ELSE RemoveAt(fs, CHOOSE k \in same : TRUE), NewFile(r, i))

\* Mutant of NextRun: the number follows the run of this program.
NextRunHere == currentRun + 1

\* One more than the largest number of five digits in the directory.
NextRun == LET found == {files[k].run : k \in DOMAIN files} \cap 0..LastRun
           IN IF found = {} THEN 0 ELSE Max(found) + 1

(***************************************************************************)
(* Commands.                                                               *)
(***************************************************************************)
\* fopen closes what is open and goes on, for the ROOT file (or all), for the
\* logs alone, or with a wrong flag, which ends the program.
OpenFiles ==
  /\ pc = "idle" /\ opens < MaxOpens /\ opens' = opens + 1
  /\ open' = FALSE /\ files' = Closed(files)
  /\ \/ pc' = "open" /\ UNCHANGED currentRun
     \/ pc' \in {"idle", "ended"} /\ currentRun' = -1
  /\ UNCHANGED <<fileIndex, clock, timeVars, loopVars, runs, kills, taken>>

\* The first file of the next run.
OpenRun == /\ pc = "open" /\ pc' = "idle" /\ open' = TRUE
           /\ currentRun' = NextRun /\ fileIndex' = 2
           /\ files' = OpenRootFile(files, NextRun, 1)
           /\ UNCHANGED <<clock, timeVars, loopVars, countVars, taken>>

CloseFiles == /\ pc = "idle" /\ open /\ open' = FALSE /\ files' = Closed(files)
              /\ UNCHANGED <<pc, nameVars, clock, timeVars, loopVars, countVars, taken>>

StartDAQ == /\ pc = "idle" /\ runs < MaxRuns /\ runs' = runs + 1
            /\ pc' = "run" /\ bpc' = "start"
            /\ stopEventBuilder' = FALSE /\ storedEvents' = 0 /\ runStartTime' = clock
            /\ UNCHANGED <<open, nameVars, files, clock, runEndTime, lastTimeSaved, timestamp,
                           opens, kills, taken>>

ReturnDAQ == /\ pc = "run" /\ pc' = "ran"
             /\ UNCHANGED <<open, nameVars, files, clock, timeVars, loopVars, countVars,
                            taken>>

\* fopen, fclose or the end of the program while the builder uses fileRoot: a data race.
Misuse == /\ pc = "ran" /\ pc' = "undefined"
          /\ UNCHANGED <<open, nameVars, files, clock, timeVars, loopVars, countVars, taken>>

\* The builder is told to end some time after the end time was taken.
StopDAQ == /\ pc \in {"idle", "ran"} /\ pc' = "stop" /\ runEndTime' = clock
           /\ UNCHANGED <<open, nameVars, files, clock, runStartTime, stopEventBuilder,
                          loopVars, countVars, taken>>

TellBuilder == /\ pc = "stop" /\ ~stopEventBuilder /\ stopEventBuilder' = TRUE
               /\ UNCHANGED <<pc, open, nameVars, files, clock, runStartTime, runEndTime,
                              loopVars, countVars, taken>>

JoinBuilder == /\ pc = "stop" /\ stopEventBuilder /\ bpc = "done" /\ pc' = "idle"
               /\ UNCHANGED <<open, nameVars, files, clock, timeVars, loopVars, countVars,
                              taken>>

\* The destructor writes the end time again.
Quit == /\ pc = "idle" /\ pc' = "ended" /\ open' = FALSE
        /\ files' = IF open THEN CloseRootFile(WriteRunEndTime(files, clock)) ELSE files
        /\ UNCHANGED <<nameVars, clock, timeVars, loopVars, countVars, taken>>

\* What was not saved is lost.
Kill == /\ pc \notin {"ended", "undefined"} /\ kills < MaxKills /\ kills' = kills + 1
        /\ pc' = "ended" /\ open' = FALSE /\ bpc' = "done"
        /\ files' = IF open THEN LeaveRootFile(files) ELSE files
        /\ taken' = IF open THEN SubSeq(taken, 1, Len(taken) + Current(files).saved
                                                    - Len(Current(files).rows))
                    ELSE taken
        /\ UNCHANGED <<nameVars, clock, timeVars, storedEvents, lastTimeSaved, timestamp,
                       opens, runs>>

Restart == /\ pc = "ended" /\ pc' = "idle"
           /\ currentRun' = -1 /\ fileIndex' = 0 /\ runStartTime' = 0 /\ runEndTime' = 0
           /\ stopEventBuilder' = FALSE /\ storedEvents' = 0 /\ lastTimeSaved' = 0
           /\ timestamp' = 0
           /\ UNCHANGED <<open, files, clock, bpc, countVars, taken>>

Tick == /\ clock < MaxTime /\ clock' = clock + 1
        /\ UNCHANGED <<pc, open, nameVars, files, timeVars, loopVars, countVars, taken>>

(***************************************************************************)
(* The event builder.                                                      *)
(***************************************************************************)
StartBuilder ==
  /\ bpc = "start" /\ bpc' = "loop" /\ lastTimeSaved' = runStartTime
  /\ files' = IF ~open THEN files
              ELSE LET fs == WriteRunStartTime(files, runStartTime)
                   IN Update(fs, [Current(fs) EXCEPT !.runs = @ + 1])
  /\ UNCHANGED <<pc, open, nameVars, clock, timeVars, storedEvents, timestamp, countVars,
                 taken>>

\* Mutant of SaveDue: the tree is saved for its age only.
SaveDueByAge(t) == t - lastTimeSaved > SaveAfter

SaveDue(t) == storedEvents % SaveEvery = 0 \/ t - lastTimeSaved > SaveAfter

\* An event triggered at t, which is not earlier than the event before it.
FillTree(t) ==
  LET row == [id |-> Len(taken) + 1, time |-> t]
      rows == Append(Current(files).rows, row)
  IN /\ bpc = "loop" /\ open /\ Len(taken) < MaxEvents /\ runStartTime <= t /\ timestamp <= t
     /\ timestamp' = t /\ taken' = Append(taken, row)
     /\ files' = Update(files, [Current(files) EXCEPT
                                  !.rows = rows,
                                  !.saved = IF SaveDue(t) THEN Len(rows) ELSE @])
     /\ lastTimeSaved' = IF SaveDue(t) THEN t ELSE lastTimeSaved
     /\ bpc' = IF storedEvents % CheckEvery = 0 THEN "check" ELSE "loop"
     /\ storedEvents' = IF storedEvents % CheckEvery = 0 THEN storedEvents ELSE storedEvents + 1
     /\ UNCHANGED <<pc, open, nameVars, clock, timeVars, countVars>>

\* The size is below the maximum, or the file is closed.
CheckFileSize ==
  /\ bpc = "check"
  /\ \/ bpc' = "loop" /\ storedEvents' = storedEvents + 1 /\ UNCHANGED <<files, open>>
     \/ /\ bpc' = "reopen" /\ open' = FALSE
        /\ files' = CloseRootFile(WriteRunEndTime(files, timestamp))
        /\ UNCHANGED storedEvents
  /\ UNCHANGED <<pc, nameVars, clock, timeVars, lastTimeSaved, timestamp, countVars, taken>>

\* The run goes on in the next file.
OpenNext ==
  /\ bpc = "reopen" /\ bpc' = "loop" /\ open' = TRUE /\ fileIndex' = fileIndex + 1
  /\ files' = LET fs == WriteRunStartTime(OpenRootFile(files, currentRun, fileIndex), timestamp)
              IN Update(fs, [Current(fs) EXCEPT !.runs = 1])
  /\ storedEvents' = storedEvents + 1
  /\ UNCHANGED <<pc, currentRun, clock, timeVars, lastTimeSaved, timestamp, countVars, taken>>

\* Mutant of EndOfRun: the time of stopDAQ, which events may follow.
EndOfStop == runEndTime

EndOfRun == IF timestamp > runEndTime THEN timestamp ELSE runEndTime

EndBuilder == /\ bpc = "loop" /\ stopEventBuilder /\ bpc' = "done"
              /\ IF open THEN runEndTime' = EndOfRun /\ files' = WriteRunEndTime(files, EndOfRun)
                 ELSE UNCHANGED <<runEndTime, files>>
              /\ UNCHANGED <<pc, open, nameVars, clock, runStartTime, stopEventBuilder,
                             storedEvents, lastTimeSaved, timestamp, countVars, taken>>

Next == \/ OpenFiles \/ OpenRun \/ CloseFiles \/ StartDAQ \/ ReturnDAQ \/ Misuse
        \/ StopDAQ \/ TellBuilder \/ JoinBuilder \/ Quit \/ Kill \/ Restart \/ Tick
        \/ StartBuilder \/ CheckFileSize \/ OpenNext \/ EndBuilder
        \/ \E t \in 0..clock : FillTree(t)

Spec == Init /\ [][Next]_vars

(***************************************************************************)
(* Properties.                                                             *)
(***************************************************************************)
Time == 0..MaxTime
Row == [id : 1..MaxEvents, time : Time]
RootFile == [run : 0..LastRun + 1, idx : Nat, start : Time \cup {None},
             end : Time \cup {None}, rows : Seq(Row), saved : 0..MaxEvents, runs : 0..MaxRuns]

TypeOK == /\ pc \in {"idle", "open", "run", "ran", "stop", "ended", "undefined"} /\ open \in BOOLEAN
          /\ currentRun \in -1..LastRun + 1 /\ fileIndex \in Nat
          /\ files \in Seq(RootFile) /\ clock \in Time
          /\ \A k \in DOMAIN files : files[k].saved <= Len(files[k].rows)
          /\ open => files # <<>> /\ Current(files).run = currentRun
          /\ runStartTime \in Time /\ runEndTime \in Time /\ stopEventBuilder \in BOOLEAN
          /\ bpc \in {"start", "loop", "check", "reopen", "done"}
          /\ storedEvents \in 0..MaxEvents /\ lastTimeSaved \in Time /\ timestamp \in Time
          /\ taken \in Seq(Row)
          /\ opens \in 0..MaxOpens /\ runs \in 0..MaxRuns /\ kills \in 0..MaxKills

\* The numbers of five digits are used up: the next fopen recreates a file.
Exhausted == \E k \in DOMAIN files : files[k].run > LastRun

\* However files are closed, rotated or left by a kill, which may take the
\* last events of the open file, every event is in one file, in order.
FilesPartition == ~Exhausted => FlattenSeq([k \in DOMAIN files |-> files[k].rows]) = taken

\* The times kept with a file that one run wrote enclose the events of the
\* file, those that came after stopDAQ took the time included.
TimesBracket == \A k \in DOMAIN files :
  (files[k].runs = 1 /\ files[k].end # None) =>
    \A i \in DOMAIN files[k].rows :
      files[k].rows[i].time \in files[k].start..files[k].end

\* A kill loses less than SaveEvery events, which span at most SaveAfter
\* seconds, of this run and of the runs before it in the same file.
KillLosesLittle == open =>
  LET f == Current(files) IN
  /\ Len(f.rows) - f.saved < SaveEvery
  /\ \A i \in f.saved + 1..Len(f.rows) : f.rows[Len(f.rows)].time - f.rows[i].time <= SaveAfter

\* What a reader of the directory sees: the saved events of each file.
SavedFiles == [k \in DOMAIN files |->
                 [run |-> files[k].run, idx |-> files[k].idx,
                  rows |-> SubSeq(files[k].rows, 1, files[k].saved)]]

Directory == INSTANCE RunDirectory WITH dir <- SavedFiles

\* Whatever is opened, rotated, killed or started again, what was saved stays on
\* disk, only the last file grows and the runs and their files follow each other
\* without a gap, until the numbers of five digits are used up: readers rely on it.
ImplementsDirectory == /\ Directory!Init
                       /\ [][Exhausted' \/ Directory!Next]_SavedFiles
===============================================================================
