----------------------------- MODULE EventDisplay -----------------------------
(***************************************************************************)
(* The event display, which shows the events of a ROOT file and, in live   *)
(* mode, follows the files of a run, and the next runs, while the program  *)
(* that takes the data writes them.  That program is RunDirectory.         *)
(*                                                                         *)
(* Timers and buttons call the handlers below one at a time.  A file is    *)
(* its place in dir, an event is its number, and a signal is a channel     *)
(* that passed GetParamsFromPulse in the event.  What is drawn, the rate   *)
(* graph and the texts of the window are left out.                         *)
(***************************************************************************)
EXTENDS Integers, Sequences, SequencesExt

CONSTANTS
  StepSize,    \* events shown per call in live mode (100)
  Decodings,   \* contents of decoding files: channel -> [sys, axis, pos]
  Fired,       \* Fired[e]: channels with a signal in event e
  MaxFiles,    \* bound: files on disk
  MaxEvents,   \* bound: events saved, in all files
  MaxOps,      \* bound: what the user does, but for Next Event
  MaxInvalid   \* bound: entries that cannot be read

NoDecoding == <<>>  \* the function on no channels

Event == 1..MaxEvents

ASSUME StepAssumption == StepSize \in Nat \ {0}
ASSUME FiredAssumption == Fired \in [Event -> SUBSET Nat]
ASSUME DecodingAssumption ==
  \A d \in Decodings : d \in [DOMAIN d -> [sys : Int, axis : STRING, pos : Int]]
ASSUME BoundAssumption == /\ MaxFiles \in Nat /\ MaxEvents \in Nat
                          /\ MaxOps \in Nat /\ MaxInvalid \in Nat

VARIABLES
  dir, taken,                      \* the files, and the number of events saved
  mode,                            \* whether the display runs
  fIsRunning, fCheckNextRun,       \* live mode, Auto-load Next Run
  fDecodingMap, fLastDecoFile,
  fBaseFileName,                   \* 0 for ""
  fCurrentRun, fCurrentSubrun,
  fChain,                          \* fChain and fReader are not null
  entries,                         \* what fChain->GetEntries() returns
  fEntry, fCumulativeEntries,
  maps,                            \* fSpectraMap and fHitMapMap, of the same systems
  config,                          \* /tmp/.femdaq_config.txt
  ops, invalid,
  shown,                           \* history: events shown since a run was loaded
  skipped                          \* history: events counted but not shown

diskVars == <<dir, taken>>
settings == <<fIsRunning, fCheckNextRun, fDecodingMap, fLastDecoFile>>
fileVars == <<fBaseFileName, fCurrentRun, fCurrentSubrun, fChain>>
readVars == <<entries, fEntry, maps, invalid, shown>>
countVars == <<fCumulativeEntries, skipped>>
vars == <<diskVars, mode, settings, fileVars, readVars, countVars, config, ops>>

DAQ == INSTANCE RunDirectory

(***************************************************************************)
(* Histograms.                                                             *)
(***************************************************************************)
Systems(d) == {d[c].sys : c \in DOMAIN d}
Coords(d, s, a) == {d[c].pos : c \in {k \in DOMAIN d : d[k].sys = s /\ d[k].axis = a}}

\* The spectrum and the hit map of a system, with the coordinates of its axes.
NewMap(x, y) == [x |-> x, y |-> y, spectrum |-> <<>>, hits |-> <<>>]

\* Of a decoding, for the systems that have both axes; without one, system 1.
NewMaps(d) ==
  IF d = NoDecoding THEN [s \in {1} |-> NewMap({}, {})]
  ELSE [s \in {s \in Systems(d) : Coords(d, s, "X") # {} /\ Coords(d, s, "Y") # {}} |->
          NewMap(Coords(d, s, "X"), Coords(d, s, "Y"))]

Reset(m) == [s \in DOMAIN m |-> [m[s] EXCEPT !.spectrum = <<>>, !.hits = <<>>]]
ResetSpectra(m) == [s \in DOMAIN m |-> [m[s] EXCEPT !.spectrum = <<>>]]

\* A channel that is not in the decoding belongs to system 1 and to no axis.
Decode(d, c) == IF c \in DOMAIN d THEN d[c] ELSE [sys |-> 1, axis |-> "N", pos |-> -1]

Strips(d, e, s, a) == {Decode(d, c).pos : c \in {k \in Fired[e] : /\ Decode(d, k).sys = s
                                                                  /\ Decode(d, k).axis = a}}
InSystem(d, e, s) == \E c \in Fired[e] : Decode(d, c).sys = s
IsHit(d, e, s) == Strips(d, e, s, "X") # {} /\ Strips(d, e, s, "Y") # {}

\* What the events es, one after the other, add to a histogram, where event e
\* adds g[e].
InTurn(es, g) == FlattenSeq([i \in DOMAIN es |-> g[es[i]]])

\* What the events es fill into the spectrum, and the hit map, of system s.
Amplitudes(d, es, s) ==
  InTurn(es, [e \in Event |-> IF InSystem(d, e, s) THEN <<e>> ELSE <<>>])
Hits(d, es, s) ==
  InTurn(es, [e \in Event |->
    IF IsHit(d, e, s) THEN <<[id |-> e, x |-> Strips(d, e, s, "X"), y |-> Strips(d, e, s, "Y")]>>
    ELSE <<>>])

Fill(d, m, es) == [s \in DOMAIN m |-> [m[s] EXCEPT !.spectrum = @ \o Amplitudes(d, es, s),
                                                   !.hits = @ \o Hits(d, es, s)]]

(***************************************************************************)
(* Reading.                                                                *)
(***************************************************************************)
\* Mutant of Batch: the last batch of a file is not shortened.
BatchWhole(e, total, running) == IF running THEN StepSize ELSE 1

\* Events of the next call, of the total - e that are left.
Batch(e, total, running) ==
  LET n == IF running THEN StepSize ELSE 1
  IN IF e + n >= total THEN total - e ELSE n

\* NextEvent with a file open: the entries are counted again and, if the last of
\* the batch can be read, those up to the first that cannot be are shown.
ShowEvents(f, e, m, sh) ==
  LET rows == dir[f].rows
      n == Batch(e, Len(rows), fIsRunning')
  IN /\ entries' = Len(rows)
     /\ \E k \in 0..n :
          /\ e + k <= Len(rows)
          /\ \/ k = n /\ UNCHANGED invalid
             \/ k = 0 /\ e + n > Len(rows) /\ UNCHANGED invalid
             \/ k < n /\ invalid < MaxInvalid /\ invalid' = invalid + 1
          /\ fEntry' = e + k
          /\ maps' = Fill(fDecodingMap', m, SubSeq(rows, e + 1, e + k))
          /\ shown' = sh \o SubSeq(rows, e + 1, e + k)

ParseRunSubrun(f) == /\ fBaseFileName' = f
                     /\ fCurrentRun' = dir[f].run /\ fCurrentSubrun' = dir[f].idx

\* A file without events is closed, and nothing else changes.
GiveUp(e, m, sh) == /\ fChain' = FALSE /\ fEntry' = e /\ maps' = m /\ shown' = sh
                    /\ UNCHANGED <<entries, invalid>>

\* Mutants of LoadDataFile: the place in the file before is kept, and a file
\* without events is not closed.
LoadInPlace(f, newRun, e, m, sh) ==
  /\ ParseRunSubrun(f)
  /\ IF dir[f].rows = <<>> THEN GiveUp(e, m, sh)
     ELSE /\ fChain' = TRUE
          /\ IF newRun THEN ShowEvents(f, 0, Reset(m), <<>>)
             ELSE ShowEvents(f, IF e < Len(dir[f].rows) THEN e ELSE 0, m, sh)

LoadEmpty(f, newRun, e, m, sh) ==
  /\ ParseRunSubrun(f) /\ fChain' = TRUE
  /\ IF newRun THEN ShowEvents(f, 0, Reset(m), <<>>) ELSE ShowEvents(f, 0, m, sh)

\* The file f is opened and its first events are shown.  e, m and sh are what
\* fEntry, maps and shown were.
LoadDataFile(f, newRun, e, m, sh) ==
  /\ ParseRunSubrun(f)
  /\ IF dir[f].rows = <<>> THEN GiveUp(e, m, sh)
     ELSE /\ fChain' = TRUE
          /\ IF newRun THEN ShowEvents(f, 0, Reset(m), <<>>) ELSE ShowEvents(f, 0, m, sh)

\* The timer of live mode and the button.
NextEvent == /\ mode = "up" /\ fChain /\ UNCHANGED settings
             /\ ShowEvents(fBaseFileName, fEntry, maps, shown)
             /\ UNCHANGED <<diskVars, mode, fileVars, countVars, config, ops>>

(***************************************************************************)
(* Files.                                                                  *)
(***************************************************************************)
Named(r, i) == {k \in DOMAIN dir : dir[k].run = r /\ dir[k].idx = i}

\* The next file of the run is shown with the files before it, the first file of
\* the run at the offset alone.  A null fChain is used to count the entries of
\* the file that is left.
CheckNewFile(offset) ==
  LET subrun == Named(fCurrentRun, fCurrentSubrun + 1)
      run == Named(fCurrentRun + offset, 1)
  IN \/ /\ subrun # {} /\ fChain /\ UNCHANGED mode
        /\ fCumulativeEntries' = fCumulativeEntries + entries
        /\ skipped' = skipped + entries - fEntry
        /\ \E f \in subrun : LoadDataFile(f, FALSE, fEntry, maps, shown)
     \/ /\ subrun # {} /\ ~fChain /\ mode' = "crashed"
        /\ UNCHANGED <<fileVars, readVars, countVars>>
     \/ /\ subrun = {} /\ UNCHANGED mode
        /\ fCumulativeEntries' = 0 /\ skipped' = 0
        /\ \E f \in run : LoadDataFile(f, TRUE, fEntry, Reset(maps), <<>>)

\* The second timer of live mode.
CheckForNewData == /\ mode = "up" /\ fChain /\ fIsRunning /\ fCheckNextRun
                   /\ fEntry >= entries
                   /\ UNCHANGED <<diskVars, settings, config, ops>>
                   /\ CheckNewFile(1)

(***************************************************************************)
(* The user.                                                               *)
(***************************************************************************)
User == mode = "up" /\ ops < MaxOps /\ ops' = ops + 1 /\ UNCHANGED <<diskVars>>

\* Mutant of OpenFile: the events of the run before are still counted.
OpenFileCounting == /\ User /\ UNCHANGED <<mode, settings, config>>
                    /\ UNCHANGED fCumulativeEntries /\ skipped' = 0
                    /\ \E f \in DOMAIN dir : LoadDataFile(f, TRUE, fEntry, maps, shown)

OpenFile == /\ User /\ UNCHANGED <<mode, settings, config>>
            /\ fCumulativeEntries' = 0 /\ skipped' = 0
            /\ \E f \in DOMAIN dir : LoadDataFile(f, TRUE, fEntry, maps, shown)

ReloadRun == /\ User /\ fBaseFileName # 0 /\ UNCHANGED <<settings, config>>
             /\ CheckNewFile(0)

\* Mutant of LoadDecoding: the maps of the systems that stay are kept.
LoadDecodingOver ==
  /\ User /\ UNCHANGED <<mode, fIsRunning, fCheckNextRun, fileVars, countVars, config>>
  /\ UNCHANGED <<entries, fEntry, invalid, shown>>
  /\ \E d \in Decodings :
       /\ fDecodingMap' = d
       /\ IF d = NoDecoding THEN UNCHANGED <<fLastDecoFile, maps>>
          ELSE /\ fLastDecoFile' = d
               /\ maps' = [s \in DOMAIN NewMaps(d) |->
                             IF s \in DOMAIN maps THEN maps[s] ELSE NewMaps(d)[s]]

\* A file without a decoding empties the decoding and leaves the maps.
LoadDecoding ==
  /\ User /\ UNCHANGED <<mode, fIsRunning, fCheckNextRun, fileVars, countVars, config>>
  /\ UNCHANGED <<entries, fEntry, invalid, shown>>
  /\ \E d \in Decodings :
       /\ fDecodingMap' = d
       /\ IF d = NoDecoding THEN UNCHANGED <<fLastDecoFile, maps>>
          ELSE fLastDecoFile' = d /\ maps' = NewMaps(d)

ManualReset == /\ User /\ maps' = Reset(maps)
               /\ UNCHANGED <<mode, settings, fileVars, countVars, config>>
               /\ UNCHANGED <<entries, fEntry, invalid, shown>>

UpdateRange == /\ User /\ maps' = ResetSpectra(maps)
               /\ UNCHANGED <<mode, settings, fileVars, countVars, config>>
               /\ UNCHANGED <<entries, fEntry, invalid, shown>>

ToggleAuto == /\ User /\ fIsRunning' = ~fIsRunning
              /\ UNCHANGED <<mode, fCheckNextRun, fDecodingMap, fLastDecoFile>>
              /\ UNCHANGED <<fileVars, readVars, countVars, config>>

CheckNextRun == /\ User /\ fCheckNextRun' = ~fCheckNextRun
                /\ UNCHANGED <<mode, fIsRunning, fDecodingMap, fLastDecoFile>>
                /\ UNCHANGED <<fileVars, readVars, countVars, config>>

\* The configuration is saved.
DoExit == /\ User /\ mode' = "down"
          /\ config' = [auto |-> fCheckNextRun, file |-> fBaseFileName,
                        deco |-> fLastDecoFile]
          /\ UNCHANGED <<settings, fileVars, readVars, countVars>>

\* A new display loads the configuration of the last one that was closed.
Start == /\ mode # "up" /\ mode' = "up"
         /\ fIsRunning' = FALSE /\ fCheckNextRun' = config.auto
         /\ fDecodingMap' = config.deco /\ fLastDecoFile' = config.deco
         /\ fCumulativeEntries' = 0 /\ skipped' = 0
         /\ IF config.file # 0 THEN LoadDataFile(config.file, TRUE, 0, NewMaps(config.deco), <<>>)
            ELSE /\ fBaseFileName' = 0 /\ fCurrentRun' = -1 /\ fCurrentSubrun' = -1
                 /\ fChain' = FALSE /\ entries' = 0 /\ fEntry' = 0 /\ shown' = <<>>
                 /\ maps' = NewMaps(config.deco) /\ UNCHANGED invalid
         /\ UNCHANGED <<diskVars, config, ops>>

(***************************************************************************)
(* The program that takes the data.                                        *)
(***************************************************************************)
WriteFiles == /\ \/ /\ Len(dir) < MaxFiles /\ (DAQ!NewRun \/ DAQ!NextFile)
                    /\ UNCHANGED taken
                 \/ \E n \in 1..MaxEvents - taken :
                      DAQ!Save([i \in 1..n |-> taken + i]) /\ taken' = taken + n
              /\ UNCHANGED <<mode, settings, fileVars, readVars, countVars, config, ops>>

Init == /\ DAQ!Init /\ taken = 0 /\ mode = "down"
        /\ fIsRunning = FALSE /\ fCheckNextRun = FALSE
        /\ fDecodingMap = NoDecoding /\ fLastDecoFile = NoDecoding
        /\ fBaseFileName = 0 /\ fCurrentRun = -1 /\ fCurrentSubrun = -1 /\ fChain = FALSE
        /\ entries = 0 /\ fEntry = 0 /\ fCumulativeEntries = 0
        /\ maps = NewMaps(NoDecoding)
        /\ config = [auto |-> FALSE, file |-> 0, deco |-> NoDecoding]
        /\ ops = 0 /\ invalid = 0 /\ shown = <<>> /\ skipped = 0

Next == \/ WriteFiles \/ NextEvent \/ CheckForNewData
        \/ OpenFile \/ ReloadRun \/ LoadDecoding \/ ManualReset \/ UpdateRange
        \/ ToggleAuto \/ CheckNextRun \/ DoExit \/ Start

Spec == Init /\ [][Next]_vars

\* The timers fire; the user and the data owe nothing.
FairSpec == Spec /\ WF_vars(NextEvent /\ fIsRunning) /\ WF_vars(CheckForNewData)

(***************************************************************************)
(* Properties.                                                             *)
(***************************************************************************)
Map == [x : SUBSET Int, y : SUBSET Int, spectrum : Seq(Event),
        hits : Seq([id : Event, x : SUBSET Int, y : SUBSET Int])]

TypeOK == /\ taken \in 0..MaxEvents /\ mode \in {"up", "down", "crashed"}
          /\ fIsRunning \in BOOLEAN /\ fCheckNextRun \in BOOLEAN
          /\ fDecodingMap \in Decodings \cup {NoDecoding}
          /\ fLastDecoFile \in Decodings \cup {NoDecoding}
          /\ fBaseFileName \in 0..Len(dir)
          /\ fChain => /\ fBaseFileName # 0 /\ fEntry <= entries
                       /\ entries \in 1..Len(dir[fBaseFileName].rows)
          /\ fEntry \in Nat /\ fCumulativeEntries \in Nat
          /\ \A s \in DOMAIN maps : maps[s] \in Map
          /\ ops \in 0..MaxOps /\ invalid \in 0..MaxInvalid
          /\ shown \in Seq(Event) /\ skipped \in Nat

\* The events of file k that are shown.
Shown(k) == InTurn(shown, [e \in Event |-> IF Contains(dir[k].rows, e) THEN <<e>> ELSE <<>>])

\* The events shown are those of the files of one run, in order, of each file
\* from its first event and without a gap, and no file in between is left out
\* unless the user reloads in the middle of a file.
ShownInOrder == fChain =>
  /\ shown = FlattenSeq([k \in DOMAIN dir |-> Shown(k)])
  /\ \A k \in DOMAIN dir : IsPrefix(Shown(k), dir[k].rows)
  /\ \A k \in DOMAIN dir : Shown(k) # <<>> => dir[k].run = fCurrentRun
  /\ skipped = 0 => \A i, j \in DOMAIN dir : \A k \in i..j :
                      Shown(i) # <<>> /\ Shown(j) # <<>> => Shown(k) # <<>>

\* A histogram holds the last of the events shown, each once, decoded as its axes
\* are, whenever files, runs, ranges and decodings change.  A decoding file that
\* cannot be read breaks this until a good one is loaded.
HistogramsMatch == (fChain /\ fDecodingMap = fLastDecoFile) =>
  \A s \in DOMAIN maps :
    /\ IsSuffix(maps[s].spectrum, Amplitudes(fDecodingMap, shown, s))
    /\ IsSuffix(maps[s].hits, Hits(fDecodingMap, shown, s))
    /\ \A i \in DOMAIN maps[s].hits :
         maps[s].hits[i].x \subseteq maps[s].x /\ maps[s].hits[i].y \subseteq maps[s].y

\* The number of events in the status line and in the name of saved plots, over
\* the files of a run, is that of the events shown, but for those that the user
\* went past with Reload Run.
CountsMatch == fChain => fCumulativeEntries + fEntry = Len(shown) + skipped

\* No event on disk follows the last one shown.
AtEnd == /\ fBaseFileName # 0
         /\ IF fChain THEN fEntry = Len(dir[fBaseFileName].rows)
            ELSE dir[fBaseFileName].rows = <<>>
         /\ \A k \in fBaseFileName + 1..Len(dir) : dir[k].rows = <<>>
Live == mode = "up" /\ fIsRunning /\ fCheckNextRun

\* A display left in live mode with Auto-load gets to the last event on disk,
\* unless it met a file before the events of the file were saved.
FollowsOrWaits == <>[]Live => <>[](AtEnd \/ ~fChain)

\* A display in live mode that has shown the last event waits for the DAQ and shows
\* the events that come, also those of the next files.
Follows == <>(AtEnd /\ []Live) => <>[]AtEnd
===============================================================================
