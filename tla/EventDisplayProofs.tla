-------------------------- MODULE EventDisplayProofs --------------------------
(***************************************************************************)
(* Proofs about EventDisplay, for any step size, decodings and events, and *)
(* whatever the user does.                                                 *)
(***************************************************************************)
EXTENDS EventDisplay, SequenceTheorems, DataFacts, TLAPS

RootFile == [run : Int, idx : Int, rows : Seq(Event)]

\* The files on disk, of which the display and its configuration name one.
DiskInv == /\ dir \in Seq(RootFile)
           /\ taken \in Nat
           /\ fBaseFileName \in 0..Len(dir) /\ config.file \in 0..Len(dir)

\* What is counted.
CountType == /\ fEntry \in Nat /\ entries \in Nat /\ fCumulativeEntries \in Int
             /\ skipped \in Int /\ shown \in Seq(Event)
             /\ fChain \in BOOLEAN /\ (fChain => fBaseFileName # 0)

\* The invariant that every step keeps.
IInv == DiskInv /\ CountType /\ CountsMatch

\* A piece of a sequence from e on.
LEMMA PieceOfRows ==
  ASSUME NEW S, NEW rows \in Seq(S), NEW e \in Nat, NEW k \in Nat, e + k <= Len(rows)
  PROVE /\ SubSeq(rows, e + 1, e + k) \in Seq(S)
        /\ Len(SubSeq(rows, e + 1, e + k)) = k
OBVIOUS

\* The last element of a sequence, and a sequence with another last element.
LEMMA LastElement ==
  ASSUME NEW S, NEW s \in Seq(S), s # <<>>
  PROVE /\ Len(s) \in DOMAIN s /\ s[Len(s)] \in S
        /\ \A x \in S : /\ [s EXCEPT ![Len(s)] = x] \in Seq(S)
                        /\ Len([s EXCEPT ![Len(s)] = x]) = Len(s)
OBVIOUS

\* The events shown by a step are as many as the place in the file advances.
LEMMA ShowCounts ==
  ASSUME DiskInv, NEW f \in DOMAIN dir, NEW e \in Nat, NEW m, NEW sh \in Seq(Event),
         ShowEvents(f, e, m, sh)
  PROVE /\ shown' \in Seq(Event) /\ entries' \in Nat /\ fEntry' \in Nat
        /\ Len(shown') - Len(sh) = fEntry' - e
<1> DEFINE rows == dir[f].rows
           n == Batch(e, Len(rows), fIsRunning')
<1>0. dir[f] \in RootFile BY DEF DiskInv
<1>1. rows \in Seq(Event) BY <1>0 DEF RootFile
<1>2. n \in Int BY <1>1, StepAssumption DEF Batch
<1>3. PICK k \in 0..n : /\ e + k <= Len(rows) /\ fEntry' = e + k
                        /\ shown' = sh \o SubSeq(rows, e + 1, e + k)
  BY DEF ShowEvents
<1>4. k \in Nat BY <1>2
<1>5. /\ SubSeq(rows, e + 1, e + k) \in Seq(Event)
      /\ Len(SubSeq(rows, e + 1, e + k)) = k
  <2> HIDE DEF rows
  <2> QED BY <1>1, <1>3, <1>4, PieceOfRows
<1>6. shown' \in Seq(Event) /\ Len(shown') = Len(sh) + k
  <2> HIDE DEF rows
  <2> QED BY <1>3, <1>5
<1>7. entries' = Len(rows) BY DEF ShowEvents
<1> QED BY <1>1, <1>3, <1>4, <1>6, <1>7

\* Whatever file is opened, the count goes on from what the files before it are
\* counted for.
LEMMA LoadCounts ==
  ASSUME DiskInv, CountType, NEW f \in DOMAIN dir, NEW newRun \in BOOLEAN,
         NEW e \in Nat, NEW m, NEW sh \in Seq(Event), LoadDataFile(f, newRun, e, m, sh),
         fCumulativeEntries' \in Int, skipped' \in Int, UNCHANGED <<diskVars, config>>,
         fCumulativeEntries' = skipped' + IF newRun THEN 0 ELSE Len(sh)
  PROVE DiskInv' /\ CountType' /\ CountsMatch'
<1>0. fBaseFileName' = f /\ f \in 1..Len(dir) BY DEF LoadDataFile, ParseRunSubrun, DiskInv
<1>1. DiskInv' BY <1>0 DEF DiskInv, diskVars
<1>2. CASE dir[f].rows = <<>>
  <2>1. GiveUp(e, m, sh) BY <1>2 DEF LoadDataFile
  <2> QED BY <1>1, <2>1 DEF GiveUp, CountType, CountsMatch
<1>3. CASE dir[f].rows # <<>>
  <2>1. fChain' = TRUE BY <1>3 DEF LoadDataFile
  <2>2. CASE newRun
    <3>1. ShowEvents(f, 0, Reset(m), <<>>) BY <1>3, <2>2 DEF LoadDataFile
    <3>2. <<>> \in Seq(Event) /\ 0 \in Nat OBVIOUS
    <3>3. /\ shown' \in Seq(Event) /\ entries' \in Nat /\ fEntry' \in Nat
          /\ Len(shown') - Len(<<>>) = fEntry' - 0
      BY <3>1, <3>2, ShowCounts
    <3> QED BY <1>0, <1>1, <2>1, <2>2, <3>3 DEF CountType, CountsMatch
  <2>3. CASE ~newRun
    <3>1. ShowEvents(f, 0, m, sh) BY <1>3, <2>3 DEF LoadDataFile
    <3>2. /\ shown' \in Seq(Event) /\ entries' \in Nat /\ fEntry' \in Nat
          /\ Len(shown') - Len(sh) = fEntry' - 0
      BY <3>1, ShowCounts
    <3> QED BY <1>0, <1>1, <2>1, <2>3, <3>2 DEF CountType, CountsMatch
  <2> QED BY <2>2, <2>3
<1> QED BY <1>2, <1>3

\* The same for the next file of the run, the next run, and Reload Run.
LEMMA CheckCounts == ASSUME IInv, NEW offset \in Int, CheckNewFile(offset),
                            UNCHANGED <<diskVars, config>>
                     PROVE IInv'
<1> DEFINE subrun == Named(fCurrentRun, fCurrentSubrun + 1)
           run == Named(fCurrentRun + offset, 1)
<1> USE DEF IInv
<1>0. subrun \subseteq DOMAIN dir /\ run \subseteq DOMAIN dir BY DEF Named
<1>1. CASE /\ fChain /\ fCumulativeEntries' = fCumulativeEntries + entries
           /\ skipped' = skipped + entries - fEntry
           /\ \E f \in subrun : LoadDataFile(f, FALSE, fEntry, maps, shown)
  <2>1. PICK f \in subrun : LoadDataFile(f, FALSE, fEntry, maps, shown) BY <1>1
  <2>2. fCumulativeEntries' = skipped' + Len(shown)
    BY <1>1 DEF CountType, CountsMatch
  <2>3. fCumulativeEntries' \in Int /\ skipped' \in Int BY <1>1 DEF CountType
  <2>4. f \in DOMAIN dir /\ fEntry \in Nat /\ shown \in Seq(Event) BY <1>0 DEF CountType
  <2> QED BY <2>1, <2>2, <2>3, <2>4, LoadCounts
<1>2. CASE UNCHANGED <<fileVars, readVars, countVars>>
  BY <1>2 DEF fileVars, readVars, countVars, DiskInv, CountType, CountsMatch, diskVars
<1>3. CASE /\ fCumulativeEntries' = 0 /\ skipped' = 0
           /\ \E f \in run : LoadDataFile(f, TRUE, fEntry, Reset(maps), <<>>)
  <2>1. PICK f \in run : LoadDataFile(f, TRUE, fEntry, Reset(maps), <<>>) BY <1>3
  <2>2. f \in DOMAIN dir /\ fEntry \in Nat BY <1>0 DEF CountType
  <2>3. <<>> \in Seq(Event) /\ fCumulativeEntries' \in Int /\ skipped' \in Int BY <1>3
  <2>4. fCumulativeEntries' = skipped' + IF TRUE THEN 0 ELSE Len(<<>>) BY <1>3
  <2> QED BY <2>1, <2>2, <2>3, <2>4, LoadCounts
<1> QED BY <1>1, <1>2, <1>3 DEF CheckNewFile

\* The program that takes the data only adds files and events.
LEMMA WriteKeeps == ASSUME IInv, WriteFiles PROVE IInv'
<1> USE DEF IInv, settings, fileVars, readVars, countVars
<1>1. dir \in Seq(RootFile) /\ taken \in Nat BY DEF DiskInv
<1>2. dir' \in Seq(RootFile) /\ taken' \in Nat /\ Len(dir') >= Len(dir)
  <2> DEFINE last == dir[Len(dir)]
  <2>0. ASSUME dir # <<>> PROVE Len(dir) \in DOMAIN dir /\ last \in RootFile
    BY <1>1, <2>0, LastElement
  <2>1. CASE DAQ!NewRun /\ UNCHANGED taken
    <3>1. CASE dir = <<>>
      <4>1. DAQ!File(0, 1) \in RootFile BY DEF DAQ!File, RootFile
      <4>2. dir' = Append(dir, DAQ!File(0, 1)) BY <2>1, <3>1 DEF DAQ!NewRun
      <4> HIDE DEF IInv
      <4> QED BY <1>1, <2>1, <4>1, <4>2
    <3>2. CASE dir # <<>>
      <4>1. DAQ!File(last.run + 1, 1) \in RootFile BY <2>0, <3>2 DEF DAQ!File, RootFile
      <4>2. dir' = Append(dir, DAQ!File(last.run + 1, 1))
        BY <2>1, <3>2 DEF DAQ!NewRun, DAQ!Last
      <4> HIDE DEF last
      <4> QED BY <1>1, <2>1, <4>1, <4>2
    <3> QED BY <3>1, <3>2
  <2>2. CASE DAQ!NextFile /\ UNCHANGED taken
    <3>1. DAQ!File(last.run, last.idx + 1) \in RootFile
      BY <2>0, <2>2 DEF DAQ!NextFile, DAQ!File, RootFile
    <3>2. dir' = Append(dir, DAQ!File(last.run, last.idx + 1))
      BY <2>2 DEF DAQ!NextFile, DAQ!Last
    <3> HIDE DEF last
    <3> QED BY <1>1, <2>2, <3>1, <3>2
  <2>3. CASE \E n \in 1..MaxEvents - taken :
               DAQ!Save([i \in 1..n |-> taken + i]) /\ taken' = taken + n
    <3>1. PICK n \in 1..MaxEvents - taken :
               DAQ!Save([i \in 1..n |-> taken + i]) /\ taken' = taken + n
      BY <2>3
    <3> DEFINE s == [i \in 1..n |-> taken + i]
    <3>2. s \in Seq(Event)
      <4>1. n \in Nat /\ \A i \in 1..n : taken + i \in Event
        BY <1>1, BoundAssumption DEF Event
      <4> QED BY <4>1
    <3>3. dir # <<>> BY <3>1 DEF DAQ!Save
    <3>4. [last EXCEPT !.rows = @ \o s] \in RootFile
      <4>1. last.rows \o s \in Seq(Event)
        <5>1. last.rows \in Seq(Event) BY <2>0, <3>3 DEF RootFile
        <5> HIDE DEF s, last
        <5> QED BY <3>2, <5>1
      <4> HIDE DEF s
      <4> QED BY <2>0, <3>3, <4>1 DEF RootFile
    <3>5. dir' = [dir EXCEPT ![Len(dir)] = [last EXCEPT !.rows = @ \o s]]
      BY <3>1 DEF DAQ!Save
    <3>6. dir' \in Seq(RootFile) /\ Len(dir') = Len(dir)
      <4> DEFINE f == [last EXCEPT !.rows = @ \o s]
      <4> HIDE DEF f, s
      <4> QED BY <1>1, <3>3, <3>4, <3>5, LastElement DEF f
    <3>7. taken' \in Nat BY <1>1, <3>1, BoundAssumption
    <3> QED BY <1>1, <3>6, <3>7
  <2> QED BY <2>1, <2>2, <2>3 DEF WriteFiles
<1>3. DiskInv'
  <2>1. UNCHANGED <<fBaseFileName, config>> BY DEF WriteFiles
  <2> QED BY <1>1, <1>2, <2>1 DEF DiskInv
<1>4. CountType' /\ CountsMatch'
  BY DEF WriteFiles, CountType, CountsMatch
<1> QED BY <1>3, <1>4

\* Every step keeps the invariant.
LEMMA NextIInv == IInv /\ [Next]_vars => IInv'
<1> SUFFICES ASSUME IInv, [Next]_vars PROVE IInv'
  OBVIOUS
<1> USE DEF IInv
<1> DEFINE Same == UNCHANGED <<diskVars, config, fBaseFileName, fChain, entries, fEntry,
                               shown, fCumulativeEntries, skipped>>
<1>1. CASE WriteFiles BY <1>1, WriteKeeps
<1>2. CASE NextEvent
  <2>1. fChain /\ ShowEvents(fBaseFileName, fEntry, maps, shown)
        /\ UNCHANGED <<diskVars, fileVars, countVars, config>>
    BY <1>2 DEF NextEvent
  <2>2. fBaseFileName \in DOMAIN dir BY <2>1 DEF DiskInv, CountType
  <2>3. /\ shown' \in Seq(Event) /\ entries' \in Nat /\ fEntry' \in Nat
        /\ Len(shown') - Len(shown) = fEntry' - fEntry
    BY <2>1, <2>2, ShowCounts DEF CountType
  <2>4. DiskInv' BY <2>1 DEF DiskInv, diskVars, fileVars
  <2> QED BY <2>1, <2>3, <2>4 DEF CountType, CountsMatch, fileVars, countVars
<1>3. CASE CheckForNewData
  <2>1. CheckNewFile(1) /\ UNCHANGED <<diskVars, config>> BY <1>3 DEF CheckForNewData
  <2> QED BY <2>1, CheckCounts
<1>4. CASE OpenFile
  <2>1. PICK f \in DOMAIN dir : LoadDataFile(f, TRUE, fEntry, maps, shown)
    BY <1>4 DEF OpenFile
  <2>2. fCumulativeEntries' = 0 /\ skipped' = 0 /\ UNCHANGED <<diskVars, config>>
    BY <1>4 DEF OpenFile, User
  <2>3. fEntry \in Nat /\ shown \in Seq(Event) BY DEF CountType
  <2>4. /\ fCumulativeEntries' \in Int /\ skipped' \in Int
        /\ fCumulativeEntries' = skipped' + IF TRUE THEN 0 ELSE Len(shown)
    BY <2>2
  <2> QED BY <2>1, <2>2, <2>3, <2>4, LoadCounts
<1>5. CASE ReloadRun
  <2>1. CheckNewFile(0) /\ UNCHANGED <<diskVars, config>> BY <1>5 DEF ReloadRun, User
  <2> QED BY <2>1, CheckCounts
<1>6. ASSUME LoadDecoding \/ ManualReset \/ UpdateRange \/ ToggleAuto \/ CheckNextRun
      PROVE Same
  BY <1>6 DEF LoadDecoding, ManualReset, UpdateRange, ToggleAuto, CheckNextRun, User,
              fileVars, readVars, countVars
<1>7. ASSUME Same PROVE IInv'
  BY <1>7 DEF DiskInv, CountType, CountsMatch, diskVars
<1>8. CASE DoExit
  <2>1. config'.file = fBaseFileName BY <1>8 DEF DoExit
  <2> QED BY <1>8, <2>1 DEF DoExit, User, DiskInv, CountType, CountsMatch, diskVars, fileVars,
                            readVars, countVars
<1>9. CASE Start
  <2>1. fCumulativeEntries' = 0 /\ skipped' = 0 /\ UNCHANGED <<diskVars, config>>
    BY <1>9 DEF Start
  <2>2. CASE config.file # 0
    <3>1. LoadDataFile(config.file, TRUE, 0, NewMaps(config.deco), <<>>)
      BY <1>9, <2>2 DEF Start
    <3>2. config.file \in DOMAIN dir BY <2>2 DEF DiskInv
    <3>3. 0 \in Nat /\ <<>> \in Seq(Event) OBVIOUS
    <3>4. /\ fCumulativeEntries' \in Int /\ skipped' \in Int
          /\ fCumulativeEntries' = skipped' + IF TRUE THEN 0 ELSE Len(<<>>)
      BY <2>1
    <3> QED BY <2>1, <3>1, <3>2, <3>3, <3>4, LoadCounts
  <2>3. CASE config.file = 0
    <3>1. /\ fBaseFileName' = 0 /\ fChain' = FALSE /\ entries' = 0 /\ fEntry' = 0
          /\ shown' = <<>>
      BY <1>9, <2>3 DEF Start
    <3>2. DiskInv' BY <2>1, <3>1 DEF DiskInv, diskVars
    <3>3. shown' \in Seq(Event) /\ Len(shown') = 0 BY <3>1
    <3>4. CountType'
      <4>1. fEntry' \in Nat /\ entries' \in Nat BY <3>1
      <4>2. fCumulativeEntries' \in Int /\ skipped' \in Int BY <2>1
      <4> QED BY <3>1, <3>3, <4>1, <4>2 DEF CountType
    <3>5. CountsMatch' BY <3>1 DEF CountsMatch
    <3> QED BY <3>2, <3>4, <3>5
  <2> QED BY <2>2, <2>3
<1>10. CASE UNCHANGED vars
  <2>1. Same BY <1>10 DEF vars, fileVars, readVars, countVars
  <2> QED BY <2>1, <1>7
<1> QED BY <1>1, <1>2, <1>3, <1>4, <1>5, <1>6, <1>7, <1>8, <1>9, <1>10 DEF Next

LEMMA InitIInv == Init => IInv
<1> SUFFICES ASSUME Init PROVE IInv
  OBVIOUS
<1>1. dir = <<>> /\ shown = <<>> BY DEF Init, DAQ!Init
<1>2. dir \in Seq(RootFile) /\ Len(dir) = 0 /\ shown \in Seq(Event) /\ Len(shown) = 0
  BY <1>1
<1>3. DiskInv
  <2>1. config.file = 0 /\ fBaseFileName = 0 /\ taken = 0 BY DEF Init
  <2> QED BY <1>2, <2>1 DEF DiskInv
<1>4. CountType
  <2>1. /\ fEntry = 0 /\ entries = 0 /\ fCumulativeEntries = 0 /\ skipped = 0
        /\ fChain = FALSE
    BY DEF Init
  <2>2. fEntry \in Nat /\ entries \in Nat /\ fCumulativeEntries \in Int /\ skipped \in Int
    BY <2>1
  <2> QED BY <1>2, <2>1, <2>2 DEF CountType
<1>5. CountsMatch BY DEF Init, CountsMatch
<1> QED BY <1>3, <1>4, <1>5 DEF IInv

LEMMA Counted == Spec => []IInv
BY InitIInv, NextIInv, PTL DEF Spec

\* The number of events in the status line and in the names of saved plots is that
\* of the events shown since the run was loaded, and of those that Reload Run went
\* past, however files, runs and Reload Run follow each other.
THEOREM CountsMatchHolds == Spec => []CountsMatch
<1>1. IInv => CountsMatch BY DEF IInv
<1> QED BY <1>1, Counted, PTL

(***************************************************************************)
(* What events add to a histogram one after the other.                     *)
(***************************************************************************)
\* The additions of a sequence of events are a sequence of sequences.
LEMMA TurnsType ==
  ASSUME NEW T, NEW g \in [Event -> Seq(T)], NEW a \in Seq(Event)
  PROVE /\ [i \in DOMAIN a |-> g[a[i]]] \in Seq(Seq(T))
        /\ Len([i \in DOMAIN a |-> g[a[i]]]) = Len(a)
        /\ DOMAIN a = 1..Len(a)
<1>1. DOMAIN a = 1..Len(a) /\ Len(a) \in Nat /\ \A i \in 1..Len(a) : a[i] \in Event
  OBVIOUS
<1>2. \A i \in 1..Len(a) : g[a[i]] \in Seq(T) BY <1>1
<1> QED BY <1>1, <1>2

\* Events shown later add at the end.
LEMMA InTurnConcat ==
  ASSUME NEW T, NEW g \in [Event -> Seq(T)], NEW a \in Seq(Event), NEW b \in Seq(Event)
  PROVE /\ InTurn(a, g) \in Seq(T) /\ InTurn(b, g) \in Seq(T)
        /\ InTurn(a \o b, g) = InTurn(a, g) \o InTurn(b, g)
<1> DEFINE G(es) == [i \in DOMAIN es |-> g[es[i]]]
<1>1. G(a) \in Seq(Seq(T)) /\ Len(G(a)) = Len(a) /\ DOMAIN a = 1..Len(a) BY TurnsType
<1>2. G(b) \in Seq(Seq(T)) /\ Len(G(b)) = Len(b) /\ DOMAIN b = 1..Len(b) BY TurnsType
<1>3. a \o b \in Seq(Event) /\ Len(a \o b) = Len(a) + Len(b) /\ Len(a) \in Nat /\ Len(b) \in Nat
  OBVIOUS
<1>4. /\ G(a \o b) \in Seq(Seq(T)) /\ Len(G(a \o b)) = Len(a \o b)
      /\ DOMAIN (a \o b) = 1..Len(a \o b)
  BY <1>3, TurnsType
<1>5. G(a \o b) = G(a) \o G(b)
  <2>1. /\ G(a) \o G(b) \in Seq(Seq(T)) /\ Len(G(a) \o G(b)) = Len(a) + Len(b)
        /\ \A i \in 1..Len(a) + Len(b) :
             (G(a) \o G(b))[i] = IF i <= Len(a) THEN G(a)[i] ELSE G(b)[i - Len(a)]
    <3> HIDE DEF G
    <3>1. PICK u, v : u = G(a) /\ v = G(b) OBVIOUS
    <3>2. /\ u \in Seq(Seq(T)) /\ v \in Seq(Seq(T)) /\ Len(u) = Len(a) /\ Len(v) = Len(b)
      BY <1>1, <1>2, <3>1
    <3>3. /\ u \o v \in Seq(Seq(T)) /\ Len(u \o v) = Len(a) + Len(b)
          /\ \A i \in 1..Len(a) + Len(b) :
               (u \o v)[i] = IF i <= Len(a) THEN u[i] ELSE v[i - Len(a)]
      <4>1. PICK U : U = Seq(T) OBVIOUS
      <4>2. u \in Seq(U) /\ v \in Seq(U) BY <3>2, <4>1
      <4>3. /\ u \o v \in Seq(U) /\ Len(u \o v) = Len(u) + Len(v)
            /\ \A i \in 1..Len(u) + Len(v) :
                 (u \o v)[i] = IF i <= Len(u) THEN u[i] ELSE v[i - Len(u)]
        BY <4>2, ConcatProperties
      <4> QED BY <3>2, <4>1, <4>3
    <3> QED BY <3>1, <3>3
  <2>2. ASSUME NEW i \in 1..Len(a) + Len(b) PROVE G(a \o b)[i] = (G(a) \o G(b))[i]
    <3>1. G(a \o b)[i] = g[(a \o b)[i]] BY <1>3, <1>4
    <3>2. (a \o b)[i] = IF i <= Len(a) THEN a[i] ELSE b[i - Len(a)] BY <1>3
    <3>3. CASE i <= Len(a)
      <4>1. i \in 1..Len(a) BY <1>3, <3>3
      <4>2. G(a)[i] = g[a[i]] BY <1>1, <4>1
      <4> HIDE DEF G
      <4> QED BY <2>1, <3>1, <3>2, <3>3, <4>2
    <3>4. CASE ~(i <= Len(a))
      <4>1. i - Len(a) \in 1..Len(b) BY <1>3, <3>4
      <4>2. G(b)[i - Len(a)] = g[b[i - Len(a)]] BY <1>2, <4>1
      <4> HIDE DEF G
      <4> QED BY <2>1, <3>1, <3>2, <3>4, <4>2
    <3> QED BY <3>3, <3>4
  <2> HIDE DEF G
  <2> QED BY <1>3, <1>4, <2>1, <2>2, SeqEqual
<1> HIDE DEF G
<1>6. /\ FlattenSeq(G(a)) \in Seq(T) /\ FlattenSeq(G(b)) \in Seq(T)
      /\ FlattenSeq(G(a) \o G(b)) = FlattenSeq(G(a)) \o FlattenSeq(G(b))
  <2>1. PICK u, v : u = G(a) /\ v = G(b) OBVIOUS
  <2> QED BY <1>1, <1>2, <2>1, FlattenConcat
<1> QED BY <1>5, <1>6 DEF InTurn, G

\* Events that add nothing.
LEMMA InTurnNone ==
  ASSUME NEW T, NEW g \in [Event -> Seq(T)], NEW a \in Seq(Event),
         \A i \in 1..Len(a) : g[a[i]] = <<>>
  PROVE InTurn(a, g) = <<>>
<1> DEFINE G == [i \in DOMAIN a |-> g[a[i]]]
<1>1. G \in Seq(Seq(T)) /\ Len(G) = Len(a) /\ DOMAIN a = 1..Len(a) BY TurnsType
<1>2. \A i \in 1..Len(G) : G[i] = <<>> BY <1>1
<1> HIDE DEF G
<1> QED BY <1>1, <1>2, FlattenEmpty DEF InTurn, G

\* Events that add themselves.
LEMMA InTurnAll ==
  ASSUME NEW g \in [Event -> Seq(Event)], NEW a \in Seq(Event),
         \A i \in 1..Len(a) : g[a[i]] = <<a[i]>>
  PROVE InTurn(a, g) = a
<1> DEFINE G == [i \in DOMAIN a |-> g[a[i]]]
<1>1. G \in Seq(Seq(Event)) /\ Len(G) = Len(a) /\ DOMAIN a = 1..Len(a)
  <2>1. PICK T : T = Event OBVIOUS
  <2>2. g \in [Event -> Seq(T)] BY <2>1
  <2>3. /\ [i \in DOMAIN a |-> g[a[i]]] \in Seq(Seq(T))
        /\ Len([i \in DOMAIN a |-> g[a[i]]]) = Len(a)
        /\ DOMAIN a = 1..Len(a)
    BY <2>2, TurnsType
  <2> QED BY <2>1, <2>3
<1>2. \A i \in 1..Len(a) : G[i] = <<a[i]>> BY <1>1
<1> HIDE DEF G
<1> QED BY <1>1, <1>2, FlattenSingles DEF InTurn, G

LEMMA InTurnNothing == \A g : InTurn(<<>>, g) = <<>>
BY FlattenNone DEF InTurn

(***************************************************************************)
(* Histograms.                                                             *)
(***************************************************************************)
\* What an event can add to the hit map of system s.
HitsOf(d, s) == {[id |-> e, x |-> Strips(d, e, s, "X"), y |-> Strips(d, e, s, "Y")] : e \in Event}

\* Of events shown later, what they fill comes later.
LEMMA FillsConcat ==
  ASSUME NEW d, NEW s, NEW a \in Seq(Event), NEW b \in Seq(Event)
  PROVE /\ Amplitudes(d, b, s) \in Seq(Event) /\ Hits(d, b, s) \in Seq(HitsOf(d, s))
        /\ Amplitudes(d, a \o b, s) = Amplitudes(d, a, s) \o Amplitudes(d, b, s)
        /\ Hits(d, a \o b, s) = Hits(d, a, s) \o Hits(d, b, s)
        /\ Amplitudes(d, a, s) \in Seq(Event) /\ Hits(d, a, s) \in Seq(HitsOf(d, s))
<1> DEFINE g == [e \in Event |-> IF InSystem(d, e, s) THEN <<e>> ELSE <<>>]
           hit(e) == [id |-> e, x |-> Strips(d, e, s, "X"), y |-> Strips(d, e, s, "Y")]
           h == [e \in Event |-> IF IsHit(d, e, s) THEN <<hit(e)>> ELSE <<>>]
<1>1. g \in [Event -> Seq(Event)]
  <2>1. \A e \in Event : <<e>> \in Seq(Event) /\ <<>> \in Seq(Event) OBVIOUS
  <2> QED BY <2>1
<1>2. h \in [Event -> Seq(HitsOf(d, s))]
  <2>1. \A e \in Event : hit(e) \in HitsOf(d, s) BY DEF HitsOf
  <2> HIDE DEF hit
  <2>2. \A e \in Event : <<hit(e)>> \in Seq(HitsOf(d, s)) /\ <<>> \in Seq(HitsOf(d, s)) BY <2>1
  <2> QED BY <2>2
<1>3. \A es : Amplitudes(d, es, s) = InTurn(es, g) /\ Hits(d, es, s) = InTurn(es, h)
  BY DEF Amplitudes, Hits
<1> HIDE DEF g, h
<1>4. /\ InTurn(b, g) \in Seq(Event) /\ InTurn(a, g) \in Seq(Event)
      /\ InTurn(a \o b, g) = InTurn(a, g) \o InTurn(b, g)
  <2>1. PICK T : T = Event OBVIOUS
  <2>2. g \in [Event -> Seq(T)] BY <1>1, <2>1
  <2>3. /\ InTurn(b, g) \in Seq(T) /\ InTurn(a, g) \in Seq(T)
        /\ InTurn(a \o b, g) = InTurn(a, g) \o InTurn(b, g)
    BY <2>2, InTurnConcat
  <2> QED BY <2>1, <2>3
<1>5. /\ InTurn(b, h) \in Seq(HitsOf(d, s)) /\ InTurn(a, h) \in Seq(HitsOf(d, s))
      /\ InTurn(a \o b, h) = InTurn(a, h) \o InTurn(b, h)
  BY <1>2, InTurnConcat
<1> QED BY <1>3, <1>4, <1>5

\* A hit lies on the axes of its system, whatever was decoded.
LEMMA StripsOnAxes ==
  ASSUME NEW d, NEW e, NEW s, NEW a, a # "N"
  PROVE Strips(d, e, s, a) \subseteq Coords(d, s, a)
BY DEF Strips, Coords, Decode

\* A set of decodings that the program may hold.
AnyDecoding == Decodings \cup {NoDecoding}

\* The hits of known decodings have coordinates.
LEMMA HitsType ==
  ASSUME NEW d \in AnyDecoding, NEW s
  PROVE HitsOf(d, s) \subseteq [id : Event, x : SUBSET Int, y : SUBSET Int]
<1>1. \A c \in DOMAIN d : d[c].pos \in Int
  <2>1. CASE d \in Decodings BY <2>1, DecodingAssumption
  <2>2. CASE d = NoDecoding
    <3>1. DOMAIN d = {} BY <2>2 DEF NoDecoding
    <3> QED BY <3>1
  <2> QED BY <2>1, <2>2 DEF AnyDecoding
<1>2. \A c : Decode(d, c).pos \in Int BY <1>1 DEF Decode
<1>3. \A e, a : Strips(d, e, s, a) \subseteq Int BY <1>2 DEF Strips
<1> QED BY <1>3 DEF HitsOf

LEMMA SeqOfMore ==
  ASSUME NEW S, NEW T, S \subseteq T, NEW s \in Seq(S)
  PROVE s \in Seq(T)
OBVIOUS

LEMMA Associative ==
  ASSUME NEW S, NEW a \in Seq(S), NEW b \in Seq(S), NEW c \in Seq(S)
  PROVE (a \o b) \o c = a \o (b \o c) /\ b \o c \in Seq(S)
OBVIOUS

LEMMA NoElements == ASSUME NEW S PROVE <<>> \in Seq(S)
OBVIOUS

\* What can be in a hit map, and a histogram that is filled, or emptied.
Hit == [id : Event, x : SUBSET Int, y : SUBSET Int]

LEMMA MapRanged ==
  ASSUME NEW r \in Map, NEW n, n = [r EXCEPT !.spectrum = <<>>]
  PROVE n \in Map /\ n.x = r.x /\ n.y = r.y /\ n.spectrum = <<>> /\ n.hits = r.hits
<1>1. PICK I, E, H : I = SUBSET Int /\ E = Seq(Event) /\ H = Seq(Hit) OBVIOUS
<1>2. r \in [x : I, y : I, spectrum : E, hits : H] BY <1>1 DEF Map, Hit
<1>3. <<>> \in E BY <1>1, NoElements
<1>4. /\ n \in [x : I, y : I, spectrum : E, hits : H] /\ n.x = r.x /\ n.y = r.y
      /\ n.spectrum = <<>> /\ n.hits = r.hits
  BY <1>2, <1>3
<1> QED BY <1>1, <1>4 DEF Map, Hit

LEMMA MapParts ==
  ASSUME NEW r \in Map
  PROVE r.spectrum \in Seq(Event) /\ r.hits \in Seq(Hit)
BY DEF Map, Hit

LEMMA MapNew ==
  ASSUME NEW x \in SUBSET Int, NEW y \in SUBSET Int
  PROVE NewMap(x, y) \in Map
<1>1. PICK I, E, H : I = SUBSET Int /\ E = Seq(Event) /\ H = Seq(Hit) OBVIOUS
<1>2. Map = [x : I, y : I, spectrum : E, hits : H] BY <1>1 DEF Map, Hit
<1>3. <<>> \in Seq(Event) /\ <<>> \in Seq(Hit) BY NoElements
<1>4. x \in I /\ y \in I /\ <<>> \in E /\ <<>> \in H BY <1>1, <1>3
<1> QED BY <1>2, <1>4 DEF NewMap

\* The histograms m hold the end of what the events sh fill with decoding d.
Typed(m) == \A s \in DOMAIN m : m[s] \in Map
Filled(d, r, s, sh) ==
  /\ r.x = Coords(d, s, "X") /\ r.y = Coords(d, s, "Y")
  /\ r.hits \in Seq(HitsOf(d, s))
  /\ \E p \in Seq(Event) : Amplitudes(d, sh, s) = p \o r.spectrum
  /\ \E p \in Seq(HitsOf(d, s)) : Hits(d, sh, s) = p \o r.hits
Matches(d, l, m, sh) == Typed(m) /\ (d = l => \A s \in DOMAIN m : Filled(d, m[s], s, sh))

\* Filling with the events that are shown next.
LEMMA FillMatches ==
  ASSUME NEW d \in AnyDecoding, NEW l, NEW m, NEW sh \in Seq(Event), NEW es \in Seq(Event),
         Matches(d, l, m, sh)
  PROVE Matches(d, l, Fill(d, m, es), sh \o es)
<1> DEFINE f == Fill(d, m, es)
           H(s) == HitsOf(d, s)
<1>1. DOMAIN f = DOMAIN m BY DEF Fill
<1>2. ASSUME NEW s \in DOMAIN m
      PROVE  /\ f[s].x = m[s].x /\ f[s].y = m[s].y
             /\ f[s].spectrum = m[s].spectrum \o Amplitudes(d, es, s)
             /\ f[s].hits = m[s].hits \o Hits(d, es, s)
             /\ f[s] \in Map
  <2>1. m[s] \in Map BY DEF Matches, Typed
  <2>2. f[s] = [m[s] EXCEPT !.spectrum = m[s].spectrum \o Amplitudes(d, es, s),
                            !.hits = m[s].hits \o Hits(d, es, s)]
    BY DEF Fill
  <2>3. Amplitudes(d, es, s) \in Seq(Event) /\ Hits(d, es, s) \in Seq(H(s))
    BY FillsConcat
  <2>4. Hits(d, es, s) \in Seq(Hit)
    <3>1. H(s) \subseteq Hit BY HitsType DEF Hit
    <3> HIDE DEF H
    <3> QED BY <2>3, <3>1, SeqOfMore
  <2>5. m[s].spectrum \in Seq(Event) /\ m[s].hits \in Seq(Hit) BY <2>1, MapParts
  <2> HIDE DEF H, f
  <2>6. PICK a, h : a = Amplitudes(d, es, s) /\ h = Hits(d, es, s) OBVIOUS
  <2>7. m[s].spectrum \o a \in Seq(Event) /\ m[s].hits \o h \in Seq(Hit)
    BY <2>3, <2>4, <2>5, <2>6, ConcatProperties
  <2>8. PICK u, v : u = m[s].spectrum \o a /\ v = m[s].hits \o h OBVIOUS
  <2>9. f[s] = [m[s] EXCEPT !.spectrum = u, !.hits = v] BY <2>2, <2>6, <2>8
  <2>10. /\ f[s] \in Map /\ f[s].x = m[s].x /\ f[s].y = m[s].y
         /\ f[s].spectrum = u /\ f[s].hits = v
    <3>1. PICK r, n : r = m[s] /\ n = f[s] OBVIOUS
    <3>2. r \in Map /\ u \in Seq(Event) /\ v \in Seq(Hit)
      BY <2>1, <2>7, <2>8, <3>1
    <3>3. n = [r EXCEPT !.spectrum = u, !.hits = v] BY <2>9, <3>1
    <3>4. n \in Map /\ n.x = r.x /\ n.y = r.y /\ n.spectrum = u /\ n.hits = v
      <4>1. PICK I, E, K : I = SUBSET Int /\ E = Seq(Event) /\ K = Seq(Hit) OBVIOUS
      <4>2. Map = [x : I, y : I, spectrum : E, hits : K] BY <4>1 DEF Map, Hit
      <4>3. u \in E /\ v \in K /\ r \in [x : I, y : I, spectrum : E, hits : K]
        BY <3>2, <4>1, <4>2
      <4> QED BY <3>3, <4>2, <4>3
    <3> QED BY <3>1, <3>4
  <2> QED BY <2>6, <2>8, <2>10
<1>3. Typed(f) BY <1>1, <1>2 DEF Typed
<1>4. ASSUME d = l, NEW s \in DOMAIN m PROVE Filled(d, f[s], s, sh \o es)
  <2>1. Filled(d, m[s], s, sh) /\ m[s] \in Map BY <1>4 DEF Matches, Typed
  <2>2. PICK p \in Seq(Event) : Amplitudes(d, sh, s) = p \o m[s].spectrum
    BY <2>1 DEF Filled
  <2>3. PICK q \in Seq(H(s)) : Hits(d, sh, s) = q \o m[s].hits
    BY <2>1 DEF Filled
  <2>4. /\ Amplitudes(d, es, s) \in Seq(Event) /\ Hits(d, es, s) \in Seq(H(s))
        /\ Amplitudes(d, sh \o es, s) = Amplitudes(d, sh, s) \o Amplitudes(d, es, s)
        /\ Hits(d, sh \o es, s) = Hits(d, sh, s) \o Hits(d, es, s)
    BY FillsConcat
  <2> HIDE DEF H, f
  <2>5. PICK a, h : a = Amplitudes(d, es, s) /\ h = Hits(d, es, s) OBVIOUS
  <2>6. m[s].spectrum \in Seq(Event) /\ m[s].hits \in Seq(H(s))
    BY <2>1, MapParts DEF Filled, H
  <2>7. (p \o m[s].spectrum) \o a = p \o (m[s].spectrum \o a)
    <3>1. PICK S, u : S = Event /\ u = m[s].spectrum OBVIOUS
    <3>2. p \in Seq(S) /\ u \in Seq(S) /\ a \in Seq(S) BY <2>4, <2>5, <2>6, <3>1
    <3>3. (p \o u) \o a = p \o (u \o a) BY <3>2, Associative
    <3> QED BY <3>1, <3>3
  <2>8. (q \o m[s].hits) \o h = q \o (m[s].hits \o h) /\ m[s].hits \o h \in Seq(H(s))
    <3>1. PICK S, u : S = H(s) /\ u = m[s].hits OBVIOUS
    <3>2. q \in Seq(S) /\ u \in Seq(S) /\ h \in Seq(S) BY <2>4, <2>5, <2>6, <3>1
    <3>3. (q \o u) \o h = q \o (u \o h) /\ u \o h \in Seq(S) BY <3>2, Associative
    <3> QED BY <3>1, <3>3
  <2>9. Amplitudes(d, sh \o es, s) = p \o f[s].spectrum
    BY <1>2, <2>2, <2>4, <2>5, <2>7
  <2>10. Hits(d, sh \o es, s) = q \o f[s].hits /\ f[s].hits \in Seq(H(s))
    BY <1>2, <2>3, <2>4, <2>5, <2>8
  <2> QED BY <1>2, <2>1, <2>9, <2>10 DEF Filled, H
<1> HIDE DEF f
<1> QED BY <1>1, <1>3, <1>4 DEF Matches, f

\* Empty histograms match any events.
LEMMA EmptyMatches ==
  ASSUME NEW d, NEW l, NEW m, NEW sh \in Seq(Event), Typed(m),
         \A s \in DOMAIN m : /\ m[s].spectrum = <<>> /\ m[s].hits = <<>>
                             /\ d = l => m[s].x = Coords(d, s, "X") /\ m[s].y = Coords(d, s, "Y")
  PROVE Matches(d, l, m, sh)
<1>1. ASSUME d = l, NEW s \in DOMAIN m PROVE Filled(d, m[s], s, sh)
  <2>1. Amplitudes(d, sh, s) \in Seq(Event) /\ Hits(d, sh, s) \in Seq(HitsOf(d, s))
    BY FillsConcat
  <2>2. PICK a, h, H : a = Amplitudes(d, sh, s) /\ h = Hits(d, sh, s) /\ H = HitsOf(d, s) OBVIOUS
  <2>3. a \o <<>> = a /\ h \o <<>> = h /\ <<>> \in Seq(H)
    BY <2>1, <2>2
  <2> QED BY <1>1, <2>1, <2>2, <2>3 DEF Filled
<1> QED BY <1>1 DEF Matches

LEMMA ResetMatches ==
  ASSUME NEW d, NEW l, NEW m, NEW sh, NEW es \in Seq(Event), Matches(d, l, m, sh)
  PROVE Matches(d, l, Reset(m), es)
<1> DEFINE r == Reset(m)
<1>1. DOMAIN r = DOMAIN m BY DEF Reset
<1>2. ASSUME NEW s \in DOMAIN m
      PROVE  /\ r[s] \in Map /\ r[s].spectrum = <<>> /\ r[s].hits = <<>>
             /\ r[s].x = m[s].x /\ r[s].y = m[s].y
  <2>1. m[s] \in Map /\ r[s] = [m[s] EXCEPT !.spectrum = <<>>, !.hits = <<>>]
    BY DEF Matches, Typed, Reset
  <2>2. PICK t, n, none : t = m[s] /\ n = r[s] /\ none = <<>> OBVIOUS
  <2> HIDE DEF r
  <2>3. none \in Seq(Event) /\ none \in Seq(Hit) BY <2>2, NoElements
  <2>4. t \in Map /\ n = [t EXCEPT !.spectrum = none, !.hits = none] BY <2>1, <2>2
  <2>5. n \in Map /\ n.x = t.x /\ n.y = t.y /\ n.spectrum = none /\ n.hits = none
    <3>1. PICK I, E, K : I = SUBSET Int /\ E = Seq(Event) /\ K = Seq(Hit) OBVIOUS
    <3>2. Map = [x : I, y : I, spectrum : E, hits : K] BY <3>1 DEF Map, Hit
    <3>3. none \in E /\ none \in K /\ t \in [x : I, y : I, spectrum : E, hits : K]
      BY <2>3, <2>4, <3>1, <3>2
    <3> QED BY <2>4, <3>2, <3>3
  <2> QED BY <2>2, <2>5
<1>3. d = l => \A s \in DOMAIN m : m[s].x = Coords(d, s, "X") /\ m[s].y = Coords(d, s, "Y")
  BY DEF Matches, Filled
<1> HIDE DEF r
<1>4. Typed(r) BY <1>1, <1>2 DEF Typed
<1> QED BY <1>1, <1>2, <1>3, <1>4, EmptyMatches DEF r

LEMMA ResetSpectraMatches ==
  ASSUME NEW d, NEW l, NEW m, NEW sh \in Seq(Event), Matches(d, l, m, sh)
  PROVE Matches(d, l, ResetSpectra(m), sh)
<1> DEFINE r == ResetSpectra(m)
<1>1. DOMAIN r = DOMAIN m BY DEF ResetSpectra
<1>2. ASSUME NEW s \in DOMAIN m
      PROVE  /\ r[s] \in Map /\ r[s].spectrum = <<>> /\ r[s].hits = m[s].hits
             /\ r[s].x = m[s].x /\ r[s].y = m[s].y
  <2>1. m[s] \in Map /\ r[s] = [m[s] EXCEPT !.spectrum = <<>>]
    BY DEF Matches, Typed, ResetSpectra
  <2> HIDE DEF r
  <2> QED BY <2>1, MapRanged
<1>3. ASSUME d = l, NEW s \in DOMAIN m PROVE Filled(d, r[s], s, sh)
  <2>1. Filled(d, m[s], s, sh) BY <1>3 DEF Matches
  <2>2. Amplitudes(d, sh, s) \in Seq(Event) BY FillsConcat
  <2>3. PICK a : a = Amplitudes(d, sh, s) OBVIOUS
  <2>4. a \o <<>> = a BY <2>2, <2>3
  <2> HIDE DEF r
  <2> QED BY <1>2, <2>1, <2>2, <2>3, <2>4 DEF Filled
<1> HIDE DEF r
<1>4. Typed(r) BY <1>1, <1>2 DEF Typed
<1> QED BY <1>1, <1>3, <1>4 DEF Matches, r

LEMMA NewMatches ==
  ASSUME NEW d \in AnyDecoding, NEW l, NEW sh \in Seq(Event)
  PROVE Matches(d, l, NewMaps(d), sh)
<1> DEFINE m == NewMaps(d)
<1>1. ASSUME NEW s, NEW a PROVE Coords(d, s, a) \subseteq Int
  <2>1. CASE d \in Decodings BY <2>1, DecodingAssumption DEF Coords
  <2>2. CASE d = NoDecoding
    <3>1. DOMAIN d = {} BY <2>2 DEF NoDecoding
    <3> QED BY <3>1 DEF Coords
  <2> QED BY <2>1, <2>2 DEF AnyDecoding
<1>2. ASSUME NEW s \in DOMAIN m PROVE m[s] = NewMap(Coords(d, s, "X"), Coords(d, s, "Y"))
  <2>1. CASE d = NoDecoding
    <3>1. DOMAIN d = {} BY <2>1 DEF NoDecoding
    <3>2. Coords(d, s, "X") = {} /\ Coords(d, s, "Y") = {} BY <3>1 DEF Coords
    <3>3. m = [t \in {1} |-> NewMap({}, {})] BY <2>1 DEF NewMaps
    <3> QED BY <3>2, <3>3
  <2>2. CASE d # NoDecoding
    BY <2>2 DEF NewMaps
  <2> QED BY <2>1, <2>2
<1> HIDE DEF m
<1>3. Typed(m)
  <2>1. ASSUME NEW s \in DOMAIN m PROVE m[s] \in Map
    <3>1. PICK x, y : x = Coords(d, s, "X") /\ y = Coords(d, s, "Y") OBVIOUS
    <3>2. x \in SUBSET Int /\ y \in SUBSET Int BY <1>1, <3>1
    <3> QED BY <1>2, <3>1, <3>2, MapNew
  <2> QED BY <2>1 DEF Typed
<1>4. ASSUME NEW s \in DOMAIN m
      PROVE  /\ m[s].spectrum = <<>> /\ m[s].hits = <<>>
             /\ m[s].x = Coords(d, s, "X") /\ m[s].y = Coords(d, s, "Y")
  BY <1>2 DEF NewMap
<1> QED BY <1>3, <1>4, EmptyMatches DEF m

(***************************************************************************)
(* The histograms match the events shown.                                  *)
(***************************************************************************)
\* The decoding is that of the file loaded last, or none.
DecoInv == /\ fLastDecoFile \in AnyDecoding /\ config.deco \in AnyDecoding
           /\ fDecodingMap \in {NoDecoding, fLastDecoFile}

MapsInv == DecoInv /\ Matches(fDecodingMap, fLastDecoFile, maps, shown)

\* The events shown by a step are filled.
LEMMA ShowMatches ==
  ASSUME DiskInv, NEW f \in DOMAIN dir, NEW e \in Nat, NEW m, NEW sh \in Seq(Event),
         ShowEvents(f, e, m, sh), NEW d \in AnyDecoding, NEW l, fDecodingMap' = d,
         Matches(d, l, m, sh)
  PROVE Matches(d, l, maps', shown')
<1> DEFINE rows == dir[f].rows
           n == Batch(e, Len(rows), fIsRunning')
<1>0. dir[f] \in RootFile BY DEF DiskInv
<1>1. rows \in Seq(Event) BY <1>0 DEF RootFile
<1>2. n \in Int BY <1>1, StepAssumption DEF Batch
<1>3. PICK k \in 0..n : /\ e + k <= Len(rows)
                        /\ maps' = Fill(d, m, SubSeq(rows, e + 1, e + k))
                        /\ shown' = sh \o SubSeq(rows, e + 1, e + k)
  BY DEF ShowEvents
<1>4. k \in Nat BY <1>2
<1> HIDE DEF rows
<1>5. PICK es : es = SubSeq(rows, e + 1, e + k) OBVIOUS
<1>6. es \in Seq(Event) BY <1>1, <1>3, <1>4, <1>5, PieceOfRows
<1>7. Matches(d, l, Fill(d, m, es), sh \o es) BY <1>6, FillMatches
<1> QED BY <1>3, <1>5, <1>7

\* Whatever file is opened.
LEMMA LoadMatches ==
  ASSUME DiskInv, NEW f \in DOMAIN dir, NEW newRun \in BOOLEAN,
         NEW e \in Nat, NEW m, NEW sh \in Seq(Event), LoadDataFile(f, newRun, e, m, sh),
         NEW d \in AnyDecoding, NEW l, fDecodingMap' = d, Matches(d, l, m, sh)
  PROVE Matches(d, l, maps', shown')
<1>1. CASE dir[f].rows = <<>>
  BY <1>1 DEF LoadDataFile, GiveUp
<1>2. CASE dir[f].rows # <<>> /\ newRun
  <2>1. ShowEvents(f, 0, Reset(m), <<>>) BY <1>2 DEF LoadDataFile
  <2>2. <<>> \in Seq(Event) /\ 0 \in Nat OBVIOUS
  <2>3. Matches(d, l, Reset(m), <<>>) BY <2>2, ResetMatches
  <2> QED BY <2>1, <2>2, <2>3, ShowMatches
<1>3. CASE dir[f].rows # <<>> /\ ~newRun
  <2>1. ShowEvents(f, 0, m, sh) BY <1>3 DEF LoadDataFile
  <2> QED BY <2>1, ShowMatches
<1> QED BY <1>1, <1>2, <1>3

\* The same for the next file of the run, the next run, and Reload Run.
LEMMA CheckMatches ==
  ASSUME IInv, MapsInv, NEW offset \in Int, CheckNewFile(offset), UNCHANGED <<settings, config>>
  PROVE MapsInv'
<1> DEFINE subrun == Named(fCurrentRun, fCurrentSubrun + 1)
           run == Named(fCurrentRun + offset, 1)
<1>0. subrun \subseteq DOMAIN dir /\ run \subseteq DOMAIN dir BY DEF Named
<1>1. PICK d, l : d = fDecodingMap /\ l = fLastDecoFile OBVIOUS
<1>2. fDecodingMap' = d /\ fLastDecoFile' = l /\ config' = config /\ d \in AnyDecoding
  BY <1>1 DEF settings, MapsInv, DecoInv, AnyDecoding
<1>3. /\ DiskInv /\ fEntry \in Nat /\ shown \in Seq(Event) /\ DecoInv
      /\ Matches(d, l, maps, shown)
  BY <1>1 DEF IInv, CountType, MapsInv
<1>4. PICK m, sh : m = maps /\ sh = shown OBVIOUS
<1>5. Matches(d, l, m, sh) /\ sh \in Seq(Event) /\ <<>> \in Seq(Event)
  BY <1>3, <1>4, NoElements
<1>6. Matches(d, l, Reset(m), <<>>) BY <1>5, ResetMatches
<1>7. PICK e : e = fEntry OBVIOUS
<1>8. Matches(d, l, maps', shown')
  <2>1. CASE \E f \in subrun : LoadDataFile(f, FALSE, fEntry, maps, shown)
    <3>1. PICK f \in subrun : LoadDataFile(f, FALSE, e, m, sh) BY <2>1, <1>4, <1>7
    <3>2. f \in DOMAIN dir BY <1>0
    <3> QED BY <1>2, <1>3, <1>5, <1>7, <3>1, <3>2, LoadMatches
  <2>2. CASE UNCHANGED readVars
    BY <1>3, <2>2 DEF readVars
  <2>3. CASE \E f \in run : LoadDataFile(f, TRUE, fEntry, Reset(maps), <<>>)
    <3>1. PICK r : r = Reset(m) OBVIOUS
    <3>2. PICK f \in run : LoadDataFile(f, TRUE, e, r, <<>>) BY <2>3, <1>4, <1>7, <3>1
    <3>3. f \in DOMAIN dir /\ Matches(d, l, r, <<>>) BY <1>0, <1>6, <3>1
    <3> QED BY <1>2, <1>3, <1>5, <1>7, <3>2, <3>3, LoadMatches
  <2> QED BY <2>1, <2>2, <2>3 DEF CheckNewFile
<1>9. DecoInv' BY <1>1, <1>2, <1>3 DEF DecoInv
<1> QED BY <1>2, <1>8, <1>9 DEF MapsInv

\* Every step keeps the histograms matched.
LEMMA NextMaps == ASSUME IInv, MapsInv, [Next]_vars PROVE MapsInv'
<1>0. PICK d, l, m, sh, e :
        d = fDecodingMap /\ l = fLastDecoFile /\ m = maps /\ sh = shown /\ e = fEntry
  OBVIOUS
<1>1. /\ DiskInv /\ e \in Nat /\ sh \in Seq(Event) /\ fBaseFileName \in 0..Len(dir)
      /\ fChain => fBaseFileName # 0
  BY <1>0 DEF IInv, DiskInv, CountType
<1>2. DecoInv /\ Matches(d, l, m, sh) /\ d \in AnyDecoding /\ l \in AnyDecoding
  BY <1>0 DEF MapsInv, DecoInv, AnyDecoding
<1> DEFINE Same == UNCHANGED <<fDecodingMap, fLastDecoFile, config>>
<1>3. ASSUME Same PROVE DecoInv' /\ fDecodingMap' = d /\ fLastDecoFile' = l
  BY <1>0, <1>2, <1>3 DEF DecoInv
<1>4. ASSUME Same, UNCHANGED <<maps, shown>> PROVE MapsInv'
  BY <1>0, <1>2, <1>3, <1>4 DEF MapsInv
<1>5. CASE WriteFiles \/ ToggleAuto \/ CheckNextRun \/ UNCHANGED vars
  <2>1. Same /\ UNCHANGED <<maps, shown>>
    BY <1>5 DEF WriteFiles, ToggleAuto, CheckNextRun, vars, settings, readVars
  <2> QED BY <1>4, <2>1
<1>6. CASE NextEvent
  <2>1. Same /\ fChain /\ ShowEvents(fBaseFileName, fEntry, maps, shown)
    BY <1>6 DEF NextEvent, settings
  <2>2. PICK f : f = fBaseFileName OBVIOUS
  <2>3. f \in DOMAIN dir BY <1>1, <2>1, <2>2 DEF DiskInv
  <2>4. ShowEvents(f, e, m, sh) BY <1>0, <2>1, <2>2
  <2>5. Matches(d, l, maps', shown') BY <1>1, <1>2, <1>3, <2>1, <2>3, <2>4, ShowMatches
  <2> QED BY <1>3, <2>1, <2>5 DEF MapsInv
<1>7. CASE CheckForNewData
  BY <1>7, CheckMatches DEF CheckForNewData
<1>8. CASE OpenFile
  <2>1. Same /\ \E f \in DOMAIN dir : LoadDataFile(f, TRUE, fEntry, maps, shown)
    BY <1>8 DEF OpenFile, settings
  <2>2. PICK f \in DOMAIN dir : LoadDataFile(f, TRUE, e, m, sh) BY <1>0, <2>1
  <2>3. Matches(d, l, maps', shown') BY <1>1, <1>2, <1>3, <2>1, <2>2, LoadMatches
  <2> QED BY <1>3, <2>1, <2>3 DEF MapsInv
<1>9. CASE ReloadRun
  BY <1>9, CheckMatches DEF ReloadRun
<1>10. CASE LoadDecoding
  <2>1. UNCHANGED <<config, shown>> BY <1>10 DEF LoadDecoding
  <2>2. PICK c \in Decodings :
          /\ fDecodingMap' = c
          /\ IF c = NoDecoding THEN UNCHANGED <<fLastDecoFile, maps>>
             ELSE fLastDecoFile' = c /\ maps' = NewMaps(c)
    BY <1>10 DEF LoadDecoding
  <2>3. CASE c # NoDecoding
    <3>1. c \in AnyDecoding BY DEF AnyDecoding
    <3>2. Matches(c, c, NewMaps(c), sh) BY <1>1, <3>1, NewMatches
    <3>3. DecoInv' BY <1>2, <2>1, <2>2, <2>3, <3>1 DEF DecoInv
    <3> QED BY <1>0, <2>1, <2>2, <2>3, <3>2, <3>3 DEF MapsInv
  <2>4. CASE c = NoDecoding
    <3>1. fLastDecoFile' = l /\ maps' = m /\ shown' = sh /\ fDecodingMap' = c
      BY <1>0, <2>1, <2>2, <2>4
    <3>2. DecoInv' BY <1>0, <1>2, <2>1, <2>4, <3>1 DEF DecoInv
    <3>3. c = l => d = l BY <1>0, <1>2, <2>4 DEF DecoInv
    <3>4. Matches(c, l, m, sh)
      <4>1. CASE c = l BY <1>2, <3>3, <4>1
      <4>2. CASE c # l BY <1>2, <4>2 DEF Matches
      <4> QED BY <4>1, <4>2
    <3> QED BY <3>1, <3>2, <3>4 DEF MapsInv
  <2> QED BY <2>3, <2>4
<1>11. CASE ManualReset
  <2>1. Same /\ maps' = Reset(maps) /\ UNCHANGED shown
    BY <1>11 DEF ManualReset, settings
  <2>2. Matches(d, l, Reset(m), sh) BY <1>1, <1>2, ResetMatches
  <2> QED BY <1>0, <1>3, <2>1, <2>2 DEF MapsInv
<1>12. CASE UpdateRange
  <2>1. Same /\ maps' = ResetSpectra(maps) /\ UNCHANGED shown
    BY <1>12 DEF UpdateRange, settings
  <2>2. Matches(d, l, ResetSpectra(m), sh) BY <1>1, <1>2, ResetSpectraMatches
  <2> QED BY <1>0, <1>3, <2>1, <2>2 DEF MapsInv
<1>13. CASE DoExit
  <2>1. UNCHANGED <<fDecodingMap, fLastDecoFile, maps, shown>> /\ config'.deco = l
    BY <1>0, <1>13 DEF DoExit, settings, readVars
  <2>2. DecoInv' BY <1>0, <1>2, <2>1 DEF DecoInv
  <2> QED BY <1>0, <1>2, <2>1, <2>2 DEF MapsInv
<1>14. CASE Start
  <2>1. PICK c : c = config.deco OBVIOUS
  <2>2. fDecodingMap' = c /\ fLastDecoFile' = c /\ config' = config /\ c \in AnyDecoding
    BY <1>2, <1>14, <2>1 DEF Start, DecoInv
  <2>3. DecoInv' BY <2>1, <2>2 DEF DecoInv
  <2>4. <<>> \in Seq(Event) /\ 0 \in Nat BY NoElements
  <2>5. PICK n : n = NewMaps(c) OBVIOUS
  <2>6. Matches(c, c, n, <<>>) BY <2>2, <2>4, <2>5, NewMatches
  <2>7. CASE config.file # 0
    <3>1. PICK f : f = config.file OBVIOUS
    <3>2. LoadDataFile(f, TRUE, 0, n, <<>>) BY <1>14, <2>1, <2>5, <2>7, <3>1 DEF Start
    <3>3. f \in DOMAIN dir BY <1>1, <2>7, <3>1 DEF DiskInv
    <3>4. Matches(c, c, maps', shown')
      BY <1>1, <2>2, <2>4, <2>6, <3>2, <3>3, LoadMatches
    <3> QED BY <2>2, <2>3, <3>4 DEF MapsInv
  <2>8. CASE config.file = 0
    <3>1. maps' = n /\ shown' = <<>> BY <1>14, <2>1, <2>5, <2>8 DEF Start
    <3> QED BY <2>2, <2>3, <2>6, <3>1 DEF MapsInv
  <2> QED BY <2>7, <2>8
<1> QED BY <1>5, <1>6, <1>7, <1>8, <1>9, <1>10, <1>11, <1>12, <1>13, <1>14 DEF Next

\* The end of a sequence, read backwards, is the beginning of it.
LEMMA EndOfSequence ==
  ASSUME NEW S, NEW p \in Seq(S), NEW s \in Seq(S)
  PROVE IsSuffix(s, p \o s)
<1> DEFINE t == p \o s
           a == Reverse(s)
           b == Reverse(t)
<1>1. t \in Seq(S) /\ Len(t) = Len(p) + Len(s) /\ Len(p) \in Nat /\ Len(s) \in Nat
  BY LenProperties, ConcatProperties
<1>2. \A i \in 1..Len(s) : t[Len(p) + i] = s[i]
  OBVIOUS
<1> HIDE DEF t
<1>3. a \in Seq(S) /\ Len(a) = Len(s) /\ \A i \in 1..Len(s) : a[i] = s[(Len(s) - i) + 1]
  <2>1. \A i \in 1..Len(s) : (Len(s) - i) + 1 \in 1..Len(s) BY <1>1
  <2>2. \A i \in 1..Len(s) : s[(Len(s) - i) + 1] \in S BY <2>1
  <2> QED BY <1>1, <2>2 DEF Reverse
<1>4. b \in Seq(S) /\ Len(b) = Len(t) /\ \A i \in 1..Len(t) : b[i] = t[(Len(t) - i) + 1]
  <2>1. \A i \in 1..Len(t) : (Len(t) - i) + 1 \in 1..Len(t) BY <1>1
  <2>2. \A i \in 1..Len(t) : t[(Len(t) - i) + 1] \in S BY <1>1, <2>1
  <2> QED BY <1>1, <2>2 DEF Reverse
<1> HIDE DEF a, b
<1>5. ASSUME NEW i \in 1..Len(s) PROVE a[i] = b[i]
  <2>1. (Len(t) - i) + 1 = Len(p) + ((Len(s) - i) + 1) /\ i \in 1..Len(t)
        /\ (Len(s) - i) + 1 \in 1..Len(s)
    BY <1>1
  <2> QED BY <1>2, <1>3, <1>4, <2>1
<1>6. Len(a) <= Len(b) BY <1>1, <1>3, <1>4
<1>7. SubSeq(a, 1, Len(a)) = SubSeq(b, 1, Len(a))
  <2> DEFINE u == SubSeq(a, 1, Len(a))
             v == SubSeq(b, 1, Len(a))
  <2>1. u \in Seq(S) /\ Len(u) = Len(s) /\ \A i \in 1..Len(s) : u[i] = a[i]
    BY <1>1, <1>3
  <2>2. v \in Seq(S) /\ Len(v) = Len(s) /\ \A i \in 1..Len(s) : v[i] = b[i]
    BY <1>1, <1>3, <1>4, <1>6
  <2> HIDE DEF u, v
  <2>3. u = v BY <1>5, <2>1, <2>2, SeqEqual
  <2> QED BY <2>3 DEF u, v
<1> QED BY <1>6, <1>7 DEF IsSuffix, IsPrefix, a, b, t

\* What the histograms hold is what the property says.
LEMMA MapsMatch == MapsInv => HistogramsMatch
<1> SUFFICES ASSUME MapsInv, fDecodingMap = fLastDecoFile, NEW s \in DOMAIN maps
             PROVE  /\ IsSuffix(maps[s].spectrum, Amplitudes(fDecodingMap, shown, s))
                    /\ IsSuffix(maps[s].hits, Hits(fDecodingMap, shown, s))
                    /\ \A i \in DOMAIN maps[s].hits : /\ maps[s].hits[i].x \subseteq maps[s].x
                                                      /\ maps[s].hits[i].y \subseteq maps[s].y
  BY DEF HistogramsMatch
<1>1. PICK d, sh, r : d = fDecodingMap /\ sh = shown /\ r = maps[s] OBVIOUS
<1>2. Filled(d, r, s, sh) /\ r \in Map
  BY <1>1 DEF MapsInv, Matches, Typed
<1>3. PICK p \in Seq(Event) : Amplitudes(d, sh, s) = p \o r.spectrum
  BY <1>2 DEF Filled
<1>4. PICK q \in Seq(HitsOf(d, s)) : Hits(d, sh, s) = q \o r.hits
  BY <1>2 DEF Filled
<1>5. PICK u, v, H : u = r.spectrum /\ v = r.hits /\ H = HitsOf(d, s) OBVIOUS
<1>6. u \in Seq(Event) /\ v \in Seq(H) /\ q \in Seq(H)
  BY <1>2, <1>5, MapParts DEF Filled
<1>7. IsSuffix(u, p \o u) /\ IsSuffix(v, q \o v)
  BY <1>6, EndOfSequence
<1>8. ASSUME NEW i \in DOMAIN v PROVE v[i].x \subseteq r.x /\ v[i].y \subseteq r.y
  <2>1. v[i] \in H BY <1>6
  <2>2. PICK e \in Event :
          v[i] = [id |-> e, x |-> Strips(d, e, s, "X"), y |-> Strips(d, e, s, "Y")]
    BY <1>5, <2>1 DEF HitsOf
  <2>3. Strips(d, e, s, "X") \subseteq Coords(d, s, "X")
        /\ Strips(d, e, s, "Y") \subseteq Coords(d, s, "Y")
    BY StripsOnAxes
  <2> QED BY <1>2, <2>2, <2>3 DEF Filled
<1> QED BY <1>1, <1>3, <1>4, <1>5, <1>7, <1>8

\* Nothing is shown and nothing is filled at the start.
LEMMA InitMaps == Init => MapsInv
<1> SUFFICES ASSUME Init PROVE MapsInv
  OBVIOUS
<1>1. /\ fDecodingMap = NoDecoding /\ fLastDecoFile = NoDecoding /\ config.deco = NoDecoding
      /\ maps = NewMaps(NoDecoding) /\ shown = <<>>
  BY DEF Init
<1>2. PICK d : d = NoDecoding OBVIOUS
<1>3. d \in AnyDecoding /\ <<>> \in Seq(Event) BY <1>2, NoElements DEF AnyDecoding
<1>4. Matches(d, d, NewMaps(d), <<>>) BY <1>3, NewMatches
<1> QED BY <1>1, <1>2, <1>3, <1>4 DEF MapsInv, DecoInv

LEMMA Filling == Spec => []MapsInv
BY InitMaps, Counted, NextMaps, PTL DEF Spec

\* The histograms on the screen are those of the events shown, each once and with
\* the decoding that the axes have, whenever files, runs, ranges and decodings
\* change.
THEOREM HistogramsMatchHolds == Spec => []HistogramsMatch
BY Filling, MapsMatch, PTL

(***************************************************************************)
(* The files on disk.                                                      *)
(***************************************************************************)
\* The files of a run follow each other with their numbers, runs come in order,
\* and no event is in two files.
Placed(fs, k, n) ==
  /\ \A i \in 1..Len(fs[k].rows) : fs[k].rows[i] <= n
  /\ \A j \in 1..k - 1 :
       /\ fs[j].run <= fs[k].run
       /\ fs[j].run = fs[k].run => fs[k].idx = fs[j].idx + (k - j)
       /\ \A i \in 1..Len(fs[k].rows), h \in 1..Len(fs[j].rows) : fs[k].rows[i] # fs[j].rows[h]
Arranged(fs, n) == \A k \in 1..Len(fs) : Placed(fs, k, n)

\* Files are only added, and events at the end of files.
Grown(fs, gs) ==
  /\ Len(fs) <= Len(gs)
  /\ \A k \in 1..Len(fs) :
       /\ gs[k].run = fs[k].run /\ gs[k].idx = fs[k].idx
       /\ Len(fs[k].rows) <= Len(gs[k].rows)
       /\ \A n \in 0..Len(fs[k].rows) : SubSeq(gs[k].rows, 1, n) = SubSeq(fs[k].rows, 1, n)

DiskOrder == Arranged(dir, taken)

LEMMA FileParts ==
  ASSUME NEW fs \in Seq(RootFile), NEW k \in 1..Len(fs)
  PROVE /\ fs[k] \in RootFile /\ fs[k].run \in Int /\ fs[k].idx \in Int
        /\ fs[k].rows \in Seq(Event) /\ Len(fs[k].rows) \in Nat
        /\ \A i \in 1..Len(fs[k].rows) : fs[k].rows[i] \in Int
<1>1. fs[k] \in RootFile OBVIOUS
<1>2. fs[k].run \in Int /\ fs[k].idx \in Int /\ fs[k].rows \in Seq(Event)
  BY <1>1 DEF RootFile
<1>3. PICK rows : rows = fs[k].rows OBVIOUS
<1>4. rows \in Seq(Event) BY <1>2, <1>3
<1>5. Len(rows) \in Nat /\ \A i \in 1..Len(rows) : rows[i] \in Event BY <1>4
<1>6. \A x \in Event : x \in Int BY BoundAssumption DEF Event
<1> QED BY <1>1, <1>2, <1>3, <1>5, <1>6

\* A new file without events.
LEMMA AppendArranged ==
  ASSUME NEW fs \in Seq(RootFile), NEW n, Arranged(fs, n), NEW g \in RootFile, g.rows = <<>>,
         \A j \in 1..Len(fs) : /\ fs[j].run <= g.run
                               /\ fs[j].run = g.run => g.idx = fs[j].idx + (Len(fs) + 1 - j)
  PROVE Arranged(Append(fs, g), n) /\ Grown(fs, Append(fs, g))
<1> DEFINE gs == Append(fs, g)
           m == Len(fs)
<1>1. /\ m \in Nat /\ Len(gs) = m + 1 /\ gs[m + 1] = g /\ \A k \in 1..m : gs[k] = fs[k]
  OBVIOUS
<1> HIDE DEF gs, m
<1>2. Grown(fs, gs)
  <2>1. \A k \in 1..Len(fs) : gs[k] = fs[k] /\ Len(fs[k].rows) \in Nat
    BY <1>1, FileParts DEF m
  <2>2. Len(fs) <= Len(gs) BY <1>1 DEF m
  <2> QED BY <2>1, <2>2 DEF Grown
<1>3. ASSUME NEW k \in 1..m PROVE Placed(gs, k, n)
  <2>1. gs[k] = fs[k] /\ \A j \in 1..k - 1 : gs[j] = fs[j] BY <1>1
  <2>2. Placed(fs, k, n) BY DEF Arranged, m
  <2> QED BY <2>1, <2>2 DEF Placed
<1>4. \A i \in 1..Len(g.rows) : FALSE
  OBVIOUS
<1>5. \A j \in 1..m : gs[j] = fs[j] /\ fs[j].run <= g.run
                      /\ (fs[j].run = g.run => g.idx = fs[j].idx + (m + 1 - j))
  BY <1>1 DEF m
<1>6. /\ \A k \in 1..m + 1 : k \in 1..m \/ k = m + 1
      /\ \A j \in 1..(m + 1) - 1 : j \in 1..m
  BY <1>1
<1>7. Placed(gs, m + 1, n) BY <1>1, <1>4, <1>5, <1>6 DEF Placed
<1>8. Arranged(gs, n) BY <1>1, <1>3, <1>6, <1>7 DEF Arranged
<1> QED BY <1>2, <1>8 DEF gs

LEMMA PlacedBy ==
  ASSUME NEW gs, NEW k, NEW n, NEW g, gs[k] = g,
         \A i \in 1..Len(g.rows) : g.rows[i] <= n,
         \A j \in 1..k - 1 : /\ gs[j].run <= g.run
                             /\ gs[j].run = g.run => g.idx = gs[j].idx + (k - j),
         \A j \in 1..k - 1 : \A i \in 1..Len(g.rows), h \in 1..Len(gs[j].rows) :
           g.rows[i] # gs[j].rows[h]
  PROVE Placed(gs, k, n)
BY DEF Placed

\* New events in the last file.
LEMMA SaveArranged ==
  ASSUME NEW fs \in Seq(RootFile), fs # <<>>, NEW n \in Nat, NEW k \in Nat, Arranged(fs, n),
         NEW s \in Seq(Event), \A i \in 1..Len(s) : s[i] > n /\ s[i] <= n + k,
         NEW g, g \in RootFile, g.run = fs[Len(fs)].run, g.idx = fs[Len(fs)].idx,
         g.rows = fs[Len(fs)].rows \o s,
         NEW gs, gs = [fs EXCEPT ![Len(fs)] = g]
  PROVE Arranged(gs, n + k) /\ Grown(fs, gs)
<1> DEFINE m == Len(fs)
           rows == fs[m].rows
<1>1. m \in Nat \ {0} /\ m \in 1..m /\ Len(gs) = m /\ gs[m] = g
      /\ \A j \in 1..m : j # m => gs[j] = fs[j]
  BY LastElement
<1>2. \A j \in 1..m : /\ fs[j].run \in Int /\ fs[j].idx \in Int
                      /\ fs[j].rows \in Seq(Event) /\ Len(fs[j].rows) \in Nat
                      /\ \A i \in 1..Len(fs[j].rows) : fs[j].rows[i] \in Int
  BY FileParts
<1> HIDE DEF m
<1>3. rows \in Seq(Event) /\ g.run = fs[m].run /\ g.idx = fs[m].idx /\ g.rows = rows \o s
  BY <1>1, <1>2 DEF m
<1> HIDE DEF rows
<1>4. /\ Len(rows) \in Nat /\ Len(s) \in Nat /\ Len(g.rows) = Len(rows) + Len(s)
      /\ \A i \in 1..Len(rows) + Len(s) :
           g.rows[i] = IF i <= Len(rows) THEN rows[i] ELSE s[i - Len(rows)]
      /\ \A x \in 0..Len(rows) : SubSeq(g.rows, 1, x) = SubSeq(rows, 1, x)
  BY <1>3
<1>5. Grown(fs, gs)
  <2>1. \A j \in 1..m : j # m => gs[j] = fs[j] /\ Len(fs[j].rows) <= Len(fs[j].rows)
    BY <1>1, <1>2
  <2>2. Len(rows) <= Len(g.rows) BY <1>4
  <2>3. m <= m BY <1>1
  <2>4. Len(fs) = m BY DEF m
  <2> QED BY <1>1, <1>3, <1>4, <2>1, <2>2, <2>3, <2>4 DEF Grown, rows
<1>6. ASSUME NEW i \in 1..Len(g.rows)
      PROVE /\ g.rows[i] <= n + k
            /\ (i \in 1..Len(rows) /\ g.rows[i] = rows[i]) \/ g.rows[i] > n
  <2>1. CASE i <= Len(rows)
    <3>1. i \in 1..Len(rows) /\ g.rows[i] = rows[i] BY <1>4, <2>1
    <3>2. rows[i] <= n /\ rows[i] \in Int BY <1>1, <1>2, <3>1 DEF Arranged, Placed, rows, m
    <3> QED BY <3>1, <3>2
  <2>2. CASE ~(i <= Len(rows))
    <3>1. i - Len(rows) \in 1..Len(s) /\ g.rows[i] = s[i - Len(rows)] BY <1>4, <2>2
    <3> QED BY <3>1
  <2> QED BY <2>1, <2>2
<1>7. ASSUME NEW j \in 1..m, j # m
      PROVE /\ gs[j] = fs[j] /\ j \in 1..m - 1
            /\ \A i \in 1..Len(fs[j].rows) : fs[j].rows[i] <= n /\ fs[j].rows[i] \in Int
            /\ fs[j].run <= fs[m].run
            /\ fs[j].run = fs[m].run => fs[m].idx = fs[j].idx + (m - j)
            /\ \A i \in 1..Len(rows), h \in 1..Len(fs[j].rows) : rows[i] # fs[j].rows[h]
  <2>1. j \in 1..m - 1 BY <1>1, <1>7
  <2>2. j \in 1..Len(fs) /\ m \in 1..Len(fs) BY <1>1 DEF m
  <2>3. Placed(fs, m, n) /\ Placed(fs, j, n) BY <2>2 DEF Arranged
  <2> QED BY <1>1, <1>2, <1>7, <2>1, <2>3 DEF Placed, rows
<1>8. Arranged(gs, n + k)
  <2> SUFFICES ASSUME NEW x \in 1..m PROVE Placed(gs, x, n + k)
    BY <1>1 DEF Arranged
  <2>1. \A j \in 1..x - 1 : j \in 1..m /\ j # m BY <1>1
  <2>2. Placed(gs, m, n + k)
    <3>1. gs[m] = g /\ \A j \in 1..m - 1 : j \in 1..m /\ j # m BY <1>1
    <3>2. ASSUME NEW j \in 1..m - 1, NEW i \in 1..Len(g.rows), NEW h \in 1..Len(gs[j].rows)
          PROVE g.rows[i] # gs[j].rows[h]
      <4>1. gs[j] = fs[j] BY <1>7, <3>1
      <4>2. fs[j].rows[h] <= n /\ fs[j].rows[h] \in Int BY <1>7, <3>1, <4>1
      <4>3. (i \in 1..Len(rows) /\ g.rows[i] = rows[i]) \/ g.rows[i] > n BY <1>6
      <4>4. CASE i \in 1..Len(rows) /\ g.rows[i] = rows[i]
        BY <1>7, <3>1, <4>1, <4>4
      <4>5. CASE g.rows[i] > n
        <5> SUFFICES ASSUME g.rows[i] = gs[j].rows[h] PROVE FALSE
          OBVIOUS
        <5>1. g.rows[i] = fs[j].rows[h] BY <4>1
        <5>2. g.rows[i] \in Int /\ g.rows[i] <= n BY <4>2, <5>1
        <5> HIDE DEF m
        <5> QED BY <4>5, <5>2
      <4> QED BY <4>3, <4>4, <4>5
    <3>3. ASSUME NEW j \in 1..m - 1
          PROVE /\ gs[j].run <= g.run
                /\ gs[j].run = g.run => g.idx = gs[j].idx + (m - j)
      BY <1>3, <1>7, <3>1
    <3>4. \A i \in 1..Len(g.rows) : g.rows[i] <= n + k BY <1>6
    <3> HIDE DEF m
    <3> QED BY <3>1, <3>2, <3>3, <3>4, PlacedBy
  <2>3. CASE x # m
    <3>1. gs[x] = fs[x] /\ \A j \in 1..x - 1 : gs[j] = fs[j] BY <1>7, <2>1, <2>3
    <3>2. Placed(fs, x, n) BY DEF Arranged, m
    <3>3. \A i \in 1..Len(fs[x].rows) : fs[x].rows[i] <= n + k BY <1>7, <2>3
    <3>4. PICK y, l : y = fs[x] /\ l = n + k OBVIOUS
    <3>5. /\ \A j \in 1..x - 1 :
               /\ gs[j].run <= y.run /\ (gs[j].run = y.run => y.idx = gs[j].idx + (x - j))
          /\ \A j \in 1..x - 1 : \A i \in 1..Len(y.rows), h \in 1..Len(gs[j].rows) :
               y.rows[i] # gs[j].rows[h]
      BY <3>1, <3>2, <3>4 DEF Placed
    <3>6. gs[x] = y /\ \A i \in 1..Len(y.rows) : y.rows[i] <= l BY <3>1, <3>3, <3>4
    <3>7. Placed(gs, x, l) BY <3>5, <3>6 DEF Placed
    <3> QED BY <3>4, <3>7
  <2> QED BY <2>2, <2>3
<1> QED BY <1>5, <1>8

\* Files, to the last.
LEMMA LastPlaced ==
  ASSUME NEW fs \in Seq(RootFile), fs # <<>>, NEW n, Arranged(fs, n),
         NEW m, m = Len(fs), NEW j \in 1..m
  PROVE /\ m \in Nat /\ m \in 1..Len(fs) /\ fs[m].run \in Int /\ fs[m].idx \in Int
        /\ fs[j].run \in Int /\ fs[j].idx \in Int
        /\ fs[j].run <= fs[m].run
        /\ fs[j].run = fs[m].run => fs[m].idx = fs[j].idx + (m - j)
<1>1. m \in Nat /\ m \in 1..Len(fs) /\ j \in 1..Len(fs) BY LastElement
<1>2. /\ fs[m].run \in Int /\ fs[m].idx \in Int /\ fs[j].run \in Int /\ fs[j].idx \in Int
  BY <1>1, FileParts
<1>3. Placed(fs, m, n) BY <1>1 DEF Arranged
<1>4. CASE j = m BY <1>1, <1>2, <1>4
<1>5. CASE j # m
  <2>1. j \in 1..m - 1 BY <1>1, <1>5
  <2> QED BY <1>1, <1>2, <1>3, <2>1 DEF Placed
<1> QED BY <1>4, <1>5

\* What the program that takes the data writes.
LEMMA DiskStep ==
  ASSUME DiskInv, DiskOrder, WriteFiles
  PROVE DiskOrder' /\ Grown(dir, dir')
<1>1. PICK fs, gs, n, m : fs = dir /\ gs = dir' /\ n = taken /\ m = Len(fs) OBVIOUS
<1>2. fs \in Seq(RootFile) /\ Arranged(fs, n) /\ n \in Nat /\ m \in Nat
  BY <1>1 DEF DiskInv, DiskOrder
<1> SUFFICES Arranged(gs, taken') /\ Grown(fs, gs)
  BY <1>1 DEF DiskOrder
<1>3. ASSUME UNCHANGED taken, NEW g \in RootFile, g.rows = <<>>, gs = Append(fs, g),
             \A j \in 1..m : /\ fs[j].run <= g.run
                             /\ fs[j].run = g.run => g.idx = fs[j].idx + (m + 1 - j)
      PROVE Arranged(gs, taken') /\ Grown(fs, gs)
  BY <1>1, <1>2, <1>3, AppendArranged
<1>4. CASE DAQ!NewRun /\ UNCHANGED taken
  <2>1. CASE fs = <<>>
    <3>1. PICK g : g = DAQ!File(0, 1) OBVIOUS
    <3>2. g \in RootFile /\ g.rows = <<>>
      <4>1. <<>> \in Seq(Event) BY NoElements
      <4> QED BY <3>1, <4>1 DEF DAQ!File, RootFile
    <3>3. gs = Append(fs, g) BY <1>1, <1>4, <2>1, <3>1 DEF DAQ!NewRun
    <3>4. \A j \in 1..m : FALSE BY <1>1, <2>1
    <3> QED BY <1>3, <1>4, <3>2, <3>3, <3>4
  <2>2. CASE fs # <<>>
    <3>1. \A j \in 1..m : fs[j].run \in Int /\ fs[m].run \in Int /\ fs[j].run <= fs[m].run
      BY <1>1, <1>2, <2>2, LastPlaced
    <3>2. m \in 1..m BY <1>1, <1>2, <2>2, LastElement
    <3>3. PICK r : r = fs[m].run + 1 OBVIOUS
    <3>4. PICK g : g = DAQ!File(r, 1) OBVIOUS
    <3>5. r \in Int /\ \A j \in 1..m : fs[j].run <= r /\ fs[j].run # r
      BY <3>1, <3>2, <3>3
    <3>6. g \in RootFile /\ g.rows = <<>> /\ g.run = r
      <4>1. <<>> \in Seq(Event) BY NoElements
      <4> QED BY <3>4, <3>5, <4>1 DEF DAQ!File, RootFile
    <3>7. gs = Append(fs, g) BY <1>1, <1>4, <2>2, <3>3, <3>4 DEF DAQ!NewRun, DAQ!Last
    <3> QED BY <1>3, <1>4, <3>5, <3>6, <3>7
  <2> QED BY <2>1, <2>2
<1>5. CASE DAQ!NextFile /\ UNCHANGED taken
  <2>1. fs # <<>> BY <1>1, <1>5 DEF DAQ!NextFile
  <2>2. \A j \in 1..m : /\ fs[j].run \in Int /\ fs[j].idx \in Int
                        /\ fs[m].run \in Int /\ fs[m].idx \in Int /\ fs[j].run <= fs[m].run
                        /\ fs[j].run = fs[m].run => fs[m].idx = fs[j].idx + (m - j)
    BY <1>1, <1>2, <2>1, LastPlaced
  <2>3. m \in 1..m BY <1>1, <1>2, <2>1, LastElement
  <2>4. PICK r, i : r = fs[m].run /\ i = fs[m].idx + 1 OBVIOUS
  <2>5. PICK g : g = DAQ!File(r, i) OBVIOUS
  <2>6. r \in Int /\ i \in Int /\ \A j \in 1..m : /\ fs[j].run <= r
                                                  /\ fs[j].run = r => i = fs[j].idx + (m + 1 - j)
    BY <1>2, <2>2, <2>3, <2>4
  <2>7. g \in RootFile /\ g.rows = <<>> /\ g.run = r /\ g.idx = i
    <3>1. <<>> \in Seq(Event) BY NoElements
    <3> QED BY <2>5, <2>6, <3>1 DEF DAQ!File, RootFile
  <2>8. gs = Append(fs, g) BY <1>1, <1>5, <2>4, <2>5 DEF DAQ!NextFile, DAQ!Last
  <2> QED BY <1>3, <1>5, <2>6, <2>7, <2>8
<1>6. CASE \E k \in 1..MaxEvents - taken :
             DAQ!Save([i \in 1..k |-> taken + i]) /\ taken' = taken + k
  <2>1. PICK k \in 1..MaxEvents - n :
          DAQ!Save([i \in 1..k |-> n + i]) /\ taken' = n + k
    BY <1>1, <1>6
  <2>2. PICK s : s = [i \in 1..k |-> n + i] OBVIOUS
  <2>3. k \in Nat /\ s \in Seq(Event) /\ \A i \in 1..Len(s) : s[i] > n /\ s[i] <= n + k
    <3>1. k \in Nat BY <1>2, BoundAssumption
    <3>2. \A i \in 1..k : n + i \in Event BY <1>2, BoundAssumption DEF Event
    <3>3. s \in Seq(Event) /\ Len(s) = k /\ \A i \in 1..k : s[i] = n + i BY <2>2, <3>1, <3>2
    <3> QED BY <1>2, <3>1, <3>3
  <2>4. fs # <<>> /\ gs = [fs EXCEPT ![Len(fs)].rows = @ \o s]
    BY <1>1, <2>1, <2>2 DEF DAQ!Save
  <2>5. PICK l : l = fs[m] OBVIOUS
  <2>6. PICK g : g = [l EXCEPT !.rows = l.rows \o s] OBVIOUS
  <2>7. gs = [fs EXCEPT ![Len(fs)] = g] BY <1>1, <2>4, <2>5, <2>6
  <2>8. l \in RootFile BY <1>1, <1>2, <2>4, <2>5, LastElement
  <2>9. g \in RootFile /\ g.run = l.run /\ g.idx = l.idx /\ g.rows = l.rows \o s
    <3>1. PICK R, t : R = Seq(Event) /\ t = l.rows \o s OBVIOUS
    <3>2. RootFile = [run : Int, idx : Int, rows : R] BY <3>1 DEF RootFile
    <3>3. t \in R
      <4>1. l.rows \in Seq(Event) BY <2>8 DEF RootFile
      <4> QED BY <2>3, <3>1, <4>1, ConcatProperties
    <3>4. g \in RootFile /\ g.run = l.run /\ g.idx = l.idx /\ g.rows = t
      BY <2>6, <2>8, <3>1, <3>2, <3>3
    <3> QED BY <3>1, <3>4
  <2>10. /\ g.run = fs[Len(fs)].run /\ g.idx = fs[Len(fs)].idx
         /\ g.rows = fs[Len(fs)].rows \o s
    BY <1>1, <2>5, <2>9
  <2>11. /\ fs \in Seq(RootFile) /\ fs # <<>> /\ n \in Nat /\ k \in Nat /\ Arranged(fs, n)
         /\ s \in Seq(Event) /\ \A i \in 1..Len(s) : s[i] > n /\ s[i] <= n + k
         /\ g \in RootFile /\ gs = [fs EXCEPT ![Len(fs)] = g]
    BY <1>2, <2>3, <2>4, <2>7, <2>9
  <2>12. Arranged(gs, n + k) /\ Grown(fs, gs)
    BY <2>10, <2>11, SaveArranged, Zenon
  <2> QED BY <2>1, <2>12
<1> QED BY <1>4, <1>5, <1>6 DEF WriteFiles

(***************************************************************************)
(* The events shown are pieces of the files.                               *)
(***************************************************************************)
\* Of the files before c, r[k] is the beginning of file k that is shown: none of
\* the files before a, some of every one from a on unless events are skipped.
Beginning(f, p) == Len(p) <= Len(f.rows) /\ p = SubSeq(f.rows, 1, Len(p))
Before(fs, c, run, sk, r, a) ==
  \A k \in 1..c - 1 : /\ Beginning(fs[k], r[k])
                      /\ k < a => r[k] = <<>>
                      /\ k >= a => fs[k].run = run /\ (sk = 0 => r[k] # <<>>)

\* The events sh are those and the first e of file c, of the same run.
Viewed(fs, c, run, e, sk, sh) ==
  /\ fs[c].run = run
  /\ \E r \in Seq(Seq(Event)), a \in Nat :
       /\ Len(r) = c - 1 /\ a <= c /\ Before(fs, c, run, sk, r, a)
       /\ sh = FlattenSeq(r) \o SubSeq(fs[c].rows, 1, e)

\* A piece that follows the beginning makes a longer beginning.
LEMMA NextPiece ==
  ASSUME NEW S, NEW rows \in Seq(S), NEW e \in Nat, NEW k \in Nat, e + k <= Len(rows)
  PROVE /\ SubSeq(rows, 1, e) \in Seq(S) /\ Len(SubSeq(rows, 1, e)) = e
        /\ SubSeq(rows, e + 1, e + k) \in Seq(S)
        /\ SubSeq(rows, 1, e) \o SubSeq(rows, e + 1, e + k) = SubSeq(rows, 1, e + k)
OBVIOUS

\* The first events of a file alone.
LEMMA ViewedStart ==
  ASSUME NEW fs \in Seq(RootFile), NEW c \in 1..Len(fs), NEW sk
  PROVE Viewed(fs, c, fs[c].run, 0, sk, <<>>)
<1> DEFINE r == [k \in 1..c - 1 |-> <<>>]
<1>1. c \in Nat /\ c - 1 \in Nat /\ c <= c OBVIOUS
<1>2. <<>> \in Seq(Event) BY NoElements
<1>3. r \in Seq(Seq(Event)) /\ Len(r) = c - 1 /\ \A k \in 1..c - 1 : r[k] = <<>>
  BY <1>1, <1>2
<1> HIDE DEF r
<1>4. FlattenSeq(r) = <<>> BY <1>3, FlattenEmpty
<1>5. ASSUME NEW k \in 1..c - 1 PROVE Beginning(fs[k], r[k]) /\ k < c /\ ~(k >= c)
  <2>1. k \in 1..Len(fs) /\ k < c /\ ~(k >= c) BY <1>1
  <2>2. PICK rows : rows = fs[k].rows OBVIOUS
  <2>3. rows \in Seq(Event) BY <2>1, <2>2, FileParts
  <2>4. Len(<<>>) = 0 /\ 0 <= Len(rows) /\ SubSeq(rows, 1, 0) = <<>> BY <2>3
  <2> QED BY <1>3, <2>1, <2>2, <2>4 DEF Beginning
<1>6. Before(fs, c, fs[c].run, sk, r, c) BY <1>3, <1>5 DEF Before
<1>7. SubSeq(fs[c].rows, 1, 0) = <<>>
  <2>1. PICK rows : rows = fs[c].rows OBVIOUS
  <2>2. rows \in Seq(Event) BY <2>1, FileParts
  <2> QED BY <2>1, <2>2, Firsts
<1>8. <<>> = FlattenSeq(r) \o SubSeq(fs[c].rows, 1, 0)
  <2>1. <<>> \o <<>> = <<>> OBVIOUS
  <2> QED BY <1>4, <1>7, <2>1
<1> QED BY <1>1, <1>3, <1>6, <1>8 DEF Viewed

\* The events that follow in the file.
LEMMA ViewedMore ==
  ASSUME NEW fs \in Seq(RootFile), NEW c \in 1..Len(fs), NEW run, NEW sk, NEW sh,
         NEW e \in Nat, NEW k \in Nat, e + k <= Len(fs[c].rows),
         Viewed(fs, c, run, e, sk, sh)
  PROVE Viewed(fs, c, run, e + k, sk, sh \o SubSeq(fs[c].rows, e + 1, e + k))
<1>1. PICK r \in Seq(Seq(Event)), a \in Nat :
        /\ Len(r) = c - 1 /\ a <= c /\ Before(fs, c, run, sk, r, a)
        /\ sh = FlattenSeq(r) \o SubSeq(fs[c].rows, 1, e)
  BY DEF Viewed
<1>2. PICK rows, f : rows = fs[c].rows /\ f = FlattenSeq(r) OBVIOUS
<1>3. rows \in Seq(Event) BY <1>2, FileParts
<1>4. f \in Seq(Event)
  <2>1. <<>> \in Seq(Event) BY NoElements
  <2> QED BY <1>2, <2>1, FlattenAppend
<1>5. PICK x, y : x = SubSeq(rows, 1, e) /\ y = SubSeq(rows, e + 1, e + k) OBVIOUS
<1>6. x \in Seq(Event) /\ y \in Seq(Event) /\ x \o y = SubSeq(rows, 1, e + k)
  <2>1. e + k <= Len(rows) BY <1>2
  <2>2. PICK S : S = Event OBVIOUS
  <2>3. rows \in Seq(S) BY <1>3, <2>2
  <2>4. /\ SubSeq(rows, 1, e) \in Seq(S) /\ SubSeq(rows, e + 1, e + k) \in Seq(S)
        /\ SubSeq(rows, 1, e) \o SubSeq(rows, e + 1, e + k) = SubSeq(rows, 1, e + k)
    BY <2>1, <2>3, NextPiece
  <2> QED BY <1>5, <2>2, <2>4
<1>7. (f \o x) \o y = f \o (x \o y)
  <2>1. PICK S : S = Event OBVIOUS
  <2>2. f \in Seq(S) /\ x \in Seq(S) /\ y \in Seq(S) BY <1>4, <1>6, <2>1
  <2> QED BY <2>2, Associative
<1>8. sh \o SubSeq(fs[c].rows, e + 1, e + k) = FlattenSeq(r) \o SubSeq(fs[c].rows, 1, e + k)
  BY <1>1, <1>2, <1>5, <1>6, <1>7
<1> QED BY <1>1, <1>8 DEF Viewed

\* On to the next file.
LEMMA ViewedNext ==
  ASSUME NEW fs \in Seq(RootFile), NEW c \in 1..Len(fs), NEW run, NEW sk, NEW sh,
         NEW e \in Nat, e <= Len(fs[c].rows), Viewed(fs, c, run, e, sk, sh),
         c + 1 \in 1..Len(fs), fs[c + 1].run = run, NEW more, more = 0 => sk = 0 /\ e # 0
  PROVE Viewed(fs, c + 1, run, 0, more, sh)
<1>1. PICK r \in Seq(Seq(Event)), a \in Nat :
        /\ Len(r) = c - 1 /\ a <= c /\ Before(fs, c, run, sk, r, a)
        /\ sh = FlattenSeq(r) \o SubSeq(fs[c].rows, 1, e)
  BY DEF Viewed
<1>2. PICK rows, f : rows = fs[c].rows /\ f = FlattenSeq(r) OBVIOUS
<1>3. rows \in Seq(Event) BY <1>2, FileParts
<1>4. PICK x : x = SubSeq(rows, 1, e) OBVIOUS
<1>5. x \in Seq(Event) /\ Len(x) = e
  <2>1. 0 \in Nat /\ e + 0 <= Len(rows) BY <1>2
  <2> QED BY <1>3, <1>4, <2>1, NextPiece
<1>6. f \in Seq(Event) /\ FlattenSeq(Append(r, x)) = f \o x
  BY <1>2, <1>5, FlattenAppend
<1>7. PICK q : q = Append(r, x) OBVIOUS
<1>8. /\ c \in Nat /\ (c + 1) - 1 = c /\ c \in 1..c
      /\ \A k \in 1..c : k \in 1..c - 1 \/ k = c
      /\ a <= c /\ a <= c + 1 /\ c + 1 \in Nat
  BY <1>1
<1>9. q \in Seq(Seq(Event)) /\ Len(q) = c /\ q[c] = x /\ \A k \in 1..c - 1 : q[k] = r[k]
  <2>1. PICK T : T = Seq(Event) OBVIOUS
  <2>2. r \in Seq(T) /\ x \in T BY <1>5, <2>1
  <2>3. q \in Seq(T) /\ Len(q) = Len(r) + 1 /\ q[Len(r) + 1] = x /\ \A k \in 1..Len(r) : q[k] = r[k]
    BY <1>7, <2>2
  <2> QED BY <1>1, <1>8, <2>1, <2>3
<1>10. ASSUME NEW k \in 1..c
       PROVE /\ Beginning(fs[k], q[k])
             /\ k < a => q[k] = <<>>
             /\ k >= a => fs[k].run = run /\ (more = 0 => q[k] # <<>>)
  <2>1. CASE k \in 1..c - 1 BY <1>1, <1>9, <2>1 DEF Before
  <2>2. CASE k = c
    <3>1. Beginning(fs[c], x) BY <1>2, <1>4, <1>5 DEF Beginning
    <3>2. ~(c < a) /\ fs[c].run = run BY <1>1 DEF Viewed
    <3>3. e # 0 => x # <<>> BY <1>5
    <3> QED BY <1>9, <2>2, <3>1, <3>2, <3>3
  <2> QED BY <1>8, <2>1, <2>2
<1>11. Before(fs, c + 1, run, more, q, a) BY <1>8, <1>10 DEF Before
<1>12. sh = FlattenSeq(q) \o SubSeq(fs[c + 1].rows, 1, 0)
  <2>1. PICK next, s : next = fs[c + 1].rows /\ s = f \o x OBVIOUS
  <2>2. next \in Seq(Event) BY <2>1, FileParts
  <2>3. SubSeq(next, 1, 0) = <<>> BY <2>2, Firsts
  <2>4. s \in Seq(Event) BY <1>5, <1>6, <2>1
  <2>5. s \o <<>> = s BY <2>4
  <2>6. sh = s /\ FlattenSeq(q) = s BY <1>1, <1>2, <1>4, <1>6, <1>7, <2>1
  <2> QED BY <2>1, <2>3, <2>5, <2>6
<1> QED BY <1>8, <1>9, <1>11, <1>12 DEF Viewed

\* What is written to the disk does not change what was read.
LEMMA ViewedGrown ==
  ASSUME NEW fs \in Seq(RootFile), NEW gs, Grown(fs, gs), NEW c \in 1..Len(fs), NEW run,
         NEW sk, NEW sh, NEW e \in Nat, e <= Len(fs[c].rows), Viewed(fs, c, run, e, sk, sh)
  PROVE Viewed(gs, c, run, e, sk, sh)
<1>1. PICK r \in Seq(Seq(Event)), a \in Nat :
        /\ Len(r) = c - 1 /\ a <= c /\ Before(fs, c, run, sk, r, a)
        /\ sh = FlattenSeq(r) \o SubSeq(fs[c].rows, 1, e)
  BY DEF Viewed
<1>2. e \in 0..Len(fs[c].rows) BY FileParts
<1>3. gs[c].run = run /\ SubSeq(gs[c].rows, 1, e) = SubSeq(fs[c].rows, 1, e)
  BY <1>2 DEF Grown, Viewed
<1>4. ASSUME NEW k \in 1..c - 1 PROVE Beginning(gs[k], r[k]) /\ gs[k].run = fs[k].run
  <2>1. k \in 1..Len(fs) /\ k \in 1..Len(r) BY <1>1
  <2>2. Beginning(fs[k], r[k]) /\ r[k] \in Seq(Event) BY <1>1, <2>1 DEF Before
  <2>3. PICK p : p = r[k] OBVIOUS
  <2>4. Len(p) \in Nat /\ Len(fs[k].rows) \in Nat BY <2>1, <2>2, <2>3, FileParts
  <2>5. Len(p) <= Len(fs[k].rows) /\ p = SubSeq(fs[k].rows, 1, Len(p))
    BY <2>2, <2>3 DEF Beginning
  <2>6. Len(p) \in 0..Len(fs[k].rows) BY <2>4, <2>5
  <2>7. /\ gs[k].run = fs[k].run /\ Len(fs[k].rows) <= Len(gs[k].rows)
        /\ SubSeq(gs[k].rows, 1, Len(p)) = SubSeq(fs[k].rows, 1, Len(p))
    BY <2>1, <2>6 DEF Grown
  <2>8. Len(p) <= Len(gs[k].rows)
    <3>1. PICK x, y, z : x = Len(p) /\ y = Len(fs[k].rows) /\ z = Len(gs[k].rows) OBVIOUS
    <3> QED BY <2>4, <2>5, <2>7, <3>1
  <2> QED BY <2>3, <2>5, <2>7, <2>8 DEF Beginning
<1>5. Before(gs, c, run, sk, r, a) BY <1>1, <1>4 DEF Before
<1> QED BY <1>1, <1>3, <1>5 DEF Viewed

(***************************************************************************)
(* The display and the files that it reads.                                *)
(***************************************************************************)
\* The run and the number of the file that was opened last, and the entries that
\* were counted in it, which the disk has.
ReadInv == /\ fBaseFileName # 0 => /\ fCurrentRun = dir[fBaseFileName].run
                                   /\ fCurrentSubrun = dir[fBaseFileName].idx
           /\ fChain => fEntry <= entries /\ entries \in 1..Len(dir[fBaseFileName].rows)
           /\ fCumulativeEntries \in Nat /\ skipped \in Nat

ViewInv == fChain => Viewed(dir, fBaseFileName, fCurrentRun, fEntry, skipped, shown)

OrderInv == DiskOrder /\ ReadInv /\ ViewInv

\* What a call of NextEvent shows.
LEMMA ShownPiece ==
  ASSUME NEW f, NEW e \in Nat, NEW m, NEW sh, ShowEvents(f, e, m, sh),
         Len(dir[f].rows) \in Nat
  PROVE \E k \in Nat : /\ e + k <= Len(dir[f].rows) /\ fEntry' = e + k
                       /\ shown' = sh \o SubSeq(dir[f].rows, e + 1, e + k)
<1> DEFINE rows == dir[f].rows
           n == Batch(e, Len(rows), fIsRunning')
<1>1. n \in Int BY StepAssumption DEF Batch
<1>2. PICK k \in 0..n : /\ e + k <= Len(rows) /\ fEntry' = e + k
                        /\ shown' = sh \o SubSeq(rows, e + 1, e + k)
  BY DEF ShowEvents
<1>3. k \in Nat BY <1>1
<1> QED BY <1>2, <1>3

\* After showing events of a file, of which e were shown with those before it.
LEMMA ShowViews ==
  ASSUME NEW fs \in Seq(RootFile), fs = dir, dir' = fs, NEW f \in 1..Len(fs), NEW e \in Nat,
         NEW m, NEW sh, ShowEvents(f, e, m, sh), NEW run, NEW sk, fs[f].rows # <<>>,
         Viewed(fs, f, run, e, sk, sh), fBaseFileName' = f, fCurrentRun' = run, skipped' = sk
  PROVE /\ fEntry' <= entries' /\ entries' \in 1..Len(dir'[fBaseFileName'].rows)
        /\ Viewed(dir', fBaseFileName', fCurrentRun', fEntry', skipped', shown')
<1>0. Len(dir[f].rows) \in Nat /\ entries' = Len(fs[f].rows)
  BY FileParts DEF ShowEvents
<1>1. PICK k \in Nat : /\ e + k <= Len(dir[f].rows) /\ fEntry' = e + k
                       /\ shown' = sh \o SubSeq(dir[f].rows, e + 1, e + k)
  BY <1>0, ShownPiece
<1>2. Viewed(fs, f, run, e + k, sk, sh \o SubSeq(fs[f].rows, e + 1, e + k))
  BY <1>1, ViewedMore
<1>3. Len(fs[f].rows) \in 1..Len(fs[f].rows)
  <2>1. PICK rows : rows = fs[f].rows OBVIOUS
  <2>2. rows \in Seq(Event) /\ rows # <<>> BY <2>1, FileParts
  <2>3. Len(rows) \in 1..Len(rows) BY <2>2
  <2> QED BY <2>1, <2>3
<1> QED BY <1>0, <1>1, <1>2, <1>3

\* Whatever file is opened, of a new run or after the file before it.
LEMMA LoadViews ==
  ASSUME DiskInv, NEW fs, fs = dir, dir' = fs, NEW f \in 1..Len(fs), NEW newRun \in BOOLEAN,
         NEW e, NEW m, NEW sh, LoadDataFile(f, newRun, e, m, sh),
         fCumulativeEntries' \in Nat, NEW sk \in Nat, skipped' = sk,
         ~newRun => Viewed(fs, f, fs[f].run, 0, sk, sh)
  PROVE ReadInv' /\ ViewInv'
<1>1. fs \in Seq(RootFile) BY DEF DiskInv
<1>2. PICK run : run = fs[f].run OBVIOUS
<1>3. fBaseFileName' = f /\ fCurrentRun' = run /\ fCurrentSubrun' = fs[f].idx
  BY <1>2 DEF LoadDataFile, ParseRunSubrun
<1>4. CASE dir[f].rows = <<>>
  <2>1. fChain' = FALSE BY <1>4 DEF LoadDataFile, GiveUp
  <2> QED BY <1>2, <1>3, <2>1 DEF ReadInv, ViewInv
<1>5. CASE dir[f].rows # <<>>
  <2>1. PICK mm, s : ShowEvents(f, 0, mm, s) /\ Viewed(fs, f, run, 0, sk, s)
    <3>1. CASE newRun
      <4>1. ShowEvents(f, 0, Reset(m), <<>>) BY <1>5, <3>1 DEF LoadDataFile
      <4>2. Viewed(fs, f, run, 0, sk, <<>>) BY <1>1, <1>2, ViewedStart
      <4> QED BY <4>1, <4>2
    <3>2. CASE ~newRun
      <4>1. ShowEvents(f, 0, m, sh) BY <1>5, <3>2 DEF LoadDataFile
      <4> QED BY <1>2, <3>2, <4>1
    <3> QED BY <3>1, <3>2
  <2>2. 0 \in Nat /\ fs[f].rows # <<>> BY <1>5
  <2>3. /\ fs \in Seq(RootFile) /\ fs = dir /\ dir' = fs /\ fBaseFileName' = f
        /\ fCurrentRun' = run /\ skipped' = sk /\ fs[f].rows # <<>>
    BY <1>1, <1>3, <2>2
  <2>4. /\ fEntry' <= entries' /\ entries' \in 1..Len(dir'[fBaseFileName'].rows)
        /\ Viewed(dir', fBaseFileName', fCurrentRun', fEntry', skipped', shown')
    BY <2>1, <2>2, <2>3, ShowViews
  <2> QED BY <1>2, <1>3, <2>4 DEF ReadInv, ViewInv
<1> QED BY <1>4, <1>5

\* The file of the run with the next number is the next one on disk.
LEMMA NextOfRun ==
  ASSUME NEW fs \in Seq(RootFile), NEW n, Arranged(fs, n), NEW c \in 1..Len(fs),
         NEW f \in 1..Len(fs), fs[f].run = fs[c].run, fs[f].idx = fs[c].idx + 1
  PROVE f = c + 1
<1>1. fs[f].idx \in Int /\ fs[c].idx \in Int BY FileParts
<1>2. CASE f < c
  <2>1. f \in 1..c - 1 BY <1>2
  <2>2. fs[c].idx = fs[f].idx + (c - f) BY <2>1 DEF Arranged, Placed
  <2> QED BY <1>1, <1>2, <2>2
<1>3. CASE f > c
  <2>1. c \in 1..f - 1 BY <1>3
  <2>2. fs[f].idx = fs[c].idx + (f - c) BY <2>1 DEF Arranged, Placed
  <2> QED BY <1>1, <1>3, <2>2
<1>4. f # c BY <1>1
<1> QED BY <1>2, <1>3, <1>4

\* The next file of the run, the next run, and Reload Run.
LEMMA CheckViews ==
  ASSUME IInv, OrderInv, NEW offset \in Int, CheckNewFile(offset), UNCHANGED diskVars
  PROVE ReadInv' /\ ViewInv'
<1> DEFINE subrun == Named(fCurrentRun, fCurrentSubrun + 1)
           run == Named(fCurrentRun + offset, 1)
<1>1. PICK fs : fs = dir OBVIOUS
<1>2. /\ DiskInv /\ fs \in Seq(RootFile) /\ dir' = fs /\ DOMAIN fs = 1..Len(fs)
      /\ subrun \subseteq 1..Len(fs) /\ run \subseteq 1..Len(fs)
  BY <1>1 DEF IInv, DiskInv, diskVars, Named
<1>3. CASE /\ fChain /\ fCumulativeEntries' = fCumulativeEntries + entries
           /\ skipped' = skipped + entries - fEntry
           /\ \E f \in subrun : LoadDataFile(f, FALSE, fEntry, maps, shown)
  <2>1. PICK f \in subrun : LoadDataFile(f, FALSE, fEntry, maps, shown) BY <1>3
  <2>2. PICK c, e, sk, sh : c = fBaseFileName /\ e = fEntry /\ sk = skipped /\ sh = shown
    OBVIOUS
  <2>3. c \in 1..Len(fs) BY <1>1, <1>2, <1>3, <2>2 DEF IInv, DiskInv, CountType
  <2>4. /\ fs[f].run = fs[c].run /\ fs[f].idx = fs[c].idx + 1 /\ fCurrentRun = fs[c].run
    BY <1>1, <2>1, <2>2, <2>3 DEF Named, OrderInv, ReadInv
  <2>5. f = c + 1 BY <1>1, <1>2, <2>1, <2>3, <2>4, NextOfRun DEF OrderInv, DiskOrder
  <2>6. /\ e \in Nat /\ sk \in Nat /\ e <= entries /\ entries \in 1..Len(fs[c].rows)
        /\ fCumulativeEntries \in Nat /\ Len(fs[c].rows) \in Nat
    <3>1. Len(fs[c].rows) \in Nat BY <1>2, <2>3, FileParts
    <3> QED BY <1>1, <1>3, <2>2, <3>1 DEF IInv, CountType, OrderInv, ReadInv
  <2>7. PICK more : more = skipped' OBVIOUS
  <2>8. /\ more = sk + entries - e /\ e <= Len(fs[c].rows)
        /\ more \in Nat /\ fCumulativeEntries' \in Nat
        /\ more = 0 => sk = 0 /\ e # 0
    BY <1>3, <2>2, <2>6, <2>7
  <2>9. Viewed(fs, c, fs[c].run, e, sk, sh)
    BY <1>1, <1>3, <2>2, <2>4 DEF OrderInv, ViewInv
  <2>10. Viewed(fs, c + 1, fs[c].run, 0, more, sh)
    <3>1. PICK r : r = fs[c].run OBVIOUS
    <3>2. c + 1 \in 1..Len(fs) /\ fs[c + 1].run = r /\ Viewed(fs, c, r, e, sk, sh)
      BY <1>2, <2>1, <2>4, <2>5, <2>9, <3>1
    <3>3. Viewed(fs, c + 1, r, 0, more, sh)
      BY <1>2, <2>3, <2>6, <2>8, <3>2, ViewedNext
    <3> QED BY <3>1, <3>3
  <2>11. f \in 1..Len(fs) /\ FALSE \in BOOLEAN /\ Viewed(fs, f, fs[f].run, 0, more, sh)
    BY <1>2, <2>1, <2>4, <2>5, <2>10
  <2> QED BY <1>1, <1>2, <2>1, <2>2, <2>7, <2>8, <2>11, LoadViews
<1>4. CASE UNCHANGED <<fileVars, readVars, countVars>>
  BY <1>1, <1>2, <1>4 DEF fileVars, readVars, countVars, OrderInv, ReadInv, ViewInv
<1>5. CASE /\ fCumulativeEntries' = 0 /\ skipped' = 0
           /\ \E f \in run : LoadDataFile(f, TRUE, fEntry, Reset(maps), <<>>)
  <2>1. PICK f \in run : LoadDataFile(f, TRUE, fEntry, Reset(maps), <<>>) BY <1>5
  <2>2. f \in 1..Len(fs) /\ TRUE \in BOOLEAN /\ 0 \in Nat BY <1>2
  <2>3. fCumulativeEntries' \in Nat BY <1>5
  <2> QED BY <1>1, <1>2, <1>5, <2>1, <2>2, <2>3, LoadViews
<1> QED BY <1>3, <1>4, <1>5 DEF CheckNewFile

\* Every step keeps what was read in order.
LEMMA NextOrder == ASSUME IInv, OrderInv, [Next]_vars PROVE OrderInv'
<1>1. PICK fs, c, e, sk, sh, run :
        /\ fs = dir /\ c = fBaseFileName /\ e = fEntry /\ sk = skipped /\ sh = shown
        /\ run = fCurrentRun
  OBVIOUS
<1>2. /\ DiskInv /\ fs \in Seq(RootFile) /\ DOMAIN dir = 1..Len(fs) /\ e \in Nat /\ c \in Nat
      /\ c \in 0..Len(fs) /\ sk \in Nat /\ fCumulativeEntries \in Nat
      /\ fChain => c # 0 /\ Viewed(fs, c, run, e, sk, sh) /\ entries \in Nat
                   /\ e <= entries /\ entries \in 1..Len(fs[c].rows)
      /\ c # 0 => c \in 1..Len(fs)
  BY <1>1 DEF IInv, DiskInv, CountType, OrderInv, ReadInv, ViewInv
<1>3. ASSUME UNCHANGED diskVars PROVE DiskOrder' /\ dir' = fs
  BY <1>1, <1>3 DEF OrderInv, DiskOrder, diskVars
<1> DEFINE Same == UNCHANGED <<diskVars, fBaseFileName, fCurrentRun, fCurrentSubrun, fChain,
                               entries, fEntry, shown, fCumulativeEntries, skipped>>
<1>4. ASSUME Same PROVE OrderInv'
  BY <1>3, <1>4 DEF OrderInv, ReadInv, ViewInv, diskVars
<1>5. CASE UNCHANGED vars \/ LoadDecoding \/ ManualReset \/ UpdateRange \/ ToggleAuto
           \/ CheckNextRun \/ DoExit
  <2>1. Same
    BY <1>5 DEF vars, LoadDecoding, ManualReset, UpdateRange, ToggleAuto, CheckNextRun, DoExit,
                User, fileVars, readVars, countVars
  <2> QED BY <1>4, <2>1
<1>6. CASE WriteFiles
  <2>1. PICK gs : gs = dir' OBVIOUS
  <2>2. DiskOrder' /\ Grown(fs, gs) BY <1>1, <1>2, <1>6, <2>1, DiskStep DEF OrderInv
  <2>3. UNCHANGED <<fileVars, readVars, countVars>> BY <1>6 DEF WriteFiles
  <2>4. c # 0 => /\ gs[c].run = fs[c].run /\ gs[c].idx = fs[c].idx
                 /\ Len(fs[c].rows) <= Len(gs[c].rows) /\ Len(gs[c].rows) \in Nat
                 /\ Len(fs[c].rows) \in Nat
    <3>1. DiskInv' BY <1>6, WriteKeeps DEF IInv
    <3>2. gs \in Seq(RootFile) /\ Len(fs) <= Len(gs) BY <2>1, <2>2, <3>1 DEF DiskInv, Grown
    <3>3. c # 0 => c \in 1..Len(gs) BY <1>2, <3>2
    <3>4. c # 0 => Len(gs[c].rows) \in Nat BY <3>2, <3>3, FileParts
    <3>5. c # 0 => Len(fs[c].rows) \in Nat BY <1>2, FileParts
    <3> QED BY <1>2, <2>2, <3>4, <3>5 DEF Grown
  <2>5. ReadInv'
    <3>1. c # 0 => fCurrentRun = fs[c].run /\ fCurrentSubrun = fs[c].idx
      BY <1>1 DEF OrderInv, ReadInv
    <3>2. c # 0 => fCurrentRun = gs[c].run /\ fCurrentSubrun = gs[c].idx
      BY <2>4, <3>1
    <3>3. fChain => e <= entries /\ entries \in 1..Len(gs[c].rows)
      <4>1. PICK x, y : x = Len(fs[c].rows) /\ y = Len(gs[c].rows) OBVIOUS
      <4> QED BY <1>2, <2>4, <4>1
    <3>4. /\ fBaseFileName' = c /\ fCurrentRun' = fCurrentRun /\ dir' = gs
          /\ fCurrentSubrun' = fCurrentSubrun /\ fChain' = fChain /\ entries' = entries
          /\ fEntry' = e /\ fCumulativeEntries' \in Nat /\ skipped' \in Nat
      BY <1>1, <1>2, <2>1, <2>3 DEF fileVars, readVars, countVars
    <3> QED BY <3>2, <3>3, <3>4 DEF ReadInv
  <2>6. ViewInv'
    <3>1. ASSUME fChain PROVE Viewed(gs, c, run, e, sk, sh)
      <4>1. c \in 1..Len(fs) /\ Viewed(fs, c, run, e, sk, sh) BY <1>2, <3>1
      <4>2. e <= Len(fs[c].rows)
        <5>1. PICK x : x = Len(fs[c].rows) OBVIOUS
        <5>2. x \in Nat BY <4>1, <5>1, <1>2, FileParts
        <5> QED BY <1>2, <3>1, <5>1, <5>2
      <4> QED BY <1>2, <2>2, <4>1, <4>2, ViewedGrown
    <3> QED BY <1>1, <2>1, <2>3, <3>1 DEF ViewInv, fileVars, readVars, countVars
  <2> QED BY <2>2, <2>5, <2>6 DEF OrderInv
<1>7. CASE NextEvent
  <2>1. /\ fChain /\ ShowEvents(fBaseFileName, fEntry, maps, shown)
        /\ UNCHANGED <<diskVars, fileVars, countVars>>
    BY <1>7 DEF NextEvent
  <2>2. PICK m : m = maps OBVIOUS
  <2>3. /\ ShowEvents(c, e, m, sh) /\ c \in 1..Len(fs) /\ dir' = fs /\ fBaseFileName' = c
        /\ fCurrentRun' = run /\ skipped' = sk /\ Viewed(fs, c, run, e, sk, sh)
    BY <1>1, <1>2, <2>1, <2>2 DEF diskVars, fileVars, countVars
  <2>4. fs[c].rows # <<>>
    <3>1. PICK rows : rows = fs[c].rows OBVIOUS
    <3>2. entries \in 1..Len(rows) BY <1>2, <2>1, <3>1
    <3>3. Len(<<>>) = 0 OBVIOUS
    <3>4. rows # <<>> BY <3>2, <3>3
    <3> QED BY <3>1, <3>4
  <2>5. /\ fEntry' <= entries' /\ entries' \in 1..Len(dir'[fBaseFileName'].rows)
        /\ Viewed(dir', fBaseFileName', fCurrentRun', fEntry', skipped', shown')
    BY <1>1, <1>2, <2>3, <2>4, ShowViews
  <2>6. UNCHANGED <<fBaseFileName, fCurrentRun, fCurrentSubrun, fCumulativeEntries, skipped>>
        /\ dir' = dir
    BY <2>1 DEF fileVars, countVars, diskVars
  <2>7. ReadInv' BY <2>5, <2>6 DEF OrderInv, ReadInv
  <2>8. ViewInv' BY <2>5 DEF ViewInv
  <2> QED BY <1>3, <2>1, <2>7, <2>8 DEF OrderInv
<1>8. CASE CheckForNewData
  <2>1. CheckNewFile(1) /\ UNCHANGED diskVars BY <1>8 DEF CheckForNewData
  <2> QED BY <1>3, <2>1, CheckViews DEF OrderInv
<1>9. CASE ReloadRun
  <2>1. CheckNewFile(0) /\ UNCHANGED diskVars BY <1>9 DEF ReloadRun, User
  <2> QED BY <1>3, <2>1, CheckViews DEF OrderInv
<1>10. CASE OpenFile
  <2>1. PICK f \in DOMAIN dir : LoadDataFile(f, TRUE, fEntry, maps, shown)
    BY <1>10 DEF OpenFile
  <2>2. fCumulativeEntries' = 0 /\ skipped' = 0 /\ UNCHANGED diskVars
    BY <1>10 DEF OpenFile, User
  <2>3. f \in 1..Len(fs) /\ fCumulativeEntries' \in Nat /\ 0 \in Nat /\ TRUE \in BOOLEAN
    BY <1>2, <2>2
  <2>4. ReadInv' /\ ViewInv' BY <1>1, <1>2, <1>3, <2>1, <2>2, <2>3, LoadViews
  <2> QED BY <1>3, <2>2, <2>4 DEF OrderInv
<1>11. CASE Start
  <2>1. fCumulativeEntries' = 0 /\ skipped' = 0 /\ UNCHANGED diskVars
    BY <1>11 DEF Start
  <2>2. CASE config.file # 0
    <3>1. PICK f, m : f = config.file /\ m = NewMaps(config.deco) OBVIOUS
    <3>2. LoadDataFile(f, TRUE, 0, m, <<>>) BY <1>11, <2>2, <3>1 DEF Start
    <3>3. f \in 1..Len(fs) /\ fCumulativeEntries' \in Nat /\ 0 \in Nat /\ TRUE \in BOOLEAN
      BY <1>1, <1>2, <2>1, <2>2, <3>1 DEF DiskInv
    <3>4. ReadInv' /\ ViewInv' BY <1>1, <1>2, <1>3, <2>1, <3>2, <3>3, LoadViews
    <3> QED BY <1>3, <2>1, <3>4 DEF OrderInv
  <2>3. CASE config.file = 0
    <3>1. fBaseFileName' = 0 /\ fChain' = FALSE BY <1>11, <2>3 DEF Start
    <3>2. fCumulativeEntries' \in Nat /\ skipped' \in Nat BY <2>1
    <3>3. ReadInv' /\ ViewInv' BY <3>1, <3>2 DEF ReadInv, ViewInv
    <3> QED BY <1>3, <2>1, <3>3 DEF OrderInv
  <2> QED BY <2>2, <2>3
<1> QED BY <1>5, <1>6, <1>7, <1>8, <1>9, <1>10, <1>11 DEF Next

\* The disk is empty at the start.
LEMMA InitOrder == Init => OrderInv
<1> SUFFICES ASSUME Init PROVE OrderInv
  OBVIOUS
<1>1. dir = <<>> BY DEF Init, DAQ!Init
<1>2. DiskOrder
  <2>1. \A k \in 1..Len(dir) : FALSE BY <1>1
  <2> QED BY <2>1 DEF DiskOrder, Arranged
<1>3. fBaseFileName = 0 /\ fChain = FALSE /\ fCumulativeEntries = 0 /\ skipped = 0 BY DEF Init
<1>4. fCumulativeEntries \in Nat /\ skipped \in Nat BY <1>3
<1> QED BY <1>2, <1>3, <1>4 DEF OrderInv, ReadInv, ViewInv

LEMMA Ordered == Spec => []OrderInv
BY InitOrder, Counted, NextOrder, PTL DEF Spec

(***************************************************************************)
(* The events of each file that are shown.                                 *)
(***************************************************************************)
\* What an event adds to the events of a file.
OfFile(f) == [e \in Event |-> IF Contains(f.rows, e) THEN <<e>> ELSE <<>>]

\* The beginning of a file has the events of that file and of no other.
LEMMA OwnEvents ==
  ASSUME NEW fs \in Seq(RootFile), NEW n, Arranged(fs, n), NEW j \in 1..Len(fs),
         NEW k \in 1..Len(fs), NEW p \in Seq(Event), Beginning(fs[j], p)
  PROVE /\ OfFile(fs[k]) \in [Event -> Seq(Event)]
        /\ InTurn(p, OfFile(fs[k])) = IF j = k THEN p ELSE <<>>
<1>1. PICK g, own, rows : g = OfFile(fs[k]) /\ own = fs[k].rows /\ rows = fs[j].rows OBVIOUS
<1>2. own \in Seq(Event) /\ rows \in Seq(Event) BY <1>1, FileParts
<1>3. g \in [Event -> Seq(Event)] /\ \A e \in Event : g[e] = IF Contains(own, e) THEN <<e>> ELSE <<>>
  <2>1. \A e \in Event : <<e>> \in Seq(Event) /\ <<>> \in Seq(Event) OBVIOUS
  <2> QED BY <1>1, <2>1 DEF OfFile
<1>4. ASSUME NEW i \in 1..Len(p) PROVE i \in 1..Len(rows) /\ p[i] = rows[i] /\ p[i] \in Event
  <2>1. Len(p) <= Len(rows) /\ p = SubSeq(rows, 1, Len(p)) BY <1>1 DEF Beginning
  <2>2. Len(p) \in Nat /\ Len(rows) \in Nat /\ p[i] \in Event BY <1>2
  <2>3. i \in 1..Len(rows) BY <2>1, <2>2
  <2>4. PICK l : l = Len(p) OBVIOUS
  <2>5. l \in 0..Len(rows) /\ i \in 1..l BY <2>1, <2>2, <2>4
  <2>6. SubSeq(rows, 1, l)[i] = rows[i] BY <1>2, <2>5
  <2> QED BY <2>1, <2>2, <2>3, <2>4, <2>6
<1>5. CASE j = k
  <2>1. \A i \in 1..Len(p) : g[p[i]] = <<p[i]>>
    <3> SUFFICES ASSUME NEW i \in 1..Len(p) PROVE g[p[i]] = <<p[i]>> OBVIOUS
    <3>1. own = rows BY <1>1, <1>5
    <3>2. Contains(own, p[i]) BY <1>4, <3>1 DEF Contains
    <3> QED BY <1>3, <1>4, <3>2
  <2>2. InTurn(p, g) = p BY <1>3, <2>1, InTurnAll
  <2> QED BY <1>1, <1>3, <1>5, <2>2
<1>6. CASE j # k
  <2>1. \A i \in 1..Len(rows), h \in 1..Len(own) : rows[i] # own[h]
    <3>1. CASE j < k
      <4>1. j \in 1..k - 1 BY <3>1
      <4> QED BY <1>1, <4>1 DEF Arranged, Placed
    <3>2. CASE k < j
      <4>1. k \in 1..j - 1 BY <3>2
      <4> QED BY <1>1, <4>1 DEF Arranged, Placed
    <3> QED BY <1>6, <3>1, <3>2
  <2>2. \A i \in 1..Len(p) : g[p[i]] = <<>>
    <3> SUFFICES ASSUME NEW i \in 1..Len(p) PROVE g[p[i]] = <<>> OBVIOUS
    <3>1. ~Contains(own, p[i]) BY <1>4, <2>1 DEF Contains
    <3> QED BY <1>3, <1>4, <3>1
  <2>3. InTurn(p, g) = <<>>
    <3>1. PICK T : T = Event OBVIOUS
    <3>2. g \in [Event -> Seq(T)] BY <1>3, <3>1
    <3> QED BY <2>2, <3>2, InTurnNone
  <2> QED BY <1>1, <1>3, <1>6, <2>3
<1> QED BY <1>5, <1>6

\* Of several beginnings one after the other, those of one file.
LEMMA OwnBeginning ==
  ASSUME NEW fs \in Seq(RootFile), NEW n, Arranged(fs, n), NEW r \in Seq(Seq(Event)),
         Len(r) <= Len(fs), \A j \in 1..Len(r) : Beginning(fs[j], r[j]),
         NEW k \in 1..Len(fs)
  PROVE InTurn(FlattenSeq(r), OfFile(fs[k])) = IF k <= Len(r) THEN r[k] ELSE <<>>
<1> DEFINE g == OfFile(fs[k])
           m == Len(r)
           B == {j \in 0..m : InTurn(FlattenSeq(SubSeq(r, 1, j)), g)
                                = IF k <= j THEN r[k] ELSE <<>>}
<1>1. m \in Nat /\ k \in Nat /\ k # 0 /\ Len(fs) \in Nat OBVIOUS
<1>2. \A j \in 1..m : j \in 1..Len(fs) /\ r[j] \in Seq(Event)
  <2>1. \A j \in 1..m : r[j] \in Seq(Event) OBVIOUS
  <2> QED BY <1>1, <2>1
<1>3. 0 \in B
  <2>1. SubSeq(r, 1, 0) = <<>> BY Firsts
  <2>2. InTurn(FlattenSeq(SubSeq(r, 1, 0)), g) = <<>>
    BY <2>1, FlattenNone, InTurnNothing
  <2>3. 0 \in 0..m /\ ~(k <= 0) BY <1>1
  <2> QED BY <2>2, <2>3
<1>4. ASSUME NEW j \in 0..m - 1, j \in B PROVE j + 1 \in B
  <2>1. PICK x, T : x = r[j + 1] /\ T = Seq(Event) OBVIOUS
  <2>2. PICK a : a = SubSeq(r, 1, j) OBVIOUS
  <2>3. j + 1 \in 1..m /\ a \in Seq(T) /\ SubSeq(r, 1, j + 1) = Append(a, x)
    <3>1. r \in Seq(T) BY <2>1
    <3> QED BY <2>1, <2>2, <3>1, Firsts
  <2>4. x \in Seq(Event) /\ j + 1 \in 1..Len(fs) /\ Beginning(fs[j + 1], x)
    BY <1>2, <2>1, <2>3
  <2>5. a \in Seq(Seq(Event)) BY <2>1, <2>3
  <2>6. PICK f : f = FlattenSeq(a) OBVIOUS
  <2>7. f \in Seq(Event) /\ FlattenSeq(Append(a, x)) = f \o x
    BY <2>4, <2>5, <2>6, FlattenAppend
  <2>8. g \in [Event -> Seq(Event)] /\ InTurn(x, g) = IF j + 1 = k THEN x ELSE <<>>
    BY <2>4, OwnEvents
  <2>9. InTurn(f, g) = IF k <= j THEN r[k] ELSE <<>> BY <1>4, <2>2, <2>6
  <2> HIDE DEF g
  <2>10. InTurn(f \o x, g) = InTurn(f, g) \o InTurn(x, g) /\ InTurn(f, g) \in Seq(Event)
    <3>1. PICK S : S = Event OBVIOUS
    <3>2. g \in [Event -> Seq(S)] BY <2>8, <3>1
    <3>3. InTurn(f \o x, g) = InTurn(f, g) \o InTurn(x, g) /\ InTurn(f, g) \in Seq(S)
      BY <2>4, <2>7, <3>2, InTurnConcat
    <3> QED BY <3>1, <3>3
  <2>11. InTurn(f \o x, g) = IF k <= j + 1 THEN r[k] ELSE <<>>
    <3>1. PICK u : u = InTurn(f, g) OBVIOUS
    <3>2. u \in Seq(Event) /\ u \o <<>> = u /\ <<>> \o x = x BY <2>4, <2>10, <3>1
    <3>3. CASE k <= j
      <4>1. k <= j + 1 /\ j + 1 # k BY <1>1, <2>3, <3>3
      <4> QED BY <2>8, <2>9, <2>10, <3>1, <3>2, <3>3, <4>1
    <3>4. CASE k = j + 1
      <4>1. k <= j + 1 /\ ~(k <= j) BY <1>1, <3>4
      <4> QED BY <2>1, <2>8, <2>9, <2>10, <3>2, <3>4, <4>1
    <3>5. CASE ~(k <= j) /\ k # j + 1
      <4>1. ~(k <= j + 1) BY <1>1, <3>5
      <4> QED BY <2>8, <2>9, <2>10, <3>1, <3>2, <3>5, <4>1
    <3> QED BY <3>3, <3>4, <3>5
  <2>12. j + 1 \in 0..m BY <1>1
  <2> QED BY <2>3, <2>7, <2>11, <2>12
<1>5. m \in B
  <2>1. B \in SUBSET (0..m) OBVIOUS
  <2> HIDE DEF B, m
  <2> QED BY <1>1, <1>3, <1>4, <2>1, UpTo
<1>6. SubSeq(r, 1, m) = r BY Firsts
<1> QED BY <1>5, <1>6

\* What was read in order is shown in order.
LEMMA OrderShown == ASSUME IInv, OrderInv PROVE ShownInOrder
<1> SUFFICES ASSUME fChain
             PROVE  /\ shown = FlattenSeq([k \in DOMAIN dir |-> Shown(k)])
                    /\ \A k \in DOMAIN dir : IsPrefix(Shown(k), dir[k].rows)
                    /\ \A k \in DOMAIN dir : Shown(k) # <<>> => dir[k].run = fCurrentRun
                    /\ skipped = 0 => \A i, j \in DOMAIN dir : \A k \in i..j :
                         Shown(i) # <<>> /\ Shown(j) # <<>> => Shown(k) # <<>>
  BY DEF ShownInOrder
<1>1. PICK fs, c, e, sk, run, n :
        /\ fs = dir /\ c = fBaseFileName /\ e = fEntry /\ sk = skipped /\ n = taken
        /\ run = fCurrentRun
  OBVIOUS
<1>2. /\ fs \in Seq(RootFile) /\ DOMAIN dir = 1..Len(fs) /\ c \in 1..Len(fs) /\ e \in Nat
      /\ Arranged(fs, n) /\ fs[c].run = run /\ Viewed(fs, c, run, e, sk, shown)
      /\ Len(fs) \in Nat /\ Len(fs[c].rows) \in Nat
  <2>1. fs \in Seq(RootFile) /\ DOMAIN dir = 1..Len(fs) /\ c \in 1..Len(fs)
        /\ Len(fs) \in Nat /\ e \in Nat
    BY <1>1 DEF IInv, DiskInv, CountType
  <2>2. Len(fs[c].rows) \in Nat BY <2>1, FileParts
  <2> QED BY <1>1, <2>1, <2>2 DEF OrderInv, DiskOrder, ReadInv, ViewInv
<1>3. e <= Len(fs[c].rows)
  <2>1. PICK x : x = Len(fs[c].rows) OBVIOUS
  <2> QED BY <1>1, <1>2, <2>1 DEF OrderInv, ReadInv
<1>4. PICK r \in Seq(Seq(Event)), a \in Nat :
        /\ Len(r) = c - 1 /\ a <= c /\ Before(fs, c, run, sk, r, a)
        /\ shown = FlattenSeq(r) \o SubSeq(fs[c].rows, 1, e)
  BY <1>2 DEF Viewed
<1>5. PICK x : x = SubSeq(fs[c].rows, 1, e) OBVIOUS
<1>6. x \in Seq(Event) /\ Beginning(fs[c], x)
  <2>1. PICK rows, S : rows = fs[c].rows /\ S = Event OBVIOUS
  <2>2. rows \in Seq(S) /\ e + 0 <= Len(rows) /\ 0 \in Nat BY <1>2, <1>3, <2>1, FileParts
  <2>3. SubSeq(rows, 1, e) \in Seq(S) /\ Len(SubSeq(rows, 1, e)) = e
    BY <1>2, <2>2, NextPiece
  <2> QED BY <1>3, <1>5, <2>1, <2>3 DEF Beginning
<1>7. PICK q, T : q = Append(r, x) /\ T = Seq(Event) OBVIOUS
<1>8. /\ q \in Seq(T) /\ Len(q) = c /\ q[c] = x /\ (\A k \in 1..c - 1 : q[k] = r[k])
      /\ c \in 1..c
  <2>1. r \in Seq(T) /\ x \in T BY <1>4, <1>6, <1>7
  <2>2. /\ q \in Seq(T) /\ Len(q) = Len(r) + 1 /\ q[Len(r) + 1] = x
        /\ \A k \in 1..Len(r) : q[k] = r[k]
    BY <1>7, <2>1
  <2> QED BY <1>2, <1>4, <2>2
<1>9. shown = FlattenSeq(q) BY <1>4, <1>5, <1>6, <1>7, FlattenAppend
<1>10. \A k \in 1..c : k \in 1..c - 1 \/ k = c BY <1>2
<1>11. \A k \in 1..c : q[k] \in Seq(Event) /\ Beginning(fs[k], q[k])
  <2>1. \A k \in 1..c : q[k] \in T BY <1>8
  <2>2. \A k \in 1..c - 1 : Beginning(fs[k], q[k]) BY <1>4, <1>8 DEF Before
  <2> QED BY <1>6, <1>7, <1>8, <1>10, <2>1, <2>2
<1>12. ASSUME NEW k \in 1..Len(fs) PROVE Shown(k) = IF k <= c THEN q[k] ELSE <<>>
  <2>1. Shown(k) = InTurn(shown, OfFile(fs[k])) BY <1>1 DEF Shown, OfFile
  <2>2. q \in Seq(Seq(Event)) /\ Len(q) <= Len(fs)
        /\ \A j \in 1..Len(q) : Beginning(fs[j], q[j])
    BY <1>2, <1>7, <1>8, <1>11
  <2>3. InTurn(FlattenSeq(q), OfFile(fs[k])) = IF k <= Len(q) THEN q[k] ELSE <<>>
    BY <1>2, <2>2, OwnBeginning
  <2> QED BY <1>8, <1>9, <2>1, <2>3
<1>13. shown = FlattenSeq([k \in DOMAIN dir |-> Shown(k)])
  <2>1. PICK z, s : /\ z = [i \in 1..Len(fs) - c |-> <<>>]
                    /\ s = [k \in DOMAIN dir |-> Shown(k)]
    OBVIOUS
  <2>2. z \in Seq(T) /\ Len(z) = Len(fs) - c /\ \A i \in 1..Len(fs) - c : z[i] = <<>>
    <3>1. <<>> \in T BY <1>7, NoElements
    <3>2. PICK l : l = Len(fs) - c OBVIOUS
    <3>3. l \in Nat BY <1>2, <3>2
    <3>4. z = [i \in 1..l |-> <<>>] BY <2>1, <3>2
    <3>5. z \in Seq(T) /\ Len(z) = l /\ \A i \in 1..l : z[i] = <<>> BY <3>1, <3>3, <3>4
    <3> QED BY <3>2, <3>5
  <2>3. /\ q \o z \in Seq(T) /\ Len(q \o z) = Len(fs)
        /\ \A k \in 1..Len(fs) : (q \o z)[k] = IF k <= c THEN q[k] ELSE <<>>
    <3>1. /\ q \o z \in Seq(T) /\ Len(q \o z) = Len(q) + Len(z)
          /\ \A k \in 1..Len(q) + Len(z) :
               (q \o z)[k] = IF k <= Len(q) THEN q[k] ELSE z[k - Len(q)]
      BY <1>8, <2>2, ConcatProperties
    <3>2. Len(q) + Len(z) = Len(fs) BY <1>2, <1>8, <2>2
    <3>3. \A k \in 1..Len(fs) : ~(k <= c) => k - c \in 1..Len(fs) - c BY <1>2
    <3>4. \A k \in 1..Len(fs) : (q \o z)[k] = IF k <= c THEN q[k] ELSE z[k - c]
      BY <1>8, <3>1, <3>2
    <3>5. \A k \in 1..Len(fs) : ~(k <= c) => z[k - c] = <<>> BY <2>2, <3>3
    <3>6. \A k \in 1..Len(fs) : (q \o z)[k] = IF k <= c THEN q[k] ELSE <<>>
      BY <3>4, <3>5
    <3> QED BY <3>1, <3>2, <3>6
  <2>4. s = q \o z
    <3>1. DOMAIN s = 1..Len(fs) /\ \A k \in 1..Len(fs) : s[k] = IF k <= c THEN q[k] ELSE <<>>
      BY <1>2, <1>12, <2>1
    <3>2. s = [k \in 1..Len(fs) |-> s[k]] BY <2>1, <1>2
    <3>3. PICK t : t = q \o z OBVIOUS
    <3>4. t \in Seq(T) /\ Len(t) = Len(fs) BY <2>3, <3>3
    <3>5. t = [k \in 1..Len(fs) |-> t[k]] BY <3>4
    <3>6. \A k \in 1..Len(fs) : s[k] = t[k] BY <2>3, <3>1, <3>3
    <3> QED BY <3>2, <3>3, <3>5, <3>6
  <2>5. FlattenSeq(z) = <<>> BY <1>7, <2>2, FlattenEmpty
  <2>6. FlattenSeq(q \o z) = FlattenSeq(q) \o FlattenSeq(z) /\ FlattenSeq(q) \in Seq(Event)
    BY <1>7, <1>8, <2>2, FlattenConcat
  <2>7. FlattenSeq(q) \o <<>> = FlattenSeq(q)
    <3>1. PICK u : u = FlattenSeq(q) OBVIOUS
    <3> QED BY <2>6, <3>1
  <2> QED BY <1>9, <2>1, <2>4, <2>5, <2>6, <2>7
<1>14. ASSUME NEW k \in 1..Len(fs) PROVE IsPrefix(Shown(k), fs[k].rows)
  <2>1. PICK rows : rows = fs[k].rows OBVIOUS
  <2>2. rows \in Seq(Event) /\ Len(rows) \in Nat BY <1>2, <2>1, FileParts
  <2>3. CASE k <= c
    <3>1. PICK p : p = q[k] OBVIOUS
    <3>2. k \in 1..c BY <1>2, <2>3
    <3>3. p \in Seq(Event) /\ Beginning(fs[k], p) BY <1>11, <3>1, <3>2
    <3>4. Len(p) <= Len(rows) /\ p = SubSeq(rows, 1, Len(p))
      BY <2>1, <3>3 DEF Beginning
    <3>5. SubSeq(p, 1, Len(p)) = p BY <3>3
    <3>6. IsPrefix(p, rows) BY <3>4, <3>5 DEF IsPrefix
    <3> QED BY <1>12, <2>1, <2>3, <3>1, <3>6
  <2>4. CASE ~(k <= c)
    <3>1. /\ Len(<<>>) = 0 /\ 0 <= Len(rows) /\ SubSeq(rows, 1, 0) = <<>>
          /\ SubSeq(<<>>, 1, 0) = <<>>
      BY <2>2
    <3>2. IsPrefix(<<>>, rows) BY <3>1 DEF IsPrefix
    <3> QED BY <1>12, <2>1, <2>4, <3>2
  <2> QED BY <2>3, <2>4
<1>15. ASSUME NEW k \in 1..Len(fs), Shown(k) # <<>>
       PROVE /\ k <= c /\ k >= a /\ fs[k].run = run
  <2>1. k <= c /\ q[k] # <<>> BY <1>12, <1>15
  <2>2. CASE k = c
    <3>1. c >= a /\ c <= c BY <1>2, <1>4
    <3> QED BY <1>2, <2>2, <3>1
  <2>3. CASE k # c
    <3>1. k \in 1..c - 1 BY <1>2, <2>1, <2>3
    <3>2. ~(k < a) /\ (k >= a => fs[k].run = run) BY <1>4, <1>8, <2>1, <3>1 DEF Before
    <3>3. k >= a BY <1>4, <3>2
    <3> QED BY <2>1, <3>2, <3>3
  <2> QED BY <2>2, <2>3
<1>16. ASSUME sk = 0, NEW i \in 1..Len(fs), NEW j \in 1..Len(fs), NEW k \in i..j,
              Shown(i) # <<>>, Shown(j) # <<>>
       PROVE Shown(k) # <<>>
  <2>1. i >= a /\ j <= c BY <1>15, <1>16
  <2>2. k \in 1..Len(fs) /\ k <= c /\ k >= a BY <1>2, <1>4, <2>1
  <2>3. CASE k = c
    <3>1. j = k BY <1>2, <2>1, <2>3
    <3> QED BY <1>16, <3>1
  <2>4. CASE k # c
    <3>1. k \in 1..c - 1 BY <1>2, <2>2, <2>4
    <3>2. r[k] # <<>> BY <1>4, <1>16, <2>2, <3>1 DEF Before
    <3> QED BY <1>8, <1>12, <2>2, <3>1, <3>2
  <2> QED BY <2>3, <2>4
<1>17. \A k \in DOMAIN dir : IsPrefix(Shown(k), dir[k].rows) BY <1>1, <1>2, <1>14
<1>18. \A k \in DOMAIN dir : Shown(k) # <<>> => dir[k].run = fCurrentRun
  BY <1>1, <1>2, <1>15
<1>19. skipped = 0 => \A i, j \in DOMAIN dir : \A k \in i..j :
         Shown(i) # <<>> /\ Shown(j) # <<>> => Shown(k) # <<>>
  BY <1>1, <1>2, <1>16
<1> QED BY <1>13, <1>17, <1>18, <1>19

\* The display shows the events of one run, file after file, of each file from the
\* first event on and without a gap, however the files grow, follow each other and
\* are opened.
THEOREM ShownInOrderHolds == Spec => []ShownInOrder
BY Counted, Ordered, OrderShown, PTL

(***************************************************************************)
(* Types.                                                                  *)
(***************************************************************************)
\* What the display is set to, and the bounds of what is counted here.
SettingType == /\ taken \in 0..MaxEvents /\ mode \in {"up", "down", "crashed"}
               /\ fIsRunning \in BOOLEAN /\ fCheckNextRun \in BOOLEAN
               /\ config.auto \in BOOLEAN
               /\ ops \in 0..MaxOps /\ invalid \in 0..MaxInvalid

LEMMA ShowInvalid ==
  ASSUME SettingType, NEW f, NEW e, NEW m, NEW sh, ShowEvents(f, e, m, sh)
  PROVE invalid' \in 0..MaxInvalid
<1>1. invalid' = invalid \/ (invalid < MaxInvalid /\ invalid' = invalid + 1)
  BY DEF ShowEvents
<1> QED BY <1>1, BoundAssumption DEF SettingType

LEMMA LoadInvalid ==
  ASSUME SettingType, NEW f, NEW newRun, NEW e, NEW m, NEW sh,
         LoadDataFile(f, newRun, e, m, sh)
  PROVE invalid' \in 0..MaxInvalid
<1>1. CASE dir[f].rows = <<>>
  BY <1>1 DEF LoadDataFile, GiveUp, SettingType
<1>2. CASE dir[f].rows # <<>>
  <2>1. ShowEvents(f, 0, Reset(m), <<>>) \/ ShowEvents(f, 0, m, sh)
    BY <1>2 DEF LoadDataFile
  <2>2. PICK mm, s : ShowEvents(f, 0, mm, s) BY <2>1
  <2> QED BY <2>2, ShowInvalid
<1> QED BY <1>1, <1>2

LEMMA CheckInvalid ==
  ASSUME SettingType, NEW offset, CheckNewFile(offset)
  PROVE invalid' \in 0..MaxInvalid /\ mode' \in {mode, "crashed"}
<1> DEFINE subrun == Named(fCurrentRun, fCurrentSubrun + 1)
           run == Named(fCurrentRun + offset, 1)
<1>1. CASE /\ UNCHANGED mode
           /\ \E f \in subrun : LoadDataFile(f, FALSE, fEntry, maps, shown)
  <2>1. PICK f, m, sh, e : LoadDataFile(f, FALSE, e, m, sh) BY <1>1
  <2> QED BY <1>1, <2>1, LoadInvalid
<1>2. CASE mode' = "crashed" /\ UNCHANGED readVars
  BY <1>2 DEF readVars, SettingType
<1>3. CASE UNCHANGED mode /\ \E f \in run : LoadDataFile(f, TRUE, fEntry, Reset(maps), <<>>)
  <2>1. PICK f, m, sh, e : LoadDataFile(f, TRUE, e, m, sh) BY <1>3
  <2> QED BY <1>3, <2>1, LoadInvalid
<1> QED BY <1>1, <1>2, <1>3 DEF CheckNewFile

LEMMA NextSettings == SettingType /\ [Next]_vars => SettingType'
<1> SUFFICES ASSUME SettingType, [Next]_vars PROVE SettingType'
  OBVIOUS
<1> USE DEF SettingType
<1>1. ASSUME User PROVE ops' \in 0..MaxOps /\ taken' = taken
  BY <1>1, BoundAssumption DEF User, diskVars
<1>2. CASE WriteFiles
  <2>1. taken' \in 0..MaxEvents
    <3>1. CASE UNCHANGED taken BY <3>1
    <3>2. CASE \E n \in 1..MaxEvents - taken : taken' = taken + n
      <4>1. PICK n \in 1..MaxEvents - taken : taken' = taken + n BY <3>2
      <4> QED BY <4>1, BoundAssumption
    <3> QED BY <1>2, <3>1, <3>2 DEF WriteFiles
  <2> QED BY <1>2, <2>1 DEF WriteFiles, settings, readVars
<1>3. CASE NextEvent
  <2>1. invalid' \in 0..MaxInvalid
    <3>1. PICK f, e, m, sh : ShowEvents(f, e, m, sh) BY <1>3 DEF NextEvent
    <3> QED BY <3>1, ShowInvalid
  <2> QED BY <1>3, <2>1 DEF NextEvent, settings, diskVars
<1>4. CASE CheckForNewData
  <2>1. CheckNewFile(1) BY <1>4 DEF CheckForNewData
  <2>2. invalid' \in 0..MaxInvalid /\ mode' \in {mode, "crashed"} BY <2>1, CheckInvalid
  <2> QED BY <1>4, <2>2 DEF CheckForNewData, settings, diskVars
<1>5. CASE ReloadRun
  <2>1. CheckNewFile(0) /\ User BY <1>5 DEF ReloadRun
  <2>2. invalid' \in 0..MaxInvalid /\ mode' \in {mode, "crashed"} BY <2>1, CheckInvalid
  <2> QED BY <1>1, <1>5, <2>1, <2>2 DEF ReloadRun, settings
<1>6. CASE OpenFile
  <2>1. PICK f, e, m, sh : LoadDataFile(f, TRUE, e, m, sh) BY <1>6 DEF OpenFile
  <2>2. invalid' \in 0..MaxInvalid BY <2>1, LoadInvalid
  <2> QED BY <1>1, <1>6, <2>2 DEF OpenFile, settings
<1>7. CASE LoadDecoding
  BY <1>1, <1>7 DEF LoadDecoding
<1>8. CASE ManualReset \/ UpdateRange
  BY <1>1, <1>8 DEF ManualReset, UpdateRange, settings
<1>9. CASE ToggleAuto \/ CheckNextRun
  BY <1>1, <1>9 DEF ToggleAuto, CheckNextRun, readVars
<1>10. CASE DoExit
  <2>1. config'.auto = fCheckNextRun BY <1>10 DEF DoExit
  <2> QED BY <1>1, <1>10, <2>1 DEF DoExit, settings, readVars
<1>11. CASE Start
  <2>1. invalid' \in 0..MaxInvalid
    <3>1. CASE config.file # 0
      <4>1. PICK f, m : LoadDataFile(f, TRUE, 0, m, <<>>) BY <1>11, <3>1 DEF Start
      <4> QED BY <4>1, LoadInvalid
    <3>2. CASE config.file = 0
      BY <1>11, <3>2 DEF Start
    <3> QED BY <3>1, <3>2
  <2> QED BY <1>11, <2>1 DEF Start, diskVars
<1>12. CASE UNCHANGED vars
  BY <1>12 DEF vars, diskVars, settings, readVars
<1> QED BY <1>2, <1>3, <1>4, <1>5, <1>6, <1>7, <1>8, <1>9, <1>10, <1>11, <1>12 DEF Next

LEMMA InitSettings == Init => SettingType
<1> SUFFICES ASSUME Init PROVE SettingType
  OBVIOUS
<1>1. /\ taken = 0 /\ mode = "down" /\ fIsRunning = FALSE /\ fCheckNextRun = FALSE
      /\ config.auto = FALSE /\ ops = 0 /\ invalid = 0
  BY DEF Init
<1>2. 0 \in 0..MaxEvents /\ 0 \in 0..MaxOps /\ 0 \in 0..MaxInvalid BY BoundAssumption
<1> QED BY <1>1, <1>2 DEF SettingType

\* Every variable keeps its type; in particular, the display has not read more
\* entries than it counted, nor counted more than the file has.
THEOREM TypeCorrect == Spec => []TypeOK
<1>1. ASSUME IInv, MapsInv, OrderInv, SettingType PROVE TypeOK
  <2>1. /\ fDecodingMap \in Decodings \cup {NoDecoding}
        /\ fLastDecoFile \in Decodings \cup {NoDecoding}
    BY <1>1 DEF MapsInv, DecoInv, AnyDecoding
  <2>2. \A s \in DOMAIN maps : maps[s] \in Map BY <1>1 DEF MapsInv, Matches, Typed
  <2>3. /\ fBaseFileName \in 0..Len(dir) /\ fEntry \in Nat /\ shown \in Seq(Event)
        /\ fChain => fBaseFileName # 0
    BY <1>1 DEF IInv, DiskInv, CountType
  <2>4. /\ fChain => fEntry <= entries /\ entries \in 1..Len(dir[fBaseFileName].rows)
        /\ fCumulativeEntries \in Nat /\ skipped \in Nat
    BY <1>1 DEF OrderInv, ReadInv
  <2> QED BY <1>1, <2>1, <2>2, <2>3, <2>4 DEF TypeOK, SettingType
<1>2. Spec => []SettingType BY InitSettings, NextSettings, PTL DEF Spec
<1> QED BY <1>1, <1>2, Counted, Filling, Ordered, PTL
===============================================================================
