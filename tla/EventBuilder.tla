----------------------------- MODULE EventBuilder -----------------------------
(***************************************************************************)
(* The path of the data of an ARC or FEMINOS run: the receiver thread of   *)
(* each FEM appends data frames to FEM.tmpBuffer, the event builder thread *)
(* moves them to FEM.buffer, closes one event of each FEM at a time and    *)
(* stores the merged event.  The main thread starts and stops the run.     *)
(*                                                                         *)
(* An event of a FEM travels as Parts frames: the first holds the start of *)
(* event word and the hits, the last the end of event word.  Each FEM has  *)
(* one channel.  A frame keeps the run and the number of its event.        *)
(***************************************************************************)
EXTENDS Integers, Sequences, FiniteSetsExt

CONSTANTS
  N,           \* number of FEMs in FEMArray
  Parts,       \* frames of an event
  Trailer,     \* whether an end of frame word follows the end of event (ARC)
  Hits,        \* events <<f, ev>> of which FEM f has a signal
  MaxDrain,    \* passes of the builder after the stop (500)
  MaxRuns,     \* bound: runs started
  MaxEvents,   \* bound: events triggered in a run
  MaxInFlight, \* bound: frames of one FEM in the network
  MaxLost      \* bound: frames and stop commands lost

FEM == 1..N

ASSUME SizeAssumption == /\ N \in Nat \ {0} /\ Parts \in Nat \ {0}
                         /\ MaxDrain \in Nat \ {0} /\ Trailer \in BOOLEAN
ASSUME HitsAssumption == Hits \subseteq FEM \X Nat
ASSUME BoundAssumption == /\ MaxRuns \in Nat /\ MaxEvents \in Nat
                          /\ MaxInFlight \in Nat /\ MaxLost \in Nat

VARIABLES
  main,             \* what the main thread does
  daq,              \* daq[f]: SendDAQCmdThread of f
  active,           \* FEM.active
  stopRun,          \* abrt \/ stopRun
  stopEventBuilder,
  runs,             \* runs started
  armed, next,      \* external: whether f may send frames, and its next frame
  socket,           \* frames in the network and the socket's queue, in order
  tmpBuffer, buffer, bufferIndex, pendingEvent,   \* fields of FEMProxy
  bpc, cur, newEvent, emptyBuffer, tC, ev_count,  \* the builder and its locals
  sEvent,           \* sEvent[f]: the signal added for the channel of f
  lost,             \* frames and stop commands lost
  closed, rows, saved,  \* history of the run: events closed, merged, stored
  calm,             \* history: nothing could arrive during the last pass
  quiet             \* history: nothing of an earlier run was left at the start

mainVars == <<main, active, stopEventBuilder, runs, quiet>>
daqVars == <<daq, stopRun>>
femVars == <<armed, next>>
dataVars == <<buffer, bufferIndex, pendingEvent, ev_count, sEvent>>
loopVars == <<bpc, cur, newEvent, emptyBuffer, tC, calm>>
histVars == <<closed, rows, saved>>
vars == <<mainVars, daqVars, femVars, socket, tmpBuffer, dataVars, loopVars,
          histVars, lost>>

None == [run |-> 0, ev |-> 0]
Frame(r, e, p) == [run |-> r, ev |-> e, part |-> p]
Tags == [run : 0..MaxRuns, ev : 0..MaxEvents + 1]
Frames == [run : 0..MaxRuns, ev : 1..MaxEvents + 1, part : 1..Parts + 1]

Init == /\ main = "idle" /\ daq = [f \in FEM |-> "off"] /\ active = FEM
        /\ stopRun = FALSE /\ stopEventBuilder = FALSE /\ runs = 0
        /\ armed = [f \in FEM |-> FALSE]
        /\ next = [f \in FEM |-> Frame(0, 1, 1)]
        /\ socket = [f \in FEM |-> <<>>]
        /\ tmpBuffer = [f \in FEM |-> <<>>] /\ buffer = [f \in FEM |-> <<>>]
        /\ bufferIndex = [f \in FEM |-> 0] /\ pendingEvent = [f \in FEM |-> TRUE]
        /\ bpc = "done" /\ cur = 1 /\ newEvent = TRUE /\ emptyBuffer = TRUE
        /\ tC = 0 /\ ev_count = 0 /\ sEvent = [f \in FEM |-> None]
        /\ lost = 0 /\ closed = [f \in FEM |-> <<>>] /\ rows = 0 /\ saved = <<>>
        /\ calm = FALSE /\ quiet = TRUE

(***************************************************************************)
(* The front ends and the network.                                         *)
(***************************************************************************)
Following(p) == IF p.part < Parts THEN Frame(p.run, p.ev, p.part + 1)
                ELSE Frame(p.run, p.ev + 1, 1)

\* External: an armed FEM sends the next frame of the events triggered so far.
Emit(f) == /\ armed[f] /\ next[f].ev <= MaxEvents
           /\ Len(socket[f]) < MaxInFlight
           /\ socket' = [socket EXCEPT ![f] = Append(@, next[f])]
           /\ next' = [next EXCEPT ![f] = Following(@)]
           /\ UNCHANGED <<mainVars, daqVars, armed, tmpBuffer, dataVars, loopVars,
                          histVars, lost>>

LoseFrame(f) == /\ socket[f] # <<>> /\ lost < MaxLost /\ lost' = lost + 1
                /\ socket' = [socket EXCEPT ![f] = Tail(@)]
                /\ UNCHANGED <<mainVars, daqVars, femVars, tmpBuffer, dataVars,
                               loopVars, histVars>>

\* The words of a frame: the end of frame word comes after the last one.
Words(d) == IF Trailer /\ d.part = Parts
              THEN <<d, Frame(d.run, d.ev, Parts + 1)>> ELSE <<d>>

(***************************************************************************)
(* FEMReceiverThread, data frames: a frame is appended under the lock.     *)
(***************************************************************************)
RecvDataFrame(f) ==
  /\ socket[f] # <<>>
  /\ tmpBuffer' = [tmpBuffer EXCEPT ![f] = @ \o Words(Head(socket[f]))]
  /\ socket' = [socket EXCEPT ![f] = Tail(@)]
  /\ UNCHANGED <<mainVars, daqVars, femVars, dataVars, loopVars, histVars, lost>>

(***************************************************************************)
(* The main thread: the fem command, startDAQ and stopDAQ, and the threads *)
(* that startDAQ waits for.                                                *)
(***************************************************************************)
\* setActiveFEM: every FEM, the one asked for, or none when it is not found.
\* Only the next startDAQ of this module reads it.
SetActiveFEM == /\ main = "idle" /\ runs < MaxRuns
                /\ active' \in {FEM, {}} \cup {{f} : f \in FEM}
                /\ UNCHANGED <<main, stopEventBuilder, runs, quiet, daqVars, femVars,
                               socket, tmpBuffer, dataVars, loopVars, histVars, lost>>

NothingLeft == \A f \in FEM : ~armed[f] /\ socket[f] = <<>> /\ tmpBuffer[f] = <<>>

\* The flags are reset, then the builder and the threads of the active FEMs
\* are started.
StartDAQ == /\ main = "idle" /\ runs < MaxRuns
            /\ main' = "run" /\ runs' = runs + 1
            /\ stopEventBuilder' = FALSE /\ stopRun' = FALSE
            /\ bpc' = "init" /\ calm' = FALSE
            /\ daq' = [f \in FEM |-> IF f \in active THEN "enter" ELSE "off"]
            /\ closed' = [f \in FEM |-> <<>>] /\ rows' = 0 /\ saved' = <<>>
            /\ quiet' = NothingLeft
            /\ UNCHANGED <<active, femVars, socket, tmpBuffer, dataVars, cur,
                           newEvent, emptyBuffer, tC, lost>>

\* SendDAQCmdThread clears tmpBuffer without the lock, so that a clear that
\* overlaps an insertion may be lost, and asks for the first frames.
EnterDAQ(f) == /\ daq[f] = "enter" /\ daq' = [daq EXCEPT ![f] = "on"]
               /\ \/ tmpBuffer' = [tmpBuffer EXCEPT ![f] = <<>>]
                  \/ socket[f] # <<>> /\ UNCHANGED tmpBuffer
               /\ armed' = [armed EXCEPT ![f] = TRUE]
               /\ next' = [next EXCEPT ![f] = Frame(runs, 1, 1)]
               /\ UNCHANGED <<mainVars, stopRun, socket, dataVars, loopVars, histVars,
                              lost>>

\* UpdateThread reaches a limit of the run, or SIGINT arrives.
StopRun == /\ main \in {"run", "ran"} /\ ~stopRun /\ stopRun' = TRUE
           /\ UNCHANGED <<mainVars, daq, femVars, socket, tmpBuffer, dataVars,
                          loopVars, histVars, lost>>

\* The thread sees the stop and sends "daq 0", which may be lost.
LeaveDAQ(f) == /\ daq[f] = "on" /\ stopRun
               /\ daq' = [daq EXCEPT ![f] = "off"]
               /\ \/ armed' = [armed EXCEPT ![f] = FALSE] /\ UNCHANGED lost
                  \/ lost < MaxLost /\ lost' = lost + 1 /\ UNCHANGED armed
               /\ UNCHANGED <<mainVars, stopRun, next, socket, tmpBuffer, dataVars,
                              loopVars, histVars>>

\* Every f.get() has returned; no thread was started when no FEM is active.
ReturnDAQ == /\ main = "run" /\ \A f \in FEM : daq[f] = "off"
             /\ main' = "ran"
             /\ UNCHANGED <<active, stopEventBuilder, runs, quiet, daqVars, femVars,
                            socket, tmpBuffer, dataVars, loopVars, histVars, lost>>

\* stopDAQ first waits for UpdateThread, which ends once the run is stopped.
StopDAQ == /\ main = "ran" /\ stopRun /\ main' = "join" /\ stopEventBuilder' = TRUE
           /\ UNCHANGED <<active, runs, quiet, daqVars, femVars, socket, tmpBuffer,
                          dataVars, loopVars, histVars, lost>>

JoinBuilder == /\ main = "join" /\ bpc = "done" /\ main' = "idle"
               /\ UNCHANGED <<active, stopEventBuilder, runs, quiet, daqVars, femVars,
                              socket, tmpBuffer, dataVars, loopVars, histVars, lost>>

(***************************************************************************)
(* EventBuilder.                                                           *)
(***************************************************************************)
\* Mutant of InitFEMs: buffer keeps the words of the run before.
InitKeepsBuffer ==
  /\ bpc = "init" /\ bpc' = "head"
  /\ newEvent' = TRUE /\ emptyBuffer' = TRUE /\ tC' = 0 /\ ev_count' = 0
  /\ bufferIndex' = [f \in FEM |-> 0] /\ pendingEvent' = [f \in FEM |-> TRUE]
  /\ UNCHANGED <<mainVars, daqVars, femVars, socket, tmpBuffer, buffer, sEvent, cur,
                 calm, histVars, lost>>

InitFEMs == /\ bpc = "init" /\ bpc' = "head"
            /\ newEvent' = TRUE /\ emptyBuffer' = TRUE /\ tC' = 0 /\ ev_count' = 0
            /\ bufferIndex' = [f \in FEM |-> 0]
            /\ pendingEvent' = [f \in FEM |-> TRUE]
            /\ buffer' = [f \in FEM |-> <<>>]
            /\ UNCHANGED <<mainVars, daqVars, femVars, socket, tmpBuffer, sEvent, cur,
                           calm, histVars, lost>>

\* Mutant of Finished: the stop does not wait for the buffers to be empty.
FinishedAtOnce == stopEventBuilder

\* while (!(emptyBuffer && stopEventBuilder))
Finished == emptyBuffer /\ stopEventBuilder

TestLoop ==
  /\ bpc = "head"
  /\ \/ Finished /\ bpc' = "done" /\ UNCHANGED <<cur, newEvent, emptyBuffer, calm>>
     \/ /\ ~Finished /\ bpc' = "fem" /\ cur' = 1
        /\ emptyBuffer' = TRUE /\ newEvent' = TRUE
        /\ calm' = \A f \in FEM : socket[f] = <<>> /\ ~armed[f] /\ daq[f] = "off"
  /\ UNCHANGED <<mainVars, daqVars, femVars, socket, tmpBuffer, dataVars, tC,
                 histVars, lost>>

\* Mutant of Ends: the scan resumes one word too late.
EndsLate(b, idx) == {k \in idx + 2..Len(b) : b[k].part = Parts}

\* Mutant of Ends: the last end of event is taken, not the first one.
EndsLast(b, idx) == {k \in idx + 1..Len(b) :
                       b[k].part = Parts /\ \A j \in k + 1..Len(b) : b[j].part # Parts}

\* TryExtractNextEvent: ends of event in b that were not scanned before.
Ends(b, idx) == {k \in idx + 1..Len(b) : b[k].part = Parts}

\* ParseEventFromWords: the starts of event of a block, and those with a hit.
Starts(block) == {k \in DOMAIN block : block[k].part = 1}
HitStarts(f, block) == {k \in Starts(block) : <<f, block[k].ev>> \in Hits}

\* The signal of a block: AddSignal keeps the first one of a channel.
SignalOf(f, block) ==
  IF HitStarts(f, block) = {} THEN None
  ELSE LET d == block[Min(HitStarts(f, block))] IN [run |-> d.run, ev |-> d.ev]

\* The words up to the first end of event leave the buffer b and are parsed.
CloseEvent(f, b, block) ==
  /\ buffer' = [buffer EXCEPT ![f] = SubSeq(b, Len(block) + 1, Len(b))]
  /\ bufferIndex' = [bufferIndex EXCEPT ![f] = 0]
  /\ pendingEvent' = [pendingEvent EXCEPT ![f] = FALSE]
  /\ ev_count' = IF Starts(block) = {} THEN ev_count
                 ELSE block[Max(Starts(block))].ev
  /\ sEvent' = [sEvent EXCEPT ![f] = IF @ = None THEN SignalOf(f, block) ELSE @]
  /\ closed' = [closed EXCEPT ![f] = Append(@, SignalOf(f, block))]

\* There is no end of event yet, or the last event of f waits for the others.
KeepWaiting(f, b) ==
  /\ buffer' = [buffer EXCEPT ![f] = b]
  /\ bufferIndex' = [bufferIndex EXCEPT ![f] =
                       IF pendingEvent[f] /\ b # <<>> THEN Len(b) ELSE @]
  /\ UNCHANGED <<pendingEvent, ev_count, sEvent, closed>>

\* One turn of the loop over the FEMs.  Only the move of tmpBuffer, under the
\* lock, touches what another thread uses.
BuildFEM(f) ==
  LET b == buffer[f] \o tmpBuffer[f]
      ends == IF pendingEvent[f] THEN Ends(b, bufferIndex[f]) ELSE {}
  IN /\ bpc = "fem" /\ cur = f
     /\ tmpBuffer' = [tmpBuffer EXCEPT ![f] = <<>>]
     /\ emptyBuffer' = (emptyBuffer /\ b = <<>>)
     /\ \/ ends = {} /\ KeepWaiting(f, b)
        \/ ends # {} /\ CloseEvent(f, b, SubSeq(b, 1, Min(ends)))
     /\ newEvent' = (newEvent /\ ~pendingEvent'[f])
     /\ IF f = N THEN bpc' = "save" /\ UNCHANGED cur
                 ELSE cur' = f + 1 /\ UNCHANGED bpc
     /\ UNCHANGED <<mainVars, daqVars, femVars, socket, tC, calm, rows, saved, lost>>

HasSignal(s) == \E f \in FEM : s[f] # None

\* Mutant of SaveEvent: the FEMs are released only when the event is stored.
SaveReleasesStored ==
  /\ bpc = "save" /\ bpc' = "tail"
  /\ \/ /\ newEvent /\ rows' = rows + 1 /\ HasSignal(sEvent)
        /\ pendingEvent' = [f \in FEM |-> TRUE]
        /\ saved' = Append(saved, [id |-> ev_count, sig |-> sEvent])
        /\ sEvent' = [f \in FEM |-> None]
     \/ /\ newEvent /\ rows' = rows + 1 /\ ~HasSignal(sEvent)
        /\ UNCHANGED <<pendingEvent, saved, sEvent>>
     \/ ~newEvent /\ UNCHANGED <<rows, pendingEvent, saved, sEvent>>
  /\ UNCHANGED <<mainVars, daqVars, femVars, socket, tmpBuffer, buffer, bufferIndex,
                 ev_count, cur, newEvent, emptyBuffer, tC, calm, closed, lost>>

\* Mutant of SaveEvent: the signals stay for the next event.
SaveKeepsSignals ==
  /\ bpc = "save" /\ bpc' = "tail"
  /\ \/ /\ newEvent /\ rows' = rows + 1
        /\ pendingEvent' = [f \in FEM |-> TRUE]
        /\ saved' = IF HasSignal(sEvent)
                      THEN Append(saved, [id |-> ev_count, sig |-> sEvent]) ELSE saved
     \/ ~newEvent /\ UNCHANGED <<rows, pendingEvent, saved>>
  /\ UNCHANGED <<mainVars, daqVars, femVars, socket, tmpBuffer, buffer, bufferIndex,
                 ev_count, sEvent, cur, newEvent, emptyBuffer, tC, calm, closed, lost>>

\* The event is stored, if it has signals, once it is closed in every FEM.
SaveEvent ==
  /\ bpc = "save" /\ bpc' = "tail"
  /\ \/ /\ newEvent /\ rows' = rows + 1
        /\ pendingEvent' = [f \in FEM |-> TRUE]
        /\ saved' = IF HasSignal(sEvent)
                      THEN Append(saved, [id |-> ev_count, sig |-> sEvent]) ELSE saved
        /\ sEvent' = [f \in FEM |-> None]
     \/ ~newEvent /\ UNCHANGED <<rows, pendingEvent, saved, sEvent>>
  /\ UNCHANGED <<mainVars, daqVars, femVars, socket, tmpBuffer, buffer, bufferIndex,
                 ev_count, cur, newEvent, emptyBuffer, tC, calm, closed, lost>>

\* Mutant of CountPass: the passes are not counted.
CountPassNever ==
  /\ bpc = "tail" /\ bpc' = "head"
  /\ UNCHANGED <<mainVars, daqVars, femVars, socket, tmpBuffer, dataVars, cur,
                 newEvent, emptyBuffer, tC, calm, histVars, lost>>

\* The builder gives up MaxDrain passes after the stop.
CountPass == /\ bpc = "tail"
             /\ tC' = IF stopEventBuilder THEN tC + 1 ELSE tC
             /\ bpc' = IF stopEventBuilder /\ tC' >= MaxDrain THEN "done" ELSE "head"
             /\ UNCHANGED <<mainVars, daqVars, femVars, socket, tmpBuffer, dataVars, cur,
                            newEvent, emptyBuffer, calm, histVars, lost>>

Builder == \/ InitFEMs \/ TestLoop \/ SaveEvent \/ CountPass
           \/ \E f \in FEM : BuildFEM(f)

Next == \/ Builder
        \/ SetActiveFEM \/ StartDAQ \/ StopRun \/ ReturnDAQ \/ StopDAQ \/ JoinBuilder
        \/ \E f \in FEM : \/ Emit(f) \/ LoseFrame(f) \/ RecvDataFrame(f)
                          \/ EnterDAQ(f) \/ LeaveDAQ(f)

Spec == Init /\ [][Next]_vars

\* The builder and the receiver threads are scheduled; users, triggers and
\* the network owe nothing.
FairSpec == Spec /\ WF_vars(Builder) /\ \A f \in FEM : WF_vars(RecvDataFrame(f))

(***************************************************************************)
(* Properties.                                                             *)
(***************************************************************************)
BuilderSteps == {"init", "head", "fem", "save", "tail", "done"}

FlagsOK == /\ stopRun \in BOOLEAN /\ stopEventBuilder \in BOOLEAN
           /\ newEvent \in BOOLEAN /\ emptyBuffer \in BOOLEAN
           /\ calm \in BOOLEAN /\ quiet \in BOOLEAN

MainOK == /\ main \in {"idle", "run", "ran", "join"} /\ active \in SUBSET FEM
          /\ runs \in 0..MaxRuns /\ lost \in 0..MaxLost
          /\ daq \in [FEM -> {"off", "enter", "on"}]

NetOK == /\ armed \in [FEM -> BOOLEAN] /\ next \in [FEM -> Frames]
         /\ socket \in [FEM -> Seq(Frames)] /\ tmpBuffer \in [FEM -> Seq(Frames)]

LoopOK == bpc \in BuilderSteps /\ cur \in FEM /\ tC \in 0..MaxDrain

DataOK == /\ buffer \in [FEM -> Seq(Frames)] /\ bufferIndex \in [FEM -> Nat]
          /\ pendingEvent \in [FEM -> BOOLEAN] /\ sEvent \in [FEM -> Tags]
          /\ closed \in [FEM -> Seq(Tags)] /\ rows \in Nat

TypeOK == FlagsOK /\ MainOK /\ NetOK /\ LoopOK /\ DataOK

\* The scan of a FEM's buffer never skips an end of event and never points
\* past the buffer, however the frames are batched between two passes.
ScanResumes == bpc # "init" => \A f \in FEM :
  /\ bufferIndex[f] <= Len(buffer[f])
  /\ pendingEvent[f] => \A k \in 1..bufferIndex[f] : buffer[f][k].part # Parts

\* A FEM is never more than one event ahead of the merge, and it is exactly
\* one ahead while its closed event waits for the other FEMs.
InStep == bpc # "init" => \A f \in FEM :
  Len(closed[f]) = rows + (IF pendingEvent[f] THEN 0 ELSE 1)

\* While no frame was lost, each event stored by a first run holds the
\* signals of one event of the front ends, and carries its number.
EventsAligned == (runs = 1 /\ lost = 0) =>
  \A i \in DOMAIN saved : \A f \in FEM :
    saved[i].sig[f] = IF <<f, saved[i].id>> \in Hits
                        THEN [run |-> 1, ev |-> saved[i].id] ELSE None

\* The numbers of the events that a stored event says, or has signals, of.
Numbers(event) == {event.id} \cup {event.sig[f].ev : f \in {g \in FEM : event.sig[g] # None}}

\* A lost end of event joins two events of its FEM, whose later events are then
\* merged one too early.  That is all that a loss does: in a first run the number
\* and the signals of a stored event are of events no further apart than frames,
\* or stop commands, were lost.
ShiftedByLosses == runs = 1 =>
  \A i \in DOMAIN saved : \A d, e \in Numbers(saved[i]) : d - e <= lost

\* The builder begins with empty buffers, whatever the one before it gave up: a
\* run that starts when nothing of an earlier run is left in the network or in
\* tmpBuffer never has a frame of an earlier run in a builder's buffer.
QuietRunsPure == (quiet /\ bpc # "init") =>
  \A f \in FEM : \A k \in DOMAIN buffer[f] : buffer[f][k].run = runs

\* A builder that ends before its limit of passes leaves nothing behind,
\* unless data could still arrive during its last pass.
DrainsQuietData == (bpc = "done" /\ calm /\ tC < MaxDrain) =>
  \A f \in FEM : tmpBuffer[f] = <<>> /\ buffer[f] = <<>>

\* The signals stored by a run were taken during that run: stopDAQ cleaned up
\* what the run before it left.
RunsSeparate == quiet => \A i \in DOMAIN saved : \A f \in FEM :
  saved[i].sig[f] # None => saved[i].sig[f].run = runs

\* Once every FEM has sent an event, it is merged, unless a frame is lost or
\* the builder ends first.
EventuallyMerged == \A e \in 1..MaxEvents :
  (runs = 1 /\ \A f \in FEM : next[f].ev > e)
    ~> (rows >= e \/ bpc = "done" \/ lost > 0)

\* stopDAQ always gets its builder back, whatever was lost and however much
\* is left in the buffers.
BuilderStops == stopEventBuilder ~> bpc = "done"

\* The builder implements the merge of the FEMs' events in order.
Merged == INSTANCE EventMerge WITH
  Signal <- Tags,
  out <- [i \in DOMAIN saved |-> saved[i].sig]

ImplementsEventMerge == Merged!Spec
===============================================================================
