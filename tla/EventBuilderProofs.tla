-------------------------- MODULE EventBuilderProofs --------------------------
(***************************************************************************)
(* Proofs, for any number of FEMs and any bounds, that the state of        *)
(* EventBuilder keeps its types, that the scan of a buffer never misses an *)
(* end of event, that no FEM gets more than one event ahead of the merge,  *)
(* that a quiet run is pure and drained, that the first run implements     *)
(* EventMerge, that its events are aligned when nothing is lost, and that  *)
(* otherwise they are shifted by no more than what was lost.               *)
(***************************************************************************)
EXTENDS EventBuilder, DataFacts, SequenceTheorems, TLAPS

(***************************************************************************)
(* Operators.                                                              *)
(***************************************************************************)
\* The words of a frame are frames of the model.
LEMMA WordsTyped == \A d \in Frames : Words(d) \in Seq(Frames)
<1> SUFFICES ASSUME NEW d \in Frames PROVE Words(d) \in Seq(Frames)
  OBVIOUS
<1>1. Frame(d.run, d.ev, Parts + 1) \in Frames
  BY SizeAssumption DEF Frame, Frames
<1>2. <<d>> \in Seq(Frames) /\ <<d, Frame(d.run, d.ev, Parts + 1)>> \in Seq(Frames)
  BY <1>1
<1>. QED BY <1>2 DEF Words

\* After a frame with an event within the bound comes another frame.
LEMMA FollowingTyped ==
  \A p \in Frames : p.ev <= MaxEvents => Following(p) \in Frames
  BY SizeAssumption, BoundAssumption DEF Following, Frame, Frames

\* The signal of a block of words is a tag.
LEMMA SignalTyped ==
  ASSUME NEW f \in FEM, NEW block \in Seq(Frames)
  PROVE  SignalOf(f, block) \in Tags
<1>1. CASE HitStarts(f, block) = {}
  BY <1>1, BoundAssumption DEF SignalOf, None, Tags
<1>2. CASE HitStarts(f, block) # {}
  <2>1. HitStarts(f, block) \subseteq 1..Len(block)
    BY DEF HitStarts, Starts
  <2>2. Min(HitStarts(f, block)) \in 1..Len(block)
    <3> DEFINE T == HitStarts(f, block)
    <3>1. T \subseteq Nat /\ T # {}
      BY <1>2, <2>1
    <3> HIDE DEF T
    <3>2. Min(T) \in T
      BY <3>1, MinOfNats
    <3>. QED BY <2>1, <3>2 DEF T
  <2>3. block[Min(HitStarts(f, block))] \in Frames
    BY <2>2, ElementOfSeq
  <2>. QED BY <1>2, <2>3, BoundAssumption DEF SignalOf, Frames, Tags
<1>. QED BY <1>1, <1>2

\* The first end of event that the scan has not seen: it is in the buffer,
\* past what was scanned, and nothing before it is an end of event.
LEMMA FirstEnd ==
  ASSUME NEW b \in Seq(Frames), NEW i \in Nat, Ends(b, i) # {}
  PROVE  /\ Min(Ends(b, i)) \in i + 1..Len(b)
         /\ b[Min(Ends(b, i))].part = Parts
         /\ \A k \in i + 1..Min(Ends(b, i)) - 1 : b[k].part # Parts
<1> DEFINE E == Ends(b, i)
<1>1. E \subseteq Nat /\ E # {}
  BY LenProperties DEF Ends
<1> HIDE DEF E
<1>2. Min(E) \in E /\ \A y \in E : Min(E) <= y
  BY <1>1, MinOfNats
<1>3. Len(b) \in Nat
  BY LenProperties
<1>4. Min(E) \in i + 1..Len(b) /\ b[Min(E)].part = Parts
  BY <1>2 DEF Ends, E
<1>5. ASSUME NEW k \in i + 1..Min(E) - 1 PROVE b[k].part # Parts
  <2>1. k \in i + 1..Len(b) /\ ~(Min(E) <= k)
    BY <1>3, <1>4
  <2>. QED BY <1>2, <2>1 DEF Ends, E
<1>. QED BY <1>4, <1>5 DEF E


\* A buffer to which a frame, or what the receiver left, is added.
LEMMA ConcatTyped ==
  \A s, t \in Seq(Frames) : s \o t \in Seq(Frames)
  BY ConcatProperties

\* What was in a buffer stays in front of what is added to it.
LEMMA ConcatPrefix ==
  ASSUME NEW s \in Seq(Frames), NEW t \in Seq(Frames)
  PROVE  /\ Len(s \o t) \in Nat /\ Len(s) \in Nat /\ Len(s \o t) >= Len(s)
         /\ \A k \in 1..Len(s) : (s \o t)[k] = s[k]
<1>1. Len(s) \in Nat /\ Len(t) \in Nat /\ Len(s \o t) = Len(s) + Len(t)
  BY LenProperties, ConcatProperties
<1>2. ASSUME NEW k \in 1..Len(s) PROVE (s \o t)[k] = s[k]
  <2>1. k \in 1..Len(s) + Len(t) /\ k <= Len(s)
    BY <1>1
  <2>. QED BY <2>1, ConcatProperties
<1>. QED BY <1>1, <1>2

(***************************************************************************)
(* Types.                                                                  *)
(***************************************************************************)
\* Before each test of its loop the builder has passes left.
PassBound == bpc \in {"head", "fem", "save", "tail"} => tC < MaxDrain

TypeInv == TypeOK /\ PassBound

\* The state the program starts in is well typed, and no pass was counted.
LEMMA InitType == Init => TypeInv
<1> SUFFICES ASSUME Init PROVE TypeInv
  OBVIOUS
<1> USE SizeAssumption, BoundAssumption
<1>0. FlagsOK
  BY DEF Init, FlagsOK
<1>1. MainOK
  BY DEF Init, MainOK
<1>2. NetOK
  BY DEF Init, NetOK, Frame, Frames
<1>3. LoopOK /\ PassBound
  BY DEF Init, LoopOK, BuilderSteps, PassBound, FEM
<1>4. DataOK
  BY DEF Init, DataOK, Tags, None
<1>. QED BY <1>0, <1>1, <1>2, <1>3, <1>4 DEF TypeInv, TypeOK

\* What a turn of the builder for FEM f does to the buffers.
LEMMA BuildType == ASSUME TypeInv, NEW f \in FEM, BuildFEM(f) PROVE TypeInv'
<1> DEFINE b == buffer[f] \o tmpBuffer[f]
           ends == IF pendingEvent[f] THEN Ends(b, bufferIndex[f]) ELSE {}
           block == SubSeq(b, 1, Min(ends))
<1> USE DEF TypeInv, TypeOK
<1>1. b \in Seq(Frames) /\ Len(b) \in Nat
  BY ConcatTyped, LenProperties DEF NetOK, DataOK
<1>0. FlagsOK'
  BY DEF BuildFEM, FlagsOK, mainVars, daqVars
<1>2. MainOK'
  BY DEF BuildFEM, mainVars, daqVars, MainOK
<1>3. NetOK'
  BY DEF BuildFEM, femVars, NetOK
<1>4. LoopOK' /\ PassBound'
  <2>1. cur' \in FEM /\ bpc' \in {"fem", "save"} /\ bpc = "fem" /\ tC' = tC
    BY SizeAssumption DEF BuildFEM, FEM, LoopOK
  <2>. QED BY <2>1 DEF LoopOK, PassBound, BuilderSteps
<1>5. DataOK'
  <2>1. CASE KeepWaiting(f, b)
    BY <1>1, <2>1 DEF KeepWaiting, BuildFEM, DataOK
  <2>2. CASE ends # {} /\ CloseEvent(f, b, block)
    <3>1. ends = Ends(b, bufferIndex[f]) /\ bufferIndex[f] \in Nat
      BY <2>2 DEF DataOK
    <3>2. \A k \in 1..Len(b) : b[k] \in Frames
      BY <1>1, ElementOfSeq
    <3>3. Min(ends) \in bufferIndex[f] + 1..Len(b)
      <4> HIDE DEF b
      <4>. QED BY <1>1, <2>2, <3>1, FirstEnd
    <3>4. block \in Seq(Frames) /\ SubSeq(b, Len(block) + 1, Len(b)) \in Seq(Frames)
      <4> DEFINE m == Min(ends)
      <4> HIDE DEF b, ends
      <4>1. m \in Int /\ 1 \in Int /\ m <= Len(b) /\ 1 <= m
        BY <1>1, <3>1, <3>3
      <4> HIDE DEF m
      <4>2. SubSeq(b, 1, m) \in Seq(Frames) /\ Len(SubSeq(b, 1, m)) = m
        BY <1>1, <3>2, <4>1, SubSeqProperties
      <4>3. SubSeq(b, m + 1, Len(b)) \in Seq(Frames)
        BY <1>1, <3>2, <4>1, SubSeqProperties
      <4>. QED BY <4>2, <4>3 DEF m
    <3>5. SignalOf(f, block) \in Tags
      BY <3>4, SignalTyped
    <3> HIDE DEF block, ends, b
    <3>6. closed' \in [FEM -> Seq(Tags)] /\ sEvent' \in [FEM -> Tags]
      BY <2>2, <3>5 DEF CloseEvent, DataOK
    <3>7. buffer' \in [FEM -> Seq(Frames)] /\ bufferIndex' \in [FEM -> Nat]
      BY <2>2, <3>4 DEF CloseEvent, DataOK
    <3>8. pendingEvent' \in [FEM -> BOOLEAN]
      BY <2>2 DEF CloseEvent, DataOK
    <3>9. rows' \in Nat
      BY DEF BuildFEM, DataOK
    <3>. QED BY <3>6, <3>7, <3>8, <3>9 DEF DataOK
  <2>. QED BY <2>1, <2>2 DEF BuildFEM
<1>. QED BY <1>0, <1>2, <1>3, <1>4, <1>5

\* Every step of the threads, the front ends and the network keeps the types.
LEMMA NextType == TypeInv /\ [Next]_vars => TypeInv'
<1> SUFFICES ASSUME TypeInv, [Next]_vars PROVE TypeInv'
  OBVIOUS
<1> USE SizeAssumption, BoundAssumption
<1> USE DEF TypeInv, TypeOK, FlagsOK, MainOK, NetOK, LoopOK, DataOK, PassBound, BuilderSteps
<1>1. ASSUME NEW f \in FEM, Emit(f) PROVE TypeInv'
  <2>1. next[f] \in Frames /\ Following(next[f]) \in Frames
    BY <1>1, FollowingTyped DEF Emit
  <2>. QED BY <1>1, <2>1
           DEF Emit, mainVars, daqVars, dataVars, loopVars, histVars
<1>2. ASSUME NEW f \in FEM, LoseFrame(f) PROVE TypeInv'
  <2>1. Tail(socket[f]) \in Seq(Frames)
    BY <1>2, HeadTailProperties DEF LoseFrame
  <2>. QED BY <1>2, <2>1
           DEF LoseFrame, mainVars, daqVars, femVars, dataVars, loopVars, histVars
<1>3. ASSUME NEW f \in FEM, RecvDataFrame(f) PROVE TypeInv'
  <2>1. Head(socket[f]) \in Frames /\ Tail(socket[f]) \in Seq(Frames)
    BY <1>3, HeadTailProperties DEF RecvDataFrame
  <2>2. tmpBuffer[f] \o Words(Head(socket[f])) \in Seq(Frames)
    BY <2>1, WordsTyped, ConcatTyped
  <2>. QED BY <1>3, <2>1, <2>2
           DEF RecvDataFrame, mainVars, daqVars, femVars, dataVars, loopVars, histVars
<1>4. CASE SetActiveFEM
  BY <1>4 DEF SetActiveFEM, daqVars, femVars, dataVars, loopVars, histVars
<1>5. CASE StartDAQ
  <2>1. FlagsOK'
    BY <1>5 DEF StartDAQ, NothingLeft
  <2>2. MainOK'
    BY <1>5 DEF StartDAQ
  <2>3. NetOK' /\ LoopOK' /\ PassBound' /\ DataOK'
    BY <1>5 DEF StartDAQ, femVars, dataVars
  <2>. QED BY <2>1, <2>2, <2>3
<1>6. ASSUME NEW f \in FEM, EnterDAQ(f) PROVE TypeInv'
  <2>1. FlagsOK'
    BY <1>6 DEF EnterDAQ, mainVars, loopVars
  <2>2. armed' \in [FEM -> BOOLEAN]
    BY <1>6 DEF EnterDAQ
  <2>3. Frame(runs, 1, 1) \in Frames
    BY DEF Frame, Frames
  <2>4. next' \in [FEM -> Frames]
    BY <1>6, <2>3 DEF EnterDAQ
  <2>5. tmpBuffer' \in [FEM -> Seq(Frames)]
    <3>1. tmpBuffer' = [tmpBuffer EXCEPT ![f] = <<>>] \/ tmpBuffer' = tmpBuffer
      BY <1>6 DEF EnterDAQ
    <3>2. <<>> \in Seq(Frames)
      BY EmptySeq
    <3>. QED BY <3>1, <3>2
  <2>6. MainOK' /\ LoopOK' /\ PassBound' /\ DataOK' /\ UNCHANGED socket
    BY <1>6 DEF EnterDAQ, mainVars, dataVars, loopVars, histVars
  <2>. QED BY <2>1, <2>2, <2>4, <2>5, <2>6
<1>7. CASE StopRun
  BY <1>7 DEF StopRun, mainVars, femVars, dataVars, loopVars, histVars
<1>8. ASSUME NEW f \in FEM, LeaveDAQ(f) PROVE TypeInv'
  <2>1. FlagsOK'
    BY <1>8 DEF LeaveDAQ, mainVars, loopVars
  <2>2. armed' \in [FEM -> BOOLEAN]
    BY <1>8 DEF LeaveDAQ
  <2>3. MainOK'
    BY <1>8 DEF LeaveDAQ, mainVars
  <2>4. /\ next' \in [FEM -> Frames] /\ socket' \in [FEM -> Seq(Frames)]
        /\ tmpBuffer' \in [FEM -> Seq(Frames)]
    BY <1>8 DEF LeaveDAQ
  <2>5. LoopOK' /\ PassBound' /\ DataOK'
    BY <1>8 DEF LeaveDAQ, dataVars, loopVars, histVars
  <2>. QED BY <2>1, <2>2, <2>3, <2>4, <2>5
<1>9. CASE ReturnDAQ
  BY <1>9 DEF ReturnDAQ, daqVars, femVars, dataVars, loopVars, histVars
<1>10. CASE StopDAQ
  BY <1>10 DEF StopDAQ, daqVars, femVars, dataVars, loopVars, histVars
<1>11. CASE JoinBuilder
  BY <1>11 DEF JoinBuilder, daqVars, femVars, dataVars, loopVars, histVars
<1>12. CASE InitFEMs
  BY <1>12 DEF InitFEMs, mainVars, daqVars, femVars, histVars
<1>13. CASE TestLoop
  <2>1. FlagsOK'
    BY <1>13 DEF TestLoop, mainVars, daqVars
  <2>2. 1 \in FEM
    BY DEF FEM
  <2>3. LoopOK' /\ PassBound'
    BY <1>13, <2>2 DEF TestLoop
  <2>4. MainOK' /\ NetOK' /\ DataOK'
    BY <1>13 DEF TestLoop, mainVars, daqVars, femVars, dataVars, histVars
  <2>. QED BY <2>1, <2>3, <2>4
<1>14. ASSUME NEW f \in FEM, BuildFEM(f) PROVE TypeInv'
  BY <1>14, BuildType
<1>15. CASE SaveEvent
  <2>1. None \in Tags
    BY DEF None, Tags
  <2>2. pendingEvent' \in [FEM -> BOOLEAN] /\ sEvent' \in [FEM -> Tags]
    BY <1>15, <2>1 DEF SaveEvent
  <2>3. rows' \in Nat /\ LoopOK' /\ PassBound'
    BY <1>15 DEF SaveEvent
  <2>4. FlagsOK' /\ MainOK' /\ NetOK' /\ UNCHANGED <<buffer, bufferIndex, closed>>
    BY <1>15 DEF SaveEvent, mainVars, daqVars, femVars
  <2>. QED BY <2>2, <2>3, <2>4
<1>16. CASE CountPass
  BY <1>16 DEF CountPass, mainVars, daqVars, femVars, dataVars, histVars
<1>17. CASE UNCHANGED vars
  BY <1>17 DEF vars, mainVars, daqVars, femVars, dataVars, loopVars, histVars
<1>. QED
  BY <1>1, <1>2, <1>3, <1>4, <1>5, <1>6, <1>7, <1>8, <1>9, <1>10, <1>11, <1>12,
     <1>13, <1>14, <1>15, <1>16, <1>17 DEF Next, Builder

\* Every variable keeps its type; the builder never counts more passes than
\* its limit.
THEOREM TypeCorrect == Spec => []TypeOK
<1>1. TypeInv => TypeOK  BY DEF TypeInv
<1>. QED BY <1>1, InitType, NextType, PTL DEF Spec

(***************************************************************************)
(* The scan of the buffers and the merge.                                  *)
(***************************************************************************)
\* The scan of a FEM that waits for the others starts from the beginning.
ScanInv == bpc # "init" => \A f \in FEM :
  /\ bufferIndex[f] <= Len(buffer[f])
  /\ ~pendingEvent[f] => bufferIndex[f] = 0
  /\ \A k \in 1..bufferIndex[f] : buffer[f][k].part # Parts

\* newEvent says whether a FEM visited in this pass is pending.
PassInv == /\ bpc = "fem" => (newEvent <=> \A g \in 1..cur - 1 : ~pendingEvent[g])
           /\ bpc = "save" => (newEvent <=> \A g \in FEM : ~pendingEvent[g])

\* A run has merged nothing before its builder starts.
FreshInv == bpc = "init" => rows = 0 /\ \A f \in FEM : closed[f] = <<>>

IInv == TypeInv /\ ScanInv /\ InStep /\ PassInv /\ FreshInv

\* The strengthened invariant holds before the first run.
LEMMA InitIInv == Init => IInv
<1> SUFFICES ASSUME Init PROVE IInv
  OBVIOUS
<1>1. TypeInv
  BY InitType
<1>2. ScanInv /\ PassInv /\ FreshInv
  BY DEF Init, ScanInv, PassInv, FreshInv
<1>3. InStep
  BY DEF Init, InStep
<1>. QED BY <1>1, <1>2, <1>3 DEF IInv

\* What only the builder and startDAQ change.
Builders == <<bpc, cur, newEvent, buffer, bufferIndex, pendingEvent, closed, rows>>

\* Only StartDAQ and the builder's own steps change what the builder works on.
LEMMA OthersKeep == [Next]_vars => UNCHANGED Builders \/ StartDAQ \/ Builder
  BY DEF Next, Builders, vars, Emit, LoseFrame, RecvDataFrame, SetActiveFEM, EnterDAQ,
         StopRun, LeaveDAQ, ReturnDAQ, StopDAQ, JoinBuilder, mainVars, daqVars,
         femVars, dataVars, loopVars, histVars

\* A turn for FEM f keeps the scan of its buffer and its place in the merge.
LEMMA BuildIInv ==
  ASSUME IInv, NEW f \in FEM, BuildFEM(f)
  PROVE  ScanInv' /\ InStep' /\ PassInv' /\ FreshInv'
<1> DEFINE b == buffer[f] \o tmpBuffer[f]
           ends == IF pendingEvent[f] THEN Ends(b, bufferIndex[f]) ELSE {}
           block == SubSeq(b, 1, Min(ends))
<1>1. /\ bpc = "fem" /\ cur = f /\ rows' = rows
      /\ newEvent' = (newEvent /\ ~pendingEvent'[f])
      /\ IF f = N THEN bpc' = "save" /\ UNCHANGED cur
                  ELSE cur' = f + 1 /\ UNCHANGED bpc
  BY DEF BuildFEM
<1>2. /\ buffer[f] \in Seq(Frames) /\ tmpBuffer[f] \in Seq(Frames)
      /\ b \in Seq(Frames) /\ bufferIndex[f] \in Nat /\ Len(buffer[f]) \in Nat
      /\ closed[f] \in Seq(Tags) /\ rows \in Nat
  BY ConcatTyped, LenProperties DEF IInv, TypeInv, TypeOK, NetOK, DataOK
<1>3. /\ bufferIndex[f] <= Len(b) /\ Len(b) \in Nat
      /\ \A k \in 1..bufferIndex[f] : b[k].part # Parts
  <2>1. /\ bufferIndex[f] <= Len(buffer[f])
        /\ \A k \in 1..bufferIndex[f] : buffer[f][k].part # Parts
    BY <1>1 DEF IInv, ScanInv
  <2>2. /\ Len(b) \in Nat /\ Len(buffer[f]) \in Nat /\ Len(b) >= Len(buffer[f])
        /\ \A k \in 1..Len(buffer[f]) : b[k] = buffer[f][k]
    BY <1>2, ConcatPrefix
  <2>. HIDE DEF b
  <2>3. bufferIndex[f] \in Nat
    BY <1>2
  <2>4. ASSUME NEW k \in 1..bufferIndex[f] PROVE b[k].part # Parts
    <3>1. k \in 1..Len(buffer[f])
      BY <2>1, <2>2, <2>3
    <3>. QED BY <2>1, <2>2, <3>1
  <2>. QED BY <2>1, <2>2, <2>3, <2>4
<1>4. \A g \in FEM : g # f =>
        /\ buffer'[g] = buffer[g] /\ bufferIndex'[g] = bufferIndex[g]
        /\ pendingEvent'[g] = pendingEvent[g] /\ closed'[g] = closed[g]
  BY DEF BuildFEM, CloseEvent, KeepWaiting, IInv, TypeInv, TypeOK, DataOK
<1>5. /\ bufferIndex'[f] <= Len(buffer'[f])
      /\ ~pendingEvent'[f] => bufferIndex'[f] = 0
      /\ \A k \in 1..bufferIndex'[f] : buffer'[f][k].part # Parts
      /\ Len(closed'[f]) = rows + (IF pendingEvent'[f] THEN 0 ELSE 1)
  <2>0. /\ ~pendingEvent[f] => bufferIndex[f] = 0
        /\ Len(closed[f]) = rows + (IF pendingEvent[f] THEN 0 ELSE 1)
    BY <1>1 DEF IInv, ScanInv, InStep
  <2>1. CASE ends = {} /\ KeepWaiting(f, b)
    <3>1. buffer'[f] = b /\ pendingEvent'[f] = pendingEvent[f] /\ closed'[f] = closed[f]
      BY <2>1 DEF KeepWaiting, IInv, TypeInv, TypeOK, DataOK
    <3>2. bufferIndex'[f] = IF pendingEvent[f] /\ b # <<>> THEN Len(b) ELSE bufferIndex[f]
      BY <2>1 DEF KeepWaiting, IInv, TypeInv, TypeOK, DataOK
    <3>3. pendingEvent[f] => \A k \in bufferIndex[f] + 1..Len(b) : b[k].part # Parts
      BY <2>1 DEF Ends
    <3> HIDE DEF b, ends
    <3>4. pendingEvent[f] => \A k \in 1..Len(b) : b[k].part # Parts
      BY <1>2, <1>3, <3>3
    <3>. QED BY <1>2, <1>3, <2>0, <3>1, <3>2, <3>4
  <2>2. CASE ends # {} /\ CloseEvent(f, b, block)
    <3>1. pendingEvent[f] /\ ends = Ends(b, bufferIndex[f])
      BY <2>2
    <3>2. block \in Seq(Frames)
      <4> DEFINE m == Min(ends)
      <4> HIDE DEF b, ends
      <4>1. m \in bufferIndex[f] + 1..Len(b)
        BY <1>2, <2>2, <3>1, FirstEnd
      <4>2. m \in Int /\ m <= Len(b)
        BY <1>2, <1>3, <4>1
      <4>3. \A k \in 1..Len(b) : b[k] \in Frames
        BY <1>2, ElementOfSeq
      <4> HIDE DEF m
      <4>4. SubSeq(b, 1, m) \in Seq(Frames)
        BY <1>3, <4>2, <4>3, SubSeqProperties
      <4>. QED BY <4>4 DEF m
    <3>3. /\ bufferIndex'[f] = 0 /\ pendingEvent'[f] = FALSE
          /\ buffer'[f] = SubSeq(b, Len(block) + 1, Len(b))
          /\ closed'[f] = Append(closed[f], SignalOf(f, block))
      BY <2>2 DEF CloseEvent, IInv, TypeInv, TypeOK, DataOK
    <3>4. Len(closed'[f]) = rows + 1
      BY <1>2, <2>0, <3>1, <3>2, <3>3, SignalTyped, AppendProperties
    <3>5. Len(buffer'[f]) \in Nat
      <4>1. TypeInv'
        BY BuildType DEF IInv
      <4>. QED BY <4>1, LenProperties DEF TypeInv, TypeOK, DataOK
    <3>6. /\ bufferIndex'[f] <= Len(buffer'[f])
          /\ \A k \in 1..bufferIndex'[f] : buffer'[f][k].part # Parts
      <4>1. bufferIndex'[f] = 0 /\ 1..0 = {}
        BY <3>3
      <4>. QED BY <3>5, <4>1
    <3>. QED BY <3>3, <3>4, <3>6
  <2>. QED BY <2>1, <2>2 DEF BuildFEM
<1>6. ScanInv'
  BY <1>1, <1>4, <1>5 DEF IInv, ScanInv
<1>7. InStep'
  BY <1>1, <1>4, <1>5 DEF IInv, InStep
<1>8. PassInv'
  <2>1. newEvent <=> \A g \in 1..f - 1 : ~pendingEvent[g]
    BY <1>1 DEF IInv, PassInv
  <2>2. \A g \in 1..f - 1 : g \in FEM /\ g # f
    BY SizeAssumption DEF FEM
  <2>3. newEvent' <=> \A g \in 1..f : ~pendingEvent'[g]
    <3>1. \A g \in 1..f : g \in 1..f - 1 \/ g = f
      BY DEF FEM
    <3>2. f \in 1..f /\ \A g \in 1..f - 1 : g \in 1..f
      BY DEF FEM
    <3>. QED BY <1>1, <1>4, <2>1, <2>2, <3>1, <3>2
  <2>4. CASE f = N
    BY <1>1, <2>3, <2>4 DEF PassInv, FEM
  <2>5. CASE f # N
    <3>1. cur' = f + 1 /\ bpc' = "fem"
      BY <1>1, <2>5
    <3>2. cur' - 1 = f
      BY <3>1 DEF FEM
    <3>. QED BY <2>3, <3>1, <3>2 DEF PassInv
  <2>. QED BY <2>4, <2>5
<1>9. FreshInv'
  BY <1>1 DEF FreshInv
<1>. QED BY <1>6, <1>7, <1>8, <1>9

\* Every step keeps the strengthened invariant.
LEMMA NextIInv == IInv /\ [Next]_vars => IInv'
<1> SUFFICES ASSUME IInv, [Next]_vars PROVE IInv'
  OBVIOUS
<1>1. TypeInv'
  BY NextType DEF IInv
<1>2. CASE UNCHANGED Builders
  BY <1>1, <1>2 DEF Builders, IInv, ScanInv, InStep, PassInv, FreshInv
<1>3. CASE StartDAQ
  BY <1>1, <1>3 DEF StartDAQ, IInv, ScanInv, InStep, PassInv, FreshInv
<1>4. CASE InitFEMs
  <2>1. ScanInv' /\ PassInv' /\ FreshInv'
    BY <1>4 DEF InitFEMs, ScanInv, PassInv, FreshInv
  <2>2. rows' = 0 /\ \A f \in FEM : closed'[f] = <<>> /\ pendingEvent'[f] = TRUE
    BY <1>4 DEF InitFEMs, histVars, IInv, FreshInv
  <2>3. InStep'
    BY <2>2 DEF InStep
  <2>. QED BY <1>1, <2>1, <2>3 DEF IInv
<1>5. CASE TestLoop
  <2>1. ScanInv' /\ InStep' /\ FreshInv'
    BY <1>5 DEF TestLoop, dataVars, histVars, IInv, ScanInv, InStep, FreshInv
  <2>2. PassInv'
    <3>1. CASE Finished
      BY <1>5, <3>1 DEF TestLoop, PassInv
    <3>2. CASE ~Finished
      <4>1. bpc' = "fem" /\ newEvent' = TRUE /\ cur' = 1
        BY <1>5, <3>2 DEF TestLoop
      <4>2. \A g \in 1..cur' - 1 : FALSE
        BY <4>1
      <4>. QED BY <4>1, <4>2 DEF PassInv
    <3>. QED BY <3>1, <3>2
  <2>. QED BY <1>1, <2>1, <2>2 DEF IInv
<1>6. ASSUME NEW f \in FEM, BuildFEM(f) PROVE IInv'
  BY <1>1, <1>6, BuildIInv DEF IInv
<1>7. CASE SaveEvent
  <2>1. CASE newEvent
    <3>1. \A f \in FEM : ~pendingEvent[f]
      BY <1>7, <2>1 DEF SaveEvent, IInv, PassInv
    <3>2. ScanInv' /\ PassInv' /\ FreshInv'
      BY <1>7, <2>1, <3>1 DEF SaveEvent, IInv, ScanInv, PassInv, FreshInv
    <3>3. InStep'
      BY <1>7, <2>1, <3>1
         DEF SaveEvent, IInv, InStep, TypeInv, TypeOK, DataOK
    <3>. QED BY <1>1, <3>2, <3>3 DEF IInv
  <2>2. CASE ~newEvent
    BY <1>1, <1>7, <2>2 DEF SaveEvent, IInv, ScanInv, InStep, PassInv, FreshInv
  <2>. QED BY <2>1, <2>2
<1>8. CASE CountPass
  BY <1>1, <1>8 DEF CountPass, dataVars, histVars, IInv, ScanInv, InStep, PassInv, FreshInv
<1>. QED
  BY <1>2, <1>3, <1>4, <1>5, <1>6, <1>7, <1>8, OthersKeep DEF Builder

\* The strengthened invariant holds of every behaviour.
THEOREM Inductive == Spec => []IInv
  BY InitIInv, NextIInv, PTL DEF Spec

\* However the frames of a FEM are batched between two passes, the scan never
\* skips an end of event and never points past the buffer.
THEOREM ScanResumesHolds == Spec => []ScanResumes
<1>1. IInv => ScanResumes  BY DEF IInv, ScanInv, ScanResumes
<1>. QED BY <1>1, Inductive, PTL

\* No FEM is ever more than one event ahead of the merge.
THEOREM InStepHolds == Spec => []InStep
<1>1. IInv => InStep  BY DEF IInv
<1>. QED BY <1>1, Inductive, PTL

(***************************************************************************)
(* What a quiet run receives, and what a calm pass leaves.                 *)
(***************************************************************************)
\* The words that belong to the present run.
Own == {d \in Frames : d.run = runs}

\* In a quiet run everything on the way to the events is of that run.
QuietInv == quiet => \A f \in FEM :
  /\ armed[f] => next[f].run = runs
  /\ socket[f] \in Seq(Own) /\ tmpBuffer[f] \in Seq(Own)
  /\ bpc # "init" => buffer[f] \in Seq(Own)

\* The words of a frame belong to the run of the frame.
LEMMA WordsOwn == \A d \in Own : Words(d) \in Seq(Own)
<1> SUFFICES ASSUME NEW d \in Own PROVE Words(d) \in Seq(Own)
  OBVIOUS
<1>1. d \in Frames /\ d.run = runs
  BY DEF Own
<1>2. Frame(d.run, d.ev, Parts + 1) \in Frames
  BY <1>1, SizeAssumption DEF Frame, Frames
<1>3. Frame(d.run, d.ev, Parts + 1) \in Own
  BY <1>1, <1>2 DEF Own, Frame
<1> HIDE DEF Own
<1>4. <<d>> \in Seq(Own) /\ <<d, Frame(d.run, d.ev, Parts + 1)>> \in Seq(Own)
  BY <1>3
<1>. QED BY <1>4 DEF Words

\* The initial state holds no frame.
LEMMA InitQuiet == Init => QuietInv
<1> SUFFICES ASSUME Init PROVE QuietInv
  OBVIOUS
<1>1. \A f \in FEM : /\ socket[f] = <<>> /\ tmpBuffer[f] = <<>> /\ buffer[f] = <<>>
                     /\ ~armed[f]
  BY DEF Init
<1>. QED BY <1>1, EmptySeq DEF QuietInv

\* A turn of the builder moves and cuts words only.
LEMMA BuildQuiet ==
  ASSUME IInv, QuietInv, quiet, NEW f \in FEM, BuildFEM(f)
  PROVE  buffer'[f] \in Seq(Own)
<1> DEFINE b == buffer[f] \o tmpBuffer[f]
           ends == IF pendingEvent[f] THEN Ends(b, bufferIndex[f]) ELSE {}
           block == SubSeq(b, 1, Min(ends))
<1>1. buffer[f] \in Seq(Own) /\ tmpBuffer[f] \in Seq(Own)
  BY DEF QuietInv, BuildFEM
<1>2. b \in Seq(Own)
  BY <1>1, ConcatProperties
<1>3. buffer \in [FEM -> Seq(Frames)] /\ b \in Seq(Frames) /\ bufferIndex[f] \in Nat
  BY ConcatTyped DEF IInv, TypeInv, TypeOK, NetOK, DataOK
<1>4. CASE KeepWaiting(f, b)
  BY <1>2, <1>3, <1>4 DEF KeepWaiting
<1>5. CASE ends # {} /\ CloseEvent(f, b, block)
  <2>1. buffer'[f] = SubSeq(b, Len(block) + 1, Len(b))
    BY <1>3, <1>5 DEF CloseEvent
  <2>2. Min(ends) \in bufferIndex[f] + 1..Len(b) /\ Len(b) \in Nat
    <3>1. ends = Ends(b, bufferIndex[f])
      BY <1>5
    <3> HIDE DEF b
    <3>. QED BY <1>3, <1>5, <3>1, FirstEnd, LenProperties
  <2>3. \A k \in 1..Len(b) : b[k] \in Own /\ b[k] \in Frames
    BY <1>2, <1>3, ElementOfSeq
  <2> DEFINE m == Min(ends)
  <2>4. m \in Int /\ 1 <= m /\ m <= Len(b) /\ m \in Nat
    BY <1>3, <2>2
  <2>5. Len(block) = m
    <3> HIDE DEF b, m
    <3>1. Len(SubSeq(b, 1, m)) = m
      BY <2>2, <2>3, <2>4, SubSeqProperties
    <3>. QED BY <3>1 DEF m
  <2> HIDE DEF b, m, block
  <2>6. SubSeq(b, m + 1, Len(b)) \in Seq(Own)
    BY <2>2, <2>3, <2>4, SubSeqProperties
  <2>. QED BY <2>1, <2>5, <2>6
<1>. QED BY <1>4, <1>5 DEF BuildFEM

\* Every step keeps what is on the way to the events of a quiet run its own.
LEMMA NextQuiet == IInv /\ QuietInv /\ [Next]_vars => QuietInv'
<1> SUFFICES ASSUME IInv, QuietInv, [Next]_vars, quiet', NEW g \in FEM
             PROVE  /\ armed'[g] => next'[g].run = runs'
                    /\ socket'[g] \in Seq(Own)' /\ tmpBuffer'[g] \in Seq(Own)'
                    /\ bpc' # "init" => buffer'[g] \in Seq(Own)'
  BY DEF QuietInv
<1> DEFINE Goal == /\ armed'[g] => next'[g].run = runs'
                   /\ socket'[g] \in Seq(Own)' /\ tmpBuffer'[g] \in Seq(Own)'
                   /\ bpc' # "init" => buffer'[g] \in Seq(Own)'
<1>1. /\ armed \in [FEM -> BOOLEAN] /\ next \in [FEM -> Frames]
      /\ socket \in [FEM -> Seq(Frames)] /\ tmpBuffer \in [FEM -> Seq(Frames)]
      /\ buffer \in [FEM -> Seq(Frames)]
  BY DEF IInv, TypeInv, TypeOK, NetOK, DataOK
<1>2. CASE StartDAQ
  <2>1. socket'[g] = <<>> /\ tmpBuffer'[g] = <<>> /\ ~armed'[g] /\ bpc' = "init"
    BY <1>2 DEF StartDAQ, NothingLeft, femVars
  <2>. QED BY <2>1, EmptySeq
<1> SUFFICES ASSUME ~StartDAQ PROVE Goal
  BY <1>2
<1>3. runs' = runs /\ quiet' = quiet /\ Own' = Own
  <2>1. runs' = runs /\ quiet' = quiet
    BY DEF Next, Builder, vars, Emit, LoseFrame, RecvDataFrame, SetActiveFEM, EnterDAQ,
           StopRun, LeaveDAQ, ReturnDAQ, StopDAQ, JoinBuilder, InitFEMs, TestLoop, BuildFEM,
           SaveEvent, CountPass, mainVars
  <2>. QED BY <2>1 DEF Own
<1>4. /\ armed[g] => next[g].run = runs
      /\ socket[g] \in Seq(Own) /\ tmpBuffer[g] \in Seq(Own)
      /\ bpc # "init" => buffer[g] \in Seq(Own)
  BY <1>3 DEF QuietInv
<1>5. ASSUME NEW f \in FEM, Emit(f) PROVE Goal
  <2>1. armed' = armed /\ tmpBuffer' = tmpBuffer /\ bpc' = bpc /\ buffer' = buffer
    BY <1>5 DEF Emit, loopVars, dataVars
  <2>2. CASE g = f
    <3>1. armed[f] /\ socket'[f] = Append(socket[f], next[f]) /\ next'[f] = Following(next[f])
      BY <1>1, <1>5 DEF Emit
    <3>2. next[f] \in Own /\ next'[f].run = next[f].run
      BY <1>1, <1>4, <2>2, <3>1 DEF Own, Following, Frame
    <3>3. socket'[f] \in Seq(Own)
      BY <1>4, <2>2, <3>1, <3>2, AppendProperties
    <3>. QED BY <1>3, <1>4, <2>1, <2>2, <3>2, <3>3
  <2>3. CASE g # f
    <3>1. socket'[g] = socket[g] /\ next'[g] = next[g]
      BY <1>1, <1>5, <2>3 DEF Emit
    <3>. QED BY <1>3, <1>4, <2>1, <3>1
  <2>. QED BY <2>2, <2>3
<1>6. ASSUME NEW f \in FEM, LoseFrame(f) PROVE Goal
  <2>1. UNCHANGED <<armed, next, tmpBuffer, bpc, buffer>>
    BY <1>6 DEF LoseFrame, femVars, loopVars, dataVars
  <2>2. socket'[g] \in Seq(Own)
    BY <1>1, <1>4, <1>6, HeadTailProperties DEF LoseFrame
  <2>. QED BY <1>3, <1>4, <2>1, <2>2
<1>7. ASSUME NEW f \in FEM, RecvDataFrame(f) PROVE Goal
  <2>1. UNCHANGED <<armed, next, bpc, buffer>>
    BY <1>7 DEF RecvDataFrame, femVars, loopVars, dataVars
  <2>2. socket'[g] \in Seq(Own)
    BY <1>1, <1>4, <1>7, HeadTailProperties DEF RecvDataFrame
  <2>3. tmpBuffer'[g] \in Seq(Own)
    <3>1. CASE g = f
      <4>1. Head(socket[g]) \in Own
        BY <1>4, <1>7, <3>1, HeadTailProperties DEF RecvDataFrame
      <4>2. Words(Head(socket[g])) \in Seq(Own)
        BY <4>1, WordsOwn
      <4>3. tmpBuffer'[g] = tmpBuffer[g] \o Words(Head(socket[g]))
        BY <1>1, <1>7, <3>1 DEF RecvDataFrame
      <4>. QED BY <1>4, <4>2, <4>3, ConcatProperties
    <3>2. CASE g # f
      BY <1>1, <1>4, <1>7, <3>2 DEF RecvDataFrame
    <3>. QED BY <3>1, <3>2
  <2>. QED BY <1>3, <1>4, <2>1, <2>2, <2>3
<1>8. ASSUME NEW f \in FEM, EnterDAQ(f) PROVE Goal
  <2>1. UNCHANGED <<socket, bpc, buffer>>
    BY <1>8 DEF EnterDAQ, loopVars, dataVars
  <2>2. armed'[g] => next'[g].run = runs
    BY <1>1, <1>4, <1>8 DEF EnterDAQ, Frame
  <2>3. tmpBuffer'[g] = <<>> \/ tmpBuffer'[g] = tmpBuffer[g]
    BY <1>1, <1>8 DEF EnterDAQ
  <2>. QED BY <1>3, <1>4, <2>1, <2>2, <2>3, EmptySeq
<1>9. ASSUME NEW f \in FEM, LeaveDAQ(f) PROVE Goal
  <2>1. UNCHANGED <<socket, tmpBuffer, next, bpc, buffer>>
    BY <1>9 DEF LeaveDAQ, loopVars, dataVars
  <2>2. armed'[g] => armed[g]
    BY <1>1, <1>9 DEF LeaveDAQ
  <2>. QED BY <1>3, <1>4, <2>1, <2>2
<1>10. CASE InitFEMs
  <2>1. UNCHANGED <<socket, tmpBuffer, armed, next>> /\ buffer'[g] = <<>>
    BY <1>10 DEF InitFEMs, femVars
  <2>. QED BY <1>3, <1>4, <2>1, EmptySeq
<1>11. ASSUME NEW f \in FEM, BuildFEM(f) PROVE Goal
  <2>1. UNCHANGED <<socket, armed, next>> /\ bpc = "fem"
    BY <1>11 DEF BuildFEM, femVars
  <2>2. tmpBuffer'[g] = <<>> \/ tmpBuffer'[g] = tmpBuffer[g]
    BY <1>1, <1>11 DEF BuildFEM
  <2>3. buffer'[g] \in Seq(Own)
    <3>1. CASE g = f
      BY <1>3, <1>11, <3>1, BuildQuiet
    <3>2. CASE g # f
      BY <1>1, <1>4, <1>11, <2>1, <3>2 DEF BuildFEM, CloseEvent, KeepWaiting
    <3>. QED BY <3>1, <3>2
  <2>. QED BY <1>3, <1>4, <2>1, <2>2, <2>3, EmptySeq
<1>12. CASE UNCHANGED <<armed, next, socket, tmpBuffer, buffer>> /\ (bpc = "init" => bpc' = "init")
  BY <1>3, <1>4, <1>12
<1>13. [Next]_vars => \/ UNCHANGED <<armed, next, socket, tmpBuffer, buffer>>
                         /\ (bpc = "init" => bpc' = "init")
                      \/ StartDAQ \/ InitFEMs
                      \/ \E f \in FEM : \/ Emit(f) \/ LoseFrame(f) \/ RecvDataFrame(f)
                                        \/ EnterDAQ(f) \/ LeaveDAQ(f) \/ BuildFEM(f)
  BY DEF Next, Builder, vars, SetActiveFEM, StopRun, ReturnDAQ, StopDAQ, JoinBuilder,
         TestLoop, SaveEvent, CountPass, mainVars, femVars, dataVars, loopVars
<1>. QED BY <1>5, <1>6, <1>7, <1>8, <1>9, <1>10, <1>11, <1>12, <1>13

\* A run that starts when nothing of an earlier run is left in the network or
\* in tmpBuffer never has a frame of an earlier run in a builder's buffer.
THEOREM QuietRunsPureHolds == Spec => []QuietRunsPure
<1>1. QuietInv => QuietRunsPure
  <2> SUFFICES ASSUME QuietInv, quiet, bpc # "init", NEW f \in FEM,
                      NEW k \in DOMAIN buffer[f]
               PROVE  buffer[f][k].run = runs
    BY DEF QuietRunsPure
  <2>1. buffer[f] \in Seq(Own)
    BY DEF QuietInv
  <2>2. k \in 1..Len(buffer[f])
    BY <2>1, LenProperties
  <2>3. buffer[f][k] \in Own
    BY <2>1, <2>2, ElementOfSeq
  <2>. QED BY <2>3 DEF Own
<1>. QED BY <1>1, InitQuiet, NextQuiet, Inductive, PTL DEF Spec

\* Nothing of FEM f waits for the builder.
Drained(f) == tmpBuffer[f] = <<>> /\ buffer[f] = <<>>

\* In a calm pass nothing arrives, and the FEMs visited since all the buffers
\* were found empty stay empty.
CalmInv == calm =>
  /\ bpc # "init"
  /\ \A f \in FEM : socket[f] = <<>> /\ ~armed[f] /\ daq[f] = "off"
  /\ (bpc = "fem" /\ emptyBuffer) => \A g \in 1..cur - 1 : Drained(g)
  /\ (bpc \in {"save", "tail", "head"} /\ emptyBuffer) => \A g \in FEM : Drained(g)
  /\ (bpc = "done" /\ tC < MaxDrain) => \A g \in FEM : Drained(g)

\* What the steps of the others are made of, as far as a calm pass sees it:
\* nothing comes from the network to a FEM that is silent.
LEMMA OthersAreCalm ==
  ASSUME TypeInv, calm, \A f \in FEM : socket[f] = <<>> /\ ~armed[f] /\ daq[f] = "off",
         [Next]_vars, ~Builder, ~StartDAQ
  PROVE  /\ UNCHANGED <<bpc, cur, emptyBuffer, tC, calm, buffer>>
         /\ UNCHANGED <<socket, armed, daq, tmpBuffer>>
<1>1. ASSUME NEW f \in FEM PROVE ~Emit(f) /\ ~LoseFrame(f) /\ ~RecvDataFrame(f)
  BY DEF Emit, LoseFrame, RecvDataFrame
<1>2. ASSUME NEW f \in FEM PROVE ~EnterDAQ(f) /\ ~LeaveDAQ(f)
  BY DEF EnterDAQ, LeaveDAQ
<1>. QED
  BY <1>1, <1>2 DEF Next, vars, SetActiveFEM, StopRun, ReturnDAQ, StopDAQ, JoinBuilder,
         mainVars, daqVars, femVars, dataVars, loopVars

\* A turn of a calm pass that finds nothing leaves FEM f drained.
LEMMA BuildCalm ==
  ASSUME TypeInv, CalmInv, calm, NEW f \in FEM, BuildFEM(f)
  PROVE  CalmInv'
<1> DEFINE b == buffer[f] \o tmpBuffer[f]
<1>1. /\ bpc = "fem" /\ cur = f /\ calm' = calm /\ emptyBuffer' = (emptyBuffer /\ b = <<>>)
      /\ UNCHANGED <<socket, armed, daq, tC>>
      /\ IF f = N THEN bpc' = "save" /\ UNCHANGED cur
                  ELSE cur' = f + 1 /\ UNCHANGED bpc
  BY DEF BuildFEM, femVars, daqVars
<1>2. /\ tmpBuffer \in [FEM -> Seq(Frames)] /\ buffer \in [FEM -> Seq(Frames)]
      /\ b \in Seq(Frames)
  BY ConcatTyped DEF TypeInv, TypeOK, NetOK, DataOK
<1>3. ASSUME NEW g \in FEM, g # f PROVE tmpBuffer'[g] = tmpBuffer[g] /\ buffer'[g] = buffer[g]
  BY <1>2, <1>3 DEF BuildFEM, CloseEvent, KeepWaiting
<1>4. b = <<>> => Drained(f)'
  <2> SUFFICES ASSUME b = <<>> PROVE Drained(f)'
    OBVIOUS
  <2>1. Len(b) = 0
    BY EmptySeq
  <2>2. \A i \in Nat : Ends(b, i) = {}
    BY <2>1 DEF Ends
  <2>3. bufferIndex[f] \in Nat
    BY DEF TypeInv, TypeOK, DataOK
  <2>4. KeepWaiting(f, b) /\ tmpBuffer'[f] = <<>>
    BY <1>2, <2>2, <2>3 DEF BuildFEM
  <2>. QED BY <1>2, <2>4 DEF KeepWaiting, Drained
<1>5. emptyBuffer' => \A g \in 1..f : Drained(g)'
  <2> SUFFICES ASSUME emptyBuffer', NEW g \in 1..f PROVE Drained(g)'
    OBVIOUS
  <2>1. b = <<>> /\ emptyBuffer
    BY <1>1 DEF TypeInv, TypeOK, FlagsOK
  <2>2. CASE g = f
    BY <1>4, <2>1, <2>2
  <2>3. CASE g # f
    <3>1. g \in 1..cur - 1 /\ g \in FEM
      BY <1>1, <2>3, SizeAssumption DEF FEM
    <3>2. Drained(g)
      BY <1>1, <2>1, <3>1 DEF CalmInv
    <3>. QED BY <1>3, <2>3, <3>1, <3>2 DEF Drained
  <2>. QED BY <2>2, <2>3
<1>6. CASE f = N
  BY <1>1, <1>5, <1>6 DEF CalmInv, FEM
<1>7. CASE f # N
  <2>1. cur' - 1 = f /\ bpc' = "fem"
    BY <1>1, <1>7 DEF FEM
  <2>. QED BY <1>1, <1>5, <2>1 DEF CalmInv
<1>. QED BY <1>6, <1>7

\* Every step keeps the invariant of the calm passes.
LEMMA NextCalm == TypeInv /\ CalmInv /\ [Next]_vars => CalmInv'
<1> SUFFICES ASSUME TypeInv, CalmInv, [Next]_vars PROVE CalmInv'
  OBVIOUS
<1>1. CASE StartDAQ
  BY <1>1 DEF StartDAQ, CalmInv
<1>2. CASE TestLoop
  <2>1. UNCHANGED <<socket, armed, daq, tmpBuffer, buffer, tC>>
    BY <1>2 DEF TestLoop, daqVars, femVars, dataVars
  <2>2. CASE Finished
    <3>1. bpc = "head" /\ bpc' = "done" /\ emptyBuffer /\ calm' = calm
      BY <1>2, <2>2 DEF TestLoop, Finished
    <3>. QED BY <2>1, <3>1 DEF CalmInv, Drained
  <2>3. CASE ~Finished
    <3>1. /\ bpc' = "fem" /\ cur' = 1
          /\ calm' => \A f \in FEM : socket[f] = <<>> /\ ~armed[f] /\ daq[f] = "off"
      BY <1>2, <2>3 DEF TestLoop
    <3>2. 1..cur' - 1 = {}
      BY <3>1
    <3>. QED BY <2>1, <3>1, <3>2 DEF CalmInv
  <2>. QED BY <2>2, <2>3
<1> SUFFICES ASSUME ~StartDAQ, ~TestLoop, calm' PROVE CalmInv'
  BY <1>1, <1>2 DEF CalmInv
<1>3. calm
  BY DEF Next, Builder, vars, Emit, LoseFrame, RecvDataFrame, SetActiveFEM, EnterDAQ,
         StopRun, LeaveDAQ, ReturnDAQ, StopDAQ, JoinBuilder, InitFEMs, BuildFEM,
         SaveEvent, CountPass, loopVars
<1>4. CASE ~Builder
  BY <1>3, <1>4, OthersAreCalm DEF CalmInv, Drained
<1>5. CASE InitFEMs
  BY <1>3, <1>5 DEF InitFEMs, CalmInv
<1>6. ASSUME NEW f \in FEM, BuildFEM(f) PROVE CalmInv'
  BY <1>3, <1>6, BuildCalm
<1>7. CASE SaveEvent
  BY <1>3, <1>7 DEF SaveEvent, CalmInv, Drained, daqVars, femVars
<1>8. CASE CountPass
  <2>1. bpc = "tail" /\ UNCHANGED <<socket, armed, daq, tmpBuffer, buffer, emptyBuffer>>
    BY <1>8 DEF CountPass, daqVars, femVars, dataVars
  <2>2. bpc' = "head" \/ (bpc' = "done" /\ tC' >= MaxDrain)
    BY <1>8 DEF CountPass
  <2>3. tC' \in Nat /\ ~(tC' >= MaxDrain /\ tC' < MaxDrain)
    BY <1>8, SizeAssumption DEF CountPass, TypeInv, TypeOK, LoopOK
  <2>. QED BY <1>3, <2>1, <2>2, <2>3 DEF CalmInv, Drained
<1>. QED BY <1>4, <1>5, <1>6, <1>7, <1>8 DEF Builder

\* A builder that ends before its limit of passes leaves nothing behind,
\* unless data could still arrive during its last pass.
THEOREM DrainsQuietDataHolds == Spec => []DrainsQuietData
<1>1. Init => CalmInv  BY DEF Init, CalmInv
<1>2. IInv => TypeInv  BY DEF IInv
<1>3. CalmInv => DrainsQuietData  BY DEF CalmInv, DrainsQuietData, Drained
<1>. QED BY <1>1, <1>2, <1>3, NextCalm, Inductive, PTL DEF Spec

(***************************************************************************)
(* The first run merges the events as EventMerge does.                     *)
(***************************************************************************)
\* What is stored, and the number of the last event.
Stored == [id : 0..MaxEvents + 1, sig : [FEM -> Tags]]
SavedType == saved \in Seq(Stored) /\ ev_count \in 0..MaxEvents + 1

\* The signal of a FEM is that of its closed event while that event waits.
SignalInv == runs <= 1 => \A f \in FEM :
  sEvent[f] = IF pendingEvent[f] THEN None ELSE closed[f][rows + 1]

\* The builder of the first run starts with every FEM pending.
StartInv == /\ runs = 0 => bpc = "done" /\ saved = <<>>
            /\ (runs = 0 \/ (runs = 1 /\ bpc = "init")) => \A f \in FEM : pendingEvent[f]

MergeInv == SavedType /\ SignalInv /\ StartInv

\* The merged events, as the abstract specification sees them.
Out == [i \in DOMAIN saved |-> saved[i].sig]

\* What is stored appears at the end of what is seen.
LEMMA OutAppend ==
  ASSUME NEW s \in Seq(Stored), NEW r \in Stored
  PROVE  [i \in DOMAIN Append(s, r) |-> Append(s, r)[i].sig]
           = Append([i \in DOMAIN s |-> s[i].sig], r.sig)
<1> DEFINE t == Append(s, r)
           o == [i \in DOMAIN s |-> s[i].sig]
           p == [i \in DOMAIN t |-> t[i].sig]
           S == [FEM -> Tags]
<1>1. /\ Len(s) \in Nat /\ DOMAIN s = 1..Len(s)
      /\ t \in Seq(Stored) /\ Len(t) = Len(s) + 1 /\ DOMAIN t = 1..Len(t)
      /\ t[Len(s) + 1] = r /\ \A i \in 1..Len(s) : t[i] = s[i]
  BY LenProperties, AppendProperties
<1>2. /\ \A i \in DOMAIN s : s[i] \in Stored
      /\ \A i \in DOMAIN t : t[i] \in Stored
  <2> HIDE DEF t
  <2>. QED BY <1>1, ElementOfSeq
<1>3. r.sig \in S /\ \A x \in Stored : x.sig \in S
  BY DEF Stored
<1> HIDE DEF t, S
<1>4. o \in Seq(S) /\ Len(o) = Len(s) /\ \A i \in 1..Len(s) : o[i] = s[i].sig
  BY <1>1, <1>2, <1>3
<1>5. p \in Seq(S) /\ Len(p) = Len(s) + 1 /\ \A i \in 1..Len(s) + 1 : p[i] = t[i].sig
  BY <1>1, <1>2, <1>3
<1> HIDE DEF o, p
<1>6. /\ Append(o, r.sig) \in Seq(S) /\ Len(Append(o, r.sig)) = Len(s) + 1
      /\ Append(o, r.sig)[Len(s) + 1] = r.sig
      /\ \A i \in 1..Len(s) : Append(o, r.sig)[i] = o[i]
  BY <1>3, <1>4, AppendProperties
<1>7. ASSUME NEW i \in 1..Len(p) PROVE p[i] = Append(o, r.sig)[i]
  <2>1. i \in 1..Len(s) \/ i = Len(s) + 1
    BY <1>1, <1>5
  <2>. QED BY <1>1, <1>4, <1>5, <1>6, <2>1
<1>8. p = Append(o, r.sig)
  BY <1>5, <1>6, <1>7, SeqEqual
<1>. QED BY <1>8 DEF o, p, t

\* When FEM f closes an event, the last number found in the block is a number.
LEMMA BlockNumber ==
  ASSUME NEW block \in Seq(Frames), Starts(block) # {}
  PROVE  block[Max(Starts(block))].ev \in 0..MaxEvents + 1
<1> DEFINE T == Starts(block)
<1>1. Len(block) \in Nat /\ T \subseteq 0..Len(block) /\ T # {} /\ T \subseteq 1..Len(block)
  BY LenProperties DEF Starts
<1> HIDE DEF T
<1>2. Max(T) \in 1..Len(block)
  <2>1. Max(T) \in T
    BY <1>1, MaxOfNumbers
  <2>. QED BY <1>1, <2>1, Zenon
<1>3. block[Max(T)] \in Frames
  BY <1>2, ElementOfSeq
<1>. QED BY <1>3, BoundAssumption DEF Frames, T

\* A turn of the builder for FEM f closes its next event with the signal of a
\* block of words, up to the first end of event, or closes nothing.
LEMMA BuildCloses ==
  ASSUME TypeInv, NEW f \in FEM, BuildFEM(f)
  PROVE  LET b == buffer[f] \o tmpBuffer[f] IN
    \/ /\ UNCHANGED <<pendingEvent, ev_count, sEvent, closed>>
       /\ buffer' = [buffer EXCEPT ![f] = b]
    \/ /\ pendingEvent[f] /\ pendingEvent' = [pendingEvent EXCEPT ![f] = FALSE]
       /\ \E m \in bufferIndex[f] + 1..Len(b) : LET block == SubSeq(b, 1, m) IN
            /\ block \in Seq(Frames) /\ Len(block) = m
            /\ b[m].part = Parts
            /\ \A k \in bufferIndex[f] + 1..m - 1 : b[k].part # Parts
            /\ ev_count' = IF Starts(block) = {} THEN ev_count
                           ELSE block[Max(Starts(block))].ev
            /\ sEvent' = [sEvent EXCEPT ![f] = IF @ = None THEN SignalOf(f, block) ELSE @]
            /\ closed' = [closed EXCEPT ![f] = Append(@, SignalOf(f, block))]
            /\ buffer' = [buffer EXCEPT ![f] = SubSeq(b, m + 1, Len(b))]
<1> DEFINE b == buffer[f] \o tmpBuffer[f]
           ends == IF pendingEvent[f] THEN Ends(b, bufferIndex[f]) ELSE {}
           m == Min(ends)
           block == SubSeq(b, 1, m)
<1>1. b \in Seq(Frames) /\ bufferIndex[f] \in Nat
  BY ConcatTyped DEF TypeInv, TypeOK, NetOK, DataOK
<1>2. CASE KeepWaiting(f, b)
  BY <1>2 DEF KeepWaiting
<1>3. CASE ends # {} /\ CloseEvent(f, b, block)
  <2>1. pendingEvent[f] /\ ends = Ends(b, bufferIndex[f])
    BY <1>3
  <2>2. /\ m \in bufferIndex[f] + 1..Len(b) /\ b[m].part = Parts
        /\ \A k \in bufferIndex[f] + 1..m - 1 : b[k].part # Parts
    <3> HIDE DEF b, ends
    <3>. QED BY <1>1, <1>3, <2>1, FirstEnd
  <2>3. block \in Seq(Frames) /\ Len(block) = m
    <3> HIDE DEF b, m
    <3>1. m \in Int /\ 1 <= m /\ m <= Len(b)
      BY <1>1, <2>2
    <3>2. \A k \in 1..Len(b) : b[k] \in Frames
      BY <1>1, ElementOfSeq
    <3>3. \A k \in 1..m : b[k] \in Frames
      BY <1>1, <3>1, <3>2, LenProperties
    <3>4. Len(b) \in Nat /\ m - 1 + 1 = m
      BY <1>1, <3>1, LenProperties
    <3>. QED BY <3>1, <3>3, <3>4, SubSeqProperties DEF block
  <2>4. /\ pendingEvent' = [pendingEvent EXCEPT ![f] = FALSE]
        /\ ev_count' = IF Starts(block) = {} THEN ev_count
                       ELSE block[Max(Starts(block))].ev
        /\ sEvent' = [sEvent EXCEPT ![f] = IF @ = None THEN SignalOf(f, block) ELSE @]
        /\ closed' = [closed EXCEPT ![f] = Append(@, SignalOf(f, block))]
        /\ buffer' = [buffer EXCEPT ![f] = SubSeq(b, Len(block) + 1, Len(b))]
    BY <1>3 DEF CloseEvent
  <2> HIDE DEF m
  <2>. QED BY <2>1, <2>2, <2>3, <2>4
<1>. QED BY <1>2, <1>3 DEF BuildFEM

\* Only the builder and startDAQ change what EventMerge sees.
LEMMA OthersMergeNothing ==
  [Next]_vars /\ ~StartDAQ /\ ~SaveEvent /\ (\A f \in FEM : ~BuildFEM(f)) =>
    /\ runs' = runs /\ UNCHANGED <<closed, rows, saved, sEvent>>
    /\ \/ InitFEMs
       \/ UNCHANGED <<pendingEvent, ev_count>> /\ (bpc' = "init" => bpc = "init")
          /\ (bpc = "done" => bpc' = "done")
  BY DEF Next, Builder, vars, Emit, LoseFrame, RecvDataFrame, SetActiveFEM, EnterDAQ,
         StopRun, LeaveDAQ, ReturnDAQ, StopDAQ, JoinBuilder, InitFEMs, TestLoop,
         CountPass, mainVars, histVars, dataVars, loopVars

\* An event that is closed in every FEM is merged and, with a signal, stored.
LEMMA SaveMerges ==
  ASSUME IInv, MergeInv, SaveEvent
  PROVE  MergeInv' /\ (runs <= 1 => Merged!Next \/ UNCHANGED Merged!vars)
<1>1. /\ bpc = "save" /\ bpc' = "tail" /\ runs' = runs
      /\ ev_count' = ev_count /\ closed' = closed
  BY DEF SaveEvent, mainVars
<1>2. CASE ~newEvent
  <2>1. UNCHANGED <<rows, pendingEvent, saved, sEvent>>
    BY <1>2 DEF SaveEvent
  <2>2. MergeInv'
    BY <1>1, <2>1 DEF MergeInv, SavedType, SignalInv, StartInv
  <2>. QED BY <1>1, <2>1, <2>2 DEF Merged!vars
<1>3. CASE newEvent
  <2>1. /\ \A f \in FEM : ~pendingEvent[f] /\ Len(closed[f]) = rows + 1
        /\ rows \in Nat
    BY <1>1, <1>3 DEF IInv, PassInv, InStep, TypeInv, TypeOK, DataOK
  <2>2. /\ rows' = rows + 1 /\ sEvent' = [f \in FEM |-> None]
        /\ pendingEvent' = [f \in FEM |-> TRUE]
        /\ saved' = IF HasSignal(sEvent)
                      THEN Append(saved, [id |-> ev_count, sig |-> sEvent]) ELSE saved
    BY <1>3 DEF SaveEvent
  <2>3. sEvent \in [FEM -> Tags] /\ saved \in Seq(Stored) /\ ev_count \in 0..MaxEvents + 1
    BY DEF IInv, TypeInv, TypeOK, DataOK, MergeInv, SavedType
  <2>4. [id |-> ev_count, sig |-> sEvent] \in Stored
    BY <2>3 DEF Stored
  <2>5. saved' \in Seq(Stored)
    BY <2>2, <2>3, <2>4, AppendProperties
  <2>6. MergeInv'
    BY <1>1, <2>2, <2>3, <2>5 DEF MergeInv, SavedType, SignalInv, StartInv
  <2>7. ASSUME runs <= 1 PROVE Merged!Merge
    <3>1. Merged!Row(rows + 1) = sEvent
      <4>1. \A f \in FEM : sEvent[f] = closed[f][rows + 1]
        BY <2>1, <2>7 DEF MergeInv, SignalInv
      <4>. QED BY <2>3, <4>1 DEF Merged!Row
    <3>2. HasSignal(sEvent) => Out' = Append(Out, sEvent)
      BY <2>2, <2>3, <2>4, OutAppend DEF Out
    <3>3. ~HasSignal(sEvent) => Out' = Out
      BY <2>2 DEF Out
    <3>4. HasSignal(sEvent) <=> \E f \in FEM : Merged!Row(rows + 1)[f] # None
      BY <3>1 DEF HasSignal
    <3>5. \A f \in FEM : Len(closed[f]) > rows
      BY <2>1
    <3>. QED BY <1>1, <2>2, <3>1, <3>2, <3>3, <3>4, <3>5 DEF Merged!Merge, Out
  <2>. QED BY <2>6, <2>7 DEF Merged!Next
<1>. QED BY <1>2, <1>3

\* A turn of the builder for FEM f closes one event of it at most.
LEMMA BuildMerges ==
  ASSUME IInv, MergeInv, NEW f \in FEM, BuildFEM(f)
  PROVE  MergeInv' /\ (Merged!Next \/ UNCHANGED Merged!vars)
<1> DEFINE b == buffer[f] \o tmpBuffer[f]
<1>1. /\ bpc = "fem" /\ bpc' # "init" /\ UNCHANGED <<runs, rows, saved>>
  BY DEF BuildFEM, mainVars
<1>2. CASE UNCHANGED <<pendingEvent, ev_count, sEvent, closed>>
  BY <1>1, <1>2 DEF MergeInv, SavedType, SignalInv, StartInv, Merged!vars
<1>3. CASE ~UNCHANGED <<pendingEvent, ev_count, sEvent, closed>>
  <2>1. PICK block \in Seq(Frames) :
          /\ pendingEvent[f] /\ pendingEvent' = [pendingEvent EXCEPT ![f] = FALSE]
          /\ ev_count' = IF Starts(block) = {} THEN ev_count
                         ELSE block[Max(Starts(block))].ev
          /\ sEvent' = [sEvent EXCEPT ![f] = IF @ = None THEN SignalOf(f, block) ELSE @]
          /\ closed' = [closed EXCEPT ![f] = Append(@, SignalOf(f, block))]
    BY <1>3, BuildCloses DEF IInv
  <2> DEFINE sig == SignalOf(f, block)
  <2>2. sig \in Tags
    BY SignalTyped
  <2>3. SavedType'
    BY <1>1, <2>1, BlockNumber DEF MergeInv, SavedType
  <2>4. /\ closed \in [FEM -> Seq(Tags)] /\ sEvent \in [FEM -> Tags]
        /\ pendingEvent \in [FEM -> BOOLEAN] /\ Len(closed[f]) = rows
    BY <1>1, <2>1 DEF IInv, TypeInv, TypeOK, DataOK, InStep
  <2>5. SignalInv'
    <3> HIDE DEF sig
    <3> SUFFICES ASSUME runs <= 1, NEW g \in FEM
                 PROVE sEvent'[g] = IF pendingEvent'[g] THEN None ELSE closed'[g][rows + 1]
      BY <1>1 DEF SignalInv
    <3>1. sEvent[g] = IF pendingEvent[g] THEN None ELSE closed[g][rows + 1]
      BY DEF MergeInv, SignalInv
    <3>2. CASE g = f
      <4>1. sEvent'[f] = sig /\ ~pendingEvent'[f] /\ closed'[f] = Append(closed[f], sig)
        BY <2>1, <2>4, <3>1, <3>2 DEF sig
      <4>2. closed'[f][rows + 1] = sig
        BY <2>2, <2>4, <4>1, AppendProperties
      <4>. QED BY <3>2, <4>1, <4>2
    <3>3. CASE g # f
      BY <2>1, <2>4, <3>1, <3>3
    <3>. QED BY <3>2, <3>3
  <2>6. StartInv'
    BY <1>1 DEF MergeInv, StartInv
  <2>7. Merged!Close(f)
    BY <1>1, <2>1, <2>2 DEF Merged!Close
  <2>. QED BY <2>3, <2>5, <2>6, <2>7 DEF MergeInv, Merged!Next
<1>. QED BY <1>2, <1>3

\* The events stored are none at the start of a run.
LEMMA OutEmpty == saved = <<>> => Out = <<>>
  BY DEF Out

\* Initially nothing was merged, here and in EventMerge.
LEMMA InitMerge == Init => MergeInv /\ Merged!Init
<1> SUFFICES ASSUME Init PROVE MergeInv /\ Merged!Init
  OBVIOUS
<1>1. SavedType
  BY EmptySeq, BoundAssumption DEF Init, SavedType
<1>2. SignalInv /\ StartInv
  BY DEF Init, SignalInv, StartInv
<1>3. Merged!Init
  BY OutEmpty DEF Init, Merged!Init, Out
<1>. QED BY <1>1, <1>2, <1>3 DEF MergeInv

\* Every step of the first run keeps the signals where they belong, and is a
\* step of EventMerge or is not seen.
LEMMA NextMerge ==
  IInv /\ MergeInv /\ [Next]_vars =>
    MergeInv' /\ (runs <= 1 => Merged!Next \/ UNCHANGED Merged!vars)
<1> SUFFICES ASSUME IInv, MergeInv, [Next]_vars
             PROVE  MergeInv' /\ (runs <= 1 => Merged!Next \/ UNCHANGED Merged!vars)
  OBVIOUS
<1>0. runs \in Nat
  BY BoundAssumption DEF IInv, TypeInv, TypeOK, MainOK
<1>1. CASE StartDAQ
  <2>1. /\ runs' = runs + 1 /\ bpc' = "init" /\ rows' = 0 /\ saved' = <<>>
        /\ closed' = [f \in FEM |-> <<>>]
        /\ UNCHANGED <<pendingEvent, sEvent, ev_count>>
    BY <1>1 DEF StartDAQ, dataVars
  <2>2. SavedType'
    BY <2>1, EmptySeq DEF MergeInv, SavedType
  <2>3. runs' <= 1 => runs = 0
    BY <1>0, <2>1
  <2>4. SignalInv' /\ StartInv'
    BY <1>0, <2>1, <2>3 DEF MergeInv, SignalInv, StartInv
  <2>5. Merged!Restart
    BY <2>1, OutEmpty DEF Merged!Restart, Out
  <2>. QED BY <2>2, <2>4, <2>5 DEF MergeInv, Merged!Next
<1>2. CASE SaveEvent
  BY <1>2, SaveMerges
<1>3. ASSUME NEW f \in FEM, BuildFEM(f)
      PROVE  MergeInv' /\ (runs <= 1 => Merged!Next \/ UNCHANGED Merged!vars)
  BY <1>3, BuildMerges
<1>4. CASE ~StartDAQ /\ ~SaveEvent /\ \A f \in FEM : ~BuildFEM(f)
  <2>1. /\ runs' = runs /\ UNCHANGED <<closed, rows, saved, sEvent>>
        /\ \/ InitFEMs
           \/ UNCHANGED <<pendingEvent, ev_count>> /\ (bpc' = "init" => bpc = "init")
              /\ (bpc = "done" => bpc' = "done")
    BY <1>4, OthersMergeNothing
  <2>2. CASE InitFEMs
    <3>1. bpc = "init" /\ bpc' = "head" /\ ev_count' = 0
          /\ pendingEvent' = [f \in FEM |-> TRUE]
      BY <2>2 DEF InitFEMs
    <3>2. \A f \in FEM : runs <= 1 => pendingEvent[f]
      BY <1>0, <3>1 DEF MergeInv, StartInv
    <3>3. MergeInv'
      BY <1>0, <2>1, <3>1, <3>2, BoundAssumption DEF MergeInv, SavedType, SignalInv, StartInv
    <3>. QED BY <2>1, <3>3 DEF Merged!vars
  <2>3. CASE ~InitFEMs
    <3>1. MergeInv'
      BY <2>1, <2>3 DEF MergeInv, SavedType, SignalInv, StartInv
    <3>. QED BY <2>1, <3>1 DEF Merged!vars
  <2>. QED BY <2>2, <2>3
<1>. QED BY <1>1, <1>2, <1>3, <1>4

\* Whatever is lost, however the run is stopped and the next one started, each
\* step of the first run merges the next closed event of every FEM, stores it
\* as those events were closed, or is not seen.  A later run may store signals
\* that the run before it left (RunsSeparate).
FirstRunMerges == Merged!Init /\ [][runs <= 1 => Merged!Next]_(Merged!vars)

\* Whatever is lost and however the run ends, the first run merges the k-th
\* closed event of every FEM, in order, and stores those that have a signal.
THEOREM FirstRunMergesHolds == Spec => FirstRunMerges
<1>1. IInv /\ MergeInv /\ [Next]_vars =>
        MergeInv' /\ [runs <= 1 => Merged!Next]_(Merged!vars)
  BY NextMerge
<1>. QED BY <1>1, InitMerge, Inductive, PTL DEF Spec, FirstRunMerges

(***************************************************************************)
(* The words of a FEM stay in order in the first run.                      *)
(***************************************************************************)
\* The word that a FEM's stream has after word d.
After(d) == IF d.part < Parts \/ (Trailer /\ d.part = Parts)
              THEN Frame(d.run, d.ev, d.part + 1) ELSE Frame(d.run, d.ev + 1, 1)

\* Element k + 1 of s, or z after the last one; the first element, or z.
NextOf(s, k, z) == IF k = Len(s) THEN z ELSE s[k + 1]
FirstOf(s, z) == IF s = <<>> THEN z ELSE s[1]

\* The words of s follow each other, and z follows the last one.
Chain(s, z) == \A k \in 1..Len(s) : NextOf(s, k, z) = After(s[k])

\* Two chains of which the second continues the first are one.
LEMMA ConcatChain ==
  ASSUME NEW s \in Seq(Frames), NEW t \in Seq(Frames), NEW z,
         Chain(s, FirstOf(t, z)), Chain(t, z)
  PROVE  Chain(s \o t, z) /\ FirstOf(s \o t, z) = FirstOf(s, FirstOf(t, z))
<1> DEFINE u == s \o t
<1>1. /\ Len(s) \in Nat /\ Len(t) \in Nat /\ Len(u) = Len(s) + Len(t)
      /\ \A k \in 1..Len(s) + Len(t) : u[k] = IF k <= Len(s) THEN s[k] ELSE t[k - Len(s)]
  BY LenProperties, ConcatProperties
<1>2. (s = <<>> <=> Len(s) = 0) /\ (t = <<>> <=> Len(t) = 0)
  BY EmptySeq
<1>3. u = <<>> <=> Len(u) = 0
  BY ConcatTyped, EmptySeq
<1> HIDE DEF u
<1>4. ASSUME NEW k \in 1..Len(u) PROVE NextOf(u, k, z) = After(u[k])
  <2>1. CASE k < Len(s)
    BY <1>1, <2>1 DEF Chain, NextOf
  <2>2. CASE k = Len(s) /\ Len(t) = 0
    BY <1>1, <1>2, <2>2 DEF Chain, NextOf, FirstOf
  <2>3. CASE k = Len(s) /\ Len(t) # 0
    <3>1. u[k + 1] = t[1] /\ u[k] = s[k] /\ k # Len(u) /\ k \in 1..Len(s)
      BY <1>1, <2>3
    <3>. QED BY <1>2, <2>3, <3>1 DEF Chain, NextOf, FirstOf
  <2>4. CASE k > Len(s)
    <3> DEFINE j == k - Len(s)
    <3>1. j \in 1..Len(t) /\ u[k] = t[j] /\ (k = Len(u) <=> j = Len(t))
      BY <1>1, <2>4
    <3>2. k # Len(u) => u[k + 1] = t[j + 1]
      BY <1>1, <2>4
    <3> HIDE DEF j
    <3>. QED BY <3>1, <3>2 DEF Chain, NextOf
  <2>. QED BY <1>1, <2>1, <2>2, <2>3, <2>4
<1>5. FirstOf(u, z) = FirstOf(s, FirstOf(t, z))
  BY <1>1, <1>2, <1>3 DEF FirstOf
<1>. QED BY <1>4, <1>5 DEF u, Chain

\* What is left of a chain when its first m words are cut is a chain that
\* starts with the word after the last one cut.
LEMMA SuffixChain ==
  ASSUME NEW s \in Seq(Frames), NEW z, Chain(s, z), NEW m \in 1..Len(s)
  PROVE  LET t == SubSeq(s, m + 1, Len(s)) IN
           Chain(t, z) /\ FirstOf(t, z) = After(s[m])
<1> DEFINE t == SubSeq(s, m + 1, Len(s))
<1>1. Len(s) \in Nat /\ m \in Int /\ \A k \in 1..Len(s) : s[k] \in Frames
  BY LenProperties, ElementOfSeq
<1>2. /\ t \in Seq(Frames) /\ Len(t) = Len(s) - m
      /\ \A k \in 1..Len(s) - m : t[k] = s[m + k]
  <2>1. \A k \in m + 1..Len(s) : s[k] \in Frames
    BY <1>1
  <2>2. /\ t \in Seq(Frames)
        /\ Len(t) = IF m + 1 <= Len(s) THEN Len(s) - (m + 1) + 1 ELSE 0
        /\ \A k \in 1..Len(s) - (m + 1) + 1 : t[k] = s[m + 1 + k - 1]
    BY <1>1, <2>1, SubSeqProperties
  <2>3. \A k \in 1..Len(s) - m : t[k] = s[m + k]
    <3> SUFFICES ASSUME NEW k \in 1..Len(s) - m PROVE t[k] = s[m + k]
      OBVIOUS
    <3>1. k \in 1..Len(s) - (m + 1) + 1 /\ m + 1 + k - 1 = m + k
      BY <1>1
    <3> HIDE DEF t
    <3>. QED BY <2>2, <3>1
  <2> HIDE DEF t
  <2>. QED BY <1>1, <2>2, <2>3
<1>3. t = <<>> <=> Len(t) = 0
  BY <1>2, EmptySeq
<1> HIDE DEF t
<1>4. ASSUME NEW k \in 1..Len(t) PROVE NextOf(t, k, z) = After(t[k])
  <2> DEFINE j == m + k
  <2>1. j \in 1..Len(s) /\ t[k] = s[j] /\ (k = Len(t) <=> j = Len(s))
    BY <1>1, <1>2
  <2>2. k # Len(t) => t[k + 1] = s[j + 1]
    <3> SUFFICES ASSUME k # Len(t) PROVE t[k + 1] = s[j + 1]
      OBVIOUS
    <3>0. k \in 1..Len(s) - m /\ k # Len(s) - m
      BY <1>2
    <3>1. k + 1 \in 1..Len(s) - m /\ m + (k + 1) = j + 1
      BY <1>1, <3>0
    <3>. QED BY <1>2, <3>1
  <2> HIDE DEF j
  <2>. QED BY <2>1, <2>2 DEF Chain, NextOf
<1>5. FirstOf(t, z) = After(s[m])
  <2>1. NextOf(s, m, z) = After(s[m])
    BY DEF Chain
  <2>2. Len(t) # 0 => 1 \in 1..Len(s) - m
    BY <1>1, <1>2
  <2>. QED BY <1>1, <1>2, <1>3, <2>1, <2>2 DEF NextOf, FirstOf
<1>. QED BY <1>4, <1>5 DEF t, Chain

\* The words up to an end of event, when they start where event c + 1 starts
\* or at the end of frame word before it, are one event: that of number c + 1.
LEMMA EventBlock ==
  ASSUME NEW b \in Seq(Frames), NEW z, Chain(b, z), NEW c \in Nat, NEW m \in 1..Len(b),
         b[1] = Frame(1, c + 1, 1) \/ b[1] = Frame(1, c, Parts + 1),
         b[m].part = Parts, \A k \in 1..m - 1 : b[k].part # Parts
  PROVE  /\ \E s \in 1..m : Starts(SubSeq(b, 1, m)) = {s} /\ b[s] = Frame(1, c + 1, 1)
         /\ b[m] = Frame(1, c + 1, Parts)
<1> DEFINE E(i) == Frame(1, c + 1, i)
           block == SubSeq(b, 1, m)
<1>0. Len(b) \in Nat /\ Parts \in Nat \ {0} /\ m \in Int /\ 1 <= m
  BY LenProperties, SizeAssumption
<1>1. \A k \in 1..m - 1 : b[k + 1] = After(b[k])
  BY <1>0 DEF Chain, NextOf
<1>2. PICK s \in 1..m : b[s] = E(1) /\ \A k \in 1..s - 1 : b[k].part = Parts + 1
  <2>1. CASE b[1] = E(1)
    <3>1. 1 \in 1..m /\ 1..1 - 1 = {}
      BY <1>0
    <3>. QED BY <2>1, <3>1
  <2>2. CASE b[1] = Frame(1, c, Parts + 1)
    <3>1. b[1].run = 1 /\ b[1].ev = c /\ b[1].part = Parts + 1
      BY <2>2 DEF Frame
    <3>2. m # 1
      BY <1>0, <3>1
    <3>3. 1 \in 1..m - 1 /\ 2 \in 1..m /\ \A k \in 1..2 - 1 : k = 1
      BY <1>0, <3>2
    <3>4. b[2] = After(b[1])
      BY <1>1, <3>3
    <3>5. After(b[1]) = E(1)
      BY <1>0, <3>1 DEF After
    <3>. QED BY <3>1, <3>3, <3>4, <3>5
  <2>. QED BY <2>1, <2>2
<1>3. ASSUME NEW k \in s..m PROVE b[k] = E(k - s + 1) /\ k - s + 1 <= Parts
  <2> DEFINE B == {i \in s..m : ~(b[i] = E(i - s + 1) /\ i - s + 1 <= Parts)}
  <2> SUFFICES B = {}
    OBVIOUS
  <2> SUFFICES ASSUME B # {} PROVE FALSE
    OBVIOUS
  <2>1. B \subseteq Nat
    BY <1>0
  <2> DEFINE j == Min(B)
  <2>2. j \in B /\ \A y \in B : j <= y
    <3> HIDE DEF B
    <3>. QED BY <2>1, MinOfNats
  <2> HIDE DEF j
  <2>3. j \in s..m /\ j # s
    BY <1>0, <1>2, <2>2
  <2>4. j - 1 \in s..m /\ j - 1 \in 1..m - 1 /\ ~(j <= j - 1)
    BY <1>0, <2>3
  <2>5. ~(j - 1 \in B)
    <3> HIDE DEF B
    <3>. QED BY <2>2, <2>4
  <2>6. b[j - 1] = E(j - s) /\ j - s <= Parts
    <3>1. j - 1 - s + 1 = j - s
      BY <1>0, <2>3
    <3>. QED BY <2>4, <2>5, <3>1
  <2>7. b[j - 1].run = 1 /\ b[j - 1].ev = c + 1 /\ b[j - 1].part = j - s
    BY <2>6 DEF Frame
  <2>8. j - s < Parts
    <3>1. j - s # Parts
      BY <2>4, <2>7
    <3>2. j - s <= Parts
      BY <2>6
    <3>3. j - s \in Int
      BY <1>0, <2>3
    <3>. QED BY <1>0, <3>1, <3>2, <3>3
  <2>9. b[j] = After(b[j - 1])
    <3>1. j - 1 + 1 = j
      BY <2>3
    <3>. QED BY <1>1, <2>4, <3>1
  <2>10. b[j] = E(j - s + 1) /\ j - s + 1 <= Parts
    BY <1>0, <2>3, <2>7, <2>8, <2>9 DEF After
  <2>. QED BY <2>2, <2>10
<1>4. b[m] = E(Parts)
  <2>1. m \in s..m
    BY <1>0
  <2>2. b[m] = E(m - s + 1)
    BY <1>3, <2>1
  <2>3. m - s + 1 = Parts
    BY <2>2 DEF Frame
  <2>. QED BY <2>2, <2>3
<1>5. Starts(block) = {s}
  <2>1. block \in Seq(Frames) /\ Len(block) = m /\ \A k \in 1..m : block[k] = b[k]
    <3>1. \A k \in 1..m : b[k] \in Frames
      BY <1>0, ElementOfSeq
    <3>2. /\ block \in Seq(Frames) /\ Len(block) = m - 1 + 1
          /\ \A k \in 1..m - 1 + 1 : block[k] = b[1 + k - 1]
      BY <1>0, <3>1, SubSeqProperties
    <3>3. m - 1 + 1 = m /\ \A k \in 1..m : 1 + k - 1 = k
      BY <1>0
    <3> HIDE DEF block
    <3>. QED BY <3>2, <3>3
  <2>2. DOMAIN block = 1..m
    BY <2>1, LenProperties
  <2>3. ASSUME NEW k \in 1..m PROVE b[k].part = 1 <=> k = s
    <3>1. CASE k < s
      <4>1. k \in 1..s - 1
        BY <1>0, <3>1
      <4>. QED BY <1>0, <1>2, <3>1, <4>1
    <3>2. CASE k = s
      BY <1>2, <3>2 DEF Frame
    <3>3. CASE k > s
      <4>1. k \in s..m /\ k - s + 1 # 1
        BY <1>0, <3>3
      <4>2. b[k] = E(k - s + 1)
        BY <1>3, <4>1
      <4>3. b[k].part = k - s + 1
        BY <4>2 DEF Frame
      <4>. QED BY <3>3, <4>1, <4>3
    <3>. QED BY <1>0, <3>1, <3>2, <3>3
  <2> HIDE DEF block
  <2>. QED BY <2>1, <2>2, <2>3 DEF Starts
<1>. QED BY <1>2, <1>4, <1>5

\* The next frame that the receiver of f gets, the first word of tmpBuffer or
\* of that frame, and the first word that was not parsed.
SocketFirst(f) == FirstOf(socket[f], next[f])
TmpFirst(f) == FirstOf(tmpBuffer[f], SocketFirst(f))
BufferFirst(f) == FirstOf(buffer[f], TmpFirst(f))

\* What FEM f has on its way to the events before its thread asks for frames.
Untouched(f) == /\ ~armed[f] /\ next[f] = Frame(0, 1, 1)
                /\ socket[f] = <<>> /\ tmpBuffer[f] = <<>> /\ buffer[f] = <<>>
                /\ closed[f] = <<>>

\* The frames in the network and the next one follow each other.
SendsInOrder(f) ==
  /\ daq[f] # "enter" /\ next[f].run = 1 /\ next[f].part <= Parts
  /\ \A k \in 1..Len(socket[f]) :
       /\ socket[f][k].part <= Parts
       /\ NextOf(socket[f], k, next[f]) = Following(socket[f][k])

\* The words in the buffers follow each other up to that frame, and start with
\* the event after the last one closed or with the end of frame word before it.
BuildsInOrder(f) ==
  /\ Chain(tmpBuffer[f], SocketFirst(f)) /\ Chain(buffer[f], TmpFirst(f))
  /\ bpc = "init" => buffer[f] = <<>>
  /\ LET c == Len(closed[f])
     IN BufferFirst(f) = Frame(1, c + 1, 1) \/ BufferFirst(f) = Frame(1, c, Parts + 1)

InOrder(f) == /\ runs = 0 => daq[f] = "off"
              /\ Untouched(f) \/ (runs = 1 /\ SendsInOrder(f) /\ BuildsInOrder(f))

FirstRun == runs <= 1 /\ lost = 0

OrderInv == FirstRun => \A f \in FEM : InOrder(f)

\* The signal of event e of FEM f in the first run.
Sig(f, e) == IF <<f, e>> \in Hits THEN [run |-> 1, ev |-> e] ELSE None

\* Every closed event has its own signal, the number of the event in progress
\* is that of the next one to merge, and what is stored is one event.
EventInv == FirstRun =>
  /\ \A f \in FEM : \A k \in 1..Len(closed[f]) : closed[f][k] = Sig(f, k)
  /\ (\E f \in FEM : ~pendingEvent[f]) => ev_count = rows + 1
  /\ \A i \in 1..Len(saved) : \A f \in FEM : saved[i].sig[f] = Sig(f, saved[i].id)

\* A FEM of which nothing changes but its thread stays in order.
LEMMA OrderKept ==
  ASSUME NEW f \in FEM, InOrder(f), runs' = runs, bpc' = "init" => bpc = "init",
         UNCHANGED <<next[f], socket[f], tmpBuffer[f], buffer[f], closed[f]>>,
         daq'[f] = daq[f] \/ daq'[f] = "off", armed'[f] => armed[f]
  PROVE  InOrder(f)'
  BY DEF InOrder, Untouched, SendsInOrder, BuildsInOrder, BufferFirst, TmpFirst, SocketFirst,
         Chain, NextOf, FirstOf, Following, After

\* The next frame sent goes behind those in the network.
LEMMA EmitOrder ==
  ASSUME TypeInv, NEW f \in FEM, InOrder(f), Emit(f)
  PROVE  InOrder(f)'
<1> DEFINE s == socket[f]
           z == next[f]
<1>1. /\ socket'[f] = Append(s, z) /\ next'[f] = Following(z) /\ runs' = runs /\ armed[f]
      /\ UNCHANGED <<daq, tmpBuffer, buffer, closed, bpc>>
  BY DEF Emit, mainVars, daqVars, dataVars, loopVars, histVars, TypeInv, TypeOK, NetOK
<1>2. runs = 1 /\ SendsInOrder(f) /\ BuildsInOrder(f)
  BY <1>1 DEF InOrder, Untouched
<1>3. s \in Seq(Frames) /\ z \in Frames /\ Len(s) \in Nat
  BY LenProperties DEF TypeInv, TypeOK, NetOK
<1>4. next'[f].run = 1 /\ next'[f].part <= Parts
  BY <1>1, <1>2, <1>3, SizeAssumption DEF SendsInOrder, Following, Frame, Frames
<1>5. /\ Append(s, z) \in Seq(Frames) /\ Len(Append(s, z)) = Len(s) + 1
      /\ Append(s, z)[Len(s) + 1] = z /\ \A k \in 1..Len(s) : Append(s, z)[k] = s[k]
  BY <1>3, AppendProperties
<1> DEFINE t == Append(s, z)
<1>6. t # <<>> /\ (s = <<>> <=> Len(s) = 0)
  <2>1. \A q \in Seq(Frames) : q = <<>> <=> Len(q) = 0
    BY EmptySeq
  <2>2. t \in Seq(Frames) /\ Len(t) = Len(s) + 1
    BY <1>5
  <2> HIDE DEF t, s
  <2>. QED BY <1>3, <2>1, <2>2
<1> HIDE DEF t
<1>7. ASSUME NEW k \in 1..Len(t)
      PROVE  t[k].part <= Parts /\ NextOf(t, k, Following(z)) = Following(t[k])
  <2>1. CASE k = Len(t)
    BY <1>2, <1>3, <1>5, <2>1 DEF NextOf, SendsInOrder, t
  <2>2. CASE k # Len(t)
    <3>1. k \in 1..Len(s) /\ t[k] = s[k] /\ t[k + 1] = IF k = Len(s) THEN z ELSE s[k + 1]
      BY <1>3, <1>5, <2>2 DEF t
    <3>. QED BY <1>2, <2>2, <3>1 DEF NextOf, SendsInOrder
  <2>. QED BY <2>1, <2>2
<1>8. FirstOf(t, Following(z)) = FirstOf(s, z)
  BY <1>3, <1>5, <1>6 DEF FirstOf, t
<1>9. SendsInOrder(f)'
  BY <1>1, <1>2, <1>4, <1>7 DEF SendsInOrder, NextOf, Following, t
<1>10. SocketFirst(f)' = SocketFirst(f)
  BY <1>1, <1>8 DEF SocketFirst, FirstOf, t
<1>11. BuildsInOrder(f)'
  BY <1>1, <1>2, <1>10 DEF BuildsInOrder, BufferFirst, TmpFirst, FirstOf, Chain, NextOf, After
<1>. QED BY <1>1, <1>2, <1>9, <1>11 DEF InOrder

\* The words of a frame follow each other and come before the next frame.
LEMMA WordsChain ==
  ASSUME NEW d \in Frames, d.part <= Parts
  PROVE  Chain(Words(d), Following(d)) /\ FirstOf(Words(d), Following(d)) = d
<1>1. CASE Trailer /\ d.part = Parts
  <2> DEFINE e == Frame(d.run, d.ev, Parts + 1)
  <2>1. Words(d) = <<d, e>>
    BY <1>1 DEF Words
  <2>2. After(d) = e /\ After(e) = Following(d)
    BY <1>1, SizeAssumption DEF After, Following, Frame
  <2> HIDE DEF e
  <2>3. Len(<<d, e>>) = 2 /\ <<d, e>>[1] = d /\ <<d, e>>[2] = e /\ <<d, e>> # <<>>
    OBVIOUS
  <2>4. \A k \in 1..2 : k = 1 \/ k = 2
    OBVIOUS
  <2>. QED BY <2>1, <2>2, <2>3, <2>4 DEF Chain, NextOf, FirstOf
<1>2. CASE ~(Trailer /\ d.part = Parts)
  <2>1. Words(d) = <<d>>
    BY <1>2 DEF Words
  <2>2. After(d) = Following(d)
    BY <1>2, SizeAssumption DEF After, Following, Frame
  <2>3. Len(<<d>>) = 1 /\ <<d>>[1] = d /\ <<d>> # <<>> /\ \A k \in 1..1 : k = 1
    OBVIOUS
  <2>. QED BY <2>1, <2>2, <2>3 DEF Chain, NextOf, FirstOf
<1>. QED BY <1>1, <1>2

\* The words of the frame received go behind those in tmpBuffer.
LEMMA RecvOrder ==
  ASSUME TypeInv, NEW f \in FEM, InOrder(f), RecvDataFrame(f)
  PROVE  InOrder(f)'
<1> DEFINE s == socket[f]
           d == Head(s)
           t == Tail(s)
           z == next[f]
<1>1. /\ s # <<>> /\ socket'[f] = t /\ tmpBuffer'[f] = tmpBuffer[f] \o Words(d)
      /\ runs' = runs /\ UNCHANGED <<armed, next, daq, buffer, closed, bpc>>
  BY DEF RecvDataFrame, mainVars, daqVars, femVars, dataVars, loopVars, histVars,
         TypeInv, TypeOK, NetOK
<1>2. runs = 1 /\ SendsInOrder(f) /\ BuildsInOrder(f)
  BY <1>1 DEF InOrder, Untouched
<1>3. s \in Seq(Frames) /\ z \in Frames /\ Len(s) \in Nat /\ tmpBuffer[f] \in Seq(Frames)
  BY LenProperties DEF TypeInv, TypeOK, NetOK
<1>4. /\ d \in Frames /\ d = s[1] /\ t \in Seq(Frames) /\ Len(t) = Len(s) - 1
      /\ \A k \in 1..Len(t) : t[k] = s[k + 1]
  BY <1>1, <1>3, HeadTailProperties
<1>5. Len(s) # 0 /\ (t = <<>> <=> Len(t) = 0)
  <2>1. \A q \in Seq(Frames) : q = <<>> <=> Len(q) = 0
    BY EmptySeq
  <2> HIDE DEF s, t
  <2>. QED BY <1>1, <1>3, <1>4, <2>1
<1> HIDE DEF s, d, t, z
<1>6. 1 \in 1..Len(s)
  BY <1>3, <1>5
<1>7. \A k \in 1..Len(s) : s[k].part <= Parts /\ NextOf(s, k, z) = Following(s[k])
  BY <1>2 DEF SendsInOrder, s, z
<1>8. FirstOf(t, z) = Following(d) /\ FirstOf(s, z) = d
  <2>1. NextOf(s, 1, z) = Following(d)
    BY <1>4, <1>6, <1>7
  <2>2. CASE Len(s) = 1
    BY <1>1, <1>4, <1>5, <2>1, <2>2 DEF FirstOf, NextOf
  <2>3. CASE Len(s) # 1
    <3>1. 1 \in 1..Len(t)
      BY <1>3, <1>4, <1>5, <2>3
    <3>. QED BY <1>1, <1>4, <1>5, <2>1, <2>3, <3>1 DEF FirstOf, NextOf
  <2>. QED BY <2>2, <2>3
<1>9. ASSUME NEW k \in 1..Len(t) PROVE t[k].part <= Parts /\ NextOf(t, k, z) = Following(t[k])
  <2>1. k + 1 \in 1..Len(s) /\ t[k] = s[k + 1] /\ (k = Len(t) <=> k + 1 = Len(s))
    BY <1>3, <1>4
  <2>2. k # Len(t) => t[k + 1] = s[k + 1 + 1]
    <3>1. k # Len(t) => k + 1 \in 1..Len(t)
      BY <1>3, <1>4
    <3>. QED BY <1>4, <3>1
  <2>. QED BY <1>7, <2>1, <2>2 DEF NextOf
<1>10. SendsInOrder(f)'
  BY <1>1, <1>2, <1>9 DEF SendsInOrder, NextOf, Following, z
<1> DEFINE u == tmpBuffer[f]
           w == Words(d)
           y == Following(d)
<1>11. w \in Seq(Frames) /\ Chain(w, y) /\ FirstOf(w, y) = d
  BY <1>4, <1>6, <1>7, WordsTyped, WordsChain
<1>12. Chain(u, d)
  BY <1>2, <1>8 DEF BuildsInOrder, SocketFirst, s, z
<1>13. Chain(u \o w, y) /\ FirstOf(u \o w, y) = FirstOf(u, d)
  <2>1. u \in Seq(Frames)
    BY <1>3
  <2> HIDE DEF u, w, y
  <2>. QED BY <1>11, <1>12, <2>1, ConcatChain
<1>14. SocketFirst(f)' = y /\ SocketFirst(f) = d
  BY <1>1, <1>8 DEF SocketFirst, FirstOf, s, z
<1>15. TmpFirst(f)' = TmpFirst(f)
  BY <1>1, <1>13, <1>14 DEF TmpFirst, FirstOf
<1>16. Chain(tmpBuffer[f], SocketFirst(f))'
  BY <1>1, <1>13, <1>14 DEF Chain, NextOf, After
<1>17. BuildsInOrder(f)'
  BY <1>1, <1>2, <1>15, <1>16 DEF BuildsInOrder, BufferFirst, FirstOf, Chain, NextOf, After
<1>. QED BY <1>1, <1>2, <1>10, <1>17 DEF InOrder

\* A block with one start of event has the signal and the number of that event.
LEMMA BlockSignal ==
  ASSUME NEW f \in FEM, NEW block \in Seq(Frames), NEW s \in 1..Len(block), NEW e,
         Starts(block) = {s}, block[s] = Frame(1, e, 1)
  PROVE  SignalOf(f, block) = Sig(f, e) /\ block[Max(Starts(block))].ev = e
<1>1. block[s].run = 1 /\ block[s].ev = e
  BY DEF Frame
<1>2. Len(block) \in Nat /\ s \in 0..Len(block) /\ s \in Nat
  BY LenProperties
<1>3. Max({s}) = s
  <2>1. {s} \subseteq 0..Len(block) /\ {s} # {}
    BY <1>2
  <2>2. Max({s}) \in {s}
    BY <1>2, <2>1, MaxOfNumbers
  <2>. QED BY <2>2
<1>4. Min({s}) = s
  <2>1. {s} \subseteq Nat /\ {s} # {}
    BY <1>2
  <2>2. Min({s}) \in {s}
    BY <2>1, MinOfNats
  <2>. QED BY <2>2
<1>5. SignalOf(f, block) = Sig(f, e)
  <2>1. CASE <<f, e>> \in Hits
    <3>1. HitStarts(f, block) = {s}
      BY <1>1, <2>1 DEF HitStarts
    <3>2. SignalOf(f, block) = [run |-> block[s].run, ev |-> block[s].ev]
      BY <1>4, <3>1 DEF SignalOf
    <3>. QED BY <1>1, <2>1, <3>2 DEF Sig
  <2>2. CASE <<f, e>> \notin Hits
    <3>1. HitStarts(f, block) = {}
      BY <1>1, <2>2 DEF HitStarts
    <3>. QED BY <2>2, <3>1 DEF SignalOf, Sig
  <2>. QED BY <2>1, <2>2
<1>. QED BY <1>1, <1>3, <1>5

\* A turn of the builder for FEM f closes the next event of it, or none.
LEMMA BuildOrder ==
  ASSUME IInv, NEW f \in FEM, InOrder(f), BuildFEM(f)
  PROVE  /\ InOrder(f)'
         /\ \/ UNCHANGED <<pendingEvent, ev_count, closed>>
            \/ /\ pendingEvent[f] /\ runs = 1
               /\ ev_count' = Len(closed[f]) + 1
               /\ closed' = [closed EXCEPT ![f] = Append(@, Sig(f, Len(closed[f]) + 1))]
               /\ Sig(f, Len(closed[f]) + 1) \in Tags
<1> DEFINE b == buffer[f] \o tmpBuffer[f]
           z == SocketFirst(f)
           c == Len(closed[f])
<1>1. /\ bpc = "fem" /\ bpc' # "init" /\ runs' = runs /\ tmpBuffer'[f] = <<>>
      /\ UNCHANGED <<armed, next, socket, daq>>
  BY DEF BuildFEM, mainVars, daqVars, femVars, IInv, TypeInv, TypeOK, NetOK
<1>2. /\ buffer \in [FEM -> Seq(Frames)] /\ tmpBuffer \in [FEM -> Seq(Frames)]
      /\ closed \in [FEM -> Seq(Tags)] /\ c \in Nat /\ bufferIndex[f] \in Nat
      /\ pendingEvent \in [FEM -> BOOLEAN]
  BY LenProperties DEF IInv, TypeInv, TypeOK, NetOK, DataOK
<1>3. b \in Seq(Frames) /\ Len(b) \in Nat
  BY <1>2, ConcatTyped, LenProperties
<1>4. SocketFirst(f)' = z /\ TmpFirst(f)' = z
  BY <1>1 DEF SocketFirst, TmpFirst, FirstOf
<1>5. CASE Untouched(f)
  <2>1. b = <<>>
    BY <1>5 DEF Untouched
  <2>2. ~ \E m \in bufferIndex[f] + 1..Len(b) : TRUE
    BY <1>2, <2>1
  <2>3. /\ UNCHANGED <<pendingEvent, ev_count, sEvent, closed>>
        /\ buffer' = [buffer EXCEPT ![f] = b]
    <3> HIDE DEF b
    <3>. QED BY <2>2, BuildCloses DEF IInv, b
  <2>. QED BY <1>1, <1>2, <1>5, <2>1, <2>3 DEF InOrder, Untouched
<1>6. CASE ~Untouched(f)
  <2>1. runs = 1 /\ SendsInOrder(f) /\ BuildsInOrder(f)
    BY <1>6 DEF InOrder
  <2>2. SendsInOrder(f)'
    BY <1>1, <2>1 DEF SendsInOrder, NextOf, Following
  <2>3. Chain(b, z) /\ FirstOf(b, z) = BufferFirst(f)
    <3> HIDE DEF z
    <3>1. Chain(tmpBuffer[f], z) /\ Chain(buffer[f], FirstOf(tmpBuffer[f], z))
      BY <2>1 DEF BuildsInOrder, TmpFirst, z
    <3>2. Chain(b, z) /\ FirstOf(b, z) = FirstOf(buffer[f], FirstOf(tmpBuffer[f], z))
      BY <1>2, <3>1, ConcatChain
    <3>. QED BY <3>2 DEF BufferFirst, TmpFirst, z
  <2>4. Chain(tmpBuffer[f], SocketFirst(f))'
    BY <1>1, EmptySeq DEF Chain
  <2>5. FirstOf(b, z) = Frame(1, c + 1, 1) \/ FirstOf(b, z) = Frame(1, c, Parts + 1)
    BY <2>1, <2>3 DEF BuildsInOrder
  <2>6. ASSUME Chain(buffer'[f], z),
               LET k == Len(closed'[f]) IN \/ FirstOf(buffer'[f], z) = Frame(1, k + 1, 1)
                                           \/ FirstOf(buffer'[f], z) = Frame(1, k, Parts + 1)
        PROVE  InOrder(f)'
    <3>1. Chain(buffer[f], TmpFirst(f))'
      BY <1>4, <2>6 DEF Chain, NextOf, After
    <3>2. BufferFirst(f)' = FirstOf(buffer'[f], z)
      BY <1>4 DEF BufferFirst, FirstOf
    <3>3. BuildsInOrder(f)'
      BY <1>1, <2>4, <2>6, <3>1, <3>2 DEF BuildsInOrder
    <3>. QED BY <1>1, <2>1, <2>2, <3>3 DEF InOrder
  <2>7. CASE /\ UNCHANGED <<pendingEvent, ev_count, sEvent, closed>>
             /\ buffer' = [buffer EXCEPT ![f] = b]
    <3>1. buffer'[f] = b
      BY <1>2, <2>7
    <3>2. InOrder(f)'
      BY <2>3, <2>5, <2>6, <2>7, <3>1
    <3>. QED BY <2>7, <3>2
  <2>8. CASE ~(/\ UNCHANGED <<pendingEvent, ev_count, sEvent, closed>>
               /\ buffer' = [buffer EXCEPT ![f] = b])
    <3>1. pendingEvent[f]
      BY <2>8, BuildCloses DEF IInv
    <3>2. PICK m \in bufferIndex[f] + 1..Len(b) : LET block == SubSeq(b, 1, m) IN
            /\ block \in Seq(Frames) /\ Len(block) = m
            /\ b[m].part = Parts
            /\ \A k \in bufferIndex[f] + 1..m - 1 : b[k].part # Parts
            /\ ev_count' = IF Starts(block) = {} THEN ev_count
                           ELSE block[Max(Starts(block))].ev
            /\ closed' = [closed EXCEPT ![f] = Append(@, SignalOf(f, block))]
            /\ buffer' = [buffer EXCEPT ![f] = SubSeq(b, m + 1, Len(b))]
      BY <2>8, BuildCloses DEF IInv
    <3> DEFINE block == SubSeq(b, 1, m)
    <3>3. m \in 1..Len(b) /\ m \in Nat
      BY <1>2, <1>3, <3>2
    <3>4. ASSUME NEW k \in 1..m - 1 PROVE b[k].part # Parts
      <4>1. CASE k \in bufferIndex[f] + 1..m - 1
        BY <3>2, <4>1
      <4>2. CASE k \notin bufferIndex[f] + 1..m - 1
        <5>1. k \in 1..bufferIndex[f]
          BY <1>2, <3>3, <4>2
        <5>2. bufferIndex[f] <= Len(buffer[f]) /\ buffer[f][k].part # Parts
          BY <1>1, <5>1 DEF IInv, ScanInv
        <5>3. Len(buffer[f]) \in Nat /\ \A i \in 1..Len(buffer[f]) : b[i] = buffer[f][i]
          BY <1>2, ConcatPrefix
        <5>4. k \in 1..Len(buffer[f])
          BY <1>2, <5>1, <5>2, <5>3
        <5>. QED BY <5>2, <5>3, <5>4
      <4>. QED BY <4>1, <4>2
    <3>5. b[1] = Frame(1, c + 1, 1) \/ b[1] = Frame(1, c, Parts + 1)
      <4>1. b # <<>>
        <5> HIDE DEF b
        <5>1. Len(b) # 0
          BY <1>3, <3>3
        <5>. QED BY <5>1, EmptySeq
      <4>2. FirstOf(b, z) = b[1]
        BY <4>1 DEF FirstOf
      <4>. QED BY <2>5, <4>2
    <3>6. /\ \E s \in 1..m : Starts(block) = {s} /\ b[s] = Frame(1, c + 1, 1)
          /\ b[m] = Frame(1, c + 1, Parts)
      <4> HIDE DEF b, z
      <4>. QED BY <1>2, <1>3, <2>3, <3>2, <3>3, <3>4, <3>5, EventBlock
    <3>7. PICK s \in 1..m : Starts(block) = {s} /\ b[s] = Frame(1, c + 1, 1)
      BY <3>6
    <3>8. block \in Seq(Frames) /\ s \in 1..Len(block) /\ block[s] = Frame(1, c + 1, 1)
      <4>1. \A k \in 1..m : b[k] \in Frames
        <5>1. \A k \in 1..Len(b) : b[k] \in Frames
          BY <1>3, ElementOfSeq
        <5> HIDE DEF b
        <5>. QED BY <1>3, <3>3, <5>1
      <4>2. \A k \in 1..m - 1 + 1 : block[k] = b[1 + k - 1]
        <5> HIDE DEF b
        <5>. QED BY <3>3, <4>1, SubSeqProperties
      <4>3. s \in 1..m - 1 + 1 /\ 1 + s - 1 = s
        BY <3>3
      <4>. QED BY <3>2, <3>7, <4>2, <4>3
    <3>9. SignalOf(f, block) = Sig(f, c + 1) /\ block[Max(Starts(block))].ev = c + 1
      <4> HIDE DEF block, c
      <4>. QED BY <3>7, <3>8, BlockSignal
    <3>10. /\ ev_count' = c + 1 /\ buffer'[f] = SubSeq(b, m + 1, Len(b))
           /\ closed' = [closed EXCEPT ![f] = Append(@, Sig(f, c + 1))]
      BY <1>2, <3>2, <3>7, <3>9
    <3>11. closed'[f] = Append(closed[f], Sig(f, c + 1)) /\ Sig(f, c + 1) \in Tags
      <4>1. SignalOf(f, block) \in Tags
        BY <3>8, SignalTyped
      <4>. QED BY <1>2, <3>9, <3>10, <4>1
    <3>12. Len(closed'[f]) = c + 1
      BY <1>2, <3>11, AppendProperties
    <3>13. Chain(buffer'[f], z) /\ FirstOf(buffer'[f], z) = After(b[m])
      <4> HIDE DEF b, z
      <4>. QED BY <1>3, <2>3, <3>3, <3>10, SuffixChain
    <3>14. After(b[m]) = Frame(1, c + 1 + 1, 1) \/ After(b[m]) = Frame(1, c + 1, Parts + 1)
      BY <3>6, SizeAssumption DEF After, Frame
    <3>15. InOrder(f)'
      BY <2>6, <3>12, <3>13, <3>14
    <3>. QED BY <2>1, <3>1, <3>10, <3>11, <3>15
  <2>. QED BY <2>7, <2>8
<1>. QED BY <1>5, <1>6

\* The thread of FEM f asks for the first frames of the run.
LEMMA EnterOrder ==
  ASSUME TypeInv, runs <= 1, NEW f \in FEM, InOrder(f), EnterDAQ(f)
  PROVE  InOrder(f)'
<1>1. /\ daq[f] = "enter" /\ daq'[f] = "on" /\ next'[f] = Frame(runs, 1, 1)
      /\ tmpBuffer'[f] = <<>> \/ tmpBuffer'[f] = tmpBuffer[f]
      /\ UNCHANGED <<runs, bpc, socket, buffer, closed>>
  BY DEF EnterDAQ, mainVars, dataVars, loopVars, histVars, TypeInv, TypeOK, NetOK, MainOK
<1>2. Untouched(f) /\ runs = 1
  BY <1>1, BoundAssumption DEF InOrder, SendsInOrder, TypeInv, TypeOK, MainOK
<1>3. /\ socket'[f] = <<>> /\ tmpBuffer'[f] = <<>> /\ buffer'[f] = <<>> /\ closed'[f] = <<>>
      /\ next'[f] = Frame(1, 1, 1) /\ runs' = 1
  BY <1>1, <1>2 DEF Untouched
<1>4. Frame(1, 1, 1).run = 1 /\ Frame(1, 1, 1).part = 1 /\ 1 <= Parts
  BY SizeAssumption DEF Frame
<1>5. Len(<<>>) = 0 /\ 1..0 = {}
  OBVIOUS
<1>6. SendsInOrder(f)'
  BY <1>1, <1>3, <1>4, <1>5 DEF SendsInOrder
<1>7. BufferFirst(f)' = Frame(1, 1, 1)
  BY <1>3 DEF BufferFirst, TmpFirst, SocketFirst, FirstOf
<1>8. BuildsInOrder(f)'
  BY <1>3, <1>5, <1>7 DEF BuildsInOrder, Chain
<1>. QED BY <1>3, <1>6, <1>8 DEF InOrder

\* The steps that are nobody else's turn leave the stream of FEM g alone.
LEMMA OthersOrder ==
  ASSUME TypeInv, [Next]_vars, ~StartDAQ, ~InitFEMs, NEW g \in FEM,
         ~Emit(g), ~RecvDataFrame(g), ~EnterDAQ(g), ~BuildFEM(g), lost' = lost
  PROVE  /\ UNCHANGED <<runs, next[g], socket[g], tmpBuffer[g], buffer[g], closed[g]>>
         /\ daq'[g] = daq[g] \/ daq'[g] = "off"
         /\ armed'[g] => armed[g]
         /\ bpc' = "init" => bpc = "init"
<1> USE DEF TypeInv, TypeOK, NetOK, DataOK, MainOK
<1> DEFINE Same == /\ UNCHANGED <<runs, next[g], socket[g], tmpBuffer[g], buffer[g], closed[g]>>
                   /\ daq'[g] = daq[g] \/ daq'[g] = "off"
                   /\ armed'[g] => armed[g]
                   /\ bpc' = "init" => bpc = "init"
<1>1. ASSUME NEW f \in FEM, f # g, Emit(f) \/ RecvDataFrame(f) \/ EnterDAQ(f) PROVE Same
  BY <1>1 DEF Emit, RecvDataFrame, EnterDAQ, mainVars, daqVars, femVars, dataVars,
              loopVars, histVars
<1>2. ASSUME NEW f \in FEM, f # g, BuildFEM(f) PROVE Same
  BY <1>2 DEF BuildFEM, KeepWaiting, CloseEvent, mainVars, daqVars, femVars
<1>3. ASSUME NEW f \in FEM, LeaveDAQ(f) PROVE Same
  BY <1>3 DEF LeaveDAQ, mainVars, dataVars, loopVars, histVars
<1>4. ASSUME NEW f \in FEM PROVE ~LoseFrame(f)
  BY BoundAssumption DEF LoseFrame
<1>5. CASE \/ TestLoop \/ SaveEvent \/ CountPass \/ SetActiveFEM \/ StopRun \/ ReturnDAQ
           \/ StopDAQ \/ JoinBuilder \/ UNCHANGED vars
  BY <1>5 DEF TestLoop, SaveEvent, CountPass, SetActiveFEM, StopRun, ReturnDAQ, StopDAQ,
              JoinBuilder, vars, mainVars, daqVars, femVars, dataVars, loopVars, histVars
<1>. QED BY <1>1, <1>2, <1>3, <1>4, <1>5 DEF Next, Builder

\* The number of runs and the losses never decrease.
LEMMA FirstRunBefore ==
  TypeInv /\ [Next]_vars /\ FirstRun' => FirstRun /\ lost' = lost /\ (StartDAQ => runs = 0)
<1> SUFFICES ASSUME TypeInv, [Next]_vars, FirstRun'
             PROVE  FirstRun /\ lost' = lost /\ (StartDAQ => runs = 0)
  OBVIOUS
<1>1. runs \in Nat /\ lost \in Nat
  BY BoundAssumption DEF TypeInv, TypeOK, MainOK
<1>2. (runs' = runs /\ ~StartDAQ) \/ (StartDAQ /\ runs' = runs + 1)
  BY DEF Next, Builder, vars, Emit, LoseFrame, RecvDataFrame, SetActiveFEM, EnterDAQ,
         StopRun, LeaveDAQ, ReturnDAQ, StopDAQ, JoinBuilder, InitFEMs, TestLoop, BuildFEM,
         SaveEvent, CountPass, mainVars, StartDAQ
<1>3. lost' = lost \/ lost' = lost + 1
  BY DEF Next, Builder, vars, Emit, LoseFrame, RecvDataFrame, SetActiveFEM, EnterDAQ,
         StopRun, LeaveDAQ, ReturnDAQ, StopDAQ, JoinBuilder, InitFEMs, TestLoop, BuildFEM,
         SaveEvent, CountPass, StartDAQ
<1>. QED BY <1>1, <1>2, <1>3 DEF FirstRun

\* Every step without a loss in the first run keeps the streams in order.
LEMMA NextOrder == IInv /\ OrderInv /\ [Next]_vars => OrderInv'
<1> SUFFICES ASSUME IInv, OrderInv, [Next]_vars, FirstRun', NEW g \in FEM
             PROVE  InOrder(g)'
  BY DEF OrderInv
<1>1. TypeInv /\ runs <= 1 /\ lost' = lost /\ InOrder(g) /\ (StartDAQ => runs = 0)
  BY FirstRunBefore DEF IInv, OrderInv, FirstRun
<1>2. CASE StartDAQ
  <2>1. Untouched(g)
    BY <1>1, <1>2 DEF InOrder
  <2>2. /\ UNCHANGED <<armed, next, socket, tmpBuffer, buffer>> /\ closed'[g] = <<>>
        /\ runs' = runs + 1
    BY <1>2 DEF StartDAQ, femVars, dataVars
  <2>. QED BY <1>1, <1>2, <2>1, <2>2 DEF InOrder, Untouched
<1>3. CASE InitFEMs
  <2>1. /\ bpc = "init" /\ bpc' = "head" /\ buffer'[g] = <<>>
        /\ UNCHANGED <<runs, daq, armed, next, socket, tmpBuffer, closed>>
    BY <1>3 DEF InitFEMs, mainVars, daqVars, femVars, histVars
  <2>2. buffer[g] = <<>>
    BY <1>1, <2>1 DEF InOrder, Untouched, BuildsInOrder
  <2>. QED BY <1>1, <2>1, <2>2, OrderKept
<1>4. CASE Emit(g)
  BY <1>1, <1>4, EmitOrder
<1>5. CASE RecvDataFrame(g)
  BY <1>1, <1>5, RecvOrder
<1>6. CASE EnterDAQ(g)
  BY <1>1, <1>6, EnterOrder
<1>7. CASE BuildFEM(g)
  BY <1>1, <1>7, BuildOrder
<1>8. CASE ~(StartDAQ \/ InitFEMs \/ Emit(g) \/ RecvDataFrame(g) \/ EnterDAQ(g) \/ BuildFEM(g))
  BY <1>1, <1>8, OthersOrder, OrderKept
<1>. QED BY <1>2, <1>3, <1>4, <1>5, <1>6, <1>7, <1>8

\* Every step without a loss in the first run keeps the events whole: what a
\* FEM closes is its next event, what is stored is one event of every FEM.
LEMMA NextEvents == IInv /\ MergeInv /\ OrderInv /\ EventInv /\ [Next]_vars => EventInv'
<1> SUFFICES ASSUME IInv, MergeInv, OrderInv, EventInv, [Next]_vars, FirstRun'
             PROVE  EventInv'
  BY DEF EventInv
<1>1. TypeInv /\ FirstRun /\ (StartDAQ => runs = 0)
  BY FirstRunBefore DEF IInv
<1>2. /\ \A f \in FEM : \A k \in 1..Len(closed[f]) : closed[f][k] = Sig(f, k)
      /\ (\E f \in FEM : ~pendingEvent[f]) => ev_count = rows + 1
      /\ \A i \in 1..Len(saved) : \A f \in FEM : saved[i].sig[f] = Sig(f, saved[i].id)
  BY <1>1 DEF EventInv
<1>3. /\ closed \in [FEM -> Seq(Tags)] /\ saved \in Seq(Stored)
      /\ pendingEvent \in [FEM -> BOOLEAN] /\ rows \in Nat
  BY DEF IInv, TypeInv, TypeOK, DataOK, MergeInv, SavedType
<1>4. CASE StartDAQ
  <2>1. /\ saved' = <<>> /\ closed' = [f \in FEM |-> <<>>] /\ UNCHANGED pendingEvent
    BY <1>4 DEF StartDAQ, dataVars
  <2>2. \A f \in FEM : pendingEvent'[f]
    BY <1>1, <1>4, <2>1 DEF MergeInv, StartInv
  <2>3. Len(<<>>) = 0 /\ 1..0 = {}
    OBVIOUS
  <2>. QED BY <2>1, <2>2, <2>3 DEF EventInv
<1>5. CASE SaveEvent
  <2>1. /\ bpc = "save" /\ ev_count' = ev_count /\ closed' = closed
    BY <1>5 DEF SaveEvent
  <2>2. CASE ~newEvent
    <3>1. UNCHANGED <<rows, pendingEvent, saved>>
      BY <1>5, <2>2 DEF SaveEvent
    <3>. QED BY <1>2, <2>1, <3>1 DEF EventInv
  <2>3. CASE newEvent
    <3>1. \A f \in FEM : ~pendingEvent[f] /\ Len(closed[f]) = rows + 1
      BY <2>1, <2>3 DEF IInv, PassInv, InStep
    <3>2. /\ pendingEvent' = [f \in FEM |-> TRUE]
          /\ saved' = saved \/ saved' = Append(saved, [id |-> ev_count, sig |-> sEvent])
      BY <1>5, <2>3 DEF SaveEvent
    <3>3. ev_count = rows + 1
      <4>1. 1 \in FEM
        BY SizeAssumption DEF FEM
      <4>. QED BY <1>2, <3>1, <4>1
    <3>4. ASSUME NEW f \in FEM PROVE sEvent[f] = Sig(f, ev_count)
      <4>1. sEvent[f] = closed[f][rows + 1]
        BY <1>1, <3>1 DEF MergeInv, SignalInv, FirstRun
      <4>2. rows + 1 \in 1..Len(closed[f])
        BY <1>3, <3>1
      <4>. QED BY <1>2, <3>3, <4>1, <4>2
    <3> DEFINE r == [id |-> ev_count, sig |-> sEvent]
    <3>5. r \in Stored /\ r.id = ev_count /\ r.sig = sEvent
      BY DEF Stored, MergeInv, SavedType, IInv, TypeInv, TypeOK, DataOK
    <3> HIDE DEF r
    <3>6. ASSUME NEW i \in 1..Len(saved'), NEW f \in FEM
          PROVE saved'[i].sig[f] = Sig(f, saved'[i].id)
      <4>1. CASE saved' = saved
        BY <1>2, <4>1
      <4>2. CASE saved' = Append(saved, r)
        <5>1. /\ Len(saved) \in Nat /\ Len(saved') = Len(saved) + 1
              /\ saved'[Len(saved) + 1] = r /\ \A k \in 1..Len(saved) : saved'[k] = saved[k]
          BY <1>3, <3>5, <4>2, AppendProperties, LenProperties
        <5>2. i \in 1..Len(saved) \/ i = Len(saved) + 1
          BY <5>1
        <5>. QED BY <1>2, <3>4, <3>5, <5>1, <5>2
      <4>. QED BY <3>2, <4>1, <4>2 DEF r
    <3>. QED BY <1>2, <2>1, <3>2, <3>6 DEF EventInv
  <2>. QED BY <2>2, <2>3
<1>6. ASSUME NEW g \in FEM, BuildFEM(g) PROVE EventInv'
  <2>1. bpc = "fem" /\ UNCHANGED <<rows, saved>> /\ InOrder(g)
    BY <1>1, <1>6 DEF BuildFEM, OrderInv
  <2>2. CASE UNCHANGED <<pendingEvent, ev_count, closed>>
    BY <1>2, <2>1, <2>2 DEF EventInv
  <2>3. CASE ~UNCHANGED <<pendingEvent, ev_count, closed>>
    <3> DEFINE c == Len(closed[g])
               sig == Sig(g, c + 1)
    <3>1. /\ pendingEvent[g] /\ ev_count' = c + 1 /\ sig \in Tags
          /\ closed' = [closed EXCEPT ![g] = Append(@, sig)]
      BY <1>6, <2>1, <2>3, BuildOrder
    <3>2. c = rows
      BY <1>3, <2>1, <3>1 DEF IInv, InStep
    <3> HIDE DEF sig
    <3>4. /\ Len(Append(closed[g], sig)) = c + 1 /\ Append(closed[g], sig)[c + 1] = sig
          /\ \A k \in 1..c : Append(closed[g], sig)[k] = closed[g][k]
      BY <1>3, <3>1, AppendProperties
    <3>5. ASSUME NEW f \in FEM, NEW k \in 1..Len(closed'[f]) PROVE closed'[f][k] = Sig(f, k)
      <4>1. CASE f # g
        BY <1>2, <1>3, <3>1, <4>1
      <4>2. CASE f = g
        <5>1. closed'[f] = Append(closed[g], sig)
          BY <1>3, <3>1, <4>2
        <5>2. k \in 1..c \/ k = c + 1
          BY <1>3, <3>2, <3>4, <5>1
        <5>. QED BY <1>2, <3>4, <4>2, <5>1, <5>2 DEF sig
      <4>. QED BY <4>1, <4>2
    <3>. QED BY <1>2, <2>1, <3>1, <3>2, <3>5 DEF EventInv
  <2>. QED BY <2>2, <2>3
<1>7. CASE ~StartDAQ /\ ~SaveEvent /\ \A f \in FEM : ~BuildFEM(f)
  <2>1. /\ UNCHANGED <<closed, rows, saved>>
        /\ InitFEMs \/ UNCHANGED <<pendingEvent, ev_count>>
    BY <1>7, OthersMergeNothing
  <2>2. InitFEMs => \A f \in FEM : pendingEvent'[f]
    BY DEF InitFEMs
  <2>. QED BY <1>2, <2>1, <2>2 DEF EventInv
<1>. QED BY <1>4, <1>5, <1>6, <1>7

\* While no frame was lost, each event stored by a first run holds the signals
\* of one event of the front ends, and carries its number.
THEOREM EventsAlignedHolds == Spec => []EventsAligned
<1>1. Init => OrderInv /\ EventInv
  <2> SUFFICES ASSUME Init PROVE OrderInv /\ EventInv
    OBVIOUS
  <2>1. Len(<<>>) = 0 /\ 1..0 = {}
    OBVIOUS
  <2>. QED BY <2>1 DEF Init, OrderInv, InOrder, Untouched, EventInv
<1>2. MergeInv /\ EventInv => EventsAligned
  <2> SUFFICES ASSUME MergeInv, EventInv, runs = 1, lost = 0,
                      NEW i \in DOMAIN saved, NEW f \in FEM
               PROVE  saved[i].sig[f] = IF <<f, saved[i].id>> \in Hits
                                          THEN [run |-> 1, ev |-> saved[i].id] ELSE None
    BY DEF EventsAligned
  <2>1. i \in 1..Len(saved)
    BY LenProperties DEF MergeInv, SavedType
  <2>. QED BY <2>1 DEF EventInv, FirstRun, Sig
<1>3. IInv /\ MergeInv /\ [Next]_vars => MergeInv'
  BY NextMerge
<1>4. Init => MergeInv
  BY InitMerge
<1>. QED BY <1>1, <1>2, <1>3, <1>4, NextOrder, NextEvents, Inductive, PTL DEF Spec

(***************************************************************************)
(* What losses do to the first run.                                        *)
(***************************************************************************)
\* e is the number of an event that may be the n-th one that a FEM closes when
\* there were l losses.
Within(e, n, l) == n <= e /\ e <= n + l

\* How many events the word d closes, and whether it may be in the n-th one:
\* an end of frame word, whose event is closed already, may be anywhere.
Closes(d) == IF d.part = Parts THEN 1 ELSE 0
Near(d, n, l) == d.part <= Parts => Within(d.ev, n, l)

\* The words of s begin in the a-th event to be closed and end in the z-th; at
\* gives the event of the word after the k-th.
Spans(s, a, z, l, at) ==
  /\ at \in [0..Len(s) -> Int] /\ at[0] = a /\ at[Len(s)] = z
  /\ \A k \in 1..Len(s) : at[k] = at[k - 1] + Closes(s[k]) /\ Near(s[k], at[k - 1], l)

Span(s, a, z, l) == \E at : Spans(s, a, z, l, at)

\* No words span nothing.
LEMMA SpanNone == ASSUME NEW a \in Int, NEW l \in Nat PROVE Span(<<>>, a, a, l)
<1>1. Spans(<<>>, a, a, l, [k \in 0..0 |-> a])
  BY DEF Spans
<1>. QED BY <1>1 DEF Span

\* Words behind words.
LEMMA SpanConcat ==
  ASSUME NEW s \in Seq(Frames), NEW t \in Seq(Frames), NEW a, NEW y, NEW z, NEW l,
         Span(s, a, y, l), Span(t, y, z, l)
  PROVE  Span(s \o t, a, z, l)
<1> DEFINE u == s \o t
<1>1. /\ Len(s) \in Nat /\ Len(t) \in Nat /\ Len(u) = Len(s) + Len(t)
      /\ \A k \in 1..Len(s) + Len(t) : u[k] = IF k <= Len(s) THEN s[k] ELSE t[k - Len(s)]
  BY LenProperties, ConcatProperties
<1>2. PICK p : Spans(s, a, y, l, p)
  BY DEF Span
<1>3. PICK q : Spans(t, y, z, l, q)
  BY DEF Span
<1> HIDE DEF u
<1> DEFINE at == [k \in 0..Len(u) |-> IF k <= Len(s) THEN p[k] ELSE q[k - Len(s)]]
<1>4. at \in [0..Len(u) -> Int]
  <2> SUFFICES ASSUME NEW k \in 0..Len(u)
               PROVE (IF k <= Len(s) THEN p[k] ELSE q[k - Len(s)]) \in Int
    OBVIOUS
  <2>1. k <= Len(s) => k \in 0..Len(s)
    BY <1>1
  <2>2. ~(k <= Len(s)) => k - Len(s) \in 0..Len(t)
    BY <1>1
  <2>. QED BY <1>2, <1>3, <2>1, <2>2 DEF Spans
<1>5. at[0] = a /\ at[Len(u)] = z
  <2>1. 0 \in 0..Len(u) /\ Len(u) \in 0..Len(u) /\ 0 <= Len(s)
    BY <1>1
  <2>2. CASE Len(t) = 0
    <3>1. y = z
      BY <1>3, <2>2 DEF Spans
    <3>. QED BY <1>1, <1>2, <2>1, <2>2, <3>1 DEF Spans
  <2>3. CASE Len(t) # 0
    <3>1. ~(Len(u) <= Len(s)) /\ Len(u) - Len(s) = Len(t)
      BY <1>1, <2>3
    <3>. QED BY <1>2, <1>3, <2>1, <3>1 DEF Spans
  <2>. QED BY <2>2, <2>3
<1>6. ASSUME NEW k \in 1..Len(u)
      PROVE  at[k] = at[k - 1] + Closes(u[k]) /\ Near(u[k], at[k - 1], l)
  <2>1. k \in 0..Len(u) /\ k - 1 \in 0..Len(u)
    BY <1>1
  <2>2. CASE k <= Len(s)
    <3>1. k \in 1..Len(s) /\ k - 1 <= Len(s) /\ u[k] = s[k]
      BY <1>1, <2>2
    <3>2. at[k] = p[k] /\ at[k - 1] = p[k - 1]
      BY <2>1, <2>2, <3>1
    <3> HIDE DEF at
    <3>. QED BY <1>2, <3>1, <3>2 DEF Spans
  <2>3. CASE ~(k <= Len(s))
    <3> DEFINE j == k - Len(s)
    <3>1. j \in 1..Len(t) /\ u[k] = t[j] /\ k - 1 - Len(s) = j - 1
      BY <1>1, <2>3
    <3>2. at[k] = q[j]
      BY <2>1, <2>3
    <3>3. at[k - 1] = q[j - 1]
      <4>1. CASE k - 1 <= Len(s)
        <5>1. k - 1 = Len(s) /\ j - 1 = 0
          BY <1>1, <2>3, <4>1
        <5>2. at[k - 1] = p[Len(s)]
          BY <2>1, <4>1, <5>1
        <5>. QED BY <1>2, <1>3, <5>1, <5>2 DEF Spans
      <4>2. CASE ~(k - 1 <= Len(s))
        BY <2>1, <3>1, <4>2
      <4>. QED BY <4>1, <4>2
    <3> HIDE DEF at, j
    <3>. QED BY <1>3, <3>1, <3>2, <3>3 DEF Spans
  <2>. QED BY <2>2, <2>3
<1> HIDE DEF at
<1>7. Spans(u, a, z, l, at)
  BY <1>4, <1>5, <1>6 DEF Spans
<1>. QED BY <1>7 DEF Span, u

\* One word.
LEMMA SpanOne ==
  ASSUME NEW d \in Frames, NEW a \in Int, NEW l \in Nat, Near(d, a, l)
  PROVE  Span(<<d>>, a, a + Closes(d), l)
<1> DEFINE at == [k \in 0..1 |-> IF k = 0 THEN a ELSE a + Closes(d)]
<1>1. Closes(d) \in Int
  BY DEF Closes
<1>2. Len(<<d>>) = 1 /\ <<d>>[1] = d /\ \A k \in 1..1 : k = 1
  OBVIOUS
<1>3. at \in [0..1 -> Int] /\ at[0] = a /\ at[1] = a + Closes(d)
  BY <1>1
<1> HIDE DEF at
<1>4. Spans(<<d>>, a, a + Closes(d), l, at)
  BY <1>2, <1>3 DEF Spans
<1>. QED BY <1>4 DEF Span

\* Words without the first one.
LEMMA SpanTail ==
  ASSUME NEW s \in Seq(Frames), s # <<>>, NEW a, NEW z, NEW l, Span(s, a, z, l)
  PROVE  /\ a \in Int /\ Near(Head(s), a, l) /\ Span(Tail(s), a + Closes(Head(s)), z, l)
<1> DEFINE t == Tail(s)
<1>1. /\ Head(s) = s[1] /\ t \in Seq(Frames) /\ Len(t) = Len(s) - 1
      /\ \A k \in 1..Len(t) : t[k] = s[k + 1]
  BY HeadTailProperties
<1>2. Len(s) \in Nat /\ Len(s) # 0
  BY EmptySeq, LenProperties
<1>3. PICK p : Spans(s, a, z, l, p)
  BY DEF Span
<1> HIDE DEF t
<1> DEFINE at == [k \in 0..Len(t) |-> p[k + 1]]
<1>4. at \in [0..Len(t) -> Int]
  <2>1. \A k \in 0..Len(t) : k + 1 \in 0..Len(s)
    BY <1>1, <1>2
  <2>. QED BY <1>3, <2>1 DEF Spans
<1>5. a \in Int /\ p[1] = a + Closes(s[1]) /\ Near(s[1], a, l)
  <2>1. 1 \in 1..Len(s) /\ 1 - 1 = 0 /\ 0 \in 0..Len(s)
    BY <1>2
  <2>. QED BY <1>3, <2>1 DEF Spans
<1>6. at[0] = a + Closes(s[1]) /\ at[Len(t)] = z
  <2>1. 0 \in 0..Len(t) /\ Len(t) \in 0..Len(t) /\ Len(t) + 1 = Len(s)
    BY <1>1, <1>2
  <2>. QED BY <1>3, <1>5, <2>1 DEF Spans
<1>7. ASSUME NEW k \in 1..Len(t)
      PROVE  at[k] = at[k - 1] + Closes(t[k]) /\ Near(t[k], at[k - 1], l)
  <2>1. /\ k \in 0..Len(t) /\ k - 1 \in 0..Len(t) /\ k + 1 \in 1..Len(s)
        /\ k - 1 + 1 = k /\ k + 1 - 1 = k
    BY <1>1, <1>2
  <2>2. at[k] = p[k + 1] /\ at[k - 1] = p[k] /\ t[k] = s[k + 1]
    BY <1>1, <2>1
  <2> HIDE DEF at
  <2>. QED BY <1>3, <2>1, <2>2 DEF Spans
<1> HIDE DEF at
<1>8. Spans(t, a + Closes(s[1]), z, l, at)
  BY <1>4, <1>6, <1>7 DEF Spans
<1>. QED BY <1>1, <1>5, <1>8 DEF Span, t

\* One more loss, of an end of event or not.
LEMMA SpanLoss ==
  ASSUME NEW s \in Seq(Frames), NEW a, NEW z, NEW l \in Nat, Span(s, a, z, l)
  PROVE  Span(s, a, z, l + 1) /\ Span(s, a - 1, z - 1, l + 1) /\ a \in Int /\ z \in Int
<1>1. PICK p : Spans(s, a, z, l, p)
  BY DEF Span
<1>2. Len(s) \in Nat /\ \A k \in 1..Len(s) : s[k] \in Frames
  BY LenProperties, ElementOfSeq
<1>3. \A k \in 1..Len(s) : s[k].ev \in Nat /\ Closes(s[k]) \in Int
  BY <1>2, BoundAssumption DEF Frames, Closes
<1>4. a \in Int /\ z \in Int /\ \A k \in 1..Len(s) : p[k] \in Int /\ p[k - 1] \in Int
  <2>1. 0 \in 0..Len(s) /\ Len(s) \in 0..Len(s)
        /\ \A k \in 1..Len(s) : k \in 0..Len(s) /\ k - 1 \in 0..Len(s)
    BY <1>2
  <2>. QED BY <1>1, <2>1 DEF Spans
<1>5. Spans(s, a, z, l + 1, p)
  BY <1>1, <1>3, <1>4 DEF Spans, Near, Within
<1> DEFINE q == [k \in 0..Len(s) |-> p[k] - 1]
<1>6. q \in [0..Len(s) -> Int] /\ q[0] = a - 1 /\ q[Len(s)] = z - 1
  <2>1. 0 \in 0..Len(s) /\ Len(s) \in 0..Len(s)
    BY <1>2
  <2>. QED BY <1>1, <2>1 DEF Spans
<1>7. ASSUME NEW k \in 1..Len(s)
      PROVE  q[k] = q[k - 1] + Closes(s[k]) /\ Near(s[k], q[k - 1], l + 1)
  <2>1. k \in 0..Len(s) /\ k - 1 \in 0..Len(s)
    BY <1>2
  <2>2. q[k] = p[k] - 1 /\ q[k - 1] = p[k - 1] - 1
    BY <2>1
  <2>3. p[k] = p[k - 1] + Closes(s[k]) /\ Near(s[k], p[k - 1], l)
    BY <1>1 DEF Spans
  <2> HIDE DEF q
  <2>. QED BY <1>3, <1>4, <2>2, <2>3 DEF Near, Within
<1> HIDE DEF q
<1>8. Spans(s, a - 1, z - 1, l + 1, q)
  BY <1>6, <1>7 DEF Spans
<1>. QED BY <1>4, <1>5, <1>8 DEF Span

\* The words up to the first end of event are in one event, what is left begins
\* in the next one.
LEMMA SpanCut ==
  ASSUME NEW s \in Seq(Frames), NEW a, NEW z, NEW l, Span(s, a, z, l), NEW m \in 1..Len(s),
         s[m].part = Parts, \A k \in 1..m - 1 : s[k].part # Parts
  PROVE  /\ a \in Int /\ \A k \in 1..m : Near(s[k], a, l)
         /\ Span(SubSeq(s, m + 1, Len(s)), a + 1, z, l)
<1> DEFINE t == SubSeq(s, m + 1, Len(s))
<1>1. Len(s) \in Nat /\ m \in Nat /\ m <= Len(s) /\ 1 <= m /\ \A k \in 1..Len(s) : s[k] \in Frames
  BY LenProperties, ElementOfSeq
<1>2. /\ t \in Seq(Frames) /\ Len(t) = Len(s) - m
      /\ \A k \in 1..Len(s) - m : t[k] = s[m + k]
  <2>1. \A k \in m + 1..Len(s) : s[k] \in Frames
    BY <1>1
  <2>2. /\ t \in Seq(Frames)
        /\ Len(t) = IF m + 1 <= Len(s) THEN Len(s) - (m + 1) + 1 ELSE 0
        /\ \A k \in 1..Len(s) - (m + 1) + 1 : t[k] = s[m + 1 + k - 1]
    BY <1>1, <2>1, SubSeqProperties
  <2>3. ASSUME NEW k \in 1..Len(s) - m PROVE t[k] = s[m + k]
    <3>1. k \in 1..Len(s) - (m + 1) + 1 /\ m + 1 + k - 1 = m + k
      BY <1>1
    <3> HIDE DEF t
    <3>. QED BY <2>2, <3>1
  <2> HIDE DEF t
  <2>. QED BY <1>1, <2>2, <2>3
<1>3. PICK p : Spans(s, a, z, l, p)
  BY DEF Span
<1>4. a \in Int
  <2>1. 0 \in 0..Len(s)
    BY <1>1
  <2>. QED BY <1>3, <2>1 DEF Spans
<1>5. \A k \in 0..m - 1 : p[k] = a
  <2> SUFFICES ASSUME NEW n \in 0..m - 1 PROVE p[n] = a
    OBVIOUS
  <2> DEFINE B == {k \in 0..n : p[k] = a}
  <2>1. n \in Nat /\ 0 \in B
    BY <1>1, <1>3 DEF Spans
  <2>2. ASSUME NEW k \in 0..n - 1, k \in B PROVE k + 1 \in B
    <3>1. k + 1 \in 1..Len(s) /\ k + 1 \in 1..m - 1 /\ k + 1 \in 0..n /\ k + 1 - 1 = k
      BY <1>1
    <3>2. p[k + 1] = p[k] + Closes(s[k + 1]) /\ Closes(s[k + 1]) = 0
      BY <1>3, <3>1 DEF Spans, Closes
    <3>. QED BY <1>4, <2>2, <3>1, <3>2
  <2>3. B \in SUBSET (0..n)
    OBVIOUS
  <2> HIDE DEF B
  <2>4. n \in B
    BY <2>1, <2>2, <2>3, UpTo
  <2>. QED BY <2>4 DEF B
<1>6. ASSUME NEW k \in 1..m PROVE Near(s[k], a, l)
  <2>1. k \in 1..Len(s) /\ k - 1 \in 0..m - 1
    BY <1>1
  <2>. QED BY <1>3, <1>5, <2>1 DEF Spans
<1>7. p[m] = a + 1
  <2>1. m - 1 \in 0..m - 1
    BY <1>1
  <2>2. p[m] = p[m - 1] + Closes(s[m])
    BY <1>3 DEF Spans
  <2>. QED BY <1>5, <2>1, <2>2 DEF Closes
<1> HIDE DEF t
<1> DEFINE at == [k \in 0..Len(t) |-> p[m + k]]
<1>8. at \in [0..Len(t) -> Int] /\ at[0] = a + 1 /\ at[Len(t)] = z
  <2>1. \A k \in 0..Len(t) : m + k \in 0..Len(s)
    BY <1>1, <1>2
  <2>2. 0 \in 0..Len(t) /\ Len(t) \in 0..Len(t) /\ m + Len(t) = Len(s) /\ m + 0 = m
    BY <1>1, <1>2
  <2>. QED BY <1>3, <1>7, <2>1, <2>2 DEF Spans
<1>9. ASSUME NEW k \in 1..Len(t)
      PROVE  at[k] = at[k - 1] + Closes(t[k]) /\ Near(t[k], at[k - 1], l)
  <2>1. /\ k \in 0..Len(t) /\ k - 1 \in 0..Len(t) /\ m + k \in 1..Len(s)
        /\ m + (k - 1) = m + k - 1 /\ t[k] = s[m + k]
    BY <1>1, <1>2
  <2>2. at[k] = p[m + k] /\ at[k - 1] = p[m + k - 1]
    BY <2>1
  <2> HIDE DEF at
  <2>. QED BY <1>3, <2>1, <2>2 DEF Spans
<1> HIDE DEF at
<1>10. Spans(t, a + 1, z, l, at)
  BY <1>8, <1>9 DEF Spans
<1>. QED BY <1>4, <1>6, <1>10 DEF Span, t

\* What FEM f has sent of the run: its words, in the order in which they are
\* parsed, begin in the event after the last one closed and end in that of the
\* next frame.
Stream(f) == \E x, y, z \in Int :
  /\ Span(buffer[f], Len(closed[f]) + 1, x, lost) /\ Span(tmpBuffer[f], x, y, lost)
  /\ Span(socket[f], y, z, lost) /\ Near(next[f], z, lost)
  /\ next[f].part <= Parts /\ \A k \in 1..Len(socket[f]) : socket[f][k].part <= Parts
  /\ daq[f] # "enter" /\ (bpc = "init" => buffer[f] = <<>>)

StreamsInv == runs <= 1 => \A f \in FEM :
  (runs = 0 => daq[f] = "off") /\ (Untouched(f) \/ (runs = 1 /\ Stream(f)))

\* An event in progress, and one that is stored, has signals and a number near
\* the row it is merged into.
NumbersInv == runs <= 1 =>
  /\ \A f \in FEM : sEvent[f] # None =>
       Within(sEvent[f].ev, rows + 1, lost) /\ Within(ev_count, rows + 1, lost)
  /\ \A i \in 1..Len(saved) : \E n \in Int : \A e \in Numbers(saved[i]) : Within(e, n, lost)

\* A loss does not undo what was near.
LEMMA NearAfter ==
  ASSUME NEW d \in Frames, NEW n \in Int, NEW l \in Nat, Near(d, n, l)
  PROVE  Near(d, n, l + 1) /\ Near(d, n - 1, l + 1)
<1>1. d.ev \in Nat
  BY BoundAssumption DEF Frames
<1>. QED BY <1>1 DEF Near, Within

\* A FEM whose words stay where they are keeps its stream, whatever is lost elsewhere.
LEMMA StreamKept ==
  ASSUME TypeInv, NEW f \in FEM, Stream(f), lost' \in {lost, lost + 1},
         bpc' = "init" => bpc = "init" \/ buffer[f] = <<>>,
         UNCHANGED <<next[f], socket[f], tmpBuffer[f], buffer[f], closed[f]>>,
         daq'[f] = daq[f] \/ daq'[f] = "off"
  PROVE  Stream(f)'
<1>1. PICK x \in Int, y \in Int, z \in Int :
        /\ Span(buffer[f], Len(closed[f]) + 1, x, lost) /\ Span(tmpBuffer[f], x, y, lost)
        /\ Span(socket[f], y, z, lost) /\ Near(next[f], z, lost)
        /\ next[f].part <= Parts /\ \A k \in 1..Len(socket[f]) : socket[f][k].part <= Parts
        /\ daq[f] # "enter" /\ (bpc = "init" => buffer[f] = <<>>)
  BY DEF Stream
<1>2. /\ buffer[f] \in Seq(Frames) /\ tmpBuffer[f] \in Seq(Frames) /\ socket[f] \in Seq(Frames)
      /\ next[f] \in Frames /\ lost \in Nat
  BY BoundAssumption DEF TypeInv, TypeOK, NetOK, DataOK, MainOK
<1>3. /\ Span(buffer[f], Len(closed[f]) + 1, x, lost') /\ Span(tmpBuffer[f], x, y, lost')
      /\ Span(socket[f], y, z, lost') /\ Near(next[f], z, lost')
  BY <1>1, <1>2, SpanLoss, NearAfter
<1>. QED BY <1>1, <1>3 DEF Stream

\* The next frame sent goes behind those in the network.
LEMMA EmitStream ==
  ASSUME TypeInv, NEW f \in FEM, Stream(f), Emit(f)
  PROVE  Stream(f)'
<1> DEFINE d == next[f]
<1>1. PICK x \in Int, y \in Int, z \in Int :
        /\ Span(buffer[f], Len(closed[f]) + 1, x, lost) /\ Span(tmpBuffer[f], x, y, lost)
        /\ Span(socket[f], y, z, lost) /\ Near(next[f], z, lost)
        /\ next[f].part <= Parts /\ \A k \in 1..Len(socket[f]) : socket[f][k].part <= Parts
        /\ daq[f] # "enter" /\ (bpc = "init" => buffer[f] = <<>>)
  BY DEF Stream
<1>2. /\ socket'[f] = Append(socket[f], d) /\ next'[f] = Following(d)
      /\ UNCHANGED <<lost, daq, tmpBuffer, buffer, closed, bpc>>
  BY DEF Emit, daqVars, dataVars, loopVars, histVars, TypeInv, TypeOK, NetOK
<1>3. socket[f] \in Seq(Frames) /\ d \in Frames /\ lost \in Nat
  BY BoundAssumption DEF TypeInv, TypeOK, NetOK, MainOK
<1>4. Span(socket'[f], y, z + Closes(d), lost)
  <2>1. Span(<<d>>, z, z + Closes(d), lost)
    <3> HIDE DEF d
    <3>. QED BY <1>1, <1>3, SpanOne DEF d
  <2>2. <<d>> \in Seq(Frames) /\ Append(socket[f], d) = socket[f] \o <<d>>
    BY <1>3
  <2>. QED BY <1>1, <1>2, <1>3, <2>1, <2>2, SpanConcat
<1>5. Near(Following(d), z + Closes(d), lost) /\ Following(d).part <= Parts
      /\ z + Closes(d) \in Int
  <2>1. d.part \in Nat /\ d.ev \in Nat /\ Within(d.ev, z, lost) /\ d.part <= Parts
    BY <1>1, <1>3, SizeAssumption, BoundAssumption DEF Frames, Near
  <2>2. CASE d.part < Parts
    BY <1>3, <2>1, <2>2, SizeAssumption DEF Following, Frame, Closes, Near, Within
  <2>3. CASE d.part = Parts
    BY <1>3, <2>1, <2>3, SizeAssumption DEF Following, Frame, Closes, Near, Within
  <2>. QED BY <2>1, <2>2, <2>3, SizeAssumption
<1>6. \A k \in 1..Len(socket'[f]) : socket'[f][k].part <= Parts
  <2>1. /\ Len(socket'[f]) = Len(socket[f]) + 1 /\ Len(socket[f]) \in Nat
        /\ socket'[f][Len(socket[f]) + 1] = d
        /\ \A k \in 1..Len(socket[f]) : socket'[f][k] = socket[f][k]
    BY <1>2, <1>3, AppendProperties, LenProperties
  <2>2. \A k \in 1..Len(socket[f]) + 1 : k \in 1..Len(socket[f]) \/ k = Len(socket[f]) + 1
    BY <2>1
  <2>. QED BY <1>1, <2>1, <2>2
<1>. QED BY <1>1, <1>2, <1>4, <1>5, <1>6 DEF Stream

\* The words of a frame span what the frame does.
LEMMA SpanWords ==
  ASSUME NEW d \in Frames, NEW a \in Int, NEW l \in Nat, Near(d, a, l)
  PROVE  Span(Words(d), a, a + Closes(d), l)
<1>1. Span(<<d>>, a, a + Closes(d), l)
  BY SpanOne
<1>2. CASE Trailer /\ d.part = Parts
  <2> DEFINE e == Frame(d.run, d.ev, Parts + 1)
             b == a + Closes(d)
  <2>1. e \in Frames /\ Closes(e) = 0 /\ Near(e, b, l) /\ b \in Int
    BY SizeAssumption DEF Frame, Frames, Closes, Near
  <2>2. Words(d) = <<d>> \o <<e>> /\ <<d>> \in Seq(Frames) /\ <<e>> \in Seq(Frames)
    BY <1>2, <2>1 DEF Words
  <2> HIDE DEF e, b
  <2>3. Span(<<e>>, b, b + Closes(e), l)
    BY <2>1, SpanOne
  <2>4. b + Closes(e) = b
    BY <2>1
  <2>. QED BY <1>1, <2>2, <2>3, <2>4, SpanConcat DEF b
<1>3. CASE ~(Trailer /\ d.part = Parts)
  BY <1>1, <1>3 DEF Words
<1>. QED BY <1>2, <1>3

\* The first frame in the network is received, or lost.
LEMMA HeadStream ==
  ASSUME TypeInv, NEW f \in FEM, Stream(f), RecvDataFrame(f) \/ LoseFrame(f)
  PROVE  Stream(f)'
<1> DEFINE s == socket[f]
           d == Head(s)
           t == Tail(s)
<1>1. PICK x \in Int, y \in Int, z \in Int :
        /\ Span(buffer[f], Len(closed[f]) + 1, x, lost) /\ Span(tmpBuffer[f], x, y, lost)
        /\ Span(s, y, z, lost) /\ Near(next[f], z, lost)
        /\ next[f].part <= Parts /\ \A k \in 1..Len(s) : s[k].part <= Parts
        /\ daq[f] # "enter" /\ (bpc = "init" => buffer[f] = <<>>)
  BY DEF Stream
<1>2. /\ s # <<>> /\ socket'[f] = t
      /\ UNCHANGED <<next, daq, buffer, closed, bpc>>
  BY DEF RecvDataFrame, LoseFrame, daqVars, femVars, dataVars, loopVars, histVars,
         TypeInv, TypeOK, NetOK
<1>3. /\ s \in Seq(Frames) /\ tmpBuffer[f] \in Seq(Frames) /\ buffer[f] \in Seq(Frames)
      /\ next[f] \in Frames /\ lost \in Nat
  BY BoundAssumption DEF TypeInv, TypeOK, NetOK, DataOK, MainOK
<1> HIDE DEF s
<1>4. /\ Near(d, y, lost) /\ Span(t, y + Closes(d), z, lost)
      /\ d = s[1] /\ d \in Frames /\ t \in Seq(Frames) /\ Len(t) = Len(s) - 1
      /\ \A k \in 1..Len(t) : t[k] = s[k + 1]
  BY <1>1, <1>2, <1>3, SpanTail, HeadTailProperties
<1>5. \A k \in 1..Len(t) : t[k].part <= Parts
  <2>1. Len(s) \in Nat
    BY <1>3, LenProperties
  <2>2. \A k \in 1..Len(t) : k + 1 \in 1..Len(s)
    BY <1>4, <2>1
  <2>. QED BY <1>1, <1>4, <2>2
<1>6. Closes(d) \in {0, 1} /\ y + Closes(d) \in Int
  BY DEF Closes
<1> HIDE DEF d, t
<1>7. CASE RecvDataFrame(f)
  <2>1. tmpBuffer'[f] = tmpBuffer[f] \o Words(d) /\ lost' = lost
    BY <1>3, <1>7 DEF RecvDataFrame, d, s, TypeInv, TypeOK, NetOK
  <2>2. Span(Words(d), y, y + Closes(d), lost) /\ Words(d) \in Seq(Frames)
    BY <1>3, <1>4, SpanWords, WordsTyped
  <2>3. Span(tmpBuffer'[f], x, y + Closes(d), lost)
    BY <1>1, <1>3, <2>1, <2>2, SpanConcat
  <2>. QED BY <1>1, <1>2, <1>4, <1>5, <1>6, <2>1, <2>3 DEF Stream
<1>8. CASE LoseFrame(f)
  <2>1. tmpBuffer'[f] = tmpBuffer[f] /\ lost' = lost + 1
    BY <1>8 DEF LoseFrame
  <2>2. Span(buffer[f], Len(closed[f]) + 1, x, lost + 1) /\ Span(tmpBuffer[f], x, y, lost + 1)
    BY <1>1, <1>3, SpanLoss
  <2>3. PICK w \in {z, z - 1} : Span(t, y, w, lost + 1)
    <3>1. CASE Closes(d) = 0
      <4>1. Span(t, y, z, lost)
        BY <1>4, <3>1
      <4>. QED BY <1>3, <1>4, <4>1, SpanLoss
    <3>2. CASE Closes(d) = 1
      <4>1. Span(t, y + 1 - 1, z - 1, lost + 1)
        BY <1>3, <1>4, <3>2, SpanLoss
      <4>2. y + 1 - 1 = y
        OBVIOUS
      <4>. QED BY <4>1, <4>2
    <3>. QED BY <1>6, <3>1, <3>2
  <2>4. Near(next[f], w, lost + 1) /\ w \in Int
    BY <1>1, <1>3, NearAfter
  <2>. QED BY <1>1, <1>2, <1>5, <2>1, <2>2, <2>3, <2>4 DEF Stream
<1>. QED BY <1>7, <1>8

\* The thread of FEM f asks for the first frames of the run.
LEMMA EnterStream ==
  ASSUME TypeInv, runs = 1, NEW f \in FEM, Untouched(f), EnterDAQ(f)
  PROVE  Stream(f)'
<1>1. /\ daq'[f] = "on" /\ next'[f] = Frame(1, 1, 1)
      /\ tmpBuffer'[f] = <<>> \/ tmpBuffer'[f] = tmpBuffer[f]
      /\ UNCHANGED <<socket, buffer, closed, lost>>
  BY DEF EnterDAQ, dataVars, histVars, TypeInv, TypeOK, NetOK, MainOK
<1>2. /\ socket'[f] = <<>> /\ tmpBuffer'[f] = <<>> /\ buffer'[f] = <<>> /\ closed'[f] = <<>>
      /\ lost \in Nat
  BY <1>1, BoundAssumption DEF Untouched, TypeInv, TypeOK, MainOK
<1>3. Len(<<>>) + 1 = 1 /\ 1..Len(<<>>) = {}
  OBVIOUS
<1>4. Near(next'[f], 1, lost) /\ next'[f].part <= Parts
  BY <1>1, <1>2, SizeAssumption DEF Near, Within, Frame
<1>5. Span(<<>>, 1, 1, lost)
  BY <1>2, SpanNone
<1>. QED BY <1>1, <1>2, <1>3, <1>4, <1>5 DEF Stream

\* A turn of the builder for FEM f closes nothing, or an event whose signal is of
\* an event near; then the number of the last event parsed is near as well.
LEMMA BuildStream ==
  ASSUME IInv, NEW f \in FEM, Stream(f), BuildFEM(f)
  PROVE  /\ Stream(f)'
         /\ \/ UNCHANGED <<ev_count, sEvent>>
            \/ LET n == Len(closed[f]) + 1 IN \E sig \in Tags :
                 /\ pendingEvent[f]
                 /\ sEvent' = [sEvent EXCEPT ![f] = IF @ = None THEN sig ELSE @]
                 /\ ev_count' = ev_count \/ Within(ev_count', n, lost)
                 /\ sig # None => Within(sig.ev, n, lost) /\ Within(ev_count', n, lost)
<1> DEFINE b == buffer[f] \o tmpBuffer[f]
           c == Len(closed[f])
<1>1. PICK x \in Int, y \in Int, z \in Int :
        /\ Span(buffer[f], c + 1, x, lost) /\ Span(tmpBuffer[f], x, y, lost)
        /\ Span(socket[f], y, z, lost) /\ Near(next[f], z, lost)
        /\ next[f].part <= Parts /\ \A k \in 1..Len(socket[f]) : socket[f][k].part <= Parts
        /\ daq[f] # "enter" /\ (bpc = "init" => buffer[f] = <<>>)
  BY DEF Stream
<1>2. /\ bpc = "fem" /\ bpc' # "init" /\ tmpBuffer'[f] = <<>>
      /\ UNCHANGED <<next, socket, daq, lost>>
  BY DEF BuildFEM, daqVars, femVars, IInv, TypeInv, TypeOK, NetOK
<1>3. /\ buffer \in [FEM -> Seq(Frames)] /\ tmpBuffer \in [FEM -> Seq(Frames)]
      /\ closed \in [FEM -> Seq(Tags)] /\ c \in Nat /\ bufferIndex[f] \in Nat /\ lost \in Nat
  BY LenProperties, BoundAssumption DEF IInv, TypeInv, TypeOK, NetOK, DataOK, MainOK
<1>4. b \in Seq(Frames) /\ Len(b) \in Nat /\ Span(b, c + 1, y, lost)
  BY <1>1, <1>3, ConcatTyped, LenProperties, SpanConcat
<1>5. Span(<<>>, y, y, lost)
  BY <1>3, SpanNone
<1>6. ASSUME Span(buffer'[f], Len(closed'[f]) + 1, y, lost) PROVE Stream(f)'
  BY <1>1, <1>2, <1>5, <1>6 DEF Stream
<1>7. CASE /\ UNCHANGED <<pendingEvent, ev_count, sEvent, closed>>
           /\ buffer' = [buffer EXCEPT ![f] = b]
  <2>1. buffer'[f] = b
    BY <1>3, <1>7
  <2>. QED BY <1>4, <1>6, <1>7, <2>1
<1>8. CASE ~(/\ UNCHANGED <<pendingEvent, ev_count, sEvent, closed>>
             /\ buffer' = [buffer EXCEPT ![f] = b])
  <2>1. pendingEvent[f]
    BY <1>8, BuildCloses DEF IInv
  <2>2. PICK m \in bufferIndex[f] + 1..Len(b) : LET block == SubSeq(b, 1, m) IN
          /\ block \in Seq(Frames) /\ Len(block) = m
          /\ b[m].part = Parts
          /\ \A k \in bufferIndex[f] + 1..m - 1 : b[k].part # Parts
          /\ ev_count' = IF Starts(block) = {} THEN ev_count
                         ELSE block[Max(Starts(block))].ev
          /\ sEvent' = [sEvent EXCEPT ![f] = IF @ = None THEN SignalOf(f, block) ELSE @]
          /\ closed' = [closed EXCEPT ![f] = Append(@, SignalOf(f, block))]
          /\ buffer' = [buffer EXCEPT ![f] = SubSeq(b, m + 1, Len(b))]
    BY <1>8, BuildCloses DEF IInv
  <2> DEFINE block == SubSeq(b, 1, m)
             T == Starts(block)
  <2>3. m \in 1..Len(b) /\ m \in Nat
    BY <1>3, <1>4, <2>2
  <2>4. ASSUME NEW k \in 1..m - 1 PROVE b[k].part # Parts
    <3>1. CASE k \in bufferIndex[f] + 1..m - 1
      BY <2>2, <3>1
    <3>2. CASE k \notin bufferIndex[f] + 1..m - 1
      <4>1. k \in 1..bufferIndex[f]
        BY <1>3, <2>3, <3>2
      <4>2. bufferIndex[f] <= Len(buffer[f]) /\ buffer[f][k].part # Parts
        BY <1>2, <4>1 DEF IInv, ScanInv
      <4>3. Len(buffer[f]) \in Nat /\ \A i \in 1..Len(buffer[f]) : b[i] = buffer[f][i]
        BY <1>3, ConcatPrefix
      <4>4. k \in 1..Len(buffer[f])
        BY <1>3, <4>1, <4>2, <4>3
      <4>. QED BY <4>2, <4>3, <4>4
    <3>. QED BY <3>1, <3>2
  <2>5. /\ \A k \in 1..m : Near(b[k], c + 1, lost)
        /\ Span(SubSeq(b, m + 1, Len(b)), c + 1 + 1, y, lost)
    <3> HIDE DEF b
    <3>. QED BY <1>4, <2>2, <2>3, <2>4, SpanCut
  <2>6. ASSUME NEW k \in T PROVE k \in 1..m /\ Within(block[k].ev, c + 1, lost)
    <3>1. /\ block \in Seq(Frames) /\ Len(block) = m
          /\ \A i \in 1..m - 1 + 1 : block[i] = b[1 + i - 1]
      <4>1. \A i \in 1..m : b[i] \in Frames
        <5>1. \A i \in 1..Len(b) : b[i] \in Frames
          BY <1>4, ElementOfSeq
        <5> HIDE DEF b
        <5>. QED BY <1>4, <2>3, <5>1
      <4> HIDE DEF b
      <4>. QED BY <2>2, <2>3, <4>1, SubSeqProperties
    <3>2. k \in 1..m /\ block[k].part = 1
      <4>1. DOMAIN block = 1..m
        BY <3>1, LenProperties
      <4> HIDE DEF block
      <4>. QED BY <4>1 DEF Starts
    <3>3. m - 1 + 1 = m /\ 1 + k - 1 = k
      BY <2>3, <3>2
    <3>4. block[k] = b[k]
      BY <3>1, <3>2, <3>3
    <3> HIDE DEF block, b
    <3>. QED BY <2>5, <3>2, <3>4, SizeAssumption DEF Near
  <2>7. T \subseteq Nat /\ (T # {} => Max(T) \in T)
    <3> HIDE DEF T, block
    <3>1. T \subseteq 0..m /\ T \subseteq Nat
      BY <2>3, <2>6
    <3>. QED BY <2>3, <3>1, MaxOfNumbers
  <2>8. ev_count' = ev_count \/ Within(ev_count', c + 1, lost)
    BY <2>2, <2>6, <2>7
  <2>9. ASSUME SignalOf(f, block) # None
        PROVE Within(SignalOf(f, block).ev, c + 1, lost) /\ Within(ev_count', c + 1, lost)
    <3> DEFINE H == HitStarts(f, block)
    <3>1. H # {} /\ SignalOf(f, block).ev = block[Min(H)].ev
      BY <2>9 DEF SignalOf
    <3>2. H \subseteq T /\ H \subseteq Nat
      <4>1. H \subseteq T
        BY DEF HitStarts
      <4> HIDE DEF H, T
      <4>. QED BY <2>7, <4>1
    <3>3. Min(H) \in T
      <4> HIDE DEF H, T
      <4>. QED BY <3>1, <3>2, MinOfNats
    <3>4. ev_count' = block[Max(T)].ev /\ Max(T) \in T
      BY <2>2, <2>7, <3>3
    <3> HIDE DEF T, H, block
    <3>. QED BY <2>6, <3>1, <3>3, <3>4
  <2>10. SignalOf(f, block) \in Tags
    BY <2>2, SignalTyped
  <2>11. closed'[f] = Append(closed[f], SignalOf(f, block))
         /\ buffer'[f] = SubSeq(b, m + 1, Len(b))
    BY <1>3, <2>2
  <2>12. Len(closed'[f]) = c + 1
    BY <1>3, <2>10, <2>11, AppendProperties
  <2>13. Stream(f)'
    BY <1>6, <2>5, <2>11, <2>12
  <2> HIDE DEF block, c
  <2>. QED BY <2>1, <2>2, <2>8, <2>9, <2>10, <2>13 DEF block, c
<1>. QED BY <1>7, <1>8

\* The steps that are nobody else's turn leave the words of FEM g alone, and lose
\* at most a stop command or a frame of another FEM.
LEMMA OthersStream ==
  ASSUME TypeInv, [Next]_vars, ~StartDAQ, ~InitFEMs, NEW g \in FEM,
         ~Emit(g), ~RecvDataFrame(g), ~LoseFrame(g), ~EnterDAQ(g), ~BuildFEM(g)
  PROVE  /\ UNCHANGED <<runs, next[g], socket[g], tmpBuffer[g], buffer[g], closed[g]>>
         /\ daq'[g] = daq[g] \/ daq'[g] = "off"
         /\ armed'[g] => armed[g]
         /\ bpc' = "init" => bpc = "init"
         /\ lost' \in {lost, lost + 1}
<1> USE DEF TypeInv, TypeOK, NetOK, DataOK, MainOK
<1> DEFINE Same == /\ UNCHANGED <<runs, next[g], socket[g], tmpBuffer[g], buffer[g], closed[g]>>
                   /\ daq'[g] = daq[g] \/ daq'[g] = "off"
                   /\ armed'[g] => armed[g]
                   /\ bpc' = "init" => bpc = "init"
                   /\ lost' \in {lost, lost + 1}
<1>1. ASSUME NEW f \in FEM, f # g, Emit(f) \/ RecvDataFrame(f) \/ EnterDAQ(f) PROVE Same
  BY <1>1 DEF Emit, RecvDataFrame, EnterDAQ, mainVars, daqVars, femVars, dataVars,
              loopVars, histVars
<1>2. ASSUME NEW f \in FEM, f # g, BuildFEM(f) PROVE Same
  BY <1>2 DEF BuildFEM, KeepWaiting, CloseEvent, mainVars, daqVars, femVars
<1>3. ASSUME NEW f \in FEM, LeaveDAQ(f) PROVE Same
  BY <1>3 DEF LeaveDAQ, mainVars, dataVars, loopVars, histVars
<1>4. ASSUME NEW f \in FEM, f # g, LoseFrame(f) PROVE Same
  BY <1>4 DEF LoseFrame, mainVars, daqVars, femVars, dataVars, loopVars, histVars
<1>5. CASE \/ TestLoop \/ SaveEvent \/ CountPass \/ SetActiveFEM \/ StopRun \/ ReturnDAQ
           \/ StopDAQ \/ JoinBuilder \/ UNCHANGED vars
  BY <1>5 DEF TestLoop, SaveEvent, CountPass, SetActiveFEM, StopRun, ReturnDAQ, StopDAQ,
              JoinBuilder, vars, mainVars, daqVars, femVars, dataVars, loopVars, histVars
<1>. QED BY <1>1, <1>2, <1>3, <1>4, <1>5 DEF Next, Builder

\* A FEM that was not asked for frames yet has none, which no step but its
\* thread's changes.
LEMMA UntouchedKept ==
  ASSUME TypeInv, [Next]_vars, ~StartDAQ, NEW g \in FEM, Untouched(g), ~EnterDAQ(g)
  PROVE  Untouched(g)'
<1>1. ~Emit(g) /\ ~RecvDataFrame(g) /\ ~LoseFrame(g)
  BY DEF Untouched, Emit, RecvDataFrame, LoseFrame
<1>2. CASE InitFEMs
  <2>1. buffer'[g] = <<>> /\ UNCHANGED <<armed, next, socket, tmpBuffer, closed>>
    BY <1>2 DEF InitFEMs, femVars, histVars
  <2>. QED BY <2>1 DEF Untouched
<1>3. CASE BuildFEM(g)
  <2> DEFINE b == buffer[g] \o tmpBuffer[g]
  <2>1. b = <<>> /\ bufferIndex[g] \in Nat
        /\ buffer \in [FEM -> Seq(Frames)] /\ tmpBuffer \in [FEM -> Seq(Frames)]
    BY DEF Untouched, TypeInv, TypeOK, NetOK, DataOK
  <2>2. ~ \E m \in bufferIndex[g] + 1..Len(b) : TRUE
    BY <2>1
  <2>3. UNCHANGED closed /\ buffer' = [buffer EXCEPT ![g] = b]
    <3> HIDE DEF b
    <3>. QED BY <1>3, <2>2, BuildCloses DEF b
  <2>4. tmpBuffer'[g] = <<>> /\ UNCHANGED <<armed, next, socket>>
    BY <1>3, <2>1 DEF BuildFEM, femVars
  <2>. QED BY <2>1, <2>3, <2>4 DEF Untouched
<1>4. CASE ~InitFEMs /\ ~BuildFEM(g)
  BY <1>1, <1>4, OthersStream DEF Untouched
<1>. QED BY <1>2, <1>3, <1>4

\* Runs are counted up, by startDAQ.
LEMMA RunsBefore ==
  TypeInv /\ [Next]_vars /\ runs' <= 1 =>
    runs <= 1 /\ (StartDAQ => runs = 0) /\ (~StartDAQ => runs' = runs)
<1>1. TypeInv => runs \in Nat
  BY BoundAssumption DEF TypeInv, TypeOK, MainOK
<1>2. [Next]_vars => (runs' = runs /\ ~StartDAQ) \/ (StartDAQ /\ runs' = runs + 1) \/ UNCHANGED runs
  BY DEF Next, Builder, vars, Emit, LoseFrame, RecvDataFrame, SetActiveFEM, EnterDAQ,
         StopRun, LeaveDAQ, ReturnDAQ, StopDAQ, JoinBuilder, InitFEMs, TestLoop, BuildFEM,
         SaveEvent, CountPass, mainVars, StartDAQ
<1>3. StartDAQ => runs' = runs + 1
  BY DEF StartDAQ
<1>. QED BY <1>1, <1>2, <1>3

\* Every step of the first run keeps the streams.
LEMMA NextStreams == IInv /\ StreamsInv /\ [Next]_vars => StreamsInv'
<1> SUFFICES ASSUME IInv, StreamsInv, [Next]_vars, runs' <= 1, NEW g \in FEM
             PROVE  (runs' = 0 => daq'[g] = "off") /\ (Untouched(g)' \/ (runs' = 1 /\ Stream(g)'))
  BY DEF StreamsInv
<1> DEFINE Goal == (runs' = 0 => daq'[g] = "off") /\ (Untouched(g)' \/ (runs' = 1 /\ Stream(g)'))
<1>1. /\ TypeInv /\ runs \in Nat /\ runs <= 1
      /\ (StartDAQ => runs = 0) /\ (~StartDAQ => runs' = runs)
      /\ (runs = 0 => daq[g] = "off") /\ (Untouched(g) \/ (runs = 1 /\ Stream(g)))
  BY RunsBefore, BoundAssumption DEF IInv, StreamsInv, TypeInv, TypeOK, MainOK
<1>2. CASE StartDAQ
  <2>1. Untouched(g)
    BY <1>1, <1>2
  <2>2. /\ UNCHANGED <<armed, next, socket, tmpBuffer, buffer>> /\ closed'[g] = <<>>
        /\ runs' = runs + 1
    BY <1>2 DEF StartDAQ, femVars, dataVars
  <2>. QED BY <1>1, <1>2, <2>1, <2>2 DEF Untouched
<1>3. CASE ~StartDAQ /\ EnterDAQ(g)
  <2>1. daq[g] = "enter"
    BY <1>3 DEF EnterDAQ
  <2>2. runs = 1 /\ Untouched(g)
    BY <1>1, <2>1 DEF Stream
  <2>. QED BY <1>1, <1>3, <2>2, EnterStream
<1>4. CASE ~StartDAQ /\ ~EnterDAQ(g)
  <2>1. runs' = 0 => daq'[g] = "off"
    <3> SUFFICES ASSUME runs = 0 PROVE daq'[g] = "off"
      BY <1>1, <1>4
    <3>1. daq[g] = "off" /\ Untouched(g)
      BY <1>1
    <3>2. ~Emit(g) /\ ~RecvDataFrame(g) /\ ~LoseFrame(g)
      BY <3>1 DEF Untouched, Emit, RecvDataFrame, LoseFrame
    <3>3. CASE InitFEMs \/ BuildFEM(g)
      BY <3>1, <3>3 DEF InitFEMs, BuildFEM, daqVars
    <3>4. CASE ~InitFEMs /\ ~BuildFEM(g)
      BY <1>1, <1>4, <3>1, <3>2, <3>4, OthersStream
    <3>. QED BY <3>3, <3>4
  <2>2. CASE runs = 0 /\ Untouched(g)
    BY <1>1, <1>4, <2>1, <2>2, UntouchedKept
  <2>3. CASE runs = 1 /\ Untouched(g)
    BY <1>1, <1>4, <2>1, <2>3, UntouchedKept
  <2>4. CASE runs = 1 /\ Stream(g)
    <3>1. CASE InitFEMs
      <4>1. /\ bpc = "init" /\ bpc' = "head" /\ buffer'[g] = <<>>
            /\ UNCHANGED <<runs, daq, next, socket, tmpBuffer, closed, lost>>
        BY <3>1 DEF InitFEMs, mainVars, daqVars, femVars, histVars
      <4>2. buffer[g] = <<>>
        BY <2>4, <4>1 DEF Stream
      <4>. QED BY <1>1, <2>4, <4>1, <4>2, StreamKept
    <3>2. CASE Emit(g) \/ RecvDataFrame(g) \/ LoseFrame(g)
      BY <1>1, <1>4, <2>4, <3>2, EmitStream, HeadStream
    <3>3. CASE BuildFEM(g)
      BY <1>1, <1>4, <2>4, <3>3, BuildStream
    <3>4. CASE ~(InitFEMs \/ Emit(g) \/ RecvDataFrame(g) \/ LoseFrame(g) \/ BuildFEM(g))
      BY <1>1, <1>4, <2>4, <3>4, OthersStream, StreamKept
    <3>. QED BY <1>1, <1>4, <2>4, <3>1, <3>2, <3>3, <3>4
  <2>. QED BY <1>1, <2>2, <2>3, <2>4
<1>. QED BY <1>2, <1>3, <1>4

\* The numbers of what is stored are numbers.
LEMMA NumbersTyped ==
  ASSUME NEW r \in Stored PROVE Numbers(r) \subseteq Nat
  BY BoundAssumption DEF Stored, Numbers, Tags

\* The losses are never fewer.
LEMMA LossesGrow == TypeInv /\ [Next]_vars => lost \in Nat /\ lost' \in {lost, lost + 1}
<1>1. TypeInv => lost \in Nat
  BY BoundAssumption DEF TypeInv, TypeOK, MainOK
<1>2. [Next]_vars => lost' \in {lost, lost + 1}
  BY DEF Next, Builder, vars, Emit, LoseFrame, RecvDataFrame, SetActiveFEM, EnterDAQ,
         StopRun, LeaveDAQ, ReturnDAQ, StopDAQ, JoinBuilder, InitFEMs, TestLoop, BuildFEM,
         SaveEvent, CountPass, StartDAQ
<1>. QED BY <1>1, <1>2

\* What was near stays near.
LEMMA WithinAfter ==
  ASSUME NEW e \in Nat, NEW n \in Int, NEW l \in Nat, Within(e, n, l), NEW k \in {l, l + 1}
  PROVE  Within(e, n, k)
  BY DEF Within

\* Every step of the first run keeps the numbers near.
LEMMA NextNumbers ==
  IInv /\ MergeInv /\ StreamsInv /\ NumbersInv /\ [Next]_vars => NumbersInv'
<1> SUFFICES ASSUME IInv, MergeInv, StreamsInv, NumbersInv, [Next]_vars, runs' <= 1
             PROVE  NumbersInv'
  BY DEF NumbersInv
<1>1. /\ TypeInv /\ runs <= 1 /\ (StartDAQ => runs = 0)
      /\ lost \in Nat /\ lost' \in {lost, lost + 1}
  <2>1. TypeInv
    BY DEF IInv
  <2>. QED BY <2>1, RunsBefore, LossesGrow
<1>2. /\ \A f \in FEM : sEvent[f] # None =>
           Within(sEvent[f].ev, rows + 1, lost) /\ Within(ev_count, rows + 1, lost)
      /\ \A i \in 1..Len(saved) : \E n \in Int : \A e \in Numbers(saved[i]) : Within(e, n, lost)
  BY <1>1 DEF NumbersInv
<1>3. /\ closed \in [FEM -> Seq(Tags)] /\ saved \in Seq(Stored) /\ sEvent \in [FEM -> Tags]
      /\ pendingEvent \in [FEM -> BOOLEAN] /\ rows \in Nat /\ ev_count \in Nat
      /\ \A f \in FEM : sEvent[f].ev \in Nat
  <2>1. /\ closed \in [FEM -> Seq(Tags)] /\ saved \in Seq(Stored) /\ sEvent \in [FEM -> Tags]
        /\ pendingEvent \in [FEM -> BOOLEAN] /\ rows \in Nat /\ ev_count \in 0..MaxEvents + 1
    BY DEF IInv, TypeInv, TypeOK, DataOK, MergeInv, SavedType
  <2>2. \A t \in Tags : t.ev \in Nat
    BY BoundAssumption DEF Tags
  <2>3. ev_count \in Nat
    BY <2>1, BoundAssumption
  <2>. QED BY <2>1, <2>2, <2>3
<1>4. \A i \in 1..Len(saved) : \E n \in Int : \A e \in Numbers(saved[i]) : Within(e, n, lost')
  <2> SUFFICES ASSUME NEW i \in 1..Len(saved)
               PROVE  \E n \in Int : \A e \in Numbers(saved[i]) : Within(e, n, lost')
    OBVIOUS
  <2>1. PICK n \in Int : \A e \in Numbers(saved[i]) : Within(e, n, lost)
    BY <1>2
  <2>2. Numbers(saved[i]) \subseteq Nat
    BY <1>3, ElementOfSeq, NumbersTyped
  <2>. QED BY <1>1, <2>1, <2>2, WithinAfter
<1>5. ASSUME NEW f \in FEM, sEvent[f] # None
      PROVE  Within(sEvent[f].ev, rows + 1, lost') /\ Within(ev_count, rows + 1, lost')
  <2>1. /\ Within(sEvent[f].ev, rows + 1, lost) /\ Within(ev_count, rows + 1, lost)
        /\ sEvent[f].ev \in Nat /\ ev_count \in Nat /\ rows + 1 \in Int
    BY <1>2, <1>3, <1>5
  <2>. QED BY <1>1, <2>1, WithinAfter
<1>6. \A f \in FEM : pendingEvent[f] => sEvent[f] = None
  BY <1>1 DEF MergeInv, SignalInv
<1>7. CASE StartDAQ
  <2>1. saved' = <<>> /\ UNCHANGED <<sEvent>>
    BY <1>7 DEF StartDAQ, dataVars
  <2>2. \A f \in FEM : sEvent[f] = None
    BY <1>1, <1>6, <1>7 DEF MergeInv, StartInv
  <2>3. 1..Len(<<>>) = {}
    OBVIOUS
  <2>. QED BY <2>1, <2>2, <2>3 DEF NumbersInv
<1>8. CASE SaveEvent
  <2>1. bpc = "save" /\ ev_count' = ev_count
    BY <1>8 DEF SaveEvent
  <2>2. CASE ~newEvent
    <3>1. UNCHANGED <<rows, saved, sEvent>>
      BY <1>8, <2>2 DEF SaveEvent
    <3>. QED BY <1>4, <1>5, <2>1, <3>1 DEF NumbersInv
  <2>3. CASE newEvent
    <3> DEFINE r == [id |-> ev_count, sig |-> sEvent]
    <3>1. /\ sEvent' = [f \in FEM |-> None]
          /\ saved' = IF HasSignal(sEvent) THEN Append(saved, r) ELSE saved
      BY <1>8, <2>3 DEF SaveEvent
    <3>2. r \in Stored /\ r.id = ev_count /\ r.sig = sEvent
      BY <1>3 DEF Stored, MergeInv, SavedType
    <3> HIDE DEF r
    <3>3. HasSignal(sEvent) => \A e \in Numbers(r) : Within(e, rows + 1, lost')
      BY <1>5, <3>2 DEF HasSignal, Numbers
    <3>4. ASSUME NEW i \in 1..Len(saved')
          PROVE  \E n \in Int : \A e \in Numbers(saved'[i]) : Within(e, n, lost')
      <4>1. CASE ~HasSignal(sEvent)
        BY <1>4, <3>1, <4>1
      <4>2. CASE HasSignal(sEvent)
        <5>1. /\ Len(saved) \in Nat /\ Len(saved') = Len(saved) + 1
              /\ saved'[Len(saved) + 1] = r /\ \A k \in 1..Len(saved) : saved'[k] = saved[k]
          BY <1>3, <3>1, <3>2, <4>2, AppendProperties, LenProperties
        <5>2. i \in 1..Len(saved) \/ i = Len(saved) + 1
          BY <5>1
        <5>3. rows + 1 \in Int
          BY <1>3
        <5>. QED BY <1>4, <3>3, <4>2, <5>1, <5>2, <5>3
      <4>. QED BY <4>1, <4>2
    <3>. QED BY <3>1, <3>4 DEF NumbersInv
  <2>. QED BY <2>2, <2>3
<1>9. ASSUME NEW g \in FEM, BuildFEM(g) PROVE NumbersInv'
  <2>1. bpc = "fem" /\ UNCHANGED <<rows, saved, lost>>
    BY <1>9 DEF BuildFEM
  <2>2. CASE UNCHANGED <<ev_count, sEvent>>
    BY <1>4, <1>5, <2>1, <2>2 DEF NumbersInv
  <2>3. CASE ~UNCHANGED <<ev_count, sEvent>>
    <3>1. Stream(g)
      <4>1. CASE Untouched(g)
        <5> DEFINE b == buffer[g] \o tmpBuffer[g]
        <5>1. b = <<>> /\ bufferIndex[g] \in Nat
          BY <1>1, <4>1 DEF Untouched, TypeInv, TypeOK, DataOK
        <5>2. ~ \E m \in bufferIndex[g] + 1..Len(b) : TRUE
          BY <5>1
        <5> HIDE DEF b
        <5>. QED BY <1>1, <1>9, <2>3, <5>2, BuildCloses DEF b
      <4>. QED BY <1>1, <4>1 DEF StreamsInv
    <3>2. PICK sig \in Tags : LET n == Len(closed[g]) + 1 IN
            /\ pendingEvent[g]
            /\ sEvent' = [sEvent EXCEPT ![g] = IF @ = None THEN sig ELSE @]
            /\ ev_count' = ev_count \/ Within(ev_count', n, lost)
            /\ sig # None => Within(sig.ev, n, lost) /\ Within(ev_count', n, lost)
      BY <1>9, <2>3, <3>1, BuildStream
    <3>3. Len(closed[g]) = rows
      <4>1. Len(closed[g]) = rows + (IF pendingEvent[g] THEN 0 ELSE 1)
        BY <2>1 DEF IInv, InStep
      <4>2. pendingEvent[g]
        BY <3>2
      <4>. QED BY <1>3, <4>1, <4>2
    <3>4. sEvent[g] = None
      BY <1>6, <3>2
    <3>5. sEvent'[g] = sig /\ \A f \in FEM : f # g => sEvent'[f] = sEvent[f]
      BY <1>3, <3>2, <3>4
    <3>6. ASSUME NEW f \in FEM, sEvent'[f] # None
          PROVE Within(sEvent'[f].ev, rows + 1, lost) /\ Within(ev_count', rows + 1, lost)
      BY <1>2, <3>2, <3>3, <3>5, <3>6
    <3>. QED BY <1>4, <2>1, <3>6 DEF NumbersInv
  <2>. QED BY <2>2, <2>3
<1>10. CASE ~StartDAQ /\ ~SaveEvent /\ \A f \in FEM : ~BuildFEM(f)
  <2>1. /\ UNCHANGED <<rows, saved, sEvent>>
        /\ InitFEMs \/ UNCHANGED ev_count
    BY <1>10, OthersMergeNothing
  <2>2. CASE InitFEMs
    <3>1. bpc = "init" /\ runs' = runs
      BY <2>2 DEF InitFEMs, mainVars
    <3>2. \A f \in FEM : sEvent[f] = None
      <4>1. runs \in {0, 1}
        BY <1>1, BoundAssumption DEF TypeInv, TypeOK, MainOK
      <4>. QED BY <1>6, <3>1, <4>1 DEF MergeInv, StartInv
    <3>. QED BY <1>4, <2>1, <3>2 DEF NumbersInv
  <2>3. CASE ~InitFEMs
    BY <1>4, <1>5, <2>1, <2>3 DEF NumbersInv
  <2>. QED BY <2>2, <2>3
<1>. QED BY <1>7, <1>8, <1>9, <1>10

\* The number and the signals of an event stored by a first run are of events no
\* further apart than frames, or stop commands, were lost.
THEOREM ShiftedByLossesHolds == Spec => []ShiftedByLosses
<1>1. Init => StreamsInv /\ NumbersInv
  <2>1. 1..Len(<<>>) = {}
    OBVIOUS
  <2>. QED BY <2>1 DEF Init, StreamsInv, NumbersInv, Untouched
<1>2. IInv /\ MergeInv /\ NumbersInv => ShiftedByLosses
  <2> SUFFICES ASSUME IInv, MergeInv, NumbersInv, runs = 1, NEW i \in DOMAIN saved,
                      NEW d \in Numbers(saved[i]), NEW e \in Numbers(saved[i])
               PROVE  d - e <= lost
    BY DEF ShiftedByLosses
  <2>1. i \in 1..Len(saved) /\ saved[i] \in Stored
    BY LenProperties, ElementOfSeq DEF MergeInv, SavedType
  <2>2. PICK n \in Int : \A x \in Numbers(saved[i]) : Within(x, n, lost)
    <3>1. runs <= 1
      OBVIOUS
    <3>. QED BY <2>1, <3>1, Zenon DEF NumbersInv
  <2>3. d \in Nat /\ e \in Nat
    BY <2>1, NumbersTyped
  <2>4. lost \in Nat
    BY BoundAssumption DEF IInv, TypeInv, TypeOK, MainOK
  <2>. QED BY <2>2, <2>3, <2>4 DEF Within
<1>3. IInv /\ MergeInv /\ [Next]_vars => MergeInv'
  BY NextMerge
<1>4. Init => MergeInv
  BY InitMerge
<1>. QED BY <1>1, <1>2, <1>3, <1>4, NextStreams, NextNumbers, Inductive, PTL DEF Spec

===============================================================================
