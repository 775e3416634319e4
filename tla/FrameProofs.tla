------------------------------ MODULE FrameProofs ------------------------------
(***************************************************************************)
(* Proofs about the data frames of a front end: how many of them travel    *)
(* (CreditFlow) and what their words say (PacketStream).                   *)
(*                                                                         *)
(* Flow control.  Conservation is inductive only together with the types   *)
(* and with the fact that Charge never takes more than was counted:        *)
(* between the test of daq_credit and the deduction the receiver can only  *)
(* add.                                                                    *)
(*                                                                         *)
(* Words.  The buffer is a sequence of units: records, packets, and the    *)
(* framing around them.  The scan goes from unit to unit, so that what it  *)
(* takes for an end is the end of an event, and the loop over an event     *)
(* comes to its headers and to nothing else.  What is parsed is then what  *)
(* the front end meant, whatever the event parsed before left behind.      *)
(***************************************************************************)
EXTENDS CreditFlow, PacketStream, DataFacts, SequenceTheorems, FiniteSetTheorems, TLAPS

(***************************************************************************)
(* Flow control.                                                           *)
(***************************************************************************)
\* The deduction daq_credit -= frameThr never underflows.
NoUnderflow == pc = "charge" => Enough

FlowInv == FlowTypeOK /\ NoUnderflow /\ Conservation

\* Initially no run is being taken and every counter is zero.
LEMMA InitFlowInv == FlowInit => FlowInv
<1>1. FlowInit => stopRun \in BOOLEAN
  BY DEF FlowInit
<1>2. FlowInit => seq \in 0..SeqSize-1
  BY SeqAssumption DEF FlowInit
<1>. QED
  BY <1>1, <1>2
     DEF FlowInit, FlowInv, FlowTypeOK, NoUnderflow, Enough, Conservation, Granted, Running

\* A step of the sender, of the receiver, of the FEM or of the network keeps
\* the counters' types and their balance.
LEMMA NextFlowInv == FlowInv /\ [FlowNext]_flowVars => FlowInv'
<1> SUFFICES ASSUME FlowInv, [FlowNext]_flowVars PROVE FlowInv'
  OBVIOUS
<1> USE WindowAssumption, SeqAssumption
<1> USE DEF FlowInv, FlowTypeOK, NoUnderflow, Conservation, Granted, Running, Enough
<1>1. CASE Start
  <2>1. stopRun' \in BOOLEAN
    BY <1>1 DEF Start
  <2>2. seq' \in 0..SeqSize-1
    BY <1>1 DEF Start
  <2>. QED BY <1>1, <2>1, <2>2 DEF Start, network
<1>2. CASE SendFirst
  BY <1>2 DEF SendFirst, Request, history
<1>3. CASE TestStop
  BY <1>3 DEF TestStop, network, history
<1>4. CASE PollCredit
  <2>1. CASE Enough /\ pc' = "charge" /\ Request(Thr)
    BY <1>4, <2>1 DEF PollCredit, Request, history
  <2>2. CASE ~Enough /\ pc' = "loop" /\ UNCHANGED <<allowance, lost>>
    BY <1>4, <2>2 DEF PollCredit, history
  <2>. QED BY <1>4, <2>1, <2>2 DEF PollCredit
<1>5. CASE Charge
  <2>1. (seq + 1) % SeqSize \in 0..SeqSize-1
    OBVIOUS
  <2>. QED BY <1>5, <2>1 DEF Charge, network, history
<1>6. CASE SendStop
  BY <1>6 DEF SendStop, history
<1>7. CASE SendFails
  BY <1>7 DEF SendFails, network, history
<1>8. CASE StopRun
  BY <1>8 DEF StopRun, sender, network, history
<1>9. CASE RecvDataFrame
  BY <1>9 DEF RecvDataFrame, sender, history
<1>10. CASE Emit
  BY <1>10 DEF Emit, sender, history
<1>11. CASE LoseFrame
  BY <1>11 DEF LoseFrame, sender, history
<1>12. CASE DuplicateFrame
  BY <1>12 DEF DuplicateFrame, sender
<1>13. CASE UNCHANGED flowVars
  BY <1>13 DEF flowVars
<1>. QED
  BY <1>1, <1>2, <1>3, <1>4, <1>5, <1>6, <1>7, <1>8, <1>9, <1>10, <1>11,
     <1>12, <1>13 DEF FlowNext, Sender

\* The strengthened invariant holds of every behaviour.
THEOREM FlowInductive == FlowSpec => []FlowInv
  BY InitFlowInv, NextFlowInv, PTL DEF FlowSpec

\* Every counter keeps its type; none is ever negative, so that the unsigned
\* counters of the code never wrap below zero.
THEOREM FlowTypeCorrect == FlowSpec => []FlowTypeOK
<1>1. FlowInv => FlowTypeOK  BY DEF FlowInv
<1>. QED BY <1>1, FlowInductive, PTL

\* The receiver's increments and the sender's deductions never create or
\* forget a frame, whatever their interleaving, the losses and the earlier
\* runs.
THEOREM ConservationHolds == FlowSpec => []Conservation
<1>1. FlowInv => Conservation  BY DEF FlowInv
<1>. QED BY <1>1, FlowInductive, PTL

\* The FEM never owes more than a window, over what was left or duplicated.
THEOREM NoOverrunHolds == FlowSpec => []NoOverrun
<1>1. FlowInv => NoOverrun
  BY WindowAssumption
     DEF FlowInv, FlowTypeOK, NoUnderflow, Enough, Conservation, Granted, NoOverrun
<1>. QED BY <1>1, FlowInductive, PTL

\* A run stalls only after more losses than the window has frames to spare.
THEOREM StallOnlyByLossHolds == FlowSpec => []StallOnlyByLoss
<1>1. FlowInv => StallOnlyByLoss
  BY WindowAssumption
     DEF FlowInv, FlowTypeOK, Conservation, Granted, Running, Enough, StallOnlyByLoss
<1>. QED BY <1>1, FlowInductive, PTL

(***************************************************************************)
(* Recursive functions over the indices of a buffer.                       *)
(***************************************************************************)
\* From an index that is no stop the next one is larger, and from n on all are.
Upward(n, stop, nxt) ==
  /\ \A i \in Nat : i >= n => i \in stop
  /\ \A i \in Nat : i \notin stop => nxt[i] \in Nat /\ nxt[i] > i

\* f is defined at an index by base or by its value at the next one.
Defines(f, stop, nxt, base, comb) ==
  \A i \in Nat : f[i] = IF i \in stop THEN base[i] ELSE comb[<<i, f[nxt[i]]>>]

\* A function on the naturals whose value at an index follows from that at a
\* later one, up to an end n, exists.
LEMMA UpwardExists ==
  ASSUME NEW n \in Nat, NEW V, NEW stop, NEW nxt, NEW base \in [Nat -> V],
         NEW comb \in [Nat \X V -> V],
         Upward(n, stop, nxt)
  PROVE  \E f \in [Nat -> V] : Defines(f, stop, nxt, base, comb)
<1> USE DEF Upward
<1> DEFINE Eq(f, i) == f[i] = IF i \in stop THEN base[i] ELSE comb[<<i, f[nxt[i]]>>]
           B == {k \in 0..n : \E f \in [Nat -> V] : \A i \in Nat : i >= n - k => Eq(f, i)}
<1>1. 0 \in B
  <2>1. \A i \in Nat : i >= n - 0 => Eq(base, i)
    OBVIOUS
  <2> QED BY <2>1
<1>2. ASSUME NEW k \in 0..n - 1, k \in B PROVE k + 1 \in B
  <2>1. PICK f \in [Nat -> V] : \A i \in Nat : i >= n - k => Eq(f, i)
    BY <1>2
  <2>2. PICK m \in Nat : m = n - k - 1
    OBVIOUS
  <2> DEFINE v == IF m \in stop THEN base[m] ELSE comb[<<m, f[nxt[m]]>>]
             g == [f EXCEPT ![m] = v]
  <2>3. v \in V
    OBVIOUS
  <2>4. g \in [Nat -> V] /\ g[m] = v /\ \A i \in Nat : i # m => g[i] = f[i]
    BY <2>3
  <2> HIDE DEF g
  <2>5. ASSUME NEW i \in Nat, i >= n - (k + 1) PROVE Eq(g, i)
    <3>1. i = m \/ (i # m /\ i >= n - k)
      BY <2>2, <2>5
    <3>2. i \notin stop => nxt[i] \in Nat /\ nxt[i] # m
      BY <2>2, <2>5
    <3>3. i \notin stop => g[nxt[i]] = f[nxt[i]]
      BY <3>2, <2>4
    <3>4. CASE i = m
      BY <3>3, <3>4, <2>4
    <3>5. CASE i # m /\ i >= n - k
      <4>1. Eq(f, i)
        BY <2>1, <3>5
      <4>2. g[i] = f[i]
        BY <2>4, <3>5
      <4> QED BY <4>1, <4>2, <3>3
    <3> QED BY <3>1, <3>4, <3>5
  <2>6. k + 1 \in 0..n
    OBVIOUS
  <2>7. \A i \in Nat : i >= n - (k + 1) => Eq(g, i)
    BY <2>5
  <2> HIDE DEF Eq
  <2> QED BY <2>4, <2>6, <2>7
<1>3. n \in B
  <2>1. B \in SUBSET (0..n)
    OBVIOUS
  <2> HIDE DEF B
  <2> QED BY <1>1, <1>2, <2>1, UpTo
<1>4. PICK f \in [Nat -> V] : \A i \in Nat : i >= n - n => Eq(f, i)
  BY <1>3
<1>5. \A i \in Nat : Eq(f, i)
  BY <1>4
<1> QED BY <1>5 DEF Defines

\* A scan that goes from index to index and returns where it stops.
LEMMA WalkExists ==
  ASSUME NEW n \in Nat, NEW stop, NEW nxt,
         Upward(n, stop, nxt)
  PROVE  \E f : f = [i \in Nat |-> IF i \in stop THEN i ELSE f[nxt[i]]]
<1> DEFINE base == [i \in Nat |-> i]
           comb == [p \in Nat \X Nat |-> p[2]]
<1>1. base \in [Nat -> Nat] /\ comb \in [Nat \X Nat -> Nat]
  OBVIOUS
<1>2. \A i, j \in Nat : base[i] = i /\ comb[<<i, j>>] = j
  OBVIOUS
<1> HIDE DEF base, comb
<1>3. PICK f \in [Nat -> Nat] : Defines(f, stop, nxt, base, comb)
  BY <1>1, UpwardExists
<1>4. \A i \in Nat : i \notin stop => f[nxt[i]] \in Nat
  BY DEF Upward
<1>5. ASSUME NEW i \in Nat PROVE f[i] = IF i \in stop THEN i ELSE f[nxt[i]]
  <2>1. f[i] = IF i \in stop THEN base[i] ELSE comb[<<i, f[nxt[i]]>>]
    BY <1>3 DEF Defines
  <2> QED BY <2>1, <1>2, <1>4
<1>6. f = [i \in Nat |-> IF i \in stop THEN i ELSE f[nxt[i]]]
  BY <1>5
<1> QED BY <1>6

\* A loop that goes from index to index and gathers those it looks at.
LEMMA GatherExists ==
  ASSUME NEW n \in Nat, NEW stop, NEW nxt,
         Upward(n, stop, nxt)
  PROVE  \E f : f = [i \in Nat |-> IF i \in stop THEN {} ELSE {i} \cup f[nxt[i]]]
<1> DEFINE V == SUBSET Nat
           base == [i \in Nat |-> {}]
           comb == [p \in Nat \X V |-> {p[1]} \cup p[2]]
<1>1. base \in [Nat -> V]
  OBVIOUS
<1>2. comb \in [Nat \X V -> V]
  <2>1. \A p \in Nat \X V : {p[1]} \cup p[2] \in V
    OBVIOUS
  <2> QED BY <2>1
<1>3. \A i \in Nat, T \in V : base[i] = {} /\ comb[<<i, T>>] = {i} \cup T
  OBVIOUS
<1> HIDE DEF base, comb, V
<1>4. PICK f \in [Nat -> V] : Defines(f, stop, nxt, base, comb)
  BY <1>1, <1>2, UpwardExists
<1>5. \A i \in Nat : i \notin stop => f[nxt[i]] \in V
  BY DEF Upward
<1>6. ASSUME NEW i \in Nat PROVE f[i] = IF i \in stop THEN {} ELSE {i} \cup f[nxt[i]]
  <2>1. f[i] = IF i \in stop THEN base[i] ELSE comb[<<i, f[nxt[i]]>>]
    BY <1>4 DEF Defines
  <2> QED BY <2>1, <1>3, <1>5
<1>7. f = [i \in Nat |-> IF i \in stop THEN {} ELSE {i} \cup f[nxt[i]]]
  BY <1>6
<1> QED BY <1>7

\* A value that is set, counted up or kept from one index to the next.
Counts(f, n, first, mode, val) ==
  f = [k \in 1..n |->
         IF k = 1 THEN first ELSE IF mode[k] = 0 THEN val[k]
         ELSE IF mode[k] = 1 THEN f[k - 1] + 1 ELSE f[k - 1]]

\* A function on 1..n whose value at an index follows from that before it
\* exists: the bins before the words of a pulse.
LEMMA DownwardExists ==
  ASSUME NEW n \in Nat, NEW first, NEW mode \in [1..n -> Nat], NEW val
  PROVE  \E f : Counts(f, n, first, mode, val)
<1> DEFINE R(f, k) == IF k = 1 THEN first ELSE IF mode[k] = 0 THEN val[k]
                      ELSE IF mode[k] = 1 THEN f[k - 1] + 1 ELSE f[k - 1]
           B == {m \in 0..n : \E f : f = [k \in 1..m |-> R(f, k)]}
<1>1. 0 \in B
  <2> DEFINE f == [k \in {} |-> k]
  <2>1. 1..0 = {}
    OBVIOUS
  <2>2. f = [k \in 1..0 |-> R(f, k)]
    BY <2>1
  <2>3. 0 \in 0..n
    OBVIOUS
  <2> HIDE DEF R, f
  <2> QED BY <2>2, <2>3
<1>2. ASSUME NEW m \in 0..n - 1, m \in B PROVE m + 1 \in B
  <2>1. PICK f : f = [k \in 1..m |-> R(f, k)]
    BY <1>2
  <2> DEFINE g == [k \in 1..m + 1 |-> IF k = m + 1 THEN R(f, k) ELSE f[k]]
  <2>2. ASSUME NEW k \in 1..m + 1 PROVE g[k] = R(g, k)
    <3>1. k # 1 => k - 1 \in 1..m + 1 /\ k - 1 # m + 1
      OBVIOUS
    <3>2. k # 1 => g[k - 1] = f[k - 1]
      BY <3>1
    <3>3. R(g, k) = R(f, k)
      BY <3>2
    <3>4. CASE k = m + 1
      BY <3>3, <3>4
    <3>5. CASE k # m + 1
      <4>1. k \in 1..m
        BY <3>5
      <4>2. f[k] = R(f, k)
        BY <2>1, <4>1
      <4> QED BY <3>3, <3>5, <4>2
    <3> QED BY <3>4, <3>5
  <2>3. g = [k \in 1..m + 1 |-> R(g, k)]
    BY <2>2
  <2>4. m + 1 \in 0..n
    OBVIOUS
  <2> HIDE DEF g, R
  <2> QED BY <2>3, <2>4
<1>3. n \in B
  <2>1. B \in SUBSET (0..n)
    OBVIOUS
  <2> HIDE DEF B
  <2> QED BY <1>1, <1>2, <2>1, UpTo
<1> QED BY <1>3 DEF Counts

(***************************************************************************)
(* The formats of the three electronics as one: what the packet modules    *)
(* say of the electronics in use.                                          *)
(***************************************************************************)
Of(arc, feminos, dcc) ==
  IF electronics = "ARC" THEN arc ELSE IF electronics = "FEMINOS" THEN feminos ELSE dcc

SkipOf(w) == Of(ARC!Skip(w), FEMINOS!Skip(w), DCC!Skip(w))
EndOfEvent == Of(ARC!EndOfEvent, FEMINOS!EndOfEvent, DCC!EndOfEvent)
AdcSample == Of(ARC!AdcSample, FEMINOS!AdcSample, DCC!AdcSample)
TimeBin == Of(ARC!TimeBin, FEMINOS!TimeBin, DCC!TimeBin)
StartOfEvent == Of(ARC!StartOfEvent, FEMINOS!StartOfEvent, {})
HitIndex == Of(ARC!HitIndex, FEMINOS!HitIndex, {})

F == INSTANCE FramedEvents WITH Skip <- SkipOf

\* Words of a pulse that the scan looks at one by one.
Data == Of(AdcSample \cup TimeBin, AdcSample \cup TimeBin, {})

\* What the scan steps over: a record or framing words that are skipped as a
\* whole, or a header with the words of a pulse behind it.
Simple(u) == SkipOf(u[1]) = Len(u) /\ u[1] \notin HitIndex
Headed(u) == /\ u[1] \in HitIndex /\ SkipOf(u[1]) <= Len(u)
             /\ \A k \in SkipOf(u[1]) + 1..Len(u) : u[k] \in Data
Unit == {u \in Seq(Word) : u # <<>> /\ u[1] \notin Data /\ (Simple(u) \/ Headed(u))}
Ends(u) == u[1] \in EndOfEvent

\* The index behind the first j units.
Off(us, j) == Len(FlattenSeq(SubSeq(us, 1, j)))

\* The electronics are one of the three.
LEMMA ElectronicsOf ==
  ASSUME electronics \in Electronics
  PROVE  \/ electronics = "ARC" \/ electronics = "FEMINOS"
         \/ electronics = "DCC" /\ electronics # "ARC" /\ electronics # "FEMINOS"
BY DEF Electronics

\* The ranges of the words.
LEMMA ARCBounds ==
  /\ \A w \in ARC!StartOfDFrame : w \in Int /\ 2048 <= w /\ w <= 2559
  /\ \A w \in ARC!StartOfMFrame : w \in Int /\ 1536 <= w /\ w <= 2047
  /\ \A w \in ARC!HistoMeanDev : w = 18
  /\ \A w \in ARC!StartOfEvent : w \in Int /\ 768 <= w /\ w <= 1023
  /\ \A w \in ARC!HitIndex : w = 17
  /\ \A w \in ARC!AdcSample : w \in Int /\ 12288 <= w /\ w <= 16383
  /\ \A w \in ARC!TimeBin : w \in Int /\ 3584 <= w /\ w <= 4095
  /\ \A w \in ARC!EndOfEvent : w \in Int /\ 704 <= w /\ w <= 767
BY DEF ARC!StartOfDFrame, ARC!StartOfMFrame, ARC!HistoMeanDev, ARC!StartOfEvent,
       ARC!HitIndex, ARC!AdcSample, ARC!TimeBin, ARC!EndOfEvent

\* The ranges of the words of FEMINOS electronics.
LEMMA FEMINOSBounds ==
  /\ \A w \in FEMINOS!StartOfDFrame : w \in Int /\ 2048 <= w /\ w <= 2559
  /\ \A w \in FEMINOS!StartOfMFrame : w \in Int /\ 1536 <= w /\ w <= 2047
  /\ \A w \in FEMINOS!HistoMeanDev : w = 12
  /\ \A w \in FEMINOS!StartOfEvent : w \in Int /\ 240 <= w /\ w <= 255
  /\ \A w \in FEMINOS!HitIndex : w \in Int /\ 49152 <= w /\ w <= 65535
  /\ \A w \in FEMINOS!AdcSample : w \in Int /\ 12288 <= w /\ w <= 16383
  /\ \A w \in FEMINOS!TimeBin : w \in Int /\ 3584 <= w /\ w <= 4095
  /\ \A w \in FEMINOS!EndOfEvent : w \in Int /\ 224 <= w /\ w <= 239
BY DEF FEMINOS!StartOfDFrame, FEMINOS!StartOfMFrame, FEMINOS!HistoMeanDev,
       FEMINOS!StartOfEvent, FEMINOS!HitIndex, FEMINOS!AdcSample,
       FEMINOS!TimeBin, FEMINOS!EndOfEvent

\* Every word is stepped over by at least one; a word of a pulse by one, and it
\* is no header and no end.
LEMMA ARCWords ==
  /\ \A w \in Word : ARC!Skip(w) \in Nat /\ ARC!Skip(w) >= 1
  /\ \A w \in ARC!AdcSample \cup ARC!TimeBin :
       ARC!Skip(w) = 1 /\ w \notin ARC!EndOfEvent /\ w \notin ARC!HitIndex
  /\ \A w \in ARC!EndOfEvent : w \notin ARC!HitIndex
<1>1. \A w : ARC!Skip(w) \in {1, 2, 4, 6}
  BY Zenon DEF ARC!Skip
<1>2. ASSUME NEW w \in ARC!AdcSample \cup ARC!TimeBin
      PROVE  ARC!Skip(w) = 1 /\ w \notin ARC!EndOfEvent /\ w \notin ARC!HitIndex
  <2>1. w \in Int /\ 3584 <= w /\ w <= 16383
    BY ARCBounds
  <2>2. /\ w \notin ARC!StartOfDFrame \cup ARC!StartOfMFrame \cup ARC!HitIndex
        /\ w \notin ARC!StartOfEvent \cup ARC!HistoMeanDev
        /\ w \notin ARC!EndOfEvent /\ w \notin ARC!HitIndex
    BY <2>1, ARCBounds
  <2> QED BY <2>2, Zenon DEF ARC!Skip
<1>3. \A w \in ARC!EndOfEvent : w \notin ARC!HitIndex
  BY ARCBounds
<1> QED BY <1>1, <1>2, <1>3

\* The same of the words of FEMINOS electronics.
LEMMA FEMINOSWords ==
  /\ \A w \in Word : FEMINOS!Skip(w) \in Nat /\ FEMINOS!Skip(w) >= 1
  /\ \A w \in FEMINOS!AdcSample \cup FEMINOS!TimeBin :
       FEMINOS!Skip(w) = 1 /\ w \notin FEMINOS!EndOfEvent /\ w \notin FEMINOS!HitIndex
  /\ \A w \in FEMINOS!EndOfEvent : w \notin FEMINOS!HitIndex
<1>1. \A w : FEMINOS!Skip(w) \in {1, 2, 5, 6}
  BY Zenon DEF FEMINOS!Skip
<1>2. ASSUME NEW w \in FEMINOS!AdcSample \cup FEMINOS!TimeBin
      PROVE  /\ FEMINOS!Skip(w) = 1
             /\ w \notin FEMINOS!EndOfEvent /\ w \notin FEMINOS!HitIndex
  <2>1. w \in Int /\ 3584 <= w /\ w <= 16383
    BY FEMINOSBounds
  <2>2. /\ w \notin FEMINOS!StartOfDFrame \cup FEMINOS!StartOfMFrame
                      \cup FEMINOS!EndOfEvent
        /\ w \notin FEMINOS!HistoMeanDev /\ w \notin FEMINOS!StartOfEvent
        /\ w \notin FEMINOS!EndOfEvent /\ w \notin FEMINOS!HitIndex
    BY <2>1, FEMINOSBounds
  <2> QED BY <2>2, Zenon DEF FEMINOS!Skip
<1>3. \A w \in FEMINOS!EndOfEvent : w \notin FEMINOS!HitIndex
  BY FEMINOSBounds
<1> QED BY <1>1, <1>2, <1>3

\* The DCC too steps over at least one word at a time.
LEMMA DCCWords == \A w \in Word : DCC!Skip(w) \in Nat /\ DCC!Skip(w) >= 1
<1>1. \A w \in Word : w \div 2 \in Nat
  BY DEF Word
<1>2. \A w \in Word : DCC!Skip(w) = 4 \/ DCC!Skip(w) = 1
                      \/ (DCC!Skip(w) = w \div 2 /\ w \div 2 # 0)
  BY Zenon DEF DCC!Skip
<1> QED BY <1>1, <1>2

\* The words of the electronics in use: the scan advances, and it looks at the
\* words of a pulse one by one.
LEMMA WordFacts ==
  ASSUME electronics \in Electronics
  PROVE  /\ \A w \in Word : SkipOf(w) \in Nat /\ SkipOf(w) >= 1
         /\ \A w \in Data : SkipOf(w) = 1 /\ w \notin EndOfEvent
         /\ \A w \in EndOfEvent : w \notin HitIndex
<1> USE DEF SkipOf, EndOfEvent, HitIndex, Data, AdcSample, TimeBin, Of
<1>1. CASE electronics = "ARC"
  BY <1>1, ARCWords
<1>2. CASE electronics = "FEMINOS"
  BY <1>2, FEMINOSWords
<1>3. CASE electronics = "DCC" /\ electronics # "ARC" /\ electronics # "FEMINOS"
  BY <1>3, DCCWords
<1> QED BY <1>1, <1>2, <1>3, ElectronicsOf

(***************************************************************************)
(* Sequences of units.                                                     *)
(***************************************************************************)
\* Sequences that are joined, cut behind the m-th.
LEMMA CutAt ==
  ASSUME NEW S, NEW us \in Seq(Seq(S)), NEW m \in 0..Len(us)
  PROVE  LET a == SubSeq(us, 1, m)
             b == SubSeq(us, m + 1, Len(us))
         IN /\ a \in Seq(Seq(S)) /\ b \in Seq(Seq(S)) /\ us = a \o b
            /\ FlattenSeq(a) \in Seq(S) /\ FlattenSeq(b) \in Seq(S)
            /\ FlattenSeq(us) = FlattenSeq(a) \o FlattenSeq(b)
<1>1. PICK T : T = Seq(S)
  OBVIOUS
<1>2. PICK a, b : a = SubSeq(us, 1, m) /\ b = SubSeq(us, m + 1, Len(us))
  OBVIOUS
<1>3. a \in Seq(T) /\ b \in Seq(T) /\ us = a \o b
  <2>1. us \in Seq(T) /\ Len(us) \in Nat
    BY <1>1, LenProperties
  <2>2. a \in Seq(T) /\ b \in Seq(T)
    BY <1>2, <2>1
  <2>3. SubSeq(us, 1, m) \o SubSeq(us, m + 1, Len(us)) = SubSeq(us, 1, Len(us))
    <3>1. 1 \in 1..Len(us) + 1 /\ m \in 1 - 1..Len(us) /\ Len(us) \in m..Len(us)
      BY <2>1
    <3> QED BY <2>1, <3>1, ConcatAdjacentSubSeq
  <2> QED BY <1>2, <2>1, <2>2, <2>3, SubSeqFull
<1>4. a \in Seq(Seq(S)) /\ b \in Seq(Seq(S))
  BY <1>1, <1>3
<1>5. FlattenSeq(a) \in Seq(S) /\ FlattenSeq(b) \in Seq(S)
      /\ FlattenSeq(a \o b) = FlattenSeq(a) \o FlattenSeq(b)
  BY <1>4, FlattenConcat
<1> QED BY <1>2, <1>3, <1>4, <1>5

\* Where the words of the m-th unit are.
LEMMA Place ==
  ASSUME NEW S, NEW us \in Seq(Seq(S)), NEW m \in 1..Len(us)
  PROVE  /\ FlattenSeq(us) \in Seq(S) /\ us[m] \in Seq(S)
         /\ Off(us, m - 1) \in Nat /\ Off(us, m) = Off(us, m - 1) + Len(us[m])
         /\ Off(us, m) <= Len(FlattenSeq(us))
         /\ \A k \in 1..Len(us[m]) : FlattenSeq(us)[Off(us, m - 1) + k] = us[m][k]
<1> DEFINE a == SubSeq(us, 1, m - 1)
           b == SubSeq(us, 1, m)
           c == SubSeq(us, m + 1, Len(us))
           u == us[m]
<1>1. m - 1 \in 0..Len(us) - 1 /\ (m - 1) + 1 = m /\ m \in 0..Len(us)
  <2>1. Len(us) \in Nat
    BY LenProperties
  <2> QED BY <2>1
<1>2. b = Append(a, u) /\ a \in Seq(Seq(S)) /\ u \in Seq(S)
  <2>1. PICK T : T = Seq(S)
    OBVIOUS
  <2>2. us \in Seq(T)
    BY <2>1
  <2>3. /\ \A k \in 0..Len(us) : SubSeq(us, 1, k) \in Seq(T)
        /\ \A k \in 0..Len(us) - 1 : k + 1 \in 1..Len(us) /\ us[k + 1] \in T
             /\ SubSeq(us, 1, k + 1) = Append(SubSeq(us, 1, k), us[k + 1])
    BY <2>2, Firsts
  <2>4. m - 1 \in 0..Len(us)
    BY <1>1
  <2> QED BY <1>1, <2>1, <2>3, <2>4
<1>3. /\ b \in Seq(Seq(S)) /\ c \in Seq(Seq(S))
      /\ FlattenSeq(b) \in Seq(S) /\ FlattenSeq(c) \in Seq(S)
      /\ FlattenSeq(us) = FlattenSeq(b) \o FlattenSeq(c)
  BY <1>1, CutAt
<1> HIDE DEF a, b, c, u
<1>4. FlattenSeq(a) \in Seq(S) /\ FlattenSeq(b) = FlattenSeq(a) \o u
  BY <1>2, FlattenAppend
<1>5. PICK fa, fb, fc, fu : /\ fa = FlattenSeq(a) /\ fb = FlattenSeq(b)
                            /\ fc = FlattenSeq(c) /\ fu = FlattenSeq(us)
  OBVIOUS
<1>6. fa \in Seq(S) /\ u \in Seq(S) /\ fb = fa \o u /\ fc \in Seq(S) /\ fu = fb \o fc
  BY <1>2, <1>3, <1>4, <1>5
<1>7. /\ fu \in Seq(S) /\ Len(fa) \in Nat /\ Len(fb) = Len(fa) + Len(u)
      /\ Len(fb) <= Len(fu)
      /\ \A k \in 1..Len(u) : fu[Len(fa) + k] = u[k]
  BY <1>6
<1> QED BY <1>2, <1>5, <1>7 DEF Off, a, b, c, u

\* Where the first and the last unit are.
LEMMA Ranges ==
  ASSUME NEW S, NEW us \in Seq(Seq(S))
  PROVE  /\ Off(us, 0) = 0 /\ Off(us, Len(us)) = Len(FlattenSeq(us))
         /\ FlattenSeq(us) \in Seq(S) /\ \A j \in 0..Len(us) : Off(us, j) \in Nat
<1>1. SubSeq(us, 1, 0) = <<>> /\ SubSeq(us, 1, Len(us)) = us
      /\ \A j \in 0..Len(us) : SubSeq(us, 1, j) \in Seq(Seq(S))
  <2>1. PICK T : T = Seq(S)
    OBVIOUS
  <2>2. us \in Seq(T)
    BY <2>1
  <2> QED BY <2>1, <2>2, Firsts
<1>2. ASSUME NEW vs \in Seq(Seq(S)) PROVE FlattenSeq(vs) \in Seq(S)
  <2>1. <<>> \in Seq(S)
    OBVIOUS
  <2> QED BY <2>1, FlattenAppend
<1>3. \A vs \in Seq(Seq(S)) : Len(FlattenSeq(vs)) \in Nat
  BY <1>2, LenProperties
<1>4. Len(<<>>) = 0
  OBVIOUS
<1> QED BY <1>1, <1>2, <1>3, <1>4, FlattenNone DEF Off

(***************************************************************************)
(* The scan for the end of an event.                                       *)
(***************************************************************************)
\* f[i] is where the scan of the words b from index i stops.
Scans(b, f) ==
  f = [i \in Nat |-> IF i >= Len(b) \/ b[i + 1] \in EndOfEvent THEN i
                     ELSE f[i + SkipOf(b[i + 1])]]

\* The scan of any words is such a function.
LEMMA ScanExists ==
  ASSUME electronics \in Electronics, NEW b \in Seq(Word)
  PROVE  \E f : Scans(b, f) /\ \A i \in Nat : F!Scan(b, i) = f[i]
<1> DEFINE stop == {i \in Nat : i >= Len(b) \/ b[i + 1] \in EndOfEvent}
           nxt == [i \in Nat |-> i + SkipOf(b[i + 1])]
<1>1. Upward(Len(b), stop, nxt)
  <2>1. ASSUME NEW i \in Nat, i \notin stop PROVE nxt[i] \in Nat /\ nxt[i] > i
    <3>1. i + 1 \in 1..Len(b)
      BY <2>1
    <3>2. b[i + 1] \in Word
      BY <3>1
    <3>3. SkipOf(b[i + 1]) \in Nat /\ SkipOf(b[i + 1]) >= 1
      BY <3>2, WordFacts
    <3> QED BY <3>3
  <2>2. \A i \in Nat : i >= Len(b) => i \in stop
    OBVIOUS
  <2> HIDE DEF stop, nxt
  <2> QED BY <2>1, <2>2 DEF Upward
<1>2. Len(b) \in Nat
  BY LenProperties
<1>3. \E f : f = [i \in Nat |-> IF i \in stop THEN i ELSE f[nxt[i]]]
  <2> HIDE DEF stop, nxt
  <2> QED BY <1>1, <1>2, WalkExists
<1>4. ASSUME NEW f PROVE Scans(b, f) <=> f = [i \in Nat |-> IF i \in stop THEN i ELSE f[nxt[i]]]
  <2>1. \A i \in Nat : (IF i \in stop THEN i ELSE f[nxt[i]])
          = IF i >= Len(b) \/ b[i + 1] \in EndOfEvent THEN i ELSE f[i + SkipOf(b[i + 1])]
    OBVIOUS
  <2>2. [i \in Nat |-> IF i \in stop THEN i ELSE f[nxt[i]]]
          = [i \in Nat |-> IF i >= Len(b) \/ b[i + 1] \in EndOfEvent THEN i
                           ELSE f[i + SkipOf(b[i + 1])]]
    BY <2>1
  <2> QED BY <2>2 DEF Scans
<1>5. \E f : Scans(b, f)
  BY <1>3, <1>4
<1>6. PICK f : f = CHOOSE g : Scans(b, g)
  OBVIOUS
<1>7. Scans(b, f)
  BY <1>5, <1>6
<1>8. \A i \in Nat : F!Scan(b, i) = f[i]
  BY <1>6 DEF Scans, F!Scan, F!At
<1> QED BY <1>7, <1>8

\* The scan steps over a unit that is no end.
LEMMA ScanUnit ==
  ASSUME electronics \in Electronics, NEW us \in Seq(Unit), NEW f, Scans(FlattenSeq(us), f),
         NEW m \in 1..Len(us), ~Ends(us[m])
  PROVE  f[Off(us, m - 1)] = f[Off(us, m)]
<1> DEFINE u == us[m]
<1>1. u \in Seq(Word) /\ u # <<>> /\ (Simple(u) \/ Headed(u)) /\ us \in Seq(Seq(Word))
  <2>1. u \in Unit
    BY ElementOfSeq
  <2>2. \A v \in Unit : v \in Seq(Word)
    BY DEF Unit
  <2>3. us \in Seq(Seq(Word))
    <3>1. PICK T : T = Seq(Word)
      OBVIOUS
    <3>2. \A k \in 1..Len(us) : us[k] \in T
      BY <2>2, <3>1, ElementOfSeq
    <3>3. us \in Seq(T)
      BY <3>2
    <3> QED BY <3>1, <3>3
  <2> QED BY <2>1, <2>3 DEF Unit
<1> HIDE DEF u
<1>2. PICK b, o : b = FlattenSeq(us) /\ o = Off(us, m - 1)
  OBVIOUS
<1>3. /\ b \in Seq(Word) /\ o \in Nat /\ Off(us, m) = o + Len(u) /\ o + Len(u) <= Len(b)
      /\ \A k \in 1..Len(u) : b[o + k] = u[k]
  BY <1>1, <1>2, Place DEF u
<1>4. Len(u) \in Nat /\ Len(b) \in Nat /\ Len(u) >= 1 /\ 1 \in 1..Len(u) /\ u[1] \in Word
  BY <1>1, <1>3
<1>5. PICK s : s = SkipOf(u[1])
  OBVIOUS
<1>6. s \in Nat /\ s >= 1 /\ s <= Len(u)
  BY <1>1, <1>4, <1>5, WordFacts DEF Simple, Headed
<1>7. \A i \in Nat : f[i] = IF i >= Len(b) \/ b[i + 1] \in EndOfEvent THEN i
                            ELSE f[i + SkipOf(b[i + 1])]
  BY <1>2 DEF Scans
<1>8. f[o] = f[o + s]
  <2>1. b[o + 1] = u[1] /\ ~(o >= Len(b))
    BY <1>3, <1>4
  <2>2. u[1] \notin EndOfEvent
    BY DEF Ends, u
  <2> QED BY <1>3, <1>5, <1>7, <2>1, <2>2
<1>9. CASE s = Len(u)
  BY <1>2, <1>3, <1>8, <1>9
<1>10. CASE s # Len(u)
  <2>1. \A k \in s + 1..Len(u) : u[k] \in Data
    BY <1>1, <1>5, <1>10 DEF Simple, Headed
  <2> DEFINE n == Len(u) - s
             B == {k \in 0..n : f[o] = f[o + s + k]}
  <2>2. n \in Nat /\ 0 \in B
    BY <1>3, <1>4, <1>6, <1>8
  <2>3. ASSUME NEW k \in 0..n - 1, k \in B PROVE k + 1 \in B
    <3>1. PICK i \in Nat : i = s + k
      BY <1>6
    <3>2. i + 1 \in s + 1..Len(u) /\ i + 1 \in 1..Len(u) /\ o + i \in Nat
          /\ ~(o + i >= Len(b)) /\ (o + i) + 1 = o + (i + 1)
      BY <1>3, <1>4, <1>6, <3>1
    <3>3. b[(o + i) + 1] = u[i + 1] /\ u[i + 1] \in Data
      BY <1>3, <2>1, <3>2
    <3>4. SkipOf(b[(o + i) + 1]) = 1 /\ b[(o + i) + 1] \notin EndOfEvent
      BY <3>3, WordFacts
    <3>5. f[o + i] = f[(o + i) + 1]
      BY <1>7, <3>2, <3>4
    <3>6. o + i = o + s + k /\ (o + i) + 1 = o + s + (k + 1)
      <4>1. k \in Int /\ s \in Int /\ o \in Int
        BY <1>3, <1>6
      <4> HIDE DEF n
      <4> QED BY <3>1, <4>1
    <3>7. k + 1 \in 0..n
      BY <2>2
    <3>8. f[o] = f[o + s + k]
      BY <2>3
    <3> QED BY <3>5, <3>6, <3>7, <3>8
  <2>4. n \in B
    <3>1. B \in SUBSET (0..n)
      OBVIOUS
    <3> HIDE DEF B, n
    <3> QED BY <2>2, <2>3, <3>1, UpTo
  <2>5. f[o] = f[o + s + n] /\ o + s + n = o + Len(u)
    BY <2>4, <1>3, <1>4, <1>6
  <2> QED BY <1>2, <1>3, <2>5
<1> QED BY <1>9, <1>10

\* Sequences of units are sequences of words.
LEMMA UnitWords ==
  ASSUME NEW us \in Seq(Unit)
  PROVE  /\ us \in Seq(Seq(Word)) /\ Len(us) \in Nat
         /\ \A k \in 1..Len(us) : us[k] \in Unit /\ us[k] \in Seq(Word) /\ us[k] # <<>>
<1>1. PICK T : T = Seq(Word)
  OBVIOUS
<1>2. \A v \in Unit : v \in T /\ v # <<>>
  BY <1>1 DEF Unit
<1>3. \A k \in 1..Len(us) : us[k] \in Unit
  BY ElementOfSeq
<1>4. us \in Seq(T)
  BY <1>2, <1>3
<1> QED BY <1>1, <1>2, <1>3, <1>4, LenProperties

\* The scan steps over all units before the first end behind where it began.
LEMMA ScanUnits ==
  ASSUME electronics \in Electronics, NEW us \in Seq(Unit), NEW f, Scans(FlattenSeq(us), f),
         NEW j \in 0..Len(us), NEW m \in j..Len(us), \A k \in j + 1..m : ~Ends(us[k])
  PROVE  f[Off(us, j)] = f[Off(us, m)]
<1> DEFINE n == m - j
           B == {k \in 0..n : f[Off(us, j)] = f[Off(us, j + k)]}
<1>1. n \in Nat /\ 0 \in B /\ Len(us) \in Nat
  <2>1. Len(us) \in Nat
    BY UnitWords
  <2>2. n \in Nat /\ j + 0 = j
    BY <2>1
  <2> QED BY <2>1, <2>2
<1>2. ASSUME NEW k \in 0..n - 1, k \in B PROVE k + 1 \in B
  <2>1. PICK i : i = j + k + 1
    OBVIOUS
  <2>2. /\ i \in 1..Len(us) /\ i \in j + 1..m /\ i - 1 = j + k /\ i = j + (k + 1)
        /\ k + 1 \in 0..n
    BY <1>1, <2>1
  <2>3. f[Off(us, i - 1)] = f[Off(us, i)]
    BY <2>2, ScanUnit
  <2>4. f[Off(us, j)] = f[Off(us, j + k)]
    BY <1>2
  <2> QED BY <2>2, <2>3, <2>4
<1>3. n \in B
  <2>1. B \in SUBSET (0..n)
    OBVIOUS
  <2> HIDE DEF B, n
  <2> QED BY <1>1, <1>2, <2>1, UpTo
<1>4. j + n = m
  BY <1>1
<1> QED BY <1>3, <1>4

\* No end of event in the buffer: all of it was looked at.
LEMMA ExtractNone ==
  ASSUME electronics \in Electronics, NEW us \in Seq(Unit), NEW j \in 0..Len(us),
         \A k \in j + 1..Len(us) : ~Ends(us[k])
  PROVE  F!TryExtractNextEvent(FlattenSeq(us), Off(us, j))
           = [found |-> FALSE, idx |-> Len(FlattenSeq(us)), buffer |-> FlattenSeq(us)]
<1> DEFINE b == FlattenSeq(us)
<1>1. us \in Seq(Seq(Word)) /\ Len(us) \in Nat /\ Len(us) \in j..Len(us)
  BY UnitWords
<1>2. b \in Seq(Word) /\ Off(us, j) \in Nat /\ Off(us, Len(us)) = Len(b)
  BY <1>1, Ranges
<1>3. PICK f : Scans(b, f) /\ \A i \in Nat : F!Scan(b, i) = f[i]
  BY <1>2, ScanExists
<1>4. f[Off(us, j)] = f[Off(us, Len(us))]
  BY <1>1, <1>3, ScanUnits
<1> HIDE DEF b
<1>5. Len(b) \in Nat /\ f[Len(b)] = Len(b)
  <2>1. Len(b) \in Nat
    BY <1>2, LenProperties
  <2> QED BY <1>3, <2>1 DEF Scans
<1>6. F!Scan(b, Off(us, j)) = Len(b)
  BY <1>2, <1>3, <1>4, <1>5
<1>7. F!TryExtractNextEvent(b, Off(us, j)) = [found |-> FALSE, idx |-> Len(b), buffer |-> b]
  BY <1>5, <1>6 DEF F!TryExtractNextEvent
<1> QED BY <1>7 DEF b

\* The event that is taken out of the buffer are the units up to the first end.
LEMMA ExtractFirst ==
  ASSUME electronics \in Electronics, NEW us \in Seq(Unit), NEW j \in 0..Len(us),
         NEW m \in j + 1..Len(us), Ends(us[m]), \A k \in j + 1..m - 1 : ~Ends(us[k])
  PROVE  F!TryExtractNextEvent(FlattenSeq(us), Off(us, j))
           = [found |-> TRUE, idx |-> 0, event |-> FlattenSeq(SubSeq(us, 1, m)),
              buffer |-> FlattenSeq(SubSeq(us, m + 1, Len(us)))]
<1> DEFINE b == FlattenSeq(us)
           a == FlattenSeq(SubSeq(us, 1, m))
           c == FlattenSeq(SubSeq(us, m + 1, Len(us)))
           u == us[m]
<1>1. /\ us \in Seq(Seq(Word)) /\ Len(us) \in Nat /\ m - 1 \in j..Len(us)
      /\ m \in 1..Len(us) /\ m - 1 \in 0..Len(us) /\ m \in 0..Len(us)
      /\ u \in Unit /\ u \in Seq(Word) /\ u # <<>>
  <2>1. us \in Seq(Seq(Word)) /\ Len(us) \in Nat
    BY UnitWords
  <2>2. m - 1 \in j..Len(us) /\ m \in 1..Len(us) /\ m - 1 \in 0..Len(us) /\ m \in 0..Len(us)
    BY <2>1
  <2> QED BY <2>1, <2>2, UnitWords
<1>2. /\ b \in Seq(Word) /\ a \in Seq(Word) /\ c \in Seq(Word) /\ b = a \o c
      /\ Len(a) = Off(us, m) /\ Off(us, j) \in Nat
  <2>1. a \in Seq(Word) /\ c \in Seq(Word) /\ b = a \o c
    BY <1>1, CutAt
  <2> QED BY <1>1, <2>1, Ranges DEF Off
<1>3. /\ Off(us, m - 1) \in Nat /\ Off(us, m) = Off(us, m - 1) + Len(u)
      /\ Off(us, m) <= Len(b)
      /\ \A k \in 1..Len(u) : b[Off(us, m - 1) + k] = u[k]
  BY <1>1, Place
<1>4. PICK f : Scans(b, f) /\ \A i \in Nat : F!Scan(b, i) = f[i]
  BY <1>2, ScanExists
<1>5. f[Off(us, j)] = f[Off(us, m - 1)]
  BY <1>1, <1>4, ScanUnits
<1>6. u[1] \in EndOfEvent /\ SkipOf(u[1]) = Len(u)
  <2>1. u[1] \in EndOfEvent
    BY DEF Ends
  <2>2. u[1] \notin HitIndex
    BY <2>1, WordFacts
  <2> QED BY <1>1, <2>1, <2>2 DEF Unit, Simple, Headed
<1> HIDE DEF a, b, c, u
<1>7. PICK o : o = Off(us, m - 1)
  OBVIOUS
<1>8. /\ o \in Nat /\ Len(a) = o + Len(u) /\ o + Len(u) <= Len(b)
      /\ Len(u) \in Nat /\ Len(u) >= 1 /\ 1 \in 1..Len(u) /\ b[o + 1] = u[1]
      /\ Len(a) \in Nat /\ Len(b) \in Nat
  BY <1>1, <1>2, <1>3, <1>7, SMTT(30)
<1>9. f[o] = o
  BY <1>4, <1>6, <1>8 DEF Scans
<1>10. F!Scan(b, Off(us, j)) = o /\ ~(o >= Len(b))
  BY <1>2, <1>4, <1>5, <1>7, <1>8, <1>9, SMTT(30)
<1>11. F!Min({o + SkipOf(F!At(b, o)), Len(b)}) = Len(a)
  <2>1. F!At(b, o) = u[1]
    BY <1>8 DEF F!At
  <2>2. o + SkipOf(F!At(b, o)) = Len(a)
    BY <1>6, <1>8, <2>1
  <2> DEFINE T == {Len(a), Len(b)}
  <2>3. T \subseteq Nat /\ T # {}
    BY <1>8
  <2>4. Min(T) \in T /\ \A y \in T : Min(T) <= y
    <3> HIDE DEF T
    <3> QED BY <2>3, MinOfNats
  <2>5. Min(T) = Len(a)
    BY <1>8, <2>4
  <2> QED BY <2>2, <2>5 DEF F!Min, Min
<1>12. F!TryExtractNextEvent(b, Off(us, j))
         = [found |-> TRUE, idx |-> 0, event |-> SubSeq(b, 1, Len(a)),
            buffer |-> SubSeq(b, Len(a) + 1, Len(b))]
  BY <1>10, <1>11 DEF F!TryExtractNextEvent
<1>13. SubSeq(b, 1, Len(a)) = a /\ SubSeq(b, Len(a) + 1, Len(b)) = c
  BY <1>2
<1> QED BY <1>12, <1>13 DEF a, b, c

\* c consists of a and b, one behind the other.
Glued(c, a, b) ==
  /\ Len(a) \in Nat /\ Len(b) \in Nat /\ Len(c) = Len(a) + Len(b)
  /\ \A i \in 1..Len(a) : c[i] = a[i] /\ i \in 1..Len(c)
  /\ \A i \in 1..Len(b) : c[Len(a) + i] = b[i] /\ Len(a) + i \in 1..Len(c)
  /\ \A i \in 1..Len(c) :
       i \in 1..Len(a) \/ (i - Len(a) \in 1..Len(b) /\ Len(a) + (i - Len(a)) = i)

\* Concatenation glues.
LEMMA Joined ==
  ASSUME NEW S, NEW a \in Seq(S), NEW b \in Seq(S), NEW c, c = a \o b
  PROVE  c \in Seq(S) /\ Glued(c, a, b)
<1>1. /\ c \in Seq(S) /\ Len(a) \in Nat /\ Len(b) \in Nat /\ Len(c) = Len(a) + Len(b)
      /\ \A i \in 1..Len(a) : c[i] = a[i]
  OBVIOUS
<1>2. \A i \in 1..Len(b) : c[Len(a) + i] = b[i]
  OBVIOUS
<1>3. /\ \A i \in 1..Len(a) : i \in 1..Len(c)
      /\ \A i \in 1..Len(b) : Len(a) + i \in 1..Len(c)
      /\ \A i \in 1..Len(c) :
           i \in 1..Len(a) \/ (i - Len(a) \in 1..Len(b) /\ Len(a) + (i - Len(a)) = i)
  BY <1>1
<1> QED BY <1>1, <1>2, <1>3 DEF Glued

(***************************************************************************)
(* The words around a frame, which carry nothing of an event.              *)
(***************************************************************************)
Headings == {<<2048, n>> : n \in Word}
Framing == Of(Headings \cup {<<15>>}, Headings, {})

\* Units without those of the framing.
Piece(u) == IF u \in Framing THEN <<>> ELSE <<u>>
Strip(us) == FlattenSeq([i \in DOMAIN us |-> Piece(us[i])])

\* What is left of one unit.
LEMMA PieceType == \A u \in Unit : Piece(u) \in Seq(Unit)
<1>1. <<>> \in Seq(Unit) /\ \A u \in Unit : <<u>> \in Seq(Unit)
  OBVIOUS
<1> QED BY <1>1 DEF Piece

\* The units that are left are those that are no framing, in their order.
LEMMA PiecesType ==
  ASSUME NEW us \in Seq(Unit)
  PROVE  LET ps == [i \in DOMAIN us |-> Piece(us[i])]
         IN ps \in Seq(Seq(Unit)) /\ Len(ps) = Len(us)
<1> DEFINE ps == [i \in DOMAIN us |-> Piece(us[i])]
<1>1. DOMAIN us = 1..Len(us) /\ Len(us) \in Nat
  BY LenProperties
<1>2. \A i \in 1..Len(us) : us[i] \in Unit
  BY ElementOfSeq
<1>3. \A i \in 1..Len(us) : Piece(us[i]) \in Seq(Unit)
  BY <1>2, PieceType
<1>4. PICK T : T = Seq(Unit)
  OBVIOUS
<1>5. ps \in Seq(T) /\ Len(ps) = Len(us)
  <2> DEFINE p(i) == Piece(us[i])
  <2>1. \A i \in 1..Len(us) : p(i) \in T
    BY <1>3, <1>4
  <2> HIDE DEF p
  <2>2. [i \in 1..Len(us) |-> p(i)] \in Seq(T)
        /\ Len([i \in 1..Len(us) |-> p(i)]) = Len(us)
    BY <1>1, <2>1
  <2> QED BY <1>1, <2>2 DEF p
<1> QED BY <1>4, <1>5

\* Stripping goes over concatenation.
LEMMA StripConcat ==
  ASSUME NEW a \in Seq(Unit), NEW b \in Seq(Unit)
  PROVE  /\ Strip(a) \in Seq(Unit) /\ Strip(b) \in Seq(Unit)
         /\ a \o b \in Seq(Unit) /\ Strip(a \o b) = Strip(a) \o Strip(b)
<1> DEFINE ps(us) == [i \in DOMAIN us |-> Piece(us[i])]
           c == a \o b
<1>1. c \in Seq(Unit) /\ Len(c) = Len(a) + Len(b) /\ Len(a) \in Nat /\ Len(b) \in Nat
      /\ DOMAIN a = 1..Len(a) /\ DOMAIN b = 1..Len(b) /\ DOMAIN c = 1..Len(c)
      /\ (\A i \in 1..Len(a) : c[i] = a[i])
      /\ (\A i \in Len(a) + 1..Len(c) : c[i] = b[i - Len(a)])
  OBVIOUS
<1>2. \A us \in Seq(Unit) : ps(us) \in Seq(Seq(Unit)) /\ Len(ps(us)) = Len(us)
  BY PiecesType
<1>3. PICK T : T = Seq(Unit)
  OBVIOUS
<1>4. PICK x, y, z : x = ps(a) /\ y = ps(b) /\ z = ps(c)
  OBVIOUS
<1>5. x \in Seq(T) /\ y \in Seq(T) /\ z \in Seq(T) /\ Len(x) = Len(a) /\ Len(y) = Len(b)
      /\ Len(z) = Len(c)
  BY <1>1, <1>2, <1>3, <1>4
<1>6. /\ \A i \in 1..Len(a) : x[i] = Piece(a[i])
      /\ \A i \in 1..Len(b) : y[i] = Piece(b[i])
      /\ \A i \in 1..Len(c) : z[i] = Piece(c[i])
  BY <1>1, <1>4
<1> HIDE DEF ps, c
<1>7. z = x \o y
  <2>0. PICK xy : xy = x \o y
    OBVIOUS
  <2>1. /\ Len(xy) = Len(z) /\ xy \in Seq(T)
        /\ \A i \in 1..Len(x) : xy[i] = x[i]
        /\ \A i \in 1..Len(y) : xy[Len(x) + i] = y[i]
    <3>1. /\ Len(xy) = Len(x) + Len(y) /\ xy \in Seq(T)
          /\ \A i \in 1..Len(x) : xy[i] = x[i]
          /\ \A i \in 1..Len(y) : xy[Len(x) + i] = y[i]
      <4>1. xy \in Seq(T) /\ Glued(xy, x, y)
        BY <1>5, <2>0, Joined
      <4> QED BY <4>1 DEF Glued
    <3> QED BY <1>1, <1>5, <3>1
  <2>2. ASSUME NEW i \in 1..Len(z) PROVE z[i] = xy[i]
    <3>1. CASE i <= Len(x)
      <4>1. i \in 1..Len(x) /\ i \in 1..Len(a) /\ i \in 1..Len(c)
        BY <1>1, <1>5, <3>1
      <4> QED BY <1>1, <1>6, <2>1, <4>1
    <3>2. CASE i > Len(x)
      <4>1. PICK k : k = i - Len(x)
        OBVIOUS
      <4>2. /\ k \in 1..Len(y) /\ k \in 1..Len(b) /\ Len(x) + k = i /\ i - Len(a) = k
            /\ i \in Len(a) + 1..Len(c) /\ i \in 1..Len(c)
        BY <1>1, <1>5, <3>2, <4>1
      <4>3. xy[i] = y[k] /\ c[i] = b[k]
        BY <1>1, <2>1, <4>2
      <4> QED BY <1>6, <4>2, <4>3
    <3> QED BY <1>1, <1>5, <3>1, <3>2
  <2> QED BY <1>5, <2>0, <2>1, <2>2, SeqEqual
<1>8. FlattenSeq(x) \in Seq(Unit) /\ FlattenSeq(y) \in Seq(Unit)
      /\ FlattenSeq(x \o y) = FlattenSeq(x) \o FlattenSeq(y)
  BY <1>3, <1>5, FlattenConcat
<1> QED BY <1>1, <1>4, <1>7, <1>8 DEF Strip, ps, c

\* One unit, and none.
LEMMA StripOne ==
  ASSUME NEW u \in Unit
  PROVE  <<u>> \in Seq(Unit) /\ Strip(<<u>>) = Piece(u) /\ Strip(<<>>) = <<>>
<1>1. [i \in DOMAIN <<u>> |-> Piece(<<u>>[i])] = <<Piece(u)>>
  OBVIOUS
<1>2. [i \in DOMAIN <<>> |-> Piece(<<>>[i])] = <<>>
  OBVIOUS
<1>3. FlattenSeq(<<Piece(u)>>) = Piece(u)
  <2>1. Piece(u) \in Seq(Unit) /\ <<>> \in Seq(Seq(Unit)) /\ <<>> \in Seq(Unit)
    BY PieceType
  <2>2. PICK p : p = Piece(u)
    OBVIOUS
  <2>3. Append(<<>>, p) = <<p>> /\ <<>> \o p = p
    BY <2>1, <2>2
  <2> QED BY <2>1, <2>2, <2>3, FlattenAppend, FlattenNone
<1> QED BY <1>1, <1>2, <1>3, FlattenNone DEF Strip

\* Without framing nothing is taken away.
LEMMA StripClean ==
  ASSUME NEW us \in Seq(Unit), \A k \in 1..Len(us) : us[k] \notin Framing
  PROVE  Strip(us) = us
<1> DEFINE ps == [i \in DOMAIN us |-> Piece(us[i])]
<1>1. ps \in Seq(Seq(Unit)) /\ Len(ps) = Len(us) /\ DOMAIN us = 1..Len(us)
  BY PiecesType
<1>2. \A k \in 1..Len(us) : ps[k] = <<us[k]>>
  BY <1>1 DEF Piece
<1> HIDE DEF ps
<1>3. FlattenSeq(ps) = us
  BY <1>1, <1>2, FlattenSingles
<1> QED BY <1>3 DEF Strip, ps

\* What is left is no framing, and all that is none is left.
LEMMA StripRange ==
  ASSUME NEW us \in Seq(Unit)
  PROVE  /\ \A k \in 1..Len(Strip(us)) : Strip(us)[k] \notin Framing
                /\ \E i \in 1..Len(us) : us[i] = Strip(us)[k]
         /\ \A i \in 1..Len(us) : us[i] \notin Framing =>
                \E k \in 1..Len(Strip(us)) : Strip(us)[k] = us[i]
<1> DEFINE n == Len(us)
           In(v, s) == \E k \in 1..Len(s) : s[k] = v
           Q(s) == \A v : In(v, Strip(s)) <=> v \notin Framing /\ In(v, s)
           B == {k \in 0..n : Q(SubSeq(us, 1, k))}
<1>1. n \in Nat
  BY LenProperties
<1>2. 0 \in B
  <2>1. SubSeq(us, 1, 0) = <<>>
    BY Firsts
  <2>2. [i \in DOMAIN <<>> |-> Piece(<<>>[i])] = <<>>
    OBVIOUS
  <2>3. Strip(<<>>) = <<>>
    BY <2>2, FlattenNone DEF Strip
  <2>4. \A v : ~In(v, <<>>)
    OBVIOUS
  <2>5. Q(SubSeq(us, 1, 0))
    <3> HIDE DEF In
    <3> QED BY <2>1, <2>3, <2>4, Zenon
  <2>6. 0 \in 0..n
    BY <1>1
  <2> HIDE DEF Q
  <2> QED BY <2>5, <2>6
<1>3. ASSUME NEW k \in 0..n - 1, k \in B PROVE k + 1 \in B
  <2> DEFINE a == SubSeq(us, 1, k)
             u == us[k + 1]
             c == SubSeq(us, 1, k + 1)
  <2>1. a \in Seq(Unit) /\ u \in Unit /\ c = Append(a, u) /\ k + 1 \in 0..n
    BY <1>1, Firsts
  <2>2. Q(a)
    BY <1>3
  <2> HIDE DEF a, u, c, In, B, n
  <2>3. c = a \o <<u>> /\ <<u>> \in Seq(Unit) /\ <<>> \in Seq(Unit)
    BY <2>1
  <2>4. Strip(c) = Strip(a) \o Piece(u) /\ Strip(a) \in Seq(Unit)
    BY <2>1, <2>3, StripConcat, StripOne
  <2>5. ASSUME NEW s \in Seq(Unit), NEW t \in Seq(Unit), NEW v
        PROVE  In(v, s \o t) <=> In(v, s) \/ In(v, t)
    <3>4. PICK st : st = s \o t
      OBVIOUS
    <3>1. /\ \A i \in 1..Len(s) : st[i] = s[i] /\ i \in 1..Len(st)
          /\ \A i \in 1..Len(t) : st[Len(s) + i] = t[i] /\ Len(s) + i \in 1..Len(st)
          /\ \A i \in 1..Len(st) : i \in 1..Len(s)
               \/ (i - Len(s) \in 1..Len(t) /\ Len(s) + (i - Len(s)) = i)
      <4>1. Glued(st, s, t)
        BY <3>4, Joined
      <4> QED BY <4>1 DEF Glued
    <3>5. In(v, st) => In(v, s) \/ In(v, t)
      <4>1. ASSUME NEW i \in 1..Len(st), st[i] = v, i \notin 1..Len(s)
            PROVE  t[i - Len(s)] = v /\ i - Len(s) \in 1..Len(t)
        BY <3>1, <4>1
      <4> QED BY <3>1, <4>1 DEF In
    <3>6. In(v, s) => In(v, st)
      BY <3>1, <3>4 DEF In
    <3>7. In(v, t) => In(v, st)
      BY <3>1, <3>4 DEF In
    <3> QED BY <3>4, <3>5, <3>6, <3>7
  <2>6. \A v : In(v, c) <=> In(v, a) \/ v = u
    <3>1. \A v : In(v, <<u>>) <=> v = u
      <4>1. Len(<<u>>) = 1 /\ <<u>>[1] = u /\ 1 \in 1..1 /\ \A i \in 1..1 : i = 1
        OBVIOUS
      <4> QED BY <4>1, Zenon DEF In
    <3>2. a \in Seq(Unit) /\ <<u>> \in Seq(Unit)
      BY <2>1, <2>3
    <3>3. \A v : In(v, a \o <<u>>) <=> In(v, a) \/ In(v, <<u>>)
      BY <2>5, <3>2
    <3> QED BY <2>3, <3>1, <3>3
  <2>7. \A v : In(v, Strip(c)) <=> In(v, Strip(a)) \/ (u \notin Framing /\ v = u)
    <3>1. \A v : In(v, Piece(u)) <=> u \notin Framing /\ v = u
      BY DEF In, Piece
    <3> QED BY <2>1, <2>4, <2>5, <3>1, PieceType
  <2>8. Q(c)
    BY <2>2, <2>6, <2>7
  <2> QED BY <2>1, <2>8 DEF B, c
<1>4. n \in B
  <2>1. B \in SUBSET (0..n)
    OBVIOUS
  <2> HIDE DEF B, n
  <2> QED BY <1>1, <1>2, <1>3, <2>1, UpTo
<1>5. Q(us)
  <2>1. SubSeq(us, 1, n) = us
    BY Firsts
  <2> HIDE DEF Q
  <2> QED BY <1>4, <2>1
<1> QED BY <1>5

\* Two ways to cut a sequence behind its first end are the same.
LEMMA FirstEnd ==
  ASSUME NEW a \in Seq(Unit), NEW b \in Seq(Unit), NEW c \in Seq(Unit), NEW d \in Seq(Unit),
         a \o b = c \o d, a # <<>>, c # <<>>,
         \A k \in 1..Len(a) : Ends(a[k]) <=> k = Len(a),
         \A k \in 1..Len(c) : Ends(c[k]) <=> k = Len(c)
  PROVE  a = c /\ b = d
<1> DEFINE s == a \o b
<1>1. /\ Len(a) \in Nat /\ Len(c) \in Nat /\ Len(a) >= 1 /\ Len(c) >= 1
      /\ Len(b) \in Nat /\ Len(d) \in Nat
  OBVIOUS
<1>2. /\ \A k \in 1..Len(a) : s[k] = a[k]
      /\ \A k \in 1..Len(c) : s[k] = c[k]
      /\ Len(s) = Len(a) + Len(b) /\ Len(s) = Len(c) + Len(d)
      /\ \A k \in 1..Len(b) : s[Len(a) + k] = b[k]
      /\ \A k \in 1..Len(d) : s[Len(c) + k] = d[k]
  <2>1. Glued(s, a, b) /\ Glued(s, c, d)
    <3> HIDE DEF s
    <3>1. s = a \o b /\ s = c \o d
      BY DEF s
    <3> QED BY <3>1, Joined
  <2> HIDE DEF s
  <2> QED BY <2>1 DEF Glued
<1> HIDE DEF s
<1>3. Len(a) = Len(c)
  <2>1. CASE Len(a) < Len(c)
    <3>1. Len(a) \in 1..Len(a) /\ Len(a) \in 1..Len(c) /\ Len(a) # Len(c)
      BY <1>1, <2>1
    <3>2. Ends(s[Len(a)]) /\ ~Ends(s[Len(a)])
      BY <1>2, <3>1
    <3> QED BY <3>2
  <2>2. CASE Len(c) < Len(a)
    <3>1. Len(c) \in 1..Len(a) /\ Len(c) \in 1..Len(c) /\ Len(a) # Len(c)
      BY <1>1, <2>2
    <3>2. Ends(s[Len(c)]) /\ ~Ends(s[Len(c)])
      BY <1>2, <3>1
    <3> QED BY <3>2
  <2> QED BY <1>1, <2>1, <2>2
<1>4. a = c
  BY <1>2, <1>3, SeqEqual
<1>5. b = d
  <2>1. Len(b) = Len(d)
    BY <1>1, <1>2, <1>3
  <2>2. \A k \in 1..Len(b) : b[k] = d[k]
    BY <1>2, <1>3, <2>1
  <2> QED BY <2>1, <2>2, SeqEqual
<1> QED BY <1>4, <1>5

(***************************************************************************)
(* The words of a pulse.                                                   *)
(***************************************************************************)
BinCode == Of(3584, 3584, 4096)
SampleCode == Of(12288, 12288, 0)

Amplitude == 0..4095
BinNo == 0..511
ValueOf(w) == w % 4096
BinOf(w) == w % 512

\* The ranges, as inequalities.
LEMMA Numbers ==
  /\ \A x \in Amplitude : x \in Int /\ 0 <= x /\ x <= 4095
  /\ \A x \in BinNo : x \in Int /\ 0 <= x /\ x <= 511
  /\ \A x \in Int : 0 <= x /\ x <= 4095 => x \in Amplitude
  /\ \A x \in Int : 0 <= x /\ x <= 511 => x \in BinNo
  /\ \A x \in Word : x \in Int /\ 0 <= x /\ x <= 65535
  /\ \A x \in Int : 0 <= x /\ x <= 65535 => x \in Word
<1>1. \A x \in Amplitude : x \in Int /\ 0 <= x /\ x <= 4095
  BY DEF Amplitude
<1>2. \A x \in BinNo : x \in Int /\ 0 <= x /\ x <= 511
  BY DEF BinNo
<1>3. \A x \in Int : 0 <= x /\ x <= 4095 => x \in Amplitude
  BY DEF Amplitude
<1>4. \A x \in Int : 0 <= x /\ x <= 511 => x \in BinNo
  BY DEF BinNo
<1>5. \A x \in Word : x \in Int /\ 0 <= x /\ x <= 65535
  BY DEF Word
<1>6. \A x \in Int : x \in Word <=> 0 <= x /\ x <= 65535
  BY SMT DEF Word
<1> QED BY <1>1, <1>2, <1>3, <1>4, <1>5, <1>6, SMT

\* How samples and bins are coded in words.
Codes ==
  /\ \A x \in Amplitude : /\ SampleCode + x \in Word /\ SampleCode + x \in AdcSample
                          /\ SampleCode + x \notin TimeBin /\ ValueOf(SampleCode + x) = x
  /\ \A x \in BinNo : /\ BinCode + x \in Word /\ BinCode + x \in TimeBin
                      /\ BinCode + x \notin AdcSample /\ BinOf(BinCode + x) = x

\* A word of a sample is none of a bin.
LEMMA DataApart ==
  /\ \A w \in ARC!AdcSample : w \notin ARC!TimeBin
  /\ \A w \in FEMINOS!AdcSample : w \notin FEMINOS!TimeBin
  /\ \A w \in DCC!AdcSample : w \notin DCC!TimeBin
<1>1. \A w \in ARC!AdcSample : w \notin ARC!TimeBin
  BY ARCBounds
<1>2. \A w \in FEMINOS!AdcSample : w \notin FEMINOS!TimeBin
  BY FEMINOSBounds
<1>3. \A w \in DCC!AdcSample : w \notin DCC!TimeBin
  <2>1. /\ \A w \in DCC!AdcSample : w \in Int /\ w <= 4095
        /\ \A w \in DCC!TimeBin : w >= 4096
    BY DEF DCC!AdcSample, DCC!TimeBin
  <2> QED BY <2>1
<1> QED BY <1>1, <1>2, <1>3

\* The prefix codes of all three electronics are such.
LEMMA CodesHold == ASSUME electronics \in Electronics PROVE Codes
<1>0. /\ \A w \in ARC!AdcSample : w \notin ARC!TimeBin
      /\ \A w \in FEMINOS!AdcSample : w \notin FEMINOS!TimeBin
      /\ \A w \in DCC!AdcSample : w \notin DCC!TimeBin
  BY DataApart
<1>1. CASE electronics = "ARC"
  <2>1. ASSUME NEW x \in Amplitude
        PROVE  /\ 12288 + x \in Word /\ 12288 + x \in ARC!AdcSample
               /\ 12288 + x \notin ARC!TimeBin /\ ValueOf(12288 + x) = x
    <3>0. x \in Int /\ 0 <= x /\ x <= 4095
      BY Numbers
    <3>1. 12288 + x \in Word
      BY <3>0, Numbers
    <3>2. 12288 + x \in ARC!AdcSample
      BY <3>0 DEF ARC!AdcSample
    <3>3. 12288 + x \notin ARC!TimeBin
      BY <3>2, <1>0
    <3>4. ValueOf(12288 + x) = x
      BY <3>0 DEF ValueOf, BinOf
    <3> QED BY <3>1, <3>2, <3>3, <3>4
  <2>2. ASSUME NEW x \in BinNo
        PROVE  /\ 3584 + x \in Word /\ 3584 + x \in ARC!TimeBin
               /\ 3584 + x \notin ARC!AdcSample /\ BinOf(3584 + x) = x
    <3>0. x \in Int /\ 0 <= x /\ x <= 511
      BY Numbers
    <3>1. 3584 + x \in Word
      BY <3>0, Numbers
    <3>2. 3584 + x \in ARC!TimeBin
      BY <3>0 DEF ARC!TimeBin
    <3>3. 3584 + x \notin ARC!AdcSample
      BY <3>2, <1>0
    <3>4. BinOf(3584 + x) = x
      BY <3>0 DEF ValueOf, BinOf
    <3> QED BY <3>1, <3>2, <3>3, <3>4
  <2>3. /\ SampleCode = 12288 /\ BinCode = 3584
        /\ AdcSample = ARC!AdcSample /\ TimeBin = ARC!TimeBin
    BY <1>1 DEF AdcSample, TimeBin, SampleCode, BinCode, Of
  <2> QED BY <2>1, <2>2, <2>3 DEF Codes
<1>2. CASE electronics = "FEMINOS"
  <2>1. ASSUME NEW x \in Amplitude
        PROVE  /\ 12288 + x \in Word /\ 12288 + x \in FEMINOS!AdcSample
               /\ 12288 + x \notin FEMINOS!TimeBin /\ ValueOf(12288 + x) = x
    <3>0. x \in Int /\ 0 <= x /\ x <= 4095
      BY Numbers
    <3>1. 12288 + x \in Word
      BY <3>0, Numbers
    <3>2. 12288 + x \in FEMINOS!AdcSample
      BY <3>0 DEF FEMINOS!AdcSample
    <3>3. 12288 + x \notin FEMINOS!TimeBin
      BY <3>2, <1>0
    <3>4. ValueOf(12288 + x) = x
      BY <3>0 DEF ValueOf, BinOf
    <3> QED BY <3>1, <3>2, <3>3, <3>4
  <2>2. ASSUME NEW x \in BinNo
        PROVE  /\ 3584 + x \in Word /\ 3584 + x \in FEMINOS!TimeBin
               /\ 3584 + x \notin FEMINOS!AdcSample /\ BinOf(3584 + x) = x
    <3>0. x \in Int /\ 0 <= x /\ x <= 511
      BY Numbers
    <3>1. 3584 + x \in Word
      BY <3>0, Numbers
    <3>2. 3584 + x \in FEMINOS!TimeBin
      BY <3>0 DEF FEMINOS!TimeBin
    <3>3. 3584 + x \notin FEMINOS!AdcSample
      BY <3>2, <1>0
    <3>4. BinOf(3584 + x) = x
      BY <3>0 DEF ValueOf, BinOf
    <3> QED BY <3>1, <3>2, <3>3, <3>4
  <2>3. /\ SampleCode = 12288 /\ BinCode = 3584
        /\ AdcSample = FEMINOS!AdcSample /\ TimeBin = FEMINOS!TimeBin
    BY <1>2 DEF AdcSample, TimeBin, SampleCode, BinCode, Of
  <2> QED BY <2>1, <2>2, <2>3 DEF Codes
<1>3. CASE electronics = "DCC" /\ electronics # "ARC" /\ electronics # "FEMINOS"
  <2>1. ASSUME NEW x \in Amplitude
        PROVE  /\ 0 + x \in Word /\ 0 + x \in DCC!AdcSample
               /\ 0 + x \notin DCC!TimeBin /\ ValueOf(0 + x) = x
    <3>0. x \in Int /\ 0 <= x /\ x <= 4095
      BY Numbers
    <3>1. 0 + x \in Word
      BY <3>0, Numbers
    <3>2. 0 + x \in DCC!AdcSample
      BY <3>0 DEF DCC!AdcSample
    <3>3. 0 + x \notin DCC!TimeBin
      BY <3>2, <1>0
    <3>4. ValueOf(0 + x) = x
      BY <3>0 DEF ValueOf, BinOf
    <3> QED BY <3>1, <3>2, <3>3, <3>4
  <2>2. ASSUME NEW x \in BinNo
        PROVE  /\ 4096 + x \in Word /\ 4096 + x \in DCC!TimeBin
               /\ 4096 + x \notin DCC!AdcSample /\ BinOf(4096 + x) = x
    <3>0. x \in Int /\ 0 <= x /\ x <= 511
      BY Numbers
    <3>1. 4096 + x \in Word
      BY <3>0, Numbers
    <3>2. 4096 + x \in DCC!TimeBin
      BY <3>0 DEF DCC!TimeBin
    <3>3. 4096 + x \notin DCC!AdcSample
      BY <3>2, <1>0
    <3>4. BinOf(4096 + x) = x
      BY <3>0 DEF ValueOf, BinOf
    <3> QED BY <3>1, <3>2, <3>3, <3>4
  <2>3. /\ SampleCode = 0 /\ BinCode = 4096
        /\ AdcSample = DCC!AdcSample /\ TimeBin = DCC!TimeBin
    BY <1>3 DEF AdcSample, TimeBin, SampleCode, BinCode, Of
  <2> QED BY <2>1, <2>2, <2>3 DEF Codes
<1> QED BY <1>1, <1>2, <1>3, ElectronicsOf

\* g[k] is timeBin before the k-th word.
Bins(words, g) ==
  g = [k \in 1..Len(words) + 1 |->
         IF k = 1 THEN 0
         ELSE IF words[k - 1] \in TimeBin THEN BinOf(words[k - 1])
         ELSE IF words[k - 1] \in AdcSample THEN g[k - 1] + 1
         ELSE g[k - 1]]

\* The time bins of the model are such a function.
LEMMA BinsExist ==
  ASSUME NEW words \in Seq(Word)
  PROVE  Bins(words, F!timeBin(words))
<1> DEFINE n == Len(words) + 1
           mode == [k \in 1..n |-> IF k = 1 THEN 0 ELSE IF words[k - 1] \in TimeBin THEN 0
                                   ELSE IF words[k - 1] \in AdcSample THEN 1 ELSE 2]
           val == [k \in 1..n |-> BinOf(words[k - 1])]
           R(f, k) == IF k = 1 THEN 0 ELSE IF mode[k] = 0 THEN val[k]
                      ELSE IF mode[k] = 1 THEN f[k - 1] + 1 ELSE f[k - 1]
           W(f, k) == IF k = 1 THEN 0
                      ELSE IF words[k - 1] \in TimeBin THEN BinOf(words[k - 1])
                      ELSE IF words[k - 1] \in AdcSample THEN f[k - 1] + 1 ELSE f[k - 1]
<1>1. n \in Nat /\ mode \in [1..n -> Nat]
  BY LenProperties
<1>2. PICK f : f = [k \in 1..n |-> R(f, k)]
  <2>1. \E f : Counts(f, n, 0, mode, val)
    <3> HIDE DEF n, mode, val
    <3> QED BY <1>1, DownwardExists
  <2> QED BY <2>1 DEF Counts
<1>3. \A k \in 1..n : R(f, k) = W(f, k)
  OBVIOUS
<1>4. f = [k \in 1..n |-> W(f, k)]
  <2> HIDE DEF n, R, W
  <2> QED BY <1>2, <1>3
<1>5. Bins(words, f)
  BY <1>4 DEF Bins
<1>6. F!timeBin(words) = CHOOSE g : Bins(words, g)
  BY DEF F!timeBin, Bins, BinOf
<1>7. PICK g : g = CHOOSE x : Bins(words, x)
  OBVIOUS
<1>8. Bins(words, g)
  BY <1>5, <1>7
<1> QED BY <1>6, <1>7, <1>8

\* The words of a run.
RunWords(r) ==
  (IF r.at = 0 THEN <<>> ELSE <<BinCode + r.at>>)
    \o [k \in DOMAIN r.samples |-> SampleCode + r.samples[k]]

\* The words of a run are its bin and its samples.
LEMMA RunWordsAre ==
  ASSUME electronics \in Electronics, NEW r \in Run
  PROVE  LET h == IF r.at = 0 THEN 0 ELSE 1
             l == Len(r.samples)
         IN /\ r.at \in BinNo /\ l \in Nat /\ l >= 1
            /\ \A s \in 1..l : r.samples[s] \in Amplitude
            /\ RunWords(r) \in Seq(Word) /\ Len(RunWords(r)) = h + l
            /\ h = 1 => RunWords(r)[1] = BinCode + r.at
            /\ \A s \in 1..l : RunWords(r)[h + s] = SampleCode + r.samples[s]
<1>1. PICK at, samples, h : /\ at = r.at /\ samples = r.samples
                            /\ h = (IF r.at = 0 THEN 0 ELSE 1)
  OBVIOUS
<1>2. at \in BinNo /\ samples \in Seq(Amplitude) /\ samples # <<>>
  BY <1>1 DEF Run, Amplitude, BinNo
<1>3. PICK l : l = Len(samples)
  OBVIOUS
<1>4. l \in Nat /\ l >= 1 /\ DOMAIN samples = 1..l /\ \A s \in 1..l : samples[s] \in Amplitude
  BY <1>2, <1>3
<1>5. Codes
  BY CodesHold
<1>6. PICK a, b : /\ a = IF at = 0 THEN <<>> ELSE <<BinCode + at>>
                  /\ b = [k \in DOMAIN samples |-> SampleCode + samples[k]]
  OBVIOUS
<1>7. b \in Seq(Word) /\ Len(b) = l /\ \A s \in 1..l : b[s] = SampleCode + samples[s]
  <2>0. \A q \in Amplitude : SampleCode + q \in Word
    BY <1>5, Zenon DEF Codes
  <2>1. \A s \in 1..l : SampleCode + samples[s] \in Word
    BY <1>4, <2>0
  <2> DEFINE p(s) == SampleCode + samples[s]
  <2> HIDE DEF p
  <2>2. b = [s \in 1..l |-> p(s)]
    BY <1>4, <1>6 DEF p
  <2>3. \A s \in 1..l : p(s) \in Word
    BY <2>1 DEF p
  <2>4. b \in Seq(Word) /\ Len(b) = l /\ \A s \in 1..l : b[s] = p(s)
    BY <1>4, <2>2, <2>3
  <2> QED BY <2>4 DEF p
<1>8. a \in Seq(Word) /\ Len(a) = (IF at = 0 THEN 0 ELSE 1) /\ (at # 0 => a[1] = BinCode + at)
  <2>1. BinCode + at \in Word
    BY <1>2, <1>5 DEF Codes
  <2> QED BY <1>6, <2>1
<1>9. PICK c : c = a \o b
  OBVIOUS
<1>10. c \in Seq(Word) /\ Glued(c, a, b)
  BY <1>7, <1>8, <1>9, Joined
<1>11. RunWords(r) = c
  BY <1>1, <1>6, <1>9 DEF RunWords
<1>15. a \in Seq(Word) /\ Len(a) = h /\ h \in Nat /\ (h = 1 => a[1] = BinCode + at)
  BY <1>1, <1>8
<1>12. h = 1 => c[1] = BinCode + at
  <2>1. h = 1 => 1 \in 1..Len(a)
    BY <1>15
  <2> QED BY <1>15, <1>10, <2>1 DEF Glued
<1>13. \A s \in 1..l : c[h + s] = SampleCode + samples[s]
  BY <1>7, <1>15, <1>10 DEF Glued
<1>14. Len(c) = h + l
  BY <1>7, <1>15, <1>10 DEF Glued
<1> QED BY <1>1, <1>2, <1>3, <1>4, <1>10, <1>11, <1>12, <1>13, <1>14

\* The k-th word is the s-th sample of a run.
Holds(words, g, k, r, s) ==
  /\ words[k] \in AdcSample
  /\ words[k] = SampleCode + r.samples[s] /\ g[k] = r.at + s - 1

\* The words of a run r stand behind o, and the bin before them is no later.
RunAt(words, g, o, r) ==
  /\ words \in Seq(Word) /\ Bins(words, g) /\ r \in Run /\ r.at + Len(r.samples) <= 512
  /\ o \in Nat /\ o + Len(RunWords(r)) <= Len(words)
  /\ \A k \in 1..Len(RunWords(r)) : words[o + k] = RunWords(r)[k]
  /\ g[o + 1] \in 0..r.at

\* Each word of the run is in a bin; samples, and only they, have their value.
RunRead(words, g, o, r) ==
  /\ g[(o + Len(RunWords(r))) + 1] = r.at + Len(r.samples)
  /\ \A k \in 1..Len(RunWords(r)) :
       /\ words[o + k] \in AdcSample \cup TimeBin /\ g[o + k] \in BinNo
       /\ words[o + k] \in AdcSample =>
            \E s \in 1..Len(r.samples) : Holds(words, g, o + k, r, s)
  /\ \A s \in 1..Len(r.samples) :
       \E k \in 1..Len(RunWords(r)) : Holds(words, g, o + k, r, s)

\* The time bin before each word of a run.
LEMMA RunBins ==
  ASSUME electronics \in Electronics, NEW words, NEW g, NEW o, NEW r, RunAt(words, g, o, r)
  PROVE  RunRead(words, g, o, r)
<1>0. /\ words \in Seq(Word) /\ Bins(words, g) /\ r \in Run /\ r.at + Len(r.samples) <= 512
      /\ o \in Nat /\ o + Len(RunWords(r)) <= Len(words)
      /\ \A k \in 1..Len(RunWords(r)) : words[o + k] = RunWords(r)[k]
      /\ g[o + 1] \in 0..r.at
  BY DEF RunAt
<1>1. PICK h, l, rw, at, x : /\ h = (IF r.at = 0 THEN 0 ELSE 1) /\ l = Len(r.samples)
                             /\ rw = RunWords(r) /\ at = r.at /\ x = r.samples
  OBVIOUS
<1>2. /\ at \in BinNo /\ l \in Nat /\ l >= 1 /\ at + l <= 512
      /\ h \in Nat /\ h <= 1 /\ (h = 0 <=> at = 0) /\ at \in Int /\ 0 <= at /\ at <= 511
  <2>1. at \in BinNo /\ l \in Nat /\ l >= 1 /\ at + l <= 512
    BY <1>0, <1>1, RunWordsAre
  <2>2. h \in Nat /\ h <= 1 /\ (h = 0 <=> at = 0)
    BY <1>1
  <2>3. at \in Int /\ 0 <= at /\ at <= 511
    BY <2>1, Numbers
  <2> QED BY <2>1, <2>2, <2>3
<1>21. Len(rw) = h + l /\ (h = 1 => rw[1] = BinCode + at)
  BY <1>0, <1>1, RunWordsAre
<1>22. \A s \in 1..l : x[s] \in Amplitude /\ rw[h + s] = SampleCode + x[s]
  BY <1>0, <1>1, RunWordsAre
<1>3. o \in Nat /\ o + (h + l) <= Len(words) /\ Len(words) \in Nat
  BY <1>0, <1>1, <1>21, LenProperties
<1>31. (\A k \in 1..h + l : words[o + k] = rw[k]) /\ g[o + 1] \in 0..at
  BY <1>0, <1>1, <1>21
<1>4. /\ \A q \in Amplitude : SampleCode + q \in AdcSample /\ SampleCode + q \notin TimeBin
      /\ \A q \in BinNo : BinCode + q \in TimeBin /\ BinCode + q \notin AdcSample /\ BinOf(BinCode + q) = q
  BY CodesHold DEF Codes
<1>5. \A k \in 1..Len(words) :
        g[k + 1] = IF words[k] \in TimeBin THEN BinOf(words[k])
                   ELSE IF words[k] \in AdcSample THEN g[k] + 1 ELSE g[k]
  <2> SUFFICES ASSUME NEW k \in 1..Len(words)
               PROVE  g[k + 1] = IF words[k] \in TimeBin THEN BinOf(words[k])
                                 ELSE IF words[k] \in AdcSample THEN g[k] + 1 ELSE g[k]
    OBVIOUS
  <2>1. k + 1 \in 1..Len(words) + 1 /\ k + 1 # 1 /\ (k + 1) - 1 = k
    BY <1>3
  <2> QED BY <1>0, <2>1 DEF Bins
<1>6. \A s \in 1..l : /\ h + s \in 1..h + l /\ o + (h + s) \in 1..Len(words)
                      /\ words[o + (h + s)] = SampleCode + x[s]
                      /\ words[o + (h + s)] \in AdcSample
                      /\ words[o + (h + s)] \notin TimeBin
  <2>1. \A s \in 1..l : h + s \in 1..h + l /\ o + (h + s) \in 1..Len(words)
    BY <1>2, <1>3
  <2>2. \A s \in 1..l : words[o + (h + s)] = SampleCode + x[s]
    BY <1>22, <1>31, <2>1
  <2>3. \A s \in 1..l : SampleCode + x[s] \in AdcSample /\ SampleCode + x[s] \notin TimeBin
    BY <1>22, <1>4
  <2> QED BY <2>1, <2>2, <2>3
<1>7. h = 1 => words[o + 1] = BinCode + at /\ words[o + 1] \in TimeBin
                  /\ words[o + 1] \notin AdcSample /\ BinOf(words[o + 1]) = at
  <2>1. h = 1 => 1 \in 1..h + l
    BY <1>2
  <2> QED BY <1>2, <1>21, <1>31, <1>4, <2>1
<1>8. g[(o + h) + 1] = at
  <2>1. CASE h = 0
    <3>1. (o + h) + 1 = o + 1 /\ at = 0
      BY <1>2, <1>3, <2>1
    <3> QED BY <1>31, <3>1
  <2>2. CASE h = 1
    <3>1. o + 1 \in 1..Len(words) /\ (o + h) + 1 = (o + 1) + 1
      BY <1>2, <1>3, <2>2
    <3>2. g[(o + 1) + 1] = BinOf(words[o + 1])
      BY <1>5, <1>7, <2>2, <3>1
    <3> QED BY <1>7, <2>2, <3>1, <3>2
  <2> QED BY <1>2, <2>1, <2>2
<1>9. \A s \in 0..l : g[(o + (h + s)) + 1] = at + s
  <2> SUFFICES ASSUME NEW t \in 0..l PROVE g[(o + (h + t)) + 1] = at + t
    OBVIOUS
  <2> DEFINE B == {s \in 0..t : g[(o + (h + s)) + 1] = at + s}
  <2>1. 0 \in B
    <3>1. (o + (h + 0)) + 1 = (o + h) + 1 /\ at + 0 = at /\ 0 \in 0..t
      BY <1>2, <1>3
    <3> QED BY <1>8, <3>1
  <2>2. ASSUME NEW s \in 0..t - 1, s \in B PROVE s + 1 \in B
    <3>1. /\ s + 1 \in 1..l /\ s + 1 \in 0..t
          /\ (o + (h + s)) + 1 = o + (h + (s + 1)) /\ (at + s) + 1 = at + (s + 1)
      BY <1>2, <1>3
    <3>2. PICK k : k = o + (h + (s + 1))
      OBVIOUS
    <3>3. k \in 1..Len(words) /\ words[k] \in AdcSample /\ words[k] \notin TimeBin
      BY <1>6, <3>1, <3>2
    <3>4. g[k + 1] = g[k] + 1
      BY <1>5, <3>3
    <3>5. g[k] = at + s
      BY <2>2, <3>1, <3>2
    <3> QED BY <3>1, <3>2, <3>4, <3>5
  <2>3. t \in B
    <3>1. B \in SUBSET (0..t) /\ t \in Nat
      BY <1>2
    <3> HIDE DEF B
    <3> QED BY <2>1, <2>2, <3>1, UpTo
  <2> QED BY <2>3
<1>10. \A s \in 1..l : Holds(words, g, o + (h + s), r, s)
  <2> SUFFICES ASSUME NEW s \in 1..l PROVE Holds(words, g, o + (h + s), r, s)
    OBVIOUS
  <2>1. s - 1 \in 0..l /\ (o + (h + (s - 1))) + 1 = o + (h + s) /\ at + (s - 1) = at + s - 1
    BY <1>2, <1>3
  <2>2. g[o + (h + s)] = at + s - 1
    BY <1>9, <2>1
  <2> QED BY <1>1, <1>6, <2>2 DEF Holds
<1>11. g[(o + Len(rw)) + 1] = at + l
  <2>1. l \in 0..l
    BY <1>2
  <2> QED BY <1>21, <1>9, <2>1
<1>12. ASSUME NEW k \in 1..h + l
       PROVE  /\ words[o + k] \in AdcSample \cup TimeBin /\ g[o + k] \in BinNo
              /\ words[o + k] \in AdcSample => \E s \in 1..l : Holds(words, g, o + k, r, s)
  <2>1. CASE k > h
    <3>1. PICK s : s = k - h
      OBVIOUS
    <3>2. s \in 1..l /\ h + s = k /\ at + s - 1 \in BinNo
      <4>1. s \in 1..l /\ h + s = k /\ at + s - 1 \in Int /\ 0 <= at + s - 1 /\ at + s - 1 <= 511
        BY <1>2, <2>1, <3>1
      <4> QED BY <4>1, Numbers
    <3>3. Holds(words, g, o + k, r, s)
      BY <1>10, <3>2
    <3> QED BY <1>1, <3>2, <3>3 DEF Holds
  <2>2. CASE ~(k > h)
    <3>1. k = 1 /\ h = 1
      BY <1>2, <2>2
    <3>2. words[o + k] \in TimeBin /\ g[o + k] \in BinNo
      <4>1. g[o + 1] \in Int /\ 0 <= g[o + 1] /\ g[o + 1] <= 511
        BY <1>2, <1>31
      <4>2. g[o + 1] \in BinNo
        BY <4>1, Numbers
      <4> QED BY <1>7, <3>1, <4>2
    <3>3. words[o + k] \notin AdcSample
      BY <1>7, <3>1
    <3> QED BY <3>2, <3>3
  <2> QED BY <1>2, <2>1, <2>2
<1>13. \A s \in 1..l : \E k \in 1..h + l : Holds(words, g, o + k, r, s)
  BY <1>6, <1>10
<1> QED BY <1>1, <1>21, <1>11, <1>12, <1>13 DEF RunRead

\* The bin behind the i-th run of a pulse.
EndOf(pulse, i) == IF i = 0 THEN 0 ELSE pulse[i].at + Len(pulse[i].samples)

\* The runs of a pulse come one behind the other, within the bins.
LEMMA PulseRuns ==
  ASSUME NEW pulse, IsPulse(pulse)
  PROVE  /\ pulse \in Seq(Run) /\ Len(pulse) \in Nat /\ DOMAIN pulse = 1..Len(pulse)
         /\ \A i \in 0..Len(pulse) : EndOf(pulse, i) \in Nat /\ EndOf(pulse, i) <= 512
         /\ \A i \in 1..Len(pulse) :
              /\ pulse[i] \in Run /\ EndOf(pulse, i - 1) <= pulse[i].at
              /\ EndOf(pulse, i) = pulse[i].at + Len(pulse[i].samples)
              /\ pulse[i].at \in Nat /\ Len(pulse[i].samples) \in Nat
              /\ Len(pulse[i].samples) >= 1
         /\ \A i \in 1..Len(pulse) : \A j \in i + 1..Len(pulse) :
              EndOf(pulse, i) <= pulse[j].at
<1>1. pulse \in Seq(Run)
  BY DEF IsPulse
<1>2. Len(pulse) \in Nat /\ DOMAIN pulse = 1..Len(pulse) /\ \A i \in 1..Len(pulse) : pulse[i] \in Run
  BY <1>1
<1>3. ASSUME NEW r \in Run
      PROVE  r.at \in Nat /\ Len(r.samples) \in Nat /\ Len(r.samples) >= 1
  <2>1. r.at \in BinNo /\ r.samples \in Seq(Amplitude) /\ r.samples # <<>>
    BY DEF Run, BinNo, Amplitude
  <2>2. r.at \in Nat
    BY <2>1, Numbers
  <2> QED BY <2>1, <2>2
<1>4. \A i \in 1..Len(pulse) :
        /\ pulse[i].at + Len(pulse[i].samples) <= 512
        /\ \A j \in i + 1..Len(pulse) : pulse[i].at + Len(pulse[i].samples) <= pulse[j].at
  BY <1>2 DEF IsPulse
<1>5. \A i \in 1..Len(pulse) :
        /\ i # 0 /\ EndOf(pulse, i) = pulse[i].at + Len(pulse[i].samples)
        /\ pulse[i].at \in Nat /\ Len(pulse[i].samples) \in Nat
        /\ Len(pulse[i].samples) >= 1
  BY <1>2, <1>3 DEF EndOf
<1>6. \A i \in 1..Len(pulse) : EndOf(pulse, i) \in Nat /\ EndOf(pulse, i) <= 512
  BY <1>4, <1>5
<1>7. EndOf(pulse, 0) = 0
  BY DEF EndOf
<1>8. \A i \in 0..Len(pulse) : EndOf(pulse, i) \in Nat /\ EndOf(pulse, i) <= 512
  <2> SUFFICES ASSUME NEW i \in 0..Len(pulse)
               PROVE  EndOf(pulse, i) \in Nat /\ EndOf(pulse, i) <= 512
    OBVIOUS
  <2>1. CASE i = 0
    BY <1>7, <2>1
  <2>2. CASE i # 0
    <3>1. i \in 1..Len(pulse)
      BY <1>2, <2>2
    <3> QED BY <1>6, <3>1
  <2> QED BY <2>1, <2>2
<1>9. \A i \in 1..Len(pulse) : EndOf(pulse, i - 1) <= pulse[i].at
  <2> SUFFICES ASSUME NEW i \in 1..Len(pulse) PROVE EndOf(pulse, i - 1) <= pulse[i].at
    OBVIOUS
  <2>1. CASE i = 1
    <3>1. i - 1 = 0
      BY <2>1
    <3> QED BY <1>5, <1>7, <3>1
  <2>2. CASE i # 1
    <3>1. i - 1 \in 1..Len(pulse) /\ i \in (i - 1) + 1..Len(pulse)
      BY <1>2, <2>2
    <3> QED BY <1>4, <1>5, <3>1
  <2> QED BY <2>1, <2>2
<1>10. \A i \in 1..Len(pulse) : \A j \in i + 1..Len(pulse) : EndOf(pulse, i) <= pulse[j].at
  BY <1>4, <1>5
<1> QED BY <1>1, <1>2, <1>5, <1>8, <1>9, <1>10

\* What the words of a pulse say, when g are the bins before them.
PulseRead(pulse, words, g) ==
  /\ words \in Seq(Word) /\ Len(words) <= 1024
  /\ \A k \in 1..Len(words) :
       /\ words[k] \in AdcSample \cup TimeBin /\ g[k] \in BinNo
       /\ words[k] \in AdcSample =>
            \E i \in 1..Len(pulse) :
              \E s \in 1..Len(pulse[i].samples) : Holds(words, g, k, pulse[i], s)
  /\ \A i \in 1..Len(pulse) : \A s \in 1..Len(pulse[i].samples) :
       \E k \in 1..Len(words) : Holds(words, g, k, pulse[i], s)

\* The words of a pulse are those of its runs.
LEMMA PulseSeq ==
  ASSUME electronics \in Electronics, NEW pulse, IsPulse(pulse)
  PROVE  PulseRecord(pulse, BinCode, SampleCode) \in Seq(Word)
<1>1. PICK ws : ws = [i \in DOMAIN pulse |-> RunWords(pulse[i])]
  OBVIOUS
<1>2. PulseRecord(pulse, BinCode, SampleCode) = FlattenSeq(ws)
  BY <1>1 DEF PulseRecord, RunWords
<1>3. ws \in Seq(Seq(Word))
  <2>1. PICK n, T : n = Len(pulse) /\ T = Seq(Word)
    OBVIOUS
  <2>2. n \in Nat /\ DOMAIN pulse = 1..n /\ \A i \in 1..n : pulse[i] \in Run
    BY <2>1, PulseRuns
  <2>3. \A i \in 1..n : RunWords(pulse[i]) \in T
    BY <2>1, <2>2, RunWordsAre
  <2> DEFINE p(i) == RunWords(pulse[i])
  <2>4. ws = [i \in 1..n |-> p(i)] /\ \A i \in 1..n : p(i) \in T
    BY <1>1, <2>2, <2>3
  <2> HIDE DEF p
  <2>5. ws \in Seq(T)
    BY <2>2, <2>4
  <2> QED BY <2>1, <2>5
<1>4. <<>> \in Seq(Word)
  OBVIOUS
<1> QED BY <1>2, <1>3, <1>4, FlattenAppend

\* Their time bins are those of the runs.
LEMMA PulseBins ==
  ASSUME electronics \in Electronics, NEW pulse, IsPulse(pulse),
         NEW words, words = PulseRecord(pulse, BinCode, SampleCode), NEW g, Bins(words, g)
  PROVE  PulseRead(pulse, words, g)
<1>1. PICK ws : ws = [i \in DOMAIN pulse |-> RunWords(pulse[i])]
  OBVIOUS
<1>2. words = FlattenSeq(ws)
  BY <1>1 DEF PulseRecord, RunWords
<1>3. PICK n : n = Len(pulse)
  OBVIOUS
<1>4. /\ n \in Nat /\ DOMAIN pulse = 1..n
      /\ \A i \in 0..n : EndOf(pulse, i) \in Nat /\ EndOf(pulse, i) <= 512
      /\ \A i \in 1..n :
           /\ pulse[i] \in Run /\ EndOf(pulse, i - 1) <= pulse[i].at
           /\ EndOf(pulse, i) = pulse[i].at + Len(pulse[i].samples)
           /\ pulse[i].at \in Nat /\ Len(pulse[i].samples) \in Nat
           /\ Len(pulse[i].samples) >= 1
  BY <1>3, PulseRuns
<1>5. ws \in Seq(Seq(Word)) /\ Len(ws) = n /\ \A i \in 1..n : ws[i] = RunWords(pulse[i])
  <2>1. \A i \in 1..n : RunWords(pulse[i]) \in Seq(Word)
    BY <1>4, RunWordsAre
  <2> DEFINE p(i) == RunWords(pulse[i])
  <2>2. ws = [i \in 1..n |-> p(i)] /\ \A i \in 1..n : p(i) \in Seq(Word)
    BY <1>1, <1>4, <2>1
  <2>3. PICK T : T = Seq(Word)
    OBVIOUS
  <2> HIDE DEF p
  <2>4. ws \in Seq(T) /\ Len(ws) = n /\ \A i \in 1..n : ws[i] = p(i)
    BY <1>4, <2>2, <2>3
  <2> QED BY <2>3, <2>4 DEF p
<1>6. /\ Off(ws, 0) = 0 /\ Off(ws, n) = Len(words) /\ words \in Seq(Word)
      /\ \A i \in 0..n : Off(ws, i) \in Nat
  BY <1>2, <1>5, Ranges
<1>7. \A i \in 1..n :
        /\ Off(ws, i) = Off(ws, i - 1) + Len(RunWords(pulse[i]))
        /\ Off(ws, i) <= Len(words)
        /\ \A k \in 1..Len(RunWords(pulse[i])) :
             words[Off(ws, i - 1) + k] = RunWords(pulse[i])[k]
  BY <1>2, <1>5, Place
<1> DEFINE P(k) == /\ words[k] \in AdcSample \cup TimeBin /\ g[k] \in BinNo
                   /\ words[k] \in AdcSample =>
                        \E i \in 1..n :
                          \E s \in 1..Len(pulse[i].samples) : Holds(words, g, k, pulse[i], s)
           J(i) == /\ g[Off(ws, i) + 1] = EndOf(pulse, i)
                   /\ Off(ws, i) <= 2 * EndOf(pulse, i)
                   /\ \A k \in 1..Off(ws, i) : P(k)
                   /\ \A j \in 1..i : \A s \in 1..Len(pulse[j].samples) :
                        \E k \in 1..Off(ws, i) : Holds(words, g, k, pulse[j], s)
           B == {i \in 0..n : J(i)}
<1>8. J(0)
  <2>1. g[1] = 0
    <3>1. 1 \in 1..Len(words) + 1
      BY <1>6
    <3> QED BY <3>1 DEF Bins
  <2>2. Off(ws, 0) + 1 = 1 /\ EndOf(pulse, 0) = 0 /\ 0 <= 2 * 0
    BY <1>6 DEF EndOf
  <2>3. \A k \in 1..Off(ws, 0) : FALSE
    BY <1>6
  <2>4. \A j \in 1..0 : FALSE
    OBVIOUS
  <2> HIDE DEF P
  <2> QED BY <1>6, <2>1, <2>2, <2>3, <2>4
<1>9. ASSUME NEW i \in 0..n - 1, J(i) PROVE J(i + 1)
  <2>1. PICK r, o, m, e : /\ r = pulse[i + 1] /\ o = Off(ws, i) /\ m = i + 1
                          /\ e = Len(RunWords(r))
    OBVIOUS
  <2>2. m \in 1..n /\ m - 1 = i /\ m \in 0..n /\ i \in 0..n
    BY <1>4, <2>1
  <2>3. /\ o \in Nat /\ r \in Run /\ EndOf(pulse, i) <= r.at /\ r.at \in Nat
        /\ EndOf(pulse, m) = r.at + Len(r.samples) /\ EndOf(pulse, m) <= 512
        /\ Len(r.samples) \in Nat /\ Len(r.samples) >= 1 /\ EndOf(pulse, i) \in Nat
    <3>1. o \in Nat
      BY <1>6, <2>1, <2>2
    <3>2. EndOf(pulse, i) \in Nat
      BY <1>4, <2>2
    <3>3. /\ r \in Run /\ EndOf(pulse, m - 1) <= r.at
          /\ EndOf(pulse, m) = r.at + Len(r.samples)
          /\ r.at \in Nat /\ Len(r.samples) \in Nat /\ Len(r.samples) >= 1
      <4>1. r = pulse[m]
        BY <2>1
      <4> QED BY <1>4, <2>2, <4>1
    <3>4. EndOf(pulse, m) <= 512
      BY <1>4, <2>2
    <3> QED BY <2>2, <3>1, <3>2, <3>3, <3>4
  <2>4. Off(ws, m) = o + e /\ o + e <= Len(words)
        /\ \A k \in 1..e : words[o + k] = RunWords(r)[k]
    BY <1>7, <2>1, <2>2
  <2>5. RunAt(words, g, o, r)
    <3>1. g[o + 1] = EndOf(pulse, i)
      BY <1>9, <2>1
    <3>2. g[o + 1] \in 0..r.at
      BY <2>3, <3>1
    <3> QED BY <1>6, <2>1, <2>3, <2>4, <3>2 DEF RunAt
  <2>6. RunRead(words, g, o, r)
    BY <2>5, RunBins
  <2>7. e \in Nat /\ e <= 1 + Len(r.samples)
    <3>1. PICK h : h = IF r.at = 0 THEN 0 ELSE 1
      OBVIOUS
    <3>2. e = h + Len(r.samples)
      BY <2>1, <2>3, <3>1, RunWordsAre
    <3>3. h \in Nat /\ h <= 1
      BY <3>1
    <3> QED BY <2>3, <3>2, <3>3
  <2>8. g[Off(ws, m) + 1] = EndOf(pulse, m)
    BY <2>1, <2>3, <2>4, <2>6 DEF RunRead
  <2>9. Off(ws, m) <= 2 * EndOf(pulse, m)
    <3>1. o <= 2 * EndOf(pulse, i)
      BY <1>9, <2>1
    <3> QED BY <2>3, <2>4, <2>7, <3>1
  <2>10. ASSUME NEW k \in 1..Off(ws, m) PROVE P(k)
    <3>1. CASE k \in 1..o
      BY <1>9, <2>1, <3>1
    <3>2. CASE k \notin 1..o
      <4>1. PICK q : q = k - o
        OBVIOUS
      <4>2. q \in 1..e /\ k = o + q
        BY <2>3, <2>4, <2>7, <3>2, <4>1
      <4>3. /\ words[k] \in AdcSample \cup TimeBin /\ g[k] \in BinNo
            /\ words[k] \in AdcSample =>
                 \E s \in 1..Len(r.samples) : Holds(words, g, k, r, s)
        BY <2>1, <2>6, <4>2 DEF RunRead
      <4> QED BY <2>1, <2>2, <4>3
    <3> QED BY <3>1, <3>2
  <2>11. ASSUME NEW j \in 1..m, NEW s \in 1..Len(pulse[j].samples)
         PROVE  \E k \in 1..Off(ws, m) : Holds(words, g, k, pulse[j], s)
    <3>1. CASE j = m
      <4>1. PICK q \in 1..e : Holds(words, g, o + q, r, s)
        BY <2>1, <2>6, <3>1 DEF RunRead
      <4>2. o + q \in 1..Off(ws, m)
        BY <2>3, <2>4, <2>7
      <4> QED BY <2>1, <3>1, <4>1, <4>2
    <3>2. CASE j # m
      <4>1. j \in 1..i
        BY <2>1, <2>2, <3>2
      <4>2. PICK k \in 1..o : Holds(words, g, k, pulse[j], s)
        BY <1>9, <2>1, <4>1
      <4>3. k \in 1..Off(ws, m)
        BY <2>3, <2>4, <2>7
      <4> QED BY <4>2, <4>3
    <3> QED BY <3>1, <3>2
  <2> HIDE DEF P
  <2> QED BY <2>1, <2>8, <2>9, <2>10, <2>11
<1>10. J(n)
  <2>1. B \in SUBSET (0..n) /\ 0 \in 0..n /\ \A i \in 0..n - 1 : i + 1 \in 0..n
    BY <1>4
  <2> HIDE DEF J
  <2>2. 0 \in B /\ \A i \in 0..n - 1 : i \in B => i + 1 \in B
    BY <1>8, <1>9, <2>1
  <2>3. n \in B
    <3> HIDE DEF B
    <3> QED BY <1>4, <2>1, <2>2, UpTo
  <2> QED BY <2>3
<1>11. Len(words) <= 1024
  <2>1. EndOf(pulse, n) \in Nat /\ EndOf(pulse, n) <= 512 /\ Len(words) \in Nat
    BY <1>4, <1>6
  <2>2. Len(words) <= 2 * EndOf(pulse, n)
    BY <1>6, <1>10
  <2> QED BY <2>1, <2>2
<1> QED BY <1>3, <1>6, <1>10, <1>11 DEF PulseRead

(***************************************************************************)
(* What is read of a pulse.                                                *)
(***************************************************************************)
BinSet(pulse, i) == pulse[i].at..pulse[i].at + Len(pulse[i].samples) - 1
RunOf(pulse, b) == CHOOSE i \in DOMAIN pulse : b \in BinSet(pulse, i)

\* A bin belongs to one run; the s-th sample of a run is in a bin of its own.
LEMMA BinSets ==
  ASSUME NEW pulse, IsPulse(pulse)
  PROVE  /\ \A i \in 1..Len(pulse), j \in 1..Len(pulse) : \A b :
              b \in BinSet(pulse, i) /\ b \in BinSet(pulse, j) => i = j
         /\ \A i \in 1..Len(pulse) : \A b \in BinSet(pulse, i) :
              /\ b \in Int /\ 0 <= b /\ b <= 511
              /\ b - pulse[i].at + 1 \in 1..Len(pulse[i].samples)
              /\ pulse[i].at + (b - pulse[i].at + 1) - 1 = b
         /\ \A i \in 1..Len(pulse) : \A s \in 1..Len(pulse[i].samples) :
              /\ pulse[i].at + s - 1 \in BinSet(pulse, i)
              /\ (pulse[i].at + s - 1) - pulse[i].at + 1 = s
<1>1. /\ Len(pulse) \in Nat
      /\ \A i \in 1..Len(pulse) :
           /\ EndOf(pulse, i) = pulse[i].at + Len(pulse[i].samples)
           /\ pulse[i].at \in Nat /\ Len(pulse[i].samples) \in Nat
      /\ \A i \in 1..Len(pulse) : \A j \in i + 1..Len(pulse) : EndOf(pulse, i) <= pulse[j].at
      /\ \A i \in 1..Len(pulse) : EndOf(pulse, i) <= 512
  <2>1. Len(pulse) \in Nat
    BY PulseRuns
  <2>2. \A i \in 1..Len(pulse) :
          /\ EndOf(pulse, i) = pulse[i].at + Len(pulse[i].samples)
          /\ pulse[i].at \in Nat /\ Len(pulse[i].samples) \in Nat
    BY PulseRuns
  <2>3. \A i \in 1..Len(pulse) : \A j \in i + 1..Len(pulse) : EndOf(pulse, i) <= pulse[j].at
    BY PulseRuns
  <2>4. \A i \in 1..Len(pulse) : EndOf(pulse, i) <= 512
    <3>1. \A i \in 0..Len(pulse) : EndOf(pulse, i) <= 512
      BY PulseRuns
    <3>2. \A i \in 1..Len(pulse) : i \in 0..Len(pulse)
      BY <2>1
    <3> QED BY <3>1, <3>2
  <2> QED BY <2>1, <2>2, <2>3, <2>4
<1>2. ASSUME NEW i \in 1..Len(pulse), NEW b
      PROVE  b \in BinSet(pulse, i)
               <=> b \in Int /\ pulse[i].at <= b /\ b < EndOf(pulse, i)
  <2>1. PICK a, l : a = pulse[i].at /\ l = Len(pulse[i].samples)
    OBVIOUS
  <2>2. a \in Nat /\ l \in Nat /\ EndOf(pulse, i) = a + l
    BY <1>1, <2>1
  <2>3. b \in a..a + l - 1 <=> b \in Int /\ a <= b /\ b < a + l
    BY <2>2
  <2> QED BY <2>1, <2>2, <2>3 DEF BinSet
<1>3. ASSUME NEW i \in 1..Len(pulse), NEW j \in 1..Len(pulse), NEW b,
             b \in BinSet(pulse, i), b \in BinSet(pulse, j)
      PROVE  i = j
  <2>1. ASSUME NEW p \in 1..Len(pulse), NEW q \in 1..Len(pulse), p < q,
               b \in BinSet(pulse, p), b \in BinSet(pulse, q)
        PROVE  FALSE
    <3>1. q \in p + 1..Len(pulse)
      BY <1>1, <2>1
    <3>2. EndOf(pulse, p) <= pulse[q].at /\ pulse[q].at \in Nat /\ EndOf(pulse, p) \in Int
      BY <1>1, <3>1, SMTT(30)
    <3>3. b \in Int /\ pulse[q].at <= b /\ b < EndOf(pulse, p)
      BY <1>2, <2>1
    <3> QED BY <3>2, <3>3
  <2>2. i < j \/ j < i \/ i = j
    BY <1>1
  <2> QED BY <1>3, <2>1, <2>2
<1>4. ASSUME NEW i \in 1..Len(pulse), NEW b \in BinSet(pulse, i)
      PROVE  /\ b \in Int /\ 0 <= b /\ b <= 511
             /\ b - pulse[i].at + 1 \in 1..Len(pulse[i].samples)
             /\ pulse[i].at + (b - pulse[i].at + 1) - 1 = b
  <2>1. PICK a, l : a = pulse[i].at /\ l = Len(pulse[i].samples)
    OBVIOUS
  <2>2. a \in Nat /\ l \in Nat /\ EndOf(pulse, i) = a + l /\ a + l <= 512
    BY <1>1, <2>1
  <2>3. b \in Int /\ a <= b /\ b < a + l
    BY <1>2, <2>1, <2>2
  <2>4. /\ 0 <= b /\ b <= 511 /\ b - a + 1 \in 1..l /\ a + (b - a + 1) - 1 = b
    BY <2>2, <2>3
  <2> QED BY <2>1, <2>3, <2>4
<1>5. ASSUME NEW i \in 1..Len(pulse), NEW s \in 1..Len(pulse[i].samples)
      PROVE  /\ pulse[i].at + s - 1 \in BinSet(pulse, i)
             /\ (pulse[i].at + s - 1) - pulse[i].at + 1 = s
  <2>1. PICK a, l : a = pulse[i].at /\ l = Len(pulse[i].samples)
    OBVIOUS
  <2>2. a \in Nat /\ l \in Nat /\ EndOf(pulse, i) = a + l /\ s \in 1..l
    BY <1>1, <2>1
  <2>3. a + s - 1 \in Int /\ a <= a + s - 1 /\ a + s - 1 < a + l /\ (a + s - 1) - a + 1 = s
    BY <2>2
  <2>4. pulse[i].at + s - 1 \in BinSet(pulse, i)
    BY <1>2, <2>1, <2>2, <2>3
  <2> QED BY <2>1, <2>3, <2>4
<1> QED BY <1>3, <1>4, <1>5

\* What is read of the words of a pulse is what the pulse says of each bin.
LEMMA PulseValues ==
  ASSUME electronics \in Electronics, NEW pulse, IsPulse(pulse),
         NEW words, words = PulseRecord(pulse, BinCode, SampleCode),
         NEW P, P = {k \in DOMAIN words : words[k] \in AdcSample}
  PROVE  /\ F!sData(words, P) = Values(pulse)
         /\ \A b \in DOMAIN Values(pulse) : b \in BinNo /\ Values(pulse)[b] \in Amplitude
<1>1. words \in Seq(Word)
  BY PulseSeq
<1>2. PICK g : g = F!timeBin(words)
  OBVIOUS
<1>3. PulseRead(pulse, words, g)
  BY <1>1, <1>2, BinsExist, PulseBins
<1>4. PICK n, m : n = Len(pulse) /\ m = Len(words)
  OBVIOUS
<1>5. DOMAIN pulse = 1..n /\ n \in Nat /\ DOMAIN words = 1..m /\ m \in Nat
  BY <1>1, <1>4, PulseRuns
<1> DEFINE D == UNION {BinSet(pulse, i) : i \in DOMAIN pulse}
           val(b) == pulse[RunOf(pulse, b)].samples[b - pulse[RunOf(pulse, b)].at + 1]
           ofBin(b) == {k \in P : g[k] = b}
           E == {g[k] : k \in P}
<1>6. Values(pulse) = [b \in D |-> val(b)]
  BY DEF Values, BinSet, RunOf
<1>7. F!sData(words, P) = [b \in E |-> words[Max(ofBin(b))] % 4096]
  BY <1>2 DEF F!sData, F!Max, Max
<1>8. ASSUME NEW k \in P
      PROVE  /\ k \in 0..m
             /\ \E i \in 1..n : \E s \in 1..Len(pulse[i].samples) : Holds(words, g, k, pulse[i], s)
  <2>1. k \in 1..m /\ words[k] \in AdcSample
    BY <1>5
  <2> QED BY <1>3, <1>4, <1>5, <2>1 DEF PulseRead
<1>9. ASSUME NEW i \in 1..n, NEW s \in 1..Len(pulse[i].samples)
      PROVE  /\ RunOf(pulse, pulse[i].at + s - 1) = i
             /\ val(pulse[i].at + s - 1) = pulse[i].samples[s]
             /\ pulse[i].samples[s] \in Amplitude
             /\ ValueOf(SampleCode + pulse[i].samples[s]) = pulse[i].samples[s]
  <2>1. PICK b : b = pulse[i].at + s - 1
    OBVIOUS
  <2>2. b \in BinSet(pulse, i) /\ b - pulse[i].at + 1 = s
    BY <1>4, <2>1, BinSets
  <2>3. RunOf(pulse, b) = i
    <3>1. PICK q : q = RunOf(pulse, b)
      OBVIOUS
    <3>2. q \in 1..n /\ b \in BinSet(pulse, q)
      BY <1>5, <2>2, <3>1 DEF RunOf
    <3>3. q = i
      BY <1>4, <2>2, <3>2, BinSets
    <3> QED BY <3>1, <3>3
  <2>4. val(b) = pulse[i].samples[s]
    BY <2>2, <2>3
  <2>5. pulse[i].samples[s] \in Amplitude
    <3>1. pulse[i] \in Run
      BY <1>4, PulseRuns
    <3> QED BY <3>1, RunWordsAre
  <2>6. ValueOf(SampleCode + pulse[i].samples[s]) = pulse[i].samples[s]
    BY <2>5, CodesHold DEF Codes
  <2> HIDE DEF val
  <2> QED BY <2>1, <2>3, <2>4, <2>5, <2>6
<1>10. E = D
  <2>1. ASSUME NEW b \in E PROVE b \in D
    <3>1. PICK k \in P : b = g[k]
      OBVIOUS
    <3>4. PICK i \in 1..n : \E s \in 1..Len(pulse[i].samples) : Holds(words, g, k, pulse[i], s)
      BY <1>8
    <3>2. PICK s \in 1..Len(pulse[i].samples) : Holds(words, g, k, pulse[i], s)
      BY <3>4
    <3>3. b \in BinSet(pulse, i)
      BY <1>4, <3>1, <3>2, BinSets DEF Holds
    <3> QED BY <1>5, <3>3
  <2>2. ASSUME NEW b \in D PROVE b \in E
    <3>1. PICK i \in 1..n : b \in BinSet(pulse, i)
      BY <1>5
    <3>2. PICK s : s = b - pulse[i].at + 1
      OBVIOUS
    <3>3. s \in 1..Len(pulse[i].samples) /\ pulse[i].at + s - 1 = b
      BY <1>4, <3>1, <3>2, BinSets
    <3>4. PICK k \in 1..m : Holds(words, g, k, pulse[i], s)
      BY <1>3, <1>4, <3>3, SMTT(30) DEF PulseRead
    <3>5. k \in P /\ g[k] = b
      BY <1>5, <3>3, <3>4 DEF Holds
    <3> QED BY <3>5
  <2> QED BY <2>1, <2>2
<1>11. ASSUME NEW b \in E
       PROVE  /\ b \in BinNo /\ val(b) \in Amplitude
              /\ words[Max(ofBin(b))] % 4096 = val(b)
  <2>1. Max(ofBin(b)) \in ofBin(b)
    <3>1. ofBin(b) # {}
      OBVIOUS
    <3>2. ofBin(b) \subseteq 0..m
      BY <1>8
    <3> HIDE DEF ofBin
    <3> QED BY <1>5, <3>1, <3>2, MaxOfNumbers
  <2>2. PICK k : k = Max(ofBin(b))
    OBVIOUS
  <2>3. k \in P /\ g[k] = b
    BY <2>1, <2>2
  <2>10. PICK i \in 1..n : \E s \in 1..Len(pulse[i].samples) : Holds(words, g, k, pulse[i], s)
    BY <1>8, <2>3
  <2>4. PICK s \in 1..Len(pulse[i].samples) : Holds(words, g, k, pulse[i], s)
    BY <2>10
  <2>5. b = pulse[i].at + s - 1 /\ words[k] = SampleCode + pulse[i].samples[s]
    BY <2>3, <2>4 DEF Holds
  <2> HIDE DEF val, ofBin
  <2>6. val(b) = pulse[i].samples[s] /\ pulse[i].samples[s] \in Amplitude
        /\ ValueOf(words[k]) = val(b)
    BY <1>9, <2>5
  <2>7. b \in BinNo
    <3>1. k \in 1..m
      BY <1>5, <2>3
    <3> QED BY <1>3, <1>4, <2>3, <3>1 DEF PulseRead
  <2> QED BY <2>2, <2>6, <2>7 DEF ValueOf
<1>12. [b \in E |-> words[Max(ofBin(b))] % 4096] = [b \in E |-> val(b)]
  <2> HIDE DEF E, val, ofBin
  <2> QED BY <1>11
<1>13. F!sData(words, P) = Values(pulse)
  <2> HIDE DEF E, D, val, ofBin
  <2> QED BY <1>6, <1>7, <1>10, <1>12
<1>14. \A b \in DOMAIN Values(pulse) : b \in BinNo /\ Values(pulse)[b] \in Amplitude
  <2> HIDE DEF E, D, val, ofBin
  <2> QED BY <1>6, <1>10, <1>11
<1> QED BY <1>13, <1>14

(***************************************************************************)
(* What the words are that start a record or the framing.                  *)
(***************************************************************************)
\* The words that w starts and steps over, and what w stands for.
Kind(w, skip, what) ==
  /\ w \in Word /\ w \notin Data /\ SkipOf(w) = skip
  /\ w \in HitIndex <=> what = "hit"
  /\ w \in StartOfEvent <=> what = "start"
  /\ w \in EndOfEvent <=> what = "end"

\* Of the records of ARC electronics.
LEMMA ARCKinds ==
  ASSUME electronics = "ARC"
  PROVE  /\ Kind(2048, 2, "none") /\ Kind(15, 1, "none")
         /\ Kind(768, 6, "start") /\ Kind(17, 2, "hit")
         /\ \A w \in Word : 4608 <= w /\ w <= 4735 => Kind(w, 1, "none")
         /\ Kind(704, 4, "end")
<1>1. /\ \A w : SkipOf(w) = ARC!Skip(w)
      /\ EndOfEvent = ARC!EndOfEvent /\ StartOfEvent = ARC!StartOfEvent
      /\ HitIndex = ARC!HitIndex /\ Data = ARC!AdcSample \cup ARC!TimeBin
  BY DEF SkipOf, EndOfEvent, StartOfEvent, HitIndex, Data, AdcSample, TimeBin, Of
<1> DEFINE In(w, what) ==
             /\ w \in Word /\ w \notin ARC!AdcSample \cup ARC!TimeBin
             /\ w \in ARC!StartOfDFrame <=> what = "frame"
             /\ w \notin ARC!StartOfMFrame /\ w \notin ARC!HistoMeanDev
             /\ w \in ARC!HitIndex <=> what = "hit"
             /\ w \in ARC!StartOfEvent <=> what = "start"
             /\ w \in ARC!EndOfEvent <=> what = "end"
<1>2. ASSUME NEW w, In(w, "frame") PROVE Kind(w, 2, "none")
  <2>1. ARC!Skip(w) = 2
    BY <1>2, Zenon DEF ARC!Skip
  <2> QED BY <1>1, <1>2, <2>1 DEF Kind
<1>3. ASSUME NEW w, In(w, "none") PROVE Kind(w, 1, "none")
  <2>1. ARC!Skip(w) = 1
    BY <1>3, Zenon DEF ARC!Skip
  <2> QED BY <1>1, <1>3, <2>1 DEF Kind
<1>4. ASSUME NEW w, In(w, "start") PROVE Kind(w, 6, "start")
  <2>1. ARC!Skip(w) = 6
    BY <1>4, Zenon DEF ARC!Skip
  <2> QED BY <1>1, <1>4, <2>1 DEF Kind
<1>5. ASSUME NEW w, In(w, "hit") PROVE Kind(w, 2, "hit")
  <2>1. ARC!Skip(w) = 2
    BY <1>5, Zenon DEF ARC!Skip
  <2> QED BY <1>1, <1>5, <2>1 DEF Kind
<1>6. ASSUME NEW w, In(w, "end") PROVE Kind(w, 4, "end")
  <2>1. ARC!Skip(w) = 4
    BY <1>6, Zenon DEF ARC!Skip
  <2> QED BY <1>1, <1>6, <2>1 DEF Kind
<1>7. In(2048, "frame")
  <2>1. 2048 \in Word /\ 2048 \in ARC!StartOfDFrame
    BY DEF Word, ARC!StartOfDFrame
  <2> QED BY <2>1, ARCBounds
<1>8. In(15, "none")
  <2>1. 15 \in Word
    BY DEF Word
  <2> QED BY <2>1, ARCBounds
<1>9. In(768, "start")
  <2>1. 768 \in Word /\ 768 \in ARC!StartOfEvent
    BY DEF Word, ARC!StartOfEvent
  <2> QED BY <2>1, ARCBounds
<1>10. In(17, "hit")
  <2>1. 17 \in Word /\ 17 \in ARC!HitIndex
    BY DEF Word, ARC!HitIndex
  <2> QED BY <2>1, ARCBounds
<1>11. ASSUME NEW w \in Word, 4608 <= w, w <= 4735 PROVE In(w, "none")
  <2>2. w \in Int /\ 4608 <= w /\ w <= 4735
    BY <1>11, Numbers
  <2>3. w \in Word
    OBVIOUS
  <2>4. /\ w \notin ARC!AdcSample \cup ARC!TimeBin /\ w \notin ARC!StartOfDFrame
        /\ w \notin ARC!StartOfMFrame /\ w \notin ARC!HistoMeanDev
        /\ w \notin ARC!HitIndex /\ w \notin ARC!StartOfEvent /\ w \notin ARC!EndOfEvent
    BY <2>2, ARCBounds
  <2> QED BY <2>3, <2>4
<1>12. In(704, "end")
  <2>1. 704 \in Word /\ 704 \in ARC!EndOfEvent
    BY DEF Word, ARC!EndOfEvent
  <2> QED BY <2>1, ARCBounds
<1> HIDE DEF In
<1>13. Kind(2048, 2, "none")
  BY <1>2, <1>7, SMT
<1>14. Kind(15, 1, "none")
  BY <1>3, <1>8, SMT
<1>15. Kind(768, 6, "start")
  BY <1>4, <1>9, SMT
<1>16. Kind(17, 2, "hit")
  BY <1>5, <1>10, SMT
<1>17. \A w \in Word : 4608 <= w /\ w <= 4735 => Kind(w, 1, "none")
  BY <1>3, <1>11, SMT
<1>18. Kind(704, 4, "end")
  BY <1>6, <1>12, SMT
<1> QED BY <1>13, <1>14, <1>15, <1>16, <1>17, <1>18, SMT

\* Of the records of FEMINOS electronics.
LEMMA FEMINOSKinds ==
  ASSUME electronics = "FEMINOS"
  PROVE  /\ Kind(2048, 2, "none") /\ Kind(240, 6, "start")
         /\ \A x \in Int : 0 <= x /\ x <= 16383 => Kind(49152 + x, 1, "hit")
         /\ \A w \in Word : 32768 <= w /\ w <= 32895 => Kind(w, 1, "none")
         /\ Kind(224, 2, "end")
<1>1. /\ \A w : SkipOf(w) = FEMINOS!Skip(w)
      /\ EndOfEvent = FEMINOS!EndOfEvent /\ StartOfEvent = FEMINOS!StartOfEvent
      /\ HitIndex = FEMINOS!HitIndex /\ Data = FEMINOS!AdcSample \cup FEMINOS!TimeBin
  BY DEF SkipOf, EndOfEvent, StartOfEvent, HitIndex, Data, AdcSample, TimeBin, Of
<1> DEFINE In(w, what) ==
             /\ w \in Word /\ w \notin FEMINOS!AdcSample \cup FEMINOS!TimeBin
             /\ w \in FEMINOS!StartOfDFrame <=> what = "frame"
             /\ w \notin FEMINOS!StartOfMFrame /\ w \notin FEMINOS!HistoMeanDev
             /\ w \in FEMINOS!HitIndex <=> what = "hit"
             /\ w \in FEMINOS!StartOfEvent <=> what = "start"
             /\ w \in FEMINOS!EndOfEvent <=> what = "end"
<1>2. ASSUME NEW w, In(w, "frame") PROVE Kind(w, 2, "none")
  <2>1. FEMINOS!Skip(w) = 2
    BY <1>2, Zenon DEF FEMINOS!Skip
  <2> QED BY <1>1, <1>2, <2>1 DEF Kind
<1>3. ASSUME NEW w, In(w, "none") PROVE Kind(w, 1, "none")
  <2>1. FEMINOS!Skip(w) = 1
    BY <1>3, Zenon DEF FEMINOS!Skip
  <2> QED BY <1>1, <1>3, <2>1 DEF Kind
<1>4. ASSUME NEW w, In(w, "start") PROVE Kind(w, 6, "start")
  <2>1. FEMINOS!Skip(w) = 6
    BY <1>4, Zenon DEF FEMINOS!Skip
  <2> QED BY <1>1, <1>4, <2>1 DEF Kind
<1>5. ASSUME NEW w, In(w, "hit") PROVE Kind(w, 1, "hit")
  <2>1. FEMINOS!Skip(w) = 1
    BY <1>5, Zenon DEF FEMINOS!Skip
  <2> QED BY <1>1, <1>5, <2>1 DEF Kind
<1>6. ASSUME NEW w, In(w, "end") PROVE Kind(w, 2, "end")
  <2>1. FEMINOS!Skip(w) = 2
    BY <1>6, Zenon DEF FEMINOS!Skip
  <2> QED BY <1>1, <1>6, <2>1 DEF Kind
<1>7. In(2048, "frame")
  <2>1. 2048 \in Word /\ 2048 \in FEMINOS!StartOfDFrame
    BY DEF Word, FEMINOS!StartOfDFrame
  <2> QED BY <2>1, FEMINOSBounds
<1>8. In(240, "start")
  <2>1. 240 \in Word /\ 240 \in FEMINOS!StartOfEvent
    BY DEF Word, FEMINOS!StartOfEvent
  <2> QED BY <2>1, FEMINOSBounds
<1>9. ASSUME NEW x \in Int, 0 <= x, x <= 16383
      PROVE  In(49152 + x, "hit")
  <2>1. PICK w : w = 49152 + x
    OBVIOUS
  <2>2. w \in Int /\ 49152 <= w /\ w <= 65535
    BY <1>9, <2>1
  <2>3. w \in Word
    BY <2>2, Numbers
  <2>4. w \in FEMINOS!HitIndex
    BY <2>2, SMTT(30) DEF FEMINOS!HitIndex
  <2>5. /\ w \notin FEMINOS!AdcSample \cup FEMINOS!TimeBin
        /\ w \notin FEMINOS!StartOfDFrame
        /\ w \notin FEMINOS!StartOfMFrame /\ w \notin FEMINOS!HistoMeanDev
        /\ w \notin FEMINOS!StartOfEvent /\ w \notin FEMINOS!EndOfEvent
    BY <2>2, FEMINOSBounds
  <2> QED BY <2>1, <2>3, <2>4, <2>5
<1>10. ASSUME NEW w \in Word, 32768 <= w, w <= 32895 PROVE In(w, "none")
  <2>2. w \in Int /\ 32768 <= w /\ w <= 32895
    BY <1>10, Numbers
  <2>3. w \in Word
    OBVIOUS
  <2>4. /\ w \notin FEMINOS!AdcSample \cup FEMINOS!TimeBin
        /\ w \notin FEMINOS!StartOfDFrame
        /\ w \notin FEMINOS!StartOfMFrame /\ w \notin FEMINOS!HistoMeanDev
        /\ w \notin FEMINOS!HitIndex
        /\ w \notin FEMINOS!StartOfEvent /\ w \notin FEMINOS!EndOfEvent
    BY <2>2, FEMINOSBounds
  <2> QED BY <2>3, <2>4
<1>11. In(224, "end")
  <2>1. 224 \in Word /\ 224 \in FEMINOS!EndOfEvent
    BY DEF Word, FEMINOS!EndOfEvent
  <2> QED BY <2>1, FEMINOSBounds
<1> HIDE DEF In
<1>12. Kind(2048, 2, "none")
  BY <1>2, <1>7, SMT
<1>13. Kind(240, 6, "start")
  BY <1>4, <1>8, SMT
<1>14. \A x \in Int : 0 <= x /\ x <= 16383 => Kind(49152 + x, 1, "hit")
  BY <1>5, <1>9, SMT
<1>15. \A w \in Word : 32768 <= w /\ w <= 32895 => Kind(w, 1, "none")
  BY <1>3, <1>10, SMT
<1>16. Kind(224, 2, "end")
  BY <1>6, <1>11, SMT
<1> QED BY <1>12, <1>13, <1>14, <1>15, <1>16, SMT

\* Of the packets of the DCC.
LEMMA DCCKinds ==
  ASSUME electronics \in Electronics, electronics # "ARC", electronics # "FEMINOS"
  PROVE  /\ Kind(65535, 4, "end")
         /\ \A n \in Int : 1 <= n /\ n <= 32767 => Kind(2 * n, n, "none")
<1>1. /\ \A w : SkipOf(w) = DCC!Skip(w)
      /\ EndOfEvent = DCC!EndOfEvent /\ StartOfEvent = {}
      /\ HitIndex = {} /\ Data = {}
  BY DEF SkipOf, EndOfEvent, StartOfEvent, HitIndex, Data, AdcSample, TimeBin, Of
<1>2. Kind(65535, 4, "end")
  <2>1. PICK w : w = 65535
    OBVIOUS
  <2>2. w \in Word /\ w \in DCC!EndOfEvent
    BY <2>1, Numbers DEF DCC!EndOfEvent
  <2>3. DCC!Skip(w) = 4
    BY <2>2 DEF DCC!Skip
  <2>4. Kind(w, 4, "end")
    BY <1>1, <2>2, <2>3 DEF Kind
  <2> QED BY <2>1, <2>4, SMT
<1>3. ASSUME NEW n \in Int, 1 <= n, n <= 32767 PROVE Kind(2 * n, n, "none")
  <2>1. PICK w : w = 2 * n
    OBVIOUS
  <2>2. w \in Int /\ 0 <= w /\ w <= 65534 /\ w \div 2 = n
    BY <1>3, <2>1
  <2>3. w \in Word
    BY <2>2, Numbers
  <2>4. w \notin DCC!EndOfEvent
    BY <2>2 DEF DCC!EndOfEvent
  <2>5. DCC!Skip(w) = n
    BY <1>3, <2>2, <2>4 DEF DCC!Skip
  <2>6. Kind(w, n, "none")
    BY <1>1, <2>3, <2>4, <2>5 DEF Kind
  <2> QED BY <2>1, <2>6
<1> QED BY <1>2, <1>3, SMT

(***************************************************************************)
(* The records of an event.                                                *)
(***************************************************************************)
\* The number of an event is low, in 14 bits.
IsCount(c) ==
  /\ c \in Word \X Word /\ c[2] \in Nat /\ c[2] <= 16383
  /\ electronics = "DCC" => c[1] = 0

\* Events as the front end makes them.
IsEvent(e) ==
  /\ e.time \in Word \X Word \X Word /\ IsCount(e.count)
  /\ e.hits \in Seq(Range(e.hits))
  /\ \A i \in DOMAIN e.hits : IsHit(electronics, e.hits[i])
  /\ \A i, j \in DOMAIN e.hits : i # j =>
       <<e.hits[i].card, e.hits[i].chip, e.hits[i].chan>>
         # <<e.hits[j].card, e.hits[j].chip, e.hits[j].chan>>

\* The numbers of a channel are within these.
HitBounds(h, cards, chips, low, high) ==
  /\ h.card \in Int /\ 0 <= h.card /\ h.card <= cards
  /\ h.chip \in Int /\ 0 <= h.chip /\ h.chip <= chips
  /\ h.chan \in Int /\ low <= h.chan /\ h.chan <= high

\* What a header of a record has room for, by electronics.
LEMMA HitRanges ==
  ASSUME electronics \in Electronics, NEW h, IsHit(electronics, h)
  PROVE  /\ electronics = "ARC" => HitBounds(h, 7, 15, 0, 71)
         /\ electronics = "FEMINOS" => HitBounds(h, 31, 3, 0, 71)
         /\ electronics # "ARC" /\ electronics # "FEMINOS" => HitBounds(h, 5, 3, 3, 78)
         /\ IsPulse(h.pulse)
<1>1. CASE electronics = "ARC"
  <2>1. h.card \in 0..7 /\ h.chip \in 0..15 /\ h.chan \in 0..71 /\ IsPulse(h.pulse)
    BY <1>1, Zenon DEF IsHit
  <2> QED BY <1>1, <2>1 DEF HitBounds
<1>2. CASE electronics = "FEMINOS"
  <2>1. h.card \in 0..31 /\ h.chip \in 0..3 /\ h.chan \in 0..71 /\ IsPulse(h.pulse)
    BY <1>2, Zenon DEF IsHit
  <2> QED BY <1>2, <2>1 DEF HitBounds
<1>3. CASE electronics = "DCC" /\ electronics # "ARC" /\ electronics # "FEMINOS"
  <2>1. h.card \in 0..5 /\ h.chip \in 0..3 /\ h.chan \in 3..78 /\ IsPulse(h.pulse)
    BY <1>3, Zenon DEF IsHit
  <2> QED BY <1>3, <2>1 DEF HitBounds
<1> QED BY <1>1, <1>2, <1>3, ElectronicsOf

\* A record or framing words that are stepped over as a whole.
LEMMA SimpleUnit ==
  ASSUME NEW u \in Seq(Word), Len(u) >= 1
  PROVE  /\ Kind(u[1], Len(u), "none") =>
              u \in Unit /\ ~Ends(u) /\ u[1] \notin HitIndex /\ u[1] \notin StartOfEvent
         /\ Kind(u[1], Len(u), "start") =>
              u \in Unit /\ ~Ends(u) /\ u[1] \notin HitIndex /\ u[1] \in StartOfEvent
         /\ Kind(u[1], Len(u), "end") =>
              u \in Unit /\ Ends(u) /\ u[1] \notin HitIndex /\ u[1] \notin StartOfEvent
<1>1. u # <<>>
  OBVIOUS
<1>2. CASE Kind(u[1], Len(u), "none")
  <2>1. /\ u[1] \notin HitIndex /\ u[1] \notin StartOfEvent /\ u[1] \notin EndOfEvent
        /\ u[1] \notin Data /\ Simple(u)
    BY <1>2 DEF Kind, Simple
  <2> QED BY <1>1, <1>2, <2>1 DEF Unit, Ends, Kind
<1>3. CASE Kind(u[1], Len(u), "start")
  <2>1. /\ u[1] \notin HitIndex /\ u[1] \in StartOfEvent /\ u[1] \notin EndOfEvent
        /\ u[1] \notin Data /\ Simple(u)
    BY <1>3 DEF Kind, Simple
  <2> QED BY <1>1, <1>3, <2>1 DEF Unit, Ends, Kind
<1>4. CASE Kind(u[1], Len(u), "end")
  <2>1. /\ u[1] \notin HitIndex /\ u[1] \notin StartOfEvent /\ u[1] \in EndOfEvent
        /\ u[1] \notin Data /\ Simple(u)
    BY <1>4 DEF Kind, Simple
  <2> QED BY <1>1, <1>4, <2>1 DEF Unit, Ends, Kind
<1> QED BY <1>2, <1>3, <1>4

\* A header with words of a pulse behind it.
LEMMA HeadedUnit ==
  ASSUME NEW a \in Seq(Word), NEW b \in Seq(Word), Len(a) >= 1, Kind(a[1], Len(a), "hit"),
         \A k \in 1..Len(b) : b[k] \in Data, NEW u, u = a \o b
  PROVE  /\ u \in Unit /\ ~Ends(u) /\ u[1] = a[1] /\ u[1] \in HitIndex
         /\ u[1] \notin StartOfEvent /\ SkipOf(u[1]) = Len(a)
<1>1. u \in Seq(Word) /\ Glued(u, a, b)
  BY Joined
<1>2. Len(a) \in Nat /\ Len(b) \in Nat /\ Len(u) = Len(a) + Len(b)
  BY <1>1 DEF Glued
<1>3. 1 \in 1..Len(a)
  BY <1>2
<1>4. u[1] = a[1] /\ u # <<>>
  <2>1. Len(u) >= 1
    BY <1>2
  <2>2. u # <<>>
    BY <1>1, <2>1
  <2> QED BY <1>1, <1>3, <2>2 DEF Glued
<1>5. u[1] \in HitIndex /\ u[1] \notin Data /\ SkipOf(u[1]) = Len(a)
      /\ u[1] \notin EndOfEvent /\ u[1] \notin StartOfEvent
  BY <1>4 DEF Kind
<1>6. \A k \in Len(a) + 1..Len(u) : u[k] \in Data
  <2>1. ASSUME NEW k \in Len(a) + 1..Len(u) PROVE u[k] \in Data
    <3>1. PICK i \in 1..Len(b) : k = Len(a) + i
      <4>1. k - Len(a) \in 1..Len(b) /\ k = Len(a) + (k - Len(a))
        BY <1>2
      <4> QED BY <4>1
    <3>2. u[k] = b[i]
      BY <1>1, <3>1 DEF Glued
    <3> QED BY <3>2
  <2> QED BY <2>1
<1>7. Headed(u)
  <2>1. Len(a) <= Len(u)
    BY <1>2
  <2> QED BY <1>5, <1>6, <2>1 DEF Headed
<1> QED BY <1>1, <1>4, <1>5, <1>7 DEF Unit, Ends

\* The words before those of the pulse of a hit, in frames.
Header(h) == Of(<<17, h.chan + 128 * h.chip + 2048 * h.card>>,
                <<49152 + h.chan + 128 * h.chip + 512 * h.card>>, <<>>)

\* The record of a hit names its channel.
HitUnit(u, h) ==
  /\ u \in Unit /\ ~Ends(u) /\ u[1] \in HitIndex /\ u[1] \notin StartOfEvent
  /\ u = Header(h) \o PulseRecord(h.pulse, BinCode, SampleCode) /\ Header(h) \in Seq(Word)
  /\ Len(Header(h)) >= 1 /\ SkipOf(u[1]) = Len(Header(h))
  /\ F!physChannel(Header(h)[Len(Header(h))]) = Number(h)

\* The record of the start of an event holds time and count.
StartUnit(u, e) ==
  /\ u \in Unit /\ ~Ends(u) /\ u[1] \in StartOfEvent /\ u[1] \notin HitIndex /\ Len(u) = 6
  /\ u[4] = e.time[1] /\ u[3] = e.time[2] /\ u[2] = e.time[3]
  /\ u[6] = e.count[1] /\ u[5] = e.count[2]

\* Words that are neither.
OtherUnit(u) == u \in Unit /\ u[1] \notin HitIndex /\ u[1] \notin StartOfEvent

\* The word that names a channel.
ARCIndex(w, c, a, f) ==
  /\ c \in Int /\ a \in Int /\ f \in Int /\ w = c + 128 * a + 2048 * f
  /\ 0 <= c /\ c <= 71 /\ 0 <= a /\ a <= 15 /\ 0 <= f /\ f <= 7

FEMINOSIndex(w, c, a, f) ==
  /\ c \in Int /\ a \in Int /\ f \in Int /\ w = 49152 + c + 128 * a + 512 * f
  /\ 0 <= c /\ c <= 71 /\ 0 <= a /\ a <= 3 /\ 0 <= f /\ f <= 31

\* It is decoded to the number of the channel.
LEMMA ARCChannel ==
  ASSUME NEW c, NEW a, NEW f, NEW w, ARCIndex(w, c, a, f)
  PROVE  F!physChannel(w) = c + 72 * (a + 16 * f) /\ 0 <= w /\ w <= 65535 /\ w \in Int
<1> USE DEF ARCIndex
<1>1. w \in Nat /\ w % 128 = c /\ w \div 128 = a + 16 * f /\ w <= 65535
  OBVIOUS
<1>2. w \div 512 = (a + 16 * f) \div 4
  OBVIOUS
<1>3. ((a + 16 * f) \div 4) % 32 = (a + 16 * f) \div 4
  OBVIOUS
<1>4. 72 * ((a + 16 * f) % 4) + 288 * ((a + 16 * f) \div 4) = 72 * (a + 16 * f)
  OBVIOUS
<1> QED BY <1>1, <1>2, <1>3, <1>4 DEF F!physChannel

\* So it is for FEMINOS electronics.
LEMMA FEMINOSChannel ==
  ASSUME NEW c, NEW a, NEW f, NEW w, FEMINOSIndex(w, c, a, f)
  PROVE  /\ F!physChannel(w) = c + 72 * (a + 4 * f)
         /\ \E x \in Int : w = 49152 + x /\ 0 <= x /\ x <= 16383
         /\ 0 <= w /\ w <= 65535 /\ w \in Int
<1> USE DEF FEMINOSIndex
<1>1. /\ w \in Nat /\ w % 128 = c /\ w \div 128 = 384 + a + 4 * f
      /\ w = 49152 + (c + 128 * a + 512 * f) /\ w <= 65535
      /\ c + 128 * a + 512 * f \in Int /\ 0 <= c + 128 * a + 512 * f
      /\ c + 128 * a + 512 * f <= 16383
  OBVIOUS
<1>2. (384 + a + 4 * f) % 4 = a
  OBVIOUS
<1>3. w \div 512 = 96 + f
  OBVIOUS
<1>4. (96 + f) % 32 = f
  OBVIOUS
<1>5. F!physChannel(w) = c + 72 * (a + 4 * f)
  BY <1>1, <1>2, <1>3, <1>4 DEF F!physChannel
<1> QED BY <1>1, <1>5

\* Framing words are told by the first.
FrameWord(w) == w = 2048 \/ w = 15

\* The first word of all framing is one of these.
LEMMA FramingFirst == \A v \in Framing : FrameWord(v[1])
BY DEF Framing, Headings, Of, FrameWord

\* In frames a hit is sent as a header and the words of its pulse.
LEMMA FramedHit ==
  ASSUME electronics = "ARC" \/ electronics = "FEMINOS", NEW h, IsHit(electronics, h),
         NEW u, u = Header(h) \o PulseRecord(h.pulse, BinCode, SampleCode)
  PROVE  HitUnit(u, h) /\ u \notin Framing
<1>0. electronics \in Electronics
  BY DEF Electronics
<1>1. /\ Header(h) \in Seq(Word) /\ Len(Header(h)) >= 1
      /\ Kind(Header(h)[1], Len(Header(h)), "hit")
      /\ Header(h)[1] # 2048 /\ Header(h)[1] # 15
      /\ F!physChannel(Header(h)[Len(Header(h))]) = Number(h)
  <2>1. CASE electronics = "ARC"
    <3>1. HitBounds(h, 7, 15, 0, 71)
      BY <1>0, <2>1, HitRanges
    <3>2. PICK w : w = h.chan + 128 * h.chip + 2048 * h.card
      OBVIOUS
    <3>3. /\ F!physChannel(w) = h.chan + 72 * (h.chip + 16 * h.card)
          /\ 0 <= w /\ w <= 65535 /\ w \in Int
      <4>1. ARCIndex(w, h.chan, h.chip, h.card)
        BY <3>1, <3>2 DEF HitBounds, ARCIndex
      <4> QED BY <4>1, ARCChannel
    <3>4. w \in Word /\ 17 \in Word
      BY <3>3, Numbers
    <3>5. Header(h) = <<17, w>>
      BY <2>1, <3>2 DEF Header, Of
    <3>6. Number(h) = h.chan + 72 * (h.chip + 16 * h.card)
      BY <2>1 DEF Number
    <3>7. Kind(17, 2, "hit")
      BY <2>1, ARCKinds
    <3>8. <<17, w>> \in Seq(Word) /\ Len(<<17, w>>) = 2 /\ <<17, w>>[1] = 17
          /\ <<17, w>>[2] = w
      BY <3>4
    <3> QED BY <3>3, <3>5, <3>6, <3>7, <3>8
  <2>2. CASE electronics = "FEMINOS" /\ electronics # "ARC"
    <3>1. HitBounds(h, 31, 3, 0, 71)
      BY <1>0, <2>2, HitRanges
    <3>2. PICK w : w = 49152 + h.chan + 128 * h.chip + 512 * h.card
      OBVIOUS
    <3>3. /\ F!physChannel(w) = h.chan + 72 * (h.chip + 4 * h.card)
          /\ \E x \in Int : w = 49152 + x /\ 0 <= x /\ x <= 16383
          /\ 0 <= w /\ w <= 65535 /\ w \in Int
      <4>1. FEMINOSIndex(w, h.chan, h.chip, h.card)
        BY <3>1, <3>2 DEF HitBounds, FEMINOSIndex
      <4> QED BY <4>1, FEMINOSChannel
    <3>4. w \in Word /\ w # 2048 /\ w # 15
      BY <3>3, Numbers
    <3>5. Header(h) = <<w>>
      BY <2>2, <3>2 DEF Header, Of
    <3>6. Number(h) = h.chan + 72 * (h.chip + 4 * h.card)
      BY <2>2 DEF Number
    <3>7. Kind(w, 1, "hit")
      BY <2>2, <3>3, FEMINOSKinds
    <3>8. <<w>> \in Seq(Word) /\ Len(<<w>>) = 1 /\ <<w>>[1] = w
      BY <3>4
    <3> QED BY <3>3, <3>4, <3>5, <3>6, <3>7, <3>8
  <2> QED BY <2>1, <2>2
<1>2. IsPulse(h.pulse)
  BY <1>0, HitRanges
<1>3. PICK b : b = PulseRecord(h.pulse, BinCode, SampleCode)
  OBVIOUS
<1>4. b \in Seq(Word)
  BY <1>0, <1>2, <1>3, PulseSeq
<1>5. \A k \in 1..Len(b) : b[k] \in Data
  <2>1. PulseRead(h.pulse, b, F!timeBin(b))
    BY <1>0, <1>2, <1>3, <1>4, PulseBins, BinsExist
  <2>2. \A k \in 1..Len(b) : b[k] \in AdcSample \cup TimeBin
    BY <2>1 DEF PulseRead
  <2> QED BY <2>2 DEF Data, Of
<1>6. PICK a : a = Header(h)
  OBVIOUS
<1>7. /\ u \in Unit /\ ~Ends(u) /\ u[1] = a[1] /\ u[1] \in HitIndex
      /\ u[1] \notin StartOfEvent /\ SkipOf(u[1]) = Len(a)
  <2>1. u = a \o b
    BY <1>3, <1>6
  <2>2. a \in Seq(Word) /\ Len(a) >= 1 /\ Kind(a[1], Len(a), "hit")
    BY <1>1, <1>6
  <2> QED BY <1>4, <1>5, <2>1, <2>2, HeadedUnit
<1>8. HitUnit(u, h)
  BY <1>1, <1>6, <1>7 DEF HitUnit
<1>9. u \notin Framing
  <2>1. u[1] = Header(h)[1]
    BY <1>6, <1>7
  <2>2. ~FrameWord(Header(h)[1])
    BY <1>1 DEF FrameWord
  <2> QED BY <2>1, <2>2, FramingFirst
<1> QED BY <1>8, <1>9

\* The words around frames are neither a start nor a hit nor an end.
LEMMA FramingUnits ==
  ASSUME electronics \in Electronics, NEW u \in Framing
  PROVE  u \in Unit /\ ~Ends(u) /\ OtherUnit(u)
<1>1. CASE electronics = "ARC"
  <2>1. CASE u \in Headings
    <3>1. PICK n \in Word : u = <<2048, n>>
      BY <2>1 DEF Headings
    <3>2. 2048 \in Word
      BY Numbers
    <3>3. u \in Seq(Word) /\ Len(u) = 2 /\ u[1] = 2048
      BY <3>1, <3>2
    <3>4. Kind(u[1], Len(u), "none") /\ Len(u) >= 1
      BY <1>1, <3>3, ARCKinds
    <3>5. u \in Seq(Word)
      BY <3>3
    <3>6. u \in Unit /\ ~Ends(u) /\ u[1] \notin HitIndex /\ u[1] \notin StartOfEvent
      BY <3>4, <3>5, SimpleUnit
    <3> QED BY <3>6 DEF OtherUnit
  <2>2. CASE u = <<15>>
    <3>2. 15 \in Word
      BY Numbers
    <3>3. u \in Seq(Word) /\ Len(u) = 1 /\ u[1] = 15
      BY <2>2, <3>2
    <3>4. Kind(u[1], Len(u), "none") /\ Len(u) >= 1
      BY <1>1, <3>3, ARCKinds
    <3>5. u \in Seq(Word)
      BY <3>3
    <3>6. u \in Unit /\ ~Ends(u) /\ u[1] \notin HitIndex /\ u[1] \notin StartOfEvent
      BY <3>4, <3>5, SimpleUnit
    <3> QED BY <3>6 DEF OtherUnit
  <2> QED BY <1>1, <2>1, <2>2 DEF Framing, Of
<1>2. CASE electronics = "FEMINOS" /\ electronics # "ARC"
  <2>1. PICK n \in Word : u = <<2048, n>>
    BY <1>2 DEF Headings, Framing, Of
  <2>2. 2048 \in Word
    BY Numbers
  <2>3. u \in Seq(Word) /\ Len(u) = 2 /\ u[1] = 2048
    BY <2>1, <2>2
  <2>4. Kind(u[1], Len(u), "none") /\ Len(u) >= 1
    BY <1>2, <2>3, FEMINOSKinds
  <2>5. u \in Seq(Word)
    BY <2>3
  <2>6. u \in Unit /\ ~Ends(u) /\ u[1] \notin HitIndex /\ u[1] \notin StartOfEvent
    BY <2>4, <2>5, SimpleUnit
  <2> QED BY <2>6 DEF OtherUnit
<1>3. CASE electronics = "DCC" /\ electronics # "ARC" /\ electronics # "FEMINOS"
  BY <1>3 DEF Framing, Of
<1> QED BY <1>1, <1>2, <1>3, ElectronicsOf

\* The records of an event are units, the last of which is the end.
EventUnits(r) ==
  /\ r \in Seq(Unit) /\ Len(r) \in Nat /\ Len(r) >= 1
  /\ \A k \in 1..Len(r) : (Ends(r[k]) <=> k = Len(r)) /\ r[k] \notin Framing

\* In frames they are its start, its hits, and others that say nothing.
Covers(r, e) ==
  /\ \A k \in 1..Len(r) : \/ StartUnit(r[k], e) \/ OtherUnit(r[k])
                          \/ \E i \in 1..Len(e.hits) : HitUnit(r[k], e.hits[i])
  /\ \E k \in 1..Len(r) : StartUnit(r[k], e)
  /\ \A i \in 1..Len(e.hits) : \E k \in 1..Len(r) : HitUnit(r[k], e.hits[i])

\* Six words in three parts.
LEMMA SixWords ==
  ASSUME NEW S, NEW a \in S, NEW b \in S, NEW c \in S, NEW d \in S, NEW e \in S, NEW f \in S,
         NEW u, u = <<a>> \o <<b, c, d>> \o <<e, f>>
  PROVE  /\ u \in Seq(S) /\ Len(u) = 6
         /\ u[1] = a /\ u[2] = b /\ u[3] = c /\ u[4] = d /\ u[5] = e /\ u[6] = f
OBVIOUS

\* The start of an event: time and count from the lowest word on.
LEMMA HeadUnit ==
  ASSUME electronics \in Electronics, NEW e, IsEvent(e), NEW p, Kind(p, 6, "start"),
         NEW u, u = FramedHead(p, e)
  PROVE  StartUnit(u, e) /\ u[1] = p
<1>1. PICK t1 \in Word, t2 \in Word, t3 \in Word : e.time = <<t1, t2, t3>>
  BY DEF IsEvent
<1>2. PICK c1 \in Word, c2 \in Word : e.count = <<c1, c2>>
  BY DEF IsEvent, IsCount
<1>3. Reverse(<<t1, t2, t3>>) = <<t3, t2, t1>>
  BY DEF Reverse
<1>4. Reverse(<<c1, c2>>) = <<c2, c1>>
  BY DEF Reverse
<1>5. p \in Word
  BY DEF Kind
<1>6. u = <<p>> \o <<t3, t2, t1>> \o <<c2, c1>>
  BY <1>1, <1>2, <1>3, <1>4 DEF FramedHead
<1>7. /\ u \in Seq(Word) /\ Len(u) = 6 /\ Len(u) >= 1 /\ u[1] = p
      /\ u[2] = t3 /\ u[3] = t2 /\ u[4] = t1 /\ u[5] = c2 /\ u[6] = c1
  BY <1>5, <1>6, SixWords
<1>8. /\ u[4] = e.time[1] /\ u[3] = e.time[2] /\ u[2] = e.time[3]
      /\ u[6] = e.count[1] /\ u[5] = e.count[2]
  BY <1>1, <1>2, <1>7
<1>9. Kind(u[1], Len(u), "start")
  BY <1>7
<1>10. u \in Unit /\ ~Ends(u) /\ u[1] \notin HitIndex /\ u[1] \in StartOfEvent
  BY <1>7, <1>9, SimpleUnit
<1> QED BY <1>7, <1>8, <1>10 DEF StartUnit

\* The number of the hits and the end.
LEMMA TailUnits ==
  ASSUME electronics = "ARC" \/ electronics = "FEMINOS", NEW n \in Nat
  PROVE  LET u == Of(<<4608 + (n % 128)>>, <<32768 + (n % 128)>>, <<>>)
             v == Of(<<704, 0, 704, 0>>, <<224, 224>>, <<>>)
         IN OtherUnit(u) /\ ~Ends(u) /\ OtherUnit(v) /\ Ends(v)
            /\ ~FrameWord(u[1]) /\ ~FrameWord(v[1])
<1>1. PICK x \in 0..127 : x = n % 128
  OBVIOUS
<1>2. CASE electronics = "ARC"
  <2> DEFINE uu == <<4608 + x>>
             vv == <<704, 0, 704, 0>>
  <2>1. PICK u, v : u = uu /\ v = vv
    <3> HIDE DEF uu, vv
    <3> QED OBVIOUS
  <2>2. 4608 + x \in Word /\ 704 \in Word /\ 0 \in Word
    BY Numbers
  <2>3. /\ u \in Seq(Word) /\ Len(u) = 1 /\ u[1] = 4608 + x
        /\ v \in Seq(Word) /\ Len(v) = 4 /\ v[1] = 704
    BY <2>2, <2>1
  <2>4. Kind(u[1], Len(u), "none") /\ Len(u) >= 1 /\ Kind(v[1], Len(v), "end") /\ Len(v) >= 1
    <3>1. PICK w \in Word : w = 4608 + x
      BY <2>2
    <3>2. Kind(w, 1, "none")
      BY <1>2, <3>1, ARCKinds
    <3> QED BY <1>2, <2>3, <3>1, <3>2, ARCKinds
  <2>5. u \in Seq(Word) /\ v \in Seq(Word)
    BY <2>3
  <2>6. /\ u \in Unit /\ ~Ends(u) /\ u[1] \notin HitIndex /\ u[1] \notin StartOfEvent
        /\ v \in Unit /\ Ends(v) /\ v[1] \notin HitIndex /\ v[1] \notin StartOfEvent
    BY <2>4, <2>5, SimpleUnit
  <2>7. ~FrameWord(u[1]) /\ ~FrameWord(v[1])
    BY <2>3 DEF FrameWord
  <2>8. OtherUnit(u) /\ OtherUnit(v)
    BY <2>6 DEF OtherUnit
  <2> QED BY <1>1, <1>2, <2>1, <2>6, <2>7, <2>8 DEF Of
<1>3. CASE electronics = "FEMINOS" /\ electronics # "ARC"
  <2> DEFINE uu == <<32768 + x>>
             vv == <<224, 224>>
  <2>1. PICK u, v : u = uu /\ v = vv
    <3> HIDE DEF uu, vv
    <3> QED OBVIOUS
  <2>2. 32768 + x \in Word /\ 224 \in Word
    BY Numbers
  <2>3. /\ u \in Seq(Word) /\ Len(u) = 1 /\ u[1] = 32768 + x
        /\ v \in Seq(Word) /\ Len(v) = 2 /\ v[1] = 224
    BY <2>2, <2>1
  <2>4. Kind(u[1], Len(u), "none") /\ Len(u) >= 1 /\ Kind(v[1], Len(v), "end") /\ Len(v) >= 1
    <3>1. PICK w \in Word : w = 32768 + x
      BY <2>2
    <3>2. Kind(w, 1, "none")
      BY <1>3, <3>1, FEMINOSKinds
    <3> QED BY <1>3, <2>3, <3>1, <3>2, FEMINOSKinds
  <2>5. u \in Seq(Word) /\ v \in Seq(Word)
    BY <2>3
  <2>6. /\ u \in Unit /\ ~Ends(u) /\ u[1] \notin HitIndex /\ u[1] \notin StartOfEvent
        /\ v \in Unit /\ Ends(v) /\ v[1] \notin HitIndex /\ v[1] \notin StartOfEvent
    BY <2>4, <2>5, SimpleUnit
  <2>7. ~FrameWord(u[1]) /\ ~FrameWord(v[1])
    BY <2>3 DEF FrameWord
  <2>8. OtherUnit(u) /\ OtherUnit(v)
    BY <2>6 DEF OtherUnit
  <2> QED BY <1>1, <1>3, <2>1, <2>6, <2>7, <2>8 DEF Of
<1> QED BY <1>2, <1>3

\* A record in front, and two behind a sequence.
LEMMA Enclosed ==
  ASSUME NEW S, NEW a \in S, NEW b \in Seq(S), NEW c \in S, NEW d \in S,
         NEW r, r = <<a>> \o b \o <<c, d>>
  PROVE  /\ r \in Seq(S) /\ Len(b) \in Nat /\ Len(r) = Len(b) + 3
         /\ r[1] = a /\ r[Len(b) + 2] = c /\ r[Len(b) + 3] = d
         /\ \A i \in 1..Len(b) : r[i + 1] = b[i]
<1>1. PICK x : x = <<a>> \o b
  OBVIOUS
<1>2. /\ x \in Seq(S) /\ Len(b) \in Nat /\ Len(x) = Len(b) + 1
      /\ x[1] = a /\ \A i \in 1..Len(b) : x[i + 1] = b[i]
  BY <1>1
<1>3. PICK y : y = <<c, d>>
  OBVIOUS
<1>4. y \in Seq(S) /\ Len(y) = 2 /\ y[1] = c /\ y[2] = d
  BY <1>3
<1>5. r = x \o y
  BY <1>1, <1>3
<1>6. r \in Seq(S) /\ Len(r) = Len(b) + 3
  BY <1>2, <1>4, <1>5
<1>7. /\ r[Len(b) + 2] = c /\ r[Len(b) + 3] = d
      /\ \A i \in 1..Len(b) + 1 : r[i] = x[i]
  BY <1>2, <1>4, <1>5
<1>8. /\ 1 \in 1..Len(b) + 1
      /\ \A i \in 1..Len(b) : i + 1 \in 1..Len(b) + 1
  BY <1>2
<1> QED BY <1>2, <1>6, <1>7, <1>8

\* The records of an event in frames.
LEMMA FramedRecords ==
  ASSUME electronics = "ARC" \/ electronics = "FEMINOS", NEW e, IsEvent(e),
         NEW r, r = Records(e)
  PROVE  EventUnits(r) /\ Covers(r, e)
<1>0. electronics \in Electronics
  BY DEF Electronics
<1>1. PICK a : a = Of(FramedHead(768, e), FramedHead(240, e), <<>>)
  OBVIOUS
<1>2. StartUnit(a, e) /\ ~FrameWord(a[1])
  <2>1. CASE electronics = "ARC"
    <3>1. a = FramedHead(768, e) /\ Kind(768, 6, "start")
      BY <1>1, <2>1, ARCKinds DEF Of
    <3>2. ~FrameWord(768)
      BY DEF FrameWord
    <3> QED BY <1>0, <3>1, <3>2, HeadUnit
  <2>2. CASE electronics = "FEMINOS" /\ electronics # "ARC"
    <3>1. a = FramedHead(240, e) /\ Kind(240, 6, "start")
      BY <1>1, <2>2, FEMINOSKinds DEF Of
    <3>2. ~FrameWord(240)
      BY DEF FrameWord
    <3> QED BY <1>0, <3>1, <3>2, HeadUnit
  <2> QED BY <2>1, <2>2
<1>3. e.hits \in Seq(Range(e.hits)) /\ Len(e.hits) \in Nat /\ DOMAIN e.hits = 1..Len(e.hits)
  BY LenProperties DEF IsEvent
<1> DEFINE rec(i) == Header(e.hits[i])
                       \o PulseRecord(e.hits[i].pulse, BinCode, SampleCode)
<1>4. PICK b : b = [i \in DOMAIN e.hits |-> rec(i)]
  OBVIOUS
<1>5. \A i \in 1..Len(e.hits) : HitUnit(rec(i), e.hits[i]) /\ rec(i) \notin Framing
  <2>1. ASSUME NEW i \in 1..Len(e.hits)
        PROVE  HitUnit(rec(i), e.hits[i]) /\ rec(i) \notin Framing
    <3>1. IsHit(electronics, e.hits[i])
      BY <1>3 DEF IsEvent
    <3>2. PICK h, u : h = e.hits[i] /\ u = rec(i)
      OBVIOUS
    <3>3. IsHit(electronics, h) /\ u = Header(h) \o PulseRecord(h.pulse, BinCode, SampleCode)
      BY <3>1, <3>2
    <3>4. HitUnit(u, h) /\ u \notin Framing
      BY <3>3, FramedHit
    <3> QED BY <3>2, <3>4
  <2> QED BY <2>1
<1>6. \A i \in 1..Len(e.hits) : rec(i) \in Unit
  BY <1>5 DEF HitUnit
<1> HIDE DEF rec
<1>7. b \in Seq(Unit) /\ Len(b) = Len(e.hits) /\ \A i \in 1..Len(e.hits) : b[i] = rec(i)
  BY <1>3, <1>4, <1>6
<1>8. PICK n \in Nat : n = Len(e.hits)
  BY <1>3
<1>9. PICK c, d : /\ c = Of(<<4608 + (n % 128)>>, <<32768 + (n % 128)>>, <<>>)
                  /\ d = Of(<<704, 0, 704, 0>>, <<224, 224>>, <<>>)
  OBVIOUS
<1>10. OtherUnit(c) /\ ~Ends(c) /\ OtherUnit(d) /\ Ends(d)
       /\ ~FrameWord(c[1]) /\ ~FrameWord(d[1])
  BY <1>9, TailUnits
<1>11. r = <<a>> \o b \o <<c, d>>
  <2>1. CASE electronics = "ARC"
    <3>1. \A i : rec(i) = LET h == e.hits[i] IN
            <<17, h.chan + 128 * h.chip + 2048 * h.card>> \o PulseRecord(h.pulse, 3584, 12288)
      BY <2>1 DEF rec, Header, BinCode, SampleCode, Of
    <3>2. r = ARCRecords(e)
      BY <2>1 DEF Records
    <3>3. a = FramedHead(768, e)
      BY <1>1, <2>1 DEF Of
    <3>4. c = <<4608 + (Len(e.hits) % 128)>>
      BY <1>8, <1>9, <2>1 DEF Of
    <3>5. d = <<704, 0, 704, 0>>
      BY <1>1, <1>8, <1>9, <2>1 DEF Of
    <3>6. b = [i \in DOMAIN e.hits |->
                    LET h == e.hits[i] IN
                    <<17, h.chan + 128 * h.chip + 2048 * h.card>>
                      \o PulseRecord(h.pulse, 3584, 12288)]
      BY <1>4, <3>1
    <3> QED BY <3>2, <3>3, <3>4, <3>5, <3>6, SMTT(30) DEF ARCRecords
  <2>2. CASE electronics = "FEMINOS" /\ electronics # "ARC"
    <3>1. \A i : rec(i) = LET h == e.hits[i] IN
            <<49152 + h.chan + 128 * h.chip + 512 * h.card>>
              \o PulseRecord(h.pulse, 3584, 12288)
      BY <2>2 DEF rec, Header, BinCode, SampleCode, Of
    <3>2. r = FEMINOSRecords(e)
      BY <2>2 DEF Records
    <3>3. a = FramedHead(240, e)
      BY <1>1, <2>2 DEF Of
    <3>4. c = <<32768 + (Len(e.hits) % 128)>>
      BY <1>8, <1>9, <2>2 DEF Of
    <3>5. d = <<224, 224>>
      BY <1>1, <1>8, <1>9, <2>2 DEF Of
    <3>6. b = [i \in DOMAIN e.hits |->
                    LET h == e.hits[i] IN
                    <<49152 + h.chan + 128 * h.chip + 512 * h.card>>
                      \o PulseRecord(h.pulse, 3584, 12288)]
      BY <1>4, <3>1
    <3> QED BY <3>2, <3>3, <3>4, <3>5, <3>6, SMTT(30) DEF FEMINOSRecords
  <2> QED BY <2>1, <2>2
<1>12. a \in Unit /\ c \in Unit /\ d \in Unit
  BY <1>2, <1>10 DEF StartUnit, OtherUnit
<1>13. /\ r \in Seq(Unit) /\ Len(r) = n + 3
       /\ r[1] = a /\ r[n + 2] = c /\ r[n + 3] = d
       /\ \A i \in 1..n : r[i + 1] = rec(i)
  <2>1. /\ r \in Seq(Unit) /\ Len(r) = Len(b) + 3
        /\ r[1] = a /\ r[Len(b) + 2] = c /\ r[Len(b) + 3] = d
        /\ \A i \in 1..Len(b) : r[i + 1] = b[i]
    BY <1>7, <1>11, <1>12, Enclosed
  <2> QED BY <1>7, <1>8, <2>1
<1>14. \A k \in 1..Len(r) : k = 1 \/ (\E i \in 1..n : k = i + 1) \/ k = n + 2 \/ k = n + 3
  <2>1. ASSUME NEW k \in 1..Len(r), k # 1, k # n + 2, k # n + 3
        PROVE  \E i \in 1..n : k = i + 1
    <3>1. k - 1 \in 1..n /\ k = (k - 1) + 1
      BY <1>13, <2>1
    <3> QED BY <3>1
  <2> QED BY <2>1
<1>15. 1 \in 1..Len(r) /\ \A i \in 1..n : i + 1 \in 1..Len(r) /\ i + 1 # Len(r)
       /\ 1 # Len(r) /\ n + 2 # Len(r)
  BY <1>13
<1>16. EventUnits(r)
  <2>1. ASSUME NEW k \in 1..Len(r)
        PROVE  (Ends(r[k]) <=> k = Len(r)) /\ r[k] \notin Framing
    <3>1. CASE k = 1
      BY <1>2, <1>13, <1>15, <3>1, FramingFirst DEF StartUnit
    <3>2. CASE \E i \in 1..n : k = i + 1
      BY <1>5, <1>8, <1>13, <1>15, <3>2 DEF HitUnit
    <3>3. CASE k = n + 2
      BY <1>10, <1>13, <1>15, <3>3, FramingFirst
    <3>4. CASE k = n + 3
      BY <1>10, <1>13, <3>4, FramingFirst
    <3> QED BY <1>14, <3>1, <3>2, <3>3, <3>4
  <2>2. Len(r) \in Nat /\ Len(r) >= 1
    BY <1>13
  <2> QED BY <1>13, <2>1, <2>2 DEF EventUnits
<1>17. Covers(r, e)
  <2>1. ASSUME NEW k \in 1..Len(r)
        PROVE  \/ StartUnit(r[k], e) \/ OtherUnit(r[k])
               \/ \E i \in 1..Len(e.hits) : HitUnit(r[k], e.hits[i])
    <3>1. CASE k = 1
      BY <1>2, <1>13, <3>1
    <3>2. CASE \E i \in 1..n : k = i + 1
      BY <1>5, <1>8, <1>13, <3>2
    <3>3. CASE k = n + 2
      BY <1>10, <1>13, <3>3
    <3>4. CASE k = n + 3
      BY <1>10, <1>13, <3>4
    <3> QED BY <1>14, <3>1, <3>2, <3>3, <3>4
  <2>2. \E k \in 1..Len(r) : StartUnit(r[k], e)
    BY <1>2, <1>13, <1>15
  <2>3. \A i \in 1..Len(e.hits) : \E k \in 1..Len(r) : HitUnit(r[k], e.hits[i])
    BY <1>5, <1>8, <1>13, <1>15
  <2> QED BY <2>1, <2>2, <2>3 DEF Covers
<1> QED BY <1>16, <1>17

(***************************************************************************)
(* The loop over the units of an event.                                    *)
(***************************************************************************)
\* f[i] are the indices that the loop looks at from i on.
Gathers(b, f) ==
  f = [i \in Nat |->
         IF i >= Len(b) \/ b[i + 1] \in EndOfEvent THEN {}
         ELSE LET next == i + SkipOf(b[i + 1])
              IN {i} \cup f[IF b[i + 1] \in HitIndex
                              THEN next + Len(F!PulseWords(b, next)) ELSE next]]

\* The words of a pulse are words.
LEMMA PulseWordsType ==
  ASSUME NEW b \in Seq(Word), NEW i \in Nat
  PROVE  F!PulseWords(b, i) \in Seq(Word) /\ Len(F!PulseWords(b, i)) \in Nat
<1> DEFINE T == {k \in i..Len(b) - 1 : F!At(b, k) \notin AdcSample /\ F!At(b, k) \notin TimeBin}
                  \cup {Len(b)}
<1>1. T \subseteq Nat /\ T # {} /\ \A x \in T : x <= Len(b)
  <2>1. Len(b) \in Nat
    BY LenProperties
  <2> QED BY <2>1
<1>2. Min(T) \in T
  <2> HIDE DEF T
  <2> QED BY <1>1, MinOfNats
<1>3. PICK m \in Nat : m = Min(T) /\ m <= Len(b)
  <2> HIDE DEF T
  <2> QED BY <1>1, <1>2
<1>4. F!PulseWords(b, i) = SubSeq(b, i + 1, m)
  BY <1>3 DEF F!PulseWords, F!Min, Min
<1>5. SubSeq(b, i + 1, m) \in Seq(Word) /\ Len(SubSeq(b, i + 1, m)) \in Nat
  <2>1. m <= Len(b)
    BY <1>3
  <2> HIDE DEF T
  <2> QED BY <2>1
<1> QED BY <1>4, <1>5

\* There is such a function.
LEMMA GathersExist ==
  ASSUME electronics \in Electronics, NEW b \in Seq(Word)
  PROVE  \E f : Gathers(b, f)
<1> DEFINE stop == {i \in Nat : i >= Len(b) \/ b[i + 1] \in EndOfEvent}
           step(i) == LET next == i + SkipOf(b[i + 1])
                      IN IF b[i + 1] \in HitIndex
                           THEN next + Len(F!PulseWords(b, next)) ELSE next
           nxt == [i \in Nat |-> step(i)]
<1>1. Upward(Len(b), stop, nxt)
  <2>1. ASSUME NEW i \in Nat, i \notin stop PROVE step(i) \in Nat /\ step(i) > i
    <3>1. i + 1 \in 1..Len(b)
      BY <2>1
    <3>2. b[i + 1] \in Word
      BY <3>1
    <3>3. SkipOf(b[i + 1]) \in Nat /\ SkipOf(b[i + 1]) >= 1
      BY <3>2, WordFacts
    <3>4. PICK n \in Nat : n = i + SkipOf(b[i + 1]) /\ n > i
      BY <3>3
    <3>5. Len(F!PulseWords(b, n)) \in Nat
      BY PulseWordsType
    <3> QED BY <3>4, <3>5
  <2>2. \A i \in Nat : i >= Len(b) => i \in stop
    OBVIOUS
  <2>3. \A i \in Nat : nxt[i] = step(i)
    OBVIOUS
  <2> HIDE DEF stop, nxt, step
  <2> QED BY <2>1, <2>2, <2>3 DEF Upward
<1>2. Len(b) \in Nat
  BY LenProperties
<1>3. PICK f : f = [i \in Nat |-> IF i \in stop THEN {} ELSE {i} \cup f[nxt[i]]]
  <2> HIDE DEF stop, nxt
  <2> QED BY <1>1, <1>2, GatherExists, SMTT(30)
<1>4. \A i \in Nat : (i \in stop <=> i >= Len(b) \/ b[i + 1] \in EndOfEvent)
                     /\ nxt[i] = step(i)
  OBVIOUS
<1>5. f = [i \in Nat |-> IF i >= Len(b) \/ b[i + 1] \in EndOfEvent THEN {}
                         ELSE {i} \cup f[step(i)]]
  <2> HIDE DEF stop, nxt, step
  <2> QED BY <1>3, <1>4
<1>6. Gathers(b, f)
  BY <1>5 DEF Gathers
<1> QED BY <1>6

\* The loop is such a function, in frames and over the packets of the DCC.
LEMMA HeadersGather ==
  ASSUME electronics \in Electronics, NEW b \in Seq(Word)
  PROVE  \E f : Gathers(b, f) /\ F!Headers(b) = f[0]
<1>1. PICK f : f = CHOOSE g : Gathers(b, g)
  OBVIOUS
<1>2. Gathers(b, f)
  BY <1>1, GathersExist
<1>3. F!Headers(b) = f[0]
  BY <1>1 DEF Gathers, F!Headers, F!At
<1> QED BY <1>2, <1>3

\* A header u of s words at o in b, with words of a pulse up to m.
Heading(b, u, o, s, m) ==
  /\ b \in Seq(Word) /\ u \in Seq(Word)
  /\ o \in Int /\ 0 <= o /\ s \in Int /\ 1 <= s /\ s <= Len(u)
  /\ m \in Int /\ m = o + Len(u) /\ m < Len(b)
  /\ \A i \in 1..Len(u) : b[o + i] = u[i]
  /\ \A i \in s + 1..Len(u) : u[i] \in Data
  /\ b[m + 1] \notin Data /\ Data = AdcSample \cup TimeBin

\* The elements of a part of a sequence.
LEMMA PartOf ==
  ASSUME NEW S, NEW b \in Seq(S), NEW n \in Nat, NEW m \in Int, n <= m, m <= Len(b),
         NEW x, x = SubSeq(b, n + 1, m)
  PROVE  x \in Seq(S) /\ Len(x) = m - n /\ \A i \in 1..m - n : x[i] = b[n + i]
OBVIOUS

\* The words of a pulse end where the next unit starts.
LEMMA PulseEnd ==
  ASSUME NEW b, NEW u, NEW o, NEW s, NEW m, Heading(b, u, o, s, m)
  PROVE  /\ F!PulseWords(b, o + s) = SubSeq(u, s + 1, Len(u))
         /\ (o + s) + Len(F!PulseWords(b, o + s)) = m
<1>1. /\ o \in Int /\ 0 <= o /\ s \in Int /\ 1 <= s /\ s <= Len(u) /\ Len(u) \in Int
      /\ m \in Int /\ m = o + Len(u) /\ m < Len(b) /\ Len(b) \in Int /\ Len(b) \in Nat
  BY LenProperties DEF Heading
<1>2. /\ b \in Seq(Word) /\ u \in Seq(Word)
      /\ \A i \in 1..Len(u) : b[o + i] = u[i]
      /\ \A i \in s + 1..Len(u) : u[i] \in Data
      /\ b[m + 1] \notin Data /\ Data = AdcSample \cup TimeBin
  BY DEF Heading
<1>3. PICK n \in Nat : n = o + s
  BY <1>1, <1>2
<1> DEFINE T == {j \in n..Len(b) - 1 : F!At(b, j) \notin AdcSample /\ F!At(b, j) \notin TimeBin}
                  \cup {Len(b)}
<1>4. T \subseteq Nat /\ T # {} /\ m \in T /\ \A j \in T : j >= m
  <2>1. Len(b) \in Nat /\ m \in n..Len(b) - 1
    BY <1>1, <1>2, <1>3
  <2>2. m \in T
    BY <1>2, <2>1 DEF F!At
  <2>3. ASSUME NEW j \in n..Len(b) - 1, j < m PROVE b[j + 1] \in Data
    <3>1. PICK i : i = j + 1 - o
      OBVIOUS
    <3>2. i \in s + 1..Len(u) /\ i \in 1..Len(u) /\ o + i = j + 1
      BY <1>1, <1>3, <2>3, <3>1
    <3> QED BY <1>2, <3>2
  <2>4. \A j \in n..Len(b) - 1 : b[j + 1] \notin Data => j >= m
    BY <1>2, <2>1, <2>3
  <2>5. \A j \in T : j >= m
    BY <1>2, <2>1, <2>4 DEF F!At
  <2>6. T \subseteq Nat /\ T # {}
    BY <2>1
  <2> QED BY <2>2, <2>5, <2>6
<1>5. Min(T) = m
  <2>1. PICK x : x = Min(T)
    OBVIOUS
  <2>2. x \in T /\ \A y \in T : x <= y
    <3> HIDE DEF T
    <3> QED BY <1>4, <2>1, MinOfNats
  <2>3. x \in Nat /\ x >= m /\ x <= m
    <3>1. x \in Nat /\ m \in Nat /\ m \in T /\ x \in T
      <4> HIDE DEF T
      <4> QED BY <1>4, <2>2
    <3>2. x >= m /\ x <= m
      <4> HIDE DEF T
      <4> QED BY <1>4, <2>2, <3>1
    <3> QED BY <3>1, <3>2
  <2> QED BY <1>1, <2>1, <2>3
<1>6. F!PulseWords(b, n) = SubSeq(b, n + 1, m)
  BY <1>5 DEF F!PulseWords, F!Min, Min
<1> HIDE DEF T
<1>7. PICK x, y : x = SubSeq(b, n + 1, m) /\ y = SubSeq(u, s + 1, Len(u))
  OBVIOUS
<1>8. /\ x \in Seq(Word) /\ Len(x) = m - n /\ \A i \in 1..m - n : x[i] = b[n + i]
      /\ y \in Seq(Word) /\ Len(y) = Len(u) - s /\ \A i \in 1..Len(u) - s : y[i] = u[s + i]
  <2>1. n <= m /\ m <= Len(b) /\ Len(b) \in Nat
    BY <1>1, <1>3
  <2>2. x \in Seq(Word) /\ Len(x) = m - n /\ \A i \in 1..m - n : x[i] = b[n + i]
    <3>1. m \in Int
      BY <1>1
    <3> QED BY <1>2, <1>7, <2>1, <3>1, PartOf
  <2>3. y \in Seq(Word) /\ Len(y) = Len(u) - s /\ \A i \in 1..Len(u) - s : y[i] = u[s + i]
    <3>1. s \in Nat /\ Len(u) \in Int /\ Len(u) <= Len(u)
      BY <1>1
    <3> QED BY <1>1, <1>2, <1>7, <3>1, PartOf
  <2> QED BY <2>2, <2>3
<1>9. m - n = Len(u) - s /\ m - n \in Nat /\ n + (m - n) = m
  BY <1>1, <1>3
<1>10. \A i \in 1..m - n : x[i] = y[i]
  <2>1. ASSUME NEW i \in 1..m - n PROVE x[i] = y[i]
    <3>1. s + i \in 1..Len(u) /\ n + i = o + (s + i)
      BY <1>1, <1>3, <1>9
    <3>2. b[n + i] = u[s + i]
      BY <1>2, <3>1
    <3> QED BY <1>8, <1>9, <3>2
  <2> QED BY <2>1
<1>11. x = y
  BY <1>8, <1>9, <1>10, SMTT(30)
<1> QED BY <1>2, <1>3, <1>6, <1>7, <1>8, <1>9, <1>11

\* The k-th unit u is at o in the words b; its first word is one of s.
UnitAt(us, k, b, u, o, s) ==
  /\ us \in Seq(Unit) /\ k \in 1..Len(us) - 1 /\ b = FlattenSeq(us)
  /\ u = us[k] /\ o = Off(us, k - 1) /\ s = SkipOf(u[1])

\* Where its words are, and what of it is a pulse.
UnitWordsAt(us, k, b, u, o, s) ==
  /\ o \in Nat /\ s \in Nat /\ s >= 1 /\ s <= Len(u) /\ o + Len(u) < Len(b)
  /\ Off(us, k) = o + Len(u) /\ \A i \in 1..Len(u) : b[o + i] = u[i]
  /\ u[1] \notin HitIndex => o + s = Off(us, k)
  /\ u[1] \in HitIndex => /\ F!PulseWords(b, o + s) = SubSeq(u, s + 1, Len(u))
                          /\ (o + s) + Len(F!PulseWords(b, o + s)) = Off(us, k)

\* The loop goes from a unit to the next one.
LEMMA UnitNext ==
  ASSUME electronics \in Electronics, NEW us, NEW k, NEW b, NEW u, NEW o, NEW s,
         UnitAt(us, k, b, u, o, s)
  PROVE  UnitWordsAt(us, k, b, u, o, s)
<1>0. /\ us \in Seq(Unit) /\ k \in 1..Len(us) - 1 /\ b = FlattenSeq(us)
      /\ u = us[k] /\ o = Off(us, k - 1) /\ s = SkipOf(u[1])
  BY DEF UnitAt
<1>1. /\ us \in Seq(Seq(Word)) /\ Len(us) \in Nat /\ k \in 1..Len(us)
      /\ k + 1 \in 1..Len(us) /\ (k + 1) - 1 = k
  <2>1. us \in Seq(Seq(Word)) /\ Len(us) \in Nat
    BY <1>0, UnitWords
  <2> QED BY <1>0, <2>1
<1>2. /\ u \in Unit /\ u \in Seq(Word) /\ u # <<>>
      /\ us[k + 1] \in Unit /\ us[k + 1] \in Seq(Word) /\ us[k + 1] # <<>>
  BY <1>0, <1>1, UnitWords
<1>3. /\ b \in Seq(Word) /\ o \in Nat /\ Off(us, k) = o + Len(u)
      /\ \A i \in 1..Len(u) : b[o + i] = u[i]
  BY <1>0, <1>1, Place, SMTT(30)
<1>4. PICK v : v = us[k + 1]
  OBVIOUS
<1>5. /\ Off(us, k) \in Nat /\ Off(us, k) + Len(v) <= Len(b)
      /\ \A i \in 1..Len(v) : b[Off(us, k) + i] = v[i]
  <2>1. /\ Off(us, (k + 1) - 1) \in Nat
        /\ Off(us, k + 1) = Off(us, (k + 1) - 1) + Len(us[k + 1])
        /\ Off(us, k + 1) <= Len(FlattenSeq(us))
        /\ \A i \in 1..Len(us[k + 1]) :
             FlattenSeq(us)[Off(us, (k + 1) - 1) + i] = us[k + 1][i]
    BY <1>0, <1>1, Place
  <2> QED BY <1>0, <1>1, <1>4, <2>1
<1>6. /\ Len(u) \in Nat /\ Len(u) >= 1 /\ Len(v) \in Nat /\ Len(v) >= 1
      /\ 1 \in 1..Len(u) /\ 1 \in 1..Len(v) /\ u[1] \in Word /\ v[1] \in Word
  BY <1>0, <1>2, <1>4
<1>7. PICK m \in Nat : m = Off(us, k) /\ m = o + Len(u) /\ m < Len(b) /\ b[m + 1] \notin Data
  <2>1. v[1] \notin Data
    BY <1>0, <1>2, <1>4 DEF Unit
  <2>2. b[Off(us, k) + 1] = v[1]
    BY <1>0, <1>5, <1>6
  <2>3. Off(us, k) < Len(b)
    <3>1. Len(b) \in Nat
      BY <1>0, <1>3, LenProperties
    <3> QED BY <1>0, <1>5, <1>6, <3>1
  <2> QED BY <1>0, <1>3, <1>5, <2>1, <2>2, <2>3
<1>8. s \in Nat /\ s >= 1 /\ s <= Len(u)
  BY <1>0, <1>2, <1>6, WordFacts, SMTT(30) DEF Unit, Simple, Headed
<1>11. /\ o \in Int /\ 0 <= o /\ s \in Int /\ 1 <= s /\ s <= Len(u) /\ Len(u) \in Int
       /\ m \in Int /\ m = o + Len(u) /\ m < Len(b) /\ Len(b) \in Int
  <2>1. Len(b) \in Nat
    BY <1>0, <1>3, LenProperties
  <2> QED BY <1>0, <1>3, <1>6, <1>7, <1>8, <2>1
<1>9. u[1] \notin HitIndex => s = Len(u)
  BY <1>0, <1>2 DEF Unit, Simple, Headed
<1>10. ASSUME u[1] \in HitIndex
       PROVE  /\ F!PulseWords(b, o + s) = SubSeq(u, s + 1, Len(u))
              /\ (o + s) + Len(F!PulseWords(b, o + s)) = Off(us, k)
  <2>1. /\ \A i \in s + 1..Len(u) : u[i] \in Data
        /\ Data = AdcSample \cup TimeBin
    <3>1. \A i \in s + 1..Len(u) : u[i] \in Data
      BY <1>0, <1>2, <1>10 DEF Unit, Simple, Headed
    <3>2. Data = AdcSample \cup TimeBin
      <4>1. electronics = "ARC" \/ electronics = "FEMINOS"
        BY <1>0, <1>10, ElectronicsOf DEF HitIndex, Of
      <4> QED BY <4>1 DEF Data, Of
    <3> QED BY <3>1, <3>2
  <2>2. Heading(b, u, o, s, m)
    BY <1>0, <1>2, <1>3, <1>7, <1>11, <2>1 DEF Heading
  <2> QED BY <1>0, <1>7, <2>2, PulseEnd
<1> QED BY <1>3, <1>7, <1>8, <1>9, <1>10 DEF UnitWordsAt

\* The units of an event, of which the last one is the end.
Closed(us) ==
  /\ us \in Seq(Unit) /\ Len(us) \in Nat /\ Len(us) >= 1
  /\ \A k \in 1..Len(us) : Ends(us[k]) <=> k = Len(us)

\* One step of the loop.
LEMMA GatherUnit ==
  ASSUME electronics \in Electronics, NEW us, Closed(us), NEW k \in 1..Len(us) - 1,
         NEW f, Gathers(FlattenSeq(us), f)
  PROVE  /\ f[Off(us, k - 1)] = {Off(us, k - 1)} \cup f[Off(us, k)]
         /\ Off(us, k - 1) \in Nat
         /\ FlattenSeq(us)[Off(us, k - 1) + 1] = us[k][1]
<1>1. PICK b, u, o, s : b = FlattenSeq(us) /\ u = us[k] /\ o = Off(us, k - 1) /\ s = SkipOf(u[1])
  OBVIOUS
<1>2. /\ o \in Nat /\ s \in Nat /\ s >= 1 /\ s <= Len(u) /\ o + Len(u) < Len(b)
      /\ Off(us, k) = o + Len(u) /\ \A i \in 1..Len(u) : b[o + i] = u[i]
      /\ u[1] \notin HitIndex => o + s = Off(us, k)
      /\ u[1] \in HitIndex => (o + s) + Len(F!PulseWords(b, o + s)) = Off(us, k)
  <2>1. UnitAt(us, k, b, u, o, s)
    BY <1>1 DEF UnitAt, Closed
  <2> QED BY <2>1, UnitNext DEF UnitWordsAt
<1>3. us \in Seq(Seq(Word)) /\ u \in Seq(Word) /\ k \in 1..Len(us) /\ k # Len(us)
  <2>1. us \in Seq(Unit) /\ Len(us) \in Nat /\ k \in 1..Len(us) /\ k # Len(us)
    BY DEF Closed
  <2> QED BY <1>1, <2>1, UnitWords
<1>4. b \in Seq(Word) /\ Len(b) \in Nat /\ Len(u) \in Nat
  BY <1>1, <1>3, Ranges, LenProperties
<1>5. b[o + 1] = u[1] /\ ~(o >= Len(b))
  <2>1. 1 \in 1..Len(u)
    BY <1>2, <1>4
  <2>2. ~(o >= Len(b))
    BY <1>2, <1>4
  <2> QED BY <1>2, <2>1, <2>2
<1>6. u[1] \notin EndOfEvent
  BY <1>1, <1>3, SMTT(30) DEF Closed, Ends
<1>7. f[o] = IF o >= Len(b) \/ b[o + 1] \in EndOfEvent THEN {}
             ELSE LET next == o + SkipOf(b[o + 1])
                  IN {o} \cup f[IF b[o + 1] \in HitIndex
                                  THEN next + Len(F!PulseWords(b, next)) ELSE next]
  BY <1>1, <1>2 DEF Gathers
<1>8. f[o] = {o} \cup f[Off(us, k)]
  BY <1>1, <1>2, <1>5, <1>6, <1>7
<1> QED BY <1>1, <1>2, <1>5, <1>8

\* The loop looks at each unit but the end.
LEMMA GatherUnits ==
  ASSUME electronics \in Electronics, NEW us, Closed(us), NEW f, Gathers(FlattenSeq(us), f)
  PROVE  f[0] = {Off(us, k - 1) : k \in 1..Len(us) - 1}
<1>1. us \in Seq(Unit) /\ Len(us) \in Nat /\ us \in Seq(Seq(Word))
  BY UnitWords DEF Closed
<1>2. PICK n \in Nat : n = Len(us) /\ n >= 1 /\ n \in 1..Len(us)
  BY DEF Closed
<1>3. FlattenSeq(us) \in Seq(Word) /\ Off(us, 0) = 0
  BY <1>1, Ranges
<1>4. Gathers(FlattenSeq(us), f)
  OBVIOUS
<1> DEFINE Part(j) == {Off(us, k - 1) : k \in n - j..n - 1}
           B == {j \in 0..n - 1 : f[Off(us, n - 1 - j)] = Part(j)}
<1>5. 0 \in B
  <2>1. PICK b, u, o : b = FlattenSeq(us) /\ u = us[n] /\ o = Off(us, n - 1)
    OBVIOUS
  <2>2. u \in Unit /\ u \in Seq(Word) /\ u # <<>>
    BY <1>1, <1>2, <2>1, UnitWords
  <2>3. o \in Nat /\ \A k \in 1..Len(u) : b[o + k] = u[k]
    <3>1. /\ Off(us, n - 1) \in Nat
          /\ \A k \in 1..Len(us[n]) : FlattenSeq(us)[Off(us, n - 1) + k] = us[n][k]
      BY <1>1, <1>2, Place, SMTT(30)
    <3> QED BY <2>1, <3>1
  <2>4. b[o + 1] = u[1]
    <3>1. 1 \in 1..Len(u)
      BY <2>2
    <3> QED BY <2>3, <3>1
  <2>5. u[1] \in EndOfEvent
    BY <1>2, <2>1 DEF Closed, Ends
  <2>6. f[o] = {}
    <3>1. f[o] = IF o >= Len(b) \/ b[o + 1] \in EndOfEvent THEN {}
                 ELSE LET next == o + SkipOf(b[o + 1])
                      IN {o} \cup f[IF b[o + 1] \in HitIndex
                                      THEN next + Len(F!PulseWords(b, next)) ELSE next]
      <4>1. Gathers(b, f) /\ o \in Nat
        BY <1>4, <2>1, <2>3
      <4> QED BY <4>1 DEF Gathers
    <3> QED BY <2>4, <2>5, <3>1
  <2>7. Part(0) = {} /\ n - 1 - 0 = n - 1 /\ 0 \in 0..n - 1
    <3>1. n - 0..n - 1 = {} /\ n - 1 - 0 = n - 1 /\ 0 \in 0..n - 1
      BY <1>2
    <3> QED BY <3>1
  <2> QED BY <2>1, <2>6, <2>7
<1>6. ASSUME NEW j \in 0..n - 1 - 1, j \in B PROVE j + 1 \in B
  <2>1. PICK k : k = n - 1 - j
    OBVIOUS
  <2>2. /\ k \in 1..Len(us) - 1 /\ k - 1 = n - 1 - (j + 1) /\ j + 1 \in 0..n - 1
        /\ n - (j + 1)..n - 1 = {k} \cup (n - j..n - 1) /\ n - 1 - j = k
    BY <1>2, <2>1
  <2>3. f[Off(us, k - 1)] = {Off(us, k - 1)} \cup f[Off(us, k)]
    BY <1>4, <2>2, GatherUnit
  <2>4. f[Off(us, k)] = Part(j)
    BY <1>6, <2>2
  <2>5. Part(j + 1) = {Off(us, k - 1)} \cup Part(j)
    BY <2>2
  <2> HIDE DEF Part
  <2> QED BY <2>2, <2>3, <2>4, <2>5
<1>7. n - 1 \in B
  <2>1. B \in SUBSET (0..n - 1) /\ n - 1 \in Nat
    BY <1>2
  <2> HIDE DEF B
  <2> QED BY <1>5, <1>6, <2>1, UpTo
<1>8. Part(n - 1) = {Off(us, k - 1) : k \in 1..n - 1} /\ n - 1 - (n - 1) = 0
  <2>1. n - (n - 1) = 1 /\ n - 1 - (n - 1) = 0
    BY <1>2
  <2> QED BY <2>1
<1>9. f[0] = Part(n - 1)
  <2>1. f[Off(us, n - 1 - (n - 1))] = Part(n - 1)
    BY <1>7
  <2> HIDE DEF Part
  <2> QED BY <1>3, <1>8, <2>1
<1> HIDE DEF Part
<1> QED BY <1>2, <1>8, <1>9

\* In frames the indices of these are the headers, for the DCC the packets.
LEMMA HeadersUnits ==
  ASSUME electronics \in Electronics, NEW us, Closed(us)
  PROVE  F!Headers(FlattenSeq(us)) = {Off(us, k - 1) : k \in 1..Len(us) - 1}
<1>1. FlattenSeq(us) \in Seq(Word)
  BY UnitWords, Ranges DEF Closed
<1>2. PICK f : Gathers(FlattenSeq(us), f) /\ F!Headers(FlattenSeq(us)) = f[0]
  BY <1>1, HeadersGather
<1> QED BY <1>2, GatherUnits

\* The packets of an event start where its units do.
LEMMA PacketsUnits ==
  ASSUME electronics \in Electronics, electronics # "ARC", electronics # "FEMINOS",
         NEW us, Closed(us)
  PROVE  DCC!Packets(FlattenSeq(us)) = {Off(us, k - 1) : k \in 1..Len(us) - 1}
<1>1. FlattenSeq(us) \in Seq(Word)
  BY UnitWords, Ranges DEF Closed
<1>2. PICK b : b = FlattenSeq(us)
  OBVIOUS
<1>3. PICK f : f = CHOOSE g : Gathers(b, g)
  OBVIOUS
<1>4. Gathers(b, f)
  BY <1>1, <1>2, <1>3, GathersExist
<1>5. /\ \A w : SkipOf(w) = DCC!Skip(w)
      /\ EndOfEvent = DCC!EndOfEvent /\ HitIndex = {}
  BY DEF SkipOf, EndOfEvent, HitIndex, Of
<1>6. DCC!Packets(b) = f[0]
  <2> HIDE DEF EndOfEvent, HitIndex, SkipOf
  <2> QED BY <1>3, <1>5 DEF Gathers, DCC!Packets, DCC!At
<1> QED BY <1>2, <1>4, <1>6, GatherUnits

(***************************************************************************)
(* What is read of the units of an event.                                  *)
(***************************************************************************)
\* The hits of an event that are stored.
RealHits(e) == {h \in Range(e.hits) : Real(h)}

\* The indices I of packets with channels ch and signals pv are those of hits.
Agrees(I, ch, pv, hits) ==
  /\ \A i \in I : \E h \in hits : ch[i] = Number(h) /\ pv[i] = Values(h.pulse)
  /\ \A h \in hits : \E i \in I : ch[i] = Number(h)
  /\ \A g, h \in hits : Number(g) = Number(h) => g = h

\* Then the first pulse of each channel is what the event means.
LEMMA SignalsAre ==
  ASSUME NEW I, I \subseteq Nat, NEW ch, NEW pv, NEW e, Agrees(I, ch, pv, RealHits(e))
  PROVE  [c \in {ch[i] : i \in I} |-> pv[Min({i \in I : ch[i] = c})]] = Meaning(e).signals
<1>1. PICK real : real = RealHits(e)
  OBVIOUS
<1> DEFINE hit(c) == CHOOSE h \in real : Number(h) = c
<1>2. Meaning(e).signals = [c \in {Number(h) : h \in real} |-> Values(hit(c).pulse)]
  BY <1>1 DEF Meaning, RealHits
<1>3. {ch[i] : i \in I} = {Number(h) : h \in real}
  <2>1. \A i \in I : ch[i] \in {Number(h) : h \in real}
    BY <1>1 DEF Agrees
  <2>2. \A h \in real : Number(h) \in {ch[i] : i \in I}
    BY <1>1 DEF Agrees
  <2> QED BY <2>1, <2>2
<1>4. ASSUME NEW c \in {ch[i] : i \in I}
      PROVE  pv[Min({i \in I : ch[i] = c})] = Values(hit(c).pulse)
  <2> DEFINE T == {i \in I : ch[i] = c}
  <2>1. T \subseteq Nat /\ T # {}
    OBVIOUS
  <2>2. Min(T) \in T
    <3> HIDE DEF T
    <3> QED BY <2>1, MinOfNats
  <2>3. PICK i \in I : i = Min(T) /\ ch[i] = c
    BY <2>2
  <2>4. PICK h \in real : ch[i] = Number(h) /\ pv[i] = Values(h.pulse)
    BY <1>1 DEF Agrees
  <2>5. hit(c) \in real /\ Number(hit(c)) = c
    BY <2>3, <2>4
  <2>6. hit(c) = h
    BY <1>1, <2>3, <2>4, <2>5 DEF Agrees
  <2> QED BY <2>3, <2>4, <2>6
<1> HIDE DEF hit
<1> QED BY <1>2, <1>3, <1>4

\* The numbers of channels of a chip are next to each other.
LEMMA ChipNumbers ==
  ASSUME NEW c \in Int, NEW n \in Int, NEW d \in Int, NEW m \in Int,
         0 <= c, c <= 71, 0 <= d, d <= 71, c + 72 * n = d + 72 * m
  PROVE  c = d /\ n = m
OBVIOUS

\* A record names one hit.
LEMMA NumberUnique ==
  ASSUME electronics = "ARC" \/ electronics = "FEMINOS",
         NEW g, NEW h, IsHit(electronics, g), IsHit(electronics, h), Number(g) = Number(h)
  PROVE  <<g.card, g.chip, g.chan>> = <<h.card, h.chip, h.chan>>
<1>0. electronics \in Electronics
  BY DEF Electronics
<1>1. CASE electronics = "ARC"
  <2>1. HitBounds(g, 7, 15, 0, 71) /\ HitBounds(h, 7, 15, 0, 71)
    BY <1>0, <1>1, HitRanges
  <2>2. g.chan + 72 * (g.chip + 16 * g.card) = h.chan + 72 * (h.chip + 16 * h.card)
    BY <1>1 DEF Number
  <2>3. PICK c1, a1, f1, c2, a2, f2 :
          /\ c1 = g.chan /\ a1 = g.chip /\ f1 = g.card
          /\ c2 = h.chan /\ a2 = h.chip /\ f2 = h.card
    OBVIOUS
  <2>4. /\ c1 \in Int /\ 0 <= c1 /\ c1 <= 71 /\ a1 \in Int /\ 0 <= a1 /\ a1 <= 15 /\ f1 \in Int
        /\ c2 \in Int /\ 0 <= c2 /\ c2 <= 71 /\ a2 \in Int /\ 0 <= a2 /\ a2 <= 15 /\ f2 \in Int
    BY <2>1, <2>3 DEF HitBounds
  <2>5. c1 + 72 * (a1 + 16 * f1) = c2 + 72 * (a2 + 16 * f2)
    BY <2>2, <2>3
  <2>6. c1 = c2 /\ a1 + 16 * f1 = a2 + 16 * f2
    BY <2>4, <2>5
  <2>7. a1 = a2 /\ f1 = f2
    BY <2>4, <2>6
  <2> QED BY <2>3, <2>6, <2>7
<1>2. CASE electronics = "FEMINOS" /\ electronics # "ARC"
  <2>1. HitBounds(g, 31, 3, 0, 71) /\ HitBounds(h, 31, 3, 0, 71)
    BY <1>0, <1>2, HitRanges
  <2>2. g.chan + 72 * (g.chip + 4 * g.card) = h.chan + 72 * (h.chip + 4 * h.card)
    BY <1>2 DEF Number
  <2>3. PICK c1, a1, f1, c2, a2, f2 :
          /\ c1 = g.chan /\ a1 = g.chip /\ f1 = g.card
          /\ c2 = h.chan /\ a2 = h.chip /\ f2 = h.card
    OBVIOUS
  <2>4. /\ c1 \in Int /\ 0 <= c1 /\ c1 <= 71 /\ a1 \in Int /\ 0 <= a1 /\ a1 <= 3 /\ f1 \in Int
        /\ c2 \in Int /\ 0 <= c2 /\ c2 <= 71 /\ a2 \in Int /\ 0 <= a2 /\ a2 <= 3 /\ f2 \in Int
    BY <2>1, <2>3 DEF HitBounds
  <2>5. c1 + 72 * (a1 + 4 * f1) = c2 + 72 * (a2 + 4 * f2)
    BY <2>2, <2>3
  <2>6. c1 = c2 /\ a1 + 4 * f1 = a2 + 4 * f2
    BY <2>4, <2>5
  <2>7. a1 = a2 /\ f1 = f2
    BY <2>4, <2>6
  <2> QED BY <2>3, <2>6, <2>7
<1> QED BY <1>1, <1>2

\* Samples are in the bins of a pulse: all of them are taken.
LEMMA FramedPulse ==
  ASSUME electronics \in Electronics, NEW pulse, IsPulse(pulse),
         NEW words, words = PulseRecord(pulse, BinCode, SampleCode)
  PROVE  F!Pulse(words) = Values(pulse)
<1>1. words \in Seq(Word)
  BY PulseSeq
<1>2. PICK g : g = F!timeBin(words)
  OBVIOUS
<1>3. PulseRead(pulse, words, g)
  BY <1>1, <1>2, BinsExist, PulseBins
<1>4. PICK P : P = {k \in DOMAIN words : words[k] \in AdcSample}
  OBVIOUS
<1>5. \A k \in DOMAIN words : g[k] < 512
  <2>1. \A k \in 1..Len(words) : g[k] \in BinNo
    BY <1>3 DEF PulseRead
  <2>2. DOMAIN words = 1..Len(words)
    BY <1>1
  <2> QED BY <2>1, <2>2, Numbers
<1>6. P = {k \in DOMAIN words : words[k] \in AdcSample /\ g[k] < 512}
  BY <1>4, <1>5
<1>7. F!Pulse(words) = F!sData(words, P)
  BY <1>2, <1>6 DEF F!Pulse
<1> QED BY <1>4, <1>7, PulseValues

\* What is read of the unit of a hit.
LEMMA HitRead ==
  ASSUME electronics = "ARC" \/ electronics = "FEMINOS", NEW us, Closed(us),
         NEW k \in 1..Len(us) - 1, NEW h, IsHit(electronics, h), HitUnit(us[k], h),
         NEW b, b = FlattenSeq(us), NEW o, o = Off(us, k - 1)
  PROVE  /\ F!physChannel(F!At(b, (o + SkipOf(F!At(b, o))) - 1)) = Number(h)
         /\ F!Pulse(F!PulseWords(b, o + SkipOf(F!At(b, o)))) = Values(h.pulse)
<1>0. electronics \in Electronics
  BY DEF Electronics
<1>1. PICK u, s : u = us[k] /\ s = SkipOf(u[1])
  OBVIOUS
<1>2. u[1] \in HitIndex
  BY <1>1 DEF HitUnit
<1>3. /\ o \in Nat /\ s \in Nat /\ s >= 1 /\ s <= Len(u)
      /\ \A i \in 1..Len(u) : b[o + i] = u[i]
      /\ F!PulseWords(b, o + s) = SubSeq(u, s + 1, Len(u))
  <2>1. UnitAt(us, k, b, u, o, s)
    BY <1>1 DEF UnitAt, Closed
  <2>2. UnitWordsAt(us, k, b, u, o, s)
    BY <1>0, <2>1, UnitNext
  <2> QED BY <1>2, <2>2 DEF UnitWordsAt
<1>4. PICK x, w : x = Header(h) /\ w = PulseRecord(h.pulse, BinCode, SampleCode)
  OBVIOUS
<1>5. /\ u = x \o w /\ x \in Seq(Word) /\ Len(x) >= 1 /\ s = Len(x)
      /\ F!physChannel(x[Len(x)]) = Number(h)
  BY <1>1, <1>4 DEF HitUnit
<1>6. w \in Seq(Word) /\ IsPulse(h.pulse)
  BY <1>0, <1>4, HitRanges, PulseSeq
<1>7. SubSeq(u, Len(x) + 1, Len(u)) = w
  BY <1>5, <1>6
<1>8. Glued(u, x, w) /\ Len(u) \in Nat
  BY <1>5, <1>6, Joined DEF Glued
<1>9. s \in 1..Len(u) /\ 1 \in 1..Len(u) /\ s \in 1..Len(x)
  BY <1>3, <1>5, <1>8
<1>10. F!At(b, o) = u[1]
  BY <1>3, <1>9 DEF F!At
<1>11. F!At(b, (o + s) - 1) = x[s]
  <2>1. b[o + s] = u[s] /\ u[s] = x[s]
    BY <1>3, <1>8, <1>9 DEF Glued
  <2>2. ((o + s) - 1) + 1 = o + s
    BY <1>3
  <2> QED BY <2>1, <2>2 DEF F!At
<1>12. F!Pulse(w) = Values(h.pulse)
  BY <1>0, <1>4, <1>6, FramedPulse
<1> QED BY <1>1, <1>3, <1>5, <1>7, <1>10, <1>11, <1>12

\* The units of an event are its records r, and framing words among them.
Made(us, r) ==
  /\ \A k \in 1..Len(us) : us[k] \in Framing \/ \E i \in 1..Len(r) : us[k] = r[i]
  /\ \A i \in 1..Len(r) : \E k \in 1..Len(us) : us[k] = r[i]

\* They are the start of the event, its hits, and others.
LEMMA MadeCovers ==
  ASSUME electronics \in Electronics, NEW us, NEW r, NEW e, Made(us, r), Covers(r, e)
  PROVE  Covers(us, e)
<1>1. ASSUME NEW k \in 1..Len(us)
      PROVE  \/ StartUnit(us[k], e) \/ OtherUnit(us[k])
             \/ \E i \in 1..Len(e.hits) : HitUnit(us[k], e.hits[i])
  <2>1. CASE us[k] \in Framing
    BY <2>1, FramingUnits
  <2>2. CASE \E i \in 1..Len(r) : us[k] = r[i]
    BY <2>2 DEF Covers
  <2> QED BY <2>1, <2>2 DEF Made
<1>2. \E k \in 1..Len(us) : StartUnit(us[k], e)
  <2>1. PICK i \in 1..Len(r) : StartUnit(r[i], e)
    BY DEF Covers
  <2>2. PICK k \in 1..Len(us) : us[k] = r[i]
    BY DEF Made
  <2> QED BY <2>1, <2>2
<1>3. ASSUME NEW i \in 1..Len(e.hits) PROVE \E k \in 1..Len(us) : HitUnit(us[k], e.hits[i])
  <2>1. PICK j \in 1..Len(r) : HitUnit(r[j], e.hits[i])
    BY DEF Covers
  <2>2. PICK k \in 1..Len(us) : us[k] = r[j]
    BY DEF Made
  <2> QED BY <2>1, <2>2
<1> QED BY <1>1, <1>2, <1>3 DEF Covers

\* What the parser returns of the words of an event in frames is what the
\* event means.
LEMMA FramedParse ==
  ASSUME electronics = "ARC" \/ electronics = "FEMINOS", NEW e, IsEvent(e),
         NEW us, Closed(us), Covers(us, e), NEW t, NEW c
  PROVE  F!ParseEventFromWords(FlattenSeq(us), t, c) = Meaning(e)
<1>0. electronics \in Electronics
  BY DEF Electronics
<1>1. PICK b, n : b = FlattenSeq(us) /\ n = Len(us)
  OBVIOUS
<1>2. /\ us \in Seq(Unit) /\ us \in Seq(Seq(Word)) /\ n \in Nat /\ n >= 1
      /\ \A k \in 1..n : Ends(us[k]) <=> k = n
  BY <1>1, UnitWords DEF Closed
<1>3. b \in Seq(Word) /\ Len(b) \in Nat
  BY <1>1, <1>2, Ranges, LenProperties
<1>4. PICK H : H = F!Headers(b)
  OBVIOUS
<1> DEFINE off(k) == Off(us, k - 1)
<1>5. H = {off(k) : k \in 1..n - 1}
  BY <1>0, <1>1, <1>4, HeadersUnits
<1>6. \A k \in 1..n - 1 : /\ off(k) \in Nat /\ F!At(b, off(k)) = us[k][1] /\ off(k) < Len(b)
                          /\ Len(us[k]) \in Nat
                          /\ \A i \in 1..Len(us[k]) : b[off(k) + i] = us[k][i]
  <2>1. ASSUME NEW k \in 1..n - 1
        PROVE  /\ off(k) \in Nat /\ F!At(b, off(k)) = us[k][1] /\ off(k) < Len(b)
               /\ Len(us[k]) \in Nat
               /\ \A i \in 1..Len(us[k]) : b[off(k) + i] = us[k][i]
    <3>1. PICK u, o, s : u = us[k] /\ o = Off(us, k - 1) /\ s = SkipOf(u[1])
      OBVIOUS
    <3>2. UnitAt(us, k, b, u, o, s)
      BY <1>1, <1>2, <3>1 DEF UnitAt
    <3>3. UnitWordsAt(us, k, b, u, o, s)
      BY <1>0, <3>2, UnitNext
    <3>4. u \in Seq(Word) /\ k \in 1..Len(us)
      <4>1. k \in 1..Len(us)
        BY <1>1, <1>2
      <4> QED BY <1>2, <3>1, <4>1, UnitWords
    <3>5. Len(u) \in Nat
      BY <3>4
    <3>6. /\ o \in Nat /\ 1 <= Len(u) /\ o + Len(u) < Len(b)
          /\ \A i \in 1..Len(u) : b[o + i] = u[i]
      BY <3>3, <3>5 DEF UnitWordsAt
    <3>7. o < Len(b) /\ 1 \in 1..Len(u)
      BY <1>3, <3>5, <3>6
    <3>8. F!At(b, o) = u[1]
      BY <3>6, <3>7 DEF F!At
    <3> QED BY <3>1, <3>5, <3>6, <3>7, <3>8
  <2> QED BY <2>1
<1> DEFINE starts == {i \in H : F!At(b, i) \in StartOfEvent}
           hits == {i \in H : F!At(b, i) \in HitIndex}
           data(i) == i + SkipOf(F!At(b, i))
           channel(i) == F!physChannel(F!At(b, data(i) - 1))
           pulse(i) == F!Pulse(F!PulseWords(b, data(i)))
<1>7. \A k \in 1..n - 1 : k \in 1..Len(us) /\ k # n
  BY <1>1, <1>2
<1>8. PICK k \in 1..n - 1 : off(k) = Max(starts) /\ StartUnit(us[k], e)
  <2>1. starts \subseteq 0..Len(b)
    BY <1>3, <1>5, <1>6
  <2>2. starts # {}
    <3>1. PICK k \in 1..Len(us) : StartUnit(us[k], e)
      BY DEF Covers
    <3>2. k \in 1..n - 1
      <4>1. k # n
        BY <1>1, <1>2, <3>1 DEF StartUnit
      <4> QED BY <1>1, <1>2, <4>1
    <3>3. F!At(b, off(k)) \in StartOfEvent
      BY <1>6, <3>1, <3>2 DEF StartUnit
    <3>4. off(k) \in starts
      BY <1>5, <3>2, <3>3
    <3> QED BY <3>4
  <2>3. Max(starts) \in starts
    <3> HIDE DEF starts
    <3> QED BY <1>3, <2>1, <2>2, MaxOfNumbers
  <2>4. PICK k \in 1..n - 1 : off(k) = Max(starts)
    BY <1>5, <2>3
  <2>5. us[k][1] \in StartOfEvent
    BY <1>6, <2>3, <2>4
  <2>6. StartUnit(us[k], e)
    BY <1>7, <2>5 DEF Covers, OtherUnit, HitUnit
  <2> QED BY <2>4, <2>6
<1>9. /\ starts # {}
      /\ [j \in 1..3 |-> F!At(b, Max(starts) + 4 - j)] = e.time
      /\ <<F!At(b, Max(starts) + 5), F!At(b, Max(starts) + 4)>> = e.count
  <2>1. PICK o, u : o = off(k) /\ u = us[k]
    OBVIOUS
  <2>2. /\ o \in Nat /\ Len(u) = 6 /\ \A i \in 1..Len(u) : b[o + i] = u[i]
        /\ u[4] = e.time[1] /\ u[3] = e.time[2] /\ u[2] = e.time[3]
        /\ u[6] = e.count[1] /\ u[5] = e.count[2] /\ u[1] \in StartOfEvent
        /\ F!At(b, o) = u[1]
    BY <1>6, <1>8, <2>1 DEF StartUnit
  <2>3. /\ b[o + 2] = e.time[3] /\ b[o + 3] = e.time[2] /\ b[o + 4] = e.time[1]
        /\ b[o + 5] = e.count[2] /\ b[o + 6] = e.count[1]
    BY <2>2
  <2>4. /\ F!At(b, o + 4 - 1) = e.time[1] /\ F!At(b, o + 4 - 2) = e.time[2]
        /\ F!At(b, o + 4 - 3) = e.time[3]
        /\ F!At(b, o + 5) = e.count[1] /\ F!At(b, o + 4) = e.count[2]
    <3>1. /\ (o + 4 - 1) + 1 = o + 4 /\ (o + 4 - 2) + 1 = o + 3 /\ (o + 4 - 3) + 1 = o + 2
          /\ (o + 5) + 1 = o + 6 /\ (o + 4) + 1 = o + 5
      BY <2>2
    <3> QED BY <2>3, <3>1 DEF F!At
  <2>5. e.time \in Word \X Word \X Word /\ e.count \in Word \X Word
    BY DEF IsEvent, IsCount
  <2>6. [j \in 1..3 |-> F!At(b, o + 4 - j)] = e.time
    BY <2>4, <2>5
  <2>7. <<F!At(b, o + 5), F!At(b, o + 4)>> = e.count
    BY <2>4, <2>5
  <2>8. starts # {}
    BY <1>5, <2>1, <2>2
  <2> HIDE DEF starts
  <2> QED BY <1>8, <2>1, <2>6, <2>7, <2>8
<1>10. PICK ch, pv : ch = [i \in hits |-> channel(i)] /\ pv = [i \in hits |-> pulse(i)]
  OBVIOUS
<1>11. hits \subseteq Nat /\ \A i \in hits : ch[i] = channel(i) /\ pv[i] = pulse(i)
  BY <1>5, <1>6, <1>10
<1>12. Agrees(hits, ch, pv, RealHits(e))
  <2>1. /\ DOMAIN e.hits = 1..Len(e.hits)
        /\ \A i \in 1..Len(e.hits) : e.hits[i] \in RealHits(e) /\ IsHit(electronics, e.hits[i])
        /\ \A h \in RealHits(e) : \E i \in 1..Len(e.hits) : h = e.hits[i]
    <3>1. e.hits \in Seq(Range(e.hits))
      BY DEF IsEvent
    <3>2. DOMAIN e.hits = 1..Len(e.hits)
      BY <3>1
    <3>3. \A h : Real(h)
      BY DEF Real
    <3> QED BY <3>2, <3>3 DEF RealHits, Range, IsEvent
  <2>2. ASSUME NEW k1 \in 1..n - 1, NEW h, IsHit(electronics, h), HitUnit(us[k1], h)
        PROVE  off(k1) \in hits /\ ch[off(k1)] = Number(h) /\ pv[off(k1)] = Values(h.pulse)
    <3>1. off(k1) \in hits
      BY <1>5, <1>6, <2>2 DEF HitUnit
    <3>2. PICK o : o = off(k1)
      OBVIOUS
    <3>3. /\ F!physChannel(F!At(b, (o + SkipOf(F!At(b, o))) - 1)) = Number(h)
          /\ F!Pulse(F!PulseWords(b, o + SkipOf(F!At(b, o)))) = Values(h.pulse)
      <4>1. k1 \in 1..Len(us) - 1
        BY <1>1
      <4> QED BY <1>1, <2>2, <3>2, <4>1, HitRead
    <3> QED BY <1>11, <3>1, <3>2, <3>3
  <2>3. ASSUME NEW i \in hits
        PROVE  \E h \in RealHits(e) : ch[i] = Number(h) /\ pv[i] = Values(h.pulse)
    <3>1. PICK k1 \in 1..n - 1 : i = off(k1)
      BY <1>5
    <3>2. us[k1][1] \in HitIndex
      BY <1>6, <3>1
    <3>3. PICK j \in 1..Len(e.hits) : HitUnit(us[k1], e.hits[j])
      BY <1>7, <3>2 DEF Covers, StartUnit, OtherUnit
    <3> QED BY <2>1, <2>2, <3>1, <3>3
  <2>4. ASSUME NEW h \in RealHits(e) PROVE \E i \in hits : ch[i] = Number(h)
    <3>1. PICK j \in 1..Len(e.hits) : h = e.hits[j]
      BY <2>1
    <3>2. PICK k1 \in 1..Len(us) : HitUnit(us[k1], e.hits[j])
      BY DEF Covers
    <3>3. k1 \in 1..n - 1
      <4>1. k1 # n
        BY <1>1, <1>2, <3>2 DEF HitUnit
      <4> QED BY <1>1, <1>2, <4>1
    <3> QED BY <2>1, <2>2, <3>1, <3>2, <3>3
  <2>5. ASSUME NEW g \in RealHits(e), NEW h \in RealHits(e), Number(g) = Number(h) PROVE g = h
    <3>1. PICK i \in 1..Len(e.hits) : g = e.hits[i]
      BY <2>1
    <3>2. PICK j \in 1..Len(e.hits) : h = e.hits[j]
      BY <2>1
    <3>3. <<g.card, g.chip, g.chan>> = <<h.card, h.chip, h.chan>>
      BY <2>1, <2>5, <3>1, <3>2, NumberUnique
    <3>4. i = j
      BY <2>1, <3>1, <3>2, <3>3 DEF IsEvent
    <3> QED BY <3>1, <3>2, <3>4
  <2> HIDE DEF hits
  <2> QED BY <2>3, <2>4, <2>5 DEF Agrees
<1>13. [x \in {ch[i] : i \in hits} |-> pv[Min({i \in hits : ch[i] = x})]] = Meaning(e).signals
  <2>1. hits \subseteq Nat
    BY <1>11
  <2> HIDE DEF hits
  <2> QED BY <1>12, <2>1, SignalsAre, Zenon
<1>14. [x \in {channel(i) : i \in hits} |-> pulse(Min({i \in hits : channel(i) = x}))]
         = Meaning(e).signals
  <2>1. {channel(i) : i \in hits} = {ch[i] : i \in hits}
    <3> HIDE DEF hits, channel
    <3> QED BY <1>11
  <2>2. \A x : {i \in hits : channel(i) = x} = {i \in hits : ch[i] = x}
    <3> HIDE DEF hits, channel
    <3> QED BY <1>11
  <2>3. ASSUME NEW x \in {ch[i] : i \in hits}
        PROVE  pulse(Min({i \in hits : channel(i) = x})) = pv[Min({i \in hits : ch[i] = x})]
    <3> DEFINE T == {i \in hits : ch[i] = x}
    <3>1. T \subseteq Nat /\ T # {} /\ T \subseteq hits
      <4> HIDE DEF hits
      <4> QED BY <1>11
    <3>2. Min(T) \in hits
      <4> HIDE DEF T, hits
      <4> QED BY <3>1, MinOfNats
    <3> HIDE DEF pulse, hits
    <3> QED BY <1>11, <2>2, <3>2
  <2> HIDE DEF hits, channel, pulse
  <2> QED BY <1>13, <2>1, <2>2, <2>3
<1>15. Meaning(e) = [tS |-> e.time, ev_count |-> e.count, signals |-> Meaning(e).signals]
  BY DEF Meaning
<1>16. F!ParseEventFromWords(b, t, c)
         = [tS |-> IF starts = {} THEN t ELSE [j \in 1..3 |-> F!At(b, Max(starts) + 4 - j)],
            ev_count |-> IF starts = {} THEN c
                         ELSE <<F!At(b, Max(starts) + 5), F!At(b, Max(starts) + 4)>>,
            signals |-> [x \in {channel(i) : i \in hits} |->
                           pulse(Min({i \in hits : channel(i) = x}))]]
  BY <1>4 DEF F!ParseEventFromWords, F!Max, F!Min, Max, Min
<1> HIDE DEF starts, hits, channel, pulse
<1> QED BY <1>1, <1>9, <1>14, <1>15, <1>16

(***************************************************************************)
(* The packets of the DCC.                                                 *)
(***************************************************************************)
\* Channels below c of a chip that are not for the fixed pattern noise.
Below(c) == Cardinality(3..c - 1 \ FixedPattern)
BelowIs(c) ==
  IF c <= 15 THEN c - 3 ELSE IF c <= 28 THEN c - 4 ELSE IF c <= 53 THEN c - 5
  ELSE IF c <= 66 THEN c - 6 ELSE c - 7

\* The number of channels below, in closed form.
LEMMA BelowCount ==
  ASSUME NEW c \in Int, 3 <= c
  PROVE  Below(c) = BelowIs(c)
<1> DEFINE Set(x) == 3..x - 1 \ FixedPattern
           Is(x) == IsFiniteSet(Set(x)) /\ Below(x) = BelowIs(x)
<1>1. PICK n \in Nat : n = c - 3
  OBVIOUS
<1> DEFINE B == {k \in 0..n : Is(k + 3)}
<1>2. Is(3)
  <2>1. Set(3) = {} /\ BelowIs(3) = 0
    BY DEF BelowIs
  <2> QED BY <2>1, FS_EmptySet DEF Below
<1>3. ASSUME NEW x \in Int, 3 <= x, Is(x) PROVE Is(x + 1)
  <2>1. IsFiniteSet(Set(x)) /\ Cardinality(Set(x)) = BelowIs(x)
    BY <1>3 DEF Below
  <2>2. CASE x \in FixedPattern
    <3>1. Set(x + 1) = Set(x)
      BY <1>3, <2>2
    <3>2. BelowIs(x + 1) = BelowIs(x)
      BY <1>3, <2>2 DEF BelowIs, FixedPattern
    <3> HIDE DEF Set
    <3>3. IsFiniteSet(Set(x + 1)) /\ Cardinality(Set(x + 1)) = BelowIs(x + 1)
      BY <2>1, <3>1, <3>2
    <3> QED BY <3>3 DEF Below, Set
  <2>3. CASE x \notin FixedPattern
    <3>1. Set(x + 1) = Set(x) \cup {x} /\ x \notin Set(x)
      BY <1>3, <2>3
    <3>2. BelowIs(x + 1) = BelowIs(x) + 1
      BY <1>3, <2>3 DEF BelowIs, FixedPattern
    <3> HIDE DEF Set
    <3>3. IsFiniteSet(Set(x + 1)) /\ Cardinality(Set(x + 1)) = Cardinality(Set(x)) + 1
      BY <2>1, <3>1, FS_AddElement
    <3>4. IsFiniteSet(Set(x + 1)) /\ Cardinality(Set(x + 1)) = BelowIs(x + 1)
      BY <2>1, <3>2, <3>3
    <3> QED BY <3>4 DEF Below, Set
  <2> QED BY <2>2, <2>3
<1> HIDE DEF Is
<1>4. 0 \in B
  BY <1>1, <1>2
<1>5. ASSUME NEW k \in 0..n - 1, k \in B PROVE k + 1 \in B
  <2>1. PICK x \in Int : x = k + 3 /\ 3 <= x /\ x + 1 = (k + 1) + 3 /\ k + 1 \in 0..n
    BY <1>1
  <2> QED BY <1>3, <1>5, <2>1
<1>6. n \in B
  <2>1. B \in SUBSET (0..n)
    OBVIOUS
  <2> HIDE DEF B
  <2> QED BY <1>1, <1>4, <1>5, <2>1, UpTo
<1>7. Is(c)
  <2>1. n + 3 = c
    BY <1>1
  <2> QED BY <1>6, <2>1
<1> QED BY <1>7 DEF Is

\* The number that the decoder gives to a channel is its rank among these.
LEMMA RankBelow ==
  ASSUME NEW c \in Int, 3 <= c, c <= 78
  PROVE  /\ c \notin FixedPattern => /\ DCC!Rank(c) = Below(c)
                                     /\ 0 <= DCC!Rank(c) /\ DCC!Rank(c) <= 71
         /\ c \in FixedPattern => DCC!Rank(c) < 0
         /\ DCC!Rank(c) \in Int
<1>1. DCC!Rank(c) = IF 3 <= c /\ c <= 14 THEN c - 3 ELSE IF 16 <= c /\ c <= 27 THEN c - 4
                    ELSE IF 29 <= c /\ c <= 52 THEN c - 5
                    ELSE IF 54 <= c /\ c <= 65 THEN c - 6
                    ELSE IF 67 <= c THEN c - 7 ELSE -10
  BY DEF DCC!Rank
<1>2. c \in FixedPattern <=> c = 15 \/ c = 28 \/ c = 53 \/ c = 66
  BY DEF FixedPattern
<1>3. Below(c) = BelowIs(c)
  BY BelowCount
<1>4. PICK b : b = Below(c)
  OBVIOUS
<1>5. b = BelowIs(c)
  BY <1>3, <1>4
<1>6. PICK r : r = DCC!Rank(c)
  OBVIOUS
<1>7. ASSUME c \notin FixedPattern PROVE r = b /\ 0 <= r /\ r <= 71
  <2>1. c # 15 /\ c # 28 /\ c # 53 /\ c # 66
    BY <1>2, <1>7
  <2> HIDE <1>7
  <2> QED BY <1>1, <1>5, <1>6, <2>1 DEF BelowIs
<1>8. ASSUME c \in FixedPattern PROVE r < 0
  <2>1. c = 15 \/ c = 28 \/ c = 53 \/ c = 66
    BY <1>2, <1>8
  <2> HIDE <1>8
  <2> QED BY <1>1, <1>6, <2>1
<1>9. r \in Int
  BY <1>1, <1>6
<1> QED BY <1>4, <1>6, <1>7, <1>8, <1>9

\* Channels with the same rank are the same.
LEMMA RankUnique ==
  ASSUME NEW c \in Int, NEW d \in Int, 3 <= c, c <= 78, 3 <= d, d <= 78,
         c \notin FixedPattern, d \notin FixedPattern, Below(c) = Below(d)
  PROVE  c = d
<1>1. Below(c) = BelowIs(c) /\ Below(d) = BelowIs(d)
  BY BelowCount
<1>2. c # 15 /\ c # 28 /\ c # 53 /\ c # 66 /\ d # 15 /\ d # 28 /\ d # 53 /\ d # 66
  BY DEF FixedPattern
<1>3. BelowIs(c) = BelowIs(d)
  BY <1>1
<1>4. CASE c <= 28
  BY <1>2, <1>3, <1>4 DEF BelowIs
<1>5. CASE 28 < c
  BY <1>2, <1>3, <1>5 DEF BelowIs
<1> QED BY <1>4, <1>5

\* The word that names chip and channel of a packet.
DCCIndex(w, c, a, f) ==
  /\ c \in Int /\ 3 <= c /\ c <= 78 /\ a \in Int /\ 0 <= a /\ a <= 3
  /\ f \in Int /\ 0 <= f /\ f <= 5
  /\ w = 6 * c + ((4 * f + a) \div 5) + 512 * ((4 * f + a) % 5)

\* It is decoded to the number of the channel, or a negative one.
LEMMA DCCChannel ==
  ASSUME NEW w, NEW c, NEW a, NEW f, DCCIndex(w, c, a, f)
  PROVE  /\ w \in Int /\ 0 <= w /\ w <= 65535
         /\ LET p == DCC!Arg12ToFecAsicChannel(w % 512, (w \div 512) % 16)
            IN /\ c \notin FixedPattern => p = Below(c) + 72 * (a + 4 * f) /\ p >= 0 /\ p \in Int
               /\ c \in FixedPattern => ~(p >= 0)
<1>1. PICK n \in Int : n = 4 * f + a
  BY DEF DCCIndex
<1>2. /\ c \in Int /\ 3 <= c /\ c <= 78 /\ a \in Int /\ 0 <= a /\ a <= 3
      /\ f \in Int /\ 0 <= f /\ f <= 5 /\ 0 <= n /\ n <= 23
      /\ w = 6 * c + (n \div 5) + 512 * (n % 5)
  BY <1>1 DEF DCCIndex
<1>3. /\ w \in Int /\ 0 <= w /\ w <= 65535 /\ w % 512 = 6 * c + (n \div 5) /\ w \div 512 = n % 5
      /\ n \div 5 \in Int /\ n % 5 \in Int /\ n % 5 < 5 /\ 0 <= n % 5
      /\ 0 <= n \div 5 /\ n \div 5 <= 4
  BY <1>2
<1>4. (6 * c + (n \div 5)) \div 6 = c /\ (6 * c + (n \div 5)) % 6 = n \div 5
  BY <1>2, <1>3
<1>5. (n % 5) % 16 = n % 5 /\ 5 * (n \div 5) + (n % 5) = n
  BY <1>2, <1>3
<1>6. n \div 4 = f /\ n % 4 = a
  BY <1>1, <1>2
<1>7. PICK x, y : x = w % 512 /\ y = (w \div 512) % 16
  OBVIOUS
<1>8. 5 * (x % 6) + y = n /\ x \div 6 = c
  BY <1>3, <1>4, <1>5, <1>7
<1>9. DCC!Arg12ToFecAsicChannel(x, y)
        = IF DCC!Rank(c) < 0 THEN DCC!Rank(c) ELSE 288 * f + 72 * a + DCC!Rank(c)
  <2>1. n \div 4 <= 5
    BY <1>2, <1>6
  <2> QED BY <1>6, <1>8, <2>1 DEF DCC!Arg12ToFecAsicChannel
<1>10. /\ c \notin FixedPattern => /\ DCC!Rank(c) = Below(c)
                                   /\ 0 <= DCC!Rank(c) /\ DCC!Rank(c) <= 71
       /\ c \in FixedPattern => DCC!Rank(c) < 0
       /\ DCC!Rank(c) \in Int
  BY <1>2, RankBelow
<1> QED BY <1>2, <1>3, <1>7, <1>9, <1>10

\* The words of samples of a packet, and what names its channel.
SampleWords(pulse) == IF pulse = <<>> THEN <<0, 0>> ELSE PulseRecord(pulse, BinCode, SampleCode)
ArgsOf(h) == 6 * h.chan + ((4 * h.card + h.chip) \div 5) + 512 * ((4 * h.card + h.chip) % 5)

\* The packet of a hit.
PacketUnit(u, h, e) ==
  /\ u \in Unit /\ ~Ends(u) /\ u[4] = ArgsOf(h) /\ u[7] = 16384 + e.count[2]
  /\ SampleWords(h.pulse) \in Seq(Word) /\ u[8] = Len(SampleWords(h.pulse))
  /\ Len(SampleWords(h.pulse)) >= 1 /\ Len(u) = Len(SampleWords(h.pulse)) + 10
  /\ \A i \in 1..Len(SampleWords(h.pulse)) : u[i + 8] = SampleWords(h.pulse)[i]
  /\ u[Len(SampleWords(h.pulse)) + 9] = 0

\* The end that startDAQ puts behind the packets.
EndUnit(u, e) ==
  /\ u \in Unit /\ Ends(u) /\ Len(u) = 4
  /\ u[2] = e.time[1] /\ u[3] = e.time[2] /\ u[4] = e.time[3]

\* Eight words in front of a sequence and two behind it.
LEMMA PacketWords ==
  ASSUME NEW S, NEW a \in S, NEW b \in S, NEW c \in S, NEW d \in S, NEW z \in S,
         NEW w \in Seq(S), NEW x \in S,
         NEW u, u = <<a, z, z, b, z, z, c, d>> \o w \o <<z, x>>
  PROVE  /\ u \in Seq(S) /\ Len(w) \in Nat /\ Len(u) = Len(w) + 10
         /\ u[1] = a /\ u[4] = b /\ u[7] = c /\ u[8] = d
         /\ \A i \in 1..Len(w) : u[i + 8] = w[i]
         /\ u[Len(w) + 9] = z
<1>1. PICK y : y = <<a, z, z, b, z, z, c, d>>
  OBVIOUS
<1>2. /\ y \in Seq(S) /\ Len(y) = 8
      /\ y[1] = a /\ y[4] = b /\ y[7] = c /\ y[8] = d
  BY <1>1
<1>3. PICK t : t = y \o w
  OBVIOUS
<1>4. /\ t \in Seq(S) /\ Len(w) \in Nat /\ Len(t) = Len(w) + 8
      /\ t[1] = a /\ t[4] = b /\ t[7] = c /\ t[8] = d
      /\ \A i \in 1..Len(w) : t[i + 8] = w[i]
  <2>1. t \in Seq(S) /\ Glued(t, y, w)
    BY <1>2, <1>3, Joined
  <2>2. /\ Len(w) \in Nat /\ Len(t) = Len(w) + 8 /\ \A i \in 1..8 : t[i] = y[i]
        /\ \A i \in 1..Len(w) : t[8 + i] = w[i]
    BY <1>2, <2>1 DEF Glued
  <2>3. \A i \in 1..Len(w) : 8 + i = i + 8
    BY <2>2
  <2> QED BY <1>2, <2>1, <2>2, <2>3
<1>5. PICK v : v = <<z, x>>
  OBVIOUS
<1>6. v \in Seq(S) /\ Len(v) = 2 /\ v[1] = z
  BY <1>5
<1>7. u = t \o v
  BY <1>1, <1>3, <1>5
<1>8. u \in Seq(S) /\ Len(u) = Len(w) + 10
  BY <1>4, <1>6, <1>7
<1>9. u[Len(w) + 9] = z /\ \A i \in 1..Len(w) + 8 : u[i] = t[i]
  BY <1>4, <1>6, <1>7
<1>10. /\ 1 \in 1..Len(w) + 8 /\ 4 \in 1..Len(w) + 8 /\ 7 \in 1..Len(w) + 8
       /\ 8 \in 1..Len(w) + 8 /\ \A i \in 1..Len(w) : i + 8 \in 1..Len(w) + 8
  BY <1>4
<1> QED BY <1>4, <1>8, <1>9, <1>10

\* How many words of samples there are.
LEMMA SampleWordsAre ==
  ASSUME electronics \in Electronics, NEW pulse, IsPulse(pulse)
  PROVE  LET w == SampleWords(pulse)
         IN w \in Seq(Word) /\ Len(w) \in Nat /\ Len(w) >= 1 /\ Len(w) <= 1024
<1>1. CASE pulse = <<>>
  <2> DEFINE ww == <<0, 0>>
  <2>1. PICK w : w = ww
    <3> HIDE DEF ww
    <3> QED OBVIOUS
  <2>2. w \in Seq(Word) /\ Len(w) = 2
    <3>1. 0 \in Word
      BY Numbers
    <3> QED BY <2>1, <3>1
  <2> QED BY <1>1, <2>1, <2>2 DEF SampleWords
<1>2. CASE pulse # <<>>
  <2>1. PICK w : w = PulseRecord(pulse, BinCode, SampleCode)
    OBVIOUS
  <2>2. w \in Seq(Word)
    BY <2>1, PulseSeq
  <2>3. PICK g : Bins(w, g)
    BY <2>2, BinsExist
  <2>4. PulseRead(pulse, w, g)
    BY <2>1, <2>3, PulseBins
  <2>5. 1 \in 1..Len(pulse) /\ 1 \in 1..Len(pulse[1].samples)
    <3>1. pulse \in Seq(Run) /\ Len(pulse) \in Nat
      BY PulseRuns
    <3>2. Len(pulse) >= 1 /\ 1 \in 1..Len(pulse)
      BY <1>2, <3>1
    <3>3. Len(pulse[1].samples) \in Nat /\ Len(pulse[1].samples) >= 1
      BY <3>2, PulseRuns
    <3> QED BY <3>2, <3>3
  <2>6. \E k \in 1..Len(w) : Holds(w, g, k, pulse[1], 1)
    BY <2>4, <2>5 DEF PulseRead
  <2>7. Len(w) \in Nat /\ Len(w) >= 1 /\ Len(w) <= 1024
    BY <2>2, <2>4, <2>6 DEF PulseRead
  <2> QED BY <1>2, <2>1, <2>2, <2>7 DEF SampleWords
<1> QED BY <1>1, <1>2

\* What names a channel is a word.
LEMMA ArgsIndex ==
  ASSUME electronics \in Electronics, electronics # "ARC", electronics # "FEMINOS",
         NEW h, IsHit(electronics, h)
  PROVE  DCCIndex(ArgsOf(h), h.chan, h.chip, h.card) /\ ArgsOf(h) \in Word
<1>1. HitBounds(h, 5, 3, 3, 78)
  BY HitRanges
<1>2. DCCIndex(ArgsOf(h), h.chan, h.chip, h.card)
  BY <1>1 DEF HitBounds, DCCIndex, ArgsOf
<1>3. PICK w : w = ArgsOf(h)
  OBVIOUS
<1>4. w \in Int /\ 0 <= w /\ w <= 65535
  BY <1>2, <1>3, DCCChannel
<1>5. w \in Word
  BY <1>4, Numbers
<1> QED BY <1>2, <1>3, <1>5

\* A hit is sent as a packet.
LEMMA HitPacket ==
  ASSUME electronics \in Electronics, electronics # "ARC", electronics # "FEMINOS",
         NEW e, IsCount(e.count), NEW h, IsHit(electronics, h), NEW u, u = DCCPacketOf(e, h)
  PROVE  PacketUnit(u, h, e)
<1>1. PICK w : w = SampleWords(h.pulse)
  OBVIOUS
<1>2. w \in Seq(Word) /\ Len(w) \in Nat /\ Len(w) >= 1 /\ Len(w) <= 1024
  <2>1. IsPulse(h.pulse)
    BY HitRanges
  <2> QED BY <1>1, <2>1, SampleWordsAre
<1> DEFINE bytes == 2 * (Len(w) + 10)
           number == 16384 + e.count[2]
           zero == 0
           last == 65535
<1>3. PICK a, b, c, d, z, x : /\ a = bytes /\ b = ArgsOf(h) /\ c = number
                              /\ d = Len(w) /\ z = zero /\ x = last
  <2> HIDE DEF bytes, number, zero, last
  <2> QED OBVIOUS
<1>4. u = <<a, z, z, b, z, z, c, d>> \o w \o <<z, x>>
  <2>1. w = IF h.pulse = <<>> THEN <<0, 0>> ELSE PulseRecord(h.pulse, 4096, 0)
    BY <1>1 DEF SampleWords, BinCode, SampleCode, Of
  <2> QED BY <1>3, <2>1 DEF DCCPacketOf, ArgsOf
<1>5. a \in Word /\ b \in Word /\ c \in Word /\ d \in Word /\ z \in Word /\ x \in Word
  <2>1. b \in Word
    BY <1>3, ArgsIndex
  <2>2. c \in Int /\ 0 <= c /\ c <= 65535
    BY <1>3 DEF IsCount
  <2>3. /\ a \in Int /\ 0 <= a /\ a <= 65535 /\ d \in Int /\ 0 <= d /\ d <= 65535
        /\ z \in Int /\ 0 <= z /\ z <= 65535 /\ x \in Int /\ 0 <= x /\ x <= 65535
    BY <1>2, <1>3
  <2> QED BY <2>1, <2>2, <2>3, Numbers
<1>6. /\ u \in Seq(Word) /\ Len(u) = Len(w) + 10
      /\ u[1] = a /\ u[4] = b /\ u[7] = c /\ u[8] = d
      /\ \A i \in 1..Len(w) : u[i + 8] = w[i]
      /\ u[Len(w) + 9] = z
  <2>1. w \in Seq(Word)
    BY <1>2
  <2> HIDE DEF bytes, number, zero, last
  <2>2. PICK S : S = Word
    OBVIOUS
  <2>3. /\ a \in S /\ b \in S /\ c \in S /\ d \in S /\ z \in S /\ x \in S
        /\ w \in Seq(S)
    BY <1>5, <2>1, <2>2
  <2>4. /\ u \in Seq(S) /\ Len(w) \in Nat /\ Len(u) = Len(w) + 10
        /\ u[1] = a /\ u[4] = b /\ u[7] = c /\ u[8] = d
        /\ \A i \in 1..Len(w) : u[i + 8] = w[i]
        /\ u[Len(w) + 9] = z
    BY ONLY <1>4, <2>3, PacketWords
  <2> QED BY <2>2, <2>4
<1>7. PICK n \in Int : n = Len(w) + 10 /\ 1 <= n /\ n <= 32767 /\ n = Len(u)
  BY <1>2, <1>6
<1>8. Kind(u[1], Len(u), "none")
  <2>1. Kind(2 * n, n, "none")
    BY <1>7, DCCKinds
  <2> QED BY <1>3, <1>6, <1>7, <2>1
<1>9. u \in Unit /\ ~Ends(u)
  BY <1>6, <1>7, <1>8, SimpleUnit
<1> QED BY <1>1, <1>2, <1>3, <1>6, <1>9 DEF PacketUnit

\* The end of an event is sent with its time.
TimeRecord(e) == <<65535>> \o e.time

\* The end of an event of the DCC is a unit, and an end.
LEMMA TimeEnd ==
  ASSUME electronics \in Electronics, electronics # "ARC", electronics # "FEMINOS",
         NEW e, e.time \in Word \X Word \X Word, NEW u, u = TimeRecord(e)
  PROVE  EndUnit(u, e)
<1>1. PICK t1 \in Word, t2 \in Word, t3 \in Word : e.time = <<t1, t2, t3>>
  OBVIOUS
<1>2. PICK x : x = 65535
  OBVIOUS
<1>3. x \in Word
  BY <1>2, Numbers
<1>4. u = <<x>> \o <<t1, t2, t3>>
  BY <1>1, <1>2 DEF TimeRecord
<1>5. /\ u \in Seq(Word) /\ Len(u) = 4 /\ u[1] = x
      /\ u[2] = t1 /\ u[3] = t2 /\ u[4] = t3
  BY <1>3, <1>4
<1>6. Kind(u[1], Len(u), "end") /\ Len(u) >= 1
  BY <1>2, <1>5, DCCKinds
<1>7. u \in Unit /\ Ends(u)
  BY <1>5, <1>6, SimpleUnit
<1>8. u[2] = e.time[1] /\ u[3] = e.time[2] /\ u[4] = e.time[3]
  BY <1>1, <1>5
<1> QED BY <1>5, <1>7, <1>8 DEF EndUnit

\* The packets of an event are those of its hits; the end is behind them.
Packed(r, e) ==
  /\ \A k \in 1..Len(r) : Ends(r[k]) => EndUnit(r[k], e)
  /\ \A k \in 1..Len(r) : ~Ends(r[k]) => \E i \in 1..Len(e.hits) : PacketUnit(r[k], e.hits[i], e)
  /\ \A i \in 1..Len(e.hits) : \E k \in 1..Len(r) : PacketUnit(r[k], e.hits[i], e)

\* The records of an event of the DCC are such.
LEMMA PackedRecords ==
  ASSUME electronics \in Electronics, electronics # "ARC", electronics # "FEMINOS",
         NEW e, IsEvent(e), NEW r, r = Records(e)
  PROVE  EventUnits(r) /\ Packed(r, e) /\ Framing = {}
<1>1. e.hits \in Seq(Range(e.hits)) /\ Len(e.hits) \in Nat /\ DOMAIN e.hits = 1..Len(e.hits)
  BY LenProperties DEF IsEvent
<1> DEFINE rec(i) == DCCPacketOf(e, e.hits[i])
<1>2. PICK b, d, n : b = [i \in DOMAIN e.hits |-> rec(i)] /\ d = TimeRecord(e) /\ n = Len(e.hits)
  OBVIOUS
<1>3. \A i \in 1..n : PacketUnit(rec(i), e.hits[i], e)
  <2>1. ASSUME NEW i \in 1..n PROVE PacketUnit(rec(i), e.hits[i], e)
    <3>1. IsHit(electronics, e.hits[i]) /\ IsCount(e.count)
      BY <1>1, <1>2 DEF IsEvent
    <3> QED BY <3>1, HitPacket
  <2> QED BY <2>1
<1>4. EndUnit(d, e)
  BY <1>2, TimeEnd DEF IsEvent
<1>5. d \in Unit /\ \A i \in 1..n : rec(i) \in Unit
  BY <1>3, <1>4 DEF PacketUnit, EndUnit
<1> HIDE DEF rec
<1>6. b \in Seq(Unit) /\ Len(b) = n /\ n \in Nat /\ \A i \in 1..n : b[i] = rec(i)
  BY <1>1, <1>2, <1>5
<1>7. r = b \o <<d>>
  BY <1>2 DEF Records, DCCRecords, TimeRecord, rec
<1>8. /\ r \in Seq(Unit) /\ Len(r) = n + 1 /\ r[n + 1] = d
      /\ \A i \in 1..n : r[i] = rec(i)
  BY <1>5, <1>6, <1>7
<1>9. \A k \in 1..Len(r) : k \in 1..n \/ k = n + 1
  BY <1>6, <1>8
<1>10. \A i \in 1..n : i \in 1..Len(r) /\ i # Len(r)
  BY <1>6, <1>8
<1>11. Framing = {}
  BY DEF Framing, Of
<1>12. EventUnits(r)
  <2>1. \A k \in 1..Len(r) : Ends(r[k]) <=> k = Len(r)
    BY <1>3, <1>4, <1>8, <1>9, <1>10 DEF PacketUnit, EndUnit
  <2>2. Len(r) \in Nat /\ Len(r) >= 1
    BY <1>6, <1>8
  <2> QED BY <1>8, <1>11, <2>1, <2>2 DEF EventUnits
<1>13. Packed(r, e)
  <2>1. ASSUME NEW k \in 1..n PROVE PacketUnit(r[k], e.hits[k], e) /\ ~Ends(r[k])
    <3>1. PacketUnit(rec(k), e.hits[k], e)
      BY <1>3
    <3>2. r[k] = rec(k)
      BY <1>8
    <3> HIDE DEF rec
    <3>3. PacketUnit(r[k], e.hits[k], e)
      BY <3>1, <3>2
    <3> QED BY <3>3 DEF PacketUnit
  <2>2. EndUnit(r[n + 1], e) /\ Ends(r[n + 1])
    BY <1>4, <1>8 DEF EndUnit
  <2> QED BY <1>2, <1>9, <1>10, <2>1, <2>2 DEF Packed
<1> QED BY <1>11, <1>12, <1>13

\* The electronics is the DCC.
IsDCC == electronics \in Electronics /\ electronics # "ARC" /\ electronics # "FEMINOS"

\* What is common to the formats.
LEMMA DCCSame ==
  ASSUME IsDCC
  PROVE  /\ \A w : DCC!timeBin(w) = F!timeBin(w)
         /\ \A w, q : DCC!sData(w, q) = F!sData(w, q)
<1>1. AdcSample = DCC!AdcSample /\ TimeBin = DCC!TimeBin
  BY DEF IsDCC, AdcSample, TimeBin, Of
<1> HIDE DEF AdcSample, TimeBin
<1>2. \A w : DCC!timeBin(w) = F!timeBin(w)
  BY <1>1 DEF DCC!timeBin, F!timeBin
<1>3. ASSUME NEW w, NEW q PROVE DCC!sData(w, q) = F!sData(w, q)
  <2>1. \A s : DCC!Max(s) = F!Max(s)
    BY DEF DCC!Max, F!Max
  <2>2. PICK g : g = F!timeBin(w) /\ g = DCC!timeBin(w)
    BY <1>2
  <2>3. F!sData(w, q) = [b \in {g[k] : k \in q} |-> w[F!Max({k \in q : g[k] = b})] % 4096]
    BY <2>2 DEF F!sData
  <2>4. DCC!sData(w, q) = [b \in {g[k] : k \in q} |-> w[DCC!Max({k \in q : g[k] = b})] % 4096]
    BY <2>2 DEF DCC!sData
  <2> QED BY <2>1, <2>3, <2>4
<1> QED BY <1>2, <1>3

\* All samples of a pulse are taken: their bins are none behind the last.
LEMMA PacketPulse ==
  ASSUME IsDCC, NEW pulse, IsPulse(pulse),
         NEW words, words = PulseRecord(pulse, BinCode, SampleCode)
  PROVE  DCC!Pulse(words) = Values(pulse)
<1>0. electronics \in Electronics
  BY DEF IsDCC
<1>1. AdcSample = DCC!AdcSample /\ TimeBin = DCC!TimeBin
  BY DEF IsDCC, AdcSample, TimeBin, Of
<1>2. words \in Seq(Word)
  BY <1>0, PulseSeq
<1>3. \A w : DCC!timeBin(w) = F!timeBin(w)
  BY DCCSame
<1>4. \A w, q : DCC!sData(w, q) = F!sData(w, q)
  BY DCCSame
<1>5. PICK g : g = F!timeBin(words)
  OBVIOUS
<1>6. PulseRead(pulse, words, g)
  BY <1>0, <1>2, <1>5, BinsExist, PulseBins
<1>7. \A k \in DOMAIN words : \A j \in 1..k : g[j] <= 511
  <2>1. \A k \in 1..Len(words) : g[k] \in BinNo
    BY <1>6 DEF PulseRead
  <2>2. DOMAIN words = 1..Len(words) /\ Len(words) \in Nat
    BY <1>2
  <2>3. \A k \in DOMAIN words : \A j \in 1..k : j \in 1..Len(words)
    BY <2>2
  <2>4. \A k \in 1..Len(words) : g[k] <= 511
    BY <2>1, Numbers
  <2> QED BY <2>3, <2>4
<1>8. PICK q : q = {k \in DOMAIN words : words[k] \in AdcSample}
  OBVIOUS
<1>9. q = {k \in DOMAIN words : words[k] \in AdcSample /\ \A j \in 1..k : g[j] <= 511}
  BY <1>7, <1>8
<1>10. DCC!Pulse(words) = F!sData(words, q)
  <2> HIDE DEF AdcSample
  <2> QED BY <1>1, <1>3, <1>4, <1>5, <1>9 DEF DCC!Pulse
<1> QED BY <1>0, <1>8, <1>10, PulseValues

\* The fields of a packet p at o in the words b.
PacketAt(b, o, p, n, x, y) ==
  /\ n = DCC!scnt(b, o) /\ x = DCC!samp(b, o, 0) /\ y = DCC!samp(b, o, 1)
  /\ n \in Nat /\ n >= 1 /\ p \in Seq(Word)
  /\ IF p = <<>> THEN n = 2 /\ x = 0 /\ y = 0
     ELSE p \in Seq(Word) /\ n = Len(p) /\ x = p[1] /\ y = IF n = 1 THEN 0 ELSE p[2]

\* The first two elements of a sequence with two more behind it.
LEMMA FirstTwo ==
  ASSUME NEW S, NEW p \in Seq(S), NEW z \in S
  PROVE  LET x == IF p = <<>> THEN z ELSE p[1]
             y == IF p = <<>> \/ Len(p) = 1 THEN z ELSE p[2]
         IN Range(SubSeq(p \o <<z, z>>, 1, 2)) = {x, y}
<1> DEFINE zz == <<z, z>>
           cc == p \o zz
           qq == SubSeq(cc, 1, 2)
           xx == IF p = <<>> THEN z ELSE p[1]
           yy == IF p = <<>> \/ Len(p) = 1 THEN z ELSE p[2]
<1>1. zz \in Seq(S) /\ Len(zz) = 2 /\ zz[1] = z /\ zz[2] = z
  OBVIOUS
<1>2. cc \in Seq(S) /\ Glued(cc, p, zz)
  <2> HIDE DEF zz
  <2> QED BY <1>1, Joined
<1>3. Len(cc) = Len(p) + 2 /\ Len(p) \in Nat /\ Len(cc) \in Nat
  BY <1>1, <1>2 DEF Glued
<1>4. cc[1] = xx
  <2> HIDE DEF cc, zz
  <2>1. CASE p = <<>>
    <3>1. cc[Len(p) + 1] = zz[1] /\ Len(p) + 1 = 1
      <4>1. Len(p) = 0 /\ 1 \in 1..Len(zz)
        BY <1>1, <2>1
      <4> QED BY <1>2, <4>1 DEF Glued
    <3> QED BY <1>1, <2>1, <3>1
  <2>2. CASE p # <<>>
    <3>1. 1 \in 1..Len(p)
      BY <2>2
    <3> QED BY <1>2, <2>2, <3>1 DEF Glued
  <2> QED BY <2>1, <2>2
<1>5. cc[2] = yy
  <2> HIDE DEF cc, zz
  <2>1. CASE p = <<>>
    <3>1. cc[Len(p) + 2] = zz[2] /\ Len(p) + 2 = 2
      <4>1. Len(p) = 0 /\ 2 \in 1..Len(zz)
        BY <1>1, <2>1
      <4> QED BY <1>2, <4>1 DEF Glued
    <3> QED BY <1>1, <2>1, <3>1
  <2>2. CASE p # <<>> /\ Len(p) = 1
    <3>1. cc[Len(p) + 1] = zz[1] /\ Len(p) + 1 = 2
      <4>1. 1 \in 1..Len(zz)
        BY <1>1
      <4> QED BY <1>2, <2>2, <4>1 DEF Glued
    <3> QED BY <1>1, <2>2, <3>1
  <2>3. CASE p # <<>> /\ Len(p) # 1
    <3>1. 2 \in 1..Len(p)
      <4>1. Len(p) # 0
        BY <2>3
      <4>2. Len(p) \in Nat /\ Len(p) # 0 /\ Len(p) # 1
        BY <1>3, <2>3, <4>1
      <4>3. PICK m : m = Len(p)
        OBVIOUS
      <4>4. m >= 2 /\ m \in Nat
        BY <4>2, <4>3
      <4> QED BY <4>3, <4>4
    <3> QED BY <1>2, <2>3, <3>1 DEF Glued
  <2> QED BY <2>1, <2>2, <2>3
<1>6. DOMAIN qq = {1, 2} /\ qq[1] = cc[1] /\ qq[2] = cc[2]
  <2>1. Len(qq) = 2 /\ qq \in Seq(S) /\ qq[1] = cc[1] /\ qq[2] = cc[2]
    <3> HIDE DEF cc
    <3> QED BY <1>2, <1>3
  <2>2. DOMAIN qq = 1..2
    <3> HIDE DEF qq
    <3> QED BY <2>1
  <2> HIDE DEF qq
  <2> QED BY <2>1, <2>2
<1>7. Range(qq) = {xx, yy}
  <2> HIDE DEF qq, cc, xx, yy
  <2> QED BY <1>4, <1>5, <1>6 DEF Range
<1> QED BY <1>7

\* The words of a pulse without a signal.
NoSignal(words) ==
  LET first == Range(SubSeq(words \o <<0, 0>>, 1, 2))
  IN (first = {0} /\ Len(words) <= 8) \/ (4607 \in first /\ Len(words) <= 12)

\* A pulse is blank by its words.
LEMMA BlankWords ==
  ASSUME NEW pulse PROVE Blank(pulse) <=> NoSignal(PulseRecord(pulse, 4096, 0))
<1>1. PICK w : w = PulseRecord(pulse, 4096, 0)
  OBVIOUS
<1> DEFINE first == Range(SubSeq(w \o <<0, 0>>, 1, 2))
           short == (first = {0} /\ Len(w) <= 8) \/ (4607 \in first /\ Len(w) <= 12)
<1>2. Blank(pulse) <=> short
  BY <1>1 DEF Blank
<1>3. NoSignal(w) <=> short
  BY DEF NoSignal
<1> QED BY <1>1, <1>2, <1>3

\* The DCC looks at two words to find that a packet is empty.
LEMMA EmptyWords ==
  ASSUME NEW b, NEW o, NEW n, NEW x, NEW y, NEW p, PacketAt(b, o, p, n, x, y)
  PROVE  DCC!Empty(b, o) <=> NoSignal(p)
<1>1. Range(SubSeq(p \o <<0, 0>>, 1, 2)) = {x, y}
  <2>1. PICK z : z = 0
    OBVIOUS
  <2>2. z \in Word /\ p \in Seq(Word)
    BY <2>1, Numbers DEF PacketAt
  <2>3. Range(SubSeq(p \o <<z, z>>, 1, 2))
          = {IF p = <<>> THEN z ELSE p[1], IF p = <<>> \/ Len(p) = 1 THEN z ELSE p[2]}
    BY <2>2, FirstTwo
  <2>4. CASE p = <<>>
    BY <2>1, <2>3, <2>4 DEF PacketAt
  <2>5. CASE p # <<>>
    <3>1. n = Len(p) /\ x = p[1] /\ y = (IF n = 1 THEN z ELSE p[2])
      BY <2>1, <2>5 DEF PacketAt
    <3>2. {IF p = <<>> THEN z ELSE p[1], IF p = <<>> \/ Len(p) = 1 THEN z ELSE p[2]} = {x, y}
      BY <2>5, <3>1, Zenon
    <3> QED BY <2>1, <2>3, <3>2
  <2> QED BY <2>4, <2>5
<1>2. PICK m : m = Len(p)
  OBVIOUS
<1>3. NoSignal(p) <=> \/ ({x, y} = {0} /\ m <= 8) \/ (4607 \in {x, y} /\ m <= 12)
  BY <1>1, <1>2, SMTT(30) DEF NoSignal
<1>4. DCC!Empty(b, o) <=> \/ n <= 8 /\ x = 0 /\ y = 0
                          \/ n <= 12 /\ (x = 4607 \/ y = 4607)
  <2>1. \A k : k \in 0..1 <=> k = 0 \/ k = 1
    OBVIOUS
  <2>2. /\ (\A k \in 0..1 : DCC!samp(b, o, k) = 0) <=> x = 0 /\ y = 0
        /\ (\E k \in 0..1 : DCC!samp(b, o, k) = 4607) <=> x = 4607 \/ y = 4607
    BY <2>1 DEF PacketAt
  <2> QED BY <2>2 DEF DCC!Empty, PacketAt
<1>5. (n = 2 /\ m = 0 /\ x = 0 /\ y = 0) \/ n = m
  BY <1>2 DEF PacketAt
<1>6. {x, y} = {0} <=> x = 0 /\ y = 0
  OBVIOUS
<1>7. 4607 \in {x, y} <=> x = 4607 \/ y = 4607
  OBVIOUS
<1>8. CASE n = 2 /\ m = 0 /\ x = 0 /\ y = 0
  BY <1>3, <1>4, <1>6, <1>7, <1>8
<1>9. CASE n = m
  BY <1>3, <1>4, <1>6, <1>7, <1>9
<1> QED BY <1>5, <1>8, <1>9

\* What the decoder takes for no signal are the blank pulses.
LEMMA EmptyBlank ==
  ASSUME NEW pulse, NEW b, NEW o, NEW n, NEW x, NEW y,
         NEW p, p = PulseRecord(pulse, 4096, 0), PacketAt(b, o, p, n, x, y)
  PROVE  DCC!Empty(b, o) <=> Blank(pulse)
<1>1. Blank(pulse) <=> NoSignal(p)
  BY BlankWords
<1> QED BY <1>1, EmptyWords

\* The count and the samples of the packet at o, and whether it has a channel.
CountAt(b, o) == DCC!ecnt(b, o) % 16384
SamplesAt(b, o) == SubSeq(b, o + 9, o + 8 + DCC!scnt(b, o))
HasChannel(b, o) == DCC!physChannel(b, o) >= 0

\* What is read of the packet of a hit.
PacketRead(b, o, h, e) ==
  /\ CountAt(b, o) = e.count[2]
  /\ DCC!Empty(b, o) <=> Blank(h.pulse)
  /\ h.chan \notin FixedPattern => DCC!physChannel(b, o) = Number(h) /\ HasChannel(b, o)
  /\ h.chan \in FixedPattern => ~HasChannel(b, o)
  /\ ~Blank(h.pulse) => DCC!Pulse(SamplesAt(b, o)) = Values(h.pulse)

\* A part of a sequence is another one.
LEMMA PartIs ==
  ASSUME NEW S, NEW b \in Seq(S), NEW w \in Seq(S), NEW n \in Nat, NEW m,
         m = n + Len(w), m <= Len(b), \A i \in 1..Len(w) : b[n + i] = w[i]
  PROVE  SubSeq(b, n + 1, m) = w
<1> DEFINE x == SubSeq(b, n + 1, m)
<1>1. m \in Int /\ n <= m /\ m - n = Len(w)
  OBVIOUS
<1>2. x \in Seq(S) /\ Len(x) = m - n /\ \A i \in 1..m - n : x[i] = b[n + i]
  BY <1>1, PartOf, SMTT(30)
<1> HIDE DEF x
<1>3. x \in Seq(S) /\ Len(x) = Len(w) /\ \A i \in 1..Len(w) : x[i] = w[i]
  BY <1>1, <1>2
<1>4. x = w
  BY <1>3
<1> QED BY <1>4 DEF x

\* The words of a packet u at o: of samples w, the arguments g, the counts c.
FieldsAt(b, o, u, w, g, c) ==
  /\ b \in Seq(Word) /\ w \in Seq(Word) /\ Len(w) >= 1 /\ o \in Nat
  /\ Len(u) = Len(w) + 10 /\ o + Len(u) < Len(b) /\ \A i \in 1..Len(u) : b[o + i] = u[i]
  /\ u[4] = g /\ u[7] = c /\ u[8] = Len(w)
  /\ \A i \in 1..Len(w) : u[i + 8] = w[i]
  /\ u[Len(w) + 9] = 0

\* The fields of a packet are those of its hit.
LEMMA PacketFields ==
  ASSUME NEW b, NEW o, NEW u, NEW w, NEW g, NEW c, FieldsAt(b, o, u, w, g, c)
  PROVE  /\ DCC!args(b, o) = g /\ DCC!ecnt(b, o) = c
         /\ DCC!scnt(b, o) = Len(w) /\ DCC!samp(b, o, 0) = w[1]
         /\ DCC!samp(b, o, 1) = IF Len(w) = 1 THEN 0 ELSE w[2]
         /\ SubSeq(b, o + 9, o + 8 + DCC!scnt(b, o)) = w
<1>1. PICK n \in Nat : n = Len(w)
  BY DEF FieldsAt
<1>2. n \in Nat /\ n >= 1 /\ o \in Nat /\ Len(u) = n + 10 /\ Len(b) \in Nat
      /\ o + (n + 10) < Len(b)
  BY <1>1 DEF FieldsAt
<1>3. /\ \A j \in 1..n + 10 : b[o + j] = u[j]
      /\ u[4] = g /\ u[7] = c /\ u[8] = n
      /\ \A i \in 1..n : u[i + 8] = w[i]
      /\ u[n + 9] = 0
  BY <1>1, <1>2 DEF FieldsAt
<1>4. /\ (o + 3) + 1 = o + 4 /\ (o + 6) + 1 = o + 7 /\ (o + 7) + 1 = o + 8
      /\ (o + 8 + 0) + 1 = o + 9 /\ (o + 8 + 1) + 1 = o + 10
      /\ 4 \in 1..n + 10 /\ 7 \in 1..n + 10 /\ 8 \in 1..n + 10 /\ 9 \in 1..n + 10
      /\ 10 \in 1..n + 10 /\ 1 \in 1..n /\ 1 + 8 = 9 /\ 2 + 8 = 10 /\ 1 + 9 = 10
      /\ n # 1 => 2 \in 1..n
  BY <1>2
<1>5. /\ DCC!args(b, o) = u[4] /\ DCC!ecnt(b, o) = u[7] /\ DCC!scnt(b, o) = u[8]
      /\ DCC!samp(b, o, 0) = u[9] /\ DCC!samp(b, o, 1) = u[10]
  BY <1>3, <1>4 DEF DCC!args, DCC!ecnt, DCC!scnt, DCC!samp, DCC!At
<1>6. u[9] = w[1]
  BY <1>3, <1>4
<1>7. u[10] = IF n = 1 THEN 0 ELSE w[2]
  BY <1>3, <1>4
<1>8. SubSeq(b, o + 9, o + 8 + n) = w
  <2>1. \A i \in 1..n : b[(o + 8) + i] = w[i]
    <3>1. ASSUME NEW i \in 1..n PROVE b[(o + 8) + i] = w[i]
      <4>1. i + 8 \in 1..n + 10 /\ (o + 8) + i = o + (i + 8)
        BY <1>2
      <4> QED BY <1>3, <4>1
    <3> QED BY <3>1
  <2>2. /\ o + 8 \in Nat /\ (o + 8) + 1 = o + 9 /\ o + 8 + n <= Len(b)
        /\ o + 8 + n = (o + 8) + Len(w)
    BY <1>1, <1>2
  <2>3. b \in Seq(Word) /\ w \in Seq(Word)
    BY DEF FieldsAt
  <2>4. SubSeq(b, (o + 8) + 1, o + 8 + n) = w
    BY <1>1, <2>1, <2>2, <2>3, PartIs
  <2> QED BY <2>2, <2>4
<1>9. DCC!args(b, o) = g /\ DCC!ecnt(b, o) = c /\ DCC!scnt(b, o) = n
  BY <1>3, <1>5
<1>10. DCC!samp(b, o, 0) = w[1] /\ DCC!samp(b, o, 1) = IF n = 1 THEN 0 ELSE w[2]
  BY <1>5, <1>6, <1>7
<1> QED BY <1>1, <1>8, <1>9, <1>10

\* The channel that is named.
LEMMA PacketChannel ==
  ASSUME IsDCC, NEW h, IsHit(electronics, h), NEW b, NEW o, DCC!args(b, o) = ArgsOf(h)
  PROVE  /\ h.chan \notin FixedPattern => DCC!physChannel(b, o) = Number(h) /\ HasChannel(b, o)
         /\ h.chan \in FixedPattern => ~HasChannel(b, o)
<1>1. PICK w : w = ArgsOf(h)
  OBVIOUS
<1>2. DCCIndex(w, h.chan, h.chip, h.card)
  BY <1>1, ArgsIndex DEF IsDCC
<1>3. DCC!physChannel(b, o) = DCC!Arg12ToFecAsicChannel(w % 512, (w \div 512) % 16)
  BY <1>1 DEF DCC!physChannel
<1>4. Number(h) = Below(h.chan) + 72 * (h.chip + 4 * h.card)
  BY DEF IsDCC, Number, Below
<1> QED BY <1>2, <1>3, <1>4, DCCChannel DEF HasChannel

\* A packet is read as its hit.
LEMMA PacketIsRead ==
  ASSUME IsDCC, NEW us, Closed(us), NEW k \in 1..Len(us) - 1, NEW h, IsHit(electronics, h),
         NEW e, IsCount(e.count), PacketUnit(us[k], h, e),
         NEW b, b = FlattenSeq(us), NEW o, o = Off(us, k - 1)
  PROVE  PacketRead(b, o, h, e)
<1>0. electronics \in Electronics
  BY DEF IsDCC
<1>1. PICK u, s : u = us[k] /\ s = SkipOf(u[1])
  OBVIOUS
<1>2. PICK w : w = SampleWords(h.pulse)
  OBVIOUS
<1>3. IsPulse(h.pulse)
  BY <1>0, HitRanges
<1>4. w \in Seq(Word) /\ Len(w) \in Nat /\ Len(w) >= 1
  BY <1>0, <1>2, <1>3, SampleWordsAre
<1>5. b \in Seq(Word)
  BY UnitWords, Ranges DEF Closed
<1>6. o \in Nat /\ o + Len(u) < Len(b) /\ \A i \in 1..Len(u) : b[o + i] = u[i]
  <2>1. UnitAt(us, k, b, u, o, s)
    BY <1>1 DEF UnitAt, Closed
  <2> QED BY <1>0, <2>1, UnitNext DEF UnitWordsAt
<1>7. PICK g, c : g = ArgsOf(h) /\ c = u[7]
  OBVIOUS
<1>8. FieldsAt(b, o, u, w, g, c)
  <2>1. /\ Len(u) = Len(w) + 10 /\ u[4] = g /\ u[8] = Len(w) /\ u[Len(w) + 9] = 0
        /\ \A i \in 1..Len(w) : u[i + 8] = w[i]
    BY <1>1, <1>2, <1>7 DEF PacketUnit
  <2> QED BY <1>4, <1>5, <1>6, <1>7, <2>1 DEF FieldsAt
<1>9. /\ DCC!args(b, o) = g /\ DCC!ecnt(b, o) = c
      /\ DCC!scnt(b, o) = Len(w) /\ DCC!samp(b, o, 0) = w[1]
      /\ DCC!samp(b, o, 1) = IF Len(w) = 1 THEN 0 ELSE w[2]
      /\ SubSeq(b, o + 9, o + 8 + DCC!scnt(b, o)) = w
  BY <1>8, PacketFields
<1>10. CountAt(b, o) = e.count[2]
  <2>1. PICK m : m = e.count[2]
    OBVIOUS
  <2>2. m \in Nat /\ m <= 16383 /\ DCC!ecnt(b, o) = 16384 + m
    BY <1>1, <1>7, <1>9, <2>1 DEF IsCount, PacketUnit
  <2> QED BY <2>1, <2>2 DEF CountAt
<1>11. DCC!Empty(b, o) <=> Blank(h.pulse)
  <2>1. PICK p : p = PulseRecord(h.pulse, BinCode, SampleCode)
    OBVIOUS
  <2>2. p = PulseRecord(h.pulse, 4096, 0)
    BY <2>1 DEF IsDCC, BinCode, SampleCode, Of
  <2>3. p \in Seq(Word)
    BY <1>0, <1>3, <2>1, PulseSeq
  <2>4. CASE h.pulse = <<>>
    <3>1. p = <<>>
      BY <2>1, <2>4 DEF PulseRecord, FlattenSeq
    <3>2. Len(w) = 2 /\ w[1] = 0 /\ w[2] = 0
      BY <1>2, <2>4 DEF SampleWords
    <3>3. PacketAt(b, o, p, Len(w), w[1], w[2])
      BY <1>4, <1>9, <2>3, <3>1, <3>2 DEF PacketAt
    <3> QED BY <2>2, <3>3, EmptyBlank
  <2>5. CASE h.pulse # <<>>
    <3>1. p = w
      BY <1>2, <2>1, <2>5 DEF SampleWords
    <3>2. p # <<>>
      BY <1>4, <3>1
    <3>3. PICK x, y : x = w[1] /\ y = DCC!samp(b, o, 1)
      OBVIOUS
    <3>4. PacketAt(b, o, p, Len(w), x, y)
      BY <1>4, <1>9, <2>3, <3>1, <3>2, <3>3 DEF PacketAt
    <3> QED BY <2>2, <3>4, EmptyBlank
  <2> QED BY <2>4, <2>5
<1>12. ~Blank(h.pulse) => DCC!Pulse(w) = Values(h.pulse)
  <2>1. ASSUME ~Blank(h.pulse) PROVE h.pulse # <<>>
    <3>1. CASE h.pulse = <<>>
      <4>1. PulseRecord(h.pulse, 4096, 0) = <<>>
        BY <3>1 DEF PulseRecord, FlattenSeq
      <4>2. NoSignal(<<>>)
        BY DEF NoSignal, Range
      <4> QED BY <2>1, <4>1, <4>2, BlankWords
    <3> QED BY <3>1
  <2>2. h.pulse # <<>> => w = PulseRecord(h.pulse, BinCode, SampleCode)
    BY <1>2 DEF SampleWords
  <2> QED BY <1>3, <2>1, <2>2, PacketPulse
<1>13. /\ h.chan \notin FixedPattern => DCC!physChannel(b, o) = Number(h) /\ HasChannel(b, o)
       /\ h.chan \in FixedPattern => ~HasChannel(b, o)
  BY <1>7, <1>9, PacketChannel
<1>14. ~Blank(h.pulse) => DCC!Pulse(SamplesAt(b, o)) = Values(h.pulse)
  BY <1>9, <1>12 DEF SamplesAt
<1> QED BY <1>10, <1>11, <1>13, <1>14, Zenon DEF PacketRead

\* A packet names one hit.
LEMMA PacketUnique ==
  ASSUME IsDCC, NEW g, NEW h, IsHit(electronics, g), IsHit(electronics, h),
         g.chan \notin FixedPattern, h.chan \notin FixedPattern, Number(g) = Number(h)
  PROVE  <<g.card, g.chip, g.chan>> = <<h.card, h.chip, h.chan>>
<1>1. HitBounds(g, 5, 3, 3, 78) /\ HitBounds(h, 5, 3, 3, 78)
  BY HitRanges DEF IsDCC
<1>2. PICK c1, a1, f1, c2, a2, f2 :
        /\ c1 = g.chan /\ a1 = g.chip /\ f1 = g.card
        /\ c2 = h.chan /\ a2 = h.chip /\ f2 = h.card
  OBVIOUS
<1>3. /\ c1 \in Int /\ 3 <= c1 /\ c1 <= 78 /\ a1 \in Int /\ 0 <= a1 /\ a1 <= 3 /\ f1 \in Int
      /\ c2 \in Int /\ 3 <= c2 /\ c2 <= 78 /\ a2 \in Int /\ 0 <= a2 /\ a2 <= 3 /\ f2 \in Int
  BY <1>1, <1>2 DEF HitBounds
<1>4. PICK x, y : x = Below(c1) /\ y = Below(c2)
  OBVIOUS
<1>5. x \in Int /\ 0 <= x /\ x <= 71 /\ y \in Int /\ 0 <= y /\ y <= 71
  <2>1. /\ Below(c1) = DCC!Rank(c1) /\ 0 <= DCC!Rank(c1) /\ DCC!Rank(c1) <= 71
        /\ DCC!Rank(c1) \in Int
    BY <1>2, <1>3, RankBelow
  <2>2. /\ Below(c2) = DCC!Rank(c2) /\ 0 <= DCC!Rank(c2) /\ DCC!Rank(c2) <= 71
        /\ DCC!Rank(c2) \in Int
    BY <1>2, <1>3, RankBelow
  <2> QED BY <1>4, <2>1, <2>2
<1>6. x + 72 * (a1 + 4 * f1) = y + 72 * (a2 + 4 * f2)
  BY <1>2, <1>4 DEF IsDCC, Number, Below
<1>7. a1 + 4 * f1 \in Int /\ a2 + 4 * f2 \in Int
  BY <1>3
<1>8. x = y /\ a1 + 4 * f1 = a2 + 4 * f2
  <2>1. PICK n, m : n = a1 + 4 * f1 /\ m = a2 + 4 * f2
    OBVIOUS
  <2>2. n \in Int /\ m \in Int /\ x + 72 * n = y + 72 * m
    BY <1>6, <1>7, <2>1
  <2> QED BY <1>5, <2>1, <2>2
<1>9. a1 = a2 /\ f1 = f2
  BY <1>3, <1>8
<1>10. c1 = c2
  BY <1>2, <1>3, <1>4, <1>8, RankUnique
<1> QED BY <1>2, <1>9, <1>10

\* The time is that of the end.
LEMMA TimeRead ==
  ASSUME electronics \in Electronics, NEW us, Closed(us), NEW e,
         e.time \in Word \X Word \X Word, EndUnit(us[Len(us)], e),
         NEW b, b = FlattenSeq(us)
  PROVE  SubSeq(b, Len(b) - 2, Len(b)) = e.time
<1>1. PICK n : n = Len(us)
  OBVIOUS
<1>2. us \in Seq(Seq(Word)) /\ n \in 1..Len(us)
  BY <1>1, UnitWords DEF Closed
<1>3. PICK u, o : u = us[n] /\ o = Off(us, n - 1)
  OBVIOUS
<1>4. /\ b \in Seq(Word) /\ o \in Nat /\ Len(b) = o + Len(u)
      /\ \A k \in 1..Len(u) : b[o + k] = u[k]
  <2>1. /\ FlattenSeq(us) \in Seq(Word) /\ us[n] \in Seq(Word)
        /\ Off(us, n - 1) \in Nat /\ Off(us, n) = Off(us, n - 1) + Len(us[n])
        /\ \A k \in 1..Len(us[n]) : FlattenSeq(us)[Off(us, n - 1) + k] = us[n][k]
    BY <1>2, Place
  <2>2. Off(us, Len(us)) = Len(FlattenSeq(us))
    BY <1>2, Ranges
  <2> QED BY <1>1, <1>3, <2>1, <2>2
<1>5. Len(u) = 4 /\ u[2] = e.time[1] /\ u[3] = e.time[2] /\ u[4] = e.time[3]
  BY <1>1, <1>3 DEF EndUnit
<1>6. b[(o + 1) + 1] = e.time[1] /\ b[(o + 1) + 2] = e.time[2] /\ b[(o + 1) + 3] = e.time[3]
  <2>1. b[o + 2] = u[2] /\ b[o + 3] = u[3] /\ b[o + 4] = u[4]
    BY <1>4, <1>5
  <2>2. (o + 1) + 1 = o + 2 /\ (o + 1) + 2 = o + 3 /\ (o + 1) + 3 = o + 4
    BY <1>4
  <2> QED BY <1>5, <2>1, <2>2
<1>7. PICK w : w = e.time
  OBVIOUS
<1>8. w \in Seq(Word) /\ Len(w) = 3
  <2>1. PICK t1 \in Word, t2 \in Word, t3 \in Word : w = <<t1, t2, t3>>
    BY <1>7
  <2> QED BY <2>1
<1>9. \A i \in 1..Len(w) : b[(o + 1) + i] = w[i]
  <2>1. \A i \in 1..Len(w) : i = 1 \/ i = 2 \/ i = 3
    BY <1>8
  <2> QED BY <1>6, <1>7, <2>1
<1>10. /\ o + 1 \in Nat /\ Len(b) = (o + 1) + Len(w) /\ Len(b) <= Len(b)
       /\ Len(b) - 2 = (o + 1) + 1
  BY <1>4, <1>5, <1>8
<1>11. SubSeq(b, (o + 1) + 1, Len(b)) = w
  BY <1>4, <1>8, <1>9, <1>10, PartIs
<1> QED BY <1>7, <1>10, <1>11

\* What the parser returns of the words of packets is what the event means; the
\* count stays when there is no packet.
LEMMA PackedParse ==
  ASSUME IsDCC, NEW e, IsEvent(e), NEW us, Closed(us), Packed(us, e), NEW t, NEW c,
         NEW p, p = DCC!ParseEventFromWords(FlattenSeq(us), t, c)
  PROVE  /\ p = [tS |-> p.tS, ev_count |-> p.ev_count, signals |-> p.signals]
         /\ p.tS = e.time /\ p.signals = Meaning(e).signals
         /\ p.ev_count = c \/ p.ev_count = e.count
         /\ DOMAIN Meaning(e).signals # {} => p.ev_count = e.count
<1>0. electronics \in Electronics
  BY DEF IsDCC
<1>1. PICK b, n : b = FlattenSeq(us) /\ n = Len(us)
  OBVIOUS
<1>2. /\ us \in Seq(Unit) /\ us \in Seq(Seq(Word)) /\ n \in Nat /\ n >= 1
      /\ \A k \in 1..n : Ends(us[k]) <=> k = n
  BY <1>1, UnitWords DEF Closed
<1>3. b \in Seq(Word) /\ Len(b) \in Nat
  BY <1>1, <1>2, Ranges, LenProperties
<1>4. PICK H : H = DCC!Packets(b)
  OBVIOUS
<1> DEFINE off(k) == Off(us, k - 1)
<1>5. H = {off(k) : k \in 1..n - 1}
  BY <1>0, <1>1, <1>4, PacketsUnits DEF IsDCC
<1>6. \A k \in 1..n - 1 : k \in 1..n /\ k # n /\ off(k) \in Nat /\ off(k) <= Len(b)
  <2>1. ASSUME NEW k \in 1..n - 1 PROVE k \in 1..n /\ k # n /\ off(k) \in Nat /\ off(k) <= Len(b)
    <3>1. k \in 1..n /\ k # n
      BY <1>2
    <3>2. /\ Off(us, k - 1) \in Nat /\ Off(us, k) = Off(us, k - 1) + Len(us[k])
          /\ Off(us, k) <= Len(FlattenSeq(us)) /\ us[k] \in Seq(Word)
      BY <1>1, <1>2, <3>1, Place
    <3>3. Len(us[k]) \in Nat
      BY <3>2, LenProperties
    <3>4. off(k) <= Len(b)
      BY <1>1, <1>3, <3>2, <3>3
    <3> QED BY <3>1, <3>2, <3>4
  <2> QED BY <2>1
<1>7. /\ DOMAIN e.hits = 1..Len(e.hits)
      /\ \A h : h \in RealHits(e) <=> (\E i \in 1..Len(e.hits) : h = e.hits[i]) /\ Real(h)
      /\ \A i \in 1..Len(e.hits) : IsHit(electronics, e.hits[i])
  <2>1. e.hits \in Seq(Range(e.hits))
    BY DEF IsEvent
  <2>2. DOMAIN e.hits = 1..Len(e.hits)
    BY <2>1
  <2>3. \A h : h \in Range(e.hits) <=> \E i \in 1..Len(e.hits) : h = e.hits[i]
    BY <2>2 DEF Range
  <2> QED BY <2>2, <2>3 DEF RealHits, IsEvent
<1>8. ASSUME NEW k \in 1..n - 1, NEW i \in 1..Len(e.hits), PacketUnit(us[k], e.hits[i], e)
      PROVE  PacketRead(b, off(k), e.hits[i], e)
  <2>1. IsHit(electronics, e.hits[i]) /\ IsCount(e.count) /\ k \in 1..Len(us) - 1
    BY <1>1, <1>7 DEF IsEvent
  <2> QED BY <1>1, <1>8, <2>1, PacketIsRead
<1>9. \A k \in 1..n - 1 : \E i \in 1..Len(e.hits) : PacketRead(b, off(k), e.hits[i], e)
  <2>1. ASSUME NEW k \in 1..n - 1
        PROVE  \E i \in 1..Len(e.hits) : PacketRead(b, off(k), e.hits[i], e)
    <3>1. ~Ends(us[k]) /\ k \in 1..Len(us)
      BY <1>1, <1>2, <1>6
    <3>2. PICK i \in 1..Len(e.hits) : PacketUnit(us[k], e.hits[i], e)
      BY <3>1 DEF Packed
    <3> QED BY <1>8, <3>2
  <2> QED BY <2>1
<1>10. \A i \in 1..Len(e.hits) : \E k \in 1..n - 1 : PacketRead(b, off(k), e.hits[i], e)
  <2>1. ASSUME NEW i \in 1..Len(e.hits)
        PROVE  \E k \in 1..n - 1 : PacketRead(b, off(k), e.hits[i], e)
    <3>1. PICK k \in 1..Len(us) : PacketUnit(us[k], e.hits[i], e)
      BY DEF Packed
    <3>2. k \in 1..n - 1
      <4>1. k # n
        BY <1>1, <1>2, <3>1 DEF PacketUnit
      <4> QED BY <1>1, <1>2, <4>1
    <3> QED BY <1>8, <3>1, <3>2
  <2> QED BY <2>1
<1>11. PICK counted, stored : counted = DCC!Counted(b) /\ stored = DCC!Stored(b)
  OBVIOUS
<1>12. /\ counted = {i \in H : ~DCC!Empty(b, i)}
       /\ stored = {i \in counted : HasChannel(b, i)}
  BY <1>4, <1>11 DEF DCC!Counted, DCC!Stored, HasChannel
<1>13. PICK ch, pv : /\ ch = [i \in stored |-> DCC!physChannel(b, i)]
                     /\ pv = [i \in stored |-> DCC!Pulse(SamplesAt(b, i))]
  OBVIOUS
<1>14. stored \subseteq Nat /\ counted \subseteq 0..Len(b) /\ stored \subseteq counted
  BY <1>3, <1>5, <1>6, <1>12
<1>15. ASSUME NEW k \in 1..n - 1, NEW i \in 1..Len(e.hits), PacketRead(b, off(k), e.hits[i], e)
       PROVE  /\ off(k) \in stored <=> e.hits[i] \in RealHits(e)
              /\ off(k) \in stored => /\ ch[off(k)] = Number(e.hits[i])
                                      /\ pv[off(k)] = Values(e.hits[i].pulse)
  <2>1. off(k) \in H
    BY <1>5
  <2>2. PICK o, h : o = off(k) /\ h = e.hits[i]
    OBVIOUS
  <2>3. o \in stored <=> ~Blank(h.pulse) /\ h.chan \notin FixedPattern
    BY <1>12, <1>15, <2>1, <2>2 DEF PacketRead
  <2>4. h \in RealHits(e) <=> ~Blank(h.pulse) /\ h.chan \notin FixedPattern
    <3>1. electronics = "DCC"
      BY DEF IsDCC, Electronics
    <3> QED BY <1>7, <2>2, <3>1 DEF Real
  <2>5. o \in stored => ch[o] = Number(h) /\ pv[o] = Values(h.pulse)
    BY <1>13, <1>15, <2>2, <2>3 DEF PacketRead
  <2> QED BY <2>2, <2>3, <2>4, <2>5
<1>16. Agrees(stored, ch, pv, RealHits(e))
  <2>1. ASSUME NEW j \in stored
        PROVE  \E h \in RealHits(e) : ch[j] = Number(h) /\ pv[j] = Values(h.pulse)
    <3>1. PICK k \in 1..n - 1 : j = off(k)
      BY <1>5, <1>12
    <3>2. PICK i \in 1..Len(e.hits) : PacketRead(b, off(k), e.hits[i], e)
      BY <1>9
    <3> QED BY <1>15, <3>1, <3>2
  <2>2. ASSUME NEW h \in RealHits(e) PROVE \E j \in stored : ch[j] = Number(h)
    <3>1. PICK i \in 1..Len(e.hits) : h = e.hits[i]
      BY <1>7
    <3>2. PICK k \in 1..n - 1 : PacketRead(b, off(k), e.hits[i], e)
      BY <1>10
    <3> QED BY <1>15, <3>1, <3>2
  <2>3. ASSUME NEW g \in RealHits(e), NEW h \in RealHits(e), Number(g) = Number(h) PROVE g = h
    <3>1. PICK i \in 1..Len(e.hits) : g = e.hits[i]
      BY <1>7
    <3>2. PICK j \in 1..Len(e.hits) : h = e.hits[j]
      BY <1>7
    <3>3. g.chan \notin FixedPattern /\ h.chan \notin FixedPattern
      <4>1. electronics = "DCC"
        BY DEF IsDCC, Electronics
      <4> QED BY <1>7, <4>1 DEF Real
    <3>4. <<g.card, g.chip, g.chan>> = <<h.card, h.chip, h.chan>>
      BY <1>7, <2>3, <3>1, <3>2, <3>3, PacketUnique
    <3>5. i = j
      BY <1>7, <3>1, <3>2, <3>4 DEF IsEvent
    <3> QED BY <3>1, <3>2, <3>5
  <2> QED BY <2>1, <2>2, <2>3 DEF Agrees
<1>17. [x \in {ch[i] : i \in stored} |-> pv[Min({i \in stored : ch[i] = x})]] = Meaning(e).signals
  BY <1>14, <1>16, SignalsAre, Zenon
<1>18. p = [tS |-> SubSeq(b, Len(b) - 2, Len(b)),
            ev_count |-> IF counted = {} THEN c
                         ELSE <<0, DCC!ecnt(b, DCC!Max(counted)) % 16384>>,
            signals |-> [x \in {DCC!physChannel(b, i) : i \in stored} |->
              DCC!Pulse(SamplesAt(b, DCC!Min({i \in stored : DCC!physChannel(b, i) = x})))]]
  BY <1>1, <1>11 DEF DCC!ParseEventFromWords, SamplesAt
<1>19. p.signals = Meaning(e).signals
  <2>1. {DCC!physChannel(b, i) : i \in stored} = {ch[i] : i \in stored}
    BY <1>13
  <2>2. \A x : {i \in stored : DCC!physChannel(b, i) = x} = {i \in stored : ch[i] = x}
    BY <1>13
  <2>3. \A s : DCC!Min(s) = Min(s)
    BY DEF DCC!Min, Min
  <2>4. p.signals = [x \in {ch[i] : i \in stored} |->
                       DCC!Pulse(SamplesAt(b, Min({i \in stored : ch[i] = x})))]
    <3> DEFINE m(x) == DCC!Min({i \in stored : DCC!physChannel(b, i) = x})
    <3>1. p.signals = [x \in {DCC!physChannel(b, i) : i \in stored} |->
                         DCC!Pulse(SamplesAt(b, m(x)))]
      BY <1>18
    <3>2. \A x : m(x) = Min({i \in stored : ch[i] = x})
      BY <2>2, <2>3
    <3> HIDE DEF m
    <3> QED BY <2>1, <3>1, <3>2
  <2>5. ASSUME NEW x \in {ch[i] : i \in stored}
        PROVE  DCC!Pulse(SamplesAt(b, Min({i \in stored : ch[i] = x})))
                 = pv[Min({i \in stored : ch[i] = x})]
    <3> DEFINE T == {i \in stored : ch[i] = x}
    <3>1. T \subseteq Nat /\ T # {} /\ T \subseteq stored
      BY <1>14
    <3>2. Min(T) \in stored
      <4> HIDE DEF T
      <4> QED BY <3>1, MinOfNats
    <3> QED BY <1>13, <3>2
  <2> QED BY <1>17, <2>4, <2>5
<1>20. counted # {} => p.ev_count = e.count
  <2>1. ASSUME counted # {} PROVE p.ev_count = e.count
    <3>1. PICK m : m = Max(counted)
      OBVIOUS
    <3>2. m \in counted /\ DCC!Max(counted) = m
      <4>1. Max(counted) \in counted
        BY <1>3, <1>14, <2>1, MaxOfNumbers
      <4> QED BY <3>1, <4>1 DEF DCC!Max, Max
    <3>3. PICK k \in 1..n - 1 : m = off(k)
      BY <1>5, <1>12, <3>2
    <3>4. PICK i \in 1..Len(e.hits) : PacketRead(b, off(k), e.hits[i], e)
      BY <1>9
    <3>5. CountAt(b, m) = e.count[2]
      BY <3>3, <3>4 DEF PacketRead
    <3>6. p.ev_count = <<0, CountAt(b, m)>>
      BY <1>18, <2>1, <3>2 DEF CountAt
    <3>7. e.count \in Word \X Word /\ e.count[1] = 0
      BY DEF IsEvent, IsCount, IsDCC, Electronics
    <3> QED BY <3>5, <3>6, <3>7
  <2> QED BY <2>1
<1>21. counted = {} => p.ev_count = c
  BY <1>18
<1>22. DOMAIN Meaning(e).signals # {} => counted # {}
  <2>1. DOMAIN Meaning(e).signals = {ch[i] : i \in stored}
    BY <1>17
  <2> QED BY <1>14, <2>1
<1>23. p.tS = e.time
  <2>1. EndUnit(us[Len(us)], e) /\ e.time \in Word \X Word \X Word
    <3>1. Len(us) \in 1..Len(us) /\ Ends(us[Len(us)])
      BY <1>1, <1>2
    <3> QED BY <3>1 DEF Packed, IsEvent
  <2>2. SubSeq(b, Len(b) - 2, Len(b)) = e.time
    BY <1>0, <1>1, <2>1, TimeRead
  <2> QED BY <1>18, <2>2
<1>24. p = [tS |-> p.tS, ev_count |-> p.ev_count, signals |-> p.signals]
  BY <1>18
<1> QED BY <1>19, <1>20, <1>21, <1>22, <1>23, <1>24

(***************************************************************************)
(* The builder's operators are those of the electronics in use.            *)
(***************************************************************************)
LEMMA ExtractSame ==
  ASSUME electronics \in Electronics
  PROVE  TryExtractNextEvent = F!TryExtractNextEvent(buffer, bufferIndex)
<1>1. CASE electronics = "ARC"
  <2>1. /\ \A w : ARC!Skip(w) = SkipOf(w)
        /\ ARC!EndOfEvent = EndOfEvent
    BY <1>1 DEF SkipOf, EndOfEvent, Of
  <2> HIDE DEF EndOfEvent
  <2>2. \A b, i : ARC!Scan(b, i) = F!Scan(b, i)
    BY <2>1 DEF ARC!Scan, F!Scan, ARC!At, F!At
  <2>3. \A b, i : ARC!TryExtractNextEvent(b, i) = F!TryExtractNextEvent(b, i)
    BY <2>1, <2>2, ZenonT(40) DEF ARC!TryExtractNextEvent, F!TryExtractNextEvent, ARC!At, F!At,
                      ARC!Min, F!Min
  <2> QED BY <1>1, <2>3 DEF TryExtractNextEvent
<1>2. CASE electronics = "FEMINOS" /\ electronics # "ARC"
  <2>1. /\ \A w : FEMINOS!Skip(w) = SkipOf(w)
        /\ FEMINOS!EndOfEvent = EndOfEvent
    BY <1>2 DEF SkipOf, EndOfEvent, Of
  <2> HIDE DEF EndOfEvent
  <2>2. \A b, i : FEMINOS!Scan(b, i) = F!Scan(b, i)
    BY <2>1 DEF FEMINOS!Scan, F!Scan, FEMINOS!At, F!At
  <2>3. \A b, i : FEMINOS!TryExtractNextEvent(b, i) = F!TryExtractNextEvent(b, i)
    BY <2>1, <2>2, ZenonT(40) DEF FEMINOS!TryExtractNextEvent, F!TryExtractNextEvent, FEMINOS!At, F!At,
                      FEMINOS!Min, F!Min
  <2> QED BY <1>2, <2>3 DEF TryExtractNextEvent
<1>3. CASE electronics # "ARC" /\ electronics # "FEMINOS"
  <2>1. /\ \A w : DCC!Skip(w) = SkipOf(w)
        /\ DCC!EndOfEvent = EndOfEvent
    BY <1>3 DEF SkipOf, EndOfEvent, Of
  <2> HIDE DEF EndOfEvent
  <2>2. \A b, i : DCC!Scan(b, i) = F!Scan(b, i)
    BY <2>1 DEF DCC!Scan, F!Scan, DCC!At, F!At
  <2>3. \A b, i : DCC!TryExtractNextEvent(b, i) = F!TryExtractNextEvent(b, i)
    BY <2>1, <2>2, ZenonT(40) DEF DCC!TryExtractNextEvent, F!TryExtractNextEvent, DCC!At, F!At,
                      DCC!Min, F!Min
  <2> QED BY <1>3, <2>3 DEF TryExtractNextEvent
<1> QED BY <1>1, <1>2, <1>3

\* Parsing frames.
LEMMA ParseSame ==
  ASSUME electronics = "ARC" \/ electronics = "FEMINOS", NEW b
  PROVE  ParseEventFromWords(b) = F!ParseEventFromWords(b, tS, ev_count)
<1>1. CASE electronics = "ARC"
  <2>1. /\ \A w : ARC!Skip(w) = SkipOf(w)
        /\ ARC!EndOfEvent = EndOfEvent /\ ARC!StartOfEvent = StartOfEvent
        /\ ARC!HitIndex = HitIndex /\ ARC!AdcSample = AdcSample /\ ARC!TimeBin = TimeBin
    BY <1>1 DEF SkipOf, EndOfEvent, StartOfEvent, HitIndex, AdcSample, TimeBin, Of
  <2> HIDE DEF EndOfEvent, StartOfEvent, HitIndex, AdcSample, TimeBin
  <2>2. \A e, j : ARC!PulseWords(e, j) = F!PulseWords(e, j)
    BY <2>1 DEF ARC!PulseWords, F!PulseWords, ARC!At, F!At, ARC!Min, F!Min
  <2>3. ARC!Headers(b) = F!Headers(b)
    BY <2>1, <2>2 DEF ARC!Headers, F!Headers, ARC!At, F!At
  <2>4. \A e : ARC!timeBin(e) = F!timeBin(e)
    BY <2>1 DEF ARC!timeBin, F!timeBin
  <2>5. ASSUME NEW e, NEW q PROVE ARC!sData(e, q) = F!sData(e, q)
    <3>1. \A s : ARC!Max(s) = F!Max(s)
      BY DEF ARC!Max, F!Max
    <3>2. PICK g : g = F!timeBin(e) /\ g = ARC!timeBin(e)
      BY <2>4
    <3>3. F!sData(e, q) = [x \in {g[k] : k \in q} |-> e[F!Max({k \in q : g[k] = x})] % 4096]
      BY <3>2 DEF F!sData
    <3>4. ARC!sData(e, q)
            = [x \in {g[k] : k \in q} |-> e[ARC!Max({k \in q : g[k] = x})] % 4096]
      BY <3>2 DEF ARC!sData
    <3> QED BY <3>1, <3>3, <3>4
  <2>6. \A e : ARC!Pulse(e) = F!Pulse(e)
    BY <2>1, <2>4, <2>5 DEF ARC!Pulse, F!Pulse
  <2>7. \A w : ARC!physChannel(w) = F!physChannel(w)
    BY DEF ARC!physChannel, F!physChannel
  <2>8. ARC!ParseEventFromWords(b, tS, ev_count) = F!ParseEventFromWords(b, tS, ev_count)
    BY <2>1, <2>2, <2>3, <2>6, <2>7, SMTT(30)
       DEF ARC!ParseEventFromWords, F!ParseEventFromWords, ARC!At, F!At, ARC!Min, F!Min,
           ARC!Max, F!Max
  <2> QED BY <1>1, <2>8 DEF ParseEventFromWords
<1>2. CASE electronics = "FEMINOS" /\ electronics # "ARC"
  <2>1. /\ \A w : FEMINOS!Skip(w) = SkipOf(w)
        /\ FEMINOS!EndOfEvent = EndOfEvent /\ FEMINOS!StartOfEvent = StartOfEvent
        /\ FEMINOS!HitIndex = HitIndex /\ FEMINOS!AdcSample = AdcSample
        /\ FEMINOS!TimeBin = TimeBin
    BY <1>2 DEF SkipOf, EndOfEvent, StartOfEvent, HitIndex, AdcSample, TimeBin, Of
  <2> HIDE DEF EndOfEvent, StartOfEvent, HitIndex, AdcSample, TimeBin
  <2>2. \A e, j : FEMINOS!PulseWords(e, j) = F!PulseWords(e, j)
    BY <2>1 DEF FEMINOS!PulseWords, F!PulseWords, FEMINOS!At, F!At, FEMINOS!Min, F!Min
  <2>3. FEMINOS!Headers(b) = F!Headers(b)
    BY <2>1, <2>2 DEF FEMINOS!Headers, F!Headers, FEMINOS!At, F!At
  <2>4. \A e : FEMINOS!timeBin(e) = F!timeBin(e)
    BY <2>1 DEF FEMINOS!timeBin, F!timeBin
  <2>5. ASSUME NEW e, NEW q PROVE FEMINOS!sData(e, q) = F!sData(e, q)
    <3>1. \A s : FEMINOS!Max(s) = F!Max(s)
      BY DEF FEMINOS!Max, F!Max
    <3>2. PICK g : g = F!timeBin(e) /\ g = FEMINOS!timeBin(e)
      BY <2>4
    <3>3. F!sData(e, q) = [x \in {g[k] : k \in q} |-> e[F!Max({k \in q : g[k] = x})] % 4096]
      BY <3>2 DEF F!sData
    <3>4. FEMINOS!sData(e, q)
            = [x \in {g[k] : k \in q} |-> e[FEMINOS!Max({k \in q : g[k] = x})] % 4096]
      BY <3>2 DEF FEMINOS!sData
    <3> QED BY <3>1, <3>3, <3>4
  <2>6. \A e : FEMINOS!Pulse(e) = F!Pulse(e)
    BY <2>1, <2>4, <2>5 DEF FEMINOS!Pulse, F!Pulse
  <2>7. \A w : FEMINOS!physChannel(w) = F!physChannel(w)
    BY DEF FEMINOS!physChannel, F!physChannel
  <2>8. FEMINOS!ParseEventFromWords(b, tS, ev_count) = F!ParseEventFromWords(b, tS, ev_count)
    BY <2>1, <2>2, <2>3, <2>6, <2>7, SMTT(30)
       DEF FEMINOS!ParseEventFromWords, F!ParseEventFromWords, FEMINOS!At, F!At,
           FEMINOS!Min, F!Min, FEMINOS!Max, F!Max
  <2> QED BY <1>2, <2>8 DEF ParseEventFromWords
<1> QED BY <1>1, <1>2

\* The packets in the buffer are those that were sent.
LEMMA MadePacked ==
  ASSUME NEW us, NEW r, NEW e, Made(us, r), Packed(r, e), Framing = {}
  PROVE  Packed(us, e)
<1>1. \A k \in 1..Len(us) : \E i \in 1..Len(r) : us[k] = r[i]
  BY DEF Made
<1>2. \A k \in 1..Len(us) : Ends(us[k]) => EndUnit(us[k], e)
  BY <1>1 DEF Packed
<1>3. \A k \in 1..Len(us) : ~Ends(us[k]) => \E i \in 1..Len(e.hits) : PacketUnit(us[k], e.hits[i], e)
  BY <1>1 DEF Packed
<1>4. ASSUME NEW i \in 1..Len(e.hits) PROVE \E k \in 1..Len(us) : PacketUnit(us[k], e.hits[i], e)
  <2>1. PICK j \in 1..Len(r) : PacketUnit(r[j], e.hits[i], e)
    BY DEF Packed
  <2>2. PICK k \in 1..Len(us) : us[k] = r[j]
    BY DEF Made
  <2> QED BY <2>1, <2>2
<1> QED BY <1>2, <1>3, <1>4 DEF Packed

\* A channel has a number.
LEMMA NumberType ==
  ASSUME electronics \in Electronics, NEW h, IsHit(electronics, h), Real(h)
  PROVE  Number(h) \in Nat
<1>1. PICK c, a, f : c = h.chan /\ a = h.chip /\ f = h.card
  OBVIOUS
<1>2. CASE electronics = "ARC"
  <2>1. c \in Int /\ 0 <= c /\ a \in Int /\ 0 <= a /\ f \in Int /\ 0 <= f
    BY <1>1, <1>2, HitRanges DEF HitBounds
  <2>2. Number(h) = c + 72 * (a + 16 * f)
    BY <1>1, <1>2 DEF Number
  <2> QED BY <2>1, <2>2
<1>3. CASE electronics = "FEMINOS" /\ electronics # "ARC"
  <2>1. c \in Int /\ 0 <= c /\ a \in Int /\ 0 <= a /\ f \in Int /\ 0 <= f
    BY <1>1, <1>3, HitRanges DEF HitBounds
  <2>2. Number(h) = c + 72 * (a + 4 * f)
    BY <1>1, <1>3 DEF Number
  <2> QED BY <2>1, <2>2
<1>4. CASE electronics = "DCC" /\ electronics # "ARC" /\ electronics # "FEMINOS"
  <2>1. c \in Int /\ 3 <= c /\ c <= 78 /\ a \in Int /\ 0 <= a /\ f \in Int /\ 0 <= f
    BY <1>1, <1>4, HitRanges DEF HitBounds
  <2>2. c \notin FixedPattern
    BY <1>1, <1>4 DEF Real
  <2>3. PICK x : x = Below(c)
    OBVIOUS
  <2>4. x \in Int /\ 0 <= x
    BY <2>1, <2>2, <2>3, RankBelow
  <2>5. Number(h) = x + 72 * (a + 4 * f)
    BY <1>1, <1>4, <2>3 DEF Number, Below
  <2> QED BY <2>1, <2>4, <2>5
<1> QED BY <1>2, <1>3, <1>4, ElectronicsOf

\* What events mean names channels, and samples in bins.
LEMMA MeaningType ==
  ASSUME electronics \in Electronics, NEW e, IsEvent(e), NEW c \in DOMAIN Meaning(e).signals
  PROVE  /\ c \in Nat
         /\ \A b \in DOMAIN Meaning(e).signals[c] :
              b \in BinNo /\ Meaning(e).signals[c][b] \in Amplitude
<1> DEFINE hit(x) == CHOOSE h \in RealHits(e) : Number(h) = x
<1>1. Meaning(e).signals = [x \in {Number(h) : h \in RealHits(e)} |-> Values(hit(x).pulse)]
  BY DEF Meaning, RealHits
<1>2. c \in {Number(h) : h \in RealHits(e)} /\ Meaning(e).signals[c] = Values(hit(c).pulse)
  <2> HIDE DEF hit
  <2> QED BY <1>1
<1>3. PICK g : g = hit(c)
  OBVIOUS
<1>4. g \in RealHits(e) /\ Number(g) = c
  BY <1>2, <1>3
<1>5. IsHit(electronics, g) /\ Real(g)
  BY <1>4 DEF RealHits, Range, IsEvent
<1>6. c \in Nat
  BY <1>4, <1>5, NumberType
<1>7. \A b \in DOMAIN Values(g.pulse) : b \in BinNo /\ Values(g.pulse)[b] \in Amplitude
  <2>1. IsPulse(g.pulse)
    BY <1>5, HitRanges
  <2>2. PICK words : words = PulseRecord(g.pulse, BinCode, SampleCode)
    OBVIOUS
  <2>3. PICK P : P = {k \in DOMAIN words : words[k] \in AdcSample}
    OBVIOUS
  <2> QED BY <2>1, <2>2, <2>3, PulseValues
<1> QED BY <1>2, <1>3, <1>6, <1>7

\* Whatever framing words are among its records, an event is stored as it was
\* meant, unless it has no signals.
LEMMA EventRead ==
  ASSUME electronics \in Electronics, NEW e, IsEvent(e), NEW us, Closed(us),
         Made(us, Records(e)), tS \in Seq(Word), ev_count \in Seq(Word),
         NEW p, p = ParseEventFromWords(FlattenSeq(us))
  PROVE  /\ p.tS \in Seq(Word) /\ p.ev_count \in Seq(Word) /\ Kept(p) = Kept(Meaning(e))
         /\ (IF DOMAIN p.signals = {} THEN <<>> ELSE <<p>>) = Kept(p)
<1>1. /\ Meaning(e) = [tS |-> e.time, ev_count |-> e.count, signals |-> Meaning(e).signals]
      /\ e.time \in Seq(Word) /\ e.count \in Seq(Word)
  <2>1. PICK t1 \in Word, t2 \in Word, t3 \in Word : e.time = <<t1, t2, t3>>
    BY DEF IsEvent
  <2>2. PICK c1 \in Word, c2 \in Word : e.count = <<c1, c2>>
    BY DEF IsEvent, IsCount
  <2>3. e.time \in Seq(Word) /\ e.count \in Seq(Word)
    BY <2>1, <2>2
  <2> QED BY <2>3 DEF Meaning
<1>2. CASE electronics = "ARC" \/ electronics = "FEMINOS"
  <2>1. Covers(us, e)
    BY <1>2, FramedRecords, MadeCovers
  <2>2. p = Meaning(e)
    BY <1>2, <2>1, ParseSame, FramedParse
  <2> QED BY <1>1, <2>2 DEF Kept
<1>3. CASE electronics # "ARC" /\ electronics # "FEMINOS"
  <2>1. IsDCC
    BY <1>3 DEF IsDCC
  <2>2. Packed(us, e)
    BY <1>3, PackedRecords, MadePacked
  <2>3. p = DCC!ParseEventFromWords(FlattenSeq(us), tS, ev_count)
    BY <1>3 DEF ParseEventFromWords
  <2>4. /\ p = [tS |-> p.tS, ev_count |-> p.ev_count, signals |-> p.signals]
        /\ p.tS = e.time /\ p.signals = Meaning(e).signals
        /\ p.ev_count = ev_count \/ p.ev_count = e.count
        /\ DOMAIN Meaning(e).signals # {} => p.ev_count = e.count
    BY <2>1, <2>2, <2>3, PackedParse
  <2>5. DOMAIN Meaning(e).signals # {} => p = Meaning(e)
    BY <1>1, <2>4
  <2>6. Kept(p) = Kept(Meaning(e))
    <3>1. CASE DOMAIN Meaning(e).signals = {}
      BY <2>4, <3>1 DEF Kept
    <3>2. CASE DOMAIN Meaning(e).signals # {}
      BY <2>5, <3>2
    <3> QED BY <3>1, <3>2
  <2> QED BY <1>1, <2>4, <2>6 DEF Kept
<1> QED BY <1>2, <1>3

(***************************************************************************)
(* What is in the buffer.                                                  *)
(***************************************************************************)
\* The front end's events, each as its records and as what is kept of it.
Events(sn) ==
  /\ sn \in Seq(Range(sn)) /\ Len(sn) \in 0..MaxEvents
  /\ \A i \in 1..Len(sn) : IsEvent(sn[i])
RecordsOf(sn) == [i \in DOMAIN sn |-> Records(sn[i])]
KeptOf(sn) == [i \in DOMAIN sn |-> Kept(Meaning(sn[i]))]

\* The parts behind the first d, and these.
Behind(f, d) == FlattenSeq(SubSeq(f, d + 1, Len(f)))
Before(f, d) == FlattenSeq(SubSeq(f, 1, d))

\* The records behind those of d events, and what is kept of these events.
RestOf(sn, d) == Behind(RecordsOf(sn), d)
StoredOf(sn, d) == Before(KeptOf(sn), d)

\* Units that are no framing.
Clean(us) == us \in Seq(Unit) /\ \A k \in 1..Len(us) : us[k] \notin Framing

\* The buffer holds the units us, of which the first j were looked at and are
\* no end; the frame that is filled holds fs.
Buffered(us, fs, j, bu, bi, fr) ==
  /\ us \in Seq(Unit) /\ bu = FlattenSeq(us)
  /\ j \in 0..Len(us) /\ bi = Off(us, j) /\ \A k \in 1..j : ~Ends(us[k])
  /\ Clean(fs) /\ fr = FlattenSeq(fs) /\ Len(fr) + 4 <= FrameWords

\* The first d events are stored; of the others all records are in the buffer,
\* the frame or still to be put into one.
Pending(us, fs, td, sn, d, pa) ==
  /\ Events(sn) /\ d \in 0..Len(sn) /\ Clean(td)
  /\ Strip(us) \o fs \o td = RestOf(sn, d)
  /\ pa = StoredOf(sn, d)

\* An event has records.
LEMMA EventRecords ==
  ASSUME electronics \in Electronics, NEW e, IsEvent(e)
  PROVE  EventUnits(Records(e)) /\ Clean(Records(e))
<1>1. EventUnits(Records(e))
  BY FramedRecords, PackedRecords
<1> QED BY <1>1 DEF EventUnits, Clean

\* The records of all events are a sequence of sequences.
LEMMA RecordsSeq ==
  ASSUME electronics \in Electronics, NEW sn, Events(sn)
  PROVE  /\ RecordsOf(sn) \in Seq(Seq(Unit)) /\ Len(sn) \in Nat
         /\ Len(RecordsOf(sn)) = Len(sn)
         /\ \A i \in 1..Len(sn) : RecordsOf(sn)[i] = Records(sn[i])
<1>1. sn \in Seq(Range(sn)) /\ DOMAIN sn = 1..Len(sn) /\ Len(sn) \in Nat
  <2>1. sn \in Seq(Range(sn))
    BY DEF Events
  <2> QED BY <2>1
<1>2. \A i \in 1..Len(sn) : Records(sn[i]) \in Seq(Unit)
  BY EventRecords DEF Events, EventUnits
<1>3. PICK T : T = Seq(Unit)
  OBVIOUS
<1>4. RecordsOf(sn) \in Seq(T) /\ Len(RecordsOf(sn)) = Len(sn)
  BY <1>1, <1>2, <1>3 DEF RecordsOf
<1> QED BY <1>1, <1>3, <1>4 DEF RecordsOf

\* What is kept are meanings of events.
Meanings(sn) == {Meaning(sn[i]) : i \in DOMAIN sn}

\* So is what is kept of them.
LEMMA KeptSeq ==
  ASSUME NEW sn, Events(sn)
  PROVE  /\ KeptOf(sn) \in Seq(Seq(Meanings(sn))) /\ Len(KeptOf(sn)) = Len(sn)
         /\ \A i \in 1..Len(sn) : KeptOf(sn)[i] = Kept(Meaning(sn[i]))
<1>1. sn \in Seq(Range(sn)) /\ DOMAIN sn = 1..Len(sn) /\ Len(sn) \in Nat
  <2>1. sn \in Seq(Range(sn))
    BY DEF Events
  <2> QED BY <2>1
<1>2. PICK T : T = Seq(Meanings(sn))
  OBVIOUS
<1>3. \A i \in 1..Len(sn) : Kept(Meaning(sn[i])) \in T
  <2>1. ASSUME NEW i \in 1..Len(sn) PROVE Kept(Meaning(sn[i])) \in T
    <3>1. PICK m : m = Meaning(sn[i])
      OBVIOUS
    <3>2. m \in Meanings(sn)
      BY <1>1, <3>1 DEF Meanings
    <3>3. <<>> \in T /\ <<m>> \in T
      BY <1>2, <3>2
    <3> QED BY <3>1, <3>3 DEF Kept
  <2> QED BY <2>1
<1>4. KeptOf(sn) \in Seq(T) /\ Len(KeptOf(sn)) = Len(sn)
  BY <1>1, <1>3 DEF KeptOf
<1> QED BY <1>1, <1>2, <1>4 DEF KeptOf

\* A sequence at the end of others.

\* One part more goes behind the others.
LEMMA PartsAppend ==
  ASSUME NEW S, NEW f, f \in Seq(Seq(S)), NEW x, x \in Seq(S), NEW d, d \in 0..Len(f)
  PROVE  /\ Behind(Append(f, x), d) = Behind(f, d) \o x
         /\ Before(Append(f, x), d) = Before(f, d)
<1>0. PICK g : g = Append(f, x)
  OBVIOUS
<1>1. PICK T : T = Seq(S)
  OBVIOUS
<1>2. f \in Seq(T) /\ x \in T /\ g \in Seq(T) /\ Len(g) = Len(f) + 1 /\ Len(f) \in Nat
      /\ d \in Nat /\ d <= Len(f)
  BY <1>0, <1>1
<1> DEFINE a == SubSeq(f, d + 1, Len(f))
           b == SubSeq(g, d + 1, Len(f) + 1)
<1>3. b = Append(a, x)
  <2>1. PICK n \in Nat : n = Len(f)
    BY <1>2
  <2>2. d \in Nat /\ d <= n /\ \A i \in 1..n : g[i] = f[i]
    BY <1>0, <1>2, <2>1
  <2>3. g[n + 1] = x
    BY <1>0, <1>2, <2>1
  <2>4. a \in Seq(T) /\ Len(a) = n - d /\ \A i \in 1..n - d : a[i] = f[d + i]
    BY <1>2, <2>1, PartOf
  <2>5. b \in Seq(T) /\ Len(b) = n + 1 - d /\ \A i \in 1..n + 1 - d : b[i] = g[d + i]
    <3>1. d <= n + 1 /\ n + 1 \in Int /\ n + 1 <= Len(g)
      BY <1>2, <2>1
    <3> QED BY <1>2, <2>1, <3>1, PartOf
  <2> HIDE DEF a, b
  <2>6. PICK c : c = Append(a, x)
    OBVIOUS
  <2>7. c \in Seq(T) /\ Len(c) = n + 1 - d /\ c[n - d + 1] = x
        /\ \A i \in 1..n - d : c[i] = a[i]
    BY <1>2, <2>1, <2>4, <2>6
  <2>8. ASSUME NEW i \in 1..n + 1 - d PROVE b[i] = c[i]
    <3>1. CASE i = n + 1 - d
      <4>1. d + i = n + 1 /\ i = n - d + 1
        BY <1>2, <2>1, <3>1
      <4> QED BY <2>3, <2>5, <2>7, <4>1
    <3>2. CASE i # n + 1 - d
      <4>1. i \in 1..n - d /\ d + i \in 1..n
        <5>1. d \in Nat /\ i \in Int /\ 1 <= i /\ i <= n + 1 - d
          BY <2>2
        <5> QED BY <3>2, <5>1
      <4> QED BY <2>2, <2>4, <2>5, <2>7, <4>1
    <3> QED BY <3>1, <3>2
  <2>9. b = c
    BY <2>5, <2>7, <2>8
  <2> QED BY <2>6, <2>9
<1>4. SubSeq(g, 1, d) = SubSeq(f, 1, d)
  BY <1>0, <1>2
<1>5. a \in Seq(T)
  BY <1>2
<1> HIDE DEF a, b
<1>6. FlattenSeq(b) = FlattenSeq(a) \o x
  BY <1>1, <1>3, <1>5, FlattenAppend
<1>7. Behind(g, d) = Behind(f, d) \o x /\ Before(g, d) = Before(f, d)
  BY <1>2, <1>4, <1>6 DEF a, b, Behind, Before
<1> QED BY <1>0, <1>7

\* The next one of several sequences.
LEMMA PartsNext ==
  ASSUME NEW S, NEW f, f \in Seq(Seq(S)), NEW d, d \in 0..Len(f) - 1
  PROVE  /\ d + 1 \in 1..Len(f) /\ f[d + 1] \in Seq(S) /\ Behind(f, d + 1) \in Seq(S)
         /\ Behind(f, d) = f[d + 1] \o Behind(f, d + 1)
         /\ Before(f, d + 1) = Before(f, d) \o f[d + 1]
<1>1. PICK T : T = Seq(S)
  OBVIOUS
<1>2. f \in Seq(T) /\ Len(f) \in Nat /\ d \in Nat /\ d + 1 \in 1..Len(f) /\ d + 1 \in 0..Len(f)
      /\ d \in 0..Len(f)
  BY <1>1
<1>3. f[d + 1] \in T
  BY <1>2
<1> DEFINE rest(i) == SubSeq(f, i + 1, Len(f))
           done(i) == SubSeq(f, 1, i)
<1>4. rest(d) = <<f[d + 1]>> \o rest(d + 1) /\ rest(d + 1) \in Seq(T)
  BY <1>2
<1>5. done(d + 1) = Append(done(d), f[d + 1]) /\ done(d) \in Seq(T)
  BY <1>2
<1> HIDE DEF rest, done
<1>6. FlattenSeq(done(d + 1)) = FlattenSeq(done(d)) \o f[d + 1]
  BY <1>1, <1>3, <1>5, FlattenAppend
<1>7. FlattenSeq(rest(d)) = f[d + 1] \o FlattenSeq(rest(d + 1)) /\ FlattenSeq(rest(d + 1)) \in Seq(S)
  <2>1. PICK y : y = f[d + 1]
    OBVIOUS
  <2>2. <<>> \in Seq(T) /\ y \in Seq(S) /\ Append(<<>>, y) = <<y>> /\ <<y>> \in Seq(T)
    BY <1>1, <1>3, <2>1
  <2>3. FlattenSeq(<<y>>) = <<>> \o y
    BY <1>1, <2>2, FlattenAppend, FlattenNone
  <2>4. FlattenSeq(<<y>>) = y
    BY <2>2, <2>3
  <2>5. FlattenSeq(<<y>> \o rest(d + 1)) = FlattenSeq(<<y>>) \o FlattenSeq(rest(d + 1))
        /\ FlattenSeq(rest(d + 1)) \in Seq(S)
    BY <1>1, <1>4, <2>2, FlattenConcat
  <2> QED BY <1>4, <2>1, <2>4, <2>5
<1> QED BY <1>1, <1>2, <1>3, <1>6, <1>7 DEF rest, done, Behind, Before

\* One more event.
LEMMA AppendOf ==
  ASSUME electronics \in Electronics, NEW sn, Events(sn), Len(sn) < MaxEvents,
         NEW e, IsEvent(e), NEW s, s = Append(sn, e)
  PROVE  /\ Events(s) /\ Len(s) = Len(sn) + 1
         /\ RecordsOf(s) = Append(RecordsOf(sn), Records(e))
         /\ KeptOf(s) = Append(KeptOf(sn), Kept(Meaning(e)))
<1>1. PICK V : V = Range(sn) \cup {e}
  OBVIOUS
<1>2. sn \in Seq(V) /\ e \in V /\ Len(sn) \in Nat /\ DOMAIN sn = 1..Len(sn)
  <2>1. sn \in Seq(Range(sn))
    BY DEF Events
  <2> QED BY <1>1, <2>1
<1>3. PICK n \in Nat : n = Len(sn)
  BY <1>2
<1>4. /\ s \in Seq(V) /\ Len(s) = n + 1 /\ DOMAIN s = 1..n + 1 /\ DOMAIN sn = 1..n
      /\ s[n + 1] = e /\ \A i \in 1..n : s[i] = sn[i]
  BY <1>2, <1>3
<1>5. \A i \in 1..n + 1 : i \in 1..n \/ i = n + 1
  BY <1>3
<1>6. Events(s)
  <2>1. s \in Seq(Range(s))
    <3>1. \A i \in 1..n + 1 : s[i] \in Range(s)
      BY <1>4 DEF Range
    <3> QED BY <1>3, <1>4, <3>1
  <2>2. n + 1 \in 0..MaxEvents
    <3>1. MaxEvents \in Int
      BY InputAssumption
    <3> QED BY <1>3, <3>1
  <2>3. \A i \in 1..n + 1 : IsEvent(s[i])
    BY <1>3, <1>4, <1>5 DEF Events
  <2> QED BY <1>4, <2>1, <2>2, <2>3 DEF Events
<1>7. RecordsOf(s) = Append(RecordsOf(sn), Records(e))
  <2>1. /\ RecordsOf(sn) \in Seq(Seq(Unit)) /\ Len(RecordsOf(sn)) = n
        /\ \A i \in 1..n : RecordsOf(sn)[i] = Records(sn[i])
    BY <1>3, RecordsSeq
  <2>2. /\ RecordsOf(s) \in Seq(Seq(Unit)) /\ Len(RecordsOf(s)) = n + 1
        /\ \A i \in 1..n + 1 : RecordsOf(s)[i] = Records(s[i])
    BY <1>4, <1>6, RecordsSeq
  <2>3. Records(e) \in Seq(Unit)
    BY EventRecords DEF Clean
  <2>4. PICK f, g, x, T : f = RecordsOf(sn) /\ g = RecordsOf(s) /\ x = Records(e) /\ T = Seq(Unit)
    OBVIOUS
  <2>5. /\ f \in Seq(T) /\ Len(f) = n /\ g \in Seq(T) /\ Len(g) = n + 1 /\ x \in T
        /\ g[n + 1] = x /\ \A i \in 1..n : g[i] = f[i]
    <3>1. n + 1 \in 1..n + 1 /\ \A i \in 1..n : i \in 1..n + 1
      BY <1>3
    <3> QED BY <1>4, <2>1, <2>2, <2>3, <2>4, <3>1
  <2>6. g = Append(f, x)
    BY <1>3, <1>5, <2>5
  <2> QED BY <2>4, <2>6
<1>8. KeptOf(s) = Append(KeptOf(sn), Kept(Meaning(e)))
  <2>1. PICK f, g, x : f = KeptOf(sn) /\ g = KeptOf(s) /\ x = Kept(Meaning(e))
    OBVIOUS
  <2>2. /\ f = [i \in 1..n |-> Kept(Meaning(sn[i]))]
        /\ g = [i \in 1..n + 1 |-> Kept(Meaning(s[i]))]
    BY <1>4, <2>1 DEF KeptOf
  <2>3. n + 1 \in 1..n + 1 /\ \A i \in 1..n : i \in 1..n + 1
    BY <1>3
  <2>4. g[n + 1] = x /\ \A i \in 1..n : g[i] = f[i]
    BY <1>4, <2>1, <2>2, <2>3
  <2>5. PICK T : T = {g[i] : i \in 1..n + 1}
    OBVIOUS
  <2>6. g \in [1..n + 1 -> T] /\ f \in [1..n -> T] /\ x \in T
    BY <2>2, <2>3, <2>4, <2>5
  <2>7. g \in Seq(T) /\ f \in Seq(T) /\ Len(g) = n + 1 /\ Len(f) = n
    BY <1>3, <2>6
  <2>8. g = Append(f, x)
    BY <1>3, <1>5, <2>4, <2>6, <2>7
  <2> QED BY <2>1, <2>8
<1> QED BY <1>3, <1>4, <1>6, <1>7, <1>8

\* An event is triggered.
LEMMA TriggerStep ==
  ASSUME electronics \in Electronics, NEW us \in Seq(Unit), NEW fs, Clean(fs), NEW td, td = <<>>,
         NEW sn, NEW d, NEW pa, Pending(us, fs, td, sn, d, pa), Len(sn) < MaxEvents,
         NEW e, IsEvent(e)
  PROVE  Pending(us, fs, Records(e), Append(sn, e), d, pa)
<1>1. PICK s, r : s = Append(sn, e) /\ r = Records(e)
  OBVIOUS
<1>2. Events(sn)
  BY DEF Pending
<1>3. /\ Events(s) /\ Len(s) = Len(sn) + 1
      /\ RecordsOf(s) = Append(RecordsOf(sn), r) /\ KeptOf(s) = Append(KeptOf(sn), Kept(Meaning(e)))
  BY <1>1, <1>2, AppendOf
<1>4. Clean(r)
  BY <1>1, EventRecords
<1>5. RecordsOf(sn) \in Seq(Seq(Unit)) /\ Len(RecordsOf(sn)) = Len(sn) /\ Len(sn) \in Nat
  BY <1>2, RecordsSeq
<1>6. d \in 0..Len(sn) /\ d \in 0..Len(s)
  <2>1. d \in 0..Len(sn)
    BY DEF Pending
  <2> QED BY <1>3, <1>5, <2>1
<1>7. RestOf(s, d) = RestOf(sn, d) \o r
  <2>1. PICK f, g : f = RecordsOf(sn) /\ g = RecordsOf(s)
    OBVIOUS
  <2>2. f \in Seq(Seq(Unit)) /\ r \in Seq(Unit) /\ d \in 0..Len(f)
    BY <1>3, <1>4, <1>5, <1>6, <2>1 DEF Clean
  <2>3. /\ Behind(Append(f, r), d) = Behind(f, d) \o r
        /\ Before(Append(f, r), d) = Before(f, d)
    BY <2>2, PartsAppend, SMTT(30)
  <2> QED BY <1>3, <2>1, <2>3 DEF RestOf
<1>8. StoredOf(s, d) = StoredOf(sn, d)
  <2>1. PICK f, g, x, M : f = KeptOf(sn) /\ g = KeptOf(s) /\ x = Kept(Meaning(e)) /\ M = Meanings(s)
    OBVIOUS
  <2>2. Len(f) = Len(sn) /\ g \in Seq(Seq(M)) /\ Len(g) = Len(s)
    BY <1>2, <1>3, <2>1, KeptSeq
  <2>3. f \in Seq(Seq(M)) /\ x \in Seq(M) /\ g = Append(f, x) /\ d \in 0..Len(f)
    <3>1. PICK T : T = Seq(M)
      OBVIOUS
    <3>2. g = Append(f, x) /\ f \in Seq(Seq(Meanings(sn))) /\ d \in 0..Len(f)
      BY <1>2, <1>3, <1>6, <2>1, <2>2, KeptSeq
    <3>3. g \in Seq(T) /\ Len(g) = Len(f) + 1 /\ Len(f) \in Nat
      BY <1>3, <1>5, <2>2, <3>1
    <3>4. PICK R : R = Seq(Meanings(sn))
      OBVIOUS
    <3>5. f \in Seq(R)
      BY <3>2, <3>4
    <3>6. \A i \in 1..Len(f) : g[i] = f[i] /\ i \in 1..Len(g)
      BY <3>2, <3>3, <3>5
    <3>7. g[Len(g)] = x /\ Len(g) \in 1..Len(g)
      BY <3>2, <3>3, <3>5
    <3>8. x \in T /\ \A i \in 1..Len(f) : f[i] \in T
      BY <3>3, <3>6, <3>7
    <3>9. f \in Seq(T)
      BY <3>3, <3>5, <3>8
    <3> QED BY <3>1, <3>2, <3>8, <3>9
  <2>4. Before(Append(f, x), d) = Before(f, d)
    BY <2>3, PartsAppend
  <2> QED BY <2>1, <2>3, <2>4 DEF StoredOf
<1>9. Strip(us) \o fs \o r = RestOf(s, d)
  <2>1. Strip(us) \o fs \o <<>> = RestOf(sn, d)
    BY DEF Pending
  <2>2. Strip(us) \in Seq(Unit) /\ fs \in Seq(Unit)
    BY StripConcat DEF Clean
  <2>3. Strip(us) \o fs = RestOf(sn, d)
    BY <2>1, <2>2
  <2> QED BY <1>7, <2>3
<1>10. pa = StoredOf(s, d)
  BY <1>8 DEF Pending
<1> QED BY <1>1, <1>3, <1>4, <1>6, <1>9, <1>10 DEF Pending

\* c's head moves to the end of b.
Moved(b, c, g, t) ==
  /\ b \in Seq(Unit) /\ c \in Seq(Unit) /\ c # <<>>
  /\ g = b \o <<Head(c)>> /\ t = Tail(c)
SameNext(a, b, c, g, t) ==
  /\ g \in Seq(Unit) /\ t \in Seq(Unit) /\ a \o g \o t = a \o b \o c

\* What the three sequences are together stays the same.
LEMMA HeadMoved ==
  ASSUME NEW a \in Seq(Unit), NEW b, NEW c, NEW g, NEW t, Moved(b, c, g, t)
  PROVE  SameNext(a, b, c, g, t)
<1>1. PICK x : x = <<Head(c)>>
  OBVIOUS
<1>2. x \in Seq(Unit) /\ t \in Seq(Unit) /\ c = x \o t
  BY <1>1 DEF Moved
<1>3. b \in Seq(Unit) /\ g = b \o x
  BY <1>1 DEF Moved
<1>4. g \in Seq(Unit) /\ a \o b \in Seq(Unit)
  BY <1>2, <1>3
<1>5. a \o (b \o x) = (a \o b) \o x
  BY <1>2, <1>3, ConcatAssociative, SMTT(30)
<1>6. ((a \o b) \o x) \o t = (a \o b) \o (x \o t)
  <2>1. PICK p \in Seq(Unit) : p = a \o b
    BY <1>4
  <2>2. x \in Seq(Unit) /\ t \in Seq(Unit)
    BY <1>2
  <2>3. (p \o x) \o t = p \o (x \o t)
    BY <2>2, ConcatAssociative
  <2> QED BY <2>1, <2>3, Zenon
<1> QED BY <1>2, <1>3, <1>4, <1>5, <1>6, Zenon DEF SameNext

\* A record is put into the frame, which has room for it.
Room(fr, td) == td # <<>> /\ Len(fr) + Len(Head(td)) + 4 <= FrameWords

\* A record that fits is put into the frame.
LEMMA FillStep ==
  ASSUME electronics \in Electronics, NEW us, NEW fs, NEW j, NEW bu, NEW bi, NEW fr,
         Buffered(us, fs, j, bu, bi, fr), NEW td, NEW sn, NEW d, NEW pa,
         Pending(us, fs, td, sn, d, pa), Room(fr, td)
  PROVE  \E g : /\ Buffered(us, g, j, bu, bi, fr \o Head(td))
                /\ Pending(us, g, Tail(td), sn, d, pa)
<1>1. /\ us \in Seq(Unit) /\ fs \in Seq(Unit) /\ fr = FlattenSeq(fs)
      /\ \A k \in 1..Len(fs) : fs[k] \notin Framing
  BY DEF Buffered, Clean
<1>2. td \in Seq(Unit) /\ td # <<>> /\ \A k \in 1..Len(td) : td[k] \notin Framing
  BY DEF Pending, Clean, Room
<1>3. PICK h, t, g : h = Head(td) /\ t = Tail(td) /\ g = fs \o <<Head(td)>>
  OBVIOUS
<1>4. Moved(fs, td, g, t)
  BY <1>1, <1>2, <1>3 DEF Moved
<1>5. SameNext(Strip(us), fs, td, g, t)
  BY <1>1, <1>4, StripConcat, HeadMoved
<1>6. Clean(t)
  <2>1. \A k \in 1..Len(t) : k + 1 \in 1..Len(td) /\ t[k] = td[k + 1]
    BY <1>2, <1>3
  <2>2. t \in Seq(Unit)
    BY <1>5 DEF SameNext
  <2> QED BY <1>2, <2>1, <2>2 DEF Clean
<1>7. h \notin Framing /\ h \in Unit
  <2>1. 1 \in 1..Len(td) /\ td[1] = h
    BY <1>2, <1>3
  <2> QED BY <1>2, <2>1
<1>8. g = Append(fs, h)
  BY <1>1, <1>3, <1>7
<1>9. Clean(g)
  <2>1. \A k \in 1..Len(g) : (k \in 1..Len(fs) /\ g[k] = fs[k]) \/ g[k] = h
    BY <1>1, <1>7, <1>8
  <2>2. g \in Seq(Unit)
    BY <1>5 DEF SameNext
  <2> QED BY <1>1, <1>7, <2>1, <2>2 DEF Clean
<1>10. fr \o h = FlattenSeq(g) /\ Len(fr \o h) + 4 <= FrameWords
  <2>1. fs \in Seq(Seq(Word)) /\ h \in Seq(Word)
    <3>1. 1 \in 1..Len(td) /\ td[1] = h
      BY <1>2, <1>3
    <3> QED BY <1>1, <1>2, <3>1, UnitWords
  <2>2. FlattenSeq(fs) \in Seq(Word) /\ FlattenSeq(Append(fs, h)) = FlattenSeq(fs) \o h
    BY <2>1, FlattenAppend
  <2>3. Len(fr \o h) = Len(fr) + Len(h)
    BY <1>1, <2>1, <2>2
  <2> QED BY <1>1, <1>3, <1>8, <2>2, <2>3 DEF Room
<1>11. Buffered(us, g, j, bu, bi, fr \o h)
  BY <1>9, <1>10 DEF Buffered
<1>12. Pending(us, g, t, sn, d, pa)
  BY <1>5, <1>6 DEF Pending, SameNext
<1> QED BY <1>3, <1>11, <1>12

\* Words around a frame.
Around(x) == /\ x \in Seq(Word) /\ <<x>> \in Seq(Unit) /\ Strip(<<x>>) = <<>> /\ FlattenSeq(<<x>>) = x

\* All framing is such.
LEMMA AroundFrame ==
  ASSUME electronics \in Electronics, NEW x \in Framing
  PROVE  Around(x)
<1>1. x \in Unit
  BY FramingUnits
<1>2. <<x>> \in Seq(Unit) /\ Strip(<<x>>) = <<>>
  BY <1>1, StripOne DEF Piece
<1>3. PICK y : y = <<x>>
  OBVIOUS
<1>4. y \in Seq(Unit) /\ Len(y) = 1 /\ y[1] = x /\ 1 \in 1..Len(y)
  BY <1>2, <1>3
<1>5. y \in Seq(Seq(Word)) /\ x \in Seq(Word)
  BY <1>4, UnitWords
<1>6. FlattenSeq(Append(<<>>, x)) = <<>> \o x
  <2>1. PICK T : T = Seq(Word)
    OBVIOUS
  <2>2. <<>> \in Seq(T)
    OBVIOUS
  <2> QED BY <1>5, <2>1, <2>2, FlattenAppend, FlattenNone
<1>7. FlattenSeq(<<x>>) = x
  <2>1. Append(<<>>, x) = <<x>> /\ <<>> \o x = x
    BY <1>5
  <2> QED BY <1>6, <2>1
<1> QED BY <1>2, <1>5, <1>7 DEF Around

\* Two sequences of units, one behind the other.
LEMMA UnitsConcat ==
  ASSUME NEW a \in Seq(Unit), NEW b \in Seq(Unit)
  PROVE  /\ a \o b \in Seq(Unit) /\ Strip(a \o b) = Strip(a) \o Strip(b)
         /\ FlattenSeq(a) \in Seq(Word) /\ FlattenSeq(b) \in Seq(Word)
         /\ FlattenSeq(a \o b) = FlattenSeq(a) \o FlattenSeq(b)
<1>1. a \in Seq(Seq(Word)) /\ b \in Seq(Seq(Word))
  BY UnitWords
<1>2. /\ FlattenSeq(a) \in Seq(Word) /\ FlattenSeq(b) \in Seq(Word)
      /\ FlattenSeq(a \o b) = FlattenSeq(a) \o FlattenSeq(b)
  BY <1>1, FlattenConcat
<1> QED BY <1>2, StripConcat

\* A sequence in front of others and one behind them.
LEMMA Prefixed ==
  ASSUME NEW x, Around(x), NEW w \in Seq(Unit), NEW v, v = <<x>> \o w
  PROVE  v \in Seq(Unit) /\ Strip(v) = Strip(w) /\ FlattenSeq(v) = x \o FlattenSeq(w)
<1>1. PICK a : a = <<x>>
  OBVIOUS
<1>2. a \in Seq(Unit) /\ Strip(a) = <<>> /\ FlattenSeq(a) = x
  BY <1>1 DEF Around
<1>3. /\ a \o w \in Seq(Unit) /\ Strip(a \o w) = Strip(a) \o Strip(w)
      /\ FlattenSeq(a \o w) = FlattenSeq(a) \o FlattenSeq(w)
  BY <1>2, UnitsConcat
<1>4. PICK s \in Seq(Unit) : s = Strip(w)
  BY StripConcat
<1>5. <<>> \o s = s
  OBVIOUS
<1> QED BY <1>1, <1>2, <1>3, <1>4, <1>5

\* A sequence behind others.
LEMMA Suffixed ==
  ASSUME NEW x, Around(x), NEW w \in Seq(Unit), NEW v, v = w \o <<x>>
  PROVE  v \in Seq(Unit) /\ Strip(v) = Strip(w) /\ FlattenSeq(v) = FlattenSeq(w) \o x
<1>1. PICK a : a = <<x>>
  OBVIOUS
<1>2. a \in Seq(Unit) /\ Strip(a) = <<>> /\ FlattenSeq(a) = x
  BY <1>1 DEF Around
<1>3. /\ w \o a \in Seq(Unit) /\ Strip(w \o a) = Strip(w) \o Strip(a)
      /\ FlattenSeq(w \o a) = FlattenSeq(w) \o FlattenSeq(a)
  BY <1>2, UnitsConcat
<1>4. PICK s \in Seq(Unit) : s = Strip(w)
  BY StripConcat
<1>5. s \o <<>> = s
  OBVIOUS
<1> QED BY <1>1, <1>2, <1>3, <1>4, <1>5

\* The size of a frame is a word.
LEMMA FrameSize ==
  ASSUME NEW n \in Nat, n + 4 <= FrameWords
  PROVE  \E hd \in Headings : hd = <<2048, 2 * (n + 3)>>
<1>1. 2 * (n + 3) \in Int /\ 0 <= 2 * (n + 3) /\ 2 * (n + 3) <= 65535
  BY DEF FrameWords
<1>2. PICK m \in Word : m = 2 * (n + 3)
  BY <1>1, Numbers
<1>3. <<2048, m>> \in Headings
  BY DEF Headings
<1> QED BY <1>2, <1>3

\* What comes of a frame is its records, and framing.
LEMMA FrameUnits ==
  ASSUME electronics \in Electronics, NEW fs, Clean(fs), NEW fr, fr = FlattenSeq(fs),
         Len(fr) + 4 <= FrameWords
  PROVE  \E w \in Seq(Unit) : FlattenSeq(w) = Framed(fr) /\ Strip(w) = fs
<1>1. fs \in Seq(Unit) /\ Strip(fs) = fs
  BY StripClean DEF Clean
<1>2. Len(fr) \in Nat
  <2>1. fr \in Seq(Word)
    BY <1>1, UnitsConcat
  <2> QED BY <2>1
<1>3. PICK hd \in Headings : hd = <<2048, 2 * (Len(fr) + 3)>>
  BY <1>2, FrameSize
<1>4. PICK tl : tl = <<15>>
  OBVIOUS
<1>5. CASE electronics = "ARC"
  <2>1. hd \in Framing /\ tl \in Framing
    BY <1>4, <1>5 DEF Framing, Of
  <2>2. Around(hd) /\ Around(tl)
    BY <2>1, AroundFrame
  <2>3. PICK v : v = <<hd>> \o fs
    OBVIOUS
  <2>4. v \in Seq(Unit) /\ Strip(v) = fs /\ FlattenSeq(v) = hd \o fr
    BY <1>1, <2>2, <2>3, Prefixed, ZenonT(40)
  <2>5. PICK w : w = v \o <<tl>>
    OBVIOUS
  <2>6. w \in Seq(Unit) /\ Strip(w) = fs /\ FlattenSeq(w) = hd \o fr \o tl
    <3>1. v \in Seq(Unit) /\ Around(tl)
      BY <2>2, <2>4
    <3>2. w \in Seq(Unit) /\ Strip(w) = Strip(v) /\ FlattenSeq(w) = FlattenSeq(v) \o tl
      BY <2>5, <3>1, Suffixed
    <3> QED BY <2>4, <3>2
  <2>7. Framed(fr) = hd \o fr \o tl
    BY <1>3, <1>4, <1>5 DEF Framed, ARC!EndOfFrame
  <2> QED BY <2>6, <2>7
<1>6. CASE electronics = "FEMINOS"
  <2>1. hd \in Framing
    BY <1>6 DEF Framing, Of
  <2>2. Around(hd)
    BY <2>1, AroundFrame
  <2>3. PICK v : v = <<hd>> \o fs
    OBVIOUS
  <2>4. v \in Seq(Unit) /\ Strip(v) = fs /\ FlattenSeq(v) = hd \o fr
    BY <1>1, <2>2, <2>3, Prefixed, ZenonT(40)
  <2>5. Framed(fr) = hd \o fr
    BY <1>3, <1>6 DEF Framed
  <2> QED BY <2>4, <2>5
<1>7. CASE electronics = "DCC" /\ electronics # "ARC" /\ electronics # "FEMINOS"
  <2>1. Framed(fr) = fr
    BY <1>7 DEF Framed
  <2> QED BY <1>1, <2>1
<1> QED BY <1>5, <1>6, <1>7, ElectronicsOf

\* The first units stay where they are.
Stays(us, v, j) ==
  j \in 0..Len(v) /\ Off(v, j) = Off(us, j) /\ \A k \in 1..j : v[k] = us[k]

\* More units do not move the first ones.
LEMMA FirstUnits ==
  ASSUME NEW us \in Seq(Unit), NEW w \in Seq(Unit), NEW j \in 0..Len(us), NEW v, v = us \o w
  PROVE  Stays(us, v, j)
<1>1. v \in Seq(Unit) /\ Len(v) = Len(us) + Len(w) /\ Len(us) \in Nat /\ Len(w) \in Nat
  OBVIOUS
<1>2. \A k \in 1..Len(us) : v[k] = us[k]
  OBVIOUS
<1>3. j \in Nat /\ j <= Len(us) /\ j \in 0..Len(v) /\ \A k \in 1..j : k \in 1..Len(us)
  BY <1>1
<1>4. SubSeq(v, 1, j) = SubSeq(us, 1, j)
  BY <1>1, <1>2, <1>3
<1> QED BY <1>2, <1>3, <1>4 DEF Off, Stays

\* The frame is received.
LEMMA SendStep ==
  ASSUME electronics \in Electronics, NEW us, NEW fs, NEW j, NEW bu, NEW bi, NEW fr,
         Buffered(us, fs, j, bu, bi, fr), NEW td, NEW sn, NEW d, NEW pa,
         Pending(us, fs, td, sn, d, pa)
  PROVE  \E v : /\ Buffered(v, <<>>, j, bu \o Framed(fr), bi, <<>>)
                /\ Pending(v, <<>>, td, sn, d, pa)
<1>1. us \in Seq(Unit) /\ bu = FlattenSeq(us) /\ j \in 0..Len(us) /\ bi = Off(us, j)
  BY DEF Buffered
<1>2. PICK w \in Seq(Unit) : FlattenSeq(w) = Framed(fr) /\ Strip(w) = fs
  BY FrameUnits DEF Buffered
<1>3. PICK v : v = us \o w
  OBVIOUS
<1>4. v \in Seq(Unit) /\ Strip(v) = Strip(us) \o fs /\ FlattenSeq(v) = bu \o Framed(fr)
  BY <1>1, <1>2, <1>3, UnitsConcat
<1>5. j \in 0..Len(v) /\ Off(v, j) = bi /\ \A k \in 1..j : v[k] = us[k]
  <2>1. Stays(us, v, j)
    <3>1. us \in Seq(Unit) /\ j \in 0..Len(us)
      BY <1>1
    <3> QED BY <1>3, <3>1, FirstUnits
  <2> QED BY <1>1, <2>1 DEF Stays
<1>6. \A k \in 1..j : ~Ends(v[k])
  BY <1>5 DEF Buffered
<1>7. Clean(<<>>) /\ FlattenSeq(<<>>) = <<>> /\ Len(<<>>) + 4 <= FrameWords
  BY FlattenNone DEF Clean, FrameWords
<1>8. Buffered(v, <<>>, j, bu \o Framed(fr), bi, <<>>)
  BY <1>4, <1>5, <1>6, <1>7, Zenon DEF Buffered
<1>9. Strip(v) \o <<>> = Strip(us) \o fs
  <2>1. Strip(us) \in Seq(Unit) /\ fs \in Seq(Unit)
    BY <1>1, StripConcat DEF Buffered, Clean
  <2>2. PICK x \in Seq(Unit) : x = Strip(us) \o fs
    BY <2>1, UnitsConcat
  <2>3. x \o <<>> = x
    OBVIOUS
  <2> QED BY <1>4, <2>2, <2>3
<1>10. Pending(v, <<>>, td, sn, d, pa)
  BY <1>9 DEF Pending
<1> QED BY <1>8, <1>10

\* No end of an event has come: the builder will look behind all units.
LEMMA BuildNone ==
  ASSUME electronics \in Electronics, NEW us, NEW fs, NEW j, NEW bu, NEW bi, NEW fr,
         Buffered(us, fs, j, bu, bi, fr), \A k \in j + 1..Len(us) : ~Ends(us[k])
  PROVE  /\ F!TryExtractNextEvent(bu, bi) = [found |-> FALSE, idx |-> Len(bu), buffer |-> bu]
         /\ Buffered(us, fs, Len(us), bu, Len(bu), fr)
<1>1. /\ us \in Seq(Unit) /\ bu = FlattenSeq(us) /\ j \in 0..Len(us) /\ bi = Off(us, j)
      /\ \A k \in 1..j : ~Ends(us[k])
  BY DEF Buffered
<1>2. F!TryExtractNextEvent(bu, bi) = [found |-> FALSE, idx |-> Len(bu), buffer |-> bu]
  BY <1>1, ExtractNone
<1>3. us \in Seq(Seq(Word)) /\ Len(us) \in Nat
  BY <1>1, UnitWords
<1>4. Off(us, Len(us)) = Len(bu)
  BY <1>1, <1>3, Ranges
<1>5. Len(us) \in 0..Len(us) /\ \A k \in 1..Len(us) : k \in 1..j \/ k \in j + 1..Len(us)
  BY <1>1, <1>3
<1> QED BY <1>1, <1>2, <1>4, <1>5 DEF Buffered

\* The units up to the first end, and those behind it.
Cut(us, a, c) ==
  /\ Closed(a) /\ a \in Seq(Unit) /\ c \in Seq(Unit) /\ Strip(us) = Strip(a) \o Strip(c)

\* The first end cuts the units in two.
LEMMA CutFirst ==
  ASSUME electronics \in Electronics, NEW us \in Seq(Unit), NEW m \in 1..Len(us), Ends(us[m]),
         \A k \in 1..m - 1 : ~Ends(us[k]), NEW a, a = SubSeq(us, 1, m),
         NEW c, c = SubSeq(us, m + 1, Len(us))
  PROVE  Cut(us, a, c)
<1>1. /\ a \in Seq(Unit) /\ Len(a) = m /\ c \in Seq(Unit) /\ us = a \o c /\ Len(us) \in Nat
      /\ \A k \in 1..m : a[k] = us[k]
  OBVIOUS
<1>2. Strip(us) = Strip(a) \o Strip(c)
  BY <1>1, StripConcat, ZenonT(40)
<1>3. \A k \in 1..Len(a) : Ends(a[k]) <=> k = Len(a)
  <2>1. m \in Int /\ m >= 1 /\ \A k \in 1..m : k \in 1..m - 1 \/ k = m
    OBVIOUS
  <2>2. \A k \in 1..m - 1 : k # m
    BY <2>1
  <2> QED BY <1>1, <2>1, <2>2
<1> QED BY <1>1, <1>2, <1>3 DEF Cut, Closed

\* A sequence with one unit more.
LEMMA LastOne ==
  ASSUME NEW t \in Seq(Unit), NEW u \in Unit, NEW s, s = t \o <<u>>
  PROVE  /\ s \in Seq(Unit) /\ Len(t) \in Nat /\ Len(s) = Len(t) + 1 /\ s[Len(t) + 1] = u
         /\ \A k \in 1..Len(t) : s[k] = t[k]
OBVIOUS

\* The records among the units up to an end have one end, the last.
LEMMA StripClosed ==
  ASSUME electronics \in Electronics, NEW a, Closed(a), NEW s, s = Strip(a)
  PROVE  /\ s \in Seq(Unit) /\ s # <<>> /\ \A k \in 1..Len(s) : Ends(s[k]) <=> k = Len(s)
<1>1. PICK n \in Nat : n = Len(a) /\ n >= 1 /\ n - 1 \in Nat
  BY DEF Closed
<1>2. PICK b, u : b = SubSeq(a, 1, n - 1) /\ u = a[n]
  OBVIOUS
<1>3. /\ b \in Seq(Unit) /\ u \in Unit /\ a = b \o <<u>> /\ Len(b) = n - 1
      /\ \A k \in 1..n - 1 : b[k] = a[k]
  <2>1. a \in Seq(Unit)
    BY DEF Closed
  <2> QED BY <1>1, <1>2, <2>1
<1>4. Ends(u) /\ \A k \in 1..Len(b) : ~Ends(b[k])
  <2>1. n \in 1..Len(a) /\ \A k \in 1..n - 1 : k \in 1..Len(a) /\ k # n
    BY <1>1
  <2> QED BY <1>1, <1>2, <1>3, <2>1 DEF Closed
<1>5. u \notin Framing
  BY <1>4, FramingUnits
<1>6. <<u>> \in Seq(Unit) /\ Strip(<<u>>) = <<u>>
  BY <1>3, <1>5, StripOne DEF Piece
<1>7. PICK t \in Seq(Unit) : t = Strip(b)
  BY <1>3, StripConcat
<1>8. s = t \o <<u>>
  <2>1. PICK w : w = <<u>>
    OBVIOUS
  <2>2. b \in Seq(Unit) /\ w \in Seq(Unit) /\ a = b \o w
    BY <1>3, <1>6, <2>1
  <2>3. Strip(b \o w) = Strip(b) \o Strip(w)
    BY <2>2, UnitsConcat
  <2> QED BY <1>6, <1>7, <2>1, <2>2, <2>3
<1>9. \A k \in 1..Len(t) : ~Ends(t[k])
  BY <1>3, <1>4, <1>7, StripRange
<1>10. /\ s \in Seq(Unit) /\ Len(t) \in Nat /\ Len(s) = Len(t) + 1 /\ s[Len(t) + 1] = u
       /\ \A k \in 1..Len(t) : s[k] = t[k]
  <2>1. u \in Unit
    BY <1>3
  <2> QED BY <1>8, <2>1, LastOne
<1>11. \A k \in 1..Len(s) : (k \in 1..Len(t) /\ k # Len(s)) \/ k = Len(t) + 1
  <2>1. PICK i \in Nat : i = Len(t)
    BY <1>10
  <2>2. \A k \in 1..i + 1 : (k \in 1..i /\ k # i + 1) \/ k = i + 1
    OBVIOUS
  <2> QED BY <1>10, <2>1, <2>2
<1>12. \A k \in 1..Len(s) : Ends(s[k]) <=> k = Len(s)
  BY <1>4, <1>9, <1>10, <1>11
<1>13. s # <<>>
  BY <1>10
<1> QED BY <1>10, <1>12, <1>13

\* Up to an end there are the records of one event, whole.
LEMMA MadeOf ==
  ASSUME electronics \in Electronics, NEW a, Closed(a), NEW r, r = Strip(a)
  PROVE  Made(a, r)
<1>1. a \in Seq(Unit)
  BY DEF Closed
<1>2. \A i \in 1..Len(r) : \E k \in 1..Len(a) : a[k] = r[i]
  BY <1>1, StripRange
<1>3. \A k \in 1..Len(a) : a[k] \in Framing \/ \E i \in 1..Len(r) : r[i] = a[k]
  BY <1>1, StripRange
<1> QED BY <1>2, <1>3, Zenon DEF Made

\* The event behind the d that are stored.
NextOf(sn, d, e) ==
  /\ d \in 0..Len(sn) - 1 /\ d + 1 \in 0..Len(sn) /\ IsEvent(e) /\ e = sn[d + 1]
  /\ RestOf(sn, d + 1) \in Seq(Unit)
  /\ RestOf(sn, d) = Records(e) \o RestOf(sn, d + 1)
  /\ StoredOf(sn, d + 1) = StoredOf(sn, d) \o Kept(Meaning(e))

\* As long as not all events are stored there is a next one.
LEMMA NextIs ==
  ASSUME electronics \in Electronics, NEW sn, Events(sn), NEW d \in 0..Len(sn) - 1
  PROVE  \E e : NextOf(sn, d, e)
<1>1. /\ RecordsOf(sn) \in Seq(Seq(Unit)) /\ Len(sn) \in Nat /\ Len(RecordsOf(sn)) = Len(sn)
      /\ \A i \in 1..Len(sn) : RecordsOf(sn)[i] = Records(sn[i])
  BY RecordsSeq
<1>2. /\ KeptOf(sn) \in Seq(Seq(Meanings(sn))) /\ Len(KeptOf(sn)) = Len(sn)
      /\ \A i \in 1..Len(sn) : KeptOf(sn)[i] = Kept(Meaning(sn[i]))
  BY KeptSeq
<1>3. d \in 0..Len(sn) - 1 /\ d + 1 \in 1..Len(sn) /\ d + 1 \in 0..Len(sn)
  BY <1>1
<1>4. PICK e : e = sn[d + 1]
  OBVIOUS
<1>5. IsEvent(e) /\ RecordsOf(sn)[d + 1] = Records(e) /\ KeptOf(sn)[d + 1] = Kept(Meaning(e))
  BY <1>1, <1>2, <1>3, <1>4 DEF Events
<1>6. /\ RestOf(sn, d + 1) \in Seq(Unit)
      /\ RestOf(sn, d) = Records(e) \o RestOf(sn, d + 1)
  <2>1. PICK f : f = RecordsOf(sn)
    OBVIOUS
  <2>2. f \in Seq(Seq(Unit)) /\ d \in 0..Len(f) - 1
    BY <1>1, <1>3, <2>1
  <2>3. Behind(f, d + 1) \in Seq(Unit) /\ Behind(f, d) = f[d + 1] \o Behind(f, d + 1)
    BY <2>2, PartsNext
  <2> QED BY <1>5, <2>1, <2>3 DEF RestOf
<1>7. StoredOf(sn, d + 1) = StoredOf(sn, d) \o Kept(Meaning(e))
  <2>1. PICK f, M : f = KeptOf(sn) /\ M = Meanings(sn)
    OBVIOUS
  <2>2. f \in Seq(Seq(M)) /\ d \in 0..Len(f) - 1
    BY <1>2, <1>3, <2>1
  <2>3. Before(f, d + 1) = Before(f, d) \o f[d + 1]
    BY <2>2, PartsNext
  <2> QED BY <1>5, <2>1, <2>3 DEF StoredOf
<1> QED BY <1>3, <1>4, <1>5, <1>6, <1>7 DEF NextOf

\* If records are left there is one.
LEMMA NextThere ==
  ASSUME electronics \in Electronics, NEW sn, Events(sn), NEW d \in 0..Len(sn),
         RestOf(sn, d) # <<>>
  PROVE  \E e : NextOf(sn, d, e)
<1>1. /\ RecordsOf(sn) \in Seq(Seq(Unit)) /\ Len(sn) \in Nat /\ Len(RecordsOf(sn)) = Len(sn)
  BY RecordsSeq
<1>2. d # Len(sn)
  <2>1. SUFFICES ASSUME d = Len(sn) PROVE FALSE
    OBVIOUS
  <2>2. PICK f, n, T : f = RecordsOf(sn) /\ n = Len(sn) /\ T = Seq(Unit)
    OBVIOUS
  <2>3. f \in Seq(T) /\ n = Len(f)
    BY <1>1, <2>2
  <2>4. SubSeq(f, n + 1, n) = <<>>
    BY <2>3
  <2>5. Behind(f, n) = <<>>
    BY <2>3, <2>4, FlattenNone DEF Behind
  <2> QED BY <2>1, <2>2, <2>5 DEF RestOf
<1>3. d \in 0..Len(sn) - 1
  BY <1>1, <1>2
<1> QED BY <1>3, NextIs

\* The records up to the first end are those of the next event.
LEMMA NextRecords ==
  ASSUME electronics \in Electronics, NEW us, NEW a, NEW c, Cut(us, a, c),
         NEW fs, Clean(fs), NEW td, NEW sn, NEW d, NEW pa, Pending(us, fs, td, sn, d, pa)
  PROVE  \E e : /\ NextOf(sn, d, e) /\ Strip(a) = Records(e)
                /\ Strip(c) \o fs \o td = RestOf(sn, d + 1)
<1>1. PICK s, t : s = Strip(a) /\ t = Strip(c)
  OBVIOUS
<1>2. /\ s \in Seq(Unit) /\ s # <<>> /\ \A k \in 1..Len(s) : Ends(s[k]) <=> k = Len(s)
  BY <1>1, StripClosed DEF Cut
<1>3. t \in Seq(Unit) /\ fs \in Seq(Unit) /\ td \in Seq(Unit)
  BY <1>1, StripConcat DEF Cut, Clean, Pending
<1>4. PICK x : x = t \o fs \o td
  OBVIOUS
<1>5. x \in Seq(Unit)
  BY <1>3, <1>4
<1>6. RestOf(sn, d) = s \o x
  <2>1. RestOf(sn, d) = (s \o t) \o fs \o td
    BY <1>1 DEF Cut, Pending
  <2>2. (s \o t) \o fs = s \o (t \o fs)
    <3>1. s \in Seq(Unit)
      BY <1>2
    <3> QED BY <1>3, <3>1, ConcatAssociative
  <2>3. (s \o (t \o fs)) \o td = s \o ((t \o fs) \o td)
    <3>1. PICK y : y = t \o fs
      OBVIOUS
    <3>2. s \in Seq(Unit) /\ y \in Seq(Unit)
      BY <1>2, <1>3, <3>1
    <3>3. (s \o y) \o td = s \o (y \o td)
      BY <1>3, <3>2, ConcatAssociative
    <3> QED BY <3>1, <3>3
  <2> QED BY <1>4, <2>1, <2>2, <2>3, Zenon
<1>7. RestOf(sn, d) # <<>>
  <2>1. s \in Seq(Unit) /\ s # <<>>
    BY <1>2
  <2>2. s \o x # <<>>
    BY <1>5, <2>1
  <2> QED BY <1>6, <2>2
<1>8. PICK e : NextOf(sn, d, e)
  BY <1>7, NextThere DEF Pending
<1>9. PICK r, y : r = Records(e) /\ y = RestOf(sn, d + 1)
  OBVIOUS
<1>10. r \in Seq(Unit) /\ r # <<>> /\ \A k \in 1..Len(r) : Ends(r[k]) <=> k = Len(r)
  <2>1. EventUnits(r)
    BY <1>8, <1>9, EventRecords DEF NextOf
  <2> QED BY <2>1 DEF EventUnits
<1>11. y \in Seq(Unit) /\ s \o x = r \o y
  BY <1>6, <1>8, <1>9 DEF NextOf
<1>12. s = r /\ x = y
  BY <1>2, <1>5, <1>10, <1>11, FirstEnd
<1> QED BY <1>1, <1>4, <1>8, <1>9, <1>12

\* What is stored of an event goes behind what is stored.
LEMMA StoreOne ==
  ASSUME NEW S, NEW pa \in Seq(S), NEW p, NEW k, k = IF DOMAIN p.signals = {} THEN <<>> ELSE <<p>>
  PROVE  pa \o k = IF DOMAIN p.signals = {} THEN pa ELSE Append(pa, p)
<1>1. CASE DOMAIN p.signals = {}
  <2>1. pa \o <<>> = pa
    OBVIOUS
  <2> QED BY <1>1, <2>1
<1>2. CASE DOMAIN p.signals # {}
  <2>1. k = <<p>>
    BY <1>2
  <2>2. PICK T : T = S \cup {p}
    OBVIOUS
  <2>3. pa \in Seq(T) /\ p \in T
    BY <2>2
  <2>4. Append(pa, p) = pa \o <<p>>
    BY <2>3, AppendIsConcat
  <2> QED BY <1>2, <2>1, <2>4
<1> QED BY <1>1, <1>2

\* What is stored are meanings of events.
LEMMA StoredType ==
  ASSUME electronics \in Electronics, NEW sn, Events(sn), NEW d \in 0..Len(sn)
  PROVE  StoredOf(sn, d) \in Seq(Meanings(sn))
<1>1. PICK f, M, T : f = KeptOf(sn) /\ M = Meanings(sn) /\ T = Seq(Meanings(sn))
  OBVIOUS
<1>2. f \in Seq(T) /\ Len(f) = Len(sn)
  BY <1>1, KeptSeq
<1>3. Len(f) \in Nat /\ d \in 0..Len(f)
  BY <1>2
<1>4. SubSeq(f, 1, d) \in Seq(T)
  BY <1>2, <1>3
<1>5. FlattenSeq(SubSeq(f, 1, d)) \in Seq(M)
  <2>1. SubSeq(f, 1, d) \in Seq(Seq(M))
    BY <1>1, <1>4
  <2>2. <<>> \in Seq(M)
    OBVIOUS
  <2> QED BY <2>1, <2>2, FlattenAppend
<1> QED BY <1>1, <1>5 DEF StoredOf, Before

\* The first end of an event has come: the event is parsed and stored.
LEMMA BuildFirst ==
  ASSUME electronics \in Electronics, tS \in Seq(Word), ev_count \in Seq(Word),
         NEW us, NEW fs, NEW j, NEW bu, NEW bi, NEW fr, Buffered(us, fs, j, bu, bi, fr),
         NEW td, NEW sn, NEW d, NEW pa, Pending(us, fs, td, sn, d, pa),
         NEW i \in j + 1..Len(us), Ends(us[i])
  PROVE  \E c, b, n : LET p == ParseEventFromWords(b)
              s == IF DOMAIN p.signals = {} THEN pa ELSE Append(pa, p) IN
         /\ F!TryExtractNextEvent(bu, bi) = [found |-> TRUE, idx |-> 0, event |-> b, buffer |-> n]
         /\ p.tS \in Seq(Word) /\ p.ev_count \in Seq(Word)
         /\ Buffered(c, fs, 0, n, 0, fr) /\ Pending(c, fs, td, sn, d + 1, s)
<1>1. /\ us \in Seq(Unit) /\ bu = FlattenSeq(us) /\ j \in 0..Len(us) /\ bi = Off(us, j)
      /\ (\A k \in 1..j : ~Ends(us[k])) /\ Clean(fs)
  BY DEF Buffered
<1>2. Len(us) \in Nat
  BY <1>1
<1>3. PICK m \in j + 1..Len(us) : Ends(us[m]) /\ \A k \in j + 1..m - 1 : ~Ends(us[k])
  <2>1. PICK E : E = {k \in j + 1..Len(us) : Ends(us[k])}
    OBVIOUS
  <2>2. E \subseteq Nat /\ i \in E
    BY <1>1, <1>2, <2>1
  <2>3. Min(E) \in E /\ \A k \in E : Min(E) <= k
    BY <2>2, MinOfNats
  <2>4. PICK m : m = Min(E)
    OBVIOUS
  <2>5. m \in j + 1..Len(us) /\ Ends(us[m])
    BY <2>1, <2>3, <2>4
  <2>6. \A k \in j + 1..m - 1 : k \notin E /\ k \in j + 1..Len(us)
    BY <1>1, <1>2, <2>3, <2>4, <2>5
  <2>7. \A k \in j + 1..m - 1 : ~Ends(us[k])
    BY <2>1, <2>6
  <2> QED BY <2>5, <2>7
<1>4. PICK a, c : a = SubSeq(us, 1, m) /\ c = SubSeq(us, m + 1, Len(us))
  OBVIOUS
<1>5. Cut(us, a, c)
  <2>1. m \in 1..Len(us) /\ \A k \in 1..m - 1 : k \in 1..j \/ k \in j + 1..m - 1
    BY <1>1, <1>2
  <2>2. \A k \in 1..m - 1 : ~Ends(us[k])
    BY <1>1, <1>3, <2>1
  <2> QED BY <1>1, <1>3, <1>4, <2>1, <2>2, CutFirst
<1>6. PICK b, n : b = FlattenSeq(a) /\ n = FlattenSeq(c)
  OBVIOUS
<1>7. F!TryExtractNextEvent(bu, bi) = [found |-> TRUE, idx |-> 0, event |-> b, buffer |-> n]
  BY <1>1, <1>3, <1>4, <1>6, ExtractFirst
<1>8. PICK e : /\ NextOf(sn, d, e) /\ Strip(a) = Records(e)
               /\ Strip(c) \o fs \o td = RestOf(sn, d + 1)
  BY <1>1, <1>5, NextRecords
<1>9. Made(a, Records(e)) /\ Closed(a) /\ c \in Seq(Unit) /\ IsEvent(e)
  BY <1>5, <1>8, MadeOf DEF Cut, NextOf
<1>10. PICK p : p = ParseEventFromWords(b)
  OBVIOUS
<1>11. /\ p.tS \in Seq(Word) /\ p.ev_count \in Seq(Word) /\ Kept(p) = Kept(Meaning(e))
       /\ (IF DOMAIN p.signals = {} THEN <<>> ELSE <<p>>) = Kept(p)
  BY <1>6, <1>9, <1>10, EventRead
<1>12. PICK s : s = IF DOMAIN p.signals = {} THEN pa ELSE Append(pa, p)
  OBVIOUS
<1>13. Events(sn) /\ d \in 0..Len(sn) /\ pa = StoredOf(sn, d)
  BY DEF Pending
<1>14. s = StoredOf(sn, d + 1)
  <2>1. PICK M : M = Meanings(sn)
    OBVIOUS
  <2>2. pa \in Seq(M)
    BY <1>13, <2>1, StoredType
  <2>3. PICK k : k = IF DOMAIN p.signals = {} THEN <<>> ELSE <<p>>
    OBVIOUS
  <2>4. s = pa \o k
    BY <1>12, <2>2, <2>3, StoreOne
  <2>5. k = Kept(Meaning(e))
    BY <1>11, <2>3
  <2> QED BY <1>8, <1>13, <2>4, <2>5 DEF NextOf
<1>15. Buffered(c, fs, 0, n, 0, fr)
  <2>1. c \in Seq(Seq(Word)) /\ Len(c) \in Nat /\ Off(c, 0) = 0
    <3>1. c \in Seq(Seq(Word)) /\ Len(c) \in Nat
      BY <1>9, UnitWords
    <3> QED BY <3>1, Ranges
  <2>2. 0 \in 0..Len(c) /\ \A k \in 1..0 : ~Ends(c[k])
    BY <2>1
  <2>3. Clean(fs) /\ fr = FlattenSeq(fs) /\ Len(fr) + 4 <= FrameWords
    BY DEF Buffered
  <2> QED BY <1>6, <1>9, <2>1, <2>2, <2>3, Zenon DEF Buffered
<1>16. Pending(c, fs, td, sn, d + 1, s)
  <2>1. d + 1 \in 0..Len(sn)
    BY <1>8 DEF NextOf
  <2> QED BY <1>8, <1>14, <2>1 DEF Pending
<1> QED BY <1>7, <1>10, <1>11, <1>12, <1>15, <1>16

\* A step does not change the electronics, so that all that was said of the
\* formats stays true behind it.
LEMMA SameWords ==
  ASSUME electronics' = electronics
  PROVE  /\ Unit' = Unit /\ Framing' = Framing
         /\ \A u : Ends(u)' <=> Ends(u)
         /\ \A us : Strip(us)' = Strip(us)
<1>1. \A w : SkipOf(w)' = SkipOf(w)
  BY DEF SkipOf, Of
<1>2. HitIndex' = HitIndex /\ Data' = Data /\ EndOfEvent' = EndOfEvent
  BY DEF HitIndex, Data, EndOfEvent, AdcSample, TimeBin, Of
<1>3. Unit' = Unit
  BY <1>1, <1>2 DEF Unit, Simple, Headed
<1>4. Framing' = Framing
  BY DEF Framing, Of
<1>5. \A u : Ends(u)' <=> Ends(u)
  BY <1>2 DEF Ends
<1>6. \A us : Strip(us)' = Strip(us)
  BY <1>4 DEF Strip, Piece
<1> QED BY <1>3, <1>4, <1>5, <1>6

\* The parts of what an event means.
Channels(e) == {Number(h) : h \in RealHits(e)}
HitOf(e, c) == CHOOSE h \in RealHits(e) : Number(h) = c
MeaningOf(e) == [tS |-> e.time, ev_count |-> e.count,
                 signals |-> [c \in Channels(e) |-> Values(HitOf(e, c).pulse)]]

\* They are all of it.
LEMMA MeaningParts == \A e : Meaning(e) = MeaningOf(e)
BY DEF Meaning, MeaningOf, Channels, HitOf, RealHits

\* They are all of it in the next state too.
LEMMA MeaningPartsNext == \A e : Meaning(e)' = MeaningOf(e)'
BY DEF Meaning, MeaningOf, Channels, HitOf, RealHits

\* Nor does what the events are change.
LEMMA SameEvents ==
  ASSUME electronics' = electronics
  PROVE  /\ \A e : Records(e)' = Records(e)
         /\ \A e : Meaning(e)' = Meaning(e)
         /\ \A e : IsEvent(e)' <=> IsEvent(e)
<1>1. \A e : Records(e)' = Records(e)
  BY DEF Records
<1>2. \A h : Real(h)' <=> Real(h)
  BY DEF Real
<1>3. \A h : Number(h)' = Number(h)
  BY DEF Number
<1>4. \A e : RealHits(e)' = RealHits(e)
  BY <1>2 DEF RealHits
<1>5. \A e : Meaning(e)' = Meaning(e)
  <2>1. \A e : Channels(e)' = Channels(e)
    BY <1>3, <1>4 DEF Channels
  <2>2. \A e, c : HitOf(e, c)' = HitOf(e, c)
    BY <1>3, <1>4 DEF HitOf
  <2>3. \A e : MeaningOf(e)' = MeaningOf(e)
    BY <2>1, <2>2 DEF MeaningOf
  <2> QED BY <2>3, MeaningParts, MeaningPartsNext
<1>6. \A e : IsEvent(e)' <=> IsEvent(e)
  BY DEF IsEvent, IsCount
<1> QED BY <1>1, <1>5, <1>6

\* Nor what is still to come of them, and what is stored.
LEMMA SameStored ==
  ASSUME electronics' = electronics
  PROVE  /\ \A sn : Events(sn)' <=> Events(sn)
         /\ \A sn, d : RestOf(sn, d)' = RestOf(sn, d)
         /\ \A sn, d : StoredOf(sn, d)' = StoredOf(sn, d)
<1>1. \A sn : Events(sn)' <=> Events(sn)
  BY SameEvents DEF Events
<1>2. \A sn : RecordsOf(sn)' = RecordsOf(sn)
  BY SameEvents DEF RecordsOf
<1>3. \A sn : KeptOf(sn)' = KeptOf(sn)
  BY SameEvents DEF KeptOf
<1>4. \A sn, d : RestOf(sn, d)' = RestOf(sn, d)
  BY <1>2 DEF RestOf
<1>5. \A sn, d : StoredOf(sn, d)' = StoredOf(sn, d)
  BY <1>3 DEF StoredOf
<1> QED BY <1>1, <1>4, <1>5

\* Nor what is said of the state.
LEMMA SameState ==
  ASSUME electronics' = electronics
  PROVE  /\ \A us, fs, j, bu, bi, fr :
              Buffered(us, fs, j, bu, bi, fr)' <=> Buffered(us, fs, j, bu, bi, fr)
         /\ \A us, fs, td, sn, d, pa :
              Pending(us, fs, td, sn, d, pa)' <=> Pending(us, fs, td, sn, d, pa)
<1>1. \A us : Clean(us)' <=> Clean(us)
  BY SameWords DEF Clean
<1>2. \A us, j : Off(us, j)' = Off(us, j)
  BY DEF Off
<1>3. \A us, fs, j, bu, bi, fr :
        Buffered(us, fs, j, bu, bi, fr)' <=> Buffered(us, fs, j, bu, bi, fr)
  BY <1>1, <1>2, SameWords DEF Buffered
<1>4. \A us, fs, td, sn, d, pa :
        Pending(us, fs, td, sn, d, pa)' <=> Pending(us, fs, td, sn, d, pa)
  BY <1>1, SameWords, SameStored, ZenonT(40) DEF Pending
<1> QED BY <1>3, <1>4

(***************************************************************************)
(* The invariant.                                                          *)
(***************************************************************************)
Stream(bu, bi, fr, td, sn, pa) ==
  \E us, fs, j, d : Buffered(us, fs, j, bu, bi, fr) /\ Pending(us, fs, td, sn, d, pa)

StreamInv ==
  /\ electronics \in Electronics /\ tS \in Seq(Word) /\ ev_count \in Seq(Word)
  /\ Stream(buffer, bufferIndex, frame, todo, sent, parsed)

\* At the start nothing was sent.
LEMMA InitStreamInv == Init => StreamInv
<1> SUFFICES ASSUME Init PROVE StreamInv
  OBVIOUS
<1>1. electronics \in Electronics
  BY DEF Init
<1>2. tS \in Seq(Word) /\ ev_count \in Seq(Word)
  <2>1. 0 \in Word
    BY Numbers
  <2> QED BY <2>1 DEF Init
<1>3. Clean(<<>>) /\ FlattenSeq(<<>>) = <<>> /\ <<>> \in Seq(Unit) /\ Strip(<<>>) = <<>>
  <2>1. Clean(<<>>) /\ FlattenSeq(<<>>) = <<>> /\ <<>> \in Seq(Unit)
    BY FlattenNone DEF Clean
  <2>2. PICK x : x = <<>>
    OBVIOUS
  <2>3. x \in Seq(Unit) /\ \A k \in 1..Len(x) : x[k] \notin Framing
    BY <2>2
  <2>4. Strip(x) = x
    BY <2>3, StripClean
  <2> QED BY <2>1, <2>2, <2>4
<1>4. Buffered(<<>>, <<>>, 0, <<>>, 0, <<>>)
  <2>1. PICK T : T = Seq(Word)
    OBVIOUS
  <2>2. <<>> \in Seq(T) /\ Len(<<>>) = 0
    OBVIOUS
  <2>3. Off(<<>>, 0) = 0
    BY <2>1, <2>2, Ranges
  <2>4. 0 \in 0..Len(<<>>) /\ \A k \in 1..0 : ~Ends(<<>>[k])
    BY <2>2
  <2>5. Len(<<>>) + 4 <= FrameWords
    BY DEF FrameWords
  <2> QED BY <1>3, <2>3, <2>4, <2>5, Zenon DEF Buffered
<1>5. Pending(<<>>, <<>>, <<>>, <<>>, 0, <<>>)
  <2>1. Events(<<>>)
    <3>1. MaxEvents \in Nat
      BY InputAssumption
    <3>2. <<>> \in Seq(Range(<<>>)) /\ Len(<<>>) \in 0..MaxEvents /\ \A i \in 1..Len(<<>>) : FALSE
      BY <3>1
    <3> QED BY <3>2 DEF Events
  <2>2. RecordsOf(<<>>) = <<>> /\ KeptOf(<<>>) = <<>>
    BY DEF RecordsOf, KeptOf
  <2>3. SubSeq(<<>>, 1, 0) = <<>> /\ SubSeq(<<>>, 0 + 1, Len(<<>>)) = <<>>
    OBVIOUS
  <2>4. RestOf(<<>>, 0) = <<>> /\ StoredOf(<<>>, 0) = <<>>
    BY <2>2, <2>3, FlattenNone DEF RestOf, StoredOf, Behind, Before
  <2>5. 0 \in 0..Len(<<>>) /\ Strip(<<>>) \o <<>> \o <<>> = <<>>
    BY <1>3
  <2> QED BY <1>3, <2>1, <2>4, <2>5 DEF Pending
<1>6. Stream(buffer, bufferIndex, frame, todo, sent, parsed)
  BY <1>4, <1>5 DEF Init, Stream
<1> QED BY <1>1, <1>2, <1>6 DEF StreamInv

\* What the front end sends are events.
LEMMA TriggerEvent ==
  ASSUME electronics \in Electronics, NEW n \in 1..MaxEvents, NEW time \in Times,
         NEW hits \in HitSeqs(electronics, n), NEW high,
         high = IF electronics = "DCC" THEN 0 ELSE time[2],
         NEW e, e = [time |-> time, count |-> <<high, n>>, hits |-> hits]
  PROVE  IsEvent(e)
<1>1. time \in Word \X Word \X Word
  BY InputAssumption
<1>2. high \in Word
  <2>1. 0 \in Word
    BY Numbers
  <2>2. time[2] \in Word
    BY <1>1
  <2> QED BY <2>1, <2>2
<1>3. n \in Nat /\ n <= 16383
  <2>1. MaxEvents \in Int /\ MaxEvents <= 16383
    BY InputAssumption
  <2> QED BY <2>1
<1>4. n \in Word
  <2>1. n \in Int /\ 0 <= n /\ n <= 65535
    BY <1>3
  <2> QED BY <2>1, Numbers
<1>5. IsCount(<<high, n>>)
  <2>1. electronics = "DCC" => high = 0
    OBVIOUS
  <2>2. PICK c : c = <<high, n>>
    OBVIOUS
  <2>3. c \in Word \X Word /\ c[1] = high /\ c[2] = n
    BY <1>2, <1>4, <2>2
  <2> QED BY <1>3, <2>1, <2>2, <2>3 DEF IsCount
<1>6. /\ hits \in Seq(Range(hits)) /\ \A i \in DOMAIN hits : IsHit(electronics, hits[i])
      /\ \A i, j \in DOMAIN hits : i # j =>
           <<hits[i].card, hits[i].chip, hits[i].chan>>
             # <<hits[j].card, hits[j].chip, hits[j].chan>>
  BY InputAssumption
<1>7. e.time = time /\ e.count = <<high, n>> /\ e.hits = hits
  OBVIOUS
<1> QED BY <1>1, <1>5, <1>6, <1>7, ZenonT(40) DEF IsEvent

\* The steps, on the parts of the state that they change.
LEMMA StreamTrigger ==
  ASSUME electronics \in Electronics, NEW bu, NEW bi, NEW fr, NEW sn, NEW pa,
         Stream(bu, bi, fr, <<>>, sn, pa), Len(sn) < MaxEvents, NEW e, IsEvent(e)
  PROVE  Stream(bu, bi, fr, Records(e), Append(sn, e), pa)
<1>1. PICK us, fs, j, d : Buffered(us, fs, j, bu, bi, fr) /\ Pending(us, fs, <<>>, sn, d, pa)
  BY DEF Stream
<1>2. us \in Seq(Unit) /\ Clean(fs)
  BY <1>1 DEF Buffered
<1>3. Pending(us, fs, Records(e), Append(sn, e), d, pa)
  BY <1>1, <1>2, TriggerStep
<1> QED BY <1>1, <1>3 DEF Stream

\* A record is put into the frame.
LEMMA StreamFill ==
  ASSUME electronics \in Electronics, NEW bu, NEW bi, NEW fr, NEW td, NEW sn, NEW pa,
         Stream(bu, bi, fr, td, sn, pa), Room(fr, td)
  PROVE  Stream(bu, bi, fr \o Head(td), Tail(td), sn, pa)
<1>1. PICK us, fs, j, d : Buffered(us, fs, j, bu, bi, fr) /\ Pending(us, fs, td, sn, d, pa)
  BY DEF Stream
<1>2. PICK g : /\ Buffered(us, g, j, bu, bi, fr \o Head(td))
               /\ Pending(us, g, Tail(td), sn, d, pa)
  BY <1>1, FillStep
<1> QED BY <1>2 DEF Stream

\* The frame is received.
LEMMA StreamSend ==
  ASSUME electronics \in Electronics, NEW bu, NEW bi, NEW fr, NEW td, NEW sn, NEW pa,
         Stream(bu, bi, fr, td, sn, pa)
  PROVE  Stream(bu \o Framed(fr), bi, <<>>, td, sn, pa)
<1>1. PICK us, fs, j, d : Buffered(us, fs, j, bu, bi, fr) /\ Pending(us, fs, td, sn, d, pa)
  BY DEF Stream
<1>2. PICK v : /\ Buffered(v, <<>>, j, bu \o Framed(fr), bi, <<>>)
               /\ Pending(v, <<>>, td, sn, d, pa)
  BY <1>1, SendStep
<1> QED BY <1>2 DEF Stream

\* A pass of the builder, and what it leaves.
Passed(r, fr, td, sn, pa) ==
  \/ /\ ~r.found /\ Stream(r.buffer, r.idx, fr, td, sn, pa)
  \/ /\ r.found
     /\ LET p == ParseEventFromWords(r.event)
            s == IF DOMAIN p.signals = {} THEN pa ELSE Append(pa, p)
        IN /\ p.tS \in Seq(Word) /\ p.ev_count \in Seq(Word)
           /\ Stream(r.buffer, r.idx, fr, td, sn, s)

\* A pass of the builder finds no event, or stores the next one.
LEMMA StreamBuild ==
  ASSUME electronics \in Electronics, tS \in Seq(Word), ev_count \in Seq(Word),
         NEW bu, NEW bi, NEW fr, NEW td, NEW sn, NEW pa, Stream(bu, bi, fr, td, sn, pa)
  PROVE  Passed(F!TryExtractNextEvent(bu, bi), fr, td, sn, pa)
<1>1. PICK us, fs, j, d : Buffered(us, fs, j, bu, bi, fr) /\ Pending(us, fs, td, sn, d, pa)
  BY DEF Stream
<1>2. PICK r : r = F!TryExtractNextEvent(bu, bi)
  OBVIOUS
<1>3. CASE \A k \in j + 1..Len(us) : ~Ends(us[k])
  <2>1. /\ r = [found |-> FALSE, idx |-> Len(bu), buffer |-> bu]
        /\ Buffered(us, fs, Len(us), bu, Len(bu), fr)
    BY <1>1, <1>2, <1>3, BuildNone
  <2>2. ~r.found /\ r.idx = Len(bu) /\ r.buffer = bu
    BY <2>1
  <2>3. Stream(bu, Len(bu), fr, td, sn, pa)
    BY <1>1, <2>1 DEF Stream
  <2> QED BY <1>2, <2>2, <2>3 DEF Passed
<1>4. CASE \E k \in j + 1..Len(us) : Ends(us[k])
  <2>1. PICK i \in j + 1..Len(us) : Ends(us[i])
    BY <1>4
  <2>2. PICK c, b, n : LET p == ParseEventFromWords(b)
                           s == IF DOMAIN p.signals = {} THEN pa ELSE Append(pa, p) IN
          /\ r = [found |-> TRUE, idx |-> 0, event |-> b, buffer |-> n]
          /\ p.tS \in Seq(Word) /\ p.ev_count \in Seq(Word)
          /\ Buffered(c, fs, 0, n, 0, fr) /\ Pending(c, fs, td, sn, d + 1, s)
    BY <1>1, <1>2, <2>1, BuildFirst
  <2>3. r.found /\ r.idx = 0 /\ r.event = b /\ r.buffer = n
    BY <2>2
  <2>4. PICK p, s : /\ p = ParseEventFromWords(b)
                    /\ s = IF DOMAIN p.signals = {} THEN pa ELSE Append(pa, p)
    OBVIOUS
  <2>5. p.tS \in Seq(Word) /\ p.ev_count \in Seq(Word) /\ Stream(n, 0, fr, td, sn, s)
    BY <2>2, <2>4 DEF Stream
  <2> QED BY <1>2, <2>3, <2>4, <2>5 DEF Passed
<1> QED BY <1>3, <1>4

\* In the state behind a step.
LEMMA StreamNext ==
  ASSUME electronics' = electronics, electronics \in Electronics,
         tS' \in Seq(Word), ev_count' \in Seq(Word),
         Stream(buffer', bufferIndex', frame', todo', sent', parsed')
  PROVE  StreamInv'
<1>1. PICK us, fs, j, d : /\ Buffered(us, fs, j, buffer', bufferIndex', frame')
                          /\ Pending(us, fs, todo', sent', d, parsed')
  BY DEF Stream
<1>2. Stream(buffer, bufferIndex, frame, todo, sent, parsed)'
  BY <1>1, SameState DEF Stream
<1> QED BY <1>2 DEF StreamInv

\* Every step keeps the invariant.
LEMMA NextStreamInv == StreamInv /\ [Next]_vars => StreamInv'
<1> SUFFICES ASSUME StreamInv, [Next]_vars PROVE StreamInv'
  OBVIOUS
<1>1. /\ electronics \in Electronics /\ tS \in Seq(Word) /\ ev_count \in Seq(Word)
      /\ Stream(buffer, bufferIndex, frame, todo, sent, parsed)
  BY DEF StreamInv
<1>2. CASE Trigger
  <2>1. /\ UNCHANGED <<electronics, frame, buffer, bufferIndex, tS, ev_count, parsed>>
        /\ todo = <<>> /\ Len(sent) < MaxEvents
    BY <1>2 DEF Trigger
  <2>2. PICK time \in Times, hits \in HitSeqs(electronics, Len(sent) + 1) :
          LET high == IF electronics = "DCC" THEN 0 ELSE time[2]
              e == [time |-> time, count |-> <<high, Len(sent) + 1>>, hits |-> hits]
          IN sent' = Append(sent, e) /\ todo' = Records(e)
    BY <1>2 DEF Trigger
  <2>3. PICK high, e : /\ high = IF electronics = "DCC" THEN 0 ELSE time[2]
                       /\ e = [time |-> time, count |-> <<high, Len(sent) + 1>>, hits |-> hits]
    OBVIOUS
  <2>4. sent' = Append(sent, e) /\ todo' = Records(e)
    BY <2>2, <2>3
  <2>5. Len(sent) + 1 \in 1..MaxEvents
    <3>1. Events(sent)
      BY <1>1 DEF Stream, Pending
    <3>2. Len(sent) \in 0..MaxEvents /\ MaxEvents \in Nat
      BY <3>1, InputAssumption DEF Events
    <3> QED BY <2>1, <3>2
  <2>6. IsEvent(e)
    BY <1>1, <2>2, <2>3, <2>5, TriggerEvent
  <2>7. Stream(buffer, bufferIndex, frame, Records(e), Append(sent, e), parsed)
    BY <1>1, <2>1, <2>6, StreamTrigger
  <2>8. Stream(buffer', bufferIndex', frame', todo', sent', parsed')
    BY <2>1, <2>4, <2>7
  <2> QED BY <1>1, <2>1, <2>8, StreamNext
<1>3. CASE Fill
  <2>1. /\ UNCHANGED <<electronics, sent, buffer, bufferIndex, tS, ev_count, parsed>>
        /\ frame' = frame \o Head(todo) /\ todo' = Tail(todo) /\ Room(frame, todo)
    BY <1>3 DEF Fill, Room
  <2>2. Stream(buffer, bufferIndex, frame \o Head(todo), Tail(todo), sent, parsed)
    BY <1>1, <2>1, StreamFill
  <2>3. Stream(buffer', bufferIndex', frame', todo', sent', parsed')
    BY <2>1, <2>2
  <2> QED BY <1>1, <2>1, <2>3, StreamNext
<1>4. CASE SendFrame
  <2>1. /\ UNCHANGED <<electronics, sent, todo, bufferIndex, tS, ev_count, parsed>>
        /\ buffer' = buffer \o Framed(frame) /\ frame' = <<>>
    BY <1>4 DEF SendFrame
  <2>2. Stream(buffer \o Framed(frame), bufferIndex, <<>>, todo, sent, parsed)
    BY <1>1, StreamSend
  <2>3. Stream(buffer', bufferIndex', frame', todo', sent', parsed')
    BY <2>1, <2>2
  <2> QED BY <1>1, <2>1, <2>3, StreamNext
<1>5. CASE Build
  <2>1. PICK r : r = TryExtractNextEvent
    OBVIOUS
  <2>2. /\ UNCHANGED <<electronics, sent, todo, frame>>
        /\ buffer' = r.buffer /\ bufferIndex' = r.idx
        /\ \/ ~r.found /\ UNCHANGED <<tS, ev_count, parsed>>
           \/ /\ r.found
              /\ LET p == ParseEventFromWords(r.event) IN
                 /\ tS' = p.tS /\ ev_count' = p.ev_count
                 /\ parsed' = IF DOMAIN p.signals = {} THEN parsed ELSE Append(parsed, p)
    BY <1>5, <2>1 DEF Build
  <2>3. Passed(r, frame, todo, sent, parsed)
    BY <1>1, <2>1, ExtractSame, StreamBuild
  <2>4. /\ tS' \in Seq(Word) /\ ev_count' \in Seq(Word)
        /\ Stream(r.buffer, r.idx, frame, todo, sent, parsed')
    <3>1. CASE ~r.found
      BY <1>1, <2>2, <2>3, <3>1 DEF Passed
    <3>2. CASE r.found
      <4>1. PICK p, s : /\ p = ParseEventFromWords(r.event)
                        /\ s = IF DOMAIN p.signals = {} THEN parsed ELSE Append(parsed, p)
        OBVIOUS
      <4>2. tS' = p.tS /\ ev_count' = p.ev_count /\ parsed' = s
        BY <2>2, <3>2, <4>1
      <4>3. /\ p.tS \in Seq(Word) /\ p.ev_count \in Seq(Word)
            /\ Stream(r.buffer, r.idx, frame, todo, sent, s)
        BY <2>3, <3>2, <4>1 DEF Passed
      <4> QED BY <4>2, <4>3
    <3> QED BY <3>1, <3>2
  <2>5. Stream(buffer', bufferIndex', frame', todo', sent', parsed')
    BY <2>2, <2>4
  <2> QED BY <1>1, <2>2, <2>4, <2>5, StreamNext
<1>6. CASE UNCHANGED vars
  <2>1. /\ electronics' = electronics /\ tS' = tS /\ ev_count' = ev_count
        /\ buffer' = buffer /\ bufferIndex' = bufferIndex /\ frame' = frame /\ todo' = todo
        /\ sent' = sent /\ parsed' = parsed
    BY <1>6 DEF vars
  <2>2. Stream(buffer', bufferIndex', frame', todo', sent', parsed')
    BY <1>1, <2>1
  <2> QED BY <1>1, <2>1, <2>2, StreamNext
<1> QED BY <1>2, <1>3, <1>4, <1>5, <1>6 DEF Next

\* Every behaviour keeps the invariant: the buffer, the frame and the records in
\* no frame yet are those of the events not stored yet, in whole units.
THEOREM StreamInvHolds == Spec => []StreamInv
BY InitStreamInv, NextStreamInv, PTL DEF Spec

\* What is stored is a prefix of what was sent.
LEMMA StoredPrefix ==
  ASSUME NEW sn, Events(sn), NEW d \in 0..Len(sn)
  PROVE  IsPrefix(StoredOf(sn, d), FlattenSeq(KeptOf(sn)))
<1>1. PICK f, M : f = KeptOf(sn) /\ M = Meanings(sn)
  OBVIOUS
<1>2. f \in Seq(Seq(M)) /\ d \in 0..Len(f)
  BY <1>1, KeptSeq
<1>3. PICK a, b : a = SubSeq(f, 1, d) /\ b = SubSeq(f, d + 1, Len(f))
  OBVIOUS
<1>4. /\ FlattenSeq(a) \in Seq(M) /\ FlattenSeq(b) \in Seq(M)
      /\ FlattenSeq(f) = FlattenSeq(a) \o FlattenSeq(b)
  BY <1>2, <1>3, CutAt, ZenonT(40)
<1>5. PICK x, y : x = FlattenSeq(a) /\ y = FlattenSeq(b)
  OBVIOUS
<1>6. x \in Seq(M) /\ y \in Seq(M) /\ FlattenSeq(f) = x \o y
  BY <1>4, <1>5
<1>7. IsPrefix(x, x \o y)
  BY <1>6 DEF IsPrefix
<1> QED BY <1>1, <1>3, <1>5, <1>6, <1>7 DEF StoredOf, Before

\* Events that are all stored.
LEMMA StoredAll ==
  ASSUME NEW sn, Events(sn)
  PROVE  StoredOf(sn, Len(sn)) = FlattenSeq(KeptOf(sn))
<1>1. PICK f, T : f = KeptOf(sn) /\ T = Seq(Meanings(sn))
  OBVIOUS
<1>2. f \in Seq(T) /\ Len(f) = Len(sn)
  BY <1>1, KeptSeq
<1>3. SubSeq(f, 1, Len(f)) = f
  BY <1>2
<1> QED BY <1>1, <1>2, <1>3 DEF StoredOf, Before

\* Units end within the buffer.
LEMMA OffRange ==
  ASSUME NEW us \in Seq(Unit), NEW j \in 0..Len(us), NEW b, b = FlattenSeq(us)
  PROVE  Off(us, j) \in 0..Len(b)
<1>1. us \in Seq(Seq(Word)) /\ Len(us) \in Nat
  BY UnitWords
<1>2. b \in Seq(Word) /\ Off(us, 0) = 0
  BY <1>1, Ranges
<1>3. CASE j = 0
  BY <1>2, <1>3
<1>4. CASE j # 0
  <2>1. j \in 1..Len(us)
    BY <1>1, <1>4
  <2>2. Off(us, j) <= Len(b) /\ Off(us, j) \in Nat
    BY <1>1, <2>1, Place, Ranges
  <2> QED BY <1>2, <2>2
<1> QED BY <1>3, <1>4

\* If every word was looked at no record is left.
LEMMA NothingLeft ==
  ASSUME electronics \in Electronics, NEW us, NEW fs, NEW j, NEW bu, NEW bi, NEW fr,
         Buffered(us, fs, j, bu, bi, fr), NEW td, NEW sn, NEW d, NEW pa,
         Pending(us, fs, td, sn, d, pa), td = <<>>, fr = <<>>, bi = Len(bu)
  PROVE  d = Len(sn)
<1>1. /\ us \in Seq(Unit) /\ bu = FlattenSeq(us) /\ j \in 0..Len(us) /\ bi = Off(us, j)
      /\ (\A k \in 1..j : ~Ends(us[k])) /\ fs \in Seq(Unit) /\ FlattenSeq(fs) = <<>>
  BY DEF Buffered, Clean
<1>2. us \in Seq(Seq(Word)) /\ Len(us) \in Nat /\ fs \in Seq(Seq(Word)) /\ Len(fs) \in Nat
  BY <1>1, UnitWords
<1>3. j = Len(us)
  <2>1. SUFFICES ASSUME j # Len(us) PROVE FALSE
    OBVIOUS
  <2>2. PICK m : m = j + 1
    OBVIOUS
  <2>3. m \in 1..Len(us) /\ m - 1 = j
    BY <1>1, <1>2, <2>1, <2>2
  <2>4. /\ Off(us, m - 1) \in Nat /\ Off(us, m) = Off(us, m - 1) + Len(us[m])
        /\ Off(us, m) <= Len(FlattenSeq(us)) /\ us[m] \in Seq(Word)
    BY <1>2, <2>3, Place
  <2>5. us[m] # <<>>
    BY <1>1, <2>3, UnitWords
  <2>6. Len(us[m]) \in Nat /\ Len(us[m]) >= 1
    BY <2>4, <2>5
  <2>7. PICK o, l : o = Off(us, j) /\ l = Len(us[m])
    OBVIOUS
  <2>8. o \in Nat /\ l \in Nat /\ l >= 1 /\ o + l <= o
    BY <1>1, <2>3, <2>4, <2>6, <2>7
  <2> QED BY <2>8
<1>4. fs = <<>>
  <2>1. SUFFICES ASSUME fs # <<>> PROVE FALSE
    OBVIOUS
  <2>2. Len(fs) \in 1..Len(fs) /\ 1 \in 1..Len(fs)
    BY <1>1, <1>2, <2>1
  <2>3. /\ Off(fs, 1 - 1) \in Nat /\ Off(fs, 1) = Off(fs, 1 - 1) + Len(fs[1])
        /\ Off(fs, 1) <= Len(FlattenSeq(fs)) /\ fs[1] \in Seq(Word)
    BY <1>2, <2>2, Place
  <2>4. fs[1] # <<>>
    BY <1>1, <2>2, UnitWords
  <2>5. Len(fs[1]) \in Nat /\ Len(fs[1]) >= 1
    BY <2>3, <2>4
  <2>6. Len(FlattenSeq(fs)) = 0
    BY <1>1
  <2>7. PICK o, l : o = Off(fs, 1 - 1) /\ l = Len(fs[1])
    OBVIOUS
  <2>8. o \in Nat /\ l \in Nat /\ l >= 1 /\ o + l <= 0
    BY <2>3, <2>5, <2>6, <2>7
  <2> QED BY <2>8
<1>5. Strip(us) = RestOf(sn, d)
  <2>1. Strip(us) \o <<>> \o <<>> = RestOf(sn, d)
    BY <1>4 DEF Pending
  <2>2. PICK s \in Seq(Unit) : s = Strip(us)
    BY <1>1, StripConcat
  <2>3. s \o <<>> = s
    OBVIOUS
  <2> QED BY <2>1, <2>2, <2>3
<1>6. \A k \in 1..Len(Strip(us)) : ~Ends(Strip(us)[k])
  BY <1>1, <1>3, StripRange
<1>7. SUFFICES ASSUME d # Len(sn) PROVE FALSE
  OBVIOUS
<1>8. Events(sn) /\ d \in 0..Len(sn)
  BY DEF Pending
<1>9. PICK e : NextOf(sn, d, e)
  <2>1. d \in 0..Len(sn) - 1
    <3>1. Len(sn) \in Nat
      BY <1>8, RecordsSeq
    <3> QED BY <1>7, <1>8, <3>1
  <2> QED BY <1>8, <2>1, NextIs
<1>10. PICK r, y : r = Records(e) /\ y = RestOf(sn, d + 1)
  OBVIOUS
<1>11. r \in Seq(Unit) /\ Len(r) \in 1..Len(r) /\ Ends(r[Len(r)])
  <2>1. EventUnits(r)
    BY <1>9, <1>10, EventRecords DEF NextOf
  <2> QED BY <2>1 DEF EventUnits
<1>12. y \in Seq(Unit) /\ Strip(us) = r \o y
  BY <1>5, <1>9, <1>10 DEF NextOf
<1>13. PICK s : s = r \o y
  OBVIOUS
<1>14. Len(r) \in 1..Len(s) /\ s[Len(r)] = r[Len(r)]
  BY <1>11, <1>12, <1>13
<1> QED BY <1>6, <1>11, <1>12, <1>13, <1>14

\* Whatever the times, the hits, their number, the cut of records into frames and
\* the passes of the builder, the events stored are those sent, word by word and
\* in order, and all of them once every word was looked at.
THEOREM EventsExactHolds == Spec => []EventsExact
<1>1. ASSUME StreamInv PROVE EventsExact
  <2>1. PICK us, fs, j, d : /\ Buffered(us, fs, j, buffer, bufferIndex, frame)
                            /\ Pending(us, fs, todo, sent, d, parsed)
    BY <1>1 DEF StreamInv, Stream
  <2>2. Events(sent) /\ d \in 0..Len(sent) /\ parsed = StoredOf(sent, d)
    BY <2>1 DEF Pending
  <2>3. Expected = FlattenSeq(KeptOf(sent))
    BY DEF Expected, KeptOf
  <2>4. IsPrefix(parsed, Expected)
    BY <2>2, <2>3, StoredPrefix
  <2>5. ASSUME todo = <<>>, frame = <<>>, bufferIndex = Len(buffer) PROVE parsed = Expected
    <3>1. electronics \in Electronics
      BY <1>1 DEF StreamInv
    <3>2. d = Len(sent)
      BY <2>1, <2>5, <3>1, NothingLeft, SMTT(30)
    <3> QED BY <2>2, <2>3, <3>2, StoredAll
  <2> QED BY <2>4, <2>5 DEF EventsExact
<1> QED BY <1>1, StreamInvHolds, PTL

\* Every variable keeps its type: the index stays in the buffer, and what is
\* parsed are 12 bit samples in the 512 bins of a pulse.
THEOREM StreamTypeCorrect == Spec => []TypeOK
<1>1. ASSUME StreamInv PROVE TypeOK
  <2>1. PICK us, fs, j, d : /\ Buffered(us, fs, j, buffer, bufferIndex, frame)
                            /\ Pending(us, fs, todo, sent, d, parsed)
    BY <1>1 DEF StreamInv, Stream
  <2>2. electronics \in Electronics /\ tS \in Seq(Word) /\ ev_count \in Seq(Word)
    BY <1>1 DEF StreamInv
  <2>3. Events(sent) /\ d \in 0..Len(sent) /\ parsed = StoredOf(sent, d)
    BY <2>1 DEF Pending
  <2>4. Len(sent) \in 0..MaxEvents
    BY <2>3 DEF Events
  <2>5. todo \in Seq(Seq(Word)) /\ frame \in Seq(Word)
    <3>1. todo \in Seq(Unit) /\ fs \in Seq(Unit) /\ frame = FlattenSeq(fs)
      BY <2>1 DEF Pending, Buffered, Clean
    <3>2. todo \in Seq(Seq(Word)) /\ fs \in Seq(Seq(Word))
      BY <3>1, UnitWords
    <3>3. FlattenSeq(fs) \in Seq(Word)
      BY <3>2, Ranges
    <3> QED BY <3>1, <3>2, <3>3
  <2>6. buffer \in Seq(Word) /\ bufferIndex \in 0..Len(buffer)
    <3>1. /\ us \in Seq(Unit) /\ buffer = FlattenSeq(us) /\ j \in 0..Len(us)
          /\ bufferIndex = Off(us, j)
      BY <2>1 DEF Buffered
    <3>2. buffer \in Seq(Word)
      BY <3>1, UnitsConcat
    <3>3. Off(us, j) \in 0..Len(buffer)
      BY <3>1, OffRange
    <3> QED BY <3>1, <3>2, <3>3
  <2>7. ASSUME NEW i \in DOMAIN parsed, NEW c \in DOMAIN parsed[i].signals
        PROVE  /\ c \in Nat
               /\ \A b \in DOMAIN parsed[i].signals[c] :
                    b \in 0..511 /\ parsed[i].signals[c][b] \in 0..4095
    <3>1. parsed \in Seq(Meanings(sent))
      BY <2>2, <2>3, StoredType
    <3>2. parsed[i] \in Meanings(sent)
      BY <2>7, <3>1
    <3>3. PICK k \in DOMAIN sent : parsed[i] = Meaning(sent[k])
      BY <3>2 DEF Meanings
    <3>4. IsEvent(sent[k])
      <4>1. sent \in Seq(Range(sent))
        BY <2>3 DEF Events
      <4>2. k \in 1..Len(sent)
        BY <4>1
      <4> QED BY <2>3, <4>2 DEF Events
    <3>5. PICK e : e = sent[k]
      OBVIOUS
    <3>6. IsEvent(e) /\ c \in DOMAIN Meaning(e).signals
      BY <2>7, <3>3, <3>4, <3>5
    <3>7. /\ c \in Nat
          /\ \A b \in DOMAIN Meaning(e).signals[c] :
               b \in BinNo /\ Meaning(e).signals[c][b] \in Amplitude
      BY <2>2, <3>6, MeaningType
    <3>8. \A b \in DOMAIN parsed[i].signals[c] :
            b \in BinNo /\ parsed[i].signals[c][b] \in Amplitude
      BY <3>3, <3>5, <3>7
    <3> QED BY <3>7, <3>8, Zenon DEF BinNo, Amplitude
  <2> QED BY <2>2, <2>4, <2>5, <2>6, <2>7 DEF TypeOK
<1> QED BY <1>1, StreamInvHolds, PTL
================================================================================
