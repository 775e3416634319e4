----------------------------- MODULE PacketStream -----------------------------
(***************************************************************************)
(* The words of the events of one FEM on their way from the front end to   *)
(* the events that the builder stores, for each of the three electronics:  *)
(* how an event becomes records, records become frames, frames become the  *)
(* buffer, and the buffer becomes events.  Who waits for whom is in        *)
(* EventBuilder and DccReadout; this module is about the words.            *)
(***************************************************************************)
EXTENDS Integers, Sequences, SequencesExt

CONSTANTS
  Times,          \* times of events: three words, most significant first
  HitSeqs(_, _),  \* what the n-th event of an electronics may consist of:
                  \* sequences of records of card, chip, chan and pulse, where a
                  \* pulse is a sequence of runs of samples from a bin on
  MaxEvents       \* bound: events

Word == 0..65535
FrameWords == 4096  \* of buf_rcv
Electronics == {"ARC", "FEMINOS", "DCC"}

\* A pulse: runs of samples from a bin on, one behind the other.
Run == [at : 0..511, samples : Seq(0..4095) \ {<<>>}]
IsPulse(pulse) ==
  /\ pulse \in Seq(Run)
  /\ \A i \in DOMAIN pulse :
       LET end == pulse[i].at + Len(pulse[i].samples)
       IN end <= 512 /\ \A j \in i + 1..Len(pulse) : end <= pulse[j].at

\* Card, chip and channel are those that the header of a record has room for.
IsHit(el, h) ==
  /\ h.card \in CASE el = "ARC" -> 0..7 [] el = "FEMINOS" -> 0..31 [] OTHER -> 0..5
  /\ h.chip \in IF el = "ARC" THEN 0..15 ELSE 0..3
  /\ h.chan \in IF el = "DCC" THEN 3..78 ELSE 0..71
  /\ IsPulse(h.pulse)

\* An event has a channel once.  The DCC counts events in 14 bits.
ASSUME InputAssumption ==
  /\ MaxEvents \in 0..16383 /\ Times \subseteq Word \X Word \X Word
  /\ \A el \in Electronics, n \in 1..MaxEvents : \A hits \in HitSeqs(el, n) :
       /\ hits \in Seq(Range(hits)) /\ \A i \in DOMAIN hits : IsHit(el, hits[i])
       /\ \A i, j \in DOMAIN hits : i # j =>
            <<hits[i].card, hits[i].chip, hits[i].chan>>
              # <<hits[j].card, hits[j].chip, hits[j].chan>>

VARIABLES
  electronics,
  sent,         \* events of the front end so far
  todo,         \* records of the last event that are in no frame yet
  frame,        \* words of the frame that is being filled
  buffer, bufferIndex,   \* FEM.buffer, tmpBuffer included, and FEM.bufferIndex
  tS, ev_count, \* of the event parsed last, most significant word first
  parsed        \* events stored so far

vars == <<electronics, sent, todo, frame, buffer, bufferIndex, tS, ev_count, parsed>>

ARC == INSTANCE ARCPacket
FEMINOS == INSTANCE FEMINOSPacket
DCC == INSTANCE DCCPacket

(***************************************************************************)
(* The front end.                                                          *)
(***************************************************************************)
\* The words of a pulse: a run that starts at bin 0 needs no time bin.
PulseRecord(pulse, bin, sample) ==
  FlattenSeq([i \in DOMAIN pulse |->
    (IF pulse[i].at = 0 THEN <<>> ELSE <<bin + pulse[i].at>>)
      \o [k \in DOMAIN pulse[i].samples |-> sample + pulse[i].samples[k]]])

\* Time and count come least significant word first.
FramedHead(prefix, e) == <<prefix>> \o Reverse(e.time) \o Reverse(e.count)

ARCRecords(e) ==
  <<FramedHead(768, e)>>
    \o [i \in DOMAIN e.hits |->
          LET h == e.hits[i] IN
          <<17, h.chan + 128 * h.chip + 2048 * h.card>> \o PulseRecord(h.pulse, 3584, 12288)]
    \o <<<<4608 + (Len(e.hits) % 128)>>, <<704, 0, 704, 0>>>>

FEMINOSRecords(e) ==
  <<FramedHead(240, e)>>
    \o [i \in DOMAIN e.hits |->
          LET h == e.hits[i] IN
          <<49152 + h.chan + 128 * h.chip + 512 * h.card>>
            \o PulseRecord(h.pulse, 3584, 12288)]
    \o <<<<32768 + (Len(e.hits) % 128)>>, <<224, 224>>>>

\* A packet of a pulse: header, samples, and a trailer of two words.  Without
\* samples two words of zeros are sent.
DCCPacketOf(e, h) ==
  LET words == IF h.pulse = <<>> THEN <<0, 0>> ELSE PulseRecord(h.pulse, 4096, 0)
      n == 4 * h.card + h.chip
  IN <<2 * (Len(words) + 10), 0, 0, 6 * h.chan + (n \div 5) + 512 * (n % 5), 0, 0,
       16384 + e.count[2], Len(words)>> \o words \o <<0, 65535>>

\* startDAQ puts the end of event behind the packets.
DCCRecords(e) ==
  [i \in DOMAIN e.hits |-> DCCPacketOf(e, e.hits[i])] \o <<<<65535>> \o e.time>>

Records(e) == CASE electronics = "ARC" -> ARCRecords(e)
                [] electronics = "FEMINOS" -> FEMINOSRecords(e)
                [] OTHER -> DCCRecords(e)

\* What the receiver puts into tmpBuffer of a frame.  The packets of the DCC
\* are taken one by one; FEMINOS frames lose their last word, the end of frame.
Framed(words) ==
  CASE electronics = "ARC" -> <<2048, 2 * (Len(words) + 3)>> \o words \o <<ARC!EndOfFrame>>
    [] electronics = "FEMINOS" -> <<2048, 2 * (Len(words) + 3)>> \o words
    [] OTHER -> words

(***************************************************************************)
(* Steps.                                                                  *)
(***************************************************************************)
Init == /\ electronics \in Electronics
        /\ sent = <<>> /\ todo = <<>> /\ frame = <<>>
        /\ buffer = <<>> /\ bufferIndex = 0
        /\ tS = <<0, 0, 0>> /\ ev_count = <<0, 0>> /\ parsed = <<>>

\* The count is the number of the event, in its low word.  The DCC has no
\* other.
Trigger ==
  /\ todo = <<>> /\ Len(sent) < MaxEvents
  /\ \E time \in Times, hits \in HitSeqs(electronics, Len(sent) + 1) :
       LET high == IF electronics = "DCC" THEN 0 ELSE time[2]
           e == [time |-> time, count |-> <<high, Len(sent) + 1>>, hits |-> hits]
       IN sent' = Append(sent, e) /\ todo' = Records(e)
  /\ UNCHANGED <<electronics, frame, buffer, bufferIndex, tS, ev_count, parsed>>

\* Frames hold whole records; buf_rcv has room for four words more.
Fill == /\ todo # <<>> /\ Len(frame) + Len(Head(todo)) + 4 <= FrameWords
        /\ frame' = frame \o Head(todo) /\ todo' = Tail(todo)
        /\ UNCHANGED <<electronics, sent, buffer, bufferIndex, tS, ev_count, parsed>>

SendFrame == /\ frame # <<>>
             /\ buffer' = buffer \o Framed(frame) /\ frame' = <<>>
             /\ UNCHANGED <<electronics, sent, todo, bufferIndex, tS, ev_count, parsed>>

TryExtractNextEvent ==
  CASE electronics = "ARC" -> ARC!TryExtractNextEvent(buffer, bufferIndex)
    [] electronics = "FEMINOS" -> FEMINOS!TryExtractNextEvent(buffer, bufferIndex)
    [] OTHER -> DCC!TryExtractNextEvent(buffer, bufferIndex)

ParseEventFromWords(event) ==
  CASE electronics = "ARC" -> ARC!ParseEventFromWords(event, tS, ev_count)
    [] electronics = "FEMINOS" -> FEMINOS!ParseEventFromWords(event, tS, ev_count)
    [] OTHER -> DCC!ParseEventFromWords(event, tS, ev_count)

\* A pass of the builder.  Events without signals are not stored.
Build == /\ buffer # <<>>
         /\ LET r == TryExtractNextEvent IN
            /\ buffer' = r.buffer /\ bufferIndex' = r.idx
            /\ \/ ~r.found /\ UNCHANGED <<tS, ev_count, parsed>>
               \/ /\ r.found
                  /\ LET p == ParseEventFromWords(r.event) IN
                     /\ tS' = p.tS /\ ev_count' = p.ev_count
                     /\ parsed' = IF DOMAIN p.signals = {} THEN parsed ELSE Append(parsed, p)
         /\ UNCHANGED <<electronics, sent, todo, frame>>

Next == Trigger \/ Fill \/ SendFrame \/ Build

Spec == Init /\ [][Next]_vars

(***************************************************************************)
(* Properties.                                                             *)
(***************************************************************************)
\* Types: what is parsed names channels that exist and 12 bit samples in the
\* 512 bins of a pulse (AddSignal, ParseEventFromWords).
TypeOK == /\ electronics \in Electronics /\ Len(sent) \in 0..MaxEvents
          /\ todo \in Seq(Seq(Word)) /\ frame \in Seq(Word)
          /\ buffer \in Seq(Word) /\ bufferIndex \in 0..Len(buffer)
          /\ tS \in Seq(Word) /\ ev_count \in Seq(Word)
          /\ \A i \in DOMAIN parsed : \A c \in DOMAIN parsed[i].signals :
               /\ c \in Nat
               /\ \A b \in DOMAIN parsed[i].signals[c] :
                    b \in 0..511 /\ parsed[i].signals[c][b] \in 0..4095

\* The channel numbers of an event, in order: those of a chip of ARC and
\* FEMINOS, those of the DCC that are not for the fixed pattern noise.
FixedPattern == {15, 28, 53, 66}
Number(h) ==
  CASE electronics = "ARC" -> h.chan + 72 * (h.chip + 16 * h.card)
    [] electronics = "FEMINOS" -> h.chan + 72 * (h.chip + 4 * h.card)
    [] OTHER -> Cardinality(3..h.chan - 1 \ FixedPattern) + 72 * (h.chip + 4 * h.card)

\* Short pulses of the DCC that start with zeros or have the last bin among
\* their first two words are not taken for a signal.
Blank(pulse) ==
  LET words == PulseRecord(pulse, 4096, 0)
      first == Range(SubSeq(words \o <<0, 0>>, 1, 2))
  IN (first = {0} /\ Len(words) <= 8) \/ (4607 \in first /\ Len(words) <= 12)

\* The DCC leaves out channels without a signal of their own.
Real(h) == electronics = "DCC" => h.chan \notin FixedPattern /\ ~Blank(h.pulse)

\* What a pulse says of each bin.
Values(pulse) ==
  LET bins(i) == pulse[i].at..pulse[i].at + Len(pulse[i].samples) - 1
      run(b) == CHOOSE i \in DOMAIN pulse : b \in bins(i)
  IN [b \in UNION {bins(i) : i \in DOMAIN pulse} |->
        pulse[run(b)].samples[b - pulse[run(b)].at + 1]]

Meaning(e) ==
  LET real == {h \in Range(e.hits) : Real(h)}
      hit(c) == CHOOSE h \in real : Number(h) = c
  IN [tS |-> e.time, ev_count |-> e.count,
      signals |-> [c \in {Number(h) : h \in real} |-> Values(hit(c).pulse)]]

\* Events without signals are not stored.
Kept(m) == IF DOMAIN m.signals = {} THEN <<>> ELSE <<m>>

Expected == FlattenSeq([i \in DOMAIN sent |-> Kept(Meaning(sent[i]))])

\* However events are cut into frames and frames batched between the passes
\* of the builder, and whatever the words of times, counts and sizes look
\* like, the events stored are those that were sent, word by word, in order;
\* none is missing when all words were sent and looked at.
EventsExact ==
  /\ IsPrefix(parsed, Expected)
  /\ (todo = <<>> /\ frame = <<>> /\ bufferIndex = Len(buffer)) => parsed = Expected
===============================================================================
