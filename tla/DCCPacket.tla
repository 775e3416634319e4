------------------------------- MODULE DCCPacket -------------------------------
(***************************************************************************)
(* The words of DCC electronics: packets that start with their size in     *)
(* bytes, and the end of event that startDAQ puts behind them.  Words are  *)
(* in the order of the host.                                               *)
(***************************************************************************)
EXTENDS Integers, Sequences, FiniteSetsExt

EndOfEvent == {65535}
AdcSample == 0..4095
TimeBin == 4096..4607

\* A packet of size zero is stepped over word by word.
Skip(w) == IF w \in EndOfEvent THEN 4 ELSE IF w \div 2 = 0 THEN 1 ELSE w \div 2

INSTANCE EventWords

\* The channels of a chip without those of the fixed pattern noise.
Rank(channel) == CASE channel \in 3..14 -> channel - 3
                   [] channel \in 16..27 -> channel - 4
                   [] channel \in 29..52 -> channel - 5
                   [] channel \in 54..65 -> channel - 6
                   [] channel > 66 -> channel - 7
                   [] OTHER -> -10

\* Arguments that name no chip of the six cards: 16 bit subtractions.
Arg12ToFecAsicChannel(arg1, arg2) ==
  LET n == 5 * (arg1 % 6) + arg2
      valid == n \div 4 <= 5
      fec == IF valid THEN n \div 4 ELSE (arg2 - 4) % 65536
      asic == IF valid THEN n % 4 ELSE 4
      rank == Rank(IF valid THEN arg1 \div 6 ELSE IF arg1 < 4 THEN 0 ELSE (arg1 - 4) \div 6)
  IN IF rank < 0 THEN rank ELSE 288 * fec + 72 * asic + rank

\* The fields of the packet at index i.
args(event, i) == At(event, i + 3)
ecnt(event, i) == At(event, i + 6)
scnt(event, i) == At(event, i + 7)
samp(event, i, k) == At(event, i + 8 + k)

\* No samples, or only what is found in the last bin.
Empty(event, i) ==
  \/ scnt(event, i) <= 8 /\ \A k \in 0..1 : samp(event, i, k) = 0
  \/ scnt(event, i) <= 12 /\ \E k \in 0..1 : samp(event, i, k) = 4607

physChannel(event, i) ==
  Arg12ToFecAsicChannel(args(event, i) % 512, (args(event, i) \div 512) % 16)

\* The loop over the samples ends at the last bin.
Pulse(words) ==
  LET bin == timeBin(words)
  IN sData(words, {k \in DOMAIN words : words[k] \in AdcSample /\ \A j \in 1..k : bin[j] <= 511})

\* Indices of the packets of an event.  At a packet of size zero the loop of
\* ParseEventFromWords would stay; under PacketStream's InputAssumption none is sent.
Packets(event) ==
  LET from[i \in Nat] == IF i >= Len(event) \/ At(event, i) \in EndOfEvent THEN {}
                         ELSE {i} \cup from[i + Skip(At(event, i))]
  IN from[0]

Counted(event) == {i \in Packets(event) : ~Empty(event, i)}

\* Mutant of Stored: channels of fixed pattern noise are stored.
StoredAll(event) == Counted(event)

Stored(event) == {i \in Counted(event) : physChannel(event, i) >= 0}

\* AddSignal keeps the first pulse of a channel.
ParseEventFromWords(event, tS, ev_count) ==
  LET channels == {physChannel(event, i) : i \in Stored(event)}
      first(c) == Min({i \in Stored(event) : physChannel(event, i) = c})
  IN [tS |-> SubSeq(event, Len(event) - 2, Len(event)),
      ev_count |-> IF Counted(event) = {} THEN ev_count
                   ELSE <<0, ecnt(event, Max(Counted(event))) % 16384>>,
      signals |-> [c \in channels |->
                     Pulse(SubSeq(event, first(c) + 9, first(c) + 8 + scnt(event, first(c))))]]
===============================================================================
