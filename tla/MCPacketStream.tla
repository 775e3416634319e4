---------------------------- MODULE MCPacketStream ----------------------------
(***************************************************************************)
(* A small instance of PacketStream for TLC.                               *)
(***************************************************************************)
EXTENDS PacketStream

\* Words that look like an end of event of each of the electronics.
MCTimes == {<<65535, 704, 224>>}

Channel(card, chip, chan) == [card |-> card, chip |-> chip, chan |-> chan]

\* The first and the last of all channels, and neighbours of channels and chips
\* that a wrong number would mix up; for the DCC one of fixed pattern noise.
MCFirst(el) == Channel(0, 0, IF el = "DCC" THEN 3 ELSE 0)
MCChannels(el) == {MCFirst(el)} \cup
  CASE el = "ARC" -> {Channel(0, 3, 71), Channel(0, 4, 0), Channel(7, 15, 71)}
    [] el = "FEMINOS" -> {Channel(0, 3, 71), Channel(1, 0, 0), Channel(31, 3, 71)}
    [] OTHER -> {Channel(0, 1, 15), Channel(3, 2, 16), Channel(5, 3, 78)}

\* No samples, bins from the first on, runs up to the last bin, and pulses that
\* the DCC leaves out: one of zeros, and one with a gap up to the last bin.
FirstBins == <<[at |-> 0, samples |-> <<5, 4095>>]>>
TwoRuns == <<[at |-> 3, samples |-> <<0>>], [at |-> 510, samples |-> <<7, 8>>]>>
Zeros == <<[at |-> 0, samples |-> <<0, 0, 3>>]>>
LastBin == <<[at |-> 0, samples |-> <<6>>], [at |-> 511, samples |-> <<9>>]>>
MCPulses == {<<>>, FirstBins, TwoRuns, Zeros, LastBin}

Hit(c, pulse) == [card |-> c.card, chip |-> c.chip, chan |-> c.chan, pulse |-> pulse]

\* Event 1: no hit, any pulse in the first channel, some in each channel, or
\* hits in the first channel and another.  Event 2 shows what event 1 left
\* behind: no hit or one.
MCHitSeqs(el, n) ==
  LET C == MCChannels(el)
      c1 == MCFirst(el)
  IN {<<>>} \cup
     IF n = 1 THEN {<<Hit(c1, p)>> : p \in MCPulses}
                     \cup {<<Hit(c, p)>> : c \in C, p \in {TwoRuns, LastBin}}
                     \cup {<<Hit(c1, TwoRuns), Hit(c, FirstBins)>> : c \in C \ {c1}}
     ELSE {<<Hit(c1, FirstBins)>>}
===============================================================================
