----------------------------- MODULE FramedEvents -----------------------------
(***************************************************************************)
(* The events of ARC and FEMINOS electronics, which come in frames.        *)
(***************************************************************************)
EXTENDS EventWords

CONSTANTS StartOfEvent, HitIndex   \* words with these prefixes

\* The index of a header of samples: 7 bits of channel, 2 of chip, 5 of card.
physChannel(w) == (w % 128) + 72 * ((w \div 128) % 4) + 288 * ((w \div 512) % 32)

\* The words of a pulse from index i on, up to the first of another kind.
PulseWords(event, i) ==
  LET others == {k \in i..Len(event) - 1 : At(event, k) \notin AdcSample /\ At(event, k) \notin TimeBin}
  IN SubSeq(event, i + 1, Min(others \cup {Len(event)}))

\* Samples past bin 511 are dropped.
Pulse(words) ==
  LET bin == timeBin(words)
  IN sData(words, {k \in DOMAIN words : words[k] \in AdcSample /\ bin[k] < 512})

\* The indices that the loop looks at before it comes to the end of the event.
Headers(event) ==
  LET from[i \in Nat] ==
        IF i >= Len(event) \/ At(event, i) \in EndOfEvent THEN {}
        ELSE LET next == i + Skip(At(event, i))
             IN {i} \cup from[IF At(event, i) \in HitIndex
                                THEN next + Len(PulseWords(event, next)) ELSE next]
  IN from[0]

\* The last start of event gives the time and the count, most significant word
\* first; AddSignal keeps the first pulse of a channel.
ParseEventFromWords(event, tS, ev_count) ==
  LET starts == {i \in Headers(event) : At(event, i) \in StartOfEvent}
      hits == {i \in Headers(event) : At(event, i) \in HitIndex}
      start == Max(starts)
      data(i) == i + Skip(At(event, i))
      channel(i) == physChannel(At(event, data(i) - 1))
      first(c) == Min({i \in hits : channel(i) = c})
  IN [tS |-> IF starts = {} THEN tS ELSE [k \in 1..3 |-> At(event, start + 4 - k)],
      ev_count |-> IF starts = {} THEN ev_count
                   ELSE <<At(event, start + 5), At(event, start + 4)>>,
      signals |-> [c \in {channel(i) : i \in hits} |->
                     Pulse(PulseWords(event, data(first(c))))]]
===============================================================================
