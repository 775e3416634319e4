------------------------------ MODULE EventWords ------------------------------
(***************************************************************************)
(* What the packet formats share: the extraction of an event from a buffer *)
(* of words and the decoding of a pulse.  Indices count from zero, as in   *)
(* the code.                                                               *)
(***************************************************************************)
EXTENDS Integers, Sequences, FiniteSetsExt

CONSTANTS
  Skip(_),     \* words from a given one to the next that is looked at
  EndOfEvent,  \* words that start the end of an event
  AdcSample,   \* words that hold a sample
  TimeBin      \* words that hold the time bin of the next sample

At(words, i) == words[i + 1]

\* The index where the scan from idx ends: that of an end of event, or one
\* behind the buffer.
Scan(buffer, idx) ==
  LET from[i \in Nat] == IF i >= Len(buffer) \/ At(buffer, i) \in EndOfEvent THEN i
                         ELSE from[i + Skip(At(buffer, i))]
  IN from[idx]

\* Frames and packets hold whole records, so that an end of event is complete;
\* of one that is not the code takes words from behind the buffer.
TryExtractNextEvent(buffer, idx) ==
  LET i == Scan(buffer, idx)
      size == Min({i + Skip(At(buffer, i)), Len(buffer)})
  IN IF i >= Len(buffer) THEN [found |-> FALSE, idx |-> i, buffer |-> buffer]
     ELSE [found |-> TRUE, idx |-> 0, event |-> SubSeq(buffer, 1, size),
           buffer |-> SubSeq(buffer, size + 1, Len(buffer))]

\* timeBin before the k-th word of a pulse.
timeBin(words) ==
  LET bin[k \in 1..Len(words) + 1] ==
        IF k = 1 THEN 0
        ELSE IF words[k - 1] \in TimeBin THEN words[k - 1] % 512
        ELSE IF words[k - 1] \in AdcSample THEN bin[k - 1] + 1
        ELSE bin[k - 1]
  IN bin

\* The part of sData that the samples at the given positions fill.
sData(words, positions) ==
  LET bin == timeBin(words)
      ofBin(b) == {k \in positions : bin[k] = b}
  IN [b \in {bin[k] : k \in positions} |-> words[Max(ofBin(b))] % 4096]
===============================================================================
