------------------------------- MODULE ARCPacket -------------------------------
(***************************************************************************)
(* The words of ARC electronics, by their prefix codes.                    *)
(***************************************************************************)
EXTENDS Integers

StartOfDFrame == 2048..2559
StartOfMFrame == 1536..2047
HistoMeanDev == {18}
StartOfEvent == 768..1023
HitIndex == {17}
AdcSample == 12288..16383
TimeBin == 3584..4095
EndOfEvent == 704..767
EndOfFrame == 15

\* Mutant of Skip: the size of a frame is looked at.
SkipLooksAtSize(w) == CASE w \in HitIndex -> 2
                        [] w \in StartOfEvent \cup HistoMeanDev -> 6
                        [] w \in EndOfEvent -> 4
                        [] OTHER -> 1

Skip(w) == CASE w \in StartOfDFrame \cup StartOfMFrame \cup HitIndex -> 2
             [] w \in StartOfEvent \cup HistoMeanDev -> 6
             [] w \in EndOfEvent -> 4
             [] OTHER -> 1

INSTANCE FramedEvents
===============================================================================
