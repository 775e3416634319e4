----------------------------- MODULE FEMINOSPacket -----------------------------
(***************************************************************************)
(* The words of FEMINOS electronics, by their prefix codes.                *)
(***************************************************************************)
EXTENDS Integers

StartOfDFrame == 2048..2559
StartOfMFrame == 1536..2047
HistoMeanDev == {12}
StartOfEvent == 240..255
HitIndex == 49152..65535
AdcSample == 12288..16383
TimeBin == 3584..4095
EndOfEvent == 224..239

Skip(w) == CASE w \in StartOfDFrame \cup StartOfMFrame \cup EndOfEvent -> 2
             [] w \in HistoMeanDev -> 5
             [] w \in StartOfEvent -> 6
             [] OTHER -> 1

INSTANCE FramedEvents
===============================================================================
