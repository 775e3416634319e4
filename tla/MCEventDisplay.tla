---------------------------- MODULE MCEventDisplay ----------------------------
(***************************************************************************)
(* Small instances of EventDisplay for TLC.                                *)
(***************************************************************************)
EXTENDS EventDisplay

Strip(s, a, p) == [sys |-> s, axis |-> a, pos |-> p]

\* Channels 1 and 2 cross in system 1; channel 3 moves to a system without Y.
OneSystem == <<Strip(1, "X", 0), Strip(1, "Y", 0), Strip(1, "X", 1)>>
TwoSystems == <<Strip(1, "Y", 1), Strip(1, "X", 1), Strip(2, "X", 0)>>

MCDecodings == {NoDecoding, OneSystem, TwoSystems}
OneDecoding == {OneSystem}

MCFired == <<{1, 2}, {3}, {2, 3}, {1, 2, 3}>>
===============================================================================
