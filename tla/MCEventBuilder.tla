---------------------------- MODULE MCEventBuilder ----------------------------
(***************************************************************************)
(* Small instances of EventBuilder for TLC.                                *)
(***************************************************************************)
EXTENDS EventBuilder

\* Event 1 has a signal in both FEMs, event 2 in none.
MCHits == {<<1, 1>>, <<2, 1>>}

\* Both FEMs have a signal in every event.
AllHits == FEM \X (1..MaxEvents)

\* Only a first run is long: one that is followed by another, and the other, have
\* one event, and one loss between them.
OneLongRun == runs = 2 =>
  lost <= 1 /\ \A f \in FEM : next[f].ev < 2 \/ (next[f].ev = 2 /\ next[f].part = 1)
===============================================================================
