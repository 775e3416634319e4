------------------------------ MODULE EventMerge ------------------------------
(***************************************************************************)
(* What the event builder promises: the k-th closed event of every FEM is  *)
(* merged with the k-th closed event of every other FEM, in order, as soon *)
(* as all of them are there, and what is stored is the merged events that  *)
(* have a signal.  Nothing is merged twice, skipped, or mixed between two  *)
(* merged events.                                                          *)
(***************************************************************************)
EXTENDS Naturals, Sequences

CONSTANTS FEM,      \* the front ends
          Signal,   \* what an event of a FEM may carry
          None      \* the signal of an event without hits

VARIABLES closed,   \* closed[f]: signals of the events of f closed so far
          rows,     \* number of events merged
          out       \* merged events that were stored

vars == <<closed, rows, out>>

Init == closed = [f \in FEM |-> <<>>] /\ rows = 0 /\ out = <<>>

\* The k-th event of every FEM.
Row(k) == [f \in FEM |-> closed[f][k]]

\* FEM f closes an event with signal s.
Close(f) == /\ \E s \in Signal \cup {None} :
                  closed' = [closed EXCEPT ![f] = Append(@, s)]
            /\ UNCHANGED <<rows, out>>

Merge == /\ \A f \in FEM : Len(closed[f]) > rows
         /\ rows' = rows + 1
         /\ out' = IF \E f \in FEM : Row(rows + 1)[f] # None
                     THEN Append(out, Row(rows + 1)) ELSE out
         /\ UNCHANGED closed

\* A new run starts.
Restart == closed' = [f \in FEM |-> <<>>] /\ rows' = 0 /\ out' = <<>>

Next == Merge \/ Restart \/ \E f \in FEM : Close(f)

Spec == Init /\ [][Next]_vars /\ WF_vars(Merge)
===============================================================================
