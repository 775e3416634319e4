----------------------------- MODULE MCRunControl -----------------------------
(***************************************************************************)
(* Small instances of RunControl for TLC.                                  *)
(***************************************************************************)
EXTENDS RunControl

\* A script of two runs on any choice of FEMs, with a limit of events.
TwoRuns == [interactive |-> FALSE, nEvents |-> 3, maxTime |-> 0,
            script |-> <<"fem", "startDAQ", "stopDAQ", "startDAQ", "stopDAQ">>]

\* A user, with limits of events and of time.
Limited == [interactive |-> TRUE, script |-> <<>>, nEvents |-> 2, maxTime |-> 2]

\* A user, without limits.
Unlimited == [interactive |-> TRUE, script |-> <<>>, nEvents |-> 0, maxTime |-> 0]

ScriptOrUser == {TwoRuns, Limited, Unlimited}
User == {Unlimited}
===============================================================================
