------------------------------ MODULE CreditFlow ------------------------------
(***************************************************************************)
(* Flow control of the data frames of one ARC or FEMINOS front end (FEM).  *)
(* SendDAQCmdThread asks the FEM for Window frames and then, each time the *)
(* receiver thread has counted Thr data frames in FEM.daq_credit, for Thr  *)
(* more.  The FEM, which is not part of the program, sends one frame per   *)
(* unit of `allowance'; UDP may lose or duplicate what travels.            *)
(*                                                                         *)
(* `stopRun' stands for abrt \/ stopRun: the loop only ever reads their    *)
(* disjunction.  The counter daq_credit is a uint32_t in the code and an   *)
(* integer here; NoOverrun bounds it on both sides.                        *)
(***************************************************************************)
EXTENDS Integers

CONSTANTS
  Window,    \* reqFrames, frames asked for by the first request (272 * 20)
  Thr,       \* frameThr, frames asked for by each later request (272)
  SeqSize,    \* sequence numbers are counted modulo SeqSize (256, uint8_t)
  MaxRuns,   \* bound: number of runs started
  MaxLost,   \* bound: frames and requested frames the network loses in a run
  MaxDup     \* bound: frames the network duplicates in a run

ASSUME WindowAssumption == /\ Window \in Nat /\ Thr \in Nat \ {0}
                           /\ Thr <= Window
ASSUME SeqAssumption == SeqSize \in Nat \ {0}
ASSUME BoundAssumption == MaxRuns \in Nat /\ MaxLost \in Nat /\ MaxDup \in Nat

VARIABLES
  pc,          \* where SendDAQCmdThread is
  daq_credit,  \* FEM.daq_credit
  seq,         \* sequence number of the next request
  stopRun,     \* abrt \/ stopRun
  allowance,   \* external: frames the FEM may still send
  inflight,    \* data frames in the network and in the socket's queue
  lost,        \* history: frames lost since the run began
  dup,         \* history: frames duplicated since the run began
  stale,       \* history: frames of earlier runs still owed when it began
  runs         \* number of runs started

sender == <<pc, seq>>
network == <<allowance, inflight>>
history == <<dup, stale, runs>>
flowVars == <<pc, daq_credit, seq, stopRun, allowance, inflight, lost, dup, stale, runs>>

\* The steps of the thread at which a run is being taken.
Running == {"first", "loop", "poll", "charge", "stop"}

FlowInit == /\ pc = "idle" /\ daq_credit = 0 /\ seq = 0 /\ stopRun = FALSE
            /\ allowance = 0 /\ inflight = 0
            /\ lost = 0 /\ dup = 0 /\ stale = 0 /\ runs = 0

(***************************************************************************)
(* External: a datagram that asks for n more frames reaches the FEM or is  *)
(* lost, and with it the n frames.                                         *)
(***************************************************************************)
Request(n) == \/ allowance' = allowance + n /\ UNCHANGED lost
              \/ lost + n <= MaxLost /\ lost' = lost + n /\ UNCHANGED allowance

(***************************************************************************)
(* SendDAQCmdThread.                                                       *)
(***************************************************************************)
\* Mutant of Start: the frames counted between the runs are kept.
StartKeepsCredit == /\ pc = "idle" /\ runs < MaxRuns
                    /\ pc' = "first" /\ runs' = runs + 1
                    /\ stopRun' = FALSE /\ seq' = 0
                    /\ stale' = allowance + inflight /\ lost' = 0 /\ dup' = 0
                    /\ UNCHANGED <<network, daq_credit>>

\* startDAQ resets stopRun and starts the thread, which resets the counters.
Start == /\ pc = "idle" /\ runs < MaxRuns
         /\ pc' = "first" /\ runs' = runs + 1
         /\ stopRun' = FALSE /\ daq_credit' = 0 /\ seq' = 0
         /\ stale' = allowance + inflight /\ lost' = 0 /\ dup' = 0
         /\ UNCHANGED network

SendFirst == /\ pc = "first" /\ pc' = "loop"
             /\ Request(Window)
             /\ UNCHANGED <<daq_credit, seq, stopRun, inflight, history>>

\* while (!abrt && !stopRun)
TestStop == /\ pc = "loop"
            /\ pc' = IF stopRun THEN "stop" ELSE "poll"
            /\ UNCHANGED <<daq_credit, seq, stopRun, network, lost, history>>

\* if (FEM.daq_credit >= frameThr), and the request it guards
Enough == daq_credit >= Thr

PollCredit == /\ pc = "poll"
              /\ \/ Enough /\ pc' = "charge" /\ Request(Thr)
                 \/ ~Enough /\ pc' = "loop" /\ UNCHANGED <<allowance, lost>>
              /\ UNCHANGED <<daq_credit, seq, stopRun, inflight, history>>

\* Mutant of Charge: the counter is reset instead of decremented.
ChargeResets == /\ pc = "charge" /\ pc' = "loop"
                /\ daq_credit' = 0 /\ seq' = (seq + 1) % SeqSize
                /\ UNCHANGED <<stopRun, network, lost, history>>

\* The receiver may have counted more frames since the test.
Charge == /\ pc = "charge" /\ pc' = "loop"
          /\ daq_credit' = daq_credit - Thr
          /\ seq' = (seq + 1) % SeqSize
          /\ UNCHANGED <<stopRun, network, lost, history>>

\* "daq 0x000000 F" takes back what the FEM has not sent yet, if it arrives.
SendStop == /\ pc = "stop" /\ pc' = "idle"
            /\ allowance' \in {0, allowance}
            /\ UNCHANGED <<daq_credit, seq, stopRun, inflight, lost, history>>

\* sendto returns -1: the exception ends the thread and then the program.
SendFails == /\ pc \in {"first", "stop"} \/ (pc = "poll" /\ Enough)
             /\ pc' = "failed"
             /\ UNCHANGED <<daq_credit, seq, stopRun, network, lost, history>>

Sender == Start \/ SendFirst \/ TestStop \/ PollCredit \/ Charge \/ SendStop \/ SendFails

(***************************************************************************)
(* The rest of the program, the FEM and the network.                       *)
(***************************************************************************)
\* UpdateThread reaches a limit of the run, or SIGINT arrives.
StopRun == /\ pc \in Running /\ stopRun' = TRUE
           /\ UNCHANGED <<sender, daq_credit, network, lost, history>>

\* FEMReceiverThread counts a data frame; it never knows of runs.
RecvDataFrame == /\ inflight > 0 /\ inflight' = inflight - 1
                 /\ daq_credit' = daq_credit + 1
                 /\ UNCHANGED <<sender, stopRun, allowance, lost, history>>

\* External: the FEM sends a frame.
Emit == /\ allowance > 0 /\ allowance' = allowance - 1
        /\ inflight' = inflight + 1
        /\ UNCHANGED <<sender, daq_credit, stopRun, lost, history>>

LoseFrame == /\ inflight > 0 /\ lost < MaxLost
             /\ inflight' = inflight - 1 /\ lost' = lost + 1
             /\ UNCHANGED <<sender, daq_credit, stopRun, allowance, history>>

DuplicateFrame == /\ inflight > 0 /\ dup < MaxDup
                  /\ inflight' = inflight + 1 /\ dup' = dup + 1
                  /\ UNCHANGED <<sender, daq_credit, stopRun, allowance, lost, stale, runs>>

FlowNext == \/ Sender
            \/ StopRun \/ RecvDataFrame
            \/ Emit \/ LoseFrame \/ DuplicateFrame

FlowSpec == FlowInit /\ [][FlowNext]_flowVars

\* The steps of a thread that is running; a run need not be started.
Thread == SendFirst \/ TestStop \/ PollCredit \/ Charge \/ SendStop

(***************************************************************************)
(* Both threads are scheduled.  The FEM is assumed to keep triggering, so  *)
(* that it uses what it is allowed to send.                                *)
(***************************************************************************)
FairSpec == /\ FlowSpec
            /\ WF_flowVars(Thread) /\ WF_flowVars(RecvDataFrame) /\ WF_flowVars(Emit)

(***************************************************************************)
(* Properties.                                                             *)
(***************************************************************************)
FlowTypeOK == /\ pc \in Running \cup {"idle", "failed"}
              /\ daq_credit \in Nat /\ seq \in 0..SeqSize-1 /\ stopRun \in BOOLEAN
              /\ allowance \in Nat /\ inflight \in Nat
              /\ lost \in Nat /\ dup \in Nat /\ stale \in Nat /\ runs \in Nat

\* Frames asked for and not yet deducted from daq_credit.
Granted == (IF pc = "first" THEN 0 ELSE Window) + (IF pc = "charge" THEN Thr ELSE 0)

\* No interleaving of the receiver's daq_credit++ with the sender's test and
\* daq_credit -= frameThr creates or forgets a frame: what the FEM may send,
\* what travels, what was counted and what was lost always add up to what was
\* asked for, plus what an earlier run left behind and what was duplicated.
Conservation == pc \in Running =>
  allowance + inflight + daq_credit + lost = Granted + stale + dup

\* The FEM never owes more than the window of frames the receiver was sized
\* for, over what an earlier run left and the network duplicated, and
\* daq_credit never comes near the limit of uint32_t.
NoOverrun == pc \in Running =>
  /\ allowance + inflight <= Window + stale + dup
  /\ daq_credit <= Window + Thr + stale + dup

\* When a run that was not stopped is stuck (nothing to send, nothing on the
\* way, too few frames counted to ask again: the loop has no retry) more than
\* Window - Thr frames were lost, and as many again as an earlier run left
\* or the network duplicated.  Fewer losses never stall the run.
StallOnlyByLoss ==
  (pc \in {"loop", "poll"} /\ allowance = 0 /\ inflight = 0 /\ ~Enough)
    => lost > Window - Thr + stale + dup

\* As long as no more than Window - Thr frames are lost, the thread keeps
\* asking for frames until the run is stopped or a send fails.
KeepsRequesting ==
  pc = "loop" ~> (pc = "charge" \/ stopRun \/ pc = "failed" \/ lost > Window - Thr)
===============================================================================
