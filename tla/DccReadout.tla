------------------------------ MODULE DccReadout ------------------------------
(***************************************************************************)
(* A run of DCC electronics.  The main thread itself takes the data: it    *)
(* starts the sampling, waits for a trigger, asks for the data of every    *)
(* chip, one request after the other, and marks the end of the event in    *)
(* tmpBuffer, from where the event builder takes it.  Each command waits   *)
(* for its replies; UDP may lose a command or a reply.                     *)
(*                                                                         *)
(* The commands of a turn of the loop are numbered: Pre of them start the  *)
(* sampling, the next one waits for the trigger, the others ask for data.  *)
(***************************************************************************)
EXTENDS Integers, Sequences, SequencesExt

CONSTANTS
  Pre,          \* commands that start the sampling (1, or 2 for internal triggers)
  Requests,     \* areq commands of a turn (4 for each card)
  Packets,      \* data packets that answer an areq
  MaxDrain,     \* passes of the builder after the stop (500)
  MaxRuns,      \* bound: runs started
  MaxTriggers,  \* bound: triggers
  MaxLost,      \* bound: commands and replies lost
  MaxErrs       \* bound: areq commands answered by an error

ASSUME SizeAssumption == /\ Pre \in Nat \ {0} /\ Requests \in Nat \ {0}
                         /\ Packets \in Nat \ {0} /\ MaxDrain \in Nat \ {0}
ASSUME BoundAssumption == /\ MaxRuns \in Nat /\ MaxTriggers \in Nat
                          /\ MaxLost \in Nat /\ MaxErrs \in Nat

VARIABLES
  pc, cmd,     \* the main thread, and the number of its command
  turn,        \* turns of the loop begun, in all runs
  abrt, stopRun, stopEventBuilder,
  asked,       \* external: commands that reached the DCC, in order
  replies,     \* datagrams of the DCC, in order
  trig,        \* external: triggers so far
  tmpBuffer, buffer, bpc, emptyBuffer, tC,  \* FEM and the builder's locals
  saved,       \* history of the run: events stored
  runs, lost, errs,
  after,       \* history: triggers taken since the run was stopped
  calm,        \* history: startDAQ had returned before the last pass
  quiet, base  \* history: tmpBuffer was empty when the run began, triggers then

mainVars == <<pc, cmd, turn>>
flags == <<abrt, stopRun, stopEventBuilder>>
dccVars == <<asked, replies, trig, lost, errs>>
loopVars == <<buffer, bpc, emptyBuffer, tC, saved, calm>>
runVars == <<runs, after, quiet, base>>
vars == <<mainVars, flags, dccVars, tmpBuffer, loopVars, runVars>>

WaitAt == Pre + 1
LastCmd == WaitAt + Requests
Active == {"clear", "test", "send", "recv", "mark"}

Packet(t, c, p) == [ev |-> t, req |-> c, part |-> p]
Mark == Packet(0, 0, 0)
Reply(a, k, d) == [turn |-> a.turn, cmd |-> a.cmd, kind |-> k, data |-> d]

Init == /\ pc = "idle" /\ cmd = 1 /\ turn = 0
        /\ abrt = FALSE /\ stopRun = FALSE /\ stopEventBuilder = FALSE
        /\ asked = <<>> /\ replies = <<>> /\ trig = 0 /\ lost = 0 /\ errs = 0
        /\ tmpBuffer = <<>> /\ buffer = <<>> /\ bpc = "done" /\ emptyBuffer = TRUE
        /\ tC = 0 /\ saved = <<>> /\ calm = FALSE
        /\ runs = 0 /\ after = 0 /\ quiet = TRUE /\ base = 0

(***************************************************************************)
(* External: the DCC answers the commands in order.                        *)
(***************************************************************************)
Answers(s) == /\ asked # <<>> /\ asked' = Tail(asked) /\ replies' = replies \o s
              /\ UNCHANGED <<mainVars, flags, tmpBuffer, loopVars, runVars>>

AnswerStart == /\ asked # <<>> /\ Head(asked).cmd < WaitAt
               /\ Answers(<<Reply(Head(asked), "ok", Mark)>>)
               /\ UNCHANGED <<trig, lost, errs>>

\* The wait ends with a trigger, or with an error when none came in time.
AnswerWait == /\ asked # <<>> /\ Head(asked).cmd = WaitAt
              /\ \/ /\ trig < MaxTriggers /\ trig' = trig + 1
                    /\ Answers(<<Reply(Head(asked), "ok", Mark)>>)
                 \/ Answers(<<Reply(Head(asked), "err", Mark)>>) /\ UNCHANGED trig
              /\ UNCHANGED <<lost, errs>>

AnswerData ==
  /\ asked # <<>> /\ Head(asked).cmd > WaitAt
  /\ LET a == Head(asked) IN
     \/ /\ Answers([p \in 1..Packets |-> Reply(a, "data", Packet(trig, a.cmd, p))])
        /\ UNCHANGED errs
     \/ errs < MaxErrs /\ errs' = errs + 1 /\ Answers(<<Reply(a, "err", Mark)>>)
  /\ UNCHANGED <<trig, lost>>

LoseReply == /\ lost < MaxLost /\ lost' = lost + 1
             /\ \E i \in DOMAIN replies : replies' = RemoveAt(replies, i)
             /\ UNCHANGED <<mainVars, flags, asked, trig, errs, tmpBuffer, loopVars,
                            runVars>>

(***************************************************************************)
(* startDAQ and SendCommand, in the main thread.                           *)
(***************************************************************************)
StartDAQ == /\ pc = "idle" /\ runs < MaxRuns
            /\ pc' = "clear" /\ runs' = runs + 1
            /\ stopRun' = FALSE /\ stopEventBuilder' = FALSE
            /\ bpc' = "init" /\ saved' = <<>> /\ calm' = FALSE
            /\ after' = 0 /\ quiet' = (tmpBuffer = <<>>) /\ base' = trig
            /\ UNCHANGED <<cmd, turn, abrt, dccVars, tmpBuffer, buffer, emptyBuffer, tC>>

\* The buffer is cleared after the builder was started, without the lock: what
\* the builder moves at that moment is all of it or nothing.
ClearBuffer == /\ pc = "clear" /\ pc' = "test" /\ tmpBuffer' = <<>>
               /\ UNCHANGED <<cmd, turn, flags, dccVars, loopVars, runVars>>

\* Mutant of Stopped: only an abort ends the loop.
StoppedByAbort == abrt

\* while (!stopRun)
Stopped == stopRun

TestStop == /\ pc = "test"
            /\ \/ Stopped /\ pc' = "ran" /\ UNCHANGED <<cmd, turn>>
               \/ ~Stopped /\ pc' = "send" /\ cmd' = 1 /\ turn' = turn + 1
            /\ UNCHANGED <<flags, dccVars, tmpBuffer, loopVars, runVars>>

Send == /\ pc = "send" /\ pc' = "recv"
        /\ \/ asked' = Append(asked, [turn |-> turn, cmd |-> cmd]) /\ UNCHANGED lost
           \/ lost < MaxLost /\ lost' = lost + 1 /\ UNCHANGED asked
        /\ UNCHANGED <<cmd, turn, flags, replies, trig, errs, tmpBuffer, loopVars, runVars>>

\* sendto fails, or no reply comes in the time allowed (which is longer than
\* the DCC takes to answer): the exception ends the program.
Fails == /\ \/ pc = "send"
            \/ pc = "recv" /\ ~abrt /\ asked = <<>> /\ replies = <<>>
         /\ pc' = "failed"
         /\ UNCHANGED <<cmd, turn, flags, dccVars, tmpBuffer, loopVars, runVars>>

\* The command returns: an abort breaks the loop at the wait, a wait that
\* found no trigger is repeated, the last request is followed by the mark.
Return(retry) ==
  /\ pc' = IF cmd = WaitAt /\ abrt THEN "ran"
           ELSE IF cmd = LastCmd THEN "mark" ELSE "send"
  /\ cmd' = IF cmd = LastCmd \/ (cmd = WaitAt /\ (abrt \/ retry)) THEN cmd ELSE cmd + 1
  /\ after' = IF cmd = WaitAt /\ stopRun /\ ~abrt /\ ~retry THEN after + 1 ELSE after
  /\ UNCHANGED turn

\* Mutant of RecvAborted: the abort is noticed only after a reply.
AbortNeedsReply == /\ pc = "recv" /\ abrt /\ replies # <<>> /\ Return(FALSE)
                   /\ replies' = Tail(replies)
                   /\ UNCHANGED <<flags, asked, trig, lost, errs, tmpBuffer, loopVars, runs,
                                  quiet, base>>

\* recvfrom returns every second, and an abort drops the reply, if any.
RecvAborted == /\ pc = "recv" /\ abrt /\ Return(FALSE)
               /\ replies' = IF replies = <<>> THEN <<>> ELSE Tail(replies)
               /\ UNCHANGED <<flags, asked, trig, lost, errs, tmpBuffer, loopVars, runs,
                              quiet, base>>

\* A reply of the commands without data, or an error.
RecvStatus == /\ pc = "recv" /\ ~abrt /\ replies # <<>>
              /\ \/ cmd <= WaitAt
                 \/ Head(replies).kind = "err"
              /\ Return(cmd = WaitAt /\ Head(replies).kind = "err")
              /\ replies' = Tail(replies)
              /\ UNCHANGED <<flags, asked, trig, lost, errs, tmpBuffer, loopVars, runs,
                             quiet, base>>

\* Mutant of EndOfRequest: one packet answers a request.
EndOfFirst(d) == d.part = 1

\* The flag of the last packet of a request.
EndOfRequest(d) == d.part = Packets

RecvData == /\ pc = "recv" /\ ~abrt /\ cmd > WaitAt
            /\ replies # <<>> /\ Head(replies).kind = "data"
            /\ tmpBuffer' = Append(tmpBuffer, Head(replies).data)
            /\ replies' = Tail(replies)
            /\ IF EndOfRequest(Head(replies).data) THEN Return(FALSE)
               ELSE UNCHANGED <<mainVars, after>>
            /\ UNCHANGED <<flags, asked, trig, lost, errs, loopVars, runs, quiet, base>>

\* The mark is inserted whatever the requests returned.
MarkEvent == /\ pc = "mark" /\ pc' = "test"
             /\ tmpBuffer' = Append(tmpBuffer, Mark)
             /\ UNCHANGED <<cmd, turn, flags, dccVars, loopVars, runVars>>

\* UpdateThread reaches a limit of the run; SIGINT arrives.
StopRun == /\ pc \in Active \cup {"ran"} /\ ~stopRun /\ stopRun' = TRUE
           /\ UNCHANGED <<mainVars, abrt, stopEventBuilder, dccVars, tmpBuffer, loopVars,
                          runVars>>

Signal == /\ ~abrt /\ abrt' = TRUE
          /\ UNCHANGED <<mainVars, stopRun, stopEventBuilder, dccVars, tmpBuffer, loopVars,
                         runVars>>

\* stopDAQ waits for UpdateThread, which a stop or an abort ends.
StopDAQ == /\ pc = "ran" /\ (stopRun \/ abrt) /\ pc' = "join"
           /\ stopEventBuilder' = TRUE
           /\ UNCHANGED <<cmd, turn, abrt, stopRun, dccVars, tmpBuffer, loopVars, runVars>>

JoinBuilder == /\ pc = "join" /\ bpc = "done" /\ pc' = "idle"
               /\ UNCHANGED <<cmd, turn, flags, dccVars, tmpBuffer, loopVars, runVars>>

(***************************************************************************)
(* EventBuilder.                                                           *)
(***************************************************************************)
\* Mutant of InitBuilder: buffer keeps the packets of the run before.
InitKeepsBuffer == /\ bpc = "init" /\ bpc' = "head"
                   /\ emptyBuffer' = TRUE /\ tC' = 0
                   /\ UNCHANGED <<mainVars, flags, dccVars, tmpBuffer, buffer, saved, calm,
                                  runVars>>

InitBuilder == /\ bpc = "init" /\ bpc' = "head"
               /\ emptyBuffer' = TRUE /\ tC' = 0 /\ buffer' = <<>>
               /\ UNCHANGED <<mainVars, flags, dccVars, tmpBuffer, saved, calm, runVars>>

\* Mutant of Finished: the stop does not wait for the buffer to be empty.
FinishedAtOnce == stopEventBuilder

\* while (!(emptyBuffer && stopEventBuilder))
Finished == emptyBuffer /\ stopEventBuilder

TestLoop == /\ bpc = "head"
            /\ \/ Finished /\ bpc' = "done" /\ UNCHANGED calm
               \/ ~Finished /\ bpc' = "pass" /\ calm' = (pc \notin Active)
            /\ UNCHANGED <<mainVars, flags, dccVars, tmpBuffer, buffer, emptyBuffer, tC,
                           saved, runVars>>

\* Where the events of a buffer end.
Marks(b) == {i \in DOMAIN b : b[i] = Mark}

\* tmpBuffer is moved under the lock, and the packets up to the first mark are
\* an event, which is stored when it has signals.
BuildEvent ==
  LET b == buffer \o tmpBuffer
      event == SubSeq(b, 1, Min(Marks(b)) - 1)
  IN /\ bpc = "pass" /\ bpc' = "tail"
     /\ tmpBuffer' = <<>> /\ emptyBuffer' = (b = <<>>)
     /\ \/ Marks(b) = {} /\ buffer' = b /\ UNCHANGED saved
        \/ /\ Marks(b) # {} /\ buffer' = SubSeq(b, Min(Marks(b)) + 1, Len(b))
           /\ saved' = IF event = <<>> THEN saved ELSE Append(saved, event)
     /\ UNCHANGED <<mainVars, flags, dccVars, tC, calm, runVars>>

\* The builder gives up MaxDrain passes after the stop.
CountPass == /\ bpc = "tail"
             /\ tC' = IF stopEventBuilder THEN tC + 1 ELSE tC
             /\ bpc' = IF stopEventBuilder /\ tC' >= MaxDrain THEN "done" ELSE "head"
             /\ UNCHANGED <<mainVars, flags, dccVars, tmpBuffer, buffer, emptyBuffer,
                            saved, calm, runVars>>

Builder == InitBuilder \/ TestLoop \/ BuildEvent \/ CountPass

\* The steps of startDAQ.
Loop == \/ ClearBuffer \/ TestStop \/ Send \/ Fails
        \/ RecvAborted \/ RecvStatus \/ RecvData \/ MarkEvent

Next == \/ StartDAQ \/ Loop \/ StopDAQ \/ JoinBuilder \/ StopRun \/ Signal
        \/ Builder
        \/ AnswerStart \/ AnswerWait \/ AnswerData \/ LoseReply

Spec == Init /\ [][Next]_vars

\* The main thread runs; the DCC, the network and the user owe nothing.
FairSpec == Spec /\ WF_vars(Loop)

(***************************************************************************)
(* Properties.                                                             *)
(***************************************************************************)
Data == [ev : 0..MaxTriggers, req : 0..LastCmd, part : 0..Packets]
Sent == [turn : Nat, cmd : 1..LastCmd]
Received == [turn : Nat, cmd : 1..LastCmd, kind : {"ok", "err", "data"}, data : Data]

TypeOK == /\ pc \in Active \cup {"idle", "ran", "join", "failed"}
          /\ cmd \in 1..LastCmd /\ turn \in Nat /\ runs \in 0..MaxRuns
          /\ abrt \in BOOLEAN /\ stopRun \in BOOLEAN /\ stopEventBuilder \in BOOLEAN
          /\ asked \in Seq(Sent) /\ replies \in Seq(Received)
          /\ trig \in 0..MaxTriggers /\ lost \in 0..MaxLost /\ errs \in 0..MaxErrs
          /\ tmpBuffer \in Seq(Data) /\ buffer \in Seq(Data) /\ saved \in Seq(Seq(Data))
          /\ bpc \in {"init", "head", "pass", "tail", "done"}
          /\ emptyBuffer \in BOOLEAN /\ tC \in 0..MaxDrain

\* The packets of trigger t, in the order of the requests.
Whole(t) == [i \in 1..Requests * Packets |->
               Packet(t, WaitAt + 1 + (i - 1) \div Packets, 1 + ((i - 1) % Packets))]

\* Without losses and errors every event stored is all the data of one trigger
\* and of no other, except the last event of a program that was aborted.
EventsWhole == (errs = 0 /\ lost = 0) =>
  \A i \in DOMAIN saved :
    saved[i] = Whole(saved[i][1].ev) \/ (abrt /\ i = Len(saved))

\* No reply is ever taken for the reply of another command: while the program
\* runs, what is asked or on its way belongs to the command that waits.
ReplyMatches == (~abrt /\ pc # "failed") =>
  /\ \A i \in DOMAIN asked :
       pc = "recv" /\ asked[i] = [turn |-> turn, cmd |-> cmd]
  /\ \A i \in DOMAIN replies :
       pc = "recv" /\ replies[i].turn = turn /\ replies[i].cmd = cmd

\* A run that reached its limit takes at most the event that it waits for.
OneMoreEvent == after <= 1

\* A run that starts with an empty tmpBuffer stores no event of an earlier run.
QuietRunsPure == quiet => \A i \in DOMAIN saved : saved[i][1].ev > base

\* A builder that ends before its limit of passes leaves nothing behind, if
\* its last pass began after startDAQ had returned.
DrainsData == (bpc = "done" /\ calm /\ tC < MaxDrain) =>
  tmpBuffer = <<>> /\ buffer = <<>>

\* An abort ends startDAQ, even when the DCC does not answer.
AbortHonoured == (abrt /\ pc \in Active) ~> pc \notin Active
===============================================================================
