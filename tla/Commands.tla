------------------------------- MODULE Commands -------------------------------
(***************************************************************************)
(* Commands and replies of ARC and FEMINOS electronics.  The main thread   *)
(* sends a command to every active FEM, one thread each, and waits for the *)
(* threads in the order of the FEMs.  A thread waits until as many replies *)
(* as commands were counted, which the receiver thread of the FEM does     *)
(* after it has written the reply to the log.  The network loses and       *)
(* duplicates datagrams.                                                   *)
(***************************************************************************)
EXTENDS Integers, Sequences, FiniteSets

CONSTANTS
  N,         \* number of FEMs
  MaxCmds,   \* bound: commands
  MaxLost,   \* bound: lost datagrams
  MaxDup,    \* bound: duplicated replies
  MaxFails   \* bound: failures of sendto

ASSUME SizeAssumption == N \in Nat \ {0}
ASSUME BoundAssumption == /\ MaxCmds \in Nat /\ MaxLost \in Nat
                          /\ MaxDup \in Nat /\ MaxFails \in Nat

FEM == 1..N  \* FEMArray

VARIABLES
  pc,            \* the main thread
  next,          \* the future it waits for
  active,
  task,          \* the thread of the command for each FEM
  cmd_sent, cmd_rcv, stopReceiver,
  receiver,      \* the receiver thread of each FEM
  reply,         \* the reply it handles: the number of its command
  toFem, toHost, \* datagrams on their way
  cmds,          \* commands executed
  sent, logged,  \* history: commands sent to, and replies logged of, each FEM
  dup,           \* history: duplicated replies of each FEM
  lost, fails

mainVars == <<pc, next, active, cmds>>
recvVars == <<receiver, reply, cmd_rcv, logged>>
sendVars == <<task, cmd_sent, sent>>
netVars == <<toFem, toHost, dup, lost>>
vars == <<mainVars, recvVars, sendVars, netVars, stopReceiver, fails>>

Init == /\ pc = "prompt" /\ next = 1 /\ active = FEM /\ cmds = 0
        /\ task = [f \in FEM |-> "none"]
        /\ cmd_sent = [f \in FEM |-> 0] /\ cmd_rcv = [f \in FEM |-> 0]
        /\ stopReceiver = FALSE
        /\ receiver = [f \in FEM |-> "recv"] /\ reply = [f \in FEM |-> 0]
        /\ toFem = [f \in FEM |-> <<>>] /\ toHost = [f \in FEM |-> <<>>]
        /\ sent = [f \in FEM |-> {}] /\ logged = [f \in FEM |-> {}]
        /\ dup = [f \in FEM |-> 0] /\ lost = 0 /\ fails = 0

(***************************************************************************)
(* The main thread.                                                        *)
(***************************************************************************)
\* fem * or fem <id>, which may match none.
SetActiveFEM(S) == /\ pc = "prompt" /\ cmds < MaxCmds /\ active' = S
                   /\ UNCHANGED <<pc, next, cmds, recvVars, sendVars, netVars, stopReceiver,
                                  fails>>

SendCommand == /\ pc = "prompt" /\ cmds < MaxCmds
               /\ pc' = "waiting" /\ next' = 1 /\ cmds' = cmds + 1
               /\ task' = [f \in FEM |-> IF f \in active THEN "send" ELSE "none"]
               /\ UNCHANGED <<active, recvVars, cmd_sent, sent, netVars, stopReceiver, fails>>

\* f.get() of the next thread returns, or there is none.
Get == /\ pc = "waiting" /\ next \in FEM /\ task[next] \in {"none", "done"}
       /\ next' = next + 1
       /\ UNCHANGED <<pc, active, cmds, recvVars, sendVars, netVars, stopReceiver, fails>>

\* Mutant of Return: the first thread is waited for only.
ReturnFirst == /\ pc = "waiting" /\ next > 1 /\ pc' = "prompt"
               /\ UNCHANGED <<next, active, cmds, recvVars, sendVars, netVars, stopReceiver,
                              fails>>

Return == /\ pc = "waiting" /\ next > N /\ pc' = "prompt"
          /\ UNCHANGED <<next, active, cmds, recvVars, sendVars, netVars, stopReceiver, fails>>

\* f.get() throws: the others are told to stop, and waited for.
CatchFailure == /\ pc = "waiting" /\ next \in FEM /\ task[next] = "failed"
                /\ pc' = "unwinding" /\ stopReceiver' = TRUE
                /\ UNCHANGED <<next, active, cmds, recvVars, sendVars, netVars, fails>>

TaskEnded(f) == task[f] \in {"none", "done", "failed"}

Unwind == /\ pc = "unwinding" /\ \A f \in FEM : TaskEnded(f) /\ pc' = "closing"
          /\ UNCHANGED <<next, active, cmds, recvVars, sendVars, netVars, stopReceiver, fails>>

\* quit, or the end of a script.
Quit == /\ pc = "prompt" /\ pc' = "closing"
        /\ UNCHANGED <<next, active, cmds, recvVars, sendVars, netVars, stopReceiver, fails>>

\* Mutant of Close: the receivers are not told to stop.
CloseLeaves == /\ pc = "closing" /\ pc' = "joining"
               /\ UNCHANGED <<next, active, cmds, recvVars, sendVars, netVars, stopReceiver,
                              fails>>

Close == /\ pc = "closing" /\ pc' = "joining" /\ stopReceiver' = TRUE
         /\ UNCHANGED <<next, active, cmds, recvVars, sendVars, netVars, fails>>

JoinReceivers == /\ pc = "joining" /\ \A f \in FEM : receiver[f] = "off" /\ pc' = "ended"
                 /\ UNCHANGED <<next, active, cmds, recvVars, sendVars, netVars,
                                stopReceiver, fails>>

(***************************************************************************)
(* The thread of a command.                                                *)
(***************************************************************************)
SendTo(f) == /\ task[f] = "send" /\ task' = [task EXCEPT ![f] = "sent"]
             /\ toFem' = [toFem EXCEPT ![f] = Append(@, cmds)]
             /\ sent' = [sent EXCEPT ![f] = @ \cup {cmds}]
             /\ UNCHANGED <<mainVars, recvVars, cmd_sent, toHost, dup, lost, stopReceiver,
                            fails>>

SendFails(f) == /\ task[f] = "send" /\ task' = [task EXCEPT ![f] = "failed"]
                /\ fails < MaxFails /\ fails' = fails + 1
                /\ UNCHANGED <<mainVars, recvVars, cmd_sent, sent, netVars, stopReceiver>>

\* The reply may have been counted already.
CountSent(f) == /\ task[f] = "sent" /\ task' = [task EXCEPT ![f] = "wait"]
                /\ cmd_sent' = [cmd_sent EXCEPT ![f] = @ + 1]
                /\ UNCHANGED <<mainVars, recvVars, sent, netVars, stopReceiver, fails>>

\* Mutant of Answered: one reply less.
AnsweredEarly(f) == cmd_rcv[f] + 1 >= cmd_sent[f]

Answered(f) == cmd_rcv[f] >= cmd_sent[f]

TestReply(f) == /\ task[f] = "wait"
                /\ task' = [task EXCEPT ![f] = IF Answered(f) THEN "done" ELSE "sleep"]
                /\ UNCHANGED <<mainVars, recvVars, cmd_sent, sent, netVars, stopReceiver,
                               fails>>

\* After the sleep the reply is not looked at before the time is.
TimeOut(f) == /\ task[f] = "sleep" /\ task' = [task EXCEPT ![f] = "failed"]
              /\ UNCHANGED <<mainVars, recvVars, cmd_sent, sent, netVars, stopReceiver, fails>>

\* Mutant of WakeUp: the command is sent again.
WakeUpRetries(f) == /\ task[f] = "sleep" /\ task' = [task EXCEPT ![f] = "sent"]
                    /\ UNCHANGED <<mainVars, recvVars, cmd_sent, sent, netVars, stopReceiver,
                                   fails>>

WakeUp(f) == /\ task[f] = "sleep"
             /\ task' = [task EXCEPT ![f] = IF stopReceiver THEN "done" ELSE "wait"]
             /\ UNCHANGED <<mainVars, recvVars, cmd_sent, sent, netVars, stopReceiver, fails>>

(***************************************************************************)
(* The receiver thread of a FEM.                                           *)
(***************************************************************************)
RecvReply(f) == /\ receiver[f] = "recv" /\ toHost[f] # <<>>
                /\ receiver' = [receiver EXCEPT ![f] = "print"]
                /\ reply' = [reply EXCEPT ![f] = Head(toHost[f])]
                /\ toHost' = [toHost EXCEPT ![f] = Tail(@)]
                /\ UNCHANGED <<mainVars, cmd_rcv, logged, sendVars, toFem, dup, lost,
                               stopReceiver, fails>>

\* The log is written, then the reply counted.
CountReply(f) == /\ receiver[f] = "print"
                 /\ receiver' = [receiver EXCEPT ![f] = "recv"]
                 /\ logged' = [logged EXCEPT ![f] = @ \cup {reply[f]}]
                 /\ cmd_rcv' = [cmd_rcv EXCEPT ![f] = @ + 1]
                 /\ UNCHANGED <<mainVars, reply, sendVars, netVars, stopReceiver, fails>>

EndReceiver(f) == /\ receiver[f] = "recv" /\ stopReceiver
                  /\ receiver' = [receiver EXCEPT ![f] = "off"]
                  /\ UNCHANGED <<mainVars, reply, cmd_rcv, logged, sendVars, netVars,
                                 stopReceiver, fails>>

(***************************************************************************)
(* The FEMs and the network.                                               *)
(***************************************************************************)
Answer(f) == /\ toFem[f] # <<>> /\ toFem' = [toFem EXCEPT ![f] = Tail(@)]
             /\ toHost' = [toHost EXCEPT ![f] = Append(@, Head(toFem[f]))]
             /\ UNCHANGED <<mainVars, recvVars, sendVars, dup, lost, stopReceiver, fails>>

Lose(f) == /\ lost < MaxLost /\ lost' = lost + 1
           /\ \/ /\ toFem[f] # <<>> /\ toFem' = [toFem EXCEPT ![f] = Tail(@)]
                 /\ UNCHANGED toHost
              \/ /\ toHost[f] # <<>> /\ toHost' = [toHost EXCEPT ![f] = Tail(@)]
                 /\ UNCHANGED toFem
           /\ UNCHANGED <<mainVars, recvVars, sendVars, dup, stopReceiver, fails>>

Duplicate(f) == /\ toHost[f] # <<>> /\ dup[f] < MaxDup /\ dup' = [dup EXCEPT ![f] = @ + 1]
                /\ toHost' = [toHost EXCEPT ![f] = Append(@, Head(@))]
                /\ UNCHANGED <<mainVars, recvVars, sendVars, toFem, lost, stopReceiver, fails>>

Main == Get \/ Return \/ CatchFailure \/ Unwind \/ Close \/ JoinReceivers
Task(f) == SendTo(f) \/ SendFails(f) \/ CountSent(f) \/ TestReply(f) \/ WakeUp(f)
Receiver(f) == RecvReply(f) \/ CountReply(f) \/ EndReceiver(f)
Network(f) == Answer(f) \/ Lose(f) \/ Duplicate(f)

Next == \/ Main \/ SendCommand \/ Quit
        \/ \E S \in {FEM, {}} \cup {{f} : f \in FEM} : SetActiveFEM(S)
        \/ \E f \in FEM : Task(f) \/ TimeOut(f) \/ Receiver(f) \/ Network(f)

Spec == Init /\ [][Next]_vars

\* The threads are scheduled, and one that polls for ever polls after its
\* timeout.  The user, the FEMs and the network owe nothing.
FairSpec == /\ Spec /\ WF_vars(Main)
            /\ \A f \in FEM : WF_vars(Task(f)) /\ SF_vars(TimeOut(f)) /\ WF_vars(Receiver(f))

(***************************************************************************)
(* Properties.                                                             *)
(***************************************************************************)
Cmd == 1..MaxCmds

TypeOK == /\ pc \in {"prompt", "waiting", "unwinding", "closing", "joining", "ended"}
          /\ next \in 1..N + 1 /\ active \subseteq FEM /\ cmds \in 0..MaxCmds
          /\ task \in [FEM -> {"none", "send", "sent", "wait", "sleep", "done", "failed"}]
          /\ cmd_sent \in [FEM -> 0..MaxCmds] /\ cmd_rcv \in [FEM -> 0..MaxCmds + MaxDup]
          /\ stopReceiver \in BOOLEAN
          /\ receiver \in [FEM -> {"recv", "print", "off"}] /\ reply \in [FEM -> 0..MaxCmds]
          /\ toFem \in [FEM -> Seq(Cmd)] /\ toHost \in [FEM -> Seq(Cmd)]
          /\ sent \in [FEM -> SUBSET Cmd] /\ logged \in [FEM -> SUBSET Cmd]
          /\ dup \in [FEM -> 0..MaxDup] /\ lost \in 0..MaxLost /\ fails \in 0..MaxFails

\* The FEMs stay in step: when a command is sent to a FEM, every FEM has
\* answered the commands before it and the answers are in the log, but for as
\* many as there were duplicated replies, whatever is lost or late.
Lockstep == \A f, g \in FEM : \A c \in sent[f] :
              Cardinality({d \in sent[g] \ logged[g] : d < c}) <= dup[g]

\* Between the commands nothing is on its way and no receiver writes to a log,
\* which fopen and fclose may close, of a FEM none of whose replies was duplicated.
QuietAtPrompt == pc = "prompt" =>
  \A f \in FEM : dup[f] = 0 =>
    receiver[f] = "recv" /\ toFem[f] = <<>> /\ toHost[f] = <<>>

\* Every command returns or ends the program, whatever the FEMs answer.
SendCommandReturns == pc \notin {"prompt", "ended"} ~> pc \in {"prompt", "ended"}
===============================================================================
