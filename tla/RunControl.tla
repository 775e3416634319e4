------------------------------ MODULE RunControl ------------------------------
(***************************************************************************)
(* The life of a run of ARC or FEMINOS electronics, and of the program     *)
(* around it: the main thread that executes the commands of a user or of a *)
(* script, the threads that startDAQ waits for, the update thread that     *)
(* applies the limits of the run, the event builder, and SIGINT.           *)
(*                                                                         *)
(* `abrt' stands for g_shutdown and abrt, which requestShutdown sets       *)
(* together and nothing resets.  A std::thread is "none" when it is not    *)
(* joinable, and "done" when it has ended but was not joined.              *)
(***************************************************************************)
EXTENDS Integers, Sequences

CONSTANTS
  N,            \* number of FEMs
  Setups,       \* arguments and configurations the program may be started with
  MaxEvents,    \* bound: events the builder stores in a run
  MaxCommands,  \* bound: commands of a user
  MaxFails      \* bound: sendto errors

FEM == 1..N
Commands == {"startDAQ", "stopDAQ", "fem", "quit"}

\* Without a script the commands come from a user; a limit of 0 is none.
Setup == [interactive : BOOLEAN, script : Seq(Commands), nEvents : Nat, maxTime : Nat]

ASSUME SetupAssumption == N \in Nat /\ \A s \in Setups : s \in Setup
ASSUME BoundAssumption ==
  MaxEvents \in Nat /\ MaxCommands \in Nat /\ MaxFails \in Nat

VARIABLES
  setup,     \* how the program was started
  pc,        \* what the main thread does
  executed,  \* commands taken so far
  active,    \* FEM.active
  abrt, stopRun, stopEventBuilder,
  sender,    \* sender[f]: SendDAQCmdThread of f
  updater, builder,   \* UpdateRunThread and eventBuilderThread
  storedEvents,
  clock,     \* time since runStartTime
  fails      \* sendto errors so far

held == <<setup, active>>
flags == <<abrt, stopRun, stopEventBuilder>>
threads == <<sender, updater, builder>>
counts == <<storedEvents, clock>>
vars == <<pc, executed, held, flags, threads, counts, fails>>

Interactive == setup.interactive
Script == setup.script
NEvents == setup.nEvents
MaxTime == setup.maxTime

Init == /\ setup \in Setups /\ pc = "prompt" /\ executed = 0 /\ active = FEM
        /\ abrt = FALSE /\ stopRun = FALSE /\ stopEventBuilder = FALSE
        /\ sender = [f \in FEM |-> "off"] /\ updater = "none" /\ builder = "none"
        /\ storedEvents = 0 /\ clock = 0 /\ fails = 0

(***************************************************************************)
(* The main thread.                                                        *)
(***************************************************************************)
\* A std::thread of this run or of an earlier one was not joined.
Joinable == updater # "none" \/ builder # "none"

\* The next command is c: the shell stops at a shutdown, a script goes on.
Take(c) == /\ pc = "prompt" /\ executed' = executed + 1
           /\ IF Interactive THEN ~abrt /\ executed < MaxCommands
              ELSE executed < Len(Script) /\ c = Script[executed + 1]

\* End of the input of the shell, a shutdown, or the end of the script.
LeaveLoop == /\ pc = "prompt" /\ pc' = "closing"
             /\ (Interactive \/ executed = Len(Script))
             /\ UNCHANGED <<executed, held, flags, threads, counts, fails>>

Quit == /\ Take("quit") /\ abrt' = TRUE
        /\ UNCHANGED <<pc, held, stopRun, stopEventBuilder, threads, counts, fails>>

\* setActiveFEM: every FEM, the one asked for, or none when it is not found.
SetActiveFEM == /\ Take("fem") /\ active' \in {FEM, {}} \cup {{f} : f \in FEM}
                /\ UNCHANGED <<setup, pc, flags, threads, counts, fails>>

Threads(run) == /\ builder' = "run" /\ updater' = "test"
                /\ sender' = [f \in FEM |-> IF f \in run THEN "on" ELSE "off"]

\* Mutants of StartDAQ: the threads of an earlier run are left to themselves,
\* and the flag that ended it is not reset.
StartDetaches == /\ Take("startDAQ")
                 /\ stopEventBuilder' = FALSE /\ stopRun' = FALSE
                 /\ storedEvents' = 0 /\ clock' = 0
                 /\ pc' = "waiting" /\ Threads(active)
                 /\ UNCHANGED <<held, abrt, fails>>

StartKeepsStop == /\ Take("startDAQ")
                  /\ stopEventBuilder' = FALSE
                  /\ storedEvents' = 0 /\ clock' = 0
                  /\ \/ Joinable /\ pc' = "terminated" /\ UNCHANGED threads
                     \/ ~Joinable /\ pc' = "waiting" /\ Threads(active)
                  /\ UNCHANGED <<held, abrt, stopRun, fails>>

\* Assigning to a std::thread that is still joinable terminates the program.
StartDAQ == /\ Take("startDAQ")
            /\ stopEventBuilder' = FALSE /\ stopRun' = FALSE
            /\ storedEvents' = 0 /\ clock' = 0
            /\ \/ Joinable /\ pc' = "terminated" /\ UNCHANGED threads
               \/ ~Joinable /\ pc' = "waiting" /\ Threads(active)
            /\ UNCHANGED <<held, abrt, fails>>

\* Mutant of ReturnDAQ: only the first future is waited for.
ReturnsWithFirst == /\ pc = "waiting" /\ \E f \in FEM : sender[f] = "left"
                    /\ pc' = "prompt"
                    /\ UNCHANGED <<executed, held, flags, threads, counts, fails>>

\* Every f.get() has returned.
ReturnDAQ == /\ pc = "waiting" /\ \A f \in FEM : sender[f] \in {"off", "left"}
             /\ pc' = "prompt"
             /\ UNCHANGED <<executed, held, flags, threads, counts, fails>>

\* The f.get() calls are made in order; one of them throws.
CatchFailure == /\ pc = "waiting" /\ pc' = "unwinding"
                /\ \E f \in FEM : /\ sender[f] = "failed"
                                  /\ \A g \in 1..f - 1 : sender[g] \in {"off", "left"}
                /\ UNCHANGED <<executed, held, flags, threads, counts, fails>>

\* The destructors of the futures wait for the threads of the other FEMs;
\* main catches the exception and destroys the program's objects.
Unwind == /\ pc = "unwinding" /\ \A f \in FEM : sender[f] # "on"
          /\ pc' = "closing"
          /\ UNCHANGED <<executed, held, flags, threads, counts, fails>>

\* stopDAQ notifies the update thread, which looks at its flags, and joins it.
StopDAQ == /\ Take("stopDAQ") /\ pc' = "joinUpdater"
           /\ UNCHANGED <<held, flags, threads, counts, fails>>

JoinUpdater == /\ pc = "joinUpdater" /\ updater \in {"none", "done"}
               /\ pc' = "joinBuilder" /\ updater' = "none"
               /\ stopEventBuilder' = TRUE
               /\ UNCHANGED <<executed, held, abrt, stopRun, sender, builder, counts,
                              fails>>

\* Mutant of JoinBuilder: the thread is waited for but not joined.
JoinBuilderLeaves ==
  /\ pc = "joinBuilder" /\ builder \in {"none", "done"} /\ pc' = "prompt"
  /\ UNCHANGED <<executed, held, flags, threads, counts, fails>>

JoinBuilder == /\ pc = "joinBuilder" /\ builder \in {"none", "done"}
               /\ pc' = "prompt" /\ builder' = "none"
               /\ UNCHANGED <<executed, held, flags, sender, updater, counts, fails>>

\* Destroying a std::thread that is still joinable terminates the program.
Close == /\ pc = "closing"
         /\ pc' = IF Joinable THEN "terminated" ELSE "exited"
         /\ UNCHANGED <<executed, held, flags, threads, counts, fails>>

(***************************************************************************)
(* The other threads run while the process exists.                         *)
(***************************************************************************)
Alive == pc \notin {"exited", "terminated"}

\* SendDAQCmdThread sees the end of the run, or its sendto fails.
LeaveDAQ(f) == /\ Alive /\ sender[f] = "on" /\ (abrt \/ stopRun)
               /\ sender' = [sender EXCEPT ![f] = "left"]
               /\ UNCHANGED <<pc, executed, held, flags, updater, builder, counts, fails>>

SendFails(f) == /\ Alive /\ sender[f] = "on" /\ fails < MaxFails
                /\ fails' = fails + 1 /\ sender' = [sender EXCEPT ![f] = "failed"]
                /\ UNCHANGED <<pc, executed, held, flags, updater, builder, counts>>

\* UpdateThread: while (!abrt && !stopRun)
UpdateTest == /\ Alive /\ updater = "test"
              /\ updater' = IF abrt \/ stopRun THEN "done" ELSE "wait"
              /\ UNCHANGED <<pc, executed, held, flags, sender, builder, counts, fails>>

\* Mutant of EventLimit: a sample may miss the exact count.
EventLimitExact == NEvents > 0 /\ storedEvents = NEvents

EventLimit == NEvents > 0 /\ storedEvents >= NEvents
TimeLimit == MaxTime > 0 /\ clock >= MaxTime

\* The wait ends after updateRate seconds or when the run ends.
UpdateSample == /\ Alive /\ updater = "wait"
                /\ IF EventLimit \/ TimeLimit
                     THEN stopRun' = TRUE /\ updater' = "done"
                     ELSE UNCHANGED stopRun /\ updater' = "test"
                /\ UNCHANGED <<pc, executed, held, abrt, stopEventBuilder, sender,
                               builder, counts, fails>>

\* EventBuilder, of which only the count and the end matter here.
StoreEvent == /\ Alive /\ builder = "run" /\ storedEvents < MaxEvents
              /\ storedEvents' = storedEvents + 1
              /\ UNCHANGED <<pc, executed, held, flags, threads, clock, fails>>

EndBuilder == /\ Alive /\ builder = "run" /\ stopEventBuilder /\ builder' = "done"
              /\ UNCHANGED <<pc, executed, held, flags, sender, updater, counts, fails>>

\* SIGINT or SIGTERM.
Signal == /\ Alive /\ abrt' = TRUE
          /\ UNCHANGED <<pc, executed, held, stopRun, stopEventBuilder, threads, counts,
                         fails>>

\* Time passes; what is past the limit is not told apart.
Tick == /\ Alive /\ clock < MaxTime /\ clock' = clock + 1
        /\ UNCHANGED <<pc, executed, held, flags, threads, storedEvents, fails>>

Main == \/ LeaveLoop \/ Quit \/ SetActiveFEM \/ StartDAQ \/ ReturnDAQ \/ CatchFailure
        \/ Unwind \/ StopDAQ \/ JoinUpdater \/ JoinBuilder \/ Close
Updater == UpdateTest \/ UpdateSample

Next == \/ Main \/ Updater \/ StoreEvent \/ EndBuilder \/ Signal \/ Tick
        \/ \E f \in FEM : LeaveDAQ(f) \/ SendFails(f)

Spec == Init /\ [][Next]_vars

\* The threads are scheduled, the builder gives up in the end (BuilderStops of
\* EventBuilder) and time passes; nothing else is owed.
FairSpec == /\ Spec /\ WF_vars(Main) /\ WF_vars(Updater) /\ WF_vars(EndBuilder)
            /\ WF_vars(Tick) /\ \A f \in FEM : WF_vars(LeaveDAQ(f))

(***************************************************************************)
(* Properties.                                                             *)
(***************************************************************************)
TypeOK == /\ setup \in Setups
          /\ pc \in {"prompt", "waiting", "unwinding", "joinUpdater", "joinBuilder",
                     "closing", "exited", "terminated"}
          /\ executed \in Nat /\ active \in SUBSET FEM
          /\ abrt \in BOOLEAN /\ stopRun \in BOOLEAN /\ stopEventBuilder \in BOOLEAN
          /\ sender \in [FEM -> {"off", "on", "left", "failed"}]
          /\ updater \in {"none", "test", "wait", "done"}
          /\ builder \in {"none", "run", "done"}
          /\ storedEvents \in 0..MaxEvents /\ clock \in 0..MaxTime
          /\ fails \in 0..MaxFails

\* The limits of the configuration file are reached.
EnoughEvents == NEvents > 0 /\ storedEvents >= NEvents
EnoughTime == MaxTime > 0 /\ clock >= MaxTime

\* A run starts only when no thread of an earlier run is left: none can count
\* in storedEvents, or see the flags, of a run that is not its own.
RunsDoNotOverlap ==
  [][pc # "waiting" /\ pc' = "waiting" =>
       /\ updater = "none" /\ builder = "none"
       /\ \A f \in FEM : sender[f] # "on"]_vars

\* The builder is told to end only when no thread of the run can ask a FEM
\* for more frames.
NoRequestAfterStop == stopEventBuilder => \A f \in FEM : sender[f] # "on"

\* The thread of a FEM leaves a run only when SIGINT arrived or this run, not
\* an earlier one, reached one of its limits.
NoPrematureEnd == pc # "terminated" =>
  \A f \in FEM : sender[f] = "left" => abrt \/ EnoughEvents \/ EnoughTime

\* The run is over, or will be.
Bounded == abrt \/ stopRun \/ EnoughEvents \/ MaxTime > 0

\* What a command does once the run it waits for is aborted, stopped, has stored
\* enough events or has a limit of time, it does not do for ever: also when a FEM
\* failed and the main thread waits for the others.
RunsEnd == (pc \in {"waiting", "unwinding", "joinUpdater", "joinBuilder"} /\ Bounded)
             ~> pc \in {"prompt", "exited", "terminated"}

\* A script stops every run that it starts before it starts another.
Paired == \A i \in 1..Len(Script) : Script[i] = "startDAQ" =>
            \E j \in i + 1..Len(Script) :
              /\ Script[j] = "stopDAQ" /\ \A k \in i + 1..j - 1 : Script[k] # "startDAQ"

\* Such a script closes the program properly, whenever SIGINT arrives, as long as
\* the sockets work.
ScriptsClose == (~Interactive /\ Paired /\ fails = 0) => pc # "terminated"

\* SIGINT arrived during a run that the shell waited for: its senders left though
\* no limit had ended the run.
InterruptedRun == Interactive /\ abrt /\ ~stopRun /\ \E f \in FEM : sender[f] = "left"

\* SIGINT during a run closes the program properly, as long as the sockets work.
ClosesProperly == (fails = 0 /\ InterruptedRun) => pc # "terminated"
===============================================================================
