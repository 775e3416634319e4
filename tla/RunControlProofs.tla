--------------------------- MODULE RunControlProofs ---------------------------
(***************************************************************************)
(* Proofs about RunControl, for any number of FEMs, any commands, any      *)
(* limits and any number of send errors, and that a script that stops each *)
(* of its runs closes the program properly.                                *)
(***************************************************************************)
EXTENDS RunControl, TLAPS

USE DEF FEM, Setup

\* Outside of startDAQ no thread is asking a FEM for frames.
SendersOver == pc \notin {"waiting", "unwinding"} => \A f \in FEM : sender[f] # "on"

\* The builder is told to end outside of startDAQ only.
StopOutside == stopEventBuilder => pc \notin {"waiting", "unwinding"}

\* A run was stopped by its own limits.
StopHasCause == (stopRun /\ pc # "terminated") => EnoughEvents \/ EnoughTime

\* The invariant that every step keeps.
IInv == TypeOK /\ SendersOver /\ StopOutside /\ StopHasCause /\ NoPrematureEnd

\* The threads a command starts are of the type of the state.
LEMMA ThreadsType == ASSUME NEW run, Threads(run)
  PROVE /\ sender' \in [FEM -> {"off", "on", "left", "failed"}]
        /\ updater' \in {"none", "test", "wait", "done"}
        /\ builder' \in {"none", "run", "done"}
BY DEF Threads

\* The state the program starts in satisfies the invariant.
LEMMA InitIInv == Init => IInv
<1> SUFFICES ASSUME Init PROVE IInv
  OBVIOUS
<1>1. TypeOK
  <2> USE DEF MaxTime
  <2>1. sender \in [FEM -> {"off", "on", "left", "failed"}] BY DEF Init
  <2>2. abrt \in BOOLEAN /\ stopRun \in BOOLEAN /\ stopEventBuilder \in BOOLEAN
    BY DEF Init
  <2>3. executed \in Nat /\ storedEvents \in 0..MaxEvents /\ clock \in 0..MaxTime
        /\ fails \in 0..MaxFails
    BY SetupAssumption, BoundAssumption DEF Init
  <2> QED BY <2>1, <2>2, <2>3 DEF Init, TypeOK
<1>2. SendersOver /\ NoPrematureEnd BY DEF Init, SendersOver, NoPrematureEnd
<1>3. StopOutside /\ StopHasCause BY DEF Init, StopOutside, StopHasCause
<1> QED BY <1>1, <1>2, <1>3 DEF IInv

\* Every step of the program keeps the types of its state.
LEMMA NextType == TypeOK /\ [Next]_vars => TypeOK'
<1> SUFFICES ASSUME TypeOK, [Next]_vars PROVE TypeOK'
  OBVIOUS
<1> USE SetupAssumption, BoundAssumption DEF TypeOK, MaxTime, held, flags, threads, counts
<1>1. CASE LeaveLoop BY <1>1 DEF LeaveLoop
<1>2. CASE Quit BY <1>2 DEF Quit, Take
<1>3. CASE SetActiveFEM BY <1>3 DEF SetActiveFEM, Take
<1>4. CASE StartDAQ
  <2>1. stopEventBuilder' \in BOOLEAN /\ stopRun' \in BOOLEAN /\ abrt' \in BOOLEAN
    BY <1>4 DEF StartDAQ
  <2>2. executed' \in Nat /\ storedEvents' \in 0..MaxEvents /\ clock' \in 0..MaxTime
        /\ fails' \in 0..MaxFails /\ active' \in SUBSET FEM /\ setup' = setup
    BY <1>4 DEF StartDAQ, Take
  <2>3. /\ sender' \in [FEM -> {"off", "on", "left", "failed"}]
        /\ updater' \in {"none", "test", "wait", "done"}
        /\ builder' \in {"none", "run", "done"}
    BY <1>4, ThreadsType DEF StartDAQ
  <2>4. pc' \in {"terminated", "waiting"} BY <1>4 DEF StartDAQ
  <2> QED BY <2>1, <2>2, <2>3, <2>4
<1>5. CASE ReturnDAQ BY <1>5 DEF ReturnDAQ
<1>6. CASE CatchFailure BY <1>6 DEF CatchFailure
<1>7. CASE Unwind BY <1>7 DEF Unwind
<1>8. CASE StopDAQ BY <1>8 DEF StopDAQ, Take
<1>9. CASE JoinUpdater BY <1>9 DEF JoinUpdater
<1>10. CASE JoinBuilder BY <1>10 DEF JoinBuilder
<1>11. CASE Close BY <1>11 DEF Close
<1>12. CASE UpdateTest BY <1>12 DEF UpdateTest
<1>13. CASE UpdateSample BY <1>13 DEF UpdateSample
<1>14. CASE StoreEvent BY <1>14 DEF StoreEvent
<1>15. CASE EndBuilder BY <1>15 DEF EndBuilder
<1>16. CASE Signal BY <1>16 DEF Signal
<1>17. CASE Tick BY <1>17 DEF Tick
<1>18. ASSUME NEW f \in FEM, LeaveDAQ(f) PROVE TypeOK' BY <1>18 DEF LeaveDAQ
<1>19. ASSUME NEW f \in FEM, SendFails(f) PROVE TypeOK' BY <1>19 DEF SendFails
<1>20. CASE UNCHANGED vars BY <1>20 DEF vars
<1> QED BY <1>1, <1>2, <1>3, <1>4, <1>5, <1>6, <1>7, <1>8, <1>9, <1>10, <1>11, <1>12,
           <1>13, <1>14, <1>15, <1>16, <1>17, <1>18, <1>19, <1>20
        DEF Next, Main, Updater

\* The program's type invariant holds for every N and every script and limits it
\* is started with.
THEOREM TypeCorrect == Spec => []TypeOK
<1>1. Init => TypeOK BY InitIInv DEF IInv
<1> QED BY <1>1, NextType, PTL DEF Spec

\* Every step keeps the invariant.
LEMMA NextIInv == IInv /\ [Next]_vars => IInv'
<1> SUFFICES ASSUME IInv, [Next]_vars PROVE SendersOver' /\ StopOutside' /\ StopHasCause'
                                            /\ NoPrematureEnd'
  BY NextType DEF IInv
<1> USE SetupAssumption, BoundAssumption
    DEF IInv, TypeOK, SendersOver, StopOutside, StopHasCause, NoPrematureEnd,
        EnoughEvents, EnoughTime, NEvents, MaxTime, held, flags, threads, counts
<1>1. CASE LeaveLoop BY <1>1 DEF LeaveLoop
<1>2. CASE Quit BY <1>2 DEF Quit, Take
<1>3. CASE SetActiveFEM BY <1>3 DEF SetActiveFEM, Take
<1>4. CASE StartDAQ BY <1>4 DEF StartDAQ, Take, Threads
<1>5. CASE ReturnDAQ BY <1>5 DEF ReturnDAQ
<1>6. CASE CatchFailure BY <1>6 DEF CatchFailure
<1>7. CASE Unwind BY <1>7 DEF Unwind
<1>8. CASE StopDAQ BY <1>8 DEF StopDAQ, Take
<1>9. CASE JoinUpdater BY <1>9 DEF JoinUpdater
<1>10. CASE JoinBuilder BY <1>10 DEF JoinBuilder
<1>11. CASE Close BY <1>11 DEF Close
<1>12. CASE UpdateTest BY <1>12 DEF UpdateTest
<1>13. CASE UpdateSample BY <1>13 DEF UpdateSample, EventLimit, TimeLimit
<1>14. CASE StoreEvent BY <1>14 DEF StoreEvent
<1>15. CASE EndBuilder BY <1>15 DEF EndBuilder
<1>16. CASE Signal BY <1>16 DEF Signal
<1>17. CASE Tick BY <1>17 DEF Tick
<1>18. ASSUME NEW f \in FEM, LeaveDAQ(f)
       PROVE SendersOver' /\ StopOutside' /\ StopHasCause' /\ NoPrematureEnd'
  BY <1>18 DEF LeaveDAQ, Alive
<1>19. ASSUME NEW f \in FEM, SendFails(f)
       PROVE SendersOver' /\ StopOutside' /\ StopHasCause' /\ NoPrematureEnd'
  BY <1>19 DEF SendFails
<1>20. CASE UNCHANGED vars BY <1>20 DEF vars
<1> QED BY <1>1, <1>2, <1>3, <1>4, <1>5, <1>6, <1>7, <1>8, <1>9, <1>10, <1>11, <1>12,
           <1>13, <1>14, <1>15, <1>16, <1>17, <1>18, <1>19, <1>20
        DEF Next, Main, Updater

\* The strengthened invariant holds in every state the program reaches.
THEOREM Inductive == Spec => []IInv
<1> QED BY InitIInv, NextIInv, PTL DEF Spec

\* The builder of a run is told to end only when no thread of the run can ask
\* a FEM for more frames, however many FEMs there are and whatever failed.
THEOREM NoRequestAfterStopHolds == Spec => []NoRequestAfterStop
<1>1. IInv => NoRequestAfterStop
  BY DEF IInv, SendersOver, StopOutside, NoRequestAfterStop
<1> QED BY <1>1, Inductive, PTL

\* No run is ended by the limits, or by the stop flag, of an earlier one.
THEOREM NoPrematureEndHolds == Spec => []NoPrematureEnd
<1>1. IInv => NoPrematureEnd BY DEF IInv
<1> QED BY <1>1, Inductive, PTL

\* A step into startDAQ is StartDAQ with no thread left that could overlap.
LEMMA OnlyStartDAQ == ASSUME IInv, [Next]_vars, pc # "waiting", pc' = "waiting"
                      PROVE StartDAQ
<1>1. CASE UNCHANGED vars BY <1>1 DEF vars
<1>2. CASE Main
  BY <1>2 DEF Main, LeaveLoop, Quit, SetActiveFEM, ReturnDAQ, CatchFailure, Unwind,
              StopDAQ, JoinUpdater, JoinBuilder, Close
<1>3. CASE Updater BY <1>3 DEF Updater, UpdateTest, UpdateSample
<1>4. CASE StoreEvent \/ EndBuilder \/ Signal \/ Tick
  BY <1>4 DEF StoreEvent, EndBuilder, Signal, Tick
<1>5. ASSUME NEW f \in FEM, LeaveDAQ(f) \/ SendFails(f) PROVE FALSE
  BY <1>5 DEF LeaveDAQ, SendFails
<1> QED BY <1>1, <1>2, <1>3, <1>4, <1>5 DEF Next

\* The runs of a program do not overlap, whatever commands it is given.
THEOREM RunsDoNotOverlapHolds == Spec => RunsDoNotOverlap
<1>1. IInv /\ [Next]_vars =>
        [pc # "waiting" /\ pc' = "waiting" =>
           /\ updater = "none" /\ builder = "none"
           /\ \A f \in FEM : sender[f] # "on"]_vars
  <2> SUFFICES ASSUME IInv, [Next]_vars, pc # "waiting", pc' = "waiting"
               PROVE /\ updater = "none" /\ builder = "none"
                     /\ \A f \in FEM : sender[f] # "on"
    OBVIOUS
  <2>1. StartDAQ BY OnlyStartDAQ
  <2> QED BY <2>1 DEF StartDAQ, Take, Joinable, IInv, SendersOver
<1> QED BY <1>1, Inductive, PTL DEF Spec, RunsDoNotOverlap

(***************************************************************************)
(* Scripts.                                                                *)
(***************************************************************************)
\* The script has started a run and not stopped it yet.
Open == \E i \in 1..executed :
          Script[i] = "startDAQ" /\ \A k \in i + 1..executed : Script[k] # "stopDAQ"

\* Without errors of the sockets the threads of a run are left only while the
\* script is inside of the run, or stopping it.
ScriptInv == (~Interactive /\ Paired /\ fails = 0) =>
  /\ pc \notin {"terminated", "unwinding"} /\ \A f \in FEM : sender[f] # "failed"
  /\ executed <= Len(Script) /\ (pc = "closing" => executed = Len(Script))
  /\ pc = "joinBuilder" => updater = "none"
  /\ Joinable => Open \/ pc \in {"joinUpdater", "joinBuilder"}

\* A script that has to stop its run is not at its end, nor at another startDAQ.
LEMMA OpenGoesOn ==
  ASSUME Script \in Seq(Commands), executed \in Nat, Paired, Open, executed <= Len(Script)
  PROVE  executed < Len(Script) /\ Script[executed + 1] # "startDAQ"
<1>1. PICK i \in 1..executed : /\ Script[i] = "startDAQ"
                               /\ \A k \in i + 1..executed : Script[k] # "stopDAQ"
  BY DEF Open
<1>2. i \in 1..Len(Script) /\ Len(Script) \in Nat /\ i \in Nat
  OBVIOUS
<1>3. PICK j \in i + 1..Len(Script) :
        Script[j] = "stopDAQ" /\ \A k \in i + 1..j - 1 : Script[k] # "startDAQ"
  BY <1>1, <1>2 DEF Paired
<1>4. j \notin i + 1..executed
  BY <1>1, <1>3
<1>5. executed + 1 <= j /\ j <= Len(Script)
  BY <1>2, <1>3, <1>4
<1>6. CASE j = executed + 1
  BY <1>3, <1>5, <1>6
<1>7. CASE j # executed + 1
  <2>1. executed + 1 \in i + 1..j - 1
    BY <1>2, <1>3, <1>5, <1>7
  <2>. QED BY <1>3, <1>5, <2>1
<1>. QED BY <1>6, <1>7

\* A command other than stopDAQ leaves a run open.
LEMMA OpenStays ==
  ASSUME executed \in Nat, executed' = executed + 1, setup' = setup, Open,
         Script[executed + 1] # "stopDAQ"
  PROVE  Open'
<1>1. PICK i \in 1..executed : /\ Script[i] = "startDAQ"
                               /\ \A k \in i + 1..executed : Script[k] # "stopDAQ"
  BY DEF Open
<1>2. \A k \in i + 1..executed + 1 : Script[k] # "stopDAQ"
  BY <1>1
<1>3. i \in 1..executed' /\ Script' = Script
  BY <1>1 DEF Script
<1>. QED BY <1>1, <1>2, <1>3 DEF Open

\* Every step of the program keeps it.
LEMMA NextScript == IInv /\ ScriptInv /\ [Next]_vars => ScriptInv'
<1> SUFFICES ASSUME IInv, ScriptInv, [Next]_vars, (~Interactive /\ Paired /\ fails = 0)'
             PROVE  ScriptInv'
  BY DEF ScriptInv
<1>1. /\ TypeOK /\ setup \in Setups /\ fails \in Nat /\ executed \in Nat
      /\ sender \in [FEM -> {"off", "on", "left", "failed"}]
  BY BoundAssumption DEF IInv, TypeOK
<1>2. setup' = setup
  BY DEF Next, Main, Updater, LeaveLoop, Quit, SetActiveFEM, StartDAQ, ReturnDAQ,
         CatchFailure, Unwind, StopDAQ, JoinUpdater, JoinBuilder, Close, UpdateTest,
         UpdateSample, StoreEvent, EndBuilder, Signal, Tick, LeaveDAQ, SendFails, vars, held
<1>3. Script' = Script /\ ~Interactive /\ Paired /\ Script \in Seq(Commands)
  BY <1>1, <1>2, SetupAssumption DEF Script, Interactive, Paired
<1>4. fails = 0 \/ \E f \in FEM : SendFails(f)
  BY DEF Next, Main, Updater, LeaveLoop, Quit, SetActiveFEM, StartDAQ, ReturnDAQ,
         CatchFailure, Unwind, StopDAQ, JoinUpdater, JoinBuilder, Close, UpdateTest,
         UpdateSample, StoreEvent, EndBuilder, Signal, Tick, LeaveDAQ, vars
<1>5. fails = 0 /\ ~\E f \in FEM : SendFails(f)
  BY <1>1, <1>4 DEF SendFails
<1>6. /\ pc \notin {"terminated", "unwinding"} /\ \A f \in FEM : sender[f] # "failed"
      /\ executed <= Len(Script) /\ (pc = "closing" => executed = Len(Script))
      /\ (pc = "joinBuilder" => updater = "none")
      /\ Joinable => Open \/ pc \in {"joinUpdater", "joinBuilder"}
  BY <1>3, <1>5 DEF ScriptInv
<1> DEFINE Goal == ScriptInv'
<1> USE DEF held, flags, threads, counts
<1>7. ASSUME UNCHANGED executed PROVE Open' <=> Open
  BY <1>3, <1>7 DEF Open
<1>8. CASE LeaveLoop
  BY <1>3, <1>6, <1>7, <1>8 DEF LeaveLoop, ScriptInv, Joinable
<1>9. CASE Quit \/ SetActiveFEM
  <2>1. /\ executed' = executed + 1 /\ executed < Len(Script) /\ pc = "prompt"
        /\ Script[executed + 1] # "stopDAQ" /\ UNCHANGED <<pc, threads>>
    BY <1>3, <1>9 DEF Quit, SetActiveFEM, Take
  <2>2. executed' <= Len(Script)
    BY <1>1, <1>3, <2>1
  <2>3. Open => Open'
    BY <1>1, <1>2, <2>1, OpenStays
  <2>. QED BY <1>3, <1>6, <2>1, <2>2, <2>3 DEF ScriptInv, Joinable
<1>10. CASE StartDAQ
  <2>1. /\ executed' = executed + 1 /\ executed < Len(Script) /\ pc = "prompt"
        /\ Script[executed + 1] = "startDAQ"
    BY <1>3, <1>10 DEF StartDAQ, Take
  <2>2. executed' <= Len(Script)
    BY <1>1, <1>3, <2>1
  <2>3. ~Open /\ ~Joinable
    BY <1>1, <1>3, <1>6, <2>1, OpenGoesOn
  <2>4. pc' = "waiting" /\ Threads(active)
    BY <1>10, <2>3 DEF StartDAQ
  <2>5. Open'
    <3>1. executed' \in 1..executed' /\ \A k \in executed' + 1..executed' : FALSE
      BY <1>1, <2>1
    <3>. QED BY <1>3, <2>1, <3>1 DEF Open
  <2>6. \A f \in FEM : sender'[f] # "failed"
    BY <2>4 DEF Threads
  <2>. QED BY <1>3, <2>2, <2>4, <2>5, <2>6 DEF ScriptInv
<1>11. CASE ReturnDAQ \/ CatchFailure \/ Unwind
  BY <1>3, <1>6, <1>7, <1>11 DEF ReturnDAQ, CatchFailure, Unwind, ScriptInv, Joinable
<1>12. CASE StopDAQ
  <2>1. /\ executed' = executed + 1 /\ executed < Len(Script) /\ pc' = "joinUpdater"
        /\ UNCHANGED threads
    BY <1>3, <1>12 DEF StopDAQ, Take
  <2>2. executed' <= Len(Script)
    BY <1>1, <1>3, <2>1
  <2>. QED BY <1>3, <1>6, <2>1, <2>2 DEF ScriptInv
<1>13. CASE JoinUpdater \/ JoinBuilder
  BY <1>3, <1>6, <1>7, <1>13 DEF JoinUpdater, JoinBuilder, ScriptInv, Joinable
<1>14. CASE Close
  <2>1. ~Joinable
    BY <1>1, <1>3, <1>6, <1>14, OpenGoesOn DEF Close
  <2>. QED BY <1>3, <1>6, <1>14, <2>1 DEF Close, ScriptInv, Joinable
<1>15. CASE UpdateTest \/ UpdateSample \/ StoreEvent \/ EndBuilder \/ Signal \/ Tick
  BY <1>3, <1>6, <1>7, <1>15
     DEF UpdateTest, UpdateSample, StoreEvent, EndBuilder, Signal, Tick, ScriptInv, Joinable
<1>16. ASSUME NEW f \in FEM, LeaveDAQ(f) PROVE Goal
  BY <1>1, <1>3, <1>6, <1>7, <1>16 DEF LeaveDAQ, ScriptInv, Joinable
<1>17. CASE UNCHANGED vars
  BY <1>3, <1>6, <1>7, <1>17 DEF vars, ScriptInv, Joinable
<1>. QED BY <1>5, <1>8, <1>9, <1>10, <1>11, <1>12, <1>13, <1>14, <1>15, <1>16, <1>17
         DEF Next, Main, Updater

\* A script that stops the runs it starts closes the program properly, whatever
\* else it does and whenever SIGINT arrives, as long as the sockets work.
THEOREM ScriptsCloseHolds == Spec => []ScriptsClose
<1>1. Init => ScriptInv
  <2> SUFFICES ASSUME Init PROVE ScriptInv
    OBVIOUS
  <2>1. Script \in Seq(Commands)
    BY SetupAssumption DEF Init, Script
  <2>. QED BY <2>1, SetupAssumption DEF Init, ScriptInv, Joinable
<1>2. ScriptInv => ScriptsClose
  BY DEF ScriptInv, ScriptsClose
<1>. QED BY <1>1, <1>2, Inductive, NextScript, PTL DEF Spec

===============================================================================
