--------------------------- MODULE DccReadoutProofs ---------------------------
(***************************************************************************)
(* Proofs, for any number of requests, packets, triggers, runs and losses, *)
(* that the state of DccReadout keeps its types, that no reply is taken    *)
(* for the reply of another command, that a limit costs at most one more   *)
(* event, that the builder drains and mixes no two runs, and that without  *)
(* losses every event stored is all the data of one trigger.               *)
(***************************************************************************)
EXTENDS DccReadout, DataFacts, SequenceTheorems, TLAPS

(***************************************************************************)
(* Sequences.                                                              *)
(***************************************************************************)
\* A datagram of a sequence is lost: the others keep their order.
LEMMA RemoveAtProperties ==
  ASSUME NEW S, NEW s \in Seq(S), NEW i \in 1..Len(s)
  PROVE  /\ RemoveAt(s, i) \in Seq(S)
         /\ Len(RemoveAt(s, i)) = Len(s) - 1
         /\ \A k \in 1..Len(s) - 1 :
              RemoveAt(s, i)[k] = IF k < i THEN s[k] ELSE s[k + 1]
<1> DEFINE a == SubSeq(s, 1, i - 1)
           b == SubSeq(s, i + 1, Len(s))
<1>1. Len(s) \in Nat /\ i \in Nat /\ \A k \in 1..Len(s) : s[k] \in S
  BY LenProperties, ElementOfSeq
<1>2. a \in Seq(S) /\ Len(a) = i - 1 /\ \A k \in 1..i - 1 : a[k] = s[k]
  <2>1. 1 \in Int /\ i - 1 \in Int /\ \A k \in 1..i - 1 : s[k] \in S
    BY <1>1
  <2>2. /\ a \in Seq(S) /\ Len(a) = IF 1 <= i - 1 THEN (i - 1) - 1 + 1 ELSE 0
        /\ \A k \in 1..(i - 1) - 1 + 1 : a[k] = s[1 + k - 1]
    BY <2>1, SubSeqProperties
  <2>. QED BY <1>1, <2>2
<1>3. b \in Seq(S) /\ Len(b) = Len(s) - i /\ \A k \in 1..Len(s) - i : b[k] = s[i + k]
  <2>1. i + 1 \in Int /\ Len(s) \in Int /\ \A k \in i + 1..Len(s) : s[k] \in S
    BY <1>1
  <2>2. /\ b \in Seq(S)
        /\ Len(b) = IF i + 1 <= Len(s) THEN Len(s) - (i + 1) + 1 ELSE 0
        /\ \A k \in 1..Len(s) - (i + 1) + 1 : b[k] = s[(i + 1) + k - 1]
    BY <2>1, SubSeqProperties
  <2>. QED BY <1>1, <2>2
<1> HIDE DEF a, b
<1>4. /\ a \o b \in Seq(S) /\ Len(a \o b) = Len(a) + Len(b)
      /\ \A k \in 1..Len(a) + Len(b) :
           (a \o b)[k] = IF k <= Len(a) THEN a[k] ELSE b[k - Len(a)]
  BY <1>2, <1>3, ConcatProperties
<1>5. ASSUME NEW k \in 1..Len(s) - 1
      PROVE  (a \o b)[k] = IF k < i THEN s[k] ELSE s[k + 1]
  <2>1. CASE k < i
    <3>1. k \in 1..i - 1 /\ k <= Len(a) /\ k \in 1..Len(a) + Len(b)
      BY <1>1, <1>2, <1>3, <2>1
    <3>. QED BY <1>2, <1>4, <2>1, <3>1
  <2>2. CASE ~(k < i)
    <3>1. /\ k - Len(a) \in 1..Len(s) - i /\ ~(k <= Len(a))
          /\ k \in 1..Len(a) + Len(b) /\ i + (k - Len(a)) = k + 1
      BY <1>1, <1>2, <1>3, <2>2
    <3>. QED BY <1>3, <1>4, <2>2, <3>1
  <2>. QED BY <2>1, <2>2
<1>6. RemoveAt(s, i) = a \o b
  BY DEF RemoveAt, a, b
<1>7. Len(a \o b) = Len(s) - 1
  BY <1>1, <1>2, <1>3, <1>4
<1>. QED BY <1>4, <1>5, <1>6, <1>7

\* What is left of a sequence when its first element is taken.
LEMMA TakeFirst ==
  ASSUME NEW S, NEW s \in Seq(S), s # <<>>
  PROVE  /\ Len(s) \in Nat \ {0} /\ 1 \in 1..Len(s) /\ Head(s) = s[1] /\ Head(s) \in S
         /\ Tail(s) \in Seq(S) /\ Len(Tail(s)) = Len(s) - 1
         /\ \A i \in 1..Len(s) - 1 : Tail(s)[i] = s[i + 1]
         /\ Len(s) = 1 => Tail(s) = <<>>
<1>1. Len(s) \in Nat /\ Len(s) # 0
  BY LenProperties, EmptySeq
<1>2. /\ Head(s) \in S /\ Tail(s) \in Seq(S) /\ Len(Tail(s)) = Len(s) - 1
      /\ \A i \in 1..Len(Tail(s)) : Tail(s)[i] = s[i + 1]
  BY HeadTailProperties
<1>3. Len(s) = 1 => Tail(s) = <<>>
  <2>1. \A t \in Seq(S) : Len(t) = 0 => t = <<>>
    BY EmptySeq
  <2>2. ASSUME Len(s) = 1 PROVE Len(Tail(s)) = 0
    BY <1>2, <2>2
  <2>. QED BY <1>2, <2>1, <2>2, Zenon
<1>. QED BY <1>1, <1>2, <1>3

\* The event builder cuts a buffer at its first mark.
LEMMA FirstMark ==
  ASSUME NEW b \in Seq(Data), Marks(b) # {}
  PROVE  /\ Min(Marks(b)) \in 1..Len(b)
         /\ \A k \in 1..Min(Marks(b)) - 1 : b[k] # Mark
         /\ SubSeq(b, 1, Min(Marks(b)) - 1) \in Seq(Data)
         /\ \A k \in 1..Min(Marks(b)) - 1 : SubSeq(b, 1, Min(Marks(b)) - 1)[k] = b[k]
         /\ Len(SubSeq(b, 1, Min(Marks(b)) - 1)) = Min(Marks(b)) - 1
         /\ SubSeq(b, Min(Marks(b)) + 1, Len(b)) \in Seq(Data)
         /\ \A k \in 1..Len(SubSeq(b, Min(Marks(b)) + 1, Len(b))) :
              \E j \in 1..Len(b) : SubSeq(b, Min(Marks(b)) + 1, Len(b))[k] = b[j]
<1> DEFINE M == Marks(b)
           m == Min(M)
<1>1. Len(b) \in Nat /\ DOMAIN b = 1..Len(b) /\ \A k \in 1..Len(b) : b[k] \in Data
  BY LenProperties, ElementOfSeq
<1>2. M \subseteq 1..Len(b) /\ M # {} /\ M \subseteq Nat
  BY <1>1 DEF Marks
<1>2a. \A k \in 1..Len(b) : b[k] = Mark => k \in M
  BY <1>1 DEF Marks
<1> HIDE DEF M
<1>3. m \in M /\ \A y \in M : m <= y
  BY <1>2, MinOfNats
<1> HIDE DEF m
<1>4. m \in 1..Len(b) /\ m \in Nat
  BY <1>2, <1>3
<1>5. \A k \in 1..m - 1 : b[k] # Mark
  <2> SUFFICES ASSUME NEW k \in 1..m - 1, b[k] = Mark PROVE FALSE
    OBVIOUS
  <2>1. k \in 1..Len(b) /\ ~(m <= k)
    BY <1>1, <1>4
  <2>. QED BY <1>2a, <1>3, <2>1
<1>6. /\ SubSeq(b, 1, m - 1) \in Seq(Data)
      /\ Len(SubSeq(b, 1, m - 1)) = m - 1
      /\ \A k \in 1..m - 1 : SubSeq(b, 1, m - 1)[k] = b[k]
  <2>1. 1 \in Int /\ m - 1 \in Int /\ \A k \in 1..m - 1 : b[k] \in Data
    BY <1>1, <1>4
  <2>2. /\ SubSeq(b, 1, m - 1) \in Seq(Data)
        /\ Len(SubSeq(b, 1, m - 1)) = IF 1 <= m - 1 THEN (m - 1) - 1 + 1 ELSE 0
        /\ \A k \in 1..(m - 1) - 1 + 1 : SubSeq(b, 1, m - 1)[k] = b[1 + k - 1]
    BY <2>1, SubSeqProperties
  <2>. QED BY <1>4, <2>2
<1>7. /\ SubSeq(b, m + 1, Len(b)) \in Seq(Data)
      /\ \A k \in 1..Len(SubSeq(b, m + 1, Len(b))) :
           \E j \in 1..Len(b) : SubSeq(b, m + 1, Len(b))[k] = b[j]
  <2>1. m + 1 \in Int /\ Len(b) \in Int /\ \A k \in m + 1..Len(b) : b[k] \in Data
    BY <1>1, <1>4
  <2>2. /\ SubSeq(b, m + 1, Len(b)) \in Seq(Data)
        /\ Len(SubSeq(b, m + 1, Len(b))) = IF m + 1 <= Len(b) THEN Len(b) - (m + 1) + 1 ELSE 0
        /\ \A k \in 1..Len(b) - (m + 1) + 1 :
             SubSeq(b, m + 1, Len(b))[k] = b[(m + 1) + k - 1]
    BY <2>1, SubSeqProperties
  <2>3. ASSUME NEW k \in 1..Len(SubSeq(b, m + 1, Len(b)))
        PROVE  \E j \in 1..Len(b) : SubSeq(b, m + 1, Len(b))[k] = b[j]
    <3>1. k \in 1..Len(b) - (m + 1) + 1 /\ (m + 1) + k - 1 \in 1..Len(b)
      BY <1>1, <1>4, <2>2
    <3>. QED BY <2>2, <3>1
  <2>. QED BY <2>2, <2>3
<1>. QED BY <1>4, <1>5, <1>6, <1>7 DEF m, M

(***************************************************************************)
(* Types.                                                                  *)
(***************************************************************************)
\* Before each test of its loop the builder has passes left.
PassBound == bpc \in {"head", "pass", "tail"} => tC < MaxDrain

TypeInv == TypeOK /\ PassBound

\* What the DCC sends and the builder keeps is data of the model.
LEMMA DataTyped ==
  /\ Mark \in Data
  /\ \A t \in 0..MaxTriggers, c \in 0..LastCmd, p \in 1..Packets : Packet(t, c, p) \in Data
  BY SizeAssumption, BoundAssumption DEF Mark, Packet, Data, LastCmd, WaitAt

\* A reply of the model is made of a command, its kind and its data.
LEMMA ReplyTyped ==
  \A a \in Sent, k \in {"ok", "err", "data"}, d \in Data : Reply(a, k, d) \in Received
  BY DEF Reply, Received, Sent

\* The state the program starts in is well typed.
LEMMA InitType == Init => TypeInv
<1> SUFFICES ASSUME Init PROVE TypeInv
  OBVIOUS
<1>1. cmd \in 1..LastCmd
  BY SizeAssumption DEF Init, LastCmd, WaitAt
<1>2. /\ <<>> \in Seq(Sent) /\ <<>> \in Seq(Received) /\ <<>> \in Seq(Data)
      /\ <<>> \in Seq(Seq(Data))
  BY EmptySeq
<1>3. /\ pc \in Active \cup {"idle", "ran", "join", "failed"}
      /\ bpc \in {"init", "head", "pass", "tail", "done"} /\ PassBound
  BY DEF Init, Active, PassBound
<1>4. /\ abrt \in BOOLEAN /\ stopRun \in BOOLEAN /\ stopEventBuilder \in BOOLEAN
      /\ emptyBuffer \in BOOLEAN
  BY DEF Init
<1>5. /\ turn \in Nat /\ runs \in 0..MaxRuns /\ trig \in 0..MaxTriggers
      /\ lost \in 0..MaxLost /\ errs \in 0..MaxErrs /\ tC \in 0..MaxDrain
  BY SizeAssumption, BoundAssumption DEF Init
<1>. QED BY <1>1, <1>2, <1>3, <1>4, <1>5 DEF Init, TypeInv, TypeOK

\* A command that returns is followed by one of the turn, the mark or the end.
LEMMA ReturnTyped ==
  ASSUME TypeOK, NEW retry \in BOOLEAN, Return(retry)
  PROVE  pc' \in {"ran", "mark", "send"} /\ cmd' \in 1..LastCmd /\ turn' = turn
<1>1. pc' \in {"ran", "mark", "send"} /\ turn' = turn
  BY DEF Return
<1>2. cmd' \in 1..LastCmd
  <2>1. LastCmd \in Nat /\ cmd \in 1..LastCmd
    BY SizeAssumption DEF TypeOK, LastCmd, WaitAt
  <2>2. cmd' = cmd \/ (cmd # LastCmd /\ cmd' = cmd + 1)
    BY DEF Return
  <2>. QED BY <2>1, <2>2
<1>. QED BY <1>1, <1>2

\* Every step of the program, the DCC and the network keeps the types.
LEMMA NextType == TypeInv /\ [Next]_vars => TypeInv'
<1> SUFFICES ASSUME TypeInv, [Next]_vars PROVE TypeInv'
  OBVIOUS
<1> USE SizeAssumption, BoundAssumption
<1> USE DEF TypeInv, TypeOK, PassBound, Active
<1>0. LastCmd \in Nat /\ WaitAt \in Nat /\ 1 \in 1..LastCmd
  BY DEF LastCmd, WaitAt
<1>1. CASE StartDAQ
  <2>1. /\ pc' = "clear" /\ runs' = runs + 1 /\ runs < MaxRuns /\ stopRun' = FALSE
        /\ stopEventBuilder' = FALSE /\ bpc' = "init"
        /\ UNCHANGED <<cmd, turn, abrt, dccVars, tmpBuffer, buffer, emptyBuffer, tC>>
        /\ saved' = <<>>
    BY <1>1 DEF StartDAQ
  <2>1a. <<>> \in Seq(Seq(Data))
    BY EmptySeq
  <2>2. stopRun' \in BOOLEAN /\ stopEventBuilder' \in BOOLEAN /\ abrt' \in BOOLEAN
    BY <2>1
  <2>3. runs' \in 0..MaxRuns
    BY <2>1
  <2>. QED BY <2>1, <2>1a, <2>2, <2>3 DEF dccVars
<1>2. CASE ClearBuffer
  <2>1. <<>> \in Seq(Data)
    BY EmptySeq
  <2>. QED BY <1>2, <2>1 DEF ClearBuffer, flags, dccVars, loopVars, runVars
<1>3. CASE TestStop
  BY <1>0, <1>3 DEF TestStop, flags, dccVars, loopVars, runVars
<1>4. CASE Send
  <2>1. [turn |-> turn, cmd |-> cmd] \in Sent
    BY DEF Sent
  <2>2. Append(asked, [turn |-> turn, cmd |-> cmd]) \in Seq(Sent)
    BY <2>1, AppendProperties
  <2>3. asked' \in Seq(Sent)
    BY <1>4, <2>2 DEF Send
  <2>4. lost' \in 0..MaxLost
    BY <1>4 DEF Send
  <2>. QED BY <1>4, <2>3, <2>4 DEF Send, flags, loopVars, runVars
<1>5. CASE Fails
  BY <1>5 DEF Fails, flags, dccVars, loopVars, runVars
<1>6. CASE RecvAborted
  <2>1. replies' \in Seq(Received)
    BY <1>6, HeadTailProperties DEF RecvAborted
  <2>2. pc' \in {"ran", "mark", "send"} /\ cmd' \in 1..LastCmd /\ turn' = turn
    BY <1>6, ReturnTyped DEF RecvAborted
  <2>. QED BY <1>6, <2>1, <2>2 DEF RecvAborted, flags, loopVars
<1>7. CASE RecvStatus
  <2>1. replies' \in Seq(Received)
    BY <1>7, HeadTailProperties DEF RecvStatus
  <2>2. pc' \in {"ran", "mark", "send"} /\ cmd' \in 1..LastCmd /\ turn' = turn
    BY <1>7, ReturnTyped DEF RecvStatus
  <2>. QED BY <1>7, <2>1, <2>2 DEF RecvStatus, flags, loopVars
<1>8. CASE RecvData
  <2>1. Head(replies) \in Received /\ Tail(replies) \in Seq(Received)
    BY <1>8, HeadTailProperties DEF RecvData
  <2>2. Head(replies).data \in Data
    BY <2>1 DEF Received
  <2>3. tmpBuffer' \in Seq(Data)
    BY <1>8, <2>2, AppendProperties DEF RecvData
  <2>4. pc' \in {"ran", "mark", "send", "recv"} /\ cmd' \in 1..LastCmd /\ turn' = turn
    BY <1>8, ReturnTyped DEF RecvData, mainVars
  <2>. QED BY <1>8, <2>1, <2>3, <2>4 DEF RecvData, flags, loopVars
<1>9. CASE MarkEvent
  <2>1. tmpBuffer' \in Seq(Data)
    BY <1>9, DataTyped, AppendProperties DEF MarkEvent
  <2>. QED BY <1>9, <2>1 DEF MarkEvent, flags, dccVars, loopVars, runVars
<1>10. CASE StopDAQ
  BY <1>10 DEF StopDAQ, dccVars, loopVars, runVars
<1>11. CASE JoinBuilder
  BY <1>11 DEF JoinBuilder, flags, dccVars, loopVars, runVars
<1>12. CASE StopRun
  BY <1>12 DEF StopRun, mainVars, dccVars, loopVars, runVars
<1>13. CASE Signal
  BY <1>13 DEF Signal, mainVars, dccVars, loopVars, runVars
<1>14. CASE InitBuilder
  <2>1. <<>> \in Seq(Data)
    BY EmptySeq
  <2>. QED BY <1>14, <2>1 DEF InitBuilder, mainVars, flags, dccVars, runVars
<1>15. CASE TestLoop
  BY <1>15 DEF TestLoop, mainVars, flags, dccVars, runVars
<1>16. CASE BuildEvent
  <2> DEFINE b == buffer \o tmpBuffer
  <2>1. b \in Seq(Data) /\ <<>> \in Seq(Data)
    BY ConcatProperties, EmptySeq
  <2> HIDE DEF b
  <2>2. Marks(b) # {} => SubSeq(b, Min(Marks(b)) + 1, Len(b)) \in Seq(Data)
    BY <2>1, FirstMark
  <2>3. buffer' \in Seq(Data)
    BY <1>16, <2>1, <2>2 DEF BuildEvent, b
  <2>4. saved' \in Seq(Seq(Data))
    <3> DEFINE event == SubSeq(b, 1, Min(Marks(b)) - 1)
    <3>1. Marks(b) # {} => event \in Seq(Data)
      BY <2>1, FirstMark
    <3> HIDE DEF event
    <3>2. event \in Seq(Data) => Append(saved, event) \in Seq(Seq(Data))
      BY AppendProperties
    <3>3. saved' = saved \/ (Marks(b) # {} /\ saved' = Append(saved, event))
      BY <1>16 DEF BuildEvent, b, event
    <3>. QED BY <3>1, <3>2, <3>3
  <2>. QED BY <1>16, <2>1, <2>3, <2>4 DEF BuildEvent, mainVars, flags, dccVars, runVars
<1>17. CASE CountPass
  BY <1>17 DEF CountPass, mainVars, flags, dccVars, runVars
<1>18. ASSUME NEW a \in Sent, NEW k \in {"ok", "err"}, a = Head(asked), asked # <<>>,
              Answers(<<Reply(a, k, Mark)>>), trig' \in 0..MaxTriggers,
              lost' = lost, errs' \in 0..MaxErrs
       PROVE  TypeInv'
  <2>1. <<Reply(a, k, Mark)>> \in Seq(Received)
    BY <1>18, DataTyped, ReplyTyped
  <2>2. replies' \in Seq(Received) /\ asked' \in Seq(Sent)
    BY <1>18, <2>1, ConcatProperties, HeadTailProperties DEF Answers
  <2>. QED BY <1>18, <2>2 DEF Answers, mainVars, flags, loopVars, runVars
<1>19. asked # <<>> => Head(asked) \in Sent
  BY HeadTailProperties
<1>20. CASE AnswerStart
  BY <1>18, <1>19, <1>20 DEF AnswerStart
<1>21. CASE AnswerWait
  BY <1>18, <1>19, <1>21 DEF AnswerWait
<1>22. CASE AnswerData
  <2>1. Head(asked) \in Sent /\ Head(asked).cmd \in 1..LastCmd
    BY <1>19, <1>22 DEF AnswerData, Sent
  <2>2. CASE errs < MaxErrs /\ errs' = errs + 1 /\ Answers(<<Reply(Head(asked), "err", Mark)>>)
    <3>1. asked # <<>> /\ lost' = lost /\ trig' \in 0..MaxTriggers /\ errs' \in 0..MaxErrs
      BY <1>22, <2>2 DEF AnswerData
    <3> HIDE DEF TypeInv
    <3>. QED BY <1>18, <2>1, <2>2, <3>1
  <2>3. CASE /\ Answers([p \in 1..Packets |->
                            Reply(Head(asked), "data", Packet(trig, Head(asked).cmd, p))])
             /\ UNCHANGED errs
    <3> DEFINE s == [p \in 1..Packets |->
                      Reply(Head(asked), "data", Packet(trig, Head(asked).cmd, p))]
    <3>1. \A p \in 1..Packets : s[p] \in Received
      BY <1>0, <2>1, DataTyped, ReplyTyped
    <3>2. s \in Seq(Received)
      <4> HIDE DEF TypeInv, TypeOK
      <4>. QED BY <3>1, IsASeq
    <3> HIDE DEF s
    <3>3. replies' \in Seq(Received) /\ asked' \in Seq(Sent)
      BY <1>22, <2>3, <3>2, ConcatProperties, HeadTailProperties DEF Answers, AnswerData, s
    <3>. QED BY <1>22, <2>3, <3>3 DEF AnswerData, Answers, mainVars, flags, loopVars, runVars
  <2>. QED BY <1>22, <2>2, <2>3 DEF AnswerData
<1>23. CASE LoseReply
  <2>1. PICK i \in DOMAIN replies : replies' = RemoveAt(replies, i)
    BY <1>23 DEF LoseReply
  <2>2. i \in 1..Len(replies)
    BY <2>1, LenProperties
  <2>3. replies' \in Seq(Received)
    BY <2>1, <2>2, RemoveAtProperties
  <2>. QED BY <1>23, <2>3 DEF LoseReply, mainVars, flags, loopVars, runVars
<1>24. CASE UNCHANGED vars
  BY <1>24 DEF vars, mainVars, flags, dccVars, loopVars, runVars
<1>. QED
  BY <1>1, <1>2, <1>3, <1>4, <1>5, <1>6, <1>7, <1>8, <1>9, <1>10, <1>11, <1>12, <1>13,
     <1>14, <1>15, <1>16, <1>17, <1>20, <1>21, <1>22, <1>23, <1>24
  DEF Next, Loop, Builder

\* Every variable keeps its type; the builder never counts more passes than
\* its limit.
THEOREM TypeCorrect == Spec => []TypeOK
<1>1. TypeInv => TypeOK  BY DEF TypeInv
<1>. QED BY <1>1, InitType, NextType, PTL DEF Spec

(***************************************************************************)
(* The inductive invariant.                                                *)
(***************************************************************************)
\* Until an abort there is at most one command out.  What answers it belongs
\* to it, and only packets that do not end its request come before the last.
Exchange == (~abrt /\ pc # "failed") =>
  /\ pc # "recv" => asked = <<>> /\ replies = <<>>
  /\ asked # <<>> => replies = <<>> /\ asked = <<[turn |-> turn, cmd |-> cmd]>>
  /\ \A i \in 1..Len(replies) :
       /\ replies[i].turn = turn /\ replies[i].cmd = cmd
       /\ i < Len(replies) => /\ cmd > WaitAt /\ replies[i].kind = "data"
                              /\ ~EndOfRequest(replies[i].data)

\* A trigger taken after the stop: no other wait comes before the next test.
StopInv == /\ after \in {0, 1}
           /\ after = 1 => /\ stopRun /\ pc # "clear"
                           /\ pc \in {"send", "recv"} => cmd > WaitAt

\* Once startDAQ returned nothing is added to tmpBuffer.
DrainInv == /\ calm => pc \notin Active /\ bpc # "init"
            /\ (calm /\ emptyBuffer /\ bpc \in {"head", "tail"}) =>
                 tmpBuffer = <<>> /\ buffer = <<>>
            /\ DrainsData

\* Data are newer than the start of the run.
New(d) == d = Mark \/ d.ev > base

\* Data are asked for after a trigger of the run.
AskInv == /\ base \in Nat /\ base <= trig
          /\ (~abrt /\ pc # "failed") =>
               /\ (pc \in {"send", "recv"} /\ cmd > WaitAt) => trig > base
               /\ \A i \in 1..Len(replies) :
                    /\ (cmd = WaitAt /\ replies[i].kind # "err") => trig > base
                    /\ replies[i].kind = "data" => replies[i].data.ev > base

\* A run that started quietly keeps and stores only new data.
PureInv == quiet =>
  /\ \A i \in 1..Len(tmpBuffer) : New(tmpBuffer[i])
  /\ bpc # "init" => \A i \in 1..Len(buffer) : New(buffer[i])
  /\ QuietRunsPure

IInv == TypeInv /\ Exchange /\ StopInv /\ DrainInv /\ AskInv /\ PureInv

\* The invariant holds before the first run.
LEMMA InitIInv == Init => IInv
<1> SUFFICES ASSUME Init PROVE IInv
  OBVIOUS
<1>1. Len(<<>>) = 0
  BY EmptySeq
<1>2. Exchange /\ StopInv
  BY <1>1 DEF Init, Exchange, StopInv
<1>3. DrainInv
  BY DEF Init, DrainInv, DrainsData
<1>4. AskInv
  BY <1>1 DEF Init, AskInv
<1>5. PureInv
  BY <1>1 DEF Init, PureInv, QuietRunsPure
<1>. QED BY <1>2, <1>3, <1>4, <1>5, InitType DEF IInv

\* Every step keeps at most one command out, and its answer apart.
LEMMA NextExchange == IInv /\ [Next]_vars => Exchange'
<1> SUFFICES ASSUME IInv, [Next]_vars PROVE Exchange'
  OBVIOUS
<1> USE SizeAssumption
<1> USE DEF Exchange
<1>0. /\ Exchange /\ asked \in Seq(Sent) /\ replies \in Seq(Received)
      /\ LastCmd \in Nat /\ WaitAt \in Nat /\ cmd \in 1..LastCmd
      /\ Len(replies) \in Nat /\ (replies = <<>> => Len(replies) = 0)
  <2>1. LastCmd \in Nat /\ WaitAt \in Nat
    BY DEF LastCmd, WaitAt
  <2>2. Exchange /\ asked \in Seq(Sent) /\ replies \in Seq(Received) /\ cmd \in 1..LastCmd
    BY DEF IInv, TypeInv, TypeOK
  <2>3. Len(replies) \in Nat
    BY <2>2, LenProperties
  <2>. QED BY <2>1, <2>2, <2>3
<1>1. CASE StartDAQ
  BY <1>0, <1>1 DEF StartDAQ, dccVars
<1>2. CASE ClearBuffer
  BY <1>0, <1>2 DEF ClearBuffer, flags, dccVars
<1>3. CASE TestStop
  BY <1>0, <1>3 DEF TestStop, flags, dccVars
<1>4. CASE Send
  <2>1. CASE ~abrt
    <3>1. asked = <<>> /\ replies = <<>>
      BY <1>0, <1>4, <2>1 DEF Send
    <3>2. asked' = <<[turn |-> turn, cmd |-> cmd]>> \/ asked' = <<>>
      BY <1>4, <3>1 DEF Send
    <3>. QED BY <1>0, <1>4, <3>1, <3>2 DEF Send, flags
  <2>. QED BY <1>4, <2>1 DEF Send, flags
<1>5. CASE Fails
  BY <1>5 DEF Fails
<1>6. CASE RecvAborted
  BY <1>6 DEF RecvAborted, flags
<1>7. CASE RecvStatus
  <2>1. pc' # "recv" /\ asked' = asked /\ pc = "recv" /\ ~abrt /\ replies # <<>>
    BY <1>7 DEF RecvStatus, Return
  <2>2. asked = <<>>
    BY <1>0, <2>1
  <2>3. Len(replies) = 1
    <3>1. /\ Len(replies) \in Nat \ {0} /\ 1 \in 1..Len(replies)
          /\ Head(replies) = replies[1]
      BY <1>0, <2>1, TakeFirst
    <3>2. cmd <= WaitAt \/ replies[1].kind = "err"
      BY <1>7, <3>1 DEF RecvStatus
    <3>3. 1 < Len(replies) => cmd > WaitAt /\ replies[1].kind = "data"
      BY <1>0, <2>1, <3>1
    <3>4. ~(1 < Len(replies))
      BY <1>0, <3>2, <3>3
    <3>. QED
      <4> HIDE DEF Exchange
      <4>. QED BY <3>1, <3>4
  <2>4. replies' = <<>>
    BY <1>0, <1>7, <2>1, <2>3, TakeFirst DEF RecvStatus
  <2>. QED BY <2>1, <2>2, <2>4, EmptySeq
<1>8. CASE RecvData
  <2>1. /\ pc = "recv" /\ ~abrt /\ cmd > WaitAt /\ replies # <<>> /\ replies' = Tail(replies)
        /\ asked' = asked /\ asked = <<>>
    BY <1>0, <1>8 DEF RecvData
  <2>2. CASE EndOfRequest(Head(replies).data)
    <3>1. Len(replies) = 1
      <4>1. /\ Len(replies) \in Nat \ {0} /\ 1 \in 1..Len(replies) /\ Head(replies) = replies[1]
        BY <1>0, <2>1, TakeFirst
      <4>2. 1 < Len(replies) => ~EndOfRequest(replies[1].data)
        BY <1>0, <2>1, <4>1
      <4>3. ~(1 < Len(replies))
        BY <2>2, <4>1, <4>2
      <4>. QED BY <4>1, <4>3
    <3>2. replies' = <<>> /\ pc' # "recv"
      BY <1>0, <1>8, <2>1, <2>2, <3>1, TakeFirst DEF RecvData, Return
    <3>3. Len(replies') = 0
      BY <3>2
    <3>. QED BY <2>1, <3>2, <3>3
  <2>3. CASE ~EndOfRequest(Head(replies).data)
    <3>1. pc' = "recv" /\ cmd' = cmd /\ turn' = turn
      BY <1>8, <2>1, <2>3 DEF RecvData, mainVars
    <3>2. Len(replies') = Len(replies) - 1 /\ \A i \in 1..Len(replies) - 1 : replies'[i] = replies[i + 1]
      BY <1>0, <2>1, TakeFirst
    <3>3. \A i \in 1..Len(replies) - 1 : i + 1 \in 1..Len(replies)
      BY <1>0
    <3>. QED BY <1>0, <2>1, <3>1, <3>2, <3>3 DEF EndOfRequest
  <2>. QED BY <2>2, <2>3
<1>9. CASE MarkEvent
  BY <1>0, <1>9 DEF MarkEvent, flags, dccVars
<1>10. CASE StopDAQ
  BY <1>0, <1>10 DEF StopDAQ, dccVars
<1>11. CASE JoinBuilder
  BY <1>0, <1>11 DEF JoinBuilder, flags, dccVars
<1>12. CASE StopRun \/ Signal
  BY <1>0, <1>12 DEF StopRun, Signal, mainVars, dccVars
<1>13. CASE Builder
  BY <1>0, <1>13
  DEF Builder, InitBuilder, TestLoop, BuildEvent, CountPass, mainVars, flags, dccVars
<1>14. CASE AnswerStart \/ AnswerWait \/ AnswerData
  <2> SUFFICES ASSUME ~abrt, pc # "failed" PROVE Exchange'
    BY <1>14 DEF AnswerStart, AnswerWait, AnswerData, Answers, mainVars, flags
  <2>1. /\ asked # <<>> /\ pc = "recv" /\ replies = <<>>
        /\ asked = <<[turn |-> turn, cmd |-> cmd]>>
    BY <1>0, <1>14 DEF AnswerStart, AnswerWait, AnswerData
  <2>2. Head(asked) = [turn |-> turn, cmd |-> cmd] /\ Tail(asked) = <<>>
    BY <2>1
  <2>3. ASSUME NEW k, NEW d, Answers(<<Reply(Head(asked), k, d)>>) PROVE Exchange'
    <3>1. replies' = <<Reply(Head(asked), k, d)>> /\ asked' = <<>>
      BY <2>1, <2>2, <2>3 DEF Answers
    <3>2. Len(replies') = 1 /\ replies'[1].turn = turn /\ replies'[1].cmd = cmd
      BY <2>2, <3>1 DEF Reply
    <3>. QED BY <2>1, <2>3, <3>1, <3>2 DEF Answers, mainVars
  <2>4. ASSUME Answers([p \in 1..Packets |->
                          Reply(Head(asked), "data", Packet(trig, Head(asked).cmd, p))]),
               cmd > WaitAt
        PROVE  Exchange'
    <3> DEFINE s == [p \in 1..Packets |->
                      Reply(Head(asked), "data", Packet(trig, Head(asked).cmd, p))]
    <3>1. s \in Seq({s[p] : p \in 1..Packets}) /\ Len(s) = Packets
      BY IsASeq, LenProperties
    <3>2. replies' = s /\ asked' = <<>>
      BY <2>1, <2>2, <2>4, <3>1 DEF Answers
    <3>3. \A p \in 1..Packets : /\ s[p].turn = turn /\ s[p].cmd = cmd /\ s[p].kind = "data"
                               /\ s[p].data.part = p
      BY <2>2 DEF Reply, Packet
    <3> HIDE DEF s
    <3>4. \A p \in 1..Packets : p < Packets => ~EndOfRequest(s[p].data)
      BY <3>3 DEF EndOfRequest
    <3>5. /\ pc' = pc /\ cmd' = cmd /\ turn' = turn
      BY <2>4 DEF Answers, mainVars
    <3>. QED BY <2>1, <2>4, <3>1, <3>2, <3>3, <3>4, <3>5 DEF EndOfRequest, WaitAt
  <2>. QED BY <1>14, <2>2, <2>3, <2>4 DEF AnswerStart, AnswerWait, AnswerData
<1>15. CASE LoseReply
  <2>1. PICK i \in 1..Len(replies) : replies' = RemoveAt(replies, i)
    BY <1>0, <1>15, LenProperties DEF LoseReply
  <2>2. /\ Len(replies') = Len(replies) - 1
        /\ \A k \in 1..Len(replies) - 1 :
              replies'[k] = IF k < i THEN replies[k] ELSE replies[k + 1]
    BY <1>0, <2>1, RemoveAtProperties
  <2>3. /\ UNCHANGED <<pc, cmd, turn, abrt, asked>>
    BY <1>15 DEF LoseReply, mainVars, flags
  <2>4. replies # <<>>
    BY <1>0, <2>1
  <2>5. \A k \in 1..Len(replies) - 1 : k \in 1..Len(replies) /\ k + 1 \in 1..Len(replies)
                                      /\ k < Len(replies)
    BY <1>0
  <2> SUFFICES ASSUME ~abrt, pc # "failed" PROVE Exchange'
    BY <2>3
  <2>6. pc = "recv" /\ asked = <<>>
    BY <1>0, <2>4
  <2>7. ASSUME NEW k \in 1..Len(replies')
        PROVE  /\ replies'[k].turn = turn' /\ replies'[k].cmd = cmd'
               /\ k < Len(replies') => /\ cmd' > WaitAt /\ replies'[k].kind = "data"
                                       /\ ~EndOfRequest(replies'[k].data)
    <3>1. k \in 1..Len(replies) - 1
      BY <2>2
    <3>2. PICK j \in {k, k + 1} : replies'[k] = replies[j]
      BY <2>2, <3>1
    <3>3. j \in 1..Len(replies) /\ (k < Len(replies') => j < Len(replies))
      BY <1>0, <2>2, <3>1, <3>2
    <3>. QED BY <1>0, <2>3, <3>2, <3>3
  <2>. QED BY <2>3, <2>6, <2>7 DEF EndOfRequest
<1>16. CASE UNCHANGED vars
  BY <1>0, <1>16 DEF vars, mainVars, flags, dccVars
<1>. QED
  BY <1>1, <1>2, <1>3, <1>4, <1>5, <1>6, <1>7, <1>8, <1>9, <1>10, <1>11, <1>12, <1>13,
     <1>14, <1>15, <1>16 DEF Next, Loop

\* A stop costs one trigger at most.
LEMMA NextStop == IInv /\ [Next]_vars => StopInv'
<1> SUFFICES ASSUME IInv, [Next]_vars PROVE StopInv'
  OBVIOUS
<1> USE SizeAssumption
<1> USE DEF StopInv
<1>0. /\ StopInv /\ WaitAt \in Nat /\ LastCmd \in Nat /\ WaitAt < LastCmd /\ cmd \in Nat
  BY DEF IInv, TypeInv, TypeOK, WaitAt, LastCmd
<1>1. CASE StartDAQ
  BY <1>1 DEF StartDAQ
<1>2. CASE TestStop
  BY <1>0, <1>2 DEF TestStop, Stopped, flags, runVars
<1>3. CASE ClearBuffer \/ Send \/ Fails \/ MarkEvent
  BY <1>0, <1>3 DEF ClearBuffer, Send, Fails, MarkEvent, flags, runVars
<1>4. ASSUME NEW retry \in BOOLEAN, pc = "recv", Return(retry), UNCHANGED flags
      PROVE  StopInv'
  <2>1. CASE cmd = WaitAt
    BY <1>0, <1>4, <2>1 DEF Return, flags
  <2>2. CASE cmd # WaitAt
    <3>1. after' = after /\ stopRun' = stopRun /\ pc' \in {"send", "mark"}
      BY <1>4, <2>2 DEF Return, flags
    <3>2. pc' = "send" => cmd' = cmd + 1
      BY <1>4, <2>2 DEF Return
    <3>. QED BY <1>0, <1>4, <3>1, <3>2
  <2>. QED BY <2>1, <2>2
<1>5. CASE RecvAborted
  BY <1>4, <1>5 DEF RecvAborted
<1>6. CASE RecvStatus
  BY <1>4, <1>6 DEF RecvStatus
<1>7. CASE RecvData
  <2>1. CASE UNCHANGED <<mainVars, after>>
    BY <1>0, <1>7, <2>1 DEF RecvData, mainVars, flags
  <2>2. CASE Return(FALSE)
    BY <1>4, <1>7, <2>2 DEF RecvData
  <2>. QED BY <1>7, <2>1, <2>2 DEF RecvData
<1>8. CASE StopDAQ \/ JoinBuilder \/ StopRun \/ Signal
  BY <1>0, <1>8 DEF StopDAQ, JoinBuilder, StopRun, Signal, mainVars, flags, runVars
<1>9. CASE Builder
  BY <1>0, <1>9
  DEF Builder, InitBuilder, TestLoop, BuildEvent, CountPass, mainVars, flags, runVars
<1>10. CASE AnswerStart \/ AnswerWait \/ AnswerData \/ LoseReply
  <2>1. UNCHANGED <<mainVars, flags, runVars>>
    BY <1>10 DEF AnswerStart, AnswerWait, AnswerData, LoseReply, Answers
  <2>. QED BY <1>0, <2>1 DEF mainVars, flags, runVars
<1>11. CASE UNCHANGED vars
  BY <1>0, <1>11 DEF vars, mainVars, flags, runVars
<1>. QED
  BY <1>1, <1>2, <1>3, <1>5, <1>6, <1>7, <1>8, <1>9, <1>10, <1>11 DEF Next, Loop

\* The last pass of the builder takes what was left.
LEMMA NextDrain == IInv /\ [Next]_vars => DrainInv'
<1> SUFFICES ASSUME IInv, [Next]_vars PROVE DrainInv'
  OBVIOUS
<1> USE DEF DrainInv, DrainsData
<1>0. DrainInv /\ tC \in Nat /\ MaxDrain \in Nat
  BY SizeAssumption DEF IInv, TypeInv, TypeOK
<1>0a. calm => pc \notin Active /\ bpc # "init"
  BY <1>0
<1>1. CASE StartDAQ
  BY <1>0, <1>1 DEF StartDAQ
<1>2. CASE ClearBuffer \/ TestStop \/ Send \/ Fails \/ MarkEvent
  <2>0. pc \in Active
    BY <1>2 DEF ClearBuffer, TestStop, Send, Fails, MarkEvent, Active
  <2>1. ~calm
    BY <1>0a, <2>0, Zenon
  <2>2. calm' = calm
    BY <1>2 DEF ClearBuffer, TestStop, Send, Fails, MarkEvent, loopVars
  <2>. QED BY <2>1, <2>2
<1>3. CASE RecvAborted \/ RecvStatus \/ RecvData
  <2>0. pc \in Active
    BY <1>3 DEF RecvAborted, RecvStatus, RecvData, Active
  <2>1. ~calm
    BY <1>0a, <2>0, Zenon
  <2>2. calm' = calm
    BY <1>3 DEF RecvAborted, RecvStatus, RecvData, loopVars
  <2>. QED BY <2>1, <2>2
<1>4. CASE StopDAQ \/ JoinBuilder \/ StopRun \/ Signal
  <2>1. /\ pc' = pc \/ pc' \in {"join", "idle"}
        /\ UNCHANGED <<tmpBuffer, loopVars>>
    BY <1>4 DEF StopDAQ, JoinBuilder, StopRun, Signal, mainVars
  <2>. QED BY <1>0, <2>1 DEF Active, loopVars
<1>5. CASE InitBuilder
  <2>1. bpc = "init" /\ bpc' = "head" /\ calm' = calm /\ pc' = pc /\ buffer' = <<>>
        /\ tmpBuffer' = tmpBuffer
    BY <1>5 DEF InitBuilder, mainVars
  <2>1a. bpc = "init"
    BY <2>1
  <2>2. ~calm
    BY <1>0a, <2>1a, Zenon
  <2>3. ~calm'
    BY <2>1, <2>2, Zenon
  <2>. QED BY <2>1, <2>3
<1>6. CASE TestLoop
  <2>1. pc' = pc /\ UNCHANGED <<tmpBuffer, buffer, emptyBuffer, tC>> /\ bpc = "head"
    BY <1>6 DEF TestLoop, mainVars
  <2>2. CASE Finished /\ bpc' = "done" /\ UNCHANGED calm
    BY <1>0, <2>1, <2>2 DEF Finished
  <2>3. CASE bpc' = "pass" /\ calm' = (pc \notin Active)
    BY <2>1, <2>3
  <2>. QED BY <1>6, <2>2, <2>3 DEF TestLoop
<1>7. CASE BuildEvent
  <2>1. /\ pc' = pc /\ calm' = calm /\ bpc' = "tail" /\ tmpBuffer' = <<>>
        /\ emptyBuffer' = (buffer \o tmpBuffer = <<>>)
    BY <1>7 DEF BuildEvent, mainVars
  <2>2. ASSUME buffer \o tmpBuffer = <<>> PROVE buffer' = <<>>
    <3>1. Marks(<<>>) = {}
      BY DEF Marks
    <3>. QED BY <1>7, <2>2, <3>1 DEF BuildEvent
  <2>. QED BY <1>0, <2>1, <2>2
<1>8. CASE CountPass
  <2>1. /\ pc' = pc /\ calm' = calm /\ bpc = "tail"
        /\ UNCHANGED <<tmpBuffer, buffer, emptyBuffer>>
    BY <1>8 DEF CountPass, mainVars
  <2>2. bpc' = "head" \/ (bpc' = "done" /\ ~(tC' < MaxDrain))
    BY <1>0, <1>8 DEF CountPass
  <2>. QED BY <1>0, <2>1, <2>2
<1>9. CASE AnswerStart \/ AnswerWait \/ AnswerData \/ LoseReply
  <2>1. UNCHANGED <<mainVars, tmpBuffer, loopVars>>
    BY <1>9 DEF AnswerStart, AnswerWait, AnswerData, LoseReply, Answers
  <2>. QED BY <1>0, <2>1 DEF mainVars, loopVars
<1>10. CASE UNCHANGED vars
  BY <1>0, <1>10 DEF vars, mainVars, loopVars
<1>. QED
  BY <1>1, <1>2, <1>3, <1>4, <1>5, <1>6, <1>7, <1>8, <1>9, <1>10 DEF Next, Loop, Builder

\* No request of a run goes out before one of its triggers came.
LEMMA NextAsk == IInv /\ [Next]_vars => AskInv'
<1> SUFFICES ASSUME IInv, [Next]_vars PROVE AskInv'
  OBVIOUS
<1> USE SizeAssumption
<1> USE DEF AskInv
<1>0. /\ AskInv /\ asked \in Seq(Sent) /\ replies \in Seq(Received) /\ trig \in Nat
      /\ LastCmd \in Nat /\ WaitAt \in Nat /\ 1 < WaitAt /\ WaitAt < LastCmd /\ cmd \in Nat
      /\ Len(replies) \in Nat
  <2>1. LastCmd \in Nat /\ WaitAt \in Nat /\ 1 < WaitAt /\ WaitAt < LastCmd
    BY DEF LastCmd, WaitAt
  <2>2. /\ AskInv /\ asked \in Seq(Sent) /\ replies \in Seq(Received) /\ cmd \in Nat
        /\ trig \in Nat
    BY <2>1, BoundAssumption DEF IInv, TypeInv, TypeOK
  <2>. QED BY <2>1, <2>2, LenProperties
<1>00. Exchange
  BY DEF IInv
<1>1. CASE StartDAQ
  <2>1. /\ base' = trig /\ trig' = trig /\ pc' = "clear" /\ replies' = replies /\ abrt' = abrt
        /\ pc = "idle"
    BY <1>1 DEF StartDAQ, dccVars
  <2>2. ~abrt => Len(replies) = 0
    BY <1>00, <2>1, EmptySeq DEF Exchange
  <2>. QED BY <1>0, <2>1, <2>2
<1>2. CASE ClearBuffer \/ Send \/ Fails \/ MarkEvent
  <2>1. /\ UNCHANGED <<cmd, replies, trig, base, abrt>>
        /\ pc = "send" => pc' \in {"recv", "failed"}
        /\ pc # "send" => pc' \in {"test", "failed"}
    BY <1>2 DEF ClearBuffer, Send, Fails, MarkEvent, flags, dccVars, runVars
  <2>2. pc = "failed" => pc' = "failed"
    BY <1>2 DEF ClearBuffer, Send, Fails, MarkEvent
  <2>. QED BY <1>0, <2>1, <2>2
<1>3. CASE TestStop
  <2>1. /\ UNCHANGED <<replies, trig, base, abrt>> /\ pc = "test"
        /\ cmd' = 1 \/ (pc' = "ran" /\ cmd' = cmd)
    BY <1>3 DEF TestStop, flags, dccVars, runVars
  <2>2. ~abrt => Len(replies) = 0
    BY <1>00, <2>1, EmptySeq DEF Exchange
  <2>. QED BY <1>0, <2>1, <2>2
<1>4. CASE RecvAborted
  BY <1>0, <1>4 DEF RecvAborted, flags
<1>5. CASE RecvStatus
  <2> SUFFICES ASSUME ~abrt PROVE AskInv'
    BY <1>0, <1>5 DEF RecvStatus, flags
  <2>1. /\ pc = "recv" /\ replies # <<>> /\ UNCHANGED <<trig, base, abrt>>
        /\ Return(cmd = WaitAt /\ Head(replies).kind = "err")
    BY <1>5 DEF RecvStatus, flags
  <2>2. /\ Head(replies) = replies[1] /\ 1 \in 1..Len(replies)
    BY <1>0, <2>1, TakeFirst
  <2>3. replies' = <<>>
    <3>1. Exchange'
      BY NextExchange
    <3>2. pc' # "recv" /\ pc' # "failed"
      BY <2>1 DEF Return
    <3>. QED BY <2>1, <3>1, <3>2 DEF Exchange
  <2>4. (pc' = "send" /\ cmd' > WaitAt) => trig > base
    <3>1. CASE cmd = WaitAt /\ Head(replies).kind = "err"
      BY <1>0, <2>1, <3>1 DEF Return
    <3>2. CASE cmd = WaitAt /\ Head(replies).kind # "err"
      BY <1>0, <2>1, <2>2, <3>2
    <3>3. CASE cmd > WaitAt
      BY <1>0, <2>1, <3>3
    <3>4. CASE cmd < WaitAt
      <4>1. cmd' = cmd \/ cmd' = cmd + 1
        BY <2>1 DEF Return
      <4>. QED BY <1>0, <3>4, <4>1
    <3>. QED BY <1>0, <3>1, <3>2, <3>3, <3>4
  <2>5. Len(replies') = 0 /\ pc' # "recv"
    BY <2>1, <2>3, EmptySeq DEF Return
  <2>. QED BY <1>0, <2>1, <2>4, <2>5
<1>6. CASE RecvData
  <2>1. /\ pc = "recv" /\ ~abrt /\ cmd > WaitAt /\ replies # <<>> /\ replies' = Tail(replies)
        /\ UNCHANGED <<trig, base, abrt>>
    BY <1>6 DEF RecvData, flags
  <2>2. /\ Len(replies') = Len(replies) - 1
        /\ \A i \in 1..Len(replies) - 1 : replies'[i] = replies[i + 1]
    BY <1>0, <2>1, TakeFirst
  <2>3. \A i \in 1..Len(replies) - 1 : i + 1 \in 1..Len(replies)
    BY <1>0
  <2>4. trig > base
    BY <1>0, <2>1
  <2>. QED BY <1>0, <2>1, <2>2, <2>3, <2>4
<1>7. CASE StopDAQ \/ JoinBuilder \/ StopRun \/ Signal
  <2>1. /\ UNCHANGED <<cmd, replies, trig, base>>
        /\ pc' = pc \/ pc' \in {"join", "idle"}
        /\ abrt' = abrt \/ abrt'
        /\ pc = "failed" => pc' = pc
    BY <1>7 DEF StopDAQ, JoinBuilder, StopRun, Signal, mainVars, flags, dccVars, runVars
  <2>. QED BY <1>0, <2>1
<1>8. CASE Builder
  <2>1. UNCHANGED <<pc, cmd, abrt, replies, trig, base>>
    BY <1>8 DEF Builder, InitBuilder, TestLoop, BuildEvent, CountPass,
                mainVars, flags, dccVars, runVars
  <2>. QED BY <1>0, <2>1
<1>9. CASE AnswerStart \/ AnswerWait \/ AnswerData
  <2>0. /\ UNCHANGED <<pc, cmd, abrt, base>> /\ asked # <<>>
        /\ trig' = trig \/ (AnswerWait /\ trig' = trig + 1)
    BY <1>9 DEF AnswerStart, AnswerWait, AnswerData, Answers, mainVars, flags, runVars
  <2>0a. trig' \in Nat /\ trig' >= trig
    BY <1>0, <2>0
  <2>0b. base' \in Nat /\ base' <= trig'
    BY <1>0, <2>0, <2>0a
  <2> SUFFICES ASSUME ~abrt, pc # "failed" PROVE AskInv'
    BY <2>0, <2>0b
  <2>1. /\ pc = "recv" /\ replies = <<>> /\ asked = <<[turn |-> turn, cmd |-> cmd]>>
    BY <1>00, <2>0 DEF Exchange
  <2>2. Head(asked).cmd = cmd
    BY <2>1
  <2>3. ASSUME NEW k, NEW d, Answers(<<Reply(Head(asked), k, d)>>), k # "data",
               (cmd = WaitAt /\ k # "err") => trig' > base
        PROVE  AskInv'
    <3>1. replies' = <<Reply(Head(asked), k, d)>>
      BY <2>1, <2>3 DEF Answers
    <3>2. Len(replies') = 1 /\ replies'[1].kind = k
      BY <3>1 DEF Reply
    <3>. QED BY <1>0, <2>0, <2>0a, <2>0b, <2>1, <2>3, <3>2
  <2>4. CASE AnswerStart
    BY <1>0, <2>2, <2>3, <2>4 DEF AnswerStart
  <2>5. CASE AnswerWait
    BY <1>0, <2>0, <2>3, <2>5 DEF AnswerWait
  <2>6. CASE AnswerData
    <3>1. cmd > WaitAt /\ trig' = trig /\ trig > base
      BY <1>0, <2>1, <2>2, <2>6 DEF AnswerData
    <3>2. CASE Answers(<<Reply(Head(asked), "err", Mark)>>)
      BY <1>0, <2>3, <3>1, <3>2
    <3>3. CASE Answers([p \in 1..Packets |->
                          Reply(Head(asked), "data", Packet(trig, Head(asked).cmd, p))])
      <4> DEFINE s == [p \in 1..Packets |->
                        Reply(Head(asked), "data", Packet(trig, Head(asked).cmd, p))]
      <4>1. s \in Seq({s[p] : p \in 1..Packets}) /\ Len(s) = Packets
        BY IsASeq, LenProperties
      <4>2. replies' = s
        BY <2>1, <3>3, <4>1 DEF Answers
      <4>3. \A p \in 1..Packets : s[p].data.ev = trig
        BY DEF Reply, Packet
      <4> HIDE DEF s
      <4>. QED BY <1>0, <2>0, <2>1, <3>1, <4>1, <4>2, <4>3
    <3>. QED BY <2>6, <3>2, <3>3 DEF AnswerData
  <2>. QED BY <1>9, <2>4, <2>5, <2>6
<1>10. CASE LoseReply
  <2>1. PICK i \in 1..Len(replies) : replies' = RemoveAt(replies, i)
    BY <1>0, <1>10, LenProperties DEF LoseReply
  <2>2. /\ Len(replies') = Len(replies) - 1
        /\ \A k \in 1..Len(replies) - 1 :
              replies'[k] = IF k < i THEN replies[k] ELSE replies[k + 1]
    BY <1>0, <2>1, RemoveAtProperties
  <2>3. UNCHANGED <<pc, cmd, abrt, trig, base>>
    BY <1>10 DEF LoseReply, mainVars, flags, runVars
  <2>4. ASSUME NEW k \in 1..Len(replies')
        PROVE  \E j \in 1..Len(replies) : replies'[k] = replies[j]
    BY <1>0, <2>2
  <2>. QED BY <1>0, <2>3, <2>4
<1>11. CASE UNCHANGED vars
  BY <1>0, <1>11 DEF vars, mainVars, flags, dccVars, runVars
<1>. QED
  BY <1>1, <1>2, <1>3, <1>4, <1>5, <1>6, <1>7, <1>8, <1>9, <1>10, <1>11 DEF Next, Loop

\* Data of an earlier run reach a run that started quietly in no way.
LEMMA NextPure == IInv /\ [Next]_vars => PureInv'
<1> SUFFICES ASSUME IInv, [Next]_vars PROVE PureInv'
  OBVIOUS
<1> USE DEF PureInv, QuietRunsPure, New
<1>0. /\ PureInv /\ tmpBuffer \in Seq(Data) /\ buffer \in Seq(Data) /\ replies \in Seq(Received)
      /\ Len(tmpBuffer) \in Nat /\ Len(buffer) \in Nat /\ saved \in Seq(Seq(Data))
  <2>1. /\ PureInv /\ tmpBuffer \in Seq(Data) /\ buffer \in Seq(Data) /\ replies \in Seq(Received)
        /\ saved \in Seq(Seq(Data))
    BY DEF IInv, TypeInv, TypeOK
  <2>. QED BY <2>1, LenProperties
<1>1. CASE StartDAQ
  <2>1. /\ quiet' => tmpBuffer = <<>>
        /\ tmpBuffer' = tmpBuffer /\ bpc' = "init" /\ saved' = <<>>
    BY <1>1 DEF StartDAQ
  <2>. QED BY <2>1
<1>2. CASE ClearBuffer
  <2>1. tmpBuffer' = <<>> /\ UNCHANGED <<buffer, bpc, saved, quiet, base>>
    BY <1>2 DEF ClearBuffer, loopVars, runVars
  <2>. QED BY <1>0, <2>1
<1>3. CASE TestStop \/ Send \/ Fails \/ RecvAborted \/ RecvStatus
           \/ StopDAQ \/ JoinBuilder \/ StopRun \/ Signal \/ CountPass \/ TestLoop
           \/ AnswerStart \/ AnswerWait \/ AnswerData \/ LoseReply \/ UNCHANGED vars
  <2>1. UNCHANGED <<tmpBuffer, buffer, saved, quiet, base>> /\ (bpc = "init" <=> bpc' = "init")
    BY <1>3 DEF TestStop, Send, Fails, RecvAborted, RecvStatus, StopDAQ, JoinBuilder, StopRun,
                Signal, CountPass, TestLoop, AnswerStart, AnswerWait, AnswerData, LoseReply,
                Answers, vars, loopVars, runVars
  <2>. QED BY <1>0, <2>1
<1>4. CASE RecvData
  <2>1. /\ replies # <<>> /\ ~abrt /\ pc = "recv" /\ Head(replies).kind = "data"
        /\ tmpBuffer' = Append(tmpBuffer, Head(replies).data)
        /\ UNCHANGED <<buffer, bpc, saved, quiet, base>>
    BY <1>4 DEF RecvData, loopVars
  <2>2. Head(replies) = replies[1] /\ 1 \in 1..Len(replies) /\ Head(replies) \in Received
    BY <1>0, <2>1, TakeFirst
  <2>3. Head(replies).data.ev > base /\ Head(replies).data \in Data
    BY <2>1, <2>2 DEF IInv, AskInv, Received
  <2>4. /\ Len(tmpBuffer') = Len(tmpBuffer) + 1
        /\ \A i \in 1..Len(tmpBuffer) : tmpBuffer'[i] = tmpBuffer[i]
        /\ tmpBuffer'[Len(tmpBuffer) + 1] = Head(replies).data
    BY <1>0, <2>1, <2>3, AppendProperties
  <2>5. quiet => \A i \in 1..Len(tmpBuffer') : New(tmpBuffer'[i])
    <3> SUFFICES ASSUME quiet, NEW i \in 1..Len(tmpBuffer') PROVE New(tmpBuffer'[i])
      OBVIOUS
    <3>1. CASE i \in 1..Len(tmpBuffer)
      BY <1>0, <2>4, <3>1
    <3>2. CASE i = Len(tmpBuffer) + 1
      BY <2>3, <2>4, <3>2
    <3>. QED BY <1>0, <2>4, <3>1, <3>2
  <2>. QED BY <1>0, <2>1, <2>5
<1>5. CASE MarkEvent
  <2>1. tmpBuffer' = Append(tmpBuffer, Mark) /\ UNCHANGED <<buffer, bpc, saved, quiet, base>>
    BY <1>5 DEF MarkEvent, loopVars, runVars
  <2>2. /\ Len(tmpBuffer') = Len(tmpBuffer) + 1
        /\ \A i \in 1..Len(tmpBuffer) : tmpBuffer'[i] = tmpBuffer[i]
        /\ tmpBuffer'[Len(tmpBuffer) + 1] = Mark
    BY <1>0, <2>1, DataTyped, AppendProperties
  <2>. QED BY <1>0, <2>1, <2>2
<1>6. CASE InitBuilder
  <2>1. buffer' = <<>> /\ UNCHANGED <<tmpBuffer, saved, quiet, base>>
    BY <1>6 DEF InitBuilder, runVars
  <2>. QED BY <1>0, <2>1
<1>7. CASE BuildEvent
  <2> DEFINE b == buffer \o tmpBuffer
             event == SubSeq(b, 1, Min(Marks(b)) - 1)
  <2>1. bpc = "pass" /\ bpc' = "tail" /\ tmpBuffer' = <<>> /\ UNCHANGED <<quiet, base>>
    BY <1>7 DEF BuildEvent, runVars
  <2>2. /\ b \in Seq(Data) /\ Len(b) = Len(buffer) + Len(tmpBuffer)
        /\ \A i \in 1..Len(buffer) + Len(tmpBuffer) :
              b[i] = IF i <= Len(buffer) THEN buffer[i] ELSE tmpBuffer[i - Len(buffer)]
    BY <1>0, ConcatProperties
  <2> SUFFICES ASSUME quiet PROVE PureInv'
    BY <2>1
  <2>3. ASSUME NEW i \in 1..Len(b) PROVE New(b[i])
    <3>1. CASE i <= Len(buffer)
      BY <1>0, <2>1, <2>2, <3>1
    <3>2. CASE ~(i <= Len(buffer))
      <4>1. i - Len(buffer) \in 1..Len(tmpBuffer)
        BY <1>0, <2>2, <3>2
      <4>. QED BY <1>0, <2>2, <3>2, <4>1
    <3>. QED BY <3>1, <3>2
  <2>4. CASE Marks(b) = {}
    <3>1. buffer' = b /\ saved' = saved
      BY <1>7, <2>4 DEF BuildEvent
    <3> HIDE DEF b
    <3>. QED BY <1>0, <2>1, <2>3, <3>1
  <2>5. CASE Marks(b) # {}
    <3>1. /\ buffer' = SubSeq(b, Min(Marks(b)) + 1, Len(b))
          /\ saved' = saved \/ (event # <<>> /\ saved' = Append(saved, event))
      BY <1>7, <2>5 DEF BuildEvent
    <3> HIDE DEF b
    <3>2. \A k \in 1..Len(buffer') : \E j \in 1..Len(b) : buffer'[k] = b[j]
      BY <2>2, <2>5, <3>1, FirstMark
    <3>3. \A k \in 1..Len(buffer') : New(buffer'[k])
      BY <2>1, <2>3, <3>2
    <3>4. event \in Seq(Data) /\ (event # <<>> => event[1].ev > base)
      <4> DEFINE m == Min(Marks(b))
      <4>1. /\ event \in Seq(Data) /\ m \in 1..Len(b) /\ Len(event) = m - 1
            /\ \A k \in 1..m - 1 : event[k] = b[k] /\ b[k] # Mark
        BY <2>2, <2>5, FirstMark
      <4>2. ASSUME event # <<>> PROVE event[1] = b[1] /\ b[1] # Mark /\ 1 \in 1..Len(b)
        <5> HIDE DEF event, m
        <5>1. Len(event) # 0 /\ Len(event) \in Nat
          BY <4>1, <4>2, EmptySeq, LenProperties
        <5>. QED BY <4>1, <5>1
      <4> HIDE DEF event
      <4>. QED BY <2>3, <4>1, <4>2
    <3> HIDE DEF event
    <3>5. QuietRunsPure'
      <4>1. Len(saved) \in Nat /\ DOMAIN saved = 1..Len(saved)
        BY <1>0, LenProperties
      <4>2. CASE saved' = saved
        BY <1>0, <2>1, <4>2
      <4>3. CASE event # <<>> /\ saved' = Append(saved, event)
        <5>1. /\ saved' \in Seq(Seq(Data)) /\ Len(saved') = Len(saved) + 1
              /\ \A i \in 1..Len(saved) : saved'[i] = saved[i]
              /\ saved'[Len(saved) + 1] = event
          BY <1>0, <3>4, <4>3, AppendProperties
        <5>2. DOMAIN saved' = 1..Len(saved) + 1
          BY <5>1, LenProperties
        <5>. QED BY <1>0, <2>1, <3>4, <4>1, <4>3, <5>1, <5>2
      <4>. QED BY <3>1, <4>2, <4>3
    <3>. QED BY <2>1, <3>3, <3>5
  <2>. QED BY <2>4, <2>5
<1>. QED
  BY <1>1, <1>2, <1>3, <1>4, <1>5, <1>6, <1>7 DEF Next, Loop, Builder

\* The invariant of every behaviour.
LEMMA Inductive == Spec => []IInv
<1>1. IInv /\ [Next]_vars => IInv'
  BY NextType, NextExchange, NextStop, NextDrain, NextAsk, NextPure DEF IInv
<1>. QED BY <1>1, InitIInv, PTL DEF Spec

(***************************************************************************)
(* The properties.                                                         *)
(***************************************************************************)
\* SendCommand never takes a reply for the reply of another command, however
\* many commands, packets and losses there are, until the program is aborted.
THEOREM ReplyMatchesHolds == Spec => []ReplyMatches
<1>1. IInv => ReplyMatches
  <2> SUFFICES ASSUME IInv, ~abrt, pc # "failed"
               PROVE  /\ \A i \in DOMAIN asked :
                           pc = "recv" /\ asked[i] = [turn |-> turn, cmd |-> cmd]
                      /\ \A i \in DOMAIN replies :
                           pc = "recv" /\ replies[i].turn = turn /\ replies[i].cmd = cmd
    BY DEF ReplyMatches
  <2>1. Exchange /\ asked \in Seq(Sent) /\ replies \in Seq(Received)
    BY DEF IInv, TypeInv, TypeOK
  <2>2. DOMAIN asked = 1..Len(asked) /\ DOMAIN replies = 1..Len(replies)
    BY <2>1, LenProperties
  <2>3. ASSUME NEW i \in DOMAIN asked
        PROVE  pc = "recv" /\ asked[i] = [turn |-> turn, cmd |-> cmd]
    <3>1. asked # <<>>
      BY <2>2, <2>3
    <3>2. pc = "recv" /\ asked = <<[turn |-> turn, cmd |-> cmd]>>
      BY <2>1, <3>1 DEF Exchange
    <3>. QED BY <2>3, <3>2
  <2>4. ASSUME NEW i \in DOMAIN replies
        PROVE  pc = "recv" /\ replies[i].turn = turn /\ replies[i].cmd = cmd
    <3>1. replies # <<>>
      BY <2>2, <2>4
    <3>. QED BY <2>1, <2>2, <2>4, <3>1 DEF Exchange
  <2>. QED BY <2>3, <2>4
<1>. QED BY <1>1, Inductive, PTL

\* A run that reached its limit takes at most the event that it waits for.
THEOREM OneMoreEventHolds == Spec => []OneMoreEvent
<1>1. IInv => OneMoreEvent
  BY DEF IInv, StopInv, OneMoreEvent
<1>. QED BY <1>1, Inductive, PTL

\* A run that starts with an empty tmpBuffer stores nothing of an earlier run,
\* wherever the requests, the builder and the stop of that run were.
THEOREM QuietRunsPureHolds == Spec => []QuietRunsPure
<1>1. IInv => QuietRunsPure
  BY DEF IInv, PureInv, QuietRunsPure
<1>. QED BY <1>1, Inductive, PTL

\* The builder leaves nothing behind that was there before its last pass.
THEOREM DrainsDataHolds == Spec => []DrainsData
<1>1. IInv => DrainsData
  BY DEF IInv, DrainInv
<1>. QED BY <1>1, Inductive, PTL

(***************************************************************************)
(* The packets of the events.                                              *)
(***************************************************************************)
\* What is before place k of a buffer; a buffer begins where an event ended.
Prev(b, k) == IF k = 1 THEN Mark ELSE b[k - 1]
Latest(b) == Prev(b, Len(b) + 1)

\* Packet e is the one after d in the order of the requests, or the first.
Continues(d, e) ==
  \/ d = Mark /\ e.req = WaitAt + 1 /\ e.part = 1
  \/ d # Mark /\ e.ev = d.ev /\ d.part # Packets /\ e.req = d.req /\ e.part = d.part + 1
  \/ d # Mark /\ e.ev = d.ev /\ d.part = Packets /\ e.req = d.req + 1 /\ e.part = 1

\* The last packet of the last request.
Ends(d) == d.req = LastCmd /\ d.part = Packets

OnlyMarks(b, k) == \A j \in k..Len(b) : b[j] = Mark

\* The packets of a buffer follow each other, and a mark the last packet of an
\* event; after an abort a mark may come too early, but then no data after it.
Fits(aborted, b, k) ==
  IF b[k] = Mark THEN Ends(Prev(b, k)) \/ (aborted /\ OnlyMarks(b, k))
  ELSE Continues(Prev(b, k), b[k])
Ordered(aborted, b) == \A k \in 1..Len(b) : Fits(aborted, b, k)

\* A number is determined by its quotient and remainder.
LEMMA Quotient ==
  ASSUME NEW p \in Nat \ {0}, NEW q \in Nat, NEW r \in 0..p - 1,
         NEW qq \in Nat, NEW rr \in 0..p - 1, p * q + r = p * qq + rr
  PROVE  q = qq /\ r = rr
  OBVIOUS

\* What division does to the next number.
LEMMA NextQuotient ==
  ASSUME NEW p \in Nat \ {0}, NEW k \in Nat
  PROVE  /\ k \div p \in Nat /\ k % p \in 0..p - 1 /\ k = p * (k \div p) + (k % p)
         /\ k % p # p - 1 => (k + 1) \div p = k \div p /\ (k + 1) % p = (k % p) + 1
         /\ k % p = p - 1 => (k + 1) \div p = (k \div p) + 1 /\ (k + 1) % p = 0
<1>1. \A n \in Nat : n \div p \in Nat /\ n % p \in 0..p - 1 /\ n = p * (n \div p) + (n % p)
  OBVIOUS
<1> DEFINE q == k \div p
           r == k % p
           qq == (k + 1) \div p
           rr == (k + 1) % p
<1>2. /\ q \in Nat /\ r \in 0..p - 1 /\ k = p * q + r
      /\ qq \in Nat /\ rr \in 0..p - 1 /\ k + 1 = p * qq + rr
  BY <1>1
<1> HIDE DEF q, r, qq, rr
<1>3. ASSUME r # p - 1 PROVE qq = q /\ rr = r + 1
  <2>1. r + 1 \in 0..p - 1 /\ p * q + (r + 1) = p * qq + rr
    BY <1>2, <1>3
  <2>. QED BY <1>2, <2>1, Quotient
<1>4. ASSUME r = p - 1 PROVE qq = q + 1 /\ rr = 0
  <2>1. p * (q + 1) = p * q + p
    BY <1>2
  <2>2. 0 \in 0..p - 1 /\ q + 1 \in Nat /\ p * (q + 1) + 0 = p * qq + rr
    BY <1>2, <1>4, <2>1
  <2>. QED BY <1>2, <2>2, Quotient
<1>. QED BY <1>2, <1>3, <1>4 DEF q, r, qq, rr

\* The packets before the first mark are all the data of one trigger, unless an
\* abort cut them short and nothing comes after them.
LEMMA CutEvent ==
  ASSUME NEW b \in Seq(Data), NEW aborted \in BOOLEAN, Ordered(aborted, b),
         NEW m \in 2..Len(b), b[m] = Mark, \A k \in 1..m - 1 : b[k] # Mark
  PROVE  \/ SubSeq(b, 1, m - 1) = Whole(SubSeq(b, 1, m - 1)[1].ev)
         \/ aborted /\ OnlyMarks(b, m)
<1> USE SizeAssumption
<1> DEFINE event == SubSeq(b, 1, m - 1)
           Right(k) == /\ b[k].ev = b[1].ev
                       /\ b[k].req = WaitAt + 1 + ((k - 1) \div Packets)
                       /\ b[k].part = 1 + ((k - 1) % Packets)
<1>1. /\ Len(b) \in Nat /\ \A k \in 1..Len(b) : b[k] \in Data
      /\ m \in Nat /\ WaitAt \in Nat /\ \A k \in 1..m - 1 : k \in 1..Len(b)
  BY LenProperties, ElementOfSeq DEF WaitAt
<1>2. \A k \in 1..m - 1 : Right(k)
  <2> DEFINE W == {k \in 1..m - 1 : ~Right(k)}
  <2> SUFFICES ASSUME W # {} PROVE FALSE
    OBVIOUS
  <2>1. W \subseteq Nat /\ W \subseteq 1..m - 1 /\ \A k \in W : ~Right(k)
    OBVIOUS
  <2>2. \A k \in 1..m - 1 : k \notin W => Right(k)
    OBVIOUS
  <2> HIDE DEF W
  <2>3. PICK k \in W : \A y \in W : k <= y
    BY <2>1, MinOfNats
  <2>4. k \in 1..m - 1 /\ ~Right(k) /\ k \in 1..Len(b) /\ b[k] # Mark
    BY <1>1, <2>1
  <2>5. Continues(Prev(b, k), b[k])
    BY <2>4 DEF Ordered, Fits
  <2>6. CASE k = 1
    <3>1. b[1].req = WaitAt + 1 /\ b[1].part = 1
      BY <2>5, <2>6 DEF Continues, Prev
    <3>2. 0 \div Packets = 0 /\ 0 % Packets = 0
      OBVIOUS
    <3>3. k - 1 = 0
      BY <2>6
    <3>. QED BY <1>1, <2>4, <2>6, <3>1, <3>2, <3>3
  <2>7. CASE k # 1
    <3> DEFINE n == k - 2
               q == n \div Packets
               r == n % Packets
    <3>1. n \in Nat /\ k - 1 = n + 1 /\ k - 1 \in 1..m - 1 /\ ~(k <= k - 1)
          /\ (k - 1) - 1 = n
      BY <1>1, <2>4, <2>7
    <3>2. Right(k - 1) /\ b[k - 1] # Mark
      BY <2>2, <2>3, <3>1
    <3>3. /\ b[k - 1].ev = b[1].ev /\ b[k - 1].req = WaitAt + 1 + q
          /\ b[k - 1].part = 1 + r
      BY <3>1, <3>2
    <3>4. /\ q \in Nat /\ r \in 0..Packets - 1
          /\ r # Packets - 1 => /\ (n + 1) \div Packets = q
                                /\ (n + 1) % Packets = r + 1
          /\ r = Packets - 1 => /\ (n + 1) \div Packets = q + 1
                                /\ (n + 1) % Packets = 0
      <4>. HIDE DEF n
      <4>. QED BY <3>1, NextQuotient
    <3>5. /\ b[k].ev = b[k - 1].ev
          /\ \/ /\ b[k - 1].part # Packets /\ b[k].req = b[k - 1].req
                /\ b[k].part = b[k - 1].part + 1
             \/ /\ b[k - 1].part = Packets /\ b[k].req = b[k - 1].req + 1 /\ b[k].part = 1
      BY <2>5, <2>7, <3>2 DEF Continues, Prev
    <3> HIDE DEF n, q, r
    <3>6. CASE r # Packets - 1
      <4>1. /\ b[k].ev = b[1].ev /\ b[k].req = WaitAt + 1 + q /\ b[k].part = 1 + r + 1
        BY <3>3, <3>4, <3>5, <3>6
      <4>2. 1 + r + 1 = 1 + (r + 1)
        BY <3>4
      <4>. QED BY <2>4, <3>1, <3>4, <3>6, <4>1, <4>2
    <3>7. CASE r = Packets - 1
      <4>1. b[k].ev = b[1].ev /\ b[k].req = WaitAt + 1 + q + 1 /\ b[k].part = 1
        BY <3>3, <3>4, <3>5, <3>7
      <4>2. WaitAt + 1 + q + 1 = WaitAt + 1 + (q + 1) /\ 1 + 0 = 1
        BY <1>1, <3>4
      <4>. QED BY <2>4, <3>1, <3>4, <3>7, <4>1, <4>2
    <3>. QED BY <3>6, <3>7
  <2>. QED BY <2>6, <2>7
<1>3. CASE ~Ends(b[m - 1])
  <2>1. Fits(aborted, b, m) /\ Prev(b, m) = b[m - 1]
    BY <1>1 DEF Ordered, Prev
  <2>. QED BY <1>3, <2>1 DEF Fits
<1>4. CASE Ends(b[m - 1])
  <2> DEFINE n == m - 2
             q == n \div Packets
             r == n % Packets
  <2>1. m - 1 \in 1..m - 1 /\ (m - 1) - 1 = n /\ n \in Nat /\ 1 \in 1..m - 1
    BY <1>1
  <2>2. b[m - 1].req = WaitAt + 1 + q /\ b[m - 1].part = 1 + r
    BY <1>2, <2>1
  <2>3. q \in Nat /\ r \in 0..Packets - 1 /\ n = Packets * q + r
    <3>. HIDE DEF n
    <3>. QED BY <2>1, NextQuotient
  <2>4. q = Requests - 1 /\ r = Packets - 1
    <3>. HIDE DEF n, q, r
    <3>1. q \in Nat /\ r \in 0..Packets - 1
      BY <2>3
    <3>2. WaitAt + 1 + q = WaitAt + Requests /\ 1 + r = Packets
      BY <1>4, <2>2 DEF Ends, LastCmd
    <3>. QED BY <1>1, <3>1, <3>2
  <2>5. m - 1 = Requests * Packets
    <3>1. Packets * (Requests - 1) = Requests * Packets - Packets
      OBVIOUS
    <3>2. m - 2 = Packets * (Requests - 1) + (Packets - 1) /\ Requests * Packets \in Nat
      BY <2>3, <2>4
    <3>. QED BY <1>1, <3>1, <3>2
  <2>6. /\ event \in Seq(Data) /\ Len(event) = m - 1
        /\ \A k \in 1..m - 1 : event[k] = b[k]
    <3>1. 1 \in Int /\ m - 1 \in Int /\ \A k \in 1..m - 1 : b[k] \in Data
      BY <1>1
    <3>2. /\ event \in Seq(Data)
          /\ Len(event) = IF 1 <= m - 1 THEN (m - 1) - 1 + 1 ELSE 0
          /\ \A k \in 1..(m - 1) - 1 + 1 : event[k] = b[1 + k - 1]
      BY <3>1, SubSeqProperties
    <3>. QED BY <1>1, <3>2
  <2> HIDE DEF event, n, q, r
  <2>7. event = [k \in 1..m - 1 |-> event[k]]
    BY <2>6, LenProperties
  <2>8. event[1].ev = b[1].ev
    BY <2>1, <2>6
  <2>9. ASSUME NEW k \in 1..m - 1
        PROVE  event[k] = Packet(b[1].ev, WaitAt + 1 + (k - 1) \div Packets,
                                 1 + ((k - 1) % Packets))
    <3>1. event[k] = b[k] /\ b[k] \in Data /\ Right(k)
      BY <1>1, <1>2, <2>6
    <3>2. \A d \in Data : d = [ev |-> d.ev, req |-> d.req, part |-> d.part]
      BY DEF Data
    <3>. QED BY <3>1, <3>2 DEF Packet
  <2>10. event = Whole(b[1].ev)
    BY <2>5, <2>7, <2>9 DEF Whole
  <2>. QED BY <2>8, <2>10 DEF event
<1>. QED BY <1>3, <1>4

\* A packet that continues the event, or the mark that ends it, joins a buffer.
LEMMA OrderedAppend ==
  ASSUME NEW b \in Seq(Data), NEW x \in Data, NEW aborted \in BOOLEAN, Ordered(aborted, b),
         IF x = Mark THEN Ends(Latest(b)) \/ aborted
         ELSE Continues(Latest(b), x) /\ ~aborted
  PROVE  /\ Ordered(aborted, Append(b, x)) /\ Latest(Append(b, x)) = x
         /\ (x = Mark /\ OnlyMarks(b, 1)) => OnlyMarks(Append(b, x), 1)
<1> DEFINE c == Append(b, x)
           n == Len(b)
<1>1. /\ n \in Nat /\ c \in Seq(Data) /\ Len(c) = n + 1 /\ c[n + 1] = x
      /\ \A k \in 1..n : c[k] = b[k]
  BY LenProperties, AppendProperties
<1> HIDE DEF c
<1>2. Latest(c) = x
  BY <1>1 DEF Latest, Prev
<1> HIDE DEF n
<1>3. Ordered(aborted, c)
  <2> SUFFICES ASSUME NEW k \in 1..n + 1 PROVE Fits(aborted, c, k)
    BY <1>1 DEF Ordered
  <2>1. Prev(c, k) = Prev(b, k)
    BY <1>1 DEF Prev
  <2>2. CASE k = n + 1
    <3>1. Prev(c, k) = Latest(b) /\ c[k] = x
      BY <1>1, <2>1, <2>2 DEF Latest, n
    <3>2. x = Mark => OnlyMarks(c, k)
      BY <1>1, <2>2 DEF OnlyMarks
    <3>. QED BY <3>1, <3>2 DEF Fits
  <2>3. CASE k \in 1..n
    <3>1. c[k] = b[k] /\ Fits(aborted, b, k)
      BY <1>1, <2>3 DEF Ordered, n
    <3>2. (aborted /\ OnlyMarks(b, k)) => OnlyMarks(c, k)
      <4>1. \A j \in k..n + 1 : j \in k..n \/ j = n + 1
        BY <1>1
      <4>2. \A j \in k..n : j \in 1..n
        BY <1>1
      <4>. QED BY <1>1, <4>1, <4>2 DEF OnlyMarks, n
    <3>. QED BY <2>1, <3>1, <3>2 DEF Fits
  <2>. QED BY <1>1, <2>2, <2>3
<1>4. (x = Mark /\ OnlyMarks(b, 1)) => OnlyMarks(c, 1)
  <2>1. \A j \in 1..n + 1 : j \in 1..n \/ j = n + 1
    BY <1>1
  <2>. QED BY <1>1, <2>1 DEF OnlyMarks, n
<1>. QED BY <1>2, <1>3, <1>4 DEF c

\* What is after a mark is a buffer in order.
LEMMA OrderedRest ==
  ASSUME NEW b \in Seq(Data), NEW aborted \in BOOLEAN, Ordered(aborted, b),
         NEW m \in 1..Len(b), b[m] = Mark
  PROVE  LET c == SubSeq(b, m + 1, Len(b))
         IN  /\ c \in Seq(Data) /\ Ordered(aborted, c) /\ Latest(c) = Latest(b)
             /\ OnlyMarks(b, m) => OnlyMarks(c, 1)
<1> DEFINE c == SubSeq(b, m + 1, Len(b))
           n == Len(b) - m
<1>1. /\ Len(b) \in Nat /\ m \in Nat /\ n \in Nat
      /\ c \in Seq(Data) /\ Len(c) = n /\ \A k \in 1..n : c[k] = b[k + m]
  <2>1. Len(b) \in Nat /\ \A k \in 1..Len(b) : b[k] \in Data
    BY LenProperties, ElementOfSeq
  <2>2. m + 1 \in Int /\ Len(b) \in Int /\ \A k \in m + 1..Len(b) : b[k] \in Data
    BY <2>1
  <2>3. /\ c \in Seq(Data)
        /\ Len(c) = IF m + 1 <= Len(b) THEN Len(b) - (m + 1) + 1 ELSE 0
        /\ \A k \in 1..Len(b) - (m + 1) + 1 : c[k] = b[(m + 1) + k - 1]
    BY <2>2, SubSeqProperties
  <2>. QED BY <2>1, <2>3
<1> HIDE DEF c
<1>2. \A k \in 1..n + 1 : k + m \in 1..Len(b) + 1 /\ Prev(c, k) = Prev(b, k + m)
  <2> SUFFICES ASSUME NEW k \in 1..n + 1
               PROVE  k + m \in 1..Len(b) + 1 /\ Prev(c, k) = Prev(b, k + m)
    OBVIOUS
  <2>1. k + m \in 1..Len(b) + 1 /\ k + m # 1 /\ (k # 1 => k - 1 \in 1..n)
    BY <1>1
  <2>2. Prev(b, k + m) = b[k + m - 1]
    BY <2>1 DEF Prev
  <2>3. CASE k = 1
    <3>1. k + m - 1 = m
      BY <1>1, <2>3
    <3>2. Prev(c, k) = Mark
      BY <2>3 DEF Prev
    <3>. QED BY <2>1, <2>2, <3>1, <3>2
  <2>4. CASE k # 1
    <3>1. (k - 1) + m = k + m - 1
      BY <1>1
    <3>2. Prev(c, k) = c[k - 1] /\ c[k - 1] = b[(k - 1) + m]
      BY <1>1, <2>1, <2>4 DEF Prev
    <3>. QED BY <2>1, <2>2, <3>1, <3>2
  <2>. QED BY <2>3, <2>4
<1>3. Latest(c) = Latest(b)
  <2>1. n + 1 \in 1..n + 1 /\ n + 1 + m = Len(b) + 1
    BY <1>1
  <2>2. Prev(c, n + 1) = Prev(b, Len(b) + 1)
    BY <1>2, <2>1
  <2>. QED BY <1>1, <2>2 DEF Latest
<1>4. \A k \in 1..n : OnlyMarks(b, k + m) => OnlyMarks(c, k)
  <2> SUFFICES ASSUME NEW k \in 1..n, OnlyMarks(b, k + m), NEW j \in k..n
               PROVE  c[j] = Mark
    BY <1>1 DEF OnlyMarks
  <2>1. j \in 1..n /\ j + m \in k + m..Len(b)
    BY <1>1
  <2>. QED BY <1>1, <2>1 DEF OnlyMarks
<1>5. Ordered(aborted, c)
  <2> SUFFICES ASSUME NEW k \in 1..n PROVE Fits(aborted, c, k)
    BY <1>1 DEF Ordered
  <2>1. k + m \in 1..Len(b) /\ k \in 1..n + 1
    BY <1>1
  <2>2. Fits(aborted, b, k + m) /\ Prev(c, k) = Prev(b, k + m) /\ c[k] = b[k + m]
    BY <1>1, <1>2, <2>1 DEF Ordered
  <2>. QED BY <1>4, <2>2 DEF Fits
<1>6. OnlyMarks(b, m) => OnlyMarks(c, 1)
  <2> SUFFICES ASSUME OnlyMarks(b, m), NEW j \in 1..n PROVE c[j] = Mark
    BY <1>1 DEF OnlyMarks
  <2>1. j + m \in m..Len(b)
    BY <1>1
  <2>. QED BY <1>1, <2>1 DEF OnlyMarks
<1>. QED BY <1>1, <1>3, <1>5, <1>6 DEF c

(***************************************************************************)
(* Without losses and errors the data form whole events.                   *)
(***************************************************************************)
\* The packets on their way to the builder: it forgets buffer when it begins.
Stream == IF bpc = "init" THEN tmpBuffer ELSE buffer \o tmpBuffer

\* What a run leaves behind is not split between the two buffers.
SplitInv ==
  /\ (pc = "clear" /\ bpc # "init") => (buffer = <<>> \/ tmpBuffer = <<>>)
  /\ stopEventBuilder => pc \in {"join", "idle"}
  /\ pc = "idle" => bpc = "done"
  /\ bpc = "done" => /\ pc \in {"join", "idle"}
                     /\ buffer = <<>> \/ tmpBuffer = <<>>
  /\ (emptyBuffer /\ bpc \in {"head", "pass", "tail"}) => buffer = <<>>
  /\ (tC > 0 /\ bpc \in {"head", "pass", "tail"}) => stopEventBuilder
  /\ (tC > 0 /\ bpc = "tail") => tmpBuffer = <<>>

\* Before the packets of command c comes the last one of the command before.
Asking(c, d) == d = IF c = WaitAt + 1 THEN Mark ELSE Packet(trig, c - 1, Packets)

\* The last packet received, d, tells which one comes next.
Place(d) == (~abrt /\ pc # "failed") =>
  /\ (pc \in {"idle", "clear", "test", "ran", "join"}
        \/ (pc \in {"send", "recv"} /\ cmd <= WaitAt)) => d = Mark
  /\ (pc = "send" /\ cmd > WaitAt) => Asking(cmd, d)
  /\ (pc = "recv" /\ cmd > WaitAt /\ asked # <<>>) => Asking(cmd, d)
  /\ (pc = "recv" /\ cmd > WaitAt /\ asked = <<>>) =>
       \E n \in 0..Packets - 1 :
         /\ Len(replies) = Packets - n
         /\ \A i \in 1..Len(replies) : /\ replies[i].kind = "data"
                                       /\ replies[i].data = Packet(trig, cmd, n + i)
         /\ IF n = 0 THEN Asking(cmd, d) ELSE d = Packet(trig, cmd, n)
  /\ pc = "mark" => d = Packet(trig, LastCmd, Packets)

\* Only an abort cuts an event short, and no data follow it.
SavedWhole == \A i \in 1..Len(saved) :
  \/ saved[i] = Whole(saved[i][1].ev)
  \/ abrt /\ i = Len(saved) /\ OnlyMarks(Stream, 1)

WholeInv == (errs = 0 /\ lost = 0) =>
              Ordered(abrt, Stream) /\ Place(Latest(Stream)) /\ SavedWhole

\* A builder that makes at least two passes after the stop empties the buffers
\* evenly: its last pass begins after the last packet of the run.
LEMMA NextSplit == ASSUME MaxDrain > 1, IInv, SplitInv, [Next]_vars PROVE SplitInv'
<1>0. tC \in Nat /\ MaxDrain \in Nat /\ buffer \in Seq(Data) /\ tmpBuffer \in Seq(Data)
  BY SizeAssumption DEF IInv, TypeInv, TypeOK
<1> USE DEF SplitInv
<1>1. CASE StartDAQ
  BY <1>1 DEF StartDAQ
<1>2. CASE ClearBuffer
  BY <1>2 DEF ClearBuffer, flags, loopVars
<1>3. CASE TestStop \/ Send \/ Fails \/ MarkEvent
  BY <1>3 DEF TestStop, Send, Fails, MarkEvent, flags, loopVars
<1>4. CASE RecvAborted \/ RecvStatus
  BY <1>4 DEF RecvAborted, RecvStatus, Return, flags, loopVars
<1>5. CASE RecvData
  BY <1>5 DEF RecvData, Return, flags, loopVars, mainVars
<1>6. CASE StopRun \/ Signal
  BY <1>6 DEF StopRun, Signal, mainVars, loopVars
<1>7. CASE StopDAQ \/ JoinBuilder
  BY <1>7 DEF StopDAQ, JoinBuilder, flags, loopVars
<1>8. CASE InitBuilder
  BY <1>8 DEF InitBuilder, mainVars, flags
<1>9. CASE TestLoop
  BY <1>9 DEF TestLoop, Finished, mainVars, flags
<1>10. CASE BuildEvent
  <2> DEFINE b == buffer \o tmpBuffer
  <2>1. emptyBuffer' => buffer' = <<>>
    <3>1. CASE b = <<>>
      <4>1. Marks(b) = {}
        BY <3>1 DEF Marks
      <4>2. buffer' = b
        BY <1>10, <4>1 DEF BuildEvent
      <4>. QED BY <3>1, <4>2
    <3>2. CASE b # <<>>
      BY <1>10, <3>2 DEF BuildEvent
    <3>. QED BY <3>1, <3>2
  <2>2. bpc = "pass" /\ bpc' = "tail" /\ tmpBuffer' = <<>> /\ UNCHANGED <<mainVars, flags, tC>>
    BY <1>10 DEF BuildEvent
  <2>. QED BY <2>1, <2>2 DEF mainVars, flags
<1>11. CASE CountPass
  <2>1. /\ bpc = "tail" /\ UNCHANGED <<mainVars, flags, tmpBuffer, buffer, emptyBuffer>>
        /\ tC' = IF stopEventBuilder THEN tC + 1 ELSE tC
        /\ bpc' = IF stopEventBuilder /\ tC' >= MaxDrain THEN "done" ELSE "head"
    BY <1>11 DEF CountPass
  <2>2. bpc' = "done" => stopEventBuilder /\ tC > 0
    BY <1>0, <2>1
  <2>3. tC' > 0 => stopEventBuilder
    BY <1>0, <2>1
  <2>. QED BY <2>1, <2>2, <2>3 DEF mainVars, flags
<1>12. CASE AnswerStart \/ AnswerWait \/ AnswerData \/ LoseReply \/ UNCHANGED vars
  BY <1>12 DEF AnswerStart, AnswerWait, AnswerData, LoseReply, Answers, vars, mainVars, flags,
               loopVars
<1>. QED BY <1>1, <1>2, <1>3, <1>4, <1>5, <1>6, <1>7, <1>8, <1>9, <1>10, <1>11, <1>12
         DEF Next, Loop, Builder

\* The stream is made of data, and an empty one is in order.
LEMMA StreamTyped ==
  ASSUME TypeOK
  PROVE  /\ Stream \in Seq(Data) /\ (bpc # "init" => Stream = buffer \o tmpBuffer)
         /\ \A aborted : Ordered(aborted, <<>>)
         /\ Latest(<<>>) = Mark /\ OnlyMarks(<<>>, 1)
<1>1. tmpBuffer \in Seq(Data) /\ buffer \in Seq(Data)
  BY DEF TypeOK
<1>2. buffer \o tmpBuffer \in Seq(Data)
  BY <1>1, ConcatProperties
<1>. QED BY <1>1, <1>2 DEF Stream, Ordered, Latest, Prev, OnlyMarks

\* startDAQ may find what an earlier run left, and clears it or leaves it whole.
LEMMA StreamClears ==
  ASSUME IInv, SplitInv, StartDAQ \/ ClearBuffer
  PROVE  Stream' \in {Stream, <<>>}
<1>1. buffer \in Seq(Data) /\ tmpBuffer \in Seq(Data)
  BY DEF IInv, TypeInv, TypeOK
<1>2. /\ buffer \o <<>> = buffer /\ <<>> \o tmpBuffer = tmpBuffer
  BY <1>1, ConcatEmptySeq
<1>3. CASE StartDAQ
  <2>1. Stream' = tmpBuffer
    BY <1>3 DEF StartDAQ, Stream
  <2>2. CASE bpc = "init"
    BY <2>1, <2>2 DEF Stream
  <2>3. CASE bpc # "init" /\ buffer = <<>>
    BY <1>2, <2>1, <2>3 DEF Stream
  <2>4. CASE tmpBuffer = <<>>
    BY <2>1, <2>4
  <2>5. bpc = "done"
    BY <1>3 DEF SplitInv, StartDAQ
  <2>. QED BY <2>2, <2>3, <2>4, <2>5 DEF SplitInv
<1>4. CASE ClearBuffer
  <2>1. /\ pc = "clear" /\ tmpBuffer' = <<>> /\ UNCHANGED <<bpc, buffer>>
    BY <1>4 DEF ClearBuffer, loopVars
  <2>2. Stream' = IF bpc = "init" THEN <<>> ELSE buffer
    BY <1>2, <2>1 DEF Stream
  <2>3. (bpc # "init" /\ tmpBuffer = <<>>) => Stream = buffer
    BY <1>2 DEF Stream
  <2>. QED BY <2>1, <2>2, <2>3 DEF SplitInv
<1>. QED BY <1>3, <1>4

\* A packet or a mark joins the stream.
LEMMA StreamGrows ==
  ASSUME TypeOK, NEW x \in Data, tmpBuffer' = Append(tmpBuffer, x), UNCHANGED <<bpc, buffer>>
  PROVE  Stream' = Append(Stream, x)
<1>1. buffer \in Seq(Data) /\ tmpBuffer \in Seq(Data)
  BY DEF TypeOK
<1>2. buffer \o Append(tmpBuffer, x) = Append(buffer \o tmpBuffer, x)
  <2> DEFINE e == <<x>>
  <2>1. e \in Seq(Data) /\ \A s \in Seq(Data) : Append(s, x) = s \o e
    BY AppendIsConcat
  <2>2. buffer \o tmpBuffer \in Seq(Data)
    BY <1>1, ConcatProperties
  <2>3. (buffer \o tmpBuffer) \o e = buffer \o (tmpBuffer \o e)
    BY <1>1, <2>1, ConcatAssociative
  <2>. QED BY <1>1, <2>1, <2>2, <2>3
<1>. QED BY <1>2 DEF Stream

\* Losses and errors are never undone.
LEMMA ErrorsStay ==
  ASSUME TypeOK, [Next]_vars, errs' = 0, lost' = 0
  PROVE  errs = 0 /\ lost = 0
<1>1. errs \in Nat /\ lost \in Nat
  BY BoundAssumption DEF TypeOK
<1>2. errs' \in {errs, errs + 1} /\ lost' \in {lost, lost + 1}
  BY DEF Next, Loop, Builder, StartDAQ, ClearBuffer, TestStop, Send, Fails, RecvAborted,
         RecvStatus, RecvData, MarkEvent, StopDAQ, JoinBuilder, StopRun, Signal, InitBuilder,
         TestLoop, BuildEvent, CountPass, AnswerStart, AnswerWait, AnswerData, LoseReply,
         Answers, vars, dccVars
<1>. QED BY <1>1, <1>2

\* The other steps leave the stream and the events stored alone, and an abort is
\* never taken back.
LEMMA StreamKept ==
  ASSUME IInv, SplitInv,
         \/ TestStop \/ Send \/ Fails \/ RecvAborted \/ RecvStatus \/ StopDAQ \/ JoinBuilder
         \/ StopRun \/ Signal \/ InitBuilder \/ TestLoop \/ CountPass
         \/ AnswerStart \/ AnswerWait \/ AnswerData \/ LoseReply \/ UNCHANGED vars
  PROVE  Stream' = Stream /\ saved' = saved /\ (abrt => abrt')
<1>1. CASE InitBuilder
  <2>1. tmpBuffer \in Seq(Data) /\ <<>> \o tmpBuffer = tmpBuffer
    BY ConcatEmptySeq DEF IInv, TypeInv, TypeOK
  <2>. QED BY <1>1, <2>1 DEF InitBuilder, Stream, flags
<1>2. CASE ~InitBuilder
  <2>1. UNCHANGED <<tmpBuffer, buffer, saved>> /\ (bpc = "init" <=> bpc' = "init")
    BY <1>2 DEF TestStop, Send, Fails, RecvAborted, RecvStatus, StopDAQ, JoinBuilder, StopRun,
                Signal, CountPass, TestLoop, AnswerStart, AnswerWait, AnswerData, LoseReply,
                Answers, vars, loopVars
  <2>2. abrt => abrt'
    BY <1>2 DEF TestStop, Send, Fails, RecvAborted, RecvStatus, StopDAQ, JoinBuilder, StopRun,
                Signal, CountPass, TestLoop, AnswerStart, AnswerWait, AnswerData, LoseReply,
                Answers, vars, flags
  <2>. QED BY <2>1, <2>2 DEF Stream
<1>. QED BY <1>1, <1>2

\* What the builder leaves of the stream is in order and ends as it did, and what
\* it stores is a whole event or the last one.
LEMMA BuildKeeps ==
  ASSUME IInv, BuildEvent, Ordered(abrt, Stream), SavedWhole
  PROVE  Ordered(abrt', Stream') /\ Latest(Stream') = Latest(Stream) /\ SavedWhole'
<1> DEFINE b == buffer \o tmpBuffer
           m == Min(Marks(b))
           event == SubSeq(b, 1, m - 1)
           c == SubSeq(b, m + 1, Len(b))
<1>1. /\ TypeOK /\ abrt \in BOOLEAN /\ saved \in Seq(Seq(Data)) /\ Len(saved) \in Nat
      /\ bpc = "pass" /\ bpc' = "tail" /\ tmpBuffer' = <<>> /\ abrt' = abrt
  BY LenProperties DEF IInv, TypeInv, TypeOK, BuildEvent, flags
<1>2. Stream = b /\ b \in Seq(Data)
  BY <1>1, StreamTyped
<1>3. CASE Marks(b) = {}
  <2>1. buffer' = b /\ saved' = saved
    BY <1>3 DEF BuildEvent
  <2>2. Stream' = Stream
    <3> HIDE DEF b
    <3>1. b \o <<>> = b
      BY <1>2, ConcatEmptySeq
    <3>2. Stream' = b
      BY <1>1, <2>1, <3>1 DEF Stream
    <3>. QED BY <1>2, <3>2
  <2>. QED BY <1>1, <2>1, <2>2 DEF SavedWhole
<1>4. CASE Marks(b) # {}
  <2>1. buffer' = c /\ saved' = IF event = <<>> THEN saved ELSE Append(saved, event)
    BY <1>4 DEF BuildEvent
  <2> HIDE DEF b
  <2>2. /\ m \in 1..Len(b) /\ \A k \in 1..m - 1 : b[k] # Mark
        /\ event \in Seq(Data) /\ Len(event) = m - 1 /\ Len(b) \in Nat
    BY <1>2, <1>4, FirstMark, LenProperties
  <2>3. b[m] = Mark
    <3>1. Marks(b) \subseteq Nat /\ \A i \in Marks(b) : b[i] = Mark
      BY <1>2, LenProperties DEF Marks
    <3>. QED BY <1>4, <3>1, MinOfNats
  <2> HIDE DEF m
  <2>4. /\ c \in Seq(Data) /\ Ordered(abrt, c) /\ Latest(c) = Latest(b)
        /\ OnlyMarks(b, m) => OnlyMarks(c, 1)
    BY <1>1, <1>2, <2>2, <2>3, OrderedRest
  <2> HIDE DEF c
  <2>5. Stream' = c
    <3>1. c \o <<>> = c
      BY <2>4, ConcatEmptySeq
    <3>. QED BY <1>1, <2>1, <3>1 DEF Stream
  <2>6. OnlyMarks(b, 1) => m = 1 /\ OnlyMarks(c, 1)
    <3> SUFFICES ASSUME OnlyMarks(b, 1) PROVE m = 1 /\ OnlyMarks(c, 1)
      OBVIOUS
    <3>1. m = 1
      <4>1. m # 1 => 1 \in 1..m - 1 /\ 1 \in 1..Len(b)
        BY <2>2
      <4>. QED BY <2>2, <4>1 DEF OnlyMarks
    <3>. QED BY <2>4, <3>1
  <2>7. CASE event = <<>>
    <3>1. saved' = saved
      BY <2>1, <2>7
    <3>. QED BY <1>1, <1>2, <2>4, <2>5, <2>6, <3>1 DEF SavedWhole
  <2>8. CASE event # <<>>
    <3> HIDE DEF event
    <3>1. /\ Len(saved') = Len(saved) + 1 /\ saved'[Len(saved) + 1] = event
          /\ \A i \in 1..Len(saved) : saved'[i] = saved[i]
      BY <1>1, <2>1, <2>2, <2>8, AppendProperties
    <3>2. m \in 2..Len(b)
      <4>1. Len(event) # 0
        BY <2>2, <2>8, EmptySeq
      <4>. QED BY <2>2, <4>1
    <3>3. event = Whole(event[1].ev) \/ (abrt /\ OnlyMarks(b, m))
      <4>. USE DEF event
      <4>. QED BY <1>1, <1>2, <2>2, <2>3, <3>2, CutEvent
    <3>4. ASSUME NEW i \in 1..Len(saved) PROVE saved[i] = Whole(saved[i][1].ev)
      <4>1. ~OnlyMarks(Stream, 1)
        BY <1>2, <2>2, <2>6, <3>2
      <4>. QED BY <4>1 DEF SavedWhole
    <3>5. SavedWhole'
      <4> SUFFICES ASSUME NEW i \in 1..Len(saved')
                   PROVE  \/ saved'[i] = Whole(saved'[i][1].ev)
                          \/ abrt' /\ i = Len(saved') /\ OnlyMarks(Stream', 1)
        BY DEF SavedWhole
      <4>1. CASE i \in 1..Len(saved)
        BY <3>1, <3>4, <4>1
      <4>2. CASE i = Len(saved) + 1
        BY <1>1, <2>4, <2>5, <3>1, <3>3, <4>2
      <4>. QED BY <1>1, <3>1, <4>1, <4>2
    <3>. QED BY <1>1, <1>2, <2>4, <2>5, <3>5
  <2>. QED BY <2>7, <2>8
<1>. QED BY <1>3, <1>4

\* Where the steps of the commands and of the events are.
LEMMA Numbers ==
  ASSUME TypeOK
  PROVE  /\ cmd \in 1..LastCmd /\ LastCmd \in Nat /\ WaitAt \in Nat /\ WaitAt >= 1
         /\ WaitAt < LastCmd /\ replies \in Seq(Received) /\ asked \in Seq(Sent)
         /\ Packets \in Nat \ {0}
  BY SizeAssumption DEF TypeOK, WaitAt, LastCmd

\* Steps that receive no data and do not end an event.
LEMMA PlaceKept ==
  ASSUME IInv, errs' = 0, lost' = 0, NEW d, Place(d),
         \/ TestStop \/ Send \/ Fails \/ RecvAborted \/ RecvStatus \/ StopDAQ \/ JoinBuilder
         \/ StopRun \/ Signal \/ Builder
         \/ AnswerStart \/ AnswerWait \/ AnswerData \/ LoseReply \/ UNCHANGED vars
  PROVE  Place(d)'
<1> SUFFICES ASSUME ~abrt', pc' # "failed" PROVE Place(d)'
  BY DEF Place
<1>0. /\ TypeOK /\ cmd \in 1..LastCmd /\ LastCmd \in Nat /\ WaitAt \in Nat /\ WaitAt >= 1
      /\ WaitAt < LastCmd /\ replies \in Seq(Received) /\ asked \in Seq(Sent)
      /\ Packets \in Nat \ {0} /\ errs \in Nat /\ lost \in Nat
  BY Numbers, BoundAssumption DEF IInv, TypeInv, TypeOK
<1>1. CASE TestStop
  <2>1. pc = "test" /\ pc' \in {"ran", "send"} /\ (pc' = "send" => cmd' = 1) /\ abrt' = abrt
    BY <1>1 DEF TestStop, flags
  <2>2. d = Mark
    BY <2>1 DEF Place
  <2>. QED BY <1>0, <2>1, <2>2 DEF Place
<1>2. CASE Send
  <2>1. pc = "send" /\ pc' = "recv" /\ cmd' = cmd /\ abrt' = abrt /\ trig' = trig
    BY <1>2 DEF Send, flags
  <2>2. asked' # <<>>
    <3>1. asked' = Append(asked, [turn |-> turn, cmd |-> cmd])
      BY <1>0, <1>2 DEF Send
    <3>. QED BY <1>0, <3>1
  <2>. QED BY <2>1, <2>2 DEF Place, Asking
<1>3. CASE Fails
  BY <1>3 DEF Fails
<1>4. CASE RecvAborted
  BY <1>4 DEF RecvAborted, flags
<1>5. CASE RecvStatus
  <2>1. /\ pc = "recv" /\ ~abrt /\ replies # <<>>
        /\ cmd <= WaitAt \/ Head(replies).kind = "err"
    BY <1>5 DEF RecvStatus
  <2>2. cmd <= WaitAt
    <3> SUFFICES ASSUME cmd > WaitAt PROVE FALSE
      BY <1>0
    <3>1. asked = <<>>
      BY <2>1 DEF IInv, Exchange
    <3>2. replies[1].kind = "data"
      BY <1>0, <2>1, <3>1, TakeFirst DEF Place
    <3>. QED BY <1>0, <2>1, <3>2, TakeFirst
  <2>3. d = Mark
    BY <2>1, <2>2 DEF Place
  <2>4. pc' = "send" /\ cmd' \in {cmd, cmd + 1}
    <3>1. PICK retry \in BOOLEAN : Return(retry)
      BY <1>5 DEF RecvStatus
    <3>. QED BY <1>0, <2>1, <2>2, <3>1 DEF Return
  <2>5. cmd' <= WaitAt \/ cmd' = WaitAt + 1
    BY <1>0, <2>2, <2>4
  <2>6. CASE cmd' <= WaitAt
    <3>1. ~(cmd' > WaitAt)
      BY <1>0, <2>4, <2>6
    <3>. QED BY <2>3, <2>4, <3>1 DEF Place
  <2>7. CASE cmd' = WaitAt + 1
    <3>1. Asking(cmd, d)'
      BY <2>3, <2>7 DEF Asking
    <3>. QED BY <2>3, <2>4, <3>1 DEF Place
  <2>. QED BY <2>5, <2>6, <2>7
<1>6. CASE StopRun \/ StopDAQ \/ JoinBuilder
  <2>1. /\ abrt' = abrt /\ UNCHANGED <<cmd, asked, replies, trig>>
        /\ pc' = pc \/ (pc \in {"ran", "join"} /\ pc' \in {"join", "idle"})
    BY <1>6 DEF StopRun, StopDAQ, JoinBuilder, flags, dccVars, mainVars
  <2>. QED BY <2>1 DEF Place, Asking
<1>7. CASE Signal
  BY <1>7 DEF Signal
<1>8. CASE Builder \/ UNCHANGED vars
  <2>1. UNCHANGED <<pc, cmd, abrt, asked, replies, trig>>
    BY <1>8 DEF Builder, InitBuilder, TestLoop, BuildEvent, CountPass, vars, mainVars, flags,
                dccVars
  <2>. QED BY <2>1 DEF Place, Asking
<1>9. CASE AnswerStart \/ AnswerWait
  <2>1. /\ asked # <<>> /\ abrt' = abrt /\ UNCHANGED <<pc, cmd, turn>>
    BY <1>9 DEF AnswerStart, AnswerWait, Answers, mainVars, flags
  <2>2. Head(asked).cmd <= WaitAt
    <3>1. Head(asked) \in Sent
      BY <1>0, <2>1, TakeFirst
    <3>2. Head(asked).cmd \in Int
      BY <1>0, <3>1 DEF Sent
    <3>. QED BY <1>0, <1>9, <3>2 DEF AnswerStart, AnswerWait
  <2>3. pc = "recv" /\ cmd <= WaitAt
    <3>1. pc = "recv" /\ asked = <<[turn |-> turn, cmd |-> cmd]>>
      BY <2>1 DEF IInv, Exchange
    <3>. QED BY <2>2, <3>1
  <2>4. d = Mark
    BY <2>1, <2>3 DEF Place
  <2>. QED BY <1>0, <2>1, <2>3, <2>4 DEF Place
<1>10. CASE AnswerData
  <2>1. /\ asked # <<>> /\ abrt' = abrt /\ UNCHANGED <<pc, cmd, turn, trig>>
        /\ asked' = Tail(asked)
        /\ replies' = replies \o [p \in 1..Packets |->
                                    Reply(Head(asked), "data", Packet(trig, Head(asked).cmd, p))]
        /\ Head(asked).cmd > WaitAt
    BY <1>0, <1>10 DEF AnswerData, Answers, mainVars, flags
  <2>2. /\ pc = "recv" /\ asked = <<[turn |-> turn, cmd |-> cmd]>> /\ replies = <<>>
    BY <2>1 DEF IInv, Exchange
  <2>3. asked' = <<>> /\ cmd > WaitAt /\ Head(asked).cmd = cmd
    BY <2>1, <2>2
  <2>5. Asking(cmd, d)
    BY <2>1, <2>2, <2>3 DEF Place
  <2>6. /\ Len(replies') = Packets - 0
        /\ \A i \in 1..Len(replies') : /\ replies'[i].kind = "data"
                                       /\ replies'[i].data = Packet(trig, cmd, 0 + i)
    <3> DEFINE r == [p \in 1..Packets |-> Reply(Head(asked), "data", Packet(trig, cmd, p))]
    <3>1. r \in Seq({r[p] : p \in 1..Packets}) /\ Len(r) = Packets
      BY SizeAssumption, IsASeq, LenProperties
    <3>2. replies' = r
      <4> HIDE DEF r
      <4>1. <<>> \o r = r
        BY <3>1, ConcatEmptySeq
      <4>. USE DEF r
      <4>. QED BY <2>1, <2>2, <2>3, <4>1
    <3>3. \A p \in 1..Packets : r[p].kind = "data" /\ r[p].data = Packet(trig, cmd, p)
      BY DEF Reply
    <3> HIDE DEF r
    <3>4. \A i \in 1..Packets : 0 + i = i
      OBVIOUS
    <3>. QED BY <1>0, <3>1, <3>2, <3>3, <3>4
  <2>7. 0 \in 0..Packets - 1
    BY <1>0
  <2>8. ~(cmd <= WaitAt)
    BY <1>0, <2>3
  <2>9. Asking(cmd, d)'
    BY <2>1, <2>5 DEF Asking
  <2>. QED BY <2>1, <2>2, <2>3, <2>6, <2>7, <2>8, <2>9 DEF Place
<1>11. CASE LoseReply
  BY <1>0, <1>11 DEF LoseReply
<1>. QED BY <1>1, <1>2, <1>3, <1>4, <1>5, <1>6, <1>7, <1>8, <1>9, <1>10, <1>11

\* A packet is received: it is the next one of the request.
LEMMA PlaceData ==
  ASSUME IInv, errs = 0, lost = 0, NEW d, Place(d), RecvData,
         NEW it, it = Head(replies).data
  PROVE  it \in Data \ {Mark} /\ Continues(d, it) /\ Place(it)'
<1>0. /\ TypeOK /\ cmd \in 1..LastCmd /\ LastCmd \in Nat /\ WaitAt \in Nat /\ WaitAt >= 1
      /\ WaitAt < LastCmd /\ replies \in Seq(Received) /\ asked \in Seq(Sent)
      /\ Packets \in Nat \ {0} /\ trig \in 0..MaxTriggers
  BY Numbers DEF IInv, TypeInv, TypeOK
<1>1. /\ pc = "recv" /\ ~abrt /\ replies # <<>> /\ cmd > WaitAt
      /\ replies' = Tail(replies) /\ UNCHANGED <<asked, trig, abrt>>
      /\ IF it.part = Packets THEN Return(FALSE) ELSE UNCHANGED <<mainVars, after>>
  BY DEF RecvData, EndOfRequest, flags
<1>2. asked = <<>>
  BY <1>1 DEF IInv, Exchange
<1>3. PICK n \in 0..Packets - 1 :
        /\ Len(replies) = Packets - n
        /\ \A i \in 1..Len(replies) : /\ replies[i].kind = "data"
                                      /\ replies[i].data = Packet(trig, cmd, n + i)
        /\ IF n = 0 THEN Asking(cmd, d) ELSE d = Packet(trig, cmd, n)
  BY <1>1, <1>2 DEF Place
<1>4. /\ 1 \in 1..Len(replies) /\ Head(replies) = replies[1]
      /\ Tail(replies) \in Seq(Received) /\ Len(replies) \in Nat
      /\ Len(Tail(replies)) = Len(replies) - 1
      /\ \A i \in 1..Len(replies) - 1 : Tail(replies)[i] = replies[i + 1]
  BY <1>0, <1>1, TakeFirst
<1>5. it = Packet(trig, cmd, n + 1)
  <2>1. replies[1].data = Packet(trig, cmd, n + 1)
    BY <1>3, <1>4
  <2>. QED BY <1>4, <2>1
<1>6. it.ev = trig /\ it.req = cmd /\ it.part = n + 1 /\ n \in Nat /\ n + 1 \in 1..Packets
  BY <1>0, <1>5 DEF Packet
<1>7. it \in Data \ {Mark}
  <2>1. it \in Data
    <3>1. cmd \in 0..LastCmd
      BY <1>0
    <3>. QED BY <1>0, <1>5, <1>6, <3>1, DataTyped
  <2>2. Mark.part = 0
    BY DEF Mark, Packet
  <2>. QED BY <1>6, <2>1, <2>2
<1>8. Continues(d, it)
  <2>1. \A c, p : /\ Packet(trig, c, p).ev = trig /\ Packet(trig, c, p).req = c
                  /\ Packet(trig, c, p).part = p
    BY DEF Packet
  <2>2. Mark.part = 0
    BY DEF Mark, Packet
  <2>3. CASE n = 0
    <3>1. Asking(cmd, d)
      BY <1>3, <2>3
    <3>2. CASE cmd = WaitAt + 1
      BY <1>6, <2>3, <3>1, <3>2 DEF Asking, Continues
    <3>3. CASE cmd # WaitAt + 1
      <4>1. d.ev = trig /\ d.req = cmd - 1 /\ d.part = Packets /\ d # Mark
        BY <1>0, <2>1, <2>2, <3>1, <3>3 DEF Asking
      <4>2. cmd = d.req + 1
        BY <1>0, <4>1
      <4>. QED BY <1>6, <2>3, <4>1, <4>2 DEF Continues
    <3>. QED BY <3>2, <3>3
  <2>4. CASE n # 0
    <3>1. d.ev = trig /\ d.req = cmd /\ d.part = n /\ d # Mark
      BY <1>3, <2>1, <2>2, <2>4
    <3>2. n # Packets
      BY <1>0, <1>6
    <3>. QED BY <1>6, <3>1, <3>2 DEF Continues
  <2>. QED BY <2>3, <2>4
<1>9. ASSUME n + 1 = Packets PROVE Place(it)'
  <2>1. Return(FALSE) /\ it = Packet(trig, cmd, Packets)
    BY <1>1, <1>5, <1>6, <1>9
  <2>2. CASE cmd = LastCmd
    <3>1. pc' = "mark"
      BY <1>0, <1>1, <2>1, <2>2 DEF Return
    <3>. QED BY <1>1, <2>1, <2>2, <3>1 DEF Place
  <2>3. CASE cmd # LastCmd
    <3>1. pc' = "send" /\ cmd' = cmd + 1
      BY <1>0, <1>1, <2>1, <2>3 DEF Return
    <3>2. cmd' # WaitAt + 1 /\ cmd' - 1 = cmd /\ ~(cmd' <= WaitAt)
      BY <1>0, <1>1, <3>1
    <3>3. Asking(cmd, it)'
      BY <1>1, <2>1, <3>2 DEF Asking
    <3>. QED BY <3>1, <3>2, <3>3 DEF Place
  <2>. QED BY <2>2, <2>3
<1>10. ASSUME n + 1 # Packets PROVE Place(it)'
  <2>1. UNCHANGED <<pc, cmd, turn>>
    BY <1>1, <1>6, <1>10 DEF mainVars
  <2> DEFINE k == n + 1
  <2>2. k \in 0..Packets - 1 /\ k # 0 /\ it = Packet(trig, cmd, k)
    BY <1>0, <1>5, <1>6, <1>10
  <2>3. Len(replies') = Packets - k
    BY <1>0, <1>1, <1>3, <1>4, <1>6
  <2>4. ASSUME NEW i \in 1..Len(replies')
        PROVE  replies'[i].kind = "data" /\ replies'[i].data = Packet(trig, cmd, k + i)
    <3>1. i + 1 \in 1..Len(replies) /\ i \in 1..Len(replies) - 1 /\ n + (i + 1) = k + i
      BY <1>1, <1>4, <1>6
    <3>2. replies'[i] = replies[i + 1]
      BY <1>1, <1>4, <3>1
    <3>3. /\ replies[i + 1].kind = "data"
          /\ replies[i + 1].data = Packet(trig, cmd, n + (i + 1))
      BY <1>3, <3>1
    <3>. QED BY <3>1, <3>2, <3>3
  <2> HIDE DEF k
  <2>5. ~(cmd <= WaitAt) /\ asked' = <<>> /\ pc' = "recv" /\ cmd' = cmd /\ trig' = trig
    BY <1>0, <1>1, <1>2, <2>1
  <2>6. \E l \in 0..Packets - 1 :
          /\ Len(replies') = Packets - l
          /\ \A i \in 1..Len(replies') : /\ replies'[i].kind = "data"
                                         /\ replies'[i].data = Packet(trig, cmd, l + i)
          /\ l # 0 /\ it = Packet(trig, cmd, l)
    BY <2>2, <2>3, <2>4
  <2>. QED BY <2>5, <2>6 DEF Place
<1>. QED BY <1>7, <1>8, <1>9, <1>10

\* When a run begins nothing of an event is under way.
LEMMA PlaceClears ==
  ASSUME NEW d, Place(d), StartDAQ \/ ClearBuffer
  PROVE  Place(d)' /\ Place(Mark)' /\ (~abrt => d = Mark \/ pc = "failed")
<1>1. pc \in {"idle", "clear"} /\ pc' \in {"clear", "test"} /\ abrt' = abrt
  BY DEF StartDAQ, ClearBuffer, flags
<1>2. (~abrt /\ pc # "failed") => d = Mark
  BY <1>1 DEF Place
<1>3. ASSUME NEW e, ~abrt => e = Mark PROVE Place(e)'
  BY <1>1, <1>3 DEF Place
<1>. QED BY <1>1, <1>2, <1>3

\* A mark is inserted behind the last packet of an event, unless it was aborted.
LEMMA PlaceMark ==
  ASSUME NEW d, Place(d), MarkEvent, abrt \in BOOLEAN
  PROVE  (Ends(d) \/ abrt) /\ Place(Mark)'
<1>1. pc = "mark" /\ pc' = "test" /\ abrt' = abrt
  BY DEF MarkEvent, flags
<1>2. ~abrt => d = Packet(trig, LastCmd, Packets)
  BY <1>1 DEF Place
<1>. QED BY <1>1, <1>2 DEF Place, Ends, Packet

\* Every step keeps the stream in order and the events stored whole.
LEMMA NextWhole == ASSUME IInv, SplitInv, WholeInv, [Next]_vars PROVE WholeInv'
<1> SUFFICES ASSUME errs' = 0, lost' = 0
             PROVE  Ordered(abrt, Stream)' /\ Place(Latest(Stream))' /\ SavedWhole'
  BY DEF WholeInv
<1>1. /\ TypeOK /\ abrt \in BOOLEAN /\ abrt' \in BOOLEAN /\ Stream \in Seq(Data)
      /\ errs = 0 /\ lost = 0
  BY NextType, ErrorsStay, StreamTyped DEF IInv, TypeInv, TypeOK
<1>2. Ordered(abrt, Stream) /\ Place(Latest(Stream)) /\ SavedWhole
  BY <1>1 DEF WholeInv
<1>3. PICK d : d = Latest(Stream)
  OBVIOUS
<1>4. Place(d)
  BY <1>2, <1>3 DEF Place, Asking
<1>5. ASSUME NEW e, Place(e)', Latest(Stream') = e PROVE Place(Latest(Stream))'
  BY <1>5 DEF Place, Asking
<1>6. CASE StartDAQ \/ ClearBuffer
  <2>1. Stream' \in {Stream, <<>>} /\ abrt' = abrt
    BY <1>6, StreamClears DEF StartDAQ, ClearBuffer, flags
  <2>2. Ordered(abrt', Stream') /\ (OnlyMarks(Stream, 1) => OnlyMarks(Stream', 1))
    BY <1>2, <2>1, StreamTyped, <1>1
  <2>3. Place(d)' /\ Place(Mark)'
    BY <1>4, <1>6, PlaceClears
  <2>4. Place(Latest(Stream))'
    <3>1. Latest(Stream') = d \/ Latest(Stream') = Mark
      BY <1>1, <1>3, <2>1, StreamTyped
    <3>2. PICK e : e = Mark
      OBVIOUS
    <3>3. Place(e)'
      BY <2>3, <3>2 DEF Place, Asking
    <3>. QED BY <1>5, <2>3, <3>1, <3>2, <3>3
  <2>5. saved' \in {saved, <<>>}
    BY <1>6 DEF StartDAQ, ClearBuffer, loopVars
  <2>6. SavedWhole'
    BY <1>2, <2>1, <2>2, <2>5 DEF SavedWhole
  <2>. QED BY <2>1, <2>2, <2>4, <2>6
<1>7. ASSUME NEW x \in Data, tmpBuffer' = Append(tmpBuffer, x),
             UNCHANGED <<bpc, buffer, saved, abrt>>, Place(x)',
             IF x = Mark THEN Ends(d) \/ abrt ELSE Continues(d, x) /\ ~abrt
      PROVE  Ordered(abrt, Stream)' /\ Place(Latest(Stream))' /\ SavedWhole'
  <2>1. Stream' = Append(Stream, x)
    BY <1>1, <1>7, StreamGrows
  <2>2. /\ Ordered(abrt, Append(Stream, x)) /\ Latest(Append(Stream, x)) = x
        /\ (x = Mark /\ OnlyMarks(Stream, 1)) => OnlyMarks(Append(Stream, x), 1)
    BY <1>1, <1>2, <1>3, <1>7, OrderedAppend
  <2>3. Place(Latest(Stream))'
    BY <1>5, <1>7, <2>1, <2>2
  <2>4. SavedWhole'
    BY <1>2, <1>7, <2>1, <2>2 DEF SavedWhole
  <2>. QED BY <1>7, <2>1, <2>2, <2>3, <2>4
<1>8. CASE RecvData
  <2>1. PICK it : it = Head(replies).data
    OBVIOUS
  <2>2. it \in Data \ {Mark} /\ Continues(d, it) /\ Place(it)'
    BY <1>1, <1>4, <1>8, <2>1, PlaceData
  <2>3. /\ tmpBuffer' = Append(tmpBuffer, it) /\ UNCHANGED <<bpc, buffer, saved, abrt>>
        /\ ~abrt
    BY <1>8, <2>1 DEF RecvData, loopVars, flags
  <2>. QED BY <1>7, <2>2, <2>3
<1>9. CASE MarkEvent
  <2>1. (Ends(d) \/ abrt) /\ Place(Mark)'
    BY <1>1, <1>4, <1>9, PlaceMark
  <2>2. /\ tmpBuffer' = Append(tmpBuffer, Mark) /\ UNCHANGED <<bpc, buffer, saved, abrt>>
    BY <1>9 DEF MarkEvent, loopVars, flags
  <2>3. PICK e : e = Mark
    OBVIOUS
  <2>4. Place(e)'
    BY <2>1, <2>3 DEF Place, Asking
  <2>. QED BY <1>7, <2>1, <2>2, <2>3, <2>4, DataTyped
<1>10. CASE BuildEvent
  <2>1. Ordered(abrt', Stream') /\ Latest(Stream') = d /\ SavedWhole'
    BY <1>2, <1>3, <1>10, BuildKeeps
  <2>2. Place(d)'
    BY <1>4, <1>10, PlaceKept DEF Builder
  <2>. QED BY <1>5, <2>1, <2>2
<1>11. CASE \/ TestStop \/ Send \/ Fails \/ RecvAborted \/ RecvStatus \/ StopDAQ
            \/ JoinBuilder \/ StopRun \/ Signal \/ InitBuilder \/ TestLoop \/ CountPass
            \/ AnswerStart \/ AnswerWait \/ AnswerData \/ LoseReply \/ UNCHANGED vars
  <2>1. Stream' = Stream /\ saved' = saved /\ (abrt => abrt')
    BY <1>11, StreamKept
  <2>2. Place(d)'
    <3>1. \/ TestStop \/ Send \/ Fails \/ RecvAborted \/ RecvStatus \/ StopDAQ \/ JoinBuilder
          \/ StopRun \/ Signal \/ Builder
          \/ AnswerStart \/ AnswerWait \/ AnswerData \/ LoseReply \/ UNCHANGED vars
      BY <1>11 DEF Builder
    <3>. QED BY <1>4, <3>1, PlaceKept
  <2>3. Place(Latest(Stream))'
    BY <1>3, <1>5, <2>1, <2>2
  <2>4. Ordered(abrt', Stream')
    <3>1. Ordered(abrt', Stream)
      BY <1>1, <1>2, <2>1 DEF Ordered, Fits
    <3>. QED BY <2>1, <3>1
  <2>5. SavedWhole'
    BY <1>2, <2>1 DEF SavedWhole
  <2>. QED BY <2>3, <2>4, <2>5
<1>. QED BY <1>6, <1>8, <1>9, <1>10, <1>11 DEF Next, Loop, Builder

\* Before the first run there is nothing on the way.
LEMMA InitWhole == Init => SplitInv /\ WholeInv
<1> SUFFICES ASSUME Init PROVE SplitInv /\ WholeInv
  OBVIOUS
<1>1. <<>> \o <<>> = <<>> /\ Len(<<>>) = 0
  BY EmptySeq, ConcatEmptySeq
<1>2. SplitInv
  BY DEF Init, SplitInv
<1>3. Stream = <<>>
  BY <1>1 DEF Init, Stream
<1>4. Ordered(abrt, Stream) /\ Latest(Stream) = Mark
  BY <1>1, <1>3 DEF Ordered, Latest, Prev
<1>5. Place(Latest(Stream))
  BY <1>4 DEF Init, Place
<1>6. SavedWhole
  BY <1>1 DEF Init, SavedWhole
<1>. QED BY <1>2, <1>4, <1>5, <1>6 DEF WholeInv

\* Without losses and errors every event stored, of whatever run, is all the data
\* of one trigger, but for the last one of a program that was aborted.  A builder
\* that gives up after a single pass would cut the last event of a run.
THEOREM EventsWholeHolds == ASSUME MaxDrain > 1 PROVE Spec => []EventsWhole
<1>1. IInv /\ SplitInv /\ WholeInv /\ [Next]_vars => SplitInv' /\ WholeInv'
  BY NextSplit, NextWhole
<1>2. IInv /\ WholeInv => EventsWhole
  <2> SUFFICES ASSUME IInv, WholeInv, errs = 0, lost = 0, NEW i \in DOMAIN saved
               PROVE  saved[i] = Whole(saved[i][1].ev) \/ (abrt /\ i = Len(saved))
    BY DEF EventsWhole
  <2>1. i \in 1..Len(saved)
    BY LenProperties DEF IInv, TypeInv, TypeOK
  <2>. QED BY <2>1 DEF WholeInv, SavedWhole
<1>. QED BY <1>1, <1>2, InitWhole, Inductive, PTL DEF Spec
===============================================================================
