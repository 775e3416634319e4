---------------------------- MODULE CommandsProofs ----------------------------
(***************************************************************************)
(* Proofs, for any number of FEMs and commands and any losses, duplicates  *)
(* and failures, that the FEMs stay in step and that nothing is on its way *)
(* between two commands.  The argument counts copies: a reply is on its    *)
(* way or counted as often as its command was sent or it was duplicated.   *)
(***************************************************************************)
EXTENDS Commands, SequenceTheorems, FiniteSetTheorems, TLAPS

(***************************************************************************)
(* The commands that a queue of datagrams holds.                           *)
(***************************************************************************)
Elems(s) == {s[k] : k \in 1..Len(s)}

\* A datagram joins the queue.
LEMMA ElemsAppend ==
  ASSUME NEW S, NEW s \in Seq(S), NEW x \in S
  PROVE  /\ Append(s, x) \in Seq(S) /\ Len(Append(s, x)) = Len(s) + 1
         /\ Elems(Append(s, x)) = Elems(s) \cup {x}
<1> DEFINE t == Append(s, x)
<1>1. /\ Len(s) \in Nat /\ t \in Seq(S) /\ Len(t) = Len(s) + 1 /\ t[Len(s) + 1] = x
      /\ \A k \in 1..Len(s) : t[k] = s[k]
  BY LenProperties, AppendProperties
<1> HIDE DEF t
<1>2. \A k \in 1..Len(s) + 1 : k \in 1..Len(s) \/ k = Len(s) + 1
  BY <1>1
<1>3. Len(s) + 1 \in 1..Len(s) + 1 /\ \A k \in 1..Len(s) : k \in 1..Len(s) + 1
  BY <1>1
<1>4. Elems(t) = Elems(s) \cup {x}
  BY <1>1, <1>2, <1>3 DEF Elems
<1>. QED BY <1>1, <1>4 DEF t

\* The first datagram leaves the queue.
LEMMA ElemsTail ==
  ASSUME NEW S, NEW s \in Seq(S), s # <<>>
  PROVE  /\ Head(s) \in S /\ Tail(s) \in Seq(S) /\ Len(Tail(s)) = Len(s) - 1
         /\ Len(s) \in Nat /\ Len(s) >= 1
         /\ Elems(s) = Elems(Tail(s)) \cup {Head(s)}
<1> DEFINE t == Tail(s)
           x == Head(s)
<1>1. /\ Len(s) \in Nat \ {0} /\ x \in S /\ t \in Seq(S) /\ Len(t) = Len(s) - 1
      /\ \A k \in 1..Len(t) : t[k] = s[k + 1]
  BY EmptySeq, HeadTailProperties
<1>2. x = s[1]
  OBVIOUS
<1> HIDE DEF t, x
<1>3. ASSUME NEW k \in 1..Len(s), k # 1 PROVE k - 1 \in 1..Len(t) /\ s[k] = t[k - 1]
  <2>1. k - 1 \in 1..Len(t) /\ k - 1 + 1 = k
    BY <1>1, <1>3
  <2>. QED BY <1>1, <2>1
<1>4. 1 \in 1..Len(s) /\ \A k \in 1..Len(t) : k + 1 \in 1..Len(s)
  BY <1>1
<1>5. Elems(s) \subseteq Elems(t) \cup {x}
  BY <1>2, <1>3 DEF Elems
<1>6. Elems(t) \cup {x} \subseteq Elems(s)
  BY <1>1, <1>2, <1>4 DEF Elems
<1>. QED BY <1>1, <1>5, <1>6 DEF t, x

\* A queue holds at most as many commands as datagrams.
LEMMA ElemsCount ==
  ASSUME NEW S, NEW s \in Seq(S)
  PROVE  IsFiniteSet(Elems(s)) /\ Cardinality(Elems(s)) <= Len(s)
<1>1. Len(s) \in Nat /\ s \in [1..Len(s) -> S]
  BY LenProperties
<1>2. s \in Surjection(1..Len(s), Elems(s))
  BY <1>1 DEF Elems, Surjection
<1>3. IsFiniteSet(1..Len(s)) /\ Cardinality(1..Len(s)) = Len(s)
  BY <1>1, FS_Interval
<1>. QED BY <1>2, <1>3, FS_Surjection

(***************************************************************************)
(* The invariant.                                                          *)
(***************************************************************************)
Types == /\ pc \in {"prompt", "waiting", "unwinding", "closing", "joining", "ended"}
         /\ next \in 1..N + 1 /\ active \subseteq FEM /\ cmds \in 0..MaxCmds
         /\ task \in [FEM -> {"none", "send", "sent", "wait", "sleep", "done", "failed"}]
         /\ cmd_sent \in [FEM -> Nat] /\ cmd_rcv \in [FEM -> Nat]
         /\ stopReceiver \in BOOLEAN
         /\ receiver \in [FEM -> {"recv", "print", "off"}] /\ reply \in [FEM -> 0..MaxCmds]
         /\ toFem \in [FEM -> Seq(Cmd)] /\ toHost \in [FEM -> Seq(Cmd)]
         /\ sent \in [FEM -> SUBSET Cmd] /\ logged \in [FEM -> SUBSET Cmd]
         /\ dup \in [FEM -> 0..MaxDup] /\ lost \in 0..MaxLost /\ fails \in 0..MaxFails

\* The commands of FEM f that the network, the receiver or the log knows of,
\* and the number of copies of them, counting the replies counted.
Handled(f) == IF receiver[f] = "print" THEN {reply[f]} ELSE {}
Printing(f) == IF receiver[f] = "print" THEN 1 ELSE 0
Known(f) == logged[f] \cup Handled(f) \cup Elems(toHost[f]) \cup Elems(toFem[f])
Copies(f) == cmd_rcv[f] + Printing(f) + Len(toHost[f]) + Len(toFem[f])

\* Every reply before the command in progress is in the log, but for as many
\* as there were duplicates.
Settled(f) == Cardinality({d \in sent[f] \ logged[f] : d < cmds}) <= dup[f]

Idle(f) == task[f] \in {"none", "done"}

\* The threads that the main thread has waited for have ended well, and the
\* receivers run until the program ends.
MainInv == /\ pc = "prompt" => \A f \in FEM : Idle(f)
           /\ pc = "waiting" => \A f \in 1..next - 1 : Idle(f)
           /\ pc \in {"prompt", "waiting"} => ~stopReceiver
           /\ \A f \in FEM : receiver[f] = "off" => stopReceiver

\* What is known of a FEM was sent to it, each command once; there are not more
\* copies than commands and duplicates; and a thread that ended by itself has
\* seen as many replies counted as commands.
FemInv(f) ==
  /\ sent[f] \subseteq 1..cmds /\ Known(f) \subseteq sent[f]
  /\ task[f] = "send" => cmds \in Cmd /\ cmds \notin sent[f]
  /\ cmd_sent[f] + (IF task[f] = "sent" THEN 1 ELSE 0) = Cardinality(sent[f])
  /\ Copies(f) <= Cardinality(Known(f)) + dup[f]
  /\ (task[f] \in {"none", "done", "send"} /\ ~stopReceiver) => cmd_rcv[f] >= cmd_sent[f]
  /\ Settled(f)

IInv == Types /\ MainInv /\ \A f \in FEM : FemInv(f)

\* The commands sent to a FEM are finitely many, and so are those known of it.
LEMMA Finite ==
  ASSUME Types, NEW f \in FEM, FemInv(f)
  PROVE  /\ IsFiniteSet(sent[f]) /\ Cardinality(sent[f]) \in 0..cmds
         /\ IsFiniteSet(Known(f)) /\ Cardinality(Known(f)) \in Nat
         /\ Cardinality(Known(f)) <= Cardinality(sent[f])
<1>1. cmds \in Nat
  BY BoundAssumption DEF Types
<1>2. IsFiniteSet(1..cmds) /\ Cardinality(1..cmds) = cmds
  BY <1>1, FS_Interval
<1>3. sent[f] \in SUBSET (1..cmds) /\ Known(f) \in SUBSET sent[f]
  BY DEF FemInv
<1>4. IsFiniteSet(sent[f]) /\ Cardinality(sent[f]) <= Cardinality(1..cmds)
  BY <1>2, <1>3, FS_Subset
<1>5. IsFiniteSet(Known(f)) /\ Cardinality(Known(f)) <= Cardinality(sent[f])
  BY <1>3, <1>4, FS_Subset
<1>6. Cardinality(sent[f]) \in Nat /\ Cardinality(Known(f)) \in Nat
  BY <1>4, <1>5, FS_CardinalityType
<1>. QED BY <1>1, <1>2, <1>4, <1>5, <1>6

\* The counters are bounded by the number of commands and of duplicates.
LEMMA CountersBounded == IInv => TypeOK
<1> SUFFICES ASSUME IInv PROVE TypeOK
  OBVIOUS
<1>1. ASSUME NEW f \in FEM
      PROVE  cmd_sent[f] \in 0..MaxCmds /\ cmd_rcv[f] \in 0..MaxCmds + MaxDup
  <2>1. /\ cmd_sent[f] \in Nat /\ cmd_rcv[f] \in Nat /\ cmds \in 0..MaxCmds
        /\ dup[f] \in 0..MaxDup /\ toHost[f] \in Seq(Cmd) /\ toFem[f] \in Seq(Cmd)
    BY DEF IInv, Types
  <2>2. Len(toHost[f]) \in Nat /\ Len(toFem[f]) \in Nat /\ Printing(f) \in Nat
    BY <2>1, LenProperties DEF Printing
  <2>3. /\ Cardinality(sent[f]) \in 0..cmds /\ Cardinality(Known(f)) \in Nat
        /\ Cardinality(Known(f)) <= Cardinality(sent[f])
    BY Finite DEF IInv
  <2>4. /\ cmd_sent[f] <= Cardinality(sent[f])
        /\ Copies(f) <= Cardinality(Known(f)) + dup[f]
    BY <2>1, <2>3 DEF IInv, FemInv
  <2>5. cmd_rcv[f] <= Copies(f) /\ Copies(f) \in Nat
    <3>1. \A a, b, c, d \in Nat : a <= a + b + c + d /\ a + b + c + d \in Nat
      OBVIOUS
    <3>2. cmd_rcv[f] \in Nat
      BY <2>1
    <3>. QED BY <2>2, <3>1, <3>2 DEF Copies
  <2>6. /\ MaxCmds \in Nat /\ MaxDup \in Nat /\ cmds \in Nat /\ cmds <= MaxCmds
        /\ dup[f] \in Nat /\ dup[f] <= MaxDup
    BY <2>1, BoundAssumption
  <2>7. Cardinality(sent[f]) \in Nat /\ Cardinality(sent[f]) <= cmds
    BY <2>3, <2>6
  <2>8. cmd_sent[f] <= MaxCmds
    BY <2>1, <2>4, <2>6, <2>7
  <2>9. cmd_rcv[f] <= MaxCmds + MaxDup
    BY <2>1, <2>3, <2>4, <2>5, <2>6, <2>7
  <2>. QED BY <2>1, <2>6, <2>8, <2>9
<1>. QED BY <1>1 DEF IInv, Types, TypeOK

\* The parts of the number of copies are naturals.
LEMMA CopiesTyped ==
  ASSUME Types, NEW f \in FEM
  PROVE  /\ cmd_rcv[f] \in Nat /\ cmd_sent[f] \in Nat /\ dup[f] \in Nat
         /\ Printing(f) \in Nat /\ Len(toHost[f]) \in Nat /\ Len(toFem[f]) \in Nat
         /\ toHost[f] \in Seq(Cmd) /\ toFem[f] \in Seq(Cmd)
<1>1. toHost[f] \in Seq(Cmd) /\ toFem[f] \in Seq(Cmd) /\ dup[f] \in 0..MaxDup
  BY DEF Types
<1>2. Len(toHost[f]) \in Nat /\ Len(toFem[f]) \in Nat
  BY <1>1, LenProperties
<1>. QED BY <1>1, <1>2, BoundAssumption DEF Types, Printing

\* Sums of copies, without their names.
LEMMA Sums ==
  /\ \A r, p, h, t, k, d, s \in Nat :
       r + p + h + t <= k + d /\ k <= s /\ r >= s => p + h + t <= d
  /\ \A r, p, h, t, k, d, s, l \in Nat :
       r + p + h + t <= k + d /\ k <= l + p + h + t /\ r >= s => s <= l + d
  OBVIOUS

\* A thread that is not at work has left no more on its way to and from its FEM
\* than what was duplicated, and everything else is in the log.
LEMMA AllAnswered ==
  ASSUME Types, NEW f \in FEM, FemInv(f), Idle(f), ~stopReceiver
  PROVE  /\ Printing(f) + Len(toHost[f]) + Len(toFem[f]) <= dup[f]
         /\ Cardinality(sent[f] \ logged[f]) <= dup[f]
<1> DEFINE h == Len(toHost[f])
           t == Len(toFem[f])
           p == Printing(f)
           s == Cardinality(sent[f])
           k == Cardinality(Known(f))
           l == Cardinality(logged[f])
<1>1. /\ cmd_rcv[f] \in Nat /\ dup[f] \in Nat /\ p \in Nat /\ h \in Nat /\ t \in Nat
      /\ s \in Nat /\ k \in Nat /\ k <= s
  BY CopiesTyped, Finite, BoundAssumption DEF Types
<1>2. cmd_rcv[f] + p + h + t <= k + dup[f]
  BY DEF FemInv, Copies
<1>3. cmd_rcv[f] >= s
  <2>1. cmd_rcv[f] >= cmd_sent[f] /\ task[f] # "sent" /\ cmd_sent[f] \in Nat
    BY CopiesTyped DEF FemInv, Idle
  <2>. QED BY <1>1, <2>1 DEF FemInv
<1>4. logged[f] \subseteq sent[f] /\ IsFiniteSet(sent[f]) /\ IsFiniteSet(logged[f])
  <2>1. logged[f] \in SUBSET sent[f]
    BY DEF FemInv, Known
  <2>. QED BY <2>1, Finite, FS_Subset
<1>5. l \in Nat /\ k <= l + p + h + t
  <2> DEFINE A == logged[f] \cup Handled(f)
             B == Elems(toHost[f])
             C == Elems(toFem[f])
  <2>1. IsFiniteSet(A) /\ Cardinality(A) <= l + p /\ l \in Nat
    <3>1. l \in Nat
      BY <1>4, FS_CardinalityType
    <3>2. CASE receiver[f] = "print"
      <4>1. A = logged[f] \cup {reply[f]} /\ p = 1
        BY <3>2 DEF Handled, Printing
      <4>2. IsFiniteSet(A) /\ Cardinality(A) = IF reply[f] \in logged[f] THEN l ELSE l + 1
        BY <1>4, <4>1, FS_AddElement
      <4> HIDE DEF A, l, p
      <4>. QED BY <3>1, <4>1, <4>2
    <3>3. CASE receiver[f] # "print"
      <4>1. A = logged[f] /\ p = 0
        BY <3>3 DEF Handled, Printing
      <4> HIDE DEF p
      <4>. QED BY <1>4, <3>1, <4>1
    <3>. QED BY <3>2, <3>3
  <2>2. /\ IsFiniteSet(B) /\ Cardinality(B) <= h
        /\ IsFiniteSet(C) /\ Cardinality(C) <= t
    BY CopiesTyped, ElemsCount
  <2>3. Known(f) = (A \cup B) \cup C
    BY DEF Known
  <2> HIDE DEF A, B, C, h, t, p, l
  <2>4. /\ IsFiniteSet(A \cup B)
        /\ Cardinality(A \cup B) = Cardinality(A) + Cardinality(B) - Cardinality(A \cap B)
    BY <2>1, <2>2, FS_Union
  <2>5. Cardinality((A \cup B) \cup C)
          = Cardinality(A \cup B) + Cardinality(C) - Cardinality((A \cup B) \cap C)
    BY <2>2, <2>4, FS_Union
  <2>6. IsFiniteSet(A \cap B) /\ IsFiniteSet((A \cup B) \cap C)
    BY <2>1, <2>4, FS_Intersection
  <2>7. /\ Cardinality(A) \in Nat /\ Cardinality(B) \in Nat /\ Cardinality(C) \in Nat
        /\ Cardinality(A \cup B) \in Nat
        /\ Cardinality(A \cap B) \in Nat /\ Cardinality((A \cup B) \cap C) \in Nat
    BY <2>1, <2>2, <2>4, <2>6, FS_CardinalityType
  <2>8. k <= Cardinality(A) + Cardinality(B) + Cardinality(C)
    BY <2>3, <2>4, <2>5, <2>7
  <2>. QED BY <1>1, <2>1, <2>2, <2>7, <2>8
<1>6. Cardinality(sent[f] \ logged[f]) = s - l
  <2>1. sent[f] \cap logged[f] = logged[f]
    BY <1>4
  <2>. QED BY <1>4, <2>1, FS_Difference
<1> HIDE DEF h, t, p, s, k, l
<1>7. p + h + t <= dup[f]
  BY <1>1, <1>2, <1>3, Sums
<1>8. s <= l + dup[f]
  BY <1>1, <1>2, <1>3, <1>5, Sums
<1>9. s - l <= dup[f]
  BY <1>1, <1>5, <1>8
<1>. QED BY <1>6, <1>7, <1>9 DEF h, t, p

\* A FEM of which nothing changes keeps its invariant.
LEMMA FemKept ==
  ASSUME NEW f \in FEM, FemInv(f), cmds' = cmds, stopReceiver => stopReceiver',
         UNCHANGED <<task[f], cmd_sent[f], cmd_rcv[f], receiver[f], reply[f], toFem[f],
                     toHost[f], sent[f], logged[f], dup[f]>>
  PROVE  FemInv(f)'
  BY DEF FemInv, Known, Handled, Copies, Printing, Settled, Elems

\* A step of the network or of the receiver, which adds no copy without adding
\* a duplicate and loses no command without losing its copy.
LEMMA FemMoves ==
  ASSUME Types, NEW f \in FEM, FemInv(f), cmds' = cmds, stopReceiver' = stopReceiver,
         UNCHANGED <<task[f], cmd_sent[f], sent[f]>>,
         cmd_rcv'[f] \in Nat, cmd_rcv'[f] >= cmd_rcv[f],
         dup'[f] \in Nat, dup'[f] >= dup[f],
         logged[f] \subseteq logged'[f], Known(f)' \subseteq Known(f),
         Copies(f)' <= Cardinality(Known(f)') + dup'[f]
  PROVE  FemInv(f)'
<1>1. Settled(f)'
  <2> DEFINE D == {d \in sent[f] \ logged[f] : d < cmds}
             E == {d \in sent'[f] \ logged'[f] : d < cmds'}
  <2>1. D \in SUBSET sent[f] /\ E \in SUBSET D
    OBVIOUS
  <2>2. IsFiniteSet(sent[f]) /\ dup[f] \in Nat /\ Cardinality(D) <= dup[f]
    BY Finite, CopiesTyped DEF FemInv, Settled
  <2> HIDE DEF D, E
  <2>3. IsFiniteSet(D) /\ IsFiniteSet(E) /\ Cardinality(E) <= Cardinality(D)
    BY <2>1, <2>2, FS_Subset
  <2>4. Cardinality(D) \in Nat /\ Cardinality(E) \in Nat
    BY <2>3, FS_CardinalityType
  <2>5. Cardinality(E) <= dup'[f]
    BY <2>2, <2>3, <2>4
  <2>. QED BY <2>5 DEF Settled, E
<1>2. Known(f)' \subseteq sent'[f]
  BY DEF FemInv
<1>3. (task'[f] \in {"none", "done", "send"} /\ ~stopReceiver') => cmd_rcv'[f] >= cmd_sent'[f]
  BY CopiesTyped DEF FemInv
<1>. QED BY <1>1, <1>2, <1>3 DEF FemInv

(***************************************************************************)
(* The steps of the network and of the receiver.                           *)
(***************************************************************************)
\* The step of one FEM leaves the others alone.
LEMMA OthersKept ==
  ASSUME Types, NEW f \in FEM, NEW g \in FEM, g # f, FemInv(g),
         Task(f) \/ TimeOut(f) \/ Receiver(f) \/ Network(f)
  PROVE  FemInv(g)'
<1> USE DEF Types, mainVars, recvVars, sendVars, netVars
<1>1. CASE Task(f)
  BY <1>1, FemKept DEF Task, SendTo, SendFails, CountSent, TestReply, WakeUp
<1>2. CASE TimeOut(f)
  BY <1>2, FemKept DEF TimeOut
<1>3. CASE Receiver(f)
  BY <1>3, FemKept DEF Receiver, RecvReply, CountReply, EndReceiver
<1>4. CASE Network(f)
  BY <1>4, FemKept DEF Network, Answer, Lose, Duplicate
<1>. QED BY <1>1, <1>2, <1>3, <1>4

\* What a step does to the number of copies.
Moved(f) == /\ Copies(f) \in Nat
            /\ Copies(f)' = Copies(f) + (cmd_rcv'[f] - cmd_rcv[f])
                              + (Printing(f)' - Printing(f))
                              + (Len(toHost'[f]) - Len(toHost[f]))
                              + (Len(toFem'[f]) - Len(toFem[f]))

\* The number of copies is a sum of numbers.
LEMMA CopiesMove ==
  ASSUME Types, NEW f \in FEM,
         cmd_rcv'[f] \in Int, Printing(f)' \in Int,
         Len(toHost'[f]) \in Int, Len(toFem'[f]) \in Int
  PROVE  Moved(f)
<1> DEFINE r == cmd_rcv[f]
           p == Printing(f)
           h == Len(toHost[f])
           t == Len(toFem[f])
           rr == cmd_rcv'[f]
           pp == Printing(f)'
           hh == Len(toHost'[f])
           tt == Len(toFem'[f])
<1>1. r \in Nat /\ p \in Nat /\ h \in Nat /\ t \in Nat
  BY CopiesTyped
<1>2. rr \in Int /\ pp \in Int /\ hh \in Int /\ tt \in Int
  OBVIOUS
<1>3. Copies(f) = r + p + h + t /\ Copies(f)' = rr + pp + hh + tt
  BY DEF Copies
<1> HIDE DEF r, p, h, t, rr, pp, hh, tt
<1>4. Copies(f) \in Nat
  BY <1>1, <1>3
<1>5. rr + pp + hh + tt = (r + p + h + t) + (rr - r) + (pp - p) + (hh - h) + (tt - t)
  BY <1>1, <1>2
<1>6. Copies(f)' = Copies(f) + (rr - r) + (pp - p) + (hh - h) + (tt - t)
  BY <1>3, <1>5
<1>. QED BY <1>4, <1>6 DEF Moved, r, p, h, t, rr, pp, hh, tt

\* A FEM answers: the copy of the command is a copy of its reply.
LEMMA AnswerKeeps ==
  ASSUME Types, NEW f \in FEM, FemInv(f), Answer(f)
  PROVE  FemInv(f)'
<1> DEFINE x == Head(toFem[f])
<1>1. /\ toHost'[f] = Append(toHost[f], x) /\ toFem'[f] = Tail(toFem[f]) /\ toFem[f] # <<>>
      /\ UNCHANGED <<cmds, stopReceiver, task[f], cmd_sent[f], sent[f], cmd_rcv[f],
                     receiver[f], reply[f], logged[f], dup[f]>>
  BY DEF Types, Answer, mainVars, recvVars, sendVars
<1>2. /\ x \in Cmd /\ Len(toFem'[f]) = Len(toFem[f]) - 1
      /\ Elems(toFem[f]) = Elems(toFem'[f]) \cup {x}
  BY <1>1, CopiesTyped, ElemsTail
<1>3. Len(toHost'[f]) = Len(toHost[f]) + 1 /\ Elems(toHost'[f]) = Elems(toHost[f]) \cup {x}
  BY <1>1, <1>2, CopiesTyped, ElemsAppend
<1>4. Handled(f)' = Handled(f) /\ Printing(f)' = Printing(f)
  BY <1>1 DEF Handled, Printing
<1> HIDE DEF x
<1>5. Known(f)' = Known(f)
  BY <1>1, <1>2, <1>3, <1>4 DEF Known, Elems
<1>6. Copies(f)' = Copies(f)
  <2>1. /\ cmd_rcv'[f] = cmd_rcv[f] /\ Printing(f)' = Printing(f)
        /\ Len(toHost'[f]) = Len(toHost[f]) + 1 /\ Len(toFem'[f]) = Len(toFem[f]) - 1
    BY <1>1, <1>2, <1>3, <1>4, CopiesTyped
  <2>2. /\ cmd_rcv[f] \in Nat /\ Printing(f) \in Nat
        /\ Len(toHost[f]) \in Nat /\ Len(toFem[f]) \in Nat
    BY CopiesTyped
  <2>3. Moved(f)
    BY <2>1, <2>2, CopiesMove
  <2>. QED BY <2>1, <2>2, <2>3 DEF Moved
<1>7. Copies(f)' <= Cardinality(Known(f)') + dup'[f]
  BY <1>1, <1>5, <1>6 DEF FemInv
<1>. QED BY <1>1, <1>5, <1>7, CopiesTyped, FemMoves

\* A datagram is duplicated, which is counted.
LEMMA DuplicateKeeps ==
  ASSUME Types, NEW f \in FEM, FemInv(f), Duplicate(f)
  PROVE  FemInv(f)'
<1> DEFINE x == Head(toHost[f])
<1>1. /\ toHost'[f] = Append(toHost[f], x) /\ toHost[f] # <<>> /\ dup'[f] = dup[f] + 1
      /\ UNCHANGED <<cmds, stopReceiver, task[f], cmd_sent[f], sent[f], cmd_rcv[f],
                     receiver[f], reply[f], logged[f], toFem[f]>>
  BY DEF Types, Duplicate, mainVars, recvVars, sendVars
<1>2. x \in Cmd /\ x \in Elems(toHost[f])
  BY <1>1, CopiesTyped, ElemsTail
<1>3. Len(toHost'[f]) = Len(toHost[f]) + 1 /\ Elems(toHost'[f]) = Elems(toHost[f]) \cup {x}
  BY <1>1, <1>2, CopiesTyped, ElemsAppend
<1>4. Handled(f)' = Handled(f) /\ Printing(f)' = Printing(f)
  BY <1>1 DEF Handled, Printing
<1> HIDE DEF x
<1>5. Known(f)' = Known(f)
  BY <1>1, <1>2, <1>3, <1>4 DEF Known, Elems
<1>6. Copies(f)' = Copies(f) + 1 /\ Copies(f) \in Nat
  <2>1. /\ cmd_rcv'[f] = cmd_rcv[f] /\ Printing(f)' = Printing(f)
        /\ Len(toHost'[f]) = Len(toHost[f]) + 1 /\ Len(toFem'[f]) = Len(toFem[f])
    BY <1>1, <1>3, <1>4, CopiesTyped
  <2>2. /\ cmd_rcv[f] \in Nat /\ Printing(f) \in Nat
        /\ Len(toHost[f]) \in Nat /\ Len(toFem[f]) \in Nat
    BY CopiesTyped
  <2>3. Moved(f)
    BY <2>1, <2>2, CopiesMove
  <2>. QED BY <2>1, <2>2, <2>3 DEF Moved
<1>7. Copies(f)' <= Cardinality(Known(f)') + dup'[f]
  <2>1. Copies(f) <= Cardinality(Known(f)) + dup[f] /\ Cardinality(Known(f)) \in Nat
    BY Finite DEF FemInv
  <2>. QED BY <1>1, <1>5, <1>6, <2>1, CopiesTyped
<1>. QED BY <1>1, <1>5, <1>7, CopiesTyped, FemMoves

\* A set that lost at most one element.
LEMMA OneLess ==
  ASSUME NEW A, NEW B, NEW x, IsFiniteSet(A), B \subseteq A, A \subseteq B \cup {x}
  PROVE  Cardinality(A) \in Nat /\ Cardinality(B) \in Nat /\ Cardinality(A) <= Cardinality(B) + 1
<1>1. IsFiniteSet(B)
  BY FS_Subset
<1>2. IsFiniteSet(B \cup {x}) /\ Cardinality(B \cup {x}) <= Cardinality(B) + 1
  <2>1. Cardinality(B) \in Nat
    BY <1>1, FS_CardinalityType
  <2>2. Cardinality(B \cup {x}) = IF x \in B THEN Cardinality(B) ELSE Cardinality(B) + 1
    BY <1>1, FS_AddElement
  <2>3. IsFiniteSet(B \cup {x})
    BY <1>1, FS_AddElement
  <2>. QED BY <2>1, <2>2, <2>3
<1>3. Cardinality(A) <= Cardinality(B \cup {x})
  BY <1>2, FS_Subset
<1>4. /\ Cardinality(A) \in Nat /\ Cardinality(B) \in Nat
      /\ Cardinality(B \cup {x}) \in Nat
  BY <1>1, <1>2, FS_CardinalityType
<1>. QED BY <1>2, <1>3, <1>4

\* A datagram is lost: its command may be known of no more.
LEMMA LoseKeeps ==
  ASSUME Types, NEW f \in FEM, FemInv(f), Lose(f)
  PROVE  FemInv(f)'
<1>1. /\ UNCHANGED <<cmds, stopReceiver, task[f], cmd_sent[f], sent[f], cmd_rcv[f],
                     receiver[f], reply[f], logged[f], dup[f]>>
      /\ \/ toFem[f] # <<>> /\ toFem'[f] = Tail(toFem[f]) /\ toHost'[f] = toHost[f]
         \/ toHost[f] # <<>> /\ toHost'[f] = Tail(toHost[f]) /\ toFem'[f] = toFem[f]
  BY DEF Types, Lose, mainVars, recvVars, sendVars
<1>2. Handled(f)' = Handled(f) /\ Printing(f)' = Printing(f)
  BY <1>1 DEF Handled, Printing
<1>3. PICK x : /\ Known(f)' \subseteq Known(f) /\ Known(f) \subseteq Known(f)' \cup {x}
               /\ Copies(f)' = Copies(f) - 1
  <2>1. CASE toFem[f] # <<>> /\ toFem'[f] = Tail(toFem[f]) /\ toHost'[f] = toHost[f]
    <3>1. /\ Len(toFem'[f]) = Len(toFem[f]) - 1
          /\ Elems(toFem[f]) = Elems(toFem'[f]) \cup {Head(toFem[f])}
      BY <2>1, CopiesTyped, ElemsTail
    <3>2. /\ Known(f)' \subseteq Known(f)
          /\ Known(f) \subseteq Known(f)' \cup {Head(toFem[f])}
      BY <1>1, <1>2, <2>1, <3>1 DEF Known, Elems
    <3>3. /\ cmd_rcv'[f] = cmd_rcv[f] /\ Printing(f)' = Printing(f)
          /\ Len(toHost'[f]) = Len(toHost[f]) /\ Len(toFem'[f]) = Len(toFem[f]) - 1
      BY <1>1, <1>2, <2>1, <3>1, CopiesTyped
    <3>4. /\ cmd_rcv[f] \in Nat /\ Printing(f) \in Nat
          /\ Len(toHost[f]) \in Nat /\ Len(toFem[f]) \in Nat
      BY CopiesTyped
    <3>5. Moved(f)
      BY <3>3, <3>4, CopiesMove
    <3>6. Copies(f)' = Copies(f) - 1
      BY <3>3, <3>4, <3>5 DEF Moved
    <3>. QED BY <3>2, <3>6
  <2>2. CASE toHost[f] # <<>> /\ toHost'[f] = Tail(toHost[f]) /\ toFem'[f] = toFem[f]
    <3>1. /\ Len(toHost'[f]) = Len(toHost[f]) - 1
          /\ Elems(toHost[f]) = Elems(toHost'[f]) \cup {Head(toHost[f])}
      BY <2>2, CopiesTyped, ElemsTail
    <3>2. /\ Known(f)' \subseteq Known(f)
          /\ Known(f) \subseteq Known(f)' \cup {Head(toHost[f])}
      BY <1>1, <1>2, <2>2, <3>1 DEF Known, Elems
    <3>3. /\ cmd_rcv'[f] = cmd_rcv[f] /\ Printing(f)' = Printing(f)
          /\ Len(toHost'[f]) = Len(toHost[f]) - 1 /\ Len(toFem'[f]) = Len(toFem[f])
      BY <1>1, <1>2, <2>2, <3>1, CopiesTyped
    <3>4. /\ cmd_rcv[f] \in Nat /\ Printing(f) \in Nat
          /\ Len(toHost[f]) \in Nat /\ Len(toFem[f]) \in Nat
      BY CopiesTyped
    <3>5. Moved(f)
      BY <3>3, <3>4, CopiesMove
    <3>6. Copies(f)' = Copies(f) - 1
      BY <3>3, <3>4, <3>5 DEF Moved
    <3>. QED BY <3>2, <3>6
  <2>. QED BY <1>1, <2>1, <2>2
<1>4. /\ Cardinality(Known(f)) \in Nat /\ Cardinality(Known(f)') \in Nat
      /\ Cardinality(Known(f)) <= Cardinality(Known(f)') + 1
  BY <1>3, Finite, OneLess
<1>5. Copies(f) \in Nat /\ Copies(f) <= Cardinality(Known(f)) + dup[f]
  BY CopiesTyped DEF FemInv, Copies
<1>6. Copies(f)' <= Cardinality(Known(f)') + dup'[f]
  BY <1>1, <1>3, <1>4, <1>5, CopiesTyped
<1>. QED BY <1>1, <1>3, <1>6, CopiesTyped, FemMoves

\* A reply is received: the receiver holds the copy.
LEMMA RecvKeeps ==
  ASSUME Types, NEW f \in FEM, FemInv(f), RecvReply(f)
  PROVE  FemInv(f)'
<1> DEFINE x == Head(toHost[f])
<1>1. /\ toHost'[f] = Tail(toHost[f]) /\ toHost[f] # <<>> /\ receiver[f] = "recv"
      /\ receiver'[f] = "print" /\ reply'[f] = x
      /\ UNCHANGED <<cmds, stopReceiver, task[f], cmd_sent[f], sent[f], cmd_rcv[f],
                     toFem[f], logged[f], dup[f]>>
  BY DEF Types, RecvReply, mainVars, sendVars
<1>2. /\ Len(toHost'[f]) = Len(toHost[f]) - 1
      /\ Elems(toHost[f]) = Elems(toHost'[f]) \cup {x}
  BY <1>1, CopiesTyped, ElemsTail
<1>3. Handled(f) = {} /\ Handled(f)' = {x} /\ Printing(f) = 0 /\ Printing(f)' = 1
  BY <1>1 DEF Handled, Printing
<1> HIDE DEF x
<1>4. Known(f)' = Known(f)
  BY <1>1, <1>2, <1>3 DEF Known, Elems
<1>5. Copies(f)' = Copies(f)
  <2>1. /\ cmd_rcv'[f] = cmd_rcv[f] /\ Printing(f)' = Printing(f) + 1
        /\ Len(toHost'[f]) = Len(toHost[f]) - 1 /\ Len(toFem'[f]) = Len(toFem[f])
    BY <1>1, <1>2, <1>3, CopiesTyped
  <2>2. /\ cmd_rcv[f] \in Nat /\ Printing(f) \in Nat
        /\ Len(toHost[f]) \in Nat /\ Len(toFem[f]) \in Nat
    BY CopiesTyped
  <2>3. Moved(f)
    BY <2>1, <2>2, CopiesMove
  <2>. QED BY <2>1, <2>2, <2>3 DEF Moved
<1>6. Copies(f)' <= Cardinality(Known(f)') + dup'[f]
  BY <1>1, <1>4, <1>5 DEF FemInv
<1>. QED BY <1>1, <1>4, <1>6, CopiesTyped, FemMoves

\* A reply is counted once it is in the log.
LEMMA CountKeeps ==
  ASSUME Types, NEW f \in FEM, FemInv(f), CountReply(f)
  PROVE  FemInv(f)'
<1>1. /\ receiver[f] = "print" /\ receiver'[f] = "recv"
      /\ logged'[f] = logged[f] \cup {reply[f]} /\ cmd_rcv'[f] = cmd_rcv[f] + 1
      /\ UNCHANGED <<cmds, stopReceiver, task[f], cmd_sent[f], sent[f],
                     toFem[f], toHost[f], dup[f]>>
  BY DEF Types, CountReply, mainVars, sendVars, netVars
<1>2. /\ Handled(f) = {reply[f]} /\ Handled(f)' = {}
      /\ Printing(f) = 1 /\ Printing(f)' = 0
  BY <1>1 DEF Handled, Printing
<1>3. Known(f)' = Known(f)
  BY <1>1, <1>2 DEF Known, Elems
<1>4. Copies(f)' = Copies(f)
  <2>1. /\ cmd_rcv'[f] = cmd_rcv[f] + 1 /\ Printing(f)' = Printing(f) - 1
        /\ Len(toHost'[f]) = Len(toHost[f]) /\ Len(toFem'[f]) = Len(toFem[f])
    BY <1>1, <1>2, CopiesTyped
  <2>2. /\ cmd_rcv[f] \in Nat /\ Printing(f) \in Nat
        /\ Len(toHost[f]) \in Nat /\ Len(toFem[f]) \in Nat
    BY CopiesTyped
  <2>3. Moved(f)
    BY <2>1, <2>2, CopiesMove
  <2>. QED BY <2>1, <2>2, <2>3 DEF Moved
<1>5. Copies(f)' <= Cardinality(Known(f)') + dup'[f]
  BY <1>1, <1>3, <1>4 DEF FemInv
<1>. QED BY <1>1, <1>3, <1>5, CopiesTyped, FemMoves

\* The receiver ends between two replies.
LEMMA EndKeeps ==
  ASSUME Types, NEW f \in FEM, FemInv(f), EndReceiver(f)
  PROVE  FemInv(f)'
<1>1. /\ receiver[f] = "recv" /\ receiver'[f] = "off"
      /\ UNCHANGED <<cmds, stopReceiver, task[f], cmd_sent[f], sent[f], cmd_rcv[f],
                     reply[f], toFem[f], toHost[f], logged[f], dup[f]>>
  BY DEF Types, EndReceiver, mainVars, sendVars, netVars
<1>2. Known(f)' = Known(f) /\ Copies(f)' = Copies(f)
  BY <1>1 DEF Known, Copies, Handled, Printing, Elems
<1>3. Copies(f)' <= Cardinality(Known(f)') + dup'[f]
  BY <1>1, <1>2 DEF FemInv
<1>. QED BY <1>1, <1>2, <1>3, CopiesTyped, FemMoves

(***************************************************************************)
(* The steps of the thread of a command.                                   *)
(***************************************************************************)
\* The command is sent, for the first time.
LEMMA SendToKeeps ==
  ASSUME Types, NEW f \in FEM, FemInv(f), SendTo(f)
  PROVE  FemInv(f)'
<1>1. /\ task[f] = "send" /\ task'[f] = "sent" /\ sent'[f] = sent[f] \cup {cmds}
      /\ toFem'[f] = Append(toFem[f], cmds)
      /\ UNCHANGED <<cmds, stopReceiver, cmd_sent[f], cmd_rcv[f], receiver[f], reply[f],
                     toHost[f], logged[f], dup[f]>>
  BY DEF Types, SendTo, mainVars, recvVars
<1>2. cmds \in Cmd /\ cmds \notin sent[f] /\ cmds \notin Known(f) /\ cmds \in Nat
  BY <1>1, BoundAssumption DEF FemInv, Types
<1>3. Len(toFem'[f]) = Len(toFem[f]) + 1 /\ Elems(toFem'[f]) = Elems(toFem[f]) \cup {cmds}
  BY <1>1, <1>2, CopiesTyped, ElemsAppend
<1>4. Handled(f)' = Handled(f) /\ Printing(f)' = Printing(f)
  BY <1>1 DEF Handled, Printing
<1>5. Known(f)' = Known(f) \cup {cmds}
  BY <1>1, <1>3, <1>4 DEF Known, Elems
<1>6. /\ Cardinality(sent'[f]) = Cardinality(sent[f]) + 1
      /\ Cardinality(Known(f)') = Cardinality(Known(f)) + 1
      /\ Cardinality(sent[f]) \in Nat /\ Cardinality(Known(f)) \in Nat
  <2>1. /\ IsFiniteSet(sent[f]) /\ IsFiniteSet(Known(f))
        /\ Cardinality(sent[f]) \in Nat /\ Cardinality(Known(f)) \in Nat
    BY Finite, FS_CardinalityType
  <2>2. Cardinality(sent[f] \cup {cmds}) = Cardinality(sent[f]) + 1
    BY <1>2, <2>1, FS_AddElement
  <2>3. Cardinality(Known(f) \cup {cmds}) = Cardinality(Known(f)) + 1
    BY <1>2, <2>1, FS_AddElement
  <2>. QED BY <1>1, <1>5, <2>1, <2>2, <2>3
<1>7. Copies(f)' = Copies(f) + 1 /\ Copies(f) \in Nat
  <2>1. /\ cmd_rcv'[f] = cmd_rcv[f] /\ Printing(f)' = Printing(f)
        /\ Len(toHost'[f]) = Len(toHost[f]) /\ Len(toFem'[f]) = Len(toFem[f]) + 1
    BY <1>1, <1>3, <1>4
  <2>2. /\ cmd_rcv[f] \in Nat /\ Printing(f) \in Nat
        /\ Len(toHost[f]) \in Nat /\ Len(toFem[f]) \in Nat
    BY CopiesTyped
  <2>3. Moved(f)
    BY <2>1, <2>2, CopiesMove
  <2>. QED BY <2>1, <2>2, <2>3 DEF Moved
<1>8. Copies(f)' <= Cardinality(Known(f)') + dup'[f]
  <2>1. Copies(f) <= Cardinality(Known(f)) + dup[f]
    BY DEF FemInv
  <2>. QED BY <1>1, <1>6, <1>7, <2>1, CopiesTyped
<1>9. sent'[f] \subseteq 1..cmds' /\ Known(f)' \subseteq sent'[f]
  <2>1. cmds \in 1..cmds
    BY <1>2, BoundAssumption DEF Cmd
  <2>. QED BY <1>1, <1>5, <2>1 DEF FemInv
<1>10. cmd_sent'[f] + (IF task'[f] = "sent" THEN 1 ELSE 0) = Cardinality(sent'[f])
  <2>1. cmd_sent[f] + 0 = Cardinality(sent[f])
    BY <1>1 DEF FemInv
  <2>. QED BY <1>1, <1>6, <2>1, CopiesTyped
<1>11. Settled(f)'
  <2>1. {d \in sent'[f] \ logged'[f] : d < cmds'} = {d \in sent[f] \ logged[f] : d < cmds}
    BY <1>1, <1>2
  <2>. QED BY <1>1, <2>1 DEF FemInv, Settled
<1>. QED BY <1>1, <1>8, <1>9, <1>10, <1>11 DEF FemInv

\* The thread fails to send, counts the command, or looks for the reply.
LEMMA TaskKeeps ==
  ASSUME Types, NEW f \in FEM, FemInv(f),
         SendFails(f) \/ CountSent(f) \/ TestReply(f) \/ TimeOut(f) \/ WakeUp(f)
  PROVE  FemInv(f)'
<1>1. UNCHANGED <<cmds, stopReceiver, cmd_rcv[f], receiver[f], reply[f], toFem[f],
                  toHost[f], sent[f], logged[f], dup[f]>>
  BY DEF SendFails, CountSent, TestReply, TimeOut, WakeUp, mainVars, recvVars, netVars
<1>2. /\ Known(f)' = Known(f) /\ Copies(f)' = Copies(f)
  BY <1>1 DEF Known, Copies, Handled, Printing, Elems
<1>3. Settled(f)' /\ Copies(f)' <= Cardinality(Known(f)') + dup'[f]
  BY <1>1, <1>2 DEF FemInv, Settled
<1>4. sent'[f] \subseteq 1..cmds' /\ Known(f)' \subseteq sent'[f]
  BY <1>1, <1>2 DEF FemInv
<1>5. /\ task'[f] # "send"
      /\ cmd_sent'[f] + (IF task'[f] = "sent" THEN 1 ELSE 0)
           = cmd_sent[f] + (IF task[f] = "sent" THEN 1 ELSE 0)
  BY CopiesTyped DEF SendFails, CountSent, TestReply, TimeOut, WakeUp, Types
<1>6. (task'[f] \in {"none", "done", "send"} /\ ~stopReceiver') => cmd_rcv'[f] >= cmd_sent'[f]
  BY <1>1 DEF SendFails, CountSent, TestReply, TimeOut, WakeUp, Types, Answered
<1>. QED BY <1>1, <1>3, <1>4, <1>5, <1>6 DEF FemInv

(***************************************************************************)
(* The steps of the main thread.                                           *)
(***************************************************************************)
\* A command starts when all the commands before it are answered.
LEMMA SendCommandKeeps ==
  ASSUME Types, MainInv, NEW f \in FEM, FemInv(f), SendCommand
  PROVE  FemInv(f)'
<1>1. /\ pc = "prompt" /\ cmds < MaxCmds /\ cmds' = cmds + 1
      /\ task'[f] \in {"none", "send"}
      /\ UNCHANGED <<stopReceiver, cmd_sent[f], cmd_rcv[f], receiver[f], reply[f], toFem[f],
                     toHost[f], sent[f], logged[f], dup[f]>>
  BY DEF SendCommand, recvVars, netVars
<1>2. Idle(f) /\ ~stopReceiver /\ cmds \in Nat
  BY <1>1, BoundAssumption DEF MainInv, Types
<1>3. Known(f)' = Known(f) /\ Copies(f)' = Copies(f)
  BY <1>1 DEF Known, Copies, Handled, Printing, Elems
<1>4. Copies(f)' <= Cardinality(Known(f)') + dup'[f]
  BY <1>1, <1>3 DEF FemInv
<1>5. sent'[f] \subseteq 1..cmds' /\ Known(f)' \subseteq sent'[f] /\ cmds' \notin sent'[f]
  BY <1>1, <1>2, <1>3 DEF FemInv
<1>6. cmds' \in Cmd
  BY <1>1, <1>2, BoundAssumption DEF Cmd
<1>7. /\ cmd_sent'[f] + (IF task'[f] = "sent" THEN 1 ELSE 0) = Cardinality(sent'[f])
      /\ cmd_rcv'[f] >= cmd_sent'[f]
  BY <1>1, <1>2, CopiesTyped DEF FemInv, Idle
<1>8. Settled(f)'
  <2> DEFINE D == sent[f] \ logged[f]
             E == {d \in sent'[f] \ logged'[f] : d < cmds'}
  <2>1. E \in SUBSET D /\ D \in SUBSET sent[f]
    BY <1>1
  <2>2. Cardinality(D) <= dup[f] /\ IsFiniteSet(sent[f]) /\ dup[f] \in Nat
    BY <1>2, AllAnswered, Finite, CopiesTyped
  <2> HIDE DEF D, E
  <2>3. IsFiniteSet(D) /\ IsFiniteSet(E) /\ Cardinality(E) <= Cardinality(D)
    BY <2>1, <2>2, FS_Subset
  <2>4. Cardinality(D) \in Nat /\ Cardinality(E) \in Nat
    BY <2>3, FS_CardinalityType
  <2>5. Cardinality(E) <= dup'[f]
    BY <1>1, <2>2, <2>3, <2>4
  <2>. QED BY <2>5 DEF Settled, E
<1>. QED BY <1>4, <1>5, <1>6, <1>7, <1>8 DEF FemInv

\* Every step keeps the invariant of every FEM.
LEMMA NextFem == ASSUME IInv, Next PROVE \A f \in FEM : FemInv(f)'
<1> SUFFICES ASSUME NEW g \in FEM PROVE FemInv(g)'
  OBVIOUS
<1>1. Types /\ MainInv /\ FemInv(g)
  BY DEF IInv
<1>2. CASE Main \/ Quit
  <2>1. /\ cmds' = cmds /\ (stopReceiver => stopReceiver')
        /\ UNCHANGED <<recvVars, sendVars, netVars>>
    <3>1. N \in FEM
      BY SizeAssumption DEF FEM
    <3>. QED BY <1>2, <3>1 DEF Main, Get, Return, CatchFailure, Unwind, Close, JoinReceivers,
                               Quit
  <2>. QED BY <1>1, <2>1, FemKept DEF recvVars, sendVars, netVars
<1>3. CASE SendCommand
  BY <1>1, <1>3, SendCommandKeeps
<1>4. CASE \E S \in {FEM, {}} \cup {{f} : f \in FEM} : SetActiveFEM(S)
  <2>1. cmds' = cmds /\ UNCHANGED <<recvVars, sendVars, netVars, stopReceiver>>
    BY <1>4 DEF SetActiveFEM
  <2>. QED BY <1>1, <2>1, FemKept DEF recvVars, sendVars, netVars
<1>5. ASSUME NEW f \in FEM, Task(f) \/ TimeOut(f) \/ Receiver(f) \/ Network(f)
      PROVE  FemInv(g)'
  <2>1. CASE g # f
    BY <1>1, <1>5, <2>1, OthersKept
  <2>2. CASE g = f
    <3>1. CASE SendTo(g)
      BY <1>1, <3>1, SendToKeeps
    <3>2. CASE SendFails(g) \/ CountSent(g) \/ TestReply(g) \/ TimeOut(g) \/ WakeUp(g)
      BY <1>1, <3>2, TaskKeeps
    <3>3. CASE Receiver(g)
      BY <1>1, <3>3, RecvKeeps, CountKeeps, EndKeeps DEF Receiver
    <3>4. CASE Network(g)
      BY <1>1, <3>4, AnswerKeeps, LoseKeeps, DuplicateKeeps DEF Network
    <3>. QED BY <1>5, <2>2, <3>1, <3>2, <3>3, <3>4 DEF Task
  <2>. QED BY <2>1, <2>2
<1>. QED BY <1>2, <1>3, <1>4, <1>5 DEF Next

\* What a step does to the main thread, the tasks it waits for, and the
\* receivers.
LEMMA NextMain == ASSUME IInv, Next PROVE MainInv'
<1> USE DEF IInv, Types, MainInv, Idle, mainVars, recvVars, sendVars, netVars
<1>1. N \in FEM /\ N \in Nat /\ next \in 1..N + 1
  BY SizeAssumption DEF FEM
<1>2. CASE Get
  <2>1. next' \in Nat /\ next' - 1 = next /\ \A f \in 1..next : f \in 1..next - 1 \/ f = next
    BY <1>1, <1>2 DEF Get
  <2>. QED BY <1>2, <2>1 DEF Get
<1>3. CASE Return
  <2>1. \A f \in FEM : f \in 1..next - 1
    BY <1>1, <1>3 DEF Return, FEM
  <2>. QED BY <1>3, <2>1 DEF Return
<1>4. CASE CatchFailure \/ Close \/ Quit
  BY <1>4 DEF CatchFailure, Close, Quit
<1>5. CASE Unwind \/ JoinReceivers
  BY <1>1, <1>5 DEF Unwind, JoinReceivers
<1>6. CASE SendCommand
  <2>1. \A f \in 1..next' - 1 : FALSE
    BY <1>6 DEF SendCommand
  <2>. QED BY <1>6, <2>1 DEF SendCommand
<1>7. CASE \E S \in {FEM, {}} \cup {{f} : f \in FEM} : SetActiveFEM(S)
  BY <1>7 DEF SetActiveFEM
<1>8. ASSUME NEW f \in FEM, Task(f) \/ TimeOut(f) PROVE MainInv'
  <2>1. \A g \in FEM : Idle(g) => Idle(g)'
    BY <1>8 DEF Task, SendTo, SendFails, CountSent, TestReply, WakeUp, TimeOut
  <2>2. UNCHANGED <<pc, next, stopReceiver, receiver>>
    BY <1>8 DEF Task, SendTo, SendFails, CountSent, TestReply, WakeUp, TimeOut
  <2>3. \A g \in 1..next - 1 : g \in FEM
    BY <1>1 DEF FEM
  <2>. QED BY <2>1, <2>2, <2>3
<1>9. ASSUME NEW f \in FEM, Receiver(f) \/ Network(f) PROVE MainInv'
  <2>1. UNCHANGED <<pc, next, stopReceiver, task>>
    BY <1>9 DEF Receiver, RecvReply, CountReply, EndReceiver, Network, Answer, Lose, Duplicate
  <2>2. \A g \in FEM : receiver'[g] = "off" => stopReceiver
    BY <1>9 DEF Receiver, RecvReply, CountReply, EndReceiver, Network, Answer, Lose, Duplicate
  <2>. QED BY <2>1, <2>2
<1>. QED BY <1>2, <1>3, <1>4, <1>5, <1>6, <1>7, <1>8, <1>9 DEF Next, Main

(***************************************************************************)
(* The invariant holds.                                                    *)
(***************************************************************************)
\* The steps of a FEM, its thread and its receiver keep the types.
LEMMA FemTypes ==
  ASSUME Types, NEW f \in FEM, FemInv(f),
         Task(f) \/ TimeOut(f) \/ Receiver(f) \/ Network(f)
  PROVE  Types'
<1> USE DEF Types, mainVars, recvVars, sendVars, netVars
<1>1. CASE Task(f)
  <2>1. CASE SendTo(f)
    <3>1. cmds \in Cmd
      BY <2>1 DEF SendTo, FemInv
    <3>2. Append(toFem[f], cmds) \in Seq(Cmd)
      BY <3>1, CopiesTyped, ElemsAppend
    <3>. QED BY <2>1, <3>1, <3>2 DEF SendTo
  <2>2. CASE SendFails(f)
    BY <2>2, BoundAssumption DEF SendFails
  <2>3. CASE CountSent(f)
    <3>1. cmd_sent[f] + 1 \in Nat
      OBVIOUS
    <3>. QED BY <2>3, <3>1 DEF CountSent
  <2>4. CASE TestReply(f)
    BY <2>4 DEF TestReply
  <2>5. CASE WakeUp(f)
    BY <2>5 DEF WakeUp
  <2>. QED BY <1>1, <2>1, <2>2, <2>3, <2>4, <2>5 DEF Task
<1>2. CASE TimeOut(f)
  BY <1>2 DEF TimeOut
<1>3. CASE RecvReply(f)
  <2>1. /\ Head(toHost[f]) \in Cmd /\ Tail(toHost[f]) \in Seq(Cmd)
    BY <1>3, CopiesTyped, ElemsTail DEF RecvReply
  <2>2. Head(toHost[f]) \in 0..MaxCmds
    BY <2>1, BoundAssumption DEF Cmd
  <2>. QED BY <1>3, <2>1, <2>2 DEF RecvReply
<1>4. CASE CountReply(f)
  <2>1. reply[f] \in Known(f)
    BY <1>4 DEF CountReply, Known, Handled
  <2>2. reply[f] \in Cmd
    BY <2>1 DEF FemInv
  <2>. QED BY <1>4, <2>2 DEF CountReply
<1>5. CASE EndReceiver(f)
  BY <1>5 DEF EndReceiver
<1>6. CASE Answer(f)
  <2>1. Head(toFem[f]) \in Cmd /\ Tail(toFem[f]) \in Seq(Cmd)
    BY <1>6, CopiesTyped, ElemsTail DEF Answer
  <2>2. Append(toHost[f], Head(toFem[f])) \in Seq(Cmd)
    BY <2>1, CopiesTyped, ElemsAppend
  <2>. QED BY <1>6, <2>1, <2>2 DEF Answer
<1>7. CASE Lose(f)
  <2>1. lost' \in 0..MaxLost
    BY <1>7, BoundAssumption DEF Lose
  <2>2. CASE toFem[f] # <<>> /\ toFem' = [toFem EXCEPT ![f] = Tail(@)] /\ UNCHANGED toHost
    <3>1. Tail(toFem[f]) \in Seq(Cmd)
      BY <2>2, CopiesTyped, ElemsTail
    <3>. QED BY <1>7, <2>1, <2>2, <3>1 DEF Lose
  <2>3. CASE toHost[f] # <<>> /\ toHost' = [toHost EXCEPT ![f] = Tail(@)] /\ UNCHANGED toFem
    <3>1. Tail(toHost[f]) \in Seq(Cmd)
      BY <2>3, CopiesTyped, ElemsTail
    <3>. QED BY <1>7, <2>1, <2>3, <3>1 DEF Lose
  <2>. QED BY <1>7, <2>2, <2>3 DEF Lose
<1>8. CASE Duplicate(f)
  <2>1. Head(toHost[f]) \in Cmd
    BY <1>8, CopiesTyped, ElemsTail DEF Duplicate
  <2>2. Append(toHost[f], Head(toHost[f])) \in Seq(Cmd)
    BY <2>1, CopiesTyped, ElemsAppend
  <2>3. dup[f] + 1 \in 0..MaxDup
    BY <1>8, BoundAssumption DEF Duplicate
  <2>. QED BY <1>8, <2>2, <2>3 DEF Duplicate
<1>. QED BY <1>1, <1>2, <1>3, <1>4, <1>5, <1>6, <1>7, <1>8 DEF Receiver, Network

\* Every step keeps the types.
LEMMA NextTypes == ASSUME IInv, Next PROVE Types'
<1>1. Types
  BY DEF IInv
<1> USE DEF Types, mainVars, recvVars, sendVars, netVars
<1>2. CASE Main \/ Quit
  <2>1. N \in FEM /\ N \in Nat /\ \A k \in FEM : k + 1 \in 1..N + 1
    BY SizeAssumption DEF FEM
  <2>2. CASE Get
    <3>1. next' \in 1..N + 1
      BY <2>1, <2>2 DEF Get
    <3>. QED BY <1>1, <2>2, <3>1 DEF Get
  <2>3. CASE Return \/ CatchFailure \/ Close \/ Quit
    BY <1>1, <2>3 DEF Return, CatchFailure, Close, Quit
  <2>4. CASE Unwind \/ JoinReceivers
    <3>1. /\ pc' \in {"closing", "ended"}
          /\ UNCHANGED <<next, active, cmds, recvVars, sendVars, netVars, stopReceiver, fails>>
      BY <2>1, <2>4 DEF Unwind, JoinReceivers
    <3>. QED BY <1>1, <3>1
  <2>. QED BY <1>2, <2>2, <2>3, <2>4 DEF Main
<1>3. CASE SendCommand
  <2>1. cmds' \in 0..MaxCmds /\ next' \in 1..N + 1
    BY <1>1, <1>3, BoundAssumption, SizeAssumption DEF SendCommand
  <2>. QED BY <1>1, <1>3, <2>1 DEF SendCommand
<1>4. CASE \E S \in {FEM, {}} \cup {{f} : f \in FEM} : SetActiveFEM(S)
  <2>1. active' \subseteq FEM
    BY <1>4 DEF SetActiveFEM
  <2>. QED BY <1>1, <1>4, <2>1 DEF SetActiveFEM
<1>5. ASSUME NEW f \in FEM, Task(f) \/ TimeOut(f) \/ Receiver(f) \/ Network(f) PROVE Types'
  BY <1>5, FemTypes DEF IInv
<1>. QED BY <1>2, <1>3, <1>4, <1>5 DEF Next

\* The invariant holds at the start.
LEMMA InitIInv == Init => IInv
<1> SUFFICES ASSUME Init PROVE IInv
  OBVIOUS
<1>1. Types
  <2>1. <<>> \in Seq(Cmd)
    BY EmptySeq
  <2>2. 1 \in 1..N + 1 /\ 0 \in Nat
    BY SizeAssumption
  <2>3. /\ 0 \in 0..MaxCmds /\ 0 \in 0..MaxDup /\ 0 \in 0..MaxLost /\ 0 \in 0..MaxFails
    BY BoundAssumption
  <2>. QED BY <2>1, <2>2, <2>3 DEF Init, Types
<1>2. MainInv
  BY DEF Init, MainInv, Idle
<1>3. ASSUME NEW f \in FEM PROVE FemInv(f)
  <2>1. /\ sent[f] = {} /\ logged[f] = {} /\ receiver[f] = "recv" /\ cmds = 0
        /\ toHost[f] = <<>> /\ toFem[f] = <<>> /\ task[f] = "none"
        /\ cmd_sent[f] = 0 /\ cmd_rcv[f] = 0 /\ dup[f] = 0
    BY <1>3 DEF Init
  <2>2. Cardinality({}) = 0 /\ Len(<<>>) = 0
    BY FS_EmptySet
  <2>3. Elems(toHost[f]) = {} /\ Elems(toFem[f]) = {}
    BY <2>1, <2>2 DEF Elems
  <2>4. Known(f) = {} /\ Copies(f) = 0
    BY <2>1, <2>2, <2>3 DEF Known, Copies, Handled, Printing
  <2>5. Settled(f)
    <3>1. {d \in sent[f] \ logged[f] : d < cmds} = {}
      BY <2>1
    <3>. QED BY <2>1, <2>2, <3>1 DEF Settled
  <2>. QED BY <2>1, <2>2, <2>4, <2>5 DEF FemInv
<1>. QED BY <1>1, <1>2, <1>3 DEF IInv

\* Every step keeps the invariant, and so does every stuttering step.
LEMMA NextIInv == IInv /\ [Next]_vars => IInv'
<1> SUFFICES ASSUME IInv, [Next]_vars PROVE IInv'
  OBVIOUS
<1>1. CASE Next
  BY <1>1, NextTypes, NextMain, NextFem DEF IInv
<1>2. CASE UNCHANGED vars
  <2>1. \A f \in FEM : FemInv(f)'
    BY <1>2, FemKept DEF IInv, vars, mainVars, recvVars, sendVars, netVars
  <2>2. Types'
    BY <1>2 DEF IInv, Types, vars, mainVars, recvVars, sendVars, netVars
  <2>3. MainInv'
    BY <1>2 DEF IInv, MainInv, Idle, vars, mainVars, recvVars, sendVars, netVars
  <2>. QED BY <2>1, <2>2, <2>3 DEF IInv
<1>. QED BY <1>1, <1>2

\* The invariant is inductive.
THEOREM Inductive == Spec => []IInv
  BY InitIInv, NextIInv, PTL DEF Spec

\* The counters of commands and replies are bounded by the commands and the
\* duplicates, and every queue holds commands only.
THEOREM TypeCorrect == Spec => []TypeOK
  BY Inductive, CountersBounded, PTL

\* When a command is sent to a FEM, every FEM has answered the commands before
\* it and the answers are in its log, but for as many as there were duplicated
\* replies: SendCommand waits for the thread of every FEM, and a thread for as
\* many replies as commands.
THEOREM LockstepHolds == Spec => []Lockstep
<1>1. IInv => Lockstep
  <2> SUFFICES ASSUME IInv, NEW f \in FEM, NEW g \in FEM, NEW c \in sent[f]
               PROVE  Cardinality({d \in sent[g] \ logged[g] : d < c}) <= dup[g]
    BY DEF Lockstep
  <2> DEFINE D == {d \in sent[g] \ logged[g] : d < c}
             E == {d \in sent[g] \ logged[g] : d < cmds}
  <2>1. Types /\ FemInv(f) /\ FemInv(g)
    BY DEF IInv
  <2>2. cmds \in Nat /\ c \in 1..cmds /\ sent[g] \subseteq 1..cmds
    BY <2>1, BoundAssumption DEF Types, FemInv
  <2>3. D \in SUBSET E /\ E \in SUBSET sent[g]
    BY <2>2
  <2>4. Cardinality(E) <= dup[g] /\ IsFiniteSet(sent[g]) /\ dup[g] \in Nat
    BY <2>1, Finite, CopiesTyped DEF FemInv, Settled
  <2> HIDE DEF D, E
  <2>5. IsFiniteSet(E) /\ IsFiniteSet(D) /\ Cardinality(D) <= Cardinality(E)
    BY <2>3, <2>4, FS_Subset
  <2>6. Cardinality(D) \in Nat /\ Cardinality(E) \in Nat
    BY <2>5, FS_CardinalityType
  <2>7. Cardinality(D) <= dup[g]
    BY <2>4, <2>5, <2>6
  <2>. QED BY <2>7 DEF D
<1>. QED BY <1>1, Inductive, PTL

\* Between two commands nothing is on its way to or from a FEM none of whose
\* replies was duplicated, and its receiver writes to no log.
THEOREM QuietAtPromptHolds == Spec => []QuietAtPrompt
<1>1. IInv => QuietAtPrompt
  <2> SUFFICES ASSUME IInv, pc = "prompt", NEW f \in FEM, dup[f] = 0
               PROVE  receiver[f] = "recv" /\ toFem[f] = <<>> /\ toHost[f] = <<>>
    BY DEF QuietAtPrompt
  <2>1. Types /\ FemInv(f) /\ Idle(f) /\ ~stopReceiver /\ receiver[f] # "off"
    BY DEF IInv, MainInv
  <2>2. Printing(f) + Len(toHost[f]) + Len(toFem[f]) <= 0
    BY <2>1, AllAnswered
  <2>3. /\ Printing(f) \in Nat /\ Len(toHost[f]) \in Nat /\ Len(toFem[f]) \in Nat
        /\ toHost[f] \in Seq(Cmd) /\ toFem[f] \in Seq(Cmd)
    BY <2>1, CopiesTyped
  <2>4. Printing(f) = 0 /\ Len(toHost[f]) = 0 /\ Len(toFem[f]) = 0
    BY <2>2, <2>3
  <2>. QED BY <2>1, <2>3, <2>4, EmptySeq DEF Printing, Types
<1>. QED BY <1>1, Inductive, PTL

===============================================================================
