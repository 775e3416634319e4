---------------------------- MODULE RunFilesProofs ----------------------------
(***************************************************************************)
(* Proof that RunFiles implements RunDirectory, that a kill loses little,  *)
(* that the times of a file bracket its events and that the files          *)
(* partition the events, for any sizes of the files, numbers of commands,  *)
(* events, kills and restarts.                                             *)
(***************************************************************************)
EXTENDS RunFiles, SequenceTheorems, DataFacts, TLAPS

Event == [id : Int, time : Int]
File == [run : Int, idx : Int, start : Int, end : Int, rows : Seq(Event), saved : Nat,
         runs : Int]

\* What a file says of its name and of its saved events is kept in g.
Kept(f, g) == /\ g.run = f.run /\ g.idx = f.idx
              /\ f.saved <= g.saved /\ g.saved <= Len(g.rows)
              /\ \A i \in 1..f.saved : g.rows[i] = f.rows[i]

\* A directory whose files have no more saved events than events.
Valid(fs) == fs \in Seq(File) /\ \A k \in DOMAIN fs : fs[k].saved <= Len(fs[k].rows)

\* Types, as far as they are needed.
DataType == /\ Valid(files)
            /\ taken \in Seq(Event) /\ clock \in Int /\ timestamp \in Int
            /\ runStartTime \in Int /\ runEndTime \in Int
            /\ currentRun \in Int /\ fileIndex \in Int /\ open \in BOOLEAN

\* The last file has the largest run, and the largest index of that run, until
\* the numbers are used up.
Full(fs) == \E k \in DOMAIN fs : fs[k].run > LastRun
Ordered(fs) == Full(fs) \/ \A k \in DOMAIN fs :
  /\ fs[k].run \in 0..Current(fs).run
  /\ fs[k].run = Current(fs).run => fs[k].idx <= Current(fs).idx

\* The next file of the run would follow the last file.
Following == /\ files # <<>> /\ Current(files).run = currentRun
             /\ Current(files).idx + 1 = fileIndex

\* What the two threads know of the file.
Control == /\ bpc # "done" => pc \in {"run", "ran", "stop", "undefined"}
           /\ pc \in {"open", "ended"} => ~open
           /\ open => Following
           /\ bpc = "check" => open /\ Current(files).rows # <<>>
           /\ bpc = "reopen" => Following /\ Current(files).saved # 0

\* The invariant that every step keeps.
IInv == DataType /\ Ordered(files) /\ Control

(***************************************************************************)
(* Sequences.                                                              *)
(***************************************************************************)
\* The last element of a sequence, and a sequence with another last element.
LEMMA LastElement ==
  ASSUME NEW S, NEW s \in Seq(S), s # <<>>
  PROVE /\ Len(s) \in DOMAIN s /\ s[Len(s)] \in S /\ Len(s) \in Nat /\ DOMAIN s = 1..Len(s)
        /\ \A x \in S : /\ [s EXCEPT ![Len(s)] = x] \in Seq(S)
                        /\ Len([s EXCEPT ![Len(s)] = x]) = Len(s)
OBVIOUS

\* A sequence that starts with the first m elements of another one is those and
\* the rest.
LEMMA PrefixAndRest ==
  ASSUME NEW S, NEW s \in Seq(S), NEW t \in Seq(S), NEW m \in 0..Len(s), NEW n \in m..Len(t),
         \A i \in 1..m : t[i] = s[i]
  PROVE SubSeq(t, 1, n) = SubSeq(s, 1, m) \o SubSeq(t, m + 1, n)
<1>1. SubSeq(t, 1, m) = SubSeq(s, 1, m)
  <2>1. m \in Nat /\ n \in Nat /\ m <= Len(s) /\ m <= Len(t) OBVIOUS
  <2>2. \A i \in 1..m : s[i] \in S /\ t[i] \in S BY <2>1
  <2> DEFINE a == SubSeq(s, 1, m)
             b == SubSeq(t, 1, m)
  <2>3. a \in Seq(S) /\ Len(a) = m /\ \A i \in 1..m : a[i] = s[i]
    BY <2>1, <2>2, SubSeqProperties
  <2>4. b \in Seq(S) /\ Len(b) = m /\ \A i \in 1..m : b[i] = t[i]
    BY <2>1, <2>2, SubSeqProperties
  <2> HIDE DEF a, b
  <2>5. a = b BY <2>3, <2>4, SeqEqual
  <2> QED BY <2>5 DEF a, b
<1>2. SubSeq(t, 1, m) \o SubSeq(t, m + 1, n) = SubSeq(t, 1, n)
  <2>1. 1 \in 1..Len(t) + 1 /\ m \in 1 - 1..Len(t) /\ n \in m..Len(t) OBVIOUS
  <2> QED BY <2>1, ConcatAdjacentSubSeq
<1> QED BY <1>1, <1>2

(***************************************************************************)
(* What a reader sees of a sequence of files.                              *)
(***************************************************************************)
SeenFile(f) == [run |-> f.run, idx |-> f.idx, rows |-> SubSeq(f.rows, 1, f.saved)]
Seen(fs) == [k \in DOMAIN fs |-> SeenFile(fs[k])]
DirFile == [run : Int, idx : Int, rows : Seq(Event)]

\* SavedFiles is what is seen of files, in both states of a step.
LEMMA SavedIsSeen == SavedFiles = Seen(files) /\ SavedFiles' = Seen(files')
BY DEF SavedFiles, Seen, SeenFile

\* A file is seen with as many events as are saved.
LEMMA SeenFileType == ASSUME NEW f \in File, f.saved <= Len(f.rows)
                      PROVE /\ SeenFile(f) \in DirFile
                            /\ Len(SeenFile(f).rows) = f.saved
<1>1. f.rows \in Seq(Event) /\ f.saved \in Nat /\ f.run \in Int /\ f.idx \in Int BY DEF File
<1>2. \A i \in 1..f.saved : f.rows[i] \in Event BY <1>1
<1>3. SubSeq(f.rows, 1, f.saved) \in Seq(Event) /\ Len(SubSeq(f.rows, 1, f.saved)) = f.saved
  BY <1>1, <1>2, SubSeqProperties
<1> QED BY <1>1, <1>3 DEF SeenFile, DirFile

\* As many files are seen as there are.
LEMMA SeenType == ASSUME NEW fs, Valid(fs)
                  PROVE Seen(fs) \in Seq(DirFile) /\ Len(Seen(fs)) = Len(fs)
<1>1. fs \in Seq(File) /\ Len(fs) \in Nat /\ DOMAIN fs = 1..Len(fs)
      /\ \A k \in 1..Len(fs) : fs[k] \in File /\ fs[k].saved <= Len(fs[k].rows)
  BY DEF Valid
<1>2. \A k \in 1..Len(fs) : SeenFile(fs[k]) \in DirFile BY <1>1, SeenFileType
<1>3. Seen(fs) = [k \in 1..Len(fs) |-> SeenFile(fs[k])] BY <1>1 DEF Seen
<1> QED BY <1>1, <1>2, <1>3

\* A new file shows at the end.
LEMMA SeenAppend == ASSUME NEW fs, Valid(fs), NEW f \in File, f.saved <= Len(f.rows)
                    PROVE /\ Valid(Append(fs, f))
                          /\ Seen(Append(fs, f)) = Append(Seen(fs), SeenFile(f))
<1> DEFINE gs == Append(fs, f)
<1>1. fs \in Seq(File) /\ Len(fs) \in Nat /\ DOMAIN fs = 1..Len(fs) BY DEF Valid
<1>2. /\ gs \in Seq(File) /\ Len(gs) = Len(fs) + 1 /\ DOMAIN gs = 1..Len(fs) + 1
      /\ gs[Len(fs) + 1] = f /\ \A i \in 1..Len(fs) : gs[i] = fs[i]
  BY <1>1
<1> HIDE DEF gs
<1>3. Valid(gs) BY <1>1, <1>2 DEF Valid
<1>4. SeenFile(f) \in DirFile BY SeenFileType
<1>5. Seen(fs) \in Seq(DirFile) /\ Len(Seen(fs)) = Len(fs) BY SeenType
<1>6. Seen(gs) \in Seq(DirFile) /\ Len(Seen(gs)) = Len(fs) + 1 BY <1>2, <1>3, SeenType
<1> DEFINE ss == Append(Seen(fs), SeenFile(f))
<1>7. /\ ss \in Seq(DirFile) /\ Len(ss) = Len(fs) + 1 /\ ss[Len(fs) + 1] = SeenFile(f)
      /\ \A i \in 1..Len(fs) : ss[i] = Seen(fs)[i]
  BY <1>4, <1>5, AppendProperties
<1> HIDE DEF ss
<1>8. \A i \in 1..Len(fs) + 1 : Seen(gs)[i] = ss[i]
  <2>1. \A i \in 1..Len(fs) + 1 : Seen(gs)[i] = SeenFile(gs[i]) BY <1>2 DEF Seen
  <2>2. \A i \in 1..Len(fs) : Seen(fs)[i] = SeenFile(fs[i]) BY <1>1 DEF Seen
  <2> QED BY <1>1, <1>2, <1>7, <2>1, <2>2
<1>9. Seen(gs) = ss BY <1>6, <1>7, <1>8, SeqEqual
<1> QED BY <1>3, <1>9 DEF gs, ss

\* A file that keeps what was saved shows with more events s, or as it was.
LEMMA SeenKept ==
  ASSUME NEW f \in File, f.saved <= Len(f.rows), NEW g \in File, Kept(f, g)
  PROVE \E s \in Seq(Event) :
          /\ SeenFile(g) = [SeenFile(f) EXCEPT !.rows = @ \o s]
          /\ s = <<>> => SeenFile(g) = SeenFile(f)
          /\ s # <<>> => s = SubSeq(SeenFile(g).rows, Len(SeenFile(f).rows) + 1,
                                   Len(SeenFile(g).rows))
<1>1. PICK r, q, m, n : r = f.rows /\ q = g.rows /\ m = f.saved /\ n = g.saved
  OBVIOUS
<1>2. /\ r \in Seq(Event) /\ q \in Seq(Event) /\ m \in 0..Len(r) /\ n \in m..Len(q)
      /\ \A i \in 1..m : q[i] = r[i]
  BY <1>1 DEF File, Kept
<1> DEFINE a == SubSeq(r, 1, m)
           s == SubSeq(q, m + 1, n)
<1>3. SubSeq(q, 1, n) = a \o s BY <1>2, PrefixAndRest
<1>4. s \in Seq(Event) /\ a \in Seq(Event) /\ Len(a) = m
  <2>1. /\ \A i \in m + 1..n : q[i] \in Event
        /\ \A i \in 1..m : r[i] \in Event
    BY <1>2
  <2> QED BY <1>2, <2>1, SubSeqProperties
<1>5. SeenFile(f).rows = a /\ SeenFile(g) = [SeenFile(f) EXCEPT !.rows = a \o s]
  <2>1. SeenFile(f) = [run |-> f.run, idx |-> f.idx, rows |-> a] BY <1>1 DEF SeenFile
  <2>2. SeenFile(g) = [run |-> f.run, idx |-> f.idx, rows |-> a \o s]
    BY <1>1, <1>3 DEF SeenFile, Kept
  <2>3. \A x : [SeenFile(f) EXCEPT !.rows = x] = [run |-> f.run, idx |-> f.idx, rows |-> x]
    BY DEF SeenFile
  <2> HIDE DEF a, s
  <2>4. SeenFile(f).rows = a BY <2>1
  <2>5. [SeenFile(f) EXCEPT !.rows = a \o s] = [run |-> f.run, idx |-> f.idx, rows |-> a \o s]
    BY <2>3
  <2> QED BY <2>2, <2>4, <2>5
<1> HIDE DEF a, s
<1>6. s = <<>> => SeenFile(g) = SeenFile(f)
  <2> SUFFICES ASSUME s = <<>> PROVE SeenFile(g) = SeenFile(f)
    OBVIOUS
  <2>1. a \o s = a BY <1>4
  <2> QED BY <1>5, <2>1 DEF SeenFile
<1>7. s # <<>> => s = SubSeq(a \o s, Len(a) + 1, Len(a \o s))
  <2> SUFFICES ASSUME s # <<>> PROVE s = SubSeq(a \o s, Len(a) + 1, Len(a \o s))
    OBVIOUS
  <2>1. Len(s) \in Nat \ {0} /\ Len(a) \in Nat /\ Len(a \o s) = Len(a) + Len(s) BY <1>4
  <2>2. Len(a) + 1 \in Len(a) + 1..Len(a) + Len(s)
        /\ Len(a) + Len(s) \in Len(a) + 1..Len(a) + Len(s)
    BY <2>1
  <2>3. SubSeq(a \o s, Len(a) + 1, Len(a) + Len(s)) =
          SubSeq(s, Len(a) + 1 - Len(a), Len(a) + Len(s) - Len(a))
    <3> DEFINE i == Len(a) + 1
               j == Len(a) + Len(s)
    <3>1. i \in Len(a) + 1..Len(a) + Len(s) /\ j \in Len(a) + 1..Len(a) + Len(s) BY <2>2
    <3> HIDE DEF i, j
    <3>2. SubSeq(a \o s, i, j) = SubSeq(s, i - Len(a), j - Len(a))
      BY <1>4, <3>1, SubSeqOfConcat2
    <3> QED BY <3>2 DEF i, j
  <2>4. Len(a) + 1 - Len(a) = 1 /\ Len(a) + Len(s) - Len(a) = Len(s) BY <2>1
  <2> QED BY <1>4, <2>1, <2>3, <2>4, SubSeqFull
<1>8. SeenFile(g).rows = a \o s BY <1>5 DEF SeenFile
<1> QED BY <1>4, <1>5, <1>6, <1>7, <1>8

\* A change of the last file that keeps what was saved is a Save, or is not seen.
LEMMA LastKept ==
  ASSUME Valid(files), files # <<>>, NEW g \in File, Kept(Current(files), g),
         files' = Update(files, g)
  PROVE Directory!Next \/ UNCHANGED SavedFiles
<1> DEFINE n == Len(files)
           f == files[n]
<1>1. n \in DOMAIN files /\ DOMAIN files = 1..n /\ f \in File /\ f.saved <= Len(f.rows)
  BY LastElement DEF Valid
<1>2. PICK s \in Seq(Event) :
          /\ SeenFile(g) = [SeenFile(f) EXCEPT !.rows = @ \o s]
          /\ s = <<>> => SeenFile(g) = SeenFile(f)
          /\ s # <<>> => s = SubSeq(SeenFile(g).rows, Len(SeenFile(f).rows) + 1,
                                   Len(SeenFile(g).rows))
  <2>1. Kept(f, g) BY DEF Current
  <2> HIDE DEF f
  <2> QED BY <1>1, <2>1, SeenKept
<1>3. Seen(files) \in Seq(DirFile) /\ Len(Seen(files)) = n /\ Seen(files)[n] = SeenFile(f)
  BY <1>1, SeenType DEF Seen
<1>4. Seen(files') = [Seen(files) EXCEPT ![n] = SeenFile(g)]
  BY <1>1 DEF Seen, Update
<1> HIDE DEF f
<1>5. SavedFiles' = [SavedFiles EXCEPT ![n] = SeenFile(g)] /\ SavedFiles[n] = SeenFile(f)
      /\ SavedFiles \in Seq(DirFile) /\ Len(SavedFiles) = n
  BY <1>3, <1>4, SavedIsSeen
<1>6. CASE s = <<>>
  <2>1. SavedFiles' = SavedFiles BY <1>2, <1>5, <1>6
  <2> QED BY <2>1
<1>7. CASE s # <<>>
  <2>1. SavedFiles # <<>> BY <1>1, <1>5
  <2>2. n \in DOMAIN SavedFiles BY <1>1, <1>5
  <2>3. SavedFiles'[n] = SeenFile(g) BY <1>5, <2>2
  <2>4. Directory!Saved = s
    BY <1>2, <1>5, <1>7, <2>3 DEF Directory!Saved, Directory!Last
  <2>5. SavedFiles' = [SavedFiles EXCEPT ![n].rows = @ \o s] BY <1>2, <1>5, <2>2
  <2>6. Directory!Save(s) BY <1>5, <1>7, <2>1, <2>5 DEF Directory!Save
  <2> QED BY <2>4, <2>6 DEF Directory!Next
<1> QED BY <1>6, <1>7

(***************************************************************************)
(* Operations on the files.                                                *)
(***************************************************************************)
\* The last file is replaced by g, of the same name.
LEMMA UpdateLast ==
  ASSUME NEW fs, Valid(fs), fs # <<>>, NEW g \in File, g.saved <= Len(g.rows)
  PROVE /\ Current(fs) \in File /\ Current(fs).saved <= Len(Current(fs).rows)
        /\ Valid(Update(fs, g)) /\ Update(fs, g) # <<>> /\ Current(Update(fs, g)) = g
        /\ \A h : Update(Update(fs, g), h) = Update(fs, h)
        /\ (g.run = Current(fs).run /\ g.idx = Current(fs).idx /\ Ordered(fs))
             => Ordered(Update(fs, g))
<1> DEFINE n == Len(fs)
           us == [fs EXCEPT ![n] = g]
<1>1. fs \in Seq(File) /\ n \in DOMAIN fs /\ n \in Nat /\ DOMAIN fs = 1..n /\ fs[n] \in File
      /\ \A k \in 1..n : fs[k].saved <= Len(fs[k].rows)
  BY LastElement DEF Valid
<1>2. us \in Seq(File) /\ Len(us) = n /\ DOMAIN us = 1..n
      /\ \A k \in 1..n : us[k] = IF k = n THEN g ELSE fs[k]
  BY <1>1, ExceptSeq
<1>3. \A h : [us EXCEPT ![n] = h] = [fs EXCEPT ![n] = h]
  BY <1>1
<1> HIDE DEF us
<1>4. Update(fs, g) = us BY DEF Update, us
<1>5. Valid(us) /\ us # <<>> /\ us[n] = g
  <2>1. us # <<>> BY <1>1, <1>2, EmptySeq
  <2>2. \A k \in 1..n : us[k].saved <= Len(us[k].rows) BY <1>1, <1>2
  <2> QED BY <1>1, <1>2, <2>1, <2>2 DEF Valid
<1>6. ASSUME g.run = fs[n].run, g.idx = fs[n].idx, Ordered(fs) PROVE Ordered(us)
  <2>1. CASE Full(fs)
    <3>1. PICK k \in 1..n : fs[k].run > LastRun BY <1>1, <2>1 DEF Full
    <3>2. us[k].run = fs[k].run BY <1>2, <1>6
    <3>3. Full(us) BY <1>2, <3>1, <3>2 DEF Full
    <3> QED BY <3>3 DEF Ordered
  <2>2. CASE ~Full(fs)
    <3>1. \A k \in 1..n : /\ fs[k].run \in 0..fs[n].run
                          /\ fs[k].run = fs[n].run => fs[k].idx <= fs[n].idx
      BY <1>1, <1>6, <2>2 DEF Ordered, Current
    <3>2. \A k \in 1..n : us[k].run = fs[k].run /\ us[k].idx = fs[k].idx
      BY <1>2, <1>6
    <3> QED BY <1>1, <1>2, <3>1, <3>2 DEF Ordered, Current
  <2> QED BY <2>1, <2>2
<1>7. \A h : Update(us, h) = Update(fs, h) BY <1>2, <1>3 DEF Update
<1> QED BY <1>1, <1>2, <1>4, <1>5, <1>6, <1>7 DEF Current

\* A new file is added at the end, and then replaced by g.
LEMMA UpdateNew ==
  ASSUME NEW fs \in Seq(File), NEW f \in File, NEW g \in File
  PROVE Update(Append(fs, f), g) = Append(fs, g)
<1>1. /\ Append(fs, f) \in Seq(File) /\ Append(fs, g) \in Seq(File)
      /\ Len(fs) \in Nat /\ Len(Append(fs, f)) = Len(fs) + 1 /\ Len(Append(fs, g)) = Len(fs) + 1
      /\ Append(fs, f)[Len(fs) + 1] = f /\ Append(fs, g)[Len(fs) + 1] = g
      /\ \A k \in 1..Len(fs) : Append(fs, f)[k] = fs[k] /\ Append(fs, g)[k] = fs[k]
  BY AppendProperties
<1> DEFINE n == Len(fs) + 1
           as == Append(fs, f)
           bs == Append(fs, g)
           us == [as EXCEPT ![n] = g]
<1>2. n \in 1..Len(as) /\ as \in Seq(File) /\ g \in File BY <1>1
<1> HIDE DEF as, bs, n
<1>3. us \in Seq(File) /\ Len(us) = Len(as)
      /\ \A k \in 1..Len(as) : us[k] = IF k = n THEN g ELSE as[k]
  <2>1. \A xs \in Seq(File) : \A m \in 1..Len(xs) :
          /\ [xs EXCEPT ![m] = g] \in Seq(File) /\ Len([xs EXCEPT ![m] = g]) = Len(xs)
          /\ \A k \in 1..Len(xs) : [xs EXCEPT ![m] = g][k] = IF k = m THEN g ELSE xs[k]
    BY ExceptSeq
  <2> QED BY <1>2, <2>1
<1>4. Len(us) = Len(bs) /\ \A k \in 1..Len(us) : us[k] = bs[k]
  BY <1>1, <1>3 DEF as, bs, n
<1>5. us = bs BY <1>1, <1>3, <1>4, SeqEqual DEF bs
<1> QED BY <1>1, <1>5 DEF as, bs, n, Update

\* A file is removed: the other ones stay.
LEMMA Removed ==
  ASSUME NEW fs, Valid(fs), NEW i \in DOMAIN fs
  PROVE /\ Valid(RemoveAt(fs, i))
        /\ \A k \in DOMAIN fs : k # i => \E j \in DOMAIN RemoveAt(fs, i) :
             RemoveAt(fs, i)[j] = fs[k]
        /\ \A j \in DOMAIN RemoveAt(fs, i) : \E k \in DOMAIN fs : RemoveAt(fs, i)[j] = fs[k]
<1> DEFINE n == Len(fs)
           a == SubSeq(fs, 1, i - 1)
           b == SubSeq(fs, i + 1, n)
           rs == a \o b
<1>1. /\ fs \in Seq(File) /\ n \in Nat /\ DOMAIN fs = 1..n /\ i \in 1..n
      /\ \A k \in 1..n : fs[k] \in File /\ fs[k].saved <= Len(fs[k].rows)
  BY DEF Valid
<1>2. a \in Seq(File) /\ Len(a) = i - 1 /\ \A k \in 1..i - 1 : a[k] = fs[k]
  <2>1. \A k \in 1..i - 1 : fs[k] \in File BY <1>1
  <2>2. i - 1 \in Int /\ 1 <= i - 1 + 1 BY <1>1
  <2> QED BY <1>1, <2>1, <2>2, SubSeqProperties
<1>3. b \in Seq(File) /\ Len(b) = n - i /\ \A k \in 1..n - i : b[k] = fs[k + i]
  <2>1. \A k \in i + 1..n : fs[k] \in File BY <1>1
  <2> QED BY <1>1, <2>1, SubSeqProperties
<1> HIDE DEF a, b
<1>4. /\ rs \in Seq(File) /\ Len(rs) = n - 1 /\ DOMAIN rs = 1..n - 1
      /\ \A k \in 1..n - 1 : rs[k] = IF k < i THEN fs[k] ELSE fs[k + 1]
  <2>1. rs \in Seq(File) /\ Len(rs) = Len(a) + Len(b)
        /\ \A k \in 1..Len(a) + Len(b) : rs[k] = IF k <= Len(a) THEN a[k] ELSE b[k - Len(a)]
    BY <1>2, <1>3, ConcatProperties
  <2>2. Len(a) + Len(b) = n - 1 BY <1>1, <1>2, <1>3
  <2>3. ASSUME NEW k \in 1..n - 1 PROVE rs[k] = IF k < i THEN fs[k] ELSE fs[k + 1]
    <3>1. CASE k < i
      <4>1. rs[k] = a[k] /\ k \in 1..i - 1 BY <1>1, <1>2, <2>1, <2>2, <3>1
      <4> QED BY <1>2, <3>1, <4>1
    <3>2. CASE ~(k < i)
      <4>1. rs[k] = b[k - (i - 1)] /\ k - (i - 1) \in 1..n - i
            /\ k - (i - 1) + i = k + 1
        BY <1>1, <1>2, <2>1, <2>2, <3>2
      <4> QED BY <1>3, <3>2, <4>1
    <3> QED BY <3>1, <3>2
  <2> QED BY <2>1, <2>2, <2>3, LenProperties
<1>5. RemoveAt(fs, i) = rs BY DEF RemoveAt, a, b
<1> HIDE DEF rs
<1>6. Valid(rs)
  <2>1. ASSUME NEW k \in 1..n - 1 PROVE rs[k].saved <= Len(rs[k].rows)
    <3>1. k \in 1..n /\ k + 1 \in 1..n BY <1>1
    <3> QED BY <1>1, <1>4, <3>1
  <2> QED BY <1>4, <2>1 DEF Valid
<1>7. ASSUME NEW k \in 1..n, k # i PROVE \E j \in DOMAIN rs : rs[j] = fs[k]
  <2>1. CASE k < i
    <3>1. k \in 1..n - 1 /\ rs[k] = fs[k] BY <1>1, <1>4, <2>1
    <3> QED BY <1>4, <3>1
  <2>2. CASE k > i
    <3>1. k - 1 \in 1..n - 1 /\ ~(k - 1 < i) /\ k - 1 + 1 = k BY <1>1, <2>2
    <3>2. rs[k - 1] = fs[k] BY <1>4, <3>1
    <3> QED BY <1>4, <3>1, <3>2
  <2> QED BY <1>1, <1>7, <2>1, <2>2
<1>8. ASSUME NEW j \in DOMAIN rs PROVE \E k \in DOMAIN fs : rs[j] = fs[k]
  <2>1. j \in 1..n /\ j + 1 \in 1..n /\ (rs[j] = fs[j] \/ rs[j] = fs[j + 1]) BY <1>1, <1>4
  <2> QED BY <1>1, <2>1
<1> QED BY <1>1, <1>5, <1>6, <1>7, <1>8

\* The files when file i of run r is opened, with g as its first state.
Opened(r, i, g) == Update(OpenRootFile(files, r, i), g)

\* A new name follows the other files; the numbers stay used up.
LEMMA OpenedFile ==
  ASSUME Valid(files), NEW r \in Int, NEW i \in Int,
         NEW g \in File, g.run = r, g.idx = i, g.saved <= Len(g.rows)
  PROVE /\ Valid(Opened(r, i, g)) /\ Opened(r, i, g) # <<>> /\ Current(Opened(r, i, g)) = g
        /\ OpenRootFile(files, r, i) = Opened(r, i, NewFile(r, i))
        /\ Full(files) => Full(Opened(r, i, g))
        /\ \A k \in DOMAIN Opened(r, i, g) : \/ Opened(r, i, g)[k] = g
                                            \/ \E j \in DOMAIN files : Opened(r, i, g)[k] = files[j]
        /\ (\A k \in DOMAIN files : files[k].run = r => files[k].idx # i)
             => Opened(r, i, g) = Append(files, g)
<1> DEFINE same == {k \in DOMAIN files : files[k].run = r /\ files[k].idx = i}
           c == CHOOSE k \in same : TRUE
           rest == IF same = {} THEN files ELSE RemoveAt(files, c)
           os == Append(rest, g)
<1>1. files \in Seq(File) /\ DOMAIN files = 1..Len(files) BY DEF Valid
<1>2. same # {} => c \in same OBVIOUS
<1>3. Valid(rest) BY <1>2, Removed
<1>4. NewFile(r, i) \in File BY EmptySeq DEF NewFile, File, None
<1>5. rest \in Seq(File) BY <1>3 DEF Valid
<1>6. same = {} => rest = files OBVIOUS
<1>7. /\ \A k \in DOMAIN files : files[k].run = r \/ \E j \in DOMAIN rest : rest[j] = files[k]
      /\ \A j \in DOMAIN rest : \E k \in DOMAIN files : rest[j] = files[k]
  <2>1. CASE same = {}
    <3>1. rest = files BY <1>6, <2>1
    <3> HIDE DEF rest
    <3> QED BY <3>1
  <2>2. CASE same # {}
    <3>1. c \in DOMAIN files /\ files[c].run = r /\ rest = RemoveAt(files, c) BY <1>2, <2>2
    <3> HIDE DEF rest, c
    <3>2. /\ \A k \in DOMAIN files : k # c => \E j \in DOMAIN RemoveAt(files, c) :
               RemoveAt(files, c)[j] = files[k]
          /\ \A j \in DOMAIN RemoveAt(files, c) : \E k \in DOMAIN files :
               RemoveAt(files, c)[j] = files[k]
      BY <3>1, Removed
    <3> QED BY <3>1, <3>2
  <2> QED BY <2>1, <2>2
<1>8. OpenRootFile(files, r, i) = Append(rest, NewFile(r, i)) BY DEF OpenRootFile
<1> HIDE DEF rest
<1>9. Opened(r, i, g) = os BY <1>4, <1>5, <1>8, UpdateNew DEF Opened
<1>10. OpenRootFile(files, r, i) = Opened(r, i, NewFile(r, i))
  BY <1>4, <1>5, <1>8, UpdateNew DEF Opened
<1>11. /\ os \in Seq(File) /\ Len(rest) \in Nat /\ DOMAIN rest = 1..Len(rest)
       /\ Len(os) = Len(rest) + 1 /\ os[Len(rest) + 1] = g
       /\ DOMAIN os = 1..Len(rest) + 1 /\ \A k \in 1..Len(rest) : os[k] = rest[k]
  BY <1>5, AppendProperties
<1> HIDE DEF os
<1>12. Valid(os) BY <1>3, <1>11 DEF Valid
<1>13. os # <<>> BY <1>11, EmptySeq
<1>14. Current(os) = g BY <1>11 DEF Current
<1>15. ASSUME Full(files) PROVE Full(os)
  <2>1. PICK k \in DOMAIN files : files[k].run > LastRun BY <1>15 DEF Full
  <2>2. CASE files[k].run = r
    <3>1. os[Len(rest) + 1].run > LastRun BY <1>11, <2>1, <2>2
    <3> QED BY <1>11, <3>1 DEF Full
  <2>3. CASE \E j \in DOMAIN rest : rest[j] = files[k]
    <3>1. PICK j \in DOMAIN rest : rest[j] = files[k] BY <2>3
    <3>2. j \in DOMAIN os /\ os[j] = files[k] BY <1>11, <3>1
    <3> QED BY <2>1, <3>2 DEF Full
  <2> QED BY <1>7, <2>1, <2>2, <2>3
<1>16. ASSUME \A k \in DOMAIN files : files[k].run = r => files[k].idx # i
       PROVE Opened(r, i, g) = Append(files, g)
  BY <1>6, <1>9, <1>16 DEF os
<1>17. ASSUME NEW k \in DOMAIN os PROVE os[k] = g \/ \E j \in DOMAIN files : os[k] = files[j]
  <2>1. k \in DOMAIN rest \/ k = Len(rest) + 1 BY <1>11
  <2> QED BY <1>7, <1>11, <2>1
<1>18. \A k \in DOMAIN Opened(r, i, g) :
         Opened(r, i, g)[k] = g \/ \E j \in DOMAIN files : Opened(r, i, g)[k] = files[j]
  BY <1>9, <1>17
<1> QED BY <1>9, <1>10, <1>12, <1>13, <1>14, <1>15, <1>16, <1>18

\* The number of the next run follows the last file's.
LEMMA NextNumber ==
  ASSUME Valid(files), Ordered(files)
  PROVE /\ NextRun \in Int /\ NextRun \in 0..LastRun + 1
        /\ ~Full(files) => NextRun = IF files = <<>> THEN 0 ELSE Current(files).run + 1
<1> DEFINE found == {files[k].run : k \in DOMAIN files} \cap 0..LastRun
<1>1. NextRun = IF found = {} THEN 0 ELSE Max(found) + 1 BY DEF NextRun
<1>2. found \subseteq 0..LastRun /\ LastRun \in Nat BY SizeAssumption
<1>3. NextRun \in Int /\ NextRun \in 0..LastRun + 1
  <2> HIDE DEF found
  <2>1. CASE found = {}
    <3>1. NextRun = 0 BY <1>1, <2>1
    <3> QED BY <1>2, <3>1
  <2>2. CASE found # {}
    <3>1. Max(found) \in 0..LastRun /\ NextRun = Max(found) + 1
      BY <1>1, <1>2, <2>2, MaxOfNumbers
    <3> QED BY <1>2, <3>1
  <2> QED BY <2>1, <2>2
<1>4. ASSUME ~Full(files), files = <<>> PROVE NextRun = 0
  BY <1>1, <1>4
<1>5. ASSUME ~Full(files), files # <<>> PROVE NextRun = Current(files).run + 1
  <2> DEFINE n == Len(files)
  <2>1. n \in DOMAIN files /\ \A k \in DOMAIN files : files[k].run \in Int
    <3>1. n \in DOMAIN files /\ \A k \in DOMAIN files : files[k] \in File
      BY <1>5, LastElement DEF Valid
    <3> QED BY <3>1 DEF File
  <2>2. /\ files[n].run \in Nat
        /\ \A k \in DOMAIN files : files[k].run <= files[n].run /\ files[k].run <= LastRun
                                   /\ files[k].run \in Nat
    BY <1>2, <1>5, <2>1 DEF Ordered, Full, Current
  <2>3. files[n].run \in found /\ \A y \in found : y <= files[n].run
    BY <1>2, <2>1, <2>2
  <2>4. files[n].run \in Int BY <2>1
  <2> HIDE DEF found
  <2>5. Max(found) \in found /\ Max(found) >= files[n].run
    BY <1>2, <2>3, MaxOfNumbers
  <2>6. Max(found) = files[n].run
    <3>1. Max(found) <= files[n].run BY <2>3, <2>5
    <3>2. Max(found) \in Int
      <4>1. Max(found) \in 0..LastRun BY <1>2, <2>5, Zenon
      <4> QED BY <1>2, <4>1
    <3> QED BY <2>4, <2>5, <3>1, <3>2
  <2> QED BY <1>1, <2>3, <2>6 DEF Current
<1> QED BY <1>3, <1>4, <1>5

(***************************************************************************)
(* Steps.                                                                  *)
(***************************************************************************)
\* Only the last file changes, and keeps what was saved.
LastChange == /\ files # <<>>
              /\ \E g \in File : Kept(Current(files), g) /\ files' = Update(files, g)

\* Such a step keeps types, order and the name, and is seen as a Save or not at all.
LEMMA LastChanged ==
  ASSUME Valid(files), Ordered(files), LastChange
  PROVE /\ Valid(files') /\ Ordered(files') /\ files' # <<>>
        /\ Current(files').run = Current(files).run /\ Current(files').idx = Current(files).idx
        /\ Directory!Next \/ UNCHANGED SavedFiles
<1>1. PICK g \in File : Kept(Current(files), g) /\ files' = Update(files, g)
  BY DEF LastChange
<1>2. g.saved <= Len(g.rows) /\ g.run = Current(files).run /\ g.idx = Current(files).idx
  BY <1>1 DEF Kept
<1>3. Directory!Next \/ UNCHANGED SavedFiles BY <1>1, LastKept DEF LastChange
<1>4. /\ Valid(Update(files, g)) /\ Update(files, g) # <<>> /\ Current(Update(files, g)) = g
      /\ Ordered(Update(files, g))
  BY <1>2, UpdateLast DEF LastChange
<1> QED BY <1>1, <1>2, <1>3, <1>4

\* The last file gets times, events and counts, and keeps its name.
Named(st, en, rs, sv, n) ==
  [run |-> Current(files).run, idx |-> Current(files).idx, start |-> st, end |-> en,
   rows |-> rs, saved |-> sv, runs |-> n]
Changed(st, en, rs, sv, n) == files' = Update(files, Named(st, en, rs, sv, n))

\* What the operations write in the open file.
LEMMA Written ==
  ASSUME Valid(files), files # <<>>, NEW t \in Int, NEW f, f = Current(files)
  PROVE /\ f \in File /\ f.saved <= Len(f.rows)
        /\ files' = CloseRootFile(files) =>
             Changed(f.start, f.end, f.rows, Len(f.rows), f.runs)
        /\ files' = LeaveRootFile(files) =>
             Changed(f.start, f.end, SubSeq(f.rows, 1, f.saved), f.saved, f.runs)
        /\ files' = WriteRunEndTime(files, t) =>
             Changed(f.start, t, f.rows, f.saved, f.runs)
        /\ files' = CloseRootFile(WriteRunEndTime(files, t)) =>
             Changed(f.start, t, f.rows, Len(f.rows), f.runs)
        /\ files' = Update(WriteRunStartTime(files, t),
                           [Current(WriteRunStartTime(files, t)) EXCEPT !.runs = @ + 1]) =>
             Changed(t, f.end, f.rows, f.saved, f.runs + 1)
<1>1. f \in File /\ f.saved <= Len(f.rows)
  <2>1. files[Len(files)] \in File /\ Len(files) \in DOMAIN files
    BY LastElement DEF Valid
  <2> QED BY <2>1 DEF Valid, Current
<1>2. /\ f.rows \in Seq(Event) /\ f.saved \in Nat /\ f.runs \in Int
      /\ f.run \in Int /\ f.idx \in Int /\ f.start \in Int /\ f.end \in Int
      /\ Len(f.rows) \in Nat
      /\ f = [run |-> f.run, idx |-> f.idx, start |-> f.start, end |-> f.end,
              rows |-> f.rows, saved |-> f.saved, runs |-> f.runs]
  BY <1>1 DEF File
<1> DEFINE g(st, en, rs, sv, n) == [run |-> f.run, idx |-> f.idx, start |-> st, end |-> en,
                                    rows |-> rs, saved |-> sv, runs |-> n]
           ended == [f EXCEPT !.end = t]
           begun == [f EXCEPT !.start = t]
<1>3. \A st, en, rs, sv, n : Named(st, en, rs, sv, n) = g(st, en, rs, sv, n)
  BY DEF Named
<1>4. /\ [f EXCEPT !.saved = Len(f.rows)] = g(f.start, f.end, f.rows, Len(f.rows), f.runs)
      /\ ended = g(f.start, t, f.rows, f.saved, f.runs)
      /\ begun = g(t, f.end, f.rows, f.saved, f.runs)
  BY <1>2
<1>5. [f EXCEPT !.rows = SubSeq(@, 1, f.saved)]
        = g(f.start, f.end, SubSeq(f.rows, 1, f.saved), f.saved, f.runs)
  <2>1. \A r : [f EXCEPT !.rows = r] = g(f.start, f.end, r, f.saved, f.runs) BY <1>2
  <2> QED BY <2>1
<1>6. ended \in File /\ begun \in File /\ ended.saved <= Len(ended.rows)
      /\ begun.saved <= Len(begun.rows)
  BY <1>1, <1>2 DEF File
<1>7. [ended EXCEPT !.saved = Len(ended.rows)] = g(f.start, t, f.rows, Len(f.rows), f.runs)
      /\ [begun EXCEPT !.runs = @ + 1] = g(t, f.end, f.rows, f.saved, f.runs + 1)
  <2> HIDE DEF ended, begun
  <2> QED BY <1>4
<1> HIDE DEF ended, begun, g
<1>8. WriteRunEndTime(files, t) = Update(files, ended)
      /\ WriteRunStartTime(files, t) = Update(files, begun)
  BY DEF WriteRunEndTime, WriteRunStartTime, ended, begun
<1>9. /\ Current(Update(files, ended)) = ended /\ Current(Update(files, begun)) = begun
      /\ \A h : /\ Update(Update(files, ended), h) = Update(files, h)
               /\ Update(Update(files, begun), h) = Update(files, h)
  BY <1>6, UpdateLast
<1>10. files' = CloseRootFile(files) => Changed(f.start, f.end, f.rows, Len(f.rows), f.runs)
  BY <1>3, <1>4 DEF CloseRootFile, Changed
<1>11. files' = LeaveRootFile(files) =>
         Changed(f.start, f.end, SubSeq(f.rows, 1, f.saved), f.saved, f.runs)
  BY <1>3, <1>5 DEF LeaveRootFile, Changed
<1>12. files' = WriteRunEndTime(files, t) => Changed(f.start, t, f.rows, f.saved, f.runs)
  BY <1>3, <1>4, <1>8 DEF Changed
<1>13. files' = CloseRootFile(WriteRunEndTime(files, t)) =>
         Changed(f.start, t, f.rows, Len(f.rows), f.runs)
  BY <1>3, <1>7, <1>8, <1>9 DEF CloseRootFile, Changed
<1>14. files' = Update(WriteRunStartTime(files, t),
                       [Current(WriteRunStartTime(files, t)) EXCEPT !.runs = @ + 1]) =>
         Changed(t, f.end, f.rows, f.saved, f.runs + 1)
  BY <1>3, <1>7, <1>8, <1>9 DEF Changed
<1> QED BY <1>1, <1>10, <1>11, <1>12, <1>13, <1>14

\* Such a change is one of the last file only, if the saved events stay.
LEMMA ChangedLast ==
  ASSUME Valid(files), files # <<>>, NEW f, f = Current(files),
         NEW st \in Int, NEW en \in Int, NEW rs \in Seq(Event), NEW sv \in Nat, NEW n \in Int,
         Changed(st, en, rs, sv, n), f.saved <= sv, sv <= Len(rs),
         \A i \in 1..f.saved : rs[i] = f.rows[i]
  PROVE LastChange /\ Current(files') = Named(st, en, rs, sv, n)
<1> DEFINE g == Named(st, en, rs, sv, n)
<1>1. f \in File
  <2>1. files[Len(files)] \in File BY LastElement DEF Valid
  <2> QED BY <2>1 DEF Current
<1>2. g \in File /\ Kept(f, g) /\ g.saved <= Len(g.rows) BY <1>1 DEF Named, File, Kept
<1> HIDE DEF g
<1>3. files' = Update(files, g) BY DEF Changed, g
<1>4. Current(Update(files, g)) = g BY <1>2, UpdateLast
<1> QED BY <1>2, <1>3, <1>4 DEF LastChange, g

\* The operations on the open file change only the last file.
LEMMA Operations ==
  ASSUME Valid(files), files # <<>>, NEW t \in Int
  PROVE /\ files' = CloseRootFile(files) => LastChange
        /\ files' = LeaveRootFile(files) => LastChange
        /\ files' = WriteRunEndTime(files, t) => LastChange
        /\ files' = CloseRootFile(WriteRunEndTime(files, t)) =>
             LastChange /\ Current(files').saved = Len(Current(files).rows)
        /\ files' = Update(WriteRunStartTime(files, t),
                           [Current(WriteRunStartTime(files, t)) EXCEPT !.runs = @ + 1]) =>
             LastChange
<1>1. PICK f : f = Current(files) OBVIOUS
<1>2. /\ f \in File /\ f.saved <= Len(f.rows)
      /\ files' = CloseRootFile(files) =>
           Changed(f.start, f.end, f.rows, Len(f.rows), f.runs)
      /\ files' = LeaveRootFile(files) =>
           Changed(f.start, f.end, SubSeq(f.rows, 1, f.saved), f.saved, f.runs)
      /\ files' = WriteRunEndTime(files, t) =>
           Changed(f.start, t, f.rows, f.saved, f.runs)
      /\ files' = CloseRootFile(WriteRunEndTime(files, t)) =>
           Changed(f.start, t, f.rows, Len(f.rows), f.runs)
      /\ files' = Update(WriteRunStartTime(files, t),
                         [Current(WriteRunStartTime(files, t)) EXCEPT !.runs = @ + 1]) =>
           Changed(t, f.end, f.rows, f.saved, f.runs + 1)
  BY <1>1, Written
<1>3. /\ f.rows \in Seq(Event) /\ f.saved \in Nat /\ f.runs \in Int /\ f.runs + 1 \in Int
      /\ f.start \in Int /\ f.end \in Int /\ Len(f.rows) \in Nat
  BY <1>2 DEF File
<1> DEFINE left == SubSeq(f.rows, 1, f.saved)
<1>4. left \in Seq(Event) /\ Len(left) = f.saved /\ \A i \in 1..f.saved : left[i] = f.rows[i]
  <2>1. \A i \in 1..f.saved : f.rows[i] \in Event BY <1>2, <1>3
  <2> QED BY <1>2, <1>3, <2>1, SubSeqProperties
<1> HIDE DEF left
<1>5. ASSUME NEW st \in Int, NEW en \in Int, NEW n \in Int
      PROVE /\ Changed(st, en, f.rows, Len(f.rows), n) =>
                  LastChange /\ Current(files').saved = Len(f.rows)
            /\ Changed(st, en, f.rows, f.saved, n) => LastChange
            /\ Changed(st, en, left, f.saved, n) => LastChange
  <2>1. /\ f.saved <= Len(f.rows) /\ Len(f.rows) <= Len(f.rows) /\ f.saved <= f.saved
        /\ \A i \in 1..f.saved : f.rows[i] = f.rows[i]
    BY <1>2, <1>3
  <2>2. Changed(st, en, f.rows, Len(f.rows), n) =>
          LastChange /\ Current(files') = Named(st, en, f.rows, Len(f.rows), n)
    BY <1>1, <1>3, <2>1, ChangedLast
  <2>3. Changed(st, en, f.rows, f.saved, n) => LastChange
    BY <1>1, <1>3, <2>1, ChangedLast
  <2>4. Changed(st, en, left, f.saved, n) => LastChange
    BY <1>1, <1>3, <1>4, <2>1, ChangedLast
  <2> QED BY <2>2, <2>3, <2>4 DEF Named
<1> QED BY <1>1, <1>2, <1>3, <1>5 DEF left

\* A file of a run that follows the last one is added.
LEMMA NextName ==
  ASSUME Valid(files), Ordered(files), NEW r \in Int, NEW i \in Int,
         NEW g \in File, g.run = r, g.idx = i, g.rows = <<>>, g.saved = 0,
         ~Full(files) => IF files = <<>> THEN r = 0
                         ELSE \/ r = Current(files).run + 1
                              \/ r = Current(files).run /\ i = Current(files).idx + 1,
         files' = Opened(r, i, g)
  PROVE /\ Valid(files') /\ Ordered(files') /\ files' # <<>> /\ Current(files') = g
        /\ \/ Full(files')
           \/ ~Full(files) /\ files' = Append(files, g)
              /\ SavedFiles' = Append(SavedFiles, Directory!File(r, i))
        /\ \A k \in DOMAIN files' : files'[k] = g \/ \E j \in DOMAIN files : files'[k] = files[j]
<1>1. g.saved <= Len(g.rows) BY EmptySeq
<1>2. /\ Valid(files') /\ files' # <<>> /\ Current(files') = g
      /\ Full(files) => Full(files')
      /\ (\A k \in DOMAIN files : files[k].run = r => files[k].idx # i)
             => files' = Append(files, g)
      /\ \A k \in DOMAIN files' : files'[k] = g \/ \E j \in DOMAIN files : files'[k] = files[j]
  BY <1>1, OpenedFile
<1>3. CASE Full(files')
  BY <1>2, <1>3 DEF Ordered
<1>4. CASE ~Full(files')
  <2>1. ~Full(files) BY <1>2, <1>4
  <2>2. files \in Seq(File) /\ Len(files) \in Nat /\ DOMAIN files = 1..Len(files)
        /\ \A k \in DOMAIN files : files[k] \in File
    BY DEF Valid
  <2>3. \A k \in DOMAIN files : files[k].run \in Int /\ files[k].idx \in Int
    BY <2>2 DEF File
  <2>4. files # <<>> => Len(files) \in DOMAIN files BY <2>2, EmptySeq
  <2>5. files # <<>> => Current(files).run \in 0..Current(files).run
    BY <2>1, <2>4 DEF Ordered, Current
  <2>6. \A k \in DOMAIN files : /\ files[k].run \in 0..r
                                /\ files[k].run = r => files[k].idx < i
    <3> SUFFICES ASSUME NEW k \in DOMAIN files
                 PROVE files[k].run \in 0..r /\ (files[k].run = r => files[k].idx < i)
      OBVIOUS
    <3>1. files # <<>> BY <2>2, EmptySeq
    <3>2. /\ files[k].run \in 0..Current(files).run
          /\ files[k].run = Current(files).run => files[k].idx <= Current(files).idx
          /\ Current(files).run \in Int /\ Current(files).idx \in Int
      BY <2>1, <2>3, <2>4, <3>1 DEF Ordered, Current
    <3> QED BY <2>1, <2>3, <3>1, <3>2
  <2>7. files' = Append(files, g) BY <1>2, <2>3, <2>6
  <2>8. Seen(files') = Append(Seen(files), SeenFile(g)) BY <1>1, <2>7, SeenAppend
  <2>9. SeenFile(g) = Directory!File(r, i)
    <3>1. SubSeq(g.rows, 1, g.saved) = <<>> BY SubSeqEmpty
    <3> QED BY <3>1 DEF SeenFile, Directory!File
  <2>10. Ordered(files')
    <3>1. /\ DOMAIN files' = 1..Len(files) + 1 /\ files'[Len(files) + 1] = g
          /\ \A k \in DOMAIN files : files'[k] = files[k]
      BY <2>2, <2>7
    <3>2. r \in 0..r
      BY <2>1, <2>5
    <3>3. ASSUME NEW k \in DOMAIN files'
          PROVE files'[k].run \in 0..r /\ (files'[k].run = r => files'[k].idx <= i)
      <4>1. CASE k \in DOMAIN files BY <2>3, <2>6, <3>1, <4>1
      <4>2. CASE k = Len(files) + 1 BY <3>1, <3>2, <4>2
      <4> QED BY <2>2, <3>1, <4>1, <4>2
    <3> QED BY <1>2, <3>3 DEF Ordered
  <2> QED BY <1>2, <2>1, <2>7, <2>8, <2>9, <2>10, SavedIsSeen
<1> QED BY <1>3, <1>4

\* What a step that opens no file keeps.
LEMMA NotOpened ==
  ASSUME Valid(files), Ordered(files), files' = files \/ LastChange
  PROVE /\ Valid(files') /\ Ordered(files')
        /\ files # <<>> => /\ files' # <<>> /\ Current(files').run = Current(files).run
                           /\ Current(files').idx = Current(files).idx
        /\ Directory!Next \/ UNCHANGED SavedFiles
<1>1. CASE files' = files BY <1>1 DEF SavedFiles
<1>2. CASE LastChange BY <1>2, LastChanged
<1> QED BY <1>1, <1>2

\* What a reader sees of a step.
Seeing == Full(files') \/ Directory!Next \/ UNCHANGED SavedFiles

\* A step of main that opens no file.
LEMMA MainStep ==
  ASSUME IInv,
         \/ OpenFiles \/ CloseFiles \/ StartDAQ \/ ReturnDAQ \/ Misuse \/ StopDAQ
         \/ TellBuilder \/ JoinBuilder \/ Quit \/ Kill \/ Restart \/ Tick
  PROVE IInv' /\ Seeing
<1> USE DEF IInv, nameVars, timeVars, loopVars, countVars
<1>1. Valid(files) /\ Ordered(files) BY DEF DataType
<1>2. open => files # <<>> BY DEF Control, Following
<1>3. open => \A t \in Int : /\ files' = CloseRootFile(files) => LastChange
                             /\ files' = LeaveRootFile(files) => LastChange
                             /\ files' = CloseRootFile(WriteRunEndTime(files, t)) => LastChange
  BY <1>1, <1>2, Operations
<1>4. files' = files \/ LastChange
  <2>1. CASE OpenFiles \/ CloseFiles BY <1>3, <2>1 DEF OpenFiles, CloseFiles, Closed
  <2>2. CASE Quit BY <1>3, <2>2 DEF Quit, DataType
  <2>3. CASE Kill BY <1>3, <2>3 DEF Kill
  <2>4. CASE \/ StartDAQ \/ ReturnDAQ \/ Misuse \/ StopDAQ \/ TellBuilder \/ JoinBuilder
             \/ Restart \/ Tick
    BY <2>4 DEF StartDAQ, ReturnDAQ, Misuse, StopDAQ, TellBuilder, JoinBuilder, Restart, Tick
  <2> QED BY <2>1, <2>2, <2>3, <2>4
<1>5. /\ Valid(files') /\ Ordered(files')
      /\ files # <<>> => /\ files' # <<>> /\ Current(files').run = Current(files).run
                         /\ Current(files').idx = Current(files).idx
      /\ Seeing
  BY <1>1, <1>4, NotOpened DEF Seeing
<1>6. DataType'
  <2>1. CASE Kill
    <3>1. CASE open
      <4> DEFINE m == Len(taken) + Current(files).saved - Len(Current(files).rows)
      <4>1. Current(files) \in File /\ Current(files).saved <= Len(Current(files).rows)
        <5>1. Len(files) \in DOMAIN files /\ files[Len(files)] \in File
          BY <1>1, <1>2, <3>1, LastElement DEF Valid
        <5> QED BY <1>1, <5>1 DEF Valid, Current
      <4>2. m \in Int /\ m <= Len(taken) /\ taken \in Seq(Event)
        BY <4>1 DEF File, DataType
      <4> HIDE DEF m
      <4>3. \A i \in 1..m : taken[i] \in Event BY <4>2
      <4>4. SubSeq(taken, 1, m) \in Seq(Event) BY <4>2, <4>3
      <4>5. taken' = SubSeq(taken, 1, m) BY <2>1, <3>1 DEF Kill, m
      <4> QED BY <1>5, <2>1, <4>4, <4>5 DEF Kill, DataType
    <3>2. CASE ~open BY <1>5, <2>1, <3>2 DEF Kill, DataType
    <3> QED BY <3>1, <3>2
  <2>2. CASE OpenFiles
    <3>1. currentRun' \in Int
      <4>1. currentRun' = currentRun \/ currentRun' = -1 BY <2>2 DEF OpenFiles
      <4> QED BY <4>1 DEF DataType
    <3>2. open' \in BOOLEAN BY <2>2 DEF OpenFiles
    <3>3. UNCHANGED <<taken, clock, timestamp, runStartTime, runEndTime, fileIndex>>
      BY <2>2 DEF OpenFiles
    <3> QED BY <1>5, <3>1, <3>2, <3>3 DEF DataType
  <2>3. CASE CloseFiles \/ Quit BY <1>5, <2>3 DEF CloseFiles, Quit, DataType
  <2>4. CASE StartDAQ \/ StopDAQ \/ Tick BY <1>5, <2>4 DEF StartDAQ, StopDAQ, Tick, DataType
  <2>5. CASE ReturnDAQ \/ Misuse \/ TellBuilder \/ JoinBuilder
    BY <1>5, <2>5 DEF ReturnDAQ, Misuse, TellBuilder, JoinBuilder, DataType
  <2>6. CASE Restart BY <1>5, <2>6 DEF Restart, DataType
  <2> QED BY <2>1, <2>2, <2>3, <2>4, <2>5, <2>6
<1>7. Control'
  <2>1. CASE OpenFiles BY <1>5, <2>1 DEF OpenFiles, Control
  <2>2. CASE CloseFiles \/ Quit BY <1>5, <2>2 DEF CloseFiles, Quit, Control
  <2>3. CASE StartDAQ BY <1>5, <2>3 DEF StartDAQ, Control, Following
  <2>4. CASE ReturnDAQ \/ Misuse BY <1>5, <2>4 DEF ReturnDAQ, Misuse, Control, Following
  <2>5. CASE StopDAQ \/ TellBuilder \/ JoinBuilder
    BY <1>5, <2>5 DEF StopDAQ, TellBuilder, JoinBuilder, Control, Following
  <2>6. CASE Kill BY <1>5, <2>6 DEF Kill, Control
  <2>7. CASE Restart BY <1>5, <2>7 DEF Restart, Control
  <2>8. CASE Tick BY <1>5, <2>8 DEF Tick, Control, Following
  <2> QED BY <2>1, <2>2, <2>3, <2>4, <2>5, <2>6, <2>7, <2>8
<1> QED BY <1>5, <1>6, <1>7

\* File g is the last one now; the others were there, and none is gone until the
\* numbers are used up.
NewLast(g) == /\ Current(files') = g /\ g \in File
              /\ \A k \in DOMAIN files' :
                   files'[k] = g \/ \E j \in DOMAIN files : files'[k] = files[j]
              /\ Full(files') \/ (~Full(files) /\ files' = Append(files, g))

\* The first file of the next run.
LEMMA OpenRunStep ==
  ASSUME IInv, OpenRun
  PROVE IInv' /\ Seeing /\ NewLast(NewFile(NextRun, 1))
<1> USE DEF IInv, timeVars, loopVars, countVars
<1> DEFINE r == NextRun
           g == NewFile(r, 1)
<1>1. Valid(files) /\ Ordered(files) BY DEF DataType
<1>2. r \in Int /\ (~Full(files) => r = IF files = <<>> THEN 0 ELSE Current(files).run + 1)
  BY <1>1, NextNumber
<1>3. files' = OpenRootFile(files, r, 1) /\ currentRun' = r BY DEF OpenRun
<1> HIDE DEF r
<1>4. g \in File /\ g.run = r /\ g.idx = 1 /\ g.rows = <<>> /\ g.saved = 0
  BY <1>2, EmptySeq DEF NewFile, File, None
<1>5. OpenRootFile(files, r, 1) = Opened(r, 1, g)
  BY <1>1, <1>2, <1>4, EmptySeq, OpenedFile
<1> HIDE DEF g
<1>6. /\ Valid(files') /\ Ordered(files') /\ files' # <<>> /\ Current(files') = g
      /\ NewLast(g) /\ (Full(files') \/ SavedFiles' = Append(SavedFiles, Directory!File(r, 1)))
  BY <1>1, <1>2, <1>3, <1>4, <1>5, NextName DEF NewLast
<1>7. SavedFiles' = Append(SavedFiles, Directory!File(r, 1)) => Full(files') \/ Directory!NewRun
  <2> SUFFICES ASSUME SavedFiles' = Append(SavedFiles, Directory!File(r, 1)), ~Full(files')
               PROVE Directory!NewRun
    OBVIOUS
  <2>1. ~Full(files) BY <1>1, <1>2, <1>3, <1>4, <1>5, EmptySeq, OpenedFile
  <2>2. CASE files = <<>>
    <3>1. SavedFiles = <<>> BY <2>2 DEF SavedFiles
    <3> QED BY <1>2, <2>1, <2>2, <3>1 DEF Directory!NewRun
  <2>3. CASE files # <<>>
    <3>1. Len(files) \in DOMAIN files BY <1>1, <2>3, LastElement DEF Valid
    <3>2. Len(SavedFiles) = Len(files) /\ SavedFiles \in Seq(DirFile)
      BY <1>1, SeenType, SavedIsSeen
    <3>3. SavedFiles # <<>> BY <1>1, <2>3, <3>2, EmptySeq DEF Valid
    <3>4. Directory!Last.run = Current(files).run
      BY <3>1, <3>2 DEF Directory!Last, SavedFiles, Current
    <3> QED BY <1>2, <2>1, <2>3, <3>3, <3>4 DEF Directory!NewRun
  <2> QED BY <2>2, <2>3
<1>8. Seeing BY <1>6, <1>7 DEF Seeing, Directory!Next
<1>9. DataType' BY <1>2, <1>3, <1>6 DEF OpenRun, DataType
<1>10. Control' BY <1>3, <1>4, <1>6 DEF OpenRun, Control, Following
<1> QED BY <1>6, <1>8, <1>9, <1>10 DEF g, r

\* The next file of the run.
LEMMA OpenNextStep ==
  ASSUME IInv, OpenNext
  PROVE /\ IInv' /\ Seeing
        /\ NewLast([run |-> currentRun, idx |-> fileIndex, start |-> timestamp, end |-> None,
                    rows |-> <<>>, saved |-> 0, runs |-> 1])
<1> USE DEF IInv, timeVars, loopVars, countVars
<1> DEFINE r == currentRun
           i == fileIndex
           f == NewFile(r, i)
           g == [run |-> r, idx |-> i, start |-> timestamp, end |-> None, rows |-> <<>>,
                 saved |-> 0, runs |-> 1]
           os == OpenRootFile(files, r, i)
<1>1. Valid(files) /\ Ordered(files) /\ r \in Int /\ i \in Int /\ timestamp \in Int
  BY DEF DataType
<1>2. /\ files # <<>> /\ r = Current(files).run /\ i = Current(files).idx + 1
      /\ Current(files).saved # 0
  BY DEF OpenNext, Control, Following
<1>3. f \in File /\ f.run = r /\ f.idx = i /\ f.rows = <<>> /\ f.saved = 0
      /\ f = [run |-> r, idx |-> i, start |-> None, end |-> None, rows |-> <<>>,
              saved |-> 0, runs |-> 0]
  BY <1>1, EmptySeq DEF NewFile, File, None
<1>4. g \in File /\ g.run = r /\ g.idx = i /\ g.rows = <<>> /\ g.saved = 0
  BY <1>1, EmptySeq DEF File, None
<1>5. files' = Opened(r, i, g)
  <2> DEFINE b == [f EXCEPT !.start = timestamp]
  <2>1. b = [run |-> r, idx |-> i, start |-> timestamp, end |-> None, rows |-> <<>>,
             saved |-> 0, runs |-> 0]
    BY <1>3
  <2> HIDE DEF f, b
  <2>2. b \in File /\ b.saved <= Len(b.rows)
    <3>1. <<>> \in Seq(Event) /\ Len(<<>>) = 0 BY EmptySeq
    <3>2. None \in Int BY DEF None
    <3> QED BY <1>1, <2>1, <3>1, <3>2 DEF File
  <2>3. [b EXCEPT !.runs = 1] = g BY <2>1
  <2>4. f.saved <= Len(f.rows) BY <1>3, EmptySeq
  <2> HIDE DEF g
  <2>5. Valid(os) /\ os # <<>> /\ Current(os) = f
    <3>1. os = Opened(r, i, f) BY <1>1, <1>3, <2>4, OpenedFile DEF f
    <3> QED BY <1>1, <1>3, <2>4, <3>1, OpenedFile
  <2>6. WriteRunStartTime(os, timestamp) = Update(os, b)
    BY <2>5 DEF WriteRunStartTime, b
  <2>7. /\ Current(Update(os, b)) = b
        /\ \A h : Update(Update(os, b), h) = Update(os, h)
    BY <2>2, <2>5, UpdateLast
  <2>8. files' = Update(Update(os, b), [b EXCEPT !.runs = 1])
    BY <2>6, <2>7 DEF OpenNext
  <2> QED BY <2>3, <2>7, <2>8 DEF Opened
<1> HIDE DEF r, i, f, g, os
<1>6. /\ Valid(files') /\ Ordered(files') /\ files' # <<>> /\ Current(files') = g
      /\ NewLast(g) /\ (Full(files') \/ SavedFiles' = Append(SavedFiles, Directory!File(r, i)))
  <2>1. ~Full(files) => IF files = <<>> THEN r = 0
                        ELSE \/ r = Current(files).run + 1
                             \/ r = Current(files).run /\ i = Current(files).idx + 1
    BY <1>2
  <2> QED BY <1>1, <1>4, <1>5, <2>1, NextName DEF NewLast
<1>7. SavedFiles' = Append(SavedFiles, Directory!File(r, i)) => Directory!NextFile
  <2>1. Len(files) \in DOMAIN files BY <1>1, <1>2, LastElement DEF Valid
  <2>2. Len(SavedFiles) = Len(files) /\ SavedFiles \in Seq(DirFile)
    BY <1>1, SeenType, SavedIsSeen
  <2>3. SavedFiles # <<>> BY <1>1, <1>2, <2>2, EmptySeq DEF Valid
  <2>4. Directory!Last = SeenFile(Current(files))
    BY <2>1, <2>2 DEF Directory!Last, SavedFiles, Current, SeenFile
  <2>5. Current(files) \in File /\ Current(files).saved <= Len(Current(files).rows)
    BY <1>1, <2>1 DEF Valid, Current
  <2>6. Directory!Last.rows # <<>> BY <1>2, <2>4, <2>5, SeenFileType, EmptySeq DEF File
  <2>7. Directory!Last.run = r /\ Directory!Last.idx + 1 = i BY <1>2, <2>4 DEF SeenFile
  <2> QED BY <2>3, <2>6, <2>7 DEF Directory!NextFile
<1>8. Seeing BY <1>6, <1>7 DEF Seeing, Directory!Next
<1>9. DataType' BY <1>6 DEF OpenNext, DataType
<1>10. Control' BY <1>4, <1>6 DEF OpenNext, Control, Following, r, i
<1> QED BY <1>6, <1>8, <1>9, <1>10 DEF g, r, i

\* An event is filled.
LEMMA FillStep == ASSUME IInv, NEW t \in 0..clock, FillTree(t) PROVE IInv' /\ Seeing
<1> USE DEF IInv, nameVars, timeVars, countVars
<1> DEFINE row == [id |-> Len(taken) + 1, time |-> t]
           f == Current(files)
           rows == Append(f.rows, row)
           saved == IF SaveDue(t) THEN Len(rows) ELSE f.saved
           g == [f EXCEPT !.rows = rows, !.saved = saved]
           h == [run |-> f.run, idx |-> f.idx, start |-> f.start, end |-> f.end,
                 rows |-> rows, saved |-> saved, runs |-> f.runs]
<1>1. Valid(files) /\ Ordered(files) /\ taken \in Seq(Event) /\ clock \in Int BY DEF DataType
<1>2. open /\ files # <<>> BY DEF FillTree, Control, Following
<1>3. t \in Int /\ row \in Event BY <1>1 DEF Event
<1>4. f \in File /\ f.saved <= Len(f.rows)
  <2>1. Len(files) \in DOMAIN files /\ files[Len(files)] \in File
    BY <1>1, <1>2, LastElement DEF Valid
  <2> QED BY <1>1, <2>1 DEF Valid, Current
<1>5. files' = Update(files, g) /\ taken' = Append(taken, row) BY DEF FillTree
<1> HIDE DEF f
<1>6. /\ f.run \in Int /\ f.idx \in Int /\ f.start \in Int /\ f.end \in Int
      /\ f.rows \in Seq(Event) /\ f.saved \in Nat /\ f.runs \in Int
      /\ f = [run |-> f.run, idx |-> f.idx, start |-> f.start, end |-> f.end,
              rows |-> f.rows, saved |-> f.saved, runs |-> f.runs]
  BY <1>4 DEF File
<1>7. g = h
  <2>1. \A a : [f EXCEPT !.rows = a] =
               [run |-> f.run, idx |-> f.idx, start |-> f.start, end |-> f.end,
                rows |-> a, saved |-> f.saved, runs |-> f.runs]
    BY <1>6
  <2> DEFINE e == [f EXCEPT !.rows = rows]
  <2>2. e = [run |-> f.run, idx |-> f.idx, start |-> f.start, end |-> f.end,
             rows |-> rows, saved |-> f.saved, runs |-> f.runs]
    BY <2>1
  <2>3. g = [e EXCEPT !.saved = saved] OBVIOUS
  <2> HIDE DEF e, g, rows, saved
  <2> QED BY <2>2, <2>3
<1> HIDE DEF row
<1>8. /\ rows \in Seq(Event) /\ Len(rows) = Len(f.rows) + 1 /\ Len(f.rows) \in Nat
      /\ \A k \in 1..Len(f.rows) : rows[k] = f.rows[k]
  BY <1>3, <1>6, AppendProperties
<1> HIDE DEF rows
<1>9. saved \in Nat /\ f.saved <= saved /\ saved <= Len(rows) BY <1>4, <1>6, <1>8
<1> HIDE DEF saved
<1>10. h \in File /\ Kept(f, h) /\ h.rows # <<>>
  <2>1. h \in File BY <1>6, <1>8, <1>9 DEF File
  <2>2. Kept(f, h) BY <1>4, <1>6, <1>8, <1>9 DEF Kept
  <2>3. rows # <<>> BY <1>8, EmptySeq
  <2> QED BY <2>1, <2>2, <2>3
<1> HIDE DEF g, h
<1>11. LastChange BY <1>2, <1>5, <1>7, <1>10 DEF LastChange, f
<1>12. /\ Valid(files') /\ Ordered(files') /\ files' # <<>> /\ Seeing
       /\ Current(files').run = Current(files).run /\ Current(files').idx = Current(files).idx
  BY <1>1, <1>11, LastChanged DEF Seeing
<1>13. Current(files').rows # <<>>
  <2>1. h.saved <= Len(h.rows) BY <1>10 DEF Kept
  <2>2. Current(files') = h BY <1>1, <1>2, <1>5, <1>7, <1>10, <2>1, UpdateLast
  <2> QED BY <1>10, <2>2
<1>14. DataType'
  <2>1. taken' \in Seq(Event) BY <1>1, <1>3, <1>5
  <2> QED BY <1>3, <1>12, <2>1 DEF FillTree, DataType
<1>15. Control' BY <1>2, <1>12, <1>13 DEF FillTree, Control, Following
<1> QED BY <1>12, <1>14, <1>15

\* The other steps of the event builder.
LEMMA BuilderStep ==
  ASSUME IInv, StartBuilder \/ CheckFileSize \/ EndBuilder
  PROVE IInv' /\ Seeing
<1> USE DEF IInv, nameVars, timeVars, loopVars, countVars
<1>1. Valid(files) /\ Ordered(files) BY DEF DataType
<1>2. open => files # <<>> BY DEF Control, Following
<1>3. open => \A t \in Int :
        /\ files' = WriteRunEndTime(files, t) => LastChange
        /\ files' = CloseRootFile(WriteRunEndTime(files, t)) =>
             LastChange /\ Current(files').saved = Len(Current(files).rows)
        /\ files' = Update(WriteRunStartTime(files, t),
                           [Current(WriteRunStartTime(files, t)) EXCEPT !.runs = @ + 1]) =>
             LastChange
  BY <1>1, <1>2, Operations
<1>4. ASSUME files' = files \/ LastChange
      PROVE /\ Valid(files') /\ Ordered(files')
            /\ files # <<>> => /\ files' # <<>> /\ Current(files').run = Current(files).run
                               /\ Current(files').idx = Current(files).idx
            /\ Seeing
  BY <1>1, <1>4, NotOpened DEF Seeing
<1>5. CASE StartBuilder
  <2>1. files' = files \/ LastChange BY <1>3, <1>5 DEF StartBuilder, DataType
  <2>2. DataType' BY <1>4, <1>5, <2>1 DEF StartBuilder, DataType
  <2>3. Control' BY <1>4, <1>5, <2>1 DEF StartBuilder, Control, Following
  <2> QED BY <1>4, <2>1, <2>2, <2>3
<1>6. CASE CheckFileSize
  <2>1. open /\ Current(files).rows # <<>> BY <1>6 DEF CheckFileSize, Control
  <2>2. files' = files \/ LastChange
    <3>1. files' = files \/ files' = CloseRootFile(WriteRunEndTime(files, timestamp))
      BY <1>6 DEF CheckFileSize
    <3> QED BY <1>3, <2>1, <3>1 DEF DataType
  <2>3. Len(Current(files).rows) # 0
    <3>1. Len(files) \in DOMAIN files /\ files[Len(files)] \in File
      BY <1>1, <1>2, <2>1, LastElement DEF Valid
    <3>2. Current(files).rows \in Seq(Event) BY <3>1 DEF Current, File
    <3> QED BY <2>1, <3>2, EmptySeq
  <2>4. DataType' BY <1>4, <1>6, <2>2 DEF CheckFileSize, DataType
  <2>5. bpc' = "reopen" => Current(files').saved # 0
    <3>1. bpc' = "reopen" => files' = CloseRootFile(WriteRunEndTime(files, timestamp))
      BY <1>6 DEF CheckFileSize
    <3>2. bpc' = "reopen" => Current(files').saved = Len(Current(files).rows)
      BY <1>3, <2>1, <3>1 DEF DataType
    <3> QED BY <2>3, <3>2
  <2>6. Control' BY <1>4, <1>6, <2>1, <2>2, <2>5 DEF CheckFileSize, Control, Following
  <2> QED BY <1>4, <2>2, <2>4, <2>6
<1>7. CASE EndBuilder
  <2>1. EndOfRun \in Int BY DEF EndOfRun, DataType
  <2>2. files' = files \/ LastChange BY <1>3, <1>7, <2>1 DEF EndBuilder
  <2>3. DataType' BY <1>4, <1>7, <2>1, <2>2 DEF EndBuilder, DataType
  <2>4. Control' BY <1>4, <1>7, <2>2 DEF EndBuilder, Control, Following
  <2> QED BY <1>4, <2>2, <2>3, <2>4
<1> QED BY <1>5, <1>6, <1>7

(***************************************************************************)
(* The events of all files, joined.                                        *)
(***************************************************************************)
\* The events of the files fs, file by file.
RowsOf(fs) == [k \in DOMAIN fs |-> fs[k].rows]

\* A new file adds its events at the end.
LEMMA JoinedAppend ==
  ASSUME NEW fs \in Seq(File), NEW g \in File
  PROVE /\ FlattenSeq(RowsOf(fs)) \in Seq(Event)
        /\ FlattenSeq(RowsOf(Append(fs, g))) = FlattenSeq(RowsOf(fs)) \o g.rows
<1> DEFINE n == Len(fs)
           gs == Append(fs, g)
           rs == RowsOf(fs)
           ss == Append(rs, g.rows)
<1>1. n \in Nat /\ DOMAIN fs = 1..n /\ \A k \in 1..n : fs[k] \in File OBVIOUS
<1>2. \A f \in File : f.rows \in Seq(Event) BY DEF File
<1>3. rs \in Seq(Seq(Event)) /\ Len(rs) = n /\ \A k \in 1..n : rs[k] = fs[k].rows
  <2>1. rs = [k \in 1..n |-> fs[k].rows] BY <1>1 DEF RowsOf
  <2>2. \A k \in 1..n : fs[k].rows \in Seq(Event) BY <1>1, <1>2
  <2> HIDE DEF rs
  <2> QED BY <1>1, <2>1, <2>2
<1>4. /\ gs \in Seq(File) /\ DOMAIN gs = 1..n + 1 /\ gs[n + 1] = g
      /\ \A k \in 1..n : gs[k] = fs[k]
  BY <1>1
<1>5. /\ ss \in Seq(Seq(Event)) /\ Len(ss) = n + 1 /\ ss[n + 1] = g.rows
      /\ \A k \in 1..n : ss[k] = rs[k]
  BY <1>2, <1>3, AppendProperties
<1> HIDE DEF gs, rs, ss
<1>6. RowsOf(gs) = ss
  <2>1. RowsOf(gs) = [k \in 1..n + 1 |-> gs[k].rows] BY <1>4 DEF RowsOf
  <2>2. \A k \in 1..n + 1 : gs[k].rows = ss[k]
    <3> HIDE DEF n
    <3>1. \A k \in 1..n + 1 : k = n + 1 \/ k \in 1..n BY <1>1
    <3> QED BY <1>3, <1>4, <1>5, <3>1
  <2>3. ss = [k \in 1..n + 1 |-> ss[k]] BY <1>1, <1>5
  <2> QED BY <2>1, <2>2, <2>3
<1>7. FlattenSeq(rs) \in Seq(Event) /\ FlattenSeq(ss) = FlattenSeq(rs) \o g.rows
  BY <1>2, <1>3, FlattenAppend DEF ss
<1> QED BY <1>6, <1>7 DEF gs, rs

\* The events of the last file end the joined events, whatever replaces it.
LEMMA JoinedLast ==
  ASSUME NEW fs \in Seq(File), fs # <<>>
  PROVE \E front \in Seq(Event) :
          /\ FlattenSeq(RowsOf(fs)) = front \o Current(fs).rows
          /\ \A g \in File : FlattenSeq(RowsOf(Update(fs, g))) = front \o g.rows
<1> DEFINE n == Len(fs)
           es == SubSeq(fs, 1, n - 1)
<1>1. n \in Nat \ {0} /\ DOMAIN fs = 1..n /\ fs[n] \in File /\ \A k \in 1..n : fs[k] \in File
  BY LastElement
<1>2. es \in Seq(File) /\ Len(es) = n - 1 /\ \A k \in 1..n - 1 : es[k] = fs[k]
  <2>1. \A k \in 1..n - 1 : fs[k] \in File BY <1>1
  <2> QED BY <1>1, <2>1, SubSeqProperties
<1> HIDE DEF es
<1>3. ASSUME NEW g \in File PROVE Update(fs, g) = Append(es, g)
  <2> DEFINE us == [fs EXCEPT ![n] = g]
             as == Append(es, g)
  <2>1. us \in Seq(File) /\ Len(us) = n /\ \A k \in 1..n : us[k] = IF k = n THEN g ELSE fs[k]
    BY <1>1, ExceptSeq
  <2>2. as \in Seq(File) /\ Len(as) = n /\ as[n] = g /\ \A k \in 1..n - 1 : as[k] = es[k]
    <3>1. /\ as \in Seq(File) /\ Len(as) = Len(es) + 1 /\ as[Len(es) + 1] = g
          /\ \A k \in 1..Len(es) : as[k] = es[k]
      BY <1>2, AppendProperties
    <3> HIDE DEF as, n
    <3>2. n - 1 + 1 = n BY <1>1
    <3> QED BY <1>2, <3>1, <3>2
  <2> HIDE DEF us, as
  <2>3. \A k \in 1..n : us[k] = as[k]
    <3> HIDE DEF n
    <3>1. \A k \in 1..n : k = n \/ k \in 1..n - 1 BY <1>1
    <3> QED BY <1>2, <2>1, <2>2, <3>1
  <2>4. us = as BY <2>1, <2>2, <2>3, SeqEqual
  <2> QED BY <2>4 DEF us, as, Update
<1>4. Update(fs, fs[n]) = fs
  <2>1. [fs EXCEPT ![n] = fs[n]] = fs BY <1>1
  <2> QED BY <2>1 DEF Update
<1>5. \A g \in File : /\ FlattenSeq(RowsOf(es)) \in Seq(Event)
                      /\ FlattenSeq(RowsOf(Update(fs, g))) = FlattenSeq(RowsOf(es)) \o g.rows
  BY <1>2, <1>3, JoinedAppend
<1> QED BY <1>1, <1>4, <1>5 DEF Current

(***************************************************************************)
(* What each step writes in the open file.                                 *)
(***************************************************************************)
\* The open file has the times, events and counts that are given; the other files
\* are as they were, and the events of all files end with those.
Becomes(st, en, rs, sv, n) ==
  LET g == Current(files') IN
  /\ g.start = st /\ g.end = en /\ g.rows = rs /\ g.saved = sv /\ g.runs = n
  /\ g.run = Current(files).run /\ g.idx = Current(files).idx
  /\ \A k \in DOMAIN files' : files'[k] = g \/ \E j \in DOMAIN files : files'[k] = files[j]
  /\ Full(files) => Full(files')
  /\ \E front \in Seq(Event) : /\ FlattenSeq(RowsOf(files)) = front \o Current(files).rows
                               /\ FlattenSeq(RowsOf(files')) = front \o rs

LEMMA ChangedFile ==
  ASSUME Valid(files), files # <<>>,
         NEW st \in Int, NEW en \in Int, NEW rs \in Seq(Event), NEW sv \in Nat, NEW n \in Int,
         sv <= Len(rs), Changed(st, en, rs, sv, n)
  PROVE Becomes(st, en, rs, sv, n)
<1> DEFINE g == Named(st, en, rs, sv, n)
           m == Len(files)
<1>1. files \in Seq(File) /\ m \in DOMAIN files /\ DOMAIN files = 1..m /\ files[m] \in File
  BY LastElement DEF Valid
<1>2. /\ g \in File /\ g.saved <= Len(g.rows)
      /\ g.run = Current(files).run /\ g.idx = Current(files).idx /\ g.run = files[m].run
      /\ g.start = st /\ g.end = en /\ g.rows = rs /\ g.saved = sv /\ g.runs = n
  BY <1>1 DEF Named, File, Current
<1> HIDE DEF g
<1>3. files' = Update(files, g) BY DEF Changed, g
<1>4. Current(files') = g BY <1>2, <1>3, UpdateLast
<1>5. DOMAIN files' = 1..m /\ \A k \in 1..m : files'[k] = IF k = m THEN g ELSE files[k]
  <2>1. files' = [files EXCEPT ![m] = g] BY <1>3 DEF Update
  <2> QED BY <1>1, <2>1
<1>6. Full(files) => Full(files') BY <1>1, <1>2, <1>5 DEF Full
<1>7. \E front \in Seq(Event) : /\ FlattenSeq(RowsOf(files)) = front \o Current(files).rows
                                /\ FlattenSeq(RowsOf(files')) = front \o rs
  BY <1>1, <1>2, <1>3, JoinedLast
<1> QED BY <1>1, <1>2, <1>4, <1>5, <1>6, <1>7 DEF Becomes

\* The open file f, and what the steps make of it.
LEMMA OpenFile ==
  ASSUME IInv, open, NEW f, f = Current(files)
  PROVE /\ files # <<>> /\ Valid(files)
        /\ f.rows \in Seq(Event) /\ Len(f.rows) \in Nat /\ f.saved \in Nat
        /\ f.saved <= Len(f.rows) /\ f.runs \in Int /\ f.start \in Int /\ f.end \in Int
        /\ \A i \in 1..Len(f.rows) : f.rows[i] \in Event /\ f.rows[i].time \in Int
        /\ StartBuilder => Changed(runStartTime, f.end, f.rows, f.saved, f.runs + 1)
        /\ CheckFileSize => \/ open' /\ files' = files
                            \/ /\ ~open'
                               /\ Changed(f.start, timestamp, f.rows, Len(f.rows), f.runs)
        /\ EndBuilder => Changed(f.start, EndOfRun, f.rows, f.saved, f.runs)
        /\ \A t \in 0..clock : FillTree(t) =>
             Changed(f.start, f.end, Append(f.rows, [id |-> Len(taken) + 1, time |-> t]),
                     IF SaveDue(t) THEN Len(f.rows) + 1 ELSE f.saved, f.runs)
        /\ OpenFiles \/ CloseFiles => Changed(f.start, f.end, f.rows, Len(f.rows), f.runs)
        /\ Quit => Changed(f.start, clock, f.rows, Len(f.rows), f.runs)
        /\ Kill => Changed(f.start, f.end, SubSeq(f.rows, 1, f.saved), f.saved, f.runs)
<1> USE DEF IInv
<1>1. Valid(files) /\ files # <<>> /\ clock \in Int /\ timestamp \in Int /\ EndOfRun \in Int
      /\ runStartTime \in Int
  BY DEF DataType, Control, Following, EndOfRun
<1>2. f \in File /\ f.saved <= Len(f.rows) BY <1>1, Written
<1>3. f.rows \in Seq(Event) /\ f.saved \in Nat /\ f.runs \in Int
      /\ f.run \in Int /\ f.idx \in Int /\ f.start \in Int /\ f.end \in Int
      /\ f = [run |-> f.run, idx |-> f.idx, start |-> f.start, end |-> f.end,
              rows |-> f.rows, saved |-> f.saved, runs |-> f.runs]
  BY <1>2 DEF File
<1>4. \A i \in 1..Len(f.rows) : f.rows[i] \in Event /\ f.rows[i].time \in Int
  <2>1. \A i \in 1..Len(f.rows) : f.rows[i] \in Event
    <3>1. f.rows \in Seq(Event) BY <1>3
    <3> QED BY <3>1, ElementOfSeq
  <2>2. \A e \in Event : e.time \in Int BY DEF Event
  <2> QED BY <2>1, <2>2
<1>5. StartBuilder => Changed(runStartTime, f.end, f.rows, f.saved, f.runs + 1)
  <2>1. StartBuilder =>
          files' = Update(WriteRunStartTime(files, runStartTime),
                          [Current(WriteRunStartTime(files, runStartTime)) EXCEPT !.runs = @ + 1])
    BY DEF StartBuilder
  <2> QED BY <1>1, <2>1, Written
<1>6. CheckFileSize => \/ open' /\ files' = files
                       \/ ~open' /\ Changed(f.start, timestamp, f.rows, Len(f.rows), f.runs)
  <2>1. CheckFileSize => \/ open' /\ files' = files
                         \/ ~open' /\ files' = CloseRootFile(WriteRunEndTime(files, timestamp))
    BY DEF CheckFileSize
  <2> QED BY <1>1, <2>1, Written
<1>7. EndBuilder => Changed(f.start, EndOfRun, f.rows, f.saved, f.runs)
  <2>1. EndBuilder => files' = WriteRunEndTime(files, EndOfRun) BY DEF EndBuilder
  <2> QED BY <1>1, <2>1, Written
<1>8. ASSUME NEW t \in 0..clock, FillTree(t)
      PROVE Changed(f.start, f.end, Append(f.rows, [id |-> Len(taken) + 1, time |-> t]),
                    IF SaveDue(t) THEN Len(f.rows) + 1 ELSE f.saved, f.runs)
  <2> DEFINE row == [id |-> Len(taken) + 1, time |-> t]
             rows == Append(f.rows, row)
             saved == IF SaveDue(t) THEN Len(rows) ELSE f.saved
             e == [f EXCEPT !.rows = rows]
  <2>1. files' = Update(files, [f EXCEPT !.rows = rows, !.saved = saved])
    BY <1>8 DEF FillTree
  <2>2. row \in Event BY <1>1, <1>8 DEF Event, DataType
  <2> HIDE DEF row
  <2>3. Len(rows) = Len(f.rows) + 1 BY <1>3, <2>2, AppendProperties
  <2> HIDE DEF rows, saved
  <2>4. e = [run |-> f.run, idx |-> f.idx, start |-> f.start, end |-> f.end,
             rows |-> rows, saved |-> f.saved, runs |-> f.runs]
    BY <1>3
  <2>5. [f EXCEPT !.rows = rows, !.saved = saved] = [e EXCEPT !.saved = saved] OBVIOUS
  <2> HIDE DEF e
  <2>6. [e EXCEPT !.saved = saved] = Named(f.start, f.end, rows, saved, f.runs)
    BY <2>4 DEF Named
  <2>7. Changed(f.start, f.end, rows, saved, f.runs) BY <2>1, <2>5, <2>6 DEF Changed
  <2>8. saved = IF SaveDue(t) THEN Len(f.rows) + 1 ELSE f.saved BY <2>3 DEF saved
  <2> QED BY <2>7, <2>8 DEF rows, row
<1>9. OpenFiles \/ CloseFiles => Changed(f.start, f.end, f.rows, Len(f.rows), f.runs)
  <2>1. OpenFiles \/ CloseFiles => files' = CloseRootFile(files)
    BY DEF OpenFiles, CloseFiles, Closed
  <2> QED BY <1>1, <2>1, Written
<1>10. Quit => Changed(f.start, clock, f.rows, Len(f.rows), f.runs)
  <2>1. Quit => files' = CloseRootFile(WriteRunEndTime(files, clock)) BY DEF Quit
  <2> QED BY <1>1, <2>1, Written
<1>11. Kill => Changed(f.start, f.end, SubSeq(f.rows, 1, f.saved), f.saved, f.runs)
  <2>1. Kill => files' = LeaveRootFile(files) BY DEF Kill
  <2> QED BY <1>1, <2>1, Written
<1>12. /\ f.rows \in Seq(Event) /\ Len(f.rows) \in Nat /\ f.saved \in Nat
       /\ f.runs \in Int /\ f.start \in Int /\ f.end \in Int
  BY <1>3
<1>13. \A t \in 0..clock : FillTree(t) =>
         Changed(f.start, f.end, Append(f.rows, [id |-> Len(taken) + 1, time |-> t]),
                 IF SaveDue(t) THEN Len(f.rows) + 1 ELSE f.saved, f.runs)
  BY <1>8
<1> QED BY <1>1, <1>2, <1>4, <1>5, <1>6, <1>7, <1>9, <1>10, <1>11, <1>12, <1>13, Zenon


\* The same, as what the open file becomes.
LEMMA OpenFileBecomes ==
  ASSUME IInv, open, NEW f, f = Current(files)
  PROVE /\ StartBuilder => Becomes(runStartTime, f.end, f.rows, f.saved, f.runs + 1)
        /\ CheckFileSize => \/ open' /\ files' = files
                            \/ /\ ~open'
                               /\ Becomes(f.start, timestamp, f.rows, Len(f.rows), f.runs)
        /\ EndBuilder => Becomes(f.start, EndOfRun, f.rows, f.saved, f.runs)
        /\ OpenFiles \/ CloseFiles => Becomes(f.start, f.end, f.rows, Len(f.rows), f.runs)
        /\ Quit => Becomes(f.start, clock, f.rows, Len(f.rows), f.runs)
        /\ Kill => Becomes(f.start, f.end, SubSeq(f.rows, 1, f.saved), f.saved, f.runs)
<1>1. /\ files # <<>> /\ Valid(files) /\ f.rows \in Seq(Event) /\ Len(f.rows) \in Nat
      /\ f.saved \in Nat /\ f.saved <= Len(f.rows) /\ f.runs \in Int /\ f.runs + 1 \in Int
      /\ f.start \in Int /\ f.end \in Int
      /\ \A i \in 1..Len(f.rows) : f.rows[i] \in Event
  BY OpenFile
<1>2. runStartTime \in Int /\ timestamp \in Int /\ clock \in Int /\ EndOfRun \in Int
  BY DEF IInv, DataType, EndOfRun
<1> DEFINE left == SubSeq(f.rows, 1, f.saved)
<1>3. left \in Seq(Event) /\ f.saved <= Len(left)
  <2>1. \A i \in 1..f.saved : f.rows[i] \in Event BY <1>1
  <2> QED BY <1>1, <2>1, SubSeqProperties
<1> HIDE DEF left
<1>4. \A st \in Int, en \in Int, n \in Int :
        /\ Changed(st, en, f.rows, Len(f.rows), n) => Becomes(st, en, f.rows, Len(f.rows), n)
        /\ Changed(st, en, f.rows, f.saved, n) => Becomes(st, en, f.rows, f.saved, n)
        /\ Changed(st, en, left, f.saved, n) => Becomes(st, en, left, f.saved, n)
  <2>1. Len(f.rows) <= Len(f.rows) BY <1>1
  <2> SUFFICES ASSUME NEW st \in Int, NEW en \in Int, NEW n \in Int
               PROVE /\ Changed(st, en, f.rows, Len(f.rows), n) =>
                          Becomes(st, en, f.rows, Len(f.rows), n)
                     /\ Changed(st, en, f.rows, f.saved, n) =>
                          Becomes(st, en, f.rows, f.saved, n)
                     /\ Changed(st, en, left, f.saved, n) => Becomes(st, en, left, f.saved, n)
    OBVIOUS
  <2>2. Changed(st, en, f.rows, Len(f.rows), n) => Becomes(st, en, f.rows, Len(f.rows), n)
    BY <1>1, <2>1, ChangedFile
  <2>3. Changed(st, en, f.rows, f.saved, n) => Becomes(st, en, f.rows, f.saved, n)
    BY <1>1, ChangedFile
  <2>4. Changed(st, en, left, f.saved, n) => Becomes(st, en, left, f.saved, n)
    BY <1>1, <1>3, ChangedFile
  <2> QED BY <2>2, <2>3, <2>4
<1>5. /\ StartBuilder => Changed(runStartTime, f.end, f.rows, f.saved, f.runs + 1)
      /\ CheckFileSize => \/ open' /\ files' = files
                          \/ /\ ~open'
                             /\ Changed(f.start, timestamp, f.rows, Len(f.rows), f.runs)
      /\ EndBuilder => Changed(f.start, EndOfRun, f.rows, f.saved, f.runs)
  BY OpenFile
<1>6. /\ OpenFiles \/ CloseFiles => Changed(f.start, f.end, f.rows, Len(f.rows), f.runs)
      /\ Quit => Changed(f.start, clock, f.rows, Len(f.rows), f.runs)
      /\ Kill => Changed(f.start, f.end, left, f.saved, f.runs)
  BY OpenFile DEF left
<1> QED BY <1>1, <1>2, <1>4, <1>5, <1>6 DEF left

\* An event at t makes the open file longer, and saves all or nothing of it.
LEMMA FillBecomes ==
  ASSUME IInv, NEW t \in 0..clock, FillTree(t), NEW f, f = Current(files),
         NEW row, row = [id |-> Len(taken) + 1, time |-> t]
  PROVE /\ open /\ row \in Event
        /\ Becomes(f.start, f.end, Append(f.rows, row),
                   IF SaveDue(t) THEN Len(f.rows) + 1 ELSE f.saved, f.runs)
        /\ Append(f.rows, row) \in Seq(Event) /\ Len(Append(f.rows, row)) = Len(f.rows) + 1
        /\ Append(f.rows, row)[Len(f.rows) + 1] = row
        /\ \A i \in 1..Len(f.rows) : Append(f.rows, row)[i] = f.rows[i]
<1>1. open /\ row \in Event BY DEF FillTree, IInv, DataType, Event
<1>2. /\ files # <<>> /\ Valid(files) /\ f.rows \in Seq(Event) /\ Len(f.rows) \in Nat
      /\ f.saved \in Nat /\ f.saved <= Len(f.rows) /\ f.runs \in Int
      /\ f.start \in Int /\ f.end \in Int
  BY <1>1, OpenFile
<1> DEFINE rows == Append(f.rows, row)
           saved == IF SaveDue(t) THEN Len(f.rows) + 1 ELSE f.saved
<1>3. /\ rows \in Seq(Event) /\ Len(rows) = Len(f.rows) + 1 /\ rows[Len(f.rows) + 1] = row
      /\ \A i \in 1..Len(f.rows) : rows[i] = f.rows[i]
  BY <1>1, <1>2, AppendProperties
<1>4. Changed(f.start, f.end, rows, saved, f.runs) BY <1>1, OpenFile
<1> HIDE DEF rows
<1>5. saved \in Nat /\ saved <= Len(rows) BY <1>2, <1>3
<1> HIDE DEF saved
<1>6. Becomes(f.start, f.end, rows, saved, f.runs)
  BY <1>2, <1>3, <1>4, <1>5, ChangedFile
<1> QED BY <1>1, <1>3, <1>6 DEF rows, saved

(***************************************************************************)
(* How many events are not saved.                                          *)
(***************************************************************************)
\* A quotient and a remainder are those of %.
LEMMA ModIs ==
  ASSUME NEW n \in Nat \ {0}, NEW q \in Int, NEW r \in 0..n - 1, NEW s \in Int, s = n * q + r
  PROVE s % n = r
<1>1. PICK p, m : p = s \div n /\ m = s % n OBVIOUS
<1>2. p \in Int /\ m \in 0..n - 1 /\ s = n * p + m BY <1>1
<1>3. n * p + m = n * q + r BY <1>2
<1>4. n * (p - q) = r - m
  <2>1. n * (p - q) = n * p - n * q BY <1>2
  <2>2. \A a, b \in Int : a + m = b + r => a - b = r - m BY <1>2
  <2>3. n * p \in Int /\ n * q \in Int BY <1>2
  <2> QED BY <1>3, <2>1, <2>2, <2>3
<1>5. p - q >= 1 => n * (p - q) >= n BY <1>2
<1>6. p - q <= -1 => n * (p - q) <= -n BY <1>2
<1>7. p - q = 0
  <2>1. r - m < n /\ r - m > -n BY <1>2
  <2>2. p - q \in Int BY <1>2
  <2> QED BY <1>4, <1>5, <1>6, <2>1, <2>2
<1>8. n * (p - q) = 0 BY <1>7
<1>9. r = m BY <1>2, <1>4, <1>8
<1> QED BY <1>1, <1>9
\* The place of the next event between two saves of n events.
LEMMA NextPlace ==
  ASSUME NEW s \in Nat, NEW n \in Nat \ {0}
  PROVE /\ s % n \in 0..n - 1 /\ 0 % n = 0
        /\ (s + 1) % n = IF s % n = n - 1 THEN 0 ELSE (s % n) + 1
<1>1. s % n \in 0..n - 1 OBVIOUS
<1>2. 0 % n = 0 OBVIOUS
<1>3. PICK q, r : q = s \div n /\ r = s % n OBVIOUS
<1>4. q \in Int /\ r \in 0..n - 1 /\ s = n * q + r BY <1>3
<1>5. CASE r = n - 1
  <2>1. n * (q + 1) = n * q + n BY <1>4
  <2>4. n * q \in Int BY <1>4
  <2>2. s + 1 = n * (q + 1) + 0 BY <1>4, <1>5, <2>1, <2>4
  <2>3. (s + 1) % n = 0
    <3>1. q + 1 \in Int /\ 0 \in 0..n - 1 /\ s + 1 \in Int BY <1>4
    <3> QED BY <2>2, <3>1, ModIs
  <2> QED BY <1>3, <1>5, <2>3
<1>6. CASE r # n - 1
  <2>4. n * q \in Int BY <1>4
  <2>1. s + 1 = n * q + (r + 1) BY <1>4, <2>4
  <2>2. (s + 1) % n = r + 1
    <3>1. r + 1 \in 0..n - 1 /\ s + 1 \in Int BY <1>4, <1>6
    <3> QED BY <1>4, <2>1, <3>1, ModIs
  <2> QED BY <1>3, <1>6, <2>2
<1> QED BY <1>1, <1>2, <1>5, <1>6

Unsaved(f) == Len(f.rows) - f.saved
Place == storedEvents % SaveEvery

\* The events that are not saved are fewer than the place of the next event, from
\* the first event of the run on; the ones that another run left are saved with it.
Counting == /\ storedEvents \in Nat
            /\ bpc = "start" => storedEvents = 0
            /\ open => LET u == Unsaved(Current(files)) IN
                 /\ u < SaveEvery
                 /\ bpc = "check" => u <= Place
                 /\ (bpc = "loop" /\ Place # 0) => u < Place

LEMMA CountingStep == ASSUME IInv, Counting, [Next]_vars PROVE Counting'
<1> USE DEF nameVars, timeVars, loopVars, countVars
<1>1. PICK f, g : f = Current(files) /\ g = Current(files') OBVIOUS
<1>2. SaveEvery \in Nat \ {0} /\ storedEvents \in Nat BY SizeAssumption DEF Counting
<1>3. /\ Place \in 0..SaveEvery - 1 /\ 0 % SaveEvery = 0
      /\ (storedEvents + 1) % SaveEvery = IF Place = SaveEvery - 1 THEN 0 ELSE Place + 1
  BY <1>2, NextPlace DEF Place
<1>4. open => f.saved \in Nat /\ Len(f.rows) \in Nat /\ f.saved <= Len(f.rows)
  BY <1>1, OpenFile
<1>5. CASE UNCHANGED <<files, open, bpc, storedEvents>>
  BY <1>5 DEF Counting, Place, Current, Unsaved
<1>6. CASE \/ UNCHANGED vars \/ ReturnDAQ \/ Misuse \/ StopDAQ \/ TellBuilder \/ JoinBuilder
           \/ Tick
  BY <1>5, <1>6 DEF vars, ReturnDAQ, Misuse, StopDAQ, TellBuilder, JoinBuilder, Tick
<1>7. CASE OpenFiles \/ CloseFiles \/ Quit \/ Kill
  <2>1. ~open' /\ UNCHANGED storedEvents /\ (bpc' = bpc \/ bpc' = "done")
    BY <1>7 DEF OpenFiles, CloseFiles, Quit, Kill
  <2> QED BY <2>1 DEF Counting
<1>8. CASE Restart
  <2>1. ~open' /\ storedEvents' = 0 BY <1>8 DEF Restart, IInv, Control
  <2> QED BY <2>1 DEF Counting
<1>9. CASE StartDAQ
  <2>1. UNCHANGED <<files, open>> /\ storedEvents' = 0 /\ bpc' = "start" BY <1>9 DEF StartDAQ
  <2> QED BY <2>1 DEF Counting, Current, Unsaved
<1>10. CASE OpenRun
  <2>1. g = NewFile(NextRun, 1) BY <1>1, <1>10, OpenRunStep DEF NewLast
  <2>2. bpc' = "done" /\ UNCHANGED storedEvents BY <1>10 DEF OpenRun, IInv, Control
  <2>3. Unsaved(g) = 0 BY <2>1, EmptySeq DEF NewFile, Unsaved
  <2> QED BY <1>1, <1>2, <2>2, <2>3 DEF Counting, Unsaved
<1>11. CASE StartBuilder
  <2>1. UNCHANGED <<open, storedEvents>> /\ bpc' = "loop" /\ storedEvents = 0
    BY <1>11 DEF StartBuilder, Counting
  <2>2. Place' = 0 BY <1>3, <2>1 DEF Place
  <2>3. open => Becomes(runStartTime, f.end, f.rows, f.saved, f.runs + 1)
    BY <1>1, <1>11, OpenFileBecomes
  <2>4. open => Unsaved(g) = Unsaved(f) BY <1>1, <2>3 DEF Becomes, Unsaved
  <2> QED BY <1>1, <1>2, <2>1, <2>2, <2>4 DEF Counting, Unsaved
<1>12. CASE CheckFileSize
  <2>1. open /\ bpc = "check" BY <1>12 DEF CheckFileSize, IInv, Control
  <2>2. CASE UNCHANGED files /\ bpc' = "loop" /\ storedEvents' = storedEvents + 1
    <3>1. Place' = IF Place = SaveEvery - 1 THEN 0 ELSE Place + 1 BY <1>3, <2>2 DEF Place
    <3>2. g = f BY <1>1, <2>2 DEF Current
    <3>3. Unsaved(f) <= Place /\ Unsaved(f) < SaveEvery BY <1>1, <2>1 DEF Counting
    <3>4. Unsaved(f) \in Int BY <1>4, <2>1 DEF Unsaved
    <3>5. Unsaved(g) < SaveEvery /\ (Place' # 0 => Unsaved(g) < Place')
      BY <1>2, <1>3, <3>1, <3>2, <3>3, <3>4
    <3> QED BY <1>1, <1>2, <2>2, <3>5 DEF Counting, Unsaved
  <2>3. CASE ~open' /\ bpc' = "reopen" /\ UNCHANGED storedEvents BY <2>3 DEF Counting
  <2> QED BY <1>12, <2>1, <2>2, <2>3 DEF CheckFileSize
<1>13. CASE OpenNext
  <2>1. g.rows = <<>> /\ g.saved = 0 BY <1>1, <1>13, OpenNextStep DEF NewLast
  <2>2. bpc' = "loop" /\ storedEvents' = storedEvents + 1 BY <1>13 DEF OpenNext
  <2>3. Unsaved(g) = 0 BY <2>1, EmptySeq DEF Unsaved
  <2>4. Place' # 0 => 0 < Place' BY <1>2, <1>3, <2>2 DEF Place
  <2> QED BY <1>1, <1>2, <2>2, <2>3, <2>4 DEF Counting, Unsaved
<1>14. CASE EndBuilder
  <2>1. UNCHANGED <<open, storedEvents>> /\ bpc' = "done" BY <1>14 DEF EndBuilder
  <2>2. open => Becomes(f.start, EndOfRun, f.rows, f.saved, f.runs)
    BY <1>1, <1>14, OpenFileBecomes
  <2>3. open => Unsaved(g) = Unsaved(f) BY <1>1, <2>2 DEF Becomes, Unsaved
  <2> QED BY <1>1, <2>1, <2>3 DEF Counting, Unsaved
<1>15. ASSUME NEW t \in 0..clock, FillTree(t) PROVE Counting'
  <2>1. PICK row : row = [id |-> Len(taken) + 1, time |-> t] OBVIOUS
  <2>2. /\ open /\ Len(Append(f.rows, row)) = Len(f.rows) + 1
        /\ Becomes(f.start, f.end, Append(f.rows, row),
                   IF SaveDue(t) THEN Len(f.rows) + 1 ELSE f.saved, f.runs)
    BY <1>1, <1>15, <2>1, FillBecomes
  <2>3. Unsaved(g) = IF SaveDue(t) THEN 0 ELSE Unsaved(f) + 1
    <3>1. Len(g.rows) = Len(f.rows) + 1
          /\ g.saved = IF SaveDue(t) THEN Len(f.rows) + 1 ELSE f.saved
      BY <1>1, <2>2 DEF Becomes
    <3> QED BY <1>4, <2>2, <3>1 DEF Unsaved
  <2>4. Place = 0 => SaveDue(t) BY DEF Place, SaveDue
  <2>5. bpc = "loop" /\ open' BY <1>15 DEF FillTree
  <2>6. /\ Unsaved(f) < SaveEvery /\ (Place # 0 => Unsaved(f) < Place)
        /\ Unsaved(f) \in Int
    BY <1>1, <1>4, <2>2, <2>5 DEF Counting, Unsaved
  <2>7. Unsaved(g) <= Place /\ Unsaved(g) < SaveEvery BY <1>2, <1>3, <2>3, <2>4, <2>6
  <2>8. CASE bpc' = "check" /\ UNCHANGED storedEvents
    <3>1. Place' = Place BY <2>8 DEF Place
    <3> QED BY <1>1, <1>2, <2>7, <2>8, <3>1 DEF Counting, Unsaved
  <2>9. CASE bpc' = "loop" /\ storedEvents' = storedEvents + 1
    <3>1. Place' = IF Place = SaveEvery - 1 THEN 0 ELSE Place + 1 BY <1>3, <2>9 DEF Place
    <3>2. Unsaved(g) \in Int BY <2>3, <2>6
    <3>3. Place' # 0 => Unsaved(g) < Place' BY <1>2, <1>3, <2>7, <3>1, <3>2
    <3> QED BY <1>1, <1>2, <2>7, <2>9, <3>3 DEF Counting, Unsaved
  <2> QED BY <1>15, <2>8, <2>9 DEF FillTree
<1> QED BY <1>6, <1>7, <1>8, <1>9, <1>10, <1>11, <1>12, <1>13, <1>14, <1>15 DEF Next

(***************************************************************************)
(* How long the events that are not saved take.                            *)
(***************************************************************************)
\* The loop has seen an event, so that lastTimeSaved is of this run.
Begun == bpc = "check" \/ (bpc = "loop" /\ storedEvents # 0)

Late(f) == f.saved + 1..Len(f.rows)
Near(f) == \A i, j \in Late(f) : f.rows[j].time - f.rows[i].time <= SaveAfter
Within(f, a, b) == \A i \in Late(f) : a <= f.rows[i].time /\ f.rows[i].time <= b

\* The events that are not saved came within SaveAfter seconds, the ones of this run
\* after the last save.
Spanning == /\ lastTimeSaved \in Int
            /\ Begun \/ bpc = "reopen" => lastTimeSaved <= timestamp
            /\ open => LET f == Current(files) IN
                 Near(f) /\ (Begun => Within(f, lastTimeSaved, lastTimeSaved + SaveAfter))

LEMMA SpanningStep == ASSUME IInv, Counting, Spanning, [Next]_vars PROVE Spanning'
<1> USE DEF nameVars, timeVars, loopVars, countVars
<1>1. PICK f, g : f = Current(files) /\ g = Current(files') OBVIOUS
<1>2. /\ SaveAfter \in Nat /\ storedEvents \in Nat /\ lastTimeSaved \in Int
      /\ timestamp \in Int /\ runStartTime \in Int
  BY SizeAssumption DEF Counting, Spanning, IInv, DataType
<1>3. open => /\ f.saved \in Nat /\ Len(f.rows) \in Nat /\ f.saved <= Len(f.rows)
              /\ \A i \in 1..Len(f.rows) : f.rows[i].time \in Int
  BY <1>1, OpenFile
<1>4. ASSUME NEW h, Late(h) = {} PROVE Near(h) /\ \A a, b : Within(h, a, b)
  BY <1>4 DEF Near, Within
<1>5. ASSUME NEW h, h.rows = f.rows, h.saved = f.saved
      PROVE (Near(f) => Near(h)) /\ \A a, b : Within(f, a, b) => Within(h, a, b)
  BY <1>5 DEF Near, Within, Late
<1>6. CASE \/ UNCHANGED vars \/ ReturnDAQ \/ Misuse \/ StopDAQ \/ TellBuilder \/ JoinBuilder
           \/ Tick
  <2>1. UNCHANGED <<files, open, bpc, storedEvents, lastTimeSaved, timestamp>>
    BY <1>6 DEF vars, ReturnDAQ, Misuse, StopDAQ, TellBuilder, JoinBuilder, Tick
  <2> QED BY <2>1 DEF Spanning, Begun, Current
<1>7. CASE OpenFiles \/ CloseFiles \/ Quit \/ Kill
  <2>1. ~open' /\ UNCHANGED <<storedEvents, lastTimeSaved, timestamp>>
        /\ (bpc' = bpc \/ bpc' = "done")
    BY <1>7 DEF OpenFiles, CloseFiles, Quit, Kill
  <2> QED BY <2>1 DEF Spanning, Begun
<1>8. CASE Restart
  <2>1. ~open' /\ bpc' = "done" /\ lastTimeSaved' = 0 BY <1>8 DEF Restart, IInv, Control
  <2> QED BY <2>1 DEF Spanning, Begun
<1>9. CASE StartDAQ
  <2>1. UNCHANGED <<files, open, lastTimeSaved>> /\ bpc' = "start" BY <1>9 DEF StartDAQ
  <2> QED BY <2>1 DEF Spanning, Begun, Current
<1>10. CASE OpenRun
  <2>1. g = NewFile(NextRun, 1) BY <1>1, <1>10, OpenRunStep DEF NewLast
  <2>2. bpc' = "done" /\ UNCHANGED lastTimeSaved BY <1>10 DEF OpenRun, IInv, Control
  <2>3. Late(g) = {} BY <2>1, EmptySeq DEF NewFile, Late
  <2> QED BY <1>1, <1>4, <2>2, <2>3 DEF Spanning, Begun
<1>11. CASE StartBuilder
  <2>1. /\ UNCHANGED <<open, storedEvents>> /\ bpc' = "loop" /\ storedEvents = 0
        /\ lastTimeSaved' = runStartTime
    BY <1>11 DEF StartBuilder, Counting
  <2>2. open => Becomes(runStartTime, f.end, f.rows, f.saved, f.runs + 1)
    BY <1>1, <1>11, OpenFileBecomes
  <2>3. open => Near(g) BY <1>1, <1>5, <2>2 DEF Becomes, Spanning
  <2> QED BY <1>1, <1>2, <2>1, <2>3 DEF Spanning, Begun
<1>12. CASE CheckFileSize
  <2>1. open /\ bpc = "check" BY <1>12 DEF CheckFileSize, IInv, Control
  <2>2. UNCHANGED <<lastTimeSaved, timestamp>> BY <1>12 DEF CheckFileSize
  <2>3. CASE UNCHANGED files /\ bpc' = "loop" BY <2>1, <2>2, <2>3 DEF Spanning, Begun, Current
  <2>4. CASE ~open' /\ bpc' = "reopen" BY <2>1, <2>2, <2>4 DEF Spanning, Begun
  <2> QED BY <1>12, <2>3, <2>4 DEF CheckFileSize
<1>13. CASE OpenNext
  <2>1. g.rows = <<>> /\ g.saved = 0 BY <1>1, <1>13, OpenNextStep DEF NewLast
  <2>2. Late(g) = {} BY <2>1, EmptySeq DEF Late
  <2>3. bpc = "reopen" /\ bpc' = "loop" /\ UNCHANGED <<lastTimeSaved, timestamp>>
    BY <1>13 DEF OpenNext
  <2> QED BY <1>1, <1>4, <2>2, <2>3 DEF Spanning, Begun
<1>14. CASE EndBuilder
  <2>1. UNCHANGED <<open, lastTimeSaved>> /\ bpc' = "done" BY <1>14 DEF EndBuilder
  <2>2. open => Becomes(f.start, EndOfRun, f.rows, f.saved, f.runs)
    BY <1>1, <1>14, OpenFileBecomes
  <2>3. open => Near(g) BY <1>1, <1>5, <2>2 DEF Becomes, Spanning
  <2> QED BY <1>1, <2>1, <2>3 DEF Spanning, Begun
<1>15. ASSUME NEW t \in 0..clock, FillTree(t) PROVE Spanning'
  <2>1. PICK row : row = [id |-> Len(taken) + 1, time |-> t] OBVIOUS
  <2>2. /\ open /\ Len(Append(f.rows, row)) = Len(f.rows) + 1
        /\ Append(f.rows, row)[Len(f.rows) + 1] = row
        /\ \A i \in 1..Len(f.rows) : Append(f.rows, row)[i] = f.rows[i]
        /\ Becomes(f.start, f.end, Append(f.rows, row),
                   IF SaveDue(t) THEN Len(f.rows) + 1 ELSE f.saved, f.runs)
    BY <1>1, <1>15, <2>1, FillBecomes
  <2>3. /\ bpc = "loop" /\ open' /\ timestamp <= t /\ timestamp' = t /\ t \in Int
        /\ lastTimeSaved' = IF SaveDue(t) THEN t ELSE lastTimeSaved
    BY <1>15 DEF FillTree, IInv, DataType
  <2>4. /\ Len(g.rows) = Len(f.rows) + 1 /\ g.rows[Len(f.rows) + 1].time = t
        /\ \A i \in 1..Len(f.rows) : g.rows[i] = f.rows[i]
        /\ g.saved = IF SaveDue(t) THEN Len(f.rows) + 1 ELSE f.saved
    BY <1>1, <2>1, <2>2 DEF Becomes
  <2>5. CASE SaveDue(t)
    <3>1. Late(g) = {} BY <1>3, <2>2, <2>4, <2>5 DEF Late
    <3>2. lastTimeSaved' = t BY <2>3, <2>5
    <3> QED BY <1>1, <1>4, <2>3, <3>1, <3>2 DEF Spanning
  <2>6. CASE ~SaveDue(t)
    <3>1. storedEvents # 0
      <4>1. 0 % SaveEvery = 0 BY SizeAssumption, NextPlace
      <4> QED BY <2>6, <4>1 DEF SaveDue
    <3>2. Begun BY <2>3, <3>1 DEF Begun
    <3>3. Within(f, lastTimeSaved, lastTimeSaved + SaveAfter) /\ lastTimeSaved <= timestamp
      BY <1>1, <2>2, <3>2 DEF Spanning
    <3>4. t - lastTimeSaved <= SaveAfter BY <1>2, <2>3, <2>6 DEF SaveDue
    <3>5. ASSUME NEW i \in Late(g)
          PROVE /\ g.rows[i].time \in Int /\ lastTimeSaved <= g.rows[i].time
                /\ g.rows[i].time <= lastTimeSaved + SaveAfter
      <4>1. CASE i \in Late(f)
        <5>1. i \in 1..Len(f.rows) BY <1>3, <2>2, <4>1 DEF Late
        <5> QED BY <1>3, <2>2, <2>4, <3>3, <4>1, <5>1 DEF Within
      <4>2. CASE i = Len(f.rows) + 1 BY <1>2, <2>3, <2>4, <3>3, <3>4, <4>2
      <4>3. i \in f.saved + 1..Len(f.rows) + 1 BY <2>4, <2>6, <3>5 DEF Late
      <4> QED BY <1>3, <2>2, <4>1, <4>2, <4>3 DEF Late
    <3>6. Near(g)
      <4>1. \A a, b \in Int : /\ lastTimeSaved <= a /\ a <= lastTimeSaved + SaveAfter
                              /\ lastTimeSaved <= b /\ b <= lastTimeSaved + SaveAfter
                              => b - a <= SaveAfter
        BY <1>2
      <4> QED BY <3>5, <4>1 DEF Near
    <3>7. Within(g, lastTimeSaved, lastTimeSaved + SaveAfter) BY <3>5 DEF Within
    <3>8. UNCHANGED lastTimeSaved /\ lastTimeSaved <= t BY <1>2, <2>3, <2>6, <3>3
    <3> QED BY <1>1, <1>2, <2>3, <3>6, <3>7, <3>8 DEF Spanning
  <2> QED BY <2>5, <2>6
<1> QED BY <1>6, <1>7, <1>8, <1>9, <1>10, <1>11, <1>12, <1>13, <1>14, <1>15 DEF Next

\* A kill loses less than SaveEvery events, which span at most SaveAfter seconds.
LEMMA LittleIsLost == IInv /\ Counting /\ Spanning => KillLosesLittle
<1> SUFFICES ASSUME IInv, Counting, Spanning, open, NEW f, f = Current(files)
             PROVE /\ Len(f.rows) - f.saved < SaveEvery
                   /\ \A i \in f.saved + 1..Len(f.rows) :
                        f.rows[Len(f.rows)].time - f.rows[i].time <= SaveAfter
  BY DEF KillLosesLittle
<1>1. Len(f.rows) - f.saved < SaveEvery BY DEF Counting, Unsaved
<1>2. f.saved \in Nat /\ Len(f.rows) \in Nat BY OpenFile
<1>3. Near(f) BY DEF Spanning
<1>4. \A i \in f.saved + 1..Len(f.rows) : Len(f.rows) \in f.saved + 1..Len(f.rows) BY <1>2
<1> QED BY <1>1, <1>3, <1>4 DEF Near, Late

(***************************************************************************)
(* When the events of a file came.                                         *)
(***************************************************************************)
Before(f, t) == \A i \in DOMAIN f.rows : f.rows[i].time <= t
After(f, t) == \A i \in DOMAIN f.rows : t <= f.rows[i].time

\* The times that are kept with the file enclose its events.
Bracketed(f) == (f.runs = 1 /\ f.end # None) => \A i \in DOMAIN f.rows :
                                                  f.rows[i].time \in f.start..f.end

\* The times of the open file f, whose end is written when its run is over.
OpenTimes(f) ==
  /\ f.runs \in Nat
  /\ Before(f, timestamp)
  /\ f.runs = 0 => f.rows = <<>> /\ f.end = None
  /\ f.runs = 1 => After(f, f.start)
  /\ bpc \in {"loop", "check"} =>
       /\ f.runs # 0
       /\ f.runs = 1 => f.end = None /\ (f.start <= runStartTime \/ f.start <= timestamp)

\* The times of all files, and the clock.
Timing == /\ clock \in Nat /\ timestamp \in Int /\ timestamp <= clock
          /\ runStartTime \in Int /\ runStartTime <= clock
          /\ \A k \in DOMAIN files : Bracketed(files[k])
          /\ open => OpenTimes(Current(files))

\* Only the last file has to be looked at.
LEMMA BracketLast ==
  ASSUME Timing, NEW g, Bracketed(g),
         \A k \in DOMAIN files' : files'[k] = g \/ \E j \in DOMAIN files : files'[k] = files[j]
  PROVE \A k \in DOMAIN files' : Bracketed(files'[k])
BY DEF Timing

\* Files without events.
LEMMA EmptyTimes ==
  ASSUME NEW g, g.rows = <<>>
  PROVE Bracketed(g) /\ \A t : Before(g, t) /\ After(g, t)
<1>1. DOMAIN g.rows = {} BY EmptySeq
<1> QED BY <1>1 DEF Bracketed, Before, After

LEMMA TimingStep == ASSUME IInv, Timing, [Next]_vars PROVE Timing'
<1> USE DEF nameVars, timeVars, loopVars, countVars
<1>1. PICK f, g : f = Current(files) /\ g = Current(files') OBVIOUS
<1>2. /\ clock \in Nat /\ timestamp \in Int /\ timestamp <= clock
      /\ runStartTime \in Int /\ runStartTime <= clock /\ runEndTime \in Int
  BY DEF Timing, IInv, DataType
<1>3. open => /\ Len(f.rows) \in Nat /\ DOMAIN f.rows = 1..Len(f.rows) /\ f.saved \in Nat
              /\ f.saved <= Len(f.rows) /\ f.runs \in Nat /\ f.start \in Int /\ f.end \in Int
              /\ \A i \in DOMAIN f.rows : f.rows[i].time \in Int
              /\ OpenTimes(f) /\ Bracketed(f)
  <2> SUFFICES ASSUME open PROVE
              /\ Len(f.rows) \in Nat /\ DOMAIN f.rows = 1..Len(f.rows) /\ f.saved \in Nat
              /\ f.saved <= Len(f.rows) /\ f.runs \in Nat /\ f.start \in Int /\ f.end \in Int
              /\ \A i \in DOMAIN f.rows : f.rows[i].time \in Int
              /\ OpenTimes(f) /\ Bracketed(f)
    OBVIOUS
  <2>1. /\ files # <<>> /\ Valid(files) /\ f.rows \in Seq(Event) /\ Len(f.rows) \in Nat
        /\ f.saved \in Nat /\ f.saved <= Len(f.rows) /\ f.start \in Int /\ f.end \in Int
        /\ \A i \in 1..Len(f.rows) : f.rows[i].time \in Int
    BY <1>1, OpenFile
  <2>2. DOMAIN f.rows = 1..Len(f.rows) BY <2>1
  <2>3. OpenTimes(f) BY <1>1 DEF Timing
  <2>4. Len(files) \in DOMAIN files BY <2>1, LastElement DEF Valid
  <2>5. Bracketed(f) BY <1>1, <2>4 DEF Timing, Current
  <2> QED BY <2>1, <2>2, <2>3, <2>5 DEF OpenTimes
<1>4. ASSUME UNCHANGED files PROVE g = f /\ \A k \in DOMAIN files' : Bracketed(files'[k])
  BY <1>1, <1>4 DEF Timing, Current
<1>5. CASE \/ UNCHANGED vars \/ ReturnDAQ \/ Misuse \/ StopDAQ \/ TellBuilder \/ JoinBuilder
  <2>1. UNCHANGED <<files, open, bpc, clock, timestamp, runStartTime>>
    BY <1>5 DEF vars, ReturnDAQ, Misuse, StopDAQ, TellBuilder, JoinBuilder
  <2> QED BY <2>1 DEF Timing, OpenTimes, Current
<1>6. CASE Tick
  <2>1. UNCHANGED <<files, open, bpc, timestamp, runStartTime>> /\ clock' = clock + 1
    BY <1>6 DEF Tick
  <2> QED BY <1>2, <2>1 DEF Timing, OpenTimes, Current
<1>7. ASSUME UNCHANGED <<clock, timestamp, runStartTime>>, ~open',
             (UNCHANGED files /\ ~open) \/ (Bracketed(g) /\ \A k \in DOMAIN files' :
                                files'[k] = g \/ \E j \in DOMAIN files : files'[k] = files[j])
      PROVE Timing'
  <2>1. \A k \in DOMAIN files' : Bracketed(files'[k])
    <3>1. CASE UNCHANGED files BY <1>4, <3>1
    <3>2. CASE Bracketed(g) /\ \A k \in DOMAIN files' :
                 files'[k] = g \/ \E j \in DOMAIN files : files'[k] = files[j]
      BY <3>2, BracketLast
    <3> QED BY <1>7, <3>1, <3>2
  <2> QED BY <1>2, <1>7, <2>1 DEF Timing
<1>8. CASE OpenFiles \/ CloseFiles \/ Quit \/ Kill
  <2>1. ~open' /\ UNCHANGED <<clock, timestamp, runStartTime>>
        /\ (open \/ UNCHANGED files)
    BY <1>8 DEF OpenFiles, CloseFiles, Quit, Kill, Closed
  <2>2. CASE ~open BY <1>7, <2>1, <2>2
  <2>3. CASE open /\ (OpenFiles \/ CloseFiles)
    <3>1. Becomes(f.start, f.end, f.rows, Len(f.rows), f.runs)
      BY <1>1, <2>3, OpenFileBecomes
    <3>2. Bracketed(g) BY <1>1, <1>3, <2>3, <3>1 DEF Becomes, Bracketed
    <3> QED BY <1>1, <1>7, <2>1, <3>1, <3>2 DEF Becomes
  <2>4. CASE open /\ Quit
    <3>1. Becomes(f.start, clock, f.rows, Len(f.rows), f.runs) BY <1>1, <2>4, OpenFileBecomes
    <3>2. g.start = f.start /\ g.end = clock /\ g.rows = f.rows /\ g.runs = f.runs
      BY <1>1, <3>1 DEF Becomes
    <3>3. Bracketed(g)
      <4>1. Before(f, timestamp) /\ (f.runs = 1 => After(f, f.start))
        BY <1>3, <2>4 DEF OpenTimes
      <4> QED BY <1>2, <1>3, <2>4, <3>2, <4>1 DEF Bracketed, Before, After
    <3> QED BY <1>1, <1>7, <2>1, <3>1, <3>3 DEF Becomes
  <2>5. CASE open /\ Kill
    <3>1. Becomes(f.start, f.end, SubSeq(f.rows, 1, f.saved), f.saved, f.runs)
      BY <1>1, <2>5, OpenFileBecomes
    <3>2. /\ DOMAIN SubSeq(f.rows, 1, f.saved) = 1..f.saved
          /\ \A i \in 1..f.saved : SubSeq(f.rows, 1, f.saved)[i] = f.rows[i]
      <4>1. f.rows \in Seq(Event) /\ f.saved \in Nat /\ f.saved <= Len(f.rows)
            /\ \A i \in 1..Len(f.rows) : f.rows[i] \in Event
        BY <1>1, <2>5, OpenFile
      <4>2. \A i \in 1..f.saved : f.rows[i] \in Event BY <4>1
      <4>3. Len(SubSeq(f.rows, 1, f.saved)) = f.saved
            /\ SubSeq(f.rows, 1, f.saved) \in Seq(Event)
            /\ \A i \in 1..f.saved : SubSeq(f.rows, 1, f.saved)[i] = f.rows[i]
        BY <4>1, <4>2, SubSeqProperties
      <4> QED BY <4>3
    <3>3. Bracketed(g)
      <4>1. /\ g.start = f.start /\ g.end = f.end /\ g.runs = f.runs
            /\ DOMAIN g.rows = 1..f.saved /\ \A i \in 1..f.saved : g.rows[i] = f.rows[i]
        BY <1>1, <3>1, <3>2 DEF Becomes
      <4>2. \A i \in 1..f.saved : i \in DOMAIN f.rows BY <1>3, <2>5
      <4> QED BY <1>3, <2>5, <4>1, <4>2 DEF Bracketed
    <3> QED BY <1>1, <1>7, <2>1, <3>1, <3>3 DEF Becomes
  <2> QED BY <1>8, <2>1, <2>2, <2>3, <2>4, <2>5
<1>9. CASE Restart
  <2>1. ~open' /\ ~open /\ UNCHANGED <<clock, files>> /\ timestamp' = 0 /\ runStartTime' = 0
    BY <1>9 DEF Restart, IInv, Control
  <2> QED BY <1>2, <1>4, <2>1 DEF Timing
<1>10. CASE StartDAQ
  <2>1. UNCHANGED <<files, open, clock, timestamp>> /\ bpc' = "start" /\ runStartTime' = clock
    BY <1>10 DEF StartDAQ
  <2>2. OpenTimes(f) => OpenTimes(f)' BY <2>1 DEF OpenTimes
  <2>3. open => OpenTimes(Current(files))' BY <1>3, <2>1 DEF OpenTimes, Timing, Current
  <2> QED BY <1>2, <1>4, <2>1, <2>3 DEF Timing
<1>11. CASE OpenRun
  <2>1. g = NewFile(NextRun, 1) /\ NewLast(g) BY <1>1, <1>11, OpenRunStep DEF NewLast
  <2>2. g.rows = <<>> /\ g.runs = 0 /\ g.end = None BY <2>1 DEF NewFile
  <2>3. bpc' = "done" /\ UNCHANGED <<clock, timestamp, runStartTime>>
    BY <1>11 DEF OpenRun, IInv, Control
  <2>4. OpenTimes(g)' BY <2>2, <2>3, EmptyTimes DEF OpenTimes
  <2>5. \A k \in DOMAIN files' : Bracketed(files'[k])
    BY <2>1, <2>2, EmptyTimes, BracketLast DEF NewLast
  <2> QED BY <1>1, <1>2, <2>3, <2>4, <2>5 DEF Timing
<1>12. CASE StartBuilder
  <2>1. /\ UNCHANGED <<open, clock, timestamp, runStartTime>> /\ bpc = "start" /\ bpc' = "loop"
        /\ (open \/ UNCHANGED files)
    BY <1>12 DEF StartBuilder
  <2>2. CASE ~open BY <1>2, <1>4, <2>1, <2>2 DEF Timing
  <2>3. CASE open
    <3>1. Becomes(runStartTime, f.end, f.rows, f.saved, f.runs + 1)
      BY <1>1, <1>12, <2>3, OpenFileBecomes
    <3>2. /\ g.start = runStartTime /\ g.end = f.end /\ g.rows = f.rows /\ g.runs = f.runs + 1
          /\ \A k \in DOMAIN files' : files'[k] = g \/ \E j \in DOMAIN files : files'[k] = files[j]
      BY <1>1, <3>1 DEF Becomes
    <3>3. g.runs \in Nat /\ g.runs # 0 /\ (g.runs = 1 => f.runs = 0) BY <1>3, <2>3, <3>2
    <3>4. g.runs = 1 => g.rows = <<>> /\ g.end = None BY <1>3, <2>3, <3>2, <3>3 DEF OpenTimes
    <3>5. Before(g, timestamp) BY <1>3, <2>3, <3>2 DEF OpenTimes, Before
    <3>6. g.runs = 1 => After(g, g.start) BY <3>4, EmptyTimes
    <3>7. OpenTimes(g)'
      <4>1. g.start <= runStartTime BY <1>2, <3>2
      <4> QED BY <2>1, <3>3, <3>4, <3>5, <3>6, <4>1 DEF OpenTimes
    <3>8. Bracketed(g) BY <3>4 DEF Bracketed
    <3>9. \A k \in DOMAIN files' : Bracketed(files'[k]) BY <3>2, <3>8, BracketLast
    <3> QED BY <1>1, <1>2, <2>1, <3>7, <3>9 DEF Timing
  <2> QED BY <2>2, <2>3
<1>13. CASE CheckFileSize
  <2>1. open /\ bpc = "check" BY <1>13 DEF CheckFileSize, IInv, Control
  <2>2. UNCHANGED <<clock, timestamp, runStartTime>> BY <1>13 DEF CheckFileSize
  <2>3. CASE open' /\ files' = files
    <3>1. bpc' = "loop" BY <1>13, <2>3 DEF CheckFileSize
    <3>2. OpenTimes(f)' BY <1>3, <2>1, <2>2, <3>1 DEF OpenTimes
    <3> QED BY <1>1, <1>2, <1>4, <2>2, <2>3, <3>2 DEF Timing
  <2>4. CASE ~open' /\ Becomes(f.start, timestamp, f.rows, Len(f.rows), f.runs)
    <3>1. /\ g.start = f.start /\ g.end = timestamp /\ g.rows = f.rows /\ g.runs = f.runs
          /\ \A k \in DOMAIN files' : files'[k] = g \/ \E j \in DOMAIN files : files'[k] = files[j]
      BY <1>1, <2>4 DEF Becomes
    <3>2. Before(f, timestamp) /\ (f.runs = 1 => After(f, f.start))
      BY <1>3, <2>1 DEF OpenTimes
    <3>3. Bracketed(g) BY <1>2, <1>3, <2>1, <3>1, <3>2 DEF Bracketed, Before, After
    <3> QED BY <1>7, <2>2, <2>4, <3>1, <3>3
  <2> QED BY <1>1, <1>13, <2>1, <2>3, <2>4, OpenFileBecomes
<1>14. CASE OpenNext
  <2>1. /\ g = [run |-> currentRun, idx |-> fileIndex, start |-> timestamp, end |-> None,
                rows |-> <<>>, saved |-> 0, runs |-> 1]
        /\ NewLast(g)
    BY <1>1, <1>14, OpenNextStep DEF NewLast
  <2>2. g.rows = <<>> /\ g.runs = 1 /\ g.end = None /\ g.start = timestamp BY <2>1
  <2>3. bpc' = "loop" /\ UNCHANGED <<clock, timestamp, runStartTime>> BY <1>14 DEF OpenNext
  <2>4. OpenTimes(g)' BY <1>2, <2>2, <2>3, EmptyTimes DEF OpenTimes
  <2>5. \A k \in DOMAIN files' : Bracketed(files'[k])
    BY <2>1, <2>2, EmptyTimes, BracketLast DEF NewLast
  <2> QED BY <1>1, <1>2, <2>3, <2>4, <2>5 DEF Timing
<1>15. CASE EndBuilder
  <2>1. /\ UNCHANGED <<open, clock, timestamp, runStartTime>> /\ bpc = "loop" /\ bpc' = "done"
        /\ (open \/ UNCHANGED files)
    BY <1>15 DEF EndBuilder
  <2>2. CASE ~open BY <1>2, <1>4, <2>1, <2>2 DEF Timing
  <2>3. CASE open
    <3>1. Becomes(f.start, EndOfRun, f.rows, f.saved, f.runs)
      BY <1>1, <1>15, <2>3, OpenFileBecomes
    <3>2. /\ g.start = f.start /\ g.end = EndOfRun /\ g.rows = f.rows /\ g.runs = f.runs
          /\ \A k \in DOMAIN files' : files'[k] = g \/ \E j \in DOMAIN files : files'[k] = files[j]
      BY <1>1, <3>1 DEF Becomes
    <3>3. EndOfRun \in Int /\ timestamp <= EndOfRun BY <1>2 DEF EndOfRun
    <3>4. /\ f.runs \in Nat /\ f.runs # 0 /\ Before(f, timestamp)
          /\ f.runs = 1 => After(f, f.start)
      BY <1>3, <2>1, <2>3 DEF OpenTimes
    <3>5. Before(g, timestamp) /\ (g.runs = 1 => After(g, g.start))
      BY <3>2, <3>4 DEF Before, After
    <3>6. Bracketed(g)
      <4>1. \A i \in DOMAIN f.rows : f.rows[i].time \in Int BY <1>3, <2>3
      <4>2. g.start \in Int BY <1>3, <2>3, <3>2
      <4> QED BY <1>2, <3>2, <3>3, <3>5, <4>1, <4>2 DEF Bracketed, Before, After
    <3>7. OpenTimes(g)' BY <2>1, <3>2, <3>4, <3>5 DEF OpenTimes
    <3>8. \A k \in DOMAIN files' : Bracketed(files'[k]) BY <3>2, <3>6, BracketLast
    <3> QED BY <1>1, <1>2, <2>1, <3>7, <3>8 DEF Timing
  <2> QED BY <2>2, <2>3
<1>16. ASSUME NEW t \in 0..clock, FillTree(t) PROVE Timing'
  <2>1. PICK row : row = [id |-> Len(taken) + 1, time |-> t] OBVIOUS
  <2>2. /\ open /\ Append(f.rows, row) \in Seq(Event)
        /\ Len(Append(f.rows, row)) = Len(f.rows) + 1
        /\ Append(f.rows, row)[Len(f.rows) + 1] = row
        /\ \A i \in 1..Len(f.rows) : Append(f.rows, row)[i] = f.rows[i]
        /\ Becomes(f.start, f.end, Append(f.rows, row),
                   IF SaveDue(t) THEN Len(f.rows) + 1 ELSE f.saved, f.runs)
    BY <1>1, <1>16, <2>1, FillBecomes
  <2>3. /\ bpc = "loop" /\ open' /\ timestamp <= t /\ timestamp' = t /\ runStartTime <= t
        /\ UNCHANGED <<clock, runStartTime>> /\ bpc' \in {"loop", "check"}
        /\ t \in Int /\ t <= clock
    BY <1>2, <1>16 DEF FillTree
  <2>4. /\ g.start = f.start /\ g.end = f.end /\ g.runs = f.runs
        /\ DOMAIN g.rows = 1..Len(f.rows) + 1 /\ g.rows[Len(f.rows) + 1].time = t
        /\ \A i \in 1..Len(f.rows) : g.rows[i] = f.rows[i]
        /\ \A k \in DOMAIN files' : files'[k] = g \/ \E j \in DOMAIN files : files'[k] = files[j]
    <3>1. DOMAIN Append(f.rows, row) = 1..Len(f.rows) + 1 BY <2>2
    <3> QED BY <1>1, <2>1, <2>2, <3>1 DEF Becomes
  <2>5. /\ f.runs \in Nat /\ f.runs # 0 /\ Before(f, timestamp)
        /\ f.runs = 1 => /\ After(f, f.start) /\ f.end = None
                         /\ (f.start <= runStartTime \/ f.start <= timestamp)
    BY <1>3, <2>2, <2>3 DEF OpenTimes
  <2>6. \A i \in DOMAIN g.rows : i = Len(f.rows) + 1 \/ i \in 1..Len(f.rows)
    BY <1>3, <2>2, <2>4
  <2>7. Before(g, t)
    <3>1. \A i \in 1..Len(f.rows) : f.rows[i].time <= t
      BY <1>2, <1>3, <2>2, <2>3, <2>5 DEF Before
    <3> QED BY <2>3, <2>4, <2>6, <3>1 DEF Before
  <2>8. g.runs = 1 => After(g, g.start)
    <3>1. f.runs = 1 => f.start <= t BY <1>2, <1>3, <2>2, <2>3, <2>5
    <3>2. f.runs = 1 => \A i \in 1..Len(f.rows) : f.start <= f.rows[i].time
      BY <1>3, <2>2, <2>5 DEF After
    <3> QED BY <2>4, <2>6, <3>1, <3>2 DEF After
  <2>9. g.runs = 1 => g.end = None /\ (g.start <= runStartTime \/ g.start <= t)
    BY <1>2, <1>3, <2>2, <2>3, <2>4, <2>5
  <2>10. OpenTimes(g)' BY <2>3, <2>4, <2>5, <2>7, <2>8, <2>9 DEF OpenTimes
  <2>11. Bracketed(g) BY <2>9 DEF Bracketed
  <2>12. \A k \in DOMAIN files' : Bracketed(files'[k]) BY <2>4, <2>11, BracketLast
  <2> QED BY <1>1, <1>2, <2>3, <2>10, <2>12 DEF Timing
<1> QED BY <1>5, <1>6, <1>8, <1>9, <1>10, <1>11, <1>12, <1>13, <1>14, <1>15, <1>16 DEF Next

\* The times of every file are as TimesBracket says.
LEMMA TimesAreKept == Timing => TimesBracket
BY DEF Timing, Bracketed, TimesBracket

(***************************************************************************)
(* Where the events are.                                                   *)
(***************************************************************************)
Partition == Full(files) \/ FlattenSeq(RowsOf(files)) = taken

LEMMA PartitionStep == ASSUME IInv, Partition, [Next]_vars PROVE Partition'
<1> USE DEF nameVars, timeVars, loopVars, countVars
<1>1. PICK f : f = Current(files) OBVIOUS
<1>2. taken \in Seq(Event) /\ Valid(files) BY DEF IInv, DataType
<1>3. ASSUME UNCHANGED <<files, taken>> PROVE Partition'
  BY <1>3 DEF Partition, Full, RowsOf
<1>4. ASSUME NEW st, NEW en, NEW sv, NEW n, Becomes(st, en, f.rows, sv, n), UNCHANGED taken
      PROVE Partition'
  BY <1>1, <1>4 DEF Becomes, Partition
<1>5. CASE \/ UNCHANGED vars \/ StartDAQ \/ ReturnDAQ \/ Misuse \/ StopDAQ \/ TellBuilder
           \/ JoinBuilder \/ Restart \/ Tick
  BY <1>3, <1>5 DEF vars, StartDAQ, ReturnDAQ, Misuse, StopDAQ, TellBuilder, JoinBuilder,
                    Restart, Tick
<1>6. CASE OpenFiles \/ CloseFiles
  <2>1. UNCHANGED taken /\ (open \/ UNCHANGED files)
    BY <1>6 DEF OpenFiles, CloseFiles, Closed
  <2>2. open => Becomes(f.start, f.end, f.rows, Len(f.rows), f.runs)
    BY <1>1, <1>6, OpenFileBecomes
  <2> QED BY <1>3, <1>4, <2>1, <2>2
<1>7. CASE Quit
  <2>1. UNCHANGED taken /\ (open \/ UNCHANGED files) BY <1>7 DEF Quit
  <2>2. open => Becomes(f.start, clock, f.rows, Len(f.rows), f.runs)
    BY <1>1, <1>7, OpenFileBecomes
  <2> QED BY <1>3, <1>4, <2>1, <2>2
<1>8. CASE StartBuilder
  <2>1. UNCHANGED taken /\ (open \/ UNCHANGED files) BY <1>8 DEF StartBuilder
  <2>2. open => Becomes(runStartTime, f.end, f.rows, f.saved, f.runs + 1)
    BY <1>1, <1>8, OpenFileBecomes
  <2> QED BY <1>3, <1>4, <2>1, <2>2
<1>9. CASE CheckFileSize
  <2>1. UNCHANGED taken /\ open BY <1>9 DEF CheckFileSize, IInv, Control
  <2>2. UNCHANGED files \/ Becomes(f.start, timestamp, f.rows, Len(f.rows), f.runs)
    BY <1>1, <1>9, <2>1, OpenFileBecomes
  <2> QED BY <1>3, <1>4, <2>1, <2>2
<1>10. CASE EndBuilder
  <2>1. UNCHANGED taken /\ (open \/ UNCHANGED files) BY <1>10 DEF EndBuilder
  <2>2. open => Becomes(f.start, EndOfRun, f.rows, f.saved, f.runs)
    BY <1>1, <1>10, OpenFileBecomes
  <2> QED BY <1>3, <1>4, <2>1, <2>2
<1>11. ASSUME NEW g, NewLast(g), g.rows = <<>>, UNCHANGED taken PROVE Partition'
  <2>1. CASE Full(files') BY <2>1 DEF Partition
  <2>2. CASE ~Full(files) /\ files' = Append(files, g)
    <3>1. /\ FlattenSeq(RowsOf(files)) \in Seq(Event)
          /\ FlattenSeq(RowsOf(Append(files, g))) = FlattenSeq(RowsOf(files)) \o g.rows
      BY <1>2, <1>11, JoinedAppend DEF NewLast, Valid
    <3>2. FlattenSeq(RowsOf(files)) \o <<>> = FlattenSeq(RowsOf(files))
      BY <3>1, ConcatEmptySeq
    <3> QED BY <1>11, <2>2, <3>1, <3>2 DEF Partition
  <2> QED BY <1>11, <2>1, <2>2 DEF NewLast
<1>12. CASE OpenRun
  <2>1. NewLast(NewFile(NextRun, 1)) /\ NewFile(NextRun, 1).rows = <<>>
    BY <1>12, OpenRunStep DEF NewFile
  <2>2. UNCHANGED taken BY <1>12 DEF OpenRun
  <2> QED BY <1>11, <2>1, <2>2
<1>13. CASE OpenNext
  <2>1. PICK g : g = [run |-> currentRun, idx |-> fileIndex, start |-> timestamp,
                      end |-> None, rows |-> <<>>, saved |-> 0, runs |-> 1]
    OBVIOUS
  <2>2. NewLast(g) /\ g.rows = <<>> BY <1>13, <2>1, OpenNextStep
  <2>3. UNCHANGED taken BY <1>13 DEF OpenNext
  <2> QED BY <1>11, <2>2, <2>3
<1>14. ASSUME NEW t \in 0..clock, FillTree(t) PROVE Partition'
  <2>1. PICK row : row = [id |-> Len(taken) + 1, time |-> t] OBVIOUS
  <2>2. /\ open /\ row \in Event
        /\ Becomes(f.start, f.end, Append(f.rows, row),
                   IF SaveDue(t) THEN Len(f.rows) + 1 ELSE f.saved, f.runs)
    BY <1>1, <1>14, <2>1, FillBecomes
  <2>3. f.rows \in Seq(Event) BY <1>1, <2>2, OpenFile
  <2>4. PICK front \in Seq(Event) :
          /\ FlattenSeq(RowsOf(files)) = front \o f.rows
          /\ FlattenSeq(RowsOf(files')) = front \o Append(f.rows, row)
    BY <1>1, <2>2 DEF Becomes
  <2>5. Full(files) => Full(files') BY <2>2 DEF Becomes
  <2>6. front \o Append(f.rows, row) = Append(front \o f.rows, row) BY <2>2, <2>3
  <2>7. taken' = Append(taken, row) BY <1>14, <2>1 DEF FillTree
  <2> QED BY <2>4, <2>5, <2>6, <2>7 DEF Partition
<1>15. CASE Kill
  <2>1. CASE ~open BY <1>3, <1>15, <2>1 DEF Kill
  <2>2. CASE open
    <3>1. Becomes(f.start, f.end, SubSeq(f.rows, 1, f.saved), f.saved, f.runs)
      BY <1>1, <1>15, <2>2, OpenFileBecomes
    <3>2. /\ f.rows \in Seq(Event) /\ Len(f.rows) \in Nat /\ f.saved \in Nat
          /\ f.saved <= Len(f.rows)
      BY <1>1, <2>2, OpenFile
    <3>3. PICK front \in Seq(Event) :
            /\ FlattenSeq(RowsOf(files)) = front \o f.rows
            /\ FlattenSeq(RowsOf(files')) = front \o SubSeq(f.rows, 1, f.saved)
      BY <1>1, <3>1 DEF Becomes
    <3>4. Full(files) => Full(files') BY <3>1 DEF Becomes
    <3>5. taken' = SubSeq(taken, 1, Len(taken) + f.saved - Len(f.rows))
      BY <1>1, <1>15, <2>2 DEF Kill
    <3>6. PICK r, m, s : r = f.rows /\ m = f.saved /\ s = front \o r OBVIOUS
    <3>7. SubSeq(s, 1, Len(s) + m - Len(r)) = front \o SubSeq(r, 1, m)
      BY <3>2, <3>6
    <3> QED BY <3>3, <3>4, <3>5, <3>6, <3>7 DEF Partition
  <2> QED BY <2>1, <2>2
<1> QED BY <1>5, <1>6, <1>7, <1>8, <1>9, <1>10, <1>11, <1>12, <1>13, <1>14, <1>15 DEF Next

(***************************************************************************)
(* Types and bounds.                                                       *)
(***************************************************************************)
Scalars ==
  /\ pc \in {"idle", "open", "run", "ran", "stop", "ended", "undefined"}
  /\ bpc \in {"start", "loop", "check", "reopen", "done"}
  /\ open \in BOOLEAN /\ stopEventBuilder \in BOOLEAN
  /\ currentRun \in -1..LastRun + 1 /\ fileIndex \in Nat
  /\ clock \in Time /\ runStartTime \in Time /\ runEndTime \in Time
  /\ lastTimeSaved \in Time /\ timestamp \in Time
  /\ opens \in 0..MaxOpens /\ runs \in 0..MaxRuns /\ kills \in 0..MaxKills

LEMMA ScalarsStep == ASSUME IInv, Scalars, [Next]_vars PROVE Scalars'
<1> USE DEF nameVars, timeVars, loopVars, countVars, Scalars, Time
<1>1. 0 \in Time /\ -1 \in -1..LastRun + 1 BY SizeAssumption, BoundAssumption
<1>2. CASE UNCHANGED vars BY <1>2 DEF vars
<1>3. CASE OpenFiles
  <2>1. opens' \in 0..MaxOpens
    <3>1. opens < MaxOpens /\ opens' = opens + 1 BY <1>3 DEF OpenFiles
    <3> QED BY <3>1, BoundAssumption
  <2>2. currentRun' \in -1..LastRun + 1 BY <1>1, <1>3 DEF OpenFiles
  <2>3. pc' \in {"open", "idle", "ended"} /\ open' = FALSE BY <1>3 DEF OpenFiles
  <2>4. UNCHANGED <<bpc, stopEventBuilder, fileIndex, clock, runStartTime, runEndTime,
                    lastTimeSaved, timestamp, runs, kills>>
    BY <1>3 DEF OpenFiles
  <2> QED BY <2>1, <2>2, <2>3, <2>4
<1>4. CASE OpenRun
  <2>1. NextRun \in -1..LastRun + 1
    <3>1. NextRun \in 0..LastRun + 1 BY NextNumber DEF IInv, DataType
    <3> QED BY <3>1, SizeAssumption
  <2> QED BY <1>4, <2>1 DEF OpenRun
<1>5. CASE CloseFiles \/ ReturnDAQ \/ Misuse \/ TellBuilder \/ JoinBuilder \/ Quit
  BY <1>5 DEF CloseFiles, ReturnDAQ, Misuse, TellBuilder, JoinBuilder, Quit
<1>6. CASE StartDAQ
  <2>1. runs' \in 0..MaxRuns
    <3>1. runs < MaxRuns /\ runs' = runs + 1 BY <1>6 DEF StartDAQ
    <3> QED BY <3>1, BoundAssumption
  <2> QED BY <1>6, <2>1 DEF StartDAQ
<1>7. CASE StopDAQ BY <1>7 DEF StopDAQ
<1>8. CASE Kill
  <2>1. kills' \in 0..MaxKills
    <3>1. kills < MaxKills /\ kills' = kills + 1 BY <1>8 DEF Kill
    <3> QED BY <3>1, BoundAssumption
  <2>2. pc' = "ended" /\ open' = FALSE /\ bpc' = "done" BY <1>8 DEF Kill
  <2>3. UNCHANGED <<stopEventBuilder, currentRun, fileIndex, clock, runStartTime, runEndTime,
                    lastTimeSaved, timestamp, opens, runs>>
    BY <1>8 DEF Kill
  <2> QED BY <2>1, <2>2, <2>3
<1>9. CASE Restart BY <1>1, <1>9 DEF Restart
<1>10. CASE Tick BY <1>10, BoundAssumption DEF Tick
<1>11. CASE StartBuilder BY <1>11 DEF StartBuilder
<1>12. CASE CheckFileSize BY <1>12 DEF CheckFileSize
<1>13. CASE OpenNext BY <1>13 DEF OpenNext
<1>14. CASE EndBuilder BY <1>14 DEF EndBuilder, EndOfRun
<1>15. ASSUME NEW t \in 0..clock, FillTree(t) PROVE Scalars'
  <2>1. t \in Time BY BoundAssumption
  <2>2. bpc' \in {"start", "loop", "check", "reopen", "done"} BY <1>15 DEF FillTree
  <2>3. lastTimeSaved' \in Time BY <1>15, <2>1 DEF FillTree
  <2> QED BY <1>15, <2>1, <2>2, <2>3 DEF FillTree
<1> QED BY <1>2, <1>3, <1>4, <1>5, <1>6, <1>7, <1>8, <1>9, <1>10, <1>11, <1>12, <1>13, <1>14,
           <1>15 DEF Next

\* A file, with no more events than there may be and written by as many runs.
Sized(f) == /\ f.run \in 0..LastRun + 1 /\ f.idx \in Nat
            /\ f.start \in Time \cup {None} /\ f.end \in Time \cup {None}
            /\ f.rows \in Seq(Row) /\ Len(f.rows) <= MaxEvents /\ f.runs \in 0..MaxRuns

\* No more events are in the open file than were taken, nor are counted in a run.
Growth == /\ \A k \in DOMAIN files : Sized(files[k])
          /\ taken \in Seq(Row) /\ Len(taken) <= MaxEvents
          /\ open => /\ Len(Current(files).rows) <= Len(taken)
                     /\ Current(files).runs <= runs
                     /\ bpc = "start" => Current(files).runs < runs
          /\ storedEvents \in 0..MaxEvents
          /\ bpc # "done" => 1 <= runs /\ storedEvents <= Len(taken)
          /\ bpc \in {"check", "reopen"} => storedEvents < Len(taken)

\* Files that are sized stay so when only the last one, g, is new.
LEMMA SizedLast ==
  ASSUME Growth, NEW g, Sized(g),
         \A k \in DOMAIN files' : files'[k] = g \/ \E j \in DOMAIN files : files'[k] = files[j]
  PROVE \A k \in DOMAIN files' : Sized(files'[k])
BY DEF Growth

LEMMA GrowthStep == ASSUME IInv, Scalars, Growth, [Next]_vars PROVE Growth'
<1> USE DEF nameVars, timeVars, loopVars, countVars
<1>1. PICK f, g : f = Current(files) /\ g = Current(files') OBVIOUS
<1>2. /\ taken \in Seq(Row) /\ Len(taken) \in Nat /\ Len(taken) <= MaxEvents
      /\ storedEvents \in 0..MaxEvents /\ runs \in 0..MaxRuns /\ MaxEvents \in Nat
      /\ MaxRuns \in Nat
  BY BoundAssumption DEF Growth, Scalars
<1>3. open => /\ Sized(f) /\ Len(f.rows) \in Nat /\ f.saved \in Nat /\ f.saved <= Len(f.rows)
              /\ Len(f.rows) <= Len(taken) /\ f.runs <= runs
              /\ bpc = "start" => f.runs < runs
  <2>1. open => /\ files # <<>> /\ Valid(files) /\ Len(f.rows) \in Nat
                /\ f.saved \in Nat /\ f.saved <= Len(f.rows)
    BY <1>1, OpenFile
  <2>2. open => Len(files) \in DOMAIN files BY <2>1, LastElement DEF Valid
  <2> QED BY <1>1, <2>1, <2>2 DEF Growth, Current
<1>4. ASSUME UNCHANGED files PROVE g = f /\ \A k \in DOMAIN files' : Sized(files'[k])
  BY <1>1, <1>4 DEF Growth, Current
\* The open file gets other times, at most.
<1>5. ASSUME NEW st \in Time \cup {None}, NEW en \in Time \cup {None}, NEW sv,
             NEW n \in 0..MaxRuns, Becomes(st, en, f.rows, sv, n), open
      PROVE /\ \A k \in DOMAIN files' : Sized(files'[k])
            /\ Len(g.rows) <= Len(taken) /\ g.runs = n
  <2>1. /\ g.start = st /\ g.end = en /\ g.rows = f.rows /\ g.runs = n
        /\ g.run = f.run /\ g.idx = f.idx
        /\ \A k \in DOMAIN files' : files'[k] = g \/ \E j \in DOMAIN files : files'[k] = files[j]
    BY <1>1, <1>5 DEF Becomes
  <2>2. Sized(g) BY <1>3, <1>5, <2>1 DEF Sized
  <2> QED BY <1>3, <1>5, <2>1, <2>2, SizedLast
<1>6. open => f.start \in Time \cup {None} /\ f.end \in Time \cup {None} /\ f.runs \in 0..MaxRuns
  BY <1>3 DEF Sized
<1>7. CASE \/ UNCHANGED vars \/ ReturnDAQ \/ Misuse \/ StopDAQ \/ TellBuilder \/ JoinBuilder
           \/ Tick
  <2>1. UNCHANGED <<files, open, bpc, storedEvents, taken, runs>>
    BY <1>7 DEF vars, ReturnDAQ, Misuse, StopDAQ, TellBuilder, JoinBuilder, Tick
  <2> QED BY <2>1 DEF Growth, Current
<1>8. CASE OpenFiles \/ CloseFiles \/ Quit
  <2>1. ~open' /\ UNCHANGED <<bpc, storedEvents, taken, runs>> /\ (open \/ UNCHANGED files)
    BY <1>8 DEF OpenFiles, CloseFiles, Quit, Closed
  <2>2. open => \/ Becomes(f.start, f.end, f.rows, Len(f.rows), f.runs)
                \/ Becomes(f.start, clock, f.rows, Len(f.rows), f.runs)
    BY <1>1, <1>8, OpenFileBecomes
  <2>3. clock \in Time \cup {None} BY DEF Scalars
  <2>4. \A k \in DOMAIN files' : Sized(files'[k]) BY <1>4, <1>5, <1>6, <2>1, <2>2, <2>3
  <2> QED BY <1>2, <2>1, <2>4 DEF Growth
<1>9. CASE Restart
  <2>1. ~open' /\ bpc' = "done" /\ storedEvents' = 0 /\ UNCHANGED <<files, taken, runs>>
    BY <1>9 DEF Restart, IInv, Control
  <2> QED BY <1>2, <1>4, <2>1 DEF Growth
<1>10. CASE StartDAQ
  <2>1. UNCHANGED <<files, open, taken>> /\ bpc' = "start" /\ storedEvents' = 0
        /\ runs' = runs + 1
    BY <1>10 DEF StartDAQ
  <2>2. open => f.runs < runs' /\ f.runs <= runs' BY <1>2, <1>3, <1>6, <2>1
  <2>3. 1 <= runs' /\ 0 <= Len(taken) /\ 0 \in 0..MaxEvents BY <1>2, <2>1
  <2> QED BY <1>1, <1>2, <1>3, <1>4, <2>1, <2>2, <2>3 DEF Growth
<1>11. CASE Kill
  <2>1. ~open' /\ bpc' = "done" /\ UNCHANGED <<storedEvents, runs>> BY <1>11 DEF Kill
  <2>2. CASE ~open
    <3>1. UNCHANGED <<files, taken>> BY <1>11, <2>2 DEF Kill
    <3> QED BY <1>2, <1>4, <2>1, <3>1 DEF Growth
  <2>3. CASE open
    <3>1. Becomes(f.start, f.end, SubSeq(f.rows, 1, f.saved), f.saved, f.runs)
      BY <1>1, <1>11, <2>3, OpenFileBecomes
    <3>2. /\ f.rows \in Seq(Row) /\ Len(f.rows) <= MaxEvents BY <1>3, <2>3 DEF Sized
    <3>3. /\ SubSeq(f.rows, 1, f.saved) \in Seq(Row)
          /\ Len(SubSeq(f.rows, 1, f.saved)) <= MaxEvents
      <4>1. \A i \in 1..f.saved : f.rows[i] \in Row BY <1>3, <2>3, <3>2
      <4>2. /\ SubSeq(f.rows, 1, f.saved) \in Seq(Row)
            /\ Len(SubSeq(f.rows, 1, f.saved)) = f.saved
        BY <1>3, <2>3, <3>2, <4>1, SubSeqProperties
      <4> QED BY <1>2, <1>3, <2>3, <3>2, <4>2
    <3>4. /\ g.start = f.start /\ g.end = f.end /\ g.rows = SubSeq(f.rows, 1, f.saved)
          /\ g.runs = f.runs /\ g.run = f.run /\ g.idx = f.idx
          /\ \A k \in DOMAIN files' : files'[k] = g \/ \E j \in DOMAIN files : files'[k] = files[j]
      BY <1>1, <3>1 DEF Becomes
    <3>5. Sized(g) BY <1>3, <2>3, <3>3, <3>4 DEF Sized
    <3>6. \A k \in DOMAIN files' : Sized(files'[k]) BY <3>4, <3>5, SizedLast
    <3>7. taken' \in Seq(Row) /\ Len(taken') <= MaxEvents
      <4>1. PICK m : m = Len(taken) + f.saved - Len(f.rows) OBVIOUS
      <4>2. m \in 0..Len(taken) BY <1>2, <1>3, <2>3, <4>1
      <4>3. taken' = SubSeq(taken, 1, m) BY <1>1, <1>11, <2>3, <4>1 DEF Kill
      <4>4. \A i \in 1..m : taken[i] \in Row BY <1>2, <4>2
      <4>5. SubSeq(taken, 1, m) \in Seq(Row) /\ Len(SubSeq(taken, 1, m)) = m
        BY <1>2, <4>2, <4>4, SubSeqProperties
      <4> QED BY <1>2, <4>2, <4>3, <4>5
    <3> QED BY <1>2, <2>1, <3>6, <3>7 DEF Growth
  <2> QED BY <2>2, <2>3
<1>12. CASE OpenRun
  <2>1. g = NewFile(NextRun, 1) /\ NewLast(g) BY <1>1, <1>12, OpenRunStep DEF NewLast
  <2>2. g.rows = <<>> /\ Len(g.rows) = 0 /\ g.runs = 0 BY <2>1, EmptySeq DEF NewFile
  <2>3. bpc' = "done" /\ UNCHANGED <<storedEvents, taken, runs>>
    BY <1>12 DEF OpenRun, IInv, Control
  <2>4. NextRun \in 0..LastRun + 1 BY NextNumber DEF IInv, DataType
  <2>5. Sized(g)
    <3>1. <<>> \in Seq(Row) BY EmptySeq
    <3> QED BY <1>2, <2>1, <2>2, <2>4, <3>1 DEF Sized, NewFile
  <2>6. \A k \in DOMAIN files' : Sized(files'[k]) BY <2>1, <2>5, SizedLast DEF NewLast
  <2> QED BY <1>1, <1>2, <2>2, <2>3, <2>6 DEF Growth
<1>13. CASE StartBuilder
  <2>1. /\ UNCHANGED <<open, storedEvents, taken, runs>> /\ bpc = "start" /\ bpc' = "loop"
        /\ (open \/ UNCHANGED files)
    BY <1>13 DEF StartBuilder
  <2>2. open => Becomes(runStartTime, f.end, f.rows, f.saved, f.runs + 1)
    BY <1>1, <1>13, OpenFileBecomes
  <2>3. open => f.runs + 1 \in 0..MaxRuns /\ f.runs + 1 <= runs BY <1>2, <1>3, <1>6, <2>1
  <2>4. runStartTime \in Time \cup {None} BY DEF Scalars
  <2>5. \A k \in DOMAIN files' : Sized(files'[k]) BY <1>4, <1>5, <1>6, <2>1, <2>2, <2>3, <2>4
  <2>6. open => Len(g.rows) <= Len(taken) /\ g.runs <= runs
    BY <1>5, <1>6, <2>2, <2>3, <2>4
  <2> QED BY <1>1, <1>2, <2>1, <2>5, <2>6 DEF Growth
<1>14. CASE CheckFileSize
  <2>1. /\ open /\ bpc = "check" /\ UNCHANGED <<taken, runs>> /\ 1 <= runs
        /\ storedEvents < Len(taken) /\ timestamp \in Time \cup {None}
    BY <1>14 DEF CheckFileSize, IInv, Control, Growth, Scalars
  <2>2. \A k \in DOMAIN files' : Sized(files'[k])
    <3>1. UNCHANGED files \/ Becomes(f.start, timestamp, f.rows, Len(f.rows), f.runs)
      BY <1>1, <1>14, <2>1, OpenFileBecomes
    <3> QED BY <1>4, <1>5, <1>6, <2>1, <3>1
  <2>3. CASE bpc' = "loop" /\ storedEvents' = storedEvents + 1 /\ UNCHANGED <<files, open>>
    <3>1. storedEvents' \in 0..MaxEvents /\ storedEvents' <= Len(taken) BY <1>2, <2>1, <2>3
    <3> QED BY <1>1, <1>2, <1>3, <1>4, <2>1, <2>2, <2>3, <3>1 DEF Growth
  <2>4. CASE bpc' = "reopen" /\ ~open' /\ UNCHANGED storedEvents
    <3>1. storedEvents <= Len(taken) BY <1>2, <2>1
    <3> QED BY <1>2, <2>1, <2>2, <2>4, <3>1 DEF Growth
  <2> QED BY <1>14, <2>3, <2>4 DEF CheckFileSize
<1>15. CASE OpenNext
  <2>1. /\ g = [run |-> currentRun, idx |-> fileIndex, start |-> timestamp, end |-> None,
                rows |-> <<>>, saved |-> 0, runs |-> 1]
        /\ NewLast(g)
    BY <1>1, <1>15, OpenNextStep DEF NewLast
  <2>2. /\ bpc = "reopen" /\ bpc' = "loop" /\ storedEvents' = storedEvents + 1
        /\ UNCHANGED <<taken, runs>> /\ 1 <= runs /\ storedEvents < Len(taken)
    BY <1>15 DEF OpenNext, Growth
  <2>3. storedEvents' \in 0..MaxEvents /\ storedEvents' <= Len(taken) BY <1>2, <2>2
  <2>4. currentRun \in 0..LastRun + 1 \/ currentRun = -1
    <3>1. currentRun \in -1..LastRun + 1 /\ LastRun \in Nat BY SizeAssumption DEF Scalars
    <3> QED BY <3>1
  <2>5. currentRun # -1
    <3>1. Following BY <2>2 DEF IInv, Control
    <3>2. Len(files) \in DOMAIN files BY <3>1, LastElement DEF Following, IInv, DataType, Valid
    <3>3. Current(files).run \in 0..LastRun + 1 BY <3>2 DEF Growth, Sized, Current
    <3> QED BY <3>1, <3>3, SizeAssumption DEF Following
  <2>6. Sized(g)
    <3>1. <<>> \in Seq(Row) /\ Len(<<>>) = 0 BY EmptySeq
    <3>2. timestamp \in Time /\ fileIndex \in Nat BY DEF Scalars
    <3>3. 1 \in 0..MaxRuns BY <1>2, <2>2
    <3> QED BY <1>2, <2>1, <2>4, <2>5, <3>1, <3>2, <3>3 DEF Sized
  <2>7. \A k \in DOMAIN files' : Sized(files'[k]) BY <2>1, <2>6, SizedLast DEF NewLast
  <2>8. Len(g.rows) = 0 /\ g.runs = 1 BY <2>1, EmptySeq
  <2> QED BY <1>1, <1>2, <2>2, <2>3, <2>7, <2>8 DEF Growth
<1>16. CASE EndBuilder
  <2>1. /\ UNCHANGED <<open, storedEvents, taken, runs>> /\ bpc' = "done"
        /\ (open \/ UNCHANGED files)
    BY <1>16 DEF EndBuilder
  <2>2. open => Becomes(f.start, EndOfRun, f.rows, f.saved, f.runs)
    BY <1>1, <1>16, OpenFileBecomes
  <2>3. EndOfRun \in Time \cup {None} BY DEF Scalars, EndOfRun
  <2>4. \A k \in DOMAIN files' : Sized(files'[k]) BY <1>4, <1>5, <1>6, <2>1, <2>2, <2>3
  <2>5. open => Len(g.rows) <= Len(taken) /\ g.runs <= runs
    BY <1>3, <1>5, <1>6, <2>2, <2>3
  <2> QED BY <1>1, <1>2, <2>1, <2>4, <2>5 DEF Growth
<1>17. ASSUME NEW t \in 0..clock, FillTree(t) PROVE Growth'
  <2>1. PICK row : row = [id |-> Len(taken) + 1, time |-> t] OBVIOUS
  <2>2. /\ open /\ Len(Append(f.rows, row)) = Len(f.rows) + 1
        /\ Becomes(f.start, f.end, Append(f.rows, row),
                   IF SaveDue(t) THEN Len(f.rows) + 1 ELSE f.saved, f.runs)
    BY <1>1, <1>17, <2>1, FillBecomes
  <2>3. /\ bpc = "loop" /\ open' /\ Len(taken) < MaxEvents /\ UNCHANGED runs
        /\ taken' = Append(taken, row)
        /\ \/ bpc' = "check" /\ UNCHANGED storedEvents
           \/ bpc' = "loop" /\ storedEvents' = storedEvents + 1
    BY <1>17, <2>1 DEF FillTree
  <2>4. row \in Row
    <3>1. t \in Time BY BoundAssumption DEF Scalars, Time
    <3>2. Len(taken) + 1 \in 1..MaxEvents BY <1>2, <2>3
    <3> QED BY <2>1, <3>1, <3>2 DEF Row
  <2>5. taken' \in Seq(Row) /\ Len(taken') = Len(taken) + 1 BY <1>2, <2>3, <2>4
  <2>6. /\ g.start = f.start /\ g.end = f.end /\ g.rows = Append(f.rows, row)
        /\ g.runs = f.runs /\ g.run = f.run /\ g.idx = f.idx
        /\ \A k \in DOMAIN files' : files'[k] = g \/ \E j \in DOMAIN files : files'[k] = files[j]
    BY <1>1, <2>2 DEF Becomes
  <2>7. Len(g.rows) <= Len(taken') /\ Len(g.rows) <= MaxEvents
    BY <1>2, <1>3, <2>2, <2>3, <2>5, <2>6
  <2>8. Sized(g)
    <3>1. g.rows \in Seq(Row) BY <1>3, <2>2, <2>4, <2>6, AppendProperties DEF Sized
    <3> QED BY <1>3, <2>2, <2>6, <2>7, <3>1 DEF Sized
  <2>9. \A k \in DOMAIN files' : Sized(files'[k]) BY <2>6, <2>8, SizedLast
  <2>10. 1 <= runs /\ storedEvents <= Len(taken) BY <2>3 DEF Growth
  <2>11. /\ storedEvents' \in 0..MaxEvents /\ storedEvents' <= Len(taken')
         /\ bpc' = "check" => storedEvents' < Len(taken')
    BY <1>2, <2>3, <2>5, <2>10
  <2>12. g.runs <= runs /\ Len(taken') <= MaxEvents BY <1>2, <1>3, <2>2, <2>3, <2>5, <2>6
  <2> QED BY <1>1, <2>3, <2>5, <2>7, <2>9, <2>10, <2>11, <2>12 DEF Growth
<1> QED BY <1>7, <1>8, <1>9, <1>10, <1>11, <1>12, <1>13, <1>14, <1>15, <1>16, <1>17 DEF Next

\* These are the types of the module.
LEMMA TypesFollow == IInv /\ Scalars /\ Growth => TypeOK
<1> SUFFICES ASSUME IInv, Scalars, Growth PROVE TypeOK
  OBVIOUS
<1>1. files \in Seq(File) /\ \A k \in DOMAIN files : files[k].saved <= Len(files[k].rows)
  BY DEF IInv, DataType, Valid
<1>2. ASSUME NEW k \in DOMAIN files PROVE files[k] \in RootFile
  <2>1. PICK f : f = files[k] OBVIOUS
  <2>2. f \in File /\ f.saved <= Len(f.rows) /\ Sized(f) BY <1>1, <2>1 DEF Growth
  <2>3. /\ f = [run |-> f.run, idx |-> f.idx, start |-> f.start, end |-> f.end,
                rows |-> f.rows, saved |-> f.saved, runs |-> f.runs]
        /\ f.saved \in Nat
    BY <2>2 DEF File
  <2>4. f.saved \in 0..MaxEvents
    <3>1. Len(f.rows) <= MaxEvents /\ Len(f.rows) \in Nat BY <2>2 DEF Sized
    <3> QED BY <2>2, <2>3, <3>1, BoundAssumption
  <2>5. f \in RootFile BY <2>2, <2>3, <2>4 DEF Sized, RootFile
  <2> QED BY <2>1, <2>5
<1>3. files \in Seq(RootFile)
  <2>1. Len(files) \in Nat /\ files = [k \in 1..Len(files) |-> files[k]]
        /\ DOMAIN files = 1..Len(files)
    BY <1>1
  <2> QED BY <1>2, <2>1
<1>4. open => files # <<>> /\ Current(files).run = currentRun
  BY DEF IInv, Control, Following
<1> QED BY <1>1, <1>3, <1>4 DEF TypeOK, Scalars, Growth

(***************************************************************************)
(* The theorems.                                                           *)
(***************************************************************************)
\* The invariant and the promise hold initially: there are no files.
LEMMA InitIInv == Init => IInv /\ Directory!Init
<1> SUFFICES ASSUME Init PROVE IInv /\ Directory!Init
  OBVIOUS
<1>1. DataType
  <2>1. files = <<>> /\ taken = <<>> BY DEF Init
  <2>2. Valid(files) BY <2>1, EmptySeq DEF Valid
  <2>3. taken \in Seq(Event) BY <2>1, EmptySeq
  <2>4. clock \in Int /\ timestamp \in Int /\ runStartTime \in Int /\ runEndTime \in Int
        /\ fileIndex \in Int /\ currentRun \in Int
    BY DEF Init
  <2>5. open \in BOOLEAN BY DEF Init
  <2> QED BY <2>2, <2>3, <2>4, <2>5 DEF DataType
<1>2. Ordered(files) BY DEF Init, Ordered
<1>3. Control BY DEF Init, Control
<1>4. Directory!Init BY DEF Init, Directory!Init, SavedFiles
<1> QED BY <1>1, <1>2, <1>3, <1>4 DEF IInv

\* Every step keeps the invariant and the promise.
LEMMA NextIInv == IInv /\ [Next]_vars => IInv' /\ Seeing
<1> SUFFICES ASSUME IInv, [Next]_vars PROVE IInv' /\ Seeing
  OBVIOUS
<1>1. CASE UNCHANGED vars
  BY <1>1 DEF vars, nameVars, timeVars, loopVars, countVars, IInv, DataType, Control, Following,
              Seeing, SavedFiles
<1>2. CASE \/ OpenFiles \/ CloseFiles \/ StartDAQ \/ ReturnDAQ \/ Misuse \/ StopDAQ
           \/ TellBuilder \/ JoinBuilder \/ Quit \/ Kill \/ Restart \/ Tick
  BY <1>2, MainStep
<1>3. CASE OpenRun BY <1>3, OpenRunStep
<1>4. CASE OpenNext BY <1>4, OpenNextStep
<1>5. CASE \E t \in 0..clock : FillTree(t) BY <1>5, FillStep
<1>6. CASE StartBuilder \/ CheckFileSize \/ EndBuilder BY <1>6, BuilderStep
<1> QED BY <1>1, <1>2, <1>3, <1>4, <1>5, <1>6 DEF Next

\* The ROOT files behave as the directory promises its readers: a saved event
\* never changes or moves, files appear one by one in the order of runs and of
\* their index, whatever is opened, rotated, killed and started again.
THEOREM ImplementsDirectoryHolds == Spec => ImplementsDirectory
<1>1. Init => IInv /\ Directory!Init BY InitIInv
<1>2. IInv /\ [Next]_vars => IInv' /\ [Exhausted' \/ Directory!Next]_SavedFiles
  BY NextIInv DEF Seeing, Full, Exhausted
<1> QED BY <1>1, <1>2, PTL DEF Spec, ImplementsDirectory

\* What is counted, timed and joined holds initially, and every step keeps it.
History == Counting /\ Spanning /\ Timing /\ Partition

LEMMA InitHistory == Init => History
<1> SUFFICES ASSUME Init PROVE History
  OBVIOUS
<1>1. Counting BY DEF Init, Counting
<1>2. Spanning BY DEF Init, Spanning, Begun
<1>3. Timing
  <2>1. DOMAIN files = {} BY EmptySeq DEF Init
  <2> QED BY <2>1 DEF Init, Timing
<1>4. Partition
  <2>1. RowsOf(files) = <<>>
    <3>1. files = <<>> BY DEF Init
    <3> QED BY <3>1 DEF RowsOf
  <2>2. FlattenSeq(<<>>) = <<>> BY EmptySeq DEF FlattenSeq
  <2> QED BY <2>1, <2>2 DEF Partition, Init
<1> QED BY <1>1, <1>2, <1>3, <1>4 DEF History

LEMMA InitBounds == Init => Scalars /\ Growth
<1> SUFFICES ASSUME Init PROVE Scalars /\ Growth
  OBVIOUS
<1>1. files = <<>> /\ taken = <<>> BY DEF Init
<1>2. /\ pc = "idle" /\ bpc = "done" /\ open = FALSE /\ stopEventBuilder = FALSE
      /\ currentRun = -1 /\ fileIndex = 0 /\ clock = 0 /\ runStartTime = 0 /\ runEndTime = 0
      /\ lastTimeSaved = 0 /\ timestamp = 0 /\ storedEvents = 0
      /\ opens = 0 /\ runs = 0 /\ kills = 0
  BY DEF Init
<1>3. 0 \in Time /\ -1 \in -1..LastRun + 1 /\ MaxEvents \in Nat
  BY SizeAssumption, BoundAssumption DEF Time
<1>4. Scalars
  <2>1. 0 \in 0..MaxOpens /\ 0 \in 0..MaxRuns /\ 0 \in 0..MaxKills BY BoundAssumption
  <2> QED BY <1>2, <1>3, <2>1 DEF Scalars
<1>5. Growth
  <2>1. DOMAIN files = {} /\ taken \in Seq(Row) /\ Len(taken) = 0 BY <1>1, EmptySeq
  <2> QED BY <1>2, <1>3, <2>1 DEF Growth
<1> QED BY <1>4, <1>5

LEMMA InvariantHolds == Spec => [](IInv /\ History)
<1>1. Init => IInv /\ History BY InitIInv, InitHistory
<1>2. IInv /\ History /\ [Next]_vars => (IInv /\ History)'
  <2> SUFFICES ASSUME IInv, History, [Next]_vars PROVE IInv' /\ History'
    OBVIOUS
  <2>1. IInv' BY NextIInv
  <2>2. Counting' /\ Spanning' BY CountingStep, SpanningStep DEF History
  <2>3. Timing' /\ Partition' BY TimingStep, PartitionStep DEF History
  <2> QED BY <2>1, <2>2, <2>3 DEF History
<1> QED BY <1>1, <1>2, PTL DEF Spec

\* A kill loses less than SaveEvery events, within SaveAfter seconds.
THEOREM KillLosesLittleHolds == Spec => []KillLosesLittle
<1>1. IInv /\ History => KillLosesLittle BY LittleIsLost DEF History
<1> QED BY <1>1, InvariantHolds, PTL

\* The start and end times of a file that one run wrote enclose its events.
THEOREM TimesBracketHolds == Spec => []TimesBracket
<1>1. IInv /\ History => TimesBracket BY TimesAreKept DEF History
<1> QED BY <1>1, InvariantHolds, PTL

\* Every event that no kill took is in one file, in order.
THEOREM FilesPartitionHolds == Spec => []FilesPartition
<1>1. IInv /\ History => FilesPartition
  BY DEF History, Partition, FilesPartition, Exhausted, Full, RowsOf
<1> QED BY <1>1, InvariantHolds, PTL

\* Every variable has its type, within the bounds.
THEOREM TypeCorrect == Spec => []TypeOK
<1>1. Init => IInv /\ Scalars /\ Growth BY InitIInv, InitBounds
<1>2. IInv /\ Scalars /\ Growth /\ [Next]_vars => (IInv /\ Scalars /\ Growth)'
  BY NextIInv, ScalarsStep, GrowthStep
<1>3. IInv /\ Scalars /\ Growth => TypeOK BY TypesFollow
<1> QED BY <1>1, <1>2, <1>3, PTL DEF Spec
===============================================================================
