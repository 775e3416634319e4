------------------------------ MODULE DataFacts ------------------------------
(***************************************************************************)
(* Facts about data that several components need.  The least and the       *)
(* largest of a set of numbers: the builders look for the first end of     *)
(* event of a buffer, fopen for the last run on the disk.  Sequences that  *)
(* are joined: the files of all runs, and the events that a display has    *)
(* shown of them.                                                          *)
(***************************************************************************)
EXTENDS SequencesExt, SequenceTheorems, WellFoundedInduction, TLAPS

\* The naturals are well ordered, in the form that the next lemma uses.
LEMMA NatOrder == IsWellFoundedOn({s \in Nat \X Nat : s[1] < s[2]}, Nat)
  BY NatLessThanWellFounded, Zenon DEF OpToRel

\* Min returns the least element of a nonempty set of naturals, finite or not.
LEMMA MinOfNats ==
  ASSUME NEW T, T \subseteq Nat, T # {}
  PROVE  Min(T) \in T /\ \A y \in T : Min(T) <= y
<1> DEFINE R == {s \in Nat \X Nat : s[1] < s[2]}
<1>1. PICK x \in T : \A y \in T : ~(<<y, x>> \in R)
  <2>1. IsWellFoundedOn(R, Nat)
    BY NatOrder
  <2> HIDE DEF R
  <2>. QED BY <2>1, WFMin
<1>2. ASSUME NEW y \in T PROVE x <= y
  <2>1. x \in Nat /\ y \in Nat
    OBVIOUS
  <2>2. y < x => <<y, x>> \in R
    BY <2>1
  <2> HIDE DEF R
  <2>. QED BY <1>1, <2>1, <2>2
<1>. QED BY <1>2 DEF Min

\* Max returns the largest element of a nonempty set of bounded naturals.
LEMMA MaxOfNumbers ==
  ASSUME NEW n \in Nat, NEW T, T \subseteq 0..n, T # {}
  PROVE  Max(T) \in T /\ \A y \in T : Max(T) >= y
<1> DEFINE U == {n - x : x \in T}
<1>1. U \subseteq Nat /\ U # {}
  <2>1. \A x \in 0..n : n - x \in Nat
    OBVIOUS
  <2>2. \A x \in T : n - x \in Nat
    BY <2>1
  <2>. QED BY <2>2
<1>2. Min(U) \in U /\ \A y \in U : Min(U) <= y
  <2> HIDE DEF U
  <2>. QED BY <1>1, MinOfNats
<1>3. PICK x \in T : \A y \in U : n - x <= y
  BY <1>2
<1>4. ASSUME NEW y \in T PROVE x >= y
  <2>1. n - x <= n - y
    BY <1>3
  <2>2. x \in Int /\ y \in Int
    OBVIOUS
  <2>. QED BY <2>1, <2>2
<1>. QED BY <1>4 DEF Max

(***************************************************************************)
(* Sequences that are joined to one (FlattenSeq).                          *)
(***************************************************************************)
\* f[i] is the concatenation of the first i of the n first sequences of ss.
Joins(ss, n, f) == f = [i \in 1..n |-> IF i = 1 THEN ss[i] ELSE f[i - 1] \o ss[i]]

\* The first sequences are joined step by step: there is such a function.
LEMMA JoinExists == ASSUME NEW ss, NEW n \in Nat PROVE \E f : Joins(ss, n, f)
<1> DEFINE B == {k \in Nat : ~\E f : Joins(ss, k, f)}
<1> SUFFICES ASSUME B # {} PROVE FALSE OBVIOUS
<1>1. PICK m \in B : \A k \in B : m <= k
  <2>1. B \subseteq Nat OBVIOUS
  <2> HIDE DEF B
  <2> QED BY <2>1, MinOfNats
<1>2. m \in Nat /\ ~\E f : Joins(ss, m, f) OBVIOUS
<1>3. m # 0
  <2> DEFINE f == [i \in {} |-> i]
  <2>1. 1..0 = {} OBVIOUS
  <2>2. Joins(ss, 0, f)
    BY <2>1 DEF Joins
  <2> QED BY <1>2, <2>2
<1>4. m - 1 \in Nat /\ ~(m <= m - 1)
  BY <1>2, <1>3
<1>5. PICK f : Joins(ss, m - 1, f)
  BY <1>1, <1>4
<1> DEFINE g == [i \in 1..m |-> IF i < m THEN f[i]
                                ELSE IF i = 1 THEN ss[i] ELSE f[i - 1] \o ss[i]]
           h == [i \in 1..m |-> IF i = 1 THEN ss[i] ELSE g[i - 1] \o ss[i]]
<1>6. ASSUME NEW i \in 1..m PROVE g[i] = h[i]
  <2>1. i # 1 => i - 1 \in 1..m /\ i - 1 < m /\ g[i - 1] = f[i - 1]
    BY <1>2
  <2>2. h[i] = IF i = 1 THEN ss[i] ELSE f[i - 1] \o ss[i]
    BY <2>1
  <2>3. CASE i < m
    <3>1. i \in 1..m - 1
      BY <1>2, <2>3
    <3>2. f[i] = IF i = 1 THEN ss[i] ELSE f[i - 1] \o ss[i]
      BY <1>5, <3>1 DEF Joins
    <3> QED BY <2>2, <2>3, <3>2
  <2>4. CASE ~(i < m)
    BY <2>2, <2>4
  <2> QED BY <2>3, <2>4
<1>7. g = h
  BY <1>6
<1>8. Joins(ss, m, g)
  BY <1>7 DEF Joins
<1> QED BY <1>2, <1>8

\* What comes later does not change how the first sequences are joined.
LEMMA JoinUnique ==
  ASSUME NEW ss, NEW tt, NEW n \in Nat, NEW m \in Nat, n <= m,
         \A i \in 1..n : ss[i] = tt[i], NEW f, NEW g, Joins(ss, n, f), Joins(tt, m, g)
  PROVE \A i \in 1..n : f[i] = g[i]
<1> DEFINE B == {i \in 1..n : f[i] # g[i]}
<1> SUFFICES ASSUME B # {} PROVE FALSE OBVIOUS
<1>1. PICK k \in B : \A i \in B : k <= i
  <2>1. B \subseteq Nat OBVIOUS
  <2> HIDE DEF B
  <2> QED BY <2>1, MinOfNats
<1>2. k \in 1..n /\ k \in 1..m /\ f[k] # g[k] OBVIOUS
<1>3. /\ f[k] = IF k = 1 THEN ss[k] ELSE f[k - 1] \o ss[k]
      /\ g[k] = IF k = 1 THEN tt[k] ELSE g[k - 1] \o tt[k]
  BY <1>2 DEF Joins
<1>4. k # 1 => k - 1 \in 1..n /\ ~(k <= k - 1)
  BY <1>2
<1>5. k # 1 => f[k - 1] = g[k - 1]
  BY <1>1, <1>4
<1> QED BY <1>2, <1>3, <1>5

\* Joining sequences of elements of S gives such a sequence.
LEMMA JoinType ==
  ASSUME NEW S, NEW ss \in Seq(Seq(S)), NEW f, Joins(ss, Len(ss), f)
  PROVE \A i \in 1..Len(ss) : f[i] \in Seq(S)
<1> DEFINE n == Len(ss)
           B == {i \in 1..n : f[i] \notin Seq(S)}
<1> SUFFICES ASSUME B # {} PROVE FALSE OBVIOUS
<1>0. n \in Nat /\ \A i \in 1..n : ss[i] \in Seq(S)
  BY LenProperties, ElementOfSeq
<1>1. PICK k \in B : \A i \in B : k <= i
  <2>1. B \subseteq Nat
    BY <1>0
  <2> HIDE DEF B
  <2> QED BY <2>1, MinOfNats
<1>2. k \in 1..n /\ f[k] \notin Seq(S) OBVIOUS
<1>3. f[k] = IF k = 1 THEN ss[k] ELSE f[k - 1] \o ss[k]
  BY <1>2 DEF Joins
<1>4. k # 1 => k - 1 \in 1..n /\ ~(k <= k - 1)
  BY <1>0, <1>2
<1>5. k # 1 => f[k - 1] \in Seq(S)
  BY <1>1, <1>4
<1>6. k # 1 => f[k - 1] \o ss[k] \in Seq(S)
  BY <1>0, <1>2, <1>5, ConcatProperties
<1> QED BY <1>0, <1>2, <1>3, <1>6

\* FlattenSeq of a longer sequence adds its last element at the end.
LEMMA FlattenAppend ==
  ASSUME NEW S, NEW ss \in Seq(Seq(S)), NEW s \in Seq(S)
  PROVE /\ FlattenSeq(ss) \in Seq(S) /\ FlattenSeq(Append(ss, s)) = FlattenSeq(ss) \o s
<1> DEFINE n == Len(ss)
           t == Append(ss, s)
           F(tt) == CHOOSE f : Joins(tt, Len(tt), f)
<1>1. /\ n \in Nat /\ t \in Seq(Seq(S)) /\ Len(t) = n + 1 /\ t[n + 1] = s
      /\ \A i \in 1..n : t[i] = ss[i]
  BY LenProperties, AppendProperties
<1>2. \A tt : FlattenSeq(tt) = IF Len(tt) = 0 THEN tt ELSE F(tt)[Len(tt)]
  BY DEF FlattenSeq, Joins
<1>3. \A tt \in Seq(Seq(S)) : Joins(tt, Len(tt), F(tt))
  <2> SUFFICES ASSUME NEW tt \in Seq(Seq(S)) PROVE Joins(tt, Len(tt), F(tt)) OBVIOUS
  <2>1. \E f : Joins(tt, Len(tt), f)
    BY LenProperties, JoinExists
  <2> QED BY <2>1
<1> HIDE DEF F, t, n
<1>4. FlattenSeq(t) = F(t)[n + 1] /\ F(t)[n + 1] = IF n = 0 THEN s ELSE F(t)[n] \o s
  <2>1. FlattenSeq(t) = F(t)[n + 1]
    BY <1>1, <1>2
  <2>2. Joins(t, n + 1, F(t))
    BY <1>1, <1>3
  <2>3. n + 1 \in 1..n + 1 /\ (n + 1) - 1 = n /\ (n + 1 = 1 <=> n = 0)
    BY <1>1
  <2>4. F(t)[n + 1] = IF n + 1 = 1 THEN t[n + 1] ELSE F(t)[(n + 1) - 1] \o t[n + 1]
    BY <2>2, <2>3 DEF Joins
  <2> QED BY <1>1, <2>1, <2>3, <2>4
<1>5. CASE n = 0
  <2>1. FlattenSeq(ss) = ss
    BY <1>2, <1>5 DEF n
  <2>2. ss = <<>>
    <3>1. \A r \in Seq(Seq(S)) : Len(r) = 0 => r = <<>>
      BY EmptySeq
    <3> QED BY <1>5, <3>1 DEF n
  <2>3. <<>> \in Seq(S) /\ <<>> \o s = s
    BY EmptySeq, ConcatEmptySeq
  <2> QED BY <1>4, <1>5, <2>1, <2>2, <2>3 DEF t
<1>6. CASE n # 0
  <2>1. FlattenSeq(ss) = F(ss)[n] /\ n \in 1..n
    BY <1>1, <1>2, <1>6 DEF n
  <2>2. Joins(ss, n, F(ss)) /\ Joins(t, n + 1, F(t)) /\ n <= n + 1 /\ n + 1 \in Nat
    BY <1>1, <1>3 DEF n
  <2>3. \A i \in 1..n : F(ss)[i] = F(t)[i]
    <3>1. PICK a, b : a = F(ss) /\ b = F(t)
      OBVIOUS
    <3>2. Joins(ss, n, a) /\ Joins(t, n + 1, b)
      BY <2>2, <3>1
    <3>3. \A i \in 1..n : ss[i] = t[i]
      BY <1>1
    <3>4. n \in Nat /\ n + 1 \in Nat /\ n <= n + 1
      BY <1>1
    <3>5. \A i \in 1..n : a[i] = b[i]
      BY <3>2, <3>3, <3>4, JoinUnique, SMT
    <3> QED BY <3>1, <3>5
  <2>4. F(ss)[n] \in Seq(S)
    BY <2>1, <2>2, JoinType DEF n
  <2> QED BY <1>4, <1>6, <2>1, <2>3, <2>4 DEF t
<1> QED BY <1>5, <1>6

\* Induction up to n, for a set of numbers.
LEMMA UpTo ==
  ASSUME NEW n \in Nat, NEW B \in SUBSET (0..n), 0 \in B,
         \A k \in 0..n - 1 : k \in B => k + 1 \in B
  PROVE n \in B
<1> DEFINE C == {k \in 0..n : k \notin B}
<1> SUFFICES ASSUME n \notin B PROVE FALSE OBVIOUS
<1>1. PICK m \in C : \A k \in C : m <= k
  <2>1. C \subseteq Nat /\ n \in C OBVIOUS
  <2> HIDE DEF C
  <2> QED BY <2>1, MinOfNats
<1>2. m \in 0..n /\ m \notin B OBVIOUS
<1>3. m # 0 BY <1>2
<1>4. m - 1 \in 0..n - 1 /\ m - 1 \in 0..n /\ ~(m <= m - 1) /\ m - 1 + 1 = m
  <2> HIDE DEF C
  <2> QED BY <1>2, <1>3
<1>5. m - 1 \in B BY <1>1, <1>4
<1> QED BY <1>2, <1>4, <1>5

\* The first elements of a sequence, from none to all.
LEMMA Firsts ==
  ASSUME NEW S, NEW s \in Seq(S)
  PROVE /\ SubSeq(s, 1, 0) = <<>> /\ SubSeq(s, 1, Len(s)) = s
        /\ \A k \in 0..Len(s) : SubSeq(s, 1, k) \in Seq(S)
        /\ \A k \in 0..Len(s) - 1 :
             /\ k + 1 \in 1..Len(s) /\ s[k + 1] \in S
             /\ SubSeq(s, 1, k + 1) = Append(SubSeq(s, 1, k), s[k + 1])
OBVIOUS

LEMMA FlattenNone == FlattenSeq(<<>>) = <<>>
BY DEF FlattenSeq

\* FlattenSeq of sequences without elements has none.
LEMMA FlattenEmpty ==
  ASSUME NEW S, NEW ss \in Seq(Seq(S)), \A i \in 1..Len(ss) : ss[i] = <<>>
  PROVE FlattenSeq(ss) = <<>>
<1> DEFINE n == Len(ss)
           B == {k \in 0..n : FlattenSeq(SubSeq(ss, 1, k)) = <<>>}
<1>0. n \in Nat BY LenProperties
<1>1. n \in Nat /\ 0 \in B
  <2>1. SubSeq(ss, 1, 0) = <<>> BY Firsts
  <2>2. FlattenSeq(SubSeq(ss, 1, 0)) = <<>> BY <2>1, FlattenNone
  <2>3. 0 \in 0..n BY <1>0
  <2> QED BY <1>0, <2>2, <2>3
<1>2. ASSUME NEW k \in 0..n - 1, k \in B PROVE k + 1 \in B
  <2> DEFINE a == SubSeq(ss, 1, k)
  <2>1. /\ k + 1 \in 1..n /\ a \in Seq(Seq(S)) /\ ss[k + 1] = <<>>
        /\ SubSeq(ss, 1, k + 1) = Append(a, <<>>)
    BY <1>1, Firsts
  <2>2. k + 1 \in 0..n BY <1>1
  <2>3. FlattenSeq(a) = <<>> BY <1>2
  <2> HIDE DEF a
  <2>4. <<>> \in Seq(S) /\ FlattenSeq(Append(a, <<>>)) = FlattenSeq(a) \o <<>>
    <3>1. <<>> \in Seq(S) OBVIOUS
    <3> QED BY <2>1, <3>1, FlattenAppend
  <2>5. FlattenSeq(Append(a, <<>>)) = <<>> BY <2>3, <2>4
  <2> QED BY <2>1, <2>2, <2>5
<1>3. n \in B
  <2>1. B \in SUBSET (0..n) OBVIOUS
  <2> HIDE DEF B, n
  <2> QED BY <1>1, <1>2, <2>1, UpTo
<1> QED BY <1>3, Firsts

\* FlattenSeq of single elements is the sequence of these elements.
LEMMA FlattenSingles ==
  ASSUME NEW S, NEW s \in Seq(S), NEW ss \in Seq(Seq(S)), Len(ss) = Len(s),
         \A i \in 1..Len(s) : ss[i] = <<s[i]>>
  PROVE FlattenSeq(ss) = s
<1> DEFINE n == Len(s)
           B == {k \in 0..n : FlattenSeq(SubSeq(ss, 1, k)) = SubSeq(s, 1, k)}
<1>0. n \in Nat BY LenProperties
<1>1. n \in Nat /\ 0 \in B
  <2>1. SubSeq(ss, 1, 0) = <<>> /\ SubSeq(s, 1, 0) = <<>> BY Firsts
  <2>2. FlattenSeq(SubSeq(ss, 1, 0)) = SubSeq(s, 1, 0) BY <2>1, FlattenNone
  <2>3. 0 \in 0..n BY <1>0
  <2> QED BY <1>0, <2>2, <2>3
<1>2. ASSUME NEW k \in 0..n - 1, k \in B PROVE k + 1 \in B
  <2> DEFINE a == SubSeq(ss, 1, k)
             b == SubSeq(s, 1, k)
  <2>1. /\ k + 1 \in 1..n /\ s[k + 1] \in S /\ ss[k + 1] = <<s[k + 1]>>
        /\ a \in Seq(Seq(S)) /\ b \in Seq(S)
        /\ SubSeq(ss, 1, k + 1) = Append(a, <<s[k + 1]>>)
        /\ SubSeq(s, 1, k + 1) = Append(b, s[k + 1])
    BY <1>1, Firsts
  <2>2. k + 1 \in 0..n BY <1>1
  <2>3. FlattenSeq(a) = b BY <1>2
  <2> HIDE DEF a, b
  <2>4. FlattenSeq(Append(a, <<s[k + 1]>>)) = FlattenSeq(a) \o <<s[k + 1]>>
    <3>1. <<s[k + 1]>> \in Seq(S) BY <2>1
    <3> QED BY <2>1, <3>1, FlattenAppend
  <2>5. b \o <<s[k + 1]>> = Append(b, s[k + 1]) BY <2>1
  <2> QED BY <2>1, <2>2, <2>3, <2>4, <2>5
<1>3. n \in B
  <2>1. B \in SUBSET (0..n) OBVIOUS
  <2> HIDE DEF B, n
  <2> QED BY <1>1, <1>2, <2>1, UpTo
<1> QED BY <1>3, Firsts

\* FlattenSeq of two sequences, one after the other.
LEMMA FlattenConcat ==
  ASSUME NEW S, NEW ss \in Seq(Seq(S)), NEW tt \in Seq(Seq(S))
  PROVE /\ FlattenSeq(ss) \in Seq(S) /\ FlattenSeq(tt) \in Seq(S)
        /\ FlattenSeq(ss \o tt) = FlattenSeq(ss) \o FlattenSeq(tt)
<1> DEFINE n == Len(tt)
           f == FlattenSeq(ss)
           B == {k \in 0..n : FlattenSeq(ss \o SubSeq(tt, 1, k))
                                = f \o FlattenSeq(SubSeq(tt, 1, k))}
<1>0. <<>> \in Seq(S) OBVIOUS
<1>1. f \in Seq(S) /\ FlattenSeq(tt) \in Seq(S) BY <1>0, FlattenAppend
<1>2. n \in Nat BY LenProperties
<1>3. 0 \in B
  <2>1. ss \o <<>> = ss /\ f \o <<>> = f
    <3> HIDE DEF f
    <3> QED BY <1>1
  <2>2. SubSeq(tt, 1, 0) = <<>> BY Firsts
  <2>3. FlattenSeq(ss \o SubSeq(tt, 1, 0)) = f \o FlattenSeq(SubSeq(tt, 1, 0))
    BY <2>1, <2>2, FlattenNone
  <2>4. 0 \in 0..n BY <1>2
  <2> QED BY <2>3, <2>4
<1>4. ASSUME NEW k \in 0..n - 1, k \in B PROVE k + 1 \in B
  <2> DEFINE a == SubSeq(tt, 1, k)
             x == tt[k + 1]
  <2>1. /\ k + 1 \in 1..n /\ x \in Seq(S) /\ a \in Seq(Seq(S))
        /\ SubSeq(tt, 1, k + 1) = Append(a, x)
    BY <1>2, Firsts
  <2>2. k + 1 \in 0..n BY <1>2
  <2>3. FlattenSeq(ss \o a) = f \o FlattenSeq(a) BY <1>4
  <2> HIDE DEF a, x, f
  <2>4. ss \o Append(a, x) = Append(ss \o a, x) /\ ss \o a \in Seq(Seq(S))
    BY <2>1
  <2>5. /\ FlattenSeq(Append(a, x)) = FlattenSeq(a) \o x /\ FlattenSeq(a) \in Seq(S)
        /\ FlattenSeq(Append(ss \o a, x)) = FlattenSeq(ss \o a) \o x
    <3>1. PICK b : b = ss \o a OBVIOUS
    <3> QED BY <2>1, <2>4, <3>1, FlattenAppend
  <2>6. (f \o FlattenSeq(a)) \o x = f \o (FlattenSeq(a) \o x)
    <3>1. PICK b : b = FlattenSeq(a) OBVIOUS
    <3> QED BY <1>1, <2>1, <2>5, <3>1
  <2> QED BY <2>1, <2>2, <2>3, <2>4, <2>5, <2>6 DEF f
<1>5. n \in B
  <2>1. B \in SUBSET (0..n) OBVIOUS
  <2> HIDE DEF B, n
  <2> QED BY <1>2, <1>3, <1>4, <2>1, UpTo
<1>6. SubSeq(tt, 1, n) = tt BY Firsts
<1> QED BY <1>1, <1>5, <1>6
===============================================================================
