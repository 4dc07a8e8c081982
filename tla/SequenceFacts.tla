---------------------------- MODULE SequenceFacts ----------------------------
(* Facts the proofs about the turn loop rest on: induction over the natural     *)
(* numbers, and what the operators of Subsequences return.                      *)
EXTENDS Subsequences, TLAPS, FiniteSetTheorems, SequenceTheorems

---------------------------------------------------------------------------
(* Induction *)

\* A set of natural numbers that is not empty has a least element.
LEMMA LeastNumber ==
  ASSUME NEW S \in SUBSET Nat, S # {}
  PROVE  \E m \in S : \A k \in S : m <= k
<1> DEFINE T == {0..m : m \in S}
<1>1. T \subseteq FiniteSubsetsOf(Nat)
  <2> SUFFICES ASSUME NEW m \in S PROVE IsFiniteSet(0..m) /\ 0..m \subseteq Nat
    BY DEF FiniteSubsetsOf
  <2>1. m \in Int /\ 0 \in Int
    OBVIOUS
  <2> QED BY <2>1, FS_Interval
<1>2. IsWellFoundedOn(StrictSubsetOrdering(Nat), FiniteSubsetsOf(Nat))
  BY FS_StrictSubsetOrderingWellFounded
<1>3. PICK I \in T : \A J \in T : ~ (<<J, I>> \in StrictSubsetOrdering(Nat))
  <2> HIDE DEF T
  <2>1. T # {}
    BY DEF T
  <2> QED BY ONLY <1>1, <1>2, <2>1, WFMin
<1>4. PICK m \in S : I = 0..m
  OBVIOUS
<1>5. ASSUME NEW k \in S, k < m PROVE FALSE
  <2>1. 0..k \in T
    OBVIOUS
  <2>2. m \in 0..m /\ m \notin 0..k
    BY <1>5
  <2>3. 0..k \subseteq 0..m
    BY <1>5
  <2>4. <<0..k, 0..m>> \in StrictSubsetOrdering(Nat)
    BY <2>2, <2>3 DEF StrictSubsetOrdering
  <2> QED BY <1>3, <1>4, <2>1, <2>4
<1> QED BY <1>5

\* Induction over the numbers up to n, with the set of those a statement holds of.
LEMMA Induction ==
  ASSUME NEW n \in Nat, NEW S, 0 \in S, \A k \in 0..(n - 1) : k \in S => k + 1 \in S
  PROVE  0..n \subseteq S
<1> SUFFICES ASSUME (0..n) \ S # {} PROVE FALSE
  OBVIOUS
<1>1. PICK m \in (0..n) \ S : \A k \in (0..n) \ S : m <= k
  <2>1. (0..n) \ S \in SUBSET Nat
    OBVIOUS
  <2> QED BY <2>1, LeastNumber
<1>2. m # 0 /\ m - 1 \in 0..(n - 1)
  BY <1>1
<1>3. m - 1 \in S
  BY <1>1, <1>2
<1> QED BY <1>1, <1>2, <1>3
---------------------------------------------------------------------------
(* Subsequences *)

\* The recursion of Joined has a solution for the parts in q, up to the n-th.
Joins(q, n, f) ==
    f = [k \in 0..n |-> IF k = 0 THEN <<>> ELSE f[k - 1] \o q[k]]

LEMMA JoinsExist ==
  ASSUME NEW q, NEW N \in Nat
  PROVE  \E f : Joins(q, N, f)
<1> DEFINE S == {n \in Nat : \E f : Joins(q, n, f)}
<1>1. 0 \in S
  <2>1. Joins(q, 0, [k \in 0..0 |-> <<>>])
    BY DEF Joins
  <2> QED BY <2>1
<1>2. ASSUME NEW n \in 0..(N - 1), n \in S PROVE n + 1 \in S
  <2>1. PICK f : Joins(q, n, f)
    BY <1>2
  <2> DEFINE g == [k \in 0..(n + 1) |-> IF k = n + 1 THEN f[n] \o q[k] ELSE f[k]]
             h == [k \in 0..(n + 1) |-> IF k = 0 THEN <<>> ELSE g[k - 1] \o q[k]]
  <2>2. ASSUME NEW k \in 0..(n + 1) PROVE g[k] = h[k]
    <3>1. CASE k = n + 1
      <4>1. g[k - 1] = f[n] /\ k # 0
        BY <3>1
      <4> QED BY <3>1, <4>1
    <3>2. CASE k \in 1..n
      <4>1. g[k] = f[k] /\ g[k - 1] = f[k - 1] /\ k # 0 /\ k \in 0..n
        BY <3>2
      <4>2. f[k] = f[k - 1] \o q[k]
        BY <2>1, <4>1 DEF Joins
      <4> QED BY <4>1, <4>2
    <3>3. CASE k = 0
      <4>1. f[0] = <<>>
        BY <2>1 DEF Joins
      <4> QED BY <3>3, <4>1
    <3> QED BY <3>1, <3>2, <3>3
  <2>3. g = h
    BY <2>2
  <2> HIDE DEF g
  <2>4. Joins(q, n + 1, g)
    BY <2>3 DEF Joins
  <2>5. n + 1 \in Nat
    OBVIOUS
  <2> QED BY <2>4, <2>5
<1> HIDE DEF S
<1>3. 0..N \subseteq S
  BY <1>1, <1>2, Induction
<1> QED BY <1>3 DEF S

\* Joined by its recursion: what the first parts give.
IsJoin(a, b, c) == a = b \o c
JoinedSteps(T, q, N, whole, f) ==
    /\ f \in [0..N -> Seq(T)] /\ f[0] = <<>> /\ whole = f[N]
    /\ \A n \in 1..N : IsJoin(f[n], f[n - 1], q[n])

LEMMA JoinsSteps ==
  ASSUME NEW T, NEW N \in Nat, NEW q, \A n \in 1..N : q[n] \in Seq(T), NEW f, Joins(q, N, f)
  PROVE  JoinedSteps(T, q, N, f[N], f)
<1>1. f[0] = <<>> /\ DOMAIN f = 0..N
  BY DEF Joins
<1>2. ASSUME NEW n \in 1..N PROVE IsJoin(f[n], f[n - 1], q[n])
  <2>1. n \in 0..N /\ n # 0
    OBVIOUS
  <2> QED BY <2>1 DEF Joins, IsJoin
<1> DEFINE S == {n \in Nat : f[n] \in Seq(T)}
<1>3. 0 \in S
  <2>1. <<>> \in Seq(T)
    OBVIOUS
  <2> QED BY <1>1, <2>1
<1>4. ASSUME NEW k \in 0..(N - 1), k \in S PROVE k + 1 \in S
  <2>1. k + 1 \in 1..N /\ k + 1 - 1 = k /\ k + 1 \in Nat
    OBVIOUS
  <2>2. f[k + 1] = f[k] \o q[k + 1]
    <3>1. IsJoin(f[k + 1], f[k], q[k + 1])
      BY <1>2, <2>1
    <3> QED BY <3>1 DEF IsJoin
  <2>3. f[k] \in Seq(T) /\ q[k + 1] \in Seq(T)
    BY <1>4, <2>1
  <2>4. f[k + 1] \in Seq(T)
    BY <2>2, <2>3
  <2> QED BY <2>1, <2>4
<1> HIDE DEF S
<1>5. 0..N \subseteq S
  BY <1>3, <1>4, Induction
<1>6. f = [n \in 0..N |-> f[n]]
  BY DEF Joins
<1>7. f \in [0..N -> Seq(T)]
  BY <1>5, <1>6 DEF S
<1> QED BY <1>1, <1>2, <1>7 DEF JoinedSteps

\* Sub by its recursion: what is selected of each prefix.
Steps(T, s, at, f) ==
    /\ f \in [0..Len(s) -> Seq(T)] /\ f[0] = <<>> /\ Sub(s, at) = f[Len(s)]
    /\ \A n \in 1..Len(s) : f[n] = IF n \in at THEN Append(f[n - 1], s[n]) ELSE f[n - 1]

LEMMA SubSteps ==
  ASSUME NEW T, NEW s \in Seq(T), NEW at
  PROVE  \E f : Steps(T, s, at, f)
<1>1. Len(s) \in Nat
  OBVIOUS
<1> DEFINE q == [k \in 1..Len(s) |-> IF k \in at THEN <<s[k]>> ELSE <<>>]
           Solves(g) == g = [k \in 0..Len(s) |-> IF k = 0 THEN <<>>
                               ELSE g[k - 1] \o (IF k \in at THEN <<s[k]>> ELSE <<>>)]
           f == CHOOSE g : Solves(g)
<1>2. \A n \in 1..Len(s) : q[n] \in Seq(T)
  OBVIOUS
<1>3. \A g : Joins(q, Len(s), g) <=> Solves(g)
  <2> TAKE g
  <2>1. ASSUME NEW k \in 0..Len(s)
        PROVE  (IF k = 0 THEN <<>> ELSE g[k - 1] \o q[k])
                 = (IF k = 0 THEN <<>>
                    ELSE g[k - 1] \o (IF k \in at THEN <<s[k]>> ELSE <<>>))
    <3>1. CASE k = 0
      BY <3>1
    <3>2. CASE k # 0
      <4>1. k \in 1..Len(s)
        BY <1>1, <3>2
      <4>2. q[k] = IF k \in at THEN <<s[k]>> ELSE <<>>
        BY <4>1
      <4> HIDE DEF q
      <4> QED BY <3>2, <4>2
    <3> QED BY <3>1, <3>2
  <2> HIDE DEF q
  <2>2. [k \in 0..Len(s) |-> IF k = 0 THEN <<>> ELSE g[k - 1] \o q[k]]
          = [k \in 0..Len(s) |-> IF k = 0 THEN <<>>
                               ELSE g[k - 1] \o (IF k \in at THEN <<s[k]>> ELSE <<>>)]
    BY <2>1
  <2> QED BY <2>2 DEF Joins
<1>4. Sub(s, at) = f[Len(s)]
  BY DEF Sub, Joined
<1> HIDE DEF q, Solves
<1>5. \E g : Solves(g)
  BY <1>1, <1>3, JoinsExist
<1>6. Solves(f)
  BY <1>5
<1> HIDE DEF f
<1>7. JoinedSteps(T, q, Len(s), f[Len(s)], f)
  BY <1>1, <1>2, <1>3, <1>6, JoinsSteps
<1>8. ASSUME NEW n \in 1..Len(s)
      PROVE  f[n] = IF n \in at THEN Append(f[n - 1], s[n]) ELSE f[n - 1]
  <2>1. f[n] = f[n - 1] \o q[n]
    BY <1>7 DEF JoinedSteps, IsJoin
  <2>2. PICK r \in Seq(T) : r = f[n - 1]
    <3>1. n - 1 \in 0..Len(s)
      BY <1>1
    <3> QED BY <1>7, <3>1 DEF JoinedSteps
  <2>3. q[n] = IF n \in at THEN <<s[n]>> ELSE <<>>
    BY DEF q
  <2>4. s[n] \in T
    OBVIOUS
  <2>5. r \o <<s[n]>> = Append(r, s[n]) /\ r \o <<>> = r
    BY <2>4, AppendIsConcat, ConcatEmptySeq
  <2> QED BY <2>1, <2>2, <2>3, <2>5
<1> QED BY <1>4, <1>7, <1>8 DEF Steps, JoinedSteps

\* What is selected is a sequence of elements of the same set.
LEMMA SubType ==
  ASSUME NEW T, NEW s \in Seq(T), NEW at
  PROVE  Sub(s, at) \in Seq(T)
<1>1. Len(s) \in 0..Len(s)
  BY LenProperties
<1>2. PICK f : Steps(T, s, at, f)
  BY SubSteps
<1> QED BY <1>1, <1>2 DEF Steps

AppendsToConcat(a, b, x) == Append(a \o b, x) = a \o Append(b, x)

LEMMA AppendToConcat == \A T : \A a, b \in Seq(T) : \A x \in T : AppendsToConcat(a, b, x)
<1> SUFFICES ASSUME NEW T, NEW a \in Seq(T), NEW b \in Seq(T), NEW x \in T
             PROVE  Append(a \o b, x) = a \o Append(b, x)
  BY DEF AppendsToConcat
<1>1. <<x>> \in Seq(T)
  OBVIOUS
<1>2. Append(b, x) = b \o <<x>> /\ Append(a \o b, x) = (a \o b) \o <<x>>
  BY <1>1, AppendIsConcat
<1>3. (a \o b) \o <<x>> = a \o (b \o <<x>>)
  BY <1>1, ConcatAssociative
<1> QED BY <1>2, <1>3

\* The order in which three sequences are joined does not matter.
Associates(a, b, c) == a \o (b \o c) = (a \o b) \o c

LEMMA JoinAssociates == \A T : \A a, b, c \in Seq(T) : Associates(a, b, c)
<1> SUFFICES ASSUME NEW T, NEW a \in Seq(T), NEW b \in Seq(T), NEW c \in Seq(T)
             PROVE  a \o (b \o c) = (a \o b) \o c
  BY DEF Associates
<1> QED BY ConcatAssociative

\* What is selected of a concatenation, part by part.
LEMMA SubConcat ==
  ASSUME NEW T, NEW s \in Seq(T), NEW t \in Seq(T), NEW at, NEW bt, NEW ct,
         \A i \in 1..Len(s) : i \in ct <=> i \in at,
         \A i \in 1..Len(t) : Len(s) + i \in ct <=> i \in bt
  PROVE  IsJoin(Sub(s \o t, ct), Sub(s, at), Sub(t, bt))
<1>1. /\ Len(s) \in Nat /\ Len(t) \in Nat /\ s \o t \in Seq(T)
      /\ Len(s \o t) = Len(s) + Len(t)
  BY ConcatProperties
<1>2. PICK f : Steps(T, s, at, f)
  BY SubSteps
<1>3. PICK g : Steps(T, t, bt, g)
  BY SubSteps
<1> DEFINE u == s \o t
<1>4. PICK h : Steps(T, u, ct, h)
  BY <1>1, SubSteps
<1> DEFINE R == {n \in Nat : h[n] = f[n]}
           S == {n \in Nat : h[Len(s) + n] = f[Len(s)] \o g[n]}
<1>5. 0 \in R
  BY <1>2, <1>4 DEF Steps
<1>6. ASSUME NEW k \in 0..(Len(s) - 1), k \in R PROVE k + 1 \in R
  <2>1. k + 1 \in 1..Len(s) /\ k + 1 - 1 = k /\ k + 1 \in 1..Len(u) /\ k + 1 \in Nat
    BY <1>1
  <2>2. u[k + 1] = s[k + 1]
    BY <2>1, ConcatProperties
  <2>3. h[k + 1] = IF k + 1 \in ct THEN Append(h[k + 1 - 1], u[k + 1]) ELSE h[k + 1 - 1]
    BY <1>4, <2>1 DEF Steps
  <2>4. f[k + 1] = IF k + 1 \in at THEN Append(f[k + 1 - 1], s[k + 1]) ELSE f[k + 1 - 1]
    BY <1>2, <2>1 DEF Steps
  <2>5. h[k] = f[k]
    BY <1>6
  <2> QED BY <2>1, <2>2, <2>3, <2>4, <2>5
<1>7. h[Len(s)] = f[Len(s)]
  <2> HIDE DEF R
  <2>1. 0..Len(s) \subseteq R
    BY <1>1, <1>5, <1>6, Induction
  <2> QED BY <1>1, <2>1 DEF R
<1>8. 0 \in S
  <2>1. f[Len(s)] \in Seq(T)
    BY <1>1, <1>2 DEF Steps
  <2>2. f[Len(s)] \o <<>> = f[Len(s)]
    BY <2>1, ConcatEmptySeq
  <2>3. Len(s) + 0 = Len(s) /\ g[0] = <<>>
    BY <1>1, <1>3 DEF Steps
  <2> QED BY <1>7, <2>2, <2>3
<1>9. ASSUME NEW k \in 0..(Len(t) - 1), k \in S PROVE k + 1 \in S
  <2> DEFINE m == Len(s) + k + 1
  <2>1. /\ k + 1 \in 1..Len(t) /\ k + 1 - 1 = k /\ m \in 1..Len(u) /\ k + 1 \in Nat
        /\ m - 1 = Len(s) + k /\ m = Len(s) + (k + 1) /\ k \in 0..Len(t)
    BY <1>1
  <2>2. u[m] = t[k + 1]
    BY <1>1, <2>1, ConcatProperties
  <2>3. h[m] = IF m \in ct THEN Append(h[m - 1], u[m]) ELSE h[m - 1]
    BY <1>4, <2>1 DEF Steps
  <2>4. g[k + 1] = IF k + 1 \in bt THEN Append(g[k + 1 - 1], t[k + 1]) ELSE g[k + 1 - 1]
    BY <1>3, <2>1 DEF Steps
  <2>5. h[m - 1] = f[Len(s)] \o g[k]
    BY <1>9, <2>1
  <2>6. /\ f[Len(s)] \in Seq(T) /\ g[k] \in Seq(T) /\ t[k + 1] \in T
    <3>1. Len(s) \in 0..Len(s)
      BY <1>1
    <3>2. f[Len(s)] \in Seq(T)
      BY <1>2, <3>1 DEF Steps
    <3>3. g[k] \in Seq(T)
      BY <1>3, <2>1 DEF Steps
    <3>4. t[k + 1] \in T
      BY <2>1
    <3> QED BY <3>2, <3>3, <3>4
  <2>7. m \in ct <=> k + 1 \in bt
    BY <2>1
  <2>8. Append(f[Len(s)] \o g[k], t[k + 1]) = f[Len(s)] \o Append(g[k], t[k + 1])
    <3>1. AppendsToConcat(f[Len(s)], g[k], t[k + 1])
      BY <2>6, AppendToConcat
    <3> QED BY <3>1 DEF AppendsToConcat
  <2>9. h[m] = f[Len(s)] \o g[k + 1]
    <3> HIDE DEF m
    <3>1. CASE k + 1 \in bt
      <4>1. h[m] = Append(f[Len(s)] \o g[k], t[k + 1])
        BY <2>2, <2>3, <2>5, <2>7, <3>1
      <4>2. g[k + 1] = Append(g[k], t[k + 1])
        BY <2>1, <2>4, <3>1
      <4> QED BY <2>8, <4>1, <4>2
    <3>2. CASE k + 1 \notin bt
      BY <2>1, <2>3, <2>4, <2>5, <2>7, <3>2
    <3> QED BY <3>1, <3>2
  <2> QED BY <2>1, <2>9
<1>10. h[Len(u)] = f[Len(s)] \o g[Len(t)]
  <2> HIDE DEF S
  <2>1. 0..Len(t) \subseteq S
    BY <1>1, <1>8, <1>9, Induction
  <2>2. Len(t) \in S
    BY <1>1, <2>1
  <2> QED BY <1>1, <2>2 DEF S
<1> QED BY <1>2, <1>3, <1>4, <1>10 DEF Steps, IsJoin

LEMMA SubEmpty == \A at : Sub(<<>>, at) = <<>>
<1> TAKE at
<1>1. <<>> \in Seq({}) /\ Len(<<>>) = 0
  OBVIOUS
<1>2. PICK f : Steps({}, <<>>, at, f)
  BY <1>1, SubSteps
<1> QED BY <1>1, <1>2 DEF Steps

\* What is selected of one element.
LEMMA SubOne ==
  ASSUME NEW x, NEW at
  PROVE  Sub(<<x>>, at) = IF 1 \in at THEN <<x>> ELSE <<>>
<1> DEFINE s == <<x>>
<1>1. s \in Seq({x}) /\ Len(s) = 1 /\ s[1] = x /\ 1 \in 1..Len(s)
  OBVIOUS
<1> HIDE DEF s
<1>2. PICK f : Steps({x}, s, at, f)
  BY <1>1, SubSteps
<1>3. f[1] = IF 1 \in at THEN Append(<<>>, x) ELSE <<>>
  BY <1>1, <1>2 DEF Steps
<1>4. Append(<<>>, x) = <<x>>
  OBVIOUS
<1> QED BY <1>1, <1>2, <1>3, <1>4 DEF s, Steps

\* p gives the positions in at, up to n, that the elements of r come from.
Positions(s, at, n, r, p) ==
    /\ p \in [1..Len(r) -> (1..n) \intersect at]
    /\ \A j, k \in 1..Len(r) : j < k => p[j] < p[k]
    /\ \A k \in 1..Len(r) : r[k] = s[p[k]]
    /\ \A i \in (1..n) \intersect at : \E k \in 1..Len(r) : p[k] = i

\* The elements of Sub are those at the positions, each once and in order.
LEMMA SubPositions ==
  ASSUME NEW T, NEW s \in Seq(T), NEW at
  PROVE  \E p : Positions(s, at, Len(s), Sub(s, at), p)
<1>1. PICK f : Steps(T, s, at, f)
  BY SubSteps
<1>2. Len(s) \in Nat /\ \A n \in 0..Len(s) : f[n] \in Seq(T) /\ Len(f[n]) \in Nat
  BY <1>1 DEF Steps
<1> DEFINE S == {n \in Nat : \E p : Positions(s, at, n, f[n], p)}
<1>3. 0 \in S
  <2>1. Positions(s, at, 0, f[0], <<>>)
    BY <1>1 DEF Positions, Steps
  <2> QED BY <2>1
<1>4. ASSUME NEW n \in 0..(Len(s) - 1), n \in S PROVE n + 1 \in S
  <2>1. PICK p : Positions(s, at, n, f[n], p)
    BY <1>4
  <2>2. /\ n + 1 \in Nat /\ n + 1 \in 1..Len(s) /\ n + 1 - 1 = n /\ n \in 0..Len(s)
        /\ s[n + 1] \in T /\ n \in Nat
    BY <1>2
  <2>3. f[n + 1] = IF n + 1 \in at THEN Append(f[n + 1 - 1], s[n + 1]) ELSE f[n + 1 - 1]
    BY <1>1, <2>2 DEF Steps
  <2>4. CASE n + 1 \notin at
    <3>1. f[n + 1] = f[n]
      BY <2>2, <2>3, <2>4
    <3>2. (1..(n + 1)) \intersect at = (1..n) \intersect at
      BY <2>2, <2>4
    <3>3. Positions(s, at, n + 1, f[n + 1], p)
      BY <2>1, <3>1, <3>2 DEF Positions
    <3> QED BY <2>2, <3>3
  <2>5. CASE n + 1 \in at
    <3>1. PICK r \in Seq(T) : r = f[n]
      BY <1>2, <2>2
    <3>2. f[n + 1] = Append(r, s[n + 1])
      BY <2>2, <2>3, <2>5, <3>1
    <3>3. /\ Len(r) \in Nat /\ Len(f[n + 1]) = Len(r) + 1 /\ f[n + 1][Len(r) + 1] = s[n + 1]
          /\ \A k \in 1..Len(r) : f[n + 1][k] = r[k]
      BY <2>2, <3>2, AppendProperties
    <3> DEFINE q == [k \in 1..(Len(r) + 1) |-> IF k <= Len(r) THEN p[k] ELSE n + 1]
    <3>4. Positions(s, at, n, r, p)
      BY <2>1, <3>1
    <3>5. q \in [1..(Len(r) + 1) -> (1..(n + 1)) \intersect at]
      BY <2>2, <2>5, <3>3, <3>4 DEF Positions
    <3>6. ASSUME NEW j \in 1..(Len(r) + 1), NEW k \in 1..(Len(r) + 1), j < k
          PROVE  q[j] < q[k]
      <4>1. j \in 1..Len(r) /\ q[j] = p[j] /\ p[j] \in 1..n
        <5>1. j \in 1..Len(r)
          BY <3>3, <3>6
        <5>2. q[j] = p[j]
          BY <3>3, <5>1
        <5> QED BY <3>4, <5>1, <5>2 DEF Positions
      <4>2. CASE k \in 1..Len(r)
        BY <3>4, <3>6, <4>1, <4>2 DEF Positions
      <4>3. CASE k = Len(r) + 1
        BY <2>2, <3>3, <4>1, <4>3
      <4> QED BY <3>3, <4>2, <4>3
    <3>7. ASSUME NEW k \in 1..(Len(r) + 1) PROVE f[n + 1][k] = s[q[k]]
      BY <3>3, <3>4 DEF Positions
    <3>8. ASSUME NEW i \in (1..(n + 1)) \intersect at
          PROVE  \E k \in 1..(Len(r) + 1) : q[k] = i
      <4>1. CASE i = n + 1
        <5>1. Len(r) + 1 \in 1..(Len(r) + 1) /\ q[Len(r) + 1] = n + 1
          BY <3>3
        <5> QED BY <4>1, <5>1
      <4>2. CASE i \in 1..n
        <5>1. PICK k \in 1..Len(r) : p[k] = i
          BY <3>4, <4>2 DEF Positions
        <5>2. k \in 1..(Len(r) + 1) /\ q[k] = i
          BY <3>3, <5>1
        <5> QED BY <5>2
      <4> QED BY <2>2, <4>1, <4>2
    <3> HIDE DEF q
    <3>9. Positions(s, at, n + 1, f[n + 1], q)
      BY <3>3, <3>5, <3>6, <3>7, <3>8 DEF Positions
    <3> QED BY <2>2, <3>9
  <2> QED BY <2>4, <2>5
<1> HIDE DEF S
<1>5. 0..Len(s) \subseteq S
  BY <1>2, <1>3, <1>4, Induction
<1>6. Len(s) \in S
  BY <1>2, <1>5
<1>7. Sub(s, at) = f[Len(s)]
  BY <1>1 DEF Steps
<1> QED BY <1>6, <1>7 DEF S

\* A position of a concatenation is one of its parts.
InParts(a, b) ==
    /\ Len(a) \in Nat /\ Len(b) \in Nat
    /\ Len(a \o b) = Len(a) + Len(b) /\ DOMAIN (a \o b) = 1..(Len(a) + Len(b))
    /\ DOMAIN a = 1..Len(a) /\ DOMAIN b = 1..Len(b)
    /\ \A i \in 1..Len(a) : (a \o b)[i] = a[i]
    /\ \A i \in 1..Len(b) : (a \o b)[Len(a) + i] = b[i]
    /\ \A i \in 1..(Len(a) + Len(b)) :
         i \in 1..Len(a) \/ \E k \in 1..Len(b) : i = Len(a) + k

LEMMA PartsOf ==
  ASSUME NEW T, NEW a \in Seq(T), NEW b \in Seq(T)
  PROVE  InParts(a, b)
<1>1. /\ a \o b \in Seq(T) /\ Len(a) \in Nat /\ Len(b) \in Nat
      /\ Len(a \o b) = Len(a) + Len(b)
      /\ DOMAIN a = 1..Len(a) /\ DOMAIN b = 1..Len(b)
      /\ \A i \in 1..Len(a) : (a \o b)[i] = a[i]
      /\ \A i \in 1..Len(b) : (a \o b)[Len(a) + i] = b[i]
  OBVIOUS
<1>2. DOMAIN (a \o b) = 1..(Len(a) + Len(b))
  BY <1>1
<1>3. ASSUME NEW i \in 1..(Len(a) + Len(b))
      PROVE  i \in 1..Len(a) \/ \E k \in 1..Len(b) : i = Len(a) + k
  <2>1. i \notin 1..Len(a) => i - Len(a) \in 1..Len(b) /\ i = Len(a) + (i - Len(a))
    BY <1>1
  <2> QED BY <2>1
<1> QED BY <1>1, <1>2, <1>3 DEF InParts

LEMMA Parts ==
  ASSUME NEW T, NEW a \in Seq(T), NEW b \in Seq(T)
  PROVE  /\ a \o b \in Seq(T) /\ Len(a) \in Nat /\ Len(b) \in Nat
         /\ Len(a \o b) = Len(a) + Len(b) /\ DOMAIN (a \o b) = 1..(Len(a) + Len(b))
         /\ DOMAIN a = 1..Len(a) /\ DOMAIN b = 1..Len(b)
         /\ \A i \in 1..Len(a) : (a \o b)[i] = a[i]
         /\ \A i \in 1..Len(b) : (a \o b)[Len(a) + i] = b[i]
         /\ \A i \in 1..(Len(a) + Len(b)) :
              i \in 1..Len(a) \/ \E k \in 1..Len(b) : i = Len(a) + k
<1>1. InParts(a, b) /\ a \o b \in Seq(T)
  BY PartsOf, ConcatProperties
<1> QED BY <1>1 DEF InParts
=============================================================================
