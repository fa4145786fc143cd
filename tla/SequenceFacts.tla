--------------------------- MODULE SequenceFacts ---------------------------
(***************************************************************************)
(* Facts about numbers and sequences that the proofs share: induction, that *)
(* a recursive definition over the natural numbers has a solution, and what *)
(* FlattenSeq of the community modules gives.                              *)
(***************************************************************************)
EXTENDS Integers, Sequences, SequencesExt, FiniteSetTheorems, SequenceTheorems, TLAPS

\* Induction over the natural numbers, for a set: a number that is missing would
\* leave more numbers below it than there are successors of them.
LEMMA SetInduction ==
  ASSUME NEW S \in SUBSET Nat, 0 \in S, \A n \in S : n + 1 \in S
  PROVE  S = Nat
<1>1. SUFFICES ASSUME NEW m \in Nat, m \notin S PROVE FALSE
  OBVIOUS
<1> DEFINE T == S \cap 0 .. m
           f == [n \in T |-> n + 1]
<1>2. IsFiniteSet(0 .. m)
  BY FS_Interval
<1>3. IsFiniteSet(T) /\ 0 \in T
  BY <1>2, FS_Subset
<1>4. IsFiniteSet(T \ {0}) /\ Cardinality(T \ {0}) = Cardinality(T) - 1
  BY <1>3, FS_RemoveElement
<1>5. Cardinality(T \ {0}) < Cardinality(T)
  BY <1>3, <1>4, FS_CardinalityType
<1>6. \A n \in T : n \in Nat /\ n # m /\ n + 1 \in T \ {0}
  BY <1>1
<1>7. f \in [T -> T \ {0}]
  BY <1>6
<1>8. \E x, y \in T : x # y /\ f[x] = f[y]
  <2> HIDE DEF T, f
  <2> QED
    BY <1>3, <1>4, <1>5, <1>7, FS_PigeonHole
<1> QED
  BY <1>6, <1>8

-----------------------------------------------------------------------------
(* Recursive definitions. *)

\* f is, up to the number m, the function that has v at 0 and whose value at n is what G
\* makes of n and of the value at h[n].
RecTo(f, m, V, v, G, h) ==
  /\ f \in [0 .. m -> V]
  /\ \A n \in 0 .. m : f[n] = IF n = 0 THEN v ELSE G[<<n, f[h[n]]>>]

\* The parts of such a definition; h goes down.
RecParts(V, v, G, h) ==
  /\ v \in V /\ G \in [Nat \X V -> V] /\ h \in [Nat -> Nat]
  /\ \A n \in Nat : n > 0 => h[n] < n

\* There is one, if h goes down.
LEMMA RecToExists ==
  ASSUME NEW V, NEW v \in V, NEW G \in [Nat \X V -> V], NEW h \in [Nat -> Nat],
         \A n \in Nat : n > 0 => h[n] < n, NEW m \in Nat
  PROVE  \E f : RecTo(f, m, V, v, G, h)
<1> DEFINE S == {j \in Nat : \E f : RecTo(f, j, V, v, G, h)}
<1>1. 0 \in S
  <2> DEFINE f == [n \in 0 .. 0 |-> v]
  <2>1. RecTo(f, 0, V, v, G, h)
    BY DEF RecTo
  <2> QED
    BY <2>1
<1>2. ASSUME NEW j \in S PROVE j + 1 \in S
  <2>1. PICK f : RecTo(f, j, V, v, G, h)
    BY <1>2
  <2>2. j \in Nat /\ j + 1 \in Nat /\ h[j + 1] \in 0 .. j
    <3>1. j + 1 > 0 /\ j + 1 \in Nat
      BY <1>2
    <3>2. h[j + 1] \in Nat /\ h[j + 1] < j + 1
      BY <3>1
    <3> QED
      BY <1>2, <3>2
  <2>3. f \in [0 .. j -> V] /\ f[h[j + 1]] \in V
    BY <2>1, <2>2 DEF RecTo
  <2>4. PICK w \in V : w = G[<<j + 1, f[h[j + 1]]>>]
    BY <2>2, <2>3
  <2> DEFINE g == [n \in 0 .. j + 1 |-> IF n <= j THEN f[n] ELSE w]
  <2>5. g \in [0 .. j + 1 -> V] /\ \A n \in 0 .. j : g[n] = f[n]
    BY <2>2, <2>3
  <2>6. ASSUME NEW n \in 0 .. j + 1 PROVE g[n] = IF n = 0 THEN v ELSE G[<<n, g[h[n]]>>]
    <3>1. CASE n <= j
      <4>0. n \in 0 .. j
        BY <2>2, <2>6, <3>1
      <4>1. f[n] = IF n = 0 THEN v ELSE G[<<n, f[h[n]]>>]
        BY <2>1, <4>0 DEF RecTo
      <4>2. n # 0 => h[n] \in 0 .. j
        BY <2>2, <2>6, <3>1
      <4> QED
        BY <2>5, <4>0, <4>1, <4>2
    <3>2. CASE ~(n <= j)
      <4>1. n = j + 1 /\ n # 0
        BY <2>2, <2>6, <3>2
      <4>2. g[n] = w /\ g[h[n]] = f[h[n]]
        BY <2>2, <2>5, <4>1
      <4> QED
        BY <2>4, <4>1, <4>2
    <3> QED
      BY <3>1, <3>2
  <2>7. RecTo(g, j + 1, V, v, G, h)
    <3> HIDE DEF g
    <3> QED
      BY <2>5, <2>6 DEF RecTo
  <2> QED
    BY <2>2, <2>7
<1>3. S = Nat
  <2> HIDE DEF S
  <2> QED
    BY <1>1, <1>2, SetInduction DEF S
<1> QED
  BY <1>3

\* Two of them agree where both are defined.
LEMMA RecToAgree ==
  ASSUME NEW V, NEW v, NEW G, NEW h, RecParts(V, v, G, h),
         NEW m \in Nat, NEW f, RecTo(f, m, V, v, G, h),
         NEW p \in Nat, NEW g, RecTo(g, p, V, v, G, h), NEW i \in Nat, i <= m, i <= p
  PROVE  f[i] = g[i]
<1>0. /\ h \in [Nat -> Nat]
      /\ \A n \in Nat : n > 0 => h[n] < n
  BY DEF RecParts
<1> DEFINE S == {k \in Nat : \A n \in 0 .. k : n <= m /\ n <= p => f[n] = g[n]}
<1>1. 0 \in S
  <2>1. 0 \in 0 .. m /\ 0 \in 0 .. p
    OBVIOUS
  <2>2. f[0] = v /\ g[0] = v
    BY <2>1 DEF RecTo
  <2>3. \A n \in 0 .. 0 : n = 0
    OBVIOUS
  <2> QED
    BY <2>2, <2>3
<1>2. ASSUME NEW k \in S PROVE k + 1 \in S
  <2>1. SUFFICES ASSUME k + 1 <= m, k + 1 <= p PROVE f[k + 1] = g[k + 1]
    <3>1. k + 1 \in Nat /\ \A n \in 0 .. k + 1 : n = k + 1 \/ n \in 0 .. k
      BY <1>2
    <3>2. \A n \in 0 .. k : n <= m /\ n <= p => f[n] = g[n]
      BY <1>2
    <3> QED
      BY <2>1, <3>1, <3>2
  <2>2. k + 1 \in 0 .. m /\ k + 1 \in 0 .. p /\ k + 1 # 0 /\ k \in Nat
    BY <1>2, <2>1
  <2>3. h[k + 1] \in 0 .. k
    BY <1>0, <2>2
  <2>4. h[k + 1] <= m /\ h[k + 1] <= p
    BY <2>2, <2>3
  <2>5. f[h[k + 1]] = g[h[k + 1]]
    BY <1>2, <2>3, <2>4
  <2>6. f[k + 1] = G[<<k + 1, f[h[k + 1]]>>] /\ g[k + 1] = G[<<k + 1, g[h[k + 1]]>>]
    BY <2>2 DEF RecTo
  <2> QED
    BY <2>5, <2>6
<1>3. S = Nat
  <2> HIDE DEF S
  <2> QED
    BY <1>1, <1>2, SetInduction DEF S
<1>4. i \in S
  BY <1>3
<1>5. i \in 0 .. i
  OBVIOUS
<1> QED
  BY <1>4, <1>5

\* f is that function.
RecSolves(f, V, v, G, h) ==
  /\ f \in [Nat -> V]
  /\ \A n \in Nat : f[n] = IF n = 0 THEN v ELSE G[<<n, f[h[n]]>>]

\* A recursive definition over the natural numbers has a solution.
LEMMA RecursionExists ==
  ASSUME NEW V, NEW v, NEW G, NEW h, RecParts(V, v, G, h)
  PROVE  \E f : RecSolves(f, V, v, G, h)
<1>0. /\ v \in V /\ G \in [Nat \X V -> V] /\ h \in [Nat -> Nat]
      /\ \A n \in Nat : n > 0 => h[n] < n
  BY DEF RecParts
<1> DEFINE To(m) == CHOOSE f : RecTo(f, m, V, v, G, h)
           F == [n \in Nat |-> To(n)[n]]
<1>1. \A m \in Nat : RecTo(To(m), m, V, v, G, h)
  BY <1>0, RecToExists
<1> HIDE DEF To
<1>2. F \in [Nat -> V]
  <2>1. ASSUME NEW n \in Nat PROVE To(n)[n] \in V
    BY <1>1 DEF RecTo
  <2> QED
    BY <2>1
<1>3. ASSUME NEW n \in Nat PROVE F[n] = IF n = 0 THEN v ELSE G[<<n, F[h[n]]>>]
  <2>1. RecTo(To(n), n, V, v, G, h) /\ n \in 0 .. n
    BY <1>1
  <2>2. To(n)[n] = IF n = 0 THEN v ELSE G[<<n, To(n)[h[n]]>>]
    BY <2>1 DEF RecTo
  <2>3. CASE n = 0
    BY <2>2, <2>3
  <2>4. CASE n # 0
    <3>1. PICK l \in Nat : l = h[n] /\ l <= n
      BY <1>0, <2>4
    <3>2. RecTo(To(l), l, V, v, G, h)
      BY <1>1
    <3>3. l <= l
      OBVIOUS
    <3>4. To(n)[l] = To(l)[l]
      <4>1. PICK a : a = To(n) /\ RecTo(a, n, V, v, G, h)
        BY <2>1
      <4>2. PICK b : b = To(l) /\ RecTo(b, l, V, v, G, h)
        BY <3>2
      <4>3. a[l] = b[l]
        BY <3>1, <3>3, <4>1, <4>2, RecToAgree
      <4> QED
        BY <4>1, <4>2, <4>3
    <3> QED
      BY <2>2, <2>4, <3>1, <3>4
  <2> QED
    BY <2>3, <2>4
<1>4. RecSolves(F, V, v, G, h)
  BY <1>2, <1>3 DEF RecSolves
<1> QED
  BY <1>4

-----------------------------------------------------------------------------
(* FlattenSeq. *)

\* What FlattenSeq makes of the first sequences of s.
FlatTo(f, n, s) ==
  f = [i \in 1 .. n |-> IF i = 1 THEN s[i] ELSE f[i - 1] \o s[i]]

\* There is such an f,
LEMMA FlatExists ==
  ASSUME NEW S, NEW s \in Seq(Seq(S)), NEW n \in Nat
  PROVE  n <= Len(s) => \E f : FlatTo(f, n, s)
<1> DEFINE K == {k \in Nat : k <= Len(s) => \E f : FlatTo(f, k, s)}
<1>1. 0 \in K
  <2> DEFINE f == [i \in 1 .. 0 |-> s[i]]
  <2>1. FlatTo(f, 0, s)
    BY DEF FlatTo
  <2> QED
    BY <2>1
<1>2. ASSUME NEW k \in K PROVE k + 1 \in K
  <2>1. SUFFICES ASSUME k + 1 <= Len(s) PROVE \E f : FlatTo(f, k + 1, s)
    BY <1>2
  <2>2. PICK f : FlatTo(f, k, s)
    BY <1>2, <2>1
  <2> DEFINE g == [i \in 1 .. k + 1 |-> IF i = k + 1
                     THEN (IF i = 1 THEN s[i] ELSE f[k] \o s[i]) ELSE f[i]]
  <2>3. ASSUME NEW i \in 1 .. k + 1
        PROVE  g[i] = IF i = 1 THEN s[i] ELSE g[i - 1] \o s[i]
    <3>1. CASE i = k + 1
      BY <3>1
    <3>2. CASE i # k + 1
      <4>0. i \in 1 .. k
        BY <3>2
      <4>1. f[i] = IF i = 1 THEN s[i] ELSE f[i - 1] \o s[i]
        BY <2>2, <4>0 DEF FlatTo
      <4>2. i # 1 => g[i - 1] = f[i - 1]
        BY <3>2
      <4> QED
        BY <3>2, <4>1, <4>2
    <3> QED
      BY <3>1, <3>2
  <2>4. FlatTo(g, k + 1, s)
    BY <2>3 DEF FlatTo
  <2> QED
    BY <2>4
<1>3. K = Nat
  <2> HIDE DEF K
  <2>1. K \in SUBSET Nat
    BY DEF K
  <2> QED
    BY <1>1, <1>2, <2>1, SetInduction
<1> QED
  BY <1>3

\* and FlattenSeq is the last value of it.
LEMMA FlattenIs ==
  ASSUME NEW S, NEW s \in Seq(Seq(S)), Len(s) > 0
  PROVE  \E f : FlatTo(f, Len(s), s) /\ FlattenSeq(s) = f[Len(s)]
<1> DEFINE f == CHOOSE h : h = [i \in 1 .. Len(s) |-> IF i = 1 THEN s[i] ELSE h[i - 1] \o s[i]]
<1>1. FlattenSeq(s) = f[Len(s)]
  BY DEF FlattenSeq
<1>2. Len(s) \in Nat /\ Len(s) <= Len(s)
  OBVIOUS
<1>3. \E h : FlatTo(h, Len(s), s)
  BY <1>2, FlatExists
<1>4. FlatTo(f, Len(s), s)
  BY <1>3 DEF FlatTo
<1> QED
  BY <1>1, <1>4

\* What comes after it does not matter.
LEMMA FlatAgree ==
  ASSUME NEW S, NEW s \in Seq(Seq(S)), NEW t \in Seq(Seq(S)), Len(s) <= Len(t),
         \A i \in 1 .. Len(s) : t[i] = s[i],
         NEW f, FlatTo(f, Len(s), s), NEW g, FlatTo(g, Len(t), t)
  PROVE  \A i \in 1 .. Len(s) : f[i] = g[i] /\ f[i] \in Seq(S)
<1> DEFINE K == {k \in Nat : k + 1 <= Len(s) => f[k + 1] = g[k + 1] /\ f[k + 1] \in Seq(S)}
<1>1. 0 \in K
  <2>1. SUFFICES ASSUME 1 <= Len(s) PROVE f[1] = g[1] /\ f[1] \in Seq(S)
    OBVIOUS
  <2>2. 1 \in 1 .. Len(s) /\ 1 \in 1 .. Len(t)
    BY <2>1
  <2>3. f[1] = s[1] /\ g[1] = t[1]
    BY <2>2 DEF FlatTo
  <2> QED
    BY <2>2, <2>3
<1>2. ASSUME NEW k \in K PROVE k + 1 \in K
  <2>1. SUFFICES ASSUME k + 2 <= Len(s) PROVE f[k + 2] = g[k + 2] /\ f[k + 2] \in Seq(S)
    BY <1>2
  <2>2. f[k + 1] = g[k + 1] /\ f[k + 1] \in Seq(S)
    BY <1>2, <2>1
  <2>3. k + 2 \in 1 .. Len(s) /\ k + 2 \in 1 .. Len(t) /\ k + 2 # 1 /\ (k + 2) - 1 = k + 1
    BY <2>1
  <2>4. f[k + 2] = f[k + 1] \o s[k + 2] /\ g[k + 2] = g[k + 1] \o t[k + 2]
    <3>1. PICK j \in 1 .. Len(s) : j = k + 2 /\ j \in 1 .. Len(t) /\ j # 1 /\ j - 1 = k + 1
      BY <2>3
    <3>2. f[j] = f[j - 1] \o s[j]
      BY <3>1 DEF FlatTo
    <3>3. g[j] = g[j - 1] \o t[j]
      BY <3>1 DEF FlatTo
    <3> QED
      BY <3>1, <3>2, <3>3
  <2>5. s[k + 2] \in Seq(S) /\ t[k + 2] = s[k + 2]
    BY <2>3
  <2> QED
    BY <2>2, <2>4, <2>5
<1>3. K = Nat
  <2> HIDE DEF K
  <2>1. K \in SUBSET Nat
    BY DEF K
  <2> QED
    BY <1>1, <1>2, <2>1, SetInduction
<1>4. ASSUME NEW i \in 1 .. Len(s) PROVE f[i] = g[i] /\ f[i] \in Seq(S)
  <2>1. i - 1 \in Nat /\ (i - 1) + 1 = i /\ i <= Len(s)
    OBVIOUS
  <2>2. i - 1 \in K
    BY <1>3, <2>1
  <2> QED
    BY <2>1, <2>2
<1> QED
  BY <1>4

\* A sequence more.
LEMMA FlattenAppend ==
  ASSUME NEW S, NEW s \in Seq(Seq(S)), NEW t \in Seq(Seq(S)), Len(t) = Len(s) + 1,
         \A i \in 1 .. Len(s) : t[i] = s[i]
  PROVE  /\ FlattenSeq(s) \in Seq(S)
         /\ FlattenSeq(t) = FlattenSeq(s) \o t[Len(t)]
<1>0. Len(t) > 0 /\ Len(t) \in 1 .. Len(t) /\ t[Len(t)] \in Seq(S)
  OBVIOUS
<1>1. PICK g : FlatTo(g, Len(t), t) /\ FlattenSeq(t) = g[Len(t)]
  BY <1>0, FlattenIs
<1>2. CASE Len(s) = 0
  <2>1. s = <<>> /\ FlattenSeq(s) = <<>>
    BY <1>2 DEF FlattenSeq
  <2>2. g[Len(t)] = t[Len(t)]
    BY <1>0, <1>1, <1>2 DEF FlatTo
  <2>3. <<>> \in Seq(S) /\ <<>> \o t[Len(t)] = t[Len(t)]
    BY <1>0, ConcatEmptySeq
  <2> QED
    BY <1>1, <2>1, <2>2, <2>3
<1>3. CASE Len(s) # 0
  <2>0. Len(s) > 0 /\ Len(s) \in 1 .. Len(s) /\ Len(s) <= Len(t) /\ Len(t) # 1
        /\ Len(t) - 1 = Len(s)
    BY <1>3
  <2>1. PICK f : FlatTo(f, Len(s), s) /\ FlattenSeq(s) = f[Len(s)]
    BY <2>0, FlattenIs
  <2>2. \A i \in 1 .. Len(s) : f[i] = g[i] /\ f[i] \in Seq(S)
    BY <1>1, <2>0, <2>1, FlatAgree
  <2>3. g[Len(t)] = g[Len(s)] \o t[Len(t)]
    BY <1>0, <1>1, <2>0 DEF FlatTo
  <2> QED
    BY <1>1, <2>0, <2>1, <2>2, <2>3
<1> QED
  BY <1>2, <1>3

\* Its type.
LEMMA FlattenType ==
  ASSUME NEW S, NEW s \in Seq(Seq(S))
  PROVE  FlattenSeq(s) \in Seq(S)
<1>1. CASE Len(s) = 0
  BY <1>1 DEF FlattenSeq
<1>2. CASE Len(s) # 0
  <2> DEFINE n == Len(s) - 1
             r == SubSeq(s, 1, n)
  <2>1. n \in Nat /\ Len(s) = n + 1
    BY <1>2
  <2>2. r \in Seq(Seq(S)) /\ Len(r) = n /\ \A i \in 1 .. n : s[i] = r[i]
    BY <2>1
  <2>3. s[Len(s)] \in Seq(S)
    BY <2>1
  <2> HIDE DEF r, n
  <2>4. FlattenSeq(r) \in Seq(S) /\ FlattenSeq(s) = FlattenSeq(r) \o s[Len(s)]
    BY <2>1, <2>2, FlattenAppend
  <2> QED
    BY <2>3, <2>4, ConcatProperties
<1> QED
  BY <1>1, <1>2

\* A sequence at its end.
LEMMA FlattenLast ==
  ASSUME NEW S, NEW s \in Seq(Seq(S)), NEW x \in Seq(S)
  PROVE  FlattenSeq(Append(s, x)) = FlattenSeq(s) \o x
<1> DEFINE t == Append(s, x)
<1>1. /\ t \in Seq(Seq(S)) /\ Len(t) = Len(s) + 1 /\ t[Len(t)] = x
      /\ \A i \in 1 .. Len(s) : t[i] = s[i]
  BY AppendProperties
<1> HIDE DEF t
<1>2. FlattenSeq(t) = FlattenSeq(s) \o t[Len(t)]
  BY <1>1, FlattenAppend
<1> QED
  BY <1>1, <1>2 DEF t

\* Three sequences, one after the other.
LEMMA ThreeInARow ==
  ASSUME NEW S, NEW q \in Seq(S), NEW r \in Seq(S), NEW x \in Seq(S)
  PROVE  (q \o r) \o x = q \o (r \o x) /\ r \o x \in Seq(S)
<1>1. (q \o r) \o x = q \o (r \o x)
  BY ConcatAssociative
<1>2. r \o x \in Seq(S)
  BY ConcatProperties
<1> QED
  BY <1>1, <1>2

\* Of the first sequences it gives the first elements.
LEMMA FlattenPrefix ==
  ASSUME NEW S, NEW s \in Seq(Seq(S)), NEW t \in Seq(Seq(S)), Len(s) <= Len(t),
         \A i \in 1 .. Len(s) : t[i] = s[i]
  PROVE  \E r \in Seq(S) : FlattenSeq(t) = FlattenSeq(s) \o r
<1> DEFINE first(k) == SubSeq(t, 1, k)
           Starts(k) == \E r \in Seq(S) : FlattenSeq(first(k)) = FlattenSeq(s) \o r
<1>0. PICK n \in Nat, l \in Nat : n = Len(s) /\ l = Len(t) /\ n <= l
  OBVIOUS
<1> DEFINE K == {m \in Nat : n + m <= l => Starts(n + m)}
<1>1. FlattenSeq(s) \in Seq(S)
  BY FlattenType
<1>2. Starts(n)
  <2>1. first(n) \in Seq(Seq(S)) /\ Len(first(n)) = n /\ \A i \in 1 .. n : first(n)[i] = t[i]
    BY <1>0
  <2> HIDE DEF first
  <2>2. first(n) = s
    BY <1>0, <2>1, SeqEqual
  <2>3. FlattenSeq(s) = FlattenSeq(s) \o <<>> /\ <<>> \in Seq(S)
    BY <1>1, ConcatEmptySeq
  <2> QED
    BY <2>2, <2>3
<1>3. ASSUME NEW k \in Nat, k + 1 <= l, Starts(k) PROVE Starts(k + 1)
  <2>1. PICK r \in Seq(S) : FlattenSeq(first(k)) = FlattenSeq(s) \o r
    BY <1>3
  <2>2. /\ first(k) \in Seq(Seq(S)) /\ Len(first(k)) = k
        /\ first(k + 1) \in Seq(Seq(S)) /\ Len(first(k + 1)) = k + 1
        /\ \A i \in 1 .. k : first(k + 1)[i] = first(k)[i]
    BY <1>0, <1>3
  <2>3. PICK x \in Seq(S) : x = first(k + 1)[k + 1]
    BY <1>0, <1>3
  <2> HIDE DEF first
  <2>4. FlattenSeq(first(k + 1)) = FlattenSeq(first(k)) \o x
    BY <2>2, <2>3, FlattenAppend
  <2>5. (FlattenSeq(s) \o r) \o x = FlattenSeq(s) \o (r \o x) /\ r \o x \in Seq(S)
    <3>1. PICK q \in Seq(S) : q = FlattenSeq(s)
      BY <1>1
    <3>2. (q \o r) \o x = q \o (r \o x) /\ r \o x \in Seq(S)
      BY ThreeInARow
    <3> QED
      BY <3>1, <3>2
  <2> QED
    BY <2>1, <2>4, <2>5
<1>4. Starts(l) <=> \E r \in Seq(S) : FlattenSeq(t) = FlattenSeq(s) \o r
  <2>1. first(l) = t
    BY <1>0, SubSeqFull
  <2> HIDE DEF first
  <2> QED
    BY <2>1
<1> HIDE DEF Starts
<1>5. K = Nat
  <2>1. n + 0 = n
    BY <1>0
  <2>2. 0 \in K
    BY <1>2, <2>1
  <2>3. ASSUME NEW m \in K PROVE m + 1 \in K
    <3>1. m \in Nat /\ (n + m <= l => Starts(n + m))
      BY <2>3
    <3>2. n + (m + 1) = (n + m) + 1 /\ n + m \in Nat /\ (n + (m + 1) <= l => n + m <= l)
      BY <3>1
    <3> QED
      BY <1>3, <3>1, <3>2
  <2> HIDE DEF K
  <2>4. K \in SUBSET Nat
    BY DEF K
  <2> QED
    BY <2>2, <2>3, <2>4, SetInduction
<1>6. PICK m \in Nat : n + m = l
  <2>1. l - n \in Nat /\ n + (l - n) = l
    BY <1>0
  <2> QED
    BY <2>1
<1>7. Starts(l)
  <2>1. m \in Nat => m \in K
    BY <1>5
  <2>2. n + m <= l => Starts(n + m)
    BY <2>1
  <2>3. n + m <= l
    BY <1>6
  <2>4. Starts(n + m)
    BY <2>2, <2>3
  <2> QED
    BY <1>6, <2>4
<1> QED
  BY <1>4, <1>7

\* One sequence, and two.
LEMMA FlattenTwo ==
  ASSUME NEW S, NEW x \in Seq(S), NEW y \in Seq(S)
  PROVE  FlattenSeq(<<x>>) = x /\ FlattenSeq(<<x, y>>) = x \o y
<1>0. <<>> \in Seq(Seq(S)) /\ <<x>> \in Seq(Seq(S))
  BY EmptySeq
<1>1. PICK e \in Seq(Seq(S)) : e = <<>>
  BY <1>0
<1>2. PICK u \in Seq(Seq(S)) : u = <<x>>
  BY <1>0
<1>3. FlattenSeq(e) = <<>>
  BY <1>1 DEF FlattenSeq
<1>4. <<x>> = Append(e, x) /\ <<x, y>> = Append(u, y)
  BY <1>1, <1>2
<1>5. FlattenSeq(Append(e, x)) = FlattenSeq(e) \o x
  BY FlattenLast
<1>6. FlattenSeq(Append(u, y)) = FlattenSeq(u) \o y
  BY FlattenLast
<1>7. <<>> \o x = x
  BY ConcatEmptySeq
<1> QED
  BY <1>2, <1>3, <1>4, <1>5, <1>6, <1>7

\* One element more in the last sequence.
LEMMA FlattenLonger ==
  ASSUME NEW S, NEW q \in Seq(Seq(S)), q # <<>>, NEW x \in S
  PROVE  FlattenSeq([q EXCEPT ![Len(q)] = Append(@, x)]) = FlattenSeq(q) \o <<x>>
<1>1. PICK n \in Nat : Len(q) = n + 1
  <2>1. Len(q) \in Nat /\ Len(q) # 0
    OBVIOUS
  <2>2. Len(q) - 1 \in Nat /\ Len(q) = (Len(q) - 1) + 1
    BY <2>1
  <2> QED
    BY <2>2
<1> DEFINE p == SubSeq(q, 1, n)
           w == [q EXCEPT ![Len(q)] = Append(@, x)]
<1>2. PICK y \in Seq(S) : y = q[n + 1]
  BY <1>1
<1>3. p \in Seq(Seq(S)) /\ Len(p) = n /\ \A i \in 1 .. n : q[i] = p[i]
  BY <1>1
<1>4. Append(y, x) \in Seq(S) /\ Append(y, x) = y \o <<x>> /\ <<x>> \in Seq(S)
  BY AppendProperties, AppendIsConcat
<1>5. w \in Seq(Seq(S)) /\ Len(w) = n + 1 /\ w[n + 1] = y \o <<x>> /\ \A i \in 1 .. n : w[i] = q[i]
  <2>1. w = [q EXCEPT ![n + 1] = Append(y, x)]
    BY <1>1, <1>2
  <2>2. n + 1 \in 1 .. Len(q)
    BY <1>1
  <2>3. /\ w \in Seq(Seq(S)) /\ Len(w) = Len(q)
        /\ \A j \in 1 .. Len(q) : w[j] = IF j = n + 1 THEN Append(y, x) ELSE q[j]
    <3> HIDE DEF w
    <3> QED
      BY <1>4, <2>1, <2>2, ExceptSeq
  <2> HIDE DEF w
  <2>4. w[n + 1] = Append(y, x)
    BY <2>2, <2>3
  <2>5. \A i \in 1 .. n : i \in 1 .. Len(q) /\ i # n + 1
    BY <1>1
  <2>6. \A i \in 1 .. n : w[i] = q[i]
    BY <2>3, <2>5
  <2> QED
    BY <1>1, <1>4, <2>3, <2>4, <2>6
<1> HIDE DEF p, w
<1>6. FlattenSeq(p) \in Seq(S) /\ FlattenSeq(q) = FlattenSeq(p) \o y
  BY <1>1, <1>2, <1>3, FlattenAppend
<1>7. FlattenSeq(w) = FlattenSeq(p) \o (y \o <<x>>)
  <2>1. Len(w) = Len(p) + 1 /\ \A i \in 1 .. Len(p) : w[i] = p[i]
    BY <1>3, <1>5
  <2>2. FlattenSeq(w) = FlattenSeq(p) \o w[Len(w)]
    BY <1>3, <1>5, <2>1, FlattenAppend
  <2> QED
    BY <1>5, <2>2
<1>8. (FlattenSeq(p) \o y) \o <<x>> = FlattenSeq(p) \o (y \o <<x>>)
  <2>1. PICK a \in Seq(S), z \in Seq(S) : a = FlattenSeq(p) /\ z = <<x>>
    BY <1>4, <1>6
  <2>2. (a \o y) \o z = a \o (y \o z)
    BY ThreeInARow
  <2> QED
    BY <2>1, <2>2
<1> QED
  BY <1>6, <1>7, <1>8 DEF w
=============================================================================
