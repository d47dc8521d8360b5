------------------------------ MODULE Induction -----------------------------
(***************************************************************************)
(* Induction over the natural numbers, stated for sets: the library's      *)
(* theorem of that name takes a predicate, this one the set of the numbers *)
(* that have it.  With it, what functions that recur on a number compute:  *)
(* the sequence that the sequences in a sequence make.                     *)
(***************************************************************************)
EXTENDS Integers, Sequences, SequencesExt, SequenceTheorems, WellFoundedInduction, TLAPS

Below == {p \in Nat \X Nat : p[1] < p[2]}

LEMMA BelowIsWellFounded == IsWellFoundedOn(Below, Nat)
  BY NatLessThanWellFounded DEF OpToRel, Below

LEMMA Least ==
  ASSUME NEW T \in SUBSET Nat, T # {}
  PROVE  \E x \in T : \A y \in T : x <= y
<1>1. PICK x \in T : \A y \in T : ~ (<<y, x>> \in Below)
  BY BelowIsWellFounded, WFMin
<1>2. ASSUME NEW y \in T
      PROVE  x <= y
  <2>1. x \in Nat /\ y \in Nat
    OBVIOUS
  <2>2. ~ (y < x)
    BY <1>1, <2>1 DEF Below
  <2> QED
    BY <2>1, <2>2
<1> QED
  BY <1>1, <1>2

LEMMA Inductive ==
  ASSUME NEW T \in SUBSET Nat, 0 \in T, \A n \in T : n + 1 \in T
  PROVE  T = Nat
<1>1. SUFFICES ASSUME Nat \ T # {} PROVE FALSE
  OBVIOUS
<1>2. PICK x \in Nat \ T : \A y \in Nat \ T : x <= y
  BY <1>1, Least
<1>3. x # 0 /\ x - 1 \in Nat /\ x - 1 \in T
  BY <1>2
<1> QED
  BY <1>2, <1>3

\* The same for sequences.
LEMMA SequencesInductive ==
  ASSUME NEW S, NEW T \in SUBSET Seq(S), << >> \in T,
         \A s \in T, e \in S : Append(s, e) \in T
  PROVE  T = Seq(S)
<1> DEFINE N == {n \in Nat : \A s \in Seq(S) : Len(s) = n => s \in T}
<1>1. 0 \in N
  BY EmptySeq
<1>2. ASSUME NEW n \in N
      PROVE  n + 1 \in N
  <2>1. n \in Nat
    OBVIOUS
  <2>2. ASSUME NEW s \in Seq(S), Len(s) = n + 1
        PROVE  s \in T
    <3>1. s # << >>
      BY <2>1, <2>2, EmptySeq
    <3>2. PICK t \in Seq(S), e \in S : s = Append(t, e)
      BY <3>1, SequenceEmptyOrAppend
    <3>3. Len(t) = n
      BY <2>1, <2>2, <3>2, AppendProperties, LenProperties
    <3>4. t \in T
      BY <3>3
    <3> QED
      BY <3>2, <3>4
  <2> QED
    BY <2>1, <2>2
<1>3. N \in SUBSET Nat
  OBVIOUS
<1> HIDE DEF N
<1>4. N = Nat
  BY <1>1, <1>2, <1>3, Inductive
<1>5. ASSUME NEW s \in Seq(S)
      PROVE  s \in T
  <2>1. Len(s) \in N
    BY <1>4, LenProperties
  <2> QED
    BY <2>1 DEF N
<1> QED
  BY <1>5

-----------------------------------------------------------------------------
(* Recursion on a number: the next value is given by a function of the     *)
(* number and the value before.                                            *)

Recurs(f, v, g, m) ==
    f[0] = v /\ \A n \in Nat : n < m => f[n + 1] = g[<<n, f[n]>>]

LEMMA RecursToAnyNumber ==
  ASSUME NEW V, NEW v \in V, NEW g \in [Nat \X V -> V]
  PROVE  \A m \in Nat : \E f \in [0 .. m -> V] : Recurs(f, v, g, m)
<1> DEFINE T == {m \in Nat : \E f \in [0 .. m -> V] : Recurs(f, v, g, m)}
<1>1. 0 \in T
  <2>1. Recurs([n \in 0 .. 0 |-> v], v, g, 0)
    BY DEF Recurs
  <2>2. [n \in 0 .. 0 |-> v] \in [0 .. 0 -> V]
    OBVIOUS
  <2> QED
    BY <2>1, <2>2
<1>2. ASSUME NEW m \in T
      PROVE  m + 1 \in T
  <2>1. PICK f \in [0 .. m -> V] : Recurs(f, v, g, m)
    OBVIOUS
  <2> DEFINE last == g[<<m, f[m]>>]
             h == [n \in 0 .. m + 1 |-> IF n = m + 1 THEN last ELSE f[n]]
  <2>2. m \in Nat
    OBVIOUS
  <2>3. f[m] \in V
    BY <2>2
  <2>4. last \in V
    BY <2>2, <2>3
  <2>5. \A n \in 0 .. m : f[n] \in V /\ h[n] = f[n]
    BY <2>2
  <2>6. h \in [0 .. m + 1 -> V]
    BY <2>2, <2>4, <2>5
  <2>7. h[0] = v
    BY <2>1, <2>2 DEF Recurs
  <2>8. ASSUME NEW n \in Nat, n < m + 1
        PROVE  h[n + 1] = g[<<n, h[n]>>]
    <3>1. n \in 0 .. m /\ h[n] = f[n]
      BY <2>2, <2>8
    <3>2. CASE n = m
      <4>1. h[m + 1] = last /\ h[m] = f[m]
        BY <2>2, <2>5
      <4> QED
        BY <3>2, <4>1
    <3>3. CASE n # m
      <4>1. n < m /\ n + 1 \in 0 .. m
        BY <2>2, <3>1, <3>3
      <4> QED
        BY <2>1, <2>5, <3>1, <4>1 DEF Recurs
    <3> QED
      BY <3>2, <3>3
  <2>9. Recurs(h, v, g, m + 1)
    BY <2>7, <2>8 DEF Recurs
  <2> QED
    BY <2>2, <2>6, <2>9
<1>3. T \in SUBSET Nat
  OBVIOUS
<1> HIDE DEF T
<1>4. T = Nat
  BY <1>1, <1>2, <1>3, Inductive
<1> QED
  BY <1>4 DEF T

\* Two that recur in the same way agree as far as both do.
LEMMA RecursionsAgree ==
  ASSUME NEW v, NEW g, NEW m \in Nat, NEW k \in Nat, NEW f, NEW h,
         Recurs(f, v, g, m), Recurs(h, v, g, k)
  PROVE  \A n \in Nat : n <= m /\ n <= k => f[n] = h[n]
<1> DEFINE T == {n \in Nat : n <= m /\ n <= k => f[n] = h[n]}
<1>1. 0 \in T
  BY DEF Recurs
<1>2. ASSUME NEW n \in T
      PROVE  n + 1 \in T
  <2>1. n \in Nat
    OBVIOUS
  <2>2. CASE n + 1 <= m /\ n + 1 <= k
    <3>1. n < m /\ n < k /\ f[n] = h[n]
      BY <2>1, <2>2
    <3>2. f[n + 1] = g[<<n, f[n]>>] /\ h[n + 1] = g[<<n, h[n]>>]
      BY <2>1, <3>1 DEF Recurs
    <3> QED
      BY <2>1, <3>1, <3>2
  <2> QED
    BY <2>1, <2>2
<1>3. T \in SUBSET Nat
  OBVIOUS
<1> HIDE DEF T
<1>4. T = Nat
  BY <1>1, <1>2, <1>3, Inductive
<1> QED
  BY <1>4 DEF T

Unfolds(f, v, g) == f[0] = v /\ \A n \in Nat : f[n + 1] = g[<<n, f[n]>>]

LEMMA Recursion ==
  ASSUME NEW V, NEW v \in V, NEW g \in [Nat \X V -> V]
  PROVE  \E f \in [Nat -> V] : Unfolds(f, v, g)
<1> DEFINE A(m) == CHOOSE f : f \in [0 .. m -> V] /\ Recurs(f, v, g, m)
           F == [n \in Nat |-> A(n)[n]]
<1>1. ASSUME NEW m \in Nat
      PROVE  A(m) \in [0 .. m -> V] /\ Recurs(A(m), v, g, m)
  <2>1. \E f : f \in [0 .. m -> V] /\ Recurs(f, v, g, m)
    BY RecursToAnyNumber
  <2> QED
    BY <2>1
<1> HIDE DEF A
<1>2. \A n \in Nat : A(n)[n] \in V
  BY <1>1
<1>3. F \in [Nat -> V]
  BY <1>2
<1>4. F[0] = v
  BY <1>1 DEF Recurs
<1>5. ASSUME NEW n \in Nat
      PROVE  F[n + 1] = g[<<n, F[n]>>]
  <2>1. Recurs(A(n + 1), v, g, n + 1) /\ Recurs(A(n), v, g, n)
    BY <1>1
  <2>2. A(n + 1)[n] = A(n)[n]
    BY <2>1, RecursionsAgree
  <2>3. A(n + 1)[n + 1] = g[<<n, A(n + 1)[n]>>]
    BY <2>1 DEF Recurs
  <2> QED
    BY <2>2, <2>3
<1> HIDE DEF F
<1>6. Unfolds(F, v, g)
  BY <1>4, <1>5 DEF Unfolds
<1> QED
  BY <1>3, <1>6

-----------------------------------------------------------------------------
(* FlattenSeq of SequencesExt. *)

\* A function whose n-th value is the first n sequences of s in one.
Joins(f, s, S) ==
    /\ f \in [Nat -> Seq(S)] /\ f[0] = << >>
    /\ \A n \in 1 .. Len(s) : f[n] = f[n - 1] \o s[n]

LEMMA JoinsExists ==
  ASSUME NEW S, NEW s \in Seq(Seq(S))
  PROVE  \E f : Joins(f, s, S)
<1> DEFINE Next1(p) == IF p[1] + 1 <= Len(s) THEN p[2] \o s[p[1] + 1] ELSE p[2]
           g == [p \in Nat \X Seq(S) |-> Next1(p)]
<1>1. ASSUME NEW p \in Nat \X Seq(S)
      PROVE  Next1(p) \in Seq(S)
  <2>1. p[1] \in Nat /\ p[2] \in Seq(S)
    OBVIOUS
  <2>2. CASE p[1] + 1 <= Len(s)
    <3>1. p[1] + 1 \in 1 .. Len(s)
      BY <2>1, <2>2, LenProperties
    <3>2. s[p[1] + 1] \in Seq(S)
      BY <3>1, ElementOfSeq
    <3> QED
      BY <2>1, <2>2, <3>2, ConcatProperties
  <2> QED
    BY <2>1, <2>2
<1>2. g \in [Nat \X Seq(S) -> Seq(S)] /\ << >> \in Seq(S)
  BY <1>1, EmptySeq
<1> HIDE DEF g
<1>3. PICK f \in [Nat -> Seq(S)] : Unfolds(f, << >>, g)
  BY <1>2, Recursion
<1>4. ASSUME NEW n \in 1 .. Len(s)
      PROVE  f[n] = f[n - 1] \o s[n]
  <2>1. n - 1 \in Nat /\ (n - 1) + 1 = n /\ n <= Len(s)
    BY LenProperties
  <2>2. <<n - 1, f[n - 1]>> \in Nat \X Seq(S)
    BY <2>1
  <2>3. g[<<n - 1, f[n - 1]>>] = f[n - 1] \o s[n]
    BY <2>1, <2>2 DEF g
  <2> QED
    BY <1>3, <2>1, <2>3 DEF Unfolds
<1> QED
  BY <1>3, <1>4 DEF Joins, Unfolds

LEMMA FlattenIsJoined ==
  ASSUME NEW S, NEW s \in Seq(Seq(S)), NEW f, Joins(f, s, S)
  PROVE  FlattenSeq(s) = f[Len(s)]
<1>0. Len(s) \in Nat
  BY LenProperties
<1>1. CASE Len(s) = 0
  <2>1. s = << >>
    BY <1>1, EmptySeq
  <2> QED
    BY <1>1, <2>1 DEF FlattenSeq, Joins
<1>2. CASE Len(s) # 0
  <2>1. 1 \in 1 .. Len(s) /\ s[1] \in Seq(S)
    BY <1>0, <1>2, ElementOfSeq
  <2>2. f[1] = s[1]
    <3>1. f[0] = << >> /\ \A n \in 1 .. Len(s) : f[n] = f[n - 1] \o s[n]
      BY DEF Joins
    <3>2. f[1] = f[1 - 1] \o s[1]
      BY <2>1, <3>1
    <3>3. f[1 - 1] = << >>
      BY <3>1
    <3>4. << >> \o s[1] = s[1]
      BY <2>1, ConcatEmptySeq
    <3> QED
      BY <3>2, <3>3, <3>4
  <2> DEFINE Flat(h) == [i \in 1 .. Len(s) |-> IF i = 1 THEN s[i] ELSE h[i - 1] \o s[i]]
             flat == CHOOSE h : h = Flat(h)
             k == [i \in 1 .. Len(s) |-> f[i]]
  <2>3. ASSUME NEW i \in 1 .. Len(s)
        PROVE  k[i] = IF i = 1 THEN s[i] ELSE k[i - 1] \o s[i]
    <3>1. CASE i = 1
      BY <2>2, <3>1
    <3>2. CASE i # 1
      <4>1. i - 1 \in 1 .. Len(s)
        BY <1>0, <3>2
      <4>2. f[i] = f[i - 1] \o s[i]
        BY DEF Joins
      <4> QED
        BY <3>2, <4>1, <4>2
    <3> QED
      BY <3>1, <3>2
  <2>4. k = Flat(k)
    BY <2>3
  <2> HIDE DEF k
  <2>5. flat = Flat(flat)
    BY <2>4
  <2> HIDE DEF flat
  <2> DEFINE T == {n \in Nat : n + 1 <= Len(s) => flat[n + 1] = f[n + 1]}
  <2>6. 0 \in T
    BY <2>1, <2>2, <2>5
  <2>7. ASSUME NEW n \in T
        PROVE  n + 1 \in T
    <3>1. n \in Nat
      OBVIOUS
    <3>2. CASE (n + 1) + 1 <= Len(s)
      <4> DEFINE i == (n + 1) + 1
      <4>1. i \in 1 .. Len(s) /\ i # 1 /\ i - 1 = n + 1 /\ n + 1 <= Len(s)
        BY <1>0, <3>1, <3>2
      <4>2. flat[i] = flat[i - 1] \o s[i]
        BY <2>5, <4>1
      <4>3. f[i] = f[i - 1] \o s[i]
        BY <4>1 DEF Joins
      <4>4. flat[n + 1] = f[n + 1]
        BY <4>1
      <4>5. flat[(n + 1) + 1] = f[(n + 1) + 1]
        BY <4>1, <4>2, <4>3, <4>4
      <4> QED
        BY <3>1, <4>5
    <3> QED
      BY <3>1, <3>2
  <2>8. T \in SUBSET Nat
    OBVIOUS
  <2> HIDE DEF T
  <2>9. T = Nat
    BY <2>6, <2>7, <2>8, Inductive
  <2>10. Len(s) - 1 \in T /\ (Len(s) - 1) + 1 = Len(s)
    BY <1>0, <1>2, <2>9
  <2>11. flat[Len(s)] = f[Len(s)]
    BY <1>0, <2>10 DEF T
  <2>12. FlattenSeq(s) = flat[Len(s)]
    BY <1>2 DEF FlattenSeq, flat
  <2> QED
    BY <2>11, <2>12
<1> QED
  BY <1>1, <1>2

LEMMA FlattenEmpty == FlattenSeq(<< >>) = << >>
  BY DEF FlattenSeq

LEMMA FlattenAppend ==
  ASSUME NEW S, NEW s \in Seq(Seq(S)), NEW x \in Seq(S)
  PROVE  /\ FlattenSeq(s) \in Seq(S)
         /\ FlattenSeq(Append(s, x)) = FlattenSeq(s) \o x
<1> DEFINE t == Append(s, x)
<1>1. /\ t \in Seq(Seq(S)) /\ Len(s) \in Nat /\ Len(t) = Len(s) + 1
      /\ (\A n \in 1 .. Len(s) : t[n] = s[n]) /\ t[Len(t)] = x
  BY AppendProperties, LenProperties
<1> HIDE DEF t
<1>2. PICK f : Joins(f, t, S)
  BY <1>1, JoinsExists
<1>3. Joins(f, s, S)
  <2>1. \A n \in 1 .. Len(s) : n \in 1 .. Len(t) /\ t[n] = s[n]
    BY <1>1
  <2> QED
    BY <1>2, <2>1 DEF Joins
<1>4. FlattenSeq(s) = f[Len(s)] /\ FlattenSeq(t) = f[Len(t)]
  BY <1>1, <1>2, <1>3, FlattenIsJoined
<1>5. f[Len(t)] = f[Len(s)] \o x
  <2>1. Len(t) \in 1 .. Len(t) /\ Len(t) - 1 = Len(s)
    BY <1>1
  <2> QED
    BY <1>1, <1>2, <2>1 DEF Joins
<1>6. f[Len(s)] \in Seq(S)
  BY <1>1, <1>2 DEF Joins
<1> QED
  BY <1>4, <1>5, <1>6 DEF t

LEMMA FlattenConcat ==
  ASSUME NEW S, NEW a \in Seq(Seq(S)), NEW b \in Seq(Seq(S))
  PROVE  FlattenSeq(a \o b) = FlattenSeq(a) \o FlattenSeq(b)
<1> DEFINE T == {c \in Seq(Seq(S)) : FlattenSeq(a \o c) = FlattenSeq(a) \o FlattenSeq(c)}
<1>0. << >> \in Seq(Seq(S)) /\ << >> \in Seq(S)
  BY EmptySeq
<1>1. << >> \in T
  <2>1. a \o << >> = a
    BY ConcatEmptySeq
  <2>2. FlattenSeq(a) \in Seq(S)
    BY <1>0, FlattenAppend
  <2>3. FlattenSeq(a) \o << >> = FlattenSeq(a)
    BY <2>2, ConcatEmptySeq
  <2> QED
    BY <1>0, <2>1, <2>3, FlattenEmpty
<1>2. ASSUME NEW c \in T, NEW x \in Seq(S)
      PROVE  Append(c, x) \in T
  <2>1. c \in Seq(Seq(S)) /\ FlattenSeq(a \o c) = FlattenSeq(a) \o FlattenSeq(c)
    OBVIOUS
  <2>2. a \o c \in Seq(Seq(S)) /\ Append(c, x) \in Seq(Seq(S))
    BY <2>1, ConcatProperties, AppendProperties
  <2>3. a \o Append(c, x) = Append(a \o c, x)
    <3>1. <<x>> \in Seq(Seq(S)) /\ Append(c, x) = c \o <<x>> /\ Append(a \o c, x) = (a \o c) \o <<x>>
      BY <2>1, <2>2, AppendIsConcat
    <3> QED
      BY <2>1, <3>1, ConcatAssociative
  <2>4. FlattenSeq(Append(a \o c, x)) = FlattenSeq(a \o c) \o x
    BY <2>2, FlattenAppend
  <2>5. FlattenSeq(Append(c, x)) = FlattenSeq(c) \o x
    BY <2>1, FlattenAppend
  <2>6. FlattenSeq(a) \in Seq(S) /\ FlattenSeq(c) \in Seq(S)
    BY <1>0, <2>1, FlattenAppend
  <2>7. (FlattenSeq(a) \o FlattenSeq(c)) \o x = FlattenSeq(a) \o (FlattenSeq(c) \o x)
    BY <2>6, ConcatAssociative
  <2> QED
    BY <2>1, <2>2, <2>3, <2>4, <2>5, <2>7
<1>3. T \in SUBSET Seq(Seq(S))
  OBVIOUS
<1> HIDE DEF T
<1>4. T = Seq(Seq(S))
  BY <1>1, <1>2, <1>3, SequencesInductive
<1> QED
  BY <1>4 DEF T
-----------------------------------------------------------------------------
\* What the elements of a sequence become, each a sequence, one after the other.
Maps(X, S) == [X -> Seq(S)]
MapOver(f, s) == [i \in DOMAIN s |-> f[s[i]]]
MapFlat(f, s) == FlattenSeq(MapOver(f, s))

LEMMA Mapped ==
  ASSUME NEW X, NEW S, NEW f \in Maps(X, S), NEW s \in Seq(X)
  PROVE  MapOver(f, s) \in Seq(Seq(S)) /\ Len(MapOver(f, s)) = Len(s)
<1>1. Len(s) \in Nat /\ DOMAIN s = 1 .. Len(s) /\ \A i \in 1 .. Len(s) : s[i] \in X
  BY LenProperties, ElementOfSeq
<1> DEFINE m == [i \in DOMAIN s |-> f[s[i]]]
<1>2. m \in [1 .. Len(s) -> Seq(S)]
  BY <1>1 DEF Maps
<1>3. m \in Seq(Seq(S)) /\ Len(m) = Len(s)
  BY <1>1, <1>2, IsASeq, LenProperties
<1> QED
  BY <1>3 DEF MapOver

LEMMA MappedAppend ==
  ASSUME NEW X, NEW S, NEW f \in Maps(X, S), NEW s \in Seq(X), NEW x \in X
  PROVE  MapOver(f, Append(s, x)) = Append(MapOver(f, s), f[x])
<1>0. MapOver(f, s) \in Seq(Seq(S)) /\ Len(MapOver(f, s)) = Len(s)
  <2>1. MapOver(f, s) \in Seq(Seq(S))
    BY Mapped
  <2>2. Len(MapOver(f, s)) = Len(s)
    BY LenProperties DEF MapOver
  <2> QED
    BY <2>1, <2>2
<1> DEFINE m == MapOver(f, s)
           t == Append(s, x)
           u == Append(m, f[x])
<1>1. Len(s) \in Nat /\ DOMAIN s = 1 .. Len(s) /\ m \in Seq(Seq(S)) /\ Len(m) = Len(s)
  BY <1>0, LenProperties
<1>2. /\ t \in Seq(X) /\ Len(t) = Len(s) + 1
      /\ (\A i \in 1 .. Len(s) : t[i] = s[i]) /\ t[Len(s) + 1] = x
  BY <1>1, AppendProperties
<1>3. /\ u \in Seq(Seq(S)) /\ Len(u) = Len(s) + 1
      /\ (\A i \in 1 .. Len(s) : u[i] = m[i]) /\ u[Len(s) + 1] = f[x]
  <2>1. f[x] \in Seq(S)
    BY DEF Maps
  <2> HIDE DEF m
  <2> QED
    BY <1>1, <2>1, AppendProperties
<1>4. DOMAIN t = 1 .. (Len(s) + 1) /\ u \in [1 .. (Len(s) + 1) -> Seq(S)]
  BY <1>2, <1>3, LenProperties
<1>5. \A i \in 1 .. Len(s) : m[i] = f[s[i]]
  BY <1>1 DEF MapOver
<1> HIDE DEF m, t, u
<1>6. ASSUME NEW i \in 1 .. (Len(s) + 1) PROVE f[t[i]] = u[i]
  <2>1. CASE i = Len(s) + 1
    BY <1>2, <1>3, <2>1
  <2>2. CASE i # Len(s) + 1
    <3>1. i \in 1 .. Len(s)
      BY <1>1, <2>2
    <3> QED
      BY <1>2, <1>3, <1>5, <3>1
  <2> QED
    BY <2>1, <2>2
<1>7. MapOver(f, t) = u
  BY <1>4, <1>6 DEF MapOver
<1> QED
  BY <1>7 DEF m, t, u

LEMMA MapFlatEmpty == \A f : MapFlat(f, << >>) = << >>
<1> TAKE f
<1>1. MapOver(f, << >>) = << >>
  BY DEF MapOver
<1> QED
  BY <1>1, FlattenEmpty DEF MapFlat

LEMMA MapFlatType ==
  ASSUME NEW X, NEW S, NEW f \in Maps(X, S), NEW s \in Seq(X)
  PROVE  MapFlat(f, s) \in Seq(S)
<1>1. << >> \in Seq(S)
  BY EmptySeq
<1>2. MapOver(f, s) \in Seq(Seq(S))
  BY Mapped
<1> QED
  BY <1>1, <1>2, FlattenAppend DEF MapFlat

LEMMA MapFlatAppend ==
  ASSUME NEW X, NEW S, NEW f \in Maps(X, S), NEW s \in Seq(X), NEW x \in X
  PROVE  MapFlat(f, Append(s, x)) = MapFlat(f, s) \o f[x]
<1>1. MapOver(f, s) \in Seq(Seq(S)) /\ f[x] \in Seq(S)
  BY Mapped DEF Maps
<1>2. MapOver(f, Append(s, x)) = Append(MapOver(f, s), f[x])
  BY MappedAppend
<1>3. FlattenSeq(Append(MapOver(f, s), f[x])) = FlattenSeq(MapOver(f, s)) \o f[x]
  BY <1>1, FlattenAppend
<1> QED
  BY <1>2, <1>3 DEF MapFlat

LEMMA MapFlatSingle ==
  ASSUME NEW X, NEW S, NEW f \in Maps(X, S), NEW x \in X
  PROVE  MapFlat(f, <<x>>) = f[x]
<1>1. << >> \in Seq(X) /\ Append(<< >>, x) = <<x>>
  BY EmptySeq
<1>2. << >> \o f[x] = f[x]
  BY ConcatEmptySeq
<1>3. MapFlat(f, Append(<< >>, x)) = MapFlat(f, << >>) \o f[x] /\ MapFlat(f, << >>) = << >>
  BY <1>1, MapFlatAppend, MapFlatType, MapFlatEmpty
<1> QED
  BY <1>1, <1>2, <1>3

LEMMA MapFlatConcat ==
  ASSUME NEW X, NEW S, NEW f \in Maps(X, S), NEW s \in Seq(X), NEW t \in Seq(X)
  PROVE  MapFlat(f, s \o t) = MapFlat(f, s) \o MapFlat(f, t)
<1> DEFINE T == {c \in Seq(X) : MapFlat(f, s \o c) = MapFlat(f, s) \o MapFlat(f, c)}
<1>1. << >> \in T
  <2>1. s \o << >> = s /\ << >> \in Seq(X)
    BY ConcatEmptySeq, EmptySeq
  <2>2. MapFlat(f, s) \in Seq(S) /\ MapFlat(f, << >>) = << >>
    BY MapFlatAppend, MapFlatType, MapFlatEmpty
  <2>3. MapFlat(f, s) \o << >> = MapFlat(f, s)
    BY <2>2, ConcatEmptySeq
  <2> QED
    BY <2>1, <2>2, <2>3
<1>2. ASSUME NEW c \in T, NEW x \in X PROVE Append(c, x) \in T
  <2>1. c \in Seq(X) /\ MapFlat(f, s \o c) = MapFlat(f, s) \o MapFlat(f, c)
    OBVIOUS
  <2>2. s \o c \in Seq(X) /\ Append(c, x) \in Seq(X)
    BY <2>1, ConcatProperties, AppendProperties
  <2>3. s \o Append(c, x) = Append(s \o c, x)
    <3>1. /\ <<x>> \in Seq(X) /\ Append(c, x) = c \o <<x>>
          /\ Append(s \o c, x) = (s \o c) \o <<x>>
      BY <2>1, <2>2, AppendIsConcat
    <3> QED
      BY <2>1, <3>1, ConcatAssociative
  <2>4. /\ MapFlat(f, Append(s \o c, x)) = MapFlat(f, s \o c) \o f[x]
        /\ MapFlat(f, Append(c, x)) = MapFlat(f, c) \o f[x]
        /\ MapFlat(f, s) \in Seq(S) /\ MapFlat(f, c) \in Seq(S)
    BY <2>1, <2>2, MapFlatAppend, MapFlatType, MapFlatEmpty
  <2>5. (MapFlat(f, s) \o MapFlat(f, c)) \o f[x] = MapFlat(f, s) \o (MapFlat(f, c) \o f[x])
    <3>1. f[x] \in Seq(S)
      BY DEF Maps
    <3> DEFINE a == MapFlat(f, s)
               b == MapFlat(f, c)
               d == f[x]
    <3>2. a \in Seq(S) /\ b \in Seq(S) /\ d \in Seq(S)
      BY <2>4, <3>1
    <3> HIDE DEF a, b, d
    <3>3. (a \o b) \o d = a \o (b \o d)
      BY <3>2, ConcatAssociative, SMTT(60)
    <3> QED
      BY <3>3 DEF a, b, d
  <2> QED
    BY <2>1, <2>2, <2>3, <2>4, <2>5
<1>3. T \in SUBSET Seq(X)
  OBVIOUS
<1> HIDE DEF T
<1>4. T = Seq(X)
  BY <1>1, <1>2, <1>3, SequencesInductive
<1> QED
  BY <1>4 DEF T

\* Element by element, two ways are one.
LEMMA MapFlatComposes ==
  ASSUME NEW X, NEW Y, NEW S, NEW f \in Maps(X, Y), NEW g \in Maps(Y, S),
         NEW h \in Maps(X, S), \A x \in X : MapFlat(g, f[x]) = h[x],
         NEW s \in Seq(X)
  PROVE  MapFlat(g, MapFlat(f, s)) = MapFlat(h, s)
<1> DEFINE T == {c \in Seq(X) : MapFlat(g, MapFlat(f, c)) = MapFlat(h, c)}
<1>0. ASSUME NEW a \in Seq(Y), NEW b \in Seq(Y)
      PROVE  MapFlat(g, a \o b) = MapFlat(g, a) \o MapFlat(g, b)
  BY MapFlatConcat
<1>1. << >> \in T
  BY EmptySeq, MapFlatAppend, MapFlatType, MapFlatEmpty
<1>2. ASSUME NEW c \in T, NEW x \in X PROVE Append(c, x) \in T
  <2>1. c \in Seq(X) /\ MapFlat(g, MapFlat(f, c)) = MapFlat(h, c)
    OBVIOUS
  <2>2. MapFlat(f, Append(c, x)) = MapFlat(f, c) \o f[x]
    BY <2>1, MapFlatAppend
  <2>3. MapFlat(h, Append(c, x)) = MapFlat(h, c) \o h[x]
    BY <2>1, MapFlatAppend
  <2>4. MapFlat(f, c) \in Seq(Y)
    BY <2>1, MapFlatType
  <2>5. f[x] \in Seq(Y)
    BY DEF Maps
  <2>6. MapFlat(g, MapFlat(f, c) \o f[x]) = MapFlat(g, MapFlat(f, c)) \o MapFlat(g, f[x])
    BY <1>0, <2>4, <2>5
  <2>7. Append(c, x) \in Seq(X)
    BY <2>1, AppendProperties
  <2> QED
    BY <2>1, <2>2, <2>3, <2>6, <2>7
<1>3. T \in SUBSET Seq(X)
  OBVIOUS
<1> HIDE DEF T
<1>4. T = Seq(X)
  BY <1>1, <1>2, <1>3, SequencesInductive
<1> QED
  BY <1>4 DEF T

LEMMA MapFlatIdentity ==
  ASSUME NEW X, NEW f \in Maps(X, X), \A x \in X : f[x] = <<x>>, NEW s \in Seq(X)
  PROVE  MapFlat(f, s) = s
<1> DEFINE T == {c \in Seq(X) : MapFlat(f, c) = c}
<1>1. << >> \in T
  BY EmptySeq, MapFlatAppend, MapFlatType, MapFlatEmpty
<1>2. ASSUME NEW c \in T, NEW x \in X PROVE Append(c, x) \in T
  <2>1. c \in Seq(X) /\ MapFlat(f, c) = c /\ f[x] = <<x>>
    OBVIOUS
  <2>2. Append(c, x) = c \o <<x>> /\ Append(c, x) \in Seq(X)
    BY <2>1, AppendIsConcat, AppendProperties
  <2>3. MapFlat(f, Append(c, x)) = MapFlat(f, c) \o f[x]
    BY <2>1, MapFlatAppend, MapFlatType, MapFlatEmpty
  <2> QED
    BY <2>1, <2>2, <2>3
<1>3. T \in SUBSET Seq(X)
  OBVIOUS
<1> HIDE DEF T
<1>4. T = Seq(X)
  BY <1>1, <1>2, <1>3, SequencesInductive
<1> QED
  BY <1>4 DEF T
=============================================================================
