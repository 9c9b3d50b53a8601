---------------------------- MODULE RunTimeProofs ----------------------------
(***************************************************************************)
(* Proofs about RunTime: the memory of a running program stays accounted   *)
(* for, the pieces of its objects stay apart, what they hold is what       *)
(* Collections promises, and a foreach sees all of it.                     *)
(***************************************************************************)
EXTENDS RunTime, FiniteSetTheorems, SequenceTheorems, WellFoundedInduction, TLAPS

\* A set of numbers that is not empty has a least.
LEMMA Least ==
    ASSUME NEW S \in SUBSET Nat, S # {}
    PROVE  \E h \in S : \A k \in S : h <= k
<1> DEFINE Below == OpToRel(<, Nat)
<1>1. PICK h \in S : \A k \in S : ~ (<<k, h>> \in Below)
  BY NatLessThanWellFounded, WFMin
<1>2. ASSUME NEW k \in S PROVE h <= k
  <2>1. <<k, h>> \in Nat \X Nat /\ ~ (<<k, h>> \in Below)
    BY <1>1
  <2> QED BY <2>1 DEF OpToRel
<1> QED BY <1>2

-----------------------------------------------------------------------------
(***************************************************************************)
(* Sequences of whatever they hold.                                        *)
(***************************************************************************)

\* A sequence: its length, its domain and its elements.
LEMMA SeqFacts ==
    ASSUME NEW s, IsSequence(s)
    PROVE  /\ Len(s) \in Nat /\ DOMAIN s = 1 .. Len(s)
           /\ s = [i \in 1 .. Len(s) |-> s[i]]
           /\ ToSet(s) = {s[i] : i \in 1 .. Len(s)}
<1>1. /\ Len(s) \in Nat /\ s \in [1 .. Len(s) -> ToSet(s)] /\ DOMAIN s = 1 .. Len(s)
  BY LenProperties DEF IsSequence
<1> QED BY <1>1 DEF ToSet

\* Every member of Seq(S) is one.
LEMMA AnySeq ==
    ASSUME NEW S, NEW s \in Seq(S)
    PROVE  IsSequence(s)
<1>1. Len(s) \in Nat /\ s \in [1 .. Len(s) -> S] /\ DOMAIN s = 1 .. Len(s)
  BY LenProperties
<1>2. s \in [1 .. Len(s) -> ToSet(s)]
  BY <1>1 DEF ToSet
<1> QED BY <1>1, <1>2, SeqDef DEF IsSequence

\* A function on 1 .. n is a sequence of length n.
LEMMA MadeSeq ==
    ASSUME NEW n \in Nat, NEW f, DOMAIN f = 1 .. n, f = [i \in 1 .. n |-> f[i]]
    PROVE  IsSequence(f) /\ Len(f) = n
<1>1. f \in [1 .. n -> ToSet(f)]
  BY DEF ToSet
<1>2. f \in Seq(ToSet(f))
  BY <1>1, SeqDef
<1>3. Len(f) \in Nat /\ DOMAIN f = 1 .. Len(f)
  BY <1>2, LenProperties
<1> QED BY <1>2, <1>3 DEF IsSequence

\* Sequences of one length with the same elements are equal.
LEMMA SameSeq ==
    ASSUME NEW s, NEW t, IsSequence(s), IsSequence(t), Len(s) = Len(t), \A i \in 1 .. Len(s) : s[i] = t[i]
    PROVE  s = t
BY SeqFacts

\* What a concatenation holds.
LEMMA Joining ==
    ASSUME NEW s, NEW t, IsSequence(s), IsSequence(t)
    PROVE  /\ IsSequence(s \o t) /\ Len(s \o t) = Len(s) + Len(t)
           /\ \A i \in 1 .. Len(s) + Len(t) :
                 (s \o t)[i] = IF i <= Len(s) THEN s[i] ELSE t[i - Len(s)]
           /\ ToSet(s \o t) = ToSet(s) \cup ToSet(t)
<1> DEFINE S == ToSet(s) \cup ToSet(t)
<1>1. s \in Seq(S) /\ t \in Seq(S)
  BY SeqMonotonic DEF IsSequence
<1>2. /\ s \o t \in Seq(S) /\ Len(s \o t) = Len(s) + Len(t)
      /\ \A i \in 1 .. Len(s) + Len(t) :
                 (s \o t)[i] = IF i <= Len(s) THEN s[i] ELSE t[i - Len(s)]
  BY <1>1, ConcatProperties
<1>3. IsSequence(s \o t)
  BY <1>2, AnySeq
<1>4. Len(s) \in Nat /\ Len(t) \in Nat
  BY SeqFacts
<1>5. ASSUME NEW x \in ToSet(s \o t) PROVE x \in S
  <2> DEFINE c == s \o t
  <2>0. IsSequence(c) /\ x \in ToSet(c)
    BY <1>3, <1>5
  <2> HIDE DEF c
  <2>1. PICK i \in 1 .. Len(c) : x = c[i]
    BY <2>0, SeqFacts
  <2> USE DEF c
  <2>2. s \o t \in Seq(S)
    BY <1>2
  <2> HIDE DEF S
  <2> QED BY <2>1, <2>2, ElementOfSeq
<1>6. ASSUME NEW x \in ToSet(s) PROVE x \in ToSet(s \o t)
  <2>1. PICK i \in 1 .. Len(s) : x = s[i]
    BY SeqFacts
  <2>2. i \in 1 .. Len(s \o t) /\ x = (s \o t)[i]
    BY <1>2, <1>4, <2>1
  <2>3. PICK c : c = s \o t
    OBVIOUS
  <2>4. IsSequence(c) /\ x \in {c[j] : j \in 1 .. Len(c)}
    BY <1>3, <2>2, <2>3
  <2>5. ToSet(c) = {c[j] : j \in 1 .. Len(c)}
    BY <2>4, SeqFacts
  <2> QED BY <2>3, <2>4, <2>5
<1>7. ASSUME NEW x \in ToSet(t) PROVE x \in ToSet(s \o t)
  <2>1. PICK i \in 1 .. Len(t) : x = t[i]
    BY SeqFacts
  <2>2. i + Len(s) \in 1 .. Len(s \o t) /\ x = (s \o t)[i + Len(s)]
    BY <1>2, <1>4, <2>1
  <2>3. PICK c : c = s \o t
    OBVIOUS
  <2>4. IsSequence(c) /\ x \in {c[j] : j \in 1 .. Len(c)}
    BY <1>3, <2>2, <2>3
  <2>5. ToSet(c) = {c[j] : j \in 1 .. Len(c)}
    BY <2>4, SeqFacts
  <2> QED BY <2>3, <2>4, <2>5
<1> QED BY <1>2, <1>3, <1>5, <1>6, <1>7

\* What a part of a sequence holds.
LEMMA Slicing ==
    ASSUME NEW s, IsSequence(s), NEW m \in Nat, NEW n \in Nat, 1 <= m, m <= n + 1, n <= Len(s)
    PROVE  /\ IsSequence(SubSeq(s, m, n)) /\ Len(SubSeq(s, m, n)) = n - m + 1
           /\ \A i \in 1 .. n - m + 1 : SubSeq(s, m, n)[i] = s[m + i - 1]
<1>1. Len(s) \in Nat /\ \A i \in 1 .. Len(s) : s[i] \in ToSet(s)
  BY SeqFacts
<1>2. \A i \in m .. n : s[i] \in ToSet(s)
  BY <1>1
<1>3. /\ SubSeq(s, m, n) \in Seq(ToSet(s))
      /\ Len(SubSeq(s, m, n)) = IF m <= n THEN n - m + 1 ELSE 0
      /\ \A i \in 1 .. n - m + 1 : SubSeq(s, m, n)[i] = s[m + i - 1]
  <2>1. m \in Int /\ n \in Int
    OBVIOUS
  <2> QED BY <1>2, <2>1, SubSeqProperties
<1>4. IsSequence(SubSeq(s, m, n))
  BY <1>3, AnySeq
<1> QED BY <1>3, <1>4

\* Words written over the words of a block.
LEMMA Splicing ==
    ASSUME NEW w, NEW v, IsSequence(w), IsSequence(v), NEW m \in Nat, m + Len(v) <= Len(w)
    PROVE  LET r == SubSeq(w, 1, m) \o v \o SubSeq(w, m + Len(v) + 1, Len(w)) IN
           /\ IsSequence(r) /\ Len(r) = Len(w)
           /\ \A i \in 1 .. Len(w) :
                 r[i] = IF m < i /\ i <= m + Len(v) THEN v[i - m] ELSE w[i]
<1> DEFINE a == SubSeq(w, 1, m)
           c == SubSeq(w, m + Len(v) + 1, Len(w))
           k == m + Len(v)
<1>1. Len(w) \in Nat /\ Len(v) \in Nat /\ k \in Nat /\ k <= Len(w)
  BY SeqFacts
<1>2. IsSequence(a) /\ Len(a) = m /\ \A i \in 1 .. m : a[i] = w[i]
  <2>1. IsSequence(a) /\ Len(a) = m - 1 + 1 /\ \A i \in 1 .. m - 1 + 1 : a[i] = w[1 + i - 1]
    BY <1>1, Slicing
  <2> HIDE DEF a
  <2> QED BY <2>1
<1>3. /\ IsSequence(c) /\ Len(c) = Len(w) - k
      /\ \A i \in 1 .. Len(w) - k : c[i] = w[k + i]
  <2>1. k + 1 \in Nat /\ 1 <= k + 1 /\ k + 1 <= Len(w) + 1
    BY <1>1
  <2>2. /\ IsSequence(c) /\ Len(c) = Len(w) - (k + 1) + 1
        /\ \A i \in 1 .. Len(w) - (k + 1) + 1 : c[i] = w[(k + 1) + i - 1]
    BY <1>1, <2>1, Slicing
  <2> HIDE DEF c, k
  <2>3. \A i \in 1 .. Len(w) - k : (k + 1) + i - 1 = k + i
    BY <1>1
  <2> QED BY <1>1, <2>2, <2>3
<1> HIDE DEF a, c
<1>4. /\ IsSequence(a \o v) /\ Len(a \o v) = k
      /\ \A i \in 1 .. k : (a \o v)[i] = IF i <= m THEN a[i] ELSE v[i - m]
  <2>1. Len(a) + Len(v) = k
    BY <1>2
  <2> HIDE DEF k
  <2> QED BY <1>2, <2>1, Joining
<1>5. /\ IsSequence((a \o v) \o c) /\ Len((a \o v) \o c) = Len(w)
      /\ \A i \in 1 .. Len(w) : ((a \o v) \o c)[i] = IF i <= k THEN (a \o v)[i] ELSE c[i - k]
  <2>1. Len(a \o v) + Len(c) = Len(w)
    BY <1>1, <1>3, <1>4
  <2> HIDE DEF k
  <2> QED BY <1>3, <1>4, <2>1, Joining
<1>6. ASSUME NEW i \in 1 .. Len(w)
      PROVE  ((a \o v) \o c)[i] = IF m < i /\ i <= k THEN v[i - m] ELSE w[i]
  <2> DEFINE r == (a \o v) \o c
  <2> HIDE DEF k
  <2>0. r[i] = IF i <= k THEN (a \o v)[i] ELSE c[i - k]
    BY <1>5
  <2> SUFFICES r[i] = IF m < i /\ i <= k THEN v[i - m] ELSE w[i]
    OBVIOUS
  <2> HIDE DEF r
  <2>1. CASE i <= m
    <3>1. i <= k /\ i \in 1 .. k /\ i \in 1 .. m
      BY <1>1, <2>1 DEF k
    <3> QED BY <1>2, <1>4, <2>0, <2>1, <3>1
  <2>2. CASE m < i /\ i <= k
    <3>1. i \in 1 .. k /\ ~ (i <= m)
      BY <1>1, <2>2
    <3> QED BY <1>4, <2>0, <2>2, <3>1
  <2>3. CASE k < i
    <3>1. i - k \in 1 .. Len(w) - k /\ k + (i - k) = i
      BY <1>1, <2>3
    <3>2. c[i - k] = w[k + (i - k)]
      BY <1>3, <3>1
    <3>3. ~ (i <= k)
      BY <1>1, <2>3
    <3>4. r[i] = c[i - k]
      BY <2>0, <3>3
    <3> QED BY <2>3, <3>1, <3>2, <3>3, <3>4
  <2> QED BY <1>1, <2>1, <2>2, <2>3
<1> QED BY <1>5, <1>6, Zenon DEF a, c

-----------------------------------------------------------------------------
(***************************************************************************)
(* The sum over a set, which is taken element by element in an order that  *)
(* does not matter.                                                        *)
(***************************************************************************)
First(S) == CHOOSE x \in S : TRUE

\* f sums the capacities of the blocks of the subsets of S that are in D.
Sums(h, D, f) ==
    \A T \in D : f[T] = IF T = {} THEN 0 ELSE Capacity(h, First(T)) + f[T \ {First(T)}]

\* The element a sum takes first is one of the set.
LEMMA FirstIn == \A S : S # {} => First(S) \in S
BY DEF First

\* A finite set without one of its elements.
LEMMA Removed ==
    ASSUME NEW S, IsFiniteSet(S), NEW x \in S
    PROVE  /\ IsFiniteSet(S \ {x}) /\ Cardinality(S) \in Nat /\ Cardinality(S) # 0
           /\ Cardinality(S \ {x}) = Cardinality(S) - 1 /\ Cardinality(S \ {x}) \in Nat
<1>1. IsFiniteSet(S \ {x}) /\ Cardinality(S \ {x}) = Cardinality(S) - 1
  BY FS_RemoveElement
<1>2. Cardinality(S) \in Nat /\ Cardinality(S \ {x}) \in Nat
  BY <1>1, FS_CardinalityType
<1> QED BY <1>1, <1>2

\* MapThenSumSet is a function that sums subset by subset.
LEMMA SumsExist ==
    ASSUME NEW h, NEW S, IsFiniteSet(S)
    PROVE  \E f : SizeOf(h, S) = f[S] /\ Sums(h, SUBSET S, f)
<1> DEFINE Upto(n) == {T \in SUBSET S : Cardinality(T) <= n}
           Up(f, n) == f = [T \in Upto(n) |-> f[T]] /\ Sums(h, Upto(n), f)
           Bad == {n \in Nat : ~ \E f : Up(f, n)}
<1>1. \A T \in SUBSET S : IsFiniteSet(T) /\ Cardinality(T) \in Nat /\ Cardinality(T) <= Cardinality(S)
  BY FS_Subset, FS_CardinalityType
<1>2. Bad = {}
  <2>1. SUFFICES ASSUME Bad # {} PROVE FALSE
    OBVIOUS
  <2>2. PICK n \in Bad : \A k \in Bad : n <= k
    <3>1. Bad \in SUBSET Nat
      OBVIOUS
    <3> HIDE DEF Bad
    <3> QED BY <2>1, <3>1, Least
  <2>3. n \in Nat /\ ~ \E f : Up(f, n)
    BY <2>2
  <2>4. CASE n = 0
    <3> DEFINE f == [T \in Upto(0) |-> 0]
    <3>1. \A T \in Upto(0) : T = {}
      BY <1>1, FS_EmptySet
    <3>2. Up(f, 0)
      BY <3>1 DEF Sums
    <3> QED BY <2>3, <2>4, <3>2
  <2>5. CASE n # 0
    <3>1. n - 1 \in Nat /\ n - 1 \notin Bad
      <4> HIDE DEF Bad
      <4> QED BY <2>2, <2>3, <2>5
    <3>2. PICK f : Up(f, n - 1)
      BY <3>1
    <3> DEFINE g == [T \in Upto(n) |-> IF T = {} THEN 0 ELSE Capacity(h, First(T)) + f[T \ {First(T)}]]
    <3>3. ASSUME NEW T \in Upto(n), T # {}
          PROVE  T \ {First(T)} \in Upto(n) /\ g[T \ {First(T)}] = f[T \ {First(T)}]
      <4> DEFINE U == T \ {First(T)}
      <4>1. U \in SUBSET S /\ Cardinality(U) \in Nat /\ Cardinality(U) = Cardinality(T) - 1
        BY <1>1, <3>3, FirstIn, Removed
      <4>2. Cardinality(T) <= n /\ Cardinality(T) \in Nat
        BY <1>1
      <4>3. U \in Upto(n - 1) /\ U \in Upto(n)
        BY <2>3, <4>1, <4>2
      <4>4. f[U] = IF U = {} THEN 0 ELSE Capacity(h, First(U)) + f[U \ {First(U)}]
        BY <3>2, <4>3 DEF Sums
      <4> QED BY <4>3, <4>4
    <3>4. Sums(h, Upto(n), g)
      <4> SUFFICES ASSUME NEW T \in Upto(n)
                   PROVE  g[T] = IF T = {} THEN 0 ELSE Capacity(h, First(T)) + g[T \ {First(T)}]
        BY DEF Sums
      <4>1. g[T] = IF T = {} THEN 0 ELSE Capacity(h, First(T)) + f[T \ {First(T)}]
        OBVIOUS
      <4> HIDE DEF g
      <4> QED BY <3>3, <4>1
    <3>5. g = [T \in Upto(n) |-> g[T]]
      OBVIOUS
    <3> HIDE DEF g
    <3> QED BY <2>3, <3>4, <3>5
  <2> QED BY <2>4, <2>5
<1> DEFINE Iter(f) == f = [T \in SUBSET S |->
                            IF T = {} THEN 0
                            ELSE Capacity(h, First(T)) + f[T \ {First(T)}]]
<1>3. \E f : Iter(f)
  <2>1. Cardinality(S) \in Nat /\ Upto(Cardinality(S)) = SUBSET S
    BY <1>1
  <2>2. PICK f : Up(f, Cardinality(S))
    BY <1>2, <2>1
  <2>3. f = [T \in SUBSET S |-> f[T]] /\ Sums(h, SUBSET S, f)
    BY <2>1, <2>2
  <2>4. Iter(f)
    <3> DEFINE g == [T \in SUBSET S |->
                            IF T = {} THEN 0
                            ELSE Capacity(h, First(T)) + f[T \ {First(T)}]]
    <3>1. \A T \in SUBSET S : f[T] = g[T]
      BY <2>3 DEF Sums
    <3>2. [T \in SUBSET S |-> f[T]] = [T \in SUBSET S |-> g[T]]
      <4> HIDE DEF g
      <4> QED BY <3>1
    <3>3. g = [T \in SUBSET S |-> g[T]]
      OBVIOUS
    <3> QED BY <2>3, <3>2, <3>3, Zenon
  <2> QED BY <2>4
<1> DEFINE iter == CHOOSE f : Iter(f)
<1>4. Iter(iter)
  <2> HIDE DEF Iter
  <2> QED BY <1>3
<1>5. SizeOf(h, S) = iter[S]
  BY DEF SizeOf, MapThenSumSet, MapThenFoldSet, First
<1>6. Sums(h, SUBSET S, iter)
  <2> HIDE DEF iter
  <2> QED BY <1>4 DEF Sums
<1> QED BY <1>5, <1>6

\* Two sums over the same blocks.
LEMMA SumsAgree ==
    ASSUME NEW h, NEW g, NEW R, NEW S, NEW e, NEW f, Sums(h, SUBSET R, e), Sums(g, SUBSET S, f),
           NEW T, T \subseteq R, T \subseteq S, IsFiniteSet(T),
           \A b \in T : Capacity(h, b) = Capacity(g, b)
    PROVE  e[T] = f[T]
<1> DEFINE Sizes == {Cardinality(U) : U \in {U \in SUBSET T : e[U] # f[U]}}
<1>1. \A U \in SUBSET T : IsFiniteSet(U) /\ Cardinality(U) \in Nat
  BY FS_Subset, FS_CardinalityType
<1>2. Sizes = {}
  <2>1. SUFFICES ASSUME Sizes # {} PROVE FALSE
    OBVIOUS
  <2>2. PICK n \in Sizes : \A k \in Sizes : n <= k
    <3>1. Sizes \in SUBSET Nat
      BY <1>1
    <3> HIDE DEF Sizes
    <3> QED BY <2>1, <3>1, Least
  <2>3. PICK U \in SUBSET T : e[U] # f[U] /\ n = Cardinality(U)
    BY <2>2
  <2> DEFINE V == U \ {First(U)}
  <2>4. U \in SUBSET R /\ U \in SUBSET S /\ V \in SUBSET T /\ (U # {} => First(U) \in T)
    BY FirstIn
  <2>5. /\ e[U] = IF U = {} THEN 0 ELSE Capacity(h, First(U)) + e[V]
        /\ f[U] = IF U = {} THEN 0 ELSE Capacity(g, First(U)) + f[V]
    BY <2>4 DEF Sums
  <2>6. U # {} /\ e[V] # f[V]
    <3> HIDE DEF V
    <3> QED BY <2>3, <2>4, <2>5
  <2>7. Cardinality(V) = n - 1 /\ n \in Nat
    BY <1>1, <2>3, <2>6, FirstIn, Removed
  <2>8. Cardinality(V) \in Sizes
    BY <2>4, <2>6
  <2> HIDE DEF Sizes, V
  <2> QED BY <2>2, <2>7, <2>8
<1> QED BY <1>2

\* Equal capacities have equal sums.
LEMMA SizeSame ==
    ASSUME NEW h, NEW g, NEW S, IsFiniteSet(S), \A b \in S : Capacity(h, b) = Capacity(g, b)
    PROVE  SizeOf(h, S) = SizeOf(g, S)
<1>1. PICK e : SizeOf(h, S) = e[S] /\ Sums(h, SUBSET S, e)
  BY SumsExist
<1>2. PICK f : SizeOf(g, S) = f[S] /\ Sums(g, SUBSET S, f)
  BY SumsExist
<1> QED BY <1>1, <1>2, SumsAgree

\* The sum, element by element as it is computed.
LEMMA SizeFirst ==
    ASSUME NEW h, NEW S, IsFiniteSet(S)
    PROVE  SizeOf(h, S) = IF S = {} THEN 0
                          ELSE Capacity(h, First(S)) + SizeOf(h, S \ {First(S)})
<1> DEFINE T == S \ {First(S)}
<1>1. PICK e : SizeOf(h, S) = e[S] /\ Sums(h, SUBSET S, e)
  BY SumsExist
<1>2. IsFiniteSet(T) /\ T \subseteq S
  BY FS_Subset
<1>3. PICK f : SizeOf(h, T) = f[T] /\ Sums(h, SUBSET T, f)
  BY <1>2, SumsExist
<1>4. e[T] = f[T]
  <2> HIDE DEF T
  <2>1. T \subseteq T /\ \A b \in T : Capacity(h, b) = Capacity(h, b)
    OBVIOUS
  <2>2. Sums(h, SUBSET T, e) /\ Sums(h, SUBSET T, f)
    <3>1. \A U \in SUBSET T : U \in SUBSET S
      BY <1>2
    <3> QED BY <1>1, <1>3, <3>1 DEF Sums
  <2> QED BY <1>2, <2>1, <2>2, SumsAgree
<1>5. S \in SUBSET S
  OBVIOUS
<1>6. e[S] = IF S = {} THEN 0 ELSE Capacity(h, First(S)) + e[T]
  BY <1>1, <1>5 DEF Sums
<1>7. e[T] = SizeOf(h, T) /\ e[S] = SizeOf(h, S)
  BY <1>1, <1>3, <1>4
<1> HIDE DEF T
<1>8. SizeOf(h, S) = IF S = {} THEN 0 ELSE Capacity(h, First(S)) + SizeOf(h, T)
  BY <1>6, <1>7
<1> QED BY <1>8 DEF T

\* The sum may take any element first.
LEMMA SizeAny ==
    ASSUME NEW h, NEW S, IsFiniteSet(S), \A b \in S : Capacity(h, b) \in Nat
    PROVE  /\ SizeOf(h, S) \in Nat
           /\ \A x \in S : SizeOf(h, S) = Capacity(h, x) + SizeOf(h, S \ {x})
<1> DEFINE Right(T) == /\ SizeOf(h, T) \in Nat
                      /\ \A x \in T : SizeOf(h, T) = Capacity(h, x) + SizeOf(h, T \ {x})
           Sizes == {Cardinality(U) : U \in {U \in SUBSET S : ~ Right(U)}}
<1>1. \A U \in SUBSET S : IsFiniteSet(U) /\ Cardinality(U) \in Nat
  BY FS_Subset, FS_CardinalityType
<1>2. Sizes = {}
  <2>1. SUFFICES ASSUME Sizes # {} PROVE FALSE
    OBVIOUS
  <2>2. PICK n \in Sizes : \A k \in Sizes : n <= k
    <3>1. Sizes \in SUBSET Nat
      BY <1>1
    <3> HIDE DEF Sizes
    <3> QED BY <2>1, <3>1, Least
  <2>3. PICK U \in SUBSET S : ~ Right(U) /\ n = Cardinality(U)
    BY <2>2
  <2>4. ASSUME NEW V \in SUBSET S, Cardinality(V) < n PROVE Right(V)
    <3>1. Cardinality(V) \in Nat /\ n \in Nat
      BY <1>1, <2>3
    <3>2. Cardinality(V) \notin Sizes
      <4> HIDE DEF Sizes
      <4> QED BY <2>2, <2>4, <3>1
    <3> HIDE DEF Right
    <3> QED BY <3>2
  <2>5. \A x \in U : U \ {x} \in SUBSET S /\ Cardinality(U \ {x}) < n /\ IsFiniteSet(U)
    BY <1>1, <2>3, Removed
  <2>6. SizeOf(h, U) = IF U = {} THEN 0 ELSE Capacity(h, First(U)) + SizeOf(h, U \ {First(U)})
    BY <1>1, SizeFirst
  <2>7. SizeOf(h, U) \in Nat
    <3>1. CASE U = {}
      BY <2>6, <3>1
    <3>2. CASE U # {}
      <4>1. First(U) \in U
        BY <3>2, FirstIn
      <4>2. SizeOf(h, U \ {First(U)}) \in Nat
        BY <2>4, <2>5, <4>1
      <4>3. Capacity(h, First(U)) \in Nat
        BY <4>1
      <4> QED BY <2>6, <3>2, <4>2, <4>3
    <3> QED BY <3>1, <3>2
  <2>8. ASSUME NEW x \in U PROVE SizeOf(h, U) = Capacity(h, x) + SizeOf(h, U \ {x})
    <3> DEFINE y == First(U)
    <3>1. y \in U /\ U # {}
      BY FirstIn
    <3> HIDE DEF y
    <3>2. SizeOf(h, U) = Capacity(h, y) + SizeOf(h, U \ {y})
      BY <2>6, <3>1 DEF y
    <3>3. CASE x = y
      BY <3>2, <3>3
    <3>4. CASE x # y
      <4> DEFINE W == (U \ {x}) \ {y}
      <4>1. W = (U \ {y}) \ {x} /\ x \in U \ {y} /\ y \in U \ {x}
        BY <3>1, <3>4
      <4>2. SizeOf(h, U \ {y}) = Capacity(h, x) + SizeOf(h, W)
        BY <2>4, <2>5, <3>1, <4>1
      <4>3. SizeOf(h, U \ {x}) = Capacity(h, y) + SizeOf(h, W)
        BY <2>4, <2>5, <4>1
      <4>4. SizeOf(h, W) \in Nat
        <5>1. W \in SUBSET S /\ Cardinality(W) < n
          <6>1. Cardinality(W) < Cardinality(U \ {x})
            <7>1. U \ {x} \in SUBSET S
              BY <2>5
            <7>2. IsFiniteSet(U \ {x})
              BY <1>1, <7>1
            <7>3. Cardinality(W) = Cardinality(U \ {x}) - 1 /\ Cardinality(U \ {x}) \in Nat
              BY <4>1, <7>2, Removed
            <7> HIDE DEF W
            <7> QED BY <7>3
          <6>2. Cardinality(W) \in Nat /\ Cardinality(U \ {x}) \in Nat /\ n \in Nat
            BY <1>1, <2>3
          <6> QED BY <2>5, <6>1, <6>2
        <5> QED BY <2>4, <5>1
      <4>5. Capacity(h, x) \in Nat /\ Capacity(h, y) \in Nat
        BY <3>1
      <4> HIDE DEF W
      <4> QED BY <3>2, <4>2, <4>3, <4>4, <4>5
    <3> QED BY <3>3, <3>4
  <2> QED BY <2>3, <2>7, <2>8
<1>3. Right(S)
  <2>1. S \in SUBSET S
    OBVIOUS
  <2> HIDE DEF Right
  <2> QED BY <1>2, <2>1
<1> QED BY <1>3

\* One block more.
LEMMA SizeMore ==
    ASSUME NEW h, NEW S, IsFiniteSet(S), NEW b, b \notin S,
           Capacity(h, b) \in Nat, \A c \in S : Capacity(h, c) \in Nat
    PROVE  SizeOf(h, S \cup {b}) = SizeOf(h, S) + Capacity(h, b) /\ SizeOf(h, S) \in Nat
<1> DEFINE U == S \cup {b}
<1>1. IsFiniteSet(U) /\ U \ {b} = S /\ b \in U
  BY FS_AddElement
<1>2. \A c \in U : Capacity(h, c) \in Nat
  OBVIOUS
<1>3. SizeOf(h, U) = Capacity(h, b) + SizeOf(h, U \ {b})
  <2> HIDE DEF U
  <2> QED BY <1>1, <1>2, SizeAny
<1>4. SizeOf(h, S) \in Nat
  BY SizeAny
<1>5. SizeOf(h, U) = Capacity(h, b) + SizeOf(h, S)
  BY <1>1, <1>3, Zenon
<1> QED BY <1>4, <1>5

-----------------------------------------------------------------------------
(***************************************************************************)
(* A heap as the runtime keeps it, and the words that have been given out. *)
(***************************************************************************)
Address == Nat \X Nat

\* The words given out, those of the region r, and those of a piece.
Used(h) == {a \in Address : a[1] \in DOMAIN h.blocks /\ a[2] < h.blocks[a[1]].used}

Of(h, r) == {a \in Used(h) : a[1] \in ToSet(h.regions[r].blocks)}

Span(p, n) == {a \in Address : a[1] = p[1] /\ p[2] <= a[2] /\ a[2] < p[2] + n}

\* A place where any type may start.
Aligned(n) == n % Align = 0

Shaped(h) ==
    h = [blocks |-> h.blocks, next |-> h.next, regions |-> h.regions, arena |-> h.arena,
         stats |-> h.stats, tree |-> h.tree, ptr |-> h.ptr, died |-> h.died]

BlockGood(k) ==
    /\ k = [used |-> k.used, words |-> k.words]
    /\ k.used \in Nat /\ IsSequence(k.words) /\ k.used <= Len(k.words)

RegionGood(h, r) ==
    LET k == h.regions[r] IN
    /\ k = [blocks |-> k.blocks, blockSize |-> k.blockSize, total |-> k.total]
    /\ IsSequence(k.blocks) /\ k.blockSize \in Nat
    /\ \A b \in ToSet(k.blocks) : Aligned(h.blocks[b].used)

Stats ==
    [created : Nat, destroyed : Nat, alive : Nat, peak : Nat, blocksCreated : Nat,
     blocksDestroyed : Nat, blocksAlive : Nat, allocated : Nat, freed : Nat,
     bytesAlive : Nat, bytesPeak : Nat]

Well(h) ==
    /\ Shaped(h)
    /\ h.next \in Nat
    /\ \A b \in DOMAIN h.blocks : b \in Nat /\ b < h.next /\ BlockGood(h.blocks[b])
    /\ IsSequence(h.regions)
    /\ \A r \in 1 .. Len(h.regions) : RegionGood(h, r)
    /\ h.stats \in Stats
    /\ h.tree = [entries |-> h.tree.entries, depth |-> h.tree.depth, truncated |-> h.tree.truncated]
    /\ IsSequence(h.tree.entries) /\ h.tree.truncated \in BOOLEAN

Sound(h) == Well(h) /\ BlocksOwned(h) /\ StatsRight(h) /\ TreeRight(h)

\* What the operators below keep asking of a sound heap.
LEMMA SoundFacts ==
    ASSUME NEW h, Sound(h)
    PROVE  /\ IsFiniteSet(DOMAIN h.blocks) /\ Len(h.regions) \in Nat
           /\ \A b \in DOMAIN h.blocks : Capacity(h, b) \in Nat
           /\ \A r \in 1 .. Len(h.regions) :
                 /\ ToSet(h.regions[r].blocks) \subseteq Owned(h)
                 /\ h.regions[r].total \in Nat
           /\ Owned(h) \subseteq DOMAIN h.blocks /\ h.next \notin DOMAIN h.blocks
           /\ h.regions = [r \in 1 .. Len(h.regions) |-> h.regions[r]]
<1>1. IsFiniteSet(0 .. h.next) /\ DOMAIN h.blocks \in SUBSET (0 .. h.next)
  <2>1. h.next \in Nat /\ \A b \in DOMAIN h.blocks : b \in Nat /\ b < h.next
    BY DEF Sound, Well
  <2>2. PICK m \in Nat : m = h.next
    BY <2>1
  <2>3. IsFiniteSet(0 .. m)
    BY FS_Interval
  <2> QED BY <2>1, <2>2, <2>3
<1>2. IsFiniteSet(DOMAIN h.blocks)
  BY <1>1, FS_Subset
<1>3. \A b \in DOMAIN h.blocks : Capacity(h, b) \in Nat
  <2> TAKE b \in DOMAIN h.blocks
  <2>1. IsSequence(h.blocks[b].words)
    BY DEF Sound, Well, BlockGood
  <2> QED BY <2>1, SeqFacts DEF Capacity
<1>4. Owned(h) \subseteq DOMAIN h.blocks
  BY DEF Sound, BlocksOwned
<1>5. Len(h.regions) \in Nat /\ h.regions = [r \in 1 .. Len(h.regions) |-> h.regions[r]]
  BY SeqFacts DEF Sound, Well
<1>6. ASSUME NEW r \in 1 .. Len(h.regions)
      PROVE  ToSet(h.regions[r].blocks) \subseteq Owned(h) /\ h.regions[r].total \in Nat
  <2>1. ToSet(h.regions[r].blocks) \subseteq Owned(h)
    BY DEF Owned
  <2>2. IsFiniteSet(ToSet(h.regions[r].blocks))
    BY <1>2, <1>4, <2>1, FS_Subset
  <2>3. SizeOf(h, ToSet(h.regions[r].blocks)) \in Nat
    BY <1>3, <1>4, <2>1, <2>2, SizeAny
  <2> QED BY <2>1, <2>3 DEF Sound, BlocksOwned
<1>7. h.next \notin DOMAIN h.blocks
  BY DEF Sound, Well
<1> QED BY <1>2, <1>3, <1>4, <1>5, <1>6, <1>7

\* Any set of its blocks is finite and has a size.
LEMMA Finite ==
    ASSUME NEW h, Sound(h), NEW S, S \subseteq DOMAIN h.blocks
    PROVE  /\ IsFiniteSet(S) /\ SizeOf(h, S) \in Nat
           /\ Cardinality(S) \in Nat
BY SoundFacts, FS_Subset, FS_CardinalityType, SizeAny

\* The pointer returned and the way the program died are not part of it.
LEMMA SoundAsWell ==
    ASSUME NEW h, NEW g, Sound(h), Shaped(g), g.blocks = h.blocks, g.next = h.next,
           g.regions = h.regions, g.arena = h.arena, g.stats = h.stats, g.tree = h.tree
    PROVE  /\ Sound(g) /\ Used(g) = Used(h)
           /\ \A r : Of(g, r) = Of(h, r)
           /\ \A a : Word(g, a) = Word(h, a)
<1>1. Well(g)
  BY DEF Sound, Well, RegionGood
<1>2. Owned(g) = Owned(h)
  BY DEF Owned
<1>3. ASSUME NEW S, S \subseteq DOMAIN h.blocks PROVE SizeOf(g, S) = SizeOf(h, S)
  <2>1. IsFiniteSet(S)
    BY <1>3, Finite
  <2> QED BY <2>1, SizeSame DEF Capacity
<1>4. /\ \A r \in 1 .. Len(h.regions) : ToSet(h.regions[r].blocks) \subseteq DOMAIN h.blocks
      /\ Owned(h) \subseteq DOMAIN h.blocks
  BY SoundFacts
<1>5. BlocksOwned(g)
  BY <1>2, <1>3, <1>4 DEF Sound, BlocksOwned
<1>6. StatsRight(g) /\ TreeRight(g)
  BY <1>2, <1>3, <1>4 DEF Sound, StatsRight, TreeRight
<1>7. Used(g) = Used(h) /\ \A r : Of(g, r) = Of(h, r)
  BY DEF Used, Of
<1>8. \A a : Word(g, a) = Word(h, a)
  BY DEF Word
<1> QED BY <1>1, <1>5, <1>6, <1>7, <1>8 DEF Sound

\* The pointer returned is no part of the memory.
LEMMA Pointed ==
    ASSUME NEW h, Sound(h), NEW p
    PROVE  LET g == [h EXCEPT !.ptr = p] IN
           /\ Sound(g) /\ Used(g) = Used(h) /\ g.ptr = p /\ g.died = h.died
           /\ g.regions = h.regions
           /\ \A r : Of(g, r) = Of(h, r)
           /\ \A a : Word(g, a) = Word(h, a)
<1> DEFINE g == [h EXCEPT !.ptr = p]
<1>1. Shaped(h)
  BY DEF Sound, Well
<1>2. /\ Shaped(g) /\ g.blocks = h.blocks /\ g.next = h.next /\ g.regions = h.regions
      /\ g.arena = h.arena /\ g.stats = h.stats /\ g.tree = h.tree
      /\ g.ptr = p /\ g.died = h.died
  BY <1>1 DEF Shaped
<1> HIDE DEF g
<1>3. /\ Sound(g) /\ Used(g) = Used(h)
      /\ \A r : Of(g, r) = Of(h, r)
      /\ \A a : Word(g, a) = Word(h, a)
  BY <1>2, SoundAsWell
<1> QED BY <1>2, <1>3 DEF g

\* A program that dies leaves its memory as it was.
LEMMA Dead ==
    ASSUME NEW h, Sound(h), NEW why, why # "no"
    PROVE  /\ Sound(Die(h, why)) /\ Die(h, why).died # "no"
           /\ Die(h, why).regions = h.regions
           /\ Die(h, why).died = IF h.died = "no" THEN why ELSE h.died
<1> DEFINE g == [h EXCEPT !.died = why, !.ptr = Null]
<1>1. Shaped(h)
  BY DEF Sound, Well
<1>0. g = [h EXCEPT !.died = why, !.ptr = Null]
  OBVIOUS
<1> HIDE DEF g
<1>2. /\ Shaped(g) /\ g.blocks = h.blocks /\ g.next = h.next /\ g.regions = h.regions
      /\ g.arena = h.arena /\ g.stats = h.stats /\ g.tree = h.tree
      /\ g.died = why
  BY <1>0, <1>1 DEF Shaped
<1>3. Sound(g)
  BY <1>2, SoundAsWell
<1>4. Die(h, why) = IF h.died = "no" THEN g ELSE h
  BY DEF Die, g
<1> QED BY <1>2, <1>3, <1>4
-----------------------------------------------------------------------------
(***************************************************************************)
(* Allocation.                                                             *)
(***************************************************************************)
\* g is h with a block more for the region r, the block h.next of "capacity" words.
WithBlock(h, g, r, capacity) ==
    /\ Shaped(g)
    /\ g.next = h.next + 1 /\ g.arena = h.arena /\ g.tree = h.tree /\ g.died = h.died
    /\ g.stats = BlockCreated(h.stats, capacity)
    /\ DOMAIN g.blocks = DOMAIN h.blocks \cup {h.next}
    /\ \A b \in DOMAIN h.blocks : g.blocks[b] = h.blocks[b]
    /\ g.blocks[h.next] = [used |-> 0, words |-> Repeat(Junk, capacity)]
    /\ g.regions = [h.regions EXCEPT ![r] =
                      [blocks |-> <<h.next>> \o @.blocks, blockSize |-> @.blockSize,
                       total |-> @.total + capacity]]

\* n times the same word.
LEMMA Repeated ==
    ASSUME NEW v, NEW n \in Nat
    PROVE  /\ IsSequence(Repeat(v, n)) /\ Len(Repeat(v, n)) = n
           /\ \A i \in 1 .. n : Repeat(v, n)[i] = v
<1> DEFINE f == [i \in 1 .. n |-> v]
<1>1. IsSequence(f) /\ Len(f) = n /\ \A i \in 1 .. n : f[i] = v
  <2>1. DOMAIN f = 1 .. n /\ f = [i \in 1 .. n |-> f[i]] /\ \A i \in 1 .. n : f[i] = v
    OBVIOUS
  <2> HIDE DEF f
  <2> QED BY <2>1, MadeSeq
<1>2. IsSequence(<<>>) /\ Len(<<>>) = 0
  BY EmptySeq, AnySeq
<1>3. Repeat(v, n) = <<>> \o f
  BY DEF Repeat
<1>4. <<>> \o f = f
  <2> HIDE DEF f
  <2>1. f \in Seq(ToSet(f))
    BY <1>1 DEF IsSequence
  <2> QED BY <2>1, ConcatEmptySeq
<1> HIDE DEF f
<1> QED BY <1>1, <1>3, <1>4

\* A sequence of one word.
LEMMA One ==
    ASSUME NEW x
    PROVE  IsSequence(<<x>>) /\ Len(<<x>>) = 1 /\ <<x>>[1] = x /\ ToSet(<<x>>) = {x}
<1>1. <<x>> \in Seq({x})
  BY SeqDef
<1>2. IsSequence(<<x>>)
  BY <1>1, AnySeq
<1> QED BY <1>2 DEF ToSet

\* The heap RegionAlloc gives a new block is the old one with that block.
LEMMA BlockMade ==
    ASSUME NEW h, Sound(h), NEW r \in 1 .. Len(h.regions), NEW capacity \in Nat,
           NEW g, g = [RawBlock(h, capacity) EXCEPT
                         !.stats = BlockCreated(@, capacity),
                         !.regions[r] = [h.regions[r] EXCEPT
                                           !.blocks = <<h.next>> \o h.regions[r].blocks,
                                           !.total = h.regions[r].total + capacity]]
    PROVE  WithBlock(h, g, r, capacity)
<1> DEFINE made == [used |-> 0, words |-> Repeat(Junk, capacity)]
           blocks == [b \in DOMAIN h.blocks \union {h.next} |-> IF b = h.next THEN made ELSE h.blocks[b]]
           region == [blocks |-> <<h.next>> \o h.regions[r].blocks,
                      blockSize |-> h.regions[r].blockSize, total |-> h.regions[r].total + capacity]
<1>1. Shaped(h) /\ h.next \notin DOMAIN h.blocks
  BY SoundFacts DEF Sound, Well
<1>2. PICK k : k = RawBlock(h, capacity)
  OBVIOUS
<1>3. k = [h EXCEPT !.blocks = blocks, !.next = h.next + 1]
  BY <1>2 DEF RawBlock
<1>4. /\ DOMAIN blocks = DOMAIN h.blocks \cup {h.next}
      /\ \A b \in DOMAIN h.blocks : blocks[b] = h.blocks[b]
      /\ blocks[h.next] = made
  BY <1>1
<1> HIDE DEF blocks, made
<1>5. /\ Shaped(k) /\ k.blocks = blocks /\ k.next = h.next + 1
      /\ k.regions = h.regions /\ k.arena = h.arena /\ k.tree = h.tree /\ k.died = h.died
      /\ k.stats = h.stats /\ k.ptr = h.ptr
  BY <1>1, <1>3 DEF Shaped
<1>6. region = [h.regions[r] EXCEPT !.blocks = <<h.next>> \o h.regions[r].blocks,
                                   !.total = h.regions[r].total + capacity]
  <2>1. PICK e : e = h.regions[r]
    OBVIOUS
  <2>2. e = [blocks |-> e.blocks, blockSize |-> e.blockSize, total |-> e.total]
    BY <2>1 DEF Sound, Well, RegionGood
  <2>3. PICK x, y : x = <<h.next>> \o e.blocks /\ y = e.total + capacity
    OBVIOUS
  <2>4. PICK f : f = [e EXCEPT !.blocks = x, !.total = y]
    OBVIOUS
  <2>5. f = [blocks |-> x, blockSize |-> e.blockSize, total |-> y]
    BY <2>2, <2>4
  <2> QED BY <2>1, <2>3, <2>4, <2>5, Zenon
<1>7. PICK s : s = [k.regions EXCEPT ![r] = region]
  OBVIOUS
<1>8. g = [k EXCEPT !.stats = BlockCreated(@, capacity), !.regions[r] = region]
  BY <1>2, <1>6
<1> HIDE DEF region
<1>10. /\ Shaped(g) /\ g.next = k.next /\ g.arena = k.arena /\ g.tree = k.tree /\ g.died = k.died
       /\ g.blocks = k.blocks
       /\ g.stats = BlockCreated(k.stats, capacity)
       /\ g.regions = s
  BY <1>5, <1>7, <1>8 DEF Shaped
<1>11. g.regions = [h.regions EXCEPT ![r] = [blocks |-> <<h.next>> \o @.blocks,
                       blockSize |-> @.blockSize, total |-> @.total + capacity]]
  BY <1>5, <1>7, <1>10 DEF region
<1> QED BY <1>4, <1>5, <1>10, <1>11 DEF WithBlock, made

\* A new block at the head of a region's list.
LEMMA Prepended ==
    ASSUME NEW s, IsSequence(s), IsInjective(s), NEW x, x \notin ToSet(s)
    PROVE  /\ IsSequence(<<x>> \o s) /\ IsInjective(<<x>> \o s)
           /\ ToSet(<<x>> \o s) = ToSet(s) \cup {x}
           /\ Len(<<x>> \o s) = Len(s) + 1 /\ (<<x>> \o s)[1] = x
<1> DEFINE t == <<x>> \o s
<1>1. /\ IsSequence(t) /\ Len(t) = 1 + Len(s) /\ ToSet(t) = {x} \cup ToSet(s)
      /\ \A i \in 1 .. 1 + Len(s) : t[i] = IF i <= 1 THEN <<x>>[1] ELSE s[i - 1]
  <2>1. PICK u : u = <<x>>
    OBVIOUS
  <2>2. IsSequence(u) /\ Len(u) = 1 /\ ToSet(u) = {x} /\ u[1] = x
    BY <2>1, One
  <2>3. /\ IsSequence(u \o s) /\ Len(u \o s) = Len(u) + Len(s)
        /\ \A i \in 1 .. Len(u) + Len(s) :
                 (u \o s)[i] = IF i <= Len(u) THEN u[i] ELSE s[i - Len(u)]
        /\ ToSet(u \o s) = ToSet(u) \cup ToSet(s)
    BY <2>2, Joining
  <2>4. Len(s) \in Nat
    BY SeqFacts
  <2>5. t = u \o s /\ <<x>>[1] = u[1]
    BY <2>1
  <2> HIDE DEF t
  <2> QED BY <2>2, <2>3, <2>4, <2>5
<1> HIDE DEF t
<1>2. <<x>>[1] = x
  OBVIOUS
<1>3. Len(s) \in Nat /\ DOMAIN s = 1 .. Len(s) /\ DOMAIN t = 1 .. Len(t)
      /\ ToSet(s) = {s[i] : i \in 1 .. Len(s)}
  BY <1>1, SeqFacts
<1>4. ASSUME NEW i \in 2 .. Len(t) PROVE i - 1 \in 1 .. Len(s) /\ t[i] = s[i - 1] /\ t[i] # x
  <2>1. i - 1 \in 1 .. Len(s) /\ i \in 1 .. 1 + Len(s) /\ ~ (i <= 1)
    BY <1>1, <1>3
  <2> QED BY <1>1, <1>3, <2>1
<1>5. t[1] = x /\ \A i \in 1 .. Len(t) : i = 1 \/ i \in 2 .. Len(t)
  BY <1>1, <1>2, <1>3
<1>6. ASSUME NEW i \in 1 .. Len(t), NEW j \in 1 .. Len(t), t[i] = t[j] PROVE i = j
  <2>1. CASE i = 1 \/ j = 1
    BY <1>4, <1>5, <1>6, <2>1
  <2>2. CASE i # 1 /\ j # 1
    <3>1. i \in 2 .. Len(t) /\ j \in 2 .. Len(t)
      BY <1>5, <2>2
    <3>2. i - 1 = j - 1
      BY <1>3, <1>4, <1>6, <3>1 DEF IsInjective
    <3> QED BY <3>1, <3>2
  <2> QED BY <2>1, <2>2
<1>7. IsInjective(t)
  BY <1>3, <1>6 DEF IsInjective
<1> QED BY <1>1, <1>3, <1>5, <1>7 DEF t

\* Every statistic is a number.
LEMMA StatsTypes ==
    ASSUME NEW s \in Stats
    PROVE  /\ s = [created |-> s.created, destroyed |-> s.destroyed, alive |-> s.alive,
                   peak |-> s.peak, blocksCreated |-> s.blocksCreated,
                   blocksDestroyed |-> s.blocksDestroyed, blocksAlive |-> s.blocksAlive,
                   allocated |-> s.allocated, freed |-> s.freed,
                   bytesAlive |-> s.bytesAlive, bytesPeak |-> s.bytesPeak]
           /\ s.created \in Nat /\ s.destroyed \in Nat /\ s.alive \in Nat /\ s.peak \in Nat
           /\ s.blocksCreated \in Nat /\ s.blocksDestroyed \in Nat /\ s.blocksAlive \in Nat
           /\ s.allocated \in Nat /\ s.freed \in Nat /\ s.bytesAlive \in Nat
           /\ s.bytesPeak \in Nat
BY DEF Stats

\* What BlockCreated counts.
LEMMA BlockCounted ==
    ASSUME NEW s \in Stats, NEW c \in Nat
    PROVE  LET t == BlockCreated(s, c) IN
           /\ t \in Stats
           /\ t.created = s.created /\ t.destroyed = s.destroyed
           /\ t.alive = s.alive /\ t.peak = s.peak
           /\ t.blocksCreated = s.blocksCreated + 1
           /\ t.blocksDestroyed = s.blocksDestroyed
           /\ t.blocksAlive = s.blocksAlive + 1
           /\ t.allocated = s.allocated + c /\ t.freed = s.freed
           /\ t.bytesAlive = s.bytesAlive + c
           /\ t.bytesPeak >= t.bytesAlive
<1> DEFINE t == BlockCreated(s, c)
<1>0. t = BlockCreated(s, c)
  OBVIOUS
<1> HIDE DEF t
<1>10. /\ s = [created |-> s.created, destroyed |-> s.destroyed, alive |-> s.alive,
             peak |-> s.peak, blocksCreated |-> s.blocksCreated,
             blocksDestroyed |-> s.blocksDestroyed, blocksAlive |-> s.blocksAlive,
             allocated |-> s.allocated, freed |-> s.freed,
             bytesAlive |-> s.bytesAlive, bytesPeak |-> s.bytesPeak]
  BY StatsTypes
<1>1. PICK p : p = Larger(s.bytesPeak, s.bytesAlive + c)
  OBVIOUS
<1>2. p \in Nat /\ p >= s.bytesAlive + c
  BY <1>1, StatsTypes DEF Larger
<1>3. PICK a : a = [s EXCEPT !.blocksCreated = s.blocksCreated + 1,
                             !.blocksAlive = s.blocksAlive + 1]
  OBVIOUS
<1>4. PICK b : b = [a EXCEPT !.allocated = s.allocated + c, !.bytesAlive = s.bytesAlive + c]
  OBVIOUS
<1>5. a = [created |-> s.created, destroyed |-> s.destroyed, alive |-> s.alive,
           peak |-> s.peak, blocksCreated |-> s.blocksCreated + 1,
           blocksDestroyed |-> s.blocksDestroyed, blocksAlive |-> s.blocksAlive + 1,
           allocated |-> s.allocated, freed |-> s.freed,
           bytesAlive |-> s.bytesAlive, bytesPeak |-> s.bytesPeak]
  BY <1>3, <1>10
<1>6. b = [created |-> s.created, destroyed |-> s.destroyed, alive |-> s.alive,
           peak |-> s.peak, blocksCreated |-> s.blocksCreated + 1,
           blocksDestroyed |-> s.blocksDestroyed, blocksAlive |-> s.blocksAlive + 1,
           allocated |-> s.allocated + c, freed |-> s.freed,
           bytesAlive |-> s.bytesAlive + c, bytesPeak |-> s.bytesPeak]
  BY <1>4, <1>5
<1>7. t = [b EXCEPT !.bytesPeak = p]
  BY <1>0, <1>1, <1>3, <1>4, Zenon DEF BlockCreated
<1>8. t = [created |-> s.created, destroyed |-> s.destroyed, alive |-> s.alive,
           peak |-> s.peak, blocksCreated |-> s.blocksCreated + 1,
           blocksDestroyed |-> s.blocksDestroyed, blocksAlive |-> s.blocksAlive + 1,
           allocated |-> s.allocated + c, freed |-> s.freed,
           bytesAlive |-> s.bytesAlive + c, bytesPeak |-> p]
  BY <1>6, <1>7
<1>9. t \in Stats
  BY <1>2, <1>8, StatsTypes DEF Stats
<1> QED BY <1>2, <1>8, <1>9 DEF t

\* A new block is counted, belongs to its region only, and moves no word.
LEMMA BlockSound ==
    ASSUME NEW h, Sound(h), NEW r \in 1 .. Len(h.regions), NEW capacity \in Nat,
           NEW g, WithBlock(h, g, r, capacity)
    PROVE  /\ Sound(g) /\ Used(g) = Used(h) /\ Len(g.regions) = Len(h.regions)
           /\ h.next \in Nat /\ h.next \in ToSet(g.regions[r].blocks)
           /\ h.next \notin DOMAIN h.blocks
           /\ \A q \in 1 .. Len(h.regions) : Of(g, q) = Of(h, q)
           /\ \A a \in Used(h) : Word(g, a) = Word(h, a)
<1> DEFINE of(k, q) == ToSet(k.regions[q].blocks)
           R == 1 .. Len(h.regions)
<1>1. /\ h.next \in Nat /\ h.next \notin DOMAIN h.blocks /\ Len(h.regions) \in Nat
      /\ IsSequence(h.regions) /\ DOMAIN h.regions = R
      /\ Owned(h) \subseteq DOMAIN h.blocks
      /\ \A q \in R : of(h, q) \subseteq Owned(h) /\ h.regions[q].total \in Nat
  BY SoundFacts, SeqFacts DEF Sound, Well
<1>2. IsSequence(g.regions) /\ Len(g.regions) = Len(h.regions)
  <2>1. DOMAIN g.regions = R /\ g.regions = [q \in R |-> g.regions[q]]
    BY <1>1, SoundFacts DEF WithBlock
  <2> QED BY <1>1, <2>1, MadeSeq
<1>3. /\ Capacity(g, h.next) = capacity
      /\ \A b \in DOMAIN h.blocks : Capacity(g, b) = Capacity(h, b) /\ Capacity(h, b) \in Nat
  BY Repeated, SoundFacts DEF Capacity, WithBlock
<1>4. \A q \in R : IsSequence(h.regions[q].blocks) /\ IsInjective(h.regions[q].blocks)
  BY DEF Sound, Well, RegionGood, BlocksOwned
<1>5. /\ IsSequence(g.regions[r].blocks) /\ IsInjective(g.regions[r].blocks)
      /\ of(g, r) = of(h, r) \cup {h.next}
      /\ g.regions[r] = [blocks |-> g.regions[r].blocks, blockSize |-> h.regions[r].blockSize,
                         total |-> h.regions[r].total + capacity]
  <2>1. g.regions[r] = [blocks |-> <<h.next>> \o h.regions[r].blocks,
               blockSize |-> h.regions[r].blockSize, total |-> h.regions[r].total + capacity]
    BY <1>1 DEF WithBlock
  <2>2. h.next \notin ToSet(h.regions[r].blocks)
    BY <1>1
  <2>3. PICK t : t = <<h.next>> \o h.regions[r].blocks
    OBVIOUS
  <2>4. /\ IsSequence(t) /\ IsInjective(t)
        /\ ToSet(t) = ToSet(h.regions[r].blocks) \cup {h.next}
    BY <1>4, <2>2, <2>3, Prepended
  <2>5. g.regions[r].blocks = t
    BY <2>1, <2>3
  <2> QED BY <2>1, <2>3, <2>4, <2>5
<1>6. \A q \in R \ {r} : g.regions[q] = h.regions[q]
  BY <1>1 DEF WithBlock
<1>7. Owned(g) = Owned(h) \cup {h.next}
  <2>1. \A q \in R : of(g, q) = IF q = r THEN of(h, q) \cup {h.next} ELSE of(h, q)
    BY <1>5, <1>6
  <2>2. Owned(g) = UNION {of(g, q) : q \in R} /\ Owned(h) = UNION {of(h, q) : q \in R}
    BY <1>2 DEF Owned
  <2> HIDE DEF of
  <2> QED BY <2>1, <2>2
<1>8. /\ DOMAIN g.blocks = DOMAIN h.blocks \cup {h.next} /\ g.next = h.next + 1
      /\ \A b \in DOMAIN h.blocks : g.blocks[b] = h.blocks[b]
      /\ g.blocks[h.next] = [used |-> 0, words |-> Repeat(Junk, capacity)]
      /\ g.arena = h.arena /\ g.tree = h.tree /\ g.stats = BlockCreated(h.stats, capacity)
  BY DEF WithBlock
<1>9. h.stats \in Stats /\ g.stats \in Stats
      /\ g.stats.created = h.stats.created /\ g.stats.destroyed = h.stats.destroyed
      /\ g.stats.alive = h.stats.alive /\ g.stats.peak = h.stats.peak
      /\ g.stats.blocksCreated = h.stats.blocksCreated + 1
      /\ g.stats.blocksDestroyed = h.stats.blocksDestroyed
      /\ g.stats.blocksAlive = h.stats.blocksAlive + 1
      /\ g.stats.allocated = h.stats.allocated + capacity /\ g.stats.freed = h.stats.freed
      /\ g.stats.bytesAlive = h.stats.bytesAlive + capacity
      /\ g.stats.bytesPeak >= g.stats.bytesAlive
  <2>1. h.stats \in Stats
    BY DEF Sound, Well
  <2>2. g.stats = BlockCreated(h.stats, capacity)
    BY <1>8
  <2>3. PICK s : s = h.stats
    OBVIOUS
  <2>4. PICK t : t = BlockCreated(s, capacity)
    OBVIOUS
  <2>5. /\ t \in Stats
        /\ t.created = s.created /\ t.destroyed = s.destroyed
        /\ t.alive = s.alive /\ t.peak = s.peak
        /\ t.blocksCreated = s.blocksCreated + 1
        /\ t.blocksDestroyed = s.blocksDestroyed
        /\ t.blocksAlive = s.blocksAlive + 1
        /\ t.allocated = s.allocated + capacity /\ t.freed = s.freed
        /\ t.bytesAlive = s.bytesAlive + capacity
        /\ t.bytesPeak >= t.bytesAlive
    BY <2>1, <2>3, <2>4, BlockCounted
  <2>6. g.stats = t
    BY <2>2, <2>3, <2>4
  <2> QED BY <2>1, <2>3, <2>5, <2>6
<1>10. Well(g)
  <2>1. Shaped(g) /\ g.next \in Nat
    BY <1>1, <1>8 DEF WithBlock
  <2>2. ASSUME NEW b \in DOMAIN g.blocks
        PROVE  b \in Nat /\ b < g.next /\ BlockGood(g.blocks[b])
    <3>1. CASE b = h.next
      <4>1. PICK k : k = g.blocks[b] /\ k = [used |-> 0, words |-> Repeat(Junk, capacity)]
        BY <1>8, <3>1
      <4>2. BlockGood(k)
        BY <4>1, Repeated DEF BlockGood
      <4> QED BY <1>1, <1>8, <3>1, <4>1, <4>2
    <3>2. CASE b \in DOMAIN h.blocks
      BY <1>1, <1>8, <3>2 DEF Sound, Well
    <3> QED BY <1>8, <3>1, <3>2
  <2>3. ASSUME NEW q \in R PROVE RegionGood(g, q)
    <3>0. RegionGood(h, q)
      BY DEF Sound, Well
    <3>1. CASE q = r
      <4>1. \A b \in of(g, q) : Aligned(g.blocks[b].used)
        <5>1. Aligned(g.blocks[h.next].used)
          <6>1. 0 % Align = 0
            BY SizesAssumption
          <6>2. g.blocks[h.next].used = 0
            BY <1>8
          <6> QED BY <6>1, <6>2 DEF Aligned
        <5>2. \A b \in of(h, q) : Aligned(g.blocks[b].used)
          BY <1>1, <1>8, <3>0 DEF RegionGood
        <5> QED BY <1>5, <3>1, <5>1, <5>2
      <4>2. PICK k : k = g.regions[q]
        OBVIOUS
      <4>3. k = [blocks |-> k.blocks, blockSize |-> k.blockSize, total |-> k.total]
            /\ k.blockSize \in Nat
        BY <1>5, <3>0, <3>1, <4>2 DEF RegionGood
      <4> QED BY <1>5, <3>1, <4>1, <4>2, <4>3 DEF RegionGood
    <3>2. CASE q # r
      BY <1>1, <1>6, <1>8, <3>0, <3>2 DEF RegionGood
    <3> QED BY <3>1, <3>2
  <2> QED BY <1>2, <1>8, <1>9, <2>1, <2>2, <2>3 DEF Sound, Well
<1>11. ASSUME NEW S, S \subseteq DOMAIN h.blocks
       PROVE  /\ SizeOf(g, S) = SizeOf(h, S) /\ IsFiniteSet(S) /\ SizeOf(h, S) \in Nat
              /\ SizeOf(g, S \cup {h.next}) = SizeOf(h, S) + capacity
              /\ Cardinality(S \cup {h.next}) = Cardinality(S) + 1 /\ Cardinality(S) \in Nat
  <2>1. IsFiniteSet(S) /\ SizeOf(h, S) \in Nat /\ Cardinality(S) \in Nat
    BY <1>11, Finite
  <2>2. SizeOf(g, S) = SizeOf(h, S)
    BY <1>3, <1>11, <2>1, SizeSame
  <2>3. SizeOf(g, S \cup {h.next}) = SizeOf(g, S) + Capacity(g, h.next)
    <3>1. h.next \notin S /\ Capacity(g, h.next) \in Nat /\ \A c \in S : Capacity(g, c) \in Nat
      BY <1>1, <1>3, <1>11
    <3> QED BY <2>1, <3>1, SizeMore
  <2>4. Cardinality(S \cup {h.next}) = Cardinality(S) + 1
    BY <1>1, <1>11, <2>1, FS_AddElement
  <2> QED BY <1>3, <2>1, <2>2, <2>3, <2>4
<1>12. BlocksOwned(g)
  <2>1. DOMAIN g.blocks = Owned(g) \cup ToSet(g.arena)
    BY <1>7, <1>8 DEF Sound, BlocksOwned
  <2>2. ASSUME NEW q \in R
        PROVE  /\ IsInjective(g.regions[q].blocks) /\ of(g, q) \cap ToSet(g.arena) = {}
               /\ \A p \in R \ {q} : of(g, q) \cap of(g, p) = {}
               /\ g.regions[q].total = SizeOf(g, of(g, q))
    <3>1. ToSet(h.arena) \subseteq DOMAIN h.blocks /\ of(h, q) \subseteq DOMAIN h.blocks
      BY <1>1 DEF Sound, BlocksOwned
    <3>2. of(h, q) \cap ToSet(h.arena) = {} /\ \A p \in R \ {q} : of(h, q) \cap of(h, p) = {}
      BY DEF Sound, BlocksOwned
    <3>7. h.regions[q].total = SizeOf(h, of(h, q))
      BY DEF Sound, BlocksOwned
    <3>3. IsInjective(g.regions[q].blocks)
      BY <1>4, <1>5, <1>6
    <3>4. of(g, q) \cap ToSet(g.arena) = {}
      <4>1. CASE q = r
        BY <1>1, <1>5, <1>8, <3>1, <3>2, <4>1
      <4>2. CASE q # r
        <5>1. of(g, q) = of(h, q)
          BY <1>6, <4>2
        <5> QED BY <1>8, <3>1, <3>2, <5>1, <4>2
      <4> QED BY <4>1, <4>2
    <3>5. \A p \in R \ {q} : of(g, q) \cap of(g, p) = {}
      <4> TAKE p \in R \ {q}
      <4>1. of(h, p) \subseteq DOMAIN h.blocks
        BY <1>1
      <4>2. of(g, q) = IF q = r THEN of(h, q) \cup {h.next} ELSE of(h, q)
        BY <1>5, <1>6
      <4>3. of(g, p) = IF p = r THEN of(h, p) \cup {h.next} ELSE of(h, p)
        BY <1>5, <1>6
      <4> HIDE DEF of
      <4> QED BY <1>1, <3>1, <3>2, <4>1, <4>2, <4>3
    <3>6. g.regions[q].total = SizeOf(g, of(g, q))
      <4>1. CASE q = r
        <5>1. g.regions[q].total = h.regions[q].total + capacity
          BY <1>5, <4>1
        <5>2. SizeOf(g, of(h, q) \cup {h.next}) = SizeOf(h, of(h, q)) + capacity
          BY <1>11, <3>1
        <5>3. of(g, q) = of(h, q) \cup {h.next} /\ h.regions[q].total = SizeOf(h, of(h, q))
          BY <1>5, <3>7, <4>1, Zenon
        <5> HIDE DEF of
        <5> QED BY <5>1, <5>2, <5>3
      <4>2. CASE q # r
        <5>1. g.regions[q].total = h.regions[q].total /\ of(g, q) = of(h, q)
          BY <1>6, <4>2
        <5>2. SizeOf(g, of(h, q)) = SizeOf(h, of(h, q))
          BY <1>11, <3>1
        <5> HIDE DEF of
        <5> QED BY <3>7, <5>1, <5>2
      <4> QED BY <4>1, <4>2
    <3> QED BY <3>3, <3>4, <3>5, <3>6
  <2> QED BY <1>2, <2>1, <2>2 DEF BlocksOwned
<1>13. StatsRight(g)
  <2>1. /\ SizeOf(g, Owned(g)) = SizeOf(h, Owned(h)) + capacity
        /\ Cardinality(Owned(g)) = Cardinality(Owned(h)) + 1
        /\ SizeOf(h, Owned(h)) \in Nat /\ Cardinality(Owned(h)) \in Nat
    BY <1>1, <1>7, <1>11
  <2> DEFINE s == h.stats
             t == g.stats
  <2>2. /\ s.alive = Len(h.regions) /\ s.created - s.destroyed = s.alive /\ s.peak >= s.alive
        /\ s.blocksAlive = Cardinality(Owned(h))
        /\ s.blocksCreated - s.blocksDestroyed = s.blocksAlive
        /\ s.bytesAlive = SizeOf(h, Owned(h))
        /\ s.allocated - s.freed = s.bytesAlive /\ s.bytesPeak >= s.bytesAlive
    BY DEF Sound, StatsRight
  <2>3. /\ s.blocksCreated \in Nat /\ s.blocksDestroyed \in Nat /\ s.blocksAlive \in Nat
        /\ s.allocated \in Nat /\ s.freed \in Nat /\ s.bytesAlive \in Nat
    BY <1>9, StatsTypes
  <2>4. /\ t.created = s.created /\ t.destroyed = s.destroyed
        /\ t.alive = s.alive /\ t.peak = s.peak
        /\ t.blocksCreated = s.blocksCreated + 1
        /\ t.blocksDestroyed = s.blocksDestroyed
        /\ t.blocksAlive = s.blocksAlive + 1
        /\ t.allocated = s.allocated + capacity /\ t.freed = s.freed
        /\ t.bytesAlive = s.bytesAlive + capacity
        /\ t.bytesPeak >= t.bytesAlive
    BY <1>9
  <2> HIDE DEF s, t
  <2>5. /\ t.alive = Len(g.regions) /\ t.created - t.destroyed = t.alive /\ t.peak >= t.alive
        /\ t.blocksAlive = Cardinality(Owned(g))
        /\ t.blocksCreated - t.blocksDestroyed = t.blocksAlive
    <3>1. t.alive = Len(g.regions) /\ t.created - t.destroyed = t.alive /\ t.peak >= t.alive
      BY <1>2, <2>2, <2>4
    <3>2. t.blocksAlive = Cardinality(Owned(g))
      BY <2>1, <2>2, <2>4
    <3>3. t.blocksCreated - t.blocksDestroyed = t.blocksAlive
      <4>1. s.blocksCreated \in Nat /\ s.blocksDestroyed \in Nat /\ s.blocksAlive \in Nat
        BY <2>3
      <4>2. s.blocksCreated - s.blocksDestroyed = s.blocksAlive
        BY <2>2
      <4>3. (s.blocksCreated + 1) - s.blocksDestroyed = s.blocksAlive + 1
        BY <4>1, <4>2
      <4> QED BY <2>4, <4>3
    <3> QED BY <3>1, <3>2, <3>3
  <2>6. /\ t.bytesAlive = SizeOf(g, Owned(g))
        /\ t.allocated - t.freed = t.bytesAlive /\ t.bytesPeak >= t.bytesAlive
    BY <2>1, <2>2, <2>3, <2>4
  <2> QED BY <2>5, <2>6 DEF StatsRight, t
<1>14. TreeRight(g)
  BY <1>2, <1>8, <1>9 DEF Sound, TreeRight
<1>15. Sound(g)
  BY <1>10, <1>12, <1>13, <1>14 DEF Sound
<1>16. Used(g) = Used(h)
  <2>1. ASSUME NEW a \in Used(g) PROVE a \in Used(h)
    <3>1. a[1] # h.next
      BY <1>8 DEF Used, Address
    <3> QED BY <1>8, <3>1 DEF Used
  <2>2. ASSUME NEW a \in Used(h) PROVE a \in Used(g)
    BY <1>8 DEF Used
  <2> QED BY <2>1, <2>2
<1>17. ASSUME NEW q \in R PROVE Of(g, q) = Of(h, q)
  <2>1. \A a \in Used(h) : a[1] # h.next
    BY <1>1 DEF Used
  <2>2. of(g, q) = IF q = r THEN of(h, q) \cup {h.next} ELSE of(h, q)
    BY <1>5, <1>6
  <2> QED BY <1>16, <2>1, <2>2 DEF Of
<1>18. \A a \in Used(h) : Word(g, a) = Word(h, a)
  BY <1>8 DEF Used, Word
<1> QED BY <1>1, <1>2, <1>5, <1>15, <1>16, <1>17, <1>18

\* g comes of h: nothing given out is lost, and outside A nothing given out is changed.
Extends(h, g, A) ==
    /\ Used(h) \subseteq Used(g) /\ Len(g.regions) = Len(h.regions)
    /\ \A r \in 1 .. Len(h.regions) : Of(h, r) \subseteq Of(g, r)
    /\ \A a \in Used(h) \ A : Word(g, a) = Word(h, a)

\* Quotient and remainder.
LEMMA Divided ==
    ASSUME NEW a \in Nat, NEW d \in Nat \ {0}
    PROVE  \E q \in Nat, r \in 0 .. (d - 1) : a = q * d + r /\ a \div d = q /\ a % d = r
<1>1. PICK q, r : q = a \div d /\ r = a % d
  OBVIOUS
<1>2. a = q * d + r
  BY <1>1
<1>3. q \in Nat
  BY <1>1
<1>4. r \in 0 .. (d - 1)
  BY <1>1
<1> QED BY <1>1, <1>2, <1>3, <1>4

\* A multiple has no remainder.
LEMMA Multiple ==
    ASSUME NEW q \in Nat, NEW d \in Nat \ {0}
    PROVE  (q * d) % d = 0
OBVIOUS

\* AlignUp rounds up, by less than the alignment.
LEMMA RoundsUp ==
    ASSUME NEW n \in Nat
    PROVE  /\ RoundUp(n) \in Nat /\ RoundUp(n) >= n /\ RoundUp(n) <= n + Align - 1
           /\ RoundUp(n) % Align = 0
<1>1. Align \in Nat \ {0}
  BY SizesAssumption
<1>2. n + Align - 1 \in Nat
  BY <1>1
<1>3. PICK q \in Nat, r \in 0 .. (Align - 1) :
        n + Align - 1 = q * Align + r /\ (n + Align - 1) \div Align = q
  BY <1>1, <1>2, Divided
<1>4. RoundUp(n) = q * Align
  BY <1>3 DEF RoundUp
<1>5. (q * Align) % Align = 0
  BY <1>1, Multiple
<1>6. PICK m : m = q * Align
  OBVIOUS
<1>7. m \in Nat
  BY <1>1, <1>6
<1>8. m >= n /\ m <= n + Align - 1
  BY <1>1, <1>3, <1>6, <1>7
<1> QED BY <1>4, <1>5, <1>6, <1>7, <1>8

\* Aligned pieces end where the next may start.
LEMMA AlignedSum ==
    ASSUME NEW a \in Nat, NEW b \in Nat, Aligned(a), Aligned(b)
    PROVE  Aligned(a + b)
<1>1. Align \in Nat \ {0}
  BY SizesAssumption
<1>2. PICK d : d = Align
  OBVIOUS
<1>3. PICK p \in Nat, x \in 0 .. (d - 1) : a = p * d + x /\ a \div d = p /\ a % d = x
  BY <1>1, <1>2, Divided
<1>4. PICK q \in Nat, y \in 0 .. (d - 1) : b = q * d + y /\ b \div d = q /\ b % d = y
  BY <1>1, <1>2, Divided
<1>5. x = 0 /\ y = 0
  BY <1>2, <1>3, <1>4 DEF Aligned
<1>6. PICK m \in Nat : m = p + q
  OBVIOUS
<1>7. a + b = m * d
  BY <1>1, <1>2, <1>3, <1>4, <1>5, <1>6
<1>8. (m * d) % d = 0
  BY <1>1, <1>2, Multiple
<1> QED BY <1>2, <1>7, <1>8 DEF Aligned

\* Words are not counted, only blocks.
LEMMA SameBlocks ==
    ASSUME NEW h, Sound(h), NEW g, DOMAIN g.blocks = DOMAIN h.blocks,
           \A c \in DOMAIN h.blocks : Len(g.blocks[c].words) = Len(h.blocks[c].words),
           g.regions = h.regions, g.arena = h.arena, g.stats = h.stats, g.tree = h.tree
    PROVE  BlocksOwned(g) /\ StatsRight(g) /\ TreeRight(g)
<1>9. Owned(g) = Owned(h)
  BY DEF Owned
<1>10. ASSUME NEW S, S \subseteq DOMAIN h.blocks PROVE SizeOf(g, S) = SizeOf(h, S)
  <2>1. IsFiniteSet(S)
    BY <1>10, Finite
  <2>2. \A c \in S : Capacity(g, c) = Capacity(h, c)
    BY <1>10 DEF Capacity
  <2> QED BY <2>1, <2>2, SizeSame
<1>11. /\ \A q \in 1 .. Len(h.regions) : ToSet(h.regions[q].blocks) \subseteq DOMAIN h.blocks
       /\ Owned(h) \subseteq DOMAIN h.blocks
  BY SoundFacts
<1>12. BlocksOwned(g)
  <2> DEFINE of(q) == ToSet(h.regions[q].blocks)
  <2>1. /\ DOMAIN h.blocks = Owned(h) \union ToSet(h.arena)
        /\ \A q \in 1 .. Len(h.regions) :
             /\ IsInjective(h.regions[q].blocks) /\ of(q) \intersect ToSet(h.arena) = {}
             /\ \A p \in (1 .. Len(h.regions)) \ {q} : of(q) \intersect of(p) = {}
             /\ h.regions[q].total = SizeOf(h, of(q))
    BY DEF Sound, BlocksOwned
  <2>2. \A q \in 1 .. Len(h.regions) : SizeOf(g, of(q)) = SizeOf(h, of(q))
    BY <1>10, <1>11
  <2>3. DOMAIN g.blocks = Owned(g) \union ToSet(g.arena)
    BY <1>9, <2>1
  <2>4. ASSUME NEW q \in 1 .. Len(g.regions)
        PROVE  /\ IsInjective(g.regions[q].blocks)
               /\ ToSet(g.regions[q].blocks) \intersect ToSet(g.arena) = {}
               /\ \A p \in (1 .. Len(g.regions)) \ {q} :
                    ToSet(g.regions[q].blocks) \intersect ToSet(g.regions[p].blocks) = {}
               /\ g.regions[q].total = SizeOf(g, ToSet(g.regions[q].blocks))
    <3>1. q \in 1 .. Len(h.regions) /\ g.regions = h.regions /\ g.arena = h.arena
      OBVIOUS
    <3>2. g.regions[q].total = SizeOf(g, ToSet(g.regions[q].blocks))
      BY <2>1, <2>2, <3>1
    <3>3. /\ IsInjective(g.regions[q].blocks)
          /\ ToSet(g.regions[q].blocks) \intersect ToSet(g.arena) = {}
      BY <2>1, <3>1
    <3>4. \A p \in (1 .. Len(g.regions)) \ {q} :
            ToSet(g.regions[q].blocks) \intersect ToSet(g.regions[p].blocks) = {}
      BY <2>1, <3>1
    <3> QED BY <3>2, <3>3, <3>4
  <2> QED BY <2>3, <2>4 DEF BlocksOwned
<1>13. StatsRight(g) /\ TreeRight(g)
  BY <1>9, <1>10, <1>11 DEF Sound, StatsRight, TreeRight
<1> QED BY <1>12, <1>13

\* A piece taken from the free part of a block.
LEMMA PieceTaken ==
    ASSUME NEW h, Sound(h), NEW r \in 1 .. Len(h.regions), NEW b \in ToSet(h.regions[r].blocks),
           NEW n \in Nat, Aligned(n), h.blocks[b].used + n <= Capacity(h, b),
           NEW g, g = Taken(h, b, h.blocks[b].used, n)
    PROVE  /\ Sound(g) /\ g.died = h.died /\ g.ptr = <<b, h.blocks[b].used>>
           /\ g.ptr \in Address /\ Aligned(g.ptr[2]) /\ Extends(h, g, {})
           /\ Span(g.ptr, n) \subseteq Of(g, r) /\ Span(g.ptr, n) \cap Used(h) = {}
<1> DEFINE at == h.blocks[b].used
<1>1. /\ b \in DOMAIN h.blocks /\ b \in Nat /\ BlockGood(h.blocks[b]) /\ at \in Nat
      /\ Aligned(at)
  <2>1. b \in DOMAIN h.blocks /\ RegionGood(h, r)
    BY SoundFacts DEF Sound, Well
  <2>2. b \in Nat /\ BlockGood(h.blocks[b])
    BY <2>1 DEF Sound, Well
  <2> QED BY <2>1, <2>2 DEF RegionGood, BlockGood
<1>2. Aligned(at + n) /\ at + n \in Nat
  <2>1. PICK m : m = at
    OBVIOUS
  <2>2. Aligned(m + n) /\ m + n \in Nat
    BY <1>1, <2>1, AlignedSum
  <2> QED BY <2>1, <2>2
<1>3. PICK blocks : blocks = [h.blocks EXCEPT ![b].used = at + n]
  OBVIOUS
<1>4. /\ DOMAIN blocks = DOMAIN h.blocks
      /\ \A c \in DOMAIN h.blocks \ {b} : blocks[c] = h.blocks[c]
  BY <1>3
<1>5. blocks[b] = [used |-> at + n, words |-> h.blocks[b].words]
  <2>1. PICK k : k = h.blocks[b]
    OBVIOUS
  <2>2. k = [used |-> k.used, words |-> k.words]
    BY <1>1, <2>1 DEF BlockGood
  <2>3. PICK l : l = [k EXCEPT !.used = at + n]
    OBVIOUS
  <2>4. l = [used |-> at + n, words |-> k.words]
    BY <2>2, <2>3
  <2>5. blocks[b] = l
    BY <1>1, <1>3, <2>1, <2>3
  <2> QED BY <2>1, <2>4, <2>5
<1>6. \A c \in DOMAIN h.blocks : blocks[c].words = h.blocks[c].words /\ Len(blocks[c].words) = Capacity(h, c)
  BY <1>4, <1>5 DEF Capacity
<1>7. /\ Shaped(g) /\ g.blocks = blocks /\ g.next = h.next /\ g.regions = h.regions
      /\ g.arena = h.arena /\ g.stats = h.stats /\ g.tree = h.tree
      /\ g.ptr = <<b, at>> /\ g.died = h.died
  <2>1. g = [h EXCEPT !.blocks = blocks, !.ptr = <<b, at>>]
    BY <1>3 DEF Taken
  <2>2. Shaped(h)
    BY DEF Sound, Well
  <2> QED BY <2>1, <2>2 DEF Shaped
<1> HIDE DEF at
<1>8. Well(g)
  <2>1. ASSUME NEW c \in DOMAIN g.blocks
        PROVE  c \in Nat /\ c < g.next /\ BlockGood(g.blocks[c])
    <3>1. c \in Nat /\ c < h.next /\ BlockGood(h.blocks[c])
      BY <1>4, <1>7 DEF Sound, Well
    <3>2. CASE c = b
      <4>1. PICK k : k = blocks[b]
        OBVIOUS
      <4>2. BlockGood(k)
        BY <1>1, <1>2, <1>5, <4>1 DEF BlockGood, Capacity, at
      <4> QED BY <1>7, <3>1, <3>2, <4>1, <4>2
    <3>3. CASE c # b
      BY <1>4, <1>7, <3>1, <3>3
    <3> QED BY <3>2, <3>3
  <2>2. ASSUME NEW q \in 1 .. Len(h.regions) PROVE RegionGood(g, q)
    <3>1. RegionGood(h, q) /\ ToSet(h.regions[q].blocks) \subseteq DOMAIN h.blocks
      BY SoundFacts DEF Sound, Well
    <3>2. \A c \in ToSet(h.regions[q].blocks) : Aligned(blocks[c].used)
      BY <1>2, <1>4, <1>5, <3>1 DEF RegionGood
    <3> QED BY <1>7, <3>1, <3>2 DEF RegionGood
  <2>3. h.next \in Nat /\ IsSequence(h.regions) /\ h.stats \in Stats
        /\ h.tree = [entries |-> h.tree.entries, depth |-> h.tree.depth, truncated |-> h.tree.truncated]
        /\ IsSequence(h.tree.entries) /\ h.tree.truncated \in BOOLEAN
    BY DEF Sound, Well
  <2> QED BY <1>7, <2>1, <2>2, <2>3 DEF Well
<1>12. BlocksOwned(g) /\ StatsRight(g) /\ TreeRight(g)
  BY <1>4, <1>6, <1>7, SameBlocks DEF Capacity
<1>14. Used(h) \subseteq Used(g)
  <2>1. ASSUME NEW a \in Used(h) PROVE a \in Used(g)
    <3>1. a \in Address /\ a[1] \in DOMAIN h.blocks /\ a[2] < h.blocks[a[1]].used /\ a[2] \in Nat
      BY DEF Used, Address
    <3>2. CASE a[1] = b
      BY <1>1, <1>5, <1>7, <1>4, <3>1, <3>2 DEF Used, at
    <3>3. CASE a[1] # b
      BY <1>4, <1>7, <3>1, <3>3 DEF Used
    <3> QED BY <3>2, <3>3
  <2> QED BY <2>1
<1>15. \A q : Of(h, q) \subseteq Of(g, q)
  BY <1>7, <1>14 DEF Of
<1>16. \A a \in Used(h) : Word(g, a) = Word(h, a)
  BY <1>6, <1>7 DEF Word, Used
<1>17. g.ptr \in Address /\ g.ptr[1] = b /\ g.ptr[2] = at
  BY <1>1, <1>7 DEF Address
<1>18. ASSUME NEW a \in Span(g.ptr, n) PROVE a \in Of(g, r) /\ a \notin Used(h)
  <2>1. a \in Address /\ a[1] = b /\ at <= a[2] /\ a[2] < at + n /\ a[2] \in Nat
    BY <1>17 DEF Span, Address
  <2>2. a \in Used(g)
    BY <1>1, <1>4, <1>5, <1>7, <2>1 DEF Used
  <2>3. a \notin Used(h)
    BY <1>1, <2>1 DEF Used, at
  <2> QED BY <1>7, <2>1, <2>2, <2>3 DEF Of
<1>19. Sound(g)
  BY <1>8, <1>12 DEF Sound
<1>20. Extends(h, g, {})
  BY <1>7, <1>14, <1>15, <1>16 DEF Extends
<1>21. Aligned(g.ptr[2])
  BY <1>1, <1>17
<1> QED BY <1>1, <1>7, <1>17, <1>18, <1>19, <1>20, <1>21 DEF at

\* Two changes in a row.
LEMMA Onward ==
    ASSUME NEW h, NEW g, NEW k, NEW A, NEW B, Extends(h, g, A), Extends(g, k, B)
    PROVE  Extends(h, k, A \cup B)
BY DEF Extends

\* Only what had been given out counts.
LEMMA Narrower ==
    ASSUME NEW h, NEW g, NEW A, NEW B, Extends(h, g, A), A \cap Used(h) \subseteq B
    PROVE  Extends(h, g, B)
BY DEF Extends

\* No change.
LEMMA Unchanged == \A h, A : Extends(h, h, A)
BY DEF Extends

\* A program that died is left alone.
LEMMA Buried ==
    ASSUME NEW h, h.died # "no"
    PROVE  /\ \A p, values : Store(h, p, values) = h
           /\ \A p, q, n : Copy(h, p, q, n) = h
           /\ \A r, n : RegionAlloc(h, r, n) = h
           /\ \A r, p, m, n : RegionRealloc(h, r, p, m, n) = h
           /\ \A why : Die(h, why) = h
           /\ \A p : Returning(h, p) = h
<1>1. \A p, values : Store(h, p, values) = h
  BY DEF Store
<1>2. \A p, q, n : Copy(h, p, q, n) = h
  BY DEF Copy
<1>3. \A r, n : RegionAlloc(h, r, n) = h
  <2> TAKE r, n
  <2> QED BY DEF RegionAlloc
<1>4. \A r, p, m, n : RegionRealloc(h, r, p, m, n) = h
  BY DEF RegionRealloc
<1>5. \A why, p : Die(h, why) = h /\ Returning(h, p) = h
  BY DEF Die, Returning
<1> QED BY <1>1, <1>2, <1>3, <1>4, <1>5

\* What an allocation of "size" words in the region r has made of h.
Allocates(h, g, r, size) ==
    /\ size <= SizeMax /\ Extends(h, g, {})
    /\ IF size = 0 THEN g.ptr = Null
       ELSE /\ g.ptr \in Address /\ Aligned(g.ptr[2])
            /\ Span(g.ptr, size) \subseteq Of(g, r) /\ Span(g.ptr, size) \cap Used(h) = {}

\* A shorter piece lies in the longer.
LEMMA Shorter ==
    ASSUME NEW p, NEW m \in Nat, NEW n \in Nat, m <= n, p[2] \in Nat
    PROVE  Span(p, m) \subseteq Span(p, n)
<1>1. ASSUME NEW a \in Span(p, m) PROVE a \in Span(p, n)
  <2>1. a[2] \in Nat
    BY DEF Span, Address
  <2> QED BY <2>1 DEF Span
<1> QED BY <1>1

\* From the room left in a block.
LEMMA FromRoom ==
    ASSUME NEW h, Sound(h), NEW r \in 1 .. Len(h.regions), NEW b \in ToSet(h.regions[r].blocks),
           NEW n \in Nat, Aligned(n), h.blocks[b].used + n <= Capacity(h, b),
           NEW size \in Nat, size # 0, size <= n, size <= SizeMax,
           NEW g, g = Taken(h, b, h.blocks[b].used, n)
    PROVE  /\ Sound(g) /\ Len(g.regions) = Len(h.regions) /\ Allocates(h, g, r, size)
           /\ g.died = h.died
<1>1. /\ Sound(g) /\ g.ptr \in Address /\ Aligned(g.ptr[2]) /\ Extends(h, g, {})
      /\ Span(g.ptr, n) \subseteq Of(g, r) /\ Span(g.ptr, n) \cap Used(h) = {}
  BY PieceTaken
<1>3. g.died = h.died
  BY DEF Taken
<1>2. Span(g.ptr, size) \subseteq Span(g.ptr, n)
  <2>1. g.ptr[2] \in Nat
    BY <1>1 DEF Address
  <2> QED BY <2>1, Shorter
<1> QED BY <1>1, <1>2, <1>3 DEF Allocates, Extends

\* From a new block.
LEMMA FromBlock ==
    ASSUME NEW h, Sound(h), NEW r \in 1 .. Len(h.regions), NEW c \in Nat,
           NEW k, WithBlock(h, k, r, c),
           NEW n \in Nat, Aligned(n), n <= c,
           NEW size \in Nat, size # 0, size <= n, size <= SizeMax,
           NEW g, g = Taken(k, h.next, 0, n)
    PROVE  /\ Sound(g) /\ Len(g.regions) = Len(h.regions) /\ Allocates(h, g, r, size)
           /\ g.died = h.died
<1>1. /\ Sound(k) /\ Used(k) = Used(h) /\ Len(k.regions) = Len(h.regions)
      /\ h.next \in ToSet(k.regions[r].blocks)
      /\ \A q \in 1 .. Len(h.regions) : Of(k, q) = Of(h, q)
      /\ \A a \in Used(h) : Word(k, a) = Word(h, a)
  BY BlockSound
<1>2. k.blocks[h.next] = [used |-> 0, words |-> Repeat(Junk, c)]
  BY DEF WithBlock
<1>3. k.blocks[h.next].used = 0 /\ Capacity(k, h.next) = c
  BY <1>2, Repeated DEF Capacity
<1>4. g = Taken(k, h.next, k.blocks[h.next].used, n)
  BY <1>3
<1>5. k.blocks[h.next].used + n <= Capacity(k, h.next)
  BY <1>3
<1>6. /\ Sound(g) /\ Len(g.regions) = Len(k.regions) /\ Allocates(k, g, r, size)
      /\ g.died = k.died
  BY <1>1, <1>4, <1>5, FromRoom
<1>9. k.died = h.died
  BY DEF WithBlock
<1>7. Extends(h, k, {})
  BY <1>1 DEF Extends
<1>8. Extends(h, g, {})
  BY <1>6, <1>7, Onward DEF Allocates
<1> QED BY <1>1, <1>6, <1>8, <1>9 DEF Allocates

\* RegionAlloc gives words nobody has, aligned, in the region asked, and changes none given out
\* before, or the program dies.
LEMMA Allocated ==
    ASSUME NEW h, Sound(h), NEW r \in 1 .. Len(h.regions), NEW size \in Nat,
           NEW g, g = RegionAlloc(h, r, size)
    PROVE  /\ Sound(g) /\ Len(g.regions) = Len(h.regions)
           /\ g.died \in {h.died, "overflow"}
           /\ h.died = "no" /\ g.died = "no" => Allocates(h, g, r, size)
<1> DEFINE n == AlignUp(size)
           region == h.regions[r]
           capacity == Larger(region.blockSize, n)
           first == Head(region.blocks)
           grown == [RawBlock(h, capacity) EXCEPT
                     !.stats = BlockCreated(@, capacity),
                     !.regions[r] = [region EXCEPT !.blocks = <<h.next>> \o region.blocks,
                                                   !.total = region.total + capacity]]
<1>1. CASE h.died # "no"
  BY <1>1, Buried
<1>2. CASE h.died = "no" /\ size = 0
  <2>1. PICK k : k = [h EXCEPT !.ptr = Null]
    OBVIOUS
  <2>2. g = k
    BY <1>2, <2>1 DEF RegionAlloc
  <2>3. /\ Sound(k) /\ Used(k) = Used(h) /\ k.ptr = Null /\ k.regions = h.regions
        /\ k.died = h.died
        /\ \A q : Of(k, q) = Of(h, q)
        /\ \A a : Word(k, a) = Word(h, a)
    BY <2>1, Pointed
  <2>4. Extends(h, k, {})
    BY <2>3 DEF Extends
  <2>5. size <= SizeMax
    BY <1>2, SizesAssumption
  <2> QED BY <1>2, <2>2, <2>3, <2>4, <2>5 DEF Allocates
<1>3. ASSUME h.died = "no", g = Die(h, "overflow")
      PROVE  Sound(g) /\ Len(g.regions) = Len(h.regions) /\ g.died = "overflow"
  BY <1>3, Dead
<1>4. CASE h.died = "no" /\ size # 0 /\ n = TooBig
  <2>1. g = Die(h, "overflow")
    BY <1>4 DEF RegionAlloc
  <2> QED BY <1>3, <1>4, <2>1
<1>5. ASSUME h.died = "no", size # 0, n # TooBig
      PROVE  /\ n = RoundUp(size) /\ n \in Nat /\ Aligned(n) /\ size <= n /\ size <= SizeMax
             /\ 0 < n
  <2>1. n = RoundUp(size) /\ SizeAdd(size, Align - 1) # TooBig
    BY <1>5 DEF AlignUp
  <2>2. size + (Align - 1) <= SizeMax
    BY <2>1, SizesAssumption DEF SizeAdd
  <2>3. size <= SizeMax
    BY <2>2, SizesAssumption
  <2> HIDE DEF n
  <2> QED BY <1>5, <2>1, <2>3, RoundsUp DEF Aligned
<1>6. CASE h.died = "no" /\ size # 0 /\ n # TooBig /\ HasRoom(h, region.blocks, n)
  <2>1. g = Taken(h, first, h.blocks[first].used, n)
    BY <1>6 DEF RegionAlloc
  <2>2. first \in ToSet(region.blocks)
    <3>1. IsSequence(region.blocks) /\ region.blocks # <<>>
      BY <1>6 DEF HasRoom, Sound, Well, RegionGood
    <3>2. Head(region.blocks) = region.blocks[1] /\ 1 \in DOMAIN region.blocks
      BY <3>1, SeqFacts, EmptySeq DEF IsSequence
    <3> QED BY <3>2 DEF ToSet
  <2>3. h.blocks[first].used + n <= Capacity(h, first)
    <3>1. n <= Capacity(h, first) - h.blocks[first].used
      BY <1>6 DEF HasRoom
    <3>2. first \in DOMAIN h.blocks
      BY <2>2, SoundFacts
    <3>3. h.blocks[first].used \in Nat /\ Capacity(h, first) \in Nat
      BY <3>2, SoundFacts DEF Sound, Well, BlockGood
    <3> HIDE DEF n, first
    <3> QED BY <1>5, <1>6, <3>1, <3>3
  <2>4. n \in Nat /\ Aligned(n) /\ size <= n /\ size <= SizeMax
    BY <1>5, <1>6
  <2> HIDE DEF n, first
  <2> QED BY <1>6, <2>1, <2>2, <2>3, <2>4, FromRoom
<1>7. CASE h.died = "no" /\ size # 0 /\ n # TooBig /\ ~HasRoom(h, region.blocks, n)
  <2>1. g = Die(h, "overflow") \/ g = Taken(grown, h.next, 0, n)
    BY <1>7 DEF RegionAlloc
  <2>2. CASE g = Die(h, "overflow")
    BY <1>3, <1>7, <2>2
  <2>3. CASE g = Taken(grown, h.next, 0, n)
    <3>1. PICK k : k = grown
      OBVIOUS
    <3>2. n \in Nat /\ Aligned(n) /\ size <= n /\ size <= SizeMax
      BY <1>5, <1>7
    <3>3. PICK c : c = capacity
      OBVIOUS
    <3>4. c \in Nat /\ n <= c
      <4>1. region.blockSize \in Nat
        BY DEF Sound, Well, RegionGood
      <4> HIDE DEF n, region
      <4> QED BY <3>2, <3>3, <4>1 DEF Larger
    <3>5. WithBlock(h, k, r, c)
      <4>1. k = [RawBlock(h, c) EXCEPT
                     !.stats = BlockCreated(@, c),
                     !.regions[r] = [h.regions[r] EXCEPT !.blocks = <<h.next>> \o h.regions[r].blocks,
                                                   !.total = h.regions[r].total + c]]
        BY <3>1, <3>3
      <4> HIDE DEF capacity
      <4> QED BY <3>4, <4>1, BlockMade
    <3> HIDE DEF grown, capacity, n
    <3>6. g = Taken(k, h.next, 0, n)
      BY <2>3, <3>1
    <3> QED BY <1>7, <3>2, <3>4, <3>5, <3>6, FromBlock
  <2> QED BY <2>1, <2>2, <2>3
<1> QED BY <1>1, <1>2, <1>4, <1>6, <1>7

\* Adding to an address.
LEMMA PlusAt ==
    ASSUME NEW p \in Address, NEW n \in Nat
    PROVE  /\ Plus(p, n) = <<p[1], p[2] + n>> /\ Plus(p, n) \in Address
           /\ p # Null /\ Plus(p, 0) = p
           /\ Plus(p, n)[1] = p[1] /\ Plus(p, n)[2] = p[2] + n
<1>1. p # Null
  BY NullAssumption DEF Address
<1>2. p[1] \in Nat /\ p[2] \in Nat /\ p = <<p[1], p[2]>>
  BY DEF Address
<1> QED BY <1>1, <1>2 DEF Plus, Address

\* A piece that has been given out lies in one block.
LEMMA SpanUsed ==
    ASSUME NEW h, Sound(h), NEW p \in Address, NEW n \in Nat, n # 0, Span(p, n) \subseteq Used(h)
    PROVE  /\ p[1] \in DOMAIN h.blocks /\ p[2] \in Nat
           /\ p[2] + n <= h.blocks[p[1]].used
           /\ h.blocks[p[1]].used <= Len(h.blocks[p[1]].words)
           /\ BlockGood(h.blocks[p[1]])
           /\ h.blocks[p[1]].used \in Nat /\ Len(h.blocks[p[1]].words) \in Nat
<1>1. p[1] \in Nat /\ p[2] \in Nat
  BY DEF Address
<1>2. <<p[1], p[2] + (n - 1)>> \in Span(p, n)
  BY <1>1 DEF Span, Address
<1>3. p[1] \in DOMAIN h.blocks /\ p[2] + (n - 1) < h.blocks[p[1]].used
  BY <1>2 DEF Used
<1>4. BlockGood(h.blocks[p[1]])
  BY <1>3 DEF Sound, Well
<1>5. h.blocks[p[1]].used \in Nat /\ Len(h.blocks[p[1]].words) \in Nat
      /\ h.blocks[p[1]].used <= Len(h.blocks[p[1]].words)
  BY <1>4, SeqFacts DEF BlockGood
<1> QED BY <1>1, <1>3, <1>4, <1>5

\* What writing "values" from p on has made of h.
Stores(h, g, p, values) ==
    /\ Sound(g) /\ g.died = "no" /\ g.regions = h.regions /\ g.ptr = h.ptr /\ Used(g) = Used(h)
    /\ \A r : Of(g, r) = Of(h, r)
    /\ \A a \in Used(h) \ Span(p, Len(values)) : Word(g, a) = Word(h, a)
    /\ \A i \in 0 .. Len(values) - 1 : Word(g, Plus(p, i)) = values[i + 1]

\* A store inside what was given out is not refused and changes its own words only.
LEMMA Stored ==
    ASSUME NEW h, Sound(h), h.died = "no", NEW p \in Address, NEW values, IsSequence(values),
           Len(values) # 0, Span(p, Len(values)) \subseteq Used(h),
           NEW g, g = Store(h, p, values)
    PROVE  Stores(h, g, p, values)
<1> DEFINE b == p[1]
           w == h.blocks[b].words
<1>0. Len(values) \in Nat
  BY SeqFacts
<1>1. /\ b \in DOMAIN h.blocks /\ p[2] \in Nat /\ BlockGood(h.blocks[b])
      /\ p[2] + Len(values) <= h.blocks[b].used /\ h.blocks[b].used <= Len(w)
      /\ h.blocks[b].used \in Nat /\ Len(w) \in Nat
  BY <1>0, SpanUsed
<1>2. Inside(h, p, Len(values)) /\ values # <<>>
  <2>1. p # Null
    BY PlusAt
  <2>2. values # <<>>
    BY <1>0
  <2> QED BY <1>0, <1>1, <2>1, <2>2 DEF Inside
<1>3. PICK new : new = SubSeq(w, 1, p[2]) \o values \o SubSeq(w, p[2] + Len(values) + 1, Len(w))
  OBVIOUS
<1>4. PICK blocks : blocks = [h.blocks EXCEPT ![b].words = new]
  OBVIOUS
<1>5. g = [h EXCEPT !.blocks = blocks]
  BY <1>2, <1>3, <1>4 DEF Store
<1>6. /\ IsSequence(new) /\ Len(new) = Len(w)
      /\ \A i \in 1 .. Len(w) :
           new[i] = IF p[2] < i /\ i <= p[2] + Len(values) THEN values[i - p[2]] ELSE w[i]
  <2>1. PICK m, v : m = p[2] /\ v = w
    OBVIOUS
  <2>2. IsSequence(v) /\ m \in Nat /\ m + Len(values) <= Len(v)
    BY <1>0, <1>1, <2>1 DEF BlockGood
  <2>3. new = SubSeq(v, 1, m) \o values \o SubSeq(v, m + Len(values) + 1, Len(v))
    BY <1>3, <2>1
  <2>4. /\ IsSequence(new) /\ Len(new) = Len(v)
        /\ \A i \in 1 .. Len(v) :
             new[i] = IF m < i /\ i <= m + Len(values) THEN values[i - m] ELSE v[i]
    BY <2>2, <2>3, Splicing
  <2> QED BY <2>1, <2>4
<1> HIDE DEF w
<1>7. /\ DOMAIN blocks = DOMAIN h.blocks
      /\ \A c \in DOMAIN h.blocks \ {b} : blocks[c] = h.blocks[c]
  BY <1>4
<1>8. blocks[b] = [used |-> h.blocks[b].used, words |-> new]
  <2>1. PICK k : k = h.blocks[b]
    OBVIOUS
  <2>2. k = [used |-> k.used, words |-> k.words]
    BY <1>1, <2>1 DEF BlockGood
  <2>3. PICK l : l = [k EXCEPT !.words = new]
    OBVIOUS
  <2>4. l = [used |-> k.used, words |-> new]
    BY <2>2, <2>3
  <2>5. blocks[b] = l
    BY <1>1, <1>4, <2>1, <2>3
  <2> QED BY <2>1, <2>4, <2>5
<1>9. \A c \in DOMAIN h.blocks : blocks[c].used = h.blocks[c].used
                              /\ Len(blocks[c].words) = Len(h.blocks[c].words)
  BY <1>6, <1>7, <1>8 DEF w
<1>10. /\ Shaped(g) /\ g.blocks = blocks /\ g.next = h.next /\ g.regions = h.regions
       /\ g.arena = h.arena /\ g.stats = h.stats /\ g.tree = h.tree
       /\ g.ptr = h.ptr /\ g.died = h.died
  <2>1. Shaped(h)
    BY DEF Sound, Well
  <2> QED BY <1>5, <2>1 DEF Shaped
<1> HIDE DEF b
<1>11. Well(g)
  <2>1. ASSUME NEW c \in DOMAIN g.blocks
        PROVE  c \in Nat /\ c < g.next /\ BlockGood(g.blocks[c])
    <3>1. c \in Nat /\ c < h.next /\ BlockGood(h.blocks[c])
      BY <1>7, <1>10 DEF Sound, Well
    <3>2. CASE c = b
      <4>1. PICK k : k = blocks[b]
        OBVIOUS
      <4>2. k = [used |-> h.blocks[b].used, words |-> new]
        BY <1>8, <4>1
      <4>3. BlockGood(k)
        BY <1>1, <1>6, <4>2 DEF BlockGood
      <4> QED BY <1>10, <3>1, <3>2, <4>1, <4>3
    <3>3. CASE c # b
      BY <1>7, <1>10, <3>1, <3>3
    <3> QED BY <3>2, <3>3
  <2>2. ASSUME NEW q \in 1 .. Len(h.regions) PROVE RegionGood(g, q)
    <3>1. RegionGood(h, q) /\ ToSet(h.regions[q].blocks) \subseteq DOMAIN h.blocks
      BY SoundFacts DEF Sound, Well
    <3>2. \A c \in ToSet(h.regions[q].blocks) : blocks[c].used = h.blocks[c].used
      BY <1>9, <3>1
    <3> QED BY <1>10, <3>1, <3>2 DEF RegionGood
  <2>3. h.next \in Nat /\ IsSequence(h.regions) /\ h.stats \in Stats
        /\ h.tree = [entries |-> h.tree.entries, depth |-> h.tree.depth, truncated |-> h.tree.truncated]
        /\ IsSequence(h.tree.entries) /\ h.tree.truncated \in BOOLEAN
    BY DEF Sound, Well
  <2> QED BY <1>10, <2>1, <2>2, <2>3 DEF Well
<1>12. BlocksOwned(g) /\ StatsRight(g) /\ TreeRight(g)
  BY <1>7, <1>9, <1>10, SameBlocks
<1>13. Used(g) = Used(h)
  BY <1>7, <1>9, <1>10 DEF Used
<1>14. \A q : Of(g, q) = Of(h, q)
  BY <1>10, <1>13 DEF Of
<1>15. ASSUME NEW a \in Used(h) \ Span(p, Len(values)) PROVE Word(g, a) = Word(h, a)
  <2>1. a \in Address /\ a[1] \in DOMAIN h.blocks /\ a[2] < h.blocks[a[1]].used /\ a[2] \in Nat
    BY DEF Used, Address
  <2>2. CASE a[1] = b
    <3>1. ~ (p[2] <= a[2] /\ a[2] < p[2] + Len(values))
      BY <2>1, <2>2 DEF Span, b
    <3>2. new[a[2] + 1] = w[a[2] + 1]
      <4>1. a[2] + 1 \in 1 .. Len(w)
        BY <1>1, <2>1, <2>2
      <4>2. ~ (p[2] < a[2] + 1 /\ a[2] + 1 <= p[2] + Len(values))
        BY <1>0, <1>1, <2>1, <3>1
      <4> QED BY <1>6, <4>1, <4>2
    <3> QED BY <1>8, <1>10, <2>2, <3>2 DEF Word, w
  <2>3. CASE a[1] # b
    BY <1>7, <1>10, <2>1, <2>3 DEF Word
  <2> QED BY <2>2, <2>3
<1>16. ASSUME NEW i \in 0 .. Len(values) - 1 PROVE Word(g, Plus(p, i)) = values[i + 1]
  <2>1. Plus(p, i)[1] = b /\ Plus(p, i)[2] = p[2] + i /\ i \in Nat
    BY <1>0, PlusAt DEF b
  <2>2. PICK m : m = p[2]
    OBVIOUS
  <2>3. PICK j : j = m + i + 1
    OBVIOUS
  <2>4. PICK n : n = Len(w)
    OBVIOUS
  <2>5. m + Len(values) <= n /\ m \in Nat /\ n \in Nat
    <3>1. p[2] + Len(values) <= h.blocks[b].used /\ h.blocks[b].used <= Len(w)
          /\ h.blocks[b].used \in Nat /\ Len(w) \in Nat /\ p[2] \in Nat
      BY <1>1
    <3> QED BY <1>0, <2>2, <2>4, <3>1
  <2>6. j \in 1 .. n /\ m < j /\ j <= m + Len(values) /\ j - m = i + 1 /\ i \in Nat
    BY <1>0, <2>3, <2>5
  <2>7. new[j] = values[j - m]
    BY <1>6, <2>2, <2>4, <2>6
  <2>8. Word(g, Plus(p, i)) = new[j]
    <3>1. Plus(p, i)[2] + 1 = j
      BY <2>1, <2>2, <2>3, <2>5, <2>6
    <3> QED BY <1>8, <1>10, <2>1, <3>1 DEF Word
  <2> QED BY <2>6, <2>7, <2>8
<1>17. Sound(g)
  BY <1>11, <1>12 DEF Sound
<1> QED BY <1>10, <1>13, <1>14, <1>15, <1>16, <1>17 DEF Stores

\* The short sequences that heads are.
LEMMA Listed ==
    /\ \A a : IsSequence(<<a>>) /\ Len(<<a>>) = 1 /\ <<a>>[1] = a
    /\ \A a, b : IsSequence(<<a, b>>) /\ Len(<<a, b>>) = 2 /\ <<a, b>>[1] = a /\ <<a, b>>[2] = b
    /\ \A a, b, c : /\ IsSequence(<<a, b, c>>) /\ Len(<<a, b, c>>) = 3
                    /\ <<a, b, c>>[1] = a /\ <<a, b, c>>[2] = b /\ <<a, b, c>>[3] = c
    /\ \A a, b, c, d : /\ IsSequence(<<a, b, c, d>>) /\ Len(<<a, b, c, d>>) = 4
                       /\ <<a, b, c, d>>[1] = a /\ <<a, b, c, d>>[2] = b
                       /\ <<a, b, c, d>>[3] = c /\ <<a, b, c, d>>[4] = d
<1>1. ASSUME NEW a PROVE <<a>> \in Seq({a})
  BY SeqDef
<1>2. ASSUME NEW a, NEW b PROVE <<a, b>> \in Seq({a, b})
  BY SeqDef
<1>3. ASSUME NEW a, NEW b, NEW c PROVE <<a, b, c>> \in Seq({a, b, c})
  BY SeqDef
<1>4. ASSUME NEW a, NEW b, NEW c, NEW d PROVE <<a, b, c, d>> \in Seq({a, b, c, d})
  BY SeqDef
<1>5. \A a : IsSequence(<<a>>)
  BY <1>1, AnySeq
<1>6. \A a, b : IsSequence(<<a, b>>)
  BY <1>2, AnySeq
<1>7. \A a, b, c : IsSequence(<<a, b, c>>)
  BY <1>3, AnySeq
<1>8. \A a, b, c, d : IsSequence(<<a, b, c, d>>)
  BY <1>4, AnySeq
<1> QED BY <1>5, <1>6, <1>7, <1>8

\* A store is a change of its words.
LEMMA StoresExtends ==
    ASSUME NEW h, NEW g, NEW p, NEW v, Stores(h, g, p, v)
    PROVE  Extends(h, g, Span(p, Len(v)))
BY DEF Stores, Extends

\* Reading the words of a piece.
LEMMA WordsRead ==
    ASSUME NEW h, Sound(h), NEW p \in Address, NEW m \in Nat, m # 0, Span(p, m) \subseteq Used(h),
           NEW n \in Nat, n <= m
    PROVE  /\ IsSequence(Words(h, p, n)) /\ Len(Words(h, p, n)) = n
           /\ \A i \in 0 .. n - 1 : Words(h, p, n)[i + 1] = Word(h, Plus(p, i))
           /\ Inside(h, p, n)
<1> DEFINE w == h.blocks[p[1]].words
<1>1. /\ p[1] \in DOMAIN h.blocks /\ p[2] \in Nat /\ p[2] + m <= Len(w)
      /\ IsSequence(w) /\ Len(w) \in Nat
  <2>1. /\ p[1] \in DOMAIN h.blocks /\ p[2] \in Nat
        /\ p[2] + m <= h.blocks[p[1]].used
        /\ h.blocks[p[1]].used <= Len(h.blocks[p[1]].words)
        /\ BlockGood(h.blocks[p[1]])
        /\ h.blocks[p[1]].used \in Nat /\ Len(h.blocks[p[1]].words) \in Nat
    BY SpanUsed
  <2>2. IsSequence(w)
    BY <2>1 DEF BlockGood
  <2> HIDE DEF w
  <2>3. p[2] + m <= Len(w) /\ Len(w) \in Nat
    BY <2>1 DEF w
  <2> QED BY <2>1, <2>2, <2>3
<1> HIDE DEF w
<1>2. PICK a, c : a = p[2] + 1 /\ c = p[2] + n
  OBVIOUS
<1>3. a \in Nat /\ c \in Nat /\ 1 <= a /\ a <= c + 1 /\ c <= Len(w) /\ c - a + 1 = n
  <2>1. PICK b \in Nat, l \in Nat : b = p[2] /\ l = Len(w)
    BY <1>1
  <2>2. a = b + 1 /\ c = b + n /\ b + m <= l
    BY <1>1, <1>2, <2>1
  <2>3. a \in Nat /\ c \in Nat /\ 1 <= a /\ a <= c + 1 /\ c <= l /\ c - a + 1 = n
    BY ONLY <2>2, b \in Nat, l \in Nat, n \in Nat, m \in Nat, n <= m
  <2> QED BY <2>1, <2>3
<1>4. Words(h, p, n) = SubSeq(w, a, c)
  BY <1>2 DEF Words, w
<1>5. /\ IsSequence(SubSeq(w, a, c)) /\ Len(SubSeq(w, a, c)) = c - a + 1
      /\ \A i \in 1 .. c - a + 1 : SubSeq(w, a, c)[i] = w[a + i - 1]
  BY <1>1, <1>3, Slicing, SMTT(30)
<1>6. IsSequence(Words(h, p, n)) /\ Len(Words(h, p, n)) = n
      /\ \A i \in 1 .. n : Words(h, p, n)[i] = w[a + i - 1]
  BY <1>3, <1>4, <1>5
<1>7. ASSUME NEW i \in 0 .. n - 1
      PROVE  Words(h, p, n)[i + 1] = Word(h, Plus(p, i))
  <2>1. PICK j : j = i + 1
    OBVIOUS
  <2>2. j \in 1 .. n /\ i \in Nat
    BY <2>1
  <2>3. Words(h, p, n)[j] = w[a + j - 1]
    BY <1>6, <2>2
  <2>4. Plus(p, i)[1] = p[1] /\ Plus(p, i)[2] = p[2] + i
    BY <2>2, PlusAt
  <2>5. a + j - 1 = p[2] + i + 1
    BY <1>1, <1>2, <2>1, <2>2
  <2>6. Word(h, Plus(p, i)) = w[p[2] + i + 1]
    BY <2>4 DEF Word, w
  <2> QED BY <2>1, <2>3, <2>5, <2>6
<1>8. Inside(h, p, n)
  <2>1. p # Null
    BY PlusAt
  <2>2. p[2] + n <= Len(w)
    BY <1>1
  <2> QED BY <1>1, <2>1, <2>2 DEF Inside, w
<1> QED BY <1>6, <1>7, <1>8

\* Storing nothing.
LEMMA EmptyStore ==
    ASSUME NEW h, NEW p
    PROVE  Store(h, p, <<>>) = h
BY EmptySeq DEF Store, Inside

\* A copy inside what was given out.
LEMMA Copied ==
    ASSUME NEW h, Sound(h), h.died = "no", NEW from \in Address, NEW m \in Nat, m # 0,
           Span(from, m) \subseteq Used(h), NEW n \in Nat, n <= m,
           NEW to \in Address, Span(to, n) \subseteq Used(h),
           NEW g, g = Copy(h, from, to, n)
    PROVE  IF n = 0 THEN g = h
           ELSE /\ Stores(h, g, to, Words(h, from, n)) /\ Len(Words(h, from, n)) = n
                /\ \A i \in 0 .. n - 1 : Word(g, Plus(to, i)) = Word(h, Plus(from, i))
<1>1. PICK v : v = Words(h, from, n)
  OBVIOUS
<1>2. /\ IsSequence(v) /\ Len(v) = n /\ Inside(h, from, n)
      /\ \A i \in 0 .. n - 1 : v[i + 1] = Word(h, Plus(from, i))
  BY <1>1, WordsRead
<1>3. g = Store(h, to, v)
  BY <1>1, <1>2 DEF Copy
<1>4. CASE n = 0
  <2>1. v = <<>>
    BY <1>2, <1>4, EmptySeq
  <2> QED BY <1>3, <1>4, <2>1, EmptyStore
<1>5. CASE n # 0
  <2>1. Stores(h, g, to, v)
    BY <1>2, <1>3, <1>5, Stored
  <2>2. \A i \in 0 .. n - 1 : Word(g, Plus(to, i)) = v[i + 1]
    BY <1>2, <2>1 DEF Stores
  <2> QED BY <1>1, <1>2, <1>5, <2>1, <2>2
<1> QED BY <1>4, <1>5

\* A piece that moves: the new one is as fresh as one allocated.
LEMMA SpanUsedAt ==
    ASSUME NEW h, NEW p \in Address, NEW m \in Nat, Span(p, m) \subseteq Used(h),
           NEW i \in Nat, i < m
    PROVE  Plus(p, i) \in Used(h)
<1>1. /\ Plus(p, i) \in Address /\ Plus(p, i)[1] = p[1] /\ Plus(p, i)[2] = p[2] + i /\ p[2] \in Nat
  BY PlusAt DEF Address
<1>2. Plus(p, i) \in Span(p, m)
  BY <1>1 DEF Span
<1> QED BY <1>2

MayMove(h, r, old, m, oldSize, newSize) ==
    /\ Sound(h) /\ r \in 1 .. Len(h.regions) /\ m \in Nat
    /\ oldSize \in Nat /\ newSize \in Nat /\ oldSize < newSize
    /\ \/ old = Null
       \/ old \in Address /\ m # 0 /\ Span(old, m) \subseteq Used(h) /\ oldSize <= m

\* RegionRealloc gives fresh words that begin with the old ones, or the program dies.
LEMMA Reallocated ==
    \A h, r, old, m, oldSize, newSize, g :
       MayMove(h, r, old, m, oldSize, newSize) /\ g = RegionRealloc(h, r, old, oldSize, newSize) =>
         /\ Sound(g) /\ Len(g.regions) = Len(h.regions)
         /\ g.died \in {h.died, "overflow"}
         /\ h.died = "no" /\ g.died = "no" => Allocates(h, g, r, newSize)
         /\ h.died = "no" /\ g.died = "no" /\ old # Null =>
              \A i \in 0 .. oldSize - 1 : Word(g, Plus(g.ptr, i)) = Word(h, Plus(old, i))
<1> SUFFICES ASSUME NEW h, Sound(h), NEW r \in 1 .. Len(h.regions), NEW old, NEW m \in Nat,
                    NEW oldSize \in Nat, NEW newSize \in Nat, oldSize < newSize,
                    \/ old = Null
                    \/ old \in Address /\ m # 0 /\ Span(old, m) \subseteq Used(h) /\ oldSize <= m,
                    NEW g, g = RegionRealloc(h, r, old, oldSize, newSize)
             PROVE  /\ Sound(g) /\ Len(g.regions) = Len(h.regions)
                    /\ g.died \in {h.died, "overflow"}
                    /\ h.died = "no" /\ g.died = "no" => Allocates(h, g, r, newSize)
                    /\ h.died = "no" /\ g.died = "no" /\ old # Null =>
                         \A i \in 0 .. oldSize - 1 : Word(g, Plus(g.ptr, i)) = Word(h, Plus(old, i))
  BY DEF MayMove
<1>1. CASE h.died # "no"
  BY <1>1, Buried
<1>2. CASE h.died = "no"
  <2>1. PICK a : a = RegionAlloc(h, r, newSize)
    OBVIOUS
  <2>2. /\ Sound(a) /\ Len(a.regions) = Len(h.regions)
        /\ a.died \in {h.died, "overflow"}
        /\ a.died = "no" => Allocates(h, a, r, newSize)
    BY <1>2, <2>1, Allocated
  <2>3. g = IF old = Null THEN a ELSE Copy(a, old, a.ptr, oldSize)
    <3>1. ~ (newSize = 0) /\ ~ (newSize <= oldSize)
      OBVIOUS
    <3> QED BY <1>2, <2>1, <3>1 DEF RegionRealloc, MovedFrom
  <2>4. CASE old = Null \/ a.died # "no"
    <3>1. g = a
      BY <2>3, <2>4, Buried
    <3> QED BY <1>2, <2>2, <2>4, <3>1
  <2>5. CASE old # Null /\ a.died = "no"
    <3>1. Allocates(h, a, r, newSize)
      BY <2>2, <2>5
    <3>2. /\ a.ptr \in Address /\ Aligned(a.ptr[2]) /\ Extends(h, a, {})
          /\ Span(a.ptr, newSize) \subseteq Of(a, r) /\ Span(a.ptr, newSize) \cap Used(h) = {}
          /\ newSize # 0 /\ newSize <= SizeMax
      BY <3>1 DEF Allocates
    <3>3. Span(a.ptr, oldSize) \subseteq Span(a.ptr, newSize)
      <4>1. a.ptr[2] \in Nat
        BY <3>2 DEF Address
      <4> QED BY <4>1, Shorter
    <3>4. Of(a, r) \subseteq Used(a) /\ Used(h) \subseteq Used(a)
      BY <3>2 DEF Of, Extends
    <3>5. g = Copy(a, old, a.ptr, oldSize)
      BY <2>3, <2>5
    <3>6. CASE oldSize = 0
      <4>1. g = a
        BY <2>2, <2>5, <3>2, <3>3, <3>4, <3>5, <3>6, Copied
      <4> QED BY <2>2, <2>5, <3>6, <4>1
    <3>7. CASE oldSize # 0
      <4>1. Stores(a, g, a.ptr, Words(a, old, oldSize)) /\ Len(Words(a, old, oldSize)) = oldSize
        BY <2>2, <2>5, <3>2, <3>3, <3>4, <3>5, <3>7, Copied
      <4>2. Extends(a, g, Span(a.ptr, oldSize))
        BY <4>1, StoresExtends
      <4>3. Extends(h, g, Span(a.ptr, oldSize))
        BY <3>2, <4>2, Onward
      <4>4. Extends(h, g, {})
        BY <3>2, <3>3, <4>3, Narrower
      <4>5. \A i \in 0 .. oldSize - 1 : Word(g, Plus(a.ptr, i)) = Word(a, Plus(old, i))
        BY <2>2, <2>5, <3>2, <3>3, <3>4, <3>5, <3>7, Copied
      <4>6. \A i \in 0 .. oldSize - 1 : Word(a, Plus(old, i)) = Word(h, Plus(old, i))
        <5>1. old \in Address /\ Span(old, m) \subseteq Used(h) /\ oldSize <= m
          BY <2>5
        <5>2. ASSUME NEW i \in 0 .. oldSize - 1 PROVE Plus(old, i) \in Used(h)
          BY <5>1, SpanUsedAt
        <5> QED BY <3>2, <5>2 DEF Extends
      <4>7. Sound(g) /\ Len(g.regions) = Len(h.regions) /\ g.died = "no" /\ g.ptr = a.ptr
        BY <2>2, <4>1 DEF Stores
      <4>8. Allocates(h, g, r, newSize)
        BY <3>2, <4>1, <4>4 DEF Stores, Allocates
      <4>9. \A i \in 0 .. oldSize - 1 : Word(g, Plus(g.ptr, i)) = Word(h, Plus(old, i))
        BY <4>5, <4>6, <4>7
      <4> QED BY <1>2, <4>7, <4>8, <4>9
    <3> QED BY <3>6, <3>7
  <2> QED BY <2>4, <2>5
<1> QED BY <1>1, <1>2

\* What every operation leaves of a heap.
Safe(h, g) ==
    /\ Sound(g) /\ Len(g.regions) = Len(h.regions)
    /\ g.died \in {h.died, "overflow"}

\* Two safe steps in a row.
LEMMA SafeOnward ==
    ASSUME NEW h, NEW g, NEW k, Safe(h, g), Safe(g, k)
    PROVE  Safe(h, k)
BY DEF Safe

\* RegionAlloc as a safe step.
LEMMA AllocSafe ==
    ASSUME NEW h, Sound(h), NEW r \in 1 .. Len(h.regions), NEW size \in Nat,
           NEW g, g = RegionAlloc(h, r, size)
    PROVE  /\ Safe(h, g)
           /\ h.died = "no" /\ g.died = "no" => Allocates(h, g, r, size)
<1>1. /\ Sound(g) /\ Len(g.regions) = Len(h.regions) /\ g.died \in {h.died, "overflow"}
      /\ h.died = "no" /\ g.died = "no" => Allocates(h, g, r, size)
  BY Allocated
<1> QED BY <1>1 DEF Safe

\* Returning a pointer as a safe step.
LEMMA ReturnSafe ==
    ASSUME NEW h, Sound(h), NEW p, NEW g, g = Returning(h, p)
    PROVE  /\ Safe(h, g) /\ g.died = h.died
           /\ h.died = "no" => /\ g.ptr = p /\ Used(g) = Used(h) /\ \A r : Of(g, r) = Of(h, r)
                               /\ \A a : Word(g, a) = Word(h, a)
                               /\ g.regions = h.regions
<1>1. CASE h.died = "no"
  <2>1. g = [h EXCEPT !.ptr = p]
    BY <1>1 DEF Returning
  <2> QED BY <1>1, <2>1, Pointed DEF Safe
<1>2. CASE h.died # "no"
  <2>1. g = h
    BY <1>2, Buried
  <2> QED BY <1>2, <2>1 DEF Safe
<1> QED BY <1>1, <1>2

\* A fresh piece of the region r.
Fresh1(h, g, r, p, n) ==
    /\ p \in Address /\ Aligned(p[2])
    /\ Span(p, n) \subseteq Of(g, r) /\ Span(p, n) \cap Used(h) = {}

\* Two pieces allocated in a row.
Pair(h, b, r, m, n) ==
    LET p == b.ptr[1]
        d == b.ptr[2] IN
    /\ n <= SizeMax /\ Extends(h, b, {}) /\ b.ptr = <<p, d>>
    /\ Fresh1(h, b, r, p, m)
    /\ IF n = 0 THEN d = Null ELSE Fresh1(h, b, r, d, n) /\ Span(p, m) \cap Span(d, n) = {}

\* Two allocations in a row give two pieces that are apart.
LEMMA TwoMade ==
    ASSUME NEW h, Sound(h), NEW r \in 1 .. Len(h.regions), NEW m \in Nat, m # 0, NEW n \in Nat,
           NEW b, b = TwoPieces(h, r, m, n)
    PROVE  /\ Safe(h, b)
           /\ h.died = "no" /\ b.died = "no" => Pair(h, b, r, m, n)
<1>1. PICK a : a = RegionAlloc(h, r, m)
  OBVIOUS
<1>2. PICK k : k = RegionAlloc(a, r, n)
  OBVIOUS
<1>3. PICK pair : pair = <<a.ptr, k.ptr>>
  OBVIOUS
<1>4. b = [k EXCEPT !.ptr = pair]
  <2>1. r # Arena
    BY DEF Arena
  <2> QED BY <1>1, <1>2, <1>3, <2>1 DEF TwoPieces, AndThen, Alloc
<1>5. /\ Safe(h, a)
      /\ h.died = "no" /\ a.died = "no" => Allocates(h, a, r, m)
  BY <1>1, AllocSafe
<1>6. /\ Safe(a, k)
      /\ a.died = "no" /\ k.died = "no" => Allocates(a, k, r, n)
  BY <1>2, <1>5, AllocSafe DEF Safe
<1>7. /\ Sound(b) /\ Used(b) = Used(k) /\ b.ptr = pair /\ b.died = k.died
      /\ b.regions = k.regions
      /\ \A q : Of(b, q) = Of(k, q)
      /\ \A x : Word(b, x) = Word(k, x)
  <2>1. Sound(k)
    BY <1>6 DEF Safe
  <2>2. PICK e : e = [k EXCEPT !.ptr = pair]
    OBVIOUS
  <2>3. /\ Sound(e) /\ Used(e) = Used(k) /\ e.ptr = pair /\ e.died = k.died
        /\ e.regions = k.regions
        /\ \A q : Of(e, q) = Of(k, q)
        /\ \A x : Word(e, x) = Word(k, x)
    BY <2>1, <2>2, Pointed
  <2>4. b = e
    BY <1>4, <2>2
  <2> QED BY <2>3, <2>4
<1>8. Safe(h, b)
  BY <1>5, <1>6, <1>7 DEF Safe
<1>9. ASSUME h.died = "no", b.died = "no" PROVE Pair(h, b, r, m, n)
  <2>1. a.died = "no" /\ k.died = "no"
    BY <1>6, <1>7, <1>9 DEF Safe
  <2>2. Allocates(h, a, r, m) /\ Allocates(a, k, r, n)
    BY <1>5, <1>6, <1>9, <2>1
  <2>3. Extends(h, a, {}) /\ Extends(a, k, {}) /\ Extends(k, b, {}) /\ n <= SizeMax
    BY <1>7, <2>2 DEF Allocates, Extends
  <2>4. Extends(h, b, {})
    BY <2>3, Onward
  <2>5. b.ptr = <<b.ptr[1], b.ptr[2]>> /\ b.ptr[1] = a.ptr /\ b.ptr[2] = k.ptr
    BY <1>3, <1>7
  <2>6. /\ a.ptr \in Address /\ Aligned(a.ptr[2])
        /\ Span(a.ptr, m) \subseteq Of(a, r) /\ Span(a.ptr, m) \cap Used(h) = {}
    BY <2>2 DEF Allocates
  <2>7. Of(a, r) \subseteq Of(b, r) /\ Of(a, r) \subseteq Used(a)
    BY <1>5, <1>7, <2>3 DEF Extends, Safe, Of
  <2>8. Fresh1(h, b, r, a.ptr, m)
    BY <2>6, <2>7 DEF Fresh1
  <2>9. CASE n = 0
    <3>1. k.ptr = Null
      BY <2>2, <2>9 DEF Allocates
    <3> QED BY <2>3, <2>4, <2>5, <2>8, <2>9, <3>1 DEF Pair
  <2>10. CASE n # 0
    <3>1. /\ k.ptr \in Address /\ Aligned(k.ptr[2])
          /\ Span(k.ptr, n) \subseteq Of(k, r) /\ Span(k.ptr, n) \cap Used(a) = {}
      BY <2>2, <2>10 DEF Allocates
    <3>2. Used(h) \subseteq Used(a)
      BY <2>3 DEF Extends
    <3>3. Fresh1(h, b, r, k.ptr, n)
      BY <1>7, <3>1, <3>2 DEF Fresh1
    <3>4. Span(a.ptr, m) \cap Span(k.ptr, n) = {}
      BY <2>6, <2>7, <3>1
    <3> QED BY <2>3, <2>4, <2>5, <2>8, <2>10, <3>3, <3>4 DEF Pair
  <2> QED BY <2>9, <2>10
<1> QED BY <1>8, <1>9

\* A sequence without elements.
LEMMA NoWords ==
    ASSUME NEW s, IsSequence(s), Len(s) = 0
    PROVE  s = <<>>
BY EmptySeq DEF IsSequence

\* A structure made of a head and data.
Assembles(h, g, r, p, d, head, data) ==
    /\ Len(data) <= SizeMax /\ Extends(h, g, {}) /\ g.ptr = p
    /\ Fresh1(h, g, r, p, Len(head))
    /\ \A i \in 0 .. Len(head) - 1 : Word(g, Plus(p, i)) = head[i + 1]
    /\ IF Len(data) = 0 THEN d = Null
       ELSE /\ Fresh1(h, g, r, d, Len(data)) /\ Span(p, Len(head)) \cap Span(d, Len(data)) = {}
            /\ \A i \in 0 .. Len(data) - 1 : Word(g, Plus(d, i)) = data[i + 1]

\* The words of a piece.
LEMMA SpanOf ==
    ASSUME NEW p \in Address, NEW n \in Nat, NEW i \in 0 .. n - 1
    PROVE  Plus(p, i) \in Span(p, n)
<1>1. i \in Nat /\ i < n /\ p[2] \in Nat
  BY DEF Address
<1>2. /\ Plus(p, i) \in Address /\ Plus(p, i)[1] = p[1] /\ Plus(p, i)[2] = p[2] + i
  BY <1>1, PlusAt
<1> QED BY <1>1, <1>2 DEF Span

\* A structure built in two new pieces.
LEMMA Assembled ==
    ASSUME NEW h, Sound(h), NEW r \in 1 .. Len(h.regions), NEW n \in Nat,
           NEW head, IsSequence(head), Len(head) # 0,
           NEW data, IsSequence(data), n = Len(data) \/ n > SizeMax,
           NEW b, b = TwoPieces(h, r, Len(head), n),
           NEW g, g = Built(b, head, data)
    PROVE  /\ Safe(h, g)
           /\ h.died = "no" /\ g.died = "no" => Assembles(h, g, r, b.ptr[1], b.ptr[2], head, data)
<1>0. Len(head) \in Nat /\ Len(data) \in Nat
  BY SeqFacts
<1>1. /\ Safe(h, b)
      /\ h.died = "no" /\ b.died = "no" => Pair(h, b, r, Len(head), n)
  BY <1>0, TwoMade
<1>2. PICK s : s = Store(b, b.ptr[1], head)
  OBVIOUS
<1>3. PICK t : t = Store(s, b.ptr[2], data)
  OBVIOUS
<1>4. g = Returning(t, b.ptr[1])
  BY <1>2, <1>3 DEF Built
<1>5. CASE b.died # "no"
  <2>1. g = b
    BY <1>2, <1>3, <1>4, <1>5, Buried
  <2> QED BY <1>1, <1>5, <2>1
<1>6. CASE b.died = "no"
  <2>1. h.died = "no"
    BY <1>1, <1>6 DEF Safe
  <2>2. Pair(h, b, r, Len(head), n) /\ n = Len(data)
    BY <1>0, <1>1, <1>6, <2>1, SizesAssumption DEF Pair
  <2>3. PICK p, d : p = b.ptr[1] /\ d = b.ptr[2]
    OBVIOUS
  <2>4. /\ n <= SizeMax /\ Extends(h, b, {}) /\ Fresh1(h, b, r, p, Len(head))
        /\ IF n = 0 THEN d = Null
           ELSE Fresh1(h, b, r, d, n) /\ Span(p, Len(head)) \cap Span(d, n) = {}
    BY <2>2, <2>3 DEF Pair
  <2>5. Of(b, r) \subseteq Used(b)
    BY DEF Of
  <2>6. Stores(b, s, p, head)
    <3>1. p \in Address /\ Span(p, Len(head)) \subseteq Used(b) /\ Sound(b)
      BY <1>1, <2>4, <2>5 DEF Fresh1, Safe
    <3> QED BY <1>2, <1>6, <2>3, <3>1, Stored
  <2>7. /\ Sound(s) /\ s.died = "no" /\ s.regions = b.regions /\ Used(s) = Used(b)
        /\ \A q : Of(s, q) = Of(b, q)
        /\ \A i \in 0 .. Len(head) - 1 : Word(s, Plus(p, i)) = head[i + 1]
        /\ Extends(b, s, Span(p, Len(head)))
    BY <2>6, StoresExtends DEF Stores
  <2>8. CASE n = 0
    <3>1. t = s
      <4>1. data = <<>>
        BY <1>0, <2>2, <2>8, NoWords
      <4> QED BY <1>3, <4>1, EmptyStore
    <3>2. /\ Safe(s, g) /\ g.died = "no" /\ g.ptr = p /\ Used(g) = Used(s)
          /\ \A q : Of(g, q) = Of(s, q)
          /\ \A x : Word(g, x) = Word(s, x) /\ g.regions = s.regions
      BY <1>4, <2>3, <2>7, <3>1, ReturnSafe
    <3>3. Extends(h, s, Span(p, Len(head)))
      BY <2>4, <2>7, Onward
    <3>4. Extends(h, s, {})
      BY <2>4, <3>3, Narrower DEF Fresh1
    <3>5. Extends(h, g, {})
      BY <3>2, <3>4 DEF Extends
    <3>6. Safe(h, g)
      BY <1>1, <2>1, <2>7, <3>2 DEF Safe
    <3>7. Fresh1(h, g, r, p, Len(head))
      BY <2>4, <2>7, <3>2 DEF Fresh1
    <3>8. \A i \in 0 .. Len(head) - 1 : Word(g, Plus(p, i)) = head[i + 1]
      BY <2>7, <3>2
    <3> QED BY <2>2, <2>3, <2>4, <2>8, <3>2, <3>5, <3>6, <3>7, <3>8 DEF Assembles
  <2>9. CASE n # 0
    <3>0. Fresh1(h, b, r, d, n) /\ Span(p, Len(head)) \cap Span(d, n) = {}
      BY <2>4, <2>9
    <3>1. Stores(s, t, d, data)
      <4>1. d \in Address /\ Span(d, n) \subseteq Used(s)
        BY <2>5, <2>7, <3>0 DEF Fresh1
      <4> QED BY <1>3, <2>2, <2>3, <2>7, <2>9, <4>1, Stored
    <3>2. /\ Sound(t) /\ t.died = "no" /\ t.regions = s.regions /\ Used(t) = Used(s)
          /\ \A q : Of(t, q) = Of(s, q)
          /\ \A x \in Used(s) \ Span(d, n) : Word(t, x) = Word(s, x)
          /\ \A i \in 0 .. n - 1 : Word(t, Plus(d, i)) = data[i + 1]
          /\ Extends(s, t, Span(d, n))
      BY <2>2, <3>1, StoresExtends DEF Stores
    <3>3. /\ Safe(t, g) /\ g.died = "no" /\ g.ptr = p /\ Used(g) = Used(t)
          /\ \A q : Of(g, q) = Of(t, q)
          /\ \A x : Word(g, x) = Word(t, x) /\ g.regions = t.regions
      BY <1>4, <2>3, <3>2, ReturnSafe
    <3>4. Extends(h, t, Span(p, Len(head)) \cup Span(d, n))
      <4>1. Extends(h, s, Span(p, Len(head)))
        BY <2>4, <2>7, Onward
      <4> QED BY <3>2, <4>1, Onward
    <3>5. Extends(h, t, {})
      BY <2>4, <3>0, <3>4, Narrower DEF Fresh1
    <3>6. Extends(h, g, {})
      BY <3>3, <3>5 DEF Extends
    <3>7. Safe(h, g)
      BY <1>1, <2>1, <2>7, <3>2, <3>3 DEF Safe
    <3>8. Fresh1(h, g, r, p, Len(head)) /\ Fresh1(h, g, r, d, n)
      BY <2>4, <2>7, <3>0, <3>2, <3>3 DEF Fresh1
    <3>9. ASSUME NEW i \in 0 .. Len(head) - 1 PROVE Word(g, Plus(p, i)) = head[i + 1]
      <4>1. Plus(p, i) \in Span(p, Len(head))
        BY <1>0, <2>4, SpanOf DEF Fresh1
      <4>2. Plus(p, i) \in Used(s) \ Span(d, n)
        BY <2>4, <2>5, <2>7, <3>0, <4>1 DEF Fresh1
      <4> QED BY <2>7, <3>2, <3>3, <4>2
    <3>10. \A i \in 0 .. n - 1 : Word(g, Plus(d, i)) = data[i + 1]
      BY <3>2, <3>3
    <3> QED BY <2>2, <2>3, <2>4, <2>9, <3>0, <3>3, <3>6, <3>7, <3>8, <3>9, <3>10 DEF Assembles
  <2> QED BY <2>8, <2>9
<1> QED BY <1>5, <1>6

-----------------------------------------------------------------------------
(***************************************************************************)
(* Objects: where they lie and which words are theirs.                     *)
(***************************************************************************)
FlatKinds == {"string", "buffer", "vector"}

HeadSize(x) == IF x.kind = "buffer" THEN 3 ELSE 4

FlatSize(h, x) ==
    IF x.kind = "string" THEN Room(h, x.ptr) + 1
    ELSE IF x.kind = "buffer" THEN Larger(Room(h, x.ptr), Size(h, x.ptr) + 1)
    ELSE Room(h, x.ptr) * ElemSize

FlatFoot(h, x) ==
    Span(x.ptr, HeadSize(x))
      \cup (IF FlatSize(h, x) = 0 THEN {} ELSE Span(Data(h, x.ptr), FlatSize(h, x)))

FlatLies(h, x) ==
    LET p == x.ptr
        d == Data(h, x.ptr)
        n == FlatSize(h, x) IN
    /\ x.region \in 1 .. Len(h.regions)
    /\ p \in Address /\ Aligned(p[2]) /\ Span(p, HeadSize(x)) \subseteq Of(h, x.region)
    /\ Size(h, p) \in Nat /\ Room(h, p) \in Nat /\ Size(h, p) <= Room(h, p) /\ n <= SizeMax
    /\ n # 0 => /\ d \in Address /\ (x.kind = "string" \/ Aligned(d[2]))
                /\ Span(d, n) \subseteq Of(h, x.region) /\ Span(p, HeadSize(x)) \cap Span(d, n) = {}
    /\ x.kind # "buffer" => Home(h, p) = x.region
    /\ x.kind = "string" => Size(h, p) = Room(h, p)
    /\ x.kind = "vector" /\ Room(h, p) = 0 => d = Null

\* The fields of a head, word by word.
LEMMA HeadWords ==
    ASSUME NEW h, NEW p \in Address
    PROVE  /\ Data(h, p) = Word(h, Plus(p, 0)) /\ Size(h, p) = Word(h, Plus(p, 1))
           /\ Room(h, p) = Word(h, Plus(p, 2)) /\ Home(h, p) = Word(h, Plus(p, 3))
           /\ Slots(h, p) = Word(h, Plus(p, 0)) /\ Count(h, p) = Word(h, Plus(p, 1))
           /\ Items(h, p) = Word(h, Plus(p, 2))
BY PlusAt DEF Data, Size, Room, Home, Slots, Count, Items

\* The words of a piece that is not written are kept.
LEMMA PieceKept ==
    ASSUME NEW h, NEW g, NEW A, Extends(h, g, A), NEW p \in Address, NEW n \in Nat,
           Span(p, n) \subseteq Used(h), Span(p, n) \cap A = {}
    PROVE  \A i \in 0 .. n - 1 : Word(g, Plus(p, i)) = Word(h, Plus(p, i))
<1>1. ASSUME NEW i \in 0 .. n - 1 PROVE Word(g, Plus(p, i)) = Word(h, Plus(p, i))
  <2>1. Plus(p, i) \in Span(p, n)
    BY SpanOf
  <2> QED BY <2>1 DEF Extends
<1> QED BY <1>1

\* The sizes of an object's pieces are numbers.
LEMMA FlatSizes ==
    ASSUME NEW h, NEW x, x.kind \in FlatKinds, Size(h, x.ptr) \in Nat, Room(h, x.ptr) \in Nat
    PROVE  /\ FlatSize(h, x) \in Nat /\ HeadSize(x) \in {3, 4}
           /\ x.kind # "vector" => FlatSize(h, x) # 0
           /\ x.kind = "vector" => (FlatSize(h, x) = 0 <=> Room(h, x.ptr) = 0)
<1>1. ElemSize \in Nat \ {0}
  BY LayoutAssumption
<1>2. PICK c \in Nat, s \in Nat : c = Room(h, x.ptr) /\ s = Size(h, x.ptr)
  OBVIOUS
<1>3. c * ElemSize \in Nat /\ (c * ElemSize = 0 <=> c = 0)
  BY <1>1
<1>4. c + 1 \in Nat /\ Larger(c, s + 1) \in Nat /\ c + 1 # 0 /\ Larger(c, s + 1) # 0
  BY DEF Larger
<1> QED BY <1>2, <1>3, <1>4 DEF FlatSize, HeadSize, FlatKinds

\* An object's words are given out, by its own region.
LEMMA FlatUsed ==
    ASSUME NEW h, NEW x, FlatLies(h, x)
    PROVE  FlatFoot(h, x) \subseteq Of(h, x.region) /\ FlatFoot(h, x) \subseteq Used(h)
BY DEF FlatLies, FlatFoot, Of

\* An object whose head is not written lies where it did.
LEMMA FlatKept ==
    ASSUME NEW h, NEW x, x.kind \in FlatKinds, FlatLies(h, x),
           NEW g, NEW A, Extends(h, g, A), Span(x.ptr, HeadSize(x)) \cap A = {}
    PROVE  /\ FlatLies(g, x) /\ FlatFoot(g, x) = FlatFoot(h, x)
           /\ FlatSize(g, x) = FlatSize(h, x) /\ Data(g, x.ptr) = Data(h, x.ptr)
           /\ Size(g, x.ptr) = Size(h, x.ptr) /\ Room(g, x.ptr) = Room(h, x.ptr)
<1> DEFINE p == x.ptr
<1>1. /\ p \in Address /\ Span(p, HeadSize(x)) \subseteq Used(h) /\ Span(p, HeadSize(x)) \cap A = {}
      /\ HeadSize(x) \in Nat /\ HeadSize(x) \in {3, 4} /\ (HeadSize(x) = 3 <=> x.kind = "buffer")
  BY DEF FlatLies, FlatFoot, Of, HeadSize
<1>2. \A i \in 0 .. HeadSize(x) - 1 : Word(g, Plus(p, i)) = Word(h, Plus(p, i))
  <2> HIDE DEF p
  <2> QED BY <1>1, PieceKept
<1>3. /\ Data(g, p) = Data(h, p) /\ Size(g, p) = Size(h, p) /\ Room(g, p) = Room(h, p)
      /\ x.kind # "buffer" => Home(g, p) = Home(h, p)
  <2>1. 0 \in 0 .. HeadSize(x) - 1 /\ 1 \in 0 .. HeadSize(x) - 1 /\ 2 \in 0 .. HeadSize(x) - 1
        /\ (x.kind # "buffer" => 3 \in 0 .. HeadSize(x) - 1)
    BY <1>1
  <2> HIDE DEF p
  <2> QED BY <1>1, <1>2, <2>1, HeadWords
<1>4. FlatSize(g, x) = FlatSize(h, x)
  BY <1>3 DEF FlatSize
<1>5. /\ Of(h, x.region) \subseteq Of(g, x.region) /\ Len(g.regions) = Len(h.regions)
  BY DEF Extends, FlatLies
<1>6. FlatLies(g, x)
  BY <1>3, <1>4, <1>5 DEF FlatLies
<1>7. FlatFoot(g, x) = FlatFoot(h, x)
  BY <1>3, <1>4 DEF FlatFoot
<1> QED BY <1>3, <1>4, <1>6, <1>7

\* A sum that is not refused.
LEMMA SizeAdded ==
    ASSUME NEW a \in Nat, NEW b \in Nat
    PROVE  /\ SizeAdd(a, b) \in Nat
           /\ SizeAdd(a, b) <= SizeMax => SizeAdd(a, b) = a + b
           /\ SizeAdd(a, b) <= TooBig /\ (SizeAdd(a, b) = a + b \/ SizeAdd(a, b) > SizeMax)
           /\ (a + b <= SizeMax => SizeAdd(a, b) = a + b)
BY SizesAssumption DEF SizeAdd, TooBig

\* A product that is not refused.
LEMMA SizeMultiplied ==
    ASSUME NEW a \in Nat, NEW b \in Nat
    PROVE  /\ SizeMul(a, b) \in Nat /\ a * b \in Nat
           /\ SizeMul(a, b) <= SizeMax => SizeMul(a, b) = a * b
           /\ SizeMul(a, b) <= TooBig /\ (SizeMul(a, b) = a * b \/ SizeMul(a, b) > SizeMax)
<1>1. PICK c \in Nat : c = a * b
  OBVIOUS
<1>2. SizeMul(a, b) = IF c > SizeMax THEN TooBig ELSE c
  BY <1>1 DEF SizeMul
<1>3. /\ SizeMul(a, b) \in Nat
      /\ SizeMul(a, b) <= SizeMax => SizeMul(a, b) = c
      /\ SizeMul(a, b) <= TooBig /\ (SizeMul(a, b) = c \/ SizeMul(a, b) > SizeMax)
  BY <1>2, SizesAssumption DEF TooBig
<1> QED BY <1>1, <1>3

\* A piece is its beginning and its end.
LEMMA SpanSplit ==
    ASSUME NEW p \in Address, NEW m \in Nat, NEW n \in Nat
    PROVE  /\ Span(p, m + n) = Span(p, m) \cup Span(Plus(p, m), n)
           /\ Span(p, m) \cap Span(Plus(p, m), n) = {}
<1>1. Plus(p, m)[1] = p[1] /\ Plus(p, m)[2] = p[2] + m /\ p[2] \in Nat
  BY PlusAt DEF Address
<1>2. PICK k : k = p[2]
  OBVIOUS
<1>3. \A a \in Address : /\ a \in Span(p, m + n) <=> a[1] = p[1] /\ k <= a[2] /\ a[2] < k + (m + n)
                         /\ a \in Span(p, m) <=> a[1] = p[1] /\ k <= a[2] /\ a[2] < k + m
                         /\ a \in Span(Plus(p, m), n) <=>
                              a[1] = p[1] /\ k + m <= a[2] /\ a[2] < k + m + n
                         /\ a[2] \in Nat
  BY <1>1, <1>2 DEF Span, Address
<1>4. Span(p, m + n) \subseteq Address /\ Span(p, m) \subseteq Address
      /\ Span(Plus(p, m), n) \subseteq Address
  BY DEF Span
<1>5. ASSUME NEW a \in Address
      PROVE  /\ a \in Span(p, m + n) <=> a \in Span(p, m) \/ a \in Span(Plus(p, m), n)
             /\ ~ (a \in Span(p, m) /\ a \in Span(Plus(p, m), n))
  <2>1. k \in Nat /\ a[2] \in Nat
    BY <1>1, <1>2, <1>3
  <2> DEFINE I(x, y) == x <= a[2] /\ a[2] < y
  <2>2. /\ I(k, k + (m + n)) <=> (I(k, k + m) \/ I(k + m, k + m + n))
        /\ ~ (I(k, k + m) /\ I(k + m, k + m + n))
    BY <2>1
  <2>4. /\ a \in Span(p, m + n) <=> (a[1] = p[1] /\ I(k, k + (m + n)))
        /\ a \in Span(p, m) <=> (a[1] = p[1] /\ I(k, k + m))
        /\ a \in Span(Plus(p, m), n) <=> (a[1] = p[1] /\ I(k + m, k + m + n))
    BY <1>3
  <2> HIDE DEF I
  <2> QED BY <2>2, <2>4
<1> QED BY <1>4, <1>5

\* A string as StringNew makes it: its head and its characters in one piece.
OnePiece(h, p, s) ==
    /\ Data(h, p) = Plus(p, 4) /\ Size(h, p) = Len(s) /\ Room(h, p) = Len(s)
    /\ Text(h, p) = s

\* StringNew: head and characters in one new piece.
LEMMA StringPiece ==
    ASSUME NEW h, Sound(h), NEW r \in 1 .. Len(h.regions), NEW s, IsSequence(s),
           NEW g, g = StringNew(h, r, s)
    PROVE  /\ Safe(h, g)
           /\ h.died = "no" /\ g.died = "no" =>
                /\ Extends(h, g, {}) /\ Len(s) + 5 <= SizeMax
                /\ Fresh1(h, g, r, g.ptr, Len(s) + 5)
                /\ OnePiece(g, g.ptr, s) /\ Home(g, g.ptr) = r
<1>0. Len(s) \in Nat
  BY SeqFacts
<1>1. PICK n : n = SizeAdd(4, SizeAdd(Len(s), 1))
  OBVIOUS
<1>2. n \in Nat /\ (n <= SizeMax => n = Len(s) + 5)
  <2>1. PICK k : k = SizeAdd(Len(s), 1)
    OBVIOUS
  <2>2. k \in Nat /\ (k = Len(s) + 1 \/ k > SizeMax)
    BY <1>0, <2>1, SizeAdded
  <2>3. n = SizeAdd(4, k)
    BY <1>1, <2>1
  <2>4. n \in Nat /\ (n <= SizeMax => n = 4 + k)
    BY <2>2, <2>3, SizeAdded
  <2> QED BY <1>0, <2>2, <2>4, SizesAssumption
<1>3. PICK a : a = RegionAlloc(h, r, n)
  OBVIOUS
<1>4. /\ Safe(h, a)
      /\ h.died = "no" /\ a.died = "no" => Allocates(h, a, r, n)
  BY <1>2, <1>3, AllocSafe
<1>5. PICK q, v : q = a.ptr /\ v = <<Plus(q, 4), Len(s), Len(s), r>> \o s \o <<Nul>>
  OBVIOUS
<1>6. PICK t : t = Store(a, q, v)
  OBVIOUS
<1>7. g = Returning(t, q)
  BY <1>1, <1>3, <1>5, <1>6 DEF StringNew, InOnePiece
<1>8. CASE a.died # "no"
  <2>1. g = a
    BY <1>6, <1>7, <1>8, Buried
  <2> QED BY <1>4, <1>8, <2>1
<1>9. CASE a.died = "no"
  <2>1. h.died = "no" /\ Allocates(h, a, r, n)
    BY <1>4, <1>9 DEF Safe
  <2>2. n = Len(s) + 5 /\ n <= SizeMax /\ Extends(h, a, {})
        /\ q \in Address /\ Aligned(q[2])
        /\ Span(q, n) \subseteq Of(a, r) /\ Span(q, n) \cap Used(h) = {}
    BY <1>0, <1>2, <1>5, <2>1 DEF Allocates
  <2>3. /\ IsSequence(v) /\ Len(v) = n
        /\ v[1] = Plus(q, 4) /\ v[2] = Len(s) /\ v[3] = Len(s) /\ v[4] = r
        /\ \A i \in 1 .. Len(s) : v[i + 4] = s[i]
    <3>1. PICK u : u = <<Plus(q, 4), Len(s), Len(s), r>>
      OBVIOUS
    <3>2. /\ IsSequence(u) /\ Len(u) = 4 /\ u[1] = Plus(q, 4) /\ u[2] = Len(s)
          /\ u[3] = Len(s) /\ u[4] = r
      BY <3>1, Listed
    <3>3. PICK w : w = u \o s
      OBVIOUS
    <3>4. /\ IsSequence(w) /\ Len(w) = Len(u) + Len(s)
          /\ \A i \in 1 .. Len(u) + Len(s) : w[i] = IF i <= Len(u) THEN u[i] ELSE s[i - Len(u)]
      BY <3>2, <3>3, Joining
    <3>5. PICK z : z = <<Nul>>
      OBVIOUS
    <3>6. IsSequence(z) /\ Len(z) = 1
      BY <3>5, Listed
    <3>7. v = w \o z
      BY <1>5, <3>1, <3>3, <3>5
    <3>8. /\ IsSequence(v) /\ Len(v) = Len(w) + Len(z)
          /\ \A i \in 1 .. Len(w) + Len(z) : v[i] = IF i <= Len(w) THEN w[i] ELSE z[i - Len(w)]
      BY <3>4, <3>6, <3>7, Joining
    <3>9. \A i \in 1 .. 4 : v[i] = u[i]
      BY <1>0, <3>2, <3>4, <3>6, <3>8
    <3>10. ASSUME NEW i \in 1 .. Len(s) PROVE v[i + 4] = s[i]
      <4>1. PICK j : j = i + 4
        OBVIOUS
      <4>2. j \in 1 .. Len(w) + Len(z) /\ j <= Len(w) /\ j \in 1 .. Len(u) + Len(s) /\ ~ (j <= Len(u))
            /\ j - Len(u) = i
        BY <1>0, <3>2, <3>4, <3>6, <4>1
      <4>3. v[j] = w[j] /\ w[j] = s[j - Len(u)]
        BY <3>4, <3>8, <4>2
      <4> QED BY <4>1, <4>2, <4>3
    <3>11. Len(v) = n
      BY <1>0, <2>2, <3>2, <3>4, <3>6, <3>8
    <3> QED BY <3>2, <3>8, <3>9, <3>10, <3>11
  <2>4. Stores(a, t, q, v)
    <3>1. Span(q, Len(v)) \subseteq Used(a) /\ Len(v) # 0 /\ Sound(a)
      BY <1>0, <1>4, <2>2, <2>3 DEF Of, Safe
    <3> QED BY <1>6, <1>9, <2>2, <2>3, <3>1, Stored
  <2>5. /\ Safe(t, g) /\ g.died = "no" /\ g.ptr = q /\ Used(g) = Used(t)
        /\ \A x : Of(g, x) = Of(t, x)
        /\ \A x : Word(g, x) = Word(t, x) /\ g.regions = t.regions
    BY <1>7, <2>4, ReturnSafe DEF Stores
  <2>6. /\ Sound(t) /\ t.died = "no" /\ t.regions = a.regions /\ Used(t) = Used(a)
        /\ \A x : Of(t, x) = Of(a, x)
        /\ Extends(a, t, Span(q, n))
        /\ \A i \in 0 .. n - 1 : Word(t, Plus(q, i)) = v[i + 1]
    BY <2>3, <2>4, StoresExtends DEF Stores
  <2>7. Extends(h, g, {})
    <3>1. Extends(h, t, Span(q, n))
      BY <2>2, <2>6, Onward
    <3>2. Extends(h, t, {})
      BY <2>2, <3>1, Narrower
    <3> QED BY <2>5, <3>2 DEF Extends
  <2>8. Fresh1(h, g, r, q, n)
    BY <2>2, <2>5, <2>6 DEF Fresh1
  <2>9. Safe(h, g)
    BY <1>4, <2>1, <2>5, <2>6 DEF Safe
  <2>10. Data(g, q) = Plus(q, 4) /\ Size(g, q) = Len(s) /\ Room(g, q) = Len(s) /\ Home(g, q) = r
    <3>1. 0 \in 0 .. n - 1 /\ 1 \in 0 .. n - 1 /\ 2 \in 0 .. n - 1 /\ 3 \in 0 .. n - 1
      BY <1>0, <2>2
    <3>2. /\ Word(g, Plus(q, 0)) = v[1] /\ Word(g, Plus(q, 1)) = v[2]
          /\ Word(g, Plus(q, 2)) = v[3] /\ Word(g, Plus(q, 3)) = v[4]
      BY <2>5, <2>6, <3>1
    <3> QED BY <2>2, <2>3, <3>2, HeadWords
  <2>11. Text(g, q) = s
    <3>1. PICK d : d = Plus(q, 4)
      OBVIOUS
    <3>2. d \in Address /\ Span(d, Len(s) + 1) \subseteq Used(g)
      <4>1. Span(q, 4 + (Len(s) + 1)) \subseteq Used(g)
        <5>1. 4 + (Len(s) + 1) = n
          BY <1>0, <2>2
        <5> QED BY <2>8, <5>1 DEF Fresh1, Of
      <4>2. Len(s) + 1 \in Nat
        BY <1>0
      <4>3. Span(d, Len(s) + 1) \subseteq Span(q, 4 + (Len(s) + 1))
        BY <2>2, <3>1, <4>2, SpanSplit
      <4> QED BY <2>2, <3>1, <4>1, <4>3, PlusAt
    <3>3. PICK w : w = Words(g, d, Len(s))
      OBVIOUS
    <3>4. /\ IsSequence(w) /\ Len(w) = Len(s)
          /\ \A i \in 0 .. Len(s) - 1 : w[i + 1] = Word(g, Plus(d, i))
      <4>1. Len(s) + 1 \in Nat /\ Len(s) + 1 # 0 /\ Len(s) <= Len(s) + 1
        BY <1>0
      <4>2. Sound(g)
        BY <2>9 DEF Safe
      <4> QED BY <1>0, <3>2, <3>3, <4>1, <4>2, WordsRead
    <3>5. ASSUME NEW i \in 1 .. Len(s) PROVE w[i] = s[i]
      <4>1. PICK j : j = i - 1
        OBVIOUS
      <4>2. j \in 0 .. Len(s) - 1 /\ j + 1 = i /\ j + 4 \in 0 .. n - 1 /\ j + 4 + 1 = i + 4 /\ j \in Nat
        BY <1>0, <2>2, <4>1
      <4>3. w[i] = Word(g, Plus(d, j))
        BY <3>4, <4>2
      <4>4. Plus(d, j) = Plus(q, j + 4)
        <5>1. d[1] = q[1] /\ d[2] = q[2] + 4 /\ q[2] \in Nat
          <6>1. q \in Address /\ 4 \in Nat
            BY <2>2
          <6>2. d[1] = q[1] /\ d[2] = q[2] + 4
            BY <3>1, <6>1, PlusAt
          <6> QED BY <6>1, <6>2 DEF Address
        <5>5. Plus(d, j) = <<d[1], d[2] + j>>
          BY <3>2, <4>2, PlusAt
        <5>2. Plus(d, j) = <<q[1], q[2] + 4 + j>>
          BY <5>1, <5>5
        <5>3. Plus(q, j + 4) = <<q[1], q[2] + (j + 4)>>
          BY <2>2, <4>2, PlusAt
        <5>4. q[2] + 4 + j = q[2] + (j + 4)
          <6>1. PICK b \in Nat : b = q[2]
            BY <5>1
          <6>2. b + 4 + j = b + (j + 4)
            BY ONLY b \in Nat, <4>2
          <6> QED BY <6>1, <6>2
        <5> QED BY <5>2, <5>3, <5>4
      <4>5. Word(g, Plus(q, j + 4)) = v[j + 4 + 1]
        BY <2>5, <2>6, <4>2
      <4> QED BY <2>3, <4>2, <4>3, <4>4, <4>5
    <3>6. w = s
      BY <3>4, <3>5, SameSeq
    <3>7. Text(g, q) = Words(g, d, Len(s))
      BY <2>10, <3>1 DEF Text
    <3> QED BY <3>3, <3>6, <3>7
  <2> QED BY <2>1, <2>2, <2>5, <2>7, <2>8, <2>9, <2>10, <2>11 DEF OnePiece
<1> QED BY <1>8, <1>9

\* g is h with the new object x.
FlatCreates(h, g, x) ==
    /\ Safe(h, g)
    /\ h.died = "no" /\ g.died = "no" =>
         /\ Extends(h, g, {}) /\ FlatLies(g, x) /\ FlatFoot(g, x) \cap Used(h) = {}

Object(g, kind, r) == [kind |-> kind, ptr |-> g.ptr, region |-> r]

\* A structure built in new pieces is an object that lies well.
LEMMA FlatMade ==
    ASSUME NEW h, NEW g, Sound(g), NEW r \in 1 .. Len(g.regions), NEW d, NEW head, NEW data,
           IsSequence(data), Assembles(h, g, r, g.ptr, d, head, data),
           NEW x, x.kind \in FlatKinds, x.ptr = g.ptr, x.region = r,
           Len(head) = HeadSize(x), NEW n \in Nat,
           head[1] = d, head[2] = n, head[3] = n, x.kind = "buffer" \/ head[4] = r,
           Len(data) = IF x.kind = "vector" THEN n * ElemSize ELSE n + 1
    PROVE  FlatLies(g, x) /\ FlatFoot(g, x) \cap Used(h) = {}
<1> DEFINE p == g.ptr
<1>1. /\ Len(data) <= SizeMax /\ p \in Address /\ Aligned(p[2])
      /\ Span(p, HeadSize(x)) \subseteq Of(g, r) /\ Span(p, HeadSize(x)) \cap Used(h) = {}
      /\ \A i \in 0 .. HeadSize(x) - 1 : Word(g, Plus(p, i)) = head[i + 1]
  BY DEF Assembles, Fresh1
<1>2. Data(g, p) = d /\ Size(g, p) = n /\ Room(g, p) = n /\ (x.kind # "buffer" => Home(g, p) = r)
  <2>1. 0 \in 0 .. HeadSize(x) - 1 /\ 1 \in 0 .. HeadSize(x) - 1 /\ 2 \in 0 .. HeadSize(x) - 1
        /\ (x.kind # "buffer" => 3 \in 0 .. HeadSize(x) - 1)
    BY DEF HeadSize
  <2> HIDE DEF p
  <2> QED BY <1>1, <2>1, HeadWords
<1>3. FlatSize(g, x) = Len(data)
  <2>1. Larger(n, n + 1) = n + 1
    BY DEF Larger
  <2> QED BY <1>2, <2>1 DEF FlatSize, FlatKinds
<1>4. FlatSize(g, x) \in Nat /\ (x.kind = "vector" /\ n = 0 => FlatSize(g, x) = 0)
  <2>1. FlatSize(g, x) \in Nat
    BY <1>2, FlatSizes
  <2>2. x.kind = "vector" /\ n = 0 => FlatSize(g, x) = 0
    BY <1>2, FlatSizes
  <2> QED BY <2>1, <2>2
<1>5. IF FlatSize(g, x) = 0 THEN d = Null
      ELSE /\ d \in Address /\ Aligned(d[2]) /\ Span(d, FlatSize(g, x)) \subseteq Of(g, r)
           /\ Span(d, FlatSize(g, x)) \cap Used(h) = {}
           /\ Span(p, HeadSize(x)) \cap Span(d, FlatSize(g, x)) = {}
  BY <1>3 DEF Assembles, Fresh1
<1>6. FlatLies(g, x)
  BY <1>1, <1>2, <1>3, <1>4, <1>5 DEF FlatLies
<1>7. FlatFoot(g, x) \cap Used(h) = {}
  BY <1>1, <1>2, <1>5 DEF FlatFoot
<1> QED BY <1>6, <1>7

\* A part of a piece.
LEMMA SpanWithin ==
    ASSUME NEW p \in Address, NEW i \in Nat, NEW m \in Nat, NEW n \in Nat, i + m <= n
    PROVE  Span(Plus(p, i), m) \subseteq Span(p, n)
<1>1. Plus(p, i)[1] = p[1] /\ Plus(p, i)[2] = p[2] + i /\ p[2] \in Nat
  BY PlusAt DEF Address
<1>2. ASSUME NEW a \in Span(Plus(p, i), m) PROVE a \in Span(p, n)
  <2>1. a \in Address /\ a[2] \in Nat /\ a[1] = p[1] /\ p[2] + i <= a[2] /\ a[2] < p[2] + i + m
    BY <1>1 DEF Span, Address
  <2>2. p[2] <= a[2] /\ a[2] < p[2] + n
    BY <1>1, <2>1
  <2> QED BY <2>1, <2>2 DEF Span
<1> QED BY <1>2

\* Places times the size of an element.
LEMMA Products ==
    ASSUME NEW a \in Nat, NEW b \in Nat, NEW e \in Nat \ {0}
    PROVE  /\ a * e \in Nat /\ b * e \in Nat /\ (a + b) * e = a * e + b * e
           /\ a <= b => a * e <= b * e
           /\ a < b => a * e < b * e
           /\ a <= a * e
<1>1. a * e \in Nat /\ b * e \in Nat /\ (a + b) * e = a * e + b * e /\ a <= a * e
  OBVIOUS
<1>2. ASSUME a <= b PROVE a * e <= b * e
  <2>1. PICK d \in Nat : b = a + d
    <3>1. b - a \in Nat /\ b = a + (b - a)
      BY <1>2
    <3> QED BY <3>1
  <2>2. b * e = a * e + d * e /\ d * e \in Nat
    BY <2>1
  <2> QED BY <1>1, <2>2
<1>3. ASSUME a < b PROVE a * e < b * e
  <2>1. PICK d \in Nat \ {0} : b = a + d
    <3>1. b - a \in Nat \ {0} /\ b = a + (b - a)
      BY <1>3
    <3> QED BY <3>1
  <2>2. b * e = a * e + d * e /\ d * e \in Nat \ {0}
    BY <2>1
  <2> QED BY <1>1, <2>2
<1> QED BY <1>1, <1>2, <1>3

\* g is h with the object x changed: nothing else is, and what x has gained is new.
FlatChanges(h, g, x) ==
    /\ Safe(h, g)
    /\ h.died = "no" /\ g.died = "no" =>
         /\ Extends(h, g, FlatFoot(h, x)) /\ FlatLies(g, x)
         /\ FlatFoot(g, x) \cap Used(h) \subseteq FlatFoot(h, x)

\* Two changes of one object in a row.
LEMMA ChangesOnward ==
    ASSUME NEW h, NEW t, NEW g, NEW x, FlatChanges(h, t, x), FlatChanges(t, g, x)
    PROVE  FlatChanges(h, g, x)
<1>1. Safe(h, g) /\ (g.died = "no" => t.died = "no")
  BY DEF FlatChanges, Safe
<1>2. ASSUME h.died = "no", g.died = "no"
      PROVE  /\ Extends(h, g, FlatFoot(h, x)) /\ FlatLies(g, x)
             /\ FlatFoot(g, x) \cap Used(h) \subseteq FlatFoot(h, x)
  <2>1. /\ Extends(h, t, FlatFoot(h, x)) /\ FlatFoot(t, x) \cap Used(h) \subseteq FlatFoot(h, x)
        /\ Extends(t, g, FlatFoot(t, x)) /\ FlatLies(g, x)
        /\ FlatFoot(g, x) \cap Used(t) \subseteq FlatFoot(t, x)
    BY <1>1, <1>2 DEF FlatChanges
  <2>2. Extends(h, g, FlatFoot(h, x) \cup FlatFoot(t, x))
    BY <2>1, Onward
  <2>3. Extends(h, g, FlatFoot(h, x))
    BY <2>1, <2>2, Narrower
  <2>4. Used(h) \subseteq Used(t)
    BY <2>1 DEF Extends
  <2> QED BY <2>1, <2>3, <2>4
<1> QED BY <1>1, <1>2 DEF FlatChanges

\* A call that only reads.
LEMMA NotChanged ==
    ASSUME NEW h, Sound(h), NEW x, FlatLies(h, x)
    PROVE  FlatChanges(h, h, x)
BY Unchanged DEF FlatChanges, Safe

\* Writing into the array of an object.
LEMMA DataWritten ==
    ASSUME NEW h, Sound(h), h.died = "no", NEW x, x.kind \in FlatKinds, FlatLies(h, x),
           NEW i \in Nat, NEW v, IsSequence(v), Len(v) # 0, i + Len(v) <= FlatSize(h, x),
           NEW g, g = Store(h, Plus(Data(h, x.ptr), i), v)
    PROVE  /\ FlatChanges(h, g, x) /\ g.died = "no" /\ Data(g, x.ptr) = Data(h, x.ptr)
           /\ Size(g, x.ptr) = Size(h, x.ptr) /\ Room(g, x.ptr) = Room(h, x.ptr)
<1>0. Len(v) \in Nat /\ FlatSize(h, x) \in Nat
  <2>1. Size(h, x.ptr) \in Nat /\ Room(h, x.ptr) \in Nat
    BY DEF FlatLies
  <2> QED BY <2>1, SeqFacts, FlatSizes
<1>1. PICK d, n, q : d = Data(h, x.ptr) /\ n = FlatSize(h, x) /\ q = Plus(d, i)
  OBVIOUS
<1>2. n # 0 /\ n \in Nat /\ i + Len(v) <= n
  BY <1>0, <1>1
<1>3. /\ d \in Address /\ Span(d, n) \subseteq Of(h, x.region)
      /\ Span(x.ptr, HeadSize(x)) \cap Span(d, n) = {}
  BY <1>1, <1>2 DEF FlatLies
<1>4. q \in Address /\ Span(q, Len(v)) \subseteq Span(d, n)
  BY <1>0, <1>1, <1>2, <1>3, PlusAt, SpanWithin
<1>5. Span(q, Len(v)) \subseteq Used(h)
  BY <1>3, <1>4 DEF Of
<1>6. g = Store(h, q, v)
  BY <1>1
<1>7. Stores(h, g, q, v)
  BY <1>4, <1>5, <1>6, Stored
<1>8. Extends(h, g, Span(q, Len(v))) /\ Sound(g) /\ g.died = "no" /\ g.regions = h.regions
  BY <1>7, StoresExtends DEF Stores
<1>9. Span(x.ptr, HeadSize(x)) \cap Span(q, Len(v)) = {}
  BY <1>3, <1>4
<1>10. /\ FlatLies(g, x) /\ FlatFoot(g, x) = FlatFoot(h, x) /\ Data(g, x.ptr) = Data(h, x.ptr)
       /\ Size(g, x.ptr) = Size(h, x.ptr) /\ Room(g, x.ptr) = Room(h, x.ptr)
  BY <1>8, <1>9, FlatKept
<1>11. Span(q, Len(v)) \subseteq FlatFoot(h, x)
  BY <1>1, <1>2, <1>4 DEF FlatFoot
<1>12. Extends(h, g, FlatFoot(h, x))
  BY <1>8, <1>11, Narrower
<1> QED BY <1>8, <1>10, <1>12 DEF FlatChanges, Safe

\* The words of an array are the same, wherever it lies now.
DataKept(h, g, x) ==
    \A i \in 0 .. FlatSize(h, x) - 1 :
       Word(g, Plus(Data(g, x.ptr), i)) = Word(h, Plus(Data(h, x.ptr), i))

\* Setting the size of a vector.
LEMMA SizeSet ==
    ASSUME NEW h, Sound(h), h.died = "no", NEW x, x.kind = "vector", FlatLies(h, x),
           NEW n \in Nat, n <= Room(h, x.ptr), NEW g, g = Store(h, Plus(x.ptr, 1), <<n>>)
    PROVE  /\ FlatChanges(h, g, x) /\ g.died = "no"
           /\ Size(g, x.ptr) = n /\ Room(g, x.ptr) = Room(h, x.ptr) /\ DataKept(h, g, x)
<1>1. PICK v, p, q : v = <<n>> /\ p = x.ptr /\ q = Plus(p, 1)
  OBVIOUS
<1>2. IsSequence(v) /\ Len(v) = 1 /\ v[1] = n
  BY <1>1, Listed
<1>3. /\ p \in Address /\ Span(p, 4) \subseteq Used(h) /\ HeadSize(x) = 4
  BY <1>1 DEF FlatLies, HeadSize, Of
<1>4. q \in Address /\ Span(q, 1) \subseteq Span(p, 4)
  BY <1>1, <1>3, PlusAt, SpanWithin
<1>5. g = Store(h, q, v)
  BY <1>1
<1>6. Stores(h, g, q, v)
  <2>1. Span(q, Len(v)) \subseteq Used(h) /\ Len(v) # 0
    BY <1>2, <1>3, <1>4
  <2> QED BY <1>2, <1>4, <1>5, <2>1, Stored
<1>7. /\ Sound(g) /\ g.died = "no" /\ g.regions = h.regions /\ Used(g) = Used(h)
      /\ \A r : Of(g, r) = Of(h, r)
      /\ Extends(h, g, Span(q, 1))
      /\ \A i \in 0 .. Len(v) - 1 : Word(g, Plus(q, i)) = v[i + 1]
      /\ \A a \in Used(h) \ Span(q, Len(v)) : Word(g, a) = Word(h, a)
  BY <1>2, <1>6, StoresExtends DEF Stores
<1>8. Word(g, q) = n
  <2>1. 0 \in 0 .. Len(v) - 1
    BY <1>2
  <2>2. Plus(q, 0) = q
    BY <1>4, PlusAt
  <2> QED BY <1>2, <1>7, <2>1, <2>2
<1>9. ASSUME NEW i \in {0, 2, 3} PROVE Word(g, Plus(p, i)) = Word(h, Plus(p, i))
  <2>1. Plus(p, i) \in Span(p, 4)
    BY <1>3, SpanOf
  <2>2. Plus(p, i) \notin Span(q, 1)
    <3>0. i \in Nat /\ p[2] \in Nat
      BY <1>3 DEF Address
    <3>1. Plus(p, i)[2] = p[2] + i /\ q[2] = p[2] + 1
      BY <1>1, <1>3, <3>0, PlusAt
    <3> QED BY <3>0, <3>1 DEF Span
  <2> QED BY <1>2, <1>3, <1>7, <2>1, <2>2
<1>10. Data(g, p) = Data(h, p) /\ Size(g, p) = n /\ Room(g, p) = Room(h, p) /\ Home(g, p) = Home(h, p)
  <2>1. Word(g, Plus(p, 0)) = Word(h, Plus(p, 0)) /\ Word(g, Plus(p, 2)) = Word(h, Plus(p, 2))
        /\ Word(g, Plus(p, 3)) = Word(h, Plus(p, 3))
    BY <1>9
  <2> QED BY <1>1, <1>3, <1>8, <2>1, HeadWords
<1>11. FlatSize(g, x) = FlatSize(h, x)
  BY <1>1, <1>10 DEF FlatSize
<1>12. FlatLies(g, x)
  BY <1>1, <1>7, <1>10, <1>11 DEF FlatLies
<1>13. FlatFoot(g, x) = FlatFoot(h, x)
  BY <1>1, <1>10, <1>11 DEF FlatFoot
<1>14. Extends(h, g, FlatFoot(h, x))
  <2>1. Span(q, 1) \subseteq FlatFoot(h, x)
    BY <1>1, <1>3, <1>4 DEF FlatFoot
  <2> QED BY <1>7, <2>1, Narrower
<1>15. DataKept(h, g, x)
  <2>1. PICK d, m : d = Data(h, p) /\ m = FlatSize(h, x)
    OBVIOUS
  <2>2. m \in Nat
    <3>1. x.kind \in FlatKinds /\ Size(h, x.ptr) \in Nat /\ Room(h, x.ptr) \in Nat
      BY DEF FlatLies, FlatKinds
    <3> QED BY <2>1, <3>1, FlatSizes
  <2>3. ASSUME NEW i \in 0 .. m - 1 PROVE Word(g, Plus(d, i)) = Word(h, Plus(d, i))
    <3>1. m # 0
      BY <2>2
    <3>2. d \in Address /\ Span(d, m) \subseteq Used(h) /\ Span(p, 4) \cap Span(d, m) = {}
      BY <1>1, <1>3, <2>1, <3>1 DEF FlatLies, Of
    <3>3. Span(d, m) \cap Span(q, 1) = {}
      BY <1>4, <3>2
    <3> QED BY <1>7, <2>2, <3>2, <3>3, PieceKept
  <2> QED BY <1>1, <1>10, <2>1, <2>3 DEF DataKept
<1> QED BY <1>1, <1>7, <1>10, <1>12, <1>13, <1>14, <1>15 DEF FlatChanges, Safe

-----------------------------------------------------------------------------
(***************************************************************************)
(* What an object holds: its value is read out of words.                   *)
(***************************************************************************)
Value(h, x) == IF x.kind = "vector" THEN Elements(h, x.ptr) ELSE Text(h, x.ptr)

\* m words from p on have been given out.
Readable(h, p, m) ==
    Sound(h) /\ p \in Address /\ m \in Nat \ {0} /\ Span(p, m) \subseteq Used(h)

\* Words that may be read are a sequence of what is at each place.
LEMMA WordsAre ==
    \A h, p, m, n : Readable(h, p, m) /\ n \in Nat /\ n <= m =>
       /\ IsSequence(Words(h, p, n)) /\ Len(Words(h, p, n)) = n
       /\ \A i \in 0 .. n - 1 : Words(h, p, n)[i + 1] = Word(h, Plus(p, i))
BY WordsRead DEF Readable

\* They are the sequence that has the same value at each place.
LEMMA WordsSame ==
    \A h, p, m, n, v :
       /\ Readable(h, p, m) /\ n \in Nat /\ n <= m /\ IsSequence(v) /\ Len(v) = n
       /\ \A i \in 0 .. n - 1 : Word(h, Plus(p, i)) = v[i + 1]
       => Words(h, p, n) = v
<1> SUFFICES ASSUME NEW h, NEW p, NEW m, NEW n, NEW v,
                    Readable(h, p, m), n \in Nat, n <= m, IsSequence(v), Len(v) = n,
                    \A i \in 0 .. n - 1 : Word(h, Plus(p, i)) = v[i + 1]
             PROVE  Words(h, p, n) = v
  OBVIOUS
<1>1. PICK w : w = Words(h, p, n)
  OBVIOUS
<1>2. IsSequence(w) /\ Len(w) = n /\ \A i \in 0 .. n - 1 : w[i + 1] = Word(h, Plus(p, i))
  BY <1>1, WordsAre
<1>3. ASSUME NEW j \in 1 .. Len(w) PROVE w[j] = v[j]
  <2>1. PICK i \in 0 .. n - 1 : j = i + 1
    <3>1. j - 1 \in 0 .. n - 1 /\ j = (j - 1) + 1
      BY <1>2
    <3> QED BY <3>1
  <2> QED BY <1>2, <2>1
<1> QED BY <1>1, <1>2, <1>3, SameSeq

\* An element in the words from d on.
CellIn(m, i) == i \in Nat /\ (i + 1) * ElemSize <= m

InCell(h, d, m, i) ==
    /\ Readable(h, Cell(d, i), ElemSize)
    /\ \A t \in 0 .. ElemSize - 1 :
         /\ Plus(Cell(d, i), t) = Plus(d, i * ElemSize + t)
         /\ i * ElemSize + t \in 0 .. m - 1

\* The words of an element in an array are among those of the array.
LEMMA CellWords ==
    \A h, d, m, i : Readable(h, d, m) /\ CellIn(m, i) => InCell(h, d, m, i)
<1> SUFFICES ASSUME NEW h, NEW d, NEW m, NEW i, Readable(h, d, m), CellIn(m, i)
             PROVE  InCell(h, d, m, i)
  OBVIOUS
<1>1. /\ Sound(h) /\ d \in Address /\ m \in Nat /\ Span(d, m) \subseteq Used(h)
      /\ i \in Nat /\ ElemSize \in Nat \ {0}
  BY LayoutAssumption DEF Readable, CellIn
<1>2. PICK k \in Nat : k = i * ElemSize /\ k + ElemSize <= m
  <2>1. i * ElemSize \in Nat /\ (i + 1) * ElemSize = i * ElemSize + 1 * ElemSize
    BY <1>1, Products
  <2>2. 1 * ElemSize = ElemSize
    BY <1>1
  <2> QED BY <2>1, <2>2 DEF CellIn
<1>3. Cell(d, i) = Plus(d, k) /\ Plus(d, k) \in Address
  BY <1>1, <1>2, PlusAt DEF Cell
<1>4. Span(Plus(d, k), ElemSize) \subseteq Span(d, m)
  BY <1>1, <1>2, SpanWithin
<1>5. ASSUME NEW t \in 0 .. ElemSize - 1
      PROVE  Plus(Plus(d, k), t) = Plus(d, k + t) /\ k + t \in 0 .. m - 1
  <2>1. t \in Nat /\ k + t \in Nat /\ k + t < m
    BY <1>1, <1>2
  <2>2. /\ Plus(d, k) = <<d[1], d[2] + k>> /\ Plus(d, k + t) = <<d[1], d[2] + (k + t)>>
        /\ Plus(Plus(d, k), t) = <<Plus(d, k)[1], Plus(d, k)[2] + t>> /\ d[2] \in Nat
    BY <1>1, <1>3, <2>1, PlusAt DEF Address
  <2>3. (d[2] + k) + t = d[2] + (k + t)
    BY <2>1, <2>2
  <2> QED BY <1>1, <2>1, <2>2, <2>3
<1>6. Readable(h, Plus(d, k), ElemSize)
  BY <1>1, <1>3, <1>4 DEF Readable
<1> QED BY <1>2, <1>3, <1>5, <1>6 DEF InCell

\* An element all of whose words are v is v.
LEMMA ElementIs ==
    \A h, d, m, i, v :
       /\ Readable(h, d, m) /\ CellIn(m, i)
       /\ \A t \in 0 .. ElemSize - 1 : Word(h, Plus(d, i * ElemSize + t)) = v
       => Element(h, d, i) = v
<1> SUFFICES ASSUME NEW h, NEW d, NEW m, NEW i, NEW v, Readable(h, d, m), CellIn(m, i),
                    \A t \in 0 .. ElemSize - 1 : Word(h, Plus(d, i * ElemSize + t)) = v
             PROVE  Element(h, d, i) = v
  OBVIOUS
<1>1. PICK c, w, n : c = Cell(d, i) /\ w = Words(h, Cell(d, i), ElemSize) /\ n = ElemSize
  OBVIOUS
<1>2. n \in Nat \ {0} /\ Readable(h, c, n)
      /\ \A t \in 0 .. n - 1 : Word(h, Plus(c, t)) = v
  BY <1>1, CellWords, LayoutAssumption DEF InCell
<1>3. IsSequence(w) /\ Len(w) = n /\ \A t \in 0 .. n - 1 : w[t + 1] = Word(h, Plus(c, t))
  BY <1>1, <1>2, WordsAre
<1>4. ASSUME NEW j \in 1 .. n PROVE w[j] = v
  <2>1. PICK t \in 0 .. n - 1 : j = t + 1
    <3>1. j - 1 \in 0 .. n - 1 /\ j = (j - 1) + 1
      BY <1>2
    <3> QED BY <3>1
  <2> QED BY <1>2, <1>3, <2>1
<1>5. DOMAIN w = 1 .. n /\ 1 \in 1 .. n
  BY <1>2, <1>3, SeqFacts
<1>6. w[1] = v /\ \A k \in DOMAIN w : w[k] = w[1]
  BY <1>4, <1>5
<1> QED BY <1>1, <1>6 DEF Element

\* Elements whose words are the same are the same.
LEMMA ElementSame ==
    \A h, g, d, e, m, k, i, j :
       /\ Readable(h, d, m) /\ CellIn(m, i) /\ Readable(g, e, k) /\ CellIn(k, j)
       /\ \A t \in 0 .. ElemSize - 1 :
            Word(g, Plus(e, j * ElemSize + t)) = Word(h, Plus(d, i * ElemSize + t))
       => Element(g, e, j) = Element(h, d, i)
<1> SUFFICES ASSUME NEW h, NEW g, NEW d, NEW e, NEW m, NEW k, NEW i, NEW j,
                    Readable(h, d, m), CellIn(m, i), Readable(g, e, k), CellIn(k, j),
                    \A t \in 0 .. ElemSize - 1 :
                      Word(g, Plus(e, j * ElemSize + t)) = Word(h, Plus(d, i * ElemSize + t))
             PROVE  Element(g, e, j) = Element(h, d, i)
  OBVIOUS
<1>1. PICK b, c, n, v : /\ b = Cell(d, i) /\ c = Cell(e, j) /\ n = ElemSize
                        /\ v = Words(h, Cell(d, i), ElemSize)
  OBVIOUS
<1>0. InCell(h, d, m, i) /\ InCell(g, e, k, j)
  BY CellWords
<1>2. n \in Nat \ {0} /\ Readable(h, b, n) /\ Readable(g, c, n)
  BY <1>0, <1>1, LayoutAssumption DEF InCell
<1>3. \A t \in 0 .. n - 1 : Plus(c, t) = Plus(e, j * ElemSize + t) /\ Plus(b, t) = Plus(d, i * ElemSize + t)
  BY <1>0, <1>1 DEF InCell
<1>4. IsSequence(v) /\ Len(v) = n /\ \A t \in 0 .. n - 1 : v[t + 1] = Word(h, Plus(b, t))
  BY <1>1, <1>2, WordsAre
<1>5. \A t \in 0 .. n - 1 : Word(g, Plus(c, t)) = v[t + 1]
  BY <1>1, <1>3, <1>4
<1>6. Words(g, c, n) = v
  BY <1>2, <1>4, <1>5, WordsSame
<1> QED BY <1>1, <1>6 DEF Element

\* The array of an object may be read to its end, and holds no more than it has room for.
LEMMA DataReadable ==
    \A h, x : Sound(h) /\ FlatLies(h, x) /\ x.kind \in FlatKinds =>
       /\ FlatSize(h, x) \in Nat /\ Size(h, x.ptr) \in Nat /\ Room(h, x.ptr) \in Nat
       /\ Size(h, x.ptr) <= Room(h, x.ptr)
       /\ FlatSize(h, x) # 0 => Readable(h, Data(h, x.ptr), FlatSize(h, x))
       /\ x.kind # "vector" => FlatSize(h, x) # 0 /\ Size(h, x.ptr) + 1 <= FlatSize(h, x)
<1> SUFFICES ASSUME NEW h, NEW x, Sound(h), FlatLies(h, x), x.kind \in FlatKinds
             PROVE  /\ FlatSize(h, x) \in Nat /\ Size(h, x.ptr) \in Nat /\ Room(h, x.ptr) \in Nat
                    /\ Size(h, x.ptr) <= Room(h, x.ptr)
                    /\ FlatSize(h, x) # 0 => Readable(h, Data(h, x.ptr), FlatSize(h, x))
                    /\ x.kind # "vector" => FlatSize(h, x) # 0 /\ Size(h, x.ptr) + 1 <= FlatSize(h, x)
  OBVIOUS
<1>1. Size(h, x.ptr) \in Nat /\ Room(h, x.ptr) \in Nat /\ Size(h, x.ptr) <= Room(h, x.ptr)
  BY DEF FlatLies
<1>2. FlatSize(h, x) \in Nat /\ (x.kind # "vector" => FlatSize(h, x) # 0)
  BY <1>1, FlatSizes
<1>3. FlatSize(h, x) # 0 => Readable(h, Data(h, x.ptr), FlatSize(h, x))
  BY <1>2 DEF FlatLies, Readable, Of
<1>4. x.kind # "vector" => Size(h, x.ptr) + 1 <= FlatSize(h, x)
  <2>1. PICK n \in Nat, c \in Nat : n = Size(h, x.ptr) /\ c = Room(h, x.ptr) /\ n <= c
    BY <1>1
  <2>2. n + 1 <= c + 1 /\ n + 1 <= Larger(c, n + 1)
    BY <2>1 DEF Larger
  <2> QED BY <2>1, <2>2 DEF FlatSize, FlatKinds
<1> QED BY <1>1, <1>2, <1>3, <1>4

\* A vector has the words of every element it has room for.
LEMMA PlaceIn ==
    \A h, x, i : FlatLies(h, x) /\ x.kind = "vector" /\ i \in Nat /\ i < Room(h, x.ptr) =>
       CellIn(FlatSize(h, x), i) /\ FlatSize(h, x) # 0 /\ FlatSize(h, x) = Room(h, x.ptr) * ElemSize
<1> SUFFICES ASSUME NEW h, NEW x, NEW i, FlatLies(h, x), x.kind = "vector", i \in Nat, i < Room(h, x.ptr)
             PROVE  CellIn(FlatSize(h, x), i) /\ FlatSize(h, x) # 0
                    /\ FlatSize(h, x) = Room(h, x.ptr) * ElemSize
  OBVIOUS
<1>1. PICK c \in Nat, j \in Nat : c = Room(h, x.ptr) /\ j = i + 1 /\ j <= c /\ j # 0
  <2>1. Room(h, x.ptr) \in Nat /\ i + 1 \in Nat
    BY DEF FlatLies
  <2> QED BY <2>1
<1>2. ElemSize \in Nat \ {0}
  BY LayoutAssumption
<1>3. j * ElemSize <= c * ElemSize /\ c <= c * ElemSize /\ c * ElemSize \in Nat
  BY <1>1, <1>2, Products
<1>4. FlatSize(h, x) = c * ElemSize
  BY <1>1 DEF FlatSize
<1> QED BY <1>1, <1>3, <1>4 DEF CellIn

\* An object whose head and data are the same has the same value.
SameData(h, g, x) ==
    /\ Sound(h) /\ Sound(g) /\ x.kind \in FlatKinds /\ FlatLies(h, x) /\ FlatLies(g, x)
    /\ Size(g, x.ptr) = Size(h, x.ptr) /\ FlatSize(g, x) = FlatSize(h, x)
    /\ \A i \in 0 .. FlatSize(h, x) - 1 :
         Word(g, Plus(Data(g, x.ptr), i)) = Word(h, Plus(Data(h, x.ptr), i))

\* An object whose size and words are the same holds the same.
LEMMA ValueSame ==
    \A h, g, x : SameData(h, g, x) => Value(g, x) = Value(h, x)
<1> SUFFICES ASSUME NEW h, NEW g, NEW x, SameData(h, g, x)
             PROVE  Value(g, x) = Value(h, x)
  OBVIOUS
<1>1. PICK d, e, m, n : /\ d = Data(h, x.ptr) /\ e = Data(g, x.ptr)
                        /\ m = FlatSize(h, x) /\ n = Size(h, x.ptr)
  OBVIOUS
<1>2. /\ Sound(h) /\ Sound(g) /\ x.kind \in FlatKinds /\ FlatLies(h, x) /\ FlatLies(g, x)
      /\ Size(g, x.ptr) = n /\ FlatSize(g, x) = m
      /\ \A i \in 0 .. m - 1 : Word(g, Plus(e, i)) = Word(h, Plus(d, i))
  BY <1>1 DEF SameData
<1>3. /\ m \in Nat /\ n \in Nat /\ Room(h, x.ptr) \in Nat /\ n <= Room(h, x.ptr)
      /\ m # 0 => Readable(h, d, m)
      /\ x.kind # "vector" => m # 0 /\ n + 1 <= m
  BY <1>1, <1>2, DataReadable
<1>4. m # 0 => Readable(g, e, m)
  BY <1>1, <1>2, DataReadable
<1>5. CASE x.kind # "vector"
  <2>1. PICK v : v = Words(h, d, n)
    OBVIOUS
  <2>2. m # 0 /\ Readable(h, d, m) /\ Readable(g, e, m) /\ n <= m
    BY <1>3, <1>4, <1>5
  <2>3. IsSequence(v) /\ Len(v) = n /\ \A i \in 0 .. n - 1 : v[i + 1] = Word(h, Plus(d, i))
    BY <1>3, <2>1, <2>2, WordsAre
  <2>4. \A i \in 0 .. n - 1 : Word(g, Plus(e, i)) = v[i + 1]
    <3>1. \A i \in 0 .. n - 1 : i \in 0 .. m - 1
      BY <1>3, <2>2
    <3> QED BY <1>2, <2>3, <3>1
  <2>5. Words(g, e, n) = v
    BY <1>3, <2>2, <2>3, <2>4, WordsSame
  <2> QED BY <1>1, <1>2, <1>5, <2>1, <2>5 DEF Value, Text
<1>6. CASE x.kind = "vector"
  <2>1. ASSUME NEW i \in 1 .. n PROVE Element(g, e, i - 1) = Element(h, d, i - 1)
    <3>1. PICK j \in Nat : j = i - 1 /\ j < Room(h, x.ptr)
      <4>1. i - 1 \in Nat /\ i - 1 < Room(h, x.ptr)
        BY <1>3
      <4> QED BY <4>1
    <3>2. CellIn(m, j) /\ m # 0
      BY <1>1, <1>2, <1>6, <3>1, PlaceIn
    <3>3. Readable(h, d, m) /\ Readable(g, e, m)
      BY <1>3, <1>4, <3>2
    <3>4. \A t \in 0 .. ElemSize - 1 : j * ElemSize + t \in 0 .. m - 1
      <4>1. InCell(h, d, m, j)
        BY <3>2, <3>3, CellWords
      <4> QED BY <4>1 DEF InCell
    <3>5. \A t \in 0 .. ElemSize - 1 :
             Word(g, Plus(e, j * ElemSize + t)) = Word(h, Plus(d, j * ElemSize + t))
      BY <1>2, <3>4
    <3>6. Element(g, e, j) = Element(h, d, j)
      BY <3>2, <3>3, <3>5, ElementSame
    <3> QED BY <3>1, <3>6
  <2>2. Elements(h, x.ptr) = [i \in 1 .. n |-> Element(h, d, i - 1)]
    BY <1>1 DEF Elements
  <2>3. Elements(g, x.ptr) = [i \in 1 .. n |-> Element(g, e, i - 1)]
    BY <1>1, <1>2 DEF Elements
  <2> QED BY <1>6, <2>1, <2>2, <2>3 DEF Value
<1> QED BY <1>5, <1>6

\* An object no word of which is written keeps its value.
LEMMA ValueKept ==
    \A h, g, x, A :
       /\ Sound(h) /\ Sound(g) /\ x.kind \in FlatKinds /\ FlatLies(h, x)
       /\ Extends(h, g, A) /\ FlatFoot(h, x) \cap A = {}
       => Value(g, x) = Value(h, x)
<1> SUFFICES ASSUME NEW h, NEW g, NEW x, NEW A, Sound(h), Sound(g), x.kind \in FlatKinds, FlatLies(h, x),
                    Extends(h, g, A), FlatFoot(h, x) \cap A = {}
             PROVE  Value(g, x) = Value(h, x)
  OBVIOUS
<1>1. /\ FlatLies(g, x) /\ FlatSize(g, x) = FlatSize(h, x) /\ Data(g, x.ptr) = Data(h, x.ptr)
      /\ Size(g, x.ptr) = Size(h, x.ptr)
  <2>1. Span(x.ptr, HeadSize(x)) \cap A = {}
    BY DEF FlatFoot
  <2> QED BY <2>1, FlatKept
<1>2. PICK d, m : d = Data(h, x.ptr) /\ m = FlatSize(h, x)
  OBVIOUS
<1>3. m \in Nat /\ (m # 0 => Readable(h, d, m))
  BY <1>2, DataReadable
<1>4. ASSUME NEW i \in 0 .. m - 1 PROVE Word(g, Plus(d, i)) = Word(h, Plus(d, i))
  <2>1. m # 0 /\ Readable(h, d, m)
    BY <1>3
  <2>2. Span(d, m) \cap A = {}
    BY <1>2, <2>1 DEF FlatFoot
  <2>3. d \in Address /\ Span(d, m) \subseteq Used(h)
    BY <2>1 DEF Readable
  <2> QED BY <1>3, <2>2, <2>3, PieceKept
<1>5. SameData(h, g, x)
  BY <1>1, <1>2, <1>4 DEF SameData
<1> QED BY <1>5, ValueSame

\* A new object and what it holds.
Creates(h, g, x, s) ==
    /\ FlatCreates(h, g, x)
    /\ h.died = "no" /\ g.died = "no" => Value(g, x) = s

Nth(h, x, i) == Element(h, Data(h, x.ptr), i)

\* Which words are those of the elements from the k-th on.
AmongCells(i, k, n, t) ==
    LET a == i * ElemSize + t
        b == k * ElemSize
        c == n * ElemSize IN
    /\ a \in Nat /\ b \in Nat /\ c \in Nat
    /\ b <= a /\ a < b + c <=> k <= i /\ i < k + n
    /\ k <= i => a - b = (i - k) * ElemSize + t

\* A word of an element is among those of the elements k to k + n - 1 just when the element is.
LEMMA CellApart ==
    \A i \in Nat, k \in Nat, n \in Nat, t \in 0 .. ElemSize - 1 : AmongCells(i, k, n, t)
<1> SUFFICES ASSUME NEW i \in Nat, NEW k \in Nat, NEW n \in Nat, NEW t \in 0 .. ElemSize - 1
             PROVE  AmongCells(i, k, n, t)
  OBVIOUS
<1>1. PICK e \in Nat \ {0} : e = ElemSize
  BY LayoutAssumption
<1>2. t \in Nat /\ t < e
  BY <1>1
<1>3. PICK a \in Nat, b \in Nat, c \in Nat : a = i * e /\ b = k * e /\ c = n * e
  BY <1>1, Products
<1>4. ASSUME k <= i PROVE b <= a /\ a - b = (i - k) * e
  <2>1. PICK j \in Nat : j = i - k /\ i = k + j
    <3>1. i - k \in Nat /\ i = k + (i - k)
      BY <1>4
    <3> QED BY <3>1
  <2>2. (k + j) * e = k * e + j * e /\ j * e \in Nat
    BY <1>1, Products
  <2> QED BY <1>3, <2>1, <2>2
<1>5. ASSUME i < k PROVE a + t < b
  <2>1. (i + 1) * e = i * e + 1 * e /\ 1 * e = e /\ i + 1 <= k /\ i + 1 \in Nat
    BY <1>1, <1>5, Products
  <2>2. (i + 1) * e <= k * e
    BY <1>1, <2>1, Products
  <2> QED BY <1>2, <1>3, <2>1, <2>2
<1>6. PICK m \in Nat : m = k + n
  OBVIOUS
<1>7. m * e = b + c
  <2>1. (k + n) * e = k * e + n * e
    BY <1>1, Products
  <2> QED BY <1>3, <1>6, <2>1
<1>8. ASSUME i < m PROVE a + t < m * e
  <2>1. (i + 1) * e = i * e + 1 * e /\ 1 * e = e /\ i + 1 <= m /\ i + 1 \in Nat
    BY <1>1, <1>8, Products
  <2>2. (i + 1) * e <= m * e
    BY <1>1, <2>1, Products
  <2> QED BY <1>2, <1>3, <2>1, <2>2
<1>9. ASSUME m <= i PROVE m * e <= a
  BY <1>1, <1>3, <1>9, Products
<1>10. b <= a + t /\ a + t < b + c <=> k <= i /\ i < k + n
  <2>1. CASE i < k
    BY <1>2, <1>3, <1>5, <2>1
  <2>2. CASE k <= i /\ i < m
    BY <1>2, <1>3, <1>4, <1>6, <1>7, <1>8, <2>2
  <2>3. CASE m <= i
    BY <1>2, <1>3, <1>6, <1>7, <1>9, <2>3
  <2> QED BY <1>6, <2>1, <2>2, <2>3
<1>11. k <= i => a + t - b = (i - k) * e + t
  <2>1. ASSUME k <= i PROVE a + t - b = (i - k) * e + t
    <3>1. PICK j \in Nat : j = a - b
      <4>1. a - b \in Nat
        BY <1>3, <1>4, <2>1
      <4> QED BY <4>1
    <3>2. a + t - b = j + t
      BY <1>2, <1>3, <3>1
    <3> QED BY <1>4, <2>1, <3>1, <3>2
  <2> QED BY <2>1
<1>12. a + t \in Nat
  BY <1>2, <1>3
<1> QED BY <1>1, <1>3, <1>10, <1>11, <1>12 DEF AmongCells

\* What a string, a buffer or a vector holds once its words are known.
LEMMA TextIs ==
    \A g, x, s :
       /\ Sound(g) /\ x.kind \in FlatKinds /\ x.kind # "vector" /\ FlatLies(g, x)
       /\ IsSequence(s) /\ Size(g, x.ptr) = Len(s)
       /\ \A i \in 0 .. Len(s) - 1 : Word(g, Plus(Data(g, x.ptr), i)) = s[i + 1]
       => Value(g, x) = s
<1> SUFFICES ASSUME NEW g, NEW x, NEW s,
                    Sound(g), x.kind \in FlatKinds, x.kind # "vector", FlatLies(g, x),
                    IsSequence(s), Size(g, x.ptr) = Len(s),
                    \A i \in 0 .. Len(s) - 1 : Word(g, Plus(Data(g, x.ptr), i)) = s[i + 1]
             PROVE  Value(g, x) = s
  OBVIOUS
<1>1. PICK d, m, n : d = Data(g, x.ptr) /\ m = FlatSize(g, x) /\ n = Len(s)
  OBVIOUS
<1>2. n \in Nat /\ m \in Nat /\ n <= m /\ Readable(g, d, m)
  BY <1>1, DataReadable
<1>3. Words(g, d, n) = s
  BY <1>1, <1>2, WordsSame
<1> QED BY <1>1, <1>3 DEF Value, Text

\* A vector holds the sequence that has its size and its elements.
LEMMA VectorIs ==
    \A g, x, s :
       /\ x.kind = "vector" /\ IsSequence(s) /\ Size(g, x.ptr) = Len(s)
       /\ \A i \in 0 .. Len(s) - 1 : Nth(g, x, i) = s[i + 1]
       => Value(g, x) = s
<1> SUFFICES ASSUME NEW g, NEW x, NEW s,
                    x.kind = "vector", IsSequence(s), Size(g, x.ptr) = Len(s),
                    \A i \in 0 .. Len(s) - 1 : Nth(g, x, i) = s[i + 1]
             PROVE  Value(g, x) = s
  OBVIOUS
<1>1. PICK d, n : d = Data(g, x.ptr) /\ n = Len(s)
  OBVIOUS
<1>2. n \in Nat /\ s = [i \in 1 .. n |-> s[i]]
  BY <1>1, SeqFacts
<1>3. Value(g, x) = [i \in 1 .. n |-> Element(g, d, i - 1)]
  BY <1>1 DEF Value, Elements
<1>4. ASSUME NEW i \in 1 .. n PROVE Element(g, d, i - 1) = s[i]
  <2>1. i - 1 \in 0 .. n - 1 /\ (i - 1) + 1 = i
    BY <1>2
  <2> QED BY <1>1, <2>1 DEF Nth
<1> QED BY <1>2, <1>3, <1>4

\* The values of an object are a sequence as long as its size.
LEMMA ValueIs ==
    \A h, x : Sound(h) /\ x.kind \in FlatKinds /\ FlatLies(h, x) =>
       /\ IsSequence(Value(h, x)) /\ Len(Value(h, x)) = Size(h, x.ptr) /\ Size(h, x.ptr) \in Nat
       /\ x.kind = "vector" => \A i \in 0 .. Size(h, x.ptr) - 1 : Nth(h, x, i) = Value(h, x)[i + 1]
       /\ x.kind # "vector" =>
            \A i \in 0 .. Size(h, x.ptr) - 1 : Word(h, Plus(Data(h, x.ptr), i)) = Value(h, x)[i + 1]
<1> SUFFICES ASSUME NEW h, NEW x, Sound(h), x.kind \in FlatKinds, FlatLies(h, x)
             PROVE  /\ IsSequence(Value(h, x)) /\ Len(Value(h, x)) = Size(h, x.ptr) /\ Size(h, x.ptr) \in Nat
                    /\ x.kind = "vector" =>
                         \A i \in 0 .. Size(h, x.ptr) - 1 : Nth(h, x, i) = Value(h, x)[i + 1]
                    /\ x.kind # "vector" =>
                         \A i \in 0 .. Size(h, x.ptr) - 1 :
                            Word(h, Plus(Data(h, x.ptr), i)) = Value(h, x)[i + 1]
  OBVIOUS
<1>1. PICK d, m, n, v : d = Data(h, x.ptr) /\ m = FlatSize(h, x) /\ n = Size(h, x.ptr) /\ v = Value(h, x)
  OBVIOUS
<1>2. n \in Nat /\ m \in Nat /\ (x.kind # "vector" => n <= m /\ Readable(h, d, m))
  BY <1>1, DataReadable
<1>3. CASE x.kind # "vector"
  <2>1. v = Words(h, d, n)
    BY <1>1, <1>3 DEF Value, Text
  <2>2. IsSequence(v) /\ Len(v) = n /\ \A i \in 0 .. n - 1 : v[i + 1] = Word(h, Plus(d, i))
    BY <1>2, <1>3, <2>1, WordsAre
  <2> QED BY <1>1, <1>2, <1>3, <2>2
<1>4. CASE x.kind = "vector"
  <2>1. v = [i \in 1 .. n |-> Element(h, d, i - 1)]
    BY <1>1, <1>4 DEF Value, Elements
  <2>2. DOMAIN v = 1 .. n /\ v = [i \in 1 .. n |-> v[i]]
    BY <2>1
  <2>3. IsSequence(v) /\ Len(v) = n
    BY <1>2, <2>2, MadeSeq
  <2>4. ASSUME NEW i \in 0 .. n - 1 PROVE Element(h, d, i) = v[i + 1]
    <3>1. i + 1 \in 1 .. n /\ (i + 1) - 1 = i
      BY <1>2
    <3> QED BY <2>1, <3>1
  <2> QED BY <1>1, <1>2, <1>4, <2>3, <2>4 DEF Nth
<1> QED BY <1>3, <1>4

\* Elements that have the same words are the same.
SameCell(h, x, i, g, y, j) ==
    \A t \in 0 .. ElemSize - 1 :
       Word(g, Plus(Data(g, y.ptr), j * ElemSize + t)) = Word(h, Plus(Data(h, x.ptr), i * ElemSize + t))

HasCell(h, x, i) ==
    Sound(h) /\ x.kind = "vector" /\ FlatLies(h, x) /\ i \in Nat /\ i < Room(h, x.ptr)

\* The words of an element that an object has.
LEMMA CellHas ==
    \A h, x, i : HasCell(h, x, i) =>
       /\ Readable(h, Data(h, x.ptr), FlatSize(h, x)) /\ CellIn(FlatSize(h, x), i)
       /\ \A t \in 0 .. ElemSize - 1 : i * ElemSize + t \in 0 .. FlatSize(h, x) - 1
<1> SUFFICES ASSUME NEW h, NEW x, NEW i, HasCell(h, x, i)
             PROVE  /\ Readable(h, Data(h, x.ptr), FlatSize(h, x)) /\ CellIn(FlatSize(h, x), i)
                    /\ \A t \in 0 .. ElemSize - 1 : i * ElemSize + t \in 0 .. FlatSize(h, x) - 1
  OBVIOUS
<1>1. PICK d, m : d = Data(h, x.ptr) /\ m = FlatSize(h, x)
  OBVIOUS
<1>2. CellIn(m, i) /\ m # 0
  BY <1>1, PlaceIn DEF HasCell
<1>3. Readable(h, d, m)
  BY <1>1, <1>2, DataReadable DEF HasCell, FlatKinds
<1>4. InCell(h, d, m, i)
  BY <1>2, <1>3, CellWords
<1> QED BY <1>1, <1>2, <1>3, <1>4 DEF InCell

\* The same words make the same element, in any two vectors.
LEMMA NthSame ==
    \A h, x, i, g, y, j :
       HasCell(h, x, i) /\ HasCell(g, y, j) /\ SameCell(h, x, i, g, y, j) => Nth(g, y, j) = Nth(h, x, i)
<1> SUFFICES ASSUME NEW h, NEW x, NEW i, NEW g, NEW y, NEW j,
                    HasCell(h, x, i), HasCell(g, y, j), SameCell(h, x, i, g, y, j)
             PROVE  Nth(g, y, j) = Nth(h, x, i)
  OBVIOUS
<1>1. PICK d, m, e, k : /\ d = Data(h, x.ptr) /\ m = FlatSize(h, x)
                        /\ e = Data(g, y.ptr) /\ k = FlatSize(g, y)
  OBVIOUS
<1>2. Readable(h, d, m) /\ CellIn(m, i) /\ Readable(g, e, k) /\ CellIn(k, j)
  BY <1>1, CellHas
<1>3. \A t \in 0 .. ElemSize - 1 :
         Word(g, Plus(e, j * ElemSize + t)) = Word(h, Plus(d, i * ElemSize + t))
  BY <1>1 DEF SameCell
<1>4. Element(g, e, j) = Element(h, d, i)
  BY <1>2, <1>3, ElementSame
<1> QED BY <1>1, <1>4 DEF Nth

CellFull(h, x, i, v) ==
    \A t \in 0 .. ElemSize - 1 : Word(h, Plus(Data(h, x.ptr), i * ElemSize + t)) = v

\* A word repeated through an element is the element.
LEMMA NthIs ==
    \A h, x, i, v : HasCell(h, x, i) /\ CellFull(h, x, i, v) => Nth(h, x, i) = v
<1> SUFFICES ASSUME NEW h, NEW x, NEW i, NEW v, HasCell(h, x, i), CellFull(h, x, i, v)
             PROVE  Nth(h, x, i) = v
  OBVIOUS
<1>1. PICK d, m : d = Data(h, x.ptr) /\ m = FlatSize(h, x)
  OBVIOUS
<1>2. Readable(h, d, m) /\ CellIn(m, i)
  BY <1>1, CellHas
<1>3. \A t \in 0 .. ElemSize - 1 : Word(h, Plus(d, i * ElemSize + t)) = v
  BY <1>1 DEF CellFull
<1>4. Element(h, d, i) = v
  BY <1>2, <1>3, ElementIs
<1> QED BY <1>1, <1>4 DEF Nth

\* Each value of a sequence is repeated ElemSize times, in order.
LEMMA CellsOf ==
    \A s : IsSequence(s) =>
       /\ IsSequence(Cells(s)) /\ Len(Cells(s)) = Len(s) * ElemSize /\ Len(s) * ElemSize \in Nat
       /\ \A i \in 0 .. Len(s) - 1, t \in 0 .. ElemSize - 1 :
            /\ i * ElemSize + t \in 0 .. Len(s) * ElemSize - 1
            /\ Cells(s)[i * ElemSize + t + 1] = s[i + 1]
<1> SUFFICES ASSUME NEW s, IsSequence(s)
             PROVE  /\ IsSequence(Cells(s)) /\ Len(Cells(s)) = Len(s) * ElemSize
                    /\ Len(s) * ElemSize \in Nat
                    /\ \A i \in 0 .. Len(s) - 1, t \in 0 .. ElemSize - 1 :
                         /\ i * ElemSize + t \in 0 .. Len(s) * ElemSize - 1
                         /\ Cells(s)[i * ElemSize + t + 1] = s[i + 1]
  OBVIOUS
<1>1. PICK e \in Nat \ {0}, n \in Nat : e = ElemSize /\ n = Len(s)
  BY LayoutAssumption, SeqFacts
<1>2. PICK l \in Nat : l = n * e
  BY <1>1, Products
<1>3. PICK c : c = Cells(s)
  OBVIOUS
<1>4. c = [k \in 1 .. l |-> s[((k - 1) \div e) + 1]]
  BY <1>1, <1>2, <1>3 DEF Cells
<1>5. IsSequence(c) /\ Len(c) = l
  <2>1. DOMAIN c = 1 .. l /\ c = [k \in 1 .. l |-> c[k]]
    BY <1>4
  <2> QED BY <2>1, MadeSeq
<1>6. ASSUME NEW i \in 0 .. n - 1, NEW t \in 0 .. e - 1
      PROVE  i * e + t \in 0 .. l - 1 /\ c[i * e + t + 1] = s[i + 1]
  <2>1. i \in Nat /\ t \in Nat /\ t < e /\ 0 \in Nat /\ t \in 0 .. ElemSize - 1
    BY <1>1
  <2>2. /\ i * e + t \in Nat
        /\ 0 * e <= i * e + t /\ i * e + t < 0 * e + n * e <=> 0 <= i /\ i < 0 + n
    <3>1. AmongCells(i, 0, n, t)
      BY <1>1, <2>1, CellApart
    <3> QED BY <1>1, <3>1 DEF AmongCells
  <2>3. 0 * e = 0 /\ 0 <= i /\ i < 0 + n
    BY <1>1
  <2>4. PICK a \in Nat : a = i * e + t
    BY <2>2
  <2>5. a < l /\ a \in 0 .. l - 1
    BY <1>2, <2>2, <2>3, <2>4
  <2>11. \E q \in Nat, r \in 0 .. (e - 1) : a = q * e + r /\ a \div e = q /\ a % e = r
    BY ONLY Divided, a \in Nat, e \in Nat \ {0}
  <2>6. PICK q \in Nat, r \in 0 .. (e - 1) : a = q * e + r /\ a \div e = q
    BY ONLY <2>11
  <2>7. q <= i /\ i < q + 1
    <3>1. q * ElemSize <= i * ElemSize + t /\ i * ElemSize + t < q * ElemSize + 1 * ElemSize
            <=> q <= i /\ i < q + 1
      <4>1. AmongCells(i, q, 1, t)
        BY <2>1, CellApart
      <4> QED BY <4>1 DEF AmongCells
    <3>2. q * e <= a /\ a < q * e + 1 * e
      <4>1. PICK b \in Nat : b = q * e
        BY <1>1, Products
      <4>2. b <= a /\ a < b + e /\ 1 * e = e
        BY <1>1, <2>6, <4>1
      <4> QED BY <4>1, <4>2
    <3> QED BY <1>1, <2>4, <3>1, <3>2
  <2>8. q = i
    BY <2>1, <2>7
  <2>9. a + 1 \in 1 .. l /\ (a + 1) - 1 = a
    BY <2>5
  <2>10. c[a + 1] = s[i + 1]
    BY <1>4, <2>6, <2>8, <2>9
  <2> QED BY <2>4, <2>5, <2>10
<1> QED BY <1>1, <1>2, <1>3, <1>5, <1>6

\* The words of what an object is made from.
DataOf(x, s) == IF x.kind = "vector" THEN Cells(s) ELSE s \o <<Nul>>

\* The words an object is made from: the elements repeated, or the characters and Nul.
LEMMA DataGiven ==
    \A x, s : IsSequence(s) =>
       /\ IsSequence(DataOf(x, s)) /\ Len(s) \in Nat
       /\ Len(DataOf(x, s)) = IF x.kind = "vector" THEN Len(s) * ElemSize ELSE Len(s) + 1
       /\ x.kind # "vector" => \A i \in 0 .. Len(s) - 1 : i \in 0 .. Len(s) /\ DataOf(x, s)[i + 1] = s[i + 1]
<1> SUFFICES ASSUME NEW x, NEW s, IsSequence(s)
             PROVE  /\ IsSequence(DataOf(x, s)) /\ Len(s) \in Nat
                    /\ Len(DataOf(x, s)) = IF x.kind = "vector" THEN Len(s) * ElemSize ELSE Len(s) + 1
                    /\ x.kind # "vector" =>
                         \A i \in 0 .. Len(s) - 1 : i \in 0 .. Len(s) /\ DataOf(x, s)[i + 1] = s[i + 1]
  OBVIOUS
<1>1. CASE x.kind = "vector"
  BY <1>1, CellsOf, SeqFacts DEF DataOf
<1>2. CASE x.kind # "vector"
  <2>1. PICK z, n : z = <<Nul>> /\ n = Len(s)
    OBVIOUS
  <2>2. IsSequence(z) /\ Len(z) = 1 /\ n \in Nat
    BY <2>1, Listed, SeqFacts
  <2>3. /\ IsSequence(s \o z) /\ Len(s \o z) = n + 1
        /\ \A i \in 1 .. n + 1 : (s \o z)[i] = IF i <= n THEN s[i] ELSE z[i - n]
    BY <2>1, <2>2, Joining
  <2>4. \A i \in 0 .. n - 1 : i \in 0 .. n /\ i + 1 \in 1 .. n + 1 /\ i + 1 <= n
    BY <2>2
  <2>5. DataOf(x, s) = s \o z
    BY <1>2, <2>1 DEF DataOf
  <2> QED BY <1>2, <2>1, <2>2, <2>3, <2>4, <2>5
<1> QED BY <1>1, <1>2

\* The same as a step that creates the object.
LEMMA FlatDone ==
    ASSUME NEW h, NEW g, Safe(h, g), NEW r \in 1 .. Len(h.regions), NEW p, NEW d, NEW head, NEW s,
           IsSequence(s), NEW x, x.kind \in FlatKinds, x.ptr = g.ptr, x.region = r,
           h.died = "no" /\ g.died = "no" => Assembles(h, g, r, p, d, head, DataOf(x, s)),
           Len(head) = HeadSize(x), NEW n \in Nat, n = Len(s),
           head[1] = d, head[2] = n, head[3] = n, x.kind = "buffer" \/ head[4] = r
    PROVE  Creates(h, g, x, s)
<1>0. PICK data : data = DataOf(x, s)
  OBVIOUS
<1>4. /\ IsSequence(data) /\ Len(data) = IF x.kind = "vector" THEN n * ElemSize ELSE n + 1
      /\ x.kind # "vector" => \A i \in 0 .. n - 1 : i \in 0 .. n /\ data[i + 1] = s[i + 1]
  BY ONLY <1>0, DataGiven, IsSequence(s), n = Len(s)
<1>1. ASSUME h.died = "no", g.died = "no"
      PROVE  /\ Extends(h, g, {}) /\ FlatLies(g, x) /\ FlatFoot(g, x) \cap Used(h) = {}
             /\ Value(g, x) = s
  <2>1. Assembles(h, g, r, g.ptr, d, head, data) /\ Extends(h, g, {})
    BY <1>0, <1>1 DEF Assembles
  <2>2. Sound(g) /\ r \in 1 .. Len(g.regions)
    BY DEF Safe
  <2>3. FlatLies(g, x) /\ FlatFoot(g, x) \cap Used(h) = {} /\ Data(g, x.ptr) = d /\ Size(g, x.ptr) = n
    <3>1. IsSequence(data) /\ Len(data) = IF x.kind = "vector" THEN n * ElemSize ELSE n + 1
      BY <1>4
    <3>2. PICK q : q = g.ptr
      OBVIOUS
    <3>3. Assembles(h, g, r, q, d, head, data)
      BY <2>1, <3>2
    <3>4. FlatLies(g, x) /\ FlatFoot(g, x) \cap Used(h) = {}
      BY ONLY ZenonT(60), <2>1, <2>2, FlatMade, <3>1, x.kind \in FlatKinds, x.ptr = g.ptr, x.region = r,
         Len(head) = HeadSize(x), n \in Nat, head[1] = d, head[2] = n, head[3] = n,
         x.kind = "buffer" \/ head[4] = r
    <3>5. Data(g, q) = d /\ Size(g, q) = n
      <4>1. /\ q \in Address /\ HeadSize(x) \in {3, 4}
            /\ \A i \in 0 .. HeadSize(x) - 1 : Word(g, Plus(q, i)) = head[i + 1]
        BY <3>3 DEF Assembles, Fresh1, HeadSize
      <4>2. 0 \in 0 .. HeadSize(x) - 1 /\ 1 \in 0 .. HeadSize(x) - 1
        BY <4>1
      <4>3. Word(g, Plus(q, 0)) = head[1] /\ Word(g, Plus(q, 1)) = head[2]
        BY <4>1, <4>2
      <4> QED BY <4>1, <4>3, HeadWords
    <3> QED BY <3>2, <3>4, <3>5
  <2>4. Len(data) # 0 => \A i \in 0 .. Len(data) - 1 : Word(g, Plus(d, i)) = data[i + 1]
    BY <2>1 DEF Assembles
  <2>5. CASE x.kind # "vector"
    <3>1. Len(data) = n + 1 /\ Len(data) # 0
      BY <1>4, <2>5
    <3>2. \A i \in 0 .. n - 1 : Word(g, Plus(d, i)) = s[i + 1]
      <4>1. \A i \in 0 .. n - 1 : i \in 0 .. Len(data) - 1
        BY <3>1
      <4> QED BY <1>4, <2>4, <2>5, <3>1, <4>1
    <3>3. Value(g, x) = s
      BY <2>2, <2>3, <2>5, <3>2, TextIs
    <3> QED BY <2>1, <2>3, <3>3
  <2>6. CASE x.kind = "vector"
    <3>1. ASSUME NEW i \in 0 .. n - 1 PROVE Nth(g, x, i) = s[i + 1]
      <4>1. i \in Nat /\ i < Size(g, x.ptr) /\ Size(g, x.ptr) <= Room(g, x.ptr) /\ Room(g, x.ptr) \in Nat
        BY <2>3 DEF FlatLies
      <4>2. HasCell(g, x, i)
        BY <2>2, <2>3, <2>6, <4>1 DEF HasCell
      <4>3. \A t \in 0 .. ElemSize - 1 :
               i * ElemSize + t \in 0 .. Len(data) - 1 /\ data[i * ElemSize + t + 1] = s[i + 1]
        BY <1>0, <1>4, <2>6, CellsOf DEF DataOf
      <4>4. Len(data) # 0
        <5>1. 0 \in 0 .. ElemSize - 1
          BY LayoutAssumption
        <5> QED BY <4>3, <5>1
      <4>5. CellFull(g, x, i, s[i + 1])
        BY <2>3, <2>4, <4>3, <4>4 DEF CellFull
      <4> QED BY <4>2, <4>5, NthIs
    <3>2. Value(g, x) = s
      BY <2>3, <2>6, <3>1, VectorIs
    <3> QED BY <2>1, <2>3, <3>2
  <2> QED BY <2>5, <2>6
<1>2. FlatCreates(h, g, x)
  BY <1>1 DEF FlatCreates
<1> QED BY <1>1, <1>2 DEF Creates

\* A string literal, jik_string_new, holds its text.
LEMMA StringMade ==
    ASSUME NEW h, Sound(h), NEW r \in 1 .. Len(h.regions), NEW s, IsSequence(s),
           NEW g, g = StringNew(h, r, s)
    PROVE  Creates(h, g, Object(g, "string", r), s)
<1>1. PICK x : x = Object(g, "string", r)
  OBVIOUS
<1>2. x.kind = "string" /\ x.ptr = g.ptr /\ x.region = r /\ HeadSize(x) = 4
  BY <1>1 DEF Object, HeadSize
<1>3. /\ Safe(h, g)
      /\ h.died = "no" /\ g.died = "no" =>
                /\ Extends(h, g, {}) /\ Len(s) + 5 <= SizeMax
                /\ Fresh1(h, g, r, g.ptr, Len(s) + 5)
                /\ OnePiece(g, g.ptr, s) /\ Home(g, g.ptr) = r
  BY StringPiece
<1>4. ASSUME h.died = "no", g.died = "no"
      PROVE  FlatLies(g, x) /\ FlatFoot(g, x) \cap Used(h) = {} /\ Value(g, x) = s
  <2>0. Len(s) \in Nat /\ r \in 1 .. Len(g.regions)
    BY <1>3, SeqFacts DEF Safe
  <2>1. PICK p, n : p = g.ptr /\ n = Len(s)
    OBVIOUS
  <2>2. /\ p \in Address /\ Aligned(p[2]) /\ Span(p, n + 5) \subseteq Of(g, r)
        /\ Span(p, n + 5) \cap Used(h) = {} /\ n \in Nat /\ n + 5 <= SizeMax
        /\ Data(g, p) = Plus(p, 4) /\ Size(g, p) = n /\ Room(g, p) = n /\ Home(g, p) = r
    BY <1>3, <1>4, <2>0, <2>1 DEF Fresh1, OnePiece
  <2>3. PICK m \in Nat : m = n + 1
    BY <2>2
  <2>4. 4 + m = n + 5 /\ m <= SizeMax /\ m # 0
    BY <2>2, <2>3, SizesAssumption
  <2>5. /\ Span(p, n + 5) = Span(p, 4) \cup Span(Plus(p, 4), m)
        /\ Span(p, 4) \cap Span(Plus(p, 4), m) = {} /\ Plus(p, 4) \in Address
    <3>1. 4 \in Nat
      OBVIOUS
    <3>2. PICK k : k = 4
      OBVIOUS
    <3>3. /\ Span(p, k + m) = Span(p, k) \cup Span(Plus(p, k), m)
          /\ Span(p, k) \cap Span(Plus(p, k), m) = {}
      <4>1. p \in Address /\ k \in Nat /\ m \in Nat
        BY <2>2, <3>2
      <4> QED BY <4>1, SpanSplit
    <3>5. Plus(p, k) \in Address
      BY <2>2, <3>2, PlusAt
    <3>4. k + m = n + 5
      BY <2>4, <3>2
    <3> QED BY <3>2, <3>3, <3>4, <3>5
  <2>6. FlatSize(g, x) = m
    BY <1>2, <2>1, <2>2, <2>3 DEF FlatSize
  <2>7. FlatLies(g, x)
    BY <1>2, <2>0, <2>1, <2>2, <2>4, <2>5, <2>6 DEF FlatLies
  <2>8. FlatFoot(g, x) \cap Used(h) = {}
    BY <1>2, <2>1, <2>2, <2>5, <2>6 DEF FlatFoot
  <2>9. Value(g, x) = s
    BY <1>2, <1>3, <1>4 DEF Value, OnePiece
  <2> QED BY <2>7, <2>8, <2>9
<1> QED BY <1>1, <1>3, <1>4 DEF FlatCreates, Creates

\* A string of two pieces, as concatenation and slices make it, holds the text given.
LEMMA StringCopied ==
    ASSUME NEW h, Sound(h), NEW r \in 1 .. Len(h.regions), NEW s, IsSequence(s),
           NEW g, g = StringOf(h, r, s)
    PROVE  Creates(h, g, Object(g, "string", r), s)
<1>1. PICK x : x = Object(g, "string", r)
  OBVIOUS
<1>2. x.kind = "string" /\ x.ptr = g.ptr /\ x.region = r /\ HeadSize(x) = 4 /\ x.kind \in FlatKinds
  BY <1>1 DEF Object, HeadSize, FlatKinds
<1>3. PICK n, m : n = SizeAdd(Len(s), 1) /\ m = Len(s)
  OBVIOUS
<1>4. PICK b : b = TwoPieces(h, r, 4, n)
  OBVIOUS
<1>5. PICK head, data : head = <<b.ptr[2], m, m, r>> /\ data = s \o <<Nul>>
  OBVIOUS
<1>6. g = Built(b, head, data)
  BY <1>3, <1>4, <1>5 DEF StringOf, InTwoPieces
<1>7. /\ IsSequence(head) /\ Len(head) = 4 /\ head[1] = b.ptr[2] /\ head[2] = m
      /\ head[3] = m /\ head[4] = r
  BY <1>5, Listed
<1>8. /\ m \in Nat /\ IsSequence(data) /\ data = DataOf(x, s)
      /\ Len(data) = IF x.kind = "vector" THEN m * ElemSize ELSE m + 1
  <2>1. data = DataOf(x, s)
    BY <1>2, <1>5 DEF DataOf
  <2> QED BY <1>3, <2>1, DataGiven
<1>9. n \in Nat /\ (n = Len(data) \/ n > SizeMax)
  BY <1>2, <1>3, <1>8, SizeAdded
<1>10. /\ Safe(h, g)
       /\ h.died = "no" /\ g.died = "no" => Assembles(h, g, r, b.ptr[1], b.ptr[2], head, data)
  <2>1. b = TwoPieces(h, r, Len(head), n) /\ Len(head) # 0
    BY <1>4, <1>7
  <2> QED BY <1>6, <1>7, <1>8, <1>9, <2>1, Assembled
<1>11. Len(head) = HeadSize(x) /\ (x.kind = "buffer" \/ head[4] = r)
  BY <1>2, <1>7
<1>12. Creates(h, g, x, s)
  BY <1>2, <1>3, <1>7, <1>8, <1>10, <1>11, FlatDone
<1> QED BY <1>1, <1>12

\* A new character buffer holds its text.
LEMMA BufferMade ==
    ASSUME NEW h, Sound(h), NEW r \in 1 .. Len(h.regions), NEW s, IsSequence(s),
           NEW g, g = BufferNew(h, r, s)
    PROVE  Creates(h, g, Object(g, "buffer", r), s)
<1>1. PICK x : x = Object(g, "buffer", r)
  OBVIOUS
<1>2. x.kind = "buffer" /\ x.ptr = g.ptr /\ x.region = r /\ HeadSize(x) = 3 /\ x.kind \in FlatKinds
  BY <1>1 DEF Object, HeadSize, FlatKinds
<1>3. PICK n, m : n = SizeAdd(Len(s), 1) /\ m = Len(s)
  OBVIOUS
<1>4. PICK b : b = TwoPieces(h, r, 3, n)
  OBVIOUS
<1>5. PICK head, data : head = <<b.ptr[2], m, m>> /\ data = s \o <<Nul>>
  OBVIOUS
<1>6. g = Built(b, head, data)
  BY <1>3, <1>4, <1>5 DEF BufferNew, BufferOf
<1>7. /\ IsSequence(head) /\ Len(head) = 3 /\ head[1] = b.ptr[2] /\ head[2] = m
      /\ head[3] = m
  BY <1>5, Listed
<1>8. /\ m \in Nat /\ IsSequence(data) /\ data = DataOf(x, s)
      /\ Len(data) = IF x.kind = "vector" THEN m * ElemSize ELSE m + 1
  <2>1. data = DataOf(x, s)
    BY <1>2, <1>5 DEF DataOf
  <2> QED BY <1>3, <2>1, DataGiven
<1>9. n \in Nat /\ (n = Len(data) \/ n > SizeMax)
  BY <1>2, <1>3, <1>8, SizeAdded
<1>10. /\ Safe(h, g)
       /\ h.died = "no" /\ g.died = "no" => Assembles(h, g, r, b.ptr[1], b.ptr[2], head, data)
  <2>1. b = TwoPieces(h, r, Len(head), n) /\ Len(head) # 0
    BY <1>4, <1>7
  <2> QED BY <1>6, <1>7, <1>8, <1>9, <2>1, Assembled
<1>11. Len(head) = HeadSize(x) /\ (x.kind = "buffer" \/ head[4] = r)
  BY <1>2, <1>7
<1>12. Creates(h, g, x, s)
  BY <1>2, <1>3, <1>7, <1>8, <1>10, <1>11, FlatDone
<1> QED BY <1>1, <1>12

\* A vector literal holds its elements.
LEMMA VectorMade ==
    ASSUME NEW h, Sound(h), NEW r \in 1 .. Len(h.regions), NEW values, IsSequence(values),
           NEW g, g = VectorFrom(h, r, values)
    PROVE  Creates(h, g, Object(g, "vector", r), values)
<1>1. PICK x : x = Object(g, "vector", r)
  OBVIOUS
<1>2. x.kind = "vector" /\ x.ptr = g.ptr /\ x.region = r /\ HeadSize(x) = 4 /\ x.kind \in FlatKinds
  BY <1>1 DEF Object, HeadSize, FlatKinds
<1>3. PICK n, m : n = SizeMul(Len(values), ElemSize) /\ m = Len(values)
  OBVIOUS
<1>4. PICK b : b = TwoPieces(h, r, 4, n)
  OBVIOUS
<1>5. PICK head, data : head = <<b.ptr[2], m, m, r>> /\ data = Cells(values)
  OBVIOUS
<1>6. g = Built(b, head, data)
  BY <1>3, <1>4, <1>5 DEF VectorFrom, VectorOf
<1>7. /\ IsSequence(head) /\ Len(head) = 4 /\ head[1] = b.ptr[2] /\ head[2] = m
      /\ head[3] = m /\ head[4] = r
  BY <1>5, Listed
<1>8. /\ m \in Nat /\ IsSequence(data) /\ data = DataOf(x, values)
      /\ Len(data) = IF x.kind = "vector" THEN m * ElemSize ELSE m + 1
  <2>1. data = DataOf(x, values)
    BY <1>2, <1>5 DEF DataOf
  <2> QED BY <1>3, <2>1, DataGiven
<1>9. n \in Nat /\ (n = Len(data) \/ n > SizeMax)
  BY <1>2, <1>3, <1>8, SizeMultiplied, LayoutAssumption
<1>10. /\ Safe(h, g)
       /\ h.died = "no" /\ g.died = "no" => Assembles(h, g, r, b.ptr[1], b.ptr[2], head, data)
  <2>1. b = TwoPieces(h, r, Len(head), n) /\ Len(head) # 0
    BY <1>4, <1>7
  <2> QED BY <1>6, <1>7, <1>8, <1>9, <2>1, Assembled
<1>11. Len(head) = HeadSize(x) /\ (x.kind = "buffer" \/ head[4] = r)
  BY <1>2, <1>7
<1>12. Creates(h, g, x, values)
  BY <1>2, <1>3, <1>7, <1>8, <1>10, <1>11, FlatDone
<1> QED BY <1>1, <1>12

\* The elements a vector has room for are the same.
NthsKept(h, g, x) == \A j \in 0 .. Room(h, x.ptr) - 1 : Nth(g, x, j) = Nth(h, x, j)

\* A vector moved to a larger array keeps its elements.
LEMMA NthsSame ==
    \A h, g, x :
       /\ Sound(h) /\ Sound(g) /\ x.kind = "vector" /\ FlatLies(h, x) /\ FlatLies(g, x)
       /\ Room(h, x.ptr) <= Room(g, x.ptr) /\ DataKept(h, g, x)
       => NthsKept(h, g, x)
<1> SUFFICES ASSUME NEW h, NEW g, NEW x,
                    Sound(h), Sound(g), x.kind = "vector", FlatLies(h, x), FlatLies(g, x),
                    Room(h, x.ptr) <= Room(g, x.ptr), DataKept(h, g, x)
             PROVE  NthsKept(h, g, x)
  OBVIOUS
<1>1. Room(h, x.ptr) \in Nat /\ Room(g, x.ptr) \in Nat
  BY DEF FlatLies
<1>2. ASSUME NEW j \in 0 .. Room(h, x.ptr) - 1 PROVE Nth(g, x, j) = Nth(h, x, j)
  <2>1. j \in Nat /\ j < Room(h, x.ptr) /\ j < Room(g, x.ptr)
    BY <1>1
  <2>2. HasCell(h, x, j) /\ HasCell(g, x, j)
    BY <2>1 DEF HasCell
  <2>3. \A t \in 0 .. ElemSize - 1 : j * ElemSize + t \in 0 .. FlatSize(h, x) - 1
    BY <2>2, CellHas
  <2>4. SameCell(h, x, j, g, x, j)
    BY <2>3 DEF SameCell, DataKept
  <2> QED BY <2>2, <2>4, NthSame
<1> QED BY <1>2 DEF NthsKept

\* Writing the words from the k-th on of a piece of m words.
LEMMA PartWritten ==
    ASSUME NEW h, Sound(h), h.died = "no", NEW p \in Address, NEW m \in Nat, Span(p, m) \subseteq Used(h),
           NEW k \in Nat, NEW v, IsSequence(v), Len(v) # 0, k + Len(v) <= m,
           NEW g, g = Store(h, Plus(p, k), v)
    PROVE  /\ Sound(g) /\ g.died = "no" /\ g.regions = h.regions /\ g.ptr = h.ptr
           /\ Used(g) = Used(h) /\ \A r : Of(g, r) = Of(h, r)
           /\ Extends(h, g, Span(p, m)) /\ Extends(h, g, Span(Plus(p, k), Len(v)))
           /\ Span(Plus(p, k), Len(v)) \subseteq Span(p, m)
           /\ \A i \in 0 .. m - 1 : Word(g, Plus(p, i)) =
                IF k <= i /\ i < k + Len(v) THEN v[i - k + 1] ELSE Word(h, Plus(p, i))
<1>0. Len(v) \in Nat
  BY SeqFacts
<1>1. PICK q : q = Plus(p, k)
  OBVIOUS
<1>2. q \in Address /\ Span(q, Len(v)) \subseteq Span(p, m)
  BY <1>0, <1>1, PlusAt, SpanWithin
<1>3. Span(q, Len(v)) \subseteq Used(h)
  BY <1>2
<1>4. g = Store(h, q, v)
  BY <1>1
<1>5. Stores(h, g, q, v)
  BY <1>2, <1>3, <1>4, Stored
<1>6. Extends(h, g, Span(q, Len(v)))
  BY <1>5, StoresExtends
<1>7. Extends(h, g, Span(p, m))
  BY <1>2, <1>6, Narrower
<1>8. ASSUME NEW i \in 0 .. m - 1
      PROVE  Word(g, Plus(p, i)) =
                IF k <= i /\ i < k + Len(v) THEN v[i - k + 1] ELSE Word(h, Plus(p, i))
  <2>0. i \in Nat /\ p[2] \in Nat
    BY DEF Address
  <2>1. Plus(p, i) \in Span(p, m) /\ Plus(p, i)[1] = p[1] /\ Plus(p, i)[2] = p[2] + i
    BY <2>0, SpanOf, PlusAt
  <2>2. q[1] = p[1] /\ q[2] = p[2] + k
    BY <1>1, PlusAt
  <2>3. CASE k <= i /\ i < k + Len(v)
    <3>1. PICK j : j = i - k
      OBVIOUS
    <3>2. j \in 0 .. Len(v) - 1 /\ j \in Nat /\ k + j = i
      BY <1>0, <2>0, <2>3, <3>1
    <3>6. k + j = i
      BY <3>2
    <3>3. Word(g, Plus(q, j)) = v[j + 1]
      BY <1>5, <3>2 DEF Stores
    <3>4. Plus(q, j) = Plus(p, i)
      <4>1. Plus(q, j) = <<q[1], q[2] + j>>
        BY <1>2, <3>2, PlusAt
      <4>2. Plus(p, i) = <<p[1], p[2] + i>>
        BY <2>0, PlusAt
      <4>3. q[2] + j = p[2] + i
        <5>1. PICK b \in Nat : b = p[2]
          BY <2>0
        <5>2. b + k + j = b + i
          BY ONLY <3>6, b \in Nat, k \in Nat, <3>2, <2>0
        <5> QED BY <2>2, <5>1, <5>2
      <4> QED BY <2>2, <4>1, <4>2, <4>3
    <3>5. j + 1 = i - k + 1
      BY <3>1
    <3> QED BY <2>3, <3>3, <3>4, <3>5
  <2>4. CASE ~ (k <= i /\ i < k + Len(v))
    <3>1. Plus(p, i) \notin Span(q, Len(v))
      <4>1. ~ (p[2] + k <= p[2] + i /\ p[2] + i < p[2] + k + Len(v))
        BY <1>0, <2>0, <2>4
      <4> QED BY <2>1, <2>2, <4>1 DEF Span
    <3>2. Word(g, Plus(p, i)) = Word(h, Plus(p, i))
      BY <1>6, <2>1, <3>1 DEF Extends
    <3> QED BY <2>4, <3>2
  <2> QED BY <2>3, <2>4
<1> QED BY <1>1, <1>2, <1>5, <1>6, <1>7, <1>8 DEF Stores

\* The two lemmas again, each with its hypotheses in one operator.
MayWrite(h, p, m, k, v) ==
    /\ Sound(h) /\ h.died = "no" /\ p \in Address /\ m \in Nat /\ Span(p, m) \subseteq Used(h)
    /\ k \in Nat /\ IsSequence(v) /\ Len(v) # 0 /\ k + Len(v) <= m

Wrote(h, g, p, m, k, v) ==
    /\ Sound(g) /\ g.died = "no" /\ g.regions = h.regions /\ g.ptr = h.ptr
    /\ Used(g) = Used(h) /\ \A r : Of(g, r) = Of(h, r)
    /\ Extends(h, g, Span(p, m)) /\ Extends(h, g, Span(Plus(p, k), Len(v)))
    /\ Span(Plus(p, k), Len(v)) \subseteq Span(p, m)
    /\ \A i \in 0 .. m - 1 : Word(g, Plus(p, i)) =
         IF k <= i /\ i < k + Len(v) THEN v[i - k + 1] ELSE Word(h, Plus(p, i))

\* The lemma again, with its hypotheses in one operator.
LEMMA Writing ==
    \A h, p, m, k, v, g : MayWrite(h, p, m, k, v) /\ g = Store(h, Plus(p, k), v) => Wrote(h, g, p, m, k, v)
<1> SUFFICES ASSUME NEW h, NEW p, NEW m, NEW k, NEW v, NEW g, MayWrite(h, p, m, k, v),
                    g = Store(h, Plus(p, k), v)
             PROVE  Wrote(h, g, p, m, k, v)
  OBVIOUS
<1>1. /\ Sound(h) /\ h.died = "no" /\ p \in Address /\ m \in Nat /\ Span(p, m) \subseteq Used(h)
      /\ k \in Nat /\ IsSequence(v) /\ Len(v) # 0 /\ k + Len(v) <= m
  BY DEF MayWrite
<1>2. /\ Sound(g) /\ g.died = "no" /\ g.regions = h.regions /\ g.ptr = h.ptr
      /\ Used(g) = Used(h) /\ \A r : Of(g, r) = Of(h, r)
      /\ Extends(h, g, Span(p, m)) /\ Extends(h, g, Span(Plus(p, k), Len(v)))
      /\ Span(Plus(p, k), Len(v)) \subseteq Span(p, m)
      /\ \A i \in 0 .. m - 1 : Word(g, Plus(p, i)) =
           IF k <= i /\ i < k + Len(v) THEN v[i - k + 1] ELSE Word(h, Plus(p, i))
  BY <1>1, PartWritten
<1> QED BY <1>2 DEF Wrote

\* A reallocation, with its hypotheses in one operator.
LEMMA Moving ==
    \A h, r, old, m, oldSize, newSize, g :
       MayMove(h, r, old, m, oldSize, newSize) /\ g = RegionRealloc(h, r, old, oldSize, newSize) =>
         /\ Safe(h, g)
         /\ h.died = "no" /\ g.died = "no" => Allocates(h, g, r, newSize)
         /\ h.died = "no" /\ g.died = "no" /\ old # Null =>
              \A i \in 0 .. oldSize - 1 : Word(g, Plus(g.ptr, i)) = Word(h, Plus(old, i))
BY Reallocated DEF Safe

\* A head word of an object.
LEMMA OneWritten ==
    ASSUME NEW h, Sound(h), h.died = "no", NEW p \in Address, NEW m \in Nat, Span(p, m) \subseteq Used(h),
           NEW k \in 0 .. m - 1, NEW w, NEW g, g = Store(h, Plus(p, k), <<w>>)
    PROVE  /\ Sound(g) /\ g.died = "no" /\ g.regions = h.regions /\ g.ptr = h.ptr
           /\ Used(g) = Used(h) /\ \A r : Of(g, r) = Of(h, r)
           /\ Extends(h, g, Span(p, m))
           /\ Word(g, Plus(p, k)) = w
           /\ \A i \in 0 .. m - 1 : i # k => Word(g, Plus(p, i)) = Word(h, Plus(p, i))
<1>1. PICK v : v = <<w>>
  OBVIOUS
<1>2. IsSequence(v) /\ Len(v) = 1 /\ v[1] = w /\ Len(v) # 0 /\ k + Len(v) <= m /\ k \in Nat
  BY <1>1, Listed
<1>3. g = Store(h, Plus(p, k), v)
  BY <1>1
<1>4. /\ Sound(g) /\ g.died = "no" /\ g.regions = h.regions /\ g.ptr = h.ptr
      /\ Used(g) = Used(h) /\ \A r : Of(g, r) = Of(h, r)
      /\ Extends(h, g, Span(p, m))
      /\ \A i \in 0 .. m - 1 : Word(g, Plus(p, i)) =
                IF k <= i /\ i < k + Len(v) THEN v[i - k + 1] ELSE Word(h, Plus(p, i))
  <2>1. MayWrite(h, p, m, k, v)
    BY <1>2 DEF MayWrite
  <2>2. Wrote(h, g, p, m, k, v)
    BY <1>3, <2>1, Writing
  <2> QED BY <2>2 DEF Wrote
<1>5. Word(g, Plus(p, k)) = w
  <2>1. k <= k /\ k < k + Len(v) /\ k - k + 1 = 1
    BY <1>2
  <2> QED BY <1>2, <1>4, <2>1
<1>6. ASSUME NEW i \in 0 .. m - 1, i # k PROVE Word(g, Plus(p, i)) = Word(h, Plus(p, i))
  <2>1. ~ (k <= i /\ i < k + Len(v))
    BY <1>2, <1>6
  <2> QED BY <1>4, <2>1
<1> QED BY <1>4, <1>5, <1>6

\* A vector is given new room: its elements are moved and its head follows.
LEMMA VectorResized ==
    ASSUME NEW h, Sound(h), h.died = "no", NEW x, x.kind = "vector", FlatLies(h, x),
           NEW c \in Nat, Room(h, x.ptr) < c, NEW g, g = Resized(h, x.ptr, c)
    PROVE  /\ FlatChanges(h, g, x)
           /\ g.died = "no" =>
                /\ Room(g, x.ptr) = c /\ Size(g, x.ptr) = Size(h, x.ptr) /\ c <= SizeMax
                /\ NthsKept(h, g, x)
<1>1. PICK p, r, old, m : p = x.ptr /\ r = x.region /\ old = Data(h, p) /\ m = Room(h, p) * ElemSize
  OBVIOUS
<1>2. ElemSize \in Nat \ {0} /\ Room(h, p) \in Nat /\ Size(h, p) \in Nat /\ HeadSize(x) = 4
      /\ x.kind \in FlatKinds /\ FlatSize(h, x) = m
  BY <1>1, LayoutAssumption DEF FlatLies, HeadSize, FlatKinds, FlatSize
<1>3. /\ p \in Address /\ Aligned(p[2]) /\ Span(p, 4) \subseteq Of(h, r) /\ r \in 1 .. Len(h.regions)
      /\ Home(h, p) = r /\ m <= SizeMax
      /\ m # 0 => old \in Address /\ Span(old, m) \subseteq Of(h, r)
      /\ Room(h, p) = 0 => old = Null
      /\ Size(h, p) <= Room(h, p)
  BY <1>1, <1>2 DEF FlatLies
<1>4. m \in Nat /\ (m = 0 => Room(h, p) = 0) /\ SizeMul(Room(h, p), ElemSize) = m
  <2>1. m \in Nat /\ Room(h, p) <= m
    BY <1>1, <1>2, Products
  <2>2. SizeMul(Room(h, p), ElemSize) = m
    <3>1. ~ (m > SizeMax)
      BY <1>3, <2>1, SizesAssumption
    <3> QED BY <1>1, <3>1 DEF SizeMul
  <2> QED BY <1>2, <2>1, <2>2
<1>5. PICK n : n = SizeMul(c, ElemSize)
  OBVIOUS
<1>6. n \in Nat /\ m < n /\ (n <= SizeMax => n = c * ElemSize /\ c <= SizeMax)
  <2>1. PICK k : k = c * ElemSize
    OBVIOUS
  <2>2. m < k /\ c <= k /\ k \in Nat
    BY <1>1, <1>2, <2>1, Products
  <2>3. n = IF k > SizeMax THEN TooBig ELSE k
    BY <1>5, <2>1 DEF SizeMul
  <2> QED BY <1>3, <1>4, <2>1, <2>2, <2>3, SizesAssumption DEF TooBig
<1>7. PICK a : a = RegionRealloc(h, r, old, m, n)
  OBVIOUS
<1>8. Of(h, r) \subseteq Used(h)
  BY DEF Of
<1>9. /\ Safe(h, a) /\ Sound(a) /\ Len(a.regions) = Len(h.regions)
      /\ a.died = "no" => Allocates(h, a, r, n)
      /\ a.died = "no" /\ old # Null =>
           \A i \in 0 .. m - 1 : Word(a, Plus(a.ptr, i)) = Word(h, Plus(old, i))
  <2>1. old = Null \/ (old \in Address /\ m # 0 /\ Span(old, m) \subseteq Used(h) /\ m <= m)
    BY <1>3, <1>4, <1>8
  <2>2. MayMove(h, r, old, m, m, n)
    BY <1>3, <1>4, <1>6, <2>1 DEF MayMove
  <2>3. /\ Safe(h, a)
        /\ a.died = "no" => Allocates(h, a, r, n)
        /\ a.died = "no" /\ old # Null =>
             \A i \in 0 .. m - 1 : Word(a, Plus(a.ptr, i)) = Word(h, Plus(old, i))
    BY <1>7, <2>2, Moving
  <2> QED BY <2>3 DEF Safe
<1>10. PICK s : s = Store(a, p, <<a.ptr>>)
  OBVIOUS
<1>11. g = Store(s, Plus(p, 2), <<c>>)
  BY <1>1, <1>3, <1>4, <1>5, <1>7, <1>10 DEF Resized, InPlace
<1>12. CASE a.died # "no"
  <2>1. g = a
    BY <1>10, <1>11, <1>12, Buried
  <2> QED BY <1>9, <1>12, <2>1 DEF FlatChanges, Safe
<1>13. CASE a.died = "no"
  <2>1. /\ n <= SizeMax /\ n # 0 /\ Extends(h, a, {}) /\ a.ptr \in Address /\ Aligned(a.ptr[2])
        /\ Span(a.ptr, n) \subseteq Of(a, r) /\ Span(a.ptr, n) \cap Used(h) = {}
        /\ Of(h, r) \subseteq Of(a, r)
    BY <1>3, <1>4, <1>6, <1>9, <1>13 DEF Allocates, Extends
  <2>2. PICK d : d = a.ptr
    OBVIOUS
  <2>3. Span(p, 4) \subseteq Used(a) /\ Span(p, 4) \subseteq Used(h)
    BY <1>3, <1>8, <2>1 DEF Of
  <2>4. s = Store(a, Plus(p, 0), <<d>>)
    BY <1>3, <1>10, <2>2, PlusAt
  <2>5. /\ Sound(s) /\ s.died = "no" /\ s.regions = a.regions
        /\ Used(s) = Used(a) /\ \A q : Of(s, q) = Of(a, q)
        /\ Extends(a, s, Span(p, 4))
        /\ Word(s, Plus(p, 0)) = d
        /\ \A i \in 0 .. 4 - 1 : i # 0 => Word(s, Plus(p, i)) = Word(a, Plus(p, i))
    <3>1. 0 \in 0 .. 4 - 1 /\ 4 \in Nat
      OBVIOUS
    <3> QED BY <1>3, <1>9, <1>13, <2>3, <2>4, <3>1, OneWritten
  <2>6. /\ Sound(g) /\ g.died = "no" /\ g.regions = s.regions
        /\ Used(g) = Used(s) /\ \A q : Of(g, q) = Of(s, q)
        /\ Extends(s, g, Span(p, 4))
        /\ Word(g, Plus(p, 2)) = c
        /\ \A i \in 0 .. 4 - 1 : i # 2 => Word(g, Plus(p, i)) = Word(s, Plus(p, i))
    <3>1. 2 \in 0 .. 4 - 1 /\ 4 \in Nat
      OBVIOUS
    <3> QED BY <1>3, <1>11, <2>3, <2>5, <3>1, OneWritten
  <2>7. \A i \in 0 .. 4 - 1 : Word(a, Plus(p, i)) = Word(h, Plus(p, i))
    BY <1>3, <2>1, <2>3, PieceKept
  <2>8. Data(g, p) = d /\ Size(g, p) = Size(h, p) /\ Room(g, p) = c /\ Home(g, p) = r
    <3>1. /\ Word(g, Plus(p, 0)) = d /\ Word(g, Plus(p, 1)) = Word(h, Plus(p, 1))
          /\ Word(g, Plus(p, 2)) = c /\ Word(g, Plus(p, 3)) = Word(h, Plus(p, 3))
      BY <2>5, <2>6, <2>7
    <3> QED BY <1>3, <3>1, HeadWords
  <2>9. Extends(h, g, Span(p, 4))
    <3>1. Extends(h, s, Span(p, 4))
      BY <2>1, <2>5, Onward
    <3> QED BY <2>6, <3>1, Onward
  <2>10. FlatSize(g, x) = n /\ FlatSize(g, x) # 0
    BY <1>1, <1>2, <1>6, <2>1, <2>8 DEF FlatSize
  <2>11. FlatLies(g, x)
    <3>1. Span(p, 4) \subseteq Of(g, r) /\ Span(d, n) \subseteq Of(g, r) /\ r \in 1 .. Len(g.regions)
          /\ Span(p, 4) \cap Span(d, n) = {}
      BY <1>3, <1>9, <2>1, <2>2, <2>3, <2>5, <2>6
    <3>2. Size(h, p) <= c /\ c # 0
      BY <1>1, <1>2, <1>3
    <3> QED BY <1>1, <1>2, <1>3, <2>1, <2>2, <2>8, <2>10, <3>1, <3>2 DEF FlatLies
  <2>12. FlatFoot(g, x) \cap Used(h) \subseteq FlatFoot(h, x) /\ Span(p, 4) \subseteq FlatFoot(h, x)
    BY <1>1, <1>2, <2>1, <2>2, <2>8, <2>10 DEF FlatFoot
  <2>13. Extends(h, g, FlatFoot(h, x))
    BY <2>9, <2>12, Narrower
  <2>14. Safe(h, g)
    BY <1>9, <2>5, <2>6 DEF Safe
  <2>15. \A i \in 0 .. m - 1 : Word(g, Plus(d, i)) = Word(h, Plus(old, i))
    <3>1. Extends(a, g, Span(p, 4))
      BY <2>5, <2>6, Onward
    <3>2. Span(d, n) \subseteq Used(a) /\ Span(d, n) \cap Span(p, 4) = {} /\ d \in Address
      BY <2>1, <2>2, <2>3 DEF Of
    <3>3. \A i \in 0 .. n - 1 : Word(g, Plus(d, i)) = Word(a, Plus(d, i))
      BY <1>6, <3>1, <3>2, PieceKept
    <3>4. ASSUME NEW i \in 0 .. m - 1
          PROVE  i \in 0 .. n - 1 /\ Word(a, Plus(d, i)) = Word(h, Plus(old, i))
      <4>1. m # 0 /\ i \in 0 .. n - 1
        BY <1>4, <1>6
      <4>2. old # Null
        BY <1>3, <4>1, PlusAt
      <4> QED BY <1>9, <1>13, <2>2, <4>1, <4>2
    <3> QED BY <3>3, <3>4
  <2>16. NthsKept(h, g, x)
    <3>1. DataKept(h, g, x)
      BY <1>1, <1>2, <2>8, <2>15 DEF DataKept
    <3>2. Room(h, x.ptr) <= Room(g, x.ptr)
      BY <1>1, <1>2, <2>8
    <3> QED BY <2>6, <2>11, <3>1, <3>2, NthsSame
  <2>17. FlatChanges(h, g, x)
    BY <1>1, <2>11, <2>12, <2>13, <2>14 DEF FlatChanges
  <2> QED BY <1>1, <1>6, <2>1, <2>8, <2>16, <2>17
<1> QED BY <1>12, <1>13

\* The next capacity that is tried.
NextCapacity(c) == SizeAdd(SizeMul(2, c), 1)

\* Each capacity tried is larger than the one before, until one is refused.
LEMMA NextLarger ==
    ASSUME NEW c \in Nat, c <= SizeMax
    PROVE  NextCapacity(c) \in Nat /\ c < NextCapacity(c) /\ NextCapacity(c) <= TooBig
<1>1. PICK d : d = SizeMul(2, c)
  OBVIOUS
<1>2. d \in Nat /\ (d = 2 * c \/ d > SizeMax)
  BY <1>1, SizeMultiplied
<1>3. PICK e : e = SizeAdd(d, 1)
  OBVIOUS
<1>4. e \in Nat /\ e <= TooBig /\ (e = d + 1 \/ e > SizeMax)
  BY <1>2, <1>3, SizeAdded
<1>5. c < e
  BY <1>2, <1>4, SizesAssumption
<1> QED BY <1>1, <1>3, <1>4, <1>5 DEF NextCapacity

\* f is what Grown computes, from the capacity k on.
Grows(f, k, needed) ==
    /\ DOMAIN f = k .. TooBig
    /\ \A c \in k .. TooBig : f[c] = IF c >= needed THEN c ELSE f[NextCapacity(c)]

\* The function Grown computes exists, by induction down from TooBig.
LEMMA GrowthExists ==
    ASSUME NEW needed \in Nat, needed <= TooBig
    PROVE  \E f : Grows(f, 0, needed)
<1> DEFINE S == {k \in 0 .. TooBig + 1 : \E f : Grows(f, k, needed)}
<1>0. TooBig \in Nat /\ TooBig = SizeMax + 1 /\ SizeMax \in Nat
  BY SizesAssumption DEF TooBig
<1>1. S \in SUBSET Nat
  BY <1>0
<1>2. S # {}
  <2>1. PICK f : f = [c \in (TooBig + 1) .. TooBig |-> 0]
    OBVIOUS
  <2>2. (TooBig + 1) .. TooBig = {}
    BY <1>0
  <2>3. Grows(f, TooBig + 1, needed)
    BY <2>1, <2>2 DEF Grows
  <2>4. TooBig + 1 \in 0 .. TooBig + 1
    BY <1>0
  <2> QED BY <2>3, <2>4
<1>3. PICK k \in S : \A j \in S : k <= j
  BY <1>1, <1>2, Least
<1>4. PICK f : Grows(f, k, needed)
  OBVIOUS
<1>5. ASSUME k # 0 PROVE FALSE
  <2>1. PICK j \in Nat : k = j + 1 /\ j <= TooBig
    <3>1. k \in Nat /\ k <= TooBig + 1
      BY <1>0
    <3>2. k - 1 \in Nat /\ k = (k - 1) + 1 /\ k - 1 <= TooBig
      BY <1>0, <1>5, <3>1
    <3> QED BY <3>2
  <2>2. PICK g : g = [c \in j .. TooBig |-> IF c = j THEN IF j >= needed THEN j ELSE f[NextCapacity(j)]
                                           ELSE f[c]]
    OBVIOUS
  <2>3. ASSUME NEW c \in j .. TooBig, ~ (c >= needed)
        PROVE  NextCapacity(c) \in k .. TooBig
    <3>1. c \in Nat /\ c <= SizeMax
      BY <1>0, <2>1, <2>3
    <3>2. NextCapacity(c) \in Nat /\ c < NextCapacity(c) /\ NextCapacity(c) <= TooBig
      BY <3>1, NextLarger
    <3> QED BY <1>0, <2>1, <3>1, <3>2
  <2>4. \A c \in k .. TooBig : c \in j .. TooBig /\ c # j /\ g[c] = f[c]
    BY <1>0, <2>1, <2>2
  <2>5. g[j] = IF j >= needed THEN j ELSE g[NextCapacity(j)]
    <3>1. j \in j .. TooBig
      BY <1>0, <2>1
    <3> QED BY <2>2, <2>3, <2>4, <3>1
  <2>6. \A c \in k .. TooBig : g[c] = IF c >= needed THEN c ELSE g[NextCapacity(c)]
    BY <1>4, <2>3, <2>4 DEF Grows
  <2>7. \A c \in j .. TooBig : c = j \/ c \in k .. TooBig
    BY <1>0, <2>1
  <2>8. Grows(g, j, needed)
    BY <2>2, <2>5, <2>6, <2>7 DEF Grows
  <2>9. j \in S /\ j < k
    BY <1>0, <2>1, <2>8
  <2> QED BY <1>1, <1>3, <2>9
<1> QED BY <1>4, <1>5

\* The capacity a container grows to.
LEMMA GrownEnough ==
    \A capacity, needed :
       capacity \in Nat /\ capacity <= TooBig /\ needed \in Nat /\ needed <= TooBig =>
         /\ Grown(capacity, needed) \in Nat /\ Grown(capacity, needed) <= TooBig
         /\ Grown(capacity, needed) >= needed
         /\ capacity >= needed => Grown(capacity, needed) = capacity
<1> SUFFICES ASSUME NEW capacity, NEW needed, capacity \in Nat, capacity <= TooBig,
                    needed \in Nat, needed <= TooBig
             PROVE  /\ Grown(capacity, needed) \in Nat /\ Grown(capacity, needed) <= TooBig
                    /\ Grown(capacity, needed) >= needed
                    /\ capacity >= needed => Grown(capacity, needed) = capacity
  OBVIOUS
<1>0. TooBig \in Nat /\ TooBig = SizeMax + 1 /\ SizeMax \in Nat
  BY SizesAssumption DEF TooBig
<1> DEFINE E(f) == [c \in 0 .. TooBig |-> IF c >= needed THEN c ELSE f[NextCapacity(c)]]
           grow == CHOOSE f : f = E(f)
<1>1. grow = E(grow)
  <2>1. PICK f : Grows(f, 0, needed)
    BY GrowthExists
  <2>2. PICK e : e = [c \in 0 .. TooBig |-> f[c]]
    OBVIOUS
  <2>3. e = E(e)
    <3>1. \A c \in 0 .. TooBig : e[c] = IF c >= needed THEN c ELSE f[NextCapacity(c)]
      BY <2>1, <2>2 DEF Grows
    <3>2. \A c \in 0 .. TooBig : ~ (c >= needed) => NextCapacity(c) \in 0 .. TooBig
      <4>1. ASSUME NEW c \in 0 .. TooBig, ~ (c >= needed) PROVE NextCapacity(c) \in 0 .. TooBig
        <5>1. c \in Nat /\ c <= SizeMax
          BY <1>0, <4>1
        <5> QED BY <1>0, <5>1, NextLarger
      <4> QED BY <4>1
    <3>3. \A c \in 0 .. TooBig : e[c] = IF c >= needed THEN c ELSE e[NextCapacity(c)]
      BY <2>2, <3>1, <3>2
    <3>4. e = [c \in 0 .. TooBig |-> e[c]]
      BY <2>2
    <3> QED BY <3>3, <3>4
  <2> HIDE DEF E
  <2> QED BY <2>3
<1>2. Grown(capacity, needed) = grow[capacity]
  BY DEF Grown, NextCapacity
<1>3. \A c \in 0 .. TooBig : grow[c] = IF c >= needed THEN c ELSE grow[NextCapacity(c)]
  <2>1. PICK e : e = grow
    OBVIOUS
  <2>2. e = E(e)
    BY <1>1, <2>1
  <2>3. \A c \in 0 .. TooBig : e[c] = IF c >= needed THEN c ELSE e[NextCapacity(c)]
    BY <2>2
  <2> QED BY <2>1, <2>3
<1>4. PICK f : f = grow
  OBVIOUS
<1> HIDE DEF grow, E
<1> DEFINE Good(c) == f[c] \in Nat /\ f[c] <= TooBig /\ f[c] >= needed
           Bad == {d \in 0 .. TooBig : ~ Good(TooBig - d)}
<1>5. Bad = {}
  <2>1. SUFFICES ASSUME Bad # {} PROVE FALSE
    OBVIOUS
  <2>2. Bad \in SUBSET Nat
    BY <1>0
  <2>3. PICK d \in Bad : \A j \in Bad : d <= j
    <3> HIDE DEF Bad
    <3> QED BY <2>1, <2>2, Least
  <2>4. PICK c : c = TooBig - d
    OBVIOUS
  <2>5. c \in 0 .. TooBig /\ c \in Nat /\ c <= TooBig /\ ~ Good(c) /\ d = TooBig - c
    BY <1>0, <2>3, <2>4
  <2>6. ~ (c >= needed)
    BY <1>3, <1>4, <2>5
  <2>7. PICK n : n = NextCapacity(c)
    OBVIOUS
  <2>8. n \in Nat /\ c < n /\ n <= TooBig
    <3>1. c <= SizeMax
      BY <1>0, <2>5, <2>6
    <3> QED BY <2>5, <2>7, <3>1, NextLarger
  <2>9. f[c] = f[n]
    BY <1>3, <1>4, <2>5, <2>6, <2>7
  <2>10. ~ Good(n)
    BY <2>5, <2>9
  <2>11. TooBig - n \in 0 .. TooBig /\ TooBig - (TooBig - n) = n /\ TooBig - n < d
    BY <1>0, <2>5, <2>8
  <2>12. TooBig - n \in Bad
    BY <2>10, <2>11
  <2> QED BY <2>3, <2>11, <2>12, <2>2
<1>6. Good(capacity)
  <2>1. TooBig - capacity \in 0 .. TooBig /\ TooBig - (TooBig - capacity) = capacity
    BY <1>0
  <2> QED BY <1>5, <2>1
<1>7. capacity >= needed => f[capacity] = capacity
  <2>1. capacity \in 0 .. TooBig
    BY <1>0
  <2> QED BY <1>3, <1>4, <2>1
<1> QED BY <1>2, <1>4, <1>6, <1>7

\* Writing into the array of an object, once more.
MayPut(h, x, i, v) ==
    /\ Sound(h) /\ h.died = "no" /\ x.kind \in FlatKinds /\ FlatLies(h, x)
    /\ i \in Nat /\ IsSequence(v) /\ Len(v) # 0 /\ i + Len(v) <= FlatSize(h, x)

Puts(h, g, x, i, v) ==
    /\ FlatChanges(h, g, x) /\ g.died = "no" /\ Data(g, x.ptr) = Data(h, x.ptr)
    /\ Size(g, x.ptr) = Size(h, x.ptr) /\ Room(g, x.ptr) = Room(h, x.ptr)
    /\ \A k \in 0 .. FlatSize(h, x) - 1 :
         Word(g, Plus(Data(g, x.ptr), k)) =
           IF i <= k /\ k < i + Len(v) THEN v[k - i + 1] ELSE Word(h, Plus(Data(h, x.ptr), k))

\* The lemma again, with its hypotheses in one operator.
LEMMA Putting ==
    \A h, x, i, v, g :
       MayPut(h, x, i, v) /\ g = Store(h, Plus(Data(h, x.ptr), i), v) => Puts(h, g, x, i, v)
<1> SUFFICES ASSUME NEW h, NEW x, NEW i, NEW v, NEW g, MayPut(h, x, i, v),
                    g = Store(h, Plus(Data(h, x.ptr), i), v)
             PROVE  Puts(h, g, x, i, v)
  OBVIOUS
<1>1. /\ FlatChanges(h, g, x) /\ g.died = "no" /\ Data(g, x.ptr) = Data(h, x.ptr)
      /\ Size(g, x.ptr) = Size(h, x.ptr) /\ Room(g, x.ptr) = Room(h, x.ptr)
  BY DataWritten DEF MayPut
<1>2. PICK d, m : d = Data(h, x.ptr) /\ m = FlatSize(h, x)
  OBVIOUS
<1>3. m \in Nat /\ Len(v) \in Nat
  BY <1>2, DataReadable, SeqFacts DEF MayPut
<1>4. m # 0
  BY <1>2, <1>3 DEF MayPut
<1>5. Readable(h, d, m)
  BY <1>2, <1>4, DataReadable DEF MayPut
<1>6. MayWrite(h, d, m, i, v)
  BY <1>2, <1>5 DEF MayPut, MayWrite, Readable
<1>7. Wrote(h, g, d, m, i, v)
  BY <1>2, <1>6, Writing
<1>8. \A k \in 0 .. m - 1 : Word(g, Plus(d, k)) =
         IF i <= k /\ k < i + Len(v) THEN v[k - i + 1] ELSE Word(h, Plus(d, k))
  BY <1>7 DEF Wrote
<1> QED BY <1>1, <1>2, <1>8 DEF Puts

\* The words of n elements are written over those from the i-th on.
MayFill(h, x, i, n, v) ==
    /\ x.kind = "vector" /\ i \in Nat /\ n \in Nat /\ n # 0 /\ i + n <= Room(h, x.ptr)
    /\ Sound(h) /\ h.died = "no" /\ FlatLies(h, x) /\ IsSequence(v) /\ Len(v) = n * ElemSize

Fills(h, g, x, i, n, v) ==
    /\ FlatChanges(h, g, x) /\ g.died = "no" /\ Data(g, x.ptr) = Data(h, x.ptr)
    /\ Size(g, x.ptr) = Size(h, x.ptr) /\ Room(g, x.ptr) = Room(h, x.ptr)
    /\ \A j \in 0 .. Room(h, x.ptr) - 1 : ~ (i <= j /\ j < i + n) => Nth(g, x, j) = Nth(h, x, j)
    /\ \A j \in 0 .. n - 1 : \A t \in 0 .. ElemSize - 1 :
         Word(g, Plus(Data(g, x.ptr), (i + j) * ElemSize + t)) = v[j * ElemSize + t + 1]

\* Writing the words of n elements changes those elements and no other.
LEMMA CellsPut ==
    \A h, x, i, n, v, g :
       MayFill(h, x, i, n, v) /\ g = Store(h, Cell(Data(h, x.ptr), i), v) => Fills(h, g, x, i, n, v)
<1> SUFFICES ASSUME NEW h, NEW x, NEW i, NEW n, NEW v, NEW g,
                    MayFill(h, x, i, n, v), g = Store(h, Cell(Data(h, x.ptr), i), v)
             PROVE  Fills(h, g, x, i, n, v)
  OBVIOUS
<1>0. /\ x.kind = "vector" /\ i \in Nat /\ n \in Nat /\ n # 0 /\ i + n <= Room(h, x.ptr)
      /\ Sound(h) /\ h.died = "no" /\ FlatLies(h, x) /\ IsSequence(v) /\ Len(v) = n * ElemSize
  BY DEF MayFill
<1>1. PICK c \in Nat : c = Room(h, x.ptr) /\ i + n <= c
  BY <1>0 DEF FlatLies
<1>2. PICK e \in Nat \ {0} : e = ElemSize
  BY LayoutAssumption
<1>3. PICK k \in Nat, l \in Nat \ {0} : k = i * ElemSize /\ l = n * ElemSize /\ k + l <= FlatSize(h, x)
  <2>1. i * e \in Nat /\ n * e \in Nat /\ (i + n) * e = i * e + n * e /\ n <= n * e
    BY <1>0, <1>2, Products
  <2>2. (i + n) * e <= c * e
    <3>1. PICK a \in Nat : a = i + n
      BY <1>0
    <3> QED BY <1>1, <1>2, <3>1, Products
  <2>3. FlatSize(h, x) = c * e
    BY <1>0, <1>1, <1>2 DEF FlatSize
  <2>4. n * e # 0
    BY <1>0, <2>1
  <2> QED BY <1>2, <2>1, <2>2, <2>3, <2>4
<1>4. MayPut(h, x, k, v)
  BY <1>0, <1>3 DEF MayPut, FlatKinds
<1>5. g = Store(h, Plus(Data(h, x.ptr), k), v)
  BY <1>3 DEF Cell
<1>6. Puts(h, g, x, k, v)
  BY <1>4, <1>5, Putting
<1>7. /\ FlatChanges(h, g, x) /\ g.died = "no" /\ Data(g, x.ptr) = Data(h, x.ptr)
      /\ Size(g, x.ptr) = Size(h, x.ptr) /\ Room(g, x.ptr) = Room(h, x.ptr)
      /\ Sound(g) /\ FlatLies(g, x)
      /\ \A b \in 0 .. FlatSize(h, x) - 1 :
           Word(g, Plus(Data(g, x.ptr), b)) =
             IF k <= b /\ b < k + l THEN v[b - k + 1] ELSE Word(h, Plus(Data(h, x.ptr), b))
  BY <1>0, <1>3, <1>6 DEF Puts, FlatChanges, Safe
<1>8. ASSUME NEW j \in 0 .. Room(h, x.ptr) - 1, ~ (i <= j /\ j < i + n)
      PROVE  Nth(g, x, j) = Nth(h, x, j)
  <2>1. j \in Nat /\ j < Room(h, x.ptr)
    BY <1>1
  <2>2. HasCell(h, x, j) /\ HasCell(g, x, j)
    BY <1>0, <1>7, <2>1 DEF HasCell
  <2>3. ASSUME NEW t \in 0 .. ElemSize - 1
        PROVE  Word(g, Plus(Data(g, x.ptr), j * ElemSize + t)) =
                 Word(h, Plus(Data(h, x.ptr), j * ElemSize + t))
    <3>1. PICK b : b = j * ElemSize + t
      OBVIOUS
    <3>2. b \in 0 .. FlatSize(h, x) - 1
      BY <2>2, <3>1, CellHas
    <3>3. ~ (k <= b /\ b < k + l)
      <4>1. AmongCells(j, i, n, t)
        BY <1>0, <2>1, CellApart
      <4> QED BY <1>3, <1>8, <3>1, <4>1 DEF AmongCells
    <3> QED BY <1>7, <3>1, <3>2, <3>3
  <2>4. SameCell(h, x, j, g, x, j)
    BY <2>3 DEF SameCell
  <2> QED BY <2>2, <2>4, NthSame
<1>9. ASSUME NEW j \in 0 .. n - 1, NEW t \in 0 .. ElemSize - 1
      PROVE  Word(g, Plus(Data(g, x.ptr), (i + j) * ElemSize + t)) = v[j * ElemSize + t + 1]
  <2>1. PICK a \in Nat : a = i + j /\ i <= a /\ a < i + n /\ a < c /\ a - i = j
    BY <1>0, <1>1
  <2>2. HasCell(h, x, a)
    BY <1>0, <1>1, <2>1 DEF HasCell
  <2>3. PICK b : b = a * ElemSize + t
    OBVIOUS
  <2>4. b \in 0 .. FlatSize(h, x) - 1
    BY <2>2, <2>3, CellHas
  <2>5. k <= b /\ b < k + l /\ b - k = j * ElemSize + t
    <3>1. AmongCells(a, i, n, t)
      BY <1>0, CellApart
    <3>2. PICK u : u = a * ElemSize + t
      OBVIOUS
    <3>3. u \in Nat /\ k <= u /\ u < k + l /\ u - k = (a - i) * ElemSize + t
      BY <1>3, <2>1, <3>1, <3>2 DEF AmongCells
    <3>5. (a - i) * ElemSize + t = j * ElemSize + t
      BY <2>1
    <3> QED BY <2>3, <3>2, <3>3, <3>5
  <2>6. Word(g, Plus(Data(g, x.ptr), b)) = v[b - k + 1]
    BY <1>7, <2>4, <2>5
  <2> QED BY <2>1, <2>3, <2>5, <2>6
<1> QED BY <1>7, <1>8, <1>9 DEF Fills

\* An element of a vector is written.
LEMMA ElementWritten ==
    ASSUME NEW h, Sound(h), h.died = "no", NEW x, x.kind = "vector", FlatLies(h, x),
           NEW i \in Nat, i < Room(h, x.ptr), NEW w,
           NEW g, g = Store(h, Cell(Data(h, x.ptr), i), Repeat(w, ElemSize))
    PROVE  /\ FlatChanges(h, g, x) /\ g.died = "no" /\ Data(g, x.ptr) = Data(h, x.ptr)
           /\ Size(g, x.ptr) = Size(h, x.ptr) /\ Room(g, x.ptr) = Room(h, x.ptr)
           /\ Nth(g, x, i) = w
           /\ \A j \in 0 .. Room(h, x.ptr) - 1 : j # i => Nth(g, x, j) = Nth(h, x, j)
<1>0. PICK v : v = Repeat(w, ElemSize)
  OBVIOUS
<1>1. PICK e \in Nat \ {0}, c \in Nat : e = ElemSize /\ c = Room(h, x.ptr) /\ v = Repeat(w, ElemSize)
  BY <1>0, LayoutAssumption DEF FlatLies
<1>2. IsSequence(v) /\ Len(v) = e /\ \A k \in 1 .. e : v[k] = w
  BY <1>1, Repeated
<1>3. MayFill(h, x, i, 1, v)
  <2>1. 1 \in Nat /\ 1 # 0 /\ i + 1 <= Room(h, x.ptr) /\ Len(v) = 1 * ElemSize
    BY <1>1, <1>2
  <2> QED BY <1>2, <2>1 DEF MayFill
<1>4. g = Store(h, Cell(Data(h, x.ptr), i), v)
  BY <1>1
<1>5. /\ FlatChanges(h, g, x) /\ g.died = "no" /\ Data(g, x.ptr) = Data(h, x.ptr)
      /\ Size(g, x.ptr) = Size(h, x.ptr) /\ Room(g, x.ptr) = Room(h, x.ptr)
      /\ \A j \in 0 .. Room(h, x.ptr) - 1 : ~ (i <= j /\ j < i + 1) => Nth(g, x, j) = Nth(h, x, j)
      /\ \A j \in 0 .. 1 - 1 : \A t \in 0 .. ElemSize - 1 :
           Word(g, Plus(Data(g, x.ptr), (i + j) * ElemSize + t)) = v[j * ElemSize + t + 1]
  <2>1. Fills(h, g, x, i, 1, v)
    BY <1>3, <1>4, CellsPut
  <2> QED BY <2>1 DEF Fills
<1>6. \A j \in 0 .. Room(h, x.ptr) - 1 : j # i => Nth(g, x, j) = Nth(h, x, j)
  <2>1. \A j \in 0 .. Room(h, x.ptr) - 1 : j # i => ~ (i <= j /\ j < i + 1)
    BY <1>1
  <2> QED BY <1>5, <2>1
<1>7. Nth(g, x, i) = w
  <2>1. ASSUME NEW t \in 0 .. ElemSize - 1
        PROVE  Word(g, Plus(Data(g, x.ptr), i * ElemSize + t)) = w
    <3>1. 0 \in 0 .. 1 - 1 /\ i + 0 = i /\ 0 * ElemSize + t + 1 = t + 1 /\ t + 1 \in 1 .. e
      BY <1>1
    <3>2. Word(g, Plus(Data(g, x.ptr), (i + 0) * ElemSize + t)) = v[0 * ElemSize + t + 1]
      BY <1>5, <3>1
    <3> QED BY <1>2, <3>1, <3>2
  <2>2. CellFull(g, x, i, w)
    BY <2>1 DEF CellFull
  <2>3. HasCell(g, x, i)
    BY <1>5 DEF HasCell, FlatChanges, Safe
  <2> QED BY <2>2, <2>3, NthIs
<1> QED BY <1>5, <1>6, <1>7

\* g is h with the object x changed to hold s.
Changes(h, g, x, s) ==
    /\ FlatChanges(h, g, x)
    /\ h.died = "no" /\ g.died = "no" => Value(g, x) = s

\* What may be done to an object.
Whole(h, x) == Sound(h) /\ h.died = "no" /\ x.kind \in FlatKinds /\ FlatLies(h, x)

\* An object changed may be changed again.
LEMMA WholeAfter ==
    \A h, g, x : Whole(h, x) /\ FlatChanges(h, g, x) /\ g.died = "no" => Whole(g, x)
BY DEF Whole, FlatChanges, Safe

\* The element set is one of the vector's, or the program dies.
LEMMA VectorSetSafe ==
    ASSUME NEW h, Sound(h), h.died = "no", NEW x, x.kind = "vector", FlatLies(h, x),
           NEW i \in 0 .. (Size(h, x.ptr) - 1), NEW w
    PROVE  Changes(h, VectorSet(h, x.ptr, i, w), x, [Value(h, x) EXCEPT ![i + 1] = w])
<1>0. Size(h, x.ptr) \in Nat /\ Room(h, x.ptr) \in Nat /\ Size(h, x.ptr) <= Room(h, x.ptr)
  BY DEF FlatLies
<1>1. PICK g, s, n : /\ g = Store(h, Cell(Data(h, x.ptr), i), Repeat(w, ElemSize))
                     /\ s = Value(h, x) /\ n = Size(h, x.ptr)
  OBVIOUS
<1>2. i \in Nat /\ i < Room(h, x.ptr)
  BY <1>0
<1>3. /\ FlatChanges(h, g, x) /\ Size(g, x.ptr) = n
      /\ Nth(g, x, i) = w
      /\ \A j \in 0 .. Room(h, x.ptr) - 1 : j # i => Nth(g, x, j) = Nth(h, x, j)
  BY <1>1, <1>2, ElementWritten
<1>4. /\ IsSequence(s) /\ Len(s) = n /\ \A j \in 0 .. n - 1 : Nth(h, x, j) = s[j + 1]
  BY <1>1, ValueIs DEF FlatKinds
<1>5. PICK t : t = [s EXCEPT ![i + 1] = w]
  OBVIOUS
<1>6. /\ DOMAIN t = 1 .. n /\ t = [k \in 1 .. n |-> t[k]] /\ i + 1 \in 1 .. n
      /\ t[i + 1] = w /\ \A k \in 1 .. n : k # i + 1 => t[k] = s[k]
  <2>1. PICK m : m = i + 1
    OBVIOUS
  <2>2. m \in 1 .. n
    BY <1>0, <1>1, <2>1
  <2>3. DOMAIN s = 1 .. n
    BY <1>4, SeqFacts
  <2>4. t = [k \in 1 .. n |-> IF k = m THEN w ELSE s[k]]
    BY <1>5, <2>1, <2>3, Zenon
  <2>5. DOMAIN t = 1 .. n /\ t = [k \in 1 .. n |-> t[k]]
    BY <2>4
  <2>6. t[m] = w /\ \A k \in 1 .. n : k # m => t[k] = s[k]
    BY <2>2, <2>4
  <2> QED BY <2>1, <2>2, <2>5, <2>6
<1>7. IsSequence(t) /\ Len(t) = n
  BY <1>0, <1>1, <1>6, MadeSeq
<1>8. ASSUME NEW j \in 0 .. n - 1 PROVE Nth(g, x, j) = t[j + 1]
  <2>1. j + 1 \in 1 .. n /\ j \in 0 .. Room(h, x.ptr) - 1 /\ (j # i => j + 1 # i + 1)
    BY <1>0, <1>1
  <2> QED BY <1>3, <1>4, <1>6, <2>1
<1>9. Value(g, x) = t
  BY <1>3, <1>7, <1>8, VectorIs
<1>10. VectorSet(h, x.ptr, i, w) = g
  BY <1>1 DEF VectorSet
<1> QED BY <1>1, <1>3, <1>5, <1>9, <1>10 DEF Changes

\* Setting the size keeps the elements.
LEMMA Resizing ==
    ASSUME NEW h, Sound(h), h.died = "no", NEW x, x.kind = "vector", FlatLies(h, x),
           NEW n \in Nat, n <= Room(h, x.ptr), NEW g, g = Store(h, Plus(x.ptr, 1), <<n>>)
    PROVE  /\ FlatChanges(h, g, x) /\ g.died = "no"
           /\ Size(g, x.ptr) = n /\ Room(g, x.ptr) = Room(h, x.ptr) /\ NthsKept(h, g, x)
<1>1. /\ FlatChanges(h, g, x) /\ g.died = "no"
      /\ Size(g, x.ptr) = n /\ Room(g, x.ptr) = Room(h, x.ptr) /\ DataKept(h, g, x)
  BY SizeSet
<1>2. Sound(g) /\ FlatLies(g, x) /\ Room(h, x.ptr) <= Room(g, x.ptr)
  BY <1>1 DEF FlatChanges, Safe, FlatLies
<1> QED BY <1>1, <1>2, NthsSame

\* Clearing writes the size only, and leaves the vector empty.
LEMMA VectorClearSafe ==
    ASSUME NEW h, Sound(h), h.died = "no", NEW x, x.kind = "vector", FlatLies(h, x)
    PROVE  Changes(h, VectorClear(h, x.ptr), x, <<>>)
<1>1. PICK g : g = Store(h, Plus(x.ptr, 1), <<0>>)
  OBVIOUS
<1>2. 0 \in Nat /\ 0 <= Room(h, x.ptr)
  BY DEF FlatLies
<1>3. FlatChanges(h, g, x) /\ Size(g, x.ptr) = 0
  BY <1>1, <1>2, Resizing
<1>4. Value(g, x) = <<>>
  <2>1. PICK s : s = <<>>
    OBVIOUS
  <2>2. IsSequence(s) /\ Len(s) = 0
    BY <2>1, EmptySeq, AnySeq
  <2>3. \A i \in 0 .. Len(s) - 1 : Nth(g, x, i) = s[i + 1]
    BY <2>2
  <2> QED BY <1>3, <2>1, <2>2, <2>3, VectorIs
<1> QED BY <1>1, <1>3, <1>4 DEF VectorClear, Changes

\* A pop writes the size only, and takes the last element.
LEMMA VectorPopSafe ==
    ASSUME NEW h, Sound(h), h.died = "no", NEW x, x.kind = "vector", FlatLies(h, x),
           Size(h, x.ptr) # 0
    PROVE  Changes(h, VectorPop(h, x.ptr), x, SubSeq(Value(h, x), 1, Len(Value(h, x)) - 1))
<1>0. Size(h, x.ptr) \in Nat /\ Room(h, x.ptr) \in Nat /\ Size(h, x.ptr) <= Room(h, x.ptr)
  BY DEF FlatLies
<1>1. PICK n, s, t : n = Size(h, x.ptr) - 1 /\ s = Value(h, x) /\ t = SubSeq(s, 1, n)
  OBVIOUS
<1>2. n \in Nat /\ n <= Room(h, x.ptr)
  BY <1>0, <1>1
<1>3. PICK g : g = Store(h, Plus(x.ptr, 1), <<n>>)
  OBVIOUS
<1>4. FlatChanges(h, g, x) /\ Size(g, x.ptr) = n /\ NthsKept(h, g, x)
  BY <1>2, <1>3, Resizing
<1>5. /\ IsSequence(s) /\ Len(s) = n + 1 /\ \A j \in 0 .. n : Nth(h, x, j) = s[j + 1]
  <2>1. Size(h, x.ptr) = n + 1 /\ Size(h, x.ptr) - 1 = n
    BY <1>0, <1>1
  <2> QED BY <1>1, <2>1, ValueIs DEF FlatKinds
<1>6. /\ IsSequence(t) /\ Len(t) = n /\ \A k \in 1 .. n : t[k] = s[k]
  <2>1. /\ IsSequence(t) /\ Len(t) = n - 1 + 1
        /\ \A k \in 1 .. n - 1 + 1 : t[k] = s[1 + k - 1]
    BY <1>1, <1>2, <1>5, Slicing
  <2>2. n - 1 + 1 = n /\ \A k \in 1 .. n : 1 + k - 1 = k
    BY <1>2
  <2> QED BY <2>1, <2>2
<1>7. ASSUME NEW j \in 0 .. n - 1 PROVE Nth(g, x, j) = t[j + 1]
  <2>1. j + 1 \in 1 .. n /\ j \in 0 .. n /\ j \in 0 .. Room(h, x.ptr) - 1
    BY <1>0, <1>1, <1>2
  <2> QED BY <1>4, <1>5, <1>6, <2>1 DEF NthsKept
<1>8. Value(g, x) = t
  BY <1>4, <1>6, <1>7, VectorIs
<1>9. t = SubSeq(Value(h, x), 1, Len(Value(h, x)) - 1)
  BY <1>1, <1>2, <1>5
<1>10. VectorPop(h, x.ptr) = g
  BY <1>1, <1>3 DEF VectorPop
<1> QED BY <1>4, <1>8, <1>9, <1>10 DEF Changes

\* Append, value by value.
LEMMA Appending ==
    ASSUME NEW s, IsSequence(s), NEW w
    PROVE  /\ IsSequence(Append(s, w)) /\ Len(Append(s, w)) = Len(s) + 1
           /\ Append(s, w)[Len(s) + 1] = w
           /\ \A i \in 1 .. Len(s) : Append(s, w)[i] = s[i]
<1> DEFINE S == ToSet(s) \cup {w}
<1>1. s \in Seq(S) /\ w \in S
  BY SeqMonotonic DEF IsSequence
<1>2. /\ Append(s, w) \in Seq(S) /\ Len(Append(s, w)) = Len(s) + 1
      /\ \A i \in 1 .. Len(s) : Append(s, w)[i] = s[i]
      /\ Append(s, w)[Len(s) + 1] = w
  BY <1>1, AppendProperties
<1> QED BY <1>2, AnySeq

\* n more elements are counted, for which there is room.
LEMMA CountedSafe ==
    ASSUME NEW h, Sound(h), h.died = "no", NEW x, x.kind = "vector", FlatLies(h, x),
           NEW n \in Nat, Size(h, x.ptr) + n <= Room(h, x.ptr), NEW g, g = Counted(h, x.ptr, n)
    PROVE  /\ FlatChanges(h, g, x) /\ g.died = "no"
           /\ Size(g, x.ptr) = Size(h, x.ptr) + n /\ NthsKept(h, g, x)
<1>1. PICK m : m = Size(h, x.ptr) + n
  OBVIOUS
<1>2. m \in Nat /\ m <= Room(h, x.ptr)
  BY <1>1 DEF FlatLies
<1>3. g = Store(h, Plus(x.ptr, 1), <<m>>)
  BY <1>1 DEF Counted
<1> QED BY <1>1, <1>2, <1>3, Resizing

\* A push into a free place.
LEMMA PlacedSafe ==
    ASSUME NEW h, Sound(h), h.died = "no", NEW x, x.kind = "vector", FlatLies(h, x),
           Size(h, x.ptr) < Room(h, x.ptr), NEW w
    PROVE  Changes(h, Placed(h, x.ptr, w), x, Append(Value(h, x), w))
<1>0. Size(h, x.ptr) \in Nat /\ Room(h, x.ptr) \in Nat
  BY DEF FlatLies
<1>1. PICK i : i = Size(h, x.ptr)
  OBVIOUS
<1>2. PICK s : s = Store(h, Cell(Data(h, x.ptr), i), Repeat(w, ElemSize))
  OBVIOUS
<1>3. /\ FlatChanges(h, s, x) /\ s.died = "no"
      /\ Size(s, x.ptr) = Size(h, x.ptr) /\ Room(s, x.ptr) = Room(h, x.ptr)
      /\ Nth(s, x, i) = w
      /\ \A j \in 0 .. Room(h, x.ptr) - 1 : j # i => Nth(s, x, j) = Nth(h, x, j)
  BY <1>0, <1>1, <1>2, ElementWritten
<1>4. PICK g : g = Counted(s, x.ptr, 1)
  OBVIOUS
<1>5. FlatChanges(s, g, x) /\ g.died = "no" /\ Size(g, x.ptr) = Size(s, x.ptr) + 1 /\ NthsKept(s, g, x)
  <2>1. Sound(s) /\ FlatLies(s, x)
    BY <1>3 DEF FlatChanges, Safe
  <2>2. 1 \in Nat /\ Size(s, x.ptr) + 1 <= Room(s, x.ptr)
    BY <1>0, <1>3
  <2> QED BY <1>3, <1>4, <2>1, <2>2, CountedSafe
<1>6. FlatChanges(h, g, x)
  BY <1>3, <1>5, ChangesOnward
<1>7. PICK v, z : v = Value(h, x) /\ z = Append(v, w)
  OBVIOUS
<1>8. IsSequence(v) /\ Len(v) = i /\ \A j \in 0 .. i - 1 : Nth(h, x, j) = v[j + 1]
  BY <1>1, <1>7, ValueIs DEF FlatKinds
<1>9. IsSequence(z) /\ Len(z) = i + 1 /\ z[i + 1] = w /\ \A k \in 1 .. i : z[k] = v[k]
  BY <1>7, <1>8, Appending
<1>10. ASSUME NEW j \in 0 .. Len(z) - 1 PROVE Nth(g, x, j) = z[j + 1]
  <2>1. j \in 0 .. Room(h, x.ptr) - 1 /\ j \in 0 .. Room(s, x.ptr) - 1
        /\ (j # i => j \in 0 .. i - 1 /\ j + 1 \in 1 .. i)
    BY <1>0, <1>1, <1>3, <1>9
  <2>2. Nth(g, x, j) = Nth(s, x, j)
    BY <1>5, <2>1 DEF NthsKept
  <2>3. CASE j = i
    BY <1>3, <1>9, <2>2, <2>3
  <2>4. CASE j # i
    BY <1>3, <1>8, <1>9, <2>1, <2>2, <2>4
  <2> QED BY <2>3, <2>4
<1>11. Value(g, x) = z
  <2>1. Size(g, x.ptr) = Len(z)
    BY <1>1, <1>3, <1>5, <1>9
  <2> QED BY <1>9, <1>10, <2>1, VectorIs
<1> QED BY <1>1, <1>2, <1>4, <1>6, <1>7, <1>11 DEF Placed, Changes

\* A vector's size never exceeds its capacity.
LEMMA VectorRoom ==
    ASSUME NEW h, NEW x, x.kind = "vector", FlatLies(h, x)
    PROVE  /\ Size(h, x.ptr) \in Nat /\ Room(h, x.ptr) \in Nat /\ Size(h, x.ptr) <= Room(h, x.ptr)
           /\ Room(h, x.ptr) <= SizeMax /\ x.kind \in FlatKinds
<1>1. /\ Size(h, x.ptr) \in Nat /\ Room(h, x.ptr) \in Nat /\ Size(h, x.ptr) <= Room(h, x.ptr)
      /\ FlatSize(h, x) <= SizeMax /\ FlatSize(h, x) = Room(h, x.ptr) * ElemSize
  BY DEF FlatLies, FlatSize
<1>2. Room(h, x.ptr) <= Room(h, x.ptr) * ElemSize /\ Room(h, x.ptr) * ElemSize \in Nat
  BY <1>1, Products, LayoutAssumption
<1> QED BY <1>1, <1>2, SizesAssumption DEF FlatKinds

\* A vector with the same size and elements.
LEMMA SameElements ==
    ASSUME NEW h, Sound(h), NEW x, x.kind = "vector", FlatLies(h, x), NEW g,
           Size(g, x.ptr) = Size(h, x.ptr), NthsKept(h, g, x)
    PROVE  Value(g, x) = Value(h, x)
<1>1. PICK s, n : s = Value(h, x) /\ n = Size(h, x.ptr)
  OBVIOUS
<1>2. IsSequence(s) /\ Len(s) = n /\ \A j \in 0 .. n - 1 : Nth(h, x, j) = s[j + 1]
  BY <1>1, ValueIs DEF FlatKinds
<1>3. n \in Nat /\ Room(h, x.ptr) \in Nat /\ n <= Room(h, x.ptr)
  BY <1>1 DEF FlatLies
<1>4. \A j \in 0 .. n - 1 : Nth(g, x, j) = s[j + 1]
  <2>1. \A j \in 0 .. n - 1 : j \in 0 .. Room(h, x.ptr) - 1
    BY <1>3
  <2> QED BY <1>2, <2>1 DEF NthsKept
<1>5. Value(g, x) = s
  BY <1>1, <1>2, <1>4, VectorIs
<1> QED BY <1>1, <1>5

\* One change after another that has kept the value.
LEMMA ChangesThen ==
    ASSUME NEW h, NEW t, NEW g, NEW x, FlatChanges(h, t, x), NEW s, Changes(t, g, x, s)
    PROVE  Changes(h, g, x, s)
<1>1. FlatChanges(h, g, x)
  BY ChangesOnward DEF Changes
<1>2. g.died = "no" => t.died = "no"
  BY DEF Changes, FlatChanges, Safe
<1> QED BY <1>1, <1>2 DEF Changes

\* A push, into a free place or after growing, adds one element at the end.
LEMMA VectorPushSafe ==
    ASSUME NEW h, Sound(h), h.died = "no", NEW x, x.kind = "vector", FlatLies(h, x), NEW w
    PROVE  Changes(h, VectorPush(h, x.ptr, w), x, Append(Value(h, x), w))
<1>1. /\ Size(h, x.ptr) \in Nat /\ Room(h, x.ptr) \in Nat /\ Size(h, x.ptr) <= Room(h, x.ptr)
      /\ Room(h, x.ptr) <= SizeMax
  BY VectorRoom
<1>2. CASE Size(h, x.ptr) = Room(h, x.ptr)
  <2>1. PICK c : c = NextCapacity(Room(h, x.ptr))
    OBVIOUS
  <2>2. c \in Nat /\ Room(h, x.ptr) < c
    BY <1>1, <2>1, NextLarger
  <2>3. PICK t : t = Resized(h, x.ptr, c)
    OBVIOUS
  <2>4. /\ FlatChanges(h, t, x)
        /\ t.died = "no" =>
             Room(t, x.ptr) = c /\ Size(t, x.ptr) = Size(h, x.ptr) /\ c <= SizeMax /\ NthsKept(h, t, x)
    BY <2>2, <2>3, VectorResized
  <2>5. VectorPush(h, x.ptr, w) = Placed(t, x.ptr, w)
    BY <1>2, <2>1, <2>3 DEF VectorPush, VectorFull, NextCapacity
  <2>6. CASE t.died # "no"
    <3>1. Placed(t, x.ptr, w) = t
      BY <2>6 DEF Placed
    <3> QED BY <2>4, <2>5, <2>6, <3>1 DEF Changes
  <2>7. CASE t.died = "no"
    <3>1. Sound(t) /\ FlatLies(t, x) /\ Size(t, x.ptr) < Room(t, x.ptr)
      BY <1>2, <2>2, <2>4, <2>7 DEF FlatChanges, Safe
    <3>2. Changes(t, Placed(t, x.ptr, w), x, Append(Value(t, x), w))
      BY <2>7, <3>1, PlacedSafe
    <3>3. Value(t, x) = Value(h, x)
      BY <2>4, <2>7, SameElements
    <3> QED BY <2>4, <2>5, <3>2, <3>3, ChangesThen
  <2> QED BY <2>6, <2>7
<1>3. CASE Size(h, x.ptr) # Room(h, x.ptr)
  <2>1. VectorPush(h, x.ptr, w) = Placed(h, x.ptr, w)
    BY <1>3 DEF VectorPush, VectorFull
  <2>2. Size(h, x.ptr) < Room(h, x.ptr)
    BY <1>1, <1>3
  <2> QED BY <2>1, <2>2, PlacedSafe
<1> QED BY <1>2, <1>3

\* Nothing joined to a sequence leaves it.
LEMMA JoinedNone ==
    ASSUME NEW s, NEW t, IsSequence(s), IsSequence(t), Len(t) = 0
    PROVE  s \o t = s
<1>1. PICK z, n : z = s \o t /\ n = Len(s)
  OBVIOUS
<1>2. n \in Nat
  BY <1>1, SeqFacts
<1>3. /\ IsSequence(z) /\ Len(z) = n + 0
      /\ \A i \in 1 .. n + 0 : z[i] = IF i <= n THEN s[i] ELSE t[i - n]
  BY <1>1, Joining
<1>4. Len(z) = n /\ \A i \in 1 .. Len(z) : z[i] = s[i]
  BY <1>2, <1>3
<1>5. z = s
  BY <1>1, <1>3, <1>4, SameSeq
<1> QED BY <1>1, <1>5

\* The elements of y are copied after those of x, for which there is room.
LEMMA JoinedSafe ==
    ASSUME NEW h, Sound(h), h.died = "no", NEW x, x.kind = "vector", FlatLies(h, x),
           NEW y, y.kind = "vector", FlatLies(h, y), NEW n, n = Size(h, y.ptr), n # 0,
           Size(h, x.ptr) + n <= Room(h, x.ptr)
    PROVE  Changes(h, Joined(h, x.ptr, y.ptr, n), x, Value(h, x) \o Value(h, y))
<1>1. /\ Size(h, x.ptr) \in Nat /\ Room(h, x.ptr) \in Nat /\ x.kind \in FlatKinds
      /\ n \in Nat /\ Room(h, y.ptr) \in Nat /\ n <= Room(h, y.ptr) /\ ElemSize \in Nat \ {0}
  BY VectorRoom, LayoutAssumption
<1>2. PICK i, k, m : i = Size(h, x.ptr) /\ k = n * ElemSize /\ m = Room(h, y.ptr) * ElemSize
  OBVIOUS
<1>3. i \in Nat /\ k \in Nat /\ k # 0 /\ m \in Nat /\ k <= m
  <2>1. n * ElemSize \in Nat /\ n <= n * ElemSize /\ Room(h, y.ptr) * ElemSize \in Nat
        /\ n * ElemSize <= Room(h, y.ptr) * ElemSize
    BY <1>1, Products
  <2> QED BY <1>1, <1>2, <2>1
<1>4. PICK from, v : from = Data(h, y.ptr) /\ v = Words(h, from, k)
  OBVIOUS
<1>5. Readable(h, from, m) /\ from \in Address /\ m # 0 /\ Span(from, m) \subseteq Used(h)
  <2>1. FlatSize(h, y) = m /\ FlatSize(h, y) # 0
    BY <1>2, <1>3 DEF FlatSize
  <2>2. Readable(h, from, m)
    BY <1>4, <2>1, DataReadable DEF FlatKinds
  <2> QED BY <2>2 DEF Readable
<1>6. IsSequence(v) /\ Len(v) = k /\ Inside(h, from, k)
  BY <1>3, <1>4, <1>5, WordsRead
<1>7. \A a \in 0 .. k - 1 : v[a + 1] = Word(h, Plus(from, a))
  BY <1>3, <1>4, <1>5, WordsAre
<1>8. PICK b : b = Copy(h, from, Cell(Data(h, x.ptr), i), k)
  OBVIOUS
<1>9. b = Store(h, Cell(Data(h, x.ptr), i), v)
  BY <1>4, <1>6, <1>8 DEF Copy
<1>10. MayFill(h, x, i, n, v)
  BY <1>1, <1>2, <1>6 DEF MayFill
<1>11. Fills(h, b, x, i, n, v)
  BY <1>9, <1>10, CellsPut
<1>12. /\ FlatChanges(h, b, x) /\ b.died = "no" /\ Sound(b) /\ FlatLies(b, x)
       /\ Size(b, x.ptr) = i /\ Room(b, x.ptr) = Room(h, x.ptr)
       /\ \A j \in 0 .. Room(h, x.ptr) - 1 : ~ (i <= j /\ j < i + n) => Nth(b, x, j) = Nth(h, x, j)
       /\ \A j \in 0 .. n - 1 : \A t \in 0 .. ElemSize - 1 :
            Word(b, Plus(Data(b, x.ptr), (i + j) * ElemSize + t)) = v[j * ElemSize + t + 1]
  BY <1>2, <1>11 DEF Fills, FlatChanges, Safe
<1>13. ASSUME NEW j \in 0 .. n - 1 PROVE Nth(b, x, i + j) = Nth(h, y, j)
  <2>1. PICK a : a = i + j
    OBVIOUS
  <2>2. a \in Nat /\ a < Room(b, x.ptr) /\ j \in Nat /\ j < Room(h, y.ptr)
    BY <1>1, <1>2, <1>3, <1>12, <2>1
  <2>3. HasCell(b, x, a) /\ HasCell(h, y, j)
    BY <1>12, <2>2 DEF HasCell
  <2>4. ASSUME NEW t \in 0 .. ElemSize - 1
        PROVE  Word(b, Plus(Data(b, x.ptr), a * ElemSize + t)) = Word(h, Plus(Data(h, y.ptr), j * ElemSize + t))
    <3>1. PICK c : c = j * ElemSize + t
      OBVIOUS
    <3>2. c \in 0 .. k - 1
      <4>1. AmongCells(j, 0, n, t)
        BY <1>1, <2>2, CellApart
      <4>2. /\ c \in Nat /\ 0 * ElemSize <= c /\ c < 0 * ElemSize + n * ElemSize <=> 0 <= j /\ j < 0 + n
        BY <3>1, <4>1 DEF AmongCells
      <4>3. 0 * ElemSize = 0 /\ 0 <= j /\ j < 0 + n
        BY <1>1
      <4> QED BY <1>2, <1>3, <4>2, <4>3
    <3>3. Word(b, Plus(Data(b, x.ptr), a * ElemSize + t)) = v[c + 1]
      BY <1>12, <2>1, <3>1
    <3> QED BY <1>4, <1>7, <3>1, <3>2, <3>3
  <2>5. SameCell(h, y, j, b, x, a)
    BY <2>4 DEF SameCell
  <2> QED BY <2>1, <2>3, <2>5, NthSame
<1>14. PICK g : g = Counted(b, x.ptr, n)
  OBVIOUS
<1>15. /\ FlatChanges(b, g, x) /\ Size(g, x.ptr) = i + n /\ NthsKept(b, g, x)
  <2>1. n \in Nat /\ Size(b, x.ptr) + n <= Room(b, x.ptr)
    BY <1>1, <1>2, <1>12
  <2> QED BY <1>12, <1>14, <2>1, CountedSafe
<1>16. FlatChanges(h, g, x)
  BY <1>12, <1>15, ChangesOnward
<1>17. PICK s, w, z : s = Value(h, x) /\ w = Value(h, y) /\ z = s \o w
  OBVIOUS
<1>18. /\ IsSequence(s) /\ Len(s) = i /\ \A j \in 0 .. i - 1 : Nth(h, x, j) = s[j + 1]
       /\ IsSequence(w) /\ Len(w) = n /\ \A j \in 0 .. n - 1 : Nth(h, y, j) = w[j + 1]
  BY <1>2, <1>17, ValueIs DEF FlatKinds
<1>19. /\ IsSequence(z) /\ Len(z) = i + n
       /\ \A a \in 1 .. i + n : z[a] = IF a <= i THEN s[a] ELSE w[a - i]
  <2>1. IsSequence(s) /\ IsSequence(w) /\ Len(s) = i /\ Len(w) = n
    BY <1>18
  <2>2. /\ IsSequence(s \o w) /\ Len(s \o w) = i + n
        /\ \A a \in 1 .. i + n : (s \o w)[a] = IF a <= i THEN s[a] ELSE w[a - i]
    BY <2>1, Joining
  <2> QED BY <1>17, <2>2
<1>20. ASSUME NEW a \in 0 .. Len(z) - 1 PROVE Nth(g, x, a) = z[a + 1]
  <2>1. a \in Nat /\ a < i + n /\ a \in 0 .. Room(b, x.ptr) - 1 /\ a \in 0 .. Room(h, x.ptr) - 1
        /\ a + 1 \in 1 .. i + n
    <3>1. Room(b, x.ptr) = Room(h, x.ptr) /\ i + n <= Room(h, x.ptr) /\ Len(z) = i + n
      BY <1>2, <1>12, <1>19
    <3>2. PICK c \in Nat, l \in Nat : c = Room(h, x.ptr) /\ l = i + n /\ l <= c /\ a \in 0 .. l - 1
      BY <1>1, <1>3, <3>1
    <3>3. a \in Nat /\ a < l /\ a \in 0 .. c - 1 /\ a + 1 \in 1 .. l
      BY <3>2
    <3> QED BY <3>1, <3>2, <3>3
  <2>2. Nth(g, x, a) = Nth(b, x, a)
    BY <1>15, <2>1 DEF NthsKept
  <2>3. CASE a < i
    <3>1. ~ (i <= a /\ a < i + n) /\ a \in 0 .. i - 1 /\ a + 1 <= i
      BY <1>3, <2>1, <2>3
    <3> QED BY <1>12, <1>18, <1>19, <2>1, <2>2, <3>1
  <2>4. CASE ~ (a < i)
    <3>1. PICK j : j = a - i
      OBVIOUS
    <3>2. j \in 0 .. n - 1 /\ i + j = a /\ ~ (a + 1 <= i) /\ (a + 1) - i = j + 1
      BY <1>1, <1>3, <2>1, <2>4, <3>1
    <3>3. Nth(b, x, a) = Nth(h, y, j)
      BY <1>13, <3>2
    <3> QED BY <1>18, <1>19, <2>1, <2>2, <3>2, <3>3
  <2> QED BY <2>3, <2>4
<1>21. Value(g, x) = z
  <2>1. Size(g, x.ptr) = Len(z)
    BY <1>15, <1>19
  <2> QED BY <1>19, <1>20, <2>1, VectorIs
<1>22. g = Joined(h, x.ptr, y.ptr, n)
  BY <1>2, <1>4, <1>8, <1>14 DEF Joined
<1> QED BY <1>16, <1>17, <1>21, <1>22 DEF Changes

\* A vector is extended by the elements of another, or of itself.
LEMMA VectorExtendSafe ==
    ASSUME NEW h, Sound(h), h.died = "no", NEW x, x.kind = "vector", FlatLies(h, x),
           NEW y, y.kind = "vector", FlatLies(h, y),
           y = x \/ FlatFoot(h, y) \cap FlatFoot(h, x) = {}
    PROVE  Changes(h, VectorExtend(h, x.ptr, y.ptr), x, Value(h, x) \o Value(h, y))
<1>1. /\ Size(h, x.ptr) \in Nat /\ Room(h, x.ptr) \in Nat /\ Room(h, x.ptr) <= SizeMax
      /\ Size(h, y.ptr) \in Nat /\ SizeMax \in Nat /\ TooBig = SizeMax + 1
      /\ Size(h, x.ptr) <= Room(h, x.ptr)
  BY VectorRoom, SizesAssumption DEF TooBig
<1>2. PICK m, n, z : /\ m = Size(h, y.ptr) /\ n = SizeAdd(Size(h, x.ptr), m)
                     /\ z = Value(h, x) \o Value(h, y)
  OBVIOUS
<1>3. n \in Nat /\ n <= TooBig /\ (n <= SizeMax => n = Size(h, x.ptr) + m) /\ m \in Nat
  BY <1>1, <1>2, SizeAdded
<1>4. CASE m = 0
  <2>1. VectorExtend(h, x.ptr, y.ptr) = h
    BY <1>2, <1>4 DEF VectorExtend
  <2>2. IsSequence(Value(h, x)) /\ IsSequence(Value(h, y)) /\ Len(Value(h, y)) = 0
    BY <1>2, <1>4, ValueIs DEF FlatKinds
  <2>3. z = Value(h, x)
    BY <1>2, <2>2, JoinedNone
  <2> QED BY <1>2, <2>1, <2>3, NotChanged DEF Changes
<1>5. CASE m # 0 /\ n <= Room(h, x.ptr)
  <2>0. ~ (n > Room(h, x.ptr))
    BY <1>1, <1>3, <1>5
  <2>1. VectorExtend(h, x.ptr, y.ptr) = Joined(h, x.ptr, y.ptr, m)
    BY <1>2, <1>5, <2>0 DEF VectorExtend
  <2>2. Size(h, x.ptr) + m <= Room(h, x.ptr)
    BY <1>1, <1>3, <1>5
  <2> QED BY <1>2, <1>5, <2>1, <2>2, JoinedSafe
<1>6. CASE m # 0 /\ n > Room(h, x.ptr)
  <2>1. PICK c : c = Grown(Room(h, x.ptr), n)
    OBVIOUS
  <2>2. c \in Nat /\ c >= n /\ Room(h, x.ptr) < c
    <3>1. Room(h, x.ptr) <= TooBig
      BY <1>1
    <3>2. c \in Nat /\ c >= n
      BY <1>1, <1>3, <2>1, <3>1, GrownEnough
    <3> QED BY <1>1, <1>3, <1>6, <3>2
  <2>3. PICK t : t = Resized(h, x.ptr, c)
    OBVIOUS
  <2>4. /\ FlatChanges(h, t, x)
        /\ t.died = "no" =>
             Room(t, x.ptr) = c /\ Size(t, x.ptr) = Size(h, x.ptr) /\ c <= SizeMax /\ NthsKept(h, t, x)
    BY <2>2, <2>3, VectorResized
  <2>5. VectorExtend(h, x.ptr, y.ptr) = Joined(t, x.ptr, y.ptr, m)
    BY <1>2, <1>6, <2>1, <2>3 DEF VectorExtend
  <2>6. CASE t.died # "no"
    <3>1. Joined(t, x.ptr, y.ptr, m) = t
      BY <2>6 DEF Joined
    <3> QED BY <2>4, <2>5, <2>6, <3>1 DEF Changes
  <2>7. CASE t.died = "no"
    <3>1. Sound(t) /\ FlatLies(t, x) /\ Extends(h, t, FlatFoot(h, x))
      BY <2>4, <2>7 DEF FlatChanges, Safe
    <3>2. Value(t, x) = Value(h, x)
      BY <2>4, <2>7, SameElements
    <3>3. FlatLies(t, y) /\ Size(t, y.ptr) = m /\ Value(t, y) = Value(h, y)
      <4>1. CASE y = x
        BY <1>2, <2>4, <2>7, <3>1, <3>2, <4>1
      <4>2. CASE FlatFoot(h, y) \cap FlatFoot(h, x) = {}
        <5>1. HeadSize(y) = 4 /\ y.kind \in FlatKinds /\ Span(y.ptr, HeadSize(y)) \cap FlatFoot(h, x) = {}
          BY <4>2 DEF HeadSize, FlatKinds, FlatFoot
        <5>2. FlatLies(t, y) /\ Size(t, y.ptr) = m
          BY <1>2, <3>1, <5>1, FlatKept
        <5>3. Value(t, y) = Value(h, y)
          BY <3>1, <4>2, <5>1, ValueKept
        <5> QED BY <5>2, <5>3
      <4> QED BY <4>1, <4>2
    <3>4. Size(t, x.ptr) + m <= Room(t, x.ptr)
      BY <1>1, <1>3, <2>2, <2>4, <2>7
    <3>5. Changes(t, Joined(t, x.ptr, y.ptr, m), x, Value(t, x) \o Value(t, y))
      BY <1>6, <2>7, <3>1, <3>3, <3>4, JoinedSafe
    <3> QED BY <2>4, <2>5, <3>2, <3>3, <3>5, ChangesThen
  <2> QED BY <2>6, <2>7
<1> QED BY <1>1, <1>3, <1>4, <1>5, <1>6

\* The data of a buffer is at a.ptr, and its head and the new characters are written.
LEMMA AppendedSafe ==
    ASSUME NEW h, NEW x, x.kind = "buffer", FlatLies(h, x), Sound(h), h.died = "no",
           NEW a, Sound(a), a.died = "no", Extends(h, a, {}),
           NEW d \in Address, d = a.ptr, Aligned(d[2]),
           NEW c \in Nat, c # 0, c <= SizeMax, Span(d, c) \subseteq Of(a, x.region),
           Span(x.ptr, 3) \cap Span(d, c) = {},
           Span(d, c) \cap Used(h) \subseteq FlatFoot(h, x),
           NEW s, IsSequence(s), NEW n, n = Size(h, x.ptr), n + Len(s) + 1 <= c,
           \A i \in 0 .. n - 1 : Word(a, Plus(d, i)) = Word(h, Plus(Data(h, x.ptr), i))
    PROVE  Changes(h, Appended(a, x.ptr, n, c, s), x, Value(h, x) \o s)
<1>0. PICK p, l, m : p = x.ptr /\ l = Len(s) /\ m = SizeAdd(n, l)
  OBVIOUS
<1>1. /\ n \in Nat /\ l \in Nat /\ m \in Nat /\ m = n + l /\ m + 1 <= c
  <2>1. n \in Nat /\ l \in Nat /\ n + l + 1 <= c
    BY <1>0, SeqFacts DEF FlatLies
  <2>2. m \in Nat /\ m = n + l
    <3>1. n + l <= SizeMax
      BY <2>1, SizesAssumption
    <3> QED BY <1>0, <2>1, <3>1, SizeAdded
  <2> QED BY <2>1, <2>2
<1>2. PICK head, data : head = <<d, m, c>> /\ data = s \o <<Nul>>
  OBVIOUS
<1>3. /\ IsSequence(head) /\ Len(head) = 3 /\ head[1] = d /\ head[2] = m /\ head[3] = c
  BY <1>2, Listed
<1>4. IsSequence(data) /\ Len(data) = l + 1
  <2>1. PICK z : z = <<Nul>>
    OBVIOUS
  <2>2. IsSequence(z) /\ Len(z) = 1
    BY <2>1, Listed
  <2>3. IsSequence(s \o z) /\ Len(s \o z) = Len(s) + Len(z)
    BY <2>2, Joining
  <2> QED BY <1>0, <1>2, <2>1, <2>2, <2>3
<1>5. /\ p \in Address /\ Aligned(p[2]) /\ Span(p, 3) \subseteq Of(h, x.region) /\ HeadSize(x) = 3
      /\ x.region \in 1 .. Len(h.regions)
  BY <1>0 DEF FlatLies, HeadSize
<1>6. /\ Span(p, 3) \subseteq Of(a, x.region) /\ Of(a, x.region) \subseteq Used(a)
      /\ Len(a.regions) = Len(h.regions) /\ Span(p, 3) \cap Span(d, c) = {}
  BY <1>0, <1>5 DEF Extends, Of
<1>7. PICK t : t = Store(a, Plus(p, 0), head)
  OBVIOUS
<1>8. Wrote(a, t, p, 3, 0, head)
  <2>1. MayWrite(a, p, 3, 0, head)
    BY <1>3, <1>5, <1>6 DEF MayWrite
  <2> QED BY <1>7, <2>1, Writing
<1>9. PICK g : g = Store(t, Plus(d, n), data)
  OBVIOUS
<1>10. /\ Sound(t) /\ t.died = "no" /\ t.regions = a.regions /\ Used(t) = Used(a)
       /\ \A r : Of(t, r) = Of(a, r)
       /\ Extends(a, t, Span(p, 3))
  BY <1>8 DEF Wrote
<1>11. Wrote(t, g, d, c, n, data)
  <2>1. Span(d, c) \subseteq Used(t) /\ n + Len(data) <= c /\ Len(data) # 0
    <3>1. Span(d, c) \subseteq Used(t)
      BY <1>6, <1>10
    <3>2. n + (l + 1) <= c /\ l + 1 # 0
      BY <1>1
    <3> QED BY <1>4, <3>1, <3>2
  <2>2. MayWrite(t, d, c, n, data)
    BY <1>1, <1>4, <1>10, <2>1 DEF MayWrite
  <2> QED BY <1>9, <2>2, Writing
<1>12. /\ Sound(g) /\ g.died = "no" /\ g.regions = t.regions /\ Used(g) = Used(t)
       /\ \A r : Of(g, r) = Of(t, r)
       /\ Extends(t, g, Span(d, c))
  BY <1>11 DEF Wrote
<1>13. /\ Word(g, Plus(p, 0)) = d /\ Word(g, Plus(p, 1)) = m /\ Word(g, Plus(p, 2)) = c
  <2>1. /\ Word(t, Plus(p, 0)) = d /\ Word(t, Plus(p, 1)) = m /\ Word(t, Plus(p, 2)) = c
    <3>1. \A i \in 0 .. 3 - 1 : Word(t, Plus(p, i)) =
             IF 0 <= i /\ i < 0 + Len(head) THEN head[i - 0 + 1] ELSE Word(a, Plus(p, i))
      BY <1>8 DEF Wrote
    <3>2. \A i \in 0 .. 2 : Word(t, Plus(p, i)) = head[i + 1]
      <4>1. \A i \in 0 .. 2 : i \in 0 .. 3 - 1 /\ 0 <= i /\ i < 0 + Len(head) /\ i - 0 + 1 = i + 1
        BY <1>3
      <4> QED BY <3>1, <4>1
    <3>3. 0 \in 0 .. 2 /\ 1 \in 0 .. 2 /\ 2 \in 0 .. 2 /\ 0 + 1 = 1 /\ 1 + 1 = 2 /\ 2 + 1 = 3
      OBVIOUS
    <3> QED BY <1>3, <3>2, <3>3
  <2>2. \A i \in 0 .. 3 - 1 : Word(g, Plus(p, i)) = Word(t, Plus(p, i))
    <3>1. Span(p, 3) \subseteq Used(t) /\ 3 \in Nat
      BY <1>6, <1>10
    <3> QED BY <1>5, <1>6, <1>12, <3>1, PieceKept
  <2> QED BY <2>1, <2>2
<1>14. Data(g, p) = d /\ Size(g, p) = m /\ Room(g, p) = c
  BY <1>5, <1>13, HeadWords
<1>15. FlatSize(g, x) = c
  <2>1. Larger(c, m + 1) = c
    BY <1>1 DEF Larger
  <2> QED BY <1>0, <1>14, <2>1 DEF FlatSize
<1>16. FlatLies(g, x)
  <2>1. /\ Span(p, 3) \subseteq Of(g, x.region) /\ Span(d, c) \subseteq Of(g, x.region)
        /\ x.region \in 1 .. Len(g.regions)
    BY <1>5, <1>6, <1>10, <1>12
  <2>2. Size(g, p) \in Nat /\ Room(g, p) \in Nat /\ Size(g, p) <= Room(g, p) /\ FlatSize(g, x) <= SizeMax
    BY <1>1, <1>14, <1>15
  <2>3. d \in Address /\ Aligned(d[2]) /\ Span(p, 3) \cap Span(d, c) = {}
    BY <1>6
  <2> QED BY <1>0, <1>5, <1>14, <1>15, <2>1, <2>2, <2>3 DEF FlatLies
<1>17. Extends(h, g, Span(p, 3) \cup Span(d, c))
  <2>1. Extends(h, t, Span(p, 3))
    BY <1>10, Onward
  <2> QED BY <1>12, <2>1, Onward
<1>18. Span(p, 3) \subseteq FlatFoot(h, x)
  BY <1>0, <1>5 DEF FlatFoot
<1>19. Extends(h, g, FlatFoot(h, x))
  <2>1. (Span(p, 3) \cup Span(d, c)) \cap Used(h) \subseteq FlatFoot(h, x)
    BY <1>18
  <2> QED BY <1>17, <2>1, Narrower
<1>20. FlatFoot(g, x) \cap Used(h) \subseteq FlatFoot(h, x)
  BY <1>0, <1>5, <1>14, <1>15, <1>18 DEF FlatFoot
<1>21. FlatChanges(h, g, x)
  BY <1>6, <1>10, <1>12, <1>16, <1>19, <1>20 DEF FlatChanges, Safe
<1>23. \A i \in 1 .. l : data[i] = s[i]
  <2>1. PICK z : z = <<Nul>>
    OBVIOUS
  <2>2. IsSequence(z) /\ Len(z) = 1
    BY <2>1, Listed
  <2>3. \A i \in 1 .. Len(s) + Len(z) : (s \o z)[i] = IF i <= Len(s) THEN s[i] ELSE z[i - Len(s)]
    BY <2>2, Joining
  <2>4. \A i \in 1 .. l : i \in 1 .. Len(s) + Len(z) /\ i <= Len(s)
    BY <1>0, <1>1, <2>2
  <2> QED BY <1>2, <2>1, <2>3, <2>4
<1>24. \A i \in 0 .. c - 1 : Word(t, Plus(d, i)) = Word(a, Plus(d, i))
  <2>1. Span(d, c) \subseteq Used(a) /\ Span(d, c) \cap Span(p, 3) = {}
    BY <1>6
  <2> QED BY <1>10, <2>1, PieceKept
<1>25. PICK v, z : v = Value(h, x) /\ z = v \o s
  OBVIOUS
<1>26. IsSequence(v) /\ Len(v) = n /\ \A i \in 0 .. n - 1 : Word(h, Plus(Data(h, x.ptr), i)) = v[i + 1]
  BY <1>25, ValueIs DEF FlatKinds
<1>27. /\ IsSequence(z) /\ Len(z) = m
       /\ \A i \in 1 .. m : z[i] = IF i <= n THEN v[i] ELSE s[i - n]
  <2>1. /\ IsSequence(v \o s) /\ Len(v \o s) = n + l
        /\ \A i \in 1 .. n + l : (v \o s)[i] = IF i <= n THEN v[i] ELSE s[i - n]
    BY <1>0, <1>26, Joining
  <2> QED BY <1>1, <1>25, <2>1
<1>28. ASSUME NEW i \in 0 .. m - 1 PROVE Word(g, Plus(d, i)) = z[i + 1]
  <2>1. i \in 0 .. c - 1 /\ i + 1 \in 1 .. m /\ i \in Nat /\ i < m
    <3>1. PICK k \in Nat : k = m /\ k + 1 <= c /\ i \in 0 .. k - 1
      BY <1>1
    <3>2. i \in Nat /\ i < k /\ i \in 0 .. c - 1 /\ i + 1 \in 1 .. k
      BY <3>1
    <3> QED BY <3>1, <3>2
  <2>2. Word(g, Plus(d, i)) = IF n <= i /\ i < n + Len(data) THEN data[i - n + 1] ELSE Word(t, Plus(d, i))
    BY <1>11, <2>1 DEF Wrote
  <2>3. CASE i < n
    <3>1. ~ (n <= i /\ i < n + Len(data)) /\ i \in 0 .. n - 1 /\ i + 1 <= n
      <4>1. PICK k \in Nat, j \in Nat : k = n /\ j = i /\ j < k
        BY <1>1, <2>1, <2>3
      <4>2. ~ (k <= j) /\ j \in 0 .. k - 1 /\ j + 1 <= k
        BY ONLY <4>1, k \in Nat, j \in Nat
      <4> QED BY <4>1, <4>2
    <3> QED BY <1>24, <1>26, <1>27, <2>1, <2>2, <3>1
  <2>4. CASE ~ (i < n)
    <3>1. n <= i /\ i < n + Len(data) /\ ~ (i + 1 <= n) /\ i - n + 1 \in 1 .. l /\ (i + 1) - n = i - n + 1
      <4>1. PICK k \in Nat, b \in Nat, j \in Nat : k = n /\ b = l /\ j = i /\ j < k + b /\ k <= j
        BY <1>1, <2>1, <2>4
      <4>3. k <= j /\ j < k + (b + 1) /\ ~ (j + 1 <= k) /\ j - k + 1 \in 1 .. b /\ (j + 1) - k = j - k + 1
        BY ONLY <4>1, k \in Nat, b \in Nat, j \in Nat
      <4>2. k <= i /\ i < k + (l + 1) /\ ~ (i + 1 <= k) /\ i - k + 1 \in 1 .. l /\ (i + 1) - k = i - k + 1
        BY <4>1, <4>3
      <4> QED BY <1>4, <4>1, <4>2
    <3> QED BY <1>23, <1>27, <2>1, <2>2, <3>1
  <2> QED BY <2>3, <2>4
<1>29. Value(g, x) = z
  <2>1. /\ x.kind \in FlatKinds /\ x.kind # "vector" /\ FlatLies(g, x) /\ Sound(g)
        /\ Size(g, x.ptr) = Len(z) /\ Data(g, x.ptr) = d
    BY <1>0, <1>12, <1>14, <1>16, <1>27 DEF FlatKinds
  <2>2. \A i \in 0 .. Len(z) - 1 : Word(g, Plus(Data(g, x.ptr), i)) = z[i + 1]
    BY <1>27, <1>28, <2>1
  <2> QED BY <1>27, <2>1, <2>2, TextIs
<1>22. g = Appended(a, p, n, c, s)
  <2>1. Plus(p, 0) = p
    BY <1>5, PlusAt
  <2> QED BY <1>0, <1>2, <1>7, <1>9, <2>1 DEF Appended
<1> QED BY <1>0, <1>21, <1>22, <1>25, <1>29 DEF Changes

\* An append to a character buffer, in place or after growing, adds the text at the end.
LEMMA BufferAppendSafe ==
    ASSUME NEW h, Sound(h), h.died = "no", NEW x, x.kind = "buffer", FlatLies(h, x),
           NEW s, IsSequence(s)
    PROVE  Changes(h, BufferAppend(h, x.region, x.ptr, s), x, Value(h, x) \o s)
<1>0. PICK p, r, n, c, d, l, m : /\ p = x.ptr /\ r = x.region /\ n = Size(h, p) /\ c = Room(h, p)
                                 /\ d = Data(h, p) /\ l = Len(s) /\ m = FlatSize(h, x)
  OBVIOUS
<1>1. /\ n \in Nat /\ c \in Nat /\ l \in Nat /\ m \in Nat /\ m # 0 /\ c <= m /\ n + 1 <= m
      /\ n <= c /\ m <= SizeMax /\ (n + 1 <= c => m = c) /\ HeadSize(x) = 3
  <2>1. n \in Nat /\ c \in Nat /\ l \in Nat /\ n <= c /\ m = Larger(c, n + 1) /\ m <= SizeMax
    BY <1>0, SeqFacts DEF FlatLies, FlatSize
  <2>2. m \in Nat /\ m # 0 /\ c <= m /\ n + 1 <= m /\ (n + 1 <= c => m = c)
    BY <2>1 DEF Larger
  <2> QED BY <2>1, <2>2 DEF HeadSize
<1>2. /\ d \in Address /\ Aligned(d[2]) /\ Span(d, m) \subseteq Of(h, r)
      /\ Span(p, 3) \cap Span(d, m) = {} /\ r \in 1 .. Len(h.regions)
      /\ Span(d, m) \subseteq FlatFoot(h, x)
  BY <1>0, <1>1 DEF FlatLies, FlatFoot
<1>3. PICK needed, capacity : needed = Needed(n, l) /\ capacity = Grown(c, needed)
  OBVIOUS
<1>4. /\ needed \in Nat /\ needed <= TooBig /\ (needed <= SizeMax => needed = n + l + 1)
  <2>1. PICK k : k = SizeAdd(n, l)
    OBVIOUS
  <2>2. k \in Nat /\ (k = n + l \/ k > SizeMax)
    BY <1>1, <2>1, SizeAdded
  <2>3. needed = SizeAdd(k, 1)
    BY <1>3, <2>1 DEF Needed
  <2>4. needed \in Nat /\ needed <= TooBig /\ (needed <= SizeMax => needed = k + 1)
    BY <2>2, <2>3, SizeAdded
  <2> QED BY <2>2, <2>4, <1>1, SizesAssumption
<1>5. /\ capacity \in Nat /\ capacity >= needed /\ (c >= needed => capacity = c)
  <2>1. c <= TooBig
    BY <1>1, SizesAssumption DEF TooBig
  <2> QED BY <1>1, <1>3, <1>4, <2>1, GrownEnough
<1>6. CASE needed > c
  <2>1. PICK a : a = RegionRealloc(h, r, d, c, capacity)
    OBVIOUS
  <2>2. /\ Safe(h, a) /\ Sound(a) /\ Len(a.regions) = Len(h.regions)
        /\ a.died = "no" => Allocates(h, a, r, capacity)
        /\ a.died = "no" => \A i \in 0 .. c - 1 : Word(a, Plus(a.ptr, i)) = Word(h, Plus(d, i))
    <3>1. c < capacity
      BY <1>1, <1>4, <1>5, <1>6
    <3>2. Span(d, m) \subseteq Used(h)
      BY <1>2 DEF Of
    <3>3. MayMove(h, r, d, m, c, capacity)
      BY <1>1, <1>2, <1>5, <3>1, <3>2 DEF MayMove
    <3>4. /\ Safe(h, a)
          /\ a.died = "no" => Allocates(h, a, r, capacity)
          /\ a.died = "no" /\ d # Null => \A i \in 0 .. c - 1 : Word(a, Plus(a.ptr, i)) = Word(h, Plus(d, i))
      BY <2>1, <3>3, Moving
    <3>5. d # Null
      BY <1>2, NullAssumption DEF Address
    <3> QED BY <3>4, <3>5 DEF Safe
  <2>3. PICK g : g = Appended(a, p, n, capacity, s)
    OBVIOUS
  <2>4. g = BufferAppend(h, r, p, s)
    <3>1. r # Arena
      BY <1>2 DEF Arena
    <3> QED BY <1>0, <1>3, <1>6, <2>1, <2>3, <3>1 DEF BufferAppend, Realloc
  <2>5. CASE a.died # "no"
    <3>1. g = a
      BY <2>3, <2>5, Buried DEF Appended
    <3>2. FlatChanges(h, g, x)
      BY <2>2, <2>5, <3>1 DEF FlatChanges, Safe
    <3> QED BY <1>0, <2>4, <2>5, <3>1, <3>2 DEF Changes
  <2>6. CASE a.died = "no"
    <3>1. Allocates(h, a, r, capacity)
      BY <2>2, <2>6
    <3>2. capacity <= SizeMax /\ capacity # 0 /\ n + l + 1 <= capacity
      <4>1. capacity <= SizeMax
        BY <3>1 DEF Allocates
      <4>2. needed <= SizeMax
        BY <1>4, <1>5, <4>1, SizesAssumption
      <4> QED BY <1>1, <1>4, <1>5, <4>1, <4>2
    <3>3. PICK e : e = a.ptr
      OBVIOUS
    <3>4. /\ Extends(h, a, {}) /\ e \in Address /\ Aligned(e[2])
          /\ Span(e, capacity) \subseteq Of(a, r) /\ Span(e, capacity) \cap Used(h) = {}
      BY <3>1, <3>2, <3>3 DEF Allocates
    <3>5. Span(p, 3) \subseteq Used(h)
      BY <1>0, <1>1 DEF FlatLies, Of
    <3>6. Span(p, 3) \cap Span(e, capacity) = {} /\ Span(e, capacity) \cap Used(h) \subseteq FlatFoot(h, x)
      BY <3>4, <3>5
    <3>7. \A i \in 0 .. n - 1 : Word(a, Plus(e, i)) = Word(h, Plus(Data(h, x.ptr), i))
      <4>1. \A i \in 0 .. n - 1 : i \in 0 .. c - 1
        BY <1>1
      <4> QED BY <1>0, <2>2, <2>6, <3>3, <4>1
    <3>8. /\ Span(e, capacity) \subseteq Of(a, x.region) /\ Span(x.ptr, 3) \cap Span(e, capacity) = {}
          /\ n = Size(h, x.ptr) /\ n + Len(s) + 1 <= capacity
      BY <1>0, <3>2, <3>4, <3>6
    <3>9. Changes(h, Appended(a, x.ptr, n, capacity, s), x, Value(h, x) \o s)
      BY <1>5, <2>2, <2>6, <3>2, <3>3, <3>4, <3>6, <3>7, <3>8, AppendedSafe
    <3> QED BY <1>0, <2>3, <2>4, <3>9
  <2> QED BY <2>5, <2>6
<1>7. CASE ~ (needed > c)
  <2>0. capacity = c /\ n + l + 1 <= c /\ m = c
    <3>1. c >= needed /\ needed <= SizeMax
      BY <1>1, <1>4, <1>7, SizesAssumption
    <3> QED BY <1>1, <1>4, <1>5, <3>1
  <2>1. PICK a : a = Returning(h, d)
    OBVIOUS
  <2>2. /\ Safe(h, a) /\ a.died = "no"
        /\ a.ptr = d /\ Used(a) = Used(h) /\ \A q : Of(a, q) = Of(h, q)
        /\ \A q : Word(a, q) = Word(h, q)
        /\ a.regions = h.regions
    BY <2>1, ReturnSafe
  <2>3. BufferAppend(h, r, p, s) = Appended(a, p, n, c, s)
    BY <1>0, <1>3, <1>7, <2>0, <2>1 DEF BufferAppend
  <2>4. Extends(h, a, {}) /\ Sound(a)
    BY <2>2 DEF Extends, Safe
  <2>5. /\ Span(d, c) \subseteq Of(a, x.region) /\ Span(x.ptr, 3) \cap Span(d, c) = {}
        /\ Span(d, c) \cap Used(h) \subseteq FlatFoot(h, x)
    BY <1>0, <1>2, <2>0, <2>2
  <2>6. n = Size(h, x.ptr) /\ c # 0 /\ c <= SizeMax /\ n + Len(s) + 1 <= c /\ d = a.ptr
    BY <1>0, <1>1, <2>0, <2>2
  <2>7. \A i \in 0 .. n - 1 : Word(a, Plus(d, i)) = Word(h, Plus(Data(h, x.ptr), i))
    BY <1>0, <2>2
  <2>8. Changes(h, Appended(a, x.ptr, n, c, s), x, Value(h, x) \o s)
    BY <1>1, <1>2, <2>2, <2>4, <2>5, <2>6, <2>7, AppendedSafe
  <2> QED BY <1>0, <2>3, <2>8
<1> QED BY <1>6, <1>7

\* The characters of a string can be read.
LEMMA TextRead ==
    ASSUME NEW h, Sound(h), NEW x, x.kind = "string", FlatLies(h, x)
    PROVE  /\ IsSequence(Text(h, x.ptr)) /\ Len(Text(h, x.ptr)) = Size(h, x.ptr)
           /\ Size(h, x.ptr) \in Nat /\ Home(h, x.ptr) = x.region
<1>1. PICK d, m, n : d = Data(h, x.ptr) /\ m = FlatSize(h, x) /\ n = Size(h, x.ptr)
  OBVIOUS
<1>2. n \in Nat /\ m = n + 1 /\ m \in Nat /\ m # 0 /\ n <= m
  BY <1>1 DEF FlatLies, FlatSize
<1>3. d \in Address /\ Span(d, m) \subseteq Used(h)
  BY <1>1, <1>2 DEF FlatLies, Of
<1>4. IsSequence(Words(h, d, n)) /\ Len(Words(h, d, n)) = n
  BY <1>2, <1>3, WordsRead
<1>5. Home(h, x.ptr) = x.region
  BY DEF FlatLies
<1> QED BY <1>1, <1>2, <1>4, <1>5 DEF Text

\* A concatenation is a new string of both texts.
LEMMA ConcatSafe ==
    ASSUME NEW h, Sound(h), NEW x, x.kind = "string", FlatLies(h, x),
           NEW y, y.kind = "string", FlatLies(h, y), NEW r \in 1 .. Len(h.regions),
           NEW g, g = Concat(h, r, x.ptr, y.ptr)
    PROVE  Creates(h, g, Object(g, "string", r), Value(h, x) \o Value(h, y))
<1>1. IsSequence(Text(h, x.ptr)) /\ IsSequence(Text(h, y.ptr))
  BY TextRead
<1>2. PICK s : s = Text(h, x.ptr) \o Text(h, y.ptr)
  OBVIOUS
<1>3. IsSequence(s)
  BY <1>1, <1>2, Joining
<1>4. g = StringOf(h, r, s)
  BY <1>2 DEF Concat
<1>5. Value(h, x) = Text(h, x.ptr) /\ Value(h, y) = Text(h, y.ptr)
  BY DEF Value
<1> QED BY <1>2, <1>3, <1>4, <1>5, StringCopied

\* The bounds of a legal slice.
LEMMA SliceBounds ==
    ASSUME NEW start \in Bounds, NEW stop \in Bounds, NEW n \in Nat, SliceLegal(start, stop, n)
    PROVE  /\ Lower(start) \in Nat /\ Upper(stop, n) \in Nat
           /\ Lower(start) <= Upper(stop, n) /\ Upper(stop, n) <= n
<1>1. Lower(start) \in Int /\ Upper(stop, n) \in Int
  BY ProgramsAssumption DEF Lower, Upper
<1> QED BY <1>1 DEF SliceLegal

\* What is cut out is a sequence.
LEMMA Sliced ==
    ASSUME NEW s, IsSequence(s), NEW start \in Bounds, NEW stop \in Bounds,
           SliceLegal(start, stop, Len(s))
    PROVE  IsSequence(SubSeq(s, Lower(start) + 1, Upper(stop, Len(s))))
<1>1. PICK m, n, l : m = Lower(start) + 1 /\ n = Upper(stop, Len(s)) /\ l = Len(s)
  OBVIOUS
<1>2. l \in Nat /\ SliceLegal(start, stop, l)
  BY <1>1, SeqFacts
<1>3. Lower(start) \in Nat /\ n \in Nat /\ Lower(start) <= n /\ n <= l
  BY <1>1, <1>2, SliceBounds
<1>4. m \in Nat /\ 1 <= m /\ m <= n + 1 /\ n <= Len(s)
  BY <1>1, <1>3
<1> QED BY <1>1, <1>3, <1>4, Slicing

\* A slice of a string is a new string of the part between the bounds.
LEMMA StringSliceSafe ==
    ASSUME NEW h, Sound(h), NEW x, x.kind = "string", FlatLies(h, x),
           NEW start \in Bounds, NEW stop \in Bounds, SliceLegal(start, stop, Size(h, x.ptr)),
           NEW g, g = StringSlice(h, x.ptr, start, stop)
    PROVE  Creates(h, g, Object(g, "string", x.region),
                   SubSeq(Value(h, x), Lower(start) + 1, Upper(stop, Len(Value(h, x)))))
<1>1. PICK s : s = Text(h, x.ptr)
  OBVIOUS
<1>2. IsSequence(s) /\ Len(s) = Size(h, x.ptr) /\ Home(h, x.ptr) = x.region
  BY <1>1, TextRead
<1>3. PICK t : t = SubSeq(s, Lower(start) + 1, Upper(stop, Len(s)))
  OBVIOUS
<1>4. IsSequence(t)
  BY <1>2, <1>3, Sliced
<1>5. g = StringOf(h, x.region, t)
  BY <1>1, <1>2, <1>3 DEF StringSlice
<1>6. x.region \in 1 .. Len(h.regions)
  BY DEF FlatLies
<1>7. Value(h, x) = s
  BY <1>1 DEF Value
<1> QED BY <1>3, <1>4, <1>5, <1>6, <1>7, StringCopied

\* A slice of a vector is a new vector of the elements between the bounds.
LEMMA VectorSliceSafe ==
    ASSUME NEW h, Sound(h), NEW x, x.kind = "vector", FlatLies(h, x),
           NEW start \in Bounds, NEW stop \in Bounds, SliceLegal(start, stop, Size(h, x.ptr)),
           NEW g, g = VectorSlice(h, x.ptr, start, stop)
    PROVE  Creates(h, g, Object(g, "vector", x.region),
                   SubSeq(Value(h, x), Lower(start) + 1, Upper(stop, Len(Value(h, x)))))
<1>1. PICK s, n : s = Elements(h, x.ptr) /\ n = Size(h, x.ptr)
  OBVIOUS
<1>0. n \in Nat /\ Home(h, x.ptr) = x.region /\ x.region \in 1 .. Len(h.regions)
  BY <1>1 DEF FlatLies
<1>2. IsSequence(s) /\ Len(s) = n
  <2>1. DOMAIN s = 1 .. n /\ s = [i \in 1 .. n |-> s[i]]
    BY <1>1 DEF Elements
  <2> QED BY <1>0, <2>1, MadeSeq
<1>3. PICK t : t = SubSeq(s, Lower(start) + 1, Upper(stop, Len(s)))
  OBVIOUS
<1>4. IsSequence(t)
  <2>1. SliceLegal(start, stop, Len(s))
    BY <1>1, <1>2
  <2> QED BY <1>2, <1>3, <2>1, Sliced
<1>5. g = VectorFrom(h, x.region, t)
  BY <1>0, <1>1, <1>2, <1>3 DEF VectorSlice
<1>6. Value(h, x) = s
  BY <1>1 DEF Value
<1> QED BY <1>0, <1>3, <1>4, <1>5, <1>6, VectorMade

-----------------------------------------------------------------------------
(***************************************************************************)
(* A region is made and freed.                                             *)
(***************************************************************************)
LEMMA Added ==
    ASSUME NEW s, IsSequence(s), NEW x
    PROVE  /\ IsSequence(Append(s, x)) /\ Len(Append(s, x)) = Len(s) + 1
           /\ \A i \in 1 .. Len(s) : Append(s, x)[i] = s[i]
           /\ Append(s, x)[Len(s) + 1] = x
<1>1. PICK S : S = ToSet(s) \cup {x}
  OBVIOUS
<1>2. s \in Seq(S)
  <2>1. s \in Seq(ToSet(s)) /\ ToSet(s) \subseteq S
    BY <1>1 DEF IsSequence
  <2>2. Len(s) \in Nat /\ s = [i \in 1 .. Len(s) |-> s[i]] /\ \A i \in 1 .. Len(s) : s[i] \in ToSet(s)
    BY SeqFacts
  <2>3. s \in [1 .. Len(s) -> S]
    BY <2>1, <2>2
  <2> QED BY <2>2, <2>3, SeqDef
<1>3. x \in S
  BY <1>1
<1>4. /\ Append(s, x) \in Seq(S) /\ Len(Append(s, x)) = Len(s) + 1
      /\ \A i \in 1 .. Len(s) : Append(s, x)[i] = s[i]
      /\ Append(s, x)[Len(s) + 1] = x
  BY <1>2, <1>3, AppendProperties
<1> QED BY <1>4, AnySeq

\* The smaller of two numbers.
LEMMA MinOfTwo ==
    ASSUME NEW a \in Nat, NEW b \in Nat
    PROVE  Min({a, b}) = IF a <= b THEN a ELSE b
BY DEF Min

\* What RegionCreated counts.
LEMMA RegionCounted ==
    ASSUME NEW s \in Stats, NEW t, t = RegionCreated(s)
    PROVE  /\ t \in Stats
           /\ t.created = s.created + 1 /\ t.destroyed = s.destroyed
           /\ t.alive = s.alive + 1 /\ t.peak >= t.alive
           /\ t.blocksCreated = s.blocksCreated /\ t.blocksDestroyed = s.blocksDestroyed
           /\ t.blocksAlive = s.blocksAlive
           /\ t.allocated = s.allocated /\ t.freed = s.freed
           /\ t.bytesAlive = s.bytesAlive /\ t.bytesPeak = s.bytesPeak
<1>0. s = [created |-> s.created, destroyed |-> s.destroyed, alive |-> s.alive,
           peak |-> s.peak, blocksCreated |-> s.blocksCreated,
           blocksDestroyed |-> s.blocksDestroyed, blocksAlive |-> s.blocksAlive,
           allocated |-> s.allocated, freed |-> s.freed,
           bytesAlive |-> s.bytesAlive, bytesPeak |-> s.bytesPeak]
  BY StatsTypes
<1>1. PICK p : p = Larger(s.peak, s.alive + 1)
  OBVIOUS
<1>2. p \in Nat /\ p >= s.alive + 1
  BY <1>1, StatsTypes DEF Larger
<1>3. PICK a : a = [s EXCEPT !.created = s.created + 1, !.alive = s.alive + 1]
  OBVIOUS
<1>4. a = [created |-> s.created + 1, destroyed |-> s.destroyed, alive |-> s.alive + 1,
           peak |-> s.peak, blocksCreated |-> s.blocksCreated,
           blocksDestroyed |-> s.blocksDestroyed, blocksAlive |-> s.blocksAlive,
           allocated |-> s.allocated, freed |-> s.freed,
           bytesAlive |-> s.bytesAlive, bytesPeak |-> s.bytesPeak]
  BY <1>0, <1>3
<1>5. t = [a EXCEPT !.peak = p]
  BY <1>1, <1>3, Zenon DEF RegionCreated
<1>6. t = [created |-> s.created + 1, destroyed |-> s.destroyed, alive |-> s.alive + 1,
           peak |-> p, blocksCreated |-> s.blocksCreated,
           blocksDestroyed |-> s.blocksDestroyed, blocksAlive |-> s.blocksAlive,
           allocated |-> s.allocated, freed |-> s.freed,
           bytesAlive |-> s.bytesAlive, bytesPeak |-> s.bytesPeak]
  BY <1>4, <1>5
<1>7. t \in Stats
  BY <1>2, <1>6, StatsTypes DEF Stats
<1> QED BY <1>2, <1>6, <1>7

TreeGood(t) ==
    /\ t = [entries |-> t.entries, depth |-> t.depth, truncated |-> t.truncated]
    /\ IsSequence(t.entries) /\ t.truncated \in BOOLEAN

\* What TreeEnter records.
LEMMA TreeEntered ==
    ASSUME NEW t, TreeGood(t), t.depth \in Nat, NEW u, u = TreeEnter(t)
    PROVE  /\ TreeGood(u) /\ u.depth = t.depth + 1
           /\ IF Len(t.entries) >= TreeMax THEN u.truncated = TRUE /\ Len(u.entries) = Len(t.entries)
              ELSE u.truncated = t.truncated /\ Len(u.entries) = Len(t.entries) + 1
<1>1. t = [entries |-> t.entries, depth |-> t.depth, truncated |-> t.truncated]
      /\ IsSequence(t.entries) /\ t.truncated \in BOOLEAN
  BY DEF TreeGood
<1>2. PICK e : e = Append(t.entries, t.depth)
  OBVIOUS
<1>3. IsSequence(e) /\ Len(e) = Len(t.entries) + 1
  BY <1>1, <1>2, Added
<1>4. CASE Len(t.entries) >= TreeMax
  <2>1. u = [t EXCEPT !.truncated = TRUE, !.depth = t.depth + 1]
    BY <1>4 DEF TreeEnter
  <2>2. u = [entries |-> t.entries, depth |-> t.depth + 1, truncated |-> TRUE]
    BY <1>1, <2>1
  <2> QED BY <1>1, <1>4, <2>2 DEF TreeGood
<1>5. CASE ~ (Len(t.entries) >= TreeMax)
  <2>1. u = [t EXCEPT !.entries = e, !.depth = t.depth + 1]
    BY <1>2, <1>5 DEF TreeEnter
  <2>2. u = [entries |-> e, depth |-> t.depth + 1, truncated |-> t.truncated]
    BY <1>1, <2>1
  <2> QED BY <1>1, <1>3, <1>5, <2>2 DEF TreeGood
<1> QED BY <1>4, <1>5

\* The regions that stay keep their words.
Keeps(h, g, n) ==
    /\ \A q \in 1 .. n : Of(g, q) = Of(h, q)
    /\ \A q \in 1 .. n : \A a \in Of(h, q) : Word(g, a) = Word(h, a)

\* A new region: it is counted and recorded, and the others keep their words.
LEMMA Entered1 ==
    ASSUME NEW h, Sound(h), NEW size \in Nat, NEW g, g = RegionNew(h, size)
    PROVE  /\ Sound(g) /\ Len(g.regions) = Len(h.regions) + 1 /\ g.died = h.died
           /\ Keeps(h, g, Len(h.regions))
<1>1. PICK k, bs, s, t :
        /\ bs = IF size = 0 THEN DefaultBlock ELSE size
        /\ k = Append(h.regions, [blocks |-> <<>>, blockSize |-> bs, total |-> 0])
        /\ s = RegionCreated(h.stats) /\ t = TreeEnter(h.tree)
  OBVIOUS
<1>2. /\ Shaped(g) /\ g.blocks = h.blocks /\ g.next = h.next /\ g.arena = h.arena
      /\ g.died = h.died /\ g.regions = k /\ g.stats = s /\ g.tree = t
  <2>1. Shaped(h)
    BY DEF Sound, Well
  <2>2. g = [h EXCEPT !.regions = k, !.stats = s, !.tree = t]
    BY <1>1 DEF RegionNew
  <2> QED BY <2>1, <2>2 DEF Shaped
<1>3. /\ IsSequence(k) /\ Len(k) = Len(h.regions) + 1 /\ Len(h.regions) \in Nat
      /\ \A i \in 1 .. Len(h.regions) : k[i] = h.regions[i]
      /\ k[Len(h.regions) + 1] = [blocks |-> <<>>, blockSize |-> bs, total |-> 0]
  <2>1. IsSequence(h.regions)
    BY DEF Sound, Well
  <2> QED BY <1>1, <2>1, Added, SeqFacts
<1>4. PICK n \in Nat : n = Len(h.regions)
  BY <1>3
<1>5. \A q \in 1 .. n + 1 : q \in 1 .. n \/ q = n + 1
  BY <1>4
<1>6. /\ k[n + 1].blocks = <<>> /\ ToSet(<<>>) = {} /\ IsSequence(<<>>) /\ k[n + 1].total = 0
      /\ IsInjective(k[n + 1].blocks)
  <2>1. IsSequence(<<>>) /\ Len(<<>>) = 0
    BY EmptySeq, AnySeq
  <2>2. ToSet(<<>>) = {}
    BY <2>1, SeqFacts
  <2>3. k[n + 1].blocks = <<>> /\ k[n + 1].total = 0
    BY <1>3, <1>4
  <2>4. IsInjective(<<>>)
    BY <2>1, SeqFacts DEF IsInjective
  <2> QED BY <2>1, <2>2, <2>3, <2>4
<1>7. h.stats \in Stats /\ TreeGood(h.tree) /\ h.tree.depth \in Nat
  <2>1. h.stats \in Stats /\ TreeGood(h.tree) /\ h.tree.depth = Len(h.regions)
    BY DEF Sound, Well, TreeGood, TreeRight
  <2> QED BY <1>3, <2>1
<1>8. Well(g)
  <2>1. \A q \in 1 .. n : RegionGood(g, q)
    BY <1>2, <1>3, <1>4 DEF Sound, Well, RegionGood
  <2>2. RegionGood(g, n + 1)
    <3>1. PICK e : e = g.regions[n + 1]
      OBVIOUS
    <3>2. e = [blocks |-> <<>>, blockSize |-> bs, total |-> 0] /\ bs \in Nat
      BY <1>1, <1>2, <1>3, <1>4, <3>1, SizesAssumption
    <3>3. e = [blocks |-> e.blocks, blockSize |-> e.blockSize, total |-> e.total]
          /\ e.blocks = <<>> /\ e.blockSize = bs
      BY <3>2
    <3> QED BY <1>6, <3>1, <3>2, <3>3 DEF RegionGood
  <2>3. \A q \in 1 .. Len(g.regions) : RegionGood(g, q)
    BY <1>2, <1>3, <1>4, <1>5, <2>1, <2>2
  <2>4. g.stats \in Stats
    BY <1>1, <1>2, <1>7, RegionCounted
  <2>5. TreeGood(g.tree)
    BY <1>1, <1>2, <1>7, TreeEntered
  <2> QED BY <1>2, <1>3, <2>3, <2>4, <2>5 DEF Sound, Well, TreeGood
<1>9. Owned(g) = Owned(h)
  <2>1. Owned(g) = UNION {ToSet(k[q].blocks) : q \in 1 .. n + 1}
    BY <1>2, <1>3, <1>4 DEF Owned
  <2>2. Owned(h) = UNION {ToSet(k[q].blocks) : q \in 1 .. n}
    BY <1>3, <1>4 DEF Owned
  <2> QED BY <1>4, <1>5, <1>6, <2>1, <2>2
<1>10. ASSUME NEW S, S \subseteq DOMAIN h.blocks PROVE SizeOf(g, S) = SizeOf(h, S)
  <2>1. IsFiniteSet(S)
    BY <1>10, Finite
  <2> QED BY <1>2, <2>1, SizeSame DEF Capacity
<1>11. BlocksOwned(g)
  <2>1. DOMAIN g.blocks = Owned(g) \cup ToSet(g.arena)
    BY <1>2, <1>9 DEF Sound, BlocksOwned
  <2>2. ASSUME NEW q \in 1 .. n + 1
        PROVE  /\ IsInjective(k[q].blocks) /\ ToSet(k[q].blocks) \cap ToSet(h.arena) = {}
               /\ \A p \in (1 .. n + 1) \ {q} : ToSet(k[q].blocks) \cap ToSet(k[p].blocks) = {}
               /\ k[q].total = SizeOf(g, ToSet(k[q].blocks))
    <3>1. CASE q = n + 1
      <4>1. SizeOf(g, {}) = 0
        <5>1. IsFiniteSet({})
          BY FS_EmptySet
        <5> QED BY <5>1, SizeFirst
      <4> QED BY <1>6, <3>1, <4>1
    <3>2. CASE q \in 1 .. n
      <4>1. /\ IsInjective(h.regions[q].blocks) /\ ToSet(h.regions[q].blocks) \cap ToSet(h.arena) = {}
            /\ \A p \in (1 .. n) \ {q} :
                  ToSet(h.regions[q].blocks) \cap ToSet(h.regions[p].blocks) = {}
            /\ h.regions[q].total = SizeOf(h, ToSet(h.regions[q].blocks))
        BY <1>4, <3>2 DEF Sound, BlocksOwned
      <4>2. ToSet(h.regions[q].blocks) \subseteq DOMAIN h.blocks
        BY <1>4, <3>2, SoundFacts
      <4>3. k[q] = h.regions[q] /\ \A p \in 1 .. n : k[p] = h.regions[p]
        BY <1>3, <1>4, <3>2
      <4>4. k[q].total = SizeOf(g, ToSet(k[q].blocks))
        BY <1>10, <4>1, <4>2, <4>3
      <4>5. k[n + 1].blocks = <<>> /\ ToSet(k[n + 1].blocks) = {}
        BY <1>6
      <4>6. ASSUME NEW p \in (1 .. n + 1) \ {q}
            PROVE  ToSet(k[q].blocks) \cap ToSet(k[p].blocks) = {}
        <5>1. CASE p = n + 1
          BY <4>5, <5>1
        <5>2. CASE p \in (1 .. n) \ {q}
          BY <4>1, <4>3, <5>2
        <5> QED BY <1>5, <5>1, <5>2
      <4> QED BY <4>1, <4>3, <4>4, <4>6
    <3> QED BY <1>5, <3>1, <3>2
  <2>3. /\ \A q \in 1 .. Len(g.regions) :
              /\ IsInjective(g.regions[q].blocks) /\ ToSet(g.regions[q].blocks) \cap ToSet(g.arena) = {}
              /\ g.regions[q].total = SizeOf(g, ToSet(g.regions[q].blocks))
        /\ \A q \in 1 .. Len(g.regions) : \A p \in (1 .. Len(g.regions)) \ {q} :
              ToSet(g.regions[q].blocks) \cap ToSet(g.regions[p].blocks) = {}
    <3>1. Len(g.regions) = n + 1 /\ g.arena = h.arena /\ g.regions = k
      BY <1>2, <1>3, <1>4
    <3> QED BY <2>2, <3>1
  <2> QED BY <2>1, <2>3 DEF BlocksOwned
<1>12. /\ s.created = h.stats.created + 1 /\ s.destroyed = h.stats.destroyed
       /\ s.alive = h.stats.alive + 1 /\ s.peak >= s.alive
       /\ s.blocksCreated = h.stats.blocksCreated /\ s.blocksDestroyed = h.stats.blocksDestroyed
       /\ s.blocksAlive = h.stats.blocksAlive
       /\ s.allocated = h.stats.allocated /\ s.freed = h.stats.freed
       /\ s.bytesAlive = h.stats.bytesAlive /\ s.bytesPeak = h.stats.bytesPeak
  BY <1>1, <1>7, RegionCounted
<1>13. /\ h.stats.created \in Nat /\ h.stats.destroyed \in Nat /\ h.stats.alive \in Nat
  BY <1>7, StatsTypes
<1>14. StatsRight(g)
  <2>1. SizeOf(g, Owned(g)) = SizeOf(h, Owned(h))
    BY <1>9, <1>10, SoundFacts
  <2>2. /\ h.stats.alive = n /\ h.stats.created - h.stats.destroyed = h.stats.alive
        /\ h.stats.blocksAlive = Cardinality(Owned(h))
        /\ h.stats.blocksCreated - h.stats.blocksDestroyed = h.stats.blocksAlive
        /\ h.stats.bytesAlive = SizeOf(h, Owned(h))
        /\ h.stats.allocated - h.stats.freed = h.stats.bytesAlive
        /\ h.stats.bytesPeak >= h.stats.bytesAlive
    BY <1>4 DEF Sound, StatsRight
  <2>3. s.alive = Len(g.regions) /\ s.created - s.destroyed = s.alive
    BY <1>2, <1>3, <1>4, <1>12, <1>13, <2>2
  <2> QED BY <1>2, <1>9, <1>12, <2>1, <2>2, <2>3 DEF StatsRight
<1>15. TreeRight(g)
  <2>1. PICK l, c : l = Len(h.tree.entries) /\ c = h.stats.created
    OBVIOUS
  <2>2. l \in Nat /\ c \in Nat /\ TreeMax \in Nat
    BY <1>7, <1>13, <2>1, SeqFacts, SizesAssumption DEF TreeGood
  <2>3. /\ h.tree.depth = n /\ (h.tree.truncated <=> c > TreeMax)
        /\ l = IF c <= TreeMax THEN c ELSE TreeMax
    <3>1. /\ h.tree.depth = n /\ (h.tree.truncated <=> c > TreeMax)
          /\ l = Min({c, TreeMax})
      BY <1>4, <2>1 DEF Sound, TreeRight
    <3> QED BY <2>2, <3>1, MinOfTwo
  <2>4. /\ t.depth = n + 1
        /\ IF l >= TreeMax THEN t.truncated = TRUE /\ Len(t.entries) = l
           ELSE t.truncated = h.tree.truncated /\ Len(t.entries) = l + 1
    <3>1. PICK w : w = h.tree
      OBVIOUS
    <3>2. TreeGood(w) /\ w.depth \in Nat /\ t = TreeEnter(w)
      BY <1>1, <1>7, <3>1
    <3>3. /\ t.depth = w.depth + 1
          /\ IF Len(w.entries) >= TreeMax THEN t.truncated = TRUE /\ Len(t.entries) = Len(w.entries)
             ELSE t.truncated = w.truncated /\ Len(t.entries) = Len(w.entries) + 1
      BY <3>2, TreeEntered
    <3> QED BY <2>1, <2>3, <3>1, <3>3
  <2>5. /\ t.truncated <=> c + 1 > TreeMax
        /\ Len(t.entries) = IF c + 1 <= TreeMax THEN c + 1 ELSE TreeMax
    <3>1. CASE l >= TreeMax
      <4>1. c >= TreeMax /\ l = TreeMax
        BY <2>2, <2>3, <3>1
      <4>2. c + 1 > TreeMax /\ ~ (c + 1 <= TreeMax)
        BY <2>2, <4>1
      <4> QED BY <2>4, <3>1, <4>1, <4>2
    <3>2. CASE ~ (l >= TreeMax)
      <4>1. c < TreeMax /\ l = c
        BY <2>2, <2>3, <3>2
      <4>2. ~ (c + 1 > TreeMax) /\ c + 1 <= TreeMax /\ ~ (c > TreeMax)
        BY <2>2, <4>1
      <4> QED BY <2>3, <2>4, <3>2, <4>1, <4>2
    <3> QED BY <3>1, <3>2
  <2>6. Min({c + 1, TreeMax}) = IF c + 1 <= TreeMax THEN c + 1 ELSE TreeMax
    BY <2>2, MinOfTwo
  <2>7. /\ g.tree.depth = Len(g.regions) /\ g.stats.created = c + 1
    BY <1>2, <1>3, <1>4, <1>12, <2>1, <2>4
  <2> QED BY <1>2, <2>5, <2>6, <2>7 DEF TreeRight
<1>16. Keeps(h, g, Len(h.regions))
  <2>1. Used(g) = Used(h)
    BY <1>2 DEF Used
  <2>2. \A q \in 1 .. n : Of(g, q) = Of(h, q)
    BY <1>2, <1>3, <1>4, <2>1 DEF Of
  <2>3. \A a : Word(g, a) = Word(h, a)
    BY <1>2 DEF Word
  <2> QED BY <1>4, <2>2, <2>3 DEF Keeps
<1> QED BY <1>2, <1>3, <1>8, <1>11, <1>14, <1>15, <1>16 DEF Sound

\* What BlockDestroyed counts.
LEMMA BlockUncounted ==
    ASSUME NEW s \in Stats, NEW c \in Nat, c <= s.bytesAlive, s.blocksAlive >= 1,
           NEW t, t = BlockDestroyed(s, c)
    PROVE  /\ t \in Stats
           /\ t.created = s.created /\ t.destroyed = s.destroyed
           /\ t.alive = s.alive /\ t.peak = s.peak
           /\ t.blocksCreated = s.blocksCreated
           /\ t.blocksDestroyed = s.blocksDestroyed + 1
           /\ t.blocksAlive = s.blocksAlive - 1
           /\ t.allocated = s.allocated /\ t.freed = s.freed + c
           /\ t.bytesAlive = s.bytesAlive - c
           /\ t.bytesPeak = s.bytesPeak
<1>0. s = [created |-> s.created, destroyed |-> s.destroyed, alive |-> s.alive,
           peak |-> s.peak, blocksCreated |-> s.blocksCreated,
           blocksDestroyed |-> s.blocksDestroyed, blocksAlive |-> s.blocksAlive,
           allocated |-> s.allocated, freed |-> s.freed,
           bytesAlive |-> s.bytesAlive, bytesPeak |-> s.bytesPeak]
  BY StatsTypes
<1>1. PICK x, y : x = Less(s.blocksAlive, 1) /\ y = Less(s.bytesAlive, c)
  OBVIOUS
<1>2. x \in Nat /\ x = s.blocksAlive - 1 /\ y \in Nat /\ y = s.bytesAlive - c
  BY <1>1, StatsTypes DEF Less
<1>3. PICK a : a = [s EXCEPT !.blocksDestroyed = s.blocksDestroyed + 1, !.blocksAlive = x]
  OBVIOUS
<1>4. a = [created |-> s.created, destroyed |-> s.destroyed, alive |-> s.alive,
           peak |-> s.peak, blocksCreated |-> s.blocksCreated,
           blocksDestroyed |-> s.blocksDestroyed + 1, blocksAlive |-> x,
           allocated |-> s.allocated, freed |-> s.freed,
           bytesAlive |-> s.bytesAlive, bytesPeak |-> s.bytesPeak]
  BY <1>0, <1>3
<1>5. t = [a EXCEPT !.freed = s.freed + c, !.bytesAlive = y]
  BY <1>1, <1>3, Zenon DEF BlockDestroyed
<1>6. t = [created |-> s.created, destroyed |-> s.destroyed, alive |-> s.alive,
           peak |-> s.peak, blocksCreated |-> s.blocksCreated,
           blocksDestroyed |-> s.blocksDestroyed + 1, blocksAlive |-> x,
           allocated |-> s.allocated, freed |-> s.freed + c,
           bytesAlive |-> y, bytesPeak |-> s.bytesPeak]
  BY <1>4, <1>5
<1>7. t \in Stats
  BY <1>2, <1>6, StatsTypes DEF Stats
<1> QED BY <1>2, <1>6, <1>7

\* What RegionDestroyed counts.
LEMMA RegionUncounted ==
    ASSUME NEW s \in Stats, s.alive >= 1, NEW t, t = RegionDestroyed(s)
    PROVE  /\ t \in Stats
           /\ t.created = s.created /\ t.destroyed = s.destroyed + 1
           /\ t.alive = s.alive - 1 /\ t.peak = s.peak
           /\ t.blocksCreated = s.blocksCreated /\ t.blocksDestroyed = s.blocksDestroyed
           /\ t.blocksAlive = s.blocksAlive
           /\ t.allocated = s.allocated /\ t.freed = s.freed
           /\ t.bytesAlive = s.bytesAlive /\ t.bytesPeak = s.bytesPeak
<1>0. s = [created |-> s.created, destroyed |-> s.destroyed, alive |-> s.alive,
           peak |-> s.peak, blocksCreated |-> s.blocksCreated,
           blocksDestroyed |-> s.blocksDestroyed, blocksAlive |-> s.blocksAlive,
           allocated |-> s.allocated, freed |-> s.freed,
           bytesAlive |-> s.bytesAlive, bytesPeak |-> s.bytesPeak]
  BY StatsTypes
<1>1. PICK x : x = Less(s.alive, 1)
  OBVIOUS
<1>2. x \in Nat /\ x = s.alive - 1
  BY <1>1, StatsTypes DEF Less
<1>3. t = [s EXCEPT !.destroyed = s.destroyed + 1, !.alive = x]
  BY <1>1, Zenon DEF RegionDestroyed
<1>4. t = [created |-> s.created, destroyed |-> s.destroyed + 1, alive |-> x,
           peak |-> s.peak, blocksCreated |-> s.blocksCreated,
           blocksDestroyed |-> s.blocksDestroyed, blocksAlive |-> s.blocksAlive,
           allocated |-> s.allocated, freed |-> s.freed,
           bytesAlive |-> s.bytesAlive, bytesPeak |-> s.bytesPeak]
  BY <1>0, <1>3
<1>5. t \in Stats
  BY <1>2, <1>4, StatsTypes DEF Stats
<1> QED BY <1>2, <1>4, <1>5

\* The statistics as the first k blocks of bs are freed.
Frees(h, bs, f, k) ==
    /\ DOMAIN f = 0 .. k
    /\ \A i \in 0 .. k :
         f[i] = IF i = 0 THEN h.stats ELSE BlockDestroyed(f[i - 1], Capacity(h, bs[i]))

\* The statistics RegionFree computes block by block exist, by induction.
LEMMA FreesExist ==
    ASSUME NEW h, NEW bs, NEW n \in Nat
    PROVE  \E f : Frees(h, bs, f, n)
<1> DEFINE S == {d \in 0 .. n : \E f : Frees(h, bs, f, n - d)}
<1>1. S \in SUBSET Nat
  OBVIOUS
<1>2. n \in S
  <2>1. PICK f : f = [i \in 0 .. 0 |-> h.stats]
    OBVIOUS
  <2>2. DOMAIN f = 0 .. 0 /\ \A i \in 0 .. 0 : i = 0 /\ f[i] = h.stats
    BY <2>1
  <2>3. Frees(h, bs, f, 0)
    BY <2>2 DEF Frees
  <2>4. n - n = 0
    OBVIOUS
  <2> QED BY <2>3, <2>4
<1>3. PICK d \in S : \A j \in S : d <= j
  <2> HIDE DEF S
  <2> QED BY <1>1, <1>2, Least
<1>4. PICK f : Frees(h, bs, f, n - d)
  OBVIOUS
<1>5. ASSUME d # 0 PROVE FALSE
  <2>1. PICK e \in Nat : d = e + 1 /\ e <= n
    <3>1. d \in Nat /\ d <= n
      OBVIOUS
    <3>2. d - 1 \in Nat /\ d = (d - 1) + 1 /\ d - 1 <= n
      BY <1>5, <3>1
    <3> QED BY <3>2
  <2>2. PICK k \in Nat : k = n - d /\ n - e = k + 1
    <3>1. n - d \in Nat /\ n - e = (n - d) + 1
      BY <2>1
    <3> QED BY <3>1
  <2>3. PICK g : g = [i \in 0 .. k + 1 |-> IF i = k + 1 THEN BlockDestroyed(f[k], Capacity(h, bs[k + 1]))
                                          ELSE f[i]]
    OBVIOUS
  <2>4. \A i \in 0 .. k + 1 : i \in 0 .. k \/ i = k + 1
    OBVIOUS
  <2>5. \A i \in 0 .. k : i # k + 1 /\ i \in 0 .. k + 1 /\ (i # 0 => i - 1 \in 0 .. k)
    OBVIOUS
  <2>6. \A i \in 0 .. k : g[i] = f[i]
    BY <2>3, <2>5
  <2>7. \A i \in 0 .. k :
           g[i] = IF i = 0 THEN h.stats ELSE BlockDestroyed(g[i - 1], Capacity(h, bs[i]))
    BY <1>4, <2>2, <2>5, <2>6 DEF Frees
  <2>8. k + 1 # 0 /\ k + 1 - 1 = k /\ k \in 0 .. k /\ k + 1 \in 0 .. k + 1
    OBVIOUS
  <2>9. g[k + 1] = BlockDestroyed(g[k + 1 - 1], Capacity(h, bs[k + 1]))
    BY <2>3, <2>6, <2>8
  <2>10. Frees(h, bs, g, k + 1)
    <3>1. DOMAIN g = 0 .. k + 1
      BY <2>3
    <3>2. ASSUME NEW i \in 0 .. k + 1
          PROVE  g[i] = IF i = 0 THEN h.stats ELSE BlockDestroyed(g[i - 1], Capacity(h, bs[i]))
      <4>1. CASE i \in 0 .. k
        BY <2>7, <4>1
      <4>2. CASE i = k + 1
        BY <2>8, <2>9, <4>2
      <4> QED BY <2>4, <4>1, <4>2
    <3> QED BY <3>1, <3>2 DEF Frees
  <2>11. e \in S /\ e < d
    BY <2>1, <2>2, <2>10
  <2> QED BY <1>3, <2>11
<1>6. n - 0 = n
  OBVIOUS
<1> QED BY <1>4, <1>5, <1>6

\* What is left of the blocks when the first k of bs are freed.
Left(h, bs, k) == Owned(h) \ {bs[j] : j \in 1 .. k}

\* The statistics of h without the first k blocks of bs.
LeftStats(h, bs, s, k) ==
    /\ s \in Stats
    /\ s.created = h.stats.created /\ s.destroyed = h.stats.destroyed
    /\ s.alive = h.stats.alive /\ s.peak = h.stats.peak
    /\ s.blocksAlive = Cardinality(Left(h, bs, k))
    /\ s.blocksCreated - s.blocksDestroyed = s.blocksAlive
    /\ s.bytesAlive = SizeOf(h, Left(h, bs, k))
    /\ s.allocated - s.freed = s.bytesAlive /\ s.bytesPeak >= s.bytesAlive

\* One more block freed, one fewer counted.
LEMMA OneLess ==
    ASSUME NEW h, Sound(h), NEW bs, IsSequence(bs), IsInjective(bs), ToSet(bs) \subseteq Owned(h),
           NEW k \in Nat, k + 1 <= Len(bs), NEW s, LeftStats(h, bs, s, k),
           NEW t, t = BlockDestroyed(s, Capacity(h, bs[k + 1]))
    PROVE  LeftStats(h, bs, t, k + 1)
<1>1. Len(bs) \in Nat /\ DOMAIN bs = 1 .. Len(bs) /\ ToSet(bs) = {bs[i] : i \in 1 .. Len(bs)}
  BY SeqFacts
<1>2. PICK b, L, c : b = bs[k + 1] /\ L = Left(h, bs, k) /\ c = Capacity(h, b)
  OBVIOUS
<1>3. b \in L
  <2>1. k + 1 \in 1 .. Len(bs)
    BY <1>1
  <2>2. b \in Owned(h)
    BY <1>1, <1>2, <2>1
  <2>3. \A j \in 1 .. k : j \in 1 .. Len(bs) /\ j # k + 1
    BY <1>1
  <2>4. \A j \in 1 .. k : bs[j] # b
    BY <1>1, <1>2, <2>1, <2>3 DEF IsInjective
  <2> QED BY <1>2, <2>2, <2>4 DEF Left
<1>4. Left(h, bs, k + 1) = L \ {b}
  <2>1. \A j : j \in 1 .. k + 1 <=> j \in 1 .. k \/ j = k + 1
    OBVIOUS
  <2> QED BY <1>2, <2>1 DEF Left
<1>5. /\ IsFiniteSet(L) /\ L \subseteq DOMAIN h.blocks /\ c \in Nat
      /\ \A x \in L : Capacity(h, x) \in Nat
  <2>1. L \subseteq DOMAIN h.blocks
    BY <1>2, SoundFacts DEF Left
  <2> QED BY <1>2, <1>3, <2>1, Finite, SoundFacts
<1>6. /\ SizeOf(h, L) = c + SizeOf(h, L \ {b}) /\ SizeOf(h, L \ {b}) \in Nat /\ SizeOf(h, L) \in Nat
  <2>1. SizeOf(h, L) \in Nat /\ SizeOf(h, L) = Capacity(h, b) + SizeOf(h, L \ {b})
    BY <1>3, <1>5, SizeAny
  <2>2. SizeOf(h, L \ {b}) \in Nat
    <3>1. L \ {b} \subseteq DOMAIN h.blocks
      BY <1>5
    <3> QED BY <3>1, Finite
  <2> QED BY <1>2, <2>1, <2>2
<1>7. /\ Cardinality(L \ {b}) = Cardinality(L) - 1 /\ Cardinality(L) \in Nat /\ Cardinality(L) # 0
  BY <1>3, <1>5, Removed
<1>8. /\ s \in Stats /\ s.blocksAlive = Cardinality(L) /\ s.bytesAlive = SizeOf(h, L)
      /\ s.created = h.stats.created /\ s.destroyed = h.stats.destroyed
      /\ s.alive = h.stats.alive /\ s.peak = h.stats.peak
      /\ s.blocksCreated - s.blocksDestroyed = s.blocksAlive
      /\ s.allocated - s.freed = s.bytesAlive /\ s.bytesPeak >= s.bytesAlive
  BY <1>2 DEF LeftStats
<1>9. c <= s.bytesAlive /\ s.blocksAlive >= 1
  BY <1>5, <1>6, <1>7, <1>8
<1>10. /\ t \in Stats
       /\ t.created = s.created /\ t.destroyed = s.destroyed
       /\ t.alive = s.alive /\ t.peak = s.peak
       /\ t.blocksCreated = s.blocksCreated
       /\ t.blocksDestroyed = s.blocksDestroyed + 1
       /\ t.blocksAlive = s.blocksAlive - 1
       /\ t.allocated = s.allocated /\ t.freed = s.freed + c
       /\ t.bytesAlive = s.bytesAlive - c
       /\ t.bytesPeak = s.bytesPeak
  <2>1. t = BlockDestroyed(s, c)
    BY <1>2
  <2> QED BY <1>5, <1>8, <1>9, <2>1, BlockUncounted
<1>11. /\ s.blocksCreated \in Nat /\ s.blocksDestroyed \in Nat /\ s.blocksAlive \in Nat
       /\ s.allocated \in Nat /\ s.freed \in Nat /\ s.bytesAlive \in Nat /\ s.bytesPeak \in Nat
  BY <1>8, StatsTypes
<1>12. /\ t.blocksAlive = Cardinality(L \ {b})
       /\ t.blocksCreated - t.blocksDestroyed = t.blocksAlive
  <2>1. s.blocksCreated - (s.blocksDestroyed + 1) = s.blocksAlive - 1
    <3>1. PICK x \in Nat, y \in Nat, z \in Nat :
             x = s.blocksCreated /\ y = s.blocksDestroyed /\ z = s.blocksAlive
      BY <1>11
    <3>2. x - y = z
      BY <1>8, <3>1
    <3>3. x - (y + 1) = z - 1
      BY <3>2
    <3> QED BY <3>1, <3>3
  <2> QED BY <1>7, <1>8, <1>10, <2>1
<1>13. /\ t.bytesAlive = SizeOf(h, L \ {b}) /\ t.bytesPeak >= t.bytesAlive
       /\ t.allocated - t.freed = t.bytesAlive
  <2>1. s.allocated - (s.freed + c) = s.bytesAlive - c
    BY <1>5, <1>8, <1>11
  <2>2. t.bytesAlive = SizeOf(h, L \ {b})
    BY <1>5, <1>6, <1>8, <1>10
  <2>3. t.bytesPeak >= t.bytesAlive
    BY <1>5, <1>8, <1>9, <1>10, <1>11
  <2> QED BY <1>10, <2>1, <2>2, <2>3
<1> QED BY <1>4, <1>8, <1>10, <1>12, <1>13 DEF LeftStats

\* When all are freed, what is counted is what is left.
LEMMA AllLess ==
    ASSUME NEW h, Sound(h), NEW bs, IsSequence(bs), IsInjective(bs), ToSet(bs) \subseteq Owned(h),
           NEW f, Frees(h, bs, f, Len(bs))
    PROVE  LeftStats(h, bs, f[Len(bs)], Len(bs))
<1> DEFINE Bad == {k \in 0 .. Len(bs) : ~ LeftStats(h, bs, f[k], k)}
<1>0. Len(bs) \in Nat
  BY SeqFacts
<1>1. SUFFICES ASSUME Bad # {} PROVE FALSE
  <2>1. Len(bs) \in 0 .. Len(bs)
    BY <1>0
  <2> QED BY <2>1
<1>2. PICK k \in Bad : \A j \in Bad : k <= j
  <2>1. Bad \in SUBSET Nat
    BY <1>0
  <2> HIDE DEF Bad
  <2> QED BY <1>1, <2>1, Least
<1>3. k \in 0 .. Len(bs) /\ ~ LeftStats(h, bs, f[k], k)
  OBVIOUS
<1>4. CASE k = 0
  <2>1. f[k] = h.stats
    BY <1>3, <1>4 DEF Frees
  <2>2. Left(h, bs, 0) = Owned(h)
    BY DEF Left
  <2>3. LeftStats(h, bs, h.stats, 0)
    BY <2>2 DEF Sound, Well, StatsRight, LeftStats
  <2> QED BY <1>3, <1>4, <2>1, <2>3
<1>5. CASE k # 0
  <2>1. PICK j \in Nat : k = j + 1 /\ j \in 0 .. Len(bs) /\ j + 1 <= Len(bs) /\ j < k
    <3>1. k - 1 \in Nat /\ k = (k - 1) + 1 /\ k - 1 \in 0 .. Len(bs) /\ (k - 1) + 1 <= Len(bs) /\ k - 1 < k
      BY <1>0, <1>3, <1>5
    <3> QED BY <3>1
  <2>2. LeftStats(h, bs, f[j], j)
    <3>1. j \notin Bad
      BY <1>2, <2>1, <1>0
    <3> QED BY <2>1, <3>1
  <2>3. f[k] = BlockDestroyed(f[k - 1], Capacity(h, bs[k]))
    BY <1>3, <1>5 DEF Frees
  <2>4. k - 1 = j
    BY <2>1
  <2>5. f[j + 1] = BlockDestroyed(f[j], Capacity(h, bs[j + 1]))
    BY <2>1, <2>3, <2>4
  <2>6. LeftStats(h, bs, f[j + 1], j + 1)
    BY <2>1, <2>2, <2>5, OneLess
  <2> QED BY <1>3, <2>1, <2>6
<1> QED BY <1>4, <1>5

\* The statistics RegionFree computes block by block.
LEMMA FreedStats ==
    ASSUME NEW h, Sound(h), NEW bs, IsSequence(bs), IsInjective(bs), ToSet(bs) \subseteq Owned(h)
    PROVE  LET s[i \in 0 .. Len(bs)] ==
                 IF i = 0 THEN h.stats ELSE BlockDestroyed(s[i - 1], Capacity(h, bs[i]))
           IN  LeftStats(h, bs, s[Len(bs)], Len(bs))
<1> DEFINE E(f) == [i \in 0 .. Len(bs) |->
                      IF i = 0 THEN h.stats ELSE BlockDestroyed(f[i - 1], Capacity(h, bs[i]))]
           s == CHOOSE f : f = E(f)
<1>0. Len(bs) \in Nat
  BY SeqFacts
<1>1. s = E(s)
  <2>1. PICK f : Frees(h, bs, f, Len(bs))
    BY <1>0, FreesExist
  <2>2. PICK e : e = [i \in 0 .. Len(bs) |-> f[i]]
    OBVIOUS
  <2>3. \A i \in 0 .. Len(bs) : i # 0 => i - 1 \in 0 .. Len(bs)
    BY <1>0
  <2>4. \A i \in 0 .. Len(bs) :
           e[i] = IF i = 0 THEN h.stats ELSE BlockDestroyed(e[i - 1], Capacity(h, bs[i]))
    BY <2>1, <2>2, <2>3 DEF Frees
  <2>5. e = [i \in 0 .. Len(bs) |-> e[i]]
    BY <2>2
  <2>6. e = E(e)
    BY <2>4, <2>5
  <2> HIDE DEF E
  <2> QED BY <2>6
<1>2. PICK t : t = s
  OBVIOUS
<1>3. t = E(t)
  BY <1>1, <1>2
<1> HIDE DEF s
<1>4. Frees(h, bs, t, Len(bs))
  BY <1>3 DEF Frees
<1>5. LeftStats(h, bs, t[Len(bs)], Len(bs))
  BY <1>4, AllLess
<1> QED BY <1>2, <1>5 DEF s

\* The newest region is freed: nothing is left of it, and the others keep their words.
LEMMA Left1 ==
    ASSUME NEW h, Sound(h), Len(h.regions) # 0, NEW g, g = RegionFree(h)
    PROVE  /\ Sound(g) /\ Len(g.regions) = Len(h.regions) - 1 /\ g.died = h.died
           /\ Keeps(h, g, Len(h.regions) - 1)
<1>1. PICK n, bs : n = Len(h.regions) /\ bs = h.regions[n].blocks
  OBVIOUS
<1>2. PICK m \in Nat : n = m + 1 /\ m = n - 1
  <2>1. n \in Nat /\ n # 0
    BY <1>1, SoundFacts
  <2>2. n - 1 \in Nat /\ n = (n - 1) + 1
    BY <2>1
  <2> QED BY <2>2
<1>3. /\ n \in 1 .. Len(h.regions) /\ \A q \in 1 .. n : q \in 1 .. m \/ q = n
      /\ \A q \in 1 .. m : q \in 1 .. n /\ q # n /\ q \in 1 .. Len(h.regions)
  BY <1>1, <1>2
<1>4. /\ IsSequence(bs) /\ IsInjective(bs) /\ ToSet(bs) \subseteq Owned(h)
      /\ ToSet(bs) \cap ToSet(h.arena) = {}
      /\ \A q \in 1 .. m : ToSet(bs) \cap ToSet(h.regions[q].blocks) = {}
  <2>1. IsSequence(bs)
    BY <1>1, <1>3 DEF Sound, Well, RegionGood
  <2>2. /\ IsInjective(bs) /\ ToSet(bs) \cap ToSet(h.arena) = {}
        /\ \A q \in 1 .. m : ToSet(bs) \cap ToSet(h.regions[q].blocks) = {}
    BY <1>1, <1>3 DEF Sound, BlocksOwned
  <2>3. ToSet(bs) \subseteq Owned(h)
    BY <1>1, <1>3, SoundFacts
  <2> QED BY <2>1, <2>2, <2>3
<1>5. PICK s : /\ LeftStats(h, bs, s, Len(bs))
               /\ g = [h EXCEPT !.blocks = [b \in DOMAIN h.blocks \ ToSet(bs) |-> h.blocks[b]],
                                !.regions = SubSeq(h.regions, 1, n - 1),
                                !.stats = RegionDestroyed(s),
                                !.tree = TreeLeave(h.tree)]
  <2> DEFINE f[i \in 0 .. Len(bs)] ==
               IF i = 0 THEN h.stats ELSE BlockDestroyed(f[i - 1], Capacity(h, bs[i]))
  <2>1. LeftStats(h, bs, f[Len(bs)], Len(bs))
    BY <1>4, FreedStats
  <2>2. {bs[i] : i \in DOMAIN bs} = ToSet(bs)
    BY DEF ToSet
  <2>3. g = [h EXCEPT !.blocks = [b \in DOMAIN h.blocks \ {bs[i] : i \in DOMAIN bs} |-> h.blocks[b]],
                      !.regions = SubSeq(h.regions, 1, n - 1),
                      !.stats = RegionDestroyed(f[Len(bs)]),
                      !.tree = TreeLeave(h.tree)]
    BY <1>1 DEF RegionFree
  <2> HIDE DEF f
  <2> QED BY <2>1, <2>2, <2>3
<1>6. PICK k, bl, st, t : /\ k = SubSeq(h.regions, 1, m)
                          /\ bl = [b \in DOMAIN h.blocks \ ToSet(bs) |-> h.blocks[b]]
                          /\ st = RegionDestroyed(s) /\ t = TreeLeave(h.tree)
  OBVIOUS
<1>7. /\ Shaped(g) /\ g.blocks = bl /\ g.next = h.next /\ g.arena = h.arena
      /\ g.died = h.died /\ g.regions = k /\ g.stats = st /\ g.tree = t
  <2>1. Shaped(h)
    BY DEF Sound, Well
  <2>2. g = [h EXCEPT !.blocks = bl, !.regions = k, !.stats = st, !.tree = t]
    BY <1>2, <1>5, <1>6
  <2> QED BY <2>1, <2>2 DEF Shaped
<1>8. /\ IsSequence(k) /\ Len(k) = m /\ \A q \in 1 .. m : k[q] = h.regions[q]
  <2>1. IsSequence(h.regions)
    BY DEF Sound, Well
  <2>2. 1 \in Nat /\ 1 <= 1 /\ 1 <= m + 1 /\ m <= Len(h.regions) /\ m - 1 + 1 = m
    BY <1>1, <1>2
  <2>3. /\ IsSequence(k) /\ Len(k) = m - 1 + 1
        /\ \A i \in 1 .. m - 1 + 1 : k[i] = h.regions[1 + i - 1]
    BY <1>6, <2>1, <2>2, Slicing
  <2>4. \A i \in 1 .. m : 1 + i - 1 = i
    OBVIOUS
  <2> QED BY <2>2, <2>3, <2>4
<1>9. /\ DOMAIN bl = DOMAIN h.blocks \ ToSet(bs) /\ \A b \in DOMAIN bl : bl[b] = h.blocks[b]
  BY <1>6
<1>10. \A q \in 1 .. m : /\ ToSet(k[q].blocks) \subseteq DOMAIN bl
                         /\ ToSet(k[q].blocks) \subseteq DOMAIN h.blocks
  <2> TAKE q \in 1 .. m
  <2>1. ToSet(h.regions[q].blocks) \subseteq DOMAIN h.blocks
    BY <1>3, SoundFacts
  <2> QED BY <1>4, <1>8, <1>9, <2>1
<1>11. Owned(g) = Owned(h) \ ToSet(bs) /\ Left(h, bs, Len(bs)) = Owned(g)
  <2>1. Owned(g) = UNION {ToSet(k[q].blocks) : q \in 1 .. m}
    BY <1>7, <1>8 DEF Owned
  <2>2. Owned(h) = UNION {ToSet(h.regions[q].blocks) : q \in 1 .. n}
    BY <1>1 DEF Owned
  <2>3. Owned(h) = Owned(g) \cup ToSet(bs)
    BY <1>1, <1>3, <1>8, <2>1, <2>2
  <2>4. Owned(g) \cap ToSet(bs) = {}
    BY <1>4, <1>8, <2>1
  <2>5. {bs[j] : j \in 1 .. Len(bs)} = ToSet(bs)
    BY <1>4, SeqFacts
  <2> QED BY <2>3, <2>4, <2>5 DEF Left
<1>12. h.stats \in Stats /\ TreeGood(h.tree) /\ h.tree.depth = n /\ s \in Stats /\ s.alive = n
  BY <1>1, <1>5 DEF Sound, Well, TreeGood, TreeRight, StatsRight, LeftStats
<1>13. /\ st \in Stats
       /\ st.created = s.created /\ st.destroyed = s.destroyed + 1
       /\ st.alive = s.alive - 1 /\ st.peak = s.peak
       /\ st.blocksCreated = s.blocksCreated /\ st.blocksDestroyed = s.blocksDestroyed
       /\ st.blocksAlive = s.blocksAlive
       /\ st.allocated = s.allocated /\ st.freed = s.freed
       /\ st.bytesAlive = s.bytesAlive /\ st.bytesPeak = s.bytesPeak
  <2>1. s.alive >= 1
    BY <1>2, <1>12
  <2> QED BY <1>6, <1>12, <2>1, RegionUncounted
<1>14. TreeGood(t) /\ t.depth = m /\ t.truncated = h.tree.truncated /\ t.entries = h.tree.entries
  <2>1. PICK u : u = h.tree
    OBVIOUS
  <2>2. u = [entries |-> u.entries, depth |-> u.depth, truncated |-> u.truncated]
        /\ u.depth = n /\ IsSequence(u.entries) /\ u.truncated \in BOOLEAN
    BY <1>12, <2>1 DEF TreeGood
  <2>3. Less(n, 1) = m
    BY <1>2 DEF Less
  <2>4. t = [u EXCEPT !.depth = m]
    BY <1>6, <2>1, <2>2, <2>3 DEF TreeLeave
  <2>5. t = [entries |-> u.entries, depth |-> m, truncated |-> u.truncated]
    BY <2>2, <2>4
  <2> QED BY <2>1, <2>2, <2>5 DEF TreeGood
<1>15. Well(g)
  <2>1. \A b \in DOMAIN bl : b \in Nat /\ b < h.next /\ BlockGood(bl[b])
    BY <1>9 DEF Sound, Well
  <2>2. \A q \in 1 .. m : RegionGood(g, q)
    <3> TAKE q \in 1 .. m
    <3>1. RegionGood(h, q)
      BY <1>3 DEF Sound, Well
    <3> QED BY <1>7, <1>8, <1>9, <1>10, <3>1 DEF RegionGood
  <2>3. h.next \in Nat
    BY DEF Sound, Well
  <2> QED BY <1>7, <1>8, <1>13, <1>14, <2>1, <2>2, <2>3 DEF Well, TreeGood
<1>16. ASSUME NEW S, S \subseteq DOMAIN bl PROVE SizeOf(g, S) = SizeOf(h, S)
  <2>1. IsFiniteSet(S)
    BY <1>9, <1>16, Finite
  <2>2. \A b \in S : Capacity(g, b) = Capacity(h, b)
    BY <1>7, <1>9, <1>16 DEF Capacity
  <2> QED BY <2>1, <2>2, SizeSame
<1>17. BlocksOwned(g)
  <2>1. DOMAIN bl = Owned(g) \cup ToSet(h.arena)
    BY <1>4, <1>9, <1>11 DEF Sound, BlocksOwned
  <2>2. ASSUME NEW q \in 1 .. m
        PROVE  /\ IsInjective(k[q].blocks) /\ ToSet(k[q].blocks) \cap ToSet(h.arena) = {}
               /\ \A p \in (1 .. m) \ {q} : ToSet(k[q].blocks) \cap ToSet(k[p].blocks) = {}
               /\ k[q].total = SizeOf(g, ToSet(k[q].blocks))
    <3>1. /\ IsInjective(h.regions[q].blocks) /\ ToSet(h.regions[q].blocks) \cap ToSet(h.arena) = {}
          /\ \A p \in (1 .. m) \ {q} : ToSet(h.regions[q].blocks) \cap ToSet(h.regions[p].blocks) = {}
          /\ h.regions[q].total = SizeOf(h, ToSet(h.regions[q].blocks))
      BY <1>3 DEF Sound, BlocksOwned
    <3>2. SizeOf(g, ToSet(k[q].blocks)) = SizeOf(h, ToSet(k[q].blocks))
      BY <1>10, <1>16
    <3> QED BY <1>8, <3>1, <3>2
  <2>3. /\ DOMAIN g.blocks = Owned(g) \cup ToSet(g.arena) /\ Len(g.regions) = m
        /\ \A q \in 1 .. m :
             /\ IsInjective(g.regions[q].blocks) /\ ToSet(g.regions[q].blocks) \cap ToSet(g.arena) = {}
             /\ \A p \in (1 .. m) \ {q} :
                   ToSet(g.regions[q].blocks) \cap ToSet(g.regions[p].blocks) = {}
             /\ g.regions[q].total = SizeOf(g, ToSet(g.regions[q].blocks))
    BY <1>7, <1>8, <2>1, <2>2
  <2> QED BY <2>3 DEF BlocksOwned
<1>18. StatsRight(g)
  <2>1. /\ s.created = h.stats.created /\ s.destroyed = h.stats.destroyed
        /\ s.alive = h.stats.alive /\ s.peak = h.stats.peak
        /\ s.blocksAlive = Cardinality(Owned(g))
        /\ s.blocksCreated - s.blocksDestroyed = s.blocksAlive
        /\ s.bytesAlive = SizeOf(h, Owned(g))
        /\ s.allocated - s.freed = s.bytesAlive /\ s.bytesPeak >= s.bytesAlive
    BY <1>5, <1>11 DEF LeftStats
  <2>2. SizeOf(g, Owned(g)) = SizeOf(h, Owned(g))
    <3>1. Owned(g) \subseteq DOMAIN bl
      BY <1>9, <1>11, SoundFacts
    <3> QED BY <1>16, <3>1
  <2>3. h.stats.created - h.stats.destroyed = h.stats.alive /\ h.stats.peak >= h.stats.alive
    BY DEF Sound, StatsRight
  <2>4. st.alive = m /\ st.created - st.destroyed = st.alive /\ st.peak >= st.alive
    <3>1. PICK x \in Nat, y \in Nat, z \in Nat, w \in Nat :
             x = s.created /\ y = s.destroyed /\ z = s.alive /\ w = s.peak
      BY <1>12, StatsTypes
    <3>2. x - y = z /\ w >= z /\ z = n
      BY <1>12, <2>1, <2>3, <3>1
    <3>3. x - (y + 1) = z - 1 /\ w >= z - 1 /\ z - 1 = m
      BY <1>2, <3>2
    <3> QED BY <1>13, <3>1, <3>3
  <2> QED BY <1>7, <1>8, <1>13, <2>1, <2>2, <2>4 DEF StatsRight
<1>19. TreeRight(g)
  <2>1. st.created = h.stats.created
    BY <1>5, <1>13 DEF LeftStats
  <2> QED BY <1>7, <1>8, <1>14, <2>1 DEF Sound, TreeRight
<1>20. Keeps(h, g, m)
  <2>1. \A a : a \in Used(g) => a \in Used(h) /\ Word(g, a) = Word(h, a)
    BY <1>7, <1>9 DEF Used, Word
  <2>2. ASSUME NEW q \in 1 .. m, NEW a \in Of(h, q) PROVE a \in Of(g, q)
    <3>1. a[1] \in DOMAIN bl /\ a[1] \in ToSet(k[q].blocks)
      BY <1>8, <1>10 DEF Of
    <3>2. a \in Used(g)
      BY <1>7, <1>9, <3>1 DEF Of, Used
    <3> QED BY <1>7, <3>1, <3>2 DEF Of
  <2>3. ASSUME NEW q \in 1 .. m, NEW a \in Of(g, q) PROVE a \in Of(h, q)
    BY <1>7, <1>8, <2>1 DEF Of
  <2>4. \A q \in 1 .. m : Of(g, q) = Of(h, q)
    BY <2>2, <2>3
  <2>5. \A q \in 1 .. m : \A a \in Of(h, q) : Word(g, a) = Word(h, a)
    BY <2>1, <2>4 DEF Of
  <2> QED BY <2>4, <2>5 DEF Keeps
<1> QED BY <1>1, <1>2, <1>7, <1>8, <1>15, <1>17, <1>18, <1>19, <1>20 DEF Sound

-----------------------------------------------------------------------------
(***************************************************************************)
(* The invariant: every object lies in its region, and no two overlap.     *)
(***************************************************************************)
WellPlaced(h, ob) ==
    /\ \A o \in DOMAIN ob : ob[o].kind \in FlatKinds /\ FlatLies(h, ob[o])
    /\ \A o \in DOMAIN ob : \A q \in DOMAIN ob \ {o} :
         FlatFoot(h, ob[o]) \cap FlatFoot(h, ob[q]) = {}

\* What Return leaves of the heap h and the result g of a call.
Result(h, g) == IF g.died = "no" THEN [g EXCEPT !.ptr = Null] ELSE [h EXCEPT !.died = g.died]

\* A call returns to a sound heap.
LEMMA Returned ==
    ASSUME NEW h, Sound(h), NEW g, Sound(g)
    PROVE  /\ Sound(Result(h, g)) /\ Result(h, g).died = g.died
           /\ g.died = "no" => Extends(g, Result(h, g), {})
<1>1. CASE g.died = "no"
  <2>1. PICK k : k = [g EXCEPT !.ptr = Null]
    OBVIOUS
  <2>2. /\ Sound(k) /\ Used(k) = Used(g) /\ k.died = g.died /\ k.regions = g.regions
        /\ \A r : Of(k, r) = Of(g, r)
        /\ \A a : Word(k, a) = Word(g, a)
    BY <2>1, Pointed
  <2>3. Result(h, g) = k
    BY <1>1, <2>1 DEF Result
  <2> QED BY <2>2, <2>3 DEF Extends
<1>2. CASE g.died # "no"
  <2>1. PICK k : k = [h EXCEPT !.died = g.died]
    OBVIOUS
  <2>2. Shaped(h)
    BY DEF Sound, Well
  <2>3. /\ Shaped(k) /\ k.blocks = h.blocks /\ k.next = h.next /\ k.regions = h.regions
        /\ k.arena = h.arena /\ k.stats = h.stats /\ k.tree = h.tree /\ k.died = g.died
    BY <2>1, <2>2 DEF Shaped
  <2>4. Sound(k)
    BY <2>3, SoundAsWell
  <2>5. Result(h, g) = k
    BY <1>2, <2>1 DEF Result
  <2> QED BY <1>2, <2>3, <2>4, <2>5
<1> QED BY <1>1, <1>2

\* A heap that has only grown.
LEMMA PlacedOnward ==
    ASSUME NEW h, NEW g, NEW ob, WellPlaced(h, ob), Extends(h, g, {})
    PROVE  WellPlaced(g, ob)
<1>1. ASSUME NEW o \in DOMAIN ob
      PROVE  /\ ob[o].kind \in FlatKinds /\ FlatLies(g, ob[o])
             /\ FlatFoot(g, ob[o]) = FlatFoot(h, ob[o])
  <2>1. PICK x : x = ob[o]
    OBVIOUS
  <2>2. x.kind \in FlatKinds /\ FlatLies(h, x) /\ Span(x.ptr, HeadSize(x)) \cap {} = {}
    BY <2>1 DEF WellPlaced
  <2>3. FlatLies(g, x) /\ FlatFoot(g, x) = FlatFoot(h, x)
    BY <2>2, FlatKept
  <2> QED BY <2>1, <2>2, <2>3
<1> QED BY <1>1 DEF WellPlaced

\* A call on the object o.
LEMMA PlacedOn ==
    ASSUME NEW h, NEW g, NEW ob, WellPlaced(h, ob), NEW o \in DOMAIN ob,
           h.died = "no", g.died = "no", FlatChanges(h, g, ob[o])
    PROVE  WellPlaced(g, ob)
<1>1. PICK x : x = ob[o]
  OBVIOUS
<1>2. /\ Extends(h, g, FlatFoot(h, x)) /\ FlatLies(g, x)
      /\ FlatFoot(g, x) \cap Used(h) \subseteq FlatFoot(h, x)
      /\ x.kind \in FlatKinds
  BY <1>1 DEF FlatChanges, WellPlaced
<1>3. ASSUME NEW q \in DOMAIN ob \ {o}
      PROVE  /\ ob[q].kind \in FlatKinds /\ FlatLies(g, ob[q])
             /\ FlatFoot(g, ob[q]) = FlatFoot(h, ob[q])
             /\ FlatFoot(g, ob[q]) \cap FlatFoot(g, x) = {}
  <2>1. PICK y : y = ob[q]
    OBVIOUS
  <2>2. /\ y.kind \in FlatKinds /\ FlatLies(h, y)
        /\ FlatFoot(h, x) \cap FlatFoot(h, y) = {}
    BY <1>1, <2>1 DEF WellPlaced
  <2>3. Span(y.ptr, HeadSize(y)) \cap FlatFoot(h, x) = {} /\ FlatFoot(h, y) \subseteq Used(h)
    BY <2>2, FlatUsed DEF FlatFoot
  <2>4. FlatLies(g, y) /\ FlatFoot(g, y) = FlatFoot(h, y)
    BY <1>2, <2>2, <2>3, FlatKept
  <2>5. FlatFoot(g, y) \cap FlatFoot(g, x) = {}
    BY <1>2, <2>2, <2>3, <2>4
  <2> QED BY <2>1, <2>2, <2>4, <2>5
<1>4. ASSUME NEW p \in DOMAIN ob, NEW q \in DOMAIN ob \ {p}
      PROVE  FlatFoot(g, ob[p]) \cap FlatFoot(g, ob[q]) = {}
  <2>1. CASE p = o
    BY <1>1, <1>3, <2>1
  <2>2. CASE q = o
    BY <1>1, <1>3, <2>2
  <2>3. CASE p # o /\ q # o
    BY <1>3, <2>3 DEF WellPlaced
  <2> QED BY <2>1, <2>2, <2>3
<1>5. \A p \in DOMAIN ob : ob[p].kind \in FlatKinds /\ FlatLies(g, ob[p])
  BY <1>1, <1>2, <1>3
<1> QED BY <1>4, <1>5 DEF WellPlaced

\* A call that makes the object n.
LEMMA PlacedNew ==
    ASSUME NEW h, NEW g, NEW ob, WellPlaced(h, ob), NEW n, NEW x, x.kind \in FlatKinds,
           h.died = "no", g.died = "no", FlatCreates(h, g, x),
           NEW on, on = [o \in DOMAIN ob \cup {n} |-> IF o = n THEN x ELSE ob[o]]
    PROVE  WellPlaced(g, on)
<1>1. Extends(h, g, {}) /\ FlatLies(g, x) /\ FlatFoot(g, x) \cap Used(h) = {}
  BY DEF FlatCreates
<1>2. ASSUME NEW q \in DOMAIN ob
      PROVE  /\ ob[q].kind \in FlatKinds /\ FlatLies(g, ob[q])
             /\ FlatFoot(g, ob[q]) = FlatFoot(h, ob[q])
             /\ FlatFoot(g, ob[q]) \cap FlatFoot(g, x) = {}
  <2>1. PICK y : y = ob[q]
    OBVIOUS
  <2>2. y.kind \in FlatKinds /\ FlatLies(h, y) /\ Span(y.ptr, HeadSize(y)) \cap {} = {}
    BY <2>1 DEF WellPlaced
  <2>3. FlatLies(g, y) /\ FlatFoot(g, y) = FlatFoot(h, y)
    BY <1>1, <2>2, FlatKept
  <2>4. FlatFoot(h, y) \subseteq Used(h)
    BY <2>2, FlatUsed
  <2> QED BY <1>1, <2>1, <2>2, <2>3, <2>4
<1>3. on[n] = x /\ \A o \in DOMAIN on : o = n \/ (o # n /\ o \in DOMAIN ob /\ on[o] = ob[o])
  OBVIOUS
<1>4. \A p \in DOMAIN on : on[p].kind \in FlatKinds /\ FlatLies(g, on[p])
  BY <1>1, <1>2, <1>3
<1>5. ASSUME NEW p \in DOMAIN on, NEW q \in DOMAIN on \ {p}
      PROVE  FlatFoot(g, on[p]) \cap FlatFoot(g, on[q]) = {}
  <2>1. CASE p = n
    <3>1. q # n /\ q \in DOMAIN ob /\ on[q] = ob[q] /\ on[p] = x
      BY <1>3, <2>1
    <3> QED BY <1>2, <3>1
  <2>2. CASE q = n
    <3>1. p # n /\ p \in DOMAIN ob /\ on[p] = ob[p] /\ on[q] = x
      BY <1>3, <2>2
    <3> QED BY <1>2, <3>1
  <2>3. CASE p # n /\ q # n
    <3>1. p \in DOMAIN ob /\ on[p] = ob[p] /\ q \in DOMAIN ob \ {p} /\ on[q] = ob[q]
      BY <1>3, <2>3
    <3>2. FlatFoot(h, ob[p]) \cap FlatFoot(h, ob[q]) = {}
      BY <3>1 DEF WellPlaced
    <3> QED BY <1>2, <3>1, <3>2
  <2> QED BY <2>1, <2>2, <2>3
<1> QED BY <1>4, <1>5 DEF WellPlaced

\* The objects "ob" with x as object n.
With(ob, n, x) == [o \in DOMAIN ob \cup {n} |-> IF o = n THEN x ELSE ob[o]]

\* A call that makes an object, for an object of any name.
LEMMA PlacedWith ==
    \A h, g, ob, n, x :
       /\ WellPlaced(h, ob) /\ x.kind \in FlatKinds
       /\ h.died = "no" /\ g.died = "no" /\ FlatCreates(h, g, x)
       => WellPlaced(g, With(ob, n, x))
<1> SUFFICES ASSUME NEW h, NEW g, NEW ob, NEW n, NEW x, WellPlaced(h, ob), x.kind \in FlatKinds,
                    h.died = "no", g.died = "no", FlatCreates(h, g, x)
             PROVE  WellPlaced(g, With(ob, n, x))
  OBVIOUS
<1>1. PICK on : on = [o \in DOMAIN ob \cup {n} |-> IF o = n THEN x ELSE ob[o]]
  OBVIOUS
<1>2. WellPlaced(g, on)
  BY <1>1, PlacedNew
<1> QED BY <1>1, <1>2 DEF With

\* A region is made or freed: the objects of the regions that stay.
LEMMA HeadStays ==
    ASSUME NEW h, NEW g, NEW m \in Nat, Keeps(h, g, m),
           NEW x, x.kind \in FlatKinds, FlatLies(h, x), x.region \in 1 .. m
    PROVE  /\ Data(g, x.ptr) = Data(h, x.ptr) /\ Size(g, x.ptr) = Size(h, x.ptr)
           /\ Room(g, x.ptr) = Room(h, x.ptr) /\ FlatSize(g, x) = FlatSize(h, x)
           /\ x.kind # "buffer" => Home(g, x.ptr) = Home(h, x.ptr)
<1>1. PICK p, s, r : p = x.ptr /\ s = HeadSize(x) /\ r = x.region
  OBVIOUS
<1>2. /\ p \in Address /\ Span(p, s) \subseteq Of(h, r) /\ r \in 1 .. m
      /\ s \in Nat /\ s \in {3, 4} /\ (s = 3 <=> x.kind = "buffer")
  BY <1>1 DEF FlatLies, HeadSize
<1>3. Of(g, r) = Of(h, r) /\ \A a \in Of(h, r) : Word(g, a) = Word(h, a)
  BY <1>2 DEF Keeps
<1>4. ASSUME NEW i \in 0 .. s - 1 PROVE Word(g, Plus(p, i)) = Word(h, Plus(p, i))
  <2>1. Plus(p, i) \in Span(p, s)
    BY <1>2, SpanOf
  <2> QED BY <1>2, <1>3, <2>1
<1>5. /\ Data(g, p) = Data(h, p) /\ Size(g, p) = Size(h, p) /\ Room(g, p) = Room(h, p)
      /\ x.kind # "buffer" => Home(g, p) = Home(h, p)
  <2>1. 0 \in 0 .. s - 1 /\ 1 \in 0 .. s - 1 /\ 2 \in 0 .. s - 1
        /\ (x.kind # "buffer" => 3 \in 0 .. s - 1)
    BY <1>2
  <2> QED BY <1>2, <1>4, <2>1, HeadWords
<1>6. FlatSize(g, x) = FlatSize(h, x)
  BY <1>1, <1>5 DEF FlatSize
<1> QED BY <1>1, <1>5, <1>6

\* An object in a region that stays is where it was.
LEMMA FlatStays ==
    ASSUME NEW h, NEW g, NEW m \in Nat, Keeps(h, g, m), m <= Len(g.regions), Len(g.regions) \in Nat,
           NEW x, x.kind \in FlatKinds, FlatLies(h, x), x.region \in 1 .. m
    PROVE  FlatLies(g, x) /\ FlatFoot(g, x) = FlatFoot(h, x)
<1>1. PICK p, r : p = x.ptr /\ r = x.region
  OBVIOUS
<1>2. r \in 1 .. m /\ r \in 1 .. Len(g.regions)
  BY <1>1
<1>3. Of(g, r) = Of(h, r)
  BY <1>2 DEF Keeps
<1>4. /\ Data(g, p) = Data(h, p) /\ Size(g, p) = Size(h, p) /\ Room(g, p) = Room(h, p)
      /\ x.kind # "buffer" => Home(g, p) = Home(h, p)
      /\ FlatSize(g, x) = FlatSize(h, x)
  BY <1>1, HeadStays
<1>5. FlatLies(g, x)
  BY <1>1, <1>2, <1>3, <1>4 DEF FlatLies
<1>6. FlatFoot(g, x) = FlatFoot(h, x)
  BY <1>1, <1>4 DEF FlatFoot
<1> QED BY <1>5, <1>6

\* The same for all the objects of those regions.
LEMMA PlacedStays ==
    ASSUME NEW h, NEW g, NEW m \in Nat, Keeps(h, g, m), m <= Len(g.regions), Len(g.regions) \in Nat,
           NEW ob, WellPlaced(h, ob), NEW on, DOMAIN on \subseteq DOMAIN ob,
           \A o \in DOMAIN on : on[o] = ob[o] /\ ob[o].region \in 1 .. m
    PROVE  WellPlaced(g, on)
<1>1. ASSUME NEW o \in DOMAIN on
      PROVE  /\ on[o].kind \in FlatKinds /\ FlatLies(g, on[o])
             /\ FlatFoot(g, on[o]) = FlatFoot(h, ob[o])
  <2>1. PICK x : x = on[o]
    OBVIOUS
  <2>2. x = ob[o] /\ x.kind \in FlatKinds /\ FlatLies(h, x) /\ x.region \in 1 .. m
    BY <2>1 DEF WellPlaced
  <2>3. FlatLies(g, x) /\ FlatFoot(g, x) = FlatFoot(h, x)
    BY <2>2, FlatStays
  <2> QED BY <2>1, <2>2, <2>3
<1> QED BY <1>1 DEF WellPlaced

-----------------------------------------------------------------------------
(***************************************************************************)
(* What the objects hold after a call.                                     *)
(***************************************************************************)
Holds(h, ob) == [o \in DOMAIN ob |-> Value(h, ob[o])]

\* One object is changed to hold s, and no other.
LEMMA HoldsOn ==
    ASSUME NEW h, Sound(h), NEW g, NEW ob, WellPlaced(h, ob), NEW o \in DOMAIN ob, NEW s,
           h.died = "no", g.died = "no", Changes(h, g, ob[o], s)
    PROVE  Holds(g, ob) = [Holds(h, ob) EXCEPT ![o] = s]
<1>1. /\ Sound(g) /\ Extends(h, g, FlatFoot(h, ob[o])) /\ Value(g, ob[o]) = s
  BY DEF Changes, FlatChanges, Safe
<1>2. ASSUME NEW q \in DOMAIN ob, q # o PROVE Value(g, ob[q]) = Value(h, ob[q])
  <2>1. PICK x, A : x = ob[q] /\ A = FlatFoot(h, ob[o])
    OBVIOUS
  <2>2. x.kind \in FlatKinds /\ FlatLies(h, x) /\ FlatFoot(h, x) \cap A = {}
    BY <1>2, <2>1 DEF WellPlaced
  <2>3. Value(g, x) = Value(h, x)
    BY <1>1, <2>1, <2>2, ValueKept
  <2> QED BY <2>1, <2>3
<1> QED BY <1>1, <1>2 DEF Holds

\* A heap that has only grown.
LEMMA HoldsOnward ==
    ASSUME NEW h, Sound(h), NEW g, Sound(g), NEW ob, WellPlaced(h, ob), Extends(h, g, {})
    PROVE  Holds(g, ob) = Holds(h, ob)
<1>1. ASSUME NEW q \in DOMAIN ob PROVE Value(g, ob[q]) = Value(h, ob[q])
  <2>1. PICK x, A : x = ob[q] /\ A = {}
    OBVIOUS
  <2>2. x.kind \in FlatKinds /\ FlatLies(h, x) /\ FlatFoot(h, x) \cap A = {} /\ Extends(h, g, A)
    BY <2>1 DEF WellPlaced
  <2>3. Value(g, x) = Value(h, x)
    BY <2>2, ValueKept
  <2> QED BY <2>1, <2>3
<1> QED BY <1>1 DEF Holds

\* An object of a region that stays.
LEMMA ValueStays ==
    ASSUME NEW h, Sound(h), NEW g, Sound(g), NEW m \in Nat, Keeps(h, g, m), m <= Len(g.regions),
           Len(g.regions) \in Nat,
           NEW x, x.kind \in FlatKinds, FlatLies(h, x), x.region \in 1 .. m
    PROVE  Value(g, x) = Value(h, x)
<1>1. FlatLies(g, x) /\ FlatFoot(g, x) = FlatFoot(h, x)
  BY FlatStays
<1>2. PICK p, r, d, n : p = x.ptr /\ r = x.region /\ d = Data(h, p) /\ n = FlatSize(h, x)
  OBVIOUS
<1>3. /\ Data(g, p) = d /\ Size(g, p) = Size(h, p) /\ FlatSize(g, x) = n
  BY <1>2, HeadStays
<1>4. Of(g, r) = Of(h, r) /\ \A a \in Of(h, r) : Word(g, a) = Word(h, a)
  BY <1>2 DEF Keeps
<1>5. n \in Nat /\ (n # 0 => d \in Address /\ Span(d, n) \subseteq Of(h, r))
  BY <1>2, DataReadable DEF FlatLies
<1>6. ASSUME NEW i \in 0 .. n - 1 PROVE Word(g, Plus(d, i)) = Word(h, Plus(d, i))
  <2>1. n # 0
    BY <1>5
  <2>2. Plus(d, i) \in Span(d, n)
    BY <1>5, <2>1, SpanOf
  <2> QED BY <1>4, <1>5, <2>1, <2>2
<1>7. SameData(h, g, x)
  BY <1>1, <1>2, <1>3, <1>6 DEF SameData
<1> QED BY <1>7, ValueSame

\* The objects that stay hold what they held when another region is freed.
LEMMA HoldsStay ==
    ASSUME NEW h, Sound(h), NEW g, Sound(g), NEW m \in Nat, Keeps(h, g, m), m <= Len(g.regions),
           Len(g.regions) \in Nat,
           NEW ob, WellPlaced(h, ob), NEW on, DOMAIN on \subseteq DOMAIN ob,
           \A o \in DOMAIN on : on[o] = ob[o] /\ ob[o].region \in 1 .. m
    PROVE  Holds(g, on) = [o \in DOMAIN on |-> Holds(h, ob)[o]]
<1>1. ASSUME NEW o \in DOMAIN on PROVE Value(g, on[o]) = Value(h, ob[o])
  <2>1. PICK x : x = on[o]
    OBVIOUS
  <2>2. x = ob[o] /\ x.kind \in FlatKinds /\ FlatLies(h, x) /\ x.region \in 1 .. m
    BY <2>1 DEF WellPlaced
  <2>3. Value(g, x) = Value(h, x)
    BY <2>2, ValueStays
  <2> QED BY <2>1, <2>2, <2>3
<1> QED BY <1>1 DEF Holds

BudgetGood(b) ==
    /\ b = [calls |-> b.calls, objects |-> b.objects, regions |-> b.regions, kinds |-> b.kinds]
    /\ b.objects \in Nat

\* The inductive invariant.
PlacedInv ==
    /\ Sound(heap) /\ BudgetGood(budget) /\ budget.kinds \subseteq FlatKinds
    /\ Alive => WellPlaced(heap, objects)

\* A call is taken off the budget.
LEMMA BudgetSpent ==
    ASSUME NEW b, BudgetGood(b), NEW c, c = [b EXCEPT !.calls = @ - 1]
    PROVE  BudgetGood(c) /\ c.kinds = b.kinds
<1>1. c = [calls |-> b.calls - 1, objects |-> b.objects, regions |-> b.regions, kinds |-> b.kinds]
  BY DEF BudgetGood
<1> QED BY <1>1 DEF BudgetGood

-----------------------------------------------------------------------------
(***************************************************************************)
(* What the collections of the promise are.                                *)
(***************************************************************************)
Holding == [o \in DOMAIN objects |-> Content(heap, o)]
Homes == [o \in DOMAIN objects |-> objects[o].region]
Depth == IF Alive THEN Len(heap.regions) ELSE 0

\* What the promise reads of the objects is their values.
LEMMA HoldingIs ==
    ASSUME \A o \in DOMAIN objects : objects[o].kind \in FlatKinds
    PROVE  Holding = Holds(heap, objects)
<1>1. ASSUME NEW o \in DOMAIN objects PROVE Content(heap, o) = Value(heap, objects[o])
  <2>1. objects[o].kind = "string" \/ objects[o].kind = "buffer" \/ objects[o].kind = "vector"
    BY DEF FlatKinds
  <2> QED BY <2>1 DEF Content, IsText, IsVector, Value
<1> QED BY <1>1 DEF Holding, Holds

\* The same after a step.
LEMMA HoldingNext ==
    ASSUME \A o \in DOMAIN objects' : objects'[o].kind \in FlatKinds
    PROVE  Holding' = Holds(heap', objects')
<1>1. ASSUME NEW o \in DOMAIN objects' PROVE Content(heap, o)' = Value(heap', objects'[o])
  <2>1. objects'[o].kind = "string" \/ objects'[o].kind = "buffer" \/ objects'[o].kind = "vector"
    BY DEF FlatKinds
  <2> QED BY <2>1 DEF Content, IsText, IsVector, Value
<1> QED BY <1>1 DEF Holding, Holds

\* The program dies.
LEMMA DiesNow ==
    ASSUME NEW why, why # "no", heap'.died = why, answer' = <<why>>, objects' = <<>>
    PROVE  Promise!Dies(why)
<1>1. DOMAIN objects' = {}
  OBVIOUS
<1>2. \A f : DOMAIN f = {} /\ f = [o \in {} |-> f[o]] => f = <<>>
  OBVIOUS
<1>3. Holding' = <<>> /\ Homes' = <<>> /\ ~ Alive'
  BY <1>1, <1>2 DEF Holding, Homes, Alive
<1> QED BY <1>3 DEF Promise!Dies, Holding, Homes

-----------------------------------------------------------------------------
\* A call has returned.
LEMMA CallReturned ==
    ASSUME PlacedInv, NEW g, Sound(g), NEW call, NEW result, Return(g, call, result)
    PROVE  /\ heap' = Result(heap, g) /\ Sound(heap') /\ heap'.died = g.died
           /\ g.died = "no" => Extends(g, heap', {})
           /\ BudgetGood(budget') /\ budget'.kinds \subseteq FlatKinds
<1>1. heap' = Result(heap, g)
  BY DEF Return, Result
<1>2. Sound(heap)
  BY DEF PlacedInv
<1>3. Sound(Result(heap, g)) /\ Result(heap, g).died = g.died
      /\ (g.died = "no" => Extends(g, Result(heap, g), {}))
  BY <1>2, Returned
<1>4. BudgetGood(budget') /\ budget'.kinds = budget.kinds
  BY BudgetSpent DEF PlacedInv, Return
<1> QED BY <1>1, <1>3, <1>4 DEF PlacedInv

\* What the invariant says of a program alive.
LEMMA PlacedHolds ==
    ASSUME PlacedInv, Alive
    PROVE  /\ Sound(heap) /\ heap.died = "no" /\ WellPlaced(heap, objects)
           /\ Holding = Holds(heap, objects)
<1>1. WellPlaced(heap, objects)
  BY DEF PlacedInv
<1>2. \A o \in DOMAIN objects : objects[o].kind \in FlatKinds
  BY <1>1 DEF WellPlaced
<1> QED BY <1>1, <1>2, HoldingIs DEF PlacedInv, Alive

\* What must be shown for the invariant after a step.
LEMMA PlacedNext ==
    ASSUME Sound(heap'), BudgetGood(budget'), budget'.kinds \subseteq FlatKinds,
           WellPlaced(heap', objects')
    PROVE  PlacedInv' /\ Holding' = Holds(heap', objects')
<1>1. \A o \in DOMAIN objects' : objects'[o].kind \in FlatKinds
  BY DEF WellPlaced
<1>2. PlacedInv'
  BY DEF PlacedInv
<1> QED BY <1>1, <1>2, HoldingNext

\* The program has died in the call.
LEMMA DeadStep ==
    ASSUME PlacedInv, NEW g, Sound(g), g.died # "no", NEW call, NEW result, Return(g, call, result),
           objects' = <<>>
    PROVE  PlacedInv' /\ asked' = call /\ Promise!Dies(g.died)
<1>1. /\ Sound(heap') /\ heap'.died = g.died
      /\ BudgetGood(budget') /\ budget'.kinds \subseteq FlatKinds
  BY CallReturned
<1>2. asked' = call /\ answer' = <<g.died>>
  BY DEF Return
<1>3. Promise!Dies(g.died)
  BY <1>1, <1>2, DiesNow
<1>4. PlacedInv'
  BY <1>1 DEF PlacedInv, Alive
<1> QED BY <1>2, <1>3, <1>4

\* What a call on the object o promises.
Changed(o, s, result) ==
    /\ Alive' /\ Holding' = [Holding EXCEPT ![o] = s] /\ Homes' = Homes /\ Depth' = Depth
    /\ answer' = result

\* A call on the object o.
LEMMA OnStep ==
    ASSUME PlacedInv, Alive, NEW o \in DOMAIN objects, NEW g, NEW s, Changes(heap, g, objects[o], s),
           NEW call, NEW result, On(g, call, result)
    PROVE  PlacedInv' /\ asked' = call /\ (Changed(o, s, result) \/ Promise!Exhausted)
<1>1. /\ Safe(heap, g) /\ Sound(g) /\ Return(g, call, result)
      /\ objects' = IF g.died = "no" THEN objects ELSE <<>>
  BY DEF Changes, FlatChanges, Safe, On
<1>2. /\ Sound(heap) /\ heap.died = "no" /\ WellPlaced(heap, objects)
      /\ Holding = Holds(heap, objects)
  BY PlacedHolds
<1>3. CASE g.died # "no"
  <2>1. g.died = "overflow" /\ objects' = <<>>
    BY <1>1, <1>2, <1>3 DEF Safe
  <2>2. PlacedInv' /\ asked' = call /\ Promise!Dies("overflow")
    BY <1>1, <1>3, <2>1, DeadStep
  <2> QED BY <2>2 DEF Promise!Exhausted
<1>4. CASE g.died = "no"
  <2>1. /\ heap' = Result(heap, g) /\ Sound(heap') /\ heap'.died = "no" /\ Extends(g, heap', {})
        /\ BudgetGood(budget') /\ budget'.kinds \subseteq FlatKinds
    BY <1>1, <1>4, CallReturned
  <2>2. objects' = objects /\ asked' = call /\ answer' = result
    BY <1>1, <1>4 DEF Return
  <2>3. WellPlaced(g, objects)
    BY <1>2, <1>4, PlacedOn DEF Changes
  <2>4. WellPlaced(heap', objects')
    BY <2>1, <2>2, <2>3, PlacedOnward
  <2>5. PlacedInv' /\ Holding' = Holds(heap', objects')
    BY <2>1, <2>4, PlacedNext
  <2>6. Holds(g, objects) = [Holds(heap, objects) EXCEPT ![o] = s]
    BY <1>2, <1>4, HoldsOn
  <2>7. Holds(heap', objects) = Holds(g, objects)
    BY <1>1, <2>1, <2>3, HoldsOnward
  <2>8. Len(heap'.regions) = Len(heap.regions)
    BY <1>1, <2>1 DEF Extends, Safe
  <2>9. Alive' /\ Depth' = Depth
    BY <2>1, <2>8 DEF Alive, Depth
  <2>10. Homes' = Homes
    BY <2>2 DEF Homes
  <2>11. Holding' = [Holding EXCEPT ![o] = s]
    BY <1>2, <2>2, <2>5, <2>6, <2>7
  <2> QED BY <2>2, <2>5, <2>9, <2>10, <2>11 DEF Changed
<1> QED BY <1>3, <1>4

\* A call outside the bounds.
LEMMA OutStep ==
    ASSUME PlacedInv, Alive, NEW g, g = Die(heap, "bounds"), NEW call, NEW result, On(g, call, result)
    PROVE  PlacedInv' /\ asked' = call /\ Promise!Dies("bounds")
<1>1. Sound(g) /\ g.died = "bounds"
  <2>1. Sound(heap) /\ heap.died = "no"
    BY DEF PlacedInv, Alive
  <2> QED BY <2>1, Dead
<1>2. Return(g, call, result) /\ objects' = <<>>
  BY <1>1 DEF On
<1> QED BY <1>1, <1>2, DeadStep

\* What a call that makes an object promises.
Made(s, r) ==
    /\ Alive' /\ NextObject \notin DOMAIN objects
    /\ Holding' = [o \in DOMAIN Holding \cup {NextObject} |-> IF o = NextObject THEN s ELSE Holding[o]]
    /\ Homes' = [o \in DOMAIN Homes \cup {NextObject} |-> IF o = NextObject THEN r ELSE Homes[o]]
    /\ Depth' = Depth /\ answer' = <<"done">>

\* The name of the next object is not in use.
LEMMA NextUnused ==
    ASSUME PlacedInv, Unused # {}
    PROVE  NextObject \notin DOMAIN objects
<1>1. budget.objects \in Nat
  BY DEF PlacedInv, BudgetGood
<1>2. PICK S : S = Unused
  OBVIOUS
<1>3. S \in SUBSET Nat /\ S # {} /\ S \cap DOMAIN objects = {}
  BY <1>1, <1>2 DEF Unused
<1>4. PICK a \in S : \A b \in S : a <= b
  BY <1>3, Least
<1>5. (CHOOSE x \in S : \A y \in S : x <= y) \in S
  BY <1>4
<1>6. NextObject \in S
  BY <1>2, <1>5 DEF NextObject, Min
<1> QED BY <1>3, <1>6

\* A call that makes an object.
LEMMA NewStep ==
    ASSUME PlacedInv, Alive, Unused # {}, NEW kind \in FlatKinds, NEW r, NEW g, NEW s,
           Creates(heap, g, Object(g, kind, r), s), NEW call, New(g, kind, r, call)
    PROVE  PlacedInv' /\ asked' = call /\ (Made(s, r) \/ Promise!Exhausted)
<1>1. PICK n, x : n = NextObject /\ x = Object(g, kind, r)
  OBVIOUS
<1>2. /\ objects' = IF g.died = "no" THEN [o \in DOMAIN objects \cup {n} |-> IF o = n THEN x ELSE objects[o]]
                    ELSE <<>>
      /\ Return(g, call, <<"done">>)
  BY <1>1 DEF New, Object
<1>3. Safe(heap, g) /\ Sound(g) /\ x.kind \in FlatKinds /\ x.region = r /\ Creates(heap, g, x, s)
  BY <1>1 DEF Creates, FlatCreates, Safe, Object
<1>4. /\ Sound(heap) /\ heap.died = "no" /\ WellPlaced(heap, objects)
      /\ Holding = Holds(heap, objects)
  BY PlacedHolds
<1>5. CASE g.died # "no"
  <2>1. g.died = "overflow" /\ objects' = <<>>
    BY <1>2, <1>3, <1>4, <1>5 DEF Safe
  <2>2. PlacedInv' /\ asked' = call /\ Promise!Dies("overflow")
    BY <1>2, <1>3, <1>5, <2>1, DeadStep
  <2> QED BY <2>2 DEF Promise!Exhausted
<1>6. CASE g.died = "no"
  <2>1. /\ heap' = Result(heap, g) /\ Sound(heap') /\ heap'.died = "no" /\ Extends(g, heap', {})
        /\ BudgetGood(budget') /\ budget'.kinds \subseteq FlatKinds
    BY <1>2, <1>3, <1>6, CallReturned
  <2>2. PICK ob, on : /\ ob = objects
                      /\ on = [o \in DOMAIN ob \cup {n} |-> IF o = n THEN x ELSE ob[o]]
    OBVIOUS
  <2>3. objects' = on /\ asked' = call /\ answer' = <<"done">>
    BY <1>2, <1>6, <2>2 DEF Return
  <2>4. WellPlaced(g, on)
    <3>1. FlatCreates(heap, g, x) /\ WellPlaced(heap, ob) /\ x.kind \in FlatKinds
      BY <1>3, <1>4, <2>2 DEF Creates
    <3>2. on = With(ob, n, x)
      BY <2>2 DEF With
    <3> QED BY <1>4, <1>6, <3>1, <3>2, PlacedWith
  <2>5. WellPlaced(heap', objects')
    BY <2>1, <2>3, <2>4, PlacedOnward
  <2>6. PlacedInv' /\ Holding' = Holds(heap', objects')
    BY <2>1, <2>5, PlacedNext
  <2>7. Holds(heap', on) = Holds(g, on)
    BY <1>3, <2>1, <2>4, HoldsOnward
  <2>8. Value(g, x) = s /\ Extends(heap, g, {})
    BY <1>3, <1>4, <1>6 DEF Creates, FlatCreates
  <2>9. Holds(g, ob) = Holds(heap, ob)
    BY <1>3, <1>4, <2>2, <2>8, HoldsOnward
  <2>10. n \notin DOMAIN ob
    BY <1>1, <2>2, NextUnused
  <2>11. Holds(g, on) = [o \in DOMAIN Holding \cup {n} |-> IF o = n THEN s ELSE Holding[o]]
    <3>1. DOMAIN Holding = DOMAIN ob /\ \A o \in DOMAIN ob : Holding[o] = Value(g, ob[o])
      BY <1>4, <2>2, <2>9 DEF Holds
    <3>2. DOMAIN on = DOMAIN ob \cup {n} /\ \A o \in DOMAIN on : on[o] = IF o = n THEN x ELSE ob[o]
      BY <2>2
    <3>3. ASSUME NEW o \in DOMAIN on PROVE Value(g, on[o]) = IF o = n THEN s ELSE Holding[o]
      BY <2>8, <3>1, <3>2
    <3> QED BY <3>1, <3>2, <3>3 DEF Holds
  <2>12. Homes' = [o \in DOMAIN Homes \cup {n} |-> IF o = n THEN r ELSE Homes[o]]
    <3>1. Homes' = [o \in DOMAIN on |-> on[o].region] /\ Homes = [o \in DOMAIN ob |-> ob[o].region]
      BY <2>2, <2>3 DEF Homes
    <3>2. DOMAIN on = DOMAIN ob \cup {n} /\ \A o \in DOMAIN on : on[o] = IF o = n THEN x ELSE ob[o]
      BY <2>2
    <3>3. ASSUME NEW o \in DOMAIN on PROVE on[o].region = IF o = n THEN r ELSE Homes[o]
      BY <1>3, <3>1, <3>2
    <3>4. DOMAIN Homes = DOMAIN ob
      BY <3>1
    <3> QED BY <3>1, <3>2, <3>3, <3>4
  <2>13. Alive' /\ Depth' = Depth
    <3>1. Len(heap'.regions) = Len(heap.regions)
      BY <1>3, <2>1 DEF Extends, Safe
    <3> QED BY <2>1, <3>1 DEF Alive, Depth
  <2>14. Holding' = [o \in DOMAIN Holding \cup {n} |-> IF o = n THEN s ELSE Holding[o]]
    BY <2>3, <2>6, <2>7, <2>11
  <2> QED BY <1>1, <2>2, <2>3, <2>6, <2>10, <2>12, <2>13, <2>14 DEF Made
<1> QED BY <1>5, <1>6

\* A slice outside the bounds.
LEMMA OutNew ==
    ASSUME PlacedInv, Alive, NEW g, g = Die(heap, "bounds"), NEW kind, NEW r, NEW call, New(g, kind, r, call)
    PROVE  PlacedInv' /\ asked' = call /\ Promise!Dies("bounds")
<1>1. Sound(g) /\ g.died = "bounds"
  <2>1. Sound(heap) /\ heap.died = "no"
    BY DEF PlacedInv, Alive
  <2> QED BY <2>1, Dead
<1>2. Return(g, call, <<"done">>) /\ objects' = <<>>
  BY <1>1 DEF New
<1> QED BY <1>1, <1>2, DeadStep

\* What the invariant says of an object held.
LEMMA HeldLies ==
    ASSUME PlacedInv, Alive, NEW o \in DOMAIN objects
    PROVE  /\ Sound(heap) /\ heap.died = "no" /\ FlatLies(heap, objects[o])
           /\ objects[o].kind \in FlatKinds
BY DEF PlacedInv, Alive, WellPlaced

\* What the promise reads of an object held is its value.
LEMMA HeldValue ==
    ASSUME PlacedInv, Alive, NEW o \in DOMAIN objects
    PROVE  o \in DOMAIN Holding /\ Holding[o] = Value(heap, objects[o])
BY PlacedHolds DEF Holds

\* The objects of kinds that do not occur.
LEMMA NoneHeld ==
    ASSUME PlacedInv, Alive
    PROVE  \A K : K \cap FlatKinds = {} => Held(K) = {}
<1> SUFFICES ASSUME NEW K, K \cap FlatKinds = {}, NEW o \in Held(K) PROVE FALSE
  OBVIOUS
<1>1. o \in DOMAIN objects /\ objects[o].kind \in K
  BY DEF Held
<1> QED BY <1>1, HeldLies

\* What calls do is what is promised.
LEMMA BecomesSo ==
    ASSUME Alive, NEW o, asked'.on = o, NEW s, NEW result, Changed(o, s, result)
    PROVE  Promise!Becomes(s, result) /\ Promise!Self = Holding[o]
<1>1. /\ Alive' /\ Holding' = [Holding EXCEPT ![asked'.on] = s] /\ Homes' = Homes /\ Depth' = Depth
      /\ answer' = result
  BY DEF Changed
<1>2. Promise!Unmoved
  BY <1>1 DEF Promise!Unmoved, Homes, Depth
<1>3. Promise!Done(result)
  BY <1>1 DEF Promise!Done
<1>4. Promise!Becomes(s, result)
  BY <1>1, <1>2, <1>3 DEF Promise!Becomes, Holding
<1>5. Promise!Self = Holding[o]
  BY DEF Promise!Self, Holding
<1> QED BY <1>4, <1>5

\* A call that made an object did what the promise says of it.
LEMMA MakesSo ==
    ASSUME Alive, asked'.on = NextObject, NEW s, NEW r, Made(s, r)
    PROVE  Promise!Makes(s, r)
<1>1. /\ Alive' /\ asked'.on \notin DOMAIN Holding
      /\ Holding' = [o \in DOMAIN Holding \cup {asked'.on} |-> IF o = asked'.on THEN s ELSE Holding[o]]
      /\ Homes' = [o \in DOMAIN Homes \cup {asked'.on} |-> IF o = asked'.on THEN r ELSE Homes[o]]
      /\ Depth' = Depth /\ answer' = <<"done">>
  BY DEF Made, Holding
<1>2. Promise!Done(<<"done">>)
  BY <1>1 DEF Promise!Done
<1>3. Holding' = Promise!With(Holding, asked'.on, s) /\ Homes' = Promise!With(Homes, asked'.on, r)
  BY <1>1 DEF Promise!With
<1> QED BY <1>1, <1>2, <1>3 DEF Promise!Makes, Holding, Homes, Depth

\* AppendText keeps the invariant and does what is promised.
LEMMA AppendTextStep ==
    ASSUME PlacedInv, AppendText
    PROVE  PlacedInv' /\ (Promise!AppendText \/ Promise!Exhausted)
<1>1. PICK p \in Held({"buffer", "text"}), s \in Literals.texts :
        On(BufferAppend(heap, objects[p].region, At(p), s),
           [op |-> "append", on |-> p, value |-> s], <<"done">>)
  BY DEF AppendText
<1>2. Alive
  BY DEF AppendText, Ready
<1>3. p \in DOMAIN objects /\ objects[p].kind \in {"buffer", "text"}
  BY DEF Held
<1>4. /\ Sound(heap) /\ heap.died = "no" /\ FlatLies(heap, objects[p])
      /\ objects[p].kind = "buffer"
  BY <1>2, <1>3, HeldLies DEF FlatKinds
<1>5. IsSequence(s)
  BY ProgramsAssumption
<1>6. PICK x : x = objects[p]
  OBVIOUS
<1>7. Changes(heap, BufferAppend(heap, x.region, x.ptr, s), x, Value(heap, x) \o s)
  BY <1>4, <1>5, <1>6, BufferAppendSafe
<1>8. At(p) = x.ptr
  BY <1>6 DEF At
<1>9. PICK call, v : call = [op |-> "append", on |-> p, value |-> s] /\ v = Value(heap, x) \o s
  OBVIOUS
<1>10. PlacedInv' /\ asked' = call /\ (Changed(p, v, <<"done">>) \/ Promise!Exhausted)
  BY <1>1, <1>2, <1>3, <1>6, <1>7, <1>8, <1>9, OnStep
<1>11. asked'.op = "append" /\ asked'.on = p /\ asked'.value = s
  BY <1>9, <1>10
<1>12. ASSUME Changed(p, v, <<"done">>) PROVE Promise!AppendText
  <2>1. Promise!Becomes(v, <<"done">>) /\ Promise!Self = Value(heap, x)
    BY <1>2, <1>3, <1>6, <1>11, <1>12, BecomesSo, HeldValue
  <2> QED BY <1>9, <1>11, <2>1 DEF Promise!AppendText
<1> QED BY <1>10, <1>12

\* Push does.
LEMMA PushStep ==
    ASSUME PlacedInv, Push
    PROVE  PlacedInv' /\ (Promise!Push \/ Promise!Exhausted)
<1>1. Alive
  BY DEF Push, Ready
<1>2. Held({"list"}) = {}
  BY <1>1, NoneHeld DEF FlatKinds
<1>3. PICK p \in Held({"vector"}) :
        On(VectorPush(heap, At(p), Fresh), [op |-> "push", on |-> p, value |-> Fresh], <<"done">>)
  BY <1>2 DEF Push
<1>4. p \in DOMAIN objects /\ objects[p].kind = "vector"
  BY DEF Held
<1>5. Sound(heap) /\ heap.died = "no" /\ FlatLies(heap, objects[p])
  BY <1>1, <1>4, HeldLies
<1>6. PICK x : x = objects[p]
  OBVIOUS
<1>7. Changes(heap, VectorPush(heap, x.ptr, Fresh), x, Append(Value(heap, x), Fresh))
  BY <1>4, <1>5, <1>6, VectorPushSafe
<1>8. At(p) = x.ptr
  BY <1>6 DEF At
<1>9. PICK call, v : call = [op |-> "push", on |-> p, value |-> Fresh] /\ v = Append(Value(heap, x), Fresh)
  OBVIOUS
<1>10. PlacedInv' /\ asked' = call /\ (Changed(p, v, <<"done">>) \/ Promise!Exhausted)
  BY <1>1, <1>3, <1>4, <1>6, <1>7, <1>8, <1>9, OnStep
<1>11. asked'.op = "push" /\ asked'.on = p /\ asked'.value = Fresh
  BY <1>9, <1>10
<1>12. ASSUME Changed(p, v, <<"done">>) PROVE Promise!Push
  <2>1. Promise!Becomes(v, <<"done">>) /\ Promise!Self = Value(heap, x)
    BY <1>1, <1>4, <1>6, <1>11, <1>12, BecomesSo, HeldValue
  <2> QED BY <1>9, <1>11, <2>1 DEF Promise!Push
<1> QED BY <1>10, <1>12

\* Extend does, of a vector by itself too.
LEMMA ExtendStep ==
    ASSUME PlacedInv, Extend
    PROVE  PlacedInv' /\ (Promise!Extend \/ Promise!Exhausted)
<1>1. Alive
  BY DEF Extend, Ready
<1>2. Held({"list"}) = {} /\ Held({"merged"}) = {}
  BY <1>1, NoneHeld DEF FlatKinds
<1>3. PICK p \in Held({"vector"}), q \in Held({"vector"}) :
        On(VectorExtend(heap, At(p), At(q)), [op |-> "extend", on |-> p, from |-> q], <<"done">>)
  BY <1>2 DEF Extend
<1>4. /\ p \in DOMAIN objects /\ objects[p].kind = "vector"
      /\ q \in DOMAIN objects /\ objects[q].kind = "vector"
  BY DEF Held
<1>5. /\ Sound(heap) /\ heap.died = "no" /\ FlatLies(heap, objects[p])
      /\ FlatLies(heap, objects[q])
  BY <1>1, <1>4, HeldLies
<1>6. PICK x, y : x = objects[p] /\ y = objects[q]
  OBVIOUS
<1>7. y = x \/ FlatFoot(heap, y) \cap FlatFoot(heap, x) = {}
  <2>1. CASE q = p
    BY <1>6, <2>1
  <2>2. CASE q # p
    BY <1>1, <1>4, <1>6, <2>2 DEF PlacedInv, WellPlaced
  <2> QED BY <2>1, <2>2
<1>8. Changes(heap, VectorExtend(heap, x.ptr, y.ptr), x, Value(heap, x) \o Value(heap, y))
  <2>1. x.kind = "vector" /\ y.kind = "vector" /\ FlatLies(heap, x) /\ FlatLies(heap, y)
    BY <1>4, <1>5, <1>6
  <2> QED BY <1>5, <1>7, <2>1, VectorExtendSafe
<1>9. At(p) = x.ptr /\ At(q) = y.ptr
  BY <1>6 DEF At
<1>10. PICK call, v : call = [op |-> "extend", on |-> p, from |-> q] /\ v = Value(heap, x) \o Value(heap, y)
  OBVIOUS
<1>11. PlacedInv' /\ asked' = call /\ (Changed(p, v, <<"done">>) \/ Promise!Exhausted)
  BY <1>1, <1>3, <1>4, <1>6, <1>8, <1>9, <1>10, OnStep
<1>12. asked'.op = "extend" /\ asked'.on = p /\ asked'.from = q
  BY <1>10, <1>11
<1>13. ASSUME Changed(p, v, <<"done">>) PROVE Promise!Extend
  <2>1. Promise!Becomes(v, <<"done">>) /\ Promise!Self = Value(heap, x)
    BY <1>1, <1>4, <1>6, <1>12, <1>13, BecomesSo, HeldValue
  <2>2. Promise!Other = Value(heap, y)
    <3>1. Holding[q] = Value(heap, y)
      BY <1>1, <1>4, <1>6, HeldValue
    <3> QED BY <1>12, <3>1 DEF Promise!Other, Holding
  <2> QED BY <1>10, <1>12, <2>1, <2>2 DEF Promise!Extend
<1> QED BY <1>11, <1>13

\* Pop does, and of an empty vector dies.
LEMMA PopStep ==
    ASSUME PlacedInv, Pop
    PROVE  PlacedInv' /\ (Promise!Pop \/ Promise!Exhausted)
<1>1. Alive
  BY DEF Pop, Ready
<1>2. PICK p \in Held({"vector", "list"}) :
        On(VectorPop(heap, At(p)), [op |-> "pop", on |-> p],
           IF Size(heap, At(p)) = 0 THEN <<>> ELSE <<"value", LastOf(p)>>)
  BY DEF Pop
<1>3. p \in DOMAIN objects /\ objects[p].kind \in {"vector", "list"}
  BY DEF Held
<1>4. /\ Sound(heap) /\ heap.died = "no" /\ FlatLies(heap, objects[p])
      /\ objects[p].kind = "vector"
  BY <1>1, <1>3, HeldLies DEF FlatKinds
<1>5. PICK x, v, n : x = objects[p] /\ v = Value(heap, x) /\ n = Size(heap, x.ptr)
  OBVIOUS
<1>6. At(p) = x.ptr
  BY <1>5 DEF At
<1>7. PICK call, result : /\ call = [op |-> "pop", on |-> p]
                          /\ result = IF n = 0 THEN <<>> ELSE <<"value", LastOf(p)>>
                          /\ On(VectorPop(heap, x.ptr), call, result)
  BY <1>2, <1>5, <1>6
<1>8. /\ n \in Nat /\ IsSequence(v) /\ Len(v) = n /\ v = Holding[p]
      /\ \A i \in 0 .. n - 1 : Nth(heap, x, i) = v[i + 1]
  <2>1. x.kind \in FlatKinds /\ Sound(heap) /\ FlatLies(heap, x) /\ x.kind = "vector"
    BY <1>4, <1>5 DEF FlatKinds
  <2>2. v = Holding[p]
    BY <1>1, <1>3, <1>5, HeldValue
  <2>3. /\ IsSequence(Value(heap, x)) /\ Len(Value(heap, x)) = Size(heap, x.ptr) /\ Size(heap, x.ptr) \in Nat
        /\ \A i \in 0 .. Size(heap, x.ptr) - 1 : Nth(heap, x, i) = Value(heap, x)[i + 1]
    BY <2>1, ValueIs
  <2> QED BY <1>5, <2>2, <2>3
<1>9. CASE n = 0
  <2>1. VectorPop(heap, x.ptr) = Die(heap, "bounds")
    BY <1>5, <1>9 DEF VectorPop
  <2>2. PlacedInv' /\ asked' = call /\ Promise!Dies("bounds")
    BY <1>1, <1>7, <2>1, OutStep
  <2>3. asked'.op = "pop" /\ asked'.on = p
    BY <1>7, <2>2
  <2>4. Promise!Self = <<>>
    <3>1. v = <<>>
      BY <1>8, <1>9, EmptySeq
    <3> QED BY <1>8, <2>3, <3>1 DEF Promise!Self, Holding
  <2> QED BY <2>2, <2>3, <2>4 DEF Promise!Pop
<1>10. CASE n # 0
  <2>1. PICK w : w = SubSeq(v, 1, Len(v) - 1)
    OBVIOUS
  <2>2. Changes(heap, VectorPop(heap, x.ptr), x, w)
    BY <1>4, <1>5, <1>10, <2>1, VectorPopSafe
  <2>3. PlacedInv' /\ asked' = call /\ (Changed(p, w, result) \/ Promise!Exhausted)
    BY <1>1, <1>3, <1>5, <1>7, <2>2, OnStep
  <2>4. asked'.op = "pop" /\ asked'.on = p
    BY <1>7, <2>3
  <2>5. result = <<"value", v[Len(v)]>>
    <3>1. PICK i \in Nat : i = n - 1 /\ i \in 0 .. n - 1 /\ i + 1 = n
      <4>1. n - 1 \in Nat /\ n - 1 \in 0 .. n - 1 /\ (n - 1) + 1 = n
        BY <1>8, <1>10
      <4> QED BY <4>1
    <3>2. LastOf(p) = Nth(heap, x, i)
      BY <1>5, <1>6, <3>1 DEF LastOf, Nth
    <3> QED BY <1>7, <1>8, <1>10, <3>1, <3>2
  <2>6. v # <<>>
    BY <1>8, <1>10
  <2>7. ASSUME Changed(p, w, result) PROVE Promise!Pop
    <3>1. Promise!Becomes(w, result) /\ Promise!Self = v
      BY <1>1, <1>8, <2>4, <2>7, BecomesSo
    <3> QED BY <2>1, <2>4, <2>5, <2>6, <3>1 DEF Promise!Pop
  <2> QED BY <2>3, <2>7
<1> QED BY <1>9, <1>10

\* Clear does.
LEMMA ClearStep ==
    ASSUME PlacedInv, Clear
    PROVE  PlacedInv' /\ (Promise!Clear \/ Promise!Exhausted)
<1>1. Alive
  BY DEF Clear, Ready
<1>2. Held({"dict"}) = {}
  BY <1>1, NoneHeld DEF FlatKinds
<1>3. PICK p \in Held({"vector"}) :
        On(VectorClear(heap, At(p)), [op |-> "clear", on |-> p], <<"done">>)
  BY <1>2 DEF Clear
<1>4. p \in DOMAIN objects /\ objects[p].kind = "vector"
  BY DEF Held
<1>5. Sound(heap) /\ heap.died = "no" /\ FlatLies(heap, objects[p])
  BY <1>1, <1>4, HeldLies
<1>6. PICK x : x = objects[p]
  OBVIOUS
<1>7. Changes(heap, VectorClear(heap, x.ptr), x, <<>>)
  BY <1>4, <1>5, <1>6, VectorClearSafe
<1>8. At(p) = x.ptr
  BY <1>6 DEF At
<1>9. PICK call, v : call = [op |-> "clear", on |-> p] /\ v = <<>>
  OBVIOUS
<1>10. PlacedInv' /\ asked' = call /\ (Changed(p, v, <<"done">>) \/ Promise!Exhausted)
  BY <1>1, <1>3, <1>4, <1>6, <1>7, <1>8, <1>9, OnStep
<1>11. asked'.op = "clear" /\ asked'.on = p
  BY <1>9, <1>10
<1>12. ASSUME Changed(p, v, <<"done">>) PROVE Promise!Clear
  <2>1. Promise!Becomes(v, <<"done">>)
    BY <1>1, <1>11, <1>12, BecomesSo
  <2> QED BY <1>9, <1>11, <2>1 DEF Promise!Clear
<1> QED BY <1>10, <1>12

\* Set does, and dies outside the bounds.
LEMMA SetStep ==
    ASSUME PlacedInv, Set
    PROVE  PlacedInv' /\ (Promise!Set \/ Promise!Exhausted)
<1>1. Alive
  BY DEF Set, Ready
<1>2. PICK p \in Held({"vector"}), i \in Bounds \ {Omitted} :
        On(VectorSet(heap, At(p), i, Fresh),
           [op |-> "set", on |-> p, at |-> i, value |-> Fresh], <<"done">>)
  BY DEF Set
<1>3. p \in DOMAIN objects /\ objects[p].kind = "vector"
  BY DEF Held
<1>4. Sound(heap) /\ heap.died = "no" /\ FlatLies(heap, objects[p])
  BY <1>1, <1>3, HeldLies
<1>5. PICK x, v, n : x = objects[p] /\ v = Value(heap, x) /\ n = Size(heap, x.ptr)
  OBVIOUS
<1>6. At(p) = x.ptr
  BY <1>5 DEF At
<1>7. PICK call, g : /\ call = [op |-> "set", on |-> p, at |-> i, value |-> Fresh]
                     /\ g = VectorSet(heap, x.ptr, i, Fresh) /\ On(g, call, <<"done">>)
  BY <1>2, <1>6
<1>8. Len(v) = n /\ v = Holding[p]
  <2>1. x.kind \in FlatKinds /\ Sound(heap) /\ FlatLies(heap, x)
    BY <1>3, <1>4, <1>5 DEF FlatKinds
  <2>2. v = Holding[p]
    BY <1>1, <1>3, <1>5, HeldValue
  <2> QED BY <1>5, <2>1, <2>2, ValueIs
<1>9. CASE i \in 0 .. n - 1
  <2>1. PICK w : w = [v EXCEPT ![i + 1] = Fresh]
    OBVIOUS
  <2>2. Changes(heap, g, x, w)
    BY <1>3, <1>4, <1>5, <1>7, <1>9, <2>1, VectorSetSafe
  <2>3. PlacedInv' /\ asked' = call /\ (Changed(p, w, <<"done">>) \/ Promise!Exhausted)
    BY <1>1, <1>3, <1>5, <1>7, <2>2, OnStep
  <2>4. asked'.op = "set" /\ asked'.on = p /\ asked'.at = i /\ asked'.value = Fresh
    BY <1>7, <2>3
  <2>5. ASSUME Changed(p, w, <<"done">>) PROVE Promise!Set
    <3>1. Promise!Becomes(w, <<"done">>) /\ Promise!Self = v
      BY <1>1, <1>8, <2>4, <2>5, BecomesSo
    <3> QED BY <1>8, <1>9, <2>1, <2>4, <3>1 DEF Promise!Set
  <2> QED BY <2>3, <2>5
<1>10. CASE i \notin 0 .. n - 1
  <2>1. g = Die(heap, "bounds")
    BY <1>5, <1>7, <1>10 DEF VectorSet
  <2>2. PlacedInv' /\ asked' = call /\ Promise!Dies("bounds")
    BY <1>1, <1>7, <2>1, OutStep
  <2>3. asked'.op = "set" /\ asked'.on = p /\ asked'.at = i
    BY <1>7, <2>2
  <2>4. Promise!Self = v
    BY <1>8, <2>3 DEF Promise!Self, Holding
  <2> QED BY <1>8, <1>10, <2>2, <2>3, <2>4 DEF Promise!Set
<1> QED BY <1>9, <1>10

\* Get does, and dies outside the bounds.
LEMMA GetStep ==
    ASSUME PlacedInv, Get
    PROVE  PlacedInv' /\ (Promise!Get \/ Promise!Exhausted)
<1>1. Alive
  BY DEF Get, Ready
<1>2. PICK p \in Held({"vector", "string"}), i \in Bounds \ {Omitted} :
        LET inside == i \in 0..(Size(heap, At(p)) - 1)
            read == IF IsText(p) THEN Word(heap, Plus(Data(heap, At(p)), i))
                    ELSE Element(heap, Data(heap, At(p)), i)
        IN  On(IF inside THEN heap ELSE Die(heap, "bounds"),
               [op |-> "get", on |-> p, at |-> i],
               IF inside THEN <<"value", read>> ELSE <<>>)
  BY DEF Get
<1>3. p \in DOMAIN objects /\ objects[p].kind \in {"vector", "string"}
  BY DEF Held
<1>4. Sound(heap) /\ heap.died = "no" /\ FlatLies(heap, objects[p])
  BY <1>1, <1>3, HeldLies
<1>5. PICK x, v, n : x = objects[p] /\ v = Value(heap, x) /\ n = Size(heap, x.ptr)
  OBVIOUS
<1>6. At(p) = x.ptr
  BY <1>5 DEF At
<1>7. PICK call, read :
        /\ call = [op |-> "get", on |-> p, at |-> i]
        /\ read = IF IsText(p) THEN Word(heap, Plus(Data(heap, x.ptr), i))
                  ELSE Element(heap, Data(heap, x.ptr), i)
        /\ On(IF i \in 0 .. n - 1 THEN heap ELSE Die(heap, "bounds"), call,
              IF i \in 0 .. n - 1 THEN <<"value", read>> ELSE <<>>)
  BY <1>2, <1>5, <1>6
<1>8. /\ Len(v) = n /\ v = Holding[p]
      /\ x.kind = "vector" => \A k \in 0 .. n - 1 : Nth(heap, x, k) = v[k + 1]
      /\ x.kind # "vector" => \A k \in 0 .. n - 1 : Word(heap, Plus(Data(heap, x.ptr), k)) = v[k + 1]
  <2>1. x.kind \in FlatKinds /\ Sound(heap) /\ FlatLies(heap, x)
    BY <1>3, <1>4, <1>5 DEF FlatKinds
  <2>2. v = Holding[p]
    BY <1>1, <1>3, <1>5, HeldValue
  <2>3. /\ Len(Value(heap, x)) = Size(heap, x.ptr)
        /\ x.kind = "vector" => \A k \in 0 .. Size(heap, x.ptr) - 1 : Nth(heap, x, k) = Value(heap, x)[k + 1]
        /\ x.kind # "vector" =>
              \A k \in 0 .. Size(heap, x.ptr) - 1 : Word(heap, Plus(Data(heap, x.ptr), k)) = Value(heap, x)[k + 1]
    BY <2>1, ValueIs
  <2> QED BY <1>5, <2>2, <2>3
<1>9. CASE i \in 0 .. n - 1
  <2>1. read = v[i + 1]
    <3>1. CASE x.kind = "vector"
      <4>1. read = Nth(heap, x, i)
        BY <1>5, <1>7, <3>1 DEF IsText, Nth
      <4> QED BY <1>8, <1>9, <3>1, <4>1
    <3>2. CASE x.kind # "vector"
      <4>1. x.kind = "string"
        BY <1>3, <1>5, <3>2
      <4>2. read = Word(heap, Plus(Data(heap, x.ptr), i))
        BY <1>5, <1>7, <4>1 DEF IsText
      <4> QED BY <1>8, <1>9, <3>2, <4>2
    <3> QED BY <3>1, <3>2
  <2>2. PICK result : result = <<"value", v[i + 1]>> /\ On(heap, call, result)
    BY <1>7, <1>9, <2>1
  <2>3. Changes(heap, heap, x, v)
    BY <1>4, <1>5, NotChanged DEF Changes
  <2>4. PlacedInv' /\ asked' = call /\ (Changed(p, v, result) \/ Promise!Exhausted)
    BY <1>1, <1>3, <1>5, <2>2, <2>3, OnStep
  <2>5. asked'.op = "get" /\ asked'.on = p /\ asked'.at = i
    BY <1>7, <2>4
  <2>6. ASSUME Changed(p, v, result) PROVE Promise!Get
    <3>1. Promise!Becomes(v, result) /\ Promise!Self = v
      BY <1>1, <1>8, <2>5, <2>6, BecomesSo
    <3> QED BY <1>8, <1>9, <2>2, <2>5, <3>1 DEF Promise!Get
  <2> QED BY <2>4, <2>6
<1>10. CASE i \notin 0 .. n - 1
  <2>1. PICK result : On(Die(heap, "bounds"), call, result)
    BY <1>7, <1>10
  <2>2. PlacedInv' /\ asked' = call /\ Promise!Dies("bounds")
    BY <1>1, <2>1, OutStep
  <2>3. asked'.op = "get" /\ asked'.on = p /\ asked'.at = i
    BY <1>7, <2>2
  <2>4. Promise!Self = v
    BY <1>8, <2>3 DEF Promise!Self, Holding
  <2> QED BY <1>8, <1>10, <2>2, <2>3, <2>4 DEF Promise!Get
<1> QED BY <1>9, <1>10

\* Join does.
LEMMA JoinStep ==
    ASSUME PlacedInv, Join
    PROVE  PlacedInv' /\ (Promise!Join \/ Promise!Exhausted)
<1>1. Alive /\ Unused # {}
  BY DEF Join, Ready
<1>2. PICK p \in Held({"string"}), q \in Held({"string"}), r \in 1..Len(heap.regions) :
        New(Concat(heap, r, At(p), At(q)), "string", r,
            [op |-> "concat", on |-> NextObject, from |-> p, and |-> q, in |-> r])
  BY DEF Join
<1>3. /\ p \in DOMAIN objects /\ objects[p].kind = "string"
      /\ q \in DOMAIN objects /\ objects[q].kind = "string"
  BY DEF Held
<1>4. /\ Sound(heap) /\ FlatLies(heap, objects[p]) /\ FlatLies(heap, objects[q])
  BY <1>1, <1>3, HeldLies
<1>5. PICK x, y : x = objects[p] /\ y = objects[q]
  OBVIOUS
<1>6. At(p) = x.ptr /\ At(q) = y.ptr
  BY <1>5 DEF At
<1>7. PICK g, s, call : /\ g = Concat(heap, r, x.ptr, y.ptr) /\ s = Value(heap, x) \o Value(heap, y)
                        /\ call = [op |-> "concat", on |-> NextObject, from |-> p, and |-> q, in |-> r]
  OBVIOUS
<1>8. Creates(heap, g, Object(g, "string", r), s)
  <2>1. x.kind = "string" /\ y.kind = "string" /\ FlatLies(heap, x) /\ FlatLies(heap, y)
    BY <1>3, <1>4, <1>5
  <2> QED BY <1>4, <1>7, <2>1, ConcatSafe
<1>9. New(g, "string", r, call)
  BY <1>2, <1>6, <1>7
<1>10. "string" \in FlatKinds
  BY DEF FlatKinds
<1>11. PlacedInv' /\ asked' = call /\ (Made(s, r) \/ Promise!Exhausted)
  BY <1>1, <1>8, <1>9, <1>10, NewStep
<1>12. asked'.op = "concat" /\ asked'.on = NextObject /\ asked'.from = p /\ asked'.and = q /\ asked'.in = r
  BY <1>7, <1>11
<1>13. ASSUME Made(s, r) PROVE Promise!Join
  <2>1. Promise!Makes(s, r)
    BY <1>1, <1>12, <1>13, MakesSo
  <2>2. Holding[p] = Value(heap, x) /\ Holding[q] = Value(heap, y)
    BY <1>1, <1>3, <1>5, HeldValue
  <2>3. Promise!Other = Value(heap, x) /\ Holding[asked'.and] = Value(heap, y)
    BY <1>12, <2>2 DEF Promise!Other, Holding
  <2> QED BY <1>7, <1>12, <2>1, <2>3 DEF Promise!Join, Promise!Makes, Holding
<1> QED BY <1>11, <1>13

\* Slice does, and dies outside the bounds.
LEMMA SliceStep ==
    ASSUME PlacedInv, Slice
    PROVE  PlacedInv' /\ (Promise!Slice \/ Promise!Exhausted)
<1>1. Alive /\ Unused # {}
  BY DEF Slice, Ready
<1>2. PICK p \in Held({"string", "vector"}), start \in Bounds, stop \in Bounds :
        New(IF IsText(p) THEN StringSlice(heap, At(p), start, stop)
                         ELSE VectorSlice(heap, At(p), start, stop),
            objects[p].kind, objects[p].region,
            [op |-> "slice", on |-> NextObject, from |-> p, start |-> start, stop |-> stop])
  BY DEF Slice
<1>3. p \in DOMAIN objects /\ objects[p].kind \in {"string", "vector"}
  BY DEF Held
<1>4. Sound(heap) /\ heap.died = "no" /\ FlatLies(heap, objects[p])
  BY <1>1, <1>3, HeldLies
<1>5. PICK x, v, n : x = objects[p] /\ v = Value(heap, x) /\ n = Size(heap, x.ptr)
  OBVIOUS
<1>6. At(p) = x.ptr /\ (IsText(p) <=> x.kind = "string")
  BY <1>3, <1>5 DEF At, IsText
<1>7. PICK g, call : /\ g = IF IsText(p) THEN StringSlice(heap, x.ptr, start, stop)
                            ELSE VectorSlice(heap, x.ptr, start, stop)
                     /\ call = [op |-> "slice", on |-> NextObject, from |-> p,
                                start |-> start, stop |-> stop]
  OBVIOUS
<1>8. New(g, x.kind, x.region, call)
  BY <1>2, <1>5, <1>6, <1>7
<1>9. x.kind \in FlatKinds
  BY <1>3, <1>5 DEF FlatKinds
<1>10. Len(v) = n /\ v = Holding[p] /\ Homes[p] = x.region
  <2>1. Sound(heap) /\ x.kind \in FlatKinds /\ FlatLies(heap, x)
    BY <1>4, <1>5, <1>9
  <2>2. Len(Value(heap, x)) = Size(heap, x.ptr)
    BY <2>1, ValueIs
  <2>3. v = Holding[p]
    BY <1>1, <1>3, <1>5, HeldValue
  <2> QED BY <1>3, <1>5, <2>2, <2>3 DEF Homes
<1>11. CASE SliceLegal(start, stop, n)
  <2>1. PICK s : s = SubSeq(v, Lower(start) + 1, Upper(stop, n))
    OBVIOUS
  <2>2. Creates(heap, g, Object(g, x.kind, x.region), s)
    <3>1. CASE x.kind = "string"
      <4>1. g = StringSlice(heap, x.ptr, start, stop)
        BY <1>6, <1>7, <3>1
      <4>2. Creates(heap, g, Object(g, "string", x.region), s)
        BY <1>4, <1>5, <1>10, <1>11, <2>1, <3>1, <4>1, StringSliceSafe
      <4> QED BY <3>1, <4>2
    <3>2. CASE x.kind = "vector"
      <4>1. g = VectorSlice(heap, x.ptr, start, stop)
        BY <1>6, <1>7, <3>2
      <4>2. Creates(heap, g, Object(g, "vector", x.region), s)
        BY <1>4, <1>5, <1>10, <1>11, <2>1, <3>2, <4>1, VectorSliceSafe
      <4> QED BY <3>2, <4>2
    <3> QED BY <1>3, <1>5, <3>1, <3>2
  <2>3. PlacedInv' /\ asked' = call /\ (Made(s, x.region) \/ Promise!Exhausted)
    BY <1>1, <1>8, <1>9, <2>2, NewStep
  <2>4. /\ asked'.op = "slice" /\ asked'.on = NextObject /\ asked'.from = p
        /\ asked'.start = start /\ asked'.stop = stop
    BY <1>7, <2>3
  <2>5. ASSUME Made(s, x.region) PROVE Promise!Slice
    <3>1. Promise!Makes(s, x.region)
      BY <1>1, <2>4, <2>5, MakesSo
    <3>2. Promise!Other = v
      BY <1>10, <2>4 DEF Promise!Other, Holding
    <3>3. PICK a, b : a = Lower(start) /\ b = Upper(stop, n)
      OBVIOUS
    <3>4. 0 <= a /\ a <= b /\ b <= n /\ s = SubSeq(v, a + 1, b)
      BY <1>11, <2>1, <3>3 DEF SliceLegal
    <3>5. /\ a = IF start = Omitted THEN 0 ELSE start
          /\ b = IF stop = Omitted THEN Len(v) ELSE stop
      BY <1>10, <3>3 DEF Lower, Upper
    <3>6. Homes[asked'.from] = x.region
      BY <1>10, <2>4
    <3> QED BY <1>10, <2>4, <3>1, <3>2, <3>4, <3>5, <3>6 DEF Promise!Slice, Promise!Makes, Homes
  <2> QED BY <2>3, <2>5
<1>12. CASE ~ SliceLegal(start, stop, n)
  <2>1. g = Die(heap, "bounds")
    BY <1>5, <1>7, <1>12 DEF StringSlice, VectorSlice
  <2>2. PlacedInv' /\ asked' = call /\ Promise!Dies("bounds")
    BY <1>1, <1>8, <2>1, OutNew
  <2>3. asked'.op = "slice" /\ asked'.from = p /\ asked'.start = start /\ asked'.stop = stop
    BY <1>7, <2>2
  <2>4. Promise!Other = v
    BY <1>10, <2>3 DEF Promise!Other, Holding
  <2>5. PICK a, b : a = Lower(start) /\ b = Upper(stop, n)
    OBVIOUS
  <2>6. ~ (0 <= a /\ a <= b /\ b <= n)
    BY <1>12, <2>5 DEF SliceLegal
  <2>7. /\ a = IF start = Omitted THEN 0 ELSE start
        /\ b = IF stop = Omitted THEN Len(v) ELSE stop
    BY <1>10, <2>5 DEF Lower, Upper
  <2> QED BY <1>10, <2>2, <2>3, <2>4, <2>6, <2>7 DEF Promise!Slice
<1> QED BY <1>11, <1>12

\* The program makes an object out of a literal.
LEMMA LiteralStep ==
    ASSUME PlacedInv, Alive, Unused # {}, NEW kind \in FlatKinds, NEW r, NEW v, NEW g,
           Creates(heap, g, Object(g, kind, r), v),
           New(g, kind, r, [op |-> "make", on |-> NextObject, value |-> v, in |-> r])
    PROVE  PlacedInv' /\ (Promise!Make \/ Promise!Exhausted)
<1>1. PICK call : /\ call = [op |-> "make", on |-> NextObject, value |-> v, in |-> r]
                  /\ New(g, kind, r, call)
  OBVIOUS
<1>2. PlacedInv' /\ asked' = call /\ (Made(v, r) \/ Promise!Exhausted)
  BY <1>1, NewStep
<1>3. asked'.op = "make" /\ asked'.on = NextObject /\ asked'.value = v /\ asked'.in = r
  BY <1>1, <1>2
<1>4. ASSUME Made(v, r) PROVE Promise!Make
  <2>1. Promise!Makes(v, r)
    BY <1>3, <1>4, MakesSo
  <2> QED BY <1>3, <2>1 DEF Promise!Make, Promise!Makes
<1> QED BY <1>2, <1>4

\* MakeObject does.
LEMMA MakeObjectStep ==
    ASSUME PlacedInv, MakeObject
    PROVE  PlacedInv' /\ (Promise!Make \/ Promise!Exhausted)
<1>1. Alive /\ Unused # {}
  BY DEF MakeObject, Ready
<1>2. budget.kinds \subseteq FlatKinds /\ Sound(heap)
  BY DEF PlacedInv
<1>3. \A values, r :
        /\ ~Makes("dict", values, r, DictFrom) /\ ~Makes("text", values, r, BufferNew)
        /\ ~Makes("list", values, r, ListFrom) /\ ~Makes("merged", values, r, ListFrom)
        /\ ~Makes("table", values, r, DictFrom)
  BY <1>2 DEF Makes, FlatKinds
<1>4. PICK r \in 1..Len(heap.regions) :
        \/ Makes("string", Literals.texts, r, StringNew)
        \/ Makes("buffer", Literals.texts, r, BufferNew)
        \/ Makes("vector", Literals.vectors, r, VectorFrom)
  BY <1>3 DEF MakeObject
<1>5. CASE Makes("string", Literals.texts, r, StringNew)
  <2>1. PICK v \in Literals.texts :
          New(StringNew(heap, r, v), "string", r, [op |-> "make", on |-> NextObject, value |-> v, in |-> r])
    BY <1>5 DEF Makes
  <2>2. PICK g : g = StringNew(heap, r, v)
    OBVIOUS
  <2>3. IsSequence(v) /\ "string" \in FlatKinds
    BY ProgramsAssumption DEF FlatKinds
  <2>4. Creates(heap, g, Object(g, "string", r), v)
    BY <1>2, <2>2, <2>3, StringMade
  <2>5. New(g, "string", r, [op |-> "make", on |-> NextObject, value |-> v, in |-> r])
    BY <2>1, <2>2
  <2> QED BY <1>1, <2>3, <2>4, <2>5, LiteralStep
<1>6. CASE Makes("buffer", Literals.texts, r, BufferNew)
  <2>1. PICK v \in Literals.texts :
          New(BufferNew(heap, r, v), "buffer", r, [op |-> "make", on |-> NextObject, value |-> v, in |-> r])
    BY <1>6 DEF Makes
  <2>2. PICK g : g = BufferNew(heap, r, v)
    OBVIOUS
  <2>3. IsSequence(v) /\ "buffer" \in FlatKinds
    BY ProgramsAssumption DEF FlatKinds
  <2>4. Creates(heap, g, Object(g, "buffer", r), v)
    BY <1>2, <2>2, <2>3, BufferMade
  <2>5. New(g, "buffer", r, [op |-> "make", on |-> NextObject, value |-> v, in |-> r])
    BY <2>1, <2>2
  <2> QED BY <1>1, <2>3, <2>4, <2>5, LiteralStep
<1>7. CASE Makes("vector", Literals.vectors, r, VectorFrom)
  <2>1. PICK v \in Literals.vectors :
          New(VectorFrom(heap, r, v), "vector", r, [op |-> "make", on |-> NextObject, value |-> v, in |-> r])
    BY <1>7 DEF Makes
  <2>2. PICK g : g = VectorFrom(heap, r, v)
    OBVIOUS
  <2>3. IsSequence(v) /\ "vector" \in FlatKinds
    BY ProgramsAssumption DEF FlatKinds
  <2>4. Creates(heap, g, Object(g, "vector", r), v)
    BY <1>2, <2>2, <2>3, VectorMade
  <2>5. New(g, "vector", r, [op |-> "make", on |-> NextObject, value |-> v, in |-> r])
    BY <2>1, <2>2
  <2> QED BY <1>1, <2>3, <2>4, <2>5, LiteralStep
<1> QED BY <1>4, <1>5, <1>6, <1>7

\* A call that changes no object's words and keeps the regions of the objects held.
LEMMA StayStep ==
    ASSUME PlacedInv, NEW g, Sound(g), g.died = "no", NEW call, NEW result, Return(g, call, result),
           NEW m \in Nat, Keeps(heap, g, m), m <= Len(g.regions), Alive,
           DOMAIN objects' \subseteq DOMAIN objects,
           \A o \in DOMAIN objects' : objects'[o] = objects[o] /\ objects[o].region \in 1 .. m
    PROVE  /\ PlacedInv' /\ Alive' /\ asked' = call /\ answer' = result
           /\ Depth' = Len(g.regions)
           /\ Holding' = [o \in DOMAIN objects' |-> Holding[o]]
<1>1. /\ heap' = Result(heap, g) /\ Sound(heap') /\ heap'.died = "no" /\ Extends(g, heap', {})
      /\ BudgetGood(budget') /\ budget'.kinds \subseteq FlatKinds
  BY CallReturned
<1>2. /\ Sound(heap) /\ WellPlaced(heap, objects) /\ Holding = Holds(heap, objects)
      /\ Len(g.regions) \in Nat
  BY PlacedHolds, SoundFacts
<1>3. PICK ob, on : ob = objects /\ on = objects'
  OBVIOUS
<1>4. /\ DOMAIN on \subseteq DOMAIN ob /\ WellPlaced(heap, ob)
      /\ \A o \in DOMAIN on : on[o] = ob[o] /\ ob[o].region \in 1 .. m
  BY <1>2, <1>3
<1>5. WellPlaced(g, on)
  BY <1>2, <1>4, PlacedStays
<1>6. WellPlaced(heap', on)
  BY <1>1, <1>5, PlacedOnward
<1>7. PlacedInv' /\ Holding' = Holds(heap', on)
  BY <1>1, <1>3, <1>6, PlacedNext
<1>8. Holds(heap', on) = Holds(g, on)
  BY <1>1, <1>5, HoldsOnward
<1>9. Holds(g, on) = [o \in DOMAIN on |-> Holds(heap, ob)[o]]
  BY <1>2, <1>4, HoldsStay
<1>10. Alive' /\ Depth' = Len(g.regions)
  BY <1>1 DEF Alive, Depth, Extends
<1>11. asked' = call /\ answer' = result
  BY DEF Return
<1> QED BY <1>2, <1>3, <1>7, <1>8, <1>9, <1>10, <1>11

\* The objects held lie in regions that are alive.
LEMMA RegionsHeld ==
    ASSUME PlacedInv, Alive
    PROVE  /\ Len(heap.regions) \in Nat
           /\ \A o \in DOMAIN objects : objects[o].region \in 1 .. Len(heap.regions)
BY HeldLies, SoundFacts DEF FlatLies, PlacedInv

\* EnterRegion does.
LEMMA EnterRegionStep ==
    ASSUME PlacedInv, EnterRegion
    PROVE  PlacedInv' /\ Promise!EnterRegion
<1>1. Alive /\ Sound(heap) /\ objects' = objects /\ heap.died = "no"
  BY DEF EnterRegion, Ready, PlacedInv, Alive
<1>2. PICK size \in BlockSizes : Return(RegionNew(heap, size), [op |-> "enter"], <<"done">>)
  BY DEF EnterRegion
<1>3. PICK g, call, result : g = RegionNew(heap, size) /\ call = [op |-> "enter"] /\ result = <<"done">>
  OBVIOUS
<1>4. size \in Nat
  BY ProgramsAssumption
<1>5. /\ Sound(g) /\ Len(g.regions) = Len(heap.regions) + 1 /\ g.died = "no"
      /\ Keeps(heap, g, Len(heap.regions))
  BY <1>1, <1>3, <1>4, Entered1
<1>6. PICK m : m = Len(heap.regions)
  OBVIOUS
<1>7. m \in Nat /\ m <= Len(g.regions) /\ Keeps(heap, g, m)
      /\ \A o \in DOMAIN objects' : objects'[o] = objects[o] /\ objects[o].region \in 1 .. m
  BY <1>1, <1>5, <1>6, RegionsHeld
<1>8. Return(g, call, result)
  BY <1>2, <1>3
<1>9. /\ PlacedInv' /\ Alive' /\ asked' = call /\ answer' = result /\ Depth' = Len(g.regions)
      /\ Holding' = [o \in DOMAIN objects' |-> Holding[o]]
  BY <1>1, <1>5, <1>7, <1>8, StayStep
<1>10. Holding' = Holding /\ Homes' = Homes /\ Depth' = Depth + 1
  <2>1. Holding' = Holding
    BY <1>1, <1>9 DEF Holding
  <2>2. Homes' = Homes
    BY <1>1 DEF Homes
  <2> QED BY <1>1, <1>5, <1>9, <2>1, <2>2 DEF Depth
<1>11. asked'.op = "enter" /\ answer' = <<"done">>
  BY <1>3, <1>9
<1>12. Promise!Done(<<"done">>)
  BY <1>1, <1>9, <1>11 DEF Promise!Done
<1> QED BY <1>9, <1>10, <1>11, <1>12 DEF Promise!EnterRegion, Holding, Homes, Depth

\* LeaveRegion does: the objects of the region freed are gone, and no other is changed.
LEMMA LeaveRegionStep ==
    ASSUME PlacedInv, LeaveRegion
    PROVE  PlacedInv' /\ Promise!LeaveRegion
<1>1. Alive /\ Sound(heap) /\ Len(heap.regions) > 0 /\ heap.died = "no"
  BY DEF LeaveRegion, Ready, PlacedInv, Alive
<1>2. PICK g, call, result : /\ g = RegionFree(heap) /\ call = [op |-> "leave"]
                             /\ result = <<"done">> /\ Return(g, call, result)
  BY DEF LeaveRegion
<1>3. objects' = [o \in {o \in DOMAIN objects : objects[o].region # Len(heap.regions)} |-> objects[o]]
  BY DEF LeaveRegion
<1>4. /\ Len(heap.regions) \in Nat
      /\ \A o \in DOMAIN objects : objects[o].region \in 1 .. Len(heap.regions)
  BY <1>1, RegionsHeld
<1>5. /\ Sound(g) /\ Len(g.regions) = Len(heap.regions) - 1 /\ g.died = "no"
      /\ Keeps(heap, g, Len(heap.regions) - 1)
  BY <1>1, <1>2, <1>4, Left1
<1>6. PICK m : m = Len(heap.regions) - 1
  OBVIOUS
<1>7. m \in Nat /\ m <= Len(g.regions) /\ Keeps(heap, g, m)
  BY <1>1, <1>4, <1>5, <1>6
<1>8. DOMAIN objects' \subseteq DOMAIN objects
      /\ \A o \in DOMAIN objects' : objects'[o] = objects[o] /\ objects[o].region \in 1 .. m
  BY <1>3, <1>4, <1>6
<1>9. /\ PlacedInv' /\ Alive' /\ asked' = call /\ answer' = result /\ Depth' = Len(g.regions)
      /\ Holding' = [o \in DOMAIN objects' |-> Holding[o]]
  BY <1>1, <1>2, <1>5, <1>7, <1>8, StayStep
<1>10. Depth = Len(heap.regions) /\ Depth' = Depth - 1
  BY <1>1, <1>5, <1>9 DEF Depth
<1>11. PICK kept : kept = {o \in DOMAIN Holding : Homes[o] # Depth}
  OBVIOUS
<1>12. DOMAIN objects' = kept
  <2>1. DOMAIN Holding = DOMAIN objects /\ \A o \in DOMAIN objects : Homes[o] = objects[o].region
    BY DEF Holding, Homes
  <2> QED BY <1>3, <1>10, <1>11, <2>1
<1>13. Holding' = [o \in kept |-> Holding[o]]
  BY <1>9, <1>12
<1>14. Homes' = [o \in kept |-> Homes[o]]
  <2>1. \A o \in kept : objects'[o].region = Homes[o]
    BY <1>8, <1>12 DEF Homes
  <2>2. Homes' = [o \in DOMAIN objects' |-> objects'[o].region]
    BY DEF Homes
  <2> QED BY <1>12, <2>1, <2>2
<1>15. asked'.op = "leave" /\ answer' = <<"done">>
  BY <1>2, <1>9
<1>16. Promise!Done(<<"done">>)
  BY <1>1, <1>9, <1>15 DEF Promise!Done
<1>17. /\ Holding' = [o \in {o \in DOMAIN Holding : Homes[o] # Depth} |-> Holding[o]]
       /\ Homes' = [o \in {o \in DOMAIN Holding : Homes[o] # Depth} |-> Homes[o]]
  BY <1>11, <1>13, <1>14
<1> QED BY <1>9, <1>10, <1>15, <1>16, <1>17 DEF Promise!LeaveRegion, Holding, Homes, Depth

\* The loop looks at its object and changes nothing.
LEMMA LookStep ==
    ASSUME PlacedInv, Alive, Return(heap, [op |-> "walk"], <<"done">>), objects' = objects
    PROVE  PlacedInv' /\ Promise!Walk
<1>1. /\ Len(heap.regions) \in Nat /\ Sound(heap) /\ heap.died = "no"
      /\ \A o \in DOMAIN objects : objects[o].region \in 1 .. Len(heap.regions)
  BY RegionsHeld DEF PlacedInv, Alive
<1>2. Keeps(heap, heap, Len(heap.regions))
  BY DEF Keeps
<1>3. PICK m \in Nat : m = Len(heap.regions)
  BY <1>1
<1>4. PICK call, result : /\ call = [op |-> "walk"] /\ result = <<"done">>
                          /\ Return(heap, call, result)
  OBVIOUS
<1>5. /\ PlacedInv' /\ Alive' /\ asked' = call /\ answer' = result /\ Depth' = Len(heap.regions)
      /\ Holding' = [o \in DOMAIN objects' |-> Holding[o]]
  BY <1>1, <1>2, <1>3, <1>4, StayStep
<1>6. Holding' = Holding /\ Homes' = Homes /\ Depth' = Depth
  <2>1. Holding' = Holding
    BY <1>5 DEF Holding
  <2>2. Homes' = Homes
    BY DEF Homes
  <2> QED BY <1>5, <2>1, <2>2 DEF Depth
<1>7. asked'.op = "walk" /\ answer' = <<"done">>
  BY <1>4, <1>5
<1>8. Promise!Done(<<"done">>)
  BY <1>5, <1>7 DEF Promise!Done
<1> QED BY <1>5, <1>6, <1>7, <1>8 DEF Promise!Walk, Promise!Unmoved, Holding, Homes, Depth

\* The foreach only reads.
LEMMA LoopStep ==
    ASSUME PlacedInv, StartLoop \/ VisitNext
    PROVE  PlacedInv' /\ Promise!Walk
<1>1. /\ Alive /\ objects' = objects
      /\ Return(heap, [op |-> "walk"], <<"done">>)
  BY DEF StartLoop, VisitNext, Ready
<1> QED BY <1>1, LookStep

\* Programs without dictionaries.
LEMMA NoTables ==
    ASSUME PlacedInv
    PROVE  ~SetKey /\ ~GetKey
<1>1. Alive => Held({"dict"}) = {} /\ Held({"table"}) = {} /\ Held({"dict", "table"}) = {}
  BY NoneHeld DEF FlatKinds
<1>2. ~SetKey
  BY <1>1 DEF SetKey, Ready
<1>3. ~GetKey
  BY <1>1 DEF GetKey, Ready
<1> QED BY <1>2, <1>3

\* A step that leaves memory and objects alone changes nothing the promise reads.
LEMMA HoldingSame ==
    ASSUME heap' = heap, objects' = objects
    PROVE  Holding' = Holding
<1>1. ASSUME NEW o \in DOMAIN objects PROVE Content(heap, o)' = Content(heap, o)
  BY DEF Content, IsText, IsVector, Entries
<1> QED BY <1>1 DEF Holding

\* A step keeps the invariant, and is a step of the promise.
LEMMA PlacedStep ==
    ASSUME PlacedInv, [Next]_vars
    PROVE  PlacedInv' /\ [Promise!Next]_(Promise!vars)
<1>1. CASE UNCHANGED vars
  <2>1. PlacedInv'
    BY <1>1 DEF vars, PlacedInv, Alive
  <2>2. heap' = heap /\ objects' = objects /\ asked' = asked /\ answer' = answer
    BY <1>1 DEF vars
  <2>3. Holding' = Holding
    BY <2>2, HoldingSame
  <2>4. Homes' = Homes /\ Depth' = Depth /\ (~Alive)' = ~Alive
    BY <2>2 DEF Homes, Depth, Alive
  <2>5. UNCHANGED Promise!vars
    BY <2>2, <2>3, <2>4 DEF Promise!vars, Holding, Homes, Depth
  <2> QED BY <2>1, <2>5
<1>2. CASE Next
  <2>1. CASE EnterRegion
    <3>1. Alive
      BY <2>1 DEF EnterRegion, Ready
    <3> QED BY <2>1, <3>1, EnterRegionStep DEF Promise!Next
  <2>2. CASE LeaveRegion
    <3>1. Alive
      BY <2>2 DEF LeaveRegion, Ready
    <3> QED BY <2>2, <3>1, LeaveRegionStep DEF Promise!Next
  <2>3. CASE MakeObject
    <3>1. Alive
      BY <2>3 DEF MakeObject, Ready
    <3> QED BY <2>3, <3>1, MakeObjectStep DEF Promise!Next
  <2>4. CASE Join
    <3>1. Alive
      BY <2>4 DEF Join, Ready
    <3> QED BY <2>4, <3>1, JoinStep DEF Promise!Next
  <2>5. CASE Slice
    <3>1. Alive
      BY <2>5 DEF Slice, Ready
    <3> QED BY <2>5, <3>1, SliceStep DEF Promise!Next
  <2>6. CASE AppendText
    <3>1. Alive
      BY <2>6 DEF AppendText, Ready
    <3> QED BY <2>6, <3>1, AppendTextStep DEF Promise!Next
  <2>7. CASE Push
    <3>1. Alive
      BY <2>7 DEF Push, Ready
    <3> QED BY <2>7, <3>1, PushStep DEF Promise!Next
  <2>8. CASE Extend
    <3>1. Alive
      BY <2>8 DEF Extend, Ready
    <3> QED BY <2>8, <3>1, ExtendStep DEF Promise!Next
  <2>9. CASE Pop
    <3>1. Alive
      BY <2>9 DEF Pop, Ready
    <3> QED BY <2>9, <3>1, PopStep DEF Promise!Next
  <2>10. CASE Clear
    <3>1. Alive
      BY <2>10 DEF Clear, Ready
    <3> QED BY <2>10, <3>1, ClearStep DEF Promise!Next
  <2>11. CASE Set
    <3>1. Alive
      BY <2>11 DEF Set, Ready
    <3> QED BY <2>11, <3>1, SetStep DEF Promise!Next
  <2>12. CASE Get
    <3>1. Alive
      BY <2>12 DEF Get, Ready
    <3> QED BY <2>12, <3>1, GetStep DEF Promise!Next
  <2>13. CASE SetKey \/ GetKey
    BY <2>13, NoTables
  <2>14. CASE StartLoop \/ VisitNext
    <3>1. Alive
      BY <2>14 DEF StartLoop, VisitNext, Ready
    <3> QED BY <2>14, <3>1, LoopStep DEF Promise!Next
  <2> QED BY <1>2, <2>1, <2>2, <2>3, <2>4, <2>5, <2>6, <2>7, <2>8, <2>9, <2>10, <2>11, <2>12,
             <2>13, <2>14 DEF Next
<1> QED BY <1>1, <1>2

-----------------------------------------------------------------------------
(***************************************************************************)
(* What the invariant says of the pieces.                                  *)
(***************************************************************************)

\* The pieces of an object, as Spans lists them.
LEMMA FlatSpans ==
    ASSUME NEW h, NEW x, x.kind \in FlatKinds
    PROVE  SpansOf(h, x) = {<<x.ptr, HeadSize(x)>>}
              \cup (IF FlatSize(h, x) = 0 THEN {} ELSE {<<Data(h, x.ptr), FlatSize(h, x)>>})
<1>1. CASE x.kind = "string"
  BY <1>1 DEF SpansOf, HeadSize, FlatSize
<1>2. CASE x.kind = "buffer"
  BY <1>2 DEF SpansOf, HeadSize, FlatSize
<1>3. CASE x.kind = "vector"
  BY <1>3 DEF SpansOf, HeadSize, FlatSize
<1> QED BY <1>1, <1>2, <1>3 DEF FlatKinds

\* A piece is given out by the object's region.
LEMMA FlatPiece ==
    ASSUME NEW h, Sound(h), NEW x, x.kind \in FlatKinds, FlatLies(h, x), NEW s \in SpansOf(h, x)
    PROVE  /\ s = <<s[1], s[2]>> /\ s[1] \in Address /\ s[2] \in Nat \ {0}
           /\ Span(s[1], s[2]) \subseteq FlatFoot(h, x)
           /\ s[1][1] \in ToSet(h.regions[x.region].blocks)
           /\ s[1][2] + s[2] <= h.blocks[s[1][1]].used
           /\ Aligned(s[1][2]) \/ x.kind = "string"
<1>1. /\ FlatSize(h, x) \in Nat /\ HeadSize(x) \in {3, 4}
  BY FlatSizes DEF FlatLies
<1>2. \/ s = <<x.ptr, HeadSize(x)>>
      \/ s = <<Data(h, x.ptr), FlatSize(h, x)>> /\ FlatSize(h, x) # 0
  BY FlatSpans
<1>3. PICK p, n : p = s[1] /\ n = s[2]
  OBVIOUS
<1>4. /\ s = <<p, n>> /\ p \in Address /\ n \in Nat \ {0}
      /\ Span(p, n) \subseteq FlatFoot(h, x) /\ Span(p, n) \subseteq Of(h, x.region)
      /\ Aligned(p[2]) \/ x.kind = "string"
  <2>1. CASE s = <<x.ptr, HeadSize(x)>>
    BY <1>1, <1>3, <2>1 DEF FlatLies, FlatFoot
  <2>2. CASE s = <<Data(h, x.ptr), FlatSize(h, x)>> /\ FlatSize(h, x) # 0
    BY <1>1, <1>3, <2>2 DEF FlatLies, FlatFoot
  <2> QED BY <1>2, <2>1, <2>2
<1>5. Span(p, n) \subseteq Used(h)
  BY <1>4 DEF Of
<1>6. p[2] + n <= h.blocks[p[1]].used
  BY <1>4, <1>5, SpanUsed
<1>7. p[1] \in ToSet(h.regions[x.region].blocks)
  <2>1. Plus(p, 0) \in Span(p, n) /\ Plus(p, 0) = p
    BY <1>4, SpanOf, PlusAt
  <2> QED BY <1>4, <2>1 DEF Of
<1> QED BY <1>3, <1>4, <1>6, <1>7

\* Pieces without a common word do not overlap.
LEMMA SpansApart ==
    ASSUME NEW p \in Address, NEW m \in Nat \ {0}, NEW q \in Address, NEW n \in Nat \ {0},
           Span(p, m) \cap Span(q, n) = {}
    PROVE  \A a, b : ~Overlap(<<p, m, a>>, <<q, n, b>>)
<1>1. PICK i \in Nat, j \in Nat : p[2] = i /\ q[2] = j
  BY DEF Address
<1>2. p \in Span(p, m) /\ q \in Span(q, n)
  BY <1>1 DEF Span
<1>3. ASSUME p[1] = q[1], i < j + n, j < i + m PROVE FALSE
  <2>1. CASE i <= j
    <3>1. q \in Span(p, m)
      BY <1>1, <1>3, <2>1 DEF Span
    <3> QED BY <1>2, <3>1
  <2>2. CASE j <= i
    <3>1. p \in Span(q, n)
      BY <1>1, <1>3, <2>2 DEF Span
    <3> QED BY <1>2, <3>1
  <2> QED BY <2>1, <2>2
<1> QED BY <1>1, <1>3 DEF Overlap

\* The pieces of one object.
LEMMA OwnApart ==
    ASSUME NEW h, Sound(h), NEW x, x.kind \in FlatKinds, FlatLies(h, x),
           NEW s \in SpansOf(h, x), NEW t \in SpansOf(h, x), s # t
    PROVE  Span(s[1], s[2]) \cap Span(t[1], t[2]) = {}
<1>1. FlatSize(h, x) # 0 => Span(x.ptr, HeadSize(x)) \cap Span(Data(h, x.ptr), FlatSize(h, x)) = {}
  BY DEF FlatLies
<1> QED BY <1>1, FlatSpans

\* The invariant implies PiecesApart.
LEMMA PiecesPlaced ==
    ASSUME PlacedInv
    PROVE  PiecesApart
<1> DEFINE spans == UNION {{<<s[1], s[2], o>> : s \in Spans(o)} : o \in DOMAIN objects}
           blocks(o) == LET r == objects[o].region
                        IN  ToSet(IF r = Arena THEN heap.arena ELSE heap.regions[r].blocks)
<1> SUFFICES ASSUME Alive
             PROVE  /\ \A s, t \in spans : s # t => ~Overlap(s, t)
                    /\ \A s \in spans :
                         /\ s[1][1] \in blocks(s[3])
                         /\ s[1][2] + s[2] <= heap.blocks[s[1][1]].used
                         /\ s[1][2] % Align = 0 \/ objects[s[3]].kind = "string"
  BY DEF PiecesApart
<1>1. ASSUME NEW s \in spans
      PROVE  \E o \in DOMAIN objects : \E p \in Spans(o) : s = <<p[1], p[2], o>>
  <2>1. PICK S \in {{<<u[1], u[2], o>> : u \in Spans(o)} : o \in DOMAIN objects} : s \in S
    BY <1>1
  <2>2. PICK o \in DOMAIN objects : S = {<<u[1], u[2], o>> : u \in Spans(o)}
    BY <2>1
  <2>3. PICK p \in Spans(o) : s = <<p[1], p[2], o>>
    BY <2>1, <2>2
  <2> QED BY <2>3
<1>2. ASSUME NEW s \in spans, NEW t \in spans, s # t PROVE ~Overlap(s, t)
  <2>0. PICK o \in DOMAIN objects : \E p \in Spans(o) : s = <<p[1], p[2], o>>
    BY <1>1
  <2>1. PICK p \in Spans(o) : s = <<p[1], p[2], o>>
    BY <2>0
  <2>8. PICK i \in DOMAIN objects : \E q \in Spans(i) : t = <<q[1], q[2], i>>
    BY <1>1
  <2>2. PICK q \in Spans(i) : t = <<q[1], q[2], i>>
    BY <2>8
  <2>3. PICK x, y : x = objects[o] /\ y = objects[i]
    OBVIOUS
  <2>4. /\ Sound(heap) /\ FlatLies(heap, x) /\ x.kind \in FlatKinds
        /\ FlatLies(heap, y) /\ y.kind \in FlatKinds
        /\ p \in SpansOf(heap, x) /\ q \in SpansOf(heap, y)
    BY <2>3, HeldLies DEF Spans
  <2>5. /\ p = <<p[1], p[2]>> /\ p[1] \in Address /\ p[2] \in Nat \ {0}
        /\ Span(p[1], p[2]) \subseteq FlatFoot(heap, x)
    BY <2>4, FlatPiece
  <2>6. /\ q = <<q[1], q[2]>> /\ q[1] \in Address /\ q[2] \in Nat \ {0}
        /\ Span(q[1], q[2]) \subseteq FlatFoot(heap, y)
    BY <2>4, FlatPiece
  <2>7. Span(p[1], p[2]) \cap Span(q[1], q[2]) = {}
    <3>1. CASE o = i
      <4>1. x = y /\ p # q
        BY <1>2, <2>1, <2>2, <2>3, <3>1
      <4> QED BY <2>4, <4>1, OwnApart
    <3>2. CASE o # i
      <4>1. FlatFoot(heap, x) \cap FlatFoot(heap, y) = {}
        BY <2>3, <3>2 DEF PlacedInv, WellPlaced
      <4> QED BY <2>5, <2>6, <4>1
    <3> QED BY <3>1, <3>2
  <2> QED BY <2>1, <2>2, <2>5, <2>6, <2>7, SpansApart
<1>3. ASSUME NEW s \in spans
      PROVE  /\ s[1][1] \in blocks(s[3])
             /\ s[1][2] + s[2] <= heap.blocks[s[1][1]].used
             /\ s[1][2] % Align = 0 \/ objects[s[3]].kind = "string"
  <2>0. PICK o \in DOMAIN objects : \E p \in Spans(o) : s = <<p[1], p[2], o>>
    BY <1>1
  <2>1. PICK p \in Spans(o) : s = <<p[1], p[2], o>>
    BY <2>0
  <2>2. PICK x : x = objects[o]
    OBVIOUS
  <2>3. /\ Sound(heap) /\ FlatLies(heap, x) /\ x.kind \in FlatKinds
        /\ p \in SpansOf(heap, x)
    BY <2>2, HeldLies DEF Spans
  <2>4. /\ p[1][1] \in ToSet(heap.regions[x.region].blocks)
        /\ p[1][2] + p[2] <= heap.blocks[p[1][1]].used
        /\ Aligned(p[1][2]) \/ x.kind = "string"
    BY <2>3, FlatPiece
  <2>5. x.region # Arena
    <3>1. x.region \in 1 .. Len(heap.regions) /\ Len(heap.regions) \in Nat
      BY <2>3, SoundFacts DEF FlatLies
    <3> QED BY <3>1 DEF Arena
  <2>6. blocks(s[3]) = ToSet(heap.regions[x.region].blocks)
    BY <2>1, <2>2, <2>5
  <2> QED BY <2>1, <2>2, <2>4, <2>6 DEF Aligned
<1> QED BY <1>2, <1>3

\* The invariant implies Accounted.
LEMMA PlacedAccounted ==
    ASSUME PlacedInv
    PROVE  Accounted
BY DEF PlacedInv, Sound, Accounted

-----------------------------------------------------------------------------
(***************************************************************************)
(* The memory a program begins with.                                       *)
(***************************************************************************)

\* f is what ChunkSize computes, from the size k on.
Doubles(f, k, n, least) ==
    /\ DOMAIN f = k .. n
    /\ \A c \in k .. n : f[c] = IF c < least THEN f[2 * c] ELSE c

\* The function ChunkSize computes exists, by induction down from the largest size.
LEMMA DoublingExists ==
    ASSUME NEW least \in Nat, NEW n \in Nat, n >= 2 * least
    PROVE  \E f : Doubles(f, 1, n, least)
<1> DEFINE S == {k \in 0 .. n : \E f : Doubles(f, k + 1, n, least)}
<1>1. S \in SUBSET Nat
  OBVIOUS
<1>2. S # {}
  <2>1. PICK f : f = [c \in (n + 1) .. n |-> 0]
    OBVIOUS
  <2>2. (n + 1) .. n = {}
    OBVIOUS
  <2>3. Doubles(f, n + 1, n, least)
    BY <2>1, <2>2 DEF Doubles
  <2>4. n \in 0 .. n
    OBVIOUS
  <2> QED BY <2>3, <2>4
<1>3. PICK k \in S : \A j \in S : k <= j
  BY <1>1, <1>2, Least
<1>4. PICK f : Doubles(f, k + 1, n, least)
  OBVIOUS
<1>5. ASSUME k # 0 PROVE FALSE
  <2>1. PICK j \in Nat : k = j + 1 /\ j <= n
    <3>1. k \in Nat /\ k <= n
      OBVIOUS
    <3>2. k - 1 \in Nat /\ k = (k - 1) + 1 /\ k - 1 <= n
      BY <1>5, <3>1
    <3> QED BY <3>2
  <2>2. PICK g : g = [c \in k .. n |-> IF c = k THEN IF k < least THEN f[2 * k] ELSE k ELSE f[c]]
    OBVIOUS
  <2>3. ASSUME NEW c \in k .. n, c < least
        PROVE  2 * c \in k + 1 .. n
    BY <2>1, <2>3
  <2>4. \A c \in k + 1 .. n : c \in k .. n /\ c # k /\ g[c] = f[c]
    BY <2>1, <2>2
  <2>5. g[k] = IF k < least THEN g[2 * k] ELSE k
    <3>1. k \in k .. n
      BY <2>1
    <3> QED BY <2>2, <2>3, <2>4, <3>1
  <2>6. \A c \in k + 1 .. n : g[c] = IF c < least THEN g[2 * c] ELSE c
    <3>1. ASSUME NEW c \in k + 1 .. n PROVE g[c] = IF c < least THEN g[2 * c] ELSE c
      <4>1. c < least => 2 * c \in k + 1 .. n
        BY <2>3, <2>4
      <4> QED BY <1>4, <2>4, <4>1 DEF Doubles
    <3> QED BY <3>1
  <2>7. \A c \in k .. n : c = k \/ c \in k + 1 .. n
    BY <2>1
  <2>8. Doubles(g, j + 1, n, least)
    BY <2>1, <2>2, <2>5, <2>6, <2>7 DEF Doubles
  <2>9. j \in S /\ j < k
    BY <2>1, <2>8
  <2> QED BY <1>1, <1>3, <2>9
<1>6. 0 + 1 = 1
  OBVIOUS
<1> QED BY <1>4, <1>5, <1>6

\* The first chunk of the arena.
LEMMA FirstChunk == ChunkSize(ArenaStart) = ArenaStart
<1>0. ArenaStart \in Nat /\ ArenaStart # 0 /\ Larger(ArenaStart, ArenaStart) = ArenaStart
  BY SizesAssumption DEF Larger
<1> DEFINE n == 2 * Larger(ArenaStart, ArenaStart)
           E(f) == [c \in 1 .. n |-> IF c < ArenaStart THEN f[2 * c] ELSE c]
           double == CHOOSE f : f = E(f)
<1>1. double = E(double)
  <2>0. n \in Nat /\ n >= 2 * ArenaStart
    BY <1>0
  <2>1. PICK f : Doubles(f, 1, n, ArenaStart)
    <3> HIDE DEF n
    <3> QED BY <1>0, <2>0, DoublingExists
  <2>2. PICK e : e = [c \in 1 .. n |-> f[c]]
    OBVIOUS
  <2>3. \A c \in 1 .. n : c < ArenaStart => 2 * c \in 1 .. n
    <3> HIDE DEF n
    <3>1. PICK k \in Nat, s \in Nat : k = n /\ s = ArenaStart /\ k >= 2 * s
      BY <1>0, <2>0
    <3> QED BY <3>1
  <2>4. \A c \in 1 .. n : e[c] = IF c < ArenaStart THEN e[2 * c] ELSE c
    <3> HIDE DEF n
    <3> QED BY <2>1, <2>2, <2>3 DEF Doubles
  <2>5. e = [c \in 1 .. n |-> e[c]]
    BY <2>2
  <2>6. e = E(e)
    BY <2>4, <2>5
  <2> HIDE DEF E
  <2> QED BY <2>6
<1>2. PICK t : t = double
  OBVIOUS
<1>3. t = E(t)
  <2> HIDE DEF double, E
  <2> QED BY <1>1, <1>2
<1>4. ChunkSize(ArenaStart) = t[ArenaStart]
  BY <1>2 DEF ChunkSize
<1> HIDE DEF double
<1>5. ArenaStart \in 1 .. n /\ ~ (ArenaStart < ArenaStart)
  BY <1>0
<1> QED BY <1>3, <1>4, <1>5

\* The memory before anything is made is sound.
LEMMA EmptySound ==
    Sound(EmptyHeap) /\ EmptyHeap.died = "no" /\ Len(EmptyHeap.regions) = 0
<1>1. PICK made, stats, tree, k :
         /\ made = [used |-> 0, words |-> Repeat(Junk, ArenaStart)]
         /\ stats = NoStats /\ tree = EmptyTree /\ k = EmptyHeap
  OBVIOUS
<1>2. k = [blocks |-> [b \in {1} |-> made], next |-> 2, regions |-> <<>>, arena |-> <<1>>,
           stats |-> stats, tree |-> tree, ptr |-> Null, died |-> "no"]
  <2>1. PICK h : h = [blocks |-> <<>>, next |-> 1, regions |-> <<>>, arena |-> <<>>, stats |-> stats,
                      tree |-> tree, ptr |-> Null, died |-> "no"]
    OBVIOUS
  <2>2. PICK f : f = [b \in DOMAIN h.blocks \cup {h.next} |-> IF b = h.next THEN made ELSE h.blocks[b]]
    OBVIOUS
  <2>3. RawBlock(h, ArenaStart) = [h EXCEPT !.blocks = f, !.next = @ + 1]
    BY <1>1, <2>2 DEF RawBlock
  <2>4. DOMAIN h.blocks \cup {h.next} = {1} /\ h.next = 1
    BY <2>1
  <2>5. f = [b \in {1} |-> made]
    BY <2>2, <2>4
  <2>6. RawBlock(h, ArenaStart) = [blocks |-> f, next |-> 2, regions |-> <<>>, arena |-> <<>>,
                                   stats |-> stats, tree |-> tree, ptr |-> Null, died |-> "no"]
    <3>1. 1 + 1 = 2
      OBVIOUS
    <3>2. PICK u : u = [h EXCEPT !.blocks = f, !.next = @ + 1]
      OBVIOUS
    <3>3. u = [blocks |-> f, next |-> 1 + 1, regions |-> <<>>, arena |-> <<>>,
               stats |-> stats, tree |-> tree, ptr |-> Null, died |-> "no"]
      BY ONLY <2>1, <3>2
    <3> QED BY ONLY <2>3, <3>1, <3>2, <3>3
  <2>7. k = [RawBlock(h, ArenaStart) EXCEPT !.arena = <<h.next>> \o @]
    BY <1>1, <2>1, FirstChunk DEF EmptyHeap, NewChunk
  <2>8. <<1>> \o <<>> = <<1>>
    OBVIOUS
  <2> QED BY <2>4, <2>5, <2>6, <2>7, <2>8
<1>3. BlockGood(made) /\ ArenaStart \in Nat
  BY <1>1, Repeated, SizesAssumption DEF BlockGood
<1>4. IsSequence(<<>>) /\ Len(<<>>) = 0 /\ ToSet(<<>>) = {} /\ DOMAIN <<>> = {}
  <2>1. <<>> \in Seq({}) /\ Len(<<>>) = 0 /\ DOMAIN <<>> = {}
    OBVIOUS
  <2> QED BY <2>1, AnySeq DEF ToSet
<1>5. stats = [created |-> 0, destroyed |-> 0, alive |-> 0, peak |-> 0, blocksCreated |-> 0,
               blocksDestroyed |-> 0, blocksAlive |-> 0, allocated |-> 0, freed |-> 0,
               bytesAlive |-> 0, bytesPeak |-> 0]
  BY <1>1 DEF NoStats
<1>6. stats \in Stats
  BY <1>5 DEF Stats
<1>7. tree = [entries |-> <<>>, depth |-> 0, truncated |-> FALSE]
  BY <1>1 DEF EmptyTree
<1>8. /\ k.next = 2 /\ k.regions = <<>> /\ k.arena = <<1>> /\ k.stats = stats
      /\ k.tree = tree /\ k.died = "no" /\ k.blocks = [b \in {1} |-> made]
      /\ Shaped(k)
  BY <1>2 DEF Shaped
<1>9. Owned(k) = {} /\ ToSet(k.arena) = {1} /\ Len(k.regions) = 0
  BY <1>4, <1>8, One DEF Owned
<1>10. Well(k)
  BY <1>3, <1>4, <1>6, <1>7, <1>8 DEF Well
<1>11. BlocksOwned(k)
  BY <1>8, <1>9 DEF BlocksOwned
<1>12. StatsRight(k)
  <2>1. SizeOf(k, {}) = 0 /\ Cardinality({}) = 0
    BY FS_EmptySet, SizeFirst
  <2> QED BY <1>5, <1>8, <1>9, <2>1 DEF StatsRight
<1>13. TreeRight(k)
  <2>1. TreeMax \in Nat /\ Min({0, TreeMax}) = 0
    BY MinOfTwo, SizesAssumption
  <2> QED BY <1>4, <1>5, <1>7, <1>8, <1>9, <2>1 DEF TreeRight
<1> QED BY <1>1, <1>8, <1>9, <1>10, <1>11, <1>12, <1>13 DEF Sound

\* The global region.
LEMMA FirstRegion ==
    Sound(RegionNew(EmptyHeap, 0)) /\ Len(RegionNew(EmptyHeap, 0).regions) = 1
<1>1. PICK e, g, z : e = EmptyHeap /\ z = 0 /\ z \in Nat /\ g = RegionNew(e, z)
  OBVIOUS
<1>2. Sound(e) /\ Len(e.regions) = 0
  BY <1>1, EmptySound
<1>3. Sound(g) /\ Len(g.regions) = Len(e.regions) + 1
  BY <1>1, <1>2, Entered1
<1> QED BY <1>1, <1>2, <1>3

\* The objects a program begins with, one by one.
LEMMA MakerSafe ==
    ASSUME NEW h, Sound(h), Len(h.regions) = 1, NEW kind \in FlatKinds, NEW v, IsSequence(v),
           NEW g, g = Maker(h, kind, RegionFor(kind), v)
    PROVE  RegionFor(kind) = 1 /\ FlatCreates(h, g, Object(g, kind, 1))
<1>1. 1 \in 1 .. Len(h.regions)
  OBVIOUS
<1>2. CASE kind = "string"
  <2>1. RegionFor(kind) = 1 /\ g = StringNew(h, 1, v)
    BY <1>2 DEF Maker, RegionFor
  <2>2. \E s : Creates(h, g, Object(g, kind, 1), s)
    BY <1>1, <1>2, <2>1, StringMade
  <2> QED BY <2>1, <2>2 DEF Creates
<1>3. CASE kind = "buffer"
  <2>1. RegionFor(kind) = 1 /\ g = BufferNew(h, 1, v)
    BY <1>3 DEF Maker, RegionFor
  <2>2. \E s : Creates(h, g, Object(g, kind, 1), s)
    BY <1>1, <1>3, <2>1, BufferMade
  <2> QED BY <2>1, <2>2 DEF Creates
<1>4. CASE kind = "vector"
  <2>1. RegionFor(kind) = 1 /\ g = VectorFrom(h, 1, v)
    BY <1>4 DEF Maker, RegionFor
  <2>2. \E s : Creates(h, g, Object(g, kind, 1), s)
    BY <1>1, <1>4, <2>1, VectorMade
  <2> QED BY <2>1, <2>2 DEF Creates
<1> QED BY <1>2, <1>3, <1>4 DEF FlatKinds

\* f is what Init makes, object by object, of the first k of "made".
Makings(made, f, k) ==
    /\ DOMAIN f = 0 .. k
    /\ \A i \in 0 .. k :
         f[i] = IF i = 0 THEN RegionNew(EmptyHeap, 0)
                ELSE Maker(f[i - 1], made[i][1], RegionFor(made[i][1]), made[i][2])

\* What Init makes object by object exists, by induction.
LEMMA MakingsExist ==
    ASSUME NEW made, NEW n \in Nat
    PROVE  \E f : Makings(made, f, n)
<1> DEFINE S == {d \in 0 .. n : \E f : Makings(made, f, n - d)}
<1>1. S \in SUBSET Nat
  OBVIOUS
<1>2. n \in S
  <2>1. PICK f : f = [i \in 0 .. 0 |-> RegionNew(EmptyHeap, 0)]
    OBVIOUS
  <2>2. DOMAIN f = 0 .. 0 /\ \A i \in 0 .. 0 : i = 0 /\ f[i] = RegionNew(EmptyHeap, 0)
    BY <2>1
  <2>3. Makings(made, f, 0)
    BY <2>2 DEF Makings
  <2>4. n - n = 0
    OBVIOUS
  <2> QED BY <2>3, <2>4
<1>3. PICK d \in S : \A j \in S : d <= j
  <2> HIDE DEF S
  <2> QED BY <1>1, <1>2, Least
<1>4. PICK f : Makings(made, f, n - d)
  OBVIOUS
<1>5. ASSUME d # 0 PROVE FALSE
  <2>1. PICK e \in Nat : d = e + 1 /\ e <= n
    <3>1. d \in Nat /\ d <= n
      OBVIOUS
    <3>2. d - 1 \in Nat /\ d = (d - 1) + 1 /\ d - 1 <= n
      BY <1>5, <3>1
    <3> QED BY <3>2
  <2>2. PICK k \in Nat : k = n - d /\ n - e = k + 1
    <3>1. n - d \in Nat /\ n - e = (n - d) + 1
      BY <2>1
    <3> QED BY <3>1
  <2>3. PICK x : x = Maker(f[k], made[k + 1][1], RegionFor(made[k + 1][1]), made[k + 1][2])
    OBVIOUS
  <2>4. PICK g : g = [i \in 0 .. k + 1 |-> IF i = k + 1 THEN x ELSE f[i]]
    OBVIOUS
  <2>5. \A i \in 0 .. k + 1 : i \in 0 .. k \/ i = k + 1
    OBVIOUS
  <2>6. \A i \in 0 .. k : i # k + 1 /\ i \in 0 .. k + 1 /\ (i # 0 => i - 1 \in 0 .. k)
    OBVIOUS
  <2>7. \A i \in 0 .. k : g[i] = f[i]
    BY <2>4, <2>6
  <2>8. k + 1 # 0 /\ k + 1 - 1 = k /\ k \in 0 .. k /\ k + 1 \in 0 .. k + 1
    OBVIOUS
  <2>9. g[k + 1] = x
    BY <2>4, <2>8
  <2>10. Makings(made, g, k + 1)
    <3>1. DOMAIN g = 0 .. k + 1
      BY <2>4
    <3>2. ASSUME NEW i \in 0 .. k + 1
          PROVE  g[i] = IF i = 0 THEN RegionNew(EmptyHeap, 0)
                        ELSE Maker(g[i - 1], made[i][1], RegionFor(made[i][1]), made[i][2])
      <4>1. CASE i \in 0 .. k
        <5>1. i # 0 => i - 1 \in 0 .. k /\ g[i - 1] = f[i - 1]
          BY <2>6, <2>7, <4>1
        <5>2. f[i] = IF i = 0 THEN RegionNew(EmptyHeap, 0)
                     ELSE Maker(f[i - 1], made[i][1], RegionFor(made[i][1]), made[i][2])
          BY <1>4, <2>2, <4>1 DEF Makings
        <5> QED BY <2>7, <4>1, <5>1, <5>2
      <4>2. CASE i = k + 1
        BY <2>3, <2>7, <2>8, <2>9, <4>2
      <4> QED BY <2>5, <4>1, <4>2
    <3> QED BY <3>1, <3>2 DEF Makings
  <2>11. e \in S /\ e < d
    BY <2>1, <2>2, <2>10
  <2> QED BY <1>3, <2>11
<1>6. n - 0 = n
  OBVIOUS
<1> QED BY <1>4, <1>5, <1>6

\* The objects the first k of "made" have become.
Begun(made, f, k) == [j \in 1 .. k |-> Object(f[j], made[j][1], 1)]

\* All objects a program begins with lie well.
LEMMA MakingsPlaced ==
    ASSUME NEW made, IsSequence(made), NEW n \in Nat, n = Len(made),
           \A i \in 1 .. n : made[i][1] \in FlatKinds /\ IsSequence(made[i][2]),
           NEW f, Makings(made, f, n)
    PROVE  Sound(f[n]) /\ (f[n].died = "no" => WellPlaced(f[n], Begun(made, f, n)))
<1> DEFINE Good(i) == /\ Sound(f[i]) /\ Len(f[i].regions) = 1
                      /\ f[i].died = "no" => WellPlaced(f[i], Begun(made, f, i))
           Bad == {i \in 0 .. n : ~ Good(i)}
<1>1. Good(0)
  <2>1. f[0] = RegionNew(EmptyHeap, 0)
    BY DEF Makings
  <2>2. Sound(f[0]) /\ Len(f[0].regions) = 1
    BY <2>1, FirstRegion
  <2>3. DOMAIN Begun(made, f, 0) = {}
    BY DEF Begun
  <2> QED BY <2>2, <2>3 DEF WellPlaced
<1>2. ASSUME Bad # {} PROVE FALSE
  <2>1. PICK i \in Bad : \A j \in Bad : i <= j
    <3>1. Bad \in SUBSET Nat
      OBVIOUS
    <3> HIDE DEF Bad
    <3> QED BY <1>2, <3>1, Least
  <2>2. i # 0
    BY <1>1
  <2>3. PICK k \in Nat : i = k + 1 /\ k = i - 1 /\ k \in 0 .. n
    <3>1. i - 1 \in Nat /\ i = (i - 1) + 1 /\ i - 1 \in 0 .. n
      BY <2>2
    <3> QED BY <3>1
  <2>4. Good(k)
    BY <2>1, <2>3
  <2>5. PICK h, g, kind, v : h = f[k] /\ g = f[i] /\ kind = made[i][1] /\ v = made[i][2]
    OBVIOUS
  <2>6. i \in 1 .. n /\ kind \in FlatKinds /\ IsSequence(v)
    BY <2>2, <2>5
  <2>7. g = Maker(h, kind, RegionFor(kind), v)
    BY <2>2, <2>3, <2>5, <2>6 DEF Makings
  <2>8. Sound(h) /\ Len(h.regions) = 1
    BY <2>4, <2>5
  <2>9. FlatCreates(h, g, Object(g, kind, 1))
    BY <2>6, <2>7, <2>8, MakerSafe
  <2>10. Sound(g) /\ Len(g.regions) = 1 /\ (h.died # "no" => g.died # "no")
    BY <2>8, <2>9 DEF FlatCreates, Safe
  <2>11. ASSUME g.died = "no" PROVE WellPlaced(g, Begun(made, f, i))
    <3>1. PICK ob, on, x : /\ ob = Begun(made, f, k) /\ on = Begun(made, f, i)
                           /\ x = Object(g, kind, 1)
      OBVIOUS
    <3>2. h.died = "no" /\ WellPlaced(h, ob)
      BY <2>4, <2>5, <2>10, <2>11, <3>1
    <3>3. DOMAIN ob = 1 .. k /\ 1 .. i = DOMAIN ob \cup {i} /\ i \notin DOMAIN ob
      BY <2>3, <3>1 DEF Begun
    <3>4. \A j \in DOMAIN ob : ob[j] = Object(f[j], made[j][1], 1)
      BY <3>1 DEF Begun
    <3>5. on = With(ob, i, x)
      BY <2>5, <3>1, <3>3, <3>4 DEF Begun, With
    <3>6. x.kind \in FlatKinds
      BY <2>6, <3>1 DEF Object
    <3>7. FlatCreates(h, g, x)
      BY <2>9, <3>1
    <3>8. WellPlaced(g, on)
      BY <2>11, <3>2, <3>5, <3>6, <3>7, PlacedWith
    <3> QED BY <3>1, <3>8
  <2>12. Good(i)
    BY <2>5, <2>10, <2>11
  <2> QED BY <2>1, <2>12
<1>3. Good(n)
  <2>1. n \in 0 .. n
    OBVIOUS
  <2> QED BY <1>2, <2>1
<1> QED BY <1>3

\* The heap and the objects as Init writes them.
LEMMA MadeAll ==
    ASSUME NEW made, IsSequence(made), NEW n \in Nat, n = Len(made),
           \A i \in 1 .. n : made[i][1] \in FlatKinds /\ IsSequence(made[i][2])
    PROVE  LET kind(i) == made[i][1]
               h[i \in 0 .. n] == IF i = 0 THEN RegionNew(EmptyHeap, 0)
                                  ELSE Maker(h[i - 1], kind(i), RegionFor(kind(i)), made[i][2])
               g == [h[n] EXCEPT !.ptr = Null]
           IN  /\ Sound(g)
               /\ g.died = "no" =>
                    WellPlaced(g, [i \in 1 .. n |-> [kind |-> kind(i), ptr |-> h[i].ptr,
                                                     region |-> RegionFor(kind(i))]])
<1> DEFINE E(f) == [i \in 0 .. n |->
                      IF i = 0 THEN RegionNew(EmptyHeap, 0)
                      ELSE Maker(f[i - 1], made[i][1], RegionFor(made[i][1]), made[i][2])]
           h == CHOOSE f : f = E(f)
<1>1. h = E(h)
  <2>1. PICK f : Makings(made, f, n)
    BY MakingsExist
  <2>2. PICK e : e = [i \in 0 .. n |-> f[i]]
    OBVIOUS
  <2>3. \A i \in 0 .. n : i # 0 => i - 1 \in 0 .. n
    OBVIOUS
  <2>4. \A i \in 0 .. n :
           e[i] = IF i = 0 THEN RegionNew(EmptyHeap, 0)
                  ELSE Maker(e[i - 1], made[i][1], RegionFor(made[i][1]), made[i][2])
    BY <2>1, <2>2, <2>3 DEF Makings
  <2>5. e = [i \in 0 .. n |-> e[i]]
    BY <2>2
  <2>6. e = E(e)
    BY <2>4, <2>5
  <2> HIDE DEF E
  <2> QED BY <2>6
<1>2. PICK t : t = h
  OBVIOUS
<1>3. t = E(t)
  BY <1>1, <1>2
<1> HIDE DEF h
<1>4. Makings(made, t, n)
  BY <1>3 DEF Makings
<1>5. Sound(t[n]) /\ (t[n].died = "no" => WellPlaced(t[n], Begun(made, t, n)))
  BY <1>4, MakingsPlaced
<1>6. PICK u, g : u = t[n] /\ g = [u EXCEPT !.ptr = Null]
  OBVIOUS
<1>7. /\ Sound(g) /\ Used(g) = Used(u) /\ g.died = u.died /\ g.regions = u.regions
      /\ \A r : Of(g, r) = Of(u, r)
      /\ \A a : Word(g, a) = Word(u, a)
  <2>1. Sound(u)
    BY ONLY <1>5, <1>6
  <2> QED BY ONLY <1>6, <2>1, Pointed
<1>8. Extends(u, g, {})
  BY <1>7 DEF Extends
<1>9. g.died = "no" => WellPlaced(g, Begun(made, t, n))
  BY <1>5, <1>6, <1>7, <1>8, PlacedOnward
<1>10. Begun(made, t, n) = [i \in 1 .. n |-> [kind |-> made[i][1], ptr |-> t[i].ptr,
                                              region |-> RegionFor(made[i][1])]]
  <2>1. \A i \in 1 .. n : RegionFor(made[i][1]) = 1
    BY DEF RegionFor, FlatKinds
  <2> QED BY <2>1 DEF Begun, Object
<1>11. g = [t[n] EXCEPT !.ptr = Null]
  BY <1>6
<1> QED BY <1>2, <1>7, <1>9, <1>10, <1>11 DEF h

\* The invariant holds at first.
LEMMA PlacedAtFirst ==
    ASSUME Init, budget.kinds \subseteq FlatKinds
    PROVE  PlacedInv
<1>1. PICK start \in Starts :
        LET n == Len(start.made)
            kind(i) == start.made[i][1]
            h[i \in 0..n] ==
              IF i = 0 THEN RegionNew(EmptyHeap, 0)
              ELSE Maker(h[i - 1], kind(i), RegionFor(kind(i)), start.made[i][2])
        IN  /\ heap = [h[n] EXCEPT !.ptr = Null]
            /\ objects = [i \in 1..n |->
                             [kind |-> kind(i), ptr |-> h[i].ptr, region |-> RegionFor(kind(i))]]
            /\ budget = [calls |-> start.calls, objects |-> start.objects,
                         regions |-> start.regions, kinds |-> {kind(i) : i \in 1..n}]
  BY DEF Init
<1>2. PICK made, n : made = start.made /\ n = Len(made)
  OBVIOUS
<1>3. IsSequence(made) /\ \A m \in ToSet(made) : IsSequence(m[2])
  BY <1>2, ProgramsAssumption
<1>4. n \in Nat /\ \A i \in 1 .. n : made[i] \in ToSet(made)
  BY <1>2, <1>3, SeqFacts
<1>5. budget = [calls |-> start.calls, objects |-> start.objects,
                regions |-> start.regions, kinds |-> {made[i][1] : i \in 1..n}]
  BY <1>1, <1>2
<1>6. \A i \in 1 .. n : made[i][1] \in FlatKinds /\ IsSequence(made[i][2])
  BY <1>3, <1>4, <1>5
<1>7. Sound(heap) /\ (heap.died = "no" => WellPlaced(heap, objects))
  BY <1>1, <1>2, <1>3, <1>4, <1>6, MadeAll
<1>8. BudgetGood(budget)
  <2>1. start.objects \in Nat
    BY ProgramsAssumption
  <2> QED BY <1>5, <2>1 DEF BudgetGood
<1> QED BY <1>7, <1>8 DEF PlacedInv, Alive

\* The invariant holds of every program on the kinds above.
THEOREM InvariantHolds == Spec /\ budget.kinds \subseteq FlatKinds => []PlacedInv
<1>1. Init /\ budget.kinds \subseteq FlatKinds => PlacedInv
  BY PlacedAtFirst
<1>2. PlacedInv /\ [Next]_vars => PlacedInv'
  BY PlacedStep
<1> QED BY <1>1, <1>2, PTL DEF Spec

\* Whatever a program on strings, buffers and vectors does to its memory, what can be read back
\* is what collections promise: every call changes its own object to the value promised and no
\* other, returns the value promised, and ends the program only outside the bounds or of a size
\* too large. A program that could not be given its first objects has ended before its first
\* call, hence Alive.
THEOREM PromiseKept == Spec /\ Alive /\ budget.kinds \subseteq FlatKinds => KeepsPromise
<1>1. Init /\ Alive => Promise!Init
  BY DEF Init, Promise!Init
<1>2. PlacedInv /\ [Next]_vars => [Promise!Next]_(Promise!vars)
  BY PlacedStep
<1> QED BY <1>1, <1>2, InvariantHolds, PTL DEF Spec, KeepsPromise, Promise!Spec

\* In programs on strings, buffers and vectors every block belongs to one live region or the
\* arena, and the statistics and the lifetime tree of core.h are right, for every alignment,
\* block size, SIZE_MAX and program.
THEOREM MemoryAccounted == Spec /\ budget.kinds \subseteq FlatKinds => []Accounted
<1>1. PlacedInv => Accounted
  BY PlacedAccounted
<1> QED BY <1>1, InvariantHolds, PTL

\* In such programs no two pieces of live objects share a word, each lies in the used part of a
\* block of its object's region, and is aligned.
THEOREM MemoryApart == Spec /\ budget.kinds \subseteq FlatKinds => []PiecesApart
<1>1. PlacedInv => PiecesApart
  BY PiecesPlaced
<1> QED BY <1>1, InvariantHolds, PTL

-----------------------------------------------------------------------------
(***************************************************************************)
(* The loop.                                                               *)
(***************************************************************************)

\* The first k values of v have been seen.
SeenOf(seen, v, k) ==
    /\ k \in Nat /\ k <= Len(v) /\ IsSequence(seen) /\ Len(seen) = k
    /\ \A i \in 1 .. k : seen[i] = v[i]

\* What a loop has seen is what its object begins with, unless its body took that away.
LoopInv ==
    /\ loop = [on |-> loop.on, at |-> loop.at, seen |-> loop.seen, start |-> loop.start,
               calm |-> loop.calm]
    /\ Looping => Alive /\ loop.on \in DOMAIN objects
    /\ Looping /\ loop.calm => SeenOf(loop.seen, Holding[loop.on], loop.at)

\* Without a loop there is nothing to say.
LEMMA NoLoopGood ==
    ASSUME loop' = NoLoop
    PROVE  LoopInv'
BY DEF LoopInv, NoLoop, Looping

\* The loop and its object are left alone.
LEMMA LoopKept ==
    ASSUME LoopInv, loop' = loop, Alive',
           Looping => loop.on \in DOMAIN objects' /\ Holding'[loop.on] = Holding[loop.on]
    PROVE  LoopInv'
<1>1. loop' = [on |-> loop'.on, at |-> loop'.at, seen |-> loop'.seen, start |-> loop'.start,
               calm |-> loop'.calm]
  BY DEF LoopInv
<1>2. Looping' = Looping
  BY DEF Looping
<1>3. ASSUME Looping PROVE Alive' /\ loop'.on \in DOMAIN objects'
  BY <1>3
<1>4. ASSUME Looping, loop.calm PROVE SeenOf(loop'.seen, Holding'[loop'.on], loop'.at)
  BY <1>4 DEF LoopInv
<1> QED BY <1>1, <1>2, <1>3, <1>4 DEF LoopInv

\* A sequence is a prefix of another when it has the same first values.
LEMMA PrefixOf ==
    ASSUME NEW v, NEW w, IsSequence(v), IsSequence(w), IsPrefix(v, w)
    PROVE  Len(v) <= Len(w) /\ \A i \in 1 .. Len(v) : v[i] = w[i]
<1>1. PICK n \in Nat : n = Len(v)
  BY SeqFacts
<1>2. n <= Len(w) /\ SubSeq(v, 1, n) = SubSeq(w, 1, n) /\ Len(w) \in Nat
  BY <1>1, SeqFacts DEF IsPrefix
<1>3. ASSUME NEW i \in 1 .. n PROVE v[i] = w[i]
  <2>1. /\ \A j \in 1 .. n : v[j] \in ToSet(v)
        /\ \A j \in 1 .. n : w[j] \in ToSet(w)
    BY <1>1, <1>2, SeqFacts
  <2>2. SubSeq(v, 1, n)[i] = v[i]
    <3>1. \A j \in 1 .. n - 1 + 1 : SubSeq(v, 1, n)[j] = v[1 + j - 1]
      BY <2>1, SubSeqProperties
    <3> QED BY <3>1
  <2>3. SubSeq(w, 1, n)[i] = w[i]
    <3>1. \A j \in 1 .. n - 1 + 1 : SubSeq(w, 1, n)[j] = w[1 + j - 1]
      BY <2>1, SubSeqProperties
    <3> QED BY <3>1
  <2> QED BY <1>2, <2>2, <2>3
<1> QED BY <1>1, <1>2, <1>3

\* What is read does not depend on where the last result is.
LEMMA ContentPtr ==
    ASSUME NEW h, NEW g, Shaped(g), g = [h EXCEPT !.ptr = Null], NEW o, objects[o].kind \in FlatKinds
    PROVE  Content(h, o) = Content(g, o)
<1>1. g.blocks = h.blocks
  BY DEF Shaped
<1>2. \A p : Word(g, p) = Word(h, p)
  BY <1>1 DEF Word
<1>3. \A p, n : Words(g, p, n) = Words(h, p, n)
  BY <1>1 DEF Words
<1>4. \A d, i : Element(g, d, i) = Element(h, d, i)
  BY <1>3 DEF Element
<1>5. PICK p : p = objects[o].ptr
  OBVIOUS
<1>6. Data(g, p) = Data(h, p) /\ Size(g, p) = Size(h, p)
  BY <1>2 DEF Data, Size
<1>7. Text(g, p) = Text(h, p)
  BY <1>3, <1>6 DEF Text
<1>8. Elements(g, p) = Elements(h, p)
  BY <1>4, <1>6 DEF Elements
<1>9. IsText(o) \/ IsVector(o)
  BY DEF IsText, IsVector, FlatKinds
<1> QED BY <1>5, <1>7, <1>8, <1>9 DEF Content

\* The objects held by kind.
LEMMA FlatHeld ==
    ASSUME PlacedInv, Alive, NEW o \in DOMAIN objects
    PROVE  /\ objects[o].kind \in FlatKinds /\ ~ IsDict(o)
           /\ IsSequence(Holding[o]) /\ Holding[o] = Content(heap, o)
           /\ Len(Holding[o]) = Size(heap, At(o)) /\ Size(heap, At(o)) \in Nat
<1>1. PICK x : x = objects[o]
  OBVIOUS
<1>2. Sound(heap) /\ FlatLies(heap, x) /\ x.kind \in FlatKinds
  BY <1>1, HeldLies
<1>3. /\ IsSequence(Value(heap, x)) /\ Len(Value(heap, x)) = Size(heap, x.ptr)
      /\ Size(heap, x.ptr) \in Nat
  BY <1>2, ValueIs
<1>4. Holding[o] = Value(heap, x)
  BY <1>1, HeldValue
<1> QED BY <1>1, <1>2, <1>3, <1>4 DEF IsDict, FlatKinds, Holding, At

\* What is held after a step is a sequence too.
LEMMA FlatHeldNext ==
    ASSUME PlacedInv', Alive', NEW o \in DOMAIN objects'
    PROVE  IsSequence(Holding'[o])
<1>1. Sound(heap') /\ WellPlaced(heap', objects')
  BY DEF PlacedInv
<1>2. \A q \in DOMAIN objects' : objects'[q].kind \in FlatKinds /\ FlatLies(heap', objects'[q])
  BY <1>1 DEF WellPlaced
<1>3. Holding' = Holds(heap', objects')
  BY <1>2, HoldingNext
<1>4. PICK h, x : h = heap' /\ x = objects'[o]
  OBVIOUS
<1>5. IsSequence(Value(h, x))
  BY <1>1, <1>2, <1>4, ValueIs
<1> QED BY <1>3, <1>4, <1>5 DEF Holds

\* A call that fails ends the program.
LEMMA NoDying ==
    ASSUME PlacedInv, NEW h, NEW call, NEW result, Return(h, call, result), h.died # "no"
    PROVE  heap'.died # "no"
<1>1. Shaped(heap) /\ heap' = [heap EXCEPT !.died = h.died]
  BY DEF PlacedInv, Sound, Well, Return
<1> QED BY <1>1 DEF Shaped

\* A call on an object.
LEMMA OnLoop ==
    ASSUME PlacedInv, PlacedInv', LoopInv, Alive, NEW h, NEW call, NEW result, On(h, call, result)
    PROVE  LoopInv' /\ (Looping /\ Alive' => loop' # NoLoop)
<1>1. CASE h.died # "no"
  <2>1. loop' = NoLoop /\ heap'.died # "no"
    BY <1>1, NoDying DEF On, Return
  <2> QED BY <2>1, NoLoopGood DEF Alive
<1>2. CASE h.died = "no"
  <2>1. heap' = [h EXCEPT !.ptr = Null] /\ objects' = objects
    BY <1>2 DEF On, Return
  <2>2. Shaped(heap')
    BY DEF PlacedInv, Sound, Well
  <2>3. Alive'
    <3>1. heap'.died = h.died
      BY <2>1, <2>2 DEF Shaped
    <3> QED BY <1>2, <3>1 DEF Alive
  <2>4. CASE ~ Looping
    <3>1. loop' = loop
      BY <1>2, <2>4 DEF On
    <3> QED BY <2>3, <2>4, <3>1, LoopKept
  <2>5. CASE Looping
    <3>1. PICK o : o = loop.on
      OBVIOUS
    <3>2. o \in DOMAIN objects
      BY <2>5, <3>1 DEF LoopInv
    <3>3. loop' = [loop EXCEPT !.calm = @ /\ Undisturbed(h)]
      BY <1>2, <2>5 DEF On
    <3>4. loop' = [on |-> o, at |-> loop.at, seen |-> loop.seen, start |-> loop.start,
                   calm |-> loop.calm /\ Undisturbed(h)]
      BY <3>1, <3>3 DEF LoopInv
    <3>5. /\ loop' = [on |-> loop'.on, at |-> loop'.at, seen |-> loop'.seen, start |-> loop'.start,
                      calm |-> loop'.calm]
          /\ loop'.on = o /\ loop'.at = loop.at /\ loop'.seen = loop.seen
          /\ loop'.calm = (loop.calm /\ Undisturbed(h))
      BY <3>4
    <3>6. ASSUME loop.calm, Undisturbed(h) PROVE SeenOf(loop.seen, Holding'[o], loop.at)
      <4>1. PICK v, w : v = Holding[o] /\ w = Content(h, o)
        OBVIOUS
      <4>2. ~ IsDict(o) /\ objects[o].kind \in FlatKinds /\ IsSequence(v) /\ v = Content(heap, o)
        BY <3>2, <4>1, FlatHeld
      <4>3. IsPrefix(v, w)
        BY <3>1, <3>6, <4>1, <4>2 DEF Undisturbed
      <4>4. Content(heap', o) = w
        BY <2>1, <2>2, <4>1, <4>2, ContentPtr
      <4>5. Holding'[o] = w
        BY <2>1, <3>2, <4>4 DEF Holding, Content, IsText, IsVector, Entries
      <4>6. IsSequence(w)
        BY <2>1, <2>3, <3>2, <4>5, FlatHeldNext
      <4>7. Len(v) <= Len(w) /\ \A i \in 1 .. Len(v) : v[i] = w[i]
        BY <4>2, <4>3, <4>6, PrefixOf
      <4>8. SeenOf(loop.seen, v, loop.at)
        BY <2>5, <3>1, <3>6, <4>1 DEF LoopInv
      <4>9. SeenOf(loop.seen, w, loop.at)
        <5>1. Len(v) \in Nat /\ Len(w) \in Nat
          BY <4>2, <4>6, SeqFacts
        <5> QED BY <4>7, <4>8, <5>1 DEF SeenOf
      <4> QED BY <4>5, <4>9
    <3>7. Looping' /\ loop'.on \in DOMAIN objects'
      BY <2>1, <2>5, <3>1, <3>2, <3>5 DEF Looping
    <3>8. LoopInv'
      BY <2>3, <3>5, <3>6, <3>7 DEF LoopInv
    <3>9. loop' # NoLoop
      BY <2>5, <3>1, <3>5 DEF NoLoop, Looping
    <3> QED BY <3>8, <3>9
  <2> QED BY <2>3, <2>4, <2>5
<1> QED BY <1>1, <1>2

\* A call that makes an object leaves what the others hold.
LEMMA MakingKeeps ==
    ASSUME Alive', Promise!Make \/ Promise!Join \/ Promise!Slice \/ Promise!Exhausted, NEW o \in DOMAIN objects
    PROVE  o \in DOMAIN objects' /\ Holding'[o] = Holding[o]
<1>1. ~ Promise!Exhausted /\ ~ Promise!Dies("bounds")
  BY DEF Promise!Exhausted, Promise!Dies
<1>2. PICK n : n = asked'.on
  OBVIOUS
<1>3. \E s : n \notin DOMAIN Holding /\ Holding' = Promise!With(Holding, n, s)
  <2>1. CASE Promise!Make
    BY <1>2, <2>1 DEF Promise!Make, Promise!Makes, Holding
  <2>2. CASE Promise!Join
    BY <1>2, <2>2 DEF Promise!Join, Promise!Makes, Holding
  <2>3. CASE Promise!Slice
    BY <1>1, <1>2, <2>3 DEF Promise!Slice, Promise!Makes, Holding
  <2> QED BY <1>1, <2>1, <2>2, <2>3
<1>4. PICK s : n \notin DOMAIN Holding /\ Holding' = Promise!With(Holding, n, s)
  BY <1>3
<1>5. Holding' = [q \in DOMAIN Holding \cup {n} |-> IF q = n THEN s ELSE Holding[q]]
  BY <1>4 DEF Promise!With
<1>6. o \in DOMAIN Holding /\ o # n
  BY <1>4 DEF Holding
<1>7. Holding'[o] = Holding[o] /\ o \in DOMAIN Holding'
  BY <1>5, <1>6
<1> QED BY <1>7 DEF Holding

\* A call that makes an object.
LEMMA NewLoop ==
    ASSUME PlacedInv, LoopInv, Alive, NEW h, NEW kind, NEW r, NEW call, New(h, kind, r, call),
           PlacedInv', Promise!Make \/ Promise!Join \/ Promise!Slice \/ Promise!Exhausted
    PROVE  LoopInv' /\ (Looping /\ Alive' => loop' # NoLoop)
<1>1. CASE h.died # "no"
  <2>1. loop' = NoLoop /\ heap'.died # "no"
    BY <1>1, NoDying DEF New
  <2> QED BY <2>1, NoLoopGood DEF Alive
<1>2. CASE h.died = "no"
  <2>1. heap' = [h EXCEPT !.ptr = Null] /\ loop' = loop
    BY <1>2 DEF New, Return
  <2>2. Alive'
    <3>1. Shaped(heap')
      BY DEF PlacedInv, Sound, Well
    <3>2. heap'.died = h.died
      BY <2>1, <3>1 DEF Shaped
    <3> QED BY <1>2, <3>2 DEF Alive
  <2>3. Looping => loop.on \in DOMAIN objects' /\ Holding'[loop.on] = Holding[loop.on]
    BY <2>2, MakingKeeps DEF LoopInv
  <2>4. LoopInv'
    BY <2>1, <2>2, <2>3, LoopKept
  <2>5. Looping => loop' # NoLoop
    BY <2>1 DEF Looping, NoLoop
  <2> QED BY <2>4, <2>5
<1> QED BY <1>1, <1>2

\* The calls on an object, and those that make one.
LEMMA OnCalls ==
    ASSUME AppendText \/ Push \/ Extend \/ Pop \/ Clear \/ Set \/ Get
    PROVE  Alive /\ \E h, call, result : On(h, call, result)
<1>1. CASE AppendText
  BY <1>1 DEF AppendText, Ready
<1>2. CASE Push
  BY <1>2 DEF Push, Ready
<1>3. CASE Extend
  BY <1>3 DEF Extend, Ready
<1>4. CASE Pop
  BY <1>4 DEF Pop, Ready
<1>5. CASE Clear
  BY <1>5 DEF Clear, Ready
<1>6. CASE Set
  BY <1>6 DEF Set, Ready
<1>7. CASE Get
  BY <1>7 DEF Get, Ready
<1> QED BY <1>1, <1>2, <1>3, <1>4, <1>5, <1>6, <1>7

\* The calls that make an object.
LEMMA NewCalls ==
    ASSUME PlacedInv, MakeObject \/ Join \/ Slice
    PROVE  /\ Alive /\ \E h, kind, r, call : New(h, kind, r, call)
           /\ Promise!Make \/ Promise!Join \/ Promise!Slice \/ Promise!Exhausted
<1>1. CASE MakeObject
  BY <1>1, MakeObjectStep DEF MakeObject, Makes, Ready
<1>2. CASE Join
  BY <1>2, JoinStep DEF Join, Ready
<1>3. CASE Slice
  BY <1>3, SliceStep DEF Slice, Ready
<1> QED BY <1>1, <1>2, <1>3

\* What the loop finds has been seen in full when it ends.
Completed == loop.seen = Content(heap, loop.on)

\* A loop that starts has seen nothing yet.
LEMMA StartLoopGood ==
    ASSUME PlacedInv, StartLoop
    PROVE  LoopInv' /\ ~ Looping
<1>1. Alive /\ ~ Looping /\ objects' = objects /\ Return(heap, [op |-> "walk"], <<"done">>)
  BY DEF StartLoop, Ready
<1>2. PICK o \in DOMAIN objects, s \in {DOMAIN Content(heap, q) : q \in DOMAIN objects} \cup {{}} :
        loop' = [on |-> o, at |-> 0, seen |-> <<>>, start |-> s, calm |-> TRUE]
  BY DEF StartLoop, Held
<1>3. /\ loop' = [on |-> loop'.on, at |-> loop'.at, seen |-> loop'.seen, start |-> loop'.start,
                  calm |-> loop'.calm]
      /\ loop'.on = o /\ loop'.at = 0 /\ loop'.seen = <<>>
  BY <1>2
<1>4. Alive' /\ Holding' = Holding
  <2>1. Promise!Walk
    BY <1>1, LookStep
  <2> QED BY <1>1, <2>1 DEF Promise!Walk, Promise!Done, Holding, Alive
<1>5. SeenOf(<<>>, Holding[o], 0)
  <2>1. IsSequence(Holding[o])
    BY <1>1, FlatHeld
  <2>2. Len(Holding[o]) \in Nat
    BY <2>1, SeqFacts
  <2>3. IsSequence(<<>>) /\ Len(<<>>) = 0
    BY DEF IsSequence
  <2> QED BY <2>2, <2>3 DEF SeenOf
<1>6. SeenOf(loop'.seen, Holding'[loop'.on], loop'.at)
  BY <1>3, <1>4, <1>5
<1>7. loop'.on \in DOMAIN objects'
  BY <1>1, <1>3
<1> QED BY <1>1, <1>3, <1>4, <1>6, <1>7 DEF LoopInv

\* What the loop reads at a place.
LEMMA HeldItem ==
    ASSUME PlacedInv, Alive, NEW o \in DOMAIN objects, NEW i \in 0 .. Size(heap, At(o)) - 1
    PROVE  (IF IsVector(o) THEN Element(heap, Data(heap, At(o)), i)
            ELSE Word(heap, Plus(Data(heap, At(o)), i))) = Holding[o][i + 1]
<1>1. PICK x : x = objects[o] /\ x.ptr = At(o)
  BY DEF At
<1>2. Sound(heap) /\ FlatLies(heap, x) /\ x.kind \in FlatKinds
  BY <1>1, HeldLies
<1>3. Holding[o] = Value(heap, x)
  BY <1>1, HeldValue
<1>4. /\ x.kind = "vector" =>
           \A j \in 0 .. Size(heap, x.ptr) - 1 : Nth(heap, x, j) = Value(heap, x)[j + 1]
      /\ x.kind # "vector" =>
           \A j \in 0 .. Size(heap, x.ptr) - 1 : Word(heap, Plus(Data(heap, x.ptr), j)) = Value(heap, x)[j + 1]
  BY <1>2, ValueIs
<1>5. IsVector(o) <=> x.kind = "vector"
  BY <1>1, <1>2 DEF IsVector, FlatKinds
<1>6. i \in 0 .. Size(heap, x.ptr) - 1
  BY <1>1
<1>7. CASE x.kind = "vector"
  BY <1>1, <1>3, <1>4, <1>5, <1>6, <1>7 DEF Nth
<1>8. CASE x.kind # "vector"
  BY <1>1, <1>3, <1>4, <1>5, <1>6, <1>8
<1> QED BY <1>7, <1>8

\* The loop sees the next value, or has seen them all.
LEMMA VisitNextGood ==
    ASSUME PlacedInv, LoopInv, VisitNext
    PROVE  LoopInv' /\ (loop' = NoLoop /\ loop.calm => ~ IsDict(loop.on) /\ Completed)
<1>1. /\ Alive /\ Looping /\ objects' = objects
      /\ Return(heap, [op |-> "walk"], <<"done">>)
  BY DEF VisitNext, Ready
<1>2. PICK o, v, n, p : o = loop.on /\ v = Holding[o] /\ n = Size(heap, At(o)) /\ p = At(o)
  OBVIOUS
<1>3. o \in DOMAIN objects
  BY <1>1, <1>2 DEF LoopInv
<1>4. /\ objects[o].kind \in FlatKinds /\ ~ IsDict(o) /\ IsSequence(v) /\ v = Content(heap, o)
      /\ Len(v) = n /\ n \in Nat
  BY <1>1, <1>2, <1>3, FlatHeld
<1>5. Alive' /\ Holding' = Holding
  <2>1. Promise!Walk
    BY <1>1, LookStep
  <2> QED BY <1>1, <2>1 DEF Promise!Walk, Promise!Done, Holding, Alive
<1>6. PICK A : A = Ahead(o) /\ A = loop.at .. (n - 1)
  BY <1>2, <1>4 DEF Ahead, At, FlatKinds
<1>7. PICK i, item :
        /\ i = Min(A)
        /\ item = IF IsVector(o) THEN Element(heap, Data(heap, p), i)
                  ELSE Word(heap, Plus(Data(heap, p), i))
        /\ loop' = IF A = {} THEN NoLoop ELSE [loop EXCEPT !.at = i + 1, !.seen = Append(@, item)]
  <2>1. IsVector(o) \/ IsText(o)
    BY <1>4 DEF IsVector, IsText, FlatKinds
  <2>2. ~ (IsVector(o) /\ IsText(o))
    BY DEF IsVector, IsText
  <2> QED BY <1>2, <1>4, <1>6, <2>1, <2>2 DEF VisitNext
<1>8. loop.calm => SeenOf(loop.seen, v, loop.at)
  BY <1>1, <1>2 DEF LoopInv
<1>9. CASE A = {}
  <2>1. LoopInv'
    BY <1>7, <1>9, NoLoopGood
  <2>2. ASSUME loop.calm PROVE Completed
    <3>1. SeenOf(loop.seen, v, loop.at)
      BY <1>8, <2>2
    <3>2. loop.at = n
      <4>1. loop.at \in Nat /\ loop.at <= n
        BY <1>4, <3>1 DEF SeenOf
      <4> QED BY <1>4, <1>6, <1>9, <4>1
    <3>3. loop.seen = v
      BY <1>4, <3>1, <3>2, SameSeq DEF SeenOf
    <3> QED BY <1>2, <1>4, <3>3 DEF Completed
  <2> QED BY <1>2, <1>4, <2>1, <2>2
<1>10. CASE A # {}
  <2>1. loop' = [loop EXCEPT !.at = i + 1, !.seen = Append(@, item)]
    BY <1>7, <1>10
  <2>2. loop' = [on |-> o, at |-> i + 1, seen |-> Append(loop.seen, item), start |-> loop.start,
                 calm |-> loop.calm]
    BY <1>2, <2>1 DEF LoopInv
  <2>3. /\ loop' = [on |-> loop'.on, at |-> loop'.at, seen |-> loop'.seen, start |-> loop'.start,
                    calm |-> loop'.calm]
        /\ loop'.on = o /\ loop'.at = i + 1 /\ loop'.seen = Append(loop.seen, item)
        /\ loop'.calm = loop.calm
    BY <2>2
  <2>4. ASSUME loop.calm PROVE SeenOf(Append(loop.seen, item), v, i + 1)
    <3>1. SeenOf(loop.seen, v, loop.at)
      BY <1>8, <2>4
    <3>2. PICK k \in Nat : k = loop.at /\ k <= n /\ Len(loop.seen) = k /\ IsSequence(loop.seen)
      BY <1>4, <3>1 DEF SeenOf
    <3>3. A = k .. n - 1 /\ k \in A
      BY <1>4, <1>6, <1>10, <3>2
    <3>4. i = k
      <4>1. \A j \in A : k <= j
        BY <3>3
      <4>2. (CHOOSE x \in A : \A y \in A : x <= y) = k
        BY <3>2, <3>3, <4>1
      <4> QED BY <1>7, <4>2 DEF Min
    <3>5. item = v[k + 1]
      BY <1>1, <1>2, <1>3, <1>7, <3>3, <3>4, HeldItem
    <3>6. /\ IsSequence(Append(loop.seen, item)) /\ Len(Append(loop.seen, item)) = k + 1
          /\ Append(loop.seen, item)[k + 1] = item
          /\ \A j \in 1 .. k : Append(loop.seen, item)[j] = loop.seen[j]
      BY <3>2, Appending
    <3>7. k + 1 \in Nat /\ k + 1 <= Len(v)
      BY <1>4, <3>2, <3>3
    <3>8. \A j \in 1 .. k : loop.seen[j] = v[j]
      BY <3>1, <3>2 DEF SeenOf
    <3>9. \A j \in 1 .. k + 1 : j \in 1 .. k \/ j = k + 1
      BY <3>2
    <3>10. \A j \in 1 .. k + 1 : Append(loop.seen, item)[j] = v[j]
      BY <3>5, <3>6, <3>8, <3>9
    <3> QED BY <3>4, <3>6, <3>7, <3>10 DEF SeenOf
  <2>5. loop'.calm => SeenOf(loop'.seen, Holding'[loop'.on], loop'.at)
    BY <1>2, <1>5, <2>3, <2>4
  <2>6. loop'.on \in DOMAIN objects'
    BY <1>1, <1>3, <2>3
  <2>7. LoopInv'
    BY <1>5, <2>3, <2>5, <2>6 DEF LoopInv
  <2>8. loop' # NoLoop
    BY <1>1, <1>2, <2>3 DEF Looping, NoLoop
  <2> QED BY <2>7, <2>8
<1> QED BY <1>9, <1>10

\* What ForeachComplete says of a step.
LoopStepComplete ==
    Looping /\ loop' = NoLoop /\ loop.calm /\ Alive' =>
      IF IsDict(loop.on)
      THEN /\ IsInjective(loop.seen)
           /\ loop.start \subseteq ToSet(loop.seen)
           /\ ToSet(loop.seen) \subseteq DOMAIN Content(heap, loop.on)
      ELSE loop.seen = Content(heap, loop.on)

\* Every step keeps what is said of the loop, and a loop that ends has seen what it should.
LEMMA LoopInvStep ==
    ASSUME PlacedInv, LoopInv, [Next]_vars
    PROVE  LoopInv' /\ [LoopStepComplete]_vars
<1>1. PlacedInv' /\ [Promise!Next]_(Promise!vars)
  BY PlacedStep
<1>2. CASE UNCHANGED vars
  <2>1. heap' = heap /\ objects' = objects /\ loop' = loop
    BY <1>2 DEF vars
  <2>2. Holding' = Holding
    BY <2>1, HoldingSame
  <2>3. CASE Looping
    <3>1. Alive' /\ loop.on \in DOMAIN objects'
      BY <2>1, <2>3 DEF LoopInv, Alive
    <3> QED BY <1>2, <2>1, <2>2, <3>1, LoopKept
  <2>4. CASE ~ Looping
    BY <1>2, <2>1, <2>4 DEF LoopInv, Looping
  <2> QED BY <2>3, <2>4
<1>3. CASE AppendText \/ Push \/ Extend \/ Pop \/ Clear \/ Set \/ Get
  <2>1. PICK h, call, result : On(h, call, result)
    BY <1>3, OnCalls
  <2>2. LoopInv' /\ (Looping /\ Alive' => loop' # NoLoop)
    BY <1>1, <1>3, <2>1, OnCalls, OnLoop
  <2> QED BY <2>2 DEF LoopStepComplete
<1>4. CASE MakeObject \/ Join \/ Slice
  <2>1. /\ Alive /\ \E h, kind, r, call : New(h, kind, r, call)
        /\ Promise!Make \/ Promise!Join \/ Promise!Slice \/ Promise!Exhausted
    BY <1>4, NewCalls
  <2>2. PICK h, kind, r, call : New(h, kind, r, call)
    BY <2>1
  <2>3. LoopInv' /\ (Looping /\ Alive' => loop' # NoLoop)
    BY <1>1, <2>1, <2>2, NewLoop
  <2> QED BY <2>3 DEF LoopStepComplete
<1>5. CASE EnterRegion
  <2>1. Promise!EnterRegion /\ loop' = loop /\ objects' = objects /\ Alive
    BY <1>5, EnterRegionStep DEF EnterRegion, Ready
  <2>2. Holding' = Holding /\ Alive'
    BY <2>1 DEF Promise!EnterRegion, Promise!Done, Holding, Alive
  <2>3. LoopInv'
    BY <2>1, <2>2, LoopKept DEF LoopInv
  <2> QED BY <2>1, <2>3 DEF LoopStepComplete, Looping, NoLoop
<1>6. CASE LeaveRegion
  <2>1. /\ Promise!LeaveRegion /\ loop' = loop /\ Alive
        /\ objects' = [o \in {o \in DOMAIN objects : objects[o].region # Len(heap.regions)} |-> objects[o]]
        /\ Looping => objects[loop.on].region # Len(heap.regions)
    BY <1>6, LeaveRegionStep DEF LeaveRegion, Ready
  <2>2. /\ Holding' = [o \in {o \in DOMAIN Holding : Homes[o] # Depth} |-> Holding[o]]
        /\ Alive' /\ Depth = Len(heap.regions)
    BY <2>1 DEF Promise!LeaveRegion, Promise!Done, Holding, Homes, Depth, Alive
  <2>3. ASSUME Looping PROVE loop.on \in DOMAIN objects' /\ Holding'[loop.on] = Holding[loop.on]
    <3>1. PICK o : o = loop.on
      OBVIOUS
    <3>2. o \in DOMAIN objects /\ objects[o].region # Len(heap.regions)
      BY <2>1, <2>3, <3>1 DEF LoopInv
    <3>3. o \in DOMAIN Holding /\ Homes[o] # Depth
      BY <2>2, <3>2 DEF Holding, Homes
    <3> QED BY <2>1, <2>2, <3>1, <3>2, <3>3
  <2>4. LoopInv'
    BY <2>1, <2>2, <2>3, LoopKept
  <2> QED BY <2>1, <2>4 DEF LoopStepComplete, Looping, NoLoop
<1>7. CASE StartLoop
  BY <1>7, StartLoopGood DEF LoopStepComplete
<1>8. CASE VisitNext
  BY <1>8, VisitNextGood DEF LoopStepComplete, Completed
<1>9. CASE SetKey \/ GetKey
  BY <1>9, NoTables
<1> QED BY <1>2, <1>3, <1>4, <1>5, <1>6, <1>7, <1>8, <1>9 DEF Next

\* A foreach over a string or a vector, whose body may push, set, pop, call and return, gives
\* the values that are there when it ends, each once and in order, unless the body took away or
\* replaced something.
THEOREM LoopsComplete == Spec /\ budget.kinds \subseteq FlatKinds => ForeachComplete
<1>1. Init => LoopInv
  <2>1. Init => loop = [on |-> 0, at |-> 0, seen |-> <<>>, start |-> {}, calm |-> FALSE]
    BY DEF Init, NoLoop
  <2>2. loop = [on |-> 0, at |-> 0, seen |-> <<>>, start |-> {}, calm |-> FALSE] => LoopInv
    BY DEF LoopInv, Looping
  <2> QED BY <2>1, <2>2
<1>2. PlacedInv /\ LoopInv /\ [Next]_vars => LoopInv' /\ [LoopStepComplete]_vars
  BY LoopInvStep
<1> QED BY <1>1, <1>2, InvariantHolds, PTL DEF Spec, ForeachComplete, LoopStepComplete
=============================================================================
