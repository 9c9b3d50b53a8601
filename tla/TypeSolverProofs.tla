-------------------------- MODULE TypeSolverProofs --------------------------
(***************************************************************************)
(* Proofs about TypeSolver, for any nodes and types: the solver stays in   *)
(* its types, and it implements TypeClasses.                               *)
(***************************************************************************)
EXTENDS TypeSolver, WellFoundedInduction, SequenceTheorems, TLAPS

-----------------------------------------------------------------------------
\* The natural numbers that are less than another, as a relation
Below == {pair \in Nat \X Nat : pair[1] < pair[2]}

LEMMA LeastHeight ==
    ASSUME NEW S \in SUBSET Nat, S # {}
    PROVE  \E h \in S : \A k \in S : h <= k
<1>1. PICK h \in S : \A k \in S : ~ (<<k, h>> \in Below)
  BY NatLessThanWellFounded, WFMin DEF OpToRel, Below
<1>2. ASSUME NEW k \in S PROVE h <= k
  <2>1. <<k, h>> \in Nat \X Nat /\ ~ (<<k, h>> \in Below)
    BY <1>1
  <2> QED BY <2>1 DEF Below
<1> QED
  BY <1>2

-----------------------------------------------------------------------------
(***************************************************************************)
(* Trees.  The rank rises on every way up and has a bound, so every way    *)
(* ends in a root.                                                         *)
(***************************************************************************)
Forest(tree) ==
    /\ tree \in [DOMAIN tree -> [parent : DOMAIN tree, rank : Nat, bound : Type \cup {NoType}]]
    /\ \A x \in DOMAIN tree :
         ~ IsRoot(tree, x) => tree[x].rank < tree[tree[x].parent].rank
    /\ \E B \in Nat : \A x \in DOMAIN tree : tree[x].rank <= B

\* What is above i starts at i, goes on to parents, and is the least such set.
LEMMA AboveStarts ==
    ASSUME NEW tree, NEW i \in DOMAIN tree
    PROVE  i \in Above(tree, i)
BY DEF Above

LEMMA AboveGoesOn ==
    ASSUME NEW tree, NEW i, NEW x \in Above(tree, i), tree[x].parent \in DOMAIN tree
    PROVE  tree[x].parent \in Above(tree, i)
BY DEF Above

LEMMA AboveLeast ==
    ASSUME NEW tree, NEW i, NEW S, S \subseteq DOMAIN tree, i \in S,
           \A x \in S : tree[x].parent \in S
    PROVE  Above(tree, i) \subseteq S
BY DEF Above

LEMMA AboveDomain ==
    ASSUME NEW tree, NEW i PROVE Above(tree, i) \subseteq DOMAIN tree
BY DEF Above

\* The first step up
LEMMA AboveParent ==
    ASSUME NEW tree, Forest(tree), NEW i \in DOMAIN tree
    PROVE  /\ Above(tree, tree[i].parent) \subseteq Above(tree, i)
           /\ Above(tree, i) \subseteq {i} \cup Above(tree, tree[i].parent)
<1>1. \A x \in DOMAIN tree : tree[x].parent \in DOMAIN tree
  BY DEF Forest
<1>2. Above(tree, tree[i].parent) \subseteq Above(tree, i)
  BY <1>1, AboveStarts, AboveGoesOn, AboveDomain, AboveLeast
<1>3. \A x \in {i} \cup Above(tree, tree[i].parent) :
        tree[x].parent \in {i} \cup Above(tree, tree[i].parent)
  BY <1>1, AboveStarts, AboveGoesOn, AboveDomain
<1>4. {i} \cup Above(tree, tree[i].parent) \subseteq DOMAIN tree
  BY AboveDomain
<1>5. Above(tree, i) \subseteq {i} \cup Above(tree, tree[i].parent)
  <2> DEFINE S == {i} \cup Above(tree, tree[i].parent)
  <2>1. S \subseteq DOMAIN tree /\ i \in S /\ \A x \in S : tree[x].parent \in S
    BY <1>3, <1>4
  <2> HIDE DEF S
  <2>2. Above(tree, i) \subseteq S
    BY <2>1, AboveLeast
  <2> QED BY <2>2 DEF S
<1> QED
  BY <1>2, <1>5

\* Ranks do not fall on the way up.
LEMMA AboveRank ==
    ASSUME NEW tree, Forest(tree), NEW i \in DOMAIN tree, NEW x \in Above(tree, i)
    PROVE  tree[i].rank <= tree[x].rank
<1> DEFINE S == {y \in DOMAIN tree : tree[i].rank <= tree[y].rank}
<1>1. ASSUME NEW y \in S PROVE tree[y].parent \in S
  <2>1. /\ tree[y].parent \in DOMAIN tree
        /\ tree[i].rank \in Nat /\ tree[y].rank \in Nat /\ tree[tree[y].parent].rank \in Nat
    <3>1. \A z \in DOMAIN tree : tree[z].parent \in DOMAIN tree /\ tree[z].rank \in Nat
      BY DEF Forest
    <3> QED BY <3>1
  <2>2. ~ IsRoot(tree, y) => tree[y].rank < tree[tree[y].parent].rank
    <3>1. y \in DOMAIN tree
      OBVIOUS
    <3> QED BY <3>1 DEF Forest
  <2>3. IsRoot(tree, y) => tree[y].parent = y
    BY DEF IsRoot
  <2> QED BY <2>1, <2>2, <2>3
<1>2. i \in S /\ S \subseteq DOMAIN tree
  BY DEF Forest
<1>3. Above(tree, i) \subseteq S
  <2> HIDE DEF S
  <2> QED BY <1>1, <1>2, AboveLeast
<1> QED
  BY <1>3

\* There is a root: the highest slot on the way.
LEMMA RootExists ==
    ASSUME NEW tree, Forest(tree), NEW i \in DOMAIN tree
    PROVE  \E r \in Above(tree, i) : IsRoot(tree, r)
<1>1. PICK B \in Nat : \A x \in DOMAIN tree : tree[x].rank <= B
  BY DEF Forest
<1> DEFINE Heights == {B - tree[x].rank : x \in Above(tree, i)}
<1>2. Heights \subseteq Nat /\ Heights # {}
  BY <1>1, AboveStarts, AboveDomain DEF Forest
<1>3. PICK h \in Heights : \A k \in Heights : h <= k
  <2> HIDE DEF Heights
  <2> QED BY <1>2, LeastHeight
<1>4. PICK r \in Above(tree, i) : h = B - tree[r].rank
  BY <1>3
<1>5. /\ r \in DOMAIN tree /\ tree[r].parent \in Above(tree, i)
      /\ tree[r].parent \in DOMAIN tree
  BY AboveGoesOn, AboveDomain DEF Forest
<1>6. B - tree[r].rank <= B - tree[tree[r].parent].rank
  BY <1>3, <1>4, <1>5
<1> QED
  BY <1>5, <1>6 DEF Forest, IsRoot

\* There is one root: whatever is above i still has r above it.
LEMMA RootUnique ==
    ASSUME NEW tree, Forest(tree), NEW i \in DOMAIN tree,
           NEW r \in Above(tree, i), NEW q \in Above(tree, i),
           IsRoot(tree, r), IsRoot(tree, q)
    PROVE  r = q
<1> DEFINE S == {x \in DOMAIN tree : r \in Above(tree, x)}
<1>1. ASSUME NEW x \in S PROVE tree[x].parent \in S
  <2>1. tree[x].parent \in DOMAIN tree
    BY DEF Forest
  <2>2. CASE r = x
    BY <2>2 DEF IsRoot
  <2>3. CASE r # x
    BY <2>1, <2>3, AboveParent
  <2> QED BY <2>2, <2>3
<1>2. Above(tree, i) \subseteq S
  <2>1. i \in S /\ S \subseteq DOMAIN tree
    OBVIOUS
  <2> HIDE DEF S
  <2> QED BY <1>1, <2>1, AboveLeast
<1>3. r \in Above(tree, q) /\ q \in DOMAIN tree
  BY <1>2
<1>4. Above(tree, q) \subseteq {q}
  <2>1. {q} \subseteq DOMAIN tree /\ \A x \in {q} : tree[x].parent \in {q}
    BY <1>3 DEF IsRoot
  <2> QED BY <2>1, AboveLeast
<1> QED
  BY <1>3, <1>4

LEMMA RepresentativeIsRoot ==
    ASSUME NEW tree, Forest(tree), NEW i \in DOMAIN tree
    PROVE  /\ Representative(tree, i) \in Above(tree, i)
           /\ Representative(tree, i) \in DOMAIN tree
           /\ IsRoot(tree, Representative(tree, i))
BY RootExists, AboveDomain DEF Representative

LEMMA RepresentativeUnique ==
    ASSUME NEW tree, Forest(tree), NEW i \in DOMAIN tree,
           NEW r \in Above(tree, i), IsRoot(tree, r)
    PROVE  Representative(tree, i) = r
BY RepresentativeIsRoot, RootUnique

LEMMA RepresentativeOfParent ==
    ASSUME NEW tree, Forest(tree), NEW i \in DOMAIN tree
    PROVE  /\ Representative(tree, tree[i].parent) = Representative(tree, i)
           /\ IsRoot(tree, i) => Representative(tree, i) = i
           /\ tree[i].rank <= tree[Representative(tree, i)].rank
           /\ ~ IsRoot(tree, i) => tree[i].rank < tree[Representative(tree, i)].rank
<1>1. tree[i].parent \in DOMAIN tree
  BY DEF Forest
<1>2. Representative(tree, tree[i].parent) = Representative(tree, i)
  BY <1>1, AboveParent, RepresentativeIsRoot, RepresentativeUnique
<1>3. IsRoot(tree, i) => Representative(tree, i) = i
  BY AboveStarts, RepresentativeUnique
<1>4. tree[i].rank <= tree[Representative(tree, i)].rank
  BY RepresentativeIsRoot, AboveRank
<1>5. tree[tree[i].parent].rank <= tree[Representative(tree, i)].rank
  BY <1>1, <1>2, RepresentativeIsRoot, AboveRank
<1>6. Representative(tree, i) \in DOMAIN tree
  BY RepresentativeIsRoot
<1>7. ~ IsRoot(tree, i) => tree[i].rank < tree[Representative(tree, i)].rank
  BY <1>1, <1>5, <1>6 DEF Forest
<1> QED
  BY <1>2, <1>3, <1>4, <1>7

\* A function that is constant on every way up and stays put at the roots is
\* the representative.
LEMMA RepresentativeIs ==
    ASSUME NEW tree, Forest(tree), NEW f,
           \A x \in DOMAIN tree : f[tree[x].parent] = f[x],
           \A x \in DOMAIN tree : IsRoot(tree, x) => f[x] = x,
           NEW i \in DOMAIN tree
    PROVE  Representative(tree, i) = f[i]
<1> DEFINE S == {x \in DOMAIN tree : f[x] = f[i]}
<1>1. \A x \in S : tree[x].parent \in S
  BY DEF Forest
<1>2. Above(tree, i) \subseteq S
  <2>1. i \in S /\ S \subseteq DOMAIN tree
    OBVIOUS
  <2> HIDE DEF S
  <2> QED BY <1>1, <2>1, AboveLeast
<1>3. f[Representative(tree, i)] = f[i]
  BY <1>2, RepresentativeIsRoot
<1> QED
  BY <1>3, RepresentativeIsRoot

-----------------------------------------------------------------------------
(***************************************************************************)
(* What the calls do to the trees, seen through Representative.            *)
(***************************************************************************)

\* Compression moves slots within their trees.
LEMMA CompressedTree ==
    ASSUME NEW tree, Forest(tree), NEW I
    PROVE  /\ Forest(Compressed(tree, I))
           /\ DOMAIN Compressed(tree, I) = DOMAIN tree
           /\ \A x \in DOMAIN tree :
                /\ Compressed(tree, I)[x].bound = tree[x].bound
                /\ IsRoot(tree, x) => IsRoot(Compressed(tree, I), x)
                /\ Representative(Compressed(tree, I), x) = Representative(tree, x)
<1> DEFINE k == Compressed(tree, I)
           f == [x \in DOMAIN tree |-> Representative(tree, x)]
<1>1. ASSUME NEW x \in DOMAIN tree
      PROVE  /\ k[x] = [tree[x] EXCEPT !.parent = k[x].parent]
             /\ k[x].parent \in {tree[x].parent, Representative(tree, x)}
             /\ k[x].rank = tree[x].rank
             /\ k[x].bound = tree[x].bound
  <2>1. tree[x] \in [parent : DOMAIN tree, rank : Nat, bound : Type \cup {NoType}]
    BY DEF Forest
  <2> QED
    BY <2>1 DEF Compressed
<1>2. DOMAIN k = DOMAIN tree /\ k = [x \in DOMAIN tree |-> k[x]]
  BY DEF Compressed
<1>3. ASSUME NEW x \in DOMAIN tree
      PROVE  /\ k[x].parent \in DOMAIN tree
             /\ f[k[x].parent] = f[x]
             /\ IsRoot(tree, x) <=> IsRoot(k, x)
             /\ ~ IsRoot(k, x) => tree[x].rank < tree[k[x].parent].rank
  <2>1. /\ tree[x].parent \in DOMAIN tree
        /\ Representative(tree, x) \in DOMAIN tree
        /\ IsRoot(tree, Representative(tree, x))
    BY RepresentativeIsRoot DEF Forest
  <2>2. CASE k[x].parent = tree[x].parent
    BY <2>1, <2>2, RepresentativeOfParent DEF Forest, IsRoot
  <2>3. CASE k[x].parent = Representative(tree, x)
    <3>1. f[Representative(tree, x)] = Representative(tree, x)
      BY <2>1, RepresentativeOfParent
    <3>2. IsRoot(tree, x) <=> Representative(tree, x) = x
      BY <2>1, RepresentativeOfParent
    <3> QED
      BY <2>1, <2>3, <3>1, <3>2, RepresentativeOfParent DEF IsRoot
  <2> QED
    BY <1>1, <2>2, <2>3
<1>4. Forest(k)
  <2>1. \A x \in DOMAIN tree : k[x] \in [parent : DOMAIN tree, rank : Nat, bound : Type \cup {NoType}]
    <3> SUFFICES ASSUME NEW x \in DOMAIN tree
                 PROVE  k[x] \in [parent : DOMAIN tree, rank : Nat, bound : Type \cup {NoType}]
      OBVIOUS
    <3>1. tree[x] \in [parent : DOMAIN tree, rank : Nat, bound : Type \cup {NoType}]
      BY DEF Forest
    <3> HIDE DEF k
    <3> QED BY <1>1, <1>3, <3>1
  <2>2. k \in [DOMAIN k -> [parent : DOMAIN k, rank : Nat, bound : Type \cup {NoType}]]
    <3> HIDE DEF k
    <3> QED BY <1>2, <2>1
  <2>3. \E B \in Nat : \A x \in DOMAIN k : k[x].rank <= B
    <3> HIDE DEF k
    <3> QED BY <1>1, <1>2 DEF Forest
  <2>4. \A x \in DOMAIN k : ~ IsRoot(k, x) => k[x].rank < k[k[x].parent].rank
    <3> HIDE DEF k
    <3> QED BY <1>1, <1>2, <1>3
  <2> HIDE DEF k
  <2> QED BY <2>2, <2>3, <2>4 DEF Forest
<1>5. ASSUME NEW x \in DOMAIN tree PROVE Representative(k, x) = Representative(tree, x)
  <2>1. \A y \in DOMAIN k : f[k[y].parent] = f[y]
    BY <1>2, <1>3
  <2>2. \A y \in DOMAIN k : IsRoot(k, y) => f[y] = y
    <3> HIDE DEF k
    <3> QED BY <1>2, <1>3, RepresentativeOfParent
  <2> HIDE DEF k, f
  <2>3. Representative(k, x) = f[x]
    BY <1>2, <1>4, <2>1, <2>2, RepresentativeIs
  <2> QED BY <2>3 DEF f
<1> HIDE DEF k
<1>6. \A x \in DOMAIN tree : k[x].bound = tree[x].bound
  BY <1>1
<1>7. \A x \in DOMAIN tree : IsRoot(tree, x) => IsRoot(k, x)
  BY <1>3
<1> QED
  BY <1>2, <1>4, <1>5, <1>6, <1>7 DEF k

\* A type is written into one slot.
LEMMA BoundTree ==
    ASSUME NEW tree, Forest(tree), NEW r \in DOMAIN tree, NEW t \in Type
    PROVE  /\ Forest(Bound(tree, r, t))
           /\ DOMAIN Bound(tree, r, t) = DOMAIN tree
           /\ \A x \in DOMAIN tree :
                /\ Bound(tree, r, t)[x].bound = IF x = r THEN t ELSE tree[x].bound
                /\ Representative(Bound(tree, r, t), x) = Representative(tree, x)
<1> DEFINE k == Bound(tree, r, t)
           f == [x \in DOMAIN tree |-> Representative(tree, x)]
<1>1. ASSUME NEW x \in DOMAIN tree
      PROVE  /\ k[x] \in [parent : DOMAIN tree, rank : Nat, bound : Type \cup {NoType}]
             /\ k[x].parent = tree[x].parent
             /\ k[x].rank = tree[x].rank
             /\ k[x].bound = IF x = r THEN t ELSE tree[x].bound
  <2>1. tree[x] \in [parent : DOMAIN tree, rank : Nat, bound : Type \cup {NoType}]
    BY DEF Forest
  <2> QED
    BY <2>1 DEF Bound
<1>2. DOMAIN k = DOMAIN tree /\ k = [x \in DOMAIN tree |-> k[x]]
  BY DEF Bound
<1> HIDE DEF k
<1>3. Forest(k)
  BY <1>1, <1>2 DEF Forest, IsRoot
<1>4. ASSUME NEW x \in DOMAIN tree PROVE Representative(k, x) = Representative(tree, x)
  <2>1. \A y \in DOMAIN k : f[k[y].parent] = f[y]
    <3>1. \A y \in DOMAIN tree : tree[y].parent \in DOMAIN tree
      BY DEF Forest
    <3> QED BY <1>1, <1>2, <3>1, RepresentativeOfParent
  <2>2. \A y \in DOMAIN k : IsRoot(k, y) => f[y] = y
    BY <1>1, <1>2, RepresentativeOfParent DEF IsRoot
  <2> HIDE DEF f
  <2>3. Representative(k, x) = f[x]
    BY <1>2, <1>3, <2>1, <2>2, RepresentativeIs
  <2> QED BY <2>3 DEF f
<1>5. \A x \in DOMAIN tree : k[x].bound = IF x = r THEN t ELSE tree[x].bound
  BY <1>1
<1> QED
  BY <1>2, <1>3, <1>4, <1>5 DEF k

\* A merge puts one root below another and changes no other class.
LEMMA LinkedTree ==
    ASSUME NEW tree, Forest(tree), NEW i \in DOMAIN tree, NEW j \in DOMAIN tree,
           IsRoot(tree, i), IsRoot(tree, j), i # j
    PROVE  /\ Forest(Linked(tree, i, j))
           /\ DOMAIN Linked(tree, i, j) = DOMAIN tree
           /\ \E over \in {i, j} : \E under \in {i, j} \ {over} :
                /\ Linked(tree, i, j)[over].bound =
                     IF tree[over].bound = NoType THEN tree[under].bound ELSE tree[over].bound
                /\ \A x \in DOMAIN tree :
                     /\ x \notin {i, j} => Linked(tree, i, j)[x].bound = tree[x].bound
                     /\ Representative(Linked(tree, i, j), x) =
                          IF Representative(tree, x) \in {i, j}
                          THEN over ELSE Representative(tree, x)
<1> DEFINE k == Linked(tree, i, j)
           under == IF tree[i].rank < tree[j].rank THEN i ELSE j
           over == IF tree[i].rank < tree[j].rank THEN j ELSE i
           f == [x \in DOMAIN tree |-> IF Representative(tree, x) \in {i, j}
                                       THEN over ELSE Representative(tree, x)]
           OldSlot == [parent : DOMAIN tree, rank : Nat, bound : Type \cup {NoType}]
<1>1. /\ over \in {i, j} /\ under \in {i, j} \ {over}
      /\ over \in DOMAIN tree /\ under \in DOMAIN tree
      /\ tree[under].rank <= tree[over].rank
      /\ tree[under].rank \in Nat /\ tree[over].rank \in Nat
      /\ tree[under].parent = under /\ tree[over].parent = over
      /\ {i, j} = {under, over}
  BY DEF Forest, IsRoot
<1>2. /\ k = [x \in DOMAIN tree |-> k[x]]
      /\ k[under] = [tree[under] EXCEPT !.parent = over]
      /\ k[over] = [tree[over] EXCEPT
                      !.bound = IF @ = NoType THEN tree[under].bound ELSE @,
                      !.rank = IF @ = tree[under].rank THEN @ + 1 ELSE @]
      /\ \A x \in DOMAIN tree \ {under, over} : k[x] = tree[x]
  BY <1>1 DEF Linked
<1> HIDE DEF k, under, over
<1>3. DOMAIN k = DOMAIN tree
  BY <1>2
<1>4. /\ k[under] = [parent |-> over, rank |-> tree[under].rank, bound |-> tree[under].bound]
      /\ k[over] = [parent |-> over,
                    rank |-> IF tree[over].rank = tree[under].rank
                             THEN tree[over].rank + 1 ELSE tree[over].rank,
                    bound |-> IF tree[over].bound = NoType
                              THEN tree[under].bound ELSE tree[over].bound]
  <2>1. tree[under] \in OldSlot /\ tree[over] \in OldSlot
    BY <1>1 DEF Forest
  <2> QED
    BY <1>1, <1>2, <2>1
<1>5. \A x \in DOMAIN tree \ {under, over} : k[x] = tree[x]
  BY <1>2
<1>6. ASSUME NEW x \in DOMAIN tree
      PROVE  /\ tree[x].parent \in DOMAIN tree
             /\ tree[x].rank \in Nat
             /\ k[x] \in OldSlot
             /\ k[x].rank \in Nat
             /\ tree[x].rank <= k[x].rank
             /\ k[x].rank <= tree[x].rank + 1
             /\ x # over => k[x].rank = tree[x].rank
  <2>1. tree[x] \in OldSlot /\ tree[over] \in OldSlot /\ tree[under] \in OldSlot
    BY <1>1 DEF Forest
  <2>2. CASE x = under
    BY <1>1, <1>4, <2>1, <2>2
  <2>3. CASE x = over
    BY <1>1, <1>4, <2>1, <2>3
  <2>4. CASE x \notin {under, over}
    BY <1>5, <2>1, <2>4
  <2> QED
    BY <2>2, <2>3, <2>4
<1>7. Forest(k)
  <2>1. k \in [DOMAIN k -> [parent : DOMAIN k, rank : Nat, bound : Type \cup {NoType}]]
    <3>1. k \in [DOMAIN tree -> OldSlot]
      <4> HIDE DEF OldSlot
      <4> QED BY <1>2, <1>6
    <3> QED BY <1>3, <3>1
  <2>2. ASSUME NEW x \in DOMAIN k, ~ IsRoot(k, x) PROVE k[x].rank < k[k[x].parent].rank
    <3>1. CASE x = under
      BY <1>1, <1>4, <3>1
    <3>2. CASE x = over
      BY <1>4, <2>2, <3>2 DEF IsRoot
    <3>3. CASE x \notin {under, over}
      <4>1. k[x].parent = tree[x].parent /\ k[x].rank = tree[x].rank
        BY <1>3, <1>5, <3>3
      <4>2. ~ IsRoot(tree, x) /\ tree[x].parent \in DOMAIN tree
        BY <1>3, <1>5, <1>6, <2>2, <3>3, <4>1 DEF IsRoot
      <4>3. tree[x].rank < tree[tree[x].parent].rank
        BY <1>3, <4>2 DEF Forest
      <4> QED BY <1>3, <1>6, <4>1, <4>2, <4>3
    <3> QED BY <3>1, <3>2, <3>3
  <2>3. \E B \in Nat : \A x \in DOMAIN k : k[x].rank <= B
    <3>1. PICK B \in Nat : \A x \in DOMAIN tree : tree[x].rank <= B
      BY DEF Forest
    <3>2. ASSUME NEW x \in DOMAIN k PROVE k[x].rank <= B + 1
      <4>1. x \in DOMAIN tree /\ tree[x].rank <= B
        BY <1>3, <3>1
      <4> QED BY <1>6, <4>1
    <3> QED BY <3>2
  <2> QED
    BY <2>1, <2>2, <2>3 DEF Forest
<1>8. ASSUME NEW x \in DOMAIN tree PROVE Representative(k, x) = f[x]
  <2>1. /\ Representative(tree, under) = under
        /\ Representative(tree, over) = over
    BY <1>1, RepresentativeOfParent DEF IsRoot
  <2>2. ASSUME NEW y \in DOMAIN tree PROVE f[k[y].parent] = f[y]
    <3>1. CASE y \in {under, over}
      BY <1>1, <1>4, <2>1, <3>1
    <3>2. CASE y \notin {under, over}
      <4>1. k[y].parent = tree[y].parent /\ tree[y].parent \in DOMAIN tree
        BY <1>5, <1>6, <3>2
      <4> QED BY <4>1, RepresentativeOfParent
    <3> QED BY <3>1, <3>2
  <2>3. ASSUME NEW y \in DOMAIN tree, IsRoot(k, y) PROVE f[y] = y
    <3>1. y # under
      BY <1>1, <1>4, <2>3 DEF IsRoot
    <3>2. CASE y = over
      BY <1>1, <2>1, <3>2
    <3>3. CASE y # over
      <4>1. k[y] = tree[y]
        BY <1>5, <3>1, <3>3
      <4>2. Representative(tree, y) = y
        BY <2>3, <4>1, RepresentativeOfParent DEF IsRoot
      <4> QED BY <1>1, <3>1, <3>3, <4>2
    <3> QED BY <3>2, <3>3
  <2> HIDE DEF f
  <2> QED BY <1>3, <1>7, <2>2, <2>3, RepresentativeIs
<1>9. \A x \in DOMAIN tree : x \notin {i, j} => k[x].bound = tree[x].bound
  BY <1>1, <1>5
<1>10. \A x \in DOMAIN tree : Representative(k, x) =
         IF Representative(tree, x) \in {i, j} THEN over ELSE Representative(tree, x)
  BY <1>8
<1> QED
  BY <1>1, <1>3, <1>4, <1>7, <1>9, <1>10 DEF k

\* A new slot is a tree of its own.
LEMMA AppendedTree ==
    ASSUME NEW tree, Forest(tree), NEW n, n \notin DOMAIN tree, NEW k,
           k \in [DOMAIN tree \cup {n} ->
                    [parent : DOMAIN tree \cup {n}, rank : Nat, bound : Type \cup {NoType}]],
           k[n].parent = n,
           \A x \in DOMAIN tree : k[x] = tree[x]
    PROVE  /\ Forest(k)
           /\ Representative(k, n) = n
           /\ \A x \in DOMAIN tree : Representative(k, x) = Representative(tree, x)
<1> DEFINE f == [x \in DOMAIN k |-> IF x = n THEN n ELSE Representative(tree, x)]
<1>1. DOMAIN k = DOMAIN tree \cup {n} /\ k[n].rank \in Nat /\ k[n].parent = n
  OBVIOUS
<1>2. \A x \in DOMAIN tree : k[x] = tree[x]
  OBVIOUS
<1>3. k \in [DOMAIN k -> [parent : DOMAIN k, rank : Nat, bound : Type \cup {NoType}]]
  BY <1>1
<1>4. Forest(k)
  <2>1. \A x \in DOMAIN tree : tree[x].parent \in DOMAIN tree /\ tree[x].rank \in Nat
    BY DEF Forest
  <2>3. \A x \in DOMAIN k : ~ IsRoot(k, x) => k[x].rank < k[k[x].parent].rank
    <3>1. IsRoot(k, n)
      BY <1>1 DEF IsRoot
    <3>2. ASSUME NEW x \in DOMAIN tree, ~ IsRoot(k, x) PROVE k[x].rank < k[k[x].parent].rank
      <4>1. ~ IsRoot(tree, x) /\ tree[x].parent \in DOMAIN tree
        BY <1>2, <2>1, <3>2 DEF IsRoot
      <4> QED BY <1>2, <4>1 DEF Forest
    <3> QED BY <1>1, <3>1, <3>2
  <2>4. \E B \in Nat : \A x \in DOMAIN k : k[x].rank <= B
    <3>1. PICK B \in Nat : \A x \in DOMAIN tree : tree[x].rank <= B
      BY DEF Forest
    <3>2. PICK C \in Nat : B <= C /\ k[n].rank <= C
      <4>1. B <= B + k[n].rank /\ k[n].rank <= B + k[n].rank /\ B + k[n].rank \in Nat
        BY <1>1
      <4> QED BY <4>1
    <3>3. ASSUME NEW x \in DOMAIN k PROVE k[x].rank <= C
      <4>1. CASE x = n
        BY <3>2, <4>1
      <4>2. CASE x # n
        <5>1. x \in DOMAIN tree /\ k[x].rank = tree[x].rank
          BY <1>1, <1>2, <4>2
        <5> QED BY <2>1, <3>1, <3>2, <5>1
      <4> QED BY <4>1, <4>2
    <3> QED BY <3>2, <3>3
  <2> QED BY <1>3, <2>3, <2>4 DEF Forest
<1>5. ASSUME NEW x \in DOMAIN k PROVE Representative(k, x) = f[x]
  <2>1. ASSUME NEW y \in DOMAIN k PROVE f[k[y].parent] = f[y]
    <3>1. CASE y = n
      BY <1>1, <3>1
    <3>2. CASE y # n
      <4>1. y \in DOMAIN tree /\ k[y].parent = tree[y].parent
        BY <1>1, <1>2, <3>2
      <4>2. tree[y].parent \in DOMAIN tree
        BY <4>1 DEF Forest
      <4>3. tree[y].parent # n /\ y # n /\ y \in DOMAIN k /\ tree[y].parent \in DOMAIN k
        BY <1>1, <3>2, <4>1, <4>2
      <4> QED BY <4>1, <4>2, <4>3, RepresentativeOfParent
    <3> QED BY <3>1, <3>2
  <2>2. ASSUME NEW y \in DOMAIN k, IsRoot(k, y) PROVE f[y] = y
    <3>1. CASE y = n
      BY <1>1, <3>1
    <3>2. CASE y # n
      <4>1. y \in DOMAIN tree /\ IsRoot(tree, y)
        BY <1>1, <1>2, <2>2, <3>2 DEF IsRoot
      <4> QED BY <1>1, <3>2, <4>1, RepresentativeOfParent
    <3> QED BY <3>1, <3>2
  <2> HIDE DEF f
  <2> QED BY <1>4, <2>1, <2>2, RepresentativeIs
<1>6. Representative(k, n) = n
  BY <1>1, <1>5
<1>7. ASSUME NEW x \in DOMAIN tree PROVE Representative(k, x) = Representative(tree, x)
  <2>1. x \in DOMAIN k /\ x # n
    BY <1>1
  <2> QED BY <1>5, <2>1
<1> QED
  BY <1>4, <1>6, <1>7

-----------------------------------------------------------------------------
(***************************************************************************)
(* The inductive invariant: the types, and slots that are a forest.  That  *)
(* they are is needed for every root to exist and be the only one.         *)
(***************************************************************************)
Inv == TypeOK /\ Forest(slots)

\* A node's slot is one of the slots, and its root is another.
LEMMA SlotOfNode ==
    ASSUME Inv, NEW n \in HasSlot
    PROVE  /\ slotOf[n] \in Slot
           /\ Root(n) \in Slot
           /\ IsRoot(slots, Root(n))
<1>1. slotOf[n] \in 1 .. Len(slots)
  BY DEF Inv, TypeOK, HasSlot
<1>2. DOMAIN slots = 1 .. Len(slots)
  BY LenProperties DEF Inv, TypeOK
<1> QED
  BY <1>1, <1>2, RepresentativeIsRoot DEF Inv, Root, Slot

\* As long as no slot is added, it is enough that the slots remain a forest.
LEMMA SameSlots ==
    ASSUME Inv, Forest(slots'), DOMAIN slots' = DOMAIN slots, slotOf' = slotOf,
           changed' \in BOOLEAN, failed' \in BOOLEAN
    PROVE  Inv' /\ HasSlot' = HasSlot
<1>1. DOMAIN slots = 1 .. Len(slots) /\ Len(slots) \in Nat
  BY LenProperties DEF Inv, TypeOK
<1>2. slots' \in [1 .. Len(slots) -> SlotRecord']
  BY <1>1 DEF Forest, SlotRecord, Slot
<1>3. slots' \in Seq(SlotRecord')
  BY <1>1, <1>2, SeqDef
<1>4. Len(slots') = Len(slots)
  BY <1>1, <1>3, LenProperties
<1>5. HasSlot' = HasSlot
  BY DEF HasSlot
<1>6. TypeOK'
  BY <1>3, <1>4, <1>5 DEF Inv, TypeOK, Slot
<1> QED
  BY <1>5, <1>6 DEF Inv

\* A step that only compresses paths
LEMMA Compressing ==
    ASSUME Inv, NEW I, slots' = Compressed(slots, I), slotOf' = slotOf,
           changed' \in BOOLEAN, failed' \in BOOLEAN
    PROVE  /\ Inv' /\ HasSlot' = HasSlot
           /\ \A x \in HasSlot : Root(x)' = Root(x) /\ BoundType(x)' = BoundType(x)
<1>1. /\ Forest(slots') /\ DOMAIN slots' = DOMAIN slots
      /\ \A x \in DOMAIN slots : /\ slots'[x].bound = slots[x].bound
                                 /\ Representative(slots', x) = Representative(slots, x)
  BY CompressedTree DEF Inv
<1>2. Inv' /\ HasSlot' = HasSlot
  BY <1>1, SameSlots
<1>3. ASSUME NEW x \in HasSlot PROVE Root(x)' = Root(x) /\ BoundType(x)' = BoundType(x)
  <2>1. Root(x)' = Root(x)
    BY <1>1, SlotOfNode DEF Root, Slot
  <2> QED
    BY <1>1, <2>1, SlotOfNode DEF BoundType, Slot
<1> QED
  BY <1>2, <1>3

\* A step that binds the class of n
LEMMA Binding ==
    ASSUME Inv, NEW n \in Node, NEW t \in Type, Bind(n, t)
    PROVE  /\ Inv' /\ HasSlot' = HasSlot
           /\ \A x \in HasSlot :
                /\ Root(x)' = Root(x)
                /\ BoundType(x)' = IF Root(x) = Root(n) THEN t ELSE BoundType(x)
<1> DEFINE k == Compressed(slots, {slotOf[n]})
<1>1. /\ Forest(k) /\ DOMAIN k = DOMAIN slots
      /\ \A x \in DOMAIN slots : /\ k[x].bound = slots[x].bound
                                 /\ Representative(k, x) = Representative(slots, x)
  BY CompressedTree DEF Inv
<1>2. Root(n) \in DOMAIN slots
  BY SlotOfNode DEF Bind, Slot
<1> HIDE DEF k
<1>3. slots' = Bound(k, Root(n), t)
  BY DEF Bind, k
<1>4. /\ Forest(slots') /\ DOMAIN slots' = DOMAIN slots
      /\ \A x \in DOMAIN slots :
           /\ slots'[x].bound = IF x = Root(n) THEN t ELSE slots[x].bound
           /\ Representative(slots', x) = Representative(slots, x)
  BY <1>1, <1>2, <1>3, BoundTree
<1>5. slotOf' = slotOf /\ changed' \in BOOLEAN /\ failed' \in BOOLEAN
  BY DEF Bind, Inv, TypeOK
<1>6. Inv' /\ HasSlot' = HasSlot
  BY <1>4, <1>5, SameSlots
<1>7. ASSUME NEW x \in HasSlot
      PROVE  /\ Root(x)' = Root(x)
             /\ BoundType(x)' = IF Root(x) = Root(n) THEN t ELSE BoundType(x)
  <2>1. Root(x)' = Root(x)
    BY <1>4, <1>5, SlotOfNode DEF Root, Slot
  <2> QED
    BY <1>4, <2>1, SlotOfNode DEF BoundType, Slot
<1> QED
  BY <1>6, <1>7

\* A step that merges the classes of m and n
LEMMA Merging ==
    ASSUME Inv, NEW m \in Node, NEW n \in Node, Unify(m, n)
    PROVE  /\ Inv' /\ HasSlot' = HasSlot
           /\ \E over \in {Root(m), Root(n)} : \A x \in HasSlot :
                /\ Root(x)' = IF Root(x) \in {Root(m), Root(n)} THEN over ELSE Root(x)
                /\ BoundType(x)' = IF Root(x) \in {Root(m), Root(n)}
                                   THEN IF BoundType(m) = NoType THEN BoundType(n)
                                        ELSE BoundType(m)
                                   ELSE BoundType(x)
<1> DEFINE k == Compressed(slots, {slotOf[m], slotOf[n]})
           i == Root(m)
           j == Root(n)
<1>1. /\ Forest(k) /\ DOMAIN k = DOMAIN slots
      /\ \A x \in DOMAIN slots : /\ k[x].bound = slots[x].bound
                                 /\ IsRoot(slots, x) => IsRoot(k, x)
                                 /\ Representative(k, x) = Representative(slots, x)
  BY CompressedTree DEF Inv
<1>2. /\ i \in DOMAIN slots /\ j \in DOMAIN slots
      /\ IsRoot(slots, i) /\ IsRoot(slots, j) /\ i # j
  BY SlotOfNode DEF Unify, Slot
<1>3. slots' = Linked(k, i, j)
  BY DEF Unify
<1>4. slotOf' = slotOf /\ changed' \in BOOLEAN /\ failed' \in BOOLEAN
  BY DEF Unify, Inv, TypeOK
<1>5. \A x \in HasSlot : /\ slotOf[x] \in DOMAIN slots /\ Root(x) \in DOMAIN slots
                         /\ BoundType(x) = slots[Root(x)].bound
  BY SlotOfNode DEF Slot, BoundType
<1>6. BoundType(m) = slots[i].bound /\ BoundType(n) = slots[j].bound
  BY DEF BoundType
<1>7. slots[i].bound = slots[j].bound \/ NoType \in {slots[i].bound, slots[j].bound}
  BY <1>6 DEF Unify, Agree
<1>8. \A x \in HasSlot : /\ Representative(slots, slotOf[x]) = Root(x)
                         /\ Root(x)' = Representative(slots', slotOf[x])
                         /\ BoundType(x)' = slots'[Root(x)'].bound
  BY <1>4 DEF Root, BoundType
<1> HIDE DEF k, i, j
<1>9. /\ Forest(slots') /\ DOMAIN slots' = DOMAIN slots
      /\ \E over \in {i, j} : \E under \in {i, j} \ {over} :
           /\ slots'[over].bound = IF k[over].bound = NoType THEN k[under].bound ELSE k[over].bound
           /\ \A x \in DOMAIN k :
                /\ x \notin {i, j} => slots'[x].bound = k[x].bound
                /\ Representative(slots', x) =
                     IF Representative(k, x) \in {i, j} THEN over ELSE Representative(k, x)
  BY <1>1, <1>2, <1>3, LinkedTree
<1>10. PICK over \in {i, j} :
         /\ slots'[over].bound = IF slots[i].bound = NoType THEN slots[j].bound ELSE slots[i].bound
         /\ \A x \in DOMAIN slots :
              /\ x \notin {i, j} => slots'[x].bound = slots[x].bound
              /\ Representative(slots', x) =
                   IF Representative(slots, x) \in {i, j} THEN over ELSE Representative(slots, x)
  BY <1>1, <1>2, <1>7, <1>9
<1>11. Inv' /\ HasSlot' = HasSlot
  BY <1>4, <1>9, SameSlots
<1>12. ASSUME NEW x \in HasSlot
       PROVE  /\ Root(x)' = IF Root(x) \in {i, j} THEN over ELSE Root(x)
              /\ BoundType(x)' = IF Root(x) \in {i, j}
                                 THEN IF slots[i].bound = NoType THEN slots[j].bound
                                      ELSE slots[i].bound
                                 ELSE BoundType(x)
  BY <1>5, <1>8, <1>10
<1> QED
  BY <1>6, <1>11, <1>12 DEF i, j

\* A step that gives n a slot
LEMMA Allotting ==
    ASSUME Inv, NEW n \in Node, EnsureInferenceSlot(n)
    PROVE  /\ Inv' /\ n \notin HasSlot /\ HasSlot' = HasSlot \cup {n}
           /\ BoundType(n)' = NoType /\ Root(n)' \notin Slot
           /\ \A x \in HasSlot : Root(x)' = Root(x) /\ BoundType(x)' = BoundType(x)
<1> DEFINE new == Len(slots) + 1
           fresh == [parent |-> new, rank |-> 0, bound |-> NoType]
           All == [parent : DOMAIN slots \cup {new}, rank : Nat, bound : Type \cup {NoType}]
<1>1. DOMAIN slots = 1 .. Len(slots) /\ Len(slots) \in Nat
  BY LenProperties DEF Inv, TypeOK
<1>2. slots \in Seq(All)
  BY SeqMonotonic DEF Inv, TypeOK, SlotRecord, Slot
<1>3. fresh \in All
  OBVIOUS
<1>4. slots' = Append(slots, fresh) /\ slotOf' = [slotOf EXCEPT ![n] = new]
  BY DEF EnsureInferenceSlot
<1> HIDE DEF fresh, All
<1>5. /\ slots' \in Seq(All) /\ Len(slots') = new
      /\ slots'[new] = fresh
      /\ \A x \in 1 .. Len(slots) : slots'[x] = slots[x]
  BY <1>1, <1>2, <1>3, <1>4
<1>6. /\ DOMAIN slots' = DOMAIN slots \cup {new} /\ new \notin DOMAIN slots
      /\ slots' \in [DOMAIN slots \cup {new} -> All]
  <2>1. 1 .. new = 1 .. Len(slots) \cup {new} /\ new \notin 1 .. Len(slots)
    BY <1>1
  <2>2. slots' \in [1 .. new -> All]
    BY <1>5, LenProperties
  <2> QED
    BY <1>1, <2>1, <2>2
<1>7. /\ Forest(slots') /\ Representative(slots', new) = new
      /\ \A x \in DOMAIN slots : Representative(slots', x) = Representative(slots, x)
  <2>1. slots'[new].parent = new /\ Forest(slots)
    BY <1>5 DEF fresh, Inv
  <2>2. \A x \in DOMAIN slots : slots'[x] = slots[x]
    BY <1>1, <1>5
  <2>3. slots' \in [DOMAIN slots \cup {new} ->
                     [parent : DOMAIN slots \cup {new}, rank : Nat, bound : Type \cup {NoType}]]
    BY <1>6 DEF All
  <2>4. new \notin DOMAIN slots
    BY <1>6
  <2> HIDE DEF new
  <2> QED
    BY <2>1, <2>2, <2>3, <2>4, AppendedTree
<1>8. /\ HasSlot' = HasSlot \cup {n} /\ n \notin HasSlot
      /\ slotOf'[n] = new
      /\ \A x \in HasSlot : slotOf'[x] = slotOf[x]
  <2>1. slotOf \in [Node -> 0 .. Len(slots)] /\ slotOf[n] = 0
    BY DEF Inv, TypeOK, EnsureInferenceSlot
  <2>2. new # 0
    BY <1>1
  <2> QED
    BY <1>4, <2>1, <2>2 DEF HasSlot
<1>9. TypeOK'
  <2>1. slots' \in Seq(SlotRecord')
    BY <1>5, <1>6 DEF SlotRecord, Slot, All
  <2>2. slotOf' \in [Node -> 0 .. Len(slots')]
    <3>1. slotOf \in [Node -> 0 .. Len(slots)]
      BY DEF Inv, TypeOK
    <3>2. new \in 0 .. new /\ 0 .. Len(slots) \subseteq 0 .. new
      BY <1>1
    <3> QED BY <1>4, <1>5, <3>1, <3>2
  <2>3. \A x \in HasSlot : slotOf'[x] \in DOMAIN slots
    BY <1>8, SlotOfNode DEF Slot
  <2>4. \A x, y \in HasSlot' : slotOf'[x] = slotOf'[y] => x = y
    BY <1>6, <1>8, <2>3 DEF Inv, TypeOK
  <2>5. \A x \in Slot' : \E y \in HasSlot' : slotOf'[y] = x
    BY <1>6, <1>8 DEF Inv, TypeOK, Slot
  <2>6. changed' \in BOOLEAN /\ failed' \in BOOLEAN
    BY DEF Inv, TypeOK, EnsureInferenceSlot
  <2> QED
    BY <2>1, <2>2, <2>4, <2>5, <2>6 DEF TypeOK
<1>10. Root(n)' = new /\ BoundType(n)' = NoType
  BY <1>5, <1>7, <1>8 DEF Root, BoundType, fresh
<1>11. ASSUME NEW x \in HasSlot PROVE Root(x)' = Root(x) /\ BoundType(x)' = BoundType(x)
  <2>1. slotOf[x] \in DOMAIN slots /\ Root(x) \in DOMAIN slots
    BY SlotOfNode DEF Slot
  <2>2. Root(x)' = Root(x)
    BY <1>7, <1>8, <2>1 DEF Root
  <2> QED
    BY <1>1, <1>5, <2>1, <2>2 DEF BoundType
<1> QED
  BY <1>6, <1>7, <1>8, <1>9, <1>10, <1>11 DEF Inv, Slot

LEMMA InitInv == Init => Inv
<1> SUFFICES ASSUME Init PROVE Inv
  OBVIOUS
<1>1. /\ slots = <<>> /\ Len(slots) = 0 /\ DOMAIN slots = {}
      /\ slots \in Seq(SlotRecord)
      /\ slotOf = [n \in Node |-> 0] /\ changed = FALSE /\ failed = FALSE
  BY EmptySeq DEF Init
<1>2. HasSlot = {}
  BY <1>1 DEF HasSlot
<1>3. TypeOK
  <2>1. slotOf \in [Node -> 0 .. Len(slots)]
    BY <1>1
  <2> QED
    BY <1>1, <1>2, <2>1 DEF TypeOK, Slot
<1>4. Forest(slots)
  BY <1>1 DEF Forest
<1> QED
  BY <1>3, <1>4 DEF Inv

LEMMA NextInv == Inv /\ [Next]_vars => Inv'
<1> SUFFICES ASSUME Inv, [Next]_vars PROVE Inv'
  OBVIOUS
<1>1. changed \in BOOLEAN /\ failed \in BOOLEAN
  BY DEF Inv, TypeOK
<1>2. ASSUME NEW n \in Node, EnsureInferenceSlot(n) PROVE Inv'
  BY <1>2, Allotting
<1>3. ASSUME NEW n \in Node, Look(n) PROVE Inv'
  BY <1>1, <1>3, Compressing DEF Look
<1>4. ASSUME NEW n \in Node, NEW t \in Type, Bind(n, t) PROVE Inv'
  BY <1>4, Binding
<1>5. ASSUME NEW n \in Node, NEW t \in Type, BindConflict(n, t) PROVE Inv'
  BY <1>1, <1>5, Compressing DEF BindConflict
<1>6. ASSUME NEW m \in Node, NEW n \in Node, Unify(m, n) PROVE Inv'
  BY <1>6, Merging
<1>7. ASSUME NEW m \in Node, NEW n \in Node, UnifyConflict(m, n) PROVE Inv'
  BY <1>1, <1>7, Compressing DEF UnifyConflict
<1>8. CASE Report
  BY <1>1, <1>8, SameSlots DEF Report, Inv
<1>9. CASE BeginSweep
  BY <1>1, <1>9, SameSlots DEF BeginSweep, Inv
<1>10. CASE UNCHANGED vars
  BY <1>1, <1>10, SameSlots DEF vars, Inv
<1> QED
  BY <1>2, <1>3, <1>4, <1>5, <1>6, <1>7, <1>8, <1>9, <1>10 DEF Next

(***************************************************************************)
(* No order of calls takes the solver out of its types: every parent is a  *)
(* slot, so find_representative never leaves the vector, and no two nodes  *)
(* ever share a slot.                                                      *)
(***************************************************************************)
THEOREM TypeCorrect == Spec => []TypeOK
<1>1. Inv => TypeOK
  BY DEF Inv
<1> QED
  BY InitInv, NextInv, <1>1, PTL DEF Spec

-----------------------------------------------------------------------------
(***************************************************************************)
(* The refinement of TypeClasses, one lemma for each kind of step.         *)
(***************************************************************************)
LEMMA KnownFields ==
    /\ Known.class = [n \in Node |-> IF n \in HasSlot THEN ClassOf(n) ELSE {n}]
    /\ Known.type = [n \in Node |-> IF n \in HasSlot THEN BoundType(n) ELSE NoType]
    /\ Known.changed = changed
    /\ Known.failed = failed
BY DEF Known

\* Slots that agree on every class and every type know the same.
LEMMA SameKnown ==
    ASSUME HasSlot' = HasSlot, slotOf' = slotOf,
           \A x \in HasSlot : Root(x)' = Root(x) /\ BoundType(x)' = BoundType(x)
    PROVE  Known' = [class |-> Known.class, type |-> Known.type,
                     changed |-> changed', failed |-> failed']
<1>1. ASSUME NEW x \in HasSlot PROVE ClassOf(x)' = ClassOf(x)
  BY DEF ClassOf
<1>2. Known.class = [n \in Node |-> IF n \in HasSlot' THEN ClassOf(n)' ELSE {n}]
  BY <1>1, KnownFields
<1>3. Known.type = [n \in Node |-> IF n \in HasSlot' THEN BoundType(n)' ELSE NoType]
  BY KnownFields
<1> QED
  BY <1>2, <1>3 DEF Known

\* A new slot changes nothing that is known.
LEMMA AllottingStutters ==
    ASSUME Inv, NEW n \in Node, EnsureInferenceSlot(n)
    PROVE  Known' = Known
<1>1. /\ n \notin HasSlot /\ HasSlot' = HasSlot \cup {n}
      /\ BoundType(n)' = NoType /\ Root(n)' \notin Slot
      /\ \A x \in HasSlot : Root(x)' = Root(x) /\ BoundType(x)' = BoundType(x)
  BY Allotting
<1>2. \A x \in HasSlot : Root(x) \in Slot
  BY SlotOfNode
<1>3. ClassOf(n)' = {n}
  BY <1>1, <1>2 DEF ClassOf
<1>4. ASSUME NEW x \in HasSlot PROVE ClassOf(x)' = ClassOf(x)
  BY <1>1, <1>2 DEF ClassOf
<1>5. [x \in Node |-> IF x \in HasSlot' THEN ClassOf(x)' ELSE {x}] = Known.class
  BY <1>1, <1>3, <1>4, KnownFields
<1>6. [x \in Node |-> IF x \in HasSlot' THEN BoundType(x)' ELSE NoType] = Known.type
  BY <1>1, KnownFields
<1>7. changed' = changed /\ failed' = failed
  BY DEF EnsureInferenceSlot
<1> QED
  BY <1>5, <1>6, <1>7, KnownFields DEF Known

\* Bind is Typed of a node without a type.
LEMMA BindingTypes ==
    ASSUME Inv, NEW n \in Node, NEW t \in Type, Bind(n, t)
    PROVE  Known' = TC!Typed(Known, n, t)
<1>1. /\ HasSlot' = HasSlot
      /\ \A x \in HasSlot :
           /\ Root(x)' = Root(x)
           /\ BoundType(x)' = IF Root(x) = Root(n) THEN t ELSE BoundType(x)
  BY Binding
<1>2. n \in HasSlot /\ failed = FALSE /\ BoundType(n) = NoType
  BY DEF Bind, Inv, TypeOK
<1>3. changed' = TRUE /\ failed' = FALSE
  BY <1>2 DEF Bind
<1>4. HasSlot \subseteq Node
  BY DEF HasSlot
<1>5. Known.type[n] = NoType /\ NoType # t
  BY <1>2, KnownFields, NoTypeAssumption
<1>6. ASSUME NEW x \in HasSlot PROVE ClassOf(x)' = ClassOf(x)
  BY <1>1 DEF ClassOf
<1>7. [x \in Node |-> IF x \in HasSlot' THEN ClassOf(x)' ELSE {x}] = Known.class
  BY <1>1, <1>6, KnownFields
<1>8. Known.class[n] = {x \in HasSlot : Root(x) = Root(n)}
  BY <1>2, KnownFields DEF ClassOf
<1>9. [x \in Node |-> IF x \in HasSlot' THEN BoundType(x)' ELSE NoType] =
      [x \in Node |-> IF x \in Known.class[n] THEN t ELSE Known.type[x]]
  BY <1>1, <1>8, KnownFields
<1>10. TC!Typed(Known, n, t) =
         [class |-> Known.class,
          type |-> [x \in Node |-> IF x \in Known.class[n] THEN t ELSE Known.type[x]],
          changed |-> TRUE, failed |-> FALSE]
  <2>1. ~ Known.failed
    BY <1>2, KnownFields
  <2> QED
    BY <1>5, <2>1 DEF TC!Typed
<1> QED
  BY <1>3, <1>7, <1>9, <1>10 DEF Known

\* Unify is Joined of two nodes that are not of one class and do not disagree.
LEMMA MergingJoins ==
    ASSUME Inv, NEW m \in Node, NEW n \in Node, Unify(m, n)
    PROVE  Known' = TC!Joined(Known, m, n)
<1> DEFINE both == Known.class[m] \cup Known.class[n]
           known == {Known.type[m], Known.type[n]} \ {NoType}
           i == Root(m)
           j == Root(n)
<1>1. /\ HasSlot' = HasSlot
      /\ \E over \in {i, j} : \A x \in HasSlot :
           /\ Root(x)' = IF Root(x) \in {i, j} THEN over ELSE Root(x)
           /\ BoundType(x)' = IF Root(x) \in {i, j}
                              THEN IF BoundType(m) = NoType THEN BoundType(n) ELSE BoundType(m)
                              ELSE BoundType(x)
  BY Merging
<1>2. /\ m \in HasSlot /\ n \in HasSlot /\ failed = FALSE /\ i # j
      /\ changed' = TRUE /\ failed' = FALSE
      /\ BoundType(m) = BoundType(n) \/ NoType \in {BoundType(m), BoundType(n)}
  BY DEF Unify, Agree, Inv, TypeOK
<1>3. HasSlot \subseteq Node
  BY DEF HasSlot
<1>4. /\ Known.class[m] = {x \in HasSlot : Root(x) = i}
      /\ Known.class[n] = {x \in HasSlot : Root(x) = j}
  BY <1>2, KnownFields DEF ClassOf
<1>5. both = {x \in HasSlot : Root(x) \in {i, j}} /\ m \notin Known.class[n]
  BY <1>2, <1>4
<1>6. Known.type[m] = BoundType(m) /\ Known.type[n] = BoundType(n)
  BY <1>2, KnownFields
<1>7. \A s, t \in known : s = t
  BY <1>2, <1>6
<1>8. known # {} => (CHOOSE t \in known : TRUE) =
                      IF BoundType(m) = NoType THEN BoundType(n) ELSE BoundType(m)
  BY <1>2, <1>6
<1>9. known = {} => BoundType(m) = NoType /\ BoundType(n) = NoType
  BY <1>6
<1> HIDE DEF i, j
<1>10. PICK over \in {i, j} : \A x \in HasSlot :
         Root(x)' = IF Root(x) \in {i, j} THEN over ELSE Root(x)
  BY <1>1
<1>11. ASSUME NEW x \in HasSlot
       PROVE  ClassOf(x)' = IF x \in both THEN both ELSE ClassOf(x)
  <2>1. ClassOf(x)' = {y \in HasSlot : Root(y)' = Root(x)'}
    BY <1>1 DEF ClassOf
  <2>2. \A y \in HasSlot : Root(y)' = Root(x)' <=>
          (Root(x) \in {i, j} /\ Root(y) \in {i, j}) \/ Root(y) = Root(x)
    BY <1>10
  <2> QED
    BY <1>5, <2>1, <2>2 DEF ClassOf
<1>12. [x \in Node |-> IF x \in HasSlot' THEN ClassOf(x)' ELSE {x}] =
       [x \in Node |-> IF x \in both THEN both ELSE Known.class[x]]
  <2>1. ASSUME NEW x \in Node
        PROVE  (IF x \in HasSlot' THEN ClassOf(x)' ELSE {x}) =
               (IF x \in both THEN both ELSE Known.class[x])
    <3>1. Known.class[x] = IF x \in HasSlot THEN ClassOf(x) ELSE {x}
      BY KnownFields
    <3>2. both \subseteq HasSlot
      BY <1>5
    <3> HIDE DEF both
    <3> QED BY <1>1, <1>11, <3>1, <3>2
  <2> HIDE DEF both
  <2> QED BY <2>1
<1>13. ASSUME NEW x \in HasSlot
       PROVE  BoundType(x)' = IF x \in both /\ known # {} THEN CHOOSE t \in known : TRUE
                              ELSE BoundType(x)
  <2>1. x \in both <=> Root(x) \in {i, j}
    BY <1>5
  <2>2. Root(x) \in {i, j} => BoundType(x) \in {BoundType(m), BoundType(n)}
    BY DEF i, j, BoundType
  <2> HIDE DEF both, known
  <2> QED BY <1>1, <1>8, <1>9, <2>1, <2>2
<1>14. [x \in Node |-> IF x \in HasSlot' THEN BoundType(x)' ELSE NoType] =
       [x \in Node |-> IF x \in both /\ known # {} THEN CHOOSE t \in known : TRUE
                       ELSE Known.type[x]]
  <2>1. ASSUME NEW x \in Node
        PROVE  (IF x \in HasSlot' THEN BoundType(x)' ELSE NoType) =
               (IF x \in both /\ known # {} THEN CHOOSE t \in known : TRUE
                ELSE Known.type[x])
    <3>1. Known.type[x] = IF x \in HasSlot THEN BoundType(x) ELSE NoType
      BY KnownFields
    <3>2. both \subseteq HasSlot
      BY <1>5
    <3> HIDE DEF both, known
    <3> QED BY <1>1, <1>13, <3>1, <3>2
  <2> HIDE DEF both, known
  <2> QED BY <2>1
<1>15. TC!Joined(Known, m, n) =
         [class |-> [x \in Node |-> IF x \in both THEN both ELSE Known.class[x]],
          type |-> [x \in Node |-> IF x \in both /\ known # {} THEN CHOOSE t \in known : TRUE
                                   ELSE Known.type[x]],
          changed |-> TRUE, failed |-> FALSE]
  <2>1. ~ Known.failed
    BY <1>2, KnownFields
  <2> QED
    BY <1>5, <1>7, <2>1 DEF TC!Joined
<1>16. Known' = [class |-> [x \in Node |-> IF x \in HasSlot' THEN ClassOf(x)' ELSE {x}],
                type |-> [x \in Node |-> IF x \in HasSlot' THEN BoundType(x)' ELSE NoType],
                changed |-> TRUE, failed |-> FALSE]
  BY <1>2 DEF Known
<1> QED
  BY <1>12, <1>14, <1>15, <1>16

\* The two conflicts are the ones of TypeClasses.
LEMMA ConflictsFail ==
    ASSUME Inv
    PROVE  /\ \A n \in Node, t \in Type : BindConflict(n, t) => Known' = TC!Typed(Known, n, t)
           /\ \A m, n \in Node : UnifyConflict(m, n) => Known' = TC!Joined(Known, m, n)
<1>1. ASSUME NEW n \in Node, NEW t \in Type, BindConflict(n, t)
      PROVE  Known' = TC!Typed(Known, n, t)
  <2>1. /\ Known' = [class |-> Known.class, type |-> Known.type,
                     changed |-> changed', failed |-> failed']
        /\ failed' = TRUE /\ changed' = changed /\ failed = FALSE
    <3>1. changed \in BOOLEAN /\ failed \in BOOLEAN
      BY DEF Inv, TypeOK
    <3> QED BY <1>1, <3>1, Compressing, SameKnown DEF BindConflict
  <2>2. Known.type[n] \notin {NoType, t}
    BY <1>1, KnownFields DEF BindConflict
  <2>3. TC!Typed(Known, n, t) = TC!Failed(Known)
    <3>1. ~ Known.failed
      BY <2>1, KnownFields
    <3> QED BY <2>2, <3>1 DEF TC!Typed
  <2> QED
    BY <2>1, <2>3, KnownFields DEF TC!Failed
<1>2. ASSUME NEW m \in Node, NEW n \in Node, UnifyConflict(m, n)
      PROVE  Known' = TC!Joined(Known, m, n)
  <2>1. /\ Known' = [class |-> Known.class, type |-> Known.type,
                     changed |-> changed', failed |-> failed']
        /\ failed' = TRUE /\ changed' = changed /\ failed = FALSE
    <3>1. changed \in BOOLEAN /\ failed \in BOOLEAN
      BY DEF Inv, TypeOK
    <3> QED BY <1>2, <3>1, Compressing, SameKnown DEF UnifyConflict
  <2>2. /\ m \in HasSlot /\ n \in HasSlot /\ BoundType(m) # BoundType(n)
        /\ BoundType(m) # NoType /\ BoundType(n) # NoType
    BY <1>2 DEF UnifyConflict, Agree
  <2>3. Known.type[m] = BoundType(m) /\ Known.type[n] = BoundType(n)
    BY <2>2, KnownFields DEF HasSlot
  <2>4. m \notin Known.class[n]
    BY <2>2, KnownFields DEF HasSlot, ClassOf, BoundType
  <2>5. ~ \A s, t \in {Known.type[m], Known.type[n]} \ {NoType} : s = t
    BY <2>2, <2>3
  <2>6. TC!Joined(Known, m, n) = TC!Failed(Known)
    <3>1. ~ Known.failed
      BY <2>1, KnownFields
    <3> QED BY <2>4, <2>5, <3>1 DEF TC!Joined
  <2> QED
    BY <2>1, <2>6, KnownFields DEF TC!Failed
<1> QED
  BY <1>1, <1>2

\* Every step of the solver is a step of TypeClasses, or no step of it.
LEMMA NextKnown == Inv /\ [Next]_vars => [TC!Next]_Known
<1> SUFFICES ASSUME Inv, [Next]_vars PROVE [TC!Next]_Known
  OBVIOUS
<1>1. changed \in BOOLEAN /\ failed \in BOOLEAN
  BY DEF Inv, TypeOK
<1>2. Known = [class |-> Known.class, type |-> Known.type, changed |-> changed, failed |-> failed]
  BY DEF Known
<1>3. ASSUME NEW n \in Node, EnsureInferenceSlot(n) PROVE Known' = Known
  BY <1>3, AllottingStutters
<1>4. ASSUME NEW n \in Node, Look(n) PROVE Known' = Known
  <2>1. changed' = changed /\ failed' = failed
    BY <1>4 DEF Look
  <2> QED
    BY <1>1, <1>2, <1>4, <2>1, Compressing, SameKnown DEF Look
<1>5. ASSUME NEW n \in Node, NEW t \in Type, Bind(n, t) PROVE TC!Next
  BY <1>5, BindingTypes DEF TC!Next
<1>6. ASSUME NEW n \in Node, NEW t \in Type, BindConflict(n, t) PROVE TC!Next
  BY <1>6, ConflictsFail DEF TC!Next
<1>7. ASSUME NEW m \in Node, NEW n \in Node, Unify(m, n) PROVE TC!Next
  BY <1>7, MergingJoins DEF TC!Next
<1>8. ASSUME NEW m \in Node, NEW n \in Node, UnifyConflict(m, n) PROVE TC!Next
  BY <1>8, ConflictsFail DEF TC!Next
<1>9. UNCHANGED <<slots, slotOf>> =>
        Known' = [class |-> Known.class, type |-> Known.type,
                  changed |-> changed', failed |-> failed']
  BY SameKnown DEF HasSlot, Root, BoundType
<1>10. CASE Report
  <2>1. Known' = TC!Failed(Known)
    BY <1>9, <1>10, KnownFields DEF Report, TC!Failed
  <2> QED
    BY <2>1 DEF TC!Next
<1>11. CASE BeginSweep
  <2>1. Known' = TC!Quiet(Known)
    BY <1>9, <1>11, KnownFields DEF BeginSweep, TC!Quiet
  <2> QED
    BY <2>1 DEF TC!Next
<1>12. CASE UNCHANGED vars
  <2>1. Known' = Known
    BY <1>2, <1>9, <1>12 DEF vars
  <2> QED
    BY <2>1
<1> QED
  BY <1>3, <1>4, <1>5, <1>6, <1>7, <1>8, <1>10, <1>11, <1>12 DEF Next

(***************************************************************************)
(* The slots implement the classes: for any nodes and types, what a caller *)
(* learns of a node and what a conflict is do not depend on the order of   *)
(* the calls that ranks and compressed paths leave traces of.              *)
(***************************************************************************)
THEOREM ImplementsClasses == Spec => Classes
<1>1. Init => TC!Init
  <2> SUFFICES ASSUME Init PROVE TC!Init
    OBVIOUS
  <2>1. HasSlot = {} /\ changed = FALSE /\ failed = FALSE
    BY DEF Init, HasSlot
  <2> QED
    BY <2>1 DEF TC!Init, TC!Nothing, Known
<1> QED
  BY <1>1, InitInv, NextInv, NextKnown, PTL DEF Spec, Classes, TC!Spec
=============================================================================
