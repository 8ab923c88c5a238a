------------------------------ MODULE ListProofs ------------------------------
(***************************************************************************)
(* Facts about lists: of the order Listing gives the rows of a set, of     *)
(* folds over a list, and of the staged matchers of StagedMatch.           *)
(***************************************************************************)
EXTENDS Listing, StagedMatch, FiniteSetTheorems, TLAPS

(* Every set of naturals with an element has a least one. *)
LEMMA LeastNumber ==
  ASSUME NEW S \in SUBSET Nat, S # {}
  PROVE  \E x \in S : \A y \in S : x <= y
<1>1. PICK n \in S : TRUE
  OBVIOUS
<1> DEFINE T == S \cap 0 .. n
           Below(x) == {y \in T : y < x}
           R == StrictSubsetOrdering(T)
           B == {Below(x) : x \in T}
<1>2. IsFiniteSet(T)
  <2>1. IsFiniteSet(0 .. n)
    BY FS_Interval
  <2> QED BY <2>1, FS_Subset
<1>3. IsWellFoundedOn(R, SUBSET T)
  <2> HIDE DEF T
  <2> QED BY <1>2, FS_StrictSubsetOrderingWellFounded, FS_FiniteSubsetsOfFinite
<1>4. B \subseteq SUBSET T /\ B # {}
  <2>1. n \in T
    BY <1>1
  <2> QED BY <2>1
<1>5. PICK A \in B : \A C \in B : ~(<<C, A>> \in R)
  <2> HIDE DEF T, R, B
  <2> QED BY <1>3, <1>4, WFMin, Zenon
<1>6. PICK x \in T : A = Below(x)
  OBVIOUS
<1>7. Below(x) = {}
  <2> SUFFICES ASSUME NEW y \in Below(x) PROVE FALSE
    OBVIOUS
  <2>1. y \in T /\ y < x /\ x \in Nat /\ y \in Nat
    OBVIOUS
  <2>2. ASSUME NEW z \in Below(y) PROVE z \in Below(x)
    <3>1. z \in T /\ z \in Nat /\ z < y
      OBVIOUS
    <3> QED BY <2>1, <3>1
  <2>3. y \notin Below(y)
    BY <2>1
  <2>4. <<Below(y), A>> \in R
    BY <1>6, <2>2, <2>3 DEF StrictSubsetOrdering
  <2> QED BY <1>5, <2>1, <2>4
<1>8. ASSUME NEW y \in S PROVE x <= y
  <2>1. CASE y \in T
    BY <1>7, <2>1
  <2>2. CASE y \notin T
    BY <2>2
  <2> QED BY <2>1, <2>2
<1> QED BY <1>8

(* Counting up: what holds at first and is handed on holds throughout. *)
LEMMA CountUp ==
  ASSUME NEW n \in Nat, NEW S, 0 \in S, \A k \in 1 .. n : k - 1 \in S => k \in S
  PROVE  0 .. n \subseteq S
<1> DEFINE Bad == (0 .. n) \ S
<1> SUFFICES ASSUME Bad # {} PROVE FALSE
  OBVIOUS
<1>1. PICK x \in Bad : \A y \in Bad : x <= y
  <2>1. Bad \in SUBSET Nat
    OBVIOUS
  <2> HIDE DEF Bad
  <2> QED BY <2>1, LeastNumber
<1>2. x \in 1 .. n
  OBVIOUS
<1>3. x - 1 \in 0 .. n /\ x - 1 \notin Bad
  BY <1>1, <1>2
<1> QED BY <1>2, <1>3

(* Positions of a strict order: everything in a finite set has as many elements before
   it as no other, so each of the first Cardinality(S) numbers is somebody's. *)
LEMMA PositionsFill ==
  ASSUME NEW S, IsFiniteSet(S), NEW before \in [S -> SUBSET S],
         \A x, y \in S : x # y => x \in before[y] \/ y \in before[x],
         \A x, y \in S : x \in before[y] => before[x] \subseteq before[y],
         \A x \in S : x \notin before[x]
  PROVE  /\ \A x \in S : Cardinality(before[x]) \in 0 .. Cardinality(S) - 1
         /\ \A x, y \in S : x \in before[y] => Cardinality(before[x]) < Cardinality(before[y])
         /\ \A i \in 0 .. Cardinality(S) - 1 : \E x \in S : Cardinality(before[x]) = i
<1> DEFINE n == Cardinality(S)
           pos == [x \in S |-> Cardinality(before[x])]
<1>1. n \in Nat
  BY FS_CardinalityType
<1>2. ASSUME NEW x \in S PROVE IsFiniteSet(before[x]) /\ Cardinality(before[x]) \in 0 .. n - 1
  <2>1. before[x] \subseteq S /\ before[x] # S
    OBVIOUS
  <2>2. IsFiniteSet(before[x]) /\ Cardinality(before[x]) <= n /\ Cardinality(before[x]) # n
    BY <2>1, FS_Subset
  <2> QED BY <1>1, <2>2, FS_CardinalityType
<1>3. ASSUME NEW x \in S, NEW y \in S, x \in before[y]
      PROVE  Cardinality(before[x]) < Cardinality(before[y])
  <2>1. before[x] \subseteq before[y] /\ before[x] # before[y]
    BY <1>3
  <2>2. IsFiniteSet(before[y]) /\ Cardinality(before[x]) <= Cardinality(before[y])
        /\ Cardinality(before[x]) # Cardinality(before[y])
    BY <1>2, <2>1, FS_Subset
  <2> QED BY <1>2, <2>2
<1>4. pos \in Injection(S, 0 .. n - 1)
  <2>1. pos \in [S -> 0 .. n - 1]
    BY <1>2
  <2>2. ASSUME NEW x \in S, NEW y \in S, x # y PROVE pos[x] # pos[y]
    <3>1. x \in before[y] \/ y \in before[x]
      BY <2>2
    <3> QED BY <1>2, <1>3, <3>1
  <2> QED BY <2>1, <2>2 DEF Injection, IsInjective
<1>5. IsFiniteSet(0 .. n - 1) /\ Cardinality(0 .. n - 1) = n
  BY <1>1, FS_Interval
<1>6. pos \in Surjection(S, 0 .. n - 1)
  <2> HIDE DEF pos
  <2> QED BY <1>4, <1>5, FS_Injection
<1>7. \A i \in 0 .. n - 1 : \E x \in S : pos[x] = i
  BY <1>6 DEF Surjection
<1> QED BY <1>2, <1>3, <1>7

LEMMA MaxIsLargest ==
  ASSUME NEW S \in SUBSET Nat, IsFiniteSet(S), S # {}
  PROVE  Max(S) \in S /\ \A x \in S : x <= Max(S)
<1> DEFINE Above(x) == {y \in S : y > x}
           R == StrictSubsetOrdering(S)
           T == {Above(x) : x \in S}
<1>1. IsWellFoundedOn(R, SUBSET S)
  BY FS_StrictSubsetOrderingWellFounded, FS_FiniteSubsetsOfFinite
<1>2. T \subseteq SUBSET S /\ T # {}
  OBVIOUS
<1>3. PICK A \in T : \A B \in T : ~(<<B, A>> \in R)
  <2> HIDE DEF T, R
  <2> QED BY <1>1, <1>2, WFMin, Zenon
<1>4. PICK x \in S : A = Above(x)
  OBVIOUS
<1>5. Above(x) = {}
  <2> SUFFICES ASSUME NEW y \in Above(x) PROVE FALSE
    OBVIOUS
  <2>1. y \in S /\ y > x /\ x \in Nat /\ y \in Nat
    OBVIOUS
  <2>2. ASSUME NEW z \in Above(y) PROVE z \in Above(x)
    <3>1. z \in S /\ z \in Nat /\ z > y
      OBVIOUS
    <3> QED BY <2>1, <3>1
  <2>3. y \notin Above(y)
    BY <2>1
  <2>4. <<Above(y), A>> \in R
    BY <1>4, <2>2, <2>3 DEF StrictSubsetOrdering
  <2> QED BY <1>3, <2>1, <2>4
<1>6. x \in S /\ \A y \in S : x >= y
  BY <1>5
<1>7. Max(S) \in S /\ \A y \in S : Max(S) >= y
  BY <1>6 DEF Max
<1>8. \A y \in S : y \in Nat
  OBVIOUS
<1> QED BY <1>7, <1>8

(* A list of a set: every element at one place. *)
IsListing(s, S) ==
  /\ s \in [1 .. Cardinality(S) -> S] /\ s \in Seq(S) /\ Len(s) = Cardinality(S)
  /\ \A x \in S : \E i \in 1 .. Len(s) : s[i] = x

LEMMA PlacedInOrder ==
  ASSUME NEW S, IsFiniteSet(S), NEW before \in [S -> SUBSET S],
         \A x, y \in S : x # y => x \in before[y] \/ y \in before[x],
         \A x, y \in S : x \in before[y] => before[x] \subseteq before[y],
         \A x \in S : x \notin before[x],
         NEW s, s = InOrder(S, before)
  PROVE  /\ IsListing(s, S)
         /\ \A i, j \in 1 .. Cardinality(S) : i < j => s[i] \in before[s[j]]
<1> DEFINE n == Cardinality(S)
<1>0. n \in Nat
  BY FS_CardinalityType
<1>1. /\ \A x \in S : Cardinality(before[x]) \in 0 .. n - 1
      /\ \A x, y \in S : x \in before[y] => Cardinality(before[x]) < Cardinality(before[y])
      /\ \A i \in 0 .. n - 1 : \E x \in S : Cardinality(before[x]) = i
  BY PositionsFill
<1>2. ASSUME NEW i \in 1 .. n PROVE s[i] \in S /\ Cardinality(before[s[i]]) = i - 1
  <2>1. s[i] = CHOOSE x \in S : Cardinality(before[x]) = i - 1
    BY DEF InOrder
  <2>2. i - 1 \in 0 .. n - 1
    BY <1>0
  <2>3. \E x \in S : Cardinality(before[x]) = i - 1
    BY <1>1, <2>2
  <2> QED BY <2>1, <2>3
<1> HIDE DEF n
<1>4. ASSUME NEW i \in 1 .. n, NEW j \in 1 .. n, i < j PROVE s[i] \in before[s[j]]
  <2>1. /\ s[i] \in S /\ s[j] \in S
        /\ Cardinality(before[s[i]]) = i - 1 /\ Cardinality(before[s[j]]) = j - 1
    BY <1>2
  <2>2. i - 1 < j - 1 /\ i - 1 # j - 1
    BY <1>0, <1>4
  <2>3. s[i] # s[j] /\ ~(s[j] \in before[s[i]])
    BY <1>0, <1>1, <2>1, <2>2
  <2> QED BY <2>1, <2>3
<1>5. ASSUME NEW x \in S PROVE \E i \in 1 .. n : s[i] = x
  <2>1. Cardinality(before[x]) \in 0 .. n - 1
    BY <1>1
  <2>2. PICK i \in 1 .. n : Cardinality(before[x]) = i - 1
    <3>1. Cardinality(before[x]) + 1 \in 1 .. n
      BY <1>0, <2>1
    <3> QED BY <2>1, <3>1
  <2>3. s[i] \in S /\ Cardinality(before[s[i]]) = Cardinality(before[x])
    BY <1>2, <2>2
  <2>4. ~(s[i] \in before[x]) /\ ~(x \in before[s[i]])
    BY <1>0, <1>1, <2>1, <2>3
  <2> QED BY <2>3, <2>4
<1>6. s \in [1 .. n -> S]
  BY <1>2 DEF n, InOrder
<1>7. s \in Seq(S)
  BY <1>0, <1>6
<1>8. Len(s) = n
  BY <1>0, <1>6, <1>7
<1> QED BY <1>4, <1>5, <1>6, <1>7, <1>8 DEF IsListing, n

LEMMA AscendingLists ==
  ASSUME NEW S \in SUBSET Int, IsFiniteSet(S)
  PROVE  /\ IsListing(Ascending(S), S)
         /\ \A i, j \in 1 .. Cardinality(S) : i < j => Ascending(S)[i] < Ascending(S)[j]
<1> DEFINE before == [x \in S |-> {y \in S : y < x}]
<1>1. before \in [S -> SUBSET S] /\ \A x \in S : x \notin before[x]
  OBVIOUS
<1>2. \A x, y \in S : x # y => x \in before[y] \/ y \in before[x]
  OBVIOUS
<1>3. ASSUME NEW x \in S, NEW y \in S, x \in before[y], NEW z \in before[x] PROVE z \in before[y]
  <2>1. x \in Int /\ y \in Int /\ z \in Int /\ z < x /\ x < y
    BY <1>3
  <2> QED BY <2>1
<1>4. \A x, y \in S : x \in before[y] => x < y
  OBVIOUS
<1>5. Ascending(S) = InOrder(S, before)
  BY DEF Ascending
<1> HIDE DEF before
<1>6. /\ IsListing(Ascending(S), S)
      /\ \A i, j \in 1 .. Cardinality(S) : i < j => Ascending(S)[i] \in before[Ascending(S)[j]]
  BY <1>1, <1>2, <1>3, <1>5, PlacedInOrder
<1> QED BY <1>4, <1>6 DEF IsListing

LEMMA DescendingLists ==
  ASSUME NEW S \in SUBSET Int, IsFiniteSet(S)
  PROVE  /\ IsListing(Descending(S), S)
         /\ \A i, j \in 1 .. Cardinality(S) : i < j => Descending(S)[i] > Descending(S)[j]
<1> DEFINE before == [x \in S |-> {y \in S : y > x}]
<1>1. before \in [S -> SUBSET S] /\ \A x \in S : x \notin before[x]
  OBVIOUS
<1>2. \A x, y \in S : x # y => x \in before[y] \/ y \in before[x]
  OBVIOUS
<1>3. ASSUME NEW x \in S, NEW y \in S, x \in before[y], NEW z \in before[x] PROVE z \in before[y]
  <2>1. x \in Int /\ y \in Int /\ z \in Int /\ z > x /\ x > y
    BY <1>3
  <2> QED BY <2>1
<1>4. \A x, y \in S : x \in before[y] => x > y
  OBVIOUS
<1>5. Descending(S) = InOrder(S, before)
  BY DEF Descending
<1> HIDE DEF before
<1>6. /\ IsListing(Descending(S), S)
      /\ \A i, j \in 1 .. Cardinality(S) : i < j => Descending(S)[i] \in before[Descending(S)[j]]
  BY <1>1, <1>2, <1>3, <1>5, PlacedInOrder
<1> QED BY <1>4, <1>6 DEF IsListing

(***************************************************************************)
(* FoldLeft takes the elements of a list one after the other: it is a fold *)
(* over the set of its places, which takes the largest place last.  The    *)
(* recursion that defines such a fold has a solution, and only one.        *)
(***************************************************************************)
Folds(G, n, base, step) ==
  /\ G[{}] = base
  /\ \A s \in SUBSET (1 .. n) : s # {} => G[s] = step[<<G[s \ {Max(s)}], Max(s)>>]

LEMMA PlacesEnd ==
  ASSUME NEW n \in Nat, NEW s \in SUBSET (1 .. n), s # {}
  PROVE  /\ Max(s) \in s /\ Max(s) \in 1 .. n
         /\ s \ {Max(s)} \in SUBSET (1 .. n)
         /\ Cardinality(s) \in Nat /\ 1 <= Cardinality(s) /\ Cardinality(s) <= n
         /\ Cardinality(s \ {Max(s)}) = Cardinality(s) - 1
<1>1. IsFiniteSet(1 .. n) /\ Cardinality(1 .. n) = n
  BY FS_Interval
<1>2. IsFiniteSet(s) /\ Cardinality(s) <= n /\ Cardinality(s) \in Nat /\ Cardinality(s) # 0
  <2>1. IsFiniteSet(s) /\ Cardinality(s) <= n
    BY <1>1, FS_Subset
  <2>2. Cardinality(s) \in Nat
    BY <2>1, FS_CardinalityType
  <2>3. Cardinality(s) # 0
    BY <2>1, FS_EmptySet
  <2> QED BY <2>1, <2>2, <2>3
<1>3. Max(s) \in s
  <2>1. s \in SUBSET Nat
    OBVIOUS
  <2> QED BY <1>2, <2>1, MaxIsLargest
<1>4. Cardinality(s \ {Max(s)}) = Cardinality(s) - 1
  BY <1>2, <1>3, FS_RemoveElement
<1>5. 1 <= Cardinality(s)
  BY <1>2
<1>6. Max(s) \in 1 .. n /\ s \ {Max(s)} \in SUBSET (1 .. n)
  BY <1>3
<1> QED BY <1>2, <1>3, <1>4, <1>5, <1>6

(* The same for all the sets of places. *)
LEMMA PlacesCount ==
  ASSUME NEW n \in Nat
  PROVE  /\ \A s \in SUBSET (1 .. n) : Cardinality(s) \in Nat /\ Cardinality(s) <= n
         /\ \A s \in SUBSET (1 .. n) : s # {} =>
              /\ 1 <= Cardinality(s) /\ Max(s) \in 1 .. n /\ s \ {Max(s)} \in SUBSET (1 .. n)
              /\ Cardinality(s \ {Max(s)}) = Cardinality(s) - 1
<1>1. ASSUME NEW s \in SUBSET (1 .. n), s = {} PROVE Cardinality(s) = 0 /\ 0 <= n
  BY <1>1, FS_EmptySet
<1>2. ASSUME NEW s \in SUBSET (1 .. n), s # {}
      PROVE  /\ Cardinality(s) \in Nat /\ Cardinality(s) <= n
             /\ 1 <= Cardinality(s) /\ Max(s) \in 1 .. n /\ s \ {Max(s)} \in SUBSET (1 .. n)
             /\ Cardinality(s \ {Max(s)}) = Cardinality(s) - 1
  BY <1>2, PlacesEnd
<1>3. ASSUME NEW s \in SUBSET (1 .. n) PROVE Cardinality(s) \in Nat /\ Cardinality(s) <= n
  <2>1. CASE s = {}
    BY <1>1, <2>1
  <2>2. CASE s # {}
    BY <1>2, <2>2
  <2> QED BY <2>1, <2>2
<1>4. ASSUME NEW s \in SUBSET (1 .. n), s # {}
      PROVE  /\ 1 <= Cardinality(s) /\ Max(s) \in 1 .. n /\ s \ {Max(s)} \in SUBSET (1 .. n)
             /\ Cardinality(s \ {Max(s)}) = Cardinality(s) - 1
  BY <1>2, <1>4
<1> QED BY <1>3, <1>4

LEMMA FoldRuns ==
  ASSUME NEW T, NEW n \in Nat, NEW base \in T, NEW step \in [T \X (1 .. n) -> T]
  PROVE  \E G \in [SUBSET (1 .. n) -> T] : Folds(G, n, base, step)
<1> DEFINE P == SUBSET (1 .. n)
           Next(g, s) == step[<<g[s \ {Max(s)}], Max(s)>>]
           Upto(g, k) == /\ g[{}] = base
                         /\ \A s \in P : s # {} /\ Cardinality(s) <= k => g[s] = Next(g, s)
           S == {k \in Nat : \E g \in [P -> T] : Upto(g, k)}
<1>0. {} \in P /\ Cardinality({}) = 0
  BY FS_EmptySet
<1>1. 0 \in S
  <2> DEFINE g == [s \in P |-> base]
  <2>1. g \in [P -> T] /\ g[{}] = base
    OBVIOUS
  <2>2. ASSUME NEW s \in P, s # {} PROVE ~(Cardinality(s) <= 0)
    <3>1. 1 <= Cardinality(s) /\ Cardinality(s) \in Nat
      BY <2>2, PlacesEnd
    <3> QED BY <3>1
  <2> QED BY <2>1, <2>2
<1>2. ASSUME NEW k \in 1 .. n, k - 1 \in S PROVE k \in S
  <2>1. PICK g \in [P -> T] : Upto(g, k - 1)
    BY <1>2
  <2> DEFINE h == [s \in P |-> IF Cardinality(s) = k THEN Next(g, s) ELSE g[s]]
  <2>2. ASSUME NEW s \in P, s # {}
        PROVE  /\ Next(g, s) \in T /\ Cardinality(s) \in Nat
               /\ s \ {Max(s)} \in P /\ Cardinality(s \ {Max(s)}) = Cardinality(s) - 1
    <3>1. Max(s) \in 1 .. n /\ s \ {Max(s)} \in P
      BY <2>2, PlacesEnd
    <3>2. Cardinality(s) \in Nat /\ Cardinality(s \ {Max(s)}) = Cardinality(s) - 1
      BY <2>2, PlacesEnd
    <3> QED BY <2>2, <3>1, <3>2
  <2>3. h \in [P -> T]
    <3> SUFFICES ASSUME NEW s \in P PROVE h[s] \in T
      OBVIOUS
    <3>1. CASE s = {}
      BY <1>0, <3>1
    <3>2. CASE s # {}
      BY <2>2, <3>2
    <3> QED BY <3>1, <3>2
  <2>4. h[{}] = base
    BY <1>0, <2>1
  <2>5. ASSUME NEW s \in P, s # {}, Cardinality(s) <= k PROVE h[s] = Next(h, s)
    <3>0. /\ Cardinality(s) \in Nat /\ s \ {Max(s)} \in P
          /\ Cardinality(s \ {Max(s)}) = Cardinality(s) - 1
      BY <2>2, <2>5
    <3>1. h[s \ {Max(s)}] = g[s \ {Max(s)}]
      <4>1. Cardinality(s \ {Max(s)}) # k
        BY <2>5, <3>0
      <4> QED BY <3>0, <4>1
    <3>2. Next(h, s) = Next(g, s)
      BY <3>1
    <3>3. CASE Cardinality(s) = k
      BY <3>2, <3>3
    <3>4. CASE Cardinality(s) # k
      <4>1. Cardinality(s) <= k - 1
        BY <2>5, <3>0, <3>4
      <4> QED BY <2>1, <2>5, <3>2, <3>4, <4>1
    <3> QED BY <3>3, <3>4
  <2> HIDE DEF h, P, Next
  <2> QED BY <2>3, <2>4, <2>5
<1>3. n \in S
  <2> HIDE DEF S
  <2> QED BY <1>1, <1>2, CountUp
<1>4. PICK g \in [P -> T] : Upto(g, n)
  BY <1>3
<1>5. \A s \in P : Cardinality(s) <= n
  BY PlacesCount
<1> QED BY <1>4, <1>5 DEF Folds

HandedOn(G, H, n) ==
  /\ G[{}] = H[{}]
  /\ \A s \in SUBSET (1 .. n) : s # {} /\ G[s \ {Max(s)}] = H[s \ {Max(s)}] => G[s] = H[s]

SameFold(G, H, n) == \A s \in SUBSET (1 .. n) : G[s] = H[s]

LEMMA FoldIsOne ==
  ASSUME NEW n \in Nat, NEW G, NEW H, HandedOn(G, H, n)
  PROVE  SameFold(G, H, n)
<1> DEFINE S == {k \in Nat : \A s \in SUBSET (1 .. n) : Cardinality(s) <= k => G[s] = H[s]}
<1>0. \A s \in SUBSET (1 .. n) : s # {} =>
        /\ Cardinality(s) \in Nat /\ 1 <= Cardinality(s)
        /\ s \ {Max(s)} \in SUBSET (1 .. n) /\ Cardinality(s \ {Max(s)}) = Cardinality(s) - 1
  BY PlacesCount
<1>1. 0 \in S
  <2> SUFFICES ASSUME NEW s \in SUBSET (1 .. n), Cardinality(s) <= 0 PROVE G[s] = H[s]
    OBVIOUS
  <2>1. CASE s # {}
    <3>1. Cardinality(s) \in Nat /\ 1 <= Cardinality(s)
      BY <1>0, <2>1
    <3> QED BY <3>1
  <2>2. CASE s = {}
    BY <2>2 DEF HandedOn
  <2> QED BY <2>1, <2>2
<1>2. ASSUME NEW k \in 1 .. n, k - 1 \in S PROVE k \in S
  <2>0. k \in Nat
    OBVIOUS
  <2> SUFFICES ASSUME NEW s \in SUBSET (1 .. n), Cardinality(s) <= k PROVE G[s] = H[s]
    BY <2>0
  <2>1. CASE s # {}
    <3>1. /\ Cardinality(s) \in Nat /\ s \ {Max(s)} \in SUBSET (1 .. n)
          /\ Cardinality(s \ {Max(s)}) = Cardinality(s) - 1
      BY <1>0, <2>1
    <3>2. Cardinality(s \ {Max(s)}) <= k - 1
      BY <3>1
    <3>3. G[s \ {Max(s)}] = H[s \ {Max(s)}]
      BY <1>2, <3>1, <3>2
    <3> QED BY <2>1, <3>3 DEF HandedOn
  <2>2. CASE s = {}
    BY <2>2 DEF HandedOn
  <2> QED BY <2>1, <2>2
<1>3. n \in S
  <2> HIDE DEF S
  <2> QED BY <1>1, <1>2, CountUp
<1>4. \A s \in SUBSET (1 .. n) : Cardinality(s) <= n
  BY PlacesCount
<1> QED BY <1>3, <1>4 DEF SameFold

(* The steps of a fold over a whole list. *)
Walks(G, n, base, step) ==
  G[1 .. 0] = base /\ \A k \in 1 .. n : G[1 .. k] = step[<<G[1 .. k - 1], k>>]

LEMMA FoldWalks ==
  ASSUME NEW n \in Nat, NEW G, NEW base, NEW step, Folds(G, n, base, step)
  PROVE  Walks(G, n, base, step)
<1>1. 1 .. 0 = {}
  OBVIOUS
<1>2. ASSUME NEW k \in 1 .. n PROVE G[1 .. k] = step[<<G[1 .. k - 1], k>>]
  <2>1. 1 .. k \in SUBSET (1 .. n) /\ 1 .. k # {} /\ k \in 1 .. k
    OBVIOUS
  <2>2. Max(1 .. k) = k
    <3>1. 1 .. k \in SUBSET Nat /\ IsFiniteSet(1 .. k)
      BY FS_Interval
    <3>2. Max(1 .. k) \in 1 .. k /\ k <= Max(1 .. k)
      BY <2>1, <3>1, MaxIsLargest
    <3> QED BY <3>2
  <2>3. (1 .. k) \ {k} = 1 .. k - 1
    <3>1. \A x \in 1 .. k : x # k => x \in 1 .. k - 1
      OBVIOUS
    <3>2. \A x \in 1 .. k - 1 : x \in 1 .. k /\ x # k
      OBVIOUS
    <3> QED BY <3>1, <3>2
  <2> QED BY <2>1, <2>2, <2>3 DEF Folds
<1> QED BY <1>1, <1>2 DEF Folds, Walks

(* Of the places of a list the first with the highest number. *)
FirstBest(pts, n, a) ==
  a \in 1 .. n /\ \A b \in 1 .. n : pts[b] < pts[a] \/ (pts[b] = pts[a] /\ a <= b)

LEMMA SomeIsFirstBest ==
  ASSUME NEW n \in Nat \ {0}, NEW pts, \A b \in 1 .. n : pts[b] \in Nat
  PROVE  \E a \in 1 .. n : FirstBest(pts, n, a)
<1> DEFINE S == {k \in 0 .. n : k = 0 \/ \E a \in 1 .. k : FirstBest(pts, k, a)}
<1>1. 0 \in S
  OBVIOUS
<1>2. ASSUME NEW k \in 1 .. n, k - 1 \in S PROVE k \in S
  <2>0. k \in 0 .. n
    OBVIOUS
  <2>1. CASE k = 1
    <3>1. FirstBest(pts, k, 1)
      BY <2>1 DEF FirstBest
    <3> QED BY <2>0, <2>1, <3>1
  <2>2. CASE k # 1
    <3>1. PICK a \in 1 .. k - 1 : FirstBest(pts, k - 1, a)
      BY <1>2, <2>2
    <3>2. \A b \in 1 .. k : b = k \/ b \in 1 .. k - 1
      OBVIOUS
    <3>3. pts[a] \in Nat /\ pts[k] \in Nat /\ a \in 1 .. k
      OBVIOUS
    <3>4. CASE pts[k] > pts[a]
      <4>1. FirstBest(pts, k, k)
        <5> SUFFICES ASSUME NEW b \in 1 .. k
                     PROVE  pts[b] < pts[k] \/ (pts[b] = pts[k] /\ k <= b)
          BY DEF FirstBest
        <5>1. CASE b = k
          BY <5>1
        <5>2. CASE b # k
          <6>1. b \in 1 .. k - 1 /\ pts[b] \in Nat
            BY <3>2, <5>2
          <6>2. pts[b] <= pts[a]
            BY <3>1, <3>3, <6>1 DEF FirstBest
          <6> QED BY <3>3, <3>4, <6>1, <6>2
        <5> QED BY <5>1, <5>2
      <4> QED BY <2>0, <4>1
    <3>5. CASE pts[k] <= pts[a]
      <4>1. FirstBest(pts, k, a)
        BY <3>1, <3>2, <3>3, <3>5 DEF FirstBest
      <4> QED BY <2>0, <3>3, <4>1
    <3> QED BY <3>3, <3>4, <3>5
  <2> QED BY <2>1, <2>2
<1>3. 0 .. n \subseteq S
  <2> HIDE DEF S
  <2> QED BY <1>1, <1>2, CountUp
<1> QED BY <1>3

-----------------------------------------------------------------------------
(***************************************************************************)
(* pm_merge_unique: out grows row by row.                                  *)
(***************************************************************************)
MergeOne(out, row, max) == IF Len(out) < max /\ ~Contains(out, row) THEN Append(out, row) ELSE out

MergedBy(h, X, out, rows, max) ==
  /\ h \in [0 .. Len(rows) -> Seq(X)]
  /\ h[0] = out /\ MergeUnique(out, rows, max) = h[Len(rows)]
  /\ \A k \in 1 .. Len(rows) : h[k] = MergeOne(h[k - 1], rows[k], max)

LEMMA MergeWalks ==
  ASSUME NEW X, NEW out \in Seq(X), NEW rows \in Seq(X), NEW max \in Nat
  PROVE  \E h : MergedBy(h, X, out, rows, max)
<1>1. PICK n \in Nat : n = Len(rows) /\ DOMAIN rows = 1 .. n
  OBVIOUS
<1>2. PICK step : step = [p \in Seq(X) \X (1 .. n) |-> MergeOne(p[1], rows[p[2]], max)]
  OBVIOUS
<1>3. step \in [Seq(X) \X (1 .. n) -> Seq(X)]
  <2> SUFFICES ASSUME NEW acc \in Seq(X), NEW i \in 1 .. n
               PROVE  MergeOne(acc, rows[i], max) \in Seq(X)
    BY <1>2
  <2>1. rows[i] \in X
    BY <1>1
  <2> QED BY <2>1 DEF MergeOne
<1>4. PICK G \in [SUBSET (1 .. n) -> Seq(X)] : Folds(G, n, out, step)
  BY <1>3, FoldRuns
<1> DEFINE Def(g) == [s \in SUBSET (1 .. n) |-> IF s = {} THEN out
                        ELSE MergeOne(g[s \ {Max(s)}], rows[Max(s)], max)]
           Iter == CHOOSE g : g = Def(g)
<1>5. ASSUME NEW s \in SUBSET (1 .. n), s # {}
      PROVE  /\ Max(s) \in 1 .. n /\ s \ {Max(s)} \in SUBSET (1 .. n)
             /\ G[s] = MergeOne(G[s \ {Max(s)}], rows[Max(s)], max)
  <2>1. Max(s) \in 1 .. n /\ s \ {Max(s)} \in SUBSET (1 .. n)
    BY <1>5, PlacesEnd
  <2>2. <<G[s \ {Max(s)}], Max(s)>> \in Seq(X) \X (1 .. n)
    BY <2>1
  <2> QED BY <1>2, <1>4, <1>5, <2>1, <2>2 DEF Folds
<1>6. G = Def(G)
  <2>1. ASSUME NEW s \in SUBSET (1 .. n) PROVE G[s] = Def(G)[s]
    <3>1. CASE s = {}
      BY <1>4, <3>1 DEF Folds
    <3>2. CASE s # {}
      BY <1>5, <3>2
    <3> QED BY <3>1, <3>2
  <2> QED BY <2>1
<1>7. Iter = Def(Iter)
  BY <1>6
<1>8. MergeUnique(out, rows, max) = Iter[1 .. n]
  BY <1>1 DEF MergeUnique, FoldLeft, MapThenFoldSet, MergeOne
<1> HIDE DEF Iter
<1>9. PICK H : H = Iter /\ H = Def(H)
  BY <1>7
<1>10. \A s \in SUBSET (1 .. n) : H[s] = G[s]
  <2>1. H[{}] = G[{}]
    BY <1>6, <1>9
  <2>2. ASSUME NEW s \in SUBSET (1 .. n), s # {}, H[s \ {Max(s)}] = G[s \ {Max(s)}]
        PROVE  H[s] = G[s]
    BY <1>6, <1>9, <2>2
  <2>3. HandedOn(H, G, n)
    BY <2>1, <2>2 DEF HandedOn
  <2> QED BY <2>3, FoldIsOne DEF SameFold
<1>11. PICK h : h = [k \in 0 .. n |-> G[1 .. k]]
  OBVIOUS
<1>12. h[0] = out /\ \A k \in 1 .. n : h[k] = step[<<h[k - 1], k>>]
  <2>1. G[1 .. 0] = out /\ \A k \in 1 .. n : G[1 .. k] = step[<<G[1 .. k - 1], k>>]
    <3>1. Walks(G, n, out, step)
      BY <1>4, FoldWalks
    <3> QED BY <3>1 DEF Walks
  <2>2. 0 \in 0 .. n /\ \A k \in 1 .. n : k \in 0 .. n /\ k - 1 \in 0 .. n
    OBVIOUS
  <2> QED BY <1>11, <2>1, <2>2
<1>13. h \in [0 .. n -> Seq(X)]
  <2>1. \A k \in 0 .. n : 1 .. k \in SUBSET (1 .. n)
    OBVIOUS
  <2> QED BY <1>4, <1>11, <2>1
<1>14. h[n] = MergeUnique(out, rows, max)
  <2>1. n \in 0 .. n /\ 1 .. n \in SUBSET (1 .. n)
    OBVIOUS
  <2> QED BY <1>8, <1>9, <1>10, <1>11, <2>1
<1>15. ASSUME NEW k \in 1 .. n PROVE h[k] = MergeOne(h[k - 1], rows[k], max)
  <2>1. k - 1 \in 0 .. n
    OBVIOUS
  <2>2. <<h[k - 1], k>> \in Seq(X) \X (1 .. n)
    BY <1>13, <2>1
  <2> QED BY <1>2, <1>12, <2>2
<1> QED BY <1>1, <1>12, <1>13, <1>14, <1>15 DEF MergedBy

(* What out has become of after the first k rows. *)
Grown(out, rows, k, max, m) ==
  /\ IsInjective(m) /\ Len(m) <= max
  /\ Len(out) <= Len(m) /\ \A i \in 1 .. Len(out) : m[i] = out[i]
  /\ \A i \in 1 .. Len(m) : i > Len(out) => \E j \in 1 .. k : m[i] = rows[j]
  /\ Len(m) < max => \A j \in 1 .. k : Contains(m, rows[j])

LEMMA MergeOneGrows ==
  ASSUME NEW X, NEW out \in Seq(X), NEW rows \in Seq(X), NEW max \in Nat,
         NEW k \in 1 .. Len(rows), NEW m \in Seq(X), Grown(out, rows, k - 1, max, m)
  PROVE  Grown(out, rows, k, max, MergeOne(m, rows[k], max))
<1> DEFINE r == rows[k]
<1>0. r \in X
  OBVIOUS
<1>1. CASE Len(m) < max /\ ~Contains(m, r)
  <2>1. PICK t : t = Append(m, r)
    OBVIOUS
  <2>2. /\ t \in Seq(X) /\ Len(t) = Len(m) + 1 /\ t[Len(m) + 1] = r
        /\ \A i \in 1 .. Len(m) : t[i] = m[i]
    BY <1>0, <2>1
  <2>3. \A i \in 1 .. Len(m) : t[i] # r
    BY <1>1, <2>2 DEF Contains
  <2>4. IsInjective(t)
    <3>1. \A i, j \in 1 .. Len(m) : m[i] = m[j] => i = j
      BY DEF Grown, IsInjective
    <3>2. ASSUME NEW i \in 1 .. Len(t), NEW j \in 1 .. Len(t), t[i] = t[j] PROVE i = j
      <4>1. (i \in 1 .. Len(m) \/ i = Len(m) + 1) /\ (j \in 1 .. Len(m) \/ j = Len(m) + 1)
        BY <2>2
      <4> QED BY <2>2, <2>3, <3>1, <3>2, <4>1
    <3> QED BY <2>2, <3>2 DEF IsInjective
  <2>5. Len(t) <= max /\ Len(out) <= Len(t) /\ \A i \in 1 .. Len(out) : t[i] = out[i]
    <3>1. Len(out) <= Len(m) /\ \A i \in 1 .. Len(out) : m[i] = out[i]
      BY DEF Grown
    <3>2. \A i \in 1 .. Len(out) : i \in 1 .. Len(m)
      BY <3>1
    <3> QED BY <1>1, <2>2, <3>1, <3>2
  <2>6. ASSUME NEW i \in 1 .. Len(t), i > Len(out) PROVE \E j \in 1 .. k : t[i] = rows[j]
    <3>1. CASE i \in 1 .. Len(m)
      <4>1. PICK j \in 1 .. k - 1 : m[i] = rows[j]
        BY <2>6, <3>1 DEF Grown
      <4>2. j \in 1 .. k
        OBVIOUS
      <4> QED BY <2>2, <3>1, <4>1, <4>2
    <3>2. CASE i = Len(m) + 1
      BY <2>2, <3>2
    <3> QED BY <2>2, <3>1, <3>2
  <2>7. ASSUME Len(t) < max, NEW j \in 1 .. k PROVE Contains(t, rows[j])
    <3>1. CASE j = k
      BY <2>2, <3>1 DEF Contains
    <3>2. CASE j # k
      <4>1. j \in 1 .. k - 1
        BY <3>2
      <4>2. Contains(m, rows[j])
        BY <1>1, <4>1 DEF Grown
      <4>3. PICK i \in 1 .. Len(m) : m[i] = rows[j]
        BY <4>2 DEF Contains
      <4>4. i \in 1 .. Len(t)
        BY <2>2
      <4> QED BY <2>2, <4>3, <4>4 DEF Contains
    <3> QED BY <3>1, <3>2
  <2>8. Grown(out, rows, k, max, t)
    BY <2>4, <2>5, <2>6, <2>7 DEF Grown
  <2> QED BY <1>1, <2>1, <2>8 DEF MergeOne
<1>2. CASE ~(Len(m) < max /\ ~Contains(m, r))
  <2>1. ASSUME NEW i \in 1 .. Len(m), i > Len(out) PROVE \E j \in 1 .. k : m[i] = rows[j]
    <3>1. PICK j \in 1 .. k - 1 : m[i] = rows[j]
      BY <2>1 DEF Grown
    <3>2. j \in 1 .. k
      OBVIOUS
    <3> QED BY <3>1, <3>2
  <2>2. ASSUME Len(m) < max, NEW j \in 1 .. k PROVE Contains(m, rows[j])
    <3>1. CASE j = k
      BY <1>2, <2>2, <3>1
    <3>2. CASE j # k
      <4>1. j \in 1 .. k - 1
        BY <3>2
      <4> QED BY <2>2, <4>1 DEF Grown
    <3> QED BY <3>1, <3>2
  <2>3. Grown(out, rows, k, max, m)
    BY <2>1, <2>2 DEF Grown
  <2> QED BY <1>2, <2>3 DEF MergeOne
<1> QED BY <1>1, <1>2

LEMMA MergeGrows ==
  ASSUME NEW X, NEW out \in Seq(X), NEW rows \in Seq(X), NEW max \in Nat,
         IsInjective(out), Len(out) <= max
  PROVE  /\ MergeUnique(out, rows, max) \in Seq(X)
         /\ Grown(out, rows, Len(rows), max, MergeUnique(out, rows, max))
<1>0. PICK h : MergedBy(h, X, out, rows, max)
  BY MergeWalks
<1>1. /\ h \in [0 .. Len(rows) -> Seq(X)]
      /\ h[0] = out /\ MergeUnique(out, rows, max) = h[Len(rows)]
      /\ \A k \in 1 .. Len(rows) : h[k] = MergeOne(h[k - 1], rows[k], max)
  BY <1>0 DEF MergedBy
<1>2. PICK n \in Nat : n = Len(rows)
  OBVIOUS
<1> DEFINE S == {k \in 0 .. n : Grown(out, rows, k, max, h[k])}
<1>3. 0 \in S
  <2>1. Grown(out, rows, 0, max, out)
    BY DEF Grown
  <2> QED BY <1>1, <2>1
<1>4. ASSUME NEW k \in 1 .. n, k - 1 \in S PROVE k \in S
  <2>1. k - 1 \in 0 .. n /\ k \in 0 .. n /\ k \in 1 .. Len(rows)
    BY <1>2
  <2>2. h[k - 1] \in Seq(X) /\ Grown(out, rows, k - 1, max, h[k - 1])
    BY <1>1, <1>2, <1>4, <2>1
  <2>3. Grown(out, rows, k, max, MergeOne(h[k - 1], rows[k], max))
    BY <2>1, <2>2, MergeOneGrows
  <2> QED BY <1>1, <2>1, <2>3
<1>5. n \in S
  <2> HIDE DEF S
  <2>1. 0 .. n \subseteq S
    BY <1>3, <1>4, CountUp
  <2> QED BY <2>1
<1> QED BY <1>1, <1>2, <1>5

LEMMA ElementsOf == ASSUME NEW X, NEW s \in Seq(X) PROVE \A i \in 1 .. Len(s) : s[i] \in X
OBVIOUS

LEMMA UptoCounts == ASSUME NEW k \in Nat PROVE IsFiniteSet(1 .. k) /\ Cardinality(1 .. k) = k
BY FS_Interval

(***************************************************************************)
(* A stage that asks for max rows adds what all its rows would: when it    *)
(* leaves some out, max different rows fill the list.                      *)
(***************************************************************************)
LEMMA EnoughRowsFill ==
  ASSUME NEW X, NEW rows \in Seq(X), IsInjective(rows), NEW max \in Nat, max <= Len(rows),
         NEW m \in Seq(X), \A j \in 1 .. max : Contains(m, rows[j])
  PROVE  Len(m) >= max
<1> SUFFICES ASSUME Len(m) < max PROVE FALSE
  OBVIOUS
<1> DEFINE place == [j \in 1 .. max |-> CHOOSE i \in 1 .. Len(m) : m[i] = rows[j]]
<1>1. ASSUME NEW j \in 1 .. max PROVE place[j] \in 1 .. Len(m) /\ m[place[j]] = rows[j]
  BY DEF Contains
<1>2. place \in [1 .. max -> 1 .. Len(m)]
  BY <1>1
<1>3. /\ IsFiniteSet(1 .. max) /\ Cardinality(1 .. max) = max
      /\ IsFiniteSet(1 .. Len(m)) /\ Cardinality(1 .. Len(m)) = Len(m)
  <2>1. Len(m) \in Nat
    OBVIOUS
  <2> HIDE DEF place
  <2> QED BY <2>1, UptoCounts
<1>4. PICK i \in 1 .. max, j \in 1 .. max : i # j /\ place[i] = place[j]
  <2>1. Cardinality(1 .. Len(m)) < Cardinality(1 .. max)
    BY <1>3
  <2> HIDE DEF place
  <2> QED BY <1>2, <1>3, <2>1, FS_PigeonHole
<1>5. rows[i] = rows[j]
  <2> HIDE DEF place
  <2> QED BY <1>1, <1>4
<1>6. i \in DOMAIN rows /\ j \in DOMAIN rows
  OBVIOUS
<1> QED BY <1>4, <1>5, <1>6 DEF IsInjective

LEMMA FirstRowsAre ==
  ASSUME NEW X, NEW rows \in Seq(X), NEW n \in Nat
  PROVE  /\ FirstRows(rows, n) \in Seq(X)
         /\ Len(FirstRows(rows, n)) = IF Len(rows) < n THEN Len(rows) ELSE n
         /\ \A i \in 1 .. Len(FirstRows(rows, n)) : FirstRows(rows, n)[i] = rows[i]
<1>1. PICK k \in 0 .. Len(rows) : k = IF Len(rows) < n THEN Len(rows) ELSE n
  OBVIOUS
<1>2. PICK t : t = SubSeq(rows, 1, k)
  OBVIOUS
<1>3. t \in Seq(X)
  BY <1>1, <1>2
<1>4. Len(t) = k
  BY <1>1, <1>2
<1>5. \A i \in 1 .. k : t[i] = rows[i]
  BY <1>1, <1>2
<1> QED BY <1>1, <1>2, <1>3, <1>4, <1>5 DEF FirstRows

LEMMA StageGrows ==
  ASSUME NEW X, NEW out \in Seq(X), NEW rows \in Seq(X), NEW max \in Nat,
         IsInjective(out), IsInjective(rows), Len(out) <= max
  PROVE  /\ Stage(out, rows, max) \in Seq(X)
         /\ Grown(out, rows, Len(rows), max, Stage(out, rows, max))
<1>1. CASE Len(out) < max
  <2>1. PICK first : first = FirstRows(rows, max)
    OBVIOUS
  <2>2. /\ first \in Seq(X) /\ Len(first) = IF Len(rows) < max THEN Len(rows) ELSE max
        /\ \A i \in 1 .. Len(first) : first[i] = rows[i]
    BY <2>1, FirstRowsAre
  <2>3. PICK m : m = MergeUnique(out, first, max)
    OBVIOUS
  <2>4. m \in Seq(X) /\ Grown(out, first, Len(first), max, m)
    BY <2>2, <2>3, MergeGrows
  <2>5. ASSUME NEW i \in 1 .. Len(m), i > Len(out) PROVE \E j \in 1 .. Len(rows) : m[i] = rows[j]
    <3>1. PICK j \in 1 .. Len(first) : m[i] = first[j]
      BY <2>4, <2>5 DEF Grown
    <3>2. j \in 1 .. Len(rows)
      BY <2>2
    <3> QED BY <2>2, <3>1, <3>2
  <2>6. ASSUME Len(m) < max, NEW j \in 1 .. Len(rows) PROVE Contains(m, rows[j])
    <3>1. CASE Len(rows) < max
      <4>1. j \in 1 .. Len(first)
        BY <2>2, <3>1
      <4> QED BY <2>2, <2>4, <2>6, <4>1 DEF Grown
    <3>2. CASE ~(Len(rows) < max)
      <4>1. max <= Len(rows) /\ Len(first) = max
        BY <2>2, <3>2
      <4>2. \A i \in 1 .. max : Contains(m, rows[i])
        <5>1. \A i \in 1 .. Len(first) : Contains(m, first[i])
          BY <2>4, <2>6 DEF Grown
        <5> QED BY <2>2, <4>1, <5>1
      <4>3. Len(m) >= max
        BY <2>4, <4>1, <4>2, EnoughRowsFill
      <4>4. Len(m) \in Nat
        BY <2>4
      <4> QED BY <2>6, <4>3, <4>4
    <3> QED BY <3>1, <3>2
  <2>7. Grown(out, rows, Len(rows), max, m)
    BY <2>4, <2>5, <2>6 DEF Grown
  <2>8. Stage(out, rows, max) = m
    BY <1>1, <2>1, <2>3 DEF Stage
  <2> QED BY <2>4, <2>7, <2>8
<1>2. CASE ~(Len(out) < max)
  <2>1. Stage(out, rows, max) = out
    BY <1>2 DEF Stage
  <2>2. \A i \in 1 .. Len(out) : ~(i > Len(out))
    OBVIOUS
  <2>3. Grown(out, rows, Len(rows), max, out)
    BY <1>2, <2>2 DEF Grown
  <2> QED BY <2>1, <2>3
<1> QED BY <1>1, <1>2

(***************************************************************************)
(* The list after the first k stages: every row once, from those stages,   *)
(* all of theirs unless it is full, and in the order of the first stage    *)
(* that has them.                                                          *)
(***************************************************************************)
Matched(out, stages, k, max) ==
  /\ IsInjective(out) /\ Len(out) <= max
  /\ \A i \in 1 .. Len(out) : \E p \in 1 .. k : Contains(stages[p], out[i])
  /\ Len(out) < max =>
       \A p \in 1 .. k : \A j \in 1 .. Len(stages[p]) : Contains(out, stages[p][j])
  /\ \A i, j \in 1 .. Len(out), q \in 1 .. k :
       i < j /\ Contains(stages[q], out[j]) => \E p \in 1 .. q : Contains(stages[p], out[i])

LEMMA StageMatches ==
  ASSUME NEW X, NEW stages \in Seq(Seq(X)), NEW max \in Nat, NEW k \in 1 .. Len(stages),
         NEW out \in Seq(X), Matched(out, stages, k - 1, max),
         NEW m \in Seq(X), Grown(out, stages[k], Len(stages[k]), max, m)
  PROVE  Matched(m, stages, k, max)
<1> DEFINE rows == stages[k]
<1>0. rows \in Seq(X) /\ Len(out) \in Nat /\ Len(m) \in Nat /\ Len(rows) \in Nat
  OBVIOUS
<1>1. /\ IsInjective(m) /\ Len(m) <= max /\ Len(out) <= Len(m)
      /\ \A i \in 1 .. Len(out) : m[i] = out[i]
  BY DEF Grown
<1>2. ASSUME NEW i \in 1 .. Len(m)
      PROVE  \/ i \in 1 .. Len(out) /\ m[i] = out[i]
             \/ i > Len(out) /\ Contains(rows, m[i])
  <2>1. CASE i > Len(out)
    BY <2>1 DEF Grown, Contains
  <2>2. CASE ~(i > Len(out))
    <3>1. i \in 1 .. Len(out)
      BY <1>0, <2>2
    <3> QED BY <1>1, <3>1
  <2> QED BY <2>1, <2>2
<1>3. ASSUME NEW i \in 1 .. Len(m) PROVE \E p \in 1 .. k : Contains(stages[p], m[i])
  <2>1. CASE i \in 1 .. Len(out) /\ m[i] = out[i]
    <3>1. PICK p \in 1 .. k - 1 : Contains(stages[p], out[i])
      BY <2>1 DEF Matched
    <3>2. p \in 1 .. k
      OBVIOUS
    <3> QED BY <2>1, <3>1, <3>2
  <2>2. CASE Contains(rows, m[i])
    BY <2>2
  <2> QED BY <1>2, <2>1, <2>2
<1>4. ASSUME Len(m) < max, NEW p \in 1 .. k, NEW j \in 1 .. Len(stages[p])
      PROVE  Contains(m, stages[p][j])
  <2>1. CASE p = k
    BY <1>4, <2>1 DEF Grown
  <2>2. CASE p # k
    <3>1. p \in 1 .. k - 1
      BY <2>2
    <3>2. Len(out) < max
      BY <1>0, <1>1, <1>4
    <3>3. Contains(out, stages[p][j])
      BY <3>1, <3>2 DEF Matched
    <3>4. PICK i \in 1 .. Len(out) : out[i] = stages[p][j]
      BY <3>3 DEF Contains
    <3>5. i \in 1 .. Len(m)
      BY <1>0, <1>1
    <3> QED BY <1>1, <3>4, <3>5 DEF Contains
  <2> QED BY <2>1, <2>2
<1>5. ASSUME NEW i \in 1 .. Len(m), NEW j \in 1 .. Len(m), NEW q \in 1 .. k,
             i < j, Contains(stages[q], m[j])
      PROVE  \E p \in 1 .. q : Contains(stages[p], m[i])
  <2>1. CASE q = k
    BY <1>3, <2>1
  <2>2. CASE q # k
    <3>1. q \in 1 .. k - 1
      BY <2>2
    <3>2. j \in 1 .. Len(out)
      <4> SUFFICES ASSUME j > Len(out) PROVE FALSE
        BY <1>0
      <4>1. Len(out) < max
        BY <1>0, <1>1
      <4>2. PICK l \in 1 .. Len(stages[q]) : stages[q][l] = m[j]
        BY <1>5 DEF Contains
      <4>3. Contains(out, m[j])
        BY <3>1, <4>1, <4>2 DEF Matched
      <4>4. PICK l2 \in 1 .. Len(out) : out[l2] = m[j]
        BY <4>3 DEF Contains
      <4>5. l2 \in 1 .. Len(m) /\ m[l2] = m[j] /\ l2 # j
        BY <1>0, <1>1, <4>4
      <4> QED BY <1>1, <4>5 DEF IsInjective
    <3>3. i \in 1 .. Len(out)
      BY <1>0, <1>5, <3>2
    <3> QED BY <1>1, <1>5, <3>1, <3>2, <3>3 DEF Matched
  <2> QED BY <2>1, <2>2
<1> QED BY <1>1, <1>3, <1>4, <1>5 DEF Matched

(* The order of the first stages is the order of the list: what WellMatched asks for. *)
LEMMA MatchedWell ==
  ASSUME NEW X, NEW stages \in Seq(Seq(X)), NEW max \in Nat, NEW out \in Seq(X),
         Matched(out, stages, Len(stages), max)
  PROVE  WellMatched(out, stages, max)
<1> DEFINE n == Len(stages)
           Found == UNION {ToSet(stages[i]) : i \in DOMAIN stages}
           First(row, i) == /\ Contains(stages[i], row)
                            /\ \A j \in DOMAIN stages : Contains(stages[j], row) => i <= j
           rank(row) == CHOOSE i \in DOMAIN stages : First(row, i)
<1>0. n \in Nat /\ DOMAIN stages = 1 .. n /\ Len(out) \in Nat
  OBVIOUS
<1>1. ASSUME NEW i \in 1 .. Len(out)
      PROVE  rank(out[i]) \in 1 .. n /\ First(out[i], rank(out[i]))
  <2> DEFINE In == {p \in 1 .. n : Contains(stages[p], out[i])}
  <2>1. In # {} /\ In \in SUBSET Nat
    <3>1. \E p \in 1 .. n : Contains(stages[p], out[i])
      BY DEF Matched
    <3>2. PICK p \in 1 .. n : Contains(stages[p], out[i])
      BY <3>1
    <3>3. \A q \in 1 .. n : q \in Nat
      BY <1>0
    <3>4. p \in In
      BY <3>2
    <3> QED BY <3>3, <3>4
  <2>2. PICK p \in In : \A q \in In : p <= q
    <3> HIDE DEF In
    <3> QED BY <2>1, LeastNumber
  <2>3. p \in DOMAIN stages /\ First(out[i], p)
    BY <1>0, <2>2
  <2> QED BY <1>0, <2>3
<1>2. ASSUME NEW i \in DOMAIN out, NEW j \in DOMAIN out, i < j
      PROVE  rank(out[i]) <= rank(out[j])
  <2>1. /\ i \in 1 .. Len(out) /\ j \in 1 .. Len(out)
        /\ rank(out[j]) \in 1 .. n /\ Contains(stages[rank(out[j])], out[j])
    <3>1. i \in 1 .. Len(out) /\ j \in 1 .. Len(out)
      BY <1>0
    <3>2. rank(out[j]) \in 1 .. n /\ First(out[j], rank(out[j]))
      BY <1>1, <3>1
    <3> HIDE DEF rank
    <3> QED BY <3>1, <3>2
  <2>2. PICK p \in 1 .. rank(out[j]) : Contains(stages[p], out[i])
    <3> HIDE DEF rank
    <3> QED BY <1>2, <2>1 DEF Matched
  <2>3. p \in DOMAIN stages
    BY <1>0, <2>1
  <2>4. rank(out[i]) \in 1 .. n /\ First(out[i], rank(out[i]))
    BY <1>1, <2>1
  <2>5. rank(out[i]) <= p
    BY <2>2, <2>3, <2>4
  <2> HIDE DEF rank
  <2> QED BY <2>1, <2>2, <2>4, <2>5
<1>3. ToSet(out) \subseteq Found
  <2> SUFFICES ASSUME NEW i \in DOMAIN out PROVE out[i] \in Found
    BY DEF ToSet
  <2>0. i \in 1 .. Len(out)
    BY <1>0
  <2>1. PICK p \in 1 .. n : Contains(stages[p], out[i])
    BY <2>0 DEF Matched
  <2>2. stages[p] \in Seq(X)
    BY <1>0
  <2>3. out[i] \in ToSet(stages[p])
    BY <2>1, <2>2 DEF Contains, ToSet
  <2> QED BY <1>0, <2>3
<1>4. ASSUME Len(out) < max PROVE Found \subseteq ToSet(out)
  <2> SUFFICES ASSUME NEW p \in 1 .. n, NEW j \in DOMAIN stages[p] PROVE stages[p][j] \in ToSet(out)
    BY <1>0 DEF ToSet
  <2>1. stages[p] \in Seq(X)
    BY <1>0
  <2>2. j \in 1 .. Len(stages[p])
    BY <2>1
  <2>3. Contains(out, stages[p][j])
    BY <1>4, <2>2 DEF Matched
  <2> QED BY <2>3 DEF Contains, ToSet
<1>5. IsInjective(out) /\ Len(out) <= max
  BY DEF Matched
<1> HIDE DEF n
<1> QED BY <1>2, <1>3, <1>4, <1>5 DEF WellMatched

(* pm_match and ed_match: one stage after the other. *)
StagedBy(h, X, stages, max) ==
  /\ h \in [0 .. Len(stages) -> Seq(X)]
  /\ h[0] = <<>> /\ Staged(stages, max) = h[Len(stages)]
  /\ \A k \in 1 .. Len(stages) : h[k] = Stage(h[k - 1], stages[k], max)

LEMMA StagedWalks ==
  ASSUME NEW X, NEW max \in Nat, NEW stages \in Seq(Seq(X)),
         \A out \in Seq(X), i \in 1 .. Len(stages) : Stage(out, stages[i], max) \in Seq(X)
  PROVE  \E h : StagedBy(h, X, stages, max)
<1>1. PICK n \in Nat : n = Len(stages) /\ DOMAIN stages = 1 .. n
  OBVIOUS
<1>2. PICK step : step = [p \in Seq(X) \X (1 .. n) |-> Stage(p[1], stages[p[2]], max)]
  OBVIOUS
<1>3. step \in [Seq(X) \X (1 .. n) -> Seq(X)]
  BY <1>1, <1>2
<1>4. PICK G \in [SUBSET (1 .. n) -> Seq(X)] : Folds(G, n, <<>>, step)
  <2>1. <<>> \in Seq(X)
    OBVIOUS
  <2>2. PICK none \in Seq(X) : none = <<>>
    BY <2>1
  <2>3. \E G \in [SUBSET (1 .. n) -> Seq(X)] : Folds(G, n, none, step)
    BY <1>3, FoldRuns
  <2> QED BY <2>2, <2>3
<1> DEFINE Def(g) == [s \in SUBSET (1 .. n) |-> IF s = {} THEN <<>>
                        ELSE Stage(g[s \ {Max(s)}], stages[Max(s)], max)]
           Iter == CHOOSE g : g = Def(g)
<1>5. ASSUME NEW s \in SUBSET (1 .. n), s # {}
      PROVE  /\ Max(s) \in 1 .. n /\ s \ {Max(s)} \in SUBSET (1 .. n)
             /\ G[s] = Stage(G[s \ {Max(s)}], stages[Max(s)], max)
  <2>1. Max(s) \in 1 .. n /\ s \ {Max(s)} \in SUBSET (1 .. n)
    BY <1>5, PlacesEnd
  <2>2. <<G[s \ {Max(s)}], Max(s)>> \in Seq(X) \X (1 .. n)
    BY <2>1
  <2> QED BY <1>2, <1>4, <1>5, <2>1, <2>2 DEF Folds
<1>6. G = Def(G)
  <2>1. ASSUME NEW s \in SUBSET (1 .. n) PROVE G[s] = Def(G)[s]
    <3>1. CASE s = {}
      BY <1>4, <3>1 DEF Folds
    <3>2. CASE s # {}
      BY <1>5, <3>2
    <3> QED BY <3>1, <3>2
  <2> QED BY <2>1
<1>7. Iter = Def(Iter)
  BY <1>6
<1>8. Staged(stages, max) = Iter[1 .. n]
  BY <1>1 DEF Staged, FoldLeft, MapThenFoldSet
<1> HIDE DEF Iter
<1>9. PICK H : H = Iter /\ H = Def(H)
  BY <1>7
<1>10. \A s \in SUBSET (1 .. n) : H[s] = G[s]
  <2>1. H[{}] = G[{}]
    BY <1>6, <1>9
  <2>2. ASSUME NEW s \in SUBSET (1 .. n), s # {}, H[s \ {Max(s)}] = G[s \ {Max(s)}]
        PROVE  H[s] = G[s]
    BY <1>6, <1>9, <2>2
  <2>3. HandedOn(H, G, n)
    BY <2>1, <2>2 DEF HandedOn
  <2> QED BY <2>3, FoldIsOne DEF SameFold
<1>11. PICK h : h = [k \in 0 .. n |-> G[1 .. k]]
  OBVIOUS
<1>12. h[0] = <<>> /\ \A k \in 1 .. n : h[k] = step[<<h[k - 1], k>>]
  <2>1. G[1 .. 0] = <<>> /\ \A k \in 1 .. n : G[1 .. k] = step[<<G[1 .. k - 1], k>>]
    <3>1. Walks(G, n, <<>>, step)
      BY <1>4, FoldWalks
    <3> QED BY <3>1 DEF Walks
  <2>2. 0 \in 0 .. n /\ \A k \in 1 .. n : k \in 0 .. n /\ k - 1 \in 0 .. n
    OBVIOUS
  <2> QED BY <1>11, <2>1, <2>2
<1>13. h \in [0 .. n -> Seq(X)]
  <2>1. \A k \in 0 .. n : 1 .. k \in SUBSET (1 .. n)
    OBVIOUS
  <2> QED BY <1>4, <1>11, <2>1
<1>14. h[n] = Staged(stages, max)
  <2>1. n \in 0 .. n /\ 1 .. n \in SUBSET (1 .. n)
    OBVIOUS
  <2> QED BY <1>8, <1>9, <1>10, <1>11, <2>1
<1>15. ASSUME NEW k \in 1 .. n PROVE h[k] = Stage(h[k - 1], stages[k], max)
  <2>1. k - 1 \in 0 .. n
    OBVIOUS
  <2>2. <<h[k - 1], k>> \in Seq(X) \X (1 .. n)
    BY <1>13, <2>1
  <2> QED BY <1>2, <1>12, <2>2
<1> QED BY <1>1, <1>12, <1>13, <1>14, <1>15 DEF StagedBy

(* What the stages of lists without repetitions come to. *)
LEMMA StagedMatches ==
  ASSUME NEW X, NEW max \in Nat, NEW stages \in Seq(Seq(X)),
         \A i \in 1 .. Len(stages) : IsInjective(stages[i])
  PROVE  /\ Staged(stages, max) \in Seq(X)
         /\ Matched(Staged(stages, max), stages, Len(stages), max)
<1>1. PICK n \in Nat : n = Len(stages)
  OBVIOUS
<1>2. ASSUME NEW out \in Seq(X), NEW i \in 1 .. n PROVE Stage(out, stages[i], max) \in Seq(X)
  <2>1. stages[i] \in Seq(X)
    BY <1>1
  <2>2. PICK first : first = FirstRows(stages[i], max) /\ first \in Seq(X)
    BY <2>1, FirstRowsAre
  <2>3. MergeUnique(out, first, max) \in Seq(X)
    <3>1. PICK h : MergedBy(h, X, out, first, max)
      BY <2>2, MergeWalks
    <3>2. h \in [0 .. Len(first) -> Seq(X)] /\ MergeUnique(out, first, max) = h[Len(first)]
      BY <3>1 DEF MergedBy
    <3>3. Len(first) \in 0 .. Len(first)
      BY <2>2
    <3> QED BY <3>2, <3>3
  <2> QED BY <2>2, <2>3 DEF Stage
<1>3. PICK h : StagedBy(h, X, stages, max)
  BY <1>1, <1>2, StagedWalks
<1>4. /\ h \in [0 .. n -> Seq(X)] /\ h[0] = <<>> /\ Staged(stages, max) = h[n]
      /\ \A k \in 1 .. n : h[k] = Stage(h[k - 1], stages[k], max)
  BY <1>1, <1>3 DEF StagedBy
<1> DEFINE S == {k \in 0 .. n : Matched(h[k], stages, k, max)}
<1>5. 0 \in S
  <2>1. Matched(<<>>, stages, 0, max)
    BY DEF Matched, IsInjective
  <2> QED BY <1>4, <2>1
<1>6. ASSUME NEW k \in 1 .. n, k - 1 \in S PROVE k \in S
  <2>1. k - 1 \in 0 .. n /\ k \in 0 .. n /\ k \in 1 .. Len(stages)
    BY <1>1
  <2>2. PICK out \in Seq(X) : out = h[k - 1] /\ Matched(out, stages, k - 1, max)
    BY <1>4, <1>6, <2>1
  <2>3. stages[k] \in Seq(X) /\ IsInjective(stages[k])
    BY <1>1
  <2>4. IsInjective(out) /\ Len(out) <= max
    BY <2>2 DEF Matched
  <2>5. PICK m : m = Stage(out, stages[k], max)
    OBVIOUS
  <2>6. m \in Seq(X) /\ Grown(out, stages[k], Len(stages[k]), max, m)
    BY <2>3, <2>4, <2>5, StageGrows
  <2>7. Matched(m, stages, k, max)
    BY <2>1, <2>2, <2>6, StageMatches
  <2> QED BY <1>4, <2>1, <2>2, <2>5, <2>7
<1>7. 0 .. n \subseteq S
  <2> HIDE DEF S
  <2> QED BY <1>5, <1>6, CountUp
<1> QED BY <1>1, <1>4, <1>7

LEMMA FunctionsAreLists == ASSUME NEW S, NEW n \in Nat, NEW w \in [1 .. n -> S] PROVE w \in Seq(S)
OBVIOUS

(* A list of all the rows of a set, in some order. *)
LEMMA OrdersAreLists ==
  ASSUME NEW X, NEW S \in SUBSET X, IsFiniteSet(S), NEW r \in SetToSeqs(S)
  PROVE  r \in Seq(X) /\ IsInjective(r) /\ Len(r) = Cardinality(S) /\ ToSet(r) \subseteq S
<1>1. PICK n \in Nat : n = Cardinality(S)
  BY FS_CardinalityType
<1>2. r \in [1 .. n -> S] /\ \A i, j \in 1 .. n : i # j => r[i] # r[j]
  BY <1>1 DEF SetToSeqs
<1>3. r \in [1 .. n -> X]
  BY <1>2
<1>4. r \in Seq(X) /\ Len(r) = n
  BY <1>3, FunctionsAreLists
<1>5. IsInjective(r) /\ ToSet(r) \subseteq S
  BY <1>2 DEF IsInjective, ToSet
<1> QED BY <1>1, <1>4, <1>5

(* A walk that hands something on from step to step. *)
Walked(h, T, n, base, step) ==
  /\ h \in [0 .. n -> T]
  /\ h[0] = base /\ \A k \in 1 .. n : h[k] = step[<<h[k - 1], k>>]

LEMMA WalkRuns ==
  ASSUME NEW T, NEW n \in Nat, NEW base \in T, NEW step \in [T \X (1 .. n) -> T]
  PROVE  \E h : Walked(h, T, n, base, step)
<1>1. PICK G \in [SUBSET (1 .. n) -> T] : Folds(G, n, base, step)
  BY FoldRuns
<1>2. G[1 .. 0] = base /\ \A k \in 1 .. n : G[1 .. k] = step[<<G[1 .. k - 1], k>>]
  <2>1. Walks(G, n, base, step)
    BY <1>1, FoldWalks
  <2> QED BY <2>1 DEF Walks
<1>3. PICK h : h = [k \in 0 .. n |-> G[1 .. k]]
  OBVIOUS
<1>4. h[0] = base /\ \A k \in 1 .. n : h[k] = step[<<h[k - 1], k>>]
  <2>1. 0 \in 0 .. n /\ \A k \in 1 .. n : k \in 0 .. n /\ k - 1 \in 0 .. n
    OBVIOUS
  <2> QED BY <1>2, <1>3, <2>1
<1>5. h \in [0 .. n -> T]
  <2>1. \A k \in 0 .. n : 1 .. k \in SUBSET (1 .. n)
    OBVIOUS
  <2> QED BY <1>1, <1>3, <2>1
<1> QED BY <1>4, <1>5 DEF Walked

(* What a list adds up to, place by place. *)
Sums(g, list, n) == g \in [0 .. n -> Nat] /\ g[0] = 0 /\ \A k \in 1 .. n : g[k] = g[k - 1] + list[k]

LEMMA TotalWalks ==
  ASSUME NEW list \in Seq(Nat)
  PROVE  \E g : Sums(g, list, Len(list)) /\ Total(list) = g[Len(list)]
<1>1. PICK n \in Nat : n = Len(list) /\ \A i \in 1 .. n : list[i] \in Nat
  OBVIOUS
<1>2. PICK step : step = [p \in Nat \X (1 .. n) |-> p[1] + list[p[2]]]
  OBVIOUS
<1>3. step \in [Nat \X (1 .. n) -> Nat]
  BY <1>1, <1>2
<1>4. PICK h : Walked(h, Nat, n, 0, step)
  BY <1>3, WalkRuns
<1>5. Sums(h, list, n)
  <2>1. h \in [0 .. n -> Nat] /\ h[0] = 0 /\ \A k \in 1 .. n : h[k] = step[<<h[k - 1], k>>]
    BY <1>4 DEF Walked
  <2>2. ASSUME NEW k \in 1 .. n PROVE h[k] = h[k - 1] + list[k]
    <3>1. k - 1 \in 0 .. n
      OBVIOUS
    <3>2. <<h[k - 1], k>> \in Nat \X (1 .. n)
      BY <2>1, <3>1
    <3> QED BY <1>2, <2>1, <3>2
  <2> QED BY <2>1, <2>2 DEF Sums
<1> DEFINE Body(g) == [k \in 0 .. n |-> IF k = 0 THEN 0 ELSE g[k - 1] + list[k]]
           upto == CHOOSE g : g = Body(g)
<1>6. h = Body(h)
  <2>1. \A k \in 0 .. n : k = 0 \/ k \in 1 .. n
    OBVIOUS
  <2> QED BY <1>5, <2>1 DEF Sums
<1>7. upto = Body(upto)
  BY <1>6
<1>8. Total(list) = upto[n]
  BY <1>1 DEF Total
<1> HIDE DEF upto
<1>9. PICK u : u = upto /\ u = Body(u)
  BY <1>7
<1> DEFINE S == {k \in 0 .. n : u[k] = h[k]}
<1>10. 0 \in S
  BY <1>5, <1>9 DEF Sums
<1>11. ASSUME NEW k \in 1 .. n, k - 1 \in S PROVE k \in S
  <2>1. k \in 0 .. n /\ k # 0
    OBVIOUS
  <2>2. u[k] = u[k - 1] + list[k]
    BY <1>9, <2>1
  <2>3. u[k - 1] = h[k - 1] /\ h[k] = h[k - 1] + list[k]
    BY <1>5, <1>11 DEF Sums
  <2> QED BY <2>1, <2>2, <2>3
<1>12. n \in S
  <2>1. 0 .. n \subseteq S
    <3> HIDE DEF S
    <3> QED BY <1>10, <1>11, CountUp
  <2> HIDE DEF S
  <2> QED BY <2>1
<1>13. Total(list) = h[n]
  BY <1>8, <1>9, <1>12
<1> QED BY <1>1, <1>5, <1>13

LEMMA SumsAgree ==
  ASSUME NEW n \in Nat, NEW list, NEW g, NEW h, Sums(g, list, n), Sums(h, list, n)
  PROVE  g[n] = h[n]
<1> DEFINE S == {k \in 0 .. n : g[k] = h[k]}
<1>1. 0 \in S
  BY DEF Sums
<1>2. ASSUME NEW k \in 1 .. n, k - 1 \in S PROVE k \in S
  BY <1>2 DEF Sums
<1>3. n \in S
  <2> HIDE DEF S
  <2> QED BY <1>1, <1>2, CountUp
<1> QED BY <1>3

(* The total of natural numbers is one. *)
LEMMA TotalCounts == ASSUME NEW list \in Seq(Nat) PROVE Total(list) \in Nat
<1>1. PICK g : Sums(g, list, Len(list)) /\ Total(list) = g[Len(list)]
  BY TotalWalks
<1>2. Len(list) \in Nat
  OBVIOUS
<1> QED BY <1>1, <1>2 DEF Sums

LEMMA TotalOfNothing == Total(<<>>) = 0
<1>1. PICK none : none = <<>>
  OBVIOUS
<1>0. none \in Seq(Nat) /\ Len(none) = 0
  BY <1>1
<1>2. PICK g : Sums(g, none, 0) /\ Total(none) = g[0]
  BY <1>0, TotalWalks
<1> QED BY <1>1, <1>2 DEF Sums

LEMMA TotalGrows ==
  ASSUME NEW list \in Seq(Nat), NEW x \in Nat
  PROVE  Total(Append(list, x)) = Total(list) + x
<1>1. PICK n \in Nat : n = Len(list)
  OBVIOUS
<1>2. PICK more : more = Append(list, x)
  OBVIOUS
<1>3. more \in Seq(Nat) /\ Len(more) = n + 1 /\ more[n + 1] = x /\ \A k \in 1 .. n : list[k] = more[k]
  BY <1>1, <1>2
<1>4. PICK g : Sums(g, list, n) /\ Total(list) = g[n]
  BY <1>1, TotalWalks
<1>5. PICK h : Sums(h, more, n + 1) /\ Total(more) = h[n + 1]
  BY <1>3, TotalWalks
<1>6. h[n + 1] = h[n] + x
  <2>1. n + 1 \in 1 .. n + 1 /\ n + 1 - 1 = n
    OBVIOUS
  <2> QED BY <1>3, <1>5, <2>1 DEF Sums
<1>7. PICK f : f = [k \in 0 .. n |-> h[k]]
  OBVIOUS
<1>8. Sums(f, more, n)
  <2>1. \A k \in 0 .. n : k \in 0 .. n + 1
    OBVIOUS
  <2>2. f \in [0 .. n -> Nat] /\ f[0] = 0
    BY <1>5, <1>7, <2>1 DEF Sums
  <2>3. ASSUME NEW k \in 1 .. n PROVE f[k] = f[k - 1] + more[k]
    <3>1. k \in 1 .. n + 1 /\ k \in 0 .. n /\ k - 1 \in 0 .. n
      OBVIOUS
    <3> QED BY <1>5, <1>7, <3>1 DEF Sums
  <2> QED BY <2>2, <2>3 DEF Sums
<1>9. g[n] = f[n]
  <2>1. Sums(g, more, n)
    BY <1>3, <1>4 DEF Sums
  <2> QED BY <1>8, <2>1, SumsAgree
<1>10. f[n] = h[n]
  BY <1>7
<1> QED BY <1>2, <1>4, <1>5, <1>6, <1>9, <1>10

=============================================================================
