----------------------------- MODULE BusRingProofs -----------------------------
(***************************************************************************)
(* Proofs about one ring (BusRing), for every capacity and every width of  *)
(* an index word that Geometry admits: the two sides never touch one slot, *)
(* and the ring implements BoundedQueue.                                   *)
(*                                                                         *)
(* The argument counts slots from the tail: Place(j) is the slot of the    *)
(* j-th payload.  Places less than a capacity apart are different slots,   *)
(* so writing the slot at the head, which is Place(Count), disturbs none   *)
(* of the Count places inside as long as Count stays below the capacity    *)
(* from Begin to Commit.  That is the inductive invariant IInv.            *)
(***************************************************************************)
EXTENDS BusRing, SequenceTheorems, TLAPS

(* Division with remainder, which "index & mask" is for a power of two. *)
LEMMA Quotient ==
  ASSUME NEW n \in Int, NEW c \in Nat \ {0}
  PROVE  n = c * (n \div c) + (n % c) /\ n % c \in 0 .. c - 1 /\ n \div c \in Int
  BY SMT

(* A multiple of c other than 0 is at least c away from 0. *)
LEMMA Multiple ==
  ASSUME NEW c \in Nat \ {0}, NEW k \in Int, NEW d \in Int, d = c * k
  PROVE  (0 < d => d >= c) /\ (d < 0 => d <= -c)
  <1>1. CASE k >= 1
    BY <1>1, SMT
  <1>2. CASE k = 0
    BY <1>2, SMT
  <1>3. CASE k <= -1
    BY <1>3, SMT
  <1> QED BY <1>1, <1>2, <1>3

(* The remainder of a division is the only one: Slot can be computed from any *)
(* way to write an index as a multiple of the capacity and a rest.              *)
LEMMA Remainder ==
  ASSUME NEW c \in Nat \ {0}, NEW q \in Int, NEW r \in 0 .. c - 1, NEW n \in Int, n = c * q + r
  PROVE  n % c = r
  <1> DEFINE p == n \div c
  <1>1. n = c * p + (n % c) /\ n % c \in 0 .. c - 1 /\ p \in Int
    BY Quotient
  <1> HIDE DEF p
  <1>2. r - (n % c) = c * (p - q)
    BY <1>1, SMT
  <1>3. r - (n % c) > -c /\ r - (n % c) < c
    BY <1>1, SMT
  <1> QED BY <1>1, <1>2, <1>3, Multiple, SMT

(* Two indices less than a capacity apart mask to different slots. *)
LEMMA SlotsApart ==
  ASSUME NEW c \in Nat \ {0}, NEW m \in Int, NEW n \in Int, m < n, n - m < c
  PROVE  m % c # n % c
  <1>1. m = c * (m \div c) + (m % c) /\ m \div c \in Int
    BY Quotient
  <1>2. n = c * (n \div c) + (n % c) /\ n \div c \in Int
    BY Quotient
  <1>3. SUFFICES ASSUME m % c = n % c PROVE FALSE
    OBVIOUS
  <1> DEFINE p == m \div c
             q == n \div c
             r == m % c
  <1>4. p \in Int /\ q \in Int /\ r \in Int /\ m = c * p + r /\ n = c * q + r
    BY <1>1, <1>2, <1>3, Quotient
  <1> HIDE DEF p, q, r
  <1>5. n - m = c * (q - p) /\ q - p \in Int
    BY <1>4, SMT
  <1> QED BY <1>5, Multiple, SMT

(* AttachRing's geometry in plain bounds: an index word holds at least two    *)
(* capacities.                                                                *)
LEMMA Width ==
  ASSUME Geometry
  PROVE  Wrap \in Nat /\ Wrap >= 2 * Capacity /\ Capacity \in Nat \ {0} /\ Capacity >= 2
  BY SMT DEF Geometry

(* The width of an index word is a multiple of the capacity (a power of two). *)
LEMMA Rounds ==
  ASSUME Geometry
  PROVE  Wrap \div Capacity \in Int /\ Wrap = Capacity * (Wrap \div Capacity)
  <1> DEFINE rounds == Wrap \div Capacity
             rest == Wrap % Capacity
  <1>1. Wrap = Capacity * rounds + rest /\ rounds \in Int /\ rest = 0
    BY Width, Quotient DEF Geometry
  <1> HIDE DEF rounds, rest
  <1>2. Wrap = Capacity * rounds /\ rounds \in Int
    BY <1>1, Width, SMT
  <1> QED BY <1>2 DEF rounds

(* Index words wrap, slots do not: an index that has wrapped (ring.go: an   *)
(* unsigned word) masks to the slot it would have had without wrapping.      *)
LEMMA WrapKeepsSlot ==
  ASSUME Geometry, NEW m \in Int, NEW n \in Int, m = n - Wrap
  PROVE  m % Capacity = n % Capacity
  <1> DEFINE rounds == Wrap \div Capacity
             q == n \div Capacity
             r == n % Capacity
  <1>0. Capacity \in Nat \ {0}
    BY Width
  <1>1. rounds \in Int /\ Wrap = Capacity * rounds
    BY Rounds
  <1>2. q \in Int /\ r \in 0 .. Capacity - 1 /\ n = Capacity * q + r
    BY <1>0, Quotient
  <1> HIDE DEF rounds, q, r
  <1> DEFINE p == q - rounds
  <1>3. m = Capacity * p + r /\ p \in Int
    BY <1>0, <1>1, <1>2, SMT
  <1> HIDE DEF p
  <1>4. m % Capacity = r
    BY <1>0, <1>2, <1>3, Remainder
  <1> QED BY <1>4 DEF r

(* The slot of the j-th payload behind the tail. *)
Place(j) == (tail + j) % Capacity

(* The inductive invariant: the slots inside are whole, there is room for the
   slot being written from Begin to Commit, and the slot being read is inside. *)
IInv ==
  /\ RingTypeOK
  /\ Count <= Capacity
  /\ \A j \in 0 .. Count - 1 : slots[Place(j)] # Torn
  /\ producer # "idle" => Count < Capacity
  /\ producer = "written" => slots[Slot(head)] \in Payloads
  /\ consumer = "reading" => Count > 0

(* head - tail, computed in unsigned words, is what lies between them. *)
LEMMA CountType ==
  ASSUME Geometry, head \in Index, tail \in Index
  PROVE  Count \in 0 .. Wrap - 1 /\ (Count = 0 <=> Empty)
  BY Width, SMT DEF Index, Count, Empty

(* A place is a slot of the array. *)
LEMMA PlaceType ==
  ASSUME Geometry, tail \in Index, NEW j \in Nat
  PROVE  Place(j) \in 0 .. Capacity - 1
  <1> DEFINE n == tail + j
  <1>1. n \in Int
    BY Width, SMT DEF Index
  <1> HIDE DEF n
  <1>2. n % Capacity \in 0 .. Capacity - 1
    BY <1>1, Width, Quotient
  <1> QED BY <1>2 DEF Place, n

(* Payloads less than a capacity apart lie in different slots. *)
LEMMA PlacesApart ==
  ASSUME Geometry, tail \in Index, NEW j \in Nat, NEW k \in Nat, j < k, k - j < Capacity
  PROVE  Place(j) # Place(k)
  <1>1. /\ tail + j \in Int /\ tail + k \in Int
        /\ tail + j < tail + k /\ (tail + k) - (tail + j) < Capacity
    BY Width, SMT DEF Index
  <1> DEFINE m == tail + j
             n == tail + k
  <1> HIDE DEF m, n
  <1>2. m \in Int /\ n \in Int /\ m < n /\ n - m < Capacity
    BY <1>1 DEF m, n
  <1>3. m % Capacity # n % Capacity
    BY <1>2, Width, SlotsApart
  <1> QED BY <1>3 DEF Place, m, n

(* The slot produceBegin hands out is the one behind the last payload. *)
LEMMA HeadPlace ==
  ASSUME Geometry, head \in Index, tail \in Index
  PROVE  Slot(head) = Place(Count)
  <1>1. tail + Count = head \/ head = (tail + Count) - Wrap
    BY Width, SMT DEF Index, Count
  <1>2. tail + Count \in Int /\ head \in Int
    BY Width, CountType, SMT DEF Index
  <1>3. CASE head = (tail + Count) - Wrap
    <2>1. head % Capacity = (tail + Count) % Capacity
      BY <1>2, <1>3, WrapKeepsSlot
    <2> QED BY <2>1 DEF Slot, Place
  <1> QED BY <1>1, <1>3 DEF Slot, Place

(* The published and unreleased indices are the places counted from the tail. *)
LEMMA InsideIsPlaces ==
  ASSUME Geometry, head \in Index, tail \in Index
  PROVE  /\ \A i \in Inside : \E j \in 0 .. Count - 1 : Slot(i) = Place(j)
         /\ \A j \in 0 .. Count - 1 : \E i \in Inside : Slot(i) = Place(j) /\ i = (tail + j) % Wrap
  <1>0. Count \in 0 .. Wrap - 1
    BY CountType
  <1>1. ASSUME NEW i \in Inside PROVE \E j \in 0 .. Count - 1 : Slot(i) = Place(j)
    <2> DEFINE j == IF i >= tail THEN i - tail ELSE i - tail + Wrap
    <2>1. j \in 0 .. Count - 1 /\ i \in Int
      BY <1>0, Width, SMT DEF Index, Inside
    <2>2. tail + j = i \/ i = (tail + j) - Wrap
      BY Width, SMT DEF Index, Inside
    <2>3. tail + j \in Int
      BY <2>1, Width, SMT DEF Index
    <2> HIDE DEF j
    <2>4. i = (tail + j) - Wrap => i % Capacity = (tail + j) % Capacity
      BY <2>1, <2>3, WrapKeepsSlot
    <2>5. Slot(i) = Place(j)
      BY <2>2, <2>4 DEF Slot, Place
    <2> QED BY <2>1, <2>5
  <1>2. ASSUME NEW j \in 0 .. Count - 1
        PROVE  \E i \in Inside : Slot(i) = Place(j) /\ i = (tail + j) % Wrap
    <2> DEFINE i == IF tail + j < Wrap THEN tail + j ELSE tail + j - Wrap
    <2>1. i \in Inside
      BY <1>0, Width, SMT DEF Index, Inside
    <2>2. tail + j \in Int /\ Wrap \in Nat \ {0} /\ i \in 0 .. Wrap - 1
      BY <1>0, Width, SMT DEF Index
    <2>3. i = tail + j \/ i = (tail + j) - Wrap
      BY <1>0, Width, SMT DEF Index
    <2> HIDE DEF i
    <2>4. i = (tail + j) - Wrap => i % Capacity = (tail + j) % Capacity
      BY <2>2, WrapKeepsSlot
    <2>5. Slot(i) = Place(j)
      BY <2>3, <2>4 DEF Slot, Place
    <2>6. i = (tail + j) % Wrap
      <3>1. CASE i = tail + j
        <4>1. tail + j = Wrap * 0 + i
          BY <2>2, <3>1, SMT
        <4> QED BY <2>2, <4>1, Remainder
      <3>2. CASE i = (tail + j) - Wrap
        <4> DEFINE n == tail + j
        <4> HIDE DEF n
        <4>0. n \in Int /\ i = n - Wrap
          BY <2>2, <3>2 DEF n
        <4>1. tail + j = Wrap * 1 + i
          BY <2>2, <4>0, SMT DEF n
        <4> QED BY <2>2, <4>1, Remainder
      <3> QED BY <2>3, <3>1, <3>2
    <2> QED BY <2>1, <2>5, <2>6
  <1> QED BY <1>1, <1>2

(* What the invariant says of places, SlotsDisjoint says of indices. *)
LEMMA InvGivesDisjoint ==
  ASSUME Geometry, IInv
  PROVE  SlotsDisjoint
  <1>1. head \in Index /\ tail \in Index
    BY DEF IInv, RingTypeOK
  <1>2. \A i \in Inside : slots[Slot(i)] # Torn
    <2> TAKE i \in Inside
    <2>1. PICK j \in 0 .. Count - 1 : Slot(i) = Place(j)
      BY <1>1, InsideIsPlaces
    <2> QED BY <2>1 DEF IInv
  <1>3. Count > 0 => ~Empty
    BY <1>1, CountType, SMT
  <1> QED BY <1>2, <1>3 DEF IInv, SlotsDisjoint

(* A ring AttachRing has just accepted satisfies the invariant. *)
LEMMA InitInv ==
  ASSUME Geometry, RingInit
  PROVE  IInv
  <1>1. head \in Index /\ tail \in Index
    BY DEF RingInit
  <1>2. \A j \in 0 .. Count - 1 : slots[Place(j)] # Torn
    <2> TAKE j \in 0 .. Count - 1
    <2>1. PICK i \in Inside : Slot(i) = Place(j)
      BY <1>1, InsideIsPlaces
    <2> QED BY <2>1 DEF RingInit
  <1> QED BY <1>2 DEF RingInit, IInv, RingTypeOK

(* A commit of the producer puts the slot at the head inside. *)
LEMMA CommitCounts ==
  ASSUME Geometry, IInv, ProduceCommit
  PROVE  /\ Count' = Count + 1 /\ Count < Capacity /\ \A j : Place(j)' = Place(j)
         /\ slots[Place(Count)] \in Payloads
         /\ \A j \in 0 .. Count' - 1 : slots'[Place(j)'] # Torn
  <1>1. head \in Index /\ tail \in Index /\ head' = Inc(head) /\ UNCHANGED <<tail, slots>>
    BY DEF IInv, RingTypeOK, ProduceCommit
  <1>2. Count < Capacity /\ slots[Place(Count)] \in Payloads
    BY <1>1, HeadPlace DEF IInv, ProduceCommit
  <1>3. Count' = Count + 1
    BY <1>1, <1>2, Width, SMT DEF Index, Count, Inc
  <1>4. \A j : Place(j)' = Place(j)
    BY <1>1 DEF Place
  <1>5. ASSUME NEW j \in 0 .. Count' - 1 PROVE slots[Place(j)] # Torn
    <2>1. j \in 0 .. Count - 1 \/ j = Count
      BY <1>1, <1>3, CountType, Width, SMT
    <2> QED BY <2>1, <1>2 DEF IInv, Geometry
  <1> QED BY <1>1, <1>2, <1>3, <1>4, <1>5

(* A commit of the consumer takes the slot at the tail out; the others keep their order. *)
LEMMA ReleaseCounts ==
  ASSUME Geometry, IInv, ConsumeCommit
  PROVE  /\ Count > 0 /\ Count' = Count - 1 /\ \A j \in Nat : Place(j)' = Place(j + 1)
         /\ \A j \in 0 .. Count' - 1 : slots'[Place(j)'] # Torn
         /\ UNCHANGED <<head, slots, producer>> /\ consumer' = "idle"
  <1>1. head \in Index /\ tail \in Index /\ tail' = Inc(tail) /\ UNCHANGED <<head, slots, producer>>
        /\ consumer' = "idle"
    BY DEF IInv, RingTypeOK, ConsumeCommit
  <1>2. Count > 0
    BY DEF IInv, ConsumeCommit
  <1>3. Count' = Count - 1
    BY <1>1, <1>2, Width, SMT DEF Index, Count, Inc
  <1>4. ASSUME NEW j \in Nat PROVE Place(j)' = Place(j + 1)
    <2> DEFINE m == tail' + j
               n == tail + (j + 1)
    <2>1. m \in Int /\ n \in Int /\ (m = n \/ m = n - Wrap)
      BY <1>1, Width, SMT DEF Index, Inc
    <2> HIDE DEF m, n
    <2>2. m % Capacity = n % Capacity
      BY <2>1, WrapKeepsSlot
    <2> QED BY <2>2 DEF Place, m, n
  <1>5. ASSUME NEW j \in 0 .. Count' - 1 PROVE slots'[Place(j)'] # Torn
    <2>1. j \in Nat /\ j + 1 \in 0 .. Count - 1
      BY <1>1, <1>3, CountType, Width, SMT
    <2> QED BY <1>1, <1>4, <2>1 DEF IInv
  <1> QED BY <1>1, <1>2, <1>3, <1>4, <1>5

(* Every step of either side, and of both in any order, keeps the invariant. *)
LEMMA StepInv ==
  ASSUME Geometry, IInv, [RingNext]_ringVars
  PROVE  IInv'
  <1> USE DEF IInv
  <1>1. head \in Index /\ tail \in Index /\ Count \in Nat
    BY CountType, Width, SMT DEF RingTypeOK
  <1>2. ASSUME UNCHANGED <<head, tail>> PROVE Count' = Count /\ \A j : Place(j)' = Place(j)
    BY <1>2 DEF Count, Place
  <1>a. ASSUME NEW p, slots' = [slots EXCEPT ![Slot(head)] = p], UNCHANGED <<head, tail>>, Count < Capacity
        PROVE  (\A j \in 0 .. Count' - 1 : slots'[Place(j)'] # Torn) /\ slots'[Slot(head)'] = p
    <2>1. Slot(head) = Place(Count)
      BY <1>1, HeadPlace
    <2>2. Slot(head) \in 0 .. Capacity - 1
      BY <1>1, <2>1, PlaceType
    <2>3. \A j \in 0 .. Count - 1 : Place(j) # Slot(head) /\ Place(j) \in 0 .. Capacity - 1
      <3> TAKE j \in 0 .. Count - 1
      <3>1. j \in Nat /\ j < Count /\ Count - j < Capacity
        BY <1>1, <1>a, Width, SMT
      <3>2. Place(j) # Place(Count)
        BY <1>1, <3>1, PlacesApart, Width
      <3> QED BY <1>1, <2>1, <3>1, <3>2, PlaceType
    <2>4. \A j \in 0 .. Count - 1 : slots'[Place(j)] # Torn
      BY <1>a, <2>2, <2>3 DEF RingTypeOK
    <2>5. slots'[Slot(head)] = p
      BY <1>a, <2>2 DEF RingTypeOK
    <2>6. Slot(head)' = Slot(head)
      BY <1>a DEF Slot
    <2> QED BY <1>2, <1>a, <2>4, <2>5, <2>6
  <1>b. RingTypeOK'
    <2>1. Slot(head) \in 0 .. Capacity - 1 /\ Inc(head) \in Index /\ Inc(tail) \in Index
      BY <1>1, HeadPlace, PlaceType, Width, SMT DEF Index, Inc
    <2> QED
      BY <2>1, Zenon DEF RingNext, ringVars, RingTypeOK, ProduceBegin, Write, Abandon, ProduceCommit,
           ConsumeBegin, ConsumeCommit
  <1>3. CASE ProduceBegin
    <2>1. UNCHANGED <<head, tail, consumer>> /\ producer' = "begun" /\ Count < Capacity
      BY <1>1, <1>3, Width, SMT DEF ProduceBegin, Full
    <2> QED BY <1>3, <1>2, <1>a, <1>b, <2>1 DEF ProduceBegin
  <1>4. ASSUME NEW p \in Payloads, Write(p) PROVE IInv'
    <2>1. UNCHANGED <<head, tail, consumer>> /\ producer' = "written" /\ Count < Capacity
      BY <1>4 DEF Write
    <2>2. p # Torn
      BY DEF Geometry
    <2> QED BY <1>4, <1>2, <1>a, <1>b, <2>1, <2>2 DEF Write
  <1>5. CASE Abandon
    BY <1>5, <1>2, <1>b DEF Abandon
  <1>6. CASE ConsumeBegin
    <2>1. Count > 0
      BY <1>1, <1>6, CountType, SMT DEF ConsumeBegin
    <2> QED BY <1>6, <1>2, <1>b, <2>1 DEF ConsumeBegin, Slot
  <1>7. CASE UNCHANGED ringVars
    BY <1>7, <1>2, <1>b DEF ringVars, Slot
  <1>8. CASE ProduceCommit
    BY <1>8, <1>1, <1>b, CommitCounts DEF IInv, RingTypeOK, ProduceCommit, Geometry
  <1>9. CASE ConsumeCommit
    <2>1. Slot(head)' = Slot(head) /\ Count' < Capacity /\ Count' <= Capacity
      BY <1>9, <1>1, ReleaseCounts, Width, SMT DEF Slot
    <2> QED BY <1>9, <1>b, <2>1, ReleaseCounts
  <1> QED BY <1>3, <1>4, <1>5, <1>6, <1>7, <1>8, <1>9 DEF RingNext

(***************************************************************************)
(* However the two sides interleave and the index words wrap, a slot that  *)
(* is being written is never one the consumer may read, and the count      *)
(* never passes the capacity (ring.go: produceBegin, produceCommit,        *)
(* consumeBegin, consumeCommit without a lock).                            *)
(***************************************************************************)
THEOREM RingSafe ==
  ASSUME Geometry
  PROVE  RingSpec => [](RingTypeOK /\ SlotsDisjoint)
  <1>1. RingInit => IInv
    BY InitInv
  <1>2. IInv /\ [RingNext]_ringVars => IInv'
    BY StepInv
  <1>3. IInv => RingTypeOK /\ SlotsDisjoint
    BY InvGivesDisjoint DEF IInv
  <1> QED BY <1>1, <1>2, <1>3, PTL DEF RingSpec

(* The slot at the head is not the one at the tail while there is something to
   read and room to write (ring.go: produceBegin beside consumeBegin). *)
LEMMA HeadIsNotTail ==
  ASSUME Geometry, head \in Index, tail \in Index, ~Empty, Count < Capacity
  PROVE  Slot(head) # Slot(tail)
  <1>1. Count \in Nat /\ 0 < Count /\ Count - 0 < Capacity
    BY CountType, Width, SMT
  <1>2. Place(0) # Place(Count)
    BY <1>1, PlacesApart
  <1>3. tail + 0 = tail
    BY Width, SMT DEF Index
  <1> QED BY <1>2, <1>3, HeadPlace DEF Slot, Place

(***************************************************************************)
(* What consumeBegin hands out does not change until consumeCommit, in     *)
(* whatever order the producer begins, writes and commits beside it        *)
(* (ring.go reads and writes the slots in place, without a lock).          *)
(***************************************************************************)
THEOREM ReadSlotStays ==
  ASSUME Geometry
  PROVE  RingSpec => [][consumer = "reading" /\ tail' = tail
                          => slots'[Slot(tail)] = slots[Slot(tail)]]_ringVars
  <1> DEFINE Inv == RingTypeOK /\ SlotsDisjoint
             Stays == consumer = "reading" /\ tail' = tail
                        => slots'[Slot(tail)] = slots[Slot(tail)]
  <1>1. ASSUME Inv, [RingNext]_ringVars PROVE [Stays]_ringVars
    <2> SUFFICES ASSUME RingNext, consumer = "reading", tail' = tail
                 PROVE  slots'[Slot(tail)] = slots[Slot(tail)]
      BY <1>1
    <2>1. ASSUME Count < Capacity PROVE Slot(head) # Slot(tail)
      BY <1>1, <2>1, HeadIsNotTail DEF RingTypeOK, SlotsDisjoint
    <2>2. CASE ProduceBegin
      <3>1. Count < Capacity
        BY <1>1, <2>2, CountType, Width, SMT DEF ProduceBegin, Full, RingTypeOK
      <3> QED BY <1>1, <2>1, <2>2, <3>1 DEF ProduceBegin, RingTypeOK
    <2>3. ASSUME NEW p \in Payloads, Write(p) PROVE slots'[Slot(tail)] = slots[Slot(tail)]
      <3>1. Count < Capacity
        BY <1>1, <2>3 DEF Write, SlotsDisjoint
      <3> QED BY <1>1, <2>1, <2>3, <3>1 DEF Write, RingTypeOK
    <2>4. CASE Abandon \/ ProduceCommit \/ ConsumeBegin \/ ConsumeCommit
      BY <2>4 DEF Abandon, ProduceCommit, ConsumeBegin, ConsumeCommit
    <2> QED BY <2>2, <2>3, <2>4 DEF RingNext
  <1>2. RingSpec => []Inv
    BY RingSafe
  <1> QED BY <1>1, <1>2, PTL DEF RingSpec

(* The published slots, read from the tail, are a sequence of whole payloads. *)
LEMMA ContentsType ==
  ASSUME Geometry
  PROVE  IInv =>
         /\ Contents = [k \in 1 .. Count |-> slots[Place(k - 1)]]
         /\ Contents \in [1 .. Count -> Payloads]
         /\ Contents \in Seq(Payloads) /\ Len(Contents) = Count
         /\ Count \in 0 .. Capacity
  <1> SUFFICES ASSUME IInv
               PROVE  /\ Contents = [k \in 1 .. Count |-> slots[Place(k - 1)]]
                      /\ Contents \in [1 .. Count -> Payloads]
                      /\ Contents \in Seq(Payloads) /\ Len(Contents) = Count
                      /\ Count \in 0 .. Capacity
    OBVIOUS
  <1>1. head \in Index /\ tail \in Index /\ Count \in Nat /\ Count \in 0 .. Capacity
    BY CountType, Width, SMT DEF IInv, RingTypeOK
  <1>2. ASSUME NEW k \in 1 .. Count
        PROVE  slots[Slot((tail + k - 1) % Wrap)] = slots[Place(k - 1)] /\ slots[Place(k - 1)] \in Payloads
    <2>1. k - 1 \in 0 .. Count - 1 /\ tail + (k - 1) = tail + k - 1 /\ k - 1 \in Nat
      BY <1>1, Width, SMT DEF Index
    <2>2. Slot((tail + (k - 1)) % Wrap) = Place(k - 1)
      BY <1>1, <2>1, InsideIsPlaces
    <2>3. Place(k - 1) \in 0 .. Capacity - 1
      BY <1>1, <2>1, PlaceType
    <2>4. slots[Place(k - 1)] # Torn
      BY <2>1 DEF IInv
    <2> QED BY <2>1, <2>2, <2>3, <2>4 DEF IInv, RingTypeOK
  <1>3. Contents = [k \in 1 .. Count |-> slots[Place(k - 1)]] /\ Contents \in [1 .. Count -> Payloads]
    BY <1>2 DEF Contents
  <1> QED BY <1>1, <1>3

(* What the producer wrote is what the ring holds (ring.go: produceCommit publishes
   a slot once it is written). *)
LEMMA HoldsPayloads ==
  ASSUME Geometry
  PROVE  RingSpec => [](RingTypeOK /\ \A i \in DOMAIN Contents : Contents[i] \in Payloads)
  <1>1. RingInit => IInv
    BY InitInv
  <1>2. IInv /\ [RingNext]_ringVars => IInv'
    BY StepInv
  <1>3. IInv => RingTypeOK /\ \A i \in DOMAIN Contents : Contents[i] \in Payloads
    BY ContentsType DEF IInv
  <1> QED BY <1>1, <1>2, <1>3, PTL DEF RingSpec

(* Every step of the ring is a step of the queue, or leaves it as it is. *)
LEMMA StepRefines ==
  ASSUME Geometry, IInv, [RingNext]_ringVars
  PROVE  [Abstract!Next]_Contents
  <1>0. IInv'
    BY StepInv
  <1> DEFINE old == Contents
             new == Contents'
             n == Count
  <1>1. /\ old = [k \in 1 .. n |-> slots[Place(k - 1)]] /\ old \in Seq(Payloads) /\ Len(old) = n
        /\ n \in 0 .. Capacity /\ n \in Nat /\ Capacity \in Nat
    BY ContentsType, Width, SMT
  <1>2. (IInv => /\ Contents = [k \in 1 .. Count |-> slots[Place(k - 1)]]
                 /\ Contents \in Seq(Payloads) /\ Len(Contents) = Count)'
    BY ContentsType, PTL
  <1>3. /\ new = [k \in 1 .. Count' |-> slots'[Place(k - 1)']] /\ new \in Seq(Payloads)
        /\ Len(new) = Count'
    BY <1>0, <1>2
  <1>t. head \in Index /\ tail \in Index
    BY DEF IInv, RingTypeOK
  <1> HIDE DEF old, new, n
  <1>4. ASSUME n = Count', \A j \in 0 .. n - 1 : slots'[Place(j)'] = slots[Place(j)]
        PROVE  new = old
    <2>1. \A k \in 1 .. n : k - 1 \in 0 .. n - 1
      BY <1>1, SMT
    <2> QED BY <1>1, <1>3, <1>4, <2>1
  <1>5. ASSUME NEW p, UNCHANGED <<head, tail>>, slots' = [slots EXCEPT ![Slot(head)] = p], Count < Capacity
        PROVE  new = old
    <2>1. n = Count' /\ \A j : Place(j)' = Place(j)
      BY <1>5 DEF n, Count, Place
    <2>2. ASSUME NEW j \in 0 .. n - 1 PROVE slots'[Place(j)] = slots[Place(j)]
      <3>1. j \in Nat /\ j < Count /\ Count - j < Capacity /\ Count \in Nat
        BY <1>1, <1>5, SMT DEF n
      <3>2. Place(j) # Place(Count) /\ Place(j) \in 0 .. Capacity - 1 /\ Slot(head) = Place(Count)
        BY <1>t, <3>1, PlacesApart, PlaceType, HeadPlace
      <3> QED BY <1>5, <3>2 DEF IInv, RingTypeOK
    <2> QED BY <1>4, <2>1, <2>2
  <1>6. ASSUME UNCHANGED <<head, tail, slots>> PROVE new = old
    BY <1>4, <1>6 DEF n, Count, Place
  <1>7. CASE ProduceBegin
    <2>1. Count < Capacity
      BY <1>1, <1>7, SMT DEF ProduceBegin, Full, n
    <2> QED BY <1>5, <1>7, <2>1 DEF ProduceBegin, old, new
  <1>8. ASSUME NEW p \in Payloads, Write(p) PROVE new = old
    <2>1. Count < Capacity
      BY <1>8 DEF Write, IInv
    <2> QED BY <1>5, <1>8, <2>1 DEF Write
  <1>9. CASE ProduceCommit
    <2> DEFINE p == slots[Place(n)]
    <2>1. /\ Count' = n + 1 /\ n < Capacity /\ p \in Payloads /\ \A j : Place(j)' = Place(j)
      BY <1>9, CommitCounts DEF n
    <2>2. slots' = slots
      BY <1>9 DEF ProduceCommit
    <2>3. new = Append(old, p)
      <3>1. new = [k \in 1 .. n + 1 |-> slots[Place(k - 1)]]
        BY <1>3, <2>1, <2>2
      <3>2. \A k \in 1 .. n + 1 : k \in 1 .. n \/ (k = n + 1 /\ k - 1 = n)
        BY <1>1, SMT
      <3>3. \A k \in 1 .. n : k # n + 1 /\ k \in 1 .. n + 1
        BY <1>1, SMT
      <3> HIDE DEF p
      <3>4. Append(old, p) = [k \in 1 .. n + 1 |-> IF k = n + 1 THEN p ELSE old[k]]
        BY <1>1, <2>1, SMT
      <3> QED BY <1>1, <3>1, <3>2, <3>3, <3>4, Zenon DEF p
    <2> QED BY <1>1, <2>1, <2>3 DEF Abstract!Next, Abstract!Put, old, new
  <1>10. CASE ConsumeBegin
    BY <1>6, <1>10 DEF ConsumeBegin, old, new
  <1>11. CASE ConsumeCommit
    <2>1. n > 0 /\ Count' = n - 1 /\ \A j \in Nat : Place(j)' = Place(j + 1)
      BY <1>11, ReleaseCounts DEF n
    <2>2. slots' = slots
      BY <1>11 DEF ConsumeCommit
    <2>3. old # <<>>
      <3>1. Len(<<>>) = 0
        BY EmptySeq
      <3>2. Len(old) # 0
        BY <1>1, <2>1, SMT
      <3> QED BY <3>1, <3>2, Zenon
    <2>4. /\ Tail(old) \in Seq(Payloads) /\ Len(Tail(old)) = n - 1
          /\ \A k \in 1 .. n - 1 : Tail(old)[k] = old[k + 1]
      BY <1>1, <2>3, HeadTailProperties
    <2>5. \A k \in 1 .. n - 1 : new[k] = Tail(old)[k]
      <3> TAKE k \in 1 .. n - 1
      <3>1. k - 1 \in Nat /\ k + 1 \in 1 .. n /\ (k - 1) + 1 = (k + 1) - 1
        BY <1>1, SMT
      <3>2. new[k] = slots[Place((k - 1) + 1)]
        BY <1>3, <2>1, <2>2, <3>1
      <3>3. old[k + 1] = slots[Place((k + 1) - 1)]
        BY <1>1, <3>1
      <3> QED BY <2>4, <3>1, <3>2, <3>3
    <2>6. new = Tail(old)
      BY <1>3, <2>1, <2>4, <2>5, SeqEqual
    <2> QED BY <2>3, <2>6 DEF Abstract!Next, Abstract!Take, old, new
  <1>12. CASE Abandon
    BY <1>6, <1>12 DEF Abandon, old, new
  <1>13. CASE UNCHANGED ringVars
    BY <1>6, <1>13 DEF ringVars, old, new
  <1>14. (\E p \in Payloads : Write(p)) => UNCHANGED Contents
    BY <1>8 DEF old, new
  <1> QED BY <1>7, <1>9, <1>10, <1>11, <1>12, <1>13, <1>14 DEF RingNext

(***************************************************************************)
(* The ring of ring.go implements a bounded first-in first-out queue: what *)
(* produceCommit publishes is appended whole, what consumeCommit releases  *)
(* is the oldest, and no other step is visible to either end.              *)
(***************************************************************************)
THEOREM RingIsQueue ==
  ASSUME Geometry
  PROVE  RingSpec => RefinesQueue
  <1>1. RingInit => IInv
    BY InitInv
  <1>2. IInv /\ [RingNext]_ringVars => IInv'
    BY StepInv
  <1>3. RingInit => Abstract!Init
    <2> SUFFICES ASSUME RingInit PROVE Abstract!Init
      OBVIOUS
    <2>1. Contents \in [1 .. Count -> Payloads] /\ Count \in 0 .. Capacity
      BY <1>1, ContentsType
    <2> QED BY <2>1 DEF Abstract!Init
  <1>4. IInv /\ [RingNext]_ringVars => [Abstract!Next]_Contents
    BY StepRefines
  <1> QED BY <1>1, <1>2, <1>3, <1>4, PTL DEF RingSpec, RefinesQueue, Abstract!Spec
=============================================================================
