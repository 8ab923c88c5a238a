-------------------------------- MODULE BusRing --------------------------------
(***************************************************************************)
(* The single-producer single-consumer ring in shared memory               *)
(* (server-go/bus/ring.go): two index words that only grow, modulo their   *)
(* width, and an array of slots.  The payload is written into the slot in  *)
(* place, piece by piece, and read in place, so what matters is which slot *)
(* each side may touch between its Begin and its Commit.                   *)
(*                                                                         *)
(* An instance of this module is one ring; each side is one process that   *)
(* loads its own index and the other's in one Begin, and stores its own in *)
(* Commit.  The atomic loads and stores of Go are sequentially consistent. *)
(***************************************************************************)
EXTENDS Integers, Sequences

CONSTANTS
  Capacity,  \* slots of the ring
  Wrap,      \* values of an index word: 2^64 in the code
  Payloads,  \* what a slot may hold once it is written
  Torn       \* a slot that is being written

VARIABLES
  head,      \* index word of the producer
  tail,      \* index word of the consumer
  slots,     \* the slot array
  producer,  \* "idle", "begun" or "written"
  consumer   \* "idle" or "reading"

ringVars == <<head, tail, slots, producer, consumer>>

(* AttachRing: at least two slots, a power of two, so that "index & mask" is
   the remainder and the width of an index word is a multiple of it. *)
Geometry ==
  /\ Capacity \in Nat /\ Wrap \in Nat
  /\ Capacity >= 2 /\ Wrap % Capacity = 0 /\ Wrap >= 2 * Capacity
  /\ Torn \notin Payloads

Index == 0 .. Wrap - 1
Slot(index) == index % Capacity

Inc(index) == IF index = Wrap - 1 THEN 0 ELSE index + 1

(* head - tail, in the arithmetic of the index words. *)
Count == IF head >= tail THEN head - tail ELSE head - tail + Wrap

(* The indices of the slots that are published and not yet released. *)
Inside == {i \in Index : (IF i >= tail THEN i - tail ELSE i - tail + Wrap) < Count}

(* An attached ring may have been in use; its indices are checked. *)
RingInit ==
  /\ head \in Index /\ tail \in Index /\ Count <= Capacity
  /\ slots \in [0 .. Capacity - 1 -> Payloads \cup {Torn}]
  /\ \A i \in Inside : slots[Slot(i)] # Torn
  /\ producer = "idle" /\ consumer = "idle"
-----------------------------------------------------------------------------
Full == Count >= Capacity
Empty == head = tail

(* Mutant: as ProduceBegin, with the bound off by one. *)
ProduceBeginLate ==
  /\ producer = "idle" /\ Count <= Capacity
  /\ producer' = "begun"
  /\ slots' = [slots EXCEPT ![Slot(head)] = Torn]
  /\ UNCHANGED <<head, tail, consumer>>

ProduceBegin ==
  /\ producer = "idle" /\ ~Full
  /\ producer' = "begun"
  /\ slots' = [slots EXCEPT ![Slot(head)] = Torn]
  /\ UNCHANGED <<head, tail, consumer>>

(* The producer writes the slot it was given. *)
Write(p) ==
  /\ producer = "begun"
  /\ producer' = "written"
  /\ slots' = [slots EXCEPT ![Slot(head)] = p]
  /\ UNCHANGED <<head, tail, consumer>>

(* A producer that finds its frame unfit leaves the slot unpublished. *)
Abandon ==
  /\ producer = "begun"
  /\ producer' = "idle"
  /\ UNCHANGED <<head, tail, slots, consumer>>

ProduceCommit ==
  /\ producer = "written"
  /\ producer' = "idle"
  /\ head' = Inc(head)
  /\ UNCHANGED <<tail, slots, consumer>>

ConsumeBegin ==
  /\ consumer = "idle" /\ ~Empty
  /\ consumer' = "reading"
  /\ UNCHANGED <<head, tail, slots, producer>>

(* Mutant: the slot is released while it is still being read. *)
ConsumeBeginReleases ==
  /\ consumer = "idle" /\ ~Empty
  /\ consumer' = "reading" /\ tail' = Inc(tail)
  /\ UNCHANGED <<head, slots, producer>>

ConsumeCommit ==
  /\ consumer = "reading"
  /\ consumer' = "idle"
  /\ tail' = Inc(tail)
  /\ UNCHANGED <<head, slots, producer>>

RingNext ==
  \/ ProduceBegin \/ Abandon \/ ProduceCommit \/ ConsumeBegin \/ ConsumeCommit
  \/ \E p \in Payloads : Write(p)

RingSpec == RingInit /\ [][RingNext]_ringVars
-----------------------------------------------------------------------------
RingTypeOK ==
  /\ head \in Index /\ tail \in Index
  /\ slots \in [0 .. Capacity - 1 -> Payloads \cup {Torn}]
  /\ producer \in {"idle", "begun", "written"}
  /\ consumer \in {"idle", "reading"}

(***************************************************************************)
(* No slot between the indices is torn, a slot being read is one of them,  *)
(* and a slot being written is not: the two sides never touch one slot.    *)
(***************************************************************************)
SlotsDisjoint ==
  /\ Count <= Capacity
  /\ \A i \in Inside : slots[Slot(i)] # Torn
  /\ producer # "idle" => Count < Capacity
  /\ consumer = "reading" => ~Empty

(* What the ring holds, oldest first. *)
Contents == [k \in 1 .. Count |-> slots[Slot((tail + k - 1) % Wrap)]]

Abstract == INSTANCE BoundedQueue WITH queue <- Contents

(***************************************************************************)
(* The ring implements a bounded first-in first-out queue: nothing is      *)
(* lost, repeated, reordered or torn on the way from one side to the other.*)
(***************************************************************************)
RefinesQueue == Abstract!Spec
=============================================================================
