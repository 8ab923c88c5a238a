----------------------------- MODULE BoundedQueue -----------------------------
(* What a ring promises its two ends: a first-in first-out queue of at most   *)
(* Capacity payloads.                                                         *)
EXTENDS Naturals, Sequences

CONSTANTS Capacity, Payloads
VARIABLE queue

Init == queue \in UNION {[1 .. n -> Payloads] : n \in 0 .. Capacity}

Put(p) == Len(queue) < Capacity /\ queue' = Append(queue, p)
Take == queue # <<>> /\ queue' = Tail(queue)

Next == Take \/ \E p \in Payloads : Put(p)
Spec == Init /\ [][Next]_queue
=============================================================================
