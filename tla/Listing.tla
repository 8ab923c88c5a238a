-------------------------------- MODULE Listing --------------------------------
(***************************************************************************)
(* Rows in the order the store lists them in (ORDER BY id, or id DESC),    *)
(* the rows of a list at some of its places, in the order of the list, and *)
(* the total of a list of numbers.                                         *)
(***************************************************************************)
EXTENDS Integers, Sequences, FiniteSets

(* The elements of S by the number of those before them. *)
InOrder(S, before) ==
  [i \in 1 .. Cardinality(S) |-> CHOOSE x \in S : Cardinality(before[x]) = i - 1]

Ascending(S) == InOrder(S, [x \in S |-> {y \in S : y < x}])
Descending(S) == InOrder(S, [x \in S |-> {y \in S : y > x}])

At(list, places) == [k \in 1 .. Cardinality(places) |-> list[Ascending(places)[k]]]

Total(list) ==
  LET upto[n \in 0 .. Len(list)] == IF n = 0 THEN 0 ELSE upto[n - 1] + list[n]
  IN  upto[Len(list)]
=============================================================================
