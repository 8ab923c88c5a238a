------------------------------- MODULE Grounding -------------------------------
(***************************************************************************)
(* memory_retrieval_confidence (memory_context.c): how far a ranked list   *)
(* of candidates covers a query, in hundredths.                            *)
(***************************************************************************)
EXTENDS Integers, Sequences, FiniteSets

Covered(terms, words) ==
  IF terms = {} THEN 0 ELSE (100 * Cardinality(terms \cap words)) \div Cardinality(terms)

(* The gap between the first and the third score. *)
Separation(scores) ==
  LET third == scores[IF Len(scores) < 3 THEN Len(scores) ELSE 3]
      share == IF scores[1] = 0 THEN 0 ELSE (100 * (scores[1] - third)) \div scores[1]
  IN IF Len(scores) <= 1 THEN 50 ELSE IF share > 100 THEN 100 ELSE share

Confidence(terms, words, scores) ==
  IF scores = <<>> THEN 0
  ELSE (60 * Covered(terms, words) + 40 * Separation(scores)) \div 100
=============================================================================
