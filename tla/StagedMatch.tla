------------------------------ MODULE StagedMatch ------------------------------
(***************************************************************************)
(* The staged matchers of reminders and directives: each stage asks the    *)
(* store for at most max rows and appends the rows not seen before         *)
(* (pm_merge_unique, ed_merge_unique), until out holds max rows.           *)
(***************************************************************************)
EXTENDS Integers, Sequences, SequencesExt

(* Mutant: a row is looked for only among the rows of its own stage. *)
MergeOwnStage(out, rows, max) ==
  FoldLeft(LAMBDA acc, row : IF Len(acc) < max THEN Append(acc, row) ELSE acc, out, rows)

MergeUnique(out, rows, max) ==
  FoldLeft(LAMBDA acc, row : IF Len(acc) < max /\ ~Contains(acc, row)
                             THEN Append(acc, row) ELSE acc, out, rows)

FirstRows(rows, n) == SubSeq(rows, 1, IF Len(rows) < n THEN Len(rows) ELSE n)

(* A stage is skipped once out is full; the store answers with the best max. *)
Stage(out, rows, max) ==
  IF Len(out) < max THEN MergeUnique(out, FirstRows(rows, max), max) ELSE out

(* Stages are sequences of rows in the store's order, the strongest signal
   first. *)
Staged(stages, max) == FoldLeft(LAMBDA out, rows : Stage(out, rows, max), <<>>, stages)

(* What the stages are for: every row some stage finds, unless out is full,
   each once, and a row of an early stage before one only a later stage has. *)
WellMatched(out, stages, max) ==
  LET Found == UNION {ToSet(stages[i]) : i \in DOMAIN stages}
      rank(row) == CHOOSE i \in DOMAIN stages :
                     /\ Contains(stages[i], row)
                     /\ \A j \in DOMAIN stages : Contains(stages[j], row) => i <= j
  IN /\ IsInjective(out) /\ Len(out) <= max
     /\ ToSet(out) \subseteq Found
     /\ Len(out) < max => ToSet(out) = Found
     /\ \A i, j \in DOMAIN out : i < j => rank(out[i]) <= rank(out[j])
=============================================================================
