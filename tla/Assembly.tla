------------------------------- MODULE Assembly -------------------------------
(***************************************************************************)
(* The context block of a turn with a task hint (memory_assemble.c with    *)
(* the plans and the confidence of memory_context.c): the pool of          *)
(* candidates is scored, ranked and judged, widened or withheld, and then  *)
(* cut into sections.  Texts are sets of words; scores are in thousandths, *)
(* weights and shares in hundredths.                                       *)
(***************************************************************************)
EXTENDS Integers, Sequences, FiniteSets, SequencesExt, FiniteSetsExt, Listing, Grounding

CONSTANTS
  Primary, Spare,     \* the rows each query lists: [id, kind, tier, conf, uses, key, text,
                      \* chars, rank, when, old]
  HintWords,          \* the words of the task hint
  Trivial,            \* those too short or too common to count as covered
  Boost,              \* the entities the graph boosts, with their scores
  MaxCandidates,      \* MAX_CANDIDATES
  TopCandidates,      \* those the confidence and the negative context look at
  MaxItems,           \* MAX_CONTEXT_MEMS
  BlockChars,         \* characters of all sections
  TokenBudget, LowBelow

(* An id is of one row of a query. *)
AssemblyAssumption ==
  /\ IsFiniteSet(Primary) /\ IsFiniteSet(Spare)
  /\ \A r \in Primary \cup Spare : r.chars \in Nat
  /\ \A r, f \in Primary : r.id = f.id => r = f
  /\ \A r, f \in Spare : r.id = f.id => r = f
  /\ {MaxCandidates, TopCandidates, MaxItems, BlockChars, TokenBudget} \subseteq Nat

ASSUME AssemblyAssumption

VARIABLES
  mode,      \* [budget, abstain, detect, temporal: BOOLEAN, intent]
  blockStep, \* of the assembly
  cands, lowConfidence, withheld,
  section,   \* the next section
  shown,     \* what each section shows, in order
  tokens,    \* tokens_used
  outdated   \* the old memories the negative context warns of

assemblyVars ==
  <<mode, blockStep, cands, lowConfidence, withheld, section, shown, tokens, outdated>>
-----------------------------------------------------------------------------
Least(a, b) == IF a < b THEN a ELSE b
Greatest(a, b) == IF a < b THEN b ELSE a

Priority == [L0 |-> 0, L1 |-> 1, L2 |-> 2, L3 |-> 3, L4 |-> 4, L5 |-> 5]

WordOverlap(words) == IF HintWords = {} THEN 0
                      ELSE (300 * Cardinality(HintWords \cap words)) \div Cardinality(HintWords)

GraphScore(r) ==
  MapThenSumSet(LAMBDA e : Boost[e] * ((IF e \in r.key THEN 1 ELSE 0)
                                       + IF e \in r.text THEN 1 ELSE 0),
                DOMAIN Boost) \div 50

Base(r) == 3 * r.conf + 20 * r.uses
Standing(r) == 50 * r.rank + 30 * Priority[r.tier]
Matches(r) == Greatest(WordOverlap(r.key), WordOverlap(r.text))
Recency(r) == IF mode.temporal THEN [no |-> 0, key |-> 100, text |-> 150][r.when] ELSE 0

Score(r) == Least(Base(r), 500) + Matches(r) + GraphScore(r) + Recency(r) + Standing(r)

(* A row of the fallback gets neither the graph nor the recency bonus. *)
FallbackScore(r) == Base(r) + Matches(r) + Standing(r)

Candidate(r, score) ==
  [row |-> r, score |-> score, tokens |-> r.chars \div 4 + 1]

(* cmp_candidates, and by density in budget mode: scope, tier, then the two
   scores; ties fall as qsort has them. *)
Outranks(c, d) ==
  LET dense == c.score * d.tokens - d.score * c.tokens
      plain == c.score - d.score
      first == IF mode.budget THEN dense ELSE plain
      second == IF mode.budget THEN plain ELSE dense
  IN \/ c.row.rank > d.row.rank
     \/ /\ c.row.rank = d.row.rank
        /\ \/ Priority[c.row.tier] > Priority[d.row.tier]
           \/ /\ c.row.tier = d.row.tier
              /\ first > 0 \/ (first = 0 /\ second > 0)

Ranked(set) == {s \in SetToSeqs(set) : \A i, j \in DOMAIN s : i < j => ~Outranks(s[j], s[i])}

(* The text of a row; assemble_texts_near_duplicate on its words. *)
Text(r) == IF r.text # {} THEN r.text ELSE r.key

Restates(a, b) ==
  /\ a # {} /\ b # {} /\ Cardinality(a) < 56 /\ Cardinality(b) < 56
  /\ 100 * Cardinality(a \cap b) >= 85 * Cardinality(a \cup b)
-----------------------------------------------------------------------------
(* memory_retrieval_confidence below the threshold. *)
BelowThreshold(cs) ==
  LET seen == UNION {cs[i].row.key \cup cs[i].row.text : i \in 1 .. Least(Len(cs), TopCandidates)}
      scores == [i \in DOMAIN cs |-> cs[i].score]
  IN HintWords = {} \/ cs = <<>> \/ Confidence(HintWords \ Trivial, seen, scores) < LowBelow

Judging == mode.detect \/ mode.abstain

AssemblyInit ==
  /\ mode \in [budget : BOOLEAN, abstain : BOOLEAN, detect : BOOLEAN, temporal : BOOLEAN,
               intent : {"debug", "plan", "review", "deploy", "general"}]
  /\ blockStep = "load" /\ cands = <<>> /\ lowConfidence = FALSE /\ withheld = FALSE
  /\ section = 1 /\ shown = [s \in 1 .. 6 |-> <<>>] /\ tokens = 0 /\ outdated = {}

(* Any of the rows may be there when the query runs. *)
Load ==
  /\ blockStep = "load" /\ blockStep' = IF Judging THEN "judge" ELSE "cut"
  /\ \E rows \in SUBSET Primary :
       /\ Cardinality(rows) <= MaxCandidates
       /\ cands' \in Ranked({Candidate(r, Score(r)) : r \in rows})
  /\ UNCHANGED <<mode, lowConfidence, withheld, section, shown, tokens, outdated>>

(* The fallback adds the rows the pool does not have. *)
Widened ==
  ToSet(cands) \cup {Candidate(r, FallbackScore(r)) :
                       r \in {f \in Spare : \A i \in DOMAIN cands : cands[i].row.id # f.id}}

Widen ==
  /\ blockStep = "judge" /\ BelowThreshold(cands) /\ Len(cands) < MaxCandidates
  /\ \E more \in SUBSET Widened :
       /\ ToSet(cands) \subseteq more
       /\ Cardinality(more) = Least(MaxCandidates, Cardinality(Widened))
       /\ cands' \in Ranked(more)
  /\ blockStep' = "verdict"
  /\ UNCHANGED <<mode, lowConfidence, withheld, section, shown, tokens, outdated>>

Trust ==
  /\ blockStep = "judge" /\ ~(BelowThreshold(cands) /\ Len(cands) < MaxCandidates)
  /\ blockStep' = "verdict"
  /\ UNCHANGED <<mode, cands, lowConfidence, withheld, section, shown, tokens, outdated>>

(* Low confidence: the caller is told, and with abstention nothing is shown. *)
Verdict ==
  /\ blockStep = "verdict" /\ blockStep' = "cut"
  /\ lowConfidence' = BelowThreshold(cands) /\ withheld' = (lowConfidence' /\ mode.abstain)
  /\ UNCHANGED <<mode, cands, section, shown, tokens, outdated>>
-----------------------------------------------------------------------------
(* retrieval_plan_for_intent: the share of each kind, scratch left out. *)
Plan ==
  LET shares == [debug   |-> <<14, 12, 10, 23, 5, 26, 10>>,
                 plan    |-> <<23, 12, 23,  5, 9,  5, 23>>,
                 review  |-> <<13, 15, 18,  9, 0, 10, 35>>,
                 deploy  |-> <<13, 12, 10, 14, 5, 27, 19>>,
                 general |-> <<18, 12, 14, 14, 10, 15, 17>>][mode.intent]
  IN [fact |-> shares[1], preference |-> shares[2], decision |-> shares[3],
      episode |-> shares[4], task |-> shares[5], procedure |-> shares[6], policy |-> shares[7]]

Sections ==
  << [kinds |-> {"policy", "workflow"}, tiers |-> {"L4"}, share |-> 16],
     [kinds |-> {"fact", "preference"}, tiers |-> DOMAIN Priority, share |-> Plan.fact + Plan.preference],
     [kinds |-> {"decision", "policy"}, tiers |-> DOMAIN Priority, share |-> Plan.decision + Plan.policy],
     [kinds |-> {"procedure"}, tiers |-> DOMAIN Priority, share |-> Plan.procedure],
     [kinds |-> {"task"}, tiers |-> DOMAIN Priority, share |-> Plan.task],
     [kinds |-> {"episode"}, tiers |-> DOMAIN Priority, share |-> Plan.episode] >>

MaxChars(s) == (Sections[s].share * BlockChars) \div 100

ShownIds == UNION {{shown[s][i].row.id : i \in DOMAIN shown[s]} : s \in DOMAIN shown}

(* Its id is set to 0 when a candidate is shown. *)
Consumed == ShownIds

Open == IF withheld THEN <<>> ELSE cands

Belongs(c, s) == /\ c.row.id \notin Consumed
                 /\ c.row.kind \in Sections[s].kinds /\ c.row.tier \in Sections[s].tiers

Cost(cs) == Total([i \in DOMAIN cs |-> cs[i].tokens])

Affordable(c, sel) == mode.budget => tokens + Cost(sel) + c.tokens <= TokenBudget

(* Mutant: only the last one selected is looked at. *)
NewsToTheLast(c, sel) == sel = <<>> \/ ~Restates(Text(c.row), Text(Last(sel).row))

News(c, sel) == \A i \in DOMAIN sel : ~Restates(Text(c.row), Text(sel[i].row))

Select(sel, c, s) ==
  IF Len(sel) < MaxItems /\ Belongs(c, s) /\ Affordable(c, sel) /\ News(c, sel)
  THEN Append(sel, c) ELSE sel

(* The best candidates of a section, in their order. *)
Selected(s) ==
  LET upto[n \in 0 .. Len(Open)] == IF n = 0 THEN <<>> ELSE Select(upto[n - 1], Open[n], s)
  IN  upto[Len(Open)]

Chars(cs) == Total([i \in DOMAIN cs |-> cs[i].row.chars])

Emit(out, c, max) == IF Chars(out) + c.row.chars <= max THEN Append(out, c) ELSE out

(* The lowest first, leaving out what does not fit any more. *)
Emitted(sel, max) ==
  LET upto[n \in 0 .. Len(sel)] ==
        IF n = 0 THEN <<>> ELSE Emit(upto[n - 1], sel[Len(sel) - n + 1], max)
  IN  upto[Len(sel)]

Cut ==
  /\ blockStep = "cut"
  /\ LET out == Emitted(Selected(section), MaxChars(section))
     IN  /\ shown' = [shown EXCEPT ![section] = out]
         /\ tokens' = IF mode.budget THEN tokens + Cost(out) ELSE tokens
  /\ IF section < 6 THEN section' = section + 1 /\ UNCHANGED blockStep
     ELSE blockStep' = "negative" /\ UNCHANGED section
  /\ UNCHANGED <<mode, cands, lowConfidence, withheld, outdated>>

(* append_negative_context_block: at most four superseded memories of the
   first candidates, each once.  Their ids are those before the sections. *)
Outdated ==
  LET old == {i \in DOMAIN Open : i <= TopCandidates /\ Open[i].row.old # 0}
      before(i) == {Open[j].row.old : j \in {k \in old : k < i}}
  IN {Open[i].row.old : i \in {k \in old : Cardinality(before(k)) < 4}}

Negative ==
  /\ blockStep = "negative" /\ blockStep' = "done" /\ outdated' = Outdated
  /\ UNCHANGED <<mode, cands, lowConfidence, withheld, section, shown, tokens>>

-----------------------------------------------------------------------------
(* Mutant: a candidate is compared with all before it, shown or not. *)
AdmittedAny(entries) == DOMAIN entries

Admitted(entries) == {i \in DOMAIN entries : entries[i].selected}

TokensOf(entries) ==
  Total([i \in DOMAIN entries |-> IF entries[i].selected THEN entries[i].tokens ELSE 0])

(* One entry of memory_assemble_context_explain: a restatement of one admitted
   before, else a matter of the budget or of the number of entries. *)
Entry(cs, entries) ==
  LET c == cs[Len(entries) + 1]
      twins == {i \in Admitted(entries) : Restates(Text(c.row), Text(cs[i].row))}
      fits == IF mode.budget THEN TokensOf(entries) + c.tokens <= TokenBudget
              ELSE Len(entries) < MaxItems
  IN [tokens |-> c.tokens, selected |-> twins = {} /\ fits,
      of |-> IF twins = {} THEN 0 ELSE Min(twins)]

Explained(cs) ==
  LET upto[n \in 0 .. Len(cs)] ==
        IF n = 0 THEN <<>> ELSE Append(upto[n - 1], Entry(cs, upto[n - 1]))
  IN  upto[Len(cs)]

AssemblyNext == Load \/ Widen \/ Trust \/ Verdict \/ Cut \/ Negative

AssemblySpec == AssemblyInit /\ [][AssemblyNext]_assemblyVars
-----------------------------------------------------------------------------
AssemblyTypes ==
  /\ blockStep \in {"load", "judge", "verdict", "cut", "negative", "done"}
  /\ section \in 1 .. 6 /\ lowConfidence \in BOOLEAN /\ withheld \in BOOLEAN /\ tokens \in Nat
  /\ Len(cands) <= MaxCandidates

(***************************************************************************)
(* A memory is shown once in the whole block, although a policy of tier L4 *)
(* belongs to two sections and the fallback lists rows the pool has.       *)
(***************************************************************************)
ShownOnce ==
  \A s, t \in 1 .. 6 : \A i \in DOMAIN shown[s], j \in DOMAIN shown[t] :
    shown[s][i].row.id = shown[t][j].row.id => s = t /\ i = j

(***************************************************************************)
(* In budget mode the block never costs more tokens than its budget, and   *)
(* no section outgrows its characters, however the sections share it.      *)
(***************************************************************************)
BudgetHolds ==
  /\ mode.budget => tokens <= TokenBudget
  /\ \A s \in 1 .. 6 : shown[s] = <<>> \/ Chars(shown[s]) <= MaxChars(s)

(***************************************************************************)
(* "A restatement admitted here is evidence displaced": no section shows   *)
(* two texts that say the same thing.                                      *)
(***************************************************************************)
NoRestatement ==
  \A s \in 1 .. 6 : \A i, j \in DOMAIN shown[s] :
    i # j => ~Restates(Text(shown[s][i].row), Text(shown[s][j].row))

(***************************************************************************)
(* When the evidence is withheld nothing of it leaks into the block, the   *)
(* warnings about superseded memories included.                            *)
(***************************************************************************)
AbstainIsSilent == withheld => lowConfidence /\ ShownIds = {} /\ outdated = {}

(***************************************************************************)
(* "suppression is judged against what the model will actually see": what  *)
(* is explained away as a restatement restates an entry that is selected,  *)
(* and the entries selected are within the budget or the cap.              *)
(***************************************************************************)
ExplainHolds ==
  blockStep = "done" =>
    LET entries == Explained(cands) IN
    /\ \A i \in DOMAIN entries :
         entries[i].of # 0 => ~entries[i].selected /\ entries[entries[i].of].selected
    /\ IF mode.budget THEN TokensOf(entries) <= TokenBudget
       ELSE Cardinality({i \in DOMAIN entries : entries[i].selected}) <= MaxItems

(***************************************************************************)
(* A block shows nothing twice, stays within its budget, and shows nothing *)
(* at all when the evidence is withheld; what the diagnostic says was      *)
(* suppressed restates what it says was selected                           *)
(* (append_task_aware_context, memory_assemble_context_explain).           *)
(***************************************************************************)
ContextSound ==
  AssemblyTypes /\ ShownOnce /\ BudgetHolds /\ NoRestatement /\ AbstainIsSilent /\ ExplainHolds

=============================================================================
