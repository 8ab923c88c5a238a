-------------------------------- MODULE Answer --------------------------------
(***************************************************************************)
(* memory_ask_query_scoped and memory_answer_query_scoped                  *)
(* (memory_core_search_c.c): one answer from what a search has found.  An  *)
(* anchor is chosen, the text comes from its cluster, the cluster is       *)
(* cited, and the answerability gate keeps or withholds it.  A text is the *)
(* set of its words; coverages and thresholds are in hundredths.           *)
(*                                                                         *)
(* The reprompt, the strip and the warning for an answer without citation  *)
(* are not actions: AlwaysCited shows that their guard never holds.        *)
(***************************************************************************)
EXTENDS Grounding, Listing, FiniteSetsExt

CONSTANTS
  Findings,       \* what a search may return: sequences of rows [id, session, kind, tier,
                  \* words, score, frame, referred, summed, blank]
  QueryWords,     \* the significant words of a query
  Thresholds, ChunkFloors,
  MaxCitations, Slack

ASSUME AnswerAssumption ==
  /\ \A f \in Findings : /\ f \in Seq({f[i] : i \in DOMAIN f})
                         /\ \A i \in DOMAIN f : f[i].score \in Int
  /\ \A words \in QueryWords : IsFiniteSet(words)
  /\ Thresholds \subseteq Int /\ ChunkFloors \subseteq Int
  /\ MaxCitations \in Nat \ {0} /\ Slack \in Nat \ {0}

VARIABLES
  request,   \* [abstain, threshold, floor, intent, words]
  matches,
  result,    \* [from, cited, sure, low, decision, reason]
  reply,     \* what memory_answer_query_scoped hands out
  stage

answerVars == <<request, matches, result, reply, stage>>
-----------------------------------------------------------------------------
NoText == <<0, "nothing">>

AnswerInit ==
  /\ request \in [abstain : BOOLEAN, threshold : Thresholds, floor : ChunkFloors,
                  intent : {"temporal", "entity", "other"}, words : QueryWords]
  /\ matches = <<>> /\ stage = "search" /\ reply = "none"
  /\ result = [from |-> NoText, cited |-> <<>>, sure |-> 0, low |-> FALSE,
               decision |-> "answerable", reason |-> "ok"]

Abstained(reason) == [result EXCEPT !.decision = "abstain", !.reason = reason]

(* The index is unavailable, or it has nothing. *)
SearchEmpty ==
  /\ stage = "search" /\ stage' = "render"
  /\ \E reason \in {"db_unavailable", "structural_empty"} : result' = Abstained(reason)
  /\ UNCHANGED <<request, matches, reply>>

SearchFinds ==
  /\ stage = "search" /\ stage' = "extract"
  /\ matches' \in Findings \ {<<>>}
  /\ UNCHANGED <<request, result, reply>>
-----------------------------------------------------------------------------
Member(a, i) ==
  \/ a = i
  \/ matches[a].session # "" /\ matches[a].session = matches[i].session

Cluster(a) == {i \in DOMAIN matches : Member(a, i)}

(* 840 is divisible by every rank up to eight: a whole point is 84000. *)
Shares(a) == [i \in DOMAIN matches |-> IF i \in Cluster(a) THEN 29400 \div i ELSE 0]

Points(a) ==
  LET of(k) == \E i \in Cluster(a) : matches[i].kind = k
      n == Cardinality(Cluster(a))
  IN 840 * ((IF n > 1 THEN 8 * Min({n, 4}) ELSE 0)
            + (IF \E i \in Cluster(a) : matches[i].kind # matches[a].kind THEN 10 ELSE 0)
            + (IF of("episode") THEN 12 ELSE 0) + IF of("fact") THEN 8 ELSE 0)
     + 84000 \div a + Total(Shares(a))

(* The first of the highest scores. *)
Anchor ==
  CHOOSE a \in DOMAIN matches :
    \A b \in DOMAIN matches : Points(b) < Points(a) \/ (Points(b) = Points(a) /\ a <= b)

(* memory_pick_answer_from_event: the field of an event frame that answers. *)
Field(frame) ==
  CASE request.intent = "temporal" /\ "time" \in frame -> "time"
    [] request.intent = "entity" /\ "actor" \in frame -> "actor"
    [] {"location", "moves"} \subseteq frame -> "location"
    [] "object" \in frame -> "object"
    [] OTHER -> "nothing"

Extracted ==
  LET framed == {i \in Cluster(Anchor) : Field(matches[i].frame) # "nothing"}
      dated == {i \in Cluster(Anchor) : request.intent = "temporal" /\ matches[i].referred}
      summed == {i \in Cluster(Anchor) : matches[i].summed}
  IN IF framed # {} THEN <<Min(framed), Field(matches[Min(framed)].frame)>>
     ELSE IF dated # {} THEN <<Min(dated), "reference">>
     ELSE IF summed # {} THEN <<Min(summed), "summary">>
     ELSE IF matches[Anchor].blank THEN NoText ELSE <<Anchor, "content">>

(* memory_collect_answer_citation_ids, whose second pass finds the anchor cited. *)
Citations ==
  LET inOrder == Ascending(Cluster(Anchor))
  IN [k \in 1 .. Min({MaxCitations, Len(inOrder)}) |-> matches[inOrder[k]].id]

(* memory_answer_confidence of a cited answer, in thousandths of 84000. *)
MostSure == 84000000

Sureness ==
  225 * Min({Points(Anchor), 168000}) + 16800000 \div Anchor
  + 50 * 84000 * Min({Len(matches), 4}) + 150 * 84000

Extract ==
  /\ stage = "extract"
  /\ IF Extracted = NoText
     THEN result' = Abstained("structural_no_extract") /\ stage' = "render"
     ELSE /\ stage' = "gate"
          /\ result' = [result EXCEPT !.from = Extracted, !.cited = Citations, !.sure = Sureness]
  /\ UNCHANGED <<request, matches, reply>>
-----------------------------------------------------------------------------
Curated == matches[Anchor].tier \in {"L4", "L5"}

(* The chunk floor counts only when answers may be withheld. *)
Kept == Ascending({i \in DOMAIN matches : ~request.abstain \/ matches[i].score >= request.floor})

Scores ==
  [k \in DOMAIN Kept |-> IF matches[Kept[k]].score > 0 THEN matches[Kept[k]].score
                         ELSE Len(matches) + 1 - Kept[k]]

WordsOf(is) == UNION {matches[i].words : i \in is}

(* What the anchor, its cluster and the best matches cover of the query. *)
Grounded ==
  Min({Covered(request.words, matches[Anchor].words),
       Covered(request.words, WordsOf(Cluster(Anchor))),
       IF request.words = {} THEN 0
       ELSE Confidence(request.words, WordsOf({Kept[k] : k \in DOMAIN Kept}), Scores)})

(* Just below the threshold a confident answer passes. *)
Suffices ==
  \/ Grounded >= request.threshold
  \/ /\ request.threshold - Grounded < Slack
     /\ result.sure >= request.threshold * 840000

(* Mutant: the text is withheld and the citations stay. *)
WithheldKeepingCitations(reason) == [Abstained(reason) EXCEPT !.from = NoText, !.low = TRUE]

Withheld(reason) ==
  [Abstained(reason) EXCEPT !.from = NoText, !.cited = <<>>, !.low = TRUE]

Gate ==
  /\ stage = "gate" /\ stage' = "render"
  /\ result' = IF Curated
               THEN [result EXCEPT !.decision = "exempt", !.reason = "curated_exempt"]
               ELSE IF ~request.abstain THEN result
               ELSE IF Kept = <<>> THEN Withheld("chunk_floor")
               ELSE IF Suffices THEN result ELSE Withheld("grounding_low")
  /\ UNCHANGED <<request, matches, reply>>

Render ==
  /\ stage = "render" /\ stage' = "out"
  /\ reply' = IF result.reason = "db_unavailable" THEN "error"
              ELSE IF result.from = NoText THEN "no answer"
              ELSE IF result.cited # <<>> THEN "cited" ELSE "plain"
  /\ UNCHANGED <<request, matches, result>>

AnswerNext == SearchEmpty \/ SearchFinds \/ Extract \/ Gate \/ Render

AnswerSpec == AnswerInit /\ [][AnswerNext]_answerVars
-----------------------------------------------------------------------------
AnswerTypeOK ==
  /\ stage \in {"search", "extract", "gate", "render", "out"}
  /\ reply \in {"none", "error", "no answer", "cited", "plain"}
  /\ result.decision \in {"answerable", "abstain", "exempt"}
  /\ result.sure \in Nat /\ result.sure <= MostSure
  /\ Len(result.cited) <= MaxCitations

(***************************************************************************)
(* An abstention hands out neither text nor citations, and everything else *)
(* has both: whatever citations_mode asks for, no answer is without one.   *)
(***************************************************************************)
ResultAgrees ==
  stage \in {"render", "out"} =>
    /\ (result.decision = "abstain") = (result.from = NoText)
    /\ (result.from = NoText) = (result.cited = <<>>)

AlwaysCited == stage \in {"gate", "render", "out"} /\ result.from # NoText => result.cited # <<>>

(***************************************************************************)
(* The memory the text is taken from belongs to the anchor's session and   *)
(* is cited, unless the citations are full.                                *)
(***************************************************************************)
SourceIsCited ==
  stage = "out" /\ result.from # NoText =>
    LET source == matches[result.from[1]] IN
    /\ result.from[1] \in Cluster(Anchor)
    /\ \/ \E k \in DOMAIN result.cited : result.cited[k] = source.id
       \/ Len(result.cited) = MaxCitations /\ Cardinality(Cluster(Anchor)) > MaxCitations

(***************************************************************************)
(* With abstention on, an answer that is not curated rests on the anchor's *)
(* own words and on the threshold, however much the rest of the cluster    *)
(* covers; a curated one is never withheld.                                *)
(***************************************************************************)
AnswersAreGrounded ==
  stage = "out" /\ matches # <<>> /\ request.abstain =>
    IF Curated THEN result.decision = "exempt" \/ result.reason = "structural_no_extract"
    ELSE result.from # NoText =>
           /\ Covered(request.words, matches[Anchor].words) > request.threshold - Slack
           /\ \E i \in DOMAIN matches : matches[i].score >= request.floor

(***************************************************************************)
(* An answer has its text from a memory it cites, of the anchor's session, *)
(* and a query the evidence does not cover gets neither text nor citation. *)
(***************************************************************************)
AnswerSound ==
  AnswerTypeOK /\ ResultAgrees /\ AlwaysCited /\ SourceIsCited /\ AnswersAreGrounded
=============================================================================
