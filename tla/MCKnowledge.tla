------------------------------ MODULE MCKnowledge ------------------------------
(***************************************************************************)
(* Small instances of the modules around the memories of a turn.  They     *)
(* share no state, so a behaviour runs one of them, its part, and the      *)
(* others stay at an initial state.                                        *)
(***************************************************************************)
EXTENDS Directives, Prospective, ContextCache, Derived, Answer, Recall, Search,
        Assembly

CONSTANT Parts  \* the parts the run has

VARIABLES
  part,
  memo, asked, try, served, admitted, denied, got, spilled, asks,
  tday, born, said, refs, query, want, hits,
  script, pos, pieces, over,
  gjob, graph, hop, queue, unread, map, near, related, cut,
  wedges, mask, maxHops, whop, frontier, next, node, wunread, visited, wfound, wcut,
  gstart, allow, seeds, nodes, nhits, expansions, short

mvars == <<memo, asked, try, served, admitted, denied, got, spilled, asks>>
tvars == <<tday, born, said, refs, query, want, hits>>
kvars == <<script, pos, pieces, over>>
gvars == <<gjob, graph, hop, queue, unread, map, near, related, cut>>
hvars == <<wedges, mask, maxHops, whop, frontier, next, node, wunread, visited, wfound, wcut>>
nvars == <<gstart, allow, seeds, nodes, nhits, expansions, short>>
allvars == <<part, vars, reminderVars, cacheVars, assemblyVars, recallVars, answerVars, searchVars, mvars, tvars, indexVars, kvars,
             gvars, hvars, nvars>>

\* What the memories of the index are about, and how they follow one another.
Named == [c |-> 1, d |-> 0]
Earlier == << <<>>, <<1>> >>
Newer == {<<2, 1>>}
InStore == <<"c", "d">>

\* The contradictory pairs, the topics and the anchors of the instance.
Contradictory == {<<1, 2>>, <<3, 1>>}
Topic(m) == IF m = 3 THEN "y" ELSE "x"

LastDay(r) == CASE r = 1 -> 1 [] r = 2 -> 0 [] OTHER -> 2
EntityOf(r) == IF r \in {1, 3} THEN "x" ELSE Unset
FileOf(r) == IF r \in {1, 2} THEN "x" ELSE Unset

Row(id, kind, tier, conf, text, chars, rank, old) ==
  [id |-> id, kind |-> kind, tier |-> tier, conf |-> conf, uses |-> id, key |-> {"k"},
   text |-> text, chars |-> chars, rank |-> rank, when |-> IF id = 2 THEN "text" ELSE "no",
   old |-> old]

Prime ==
  {Row(1, "policy", "L4", 90, {"a", "b"}, 8, 1, 7), Row(2, "policy", "L2", 60, {"a", "c"}, 4, 1, 0),
   Row(3, "fact", "L2", 60, {"d"}, 8, 1, 0), Row(4, "fact", "L2", 50, {"d"}, 8, 0, 0),
   Row(5, "preference", "L2", 10, {}, 12, 1, 8)}

Others == {Row(1, "policy", "L4", 90, {"a", "b"}, 8, 1, 7), Row(6, "fact", "L0", 40, {"q"}, 4, 1, 0)}
Boosted == [e \in {"b"} |-> 500]

SectionNames == {"rules", "identity", "preferences", "active", "commitments", "reminders", "directives"}

RowsOf(s) == CASE s = "directives" -> {1, 2, 3} [] s \in {"rules", "identity"} -> {1, 2}
               [] s = "active" -> {1} [] OTHER -> {}
LengthOf(s, r) == IF r = 1 THEN 3 ELSE 6

Listable == [s \in SectionNames |-> RowsOf(s)]
Caps == [s \in SectionNames |-> [b \in BOOLEAN |-> IF b THEN 2 ELSE 1]]

Hit(id, session, kind, tier, words, score, frame) ==
  [id |-> id, session |-> session, kind |-> kind, tier |-> tier, words |-> words, score |-> score,
   frame |-> frame, referred |-> id \in {3, 4}, summed |-> id = 2, blank |-> id = 5]

Matching ==
  {Hit(1, "s", "fact", "L2", {"a", "b"}, 60, {}),
   Hit(2, "s", "episode", "L1", {"a"}, 40, {"object", "time"}),
   Hit(3, "", "fact", "L4", {}, 0, {"location", "moves"}),
   Hit(4, "s", "fact", "L2", {"b"}, 20, {"actor"}), Hit(5, "", "fact", "L2", {}, 10, {})}

Rankings == {f \in SeqOf(Matching, 3) : \A i, j \in DOMAIN f : i # j => f[i].id # f[j].id}

SearchCall(entry, on) ==
  [entry |-> entry, subs |-> IF "subs" \in on THEN 1 ELSE 0, open |-> "open" \in on,
   hides |-> "hides" \in on, hyde |-> "hyde" \in on, semantic |-> "semantic" \in on,
   fused |-> "fused" \in on, links |-> "links" \in on, lanes |-> "lanes" \in on,
   window |-> "window" \in on]

Leads(from, to) == [i \in 1 .. 6 |-> IF i = from THEN to ELSE <<>>]

SearchCalls ==
  {SearchCall("scoped", on) :
     on \in {{}, {"hyde", "semantic", "lanes"}, {"subs", "lanes"}, {"hides", "lanes"},
            {"hides", "fused", "links"}, {"open", "window", "hides"}}}
  \cup {SearchCall("visible", on) :
          on \in {{"lanes"}, {"open", "semantic", "lanes"}, {"links", "lanes"}}}

QueryResults == {<<>>, <<1, 2, 4>>, <<3, 5, 6>>, <<2, 6>>}
Ranks == <<2, 1, 2, 1, 0, 1>>
Links == Leads(1, <<5>>)
Bridges == Leads(2, <<4>>)
Sessions == Leads(3, <<1, 5>>)

E == INSTANCE EmbedMemo WITH
       Texts <- {"a", "b", "c", "long"}, Long <- {"long"},
       Batches <- {<<"a", "b", "a">>, <<"b", "c", "long", "a">>}, Command <- "command",
       Http <- TRUE, Cap <- 2, MaxAsks <- 4

Word(w, len) == [w |-> w, n |-> 0, len |-> len]
Numeral(n, len) == [w |-> "#", n |-> n, len |-> len]

\* Days around the turn of a year and the end of a February.
T == INSTANCE Dates WITH
       Days <- {363, 365, 367, 420, 422, 425}, Span <- 8,
       Sayings <-
         {<<Word("today", 5)>>, <<Word("yesterday", 9)>>, <<Word("tomorrow", 8)>>,
          <<Numeral(3, 1), Word("days", 4), Word("ago", 3)>>,
          <<Numeral(2, 1), Word("weeks", 5), Word("ago", 3)>>,
          <<Numeral(2, 1), Word("months", 6), Word("ago", 3)>>, <<Word("last", 4), Word("week", 4)>>,
          <<Word("last", 4), Word("month", 5)>>, <<Word("last", 4), Word("year", 4)>>,
          <<Word("last", 4), Word("tuesday", 7)>>, <<Word("next", 4), Word("week", 4)>>,
          <<Word("march", 5), Numeral(2, 1), Numeral(2024, 4)>>,
          <<Word("before", 6), Numeral(2024, 4), Numeral(3, 2), Numeral(1, 2)>>,
          <<Word("between", 7), Numeral(28, 2), Word("feb", 3), Numeral(2024, 4),
            Word("and", 3), Word("march", 5)>>},
       today <- tday, asked <- query

K == INSTANCE Chunker WITH
       MaxText <- 7, Window <- 5, Overlap <- 2, MaxPieces <- 3, text <- script

Talk(a, b, w) == [ends |-> {a, b}, rel |-> "talk", weight |-> w]
Coded(a, b, w) == [ends |-> {a, b}, rel |-> "code", weight |-> w]

G == INSTANCE EntityGraph WITH
       Graphs <- {{Talk("s", "a", 4), Talk("s", "b", 2), Talk("a", "b", 8), Coded("a", "c", 6)},
                  {Talk("s", "a", 2), Talk("t", "a", 4), Talk("a", "d", 2), Coded("s", "c", 2),
                   Coded("a", "c", 6), Coded("a", "t", 10)},
                  {Talk("s", "a", 2), Talk("s", "b", 4), Talk("s", "c", 6), Talk("a", "d", 8),
                   Talk("t", "d", 2), Talk("t", "e", 4), Talk("e", "c", 4)},
                  {Talk("s", "a", 12), Talk("t", "b", 4), Talk("a", "b", 10)}},
       Terms <- <<"s", "t">>,
       Names <- <<{"a", "t"}, {"a", "c"}, {"s", "b"}, {"t"}, {"t"}>>, Seeds <- {3},
       MapCap <- 4, NearCap <- 2, FarCap <- 2, HitCap <- 2, MaxOut <- 4,
       job <- gjob, step <- hop, rows <- unread

Typed(a, b, rel) == [ends |-> {a, b}, rel |-> rel]

H == INSTANCE GraphWalk WITH
       Seed <- "s",
       Graphs <- {{Typed("s", "a", "none"), Typed("s", "b", "calls"), Typed("a", "b", "calls"),
                   Typed("a", "c", "co_discussed"), Typed("b", "d", "none"), Typed("d", "s", "calls"),
                   Typed("b", "c", "calls")},
                  {Typed("s", "a", "none"), Typed("a", "b", "none"), Typed("b", "c", "none"),
                   Typed("c", "s", "calls")}},
       Masks <- {{"co_discussed"}, {"calls"}, {"co_discussed", "calls"}}, Hops <- 0 .. 3,
       PerNode <- 3, Remember <- 4, MaxOut <- 5,
       edges <- wedges, hop <- whop, unread <- wunread, found <- wfound, cut <- wcut

N == INSTANCE GraphExpand WITH
       Starts <- {<<"a">>, <<"a", "f">>, <<"f", "b">>, <<"a", "b">>}, Code <- {"f", "g"},
       Edges <- [a |-> [b |-> 3, f |-> 5], b |-> [a |-> 4, c |-> 1, g |-> 7],
                 c |-> [b |-> 2], f |-> [a |-> 5, g |-> 6], g |-> [f |-> 6]],
       Attached <- [a |-> {1, 2}, b |-> {2, 3}, c |-> {1}, f |-> {3}, g |-> {2, 4}],
       SeedScore <- 2, Neighbours <- 2, HitCap <- 2, MaxOut <- 4,
       start <- gstart, hits <- nhits

ASSUME G!EntityGraphAssumption /\ H!GraphWalkAssumption /\ N!GraphExpandAssumption

Runs(p) == part = p

\* A part that does not run has its settings fixed, and they do not matter.
KInit ==
  /\ part \in Parts /\ Init /\ ReminderInit /\ CacheInit /\ E!Init /\ IndexInit
  /\ AssemblyInit
  /\ part # "assembly" =>
       /\ ~mode.budget /\ ~mode.abstain /\ ~mode.detect /\ ~mode.temporal
       /\ mode.intent = "general"
  /\ RecallInit
  /\ part # "recall" => ~start /\ ~hinted /\ limit = 4
  /\ AnswerInit
  /\ part # "answer" => /\ ~request.abstain /\ request.intent = "other" /\ request.words = {}
                       /\ request.threshold = 40 /\ request.floor = 0 /\ matches = <<>>
  /\ SearchInit
  /\ part # "search" => set = SearchCall("scoped", {}) /\ saved = "none"
  /\ T!Init
  /\ part # "dates" => born = 363 /\ Len(said) = 1 /\ said[1].w = "today"
  /\ K!Init
  /\ part # "chunks" => script = <<>>
  /\ G!Init /\ H!Init /\ N!Init
  /\ part # "graph" => gjob = "boost" /\ Cardinality(graph) = 7
  /\ part # "walk" => Cardinality(wedges) = 7 /\ mask = {"calls"} /\ maxHops = 0
  /\ part # "expand" => gstart = <<"a">> /\ allow

KNext ==
  /\ UNCHANGED part
  /\ \/ part = "directives" /\ Next
        /\ UNCHANGED <<reminderVars, cacheVars, assemblyVars, recallVars, answerVars, searchVars, mvars, tvars, indexVars, kvars, gvars,
                       hvars, nvars>>
     \/ part = "reminders" /\ ReminderNext
        /\ UNCHANGED <<vars, cacheVars, assemblyVars, recallVars, answerVars, searchVars, mvars, tvars, indexVars, kvars, gvars,
                       hvars, nvars>>
     \/ part = "cache" /\ CacheNext
        /\ UNCHANGED <<vars, reminderVars, assemblyVars, recallVars, answerVars, searchVars, mvars, tvars, indexVars, kvars, gvars,
                       hvars, nvars>>
     \/ part = "assembly" /\ AssemblyNext
        /\ UNCHANGED <<vars, reminderVars, cacheVars, recallVars, answerVars, searchVars, mvars, tvars, indexVars, kvars, gvars,
                       hvars, nvars>>
     \/ part = "recall" /\ RecallNext
        /\ UNCHANGED <<vars, reminderVars, cacheVars, assemblyVars, answerVars, searchVars, mvars, tvars, indexVars, kvars, gvars,
                       hvars, nvars>>
     \/ part = "answer" /\ AnswerNext
        /\ UNCHANGED <<vars, reminderVars, cacheVars, assemblyVars, recallVars, searchVars, mvars, tvars, indexVars, kvars, gvars,
                       hvars, nvars>>
     \/ part = "search" /\ SearchNext
        /\ UNCHANGED <<vars, reminderVars, cacheVars, assemblyVars, recallVars, answerVars, mvars, tvars, indexVars, kvars, gvars,
                       hvars, nvars>>
     \/ part = "memo" /\ E!Next
        /\ UNCHANGED <<vars, reminderVars, cacheVars, assemblyVars, recallVars, answerVars, searchVars, tvars, indexVars, kvars, gvars,
                       hvars, nvars>>
     \/ part = "dates" /\ T!Next
        /\ UNCHANGED <<vars, reminderVars, cacheVars, assemblyVars, recallVars, answerVars, searchVars, mvars, indexVars, kvars, gvars,
                       hvars, nvars>>
     \/ part = "derived" /\ IndexNext
        /\ UNCHANGED <<vars, reminderVars, cacheVars, assemblyVars, recallVars, answerVars, searchVars, mvars, tvars, kvars, gvars,
                       hvars, nvars>>
     \/ part = "chunks" /\ K!Next
        /\ UNCHANGED <<vars, reminderVars, cacheVars, assemblyVars, recallVars, answerVars, searchVars, mvars, tvars, indexVars, gvars,
                       hvars, nvars>>
     \/ part = "graph" /\ G!Next
        /\ UNCHANGED <<vars, reminderVars, cacheVars, assemblyVars, recallVars, answerVars, searchVars, mvars, tvars, indexVars, kvars,
                       hvars, nvars>>
     \/ part = "walk" /\ H!Next
        /\ UNCHANGED <<vars, reminderVars, cacheVars, assemblyVars, recallVars, answerVars, searchVars, mvars, tvars, indexVars, kvars,
                       gvars, nvars>>
     \/ part = "expand" /\ N!Next
        /\ UNCHANGED <<vars, reminderVars, cacheVars, assemblyVars, recallVars, answerVars, searchVars, mvars, tvars, indexVars, kvars,
                       gvars, hvars>>

KSpec == KInit /\ [][KNext]_allvars
-----------------------------------------------------------------------------
\* A lane gets the vector of the text it asks about, computed once in a recall, and the
\* breaker hears of every request it let through (memory_embed_text_runtime,
\* memory_query_embed_prewarm); a memory and a query that speak of the same day in
\* relation to different days meet, and others do not (memory_refresh_temporal_refs,
\* memory_parse_temporal_constraint); the chunks of a text leave nothing out and repeat
\* little (memory_refresh_chunks); a walk of the graph finds what is in reach at its
\* distance, and an expansion the best way to a memory, never over a node of the code
\* graph that the query may not enter (memory_graph_walk, memory_graph_expand_from_seeds);
\* contexts with and without a request scope do not mix in the cache
\* (memory_assemble_context); an entity of the graph has the score of its best edge, and
\* what is related to the seeds names one (memory_graph_boost, memory_graph_related).
LookupSound ==
  /\ Runs("memo") => E!TypeOK /\ E!VectorsAreOwn /\ E!EmbeddedOnce /\ E!AdmissionsEnd
  /\ Runs("walk") => H!TypeOK /\ H!WalkIsBreadthFirst /\ H!EntriesConnect
  /\ Runs("expand") => N!TypeOK /\ N!ExpandedOnce /\ N!CodeStaysOut /\ N!ScoreIsBest
  /\ Runs("chunks") => K!TypeOK /\ K!NothingSkipped /\ K!RepeatsAreShort
  /\ Runs("dates") => T!TypeOK /\ T!SameDayIsFound /\ T!LastWeekIsAWeek /\ T!LastAgrees
  /\ Runs("cache") => CacheTypeOK /\ ScopesDoNotMix
  /\ Runs("graph") => G!TypeOK /\ G!SpreadIsExact /\ G!NearComesFirst /\ G!RelatedHolds

=============================================================================
