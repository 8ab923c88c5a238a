-------------------------------- MODULE Search --------------------------------
(***************************************************************************)
(* memory_find_facts_scoped and memory_find_facts_visible_ex               *)
(* (memory_core_search_c.c and _b.c): from a query to a page of memories.  *)
(* Several passes collect candidates lane by lane; the pool is filtered,   *)
(* extended along the graph, ranked, and cut to the page.  What a lane     *)
(* finds and how the ranking orders it is arbitrary here: the scores are   *)
(* data.  The control around them is not.                                  *)
(***************************************************************************)
EXTENDS Integers, Sequences, FiniteSets, SequencesExt, Listing, StagedMatch

CONSTANTS
  Findable, ScopeRank, \* the memories; 0 when the request's scope does not see one
  Archived, SummaryIds, FactIds,
  Finds,              \* what one query to the store may return
  Linked, Bridged, Nearby,    \* what links, the fused graph and the sessions lead to
  Settings,           \* [entry, open, hides, hyde, subs, semantic, fused, links, lanes, window]
  PoolCap, SubPool, WideBuffer,    \* MEMORY_RERANK_BUFFER, its half, and 128
  PageLimit, PageRoom,  \* the page asked for, and the room of the caller
  SummaryFloor, FactFloor

(* 0 is no id.  Floors that ask for more places than the page has are left out: the
   places run out, and the row before the first is addressed. *)
SearchAssumption ==
  /\ IsFiniteSet(Findable) /\ 0 \notin Findable
  /\ ScopeRank \in [Findable -> Nat] /\ Finds \subseteq Seq(Findable)
  /\ {Linked, Bridged, Nearby} \subseteq [Findable -> Seq(Findable)]
  /\ Settings \subseteq [entry : {"scoped", "visible"}, subs : Nat, open : BOOLEAN,
                         hides : BOOLEAN, hyde : BOOLEAN, semantic : BOOLEAN, fused : BOOLEAN,
                         links : BOOLEAN, lanes : BOOLEAN, window : BOOLEAN]
  /\ {PoolCap, SubPool, WideBuffer, PageLimit, PageRoom, SummaryFloor, FactFloor} \subseteq Nat
  /\ PoolCap <= WideBuffer
  /\ SummaryFloor + FactFloor <= PageLimit /\ SummaryFloor + FactFloor <= PageRoom

ASSUME SearchAssumption

VARIABLES
  set,       \* the settings of this call
  searchStage, pass,
  candidates,     \* of this pass
  pool,      \* merged so far, in order
  lanes,     \* s_lane_summary_ids and s_lane_fact_ids
  noted,     \* source_stats of the first pass: <<id, source>>
  promoted,  \* what the first floor has moved up
  hint,      \* the thread's vector scope hint is set
  scope, saved,  \* the request's scope context, and the one before the call
  page

searchVars ==
  <<set, searchStage, pass, candidates, pool, lanes, noted, promoted, hint, scope, saved, page>>
-----------------------------------------------------------------------------
NoLanes == [summary |-> {}, fact |-> {}]
FailedPage == <<0>>

(* memory_append_unique, for each row a collector gets from the store. *)
AppendUnique(seq, more, cap) == MergeUnique(seq, more, cap)

(* memory_candidates_merge: what is in the pool already stays. *)
MergedPool(primary, extra) == AppendUnique(primary, extra, PoolCap)

SearchInit ==
  /\ set \in Settings
  /\ saved \in {"none", "outer"} /\ scope = saved /\ hint = FALSE
  /\ searchStage = "begin" /\ pass = 1 /\ candidates = <<>> /\ pool = <<>> /\ page = <<>>
  /\ lanes = NoLanes /\ noted = {} /\ promoted = {}

VisibleSearch == set.entry = "visible"

Seen(id) == set.open \/ ScopeRank[id] > 0
InScope == {id \in Findable : Seen(id)}

(* Mutant: an exit that keeps the context of the call. *)
LeaveInItsScope(result) ==
  /\ page' = result /\ searchStage' = "out" /\ hint' = FALSE /\ scope' = scope

(* Whatever happened, the thread's hint and scope are as before the call. *)
LeaveSearch(result) ==
  /\ page' = result /\ searchStage' = "out" /\ hint' = FALSE /\ scope' = saved

BeginScoped ==
  /\ searchStage = "begin" /\ ~VisibleSearch /\ searchStage' = "variant" /\ hint' = TRUE
  /\ UNCHANGED <<set, pass, candidates, pool, lanes, noted, promoted, scope, saved, page>>

(* The visible search puts the request's scope in place of the caller's. *)
BeginVisible ==
  /\ searchStage = "begin" /\ VisibleSearch /\ searchStage' = "variant" /\ hint' = TRUE
  /\ scope' = "request"
  /\ UNCHANGED <<set, pass, candidates, pool, lanes, noted, promoted, saved, page>>

(* The rows of a list that are in a set. *)
Only(seq, S) == At(seq, {i \in DOMAIN seq : seq[i] \in S})

Nearer(seq, i, j) == ScopeRank[seq[i]] > ScopeRank[seq[j]]

(* memory_sort_scope_buckets: stable, the request's own rows first. *)
Bucketed(seq) ==
  LET places == DOMAIN seq
      before == [j \in places |-> {i \in places : Nearer(seq, i, j)}
                                 \cup {i \in places : i < j /\ ~Nearer(seq, j, i)}]
  IN [k \in 1 .. Len(seq) |-> seq[InOrder(places, before)[k]]]

(* An exchange sort, which keeps no order within a bucket. *)
InBuckets(seq) ==
  {r \in SetToSeqs(ToSet(seq)) : \A i, j \in DOMAIN r : i < j => ~Nearer(r, j, i)}

(* The most rows a page may have. *)
MaxPage == IF PageLimit < PageRoom THEN PageLimit ELSE PageRoom

(* The vectors are not ready: the lexical fallback, one query for the text and
   one for each token; a query may fail. *)
Fallback ==
  /\ searchStage = "begin"
  /\ \/ LeaveSearch(FailedPage)
     \/ \E whole \in Finds, token \in Finds :
          \/ /\ ~VisibleSearch
             /\ LeaveSearch(AppendUnique(AppendUnique(<<>>, Only(whole, InScope), MaxPage),
                                        Only(token, InScope), MaxPage))
          \/ /\ VisibleSearch
             /\ \E r \in InBuckets(Only(AppendUnique(AppendUnique(<<>>, whole, PoolCap),
                                                     token, PoolCap), InScope)) :
                  LeaveSearch(FirstRows(r, MaxPage))
  /\ UNCHANGED <<set, pass, candidates, pool, lanes, noted, promoted, saved>>
-----------------------------------------------------------------------------
(* memory_generate_candidates, for each pass: the query (or its hypothetical
   answer), then the query itself, then each question it was split into. *)
Passes == <<"primary">> \o (IF set.hyde THEN <<"original">> ELSE <<>>)
          \o [i \in 1 .. set.subs |-> "question"]

LaneRoom == IF Passes[pass] = "question" THEN SubPool ELSE PoolCap

(* memory_note_candidate_sources is told of the rows a lane has added. *)
Note(before, after, source) ==
  noted' = IF pass # 1 THEN noted
           ELSE noted \cup {<<after[i], source>> : i \in Len(before) + 1 .. Len(after)}

(* The text, each part it is taken apart into while there is room, then the
   semantic lanes unless the plan leaves them out. *)
AfterVariant ==
  /\ searchStage' \in {"variant", IF set.semantic THEN "semantic" ELSE "like"}
  /\ searchStage' = "variant" => candidates' # candidates

(* The two lanes of a query, and what the query finds with them ahead. *)
InLane(found, kind) == Only(found, kind)

LanesFirst(found) ==
  IF set.lanes THEN InLane(found, SummaryIds) \o InLane(found, FactIds) \o found ELSE found

(* memory_collect_variant_candidates: every call leaves its own lanes behind. *)
Variant ==
  /\ searchStage = "variant"
  /\ \E found \in Finds :
       /\ lanes' = IF set.lanes THEN [summary |-> ToSet(InLane(found, SummaryIds)),
                                      fact |-> ToSet(InLane(found, FactIds))]
                   ELSE NoLanes
       /\ candidates' = AppendUnique(candidates, LanesFirst(found), LaneRoom)
       /\ Note(candidates, candidates', "lexical")
  /\ AfterVariant
  /\ UNCHANGED <<set, pass, pool, promoted, hint, scope, saved, page>>

Semantic ==
  /\ searchStage = "semantic" /\ searchStage' = "like"
  /\ \E found \in Finds : candidates' = AppendUnique(candidates, found, LaneRoom)
  /\ Note(candidates, candidates', "semantic")
  /\ UNCHANGED <<set, pass, pool, lanes, promoted, hint, scope, saved, page>>

(* A lane whose index is unavailable fails the whole search. *)
LaneFails ==
  /\ searchStage \in {"variant", "semantic"} /\ LeaveSearch(FailedPage)
  /\ UNCHANGED <<set, pass, candidates, pool, lanes, noted, promoted, saved>>

(* The negation lanes and the LIKE search end a pass, and what it found is merged. *)
Like ==
  /\ searchStage = "like"
  /\ \E found \in Finds :
       pool' = MergedPool(pool, AppendUnique(candidates, found, LaneRoom))
  /\ candidates' = <<>>
  /\ IF pass < Len(Passes) THEN pass' = pass + 1 /\ searchStage' = "variant"
     ELSE searchStage' = "filter" /\ UNCHANGED pass
  /\ UNCHANGED <<set, lanes, noted, promoted, hint, scope, saved, page>>
-----------------------------------------------------------------------------
(* memory_filter_scope and the archived rows in the scoped search, the rank under
   the request's scope in the visible one. *)
LetThrough(id) == Seen(id) /\ (VisibleSearch \/ ~(set.hides /\ id \in Archived))

Filter ==
  /\ searchStage = "filter" /\ pool' = Only(pool, {id \in Findable : LetThrough(id)})
  /\ searchStage' = IF set.fused /\ ~VisibleSearch /\ pool' # <<>> THEN "fuse" ELSE "rank"
  /\ UNCHANGED <<set, pass, candidates, lanes, noted, promoted, hint, scope, saved, page>>

LedTo(leads, seq) ==
  LET upto[n \in 0 .. Len(seq)] == IF n = 0 THEN <<>> ELSE upto[n - 1] \o leads[seq[n]]
  IN  upto[Len(seq)]

(* What the graph reaches from the candidates joins them. *)
Fuse ==
  /\ searchStage = "fuse" /\ searchStage' = "rank"
  /\ pool' = AppendUnique(pool, LedTo(Bridged, pool), PoolCap)
  /\ UNCHANGED <<set, pass, candidates, lanes, noted, promoted, hint, scope, saved, page>>

(* memory_append_linked_neighbors. *)
WithLinked(seq) == AppendUnique(seq, LedTo(Linked, seq), WideBuffer)

(* memory_rerank_matches: the linked rows compete, and the best take the places the
   candidates had. *)
Competing == IF set.links /\ Len(pool) > 1 THEN WithLinked(pool) ELSE pool

Ranking == {FirstRows(r, Len(pool)) : r \in SetToSeqs(ToSet(Competing))}

Rank ==
  /\ searchStage = "rank" /\ searchStage' = "floor" /\ pool' \in Ranking
  /\ UNCHANGED <<set, pass, candidates, lanes, noted, promoted, hint, scope, saved, page>>

(* memory_apply_lane_floor: rows of a lane from below the page take its last
   places, and the places above are what is left to the next lane. *)
Exchanged(seq, i, j) == [seq EXCEPT ![i] = seq[j], ![j] = seq[i]]

Raise(acc, tail, lane) ==
  IF acc.missing <= 0 \/ acc.seq[tail] \notin lane THEN acc
  ELSE [seq |-> Exchanged(acc.seq, acc.total, tail),
        total |-> acc.total - 1, missing |-> acc.missing - 1]

Floor(seq, lane, floor, top) ==
  LET inTop == Cardinality({i \in 1 .. top : seq[i] \in lane})
      upto[n \in 0 .. Len(seq) - top] ==
        IF n = 0 THEN [seq |-> seq, total |-> top, missing |-> floor - inTop]
        ELSE Raise(upto[n - 1], top + n, lane)
  IN IF floor = 0 \/ lane = {} \/ top = 0 THEN [seq |-> seq, total |-> top, missing |-> 0]
     ELSE upto[Len(seq) - top]

Page == IF Len(pool) < MaxPage THEN Len(pool) ELSE MaxPage

(* The visible search puts the scope before the ranking, and again after the
   floors. *)
Lift ==
  /\ searchStage = "floor"
  /\ LET ordered == IF VisibleSearch THEN Bucketed(pool) ELSE pool
         first == Floor(ordered, lanes.summary, SummaryFloor, Page)
         second == Floor(first.seq, lanes.fact, FactFloor, first.total)
     IN IF set.lanes
        THEN /\ pool' = IF VisibleSearch THEN Bucketed(second.seq) ELSE second.seq
             /\ promoted' = {first.seq[i] : i \in first.total + 1 .. Page}
        ELSE pool' = ordered /\ promoted' = {}
  /\ searchStage' = "page"
  /\ UNCHANGED <<set, pass, candidates, lanes, noted, hint, scope, saved, page>>

(* memory_expand_to_session_window: the neighbours of each row in its session. *)
Windowed(top) == AppendUnique(top, LedTo(Nearby, top), PageRoom)

(* The scoped search may add them. *)
ReturnPage ==
  /\ searchStage = "page"
  /\ LET top == FirstRows(pool, Page)
     IN LeaveSearch(IF set.window /\ ~VisibleSearch THEN Windowed(top) ELSE top)
  /\ UNCHANGED <<set, pass, candidates, pool, lanes, noted, promoted, saved>>

SearchNext ==
  \/ BeginScoped \/ BeginVisible \/ Fallback \/ Variant \/ Semantic \/ LaneFails \/ Like
  \/ Filter \/ Fuse \/ Rank \/ Lift \/ ReturnPage

SearchSpec == SearchInit /\ [][SearchNext]_searchVars
-----------------------------------------------------------------------------
SearchTypes ==
  /\ set \in Settings /\ pass \in 1 .. Len(Passes) /\ hint \in BOOLEAN
  /\ scope \in {"none", "outer", "request"} /\ Len(pool) <= PoolCap /\ Len(candidates) <= LaneRoom
  /\ lanes.summary \subseteq SummaryIds /\ lanes.fact \subseteq FactIds
  /\ promoted \subseteq Findable
  /\ searchStage \in {"begin", "variant", "semantic", "like", "filter", "fuse", "rank", "floor",
                      "page", "out"}

PageFound == searchStage = "out" /\ page # FailedPage

(***************************************************************************)
(* Every exit, the failing ones too, leaves the thread as it was.          *)
(***************************************************************************)
ContextRestored == searchStage \in {"begin", "out"} => ~hint /\ scope = saved

(***************************************************************************)
(* The page holds no row twice, and no more than was asked for or has room.*)
(***************************************************************************)
PageFits ==
  PageFound =>
    /\ IsInjective(page) /\ Len(page) <= PageRoom
    /\ ~set.window => Len(page) <= PageLimit

(***************************************************************************)
(* A lane only tells of the rows it adds, so a row that several lanes find *)
(* is noted for the first: memory_source_fusion_bonus never sees two.      *)
(***************************************************************************)
NotedOnce == \A a, b \in noted : a[1] = b[1] => a[2] = b[2]

LedToBy(leads) == UNION {ToSet(leads[id]) : id \in Findable}

Joins(id) ==
  \/ set.links /\ id \in LedToBy(Linked)
  \/ set.fused /\ ~VisibleSearch /\ id \in LedToBy(Bridged)
  \/ set.window /\ ~VisibleSearch /\ id \in LedToBy(Nearby)

(***************************************************************************)
(* Only what joins after the filters, over links, the fused graph or the   *)
(* session window where these are on, can be out of scope or archived.     *)
(***************************************************************************)
FiltersHold ==
  PageFound => \A id \in ToSet(page) :
                 LetThrough(id) \/ Joins(id) \/ (pool = <<>> /\ Seen(id))

(***************************************************************************)
(* "relevance features can only move candidates within their scope         *)
(* bucket": no ranked row nearer to the request is left out for one        *)
(* farther away, and the page lists the nearer ones first.                 *)
(***************************************************************************)
LocalFirst ==
  PageFound /\ VisibleSearch =>
    /\ \A i, j \in DOMAIN page : i < j => ScopeRank[page[i]] >= ScopeRank[page[j]]
    /\ \A id \in ToSet(pool) \ ToSet(page) :
         \A i \in DOMAIN page : ScopeRank[page[i]] >= ScopeRank[id]

(***************************************************************************)
(* What the summary floor has moved into the page of a scoped search the   *)
(* fact floor leaves there.                                                *)
(***************************************************************************)
FirstFloorStays == PageFound /\ ~VisibleSearch => promoted \subseteq ToSet(page)

(***************************************************************************)
(* However a search ends it leaves the thread's context as it was; its     *)
(* page fits, holds what the filters let through and the nearer scopes     *)
(* first, and keeps what the first lane floor moved up                     *)
(* (memory_find_facts_scoped, memory_find_facts_visible_ex).               *)
(***************************************************************************)
SearchSound ==
  SearchTypes /\ ContextRestored /\ PageFits /\ FiltersHold /\ LocalFirst /\ FirstFloorStays
  /\ NotedOnce

=============================================================================
