------------------------------- MODULE Derived -------------------------------
(***************************************************************************)
(* What is derived from the text of a memory: the tables of                *)
(* memory_refresh_derived_metadata, the units built from them, and the     *)
(* vectors of both.  The calls of one process come one after the other; a  *)
(* write leaves a child behind that embeds the memory beside them, the     *)
(* embedder and the vector store may fail at every request, and the host   *)
(* may stop between any two steps.                                         *)
(*                                                                         *)
(* A table holds rows of the text it was computed from, and is represented *)
(* by that text; the lists the code reads tables into are long enough for  *)
(* what the extractors write (at most 51 units a memory).  The index is    *)
(* not suppressed, and deleting a row deletes its derived rows.            *)
(***************************************************************************)
EXTENDS Listing, Sequences, SequencesExt

CONSTANTS
  MemoryIds, Contents,  \* the memories, and the texts they may have
  NamesIn,        \* how many names memory_extract_named_entities finds in a text
  Pronouns,       \* the texts with a pronoun
  Mode,           \* memory_coref_mode_effective
  Prior,          \* the earlier memories of a memory's session, the nearest first
  Supersedes,     \* memory_links: <<new, old>>
  Stored,         \* the texts of the memories there are when the run begins, complete
  MaxIndexCalls,       \* bound
  Nil

ASSUME DerivedAssumption ==
  /\ IsFiniteSet(MemoryIds) /\ MemoryIds = 1 .. Cardinality(MemoryIds)
  /\ Stored \in [MemoryIds -> Contents \cup {Nil}]
  /\ Nil \notin Contents /\ Nil \notin MemoryIds

VARIABLES
  content, tables,
  audit,          \* the last outcome of memory_coref_audit_record
  units, links,   \* [id, of, kind, from]; <<unit, unit, type>>
  nextUnit,
  memPoints,      \* per memory, the text its vector is of
  unitPoints,     \* the units with a vector
  failing,        \* points whose last sync failed: the op ledger
  fg,             \* the call under way: [op, at, id, c, rest, clean]
  jobs, bg,       \* children to come; the one under way: [at, id, c, left]
  fixed,          \* the memory whose repair has just returned 0, nothing having failed
  excused, raced, \* memories with a known gap; a child ran beside a change
  indexCalls

indexVars == <<content, tables, audit, units, links, nextUnit, memPoints, unitPoints, failing, fg,
          jobs, bg, fixed, excused, raced, indexCalls>>
indexRows == <<content, tables, audit, units, links, nextUnit>>
-----------------------------------------------------------------------------
Tables ==
  {"aliases", "entities", "coref", "temporal", "summaries", "events", "chunks", "episodes",
   "negation"}

Mem(m) == <<"memory", m>>
UnitOf(u) == <<"unit", u.id>>
UnitsOf(m) == {u \in units : u.of = m}
IdsOf(us) == {u.id : u \in us}

Idle == [op |-> "none", at |-> "idle", id |-> Nil, c |-> Nil, rest |-> <<>>, clean |-> TRUE]
NoChild == [at |-> "idle", id |-> Nil, c |-> Nil, left |-> {}]

LinksWithout(m) == {e \in links : {e[1], e[2]} \cap IdsOf(UnitsOf(m)) = {}}
Both(u, v) == {<<u, v, "same">>, <<v, u, "same">>}

IndexInit ==
  LET there == {m \in MemoryIds : Stored[m] # Nil}
  IN  /\ content = Stored /\ memPoints = Stored
      /\ tables = [m \in MemoryIds |-> [t \in Tables |-> Stored[m]]]
      /\ units = UNION {{[id |-> 2 * m - 1, of |-> m, kind |-> "parts", from |-> {Stored[m]}],
                         [id |-> 2 * m, of |-> m, kind |-> "episode", from |-> {Stored[m]}]} : m \in there}
      /\ unitPoints = {u.id : u \in units} /\ nextUnit = 2 * Cardinality(MemoryIds) + 1
      /\ links = UNION {Both(2 * p[1], 2 * p[2]) : p \in {q \in there \X there : q[1] < q[2]}}
      /\ audit = Nil /\ failing = {}
      /\ fg = Idle /\ jobs = {} /\ bg = NoChild /\ fixed = Nil
      /\ excused = {} /\ raced = FALSE /\ indexCalls = 0

(* A child at work on m sees a change half-way. *)
Beside(m) == bg.at # "idle" /\ bg.id = m
Races(m) ==
  IF Beside(m) THEN raced' = TRUE /\ excused' = excused \cup {m} ELSE UNCHANGED <<raced, excused>>

StartCall(op, at, m, c, rest) ==
  /\ fg = Idle /\ indexCalls < MaxIndexCalls
  /\ indexCalls' = indexCalls + 1 /\ fixed' = Nil
  /\ fg' = [op |-> op, at |-> at, id |-> m, c |-> c, rest |-> rest, clean |-> ~Beside(m)]

(* memory_insert_ex, once the row is inserted, or merged into. *)
Write(m, c) ==
  /\ StartCall("write", "aliases", m, c, <<>>)
  /\ content' = [content EXCEPT ![m] = c]
  /\ Races(m)
  /\ UNCHANGED <<tables, audit, units, links, nextUnit, memPoints, unitPoints, failing, jobs, bg>>

(* memory_update_content leaves what is derived as it is. *)
UpdateContent(m, c) ==
  /\ fg = Idle /\ indexCalls < MaxIndexCalls /\ content[m] \notin {Nil, c}
  /\ indexCalls' = indexCalls + 1 /\ fixed' = Nil
  /\ content' = [content EXCEPT ![m] = c]
  /\ excused' = excused \cup {m} /\ raced' = (raced \/ Beside(m))
  /\ UNCHANGED <<tables, audit, units, links, nextUnit, memPoints, unitPoints, failing, fg, jobs, bg>>

(* memory_delete: the points first, then the row. *)
DeleteMemory(m) ==
  /\ fg = Idle /\ indexCalls < MaxIndexCalls /\ content[m] # Nil
  /\ indexCalls' = indexCalls + 1 /\ fixed' = Nil
  /\ unitPoints' = unitPoints \ IdsOf(UnitsOf(m))
  /\ memPoints' = [memPoints EXCEPT ![m] = Nil]
  /\ failing' = failing \ ({Mem(m)} \cup {UnitOf(u) : u \in UnitsOf(m)})
  /\ content' = [content EXCEPT ![m] = Nil]
  /\ tables' = [tables EXCEPT ![m] = [t \in Tables |-> Nil]]
  /\ links' = LinksWithout(m)
  /\ units' = units \ UnitsOf(m)
  /\ Races(m)
  /\ UNCHANGED <<audit, nextUnit, fg, jobs, bg>>

Present == Ascending({m \in MemoryIds : content[m] # Nil})

(* memory_rebuild_derived_indexes: the rows are listed first. *)
RebuildDerived ==
  /\ Present # <<>>
  /\ StartCall("rebuild", "aliases", Present[1], content[Present[1]],
           [i \in 1 .. Len(Present) - 1 |-> [id |-> Present[i + 1], c |-> content[Present[i + 1]]]])
  /\ UNCHANGED <<indexRows, memPoints, unitPoints, failing, jobs, bg, excused, raced>>

(* memory_repair_vector_index. *)
Repair(m) ==
  /\ content[m] # Nil
  /\ StartCall("repair", "embed", m, content[m], <<>>)
  /\ UNCHANGED <<indexRows, memPoints, unitPoints, failing, jobs, bg, excused, raced>>

(* memory_repair_vector_index_failed_only: each in turn, whatever becomes of the others. *)
Broken ==
  Ascending({m \in MemoryIds : content[m] # Nil /\ ({Mem(m)} \cup {UnitOf(u) : u \in UnitsOf(m)})
                                                     \cap failing # {}})
RepairFailed ==
  /\ Broken # <<>>
  /\ StartCall("repair", "embed", Broken[1], content[Broken[1]],
           [i \in 1 .. Len(Broken) - 1 |-> [id |-> Broken[i + 1], c |-> content[Broken[i + 1]]]])
  /\ UNCHANGED <<indexRows, memPoints, unitPoints, failing, jobs, bg, excused, raced>>

(* memory_rebuild_vector_index_for_version: an empty collection, and no backfill. *)
Recreate ==
  /\ fg = Idle /\ indexCalls < MaxIndexCalls
  /\ indexCalls' = indexCalls + 1 /\ fixed' = Nil
  /\ memPoints' = [m \in MemoryIds |-> Nil] /\ unitPoints' = {}
  /\ excused' = {m \in MemoryIds : content[m] # Nil}
  /\ UNCHANGED <<indexRows, failing, fg, jobs, bg, raced>>
-----------------------------------------------------------------------------
GoOn(at) == fg' = [fg EXCEPT !.at = at]

(* The next memory of the list, or the end of the call. *)
Finish(good) ==
  LET next == Head(fg.rest)
      start == IF fg.op = "repair" THEN "embed" ELSE "aliases"
  IN  /\ fixed' = IF fg.op = "repair" /\ good /\ fg.clean THEN fg.id ELSE Nil
      /\ fg' = IF fg.rest = <<>> THEN Idle
               ELSE [fg EXCEPT !.at = start, !.id = next.id, !.c = next.c, !.rest = Tail(@),
                               !.clean = ~Beside(next.id)]

(* Vectors for units: some get none, since the embedder fails, and some are not stored. *)
EmbedUnits(got, kept) ==
  /\ kept \subseteq got
  /\ unitPoints' = unitPoints \cup IdsOf(kept)
  /\ failing' = (failing \ {UnitOf(u) : u \in kept}) \cup {UnitOf(u) : u \in got \ kept}

(* memory_embed, within a repair.  What it does to the vectors of the old units is lost *)
(* when the refresh replaces them; here it succeeds. *)
EmbedFails ==
  /\ fg.at = "embed" /\ Finish(FALSE)
  /\ UNCHANGED <<indexRows, memPoints, unitPoints, failing, jobs, bg, excused, raced, indexCalls>>

SyncFails ==
  /\ fg.at = "embed" /\ Finish(FALSE)
  /\ failing' = failing \cup {Mem(fg.id)}
  /\ UNCHANGED <<indexRows, memPoints, unitPoints, jobs, bg, excused, raced, indexCalls>>

EmbedSynced ==
  /\ fg.at = "embed" /\ GoOn("aliases")
  /\ memPoints' = [memPoints EXCEPT ![fg.id] = fg.c]
  /\ unitPoints' = unitPoints \cup IdsOf(UnitsOf(fg.id))
  /\ failing' = failing \ ({Mem(fg.id)} \cup {UnitOf(u) : u \in UnitsOf(fg.id)})
  /\ UNCHANGED <<indexRows, jobs, bg, fixed, excused, raced, indexCalls>>
-----------------------------------------------------------------------------
(* memory_refresh_derived_metadata: one table after the other.  A table is emptied and *)
(* filled from the text the call has read. *)
Refresh(t, next) ==
  /\ fg.at = t /\ GoOn(next)
  /\ tables' = [tables EXCEPT ![fg.id][t] = fg.c]
  /\ UNCHANGED <<content, audit, units, links, nextUnit, memPoints, unitPoints, failing, jobs, bg,
                 fixed, excused, raced, indexCalls>>

Aliases == Refresh("aliases", "entities")
Entities == Refresh("entities", "coref")
TemporalRefsOf == Refresh("temporal", "summaries")
Summaries == Refresh("summaries", "events")
EventFrames == Refresh("events", "chunks")
Chunks == Refresh("chunks", "units")
EpisodeRelations == Refresh("episodes", "vectors")

(* The nearest earlier memory that names anybody decides: it names one, or it does not help. *)
Naming(m) == SelectSeq(Prior[m], LAMBDA p : content[p] # Nil /\ NamesIn[content[p]] > 0)
Resolved(m) ==
  IF Naming(m) = <<>> THEN "unbound"
  ELSE IF NamesIn[content[Naming(m)[1]]] = 1 THEN "bound" ELSE "ambiguous"

(* memory_coref_llm_resolve: one binding, or none. *)
Answers == {"bound", "unbound"}

(* memory_refresh_coref_entities, after the entities have been replaced. *)
Coref ==
  /\ fg.at = "coref" /\ GoOn("temporal")
  /\ tables' = [tables EXCEPT ![fg.id]["coref"] = fg.c]
  /\ IF fg.c \notin Pronouns \/ Mode = "off" THEN UNCHANGED audit
     ELSE IF Mode = "heuristic" THEN audit' = Resolved(fg.id)
     ELSE audit' \in Answers
  /\ UNCHANGED <<content, units, links, nextUnit, memPoints, unitPoints, failing, jobs, bg, fixed,
                 excused, raced, indexCalls>>

EpisodesOf(us) == {u \in us : u.kind = "episode"}

(* An episode is linked with the others of the session, both ways, and with those it *)
(* supersedes. *)
BothWays(episode, others) == UNION {Both(episode, u.id) : u \in others}
Superseding(m, episode, others) ==
  {<<episode, u.id, "supersedes">> : u \in {v \in others : <<m, v.of>> \in Supersedes}}
EpisodeLinks(m, episode, others) == BothWays(episode, others) \cup Superseding(m, episode, others)

(* Mutant: the old units keep their vectors. *)
PointsKept(m) == UNCHANGED <<unitPoints, failing>>

(* The points of the old units go before the rows do. *)
DropPoints(m) ==
  /\ unitPoints' = unitPoints \ IdsOf(UnitsOf(m))
  /\ failing' = failing \ {UnitOf(u) : u \in UnitsOf(m)}

(* memory_refresh_units_graph: new units from the tables as they are now, and one of the  *)
(* whole text, with its links. *)
UnitsGraph ==
  LET m == fg.id
      others == units \ UnitsOf(m)
      parts == {tables[m][t] : t \in {"summaries", "events", "temporal", "entities", "coref", "chunks"}}
      episode == nextUnit + 1
  IN  /\ fg.at = "units" /\ GoOn("episodes")
      /\ DropPoints(m)
      /\ units' = others \cup {[id |-> nextUnit, of |-> m, kind |-> "parts", from |-> parts],
                               [id |-> episode, of |-> m, kind |-> "episode", from |-> {fg.c}]}
      /\ links' = LinksWithout(m) \cup EpisodeLinks(m, episode, EpisodesOf(others))
      /\ nextUnit' = nextUnit + 2
      /\ Races(m)
      /\ UNCHANGED <<content, tables, audit, memPoints, jobs, bg, fixed, indexCalls>>

(* memory_refresh_unit_embeddings. *)
UnitEmbeddings ==
  /\ fg.at = "vectors"
  /\ \E got, kept \in SUBSET UnitsOf(fg.id) :
       /\ EmbedUnits(got, kept)
       /\ fg' = [fg EXCEPT !.at = "negation", !.clean = (@ /\ kept = UnitsOf(fg.id))]
       /\ excused' = IF got = UnitsOf(fg.id) THEN excused ELSE excused \cup {fg.id}
  /\ UNCHANGED <<indexRows, memPoints, jobs, bg, fixed, raced, indexCalls>>

(* memory_refresh_negation_tokens; a write leaves the memory's vector to a child. *)
Negation ==
  /\ fg.at = "negation"
  /\ tables' = [tables EXCEPT ![fg.id]["negation"] = fg.c]
  /\ jobs' = IF fg.op = "write" THEN jobs \cup {fg.id} ELSE jobs
  /\ Finish(TRUE)
  /\ excused' = IF fg.op = "repair" /\ fg.clean THEN excused \ {fg.id} ELSE excused
  /\ UNCHANGED <<content, audit, units, links, nextUnit, memPoints, unitPoints, failing, bg, raced, indexCalls>>
-----------------------------------------------------------------------------
(* The child: memory_embed of one memory. *)
Child(at) == bg' = [bg EXCEPT !.at = at]

ChildReads(m) ==
  /\ bg = NoChild /\ m \in jobs
  /\ jobs' = jobs \ {m}
  /\ bg' = IF content[m] = Nil THEN NoChild
           ELSE [at |-> "sync", id |-> m, c |-> content[m], left |-> {}]
  /\ raced' = (raced \/ fg.id = m)
  /\ excused' = IF fg.id = m THEN excused \cup {m} ELSE excused
  /\ fixed' = Nil
  /\ UNCHANGED <<indexRows, memPoints, unitPoints, failing, fg, indexCalls>>

ChildEmbedFails ==
  /\ bg.at = "sync" /\ bg' = NoChild /\ fixed' = Nil
  /\ excused' = excused \cup {bg.id}
  /\ UNCHANGED <<indexRows, memPoints, unitPoints, failing, fg, jobs, raced, indexCalls>>

(* The payload is read from the row, which may be gone; the upsert may fail. *)
ChildSyncFails ==
  /\ bg.at = "sync" /\ bg' = NoChild /\ fixed' = Nil
  /\ failing' = failing \cup {Mem(bg.id)}
  /\ UNCHANGED <<indexRows, memPoints, unitPoints, fg, jobs, excused, raced, indexCalls>>

ChildSyncs ==
  /\ bg.at = "sync" /\ content[bg.id] # Nil /\ fixed' = Nil
  /\ memPoints' = [memPoints EXCEPT ![bg.id] = bg.c]
  /\ failing' = failing \ {Mem(bg.id)}
  /\ bg' = [bg EXCEPT !.at = "units", !.left = UnitsOf(bg.id)]
  /\ UNCHANGED <<indexRows, unitPoints, fg, jobs, excused, raced, indexCalls>>

(* The units it has listed may be gone when it stores their vectors. *)
ChildUnits ==
  /\ bg.at = "units" /\ bg' = NoChild /\ fixed' = Nil
  /\ \E got, kept \in SUBSET bg.left : EmbedUnits(got, kept)
  /\ UNCHANGED <<indexRows, memPoints, fg, jobs, excused, raced, indexCalls>>

(* The host stops. *)
Crash ==
  /\ fg # Idle \/ bg # NoChild \/ jobs # {}
  /\ excused' = (excused \cup jobs \cup {fg.id, bg.id} \cup {r.id : r \in Range(fg.rest)}) \ {Nil}
  /\ fg' = Idle /\ bg' = NoChild /\ jobs' = {} /\ fixed' = Nil
  /\ UNCHANGED <<indexRows, memPoints, unitPoints, failing, raced, indexCalls>>

IndexNext ==
  \/ \E m \in MemoryIds : DeleteMemory(m) \/ Repair(m) \/ ChildReads(m) \/ \E c \in Contents : Write(m, c) \/ UpdateContent(m, c)
  \/ RebuildDerived \/ RepairFailed \/ Recreate
  \/ EmbedFails \/ SyncFails \/ EmbedSynced
  \/ Aliases \/ Entities \/ Coref \/ TemporalRefsOf \/ Summaries \/ EventFrames \/ Chunks
  \/ UnitsGraph \/ EpisodeRelations \/ UnitEmbeddings \/ Negation
  \/ ChildEmbedFails \/ ChildSyncFails \/ ChildSyncs \/ ChildUnits
  \/ Crash

IndexSpec == IndexInit /\ [][IndexNext]_indexVars
-----------------------------------------------------------------------------
\* The tables, units and points are of the memories and their texts.
IndexTypeOK ==
  /\ content \in [MemoryIds -> Contents \cup {Nil}]
  /\ tables \in [MemoryIds -> [Tables -> Contents \cup {Nil}]]
  /\ memPoints \in [MemoryIds -> Contents \cup {Nil}]
  /\ \A u \in units : u.of \in MemoryIds /\ u.id < nextUnit
  /\ jobs \subseteq MemoryIds /\ excused \subseteq MemoryIds

AtRest == fg = Idle /\ bg = NoChild /\ jobs = {}

Derived(m) ==
  /\ \A t \in Tables : tables[m][t] = content[m]
  /\ \A u \in UnitsOf(m) : u.from = {content[m]}
  /\ {u.kind : u \in UnitsOf(m)} = {"parts", "episode"}

Indexed(m) == memPoints[m] = content[m] /\ IdsOf(UnitsOf(m)) \subseteq unitPoints

\* At rest everything derived from a memory is derived from its present text, and every
\* vector that is missing is in the ledger, unless its content was updated in place, the
\* embedder failed, the host stopped, the collection was recreated, or a child ran beside
\* a change.
IndexAgrees ==
  AtRest => \A m \in MemoryIds : content[m] # Nil /\ m \notin excused =>
    /\ Derived(m)
    /\ memPoints[m] = content[m] \/ Mem(m) \in failing
    /\ \A u \in UnitsOf(m) : u.id \in unitPoints \/ UnitOf(u) \in failing

\* If no child ran beside a change, no vector outlives its memory or its unit.
NoOrphans ==
  AtRest /\ ~raced =>
    /\ unitPoints \subseteq IdsOf(units)
    /\ \A m \in MemoryIds : content[m] = Nil => memPoints[m] = Nil

\* A repair during which nothing failed restores a memory from any state.
RepairRestores == fixed # Nil /\ fg = Idle => Derived(fixed) /\ (bg = NoChild => Indexed(fixed))

\* No edge leads to a unit that is gone, and the episodes of two memories stay linked
\* both ways, whichever of them is refreshed.
EpisodesLinked ==
  /\ \A e \in links : {e[1], e[2]} \subseteq IdsOf(units)
  /\ \A u, v \in EpisodesOf(units) : u.of # v.of => <<u.id, v.id, "same">> \in links

\* What is derived from a memory is derived from its text, no vector outlives what it is
\* of, and a repair in which nothing failed restores a memory from any state
\* (memory_refresh_derived_metadata, memory_repair_vector_index, memory_delete).
IndexSound == IndexTypeOK /\ IndexAgrees /\ NoOrphans /\ RepairRestores /\ EpisodesLinked
=============================================================================
