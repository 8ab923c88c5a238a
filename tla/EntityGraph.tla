----------------------------- MODULE EntityGraph -----------------------------
(***************************************************************************)
(* What the entity graph adds to a context: memory_graph_boost, which      *)
(* scores the entities around the terms of a query, and                    *)
(* memory_graph_related, which finds memories that name the entities       *)
(* around some seed memories (memory_graph.c).  Both spread over two hops  *)
(* into one map of bounded size.  Weights are even, so that a half is a    *)
(* number.  The database returns the rows of an entity heaviest first when *)
(* it is asked to, and in any order otherwise; one row is read in a step.  *)
(***************************************************************************)
EXTENDS Naturals, Sequences, FiniteSets, FiniteSetsExt, SequencesExt

CONSTANTS
  Graphs,      \* sets of edges [ends, rel, weight], of the relations "talk" and "code"
  Terms,       \* the terms of the query, or the tokens of the seed keys, in order
  Names,       \* memory -> the entities its key or content contains
  Seeds,       \* the memories whose key contains a seed key
  MapCap,      \* MAX_BOOST_ENTRIES
  NearCap,     \* rows read of an entity
  FarCap,      \* entities of the first hop that are expanded
  HitCap,      \* memories looked up per entity
  MaxOut       \* the room of the caller for related memories

EntityGraphAssumption ==
  /\ {MapCap, NearCap, FarCap, HitCap, MaxOut} \subseteq Nat \ {0}
  /\ \A g \in Graphs : \A e \in g : e.weight % 2 = 0 /\ Cardinality(e.ends) = 2

VARIABLES
  job,     \* "boost" or "related"
  graph,   \* the edges
  step,    \* "near", "far", "lookup" or "done"
  queue,   \* the entities still to be read, in order
  rows,    \* what is still unread of the entity being read
  map,     \* the entities found and their scores, as they were added
  near,    \* how many of them the first hop found
  related, \* the related memories and their scores
  cut      \* history: a limit left something out

vars == <<job, graph, step, queue, rows, map, near, related, cut>>

Named == DOMAIN Names
Entities(s) == {s[i].entity : i \in DOMAIN s}

\* The neighbours of an entity: over every relation for a boost; over co_discussed
\* and then over co_edited and depends_on for the related memories.
Neighbours(n, hop) ==
  {[entity |-> CHOOSE m \in e.ends : m # n, weight |-> e.weight] :
     e \in {d \in graph : /\ n \in d.ends
                          /\ job = "related" => d.rel = IF hop = "near" THEN "talk" ELSE "code"}}

\* The rows the database returns of those.
Read(some, all) ==
  /\ some \subseteq all
  /\ Cardinality(some) = Min({NearCap, Cardinality(all)})
  /\ job = "related" => \A r \in some, s \in all \ some : r.weight >= s.weight

\* Mutant: the last score counts, not the highest.
AddedLast(m, n, score) ==
  IF n \in Entities(m)
  THEN [i \in DOMAIN m |-> IF m[i].entity = n THEN [m[i] EXCEPT !.score = score] ELSE m[i]]
  ELSE IF Len(m) >= MapCap THEN m ELSE Append(m, [entity |-> n, score |-> score])

\* boost_map_add
Added(m, n, score) ==
  IF n \in Entities(m)
  THEN [i \in DOMAIN m |-> IF m[i].entity = n THEN [m[i] EXCEPT !.score = Max({@, score})] ELSE m[i]]
  ELSE IF Len(m) >= MapCap THEN m ELSE Append(m, [entity |-> n, score |-> score])

Init ==
  /\ job \in {"boost", "related"} /\ graph \in Graphs
  /\ step = "near" /\ queue = Terms /\ rows = {} /\ map = <<>> /\ near = 0
  /\ related = <<>> /\ cut = FALSE

\* db2_entity_edge_neighbors, db2_entity_edge_neighbors_filtered
Fetch ==
  /\ step \in {"near", "far"} /\ rows = {} /\ queue # <<>>
  /\ LET all == Neighbours(Head(queue), step) IN
     \E some \in SUBSET all :
       /\ Read(some, all) /\ rows' = some
       /\ cut' = (cut \/ some # all)
  /\ queue' = Tail(queue)
  /\ UNCHANGED <<job, graph, step, map, near, related>>

\* The second hop counts half.
Score(w) == IF step = "near" THEN w ELSE w \div 2

Take ==
  /\ step \in {"near", "far"}
  /\ \E r \in rows :
       /\ job = "related" => \A s \in rows : r.weight >= s.weight
       /\ rows' = rows \ {r}
       /\ map' = Added(map, r.entity, Score(r.weight))
       /\ cut' = (cut \/ r.entity \notin Entities(map'))
  /\ UNCHANGED <<job, graph, step, queue, near, related>>

SpreadFurther ==
  /\ step = "near" /\ rows = {} /\ queue = <<>>
  /\ step' = "far" /\ near' = Len(map)
  /\ queue' = [i \in 1 .. Min({FarCap, Len(map)}) |-> map[i].entity]
  /\ cut' = (cut \/ Len(map) > FarCap)
  /\ UNCHANGED <<job, graph, rows, map, related>>

Look ==
  /\ step = "far" /\ rows = {} /\ queue = <<>>
  /\ step' = IF job = "related" /\ map # <<>> THEN "lookup" ELSE "done"
  /\ queue' = IF job = "related" THEN [i \in DOMAIN map |-> map[i].entity] ELSE <<>>
  /\ UNCHANGED <<job, graph, rows, map, near, related, cut>>

\* db2_memory_search_by_pattern for the next entity of the map.
Search ==
  /\ step = "lookup" /\ rows = {} /\ queue # <<>> /\ Len(related) < MaxOut
  /\ LET all == {[memory |-> m, entity |-> Head(queue)] :
                   m \in {x \in Named : Head(queue) \in Names[x]}} IN
     \E some \in SUBSET all :
       /\ Cardinality(some) = Min({HitCap, Cardinality(all)})
       /\ rows' = some /\ cut' = (cut \/ some # all)
  /\ queue' = Tail(queue)
  /\ UNCHANGED <<job, graph, step, map, near, related>>

ScoreOf(n) == map[CHOOSE i \in DOMAIN map : map[i].entity = n].score

Hit ==
  /\ step = "lookup" /\ Len(related) < MaxOut
  /\ \E r \in rows :
       /\ rows' = rows \ {r}
       /\ related' =
            IF r.memory \in Seeds \/ \E i \in DOMAIN related : related[i].memory = r.memory
            THEN related
            ELSE Append(related, [memory |-> r.memory, score |-> ScoreOf(r.entity)])
  /\ UNCHANGED <<job, graph, step, queue, map, near, cut>>

Finish ==
  /\ step = "lookup" /\ step' = "done"
  /\ Len(related) = MaxOut \/ (rows = {} /\ queue = <<>>)
  /\ UNCHANGED <<job, graph, queue, rows, map, near, related, cut>>

Next == Fetch \/ Take \/ SpreadFurther \/ Look \/ Search \/ Hit \/ Finish
Spec == Init /\ [][Next]_vars

(***************************************************************************)
(* Properties.                                                              *)
(***************************************************************************)
TypeOK ==
  /\ step \in {"near", "far", "lookup", "done"} /\ cut \in BOOLEAN
  /\ Len(map) <= MapCap /\ near <= Len(map) /\ Len(related) <= MaxOut
  /\ \A i \in DOMAIN map : map[i].score \in Nat
  /\ \A i \in DOMAIN related : related[i].memory \in Named

\* The weights of the edges from an entity of "from" to n.
Weights(from, n, hop) ==
  UNION {{r.weight : r \in {x \in Neighbours(m, hop) : x.entity = n}} : m \in from}
Direct == UNION {{r.entity : r \in Neighbours(t, "near")} : t \in ToSet(Terms)}

\* An entity's score in a map that nothing was left out of is its heaviest edge to a
\* term, or half its heaviest edge to an entity beside a term, whichever is more; no
\* other entity has one (memory_graph_boost).
SpreadIsExact ==
  step \in {"lookup", "done"} /\ ~cut =>
    /\ Entities(map) = Direct \cup UNION {{r.entity : r \in Neighbours(m, "far")} : m \in Direct}
    /\ \A i \in DOMAIN map :
         map[i].score = Max(Weights(ToSet(Terms), map[i].entity, "near")
                            \cup {w \div 2 : w \in Weights(Direct, map[i].entity, "far")})

\* A map that is full has lost an entity beside a term only to other such entities.
NearComesFirst ==
  \A n \in Entities(map) \ Direct :
    \A m \in Direct \ Entities(map) :
      \E t \in ToSet(Terms) : Cardinality(Neighbours(t, "near")) > NearCap

\* A related memory names an entity of the map, is no seed and is there once, and none
\* is missing unless a limit was met (memory_graph_related).
RelatedHolds ==
  /\ \A i, j \in DOMAIN related : related[i].memory = related[j].memory => i = j
  /\ \A i \in DOMAIN related :
       /\ related[i].memory \notin Seeds
       /\ \E k \in DOMAIN map : /\ map[k].entity \in Names[related[i].memory]
                                /\ map[k].score = related[i].score
  /\ step = "done" /\ job = "related" /\ ~cut /\ Len(related) < MaxOut =>
       \A m \in Named \ Seeds :
         Names[m] \cap Entities(map) # {} => \E i \in DOMAIN related : related[i].memory = m
=============================================================================
