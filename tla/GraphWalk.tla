------------------------------ MODULE GraphWalk ------------------------------
(***************************************************************************)
(* memory_graph_walk (memory_episodes.c): the edges of the entity graph    *)
(* within some hops of an entity, by the relations of a mask.  One edge is *)
(* looked at in a step; the database returns the edges of an entity in any *)
(* order.  An edge without a relation counts as co_discussed.              *)
(***************************************************************************)
EXTENDS Naturals, Sequences, FiniteSets, SequencesExt

CONSTANTS
  Seed,      \* the entity the walk starts from
  Graphs,    \* sets of edges [ends, rel]
  Masks,     \* the sets of relations callers accept
  Hops,      \* the hops callers ask for
  PerNode,   \* edges the database returns of an entity
  Remember,  \* WALK_MAX_FRONTIER
  MaxOut     \* the room of the caller

GraphWalkAssumption == {PerNode, Remember, MaxOut} \subseteq Nat \ {0} /\ Hops \subseteq Nat

VARIABLES
  edges, mask, maxHops, \* the arguments
  hop,                  \* hops done
  frontier, next,       \* the entities of this hop still to be read, and of the next
  node,                 \* the entity whose edges are looked at
  unread,               \* its edges still to be looked at
  visited,              \* the entities remembered
  found,                \* the entries written
  cut                   \* history: a limit left something out

vars == <<edges, mask, maxHops, hop, frontier, next, node, unread, visited, found, cut>>

Init ==
  /\ edges \in Graphs /\ mask \in Masks /\ maxHops \in Hops
  /\ hop = 0 /\ frontier = <<Seed>> /\ next = <<>> /\ node = Seed /\ unread = {}
  /\ visited = {Seed} /\ found = <<>> /\ cut = FALSE

Running == hop < maxHops /\ Len(found) < MaxOut
Touching(n) == {e \in edges : n \in e.ends}
OtherEnd(e, n) == CHOOSE m \in e.ends : e.ends = {m, n}

\* db2_entity_edge_walk_step_typed
Enter ==
  /\ Running /\ unread = {} /\ frontier # <<>>
  /\ node' = Head(frontier) /\ frontier' = Tail(frontier)
  /\ \E some \in SUBSET Touching(node') :
       /\ Cardinality(some) = IF Cardinality(Touching(node')) > PerNode THEN PerNode
                              ELSE Cardinality(Touching(node'))
       /\ unread' = some /\ cut' = (cut \/ some # Touching(node'))
  /\ UNCHANGED <<edges, mask, maxHops, hop, next, visited, found>>

Relation(e) == IF e.rel = "none" THEN "co_discussed" ELSE e.rel

\* Mutant: an entity is remembered when its edges are read.
FollowMarksLate ==
  /\ Running
  /\ \E e \in unread :
       LET m == OtherEnd(e, node) IN
       /\ unread' = unread \ {e}
       /\ \/ /\ Relation(e) \notin mask \/ m \in visited
             /\ UNCHANGED <<visited, next, found, cut>>
          \/ /\ Relation(e) \in mask /\ m \notin visited
             /\ visited' = IF Cardinality(visited) < Remember THEN visited \cup {node} ELSE visited
             /\ found' = Append(found, [edge |-> e, entity |-> m, hop |-> hop + 1])
             /\ next' = IF Len(next) < Remember THEN Append(next, m) ELSE next
             /\ cut' = (cut \/ Cardinality(visited) >= Remember)
  /\ UNCHANGED <<edges, mask, maxHops, hop, frontier, node>>

Follow ==
  /\ Running
  /\ \E e \in unread :
       LET m == OtherEnd(e, node) IN
       /\ unread' = unread \ {e}
       /\ \/ /\ Relation(e) \notin mask \/ m \in visited
             /\ UNCHANGED <<visited, next, found, cut>>
          \/ /\ Relation(e) \in mask /\ m \notin visited
             /\ visited' = IF Cardinality(visited) < Remember THEN visited \cup {m} ELSE visited
             /\ found' = Append(found, [edge |-> e, entity |-> m, hop |-> hop + 1])
             /\ next' = IF Len(next) < Remember THEN Append(next, m) ELSE next
             /\ cut' = (cut \/ Cardinality(visited) >= Remember)
  /\ UNCHANGED <<edges, mask, maxHops, hop, frontier, node>>

NextHop ==
  /\ Running /\ unread = {} /\ frontier = <<>> /\ next # <<>>
  /\ hop' = hop + 1 /\ frontier' = next /\ next' = <<>>
  /\ UNCHANGED <<edges, mask, maxHops, node, unread, visited, found, cut>>

Next == Enter \/ Follow \/ NextHop
Spec == Init /\ [][Next]_vars

(***************************************************************************)
(* Properties.                                                              *)
(***************************************************************************)
Over == ~Running \/ (unread = {} /\ frontier = <<>> /\ next = <<>>)

TypeOK ==
  /\ hop \in 0 .. maxHops /\ Cardinality(visited) <= Remember /\ Len(next) <= Remember
  /\ Len(found) <= MaxOut /\ unread \subseteq edges /\ cut \in BOOLEAN

\* The entities within k hops of the seed, by relations of the mask.
Within[k \in Nat] ==
  IF k = 0 THEN {Seed}
  ELSE Within[k - 1] \cup UNION {e.ends : e \in {d \in edges : /\ Relation(d) \in mask
                                                               /\ d.ends \cap Within[k - 1] # {}}}

\* A walk that met no limit has found every entity in reach once, at its distance
\* (memory_graph_walk).
WalkIsBreadthFirst ==
  /\ ~cut => \A i, j \in DOMAIN found : found[i].entity = found[j].entity => i = j
  /\ ~cut => \A i \in DOMAIN found :
       found[i].entity \in Within[found[i].hop] \ Within[found[i].hop - 1]
  /\ Over /\ ~cut /\ Len(found) < MaxOut =>
       {found[i].entity : i \in DOMAIN found} = Within[maxHops] \ {Seed}

\* Whatever was left out or found twice, an entry leads on from one of the hop before
\* it, and none is further than was asked for.
EntriesConnect ==
  \A i \in DOMAIN found :
    /\ found[i].hop <= maxHops /\ Relation(found[i].edge) \in mask
    /\ IF found[i].hop = 1 THEN Seed \in found[i].edge.ends
       ELSE \E j \in 1 .. i - 1 : /\ found[j].hop = found[i].hop - 1
                                  /\ found[j].entity \in found[i].edge.ends
=============================================================================
