----------------------------- MODULE GraphExpand -----------------------------
(***************************************************************************)
(* memory_graph_expand_from_seeds and memory_graph_populate_score_parts    *)
(* (memory_graph_fusion.c): the memories attached to the nodes that a      *)
(* search hit and to their neighbours, with the score of the edge they are *)
(* reached by.  One hop is expanded, whatever the caller allows.  The       *)
(* score of an edge is a number here; the database lists the memories of a *)
(* node, and the neighbours of a seed, in any order.                       *)
(***************************************************************************)
EXTENDS Naturals, Sequences, FiniteSets, FiniteSetsExt, SequencesExt

CONSTANTS
  Starts,      \* the sequences of seed nodes callers pass
  Code,        \* the nodes of the code graph
  Edges,       \* node -> neighbour -> score of the edge
  Attached,    \* node -> the memories attached to it
  SeedScore,   \* memory_graph_edge_score of a seed itself
  Neighbours,  \* neighbours read of a seed
  HitCap,      \* memories read of a node
  MaxOut       \* the room of the caller

GraphExpandAssumption == {SeedScore, Neighbours, HitCap, MaxOut} \subseteq Nat \ {0}

VARIABLES
  start, allow, \* the arguments
  seeds,        \* the seeds still to be expanded
  nodes,        \* the nodes still to be looked up for the seed at hand
  hits,         \* what is still unread of the memories of a node
  expansions,   \* the entries written
  short         \* history: a limit left something out

vars == <<start, seeds, allow, nodes, hits, expansions, short>>

Init ==
  /\ start \in Starts /\ seeds = start /\ allow \in BOOLEAN
  /\ nodes = {} /\ hits = {} /\ expansions = <<>> /\ short = FALSE

Running == Len(expansions) < MaxOut

\* The rows of a query that returns at most n of them.
Pick(some, all, n) == some \subseteq all /\ Cardinality(some) = Min({n, Cardinality(all)})

\* Mutant: a node that is no seed is not gated.
AdmittedSeed(n) == allow \/ n \notin Code \/ n \notin ToSet(start)

\* Nodes of the code graph are entered only when the query looks like code.
Admitted(n) == allow \/ n \notin Code

\* The memories of a node, each with what it is reached by; "missed": neighbours were left
\* out before.
Lookup(n, score, missed) ==
  LET all == {[memory |-> m, via |-> n, score |-> score] : m \in Attached[n]} IN
  \E some \in SUBSET all :
    /\ Pick(some, all, HitCap) /\ hits' = some
    /\ short' = (short \/ missed \/ some # all)

\* The next seed: its own memories, and its neighbours after them.
NextSeed ==
  /\ Running /\ nodes = {} /\ hits = {} /\ seeds # <<>>
  /\ seeds' = Tail(seeds)
  /\ LET s == Head(seeds) IN
     \/ ~Admitted(s) /\ UNCHANGED <<nodes, hits, short>>
     \/ /\ Admitted(s)
        /\ \E near \in SUBSET DOMAIN Edges[s] :
             /\ Pick(near, DOMAIN Edges[s], Neighbours)
             /\ Lookup(s, SeedScore, near # DOMAIN Edges[s])
             /\ nodes' = {[node |-> n, score |-> Edges[s][n]] : n \in near}
  /\ UNCHANGED <<start, allow, expansions>>

NextNeighbour ==
  /\ Running /\ hits = {}
  /\ \E n \in nodes :
       /\ nodes' = nodes \ {n}
       /\ \/ ~Admitted(n.node) /\ UNCHANGED <<hits, short>>
          \/ Admitted(n.node) /\ Lookup(n.node, n.score, FALSE)
  /\ UNCHANGED <<start, seeds, allow, expansions>>

\* A memory that is reached again keeps its bridge and takes the higher score.
Hit ==
  /\ Running
  /\ \E h \in hits :
       /\ hits' = hits \ {h}
       /\ expansions' =
            IF \E i \in DOMAIN expansions : expansions[i].memory = h.memory
            THEN [i \in DOMAIN expansions |->
                    IF expansions[i].memory = h.memory
                    THEN [expansions[i] EXCEPT !.score = Max({@, h.score})] ELSE expansions[i]]
            ELSE Append(expansions, h)
  /\ UNCHANGED <<start, seeds, allow, nodes, short>>

Next == NextSeed \/ NextNeighbour \/ Hit
Spec == Init /\ [][Next]_vars

\* memory_graph_populate_score_parts: what a candidate is credited with.
Credit(m) ==
  LET mine == {i \in DOMAIN expansions : expansions[i].memory = m} IN
  IF mine = {} THEN [graph |-> 0, code |-> 0]
  ELSE LET e == expansions[Min(mine)] IN
       [graph |-> e.score, code |-> IF e.via \in Code THEN e.score ELSE 0]

(***************************************************************************)
(* Properties.                                                              *)
(***************************************************************************)
TypeOK ==
  /\ Len(expansions) <= MaxOut /\ short \in BOOLEAN
  /\ \A i \in DOMAIN expansions : expansions[i].via \in DOMAIN Attached

\* A memory is expanded once, whatever leads to it, and over a node that it is attached to.
ExpandedOnce ==
  \A i, j \in DOMAIN expansions :
    /\ expansions[i].memory \in Attached[expansions[i].via]
    /\ expansions[i].memory = expansions[j].memory => i = j

\* A query that does not look like code gets nothing over a node of the code graph, and no
\* candidate of it a credit for its nearness to code.
CodeStaysOut ==
  ~allow => \A i \in DOMAIN expansions :
              /\ expansions[i].via \notin Code
              /\ Credit(expansions[i].memory).code = 0

\* The scores at which nodes are reached that memory m is attached to.
Reached(m) ==
  LET entered == {n \in ToSet(start) : Admitted(n)} IN
  {SeedScore : s \in {n \in entered : m \in Attached[n]}}
  \cup UNION {{Edges[s][n] : n \in {x \in DOMAIN Edges[s] : Admitted(x) /\ m \in Attached[x]}} :
                s \in entered}

\* An expansion that met no limit has every memory in reach, each with the best score of
\* all the ways to it, in whatever order they were tried.
ScoreIsBest ==
  seeds = <<>> /\ nodes = {} /\ hits = {} /\ ~short /\ Running =>
    \A m \in UNION Range(Attached) :
      Credit(m).graph = IF Reached(m) = {} THEN 0 ELSE Max(Reached(m))
=============================================================================
