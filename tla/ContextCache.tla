------------------------------ MODULE ContextCache ------------------------------
(***************************************************************************)
(* The cache around memory_assemble_context (memory_assemble.c): a reader  *)
(* hashes the database, looks the hash up, and on a miss assembles, hashes *)
(* the database again and stores what it assembled.  Writers change rows   *)
(* in between, and clear the cache after some of the changes.              *)
(***************************************************************************)
EXTENDS Integers, FiniteSets, FiniteSetsExt

CONSTANTS
  Readers, Ids, Hints,
  MaxWrites, MaxReads, MaxDay,  \* bounds on writes, reads and seconds
  Absent

ASSUME CacheAssumption ==
  IsFiniteSet(Ids) /\ MaxDay \in Nat \ {0} /\ Absent \notin [text : Nat, at : Nat]

VARIABLES
  rows,      \* each memory's [text, at], or Absent: content and updated_at
  rules,     \* what db2_rules_signature tells apart
  edges,     \* version of entity_edges
  owed,      \* writers that have yet to call db1_context_cache_invalidate
  cache,     \* set of [key, context]
  cpc, ask, key, context,  \* each reader's place, request, hash and context
  now, writes, reads,
  crowded    \* two changes of memories fell into one second

db == <<rows, rules, edges>>
reader == <<cpc, ask, key, context>>
cacheVars == <<db, owed, cache, reader, now, writes, reads, crowded>>

Live == {i \in Ids : rows[i] # Absent}
NoRequest == [hint |-> Absent, scoped |-> FALSE]
Nothing == [hint |-> Absent, rows |-> {}, rules |-> 0, edges |-> 0, scoped |-> FALSE,
            disturbed |-> FALSE]

CacheInit ==
  /\ rows = [i \in Ids |-> Absent] /\ rules = 0 /\ edges = 0 /\ owed = 0 /\ cache = {}
  /\ cpc = [r \in Readers |-> "idle"] /\ ask = [r \in Readers |-> NoRequest]
  /\ key = [r \in Readers |-> <<>>] /\ context = [r \in Readers |-> Nothing]
  /\ now = 1 /\ writes = 0 /\ reads = 0 /\ crowded = FALSE

(* Mutant: the hash leaves the number of memories out. *)
FingerprintNoCount ==
  <<IF Live = {} THEN 0 ELSE Max({rows[i].at : i \in Live}), rules>>

(* cache_input_hash: how many memories there are, the latest updated_at, and
   the signature of the rules; what is asked is not part of it. *)
Fingerprint ==
  <<Cardinality(Live), IF Live = {} THEN 0 ELSE Max({rows[i].at : i \in Live}), rules>>

(* What the sections are assembled from. *)
Assembled(request) ==
  [hint |-> request.hint, rows |-> {<<i, rows[i].text>> : i \in Live}, rules |-> rules,
   edges |-> edges, scoped |-> request.scoped, disturbed |-> FALSE]
-----------------------------------------------------------------------------
(* A change of a row; readers that have read it hold an older state. *)
Change(i, row) ==
  /\ writes < MaxWrites /\ writes' = writes + 1
  /\ rows' = [rows EXCEPT ![i] = row]
  /\ crowded' = (crowded \/ \E j \in Live : rows[j].at = now)
  /\ context' = [r \in Readers |-> [context[r] EXCEPT !.disturbed = cpc[r] \in {"put", "store"} \/ @]]
  /\ UNCHANGED <<rules, edges, cache, cpc, ask, key, now, reads>>

(* memory_insert_ex and memory_delete clear the cache, memory_update_content
   and memory_reject do not. *)
Insert(i) == rows[i] = Absent /\ owed' = owed + 1 /\ Change(i, [text |-> writes, at |-> now])
Delete(i) == rows[i] # Absent /\ owed' = owed + 1 /\ Change(i, Absent)
Update(i) == rows[i] # Absent /\ Change(i, [text |-> writes, at |-> now]) /\ UNCHANGED owed

Invalidate ==
  /\ owed > 0 /\ owed' = owed - 1 /\ cache' = {}
  /\ UNCHANGED <<db, reader, now, writes, reads, crowded>>

Elsewhere ==
  /\ writes < MaxWrites /\ writes' = writes + 1
  /\ \/ rules' = rules + 1 /\ UNCHANGED edges
     \/ edges' = edges + 1 /\ UNCHANGED rules
  /\ context' = [r \in Readers |-> [context[r] EXCEPT !.disturbed = cpc[r] \in {"put", "store"} \/ @]]
  /\ UNCHANGED <<rows, owed, cache, cpc, ask, key, now, reads, crowded>>

SecondPasses == now < MaxDay /\ now' = now + 1
        /\ UNCHANGED <<db, owed, cache, reader, writes, reads, crowded>>
-----------------------------------------------------------------------------

(* No cache for a request that has a scope. *)
Cacheable(r) == ~ask[r].scoped

Set(r, p) == cpc' = [cpc EXCEPT ![r] = p]

Request(r, h, s) ==
  /\ cpc[r] = "idle" /\ reads < MaxReads /\ reads' = reads + 1
  /\ ask' = [ask EXCEPT ![r] = [hint |-> h, scoped |-> s]]
  /\ context' = [context EXCEPT ![r] = Nothing] /\ Set(r, "hash")
  /\ UNCHANGED <<db, owed, cache, key, now, writes, crowded>>

Hash(r) ==
  /\ cpc[r] = "hash"
  /\ IF Cacheable(r) THEN key' = [key EXCEPT ![r] = Fingerprint] /\ Set(r, "lookup")
     ELSE Set(r, "assemble") /\ UNCHANGED key
  /\ UNCHANGED <<db, owed, cache, ask, context, now, writes, reads, crowded>>

(* db1_context_cache_get. *)
Lookup(r) ==
  /\ cpc[r] = "lookup"
  /\ IF \E e \in cache : e.key = key[r]
     THEN /\ \E e \in cache : e.key = key[r] /\ context' = [context EXCEPT ![r] = e.context]
          /\ Set(r, "idle")
     ELSE Set(r, "assemble") /\ UNCHANGED context
  /\ UNCHANGED <<db, owed, cache, ask, key, now, writes, reads, crowded>>

Assemble(r) ==
  /\ cpc[r] = "assemble" /\ Set(r, "put")
  /\ context' = [context EXCEPT ![r] = Assembled(ask[r])]
  /\ UNCHANGED <<db, owed, cache, ask, key, now, writes, reads, crowded>>

(* The hash is computed anew for the put. *)
Rehash(r) ==
  /\ cpc[r] = "put"
  /\ IF Cacheable(r) THEN key' = [key EXCEPT ![r] = Fingerprint] /\ Set(r, "store")
     ELSE Set(r, "idle") /\ UNCHANGED key
  /\ UNCHANGED <<db, owed, cache, ask, context, now, writes, reads, crowded>>

Store(r) ==
  /\ cpc[r] = "store" /\ Set(r, "idle")
  /\ cache' = {e \in cache : e.key # key[r]} \cup {[key |-> key[r], context |-> context[r]]}
  /\ UNCHANGED <<db, owed, ask, key, context, now, writes, reads, crowded>>

CacheNext ==
  \/ \E i \in Ids : Insert(i) \/ Delete(i) \/ Update(i)
  \/ Invalidate \/ Elsewhere \/ SecondPasses
  \/ \E r \in Readers :
       \/ \E h \in Hints, s \in BOOLEAN : Request(r, h, s)
       \/ Hash(r) \/ Lookup(r) \/ Assemble(r) \/ Rehash(r) \/ Store(r)

CacheSpec == CacheInit /\ [][CacheNext]_cacheVars
-----------------------------------------------------------------------------
CacheTypeOK ==
  /\ \A i \in Live : rows[i].at \in 1 .. now
  /\ owed \in 0 .. MaxWrites /\ writes \in 0 .. MaxWrites /\ reads \in 0 .. MaxReads
  /\ \A e \in cache : e.context.hint \in Hints
  /\ cpc \in [Readers -> {"idle", "hash", "lookup", "assemble", "put", "store"}]

(***************************************************************************)
(* A hit is never older than its hash: unless a change fell between an     *)
(* assembly and its put, or two changes into one second, a context found   *)
(* under the database's present hash has the present memories and rules,   *)
(* whether or not their writer has cleared the cache yet.                  *)
(***************************************************************************)
HitsAreFresh ==
  [][\A r \in Readers :
       /\ cpc[r] = "lookup" /\ cpc'[r] = "idle" /\ key[r] = Fingerprint
       /\ ~crowded /\ ~context'[r].disturbed
       => /\ context'[r].rows = {<<i, rows[i].text>> : i \in Live}
          /\ context'[r].rules = rules]_cacheVars

(***************************************************************************)
(* A context assembled under a request's scope is never stored, and a      *)
(* request with a scope never gets one assembled without.                  *)
(***************************************************************************)
ScopesDoNotMix ==
  /\ \A e \in cache : ~e.context.scoped
  /\ \A r \in Readers : cpc[r] = "idle" /\ ask[r].scoped => context[r].scoped

(***************************************************************************)
(* "When task_hint is provided, uses a unified candidate pool scored by:   *)
(* relevance" (memory_assemble.c:605): the context a caller gets was       *)
(* assembled for the hint it gave.                                         *)
(***************************************************************************)
HintAnswered ==
  \A r \in Readers : cpc[r] = "idle" /\ context[r] # Nothing => context[r].hint = ask[r].hint
=============================================================================
