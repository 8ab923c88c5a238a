------------------------------ MODULE EmbedMemo ------------------------------
(***************************************************************************)
(* The query vectors of one recall (memory_core_helpers_b.c) and the       *)
(* embedder they come from (memory_embed_text, memory_core_scope_embed.c). *)
(* The lanes of a recall ask for the same few texts; a memo of the thread  *)
(* embeds each of them once, and a batch call fills it beforehand.         *)
(* A vector is the text it was computed from and the command that computed *)
(* it; what a request to the embedder brings is open.                      *)
(***************************************************************************)
EXTENDS Integers, Sequences, FiniteSets, SequencesExt

CONSTANTS
  Texts,       \* the texts the lanes ask for, and
  Long,        \* those too long for the memo
  Batches,     \* the lists of texts a search prewarms
  Command,     \* the configured embedder, and
  Http,        \* that it is an endpoint
  Cap,         \* MEMORY_QEMBED_CAP
  MaxAsks,     \* bound: requests of a recall
  None

VARIABLES
  memo,        \* s_qembed: [text, vec]
  asked, try,  \* the text being embedded, and by which command
  served,      \* [text, vec] of the last request that was answered
  admitted,    \* requests the dependency breaker let through and not yet heard of
  denied,      \* g_embedder_last_unauthorized
  got,         \* per text, the vectors computed for it in this recall
  spilled,     \* a vector found no room in the memo
  asks

vars == <<memo, asked, try, served, admitted, denied, got, spilled, asks>>
-----------------------------------------------------------------------------
Vec(t, by) == [of |-> t, by |-> by]
Builtin == "builtin"

Init ==
  /\ memo = <<>> /\ asked = None /\ try = None /\ served = None
  /\ admitted = 0 /\ denied = FALSE
  /\ got = [t \in Texts |-> 0] /\ spilled = FALSE /\ asks = 0

(* memory_query_embed_cache_reset, when a recall begins. *)
Reset ==
  /\ asked = None /\ memo # <<>>
  /\ memo' = <<>> /\ got' = [t \in Texts |-> 0] /\ spilled' = FALSE /\ asks' = 0
  /\ UNCHANGED <<asked, try, served, admitted, denied>>

Cacheable(t) == t \notin Long

Held(t) == {i \in DOMAIN memo : memo[i].text = t}

(* The entries a request may use: its key must be exact. *)
Hits(t) == IF Cacheable(t) THEN Held(t) ELSE {}

(* memory_embed_text_runtime: from the memo, or on to the embedder. *)
Ask(t) ==
  /\ asked = None /\ asks < MaxAsks
  /\ asks' = asks + 1
  /\ IF Hits(t) # {}
     THEN /\ served' = memo[CHOOSE i \in Hits(t) : \A j \in Hits(t) : i <= j]
          /\ UNCHANGED <<asked, try>>
     ELSE asked' = t /\ try' = Command /\ UNCHANGED served
  /\ UNCHANGED <<memo, admitted, denied, got, spilled>>

(***************************************************************************)
(* memory_embed_text.  The breaker refuses a request, or lets it through   *)
(* and is told how it ended.  A refused login closes the breaker: it shows *)
(* that the service is there.                                              *)
(***************************************************************************)
NextTry ==
  IF try # Builtin THEN try' = Builtin /\ UNCHANGED asked
  ELSE try' = None /\ asked' = None

Suppressed ==
  /\ asked # None /\ admitted = 0
  /\ denied' = FALSE /\ NextTry
  /\ UNCHANGED <<memo, served, admitted, got, spilled, asks>>

Admit ==
  /\ asked # None /\ admitted = 0
  /\ admitted' = 1
  /\ UNCHANGED <<memo, asked, try, served, denied, got, spilled, asks>>

(* The exchange fails, is refused, or brings no number: nothing is stored. *)
Fails(login) ==
  /\ asked # None /\ admitted = 1
  /\ login => Http /\ try # Builtin
  /\ admitted' = 0
  /\ denied' = login /\ NextTry
  /\ UNCHANGED <<memo, served, got, spilled, asks>>

Store(t, vec) ==
  IF Cacheable(t) /\ Len(memo) < Cap
  THEN memo' = Append(memo, [text |-> t, vec |-> vec]) /\ UNCHANGED spilled
  ELSE spilled' = (spilled \/ Cacheable(t)) /\ UNCHANGED memo

Arrives ==
  /\ asked # None /\ admitted = 1
  /\ admitted' = 0 /\ denied' = FALSE
  /\ served' = [text |-> asked, vec |-> Vec(asked, try)]
  /\ Store(asked, Vec(asked, try))
  /\ got' = [got EXCEPT ![asked] = @ + 1]
  /\ asked' = None /\ try' = None
  /\ UNCHANGED asks

(***************************************************************************)
(* memory_query_embed_prewarm: the texts of a search that are not in the   *)
(* memo yet go to the embedder in one request, past the breaker.  A row of *)
(* the answer that is not a vector is skipped; an answer of another length *)
(* is dropped.                                                             *)
(***************************************************************************)
Picked(list) ==
  FoldLeft(LAMBDA acc, t :
             IF Len(acc) < Cap /\ Cacheable(t) /\ Held(t) = {} /\ ~Contains(acc, t)
             THEN Append(acc, t) ELSE acc,
           <<>>, list)

(* memory_query_embed_cache_put, of the rows that are vectors, in order. *)
Put(entries) ==
  FoldLeft(LAMBDA acc, e : IF Len(acc) < Cap /\ \A i \in DOMAIN acc : acc[i].text # e.text
                           THEN Append(acc, e) ELSE acc,
           memo, entries)

(* Mutant: the text of a row is counted among the rows that are vectors. *)
RowsShift(picked, good) ==
  LET rows == SetToSortSeq(good, <)
  IN  [i \in DOMAIN rows |-> [text |-> picked[i], vec |-> Vec(picked[rows[i]], Command)]]

Rows(picked, good) ==
  LET rows == SetToSortSeq(good, <)
  IN  [i \in DOMAIN rows |-> [text |-> picked[rows[i]], vec |-> Vec(picked[rows[i]], Command)]]

Prewarm(list) ==
  LET picked == Picked(list)
  IN  /\ asked = None /\ asks < MaxAsks /\ Command # Builtin
      /\ Len(picked) >= 2
      /\ asks' = asks + 1
      /\ \E good \in SUBSET DOMAIN picked :
           /\ memo' = Put(Rows(picked, good))
           /\ got' = [t \in Texts |->
                        got[t] + Cardinality({i \in good : picked[i] = t})]
           /\ spilled' = (spilled \/ Len(memo) + Cardinality(good) > Cap)
      /\ UNCHANGED <<asked, try, served, admitted, denied>>

Next ==
  \/ Reset \/ Suppressed \/ Admit \/ Arrives
  \/ \E t \in Texts : Ask(t)
  \/ \E login \in BOOLEAN : Fails(login)
  \/ \E list \in Batches : Prewarm(list)

Spec == Init /\ [][Next]_vars
-----------------------------------------------------------------------------
\* The memo, the request under way and the counters are what the code stores.
TypeOK ==
  /\ memo \in BoundedSeq([text : Texts \ Long, vec : [of : Texts, by : {Command, Builtin}]], Cap)
  /\ asked \in Texts \cup {None} /\ try \in {Command, Builtin, None}
  /\ admitted \in {0, 1} /\ denied \in BOOLEAN

\* A lane is answered with the vector of the text it asked about, also from the memo a
\* batch filled.
VectorsAreOwn ==
  /\ \A i \in DOMAIN memo : memo[i].vec.of = memo[i].text
  /\ served # None => served.vec.of = served.text

\* "embeds each distinct (command,text) once for the duration of a recall": twice only
\* if the text is too long for the memo or the memo has been full.
EmbeddedOnce == \A t \in Texts \ Long : got[t] > 1 => spilled

\* Whatever becomes of a request the breaker let through, the breaker hears of it
\* before the lane goes on: a probe is never left claimed.
AdmissionsEnd == asked = None => admitted = 0
=============================================================================
