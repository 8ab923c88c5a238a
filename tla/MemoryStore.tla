---------------------------- MODULE MemoryStore ----------------------------
(***************************************************************************)
(* The write path of the memory store: memory_insert_ex with its quality    *)
(* gate, versioning, merging and near-duplicate search (memory_core_crud.c),*)
(* memory_supersede (memory_advanced.c), memory_fold_session                *)
(* (memory_conflict.c), memory_delete and memory_update_content.            *)
(*                                                                          *)
(* The code runs no transaction: each db2_* call is one atomic step here,   *)
(* and the steps of several callers (the worker threads of the knowledge    *)
(* service) interleave.  A db2_* call that writes may fail, MaxFail times   *)
(* in a behaviour.  A content is the set of the facts it states; the scan,  *)
(* the gates and the similarity of texts are given by the facts they share. *)
(* Confidences are in tenths.                                               *)
(***************************************************************************)
EXTENDS Naturals, Sequences, FiniteSets

CONSTANTS Callers,      \* the threads that call the store
          RawKeys,      \* the keys as callers spell them
          Normalize,    \* normalize_key, from the spelled key to the stored one
          Similar,      \* pairs of stored keys within DEDUP_THRESHOLD
          Sessions,     \* session ids; a session also names its episode's key
          Facts,        \* what contents are made of
          Refused,      \* facts the sensitivity gate or the safety scan refuses
          Private,      \* facts the sensitivity gate redacts
          Ephemeral,    \* facts the stability gate calls ephemeral
          Clash,        \* pairs of contradicting facts
          Contents,     \* the contents callers submit
          Confidences,  \* the confidences callers submit
          MaxCalls,     \* bound: calls started
          MaxFail,      \* bound: failures of the database
          MaxDigest     \* rows whose text fits the 200-byte digest of a fold

Ids == 1 .. MaxCalls     \* a call inserts at most one row
NoId == 0
NoRow == [tier |-> "none"]
Keys == {Normalize[r] : r \in RawKeys} \cup Sessions
Tiers == {"L0", "L1", "L2", "L3"}
Kinds == {"fact", "scratch", "episode"}
Redacted == "redacted"   \* what the sensitivity gate writes over a fact
KeyText == "key text"    \* a key standing in for an empty content

ASSUME StoreAssumption ==
  /\ IsFiniteSet(Callers) /\ Callers # {}
  /\ MaxCalls \in Nat /\ MaxFail \in Nat
  /\ MaxDigest \in Nat \ {0}
  /\ Normalize \in [RawKeys -> RawKeys]
  /\ \A k \in Keys \cap RawKeys : Normalize[k] = k  \* normal keys are spelled one way
  /\ Similar \subseteq Keys \X Keys
  /\ \A p \in Similar : <<p[2], p[1]>> \in Similar  \* a similarity is of two texts
  /\ Clash \subseteq Facts \X Facts
  /\ Contents \subseteq SUBSET Facts
  /\ Confidences \subseteq 0 .. 10
  /\ {Redacted, KeyText} \cap Facts = {}

(***************************************************************************)
(* A stored key is a base key and the version suffixes appended to it: "k"  *)
(* is <<>>, "k#v2" is <<2>>, "k#v2#v1" is <<2, 1>>.                         *)
(***************************************************************************)
Key(b, vs) == [base |-> b, vers |-> vs]
Current(r) == r.key.vers = <<>>

VARIABLES
  rows,    \* the memories table: id -> row or NoRow
  nextId,  \* the id sequence of the table
  links,   \* memory_links of type "supersedes": <<new id, old id>>
  stack,   \* the call frames of each caller, innermost first
  pc,      \* the next statement of the innermost frame
  rc,      \* the return code while pc is "return"
  out,     \* the id memory_get filled *out with
  calls,   \* calls started
  fails,   \* failures of the database
  dropped, \* history: base keys whose row a delete, a purge or expiry removed
  aborted, \* history: base keys whose memory_supersede had its insert refused,
           \* failed or downgraded after the rename
  overlapped \* history: a call was started while another one was under way

vars == <<rows, nextId, links, stack, pc, rc, out, calls, fails, dropped, aborted, overlapped>>

Used == {i \in Ids : rows[i] # NoRow}
RowsAt(k) == {i \in Used : rows[i].key = k}
Top(c) == Head(stack[c])

Init ==
  /\ rows = [i \in Ids |-> NoRow] /\ nextId = 1 /\ links = {}
  /\ stack = [c \in Callers |-> <<>>] /\ pc = [c \in Callers |-> "idle"]
  /\ rc = [c \in Callers |-> 0] /\ out = [c \in Callers |-> NoId]
  /\ calls = 0 /\ fails = 0 /\ dropped = {} /\ aborted = {} /\ overlapped = FALSE

(***************************************************************************)
(* Contents.                                                                *)
(***************************************************************************)
Contradiction(x, y) == \E f \in x, g \in y : <<f, g>> \in Clash

\* is_contradiction, a temporal conflict, another profile value or a trigram
\* similarity below 0.6: texts that contradict or have nothing in common.
MateriallyDifferent(old, new) ==
  old # {} /\ (Contradiction(old, new) \/ old \cap new = {})

\* Mutant: the numeric tokens are not compared.
NearKeysAnyNumber(k, l) == k.base = l.base \/ <<k.base, l.base>> \in Similar

\* Two keys the near-duplicate search takes for spellings of one key: trigram
\* similar, and with the same ordered numeric tokens, which "k" and "k#v1"
\* do not have.
NearKeys(k, l) ==
  /\ k.base = l.base \/ <<k.base, l.base>> \in Similar
  /\ k.vers = l.vers

(***************************************************************************)
(* Frames.  "down" records that the gate downgraded the write, "failed"     *)
(* that a memory_supersede it called returned -1, "ex" and "exConf" what    *)
(* the last lookup read, "digest" the content a fold or an insert carries.  *)
(***************************************************************************)
Frame(fn, tier, kind, key, content, conf, sess) ==
  [fn |-> fn, tier |-> tier, kind |-> kind, key |-> key, content |-> content,
   conf |-> conf, sess |-> sess, down |-> FALSE, failed |-> FALSE,
   ex |-> NoId, exConf |-> 0, version |-> 0]

SetTop(c, f) == [stack EXCEPT ![c] = <<f>> \o Tail(stack[c])]
Goto(c, l) == pc' = [pc EXCEPT ![c] = l]
Push(c, f, l) ==
  /\ stack' = [stack EXCEPT ![c] = <<f>> \o stack[c]]
  /\ Goto(c, l)
Return(c, code) ==
  /\ rc' = [rc EXCEPT ![c] = code]
  /\ Goto(c, "return")
At(c, l) == pc[c] = l
DbFails == fails < MaxFail /\ fails' = fails + 1
DbWorks == UNCHANGED fails

Start(c) == At(c, "idle") /\ calls < MaxCalls /\ calls' = calls + 1

CallInsert(c) ==
  /\ Start(c)
  /\ \E tier \in {"L0", "L1", "L2"}, kind \in {"fact", "scratch"}, k \in RawKeys,
        x \in Contents \cup {{}}, v \in Confidences, s \in Sessions :
       /\ kind = "scratch" <=> tier = "L0"
       /\ Push(c, Frame("insert", tier, kind, Key(k, <<>>), x, v, s), "gate")
  /\ out' = [out EXCEPT ![c] = NoId]
  /\ UNCHANGED <<rows, nextId, links, rc, fails, dropped, aborted>>

\* memory_supersede called on the id of a row the caller knows.
CallSupersede(c) ==
  /\ Start(c)
  /\ \E i \in Used, x \in Contents, v \in Confidences, s \in Sessions :
       /\ stack' = [stack EXCEPT ![c] =
            <<[Frame("supersede", "", "", Key("", <<>>), x, v, s) EXCEPT !.ex = i]>>]
       /\ Goto(c, "get")
  /\ out' = [out EXCEPT ![c] = NoId]
  /\ UNCHANGED <<rows, nextId, links, rc, fails, dropped, aborted>>

CallFold(c) ==
  /\ Start(c)
  /\ \E s \in Sessions :
       Push(c, Frame("fold", "L1", "episode", Key(s, <<>>), {}, 8, s), "list")
  /\ out' = [out EXCEPT ![c] = NoId]
  /\ UNCHANGED <<rows, nextId, links, rc, fails, dropped, aborted>>

(***************************************************************************)
(* memory_insert_ex                                                         *)
(***************************************************************************)
\* The confidences of the L2 rows the write contradicts.  The gate looks the
\* key up as the caller spelled it.
Contradicted(f) ==
  {rows[i].conf : i \in {j \in RowsAt(f.key) :
     rows[j].tier = "L2" /\ Contradiction(rows[j].content, f.content)}}

Verdict(f) ==
  IF f.content = {} THEN IF f.tier = "L0" THEN "accept" ELSE "reject"
  ELSE IF f.content \cap Refused # {} THEN "reject"
  ELSE IF f.content \cap Private # {} THEN "redact"
  ELSE IF f.tier # "L0" /\ f.content \cap Ephemeral # {} THEN "downgrade"
  ELSE IF f.tier = "L2" /\ \E e \in Contradicted(f) : f.conf <= e THEN "downgrade"
  ELSE "accept"

\* The frame after the gate: tier and kind of a downgrade, redacted text, and
\* the normalised key.
Gated(f) ==
  LET v == Verdict(f) IN
  [f EXCEPT !.tier = IF v = "downgrade" THEN "L0" ELSE @,
            !.kind = IF v = "downgrade" THEN "scratch" ELSE @,
            !.down = v = "downgrade",
            !.content = IF v = "redact" THEN (@ \ Private) \cup {Redacted} ELSE @,
            !.key.base = IF @ \in RawKeys THEN Normalize[@] ELSE @]

Versions(f) == f.content # {} /\ f.conf >= 8 /\ f.tier = "L2"

Gate(c) ==
  /\ At(c, "gate")
  /\ \/ /\ Verdict(Top(c)) = "reject"
        /\ Return(c, 1) /\ UNCHANGED stack
     \/ /\ Verdict(Top(c)) # "reject"
        /\ stack' = SetTop(c, Gated(Top(c)))
        /\ Goto(c, IF Versions(Gated(Top(c))) THEN "lookup" ELSE "match")
        /\ UNCHANGED rc
  /\ UNCHANGED <<rows, nextId, links, out, calls, fails, dropped, aborted>>

\* db2_memory_lookup_by_key, and the decision to version.
Supersedes(f, r) ==
  r.tier = "L2" /\ r.conf >= 7 /\ MateriallyDifferent(r.content, f.content)

\* Mutant: only a more confident fact supersedes.
LookupMoreConfident(c) ==
  /\ At(c, "lookup")
  /\ LET f == Top(c) IN
     \/ \E i \in RowsAt(f.key) :
          \/ /\ Supersedes(f, rows[i]) /\ f.conf > rows[i].conf
             /\ Push(c, [Frame("supersede", "", "", f.key, f.content, f.conf, f.sess)
                         EXCEPT !.ex = i], "get")
          \/ /\ ~(Supersedes(f, rows[i]) /\ f.conf > rows[i].conf)
             /\ Goto(c, "match") /\ UNCHANGED stack
     \/ RowsAt(f.key) = {} /\ Goto(c, "match") /\ UNCHANGED stack
  /\ UNCHANGED <<rows, nextId, links, rc, out, calls, fails, dropped, aborted>>

Lookup(c) ==
  /\ At(c, "lookup")
  /\ LET f == Top(c) IN
     \/ \E i \in RowsAt(f.key) :
          \/ /\ Supersedes(f, rows[i])
             /\ Push(c, [Frame("supersede", "", "", f.key, f.content, f.conf, f.sess)
                         EXCEPT !.ex = i], "get")
          \/ /\ ~Supersedes(f, rows[i])
             /\ Goto(c, "match") /\ UNCHANGED stack
     \/ RowsAt(f.key) = {} /\ Goto(c, "match") /\ UNCHANGED stack
  /\ UNCHANGED <<rows, nextId, links, rc, out, calls, fails, dropped, aborted>>

\* Mutant: the exact-key lookup is by key and kind.
MatchKind(c) ==
  /\ At(c, "match")
  /\ LET f == Top(c)
         same == {i \in RowsAt(f.key) : rows[i].kind = f.kind} IN
     \/ \E i \in same :
          /\ stack' = SetTop(c, [f EXCEPT !.ex = i, !.exConf = rows[i].conf])
          /\ Goto(c, "merge")
     \/ same = {} /\ Goto(c, "dedupe") /\ UNCHANGED stack
  /\ UNCHANGED <<rows, nextId, links, rc, out, calls, fails, dropped, aborted>>

\* db2_memory_lookup_merge_fields
Match(c) ==
  /\ At(c, "match")
  /\ LET f == Top(c) IN
     \/ \E i \in RowsAt(f.key) :
          /\ stack' = SetTop(c, [f EXCEPT !.ex = i, !.exConf = rows[i].conf])
          /\ Goto(c, "merge")
     \/ RowsAt(f.key) = {} /\ Goto(c, "dedupe") /\ UNCHANGED stack
  /\ UNCHANGED <<rows, nextId, links, rc, out, calls, fails, dropped, aborted>>

\* db2_memory_active_kind_dedupe_candidates and the scan of the candidates;
\* fewer than the 100 it asks for.
Dedupe(c) ==
  /\ At(c, "dedupe")
  /\ LET f == Top(c)
         near == {i \in Used : rows[i].kind = f.kind /\ NearKeys(f.key, rows[i].key)}
     IN \/ \E i \in near :
             /\ stack' = SetTop(c, [f EXCEPT !.ex = i, !.exConf = rows[i].conf])
             /\ Goto(c, "merge")
        \/ near = {} /\ Goto(c, "insert") /\ UNCHANGED stack
  /\ UNCHANGED <<rows, nextId, links, rc, out, calls, fails, dropped, aborted>>

\* Mutant: the submitted confidence replaces the stored one.
MergedConfNewest(f) == f.conf

\* db2_memory_merge_update_ex: the row keeps its key, tier and kind.  An update
\* of a row that is gone changes nothing and may be reported either way.
MergedConf(f) == IF f.conf > f.exConf THEN f.conf ELSE f.exConf

Merge(c) ==
  /\ At(c, "merge")
  /\ LET f == Top(c) IN
     \/ /\ rows[f.ex] # NoRow
        /\ rows' = [rows EXCEPT ![f.ex].content = f.content, ![f.ex].conf = MergedConf(f)]
        /\ DbWorks
        /\ out' = [out EXCEPT ![c] = f.ex]
        /\ Goto(c, "maintain") /\ UNCHANGED rc
     \/ /\ rows[f.ex] = NoRow
        /\ DbWorks
        /\ Goto(c, "maintain") /\ UNCHANGED <<rows, rc, out>>
     \/ /\ DbFails \/ (rows[f.ex] = NoRow /\ DbWorks)
        /\ Return(c, 1) /\ UNCHANGED <<rows, out>>
  /\ UNCHANGED <<nextId, links, stack, calls, dropped, aborted>>

\* db2_memory_row_insert_ex
InsertRow(c) ==
  /\ At(c, "insert")
  /\ LET f == Top(c) IN
     \/ /\ rows' = [rows EXCEPT ![nextId] =
               [key |-> f.key, tier |-> f.tier, kind |-> f.kind, content |-> f.content,
                conf |-> f.conf, sess |-> f.sess]]
        /\ nextId' = nextId + 1
        /\ DbWorks
        /\ out' = [out EXCEPT ![c] = nextId]
        /\ Goto(c, "maintain") /\ UNCHANGED rc
     \/ DbFails /\ Return(c, 1) /\ UNCHANGED <<rows, nextId, out>>
  /\ UNCHANGED <<links, stack, calls, dropped, aborted>>

\* memory_maybe_run_maintenance: nothing when it is not due, else a cycle that
\* promotes and demotes rows by rules the properties do not tell apart, wipes L0
\* and expires stale L1.
Outcomes(r) ==
  IF r = NoRow \/ r.tier = "L0" THEN {NoRow}
  ELSE IF r.tier = "L1" THEN {r, [r EXCEPT !.tier = "L2"], NoRow}
  ELSE IF r.tier = "L2" THEN {r, [r EXCEPT !.tier = "L1"], [r EXCEPT !.tier = "L3"]}
  ELSE {r}

\* The keys whose current row is lost by a step to the table "after".
Dropped(after) ==
  {rows[i].key.base : i \in {j \in Used : Current(rows[j]) /\ after[j] = NoRow}}

Cycle ==
  \E after \in [Ids -> {NoRow} \cup UNION {Outcomes(rows[i]) : i \in Used}] :
    /\ \A i \in Ids : after[i] \in Outcomes(rows[i])
    /\ rows' = after
    /\ dropped' = dropped \cup Dropped(after)

Maintain(c) ==
  /\ At(c, "maintain")
  /\ Cycle \/ UNCHANGED <<rows, dropped>>
  /\ Return(c, 0)
  /\ UNCHANGED <<nextId, links, stack, out, calls, fails, aborted>>

(***************************************************************************)
(* memory_supersede                                                         *)
(***************************************************************************)
Get(c) ==
  /\ At(c, "get")
  /\ LET f == Top(c)
         r == rows[f.ex]
     IN \/ /\ r # NoRow
           /\ stack' = SetTop(c, [f EXCEPT !.key = r.key, !.tier = r.tier, !.kind = r.kind])
           /\ Goto(c, "count") /\ DbWorks /\ UNCHANGED rc
        \/ /\ (r = NoRow /\ DbWorks) \/ DbFails
           /\ Return(c, 1) /\ UNCHANGED stack
  /\ UNCHANGED <<rows, nextId, links, out, calls, dropped, aborted>>

\* db2_memory_count_versions: the rows whose key extends this one by "#v...".
VersionsOf(k) ==
  {i \in Used : /\ rows[i].key.base = k.base
                /\ Len(rows[i].key.vers) > Len(k.vers)
                /\ SubSeq(rows[i].key.vers, 1, Len(k.vers)) = k.vers}

Count(c) ==
  /\ At(c, "count")
  /\ stack' = SetTop(c, [Top(c) EXCEPT !.version = Cardinality(VersionsOf(Top(c).key)) + 1])
  /\ Goto(c, "rename")
  /\ UNCHANGED <<rows, nextId, links, rc, out, calls, fails, dropped, aborted>>

VersionedKey(k, n) == Key(k.base, Append(k.vers, n))

\* db2_memory_set_versioned_key, then the call of memory_insert under the old key.
Rename(c) ==
  /\ At(c, "rename")
  /\ LET f == Top(c) IN
     \/ /\ rows' = IF rows[f.ex] = NoRow THEN rows
                   ELSE [rows EXCEPT ![f.ex].key = VersionedKey(f.key, f.version)]
        /\ DbWorks
        /\ Push(c, Frame("insert", f.tier, f.kind, f.key, f.content, f.conf, f.sess), "gate")
        /\ UNCHANGED rc
     \/ /\ DbFails \/ (rows[f.ex] = NoRow /\ DbWorks)
        /\ Return(c, 1) /\ UNCHANGED <<rows, stack>>
  /\ UNCHANGED <<nextId, links, out, calls, dropped, aborted>>

\* Mutant: the link is drawn from the old row to the new one.
LinkSwapped(c) ==
  /\ At(c, "link")
  /\ \/ out[c] # NoId /\ links' = links \cup {<<Top(c).ex, out[c]>>}
     \/ UNCHANGED links
  /\ Return(c, 0)
  /\ UNCHANGED <<rows, nextId, stack, out, calls, fails, dropped, aborted>>

\* The caller passed an out record, and the new row is linked to the old one, or
\* it passed NULL.
Link(c) ==
  /\ At(c, "link")
  /\ \/ out[c] # NoId /\ links' = links \cup {<<out[c], Top(c).ex>>}
     \/ UNCHANGED links
  /\ Return(c, 0)
  /\ UNCHANGED <<rows, nextId, stack, out, calls, fails, dropped, aborted>>

(***************************************************************************)
(* memory_fold_session                                                      *)
(***************************************************************************)
SessionL0(s) == {i \in Used : rows[i].tier = "L0" /\ rows[i].sess = s}
Text(r) == IF r.content = {} THEN {KeyText} ELSE r.content

\* The digest holds the texts that fit; an episode is inserted unless the
\* session has no row.
List(c) ==
  /\ At(c, "list")
  /\ LET f == Top(c) IN
     \/ SessionL0(f.sess) = {} /\ Return(c, 0) /\ UNCHANGED stack
     \/ \E D \in SUBSET SessionL0(f.sess) :
          /\ D # {} /\ Cardinality(D) <= MaxDigest
          /\ D = SessionL0(f.sess) \/ Cardinality(D) = MaxDigest
          /\ Push(c, Frame("insert", f.tier, f.kind, f.key,
                           UNION {Text(rows[i]) : i \in D}, f.conf, f.sess), "gate")
          /\ UNCHANGED rc
  /\ UNCHANGED <<rows, nextId, links, out, calls, fails, dropped, aborted>>

\* db2_memory_session_l0_purge, whatever memory_insert returned.
Purge(c) ==
  /\ At(c, "purge")
  /\ LET after == [i \in Ids |-> IF i \in SessionL0(Top(c).sess) THEN NoRow ELSE rows[i]]
     IN \/ rows' = after /\ dropped' = dropped \cup Dropped(after) /\ DbWorks
        \/ DbFails /\ UNCHANGED <<rows, dropped>>
  /\ Return(c, 0)
  /\ UNCHANGED <<nextId, links, stack, out, calls, aborted>>

(***************************************************************************)
(* The return to the calling frame.                                         *)
(***************************************************************************)
Caller(c) == Head(Tail(stack[c]))

\* memory_supersede goes on after its insert succeeded; memory_insert_ex falls
\* through to the merge path after memory_supersede failed; memory_fold_session
\* ignores what its insert returned; the others pass the code on.
Resume(c) ==
  /\ At(c, "return")
  /\ \/ /\ Len(stack[c]) = 1
        /\ stack' = [stack EXCEPT ![c] = <<>>] /\ Goto(c, "idle") /\ UNCHANGED aborted
     \/ /\ Len(stack[c]) > 1
        /\ LET up == Tail(stack[c]) IN
           \/ /\ Caller(c).fn = "supersede" /\ rc[c] = 0
              /\ stack' = [stack EXCEPT ![c] = up] /\ Goto(c, "link")
              /\ aborted' = IF Top(c).down THEN aborted \cup {Caller(c).key.base} ELSE aborted
           \/ /\ Caller(c).fn = "insert" /\ rc[c] # 0
              /\ stack' = [stack EXCEPT ![c] = <<[Head(up) EXCEPT !.failed = TRUE]>> \o Tail(up)]
              /\ Goto(c, "match") /\ UNCHANGED aborted
           \/ /\ Caller(c).fn = "fold"
              /\ stack' = [stack EXCEPT ![c] = up] /\ Goto(c, "purge") /\ UNCHANGED aborted
           \/ /\ Caller(c).fn = "supersede" /\ rc[c] # 0
              /\ stack' = [stack EXCEPT ![c] = up] /\ Goto(c, "return")
              /\ aborted' = aborted \cup {Caller(c).key.base}
           \/ /\ Caller(c).fn = "insert" /\ rc[c] = 0
              /\ stack' = [stack EXCEPT ![c] = up] /\ Goto(c, "return") /\ UNCHANGED aborted
  /\ UNCHANGED <<rows, nextId, links, rc, out, calls, fails, dropped>>

(***************************************************************************)
(* memory_delete and memory_update_content.                                 *)
(***************************************************************************)
Delete(c) ==
  /\ Start(c)
  /\ \E i \in Used :
       LET after == [rows EXCEPT ![i] = NoRow]
       IN rows' = after /\ dropped' = dropped \cup Dropped(after)
  /\ UNCHANGED <<nextId, links, stack, pc, rc, out, fails, aborted>>

UpdateContent(c) ==
  /\ Start(c)
  /\ \E i \in Used, x \in Contents \ {{}} : rows' = [rows EXCEPT ![i].content = x]
  /\ UNCHANGED <<nextId, links, stack, pc, rc, out, fails, dropped, aborted>>

Quiet == \A c \in Callers : At(c, "idle")

\* Every call the bound allows has returned.
Finished == calls = MaxCalls /\ UNCHANGED vars /\ Quiet

Insert(c) == Gate(c) \/ Lookup(c) \/ Match(c) \/ Dedupe(c) \/ Merge(c) \/ InsertRow(c) \/ Maintain(c)
Supersede(c) == Get(c) \/ Count(c) \/ Rename(c) \/ Link(c)
Fold(c) == List(c) \/ Purge(c)
Call(c) == CallInsert(c) \/ CallSupersede(c) \/ CallFold(c) \/ Delete(c) \/ UpdateContent(c)

Moves(c) == Call(c) \/ Insert(c) \/ Supersede(c) \/ Fold(c) \/ Resume(c)

\* A call is started before another one has returned.
Overlap == calls' # calls /\ ~Quiet

Next ==
  \/ (\E c \in Callers : Moves(c)) /\ overlapped' = (overlapped \/ Overlap)
  \/ Finished

Spec == Init /\ [][Next]_vars

(***************************************************************************)
(* Properties.                                                              *)
(***************************************************************************)
Texts == SUBSET (Facts \cup {Redacted, KeyText})
Row == [key : [base : Keys, vers : Seq(Nat \ {0})], tier : Tiers, kind : Kinds,
        content : Texts, conf : 0 .. 10, sess : Sessions]
Labels == {"idle", "gate", "lookup", "match", "dedupe", "merge", "insert", "maintain",
           "get", "count", "rename", "link", "list", "purge", "return"}

\* The tables and the callers' variables hold what the code stores in them; a
\* stored row always has a normalised key.
TypeOK ==
  /\ \A i \in Ids : rows[i] = NoRow \/ rows[i] \in Row
  /\ nextId \in 1 .. MaxCalls + 1
  /\ \A i \in Used : i < nextId
  /\ links \subseteq Ids \X Ids
  /\ pc \in [Callers -> Labels] /\ rc \in [Callers -> {0, 1}]
  /\ out \in [Callers -> Ids \cup {NoId}]
  /\ calls \in 0 .. MaxCalls /\ fails \in 0 .. MaxFail
  /\ dropped \subseteq Keys /\ aborted \subseteq Keys /\ overlapped \in BOOLEAN

\* A key has at most one current row, whatever versions, failures, deletions and
\* downgrades it went through, when one caller writes at a time.
CurrentUnique ==
  \A i, j \in Used : Current(rows[i]) /\ rows[i].key = rows[j].key => i = j

\* Two current rows of one kind never have keys the near-duplicate search takes
\* for spellings of one another, when one caller writes at a time.
NoNearDuplicates ==
  \A i, j \in Used :
    /\ Current(rows[i]) /\ Current(rows[j]) /\ rows[i].kind = rows[j].kind
    /\ NearKeys(rows[i].key, rows[j].key)
    => i = j

\* While calls do not overlap, memory_insert_ex leaves one current row to a key, and
\* none of a near-duplicate key beside it.
OneCurrent == TypeOK /\ (~overlapped => CurrentUnique /\ NoNearDuplicates)

\* A key with versions but without a current row, of those not in "except".
Gap(except) ==
  \E i \in Used : /\ ~Current(rows[i]) /\ rows[i].key.base \notin except
                  /\ RowsAt(Key(rows[i].key.base, <<>>)) = {}

\* While calls do not overlap, a memory_supersede whose insert is done as asked
\* leaves a current row: the new value never ends up in another row, in particular
\* not in the version just put aside.
SupersedeLeavesCurrent == ~overlapped /\ Quiet => ~Gap(dropped \cup aborted)

\* The write at c is that of a memory_supersede called on a version put aside,
\* which inserts under the key of that version.
OnVersion(c) == stack[c] # <<>> /\ Top(c).key.vers # <<>>

\* No write lowers the confidence of a row, and none changes the content of a
\* version put aside, except an update of that very row or a memory_supersede of
\* a version: the history of a fact stays what it was.
LosesNothing ==
  \A i \in Used : rows'[i] # NoRow =>
    /\ rows'[i].conf >= rows[i].conf
    /\ ~Current(rows[i]) => \/ rows'[i].content = rows[i].content
                            \/ \E c \in Callers : UpdateContent(c) \/ OnVersion(c)

\* So it is while calls do not overlap.
MergesLoseNothing == [][~overlapped => LosesNothing]_vars

\* What a row was linked to as its predecessor is a version put aside and is
\* never the current row of a key again, with any number of callers.
LinksPointBack ==
  \A l \in links : rows[l[2]] # NoRow => ~Current(rows[l[2]])

\* The row a high-confidence L2 write at c merges into holds a high-confidence L2
\* value that is materially different.
Overwrites(c) ==
  /\ At(c, "merge") /\ rows[Top(c).ex] # NoRow /\ rows'[Top(c).ex] # rows[Top(c).ex]
  /\ Supersedes(Top(c), rows[Top(c).ex])

\* A confident L2 write replaces a materially different L2 fact of the same
\* current key only by way of memory_supersede, unless memory_supersede failed.
HistoryStep ==
  \A c \in Callers : Overwrites(c) /\ Versions(Top(c)) =>
    Top(c).failed \/ rows[Top(c).ex].key # Top(c).key \/ OnVersion(c)

\* So it is while calls do not overlap.
HistoryKept == [][~overlapped => HistoryStep]_vars

\* The same for every high-confidence L2 fact as it was submitted.
HistoryKeptAlways ==
  [][\A c \in Callers : Overwrites(c) /\ Versions(Top(c)) => Top(c).failed]_vars
=============================================================================
