------------------------------ MODULE Directives ------------------------------
(***************************************************************************)
(* Conflicts between memories (memory_conflict.c) and the epistemic        *)
(* directives that ask about them and about queries that keep failing      *)
(* (memory_directives.c).  A call makes several database calls; calls of   *)
(* different workers interleave at each of them, and each may fail.        *)
(***************************************************************************)
EXTENDS Integers, FiniteSets

CONSTANTS
  Workers,
  Memories,     \* ids of memories, naturals above 0
  Disagree,     \* the pairs <<a, b>> of L2 memories the scan finds contradictory
  TopicOf(_),   \* the key of a memory, the topic of its directives
  Queries,      \* normalized queries, other than the topics
  Threshold,    \* MEMORY_DIRECTIVE_RETRIEVAL_FAILURE_THRESHOLD_DEFAULT
  MaxCalls,     \* bound on calls
  MaxDays,      \* bound on days
  MaxFailures,  \* bound on database calls that fail
  None

ASSUME DirectivesAssumption ==
  /\ Memories \subseteq Nat \ {0} /\ Disagree \subseteq {p \in Memories \X Memories : p[1] # p[2]}
  /\ Threshold \in Nat \ {0} /\ MaxDays \in Nat \ {0}
  /\ None # "scan"

VARIABLES
  conflicts,   \* memory_conflicts: the state of each recorded pair of ids
  log,         \* contradiction_log: the set of <<pair, resolution>>
  directives,  \* epistemic_directives: set of [cause, topic, a, b, state]
  failed,      \* failed_queries: the count of each query
  day, scanned,  \* the day, and the day of the last retroactive scan
  pc, arg, todo, answer,  \* each worker's place, operand, remaining pairs and result
  calls, failures

records == <<conflicts, log, directives, failed>>
clock == <<day, scanned>>
vars == <<records, clock, pc, arg, todo, answer, calls, failures>>

Pairs == {p \in Memories \X Memories : p[1] # p[2]}
Causes == {"contradiction", "retrieval_failure"}

Init ==
  /\ conflicts = [p \in Pairs |-> "none"] /\ log = {} /\ directives = {}
  /\ failed = [q \in Queries |-> 0] /\ day = 1 /\ scanned = 0
  /\ pc = [w \in Workers |-> "idle"] /\ arg = [w \in Workers |-> None]
  /\ todo = [w \in Workers |-> {}] /\ answer = [w \in Workers |-> None]
  /\ calls = 0 /\ failures = 0

Goto(w, p) == pc' = [pc EXCEPT ![w] = p]

(* A database call fails and changes nothing. *)
DbFails == failures < MaxFailures /\ failures' = failures + 1
DbWorks == UNCHANGED failures

Call(w, p, a, pairs) ==
  /\ pc[w] = "idle" /\ calls < MaxCalls /\ calls' = calls + 1
  /\ Goto(w, p) /\ arg' = [arg EXCEPT ![w] = a] /\ todo' = [todo EXCEPT ![w] = pairs]
  /\ answer' = [answer EXCEPT ![w] = None]
  /\ UNCHANGED <<records, clock, failures>>
-----------------------------------------------------------------------------

(* "Normalise pair order so the dedup index is stable". *)
NormalPair(p) == IF p[1] > p[2] THEN <<p[2], p[1]>> ELSE p

Contradiction(p) ==
  [cause |-> "contradiction", topic |-> TopicOf(p[1]), a |-> NormalPair(p)[1],
   b |-> NormalPair(p)[2], state |-> "open"]

Failure(q) ==
  [cause |-> "retrieval_failure", topic |-> q, a |-> 0, b |-> 0, state |-> "open"]

(* The unique indexes of the table: (cause, a, b) and (cause, topic). *)
Same(d, e) ==
  /\ d.cause = e.cause
  /\ IF d.cause = "contradiction" THEN d.a = e.a /\ d.b = e.b ELSE d.topic = e.topic

(* memory_directive_create through db2_directive_insert_ignore: 0 for a new
   row, 1 when the index has one already. *)
Create(e) == IF \E d \in directives : Same(d, e) THEN directives ELSE directives \cup {e}

(* memory_record_conflict: the row first, and nothing without it. *)
Record(w) ==
  /\ pc[w] = "record"
  /\ \/ /\ DbWorks /\ conflicts' = [conflicts EXCEPT ![arg[w]] = "pending"] /\ Goto(w, "log")
     \/ /\ DbFails /\ Goto(w, "next") /\ UNCHANGED conflicts
  /\ UNCHANGED <<log, directives, failed, clock, arg, todo, answer, calls>>

(* memory_log_contradiction and the link: neither result is looked at. *)
Log(w) ==
  /\ pc[w] = "log" /\ Goto(w, "direct")
  /\ \/ DbWorks /\ log' = log \cup {<<arg[w], "pending">>}
     \/ DbFails /\ UNCHANGED log
  /\ UNCHANGED <<conflicts, directives, failed, clock, arg, todo, answer, calls>>

(* memory_directive_record_contradiction, whose id nobody looks at. *)
Direct(w) ==
  /\ pc[w] = "direct" /\ Goto(w, "next")
  /\ \/ DbWorks /\ directives' = Create(Contradiction(arg[w]))
     \/ DbFails /\ UNCHANGED directives
  /\ UNCHANGED <<conflicts, log, failed, clock, arg, todo, answer, calls>>

(* The end of one pair: a scan takes the next one it found. *)
NextPair(w) ==
  /\ pc[w] = "next" /\ DbWorks
  /\ IF todo[w] # {}
     THEN \E p \in todo[w] : /\ arg' = [arg EXCEPT ![w] = p] /\ Goto(w, "record")
                             /\ todo' = [todo EXCEPT ![w] = @ \ {p}]
     ELSE Goto(w, IF answer[w] = "scan" THEN "marker" ELSE "idle") /\ UNCHANGED <<arg, todo>>
  /\ UNCHANGED <<records, clock, answer, calls>>
-----------------------------------------------------------------------------
(* retro_scan_due: at most one scan a day, once the marker is read. *)
Due == scanned # day

(* Mutant: the first contradiction ends the scan. *)
ScanFindsOne(w) ==
  /\ pc[w] = "idle" /\ calls < MaxCalls /\ calls' = calls + 1 /\ Due
  /\ \E p \in Disagree : todo' = [todo EXCEPT ![w] = {p}]
  /\ answer' = [answer EXCEPT ![w] = "scan"]
  /\ Goto(w, "next") /\ UNCHANGED <<records, clock, arg, failures>>

(* memory_scan_retroactive_conflicts: the check, the pairs of both queries
   in one go, each recorded in turn, and the marker at the very end. *)
Scan(w) ==
  /\ pc[w] = "idle" /\ calls < MaxCalls /\ calls' = calls + 1 /\ Due
  /\ todo' = [todo EXCEPT ![w] = Disagree] /\ answer' = [answer EXCEPT ![w] = "scan"]
  /\ Goto(w, "next") /\ UNCHANGED <<records, clock, arg, failures>>

(* Mutant: the marker holds the day of the next scan. *)
MarkerAhead(w) ==
  /\ pc[w] = "marker" /\ Goto(w, "idle")
  /\ scanned' = day + 1 /\ DbWorks
  /\ UNCHANGED <<records, day, arg, todo, answer, calls>>

Marker(w) ==
  /\ pc[w] = "marker" /\ Goto(w, "idle")
  /\ \/ DbWorks /\ scanned' = day
     \/ DbFails /\ UNCHANGED scanned
  /\ UNCHANGED <<records, day, arg, todo, answer, calls>>

Tick ==
  /\ day < MaxDays /\ day' = day + 1
  /\ UNCHANGED <<records, scanned, pc, arg, todo, answer, calls, failures>>
-----------------------------------------------------------------------------
(* memory_resolve_conflict: the pair is read, the row resolved; only a row
   that was pending is logged and its directive closed. *)
Resolve(w) ==
  /\ pc[w] = "resolve"
  /\ \/ /\ DbWorks /\ conflicts[arg[w]] = "pending"
        /\ conflicts' = [conflicts EXCEPT ![arg[w]] = "resolved"] /\ Goto(w, "close")
     \/ /\ conflicts[arg[w]] # "pending" /\ DbWorks /\ Goto(w, "idle") /\ UNCHANGED conflicts
     \/ /\ DbFails /\ Goto(w, "idle") /\ UNCHANGED conflicts
  /\ UNCHANGED <<log, directives, failed, clock, arg, todo, answer, calls>>

(* Mutant: only a directive with the pair in the conflict's order is closed. *)
AboutInOrder(d, p) == d.cause = "contradiction" /\ <<d.a, d.b>> = p

About(d, p) == d.cause = "contradiction" /\ {d.a, d.b} = {p[1], p[2]}

Close(w) ==
  /\ pc[w] = "close" /\ Goto(w, "idle")
  /\ log' = log \cup {<<arg[w], "resolved">>}
  /\ \/ /\ DbWorks
        /\ directives' = {IF About(d, arg[w]) /\ d.state = "open"
                          THEN [d EXCEPT !.state = "resolved"] ELSE d : d \in directives}
     \/ DbFails /\ UNCHANGED directives
  /\ UNCHANGED <<conflicts, failed, clock, arg, todo, answer, calls>>
-----------------------------------------------------------------------------
(* memory_directive_record_retrieval_failure: the counter, then, from the
   threshold on, the directive. *)
Bump(w) ==
  /\ pc[w] = "bump" /\ DbWorks
  /\ failed' = [failed EXCEPT ![arg[w]] = @ + 1]
  /\ Goto(w, IF failed[arg[w]] + 1 < Threshold THEN "idle" ELSE "ask")
  /\ UNCHANGED <<conflicts, log, directives, clock, arg, todo, answer, calls>>

Ask(w) ==
  /\ pc[w] = "ask" /\ Goto(w, "idle")
  /\ \/ DbWorks /\ directives' = Create(Failure(arg[w]))
     \/ DbFails /\ UNCHANGED directives
  /\ UNCHANGED <<conflicts, log, failed, clock, arg, todo, answer, calls>>

(* memory_directive_resolve, _suppress and _sweep_expired: one statement of
   the store, on a directive that is open. *)
Settle ==
  /\ \E d \in directives, s \in {"resolved", "suppressed", "expired"} :
       /\ d.state = "open" /\ calls < MaxCalls /\ calls' = calls + 1
       /\ directives' = (directives \ {d}) \cup {[d EXCEPT !.state = s]}
  /\ UNCHANGED <<conflicts, log, failed, clock, pc, arg, todo, answer, failures>>

Calls(w) ==
  \/ \E p \in Pairs : Call(w, "record", p, {})
  \/ \E p \in Pairs : conflicts[p] # "none" /\ Call(w, "resolve", p, {})
  \/ \E q \in Queries : Call(w, "bump", q, {})
  \/ Scan(w)

Step(w) ==
  \/ Record(w) \/ Log(w) \/ Direct(w) \/ NextPair(w) \/ Marker(w)
  \/ Resolve(w) \/ Close(w) \/ Bump(w) \/ Ask(w)

Next == Tick \/ Settle \/ \E w \in Workers : Calls(w) \/ Step(w)

Spec == Init /\ [][Next]_vars
-----------------------------------------------------------------------------
Quiet == \A w \in Workers : pc[w] = "idle"

TypeOK ==
  /\ conflicts \in [Pairs -> {"none", "pending", "resolved"}]
  /\ log \subseteq Pairs \X {"pending", "resolved"}
  /\ \A d \in directives : d.cause \in Causes
                           /\ d.state \in {"open", "resolved", "suppressed", "expired"}
  /\ failed \in [Queries -> Nat] /\ scanned \in 0 .. day /\ day \in 1 .. MaxDays

(***************************************************************************)
(* "replays are idempotent": two memories are asked about once, whatever   *)
(* order the callers name them in, and a query that keeps failing is asked *)
(* about once, never before the threshold and always after it unless the   *)
(* store failed.                                                           *)
(***************************************************************************)
AskedOnce ==
  /\ \A d, e \in directives : {d.a, d.b} = {e.a, e.b} /\ d.cause = e.cause
                              /\ (d.a = 0 => d.topic = e.topic) => d = e
  /\ \A q \in Queries :
       LET asked == \E d \in directives : d.cause = "retrieval_failure" /\ d.topic = q IN
       /\ asked => failed[q] >= Threshold
       /\ Quiet /\ failures = 0 /\ failed[q] >= Threshold => asked

(***************************************************************************)
(* Without a failure of the store, a conflict that was resolved while no   *)
(* other worker ran leaves nothing to ask about its memories               *)
(* (memory_resolve_conflict, whose pair may be the other way round than    *)
(* the directive's).                                                       *)
(***************************************************************************)
ResolvedIsClosed ==
  [][\A w \in Workers :
       pc[w] = "close" /\ pc'[w] = "idle" /\ failures' = 0
       => \A d \in directives' : {d.a, d.b} = {arg[w][1], arg[w][2]} => d.state # "open"]_vars

(***************************************************************************)
(* A scan that is over has left every contradictory pair recorded, logged  *)
(* and asked about, whatever other scans and resolutions ran meanwhile,    *)
(* unless the store failed.                                                *)
(***************************************************************************)
ScanIsComplete ==
  Quiet /\ failures = 0 /\ scanned # 0 =>
    \A p \in Disagree : /\ conflicts[p] # "none" /\ <<p, "pending">> \in log
                        /\ \E d \in directives : About(d, p)

(* A retroactive scan is complete, and what it and other calls ask is      *)
(* asked once (memory_directive_create, memory_scan_retroactive_conflicts). *)
QuestionsSound == TypeOK /\ AskedOnce /\ ScanIsComplete
=============================================================================
