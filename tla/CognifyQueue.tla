----------------------------- MODULE CognifyQueue -----------------------------
(***************************************************************************)
(* The cognify job queue (memory_improve.c): callers hand memory units to  *)
(* memory_cognify_unit, which in async mode queues them, and drainers work *)
(* the queue off with memory_cognify_drain.  Between two accesses to the   *)
(* job table, and while the external command runs, everybody else moves.   *)
(***************************************************************************)
EXTENDS Integers, FiniteSets

CONSTANTS
  Drainers,
  Timed,         \* the drainers called with a timeout
  Units,         \* memories that have text
  Blank,         \* memories whose content is missing
  MaxAttempts,   \* db1's limit of attempts on a job
  MaxChanges,    \* bound on changes of the configuration
  MaxCrashes,    \* bound on drainers that die
  NoUnit

VARIABLES
  mode,     \* "off", "sync" or "async": config_memory_cognify_*
  changes,  \* changes of mode so far
  jobs,     \* db1's cognify jobs: at most one for each memory
  drained,  \* times a drainer wrote what the cognifier found in a unit
  inlined,  \* times a caller's own memory_cognify_unit did
  qpc, unit, rc,  \* each drainer's place, the memory it works on, and its rc
  crashed

queueVars == <<mode, changes, jobs, drained, inlined, qpc, unit, rc, crashed>>
store == <<jobs, drained, inlined>>

Memories == Units \cup Blank

ASSUME QueueAssumption ==
  /\ NoUnit \notin Memories /\ MaxAttempts \in Nat \ {0}
  /\ MaxChanges \in Nat /\ MaxCrashes \in Nat

JobStates == {"none", "pending", "running", "done", "failed"}

QueueInit ==
  /\ mode \in {"off", "sync", "async"} /\ changes = 0
  /\ jobs = [u \in Memories |-> [state |-> "none", attempts |-> 0]]
  /\ drained = [u \in Memories |-> 0] /\ inlined = [u \in Memories |-> 0]
  /\ qpc = [d \in Drainers |-> "out"] /\ unit = [d \in Drainers |-> NoUnit]
  /\ rc = [d \in Drainers |-> 0] /\ crashed = 0

(* db1_cognify_job_enqueue: a second job for the same memory is ignored. *)
Enqueued(u) ==
  IF jobs[u].state = "none" THEN [jobs EXCEPT ![u].state = "pending"] ELSE jobs

Reconfigure ==
  /\ changes < MaxChanges /\ changes' = changes + 1
  /\ \E m \in {"off", "sync", "async"} \ {mode} : mode' = m
  /\ UNCHANGED <<jobs, drained, inlined, qpc, unit, rc, crashed>>
-----------------------------------------------------------------------------
(* A caller's memory_cognify_unit: refused when off, queued when async, done
   on the spot otherwise, if the command answers with JSON. *)
Submit(u) ==
  /\ \/ mode = "async" /\ jobs[u].state = "none" /\ jobs' = Enqueued(u) /\ UNCHANGED inlined
     \/ /\ mode = "sync" /\ u \in Units /\ inlined[u] = 0
        /\ inlined' = [inlined EXCEPT ![u] = @ + 1] /\ UNCHANGED jobs
  /\ UNCHANGED <<mode, changes, drained, qpc, unit, rc, crashed>>

(* Some program calls memory_cognify_drain. *)
StartDrain(d) ==
  /\ qpc[d] = "out" /\ \E u \in Memories : jobs[u].state = "pending"
  /\ qpc' = [qpc EXCEPT ![d] = "claim"]
  /\ UNCHANGED <<mode, changes, store, unit, rc, crashed>>

(* Mutant: a claim takes a job somebody is working on. *)
ClaimableRunning(u) == jobs[u].state \in {"pending", "running"}

Claimable(u) == jobs[u].state = "pending"

(* mcj_claim_next: one statement of db1 takes a job and counts the attempt. *)
Claim(d) ==
  /\ qpc[d] = "claim"
  /\ \E u \in Memories :
       /\ Claimable(u)
       /\ jobs' = [jobs EXCEPT ![u] = [state |-> "running",
                                       attempts |-> IF @.attempts < MaxAttempts + 1
                                                    THEN @.attempts + 1 ELSE @.attempts]]
       /\ unit' = [unit EXCEPT ![d] = u]
  /\ qpc' = [qpc EXCEPT ![d] = "unit"]
  /\ UNCHANGED <<mode, changes, drained, inlined, rc, crashed>>

(* Mutant: the drainer also waits for jobs that failed for good. *)
BusyFailed == \E u \in Memories : jobs[u].state \in {"running", "failed"}

Busy == \E u \in Memories : jobs[u].state = "running"

(* Nothing to claim: leave when no job runs, or, with a timeout, when the time
   is over; otherwise sleep and look again. *)
NothingToClaim(d) ==
  /\ qpc[d] = "claim" /\ \A u \in Memories : ~Claimable(u)
  /\ IF ~Busy THEN qpc' = [qpc EXCEPT ![d] = "out"]
     ELSE qpc' \in {[qpc EXCEPT ![d] = p] : p \in {"claim"} \cup (IF d \in Timed THEN {"out"} ELSE {})}
  /\ UNCHANGED <<mode, changes, store, unit, rc, crashed>>

(* A claim that fails ends the drain. *)
ClaimFails(d) ==
  /\ qpc[d] = "claim" /\ qpc' = [qpc EXCEPT ![d] = "out"]
  /\ UNCHANGED <<mode, changes, store, unit, rc, crashed>>

(* The drainer's memory_cognify_unit up to the external command. *)
Unit(d) ==
  LET u == unit[d] IN
  /\ qpc[d] = "unit"
  /\ \/ /\ mode = "off" \/ u \in Blank
        /\ rc' = [rc EXCEPT ![d] = -1] /\ qpc' = [qpc EXCEPT ![d] = "mark"] /\ UNCHANGED jobs
     \/ /\ mode = "async" /\ u \in Units /\ jobs' = Enqueued(u)
        /\ rc' = [rc EXCEPT ![d] = 0] /\ qpc' = [qpc EXCEPT ![d] = "mark"]
     \/ /\ mode = "sync" /\ u \in Units
        /\ qpc' = [qpc EXCEPT ![d] = "exec"] /\ UNCHANGED <<rc, jobs>>
  /\ UNCHANGED <<mode, changes, drained, inlined, unit, crashed>>

(* What platform_exec_pipe and memory_cognify_parse_response come to, and
   whether relations, claims and rules were then written: once it parses,
   nothing that is written can fail the unit any more. *)
Verdict == {<<-1, 0>>, <<0, 1>>}

Exec(d) ==
  /\ qpc[d] = "exec"
  /\ \E v \in Verdict : /\ rc' = [rc EXCEPT ![d] = v[1]]
                        /\ drained' = [drained EXCEPT ![unit[d]] = @ + v[2]]
  /\ qpc' = [qpc EXCEPT ![d] = "mark"]
  /\ UNCHANGED <<mode, changes, jobs, inlined, unit, crashed>>

Outcome(u, r) ==
  IF r = 0 THEN "done" ELSE IF jobs[u].attempts < MaxAttempts THEN "pending" ELSE "failed"

(* db1_cognify_job_mark; with a timeout the drain may end here. *)
Mark(d) ==
  /\ qpc[d] = "mark"
  /\ jobs' = [jobs EXCEPT ![unit[d]].state = Outcome(unit[d], rc[d])]
  /\ \E p \in {"claim"} \cup (IF d \in Timed THEN {"out"} ELSE {}) : qpc' = [qpc EXCEPT ![d] = p]
  /\ unit' = [unit EXCEPT ![d] = NoUnit] /\ rc' = [rc EXCEPT ![d] = 0]
  /\ UNCHANGED <<mode, changes, drained, inlined, crashed>>

(* The process of a drainer dies: its job stays running, nobody resets it. *)
Crash(d) ==
  /\ qpc[d] \notin {"out", "dead"} /\ crashed < MaxCrashes
  /\ crashed' = crashed + 1 /\ qpc' = [qpc EXCEPT ![d] = "dead"]
  /\ UNCHANGED <<mode, changes, store, unit, rc>>

Works(d) == Claim(d) \/ NothingToClaim(d) \/ Unit(d) \/ Exec(d) \/ Mark(d)
Drain(d) == Works(d) \/ ClaimFails(d)

QueueNext ==
  \/ Reconfigure
  \/ \E u \in Memories : Submit(u)
  \/ \E d \in Drainers : StartDrain(d) \/ Drain(d) \/ Crash(d)

(* A drainer runs on, its command ends, and somebody drains while jobs wait. *)
QueueFairness ==
  \A d \in Drainers : /\ WF_queueVars(Works(d))
                      /\ WF_queueVars(StartDrain(d))

QueueSpec == QueueInit /\ [][QueueNext]_queueVars /\ QueueFairness
-----------------------------------------------------------------------------
QueueTypeOK ==
  /\ mode \in {"off", "sync", "async"} /\ changes \in 0 .. MaxChanges
  /\ crashed \in 0 .. MaxCrashes
  /\ jobs \in [Memories -> [state : JobStates, attempts : 0 .. MaxAttempts + 1]]
  /\ drained \in [Memories -> Nat] /\ inlined \in [Memories -> 0 .. 1]
  /\ qpc \in [Drainers -> {"out", "claim", "unit", "exec", "mark", "dead"}]
  /\ unit \in [Drainers -> Memories \cup {NoUnit}] /\ rc \in [Drainers -> {-1, 0}]

Holder(d, u) == unit[d] = u /\ qpc[d] \in {"unit", "exec", "mark", "dead"}

(***************************************************************************)
(* A job that runs is held by exactly one drainer, living or dead, and     *)
(* nobody holds a job that waits or is finished (mcj_claim_next against    *)
(* db1_cognify_job_mark).                                                  *)
(***************************************************************************)
OneHolder ==
  \A u \in Memories :
    Cardinality({d \in Drainers : Holder(d, u)}) = (IF jobs[u].state = "running" THEN 1 ELSE 0)

(***************************************************************************)
(* "Retry if under max_attempts, otherwise mark permanently failed": no    *)
(* job is attempted more often, and one fails only when it was attempted   *)
(* that often.                                                             *)
(***************************************************************************)
FailedIsExhausted ==
  \A u \in Memories : /\ jobs[u].attempts <= MaxAttempts
                      /\ jobs[u].state = "failed" => jobs[u].attempts = MaxAttempts

(***************************************************************************)
(* However often a job is retried, and whoever dies on the way, what the   *)
(* cognifier found in a unit is written once and never after the job was   *)
(* given up.                                                               *)
(***************************************************************************)
WrittenOnce ==
  \A u \in Memories : /\ drained[u] <= 1
                      /\ drained[u] = 1 => jobs[u].state \in {"running", "done"}

(***************************************************************************)
(* What the job table promises, however drainers interleave, are killed    *)
(* and are reconfigured between their calls (memory_cognify_drain).        *)
(***************************************************************************)
JobsSound == QueueTypeOK /\ OneHolder /\ FailedIsExhausted /\ WrittenOnce

(***************************************************************************)
(* While no drainer dies every call of memory_cognify_drain returns, with  *)
(* or without a timeout.                                                   *)
(***************************************************************************)
DrainsEnd == \A d \in Drainers : qpc[d] = "claim" ~> (qpc[d] = "out" \/ crashed > 0)

(***************************************************************************)
(* "a drain worker will process the job later via memory_cognify_drain()"  *)
(* (memory_improve.c:364): a job is done only when its unit was cognified. *)
(***************************************************************************)
DoneIsCognified == \A u \in Memories : jobs[u].state = "done" => drained[u] = 1
=============================================================================
