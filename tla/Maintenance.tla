---------------------------- MODULE Maintenance ----------------------------
(***************************************************************************)
(* When maintenance runs.  Every write calls memory_maybe_run_maintenance   *)
(* (memory_core_helpers.c), which counts writes in the runtime state and    *)
(* runs memory_run_maintenance when enough of them, or enough time, has     *)
(* passed.  A timer and operators call memory_maintenance_run               *)
(* (memory_maintenance.c), whose idle guard skips a cycle when the number   *)
(* of memories is the one the last cycle left and the cadence has not       *)
(* lapsed.  The threads share the static flag maintenance_running and the   *)
(* two state stores; each access is one atomic step.                        *)
(*                                                                          *)
(* What a cycle does to the memories is abstracted to their number.         *)
(***************************************************************************)
EXTENDS Integers

CONSTANTS Workers,         \* threads that write, delete and run cycles on demand
          Timer,           \* the thread that runs the periodic cycle
          TriggerInserts,  \* writes after which a write runs maintenance
          TriggerSecs,     \* time after which a write runs maintenance
          Interval,        \* the cadence of the periodic cycle
          MaxRows,         \* bound: memories
          Prunes           \* the values of modes & PRUNE the cycles are called with

ASSUME MaintenanceAssumption ==
  /\ {TriggerInserts, TriggerSecs, Interval} \subseteq Nat \ {0}
  /\ MaxRows \in Nat
  /\ TRUE \in Prunes /\ Prunes \subseteq BOOLEAN
  /\ Timer \notin Workers

Threads == Workers \cup {Timer}
Unset == TriggerSecs + 1

VARIABLES
  count,    \* db2_memory_count
  saved,    \* the maintenance state: present, and last_memory_count
  age,      \* time since last_run_at, up to Interval
  pending,  \* maintenance_pending_writes
  epoch,    \* time since maintenance_last_run_epoch, up to TriggerSecs, or Unset
  running,  \* maintenance_running
  unseen,   \* history: a caller inserted a memory no maintenance has looked at
  mpc, loc   \* the next statement and the locals of each thread

maintVars == <<count, saved, age, pending, epoch, running, unseen, mpc, loc>>
shared == <<count, saved, age, pending, epoch, running, unseen>>

NoLoc == [pending |-> 0, at |-> 0, back |-> "idle", count |-> 0,
          force |-> FALSE, dry |-> FALSE, prune |-> TRUE]

MaintInit ==
  /\ count = 0 /\ saved = [present |-> FALSE, count |-> 0] /\ age = 0
  /\ pending = 0 /\ epoch = Unset /\ running = FALSE /\ unseen = FALSE
  /\ mpc = [t \in Threads |-> "idle"] /\ loc = [t \in Threads |-> NoLoc]

Later(x, top) == IF x < top THEN x + 1 ELSE x

Outside(t) == mpc[t] = "idle"
MoveTo(t, l) == mpc' = [mpc EXCEPT ![t] = l]
Return(t) ==
  /\ MoveTo(t, loc[t].back)
  /\ loc' = IF loc[t].back = "idle" THEN [loc EXCEPT ![t] = NoLoc]
            ELSE [loc EXCEPT ![t].back = "idle", ![t].pending = 0, ![t].at = 0]

(***************************************************************************)
(* Writes.                                                                  *)
(***************************************************************************)
\* A write inserts a memory or merges into one, then calls
\* memory_maybe_run_maintenance.
Write(t) ==
  /\ Outside(t)
  /\ \/ count < MaxRows /\ count' = count + 1 /\ unseen' = TRUE
     \/ count > 0 /\ UNCHANGED <<count, unseen>>
  /\ MoveTo(t, "flag")
  /\ UNCHANGED <<saved, age, pending, epoch, running, loc>>

Delete(t) ==
  /\ Outside(t) /\ count > 0
  /\ count' = count - 1
  /\ UNCHANGED <<saved, age, pending, epoch, running, unseen, mpc, loc>>

(***************************************************************************)
(* memory_maybe_run_maintenance                                             *)
(***************************************************************************)
CheckFlag(t) ==
  /\ mpc[t] = "flag"
  /\ \/ running /\ Return(t)
     \/ ~running /\ MoveTo(t, "readPending") /\ UNCHANGED loc
  /\ UNCHANGED shared

\* The counter stops at TriggerInserts, which is all it is compared with: a thread
\* that reads it before another resets it makes it grow past that.
ReadPending(t) ==
  /\ mpc[t] = "readPending"
  /\ loc' = [loc EXCEPT ![t].pending = Later(pending, TriggerInserts)]
  /\ MoveTo(t, "setPending")
  /\ UNCHANGED shared

SetPending(t) ==
  /\ mpc[t] = "setPending"
  /\ pending' = loc[t].pending
  /\ MoveTo(t, "decide")
  /\ UNCHANGED <<count, saved, age, epoch, running, unseen, loc>>

Due(t) == loc[t].pending >= TriggerInserts \/ epoch = TriggerSecs

\* The time is read here and stored after the run; the first write ever only
\* stores it.
Decide(t) ==
  /\ mpc[t] = "decide"
  /\ epoch' = IF epoch = Unset THEN 0 ELSE epoch
  /\ \/ ~Due(t) /\ Return(t)
     \/ Due(t) /\ MoveTo(t, "raise") /\ loc' = [loc EXCEPT ![t].pending = 0, ![t].at = 0]
  /\ UNCHANGED <<count, saved, age, pending, running, unseen>>

Raise(t) ==
  /\ mpc[t] = "raise"
  /\ running' = TRUE
  /\ MoveTo(t, "run")
  /\ UNCHANGED <<count, saved, age, pending, epoch, unseen, loc>>

\* memory_run_maintenance: it expires and derives memories.  The writes of the
\* memories it derives find the flag raised.
Run(t) ==
  /\ mpc[t] = "run"
  /\ count' \in 0 .. MaxRows
  /\ unseen' = FALSE
  /\ MoveTo(t, "reset")
  /\ UNCHANGED <<saved, age, pending, epoch, running, loc>>

Reset(t) ==
  /\ mpc[t] = "reset"
  /\ pending' = 0
  /\ MoveTo(t, "stamp")
  /\ UNCHANGED <<count, saved, age, epoch, running, unseen, loc>>

Stamp(t) ==
  /\ mpc[t] = "stamp"
  /\ epoch' = loc[t].at
  /\ MoveTo(t, "lower")
  /\ UNCHANGED <<count, saved, age, pending, running, unseen, loc>>

\* Mutant: the flag is left raised.
LowerForgotten(t) ==
  /\ mpc[t] = "lower"
  /\ Return(t)
  /\ UNCHANGED shared

\* The lifecycle sweep and the scene clustering, which neither add nor remove rows,
\* come before the flag is lowered.
Lower(t) ==
  /\ mpc[t] = "lower"
  /\ running' = FALSE
  /\ Return(t)
  /\ UNCHANGED <<count, saved, age, pending, epoch, unseen>>

(***************************************************************************)
(* memory_maintenance_run                                                   *)
(***************************************************************************)
CallCycle(t, force, dry, prune) ==
  /\ Outside(t)
  /\ loc' = [loc EXCEPT ![t] = [NoLoc EXCEPT !.force = force, !.dry = dry, !.prune = prune]]
  /\ MoveTo(t, "before")
  /\ UNCHANGED shared

CountBefore(t) ==
  /\ mpc[t] = "before"
  /\ loc' = [loc EXCEPT ![t].count = count]
  /\ MoveTo(t, "guard")
  /\ UNCHANGED shared

\* Mutant: the cadence is not looked at.
ShouldSkipForever(n) == saved.present /\ n = saved.count

\* mm_should_skip
ShouldSkip(n) == saved.present /\ n = saved.count /\ age < Interval

Skip(t) ==
  /\ mpc[t] = "guard" /\ ~loc[t].force /\ ShouldSkip(loc[t].count)
  /\ Return(t)
  /\ UNCHANGED shared

Proceed(t) ==
  /\ mpc[t] = "guard" /\ (loc[t].force \/ ~ShouldSkip(loc[t].count))
  /\ MoveTo(t, "prune")
  /\ loc' = [loc EXCEPT ![t].force = FALSE, ![t].count = 0]
  /\ UNCHANGED shared

\* The modes REPLAY and PRUNE.  A dry run, and a cycle without PRUNE, applies no
\* tier or expiry rule.  The writes of the memories that memory_run_maintenance
\* derives call memory_maybe_run_maintenance, and this path has not raised the flag.
Prune(t) ==
  /\ mpc[t] = "prune"
  /\ \/ /\ loc[t].prune /\ ~loc[t].dry
        /\ count' \in 0 .. MaxRows
        /\ unseen' = FALSE
        /\ \/ MoveTo(t, "compact") /\ UNCHANGED loc
           \/ MoveTo(t, "flag") /\ loc' = [loc EXCEPT ![t].back = "compact"]
     \/ /\ ~(loc[t].prune /\ ~loc[t].dry)
        /\ MoveTo(t, "compact") /\ UNCHANGED <<count, unseen, loc>>
  /\ UNCHANGED <<saved, age, pending, epoch, running>>

\* The modes COMPACT, SUMMARIZE and DRIFT: duplicates are deleted, and summaries
\* written through memory_insert.
Compact(t) ==
  /\ mpc[t] = "compact"
  /\ \/ /\ ~loc[t].dry
        /\ count' \in 0 .. MaxRows
        /\ \/ MoveTo(t, "after") /\ UNCHANGED loc
           \/ MoveTo(t, "flag") /\ loc' = [loc EXCEPT ![t].back = "after"]
     \/ loc[t].dry /\ MoveTo(t, "after") /\ UNCHANGED <<count, loc>>
  /\ UNCHANGED <<saved, age, pending, epoch, running, unseen>>

CountAfter(t) ==
  /\ mpc[t] = "after"
  /\ loc' = [loc EXCEPT ![t].count = count]
  /\ MoveTo(t, "save")
  /\ UNCHANGED shared

\* mm_state_save, unless this was a dry run.
Save(t) ==
  /\ mpc[t] = "save"
  /\ \/ /\ ~loc[t].dry
        /\ saved' = [present |-> TRUE, count |-> loc[t].count] /\ age' = 0
     \/ loc[t].dry /\ UNCHANGED <<saved, age>>
  /\ Return(t)
  /\ UNCHANGED <<count, pending, epoch, running, unseen>>

(***************************************************************************)
(* Time.                                                                    *)
(***************************************************************************)
TimePasses ==
  /\ age' = Later(age, Interval)
  /\ epoch' = IF epoch = Unset THEN Unset ELSE Later(epoch, TriggerSecs)
  /\ loc' = [t \in Threads |->
               IF mpc[t] \in {"raise", "run", "reset", "stamp"}
               THEN [loc[t] EXCEPT !.at = Later(@, TriggerSecs)] ELSE loc[t]]
  /\ UNCHANGED <<count, saved, pending, running, unseen, mpc>>

MaybeRun(t) ==
  \/ CheckFlag(t) \/ ReadPending(t) \/ SetPending(t) \/ Decide(t)
  \/ Raise(t) \/ Run(t) \/ Reset(t) \/ Stamp(t) \/ Lower(t)

Cycle(t) ==
  \/ CountBefore(t) \/ Skip(t) \/ Proceed(t) \/ Prune(t) \/ Compact(t)
  \/ CountAfter(t) \/ Save(t)

\* memory_maintenance_maybe_run
TimerCycle == CallCycle(Timer, FALSE, FALSE, TRUE)

MaintNext ==
  \/ \E t \in Workers :
       \/ Write(t) \/ Delete(t)
       \/ \E force, dry \in BOOLEAN, prune \in Prunes : CallCycle(t, force, dry, prune)
  \/ TimerCycle
  \/ \E t \in Threads : MaybeRun(t) \/ Cycle(t)
  \/ TimePasses

MaintSpec == MaintInit /\ [][MaintNext]_maintVars

\* Threads run, time passes, and the timer calls memory_maintenance_maybe_run again
\* and again.
MaintFairness ==
  /\ \A t \in Threads : WF_maintVars(MaybeRun(t) \/ Cycle(t))
  /\ WF_maintVars(TimePasses) /\ WF_maintVars(TimerCycle)

FairMaintSpec == MaintSpec /\ MaintFairness

(***************************************************************************)
(* Properties.                                                              *)
(***************************************************************************)
Labels == {"idle", "flag", "readPending", "setPending", "decide", "raise", "run", "reset",
           "stamp", "lower", "before", "guard", "prune", "compact", "after", "save"}

Locals == [pending : 0 .. TriggerInserts, at : 0 .. TriggerSecs,
           back : {"idle", "compact", "after"}, count : 0 .. MaxRows,
           force : BOOLEAN, dry : BOOLEAN, prune : BOOLEAN]

\* The state stores and the locals hold what the code stores in them.
MaintTypeOK ==
  /\ count \in 0 .. MaxRows
  /\ saved \in [present : BOOLEAN, count : 0 .. MaxRows]
  /\ age \in 0 .. Interval
  /\ pending \in 0 .. TriggerInserts
  /\ epoch \in 0 .. Unset
  /\ running \in BOOLEAN /\ unseen \in BOOLEAN
  /\ mpc \in [Threads -> Labels]
  /\ loc \in [Threads -> Locals]

\* When no call is under way the flag is down and fewer writes are on the counter
\* than trigger a run: no run is lost and no thread is locked out, however the
\* reads and writes of the counter and the flag interleave.
TriggerArmed == (\A t \in Threads : Outside(t)) => ~running /\ pending < TriggerInserts

\* An inserted memory is looked at by some maintenance in the end, even though
\* the idle guard may skip cycles.
EventuallyMaintained == unseen ~> ~unseen
=============================================================================
