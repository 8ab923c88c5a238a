------------------------------ MODULE Prospective ------------------------------
(***************************************************************************)
(* Reminders (memory_prospective.c): armed until they are triggered,       *)
(* completed or out of date.  Completing and triggering read the row and   *)
(* write it in a second database call; a match first sweeps what is out of *)
(* date and then asks in four stages.                                      *)
(***************************************************************************)
EXTENDS StagedMatch, Listing

CONSTANTS
  Threads,
  Reminders,        \* ids, naturals: a later one is younger
  Once,             \* those with recurrence "once"
  DueBy(_),           \* the last day of a reminder, 0 when it has none
  Entity(_), File(_),  \* its anchors
  MaxRows,            \* rows a match may return
  ArmedCap,         \* MEMORY_PROSPECTIVE_MAX_MATCHES * 4
  MaxReminderDays, MaxReminderCalls,  \* bounds
  Unset

ASSUME ReminderAssumption ==
  /\ Reminders \subseteq Nat /\ IsFiniteSet(Reminders)
  /\ MaxRows \in Nat /\ ArmedCap \in Nat /\ MaxReminderDays \in Nat \ {0}

VARIABLES
  state,     \* of each reminder
  triggers,  \* trigger_count of each reminder
  today,
  ppc, parg, seen,  \* each worker's place, reminder, and the state it read
  late,      \* the reminders that were out of date when its match swept
  pcalls

reminderVars == <<state, triggers, today, ppc, parg, seen, late, pcalls>>
Terminal == {"completed", "expired"}

ReminderInit ==
  /\ state = [r \in Reminders |-> "absent"] /\ triggers = [r \in Reminders |-> 0] /\ today = 1
  /\ ppc = [w \in Threads |-> "idle"] /\ parg = [w \in Threads |-> Unset]
  /\ seen = [w \in Threads |-> "absent"] /\ late = [w \in Threads |-> {}]
  /\ pcalls = 0

DayPasses == today < MaxReminderDays /\ today' = today + 1
        /\ UNCHANGED <<state, triggers, ppc, parg, seen, late, pcalls>>

Begin(w) == ppc[w] = "idle" /\ pcalls < MaxReminderCalls /\ pcalls' = pcalls + 1

(* memory_prospective_create, for texts and a recurrence that are valid. *)
NewReminder(w, r) ==
  /\ Begin(w) /\ state[r] = "absent" /\ \A q \in Reminders : q < r => state[q] # "absent"
  /\ state' = [state EXCEPT ![r] = "armed"]
  /\ UNCHANGED <<triggers, today, ppc, parg, seen, late>>

(* The read of complete and mark_triggered, when it finds a state to go on
   from; otherwise they return -1 and change nothing. *)
ReadRow(w, r, p, from) ==
  /\ Begin(w) /\ state[r] \in from
  /\ seen' = [seen EXCEPT ![w] = state[r]] /\ parg' = [parg EXCEPT ![w] = r]
  /\ ppc' = [ppc EXCEPT ![w] = p]
  /\ UNCHANGED <<state, triggers, today, late>>

(* Mutant: an expired reminder can still be completed. *)
CompletableAny == {"armed", "triggered", "expired"}

(* "Reject transitions out of a terminal state". *)
Completable == {"armed", "triggered"}
Triggerable == {"armed"}

Return(w) ==
  /\ ppc' = [ppc EXCEPT ![w] = "idle"] /\ parg' = [parg EXCEPT ![w] = Unset]
  /\ seen' = [seen EXCEPT ![w] = "absent"]

Complete(w) ==
  /\ ppc[w] = "complete" /\ state' = [state EXCEPT ![parg[w]] = "completed"]
  /\ Return(w) /\ UNCHANGED <<triggers, today, late, pcalls>>

(* db2_prospective_record_trigger(id, is_once). *)
Fired(r) == IF r \in Once THEN "triggered" ELSE state[r]

Trigger(w) ==
  /\ ppc[w] = "trigger"
  /\ state' = [state EXCEPT ![parg[w]] = Fired(parg[w])]
  /\ triggers' = [triggers EXCEPT ![parg[w]] = @ + 1]
  /\ Return(w) /\ UNCHANGED <<today, late, pcalls>>

OutOfDate == {r \in Reminders : state[r] # "absent" /\ DueBy(r) # 0 /\ DueBy(r) < today}
SweptState == [r \in Reminders |-> IF state[r] = "armed" /\ r \in OutOfDate THEN "expired" ELSE state[r]]

(* memory_prospective_sweep_expired, from the maintenance cycle. *)
Sweep(w) ==
  /\ Begin(w) /\ state' = SweptState
  /\ UNCHANGED <<triggers, today, ppc, parg, seen, late>>

SweptByMatch == SweptState

MatchSweep(w) ==
  /\ Begin(w) /\ state' = SweptByMatch /\ late' = [late EXCEPT ![w] = OutOfDate]
  /\ ppc' = [ppc EXCEPT ![w] = "match"]
  /\ UNCHANGED <<triggers, today, parg, seen>>

(* The rows of a set as the store lists them, the youngest first. *)
Listed(rows) == Descending(rows)

Armed == {r \in Reminders : state[r] = "armed"}

(* The four stages for a turn: its entity, its file, the reminders its terms
   hit, and those its stems hit among the armed rows the last stage fetches. *)
Stages(entity, file, terms, stems) ==
  << Listed({r \in Armed : entity # Unset /\ Entity(r) = entity}),
     Listed({r \in Armed : file # Unset /\ File(r) = file}),
     Listed(Armed \cap terms),
     Listed(ToSet(FirstRows(Listed(Armed), ArmedCap)) \cap stems) >>

MatchRows(stages) == MergeUnique(Staged(SubSeq(stages, 1, 3), MaxRows), stages[4], MaxRows)

(* The match reads only: what it returns is MatchRows of the stages. *)
Match(w) ==
  /\ ppc[w] = "match" /\ ppc' = [ppc EXCEPT ![w] = "idle"] /\ late' = [late EXCEPT ![w] = {}]
  /\ UNCHANGED <<state, triggers, today, parg, seen, pcalls>>

ReminderNext ==
  \/ DayPasses
  \/ \E w \in Threads :
       \/ \E r \in Reminders : \/ NewReminder(w, r)
                               \/ ReadRow(w, r, "complete", Completable)
                               \/ ReadRow(w, r, "trigger", Triggerable)
       \/ Complete(w) \/ Trigger(w) \/ Sweep(w) \/ MatchSweep(w) \/ Match(w)

ReminderSpec == ReminderInit /\ [][ReminderNext]_reminderVars
-----------------------------------------------------------------------------
ReminderTypeOK ==
  /\ state \in [Reminders -> {"absent", "armed", "triggered"} \cup Terminal]
  /\ triggers \in [Reminders -> Nat] /\ today \in 1 .. MaxReminderDays
  /\ ppc \in [Threads -> {"idle", "complete", "trigger", "match"}]
  /\ \A w \in Threads : late[w] \subseteq Reminders

(***************************************************************************)
(* A completed or expired reminder changes only through a call that read   *)
(* it before it got there, and one that fires once fires again only so:    *)
(* complete and mark_triggered check what they read, not what they write.  *)
(***************************************************************************)
TerminalLeftByStaleCallsOnly ==
  [][\A r \in Reminders :
       /\ state[r] \in Terminal /\ state'[r] # state[r]
            => \E w \in Threads : ppc[w] # "idle" /\ parg[w] = r /\ seen[w] \notin Terminal
       /\ r \in Once /\ triggers[r] > 0 /\ triggers'[r] > triggers[r]
            => state[r] # "armed"]_reminderVars

(* What a turn may be about: an entity, a file and the reminders its terms hit. *)
Anchors(of(_)) == {Unset} \cup {of(r) : r \in Reminders}
Turns == Anchors(Entity) \X Anchors(File) \X SUBSET Reminders

Returned(turn, stems) == MatchRows(Stages(turn[1], turn[2], turn[3], stems))

(***************************************************************************)
(* "so we don't surface something past its due date": what a match returns *)
(* was not out of date when the match began, whatever happens meanwhile.   *)
(***************************************************************************)
SurfacedInTime ==
  \A w \in Threads : ppc[w] = "match" =>
    \A turn \in Turns : ToSet(Returned(turn, Reminders)) \cap late[w] = {}

(***************************************************************************)
(* Whatever the stages overlap in, a match over them returns each row      *)
(* once, the strongest first, and leaves one out only when it is full.     *)
(***************************************************************************)
MatchFills ==
  (\E w \in Threads : ppc[w] = "match") =>
    \A turn \in Turns : \A stems \in {turn[3], Reminders} :
      WellMatched(Returned(turn, stems), Stages(turn[1], turn[2], turn[3], stems), MaxRows)

(* A match returns nothing that was late when it began, and fills what it may return. *)
RemindersSound == ReminderTypeOK /\ SurfacedInTime /\ MatchFills
=============================================================================
