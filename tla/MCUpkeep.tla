------------------------------- MODULE MCUpkeep -------------------------------
(***************************************************************************)
(* Small instances of Lifecycle, Maintenance and CognifyQueue, the upkeep  *)
(* of stored memories.  They share no state, so a behaviour runs one of    *)
(* them, its part, and the others stay at their initial state.  Lifecycle  *)
(* has two parts: in "alone" the calls do not overlap, in "race" all       *)
(* callers work on one row.                                                *)
(***************************************************************************)
EXTENDS Lifecycle, Maintenance, CognifyQueue

CONSTANTS First, Shared  \* the caller and the row of the smaller instances

VARIABLE part
allvars == <<part, vars, maintVars, queueVars>>

UpkeepInit ==
  /\ part \in {"alone", "race", "maintenance", "queue"}
  /\ Init /\ MaintInit /\ QueueInit
  /\ part # "queue" => mode = "off"

InLifecycle == part \in {"alone", "race"} /\ UNCHANGED <<part, maintVars, queueVars>>

(* Alone: nobody but the first caller calls, and nobody sweeps during its call. *)
Small ==
  /\ part = "alone" => /\ \A c \in Callers \ {First} : pc'[c] = "idle"
                       /\ state' = state \/ pc'[First] = "idle"
  /\ part = "race" => \A c \in Callers : call'[c].row \in {Shared, NoCall.row}

InMaintenance == part = "maintenance" /\ UNCHANGED <<part, vars, queueVars>>
InQueue == part = "queue" /\ UNCHANGED <<part, vars, maintVars>>

UpkeepNext ==
  \/ InLifecycle /\ Next /\ Small
  \/ InMaintenance /\ MaintNext
  \/ InQueue /\ QueueNext

(* The fairness of each part, while it is the one that runs. *)
UpkeepFairness ==
  /\ \A c \in Callers : /\ WF_allvars(InLifecycle /\ Step(c) /\ Small)
                        /\ WF_allvars(InLifecycle /\ Sweep(c) /\ Small)
  /\ WF_allvars(InLifecycle /\ Tick /\ Small)
  /\ \A t \in Threads : WF_allvars(InMaintenance /\ (MaybeRun(t) \/ Cycle(t)))
  /\ WF_allvars(InMaintenance /\ TimePasses) /\ WF_allvars(InMaintenance /\ TimerCycle)
  /\ \A d \in Drainers : /\ WF_allvars(InQueue /\ Works(d))
                         /\ WF_allvars(InQueue /\ StartDrain(d))

UpkeepSpec == UpkeepInit /\ [][UpkeepNext]_allvars /\ UpkeepFairness
=============================================================================
