----------------------------- MODULE Lifecycle -----------------------------
(***************************************************************************)
(* The lifecycle of a memory (memory_lifecycle.c): memory_transition_       *)
(* lifecycle and memory_mark_pending read the state of a row, decide, and   *)
(* write it back with a second database call; memory_lifecycle_sweep_       *)
(* expired archives, in one statement, the pending rows whose deadline has  *)
(* passed.  The callers are the threads that run these functions; a         *)
(* database call is one atomic step.                                        *)
(***************************************************************************)
EXTENDS Integers

CONSTANTS Callers,    \* threads
          Rows,       \* memories, all active at first
          Relative,   \* days of a commitment with a time window
          OpenEnded,  \* days of a commitment without one
          MaxCalls,   \* bound: calls started
          MaxFail     \* bound: failures of the database

ASSUME LifecycleAssumption ==
  /\ Relative \in Nat \ {0} /\ OpenEnded \in Nat \ {0}
  /\ MaxCalls \in Nat /\ MaxFail \in Nat

VARIABLES
  state,   \* lifecycle_state of each row
  left,    \* days until ttl_at of each row, 0 once it passed, NoTtl without one
  pc,      \* "idle", or the database call a caller is about to make
  call,    \* the arguments of the call of each caller and the state it read
  calls, fails,
  overlapped  \* history: a call or a sweep began while a call was under way

vars == <<state, left, pc, call, calls, fails, overlapped>>

NoTtl == -1
NoCall == [fn |-> "none", row |-> "none", to |-> "none", ttl |-> NoTtl]

\* lc_is_valid_state
ValidState(s) == s \in {"active", "pending", "fulfilled", "superseded", "archived"}

\* Mutant: an archived row may be made active again.
TransitionAllowedRevive(from, to) ==
  /\ ValidState(from) /\ ValidState(to) /\ from # to
  /\ \/ from = "active" /\ to \in {"superseded", "archived", "pending"}
     \/ from = "pending" /\ to \in {"fulfilled", "archived"}
     \/ from \in {"fulfilled", "superseded"} /\ to = "archived"
     \/ from = "archived" /\ to = "active"

\* lc_transition_allowed
TransitionAllowed(from, to) ==
  /\ ValidState(from) /\ ValidState(to) /\ from # to
  /\ \/ from = "active" /\ to \in {"superseded", "archived", "pending"}
     \/ from = "pending" /\ to \in {"fulfilled", "archived"}
     \/ from \in {"fulfilled", "superseded"} /\ to = "archived"

Init ==
  /\ state = [r \in Rows |-> "active"] /\ left = [r \in Rows |-> NoTtl]
  /\ calls = 0 /\ fails = 0
  /\ pc = [c \in Callers |-> "idle"] /\ call = [c \in Callers |-> NoCall]
  /\ overlapped = FALSE

Idle(c) == pc[c] = "idle"
Begin(c) == Idle(c) /\ overlapped' = (overlapped \/ \E d \in Callers : ~Idle(d))
Start(c) == Begin(c) /\ calls < MaxCalls /\ calls' = calls + 1
Goto(c, l) == pc' = [pc EXCEPT ![c] = l]
Done(c) == Goto(c, "idle") /\ call' = [call EXCEPT ![c] = NoCall]
DbFails == fails < MaxFail /\ fails' = fails + 1

\* memory_transition_lifecycle; a state that is not valid is refused at once.
CallTransition(c) ==
  /\ Start(c)
  /\ \E r \in Rows, to \in {"active", "pending", "fulfilled", "superseded", "archived"} :
       call' = [call EXCEPT ![c] = [fn |-> "transition", row |-> r, to |-> to, ttl |-> NoTtl]]
  /\ Goto(c, "get")
  /\ UNCHANGED <<state, left, fails>>

\* memory_mark_pending; a ttl that is not positive stands for the default.
CallMarkPending(c) ==
  /\ Start(c)
  /\ \E r \in Rows, days \in {0, Relative, OpenEnded} :
       call' = [call EXCEPT ![c] = [fn |-> "mark", row |-> r, to |-> "pending",
                                    ttl |-> IF days = 0 THEN OpenEnded ELSE days]]
  /\ Goto(c, "get")
  /\ UNCHANGED <<state, left, fails>>

\* Mutant: a pending row may be marked pending again.
PermittedRemark(k) ==
  IF k.fn = "mark" THEN state[k.row] \in {"active", "pending"}
  ELSE TransitionAllowed(state[k.row], k.to)

Permitted(k) ==
  IF k.fn = "mark" THEN state[k.row] = "active" ELSE TransitionAllowed(state[k.row], k.to)

\* db2_memory_lifecycle_get_state and the decision taken on what it read.
GetState(c) ==
  /\ pc[c] = "get"
  /\ \/ Permitted(call[c]) /\ Goto(c, "update") /\ UNCHANGED <<call, fails>>
     \/ ~Permitted(call[c]) /\ Done(c) /\ UNCHANGED fails
     \/ DbFails /\ Done(c)
  /\ UNCHANGED <<state, left, calls, overlapped>>

\* db2_memory_lifecycle_update_state and db2_memory_lifecycle_mark_pending: the
\* row is written whatever its state is by now.
UpdateState(c) ==
  /\ pc[c] = "update"
  /\ LET k == call[c] IN
     \/ /\ state' = [state EXCEPT ![k.row] = k.to]
        /\ left' = IF k.fn = "mark" THEN [left EXCEPT ![k.row] = k.ttl] ELSE left
        /\ UNCHANGED fails
     \/ DbFails /\ UNCHANGED <<state, left>>
  /\ Done(c)
  /\ UNCHANGED <<calls, overlapped>>

\* Mutant: the comparison with ttl_at never holds.
ExpiredNever(r) == state[r] = "pending" /\ left[r] < NoTtl

Expired(r) == state[r] = "pending" /\ left[r] = 0

\* memory_lifecycle_sweep_expired, run by a caller's maintenance cycle.
Sweep(c) ==
  /\ Begin(c)
  /\ \E r \in Rows : Expired(r)
  /\ state' = [r \in Rows |-> IF Expired(r) THEN "archived" ELSE state[r]]
  /\ UNCHANGED <<left, pc, call, calls, fails>>

\* A day goes by.
Tick ==
  /\ left' = [r \in Rows |-> IF left[r] > 0 THEN left[r] - 1 ELSE left[r]]
  /\ UNCHANGED <<state, pc, call, calls, fails, overlapped>>

Step(c) == GetState(c) \/ UpdateState(c)

Next ==
  \/ \E c \in Callers : CallTransition(c) \/ CallMarkPending(c) \/ Step(c) \/ Sweep(c)
  \/ Tick

Spec == Init /\ [][Next]_vars

\* A call that is started runs to its end, days go by, and maintenance sweeps.
Fairness ==
  /\ \A c \in Callers : WF_vars(Step(c)) /\ WF_vars(Sweep(c))
  /\ WF_vars(Tick)

FairSpec == Spec /\ Fairness

(***************************************************************************)
(* Properties.                                                              *)
(***************************************************************************)
States == {"active", "pending", "fulfilled", "superseded", "archived"}
Calls == [fn : {"transition", "mark"}, row : Rows, to : States, ttl : {NoTtl, Relative, OpenEnded}]

\* The tables and the callers' variables hold what the code stores in them.
TypeOK ==
  /\ state \in [Rows -> States] /\ left \in [Rows -> Nat \cup {NoTtl}]
  /\ pc \in [Callers -> {"idle", "get", "update"}]
  /\ call \in [Callers -> Calls \cup {NoCall}]
  /\ \A c \in Callers : Idle(c) \/ call[c] \in Calls
  /\ calls \in Nat /\ fails \in Nat /\ overlapped \in BOOLEAN

\* How far along its life a row in a given state is.
Rank == [s \in States |->
  CASE s = "active" -> 0 [] s = "pending" -> 1 [] s \in {"fulfilled", "superseded"} -> 2
    [] s = "archived" -> 3]

\* As long as calls and sweeps do not overlap, every change of state moves a row
\* strictly forward in its life, so a row never comes back and changes state at most
\* three times.
OnlyForward ==
  [][~overlapped =>
       \A r \in Rows : state'[r] = state[r] \/ Rank[state'[r]] > Rank[state[r]]]_vars

\* A row that is no longer active never becomes active again, with any number of
\* callers racing on it.
NeverReactivated ==
  [][\A r \in Rows : state[r] # "active" => state'[r] # "active"]_vars

\* A commitment with a deadline does not stay pending for ever.
PendingEnds ==
  \A r \in Rows : state[r] = "pending" /\ left[r] # NoTtl ~> state[r] # "pending"

\* As long as calls and sweeps do not overlap, the deadline of a row that is pending
\* is never put off.
DeadlineKept ==
  [][~overlapped =>
       \A r \in Rows : state[r] = "pending" /\ state'[r] = "pending" /\ left[r] # NoTtl
                         => left'[r] <= left[r]]_vars
=============================================================================
