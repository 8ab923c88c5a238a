----------------------------- MODULE UpkeepProofs -----------------------------
(***************************************************************************)
(* Proofs about the upkeep of stored memories (Lifecycle, Maintenance,     *)
(* CognifyQueue), which share no state: for any number of callers, threads *)
(* and drainers, of rows, calls and failures, and any limits.              *)
(***************************************************************************)
EXTENDS Lifecycle, Maintenance, CognifyQueue, FiniteSetTheorems, TLAPS

(***************************************************************************)
(* Lifecycle: what holds with callers racing on a row, and what calls that *)
(* do not overlap add.                                                     *)
(***************************************************************************)
\* memory_mark_pending writes pending, and no write in flight makes a row active.
Targets ==
  \A c \in Callers : /\ ~Idle(c) /\ call[c].fn = "mark" => call[c].to = "pending"
                     /\ pc[c] = "update" => call[c].to # "active"

LifeInv == TypeOK /\ Targets

\* The initial state: every row is active and no call is in flight.
LEMMA LifeInit == Init => LifeInv
<1>1. Init => TypeOK
  <2> SUFFICES ASSUME Init PROVE TypeOK
    OBVIOUS
  <2>1. overlapped \in BOOLEAN
    BY Zenon DEF Init
  <2>2. /\ state \in [Rows -> States] /\ left \in [Rows -> Nat \cup {NoTtl}]
        /\ pc \in [Callers -> {"idle", "get", "update"}]
        /\ call \in [Callers -> Calls \cup {NoCall}]
        /\ \A c \in Callers : Idle(c)
        /\ calls \in Nat /\ fails \in Nat
    BY DEF Init, Idle, States
  <2> QED
    BY <2>1, <2>2 DEF TypeOK
<1>2. Init => Targets
  BY DEF Init, Targets, Idle
<1> QED
  BY <1>1, <1>2 DEF LifeInv

\* What the decision of GetState says of the call it lets through.
LEMMA PermittedTarget ==
  ASSUME LifeInv, NEW c \in Callers, pc[c] = "get", Permitted(call[c])
  PROVE  call[c].to # "active"
<1>1. call[c] \in Calls /\ ~Idle(c)
  BY DEF LifeInv, TypeOK, Idle
<1>2. CASE call[c].fn = "mark"
  BY <1>1, <1>2 DEF LifeInv, Targets
<1>3. CASE call[c].fn # "mark"
  BY <1>1, <1>3 DEF Permitted, TransitionAllowed
<1> QED
  BY <1>2, <1>3

\* The end of a call, in a state where the tables kept their types.
LEMMA DoneInv ==
  ASSUME LifeInv, NEW c \in Callers, Done(c),
         state' \in [Rows -> States], left' \in [Rows -> Nat \cup {NoTtl}],
         calls' \in Nat, fails' \in Nat, overlapped' \in BOOLEAN
  PROVE  LifeInv'
<1>1. pc' = [pc EXCEPT ![c] = "idle"] /\ call' = [call EXCEPT ![c] = NoCall]
  BY DEF Done, Goto
<1>2. TypeOK'
  BY <1>1 DEF LifeInv, TypeOK, Idle
<1>3. Targets'
  BY <1>1 DEF LifeInv, TypeOK, Targets, Idle
<1> QED
  BY <1>2, <1>3 DEF LifeInv

\* Every step keeps the invariant.
LEMMA LifeStep == LifeInv /\ [Next]_vars => LifeInv'
<1> SUFFICES ASSUME LifeInv, [Next]_vars PROVE LifeInv'
  OBVIOUS
<1> USE LifecycleAssumption
<1>1. ASSUME NEW c \in Callers, CallTransition(c) PROVE LifeInv'
  <2>1. PICK r \in Rows, to \in States :
          call' = [call EXCEPT ![c] = [fn |-> "transition", row |-> r, to |-> to, ttl |-> NoTtl]]
    BY <1>1 DEF CallTransition, States
  <2>2. pc' = [pc EXCEPT ![c] = "get"] /\ UNCHANGED <<state, left, fails>> /\ calls' = calls + 1
        /\ overlapped' \in BOOLEAN
    BY <1>1 DEF CallTransition, Start, Begin, Goto
  <2>3. [fn |-> "transition", row |-> r, to |-> to, ttl |-> NoTtl] \in Calls
    BY DEF Calls
  <2>4. TypeOK'
    BY <2>1, <2>2, <2>3 DEF LifeInv, TypeOK, Idle
  <2>5. Targets'
    BY <2>1, <2>2 DEF LifeInv, TypeOK, Targets, Idle
  <2> QED
    BY <2>4, <2>5 DEF LifeInv
<1>2. ASSUME NEW c \in Callers, CallMarkPending(c) PROVE LifeInv'
  <2>1. PICK r \in Rows, d \in {Relative, OpenEnded} :
          call' = [call EXCEPT ![c] = [fn |-> "mark", row |-> r, to |-> "pending", ttl |-> d]]
    <3>1. PICK r \in Rows, days \in {0, Relative, OpenEnded} :
            call' = [call EXCEPT ![c] = [fn |-> "mark", row |-> r, to |-> "pending",
                                         ttl |-> IF days = 0 THEN OpenEnded ELSE days]]
      BY <1>2 DEF CallMarkPending
    <3>2. (IF days = 0 THEN OpenEnded ELSE days) \in {Relative, OpenEnded}
      OBVIOUS
    <3> QED
      BY <3>1, <3>2
  <2>2. pc' = [pc EXCEPT ![c] = "get"] /\ UNCHANGED <<state, left, fails>> /\ calls' = calls + 1
        /\ overlapped' \in BOOLEAN
    BY <1>2 DEF CallMarkPending, Start, Begin, Goto
  <2>3. [fn |-> "mark", row |-> r, to |-> "pending", ttl |-> d] \in Calls
    BY DEF Calls, States
  <2>4. TypeOK'
    BY <2>1, <2>2, <2>3 DEF LifeInv, TypeOK, Idle
  <2>5. Targets'
    BY <2>1, <2>2 DEF LifeInv, TypeOK, Targets, Idle
  <2> QED
    BY <2>4, <2>5 DEF LifeInv
<1>3. ASSUME NEW c \in Callers, GetState(c) PROVE LifeInv'
  <2>1. CASE Permitted(call[c]) /\ Goto(c, "update") /\ UNCHANGED <<call, fails>>
    <3>1. call[c].to # "active"
      BY <1>3, <2>1, PermittedTarget DEF GetState
    <3>2. pc' = [pc EXCEPT ![c] = "update"] /\ pc[c] = "get"
          /\ UNCHANGED <<state, left, calls, call, fails, overlapped>>
      BY <1>3, <2>1 DEF GetState, Goto
    <3>3. TypeOK'
      BY <3>2 DEF LifeInv, TypeOK, Idle
    <3>4. Targets'
      BY <3>1, <3>2 DEF LifeInv, TypeOK, Targets, Idle
    <3> QED
      BY <3>3, <3>4 DEF LifeInv
  <2>2. CASE Done(c) /\ (UNCHANGED fails \/ DbFails)
    BY <1>3, <2>2, DoneInv DEF GetState, DbFails, LifeInv, TypeOK
  <2> QED
    BY <1>3, <2>1, <2>2 DEF GetState
<1>4. ASSUME NEW c \in Callers, UpdateState(c) PROVE LifeInv'
  <2>1. call[c] \in Calls
    BY <1>4 DEF UpdateState, LifeInv, TypeOK, Idle
  <2>2. state' \in [Rows -> States] /\ left' \in [Rows -> Nat \cup {NoTtl}]
    BY <1>4, <2>1 DEF UpdateState, Calls, LifeInv, TypeOK
  <2>3. fails' \in Nat /\ calls' \in Nat /\ overlapped' \in BOOLEAN
    BY <1>4 DEF UpdateState, DbFails, LifeInv, TypeOK
  <2> QED
    BY <1>4, <2>2, <2>3, DoneInv DEF UpdateState
<1>5. ASSUME NEW c \in Callers, Sweep(c) PROVE LifeInv'
  <2>1. state' \in [Rows -> States] /\ overlapped' \in BOOLEAN
        /\ UNCHANGED <<left, pc, call, calls, fails>>
    BY <1>5 DEF Sweep, Begin, LifeInv, TypeOK, States
  <2> QED
    BY <2>1 DEF LifeInv, TypeOK, Targets, Idle
<1>6. CASE Tick
  <2>1. left' \in [Rows -> Nat \cup {NoTtl}]
    BY <1>6 DEF Tick, LifeInv, TypeOK, NoTtl
  <2>2. UNCHANGED <<state, pc, call, calls, fails, overlapped>>
    BY <1>6 DEF Tick
  <2> QED
    BY <2>1, <2>2 DEF LifeInv, TypeOK, Targets, Idle
<1>7. CASE UNCHANGED vars
  BY <1>7 DEF vars, LifeInv, TypeOK, Targets, Idle
<1> QED
  BY <1>1, <1>2, <1>3, <1>4, <1>5, <1>6, <1>7 DEF Next, Step

\* The tables hold what the code stores in them, for any number of callers.
THEOREM TypesHold == Spec => []TypeOK
<1>1. LifeInv => TypeOK
  BY DEF LifeInv
<1> QED
  BY <1>1, LifeInit, LifeStep, PTL DEF Spec

\* A step that is not of the sweep or of an update leaves every state alone.
LEMMA StateChanges ==
  ASSUME [Next]_vars
  PROVE  \/ state' = state
         \/ \E c \in Callers : UpdateState(c) /\ state' = [state EXCEPT ![call[c].row] = call[c].to]
         \/ \E c \in Callers : Sweep(c)
  BY DEF Next, Step, vars, CallTransition, CallMarkPending, GetState, UpdateState, Tick

\* A row that is no longer active is never made active again by
\* memory_transition_lifecycle, memory_mark_pending or the sweep, however their
\* reads and writes interleave.
THEOREM NoRowComesBack == Spec => NeverReactivated
<1> DEFINE A == \A r \in Rows : state[r] # "active" => state'[r] # "active"
<1>1. ASSUME LifeInv, [Next]_vars PROVE A
  <2>1. CASE state' = state
    BY <2>1
  <2>2. ASSUME NEW c \in Callers, UpdateState(c),
               state' = [state EXCEPT ![call[c].row] = call[c].to]
        PROVE  A
    <3>1. call[c].to # "active"
      BY <1>1, <2>2 DEF UpdateState, LifeInv, Targets
    <3> QED
      BY <1>1, <2>2, <3>1 DEF LifeInv, TypeOK
  <2>3. ASSUME NEW c \in Callers, Sweep(c) PROVE A
    BY <2>3 DEF Sweep
  <2> QED
    BY <1>1, <2>1, <2>2, <2>3, StateChanges
<1> QED
  BY <1>1, LifeInit, LifeStep, PTL DEF Spec, NeverReactivated

(***************************************************************************)
(* Until calls overlap nothing comes between the read and the write of one. *)
(***************************************************************************)
\* One call at most is under way, and a write in flight is still allowed by the
\* state of its row.
SerialInv ==
  ~overlapped =>
    /\ \A c, d \in Callers : ~Idle(c) /\ ~Idle(d) => c = d
    /\ \A c \in Callers : pc[c] = "update" => Permitted(call[c])

\* What a step of a call that is alone leaves of the others.
LEMMA NextSerialInv ==
  ASSUME LifeInv, SerialInv, [Next]_vars
  PROVE  SerialInv'
<1> SUFFICES ASSUME ~overlapped' PROVE SerialInv'
  BY DEF SerialInv
<1>1. ~overlapped
  BY DEF Next, Step, vars, CallTransition, CallMarkPending, Start, Begin, GetState, UpdateState,
         Sweep, Tick
<1>2. ASSUME NEW c \in Callers, CallTransition(c) \/ CallMarkPending(c) PROVE SerialInv'
  <2>1. /\ \A d \in Callers : Idle(d) /\ UNCHANGED state
        /\ pc' = [pc EXCEPT ![c] = "get"]
    BY <1>2 DEF CallTransition, CallMarkPending, Start, Begin, Goto
  <2> QED
    BY <2>1 DEF SerialInv, Idle, LifeInv, TypeOK
<1>3. ASSUME NEW c \in Callers, Step(c) PROVE SerialInv'
  <2>1. \A d \in Callers \ {c} : pc[d] = "idle"
    BY <1>1, <1>3 DEF SerialInv, Step, GetState, UpdateState, Idle
  <2>2. \A d \in Callers \ {c} : pc'[d] = "idle"
    BY <1>3, <2>1 DEF Step, GetState, UpdateState, Goto, Done, LifeInv, TypeOK
  <2>3. pc'[c] = "update" => Permitted(call[c]) /\ UNCHANGED <<state, call>>
    BY <1>3 DEF Step, GetState, UpdateState, Goto, Done, LifeInv, TypeOK
  <2>4. pc'[c] = "update" => Permitted(call[c])'
    BY <2>3 DEF Permitted
  <2> QED
    BY <2>2, <2>4 DEF SerialInv, Idle
<1>4. ASSUME NEW c \in Callers, Sweep(c) PROVE SerialInv'
  <2>1. \A d \in Callers : pc'[d] = "idle"
    BY <1>4 DEF Sweep, Begin, Idle
  <2> QED
    BY <2>1 DEF SerialInv, Idle
<1>5. CASE UNCHANGED <<state, pc, call>>
  BY <1>1, <1>5 DEF SerialInv, Idle, Permitted
<1> QED
  BY <1>2, <1>3, <1>4, <1>5 DEF Next, Tick, vars

\* The invariants of every state.
LEMMA LifeInductive == Spec => [](LifeInv /\ SerialInv)
<1>1. Init => SerialInv
  BY DEF Init, SerialInv, Idle
<1> QED
  BY <1>1, LifeInit, LifeStep, NextSerialInv, PTL DEF Spec

\* What a permitted write does to the rank of its row.
LEMMA PermittedRises ==
  ASSUME LifeInv, NEW c \in Callers, pc[c] = "update", Permitted(call[c])
  PROVE  Rank[call[c].to] > Rank[state[call[c].row]]
<1>1. call[c] \in Calls /\ ~Idle(c) /\ state[call[c].row] \in States
  BY DEF LifeInv, TypeOK, Idle, Calls
<1>2. CASE call[c].fn = "mark"
  <2>1. call[c].to = "pending" /\ state[call[c].row] = "active"
    BY <1>1, <1>2 DEF LifeInv, Targets, Permitted
  <2> QED
    BY <2>1 DEF Rank, States
<1>3. CASE call[c].fn # "mark"
  <2>1. TransitionAllowed(state[call[c].row], call[c].to)
    BY <1>3 DEF Permitted
  <2> QED
    BY <1>1, <2>1 DEF TransitionAllowed, Rank, States
<1> QED
  BY <1>2, <1>3

\* As long as no call or sweep began during a call, every change of state, of
\* memory_transition_lifecycle, memory_mark_pending or the sweep, moves the row
\* forward, from active through pending or superseded to archived.
THEOREM CallsMoveForward == Spec => OnlyForward
<1> DEFINE A == \A r \in Rows : state'[r] = state[r] \/ Rank[state'[r]] > Rank[state[r]]
<1>1. ASSUME LifeInv, SerialInv, [Next]_vars, ~overlapped PROVE A
  <2>1. CASE state' = state
    BY <2>1
  <2>2. ASSUME NEW c \in Callers, UpdateState(c),
               state' = [state EXCEPT ![call[c].row] = call[c].to]
        PROVE  A
    <3>1. Rank[call[c].to] > Rank[state[call[c].row]]
      BY <1>1, <2>2, PermittedRises DEF UpdateState, SerialInv
    <3> QED
      BY <1>1, <2>2, <3>1 DEF LifeInv, TypeOK
  <2>3. ASSUME NEW c \in Callers, Sweep(c) PROVE A
    <3>1. \A r \in Rows : state'[r] = state[r] \/ (state[r] = "pending" /\ state'[r] = "archived")
      BY <2>3 DEF Sweep, Expired
    <3>2. Rank["archived"] > Rank["pending"]
      BY DEF Rank, States
    <3> QED
      BY <3>1, <3>2
  <2> QED
    BY <1>1, <2>1, <2>2, <2>3, StateChanges
<1>2. LifeInv /\ SerialInv /\ [Next]_vars => [~overlapped => A]_vars
  BY <1>1
<1> QED
  BY <1>2, LifeInductive, PTL DEF Spec, OnlyForward

\* As long as no call or sweep began during a call, memory_mark_pending puts off no
\* deadline: it writes one only to a row that is active.
THEOREM DeadlineStays == Spec => DeadlineKept
<1> DEFINE A == \A r \in Rows : state[r] = "pending" /\ state'[r] = "pending" /\ left[r] # NoTtl
                                 => left'[r] <= left[r]
<1>1. ASSUME LifeInv, SerialInv, [Next]_vars, ~overlapped PROVE A
  <2>1. \A r \in Rows : left[r] # NoTtl => left[r] \in Nat
    BY <1>1 DEF LifeInv, TypeOK
  <2>2. CASE left' = left
    BY <2>1, <2>2
  <2>3. CASE Tick
    BY <2>1, <2>3 DEF Tick
  <2>4. ASSUME NEW c \in Callers, UpdateState(c), call[c].fn = "mark",
               left' = [left EXCEPT ![call[c].row] = call[c].ttl]
        PROVE  A
    <3>1. state[call[c].row] = "active"
      BY <1>1, <2>4 DEF UpdateState, SerialInv, Permitted
    <3>2. \A r \in Rows : state[r] = "pending" => left'[r] = left[r]
      BY <1>1, <2>4, <3>1 DEF LifeInv, TypeOK
    <3> QED
      BY <2>1, <3>2
  <2>5. \/ left' = left \/ Tick
        \/ \E c \in Callers : /\ UpdateState(c) /\ call[c].fn = "mark"
                               /\ left' = [left EXCEPT ![call[c].row] = call[c].ttl]
    BY <1>1 DEF Next, Step, vars, CallTransition, CallMarkPending, GetState, UpdateState, Sweep
  <2> QED
    BY <2>2, <2>3, <2>4, <2>5
<1>2. LifeInv /\ SerialInv /\ [Next]_vars => [~overlapped => A]_vars
  BY <1>1
<1> QED
  BY <1>2, LifeInductive, PTL DEF Spec, DeadlineKept

-----------------------------------------------------------------------------
(***************************************************************************)
(* Maintenance: the trigger stays armed, although the flag and the counter *)
(* of writes are read and written in separate, unlocked steps.             *)
(***************************************************************************)
(* The labels between the raising and the lowering of maintenance_running. *)
Inside == {"run", "reset", "stamp", "lower"}

(* A thread that will still reset the counter of writes. *)
WillReset(t) ==
  \/ mpc[t] = "decide" /\ loc[t].pending >= TriggerInserts
  \/ mpc[t] \in {"raise", "run", "reset"}

(* TriggerArmed speaks of idle threads only; a raised flag and a full counter
   always have a thread that answers for them. *)
TriggerInv ==
  /\ MaintTypeOK
  /\ running => \E t \in Threads : mpc[t] \in Inside
  /\ pending >= TriggerInserts => \E t \in Threads : WillReset(t)

(* The locals of a thread that starts a call (memory_core_helpers.c). *)
LEMMA NoLocType ==
  NoLoc \in Locals
  BY MaintenanceAssumption, SMT DEF NoLoc, Locals

(* Storing into one local of a thread leaves the locals typed. *)
LEMMA StoreType ==
  ASSUME NEW f \in [Threads -> Locals], NEW t \in Threads
  PROVE  /\ \A v \in 0 .. TriggerInserts : [f EXCEPT ![t].pending = v] \in [Threads -> Locals]
         /\ \A v \in 0 .. TriggerSecs : [f EXCEPT ![t].at = v] \in [Threads -> Locals]
         /\ \A v \in 0 .. MaxRows : [f EXCEPT ![t].count = v] \in [Threads -> Locals]
         /\ \A v \in {"idle", "compact", "after"} : [f EXCEPT ![t].back = v] \in [Threads -> Locals]
         /\ \A v \in BOOLEAN : [f EXCEPT ![t].force = v] \in [Threads -> Locals]
  BY DEF Locals

(* The values that the locals are reset to. *)
LEMMA Zeros ==
  0 \in 0 .. TriggerInserts /\ 0 \in 0 .. TriggerSecs /\ 0 \in 0 .. MaxRows /\ 0 \in 0 .. Interval
  BY MaintenanceAssumption, SMT

(* Counters that stop at a limit stay within it. *)
LEMMA LaterType ==
  ASSUME NEW top \in Nat, NEW x \in 0 .. top
  PROVE  Later(x, top) \in 0 .. top
  BY SMT DEF Later

(* Returning, to the caller or to the cycle the writes of which it was, leaves
   the locals typed. *)
LEMMA ReturnType ==
  ASSUME MaintTypeOK, NEW t \in Threads, Return(t)
  PROVE  /\ mpc' \in [Threads -> Labels] /\ mpc'[t] \in {"idle", "compact", "after"}
         /\ \A u \in Threads \ {t} : mpc'[u] = mpc[u] /\ loc'[u] = loc[u]
         /\ loc' \in [Threads -> Locals]
  <1>1. loc[t] \in Locals /\ loc[t].back \in {"idle", "compact", "after"}
    BY DEF MaintTypeOK, Locals
  <1>2. loc' \in [Threads -> Locals] /\ \A u \in Threads \ {t} : loc'[u] = loc[u]
    <2>1. CASE loc' = [loc EXCEPT ![t] = NoLoc]
      BY <2>1, NoLocType DEF MaintTypeOK
    <2>2. CASE loc' = [loc EXCEPT ![t].back = "idle", ![t].pending = 0, ![t].at = 0]
      <3> DEFINE f == [loc EXCEPT ![t].back = "idle"]
                 g == [f EXCEPT ![t].pending = 0]
      <3>1. f \in [Threads -> Locals]
        BY StoreType DEF MaintTypeOK
      <3>2. g \in [Threads -> Locals]
        BY <3>1, StoreType, Zeros
      <3>3. [g EXCEPT ![t].at = 0] \in [Threads -> Locals]
        BY <3>2, StoreType, Zeros
      <3>4. loc' = [g EXCEPT ![t].at = 0] /\ \A u \in Threads \ {t} : loc'[u] = loc[u]
        BY <2>2 DEF MaintTypeOK
      <3> QED BY <3>3, <3>4
    <2> QED BY <2>1, <2>2 DEF Return
  <1> QED BY <1>1, <1>2 DEF MaintTypeOK, Return, MoveTo, Labels

(* A step of a thread that answers neither for the flag nor for the counter, and
   that changes neither, leaves those that do. *)
LEMMA Bystander ==
  ASSUME TriggerInv, NEW t \in Threads, MaintTypeOK', running' = running, pending' = pending,
         \A u \in Threads \ {t} : mpc'[u] = mpc[u] /\ loc'[u] = loc[u],
         mpc[t] \notin Inside \cup {"raise", "decide"}
  PROVE  TriggerInv'
  BY DEF TriggerInv, Inside, WillReset

(* A process starts with the flag down and no write counted. *)
LEMMA TriggerInit ==
  ASSUME MaintInit PROVE TriggerInv
  <1>1. pending < TriggerInserts /\ pending \in 0 .. TriggerInserts /\ epoch \in 0 .. Unset
        /\ count \in 0 .. MaxRows /\ saved.count \in 0 .. MaxRows /\ age \in 0 .. Interval
    BY MaintenanceAssumption, SMT DEF MaintInit, Unset
  <1>2. MaintTypeOK
    BY <1>1, NoLocType DEF MaintInit, MaintTypeOK, Labels
  <1> QED BY MaintenanceAssumption, <1>1, <1>2, SMT DEF MaintInit, TriggerInv, MaintTypeOK

(* The steps of memory_maybe_run_maintenance: whoever fills the counter is the
   thread that decides next, and whoever raises the flag lowers it. *)
LEMMA MaybeRunStep ==
  ASSUME TriggerInv, NEW t \in Threads, MaybeRun(t)
  PROVE  TriggerInv'
  <1> USE DEF TriggerInv, Inside, WillReset, Locals
  <1>1. CASE CheckFlag(t)
    <2>1. CASE Return(t)
      BY <1>1, <2>1, ReturnType DEF CheckFlag, shared, MaintTypeOK
    <2>2. CASE ~running /\ MoveTo(t, "readPending") /\ UNCHANGED loc
      BY <1>1, <2>2 DEF CheckFlag, shared, MaintTypeOK, MoveTo, Labels
    <2> QED BY <1>1, <2>1, <2>2 DEF CheckFlag
  <1>2. CASE ReadPending(t)
    <2>1. Later(pending, TriggerInserts) \in 0 .. TriggerInserts
      BY MaintenanceAssumption, LaterType DEF MaintTypeOK
    <2> QED BY <1>2, <2>1 DEF ReadPending, shared, MaintTypeOK, MoveTo, Labels
  <1>3. CASE SetPending(t)
    BY <1>3 DEF SetPending, MaintTypeOK, MoveTo, Labels
  <1>4. CASE Decide(t)
    <2>1. epoch' \in 0 .. Unset
      BY MaintenanceAssumption, <1>4, SMT DEF Decide, MaintTypeOK, Unset
    <2>2. CASE ~Due(t) /\ Return(t)
      BY <1>4, <2>1, <2>2, ReturnType DEF Decide, Due, MaintTypeOK
    <2>3. CASE MoveTo(t, "raise") /\ loc' = [loc EXCEPT ![t].pending = 0, ![t].at = 0]
      <3> DEFINE f == [loc EXCEPT ![t].pending = 0]
      <3>1. f \in [Threads -> Locals]
        BY StoreType, Zeros DEF MaintTypeOK
      <3>2. [f EXCEPT ![t].at = 0] \in [Threads -> Locals]
        BY <3>1, StoreType, Zeros
      <3>4. loc' = [f EXCEPT ![t].at = 0]
        BY <2>3 DEF MaintTypeOK
      <3>5. MaintTypeOK'
        BY <1>4, <2>1, <2>3, <3>2, <3>4 DEF Decide, MaintTypeOK, MoveTo, Labels
      <3>3. /\ mpc[t] = "decide" /\ mpc' = [mpc EXCEPT ![t] = "raise"]
            /\ UNCHANGED <<running, pending>> /\ \A u \in Threads \ {t} : loc'[u] = loc[u]
        BY <1>4, <2>3 DEF Decide, MoveTo, MaintTypeOK
      <3> QED BY <3>3, <3>5 DEF MaintTypeOK
    <2> QED BY <1>4, <2>2, <2>3 DEF Decide
  <1>5. CASE Raise(t)
    BY <1>5 DEF Raise, MaintTypeOK, MoveTo, Labels
  <1>6. CASE Run(t)
    BY <1>6 DEF Run, MaintTypeOK, MoveTo, Labels
  <1>7. CASE Reset(t)
    BY MaintenanceAssumption, <1>7, SMT DEF Reset, MaintTypeOK, MoveTo, Labels
  <1>8. CASE Stamp(t)
    <2>1. epoch' \in 0 .. Unset
      BY MaintenanceAssumption, <1>8, SMT DEF Stamp, MaintTypeOK, Unset
    <2> QED BY <1>8, <2>1 DEF Stamp, MaintTypeOK, MoveTo, Labels
  <1>9. CASE Lower(t)
    BY <1>9, ReturnType DEF Lower, MaintTypeOK
  <1> QED BY <1>1, <1>2, <1>3, <1>4, <1>5, <1>6, <1>7, <1>8, <1>9 DEF MaybeRun

(* The steps of memory_maintenance_run touch neither the flag nor the counter; the
   writes of a cycle go through memory_maybe_run_maintenance. *)
LEMMA CycleStep ==
  ASSUME TriggerInv, NEW t \in Threads, Cycle(t)
  PROVE  TriggerInv'
  <1> USE DEF TriggerInv, Inside, WillReset, Locals
  <1>1. CASE CountBefore(t)
    BY <1>1 DEF CountBefore, shared, MaintTypeOK, MoveTo, Labels
  <1>2. CASE Skip(t)
    BY <1>2, ReturnType DEF Skip, shared, MaintTypeOK
  <1>3. CASE Proceed(t)
    <2> DEFINE f == [loc EXCEPT ![t].force = FALSE]
    <2>1. f \in [Threads -> Locals]
      BY StoreType DEF MaintTypeOK
    <2>2. [f EXCEPT ![t].count = 0] \in [Threads -> Locals]
      BY <2>1, StoreType, Zeros
    <2>3. loc' = [f EXCEPT ![t].count = 0]
      BY <1>3 DEF Proceed, MaintTypeOK
    <2>4. MaintTypeOK'
      BY <1>3, <2>2, <2>3 DEF Proceed, shared, MaintTypeOK, MoveTo, Labels
    <2> QED BY <1>3, <2>4, Bystander DEF Proceed, shared, MaintTypeOK, MoveTo
  <1>4. CASE Prune(t)
    <2>1. /\ mpc[t] = "prune" /\ mpc' \in {[mpc EXCEPT ![t] = l] : l \in {"compact", "flag"}}
          /\ loc' \in {loc, [loc EXCEPT ![t].back = "compact"]} /\ unseen' \in BOOLEAN
          /\ count' \in 0 .. MaxRows /\ UNCHANGED <<saved, age, pending, epoch, running>>
      BY <1>4 DEF Prune, MaintTypeOK, MoveTo
    <2>2. MaintTypeOK'
      BY <2>1 DEF MaintTypeOK, Labels
    <2> QED BY <2>1, <2>2, Bystander DEF MaintTypeOK
  <1>5. CASE Compact(t)
    BY <1>5 DEF Compact, MaintTypeOK, MoveTo, Labels
  <1>6. CASE CountAfter(t)
    BY <1>6 DEF CountAfter, shared, MaintTypeOK, MoveTo, Labels
  <1>7. CASE Save(t)
    <2>1. saved' \in [present : BOOLEAN, count : 0 .. MaxRows] /\ age' \in 0 .. Interval
      <3>1. loc[t].count \in 0 .. MaxRows
        BY DEF MaintTypeOK, Locals
      <3>2. CASE ~loc[t].dry /\ saved' = [present |-> TRUE, count |-> loc[t].count] /\ age' = 0
        BY <3>1, <3>2, Zeros
      <3>3. CASE UNCHANGED <<saved, age>>
        BY <3>3 DEF MaintTypeOK
      <3> QED BY <1>7, <3>2, <3>3 DEF Save
    <2>2. Return(t) /\ mpc[t] = "save" /\ UNCHANGED <<count, pending, epoch, running, unseen>>
      BY <1>7 DEF Save
    <2>3. MaintTypeOK'
      BY <2>1, <2>2, ReturnType DEF MaintTypeOK
    <2> QED BY <2>2, <2>3, ReturnType, Bystander
  <1> QED BY <1>1, <1>2, <1>3, <1>4, <1>5, <1>6, <1>7 DEF Cycle

(* What a thread begins: a write, a deletion or a cycle on demand. *)
OwnStep(t) ==
  \/ Write(t) \/ Delete(t)
  \/ \E force, dry \in BOOLEAN, prune \in BOOLEAN : CallCycle(t, force, dry, prune)

(* Beginning a call does not touch them either. *)
LEMMA CallStep ==
  ASSUME TriggerInv, NEW t \in Threads, OwnStep(t)
  PROVE  TriggerInv'
  <1> USE DEF TriggerInv, Inside, WillReset, Locals
  <1>1. CASE Write(t)
    <2>1. count' \in 0 .. MaxRows /\ unseen' \in BOOLEAN
      <3>1. \A n \in 0 .. MaxRows : n < MaxRows => n + 1 \in 0 .. MaxRows
        BY MaintenanceAssumption, SMT
      <3> QED BY <1>1, <3>1 DEF Write, MaintTypeOK
    <2>2. mpc[t] = "idle" /\ mpc' = [mpc EXCEPT ![t] = "flag"]
          /\ UNCHANGED <<saved, age, pending, epoch, running, loc>>
      BY <1>1 DEF Write, Outside, MoveTo
    <2>3. MaintTypeOK'
      BY <2>1, <2>2 DEF MaintTypeOK, Labels
    <2> QED BY <2>2, <2>3, Bystander DEF MaintTypeOK
  <1>2. CASE Delete(t)
    BY MaintenanceAssumption, <1>2, SMT DEF Delete, Outside, MaintTypeOK, Labels
  <1>3. ASSUME NEW force \in BOOLEAN, NEW dry \in BOOLEAN, NEW prune \in BOOLEAN,
               CallCycle(t, force, dry, prune)
        PROVE  TriggerInv'
    BY MaintenanceAssumption, <1>3, NoLocType DEF CallCycle, Outside, shared, MaintTypeOK, MoveTo, Labels
  <1> QED BY <1>1, <1>2, <1>3 DEF OwnStep

(* Nor does time. *)
LEMMA TickStep ==
  ASSUME TriggerInv, TimePasses
  PROVE  TriggerInv'
  <1>1. age' \in 0 .. Interval /\ epoch' \in 0 .. Unset
    BY MaintenanceAssumption, SMT DEF TimePasses, TriggerInv, MaintTypeOK, Later, Unset
  <1>2. \A t \in Threads : /\ loc'[t].pending = loc[t].pending
                           /\ loc'[t] \in Locals
    <2> TAKE t \in Threads
    <2>1. Later(loc[t].at, TriggerSecs) \in 0 .. TriggerSecs
      BY MaintenanceAssumption, LaterType DEF TriggerInv, MaintTypeOK, Locals
    <2> QED BY <2>1 DEF TimePasses, TriggerInv, MaintTypeOK, Locals
  <1> QED BY <1>1, <1>2 DEF TimePasses, TriggerInv, MaintTypeOK, WillReset

(***************************************************************************)
(* However the writers, the timer and the operators interleave, when no    *)
(* call is under way maintenance_running is down and fewer writes are      *)
(* counted than trigger a run (memory_maybe_run_maintenance): a raised     *)
(* flag is always some thread's, and a full counter always has a thread    *)
(* that will reset it.                                                     *)
(***************************************************************************)
THEOREM TriggerStaysArmed ==
  MaintSpec => []TriggerArmed
  <1>1. MaintInit => TriggerInv
    BY TriggerInit
  <1>2. TriggerInv /\ [MaintNext]_maintVars => TriggerInv'
    <2>1. ASSUME TriggerInv, UNCHANGED maintVars PROVE TriggerInv'
      BY <2>1 DEF TriggerInv, MaintTypeOK, maintVars, WillReset
    <2>2. ASSUME TriggerInv, TimerCycle PROVE TriggerInv'
      BY <2>2, CallStep DEF TimerCycle, OwnStep, Threads
    <2>3. ASSUME TriggerInv, NEW t \in Workers, NEW force \in BOOLEAN, NEW dry \in BOOLEAN,
                 NEW prune \in Prunes, CallCycle(t, force, dry, prune)
          PROVE  TriggerInv'
      BY MaintenanceAssumption, <2>3, CallStep DEF OwnStep, Threads
    <2>4. ASSUME TriggerInv, NEW t \in Workers, Write(t) \/ Delete(t) PROVE TriggerInv'
      BY <2>4, CallStep DEF OwnStep, Threads
    <2> QED BY <2>1, <2>2, <2>3, <2>4, MaybeRunStep, CycleStep, TickStep DEF MaintNext
  <1>3. TriggerInv => TriggerArmed
    BY MaintenanceAssumption, SMT DEF TriggerInv, MaintTypeOK, TriggerArmed, Outside, Inside, WillReset
  <1> QED BY <1>1, <1>2, <1>3, PTL DEF MaintSpec

-----------------------------------------------------------------------------
(***************************************************************************)
(* CognifyQueue: the job table and the drainers agree, and the work of a job*)
(* is written once, whatever crashes and changes of the configuration.     *)
(***************************************************************************)
(* What the drainers hold: a drainer at work has a memory, one that looks for work
   has none, and no two hold the same. *)
Holding ==
  /\ \A d \in Drainers : qpc[d] \in {"unit", "exec", "mark"} => unit[d] \in Memories
  /\ \A d \in Drainers : qpc[d] \in {"out", "claim"} => unit[d] = NoUnit
  /\ \A d, e \in Drainers, u \in Memories : Holder(d, u) /\ Holder(e, u) => d = e
  /\ \A u \in Memories : jobs[u].state = "running" <=> \E d \in Drainers : Holder(d, u)

(* The attempts that are left, by the state of the job. *)
Attempts ==
  \A u \in Memories :
    /\ jobs[u].attempts <= MaxAttempts
    /\ jobs[u].state \in {"none", "pending"} => jobs[u].attempts < MaxAttempts
    /\ jobs[u].state = "failed" => jobs[u].attempts = MaxAttempts

(* What was written for a unit was written by the drainer that holds it, which will
   report success unless it dies. *)
Written ==
  /\ \A u \in Memories : drained[u] <= 1 /\ (drained[u] = 1 => jobs[u].state \in {"running", "done"})
  /\ \A d \in Drainers, u \in Memories :
       Holder(d, u) /\ drained[u] = 1 => qpc[d] = "dead" \/ (qpc[d] = "mark" /\ rc[d] = 0)

QInv == QueueTypeOK /\ Holding /\ Attempts /\ Written

(* The invariant implies that a running job has one holder, counted. *)
LEMMA InvSound ==
  ASSUME QInv
  PROVE  JobsSound
  <1>1. OneHolder
    <2> SUFFICES ASSUME NEW u \in Memories
                 PROVE  Cardinality({d \in Drainers : Holder(d, u)})
                          = (IF jobs[u].state = "running" THEN 1 ELSE 0)
      BY DEF OneHolder
    <2> DEFINE H == {d \in Drainers : Holder(d, u)}
    <2>1. CASE jobs[u].state = "running"
      <3>1. PICK d \in Drainers : Holder(d, u)
        BY <2>1 DEF QInv, Holding
      <3>2. H = {d}
        BY <3>1 DEF QInv, Holding
      <3> QED BY <2>1, <3>2, FS_Singleton
    <2>2. CASE jobs[u].state # "running"
      <3>1. H = {}
        BY <2>2 DEF QInv, Holding
      <3> QED BY <2>2, <3>1, FS_EmptySet
    <2> QED BY <2>1, <2>2
  <1> QED BY <1>1 DEF JobsSound, QInv, Attempts, Written, FailedIsExhausted, WrittenOnce

(* An empty queue and no drainer at work. *)
LEMMA QueueInvInit ==
  ASSUME QueueInit
  PROVE  QInv
  <1>1. QueueTypeOK
    BY QueueAssumption, SMT DEF QueueInit, QueueTypeOK, JobStates
  <1>2. Holding /\ Attempts /\ Written
    BY QueueAssumption, SMT DEF QueueInit, Holding, Attempts, Written, Holder
  <1> QED BY <1>1, <1>2 DEF QInv

(* db1_cognify_job_enqueue adds a job or ignores the call. *)
LEMMA EnqueueStep ==
  ASSUME QInv, NEW u \in Memories
  PROVE  /\ Enqueued(u) \in [Memories -> [state : JobStates, attempts : 0 .. MaxAttempts + 1]]
         /\ \A v \in Memories : Enqueued(u)[v].attempts = jobs[v].attempts
         /\ \A v \in Memories : \/ Enqueued(u)[v].state = jobs[v].state
                                \/ jobs[v].state = "none" /\ Enqueued(u)[v].state = "pending"
  BY DEF QInv, QueueTypeOK, Enqueued, JobStates

(* memory_cognify_unit of a caller touches no job that exists. *)
LEMMA SubmitStep ==
  ASSUME QInv, NEW u \in Memories, Submit(u)
  PROVE  QInv'
  <1>1. CASE jobs' = Enqueued(u) /\ UNCHANGED inlined
    <2>1. QueueTypeOK'
      BY <1>1, EnqueueStep DEF Submit, QInv, QueueTypeOK
    <2>2. /\ UNCHANGED <<drained, qpc, unit, rc>>
          /\ \A v \in Memories : /\ jobs'[v].attempts = jobs[v].attempts
                                 /\ \/ jobs'[v].state = jobs[v].state
                                    \/ jobs[v].state = "none" /\ jobs'[v].state = "pending"
      BY <1>1, EnqueueStep DEF Submit
    <2>3. \A e \in Drainers, v \in Memories : Holder(e, v)' <=> Holder(e, v)
      BY <2>2 DEF Holder
    <2>4. Holding'
      BY <2>2, <2>3 DEF QInv, Holding
    <2>5. Attempts'
      BY <2>2 DEF QInv, Attempts
    <2>6. Written'
      BY <2>2, <2>3 DEF QInv, Written
    <2> QED BY <2>1, <2>4, <2>5, <2>6 DEF QInv
  <1>2. CASE inlined[u] = 0 /\ inlined' = [inlined EXCEPT ![u] = @ + 1] /\ UNCHANGED jobs
    BY <1>2 DEF Submit, QInv, QueueTypeOK, Holding, Attempts, Written, Holder
  <1> QED BY <1>1, <1>2 DEF Submit

(* mcj_claim_next gives a drainer a job nobody holds and nothing was written for. *)
LEMMA ClaimStep ==
  ASSUME QInv, NEW d \in Drainers, Claim(d)
  PROVE  QInv'
  <1>1. PICK u \in Memories :
          /\ jobs[u].state = "pending"
          /\ jobs' = [jobs EXCEPT ![u] = [state |-> "running",
                                          attempts |-> IF @.attempts < MaxAttempts + 1
                                                       THEN @.attempts + 1 ELSE @.attempts]]
          /\ unit' = [unit EXCEPT ![d] = u]
    BY DEF Claim, Claimable
  <1> DEFINE n == jobs[u].attempts
  <1>2. n \in 0 .. MaxAttempts + 1 /\ n < MaxAttempts /\ drained[u] = 0
    <2>1. n \in 0 .. MaxAttempts + 1 /\ n < MaxAttempts
      BY <1>1 DEF QInv, QueueTypeOK, Attempts
    <2>2. drained[u] \in Nat /\ drained[u] <= 1 /\ drained[u] # 1
      BY <1>1 DEF QInv, QueueTypeOK, Written
    <2> QED BY <2>1, <2>2, SMT
  <1>3. jobs' = [jobs EXCEPT ![u] = [state |-> "running", attempts |-> n + 1]]
    <2>1. n < MaxAttempts + 1
      BY QueueAssumption, <1>2, SMT
    <2> QED BY <1>1, <2>1, Zenon
  <1>4. n + 1 \in 0 .. MaxAttempts + 1 /\ n + 1 <= MaxAttempts
    BY QueueAssumption, <1>2, SMT
  <1> HIDE DEF n
  <1>5. /\ qpc[d] = "claim" /\ qpc' = [qpc EXCEPT ![d] = "unit"]
        /\ UNCHANGED <<mode, changes, drained, inlined, rc, crashed>>
    BY DEF Claim
  <1>6. QueueTypeOK'
    BY <1>1, <1>3, <1>4, <1>5 DEF QInv, QueueTypeOK, JobStates
  <1>7. \A e \in Drainers : ~Holder(e, u)
    BY <1>1 DEF QInv, Holding
  <1>8. \A e \in Drainers, v \in Memories :
          Holder(e, v)' <=> IF e = d THEN v = u ELSE Holder(e, v)
    BY <1>1, <1>5 DEF QInv, QueueTypeOK, Holder
  <1>9. \A v \in Memories \ {u} : ~Holder(d, v)
    BY <1>5 DEF Holder
  <1>10. Holding'
    BY <1>1, <1>3, <1>5, <1>7, <1>8, <1>9 DEF QInv, QueueTypeOK, Holding
  <1>11. Attempts'
    BY <1>3, <1>4 DEF QInv, QueueTypeOK, Attempts
  <1>12. Written'
    BY <1>2, <1>3, <1>5, <1>8 DEF QInv, QueueTypeOK, Written
  <1> QED BY <1>6, <1>10, <1>11, <1>12 DEF QInv

(* A drainer at work changes no job; what it writes is for the memory it holds. *)
LEMMA UnitStep ==
  ASSUME QInv, NEW d \in Drainers, Unit(d) \/ Exec(d)
  PROVE  QInv'
  <1>1. /\ qpc[d] \in {"unit", "exec"} /\ unit[d] \in Memories /\ Holder(d, unit[d])
    BY DEF Unit, Exec, QInv, Holding, Holder
  <1>2. /\ jobs[unit[d]].state = "running" /\ drained[unit[d]] = 0
    <2>1. jobs[unit[d]].state = "running"
      BY <1>1 DEF QInv, Holding
    <2>2. drained[unit[d]] \in Nat /\ drained[unit[d]] <= 1 /\ drained[unit[d]] # 1
      BY <1>1 DEF QInv, QueueTypeOK, Written
    <2> QED BY <2>1, <2>2, SMT
  <1>3. /\ qpc' \in {[qpc EXCEPT ![d] = l] : l \in {"exec", "mark"}}
        /\ jobs' = jobs /\ UNCHANGED <<mode, changes, inlined, unit, crashed>>
        /\ rc' \in {rc, [rc EXCEPT ![d] = 0], [rc EXCEPT ![d] = -1]}
    BY <1>2 DEF Unit, Exec, Enqueued, Verdict
  <1>4. \/ drained' = drained
        \/ /\ drained' = [drained EXCEPT ![unit[d]] = 1]
           /\ rc' = [rc EXCEPT ![d] = 0] /\ qpc' = [qpc EXCEPT ![d] = "mark"]
    <2>1. CASE Unit(d)
      BY <2>1 DEF Unit
    <2>2. CASE Exec(d)
      <3>1. PICK v \in Verdict : rc' = [rc EXCEPT ![d] = v[1]]
                                 /\ drained' = [drained EXCEPT ![unit[d]] = @ + v[2]]
        BY <2>2 DEF Exec
      <3>2. CASE v = <<-1, 0>>
        <4>0. drained[unit[d]] + v[2] = 0
          BY <1>2, <3>2
        <4>1. drained' = [drained EXCEPT ![unit[d]] = 0]
          BY <3>1, <4>0
        <4> QED BY <1>1, <1>2, <4>1 DEF QInv, QueueTypeOK
      <3>3. CASE v = <<0, 1>>
        <4>1. drained[unit[d]] + v[2] = 1 /\ v[1] = 0
          BY <1>2, <3>3
        <4> QED BY <2>2, <3>1, <4>1 DEF Exec
      <3> QED BY <3>2, <3>3 DEF Verdict
    <2> QED BY <2>1, <2>2
  <1>5. QueueTypeOK'
    BY <1>1, <1>3, <1>4 DEF QInv, QueueTypeOK
  <1>6. \A e \in Drainers, v \in Memories : Holder(e, v)' <=> Holder(e, v)
    BY <1>1, <1>3 DEF QInv, QueueTypeOK, Holder
  <1>7. Holding' /\ Attempts'
    BY <1>1, <1>3, <1>6 DEF QInv, QueueTypeOK, Holding, Attempts
  <1>8. Written'
    <2>1. \A e \in Drainers \ {d} : ~Holder(e, unit[d])
      BY <1>1 DEF QInv, Holding
    <2>2. \A e \in Drainers \ {d} : qpc'[e] = qpc[e] /\ rc'[e] = rc[e]
      BY <1>3 DEF QInv, QueueTypeOK
    <2>3. \A v \in Memories : Holder(d, v) => v = unit[d]
      BY DEF Holder
    <2>4. \A v \in Memories \ {unit[d]} : drained'[v] = drained[v]
      BY <1>4 DEF QInv, QueueTypeOK
    <2>5. drained'[unit[d]] = 0 \/ (drained'[unit[d]] = 1 /\ qpc'[d] = "mark" /\ rc'[d] = 0)
      BY <1>1, <1>2, <1>4 DEF QInv, QueueTypeOK
    <2> QED BY <1>2, <1>3, <1>6, <2>1, <2>2, <2>3, <2>4, <2>5 DEF QInv, Written
  <1> QED BY <1>5, <1>7, <1>8 DEF QInv

(* db1_cognify_job_mark finishes the job of its only holder: done when it was
   written, back in the queue or failed when it was not. *)
LEMMA MarkStep ==
  ASSUME QInv, NEW d \in Drainers, Mark(d)
  PROVE  QInv'
  <1> DEFINE u == unit[d]
             out == Outcome(u, rc[d])
  <1>1. /\ qpc[d] = "mark" /\ u \in Memories /\ Holder(d, u) /\ jobs[u].state = "running"
        /\ jobs' = [jobs EXCEPT ![u].state = out] /\ unit' = [unit EXCEPT ![d] = NoUnit]
        /\ qpc' \in {[qpc EXCEPT ![d] = l] : l \in {"claim", "out"}} /\ rc' = [rc EXCEPT ![d] = 0]
        /\ UNCHANGED <<mode, changes, drained, inlined, crashed>>
    <2>1. qpc[d] = "mark" /\ u \in Memories /\ Holder(d, u)
      BY DEF Mark, QInv, Holding, Holder
    <2>2. jobs[u].state = "running"
      BY <2>1 DEF QInv, Holding
    <2>3. qpc' \in {[qpc EXCEPT ![d] = l] : l \in {"claim", "out"}}
      BY DEF Mark
    <2> QED BY <2>1, <2>2, <2>3 DEF Mark
  <1>2. /\ out \in {"done", "pending", "failed"}
        /\ out = "pending" => jobs[u].attempts < MaxAttempts
        /\ out = "failed" => jobs[u].attempts = MaxAttempts
        /\ out # "done" => rc[d] # 0
    <2>1. jobs[u].attempts \in 0 .. MaxAttempts + 1 /\ jobs[u].attempts <= MaxAttempts
      BY <1>1 DEF QInv, QueueTypeOK, Attempts
    <2>2. jobs[u].attempts < MaxAttempts \/ jobs[u].attempts = MaxAttempts
      BY QueueAssumption, <2>1, SMT
    <2> QED BY <2>2, Zenon DEF Outcome
  <1> HIDE DEF out
  <1>3. QueueTypeOK'
    BY <1>1, <1>2 DEF QInv, QueueTypeOK, JobStates
  <1>4. \A e \in Drainers \ {d} : ~Holder(e, u)
    BY <1>1 DEF QInv, Holding
  <1>5. \A e \in Drainers, v \in Memories : Holder(e, v)' <=> (e # d /\ Holder(e, v))
    BY QueueAssumption, <1>1 DEF QInv, QueueTypeOK, Holder
  <1>6. \A v \in Memories \ {u} : ~Holder(d, v)
    BY DEF Holder
  <1>7. Holding'
    BY <1>1, <1>2, <1>4, <1>5, <1>6 DEF QInv, QueueTypeOK, Holding
  <1>8. Attempts'
    BY <1>1, <1>2 DEF QInv, QueueTypeOK, Attempts
  <1>9. Written'
    BY <1>1, <1>2, <1>5 DEF QInv, QueueTypeOK, Written
  <1> QED BY <1>3, <1>7, <1>8, <1>9 DEF QInv

(* Starting, waiting, leaving and dying keep what is held. *)
LEMMA MoveStep ==
  ASSUME QInv, NEW d \in Drainers,
         StartDrain(d) \/ NothingToClaim(d) \/ ClaimFails(d) \/ Crash(d)
  PROVE  QInv'
  <1>1. /\ UNCHANGED <<mode, changes, jobs, drained, inlined, unit, rc>>
        /\ crashed' \in 0 .. MaxCrashes
        /\ \/ qpc[d] \in {"out", "claim"} /\ qpc' \in {[qpc EXCEPT ![d] = l] : l \in {"out", "claim"}}
           \/ qpc[d] \notin {"out", "dead"} /\ qpc' = [qpc EXCEPT ![d] = "dead"]
    BY QueueAssumption, SMT DEF StartDrain, NothingToClaim, ClaimFails, Crash, store, QInv, QueueTypeOK
  <1>2. QueueTypeOK'
    BY <1>1 DEF QInv, QueueTypeOK
  <1>3. \A e \in Drainers, v \in Memories : Holder(e, v)' <=> Holder(e, v)
    BY QueueAssumption, <1>1 DEF QInv, QueueTypeOK, Holding, Holder
  <1>4. Holding' /\ Attempts' /\ Written'
    BY <1>1, <1>3 DEF QInv, QueueTypeOK, Holding, Attempts, Written
  <1> QED BY <1>2, <1>4 DEF QInv

(***************************************************************************)
(* However many drainers share the queue, whoever dies and however the     *)
(* configuration changes between the claim, the command and the mark       *)
(* (memory_cognify_drain): a running job has exactly one holder, no job is *)
(* attempted too often or given up too early, and what the cognifier found *)
(* in a unit is written once.                                              *)
(***************************************************************************)
THEOREM JobsStaySound ==
  QueueSpec => []JobsSound
  <1>1. QueueInit => QInv
    BY QueueInvInit
  <1>2. QInv /\ [QueueNext]_queueVars => QInv'
    <2> SUFFICES ASSUME QInv, [QueueNext]_queueVars PROVE QInv'
      OBVIOUS
    <2>1. ASSUME Reconfigure PROVE QInv'
      BY QueueAssumption, <2>1, SMT DEF Reconfigure, QInv, QueueTypeOK, Holding, Attempts, Written, Holder
    <2>2. ASSUME UNCHANGED queueVars PROVE QInv'
      BY <2>2 DEF queueVars, QInv, QueueTypeOK, Holding, Attempts, Written, Holder
    <2> QED BY <2>1, <2>2, SubmitStep, ClaimStep, UnitStep, MarkStep, MoveStep
            DEF QueueNext, Drain, Works
  <1>3. QInv => JobsSound
    BY InvSound
  <1> QED BY <1>1, <1>2, <1>3, PTL DEF QueueSpec
=============================================================================
