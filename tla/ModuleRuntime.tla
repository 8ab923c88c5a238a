---------------------------- MODULE ModuleRuntime ----------------------------
(***************************************************************************)
(* The serving side of a module process: the loop of runModuleClient and   *)
(* the handler goroutines it starts (server-go/bus/module_runtime.go).     *)
(*                                                                         *)
(* One step is one access of the loop or of a goroutine to what they       *)
(* share: the done channel, the context, the host's epoch, the two rings,  *)
(* a cancel flag.  The host on the other side of the rings is external: it *)
(* delivers events, takes replies and may change its epoch at any time.    *)
(*                                                                         *)
(* A frame's kind, stage, trace and deadline have to agree between the     *)
(* fragments of one request; the deadline stands for all four.  A body is  *)
(* the sequence of its parts.  Heartbeats and the log are left out, and    *)
(* the inline budget is larger than the message header.                    *)
(***************************************************************************)
EXTENDS Integers, Sequences, FiniteSets

CONSTANTS
  Correlations,   \* correlation ids of the requests
  MaxInFlight,    \* moduleMaxInFlight
  MaxBody,        \* ModuleMessageMaxBody, in parts
  MaxChunks,      \* fragments of the longest reply
  OutCap,         \* slots of the outbound ring
  InCap,          \* slots of the inbound ring
  Deadlines,      \* deadlines a request may carry; 0 is none
  Bodies,         \* bodies a fragment may carry
  HandlerStatuses,\* statuses the handler may return
  MaxEvents,      \* bound: events the host delivers
  MaxClock        \* bound: the last instant of CLOCK_MONOTONIC

Statuses == {"OK", "CapabilityAbsent", "Cancelled", "DeadlineExceeded",
             "InvalidRequest", "Internal"}

ASSUME RuntimeAssumption ==
  /\ IsFiniteSet(Correlations)
  /\ MaxInFlight \in Nat \ {0}
  /\ MaxBody \in Nat
  /\ MaxChunks \in Nat \ {0}
  /\ OutCap \in Nat \ {0} /\ InCap \in Nat \ {0}
  /\ Deadlines \subseteq Nat /\ 0 \in Deadlines
  /\ \A b \in Bodies : b \in Seq(Nat)
  /\ <<>> \in Bodies
  /\ HandlerStatuses \subseteq Statuses
  /\ MaxEvents \in Nat /\ MaxClock \in Nat \ {0}

VARIABLES
  hasHandler,    \* config.Handler is not nil; never changes
  inbox,         \* the inbound ring
  outbox,        \* the outbound ring
  delivered,     \* number of events delivered
  epochChanged,  \* the host's epoch differs from the attached one
  ctxDone,       \* the context is cancelled
  clock,         \* monotonicNowNS
  pc,            \* where the loop is
  now,           \* the loop's clock sample of this round
  assemblies,    \* correlations of the requests being assembled
  partial,       \* partial[c]: what the assembly of c holds
  jobs,          \* correlations of the requests being worked on
  work,          \* work[c]: what the loop and the goroutine of c share
  goroutine,     \* goroutine[c]: where the goroutine of c is
  outcome,       \* outcome[c]: the result the goroutine is about to send
  done,          \* the channel of results
  reply,         \* the reply being sent
  returned       \* what runModuleClient returned

host == <<hasHandler, inbox, outbox, delivered, epochChanged, ctxDone, clock>>
loop == <<pc, now, assemblies, partial, jobs, reply, returned>>
handlers == <<work, goroutine, outcome, done>>
vars == <<host, loop, handlers>>

(***************************************************************************)
(* Decoded inbound frames.  ok: the kind is served and the payload is an   *)
(* invocation of its stage.                                                *)
(***************************************************************************)
Event == [corr : Correlations, type : {"request", "cancel", "other"},
          ok : BOOLEAN, deadline : Deadlines, body : Bodies, more : BOOLEAN]

(* The fields that the loop does not look at are left at a default. *)
Frames ==
  {e \in Event : e.type # "request" \/ ~e.ok =>
                   ~e.ok /\ e.deadline = 0 /\ e.body = <<>> /\ ~e.more}

NoPartial == [deadline |-> 0, body |-> <<>>]
NoWork == [deadline |-> 0, cancelled |-> FALSE]
NoOutcome == [status |-> "OK", chunks |-> 0]
NoReply == [corr |-> 0, status |-> "OK", left |-> 0]

(* message.DeadlineExpired *)
Expired(deadline, t) == deadline # 0 /\ t >= deadline
-----------------------------------------------------------------------------
Init ==
  /\ hasHandler \in BOOLEAN
  /\ inbox = <<>> /\ outbox = <<>> /\ delivered = 0
  /\ epochChanged = FALSE /\ ctxDone = FALSE /\ clock = 1
  /\ pc = "drain" /\ now = 0
  /\ assemblies = {} /\ jobs = {}
  /\ partial = [c \in Correlations |-> NoPartial]
  /\ work = [c \in Correlations |-> NoWork]
  /\ goroutine = [c \in Correlations |-> "none"]
  /\ outcome = [c \in Correlations |-> NoOutcome]
  /\ done = <<>> /\ reply = NoReply /\ returned = "none"

(***************************************************************************)
(* replyModuleResult.  The loop does nothing else until every fragment is  *)
(* out: it retries a full ring after moduleIdle, and gives up when the     *)
(* context ends or the epoch changes meanwhile.  A reply other than OK has *)
(* no body and is one fragment.                                            *)
(***************************************************************************)
StartReply(c, status, chunks) ==
  /\ pc' = "reply"
  /\ reply' = [corr |-> c, status |-> status,
               left |-> IF status = "OK" THEN chunks ELSE 1]

Return(what) == pc' = "returned" /\ returned' = what

ReplyFragment ==
  /\ pc = "reply" /\ ~epochChanged /\ Len(outbox) < OutCap
  /\ outbox' = Append(outbox, [corr |-> reply.corr, status |-> reply.status,
                               more |-> reply.left > 1])
  /\ IF reply.left > 1
     THEN reply' = [reply EXCEPT !.left = @ - 1] /\ UNCHANGED pc
     ELSE reply' = NoReply /\ pc' = "drain"
  /\ UNCHANGED <<hasHandler, inbox, delivered, epochChanged, ctxDone, clock, now,
                 assemblies, partial, jobs, returned, handlers>>

ReplyWouldBlock ==
  /\ pc = "reply" /\ ~epochChanged /\ Len(outbox) >= OutCap
  /\ pc' = "blocked"
  /\ UNCHANGED <<host, now, assemblies, partial, jobs, reply, returned, handlers>>

ReplyRetry ==
  /\ pc = "blocked" /\ ~epochChanged
  /\ pc' = "reply"
  /\ UNCHANGED <<host, now, assemblies, partial, jobs, reply, returned, handlers>>

ReplyFails ==
  /\ \/ pc = "reply" /\ epochChanged
     \/ pc = "blocked" /\ (epochChanged \/ ctxDone)
  /\ Return("error")
  /\ UNCHANGED <<host, now, assemblies, partial, jobs, reply, handlers>>

(* Mutant: the job stays registered when its result is taken. *)
FinishModuleWorkKeepsJob ==
  LET r == Head(done) IN
  /\ pc = "drain" /\ done # <<>>
  /\ done' = Tail(done)
  /\ work' = [work EXCEPT ![r.corr] = NoWork]
  /\ StartReply(r.corr, r.status, r.chunks)
  /\ UNCHANGED <<host, now, assemblies, partial, returned, jobs, goroutine, outcome>>

(***************************************************************************)
(* The top of the loop: results first, then the context, then the epoch.   *)
(***************************************************************************)
FinishModuleWork ==
  LET r == Head(done) IN
  /\ pc = "drain" /\ done # <<>>
  /\ done' = Tail(done)
  /\ jobs' = jobs \ {r.corr}
  /\ work' = [work EXCEPT ![r.corr] = NoWork]
  /\ StartReply(r.corr, r.status, r.chunks)
  /\ UNCHANGED <<host, now, assemblies, partial, returned, goroutine, outcome>>

NoResult ==
  /\ pc = "drain" /\ done = <<>>
  /\ pc' = "ctx"
  /\ UNCHANGED <<host, now, assemblies, partial, jobs, reply, returned, handlers>>

ContextCancelled ==
  /\ pc = "ctx" /\ ctxDone
  /\ work' = [c \in Correlations |->
                IF c \in jobs THEN [work[c] EXCEPT !.cancelled = TRUE] ELSE work[c]]
  /\ pc' = "shutdown"
  /\ UNCHANGED <<host, now, assemblies, partial, jobs, reply, returned,
                 goroutine, outcome, done>>

ContextLive ==
  /\ pc = "ctx" /\ ~ctxDone
  /\ pc' = "epoch"
  /\ UNCHANGED <<host, now, assemblies, partial, jobs, reply, returned, handlers>>

(* Mutant: shutdown does not wait for the handlers. *)
ShutdownEarly ==
  /\ pc = "shutdown"
  /\ Return("nil") /\ UNCHANGED <<jobs, work, done>>
  /\ UNCHANGED <<host, now, assemblies, partial, reply, goroutine, outcome>>

(* Every job is waited for; its result is dropped. *)
Shutdown ==
  /\ pc = "shutdown"
  /\ \/ /\ jobs = {}
        /\ Return("nil")
        /\ UNCHANGED <<jobs, work, done>>
     \/ /\ jobs # {} /\ done # <<>>
        /\ jobs' = jobs \ {Head(done).corr}
        /\ work' = [work EXCEPT ![Head(done).corr] = NoWork]
        /\ done' = Tail(done)
        /\ UNCHANGED <<pc, returned>>
  /\ UNCHANGED <<host, now, assemblies, partial, reply, goroutine, outcome>>

EpochEnds ==
  /\ pc \in {"epoch", "poll"} /\ epochChanged
  /\ Return("nil")
  /\ UNCHANGED <<host, now, assemblies, partial, jobs, reply, handlers>>

EpochSame ==
  /\ pc = "epoch" /\ ~epochChanged
  /\ now' = clock
  /\ pc' = "poll"
  /\ UNCHANGED <<host, assemblies, partial, jobs, reply, returned, handlers>>

PollEmpty ==
  /\ pc = "poll" /\ ~epochChanged /\ inbox = <<>>
  /\ pc' = "drain"
  /\ UNCHANGED <<host, now, assemblies, partial, jobs, reply, returned, handlers>>
-----------------------------------------------------------------------------
(***************************************************************************)
(* The event that Poll returned, and what the loop does with it.           *)
(***************************************************************************)
Poll(e) ==
  /\ pc = "poll" /\ ~epochChanged /\ inbox # <<>> /\ e = Head(inbox)
  /\ inbox' = Tail(inbox)
  /\ UNCHANGED <<hasHandler, outbox, delivered, epochChanged, ctxDone, clock, now, returned>>

Continue == pc' = "drain" /\ UNCHANGED reply

Forget(c) ==
  /\ assemblies' = assemblies \ {c}
  /\ partial' = [partial EXCEPT ![c] = NoPartial]

Keep(c, p) ==
  /\ assemblies' = assemblies \cup {c}
  /\ partial' = [partial EXCEPT ![c] = p]

OnCancel(e) ==
  /\ Poll(e) /\ e.type = "cancel"
  /\ work' = [work EXCEPT ![e.corr].cancelled = e.corr \in jobs]
  /\ Forget(e.corr)
  /\ Continue
  /\ UNCHANGED <<jobs, goroutine, outcome, done>>

OnOther(e) ==
  /\ Poll(e) /\ e.type = "other"
  /\ Continue
  /\ UNCHANGED <<assemblies, partial, jobs, handlers>>

Invalid(e) ==
  \/ ~e.ok
  \/ e.corr \in jobs
  \/ e.corr \in assemblies /\ partial[e.corr].deadline # e.deadline

NoRoom(e) == e.corr \notin assemblies /\ Cardinality(assemblies) >= MaxInFlight

Grown(e) == partial[e.corr].body \o e.body

Overflow(e) == Len(Grown(e)) > MaxBody

Accepted(e) == ~Invalid(e) /\ ~NoRoom(e) /\ ~Overflow(e)

Refuse(e, status) ==
  /\ StartReply(e.corr, status, 1)
  /\ UNCHANGED <<jobs, handlers>>

OnInvalid(e) ==
  /\ Poll(e) /\ e.type = "request" /\ Invalid(e)
  /\ Forget(e.corr)
  /\ Refuse(e, "InvalidRequest")

OnNoRoom(e) ==
  /\ Poll(e) /\ e.type = "request" /\ ~Invalid(e) /\ NoRoom(e)
  /\ Refuse(e, "Internal")
  /\ UNCHANGED <<assemblies, partial>>

OnOverflow(e) ==
  /\ Poll(e) /\ e.type = "request" /\ ~Invalid(e) /\ ~NoRoom(e) /\ Overflow(e)
  /\ Forget(e.corr)
  /\ Refuse(e, "Internal")

OnFragment(e) ==
  /\ Poll(e) /\ e.type = "request" /\ Accepted(e) /\ e.more
  /\ Keep(e.corr, [deadline |-> e.deadline, body |-> Grown(e)])
  /\ Continue
  /\ UNCHANGED <<jobs, handlers>>

Full == Cardinality(jobs) >= MaxInFlight

(* The last fragment: late, without a handler, or one job too many. *)
OnRefused(e) ==
  /\ Poll(e) /\ e.type = "request" /\ Accepted(e) /\ ~e.more
  /\ Forget(e.corr)
  /\ \/ Expired(e.deadline, now) /\ Refuse(e, "DeadlineExceeded")
     \/ ~Expired(e.deadline, now) /\ ~hasHandler /\ Refuse(e, "CapabilityAbsent")
     \/ ~Expired(e.deadline, now) /\ hasHandler /\ Full /\ Refuse(e, "Internal")

(* Mutant: the number of jobs is not limited. *)
OnRequestUnlimited(e) ==
  /\ Poll(e) /\ e.type = "request" /\ Accepted(e) /\ ~e.more
  /\ ~Expired(e.deadline, now) /\ hasHandler
  /\ Forget(e.corr)
  /\ jobs' = jobs \cup {e.corr}
  /\ work' = [work EXCEPT ![e.corr] = [deadline |-> e.deadline, cancelled |-> FALSE]]
  /\ goroutine' = [goroutine EXCEPT ![e.corr] = "handling"]
  /\ Continue
  /\ UNCHANGED <<outcome, done>>

OnRequest(e) ==
  /\ Poll(e) /\ e.type = "request" /\ Accepted(e) /\ ~e.more
  /\ ~Expired(e.deadline, now) /\ hasHandler /\ ~Full
  /\ Forget(e.corr)
  /\ jobs' = jobs \cup {e.corr}
  /\ work' = [work EXCEPT ![e.corr] = [deadline |-> e.deadline, cancelled |-> FALSE]]
  /\ goroutine' = [goroutine EXCEPT ![e.corr] = "handling"]
  /\ Continue
  /\ UNCHANGED <<outcome, done>>

OnEvent ==
  /\ inbox # <<>>
  /\ LET e == Head(inbox) IN
     \/ OnCancel(e) \/ OnOther(e) \/ OnInvalid(e) \/ OnNoRoom(e) \/ OnOverflow(e)
     \/ OnFragment(e) \/ OnRefused(e) \/ OnRequest(e)
-----------------------------------------------------------------------------
(***************************************************************************)
(* runHandler: the handler returns some status, then the cancel flag and   *)
(* the deadline are looked at, and the result is sent.                     *)
(***************************************************************************)
HandlerReturns(c) ==
  /\ goroutine[c] = "handling"
  /\ \E status \in HandlerStatuses, chunks \in 1 .. MaxChunks :
       outcome' = [outcome EXCEPT ![c] =
         [status |-> IF work[c].cancelled THEN "Cancelled"
                     ELSE IF Expired(work[c].deadline, clock) THEN "DeadlineExceeded"
                     ELSE status,
          chunks |-> chunks]]
  /\ goroutine' = [goroutine EXCEPT ![c] = "sending"]
  /\ UNCHANGED <<host, loop, work, done>>

SendResult(c) ==
  /\ goroutine[c] = "sending"
  /\ Len(done) < MaxInFlight
  /\ done' = Append(done, [corr |-> c, status |-> outcome[c].status,
                           chunks |-> outcome[c].chunks])
  /\ goroutine' = [goroutine EXCEPT ![c] = "none"]
  /\ outcome' = [outcome EXCEPT ![c] = NoOutcome]
  /\ UNCHANGED <<host, loop, work>>

Handler == \E c \in Correlations : HandlerReturns(c) \/ SendResult(c)
-----------------------------------------------------------------------------
(***************************************************************************)
(* The host's side of the rings, its epoch, the context and the clock.     *)
(***************************************************************************)
Deliver(e) ==
  /\ Len(inbox) < InCap /\ delivered < MaxEvents
  /\ inbox' = Append(inbox, e)
  /\ delivered' = delivered + 1
  /\ UNCHANGED <<hasHandler, outbox, epochChanged, ctxDone, clock, loop, handlers>>

TakeReply ==
  /\ outbox # <<>>
  /\ outbox' = Tail(outbox)
  /\ UNCHANGED <<hasHandler, inbox, delivered, epochChanged, ctxDone, clock, loop, handlers>>

ChangeEpoch ==
  /\ ~epochChanged /\ epochChanged' = TRUE
  /\ UNCHANGED <<hasHandler, inbox, outbox, delivered, ctxDone, clock, loop, handlers>>

CancelContext ==
  /\ ~ctxDone /\ ctxDone' = TRUE
  /\ UNCHANGED <<hasHandler, inbox, outbox, delivered, epochChanged, clock, loop, handlers>>

Tick ==
  /\ clock < MaxClock /\ clock' = clock + 1
  /\ UNCHANGED <<hasHandler, inbox, outbox, delivered, epochChanged, ctxDone, loop, handlers>>

Environment ==
  \/ \E e \in Frames : Deliver(e)
  \/ TakeReply \/ ChangeEpoch \/ CancelContext \/ Tick

Reply == ReplyFragment \/ ReplyWouldBlock \/ ReplyRetry \/ ReplyFails
Serve == FinishModuleWork \/ NoResult \/ ContextLive \/ ContextCancelled
         \/ Shutdown \/ EpochEnds \/ EpochSame \/ PollEmpty \/ OnEvent
Loop == Reply \/ Serve

Next == Loop \/ Handler \/ Environment
Spec == Init /\ [][Next]_vars

(***************************************************************************)
(* The loop and the handlers keep running; handlers return (they "should   *)
(* call Cancelled around bounded units of work").  A select between the    *)
(* ended context and a timer started in that very select does not take the *)
(* timer for ever.                                                         *)
(***************************************************************************)
Fairness ==
  /\ WF_vars(Loop) /\ SF_vars(ReplyFails)
  /\ \A c \in Correlations : WF_vars(HandlerReturns(c)) /\ WF_vars(SendResult(c))

FairSpec == Spec /\ Fairness
-----------------------------------------------------------------------------
Positions == {"drain", "ctx", "shutdown", "epoch", "poll", "reply", "blocked", "returned"}
Result == [corr : Correlations, status : Statuses, chunks : Nat]

\* The tables, the channel and the locals of runModuleClient hold what the code
\* stores in them; a reply under way always belongs to a correlation.
TypeOK ==
  /\ hasHandler \in BOOLEAN
  /\ inbox \in Seq(Event) /\ outbox \in Seq([corr : Correlations, status : Statuses, more : BOOLEAN])
  /\ delivered \in Nat /\ epochChanged \in BOOLEAN /\ ctxDone \in BOOLEAN /\ clock \in Nat
  /\ pc \in Positions /\ now \in Nat
  /\ assemblies \subseteq Correlations /\ jobs \subseteq Correlations
  /\ DOMAIN partial = Correlations
  /\ work \in [Correlations -> [deadline : Nat, cancelled : BOOLEAN]]
  /\ goroutine \in [Correlations -> {"none", "handling", "sending"}]
  /\ outcome \in [Correlations -> [status : Statuses, chunks : Nat]]
  /\ done \in Seq(Result)
  /\ reply \in [corr : Correlations \cup {0}, status : Statuses, left : Nat]
  /\ pc \in {"reply", "blocked"} => reply.corr \in Correlations
  /\ returned \in {"none", "nil", "error"}

Alive == {c \in Correlations : goroutine[c] # "none"}
Queued == {done[i].corr : i \in DOMAIN done}

(***************************************************************************)
(* The jobs table is exact: a correlation is a job while its one goroutine *)
(* runs or its one result waits in the channel, and never both.  The loop  *)
(* refuses duplicates, limits the jobs and waits at shutdown by this table *)
(* alone.                                                                  *)
(***************************************************************************)
JobsAccounted ==
  /\ jobs = Alive \cup Queued
  /\ Alive \cap Queued = {}
  /\ \A i, j \in DOMAIN done : done[i].corr = done[j].corr => i = j

(***************************************************************************)
(* A goroutine never blocks on the result channel, which nobody reads      *)
(* after an error or a change of epoch: the channel has room for the       *)
(* result of every goroutine that is alive.                                *)
(***************************************************************************)
DoneHasRoom == Len(done) + Cardinality(Alive) <= MaxInFlight

(***************************************************************************)
(* A correlation is not assembled while it is worked on, and the           *)
(* assemblies are limited.                                                 *)
(***************************************************************************)
AssemblyOrJob ==
  /\ assemblies \cap jobs = {}
  /\ Cardinality(assemblies) <= MaxInFlight

(***************************************************************************)
(* RunModuleProcess "serves until ctx is cancelled or the host epoch       *)
(* changes": nothing a request holds ends it, and when it ends cleanly     *)
(* for the context alone no handler is left behind.                        *)
(***************************************************************************)
ServesUntil ==
  pc = "returned" => /\ ctxDone \/ epochChanged
                     /\ returned = "nil" /\ ~epochChanged => Alive = {}

(***************************************************************************)
(* Once the context is cancelled or the host is gone the loop returns,     *)
(* also when a reply is stuck on a full ring or handlers are running.      *)
(***************************************************************************)
Stops == (ctxDone \/ epochChanged) ~> pc = "returned"
=============================================================================
