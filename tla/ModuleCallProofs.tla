---------------------------- MODULE ModuleCallProofs ----------------------------
(***************************************************************************)
(* Proofs about ModuleRuntime, for any number of correlations, any limit   *)
(* on the jobs and any behaviour of the host and of the handlers; and      *)
(* about ModuleCall, for any number of callers and calls, requests and     *)
(* answers of any number of fragments, and rings of any size.              *)
(*                                                                         *)
(* A ring carries the frames of many calls.  What one call sees of it is a *)
(* sequence of its own, its view: a ring that grows or shrinks by a frame  *)
(* of the call does so with its view, and any other frame leaves the view  *)
(* alone.  Through the four rings between a caller and its module a call   *)
(* therefore goes through a few phases, from Fresh to Over, of its own.    *)
(***************************************************************************)
EXTENDS ModuleCall, FiniteSetTheorems, TLAPS

(***************************************************************************)
(* The part of the state the accounting of the jobs is about.              *)
(***************************************************************************)
accounting == <<jobs, goroutine, done>>

(***************************************************************************)
(* Results and live goroutines together are as many as the jobs.           *)
(***************************************************************************)
JobsCounted ==
  /\ Len(done) + Cardinality(Alive) = Cardinality(jobs)
  /\ Cardinality(jobs) <= MaxInFlight

(***************************************************************************)
(* The waiting at shutdown is only entered for the context.                *)
(***************************************************************************)
ShutdownHasCause == pc = "shutdown" => ctxDone

IInv ==
  /\ TypeOK /\ JobsAccounted /\ JobsCounted /\ AssemblyOrJob
  /\ ServesUntil /\ ShutdownHasCause

(* The first of a non-empty sequence is one of its elements. *)
LEMMA HeadInSeq ==
  ASSUME NEW S, NEW s \in Seq(S), s # <<>>
  PROVE  Head(s) \in S /\ Tail(s) \in Seq(S) /\ 1 \in DOMAIN s /\ Head(s) = s[1]
         /\ Len(Tail(s)) = Len(s) - 1
         /\ \A i \in DOMAIN Tail(s) : i + 1 \in DOMAIN s /\ Tail(s)[i] = s[i + 1]
  OBVIOUS

(* The subsets of the correlations that are counted are finite. *)
LEMMA FiniteParts ==
  ASSUME NEW S, S \subseteq Correlations
  PROVE  IsFiniteSet(S) /\ Cardinality(S) \in Nat
  BY RuntimeAssumption, FS_Subset, FS_CardinalityType

(* The initial state has its types and nothing in flight. *)
LEMMA InitIInv == Init => IInv
  <1> SUFFICES ASSUME Init PROVE IInv
    OBVIOUS
  <1>1. epochChanged \in BOOLEAN /\ ctxDone \in BOOLEAN /\ hasHandler \in BOOLEAN
    BY Zenon DEF Init
  <1>2. work \in [Correlations -> [deadline : Nat, cancelled : BOOLEAN]]
    BY DEF Init, NoWork
  <1>3. outcome \in [Correlations -> [status : Statuses, chunks : Nat]]
    BY DEF Init, NoOutcome, Statuses
  <1>4. TypeOK
    BY <1>1, <1>2, <1>3 DEF Init, TypeOK, NoPartial, NoReply, Positions, Result, Statuses
  <1>5. Alive = {} /\ Queued = {}
    BY DEF Init, Alive, Queued
  <1>6. JobsAccounted
    BY <1>5 DEF Init, JobsAccounted
  <1>7. JobsCounted /\ AssemblyOrJob
    BY <1>5, FS_EmptySet, RuntimeAssumption DEF Init, JobsCounted, AssemblyOrJob
  <1> QED
    BY <1>4, <1>6, <1>7 DEF Init, IInv, ServesUntil, ShutdownHasCause

(* The handler is fixed; the context and the epoch only end. *)
LEMMA FlagsOnlyRise ==
  ASSUME [Next]_vars
  PROVE  /\ hasHandler' = hasHandler
         /\ epochChanged' = epochChanged \/ epochChanged' = TRUE
         /\ ctxDone' = ctxDone \/ ctxDone' = TRUE
  BY DEF Next, vars, host, Loop, Reply, Serve, Handler, Environment, ReplyFragment,
     ReplyWouldBlock, ReplyRetry, ReplyFails, FinishModuleWork, NoResult, ContextLive,
     ContextCancelled, Shutdown, EpochEnds, EpochSame, PollEmpty, OnEvent, Poll, OnCancel,
     OnOther, OnInvalid, OnNoRoom, OnOverflow, OnFragment, OnRefused, OnRequest,
     HandlerReturns, SendResult, Deliver, TakeReply, ChangeEpoch, CancelContext, Tick

(* A step changes no Boolean to anything else. *)
LEMMA BooleansStep ==
  ASSUME TypeOK, [Next]_vars
  PROVE  hasHandler' \in BOOLEAN /\ epochChanged' \in BOOLEAN /\ ctxDone' \in BOOLEAN
  BY FlagsOnlyRise, Zenon DEF TypeOK

(* A step of the reply being sent keeps the types. *)
LEMMA ReplyTypeOK ==
  ASSUME TypeOK, Next, Reply
  PROVE  TypeOK'
  <1> USE BooleansStep
  <1>1. CASE ReplyFragment
    <2> DEFINE r == [corr |-> reply.corr, status |-> reply.status, more |-> reply.left > 1]
    <2>1. (reply.left > 1) \in BOOLEAN
      OBVIOUS
    <2>2. r \in [corr : Correlations, status : Statuses, more : BOOLEAN]
      BY <1>1, <2>1 DEF TypeOK, ReplyFragment
    <2>3. outbox' \in Seq([corr : Correlations, status : Statuses, more : BOOLEAN])
      <3> HIDE DEF r
      <3>1. outbox' = Append(outbox, r)
        BY <1>1 DEF ReplyFragment, r
      <3> QED BY <3>1, <2>2 DEF TypeOK
    <2>4. /\ reply' \in [corr : Correlations \cup {0}, status : Statuses, left : Nat]
          /\ pc' \in {"reply", "blocked"} => reply'.corr \in Correlations
      <3>1. CASE reply.left > 1
        <4>1. reply' = [corr |-> reply.corr, status |-> reply.status, left |-> reply.left - 1]
          BY <1>1, <3>1 DEF TypeOK, ReplyFragment
        <4>2. reply.left - 1 \in Nat /\ reply.corr \in Correlations
          BY <1>1, <3>1 DEF TypeOK, ReplyFragment
        <4> QED BY <4>1, <4>2 DEF TypeOK
      <3>2. CASE ~(reply.left > 1)
        BY <1>1, <3>2 DEF TypeOK, ReplyFragment, NoReply, Statuses
      <3> QED BY <3>1, <3>2
    <2> QED
      BY <1>1, <2>3, <2>4 DEF TypeOK, ReplyFragment, handlers, Positions
  <1>2. CASE ReplyWouldBlock
    BY <1>2 DEF TypeOK, ReplyWouldBlock, handlers, host, Positions
  <1>3. CASE ReplyRetry
    BY <1>3 DEF TypeOK, ReplyRetry, handlers, host, Positions
  <1>4. CASE ReplyFails
    BY <1>4 DEF TypeOK, ReplyFails, Return, handlers, host, Positions
  <1> QED
    BY <1>1, <1>2, <1>3, <1>4 DEF Reply

(* A step of the top of the loop keeps the types. *)
LEMMA TopTypeOK ==
  ASSUME TypeOK, Next,
         FinishModuleWork \/ NoResult \/ ContextLive \/ ContextCancelled
         \/ Shutdown \/ EpochEnds \/ EpochSame \/ PollEmpty
  PROVE  TypeOK'
  <1> USE BooleansStep
  <1>1. CASE FinishModuleWork
    <2> DEFINE r == Head(done)
    <2>1. r \in Result /\ Tail(done) \in Seq(Result)
      BY <1>1, HeadInSeq DEF TypeOK, FinishModuleWork
    <2>2. work' \in [Correlations -> [deadline : Nat, cancelled : BOOLEAN]]
      BY <1>1, <2>1 DEF TypeOK, FinishModuleWork, NoWork, Result
    <2>3. reply' \in [corr : Correlations \cup {0}, status : Statuses, left : Nat]
          /\ reply'.corr \in Correlations
      BY <1>1, <2>1 DEF FinishModuleWork, StartReply, Result
    <2>4. /\ pc' = "reply" /\ done' \in Seq(Result) /\ jobs' = jobs \ {r.corr}
          /\ UNCHANGED <<host, now, assemblies, partial, returned, goroutine, outcome>>
      BY <1>1, <2>1 DEF FinishModuleWork, StartReply
    <2> HIDE DEF r
    <2> QED
      BY <2>2, <2>3, <2>4 DEF TypeOK, host, Positions
  <1>2. CASE NoResult
    BY <1>2 DEF TypeOK, NoResult, host, handlers, Positions
  <1>3. CASE ContextLive
    BY <1>3 DEF TypeOK, ContextLive, host, handlers, Positions
  <1>4. CASE ContextCancelled
    <2>1. work' \in [Correlations -> [deadline : Nat, cancelled : BOOLEAN]]
      BY ZenonT(60), <1>4 DEF TypeOK, ContextCancelled
    <2> QED
      BY <1>4, <2>1 DEF TypeOK, ContextCancelled, host, Positions
  <1>5. CASE Shutdown
    <2>1. CASE jobs = {} /\ Return("nil") /\ UNCHANGED <<jobs, work, done>>
      BY <1>5, <2>1 DEF TypeOK, Shutdown, Return, host, Positions
    <2>2. CASE done # <<>> /\ jobs' = jobs \ {Head(done).corr}
               /\ work' = [work EXCEPT ![Head(done).corr] = NoWork]
               /\ done' = Tail(done) /\ UNCHANGED <<pc, returned>>
      <3>1. Head(done) \in Result /\ Tail(done) \in Seq(Result)
        BY <2>2, HeadInSeq DEF TypeOK
      <3>2. work' \in [Correlations -> [deadline : Nat, cancelled : BOOLEAN]]
        BY <2>2, <3>1 DEF TypeOK, NoWork, Result
      <3> QED
        BY <1>5, <2>2, <3>1, <3>2 DEF TypeOK, Shutdown, host
    <2> QED
      BY <1>5, <2>1, <2>2 DEF Shutdown
  <1>6. CASE EpochEnds
    BY <1>6 DEF TypeOK, EpochEnds, Return, host, handlers, Positions
  <1>7. CASE EpochSame
    BY <1>7 DEF TypeOK, EpochSame, host, handlers, Positions
  <1>8. CASE PollEmpty
    BY <1>8 DEF TypeOK, PollEmpty, host, handlers, Positions
  <1> QED
    BY <1>1, <1>2, <1>3, <1>4, <1>5, <1>6, <1>7, <1>8

(* Handling an event keeps the types. *)
LEMMA EventTypeOK ==
  ASSUME TypeOK, Next, OnEvent
  PROVE  TypeOK'
  <1> DEFINE e == Head(inbox)
  <1>0. /\ inbox # <<>> /\ e \in Event /\ Tail(inbox) \in Seq(Event)
        /\ e.corr \in Correlations /\ e.deadline \in Nat
    <2>1. inbox # <<>> /\ inbox \in Seq(Event)
      BY DEF TypeOK, OnEvent
    <2>2. e \in Event /\ Tail(inbox) \in Seq(Event)
      BY <2>1, HeadInSeq
    <2>3. e.corr \in Correlations /\ e.deadline \in Deadlines
      BY <2>2 DEF Event
    <2> QED BY <2>1, <2>2, <2>3, RuntimeAssumption
  <1> USE BooleansStep, <1>0
  <1> HIDE DEF e
  <1>r. ASSUME NEW status \in Statuses, StartReply(e.corr, status, 1)
        PROVE  /\ reply' \in [corr : Correlations \cup {0}, status : Statuses, left : Nat]
               /\ pc' = "reply" /\ reply'.corr \in Correlations
    BY <1>r DEF StartReply
  <1>1. CASE OnCancel(e)
    <2>1. (e.corr \in jobs) \in BOOLEAN
      OBVIOUS
    <2>2. work' \in [Correlations -> [deadline : Nat, cancelled : BOOLEAN]]
      BY ZenonT(60), <1>1, <2>1 DEF TypeOK, OnCancel
    <2>3. /\ pc' = "drain" /\ assemblies' = assemblies \ {e.corr} /\ inbox' \in Seq(Event)
          /\ partial' = [partial EXCEPT ![e.corr] = NoPartial]
          /\ UNCHANGED <<reply, jobs, goroutine, outcome, done, now, returned,
                         hasHandler, outbox, delivered, epochChanged, ctxDone, clock>>
      BY <1>1 DEF OnCancel, Poll, Continue, Forget, e
    <2> QED
      BY <2>2, <2>3 DEF TypeOK, Positions
  <1>2. CASE OnOther(e)
    BY <1>2 DEF TypeOK, OnOther, Poll, Continue, handlers, Positions, e
  <1>3. CASE OnInvalid(e)
    <2>1. StartReply(e.corr, "InvalidRequest", 1)
      BY <1>3 DEF OnInvalid, Refuse
    <2>2. "InvalidRequest" \in Statuses
      BY DEF Statuses
    <2> QED
      BY <1>3, <2>1, <2>2, <1>r DEF TypeOK, OnInvalid, Poll, Forget, Refuse, handlers, Positions, e
  <1>4. CASE OnNoRoom(e)
    <2>1. StartReply(e.corr, "Internal", 1)
      BY <1>4 DEF OnNoRoom, Refuse
    <2>2. "Internal" \in Statuses
      BY DEF Statuses
    <2> QED
      BY <1>4, <2>1, <2>2, <1>r DEF TypeOK, OnNoRoom, Poll, Refuse, handlers, Positions, e
  <1>5. CASE OnOverflow(e)
    <2>1. StartReply(e.corr, "Internal", 1)
      BY <1>5 DEF OnOverflow, Refuse
    <2>2. "Internal" \in Statuses
      BY DEF Statuses
    <2> QED
      BY <1>5, <2>1, <2>2, <1>r DEF TypeOK, OnOverflow, Poll, Forget, Refuse, handlers, Positions, e
  <1>6. CASE OnFragment(e)
    BY <1>6 DEF TypeOK, OnFragment, Poll, Keep, Continue, handlers, Positions, e
  <1>7. CASE OnRefused(e)
    <2>1. PICK status \in Statuses : Refuse(e, status)
      BY <1>7 DEF OnRefused, Statuses
    <2>2. StartReply(e.corr, status, 1)
      BY <2>1 DEF Refuse
    <2> QED
      BY <1>7, <2>1, <2>2, <1>r DEF TypeOK, OnRefused, Poll, Forget, Refuse, handlers, Positions, e
  <1>8. CASE OnRequest(e)
    BY <1>8 DEF TypeOK, OnRequest, Poll, Forget, Continue, Positions, e
  <1> QED
    BY <1>1, <1>2, <1>3, <1>4, <1>5, <1>6, <1>7, <1>8 DEF OnEvent, e

(* A step of a handler or of the environment keeps the types. *)
LEMMA OtherTypeOK ==
  ASSUME TypeOK, Next, Handler \/ Environment
  PROVE  TypeOK'
  <1> USE BooleansStep
  <1>1. ASSUME NEW c \in Correlations, HandlerReturns(c)
        PROVE  TypeOK'
    <2>1. outcome' \in [Correlations -> [status : Statuses, chunks : Nat]]
      BY <1>1, RuntimeAssumption DEF TypeOK, HandlerReturns, Statuses
    <2> QED
      BY <1>1, <2>1 DEF TypeOK, HandlerReturns, host, loop
  <1>2. ASSUME NEW c \in Correlations, SendResult(c)
        PROVE  TypeOK'
    <2>1. done' \in Seq(Result)
      BY <1>2 DEF TypeOK, SendResult, Result
    <2>2. NoOutcome \in [status : Statuses, chunks : Nat]
      BY DEF NoOutcome, Statuses
    <2> QED
      BY <1>2, <2>1, <2>2 DEF TypeOK, SendResult, host, loop
  <1>3. ASSUME NEW e \in Frames, Deliver(e)
        PROVE  TypeOK'
    BY <1>3 DEF TypeOK, Deliver, Frames, loop, handlers
  <1>4. CASE TakeReply
    BY <1>4 DEF TypeOK, TakeReply, loop, handlers
  <1>5. CASE ChangeEpoch
    BY <1>5 DEF TypeOK, ChangeEpoch, loop, handlers
  <1>6. CASE CancelContext
    BY <1>6 DEF TypeOK, CancelContext, loop, handlers
  <1>7. CASE Tick
    BY <1>7 DEF TypeOK, Tick, loop, handlers
  <1> QED
    BY <1>1, <1>2, <1>3, <1>4, <1>5, <1>6, <1>7 DEF Handler, Environment

-----------------------------------------------------------------------------
(***************************************************************************)
(* The accounting: the four ways the jobs, the goroutines and the channel  *)
(* change.                                                                 *)
(***************************************************************************)
Accounted == JobsAccounted /\ JobsCounted

(* A step that touches none of the three keeps the accounting. *)
LEMMA QuietAccounted ==
  ASSUME Accounted, UNCHANGED accounting
  PROVE  Accounted' /\ Alive' = Alive
  BY DEF Accounted, accounting, JobsAccounted, JobsCounted, Alive, Queued

(* A new job starts one goroutine. *)
LEMMA StartAccounted ==
  ASSUME TypeOK, Accounted, NEW c \in Correlations, c \notin jobs,
         ~(Cardinality(jobs) >= MaxInFlight),
         jobs' = jobs \cup {c}, done' = done,
         goroutine' = [goroutine EXCEPT ![c] = "handling"]
  PROVE  Accounted'
  <1>1. Alive' = Alive \cup {c} /\ c \notin Alive /\ Queued' = Queued /\ c \notin Queued
    BY DEF TypeOK, Accounted, JobsAccounted, Alive, Queued
  <1>2. Alive \subseteq Correlations /\ jobs \subseteq Correlations
    BY DEF TypeOK, Alive
  <1>3. Cardinality(Alive') = Cardinality(Alive) + 1 /\ Cardinality(Alive) \in Nat
    BY <1>1, <1>2, FiniteParts, FS_AddElement
  <1>4. Cardinality(jobs') = Cardinality(jobs) + 1 /\ Cardinality(jobs) \in Nat
    BY <1>2, FiniteParts, FS_AddElement
  <1>5. Len(done) \in Nat
    BY DEF TypeOK
  <1>6. JobsAccounted'
    BY <1>1 DEF Accounted, JobsAccounted
  <1>7. JobsCounted'
    BY <1>3, <1>4, <1>5, RuntimeAssumption DEF Accounted, JobsCounted
  <1> QED
    BY <1>6, <1>7 DEF Accounted

(* A handler that returns stays alive until its result is sent. *)
LEMMA ReturnsAccounted ==
  ASSUME TypeOK, Accounted, NEW c \in Correlations, HandlerReturns(c)
  PROVE  Accounted' /\ Alive' = Alive
  <1>1. Alive' = Alive /\ Queued' = Queued /\ jobs' = jobs /\ done' = done
    BY DEF TypeOK, HandlerReturns, Alive, Queued, loop
  <1> QED
    BY <1>1 DEF Accounted, JobsAccounted, JobsCounted

(* A sent result takes the place of its goroutine. *)
LEMMA SendAccounted ==
  ASSUME TypeOK, Accounted, NEW c \in Correlations, SendResult(c)
  PROVE  Accounted' /\ Alive' = Alive \ {c}
  <1> DEFINE r == [corr |-> c, status |-> outcome[c].status, chunks |-> outcome[c].chunks]
  <1>1. /\ done' = Append(done, r) /\ jobs' = jobs /\ r.corr = c
        /\ Alive' = Alive \ {c} /\ c \in Alive
    BY DEF TypeOK, SendResult, Alive, loop
  <1> HIDE DEF r
  <1>2. /\ Len(done') = Len(done) + 1 /\ Len(done) \in Nat
        /\ DOMAIN done' = 1 .. (Len(done) + 1) /\ DOMAIN done = 1 .. Len(done)
        /\ done'[Len(done) + 1] = r
        /\ \A i \in DOMAIN done : done'[i] = done[i]
    BY <1>1 DEF TypeOK
  <1>3. Queued' = Queued \cup {c}
    BY <1>1, <1>2 DEF Queued
  <1>4. \A i \in DOMAIN done : done[i].corr # c
    BY <1>1 DEF Accounted, JobsAccounted, Queued
  <1>5. \A i, j \in DOMAIN done' : done'[i].corr = done'[j].corr => i = j
    BY <1>1, <1>2, <1>4 DEF Accounted, JobsAccounted
  <1>6. JobsAccounted'
    BY <1>1, <1>3, <1>5 DEF Accounted, JobsAccounted
  <1>7. Cardinality(Alive') = Cardinality(Alive) - 1 /\ Cardinality(Alive) \in Nat
    <2>1. Alive \subseteq Correlations
      BY DEF Alive
    <2> QED BY <1>1, <2>1, FiniteParts, FS_RemoveElement
  <1>8. JobsCounted'
    BY <1>1, <1>2, <1>7 DEF Accounted, JobsCounted
  <1> QED
    BY <1>1, <1>6, <1>8 DEF Accounted

(* A result taken from the channel ends its job. *)
LEMMA TakeAccounted ==
  ASSUME TypeOK, Accounted, done # <<>>, jobs' = jobs \ {Head(done).corr},
         done' = Tail(done), goroutine' = goroutine
  PROVE  Accounted' /\ Alive' = Alive
  <1> DEFINE c == Head(done).corr
  <1>1. /\ 1 \in DOMAIN done /\ Head(done) = done[1] /\ Head(done) \in Result
        /\ Len(done') = Len(done) - 1 /\ Len(done) \in Nat /\ Len(done) >= 1
        /\ DOMAIN done' = 1 .. (Len(done) - 1) /\ DOMAIN done = 1 .. Len(done)
        /\ \A i \in DOMAIN done' : i + 1 \in DOMAIN done /\ done'[i] = done[i + 1]
    BY DEF TypeOK
  <1>2. Alive' = Alive /\ c \notin Alive /\ c \in jobs
    BY <1>1 DEF Alive, Accounted, JobsAccounted, Queued
  <1>3. \A i \in DOMAIN done' : done'[i].corr # c
    BY <1>1 DEF Accounted, JobsAccounted
  <1>4. Queued' = Queued \ {c}
    <2>1. ASSUME NEW x \in Queued, x # c PROVE x \in Queued'
      <3>1. PICK i \in DOMAIN done : done[i].corr = x
        BY <2>1 DEF Queued
      <3>2. i # 1 /\ i - 1 \in DOMAIN done' /\ done'[i - 1] = done[i]
        BY <1>1, <2>1, <3>1
      <3> QED BY <3>1, <3>2 DEF Queued
    <2>2. ASSUME NEW x \in Queued' PROVE x \in Queued /\ x # c
      BY <1>1, <1>3, <2>2 DEF Queued
    <2> QED BY <2>1, <2>2
  <1>5. \A i, j \in DOMAIN done' : done'[i].corr = done'[j].corr => i = j
    BY <1>1 DEF Accounted, JobsAccounted
  <1>6. JobsAccounted'
    BY <1>2, <1>4, <1>5 DEF Accounted, JobsAccounted
  <1>7. Cardinality(jobs') = Cardinality(jobs) - 1 /\ Cardinality(jobs) \in Nat
    BY <1>2, FiniteParts, FS_RemoveElement DEF TypeOK
  <1>8. JobsCounted'
    <2>1. Cardinality(Alive) \in Nat
      BY FiniteParts DEF Alive
    <2> QED BY <1>1, <1>2, <1>7, <2>1, RuntimeAssumption DEF Accounted, JobsCounted
  <1> QED
    BY <1>2, <1>6, <1>8 DEF Accounted

(* Only new jobs add to the live goroutines, and only while it serves. *)
LEMMA StepAccounted ==
  ASSUME TypeOK, Accounted, [Next]_vars
  PROVE  Accounted' /\ (Alive' \subseteq Alive \/ pc = "poll")
  <1>1. ASSUME NEW c \in Correlations, HandlerReturns(c) PROVE Accounted' /\ Alive' \subseteq Alive
    BY <1>1, ReturnsAccounted
  <1>2. ASSUME NEW c \in Correlations, SendResult(c) PROVE Accounted' /\ Alive' \subseteq Alive
    BY <1>2, SendAccounted
  <1>3. CASE FinishModuleWork
    BY <1>3, TakeAccounted DEF FinishModuleWork
  <1>4. CASE Shutdown
    <2>1. CASE UNCHANGED accounting
      BY <2>1, QuietAccounted
    <2>2. CASE ~UNCHANGED accounting
      BY <1>4, <2>2, TakeAccounted DEF Shutdown, accounting
    <2> QED BY <2>1, <2>2
  <1>5. CASE OnEvent
    <2> DEFINE e == Head(inbox)
    <2>1. CASE OnRequest(e)
      <3>1. inbox \in Seq(Event) /\ inbox # <<>>
        BY <2>1 DEF TypeOK, OnRequest, Poll
      <3>2. e \in Event
        BY <3>1, HeadInSeq
      <3>3. e.corr \in Correlations
        BY <3>2 DEF Event
      <3> QED
        BY <2>1, <3>3, StartAccounted DEF OnRequest, Poll, Accepted, Invalid, Full
    <2>2. CASE ~OnRequest(e)
      BY <1>5, <2>2, QuietAccounted DEF OnEvent, accounting, OnCancel, OnOther, OnInvalid,
         OnNoRoom, OnOverflow, OnFragment, OnRefused, Refuse, handlers
    <2> QED BY <2>1, <2>2
  <1>6. CASE Reply \/ NoResult \/ ContextLive \/ ContextCancelled \/ EpochEnds
             \/ EpochSame \/ PollEmpty \/ Environment \/ UNCHANGED vars
    <2>1. UNCHANGED accounting
      BY <1>6 DEF accounting, handlers, loop, vars, Reply, Environment, ReplyFragment,
         ReplyWouldBlock, ReplyRetry, ReplyFails, NoResult, ContextLive, ContextCancelled,
         EpochEnds, EpochSame, PollEmpty, Deliver, TakeReply, ChangeEpoch, CancelContext, Tick
    <2> QED BY <2>1, QuietAccounted
  <1> QED
    BY <1>1, <1>2, <1>3, <1>4, <1>5, <1>6 DEF Next, Loop, Serve, Handler

(* No event puts a correlation into both tables or one assembly too many. *)
LEMMA AssemblyStep ==
  ASSUME TypeOK, AssemblyOrJob, [Next]_vars
  PROVE  AssemblyOrJob'
  <1>1. ASSUME assemblies' \subseteq assemblies, assemblies' \cap jobs' = {}
        PROVE  AssemblyOrJob'
    <2>1. IsFiniteSet(assemblies) /\ Cardinality(assemblies) \in Nat
      BY FiniteParts DEF TypeOK
    <2>2. Cardinality(assemblies') <= Cardinality(assemblies) /\ Cardinality(assemblies') \in Nat
      BY <1>1, <2>1, FS_Subset, FS_CardinalityType
    <2> QED BY <1>1, <2>1, <2>2, RuntimeAssumption DEF AssemblyOrJob
  <1>2. CASE OnEvent
    <2> DEFINE e == Head(inbox)
    <2>1. CASE OnFragment(e)
      <3>1. e.corr \notin jobs /\ jobs' = jobs /\ assemblies' = assemblies \cup {e.corr}
        BY <2>1 DEF OnFragment, Keep, Accepted, Invalid
      <3>2. CASE e.corr \in assemblies
        BY <1>1, <3>1, <3>2 DEF AssemblyOrJob
      <3>3. CASE e.corr \notin assemblies
        <4>1. IsFiniteSet(assemblies) /\ Cardinality(assemblies) \in Nat
          BY FiniteParts DEF TypeOK
        <4>2. Cardinality(assemblies') = Cardinality(assemblies) + 1
          BY <3>1, <3>3, <4>1, FS_AddElement
        <4>3. ~(Cardinality(assemblies) >= MaxInFlight)
          BY <2>1, <3>3 DEF OnFragment, Accepted, NoRoom
        <4> QED BY <3>1, <4>1, <4>2, <4>3, RuntimeAssumption DEF AssemblyOrJob
      <3> QED BY <3>2, <3>3
    <2>2. CASE ~OnFragment(e)
      <3>1. assemblies' \subseteq assemblies /\ assemblies' \cap jobs' = {}
        BY <1>2, <2>2 DEF AssemblyOrJob, OnEvent, OnCancel, OnOther, OnInvalid,
           OnNoRoom, OnOverflow, OnRefused, OnRequest, Refuse, Forget
      <3> QED BY <1>1, <3>1
    <2> QED BY <2>1, <2>2
  <1>3. CASE ~OnEvent
    <2>1. assemblies' = assemblies /\ jobs' \subseteq jobs
      BY <1>3 DEF Next, Loop, Serve, Handler, loop, vars, Reply, Environment, ReplyFragment,
         ReplyWouldBlock, ReplyRetry, ReplyFails, FinishModuleWork, NoResult, ContextLive,
         ContextCancelled, Shutdown, EpochEnds, EpochSame, PollEmpty, HandlerReturns,
         SendResult, Deliver, TakeReply, ChangeEpoch, CancelContext, Tick
    <2> QED BY <1>1, <2>1 DEF AssemblyOrJob
  <1> QED BY <1>2, <1>3

(* It returns for the context or the epoch, and cleanly only when idle. *)
LEMMA ServesStep ==
  ASSUME TypeOK, Accounted, ServesUntil, ShutdownHasCause, [Next]_vars
  PROVE  ServesUntil' /\ ShutdownHasCause'
  <1>1. /\ epochChanged => epochChanged'
        /\ ctxDone => ctxDone'
    <2>1. CASE epochChanged' = epochChanged /\ ctxDone' = ctxDone
      BY <2>1
    <2>2. CASE epochChanged' = epochChanged /\ ctxDone' = TRUE
      BY <2>2
    <2>3. CASE epochChanged' = TRUE /\ ctxDone' = ctxDone
      BY <2>3
    <2>4. CASE epochChanged' = TRUE /\ ctxDone' = TRUE
      BY <2>4
    <2> QED BY FlagsOnlyRise, <2>1, <2>2, <2>3, <2>4
  <1>2. Alive' \subseteq Alive \/ pc = "poll"
    BY StepAccounted
  <1>3. CASE pc' = pc /\ returned' = returned
    BY <1>1, <1>2, <1>3 DEF ServesUntil, ShutdownHasCause
  <1>4. CASE Shutdown /\ jobs = {} /\ Return("nil")
    BY <1>1, <1>2, <1>4 DEF ServesUntil, ShutdownHasCause, Shutdown, Return, Accounted, JobsAccounted
  <1>5. CASE EpochEnds \/ ReplyFails
    BY <1>5 DEF ServesUntil, ShutdownHasCause, EpochEnds, ReplyFails, Return, host
  <1>6. CASE ContextCancelled
    BY <1>6 DEF ServesUntil, ShutdownHasCause, ContextCancelled, host
  <1>7. CASE pc' \in Positions \ {"returned", "shutdown"}
    BY <1>7 DEF ServesUntil, ShutdownHasCause, Positions
  <1>8. CASE Loop
    BY <1>3, <1>4, <1>5, <1>6, <1>7, <1>8 DEF Loop, Serve, Reply, ReplyFragment,
       ReplyWouldBlock, ReplyRetry, FinishModuleWork, StartReply, NoResult, ContextLive,
       Shutdown, EpochSame, PollEmpty, OnEvent, OnCancel, OnOther, OnInvalid, OnNoRoom,
       OnOverflow, OnFragment, OnRefused, OnRequest, Poll, Refuse, Continue, Positions
  <1>9. CASE Handler \/ Environment \/ UNCHANGED vars
    BY <1>3, <1>9 DEF Handler, Environment, HandlerReturns, SendResult, Deliver, TakeReply,
       ChangeEpoch, CancelContext, Tick, loop, vars
  <1> QED
    BY <1>8, <1>9 DEF Next

(* Every step keeps the inductive invariant. *)
LEMMA NextIInv == IInv /\ [Next]_vars => IInv'
  <1> SUFFICES ASSUME IInv, [Next]_vars PROVE IInv'
    OBVIOUS
  <1>1. TypeOK'
    <2>1. CASE Next
      BY <2>1, ReplyTypeOK, TopTypeOK, EventTypeOK, OtherTypeOK DEF IInv, Next, Loop, Serve
    <2>2. CASE UNCHANGED vars
      BY <2>2 DEF IInv, TypeOK, vars, host, loop, handlers
    <2> QED BY <2>1, <2>2
  <1>2. Accounted' /\ AssemblyOrJob' /\ ServesUntil' /\ ShutdownHasCause'
    BY StepAccounted, AssemblyStep, ServesStep DEF IInv, Accounted
  <1> QED
    BY <1>1, <1>2 DEF IInv, Accounted

(***************************************************************************)
(* For every host and every handler: the jobs table is exact at all times. *)
(***************************************************************************)
THEOREM JobsAreAccounted == Spec => []JobsAccounted
  <1>1. IInv => JobsAccounted
    BY DEF IInv
  <1> QED BY InitIInv, NextIInv, <1>1, PTL DEF Spec

(***************************************************************************)
(* No handler goroutine can block on the result channel, not even after    *)
(* the loop has left: the channel always has room for all of them.         *)
(***************************************************************************)
THEOREM HandlersNeverBlock == Spec => []DoneHasRoom
  <1>1. IInv => DoneHasRoom
    BY FiniteParts DEF IInv, JobsCounted, DoneHasRoom
  <1> QED BY InitIInv, NextIInv, <1>1, PTL DEF Spec

(***************************************************************************)
(* No correlation is assembled while it is worked on, and the assemblies   *)
(* never exceed the limit.                                                 *)
(***************************************************************************)
THEOREM AssembledOrWorkedOn == Spec => []AssemblyOrJob
  <1>1. IInv => AssemblyOrJob
    BY DEF IInv
  <1> QED BY InitIInv, NextIInv, <1>1, PTL DEF Spec

(***************************************************************************)
(* The module serves until its context or the host's epoch ends, whatever  *)
(* events arrive, and a clean end for the context leaves no handler.       *)
(***************************************************************************)
THEOREM ServesUntilTold == Spec => []ServesUntil
  <1>1. IInv => ServesUntil
    BY DEF IInv
  <1> QED BY InitIInv, NextIInv, <1>1, PTL DEF Spec

-----------------------------------------------------------------------------
(***************************************************************************)
(* ModuleCall.                                                             *)
(***************************************************************************)

(* v, of n frames, is what call c sees of the ring s, of m frames: its j-th frame is
   at place f[j] of the ring. *)
Places(f, v, n, s, m, c) ==
  /\ f \in [1 .. n -> 1 .. m]
  /\ \A j \in 1 .. n : f[j] \in 1 .. m /\ s[f[j]].corr = c /\ v[j] = s[f[j]]
  /\ \A i, j \in 1 .. n : i < j => f[i] < f[j]
  /\ \A i \in 1 .. m : s[i].corr = c => \E j \in 1 .. n : f[j] = i

View(v, s, c) == \E f : Places(f, v, Len(v), s, Len(s), c)

(* The i-th fragment of a request. *)
Fragment(m, i) ==
  [corr |-> m.corr, type |-> "request", ok |-> TRUE, deadline |-> m.deadline,
   body |-> <<i>>, more |-> i < m.frags]

(* What the reply under way still owes call c. *)
Left(c) == IF reply.corr = c THEN reply.left ELSE 0

(* The module has the first p fragments of the request. *)
Assembled(c, p) ==
  IF p = 0 THEN c \notin assemblies /\ partial[c] = NoPartial
  ELSE c \in assemblies /\ partial[c] = [deadline |-> call[Owner[c]].deadline, body |-> Parts(p)]

(* In the phases D and O are what the call sees of down and of outbox, the way of
   its answer, I and U what it sees of inbox and of up, the way of its request. *)
Fresh(c, D, O, I, U) ==
  /\ D = <<>> /\ O = <<>> /\ I = <<>> /\ U = <<>>
  /\ c \notin jobs /\ c \notin refused /\ reply.corr # c /\ Assembled(c, 0)

Asking(c, D, O, I, U) ==
  /\ D = <<>> /\ O = <<>> /\ body[Owner[c]] = 0
  /\ c \notin jobs /\ c \notin refused /\ reply.corr # c
  /\ \E p \in 0 .. call[Owner[c]].sent :
       /\ Assembled(c, p)
       /\ p + Len(I) + Len(U) = call[Owner[c]].sent
       /\ \A j \in DOMAIN I : I[j] = Fragment(call[Owner[c]], p + j)
       /\ \A j \in DOMAIN U : U[j] = Fragment(call[Owner[c]], p + Len(I) + j)

Working(c, D, O, I, U) ==
  /\ D = <<>> /\ O = <<>> /\ I = <<>> /\ U = <<>> /\ body[Owner[c]] = 0
  /\ c \in jobs /\ reply.corr # c
  /\ at[Owner[c]] = "await" /\ handled[c] = Parts(call[Owner[c]].frags)

Whole(c) == handled[c] \in {Parts(n) : n \in 1 .. MaxFrags}

(* Every part of the answer is on its way, only the last one without more. *)
Answering(c, D, O, I, U) ==
  LET n == Len(D) + Len(O) + Left(c) IN
  /\ I = <<>> /\ U = <<>> /\ c \notin jobs
  /\ at[Owner[c]] = "await" /\ Whole(c)
  /\ reply.corr = c => reply.status = "OK" /\ reply.left >= 1
  /\ answered[c] = body[Owner[c]] + n /\ answered[c] <= MaxChunks
  /\ \A j \in DOMAIN D : D[j].status = "OK" /\ (D[j].more <=> j < n)
  /\ \A j \in DOMAIN O : O[j].status = "OK" /\ (O[j].more <=> Len(D) + j < n)

(* The next frame the call gets is an error. *)
Failing(c, D, O) ==
  \/ D # <<>> /\ D[1].status # "OK"
  \/ D = <<>> /\ O # <<>> /\ O[1].status # "OK"
  \/ D = <<>> /\ O = <<>> /\ reply.corr = c /\ reply.status # "OK"

(* The call gets nothing that would end it well. *)
Reaped(c, D) ==
  /\ Owner[c] \in reaped
  /\ \A j \in DOMAIN D : D[j].status = "OK" => D[j].more
  /\ body[Owner[c]] + Len(D) <= MaxChunks

Lost(c, D, O) ==
  pc \in {"shutdown", "returned"} /\ reply.corr # c /\ D = <<>> /\ O = <<>>

(* The call was answered: nothing of its request is left. *)
Over(c, I, U) == I = <<>> /\ U = <<>> /\ Whole(c)

Live(c) == call[Owner[c]].corr = c /\ at[Owner[c]] \in {"send", "await"}

Phase(c, D, O, I, U) ==
  /\ ~Started(c) => Fresh(c, D, O, I, U)
  /\ Live(c) => \/ Asking(c, D, O, I, U) \/ Working(c, D, O, I, U) \/ Answering(c, D, O, I, U)
                \/ Failing(c, D, O) \/ Reaped(c, D) \/ Lost(c, D, O)
  /\ result[c] = "whole" => Over(c, I, U)

-----------------------------------------------------------------------------
(* What Append and Tail do, in plain numbers. *)
LEMMA Longer ==
  ASSUME NEW S, NEW s \in Seq(S), NEW e \in S,
         NEW t, t = Append(s, e), NEW m, m = Len(s)
  PROVE  /\ m \in Nat /\ Len(t) = m + 1 /\ DOMAIN s = 1 .. m /\ DOMAIN t = 1 .. m + 1
         /\ t[m + 1] = e /\ \A j \in 1 .. m : t[j] = s[j]
  OBVIOUS

LEMMA Shorter ==
  ASSUME NEW S, NEW s \in Seq(S), s # <<>>,
         NEW t, t = Tail(s), NEW m, m = Len(s)
  PROVE  /\ m \in Nat \ {0} /\ Len(t) = m - 1 /\ DOMAIN s = 1 .. m /\ DOMAIN t = 1 .. m - 1
         /\ Head(s) = s[1] /\ \A j \in 1 .. m - 1 : t[j] = s[j + 1]
  OBVIOUS

(* A ring that gets a frame of the call shows it at the end of the view. *)
LEMMA ViewGrows ==
  ASSUME NEW S, NEW s \in Seq(S), NEW v \in Seq(S), NEW c, NEW e \in S,
         View(v, s, c), e.corr = c
  PROVE  View(Append(v, e), Append(s, e), c)
  <1>1a. PICK w, n : w = Append(v, e) /\ n = Len(v)
    OBVIOUS
  <1>1. /\ n \in Nat /\ Len(w) = n + 1 /\ DOMAIN v = 1 .. n /\ DOMAIN w = 1 .. n + 1
        /\ w[n + 1] = e /\ \A j \in 1 .. n : w[j] = v[j]
    BY <1>1a, Longer
  <1>2a. PICK t, m : t = Append(s, e) /\ m = Len(s)
    OBVIOUS
  <1>2. /\ m \in Nat /\ Len(t) = m + 1 /\ DOMAIN s = 1 .. m /\ DOMAIN t = 1 .. m + 1
        /\ t[m + 1] = e /\ \A j \in 1 .. m : t[j] = s[j]
    BY <1>2a, Longer
  <1>3. PICK f : Places(f, v, n, s, m, c)
    BY <1>1, <1>2, <1>1a, <1>2a DEF View
  <1> DEFINE g == [j \in 1 .. n + 1 |-> IF j = n + 1 THEN m + 1 ELSE f[j]]
  <1>4. g \in [1 .. n + 1 -> 1 .. m + 1] /\ g[n + 1] = m + 1
        /\ \A j \in 1 .. n : g[j] = f[j] /\ f[j] \in 1 .. m
    BY <1>1, <1>2, <1>3 DEF Places
  <1> HIDE DEF g
  <1>5. ASSUME NEW j \in 1 .. n + 1
        PROVE  g[j] \in 1 .. m + 1 /\ t[g[j]].corr = c /\ w[j] = t[g[j]]
    <2>1. CASE j = n + 1
      BY <1>1, <1>2, <1>4, <2>1
    <2>2. CASE j \in 1 .. n
      <3>1. g[j] \in 1 .. m /\ g[j] = f[j] /\ t[g[j]] = s[g[j]] /\ w[j] = v[j]
        BY <1>1, <1>2, <1>4, <2>2
      <3> QED BY <1>2, <1>3, <2>2, <3>1 DEF Places
    <2> QED BY <1>1, <2>1, <2>2
  <1>6. \A i, j \in 1 .. n + 1 : i < j => g[i] < g[j]
    BY <1>1, <1>2, <1>3, <1>4 DEF Places
  <1>7. ASSUME NEW i \in 1 .. m + 1, t[i].corr = c PROVE \E j \in 1 .. n + 1 : g[j] = i
    <2>1. CASE i = m + 1
      BY <1>1, <1>4, <2>1
    <2>2. CASE i \in 1 .. m
      <3>1. PICK j \in 1 .. n : f[j] = i
        BY <1>2, <1>3, <1>7, <2>2 DEF Places
      <3> QED BY <1>1, <1>4, <3>1
    <2> QED BY <1>2, <2>1, <2>2
  <1>8. Places(g, w, n + 1, t, m + 1, c)
    BY <1>4, <1>5, <1>6, <1>7 DEF Places
  <1> QED BY <1>1, <1>2, <1>8, <1>1a, <1>2a DEF View

(* A frame of another call leaves the view alone. *)
LEMMA ViewSkips ==
  ASSUME NEW S, NEW s \in Seq(S), NEW v \in Seq(S), NEW c, NEW e \in S,
         View(v, s, c), e.corr # c
  PROVE  View(v, Append(s, e), c)
  <1>1. PICK n : n = Len(v) /\ n \in Nat /\ DOMAIN v = 1 .. n
    OBVIOUS
  <1>2a. PICK t, m : t = Append(s, e) /\ m = Len(s)
    OBVIOUS
  <1>2. /\ m \in Nat /\ Len(t) = m + 1 /\ DOMAIN s = 1 .. m /\ DOMAIN t = 1 .. m + 1
        /\ t[m + 1] = e /\ \A j \in 1 .. m : t[j] = s[j]
    BY <1>2a, Longer
  <1>3. PICK f : Places(f, v, n, s, m, c)
    BY <1>1, <1>2, <1>2a DEF View
  <1>4. f \in [1 .. n -> 1 .. m + 1]
    BY <1>1, <1>2, <1>3 DEF Places
  <1>5. \A j \in 1 .. n : f[j] \in 1 .. m + 1 /\ t[f[j]].corr = c /\ v[j] = t[f[j]]
    BY <1>1, <1>2, <1>3 DEF Places
  <1>6. \A i \in 1 .. m + 1 : t[i].corr = c => i \in 1 .. m /\ s[i].corr = c
    BY <1>2
  <1>7. Places(f, v, n, t, m + 1, c)
    BY <1>3, <1>4, <1>5, <1>6 DEF Places
  <1> QED BY <1>1, <1>2, <1>7, <1>2a DEF View

(* The first frame of a ring is the first of its call's view. *)
LEMMA ViewShrinks ==
  ASSUME NEW S, NEW s \in Seq(S), NEW v \in Seq(S), NEW c,
         View(v, s, c), s # <<>>, Head(s).corr = c
  PROVE  v # <<>> /\ Head(v) = Head(s) /\ v[1] = Head(s) /\ View(Tail(v), Tail(s), c)
  <1>1a. PICK t, m : t = Tail(s) /\ m = Len(s)
    OBVIOUS
  <1>1. /\ m \in Nat \ {0} /\ Len(t) = m - 1 /\ DOMAIN s = 1 .. m /\ DOMAIN t = 1 .. m - 1
        /\ Head(s) = s[1] /\ \A j \in 1 .. m - 1 : t[j] = s[j + 1]
    BY <1>1a, Shorter
  <1>2. PICK l : l = Len(v) /\ l \in Nat /\ DOMAIN v = 1 .. l
    OBVIOUS
  <1>3. PICK f : Places(f, v, l, s, m, c)
    BY <1>1, <1>2, <1>1a DEF View
  <1>4. PICK k \in 1 .. l : f[k] = 1
    BY <1>1, <1>3 DEF Places
  <1>5. f[1] \in 1 .. m /\ 1 \in 1 .. l /\ v[1] = s[f[1]]
    BY <1>2, <1>3, <1>4 DEF Places
  <1>6. f[1] = 1
    <2>1. 1 < k => f[1] < f[k]
      BY <1>3, <1>5 DEF Places
    <2> QED BY <1>1, <1>2, <1>4, <1>5, <2>1
  <1>7. v # <<>> /\ v[1] = s[1]
    BY <1>2, <1>5, <1>6
  <1>8a. PICK w, n : w = Tail(v) /\ n = Len(v)
    OBVIOUS
  <1>8. /\ n \in Nat \ {0} /\ Len(w) = n - 1 /\ DOMAIN v = 1 .. n /\ DOMAIN w = 1 .. n - 1
        /\ Head(v) = v[1] /\ \A j \in 1 .. n - 1 : w[j] = v[j + 1]
    BY <1>8a, <1>7, Shorter
  <1>9. Places(f, v, n, s, m, c)
    <2>1. n = l
      <3>1. n \in 1 .. l /\ l \in 1 .. n
        BY <1>2, <1>5, <1>8
      <3> QED BY <1>2, <1>8, <3>1
    <2> QED BY <1>3, <2>1
  <1>10. \A j \in 1 .. n - 1 : f[j + 1] \in 2 .. m /\ j + 1 \in 1 .. n
    <2> SUFFICES ASSUME NEW j \in 1 .. n - 1 PROVE f[j + 1] \in 2 .. m /\ j + 1 \in 1 .. n
      OBVIOUS
    <2>1. j + 1 \in 1 .. n /\ 1 \in 1 .. n /\ 1 < j + 1
      BY <1>8
    <2>2. f[j + 1] \in 1 .. m /\ f[1] < f[j + 1]
      BY <1>9, <2>1 DEF Places
    <2> QED BY <1>1, <1>6, <2>1, <2>2
  <1> DEFINE g == [j \in 1 .. n - 1 |-> f[j + 1] - 1]
  <1>11. g \in [1 .. n - 1 -> 1 .. m - 1] /\ \A j \in 1 .. n - 1 : g[j] = f[j + 1] - 1
    BY <1>1, <1>8, <1>10
  <1> HIDE DEF g
  <1>12. ASSUME NEW j \in 1 .. n - 1 PROVE g[j] \in 1 .. m - 1 /\ t[g[j]].corr = c /\ w[j] = t[g[j]]
    <2>1. g[j] \in 1 .. m - 1 /\ g[j] + 1 = f[j + 1] /\ j + 1 \in 1 .. n
      BY <1>1, <1>10, <1>11
    <2>2. t[g[j]] = s[f[j + 1]] /\ w[j] = v[j + 1]
      BY <1>1, <1>8, <2>1
    <2> QED BY <1>9, <2>1, <2>2 DEF Places
  <1>13. ASSUME NEW i \in 1 .. n - 1, NEW j \in 1 .. n - 1, i < j PROVE g[i] < g[j]
    <2>1. i + 1 \in 1 .. n /\ j + 1 \in 1 .. n /\ i + 1 < j + 1
      BY <1>8, <1>13
    <2>2. f[i + 1] < f[j + 1]
      BY <1>9, <2>1 DEF Places
    <2> QED BY <1>1, <1>10, <1>11, <2>2
  <1>14. ASSUME NEW i \in 1 .. m - 1, t[i].corr = c PROVE \E j \in 1 .. n - 1 : g[j] = i
    <2>1. i + 1 \in 1 .. m /\ s[i + 1].corr = c
      BY <1>1, <1>14
    <2>2. PICK j \in 1 .. n : f[j] = i + 1
      BY <1>9, <2>1 DEF Places
    <2>3. j # 1
      BY <1>6, <2>1, <2>2
    <2>4. j - 1 \in 1 .. n - 1 /\ (j - 1) + 1 = j
      BY <1>8, <2>2, <2>3
    <2>5. g[j - 1] = f[(j - 1) + 1] - 1
      BY <1>11, <2>4
    <2>6. g[j - 1] = i
      BY <2>2, <2>4, <2>5
    <2> QED BY <2>4, <2>6
  <1>15. Places(g, w, n - 1, t, m - 1, c)
    BY <1>11, <1>12, <1>13, <1>14 DEF Places
  <1>16. View(w, t, c)
    BY <1>1, <1>8, <1>15, <1>1a, <1>8a DEF View
  <1>17. View(Tail(v), Tail(s), c)
    BY <1>1a, <1>8a, <1>16, Zenon
  <1> QED BY <1>1, <1>7, <1>8, <1>17

(* The first frame of another call leaves the view alone. *)
LEMMA ViewStays ==
  ASSUME NEW S, NEW s \in Seq(S), NEW v \in Seq(S), NEW c,
         View(v, s, c), s # <<>>, Head(s).corr # c
  PROVE  View(v, Tail(s), c)
  <1>1a. PICK t, m : t = Tail(s) /\ m = Len(s)
    OBVIOUS
  <1>1. /\ m \in Nat \ {0} /\ Len(t) = m - 1 /\ DOMAIN s = 1 .. m /\ DOMAIN t = 1 .. m - 1
        /\ Head(s) = s[1] /\ \A j \in 1 .. m - 1 : t[j] = s[j + 1]
    BY <1>1a, Shorter
  <1>2. PICK n : n = Len(v) /\ n \in Nat /\ DOMAIN v = 1 .. n
    OBVIOUS
  <1>3. PICK f : Places(f, v, n, s, m, c)
    BY <1>1, <1>2, <1>1a DEF View
  <1>4. \A j \in 1 .. n : f[j] \in 2 .. m
    BY <1>1, <1>2, <1>3 DEF Places
  <1> DEFINE g == [j \in 1 .. n |-> f[j] - 1]
  <1>5. g \in [1 .. n -> 1 .. m - 1] /\ \A j \in 1 .. n : g[j] = f[j] - 1
    BY <1>1, <1>2, <1>4
  <1> HIDE DEF g
  <1>6. ASSUME NEW j \in 1 .. n PROVE g[j] \in 1 .. m - 1 /\ t[g[j]].corr = c /\ v[j] = t[g[j]]
    <2>1. g[j] \in 1 .. m - 1 /\ g[j] + 1 = f[j]
      BY <1>1, <1>4, <1>5
    <2>2. t[g[j]] = s[f[j]]
      BY <1>1, <2>1
    <2> QED BY <1>3, <2>1, <2>2 DEF Places
  <1>7. \A i, j \in 1 .. n : i < j => g[i] < g[j]
    BY <1>1, <1>3, <1>4, <1>5 DEF Places
  <1>8. ASSUME NEW i \in 1 .. m - 1, t[i].corr = c PROVE \E j \in 1 .. n : g[j] = i
    <2>1. i + 1 \in 1 .. m /\ s[i + 1].corr = c
      BY <1>1, <1>8
    <2>2. PICK j \in 1 .. n : f[j] = i + 1
      BY <1>3, <2>1 DEF Places
    <2>3. g[j] = i
      BY <1>5, <2>1, <2>2
    <2> QED BY <2>3
  <1>9. Places(g, v, n, t, m - 1, c)
    BY <1>5, <1>6, <1>7, <1>8 DEF Places
  <1> QED BY <1>1, <1>2, <1>9, <1>1a DEF View

LEMMA ViewStarts ==
  ASSUME NEW c
  PROVE  View(<<>>, <<>>, c)
  <1>1. PICK e : e = <<>> /\ Len(e) = 0
    OBVIOUS
  <1>2. [j \in 1 .. 0 |-> 0] \in [1 .. 0 -> 1 .. 0] /\ 1 .. 0 = {}
    OBVIOUS
  <1>3. Places([j \in 1 .. 0 |-> 0], e, 0, e, 0, c)
    BY <1>2 DEF Places
  <1> QED BY <1>1, <1>3 DEF View
-----------------------------------------------------------------------------
OutFrame == [corr : Correlations, status : Statuses, more : BOOLEAN]
DownFrame == [corr : Correlations, status : Statuses \cup {"Refused"}, more : BOOLEAN]
Calling == [corr : Correlations \cup {0}, frags : 1 .. MaxFrags, sent : Nat, deadline : Deadlines]

(* A caller at work has one of its own calls in hand, which has not ended. *)
InHand(k) ==
  /\ at[k] = "idle" => call[k] = NoCall /\ body[k] = 0
  /\ at[k] # "idle" => /\ call[k].corr \in Correlations /\ Owner[call[k].corr] = k
                       /\ result[call[k].corr] = "none"
  /\ at[k] = "send" => call[k].sent < call[k].frags
  /\ at[k] = "await" => call[k].sent = call[k].frags
  /\ call[k].sent <= call[k].frags

CallersOK ==
  /\ at \in [Callers -> {"idle", "send", "await", "cancel"}]
  /\ call \in [Callers -> Calling] /\ body \in [Callers -> Nat]
  /\ up \in [Callers -> Seq(Event)] /\ down \in [Callers -> Seq(DownFrame)]
  /\ reaped \subseteq Callers
  /\ result \in [Correlations -> {"none", "unsent", "failed", "whole", "wrong"}]
  /\ \A k \in Callers : InHand(k)

(* No reply is under way while the loop does anything else. *)
ReplyIdle == pc \notin {"reply", "blocked", "returned"} => reply = NoReply

(* An answer has a part at least. *)
SomeParts ==
  /\ \A i \in DOMAIN done : done[i].chunks \in 1 .. MaxChunks
  /\ \A c \in Correlations : goroutine[c] = "sending" => outcome[c].chunks \in 1 .. MaxChunks

ServerOK == TypeOK /\ Accounted /\ ReplyIdle /\ SomeParts

(* The module's own steps keep its tables, whoever calls it. *)
LEMMA ModuleTypes ==
  ASSUME TypeOK, Accounted, Next
  PROVE  TypeOK' /\ Accounted'
  BY ReplyTypeOK, TopTypeOK, EventTypeOK, OtherTypeOK, StepAccounted DEF Next, Loop, Serve

LEMMA ModuleIdle ==
  ASSUME TypeOK, ReplyIdle, Loop \/ Handler
  PROVE  ReplyIdle'
  <1>1. CASE ReplyFragment
    BY <1>1 DEF ReplyIdle, ReplyFragment
  <1>2. CASE ReplyWouldBlock \/ ReplyRetry \/ ReplyFails
    BY <1>2 DEF ReplyIdle, ReplyWouldBlock, ReplyRetry, ReplyFails, Return
  <1>3. CASE FinishModuleWork
    BY <1>3 DEF ReplyIdle, FinishModuleWork, StartReply
  <1>4. CASE NoResult \/ ContextLive \/ ContextCancelled \/ Shutdown \/ EpochEnds \/ EpochSame
             \/ PollEmpty
    BY <1>4 DEF ReplyIdle, NoResult, ContextLive, ContextCancelled, Shutdown, EpochEnds,
                EpochSame, PollEmpty, Return
  <1>5. CASE OnEvent
    <2>1. pc = "poll" /\ (pc' = "reply" \/ reply' = reply)
      BY <1>5 DEF OnEvent, Poll, OnCancel, OnOther, OnInvalid, OnNoRoom, OnOverflow, OnFragment,
                  OnRefused, OnRequest, Refuse, StartReply, Continue
    <2> QED BY <2>1 DEF ReplyIdle
  <1>6. CASE Handler
    BY <1>6 DEF ReplyIdle, Handler, HandlerReturns, SendResult, loop
  <1> QED BY <1>1, <1>2, <1>3, <1>4, <1>5, <1>6 DEF Loop, Reply, Serve

LEMMA ModuleParts ==
  ASSUME TypeOK, SomeParts, Loop \/ Handler
  PROVE  SomeParts'
  <1>1. ASSUME done # <<>>, done' = Tail(done) PROVE \A i \in DOMAIN done' : done'[i].chunks \in 1 .. MaxChunks
    BY <1>1, HeadInSeq DEF TypeOK, SomeParts
  <1>2. CASE FinishModuleWork
    BY <1>1, <1>2 DEF FinishModuleWork, SomeParts
  <1>3. CASE Shutdown
    BY <1>1, <1>3 DEF Shutdown, SomeParts
  <1>4. ASSUME NEW c \in Correlations, HandlerReturns(c) PROVE SomeParts'
    <2>1. done' = done /\ goroutine' = [goroutine EXCEPT ![c] = "sending"]
      BY <1>4 DEF HandlerReturns
    <2>2. PICK given \in HandlerStatuses, n \in 1 .. MaxChunks :
             outcome' = [outcome EXCEPT ![c] =
               [status |-> IF work[c].cancelled THEN "Cancelled"
                           ELSE IF Expired(work[c].deadline, clock) THEN "DeadlineExceeded"
                           ELSE given,
                chunks |-> n]]
      BY <1>4, Zenon DEF HandlerReturns
    <2>3. outcome'[c].chunks = n /\ \A d \in Correlations \ {c} : outcome'[d] = outcome[d]
      BY <2>2 DEF TypeOK
    <2> QED BY <2>1, <2>3 DEF SomeParts, TypeOK
  <1>5. ASSUME NEW c \in Correlations, SendResult(c) PROVE SomeParts'
    <2>1. PICK r : r = [corr |-> c, status |-> outcome[c].status, chunks |-> outcome[c].chunks]
      OBVIOUS
    <2>2. r \in Result /\ done' = Append(done, r) /\ r.chunks \in 1 .. MaxChunks
      BY <1>5, <2>1 DEF SendResult, SomeParts, TypeOK, Result
    <2>3. \A i \in DOMAIN done' : done'[i] = r \/ (i \in DOMAIN done /\ done'[i] = done[i])
      BY <2>2, Longer DEF TypeOK
    <2>4. \A d \in Correlations \ {c} : outcome'[d] = outcome[d] /\ goroutine'[d] = goroutine[d]
      BY <1>5 DEF SendResult, TypeOK
    <2>5. goroutine'[c] = "none"
      BY <1>5 DEF SendResult, TypeOK
    <2> QED BY <2>2, <2>3, <2>4, <2>5 DEF SomeParts
  <1>6. CASE OnEvent
    <2> DEFINE e == Head(inbox)
    <2>1. e.corr \in Correlations
      <3>1. inbox \in Seq(Event) /\ inbox # <<>>
        BY <1>6 DEF OnEvent, TypeOK
      <3>2. e \in Event
        BY <3>1, HeadInSeq
      <3> QED BY <3>2 DEF Event
    <2> HIDE DEF e
    <2>2. UNCHANGED <<outcome, done>> /\
          (goroutine' = goroutine \/ goroutine' = [goroutine EXCEPT ![e.corr] = "handling"])
      BY <1>6 DEF OnEvent, OnCancel, OnOther, OnInvalid, OnNoRoom, OnOverflow, OnFragment,
                  OnRefused, OnRequest, Refuse, handlers, e
    <2> QED BY <2>1, <2>2 DEF SomeParts, TypeOK
  <1>7. CASE Reply \/ NoResult \/ ContextLive \/ ContextCancelled \/ EpochEnds \/ EpochSame \/ PollEmpty
    <2>1. UNCHANGED <<outcome, done, goroutine>>
      BY <1>7 DEF Reply, ReplyFragment, ReplyWouldBlock, ReplyRetry, ReplyFails, NoResult, ContextLive,
                  ContextCancelled, EpochEnds, EpochSame, PollEmpty, handlers
    <2> QED BY <2>1 DEF SomeParts
  <1> QED BY <1>2, <1>3, <1>4, <1>5, <1>6, <1>7 DEF Loop, Serve, Handler

(* Whatever a ring of the module loses or gets, its tables stay as they are. *)
LEMMA RingTypes ==
  ASSUME ServerOK, UNCHANGED <<loop, handlers, hasHandler, delivered, epochChanged, ctxDone, clock>>,
         inbox' \in Seq(Event), outbox' \in Seq(OutFrame)
  PROVE  ServerOK'
  <1>1. TypeOK'
    BY DEF ServerOK, TypeOK, loop, handlers, OutFrame
  <1>2. Accounted'
    BY QuietAccounted DEF ServerOK, accounting, loop, handlers
  <1>3. ReplyIdle' /\ SomeParts'
    BY DEF ServerOK, ReplyIdle, SomeParts, loop, handlers
  <1> QED BY <1>1, <1>2, <1>3 DEF ServerOK

LEMMA ServerStep ==
  ASSUME ServerOK, CallersOK, [CallNext]_allVars
  PROVE  ServerOK'
  <1>0. inbox \in Seq(Event) /\ outbox \in Seq(OutFrame)
    BY DEF ServerOK, TypeOK, OutFrame
  <1>1. CASE Module
    <2>1. Next /\ (Loop \/ Handler)
      BY <1>1 DEF Module, Next
    <2> QED BY <2>1, ModuleTypes, ModuleIdle, ModuleParts DEF ServerOK
  <1>2. CASE World
    <2>1. UNCHANGED <<loop, handlers>> /\ Next
      BY <1>2 DEF World, ChangeEpoch, CancelContext, Tick, Next, Environment
    <2> QED BY <2>1, ModuleTypes DEF ServerOK, ReplyIdle, SomeParts, loop, handlers
  <1>3. ASSUME NEW k \in Callers, Forward(k) PROVE ServerOK'
    <2>1. up[k] \in Seq(Event) /\ up[k] # <<>>
      BY <1>3 DEF CallersOK, Forward
    <2>2. Head(up[k]) \in Event
      BY <2>1, HeadInSeq
    <2>3. UNCHANGED <<loop, handlers, hasHandler, delivered, epochChanged, ctxDone, clock, outbox>>
      BY <1>3, Zenon DEF Forward
    <2>4. inbox' \in {inbox, Append(inbox, Head(up[k]))}
      BY <1>3 DEF Forward
    <2>5. inbox' \in Seq(Event) /\ outbox' \in Seq(OutFrame)
      BY <1>0, <2>2, <2>3, <2>4
    <2> QED BY <2>3, <2>5, RingTypes
  <1>4. ASSUME NEW k \in Callers, Answer(k) PROVE ServerOK'
    <2>1. outbox' \in Seq(OutFrame) /\ UNCHANGED <<loop, handlers, hasHandler, delivered, epochChanged,
                                                   ctxDone, clock, inbox>>
      BY <1>0, <1>4, HeadInSeq DEF Answer
    <2> QED BY <1>0, <2>1, RingTypes
  <1>5. ASSUME NEW k \in Callers, Caller(k) \/ Reap(k) PROVE ServerOK'
    <2>1. UNCHANGED vars
      BY <1>5 DEF Caller, Reap, serverVars
    <2> QED BY <1>0, <2>1, RingTypes DEF vars, host
  <1>6. CASE UNCHANGED allVars
    BY <1>0, <1>6, RingTypes DEF allVars, vars, host
  <1> QED BY <1>1, <1>2, <1>3, <1>4, <1>5, <1>6 DEF CallNext, Router

(* Each step of a caller keeps what it has in hand. *)
LEMMA OneCaller ==
  ASSUME CallersOK, NEW k \in Callers,
         \A l \in Callers \ {k} : at'[l] = at[l] /\ call'[l] = call[l] /\ body'[l] = body[l],
         at' \in [Callers -> {"idle", "send", "await", "cancel"}],
         call' \in [Callers -> Calling], body' \in [Callers -> Nat],
         up' \in [Callers -> Seq(Event)], down' \in [Callers -> Seq(DownFrame)],
         reaped' \subseteq Callers,
         result' \in [Correlations -> {"none", "unsent", "failed", "whole", "wrong"}],
         \A c \in Correlations : Owner[c] # k => result'[c] = result[c],
         InHand(k)'
  PROVE  CallersOK'
  <1>1. ASSUME NEW l \in Callers, l # k PROVE InHand(l)'
    <2>1. at'[l] = at[l] /\ call'[l] = call[l] /\ body'[l] = body[l] /\ InHand(l)
      BY <1>1 DEF CallersOK
    <2>2. at[l] # "idle" => result'[call[l].corr] = result[call[l].corr]
      BY <1>1, <2>1 DEF InHand
    <2> QED BY <2>1, <2>2 DEF InHand
  <1> QED BY <1>1 DEF CallersOK

LEMMA EndKeeps ==
  ASSUME CallersOK, NEW k \in Callers, at[k] # "idle",
         NEW how \in {"unsent", "failed", "whole", "wrong"}, End(k, how)
  PROVE  /\ at' \in [Callers -> {"idle", "send", "await", "cancel"}]
         /\ call' \in [Callers -> Calling] /\ body' \in [Callers -> Nat]
         /\ result' \in [Correlations -> {"none", "unsent", "failed", "whole", "wrong"}]
         /\ \A l \in Callers \ {k} : at'[l] = at[l] /\ call'[l] = call[l] /\ body'[l] = body[l]
         /\ at'[k] = "idle" /\ call'[k] = NoCall /\ body'[k] = 0
         /\ result'[call[k].corr] = how /\ Owner[call[k].corr] = k /\ call[k].corr \in Correlations
         /\ \A c \in Correlations : c # call[k].corr => result'[c] = result[c]
         /\ InHand(k)'
  <1>1. NoCall \in Calling
    BY RuntimeAssumption, CallAssumption DEF NoCall, Calling
  <1>2. call[k].corr \in Correlations /\ Owner[call[k].corr] = k
    BY DEF CallersOK, InHand
  <1>3. call' = [call EXCEPT ![k] = NoCall] /\ at' = [at EXCEPT ![k] = "idle"]
        /\ body' = [body EXCEPT ![k] = 0] /\ result' = [result EXCEPT ![call[k].corr] = how]
    BY DEF End
  <1>4. at'[k] = "idle" /\ call'[k] = NoCall /\ body'[k] = 0
    BY <1>3 DEF CallersOK
  <1>5. InHand(k)'
    BY <1>4 DEF InHand, NoCall
  <1> QED BY <1>1, <1>2, <1>3, <1>4, <1>5 DEF CallersOK

LEMMA EndStep ==
  ASSUME CallersOK, NEW k \in Callers, at[k] # "idle",
         NEW how \in {"unsent", "failed", "whole", "wrong"}, End(k, how),
         up' \in [Callers -> Seq(Event)], down' \in [Callers -> Seq(DownFrame)],
         reaped' \subseteq Callers
  PROVE  CallersOK'
  <1>1. ASSUME NEW c \in Correlations, Owner[c] # k PROVE result'[c] = result[c]
    <2>1. Owner[call[k].corr] = k
      BY EndKeeps
    <2>2. \A d \in Correlations : d # call[k].corr => result'[d] = result[d]
      BY EndKeeps
    <2> QED BY <1>1, <2>1, <2>2
  <1>2. /\ at' \in [Callers -> {"idle", "send", "await", "cancel"}]
        /\ call' \in [Callers -> Calling] /\ body' \in [Callers -> Nat]
        /\ result' \in [Correlations -> {"none", "unsent", "failed", "whole", "wrong"}]
        /\ \A l \in Callers \ {k} : at'[l] = at[l] /\ call'[l] = call[l] /\ body'[l] = body[l]
        /\ InHand(k)'
    BY EndKeeps
  <1> QED BY <1>1, <1>2, OneCaller

LEMMA CallerStep ==
  ASSUME CallersOK, NEW k \in Callers, Caller(k)
  PROVE  CallersOK'
  <1>1. CASE Begin(k)
    <2>1. PICK c \in Correlations, n \in 1 .. MaxFrags, d \in Deadlines :
             /\ Owner[c] = k /\ ~Started(c)
             /\ call' = [call EXCEPT ![k] = [corr |-> c, frags |-> n, sent |-> 0, deadline |-> d]]
      BY <1>1 DEF Begin
    <2>2. PICK m : m = [corr |-> c, frags |-> n, sent |-> 0, deadline |-> d]
      OBVIOUS
    <2>3. m \in Calling /\ m.corr = c /\ m.sent = 0 /\ m.frags = n
      BY <2>2 DEF Calling
    <2>4. at' = [at EXCEPT ![k] = "send"] /\ UNCHANGED <<body, up, down, reaped, result>>
      BY <1>1 DEF Begin
    <2>5. call'[k] = m /\ at'[k] = "send" /\ result'[c] = "none"
      BY <2>1, <2>2, <2>4 DEF Started, CallersOK
    <2>6. InHand(k)'
      BY <2>1, <2>3, <2>5, CallAssumption DEF InHand
    <2> QED BY <2>1, <2>2, <2>3, <2>4, <2>6, OneCaller DEF CallersOK
  <1>2. CASE Send(k)
    <2>1. CASE End(k, "unsent") /\ UNCHANGED <<up, down, reaped>>
      <3>1. at[k] # "idle"
        BY <1>2 DEF Send
      <3>3. up' \in [Callers -> Seq(Event)] /\ down' \in [Callers -> Seq(DownFrame)]
            /\ reaped' \subseteq Callers
        BY <2>1 DEF CallersOK
      <3> QED BY <2>1, <3>1, <3>3, EndStep
    <2>2. CASE ~(epochChanged \/ Len(up[k]) >= UpCap)
      <3> DEFINE m == call[k]
                 e == [corr |-> m.corr, type |-> "request", ok |-> TRUE, deadline |-> m.deadline,
                       body |-> <<m.sent + 1>>, more |-> m.sent + 1 < m.frags]
      <3>1. m \in Calling /\ m.corr \in Correlations /\ m.sent + 1 <= m.frags /\ m.frags \in 1 .. MaxFrags
            /\ m.sent \in Nat
        BY <1>2 DEF Send, InHand, Calling, CallersOK
      <3>2. e \in Event
        <4>1. <<m.sent + 1>> \in Bodies
          BY <3>1, CallAssumption
        <4>2. (m.sent + 1 < m.frags) \in BOOLEAN
          OBVIOUS
        <4>3. m.deadline \in Deadlines
          BY <3>1 DEF Calling
        <4> QED BY <3>1, <4>1, <4>2, <4>3 DEF Event
      <3>3. /\ up' = [up EXCEPT ![k] = Append(@, e)] /\ call' = [call EXCEPT ![k].sent = @ + 1]
            /\ at' = [at EXCEPT ![k] = IF m.sent + 1 < m.frags THEN "send" ELSE "await"]
            /\ UNCHANGED <<body, down, reaped, result>>
        BY <1>2, <2>2 DEF Send
      <3> HIDE DEF m, e
      <3>4. up' \in [Callers -> Seq(Event)]
        BY <3>2, <3>3 DEF CallersOK
      <3>5. call' \in [Callers -> Calling] /\ call'[k].corr = m.corr /\ call'[k].sent = m.sent + 1
            /\ call'[k].frags = m.frags
        <4>1. call'[k] = [m EXCEPT !.sent = @ + 1]
          BY <3>3 DEF m, CallersOK
        <4>2. call'[k] \in Calling /\ call'[k].corr = m.corr /\ call'[k].sent = m.sent + 1
              /\ call'[k].frags = m.frags
          BY <3>1, <4>1 DEF Calling
        <4> QED BY <3>3, <4>2 DEF CallersOK
      <3>6. at'[k] = (IF m.sent + 1 < m.frags THEN "send" ELSE "await")
        BY <3>3 DEF CallersOK
      <3>7. InHand(k)'
        BY <1>2, <3>1, <3>3, <3>5, <3>6 DEF InHand, Send, m, CallersOK
      <3> QED BY <3>3, <3>4, <3>5, <3>7, OneCaller DEF CallersOK
    <2> QED BY <1>2, <2>1, <2>2 DEF Send
  <1>3. CASE AwaitFails(k)
    <2>1. at[k] = "await" /\ at' = [at EXCEPT ![k] = "cancel"]
          /\ UNCHANGED <<call, body, up, down, reaped, result>>
      BY <1>3 DEF AwaitFails
    <2>2. InHand(k)'
      BY <2>1 DEF InHand, CallersOK
    <2> QED BY <2>1, <2>2, OneCaller DEF CallersOK
  <1>4. CASE AwaitEvent(k)
    <2>1. down' \in [Callers -> Seq(DownFrame)] /\ UNCHANGED <<up, reaped>> /\ at[k] = "await"
      BY <1>4, HeadInSeq DEF AwaitEvent, CallersOK
    <2>2. CASE UNCHANGED <<at, call, body, result>>
      BY <2>1, <2>2, OneCaller DEF InHand, CallersOK
    <2>3. CASE at' = [at EXCEPT ![k] = "cancel"] /\ UNCHANGED <<call, body, result>>
      <3>1. InHand(k)'
        BY <2>1, <2>3 DEF InHand, CallersOK
      <3> QED BY <2>1, <2>3, <3>1, OneCaller DEF CallersOK
    <2>4. CASE body' = [body EXCEPT ![k] = @ + 1] /\ UNCHANGED <<at, call, result>>
      BY <2>1, <2>4, OneCaller DEF InHand, CallersOK
    <2>5. ASSUME NEW how \in {"whole", "wrong"}, End(k, how) PROVE CallersOK'
      <3>1. at[k] # "idle"
        BY <2>1
      <3>3. up' \in [Callers -> Seq(Event)] /\ reaped' \subseteq Callers
        BY <2>1 DEF CallersOK
      <3> QED BY <2>1, <2>5, <3>1, <3>3, EndStep
    <2> QED BY <1>4, <2>2, <2>3, <2>4, <2>5 DEF AwaitEvent
  <1>5. CASE Cancel(k)
    <2> DEFINE e == [corr |-> call[k].corr, type |-> "cancel", ok |-> FALSE, deadline |-> 0,
                     body |-> <<>>, more |-> FALSE]
    <2>1. End(k, "failed") /\ UNCHANGED <<down, reaped>> /\ at[k] = "cancel"
          /\ (up' = up \/ up' = [up EXCEPT ![k] = Append(@, e)])
      BY <1>5 DEF Cancel
    <2>2. e \in Event
      BY <2>1, RuntimeAssumption DEF Event, InHand, CallersOK
    <2> HIDE DEF e
    <2>3. up' \in [Callers -> Seq(Event)]
      <3>1. CASE up' = up
        BY <3>1 DEF CallersOK
      <3>2. CASE up' = [up EXCEPT ![k] = Append(@, e)]
        BY <2>2, <3>2 DEF CallersOK
      <3> QED BY <2>1, <3>1, <3>2
    <2>4. at[k] # "idle"
      BY <2>1
    <2>6. down' \in [Callers -> Seq(DownFrame)] /\ reaped' \subseteq Callers
      BY <2>1 DEF CallersOK
    <2> QED BY <2>1, <2>3, <2>4, <2>6, EndStep
  <1> QED BY <1>1, <1>2, <1>3, <1>4, <1>5 DEF Caller

LEMMA CallersStep ==
  ASSUME ServerOK, CallersOK, [CallNext]_allVars
  PROVE  CallersOK'
  <1>1. CASE Module \/ World \/ UNCHANGED allVars
    BY <1>1 DEF Module, World, allVars, callVars, CallersOK, InHand
  <1>2. ASSUME NEW k \in Callers, Forward(k) PROVE CallersOK'
    <2>1. up[k] # <<>> /\ up[k] \in Seq(Event) /\ Head(up[k]) \in Event /\ Tail(up[k]) \in Seq(Event)
      BY <1>2, HeadInSeq DEF Forward, CallersOK
    <2>2. up' \in [Callers -> Seq(Event)]
      BY <1>2, <2>1 DEF Forward, CallersOK
    <2>3. down' \in [Callers -> Seq(DownFrame)]
      <3> DEFINE r == [corr |-> Head(up[k]).corr, status |-> "Refused", more |-> FALSE]
      <3>1. r \in DownFrame
        BY <2>1 DEF DownFrame, Event
      <3>2. down' = down \/ down' = [down EXCEPT ![k] = Append(@, r)]
        BY <1>2 DEF Forward
      <3> HIDE DEF r
      <3>3. CASE down' = down
        BY <3>3 DEF CallersOK
      <3>4. CASE down' = [down EXCEPT ![k] = Append(@, r)]
        BY <3>1, <3>4 DEF CallersOK
      <3> QED BY <3>2, <3>3, <3>4
    <2> QED BY <1>2, <2>2, <2>3 DEF Forward, CallersOK, InHand
  <1>3. ASSUME NEW k \in Callers, Answer(k) PROVE CallersOK'
    <2>1. outbox \in Seq(OutFrame) /\ outbox # <<>>
      BY <1>3 DEF Answer, ServerOK, TypeOK, OutFrame
    <2>2. Head(outbox) \in OutFrame
      BY <2>1, HeadInSeq
    <2>3. Head(outbox) \in DownFrame
      BY <2>2 DEF OutFrame, DownFrame
    <2>4. down' \in [Callers -> Seq(DownFrame)]
      <3>1. down' = down \/ down' = [down EXCEPT ![k] = Append(@, Head(outbox))]
        BY <1>3 DEF Answer
      <3>2. CASE down' = down
        BY <3>2 DEF CallersOK
      <3>3. CASE down' = [down EXCEPT ![k] = Append(@, Head(outbox))]
        BY <2>3, <3>3 DEF CallersOK
      <3> QED BY <3>1, <3>2, <3>3
    <2> QED BY <1>3, <2>4 DEF Answer, CallersOK, InHand
  <1>4. ASSUME NEW k \in Callers, Reap(k) PROVE CallersOK'
    BY <1>4 DEF Reap, CallersOK, InHand
  <1> QED BY <1>1, <1>2, <1>3, <1>4, CallerStep DEF CallNext, Router
-----------------------------------------------------------------------------
(* What a call sees of the four rings. *)
Views(c, D, O, I, U) ==
  /\ D \in Seq(DownFrame) /\ O \in Seq(OutFrame) /\ I \in Seq(Event) /\ U \in Seq(Event)
  /\ View(D, down[Owner[c]], c) /\ View(O, outbox, c)
  /\ View(I, inbox, c) /\ View(U, up[Owner[c]], c)

Sound(c) == \E D, O, I, U : Views(c, D, O, I, U) /\ Phase(c, D, O, I, U)

(* A call has started when it has ended or its caller has it in hand. *)
StartedWhen ==
  \A c \in Correlations : Started(c) <=> result[c] # "none" \/ call[Owner[c]].corr = c

LEMMA StartedIs ==
  CallersOK => StartedWhen
  <1> SUFFICES ASSUME CallersOK, NEW c \in Correlations
               PROVE  Started(c) <=> result[c] # "none" \/ call[Owner[c]].corr = c
    BY DEF StartedWhen
  <1>1. ASSUME NEW k \in Callers, call[k].corr = c PROVE k = Owner[c]
    BY <1>1, CallAssumption DEF CallersOK, InHand, NoCall
  <1> QED BY <1>1, CallAssumption DEF Started

LEMMA StartedNext ==
  ASSUME CallersOK, CallersOK'
  PROVE  StartedWhen /\ StartedWhen'
  <1>1. CallersOK' => StartedWhen'
    BY StartedIs, PTL
  <1> QED BY <1>1, StartedIs

(* Nothing that the phase of call c depends on changes. *)
Quiet(c) ==
  /\ call'[Owner[c]] = call[Owner[c]] /\ at'[Owner[c]] = at[Owner[c]]
  /\ body'[Owner[c]] = body[Owner[c]] /\ result'[c] = result[c]
  /\ answered'[c] = answered[c] /\ handled'[c] = handled[c]
  /\ c \in jobs' <=> c \in jobs
  /\ c \in assemblies' <=> c \in assemblies
  /\ partial'[c] = partial[c]
  /\ c \in refused' <=> c \in refused
  /\ Owner[c] \in reaped => Owner[c] \in reaped'
  /\ reply' = reply \/ (reply.corr # c /\ reply'.corr # c)
  /\ pc \in {"shutdown", "returned"} => pc' \in {"shutdown", "returned"}

LEMMA QuietPhase ==
  ASSUME CallersOK, CallersOK', NEW c \in Correlations, Quiet(c),
         NEW D, NEW O, NEW I, NEW U, Phase(c, D, O, I, U)
  PROVE  Phase(c, D, O, I, U)'
  <1>1. \A n \in Nat : Assembled(c, n)' <=> Assembled(c, n)
    BY DEF Quiet, Assembled
  <1>2. ASSUME ~Started(c)' PROVE Fresh(c, D, O, I, U)'
    <2>1. ~(result[c] # "none" \/ call[Owner[c]].corr = c)
      <3>1. Started(c)' <=> result'[c] # "none" \/ call'[Owner[c]].corr = c
        BY StartedNext DEF StartedWhen
      <3> QED BY <1>2, <3>1 DEF Quiet
    <2>2. Fresh(c, D, O, I, U)
      BY <2>1, StartedNext DEF Phase, StartedWhen
    <2> QED BY <1>1, <2>2 DEF Quiet, Fresh
  <1>3. ASSUME Live(c)'
        PROVE  \/ Asking(c, D, O, I, U)' \/ Working(c, D, O, I, U)' \/ Answering(c, D, O, I, U)'
               \/ Failing(c, D, O)' \/ Reaped(c, D)' \/ Lost(c, D, O)'
    <2>0. Live(c)
      BY <1>3 DEF Live, Quiet
    <2>1. CASE Asking(c, D, O, I, U)
      <3>1. Asking(c, D, O, I, U)'
        BY <1>1, <2>1 DEF Quiet, Asking
      <3> QED BY <3>1
    <2>2. CASE Working(c, D, O, I, U)
      BY <2>2 DEF Quiet, Working
    <2>3. CASE Answering(c, D, O, I, U)
      <3>1. Left(c)' = Left(c) /\ Whole(c)'
        BY <2>3 DEF Quiet, Left, Answering, Whole
      <3>2. reply'.corr = c => reply' = reply
        BY DEF Quiet
      <3> QED BY <2>3, <3>1, <3>2 DEF Quiet, Answering
    <2>4. CASE Failing(c, D, O)
      BY <2>4 DEF Quiet, Failing
    <2>5. CASE Reaped(c, D)
      BY <2>5 DEF Quiet, Reaped
    <2>6. CASE Lost(c, D, O)
      BY <2>6 DEF Quiet, Lost
    <2> QED BY <2>0, <2>1, <2>2, <2>3, <2>4, <2>5, <2>6 DEF Phase
  <1>4. ASSUME result'[c] = "whole" PROVE Over(c, I, U)'
    BY <1>4 DEF Quiet, Phase, Over, Whole
  <1> QED BY <1>2, <1>3, <1>4 DEF Phase

(* A call that is over, or that nobody waits for any more. *)
LEMMA GivenUp ==
  ASSUME NEW c \in Correlations, NEW D, NEW O, NEW I, NEW U,
         Started(c)', ~Live(c)', result'[c] # "whole"
  PROVE  Phase(c, D, O, I, U)'
  BY DEF Phase

LEMMA QuietSound ==
  ASSUME CallersOK, CallersOK', NEW c \in Correlations, Quiet(c), Sound(c),
         down'[Owner[c]] = down[Owner[c]], up'[Owner[c]] = up[Owner[c]],
         inbox' = inbox, outbox' = outbox
  PROVE  Sound(c)'
  <1>1. PICK D, O, I, U : Views(c, D, O, I, U) /\ Phase(c, D, O, I, U)
    BY DEF Sound
  <1>2. Phase(c, D, O, I, U)'
    BY <1>1, QuietPhase
  <1>3. Views(c, D, O, I, U)'
    BY <1>1 DEF Views
  <1> QED BY <1>2, <1>3 DEF Sound
-----------------------------------------------------------------------------
(* The module's step concerns c only through these. *)
LEMMA ModuleQuiet ==
  ASSUME NEW c \in Correlations, Module,
         c \in jobs' <=> c \in jobs, c \in assemblies' <=> c \in assemblies,
         partial'[c] = partial[c],
         reply' = reply \/ pc \in {"reply", "blocked"} \/ reply'.corr # c,
         reply' = reply \/ (reply.corr # c /\ reply'.corr # c),
         pc \in {"shutdown", "returned"} => pc' \in {"shutdown", "returned"}
  PROVE  Quiet(c)
  <1>1. handled'[c] = handled[c] /\ answered'[c] = answered[c]
    BY DEF Module
  <1>2. UNCHANGED callVars
    BY DEF Module
  <1> QED BY <1>1, <1>2 DEF Quiet, callVars

(* A part of the answer moves from the reply to the ring. *)
LEMMA ReplyPhase ==
  ASSUME ServerOK, CallersOK, CallersOK', NEW c \in Correlations, Sound(c), Module, ReplyFragment
  PROVE  Sound(c)'
  <1>1. PICK D, O, I, U : Views(c, D, O, I, U) /\ Phase(c, D, O, I, U)
    BY DEF Sound
  <1>2. PICK r : r = [corr |-> reply.corr, status |-> reply.status, more |-> reply.left > 1]
    OBVIOUS
  <1>3. /\ r \in OutFrame /\ r.corr = reply.corr /\ r.status = reply.status
        /\ r.more <=> reply.left > 1
    <2>1. (reply.left > 1) \in BOOLEAN
      OBVIOUS
    <2> QED BY <1>2, <2>1 DEF ReplyFragment, ServerOK, TypeOK, OutFrame
  <1>4. /\ outbox' = Append(outbox, r) /\ outbox \in Seq(OutFrame)
        /\ UNCHANGED <<inbox, jobs, assemblies, partial>> /\ pc = "reply"
    BY <1>2 DEF ReplyFragment, ServerOK, TypeOK, OutFrame
  <1>5. UNCHANGED callVars /\ answered'[c] = answered[c] /\ handled'[c] = handled[c]
    BY <1>4 DEF Module
  <1>6. /\ reply.left > 1 => reply' = [reply EXCEPT !.left = @ - 1]
        /\ ~(reply.left > 1) => reply' = NoReply
    BY DEF ReplyFragment
  <1>7. reply \in [corr : Correlations \cup {0}, status : Statuses, left : Nat]
    BY DEF ServerOK, TypeOK
  <1>8. c # 0
    BY CallAssumption
  <1>9. CASE reply.corr # c
    <2>1. reply'.corr # c
      BY <1>6, <1>7, <1>8, <1>9 DEF NoReply
    <2>2. Quiet(c)
      BY <1>4, <1>9, <2>1, ModuleQuiet
    <2>3. Phase(c, D, O, I, U)'
      BY <1>1, <2>2, QuietPhase
    <2>4. View(O, Append(outbox, r), c)
      BY <1>1, <1>3, <1>4, <1>9, ViewSkips DEF Views
    <2>5. Views(c, D, O, I, U)'
      BY <1>1, <1>4, <1>5, <2>4 DEF Views, callVars
    <2> QED BY <2>3, <2>5 DEF Sound
  <1>10. CASE reply.corr = c
    <2>1. View(Append(O, r), Append(outbox, r), c)
      BY <1>1, <1>3, <1>4, <1>10, ViewGrows DEF Views
    <2>2. PICK P, l : P = Append(O, r) /\ l = Len(O)
      OBVIOUS
    <2>3. /\ P \in Seq(OutFrame) /\ l \in Nat /\ Len(P) = l + 1 /\ DOMAIN P = 1 .. l + 1
          /\ P[l + 1] = r /\ \A j \in 1 .. l : P[j] = O[j]
          /\ DOMAIN O = 1 .. l
      BY <1>1, <1>3, <2>2, Longer DEF Views
    <2>4. Views(c, D, P, I, U)'
      BY <1>1, <1>4, <1>5, <2>1, <2>2, <2>3 DEF Views, callVars
    <2>5. Started(c) /\ Started(c)'
      <3>1. Started(c)
        BY <1>1, <1>10 DEF Phase, Fresh
      <3> QED BY <1>5, <3>1 DEF Started, callVars
    <2>6. ASSUME Live(c)'
          PROVE  Answering(c, D, P, I, U)' \/ Failing(c, D, P)' \/ Reaped(c, D)'
      <3>1. Live(c)
        BY <1>5, <2>6 DEF Live, callVars
      <3>2. CASE Answering(c, D, O, I, U)
        <4>1. PICK n : n = Len(D) + Len(O) + reply.left
          OBVIOUS
        <4>2. PICK d : d = Len(D) /\ d \in Nat /\ DOMAIN D = 1 .. d
          BY <1>1 DEF Views
        <4>3. reply.left >= 1 /\ reply.status = "OK" /\ reply.left \in Nat
          BY <1>7, <1>10, <3>2 DEF Answering
        <4>4. Left(c) = reply.left /\ Left(c)' = reply.left - 1
          BY <1>6, <1>7, <1>8, <1>10, <4>3 DEF Left, NoReply
        <4>5. n = Len(D) + Len(O) + Left(c) /\ n = Len(D) + Len(P) + Left(c)' /\ n \in Nat
              /\ n = d + l + reply.left
          BY <2>2, <2>3, <4>1, <4>2, <4>3, <4>4
        <4>6. reply'.corr = c => reply'.status = "OK" /\ reply'.left >= 1
          BY <1>6, <1>7, <1>8, <4>3 DEF NoReply
        <4>7. \A j \in DOMAIN P : P[j].status = "OK" /\ (P[j].more <=> d + j < n)
          <5>1. \A j \in 1 .. l : O[j].status = "OK" /\ (O[j].more <=> d + j < n)
            BY <2>3, <3>2, <4>2, <4>5 DEF Answering
          <5>2. r.status = "OK" /\ (r.more <=> d + (l + 1) < n)
            BY <1>3, <2>3, <4>2, <4>3, <4>5
          <5> QED BY <2>3, <5>1, <5>2
        <4>8. \A j \in DOMAIN D : D[j].status = "OK" /\ (D[j].more <=> j < n)
          BY <3>2, <4>5 DEF Answering
        <4>9. answered[c] = body[Owner[c]] + n /\ answered[c] <= MaxChunks
          BY <3>2, <4>5 DEF Answering
        <4>10. Answering(c, D, P, I, U)'
          BY <1>4, <1>5, <3>2, <4>2, <4>5, <4>6, <4>7, <4>8, <4>9 DEF Answering, callVars, Whole
        <4> QED BY <4>10
      <3>3. CASE Failing(c, D, O)
        <4>1. D = <<>> => P # <<>> /\ P[1].status # "OK"
          BY <1>3, <2>3, <3>3 DEF Failing
        <4>2. D # <<>> => D[1].status # "OK"
          BY <3>3 DEF Failing
        <4> QED BY <4>1, <4>2 DEF Failing
      <3>4. CASE Reaped(c, D)
        BY <1>5, <3>4 DEF Reaped, callVars
      <3> QED BY <1>1, <1>10, <3>1, <3>2, <3>3, <3>4 DEF Phase, Asking, Working, Lost
    <2>7. result'[c] = "whole" => Over(c, I, U)'
      BY <1>1, <1>5 DEF Phase, Over, Whole, callVars
    <2>8. Phase(c, D, P, I, U)'
      BY <2>5, <2>6, <2>7 DEF Phase
    <2> QED BY <2>4, <2>8 DEF Sound
  <1> QED BY <1>9, <1>10

(* The loop takes a result: the answer of its call begins. *)
LEMMA FinishPhase ==
  ASSUME ServerOK, CallersOK, CallersOK', NEW c \in Correlations, Sound(c), Module, FinishModuleWork
  PROVE  Sound(c)'
  <1>1. PICK D, O, I, U : Views(c, D, O, I, U) /\ Phase(c, D, O, I, U)
    BY DEF Sound
  <1>2. PICK r : r = Head(done)
    OBVIOUS
  <1>3. /\ r \in Result /\ r.corr \in jobs /\ r.chunks \in 1 .. MaxChunks
    <2>1. done \in Seq(Result) /\ done # <<>>
      BY DEF ServerOK, TypeOK, FinishModuleWork
    <2>2. r = done[1] /\ 1 \in DOMAIN done /\ r \in Result
      BY <1>2, <2>1, HeadInSeq
    <2> QED BY <2>2 DEF ServerOK, Accounted, JobsAccounted, Queued, SomeParts
  <1>4. /\ pc = "drain" /\ reply = NoReply
        /\ jobs' = jobs \ {r.corr} /\ UNCHANGED <<inbox, outbox, assemblies, partial>>
        /\ pc' = "reply"
    BY <1>2 DEF FinishModuleWork, StartReply, host, ServerOK, ReplyIdle
  <1>5. UNCHANGED callVars /\ handled'[c] = handled[c]
    BY <1>4 DEF Module
  <1>6. PICK n \in Nat \ {0} : /\ n = IF r.status = "OK" THEN r.chunks ELSE 1
                               /\ r.status = "OK" => n <= MaxChunks
                               /\ reply' = [corr |-> r.corr, status |-> r.status, left |-> n]
    <2>1. PICK n : n = IF r.status = "OK" THEN r.chunks ELSE 1
      OBVIOUS
    <2>2. reply' = [corr |-> r.corr, status |-> r.status, left |-> n]
      BY <1>2, <2>1 DEF FinishModuleWork, StartReply
    <2>3. n \in Nat \ {0} /\ (r.status = "OK" => n <= MaxChunks)
      BY <1>3, <2>1, RuntimeAssumption
    <2> QED BY <2>1, <2>2, <2>3
  <1>7. c # 0 /\ reply.corr # c
    BY <1>4, CallAssumption DEF NoReply
  <1>8. Views(c, D, O, I, U)'
    BY <1>1, <1>4, <1>5 DEF Views, callVars
  <1>9. CASE r.corr # c
    <2>1. Quiet(c)
      BY <1>4, <1>6, <1>7, <1>9, ModuleQuiet
    <2> QED BY <1>1, <1>8, <2>1, QuietPhase DEF Sound
  <1>10. CASE r.corr = c
    <2>1. c \in jobs /\ c \notin jobs'
      BY <1>3, <1>4, <1>10
    <2>2. Started(c) /\ Started(c)'
      <3>1. Started(c)
        BY <1>1, <2>1 DEF Phase, Fresh
      <3> QED BY <1>5, <3>1 DEF Started, callVars
    <2>3. answered'[c] = n
      BY <1>4, <1>6, <1>7, <1>10 DEF Module
    <2>4. ASSUME Live(c)'
          PROVE  Answering(c, D, O, I, U)' \/ Failing(c, D, O)' \/ Reaped(c, D)'
      <3>1. Live(c)
        BY <1>5, <2>4 DEF Live, callVars
      <3>2. CASE Working(c, D, O, I, U)
        <4>1. D = <<>> /\ O = <<>> /\ I = <<>> /\ U = <<>> /\ body[Owner[c]] = 0
              /\ at[Owner[c]] = "await" /\ handled[c] = Parts(call[Owner[c]].frags)
          BY <3>2 DEF Working
        <4>2. CASE r.status = "OK"
          <5>1. Whole(c)'
            <6>1. call[Owner[c]].frags \in 1 .. MaxFrags
              BY CallAssumption DEF CallersOK, Calling
            <6> QED BY <1>5, <4>1, <6>1 DEF Whole
          <5>2. Left(c)' = n /\ reply'.corr = c /\ reply'.status = "OK" /\ reply'.left = n
            BY <1>6, <1>10, <4>2 DEF Left
          <5>3. Len(D) = 0 /\ Len(O) = 0 /\ DOMAIN D = {} /\ DOMAIN O = {}
            BY <4>1
          <5>4. 0 + 0 + n = n /\ 0 + n = n /\ n <= MaxChunks
            BY <1>6, <4>2
          <5>5. Answering(c, D, O, I, U)'
            BY <1>5, <2>1, <2>3, <4>1, <5>1, <5>2, <5>3, <5>4 DEF Answering, callVars
          <5> QED BY <5>5
        <4>3. CASE r.status # "OK"
          BY <1>6, <1>10, <4>1, <4>3 DEF Failing
        <4> QED BY <4>2, <4>3
      <3>3. CASE Failing(c, D, O)
        BY <1>7, <3>3 DEF Failing
      <3>4. CASE Reaped(c, D)
        BY <1>5, <3>4 DEF Reaped, callVars
      <3> QED BY <1>1, <1>4, <2>1, <3>1, <3>2, <3>3, <3>4 DEF Phase, Asking, Answering, Lost
    <2>5. result'[c] = "whole" => Over(c, I, U)'
      BY <1>1, <1>5 DEF Phase, Over, Whole, callVars
    <2>6. Phase(c, D, O, I, U)'
      BY <2>2, <2>4, <2>5 DEF Phase
    <2> QED BY <1>8, <2>6 DEF Sound
  <1> QED BY <1>9, <1>10

(* At the end of the context results are dropped: their calls get nothing. *)
LEMMA ShutdownPhase ==
  ASSUME ServerOK, CallersOK, CallersOK', NEW c \in Correlations, Sound(c), Module, Shutdown
  PROVE  Sound(c)'
  <1>1. PICK D, O, I, U : Views(c, D, O, I, U) /\ Phase(c, D, O, I, U)
    BY DEF Sound
  <1>4. /\ pc = "shutdown" /\ reply = NoReply /\ jobs' \subseteq jobs
        /\ UNCHANGED <<inbox, outbox, assemblies, partial, reply>>
        /\ pc' \in {"shutdown", "returned"}
    BY DEF Shutdown, Return, host, ServerOK, ReplyIdle
  <1>5. UNCHANGED callVars /\ handled'[c] = handled[c]
    BY <1>4 DEF Module
  <1>7. c # 0 /\ reply.corr # c
    BY <1>4, CallAssumption DEF NoReply
  <1>8. Views(c, D, O, I, U)'
    BY <1>1, <1>4, <1>5 DEF Views, callVars
  <1>9. CASE c \in jobs' <=> c \in jobs
    <2>1. Quiet(c)
      BY <1>4, <1>9, ModuleQuiet
    <2> QED BY <1>1, <1>8, <2>1, QuietPhase DEF Sound
  <1>10. CASE c \in jobs /\ c \notin jobs'
    <2>2. Started(c) /\ Started(c)'
      <3>1. Started(c)
        BY <1>1, <1>10 DEF Phase, Fresh
      <3> QED BY <1>5, <3>1 DEF Started, callVars
    <2>4. ASSUME Live(c)'
          PROVE  Lost(c, D, O)' \/ Failing(c, D, O)' \/ Reaped(c, D)'
      <3>1. Live(c)
        BY <1>5, <2>4 DEF Live, callVars
      <3>2. CASE Working(c, D, O, I, U) \/ Lost(c, D, O)
        BY <1>4, <1>7, <3>2 DEF Working, Lost
      <3>3. CASE Failing(c, D, O)
        BY <1>4, <3>3 DEF Failing
      <3>4. CASE Reaped(c, D)
        BY <1>5, <3>4 DEF Reaped, callVars
      <3> QED BY <1>1, <1>10, <3>1, <3>2, <3>3, <3>4 DEF Phase, Asking, Answering
    <2>5. result'[c] = "whole" => Over(c, I, U)'
      BY <1>1, <1>5 DEF Phase, Over, Whole, callVars
    <2>6. Phase(c, D, O, I, U)'
      BY <2>2, <2>4, <2>5 DEF Phase
    <2> QED BY <1>8, <2>6 DEF Sound
  <1> QED BY <1>4, <1>9, <1>10

(* The loop's other steps, and the handlers', concern no call. *)
LEMMA PassPhase ==
  ASSUME ServerOK, CallersOK, CallersOK', NEW c \in Correlations, Sound(c), Module,
         \/ ReplyWouldBlock \/ ReplyRetry \/ ReplyFails \/ NoResult \/ ContextLive
         \/ ContextCancelled \/ EpochEnds \/ EpochSame \/ PollEmpty \/ Handler
  PROVE  Sound(c)'
  <1>1. UNCHANGED <<inbox, outbox, jobs, assemblies, partial, reply>>
    BY DEF ReplyWouldBlock, ReplyRetry, ReplyFails, NoResult, ContextLive, ContextCancelled,
           EpochEnds, EpochSame, PollEmpty, Handler, HandlerReturns, SendResult, host, loop
  <1>2. pc \in {"shutdown", "returned"} => pc' \in {"shutdown", "returned"}
    BY DEF ReplyWouldBlock, ReplyRetry, ReplyFails, NoResult, ContextLive, ContextCancelled,
           EpochEnds, EpochSame, PollEmpty, Handler, HandlerReturns, SendResult, loop
  <1>3. Quiet(c)
    BY <1>1, <1>2, ModuleQuiet
  <1>4. UNCHANGED callVars
    BY DEF Module
  <1> QED BY <1>1, <1>3, <1>4, QuietSound DEF callVars

(* A whole request is made of its parts, one after the other. *)
LEMMA OneMore ==
  ASSUME NEW p \in Nat
  PROVE  Parts(p) \o <<p + 1>> = Parts(p + 1)
  <1>1. Parts(p) \in Seq(Nat) /\ Len(Parts(p)) = p /\ Parts(p + 1) \in Seq(Nat) /\ Len(Parts(p + 1)) = p + 1
    BY DEF Parts
  <1>2. PICK s, t : s = Parts(p) \o <<p + 1>> /\ t = Parts(p + 1)
    OBVIOUS
  <1>3. s \in Seq(Nat) /\ Len(s) = p + 1
    BY <1>1, <1>2
  <1>4. \A i \in 1 .. p + 1 : s[i] = i
    BY <1>1, <1>2 DEF Parts
  <1>5. \A i \in 1 .. p + 1 : t[i] = i
    BY <1>2 DEF Parts
  <1>6. s = t
    BY <1>1, <1>2, <1>3, <1>4, <1>5
  <1> QED BY <1>2, <1>6 DEF Parts

(* The loop takes a frame of the call from its ring. *)
LEMMA EventPhase ==
  ASSUME ServerOK, CallersOK, CallersOK', NEW c \in Correlations, Sound(c), Module, OnEvent
  PROVE  Sound(c)'
  <1>1. PICK D, O, I, U : Views(c, D, O, I, U) /\ Phase(c, D, O, I, U)
    BY DEF Sound
  <1>2. PICK e : e = Head(inbox)
    OBVIOUS
  <1>3. inbox \in Seq(Event) /\ inbox # <<>> /\ e \in Event
    <2>1. inbox \in Seq(Event) /\ inbox # <<>>
      BY DEF ServerOK, TypeOK, OnEvent
    <2> QED BY <1>2, <2>1, HeadInSeq
  <1>4. \/ OnCancel(e) \/ OnOther(e) \/ OnInvalid(e) \/ OnNoRoom(e) \/ OnOverflow(e)
        \/ OnFragment(e) \/ OnRefused(e) \/ OnRequest(e)
    BY <1>2 DEF OnEvent
  <1>5. Poll(e)
    BY <1>4 DEF OnCancel, OnOther, OnInvalid, OnNoRoom, OnOverflow, OnFragment, OnRefused, OnRequest
  <1>6. /\ pc = "poll" /\ reply = NoReply /\ inbox' = Tail(inbox) /\ UNCHANGED outbox
    BY <1>5 DEF Poll, ServerOK, ReplyIdle
  <1>7. UNCHANGED callVars
    BY DEF Module
  <1>8. c # 0 /\ reply.corr # c
    BY <1>6, CallAssumption DEF NoReply
  <1>9. CASE e.corr # c
    <2>1. /\ c \in jobs' <=> c \in jobs
          /\ c \in assemblies' <=> c \in assemblies
      BY <1>4, <1>9 DEF OnCancel, OnOther, OnInvalid, OnNoRoom, OnOverflow, OnFragment, OnRefused,
                        OnRequest, Refuse, Forget, Keep
    <2>2. partial'[c] = partial[c]
      BY <1>4, <1>9 DEF OnCancel, OnOther, OnInvalid, OnNoRoom, OnOverflow, OnFragment, OnRefused,
                        OnRequest, Refuse, Forget, Keep, ServerOK, TypeOK
    <2>3. reply'.corr # c
      <3>1. reply' = reply \/ \E status : StartReply(e.corr, status, 1)
        BY <1>4 DEF OnCancel, OnOther, OnInvalid, OnNoRoom, OnOverflow, OnFragment, OnRefused,
                    OnRequest, Refuse, Continue
      <3> QED BY <1>8, <1>9, <3>1 DEF StartReply
    <2>4. Quiet(c)
      BY <1>6, <1>8, <2>1, <2>2, <2>3, ModuleQuiet
    <2>5. View(I, Tail(inbox), c)
      BY <1>1, <1>2, <1>3, <1>9, ViewStays DEF Views
    <2>6. Views(c, D, O, I, U)'
      BY <1>1, <1>6, <1>7, <2>5 DEF Views, callVars
    <2> QED BY <1>1, <2>4, <2>6, QuietPhase DEF Sound
  <1>10. CASE e.corr = c
    <2>1. I # <<>> /\ I[1] = e /\ View(Tail(I), Tail(inbox), c)
      BY <1>1, <1>2, <1>3, <1>10, ViewShrinks DEF Views
    <2>2. PICK J, l : J = Tail(I) /\ l = Len(I)
      OBVIOUS
    <2>3. /\ J \in Seq(Event) /\ l \in Nat \ {0} /\ Len(J) = l - 1 /\ DOMAIN I = 1 .. l
          /\ DOMAIN J = 1 .. l - 1 /\ \A j \in 1 .. l - 1 : J[j] = I[j + 1]
      <3>1. J \in Seq(Event)
        BY <1>1, <2>1, <2>2 DEF Views
      <3> QED BY <1>1, <2>1, <2>2, <3>1, Shorter DEF Views
    <2>4. Views(c, D, O, J, U)'
      BY <1>1, <1>6, <1>7, <2>1, <2>2, <2>3 DEF Views, callVars
    <2>5. Started(c) /\ Started(c)' /\ result'[c] # "whole"
      <3>1. Started(c) /\ result[c] # "whole"
        BY <1>1, <2>1 DEF Phase, Fresh, Over
      <3> QED BY <1>7, <3>1 DEF Started, callVars
    <2>6. ASSUME Live(c)'
          PROVE  \/ Asking(c, D, O, J, U)' \/ Working(c, D, O, J, U)'
                 \/ Failing(c, D, O)' \/ Reaped(c, D)'
      <3>1. Live(c)
        BY <1>7, <2>6 DEF Live, callVars
      <3>2. CASE Failing(c, D, O)
        BY <1>8, <3>2 DEF Failing
      <3>3. CASE Reaped(c, D)
        BY <1>7, <3>3 DEF Reaped, callVars
      <3>4. CASE Asking(c, D, O, I, U)
        <4> DEFINE m == call[Owner[c]]
        <4>1. PICK p \in 0 .. m.sent :
                 /\ Assembled(c, p) /\ p + Len(I) + Len(U) = m.sent
                 /\ \A j \in DOMAIN I : I[j] = Fragment(m, p + j)
                 /\ \A j \in DOMAIN U : U[j] = Fragment(m, p + Len(I) + j)
          BY <3>4 DEF Asking
        <4>2. /\ D = <<>> /\ O = <<>> /\ body[Owner[c]] = 0
              /\ c \notin jobs /\ c \notin refused
          BY <3>4 DEF Asking
        <4>3. /\ m \in Calling /\ m.sent \in Nat /\ m.frags \in 1 .. MaxFrags /\ m.sent <= m.frags
              /\ m.corr = c /\ p \in Nat
              /\ at[Owner[c]] = "send" => m.sent < m.frags
          BY <3>1, <4>1, CallAssumption DEF CallersOK, InHand, Calling, Live
        <4> HIDE DEF m
        <4>4. e = Fragment(m, p + 1)
          BY <2>1, <2>3, <4>1
        <4>5. /\ e.type = "request" /\ e.ok /\ e.deadline = m.deadline /\ e.body = <<p + 1>>
              /\ e.more <=> p + 1 < m.frags
          BY <4>4 DEF Fragment
        <4>6. Grown(e) = Parts(p + 1)
          <5>1. partial[c].body = Parts(p)
            <6>1. Parts(0) = <<>>
              BY DEF Parts
            <6>2. CASE p = 0
              BY <4>1, <6>1, <6>2 DEF Assembled, NoPartial
            <6>3. CASE p # 0
              BY <4>1, <6>3 DEF Assembled
            <6> QED BY <6>2, <6>3
          <5> QED BY <1>10, <4>3, <4>5, <5>1, OneMore DEF Grown
        <4>7. CASE OnFragment(e)
          <5>1. /\ assemblies' = assemblies \cup {c} /\ UNCHANGED <<jobs, reply>>
                /\ partial' = [partial EXCEPT ![c] = [deadline |-> m.deadline, body |-> Parts(p + 1)]]
            BY <1>10, <4>5, <4>6, <4>7 DEF OnFragment, Keep, Continue
          <5>2. Assembled(c, p + 1)'
            <6>1. p + 1 # 0 /\ DOMAIN partial = Correlations
              BY <4>3 DEF ServerOK, TypeOK
            <6>2. partial'[c] = [deadline |-> m.deadline, body |-> Parts(p + 1)]
              BY <5>1, <6>1
            <6>3. call'[Owner[c]] = m
              BY <1>7 DEF callVars, m
            <6> QED BY <5>1, <6>1, <6>2, <6>3 DEF Assembled
          <5>3. PICK u : u = Len(U) /\ u \in Nat /\ DOMAIN U = 1 .. u
            BY <1>1 DEF Views
          <5>4. p + 1 \in 0 .. m.sent /\ (p + 1) + Len(J) + Len(U) = m.sent
            <6>1. PICK sent, j : sent = m.sent /\ j = Len(J)
              OBVIOUS
            <6>2. p + l + u = sent
              BY <2>2, <4>1, <5>3, <6>1
            <6>3. j = l - 1 /\ l \in Nat \ {0} /\ sent \in Nat
              BY <2>3, <4>3, <6>1
            <6>4. p + 1 \in 0 .. sent /\ (p + 1) + j + u = sent
              BY <4>3, <5>3, <6>2, <6>3
            <6> QED BY <5>3, <6>1, <6>4
          <5>5. \A j \in DOMAIN J : J[j] = Fragment(m, (p + 1) + j)
            <6>1. ASSUME NEW j \in DOMAIN J PROVE J[j] = Fragment(m, (p + 1) + j)
              <7>1. j \in 1 .. l - 1
                BY <2>3
              <7>2. J[j] = I[j + 1]
                BY <2>3, <7>1
              <7>3. j \in Nat /\ j + 1 \in 1 .. l
                BY <2>3, <7>1
              <7>4. p + (j + 1) = (p + 1) + j
                BY <4>3, <7>3
              <7>5. I[j + 1] = Fragment(m, p + (j + 1))
                BY <2>3, <4>1, <7>3
              <7> QED BY <7>2, <7>4, <7>5
            <6> QED BY <6>1
          <5>6. \A j \in DOMAIN U : U[j] = Fragment(m, (p + 1) + Len(J) + j)
            <6>2. DOMAIN U = 1 .. u
              BY <1>1, <5>3 DEF Views
            <6>3. PICK i, j1 : i = Len(I) /\ j1 = Len(J) /\ i = l /\ j1 = l - 1
              BY <2>2, <2>3
            <6>4. ASSUME NEW j \in 1 .. u PROVE p + i + j = (p + 1) + j1 + j
              BY <2>3, <4>3, <5>3, <6>3
            <6>5. ASSUME NEW j \in DOMAIN U PROVE U[j] = Fragment(m, (p + 1) + Len(J) + j)
              <7>1. U[j] = Fragment(m, p + Len(I) + j)
                BY <4>1
              <7>2. p + Len(I) + j = (p + 1) + Len(J) + j
                BY <6>2, <6>3, <6>4
              <7> QED BY <7>1, <7>2
            <6> QED BY <6>5
          <5>7. Asking(c, D, O, J, U)'
            <6>1. call'[Owner[c]] = m /\ UNCHANGED <<body, refused>>
              BY <1>7 DEF callVars, m
            <6> QED BY <1>8, <4>2, <5>1, <5>2, <5>4, <5>5, <5>6, <6>1 DEF Asking
          <5> QED BY <5>7
        <4>8. CASE OnRequest(e)
          <5>1. jobs' = jobs \cup {c} /\ UNCHANGED reply
            BY <1>10, <4>8 DEF OnRequest, Continue
          <5>2. handled'[c] = Parts(p + 1)
            BY <1>2, <4>2, <4>6, <5>1 DEF Module
          <5>3. ~e.more
            BY <4>8 DEF OnRequest
          <5>4. PICK u : u = Len(U) /\ u \in Nat
            BY SMTT(40), <1>1 DEF Views
          <5>5. p + 1 = m.frags /\ m.sent = m.frags /\ l = 1 /\ u = 0
            BY <2>2, <2>3, <4>1, <4>3, <4>5, <5>3, <5>4
          <5>6. J = <<>> /\ U = <<>>
            <6>1. Len(J) = 0 /\ J \in Seq(Event) /\ Len(U) = 0 /\ U \in Seq(Event)
              BY <1>1, <2>3, <5>4, <5>5 DEF Views
            <6>2. J = <<>>
              BY <6>1
            <6>3. U = <<>>
              BY <6>1
            <6> QED BY <6>2, <6>3
          <5>7. at[Owner[c]] = "await"
            BY <3>1, <4>3, <5>5 DEF Live
          <5>8. Working(c, D, O, J, U)'
            BY <1>7, <1>8, <4>2, <5>1, <5>2, <5>5, <5>6, <5>7 DEF Working, callVars, m
          <5> QED BY <5>8
        <4>9. ASSUME NEW status, status # "OK", StartReply(e.corr, status, 1)
              PROVE  Failing(c, D, O)'
          BY <1>10, <4>2, <4>9 DEF StartReply, Failing
        <4>10. CASE OnInvalid(e) \/ OnNoRoom(e) \/ OnOverflow(e) \/ OnRefused(e)
          <5>1. \E status : status # "OK" /\ StartReply(e.corr, status, 1)
            BY <4>10 DEF OnInvalid, OnNoRoom, OnOverflow, OnRefused, Refuse
          <5> QED BY <4>9, <5>1
        <4>11. ~OnCancel(e) /\ ~OnOther(e)
          BY <4>5 DEF OnCancel, OnOther
        <4> QED BY <1>4, <4>7, <4>8, <4>10, <4>11
      <3> QED BY <1>1, <1>6, <2>1, <3>1, <3>2, <3>3, <3>4 DEF Phase, Working, Answering, Lost
    <2>7. Phase(c, D, O, J, U)'
      BY <2>5, <2>6 DEF Phase
    <2> QED BY <2>4, <2>7 DEF Sound
  <1> QED BY <1>9, <1>10

LEMMA ModulePhase ==
  ASSUME ServerOK, CallersOK, CallersOK', NEW c \in Correlations, Sound(c), Module
  PROVE  Sound(c)'
  <1>1. Loop \/ Handler
    BY DEF Module
  <1> QED BY <1>1, ReplyPhase, FinishPhase, ShutdownPhase, PassPhase, EventPhase DEF Loop, Reply, Serve
-----------------------------------------------------------------------------
(* Every frame on a caller's way to the host is of one of its calls. *)
UpOwned == \A k \in Callers : \A i \in DOMAIN up[k] : Owner[up[k][i].corr] = k

Bounded == \A k \in Callers : body[k] <= MaxChunks

(* A frame of the caller is passed on, refused or dropped. *)
LEMMA ForwardPhase ==
  ASSUME ServerOK, CallersOK, CallersOK', UpOwned, Bounded,
         NEW c \in Correlations, Sound(c), NEW k \in Callers, Forward(k)
  PROVE  Sound(c)'
  <1>1. PICK D, O, I, U : Views(c, D, O, I, U) /\ Phase(c, D, O, I, U)
    BY DEF Sound
  <1>2. PICK e : e = Head(up[k])
    OBVIOUS
  <1>3. up[k] # <<>> /\ up[k] \in Seq(Event) /\ e \in Event /\ Owner[e.corr] = k
    <2>1. up[k] # <<>> /\ up[k] \in Seq(Event)
      BY DEF Forward, CallersOK
    <2>2. e \in Event /\ e = up[k][1] /\ 1 \in DOMAIN up[k]
      BY <1>2, <2>1, HeadInSeq
    <2> QED BY <2>1, <2>2 DEF UpOwned
  <1>4. inbox \in Seq(Event) /\ down[k] \in Seq(DownFrame)
    BY DEF ServerOK, TypeOK, CallersOK
  <1>5. PICK r : r = [corr |-> e.corr, status |-> "Refused", more |-> FALSE]
    OBVIOUS
  <1>6. r \in DownFrame /\ r.corr = e.corr /\ r.status = "Refused"
    BY <1>3, <1>5 DEF DownFrame, Event
  <1>7. /\ up'[k] = Tail(up[k]) /\ \A l \in Callers \ {k} : up'[l] = up[l]
        /\ UNCHANGED <<at, call, body, reaped, result, outbox, loop, answered, handled>>
    BY DEF Forward, CallersOK
  <1>8. \/ k \notin reaped /\ inbox' = Append(inbox, e) /\ UNCHANGED <<down, refused>>
        \/ /\ k \notin reaped /\ down'[k] = Append(down[k], r) /\ refused' = refused \cup {e.corr}
           /\ \A l \in Callers \ {k} : down'[l] = down[l]
           /\ inbox' = inbox
        \/ (k \in reaped \/ e.corr \in refused) /\ UNCHANGED <<inbox, down, refused>>
    BY <1>2, <1>5 DEF Forward, CallersOK
  <1>9. Owner[c] \in Callers
    BY CallAssumption
  <1>10. CASE e.corr # c
    <2>1. Quiet(c)
      BY <1>7, <1>8, <1>10 DEF Quiet, loop
    <2>2. View(U, up'[Owner[c]], c)
      <3>1. CASE Owner[c] = k
        BY <1>1, <1>2, <1>3, <1>7, <1>10, <3>1, ViewStays DEF Views
      <3>2. CASE Owner[c] # k
        BY <1>1, <1>7, <1>9, <3>2 DEF Views
      <3> QED BY <3>1, <3>2
    <2>3. View(I, inbox', c)
      <3>1. View(I, Append(inbox, e), c)
        BY <1>1, <1>3, <1>4, <1>10, ViewSkips DEF Views
      <3> QED BY <1>1, <1>8, <3>1 DEF Views
    <2>4. View(D, down'[Owner[c]], c)
      <3>1. CASE Owner[c] = k
        <4>1. View(D, Append(down[k], r), c)
          BY <1>1, <1>4, <1>6, <1>10, <3>1, ViewSkips DEF Views
        <4> QED BY <1>1, <1>8, <3>1, <4>1 DEF Views
      <3>2. CASE Owner[c] # k
        BY <1>1, <1>8, <1>9, <3>2 DEF Views
      <3> QED BY <3>1, <3>2
    <2>5. Views(c, D, O, I, U)'
      BY <1>1, <1>7, <2>2, <2>3, <2>4 DEF Views
    <2> QED BY <1>1, <2>1, <2>5, QuietPhase DEF Sound
  <1>11. CASE e.corr = c
    <2>1. Owner[c] = k /\ U # <<>> /\ U[1] = e /\ View(Tail(U), Tail(up[k]), c)
      <3>1. Owner[c] = k
        BY <1>3, <1>11
      <3>2. View(U, up[k], c) /\ U \in Seq(Event)
        BY <1>1, <3>1 DEF Views
      <3> QED BY <1>2, <1>3, <1>11, <3>1, <3>2, ViewShrinks
    <2>2. PICK V, u : V = Tail(U) /\ u = Len(U)
      OBVIOUS
    <2>3. /\ V \in Seq(Event) /\ u \in Nat \ {0} /\ Len(V) = u - 1 /\ DOMAIN U = 1 .. u
          /\ DOMAIN V = 1 .. u - 1 /\ \A j \in 1 .. u - 1 : V[j] = U[j + 1]
      <3>1. V \in Seq(Event)
        BY <1>1, <2>1, <2>2 DEF Views
      <3> QED BY <1>1, <2>1, <2>2, <3>1, Shorter DEF Views
    <2>4. View(V, up'[Owner[c]], c)
      BY <1>7, <2>1, <2>2
    <2>5. Started(c) /\ Started(c)' /\ result'[c] # "whole"
      <3>1. Started(c) /\ result[c] # "whole"
        BY <1>1, <2>1 DEF Phase, Fresh, Over
      <3> QED BY <1>7, <3>1 DEF Started
    <2>6. Live(c)' => /\ Live(c)
                      /\ \/ Asking(c, D, O, I, U) \/ Failing(c, D, O) \/ Reaped(c, D) \/ Lost(c, D, O)
      <3>1. Live(c)' => Live(c)
        BY <1>7 DEF Live
      <3> QED BY <1>1, <2>1, <3>1 DEF Phase, Working, Answering
    <2>7. CASE k \notin reaped /\ inbox' = Append(inbox, e) /\ UNCHANGED <<down, refused>>
      <3>1. View(Append(I, e), Append(inbox, e), c)
        BY <1>1, <1>3, <1>4, <1>11, ViewGrows DEF Views
      <3>2. PICK J, l : J = Append(I, e) /\ l = Len(I)
        OBVIOUS
      <3>3. /\ J \in Seq(Event) /\ l \in Nat /\ Len(J) = l + 1 /\ DOMAIN J = 1 .. l + 1
            /\ J[l + 1] = e /\ \A j \in 1 .. l : J[j] = I[j]
            /\ DOMAIN I = 1 .. l
        BY <1>1, <1>3, <3>2, Longer DEF Views
      <3>4. Views(c, D, O, J, V)'
        BY <1>1, <1>7, <2>3, <2>4, <2>7, <3>1, <3>2, <3>3 DEF Views
      <3>5. ASSUME Asking(c, D, O, I, U), Live(c) PROVE Asking(c, D, O, J, V)'
        <4>1. PICK m : m = call[k]
          OBVIOUS
        <4>2. PICK p \in 0 .. m.sent :
                 /\ Assembled(c, p) /\ p + Len(I) + Len(U) = m.sent
                 /\ \A j \in DOMAIN I : I[j] = Fragment(m, p + j)
                 /\ \A j \in DOMAIN U : U[j] = Fragment(m, p + Len(I) + j)
          BY <2>1, <3>5, <4>1 DEF Asking
        <4>3. p \in Nat
          BY <4>1, <4>2 DEF CallersOK, Calling
        <4>4. PICK s : s = m.sent
          OBVIOUS
        <4>5. p + (l + 1) + (u - 1) = s
          <5>1. p + l + u = s
            BY <2>2, <3>2, <4>2, <4>4
          <5> QED BY <2>3, <3>3, <4>3, <5>1
        <4>6. \A j \in DOMAIN J : J[j] = Fragment(m, p + j)
          <5>1. e = Fragment(m, p + (l + 1))
            <6>1. 1 \in DOMAIN U /\ U[1] = e
              BY <2>1, <2>3
            <6>3. p + l + 1 = p + (l + 1)
              BY <3>3, <4>3
            <6>2. U[1] = Fragment(m, p + l + 1)
              <7>1. U[1] = Fragment(m, p + Len(I) + 1)
                BY <4>2, <6>1
              <7> QED BY <3>2, <7>1, Zenon
            <6> QED BY <6>1, <6>2, <6>3
          <5> QED BY SMTT(40), <3>3, <4>2, <5>1
        <4>7. \A j \in DOMAIN V : V[j] = Fragment(m, p + (l + 1) + j)
          <5>1. ASSUME NEW j \in DOMAIN V PROVE V[j] = Fragment(m, p + (l + 1) + j)
            <6>1. j \in Nat /\ j + 1 \in DOMAIN U /\ V[j] = U[j + 1]
              BY <2>3
            <6>2. U[j + 1] = Fragment(m, p + l + (j + 1))
              BY <3>2, <4>2, <6>1
            <6>3. p + l + (j + 1) = p + (l + 1) + j
              BY <3>3, <4>3, <6>1
            <6> QED BY <6>1, <6>2, <6>3
          <5> QED BY <5>1
        <4>8. Assembled(c, p)'
          BY <1>7, <4>2 DEF Assembled, loop
        <4>9. call'[Owner[c]] = m
          BY <1>7, <2>1, <4>1
        <4>10. /\ D = <<>> /\ O = <<>> /\ body'[Owner[c]] = 0
               /\ c \notin jobs' /\ c \notin refused' /\ reply'.corr # c
          BY <1>7, <2>7, <3>5 DEF Asking, loop
        <4>11. Len(J) = l + 1 /\ Len(V) = u - 1
          BY <2>3, <3>3
        <4>12. p \in 0 .. call'[Owner[c]].sent
          BY <4>2, <4>9
        <4>13. p + Len(J) + Len(V) = call'[Owner[c]].sent
          BY <4>4, <4>5, <4>9, <4>11
        <4>14. /\ \A j \in DOMAIN J : J[j] = Fragment(call'[Owner[c]], p + j)
               /\ \A j \in DOMAIN V : V[j] = Fragment(call'[Owner[c]], p + Len(J) + j)
          BY <4>6, <4>7, <4>9, <4>11
        <4> QED BY <4>8, <4>10, <4>12, <4>13, <4>14 DEF Asking
      <3>6. Failing(c, D, O) => Failing(c, D, O)'
        BY <1>7 DEF Failing, loop
      <3>7. Reaped(c, D) => Reaped(c, D)'
        BY <1>7 DEF Reaped
      <3>8. Lost(c, D, O) => Lost(c, D, O)'
        BY <1>7 DEF Lost, loop
      <3>9. Phase(c, D, O, J, V)'
        BY <2>5, <2>6, <3>5, <3>6, <3>7, <3>8 DEF Phase
      <3> QED BY <3>4, <3>9 DEF Sound
    <2>8. CASE k \notin reaped /\ down'[k] = Append(down[k], r) /\ inbox' = inbox
      <3>1. View(Append(D, r), Append(down[k], r), c)
        BY <1>1, <1>4, <1>6, <1>11, <2>1, ViewGrows DEF Views
      <3>2. PICK E, l : E = Append(D, r) /\ l = Len(D)
        OBVIOUS
      <3>3. /\ E \in Seq(DownFrame) /\ l \in Nat /\ Len(E) = l + 1
            /\ E[l + 1] = r /\ \A j \in 1 .. l : E[j] = D[j]
            /\ D = <<>> <=> l = 0
        BY <1>1, <1>6, <3>2, Longer DEF Views
      <3>4. Views(c, E, O, I, V)'
        BY <1>1, <1>7, <2>1, <2>3, <2>4, <2>8, <3>1, <3>2, <3>3 DEF Views
      <3>5. E # <<>>
        BY <3>3
      <3>6. ASSUME Live(c)' PROVE Failing(c, E, O)'
        <4>1. D = <<>> => E[1] = r
          BY <3>3
        <4>2. D # <<>> => E[1] = D[1]
          BY <3>3
        <4>3. D = <<>> \/ (D # <<>> /\ D[1].status # "OK")
          BY <2>1, <2>6, <2>8, <3>6 DEF Asking, Failing, Reaped, Lost
        <4>4. E[1].status # "OK"
          BY <1>6, <4>1, <4>2, <4>3
        <4> QED BY <3>5, <4>4 DEF Failing
      <3>7. Phase(c, E, O, I, V)'
        BY <2>5, <3>6 DEF Phase
      <3> QED BY <3>4, <3>7 DEF Sound
    <2>9. CASE (k \in reaped \/ e.corr \in refused) /\ UNCHANGED <<inbox, down, refused>>
      <3>1. Views(c, D, O, I, V)'
        BY <1>1, <1>7, <2>3, <2>4, <2>9 DEF Views
      <3>2. ASSUME Asking(c, D, O, I, U) PROVE Reaped(c, D)'
        <4>1. k \in reaped /\ D = <<>> /\ body[Owner[c]] = 0
          BY <1>11, <2>9, <3>2 DEF Asking
        <4>2. body'[Owner[c]] + Len(D) <= MaxChunks
          BY <1>7, <4>1, RuntimeAssumption
        <4> QED BY <1>7, <2>1, <4>1, <4>2 DEF Reaped
      <3>6. Failing(c, D, O) => Failing(c, D, O)'
        BY <1>7 DEF Failing, loop
      <3>7. Reaped(c, D) => Reaped(c, D)'
        BY <1>7 DEF Reaped
      <3>8. Lost(c, D, O) => Lost(c, D, O)'
        BY <1>7 DEF Lost, loop
      <3>9. Phase(c, D, O, I, V)'
        BY <2>5, <2>6, <3>2, <3>6, <3>7, <3>8 DEF Phase
      <3> QED BY <3>1, <3>9 DEF Sound
    <2> QED BY <1>8, <2>7, <2>8, <2>9
  <1> QED BY <1>10, <1>11

(* A part of an answer reaches its caller, or is dropped. *)
LEMMA AnswerPhase ==
  ASSUME ServerOK, CallersOK, CallersOK', Bounded,
         NEW c \in Correlations, Sound(c), NEW k \in Callers, Answer(k)
  PROVE  Sound(c)'
  <1>1. PICK D, O, I, U : Views(c, D, O, I, U) /\ Phase(c, D, O, I, U)
    BY DEF Sound
  <1>2. PICK r : r = Head(outbox)
    OBVIOUS
  <1>3. outbox # <<>> /\ outbox \in Seq(OutFrame) /\ r \in OutFrame /\ Owner[r.corr] = k
    <2>1. outbox # <<>> /\ outbox \in Seq(OutFrame) /\ Owner[r.corr] = k
      BY <1>2 DEF Answer, ServerOK, TypeOK, OutFrame
    <2> QED BY <1>2, <2>1, HeadInSeq
  <1>4. down[k] \in Seq(DownFrame) /\ r \in DownFrame
    BY <1>3 DEF CallersOK, OutFrame, DownFrame
  <1>5. /\ outbox' = Tail(outbox)
        /\ UNCHANGED <<at, call, body, reaped, result, inbox, up, refused, loop, answered, handled>>
    BY DEF Answer
  <1>6. \/ /\ k \notin reaped /\ down'[k] = Append(down[k], r)
           /\ \A l \in Callers \ {k} : down'[l] = down[l]
        \/ k \in reaped /\ UNCHANGED down
    BY <1>2 DEF Answer, CallersOK
  <1>7. Owner[c] \in Callers
    BY CallAssumption
  <1>8. CASE r.corr # c
    <2>1. Quiet(c)
      BY <1>5 DEF Quiet, loop
    <2>2. View(O, Tail(outbox), c)
      BY <1>1, <1>2, <1>3, <1>8, ViewStays DEF Views
    <2>3. View(D, down'[Owner[c]], c)
      <3>1. CASE Owner[c] = k
        <4>1. View(D, Append(down[k], r), c)
          BY <1>1, <1>4, <1>8, <3>1, ViewSkips DEF Views
        <4> QED BY <1>1, <1>6, <3>1, <4>1 DEF Views
      <3>2. CASE Owner[c] # k
        BY <1>1, <1>6, <1>7, <3>2 DEF Views
      <3> QED BY <3>1, <3>2
    <2>4. Views(c, D, O, I, U)'
      BY <1>1, <1>5, <2>2, <2>3 DEF Views
    <2> QED BY <1>1, <2>1, <2>4, QuietPhase DEF Sound
  <1>9. CASE r.corr = c
    <2>1. Owner[c] = k /\ O # <<>> /\ O[1] = r /\ View(Tail(O), Tail(outbox), c)
      <3>1. Owner[c] = k
        BY <1>3, <1>9
      <3>2. View(O, outbox, c) /\ O \in Seq(OutFrame)
        BY <1>1 DEF Views
      <3> QED BY <1>2, <1>3, <1>9, <3>1, <3>2, ViewShrinks
    <2>2. PICK P, o : P = Tail(O) /\ o = Len(O)
      OBVIOUS
    <2>3. /\ P \in Seq(OutFrame) /\ o \in Nat \ {0} /\ Len(P) = o - 1 /\ DOMAIN O = 1 .. o
          /\ DOMAIN P = 1 .. o - 1 /\ \A j \in 1 .. o - 1 : P[j] = O[j + 1]
      <3>1. P \in Seq(OutFrame)
        BY <1>1, <2>1, <2>2 DEF Views
      <3> QED BY <1>1, <2>1, <2>2, <3>1, Shorter DEF Views
    <2>4. View(P, outbox', c)
      BY <1>5, <2>1, <2>2
    <2>5. Started(c) /\ Started(c)'
      <3>1. Started(c)
        BY <1>1, <2>1 DEF Phase, Fresh
      <3> QED BY <1>5, <3>1 DEF Started
    <2>6. Live(c)' => Answering(c, D, O, I, U) \/ Failing(c, D, O) \/ Reaped(c, D)
      <3>1. Live(c)' => Live(c)
        BY <1>5 DEF Live
      <3> QED BY <1>1, <2>1, <3>1 DEF Phase, Asking, Working, Lost
    <2>7. result'[c] = "whole" => Over(c, I, U)'
      BY <1>1, <1>5 DEF Phase, Over, Whole
    <2>8. PICK d : d = Len(D) /\ d \in Nat /\ DOMAIN D = 1 .. d /\ (D = <<>> <=> d = 0)
      BY <1>1 DEF Views
    <2>9. PICK left : left = Left(c) /\ left \in Nat /\ left = Left(c)'
      <3>1. reply' = reply /\ Left(c) \in Nat
        BY <1>5 DEF Left, loop, ServerOK, TypeOK
      <3> QED BY <3>1 DEF Left
    <2>10. PICK n : n = d + o + left /\ n \in Nat /\ n > d
      BY <2>3, <2>8, <2>9
    <2>11. ASSUME Answering(c, D, O, I, U)
           PROVE  /\ answered[c] = body[k] + n /\ answered[c] <= MaxChunks
                  /\ \A j \in DOMAIN D : D[j].status = "OK" /\ (D[j].more <=> j < n)
                  /\ \A j \in DOMAIN O : O[j].status = "OK" /\ (O[j].more <=> d + j < n)
      <3>1. n = Len(D) + Len(O) + Left(c)
        BY <2>2, <2>8, <2>9, <2>10
      <3> QED BY <2>1, <2>8, <2>11, <3>1 DEF Answering
    <2>12. CASE k \notin reaped /\ down'[k] = Append(down[k], r)
      <3>1. View(Append(D, r), Append(down[k], r), c)
        BY <1>1, <1>4, <1>9, <2>1, ViewGrows DEF Views
      <3>2. PICK E : E = Append(D, r)
        OBVIOUS
      <3>3. /\ E \in Seq(DownFrame) /\ Len(E) = d + 1 /\ DOMAIN E = 1 .. d + 1
            /\ E[d + 1] = r /\ \A j \in 1 .. d : E[j] = D[j]
        BY <1>1, <1>4, <2>8, <3>2, Longer DEF Views
      <3>4. Views(c, E, P, I, U)'
        BY <1>1, <1>5, <2>1, <2>3, <2>4, <2>12, <3>1, <3>2, <3>3 DEF Views
      <3>5. ASSUME Answering(c, D, O, I, U) PROVE Answering(c, E, P, I, U)'
        <4>1. n = Len(E) + Len(P) + Left(c)'
          BY <2>3, <2>8, <2>9, <2>10, <3>3
        <4>2. \A j \in DOMAIN E : E[j].status = "OK" /\ (E[j].more <=> j < n)
          <5>1. r.status = "OK" /\ (r.more <=> d + 1 < n)
            BY <2>1, <2>3, <2>11, <3>5
          <5> QED BY <2>8, <2>11, <3>3, <3>5, <5>1
        <4>3. \A j \in DOMAIN P : P[j].status = "OK" /\ (P[j].more <=> Len(E) + j < n)
          <5>1. ASSUME NEW j \in DOMAIN P PROVE P[j].status = "OK" /\ (P[j].more <=> Len(E) + j < n)
            <6>1. j \in Nat /\ j + 1 \in DOMAIN O /\ P[j] = O[j + 1]
              BY <2>3
            <6>2. d + (j + 1) = (d + 1) + j
              BY <2>8, <6>1
            <6>3. O[j + 1].status = "OK" /\ (O[j + 1].more <=> (d + 1) + j < n)
              BY <2>11, <3>5, <6>1, <6>2
            <6> QED BY <3>3, <6>1, <6>3
          <5> QED BY <5>1
        <4>4. answered[c] = body[Owner[c]] + n /\ answered[c] <= MaxChunks
          BY <2>1, <2>11, <3>5
        <4> QED BY <1>5, <3>5, <4>1, <4>2, <4>3, <4>4 DEF Answering, Whole, loop
      <3>6. ASSUME Failing(c, D, O) PROVE Failing(c, E, P)'
        <4>1. D = <<>> => E[1] = O[1] /\ O[1].status # "OK"
          BY <2>1, <2>8, <3>3, <3>6 DEF Failing
        <4>2. D # <<>> => E[1] = D[1] /\ D[1].status # "OK"
          BY <2>8, <3>3, <3>6 DEF Failing
        <4>3. E # <<>>
          BY <2>8, <3>3
        <4> QED BY <4>1, <4>2, <4>3 DEF Failing
      <3>7. ~Reaped(c, D)
        BY <2>1, <2>12 DEF Reaped
      <3>8. Phase(c, E, P, I, U)'
        BY <2>5, <2>6, <2>7, <3>5, <3>6, <3>7 DEF Phase
      <3> QED BY <3>4, <3>8 DEF Sound
    <2>13. CASE k \in reaped /\ UNCHANGED down
      <3>1. Views(c, D, P, I, U)'
        BY <1>1, <1>5, <2>3, <2>4, <2>13 DEF Views
      <3>2. ASSUME Answering(c, D, O, I, U) PROVE Reaped(c, D)'
        <4>1. \A j \in DOMAIN D : D[j].status = "OK" => D[j].more
          BY <2>8, <2>10, <2>11, <3>2
        <4>2. body[k] + Len(D) <= MaxChunks
          <5>1. body[k] \in Nat
            BY DEF CallersOK
          <5>2. body[k] + n <= MaxChunks
            BY <2>11, <3>2
          <5>3. PICK b : b = body[k]
            OBVIOUS
          <5>4. b + d <= MaxChunks
            BY <2>8, <2>10, <5>1, <5>2, <5>3, RuntimeAssumption
          <5> QED BY <2>8, <5>3, <5>4
        <4> QED BY <1>5, <2>1, <2>13, <4>1, <4>2 DEF Reaped
      <3>3. ASSUME Failing(c, D, O) PROVE Failing(c, D, P)' \/ Reaped(c, D)'
        <4>1. CASE D # <<>>
          BY <3>3, <4>1 DEF Failing
        <4>2. CASE D = <<>>
          <5>1. body[k] + Len(D) <= MaxChunks
            <6>1. body[k] \in Nat /\ body[k] <= MaxChunks
              BY DEF CallersOK, Bounded
            <6> QED BY <2>8, <4>2, <6>1
          <5> QED BY <1>5, <2>1, <2>13, <4>2, <5>1 DEF Reaped
        <4> QED BY <4>1, <4>2
      <3>4. Reaped(c, D) => Reaped(c, D)'
        BY <1>5 DEF Reaped
      <3>5. Phase(c, D, P, I, U)'
        BY <2>5, <2>6, <2>7, <3>2, <3>3, <3>4 DEF Phase
      <3> QED BY <3>1, <3>5 DEF Sound
    <2> QED BY <1>6, <2>12, <2>13
  <1> QED BY <1>8, <1>9

(* A slot is reaped, time passes, the host or the context goes: no call notices. *)
LEMMA WorldPhase ==
  ASSUME CallersOK, CallersOK', NEW c \in Correlations, Sound(c),
         World \/ UNCHANGED allVars \/ \E k \in Callers : Reap(k)
  PROVE  Sound(c)'
  <1>1. /\ UNCHANGED <<at, call, body, up, down, refused, result, answered, handled,
                       inbox, outbox, loop>>
        /\ reaped \subseteq reaped'
    BY DEF World, ChangeEpoch, CancelContext, Tick, Reap, serverVars, vars, host, allVars, callVars
  <1>2. Quiet(c)
    BY <1>1 DEF Quiet, loop
  <1> QED BY <1>1, <1>2, QuietSound
-----------------------------------------------------------------------------
CallerStill == UNCHANGED <<serverVars, refused, answered, handled>>

(* What a caller does with one call is nothing to the calls of other callers... *)
LEMMA OthersPhase ==
  ASSUME CallersOK, CallersOK', NEW c \in Correlations, Sound(c),
         NEW k \in Callers, Caller(k), Owner[c] # k
  PROVE  Sound(c)'
  <1>0. Owner[c] \in Callers /\ Owner[c] # k
    BY CallAssumption
  <1>1. CallerStill
    BY DEF Caller, CallerStill
  <1>2. /\ \A l \in Callers \ {k} : /\ at'[l] = at[l] /\ call'[l] = call[l] /\ body'[l] = body[l]
                                    /\ up'[l] = up[l] /\ down'[l] = down[l]
        /\ reaped' = reaped /\ result'[c] = result[c]
    <2>1. CASE Begin(k)
      BY <2>1 DEF Begin, CallersOK
    <2>2. CASE AwaitFails(k)
      BY <2>2 DEF AwaitFails, CallersOK
    <2>3. ASSUME NEW how \in {"unsent", "failed", "whole", "wrong"}, End(k, how), at[k] # "idle"
          PROVE  /\ \A l \in Callers \ {k} : at'[l] = at[l] /\ call'[l] = call[l] /\ body'[l] = body[l]
                 /\ result'[c] = result[c]
      <3>1. /\ \A l \in Callers \ {k} : at'[l] = at[l] /\ call'[l] = call[l] /\ body'[l] = body[l]
            /\ Owner[call[k].corr] = k
            /\ \A b \in Correlations : b # call[k].corr => result'[b] = result[b]
        BY <2>3, EndKeeps
      <3> QED BY <1>0, <3>1
    <2>4. CASE Send(k)
      <3>1. CASE End(k, "unsent") /\ UNCHANGED <<up, down, reaped>>
        BY <2>3, <2>4, <3>1 DEF Send
      <3>2. CASE ~(epochChanged \/ Len(up[k]) >= UpCap)
        BY <2>4, <3>2 DEF Send, CallersOK
      <3> QED BY <2>4, <3>1, <3>2 DEF Send
    <2>5. CASE AwaitEvent(k)
      <3>1. UNCHANGED <<up, reaped>> /\ \A l \in Callers \ {k} : down'[l] = down[l]
        BY <2>5 DEF AwaitEvent, CallersOK
      <3>2. CASE \E how \in {"whole", "wrong"} : End(k, how)
        BY <2>3, <2>5, <3>1, <3>2 DEF AwaitEvent
      <3>3. CASE result' = result /\ call' = call /\ (at' = at \/ at' = [at EXCEPT ![k] = "cancel"])
                 /\ (body' = body \/ body' = [body EXCEPT ![k] = @ + 1])
        BY <3>1, <3>3 DEF CallersOK
      <3> QED BY <2>5, <3>2, <3>3 DEF AwaitEvent
    <2>6. CASE Cancel(k)
      <3>1. UNCHANGED <<down, reaped>> /\ \A l \in Callers \ {k} : up'[l] = up[l]
        BY <2>6 DEF Cancel, CallersOK
      <3> QED BY <2>3, <2>6, <3>1 DEF Cancel
    <2> QED BY <2>1, <2>2, <2>4, <2>5, <2>6 DEF Caller
  <1>3. Quiet(c)
    BY <1>0, <1>1, <1>2 DEF Quiet, CallerStill, serverVars, vars, loop
  <1> QED BY <1>0, <1>1, <1>2, <1>3, QuietSound DEF CallerStill, serverVars, vars, host

(* ... nor to the calls it has not in hand afterwards, but for a whole answer. *)
LEMMA Bystander ==
  ASSUME CallerStill, NEW c \in Correlations,
         NEW D, NEW O, NEW I, NEW U, Phase(c, D, O, I, U), ~Live(c)',
         Started(c) => Started(c)', result'[c] = "whole" => result[c] = "whole"
  PROVE  Phase(c, D, O, I, U)'
  <1>1. ASSUME ~Started(c)' PROVE Fresh(c, D, O, I, U)'
    <2>1. Fresh(c, D, O, I, U)
      BY <1>1 DEF Phase
    <2>2. Assembled(c, 0)'
      BY <2>1 DEF Fresh, Assembled, CallerStill, serverVars, vars, loop
    <2> QED BY <2>1, <2>2 DEF Fresh, CallerStill, serverVars, vars, loop
  <1>2. result'[c] = "whole" => Over(c, I, U)'
    BY DEF Phase, Over, Whole, CallerStill
  <1> QED BY <1>1, <1>2 DEF Phase

LEMMA SamePlaces ==
  ASSUME CallerStill, UNCHANGED <<up, down>>, NEW c \in Correlations,
         NEW D, NEW O, NEW I, NEW U, Views(c, D, O, I, U)
  PROVE  Views(c, D, O, I, U)'
  BY DEF Views, CallerStill, serverVars, vars, host

(* A call that ends without an answer. *)
LEMMA EndGivesUp ==
  ASSUME CallersOK, CallersOK', NEW k \in Callers, at[k] # "idle",
         NEW how \in {"unsent", "failed"}, End(k, how),
         NEW c \in Correlations, Owner[c] = k
  PROVE  /\ ~Live(c)' /\ (Started(c) => Started(c)')
         /\ (result'[c] = "whole" => result[c] = "whole")
         /\ c = call[k].corr => Started(c)' /\ result'[c] # "whole"
  <1>1. at'[k] = "idle" /\ result'[call[k].corr] = how
        /\ \A b \in Correlations : b # call[k].corr => result'[b] = result[b]
    BY EndKeeps
  <1>2. ~Live(c)'
    BY <1>1 DEF Live
  <1>3. Started(c) <=> result[c] # "none" \/ call[k].corr = c
    BY StartedNext DEF StartedWhen
  <1>4. Started(c)' <=> result'[c] # "none" \/ call'[k].corr = c
    BY StartedNext DEF StartedWhen
  <1>5. CASE c = call[k].corr
    BY <1>1, <1>2, <1>4, <1>5
  <1>6. CASE c # call[k].corr
    BY <1>1, <1>2, <1>3, <1>4, <1>6
  <1> QED BY <1>5, <1>6

(* A call begins: nothing of it is under way. *)
LEMMA BeginPhase ==
  ASSUME CallersOK, CallersOK', NEW c \in Correlations, Sound(c),
         NEW k \in Callers, Begin(k), CallerStill, Owner[c] = k
  PROVE  Sound(c)'
  <1>1. PICK D, O, I, U : Views(c, D, O, I, U) /\ Phase(c, D, O, I, U)
    BY DEF Sound
  <1>2. PICK b \in Correlations, n \in 1 .. MaxFrags, d \in Deadlines :
           /\ ~Started(b)
           /\ call' = [call EXCEPT ![k] = [corr |-> b, frags |-> n, sent |-> 0, deadline |-> d]]
    BY DEF Begin
  <1>3. at[k] = "idle" /\ at' = [at EXCEPT ![k] = "send"] /\ UNCHANGED <<body, up, down, reaped, result>>
    BY DEF Begin
  <1>4. call'[k].corr = b /\ call'[k].sent = 0 /\ at'[k] = "send" /\ body[k] = 0 /\ call[k] = NoCall
    BY <1>2, <1>3 DEF CallersOK, InHand
  <1>5. Views(c, D, O, I, U)'
    BY <1>1, <1>3, SamePlaces
  <1>6. CASE c # b
    <2>1. ~Live(c)'
      BY <1>4, <1>6 DEF Live
    <2>2. Started(c) => Started(c)'
      <3>1. Started(c) <=> result[c] # "none" \/ call[k].corr = c
        BY StartedNext DEF StartedWhen
      <3>2. Started(c)' <=> result'[c] # "none" \/ call'[k].corr = c
        BY StartedNext DEF StartedWhen
      <3> QED BY <1>3, <1>4, <3>1, <3>2, CallAssumption DEF NoCall
    <2> QED BY <1>1, <1>3, <1>5, <2>1, <2>2, Bystander DEF Sound
  <1>7. CASE c = b
    <2>1. Started(c)' /\ result'[c] # "whole"
      <3>1. Started(c)'
        BY <1>4, <1>7 DEF Started
      <3> QED BY <1>2, <1>3, <1>7, <3>1 DEF Started
    <2>2. Fresh(c, D, O, I, U)
      BY <1>1, <1>2, <1>7 DEF Phase
    <2>3. Assembled(c, 0)'
      BY <2>2 DEF Fresh, Assembled, CallerStill, serverVars, vars, loop
    <2>4. Len(I) = 0 /\ Len(U) = 0 /\ DOMAIN I = {} /\ DOMAIN U = {} /\ 0 \in 0 .. 0 /\ 0 + 0 + 0 = 0
      BY <2>2 DEF Fresh
    <2>5. Asking(c, D, O, I, U)'
      <3>1. call'[Owner[c]].sent = 0 /\ body'[Owner[c]] = 0
        BY <1>3, <1>4
      <3>2. /\ D = <<>> /\ O = <<>>
            /\ c \notin jobs' /\ c \notin refused' /\ reply'.corr # c
        BY <2>2 DEF Fresh, CallerStill, serverVars, vars, loop
      <3> QED BY <2>3, <2>4, <3>1, <3>2 DEF Asking
    <2>6. Phase(c, D, O, I, U)'
      BY <2>1, <2>5 DEF Phase
    <2> QED BY <1>5, <2>6 DEF Sound
  <1> QED BY <1>6, <1>7

(* The wait ends without an answer. *)
LEMMA FailsPhase ==
  ASSUME CallersOK, CallersOK', NEW c \in Correlations, Sound(c),
         NEW k \in Callers, AwaitFails(k), CallerStill, Owner[c] = k
  PROVE  Sound(c)'
  <1>1. PICK D, O, I, U : Views(c, D, O, I, U) /\ Phase(c, D, O, I, U)
    BY DEF Sound
  <1>2. at'[k] = "cancel" /\ UNCHANGED <<call, body, up, down, reaped, result>>
    BY DEF AwaitFails, CallersOK
  <1>3. Views(c, D, O, I, U)'
    BY <1>1, <1>2, SamePlaces
  <1>4. ~Live(c)'
    BY <1>2 DEF Live
  <1>5. Started(c) => Started(c)'
    BY <1>2 DEF Started
  <1>6. Phase(c, D, O, I, U)'
    BY <1>1, <1>2, <1>4, <1>5, Bystander
  <1> QED BY <1>3, <1>6 DEF Sound

(* A fragment is sent, or does not fit. *)
LEMMA SendPhase ==
  ASSUME CallersOK, CallersOK', NEW c \in Correlations, Sound(c),
         NEW k \in Callers, Send(k), CallerStill, Owner[c] = k
  PROVE  Sound(c)'
  <1>1. PICK D, O, I, U : Views(c, D, O, I, U) /\ Phase(c, D, O, I, U)
    BY DEF Sound
  <1>2. at[k] = "send"
    BY DEF Send
  <1>3. CASE End(k, "unsent") /\ UNCHANGED <<up, down, reaped>>
    <2>1. Views(c, D, O, I, U)'
      BY <1>1, <1>3, SamePlaces
    <2>2. /\ ~Live(c)' /\ (Started(c) => Started(c)')
          /\ (result'[c] = "whole" => result[c] = "whole")
      BY <1>2, <1>3, EndGivesUp
    <2>3. Phase(c, D, O, I, U)'
      BY <1>1, <2>2, Bystander
    <2> QED BY <2>1, <2>3 DEF Sound
  <1>4. CASE ~(epochChanged \/ Len(up[k]) >= UpCap)
    <2>1. PICK m : m = call[k]
      OBVIOUS
    <2>2. /\ m \in Calling /\ m.corr \in Correlations /\ m.sent \in Nat /\ m.sent < m.frags
          /\ m.frags \in 1 .. MaxFrags /\ Owner[m.corr] = k /\ result[m.corr] = "none"
      BY <1>2, <2>1 DEF CallersOK, InHand, Calling
    <2>3. PICK e : e = Fragment(m, m.sent + 1)
      OBVIOUS
    <2>4. /\ up' = [up EXCEPT ![k] = Append(@, e)] /\ call' = [call EXCEPT ![k].sent = @ + 1]
          /\ at' = [at EXCEPT ![k] = IF m.sent + 1 < m.frags THEN "send" ELSE "await"]
          /\ UNCHANGED <<body, down, reaped, result>>
      BY <1>4, <2>1, <2>3 DEF Send, Fragment
    <2>5. e \in Event /\ e.corr = m.corr
      <3>1. <<m.sent + 1>> \in Bodies
        BY <2>2, CallAssumption
      <3>2. (m.sent + 1 < m.frags) \in BOOLEAN
        OBVIOUS
      <3>3. m.deadline \in Deadlines
        BY <2>2 DEF Calling
      <3> QED BY <2>2, <2>3, <3>1, <3>2, <3>3 DEF Event, Fragment
    <2>6. PICK w : w = call'[k]
      OBVIOUS
    <2>7. w = [m EXCEPT !.sent = @ + 1]
      BY <2>1, <2>4, <2>6 DEF CallersOK
    <2>8. /\ w.corr = m.corr /\ w.frags = m.frags /\ w.deadline = m.deadline /\ w.sent = m.sent + 1
          /\ \A i : Fragment(w, i) = Fragment(m, i)
      BY <2>2, <2>7 DEF Calling, Fragment
    <2>9. up[k] \in Seq(Event) /\ up'[k] = Append(up[k], e)
      BY <2>4 DEF CallersOK
    <2>10. Started(c) <=> Started(c)'
      <3>1. Started(c) <=> result[c] # "none" \/ m.corr = c
        BY <2>1, StartedNext DEF StartedWhen
      <3>2. Started(c)' <=> result'[c] # "none" \/ m.corr = c
        BY <2>6, <2>8, StartedNext DEF StartedWhen
      <3> QED BY <2>4, <3>1, <3>2
    <2>11. CASE m.corr # c
      <3>1. ~Live(c)'
        BY <2>6, <2>8, <2>11 DEF Live
      <3>2. View(U, Append(up[k], e), c)
        BY <1>1, <2>5, <2>9, <2>11, ViewSkips DEF Views
      <3>3. Views(c, D, O, I, U)'
        BY <1>1, <2>4, <2>9, <3>2 DEF Views, CallerStill, serverVars, vars, host
      <3>4. Phase(c, D, O, I, U)'
        BY <1>1, <2>4, <2>10, <3>1, Bystander
      <3> QED BY <3>3, <3>4 DEF Sound
    <2>12. CASE m.corr = c
      <3>1. View(Append(U, e), Append(up[k], e), c)
        BY <1>1, <2>5, <2>9, <2>12, ViewGrows DEF Views
      <3>2. PICK V, u : V = Append(U, e) /\ u = Len(U)
        OBVIOUS
      <3>3. /\ V \in Seq(Event) /\ u \in Nat /\ Len(V) = u + 1 /\ DOMAIN U = 1 .. u
            /\ DOMAIN V = 1 .. u + 1 /\ V[u + 1] = e /\ \A j \in 1 .. u : V[j] = U[j]
        BY <1>1, <2>5, <3>2, Longer DEF Views
      <3>4. Views(c, D, O, I, V)'
        BY <1>1, <2>4, <2>9, <3>1, <3>2, <3>3 DEF Views, CallerStill, serverVars, vars, host
      <3>5. Live(c) /\ Started(c)' /\ result'[c] # "whole"
        <4>1. Live(c)
          BY <1>2, <2>1, <2>12 DEF Live
        <4> QED BY <2>1, <2>2, <2>4, <2>10, <2>12, <4>1 DEF Started
      <3>6. \/ Asking(c, D, O, I, U) \/ Failing(c, D, O) \/ Reaped(c, D) \/ Lost(c, D, O)
        BY <1>1, <1>2, <3>5 DEF Phase, Working, Answering
      <3>7. ASSUME Asking(c, D, O, I, U) PROVE Asking(c, D, O, I, V)'
        <4>1. PICK p \in 0 .. m.sent :
                 /\ Assembled(c, p) /\ p + Len(I) + Len(U) = m.sent
                 /\ \A j \in DOMAIN I : I[j] = Fragment(m, p + j)
                 /\ \A j \in DOMAIN U : U[j] = Fragment(m, p + Len(I) + j)
          BY <2>1, <3>7 DEF Asking
        <4>2. PICK l : l = Len(I) /\ l \in Nat
          BY <1>1 DEF Views
        <4>3. p \in Nat
          BY <2>2, <4>1
        <4>4. p + l + (u + 1) = w.sent /\ p \in 0 .. w.sent
          <5>1. PICK s : s = m.sent
            OBVIOUS
          <5>2. p + l + u = s /\ p \in 0 .. s /\ s \in Nat
            BY <2>2, <3>2, <4>1, <4>2, <5>1
          <5>3. p + l + (u + 1) = s + 1 /\ p \in 0 .. s + 1
            BY <3>3, <4>2, <4>3, <5>2
          <5> QED BY <2>8, <5>1, <5>3
        <4>5. \A j \in DOMAIN V : V[j] = Fragment(m, p + l + j)
          <5>1. e = Fragment(m, p + l + (u + 1))
            <6>1. m.sent + 1 = p + l + (u + 1)
              BY <2>8, <4>4
            <6> QED BY <2>3, <6>1, Zenon
          <5>2. \A j \in 1 .. u : V[j] = Fragment(m, p + l + j)
            BY <3>3, <4>1, <4>2
          <5> QED BY <3>3, <5>1, <5>2
        <4>6. Assembled(c, p)'
          BY <2>1, <2>6, <2>8, <4>1 DEF Assembled, CallerStill, serverVars, vars, loop
        <4>7. /\ D = <<>> /\ O = <<>> /\ body'[Owner[c]] = 0
              /\ c \notin jobs' /\ c \notin refused' /\ reply'.corr # c
          BY <2>4, <3>7 DEF Asking, CallerStill, serverVars, vars, loop
        <4>8. /\ \A j \in DOMAIN I : I[j] = Fragment(w, p + j)
              /\ \A j \in DOMAIN V : V[j] = Fragment(w, p + l + j)
          BY <2>8, <4>1, <4>5
        <4> QED BY <2>6, <3>3, <4>2, <4>4, <4>6, <4>7, <4>8 DEF Asking
      <3>8. Failing(c, D, O) => Failing(c, D, O)'
        BY DEF Failing, CallerStill, serverVars, vars, loop
      <3>9. Reaped(c, D) => Reaped(c, D)'
        BY <2>4 DEF Reaped
      <3>10. Lost(c, D, O) => Lost(c, D, O)'
        BY DEF Lost, CallerStill, serverVars, vars, loop
      <3>11. Phase(c, D, O, I, V)'
        BY <3>5, <3>6, <3>7, <3>8, <3>9, <3>10 DEF Phase
      <3> QED BY <3>4, <3>11 DEF Sound
    <2> QED BY <2>11, <2>12
  <1> QED BY <1>3, <1>4 DEF Send

(* A call that gives up leaves a cancel on its way. *)
LEMMA CancelPhase ==
  ASSUME CallersOK, CallersOK', NEW c \in Correlations, Sound(c),
         NEW k \in Callers, Cancel(k), CallerStill, Owner[c] = k
  PROVE  Sound(c)'
  <1>1. PICK D, O, I, U : Views(c, D, O, I, U) /\ Phase(c, D, O, I, U)
    BY DEF Sound
  <1>2. PICK e : e = [corr |-> call[k].corr, type |-> "cancel", ok |-> FALSE, deadline |-> 0,
                      body |-> <<>>, more |-> FALSE]
    OBVIOUS
  <1>3. /\ End(k, "failed") /\ UNCHANGED <<down, reaped>> /\ at[k] = "cancel"
        /\ (up' = up \/ up' = [up EXCEPT ![k] = Append(@, e)])
    BY <1>2 DEF Cancel
  <1>4. e \in Event /\ e.corr = call[k].corr
    BY <1>2, <1>3, RuntimeAssumption DEF Event, InHand, CallersOK
  <1>5. at[k] # "idle"
    BY <1>3
  <1>6. /\ ~Live(c)' /\ (Started(c) => Started(c)')
        /\ (result'[c] = "whole" => result[c] = "whole")
        /\ (c = call[k].corr => Started(c)' /\ result'[c] # "whole")
    BY <1>3, <1>5, EndGivesUp
  <1>7. CASE up' = up
    <2>1. Views(c, D, O, I, U)'
      BY <1>1, <1>3, <1>7, SamePlaces
    <2>2. Phase(c, D, O, I, U)'
      BY <1>1, <1>6, Bystander
    <2> QED BY <2>1, <2>2 DEF Sound
  <1>8. CASE up' = [up EXCEPT ![k] = Append(@, e)]
    <2>1. up[k] \in Seq(Event) /\ up'[k] = Append(up[k], e)
      BY <1>8 DEF CallersOK
    <2>2. CASE c # call[k].corr
      <3>1. View(U, Append(up[k], e), c)
        BY <1>1, <1>4, <2>1, <2>2, ViewSkips DEF Views
      <3>2. Views(c, D, O, I, U)'
        BY <1>1, <1>3, <2>1, <3>1 DEF Views, CallerStill, serverVars, vars, host
      <3>3. Phase(c, D, O, I, U)'
        BY <1>1, <1>6, Bystander
      <3> QED BY <3>2, <3>3 DEF Sound
    <2>3. CASE c = call[k].corr
      <3>1. View(Append(U, e), Append(up[k], e), c)
        BY <1>1, <1>4, <2>1, <2>3, ViewGrows DEF Views
      <3>2. Append(U, e) \in Seq(Event)
        BY <1>1, <1>4 DEF Views
      <3>3. PICK V : V = Append(U, e)
        OBVIOUS
      <3>4. Views(c, D, O, I, V)'
        BY <1>1, <1>3, <2>1, <3>1, <3>2, <3>3 DEF Views, CallerStill, serverVars, vars, host
      <3>5. Phase(c, D, O, I, V)'
        BY <1>6, <2>3, GivenUp
      <3> QED BY <3>4, <3>5 DEF Sound
    <2> QED BY <2>2, <2>3
  <1> QED BY <1>3, <1>7, <1>8

(* A good frame of the call in hand is a part of its answer, or the last it will get. *)
LEMMA Received ==
  ASSUME CallersOK, NEW k \in Callers, AwaitEvent(k),
         NEW c \in Correlations, c = call[k].corr, Sound(c),
         Head(down[k]).corr = c, Head(down[k]).status = "OK"
  PROVE  \E D, O, I, U :
            /\ Views(c, D, O, I, U) /\ Owner[c] = k /\ D # <<>> /\ D[1] = Head(down[k])
            /\ View(Tail(D), Tail(down[k]), c)
            /\ Answering(c, D, O, I, U) \/ (Reaped(c, D) /\ D[1].more)
  <1>1. PICK D, O, I, U : Views(c, D, O, I, U) /\ Phase(c, D, O, I, U)
    BY DEF Sound
  <1>2. at[k] = "await" /\ down[k] # <<>> /\ down[k] \in Seq(DownFrame) /\ Owner[c] = k
    BY DEF AwaitEvent, CallersOK, InHand
  <1>3. View(D, down[k], c) /\ D \in Seq(DownFrame)
    BY <1>1, <1>2 DEF Views
  <1>4. D # <<>> /\ D[1] = Head(down[k]) /\ View(Tail(D), Tail(down[k]), c)
    BY <1>2, <1>3, ViewShrinks
  <1>5. Live(c)
    BY <1>2 DEF Live
  <1>6. Answering(c, D, O, I, U) \/ Reaped(c, D)
    BY <1>1, <1>4, <1>5 DEF Phase, Asking, Working, Failing, Lost
  <1>7. 1 \in DOMAIN D
    BY <1>3, <1>4
  <1>8. Reaped(c, D) => D[1].more
    BY <1>4, <1>7 DEF Reaped
  <1> QED BY <1>1, <1>2, <1>4, <1>6, <1>8

(* The result that ends a call is whole. *)
LEMMA WholeResult ==
  ASSUME ServerOK, CallersOK, NEW k \in Callers, AwaitEvent(k),
         NEW c \in Correlations, c = call[k].corr, Sound(c),
         Head(down[k]).corr = c, Head(down[k]).status = "OK", ~Head(down[k]).more
  PROVE  /\ body[k] + 1 = answered[c]
         /\ \E D, O, I, U : Views(c, D, O, I, U) /\ View(Tail(D), Tail(down[k]), c) /\ D # <<>>
                            /\ I = <<>> /\ U = <<>> /\ Whole(c)
  <1>1. PICK D, O, I, U :
           /\ Views(c, D, O, I, U) /\ Owner[c] = k /\ D # <<>> /\ D[1] = Head(down[k])
           /\ View(Tail(D), Tail(down[k]), c)
           /\ Answering(c, D, O, I, U) \/ (Reaped(c, D) /\ D[1].more)
    BY Received
  <1>2. Answering(c, D, O, I, U)
    BY <1>1
  <1>3. PICK d : d = Len(D) /\ d \in Nat \ {0} /\ 1 \in DOMAIN D
    BY SMTT(40), <1>1 DEF Views
  <1>10. PICK o, left : o = Len(O) /\ o \in Nat /\ left = Left(c)
    BY <1>1 DEF Views
  <1>4. answered[c] = body[k] + (d + o + left) /\ (D[1].more <=> 1 < d + o + left)
    BY <1>1, <1>2, <1>3, <1>10 DEF Answering
  <1>5. PICK n : n = d + o + left
    OBVIOUS
  <1>6. ~(1 < n)
    BY <1>1, <1>4, <1>5
  <1>7. left \in Nat
    BY <1>10 DEF Left, ServerOK, TypeOK
  <1>8. n = 1
    BY <1>3, <1>10, <1>5, <1>6, <1>7
  <1>9. body[k] + 1 = answered[c]
    BY <1>4, <1>5, <1>8
  <1> QED BY <1>1, <1>2, <1>9 DEF Answering

(* The caller takes a frame: of another call, an error, a part, or the last part. *)
LEMMA ReceivePhase ==
  ASSUME ServerOK, CallersOK, CallersOK', NEW c \in Correlations, Sound(c),
         NEW k \in Callers, AwaitEvent(k), CallerStill, Owner[c] = k
  PROVE  Sound(c)'
  <1>1. PICK e : e = Head(down[k])
    OBVIOUS
  <1>2. at[k] = "await" /\ down[k] # <<>> /\ down[k] \in Seq(DownFrame)
        /\ call[k].corr \in Correlations /\ result[call[k].corr] = "none"
    BY DEF AwaitEvent, CallersOK, InHand
  <1>3. down'[k] = Tail(down[k]) /\ UNCHANGED <<up, reaped, outbox, inbox, loop, refused, answered, handled>>
    BY DEF AwaitEvent, CallersOK, CallerStill, serverVars, vars, host
  <1>4. \/ e.corr # call[k].corr /\ UNCHANGED <<at, call, body, result>>
        \/ /\ e.corr = call[k].corr /\ e.status # "OK"
           /\ at' = [at EXCEPT ![k] = "cancel"] /\ UNCHANGED <<call, body, result>>
        \/ /\ e.corr = call[k].corr /\ e.status = "OK" /\ e.more
           /\ body' = [body EXCEPT ![k] = @ + 1] /\ UNCHANGED <<at, call, result>>
        \/ /\ e.corr = call[k].corr /\ e.status = "OK" /\ ~e.more
           /\ End(k, IF body[k] + 1 = answered[call[k].corr] THEN "whole" ELSE "wrong")
    BY <1>1 DEF AwaitEvent, Matches
  <1>5. ASSUME NEW D, NEW O, NEW I, NEW U, Views(c, D, O, I, U),
               NEW E, E \in Seq(DownFrame), View(E, Tail(down[k]), c)
        PROVE  Views(c, E, O, I, U)'
    BY <1>3, <1>5 DEF Views
  <1>6. CASE c # call[k].corr
    <2>1. PICK D, O, I, U : Views(c, D, O, I, U) /\ Phase(c, D, O, I, U)
      BY DEF Sound
    <2>2. View(D, down[k], c) /\ D \in Seq(DownFrame)
      BY <2>1 DEF Views
    <2>3. call'[k].corr # c /\ result'[c] = result[c]
      <3>1. CASE End(k, "whole") \/ End(k, "wrong")
        BY <1>2, <1>6, <3>1, EndKeeps, CallAssumption DEF NoCall
      <3> QED BY <1>4, <1>6, <3>1
    <2>4. ~Live(c)'
      BY <2>3 DEF Live
    <2>5. Started(c) <=> Started(c)'
      <3>1. Started(c) <=> result[c] # "none" \/ call[k].corr = c
        BY StartedNext DEF StartedWhen
      <3>2. Started(c)' <=> result'[c] # "none" \/ call'[k].corr = c
        BY StartedNext DEF StartedWhen
      <3> QED BY <1>6, <2>3, <3>1, <3>2
    <2>6. CASE e.corr # c
      <3>1. View(D, Tail(down[k]), c)
        BY <1>1, <1>2, <2>2, <2>6, ViewStays
      <3>2. Views(c, D, O, I, U)'
        BY <1>5, <2>1, <2>2, <3>1
      <3>3. Phase(c, D, O, I, U)'
        BY <2>1, <2>3, <2>4, <2>5, Bystander
      <3> QED BY <3>2, <3>3 DEF Sound
    <2>7. CASE e.corr = c
      <3>1. D # <<>> /\ View(Tail(D), Tail(down[k]), c)
        BY <1>1, <1>2, <2>2, <2>7, ViewShrinks
      <3>2. PICK E : E = Tail(D)
        OBVIOUS
      <3>7. E \in Seq(DownFrame)
        BY <2>2, <3>1, <3>2
      <3>3. Views(c, E, O, I, U)'
        BY <1>5, <2>1, <3>1, <3>2, <3>7
      <3>4. Started(c)'
        BY <2>1, <2>5, <3>1 DEF Phase, Fresh
      <3>5. result'[c] = "whole" => Over(c, I, U)'
        BY <1>3, <2>1, <2>3 DEF Phase, Over, Whole
      <3>6. Phase(c, E, O, I, U)'
        BY <2>4, <3>4, <3>5 DEF Phase
      <3> QED BY <3>3, <3>6 DEF Sound
    <2> QED BY <2>6, <2>7
  <1>7. CASE c = call[k].corr /\ e.corr # c
    <2>1. PICK D, O, I, U : Views(c, D, O, I, U) /\ Phase(c, D, O, I, U)
      BY DEF Sound
    <2>2. View(D, down[k], c) /\ D \in Seq(DownFrame)
      BY <2>1 DEF Views
    <2>3. View(D, Tail(down[k]), c)
      BY <1>1, <1>2, <1>7, <2>2, ViewStays
    <2>4. Views(c, D, O, I, U)'
      BY <1>5, <2>1, <2>2, <2>3
    <2>5. Quiet(c)
      BY <1>3, <1>4, <1>7 DEF Quiet, loop
    <2>6. Phase(c, D, O, I, U)'
      BY <2>1, <2>5, QuietPhase
    <2> QED BY <2>4, <2>6 DEF Sound
  <1>8. CASE c = call[k].corr /\ e.corr = c /\ e.status # "OK"
    <2>1. PICK D, O, I, U : Views(c, D, O, I, U) /\ Phase(c, D, O, I, U)
      BY DEF Sound
    <2>2. View(D, down[k], c) /\ D \in Seq(DownFrame)
      BY <2>1 DEF Views
    <2>3. D # <<>> /\ View(Tail(D), Tail(down[k]), c)
      BY <1>1, <1>2, <1>8, <2>2, ViewShrinks
    <2>4. PICK E : E = Tail(D)
      OBVIOUS
    <2>9. E \in Seq(DownFrame)
      BY <2>2, <2>3, <2>4
    <2>5. Views(c, E, O, I, U)'
      BY <1>5, <2>1, <2>3, <2>4, <2>9
    <2>6. at'[k] = "cancel" /\ UNCHANGED <<call, result>>
      BY <1>4, <1>8 DEF CallersOK
    <2>7. Started(c)' /\ ~Live(c)' /\ result'[c] # "whole"
      BY <1>2, <1>8, <2>6 DEF Started, Live
    <2>8. Phase(c, E, O, I, U)'
      BY <2>7, GivenUp
    <2> QED BY <2>5, <2>8 DEF Sound
  <1>9. CASE c = call[k].corr /\ e.corr = c /\ e.status = "OK" /\ e.more
    <2>1. PICK D, O, I, U :
             /\ Views(c, D, O, I, U) /\ D # <<>> /\ D[1] = e
             /\ View(Tail(D), Tail(down[k]), c)
             /\ Answering(c, D, O, I, U) \/ (Reaped(c, D) /\ D[1].more)
      BY <1>1, <1>9, Received
    <2>2. PICK E, d : E = Tail(D) /\ d = Len(D)
      OBVIOUS
    <2>3. /\ E \in Seq(DownFrame) /\ d \in Nat \ {0} /\ Len(E) = d - 1 /\ DOMAIN D = 1 .. d
          /\ DOMAIN E = 1 .. d - 1 /\ \A j \in 1 .. d - 1 : E[j] = D[j + 1]
      <3>1. E \in Seq(DownFrame)
        BY <2>1, <2>2 DEF Views
      <3> QED BY <2>1, <2>2, <3>1, Shorter DEF Views
    <2>4. Views(c, E, O, I, U)'
      BY <1>5, <2>1, <2>2, <2>3
    <2>5. body'[k] = body[k] + 1 /\ body[k] \in Nat /\ UNCHANGED <<at, call, result>>
      BY <1>4, <1>9 DEF CallersOK
    <2>6. Started(c)' /\ result'[c] # "whole"
      BY <1>2, <1>9, <2>5 DEF Started
    <2>7. ASSUME Answering(c, D, O, I, U) PROVE Answering(c, E, O, I, U)'
      <3>1. PICK o, left : o = Len(O) /\ o \in Nat /\ DOMAIN O = 1 .. o /\ left = Left(c)
        BY <2>1 DEF Views
      <3>2. left \in Nat /\ Left(c)' = left
        BY <1>3, <3>1 DEF Left, loop, ServerOK, TypeOK
      <3>3. PICK n : n = d + o + left
        OBVIOUS
      <3>4. /\ answered[c] = body[k] + n /\ answered[c] <= MaxChunks
            /\ \A j \in DOMAIN D : D[j].status = "OK" /\ (D[j].more <=> j < n)
            /\ \A j \in DOMAIN O : O[j].status = "OK" /\ (O[j].more <=> d + j < n)
        BY <2>2, <2>7, <3>1, <3>3 DEF Answering
      <3>5. PICK r : r = Len(E) + Len(O) + Left(c)'
        OBVIOUS
      <3>6. r = n - 1 /\ n \in Nat
        BY <2>3, <3>1, <3>2, <3>3, <3>5
      <3>7. answered[c] = body'[k] + r
        BY <2>5, <3>4, <3>6
      <3>8. \A j \in DOMAIN E : E[j].status = "OK" /\ (E[j].more <=> j < r)
        <4>1. ASSUME NEW j \in DOMAIN E PROVE E[j].status = "OK" /\ (E[j].more <=> j < r)
          <5>1. j \in Nat /\ j + 1 \in DOMAIN D /\ E[j] = D[j + 1]
            BY <2>3
          <5>2. D[j + 1].status = "OK" /\ (D[j + 1].more <=> j + 1 < n)
            BY <3>4, <5>1
          <5>3. j + 1 < n <=> j < r
            BY <3>6, <5>1
          <5> QED BY <5>1, <5>2, <5>3
        <4> QED BY <4>1
      <3>9. \A j \in DOMAIN O : O[j].status = "OK" /\ (O[j].more <=> Len(E) + j < r)
        <4>1. ASSUME NEW j \in DOMAIN O PROVE O[j].status = "OK" /\ (O[j].more <=> Len(E) + j < r)
          <5>1. d + j < n <=> Len(E) + j < r
            BY <2>3, <3>1, <3>6
          <5> QED BY <3>4, <5>1
        <4> QED BY <4>1
      <3>10. /\ I = <<>> /\ U = <<>> /\ c \notin jobs' /\ at'[Owner[c]] = "await" /\ Whole(c)'
             /\ reply'.corr = c => reply'.status = "OK" /\ reply'.left >= 1
             /\ answered'[c] = answered[c]
        BY <1>3, <2>5, <2>7 DEF Answering, Whole, loop
      <3> QED BY <3>4, <3>5, <3>7, <3>8, <3>9, <3>10 DEF Answering
    <2>8. ASSUME Reaped(c, D) PROVE Reaped(c, E)'
      <3>1. \A j \in DOMAIN E : E[j].status = "OK" => E[j].more
        BY <2>3, <2>8 DEF Reaped
      <3>2. body[k] + d <= MaxChunks
        BY <2>2, <2>8 DEF Reaped
      <3>3. body'[k] + Len(E) <= MaxChunks
        <4>1. PICK b : b = body[k] /\ b \in Nat
          BY <2>5
        <4>2. (b + 1) + (d - 1) = b + d
          BY <2>3, <4>1
        <4> QED BY <2>3, <2>5, <3>2, <4>1, <4>2
      <3> QED BY <1>3, <2>8, <3>1, <3>3 DEF Reaped
    <2>9. Phase(c, E, O, I, U)'
      BY <2>1, <2>6, <2>7, <2>8 DEF Phase
    <2> QED BY <2>4, <2>9 DEF Sound
  <1>10. CASE c = call[k].corr /\ e.corr = c /\ e.status = "OK" /\ ~e.more
    <2>1. body[k] + 1 = answered[c]
      BY <1>1, <1>10, WholeResult
    <2>2. PICK D, O, I, U :
             /\ Views(c, D, O, I, U) /\ View(Tail(D), Tail(down[k]), c) /\ D # <<>>
             /\ I = <<>> /\ U = <<>> /\ Whole(c)
      BY <1>1, <1>10, WholeResult
    <2>3. PICK E : E = Tail(D)
      OBVIOUS
    <2>4. E \in Seq(DownFrame)
      BY <2>2, <2>3 DEF Views
    <2>5. Views(c, E, O, I, U)'
      BY <1>5, <2>2, <2>3, <2>4
    <2>6. End(k, "whole")
      BY <1>4, <1>10, <2>1
    <2>7. at'[k] = "idle" /\ result'[c] = "whole"
      BY <1>2, <1>10, <2>6, EndKeeps
    <2>8. ~Live(c)' /\ Started(c)' /\ Over(c, I, U)'
      BY <1>3, <2>2, <2>7 DEF Live, Started, Over, Whole
    <2>9. Phase(c, E, O, I, U)'
      BY <2>8 DEF Phase
    <2> QED BY <2>5, <2>9 DEF Sound
  <1> QED BY <1>4, <1>6, <1>7, <1>8, <1>9, <1>10

LEMMA CallerPhase ==
  ASSUME ServerOK, CallersOK, CallersOK', NEW c \in Correlations, Sound(c),
         NEW k \in Callers, Caller(k)
  PROVE  Sound(c)'
  <1>1. CallerStill
    BY DEF Caller, CallerStill
  <1>2. CASE Owner[c] = k
    BY <1>1, <1>2, BeginPhase, SendPhase, FailsPhase, ReceivePhase, CancelPhase DEF Caller
  <1> QED BY <1>2, OthersPhase
-----------------------------------------------------------------------------
(* A caller sends only frames of its own calls. *)
LEMMA OwnedStep ==
  ASSUME CallersOK, UpOwned, [CallNext]_allVars
  PROVE  UpOwned'
  <1>1. ASSUME UNCHANGED up PROVE UpOwned'
    BY <1>1 DEF UpOwned
  <1>2. ASSUME NEW k \in Callers, NEW e \in Event, Owner[e.corr] = k,
               up' = [up EXCEPT ![k] = Append(@, e)]
        PROVE  UpOwned'
    <2>1. PICK s, t, m : s = up[k] /\ t = Append(s, e) /\ m = Len(s)
      OBVIOUS
    <2>2. s \in Seq(Event) /\ up'[k] = t
      BY <1>2, <2>1 DEF CallersOK
    <2>3. /\ m \in Nat /\ DOMAIN s = 1 .. m /\ DOMAIN t = 1 .. m + 1
          /\ t[m + 1] = e /\ \A j \in 1 .. m : t[j] = s[j]
      BY <2>1, <2>2, Longer
    <2>4. \A i \in DOMAIN t : Owner[t[i].corr] = k
      <3>1. \A i \in 1 .. m : Owner[t[i].corr] = k
        BY <2>1, <2>3 DEF UpOwned
      <3> QED BY <1>2, <2>3, <3>1
    <2>5. \A l \in Callers \ {k} : up'[l] = up[l]
      BY <1>2 DEF CallersOK
    <2> QED BY <2>2, <2>4, <2>5 DEF UpOwned
  <1>3. ASSUME NEW k \in Callers, up[k] # <<>>, up' = [up EXCEPT ![k] = Tail(@)]
        PROVE  UpOwned'
    <2>1. PICK s, t, m : s = up[k] /\ t = Tail(s) /\ m = Len(s)
      OBVIOUS
    <2>2. s \in Seq(Event) /\ up'[k] = t /\ s # <<>>
      BY <1>3, <2>1 DEF CallersOK
    <2>3. /\ m \in Nat \ {0} /\ DOMAIN s = 1 .. m /\ DOMAIN t = 1 .. m - 1
          /\ \A j \in 1 .. m - 1 : t[j] = s[j + 1]
      BY <2>1, <2>2, Shorter
    <2>4. \A i \in DOMAIN t : Owner[t[i].corr] = k
      BY <2>1, <2>3 DEF UpOwned
    <2>5. \A l \in Callers \ {k} : up'[l] = up[l]
      BY <1>3 DEF CallersOK
    <2> QED BY <2>2, <2>4, <2>5 DEF UpOwned
  <1>4. CASE Module \/ World \/ UNCHANGED allVars
    BY <1>1, <1>4 DEF Module, World, allVars, callVars
  <1>5. ASSUME NEW k \in Callers, Forward(k) \/ Answer(k) \/ Reap(k) PROVE UpOwned'
    BY <1>1, <1>3, <1>5 DEF Forward, Answer, Reap
  <1>6. ASSUME NEW k \in Callers, Begin(k) \/ AwaitFails(k) \/ AwaitEvent(k) PROVE UpOwned'
    BY <1>1, <1>6 DEF Begin, AwaitFails, AwaitEvent
  <1>7. ASSUME NEW k \in Callers, Send(k) PROVE UpOwned'
    <2>1. CASE UNCHANGED up
      BY <1>1, <2>1
    <2>2. CASE ~(epochChanged \/ Len(up[k]) >= UpCap)
      <3>1. PICK m, e : m = call[k] /\ e = Fragment(m, m.sent + 1)
        OBVIOUS
      <3>2. /\ m \in Calling /\ m.corr \in Correlations /\ m.sent \in Nat /\ m.sent < m.frags
            /\ m.frags \in 1 .. MaxFrags /\ Owner[m.corr] = k
        BY <1>7, <3>1 DEF Send, CallersOK, InHand, Calling
      <3>3. up' = [up EXCEPT ![k] = Append(@, e)]
        BY <1>7, <2>2, <3>1 DEF Send, Fragment
      <3>4. e \in Event /\ e.corr = m.corr
        <4>1. <<m.sent + 1>> \in Bodies
          BY <3>2, CallAssumption
        <4>2. (m.sent + 1 < m.frags) \in BOOLEAN
          OBVIOUS
        <4>3. m.deadline \in Deadlines
          BY <3>2 DEF Calling
        <4> QED BY <3>1, <3>2, <4>1, <4>2, <4>3 DEF Event, Fragment
      <3> QED BY <1>2, <3>2, <3>3, <3>4
    <2> QED BY <1>7, <2>1, <2>2 DEF Send
  <1>8. ASSUME NEW k \in Callers, Cancel(k) PROVE UpOwned'
    <2>1. PICK e : e = [corr |-> call[k].corr, type |-> "cancel", ok |-> FALSE, deadline |-> 0,
                        body |-> <<>>, more |-> FALSE]
      OBVIOUS
    <2>2. (up' = up \/ up' = [up EXCEPT ![k] = Append(@, e)]) /\ at[k] = "cancel"
      BY <1>8, <2>1 DEF Cancel
    <2>3. e \in Event /\ Owner[e.corr] = k
      BY <2>1, <2>2, RuntimeAssumption DEF Event, InHand, CallersOK
    <2> QED BY <1>1, <1>2, <2>2, <2>3
  <1> QED BY <1>4, <1>5, <1>6, <1>7, <1>8 DEF CallNext, Router, Caller

(* What a step does to the parts received and to the results. *)
LEMMA OnlyReceived ==
  ASSUME ServerOK, CallersOK, \A c \in Correlations : Sound(c), Bounded, AnswerIsWhole,
         [CallNext]_allVars
  PROVE  Bounded' /\ AnswerIsWhole'
  <1>1. ASSUME body' = body, result' = result PROVE Bounded' /\ AnswerIsWhole'
    BY <1>1 DEF Bounded, AnswerIsWhole
  <1>2. ASSUME NEW k \in Callers, at[k] # "idle", NEW how \in {"unsent", "failed", "whole"}, End(k, how)
        PROVE  Bounded' /\ AnswerIsWhole'
    <2>1. /\ \A l \in Callers \ {k} : body'[l] = body[l]
          /\ body'[k] = 0 /\ result'[call[k].corr] = how
          /\ \A c \in Correlations : c # call[k].corr => result'[c] = result[c]
      BY <1>2, EndKeeps
    <2> QED BY <1>2, <2>1, RuntimeAssumption DEF Bounded, AnswerIsWhole
  <1>3. CASE Module \/ World \/ UNCHANGED allVars
    BY <1>1, <1>3 DEF Module, World, allVars, callVars
  <1>4. ASSUME NEW k \in Callers, Forward(k) \/ Answer(k) \/ Reap(k) \/ Begin(k) \/ AwaitFails(k)
        PROVE  Bounded' /\ AnswerIsWhole'
    BY <1>1, <1>4 DEF Forward, Answer, Reap, Begin, AwaitFails
  <1>5. ASSUME NEW k \in Callers, Send(k) PROVE Bounded' /\ AnswerIsWhole'
    BY <1>1, <1>2, <1>5 DEF Send
  <1>6. ASSUME NEW k \in Callers, Cancel(k) PROVE Bounded' /\ AnswerIsWhole'
    BY <1>2, <1>6 DEF Cancel
  <1>7. ASSUME NEW k \in Callers, AwaitEvent(k) PROVE Bounded' /\ AnswerIsWhole'
    <2>1. PICK e, c : e = Head(down[k]) /\ c = call[k].corr
      OBVIOUS
    <2>2. c \in Correlations /\ Sound(c) /\ at[k] = "await"
      BY <1>7, <2>1 DEF AwaitEvent, CallersOK, InHand
    <2>3. CASE body' = body /\ result' = result
      BY <1>1, <2>3
    <2>4. CASE e.corr = c /\ e.status = "OK" /\ e.more
      <3>1. body' = [body EXCEPT ![k] = @ + 1] /\ result' = result
        BY <1>7, <2>1, <2>4 DEF AwaitEvent, Matches
      <3>2. PICK D, O, I, U :
               /\ Views(c, D, O, I, U) /\ Owner[c] = k /\ D # <<>> /\ D[1] = e
               /\ Answering(c, D, O, I, U) \/ (Reaped(c, D) /\ D[1].more)
        BY <1>7, <2>1, <2>2, <2>4, Received
      <3>3. PICK b : b = body[k] /\ b \in Nat /\ body'[k] = b + 1
        BY <3>1 DEF CallersOK
      <3>4. PICK d : d = Len(D) /\ d \in Nat \ {0} /\ 1 \in DOMAIN D
        BY <3>2 DEF Views
      <3>5. b + 1 <= MaxChunks
        <4>1. CASE Reaped(c, D)
          <5>1. b + d <= MaxChunks
            BY <3>2, <3>3, <3>4, <4>1 DEF Reaped
          <5> QED BY <3>3, <3>4, <5>1, RuntimeAssumption
        <4>2. CASE Answering(c, D, O, I, U)
          <5>1. PICK n : n = d + Len(O) + Left(c)
            OBVIOUS
          <5>2. n \in Nat /\ n >= 1
            <6>1. PICK o, left : o = Len(O) /\ o \in Nat /\ left = Left(c)
              BY <3>2 DEF Views
            <6>2. left \in Nat
              BY <6>1 DEF Left, ServerOK, TypeOK
            <6> QED BY <3>4, <5>1, <6>1, <6>2
          <5>3. b + n <= MaxChunks
            BY <3>2, <3>3, <3>4, <4>2, <5>1 DEF Answering
          <5> QED BY <3>3, <5>2, <5>3, RuntimeAssumption
        <4> QED BY <3>2, <4>1, <4>2
      <3> QED BY <3>1, <3>3, <3>5 DEF Bounded, AnswerIsWhole, CallersOK
    <2>5. CASE e.corr = c /\ e.status = "OK" /\ ~e.more
      <3>1. body[k] + 1 = answered[c]
        BY <1>7, <2>1, <2>2, <2>5, WholeResult
      <3>2. End(k, "whole")
        BY <1>7, <2>1, <2>5, <3>1 DEF AwaitEvent, Matches
      <3> QED BY <1>2, <2>2, <3>2
    <2>6. CASE e.corr # c \/ e.status # "OK"
      BY <1>1, <1>7, <2>1, <2>6 DEF AwaitEvent, Matches
    <2> QED BY <2>4, <2>5, <2>6
  <1> QED BY <1>3, <1>4, <1>5, <1>6, <1>7 DEF CallNext, Router, Caller
-----------------------------------------------------------------------------
CInv ==
  /\ ServerOK /\ CallersOK /\ UpOwned /\ Bounded /\ AnswerIsWhole
  /\ \A c \in Correlations : Sound(c)

LEMMA CallStarts == CallInit => CInv
  <1> SUFFICES ASSUME CallInit PROVE CInv
    OBVIOUS
  <1>1. ServerOK
    <2>1. TypeOK /\ Accounted
      BY InitIInv DEF CallInit, IInv, Accounted
    <2>2. ReplyIdle /\ SomeParts
      BY DEF CallInit, Init, ReplyIdle, SomeParts
    <2> QED BY <2>1, <2>2 DEF ServerOK
  <1>2. NoCall \in Calling
    BY RuntimeAssumption, CallAssumption DEF NoCall, Calling
  <1>3. CallersOK
    BY <1>2 DEF CallInit, CallersOK, InHand, NoCall
  <1>4. UpOwned /\ Bounded /\ AnswerIsWhole
    BY RuntimeAssumption DEF CallInit, UpOwned, Bounded, AnswerIsWhole
  <1>5. ASSUME NEW c \in Correlations PROVE Sound(c)
    <2>1. Owner[c] \in Callers /\ c # 0
      BY CallAssumption
    <2>2. PICK E : E = <<>>
      OBVIOUS
    <2>3. Views(c, E, E, E, E)
      BY <2>1, <2>2, ViewStarts DEF CallInit, Init, Views
    <2>4. Fresh(c, E, E, E, E)
      BY <2>1, <2>2 DEF CallInit, Init, Fresh, Assembled, NoReply
    <2>5. ~Live(c) /\ result[c] = "none"
      BY <2>1 DEF CallInit, Live
    <2>6. Phase(c, E, E, E, E)
      BY <2>4, <2>5 DEF Phase
    <2> QED BY <2>3, <2>6 DEF Sound
  <1> QED BY <1>1, <1>3, <1>4, <1>5 DEF CInv

LEMMA CallKeeps == CInv /\ [CallNext]_allVars => CInv'
  <1> SUFFICES ASSUME CInv, [CallNext]_allVars PROVE CInv'
    OBVIOUS
  <1>1. ServerOK /\ CallersOK /\ ServerOK' /\ CallersOK'
    BY ServerStep, CallersStep DEF CInv
  <1>2. UpOwned' /\ Bounded' /\ AnswerIsWhole'
    BY <1>1, OwnedStep, OnlyReceived DEF CInv
  <1>3. ASSUME NEW c \in Correlations PROVE Sound(c)'
    <2>1. Sound(c) /\ UpOwned /\ Bounded
      BY DEF CInv
    <2>2. CASE Module
      BY <1>1, <2>1, <2>2, ModulePhase
    <2>3. CASE World \/ UNCHANGED allVars \/ \E k \in Callers : Reap(k)
      BY <1>1, <2>1, <2>3, WorldPhase
    <2>4. ASSUME NEW k \in Callers, Forward(k) PROVE Sound(c)'
      BY <1>1, <2>1, <2>4, ForwardPhase
    <2>5. ASSUME NEW k \in Callers, Answer(k) PROVE Sound(c)'
      BY <1>1, <2>1, <2>5, AnswerPhase
    <2>6. ASSUME NEW k \in Callers, Caller(k) PROVE Sound(c)'
      BY <1>1, <2>1, <2>6, CallerPhase
    <2> QED BY <2>2, <2>3, <2>4, <2>5, <2>6 DEF CallNext, Router
  <1> QED BY <1>1, <1>2, <1>3 DEF CInv

(***************************************************************************)
(* Call (module_caller.go): whatever the sizes of rings, requests and      *)
(* answers, and whenever a call is given up, refused or reaped, a caller   *)
(* gets the whole answer to its own call, computed from the whole request, *)
(* or an error.                                                            *)
(***************************************************************************)
THEOREM AnswersAreSound == CallSpec => []AnswersSound
  <1>1. CInv => AnswersSound
    <2> SUFFICES ASSUME CInv PROVE AnswersSound
      OBVIOUS
    <2>1. CallTypeOK
      BY RuntimeAssumption DEF CInv, CallersOK, Bounded, InHand, CallTypeOK
    <2>2. AnsweredWork
      BY DEF CInv, Sound, Phase, Over, Whole, AnsweredWork
    <2> QED BY <2>1, <2>2 DEF CInv, AnswersSound
  <1> QED BY <1>1, CallStarts, CallKeeps, PTL DEF CallSpec

(***************************************************************************)
(* Call after awaitReply failed (module_caller.go): every call that gives  *)
(* up has put a cancel behind its request, unless its ring was full or the *)
(* host is gone.                                                           *)
(***************************************************************************)
THEOREM GivingUpSendsCancel == CallSpec => GivingUpCancels
  <1> DEFINE Cancelled(c) ==
        result[c] = "none" /\ result'[c] = "failed" /\ ~epochChanged /\ Len(up[Owner[c]]) < UpCap
          => \E i \in DOMAIN up'[Owner[c]] : up'[Owner[c]][i].type = "cancel"
                                             /\ up'[Owner[c]][i].corr = c
  <1>1. ASSUME CInv, [CallNext]_allVars PROVE \A c \in Correlations : Cancelled(c)
    <2> SUFFICES ASSUME NEW c \in Correlations,
                        result[c] = "none", result'[c] = "failed", ~epochChanged, Len(up[Owner[c]]) < UpCap
                 PROVE  \E i \in DOMAIN up'[Owner[c]] : up'[Owner[c]][i].type = "cancel"
                                                        /\ up'[Owner[c]][i].corr = c
      OBVIOUS
    <2>1. CallersOK
      BY <1>1 DEF CInv
    <2>2. ASSUME NEW k \in Callers, at[k] # "idle", NEW how \in {"unsent", "failed", "whole", "wrong"},
                 End(k, how)
          PROVE  how = "failed" /\ c = call[k].corr /\ Owner[c] = k
      <3>1. /\ result'[call[k].corr] = how /\ Owner[call[k].corr] = k
            /\ \A b \in Correlations : b # call[k].corr => result'[b] = result[b]
        BY <2>1, <2>2, EndKeeps
      <3> QED BY <3>1
    <2>3. PICK k \in Callers : Cancel(k)
      <3>1. result' # result
        OBVIOUS
      <3>2. PICK k \in Callers : Send(k) \/ AwaitEvent(k) \/ Cancel(k)
        BY <1>1, <3>1 DEF CallNext, Module, World, Caller, Router, Forward, Answer, Reap, Begin,
                          AwaitFails, allVars, callVars
      <3>3. ~Send(k)
        BY <2>2, <3>1 DEF Send
      <3>4. ~AwaitEvent(k)
        BY <2>2, <3>1 DEF AwaitEvent
      <3> QED BY <3>2, <3>3, <3>4
    <2>4. at[k] # "idle" /\ End(k, "failed")
      BY <2>3 DEF Cancel
    <2>5. c = call[k].corr /\ Owner[c] = k
      BY <2>2, <2>4
    <2>6. PICK e : e = [corr |-> call[k].corr, type |-> "cancel", ok |-> FALSE, deadline |-> 0,
                        body |-> <<>>, more |-> FALSE]
      OBVIOUS
    <2>7. up[k] \in Seq(Event) /\ e \in Event /\ e.corr = c /\ e.type = "cancel"
      BY <2>1, <2>5, <2>6, RuntimeAssumption DEF Event, CallersOK
    <2>8. up' = [up EXCEPT ![k] = Append(@, e)]
      BY <2>3, <2>5, <2>6, CallAssumption DEF Cancel
    <2>9. PICK s, t, m : s = up[k] /\ t = Append(s, e) /\ m = Len(s)
      OBVIOUS
    <2>10. m \in Nat /\ DOMAIN t = 1 .. m + 1 /\ t[m + 1] = e /\ m + 1 \in DOMAIN t
      BY <2>7, <2>9, Longer
    <2>11. up'[Owner[c]] = t
      BY <2>1, <2>5, <2>8, <2>9 DEF CallersOK
    <2> QED BY <2>7, <2>10, <2>11
  <1>2. CInv /\ [CallNext]_allVars => [\A c \in Correlations : Cancelled(c)]_allVars
    BY <1>1
  <1> QED BY <1>2, CallStarts, CallKeeps, PTL DEF CallSpec, GivingUpCancels
=============================================================================
