------------------------------- MODULE BusClient -------------------------------
(***************************************************************************)
(* A client of the bus from its connection to its detachment:              *)
(* ConnectClient and connectModule (client_connect.go, module_runtime.go), *)
(* AttachAs with the three regions it maps (client.go, region.go), emit    *)
(* and Poll over the two rings, and the heartbeat of an idle caller.       *)
(*                                                                         *)
(* The host is external: it answers the handshake in every way the client  *)
(* looks at, may restart (the epoch moves), fills the inbound ring with    *)
(* whatever it likes and drains the outbound one.                          *)
(***************************************************************************)
EXTENDS BusWire

CONSTANTS
  Capacity, Wrap,  \* of the rings, see BusRing
  Torn,
  SlotSize, Budget, ArenaSize,  \* geometry the host announces
  Calls,           \* what the program asks emit to send
  Foreign,         \* frames the host delivers
  MaxEpoch         \* bound: host restarts

VARIABLES
  pc,       \* the statement of the client
  serving,  \* connectModule (a module) rather than ConnectClient (a caller)
  sock,     \* the attach socket is open
  fds,      \* received descriptors that are open
  maps,     \* regions that are mapped
  beating,  \* the keepAlive goroutine runs
  ctxDone,
  epoch,    \* restarts of the host since the attach reply
  pending,  \* pendingRead
  calling,  \* the call emit is serving
  outHead, outTail, outSlots, outProducer, outConsumer,
  inHead, inTail, inSlots, inProducer, inConsumer

outRing == <<outHead, outTail, outSlots, outProducer, outConsumer>>
inRing == <<inHead, inTail, inSlots, inProducer, inConsumer>>
conn == <<serving, sock, fds, maps, beating>>
vars == <<pc, conn, ctxDone, epoch, pending, calling, outRing, inRing>>

Sent == {EmittedFrame(c) : c \in Calls}

Out == INSTANCE BusRing WITH Payloads <- Sent, head <- outHead, tail <- outTail,
         slots <- outSlots, producer <- outProducer, consumer <- outConsumer
In == INSTANCE BusRing WITH Payloads <- Foreign, head <- inHead, tail <- inTail,
         slots <- inSlots, producer <- inProducer, consumer <- inConsumer

(* AttachQueuePair admits a pair of rings of this geometry only. *)
ASSUME RingGeometry == Out!Geometry /\ In!Geometry

(* A slot's size is a word of 32 bits and a payload reference one of 64
   (wire.go, region.go). *)
ASSUME WireWidths ==
  /\ HdrLen \in Nat \ {0} /\ MsgHdrLen \in Nat /\ MaxBody \in Nat /\ Budget \in Nat
  /\ SlotSize \in Nat /\ RefWrap \in Nat /\ SlotSize < RefWrap /\ MaxEpoch \in Nat
  /\ \A call \in Calls : call.len \in Nat

Regions == {"control", "arena", "queues"}
NoCall == [pattern |-> "NONE", more |-> FALSE, len |-> 0, corr |-> 0]

Init ==
  /\ pc = "connect" /\ serving \in BOOLEAN
  /\ sock = FALSE /\ fds = 0 /\ maps = {} /\ beating = FALSE
  /\ ctxDone = FALSE /\ epoch = 0 /\ pending = FALSE /\ calling = NoCall
  /\ outHead = Wrap - 1 /\ outTail = Wrap - 1 /\ Out!RingInit
  /\ inHead = Wrap - 1 /\ inTail = Wrap - 1 /\ In!RingInit
  /\ \A i \in DOMAIN outSlots : outSlots[i] = Torn /\ inSlots[i] = Torn

GoTo(where) == pc' = where
Still == UNCHANGED <<ctxDone, epoch, pending, calling, outRing, inRing>>
-----------------------------------------------------------------------------

Connect ==
  /\ pc = "connect"
  /\ \/ GoTo("request") /\ sock' = TRUE
     \/ GoTo("wait") /\ UNCHANGED sock    \* ECONNREFUSED
     \/ GoTo("failed") /\ UNCHANGED sock  \* no socket, or any other error
  /\ UNCHANGED <<serving, fds, maps, beating>> /\ Still

Retry ==
  /\ pc = "wait" /\ GoTo("connect")
  /\ UNCHANGED conn /\ Still

(* Mutant: the end of the context is looked at before the first attempt only. *)
GiveUpNever ==
  /\ pc = "wait" /\ ctxDone /\ GoTo("connect")
  /\ UNCHANGED conn /\ Still

GiveUp ==
  /\ pc = "wait" /\ ctxDone /\ GoTo("failed")
  /\ UNCHANGED conn /\ Still

(* AttachAs returns an error, and its caller closes the socket. *)
Fail ==
  /\ GoTo("failed")
  /\ sock' = FALSE /\ fds' = 0 /\ maps' = {}
  /\ UNCHANGED <<serving, beating>> /\ Still

(* The handshake: a reply that is short, is not one, refuses the client or
   does not come with three descriptors ends it. *)
(* Mutant: a reply with too few descriptors does not close them. *)
HandshakeForgets ==
  /\ pc = "request"
  /\ \/ Fail
     \/ \E received \in 0 .. 3, wellFormed, admitted \in BOOLEAN :
          IF wellFormed /\ admitted /\ received = 3
          THEN /\ GoTo("map") /\ fds' = received
               /\ UNCHANGED <<serving, sock, maps, beating>> /\ Still
          ELSE IF ~wellFormed \/ ~admitted THEN Fail
          ELSE /\ GoTo("failed") /\ sock' = FALSE /\ fds' = received
               /\ UNCHANGED <<serving, maps, beating>> /\ Still

Handshake ==
  /\ pc = "request"
  /\ \/ Fail
     \/ \E received \in 0 .. 3, wellFormed, admitted \in BOOLEAN :
          IF wellFormed /\ admitted /\ received = 3
          THEN /\ GoTo("map") /\ fds' = received
               /\ UNCHANGED <<serving, sock, maps, beating>> /\ Still
          ELSE Fail

(* The regions are mapped in this order; what is mapped is undone when one
   fails, and the descriptors are closed in any case. *)
NextRegion == IF "control" \notin maps THEN "control"
              ELSE IF "arena" \notin maps THEN "arena" ELSE "queues"

MapRegion ==
  /\ pc = "map" /\ maps # Regions
  /\ \/ maps' = maps \cup {NextRegion} /\ UNCHANGED <<pc, serving, sock, fds, beating>> /\ Still
     \/ Fail

(* AttachControl and AttachQueuePair accept the regions or not; a caller then
   gets its keepAlive goroutine. *)
Validated ==
  /\ pc = "map" /\ maps = Regions
  /\ \/ /\ GoTo("idle") /\ sock' = FALSE /\ fds' = 0
        /\ beating' = ~serving
        /\ UNCHANGED <<serving, maps>> /\ Still
     \/ Fail

(* Detach: a module after its loop, a caller once its context has ended. *)
Detach ==
  /\ pc = "idle" /\ ~beating
  /\ GoTo("detached") /\ maps' = {}
  /\ UNCHANGED <<serving, sock, fds, beating>> /\ Still

KeepAliveEnds ==
  /\ beating /\ ctxDone /\ beating' = FALSE
  /\ UNCHANGED <<pc, serving, sock, fds, maps>> /\ Still

Attach == Connect \/ Retry \/ GiveUp \/ Handshake \/ MapRegion \/ Validated
-----------------------------------------------------------------------------
(***************************************************************************)
(* emit: refusals in their order, then the slot is taken, written and      *)
(* published.                                                              *)
(***************************************************************************)
EmitGuard(call) ==
  ~Misused(call) /\ ~Unfit(call, Budget, SlotSize) /\ epoch = 0 /\ ~Out!Full

Emit(call) ==
  /\ pc = "idle" /\ EmitGuard(call)
  /\ GoTo("emit") /\ calling' = call
  /\ Out!ProduceBegin
  /\ UNCHANGED <<conn, ctxDone, epoch, pending, inRing>>

EmitWrite ==
  /\ pc = "emit"
  /\ IF Encode(EmittedFrame(calling), SlotSize) = HdrLen
     THEN Out!Write(EmittedFrame(calling)) /\ UNCHANGED <<pc, calling>>
     ELSE Out!Abandon /\ GoTo("idle") /\ calling' = NoCall
  /\ UNCHANGED <<conn, ctxDone, epoch, pending, inRing>>

EmitCommit ==
  /\ pc = "emit" /\ Out!ProduceCommit
  /\ GoTo("idle") /\ calling' = NoCall
  /\ UNCHANGED <<conn, ctxDone, epoch, pending, inRing>>

(* Mutant: the slot is released as soon as it has been handed out. *)
PollTakeReleases ==
  /\ pc = "poll"
  /\ IF In!Empty
     THEN UNCHANGED <<inRing, pending>> /\ GoTo("idle")
     ELSE /\ In!ConsumeBeginReleases
          /\ pending' = (Decode(SlotSize, TRUE, inSlots[In!Slot(inTail)]) = "OK")
          /\ GoTo(IF pending' THEN "idle" ELSE "skip")
  /\ UNCHANGED <<conn, ctxDone, epoch, calling, outRing>>

PollRelease ==
  /\ pc = "idle" /\ epoch = 0
  /\ IF pending THEN In!ConsumeCommit ELSE UNCHANGED inRing
  /\ pending' = FALSE /\ GoTo("poll")
  /\ UNCHANGED <<conn, ctxDone, epoch, calling, outRing>>

PollTake ==
  /\ pc = "poll"
  /\ IF In!Empty
     THEN UNCHANGED <<inRing, pending>> /\ GoTo("idle")
     ELSE /\ In!ConsumeBegin
          /\ pending' = (Decode(SlotSize, TRUE, inSlots[In!Slot(inTail)]) = "OK")
          /\ GoTo(IF pending' THEN "idle" ELSE "skip")
  /\ UNCHANGED <<conn, ctxDone, epoch, calling, outRing>>

PollSkip ==
  /\ pc = "skip" /\ In!ConsumeCommit /\ GoTo("idle")
  /\ UNCHANGED <<conn, ctxDone, epoch, pending, calling, outRing>>

Operate == (\E call \in Calls : Emit(call)) \/ EmitWrite \/ EmitCommit
           \/ PollRelease \/ PollTake \/ PollSkip
-----------------------------------------------------------------------------
(* The host. *)
HostDrains ==
  /\ Out!ConsumeBegin \/ Out!ConsumeCommit
  /\ UNCHANGED <<pc, conn, ctxDone, epoch, pending, calling, inRing>>

HostDelivers ==
  /\ In!ProduceBegin \/ In!ProduceCommit \/ \E f \in Foreign : In!Write(f)
  /\ UNCHANGED <<pc, conn, ctxDone, epoch, pending, calling, outRing>>

HostRestarts ==
  /\ epoch < MaxEpoch /\ pc \notin {"connect", "wait", "request"}
  /\ epoch' = epoch + 1
  /\ UNCHANGED <<pc, conn, ctxDone, pending, calling, outRing, inRing>>

CancelContext ==
  /\ ~ctxDone /\ ctxDone' = TRUE
  /\ UNCHANGED <<pc, conn, epoch, pending, calling, outRing, inRing>>

Attached == maps = Regions /\ pc # "map"
Host == (Attached /\ (HostDrains \/ HostDelivers)) \/ HostRestarts \/ CancelContext

Next == Attach \/ Operate \/ Detach \/ KeepAliveEnds \/ Host
Spec == Init /\ [][Next]_vars

(* The client's own statements run.  When the context has ended, the select
   that waits before the next attempt does not take its timer for ever. *)
Fairness == WF_vars(Attach) /\ SF_vars(GiveUp)
FairSpec == Spec /\ Fairness
-----------------------------------------------------------------------------
\* The client's fields, the rings' words and the connection's resources hold
\* what the code stores in them.
TypeOK ==
  /\ pc \in {"connect", "wait", "request", "map", "idle", "emit", "poll", "skip",
             "failed", "detached"}
  /\ serving \in BOOLEAN /\ sock \in BOOLEAN /\ fds \in 0 .. 3 /\ maps \subseteq Regions
  /\ beating \in BOOLEAN /\ ctxDone \in BOOLEAN /\ epoch \in 0 .. MaxEpoch /\ pending \in BOOLEAN
  /\ Out!RingTypeOK /\ In!RingTypeOK

(***************************************************************************)
(* Whatever the host answers and whichever mapping fails, AttachAs leaves  *)
(* neither a socket, nor a descriptor, nor a mapping behind: a client has  *)
(* all of its regions and nothing else, a failure has nothing.             *)
(***************************************************************************)
NothingLeaks ==
  /\ pc \in {"failed", "detached", "connect", "wait"} => ~sock /\ fds = 0 /\ maps = {}
  /\ pc \in {"idle", "emit", "poll", "skip"} => ~sock /\ fds = 0 /\ maps = Regions

(***************************************************************************)
(* Every frame on the outbound ring is one its reader accepts, with its    *)
(* payload behind the header and inside the slot: emit's own checks imply  *)
(* the wire's.                                                             *)
(***************************************************************************)
SentFramesAreValid ==
  \A i \in DOMAIN Out!Contents :
    CheckPlacement(Out!Contents[i], SlotSize, ArenaSize) = "OK"

(***************************************************************************)
(* However a body's length falls on the budget, the fragments that         *)
(* ModuleCaller.send and replyModuleResult cut add up to it, only the last *)
(* one ends it, no other is empty, and emit takes every one of them.       *)
(***************************************************************************)
FragmentsRebuild ==
  \A length \in 0 .. MaxBody, budget \in MsgHdrLen + 1 .. Budget :
    LET cut == Fragments(length, budget)
        call(i) == [pattern |-> "REPLY", more |-> cut[i].more, len |-> MsgHdrLen + cut[i].len,
                    corr |-> 1]
    IN /\ MapThenSumSet(LAMBDA i : cut[i].len, DOMAIN cut) = length
       /\ \A i \in DOMAIN cut :
            /\ cut[i].more = (i < Len(cut))
            /\ cut[i].len > 0 \/ length = 0
            /\ ~Misused(call(i)) /\ call(i).len <= budget
            /\ DecodeMessage(call(i).len, TRUE,
                             [operation |-> "RESULT", status |-> "OK", stage |-> 1,
                              flags |-> 0, body |-> cut[i].len])

(***************************************************************************)
(* What is sent can be read, whatever is cut and however the indices wrap. *)
(***************************************************************************)
FramesSound == TypeOK /\ SentFramesAreValid /\ FragmentsRebuild

(***************************************************************************)
(* "Payload points into the shared inbound slot and is valid until the     *)
(* next Poll" (client.go:54): until the program polls again the bytes of   *)
(* the event it holds do not change, whatever the host delivers.           *)
(***************************************************************************)
PayloadStable ==
  [][pending /\ pending' => inSlots'[In!Slot(inTail')] = inSlots[In!Slot(inTail)]]_vars

(***************************************************************************)
(* Each ring is a bounded first-in first-out queue between its two ends:   *)
(* every event and every reply arrives once, whole and in order.           *)
(***************************************************************************)
RingsAreQueues == Out!RefinesQueue /\ In!RefinesQueue

(***************************************************************************)
(* A connection that is refused again and again ends with the context.     *)
(***************************************************************************)
ConnectEnds == ctxDone ~> pc \notin {"connect", "wait", "request", "map"}
=============================================================================
