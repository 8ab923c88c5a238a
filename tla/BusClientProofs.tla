---------------------------- MODULE BusClientProofs ----------------------------
(***************************************************************************)
(* Proofs about a client of the bus (BusClient), for any host, any calls   *)
(* of the program and any geometry AttachQueuePair admits.                 *)
(*                                                                         *)
(* Each end of a ring is used by the statements of emit, of Poll and of    *)
(* the host.  Once every one of them is known to be a step of the ring or  *)
(* to leave it alone, what BusRingProofs shows of a ring holds of both.    *)
(***************************************************************************)
EXTENDS BusClient, FiniteSetTheorems, TLAPS

(* What is written into a slot: the frame of a call that has passed the checks of
   emit and of Frame.Encode. *)
Good == {EmittedFrame(c) : c \in {c \in Calls : /\ ~Unfit(c, Budget, SlotSize)
                                               /\ Encode(EmittedFrame(c), SlotSize) = HdrLen}}

OutP == INSTANCE BusRingProofs WITH Payloads <- Good, head <- outHead, tail <- outTail,
          slots <- outSlots, producer <- outProducer, consumer <- outConsumer
InP == INSTANCE BusRingProofs WITH Payloads <- Foreign, head <- inHead, tail <- inTail,
         slots <- inSlots, producer <- inProducer, consumer <- inConsumer

(* Before the regions are mapped there is nothing but a socket; while they are,
   the descriptors and the socket are still open. *)
Holding ==
  /\ NothingLeaks
  /\ pc = "request" => fds = 0 /\ maps = {}

(***************************************************************************)
(* AttachAs and its callers leave nothing behind (client.go:73-150,        *)
(* client_connect.go), whatever the host answers and whichever region      *)
(* cannot be mapped: a failure has no socket, descriptor or mapping, a     *)
(* client has its three regions only.                                      *)
(***************************************************************************)
THEOREM AttachLeavesNothing ==
  Spec => []NothingLeaks
  <1>1. Init => Holding
    BY DEF Init, Holding, NothingLeaks
  <1>2. Holding /\ [Next]_vars => Holding'
    <2> SUFFICES ASSUME Holding, [Next]_vars PROVE Holding'
      OBVIOUS
    <2> USE DEF Holding, NothingLeaks
    <2>1. ASSUME Connect \/ Retry \/ GiveUp \/ Handshake PROVE Holding'
      BY <2>1 DEF Connect, Retry, GiveUp, Handshake, Fail, GoTo, conn
    <2>2. ASSUME MapRegion \/ Validated PROVE Holding'
      BY <2>2 DEF MapRegion, Validated, Fail, GoTo
    <2>3. ASSUME Operate PROVE Holding'
      <3>1. CASE \E call \in Calls : Emit(call)
        BY <3>1 DEF Emit, GoTo, conn
      <3>2. CASE EmitWrite \/ EmitCommit
        BY <3>2 DEF EmitWrite, EmitCommit, GoTo, conn
      <3>3. CASE PollRelease \/ PollSkip
        BY <3>3 DEF PollRelease, PollSkip, GoTo, conn
      <3>4. CASE PollTake
        <4>1. pc = "poll" /\ pc' \in {"idle", "skip"} /\ UNCHANGED conn
          BY <3>4, Zenon DEF PollTake, GoTo
        <4> QED BY <4>1 DEF conn
      <3> QED BY <2>3, <3>1, <3>2, <3>3, <3>4 DEF Operate
    <2>4. ASSUME Detach \/ KeepAliveEnds \/ Host PROVE Holding'
      BY <2>4 DEF Detach, KeepAliveEnds, Host, HostDrains, HostDelivers, HostRestarts,
                  CancelContext, GoTo, conn
    <2> QED BY <2>1, <2>2, <2>3, <2>4 DEF Next, Attach, vars, conn
  <1> QED BY <1>1, <1>2, PTL DEF Spec, Holding

(* emit (client.go) serves a call of the program while it holds a slot, and has
   compared its length with the budget and the slot. *)
EmitsCall == pc = "emit" => calling \in Calls /\ ~Unfit(calling, Budget, SlotSize)

(* calling is set with the slot and cleared when the slot is given back. *)
LEMMA EmitsCallStep ==
  ASSUME EmitsCall, [Next]_vars
  PROVE  EmitsCall'
  <1> USE DEF EmitsCall
  <1>1. ASSUME Attach PROVE EmitsCall'
    BY <1>1 DEF Attach, Connect, Retry, GiveUp, Handshake, MapRegion, Validated, Fail, GoTo, Still
  <1>2. ASSUME Operate PROVE EmitsCall'
    BY <1>2 DEF Operate, Emit, EmitGuard, EmitWrite, EmitCommit, PollRelease, PollTake,
                PollSkip, GoTo
  <1>3. ASSUME Detach \/ KeepAliveEnds \/ Host PROVE EmitsCall'
    BY <1>3 DEF Detach, KeepAliveEnds, Host, HostDrains, HostDelivers, HostRestarts,
                CancelContext, GoTo, Still
  <1> QED BY <1>1, <1>2, <1>3 DEF Next, vars

(* emit and the draining host move the outbound ring by its own steps only;
   what emit writes into a slot is a frame it has checked. *)
LEMMA OutSteps ==
  ASSUME EmitsCall, [Next]_vars
  PROVE  [OutP!RingNext]_(OutP!ringVars)
  <1> USE DEF OutP!ringVars, outRing
  <1>1. ASSUME Attach PROVE UNCHANGED outRing
    BY <1>1 DEF Attach, Connect, Retry, GiveUp, Handshake, MapRegion, Validated, Fail, Still
  <1>2. ASSUME Operate PROVE [OutP!RingNext]_(OutP!ringVars)
    <2>1. ASSUME NEW call \in Calls, Emit(call) PROVE OutP!RingNext
      BY <2>1 DEF Emit, Out!ProduceBegin, Out!Full, Out!Count, Out!Slot,
                  OutP!RingNext, OutP!ProduceBegin, OutP!Full, OutP!Count, OutP!Slot
    <2>2. ASSUME EmitWrite PROVE OutP!RingNext
      <3>1. CASE Encode(EmittedFrame(calling), SlotSize) = HdrLen
        <4>1. EmittedFrame(calling) \in Good
          BY <2>2, <3>1 DEF EmitWrite, EmitsCall, Good
        <4> QED BY <2>2, <3>1, <4>1 DEF EmitWrite, Out!Write, Out!Slot,
                                        OutP!RingNext, OutP!Write, OutP!Slot
      <3>2. CASE Encode(EmittedFrame(calling), SlotSize) # HdrLen
        BY <2>2, <3>2 DEF EmitWrite, Out!Abandon, OutP!RingNext, OutP!Abandon
      <3> QED BY <3>1, <3>2
    <2>3. ASSUME EmitCommit PROVE OutP!RingNext
      BY <2>3 DEF EmitCommit, Out!ProduceCommit, Out!Inc,
                  OutP!RingNext, OutP!ProduceCommit, OutP!Inc
    <2>4. ASSUME PollRelease \/ PollTake \/ PollSkip PROVE UNCHANGED outRing
      BY <2>4 DEF PollRelease, PollTake, PollSkip
    <2> QED BY <1>2, <2>1, <2>2, <2>3, <2>4 DEF Operate
  <1>3. ASSUME Detach \/ KeepAliveEnds \/ Host PROVE [OutP!RingNext]_(OutP!ringVars)
    BY <1>3 DEF Detach, KeepAliveEnds, Host, HostDrains, HostDelivers, HostRestarts,
                CancelContext, Still, Out!ConsumeBegin, Out!ConsumeCommit, Out!Empty, Out!Inc,
                OutP!RingNext, OutP!ConsumeBegin, OutP!ConsumeCommit, OutP!Empty, OutP!Inc
  <1> QED BY <1>1, <1>2, <1>3 DEF Next, vars

(* A client attaches to an outbound ring in which nothing has been written. *)
LEMMA OutStarts ==
  ASSUME Init
  PROVE  OutP!RingInit
  <1>1. Out!RingInit /\ \A i \in DOMAIN outSlots : outSlots[i] = Torn
    BY DEF Init
  <1>2. outSlots \in [0 .. Capacity - 1 -> Good \cup {Torn}]
    BY <1>1 DEF Out!RingInit
  <1> QED
    BY <1>1, <1>2 DEF Out!RingInit, Out!Index, Out!Count, Out!Inside, Out!Slot,
                      OutP!RingInit, OutP!Index, OutP!Count, OutP!Inside, OutP!Slot

(* The frames emit has checked are frames of calls. *)
LEMMA GoodGeometry ==
  OutP!Geometry /\ Good \subseteq Sent
  <1>1. Good \subseteq Sent
    BY DEF Good, Sent
  <1> QED BY <1>1, RingGeometry DEF Out!Geometry, OutP!Geometry

(* Poll and the delivering host move the inbound ring by its own steps only. *)
LEMMA InSteps ==
  ASSUME [Next]_vars
  PROVE  [In!RingNext]_inRing
  <1>1. ASSUME Attach PROVE UNCHANGED inRing
           BY <1>1 DEF Attach, Connect, Retry, GiveUp, Handshake, MapRegion, Validated,
           Fail, Still
  <1>2. ASSUME Operate PROVE [In!RingNext]_inRing
    BY <1>2 DEF Operate, Emit, EmitWrite, EmitCommit, PollRelease, PollTake, PollSkip,
                In!RingNext
  <1>3. ASSUME Detach \/ KeepAliveEnds \/ Host PROVE [In!RingNext]_inRing
    BY <1>3 DEF Detach, KeepAliveEnds, Host, HostDrains, HostDelivers, HostRestarts,
                CancelContext, Still, In!RingNext
  <1> QED BY <1>1, <1>2, <1>3 DEF Next, vars

(* The outbound ring is a ring of BusRingProofs (ring.go, over the slots of the
   region client.go maps for it). *)
LEMMA OutIsQueue ==
  OutP!RingSpec => Out!RefinesQueue
  <1>1. OutP!RingSpec => OutP!RefinesQueue
    BY GoodGeometry, OutP!RingIsQueue
  <1>2. OutP!Abstract!Init => Out!Abstract!Init
    <2>1. OutP!Contents = Out!Contents
      BY DEF Out!Contents, Out!Count, Out!Slot, OutP!Contents, OutP!Count, OutP!Slot
    <2>2. \A n \in 0 .. Capacity : [1 .. n -> Good] \subseteq [1 .. n -> Sent]
      BY GoodGeometry
    <2> HIDE DEF Out!Contents, OutP!Contents
    <2> QED BY <2>1, <2>2 DEF Out!Abstract!Init, OutP!Abstract!Init
  <1>3. [OutP!Abstract!Next]_(OutP!Contents) => [Out!Abstract!Next]_(Out!Contents)
    BY GoodGeometry
    DEF Out!Contents, Out!Count, Out!Slot, Out!Abstract!Next,
        Out!Abstract!Put, Out!Abstract!Take,
        OutP!Contents, OutP!Count, OutP!Slot, OutP!Abstract!Next,
        OutP!Abstract!Put, OutP!Abstract!Take
  <1>4. OutP!RefinesQueue => Out!RefinesQueue
    BY <1>2, <1>3, PTL
    DEF OutP!RefinesQueue, OutP!Abstract!Spec, Out!RefinesQueue, Out!Abstract!Spec
  <1> QED BY <1>1, <1>4, PTL

(* A client runs its outbound ring. *)
LEMMA OutRuns ==
  Spec => OutP!RingSpec
  <1>1. Init => EmitsCall /\ OutP!RingInit
    BY OutStarts DEF Init, EmitsCall
  <1>2. EmitsCall /\ [Next]_vars => EmitsCall'
    BY EmitsCallStep
  <1>3. EmitsCall /\ [Next]_vars => [OutP!RingNext]_(OutP!ringVars)
    BY OutSteps
  <1> QED BY <1>1, <1>2, <1>3, PTL DEF Spec, OutP!RingSpec

(* A client runs its inbound ring. *)
LEMMA InRuns ==
  Spec => InP!RingSpec
  <1>1. Init => InP!RingInit
    BY DEF Init, In!RingInit, In!Index, In!Count, In!Inside, In!Slot,
           InP!RingInit, InP!Index, InP!Count, InP!Inside, InP!Slot
  <1>2. [Next]_vars => [InP!RingNext]_(InP!ringVars)
    <2>1. [In!RingNext]_inRing => [InP!RingNext]_(InP!ringVars)
      BY DEF inRing, In!RingNext, In!ringVars, In!ProduceBegin, In!Write, In!Abandon,
             In!ProduceCommit, In!ConsumeBegin, In!ConsumeCommit,
             In!Full, In!Empty, In!Count, In!Inc, In!Slot,
             InP!RingNext, InP!ringVars, InP!ProduceBegin, InP!Write, InP!Abandon,
             InP!ProduceCommit, InP!ConsumeBegin, InP!ConsumeCommit,
             InP!Full, InP!Empty, InP!Count, InP!Inc, InP!Slot
    <2> QED BY <2>1, InSteps
  <1> QED BY <1>1, <1>2, PTL DEF Spec, InP!RingSpec

(* The inbound ring is a ring of BusRingProofs (ring.go, over the slots of the
   region client.go maps for it). *)
LEMMA InIsQueue ==
  In!RingInit /\ [][In!RingNext]_inRing => In!RefinesQueue
  <1>1. InP!Geometry
    BY RingGeometry DEF In!Geometry, InP!Geometry
  <1>2. InP!RingSpec => InP!RefinesQueue
    BY <1>1, InP!RingIsQueue
  <1>3. In!RingInit => InP!RingInit
    BY DEF In!RingInit, In!Index, In!Count, In!Inside, In!Slot,
           InP!RingInit, InP!Index, InP!Count, InP!Inside, InP!Slot
  <1>4. [In!RingNext]_inRing => [InP!RingNext]_(InP!ringVars)
    BY DEF inRing, In!RingNext, In!ringVars, In!ProduceBegin, In!Write, In!Abandon,
           In!ProduceCommit, In!ConsumeBegin, In!ConsumeCommit,
           In!Full, In!Empty, In!Count, In!Inc, In!Slot,
           InP!RingNext, InP!ringVars, InP!ProduceBegin, InP!Write, InP!Abandon,
           InP!ProduceCommit, InP!ConsumeBegin, InP!ConsumeCommit,
           InP!Full, InP!Empty, InP!Count, InP!Inc, InP!Slot
  <1>5. InP!Abstract!Init => In!Abstract!Init
    BY DEF In!Contents, In!Count, In!Slot, In!Abstract!Init,
           InP!Contents, InP!Count, InP!Slot, InP!Abstract!Init
  <1>6. [InP!Abstract!Next]_(InP!Contents) => [In!Abstract!Next]_(In!Contents)
    BY DEF In!Contents, In!Count, In!Slot, In!Abstract!Next,
           In!Abstract!Put, In!Abstract!Take,
           InP!Contents, InP!Count, InP!Slot, InP!Abstract!Next,
           InP!Abstract!Put, InP!Abstract!Take
  <1>7. In!RingInit /\ [][In!RingNext]_inRing => InP!RingSpec
    BY <1>3, <1>4, PTL DEF InP!RingSpec
  <1>8. InP!RefinesQueue => In!RefinesQueue
    BY <1>5, <1>6, PTL
    DEF InP!RefinesQueue, InP!Abstract!Spec, In!RefinesQueue, In!Abstract!Spec
  <1> QED BY <1>2, <1>7, <1>8, PTL

(* What the program holds is the slot that Poll has begun to read and not released
   (client.go: Poll). *)
Held == pending => inConsumer = "reading" /\ pc \notin {"poll", "skip"}

(* Poll alone begins and ends it. *)
LEMMA HeldStep ==
  ASSUME Held, [Next]_vars
  PROVE  Held' /\ (pending /\ pending' => inTail' = inTail)
  <1> USE DEF Held
  <1> DEFINE Goal == Held' /\ (pending /\ pending' => inTail' = inTail)
  <1>1. ASSUME Attach PROVE Goal
    BY <1>1 DEF Attach, Connect, Retry, GiveUp, Handshake, MapRegion, Validated, Fail,
                GoTo, Still, inRing
  <1>2. ASSUME Operate PROVE Goal
    <2>1. ASSUME NEW call \in Calls, Emit(call) PROVE Goal
      BY <2>1 DEF Emit, GoTo, inRing
    <2>2. CASE EmitWrite \/ EmitCommit
      BY <2>2 DEF EmitWrite, EmitCommit, GoTo, inRing
    <2>3. CASE PollRelease
      BY <2>3 DEF PollRelease, GoTo
    <2>4. CASE PollTake
      BY <2>4 DEF PollTake, GoTo, In!ConsumeBegin, inRing
    <2>5. CASE PollSkip
      BY <2>5 DEF PollSkip, GoTo
    <2> QED BY <1>2, <2>1, <2>2, <2>3, <2>4, <2>5 DEF Operate
  <1>3. ASSUME Host PROVE Goal
    BY <1>3 DEF Host, HostDrains, HostDelivers, HostRestarts, CancelContext, inRing,
                In!ProduceBegin, In!ProduceCommit, In!Write
  <1>4. ASSUME Detach \/ KeepAliveEnds PROVE Goal
    BY <1>4 DEF Detach, KeepAliveEnds, GoTo, Still, inRing
  <1>5. ASSUME UNCHANGED vars PROVE Goal
    BY <1>5 DEF vars, inRing
  <1> QED BY <1>1, <1>2, <1>3, <1>4, <1>5 DEF Next

(* The slot that is read in the inbound ring stays as it is (ring.go). *)
LEMMA InSlotStays ==
  In!RingInit /\ [][In!RingNext]_inRing
    => [][inConsumer = "reading" /\ inTail' = inTail
            => inSlots'[In!Slot(inTail)] = inSlots[In!Slot(inTail)]]_inRing
  <1>1. InP!Geometry
    BY RingGeometry DEF In!Geometry, InP!Geometry
  <1>2. InP!RingSpec => [][inConsumer = "reading" /\ inTail' = inTail
            => inSlots'[InP!Slot(inTail)] = inSlots[InP!Slot(inTail)]]_(InP!ringVars)
    BY <1>1, InP!ReadSlotStays
  <1>3. In!RingInit => InP!RingInit
    BY DEF In!RingInit, In!Index, In!Count, In!Inside, In!Slot,
           InP!RingInit, InP!Index, InP!Count, InP!Inside, InP!Slot
  <1>4. [In!RingNext]_inRing => [InP!RingNext]_(InP!ringVars)
    BY DEF inRing, In!RingNext, In!ringVars, In!ProduceBegin, In!Write, In!Abandon,
           In!ProduceCommit, In!ConsumeBegin, In!ConsumeCommit,
           In!Full, In!Empty, In!Count, In!Inc, In!Slot,
           InP!RingNext, InP!ringVars, InP!ProduceBegin, InP!Write, InP!Abandon,
           InP!ProduceCommit, InP!ConsumeBegin, InP!ConsumeCommit,
           InP!Full, InP!Empty, InP!Count, InP!Inc, InP!Slot
  <1>5. [inConsumer = "reading" /\ inTail' = inTail
            => inSlots'[InP!Slot(inTail)] = inSlots[InP!Slot(inTail)]]_(InP!ringVars)
        => [inConsumer = "reading" /\ inTail' = inTail
            => inSlots'[In!Slot(inTail)] = inSlots[In!Slot(inTail)]]_inRing
    BY DEF inRing, InP!ringVars, In!Slot, InP!Slot
  <1>6. In!RingInit /\ [][In!RingNext]_inRing => InP!RingSpec
    BY <1>3, <1>4, PTL DEF InP!RingSpec
  <1> QED BY <1>2, <1>5, <1>6, PTL

(***************************************************************************)
(* The bytes of an event stay as they are until the program polls again,   *)
(* although the host writes the slots of the ring in place beside it       *)
(* (client.go:54, "valid until the next Poll").                            *)
(***************************************************************************)
THEOREM PayloadStays ==
  Spec => PayloadStable
  <1>1. Init => Held /\ In!RingInit
    BY DEF Init, Held
  <1>2. Held /\ [Next]_vars => Held'
    BY HeldStep
  <1>3. [Next]_vars => [In!RingNext]_inRing
    BY InSteps
  <1>4. Held /\ [Next]_vars
        /\ [inConsumer = "reading" /\ inTail' = inTail
              => inSlots'[In!Slot(inTail)] = inSlots[In!Slot(inTail)]]_inRing
        => [pending /\ pending' => inSlots'[In!Slot(inTail')] = inSlots[In!Slot(inTail)]]_vars
    <2> SUFFICES ASSUME Held, [Next]_vars, pending, pending',
                        [inConsumer = "reading" /\ inTail' = inTail
                           => inSlots'[In!Slot(inTail)] = inSlots[In!Slot(inTail)]]_inRing
                 PROVE  inSlots'[In!Slot(inTail')] = inSlots[In!Slot(inTail)]
      OBVIOUS
    <2>1. inTail' = inTail /\ inConsumer = "reading"
      BY HeldStep DEF Held
    <2> QED BY <2>1 DEF inRing
  <1>5. Spec => In!RingInit /\ [][In!RingNext]_inRing
    BY <1>1, <1>3, PTL DEF Spec
  <1> QED
    BY <1>1, <1>2, <1>4, <1>5, InSlotStays, PTL DEF Spec, PayloadStable

(***************************************************************************)
(* Whatever the program emits and polls, whatever the host delivers, drains*)
(* and restarts, each ring of a client is a bounded first-in first-out     *)
(* queue: client.go's emit publishes a slot only after its frame is whole, *)
(* Poll releases one only when the program comes back for the next event.  *)
(***************************************************************************)
THEOREM RingsRefineQueues ==
  Spec => RingsAreQueues
  <1>1. Init => In!RingInit
    BY DEF Init
  <1>2. [Next]_vars => [In!RingNext]_inRing
    BY InSteps
  <1>3. Spec => In!RingInit /\ [][In!RingNext]_inRing
    BY <1>1, <1>2, PTL DEF Spec
  <1> QED
    BY <1>3, OutRuns, OutIsQueue, InIsQueue, PTL DEF RingsAreQueues
-----------------------------------------------------------------------------
(* The sum of the lengths of the parts S, which MapThenSumSet takes one chosen
   element at a time. *)
LenSum(f, S) == MapThenSumSet(LAMBDA x : f[x].len, S)
Taken(s) == CHOOSE x \in s : TRUE

(* Whoever unfolds the sum in this way computes it: a first difference would be at a
   smallest set. *)
Unfolds(G, f, S) ==
  /\ G = [s \in SUBSET S |-> G[s]]
  /\ \A s \in SUBSET S : G[s] = IF s = {} THEN 0 ELSE f[Taken(s)].len + G[s \ {Taken(s)}]

LEMMA SumUnfolds ==
  ASSUME NEW S, IsFiniteSet(S), NEW f, NEW G, Unfolds(G, f, S)
  PROVE  LenSum(f, S) = G[S]
  <1> DEFINE Def(g) == [s \in SUBSET S |-> IF s = {} THEN 0
                          ELSE f[Taken(s)].len + g[s \ {Taken(s)}]]
             H == CHOOSE g : g = Def(g)
             Bad == {s \in SUBSET S : H[s] # G[s]}
             R == StrictSubsetOrdering(S)
  <1>1. LenSum(f, S) = H[S]
    BY DEF LenSum, MapThenSumSet, MapThenFoldSet, Taken
  <1>2. H = Def(H)
    <2>1. G = Def(G)
      BY DEF Unfolds
    <2> QED BY <2>1
  <1> HIDE DEF H
  <1>3. IsWellFoundedOn(R, SUBSET S)
    BY FS_StrictSubsetOrderingWellFounded, FS_FiniteSubsetsOfFinite
  <1>4. ASSUME Bad # {} PROVE FALSE
    <2> HIDE DEF R
    <2>1. PICK s \in Bad : \A t \in Bad : ~(<<t, s>> \in R)
      BY <1>3, <1>4, WFMin, Zenon
    <2>2. s # {} /\ s \in SUBSET S
      BY <1>2 DEF Unfolds
    <2>3. Taken(s) \in s
      BY <2>2 DEF Taken
    <2> DEFINE t == s \ {Taken(s)}
    <2>4. t \in SUBSET S /\ t \subseteq s /\ t # s
      BY <2>2, <2>3
    <2>5. H[s] = f[Taken(s)].len + H[t] /\ G[s] = f[Taken(s)].len + G[t]
      BY <1>2, <2>2 DEF Unfolds
    <2> HIDE DEF t
    <2>6. <<t, s>> \in R
      BY <2>2, <2>4 DEF R, StrictSubsetOrdering
    <2>7. t \notin Bad
      BY <2>1, <2>6
    <2> QED BY <2>4, <2>5, <2>7
  <1> QED BY <1>1, <1>4

(* All parts of a body but the last are of the same length. *)
Even(f, n, chunk, last) == \A i \in 1 .. n : f[i].len = IF i < n THEN chunk ELSE last

LEMMA SumOfParts ==
  ASSUME NEW n \in Nat \ {0}, NEW chunk \in Nat, NEW last \in Nat, NEW f,
         Even(f, n, chunk, last)
  PROVE  LenSum(f, 1 .. n) = (n - 1) * chunk + last
  <1> DEFINE S == 1 .. n
             G == [s \in SUBSET S |-> IF n \in s THEN (Cardinality(s) - 1) * chunk + last
                                      ELSE Cardinality(s) * chunk]
  <1>1. IsFiniteSet(S) /\ Cardinality(S) = n
    BY FS_Interval
  <1>2. ASSUME NEW s \in SUBSET S, s # {}, NEW x \in s
        PROVE  G[s] = f[x].len + G[s \ {x}]
    <2>1. x \in S
      OBVIOUS
    <2>2. IsFiniteSet(s)
      BY <1>1, FS_Subset
    <2>3. PICK k \in Nat : Cardinality(s) = k
      BY <2>2, FS_CardinalityType
    <2>4. Cardinality(s \ {x}) = k - 1
      BY <2>1, <2>2, <2>3, FS_RemoveElement
    <2>6. (k - 1) * chunk = k * chunk - chunk /\ (k - 1 - 1) * chunk = (k - 1) * chunk - chunk
      BY SMT
    <2>7. f[x].len = IF x < n THEN chunk ELSE last
      BY <2>1 DEF Even
    <2>8. x <= n /\ x \in Nat
      BY <2>1
    <2>9. CASE x = n
      BY <2>1, <2>3, <2>4, <2>7, <2>9
    <2>10. CASE x # n
      <3>1. f[x].len = chunk /\ (n \in s \ {x} <=> n \in s)
        BY <2>7, <2>8, <2>10
      <3> QED BY <2>1, <2>3, <2>4, <2>6, <3>1
    <2> QED BY <2>9, <2>10
  <1>3. G[{}] = 0
    BY FS_EmptySet
  <1>4. \A s \in SUBSET S : G[s] = IF s = {} THEN 0 ELSE f[Taken(s)].len + G[s \ {Taken(s)}]
    <2>1. \A s \in SUBSET S : s # {} => Taken(s) \in s
      BY DEF Taken
    <2> HIDE DEF G
    <2> QED BY <1>2, <1>3, <2>1
  <1>5. G[S] = (n - 1) * chunk + last
    BY <1>1
  <1>6. G = [s \in SUBSET S |-> G[s]]
    OBVIOUS
  <1>7. LenSum(f, S) = G[S]
    <2>1. Unfolds(G, f, S)
      BY <1>4, <1>6 DEF Unfolds
    <2> HIDE DEF G, S
    <2> QED BY <1>1, <2>1, SumUnfolds
  <1> QED BY <1>5, <1>7

(* The parts ModuleCaller.send and replyModuleResult cut: as many as it takes, and
   the last is what is left. *)
LEMMA PartsCover ==
  ASSUME NEW length \in Nat, NEW chunk \in Nat \ {0}
  PROVE  LET parts == IF length = 0 THEN 1 ELSE (length + chunk - 1) \div chunk
             last == length - (parts - 1) * chunk
         IN /\ parts \in Nat \ {0} /\ last \in 0 .. chunk
            /\ length > 0 => last > 0
            /\ parts > 1 => length > 0
            /\ (parts - 1) * chunk + last = length
            /\ parts > 1 => chunk <= length
  <1> DEFINE q == (length + chunk - 1) \div chunk
             rest == (length + chunk - 1) % chunk
  <1>1. CASE length = 0
    BY <1>1, SMT
  <1>2. CASE length > 0
    <2>1. length + chunk - 1 = chunk * q + rest /\ rest \in 0 .. chunk - 1 /\ q \in Int
      <3>1. length + chunk - 1 \in Int
        OBVIOUS
      <3> QED BY <3>1, OutP!Quotient
    <2> HIDE DEF q, rest
    <2>2. chunk * q = (q - 1) * chunk + chunk
      BY <2>1, SMT
    <2>3. PICK d \in Int : d = (q - 1) * chunk
      BY <2>1, SMT
    <2>4. length - d = rest + 1
      BY <2>1, <2>2, <2>3, SMT
    <2>5. q >= 1
      <3>1. ASSUME q - 1 < 0 PROVE FALSE
        <4>1. d < 0 => d <= -chunk
          BY <2>1, <2>3, OutP!Multiple
        <4>2. d <= -chunk
          BY <2>1, <2>3, <3>1, SMT
        <4> QED BY <1>2, <2>1, <2>4, <4>2, SMT
      <3> QED BY <2>1, <3>1, SMT
    <2>6. q > 1 => d >= chunk
      BY <2>1, <2>3, SMT
    <2> QED BY <1>2, <2>1, <2>3, <2>4, <2>5, <2>6 DEF q
  <1> QED BY <1>1, <1>2

(* However a body falls on the budget of a frame, its parts can be sent and rebuild
   it (module_caller.go, module_runtime.go). *)
LEMMA Rebuild ==
  FragmentsRebuild
  <1> SUFFICES ASSUME NEW length \in 0 .. MaxBody, NEW budget \in MsgHdrLen + 1 .. Budget,
                      NEW cut, cut = Fragments(length, budget), NEW n, n = Len(cut)
               PROVE  /\ MapThenSumSet(LAMBDA i : cut[i].len, DOMAIN cut) = length
                      /\ \A i \in DOMAIN cut :
                           LET call == [pattern |-> "REPLY", more |-> cut[i].more,
                                        len |-> MsgHdrLen + cut[i].len, corr |-> 1]
                           IN /\ cut[i].more = (i < Len(cut))
                              /\ cut[i].len > 0 \/ length = 0
                              /\ ~Misused(call) /\ call.len <= budget
                              /\ DecodeMessage(call.len, TRUE,
                                   [operation |-> "RESULT", status |-> "OK", stage |-> 1,
                                    flags |-> 0, body |-> cut[i].len])
    BY DEF FragmentsRebuild
  <1> DEFINE chunk == budget - MsgHdrLen
             parts == IF length = 0 THEN 1 ELSE (length + chunk - 1) \div chunk
             last == length - (parts - 1) * chunk
  <1>1. length \in Nat /\ chunk \in Nat \ {0} /\ MsgHdrLen \in Nat /\ budget = MsgHdrLen + chunk
        /\ length <= MaxBody
    BY WireWidths
  <1>2. cut = [i \in 1 .. parts |-> [len |-> IF i < parts THEN chunk ELSE last,
                                     more |-> i < parts]]
    BY DEF Fragments
  <1>3. /\ parts \in Nat \ {0} /\ last \in 0 .. chunk
        /\ length > 0 => last > 0
        /\ parts > 1 => length > 0
        /\ (parts - 1) * chunk + last = length
        /\ parts > 1 => chunk <= length
    BY <1>1, PartsCover
  <1> HIDE DEF chunk, parts, last
  <1>4. DOMAIN cut = 1 .. parts /\ n = parts
    BY <1>2, <1>3
  <1>5. \A i \in 1 .. parts : cut[i].len = (IF i < parts THEN chunk ELSE last)
                              /\ cut[i].more = (i < parts)
    BY <1>2
  <1>6. MapThenSumSet(LAMBDA i : cut[i].len, DOMAIN cut) = length
    <2>1. LenSum(cut, 1 .. parts) = (parts - 1) * chunk + last
      <3>1. chunk \in Nat /\ last \in Nat
        BY <1>1, <1>3
      <3>2. Even(cut, parts, chunk, last)
        BY <1>5 DEF Even
      <3> QED BY <1>3, <3>1, <3>2, SumOfParts
    <2>2. LenSum(cut, DOMAIN cut) = length
      BY <1>3, <1>4, <2>1
    <2> QED BY <2>2 DEF LenSum
  <1>7. ASSUME NEW i \in DOMAIN cut
        PROVE  /\ cut[i].more = (i < Len(cut))
               /\ cut[i].len > 0 \/ length = 0
               /\ cut[i].more => cut[i].len > 0
               /\ cut[i].len \in 0 .. chunk /\ cut[i].len <= length
    <2>1. last <= length
      <3>1. (parts - 1) * chunk >= 0
        BY <1>1, <1>3, SMT
      <3> QED BY <1>1, <1>3, <3>1
    <2>2. i \in 1 .. parts /\ Len(cut) = parts
      BY <1>4
    <2>3. cut[i].len \in 0 .. chunk /\ cut[i].len <= length
      BY <1>1, <1>3, <1>5, <2>1, <2>2
    <2>4. cut[i].len > 0 \/ length = 0
      BY <1>1, <1>3, <1>5, <2>2
    <2>5. cut[i].more = (i < Len(cut))
      BY <1>5, <2>2
    <2>6. i < parts => cut[i].len > 0
      BY <1>1, <1>5, <2>2
    <2> QED BY <2>2, <2>3, <2>4, <2>5, <2>6
  <1>8. ASSUME NEW i \in DOMAIN cut
        PROVE  LET call == [pattern |-> "REPLY", more |-> cut[i].more,
                            len |-> MsgHdrLen + cut[i].len, corr |-> 1]
               IN /\ ~Misused(call) /\ call.len <= budget
                  /\ DecodeMessage(call.len, TRUE,
                       [operation |-> "RESULT", status |-> "OK", stage |-> 1,
                        flags |-> 0, body |-> cut[i].len])
    <2>1. PICK m \in 0 .. chunk : m = cut[i].len /\ m <= MaxBody /\ (cut[i].more => m > 0)
      BY <1>1, <1>7, WireWidths
    <2>2. m <= MsgHdrLen + m - MsgHdrLen /\ MsgHdrLen + m <= budget /\ MsgHdrLen + m >= MsgHdrLen
      BY <1>1, <2>1
    <2> QED BY <1>1, <2>1, <2>2 DEF Misused, DecodeMessage, MessageValid
  <1> QED BY <1>6, <1>7, <1>8

(* A frame that Validate accepts and whose payload emit has compared with the slot is
   one CheckPlacement accepts (wire.go, client.go). *)
LEMMA GoodIsPlaced ==
  ASSUME NEW f \in Good
  PROVE  CheckPlacement(f, SlotSize, ArenaSize) = "OK"
  <1>1. PICK c \in Calls : /\ ~Unfit(c, Budget, SlotSize)
                           /\ Encode(EmittedFrame(c), SlotSize) = HdrLen
                           /\ f = EmittedFrame(c)
    BY DEF Good
  <1>2. Validate(f) = "OK"
    BY <1>1, WireWidths DEF Encode
  <1>3. c.len \in Nat
    BY WireWidths
  <1>4. CASE c.len = 0
    BY <1>1, <1>2, <1>4 DEF CheckPlacement, EmittedFrame
  <1>5. CASE c.len > 0
    <2>1. f.ref = HdrLen /\ f.len = c.len /\ "INLINE" \in f.flags
      BY <1>1, <1>3, <1>5 DEF EmittedFrame, EmittedFlags
    <2>2. HdrLen + c.len <= SlotSize /\ HdrLen + c.len < RefWrap /\ HdrLen + c.len \in Nat
      BY <1>1, <1>3, <1>5, WireWidths DEF Unfit
    <2>3. (HdrLen + c.len) % RefWrap = HdrLen + c.len
      BY <2>2, WireWidths, SMT
    <2> QED BY <1>2, <1>3, <1>5, <2>1, <2>2, <2>3, WireWidths DEF CheckPlacement
  <1> QED BY <1>3, <1>4, <1>5

(* The fields of the client beside its rings. *)
FlagsOK ==
  /\ serving \in BOOLEAN /\ sock \in BOOLEAN /\ beating \in BOOLEAN
  /\ ctxDone \in BOOLEAN /\ pending \in BOOLEAN

RangesOK ==
  /\ pc \in {"connect", "wait", "request", "map", "idle", "emit", "poll", "skip",
             "failed", "detached"}
  /\ fds \in 0 .. 3 /\ maps \subseteq Regions /\ epoch \in 0 .. MaxEpoch

LEMMA FlagsStep ==
  ASSUME FlagsOK, [Next]_vars
  PROVE  FlagsOK'
  <1> USE DEF FlagsOK
  <1>1. CASE Connect \/ Retry \/ GiveUp \/ Handshake
    BY <1>1, Zenon DEF Connect, Retry, GiveUp, Handshake, Fail, conn, Still
  <1>2. CASE MapRegion
    BY <1>2, Zenon DEF MapRegion, Fail, Still
  <1>3. CASE Validated
    <2>1. beating' = ~serving \/ beating' = beating
      BY <1>3, Zenon DEF Validated, Fail
    <2>2. serving' = serving /\ (sock' = FALSE) /\ ctxDone' = ctxDone /\ pending' = pending
      BY <1>3, Zenon DEF Validated, Fail, Still
    <2> QED BY <2>1, <2>2, Zenon
  <1>4. CASE Operate
    <2>1. UNCHANGED <<conn, ctxDone>>
      BY <1>4, Zenon DEF Operate, Emit, EmitWrite, EmitCommit, PollRelease, PollTake, PollSkip
    <2>2. pending' \in BOOLEAN
      BY <1>4, Zenon DEF Operate, Emit, EmitWrite, EmitCommit, PollRelease, PollTake, PollSkip
    <2> QED BY <2>1, <2>2, Zenon DEF conn
  <1>5. CASE Detach \/ KeepAliveEnds
    BY <1>5, Zenon DEF Detach, KeepAliveEnds, Still
  <1>6. CASE Host
    BY <1>6, Zenon DEF Host, HostDrains, HostDelivers, HostRestarts, CancelContext, conn
  <1>7. CASE UNCHANGED vars
    BY <1>7, Zenon DEF vars, conn
  <1> QED BY <1>1, <1>2, <1>3, <1>4, <1>5, <1>6, <1>7 DEF Next, Attach

LEMMA RangesStep ==
  ASSUME RangesOK, [Next]_vars
  PROVE  RangesOK'
  <1> USE DEF RangesOK
  <1>1. CASE Connect \/ Retry \/ GiveUp \/ Handshake
    BY <1>1 DEF Connect, Retry, GiveUp, Handshake, Fail, GoTo, conn, Still
  <1>2. CASE MapRegion \/ Validated
    <2>1. NextRegion \in Regions
      BY DEF NextRegion, Regions
    <2> QED BY <1>2, <2>1 DEF MapRegion, Validated, Fail, GoTo, Still
  <1>3. CASE Operate
    <2>1. UNCHANGED <<conn, epoch>>
      BY <1>3, Zenon DEF Operate, Emit, EmitWrite, EmitCommit, PollRelease, PollTake, PollSkip
    <2>2. pc' \in {"idle", "emit", "poll", "skip"}
      <3>1. CASE PollTake
        BY <3>1, Zenon DEF PollTake, GoTo
      <3>2. CASE PollRelease \/ PollSkip
        BY <3>2, Zenon DEF PollRelease, PollSkip, GoTo
      <3>3. CASE EmitWrite \/ EmitCommit \/ \E call \in Calls : Emit(call)
        BY <3>3, Zenon DEF Emit, EmitWrite, EmitCommit, GoTo
      <3> QED BY <1>3, <3>1, <3>2, <3>3 DEF Operate
    <2> QED BY <2>1, <2>2 DEF conn
  <1>4. CASE Detach \/ KeepAliveEnds
    BY <1>4 DEF Detach, KeepAliveEnds, GoTo, Still
  <1>5. CASE HostRestarts
    BY <1>5, WireWidths DEF HostRestarts, conn
  <1>6. CASE HostDrains \/ HostDelivers \/ CancelContext \/ UNCHANGED vars
    BY <1>6 DEF HostDrains, HostDelivers, CancelContext, conn, vars
  <1> QED BY <1>1, <1>2, <1>3, <1>4, <1>5, <1>6 DEF Next, Attach, Host

(***************************************************************************)
(* Whatever the program asks emit to send and however the indices of the   *)
(* rings wrap, the outbound ring holds frames only that its reader's       *)
(* CheckPlacement accepts (client.go: emit, wire.go), and a body of any    *)
(* length is rebuilt from the parts that the budget of a frame leaves      *)
(* (module_caller.go: send, module_runtime.go: replyModuleResult).         *)
(***************************************************************************)
THEOREM WireIsSound ==
  Spec => []FramesSound
  <1>1. Init => FlagsOK /\ RangesOK
    <2>1. Init => FlagsOK
      BY Zenon DEF Init, FlagsOK
    <2>2. Init => RangesOK
      BY WireWidths DEF Init, RangesOK
    <2> QED BY <2>1, <2>2
  <1>2. FlagsOK /\ RangesOK /\ [Next]_vars => (FlagsOK /\ RangesOK)'
    BY FlagsStep, RangesStep
  <1>3. Spec => [](OutP!RingTypeOK /\ \A i \in DOMAIN OutP!Contents : OutP!Contents[i] \in Good)
    <2>1. OutP!RingSpec
            => [](OutP!RingTypeOK /\ \A i \in DOMAIN OutP!Contents : OutP!Contents[i] \in Good)
      BY GoodGeometry, OutP!HoldsPayloads
    <2> QED BY <2>1, OutRuns, PTL
  <1>4. Spec => [](InP!RingTypeOK)
    <2>1. InP!Geometry
      BY RingGeometry DEF In!Geometry, InP!Geometry
    <2>2. InP!RingSpec => [](InP!RingTypeOK /\ InP!SlotsDisjoint)
      BY <2>1, InP!RingSafe
    <2> QED BY <2>2, InRuns, PTL
  <1>5. OutP!RingTypeOK => Out!RingTypeOK
    BY GoodGeometry DEF OutP!RingTypeOK, OutP!Index, Out!RingTypeOK, Out!Index
  <1>6. InP!RingTypeOK => In!RingTypeOK
    BY DEF InP!RingTypeOK, InP!Index, In!RingTypeOK, In!Index
  <1>7. (\A i \in DOMAIN OutP!Contents : OutP!Contents[i] \in Good) => SentFramesAreValid
    <2>1. OutP!Contents = Out!Contents
      BY DEF Out!Contents, Out!Count, Out!Slot, OutP!Contents, OutP!Count, OutP!Slot
    <2> HIDE DEF Out!Contents, OutP!Contents
    <2> QED BY <2>1, GoodIsPlaced DEF SentFramesAreValid
  <1>8. FlagsOK /\ RangesOK /\ Out!RingTypeOK /\ In!RingTypeOK => TypeOK
    BY DEF FlagsOK, RangesOK, TypeOK
  <1>9. FlagsOK /\ RangesOK /\ Out!RingTypeOK /\ In!RingTypeOK /\ SentFramesAreValid => FramesSound
    BY <1>8, Rebuild DEF FramesSound
  <1> QED BY <1>1, <1>2, <1>3, <1>4, <1>5, <1>6, <1>7, <1>9, PTL DEF Spec
=============================================================================
