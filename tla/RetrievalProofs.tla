--------------------------- MODULE RetrievalProofs ---------------------------
(***************************************************************************)
(* Proofs about what answers a query: the circuit breaker in front of the  *)
(* embedding endpoint (for every set of calls, threshold and pair of       *)
(* delays), the answer of memory_answer (for every search result, floor    *)
(* and threshold), the bundle of memory_recall (for every table, cap,      *)
(* budget and length of the rows), the searches for memories (for every    *)
(* result of a query, scope, setting and cap) and the context block (for   *)
(* every table, hint, graph, cap and budget).                              *)
(***************************************************************************)
EXTENDS EmbedBreaker, Answer, Recall, Search, Assembly, ListProofs, TLAPS

(***************************************************************************)
(* breakerDelayMS: no delay is above MaxMS, jitter included.               *)
(***************************************************************************)
LEMMA DelayBounded ==
  ASSUME NEW n \in Nat, NEW d \in BreakerDelays(n)
  PROVE  d \in Int /\ d <= MaxMS
<1> DEFINE b == Backoff(n)
<1>1. b \in Int /\ b <= MaxMS
  BY BreakerAssumption DEF Backoff
<1>2. b \div 4 \in Int
  BY <1>1
<1>3. JitterCap(b) \in Int /\ JitterCap(b) <= MaxMS - b
  BY <1>1, <1>2, BreakerAssumption DEF JitterCap
<1>4. PICK j \in 0 .. JitterCap(b) : d = b + j
  BY DEF BreakerDelays
<1> QED
  BY <1>1, <1>3, <1>4, BreakerAssumption

(***************************************************************************)
(* Saturating increments of the uint32 counters.                           *)
(***************************************************************************)
LEMMA SaturateType ==
  ASSUME NEW n \in 0 .. CounterMax
  PROVE  Saturate(n) \in 0 .. CounterMax /\ Saturate(n) >= n
BY BreakerAssumption DEF Saturate

(***************************************************************************)
(* What reportFailure leaves behind.                                       *)
(***************************************************************************)
LEMMA FailureReport ==
  ASSUME TypeOK, OpenIsEarned, NEW t \in Nat, ReportFailure(t)
  PROVE  /\ failureStreak' \in 0 .. CounterMax
         /\ openCount' \in 0 .. CounterMax
         /\ openedAtMS' \in Nat /\ retryAtMS' \in Int
         /\ probeInflight' = FALSE
         /\ OpenIsEarned'
<1>1. failureStreak' \in 0 .. CounterMax /\ failureStreak' >= failureStreak
  BY SaturateType DEF TypeOK, ReportFailure
<1>2. CASE failureStreak' >= Threshold
  <2>1. PICK d \in BreakerDelays(openCount) : retryAtMS' = t + d
    BY <1>2 DEF ReportFailure
  <2>2. d \in Int /\ d <= MaxMS
    BY DelayBounded, BreakerAssumption DEF TypeOK
  <2>3. openCount' \in 0 .. CounterMax /\ openedAtMS' = t /\ probeInflight' = FALSE
    BY <1>2, SaturateType DEF ReportFailure, TypeOK
  <2> QED
    BY <1>1, <1>2, <2>1, <2>2, <2>3, BreakerAssumption DEF OpenIsEarned, Closed
<1>3. CASE ~(failureStreak' >= Threshold)
  <2>1. UNCHANGED <<openCount, openedAtMS, retryAtMS>> /\ probeInflight' = FALSE
    BY <1>3 DEF ReportFailure
  <2> QED
    BY <1>1, <1>3, <2>1, BreakerAssumption DEF OpenIsEarned, Closed, TypeOK
<1> QED
  BY <1>2, <1>3

(***************************************************************************)
(* The breaker's invariant.  OpenIsEarned is inductive with the types;     *)
(* RetryAfterBounded needs it in the step that suppresses a call;          *)
(* ProbeHeld needs only that every return of Embed clears the flag.        *)
(***************************************************************************)
BreakerInv == TypeOK /\ ProbeHeld /\ OpenIsEarned /\ RetryAfterBounded

(* The breaker starts closed and no call runs (embedBreaker). *)
LEMMA InitInv == Init => BreakerInv
<1> SUFFICES ASSUME Init PROVE BreakerInv
  OBVIOUS
<1>1. response \in [kind : Kinds, retryAfter : Int] /\ RetryAfterBounded
  BY BreakerAssumption DEF Init, Response, Kinds, RetryAfterBounded
<1>2. probeInflight \in BOOLEAN /\ probe \in [Calls -> BOOLEAN]
  BY Zenon DEF Init
<1>3. /\ failureStreak \in 0 .. CounterMax /\ openCount \in 0 .. CounterMax
      /\ clock \in Nat /\ jumps \in Nat /\ openedAtMS \in Nat /\ retryAtMS \in Int
      /\ pc \in [Calls -> {"idle", "sent"}] /\ now \in [Calls -> Nat]
  BY BreakerAssumption DEF Init
<1>4. TypeOK
  BY <1>1, <1>2, <1>3, Zenon DEF TypeOK
<1> QED
  BY <1>1, <1>4 DEF Init, BreakerInv, ProbeHeld, OpenIsEarned, Closed

(***************************************************************************)
(* A call that ends, other than by suppression, tells no time to wait.     *)
(***************************************************************************)
LEMMA EndsType ==
  ASSUME NEW k \in Kinds, Ends(k, 0)
  PROVE  response' \in [kind : Kinds, retryAfter : Int] /\ RetryAfterBounded'
BY BreakerAssumption DEF Ends, Response, RetryAfterBounded

(***************************************************************************)
(* A call that leaves keeps the types of the per-call state.               *)
(***************************************************************************)
LEMMA LeaveType ==
  ASSUME TypeOK, NEW c \in Calls, Leave(c)
  PROVE  /\ pc' \in [Calls -> {"idle", "sent"}]
         /\ now' \in [Calls -> Nat]
         /\ probe' \in [Calls -> BOOLEAN]
         /\ clock' \in Nat /\ jumps' \in Nat
BY DEF Leave, TypeOK

(* Every return of Embed, and every method of the breaker, keeps the invariant. *)
LEMMA NextInv == BreakerInv /\ [Next]_vars => BreakerInv'
<1> SUFFICES ASSUME BreakerInv, [Next]_vars
             PROVE  BreakerInv'
  OBVIOUS
<1> USE BreakerAssumption DEF BreakerInv
<1>1. ASSUME NEW c \in Calls, AllowClosed(c)
      PROVE  BreakerInv'
  <2>1. TypeOK'
    BY <1>1 DEF AllowClosed, Admit, TypeOK, breaker
  <2>2. ProbeHeld'
    <3>1. \A x \in Probes : x # c
      BY <1>1 DEF AllowClosed, Probes
    <3>2. Probes \subseteq Probes'
      BY <1>1, <3>1 DEF AllowClosed, Admit, TypeOK, Probes
    <3> QED
      BY <1>1, <3>2 DEF AllowClosed, ProbeHeld, breaker
  <2> QED
    BY <1>1, <2>1, <2>2
    DEF AllowClosed, Admit, OpenIsEarned, RetryAfterBounded, Closed, breaker
<1>2. ASSUME NEW c \in Calls, AllowProbe(c)
      PROVE  BreakerInv'
  <2>1. TypeOK'
    BY <1>2 DEF AllowProbe, Admit, TypeOK
  <2>2. c \in Probes'
    BY <1>2 DEF AllowProbe, Admit, TypeOK, Probes
  <2> QED
    BY <1>2, <2>1, <2>2
    DEF AllowProbe, Admit, OpenIsEarned, RetryAfterBounded, Closed, ProbeHeld
<1>3. ASSUME NEW c \in Calls, Suppress(c)
      PROVE  BreakerInv'
  <2>1. response' \in [kind : Kinds, retryAfter : 0 .. MaxMS]
    <3>1. CASE Eligible(clock)
      BY <1>3, <3>1 DEF Suppress, Ends, Response, Kinds
    <3>2. CASE ~Eligible(clock)
      <4>1. retryAtMS - clock \in 0 .. MaxMS
        BY <1>3, <3>2 DEF Suppress, Eligible, OpenIsEarned, TypeOK
      <4> QED
        BY <1>3, <3>2, <4>1 DEF Suppress, Ends, Response, Kinds
    <3> QED
      BY <3>1, <3>2
  <2>2. TypeOK'
    BY <1>3, <2>1 DEF Suppress, TypeOK, breaker
  <2> QED
    BY <1>3, <2>1, <2>2
    DEF Suppress, OpenIsEarned, RetryAfterBounded, Closed, ProbeHeld, Probes,
        breaker
<1>4. ASSUME NEW c \in Calls, RefuseEarly(c)
      PROVE  BreakerInv'
  <2>1. TypeOK' /\ RetryAfterBounded'
    BY <1>4 DEF RefuseEarly, Ends, Response, Kinds, TypeOK, RetryAfterBounded, breaker
  <2> QED
    BY <1>4, <2>1
    DEF RefuseEarly, OpenIsEarned, Closed, ProbeHeld, Probes, breaker
<1>5. ASSUME NEW c \in Calls, Reached(c)
      PROVE  BreakerInv'
  <2>1. response' \in [kind : Kinds, retryAfter : Int] /\ RetryAfterBounded'
    BY <1>5, EndsType DEF Reached, Kinds
  <2>2. probeInflight' \in BOOLEAN
    BY <1>5, Zenon DEF Reached, ReportSuccess
  <2>3. /\ failureStreak' \in 0 .. CounterMax /\ openCount' \in 0 .. CounterMax
        /\ openedAtMS' \in Nat /\ retryAtMS' \in Int
    BY <1>5 DEF Reached, ReportSuccess
  <2>4. Leave(c)
    BY <1>5 DEF Reached
  <2>5. TypeOK'
    BY <2>1, <2>2, <2>3, <2>4, LeaveType DEF TypeOK
  <2> QED
    BY <1>5, <2>1, <2>5 DEF Reached, ReportSuccess, OpenIsEarned, Closed, ProbeHeld
<1>6. ASSUME NEW c \in Calls, Failed(c)
      PROVE  BreakerInv'
  <2>1. now[c] \in Nat /\ ReportFailure(now[c])
    BY <1>6 DEF Failed, TypeOK
  <2>2. /\ failureStreak' \in 0 .. CounterMax
        /\ openCount' \in 0 .. CounterMax
        /\ openedAtMS' \in Nat /\ retryAtMS' \in Int
        /\ probeInflight' = FALSE
        /\ OpenIsEarned'
    BY <2>1, FailureReport
  <2>3. response' \in [kind : Kinds, retryAfter : Int] /\ RetryAfterBounded'
    BY <1>6, EndsType DEF Failed, Kinds
  <2>4. TypeOK'
    BY <1>6, <2>2, <2>3, LeaveType DEF Failed, TypeOK
  <2> QED
    BY <2>2, <2>3, <2>4 DEF ProbeHeld
<1>7. ASSUME NEW c \in Calls, CancelProbe(c)
      PROVE  BreakerInv'
  <2>1. response' \in [kind : Kinds, retryAfter : Int] /\ RetryAfterBounded'
    BY <1>7, EndsType DEF CancelProbe, Kinds
  <2>2. TypeOK'
    BY <1>7, <2>1, LeaveType DEF CancelProbe, TypeOK
  <2> QED
    BY <1>7, <2>1, <2>2 DEF CancelProbe, OpenIsEarned, Closed, ProbeHeld
<1>8. CASE Tick \/ JumpBack
  BY <1>8 DEF Tick, JumpBack, TypeOK, OpenIsEarned, RetryAfterBounded, Closed,
              ProbeHeld, Probes, breaker
<1>9. CASE UNCHANGED vars
  BY <1>9 DEF vars, breaker, TypeOK, OpenIsEarned, RetryAfterBounded, Closed,
              ProbeHeld, Probes
<1> QED
  BY <1>1, <1>2, <1>3, <1>4, <1>5, <1>6, <1>7, <1>8, <1>9
  DEF Next, Call, Complete

(* The invariant holds in every state of every run of the breaker. *)
LEMMA BreakerInvariant == Spec => []BreakerInv
BY InitInv, NextInv, PTL DEF Spec

(***************************************************************************)
(* The probe of the half-open breaker is never left claimed by a call that *)
(* has returned, for any number of concurrent callers.                     *)
(***************************************************************************)
THEOREM ProbeNeverOrphaned == Spec => []ProbeHeld
BY BreakerInvariant, PTL DEF BreakerInv

(***************************************************************************)
(* The breaker opens only after Threshold consecutive failures and for at  *)
(* most MaxMS.                                                             *)
(***************************************************************************)
THEOREM OutageEarnedAndBounded == Spec => []OpenIsEarned
BY BreakerInvariant, PTL DEF BreakerInv

(***************************************************************************)
(* A suppressed caller is never told to wait longer than MaxMS, for every  *)
(* behaviour of the clock.                                                 *)
(***************************************************************************)
THEOREM RetryAfterIsBounded == Spec => []RetryAfterBounded
BY BreakerInvariant, PTL DEF BreakerInv

-----------------------------------------------------------------------------
(* Answering. *)

LEMMA DivIsNat ==
  ASSUME NEW x \in Nat, NEW d \in Nat \ {0}
  PROVE  x \div d \in Nat /\ x \div d <= x
OBVIOUS
LEMMA LeastIs ==
  ASSUME NEW S \in SUBSET Nat, S # {}
  PROVE  Min(S) \in S /\ \A x \in S : Min(S) <= x
BY LeastNumber DEF Min
LEMMA LeastOfThree ==
  ASSUME NEW a \in Int, NEW b \in Int, NEW c \in Int
  PROVE  Min({a, b, c}) \in Int /\ Min({a, b, c}) <= a
<1>1. \E x \in {a, b, c} : \A y \in {a, b, c} : x <= y
  <2>1. CASE a <= b /\ a <= c
    BY <2>1
  <2>2. CASE b <= a /\ b <= c
    BY <2>2
  <2>3. CASE c <= a /\ c <= b
    BY <2>3
  <2> QED BY <2>1, <2>2, <2>3
<1> QED BY <1>1 DEF Min

LEMMA CoverCounts ==
  ASSUME NEW terms, IsFiniteSet(terms), NEW words
  PROVE  Covered(terms, words) \in Nat
<1>1. CASE terms = {}
  BY <1>1 DEF Covered
<1>2. CASE terms # {}
  <2>1. PICK n \in Nat \ {0} : n = Cardinality(terms)
    BY <1>2, FS_EmptySet, FS_CardinalityType
  <2>2. PICK k \in Nat : k = Cardinality(terms \cap words)
    BY FS_Intersection, FS_CardinalityType
  <2>3. 100 * k \in Nat
    BY <2>2
  <2> QED BY <1>2, <2>1, <2>2, <2>3, DivIsNat DEF Covered
<1> QED BY <1>1, <1>2

LEMMA ConfidenceIsNumber ==
  ASSUME NEW terms, IsFiniteSet(terms), NEW words, NEW n \in Nat, NEW scores \in [1 .. n -> Int],
         \A i \in 1 .. n : scores[i] >= 1, n > 0
  PROVE  Confidence(terms, words, scores) \in Int
<1>0. scores \in Seq(Int) /\ Len(scores) = n
  OBVIOUS
<1>1. PICK s \in Nat \ {0} : s = scores[1]
  OBVIOUS
<1>2. PICK third \in Int : third = scores[IF Len(scores) < 3 THEN Len(scores) ELSE 3]
  BY <1>0
<1>3. (100 * (s - third)) \div s \in Int
  OBVIOUS
<1>4. Separation(scores) \in Int
  BY <1>0, <1>1, <1>2, <1>3 DEF Separation
<1>5. PICK c \in Nat : c = Covered(terms, words)
  BY CoverCounts
<1>6. PICK e \in Int : e = Separation(scores)
  BY <1>4
<1>7. (60 * c + 40 * e) \div 100 \in Int
  OBVIOUS
<1> QED BY <1>5, <1>6, <1>7 DEF Confidence

-----------------------------------------------------------------------------
(* What a search has found. *)
Shaped(m) == /\ m \in Seq({m[i] : i \in DOMAIN m}) /\ m # <<>>
             /\ \A i \in DOMAIN m : m[i].score \in Int

Found == Shaped(matches)

LEMMA PlacesAre == ASSUME Found PROVE Len(matches) \in Nat \ {0} /\ DOMAIN matches = 1 .. Len(matches)
<1>1. PICK S : matches \in Seq(S) /\ matches # <<>>
  BY DEF Found, Shaped
<1> QED BY <1>1

LEMMA ClusterIs ==
  ASSUME Found, NEW a \in DOMAIN matches
  PROVE  /\ Cluster(a) \subseteq 1 .. Len(matches) /\ IsFiniteSet(Cluster(a)) /\ a \in Cluster(a)
         /\ Cardinality(Cluster(a)) \in Nat \ {0}
<1>1. Cluster(a) \subseteq 1 .. Len(matches) /\ a \in Cluster(a)
  BY PlacesAre DEF Cluster, Member
<1>2. IsFiniteSet(1 .. Len(matches))
  BY PlacesAre, FS_Interval
<1>3. IsFiniteSet(Cluster(a))
  BY <1>1, <1>2, FS_Subset
<1>4. Cardinality(Cluster(a)) \in Nat /\ Cardinality(Cluster(a)) # 0
  BY <1>1, <1>3, FS_CardinalityType, FS_EmptySet
<1> QED BY <1>1, <1>3, <1>4

LEMMA PointsAreCounted == ASSUME Found, NEW a \in DOMAIN matches PROVE Points(a) \in Nat
<1>1. PICK l \in Nat : l = Len(matches) /\ DOMAIN matches = 1 .. l
  BY PlacesAre
<1>2. Shares(a) \in Seq(Nat)
  <2>1. ASSUME NEW i \in 1 .. l PROVE (IF i \in Cluster(a) THEN 29400 \div i ELSE 0) \in Nat
    BY DivIsNat
  <2>2. Shares(a) \in [1 .. l -> Nat]
    BY <1>1, <2>1 DEF Shares
  <2> QED BY <2>2
<1>3. PICK t \in Nat : t = Total(Shares(a))
  BY <1>2, TotalCounts
<1>4. PICK p \in Nat : p = 84000 \div a
  BY <1>1, DivIsNat
<1>5. PICK n \in Nat \ {0} : n = Cardinality(Cluster(a))
  BY ClusterIs
<1>6. PICK k \in Nat : k = Min({n, 4})
  BY LeastIs
<1> DEFINE of(kind) == \E i \in Cluster(a) : matches[i].kind = kind
<1>7. PICK u \in Nat : u = (IF n > 1 THEN 8 * k ELSE 0)
  OBVIOUS
<1>8. PICK v \in Nat : v = (IF \E i \in Cluster(a) : matches[i].kind # matches[a].kind THEN 10 ELSE 0)
  OBVIOUS
<1>9. PICK w \in Nat : w = (IF of("episode") THEN 12 ELSE 0)
  OBVIOUS
<1>10. PICK x \in Nat : x = (IF of("fact") THEN 8 ELSE 0)
  OBVIOUS
<1>11. Points(a) = 840 * (u + v + w + x) + p + t
  BY <1>3, <1>4, <1>5, <1>6, <1>7, <1>8, <1>9, <1>10 DEF Points
<1> QED BY <1>11

LEMMA AnchorIs == ASSUME Found PROVE Anchor \in DOMAIN matches
<1>1. PICK n \in Nat \ {0} : n = Len(matches) /\ DOMAIN matches = 1 .. n
  BY PlacesAre
<1>2. PICK pts : pts = [b \in 1 .. n |-> Points(b)]
  OBVIOUS
<1>3. \A b \in 1 .. n : pts[b] = Points(b) /\ pts[b] \in Nat
  BY <1>1, <1>2, PointsAreCounted
<1>4. PICK a \in 1 .. n : FirstBest(pts, n, a)
  BY <1>3, SomeIsFirstBest
<1>5. \A b \in DOMAIN matches : Points(b) < Points(a) \/ (Points(b) = Points(a) /\ a <= b)
  BY <1>1, <1>3, <1>4 DEF FirstBest
<1> QED BY <1>1, <1>4, <1>5 DEF Anchor

Sure(n) == n \in Nat /\ n <= MostSure

LEMMA NothingIsSure == Sure(0)
BY SMT DEF Sure, MostSure

LEMMA SurenessIsBounded == ASSUME Found PROVE Sure(Sureness)
<1>1. PICK a \in Nat \ {0} : a = Anchor /\ a \in DOMAIN matches
  BY AnchorIs, PlacesAre
<1>2. PICK p \in Nat : p = Points(a)
  BY <1>1, PointsAreCounted
<1>3. PICK x \in Nat : x = Min({p, 168000}) /\ x <= 168000
  BY LeastIs
<1>4. PICK n \in Nat : n = Len(matches)
  BY PlacesAre
<1>5. PICK y \in Nat : y = Min({n, 4}) /\ y <= 4
  BY LeastIs
<1>6. PICK z \in Nat : z = 16800000 \div a /\ z <= 16800000
  BY DivIsNat
<1>7. Sureness = 225 * x + z + 50 * 84000 * y + 150 * 84000
  BY <1>1, <1>2, <1>3, <1>4, <1>5, <1>6 DEF Sureness
<1>8. 50 * 84000 * y = 4200000 * y /\ 150 * 84000 = 12600000
  OBVIOUS
<1>9. Sureness = 225 * x + z + 4200000 * y + 12600000
  BY <1>7, <1>8
<1>10. PICK u \in Nat : u = 225 * x /\ u <= 37800000
  BY <1>3, SMT
<1>11. PICK v \in Nat : v = 4200000 * y /\ v <= 16800000
  BY <1>5, SMT
<1>12. u + z + v + 12600000 \in Nat /\ u + z + v + 12600000 <= 84000000
  BY <1>6, <1>10, <1>11, SMT
<1>13. Sureness = u + z + v + 12600000
  BY <1>9, <1>10, <1>11
<1>14. PICK t \in Nat : t = u + z + v + 12600000 /\ t <= 84000000
  BY <1>12, SMT
<1> QED BY <1>13, <1>14, SMT DEF Sure, MostSure

LEMMA CitationsAre ==
  ASSUME Found
  PROVE  /\ Len(Citations) \in Nat \ {0} /\ Len(Citations) <= MaxCitations /\ Citations # <<>>
         /\ \A i \in Cluster(Anchor) :
              \/ \E k \in DOMAIN Citations : Citations[k] = matches[i].id
              \/ Len(Citations) = MaxCitations /\ Cardinality(Cluster(Anchor)) > MaxCitations
<1>1. PICK C \in SUBSET Nat : /\ C = Cluster(Anchor) /\ IsFiniteSet(C)
                              /\ Cardinality(C) \in Nat \ {0}
  BY AnchorIs, ClusterIs, PlacesAre
<1>2. PICK n \in Nat \ {0} : n = Cardinality(C)
  BY <1>1
<1>3. PICK o : o = Ascending(C) /\ IsListing(o, C)
  BY <1>1, AscendingLists
<1>4. /\ Len(o) = n /\ \A i \in 1 .. n : o[i] \in C
      /\ \A i \in C : \E k \in 1 .. n : o[k] = i
  BY <1>2, <1>3 DEF IsListing
<1>5. PICK m \in Nat \ {0} : /\ m = Min({MaxCitations, n}) /\ m <= MaxCitations /\ m <= n
                             /\ m \in {MaxCitations, n}
  BY AnswerAssumption, LeastIs
<1>6. PICK c : c = [k \in 1 .. m |-> matches[o[k]].id]
  OBVIOUS
<1>7. Citations = c
  BY <1>1, <1>3, <1>4, <1>5, <1>6 DEF Citations
<1>8. /\ Len(c) = m /\ DOMAIN c = 1 .. m /\ c # <<>>
      /\ \A k \in 1 .. m : c[k] = matches[o[k]].id
  BY <1>6
<1>9. ASSUME NEW i \in C
      PROVE  \/ \E k \in 1 .. m : c[k] = matches[i].id
             \/ m = MaxCitations /\ n > MaxCitations
  <2>1. PICK k \in 1 .. n : o[k] = i
    BY <1>4
  <2>2. CASE m = n
    BY <1>8, <2>1, <2>2
  <2>3. CASE m # n
    <3>1. m = MaxCitations /\ n > m
      BY <1>5, <2>3
    <3> QED BY <3>1
  <2> QED BY <2>2, <2>3
<1> QED BY <1>1, <1>2, <1>5, <1>7, <1>8, <1>9

LEMMA ExtractedIs ==
  ASSUME Found
  PROVE  Extracted = NoText \/ (Extracted # NoText /\ Extracted[1] \in Cluster(Anchor))
<1>1. /\ Anchor \in DOMAIN matches /\ Anchor \in Cluster(Anchor) /\ Cluster(Anchor) \in SUBSET Nat
      /\ Cluster(Anchor) \subseteq 1 .. Len(matches)
  BY AnchorIs, ClusterIs, PlacesAre
<1> DEFINE framed == {i \in Cluster(Anchor) : Field(matches[i].frame) # "nothing"}
           dated == {i \in Cluster(Anchor) : request.intent = "temporal" /\ matches[i].referred}
           summed == {i \in Cluster(Anchor) : matches[i].summed}
<1>2. ASSUME NEW S \in SUBSET Cluster(Anchor), S # {} PROVE Min(S) \in Cluster(Anchor)
  <2>1. S \in SUBSET Nat
    BY <1>1
  <2> QED BY <1>2, <2>1, LeastIs
<1>3. ASSUME NEW i \in Cluster(Anchor), NEW field PROVE <<i, field>> # NoText /\ <<i, field>>[1] = i
  <2>1. i # 0
    BY <1>1, PlacesAre
  <2> QED BY <2>1 DEF NoText
<1>4. \E i \in Cluster(Anchor) : \E field : Extracted = NoText \/ Extracted = <<i, field>>
  <2>1. CASE framed # {}
    <3>1. Extracted = <<Min(framed), Field(matches[Min(framed)].frame)>>
      BY <2>1 DEF Extracted
    <3>2. Min(framed) \in Cluster(Anchor)
      <4>1. framed \in SUBSET Cluster(Anchor)
        OBVIOUS
      <4> HIDE DEF framed
      <4> QED BY <1>2, <2>1, <4>1
    <3> HIDE DEF framed
    <3> QED BY <3>1, <3>2
  <2>2. CASE framed = {} /\ dated # {}
    <3>1. Extracted = <<Min(dated), "reference">>
      BY <2>2 DEF Extracted
    <3>2. Min(dated) \in Cluster(Anchor)
      <4>1. dated \in SUBSET Cluster(Anchor)
        OBVIOUS
      <4> HIDE DEF framed, dated
      <4> QED BY <1>2, <2>2, <4>1
    <3> HIDE DEF dated
    <3> QED BY <3>1, <3>2
  <2>3. CASE framed = {} /\ dated = {} /\ summed # {}
    <3>1. Extracted = <<Min(summed), "summary">>
      BY <2>3 DEF Extracted
    <3>2. Min(summed) \in Cluster(Anchor)
      <4>1. summed \in SUBSET Cluster(Anchor)
        OBVIOUS
      <4> HIDE DEF framed, dated, summed
      <4> QED BY <1>2, <2>3, <4>1
    <3> HIDE DEF summed
    <3> QED BY <3>1, <3>2
  <2>4. CASE framed = {} /\ dated = {} /\ summed = {}
    <3>1. Extracted = NoText \/ Extracted = <<Anchor, "content">>
      BY <2>4 DEF Extracted
    <3> QED BY <1>1, <3>1
  <2> QED BY <2>1, <2>2, <2>3, <2>4
<1> QED BY <1>3, <1>4

Passing == {i \in DOMAIN matches : ~request.abstain \/ matches[i].score >= request.floor}

LEMMA KeptIs ==
  ASSUME Found
  PROVE  /\ Kept \in [1 .. Cardinality(Passing) -> 1 .. Len(matches)] /\ Cardinality(Passing) \in Nat
         /\ Kept # <<>> => Cardinality(Passing) > 0 /\ Passing # {}
<1>1. Passing \in SUBSET Int /\ Passing \subseteq 1 .. Len(matches) /\ IsFiniteSet(Passing)
  <2>1. Passing \subseteq 1 .. Len(matches) /\ IsFiniteSet(1 .. Len(matches))
    BY PlacesAre, FS_Interval DEF Passing
  <2>2. IsFiniteSet(Passing)
    BY <2>1, FS_Subset
  <2> QED BY <2>1, <2>2, PlacesAre
<1>2. IsListing(Kept, Passing) /\ Cardinality(Passing) \in Nat
  <2>1. Kept = Ascending(Passing)
    BY DEF Kept, Passing
  <2> QED BY <1>1, <2>1, AscendingLists, FS_CardinalityType
<1>3. Kept \in [1 .. Cardinality(Passing) -> 1 .. Len(matches)] /\ Len(Kept) = Cardinality(Passing)
  BY <1>1, <1>2 DEF IsListing
<1>4. ASSUME Cardinality(Passing) = 0 PROVE Kept = <<>>
  BY <1>2, <1>4 DEF IsListing
<1>5. ASSUME Kept # <<>> PROVE Cardinality(Passing) > 0 /\ Passing # {}
  <2>1. Cardinality(Passing) # 0
    BY <1>4, <1>5
  <2> QED BY <1>2, <2>1, FS_EmptySet
<1> QED BY <1>2, <1>3, <1>5

LEMMA GroundedIsLeast ==
  ASSUME Found, IsFiniteSet(request.words), Kept # <<>>
  PROVE  Grounded \in Int /\ Grounded <= Covered(request.words, matches[Anchor].words)
<1>1. PICK n \in Nat : n = Cardinality(Passing) /\ n > 0
  BY KeptIs
<1>2. PICK l \in Nat : l = Len(matches)
  BY PlacesAre
<1>3. PICK s : s = Scores
  OBVIOUS
<1>4. Kept \in [1 .. n -> 1 .. l] /\ DOMAIN Kept = 1 .. n
  BY <1>1, <1>2, KeptIs
<1>5. ASSUME NEW k \in 1 .. n PROVE s[k] \in Int /\ s[k] >= 1
  <2>1. PICK i \in 1 .. l : i = Kept[k]
    BY <1>4
  <2>2. matches[i].score \in Int
    BY <1>2, PlacesAre DEF Found, Shaped
  <2>3. s[k] = IF matches[i].score > 0 THEN matches[i].score ELSE l + 1 - i
    BY <1>2, <1>3, <1>4, <2>1 DEF Scores
  <2> QED BY <2>2, <2>3
<1>6. s \in [1 .. n -> Int]
  BY <1>3, <1>4, <1>5 DEF Scores
<1>7. PICK a \in Nat : a = Covered(request.words, matches[Anchor].words)
  BY CoverCounts
<1>8. PICK b \in Nat : b = Covered(request.words, WordsOf(Cluster(Anchor)))
  BY CoverCounts
<1> DEFINE all == WordsOf({Kept[k] : k \in DOMAIN Kept})
<1>9. Confidence(request.words, all, s) \in Int
  <2> HIDE DEF all
  <2> QED BY <1>1, <1>5, <1>6, ConfidenceIsNumber
<1>10. PICK c \in Int : c = IF request.words = {} THEN 0
                           ELSE Confidence(request.words, all, Scores)
  <2> HIDE DEF all
  <2> QED BY <1>3, <1>9
<1>12. Grounded = Min({a, b, c})
  BY <1>7, <1>8, <1>10 DEF Grounded
<1> QED BY <1>7, <1>8, <1>10, <1>12, LeastOfThree

-----------------------------------------------------------------------------
(* After the search neither the request nor what was found changes, and so neither does
   what the answer is made of. *)
LEMMA ClusterStays == ASSUME UNCHANGED matches PROVE \A a : Cluster(a)' = Cluster(a)
BY DEF Cluster, Member

LEMMA SharesStay == ASSUME UNCHANGED matches PROVE \A a : Shares(a)' = Shares(a)
BY ClusterStays DEF Shares

LEMMA PointsStay == ASSUME UNCHANGED matches PROVE \A a : Points(a)' = Points(a)
<1> SUFFICES ASSUME NEW a PROVE Points(a)' = Points(a)
  OBVIOUS
<1>1. PICK C : C = Cluster(a)
  OBVIOUS
<1>2. PICK T : T = Total(Shares(a))
  OBVIOUS
<1>3. Cluster(a)' = C /\ Total(Shares(a)') = T
  BY <1>1, <1>2, ClusterStays, SharesStay
<1>4. PICK u : u = (IF Cardinality(C) > 1 THEN 8 * Min({Cardinality(C), 4}) ELSE 0)
  OBVIOUS
<1>5. PICK v : v = (IF \E i \in C : matches[i].kind # matches[a].kind THEN 10 ELSE 0)
  OBVIOUS
<1>6. PICK w : w = (IF \E i \in C : matches[i].kind = "episode" THEN 12 ELSE 0)
  OBVIOUS
<1>7. PICK x : x = (IF \E i \in C : matches[i].kind = "fact" THEN 8 ELSE 0)
  OBVIOUS
<1>8. Points(a) = 840 * (u + v + w + x) + 84000 \div a + T
  BY <1>1, <1>2, <1>4, <1>5, <1>6, <1>7 DEF Points
<1>9. Points(a)' = 840 * (u + v + w + x) + 84000 \div a + T
  BY <1>3, <1>4, <1>5, <1>6, <1>7 DEF Points
<1> QED BY <1>8, <1>9

LEMMA AnchorStays == ASSUME UNCHANGED matches PROVE Anchor' = Anchor
BY PointsStay DEF Anchor

LEMMA FieldStays == ASSUME UNCHANGED <<request, matches>> PROVE \A f : Field(f)' = Field(f)
BY DEF Field

LEMMA ExtractedStays == ASSUME UNCHANGED <<request, matches>> PROVE Extracted' = Extracted
<1> DEFINE framed == {i \in Cluster(Anchor) : Field(matches[i].frame) # "nothing"}
           dated == {i \in Cluster(Anchor) : request.intent = "temporal" /\ matches[i].referred}
           summed == {i \in Cluster(Anchor) : matches[i].summed}
<1>1. Cluster(Anchor)' = Cluster(Anchor) /\ Anchor' = Anchor
  BY ClusterStays, AnchorStays
<1>2. framed' = framed /\ dated' = dated /\ summed' = summed
  BY <1>1, FieldStays
<1>3. Field(matches[Min(framed)].frame)' = Field(matches[Min(framed)].frame)
  <2> HIDE DEF framed
  <2> QED BY <1>2, FieldStays
<1> QED BY <1>1, <1>2, <1>3 DEF Extracted

LEMMA CitationsStay == ASSUME UNCHANGED <<request, matches>> PROVE Citations' = Citations
BY ClusterStays, AnchorStays DEF Citations

LEMMA CuratedStays == ASSUME UNCHANGED <<request, matches>> PROVE Curated' = Curated
BY ClusterStays, AnchorStays DEF Curated

LEMMA SurenessStays == ASSUME UNCHANGED <<request, matches>> PROVE Sureness' = Sureness
<1>1. PICK p : p = Min({Points(Anchor), 168000})
  OBVIOUS
<1>2. Min({Points(Anchor), 168000})' = p /\ Anchor' = Anchor
  <2>1. Points(Anchor)' = Points(Anchor)
    BY AnchorStays, PointsStay
  <2> QED BY <1>1, <2>1, AnchorStays
<1>3. PICK n : n = Min({Len(matches), 4})
  OBVIOUS
<1>4. Min({Len(matches), 4})' = n
  BY <1>3
<1>5. Sureness = 225 * p + 16800000 \div Anchor + 50 * 84000 * n + 150 * 84000
  BY <1>1, <1>3 DEF Sureness
<1>6. Sureness' = 225 * p + 16800000 \div Anchor + 50 * 84000 * n + 150 * 84000
  BY <1>2, <1>4 DEF Sureness
<1> QED BY <1>5, <1>6

LEMMA KeptStays == ASSUME UNCHANGED <<request, matches>> PROVE Kept' = Kept
BY DEF Kept
-----------------------------------------------------------------------------
(***************************************************************************)
(* The inductive invariant says what the result is at each stage: before   *)
(* the gate what was extracted, and after it one of its outcomes.          *)
(***************************************************************************)
Reported(from, cited, sure, low, decision, reason) ==
  [from |-> from, cited |-> cited, sure |-> sure, low |-> low, decision |-> decision,
   reason |-> reason]

Unanswered(reason) == result = Reported(NoText, <<>>, 0, FALSE, "abstain", reason)

Answered(decision, reason) ==
  result = Reported(Extracted, Citations, Sureness, FALSE, decision, reason)

Refused(reason) == result = Reported(NoText, <<>>, Sureness, TRUE, "abstain", reason)

Covers ==
  /\ Kept # <<>>
  /\ Covered(request.words, matches[Anchor].words) > request.threshold - Slack

Gated ==
  \/ Curated /\ Answered("exempt", "curated_exempt")
  \/ ~Curated /\ (request.abstain => Covers) /\ Answered("answerable", "ok")
  \/ ~Curated /\ request.abstain /\ \E reason \in {"chunk_floor", "grounding_low"} : Refused(reason)

Outcome ==
  \/ matches = <<>> /\ \E reason \in {"db_unavailable", "structural_empty"} : Unanswered(reason)
  \/ Found /\ Unanswered("structural_no_extract")
  \/ Found /\ Extracted # NoText /\ Gated

RequestTyped ==
  /\ request.abstain \in BOOLEAN /\ request.threshold \in Int /\ request.floor \in Int
  /\ IsFiniteSet(request.words)

Untouched == result = Reported(NoText, <<>>, 0, FALSE, "answerable", "ok")

AnswerInv ==
  /\ RequestTyped
  /\ stage \in {"search", "extract", "gate", "render", "out"}
  /\ reply \in {"none", "error", "no answer", "cited", "plain"}
  /\ stage = "search" => matches = <<>> /\ Untouched
  /\ stage = "extract" => Found /\ Untouched
  /\ stage = "gate" => Found /\ Extracted # NoText /\ Answered("answerable", "ok")
  /\ stage \in {"render", "out"} => Outcome

LEMMA AnswerStarts == AnswerInit => AnswerInv
<1> SUFFICES ASSUME AnswerInit PROVE AnswerInv
  OBVIOUS
<1>1. RequestTyped
  BY AnswerAssumption DEF AnswerInit, RequestTyped
<1>2. matches = <<>> /\ Untouched /\ stage = "search" /\ reply = "none"
  BY DEF AnswerInit, Untouched, Reported
<1> QED BY <1>1, <1>2 DEF AnswerInv

LEMMA OutcomeStays ==
  ASSUME UNCHANGED <<request, matches, result>>, Outcome PROVE Outcome'
<1>1. /\ Extracted' = Extracted /\ Citations' = Citations /\ Curated' = Curated
      /\ Sureness' = Sureness /\ Anchor' = Anchor /\ Kept' = Kept
  BY ExtractedStays, CitationsStay, CuratedStays, SurenessStays, AnchorStays, KeptStays
<1>2. Found => Found'
  BY DEF Found
<1>3. Covers => Covers'
  BY <1>1 DEF Covers
<1>4. ASSUME NEW d, NEW r, Answered(d, r) PROVE Answered(d, r)'
  BY <1>1, <1>4 DEF Answered
<1>5. ASSUME NEW r, Refused(r) PROVE Refused(r)'
  BY <1>1, <1>5 DEF Refused
<1>6. ASSUME NEW r, Unanswered(r) PROVE Unanswered(r)'
  BY <1>6 DEF Unanswered
<1>7. ASSUME Gated PROVE Gated'
  <2>1. CASE Curated /\ Answered("exempt", "curated_exempt")
    BY <1>1, <1>4, <2>1 DEF Gated
  <2>2. CASE ~Curated /\ (request.abstain => Covers) /\ Answered("answerable", "ok")
    BY <1>1, <1>3, <1>4, <2>2 DEF Gated
  <2>3. CASE ~Curated /\ request.abstain
             /\ \E reason \in {"chunk_floor", "grounding_low"} : Refused(reason)
    BY <1>1, <1>5, <2>3 DEF Gated
  <2> QED BY <1>7, <2>1, <2>2, <2>3 DEF Gated
<1>8. CASE matches = <<>> /\ \E reason \in {"db_unavailable", "structural_empty"} : Unanswered(reason)
  BY <1>6, <1>8 DEF Outcome
<1>9. CASE Found /\ Unanswered("structural_no_extract")
  BY <1>2, <1>6, <1>9 DEF Outcome
<1>10. CASE Found /\ Extracted # NoText /\ Gated
  BY <1>1, <1>2, <1>7, <1>10 DEF Outcome
<1> QED BY <1>8, <1>9, <1>10 DEF Outcome

LEMMA EmptyIsAbstained == ASSUME AnswerInv, SearchEmpty PROVE AnswerInv'
<1>1. /\ stage = "search" /\ stage' = "render" /\ matches = <<>> /\ Untouched
      /\ UNCHANGED <<request, matches, reply>>
  BY DEF AnswerInv, SearchEmpty
<1>2. PICK reason \in {"db_unavailable", "structural_empty"} : result' = Abstained(reason)
  BY DEF SearchEmpty
<1>3. Unanswered(reason)'
  BY <1>1, <1>2 DEF Unanswered, Untouched, Reported, Abstained
<1>4. Outcome'
  BY <1>1, <1>3 DEF Outcome
<1>5. RequestTyped'
  BY <1>1 DEF AnswerInv, RequestTyped
<1> QED BY <1>1, <1>4, <1>5 DEF AnswerInv

LEMMA FindingIsShaped == ASSUME AnswerInv, SearchFinds PROVE AnswerInv'
<1>1. /\ stage = "search" /\ stage' = "extract" /\ Untouched
      /\ UNCHANGED <<request, result, reply>>
  BY DEF AnswerInv, SearchFinds
<1>2. Found'
  <2>1. PICK f \in Findings \ {<<>>} : matches' = f
    BY DEF SearchFinds
  <2>2. Shaped(f)
    BY <2>1, AnswerAssumption DEF Shaped
  <2> QED BY <2>1, <2>2 DEF Found
<1>3. RequestTyped' /\ Untouched'
  BY <1>1 DEF AnswerInv, RequestTyped, Untouched
<1> QED BY <1>1, <1>2, <1>3 DEF AnswerInv

LEMMA ExtractReports == ASSUME AnswerInv, Extract PROVE AnswerInv'
<1>1. /\ stage = "extract" /\ Found /\ Untouched /\ UNCHANGED <<request, matches, reply>>
  BY DEF AnswerInv, Extract
<1>2. RequestTyped' /\ Found'
  BY <1>1 DEF AnswerInv, RequestTyped, Found
<1>3. CASE Extracted = NoText
  <2>1. stage' = "render" /\ result' = Abstained("structural_no_extract")
    BY <1>3 DEF Extract
  <2>2. Unanswered("structural_no_extract")'
    BY <1>1, <2>1 DEF Unanswered, Untouched, Reported, Abstained
  <2>3. Outcome'
    BY <1>2, <2>2 DEF Outcome
  <2> QED BY <1>1, <1>2, <2>1, <2>3 DEF AnswerInv
<1>4. CASE Extracted # NoText
  <2>1. /\ stage' = "gate"
        /\ result' = [result EXCEPT !.from = Extracted, !.cited = Citations, !.sure = Sureness]
    BY <1>4 DEF Extract
  <2>2. result' = Reported(Extracted, Citations, Sureness, FALSE, "answerable", "ok")
    BY <1>1, <2>1 DEF Untouched, Reported
  <2>3. /\ Extracted' = Extracted /\ Citations' = Citations /\ Sureness' = Sureness
    BY <1>1, ExtractedStays, CitationsStay, SurenessStays
  <2>4. Answered("answerable", "ok")' /\ Extracted' # NoText
    BY <1>4, <2>2, <2>3 DEF Answered
  <2> QED BY <1>1, <1>2, <2>1, <2>4 DEF AnswerInv
<1> QED BY <1>3, <1>4

LEMMA SufficesCovers == ASSUME RequestTyped, Found, Kept # <<>>, Suffices PROVE Covers
<1>1. PICK g \in Int : g = Grounded /\ g <= Covered(request.words, matches[Anchor].words)
  BY GroundedIsLeast DEF RequestTyped
<1>2. PICK c \in Nat : c = Covered(request.words, matches[Anchor].words)
  BY CoverCounts DEF RequestTyped
<1>3. PICK t \in Int : t = request.threshold
  BY DEF RequestTyped
<1>4. Slack \in Nat \ {0}
  BY AnswerAssumption
<1>5. g >= t \/ t - g < Slack
  BY <1>1, <1>3 DEF Suffices
<1>6. c > t - Slack
  BY <1>1, <1>2, <1>4, <1>5
<1> QED BY <1>2, <1>3, <1>6 DEF Covers

LEMMA GateDecides == ASSUME AnswerInv, Gate PROVE AnswerInv'
<1>1. /\ stage = "gate" /\ stage' = "render" /\ Found /\ Extracted # NoText
      /\ Answered("answerable", "ok") /\ UNCHANGED <<request, matches, reply>>
  BY DEF AnswerInv, Gate
<1>2. RequestTyped' /\ Found'
  BY <1>1 DEF AnswerInv, RequestTyped, Found
<1>3. /\ Extracted' = Extracted /\ Citations' = Citations /\ Curated' = Curated
      /\ Sureness' = Sureness /\ Anchor' = Anchor /\ Kept' = Kept
  BY <1>1, ExtractedStays, CitationsStay, CuratedStays, SurenessStays, AnchorStays, KeptStays
<1>4. Gated'
  <2>1. CASE Curated
    <3>1. result' = [result EXCEPT !.decision = "exempt", !.reason = "curated_exempt"]
      BY <2>1 DEF Gate
    <3>2. result' = Reported(Extracted, Citations, Sureness, FALSE, "exempt", "curated_exempt")
      BY <1>1, <3>1 DEF Answered, Reported
    <3>3. Answered("exempt", "curated_exempt")'
      BY <1>3, <3>2 DEF Answered
    <3> QED BY <1>3, <2>1, <3>3 DEF Gated
  <2>2. CASE ~Curated /\ (~request.abstain \/ (Kept # <<>> /\ Suffices))
    <3>1. result' = result
      BY <2>2 DEF Gate
    <3>2. request.abstain => Covers
      BY <1>1, <2>2, SufficesCovers DEF AnswerInv
    <3>3. request'.abstain => Covers'
      BY <1>1, <1>3, <3>2 DEF Covers
    <3>4. Answered("answerable", "ok")'
      BY <1>1, <1>3, <3>1 DEF Answered
    <3> QED BY <1>3, <2>2, <3>3, <3>4 DEF Gated
  <2>3. ASSUME NEW reason \in {"chunk_floor", "grounding_low"}, result' = Withheld(reason),
               ~Curated, request.abstain
        PROVE  Gated'
    <3>1. result' = Reported(NoText, <<>>, Sureness, TRUE, "abstain", reason)
      BY <1>1, <2>3 DEF Withheld, Abstained, Answered, Reported
    <3>2. Refused(reason)'
      BY <1>3, <3>1 DEF Refused
    <3> QED BY <1>1, <1>3, <2>3, <3>2 DEF Gated
  <2>4. CASE ~Curated /\ request.abstain /\ (Kept = <<>> \/ ~Suffices)
    <3>1. result' = Withheld("chunk_floor") \/ result' = Withheld("grounding_low")
      BY <2>4 DEF Gate
    <3> QED BY <2>3, <2>4, <3>1
  <2> QED BY <2>1, <2>2, <2>4
<1>5. Outcome'
  BY <1>1, <1>2, <1>3, <1>4 DEF Outcome
<1> QED BY <1>1, <1>2, <1>5 DEF AnswerInv

LEMMA RenderKeeps == ASSUME AnswerInv, Render PROVE AnswerInv'
<1>1. /\ stage = "render" /\ stage' = "out" /\ Outcome /\ UNCHANGED <<request, matches, result>>
      /\ reply' \in {"none", "error", "no answer", "cited", "plain"}
  BY DEF AnswerInv, Render
<1>2. RequestTyped' /\ Outcome'
  BY <1>1, OutcomeStays DEF AnswerInv, RequestTyped
<1> QED BY <1>1, <1>2 DEF AnswerInv

LEMMA AnswerStep == AnswerInv /\ [AnswerNext]_answerVars => AnswerInv'
<1> SUFFICES ASSUME AnswerInv, [AnswerNext]_answerVars PROVE AnswerInv'
  OBVIOUS
<1>1. CASE AnswerNext
  BY <1>1, EmptyIsAbstained, FindingIsShaped, ExtractReports, GateDecides, RenderKeeps DEF AnswerNext
<1>2. CASE UNCHANGED answerVars
  <2>1. UNCHANGED <<request, matches, result, reply, stage>>
    BY <1>2 DEF answerVars
  <2>2. Outcome => Outcome'
    BY <2>1, OutcomeStays
  <2>3. /\ Extracted' = Extracted /\ Citations' = Citations /\ Sureness' = Sureness
    BY <2>1, ExtractedStays, CitationsStay, SurenessStays
  <2>4. Answered("answerable", "ok") => Answered("answerable", "ok")'
    BY <2>1, <2>3 DEF Answered
  <2>5. Found => Found'
    BY <2>1 DEF Found
  <2>6. Untouched => Untouched'
    BY <2>1 DEF Untouched
  <2>7. RequestTyped => RequestTyped'
    BY <2>1 DEF RequestTyped
  <2> QED BY <2>1, <2>2, <2>3, <2>4, <2>5, <2>6, <2>7 DEF AnswerInv
<1> QED BY <1>1, <1>2

LEMMA AnswerInvariant == AnswerSpec => []AnswerInv
<1>1. AnswerInit => AnswerInv
  BY AnswerStarts
<1>2. AnswerInv /\ [AnswerNext]_answerVars => AnswerInv'
  BY AnswerStep
<1> QED BY <1>1, <1>2, PTL DEF AnswerSpec

LEMMA ReportsAre ==
  ASSUME NEW f, NEW c, NEW s, NEW l, NEW d, NEW r, result = Reported(f, c, s, l, d, r)
  PROVE  /\ result.from = f /\ result.cited = c /\ result.sure = s
         /\ result.decision = d /\ result.reason = r
BY DEF Reported

(* What the three kinds of results have. *)
Withholds == /\ result.from = NoText /\ result.cited = <<>> /\ result.decision = "abstain"
             /\ Sure(result.sure)

Answers == /\ result.from = Extracted /\ result.cited = Citations /\ Extracted # NoText /\ Found
           /\ result.decision \in {"answerable", "exempt"}
           /\ Sure(result.sure)

LEMMA UntouchedIs == ASSUME Untouched PROVE /\ result.from = NoText /\ result.cited = <<>>
                                            /\ result.sure = 0 /\ result.decision = "answerable"
BY ReportsAre DEF Untouched

LEMMA OutcomesAre ==
  ASSUME Outcome
  PROVE  /\ Withholds \/ Answers
         /\ matches # <<>> => Found
         /\ matches # <<>> /\ Answers =>
              IF Curated THEN result.decision = "exempt" ELSE request.abstain => Covers
         /\ matches # <<>> /\ Curated /\ Withholds => result.reason = "structural_no_extract"
<1>1. ASSUME NEW r, Unanswered(r) PROVE Withholds /\ result.reason = r /\ ~Answers
  BY <1>1, ReportsAre, NothingIsSure DEF Unanswered, Withholds, Answers
<1>2. ASSUME NEW r, Refused(r), Found PROVE Withholds /\ ~Answers
  BY <1>2, ReportsAre, SurenessIsBounded DEF Refused, Withholds, Answers
<1>3. ASSUME NEW d \in {"answerable", "exempt"}, NEW r, Answered(d, r), Found, Extracted # NoText
      PROVE  Answers /\ result.decision = d /\ ~Withholds
  BY <1>3, ReportsAre, SurenessIsBounded DEF Answered, Withholds, Answers
<1>4. CASE matches = <<>> /\ \E reason \in {"db_unavailable", "structural_empty"} : Unanswered(reason)
  BY <1>1, <1>4
<1>5. CASE Found /\ Unanswered("structural_no_extract")
  BY <1>1, <1>5
<1>6. ASSUME Found, Extracted # NoText, Gated
      PROVE  /\ Withholds \/ Answers
             /\ Answers => IF Curated THEN result.decision = "exempt" ELSE request.abstain => Covers
             /\ ~(Curated /\ Withholds)
  <2>1. CASE Curated /\ Answered("exempt", "curated_exempt")
    BY <1>3, <1>6, <2>1
  <2>2. CASE ~Curated /\ (request.abstain => Covers) /\ Answered("answerable", "ok")
    BY <1>3, <1>6, <2>2
  <2>3. CASE ~Curated /\ request.abstain
             /\ \E reason \in {"chunk_floor", "grounding_low"} : Refused(reason)
    BY <1>2, <1>6, <2>3
  <2> QED BY <1>6, <2>1, <2>2, <2>3 DEF Gated
<1>7. CASE Found /\ Extracted # NoText /\ Gated
  BY <1>6, <1>7
<1> QED BY <1>4, <1>5, <1>7 DEF Outcome

LEMMA AnswerIsSound == AnswerInv => AnswerSound
<1> SUFFICES ASSUME AnswerInv PROVE AnswerSound
  OBVIOUS
<1>0. MaxCitations \in Nat \ {0}
  BY AnswerAssumption
<1>4. ASSUME result.cited = <<>> PROVE Len(result.cited) <= MaxCitations
  <2>1. Len(<<>>) = 0
    OBVIOUS
  <2> QED BY <1>0, <1>4, <2>1
<1>1. CASE stage \in {"search", "extract"}
  <2>1. /\ result.from = NoText /\ result.cited = <<>> /\ result.sure = 0
        /\ result.decision = "answerable"
    BY <1>1, UntouchedIs DEF AnswerInv
  <2>2. AnswerTypeOK
    BY <1>1, <1>4, <2>1, NothingIsSure DEF AnswerInv, AnswerTypeOK, Sure
  <2>3. stage # "gate" /\ stage # "render" /\ stage # "out"
    BY <1>1
  <2> QED BY <2>2, <2>3 DEF AnswerSound, ResultAgrees, AlwaysCited, SourceIsCited, AnswersAreGrounded
<1>2. CASE stage = "gate"
  <2>0. Found /\ Extracted # NoText /\ Answered("answerable", "ok")
    BY <1>2 DEF AnswerInv
  <2>1. Answers
    BY <2>0, ReportsAre, SurenessIsBounded DEF Answered, Answers
  <2>2. result.cited # <<>> /\ Len(result.cited) <= MaxCitations
    BY <2>1, CitationsAre DEF Answers
  <2>3. AnswerTypeOK
    BY <1>2, <2>1, <2>2 DEF AnswerInv, AnswerTypeOK, Answers, Sure
  <2>4. stage # "render" /\ stage # "out"
    BY <1>2
  <2> QED BY <2>2, <2>3, <2>4 DEF AnswerSound, ResultAgrees, AlwaysCited, SourceIsCited, AnswersAreGrounded
<1>3. CASE stage \in {"render", "out"}
  <2>1. Outcome
    BY <1>3 DEF AnswerInv
  <2>2. CASE Withholds
    <3>1. AnswerTypeOK
      BY <1>3, <1>4, <2>2 DEF AnswerInv, AnswerTypeOK, Withholds, Sure
    <3>2. ResultAgrees /\ AlwaysCited /\ SourceIsCited
      BY <2>2 DEF Withholds, ResultAgrees, AlwaysCited, SourceIsCited
    <3>3. AnswersAreGrounded
      BY <2>1, <2>2, OutcomesAre DEF Withholds, AnswersAreGrounded
    <3> QED BY <3>1, <3>2, <3>3 DEF AnswerSound
  <2>3. CASE Answers
    <3>0. Found /\ matches # <<>>
      BY <2>3 DEF Answers, Found, Shaped
    <3>1. /\ result.cited # <<>> /\ Len(result.cited) <= MaxCitations
          /\ result.from[1] \in Cluster(Anchor)
      BY <2>3, <3>0, CitationsAre, ExtractedIs DEF Answers
    <3>2. AnswerTypeOK
      BY <1>3, <2>3, <3>1 DEF AnswerInv, AnswerTypeOK, Answers, Sure
    <3>3. ResultAgrees /\ AlwaysCited
      BY <2>3, <3>1 DEF Answers, ResultAgrees, AlwaysCited
    <3>4. SourceIsCited
      BY <2>3, <3>0, <3>1, CitationsAre DEF Answers, SourceIsCited
    <3>5. AnswersAreGrounded
      <4> SUFFICES ASSUME request.abstain, matches # <<>>
                   PROVE  IF Curated THEN result.decision = "exempt"
                          ELSE /\ Covered(request.words, matches[Anchor].words) > request.threshold - Slack
                               /\ \E i \in DOMAIN matches : matches[i].score >= request.floor
        BY DEF AnswersAreGrounded
      <4>1. CASE Curated
        BY <2>1, <2>3, <4>1, OutcomesAre
      <4>2. CASE ~Curated
        <5>1. Covers
          BY <2>1, <2>3, <4>2, OutcomesAre
        <5>2. Passing # {}
          BY <3>0, <5>1, KeptIs DEF Covers
        <5> QED BY <4>2, <5>1, <5>2 DEF Covers, Passing
      <4> QED BY <4>1, <4>2
    <3> QED BY <3>2, <3>3, <3>4, <3>5 DEF AnswerSound
  <2> QED BY <2>1, <2>2, <2>3, OutcomesAre
<1> QED BY <1>1, <1>2, <1>3 DEF AnswerInv

(***************************************************************************)
(* Whatever a search finds and whatever the thresholds are, an answer has  *)
(* its text from a memory of the anchor's session which it cites unless    *)
(* its citations are full, and with abstention on it rests on the words of *)
(* the anchor itself (memory_ask_query_scoped).                            *)
(***************************************************************************)
THEOREM AnswersKeepTheirSources == AnswerSpec => []AnswerSound
<1>1. AnswerInv => AnswerSound
  BY AnswerIsSound
<1> QED BY <1>1, AnswerInvariant, PTL

-----------------------------------------------------------------------------
(* The bundle of a recall. *)

LEMMA OrderIs ==
  /\ Len(Order) = 7 /\ DOMAIN Order = 1 .. 7 /\ \A i \in 1 .. 7 : Order[i] \in Names
  /\ \A i, j \in 1 .. 7 : Order[i] = Order[j] => i = j
  /\ Order[7] = "directives" /\ \A i \in 1 .. 7 : Order[i] = "directives" => i = 7
  /\ Names = {"rules", "identity", "preferences", "active", "commitments", "reminders", "directives"}
<1>1. Len(Order) = 7 /\ DOMAIN Order = 1 .. 7
  BY DEF Order
<1>2. /\ Order[1] = "rules" /\ Order[2] = "identity" /\ Order[3] = "preferences"
      /\ Order[4] = "active" /\ Order[5] = "commitments" /\ Order[6] = "reminders"
      /\ Order[7] = "directives"
  BY DEF Order
<1>3. \A i \in 1 .. 7 : i = 1 \/ i = 2 \/ i = 3 \/ i = 4 \/ i = 5 \/ i = 6 \/ i = 7
  OBVIOUS
<1>4. Names = {Order[i] : i \in 1 .. 7}
  BY <1>1 DEF Names, ToSet
<1>5. Names = {"rules", "identity", "preferences", "active", "commitments", "reminders", "directives"}
  BY <1>2, <1>3, <1>4
<1>6. \A i, j \in 1 .. 7 : Order[i] = Order[j] => i = j
  BY <1>2, <1>3
<1>7. \A i \in 1 .. 7 : Order[i] \in Names
  BY <1>4
<1>8. \A i \in 1 .. 7 : Order[i] = "directives" => i = 7
  BY <1>2, <1>6
<1> QED BY <1>1, <1>2, <1>5, <1>6, <1>7, <1>8

LEMMA PlacesOfSections ==
  /\ \A i \in 1 .. 7 : Place(Order[i]) = i
  /\ \A s \in Names : Place(s) \in 1 .. 7 /\ Order[Place(s)] = s
<1>1. ASSUME NEW i \in 1 .. 7 PROVE Place(Order[i]) = i
  <2>1. Order[Place(Order[i])] = Order[i] /\ Place(Order[i]) \in 1 .. 7
    BY OrderIs DEF Place
  <2> QED BY <2>1, OrderIs
<1>2. ASSUME NEW s \in Names PROVE \E i \in 1 .. 7 : s = Order[i]
  BY OrderIs DEF Names, ToSet
<1> QED BY <1>1, <1>2

(* What a section may hold. *)
SectionWell(s, list) ==
  /\ list \in Seq(InTable[s]) /\ list \in Seq(Int)
  /\ Len(list) <= SectionCap(s) /\ IsInjective(list)

BundleWell(b) == b \in [Names -> Seq(Int)] /\ \A s \in Names : SectionWell(s, b[s])

LEMMA TokensAreCounted == ASSUME NEW b, BundleWell(b) PROVE Tokens(b) \in Nat
<1>1. ASSUME NEW s \in Names PROVE Rendered(s, b[s]) \in Nat
  <2>1. PICK list : list = b[s] /\ list \in Seq(InTable[s])
    BY DEF BundleWell, SectionWell
  <2>2. PICK w : w = [i \in DOMAIN list |-> Length(s, list[i])]
    OBVIOUS
  <2>3. w \in Seq(Nat)
    <3>1. \A i \in 1 .. Len(list) : Length(s, list[i]) \in Nat
      BY <2>1, RecallAssumption
    <3>2. w \in [1 .. Len(list) -> Nat] /\ Len(list) \in Nat
      BY <2>1, <2>2, <3>1
    <3> QED BY <3>2
  <2> QED BY <2>1, <2>2, <2>3, TotalCounts DEF Rendered
<1>2. PICK w : w = [i \in DOMAIN Order |-> Rendered(Order[i], b[Order[i]])]
  OBVIOUS
<1>3. w \in Seq(Nat)
  <2>1. ASSUME NEW i \in 1 .. 7 PROVE Rendered(Order[i], b[Order[i]]) \in Nat
    BY <1>1, OrderIs
  <2>2. DOMAIN Order = 1 .. 7
    BY OrderIs
  <2>3. DOMAIN w = 1 .. 7 /\ w = [i \in 1 .. 7 |-> w[i]]
    BY <1>2, <2>2
  <2>4. ASSUME NEW i \in 1 .. 7 PROVE w[i] \in Nat
    <3>1. w[i] = Rendered(Order[i], b[Order[i]])
      BY <1>2, <2>2
    <3> QED BY <2>1, <3>1
  <2>5. w \in [1 .. 7 -> Nat]
    BY <2>3, <2>4
  <2>6. 7 \in Nat
    OBVIOUS
  <2> QED BY <2>5, <2>6, FunctionsAreLists
<1>4. PICK t \in Nat : t = Total(w)
  BY <1>3, TotalCounts
<1>5. PICK f \in Nat : f = Frame
  BY RecallAssumption
<1>6. Tokens(b) = (f + t + 3) \div 4
  BY <1>2, <1>4, <1>5 DEF Tokens
<1>7. f + t + 3 \in Nat
  OBVIOUS
<1> QED BY <1>6, <1>7, DivIsNat

LEMMA CapsAre == ASSUME start \in BOOLEAN, NEW s \in Names PROVE SectionCap(s) \in Nat
<1>1. CapOf[s][start] \in Nat /\ MaxMatches \in Nat
  BY RecallAssumption
<1>2. Min({CapOf[s][start], MaxMatches}) \in Nat
  BY <1>1, LeastIs
<1> QED BY <1>1, <1>2 DEF SectionCap

LEMMA FirstIsWell ==
  ASSUME start \in BOOLEAN, NEW s \in Names, NEW there \in SUBSET InTable[s]
  PROVE  SectionWell(s, First(SectionCap(s), there))
<1>1. PICK n \in Nat : n = SectionCap(s)
  BY CapsAre
<1>2. there \in SUBSET Int /\ IsFiniteSet(there)
  BY RecallAssumption, FS_Subset
<1>3. PICK o : o = Ascending(there)
  OBVIOUS
<1>4. PICK c \in Nat : c = Cardinality(there)
  BY <1>2, FS_CardinalityType
<1>5. /\ \A i \in 1 .. c : o[i] \in there /\ o[i] \in Int
      /\ \A i, j \in 1 .. c : i < j => o[i] < o[j]
  <2>1. IsListing(o, there) /\ \A i, j \in 1 .. c : i < j => o[i] < o[j]
    BY <1>2, <1>3, <1>4, AscendingLists
  <2> QED BY <1>2, <1>4, <2>1 DEF IsListing
<1>6. PICK m \in Nat : m = Min({n, c}) /\ m <= n /\ m <= c
  BY LeastIs
<1>7. PICK f : f = [i \in 1 .. m |-> o[i]]
  OBVIOUS
<1>8. First(SectionCap(s), there) = f
  BY <1>1, <1>3, <1>4, <1>6, <1>7 DEF First
<1>9. \A i \in 1 .. m : i \in 1 .. c /\ f[i] = o[i]
  BY <1>6, <1>7
<1>10. f \in Seq(InTable[s]) /\ Len(f) = m /\ DOMAIN f = 1 .. m
  <2>1. f \in [1 .. m -> InTable[s]]
    BY <1>5, <1>7, <1>9
  <2> QED BY <2>1
<1>11. f \in Seq(Int)
  <2>1. f \in [1 .. m -> Int]
    BY <1>5, <1>7, <1>9
  <2> QED BY <2>1
<1>12. IsInjective(f)
  <2> SUFFICES ASSUME NEW i \in 1 .. m, NEW j \in 1 .. m, f[i] = f[j] PROVE i = j
    BY <1>10 DEF IsInjective
  <2>1. ~(i < j) /\ ~(j < i)
    BY <1>5, <1>9
  <2> QED BY <2>1
<1> QED BY <1>1, <1>6, <1>8, <1>10, <1>11, <1>12 DEF SectionWell

-----------------------------------------------------------------------------
(***************************************************************************)
(* The inductive invariant: the bundle is what was filled up to the        *)
(* section being trimmed, and nothing after it once anything is dropped.   *)
(***************************************************************************)
Shortened(b, f) ==
  \A s \in Names : Len(b[s]) <= Len(f[s]) /\ b[s] = SubSeq(f[s], 1, Len(b[s]))

LastFirst(b, f) ==
  \A i \in 1 .. 7 : b[Order[i]] # f[Order[i]] => \A j \in i + 1 .. 7 : b[Order[j]] = <<>>

BarelyDropped(b, f) ==
  \A i \in 1 .. 7 : Len(b[Order[i]]) < Len(f[Order[i]]) =>
                      Tokens(Before(i, Len(b[Order[i]]) + 1)) > limit

NotYetTrimmed(b, f) == \A j \in 1 .. at - 1 : b[Order[j]] = f[Order[j]]
TrimmedAlready(b) == Tokens(b) <= limit \/ \A j \in at + 1 .. 7 : b[Order[j]] = <<>>
Fits(b) == Tokens(b) <= limit \/ \A s \in Names : b[s] = <<>>

RecallTypes ==
  /\ start \in BOOLEAN /\ limit \in Int /\ MinLimit <= limit /\ limit <= MaxLimit
  /\ at \in 1 .. 7 /\ phase \in {"fill", "trim", "attribute", "out"}
  /\ surfaced \subseteq InTable["directives"]
  /\ BundleWell(bundle) /\ filled \in [Names -> Seq(Int)]

RecallInv ==
  /\ RecallTypes
  /\ phase # "fill" => /\ Shortened(bundle, filled) /\ LastFirst(bundle, filled)
                       /\ BarelyDropped(bundle, filled)
                       /\ surfaced = ToSet(filled["directives"])
  /\ phase = "trim" => NotYetTrimmed(bundle, filled) /\ TrimmedAlready(bundle)
  /\ phase \in {"attribute", "out"} => Fits(bundle)
  /\ phase = "out" => event = Attributed

LEMMA BeforeStays == ASSUME UNCHANGED filled PROVE \A i, n : Before(i, n)' = Before(i, n)
BY DEF Before

LEMMA RecallStarts == RecallInit => RecallInv
<1> SUFFICES ASSUME RecallInit PROVE RecallInv
  OBVIOUS
<1>1. PICK a \in Int : limit = LimitFor(a, start)
  BY RecallAssumption DEF RecallInit
<1>2. limit \in Int /\ MinLimit <= limit /\ limit <= MaxLimit
  <2>1. PICK g \in Int : g = IF a > 0 THEN a ELSE IF start THEN DefaultSession ELSE DefaultTurn
    BY RecallAssumption
  <2>2. limit = IF g < MinLimit THEN MinLimit ELSE IF g > MaxLimit THEN MaxLimit ELSE g
    BY <1>1, <2>1 DEF LimitFor
  <2> QED BY <2>1, <2>2, RecallAssumption
<1>3. /\ start \in BOOLEAN /\ at = 1 /\ phase = "fill" /\ surfaced = {}
      /\ bundle = [s \in Names |-> <<>>] /\ filled = [s \in Names |-> <<>>]
  BY DEF RecallInit
<1>4. ASSUME NEW S PROVE <<>> \in Seq(S)
  OBVIOUS
<1>5. ASSUME NEW s \in Names PROVE SectionWell(s, <<>>)
  <2>1. Len(<<>>) = 0 /\ SectionCap(s) \in Nat
    BY <1>3, CapsAre
  <2>2. IsInjective(<<>>)
    BY DEF IsInjective
  <2> QED BY <1>4, <2>1, <2>2 DEF SectionWell
<1>6. bundle \in [Names -> Seq(Int)] /\ filled \in [Names -> Seq(Int)]
  BY <1>3, <1>4
<1>7. BundleWell(bundle)
  BY <1>3, <1>5, <1>6 DEF BundleWell
<1>8. RecallTypes
  BY <1>2, <1>3, <1>6, <1>7 DEF RecallTypes
<1> QED BY <1>3, <1>8 DEF RecallInv

LEMMA FillingIsWell ==
  ASSUME RecallTypes, NEW s \in Names, NEW there \in SUBSET InTable[s], UNCHANGED start,
         bundle' = [bundle EXCEPT ![s] = First(SectionCap(s), there)]
  PROVE  BundleWell(bundle)' /\ bundle'[s] = First(SectionCap(s), there)
<1>1. PICK f : f = First(SectionCap(s), there) /\ SectionWell(s, f)
  BY FirstIsWell DEF RecallTypes
<1>2. f \in Seq(Int) /\ bundle \in [Names -> Seq(Int)]
  BY <1>1 DEF SectionWell, RecallTypes, BundleWell
<1>3. bundle' \in [Names -> Seq(Int)] /\ bundle'[s] = f
  BY <1>1, <1>2
<1>4. ASSUME NEW t \in Names PROVE SectionWell(t, bundle'[t])
  <2>1. CASE t = s
    BY <1>1, <1>3, <2>1
  <2>2. CASE t # s
    BY <1>1, <1>2, <2>2 DEF RecallTypes, BundleWell
  <2> QED BY <2>1, <2>2
<1>5. \A t : SectionCap(t)' = SectionCap(t)
  BY DEF SectionCap
<1>6. ASSUME NEW t \in Names PROVE SectionWell(t, bundle[t])'
  BY <1>4, <1>5 DEF SectionWell
<1> QED BY <1>1, <1>3, <1>6 DEF BundleWell

LEMMA FillsOne == ASSUME RecallInv, NEW s \in Names, Fill(s) PROVE RecallInv'
<1>1. /\ RecallTypes /\ phase = "fill" /\ at' = at + 1 /\ Order[at] = s /\ s # "directives"
      /\ UNCHANGED <<start, hinted, limit, phase, filled, surfaced, event>>
  BY DEF RecallInv, Fill
<1>2. BundleWell(bundle)'
  <2>1. PICK there \in SUBSET InTable[s] :
          bundle' = [bundle EXCEPT ![s] = First(SectionCap(s), there)]
    BY DEF Fill
  <2> QED BY <1>1, <2>1, FillingIsWell
<1>3. at + 1 \in 1 .. 7
  <2>1. at \in 1 .. 7 /\ at # 7
    BY <1>1, OrderIs DEF RecallTypes
  <2> QED BY <2>1
<1>4. RecallTypes'
  BY <1>1, <1>2, <1>3 DEF RecallTypes
<1> QED BY <1>1, <1>4 DEF RecallInv

LEMMA FillsTheLast == ASSUME RecallInv, FillDirectives PROVE RecallInv'
<1>1. /\ RecallTypes /\ phase = "fill" /\ phase' = "trim" /\ Order[at] = "directives"
      /\ filled' = bundle' /\ surfaced' = ToSet(bundle'["directives"])
      /\ UNCHANGED <<start, hinted, limit, at, event>>
  BY DEF RecallInv, FillDirectives
<1>2. at = 7 /\ at' = 7 /\ "directives" \in Names
  BY <1>1, OrderIs DEF RecallTypes
<1>3. BundleWell(bundle)'
  <2>0. PICK open \in SUBSET InTable["directives"] : \E matched \in SUBSET open :
          bundle' = [bundle EXCEPT !["directives"] =
                       First(SectionCap("directives"), IF hinted /\ matched # {} THEN matched ELSE open)]
    BY DEF FillDirectives
  <2>1. PICK matched \in SUBSET open :
          bundle' = [bundle EXCEPT !["directives"] =
                       First(SectionCap("directives"), IF hinted /\ matched # {} THEN matched ELSE open)]
    BY <2>0
  <2>2. PICK there \in SUBSET InTable["directives"] :
          there = IF hinted /\ matched # {} THEN matched ELSE open
    OBVIOUS
  <2> QED BY <1>1, <1>2, <2>1, <2>2, FillingIsWell
<1>4. bundle' \in [Names -> Seq(Int)] /\ bundle'["directives"] \in Seq(InTable["directives"])
  BY <1>2, <1>3 DEF BundleWell, SectionWell
<1>5. ToSet(bundle'["directives"]) \subseteq InTable["directives"]
  BY <1>4 DEF ToSet
<1>6. RecallTypes'
  BY <1>1, <1>3, <1>4, <1>5 DEF RecallTypes
<1>7. Shortened(bundle, filled)'
  <2>1. ASSUME NEW t \in Seq(Int) PROVE Len(t) <= Len(t) /\ t = SubSeq(t, 1, Len(t))
    OBVIOUS
  <2> QED BY <1>1, <1>4, <2>1 DEF Shortened
<1>8. LastFirst(bundle, filled)' /\ NotYetTrimmed(bundle, filled)'
  BY <1>1 DEF LastFirst, NotYetTrimmed
<1>9. BarelyDropped(bundle, filled)'
  <2>1. ASSUME NEW i \in 1 .. 7 PROVE ~(Len(bundle'[Order[i]]) < Len(bundle'[Order[i]]))
    <3>1. Len(bundle'[Order[i]]) \in Nat
      BY <1>4, OrderIs
    <3> QED BY <3>1
  <2> QED BY <1>1, <2>1 DEF BarelyDropped
<1>10. TrimmedAlready(bundle)'
  <2>1. \A j \in 7 + 1 .. 7 : FALSE
    OBVIOUS
  <2> QED BY <1>2, <2>1 DEF TrimmedAlready
<1> QED BY <1>1, <1>6, <1>7, <1>8, <1>9, <1>10 DEF RecallInv

-----------------------------------------------------------------------------
LEMMA Beside ==
  ASSUME NEW a \in 1 .. 7
  PROVE  /\ \A j \in a + 1 .. 7 : j \in 1 .. 7 /\ j # a /\ ~(j < a)
         /\ \A j \in 1 .. a - 1 : j \in 1 .. 7 /\ j # a
         /\ \A j \in 1 .. 7 : j \in 1 .. a - 1 \/ j = a \/ j \in a + 1 .. 7
OBVIOUS

LEMMA FrontElements ==
  ASSUME NEW S, NEW q \in Seq(S), NEW n \in Nat, n + 1 = Len(q)
  PROVE  /\ SubSeq(q, 1, n) \in Seq(S) /\ Len(SubSeq(q, 1, n)) = n
         /\ \A i \in 1 .. n : SubSeq(q, 1, n)[i] = q[i]
OBVIOUS

LEMMA LengthIsPositive ==
  ASSUME NEW S, NEW q \in Seq(S), q # <<>>
  PROVE  Len(q) - 1 \in Nat /\ Len(q) - 1 + 1 = Len(q)
OBVIOUS

LEMMA EqualLists ==
  ASSUME NEW S, NEW q \in Seq(S), NEW f \in Seq(S), Len(q) = Len(f), \A i \in 1 .. Len(f) : q[i] = f[i]
  PROVE  q = f
OBVIOUS

LEMMA FrontIsWell ==
  ASSUME NEW s, SectionCap(s) \in Nat, NEW q, SectionWell(s, q), q # <<>>
  PROVE  SectionWell(s, Front(q)) /\ Len(Front(q)) = Len(q) - 1
<1>1. q \in Seq(InTable[s]) /\ q \in Seq(Int) /\ Len(q) <= SectionCap(s) /\ IsInjective(q)
  BY DEF SectionWell
<1>2. PICK n \in Nat : n = Len(q) - 1 /\ n + 1 = Len(q)
  BY <1>1, LengthIsPositive
<1>3. PICK f : f = Front(q) /\ f = SubSeq(q, 1, n)
  BY <1>2 DEF Front
<1>4. f \in Seq(InTable[s]) /\ f \in Seq(Int) /\ Len(f) = n /\ \A i \in 1 .. n : f[i] = q[i]
  <2>1. f \in Seq(Int) /\ Len(f) = n /\ \A i \in 1 .. n : f[i] = q[i]
    BY <1>1, <1>2, <1>3, FrontElements
  <2>2. f \in Seq(InTable[s])
    BY <1>1, <1>2, <1>3, FrontElements
  <2> QED BY <2>1, <2>2
<1>5. DOMAIN f = 1 .. n /\ DOMAIN q = 1 .. n + 1
  BY <1>1, <1>2, <1>4
<1>6. IsInjective(f)
  <2>1. \A i, j \in 1 .. n : i \in 1 .. n + 1 /\ j \in 1 .. n + 1
    OBVIOUS
  <2>2. \A i, j \in 1 .. n + 1 : q[i] = q[j] => i = j
    BY <1>1, <1>5 DEF IsInjective
  <2>3. \A i, j \in 1 .. n : f[i] = f[j] => i = j
    BY <1>4, <2>1, <2>2
  <2> QED BY <1>5, <2>3 DEF IsInjective
<1>7. n <= SectionCap(s)
  BY <1>1, <1>2
<1> QED BY <1>2, <1>3, <1>4, <1>6, <1>7 DEF SectionWell

LEMMA FrontShortens ==
  ASSUME NEW f \in Seq(Int), NEW q \in Seq(Int), q # <<>>, Len(q) <= Len(f), q = SubSeq(f, 1, Len(q))
  PROVE  Front(q) = SubSeq(f, 1, Len(q) - 1)
<1>1. PICK n \in Nat : n = Len(q) - 1
  BY LengthIsPositive
<1>2. Front(q) = SubSeq(q, 1, n)
  BY <1>1 DEF Front
<1>3. SubSeq(q, 1, n) \in Seq(Int) /\ SubSeq(f, 1, n) \in Seq(Int)
  BY <1>1
<1>4. Len(SubSeq(q, 1, n)) = n /\ Len(SubSeq(f, 1, n)) = n
  BY <1>1
<1>5. ASSUME NEW i \in 1 .. n PROVE SubSeq(q, 1, n)[i] = SubSeq(f, 1, n)[i]
  <2>1. q[i] = f[i]
    BY <1>1
  <2>2. SubSeq(q, 1, n)[i] = q[i] /\ SubSeq(f, 1, n)[i] = f[i]
    BY <1>1
  <2> QED BY <2>1, <2>2
<1>6. SubSeq(q, 1, n) = SubSeq(f, 1, n)
  BY <1>3, <1>4, <1>5, EqualLists
<1> QED BY <1>1, <1>2, <1>6

(* While nothing after the trimmed section is left, the bundle is a bundle of Before. *)
LEMMA BundleIsBefore ==
  ASSUME RecallTypes, Shortened(bundle, filled), NotYetTrimmed(bundle, filled),
         \A j \in at + 1 .. 7 : bundle[Order[j]] = <<>>
  PROVE  bundle = Before(at, Len(bundle[Order[at]]))
<1>1. at \in 1 .. 7 /\ bundle \in [Names -> Seq(Int)]
  BY DEF RecallTypes, BundleWell
<1>2. PICK n : n = Len(bundle[Order[at]])
  OBVIOUS
<1>3. ASSUME NEW s \in Names
      PROVE  bundle[s] = IF Place(s) < at THEN filled[s]
                         ELSE IF Place(s) = at THEN SubSeq(filled[s], 1, n) ELSE <<>>
  <2>1. PICK p \in 1 .. 7 : p = Place(s) /\ Order[p] = s
    BY PlacesOfSections
  <2>2. CASE p < at
    <3>1. p \in 1 .. at - 1
      BY <1>1, <2>2
    <3> QED BY <2>1, <2>2, <3>1 DEF NotYetTrimmed
  <2>3. CASE p = at
    BY <1>1, <1>2, <2>1, <2>3 DEF Shortened
  <2>4. CASE p > at
    <3>1. p \in at + 1 .. 7 /\ ~(p < at) /\ p # at
      BY <1>1, <2>4
    <3> QED BY <2>1, <3>1
  <2> QED BY <1>1, <2>2, <2>3, <2>4
<1> QED BY <1>1, <1>2, <1>3 DEF Before

LEMMA TrimDrops ==
  ASSUME RecallInv, Trim, bundle[Order[at]] # <<>>, Tokens(bundle) > limit
  PROVE  RecallInv'
<1>1. /\ RecallTypes /\ phase = "trim" /\ phase' = "trim"
      /\ Shortened(bundle, filled) /\ LastFirst(bundle, filled) /\ BarelyDropped(bundle, filled)
      /\ surfaced = ToSet(filled["directives"]) /\ NotYetTrimmed(bundle, filled)
      /\ TrimmedAlready(bundle)
      /\ UNCHANGED <<start, hinted, limit, at, filled, surfaced, event>>
  BY DEF RecallInv, Trim, Trimmed
<1>2. bundle' = [bundle EXCEPT ![Order[at]] = Front(@)]
  BY DEF Trim, Trimmed
<1>3. PICK s \in Names : s = Order[at] /\ at \in 1 .. 7
  BY <1>1, OrderIs DEF RecallTypes
<1>4. PICK q \in Seq(Int) : q = bundle[s] /\ SectionWell(s, q)
  BY <1>1 DEF RecallTypes, BundleWell
<1>5. PICK g \in Seq(Int) : g = Front(q) /\ SectionWell(s, g) /\ Len(g) = Len(q) - 1
  <2>1. SectionCap(s) \in Nat
    BY <1>1, CapsAre DEF RecallTypes
  <2> QED BY <1>3, <1>4, <2>1, FrontIsWell DEF SectionWell
<1>6. /\ bundle \in [Names -> Seq(Int)] /\ bundle' \in [Names -> Seq(Int)] /\ bundle'[s] = g
      /\ \A t \in Names \ {s} : bundle'[t] = bundle[t]
  <2>1. bundle \in [Names -> Seq(Int)] /\ bundle' = [bundle EXCEPT ![s] = g]
    BY <1>1, <1>2, <1>3, <1>4, <1>5 DEF RecallTypes, BundleWell
  <2> QED BY <2>1
<1>7. ASSUME NEW j \in 1 .. 7, j # at PROVE bundle'[Order[j]] = bundle[Order[j]]
  <2>1. Order[j] \in Names /\ Order[j] # s
    BY <1>3, <1>7, OrderIs
  <2> QED BY <1>6, <2>1
<1>8. Tokens(bundle) \in Nat /\ limit \in Int /\ at \in 1 .. 7
  BY <1>1, TokensAreCounted DEF RecallTypes
<1>9. \A j \in at + 1 .. 7 : bundle[Order[j]] = <<>>
  BY <1>1, <1>8 DEF TrimmedAlready
<1>10. \A j \in at + 1 .. 7 : bundle'[Order[j]] = <<>>
  <2>1. \A j \in at + 1 .. 7 : j \in 1 .. 7 /\ j # at
    BY <1>3, Beside
  <2> QED BY <1>7, <1>9, <2>1
<1>11. \A j \in 1 .. at - 1 : bundle'[Order[j]] = filled[Order[j]]
  <2>1. \A j \in 1 .. at - 1 : j \in 1 .. 7 /\ j # at
    BY <1>3, Beside
  <2> QED BY <1>1, <1>7, <2>1 DEF NotYetTrimmed
<1>12. RecallTypes'
  <2>1. \A t : SectionCap(t)' = SectionCap(t)
    BY <1>1 DEF SectionCap
  <2>2. ASSUME NEW t \in Names PROVE SectionWell(t, bundle'[t])
    <3>1. CASE t = s
      BY <1>5, <1>6, <3>1
    <3>2. CASE t # s
      BY <1>1, <1>6, <3>2 DEF RecallTypes, BundleWell
    <3> QED BY <3>1, <3>2
  <2>3. ASSUME NEW t \in Names PROVE SectionWell(t, bundle[t])'
    BY <2>1, <2>2 DEF SectionWell
  <2>4. BundleWell(bundle)'
    BY <1>6, <2>3 DEF BundleWell
  <2> QED BY <1>1, <2>4 DEF RecallTypes
<1>13. Shortened(bundle, filled)'
  <2>1. ASSUME NEW t \in Names
        PROVE  Len(bundle'[t]) <= Len(filled[t]) /\ bundle'[t] = SubSeq(filled[t], 1, Len(bundle'[t]))
    <3>1. CASE t = s
      <4>1. filled[s] \in Seq(Int)
        BY <1>1 DEF RecallTypes
      <4>2. Len(q) <= Len(filled[s]) /\ q = SubSeq(filled[s], 1, Len(q))
        BY <1>1, <1>4 DEF Shortened
      <4>3. g = SubSeq(filled[s], 1, Len(q) - 1)
        BY <1>3, <1>4, <1>5, <4>1, <4>2, FrontShortens
      <4>4. Len(g) <= Len(filled[s])
        BY <1>4, <1>5, <4>1, <4>2
      <4> QED BY <1>5, <1>6, <3>1, <4>3, <4>4
    <3>2. CASE t # s
      BY <1>1, <1>6, <3>2 DEF Shortened
    <3> QED BY <3>1, <3>2
  <2> QED BY <1>1, <2>1 DEF Shortened
<1>14. LastFirst(bundle, filled)'
  <2> SUFFICES ASSUME NEW i \in 1 .. 7, bundle'[Order[i]] # filled[Order[i]], NEW j \in i + 1 .. 7
               PROVE  bundle'[Order[j]] = <<>>
    BY <1>1 DEF LastFirst
  <2>1. ~(i \in 1 .. at - 1)
    BY <1>11
  <2>2. j \in at + 1 .. 7
    BY <1>8, <2>1
  <2> QED BY <1>10, <2>2
<1>15. BarelyDropped(bundle, filled)'
  <2>0. \A i, n : Before(i, n)' = Before(i, n)
    BY <1>1, BeforeStays
  <2>1. ASSUME NEW i \in 1 .. 7, Len(bundle'[Order[i]]) < Len(filled[Order[i]])
        PROVE  Tokens(Before(i, Len(bundle'[Order[i]]) + 1)) > limit
    <3>1. CASE i = at
      <4>1. bundle = Before(at, Len(q))
        BY <1>1, <1>3, <1>4, <1>9, BundleIsBefore
      <4>2. Len(bundle'[Order[i]]) + 1 = Len(q)
        BY <1>3, <1>4, <1>5, <1>6, <3>1
      <4> QED BY <3>1, <4>1, <4>2
    <3>2. CASE i # at
      BY <1>1, <1>7, <2>1, <3>2 DEF BarelyDropped
    <3> QED BY <3>1, <3>2
  <2>2. \A b : Tokens(b)' = Tokens(b)
    BY DEF Tokens, Rendered
  <2>3. ASSUME NEW i \in 1 .. 7, Len(bundle'[Order[i]]) < Len(filled[Order[i]])
        PROVE  Tokens(Before(i, Len(bundle[Order[i]]) + 1))' > limit
    <3>1. PICK n : n = Len(bundle'[Order[i]]) + 1
      OBVIOUS
    <3>2. Before(i, Len(bundle[Order[i]]) + 1)' = Before(i, n)
      BY <1>1, <3>1 DEF Before
    <3> QED BY <2>1, <2>3, <3>1, <3>2 DEF Tokens, Rendered
  <2> QED BY <1>1, <2>3 DEF BarelyDropped
<1>16. NotYetTrimmed(bundle, filled)' /\ TrimmedAlready(bundle)'
  BY <1>1, <1>10, <1>11 DEF NotYetTrimmed, TrimmedAlready
<1> QED BY <1>1, <1>12, <1>13, <1>14, <1>15, <1>16 DEF RecallInv

LEMMA TrimStops ==
  ASSUME RecallInv, Trim, ~(bundle[Order[at]] # <<>> /\ Tokens(bundle) > limit)
  PROVE  RecallInv'
<1>1. /\ RecallTypes /\ phase = "trim"
      /\ Shortened(bundle, filled) /\ LastFirst(bundle, filled) /\ BarelyDropped(bundle, filled)
      /\ surfaced = ToSet(filled["directives"]) /\ NotYetTrimmed(bundle, filled)
      /\ TrimmedAlready(bundle)
      /\ UNCHANGED <<start, hinted, limit, bundle, filled, surfaced, event>>
  BY DEF RecallInv, Trim, Trimmed
<1>2. \/ at > 1 /\ at' = at - 1 /\ phase' = "trim"
      \/ ~(at > 1) /\ at' = at /\ phase' = "attribute"
  BY <1>1 DEF Trim, Trimmed
<1>3. at \in 1 .. 7 /\ limit \in Int /\ Tokens(bundle) \in Nat
  BY <1>1, TokensAreCounted DEF RecallTypes
<1>4. Tokens(bundle) <= limit \/ \A j \in at .. 7 : bundle[Order[j]] = <<>>
  <2> SUFFICES ASSUME ~(Tokens(bundle) <= limit) PROVE \A j \in at .. 7 : bundle[Order[j]] = <<>>
    OBVIOUS
  <2>1. bundle[Order[at]] = <<>>
    BY <1>3
  <2>2. \A j \in at + 1 .. 7 : bundle[Order[j]] = <<>>
    BY <1>1 DEF TrimmedAlready
  <2>3. \A j \in at .. 7 : j = at \/ j \in at + 1 .. 7
    BY <1>3
  <2> QED BY <2>1, <2>2, <2>3
<1>5. at' \in 1 .. 7
  BY <1>2, <1>3
<1>6. /\ \A t : SectionCap(t)' = SectionCap(t)
      /\ \A i, n : Before(i, n)' = Before(i, n)
  BY <1>1 DEF SectionCap, Before
<1>7. BundleWell(bundle)'
  <2>1. BundleWell(bundle)
    BY <1>1 DEF RecallTypes
  <2> QED BY <1>1, <1>6, <2>1 DEF BundleWell, SectionWell
<1>8. RecallTypes'
  BY <1>1, <1>2, <1>5, <1>7 DEF RecallTypes
<1>9. Shortened(bundle, filled)' /\ LastFirst(bundle, filled)'
  BY <1>1 DEF Shortened, LastFirst
<1>10. BarelyDropped(bundle, filled)'
  <2>1. ASSUME NEW i \in 1 .. 7, Len(bundle[Order[i]]) < Len(filled[Order[i]])
        PROVE  Tokens(Before(i, Len(bundle[Order[i]]) + 1))' > limit
    <3>1. PICK n : n = Len(bundle[Order[i]]) + 1
      OBVIOUS
    <3>2. Before(i, Len(bundle[Order[i]]) + 1)' = Before(i, n)
      BY <1>1, <3>1 DEF Before
    <3>3. Tokens(Before(i, n)) > limit
      BY <1>1, <2>1, <3>1 DEF BarelyDropped
    <3> QED BY <3>2, <3>3 DEF Tokens, Rendered
  <2> QED BY <1>1, <2>1 DEF BarelyDropped
<1>11. CASE at > 1
  <2>1. at' = at - 1 /\ phase' = "trim" /\ at - 1 + 1 = at
    BY <1>2, <1>3, <1>11
  <2>2. NotYetTrimmed(bundle, filled)'
    <3>1. \A j \in 1 .. at - 1 - 1 : j \in 1 .. at - 1
      BY <1>3
    <3> QED BY <1>1, <2>1, <3>1 DEF NotYetTrimmed
  <2>3. Tokens(bundle)' = Tokens(bundle)
    BY <1>1 DEF Tokens, Rendered
  <2>4. TrimmedAlready(bundle)'
    BY <1>1, <1>4, <2>1, <2>3 DEF TrimmedAlready
  <2> QED BY <1>1, <1>8, <1>9, <1>10, <2>1, <2>2, <2>4 DEF RecallInv
<1>12. CASE ~(at > 1)
  <2>1. at = 1 /\ phase' = "attribute"
    BY <1>2, <1>3, <1>12
  <2>2. Fits(bundle)
    <3>1. ASSUME \A j \in 1 .. 7 : bundle[Order[j]] = <<>>, NEW t \in Names PROVE bundle[t] = <<>>
      BY <3>1, PlacesOfSections
    <3> QED BY <1>4, <2>1, <3>1 DEF Fits
  <2>3. Fits(bundle)'
    BY <1>1, <2>2 DEF Fits, Tokens, Rendered
  <2> QED BY <1>1, <1>8, <1>9, <1>10, <2>1, <2>3 DEF RecallInv
<1> QED BY <1>11, <1>12

(* Steps that leave the bundle alone. *)
LEMMA RecallRests ==
  ASSUME RecallInv, UNCHANGED <<start, hinted, limit, at, bundle, filled, surfaced>>,
         \/ phase = "attribute" /\ phase' = "out" /\ event' = Attributed
         \/ phase' = phase /\ event' = event
  PROVE  RecallInv'
<1>1. RecallTypes /\ phase' \in {"fill", "trim", "attribute", "out"}
  BY DEF RecallInv, RecallTypes
<1>2. \A t : SectionCap(t)' = SectionCap(t)
  BY DEF SectionCap
<1>3. BundleWell(bundle)'
  <2>1. BundleWell(bundle)
    BY <1>1 DEF RecallTypes
  <2> QED BY <1>2, <2>1 DEF BundleWell, SectionWell
<1>4. RecallTypes'
  BY <1>1, <1>3 DEF RecallTypes
<1>5. ASSUME phase # "fill"
      PROVE  /\ Shortened(bundle, filled)' /\ LastFirst(bundle, filled)'
             /\ surfaced' = ToSet(filled'["directives"])
  BY <1>5 DEF RecallInv, Shortened, LastFirst
<1>6. ASSUME phase # "fill" PROVE BarelyDropped(bundle, filled)'
  <2>1. ASSUME NEW i \in 1 .. 7, Len(bundle[Order[i]]) < Len(filled[Order[i]])
        PROVE  Tokens(Before(i, Len(bundle[Order[i]]) + 1))' > limit
    <3>1. PICK n : n = Len(bundle[Order[i]]) + 1
      OBVIOUS
    <3>2. Before(i, Len(bundle[Order[i]]) + 1)' = Before(i, n)
      BY <3>1 DEF Before
    <3>3. Tokens(Before(i, n)) > limit
      BY <1>6, <2>1, <3>1 DEF RecallInv, BarelyDropped
    <3> QED BY <3>2, <3>3 DEF Tokens, Rendered
  <2> QED BY <2>1 DEF BarelyDropped
<1>7. /\ phase = "trim" => NotYetTrimmed(bundle, filled)' /\ TrimmedAlready(bundle)'
      /\ phase \in {"attribute", "out"} => Fits(bundle)'
  BY DEF RecallInv, NotYetTrimmed, TrimmedAlready, Fits, Tokens, Rendered
<1>8. phase' = "out" => event' = Attributed'
  BY DEF RecallInv, Attributed, Credited
<1>9. phase' # "fill" => phase # "fill"
  OBVIOUS
<1>10. phase' = "trim" => phase = "trim"
  OBVIOUS
<1>11. phase' \in {"attribute", "out"} => phase \in {"attribute", "out"}
  OBVIOUS
<1> QED BY <1>4, <1>5, <1>6, <1>7, <1>8, <1>9, <1>10, <1>11 DEF RecallInv

LEMMA RecallInvariant == RecallSpec => []RecallInv
<1>1. RecallInit => RecallInv
  BY RecallStarts
<1>2. RecallInv /\ [RecallNext]_recallVars => RecallInv'
  <2> SUFFICES ASSUME RecallInv, [RecallNext]_recallVars PROVE RecallInv'
    OBVIOUS
  <2>1. ASSUME NEW s \in Names, Fill(s) PROVE RecallInv'
    BY <2>1, FillsOne
  <2>2. CASE FillDirectives
    BY <2>2, FillsTheLast
  <2>3. CASE Trim
    BY <2>3, TrimDrops, TrimStops
  <2>4. CASE Attribute
    BY <2>4, RecallRests DEF Attribute
  <2>5. CASE UNCHANGED recallVars
    BY <2>5, RecallRests DEF recallVars
  <2> QED BY <2>1, <2>2, <2>3, <2>4, <2>5 DEF RecallNext
<1> QED BY <1>1, <1>2, PTL DEF RecallSpec

-----------------------------------------------------------------------------
LEMMA JoinedLists ==
  ASSUME NEW S, NEW p \in Seq(S), NEW q \in Seq(S), IsInjective(p), IsInjective(q),
         ToSet(p) \cap ToSet(q) = {}
  PROVE  /\ p \o q \in Seq(S) /\ IsInjective(p \o q)
         /\ ToSet(p \o q) = ToSet(p) \cup ToSet(q)
<1>1. PICK m \in Nat, n \in Nat : m = Len(p) /\ n = Len(q)
  OBVIOUS
<1>2. PICK c : c = p \o q
  OBVIOUS
<1>3. /\ c \in Seq(S) /\ Len(c) = m + n
      /\ \A i \in 1 .. m + n : c[i] = IF i <= m THEN p[i] ELSE q[i - m]
  BY <1>1, <1>2
<1>4. DOMAIN c = 1 .. m + n /\ DOMAIN p = 1 .. m /\ DOMAIN q = 1 .. n
  BY <1>1, <1>3
<1>5. ASSUME NEW i \in 1 .. m + n
      PROVE  \/ i \in 1 .. m /\ i <= m /\ c[i] = p[i]
             \/ i - m \in 1 .. n /\ i > m /\ c[i] = q[i - m]
  BY <1>3
<1>6. ASSUME NEW i \in 1 .. m PROVE i \in 1 .. m + n /\ c[i] = p[i]
  BY <1>3
<1>7. ASSUME NEW i \in 1 .. n PROVE m + i \in 1 .. m + n /\ c[m + i] = q[i]
  <2>1. m + i \in 1 .. m + n /\ ~(m + i <= m) /\ m + i - m = i
    OBVIOUS
  <2> QED BY <1>3, <2>1
<1>8. ToSet(c) = ToSet(p) \cup ToSet(q)
  <2>1. ASSUME NEW x \in ToSet(c) PROVE x \in ToSet(p) \cup ToSet(q)
    BY <1>4, <1>5 DEF ToSet
  <2>2. ASSUME NEW x \in ToSet(p) PROVE x \in ToSet(c)
    BY <1>4, <1>6 DEF ToSet
  <2>3. ASSUME NEW x \in ToSet(q) PROVE x \in ToSet(c)
    BY <1>4, <1>7 DEF ToSet
  <2> QED BY <2>1, <2>2, <2>3
<1>9. IsInjective(c)
  <2> SUFFICES ASSUME NEW i \in 1 .. m + n, NEW j \in 1 .. m + n, c[i] = c[j] PROVE i = j
    BY <1>4 DEF IsInjective
  <2>1. ASSUME NEW a \in 1 .. m, NEW b \in 1 .. n PROVE p[a] # q[b]
    <3>1. p[a] \in ToSet(p) /\ q[b] \in ToSet(q)
      BY <1>4 DEF ToSet
    <3> QED BY <3>1
  <2>2. CASE i <= m /\ j <= m
    <3>1. i \in 1 .. m /\ j \in 1 .. m
      BY <2>2
    <3>2. p[i] = p[j]
      BY <1>6, <3>1
    <3> QED BY <1>4, <3>1, <3>2 DEF IsInjective
  <2>3. CASE i > m /\ j > m
    <3>1. i - m \in 1 .. n /\ j - m \in 1 .. n /\ q[i - m] = q[j - m]
      BY <1>5, <2>3
    <3>2. i - m = j - m
      BY <1>4, <3>1 DEF IsInjective
    <3> QED BY <3>2
  <2>4. ~(i <= m /\ j > m)
    BY <1>5, <2>1
  <2>5. ~(i > m /\ j <= m)
    BY <1>5, <2>1
  <2> QED BY <2>2, <2>3, <2>4, <2>5
<1> QED BY <1>2, <1>3, <1>8, <1>9

(* What the event credits to a section. *)
Shown(s) == {<<s, r>> : r \in ToSet(bundle[s])}

LEMMA SectionIsCredited ==
  ASSUME RecallTypes, NEW s \in Names
  PROVE  /\ Credited(s) \in Seq(Names \X Int) /\ IsInjective(Credited(s))
         /\ ToSet(Credited(s)) = Shown(s)
<1>1. PICK q \in Seq(Int) : q = bundle[s] /\ IsInjective(q)
  BY DEF RecallTypes, BundleWell, SectionWell
<1>2. PICK n \in Nat : n = Len(q) /\ DOMAIN q = 1 .. n /\ \A i \in 1 .. n : q[i] \in Int
  BY <1>1
<1>3. PICK c : c = [i \in 1 .. n |-> <<s, q[i]>>]
  OBVIOUS
<1>4. Credited(s) = c
  BY <1>1, <1>2, <1>3 DEF Credited
<1>5. DOMAIN c = 1 .. n /\ \A i \in 1 .. n : c[i] = <<s, q[i]>> /\ c[i] \in Names \X Int
  BY <1>2, <1>3
<1>6. c \in [1 .. n -> Names \X Int]
  BY <1>3, <1>5
<1>7. IsInjective(c)
  BY <1>1, <1>2, <1>5 DEF IsInjective
<1>8. ToSet(c) = {<<s, r>> : r \in ToSet(q)}
  BY <1>2, <1>5 DEF ToSet
<1>9. c \in Seq(Names \X Int)
  BY <1>6, FunctionsAreLists
<1> QED BY <1>1, <1>4, <1>7, <1>8, <1>9 DEF Shown

LEMMA EventShows ==
  ASSUME RecallTypes
  PROVE  /\ IsInjective(Attributed)
         /\ ToSet(Attributed) = UNION {Shown(s) : s \in Names \ {"rules"}}
<1> DEFINE E == Names \X Int
<1>1. Names = {"rules", "identity", "preferences", "active", "commitments", "reminders", "directives"}
  BY OrderIs
<1>2. ASSUME NEW s \in Names
      PROVE  /\ Credited(s) \in Seq(E) /\ IsInjective(Credited(s))
             /\ ToSet(Credited(s)) = Shown(s)
  BY SectionIsCredited
<1>3. ASSUME NEW s, NEW t, s # t PROVE Shown(s) \cap Shown(t) = {}
  BY <1>3 DEF Shown
<1> HIDE DEF E
<1>4. PICK a : a = Credited("identity") \o Credited("preferences")
  OBVIOUS
<1>5. /\ a \in Seq(E) /\ IsInjective(a)
      /\ ToSet(a) = Shown("identity") \cup Shown("preferences")
  <2>1. Shown("identity") \cap Shown("preferences") = {}
    BY <1>3
  <2>2. "identity" \in Names /\ "preferences" \in Names
    BY <1>1
  <2>3. ToSet(Credited("identity")) \cap ToSet(Credited("preferences")) = {}
    BY <1>2, <2>1, <2>2
  <2> QED BY <1>2, <1>4, <2>2, <2>3, JoinedLists
<1>6. PICK b : b = a \o Credited("active")
  OBVIOUS
<1>7. /\ b \in Seq(E) /\ IsInjective(b)
      /\ ToSet(b) = Shown("identity") \cup Shown("preferences") \cup Shown("active")
  <2>0. /\ Shown("identity") \cap Shown("active") = {}
        /\ Shown("preferences") \cap Shown("active") = {}
    BY <1>3
  <2>2. ToSet(Credited("active")) = Shown("active")
    BY <1>1, <1>2
  <2>1. ToSet(a) \cap ToSet(Credited("active")) = {}
    BY <1>5, <2>0, <2>2
  <2> QED BY <1>1, <1>2, <1>5, <1>6, <2>1, JoinedLists
<1>8. PICK c : c = b \o Credited("commitments")
  OBVIOUS
<1>9. /\ c \in Seq(E) /\ IsInjective(c)
      /\ ToSet(c) = Shown("identity") \cup Shown("preferences") \cup Shown("active")
                    \cup Shown("commitments")
  <2>0. /\ Shown("identity") \cap Shown("commitments") = {}
        /\ Shown("preferences") \cap Shown("commitments") = {}
        /\ Shown("active") \cap Shown("commitments") = {}
    BY <1>3
  <2>2. ToSet(Credited("commitments")) = Shown("commitments")
    BY <1>1, <1>2
  <2>1. ToSet(b) \cap ToSet(Credited("commitments")) = {}
    BY <1>7, <2>0, <2>2
  <2> QED BY <1>1, <1>2, <1>7, <1>8, <2>1, JoinedLists
<1>10. PICK d : d = c \o Credited("reminders")
  OBVIOUS
<1>11. /\ d \in Seq(E) /\ IsInjective(d)
       /\ ToSet(d) = Shown("identity") \cup Shown("preferences") \cup Shown("active")
                     \cup Shown("commitments") \cup Shown("reminders")
  <2>0. /\ Shown("identity") \cap Shown("reminders") = {}
        /\ Shown("preferences") \cap Shown("reminders") = {}
        /\ Shown("active") \cap Shown("reminders") = {}
        /\ Shown("commitments") \cap Shown("reminders") = {}
    BY <1>3
  <2>2. ToSet(Credited("reminders")) = Shown("reminders")
    BY <1>1, <1>2
  <2>1. ToSet(c) \cap ToSet(Credited("reminders")) = {}
    BY <1>9, <2>0, <2>2
  <2> QED BY <1>1, <1>2, <1>9, <1>10, <2>1, JoinedLists
<1>12. Attributed = d \o Credited("directives")
  BY <1>4, <1>6, <1>8, <1>10 DEF Attributed
<1>13. /\ IsInjective(Attributed)
       /\ ToSet(Attributed) = Shown("identity") \cup Shown("preferences") \cup Shown("active")
                              \cup Shown("commitments") \cup Shown("reminders") \cup Shown("directives")
  <2>0. /\ Shown("identity") \cap Shown("directives") = {}
        /\ Shown("preferences") \cap Shown("directives") = {}
        /\ Shown("active") \cap Shown("directives") = {}
        /\ Shown("commitments") \cap Shown("directives") = {}
        /\ Shown("reminders") \cap Shown("directives") = {}
    BY <1>3
  <2>2. ToSet(Credited("directives")) = Shown("directives")
    BY <1>1, <1>2
  <2>1. ToSet(d) \cap ToSet(Credited("directives")) = {}
    BY <1>11, <2>0, <2>2
  <2> QED BY <1>1, <1>2, <1>11, <1>12, <2>1, JoinedLists
<1>14. Names \ {"rules"} = {"identity", "preferences", "active", "commitments", "reminders", "directives"}
  BY <1>1
<1>15. UNION {Shown(s) : s \in Names \ {"rules"}}
         = Shown("identity") \cup Shown("preferences") \cup Shown("active")
           \cup Shown("commitments") \cup Shown("reminders") \cup Shown("directives")
  BY <1>14
<1> QED BY <1>13, <1>15

LEMMA BeginsWith ==
  ASSUME NEW S, NEW f \in Seq(S), NEW n \in Nat, n <= Len(f)
  PROVE  IsPrefix(SubSeq(f, 1, n), f)
<1>1. PICK q : q = SubSeq(f, 1, n)
  OBVIOUS
<1>2. q \in Seq(S) /\ Len(q) = n
  BY <1>1
<1>3. SubSeq(f, 1, Len(q)) = q
  BY <1>1, <1>2
<1> QED BY <1>1, <1>2, <1>3 DEF IsPrefix

LEMMA BeginningIsPart ==
  ASSUME NEW S, NEW f \in Seq(S), NEW n \in Nat, n <= Len(f)
  PROVE  ToSet(SubSeq(f, 1, n)) \subseteq ToSet(f)
<1>1. PICK q : q = SubSeq(f, 1, n)
  OBVIOUS
<1>2. q \in Seq(S) /\ Len(q) = n /\ \A i \in 1 .. n : q[i] = f[i] /\ i \in 1 .. Len(f)
  BY <1>1
<1>3. DOMAIN q = 1 .. n /\ DOMAIN f = 1 .. Len(f)
  BY <1>2
<1>4. ToSet(q) \subseteq ToSet(f)
  BY <1>2, <1>3 DEF ToSet
<1> QED BY <1>1, <1>4

LEMMA RecallInvIsEnough == RecallInv => RecallSound
<1> SUFFICES ASSUME RecallInv PROVE RecallSound
  OBVIOUS
<1>1. RecallTypes /\ at \in 1 .. 7
  BY DEF RecallInv, RecallTypes
<1>2. RecallTypeOK
  <2>1. ASSUME NEW s \in Names
        PROVE  ToSet(bundle[s]) \subseteq InTable[s] /\ Len(bundle[s]) <= SectionCap(s)
    <3>1. bundle[s] \in Seq(InTable[s]) /\ Len(bundle[s]) <= SectionCap(s)
      BY <1>1 DEF RecallTypes, BundleWell, SectionWell
    <3> QED BY <3>1 DEF ToSet
  <2>2. limit \in MinLimit .. MaxLimit
    BY <1>1, RecallAssumption DEF RecallTypes
  <2>3. surfaced \subseteq InTable["directives"] /\ phase \in {"fill", "trim", "attribute", "out"}
    BY <1>1 DEF RecallTypes
  <2>4. at \in 1 .. Len(Order)
    BY <1>1, OrderIs
  <2> QED BY <2>1, <2>2, <2>3, <2>4 DEF RecallTypeOK
<1>3. ASSUME NEW s \in Names, phase # "fill"
      PROVE  /\ IsPrefix(bundle[s], filled[s]) /\ ToSet(bundle[s]) \subseteq ToSet(filled[s])
             /\ Len(bundle[s]) <= Len(filled[s])
             /\ bundle[s] # filled[s] <=> Len(bundle[s]) < Len(filled[s])
  <2>0. PICK f \in Seq(Int) : f = filled[s]
    BY <1>1 DEF RecallTypes
  <2>1. PICK n \in Nat : n = Len(bundle[s]) /\ n <= Len(f) /\ bundle[s] = SubSeq(f, 1, n)
    <3>1. Len(bundle[s]) \in Nat
      <4>1. bundle[s] \in Seq(Int)
        BY <1>1 DEF RecallTypes, BundleWell
      <4> QED BY <4>1
    <3>2. Len(bundle[s]) <= Len(f) /\ bundle[s] = SubSeq(f, 1, Len(bundle[s]))
      BY <1>3, <2>0 DEF RecallInv, Shortened
    <3> QED BY <3>1, <3>2
  <2>2. n = Len(f) => SubSeq(f, 1, n) = f
    BY <2>1
  <2>3. n < Len(f) => SubSeq(f, 1, n) # f
    BY <2>1
  <2>4. IsPrefix(SubSeq(f, 1, n), f) /\ ToSet(SubSeq(f, 1, n)) \subseteq ToSet(f)
    BY <2>1, BeginsWith, BeginningIsPart
  <2>5. Len(f) \in Nat
    OBVIOUS
  <2> QED BY <2>0, <2>1, <2>2, <2>3, <2>4, <2>5
<1>4. TrimInverts
  <2>1. ASSUME phase # "fill", NEW i \in 1 .. 7
        PROVE  /\ IsPrefix(bundle[Order[i]], filled[Order[i]])
               /\ bundle[Order[i]] # filled[Order[i]] =>
                    \A j \in i + 1 .. 7 : bundle[Order[j]] = <<>>
    <3>1. Order[i] \in Names /\ LastFirst(bundle, filled)
      BY <2>1, OrderIs DEF RecallInv
    <3> QED BY <1>3, <2>1, <3>1 DEF LastFirst
  <2>2. phase = "out" => Tokens(bundle) <= limit \/ \A s \in Names : bundle[s] = <<>>
    BY DEF RecallInv, Fits
  <2> QED BY <2>1, <2>2, OrderIs DEF TrimInverts
<1>5. TrimIsLeast
  <2>1. phase = "out" => BarelyDropped(bundle, filled)
    BY DEF RecallInv
  <2> QED BY <2>1, OrderIs DEF TrimIsLeast, BarelyDropped
<1>6. EventIsShown
  <2> SUFFICES ASSUME phase = "out"
               PROVE  /\ ToSet(event) = UNION {Shown(s) : s \in Names \ {"rules"}}
                      /\ IsInjective(event) /\ ToSet(bundle["directives"]) \subseteq surfaced
    BY DEF EventIsShown, Shown
  <2>1. event = Attributed /\ surfaced = ToSet(filled["directives"]) /\ "directives" \in Names
    BY OrderIs DEF RecallInv
  <2> QED BY <1>1, <1>3, <2>1, EventShows
<1> QED BY <1>2, <1>4, <1>5, <1>6 DEF RecallSound

(***************************************************************************)
(* For every table, cap and length of the rows, a recall drops the rows of *)
(* least priority first and no more than it must, and its event names each *)
(* row that is shown once.                                                 *)
(***************************************************************************)
THEOREM RecallsAreSound == RecallSpec => []RecallSound
<1>1. RecallInv => RecallSound
  BY RecallInvIsEnough
<1> QED BY <1>1, RecallInvariant, PTL

-----------------------------------------------------------------------------
(***************************************************************************)
(* Of the search: what its passes do with lists of rows.                   *)
(***************************************************************************)
LEMMA AtPlaces ==
  ASSUME NEW X, NEW list \in Seq(X), NEW places \in SUBSET (1 .. Len(list))
  PROVE  /\ At(list, places) \in Seq(X) /\ Len(At(list, places)) <= Len(list)
         /\ \A k \in 1 .. Len(At(list, places)) : \E i \in places : At(list, places)[k] = list[i]
         /\ IsInjective(list) => IsInjective(At(list, places))
<1>1. PICK n \in Nat : n = Len(list) /\ DOMAIN list = 1 .. n /\ \A i \in 1 .. n : list[i] \in X
  OBVIOUS
<1>2. IsFiniteSet(places) /\ places \in SUBSET Int /\ places \in SUBSET (1 .. n)
  <2>1. IsFiniteSet(1 .. n)
    BY UptoCounts
  <2>2. places \in SUBSET (1 .. n)
    BY <1>1
  <2>3. IsFiniteSet(places)
    BY <2>1, <2>2, FS_Subset
  <2>4. \A i \in 1 .. n : i \in Int
    OBVIOUS
  <2> QED BY <2>2, <2>3, <2>4
<1>3. PICK a : a = Ascending(places)
  OBVIOUS
<1>4. IsListing(a, places) /\ \A i, j \in 1 .. Cardinality(places) : i < j => a[i] < a[j]
  BY <1>2, <1>3, AscendingLists
<1>5. PICK m \in Nat : m = Cardinality(places) /\ m <= n
  BY <1>2, PlacesCount
<1>6. \A k \in 1 .. m : a[k] \in places /\ a[k] \in 1 .. n
  BY <1>2, <1>4, <1>5 DEF IsListing
<1>7. PICK r : r = At(list, places)
  OBVIOUS
<1>8. r = [k \in 1 .. m |-> list[a[k]]]
  BY <1>3, <1>5, <1>7 DEF At
<1>9. r \in [1 .. m -> X]
  BY <1>1, <1>6, <1>8
<1>10. r \in Seq(X) /\ Len(r) = m
  BY <1>9, FunctionsAreLists
<1>11. \A k \in 1 .. m : \E i \in places : r[k] = list[i]
  BY <1>6, <1>8
<1>12. ASSUME IsInjective(list) PROVE IsInjective(r)
  <2> SUFFICES ASSUME NEW i \in 1 .. m, NEW j \in 1 .. m, r[i] = r[j] PROVE i = j
    BY <1>9 DEF IsInjective
  <2>1. list[a[i]] = list[a[j]]
    BY <1>8
  <2>2. a[i] = a[j]
    BY <1>1, <1>6, <1>12, <2>1 DEF IsInjective
  <2>3. a[i] \in Int /\ ~(a[i] < a[j]) /\ ~(a[j] < a[i])
    BY <1>6, <2>2
  <2>4. ~(i < j) /\ ~(j < i)
    BY <1>4, <1>5, <2>3
  <2> QED BY <2>4
<1> QED BY <1>1, <1>5, <1>7, <1>10, <1>11, <1>12

LEMMA OnlyKeeps ==
  ASSUME NEW X, NEW list \in Seq(X), NEW S
  PROVE  /\ Only(list, S) \in Seq(X) /\ Len(Only(list, S)) <= Len(list)
         /\ ToSet(Only(list, S)) \subseteq ToSet(list) \cap S
         /\ IsInjective(list) => IsInjective(Only(list, S))
<1>1. PICK places : places = {i \in DOMAIN list : list[i] \in S}
  OBVIOUS
<1>2. places \in SUBSET (1 .. Len(list)) /\ \A i \in places : list[i] \in S /\ i \in DOMAIN list
  BY <1>1
<1>3. PICK r : r = Only(list, S)
  OBVIOUS
<1>4. r = At(list, places)
  BY <1>1, <1>3 DEF Only
<1>5. /\ r \in Seq(X) /\ Len(r) <= Len(list)
      /\ \A k \in 1 .. Len(r) : \E i \in places : r[k] = list[i]
      /\ IsInjective(list) => IsInjective(r)
  BY <1>2, <1>4, AtPlaces
<1>6. ToSet(r) \subseteq ToSet(list) \cap S
  <2> SUFFICES ASSUME NEW k \in DOMAIN r PROVE r[k] \in ToSet(list) \cap S
    BY DEF ToSet
  <2>1. PICK i \in places : r[k] = list[i]
    BY <1>5
  <2> QED BY <1>2, <2>1 DEF ToSet
<1> QED BY <1>3, <1>5, <1>6

(* What a lane adds it adds behind what there is. *)
LEMMA UniqueGrows ==
  ASSUME NEW X, NEW out \in Seq(X), NEW more \in Seq(X), NEW cap \in Nat,
         IsInjective(out), Len(out) <= cap
  PROVE  LET r == AppendUnique(out, more, cap)
         IN  /\ r \in Seq(X) /\ IsInjective(r) /\ Len(r) <= cap
             /\ Len(out) <= Len(r) /\ \A i \in 1 .. Len(out) : r[i] = out[i]
             /\ ToSet(r) \subseteq ToSet(out) \cup ToSet(more)
<1>1. PICK r : r = AppendUnique(out, more, cap)
  OBVIOUS
<1>2. r \in Seq(X) /\ Grown(out, more, Len(more), cap, r)
  BY <1>1, MergeGrows DEF AppendUnique
<1>3. /\ IsInjective(r) /\ Len(r) <= cap
      /\ Len(out) <= Len(r) /\ \A i \in 1 .. Len(out) : r[i] = out[i]
      /\ \A i \in 1 .. Len(r) : i > Len(out) => \E j \in 1 .. Len(more) : r[i] = more[j]
  BY <1>2 DEF Grown
<1>4. ToSet(r) \subseteq ToSet(out) \cup ToSet(more)
  <2> SUFFICES ASSUME NEW i \in DOMAIN r PROVE r[i] \in ToSet(out) \cup ToSet(more)
    BY DEF ToSet
  <2>0. i \in 1 .. Len(r)
    BY <1>2
  <2>1. CASE i <= Len(out)
    <3>1. i \in 1 .. Len(out) /\ i \in DOMAIN out
      BY <2>0, <2>1
    <3> QED BY <1>3, <3>1 DEF ToSet
  <2>2. CASE i > Len(out)
    <3>1. PICK j \in 1 .. Len(more) : r[i] = more[j]
      BY <1>3, <2>0, <2>2
    <3> QED BY <3>1 DEF ToSet
  <2> QED BY <2>0, <2>1, <2>2
<1> QED BY <1>1, <1>2, <1>3, <1>4

(* r is the first rows of a list, n of them at most. *)
IsFrontOf(r, X, list, n) ==
  /\ r \in Seq(X) /\ Len(r) <= n /\ Len(r) <= Len(list) /\ (n <= Len(list) => Len(r) = n)
  /\ \A i \in 1 .. Len(r) : r[i] = list[i]
  /\ ToSet(r) \subseteq ToSet(list) /\ (IsInjective(list) => IsInjective(r))

LEMMA FirstRowsKeep ==
  ASSUME NEW X, NEW list \in Seq(X), NEW n \in Nat
  PROVE  IsFrontOf(FirstRows(list, n), X, list, n)
<1>1. PICK r : r = FirstRows(list, n)
  OBVIOUS
<1>2. /\ r \in Seq(X) /\ Len(r) = (IF Len(list) < n THEN Len(list) ELSE n)
      /\ \A i \in 1 .. Len(r) : r[i] = list[i]
  BY <1>1, FirstRowsAre
<1>3. Len(r) <= n /\ Len(r) <= Len(list) /\ (n <= Len(list) => Len(r) = n)
  BY <1>2
<1>4. \A i \in DOMAIN r : i \in DOMAIN list /\ r[i] = list[i]
  BY <1>2, <1>3
<1>5. ToSet(r) \subseteq ToSet(list)
  BY <1>4 DEF ToSet
<1>6. IsInjective(list) => IsInjective(r)
  BY <1>4 DEF IsInjective
<1> QED BY <1>1, <1>2, <1>3, <1>5, <1>6 DEF IsFrontOf

(* Rows of a list, nearer scopes first. *)
InRank(s) == \A i, j \in DOMAIN s : i < j => ScopeRank[s[i]] >= ScopeRank[s[j]]

LEMMA BucketsAreInRank ==
  ASSUME SearchAssumption, NEW seq \in Seq(Findable), IsInjective(seq)
  PROVE  LET r == Bucketed(seq)
         IN  /\ r \in Seq(Findable) /\ IsInjective(r) /\ Len(r) = Len(seq)
             /\ ToSet(r) = ToSet(seq) /\ InRank(r)
<1>1. PICK n \in Nat : n = Len(seq) /\ DOMAIN seq = 1 .. n /\ \A i \in 1 .. n : seq[i] \in Findable
  OBVIOUS
<1>2. \A i \in 1 .. n : ScopeRank[seq[i]] \in Nat
  BY <1>1 DEF SearchAssumption
<1>3. PICK before : before = [j \in DOMAIN seq |-> {i \in DOMAIN seq : Nearer(seq, i, j)}
                                 \cup {i \in DOMAIN seq : i < j /\ ~Nearer(seq, j, i)}]
  OBVIOUS
<1>4. /\ before \in [1 .. n -> SUBSET (1 .. n)]
      /\ \A i, j \in 1 .. n : i \in before[j] <=> Nearer(seq, i, j) \/ (i < j /\ ~Nearer(seq, j, i))
  BY <1>1, <1>3
<1>5. \A i, j \in 1 .. n : i \in before[j] <=>
        \/ ScopeRank[seq[i]] > ScopeRank[seq[j]]
        \/ i < j /\ ScopeRank[seq[i]] = ScopeRank[seq[j]]
  BY <1>2, <1>4 DEF Nearer
<1>6. \A i, j \in 1 .. n : i # j => i \in before[j] \/ j \in before[i]
  BY <1>2, <1>5
<1>7. \A i \in 1 .. n : i \notin before[i]
  BY <1>2, <1>5
<1>8. \A i, j \in 1 .. n : i \in before[j] => before[i] \subseteq before[j]
  <2> SUFFICES ASSUME NEW i \in 1 .. n, NEW j \in 1 .. n, i \in before[j], NEW k \in before[i]
               PROVE  k \in before[j]
    OBVIOUS
  <2>1. k \in 1 .. n
    BY <1>4
  <2> QED BY <1>2, <1>5, <2>1
<1>9. PICK o : o = InOrder(1 .. n, before)
  OBVIOUS
<1>10. IsFiniteSet(1 .. n) /\ Cardinality(1 .. n) = n
  BY UptoCounts
<1>11. IsListing(o, 1 .. n) /\ \A i, j \in 1 .. n : i < j => o[i] \in before[o[j]]
  BY <1>4, <1>6, <1>7, <1>8, <1>9, <1>10, PlacedInOrder
<1>12. /\ o \in [1 .. n -> 1 .. n]
       /\ \A x \in 1 .. n : \E i \in 1 .. n : o[i] = x
  BY <1>10, <1>11 DEF IsListing
<1>13. PICK r : r = Bucketed(seq)
  OBVIOUS
<1>14. r = [k \in 1 .. n |-> seq[o[k]]]
  BY <1>1, <1>3, <1>9, <1>13 DEF Bucketed
<1>15. r \in [1 .. n -> Findable]
  BY <1>1, <1>12, <1>14
<1>16. r \in Seq(Findable) /\ Len(r) = n /\ DOMAIN r = 1 .. n
  BY <1>15, FunctionsAreLists
<1>17. IsInjective(r)
  <2> SUFFICES ASSUME NEW i \in 1 .. n, NEW j \in 1 .. n, r[i] = r[j] PROVE i = j
    BY <1>16 DEF IsInjective
  <2>1. seq[o[i]] = seq[o[j]] /\ o[i] \in 1 .. n /\ o[j] \in 1 .. n
    BY <1>12, <1>14
  <2>2. o[i] = o[j]
    BY <1>1, <2>1 DEF IsInjective
  <2>3. ~(i < j) /\ ~(j < i)
    BY <1>7, <1>11, <2>1, <2>2
  <2> QED BY <2>3
<1>18. ToSet(r) = ToSet(seq)
  <2>1. \A k \in 1 .. n : r[k] = seq[o[k]] /\ o[k] \in 1 .. n
    BY <1>12, <1>14
  <2>2. \A x \in 1 .. n : \E k \in 1 .. n : r[k] = seq[x]
    BY <1>12, <2>1
  <2>3. ToSet(r) \subseteq ToSet(seq)
    BY <1>1, <1>16, <2>1 DEF ToSet
  <2>4. ToSet(seq) \subseteq ToSet(r)
    BY <1>1, <1>16, <2>2 DEF ToSet
  <2> QED BY <2>3, <2>4
<1>19. InRank(r)
  <2> SUFFICES ASSUME NEW i \in 1 .. n, NEW j \in 1 .. n, i < j
               PROVE  ScopeRank[r[i]] >= ScopeRank[r[j]]
    BY <1>16 DEF InRank
  <2>1. o[i] \in before[o[j]] /\ o[i] \in 1 .. n /\ o[j] \in 1 .. n
    BY <1>11, <1>12
  <2>2. PICK a \in 1 .. n : a = o[i]
    BY <2>1
  <2>3. PICK b \in 1 .. n : b = o[j]
    BY <2>1
  <2>4. \/ ScopeRank[seq[a]] > ScopeRank[seq[b]]
        \/ a < b /\ ScopeRank[seq[a]] = ScopeRank[seq[b]]
    BY <1>5, <2>1, <2>2, <2>3
  <2>5. ScopeRank[seq[a]] >= ScopeRank[seq[b]]
    BY <1>2, <2>4
  <2> QED BY <1>14, <2>2, <2>3, <2>5
<1> QED BY <1>1, <1>13, <1>16, <1>17, <1>18, <1>19

LEMMA LedToIsLedToBy ==
  ASSUME SearchAssumption, NEW leads \in {Linked, Bridged, Nearby}, NEW seq \in Seq(Findable)
  PROVE  LedTo(leads, seq) \in Seq(Findable) /\ ToSet(LedTo(leads, seq)) \subseteq LedToBy(leads)
<1>1. PICK n \in Nat : n = Len(seq) /\ \A i \in 1 .. n : seq[i] \in Findable
  OBVIOUS
<1>2. leads \in [Findable -> Seq(Findable)]
  BY DEF SearchAssumption
<1>3. PICK T : T = {s \in Seq(Findable) : ToSet(s) \subseteq LedToBy(leads)}
  OBVIOUS
<1>4. <<>> \in T
  <2>1. <<>> \in Seq(Findable)
    OBVIOUS
  <2>2. ToSet(<<>>) = {}
    BY DEF ToSet
  <2> QED BY <1>3, <2>1, <2>2
<1>5. ASSUME NEW s \in T, NEW i \in 1 .. n PROVE s \o leads[seq[i]] \in T
  <2>1. PICK q \in Seq(Findable) : q = leads[seq[i]]
    BY <1>1, <1>2
  <2>2. ToSet(q) \subseteq LedToBy(leads)
    BY <1>1, <2>1 DEF LedToBy
  <2>3. PICK c : c = s \o q
    OBVIOUS
  <2>4. s \in Seq(Findable) /\ ToSet(s) \subseteq LedToBy(leads)
    BY <1>3
  <2>5. /\ c \in Seq(Findable) /\ Len(c) = Len(s) + Len(q)
        /\ \A k \in 1 .. Len(s) + Len(q) : c[k] = IF k <= Len(s) THEN s[k] ELSE q[k - Len(s)]
    BY <2>3, <2>4
  <2>6. ASSUME NEW k \in DOMAIN c PROVE c[k] \in LedToBy(leads)
    <3>1. k \in 1 .. Len(s) + Len(q)
      BY <2>4, <2>5
    <3>2. CASE k <= Len(s)
      <4>1. k \in DOMAIN s /\ c[k] = s[k]
        BY <2>4, <2>5, <3>1, <3>2
      <4> QED BY <2>4, <4>1 DEF ToSet
    <3>3. CASE k > Len(s)
      <4>1. k - Len(s) \in DOMAIN q /\ c[k] = q[k - Len(s)]
        BY <2>4, <2>5, <3>1, <3>3
      <4> QED BY <2>2, <4>1 DEF ToSet
    <3> QED BY <2>4, <3>1, <3>2, <3>3
  <2>7. ToSet(c) \subseteq LedToBy(leads)
    BY <2>6 DEF ToSet
  <2> QED BY <1>3, <2>1, <2>3, <2>5, <2>7
<1>6. PICK step : step = [p \in T \X (1 .. n) |-> p[1] \o leads[seq[p[2]]]]
  OBVIOUS
<1>7. step \in [T \X (1 .. n) -> T]
  BY <1>5, <1>6
<1>8. PICK h \in [0 .. n -> T] : h[0] = <<>> /\ \A k \in 1 .. n : h[k] = step[<<h[k - 1], k>>]
  <2>1. PICK none \in T : none = <<>>
    BY <1>4
  <2>2. PICK h : Walked(h, T, n, none, step)
    BY <1>7, WalkRuns
  <2> QED BY <2>1, <2>2 DEF Walked
<1>9. \A k \in 1 .. n : h[k] = h[k - 1] \o leads[seq[k]]
  <2> SUFFICES ASSUME NEW k \in 1 .. n PROVE h[k] = h[k - 1] \o leads[seq[k]]
    OBVIOUS
  <2>1. k - 1 \in 0 .. n
    OBVIOUS
  <2>2. <<h[k - 1], k>> \in T \X (1 .. n)
    BY <1>8, <2>1
  <2> QED BY <1>6, <1>8, <2>2
<1> DEFINE Body(g) == [k \in 0 .. n |-> IF k = 0 THEN <<>> ELSE g[k - 1] \o leads[seq[k]]]
           upto == CHOOSE g : g = Body(g)
<1>10. h = Body(h)
  <2>1. \A k \in 0 .. n : k = 0 \/ k \in 1 .. n
    OBVIOUS
  <2> QED BY <1>8, <1>9, <2>1
<1>11. upto = Body(upto)
  BY <1>10
<1>12. LedTo(leads, seq) = upto[n]
  BY <1>1 DEF LedTo
<1> HIDE DEF upto
<1>13. PICK u : u = upto /\ u = Body(u)
  BY <1>11
<1> DEFINE S == {k \in 0 .. n : u[k] \in T}
<1>14. 0 \in S
  BY <1>4, <1>13
<1>15. ASSUME NEW k \in 1 .. n, k - 1 \in S PROVE k \in S
  <2>1. k \in 0 .. n /\ k # 0
    OBVIOUS
  <2>2. u[k] = u[k - 1] \o leads[seq[k]]
    BY <1>13, <2>1
  <2>3. u[k - 1] \in T
    BY <1>15
  <2>4. u[k] \in T
    BY <1>5, <2>2, <2>3
  <2> QED BY <2>1, <2>4
<1>16. n \in S
  <2> HIDE DEF S
  <2> QED BY <1>14, <1>15, CountUp
<1> QED BY <1>3, <1>12, <1>13, <1>16

-----------------------------------------------------------------------------
(***************************************************************************)
(* memory_apply_lane_floor.                                                *)
(***************************************************************************)
Swapped(e, s, X, n, v, t) ==
  /\ e \in [1 .. n -> X] /\ IsInjective(e) /\ ToSet(e) = ToSet(s)
  /\ e[v] = s[t] /\ e[t] = s[v]
  /\ \A k \in 1 .. n : k # v /\ k # t => e[k] = s[k]

LEMMA ExchangedKeeps ==
  ASSUME NEW X, NEW n \in Nat, NEW s \in [1 .. n -> X], IsInjective(s),
         NEW v \in 1 .. n, NEW t \in 1 .. n, v # t, NEW e, e = Exchanged(s, v, t)
  PROVE  Swapped(e, s, X, n, v, t)
<1>2. /\ e \in [1 .. n -> X] /\ e[v] = s[t] /\ e[t] = s[v]
      /\ \A k \in 1 .. n : k # v /\ k # t => e[k] = s[k]
  BY DEF Exchanged
<1>3. IsInjective(e)
  <2> SUFFICES ASSUME NEW i \in 1 .. n, NEW j \in 1 .. n, e[i] = e[j] PROVE i = j
    BY <1>2 DEF IsInjective
  <2>1. \A a, b \in 1 .. n : s[a] = s[b] => a = b
    BY DEF IsInjective
  <2> QED BY <1>2, <2>1
<1>4. ToSet(e) \subseteq ToSet(s)
  BY <1>2 DEF ToSet
<1>5. ToSet(s) \subseteq ToSet(e)
  <2> SUFFICES ASSUME NEW i \in 1 .. n PROVE \E j \in 1 .. n : e[j] = s[i]
    BY <1>2 DEF ToSet
  <2> QED BY <1>2
<1> QED BY <1>2, <1>3, <1>4, <1>5 DEF Swapped

(* What the floor has made of a list: whatever it has moved up is above the end of the
   page, and nothing that stood below the page's own places has left it. *)
Lifting(r, X, n, seq, floor, top) ==
  /\ r \in [seq : [1 .. n -> X], total : Int, missing : Int] /\ r.total \in 0 .. top
  /\ IsInjective(r.seq) /\ ToSet(r.seq) = ToSet(seq)
  /\ r.missing > 0 => r.missing <= r.total \/ top = n
  /\ r.missing + (top - r.total) <= floor /\ top - r.total <= floor
  /\ \A i \in 1 .. r.total : r.seq[i] = seq[i]
  /\ \A last \in top .. n : \A i \in top + 1 .. last : \E j \in 1 .. last : r.seq[j] = seq[i]

LEMMA RaiseLifts ==
  ASSUME NEW X, NEW n \in Nat, NEW seq \in [1 .. n -> X], IsInjective(seq), NEW lane,
         NEW floor \in Nat, NEW top \in 0 .. n, NEW tail \in top + 1 .. n,
         NEW r, Lifting(r, X, n, seq, floor, top)
  PROVE  Lifting(Raise(r, tail, lane), X, n, seq, floor, top)
<1>1. /\ r \in [seq : [1 .. n -> X], total : Int, missing : Int] /\ r.total \in 0 .. top
      /\ IsInjective(r.seq) /\ ToSet(r.seq) = ToSet(seq)
      /\ r.missing > 0 => r.missing <= r.total \/ top = n
      /\ r.missing + (top - r.total) <= floor /\ top - r.total <= floor
      /\ \A i \in 1 .. r.total : r.seq[i] = seq[i]
      /\ \A last \in top .. n : \A i \in top + 1 .. last : \E j \in 1 .. last : r.seq[j] = seq[i]
  BY DEF Lifting
<1>2. CASE r.missing <= 0 \/ r.seq[tail] \notin lane
  BY <1>2 DEF Raise
<1>3. CASE ~(r.missing <= 0 \/ r.seq[tail] \notin lane)
  <2>1. PICK q \in [1 .. n -> X] : q = r.seq
    BY <1>1
  <2>2. PICK v \in Int : v = r.total
    BY <1>1
  <2>3. v \in 1 .. n /\ v <= top /\ tail \in 1 .. n /\ v # tail /\ top < tail
    BY <1>1, <1>3, <2>2
  <2>4. PICK e : e = Exchanged(q, v, tail)
    OBVIOUS
  <2>5. /\ e \in [1 .. n -> X] /\ IsInjective(e) /\ ToSet(e) = ToSet(q)
        /\ e[v] = q[tail] /\ e[tail] = q[v]
        /\ \A k \in 1 .. n : k # v /\ k # tail => e[k] = q[k]
    <3>1. IsInjective(q)
      BY <1>1, <2>1
    <3>2. Swapped(e, q, X, n, v, tail)
      BY <2>3, <2>4, <3>1, ExchangedKeeps
    <3> QED BY <3>2 DEF Swapped
  <2>6. PICK d : d = Raise(r, tail, lane)
    OBVIOUS
  <2>7. d = [seq |-> e, total |-> v - 1, missing |-> r.missing - 1]
    BY <1>3, <2>1, <2>2, <2>4, <2>6 DEF Raise
  <2>8. /\ d \in [seq : [1 .. n -> X], total : Int, missing : Int]
        /\ d.seq = e /\ d.total = v - 1 /\ d.missing = r.missing - 1
    BY <1>1, <2>2, <2>5, <2>7
  <2>9. /\ d.total \in 0 .. top
        /\ d.missing > 0 => d.missing <= d.total \/ top = n
        /\ d.missing + (top - d.total) <= floor /\ top - d.total <= floor
    <3>1. PICK w \in Int : w = r.missing
      BY <1>1
    <3>2. w > 0 /\ (w <= v \/ top = n) /\ w + (top - v) <= floor
      BY <1>1, <1>3, <2>2, <3>1
    <3>3. v - 1 \in 0 .. top /\ (w - 1 <= v - 1 \/ top = n)
          /\ (w - 1) + (top - (v - 1)) <= floor /\ top - (v - 1) <= floor
      BY <2>3, <3>2
    <3> QED BY <2>8, <3>1, <3>3
  <2>10. \A i \in 1 .. d.total : d.seq[i] = seq[i]
    <3> SUFFICES ASSUME NEW i \in 1 .. v - 1 PROVE e[i] = seq[i]
      BY <2>8
    <3>1. i \in 1 .. n /\ i # v /\ i # tail /\ i \in 1 .. r.total
      BY <2>2, <2>3
    <3> QED BY <1>1, <2>1, <2>5, <3>1
  <2>11. ASSUME NEW last \in top .. n, NEW i \in top + 1 .. last
         PROVE  \E j \in 1 .. last : d.seq[j] = seq[i]
    <3>1. PICK j \in 1 .. last : q[j] = seq[i]
      BY <1>1, <2>1
    <3>2. j \in 1 .. n /\ i \in 1 .. n /\ i # v /\ v \in 1 .. last /\ v \in 1 .. r.total
      BY <2>2, <2>3
    <3>3. q[v] = seq[v]
      BY <1>1, <2>1, <3>2
    <3>4. seq[v] # seq[i]
      BY <2>3, <3>2 DEF IsInjective
    <3>5. j # v
      BY <3>1, <3>3, <3>4
    <3>6. CASE j = tail
      <4>1. e[v] = seq[i]
        BY <2>5, <3>1, <3>6
      <4> QED BY <2>8, <3>2, <4>1
    <3>7. CASE j # tail
      <4>1. e[j] = seq[i]
        BY <2>5, <3>1, <3>2, <3>5, <3>7
      <4> QED BY <2>8, <4>1
    <3> QED BY <3>6, <3>7
  <2>12. IsInjective(d.seq) /\ ToSet(d.seq) = ToSet(seq)
    BY <1>1, <2>1, <2>5, <2>8
  <2> QED BY <2>6, <2>8, <2>9, <2>10, <2>11, <2>12 DEF Lifting
<1> QED BY <1>2, <1>3

LEMMA FloorLifts ==
  ASSUME NEW X, NEW n \in Nat, NEW seq \in [1 .. n -> X], IsInjective(seq), NEW lane,
         NEW floor \in Nat, NEW top \in 0 .. n, floor <= top \/ top = n
  PROVE  LET r == Floor(seq, lane, floor, top)
         IN  Lifting(r, X, n, seq, floor, top) /\ (top = n => r.total = n)
<1>1. Len(seq) = n /\ seq \in Seq(X)
  BY FunctionsAreLists
<1>2. PICK places : places = {i \in 1 .. top : seq[i] \in lane}
  OBVIOUS
<1>3. PICK inTop \in Nat : inTop = Cardinality(places) /\ inTop <= top
  <2>1. places \in SUBSET (1 .. top)
    BY <1>2
  <2> QED BY <2>1, PlacesCount
<1>4. ASSUME NEW m \in Int, m <= floor
      PROVE  Lifting([seq |-> seq, total |-> top, missing |-> m], X, n, seq, floor, top)
  <2>1. PICK r : r = [seq |-> seq, total |-> top, missing |-> m]
    OBVIOUS
  <2>2. /\ r \in [seq : [1 .. n -> X], total : Int, missing : Int]
        /\ r.seq = seq /\ r.total = top /\ r.missing = m
    BY <2>1
  <2>3. \A last \in top .. n : \A i \in top + 1 .. last : i \in 1 .. last /\ r.seq[i] = seq[i]
    BY <2>2
  <2>4. r.missing > 0 => r.missing <= r.total \/ top = n
    BY <1>4, <2>2
  <2>5. r.missing + (top - r.total) <= floor /\ top - r.total <= floor
    BY <1>4, <2>2
  <2>6. IsInjective(r.seq) /\ ToSet(r.seq) = ToSet(seq) /\ r.total \in 0 .. top
        /\ \A i \in 1 .. r.total : r.seq[i] = seq[i]
    BY <2>2
  <2> QED BY <2>1, <2>2, <2>3, <2>4, <2>5, <2>6 DEF Lifting
<1>5. CASE floor = 0 \/ lane = {} \/ top = 0
  <2>1. Floor(seq, lane, floor, top) = [seq |-> seq, total |-> top, missing |-> 0]
    BY <1>5 DEF Floor
  <2>2. Lifting([seq |-> seq, total |-> top, missing |-> 0], X, n, seq, floor, top)
    BY <1>4
  <2> QED BY <2>1, <2>2
<1>6. CASE ~(floor = 0 \/ lane = {} \/ top = 0)
  <2>1. PICK m \in Nat : m = n - top
    OBVIOUS
  <2>2. PICK T : T = {r \in [seq : [1 .. n -> X], total : Int, missing : Int] :
                        Lifting(r, X, n, seq, floor, top)}
    OBVIOUS
  <2>3. PICK base : base = [seq |-> seq, total |-> top, missing |-> floor - inTop]
    OBVIOUS
  <2>4. base \in T
    <3>1. floor - inTop \in Int /\ floor - inTop <= floor
      OBVIOUS
    <3>2. Lifting(base, X, n, seq, floor, top)
      BY <1>4, <2>3, <3>1
    <3> QED BY <2>2, <3>2 DEF Lifting
  <2>5. ASSUME NEW r \in T, NEW k \in 1 .. m PROVE Raise(r, top + k, lane) \in T
    <3>1. top + k \in top + 1 .. n
      BY <2>1
    <3>2. Lifting(Raise(r, top + k, lane), X, n, seq, floor, top)
      BY <2>2, <3>1, RaiseLifts
    <3> QED BY <2>2, <3>2 DEF Lifting
  <2>6. PICK step : step = [p \in T \X (1 .. m) |-> Raise(p[1], top + p[2], lane)]
    OBVIOUS
  <2>7. step \in [T \X (1 .. m) -> T]
    BY <2>5, <2>6
  <2>8. PICK h : Walked(h, T, m, base, step)
    BY <2>4, <2>7, WalkRuns
  <2>9. h \in [0 .. m -> T] /\ h[0] = base /\ \A k \in 1 .. m : h[k] = step[<<h[k - 1], k>>]
    BY <2>8 DEF Walked
  <2>10. \A k \in 1 .. m : h[k] = Raise(h[k - 1], top + k, lane)
    <3> SUFFICES ASSUME NEW k \in 1 .. m PROVE h[k] = Raise(h[k - 1], top + k, lane)
      OBVIOUS
    <3>1. k - 1 \in 0 .. m
      OBVIOUS
    <3>2. <<h[k - 1], k>> \in T \X (1 .. m)
      BY <2>9, <3>1
    <3> QED BY <2>6, <2>9, <3>2
  <2> DEFINE Body(g) == [k \in 0 .. m |-> IF k = 0 THEN base ELSE Raise(g[k - 1], top + k, lane)]
             upto == CHOOSE g : g = Body(g)
  <2>11. h = Body(h)
    <3>1. \A k \in 0 .. m : k = 0 \/ k \in 1 .. m
      OBVIOUS
    <3> QED BY <2>9, <2>10, <3>1
  <2>12. upto = Body(upto)
    BY <2>11
  <2>13. Floor(seq, lane, floor, top) = upto[m]
    BY <1>1, <1>2, <1>3, <1>6, <2>1, <2>3 DEF Floor
  <2> HIDE DEF upto
  <2>14. PICK u : u = upto /\ u = Body(u)
    BY <2>12
  <2> DEFINE S == {k \in 0 .. m : u[k] \in T}
  <2>15. 0 \in S
    BY <2>4, <2>14
  <2>16. ASSUME NEW k \in 1 .. m, k - 1 \in S PROVE k \in S
    <3>1. k \in 0 .. m /\ k # 0
      OBVIOUS
    <3>2. u[k] = Raise(u[k - 1], top + k, lane)
      BY <2>14, <3>1
    <3>3. u[k - 1] \in T
      BY <2>16
    <3>4. u[k] \in T
      BY <2>5, <3>2, <3>3
    <3> QED BY <3>1, <3>4
  <2>17. m \in S
    <3> HIDE DEF S
    <3> QED BY <2>15, <2>16, CountUp
  <2>18. Lifting(u[m], X, n, seq, floor, top)
    BY <2>2, <2>17
  <2>19. top = n => u[m] = base
    BY <2>1, <2>14
  <2>20. top = n => u[m].total = n
    BY <2>3, <2>19
  <2> QED BY <2>13, <2>14, <2>18, <2>20
<1> QED BY <1>5, <1>6

-----------------------------------------------------------------------------
(* The state of a search, by the stage it is at. *)
SearchKinds ==
  /\ set \in Settings /\ pass \in 1 .. Len(Passes) /\ hint \in BOOLEAN
  /\ scope \in {"none", "outer", "request"} /\ saved \in {"none", "outer"}
  /\ lanes.summary \subseteq SummaryIds /\ lanes.fact \subseteq FactIds
  /\ promoted \subseteq Findable
  /\ searchStage \in {"begin", "variant", "semantic", "like", "filter", "fuse", "rank", "floor",
                      "page", "out"}

SearchLists ==
  /\ candidates \in Seq(Findable) /\ IsInjective(candidates) /\ Len(candidates) <= LaneRoom
  /\ pool \in Seq(Findable) /\ IsInjective(pool) /\ Len(pool) <= PoolCap

AtTheStart ==
  searchStage = "begin" =>
    /\ ~hint /\ scope = saved /\ pass = 1
    /\ candidates = <<>> /\ pool = <<>> /\ noted = {} /\ promoted = {}

Once(notes) == \A a, b \in notes : a[1] = b[1] => a[2] = b[2]

NotesAreOf(notes, list) == \A a \in notes : a[1] \in ToSet(list)

(* As long as lanes tell of rows, the rows they told of are candidates. *)
NotesWell ==
  /\ Once(noted)
  /\ pass = 1 /\ searchStage \in {"variant", "semantic", "like"} => NotesAreOf(noted, candidates)

SiftedPool ==
  /\ searchStage = "fuse" => ~VisibleSearch /\ set.fused /\ \A id \in ToSet(pool) : LetThrough(id)
  /\ searchStage \in {"rank", "floor", "page"} => \A id \in ToSet(pool) : LetThrough(id) \/ Joins(id)

LiftedPool ==
  searchStage = "page" =>
    /\ ~VisibleSearch => \A id \in promoted : \E i \in 1 .. Page : pool[i] = id
    /\ VisibleSearch => InRank(pool)

GoodPage(r) ==
  /\ r \in Seq(Findable) /\ IsInjective(r) /\ Len(r) <= PageRoom
  /\ ~set.window => Len(r) <= PageLimit
  /\ \A id \in ToSet(r) : LetThrough(id) \/ Joins(id) \/ (pool = <<>> /\ Seen(id))
  /\ VisibleSearch => /\ InRank(r)
                      /\ \A id \in ToSet(pool) \ ToSet(r) :
                           \A i \in DOMAIN r : ScopeRank[r[i]] >= ScopeRank[id]
  /\ ~VisibleSearch => promoted \subseteq ToSet(r)

EndsWell ==
  searchStage = "out" => ~hint /\ scope = saved /\ (page = FailedPage \/ GoodPage(page))

SearchInv ==
  /\ SearchKinds /\ SearchLists /\ AtTheStart /\ NotesWell /\ SiftedPool /\ LiftedPool /\ EndsWell

LEMMA RoomIsANumber == ASSUME SearchAssumption PROVE LaneRoom \in Nat /\ LaneRoom' \in Nat
BY DEF SearchAssumption, LaneRoom

LEMMA TwoLists ==
  ASSUME NEW S, NEW p \in Seq(S), NEW q \in Seq(S)
  PROVE  p \o q \in Seq(S) /\ Len(p \o q) = Len(p) + Len(q)
OBVIOUS

LEMMA PassesAreSome == ASSUME SearchAssumption, set \in Settings PROVE Len(Passes) \in Nat \ {0}
<1>1. set.subs \in Nat
  BY DEF SearchAssumption
<1>2. PICK Y : Y = {"primary", "original", "question"}
  OBVIOUS
<1>3. PICK a \in Y : a = "primary"
  BY <1>2
<1>4. PICK b \in Y : b = "original"
  BY <1>2
<1>5. PICK c \in Y : c = "question"
  BY <1>2
<1>6. PICK p : p = <<a>>
  OBVIOUS
<1>7. p \in Seq(Y) /\ Len(p) = 1
  BY <1>6
<1>8. PICK o : o = IF set.hyde THEN <<b>> ELSE <<>>
  OBVIOUS
<1>9. o \in Seq(Y) /\ Len(o) \in Nat
  <2>1. <<b>> \in Seq(Y) /\ Len(<<b>>) \in Nat
    OBVIOUS
  <2>2. <<>> \in Seq(Y) /\ Len(<<>>) \in Nat
    OBVIOUS
  <2> QED BY <1>8, <2>1, <2>2
<1>10. PICK q : q = [i \in 1 .. set.subs |-> c]
  OBVIOUS
<1>11. q \in Seq(Y) /\ Len(q) \in Nat
  <2>1. q \in [1 .. set.subs -> Y]
    BY <1>10
  <2> QED BY <1>1, <2>1, FunctionsAreLists
<1>12. Passes = p \o o \o q
  BY <1>3, <1>4, <1>5, <1>6, <1>8, <1>10 DEF Passes
<1>13. p \o o \in Seq(Y) /\ Len(p \o o) = Len(p) + Len(o)
  BY <1>7, <1>9, TwoLists
<1>14. Len(p \o o \o q) = Len(p) + Len(o) + Len(q)
  BY <1>11, <1>13, TwoLists
<1> QED BY <1>7, <1>9, <1>11, <1>12, <1>14

LEMMA NothingListed ==
  /\ <<>> \in Seq(Findable) /\ Len(<<>>) = 0 /\ IsInjective(<<>>) /\ ToSet(<<>>) = {}
BY DEF IsInjective, ToSet

LEMMA SearchStarts == SearchAssumption /\ SearchInit => SearchInv
<1> SUFFICES ASSUME SearchAssumption, SearchInit PROVE SearchInv
  OBVIOUS
<1>1. Len(Passes) \in Nat \ {0} /\ LaneRoom \in Nat
  BY PassesAreSome, RoomIsANumber DEF SearchInit
<1>2. SearchKinds
  <2>1. /\ set \in Settings /\ pass = 1 /\ hint = FALSE /\ scope = saved /\ saved \in {"none", "outer"}
        /\ lanes = NoLanes /\ promoted = {} /\ searchStage = "begin"
    BY DEF SearchInit
  <2>2. pass \in 1 .. Len(Passes)
    BY <1>1, <2>1
  <2>3. lanes.summary = {} /\ lanes.fact = {}
    BY <2>1 DEF NoLanes
  <2> QED BY <2>1, <2>2, <2>3 DEF SearchKinds
<1>3. SearchLists
  BY <1>1, NothingListed DEF SearchLists, SearchInit, SearchAssumption
<1>4. AtTheStart /\ NotesWell /\ SiftedPool /\ LiftedPool /\ EndsWell
  BY DEF AtTheStart, NotesWell, Once, NotesAreOf, SiftedPool, LiftedPool, EndsWell, SearchInit
<1> QED BY <1>2, <1>3, <1>4 DEF SearchInv

(* Whatever stage a search leaves at, what it returns is all that is left to tell. *)
LEMMA LeavesWell ==
  ASSUME SearchAssumption, SearchInv, NEW r, LeaveSearch(r), r = FailedPage \/ GoodPage(r),
         UNCHANGED <<set, pass, candidates, pool, lanes, noted, promoted, saved>>
  PROVE  SearchInv'
<1>0. page' = r /\ searchStage' = "out" /\ hint' = FALSE /\ scope' = saved
  BY DEF LeaveSearch
<1>1. SearchKinds'
  BY <1>0 DEF SearchInv, SearchKinds, Passes
<1>2. SearchLists'
  BY DEF SearchInv, SearchLists, LaneRoom, Passes
<1>3. AtTheStart' /\ NotesWell' /\ SiftedPool' /\ LiftedPool'
  BY <1>0 DEF SearchInv, AtTheStart, NotesWell, Once, SiftedPool, LiftedPool
<1>4. r = FailedPage \/ GoodPage(r)'
  BY DEF GoodPage, VisibleSearch, LetThrough, Joins, Seen, LedToBy, InRank
<1>5. EndsWell'
  BY <1>0, <1>4 DEF EndsWell, FailedPage, GoodPage, VisibleSearch, LetThrough, Joins, Seen, LedToBy, InRank
<1> QED BY <1>1, <1>2, <1>3, <1>5 DEF SearchInv

LEMMA BeginKeeps ==
  ASSUME SearchAssumption, SearchInv, BeginScoped \/ BeginVisible PROVE SearchInv'
<1>0. /\ searchStage = "begin" /\ searchStage' = "variant" /\ hint' = TRUE
      /\ scope' \in {scope, "request"}
      /\ UNCHANGED <<set, pass, candidates, pool, lanes, noted, promoted, saved, page>>
  BY DEF BeginScoped, BeginVisible
<1>1. SearchKinds'
  BY <1>0 DEF SearchInv, SearchKinds, Passes
<1>2. SearchLists'
  BY <1>0 DEF SearchInv, SearchLists, LaneRoom, Passes
<1>3. noted' = {}
  BY <1>0 DEF SearchInv, AtTheStart
<1>4. AtTheStart' /\ NotesWell' /\ SiftedPool' /\ LiftedPool' /\ EndsWell'
  BY <1>0, <1>3 DEF AtTheStart, NotesWell, Once, NotesAreOf, SiftedPool, LiftedPool, EndsWell
<1> QED BY <1>1, <1>2, <1>4 DEF SearchInv

(* The rows a lane tells of are those it adds behind the others. *)
Told(all, old, before, after, source) ==
  all = old \cup {<<after[i], source>> : i \in Len(before) + 1 .. Len(after)}

LEMMA NotesStayOnce ==
  ASSUME NEW X, NEW before \in Seq(X), NEW after \in Seq(X), IsInjective(after),
         Len(before) <= Len(after), \A i \in 1 .. Len(before) : after[i] = before[i],
         NEW source, NEW old, Once(old), NotesAreOf(old, before),
         NEW all, Told(all, old, before, after, source)
  PROVE  Once(all) /\ NotesAreOf(all, after)
<1>1. \A i \in 1 .. Len(after), j \in 1 .. Len(after) : after[i] = after[j] => i = j
  BY DEF IsInjective
<1>2. PICK new : new = {<<after[i], source>> : i \in Len(before) + 1 .. Len(after)}
  OBVIOUS
<1>3. ASSUME NEW a \in new
      PROVE  a[2] = source /\ \E i \in Len(before) + 1 .. Len(after) : a[1] = after[i]
  BY <1>2
<1>4. ASSUME NEW a \in old PROVE \E i \in 1 .. Len(before) : a[1] = after[i]
  <2>1. a[1] \in ToSet(before)
    BY DEF NotesAreOf
  <2>2. PICK i \in DOMAIN before : before[i] = a[1]
    BY <2>1 DEF ToSet
  <2>3. i \in 1 .. Len(before)
    OBVIOUS
  <2> QED BY <2>2, <2>3
<1>5. ASSUME NEW a \in old, NEW b \in new PROVE a[1] # b[1]
  <2>1. PICK i \in 1 .. Len(before) : a[1] = after[i]
    BY <1>4
  <2>2. PICK j \in Len(before) + 1 .. Len(after) : b[1] = after[j]
    BY <1>3
  <2>3. i \in 1 .. Len(after) /\ j \in 1 .. Len(after) /\ i # j
    OBVIOUS
  <2> QED BY <1>1, <2>1, <2>2, <2>3
<1>6. Once(all)
  <2> SUFFICES ASSUME NEW a \in all, NEW b \in all, a[1] = b[1] PROVE a[2] = b[2]
    BY DEF Once
  <2>1. (a \in old \/ a \in new) /\ (b \in old \/ b \in new)
    BY <1>2 DEF Told
  <2>2. CASE a \in old /\ b \in old
    BY <2>2 DEF Once
  <2>3. CASE a \in new /\ b \in new
    BY <1>3, <2>3
  <2>4. CASE (a \in old /\ b \in new) \/ (a \in new /\ b \in old)
    BY <1>5, <2>4
  <2> QED BY <2>1, <2>2, <2>3, <2>4
<1>7. NotesAreOf(all, after)
  <2> SUFFICES ASSUME NEW a \in all PROVE a[1] \in ToSet(after)
    BY DEF NotesAreOf
  <2>1. \E i \in 1 .. Len(after) : a[1] = after[i]
    <3>1. CASE a \in old
      <4>1. PICK i \in 1 .. Len(before) : a[1] = after[i]
        BY <1>4, <3>1
      <4>2. i \in 1 .. Len(after)
        OBVIOUS
      <4> QED BY <4>1, <4>2
    <3>2. CASE a \in new
      <4>1. PICK i \in Len(before) + 1 .. Len(after) : a[1] = after[i]
        BY <1>3, <3>2
      <4>2. i \in 1 .. Len(after)
        OBVIOUS
      <4> QED BY <4>1, <4>2
    <3> QED BY <1>2, <3>1, <3>2 DEF Told
  <2>2. DOMAIN after = 1 .. Len(after)
    OBVIOUS
  <2> QED BY <2>1, <2>2 DEF ToSet
<1> QED BY <1>6, <1>7

(* A lane: what it finds joins the candidates, and the first pass takes note of it. *)
LEMMA LaneKeeps ==
  ASSUME SearchAssumption, SearchInv, searchStage \in {"variant", "semantic"},
         searchStage' \in {"variant", "semantic", "like"},
         NEW found \in Seq(Findable), candidates' = AppendUnique(candidates, found, LaneRoom),
         NEW source, Note(candidates, candidates', source),
         lanes'.summary \subseteq SummaryIds, lanes'.fact \subseteq FactIds,
         UNCHANGED <<set, pass, pool, promoted, hint, scope, saved, page>>
  PROVE  SearchInv'
<1>1. /\ candidates \in Seq(Findable) /\ IsInjective(candidates) /\ Len(candidates) <= LaneRoom
      /\ LaneRoom \in Nat
  BY RoomIsANumber DEF SearchInv, SearchLists
<1>2. PICK after : after = candidates'
  OBVIOUS
<1>3. /\ after \in Seq(Findable) /\ IsInjective(after) /\ Len(after) <= LaneRoom
      /\ Len(candidates) <= Len(after) /\ \A i \in 1 .. Len(candidates) : after[i] = candidates[i]
  BY <1>1, <1>2, UniqueGrows
<1>4. SearchKinds'
  BY DEF SearchInv, SearchKinds, Passes
<1>5. LaneRoom' = LaneRoom
  BY DEF LaneRoom, Passes
<1>6. SearchLists'
  <2>1. pool \in Seq(Findable) /\ IsInjective(pool) /\ Len(pool) <= PoolCap /\ pool' = pool
    BY DEF SearchInv, SearchLists
  <2> QED BY <1>2, <1>3, <1>5, <2>1 DEF SearchLists
<1>7. NotesWell'
  <2>1. CASE pass = 1
    <3>1. PICK all : all = noted'
      OBVIOUS
    <3>2. Told(all, noted, candidates, after, source)
      BY <1>2, <2>1, <3>1 DEF Note, Told
    <3>3. Once(noted) /\ NotesAreOf(noted, candidates)
      BY <2>1 DEF SearchInv, NotesWell
    <3>4. Once(all) /\ NotesAreOf(all, after)
      BY <1>1, <1>3, <3>2, <3>3, NotesStayOnce
    <3> QED BY <1>2, <3>1, <3>4 DEF NotesWell, Once, NotesAreOf
  <2>2. CASE pass # 1
    <3>1. noted' = noted
      BY <2>2 DEF Note
    <3> QED BY <2>2, <3>1 DEF SearchInv, NotesWell, Once
  <2> QED BY <2>1, <2>2
<1>8. AtTheStart' /\ SiftedPool' /\ LiftedPool' /\ EndsWell'
  BY DEF AtTheStart, SiftedPool, LiftedPool, EndsWell
<1> QED BY <1>4, <1>6, <1>7, <1>8 DEF SearchInv

LEMMA VariantKeeps == ASSUME SearchAssumption, SearchInv, Variant PROVE SearchInv'
<1>1. PICK found \in Finds :
        /\ lanes' = IF set.lanes THEN [summary |-> ToSet(InLane(found, SummaryIds)),
                                       fact |-> ToSet(InLane(found, FactIds))]
                    ELSE NoLanes
        /\ candidates' = AppendUnique(candidates, LanesFirst(found), LaneRoom)
        /\ Note(candidates, candidates', "lexical")
  BY DEF Variant
<1>2. /\ searchStage = "variant" /\ searchStage' \in {"variant", "semantic", "like"}
      /\ UNCHANGED <<set, pass, pool, promoted, hint, scope, saved, page>>
  BY DEF Variant, AfterVariant
<1>3. found \in Seq(Findable)
  BY DEF SearchAssumption
<1>4. PICK s : s = InLane(found, SummaryIds)
  OBVIOUS
<1>5. PICK f : f = InLane(found, FactIds)
  OBVIOUS
<1>6. s \in Seq(Findable) /\ ToSet(s) \subseteq SummaryIds
  BY <1>3, <1>4, OnlyKeeps DEF InLane
<1>7. f \in Seq(Findable) /\ ToSet(f) \subseteq FactIds
  BY <1>3, <1>5, OnlyKeeps DEF InLane
<1>8. PICK all : all = LanesFirst(found)
  OBVIOUS
<1>9. all \in Seq(Findable)
  <2>1. all = IF set.lanes THEN s \o f \o found ELSE found
    BY <1>4, <1>5, <1>8 DEF LanesFirst
  <2>2. s \o f \in Seq(Findable)
    BY <1>6, <1>7, TwoLists
  <2>3. s \o f \o found \in Seq(Findable)
    BY <1>3, <2>2, TwoLists
  <2> QED BY <1>3, <2>1, <2>3
<1>10. lanes'.summary \subseteq SummaryIds /\ lanes'.fact \subseteq FactIds
  BY <1>1, <1>4, <1>5, <1>6, <1>7 DEF NoLanes
<1>11. candidates' = AppendUnique(candidates, all, LaneRoom)
  BY <1>1, <1>8
<1> QED BY <1>1, <1>2, <1>9, <1>10, <1>11, LaneKeeps

LEMMA SemanticKeeps == ASSUME SearchAssumption, SearchInv, Semantic PROVE SearchInv'
<1>1. PICK found \in Finds : candidates' = AppendUnique(candidates, found, LaneRoom)
  BY DEF Semantic
<1>2. /\ searchStage = "semantic" /\ searchStage' = "like"
      /\ Note(candidates, candidates', "semantic")
      /\ UNCHANGED <<set, pass, pool, lanes, promoted, hint, scope, saved, page>>
  BY DEF Semantic
<1>3. found \in Seq(Findable)
  BY DEF SearchAssumption
<1>4. lanes'.summary \subseteq SummaryIds /\ lanes'.fact \subseteq FactIds
  BY <1>2 DEF SearchInv, SearchKinds
<1> QED BY <1>1, <1>2, <1>3, <1>4, LaneKeeps

LEMMA LaneFailsKeeps == ASSUME SearchAssumption, SearchInv, LaneFails PROVE SearchInv'
BY LeavesWell DEF LaneFails

LEMMA LikeKeeps == ASSUME SearchAssumption, SearchInv, Like PROVE SearchInv'
<1>1. PICK found \in Finds : pool' = MergedPool(pool, AppendUnique(candidates, found, LaneRoom))
  BY DEF Like
<1>2. /\ searchStage = "like" /\ candidates' = <<>>
      /\ \/ pass < Len(Passes) /\ pass' = pass + 1 /\ searchStage' = "variant"
         \/ ~(pass < Len(Passes)) /\ pass' = pass /\ searchStage' = "filter"
      /\ UNCHANGED <<set, lanes, noted, promoted, hint, scope, saved, page>>
  BY DEF Like
<1>3. found \in Seq(Findable)
  BY DEF SearchAssumption
<1>4. LaneRoom \in Nat /\ LaneRoom' \in Nat /\ PoolCap \in Nat
  BY RoomIsANumber DEF SearchAssumption
<1>5. /\ candidates \in Seq(Findable) /\ IsInjective(candidates) /\ Len(candidates) <= LaneRoom
      /\ pool \in Seq(Findable) /\ IsInjective(pool) /\ Len(pool) <= PoolCap
  BY DEF SearchInv, SearchLists
<1>6. PICK extra : extra = AppendUnique(candidates, found, LaneRoom)
  OBVIOUS
<1>7. extra \in Seq(Findable)
  BY <1>3, <1>4, <1>5, <1>6, UniqueGrows
<1>8. PICK more : more = pool'
  OBVIOUS
<1>9. more = AppendUnique(pool, extra, PoolCap)
  BY <1>1, <1>6, <1>8 DEF MergedPool
<1>10. more \in Seq(Findable) /\ IsInjective(more) /\ Len(more) <= PoolCap
  BY <1>4, <1>5, <1>7, <1>9, UniqueGrows
<1>11. SearchLists'
  BY <1>2, <1>4, <1>8, <1>10, NothingListed DEF SearchLists
<1>12. pass \in 1 .. Len(Passes) /\ set \in Settings
  BY DEF SearchInv, SearchKinds
<1>13. Len(Passes) \in Nat /\ Passes' = Passes
  BY <1>2, <1>12, PassesAreSome DEF Passes
<1>14. pass' \in 1 .. Len(Passes)' /\ pass' \in Nat /\ (searchStage' = "variant" => pass' # 1)
  BY <1>2, <1>12, <1>13
<1>15. SearchKinds'
  BY <1>2, <1>14 DEF SearchInv, SearchKinds
<1>16. NotesWell'
  BY <1>2, <1>14 DEF SearchInv, NotesWell, Once
<1>17. AtTheStart' /\ SiftedPool' /\ LiftedPool' /\ EndsWell'
  BY <1>2 DEF AtTheStart, SiftedPool, LiftedPool, EndsWell
<1> QED BY <1>11, <1>15, <1>16, <1>17 DEF SearchInv

LEMMA FilterKeeps == ASSUME SearchAssumption, SearchInv, Filter PROVE SearchInv'
<1>0. /\ searchStage = "filter" /\ pool' = Only(pool, {id \in Findable : LetThrough(id)})
      /\ searchStage' \in {"fuse", "rank"}
      /\ searchStage' = "fuse" => ~VisibleSearch /\ set.fused
      /\ UNCHANGED <<set, pass, candidates, lanes, noted, promoted, hint, scope, saved, page>>
  BY DEF Filter
<1>1. /\ pool \in Seq(Findable) /\ IsInjective(pool) /\ Len(pool) <= PoolCap /\ PoolCap \in Nat
      /\ candidates \in Seq(Findable) /\ IsInjective(candidates) /\ Len(candidates) <= LaneRoom
  BY DEF SearchInv, SearchLists, SearchAssumption
<1>2. PICK S : S = {id \in Findable : LetThrough(id)}
  OBVIOUS
<1>3. PICK kept : kept = pool' /\ kept = Only(pool, S)
  BY <1>0, <1>2
<1>4. /\ kept \in Seq(Findable) /\ IsInjective(kept) /\ Len(kept) <= Len(pool)
      /\ ToSet(kept) \subseteq S
  BY <1>1, <1>3, OnlyKeeps
<1>5. Len(kept) <= PoolCap
  BY <1>1, <1>4
<1>6. \A id \in ToSet(kept) : LetThrough(id)
  BY <1>2, <1>4
<1>7. \A id \in ToSet(kept) : LetThrough(id)'
  BY <1>0, <1>6 DEF LetThrough, Seen, VisibleSearch
<1>8. SearchKinds'
  BY <1>0 DEF SearchInv, SearchKinds, Passes
<1>9. SearchLists'
  BY <1>0, <1>1, <1>3, <1>4, <1>5 DEF SearchLists, LaneRoom, Passes
<1>10. SiftedPool'
  BY <1>0, <1>3, <1>7 DEF SiftedPool, VisibleSearch, LetThrough, Seen
<1>11. AtTheStart' /\ NotesWell' /\ LiftedPool' /\ EndsWell'
  BY <1>0 DEF SearchInv, AtTheStart, NotesWell, Once, LiftedPool, EndsWell
<1> QED BY <1>8, <1>9, <1>10, <1>11 DEF SearchInv

LEMMA FuseKeeps == ASSUME SearchAssumption, SearchInv, Fuse PROVE SearchInv'
<1>0. /\ searchStage = "fuse" /\ searchStage' = "rank"
      /\ pool' = AppendUnique(pool, LedTo(Bridged, pool), PoolCap)
      /\ UNCHANGED <<set, pass, candidates, lanes, noted, promoted, hint, scope, saved, page>>
  BY DEF Fuse
<1>1. /\ pool \in Seq(Findable) /\ IsInjective(pool) /\ Len(pool) <= PoolCap /\ PoolCap \in Nat
      /\ candidates \in Seq(Findable) /\ IsInjective(candidates) /\ Len(candidates) <= LaneRoom
  BY DEF SearchInv, SearchLists, SearchAssumption
<1>2. PICK led : led = LedTo(Bridged, pool)
  OBVIOUS
<1>3. led \in Seq(Findable) /\ ToSet(led) \subseteq LedToBy(Bridged)
  BY <1>1, <1>2, LedToIsLedToBy
<1>4. PICK more : more = pool' /\ more = AppendUnique(pool, led, PoolCap)
  BY <1>0, <1>2
<1>5. /\ more \in Seq(Findable) /\ IsInjective(more) /\ Len(more) <= PoolCap
      /\ ToSet(more) \subseteq ToSet(pool) \cup ToSet(led)
  BY <1>1, <1>3, <1>4, UniqueGrows
<1>6. ~VisibleSearch /\ set.fused /\ \A id \in ToSet(pool) : LetThrough(id)
  BY <1>0 DEF SearchInv, SiftedPool
<1>7. ASSUME NEW id \in ToSet(more) PROVE (LetThrough(id) \/ Joins(id))'
  <2>1. LetThrough(id) \/ Joins(id)
    BY <1>3, <1>5, <1>6 DEF Joins
  <2> QED BY <1>0, <2>1 DEF LetThrough, Seen, VisibleSearch, Joins, LedToBy
<1>8. SearchKinds'
  BY <1>0 DEF SearchInv, SearchKinds, Passes
<1>9. SearchLists'
  BY <1>0, <1>1, <1>4, <1>5 DEF SearchLists, LaneRoom, Passes
<1>10. SiftedPool'
  BY <1>0, <1>4, <1>7 DEF SiftedPool
<1>11. AtTheStart' /\ NotesWell' /\ LiftedPool' /\ EndsWell'
  BY <1>0 DEF SearchInv, AtTheStart, NotesWell, Once, LiftedPool, EndsWell
<1> QED BY <1>8, <1>9, <1>10, <1>11 DEF SearchInv

LEMMA CompetingAre ==
  ASSUME SearchAssumption, SearchInv, searchStage = "rank"
  PROVE  /\ Competing \in Seq(Findable)
         /\ \A id \in ToSet(Competing) : LetThrough(id) \/ Joins(id)
<1>1. /\ pool \in Seq(Findable) /\ IsInjective(pool) /\ Len(pool) <= PoolCap
      /\ PoolCap \in Nat /\ WideBuffer \in Nat /\ PoolCap <= WideBuffer
  BY DEF SearchInv, SearchLists, SearchAssumption
<1>2. \A id \in ToSet(pool) : LetThrough(id) \/ Joins(id)
  BY DEF SearchInv, SiftedPool
<1>3. CASE set.links /\ Len(pool) > 1
  <2>1. PICK led : led = LedTo(Linked, pool)
    OBVIOUS
  <2>2. led \in Seq(Findable) /\ ToSet(led) \subseteq LedToBy(Linked)
    BY <1>1, <2>1, LedToIsLedToBy
  <2>3. PICK all : all = Competing
    OBVIOUS
  <2>4. all = AppendUnique(pool, led, WideBuffer)
    BY <1>3, <2>1, <2>3 DEF Competing, WithLinked
  <2>5. Len(pool) <= WideBuffer
    BY <1>1
  <2>6. all \in Seq(Findable) /\ ToSet(all) \subseteq ToSet(pool) \cup ToSet(led)
    BY <1>1, <2>2, <2>4, <2>5, UniqueGrows
  <2>7. \A id \in ToSet(all) : LetThrough(id) \/ Joins(id)
    BY <1>2, <1>3, <2>2, <2>6 DEF Joins
  <2> QED BY <2>3, <2>6, <2>7
<1>4. CASE ~(set.links /\ Len(pool) > 1)
  <2>1. Competing = pool
    BY <1>4 DEF Competing
  <2> QED BY <1>1, <1>2, <2>1
<1> QED BY <1>3, <1>4

LEMMA RankKeeps == ASSUME SearchAssumption, SearchInv, Rank PROVE SearchInv'
<1>0. /\ searchStage = "rank" /\ searchStage' = "floor" /\ pool' \in Ranking
      /\ UNCHANGED <<set, pass, candidates, lanes, noted, promoted, hint, scope, saved, page>>
  BY DEF Rank
<1>1. /\ pool \in Seq(Findable) /\ Len(pool) <= PoolCap /\ PoolCap \in Nat
      /\ candidates \in Seq(Findable) /\ IsInjective(candidates) /\ Len(candidates) <= LaneRoom
  BY DEF SearchInv, SearchLists, SearchAssumption
<1>2. PICK n \in Nat : n = Len(pool)
  BY <1>1
<1>3. PICK S : S = ToSet(Competing)
  OBVIOUS
<1>4. S \in SUBSET Findable /\ IsFiniteSet(S) /\ \A id \in S : LetThrough(id) \/ Joins(id)
  <2>1. Competing \in Seq(Findable) /\ \A id \in S : LetThrough(id) \/ Joins(id)
    BY <1>0, <1>3, CompetingAre
  <2>2. S \in SUBSET Findable
    BY <1>3, <2>1 DEF ToSet
  <2>3. IsFiniteSet(Findable)
    BY DEF SearchAssumption
  <2> QED BY <2>1, <2>2, <2>3, FS_Subset
<1>5. PICK r \in SetToSeqs(S) : pool' = FirstRows(r, n)
  BY <1>0, <1>2, <1>3 DEF Ranking
<1>6. r \in Seq(Findable) /\ IsInjective(r) /\ ToSet(r) \subseteq S
  BY <1>4, OrdersAreLists
<1>7. PICK best : best = pool' /\ best = FirstRows(r, n)
  BY <1>5
<1>8. /\ best \in Seq(Findable) /\ IsInjective(best) /\ Len(best) <= n
      /\ ToSet(best) \subseteq ToSet(r)
  <2>1. IsFrontOf(best, Findable, r, n)
    BY <1>6, <1>7, FirstRowsKeep
  <2> QED BY <1>6, <2>1 DEF IsFrontOf
<1>9. Len(best) <= PoolCap
  BY <1>1, <1>2, <1>8
<1>10. ASSUME NEW id \in ToSet(best) PROVE (LetThrough(id) \/ Joins(id))'
  <2>1. LetThrough(id) \/ Joins(id)
    BY <1>4, <1>6, <1>8
  <2> QED BY <1>0, <2>1 DEF LetThrough, Seen, VisibleSearch, Joins, LedToBy
<1>11. SearchKinds'
  BY <1>0 DEF SearchInv, SearchKinds, Passes
<1>12. SearchLists'
  BY <1>0, <1>1, <1>7, <1>8, <1>9 DEF SearchLists, LaneRoom, Passes
<1>13. SiftedPool'
  BY <1>0, <1>7, <1>10 DEF SiftedPool
<1>14. AtTheStart' /\ NotesWell' /\ LiftedPool' /\ EndsWell'
  BY <1>0 DEF SearchInv, AtTheStart, NotesWell, Once, LiftedPool, EndsWell
<1> QED BY <1>11, <1>12, <1>13, <1>14 DEF SearchInv

LEMMA PageIsAPlace ==
  ASSUME SearchAssumption, pool \in Seq(Findable)
  PROVE  /\ Page \in 0 .. Len(pool) /\ Page <= PageLimit /\ Page <= PageRoom
         /\ SummaryFloor \in Nat /\ FactFloor \in Nat
         /\ Page = Len(pool) \/ SummaryFloor + FactFloor <= Page
BY DEF SearchAssumption, Page, MaxPage

(* What the two floors make of a list. *)
BothLifted(first, second, list) ==
  /\ second.seq \in Seq(Findable) /\ IsInjective(second.seq)
  /\ Len(second.seq) = Len(pool) /\ ToSet(second.seq) = ToSet(list)
  /\ first.total \in 0 .. Page
  /\ \A i \in first.total + 1 .. Page :
       first.seq[i] \in Findable /\ \E j \in 1 .. Page : second.seq[j] = first.seq[i]

LEMMA FloorsLift ==
  ASSUME SearchAssumption, pool \in Seq(Findable),
         NEW list \in Seq(Findable), IsInjective(list), Len(list) = Len(pool),
         NEW first, first = Floor(list, lanes.summary, SummaryFloor, Page),
         NEW second, second = Floor(first.seq, lanes.fact, FactFloor, first.total)
  PROVE  BothLifted(first, second, list)
<1>1. PICK n \in Nat : n = Len(pool)
  OBVIOUS
<1>2. list \in [1 .. n -> Findable]
  BY <1>1
<1>3. /\ Page \in 0 .. n /\ SummaryFloor \in Nat /\ FactFloor \in Nat
      /\ Page = n \/ SummaryFloor + FactFloor <= Page
  BY <1>1, PageIsAPlace
<1>4. SummaryFloor <= Page \/ Page = n
  BY <1>3
<1>5. Lifting(first, Findable, n, list, SummaryFloor, Page) /\ (Page = n => first.total = n)
  BY <1>2, <1>3, <1>4, FloorLifts
<1>6. PICK mid \in [1 .. n -> Findable] : mid = first.seq
  BY <1>5 DEF Lifting
<1>7. PICK top \in 0 .. n : top = first.total
  BY <1>3, <1>5 DEF Lifting
<1>8. /\ IsInjective(mid) /\ ToSet(mid) = ToSet(list) /\ top \in 0 .. Page
      /\ Page - top <= SummaryFloor /\ (Page = n => top = n)
  BY <1>5, <1>6, <1>7 DEF Lifting
<1>9. FactFloor <= top \/ top = n
  BY <1>3, <1>8
<1>10. Lifting(second, Findable, n, mid, FactFloor, top)
  BY <1>3, <1>6, <1>7, <1>8, <1>9, FloorLifts
<1>11. /\ second.seq \in [1 .. n -> Findable] /\ IsInjective(second.seq)
       /\ ToSet(second.seq) = ToSet(mid)
  BY <1>10 DEF Lifting
<1>12. second.seq \in Seq(Findable) /\ Len(second.seq) = n
  BY <1>11, FunctionsAreLists
<1>13. ASSUME NEW i \in top + 1 .. Page
       PROVE  mid[i] \in Findable /\ \E j \in 1 .. Page : second.seq[j] = mid[i]
  <2>1. i \in 1 .. n /\ Page \in top .. n
    BY <1>3, <1>8
  <2>2. \A last \in top .. n : \A k \in top + 1 .. last : \E j \in 1 .. last : second.seq[j] = mid[k]
    BY <1>10 DEF Lifting
  <2> QED BY <2>1, <2>2
<1> QED BY <1>1, <1>6, <1>7, <1>8, <1>11, <1>12, <1>13 DEF BothLifted

LEMMA LiftKeeps == ASSUME SearchAssumption, SearchInv, Lift PROVE SearchInv'
<1>0. /\ searchStage = "floor" /\ searchStage' = "page"
      /\ UNCHANGED <<set, pass, candidates, lanes, noted, hint, scope, saved, page>>
  BY DEF Lift
<1>1. /\ pool \in Seq(Findable) /\ IsInjective(pool) /\ Len(pool) <= PoolCap /\ PoolCap \in Nat
      /\ candidates \in Seq(Findable) /\ IsInjective(candidates) /\ Len(candidates) <= LaneRoom
  BY DEF SearchInv, SearchLists, SearchAssumption
<1>2. PICK ordered : ordered = IF VisibleSearch THEN Bucketed(pool) ELSE pool
  OBVIOUS
<1>3. /\ ordered \in Seq(Findable) /\ IsInjective(ordered) /\ Len(ordered) = Len(pool)
      /\ ToSet(ordered) = ToSet(pool) /\ (VisibleSearch => InRank(ordered))
  <2>1. CASE VisibleSearch
    BY <1>1, <1>2, <2>1, BucketsAreInRank
  <2>2. CASE ~VisibleSearch
    BY <1>1, <1>2, <2>2
  <2> QED BY <2>1, <2>2
<1>4. PICK first : first = Floor(ordered, lanes.summary, SummaryFloor, Page)
  OBVIOUS
<1>5. PICK second : second = Floor(first.seq, lanes.fact, FactFloor, first.total)
  OBVIOUS
<1>6. /\ second.seq \in Seq(Findable) /\ IsInjective(second.seq)
      /\ Len(second.seq) = Len(pool) /\ ToSet(second.seq) = ToSet(ordered)
      /\ first.total \in 0 .. Page
      /\ \A i \in first.total + 1 .. Page :
           first.seq[i] \in Findable /\ \E j \in 1 .. Page : second.seq[j] = first.seq[i]
  <2>1. BothLifted(first, second, ordered)
    BY <1>1, <1>3, <1>4, <1>5, FloorsLift
  <2> QED BY <2>1 DEF BothLifted
<1>7. PICK q \in Seq(Findable) : q = second.seq
  BY <1>6
<1>8. PICK new : new = pool'
  OBVIOUS
<1>9. IF set.lanes
      THEN /\ new = IF VisibleSearch THEN Bucketed(q) ELSE q
           /\ promoted' = {first.seq[i] : i \in first.total + 1 .. Page}
      ELSE new = ordered /\ promoted' = {}
  BY <1>2, <1>4, <1>5, <1>7, <1>8 DEF Lift
<1>10. /\ new \in Seq(Findable) /\ IsInjective(new) /\ Len(new) = Len(pool)
       /\ ToSet(new) = ToSet(pool) /\ (VisibleSearch => InRank(new))
  <2>1. CASE set.lanes /\ VisibleSearch
    <3>1. new = Bucketed(q) /\ IsInjective(q)
      BY <1>6, <1>7, <1>9, <2>1
    <3>2. /\ new \in Seq(Findable) /\ IsInjective(new) /\ Len(new) = Len(q)
          /\ ToSet(new) = ToSet(q) /\ InRank(new)
      BY <3>1, BucketsAreInRank
    <3> QED BY <1>3, <1>6, <1>7, <3>2
  <2>2. CASE set.lanes /\ ~VisibleSearch
    BY <1>3, <1>6, <1>7, <1>9, <2>2
  <2>3. CASE ~set.lanes
    BY <1>3, <1>9, <2>3
  <2> QED BY <2>1, <2>2, <2>3
<1>11. /\ promoted' \subseteq Findable
       /\ ~VisibleSearch => \A id \in promoted' : \E j \in 1 .. Page : new[j] = id
  <2>1. CASE set.lanes
    <3> SUFFICES ASSUME NEW id \in promoted'
                 PROVE  id \in Findable /\ (~VisibleSearch => \E j \in 1 .. Page : new[j] = id)
      OBVIOUS
    <3>1. PICK i \in first.total + 1 .. Page : id = first.seq[i]
      BY <1>9, <2>1
    <3>2. id \in Findable /\ \E j \in 1 .. Page : q[j] = id
      BY <1>6, <1>7, <3>1
    <3> QED BY <1>9, <2>1, <3>2
  <2>2. CASE ~set.lanes
    BY <1>9, <2>2
  <2> QED BY <2>1, <2>2
<1>12. Page' = Page
  BY <1>8, <1>10 DEF Page, MaxPage
<1>13. SearchKinds'
  BY <1>0, <1>11 DEF SearchInv, SearchKinds, Passes
<1>14. SearchLists'
  BY <1>0, <1>1, <1>8, <1>10 DEF SearchLists, LaneRoom, Passes
<1>15. SiftedPool'
  <2>1. ASSUME NEW id \in ToSet(new) PROVE (LetThrough(id) \/ Joins(id))'
    <3>1. LetThrough(id) \/ Joins(id)
      BY <1>0, <1>10, <2>1 DEF SearchInv, SiftedPool
    <3> QED BY <1>0, <3>1 DEF LetThrough, Seen, VisibleSearch, Joins, LedToBy
  <2> QED BY <1>0, <1>8, <2>1 DEF SiftedPool
<1>16. LiftedPool'
  <2>1. VisibleSearch' = VisibleSearch
    BY <1>0 DEF VisibleSearch
  <2>2. VisibleSearch => InRank(pool)'
    BY <1>8, <1>10 DEF InRank
  <2>3. ~VisibleSearch => \A id \in promoted' : \E i \in 1 .. Page : pool'[i] = id
    BY <1>8, <1>11
  <2> QED BY <1>12, <2>1, <2>2, <2>3 DEF LiftedPool
<1>17. AtTheStart' /\ NotesWell' /\ EndsWell'
  BY <1>0 DEF SearchInv, AtTheStart, NotesWell, Once, EndsWell
<1> QED BY <1>13, <1>14, <1>15, <1>16, <1>17 DEF SearchInv

LEMMA ReturnKeeps == ASSUME SearchAssumption, SearchInv, ReturnPage PROVE SearchInv'
<1>0. /\ searchStage = "page"
      /\ LeaveSearch(IF set.window /\ ~VisibleSearch THEN Windowed(FirstRows(pool, Page))
                     ELSE FirstRows(pool, Page))
      /\ UNCHANGED <<set, pass, candidates, pool, lanes, noted, promoted, saved>>
  BY DEF ReturnPage
<1>1. pool \in Seq(Findable) /\ IsInjective(pool)
  BY DEF SearchInv, SearchLists
<1>2. Page \in 0 .. Len(pool) /\ Page <= PageLimit /\ Page <= PageRoom /\ PageRoom \in Nat
  BY <1>1, PageIsAPlace DEF SearchAssumption
<1>3. PICK n \in Nat : n = Page
  BY <1>2
<1>4. PICK top : top = FirstRows(pool, n)
  OBVIOUS
<1>5. /\ top \in Seq(Findable) /\ IsInjective(top) /\ Len(top) = n
      /\ \A i \in 1 .. n : top[i] = pool[i]
      /\ ToSet(top) \subseteq ToSet(pool)
  <2>1. IsFrontOf(top, Findable, pool, n)
    BY <1>1, <1>4, FirstRowsKeep
  <2> QED BY <1>1, <1>2, <1>3, <2>1 DEF IsFrontOf
<1>6. \A id \in ToSet(pool) : LetThrough(id) \/ Joins(id)
  BY <1>0 DEF SearchInv, SiftedPool
<1>7. /\ ~VisibleSearch => \A id \in promoted : \E i \in 1 .. n : pool[i] = id
      /\ VisibleSearch => InRank(pool)
  BY <1>0, <1>3 DEF SearchInv, LiftedPool
<1>8. DOMAIN top = 1 .. n
  BY <1>5
<1>9. ~VisibleSearch => promoted \subseteq ToSet(top)
  BY <1>5, <1>7, <1>8 DEF ToSet
<1>10. CASE set.window /\ ~VisibleSearch
  <2>1. PICK led : led = LedTo(Nearby, top)
    OBVIOUS
  <2>2. led \in Seq(Findable) /\ ToSet(led) \subseteq LedToBy(Nearby)
    BY <1>5, <2>1, LedToIsLedToBy
  <2>3. PICK r : r = Windowed(top)
    OBVIOUS
  <2>4. r = AppendUnique(top, led, PageRoom)
    BY <2>1, <2>3 DEF Windowed
  <2>5. Len(top) <= PageRoom
    BY <1>2, <1>3, <1>5
  <2>6. /\ r \in Seq(Findable) /\ IsInjective(r) /\ Len(r) <= PageRoom
        /\ Len(top) <= Len(r) /\ \A i \in 1 .. Len(top) : r[i] = top[i]
        /\ ToSet(r) \subseteq ToSet(top) \cup ToSet(led)
    BY <1>2, <1>5, <2>2, <2>4, <2>5, UniqueGrows
  <2>7. \A id \in ToSet(r) : LetThrough(id) \/ Joins(id)
    BY <1>5, <1>6, <1>10, <2>2, <2>6 DEF Joins
  <2>8. ToSet(top) \subseteq ToSet(r)
    <3> SUFFICES ASSUME NEW i \in 1 .. n PROVE top[i] \in ToSet(r)
      BY <1>8 DEF ToSet
    <3>1. i \in DOMAIN r /\ r[i] = top[i]
      BY <1>5, <2>6
    <3> QED BY <3>1 DEF ToSet
  <2>9. GoodPage(r)
    BY <1>9, <1>10, <2>6, <2>7, <2>8 DEF GoodPage
  <2>10. LeaveSearch(r)
    BY <1>0, <1>3, <1>4, <1>10, <2>3
  <2> QED BY <1>0, <2>9, <2>10, LeavesWell
<1>11. CASE ~(set.window /\ ~VisibleSearch)
  <2>1. Len(top) <= PageRoom /\ Len(top) <= PageLimit
    BY <1>2, <1>3, <1>5
  <2>2. \A id \in ToSet(top) : LetThrough(id) \/ Joins(id)
    BY <1>5, <1>6
  <2>3. ASSUME VisibleSearch
        PROVE  /\ InRank(top)
               /\ \A id \in ToSet(pool) \ ToSet(top) :
                    \A i \in DOMAIN top : ScopeRank[top[i]] >= ScopeRank[id]
    <3>1. \A i, j \in DOMAIN pool : i < j => ScopeRank[pool[i]] >= ScopeRank[pool[j]]
      BY <1>7, <2>3 DEF InRank
    <3>2. \A i \in 1 .. n : i \in DOMAIN pool /\ i \in Int
      BY <1>1, <1>2, <1>3
    <3>3. InRank(top)
      BY <1>5, <1>8, <3>1, <3>2 DEF InRank
    <3>4. ASSUME NEW id \in ToSet(pool) \ ToSet(top), NEW i \in 1 .. n
          PROVE  ScopeRank[top[i]] >= ScopeRank[id]
      <4>1. PICK k \in DOMAIN pool : id = pool[k]
        BY <3>4 DEF ToSet
      <4>2. k \in 1 .. Len(pool)
        BY <1>1
      <4>3. ~(k \in 1 .. n)
        <5>1. ASSUME k \in 1 .. n PROVE FALSE
          <6>1. top[k] = id /\ k \in DOMAIN top
            BY <1>5, <1>8, <4>1, <5>1
          <6> QED BY <3>4, <6>1 DEF ToSet
        <5> QED BY <5>1
      <4>4. i < k
        BY <4>2, <4>3
      <4> QED BY <1>5, <3>1, <3>2, <4>1, <4>4
    <3> QED BY <1>8, <3>3, <3>4
  <2>4. GoodPage(top)
    BY <1>5, <1>9, <2>1, <2>2, <2>3 DEF GoodPage
  <2>5. LeaveSearch(top)
    BY <1>0, <1>3, <1>4, <1>11
  <2> QED BY <1>0, <2>4, <2>5, LeavesWell
<1> QED BY <1>10, <1>11

LEMMA FallbackKeeps == ASSUME SearchAssumption, SearchInv, Fallback PROVE SearchInv'
<1>0. /\ searchStage = "begin"
      /\ UNCHANGED <<set, pass, candidates, pool, lanes, noted, promoted, saved>>
  BY DEF Fallback
<1>1. pool = <<>> /\ promoted = {}
  BY <1>0 DEF SearchInv, AtTheStart
<1>2. /\ PoolCap \in Nat /\ PageLimit \in Nat /\ PageRoom \in Nat
      /\ MaxPage \in Nat /\ MaxPage <= PageLimit /\ MaxPage <= PageRoom
  BY DEF SearchAssumption, MaxPage
<1>3. \A id \in InScope : Seen(id)
  BY DEF InScope
<1>4. PICK none \in Seq(Findable) : none = <<>> /\ Len(none) = 0 /\ IsInjective(none) /\ ToSet(none) = {}
  BY NothingListed
<1>5. ASSUME NEW whole \in Finds, NEW token \in Finds, ~VisibleSearch,
             LeaveSearch(AppendUnique(AppendUnique(<<>>, Only(whole, InScope), MaxPage),
                                      Only(token, InScope), MaxPage))
      PROVE  SearchInv'
  <2>0. whole \in Seq(Findable) /\ token \in Seq(Findable)
    BY DEF SearchAssumption
  <2>1. PICK a \in Seq(Findable) : a = Only(whole, InScope) /\ ToSet(a) \subseteq InScope
    BY <2>0, OnlyKeeps
  <2>2. PICK b \in Seq(Findable) : b = Only(token, InScope) /\ ToSet(b) \subseteq InScope
    BY <2>0, OnlyKeeps
  <2>3. PICK c : c = AppendUnique(none, a, MaxPage)
    OBVIOUS
  <2>4. Len(none) <= MaxPage
    BY <1>2, <1>4
  <2>5. /\ c \in Seq(Findable) /\ IsInjective(c) /\ Len(c) <= MaxPage
        /\ ToSet(c) \subseteq ToSet(none) \cup ToSet(a)
    BY <1>2, <1>4, <2>3, <2>4, UniqueGrows
  <2>6. PICK r : r = AppendUnique(c, b, MaxPage)
    OBVIOUS
  <2>7. /\ r \in Seq(Findable) /\ IsInjective(r) /\ Len(r) <= MaxPage
        /\ ToSet(r) \subseteq ToSet(c) \cup ToSet(b)
    BY <1>2, <2>5, <2>6, UniqueGrows
  <2>8. \A id \in ToSet(r) : Seen(id)
    BY <1>3, <1>4, <2>1, <2>2, <2>5, <2>7
  <2>9. Len(r) <= PageLimit /\ Len(r) <= PageRoom
    BY <1>2, <2>7
  <2>10. GoodPage(r)
    BY <1>1, <1>5, <2>7, <2>8, <2>9 DEF GoodPage
  <2>11. LeaveSearch(r)
    BY <1>4, <1>5, <2>1, <2>2, <2>3, <2>6
  <2> QED BY <1>0, <2>10, <2>11, LeavesWell
<1>6. ASSUME NEW whole \in Finds, NEW token \in Finds, VisibleSearch,
             NEW s \in InBuckets(Only(AppendUnique(AppendUnique(<<>>, whole, PoolCap), token, PoolCap),
                                      InScope)),
             LeaveSearch(FirstRows(s, MaxPage))
      PROVE  SearchInv'
  <2>0. whole \in Seq(Findable) /\ token \in Seq(Findable)
    BY DEF SearchAssumption
  <2>1. PICK c : c = AppendUnique(none, whole, PoolCap)
    OBVIOUS
  <2>2. Len(none) <= PoolCap
    BY <1>2, <1>4
  <2>3. c \in Seq(Findable) /\ IsInjective(c) /\ Len(c) <= PoolCap
    BY <1>2, <1>4, <2>0, <2>1, <2>2, UniqueGrows
  <2>4. PICK d : d = AppendUnique(c, token, PoolCap)
    OBVIOUS
  <2>5. d \in Seq(Findable)
    BY <1>2, <2>0, <2>3, <2>4, UniqueGrows
  <2>6. PICK o \in Seq(Findable) : o = Only(d, InScope) /\ ToSet(o) \subseteq InScope
    BY <2>5, OnlyKeeps
  <2>7. s \in InBuckets(o)
    BY <1>4, <1>6, <2>1, <2>4, <2>6
  <2>8. PICK S : S = ToSet(o)
    OBVIOUS
  <2>9. S \in SUBSET Findable /\ IsFiniteSet(S)
    <3>1. S \in SUBSET Findable
      BY <2>8 DEF ToSet
    <3>2. IsFiniteSet(Findable)
      BY DEF SearchAssumption
    <3> QED BY <3>1, <3>2, FS_Subset
  <2>10. s \in SetToSeqs(S) /\ \A i, j \in DOMAIN s : i < j => ~Nearer(s, j, i)
    BY <2>7, <2>8 DEF InBuckets
  <2>11. s \in Seq(Findable) /\ IsInjective(s) /\ ToSet(s) \subseteq S
    BY <2>9, <2>10, OrdersAreLists
  <2>12. \A i \in DOMAIN s : i \in Int /\ ScopeRank[s[i]] \in Nat
    <3>1. \A i \in DOMAIN s : i \in Int /\ s[i] \in Findable
      BY <2>11
    <3> QED BY <3>1 DEF SearchAssumption
  <2>13. InRank(s)
    BY <2>10, <2>12 DEF Nearer, InRank
  <2>14. PICK r : r = FirstRows(s, MaxPage)
    OBVIOUS
  <2>15. /\ r \in Seq(Findable) /\ IsInjective(r) /\ Len(r) <= MaxPage /\ Len(r) <= Len(s)
         /\ \A i \in 1 .. Len(r) : r[i] = s[i]
         /\ ToSet(r) \subseteq ToSet(s)
    <3>1. IsFrontOf(r, Findable, s, MaxPage)
      BY <1>2, <2>11, <2>14, FirstRowsKeep
    <3> QED BY <2>11, <3>1 DEF IsFrontOf
  <2>16. \A i \in DOMAIN r : i \in DOMAIN s /\ r[i] = s[i]
    BY <2>11, <2>15
  <2>17. InRank(r)
    BY <2>13, <2>16 DEF InRank
  <2>18. \A id \in ToSet(r) : Seen(id)
    BY <1>3, <2>6, <2>8, <2>11, <2>15
  <2>19. Len(r) <= PageLimit /\ Len(r) <= PageRoom
    BY <1>2, <2>15
  <2>20. ToSet(pool) = {}
    BY <1>1, <1>4
  <2>21. GoodPage(r)
    BY <1>1, <1>6, <2>15, <2>17, <2>18, <2>19, <2>20 DEF GoodPage
  <2> QED BY <1>0, <1>6, <2>14, <2>21, LeavesWell
<1>7. CASE LeaveSearch(FailedPage)
  BY <1>0, <1>7, LeavesWell
<1> QED BY <1>5, <1>6, <1>7 DEF Fallback

LEMMA SearchStays ==
  ASSUME SearchInv, UNCHANGED searchVars PROVE SearchInv'
<1>0. UNCHANGED <<set, searchStage, pass, candidates, pool, lanes, noted, promoted, hint, scope,
                  saved, page>>
  BY DEF searchVars
<1>1. SearchKinds' /\ SearchLists'
  BY <1>0 DEF SearchInv, SearchKinds, SearchLists, Passes, LaneRoom
<1>2. AtTheStart' /\ NotesWell'
  BY <1>0 DEF SearchInv, AtTheStart, NotesWell, Once, NotesAreOf
<1>3. SiftedPool'
  BY <1>0 DEF SearchInv, SiftedPool, LetThrough, Seen, VisibleSearch, Joins, LedToBy
<1>4. LiftedPool'
  BY <1>0 DEF SearchInv, LiftedPool, VisibleSearch, Page, MaxPage, InRank
<1>5. EndsWell'
  BY <1>0 DEF SearchInv, EndsWell, FailedPage, GoodPage, VisibleSearch, LetThrough, Joins, Seen, LedToBy, InRank
<1> QED BY <1>1, <1>2, <1>3, <1>4, <1>5 DEF SearchInv

LEMMA SearchIsSound == SearchAssumption /\ SearchInv => SearchSound
<1> SUFFICES ASSUME SearchAssumption, SearchInv PROVE SearchSound
  OBVIOUS
<1>1. SearchTypes
  BY DEF SearchInv, SearchKinds, SearchLists, SearchTypes
<1>2. ContextRestored
  BY DEF SearchInv, AtTheStart, EndsWell, ContextRestored
<1>3. PageFound => GoodPage(page)
  BY DEF SearchInv, EndsWell, PageFound
<1>4. PageFits /\ FiltersHold
  BY <1>3 DEF PageFits, FiltersHold, GoodPage
<1>5. LocalFirst
  BY <1>3 DEF LocalFirst, GoodPage, InRank
<1>6. FirstFloorStays
  BY <1>3 DEF FirstFloorStays, GoodPage
<1>7. NotedOnce
  BY DEF SearchInv, NotesWell, Once, NotedOnce
<1> QED BY <1>1, <1>2, <1>4, <1>5, <1>6, <1>7 DEF SearchSound

(***************************************************************************)
(* However a search ends it leaves the thread's context as it was; its     *)
(* page fits, holds what the filters let through and the nearer scopes     *)
(* first, and keeps what the first lane floor moved up                     *)
(* (memory_find_facts_scoped, memory_find_facts_visible_ex), for any       *)
(* memories, scopes, links, settings, caps and floors that fit the page.   *)
(***************************************************************************)
THEOREM SearchesAreSound == SearchSpec => []SearchSound
<1>1. SearchInit => SearchInv
  BY SearchStarts, SearchAssumption
<1>2. SearchInv /\ [SearchNext]_searchVars => SearchInv'
  <2> SUFFICES ASSUME SearchInv, [SearchNext]_searchVars PROVE SearchInv'
    OBVIOUS
  <2>0. SearchAssumption
    BY SearchAssumption
  <2>1. CASE BeginScoped \/ BeginVisible
    BY <2>0, <2>1, BeginKeeps
  <2>2. CASE Fallback
    BY <2>0, <2>2, FallbackKeeps
  <2>3. CASE Variant
    BY <2>0, <2>3, VariantKeeps
  <2>4. CASE Semantic
    BY <2>0, <2>4, SemanticKeeps
  <2>5. CASE LaneFails
    BY <2>0, <2>5, LaneFailsKeeps
  <2>6. CASE Like
    BY <2>0, <2>6, LikeKeeps
  <2>7. CASE Filter
    BY <2>0, <2>7, FilterKeeps
  <2>8. CASE Fuse
    BY <2>0, <2>8, FuseKeeps
  <2>9. CASE Rank
    BY <2>0, <2>9, RankKeeps
  <2>10. CASE Lift
    BY <2>0, <2>10, LiftKeeps
  <2>11. CASE ReturnPage
    BY <2>0, <2>11, ReturnKeeps
  <2>12. CASE UNCHANGED searchVars
    BY <2>12, SearchStays
  <2> QED BY <2>1, <2>2, <2>3, <2>4, <2>5, <2>6, <2>7, <2>8, <2>9, <2>10, <2>11, <2>12 DEF SearchNext
<1>3. SearchInv => SearchSound
  BY SearchAssumption, SearchIsSound
<1> QED BY <1>1, <1>2, <1>3, PTL DEF SearchSpec
-----------------------------------------------------------------------------
(***************************************************************************)
(* Of the context block: what its sections select, emit and cost.          *)
(***************************************************************************)

(* Candidates whose rows and tokens have a size. *)
Sized(X) == \A c \in X : c.tokens \in Nat /\ c.row.chars \in Nat

LEMMA ListsAgree ==
  ASSUME NEW S, NEW s \in Seq(S), NEW t \in Seq(S), Len(s) = Len(t),
         \A i \in 1 .. Len(s) : s[i] = t[i]
  PROVE  s = t
OBVIOUS

LEMMA OneMore ==
  ASSUME NEW S, NEW n \in Nat, NEW list \in Seq(S), Len(list) = n, NEW x \in S,
         NEW more, more = Append(list, x)
  PROVE  /\ more \in Seq(S) /\ Len(more) = n + 1 /\ more[n + 1] = x
         /\ \A i \in 1 .. n : more[i] = list[i]
OBVIOUS

LEMMA CostGrows ==
  ASSUME NEW X, Sized(X), NEW cs \in Seq(X)
  PROVE  /\ Cost(cs) \in Nat /\ Chars(cs) \in Nat
         /\ \A c \in X : /\ Cost(Append(cs, c)) = Cost(cs) + c.tokens
                         /\ Chars(Append(cs, c)) = Chars(cs) + c.row.chars
<1>1. PICK n \in Nat : n = Len(cs) /\ DOMAIN cs = 1 .. n /\ \A i \in 1 .. n : cs[i] \in X
  OBVIOUS
<1>2. PICK t : t = [i \in 1 .. n |-> cs[i].tokens]
  OBVIOUS
<1>3. PICK l : l = [i \in 1 .. n |-> cs[i].row.chars]
  OBVIOUS
<1>4. t \in Seq(Nat) /\ l \in Seq(Nat) /\ Len(t) = n /\ Len(l) = n
  <2>1. t \in [1 .. n -> Nat] /\ l \in [1 .. n -> Nat]
    BY <1>1, <1>2, <1>3 DEF Sized
  <2> QED BY <2>1, FunctionsAreLists
<1>5. Cost(cs) = Total(t) /\ Chars(cs) = Total(l)
  BY <1>1, <1>2, <1>3 DEF Cost, Chars
<1>6. Cost(cs) \in Nat /\ Chars(cs) \in Nat
  BY <1>4, <1>5, TotalCounts
<1>7. ASSUME NEW c \in X
      PROVE  /\ Cost(Append(cs, c)) = Cost(cs) + c.tokens
             /\ Chars(Append(cs, c)) = Chars(cs) + c.row.chars
  <2>1. PICK more : more = Append(cs, c)
    OBVIOUS
  <2>2. /\ DOMAIN more = 1 .. n + 1 /\ more[n + 1] = c
        /\ \A i \in 1 .. n + 1 : i # n + 1 => i \in 1 .. n /\ more[i] = cs[i]
    BY <1>1, <2>1
  <2>3. c.tokens \in Nat /\ c.row.chars \in Nat
    BY DEF Sized
  <2>4. [i \in DOMAIN more |-> more[i].tokens] = Append(t, c.tokens)
    <3>1. PICK a : a = [i \in DOMAIN more |-> more[i].tokens]
      OBVIOUS
    <3>2. PICK b : b = Append(t, c.tokens)
      OBVIOUS
    <3>3. b \in Seq(Nat) /\ Len(b) = n + 1 /\ b[n + 1] = c.tokens /\ \A i \in 1 .. n : b[i] = t[i]
      BY <1>4, <2>3, <3>2, OneMore
    <3>4. a = [i \in 1 .. n + 1 |-> more[i].tokens]
      BY <2>2, <3>1
    <3>5. \A i \in 1 .. n + 1 : more[i].tokens \in Nat /\ a[i] = b[i]
      BY <1>1, <1>2, <2>2, <2>3, <3>3, <3>4 DEF Sized
    <3>6. a \in [1 .. n + 1 -> Nat]
      BY <3>4, <3>5
    <3>7. a \in Seq(Nat) /\ Len(a) = n + 1
      BY <3>6, FunctionsAreLists
    <3>8. a = b
      BY <3>3, <3>5, <3>7, ListsAgree
    <3> QED BY <3>1, <3>2, <3>8
  <2>5. [i \in DOMAIN more |-> more[i].row.chars] = Append(l, c.row.chars)
    <3>1. PICK a : a = [i \in DOMAIN more |-> more[i].row.chars]
      OBVIOUS
    <3>2. PICK b : b = Append(l, c.row.chars)
      OBVIOUS
    <3>3. b \in Seq(Nat) /\ Len(b) = n + 1 /\ b[n + 1] = c.row.chars /\ \A i \in 1 .. n : b[i] = l[i]
      BY <1>4, <2>3, <3>2, OneMore
    <3>4. a = [i \in 1 .. n + 1 |-> more[i].row.chars]
      BY <2>2, <3>1
    <3>5. \A i \in 1 .. n + 1 : more[i].row.chars \in Nat /\ a[i] = b[i]
      BY <1>1, <1>3, <2>2, <2>3, <3>3, <3>4 DEF Sized
    <3>6. a \in [1 .. n + 1 -> Nat]
      BY <3>4, <3>5
    <3>7. a \in Seq(Nat) /\ Len(a) = n + 1
      BY <3>6, FunctionsAreLists
    <3>8. a = b
      BY <3>3, <3>5, <3>7, ListsAgree
    <3> QED BY <3>1, <3>2, <3>8
  <2>6. Cost(more) = Total(Append(t, c.tokens)) /\ Chars(more) = Total(Append(l, c.row.chars))
    BY <2>4, <2>5 DEF Cost, Chars
  <2> QED BY <1>4, <1>5, <2>1, <2>3, <2>6, TotalGrows
<1> QED BY <1>6, <1>7

LEMMA NothingCosts == Cost(<<>>) = 0 /\ Chars(<<>>) = 0
<1>1. [i \in DOMAIN <<>> |-> <<>>[i].tokens] = <<>> /\ [i \in DOMAIN <<>> |-> <<>>[i].row.chars] = <<>>
  OBVIOUS
<1> QED BY <1>1, TotalOfNothing DEF Cost, Chars

(* Two candidates that a section may show beside each other. *)
Apart(c, d) == c.row.id # d.row.id /\ ~Restates(Text(c.row), Text(d.row))

LEMMA ApartBothWays == ASSUME NEW c, NEW d, Apart(c, d) PROVE Apart(d, c)
<1> DEFINE a == Text(c.row)
           b == Text(d.row)
<1>1. a \cap b = b \cap a /\ a \cup b = b \cup a
  OBVIOUS
<1>2. Restates(a, b) <=> Restates(b, a)
  BY <1>1 DEF Restates
<1> QED BY <1>2 DEF Apart

AllApart(cs) == \A i, j \in DOMAIN cs : i # j => Apart(cs[i], cs[j])

LEMMA OneMoreApart ==
  ASSUME NEW X, NEW cs \in Seq(X), NEW c \in X, AllApart(cs),
         \A i \in DOMAIN cs : Apart(c, cs[i])
  PROVE  AllApart(Append(cs, c))
<1>1. PICK n \in Nat : n = Len(cs) /\ DOMAIN cs = 1 .. n
  OBVIOUS
<1>2. PICK more : more = Append(cs, c)
  OBVIOUS
<1>3. DOMAIN more = 1 .. n + 1 /\ more[n + 1] = c /\ \A i \in 1 .. n : more[i] = cs[i]
  BY <1>1, <1>2
<1>4. \A i \in 1 .. n + 1 : i = n + 1 \/ i \in 1 .. n
  BY <1>1
<1>5. \A i \in 1 .. n : Apart(c, cs[i]) /\ Apart(cs[i], c)
  BY <1>1, ApartBothWays
<1>6. \A i, j \in 1 .. n : i # j => Apart(cs[i], cs[j])
  BY <1>1 DEF AllApart
<1>7. ASSUME NEW i \in 1 .. n + 1, NEW j \in 1 .. n + 1, i # j PROVE Apart(more[i], more[j])
  BY <1>3, <1>4, <1>5, <1>6, <1>7
<1> QED BY <1>2, <1>3, <1>7 DEF AllApart

(* What a section has selected of the first k candidates, up to the number of items. *)
Picked(sel, X, k) ==
  /\ sel \in Seq(X) /\ AllApart(sel)
  /\ \A i \in DOMAIN sel : \E p \in 1 .. k : sel[i] = Open[p]
  /\ \A i \in DOMAIN sel : sel[i].row.id \notin ShownIds
  /\ mode.budget => tokens + Cost(sel) <= TokenBudget

(* The candidates that may be shown, and what has been spent on those before. *)
Offered(X) ==
  /\ Sized(X) /\ Open \in Seq(X)
  /\ \A i, j \in DOMAIN Open : Open[i].row.id = Open[j].row.id => i = j
  /\ tokens \in Nat /\ TokenBudget \in Nat /\ (mode.budget => tokens <= TokenBudget)

LEMMA SelectPicks ==
  ASSUME NEW X, Offered(X), NEW s, NEW k \in 1 .. Len(Open), NEW sel, Picked(sel, X, k - 1)
  PROVE  Picked(Select(sel, Open[k], s), X, k)
<1>1. PICK n \in Nat : n = Len(Open) /\ DOMAIN Open = 1 .. n /\ \A i \in 1 .. n : Open[i] \in X
  BY DEF Offered
<1>2. PICK c \in X : c = Open[k]
  BY <1>1
<1>3. /\ sel \in Seq(X) /\ AllApart(sel)
      /\ \A i \in DOMAIN sel : \E p \in 1 .. k - 1 : sel[i] = Open[p]
      /\ \A i \in DOMAIN sel : sel[i].row.id \notin ShownIds
      /\ mode.budget => tokens + Cost(sel) <= TokenBudget
  BY DEF Picked
<1>4. ASSUME Select(sel, c, s) = sel PROVE Picked(sel, X, k)
  <2>1. \A p \in 1 .. k - 1 : p \in 1 .. k
    BY <1>1
  <2>2. \A i \in DOMAIN sel : \E p \in 1 .. k : sel[i] = Open[p]
    BY <1>3, <2>1
  <2> QED BY <1>3, <2>2 DEF Picked
<1>5. ASSUME Select(sel, c, s) # sel PROVE Picked(Append(sel, c), X, k)
  <2>1. Belongs(c, s) /\ Affordable(c, sel) /\ News(c, sel)
    BY <1>5 DEF Select
  <2>2. PICK m \in Nat : m = Len(sel) /\ DOMAIN sel = 1 .. m
    BY <1>3
  <2>3. PICK more : more = Append(sel, c)
    OBVIOUS
  <2>4. /\ more \in Seq(X) /\ Len(more) = m + 1 /\ more[m + 1] = c
        /\ \A i \in 1 .. m : more[i] = sel[i]
    BY <1>3, <2>2, <2>3, OneMore
  <2>5. DOMAIN more = 1 .. m + 1 /\ \A i \in 1 .. m + 1 : i = m + 1 \/ i \in 1 .. m
    BY <2>2, <2>4
  <2>6. ASSUME NEW i \in DOMAIN sel PROVE Apart(c, sel[i])
    <3>1. PICK p \in 1 .. k - 1 : sel[i] = Open[p]
      BY <1>3
    <3>2. p \in 1 .. n /\ k \in 1 .. n /\ p # k
      BY <1>1
    <3>3. c.row.id # sel[i].row.id
      BY <1>1, <1>2, <3>1, <3>2 DEF Offered
    <3> QED BY <2>1, <3>3 DEF Apart, News
  <2>7. AllApart(more)
    BY <1>3, <2>3, <2>6, OneMoreApart
  <2>8. \A i \in 1 .. m + 1 : \E p \in 1 .. k : more[i] = Open[p]
    <3>1. k \in 1 .. k /\ \A p \in 1 .. k - 1 : p \in 1 .. k
      BY <1>1
    <3> QED BY <1>2, <1>3, <2>2, <2>4, <2>5, <3>1
  <2>9. \A i \in 1 .. m + 1 : more[i].row.id \notin ShownIds
    BY <1>3, <2>1, <2>2, <2>4, <2>5 DEF Belongs, Consumed
  <2>10. mode.budget => tokens + Cost(more) <= TokenBudget
    <3> SUFFICES ASSUME mode.budget PROVE tokens + Cost(more) <= TokenBudget
      OBVIOUS
    <3>1. tokens + Cost(sel) + c.tokens <= TokenBudget
      BY <2>1 DEF Affordable
    <3>2. Cost(more) = Cost(sel) + c.tokens /\ Cost(sel) \in Nat
      BY <1>3, <2>3, CostGrows DEF Offered
    <3>3. c.tokens \in Nat /\ tokens \in Nat /\ TokenBudget \in Nat
      BY DEF Offered, Sized
    <3> QED BY <3>1, <3>2, <3>3
  <2> QED BY <2>3, <2>4, <2>5, <2>7, <2>8, <2>9, <2>10 DEF Picked
<1>6. Select(sel, c, s) = sel \/ Select(sel, c, s) = Append(sel, c)
  BY DEF Select
<1> QED BY <1>2, <1>4, <1>5, <1>6

LEMMA SelectedIsPicked ==
  ASSUME NEW X, Offered(X), NEW s
  PROVE  Picked(Selected(s), X, Len(Open))
<1>1. PICK vis : vis = Open
  OBVIOUS
<1>2. PICK n \in Nat : n = Len(vis) /\ \A i \in 1 .. n : vis[i] \in X
  BY <1>1 DEF Offered
<1>3. PICK T : T = Seq(X)
  OBVIOUS
<1>4. PICK step : step = [p \in T \X (1 .. n) |-> Select(p[1], vis[p[2]], s)]
  OBVIOUS
<1>5. step \in [T \X (1 .. n) -> T]
  <2>1. ASSUME NEW sel \in T, NEW i \in 1 .. n PROVE Select(sel, vis[i], s) \in T
    BY <1>2, <1>3 DEF Select
  <2> QED BY <1>4, <2>1
<1>6. PICK none : none = <<>>
  OBVIOUS
<1>7. PICK h : Walked(h, T, n, none, step)
  <2>1. none \in T
    BY <1>3, <1>6
  <2> QED BY <1>5, <2>1, WalkRuns
<1>8. h \in [0 .. n -> T] /\ h[0] = <<>> /\ \A k \in 1 .. n : h[k] = Select(h[k - 1], vis[k], s)
  <2>1. h \in [0 .. n -> T] /\ h[0] = <<>> /\ \A k \in 1 .. n : h[k] = step[<<h[k - 1], k>>]
    BY <1>6, <1>7 DEF Walked
  <2>2. ASSUME NEW k \in 1 .. n PROVE h[k] = Select(h[k - 1], vis[k], s)
    <3>1. k - 1 \in 0 .. n
      OBVIOUS
    <3>2. <<h[k - 1], k>> \in T \X (1 .. n)
      BY <2>1, <3>1
    <3> QED BY <1>4, <2>1, <3>2
  <2> QED BY <2>1, <2>2
<1> DEFINE Body(g) == [k \in 0 .. n |-> IF k = 0 THEN <<>> ELSE Select(g[k - 1], vis[k], s)]
           upto == CHOOSE g : g = Body(g)
<1>9. h = Body(h)
  <2>1. \A k \in 0 .. n : k = 0 \/ k \in 1 .. n
    OBVIOUS
  <2> QED BY <1>8, <2>1
<1>10. upto = Body(upto)
  BY <1>9
<1>11. Selected(s) = upto[n]
  BY <1>1, <1>2 DEF Selected
<1> HIDE DEF upto
<1>12. PICK u : u = upto /\ u = Body(u)
  BY <1>10
<1> DEFINE S == {k \in 0 .. n : Picked(u[k], X, k)}
<1>13. 0 \in S
  <2>1. u[0] = <<>>
    BY <1>12
  <2>2. \A i \in DOMAIN <<>> : FALSE
    OBVIOUS
  <2>3. <<>> \in Seq(X) /\ AllApart(<<>>)
    BY <2>2 DEF AllApart
  <2>4. mode.budget => tokens + Cost(<<>>) <= TokenBudget
    BY NothingCosts DEF Offered
  <2>5. Picked(<<>>, X, 0)
    BY <2>2, <2>3, <2>4 DEF Picked
  <2> QED BY <2>1, <2>5
<1>14. ASSUME NEW k \in 1 .. n, k - 1 \in S PROVE k \in S
  <2>1. k \in 0 .. n /\ k # 0
    OBVIOUS
  <2>2. u[k] = Select(u[k - 1], vis[k], s)
    BY <1>12, <2>1
  <2>3. Picked(u[k - 1], X, k - 1)
    BY <1>14
  <2>4. PICK sel : sel = u[k - 1]
    OBVIOUS
  <2>5. Picked(Select(sel, Open[k], s), X, k)
    BY <1>1, <1>2, <2>3, <2>4, SelectPicks
  <2> QED BY <1>1, <2>1, <2>2, <2>4, <2>5
<1>15. n \in S
  <2>1. 0 .. n \subseteq S
    <3> HIDE DEF S
    <3> QED BY <1>13, <1>14, CountUp
  <2> HIDE DEF S
  <2> QED BY <2>1
<1> QED BY <1>1, <1>2, <1>11, <1>12, <1>15

(* What the selected cost up to each of them. *)
Costing(g, sel) ==
  /\ g \in [0 .. Len(sel) -> Nat] /\ Cost(sel) = g[Len(sel)]
  /\ \A j \in 1 .. Len(sel) : g[j] = g[j - 1] + sel[j].tokens

LEMMA CostAddsUp ==
  ASSUME NEW X, Sized(X), NEW sel \in Seq(X)
  PROVE  \E g : Costing(g, sel)
<1>1. PICK n \in Nat : n = Len(sel) /\ DOMAIN sel = 1 .. n /\ \A i \in 1 .. n : sel[i] \in X
  OBVIOUS
<1>2. PICK t : t = [i \in 1 .. n |-> sel[i].tokens]
  OBVIOUS
<1>3. t \in Seq(Nat) /\ Len(t) = n
  <2>1. t \in [1 .. n -> Nat]
    BY <1>1, <1>2 DEF Sized
  <2> QED BY <2>1, FunctionsAreLists
<1>4. PICK g : Sums(g, t, n) /\ Total(t) = g[n]
  BY <1>3, TotalWalks
<1>5. Cost(sel) = g[n]
  BY <1>1, <1>2, <1>4 DEF Cost
<1> QED BY <1>1, <1>2, <1>4, <1>5 DEF Costing, Sums

(* What of the last k selected is shown. *)
Laid(out, X, sel, g, k, max) ==
  /\ out \in Seq(X) /\ AllApart(out) /\ Chars(out) <= max
  /\ \A i \in DOMAIN out : \E p \in Len(sel) - k + 1 .. Len(sel) : out[i] = sel[p]
  /\ Cost(out) + g[Len(sel) - k] <= Cost(sel)

LEMMA EmitLays ==
  ASSUME NEW X, Sized(X), NEW sel \in Seq(X), AllApart(sel), NEW g, Costing(g, sel),
         NEW max \in Nat, NEW k \in 1 .. Len(sel), NEW out, Laid(out, X, sel, g, k - 1, max)
  PROVE  Laid(Emit(out, sel[Len(sel) - k + 1], max), X, sel, g, k, max)
<1>1. PICK n \in Nat : n = Len(sel) /\ DOMAIN sel = 1 .. n /\ \A i \in 1 .. n : sel[i] \in X
  OBVIOUS
<1>2. PICK q \in 1 .. n : q = n - k + 1 /\ n - k = q - 1 /\ n - (k - 1) = q
  BY <1>1
<1>3. PICK c \in X : c = sel[q]
  BY <1>1
<1>4. /\ out \in Seq(X) /\ AllApart(out) /\ Chars(out) <= max
      /\ \A i \in DOMAIN out : \E p \in q + 1 .. n : out[i] = sel[p]
      /\ Cost(out) + g[q] <= Cost(sel)
  BY <1>1, <1>2 DEF Laid
<1>5. /\ g[q] = g[q - 1] + c.tokens /\ g[q] \in Nat /\ g[q - 1] \in Nat /\ c.tokens \in Nat
      /\ Cost(out) \in Nat /\ Cost(sel) \in Nat
  <2>1. q \in 0 .. n /\ q - 1 \in 0 .. n
    BY <1>1
  <2>2. g \in [0 .. n -> Nat] /\ \A j \in 1 .. n : g[j] = g[j - 1] + sel[j].tokens
    BY <1>1 DEF Costing
  <2>3. Cost(out) \in Nat /\ Cost(sel) \in Nat
    BY <1>4, CostGrows
  <2> QED BY <1>3, <2>1, <2>2, <2>3 DEF Sized
<1>6. ASSUME Emit(out, c, max) = out PROVE Laid(out, X, sel, g, k, max)
  <2>1. \A p \in q + 1 .. n : p \in q .. n
    BY <1>1
  <2>2. \A i \in DOMAIN out : \E p \in q .. n : out[i] = sel[p]
    BY <1>4, <2>1
  <2>3. Cost(out) + g[q - 1] <= Cost(sel)
    BY <1>4, <1>5
  <2> QED BY <1>1, <1>2, <1>4, <2>2, <2>3 DEF Laid
<1>7. ASSUME Emit(out, c, max) # out PROVE Laid(Append(out, c), X, sel, g, k, max)
  <2>1. Chars(out) + c.row.chars <= max
    BY <1>7 DEF Emit
  <2>2. PICK m \in Nat : m = Len(out) /\ DOMAIN out = 1 .. m
    BY <1>4
  <2>3. PICK more : more = Append(out, c)
    OBVIOUS
  <2>4. /\ more \in Seq(X) /\ Len(more) = m + 1 /\ more[m + 1] = c
        /\ \A i \in 1 .. m : more[i] = out[i]
    BY <1>4, <2>2, <2>3, OneMore
  <2>5. DOMAIN more = 1 .. m + 1 /\ \A i \in 1 .. m + 1 : i = m + 1 \/ i \in 1 .. m
    BY <2>2, <2>4
  <2>6. ASSUME NEW i \in DOMAIN out PROVE Apart(c, out[i])
    <3>1. PICK p \in q + 1 .. n : out[i] = sel[p]
      BY <1>4
    <3>2. p \in 1 .. n /\ q # p
      BY <1>1, <1>2
    <3> QED BY <1>1, <1>3, <3>1, <3>2 DEF AllApart
  <2>7. AllApart(more)
    BY <1>4, <2>3, <2>6, OneMoreApart
  <2>8. \A i \in 1 .. m + 1 : \E p \in q .. n : more[i] = sel[p]
    <3>1. q \in q .. n /\ \A p \in q + 1 .. n : p \in q .. n
      BY <1>1
    <3> QED BY <1>3, <1>4, <2>2, <2>4, <2>5, <3>1
  <2>9. Cost(more) = Cost(out) + c.tokens /\ Chars(more) = Chars(out) + c.row.chars
    BY <1>4, <2>3, CostGrows
  <2>10. Cost(more) + g[q - 1] <= Cost(sel)
    BY <1>4, <1>5, <2>9
  <2> QED BY <1>1, <1>2, <2>1, <2>3, <2>4, <2>5, <2>7, <2>8, <2>9, <2>10 DEF Laid
<1>8. Emit(out, c, max) = out \/ Emit(out, c, max) = Append(out, c)
  BY DEF Emit
<1> QED BY <1>1, <1>2, <1>3, <1>6, <1>7, <1>8

(* What of a selection is shown. *)
LEMMA EmittedIsLaid ==
  ASSUME NEW X, Sized(X), NEW sel \in Seq(X), AllApart(sel), NEW max \in Nat
  PROVE  LET out == Emitted(sel, max) IN
         /\ out \in Seq(X) /\ AllApart(out) /\ Chars(out) <= max
         /\ \A i \in DOMAIN out : \E p \in DOMAIN sel : out[i] = sel[p]
         /\ Cost(out) <= Cost(sel)
<1>1. PICK n \in Nat : n = Len(sel) /\ DOMAIN sel = 1 .. n /\ \A i \in 1 .. n : sel[i] \in X
  OBVIOUS
<1>2. PICK T : T = Seq(X)
  OBVIOUS
<1>3. PICK g : Costing(g, sel)
  BY CostAddsUp
<1>4. PICK step : step = [p \in T \X (1 .. n) |-> Emit(p[1], sel[n - p[2] + 1], max)]
  OBVIOUS
<1>5. step \in [T \X (1 .. n) -> T]
  <2>1. ASSUME NEW o \in T, NEW i \in 1 .. n PROVE Emit(o, sel[n - i + 1], max) \in T
    <3>1. n - i + 1 \in 1 .. n
      BY <1>1
    <3> QED BY <1>1, <1>2, <3>1 DEF Emit
  <2> QED BY <1>4, <2>1
<1>6. PICK none : none = <<>>
  OBVIOUS
<1>7. PICK h : Walked(h, T, n, none, step)
  <2>1. none \in T
    BY <1>2, <1>6
  <2> QED BY <1>5, <2>1, WalkRuns
<1>8. h \in [0 .. n -> T] /\ h[0] = <<>> /\ \A k \in 1 .. n : h[k] = Emit(h[k - 1], sel[n - k + 1], max)
  <2>1. h \in [0 .. n -> T] /\ h[0] = <<>> /\ \A k \in 1 .. n : h[k] = step[<<h[k - 1], k>>]
    BY <1>6, <1>7 DEF Walked
  <2>2. ASSUME NEW k \in 1 .. n PROVE h[k] = Emit(h[k - 1], sel[n - k + 1], max)
    <3>1. k - 1 \in 0 .. n
      OBVIOUS
    <3>2. <<h[k - 1], k>> \in T \X (1 .. n)
      BY <2>1, <3>1
    <3> QED BY <1>4, <2>1, <3>2
  <2> QED BY <2>1, <2>2
<1> DEFINE Body(f) == [k \in 0 .. n |-> IF k = 0 THEN <<>> ELSE Emit(f[k - 1], sel[n - k + 1], max)]
           upto == CHOOSE f : f = Body(f)
<1>9. h = Body(h)
  <2>1. \A k \in 0 .. n : k = 0 \/ k \in 1 .. n
    OBVIOUS
  <2> QED BY <1>8, <2>1
<1>10. upto = Body(upto)
  BY <1>9
<1>11. Emitted(sel, max) = upto[n]
  BY <1>1 DEF Emitted
<1> HIDE DEF upto
<1>12. PICK u : u = upto /\ u = Body(u)
  BY <1>10
<1> DEFINE S == {k \in 0 .. n : Laid(u[k], X, sel, g, k, max)}
<1>13. 0 \in S
  <2>1. u[0] = <<>>
    BY <1>12
  <2>2. \A i \in DOMAIN <<>> : FALSE
    OBVIOUS
  <2>3. <<>> \in Seq(X) /\ AllApart(<<>>)
    BY <2>2 DEF AllApart
  <2>4. Cost(<<>>) + g[n - 0] <= Cost(sel) /\ Chars(<<>>) <= max
    <3>1. g[n] \in Nat /\ Cost(sel) = g[n] /\ n - 0 = n
      BY <1>1, <1>3 DEF Costing
    <3> QED BY <3>1, NothingCosts
  <2>5. Laid(<<>>, X, sel, g, 0, max)
    BY <1>1, <2>2, <2>3, <2>4 DEF Laid
  <2> QED BY <2>1, <2>5
<1>14. ASSUME NEW k \in 1 .. n, k - 1 \in S PROVE k \in S
  <2>1. k \in 0 .. n /\ k # 0
    OBVIOUS
  <2>2. u[k] = Emit(u[k - 1], sel[n - k + 1], max)
    BY <1>12, <2>1
  <2>3. Laid(u[k - 1], X, sel, g, k - 1, max)
    BY <1>14
  <2>4. PICK o : o = u[k - 1]
    OBVIOUS
  <2>5. Laid(Emit(o, sel[n - k + 1], max), X, sel, g, k, max)
    BY <1>1, <1>3, <2>3, <2>4, EmitLays
  <2> QED BY <2>1, <2>2, <2>4, <2>5
<1>15. n \in S
  <2>1. 0 .. n \subseteq S
    <3> HIDE DEF S
    <3> QED BY <1>13, <1>14, CountUp
  <2> HIDE DEF S
  <2> QED BY <2>1
<1>16. PICK out : out = Emitted(sel, max) /\ Laid(out, X, sel, g, n, max)
  BY <1>11, <1>12, <1>15
<1>17. /\ out \in Seq(X) /\ AllApart(out) /\ Chars(out) <= max
       /\ \A i \in DOMAIN out : \E p \in 1 .. n : out[i] = sel[p]
       /\ Cost(out) + g[0] <= Cost(sel)
  <2>1. n - n + 1 = 1 /\ n - n = 0
    OBVIOUS
  <2> QED BY <1>1, <1>16, <2>1 DEF Laid
<1>18. Cost(out) <= Cost(sel)
  <2>1. g[0] \in Nat
    BY <1>1, <1>3 DEF Costing
  <2>2. Cost(out) \in Nat /\ Cost(sel) \in Nat
    BY <1>17, CostGrows
  <2> QED BY <1>17, <2>1, <2>2
<1> QED BY <1>1, <1>16, <1>17, <1>18

LEMMA ImageCounts ==
  ASSUME NEW S, IsFiniteSet(S), NEW f, DOMAIN f = S, NEW T, T = {f[x] : x \in S}
  PROVE  IsFiniteSet(T) /\ Cardinality(T) \in Nat /\ Cardinality(T) <= Cardinality(S)
<1>1. PICK g : g = [x \in S |-> f[x]]
  OBVIOUS
<1>2. g \in Surjection(S, T)
  BY <1>1 DEF Surjection
<1> QED BY <1>2, FS_Surjection, FS_CardinalityType

(* A pool of candidates: of sized rows, no row twice, no more than fit. *)
Pooled(cs) ==
  /\ \E X : Sized(X) /\ cs \in Seq(X)
  /\ \A i, j \in DOMAIN cs : cs[i].row.id = cs[j].row.id => i = j
  /\ Len(cs) <= MaxCandidates

(* A ranking of candidates no two of which have the same id is a pool. *)
LEMMA RankedIsPooled ==
  ASSUME NEW group, Sized(group), IsFiniteSet(group), Cardinality(group) <= MaxCandidates,
         \A c, d \in group : c.row.id = d.row.id => c = d,
         NEW cs \in Ranked(group)
  PROVE  Pooled(cs)
<1>1. cs \in SetToSeqs(group)
  BY DEF Ranked
<1>2. cs \in Seq(group) /\ IsInjective(cs) /\ Len(cs) = Cardinality(group)
  <2>1. group \in SUBSET group
    OBVIOUS
  <2> QED BY <1>1, <2>1, OrdersAreLists
<1>3. \A i \in DOMAIN cs : cs[i] \in group
  BY <1>2
<1>4. \A i, j \in DOMAIN cs : cs[i] = cs[j] => i = j
  BY <1>2 DEF IsInjective
<1>5. \A i, j \in DOMAIN cs : cs[i].row.id = cs[j].row.id => i = j
  BY <1>3, <1>4
<1> QED BY <1>2, <1>5 DEF Pooled

LEMMA CandidatesAreSized ==
  ASSUME NEW r, r.chars \in Nat, NEW score
  PROVE  /\ Candidate(r, score).row = r
         /\ Candidate(r, score).tokens \in Nat
<1>1. PICK n \in Nat : n = r.chars
  OBVIOUS
<1>2. n \div 4 \in Nat
  BY Z3
<1> QED BY <1>1, <1>2 DEF Candidate

(* The rows the first query lists. *)
LEMMA LoadPools ==
  ASSUME AssemblyAssumption, NEW rows \in SUBSET Primary, Cardinality(rows) <= MaxCandidates,
         NEW cs \in Ranked({Candidate(r, Score(r)) : r \in rows})
  PROVE  Pooled(cs)
<1>1. PICK group : group = {Candidate(r, Score(r)) : r \in rows}
  OBVIOUS
<1>2. PICK f : f = [r \in rows |-> Candidate(r, Score(r))]
  OBVIOUS
<1>3. group = {f[r] : r \in rows}
  BY <1>1, <1>2
<1>4. IsFiniteSet(rows) /\ Cardinality(rows) \in Nat
  BY FS_Subset, FS_CardinalityType DEF AssemblyAssumption
<1>5. IsFiniteSet(group) /\ Cardinality(group) \in Nat /\ Cardinality(group) <= Cardinality(rows)
  BY <1>2, <1>3, <1>4, ImageCounts
<1>6. Cardinality(group) <= MaxCandidates
  BY <1>4, <1>5 DEF AssemblyAssumption
<1>7. ASSUME NEW r \in rows PROVE f[r].row = r /\ f[r].tokens \in Nat /\ r.chars \in Nat
  <2>1. r \in Primary /\ r.chars \in Nat
    BY DEF AssemblyAssumption
  <2> QED BY <1>2, <2>1, CandidatesAreSized
<1>8. Sized(group)
  BY <1>3, <1>7 DEF Sized
<1>9. \A c, d \in group : c.row.id = d.row.id => c = d
  <2>1. \A r, q \in rows : r.id = q.id => r = q
    BY DEF AssemblyAssumption
  <2> QED BY <1>3, <1>7, <2>1
<1> QED BY <1>1, <1>5, <1>6, <1>8, <1>9, RankedIsPooled

(* Those the fallback adds. *)
LEMMA WidenPools ==
  ASSUME AssemblyAssumption, Pooled(cands), NEW more \in SUBSET Widened,
         Cardinality(more) = Least(MaxCandidates, Cardinality(Widened)),
         NEW cs \in Ranked(more)
  PROVE  Pooled(cs)
<1>1. PICK X : Sized(X) /\ cands \in Seq(X)
  BY DEF Pooled
<1>2. PICK n \in Nat : n = Len(cands) /\ DOMAIN cands = 1 .. n /\ \A i \in 1 .. n : cands[i] \in X
  BY <1>1
<1>3. PICK new : new = {f \in Spare : \A i \in DOMAIN cands : cands[i].row.id # f.id}
  OBVIOUS
<1>4. PICK f : f = [r \in new |-> Candidate(r, FallbackScore(r))]
  OBVIOUS
<1>5. PICK old : old = {cands[i] : i \in 1 .. n}
  OBVIOUS
<1>6. PICK add : add = {f[r] : r \in new}
  OBVIOUS
<1>7. Widened = old \cup add
  <2>1. ToSet(cands) = old
    BY <1>2, <1>5 DEF ToSet
  <2>2. add = {Candidate(r, FallbackScore(r)) : r \in new}
    BY <1>4, <1>6
  <2> QED BY <1>3, <2>1, <2>2 DEF Widened
<1>8. IsFiniteSet(old)
  BY <1>2, <1>5, UptoCounts, ImageCounts
<1>9. IsFiniteSet(add)
  <2>1. IsFiniteSet(new)
    BY <1>3, FS_Subset DEF AssemblyAssumption
  <2> QED BY <1>4, <1>6, <2>1, ImageCounts
<1>10. IsFiniteSet(Widened) /\ Cardinality(Widened) \in Nat
  BY <1>7, <1>8, <1>9, FS_Union, FS_CardinalityType
<1>11. IsFiniteSet(more) /\ Cardinality(more) <= MaxCandidates
  <2>1. IsFiniteSet(more)
    BY <1>10, FS_Subset
  <2>2. MaxCandidates \in Nat
    BY DEF AssemblyAssumption
  <2> QED BY <1>10, <2>1, <2>2 DEF Least
<1>12. ASSUME NEW r \in new
       PROVE  /\ f[r].row = r /\ f[r].tokens \in Nat /\ r.chars \in Nat /\ r \in Spare
              /\ \A i \in 1 .. n : cands[i].row.id # r.id
  <2>1. r \in Spare /\ r.chars \in Nat /\ \A i \in 1 .. n : cands[i].row.id # r.id
    BY <1>2, <1>3 DEF AssemblyAssumption
  <2> QED BY <1>4, <2>1, CandidatesAreSized
<1>13. Sized(old) /\ Sized(add)
  BY <1>1, <1>2, <1>5, <1>6, <1>12 DEF Sized
<1>14. Sized(more)
  BY <1>7, <1>13 DEF Sized
<1>15. \A c, d \in more : c.row.id = d.row.id => c = d
  <2>1. ASSUME NEW c \in old, NEW d \in old, c.row.id = d.row.id PROVE c = d
    BY <1>2, <1>5, <2>1 DEF Pooled
  <2>2. ASSUME NEW c \in add, NEW d \in add, c.row.id = d.row.id PROVE c = d
    <3>1. \A r, q \in Spare : r.id = q.id => r = q
      BY DEF AssemblyAssumption
    <3> QED BY <1>6, <1>12, <2>2, <3>1
  <2>3. ASSUME NEW c \in old, NEW d \in add PROVE c.row.id # d.row.id
    BY <1>5, <1>6, <1>12
  <2> QED BY <1>7, <2>1, <2>2, <2>3
<1> QED BY <1>11, <1>14, <1>15, RankedIsPooled

-----------------------------------------------------------------------------
(* The diagnostic of a pool. *)
Verdicts == [tokens : Nat, selected : BOOLEAN, of : Nat]

LEMMA TotalOfOneMore ==
  ASSUME NEW n \in Nat, NEW t \in Seq(Nat), Len(t) = n, NEW a \in Seq(Nat), Len(a) = n + 1,
         \A i \in 1 .. n : a[i] = t[i]
  PROVE  Total(a) = Total(t) + a[n + 1]
<1>1. PICK x \in Nat : x = a[n + 1]
  OBVIOUS
<1>2. PICK b : b = Append(t, x)
  OBVIOUS
<1>3. b \in Seq(Nat) /\ Len(b) = n + 1 /\ b[n + 1] = x /\ \A i \in 1 .. n : b[i] = t[i]
  BY <1>2, OneMore
<1>4. \A i \in 1 .. n + 1 : i = n + 1 \/ i \in 1 .. n
  OBVIOUS
<1>5. \A i \in 1 .. Len(a) : a[i] = b[i]
  BY <1>1, <1>3, <1>4
<1>6. a = b
  BY <1>3, <1>5, ListsAgree
<1> QED BY <1>1, <1>2, <1>6, TotalGrows

LEMMA TokensGrow ==
  ASSUME NEW entries \in Seq(Verdicts)
  PROVE  /\ TokensOf(entries) \in Nat
         /\ \A e \in Verdicts : TokensOf(Append(entries, e)) =
              TokensOf(entries) + IF e.selected THEN e.tokens ELSE 0
<1>1. PICK n \in Nat : n = Len(entries) /\ DOMAIN entries = 1 .. n
                       /\ \A i \in 1 .. n : entries[i] \in Verdicts
  OBVIOUS
<1>2. PICK t : t = [i \in 1 .. n |-> IF entries[i].selected THEN entries[i].tokens ELSE 0]
  OBVIOUS
<1>3. t \in Seq(Nat) /\ Len(t) = n
  <2>1. t \in [1 .. n -> Nat]
    BY <1>1, <1>2 DEF Verdicts
  <2> QED BY <2>1, FunctionsAreLists
<1>4. TokensOf(entries) = Total(t)
  BY <1>1, <1>2 DEF TokensOf
<1>5. ASSUME NEW e \in Verdicts
      PROVE  TokensOf(Append(entries, e)) = TokensOf(entries) + IF e.selected THEN e.tokens ELSE 0
  <2>1. PICK more : more = Append(entries, e)
    OBVIOUS
  <2>2. /\ DOMAIN more = 1 .. n + 1 /\ more[n + 1] = e
        /\ \A i \in 1 .. n : more[i] = entries[i]
    BY <1>1, <2>1
  <2>3. \A i \in 1 .. n + 1 : (i = n + 1 \/ i \in 1 .. n) /\ more[i] \in Verdicts
    BY <1>1, <2>2
  <2>4. PICK a : a = [i \in 1 .. n + 1 |-> IF more[i].selected THEN more[i].tokens ELSE 0]
    OBVIOUS
  <2>5. a \in Seq(Nat) /\ Len(a) = n + 1
    <3>1. a \in [1 .. n + 1 -> Nat]
      BY <2>3, <2>4 DEF Verdicts
    <3> QED BY <3>1, FunctionsAreLists
  <2>6. \A i \in 1 .. n : a[i] = t[i]
    BY <1>1, <1>2, <2>2, <2>4
  <2>7. a[n + 1] = IF e.selected THEN e.tokens ELSE 0
    BY <2>2, <2>4
  <2>8. TokensOf(more) = Total(a)
    BY <2>2, <2>4 DEF TokensOf
  <2> QED BY <1>3, <1>4, <2>1, <2>5, <2>6, <2>7, <2>8, TotalOfOneMore
<1>6. TokensOf(entries) \in Nat
  BY <1>3, <1>4, TotalCounts
<1> QED BY <1>5, <1>6

(* The first k entries of a diagnostic. *)
Judged(entries, k) ==
  /\ entries \in Seq(Verdicts) /\ Len(entries) = k
  /\ \A i \in 1 .. k : entries[i].of # 0 =>
       ~entries[i].selected /\ entries[i].of \in 1 .. k /\ entries[entries[i].of].selected
  /\ mode.budget => TokensOf(entries) <= TokenBudget
  /\ ~mode.budget => \A i \in 1 .. k : entries[i].selected => i <= MaxItems

LEMMA EntryJudges ==
  ASSUME TokenBudget \in Nat, MaxItems \in Nat, NEW X, Sized(X), NEW cs \in Seq(X),
         NEW k \in 1 .. Len(cs), NEW entries, Judged(entries, k - 1)
  PROVE  Judged(Append(entries, Entry(cs, entries)), k)
<1>1. PICK n \in Nat : n = k - 1 /\ k = n + 1
  OBVIOUS
<1>2. PICK c \in X : c = cs[n + 1]
  BY <1>1
<1>3. /\ entries \in Seq(Verdicts) /\ Len(entries) = n /\ DOMAIN entries = 1 .. n
      /\ \A i \in 1 .. n : entries[i].of # 0 =>
           ~entries[i].selected /\ entries[i].of \in 1 .. n /\ entries[entries[i].of].selected
      /\ mode.budget => TokensOf(entries) <= TokenBudget
      /\ ~mode.budget => \A i \in 1 .. n : entries[i].selected => i <= MaxItems
  BY <1>1 DEF Judged
<1>4. PICK twins : twins = {i \in Admitted(entries) : Restates(Text(c.row), Text(cs[i].row))}
  OBVIOUS
<1>5. twins \in SUBSET (1 .. n) /\ \A i \in twins : entries[i].selected
  BY <1>3, <1>4 DEF Admitted
<1> DEFINE fits == IF mode.budget THEN TokensOf(entries) + c.tokens <= TokenBudget
                  ELSE Len(entries) < MaxItems
<1>6. /\ mode.budget /\ fits => TokensOf(entries) + c.tokens <= TokenBudget
      /\ ~mode.budget /\ fits => n < MaxItems
      /\ fits \in BOOLEAN
  <2>1. TokensOf(entries) \in Nat /\ c.tokens \in Nat
    BY <1>3, TokensGrow DEF Sized
  <2>2. CASE mode.budget
    <3>1. (TokensOf(entries) + c.tokens <= TokenBudget) \in BOOLEAN
      BY <2>1
    <3> QED BY <2>2, <3>1
  <2>3. CASE ~mode.budget
    BY <1>3, <2>3
  <2> QED BY <2>2, <2>3
<1>7. PICK e : e = Entry(cs, entries)
  OBVIOUS
<1>8. e = [tokens |-> c.tokens, selected |-> twins = {} /\ fits,
           of |-> IF twins = {} THEN 0 ELSE Min(twins)]
  BY <1>2, <1>3, <1>4, <1>7 DEF Entry
<1> HIDE DEF fits
<1>9. twins # {} => Min(twins) \in twins
  <2> SUFFICES ASSUME twins # {} PROVE Min(twins) \in twins
    OBVIOUS
  <2>1. \A i \in 1 .. n : i \in Nat
    OBVIOUS
  <2>2. twins \in SUBSET Nat
    BY <1>5, <2>1
  <2>3. \E x \in twins : \A y \in twins : x <= y
    BY <2>2, LeastNumber
  <2> QED BY <2>3 DEF Min
<1>10. e.of \in 0 .. n /\ (e.of # 0 => e.of \in twins /\ ~e.selected)
  <2>1. CASE twins = {}
    BY <1>8, <2>1
  <2>2. CASE twins # {}
    <3>1. e.of \in twins /\ e.of \in 1 .. n
      BY <1>5, <1>8, <1>9, <2>2
    <3>2. e.selected = FALSE
      BY <1>8, <2>2
    <3>3. \A i \in 1 .. n : i \in 0 .. n
      OBVIOUS
    <3> QED BY <3>1, <3>2, <3>3
  <2> QED BY <2>1, <2>2
<1>11. e \in Verdicts /\ e.tokens = c.tokens /\ (e.selected => fits)
  <2>1. c.tokens \in Nat
    BY DEF Sized
  <2>2. \A i \in 0 .. n : i \in Nat
    OBVIOUS
  <2> QED BY <1>8, <1>10, <2>1, <2>2 DEF Verdicts
<1>12. PICK more : more = Append(entries, e)
  OBVIOUS
<1>13. /\ more \in Seq(Verdicts) /\ Len(more) = n + 1 /\ more[n + 1] = e
       /\ \A i \in 1 .. n : more[i] = entries[i]
  BY <1>3, <1>11, <1>12, OneMore
<1>14. \A i \in 1 .. n + 1 : i = n + 1 \/ i \in 1 .. n
  OBVIOUS
<1>15. ASSUME NEW i \in 1 .. n + 1, more[i].of # 0
       PROVE  ~more[i].selected /\ more[i].of \in 1 .. n + 1 /\ more[more[i].of].selected
  <2>1. CASE i \in 1 .. n
    <3>1. ~entries[i].selected /\ entries[i].of \in 1 .. n /\ entries[entries[i].of].selected
      BY <1>3, <1>13, <1>15, <2>1
    <3> QED BY <1>13, <2>1, <3>1
  <2>2. CASE i = n + 1
    <3>1. e.of \in twins /\ ~e.selected
      BY <1>10, <1>13, <1>15, <2>2
    <3>2. e.of \in 1 .. n /\ entries[e.of].selected
      BY <1>5, <3>1
    <3> QED BY <1>13, <2>2, <3>1, <3>2
  <2> QED BY <1>14, <2>1, <2>2
<1>16. TokensOf(more) = TokensOf(entries) + (IF e.selected THEN e.tokens ELSE 0) /\ TokensOf(entries) \in Nat
  BY <1>3, <1>11, <1>12, TokensGrow
<1>17. mode.budget => TokensOf(more) <= TokenBudget
  <2> SUFFICES ASSUME mode.budget PROVE TokensOf(more) <= TokenBudget
    OBVIOUS
  <2>1. TokensOf(entries) <= TokenBudget
    BY <1>3
  <2>2. CASE e.selected
    <3>1. TokensOf(entries) + c.tokens <= TokenBudget
      BY <1>6, <1>11, <2>2
    <3> QED BY <1>11, <1>16, <2>2, <3>1
  <2>3. CASE ~e.selected
    BY <1>16, <2>1, <2>3
  <2> QED BY <2>2, <2>3
<1>18. ASSUME ~mode.budget, NEW i \in 1 .. n + 1, more[i].selected PROVE i <= MaxItems
  <2>1. CASE i \in 1 .. n
    BY <1>3, <1>13, <1>18, <2>1
  <2>2. CASE i = n + 1
    <3>1. n < MaxItems
      BY <1>6, <1>11, <1>13, <1>18, <2>2
    <3> QED BY <2>2, <3>1
  <2> QED BY <1>14, <2>1, <2>2
<1> QED BY <1>1, <1>7, <1>12, <1>13, <1>15, <1>17, <1>18 DEF Judged

LEMMA TokensOfNothing == TokensOf(<<>>) = 0
<1>1. [i \in DOMAIN <<>> |-> IF <<>>[i].selected THEN <<>>[i].tokens ELSE 0] = <<>>
  OBVIOUS
<1> QED BY <1>1, TotalOfNothing DEF TokensOf

LEMMA ExplainedIsJudged ==
  ASSUME TokenBudget \in Nat, MaxItems \in Nat, NEW X, Sized(X), NEW cs \in Seq(X)
  PROVE  Judged(Explained(cs), Len(cs))
<1>1. PICK n \in Nat : n = Len(cs)
  OBVIOUS
<1>2. PICK T : T = {e \in Seq(Verdicts) : Len(e) <= n}
  OBVIOUS
<1> DEFINE Handed(e) == IF Judged(e, Len(e)) /\ Len(e) < n THEN Append(e, Entry(cs, e)) ELSE e
<1>3. PICK step : step = [p \in T \X (1 .. n) |-> Handed(p[1])]
  OBVIOUS
<1>4. ASSUME NEW e \in T PROVE Handed(e) \in T
  <2>1. CASE Judged(e, Len(e)) /\ Len(e) < n
    <3>1. PICK k \in 1 .. n : k = Len(e) + 1 /\ k - 1 = Len(e)
      BY <1>2, <2>1
    <3>2. Judged(Append(e, Entry(cs, e)), k)
      BY <1>1, <2>1, <3>1, EntryJudges
    <3>3. Append(e, Entry(cs, e)) \in Seq(Verdicts) /\ Len(Append(e, Entry(cs, e))) <= n
      BY <3>1, <3>2 DEF Judged
    <3> QED BY <1>2, <2>1, <3>3
  <2>2. CASE ~(Judged(e, Len(e)) /\ Len(e) < n)
    BY <2>2
  <2> QED BY <2>1, <2>2
<1>5. step \in [T \X (1 .. n) -> T]
  <2> HIDE DEF Handed
  <2> QED BY <1>3, <1>4
<1>6. PICK none : none = <<>>
  OBVIOUS
<1>7. PICK h : Walked(h, T, n, none, step)
  <2>1. none \in Seq(Verdicts) /\ Len(none) = 0
    BY <1>6
  <2>2. none \in T
    BY <1>1, <1>2, <2>1
  <2> QED BY <1>5, <2>2, WalkRuns
<1>8. h \in [0 .. n -> T] /\ h[0] = <<>> /\ \A k \in 1 .. n : h[k] = Handed(h[k - 1])
  <2>1. h \in [0 .. n -> T] /\ h[0] = <<>> /\ \A k \in 1 .. n : h[k] = step[<<h[k - 1], k>>]
    BY <1>6, <1>7 DEF Walked
  <2>2. ASSUME NEW k \in 1 .. n PROVE h[k] = Handed(h[k - 1])
    <3>1. k - 1 \in 0 .. n
      OBVIOUS
    <3>2. <<h[k - 1], k>> \in T \X (1 .. n)
      BY <2>1, <3>1
    <3> HIDE DEF Handed
    <3> QED BY <1>3, <2>1, <3>2
  <2> HIDE DEF Handed
  <2> QED BY <2>1, <2>2
<1> DEFINE S == {k \in 0 .. n : Judged(h[k], k)}
<1>9. 0 \in S
  <2>1. \A i \in 1 .. 0 : FALSE
    OBVIOUS
  <2>2. <<>> \in Seq(Verdicts) /\ Len(<<>>) = 0
    OBVIOUS
  <2>3. Judged(<<>>, 0)
    BY <2>1, <2>2, TokensOfNothing DEF Judged
  <2> QED BY <1>8, <2>3
<1>10. ASSUME NEW k \in 1 .. n, k - 1 \in S PROVE k \in S /\ h[k] = Append(h[k - 1], Entry(cs, h[k - 1]))
  <2>1. k \in 0 .. n /\ k - 1 < n
    OBVIOUS
  <2>2. PICK e : e = h[k - 1]
    OBVIOUS
  <2>3. Judged(e, k - 1)
    BY <1>10, <2>2
  <2>4. Len(e) = k - 1
    BY <2>3 DEF Judged
  <2>5. h[k] = Append(e, Entry(cs, e))
    BY <1>8, <2>1, <2>2, <2>3, <2>4
  <2>6. Judged(Append(e, Entry(cs, e)), k)
    BY <1>1, <2>3, EntryJudges
  <2> QED BY <2>1, <2>2, <2>5, <2>6
<1>11. 0 .. n \subseteq S
  <2> HIDE DEF S
  <2> QED BY <1>9, <1>10, CountUp
<1>12. \A k \in 1 .. n : h[k] = Append(h[k - 1], Entry(cs, h[k - 1]))
  <2>1. \A k \in 1 .. n : k - 1 \in 0 .. n
    OBVIOUS
  <2> HIDE DEF S
  <2> QED BY <1>10, <1>11, <2>1
<1> HIDE DEF S
<1> DEFINE Body(f) == [k \in 0 .. n |-> IF k = 0 THEN <<>> ELSE Append(f[k - 1], Entry(cs, f[k - 1]))]
           upto == CHOOSE f : f = Body(f)
<1>13. h = Body(h)
  <2>1. \A k \in 0 .. n : k = 0 \/ k \in 1 .. n
    OBVIOUS
  <2> QED BY <1>8, <1>12, <2>1
<1>14. upto = Body(upto)
  BY <1>13
<1>15. Explained(cs) = upto[n]
  BY <1>1 DEF Explained
<1> HIDE DEF upto
<1>16. PICK u : u = upto /\ u = Body(u)
  BY <1>14
<1> DEFINE A == {k \in 0 .. n : u[k] = h[k]}
<1>17. 0 \in A
  BY <1>8, <1>16
<1>18. ASSUME NEW k \in 1 .. n, k - 1 \in A PROVE k \in A
  <2>1. k \in 0 .. n /\ k # 0
    OBVIOUS
  <2>2. u[k] = Append(u[k - 1], Entry(cs, u[k - 1]))
    BY <1>16, <2>1
  <2>3. u[k - 1] = h[k - 1]
    BY <1>18
  <2> QED BY <1>12, <2>1, <2>2, <2>3
<1>19. n \in A
  <2>1. 0 .. n \subseteq A
    <3> HIDE DEF A
    <3> QED BY <1>17, <1>18, CountUp
  <2> HIDE DEF A
  <2> QED BY <2>1
<1>20. Judged(h[n], n)
  <2>1. n \in 0 .. n
    OBVIOUS
  <2> QED BY <1>11, <2>1 DEF S
<1> QED BY <1>1, <1>15, <1>16, <1>19, <1>20

-----------------------------------------------------------------------------
(* The characters of a section are a natural number. *)
Intents == {"debug", "plan", "review", "deploy", "general"}

LEMMA Product == ASSUME NEW a \in Nat, NEW b \in Nat PROVE a * b \in Nat
OBVIOUS

LEMMA SharesCount ==
  ASSUME mode.intent \in Intents, BlockChars \in Nat, NEW s \in 1 .. 6
  PROVE  MaxChars(s) \in Nat
<1>1. /\ Plan.fact \in Nat /\ Plan.preference \in Nat /\ Plan.decision \in Nat
      /\ Plan.episode \in Nat /\ Plan.task \in Nat /\ Plan.procedure \in Nat /\ Plan.policy \in Nat
  <2>1. CASE mode.intent = "debug"
    BY <2>1 DEF Plan
  <2>2. CASE mode.intent = "plan"
    BY <2>2 DEF Plan
  <2>3. CASE mode.intent = "review"
    BY <2>3 DEF Plan
  <2>4. CASE mode.intent = "deploy"
    BY <2>4 DEF Plan
  <2>5. CASE mode.intent = "general"
    BY <2>5 DEF Plan
  <2> QED BY <2>1, <2>2, <2>3, <2>4, <2>5 DEF Intents
<1>2. Sections[s].share \in Nat
  <2>1. PICK a : a = Plan
    OBVIOUS
  <2>2. /\ a.fact + a.preference \in Nat /\ a.decision + a.policy \in Nat
        /\ a.procedure \in Nat /\ a.task \in Nat /\ a.episode \in Nat
    BY <1>1, <2>1
  <2>3. s \in {1, 2, 3, 4, 5, 6}
    OBVIOUS
  <2> QED BY <2>1, <2>2, <2>3 DEF Sections
<1>3. PICK share \in Nat : share = Sections[s].share
  BY <1>2
<1>4. PICK p \in Nat : p = share * BlockChars
  BY <1>3, Product
<1>5. p \div 100 \in Nat
  BY Z3
<1> QED BY <1>3, <1>4, <1>5 DEF MaxChars

(***************************************************************************)
(* The inductive invariant.  Nothing is shown or warned of before the      *)
(* verdict, so what it withholds has not been shown.                       *)
(***************************************************************************)
Early == blockStep \in {"load", "judge", "verdict"}

AssemblyInv ==
  /\ AssemblyTypes /\ mode.intent \in Intents /\ DOMAIN shown = 1 .. 6
  /\ Pooled(cands)
  /\ ShownOnce /\ BudgetHolds /\ NoRestatement /\ AbstainIsSilent
  /\ Early => ShownIds = {} /\ outdated = {}

LEMMA AssemblyStarts == ASSUME AssemblyAssumption, AssemblyInit PROVE AssemblyInv
<1>1. /\ mode.intent \in Intents
      /\ blockStep = "load" /\ cands = <<>> /\ lowConfidence = FALSE /\ withheld = FALSE
      /\ section = 1 /\ shown = [s \in 1 .. 6 |-> <<>>] /\ tokens = 0 /\ outdated = {}
  BY DEF AssemblyInit, Intents
<1>2. \A i \in DOMAIN <<>> : FALSE
  OBVIOUS
<1>3. DOMAIN shown = 1 .. 6 /\ \A s \in 1 .. 6 : shown[s] = <<>>
  BY <1>1
<1>4. MaxCandidates \in Nat /\ TokenBudget \in Nat /\ BlockChars \in Nat
  BY DEF AssemblyAssumption
<1>5. Pooled(cands)
  <2>1. Sized({}) /\ <<>> \in Seq({}) /\ Len(<<>>) = 0
    BY DEF Sized
  <2> QED BY <1>1, <1>2, <1>4, <2>1 DEF Pooled
<1>6. ShownIds = {}
  BY <1>2, <1>3 DEF ShownIds
<1>7. ShownOnce /\ NoRestatement
  BY <1>2, <1>3 DEF ShownOnce, NoRestatement
<1>8. BudgetHolds
  <2>1. tokens <= TokenBudget
    BY <1>1, <1>4
  <2> QED BY <1>3, <2>1 DEF BudgetHolds
<1>9. AssemblyTypes
  <2>1. Len(cands) <= MaxCandidates
    BY <1>5 DEF Pooled
  <2>2. lowConfidence \in BOOLEAN /\ withheld \in BOOLEAN
    BY <1>1
  <2>3. section \in 1 .. 6 /\ tokens \in Nat
    BY <1>1
  <2> QED BY <1>1, <2>1, <2>2, <2>3 DEF AssemblyTypes
<1> QED BY <1>1, <1>3, <1>5, <1>6, <1>7, <1>8, <1>9 DEF AssemblyInv, AbstainIsSilent

(* A step that shows nothing more and takes no more tokens. *)
LEMMA NothingShown ==
  ASSUME AssemblyInv, UNCHANGED <<mode, shown, tokens>>
  PROVE  /\ (mode.intent \in Intents)' /\ (DOMAIN shown = 1 .. 6)'
         /\ ShownOnce' /\ BudgetHolds' /\ NoRestatement' /\ ShownIds' = ShownIds
<1>1. \A s \in 1 .. 6 : MaxChars(s)' = MaxChars(s)
  BY DEF MaxChars, Sections, Plan
<1>2. BudgetHolds'
  BY <1>1 DEF AssemblyInv, BudgetHolds
<1>3. ShownOnce' /\ NoRestatement' /\ ShownIds' = ShownIds
  BY DEF AssemblyInv, ShownOnce, NoRestatement, ShownIds
<1> QED BY <1>2, <1>3 DEF AssemblyInv

LEMMA LoadKeeps == ASSUME AssemblyAssumption, AssemblyInv, Load PROVE AssemblyInv'
<1>1. /\ blockStep = "load" /\ blockStep' \in {"judge", "cut"}
      /\ UNCHANGED <<mode, lowConfidence, withheld, section, shown, tokens, outdated>>
  BY DEF Load
<1>2. Pooled(cands')
  <2>1. PICK rows \in SUBSET Primary :
          Cardinality(rows) <= MaxCandidates
          /\ cands' \in Ranked({Candidate(r, Score(r)) : r \in rows})
    BY DEF Load
  <2> QED BY <2>1, LoadPools
<1>3. /\ (mode.intent \in Intents)' /\ (DOMAIN shown = 1 .. 6)'
      /\ ShownOnce' /\ BudgetHolds' /\ NoRestatement' /\ ShownIds' = ShownIds
  BY <1>1, NothingShown
<1>4. Len(cands') <= MaxCandidates
  BY <1>2 DEF Pooled
<1>5. ShownIds = {} /\ outdated = {}
  BY <1>1 DEF AssemblyInv, Early
<1>6. AbstainIsSilent' /\ (Early => ShownIds = {} /\ outdated = {})'
  BY <1>1, <1>3, <1>5 DEF AssemblyInv, AbstainIsSilent
<1>7. AssemblyTypes'
  BY <1>1, <1>4 DEF AssemblyInv, AssemblyTypes
<1>8. Pooled(cands)'
  BY <1>2 DEF Pooled
<1> QED BY <1>3, <1>6, <1>7, <1>8 DEF AssemblyInv

LEMMA WidenKeeps == ASSUME AssemblyAssumption, AssemblyInv, Widen PROVE AssemblyInv'
<1>1. /\ blockStep = "judge" /\ blockStep' = "verdict"
      /\ UNCHANGED <<mode, lowConfidence, withheld, section, shown, tokens, outdated>>
  BY DEF Widen
<1>2. Pooled(cands')
  <2>1. PICK more \in SUBSET Widened :
          Cardinality(more) = Least(MaxCandidates, Cardinality(Widened)) /\ cands' \in Ranked(more)
    BY DEF Widen
  <2>2. Pooled(cands)
    BY DEF AssemblyInv
  <2> QED BY <2>1, <2>2, WidenPools
<1>3. /\ (mode.intent \in Intents)' /\ (DOMAIN shown = 1 .. 6)'
      /\ ShownOnce' /\ BudgetHolds' /\ NoRestatement' /\ ShownIds' = ShownIds
  BY <1>1, NothingShown
<1>4. Len(cands') <= MaxCandidates
  BY <1>2 DEF Pooled
<1>5. ShownIds = {} /\ outdated = {}
  BY <1>1 DEF AssemblyInv, Early
<1>6. AbstainIsSilent' /\ (Early => ShownIds = {} /\ outdated = {})'
  BY <1>1, <1>3, <1>5 DEF AssemblyInv, AbstainIsSilent
<1>7. AssemblyTypes'
  BY <1>1, <1>4 DEF AssemblyInv, AssemblyTypes
<1>8. Pooled(cands)'
  BY <1>2 DEF Pooled
<1> QED BY <1>3, <1>6, <1>7, <1>8 DEF AssemblyInv

(* The steps that leave the candidates as they are. *)
LEMMA TrustKeeps == ASSUME AssemblyInv, Trust PROVE AssemblyInv'
<1>1. /\ blockStep = "judge" /\ blockStep' = "verdict"
      /\ UNCHANGED <<mode, cands, lowConfidence, withheld, section, shown, tokens, outdated>>
  BY DEF Trust
<1>2. /\ (mode.intent \in Intents)' /\ (DOMAIN shown = 1 .. 6)'
      /\ ShownOnce' /\ BudgetHolds' /\ NoRestatement' /\ ShownIds' = ShownIds
  BY <1>1, NothingShown
<1>3. ShownIds = {} /\ outdated = {}
  BY <1>1 DEF AssemblyInv, Early
<1>4. AbstainIsSilent' /\ (Early => ShownIds = {} /\ outdated = {})'
  BY <1>1, <1>2, <1>3 DEF AssemblyInv, AbstainIsSilent
<1>5. AssemblyTypes' /\ Pooled(cands)'
  BY <1>1 DEF AssemblyInv, AssemblyTypes, Pooled
<1> QED BY <1>2, <1>4, <1>5 DEF AssemblyInv

LEMMA VerdictKeeps == ASSUME AssemblyInv, Verdict PROVE AssemblyInv'
<1>1. /\ blockStep = "verdict" /\ blockStep' = "cut"
      /\ lowConfidence' = BelowThreshold(cands) /\ withheld' = (lowConfidence' /\ mode.abstain)
      /\ UNCHANGED <<mode, cands, section, shown, tokens, outdated>>
  BY DEF Verdict
<1>2. /\ (mode.intent \in Intents)' /\ (DOMAIN shown = 1 .. 6)'
      /\ ShownOnce' /\ BudgetHolds' /\ NoRestatement' /\ ShownIds' = ShownIds
  BY <1>1, NothingShown
<1>3. ShownIds = {} /\ outdated = {}
  BY <1>1 DEF AssemblyInv, Early
<1>4. AbstainIsSilent' /\ (Early => ShownIds = {} /\ outdated = {})'
  BY <1>1, <1>2, <1>3 DEF AbstainIsSilent
<1>5. BelowThreshold(cands) \in BOOLEAN
  BY DEF BelowThreshold
<1>6. lowConfidence' \in BOOLEAN /\ withheld' \in BOOLEAN
  BY <1>1, <1>5
<1>7. AssemblyTypes' /\ Pooled(cands)'
  BY <1>1, <1>6 DEF AssemblyInv, AssemblyTypes, Pooled
<1> QED BY <1>2, <1>4, <1>7 DEF AssemblyInv

LEMMA NegativeKeeps == ASSUME AssemblyInv, Negative PROVE AssemblyInv'
<1>1. /\ blockStep = "negative" /\ blockStep' = "done" /\ outdated' = Outdated
      /\ UNCHANGED <<mode, cands, lowConfidence, withheld, section, shown, tokens>>
  BY DEF Negative
<1>2. /\ (mode.intent \in Intents)' /\ (DOMAIN shown = 1 .. 6)'
      /\ ShownOnce' /\ BudgetHolds' /\ NoRestatement' /\ ShownIds' = ShownIds
  BY <1>1, NothingShown
<1>3. withheld => outdated' = {}
  <2> SUFFICES ASSUME withheld PROVE Outdated = {}
    BY <1>1
  <2>1. Open = <<>>
    BY DEF Open
  <2>2. \A i \in DOMAIN <<>> : FALSE
    OBVIOUS
  <2> QED BY <2>1, <2>2 DEF Outdated
<1>4. AbstainIsSilent' /\ (Early => ShownIds = {} /\ outdated = {})'
  BY <1>1, <1>2, <1>3 DEF AssemblyInv, AbstainIsSilent, Early
<1>5. AssemblyTypes' /\ Pooled(cands)'
  BY <1>1 DEF AssemblyInv, AssemblyTypes, Pooled
<1> QED BY <1>2, <1>4, <1>5 DEF AssemblyInv

(* What a section shows: of the open candidates, not shown before, each once, within
   its characters and the budget. *)
Shows(out) ==
  /\ AllApart(out) /\ Chars(out) <= MaxChars(section) /\ Cost(out) \in Nat
  /\ \A i \in DOMAIN out : out[i].row.id \notin ShownIds /\ ~withheld
  /\ mode.budget => tokens + Cost(out) <= TokenBudget

LEMMA SectionShows ==
  ASSUME AssemblyAssumption, AssemblyInv
  PROVE  Shows(Emitted(Selected(section), MaxChars(section)))
<1>1. PICK X : Sized(X) /\ cands \in Seq(X)
  BY DEF AssemblyInv, Pooled
<1>2. Open \in Seq(X) /\ (withheld => Len(Open) = 0)
  BY <1>1 DEF Open
<1>3. \A i, j \in DOMAIN Open : Open[i].row.id = Open[j].row.id => i = j
  <2>1. CASE withheld
    <3>1. \A i \in DOMAIN <<>> : FALSE
      OBVIOUS
    <3> QED BY <2>1, <3>1 DEF Open
  <2>2. CASE ~withheld
    BY <2>2 DEF Open, AssemblyInv, Pooled
  <2> QED BY <2>1, <2>2
<1>4. tokens \in Nat /\ TokenBudget \in Nat /\ BlockChars \in Nat /\ (mode.budget => tokens <= TokenBudget)
  BY DEF AssemblyInv, AssemblyTypes, BudgetHolds, AssemblyAssumption
<1>5. Offered(X)
  BY <1>1, <1>2, <1>3, <1>4 DEF Offered
<1>6. PICK sel : sel = Selected(section)
  OBVIOUS
<1>7. /\ sel \in Seq(X) /\ AllApart(sel)
      /\ \A i \in DOMAIN sel : \E p \in 1 .. Len(Open) : sel[i] = Open[p]
      /\ \A i \in DOMAIN sel : sel[i].row.id \notin ShownIds
      /\ mode.budget => tokens + Cost(sel) <= TokenBudget
  <2>1. Picked(sel, X, Len(Open))
    BY <1>5, <1>6, SelectedIsPicked
  <2> QED BY <2>1 DEF Picked
<1>8. PICK max \in Nat : max = MaxChars(section)
  <2>1. section \in 1 .. 6 /\ mode.intent \in Intents
    BY DEF AssemblyInv, AssemblyTypes
  <2> QED BY <1>4, <2>1, SharesCount
<1>9. PICK out : out = Emitted(sel, max)
  OBVIOUS
<1>10. /\ out \in Seq(X) /\ AllApart(out) /\ Chars(out) <= max
       /\ \A i \in DOMAIN out : \E p \in DOMAIN sel : out[i] = sel[p]
       /\ Cost(out) <= Cost(sel)
  BY <1>1, <1>7, <1>8, <1>9, EmittedIsLaid
<1>11. Cost(out) \in Nat /\ Cost(sel) \in Nat
  BY <1>1, <1>7, <1>10, CostGrows
<1>12. mode.budget => tokens + Cost(out) <= TokenBudget
  BY <1>4, <1>7, <1>10, <1>11
<1>13. ASSUME NEW i \in DOMAIN out PROVE out[i].row.id \notin ShownIds /\ ~withheld
  <2>1. PICK p \in DOMAIN sel : out[i] = sel[p]
    BY <1>10
  <2>2. PICK q \in 1 .. Len(Open) : sel[p] = Open[q]
    BY <1>7
  <2>3. Len(Open) # 0
    BY <1>2
  <2> QED BY <1>2, <1>7, <2>1, <2>3
<1> QED BY <1>6, <1>8, <1>9, <1>10, <1>11, <1>12, <1>13 DEF Shows

LEMMA CutKeeps == ASSUME AssemblyAssumption, AssemblyInv, Cut PROVE AssemblyInv'
<1>1. PICK out : out = Emitted(Selected(section), MaxChars(section)) /\ Shows(out)
  BY SectionShows
<1>2. /\ blockStep = "cut" /\ shown' = [shown EXCEPT ![section] = out]
      /\ tokens' = IF mode.budget THEN tokens + Cost(out) ELSE tokens
      /\ blockStep' \in {"cut", "negative"}
      /\ section' = section \/ (section < 6 /\ section' = section + 1)
      /\ UNCHANGED <<mode, cands, lowConfidence, withheld, outdated>>
  BY <1>1 DEF Cut
<1>3. section \in 1 .. 6 /\ DOMAIN shown = 1 .. 6 /\ tokens \in Nat /\ TokenBudget \in Nat
  BY DEF AssemblyInv, AssemblyTypes, AssemblyAssumption
<1>4. DOMAIN shown' = 1 .. 6 /\ shown'[section] = out /\ \A s \in 1 .. 6 : s # section => shown'[s] = shown[s]
  BY <1>2, <1>3
<1>5. /\ AllApart(out) /\ Chars(out) <= MaxChars(section) /\ Cost(out) \in Nat
      /\ \A i \in DOMAIN out : out[i].row.id \notin ShownIds /\ ~withheld
      /\ mode.budget => tokens + Cost(out) <= TokenBudget
  BY <1>1 DEF Shows
<1>6. \A s \in 1 .. 6 : \A i \in DOMAIN shown[s] : shown[s][i].row.id \in ShownIds
  BY <1>3 DEF ShownIds
<1>7. ShownOnce'
  <2> SUFFICES ASSUME NEW s \in 1 .. 6, NEW t \in 1 .. 6,
                      NEW i \in DOMAIN shown'[s], NEW j \in DOMAIN shown'[t],
                      shown'[s][i].row.id = shown'[t][j].row.id
               PROVE  s = t /\ i = j
    BY DEF ShownOnce
  <2>1. CASE s = section /\ t = section
    BY <1>4, <1>5, <2>1 DEF AllApart, Apart
  <2>2. CASE s = section /\ t # section
    BY <1>4, <1>5, <1>6, <2>2
  <2>3. CASE s # section /\ t = section
    BY <1>4, <1>5, <1>6, <2>3
  <2>4. CASE s # section /\ t # section
    BY <1>4, <2>4 DEF AssemblyInv, ShownOnce
  <2> QED BY <2>1, <2>2, <2>3, <2>4
<1>8. NoRestatement'
  <2> SUFFICES ASSUME NEW s \in 1 .. 6, NEW i \in DOMAIN shown'[s], NEW j \in DOMAIN shown'[s], i # j
               PROVE  ~Restates(Text(shown'[s][i].row), Text(shown'[s][j].row))
    BY DEF NoRestatement
  <2>1. CASE s = section
    BY <1>4, <1>5, <2>1 DEF AllApart, Apart
  <2>2. CASE s # section
    BY <1>4, <2>2 DEF AssemblyInv, NoRestatement
  <2> QED BY <2>1, <2>2
<1>9. BudgetHolds'
  <2>1. \A s \in 1 .. 6 : MaxChars(s)' = MaxChars(s)
    BY <1>2 DEF MaxChars, Sections, Plan
  <2>2. \A s \in 1 .. 6 : shown'[s] = <<>> \/ Chars(shown'[s]) <= MaxChars(s)
    BY <1>4, <1>5 DEF AssemblyInv, BudgetHolds
  <2>3. \A s \in 1 .. 6 : Chars(shown[s])' = Chars(shown'[s])
    BY DEF Chars
  <2>4. (mode.budget => tokens <= TokenBudget)'
    BY <1>2, <1>5
  <2>5. \A s \in 1 .. 6 : (shown[s] = <<>> \/ Chars(shown[s]) <= MaxChars(s))'
    BY <2>1, <2>2, <2>3
  <2> QED BY <2>4, <2>5 DEF BudgetHolds
<1>10. AbstainIsSilent'
  <2> SUFFICES ASSUME withheld PROVE lowConfidence /\ ShownIds' = {} /\ outdated = {}
    BY <1>2 DEF AbstainIsSilent
  <2>1. lowConfidence /\ ShownIds = {} /\ outdated = {}
    BY DEF AssemblyInv, AbstainIsSilent
  <2>2. ASSUME NEW s \in 1 .. 6, NEW i \in DOMAIN shown'[s] PROVE FALSE
    BY <1>4, <1>5, <1>6, <2>1
  <2>3. ShownIds' = {}
    BY <1>4, <2>2 DEF ShownIds
  <2> QED BY <2>1, <2>3
<1>11. AssemblyTypes' /\ Pooled(cands)'
  <2>1. section' \in 1 .. 6 /\ tokens' \in Nat
    BY <1>2, <1>3, <1>5
  <2> QED BY <1>2, <2>1 DEF AssemblyInv, AssemblyTypes, Pooled
<1>12. ~Early'
  BY <1>2 DEF Early
<1> QED BY <1>2, <1>4, <1>7, <1>8, <1>9, <1>10, <1>11, <1>12 DEF AssemblyInv

LEMMA AssemblyStutters == ASSUME AssemblyInv, UNCHANGED assemblyVars PROVE AssemblyInv'
<1>1. UNCHANGED <<mode, blockStep, cands, lowConfidence, withheld, section, shown, tokens, outdated>>
  BY DEF assemblyVars
<1>2. /\ (mode.intent \in Intents)' /\ (DOMAIN shown = 1 .. 6)'
      /\ ShownOnce' /\ BudgetHolds' /\ NoRestatement' /\ ShownIds' = ShownIds
  BY <1>1, NothingShown
<1>3. AbstainIsSilent' /\ (Early => ShownIds = {} /\ outdated = {})'
  BY <1>1, <1>2 DEF AssemblyInv, AbstainIsSilent, Early
<1>4. AssemblyTypes' /\ Pooled(cands)'
  BY <1>1 DEF AssemblyInv, AssemblyTypes, Pooled
<1> QED BY <1>2, <1>3, <1>4 DEF AssemblyInv

LEMMA DiagnosticHolds == ASSUME AssemblyAssumption, AssemblyInv PROVE ExplainHolds
<1>1. PICK X : Sized(X) /\ cands \in Seq(X)
  BY DEF AssemblyInv, Pooled
<1>2. PICK n \in Nat : n = Len(cands)
  BY <1>1
<1>3. TokenBudget \in Nat /\ MaxItems \in Nat
  BY DEF AssemblyAssumption
<1>4. PICK entries : entries = Explained(cands) /\ Judged(entries, n)
  BY <1>1, <1>2, <1>3, ExplainedIsJudged
<1>5. /\ entries \in Seq(Verdicts) /\ Len(entries) = n
      /\ \A i \in 1 .. n : entries[i].of # 0 =>
           ~entries[i].selected /\ entries[i].of \in 1 .. n /\ entries[entries[i].of].selected
      /\ mode.budget => TokensOf(entries) <= TokenBudget
      /\ ~mode.budget => \A i \in 1 .. n : entries[i].selected => i <= MaxItems
  BY <1>4 DEF Judged
<1>6. DOMAIN entries = 1 .. n
  BY <1>2, <1>5
<1>7. ASSUME ~mode.budget
      PROVE  Cardinality({i \in DOMAIN entries : entries[i].selected}) <= MaxItems
  <2>1. PICK S : S = {i \in DOMAIN entries : entries[i].selected}
    OBVIOUS
  <2>2. S \subseteq 1 .. MaxItems
    BY <1>2, <1>3, <1>5, <1>6, <1>7, <2>1
  <2>3. IsFiniteSet(1 .. MaxItems) /\ Cardinality(1 .. MaxItems) = MaxItems
    BY <1>3, UptoCounts
  <2> QED BY <2>1, <2>2, <2>3, FS_Subset
<1> QED BY <1>4, <1>5, <1>6, <1>7 DEF ExplainHolds

(***************************************************************************)
(* A block shows nothing twice, stays within its budget, and shows nothing *)
(* at all when the evidence is withheld; what the diagnostic says was      *)
(* suppressed restates what it says was selected                           *)
(* (append_task_aware_context, memory_assemble_context_explain).           *)
(***************************************************************************)
THEOREM ContextsAreSound == AssemblySpec => []ContextSound
<1>1. AssemblyInit => AssemblyInv
  BY AssemblyAssumption, AssemblyStarts
<1>2. AssemblyInv /\ [AssemblyNext]_assemblyVars => AssemblyInv'
  <2> SUFFICES ASSUME AssemblyInv, [AssemblyNext]_assemblyVars PROVE AssemblyInv'
    OBVIOUS
  <2>1. CASE Load
    BY <2>1, AssemblyAssumption, LoadKeeps
  <2>2. CASE Widen
    BY <2>2, AssemblyAssumption, WidenKeeps
  <2>3. CASE Trust
    BY <2>3, TrustKeeps
  <2>4. CASE Verdict
    BY <2>4, VerdictKeeps
  <2>5. CASE Cut
    BY <2>5, AssemblyAssumption, CutKeeps
  <2>6. CASE Negative
    BY <2>6, NegativeKeeps
  <2>7. CASE UNCHANGED assemblyVars
    BY <2>7, AssemblyStutters
  <2> QED BY <2>1, <2>2, <2>3, <2>4, <2>5, <2>6, <2>7 DEF AssemblyNext
<1>3. AssemblyInv => ContextSound
  BY AssemblyAssumption, DiagnosticHolds DEF AssemblyInv, ContextSound
<1> QED BY <1>1, <1>2, <1>3, PTL DEF AssemblySpec

=============================================================================
