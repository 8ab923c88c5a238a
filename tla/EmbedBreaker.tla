---------------------------- MODULE EmbedBreaker ----------------------------
(***************************************************************************)
(* The circuit breaker around the embedding endpoint                       *)
(* (server-go/modules/memory/embed.go).                                    *)
(*                                                                         *)
(* Every call of Embed runs in a handler goroutine of its own, so calls    *)
(* interleave at the breaker's mutex: allow, cancelProbe, reportSuccess    *)
(* and reportFailure are each one atomic step, and the HTTP exchange       *)
(* between allow and the report is where the other calls get in.  A call   *)
(* samples the clock once, before allow, and reports with that sample.     *)
(*                                                                         *)
(* lastSuccessMS, lastFailureMS and suppressed are written and never read  *)
(* by the code and are left out, as are the texts of the errors and the    *)
(* vector itself.                                                          *)
(***************************************************************************)
EXTENDS Integers, FiniteSets

CONSTANTS
  Calls,        \* the callers of Embed; one handler goroutine each at a time
  Threshold,    \* breakerThreshold: consecutive failures that open it
  BaseMS,       \* breakerBaseMS
  MaxMS,        \* breakerMaxMS
  CounterMax,   \* the largest uint32
  MaxClock,     \* bound: the last instant of the wall clock
  OutageEnd,    \* bound: the embedder answers every call begun after this
  MaxJumps      \* bound: how often the wall clock jumps back

ASSUME BreakerAssumption ==
  /\ Threshold \in Nat \ {0}
  /\ BaseMS \in Nat \ {0}
  /\ MaxMS \in Nat \ {0}
  /\ BaseMS <= MaxMS
  /\ CounterMax \in Nat
  /\ Threshold <= CounterMax
  /\ MaxClock \in Nat \ {0}
  /\ OutageEnd \in Nat
  /\ MaxJumps \in Nat

VARIABLES
  clock,          \* time.Now().UnixMilli()
  jumps,          \* backward jumps of the clock so far
  failureStreak,  \* consecutive failures reported
  openCount,      \* how often it opened since the last success
  probeInflight,  \* the half-open probe is claimed
  openedAtMS,     \* 0 when closed
  retryAtMS,      \* 0 when closed
  pc,             \* pc[c]: "idle", or "sent" between allow and the report
  now,            \* now[c]: the clock sample of c's current call
  probe,          \* probe[c]: c's current call was admitted as the probe
  response        \* how the call that ended last ended

breaker == <<failureStreak, openCount, probeInflight, openedAtMS, retryAtMS>>
vars == <<clock, jumps, breaker, pc, now, probe, response>>

(***************************************************************************)
(* The fields of EmbedResponse that tell the outcomes apart.               *)
(***************************************************************************)
Kinds == {"none", "unavailable", "unauthorized", "error", "vector"}
Response(k, after) == [kind |-> k, retryAfter |-> after]

Saturate(n) == IF n < CounterMax THEN n + 1 ELSE n

(***************************************************************************)
(* breakerDelayMS.  The doubling loop stops at MaxMS, so it computes       *)
(* min(BaseMS * 2^openCount, MaxMS).  The jitter is a fixed hash of the    *)
(* clock and openCount reduced to 0 .. jitterCap; which of these values it *)
(* takes is left open.                                                     *)
(***************************************************************************)
Backoff(n) == LET d == BaseMS * 2^n IN IF d < MaxMS THEN d ELSE MaxMS

JitterCap(d) == IF d \div 4 > MaxMS - d THEN MaxMS - d ELSE d \div 4

BreakerDelays(n) == {Backoff(n) + j : j \in 0 .. JitterCap(Backoff(n))}

(***************************************************************************)
(* The doubling loop as it is written, for the check of the closed form.   *)
(***************************************************************************)
backoffLoop[n \in Nat] ==
  IF n = 0 THEN BaseMS
  ELSE LET d == backoffLoop[n - 1]
       IN  IF d >= MaxMS THEN d ELSE IF d > MaxMS \div 2 THEN MaxMS ELSE d * 2

Closed == retryAtMS <= 0
(* Mutant: a backward jump of the clock is not recognised. *)
EligibleForwardOnly(t) == t >= retryAtMS

Eligible(t) == t >= retryAtMS \/ t < openedAtMS
-----------------------------------------------------------------------------
Init ==
  /\ clock = 1 /\ jumps = 0
  /\ failureStreak = 0 /\ openCount = 0 /\ probeInflight = FALSE
  /\ openedAtMS = 0 /\ retryAtMS = 0
  /\ pc = [c \in Calls |-> "idle"]
  /\ now = [c \in Calls |-> 0]
  /\ probe = [c \in Calls |-> FALSE]
  /\ response = Response("none", 0)

Ends(k, after) == response' = Response(k, after)

(***************************************************************************)
(* allow, and the part of Embed before it.                                 *)
(***************************************************************************)
Admit(c, isProbe) ==
  /\ pc' = [pc EXCEPT ![c] = "sent"]
  /\ now' = [now EXCEPT ![c] = clock]
  /\ probe' = [probe EXCEPT ![c] = isProbe]
  /\ UNCHANGED <<clock, jumps, response>>

AllowClosed(c) ==
  /\ pc[c] = "idle" /\ Closed
  /\ Admit(c, FALSE)
  /\ UNCHANGED breaker

AllowProbe(c) ==
  /\ pc[c] = "idle" /\ ~Closed
  /\ Eligible(clock) /\ ~probeInflight
  /\ probeInflight' = TRUE
  /\ Admit(c, TRUE)
  /\ UNCHANGED <<failureStreak, openCount, openedAtMS, retryAtMS>>

Suppress(c) ==
  /\ pc[c] = "idle" /\ ~Closed
  /\ ~Eligible(clock) \/ probeInflight
  /\ Ends("unavailable", IF Eligible(clock) THEN 0 ELSE retryAtMS - clock)
  /\ UNCHANGED <<clock, jumps, breaker, pc, now, probe>>

(***************************************************************************)
(* base_url is not an HTTP endpoint, or max_dim is not positive: refused   *)
(* before the breaker is consulted.                                        *)
(***************************************************************************)
RefuseEarly(c) ==
  /\ pc[c] = "idle"
  /\ Ends("error", 0)
  /\ UNCHANGED <<clock, jumps, breaker, pc, now, probe>>

Leave(c) ==
  /\ pc[c] = "sent"
  /\ pc' = [pc EXCEPT ![c] = "idle"]
  /\ now' = [now EXCEPT ![c] = 0]
  /\ probe' = [probe EXCEPT ![c] = FALSE]
  /\ UNCHANGED <<clock, jumps>>

(* Mutant: a local error keeps the claim on the probe. *)
CancelProbeKeeps(c) ==
  /\ Leave(c)
  /\ Ends("error", 0)
  /\ UNCHANGED breaker

(***************************************************************************)
(* An empty text or a request that cannot be built: cancelProbe.           *)
(***************************************************************************)
CancelProbe(c) ==
  /\ Leave(c)
  /\ probeInflight' = FALSE
  /\ Ends("error", 0)
  /\ UNCHANGED <<failureStreak, openCount, openedAtMS, retryAtMS>>

(* Mutant: success forgets to clear the retry time. *)
ReportSuccessKeepsRetry ==
  /\ failureStreak' = 0 /\ openCount' = 0 /\ probeInflight' = FALSE
  /\ UNCHANGED <<openedAtMS, retryAtMS>>

ReportSuccess ==
  /\ failureStreak' = 0 /\ openCount' = 0 /\ probeInflight' = FALSE
  /\ openedAtMS' = 0 /\ retryAtMS' = 0

ReportFailure(t) ==
  /\ failureStreak' = Saturate(failureStreak)
  /\ probeInflight' = FALSE
  /\ IF failureStreak' >= Threshold
     THEN /\ openedAtMS' = t
          /\ \E d \in BreakerDelays(openCount) : retryAtMS' = t + d
          /\ openCount' = Saturate(openCount)
     ELSE UNCHANGED <<openCount, openedAtMS, retryAtMS>>

(***************************************************************************)
(* The endpoint answered with a usable vector, or refused with 401 or 403: *)
(* reached either way.                                                     *)
(***************************************************************************)
Reached(c) ==
  /\ Leave(c)
  /\ ReportSuccess
  /\ \E k \in {"vector", "unauthorized"} : Ends(k, 0)

(***************************************************************************)
(* A transport error, a bad status, an unreadable or an empty vector.      *)
(***************************************************************************)
Failed(c) ==
  /\ Leave(c)
  /\ now[c] <= OutageEnd
  /\ ReportFailure(now[c])
  /\ Ends("error", 0)

(***************************************************************************)
(* The wall clock: it advances, and may be set back.                       *)
(***************************************************************************)
Tick ==
  /\ clock < MaxClock
  /\ clock' = clock + 1
  /\ UNCHANGED <<jumps, breaker, pc, now, probe, response>>

JumpBack ==
  /\ jumps < MaxJumps
  /\ jumps' = jumps + 1
  /\ \E t \in 1 .. (clock - 1) : clock' = t
  /\ UNCHANGED <<breaker, pc, now, probe, response>>

Call(c) == AllowClosed(c) \/ AllowProbe(c) \/ Suppress(c)
Complete(c) == Reached(c) \/ Failed(c)

Next ==
  \/ \E c \in Calls : \/ Call(c) \/ RefuseEarly(c)
                      \/ Complete(c) \/ CancelProbe(c)
  \/ Tick
  \/ JumpBack

(***************************************************************************)
(* Every exchange ends: the HTTP client has a timeout (embedTimeout).      *)
(* Callers keep calling, the clock advances, and a caller does not send    *)
(* empty texts for ever (an admitted call then reaches its exchange again  *)
(* and again: strong fairness of Complete).                                *)
(***************************************************************************)
Fairness ==
  /\ WF_vars(Tick)
  /\ \A c \in Calls : /\ WF_vars(AllowClosed(c) \/ AllowProbe(c))
                      /\ SF_vars(Complete(c))

Spec == Init /\ [][Next]_vars
FairSpec == Spec /\ Fairness
-----------------------------------------------------------------------------
\* The fields of embedBreaker and the locals of each Embed call hold what the code
\* stores in them; the two counters saturate at the largest uint32.
TypeOK ==
  /\ clock \in Nat /\ jumps \in Nat
  /\ failureStreak \in 0 .. CounterMax
  /\ openCount \in 0 .. CounterMax
  /\ probeInflight \in BOOLEAN
  /\ openedAtMS \in Nat /\ retryAtMS \in Int
  /\ pc \in [Calls -> {"idle", "sent"}]
  /\ now \in [Calls -> Nat]
  /\ probe \in [Calls -> BOOLEAN]
  /\ response \in [kind : Kinds, retryAfter : Int]

Probes == {c \in Calls : pc[c] = "sent" /\ probe[c]}

(***************************************************************************)
(* The claim on the probe is never orphaned: while probeInflight is set,   *)
(* some call that claimed it has still to report.  A lost claim would keep *)
(* the breaker open for ever (embed.go, allow against every return of      *)
(* Embed).                                                                 *)
(***************************************************************************)
ProbeHeld == probeInflight => Probes # {}

(***************************************************************************)
(* Nothing is suppressed before Threshold consecutive failures, and the    *)
(* outage window is at most MaxMS long: the breaker is open only with a    *)
(* full streak, and then its retry time lies within MaxMS of the opening.  *)
(***************************************************************************)
OpenIsEarned ==
  ~Closed => /\ failureStreak >= Threshold
             /\ retryAtMS <= openedAtMS + MaxMS

(***************************************************************************)
(* Whatever the clock does, a suppressed caller is told to come back       *)
(* within MaxMS (the "bounded" delay of the comment on embedBreaker).      *)
(***************************************************************************)
RetryAfterBounded == response.retryAfter \in 0 .. MaxMS

(***************************************************************************)
(* The closed form used above is what the doubling loop computes.          *)
(***************************************************************************)
BackoffIsTheLoop == \A n \in 0 .. CounterMax : Backoff(n) = backoffLoop[n]

(***************************************************************************)
(* After the last outage of the embedder the breaker closes and stays      *)
(* closed, whatever calls were in flight when it opened and however the    *)
(* clock jumped.                                                           *)
(***************************************************************************)
Recovers == <>[]Closed
=============================================================================
