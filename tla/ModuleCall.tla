------------------------------ MODULE ModuleCall ------------------------------
(***************************************************************************)
(* Callers of a module (server-go/bus/module_caller.go) composed with the  *)
(* module that serves them (ModuleRuntime).  A call cuts its request into  *)
(* fragments, sends them without waiting, then polls until its result is   *)
(* complete, and tries to cancel the request when it gives up.             *)
(*                                                                         *)
(* Each caller has a client of its own, hence two rings of its own to the  *)
(* host.  The host is external: it passes frames on in order, answers a    *)
(* request itself when nobody may serve it, and may reap a caller's slot.  *)
(***************************************************************************)
EXTENDS ModuleRuntime

CONSTANTS
  Callers,
  Owner,      \* Owner[c]: the caller that makes call c
  MaxFrags,   \* fragments of the longest request
  UpCap,      \* slots of a caller's outbound ring
  DownCap     \* slots of a caller's inbound ring

(* A caller counts its correlations from 1 (m.correlation++). *)
ASSUME CallAssumption ==
  /\ Correlations \subseteq Nat \ {0}
  /\ Owner \in [Correlations -> Callers]
  /\ MaxFrags \in Nat \ {0} /\ UpCap \in Nat /\ DownCap \in Nat
  /\ \A i \in 1 .. MaxFrags : <<i>> \in Bodies

VARIABLES
  at,         \* at[k]: where the call of k is: "idle", "send", "await" or "cancel"
  call,       \* call[k]: the call under way
  body,       \* body[k]: result parts received
  up, down,   \* the rings of each caller
  reaped,     \* callers whose slot the host has reaped
  refused,    \* calls the host has answered itself
  result,     \* result[c]: how call c ended
  answered,   \* history: the parts the module's answer to c has
  handled     \* history: the request body the handler of c was started with

callVars == <<at, call, body, up, down, reaped, refused, result>>
serverVars == vars
allVars == <<vars, callVars, answered, handled>>

NoCall == [corr |-> 0, frags |-> 1, sent |-> 0, deadline |-> 0]
Parts(n) == [i \in 1 .. n |-> i]

CallInit ==
  /\ Init /\ hasHandler
  /\ at = [k \in Callers |-> "idle"]
  /\ call = [k \in Callers |-> NoCall]
  /\ body = [k \in Callers |-> 0]
  /\ up = [k \in Callers |-> <<>>] /\ down = [k \in Callers |-> <<>>]
  /\ reaped = {} /\ refused = {}
  /\ result = [c \in Correlations |-> "none"]
  /\ answered = [c \in Correlations |-> 0]
  /\ handled = [c \in Correlations |-> <<>>]

Started(c) == result[c] # "none" \/ \E k \in Callers : call[k].corr = c

End(k, how) ==
  /\ result' = [result EXCEPT ![call[k].corr] = how]
  /\ at' = [at EXCEPT ![k] = "idle"]
  /\ call' = [call EXCEPT ![k] = NoCall]
  /\ body' = [body EXCEPT ![k] = 0]
-----------------------------------------------------------------------------
(* Call: the next correlation, with some deadline and some length. *)
Begin(k) ==
  /\ at[k] = "idle"
  /\ \E c \in Correlations, n \in 1 .. MaxFrags, d \in Deadlines :
       /\ Owner[c] = k /\ ~Started(c) /\ \A b \in Correlations : b < c /\ Owner[b] = k => Started(b)
       /\ call' = [call EXCEPT ![k] = [corr |-> c, frags |-> n, sent |-> 0, deadline |-> d]]
  /\ at' = [at EXCEPT ![k] = "send"]
  /\ UNCHANGED <<body, up, down, reaped, result>>

(* send: a fragment that does not fit the ring, or that finds another epoch,
   ends the call where it is, without a cancel. *)
Send(k) ==
  LET m == call[k] IN
  /\ at[k] = "send"
  /\ IF epochChanged \/ Len(up[k]) >= UpCap
     THEN End(k, "unsent") /\ UNCHANGED <<up, down, reaped>>
     ELSE /\ up' = [up EXCEPT ![k] = Append(@,
               [corr |-> m.corr, type |-> "request", ok |-> TRUE, deadline |-> m.deadline,
                body |-> <<m.sent + 1>>, more |-> m.sent + 1 < m.frags])]
          /\ call' = [call EXCEPT ![k].sent = @ + 1]
          /\ at' = [at EXCEPT ![k] = IF m.sent + 1 < m.frags THEN "send" ELSE "await"]
          /\ UNCHANGED <<body, down, reaped, result>>

(* Mutant: the caller waits without a bound of its own. *)
AwaitFailsNoDeadline(k) ==
  /\ at[k] = "await"
  /\ \/ epochChanged
     \/ down[k] = <<>> /\ ctxDone
  /\ at' = [at EXCEPT ![k] = "cancel"]
  /\ UNCHANGED <<call, body, up, down, reaped, result>>

(* awaitReply without an event: a new epoch, the end of the context, the
   deadline; otherwise it sleeps and polls again. *)
AwaitFails(k) ==
  /\ at[k] = "await"
  /\ \/ epochChanged
     \/ down[k] = <<>> /\ (ctxDone \/ (call[k].deadline # 0 /\ clock > call[k].deadline))
  /\ at' = [at EXCEPT ![k] = "cancel"]
  /\ UNCHANGED <<call, body, up, down, reaped, result>>

(* Mutant: the result of another call is taken for this one's. *)
MatchesAny(k, e) == TRUE

Matches(k, e) == e.corr = call[k].corr

(* awaitReply with an event.  Frames of other correlations are skipped; the
   host's own answers are recognised by the correlation alone. *)
AwaitEvent(k) ==
  LET e == Head(down[k]) IN
  /\ at[k] = "await" /\ ~epochChanged /\ down[k] # <<>>
  /\ down' = [down EXCEPT ![k] = Tail(@)]
  /\ UNCHANGED <<up, reaped>>
  /\ IF ~Matches(k, e) THEN UNCHANGED <<at, call, body, result>>
     ELSE IF e.status # "OK"  \* refused by the host, or a status of the module
     THEN at' = [at EXCEPT ![k] = "cancel"] /\ UNCHANGED <<call, body, result>>
     ELSE IF e.more
     THEN body' = [body EXCEPT ![k] = @ + 1] /\ UNCHANGED <<at, call, result>>
     ELSE End(k, IF body[k] + 1 = answered[call[k].corr] THEN "whole" ELSE "wrong")

(* Call after awaitReply failed: the cancel is tried once. *)
(* Mutant: a failed call is not cancelled. *)
CancelNever(k) ==
  /\ at[k] = "cancel"
  /\ UNCHANGED <<up, down, reaped>>
  /\ End(k, "failed")

Cancel(k) ==
  /\ at[k] = "cancel"
  /\ up' = IF epochChanged \/ Len(up[k]) >= UpCap THEN up
           ELSE [up EXCEPT ![k] = Append(@,
                  [corr |-> call[k].corr, type |-> "cancel", ok |-> FALSE, deadline |-> 0,
                   body |-> <<>>, more |-> FALSE])]
  /\ End(k, "failed")
  /\ UNCHANGED <<down, reaped>>

Caller(k) ==
  (Begin(k) \/ Send(k) \/ AwaitFails(k) \/ AwaitEvent(k) \/ Cancel(k))
  /\ UNCHANGED <<serverVars, refused, answered, handled>>
-----------------------------------------------------------------------------
(* The host passes the frames of a caller on.  A request it refuses is
   answered at its first fragment and none of it passed on; nothing of a
   reaped caller is. *)
Forward(k) ==
  LET e == Head(up[k])
      dropped == k \in reaped \/ e.corr \in refused
  IN
  /\ up[k] # <<>> /\ ~epochChanged
  /\ up' = [up EXCEPT ![k] = Tail(@)]
  /\ \/ /\ ~dropped /\ Len(inbox) < InCap
        /\ inbox' = Append(inbox, e)
        /\ UNCHANGED <<down, refused>>
     \/ /\ ~dropped /\ e.type = "request" /\ e.body = <<1>> /\ Len(down[k]) < DownCap
        /\ down' = [down EXCEPT ![k] = Append(@, [corr |-> e.corr, status |-> "Refused",
                                                  more |-> FALSE])]
        /\ refused' = refused \cup {e.corr}
        /\ UNCHANGED inbox
     \/ dropped /\ UNCHANGED <<inbox, down, refused>>
  /\ UNCHANGED <<hasHandler, outbox, delivered, epochChanged, ctxDone, clock, loop, handlers,
                 at, call, body, reaped, result, answered, handled>>

Answer(k) ==
  LET c == Head(outbox).corr IN
  /\ outbox # <<>> /\ Owner[c] = k
  /\ outbox' = Tail(outbox)
  /\ \/ /\ k \notin reaped /\ Len(down[k]) < DownCap
        /\ down' = [down EXCEPT ![k] = Append(@, Head(outbox))]
     \/ k \in reaped /\ UNCHANGED down
  /\ UNCHANGED <<hasHandler, inbox, delivered, epochChanged, ctxDone, clock, loop, handlers,
                 at, call, body, up, reaped, refused, result, answered, handled>>

Reap(k) ==
  /\ k \notin reaped /\ reaped' = reaped \cup {k}
  /\ UNCHANGED <<serverVars, at, call, body, up, down, refused, result, answered, handled>>

Router(k) == Forward(k) \/ Answer(k)
-----------------------------------------------------------------------------
(* The module, with what its handler is given and how it answers recorded. *)
Module ==
  /\ Loop \/ Handler
  /\ handled' = [c \in Correlations |->
       IF c \in jobs' \ jobs THEN Grown(Head(inbox)) ELSE handled[c]]
  /\ answered' = [c \in Correlations |->
       IF reply'.corr = c /\ reply' # reply /\ pc \notin {"reply", "blocked"}
       THEN reply'.left ELSE answered[c]]
  /\ UNCHANGED callVars

World ==
  /\ ChangeEpoch \/ CancelContext \/ Tick
  /\ UNCHANGED <<callVars, answered, handled>>

CallNext ==
  \/ Module \/ World
  \/ \E k \in Callers : Caller(k) \/ Router(k) \/ Reap(k)

CallSpec == CallInit /\ [][CallNext]_allVars

(* Callers and the module run, handlers return and time passes; the host owes
   nothing. *)
CallFair ==
  /\ CallSpec /\ WF_allVars(Module) /\ WF_allVars(World /\ clock' # clock)
  /\ \A k \in Callers :
       WF_allVars((Send(k) \/ AwaitFails(k) \/ AwaitEvent(k) \/ Cancel(k))
                  /\ UNCHANGED <<serverVars, refused, answered, handled>>)
-----------------------------------------------------------------------------
\* The fields of a caller hold what Call, send and awaitReply store in them.
CallTypeOK ==
  /\ at \in [Callers -> {"idle", "send", "await", "cancel"}]
  /\ \A k \in Callers : call[k].sent <= call[k].frags /\ body[k] \in 0 .. MaxChunks
  /\ reaped \subseteq Callers
  /\ result \in [Correlations -> {"none", "unsent", "failed", "whole", "wrong"}]

(***************************************************************************)
(* A call returns its own answer, with every part of it: not the late      *)
(* answer of an earlier call that was given up, and not a part.            *)
(***************************************************************************)
AnswerIsWhole == \A c \in Correlations : result[c] # "wrong"

(***************************************************************************)
(* An answer is given for work that was done on the whole request.         *)
(***************************************************************************)
AnsweredWork ==
  \A c \in Correlations : result[c] = "whole" => handled[c] \in {Parts(n) : n \in 1 .. MaxFrags}

(***************************************************************************)
(* What a caller gets back is what it asked for, whole, or an error.       *)
(***************************************************************************)
AnswersSound == CallTypeOK /\ AnswerIsWhole /\ AnsweredWork

(***************************************************************************)
(* "More keeps the correlation in the request-assembly state until a final *)
(* fragment arrives" (client.go:217): a handler is started with a whole    *)
(* request, never with its last fragments alone.                           *)
(***************************************************************************)
WholeRequests == \A c \in Correlations : handled[c] # <<>> => handled[c][1] = 1

(***************************************************************************)
(* "deadline is the caller's own bound": a call with a deadline ends, also *)
(* when its request or its answer is lost with the slot of the caller.     *)
(***************************************************************************)
CallsEnd == \A k \in Callers : (at[k] # "idle" /\ call[k].deadline # 0) ~> at[k] = "idle"

(***************************************************************************)
(* "Exceeding it publishes a cancel for the correlation before returning": *)
(* a call that gives up leaves a cancel behind its request, unless its     *)
(* ring was full or the host is gone.                                      *)
(***************************************************************************)
GivingUpCancels ==
  [][\A c \in Correlations :
       result[c] = "none" /\ result'[c] = "failed" /\ ~epochChanged /\ Len(up[Owner[c]]) < UpCap
         => \E i \in DOMAIN up'[Owner[c]] : up'[Owner[c]][i].type = "cancel"
                                            /\ up'[Owner[c]][i].corr = c]_allVars
=============================================================================
