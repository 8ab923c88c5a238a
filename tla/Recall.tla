-------------------------------- MODULE Recall --------------------------------
(***************************************************************************)
(* memory_recall (memory_context.c): the bundle of a turn or of the start  *)
(* of a session.  Seven sections are filled, each up to its cap, and then  *)
(* trimmed in the opposite order until the bundle fits; the ids that are   *)
(* left are attributed to the retrieval event.                             *)
(***************************************************************************)
EXTENDS Listing, SequencesExt

CONSTANTS
  InTable,           \* the rows each section's query may list, as numbers in their order
  CapOf,             \* the cap of a section, by session_start
  MaxMatches,        \* MEMORY_DIRECTIVE_MAX_MATCHES, MEMORY_PROSPECTIVE_MAX_MATCHES
  Length(_, _),      \* the rendered length of a row of a section
  Frame,             \* of the bundle without rows
  Asked,             \* the limit_tokens of the callers
  DefaultTurn, DefaultSession, MinLimit, MaxLimit

VARIABLES
  start, hinted,  \* session_start, and whether there is a task hint
  limit,
  at,             \* how many sections are filled, or being trimmed
  phase,          \* "fill", "trim", "attribute" or "out"
  bundle,
  filled,         \* what the sections held before the trim
  surfaced,       \* the directives marked as surfaced
  event           \* the ids of the retrieval event

recallVars == <<start, hinted, limit, at, phase, bundle, filled, surfaced, event>>
-----------------------------------------------------------------------------
Order == <<"rules", "identity", "preferences", "active", "commitments", "reminders", "directives">>
Names == ToSet(Order)

ASSUME RecallAssumption ==
  /\ \A s \in Names : /\ InTable[s] \subseteq Int /\ IsFiniteSet(InTable[s])
                      /\ \A r \in InTable[s] : Length(s, r) \in Nat
                      /\ \A b \in BOOLEAN : CapOf[s][b] \in Nat
  /\ MaxMatches \in Nat /\ Frame \in Nat /\ Asked \subseteq Int
  /\ DefaultTurn \in Int /\ DefaultSession \in Int
  /\ MinLimit \in Int /\ MaxLimit \in Int /\ MinLimit <= MaxLimit

LimitFor(asked, session) ==
  LET given == IF asked > 0 THEN asked ELSE IF session THEN DefaultSession ELSE DefaultTurn
  IN IF given < MinLimit THEN MinLimit ELSE IF given > MaxLimit THEN MaxLimit ELSE given

RecallInit ==
  /\ start \in BOOLEAN /\ hinted \in BOOLEAN
  /\ limit \in {LimitFor(a, start) : a \in Asked}
  /\ at = 1 /\ phase = "fill" /\ event = <<>> /\ surfaced = {}
  /\ bundle = [s \in Names |-> <<>>] /\ filled = [s \in Names |-> <<>>]

(* recall_approx_tokens: four characters to a token, rounded up. *)
Rendered(s, list) == Total([i \in DOMAIN list |-> Length(s, list[i])])
Tokens(b) == (Frame + Total([i \in DOMAIN Order |-> Rendered(Order[i], b[Order[i]])]) + 3) \div 4

SectionCap(s) == IF s \in {"reminders", "directives"}
                 THEN Min({CapOf[s][start], MaxMatches}) ELSE CapOf[s][start]

First(n, set) == [i \in 1 .. Min({n, Cardinality(set)}) |-> Ascending(set)[i]]

(* The next section gets the first rows there are. *)
Fill(s) ==
  /\ phase = "fill" /\ Order[at] = s /\ s # "directives"
  /\ \E there \in SUBSET InTable[s] : bundle' = [bundle EXCEPT ![s] = First(SectionCap(s), there)]
  /\ at' = at + 1
  /\ UNCHANGED <<start, hinted, limit, phase, filled, surfaced, event>>

(* Those the hint matches, or all open ones; each is marked as surfaced. *)
FillDirectives ==
  /\ phase = "fill" /\ Order[at] = "directives"
  /\ \E open \in SUBSET InTable["directives"] : \E matched \in SUBSET open :
       bundle' = [bundle EXCEPT !["directives"] =
                    First(SectionCap("directives"), IF hinted /\ matched # {} THEN matched ELSE open)]
  /\ surfaced' = ToSet(bundle'["directives"])
  /\ filled' = bundle' /\ phase' = "trim"
  /\ UNCHANGED <<start, hinted, limit, at, event>>

(* Mutant: the order in which the sections were filled. *)
TrimmedFirst == Order[Len(Order) + 1 - at]

Trimmed == Order[at]

(* recall_truncate_section drops the last row while the bundle is too long. *)
Trim ==
  /\ phase = "trim"
  /\ IF bundle[Trimmed] # <<>> /\ Tokens(bundle) > limit
     THEN bundle' = [bundle EXCEPT ![Trimmed] = Front(@)] /\ UNCHANGED <<at, phase>>
     ELSE /\ IF at > 1 THEN at' = at - 1 /\ UNCHANGED phase
             ELSE phase' = "attribute" /\ UNCHANGED at
          /\ UNCHANGED bundle
  /\ UNCHANGED <<start, hinted, limit, filled, surfaced, event>>

(* recall_collect_ids: all but the rules, in the order of the sections.  The event holds *)
(* bare ids; the section stands for the table an id is of. *)
Credited(s) == [i \in DOMAIN bundle[s] |-> <<s, bundle[s][i]>>]

Attributed ==
  Credited("identity") \o Credited("preferences") \o Credited("active") \o Credited("commitments")
  \o Credited("reminders") \o Credited("directives")

Attribute ==
  /\ phase = "attribute" /\ phase' = "out" /\ event' = Attributed
  /\ UNCHANGED <<start, hinted, limit, at, bundle, filled, surfaced>>

RecallNext == (\E s \in Names : Fill(s)) \/ FillDirectives \/ Trim \/ Attribute

RecallSpec == RecallInit /\ [][RecallNext]_recallVars
-----------------------------------------------------------------------------
RecallTypeOK ==
  /\ limit \in MinLimit .. MaxLimit /\ at \in 1 .. Len(Order) /\ surfaced \subseteq InTable["directives"]
  /\ phase \in {"fill", "trim", "attribute", "out"}
  /\ \A s \in Names : ToSet(bundle[s]) \subseteq InTable[s] /\ Len(bundle[s]) <= SectionCap(s)

(***************************************************************************)
(* "hard rules must not be silently dropped under token pressure": a       *)
(* section loses its last rows, and one only when every section of less    *)
(* priority is empty already; what leaves fits, or nothing is left to drop.*)
(***************************************************************************)
TrimInverts ==
  /\ phase # "fill" =>
       \A i \in DOMAIN Order :
         /\ IsPrefix(bundle[Order[i]], filled[Order[i]])
         /\ bundle[Order[i]] # filled[Order[i]] =>
              \A j \in i + 1 .. Len(Order) : bundle[Order[j]] = <<>>
  /\ phase = "out" => Tokens(bundle) <= limit \/ \A s \in Names : bundle[s] = <<>>

(***************************************************************************)
(* No row is dropped that would fit beside those before it and all rows of *)
(* more priority.                                                          *)
(***************************************************************************)
Place(s) == CHOOSE k \in DOMAIN Order : Order[k] = s

Before(i, n) ==
  [s \in Names |-> IF Place(s) < i THEN filled[s]
                   ELSE IF Place(s) = i THEN SubSeq(filled[s], 1, n) ELSE <<>>]

TrimIsLeast ==
  phase = "out" =>
    \A i \in DOMAIN Order :
      LET kept == Len(bundle[Order[i]]) IN
      kept < Len(filled[Order[i]]) => Tokens(Before(i, kept + 1)) > limit

(***************************************************************************)
(* The retrieval event names what the prompt shows, after the trim, each   *)
(* row once; every directive shown has been marked as surfaced.            *)
(***************************************************************************)
EventIsShown ==
  phase = "out" =>
    /\ ToSet(event) = UNION {{<<s, r>> : r \in ToSet(bundle[s])} : s \in Names \ {"rules"}}
    /\ IsInjective(event) /\ ToSet(bundle["directives"]) \subseteq surfaced

(***************************************************************************)
(* The bundle of a recall loses the rows of least priority first and no    *)
(* more than it must, and its event names what is left.                    *)
(***************************************************************************)
RecallSound == RecallTypeOK /\ TrimInverts /\ TrimIsLeast /\ EventIsShown
=============================================================================
