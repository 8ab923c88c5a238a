---------------------------- MODULE KnowledgeProofs ----------------------------
(***************************************************************************)
(* Proofs about Directives, Prospective, ContextCache and Derived: a       *)
(* question is asked once and a scan leaves nothing out; a settled         *)
(* reminder is changed by stale calls only, and a match surfaces nothing   *)
(* late; a hit of the context cache is fresh; what is derived from a       *)
(* memory is derived from its text, or the gap is known.                   *)
(***************************************************************************)
EXTENDS ListProofs, Directives, Prospective, ContextCache, Derived

(***************************************************************************)
(* Directives.  The types, with the pairs and queries the workers hold.    *)
(***************************************************************************)
States == {"open", "resolved", "suppressed", "expired"}
OnPair == {"record", "log", "direct", "resolve", "close"}
OnQuery == {"bump", "ask"}

AskTables ==
  /\ conflicts \in [Pairs -> {"none", "pending", "resolved"}]
  /\ log \subseteq Pairs \X {"pending", "resolved"}
  /\ failed \in [Queries -> Nat] /\ scanned \in 0 .. day /\ day \in 1 .. MaxDays
  /\ failures \in Nat

Places ==
  /\ pc \in [Workers -> {"idle", "next", "marker"} \cup OnPair \cup OnQuery]
  /\ arg \in [Workers -> Pairs \cup Queries \cup {None}]
  /\ todo \in [Workers -> SUBSET Pairs] /\ answer \in [Workers -> {None, "scan"}]
  /\ \A w \in Workers : /\ pc[w] \in OnPair => arg[w] \in Pairs
                        /\ pc[w] \in OnQuery => arg[w] \in Queries

Topics == Queries \cup {TopicOf(m) : m \in Memories}
Entry == [cause : Causes, topic : Topics, a : Nat, b : Nat, state : States]

\* A directive is about two memories in order, or about a query and none.
WellFormed(d) ==
  /\ d \in Entry
  /\ d.cause = "contradiction" => 0 < d.a /\ d.a < d.b
  /\ d.cause = "retrieval_failure" => d.a = 0 /\ d.b = 0

\* The unique indexes hold of the rows, whatever their states.
RowsSound(rs) == /\ \A d \in rs : WellFormed(d)
                 /\ \A d, e \in rs : Same(d, e) => d = e

\* A query that is asked about, or is about to be, has failed often enough.
Earned ==
  /\ \A d \in directives : d.cause = "retrieval_failure" /\ d.topic \in Queries
                             => failed[d.topic] >= Threshold
  /\ \A w \in Workers : pc[w] = "ask" => failed[arg[w]] >= Threshold

Asked(q) == \E d \in directives : d.cause = "retrieval_failure" /\ d.topic = q

\* One that has failed often enough is asked about, or a worker is about to ask.
AskedOrAsking ==
  failures = 0 =>
    \A q \in Queries : failed[q] >= Threshold =>
      Asked(q) \/ \E w \in Workers : pc[w] = "ask" /\ arg[w] = q

\* How far the recording of a pair has come.
Recorded(p) == conflicts[p] # "none"
Logged(p) == Recorded(p) /\ <<p, "pending">> \in log
Done(p) == Logged(p) /\ \E d \in directives : About(d, p)

\* Every pair a scan found is recorded, or the one it is at, or still to come.
AtHand(w, p) ==
  /\ arg[w] = p
  /\ \/ pc[w] = "record"
     \/ pc[w] = "log" /\ Recorded(p)
     \/ pc[w] = "direct" /\ Logged(p)

Covered(w) == \A p \in Disagree : p \in todo[w] \/ Done(p) \/ AtHand(w, p)

OnCourse(w) ==
  /\ answer[w] = "scan" /\ pc[w] \in {"next", "record", "log", "direct"} => Covered(w)
  /\ pc[w] = "marker" => \A p \in Disagree : Done(p)

ScanOnCourse ==
  failures = 0 => /\ \A w \in Workers : OnCourse(w)
                  /\ scanned # 0 => \A p \in Disagree : Done(p)

AskInv == AskTables /\ Places /\ RowsSound(directives) /\ Earned /\ AskedOrAsking /\ ScanOnCourse

-----------------------------------------------------------------------------
(* Rows that differ in nothing but their states. *)
Alike(d, e) == d.cause = e.cause /\ d.topic = e.topic /\ d.a = e.a /\ d.b = e.b

KeptIn(rs, new) == \A d \in rs : \E e \in new : Alike(d, e)

(* An insert that ignores duplicates keeps the indexes and finds its row in the table. *)
LEMMA CreateKeeps ==
  ASSUME RowsSound(directives), NEW e, WellFormed(e)
  PROVE  /\ RowsSound(Create(e)) /\ directives \subseteq Create(e)
         /\ Create(e) \subseteq directives \cup {e}
         /\ \E d \in Create(e) : Same(d, e)
<1>1. CASE \E d \in directives : Same(d, e)
  BY <1>1 DEF Create
<1>2. CASE ~\E d \in directives : Same(d, e)
  <2>1. Create(e) = directives \cup {e}
    BY <1>2 DEF Create
  <2>2. Same(e, e)
    BY DEF Same
  <2>3. \A d \in directives : ~Same(d, e) /\ ~Same(e, d)
    BY <1>2 DEF Same
  <2>4. RowsSound(directives \cup {e})
    BY <2>2, <2>3 DEF RowsSound
  <2> QED BY <2>1, <2>2, <2>4
<1> QED BY <1>1, <1>2

Restated(rs, g) == {[d EXCEPT !.state = g[d]] : d \in rs}

(* Changing the states of rows keeps the indexes and every row but for its state. *)
LEMMA RestatedKeeps ==
  ASSUME NEW rs, RowsSound(rs), NEW g \in [rs -> States],
         NEW new, new = Restated(rs, g)
  PROVE  RowsSound(new) /\ KeptIn(rs, new) /\ KeptIn(new, rs)
<1> USE DEF Restated
<1>1. ASSUME NEW d \in rs
      PROVE  /\ WellFormed([d EXCEPT !.state = g[d]])
             /\ Alike(d, [d EXCEPT !.state = g[d]]) /\ Alike([d EXCEPT !.state = g[d]], d)
  <2>1. d \in Entry /\ WellFormed(d) /\ g[d] \in States
    BY DEF RowsSound, WellFormed
  <2>2. PICK e : e = [d EXCEPT !.state = g[d]]
    OBVIOUS
  <2>3. /\ e \in Entry /\ e.cause = d.cause /\ e.topic = d.topic /\ e.a = d.a /\ e.b = d.b
    BY <2>1, <2>2 DEF Entry
  <2>4. WellFormed(e) /\ Alike(d, e) /\ Alike(e, d)
    BY <2>1, <2>3 DEF WellFormed, Alike
  <2> QED BY <2>2, <2>4
<1>2. KeptIn(rs, new) /\ KeptIn(new, rs)
  BY <1>1 DEF KeptIn
<1>3. ASSUME NEW x \in new, NEW y \in new, Same(x, y) PROVE x = y
  <2>1. PICK d \in rs : x = [d EXCEPT !.state = g[d]]
    OBVIOUS
  <2>2. PICK e \in rs : y = [e EXCEPT !.state = g[e]]
    OBVIOUS
  <2>3. Alike(d, x) /\ Alike(e, y)
    BY <1>1, <2>1, <2>2
  <2>4. Same(d, e)
    BY <1>3, <2>3 DEF Same, Alike
  <2>5. d = e
    BY <2>4 DEF RowsSound
  <2> QED BY <2>1, <2>2, <2>5
<1> QED BY <1>1, <1>2, <1>3 DEF RowsSound

(* What memory_directive_create is given. *)
LEMMA QuestionsAreWellFormed ==
  /\ \A p \in Pairs : WellFormed(Contradiction(p)) /\ About(Contradiction(p), p)
  /\ \A q \in Queries : WellFormed(Failure(q))
<1>1. ASSUME NEW p \in Pairs PROVE WellFormed(Contradiction(p)) /\ About(Contradiction(p), p)
  <2>1. PICK a \in Memories, b \in Memories : p[1] = a /\ p[2] = b /\ a # b
    BY DEF Pairs
  <2>2. a \in Nat /\ b \in Nat /\ 0 < a /\ 0 < b
    BY DirectivesAssumption
  <2>3. TopicOf(a) \in Topics
    BY DEF Topics
  <2>4. CASE a > b
    BY <2>1, <2>2, <2>3, <2>4
    DEF WellFormed, Contradiction, NormalPair, About, Entry, Causes, States
  <2>5. CASE ~(a > b)
    BY <2>1, <2>2, <2>3, <2>5
    DEF WellFormed, Contradiction, NormalPair, About, Entry, Causes, States, Pairs
  <2> QED BY <2>4, <2>5
<1>2. ASSUME NEW q \in Queries PROVE WellFormed(Failure(q))
  BY DEF WellFormed, Failure, Entry, Causes, States, Topics
<1> QED BY <1>1, <1>2

-----------------------------------------------------------------------------
(* A step is one of these. *)
LEMMA AskSteps ==
  ASSUME [Next]_vars
  PROVE  \/ UNCHANGED vars \/ Tick \/ Settle
         \/ \E w \in Workers :
              \/ \E p \in Pairs : Call(w, "record", p, {})
              \/ \E p \in Pairs : Call(w, "resolve", p, {})
              \/ \E q \in Queries : Call(w, "bump", q, {})
              \/ Scan(w) \/ Record(w) \/ Log(w) \/ Direct(w) \/ NextPair(w) \/ Marker(w)
              \/ Resolve(w) \/ Close(w) \/ Bump(w) \/ Ask(w)
BY Zenon DEF Next, Calls, Step

(* The types of the tables are kept by every step. *)
LEMMA TablesStep == AskInv /\ [Next]_vars => AskTables'
<1> SUFFICES ASSUME AskInv, [Next]_vars PROVE AskTables'
  OBVIOUS
<1> USE DEF AskInv, AskTables, Places, OnPair, OnQuery
<1>1. CASE UNCHANGED vars
  BY <1>1 DEF vars, records, clock
<1>2. CASE Tick
  BY <1>2, DirectivesAssumption DEF Tick, records
<1>3. CASE Settle
  BY <1>3 DEF Settle, clock
<1>4. ASSUME NEW w \in Workers, NEW pl, NEW a, Call(w, pl, a, {}) PROVE AskTables'
  BY <1>4 DEF Call, records, clock
<1>5. ASSUME NEW w \in Workers, Scan(w) PROVE AskTables'
  BY <1>5 DEF Scan, records, clock
<1>6. ASSUME NEW w \in Workers, Record(w) PROVE AskTables'
  BY <1>6 DEF Record, clock, DbWorks, DbFails
<1>7. ASSUME NEW w \in Workers, Log(w) PROVE AskTables'
  BY <1>7 DEF Log, clock, DbWorks, DbFails
<1>8. ASSUME NEW w \in Workers, Direct(w) PROVE AskTables'
  BY <1>8 DEF Direct, clock, DbWorks, DbFails
<1>9. ASSUME NEW w \in Workers, NextPair(w) PROVE AskTables'
  BY <1>9 DEF NextPair, clock, DbWorks, records
<1>10. ASSUME NEW w \in Workers, Marker(w) PROVE AskTables'
  BY <1>10 DEF Marker, DbWorks, DbFails, records
<1>11. ASSUME NEW w \in Workers, Resolve(w) PROVE AskTables'
  BY <1>11 DEF Resolve, clock, DbWorks, DbFails
<1>12. ASSUME NEW w \in Workers, Close(w) PROVE AskTables'
  BY <1>12 DEF Close, clock, DbWorks, DbFails
<1>13. ASSUME NEW w \in Workers, Bump(w) PROVE AskTables'
  <2>1. arg[w] \in Queries
    BY <1>13 DEF Bump
  <2> QED BY <1>13, <2>1 DEF Bump, clock, DbWorks
<1>14. ASSUME NEW w \in Workers, Ask(w) PROVE AskTables'
  BY <1>14 DEF Ask, clock, DbWorks, DbFails
<1> QED BY <1>1, <1>2, <1>3, <1>4, <1>5, <1>6, <1>7, <1>8, <1>9, <1>10, <1>11, <1>12, <1>13,
          <1>14, AskSteps

(* So are what the workers hold; a step moves one of them at most. *)
OthersStay(w) ==
  \A x \in Workers \ {w} :
    pc'[x] = pc[x] /\ arg'[x] = arg[x] /\ todo'[x] = todo[x] /\ answer'[x] = answer[x]

(* Worker w goes to pl and holds a, t and r afterwards. *)
Enter(w, pl, a, t, r) ==
  /\ Goto(w, pl) /\ arg' = [arg EXCEPT ![w] = a]
  /\ todo' = [todo EXCEPT ![w] = t] /\ answer' = [answer EXCEPT ![w] = r]

Fits(pl, a, t, r) ==
  /\ pl \in {"idle", "next", "marker"} \cup OnPair \cup OnQuery
  /\ a \in Pairs \cup Queries \cup {None} /\ t \subseteq Pairs /\ r \in {None, "scan"}
  /\ pl \in OnPair => a \in Pairs
  /\ pl \in OnQuery => a \in Queries

Entered(w, pl, a, t, r) ==
  Places' /\ OthersStay(w) /\ pc'[w] = pl /\ arg'[w] = a /\ todo'[w] = t /\ answer'[w] = r

LEMMA PlacesMove ==
  ASSUME Places, NEW w \in Workers, NEW pl, NEW a, NEW t, NEW r,
         Enter(w, pl, a, t, r), Fits(pl, a, t, r)
  PROVE  Entered(w, pl, a, t, r)
<1>1. /\ pc' \in [Workers -> {"idle", "next", "marker"} \cup OnPair \cup OnQuery]
      /\ arg' \in [Workers -> Pairs \cup Queries \cup {None}]
      /\ todo' \in [Workers -> SUBSET Pairs] /\ answer' \in [Workers -> {None, "scan"}]
  BY DEF Places, Goto, Enter, Fits
<1>2. OthersStay(w) /\ pc'[w] = pl /\ arg'[w] = a /\ todo'[w] = t /\ answer'[w] = r
  BY DEF Places, Goto, OthersStay, Enter
<1>3. ASSUME NEW x \in Workers
      PROVE  /\ pc'[x] \in OnPair => arg'[x] \in Pairs
             /\ pc'[x] \in OnQuery => arg'[x] \in Queries
  <2>1. CASE x = w
    BY <1>2, <2>1 DEF Fits
  <2>2. CASE x # w
    BY <1>2, <2>2 DEF OthersStay, Places
  <2> QED BY <2>1, <2>2
<1> QED BY <1>1, <1>2, <1>3 DEF Places, Entered

(* The same for a step that leaves what the worker holds alone. *)
LEMMA PlacesGo ==
  ASSUME Places, NEW w \in Workers, NEW pl, Goto(w, pl), UNCHANGED <<arg, todo, answer>>,
         Fits(pl, arg[w], todo[w], answer[w])
  PROVE  Entered(w, pl, arg[w], todo[w], answer[w])
<1>1. Enter(w, pl, arg[w], todo[w], answer[w])
  BY DEF Places, Enter
<1> QED BY <1>1, PlacesMove

(* What a call starts with, and where a step of a worker leaves it. *)
LEMMA PlacesStep ==
  ASSUME Places, NEW w \in Workers
  PROVE  /\ \A p \in Pairs, pl \in {"record", "resolve"} :
              Call(w, pl, p, {}) => Entered(w, pl, p, {}, None)
         /\ \A q \in Queries : Call(w, "bump", q, {}) => Entered(w, "bump", q, {}, None)
         /\ Scan(w) => Entered(w, "next", arg[w], Disagree, "scan")
         /\ (Record(w) \/ Log(w) \/ Direct(w) \/ Marker(w) \/ Resolve(w) \/ Close(w) \/ Bump(w)
              \/ Ask(w))
              => Entered(w, pc'[w], arg[w], todo[w], answer[w])
         /\ NextPair(w) =>
              \/ \E p \in todo[w] : Entered(w, "record", p, todo[w] \ {p}, answer[w])
              \/ /\ todo[w] = {}
                 /\ Entered(w, IF answer[w] = "scan" THEN "marker" ELSE "idle",
                            arg[w], todo[w], answer[w])
<1>1. /\ DOMAIN pc = Workers /\ arg[w] \in Pairs \cup Queries \cup {None} /\ todo[w] \subseteq Pairs
      /\ answer[w] \in {None, "scan"}
      /\ pc[w] \in OnPair => arg[w] \in Pairs
      /\ pc[w] \in OnQuery => arg[w] \in Queries
  BY DEF Places
<1>2. ASSUME NEW p \in Pairs, NEW pl \in {"record", "resolve"}, Call(w, pl, p, {})
      PROVE  Entered(w, pl, p, {}, None)
  <2>1. Enter(w, pl, p, {}, None)
    BY <1>2 DEF Call, Enter
  <2>2. Fits(pl, p, {}, None)
    BY DEF Fits, OnPair, OnQuery
  <2> QED BY <2>1, <2>2, PlacesMove
<1>3. ASSUME NEW q \in Queries, Call(w, "bump", q, {})
      PROVE  Entered(w, "bump", q, {}, None)
  <2>1. Enter(w, "bump", q, {}, None)
    BY <1>3 DEF Call, Enter
  <2>2. Fits("bump", q, {}, None)
    BY DEF Fits, OnPair, OnQuery
  <2> QED BY <2>1, <2>2, PlacesMove
<1>4. ASSUME Scan(w) PROVE Entered(w, "next", arg[w], Disagree, "scan")
  <2>1. Enter(w, "next", arg[w], Disagree, "scan")
    BY <1>4 DEF Scan, Enter, Places
  <2>2. Fits("next", arg[w], Disagree, "scan")
    BY <1>1, DirectivesAssumption DEF Fits, OnPair, OnQuery, Pairs
  <2> QED BY <2>1, <2>2, PlacesMove
<1>5. ASSUME Record(w) \/ Log(w) \/ Direct(w) \/ Marker(w) \/ Resolve(w) \/ Close(w) \/ Bump(w)
               \/ Ask(w)
      PROVE  Entered(w, pc'[w], arg[w], todo[w], answer[w])
  <2>1. UNCHANGED <<arg, todo, answer>>
    BY <1>5, Zenon DEF Record, Log, Direct, Marker, Resolve, Close, Bump, Ask
  <2>2. PICK pl : /\ Goto(w, pl)
                  /\ \/ pl \in {"idle", "next"}
                     \/ pl \in {"log", "direct", "close"} /\ pc[w] \in OnPair
                     \/ pl = "ask" /\ pc[w] \in OnQuery
    <3>1. CASE Record(w)
      BY <3>1 DEF Record, OnPair
    <3>2. CASE Log(w)
      BY <3>2 DEF Log, OnPair
    <3>3. CASE Direct(w) \/ Marker(w) \/ Close(w) \/ Ask(w)
      BY <3>3 DEF Direct, Marker, Close, Ask
    <3>4. CASE Resolve(w)
      BY <3>4 DEF Resolve, OnPair
    <3>5. CASE Bump(w)
      BY <3>5 DEF Bump, OnQuery
    <3> QED BY <1>5, <3>1, <3>2, <3>3, <3>4, <3>5
  <2>3. Fits(pl, arg[w], todo[w], answer[w])
    BY <1>1, <2>2 DEF Fits, OnPair, OnQuery
  <2>4. pc'[w] = pl
    BY <1>1, <2>2 DEF Goto
  <2> QED BY <2>1, <2>2, <2>3, <2>4, PlacesGo
<1>6. ASSUME NextPair(w)
      PROVE  \/ \E p \in todo[w] : Entered(w, "record", p, todo[w] \ {p}, answer[w])
             \/ /\ todo[w] = {}
                /\ Entered(w, IF answer[w] = "scan" THEN "marker" ELSE "idle",
                           arg[w], todo[w], answer[w])
  <2>1. ASSUME NEW p \in todo[w], arg' = [arg EXCEPT ![w] = p], Goto(w, "record"),
               todo' = [todo EXCEPT ![w] = @ \ {p}]
        PROVE  Entered(w, "record", p, todo[w] \ {p}, answer[w])
    <3>1. Enter(w, "record", p, todo[w] \ {p}, answer[w])
      BY <1>6, <2>1 DEF Enter, NextPair, Places
    <3>2. Fits("record", p, todo[w] \ {p}, answer[w])
      BY <1>1 DEF Fits, OnPair, OnQuery
    <3> QED BY <3>1, <3>2, PlacesMove
  <2>2. ASSUME Goto(w, IF answer[w] = "scan" THEN "marker" ELSE "idle"), UNCHANGED <<arg, todo>>
        PROVE  Entered(w, IF answer[w] = "scan" THEN "marker" ELSE "idle",
                       arg[w], todo[w], answer[w])
    <3>1. PICK pl : pl = IF answer[w] = "scan" THEN "marker" ELSE "idle"
      OBVIOUS
    <3>2. UNCHANGED <<arg, todo, answer>>
      BY <1>6, <2>2 DEF NextPair
    <3>3. Fits(pl, arg[w], todo[w], answer[w])
      BY <1>1, <3>1 DEF Fits, OnPair, OnQuery
    <3> QED BY <2>2, <3>1, <3>2, <3>3, PlacesGo
  <2> QED BY <1>6, <2>1, <2>2 DEF NextPair
<1> QED BY <1>2, <1>3, <1>4, <1>5, <1>6

(* A step is of one worker, or of none. *)
CallStep(w) ==
  \/ \E p \in Pairs, pl \in {"record", "resolve"} : Call(w, pl, p, {})
  \/ \E q \in Queries : Call(w, "bump", q, {})
  \/ Scan(w)

StepOf(w) ==
  \/ w \notin Workers /\ UNCHANGED <<pc, arg, todo, answer>> /\ (UNCHANGED vars \/ Tick \/ Settle)
  \/ w \in Workers /\ (CallStep(w) \/ Record(w) \/ Log(w) \/ Direct(w) \/ NextPair(w) \/ Marker(w)
                       \/ Resolve(w) \/ Close(w) \/ Bump(w) \/ Ask(w))

LEMMA SomeoneSteps == ASSUME [Next]_vars PROVE \E w : StepOf(w)
<1>1. PICK none : none \notin Workers
  BY NoSetContainsEverything
<1>2. CASE UNCHANGED vars \/ Tick \/ Settle
  <2>1. UNCHANGED <<pc, arg, todo, answer>>
    BY <1>2 DEF vars, Tick, Settle
  <2> QED BY <1>1, <1>2, <2>1 DEF StepOf
<1>3. ASSUME NEW w \in Workers, NEW p \in Pairs, Call(w, "record", p, {}) \/ Call(w, "resolve", p, {})
      PROVE  StepOf(w)
  BY <1>3 DEF StepOf, CallStep
<1>4. ASSUME NEW w \in Workers, NEW q \in Queries, Call(w, "bump", q, {}) PROVE StepOf(w)
  BY <1>4 DEF StepOf, CallStep
<1>5. ASSUME NEW w \in Workers,
             \/ Scan(w) \/ Record(w) \/ Log(w) \/ Direct(w) \/ NextPair(w) \/ Marker(w)
             \/ Resolve(w) \/ Close(w) \/ Bump(w) \/ Ask(w)
      PROVE  StepOf(w)
  BY <1>5 DEF StepOf, CallStep
<1> QED BY <1>2, <1>3, <1>4, <1>5, AskSteps, Zenon

LEMMA StepMovesOne ==
  ASSUME AskInv, NEW w, StepOf(w)
  PROVE  Places' /\ OthersStay(w)
<1>1. CASE w \notin Workers /\ UNCHANGED <<pc, arg, todo, answer>>
  BY <1>1 DEF AskInv, Places, OthersStay
<1>2. CASE w \in Workers /\ CallStep(w)
  BY <1>2, PlacesStep DEF AskInv, CallStep, Entered
<1>3. CASE w \in Workers /\ NextPair(w)
  BY <1>3, PlacesStep DEF AskInv, Entered
<1>4. CASE w \in Workers /\ (Record(w) \/ Log(w) \/ Direct(w) \/ Marker(w) \/ Resolve(w) \/ Close(w)
                              \/ Bump(w) \/ Ask(w))
  <2>1. Entered(w, pc'[w], arg[w], todo[w], answer[w])
    BY <1>4, PlacesStep, Zenon DEF AskInv
  <2> QED BY <2>1 DEF Entered
<1> QED BY <1>1, <1>2, <1>3, <1>4 DEF StepOf

(* The rows stay sound, none is lost, and a new one is about a pair or a failing query. *)
New(d) == d.cause = "contradiction" \/ \E w \in Workers : pc[w] = "ask" /\ d = Failure(arg[w])

RowsKept ==
  /\ RowsSound(directives') /\ KeptIn(directives, directives')
  /\ \A d \in directives' : New(d) \/ \E e \in directives : Alike(d, e)

LEMMA RowsStay == ASSUME RowsSound(directives), directives' = directives PROVE RowsKept
<1>1. \A d \in directives : Alike(d, d)
  BY DEF Alike
<1> QED BY <1>1 DEF RowsKept, KeptIn

LEMMA CreateIsKept ==
  ASSUME RowsSound(directives), NEW e, WellFormed(e), New(e), directives' = Create(e)
  PROVE  RowsKept /\ \E d \in directives' : Same(d, e)
<1>1. \A d \in directives : Alike(d, d)
  BY DEF Alike
<1> QED BY <1>1, CreateKeeps DEF RowsKept, KeptIn

LEMMA RestateIsKept ==
  ASSUME RowsSound(directives), NEW g \in [directives -> States],
         directives' = Restated(directives, g)
  PROVE  RowsKept
<1>1. PICK new : new = directives'
  OBVIOUS
<1>2. RowsSound(new) /\ KeptIn(directives, new) /\ KeptIn(new, directives)
  BY <1>1, RestatedKeeps
<1> QED BY <1>1, <1>2 DEF RowsKept, KeptIn, Alike

LEMMA SettleKeeps == ASSUME RowsSound(directives), Settle PROVE RowsKept
<1>1. PICK d \in directives, s \in {"resolved", "suppressed", "expired"} :
        directives' = (directives \ {d}) \cup {[d EXCEPT !.state = s]}
  BY DEF Settle
<1>2. PICK g : g = [x \in directives |-> IF x = d THEN s ELSE x.state]
  OBVIOUS
<1>3. ASSUME NEW x \in directives PROVE x \in Entry /\ x.state \in States /\ [x EXCEPT !.state = x.state] = x
  BY DEF RowsSound, WellFormed, Entry
<1>4. g \in [directives -> States]
  BY <1>2, <1>3 DEF States
<1>5. \A x \in directives : [x EXCEPT !.state = g[x]] = IF x = d THEN [d EXCEPT !.state = s] ELSE x
  BY <1>2, <1>3
<1>6. directives' = Restated(directives, g)
  <2>1. ASSUME NEW y \in directives' PROVE y \in Restated(directives, g)
    <3>1. CASE y \in directives \ {d}
      BY <1>5, <3>1 DEF Restated
    <3>2. CASE y = [d EXCEPT !.state = s]
      BY <1>5, <3>2 DEF Restated
    <3> QED BY <1>1, <2>1, <3>1, <3>2
  <2>2. ASSUME NEW y \in Restated(directives, g) PROVE y \in directives'
    <3>1. PICK x \in directives : y = [x EXCEPT !.state = g[x]]
      BY DEF Restated
    <3>2. y = IF x = d THEN [d EXCEPT !.state = s] ELSE x
      BY <1>5, <3>1
    <3> QED BY <1>1, <3>2
  <2> QED BY <2>1, <2>2
<1> QED BY <1>4, <1>6, RestateIsKept

LEMMA CloseKeeps == ASSUME RowsSound(directives), NEW w \in Workers, Close(w) PROVE RowsKept
<1>1. CASE UNCHANGED directives
  BY <1>1, RowsStay
<1>2. CASE directives' = {IF About(d, arg[w]) /\ d.state = "open"
                          THEN [d EXCEPT !.state = "resolved"] ELSE d : d \in directives}
  <2>1. PICK g : g = [d \in directives |-> IF About(d, arg[w]) /\ d.state = "open" THEN "resolved"
                                            ELSE d.state]
    OBVIOUS
  <2>2. ASSUME NEW x \in directives PROVE x.state \in States /\ [x EXCEPT !.state = x.state] = x
    BY DEF RowsSound, WellFormed, Entry
  <2>3. g \in [directives -> States]
    BY <2>1, <2>2 DEF States
  <2>4. \A d \in directives : [d EXCEPT !.state = g[d]] =
          IF About(d, arg[w]) /\ d.state = "open" THEN [d EXCEPT !.state = "resolved"] ELSE d
    BY <2>1, <2>2
  <2>5. directives' = Restated(directives, g)
    <3>1. ASSUME NEW y \in directives' PROVE y \in Restated(directives, g)
      <4>1. PICK d \in directives :
              y = IF About(d, arg[w]) /\ d.state = "open" THEN [d EXCEPT !.state = "resolved"] ELSE d
        BY <1>2, <3>1
      <4> QED BY <2>4, <4>1 DEF Restated
    <3>2. ASSUME NEW y \in Restated(directives, g) PROVE y \in directives'
      <4>1. PICK d \in directives : y = [d EXCEPT !.state = g[d]]
        BY DEF Restated
      <4>2. y = IF About(d, arg[w]) /\ d.state = "open" THEN [d EXCEPT !.state = "resolved"] ELSE d
        BY <2>4, <4>1
      <4> QED BY <1>2, <4>2
    <3> QED BY <3>1, <3>2
  <2> QED BY <2>3, <2>5, RestateIsKept
<1> QED BY <1>1, <1>2 DEF Close

LEMMA RowsStep == ASSUME AskInv, NEW w, StepOf(w) PROVE RowsKept
<1>1. RowsSound(directives) /\ Places
  BY DEF AskInv
<1>2. CASE w \notin Workers
  <2>1. CASE UNCHANGED vars \/ Tick
    BY <1>1, <2>1, RowsStay DEF vars, records, Tick
  <2> QED BY <1>1, <1>2, <2>1, SettleKeeps DEF StepOf
<1>3. CASE w \in Workers /\ Direct(w)
  <2>1. arg[w] \in Pairs
    BY <1>1, <1>3 DEF Direct, Places, OnPair
  <2>2. WellFormed(Contradiction(arg[w])) /\ New(Contradiction(arg[w]))
    BY <2>1, QuestionsAreWellFormed DEF New, Contradiction
  <2> QED BY <1>1, <1>3, <2>2, CreateIsKept, RowsStay DEF Direct
<1>4. CASE w \in Workers /\ Ask(w)
  <2>1. arg[w] \in Queries /\ pc[w] = "ask"
    BY <1>1, <1>4 DEF Ask, Places, OnQuery
  <2>2. WellFormed(Failure(arg[w])) /\ New(Failure(arg[w]))
    BY <1>4, <2>1, QuestionsAreWellFormed DEF New
  <2> QED BY <1>1, <1>4, <2>2, CreateIsKept, RowsStay DEF Ask
<1>5. CASE w \in Workers /\ Close(w)
  BY <1>1, <1>5, CloseKeeps
<1>6. CASE w \in Workers /\ (CallStep(w) \/ Record(w) \/ Log(w) \/ NextPair(w) \/ Marker(w) \/ Resolve(w)
                              \/ Bump(w))
  <2>1. UNCHANGED directives
    BY <1>6 DEF CallStep, Call, Scan, Record, Log, NextPair, Marker, Resolve, Bump, records
  <2> QED BY <1>1, <2>1, RowsStay
<1> QED BY <1>2, <1>3, <1>4, <1>5, <1>6 DEF StepOf

(* What is recorded of a pair stays recorded. *)
Lasting == \A p \in Pairs : /\ Recorded(p) => Recorded(p)'
                            /\ Logged(p) => Logged(p)'
                            /\ Done(p) => Done(p)'

LEMMA RecordsLast == ASSUME AskInv, NEW w, StepOf(w) PROVE Lasting
<1>1. conflicts \in [Pairs -> {"none", "pending", "resolved"}]
  BY DEF AskInv, AskTables
<1>2. KeptIn(directives, directives')
  BY RowsStep DEF RowsKept
<1>3. /\ \A p \in Pairs : conflicts[p] # "none" => conflicts'[p] # "none"
      /\ log \subseteq log'
  <2>1. CASE w \notin Workers
    BY <2>1 DEF StepOf, vars, records, Tick, Settle
  <2>2. CASE w \in Workers /\ Record(w)
    BY <1>1, <2>2 DEF Record
  <2>3. CASE w \in Workers /\ Resolve(w)
    BY <1>1, <2>3 DEF Resolve
  <2>4. CASE w \in Workers /\ (Log(w) \/ Close(w))
    BY <2>4 DEF Log, Close
  <2>5. CASE w \in Workers /\ (CallStep(w) \/ Direct(w) \/ NextPair(w) \/ Marker(w) \/ Bump(w) \/ Ask(w))
    BY <2>5 DEF CallStep, Call, Scan, Direct, NextPair, Marker, Bump, Ask, records
  <2> QED BY <2>1, <2>2, <2>3, <2>4, <2>5 DEF StepOf
<1>4. ASSUME NEW p \in Pairs
      PROVE  (\E d \in directives : About(d, p)) => \E d \in directives' : About(d, p)
  BY <1>2 DEF KeptIn, Alike, About
<1> QED BY <1>3, <1>4 DEF Lasting, Recorded, Logged, Done

(* Counts of failures only grow, and a worker goes on to ask when one has grown enough. *)
LEMMA FailuresCount ==
  ASSUME AskInv, NEW w, StepOf(w)
  PROVE  /\ failed' \in [Queries -> Nat] /\ \A q \in Queries : failed'[q] >= failed[q]
         /\ w \in Workers /\ pc'[w] = "ask" =>
              /\ pc[w] = "bump" /\ arg[w] \in Queries /\ arg'[w] = arg[w]
              /\ failed'[arg[w]] >= Threshold
         /\ \A q \in Queries : failed'[q] >= Threshold =>
              failed[q] >= Threshold \/ (w \in Workers /\ arg'[w] = q /\ pc'[w] = "ask")
<1>1. failed \in [Queries -> Nat] /\ Places /\ Threshold \in Nat
  BY DirectivesAssumption DEF AskInv, AskTables
<1>2. CASE w \notin Workers
  <2>1. failed' = failed
    BY <1>2 DEF StepOf, vars, records, Tick, Settle
  <2> QED BY <1>1, <1>2, <2>1
<1>3. CASE w \in Workers /\ Bump(w)
  <2>1. arg[w] \in Queries /\ pc[w] = "bump" /\ DOMAIN pc = Workers
    BY <1>1, <1>3 DEF Bump, Places, OnQuery
  <2>2. failed' = [failed EXCEPT ![arg[w]] = failed[arg[w]] + 1] /\ arg' = arg
    BY <1>3 DEF Bump
  <2>3. pc'[w] = IF failed[arg[w]] + 1 < Threshold THEN "idle" ELSE "ask"
    BY <1>3, <2>1 DEF Bump, Goto
  <2>4. PICK n : n = failed[arg[w]] /\ n \in Nat
    BY <1>1, <2>1
  <2>5. failed'[arg[w]] = n + 1 /\ \A q \in Queries \ {arg[w]} : failed'[q] = failed[q]
    BY <1>1, <2>1, <2>2, <2>4
  <2>6. failed' \in [Queries -> Nat] /\ \A q \in Queries : failed'[q] >= failed[q]
    BY <1>1, <2>1, <2>2, <2>4, <2>5
  <2>7. ASSUME NEW q \in Queries, failed'[q] >= Threshold
        PROVE  failed[q] >= Threshold \/ (arg'[w] = q /\ pc'[w] = "ask")
    <3>1. CASE q = arg[w]
      <4>1. ~(n + 1 < Threshold)
        BY <1>1, <2>4, <2>5, <2>7, <3>1
      <4> QED BY <2>2, <2>3, <2>4, <3>1, <4>1
    <3>2. CASE q # arg[w]
      BY <2>5, <2>7, <3>2
    <3> QED BY <3>1, <3>2
  <2>8. ASSUME pc'[w] = "ask" PROVE failed'[arg[w]] >= Threshold
    <3>1. ~(n + 1 < Threshold)
      BY <2>3, <2>4, <2>8
    <3> QED BY <1>1, <2>4, <2>5, <3>1
  <2> QED BY <1>3, <2>1, <2>2, <2>6, <2>7, <2>8
<1>4. CASE w \in Workers /\ (CallStep(w) \/ Record(w) \/ Log(w) \/ Direct(w) \/ NextPair(w) \/ Marker(w)
                              \/ Resolve(w) \/ Close(w) \/ Ask(w))
  <2>1. failed' = failed
    BY <1>4 DEF CallStep, Call, Scan, Record, Log, Direct, NextPair, Marker, Resolve, Close, Ask,
                records
  <2>2. pc'[w] # "ask"
    <3>1. DOMAIN pc = Workers
      BY <1>1 DEF Places
    <3>2. CASE CallStep(w)
      BY <1>4, <3>1, <3>2 DEF CallStep, Call, Scan, Goto
    <3>3. CASE NextPair(w)
      BY <1>4, <3>1, <3>3 DEF NextPair, Goto
    <3>4. CASE Record(w) \/ Log(w) \/ Direct(w) \/ Marker(w) \/ Resolve(w) \/ Close(w) \/ Ask(w)
      BY <1>4, <3>1, <3>4 DEF Record, Log, Direct, Marker, Resolve, Close, Ask, Goto
    <3> QED BY <1>4, <3>2, <3>3, <3>4
  <2> QED BY <1>1, <2>1, <2>2
<1> QED BY <1>2, <1>3, <1>4 DEF StepOf

LEMMA EarnedStep == ASSUME AskInv, NEW w, StepOf(w) PROVE Earned'
<1>1. Earned /\ Places /\ Threshold \in Nat /\ failed \in [Queries -> Nat]
  BY DirectivesAssumption DEF AskInv, AskTables
<1>2. /\ failed' \in [Queries -> Nat] /\ \A q \in Queries : failed'[q] >= failed[q]
      /\ w \in Workers /\ pc'[w] = "ask" => failed'[arg'[w]] >= Threshold
  BY FailuresCount
<1>3. OthersStay(w) /\ Places'
  BY StepMovesOne
<1>4. \A q \in Queries : failed[q] >= Threshold => failed'[q] >= Threshold
  BY <1>1, <1>2
<1>5. ASSUME NEW d \in directives', d.cause = "retrieval_failure", d.topic \in Queries
      PROVE  failed'[d.topic] >= Threshold
  <2>1. CASE New(d)
    <3>1. PICK x \in Workers : pc[x] = "ask" /\ d = Failure(arg[x])
      BY <1>5, <2>1 DEF New
    <3>2. d.topic = arg[x] /\ failed[arg[x]] >= Threshold
      BY <1>1, <3>1 DEF Failure, Earned
    <3> QED BY <1>4, <1>5, <3>2
  <2>2. ASSUME NEW e \in directives, Alike(d, e) PROVE failed'[d.topic] >= Threshold
    BY <1>1, <1>4, <1>5, <2>2 DEF Earned, Alike
  <2> QED BY <2>1, <2>2, RowsStep DEF RowsKept
<1>6. ASSUME NEW x \in Workers, pc'[x] = "ask" PROVE failed'[arg'[x]] >= Threshold
  <2>1. CASE x = w
    BY <1>2, <1>6, <2>1
  <2>2. CASE x # w
    <3>1. pc[x] = "ask" /\ arg'[x] = arg[x] /\ arg[x] \in Queries
      BY <1>1, <1>3, <1>6, <2>2 DEF OthersStay, Places, OnQuery
    <3> QED BY <1>1, <1>4, <3>1 DEF Earned
  <2> QED BY <2>1, <2>2
<1> QED BY <1>5, <1>6 DEF Earned

(* No failure is taken back. *)
LEMMA FailuresStay == ASSUME AskInv, NEW w, StepOf(w), failures' = 0 PROVE failures = 0 /\ DbWorks
<1>1. failures \in Nat
  BY DEF AskInv, AskTables
<1>2. failures' = failures \/ failures' = failures + 1
  BY DEF StepOf, vars, Tick, Settle, CallStep, Call, Scan, Record, Log, Direct, NextPair, Marker,
         Resolve, Close, Bump, Ask, DbWorks, DbFails
<1> QED BY <1>1, <1>2 DEF DbWorks

(* A worker about to ask does ask, unless the store fails. *)
LEMMA AskedStep == ASSUME AskInv, NEW w, StepOf(w) PROVE AskedOrAsking'
<1> SUFFICES ASSUME failures' = 0, NEW q \in Queries, failed'[q] >= Threshold
             PROVE  Asked(q)' \/ (\E x \in Workers : pc'[x] = "ask" /\ arg'[x] = q)
  BY DEF AskedOrAsking
<1>1. failures = 0 /\ DbWorks /\ Places /\ AskedOrAsking
  BY FailuresStay DEF AskInv
<1>2. OthersStay(w)
  BY StepMovesOne
<1>3. Asked(q) => Asked(q)'
  BY RowsStep DEF RowsKept, KeptIn, Asked, Alike
<1>4. CASE failed[q] >= Threshold
  <2>1. CASE Asked(q)
    BY <1>3, <2>1
  <2>2. ASSUME NEW x \in Workers, pc[x] = "ask", arg[x] = q
        PROVE  Asked(q)' \/ (pc'[x] = "ask" /\ arg'[x] = q)
    <3>1. CASE x # w
      BY <1>2, <2>2, <3>1 DEF OthersStay
    <3>2. CASE x = w
      <4>1. Ask(w)
        BY <2>2, <3>2 DEF StepOf, CallStep, Call, Scan, Record, Log, Direct, NextPair, Marker, Resolve,
                          Close, Bump
      <4>2. directives' = Create(Failure(q))
        BY <1>1, <2>2, <3>2, <4>1 DEF Ask, DbWorks, DbFails
      <4>3. WellFormed(Failure(q)) /\ New(Failure(q)) /\ RowsSound(directives)
        BY <2>2, <3>2, QuestionsAreWellFormed DEF New, AskInv
      <4>4. PICK e : e = Failure(q)
        OBVIOUS
      <4>5. PICK d \in directives' : Same(d, e)
        BY <4>2, <4>3, <4>4, CreateIsKept
      <4>6. e.cause = "retrieval_failure" /\ e.topic = q
        BY <4>4 DEF Failure
      <4>7. d.cause = "retrieval_failure" /\ d.topic = q
        BY <4>5, <4>6 DEF Same
      <4> QED BY <4>7 DEF Asked
    <3> QED BY <3>1, <3>2
  <2> QED BY <1>1, <1>4, <2>1, <2>2 DEF AskedOrAsking
<1>5. CASE ~(failed[q] >= Threshold)
  BY <1>5, FailuresCount
<1> QED BY <1>4, <1>5

(* The pair a scan is at, or is still to take, is not lost on the way. *)
LEMMA CoverMoves ==
  ASSUME AskInv, NEW w \in Workers, StepOf(w), failures' = 0,
         Record(w) \/ Log(w) \/ Direct(w) \/ NextPair(w)
  PROVE  OnCourse(w)'
<1>1. /\ failures = 0 /\ DbWorks /\ Places /\ OnCourse(w) /\ Lasting
      /\ conflicts \in [Pairs -> {"none", "pending", "resolved"}] /\ RowsSound(directives)
  BY FailuresStay, RecordsLast DEF AskInv, ScanOnCourse, AskTables
<1>2. Disagree \subseteq Pairs /\ DOMAIN pc = Workers
  BY <1>1, DirectivesAssumption DEF Pairs, Places
<1>3. \A p \in Disagree : Done(p) => Done(p)'
  BY <1>1, <1>2 DEF Lasting
<1>4. ~DbFails
  BY <1>1 DEF DbWorks, DbFails
<1>5. CASE Record(w)
  <2>1. /\ pc[w] = "record" /\ pc'[w] = "log" /\ arg' = arg /\ todo' = todo /\ answer' = answer
        /\ conflicts' = [conflicts EXCEPT ![arg[w]] = "pending"]
    BY <1>2, <1>4, <1>5 DEF Record, Goto
  <2>2. arg[w] \in Pairs
    BY <1>1, <2>1 DEF Places, OnPair
  <2>3. Recorded(arg[w])'
    BY <1>1, <2>1, <2>2 DEF Recorded
  <2>4. Covered(w) => Covered(w)'
    BY <1>3, <2>1, <2>3 DEF Covered, AtHand
  <2> QED BY <1>1, <2>1, <2>4 DEF OnCourse
<1>6. CASE Log(w)
  <2>1. /\ pc[w] = "log" /\ pc'[w] = "direct" /\ arg' = arg /\ todo' = todo /\ answer' = answer
        /\ log' = log \cup {<<arg[w], "pending">>} /\ conflicts' = conflicts
    BY <1>2, <1>4, <1>6 DEF Log, Goto
  <2>2. Recorded(arg[w]) => Logged(arg[w])'
    BY <2>1 DEF Recorded, Logged
  <2>3. Covered(w) => Covered(w)'
    BY <1>3, <2>1, <2>2 DEF Covered, AtHand
  <2> QED BY <1>1, <2>1, <2>3 DEF OnCourse
<1>7. CASE Direct(w)
  <2>1. /\ pc[w] = "direct" /\ pc'[w] = "next" /\ arg' = arg /\ todo' = todo /\ answer' = answer
        /\ directives' = Create(Contradiction(arg[w])) /\ conflicts' = conflicts /\ log' = log
    BY <1>2, <1>4, <1>7 DEF Direct, Goto
  <2>2. arg[w] \in Pairs
    BY <1>1, <2>1 DEF Places, OnPair
  <2>3. PICK e : e = Contradiction(arg[w])
    OBVIOUS
  <2>4. WellFormed(e) /\ About(e, arg[w]) /\ e.cause = "contradiction" /\ New(e)
    BY <2>2, <2>3, QuestionsAreWellFormed DEF New, Contradiction
  <2>5. PICK d \in directives' : Same(d, e)
    BY <1>1, <2>1, <2>3, <2>4, CreateIsKept
  <2>6. About(d, arg[w])
    BY <2>4, <2>5 DEF Same, About
  <2>7. Logged(arg[w]) => Done(arg[w])'
    BY <2>1, <2>6 DEF Logged, Recorded, Done
  <2>8. Covered(w) => Covered(w)'
    BY <1>3, <2>1, <2>7 DEF Covered, AtHand
  <2> QED BY <1>1, <2>1, <2>8 DEF OnCourse
<1>8. CASE NextPair(w)
  <2>1. pc[w] = "next"
    BY <1>8 DEF NextPair
  <2>2. ASSUME Covered(w), NEW p \in Disagree PROVE p \in todo[w] \/ Done(p)'
    BY <1>3, <2>1, <2>2 DEF Covered, AtHand
  <2>3. ASSUME NEW p \in todo[w], Entered(w, "record", p, todo[w] \ {p}, answer[w])
        PROVE  OnCourse(w)'
    <3>1. /\ pc'[w] = "record" /\ arg'[w] = p /\ todo'[w] = todo[w] \ {p}
          /\ answer'[w] = answer[w]
      BY <2>3 DEF Entered
    <3>2. Covered(w) => Covered(w)'
      BY <2>2, <3>1 DEF Covered, AtHand
    <3> QED BY <1>1, <2>1, <3>1, <3>2 DEF OnCourse
  <2>4. ASSUME todo[w] = {},
               Entered(w, IF answer[w] = "scan" THEN "marker" ELSE "idle", arg[w], todo[w], answer[w])
        PROVE  OnCourse(w)'
    <3>1. pc'[w] = IF answer[w] = "scan" THEN "marker" ELSE "idle"
      BY <2>4 DEF Entered
    <3>2. answer[w] = "scan" => Covered(w)
      BY <1>1, <2>1 DEF OnCourse
    <3>3. answer[w] = "scan" => \A p \in Disagree : Done(p)'
      BY <2>2, <2>4, <3>2
    <3> QED BY <3>1, <3>3 DEF OnCourse
  <2> QED BY <1>1, <1>8, <2>3, <2>4, PlacesStep
<1> QED BY <1>5, <1>6, <1>7, <1>8

LEMMA CourseStep == ASSUME AskInv, NEW w, StepOf(w) PROVE ScanOnCourse'
<1> SUFFICES ASSUME failures' = 0
             PROVE  /\ \A x \in Workers : OnCourse(x)'
                    /\ scanned' # 0 => \A p \in Disagree : Done(p)'
  BY DEF ScanOnCourse
<1>1. failures = 0 /\ Places /\ ScanOnCourse /\ Lasting /\ OthersStay(w)
  BY FailuresStay, RecordsLast, StepMovesOne DEF AskInv
<1>2. Disagree \subseteq Pairs /\ DOMAIN pc = Workers
  BY <1>1, DirectivesAssumption DEF Pairs, Places
<1>3. /\ \A p \in Disagree : Done(p) => Done(p)'
      /\ \A p \in Pairs : (Recorded(p) => Recorded(p)') /\ (Logged(p) => Logged(p)')
  BY <1>1, <1>2 DEF Lasting
<1>4. ASSUME NEW x \in Workers, x # w PROVE OnCourse(x)'
  <2>1. pc'[x] = pc[x] /\ arg'[x] = arg[x] /\ todo'[x] = todo[x] /\ answer'[x] = answer[x]
    BY <1>1, <1>4 DEF OthersStay
  <2>2. Covered(x) => Covered(x)'
    BY <1>2, <1>3, <2>1 DEF Covered, AtHand
  <2> QED BY <1>1, <1>3, <2>1, <2>2 DEF ScanOnCourse, OnCourse
<1>5. ASSUME w \in Workers PROVE OnCourse(w)'
  <2>1. CASE Record(w) \/ Log(w) \/ Direct(w) \/ NextPair(w)
    BY <1>5, <2>1, CoverMoves
  <2>2. CASE Scan(w)
    <3>1. pc'[w] = "next" /\ todo'[w] = Disagree
      BY <1>1, <1>5, <2>2, PlacesStep DEF Entered
    <3> QED BY <3>1 DEF OnCourse, Covered
  <2>3. CASE Marker(w) \/ Resolve(w) \/ Close(w) \/ Bump(w) \/ Ask(w)
    <3>1. pc'[w] \in {"idle", "close", "ask"}
      BY <1>2, <1>5, <2>3 DEF Marker, Resolve, Close, Bump, Ask, Goto
    <3> QED BY <3>1 DEF OnCourse
  <2>4. ASSUME NEW p \in Pairs, NEW pl \in {"record", "resolve"}, Call(w, pl, p, {}) PROVE OnCourse(w)'
    <3>1. pc'[w] = pl /\ answer'[w] = None
      BY <1>1, <1>5, <2>4, PlacesStep DEF Entered
    <3> QED BY <3>1, DirectivesAssumption DEF OnCourse
  <2>5. ASSUME NEW q \in Queries, Call(w, "bump", q, {}) PROVE OnCourse(w)'
    <3>1. pc'[w] = "bump"
      BY <1>1, <1>5, <2>5, PlacesStep DEF Entered
    <3> QED BY <3>1 DEF OnCourse
  <2> QED BY <1>5, <2>1, <2>2, <2>3, <2>4, <2>5 DEF StepOf, CallStep
<1>6. ASSUME scanned' # 0 PROVE \A p \in Disagree : Done(p)'
  <2>1. CASE scanned' = scanned
    BY <1>1, <1>3, <1>6, <2>1 DEF ScanOnCourse
  <2>2. CASE w \in Workers /\ Marker(w)
    BY <1>1, <1>3, <2>2 DEF ScanOnCourse, OnCourse, Marker
  <2>3. scanned' = scanned \/ (w \in Workers /\ Marker(w))
    <3>1. UNCHANGED vars \/ Tick \/ Settle \/ CallStep(w) => scanned' = scanned
      BY DEF vars, clock, Tick, Settle, CallStep, Call, Scan
    <3>2. Record(w) \/ Log(w) \/ Direct(w) \/ NextPair(w) \/ Resolve(w) \/ Close(w) \/ Bump(w) \/ Ask(w)
            => scanned' = scanned
      BY DEF clock, Record, Log, Direct, NextPair, Resolve, Close, Bump, Ask
    <3> QED BY <3>1, <3>2 DEF StepOf
  <2> QED BY <2>1, <2>2, <2>3
<1> QED BY <1>4, <1>5, <1>6

LEMMA AskInit == Init => AskInv
<1> SUFFICES ASSUME Init PROVE AskInv
  OBVIOUS
<1>1. AskTables
  BY DirectivesAssumption DEF Init, AskTables
<1>2. Places
  BY DEF Init, Places, OnPair, OnQuery
<1>3. RowsSound(directives)
  BY DEF Init, RowsSound
<1>4. Earned /\ AskedOrAsking
  BY DirectivesAssumption DEF Init, Earned, AskedOrAsking
<1>5. ScanOnCourse
  BY DEF Init, ScanOnCourse, OnCourse
<1> QED BY <1>1, <1>2, <1>3, <1>4, <1>5 DEF AskInv

LEMMA AskInvariant == Spec => []AskInv
<1>1. AskInv /\ [Next]_vars => AskInv'
  <2> SUFFICES ASSUME AskInv, [Next]_vars PROVE AskInv'
    OBVIOUS
  <2>1. PICK w : StepOf(w)
    BY SomeoneSteps
  <2>2. AskTables'
    BY TablesStep
  <2>3. Places'
    BY <2>1, StepMovesOne
  <2>4. RowsSound(directives')
    BY <2>1, RowsStep DEF RowsKept
  <2>5. Earned'
    BY <2>1, EarnedStep
  <2>6. AskedOrAsking' /\ ScanOnCourse'
    BY <2>1, AskedStep, CourseStep
  <2> QED BY <2>2, <2>3, <2>4, <2>5, <2>6 DEF AskInv
<1> QED BY <1>1, AskInit, PTL DEF Spec

(***************************************************************************)
(* Two memories, or a failing query, are asked about once and a query not  *)
(* before the threshold; without a failure of the store, one that reached  *)
(* it is asked about, and a scan that is over has recorded, logged and     *)
(* asked about every pair it found (memory_directive_create,               *)
(* memory_directive_record_retrieval_failure,                              *)
(* memory_scan_retroactive_conflicts).                                     *)
(***************************************************************************)
THEOREM QuestionsAreSound == Spec => []QuestionsSound
<1>1. AskInv => QuestionsSound
  <2> SUFFICES ASSUME AskInv PROVE QuestionsSound
    OBVIOUS
  <2>1. TypeOK
    BY DEF AskInv, AskTables, RowsSound, WellFormed, Entry, States, TypeOK
  <2>2. ASSUME NEW d \in directives, NEW e \in directives, {d.a, d.b} = {e.a, e.b},
               d.cause = e.cause, d.a = 0 => d.topic = e.topic
        PROVE  d = e
    <3>1. WellFormed(d) /\ WellFormed(e)
      BY DEF AskInv, RowsSound
    <3>2. CASE d.cause = "contradiction"
      <4>1. d.a \in Nat /\ d.b \in Nat /\ e.a \in Nat /\ e.b \in Nat /\ d.a < d.b /\ e.a < e.b
        BY <2>2, <3>1, <3>2 DEF WellFormed, Entry
      <4>2. d.a = e.a /\ d.b = e.b
        BY <2>2, <4>1
      <4> QED BY <2>2, <3>2, <4>2 DEF Same, AskInv, RowsSound
    <3>3. CASE d.cause = "retrieval_failure"
      <4>1. d.a = 0
        BY <3>1, <3>3 DEF WellFormed
      <4> QED BY <2>2, <3>3, <4>1 DEF Same, AskInv, RowsSound
    <3> QED BY <3>1, <3>2, <3>3 DEF WellFormed, Entry, Causes
  <2>3. ASSUME NEW q \in Queries
        PROVE  /\ Asked(q) => failed[q] >= Threshold
               /\ Quiet /\ failures = 0 /\ failed[q] >= Threshold => Asked(q)
    BY DEF AskInv, Earned, AskedOrAsking, Asked, Quiet
  <2>4. AskedOnce
    BY <2>2, <2>3 DEF AskedOnce, Asked
  <2>5. ScanIsComplete
    BY DEF AskInv, ScanOnCourse, ScanIsComplete, Done, Logged, Recorded
  <2> QED BY <2>1, <2>4, <2>5 DEF QuestionsSound
<1> QED BY <1>1, AskInvariant, PTL

(***************************************************************************)
(* A conflict that is resolved leaves no open directive about its          *)
(* memories, in whichever order it names them (memory_resolve_conflict).   *)
(***************************************************************************)
THEOREM ResolvingCloses == Spec => ResolvedIsClosed
<1>1. ASSUME AskInv, [Next]_vars, NEW w \in Workers, pc[w] = "close", pc'[w] = "idle", failures' = 0,
             NEW d \in directives', {d.a, d.b} = {arg[w][1], arg[w][2]}
      PROVE  d.state # "open"
  <2>1. PICK x : StepOf(x)
    BY <1>1, SomeoneSteps
  <2>2. x = w
    BY <1>1, <2>1, StepMovesOne DEF OthersStay
  <2>3. Close(w)
    BY <1>1, <2>1, <2>2 DEF StepOf, CallStep, Call, Scan, Record, Log, Direct, NextPair, Marker, Resolve,
                            Bump, Ask
  <2>4. failures = 0 /\ DbWorks
    BY <1>1, <2>1, FailuresStay
  <2>5. directives' = {IF About(e, arg[w]) /\ e.state = "open"
                       THEN [e EXCEPT !.state = "resolved"] ELSE e : e \in directives}
    BY <1>1, <2>3, <2>4 DEF Close, DbFails
  <2>6. PICK e \in directives :
          d = IF About(e, arg[w]) /\ e.state = "open" THEN [e EXCEPT !.state = "resolved"] ELSE e
    BY <1>1, <2>5
  <2>7. WellFormed(e) /\ arg[w] \in Pairs
    BY <1>1 DEF AskInv, RowsSound, Places, OnPair
  <2>8. CASE About(e, arg[w]) /\ e.state = "open"
    <3>1. d.state = "resolved"
      BY <2>6, <2>7, <2>8 DEF WellFormed, Entry
    <3> QED BY <3>1
  <2>9. CASE ~About(e, arg[w])
    <3>1. d = e
      BY <2>6, <2>9
    <3>2. e.cause = "retrieval_failure" /\ e.a = 0 /\ e.b = 0
      BY <1>1, <2>7, <2>9, <3>1 DEF About, WellFormed, Entry, Causes
    <3>3. arg[w][1] \in Nat \ {0}
      BY <2>7, DirectivesAssumption DEF Pairs
    <3> QED BY <1>1, <3>1, <3>2, <3>3
  <2>10. CASE About(e, arg[w]) /\ e.state # "open"
    BY <2>6, <2>10
  <2> QED BY <2>8, <2>9, <2>10
<1>2. AskInv /\ [Next]_vars =>
        [\A w \in Workers :
           pc[w] = "close" /\ pc'[w] = "idle" /\ failures' = 0
           => \A d \in directives' : {d.a, d.b} = {arg[w][1], arg[w][2]} => d.state # "open"]_vars
  BY <1>1
<1> QED BY <1>2, AskInvariant, PTL DEF Spec, ResolvedIsClosed

-----------------------------------------------------------------------------
(***************************************************************************)
(* Prospective.  A call on its way to write holds a reminder that exists,  *)
(* and has read a state it may go on from; a reminder that fires once and  *)
(* has fired is never armed again, and one that was late when a match      *)
(* began is not armed while it lasts.                                      *)
(***************************************************************************)
Writing == {"complete", "trigger"}

ReminderInv ==
  /\ state \in [Reminders -> {"absent", "armed", "triggered"} \cup Terminal]
  /\ triggers \in [Reminders -> Nat] /\ today \in 1 .. MaxReminderDays
  /\ late \in [Threads -> SUBSET Reminders]
  /\ ppc \in [Threads -> {"idle", "match"} \cup Writing]
  /\ parg \in [Threads -> Reminders \cup {Unset}]
  /\ seen \in [Threads -> {"absent", "armed", "triggered"}]
  /\ \A w \in Threads : ppc[w] \in Writing =>
       parg[w] \in Reminders /\ seen[w] # "absent" /\ state[parg[w]] # "absent"
  /\ \A r \in Reminders : r \in Once /\ triggers[r] > 0 => state[r] \notin {"absent", "armed"}
  /\ \A w \in Threads : ppc[w] = "match" => \A r \in late[w] : state[r] \notin {"absent", "armed"}

(* A write is made from its place, to the reminder the call holds. *)
LEMMA ReminderStep == ReminderInv /\ [ReminderNext]_reminderVars => ReminderInv'
<1> SUFFICES ASSUME ReminderInv, [ReminderNext]_reminderVars PROVE ReminderInv'
  OBVIOUS
<1> USE DEF ReminderInv, Writing, Terminal
<1>1. CASE UNCHANGED reminderVars
  BY <1>1 DEF reminderVars
<1>8. CASE DayPasses
  <2>1. today' \in 1 .. MaxReminderDays
    BY <1>8, ReminderAssumption DEF DayPasses
  <2> QED BY <1>8, <2>1 DEF DayPasses
<1>2. ASSUME NEW w \in Threads, NEW r \in Reminders, NewReminder(w, r) PROVE ReminderInv'
  BY <1>2 DEF NewReminder
<1>3. ASSUME NEW w \in Threads, NEW r \in Reminders, NEW pl \in Writing, NEW from,
             ReadRow(w, r, pl, from), from \subseteq {"armed", "triggered"}
      PROVE  ReminderInv'
  BY <1>3 DEF ReadRow
<1>4. ASSUME NEW w \in Threads, Complete(w) PROVE ReminderInv'
  BY <1>4 DEF Complete, Return
<1>5. ASSUME NEW w \in Threads, Trigger(w) PROVE ReminderInv'
  BY <1>5 DEF Trigger, Return, Fired
<1>6. ASSUME NEW w \in Threads, Sweep(w) \/ MatchSweep(w) PROVE ReminderInv'
  BY <1>6 DEF Sweep, MatchSweep, SweptByMatch, SweptState, OutOfDate
<1>7. ASSUME NEW w \in Threads, Match(w) PROVE ReminderInv'
  BY <1>7 DEF Match
<1> QED BY <1>1, <1>2, <1>3, <1>4, <1>5, <1>6, <1>7, <1>8 DEF ReminderNext, Completable, Triggerable

LEMMA ReminderInvariant == ReminderSpec => []ReminderInv
<1>1. ReminderInit => ReminderInv
  BY ReminderAssumption DEF ReminderInit, ReminderInv, Writing, Terminal
<1> QED BY <1>1, ReminderStep, PTL DEF ReminderSpec

(***************************************************************************)
(* A completed or expired reminder is changed only by a call that read it  *)
(* before it got there, and one that fires once fires again only so        *)
(* (memory_prospective_complete, memory_prospective_mark_triggered).       *)
(***************************************************************************)
THEOREM TerminalIsLeftByStaleCalls == ReminderSpec => TerminalLeftByStaleCallsOnly
<1> DEFINE Left(r) ==
      /\ state[r] \in Terminal /\ state'[r] # state[r]
           => \E w \in Threads : ppc[w] # "idle" /\ parg[w] = r /\ seen[w] \notin Terminal
      /\ r \in Once /\ triggers[r] > 0 /\ triggers'[r] > triggers[r] => state[r] # "armed"
<1>1. ASSUME ReminderInv, [ReminderNext]_reminderVars, NEW r \in Reminders PROVE Left(r)
  <2>1. r \in Once /\ triggers[r] > 0 => state[r] # "armed"
    BY <1>1 DEF ReminderInv
  <2>2. ASSUME state[r] \in Terminal, state'[r] # state[r]
        PROVE  \E w \in Threads : ppc[w] # "idle" /\ parg[w] = r /\ seen[w] \notin Terminal
    <3>1. ASSUME NEW w \in Threads, Complete(w) \/ Trigger(w)
          PROVE  ppc[w] # "idle" /\ parg[w] = r /\ seen[w] \notin Terminal
      <4>1. ppc[w] \in Writing /\ \A q \in Reminders \ {parg[w]} : state'[q] = state[q]
        BY <1>1, <3>1 DEF Complete, Trigger, Writing, ReminderInv
      <4> QED BY <1>1, <2>2, <4>1 DEF ReminderInv, Writing, Terminal
    <3>2. CASE UNCHANGED reminderVars \/ DayPasses
      BY <2>2, <3>2 DEF reminderVars, DayPasses
    <3>3. ASSUME NEW w \in Threads, NEW q \in Reminders, NewReminder(w, q) PROVE FALSE
      BY <1>1, <2>2, <3>3 DEF NewReminder, Terminal, ReminderInv
    <3>4. ASSUME NEW w \in Threads, Sweep(w) \/ MatchSweep(w) PROVE FALSE
      BY <1>1, <2>2, <3>4 DEF Sweep, MatchSweep, SweptByMatch, SweptState, Terminal
    <3>5. ASSUME NEW w \in Threads, NEW q \in Reminders, NEW pl, NEW from, ReadRow(w, q, pl, from)
          PROVE  FALSE
      BY <2>2, <3>5 DEF ReadRow
    <3>6. ASSUME NEW w \in Threads, Match(w) PROVE FALSE
      BY <2>2, <3>6 DEF Match
    <3> QED BY <1>1, <3>1, <3>2, <3>3, <3>4, <3>5, <3>6 DEF ReminderNext
  <2> QED BY <2>1, <2>2
<1>2. ReminderInv /\ [ReminderNext]_reminderVars => [\A r \in Reminders : Left(r)]_reminderVars
  BY <1>1
<1> QED BY <1>2, ReminderInvariant, PTL DEF ReminderSpec, TerminalLeftByStaleCallsOnly

(***************************************************************************)
(* The stages of a match list armed reminders, each once.                  *)
(***************************************************************************)
LEMMA ListedIs ==
  ASSUME NEW R \in SUBSET Reminders
  PROVE  /\ Listed(R) \in Seq(Reminders) /\ IsInjective(Listed(R))
         /\ ToSet(Listed(R)) \subseteq R
<1>1. R \in SUBSET Int /\ IsFiniteSet(R)
  <2>1. \A r \in Reminders : r \in Int
    BY ReminderAssumption
  <2> QED BY <2>1, ReminderAssumption, FS_Subset
<1>2. PICK s : s = Descending(R)
  OBVIOUS
<1>3. IsListing(s, R) /\ \A i, j \in 1 .. Cardinality(R) : i < j => s[i] > s[j]
  BY <1>1, <1>2, DescendingLists
<1>4. s \in Seq(R) /\ Len(s) = Cardinality(R)
  BY <1>3 DEF IsListing
<1>5. s \in Seq(Reminders) /\ ToSet(s) \subseteq R
  BY <1>4 DEF ToSet
<1>6. IsInjective(s)
  <2>1. ASSUME NEW i \in 1 .. Len(s), NEW j \in 1 .. Len(s), i < j PROVE s[i] # s[j]
    <3>1. Len(s) = Cardinality(R)
      BY <1>4
    <3>2. i \in 1 .. Cardinality(R) /\ j \in 1 .. Cardinality(R)
      BY <3>1
    <3>3. s[i] > s[j]
      BY <1>3, <2>1, <3>2
    <3>4. s[i] \in R
      BY <1>4
    <3>5. s[i] \in Int
      BY <1>1, <3>4
    <3> QED BY <3>3, <3>5
  <2>2. ASSUME NEW i \in 1 .. Len(s), NEW j \in 1 .. Len(s), i # j PROVE s[i] # s[j]
    <3>1. i < j \/ j < i
      BY <2>2
    <3> QED BY <2>1, <3>1
  <2>3. DOMAIN s = 1 .. Len(s)
    BY <1>4
  <2> QED BY <2>2, <2>3 DEF IsInjective
<1> QED BY <1>2, <1>5, <1>6 DEF Listed

LEMMA StagesAre ==
  ASSUME NEW e, NEW f, NEW terms, NEW stems
  PROVE  /\ Stages(e, f, terms, stems) \in Seq(Seq(Reminders))
         /\ Len(Stages(e, f, terms, stems)) = 4
         /\ \A i \in 1 .. 4 : /\ IsInjective(Stages(e, f, terms, stems)[i])
                              /\ ToSet(Stages(e, f, terms, stems)[i]) \subseteq Armed
<1> DEFINE first == FirstRows(Listed(Armed), ArmedCap)
<1>1. PICK A \in SUBSET Reminders : A = {r \in Armed : e # Unset /\ Entity(r) = e}
  BY DEF Armed
<1>2. PICK B \in SUBSET Reminders : B = {r \in Armed : f # Unset /\ File(r) = f}
  BY DEF Armed
<1>3. PICK C \in SUBSET Reminders : C = Armed \cap terms
  BY DEF Armed
<1>4. ToSet(first) \subseteq Armed
  <2>1. Armed \in SUBSET Reminders
    BY DEF Armed
  <2>2. Listed(Armed) \in Seq(Reminders) /\ ToSet(Listed(Armed)) \subseteq Armed
    BY <2>1, ListedIs
  <2>3. /\ first \in Seq(Reminders)
        /\ Len(first) <= Len(Listed(Armed))
        /\ \A i \in 1 .. Len(first) : first[i] = Listed(Armed)[i]
    BY <2>2, ReminderAssumption, FirstRowsAre
  <2> HIDE DEF first
  <2>4. ASSUME NEW i \in DOMAIN first PROVE first[i] \in Armed
    <3>1. i \in 1 .. Len(first) /\ i \in DOMAIN Listed(Armed)
      BY <2>2, <2>3
    <3> QED BY <2>2, <2>3, <3>1 DEF ToSet
  <2> QED BY <2>4 DEF ToSet
<1>5. PICK D \in SUBSET Reminders : D = ToSet(first) \cap stems /\ D \subseteq Armed
  BY <1>4 DEF Armed
<1>6. PICK all : all = << Listed(A), Listed(B), Listed(C), Listed(D) >>
  OBVIOUS
<1>7. Stages(e, f, terms, stems) = all
  BY <1>1, <1>2, <1>3, <1>5, <1>6 DEF Stages
<1>8. \A S \in SUBSET Reminders :
        /\ Listed(S) \in Seq(Reminders) /\ IsInjective(Listed(S)) /\ ToSet(Listed(S)) \subseteq S
  BY ListedIs
<1>9. all \in Seq(Seq(Reminders)) /\ Len(all) = 4
  BY <1>6, <1>8
<1>10. A \subseteq Armed /\ B \subseteq Armed /\ C \subseteq Armed /\ D \subseteq Armed
  BY <1>1, <1>2, <1>3, <1>5
<1>11. ASSUME NEW i \in 1 .. 4 PROVE IsInjective(all[i]) /\ ToSet(all[i]) \subseteq Armed
  <2>1. \E S \in {A, B, C, D} : all[i] = Listed(S)
    BY <1>6
  <2> QED BY <1>8, <1>10, <2>1
<1> QED BY <1>7, <1>9, <1>11

(* Whatever the turn, the rows a match returns are those of its stages. *)
LEMMA MatchIsWell ==
  ASSUME NEW stages \in Seq(Seq(Reminders)), Len(stages) = 4,
         \A i \in 1 .. 4 : IsInjective(stages[i])
  PROVE  WellMatched(MatchRows(stages), stages, MaxRows)
<1>0. PICK X : X = Seq(Reminders) /\ stages \in Seq(X)
  OBVIOUS
<1>1. PICK three : three = SubSeq(stages, 1, 3)
  OBVIOUS
<1>2. /\ three \in Seq(Seq(Reminders)) /\ Len(three) = 3
      /\ \A i \in 1 .. 3 : three[i] = stages[i]
  <2>1. three \in Seq(X)
    BY <1>0, <1>1
  <2>2. Len(three) = 3
    BY <1>1
  <2>3. \A i \in 1 .. 3 : three[i] = stages[i]
    BY <1>1
  <2> QED BY <1>0, <2>1, <2>2, <2>3
<1>3. PICK out : out = Staged(three, MaxRows)
  OBVIOUS
<1>4. MaxRows \in Nat /\ \A i \in 1 .. Len(three) : IsInjective(three[i])
  BY <1>2, ReminderAssumption
<1>5. out \in Seq(Reminders) /\ Matched(out, three, 3, MaxRows)
  BY <1>2, <1>3, <1>4, StagedMatches
<1>6. Matched(out, stages, 3, MaxRows)
  <2>1. ASSUME NEW q \in 1 .. 3 PROVE \A p \in 1 .. q : three[p] = stages[p]
    BY <1>2
  <2> QED BY <1>2, <1>5, <2>1 DEF Matched
<1>7. PICK m : m = MergeUnique(out, stages[4], MaxRows)
  OBVIOUS
<1>8. stages[4] \in Seq(Reminders) /\ IsInjective(out) /\ Len(out) <= MaxRows
  <2>1. stages[4] \in X
    <3>1. 4 \in 1 .. Len(stages)
      OBVIOUS
    <3>2. \A i \in 1 .. Len(stages) : stages[i] \in X
      BY <1>0, ElementsOf
    <3> QED BY <3>1, <3>2
  <2> QED BY <1>0, <1>5, <2>1 DEF Matched
<1>9. m \in Seq(Reminders) /\ Grown(out, stages[4], Len(stages[4]), MaxRows, m)
  BY <1>4, <1>5, <1>7, <1>8, MergeGrows
<1>10. Matched(m, stages, 4, MaxRows)
  <2>1. 4 \in 1 .. Len(stages) /\ 4 - 1 = 3
    OBVIOUS
  <2> QED BY <1>4, <1>5, <1>6, <1>9, <2>1, StageMatches
<1>11. WellMatched(m, stages, MaxRows)
  BY <1>4, <1>9, <1>10, MatchedWell
<1> QED BY <1>1, <1>3, <1>7, <1>11 DEF MatchRows

(***************************************************************************)
(* What a match returns was not out of date when it began, and it returns  *)
(* every row its stages find once, the strongest signal first, until it    *)
(* is full (memory_prospective_match, pm_merge_unique).                    *)
(***************************************************************************)
THEOREM RemindersAreSound == ReminderSpec => []RemindersSound
<1>1. ASSUME ReminderInv PROVE RemindersSound
  <2> DEFINE Out(turn, stems) == Returned(turn, stems)
             In(turn, stems) == Stages(turn[1], turn[2], turn[3], stems)
  <2>1. ReminderTypeOK
    BY <1>1 DEF ReminderInv, ReminderTypeOK, Writing
  <2>2. ASSUME NEW turn, NEW stems
        PROVE  /\ WellMatched(Out(turn, stems), In(turn, stems), MaxRows)
               /\ ToSet(Out(turn, stems)) \subseteq Armed
    <3>1. PICK stages : stages = In(turn, stems)
      OBVIOUS
    <3>2. /\ stages \in Seq(Seq(Reminders)) /\ Len(stages) = 4
          /\ \A i \in 1 .. 4 : IsInjective(stages[i]) /\ ToSet(stages[i]) \subseteq Armed
      BY <3>1, StagesAre
    <3>3. WellMatched(MatchRows(stages), stages, MaxRows)
      BY <3>2, MatchIsWell
    <3>4. ToSet(MatchRows(stages)) \subseteq UNION {ToSet(stages[i]) : i \in DOMAIN stages}
      BY <3>3 DEF WellMatched
    <3>5. DOMAIN stages = 1 .. 4
      BY <3>2
    <3>6. ToSet(MatchRows(stages)) \subseteq Armed
      BY <3>2, <3>4, <3>5
    <3> QED BY <3>1, <3>3, <3>6 DEF Returned
  <2>3. SurfacedInTime
    <3> SUFFICES ASSUME NEW w \in Threads, ppc[w] = "match", NEW turn, NEW r \in late[w],
                        r \in ToSet(Out(turn, Reminders))
                 PROVE  FALSE
      BY DEF SurfacedInTime
    <3>1. state[r] = "armed"
      BY <2>2 DEF Armed
    <3> QED BY <1>1, <3>1 DEF ReminderInv
  <2>4. MatchFills
    BY <2>2 DEF MatchFills
  <2> QED BY <2>1, <2>3, <2>4 DEF RemindersSound
<1> QED BY <1>1, ReminderInvariant, PTL

-----------------------------------------------------------------------------
(***************************************************************************)
(* ContextCache.  The types.                                               *)
(***************************************************************************)
RowType == [text : Nat, at : Nat \ {0}]
ContextType ==
  [hint : Hints \cup {Absent}, rows : SUBSET (Ids \X Nat), rules : Nat, edges : Nat,
   scoped : BOOLEAN, disturbed : BOOLEAN]
KeyType == Nat \X Nat \X Nat

CacheTypes ==
  /\ rows \in [Ids -> RowType \cup {Absent}] /\ \A i \in Live : rows[i].at <= now
  /\ rules \in Nat /\ edges \in Nat /\ now \in Nat \ {0} /\ writes \in Nat /\ crowded \in BOOLEAN
  /\ cache \subseteq [key : KeyType, context : ContextType]
  /\ cpc \in [Readers -> {"idle", "hash", "lookup", "assemble", "put", "store"}]
  /\ ask \in [Readers -> [hint : Hints \cup {Absent}, scoped : BOOLEAN]]
  /\ key \in [Readers -> KeyType \cup {<<>>}] /\ context \in [Readers -> ContextType]
  /\ \A r \in Readers : cpc[r] = "store" => key[r] \in KeyType

\* The rows a context would be assembled from now.
Texts == {<<i, rows[i].text>> : i \in Live}

\* What a context has to do with the hash it is stored under: as many rows, every row
\* that is not younger than the hash, and the same rules.  While the latest row of the
\* hash is of this second, that row or another of this second is still there, so that
\* a change would fall into the same second.
Reflects(k, x) ==
  /\ IsFiniteSet(x.rows) /\ Cardinality(x.rows) = k[1]
  /\ \A i \in Live : rows[i].at <= k[2] => <<i, rows[i].text>> \in x.rows
  /\ k[2] <= now /\ (k[2] = now => \E i \in Live : rows[i].at = now)
  /\ x.rules = k[3]

\* A reader on its way to the put whom nothing disturbed has what is there now, under
\* the hash of what is there now.
UpToDate(r) ==
  cpc[r] \in {"put", "store"} /\ ~context[r].disturbed =>
    /\ context[r].rows = Texts /\ context[r].rules = rules
    /\ cpc[r] = "store" => key[r] = Fingerprint

CacheInv ==
  /\ CacheTypes /\ \A r \in Readers : UpToDate(r)
  /\ ~crowded => \A e \in cache : ~e.context.disturbed => Reflects(e.key, e.context)

(* The hash of the present rows: how many there are, and the latest of them. *)
LEMMA FingerprintIs ==
  ASSUME CacheTypes
  PROVE  /\ IsFiniteSet(Live) /\ Fingerprint \in KeyType
         /\ Fingerprint[1] = Cardinality(Live) /\ Fingerprint[3] = rules
         /\ Fingerprint[2] <= now /\ \A i \in Live : rows[i].at <= Fingerprint[2]
         /\ Fingerprint[2] = now => \E i \in Live : rows[i].at = now
<1> DEFINE S == {rows[i].at : i \in Live}
<1>1. IsFiniteSet(Live) /\ Cardinality(Live) \in Nat
  BY CacheAssumption, FS_Subset, FS_CardinalityType DEF Live
<1>2. now \in Nat \ {0} /\ rules \in Nat /\ \A i \in Live : rows[i].at \in 1 .. now
  BY DEF CacheTypes, Live, RowType
<1>3. S \subseteq 1 .. now /\ S \in SUBSET Nat /\ IsFiniteSet(S)
  <2>1. IsFiniteSet(1 .. now)
    BY <1>2, FS_Interval
  <2>2. S \subseteq 1 .. now
    BY <1>2
  <2> QED BY <1>2, <2>1, <2>2, FS_Subset
<1>4. PICK m : m = IF Live = {} THEN 0 ELSE Max(S)
  OBVIOUS
<1>5. Fingerprint = <<Cardinality(Live), m, rules>>
  BY <1>4 DEF Fingerprint
<1>6. m \in Nat /\ m <= now /\ (\A i \in Live : rows[i].at <= m) /\ (m = now => \E i \in Live : rows[i].at = now)
  <2>1. CASE Live = {}
    BY <1>2, <1>4, <2>1
  <2>2. CASE Live # {}
    <3>1. S # {}
      BY <2>2
    <3>2. m \in S /\ \A x \in S : x <= m
      <4> HIDE DEF S
      <4> QED BY <1>3, <1>4, <2>2, <3>1, MaxIsLargest
    <3> QED BY <1>2, <1>3, <3>2
  <2> QED BY <2>1, <2>2
<1> QED BY <1>1, <1>2, <1>5, <1>6 DEF KeyType

(* As many texts as rows. *)
LEMMA TextsCount ==
  ASSUME CacheTypes
  PROVE  IsFiniteSet(Texts) /\ Cardinality(Texts) = Cardinality(Live) /\ Texts \subseteq Ids \X Nat
<1>1. IsFiniteSet(Live)
  BY FingerprintIs
<1>2. PICK f : f = [i \in Live |-> <<i, rows[i].text>>]
  OBVIOUS
<1>3. f \in Bijection(Live, Texts)
  BY <1>2 DEF Texts, Bijection, Injection, Surjection, IsInjective
<1>4. IsFiniteSet(Texts) /\ Cardinality(Texts) = Cardinality(Live)
  BY <1>1, <1>3, FS_Bijection DEF ExistsBijection
<1>5. Texts \subseteq Ids \X Nat
  BY DEF CacheTypes, RowType, Live, Texts
<1> QED BY <1>4, <1>5

(* What is there now reflects the hash of what is there now; and what reflects the
   hash of what is there now is what is there now. *)
LEMMA PresentReflects ==
  ASSUME CacheTypes, NEW x, x.rows = Texts, x.rules = rules
  PROVE  Reflects(Fingerprint, x)
<1>1. \A i \in Live : <<i, rows[i].text>> \in Texts
  BY DEF Texts
<1> QED BY <1>1, FingerprintIs, TextsCount DEF Reflects

LEMMA ReflectsPresent ==
  ASSUME CacheTypes, NEW x, Reflects(Fingerprint, x)
  PROVE  x.rows = Texts /\ x.rules = rules
<1>1. Texts \subseteq x.rows
  BY FingerprintIs DEF Reflects, Texts
<1>2. Cardinality(Texts) = Cardinality(x.rows) /\ IsFiniteSet(x.rows) /\ x.rules = rules
  BY FingerprintIs, TextsCount DEF Reflects
<1>3. Texts = x.rows
  BY <1>1, <1>2, FS_Subset
<1> QED BY <1>2, <1>3

(* A reader's own steps. *)
ReaderStep(r) ==
  \/ \E h \in Hints, s \in BOOLEAN : Request(r, h, s)
  \/ Hash(r) \/ Lookup(r) \/ Assemble(r) \/ Rehash(r) \/ Store(r)

CacheWrite(i) == Insert(i) \/ Delete(i) \/ Update(i)

NewRow(i, row) == row = Absent \/ row = [text |-> writes, at |-> now]

LEMMA WritesChange ==
  ASSUME NEW i \in Ids, CacheWrite(i)
  PROVE  \E row : Change(i, row) /\ NewRow(i, row)
BY DEF CacheWrite, Insert, Delete, Update, NewRow

(* A write marks the contexts of the readers between an assembly and its put. *)
Marked(r) == cpc[r] \in {"put", "store"} \/ context[r].disturbed

LEMMA DisturbsOnly ==
  ASSUME CacheTypes,
         context' = [r \in Readers |-> [context[r] EXCEPT !.disturbed = cpc[r] \in {"put", "store"} \/ @]]
  PROVE  /\ context' \in [Readers -> ContextType]
         /\ \A r \in Readers : /\ context'[r].rows = context[r].rows /\ context'[r].rules = context[r].rules
                               /\ context'[r].disturbed = Marked(r)
<1>1. ASSUME NEW r \in Readers
      PROVE  /\ context'[r] \in ContextType
             /\ context'[r].rows = context[r].rows /\ context'[r].rules = context[r].rules
             /\ context'[r].disturbed = Marked(r)
  <2>1. PICK c : c = context[r]
    OBVIOUS
  <2>2. c \in ContextType
    BY <2>1 DEF CacheTypes
  <2>3. PICK b \in BOOLEAN : b = Marked(r)
    BY Zenon DEF Marked
  <2>4. context'[r] = [c EXCEPT !.disturbed = cpc[r] \in {"put", "store"} \/ c.disturbed]
    BY <2>1, <2>2 DEF ContextType
  <2>5. context'[r] = [c EXCEPT !.disturbed = b]
    BY <2>1, <2>3, <2>4 DEF Marked
  <2>6. PICK x : x = [c EXCEPT !.disturbed = b]
    OBVIOUS
  <2>7. /\ x = [hint |-> c.hint, rows |-> c.rows, rules |-> c.rules, edges |-> c.edges,
               scoped |-> c.scoped, disturbed |-> b]
        /\ x.rows = c.rows /\ x.rules = c.rules /\ x.disturbed = b
    BY <2>2, <2>6 DEF ContextType
  <2>8. /\ c.hint \in Hints \cup {Absent} /\ c.rows \in SUBSET (Ids \X Nat) /\ c.rules \in Nat
        /\ c.edges \in Nat /\ c.scoped \in BOOLEAN
    BY <2>2 DEF ContextType
  <2>9. x \in ContextType
    BY <2>3, <2>7, <2>8 DEF ContextType
  <2> QED BY <2>1, <2>3, <2>5, <2>6, <2>7, <2>9
<1> QED BY <1>1

LEMMA CacheTypesStep == CacheTypes /\ [CacheNext]_cacheVars => CacheTypes'
<1> SUFFICES ASSUME CacheTypes, [CacheNext]_cacheVars PROVE CacheTypes'
  OBVIOUS
<1>1. CASE UNCHANGED cacheVars
  BY <1>1 DEF cacheVars, db, reader, CacheTypes, Live
<1>2. ASSUME NEW i \in Ids, NEW row, Change(i, row), NewRow(i, row) PROVE CacheTypes'
  <2>1. rows' \in [Ids -> RowType \cup {Absent}] /\ (\A j \in Ids \ {i} : rows'[j] = rows[j]) /\ rows'[i] = row
    BY <1>2 DEF Change, NewRow, CacheTypes, RowType
  <2>2. \A j \in Live' : rows'[j].at <= now
    <3>1. ASSUME NEW j \in Live' PROVE rows'[j].at <= now
      <4>1. CASE j = i
        BY <1>2, <2>1, <3>1, <4>1 DEF NewRow, Live, CacheTypes
      <4>2. CASE j # i
        BY <2>1, <3>1, <4>2 DEF Live, CacheTypes
      <4> QED BY <4>1, <4>2
    <3> QED BY <3>1
  <2>3. context' \in [Readers -> ContextType]
    BY <1>2, DisturbsOnly DEF Change
  <2>4. crowded' \in BOOLEAN
    BY <1>2, Zenon DEF Change
  <2>5. writes' \in Nat
    BY <1>2 DEF Change, CacheTypes
  <2> QED BY <1>2, <2>1, <2>2, <2>3, <2>4, <2>5 DEF Change, CacheTypes
<1>3. CASE Invalidate
  BY <1>3 DEF Invalidate, db, reader, CacheTypes, Live
<1>4. CASE Elsewhere
  <2>1. context' \in [Readers -> ContextType]
    BY <1>4, DisturbsOnly DEF Elsewhere
  <2>2. rules' \in Nat /\ edges' \in Nat /\ writes' \in Nat
    BY <1>4 DEF Elsewhere, CacheTypes
  <2> QED BY <1>4, <2>1, <2>2 DEF Elsewhere, CacheTypes, Live
<1>5. CASE SecondPasses
  <2>1. now' \in Nat \ {0} /\ now' = now + 1 /\ UNCHANGED <<db, cache, reader, writes, crowded>>
    BY <1>5 DEF SecondPasses, CacheTypes
  <2>2. \A i \in Live' : rows'[i].at <= now'
    BY <2>1 DEF db, Live, CacheTypes, RowType
  <2> QED BY <2>1, <2>2 DEF db, reader, CacheTypes
<1>6. ASSUME NEW r \in Readers, ReaderStep(r) PROVE CacheTypes'
  <2>1. UNCHANGED <<db, now, writes, crowded>>
    BY <1>6 DEF ReaderStep, Request, Hash, Lookup, Assemble, Rehash, Store
  <2>2. /\ rows' \in [Ids -> RowType \cup {Absent}] /\ \A i \in Live' : rows'[i].at <= now'
        /\ rules' \in Nat /\ edges' \in Nat /\ now' \in Nat \ {0} /\ writes' \in Nat
        /\ crowded' \in BOOLEAN
    BY <2>1 DEF db, CacheTypes, Live
  <2>3. ASSUME NEW h \in Hints, NEW s \in BOOLEAN, Request(r, h, s) PROVE CacheTypes'
    <3>1. Nothing \in ContextType
      BY DEF Nothing, ContextType
    <3> QED BY <2>2, <2>3, <3>1 DEF Request, Set, CacheTypes
  <2>4. CASE Hash(r)
    BY <2>2, <2>4, FingerprintIs DEF Hash, Set, CacheTypes
  <2>5. CASE Lookup(r)
    BY <2>2, <2>5 DEF Lookup, Set, CacheTypes
  <2>6. CASE Assemble(r)
    <3>1. Assembled(ask[r]) \in ContextType
      <4>1. Texts \subseteq Ids \X Nat
        BY TextsCount
      <4> QED BY <4>1 DEF Assembled, Texts, ContextType, CacheTypes
    <3> QED BY <2>2, <2>6, <3>1 DEF Assemble, Set, CacheTypes
  <2>7. CASE Rehash(r)
    BY <2>2, <2>7, FingerprintIs DEF Rehash, Set, CacheTypes
  <2>8. CASE Store(r)
    <3>1. [key |-> key[r], context |-> context[r]] \in [key : KeyType, context : ContextType]
      BY <2>8 DEF Store, CacheTypes
    <3> QED BY <2>2, <2>8, <3>1 DEF Store, Set, CacheTypes
  <2> QED BY <1>6, <2>3, <2>4, <2>5, <2>6, <2>7, <2>8 DEF ReaderStep
<1> QED BY <1>1, <1>2, <1>3, <1>4, <1>5, <1>6, WritesChange DEF CacheNext, ReaderStep, CacheWrite

(* A write marks every reader that is on its way to a put. *)
LEMMA UpToDateStep ==
  ASSUME CacheTypes, \A r \in Readers : UpToDate(r), [CacheNext]_cacheVars, NEW r \in Readers
  PROVE  UpToDate(r)'
<1>1. ASSUME UNCHANGED <<rows, rules>>, cpc'[r] = cpc[r], context'[r] = context[r], key'[r] = key[r]
      PROVE  UpToDate(r)'
  BY <1>1 DEF UpToDate, Texts, Live, Fingerprint
<1>2. CASE UNCHANGED cacheVars \/ Invalidate \/ SecondPasses
  BY <1>1, <1>2 DEF cacheVars, db, reader, Invalidate, SecondPasses
<1>3. ASSUME cpc' = cpc,
             context' = [x \in Readers |-> [context[x] EXCEPT !.disturbed = cpc[x] \in {"put", "store"} \/ @]]
      PROVE  UpToDate(r)'
  <2>1. context'[r].disturbed = Marked(r)
    BY <1>3, DisturbsOnly
  <2> QED BY <1>3, <2>1 DEF UpToDate, Marked
<1>4. CASE Elsewhere \/ \E i \in Ids : CacheWrite(i)
  BY <1>3, <1>4, WritesChange DEF Elsewhere, Change
<1>5. ASSUME NEW x \in Readers, x # r, ReaderStep(x) PROVE UpToDate(r)'
  BY <1>1, <1>5 DEF ReaderStep, Request, Hash, Lookup, Assemble, Rehash, Store, Set, db, CacheTypes
<1>6. CASE ReaderStep(r)
  <2>1. UNCHANGED <<rows, rules>> /\ DOMAIN cpc = Readers /\ DOMAIN key = Readers /\ DOMAIN context = Readers
    BY <1>6 DEF ReaderStep, Request, Hash, Lookup, Assemble, Rehash, Store, db, CacheTypes
  <2>2. CASE Assemble(r)
    <3>1. cpc'[r] = "put" /\ context'[r] = Assembled(ask[r])
      BY <2>1, <2>2 DEF Assemble, Set
    <3>2. context'[r].rows = Texts /\ context'[r].rules = rules
      BY <3>1 DEF Assembled, Texts
    <3> QED BY <2>1, <3>1, <3>2 DEF UpToDate, Texts, Live
  <2>3. CASE Rehash(r)
    <3>1. /\ cpc[r] = "put" /\ context' = context
          /\ cpc'[r] = "idle" \/ (cpc'[r] = "store" /\ key'[r] = Fingerprint)
      BY <2>1, <2>3 DEF Rehash, Set
    <3> QED BY <2>1, <3>1 DEF UpToDate, Texts, Live, Fingerprint
  <2>4. CASE Hash(r) \/ Lookup(r) \/ Store(r) \/ \E h \in Hints, s \in BOOLEAN : Request(r, h, s)
    <3>1. cpc'[r] \notin {"put", "store"}
      BY <2>1, <2>4 DEF Hash, Lookup, Store, Request, Set
    <3> QED BY <3>1 DEF UpToDate
  <2> QED BY <1>6, <2>2, <2>3, <2>4 DEF ReaderStep
<1> QED BY <1>2, <1>4, <1>5, <1>6, Zenon DEF CacheNext, ReaderStep, CacheWrite

(* Unless it crowds a second, a change makes a row younger than every hash there is,
   or takes one away. *)
LEMMA ReflectsStays ==
  ASSUME CacheTypes, [CacheNext]_cacheVars, ~crowded', NEW k \in KeyType, NEW x, Reflects(k, x)
  PROVE  Reflects(k, x)'
<1>1. ASSUME UNCHANGED <<rows, now>> PROVE Reflects(k, x)'
  BY <1>1 DEF Reflects, Live
<1>2. CASE UNCHANGED cacheVars \/ Invalidate \/ Elsewhere
  BY <1>1, <1>2 DEF cacheVars, db, reader, Invalidate, Elsewhere
<1>3. ASSUME NEW r \in Readers, ReaderStep(r) PROVE Reflects(k, x)'
  BY <1>1, <1>3 DEF ReaderStep, Request, Hash, Lookup, Assemble, Rehash, Store, db
<1>4. PICK m \in Nat : m = k[2]
  BY DEF KeyType
<1>5. CASE SecondPasses
  <2>1. now \in Nat /\ now' = now + 1 /\ rows' = rows
    BY <1>5 DEF SecondPasses, db, CacheTypes
  <2>2. m <= now
    BY <1>4 DEF Reflects
  <2>3. m <= now' /\ m # now'
    BY <2>1, <2>2
  <2> QED BY <1>4, <2>1, <2>3 DEF Reflects, Live
<1>6. ASSUME NEW i \in Ids, NEW row, Change(i, row), NewRow(i, row) PROVE Reflects(k, x)'
  <2>1. /\ now' = now /\ now \in Nat /\ (\A j \in Ids \ {i} : rows'[j] = rows[j]) /\ rows'[i] = row
    BY <1>6 DEF Change, CacheTypes
  <2>2. ~\E j \in Live : rows[j].at = now
    BY <1>6 DEF Change
  <2>3. m <= now /\ m # now
    BY <1>4, <2>2 DEF Reflects
  <2>4. ASSUME NEW j \in Live', rows'[j].at <= m PROVE <<j, rows'[j].text>> \in x.rows
    <3>1. j # i
      <4> SUFFICES ASSUME j = i PROVE FALSE
        OBVIOUS
      <4>1. rows'[j].at = now
        BY <1>6, <2>1, <2>4 DEF NewRow, Live
      <4> QED BY <2>1, <2>3, <2>4, <4>1
    <3> QED BY <1>4, <2>1, <2>4, <3>1 DEF Live, Reflects
  <2> QED BY <1>4, <2>1, <2>3, <2>4 DEF Reflects
<1> QED BY <1>2, <1>3, <1>5, <1>6, WritesChange DEF CacheNext, ReaderStep, CacheWrite

LEMMA CacheInvariant == CacheSpec => []CacheInv
<1>1. CacheInit => CacheInv
  <2> SUFFICES ASSUME CacheInit PROVE CacheInv
    OBVIOUS
  <2>1. CacheTypes
    <3>1. Live = {} /\ rows \in [Ids -> RowType \cup {Absent}]
      BY DEF CacheInit, Live
    <3>2. Nothing \in ContextType /\ NoRequest \in [hint : Hints \cup {Absent}, scoped : BOOLEAN]
      BY DEF Nothing, NoRequest, ContextType
    <3>3. /\ ask \in [Readers -> [hint : Hints \cup {Absent}, scoped : BOOLEAN]]
          /\ context \in [Readers -> ContextType] /\ key \in [Readers -> KeyType \cup {<<>>}]
      BY <3>2 DEF CacheInit
    <3>4. /\ cpc \in [Readers -> {"idle", "hash", "lookup", "assemble", "put", "store"}]
          /\ \A r \in Readers : cpc[r] # "store"
      BY DEF CacheInit
    <3>5. rules \in Nat /\ edges \in Nat /\ now \in Nat \ {0} /\ writes \in Nat /\ cache = {}
      BY SMT DEF CacheInit
    <3>6. crowded = FALSE
      BY Zenon DEF CacheInit
    <3>7. crowded \in BOOLEAN
      BY <3>6, Zenon
    <3> QED BY <3>1, <3>3, <3>4, <3>5, <3>7 DEF CacheTypes
  <2>2. (\A r \in Readers : UpToDate(r)) /\ cache = {}
    BY DEF CacheInit, UpToDate
  <2> QED BY <2>1, <2>2 DEF CacheInv
<1>2. CacheInv /\ [CacheNext]_cacheVars => CacheInv'
  <2> SUFFICES ASSUME CacheInv, [CacheNext]_cacheVars PROVE CacheInv'
    OBVIOUS
  <2>1. CacheTypes' /\ (\A r \in Readers : UpToDate(r)') /\ CacheTypes
    BY CacheTypesStep, UpToDateStep DEF CacheInv
  <2>2. ASSUME ~crowded', NEW e \in cache', ~e.context.disturbed PROVE Reflects(e.key, e.context)'
    <3>1. ~crowded
      BY <2>2 DEF CacheNext, cacheVars, db, Insert, Delete, Update, Change, Invalidate, Elsewhere,
                  SecondPasses, Request, Hash, Lookup, Assemble, Rehash, Store
    <3>2. CASE e \in cache
      <4>1. e.key \in KeyType
        BY <2>1, <3>2 DEF CacheTypes
      <4>2. PICK k, x : k = e.key /\ k \in KeyType /\ x = e.context
        BY <4>1
      <4>3. Reflects(k, x)
        BY <2>2, <3>1, <3>2, <4>2 DEF CacheInv
      <4>4. Reflects(k, x)'
        BY <2>1, <2>2, <4>2, <4>3, ReflectsStays
      <4> QED BY <4>2, <4>4
    <3>3. CASE e \notin cache
      <4>1. PICK r \in Readers : Store(r)
        BY <3>3 DEF CacheNext, cacheVars, db, Insert, Delete, Update, Change, Invalidate, Elsewhere,
                    SecondPasses, Request, Hash, Lookup, Assemble, Rehash
      <4>2. e.key = key[r] /\ e.context = context[r] /\ cpc[r] = "store"
        BY <3>3, <4>1 DEF Store
      <4>3. PICK k, x : k = key[r] /\ x = context[r]
        OBVIOUS
      <4>4. x.rows = Texts /\ x.rules = rules /\ k = Fingerprint
        BY <2>2, <4>2, <4>3 DEF CacheInv, UpToDate
      <4>5. Reflects(k, x) /\ k \in KeyType
        BY <2>1, <4>4, PresentReflects, FingerprintIs
      <4>6. Reflects(k, x)'
        BY <2>1, <2>2, <4>5, ReflectsStays
      <4> QED BY <4>2, <4>3, <4>6
    <3> QED BY <3>2, <3>3
  <2> QED BY <2>1, <2>2 DEF CacheInv
<1> QED BY <1>1, <1>2, PTL DEF CacheSpec

(***************************************************************************)
(* Unless a change fell between an assembly and its put, or two changes    *)
(* into one second, a context found under the hash of the database as it   *)
(* is has the memories and the rules as they are (cache_input_hash).       *)
(***************************************************************************)
THEOREM HitsAreAlwaysFresh == CacheSpec => HitsAreFresh
<1> DEFINE Fresh(r) ==
      /\ cpc[r] = "lookup" /\ cpc'[r] = "idle" /\ key[r] = Fingerprint
      /\ ~crowded /\ ~context'[r].disturbed
      => /\ context'[r].rows = {<<i, rows[i].text>> : i \in Live}
         /\ context'[r].rules = rules
<1>1. ASSUME CacheInv, [CacheNext]_cacheVars, NEW r \in Readers PROVE Fresh(r)
  <2> SUFFICES ASSUME cpc[r] = "lookup", cpc'[r] = "idle", key[r] = Fingerprint,
                      ~crowded, ~context'[r].disturbed
               PROVE  context'[r].rows = Texts /\ context'[r].rules = rules
    BY DEF Texts
  <2>1. CacheTypes /\ DOMAIN cpc = Readers /\ DOMAIN context = Readers
    BY <1>1 DEF CacheInv, CacheTypes
  <2>2. Lookup(r)
    <3>1. cpc' # cpc
      OBVIOUS
    <3>2. PICK x \in Readers : ReaderStep(x)
      BY <1>1, <3>1 DEF CacheNext, cacheVars, db, reader, Insert, Delete, Update, Change, Invalidate, Elsewhere,
                        SecondPasses, ReaderStep
    <3>3. x = r
      BY <2>1, <3>2 DEF ReaderStep, Request, Hash, Lookup, Assemble, Rehash, Store, Set
    <3> QED BY <3>2, <3>3 DEF ReaderStep, Request, Hash, Assemble, Rehash, Store
  <2>3. PICK e \in cache : e.key = key[r] /\ context' = [context EXCEPT ![r] = e.context]
    BY <2>1, <2>2 DEF Lookup, Set
  <2>4. PICK x : x = e.context
    OBVIOUS
  <2>5. context'[r] = x
    BY <2>1, <2>3, <2>4
  <2>6. Reflects(Fingerprint, x)
    BY <1>1, <2>3, <2>4, <2>5 DEF CacheInv
  <2> QED BY <2>1, <2>5, <2>6, ReflectsPresent
<1>2. CacheInv /\ [CacheNext]_cacheVars => [\A r \in Readers : Fresh(r)]_cacheVars
  BY <1>1
<1> QED BY <1>2, CacheInvariant, PTL DEF CacheSpec, HitsAreFresh

(***************************************************************************)
(* Derived.  What holds of the index at every step of a call and of the    *)
(* child beside it.                                                        *)
(***************************************************************************)
CallStages == {"embed", "aliases", "entities", "coref", "temporal", "summaries", "events", "chunks",
               "units", "episodes", "vectors", "negation"}
Text == [id : MemoryIds, c : Contents]
IndexCall == [op : {"write", "rebuild", "repair"}, at : CallStages, id : MemoryIds, c : Contents,
              rest : Seq(Text), clean : BOOLEAN]
Units == [id : Nat, of : MemoryIds, kind : {"parts", "episode"}, from : SUBSET (Contents \cup {Nil})]
ChildCall == [at : {"sync", "units"}, id : MemoryIds, c : Contents, left : SUBSET Units]

\* A call works on the present texts of its memories, and a memory that is gone has
\* neither units nor a vector.
CallIsWell ==
  /\ content[fg.id] = fg.c
  /\ fg.at = "embed" => fg.op = "repair"
  /\ \A i \in 1 .. Len(fg.rest) : fg.rest[i].c = content[fg.rest[i].id]

RowTypes ==
  /\ content \in [MemoryIds -> Contents \cup {Nil}]
  /\ tables \in [MemoryIds -> [Tables -> Contents \cup {Nil}]]
  /\ memPoints \in [MemoryIds -> Contents \cup {Nil}]
  /\ units \subseteq Units /\ nextUnit \in Nat
  /\ jobs \subseteq MemoryIds /\ excused \subseteq MemoryIds /\ raced \in BOOLEAN

IndexTypes ==
  /\ RowTypes
  /\ fg = Idle \/ fg \in IndexCall
  /\ bg = NoChild \/ bg \in ChildCall

UnitsWell ==
  /\ \A u \in units : u.id < nextUnit /\ content[u.of] # Nil
  /\ \A u, v \in units : u.id = v.id => u = v

Order == [embed |-> 0, aliases |-> 1, entities |-> 2, coref |-> 3, temporal |-> 4, summaries |-> 5,
          events |-> 6, chunks |-> 7, units |-> 8, episodes |-> 9, vectors |-> 10, negation |-> 11]

Rebuilt(m, c) ==
  /\ \A u \in UnitsOf(m) : u.from = {c}
  /\ {u.kind : u \in UnitsOf(m)} = {"parts", "episode"}

Progress ==
  /\ \A t \in Tables : Order[t] < Order[fg.at] => tables[fg.id][t] = fg.c
  /\ Order[fg.at] > 8 => Rebuilt(fg.id, fg.c)

StaysClean ==
  fg.clean =>
    /\ bg.id = fg.id => bg.c = fg.c
    /\ fg.op = "repair" /\ fg.at # "embed" => memPoints[fg.id] = fg.c
    /\ fg.at = "negation" => IdsOf(UnitsOf(fg.id)) \subseteq unitPoints

Vectored(m) ==
  \/ memPoints[m] = content[m] \/ Mem(m) \in failing \/ m \in jobs
  \/ bg.at = "sync" /\ bg.id = m
  \/ fg.op = "write" /\ fg.id = m

UnitsVectored(m) ==
  (fg.id = m => fg.at \notin {"episodes", "vectors"}) =>
     \A u \in UnitsOf(m) : u.id \in unitPoints \/ UnitOf(u) \in failing

Settled(m) ==
  /\ fg.id # m \/ fg.at = "embed" => Derived(m)
  /\ Vectored(m)
  /\ UnitsVectored(m)
  /\ bg.id = m => bg.c = content[m]

NothingStray ==
  /\ \A m \in MemoryIds : content[m] = Nil => memPoints[m] = Nil
  /\ ~raced => unitPoints \subseteq IdsOf(units) /\ bg.left \subseteq UnitsOf(bg.id)

IndexInv ==
  /\ IndexTypes /\ UnitsWell /\ EpisodesLinked /\ NothingStray
  /\ fg # Idle => CallIsWell /\ Progress /\ StaysClean
  /\ \A m \in MemoryIds : content[m] # Nil /\ m \notin excused => Settled(m)
  /\ RepairRestores
-----------------------------------------------------------------------------
LEMMA MemoryIdsAre == /\ MemoryIds \in SUBSET Int /\ IsFiniteSet(MemoryIds) /\ Nil \notin MemoryIds
                      /\ Cardinality(MemoryIds) \in Nat
                      /\ MemoryIds = 1 .. Cardinality(MemoryIds)
<1>1. IsFiniteSet(MemoryIds) /\ MemoryIds = 1 .. Cardinality(MemoryIds) /\ Nil \notin MemoryIds
  BY DerivedAssumption
<1> QED BY <1>1, FS_CardinalityType

\* The memories of a list are taken with the texts they have.
Taken(list, texts) ==
  texts = [i \in 1 .. Len(list) - 1 |-> [id |-> list[i + 1], c |-> content[list[i + 1]]]]

LEMMA TextsAreTaken ==
  ASSUME IndexTypes, NEW S \in SUBSET MemoryIds, \A m \in S : content[m] # Nil,
         NEW list, list = Ascending(S), list # <<>>, NEW texts,
         Taken(list, texts)
  PROVE  /\ list[1] \in S /\ texts \in Seq(Text)
         /\ \A i \in 1 .. Len(texts) : texts[i].c = content[texts[i].id]
<1>1. S \in SUBSET Int /\ IsFiniteSet(S)
  BY MemoryIdsAre, FS_Subset
<1>2. IsListing(list, S)
  BY <1>1, AscendingLists
<1>3. list \in [1 .. Cardinality(S) -> S] /\ Len(list) = Cardinality(S) /\ list \in Seq(S)
  BY <1>2 DEF IsListing
<1>4. Cardinality(S) \in Nat /\ Cardinality(S) # 0
  BY <1>1, <1>3, FS_CardinalityType
<1>5. PICK n \in Nat : n = Cardinality(S) - 1
  BY <1>4
<1>6. \A i \in 1 .. n : list[i + 1] \in S
  BY <1>3, <1>5
<1>7. \A m \in S : content[m] \in Contents
  BY DEF IndexTypes, RowTypes
<1>8. \A i \in 1 .. n : [id |-> list[i + 1], c |-> content[list[i + 1]]] \in Text
  BY <1>6, <1>7 DEF Text
<1>9. texts = [i \in 1 .. n |-> [id |-> list[i + 1], c |-> content[list[i + 1]]]]
  BY <1>3, <1>5 DEF Taken
<1>10. texts \in Seq(Text) /\ Len(texts) = n
  BY <1>8, <1>9
<1> QED BY <1>3, <1>4, <1>9, <1>10

\* A call that has just begun, or has gone on to its next memory.
Begun ==
  /\ fg' \in IndexCall /\ CallIsWell'
  /\ fg'.at = IF fg'.op = "repair" THEN "embed" ELSE "aliases"
  /\ fg'.clean = ~Beside(fg'.id)

\* A call that goes on with its memory.
Onward ==
  /\ fg # Idle /\ fg' \in IndexCall /\ CallIsWell' /\ Order[fg'.at] = Order[fg.at] + 1
  /\ fg'.op = fg.op /\ fg'.id = fg.id /\ fg'.c = fg.c

LEMMA StartsWell ==
  ASSUME IndexTypes, NEW op \in {"write", "rebuild", "repair"}, NEW at,
         at = IF op = "repair" THEN "embed" ELSE "aliases",
         NEW m \in MemoryIds, NEW c \in Contents, NEW rest \in Seq(Text),
         content'[m] = c, \A i \in 1 .. Len(rest) : rest[i].c = content'[rest[i].id],
         StartCall(op, at, m, c, rest)
  PROVE  Begun
<1>1. fg' = [op |-> op, at |-> at, id |-> m, c |-> c, rest |-> rest, clean |-> ~Beside(m)]
  BY DEF StartCall
<1>2. fg' \in IndexCall
  BY <1>1 DEF IndexCall, CallStages, Beside
<1> QED BY <1>1, <1>2 DEF Begun, CallIsWell

LEMMA FinishesWell ==
  ASSUME fg \in IndexCall, CallIsWell, content' = content, NEW good, Finish(good)
  PROVE  fg' = Idle \/ Begun
<1> SUFFICES ASSUME fg.rest # <<>> PROVE Begun
  BY DEF Finish
<1> DEFINE start == IF fg.op = "repair" THEN "embed" ELSE "aliases"
<1>1. PICK rest \in Seq(Text) : rest = fg.rest
  BY DEF IndexCall
<1>2. Len(rest) \in Nat /\ Len(rest) # 0 /\ rest[1] \in Text
  BY <1>1, ElementsOf
<1>3. Head(rest) = rest[1] /\ Tail(rest) \in Seq(Text) /\ Len(Tail(rest)) = Len(rest) - 1
  BY <1>1, <1>2
<1>4. \A i \in 1 .. Len(Tail(rest)) : Tail(rest)[i] = rest[i + 1] /\ i + 1 \in 1 .. Len(rest)
  BY <1>2, <1>3
<1>5. fg' = [fg EXCEPT !.at = start, !.id = rest[1].id, !.c = rest[1].c, !.rest = Tail(rest),
                       !.clean = ~Beside(rest[1].id)]
  BY <1>1, <1>3 DEF Finish
<1>6. fg' = [op |-> fg.op, at |-> start, id |-> rest[1].id, c |-> rest[1].c, rest |-> Tail(rest),
             clean |-> ~Beside(rest[1].id)]
  BY <1>5 DEF IndexCall
<1>7. fg' \in IndexCall
  BY <1>2, <1>3, <1>6 DEF IndexCall, CallStages, Text, Beside
<1>8. rest[1].c = content[rest[1].id]
        /\ \A i \in 1 .. Len(Tail(rest)) : Tail(rest)[i].c = content[Tail(rest)[i].id]
  BY <1>1, <1>2, <1>4 DEF CallIsWell
<1>9. CallIsWell'
  BY <1>6, <1>8 DEF CallIsWell
<1> QED BY <1>6, <1>7, <1>9 DEF Begun

LEMMA GoesOnWell ==
  ASSUME fg \in IndexCall, CallIsWell, content' = content, NEW at \in CallStages,
         Order[at] = Order[fg.at] + 1, NEW clean \in BOOLEAN,
         fg' = [fg EXCEPT !.at = at, !.clean = clean] \/ GoOn(at)
  PROVE  Onward
<1>1. \E b \in BOOLEAN : fg' = [op |-> fg.op, at |-> at, id |-> fg.id, c |-> fg.c, rest |-> fg.rest,
                                clean |-> b]
  BY DEF GoOn, IndexCall
<1>2. fg' \in IndexCall
  BY <1>1 DEF IndexCall
<1>3. at # "embed" /\ fg # Idle
  BY DEF Order, CallStages, IndexCall, Idle
<1> QED BY <1>1, <1>2, <1>3 DEF Onward, CallIsWell

\* The steps that fill a table, and those that begin a call on the rows as they are.
Filled(t) ==
  /\ fg.at = t /\ \E at \in CallStages : Order[at] = Order[t] + 1 /\ GoOn(at)
  /\ tables' = [tables EXCEPT ![fg.id][t] = fg.c]
  /\ UNCHANGED <<content, units, links, nextUnit, memPoints, unitPoints, failing, jobs, bg, fixed,
                 excused, raced>>

Filling == \E t \in Tables \ {"negation"} : Filled(t)

Opened ==
  /\ fg = Idle /\ Begun /\ fixed' = Nil
  /\ UNCHANGED <<indexRows, memPoints, unitPoints, failing, jobs, bg, excused, raced>>

LEMMA TablesAreFilled ==
  Aliases \/ Entities \/ Coref \/ TemporalRefsOf \/ Summaries \/ EventFrames \/ Chunks
    \/ EpisodeRelations => Filling
<1>1. ASSUME NEW t \in Tables \ {"negation"}, NEW at \in CallStages, Order[at] = Order[t] + 1,
             Refresh(t, at)
      PROVE  Filling
  <2>1. Filled(t)
    BY <1>1 DEF Filled, Refresh
  <2> QED BY <2>1 DEF Filling
<1>2. CASE Aliases
  BY <1>2, <1>1 DEF Aliases, Tables, CallStages, Order
<1>3. CASE Entities
  BY <1>3, <1>1 DEF Entities, Tables, CallStages, Order
<1>4. CASE TemporalRefsOf
  BY <1>4, <1>1 DEF TemporalRefsOf, Tables, CallStages, Order
<1>5. CASE Summaries
  BY <1>5, <1>1 DEF Summaries, Tables, CallStages, Order
<1>6. CASE EventFrames
  BY <1>6, <1>1 DEF EventFrames, Tables, CallStages, Order
<1>7. CASE Chunks
  BY <1>7, <1>1 DEF Chunks, Tables, CallStages, Order
<1>8. CASE EpisodeRelations
  BY <1>8, <1>1 DEF EpisodeRelations, Tables, CallStages, Order
<1>9. CASE Coref
  <2>1. "temporal" \in CallStages /\ Order["temporal"] = Order["coref"] + 1
    BY DEF CallStages, Order
  <2>2. Filled("coref")
    BY <1>9, <2>1 DEF Coref, Filled
  <2> QED BY <2>2 DEF Filling, Tables
<1> QED BY <1>2, <1>3, <1>4, <1>5, <1>6, <1>7, <1>8, <1>9

LEMMA CallsOpen ==
  ASSUME IndexTypes,
         (\E m \in MemoryIds : Repair(m)) \/ RebuildDerived \/ RepairFailed
  PROVE  Opened
<1>1. ASSUME NEW op \in {"rebuild", "repair"}, NEW at, at = IF op = "repair" THEN "embed" ELSE "aliases",
             NEW S \in SUBSET MemoryIds, \A m \in S : content[m] # Nil,
             NEW list, list = Ascending(S), list # <<>>, content' = content,
             NEW texts, Taken(list, texts),
             StartCall(op, at, list[1], content[list[1]], texts)
      PROVE  Begun
  <2>1. /\ list[1] \in S /\ texts \in Seq(Text)
        /\ \A i \in 1 .. Len(texts) : texts[i].c = content[texts[i].id]
    BY <1>1, TextsAreTaken
  <2>2. PICK m \in MemoryIds, c \in Contents : m = list[1] /\ c = content[m]
    BY <1>1, <2>1 DEF IndexTypes, RowTypes
  <2>3. StartCall(op, at, m, c, texts) /\ content'[m] = c
    BY <1>1, <2>2
  <2>4. \A i \in 1 .. Len(texts) : texts[i].c = content'[texts[i].id]
    BY <1>1, <2>1
  <2> QED BY <1>1, <2>1, <2>3, <2>4, StartsWell
<1>2. ASSUME NEW m \in MemoryIds, Repair(m) PROVE Opened
  <2>0. <<>> \in Seq(Text) /\ Len(<<>>) = 0
    OBVIOUS
  <2>1. PICK c \in Contents, rest \in Seq(Text) :
          c = content[m] /\ rest = <<>> /\ Len(rest) = 0 /\ content'[m] = c
    <3>1. content[m] \in Contents /\ content'[m] = content[m]
      BY <1>2 DEF Repair, IndexTypes, RowTypes, indexRows
    <3> QED BY <3>1, <2>0
  <2>2. StartCall("repair", "embed", m, c, rest)
    BY <1>2, <2>1 DEF Repair
  <2>3. \A i \in 1 .. Len(rest) : rest[i].c = content'[rest[i].id]
    BY <2>1
  <2>4. Begun
    BY <2>1, <2>2, <2>3, StartsWell
  <2> QED BY <1>2, <2>4 DEF Repair, StartCall, Opened
<1>3. CASE RebuildDerived
  <2>1. PICK S \in SUBSET MemoryIds : S = {m \in MemoryIds : content[m] # Nil}
    OBVIOUS
  <2>2. PICK list : list = Present
    OBVIOUS
  <2>3. list = Ascending(S) /\ list # <<>> /\ content' = content /\ \A m \in S : content[m] # Nil
    BY <1>3, <2>1, <2>2 DEF Present, RebuildDerived, indexRows
  <2>4. PICK texts : Taken(list, texts)
    BY DEF Taken
  <2>5. StartCall("rebuild", "aliases", list[1], content[list[1]], texts)
    BY <1>3, <2>2, <2>4 DEF RebuildDerived, Taken
  <2>6. Begun
    BY <1>1, <2>3, <2>4, <2>5
  <2> QED BY <1>3, <2>6 DEF RebuildDerived, StartCall, Opened
<1>4. CASE RepairFailed
  <2>1. PICK S \in SUBSET MemoryIds :
          S = {m \in MemoryIds : content[m] # Nil /\ ({Mem(m)} \cup {UnitOf(u) : u \in UnitsOf(m)})
                                                      \cap failing # {}}
    OBVIOUS
  <2>2. PICK list : list = Broken
    OBVIOUS
  <2>3. list = Ascending(S) /\ list # <<>> /\ content' = content /\ \A m \in S : content[m] # Nil
    BY <1>4, <2>1, <2>2 DEF Broken, RepairFailed, indexRows
  <2>4. PICK texts : Taken(list, texts)
    BY DEF Taken
  <2>5. StartCall("repair", "embed", list[1], content[list[1]], texts)
    BY <1>4, <2>2, <2>4 DEF RepairFailed, Taken
  <2>6. Begun
    BY <1>1, <2>3, <2>4, <2>5
  <2> QED BY <1>4, <2>6 DEF RepairFailed, StartCall, Opened
<1> QED BY <1>2, <1>3, <1>4

LEMMA CallsMove ==
  ASSUME IndexTypes, fg # Idle => CallIsWell, IndexNext
  PROVE  fg' = Idle \/ Begun \/ Onward \/ (fg' = fg /\ content' = content)
<1>1. fg.at # "idle" => fg \in IndexCall /\ CallIsWell
  BY DEF IndexTypes, Idle
<1>2. ASSUME NEW m \in MemoryIds, NEW c \in Contents, Write(m, c) PROVE Begun
  <2>1. content'[m] = c
    BY <1>2 DEF Write, IndexTypes, RowTypes
  <2>2. PICK rest \in Seq(Text) : rest = <<>> /\ Len(rest) = 0
    <3>1. <<>> \in Seq(Text) /\ Len(<<>>) = 0
      OBVIOUS
    <3> QED BY <3>1
  <2>3. StartCall("write", "aliases", m, c, rest)
    BY <1>2, <2>2 DEF Write
  <2>4. \A i \in 1 .. Len(rest) : rest[i].c = content'[rest[i].id]
    BY <2>2
  <2> QED BY <2>1, <2>3, <2>4, StartsWell
<1>3. ASSUME NEW m \in MemoryIds,
             DeleteMemory(m) \/ ChildReads(m) \/ (\E c \in Contents : UpdateContent(m, c))
      PROVE  fg' = Idle \/ (fg' = fg /\ content' = content)
  BY <1>3 DEF DeleteMemory, ChildReads, UpdateContent, indexRows
<1>4. CASE (\E m \in MemoryIds : Repair(m)) \/ RebuildDerived \/ RepairFailed
  BY <1>4, CallsOpen DEF Opened
<1>5. CASE Recreate \/ Crash
  BY <1>5 DEF Recreate, Crash, indexRows
<1>6. CASE EmbedFails \/ SyncFails \/ Negation
  <2>1. fg.at # "idle" /\ content' = content /\ \E good \in BOOLEAN : Finish(good)
    BY <1>6 DEF EmbedFails, SyncFails, Negation, indexRows
  <2> QED BY <1>1, <2>1, FinishesWell
<1>7. CASE EmbedSynced
  <2>1. fg.at = "embed" /\ content' = content /\ GoOn("aliases")
    BY <1>7 DEF EmbedSynced, indexRows
  <2>2. "aliases" \in CallStages /\ Order["aliases"] = Order["embed"] + 1
    BY DEF CallStages, Order
  <2> QED BY <1>1, <2>1, <2>2, GoesOnWell
<1>8. CASE Filling
  <2>1. PICK t \in Tables : Filled(t)
    BY <1>8 DEF Filling
  <2>2. PICK at \in CallStages : Order[at] = Order[t] + 1 /\ GoOn(at)
    BY <2>1 DEF Filled
  <2>3. fg.at = t /\ content' = content /\ t # "idle"
    BY <2>1 DEF Filled, Tables
  <2> QED BY <1>1, <2>2, <2>3, GoesOnWell
<1>9. CASE UnitsGraph
  <2>1. fg.at = "units" /\ content' = content /\ GoOn("episodes")
    BY <1>9 DEF UnitsGraph
  <2>2. "episodes" \in CallStages /\ Order["episodes"] = Order["units"] + 1
    BY DEF CallStages, Order
  <2> QED BY <1>1, <2>1, <2>2, GoesOnWell
<1>10. CASE UnitEmbeddings
  <2>1. fg.at = "vectors" /\ content' = content
          /\ \E kept : fg' = [fg EXCEPT !.at = "negation", !.clean = (@ /\ kept = UnitsOf(fg.id))]
    BY <1>10 DEF UnitEmbeddings, indexRows
  <2>2. "negation" \in CallStages /\ Order["negation"] = Order["vectors"] + 1
    BY DEF CallStages, Order
  <2>3. \E b \in BOOLEAN : fg' = [fg EXCEPT !.at = "negation", !.clean = b]
    BY <2>1
  <2> QED BY <1>1, <2>1, <2>2, <2>3, GoesOnWell
<1>11. CASE ChildEmbedFails \/ ChildSyncFails \/ ChildSyncs \/ ChildUnits
  BY <1>11 DEF ChildEmbedFails, ChildSyncFails, ChildSyncs, ChildUnits, indexRows
<1> QED BY <1>2, <1>3, <1>4, <1>5, <1>6, <1>7, <1>8, <1>9, <1>10, <1>11, TablesAreFilled DEF IndexNext

\* Every step is one of these.
LEMMA IndexCases ==
  ASSUME IndexTypes, IndexNext
  PROVE  \/ \E m \in MemoryIds, c \in Contents : Write(m, c) \/ UpdateContent(m, c)
         \/ \E m \in MemoryIds : DeleteMemory(m) \/ ChildReads(m)
         \/ Opened \/ Recreate \/ EmbedFails \/ SyncFails \/ EmbedSynced \/ Filling
         \/ UnitsGraph \/ UnitEmbeddings \/ Negation
         \/ ChildEmbedFails \/ ChildSyncFails \/ ChildSyncs \/ ChildUnits \/ Crash
BY CallsOpen, TablesAreFilled DEF IndexNext
-----------------------------------------------------------------------------
LEMMA TypesHold ==
  ASSUME IndexInv, IndexNext
  PROVE  IndexTypes'
<1>0. IndexTypes
  BY DEF IndexInv
<1>1. RowTypes
  BY <1>0 DEF IndexTypes
<1>2. fg' = Idle \/ fg' \in IndexCall
  BY <1>0, CallsMove DEF Begun, Onward, IndexTypes, IndexInv
<1>3. fg.at # "idle" => fg.id \in MemoryIds /\ fg.c \in Contents
  BY <1>0 DEF IndexTypes, IndexCall, Idle
<1>4. bg.at # "idle" => bg \in ChildCall
  BY <1>0 DEF IndexTypes, NoChild
<1>5. \A m : Races(m) /\ m \in MemoryIds => excused' \subseteq MemoryIds /\ raced' \in BOOLEAN
  BY <1>1 DEF RowTypes, Races
<1>a. bg' = bg => bg' = NoChild \/ bg' \in ChildCall
  BY <1>0 DEF IndexTypes
<1> DEFINE Rest == RowTypes' /\ (bg' = NoChild \/ bg' \in ChildCall)
<1>6. ASSUME NEW m \in MemoryIds, NEW c \in Contents, Write(m, c) PROVE Rest
  BY <1>1, <1>a, <1>5, <1>6 DEF Write, RowTypes
<1>7. ASSUME NEW m \in MemoryIds, NEW c \in Contents, UpdateContent(m, c) PROVE Rest
  BY <1>1, <1>a, <1>7 DEF UpdateContent, RowTypes
<1>8. ASSUME NEW m \in MemoryIds, DeleteMemory(m) PROVE Rest
  BY <1>1, <1>a, <1>5, <1>8 DEF DeleteMemory, RowTypes
<1>9. ASSUME NEW m \in MemoryIds, ChildReads(m) PROVE Rest
  <2>1. bg' = NoChild \/ bg' \in ChildCall
    BY <1>1, <1>a, <1>9 DEF ChildReads, RowTypes, ChildCall
  <2> QED BY <1>1, <1>a, <1>9, <2>1 DEF ChildReads, RowTypes, indexRows
<1>10. ASSUME Opened PROVE Rest
  BY <1>1, <1>a, <1>10 DEF Opened, RowTypes, indexRows
<1>11. ASSUME Recreate PROVE Rest
  BY <1>1, <1>a, <1>11 DEF Recreate, RowTypes, indexRows
<1>12. ASSUME EmbedFails \/ SyncFails \/ UnitEmbeddings PROVE Rest
  BY <1>1, <1>a, <1>3, <1>12 DEF EmbedFails, SyncFails, UnitEmbeddings, RowTypes, indexRows
<1>13. ASSUME EmbedSynced PROVE Rest
  BY <1>1, <1>a, <1>3, <1>13 DEF EmbedSynced, RowTypes, indexRows
<1>14. ASSUME Filling PROVE Rest
  BY <1>1, <1>a, <1>3, <1>14 DEF Filling, Filled, Tables, RowTypes
<1>15. ASSUME UnitsGraph PROVE Rest
  <2>1. fg.id \in MemoryIds /\ fg.c \in Contents /\ excused' \subseteq MemoryIds /\ raced' \in BOOLEAN
    BY <1>3, <1>5, <1>15 DEF UnitsGraph
  <2>2. units' \subseteq Units
    <3> DEFINE parts == {tables[fg.id][t] : t \in {"summaries", "events", "temporal", "entities",
                                                   "coref", "chunks"}}
    <3>1. parts \subseteq Contents \cup {Nil}
      BY <1>1, <2>1 DEF RowTypes, Tables
    <3>2. units' = (units \ UnitsOf(fg.id))
                     \cup {[id |-> nextUnit, of |-> fg.id, kind |-> "parts", from |-> parts],
                           [id |-> nextUnit + 1, of |-> fg.id, kind |-> "episode", from |-> {fg.c}]}
      BY <1>15 DEF UnitsGraph
    <3> HIDE DEF parts
    <3> QED BY <1>1, <2>1, <3>1, <3>2 DEF RowTypes, Units
  <2> QED BY <1>1, <1>a, <1>15, <2>1, <2>2 DEF UnitsGraph, RowTypes
<1>16. ASSUME Negation PROVE Rest
  BY <1>1, <1>a, <1>3, <1>16 DEF Negation, Tables, RowTypes
<1>17. ASSUME ChildEmbedFails \/ ChildSyncFails \/ ChildUnits PROVE Rest
  BY <1>1, <1>a, <1>4, <1>17 DEF ChildEmbedFails, ChildSyncFails, ChildUnits, RowTypes, ChildCall, indexRows
<1>18. ASSUME ChildSyncs PROVE Rest
  BY <1>1, <1>a, <1>4, <1>18 DEF ChildSyncs, RowTypes, ChildCall, indexRows, UnitsOf
<1>19. ASSUME Crash PROVE Rest
  <2>1. excused' \subseteq MemoryIds
    <3>1. fg.id \in MemoryIds \cup {Nil} /\ bg.id \in MemoryIds \cup {Nil}
      BY <1>0 DEF IndexTypes, IndexCall, ChildCall, Idle, NoChild
    <3>2. fg.rest \in Seq(Text)
      <4>1. <<>> \in Seq(Text)
        OBVIOUS
      <4>2. fg = Idle \/ fg \in IndexCall
        BY <1>0 DEF IndexTypes
      <4>3. Idle.rest = <<>>
        BY DEF Idle
      <4>4. fg \in IndexCall => fg.rest \in Seq(Text)
        BY DEF IndexCall
      <4> QED BY <4>1, <4>2, <4>3, <4>4
    <3>3. \A r \in Range(fg.rest) : r \in Text
      <4>1. PICK rest \in Seq(Text) : rest = fg.rest
        BY <3>2
      <4>2. \A i \in 1 .. Len(rest) : rest[i] \in Text
        BY ElementsOf
      <4>3. DOMAIN rest = 1 .. Len(rest)
        OBVIOUS
      <4> QED BY <4>1, <4>2, <4>3 DEF Range
    <3>4. {r.id : r \in Range(fg.rest)} \subseteq MemoryIds
      BY <3>3 DEF Text
    <3> QED BY <1>1, <1>a, <1>19, <3>1, <3>4 DEF Crash, RowTypes
  <2> QED BY <1>1, <1>a, <1>19, <2>1 DEF Crash, RowTypes, indexRows
<1>20. Rest
  BY <1>6, <1>7, <1>8, <1>9, <1>10, <1>11, <1>12, <1>13, <1>14, <1>15, <1>16, <1>17, <1>18, <1>19,
     <1>0, IndexCases
<1> QED BY <1>2, <1>20 DEF IndexTypes

\* The units, their links and the texts change in four operations only.
LEMMA IndexRowsStay ==
  ASSUME IndexTypes, IndexNext
  PROVE  \/ \E m \in MemoryIds, c \in Contents : Write(m, c) \/ UpdateContent(m, c)
         \/ \E m \in MemoryIds : DeleteMemory(m)
         \/ UnitsGraph
         \/ UNCHANGED <<content, units, links, nextUnit>>
<1>1. Opened \/ Recreate \/ (\E m \in MemoryIds : ChildReads(m))
        => UNCHANGED <<content, units, links, nextUnit>>
  BY DEF Opened, Recreate, ChildReads, indexRows
<1>2. EmbedFails \/ SyncFails \/ EmbedSynced \/ UnitEmbeddings \/ Crash
        => UNCHANGED <<content, units, links, nextUnit>>
  BY DEF EmbedFails, SyncFails, EmbedSynced, UnitEmbeddings, Crash, indexRows
<1>3. Filling \/ Negation => UNCHANGED <<content, units, links, nextUnit>>
  BY DEF Filling, Filled, Negation
<1>4. ChildEmbedFails \/ ChildSyncFails \/ ChildSyncs \/ ChildUnits
        => UNCHANGED <<content, units, links, nextUnit>>
  BY DEF ChildEmbedFails, ChildSyncFails, ChildSyncs, ChildUnits, indexRows
<1> QED BY <1>1, <1>2, <1>3, <1>4, IndexCases

\* What a refresh makes of the units.
NewUnits(parts) ==
  {[id |-> nextUnit, of |-> fg.id, kind |-> "parts", from |-> parts],
   [id |-> nextUnit + 1, of |-> fg.id, kind |-> "episode", from |-> {fg.c}]}

LEMMA UnitsAreReplaced ==
  ASSUME IndexTypes, fg # Idle => CallIsWell, UnitsGraph
  PROVE  /\ fg.id \in MemoryIds /\ fg.c \in Contents /\ fg.at = "units" /\ content[fg.id] = fg.c
         /\ \E parts : /\ units' = (units \ UnitsOf(fg.id)) \cup NewUnits(parts)
                       /\ parts = {tables[fg.id][t] : t \in {"summaries", "events", "temporal",
                                                             "entities", "coref", "chunks"}}
         /\ content' = content /\ nextUnit' = nextUnit + 2
<1>1. fg.at = "units"
  BY DEF UnitsGraph
<1>2. fg \in IndexCall /\ fg # Idle
  BY <1>1 DEF IndexTypes, Idle
<1> QED BY <1>1, <1>2 DEF UnitsGraph, NewUnits, IndexCall, CallIsWell

LEMMA UnitsStayWell ==
  ASSUME IndexInv, IndexNext
  PROVE  UnitsWell'
<1>1. IndexTypes /\ UnitsWell /\ (fg # Idle => CallIsWell)
  BY DEF IndexInv
<1>2. \A u \in units : u.id \in Nat /\ u.of \in MemoryIds
  BY <1>1 DEF IndexTypes, RowTypes, Units
<1>3. content \in [MemoryIds -> Contents \cup {Nil}] /\ nextUnit \in Nat /\ Nil \notin Contents
  BY <1>1, DerivedAssumption DEF IndexTypes, RowTypes
<1>4. ASSUME NEW m \in MemoryIds, NEW c \in Contents, Write(m, c) \/ UpdateContent(m, c) PROVE UnitsWell'
  BY <1>1, <1>2, <1>3, <1>4 DEF Write, UpdateContent, UnitsWell
<1>5. ASSUME NEW m \in MemoryIds, DeleteMemory(m) PROVE UnitsWell'
  BY <1>1, <1>2, <1>3, <1>5 DEF DeleteMemory, UnitsWell, UnitsOf
<1>6. CASE UnitsGraph
  <2>1. PICK parts : units' = (units \ UnitsOf(fg.id)) \cup NewUnits(parts)
    BY <1>1, <1>6, UnitsAreReplaced
  <2>2. fg.id \in MemoryIds /\ content[fg.id] # Nil /\ content' = content /\ nextUnit' = nextUnit + 2
    BY <1>1, <1>3, <1>6, UnitsAreReplaced
  <2>3. \A u \in NewUnits(parts) : u.id \in {nextUnit, nextUnit + 1} /\ u.of = fg.id
    BY DEF NewUnits
  <2>4. \A u, v \in NewUnits(parts) : u.id = v.id => u = v
    BY <1>3 DEF NewUnits
  <2>5. \A u \in units : u.id < nextUnit /\ content[u.of] # Nil
    BY <1>1 DEF UnitsWell
  <2>6. \A u \in units' : u.id < nextUnit' /\ content'[u.of] # Nil
    BY <1>2, <1>3, <2>1, <2>2, <2>3, <2>5
  <2>7. \A u, v \in units' : u.id = v.id => u = v
    BY <1>1, <1>2, <1>3, <2>1, <2>3, <2>4, <2>5 DEF UnitsWell
  <2> QED BY <2>6, <2>7 DEF UnitsWell
<1>7. CASE UNCHANGED <<content, units, links, nextUnit>>
  BY <1>1, <1>7 DEF UnitsWell
<1> QED BY <1>1, <1>4, <1>5, <1>6, <1>7, IndexRowsStay

\* What it makes of the links: some are kept, the episodes are linked both ways, and with
\* those it supersedes.
Kept(e, m) == e \in links /\ e[1] \notin IdsOf(UnitsOf(m)) /\ e[2] \notin IdsOf(UnitsOf(m))

Leads(e, m, episode, others) ==
  \E u \in others :
    \/ e = <<episode, u.id, "same">> \/ e = <<u.id, episode, "same">>
    \/ e = <<episode, u.id, "supersedes">> /\ <<m, u.of>> \in Supersedes

LEMMA EpisodeLinksAre ==
  ASSUME NEW m, NEW episode, NEW others
  PROVE  \A e : e \in EpisodeLinks(m, episode, others) <=> Leads(e, m, episode, others)
<1>1. \A e : e \in BothWays(episode, others)
               <=> \E u \in others : e = <<episode, u.id, "same">> \/ e = <<u.id, episode, "same">>
  BY DEF Both, BothWays
<1>2. \A e : e \in Superseding(m, episode, others)
               <=> \E u \in others : e = <<episode, u.id, "supersedes">> /\ <<m, u.of>> \in Supersedes
  BY DEF Superseding
<1> QED BY <1>1, <1>2 DEF EpisodeLinks, Leads

LEMMA KeptAre == ASSUME NEW m PROVE \A e : e \in LinksWithout(m) <=> Kept(e, m)
BY DEF LinksWithout, Kept

LEMMA LinksStayWell ==
  ASSUME IndexInv, IndexNext
  PROVE  EpisodesLinked'
<1>1. IndexTypes /\ UnitsWell /\ EpisodesLinked /\ (fg # Idle => CallIsWell)
  BY DEF IndexInv
<1>2. \A u \in units : u.id \in Nat /\ u.id < nextUnit
  BY <1>1 DEF IndexTypes, RowTypes, Units, UnitsWell
<1>3. \A u, v \in units : u.id = v.id => u = v
  BY <1>1 DEF UnitsWell
<1>4. \A e \in links : e[1] \in IdsOf(units) /\ e[2] \in IdsOf(units)
  BY <1>1 DEF EpisodesLinked
<1>5. \A u, v \in units : u.kind = "episode" /\ v.kind = "episode" /\ u.of # v.of => <<u.id, v.id, "same">> \in links
  BY <1>1 DEF EpisodesLinked, EpisodesOf
<1>6. ASSUME NEW m \in MemoryIds
      PROVE  /\ \A e : Kept(e, m) => /\ e[1] \in IdsOf(units \ UnitsOf(m))
                                     /\ e[2] \in IdsOf(units \ UnitsOf(m))
             /\ \A u, v \in units \ UnitsOf(m) :
                  u.kind = "episode" /\ v.kind = "episode" /\ u.of # v.of => Kept(<<u.id, v.id, "same">>, m)
  <2>1. \A i : i \in IdsOf(units) /\ i \notin IdsOf(UnitsOf(m)) => i \in IdsOf(units \ UnitsOf(m))
    BY DEF IdsOf
  <2>2. ASSUME NEW u \in units \ UnitsOf(m) PROVE u.id \notin IdsOf(UnitsOf(m))
    BY <1>3 DEF IdsOf, UnitsOf
  <2>3. \A e : Kept(e, m) => /\ e[1] \in IdsOf(units \ UnitsOf(m))
                             /\ e[2] \in IdsOf(units \ UnitsOf(m))
    BY <1>4, <2>1 DEF Kept
  <2>4. \A u, v \in units \ UnitsOf(m) :
          u.kind = "episode" /\ v.kind = "episode" /\ u.of # v.of => Kept(<<u.id, v.id, "same">>, m)
    BY <1>5, <2>2 DEF Kept
  <2> QED BY <2>3, <2>4
<1>7. ASSUME NEW m \in MemoryIds, NEW c \in Contents, Write(m, c) \/ UpdateContent(m, c)
      PROVE  EpisodesLinked'
  BY <1>1, <1>7 DEF Write, UpdateContent, EpisodesLinked, EpisodesOf, IdsOf
<1>8. ASSUME NEW m \in MemoryIds, DeleteMemory(m) PROVE EpisodesLinked'
  <2>1. units' = units \ UnitsOf(m) /\ \A e : e \in links' <=> Kept(e, m)
    BY <1>8, KeptAre DEF DeleteMemory
  <2>2. /\ \A e \in links' : e[1] \in IdsOf(units') /\ e[2] \in IdsOf(units')
        /\ \A u, v \in units' :
             u.kind = "episode" /\ v.kind = "episode" /\ u.of # v.of => <<u.id, v.id, "same">> \in links'
    BY <1>6, <2>1
  <2> QED BY <2>2 DEF EpisodesLinked, EpisodesOf, IdsOf
<1>9. CASE UnitsGraph
  <2>1. PICK m, others, episode : m = fg.id /\ others = units \ UnitsOf(m) /\ episode = nextUnit + 1
    OBVIOUS
  <2>2. m \in MemoryIds
    BY <1>1, <1>9, <2>1, UnitsAreReplaced
  <2>3. PICK parts : units' = others \cup NewUnits(parts)
    BY <1>1, <1>9, <2>1, UnitsAreReplaced
  <2>4. \A e : e \in links' <=> Kept(e, m) \/ Leads(e, m, episode, EpisodesOf(others))
    <3>1. links' = LinksWithout(m) \cup EpisodeLinks(m, episode, EpisodesOf(others))
      BY <1>9, <2>1 DEF UnitsGraph
    <3>2. \A e : e \in EpisodeLinks(m, episode, EpisodesOf(others))
                   <=> Leads(e, m, episode, EpisodesOf(others))
      BY EpisodeLinksAre
    <3>3. \A e : e \in LinksWithout(m) <=> Kept(e, m)
      BY KeptAre
    <3> QED BY <3>1, <3>2, <3>3
  <2>5. /\ \A e : Kept(e, m) => e[1] \in IdsOf(others) /\ e[2] \in IdsOf(others)
        /\ \A u, v \in others :
             u.kind = "episode" /\ v.kind = "episode" /\ u.of # v.of => Kept(<<u.id, v.id, "same">>, m)
    BY <1>6, <2>1, <2>2
  <2>6. episode \in IdsOf(units') /\ IdsOf(others) \subseteq IdsOf(units')
    <3>1. [id |-> episode, of |-> m, kind |-> "episode", from |-> {fg.c}] \in units'
      BY <2>1, <2>3 DEF NewUnits
    <3>2. others \subseteq units'
      BY <2>3
    <3> QED BY <3>1, <3>2 DEF IdsOf
  <2>7. \A u \in EpisodesOf(others) : u.id \in IdsOf(others)
    BY DEF EpisodesOf, IdsOf
  <2>8. \A e \in links' : {e[1], e[2]} \subseteq IdsOf(units')
    <3> SUFFICES ASSUME NEW e \in links' PROVE e[1] \in IdsOf(units') /\ e[2] \in IdsOf(units')
      OBVIOUS
    <3>1. CASE Kept(e, m)
      BY <2>5, <2>6, <3>1
    <3>2. ASSUME NEW u \in EpisodesOf(others),
                 e = <<episode, u.id, "same">> \/ e = <<u.id, episode, "same">>
                   \/ e = <<episode, u.id, "supersedes">>
          PROVE  e[1] \in IdsOf(units') /\ e[2] \in IdsOf(units')
      <4>1. u.id \in IdsOf(units')
        BY <2>6, <2>7
      <4> QED BY <2>6, <3>2, <4>1
    <3> QED BY <2>4, <3>1, <3>2 DEF Leads
  <2>9. \A u \in NewUnits(parts) : u.kind = "episode" => u.id = episode /\ u.of = m
    BY <2>1 DEF NewUnits
  <2>10. \A u \in others : u.kind = "episode" => u \in EpisodesOf(others)
    BY DEF EpisodesOf
  <2>11. ASSUME NEW u \in units', NEW v \in units', u.kind = "episode", v.kind = "episode", u.of # v.of
         PROVE  <<u.id, v.id, "same">> \in links'
    <3>1. CASE u \in others /\ v \in others
      BY <2>4, <2>5, <2>11, <3>1
    <3>2. CASE u \in others /\ v \in NewUnits(parts)
      BY <2>4, <2>9, <2>10, <2>11, <3>2 DEF Leads
    <3>3. CASE u \in NewUnits(parts) /\ v \in others
      BY <2>4, <2>9, <2>10, <2>11, <3>3 DEF Leads
    <3> QED BY <2>3, <2>9, <2>11, <3>1, <3>2, <3>3
  <2> QED BY <2>8, <2>11 DEF EpisodesLinked, EpisodesOf, IdsOf
<1>10. CASE UNCHANGED <<content, units, links, nextUnit>>
  BY <1>1, <1>10 DEF EpisodesLinked, EpisodesOf, IdsOf
<1> QED BY <1>1, <1>7, <1>8, <1>9, <1>10, IndexRowsStay

LEMMA NothingStrays ==
  ASSUME IndexInv, IndexNext
  PROVE  NothingStray'
<1>1. IndexTypes /\ RowTypes /\ NothingStray /\ (fg # Idle => CallIsWell) /\ Nil \notin Contents
  BY DerivedAssumption DEF IndexInv, IndexTypes
<1>2. fg.at # "idle" => fg.id \in MemoryIds /\ fg.c \in Contents /\ content[fg.id] = fg.c
  BY <1>1 DEF IndexTypes, IndexCall, Idle, CallIsWell
<1>3. /\ bg.at # "idle" => bg.id \in MemoryIds /\ bg.c \in Contents
      /\ bg = NoChild \/ bg.at # "idle"
  <2>1. bg = NoChild \/ bg \in ChildCall
    BY <1>1 DEF IndexTypes
  <2>2. NoChild.at = "idle" /\ \A b \in ChildCall : b.at # "idle" /\ b.id \in MemoryIds /\ b.c \in Contents
    BY DEF NoChild, ChildCall
  <2> QED BY <2>1, <2>2
<1>4. NoChild.left = {} /\ \A m : {} \subseteq UnitsOf(m)
  BY DEF NoChild
<1> DEFINE Backed == \A m \in MemoryIds : content[m] = Nil => memPoints[m] = Nil
           Inside == ~raced => unitPoints \subseteq IdsOf(units) /\ bg.left \subseteq UnitsOf(bg.id)
<1>5. Backed /\ Inside
  BY <1>1 DEF NothingStray
<1>6. ASSUME NEW m \in MemoryIds, NEW c \in Contents, Write(m, c) \/ UpdateContent(m, c)
      PROVE  NothingStray'
  <2>1. Backed'
    BY <1>1, <1>5, <1>6 DEF Write, UpdateContent, RowTypes
  <2>2. raced' \in BOOLEAN /\ (~raced' => ~raced)
    BY <1>1, <1>6 DEF Write, UpdateContent, Races, RowTypes
  <2>3. units' = units /\ unitPoints' = unitPoints /\ bg' = bg
    BY <1>6 DEF Write, UpdateContent
  <2> QED BY <1>5, <2>1, <2>2, <2>3 DEF NothingStray, IdsOf, UnitsOf
<1>7. ASSUME NEW m \in MemoryIds, units \ UnitsOf(m) \subseteq units',
             unitPoints' = unitPoints \ IdsOf(UnitsOf(m)), Races(m), bg' = bg
      PROVE  Inside'
  <2> SUFFICES ASSUME ~raced' PROVE unitPoints' \subseteq IdsOf(units)' /\ bg'.left \subseteq UnitsOf(bg.id)'
    OBVIOUS
  <2>1. ~Beside(m) /\ ~raced
    BY <1>7 DEF Races
  <2>2. unitPoints' \subseteq IdsOf(units)'
    BY <1>5, <1>7, <2>1 DEF IdsOf
  <2>3. bg = NoChild \/ bg.id # m
    BY <1>3, <2>1 DEF Beside
  <2>4. bg.left \subseteq UnitsOf(bg.id)'
    BY <1>4, <1>5, <1>7, <2>1, <2>3 DEF UnitsOf
  <2> QED BY <1>7, <2>2, <2>4
<1>8. ASSUME NEW m \in MemoryIds, DeleteMemory(m) PROVE NothingStray'
  <2>1. Backed'
    BY <1>1, <1>5, <1>8 DEF DeleteMemory, RowTypes
  <2>2. Inside'
    BY <1>7, <1>8 DEF DeleteMemory
  <2> QED BY <2>1, <2>2 DEF NothingStray
<1>9. CASE UnitsGraph
  <2>1. fg.id \in MemoryIds /\ \E parts : units' = (units \ UnitsOf(fg.id)) \cup NewUnits(parts)
    BY <1>1, <1>9, UnitsAreReplaced
  <2>3. units \ UnitsOf(fg.id) \subseteq units'
    BY <2>1
  <2>4. Inside'
    BY <1>7, <1>9, <2>1, <2>3 DEF UnitsGraph, DropPoints
  <2>5. Backed'
    BY <1>5, <1>9 DEF UnitsGraph
  <2> QED BY <2>4, <2>5 DEF NothingStray
<1>10. ASSUME NEW m \in MemoryIds, ChildReads(m) PROVE NothingStray'
  BY <1>1, <1>4, <1>5, <1>10 DEF ChildReads, indexRows, RowTypes, NothingStray, IdsOf, UnitsOf
<1>11. CASE Opened
  BY <1>5, <1>11 DEF Opened, indexRows, NothingStray, IdsOf, UnitsOf
<1>12. CASE Recreate
  BY <1>5, <1>12 DEF Recreate, indexRows, NothingStray, IdsOf, UnitsOf
<1>13. CASE EmbedFails \/ SyncFails \/ Negation
  BY <1>5, <1>13 DEF EmbedFails, SyncFails, Negation, indexRows, NothingStray, IdsOf, UnitsOf
<1>14. CASE EmbedSynced
  BY <1>1, <1>2, <1>5, <1>14 DEF EmbedSynced, indexRows, NothingStray, IdsOf, UnitsOf, RowTypes
<1>15. CASE Filling
  BY <1>5, <1>15 DEF Filling, Filled, NothingStray, IdsOf, UnitsOf
<1>16. CASE UnitEmbeddings
  BY <1>5, <1>16 DEF UnitEmbeddings, EmbedUnits, indexRows, NothingStray, IdsOf, UnitsOf
<1>17. CASE ChildEmbedFails \/ ChildSyncFails
  BY <1>4, <1>5, <1>17 DEF ChildEmbedFails, ChildSyncFails, indexRows, NothingStray, IdsOf, UnitsOf
<1>18. CASE ChildSyncs
  <2>1. bg'.id = bg.id /\ bg'.left = UnitsOf(bg.id) /\ bg.id \in MemoryIds
    BY <1>1, <1>3, <1>18 DEF ChildSyncs, IndexTypes, ChildCall, NoChild
  <2> QED BY <1>1, <1>5, <1>18, <2>1 DEF ChildSyncs, indexRows, NothingStray, IdsOf, UnitsOf, RowTypes
<1>19. CASE ChildUnits
  BY <1>4, <1>5, <1>19 DEF ChildUnits, EmbedUnits, indexRows, NothingStray, IdsOf, UnitsOf
<1>20. CASE Crash
  BY <1>4, <1>5, <1>20 DEF Crash, indexRows, NothingStray, IdsOf, UnitsOf
<1> QED BY <1>1, <1>6, <1>8, <1>9, <1>10, <1>11, <1>12, <1>13, <1>14, <1>15, <1>16, <1>17, <1>18, <1>19,
           <1>20, IndexCases

\* What becomes of the call in each step.
LEMMA CallCases ==
  ASSUME IndexTypes, fg # Idle => CallIsWell, IndexNext
  PROVE  \/ fg' = Idle
         \/ Begun /\ bg' = bg
         \/ EmbedSynced \/ Filling \/ UnitsGraph \/ UnitEmbeddings
         \/ /\ (\E m \in MemoryIds : ChildReads(m)) \/ ChildEmbedFails \/ ChildSyncFails
                 \/ ChildSyncs \/ ChildUnits
            /\ fg' = fg /\ UNCHANGED indexRows
<1>1. fg' = Idle \/ Begun \/ Onward \/ (fg' = fg /\ content' = content)
  BY CallsMove
<1>2. ASSUME NEW m \in MemoryIds, NEW c \in Contents, Write(m, c) \/ UpdateContent(m, c)
      PROVE  fg' = Idle \/ (Begun /\ bg' = bg)
  <2>1. CASE UpdateContent(m, c)
    BY <2>1 DEF UpdateContent
  <2>2. CASE Write(m, c)
    <3>1. fg = Idle /\ fg' # Idle /\ bg' = bg
      BY <2>2 DEF Write, StartCall, Idle
    <3> QED BY <1>1, <3>1 DEF Onward
  <2> QED BY <1>2, <2>1, <2>2
<1>3. ASSUME NEW m \in MemoryIds, DeleteMemory(m) PROVE fg' = Idle
  BY <1>3 DEF DeleteMemory
<1>4. Recreate \/ Crash => fg' = Idle
  BY DEF Recreate, Crash
<1>5. Opened => Begun /\ bg' = bg
  BY DEF Opened
<1>6. ASSUME EmbedFails \/ SyncFails \/ Negation PROVE fg' = Idle \/ (Begun /\ bg' = bg)
  <2>1. fg.at # "idle" /\ content' = content /\ bg' = bg /\ \E good \in BOOLEAN : Finish(good)
    BY <1>6 DEF EmbedFails, SyncFails, Negation, indexRows
  <2>2. fg \in IndexCall /\ CallIsWell
    BY <2>1 DEF IndexTypes, Idle
  <2> QED BY <2>1, <2>2, FinishesWell
<1>7. (\E m \in MemoryIds : ChildReads(m)) \/ ChildEmbedFails \/ ChildSyncFails \/ ChildSyncs \/ ChildUnits
        => fg' = fg /\ UNCHANGED indexRows
  BY DEF ChildReads, ChildEmbedFails, ChildSyncFails, ChildSyncs, ChildUnits
<1> QED BY <1>2, <1>3, <1>4, <1>5, <1>6, <1>7, IndexCases

LEMMA CallStaysWell ==
  ASSUME IndexInv, IndexNext, fg' # Idle
  PROVE  CallIsWell'
<1>1. IndexTypes /\ (fg # Idle => CallIsWell)
  BY DEF IndexInv
<1> QED BY <1>1, CallsMove DEF Begun, Onward, CallIsWell

LEMMA TablesHaveAnOrder ==
  /\ \A t \in Tables : Order[t] \in Nat /\ Order[t] # 0 /\ Order[t] # 8 /\ Order[t] # 10
  /\ \A t, s \in Tables : Order[t] = Order[s] => t = s
  /\ \A t \in Tables : t # "negation" => Order[t] < 11
  /\ \A t \in CallStages : Order[t] \in Nat
  /\ Order["embed"] = 0 /\ Order["aliases"] = 1 /\ Order["units"] = 8 /\ Order["episodes"] = 9
  /\ Order["vectors"] = 10 /\ Order["negation"] = 11
BY DEF Tables, Order, CallStages

LEMMA ProgressIsMade ==
  ASSUME IndexInv, IndexNext, fg' # Idle
  PROVE  Progress'
<1>1. IndexTypes /\ (fg # Idle => CallIsWell /\ Progress)
  BY DEF IndexInv
<1>2. fg.at # "idle" => fg # Idle /\ fg \in IndexCall
  BY <1>1 DEF IndexTypes, Idle
<1>3. tables \in [MemoryIds -> [Tables -> Contents \cup {Nil}]]
  BY <1>1 DEF IndexTypes, RowTypes
<1>4. CASE Begun /\ bg' = bg
  <2>1. Order[fg'.at] \in {0, 1}
    BY <1>4, TablesHaveAnOrder DEF Begun
  <2> QED BY <2>1, TablesHaveAnOrder DEF Progress
<1>5. CASE EmbedSynced
  <2>1. fg'.at = "aliases"
    BY <1>2, <1>5 DEF EmbedSynced, GoOn, IndexCall
  <2> QED BY <2>1, TablesHaveAnOrder DEF Progress
<1>6. CASE Filling
  <2>1. PICK t \in Tables : Filled(t)
    BY <1>6 DEF Filling
  <2>2. fg.at = t /\ fg \in IndexCall /\ Progress
    BY <1>1, <1>2, <2>1 DEF Filled, Tables
  <2>3. Order[fg'.at] = Order[t] + 1 /\ fg'.id = fg.id /\ fg'.c = fg.c /\ fg.id \in MemoryIds
    BY <2>1, <2>2 DEF Filled, GoOn, IndexCall
  <2>4. ASSUME NEW s \in Tables, Order[s] < Order[t] + 1 PROVE tables'[fg.id][s] = fg.c
    <3>1. CASE s = t
      BY <1>3, <2>1, <2>3, <3>1 DEF Filled
    <3>2. CASE s # t
      <4>1. Order[s] < Order[t]
        BY <2>4, <3>2, TablesHaveAnOrder
      <4>2. tables[fg.id][s] = fg.c
        BY <2>2, <4>1 DEF Progress
      <4> QED BY <1>3, <2>1, <2>3, <3>2, <4>2 DEF Filled
    <3> QED BY <3>1, <3>2
  <2>5. Order[t] + 1 > 8 => Rebuilt(fg.id, fg.c)'
    <3>1. Order[t] + 1 > 8 => Order[t] > 8
      BY TablesHaveAnOrder
    <3>2. Order[t] > 8 => Rebuilt(fg.id, fg.c)
      BY <2>2 DEF Progress
    <3> QED BY <3>1, <3>2, <2>1, <2>3 DEF Rebuilt, UnitsOf, Filled
  <2> QED BY <2>3, <2>4, <2>5 DEF Progress, Rebuilt, UnitsOf
<1>7. CASE UnitsGraph
  <2>1. fg.at = "units" /\ fg \in IndexCall /\ Progress /\ tables' = tables
    BY <1>1, <1>2, <1>7 DEF UnitsGraph
  <2>2. fg'.at = "episodes" /\ fg'.id = fg.id /\ fg'.c = fg.c
    BY <1>7, <2>1 DEF UnitsGraph, GoOn, IndexCall
  <2>3. \A t \in Tables : Order[t] < 9 => tables[fg.id][t] = fg.c
    BY <2>1, TablesHaveAnOrder DEF Progress
  <2>4. PICK parts : /\ units' = (units \ UnitsOf(fg.id)) \cup NewUnits(parts)
                     /\ parts = {tables[fg.id][t] : t \in {"summaries", "events", "temporal",
                                                           "entities", "coref", "chunks"}}
    BY <1>1, <1>7, UnitsAreReplaced
  <2>5. parts = {fg.c}
    <3>1. \A t \in {"summaries", "events", "temporal", "entities", "coref", "chunks"} :
            t \in Tables /\ Order[t] < 9
      BY DEF Tables, Order
    <3> QED BY <2>3, <2>4, <3>1
  <2>6. UnitsOf(fg.id)' = NewUnits(parts)
    BY <2>2, <2>4 DEF UnitsOf, NewUnits
  <2>7. Rebuilt(fg.id, fg.c)'
    BY <2>2, <2>5, <2>6 DEF Rebuilt, NewUnits
  <2> QED BY <2>1, <2>2, <2>3, <2>7, TablesHaveAnOrder DEF Progress
<1>8. CASE UnitEmbeddings
  <2>1. fg.at = "vectors" /\ fg \in IndexCall /\ Progress /\ tables' = tables /\ units' = units
    BY <1>1, <1>2, <1>8 DEF UnitEmbeddings, indexRows
  <2>2. fg'.at = "negation" /\ fg'.id = fg.id /\ fg'.c = fg.c
    BY <1>8, <2>1 DEF UnitEmbeddings, IndexCall
  <2> QED BY <2>1, <2>2, TablesHaveAnOrder DEF Progress, Rebuilt, UnitsOf
<1>9. CASE fg' = fg /\ UNCHANGED indexRows
  BY <1>1, <1>9 DEF Progress, Rebuilt, UnitsOf, indexRows
<1> QED BY <1>1, <1>4, <1>5, <1>6, <1>7, <1>8, <1>9, CallCases

LEMMA CleanStaysClean ==
  ASSUME IndexInv, IndexNext, fg' # Idle
  PROVE  StaysClean'
<1>1. IndexTypes /\ RowTypes /\ (fg # Idle => CallIsWell /\ StaysClean)
  BY DEF IndexInv, IndexTypes
<1>2. fg.at # "idle" => fg # Idle /\ fg \in IndexCall
  BY <1>1 DEF IndexTypes, Idle
<1>3. /\ bg = NoChild \/ bg \in ChildCall
      /\ NoChild.at = "idle" /\ NoChild.id = Nil /\ Nil \notin MemoryIds
  BY <1>1, DerivedAssumption DEF IndexTypes, NoChild
<1>4. fg # Idle => fg.id \in MemoryIds /\ fg.c = content[fg.id]
  BY <1>1 DEF IndexTypes, IndexCall, CallIsWell
<1>5. CASE Begun /\ bg' = bg
  <2>1. fg'.id \in MemoryIds /\ fg'.at # "negation" /\ (fg'.op = "repair" => fg'.at = "embed")
    BY <1>5 DEF Begun, IndexCall
  <2>2. fg'.clean => ~Beside(fg'.id)
    BY <1>5 DEF Begun
  <2>3. fg'.clean => bg.id # fg'.id
    BY <1>3, <2>1, <2>2 DEF Beside, ChildCall
  <2> QED BY <1>5, <2>1, <2>3 DEF StaysClean
<1>6. CASE EmbedSynced
  <2>1. fg.at = "embed" /\ fg \in IndexCall /\ StaysClean
    BY <1>1, <1>2, <1>6 DEF EmbedSynced
  <2>2. /\ fg'.at = "aliases" /\ fg'.id = fg.id /\ fg'.c = fg.c /\ fg'.clean = fg.clean
        /\ fg.id \in MemoryIds
    BY <1>6, <2>1 DEF EmbedSynced, GoOn, IndexCall
  <2>3. memPoints'[fg.id] = fg.c /\ bg' = bg
    BY <1>1, <1>6, <2>2 DEF EmbedSynced, RowTypes
  <2> QED BY <2>1, <2>2, <2>3 DEF StaysClean
<1>7. CASE Filling
  <2>1. PICK t \in Tables : Filled(t)
    BY <1>7 DEF Filling
  <2>2. fg.at = t /\ fg \in IndexCall /\ StaysClean /\ t # "embed" /\ memPoints' = memPoints /\ bg' = bg
    BY <1>1, <1>2, <2>1 DEF Filled, Tables
  <2>3. /\ Order[fg'.at] = Order[t] + 1 /\ fg'.id = fg.id /\ fg'.c = fg.c /\ fg'.op = fg.op
        /\ fg'.clean = fg.clean
    BY <2>1, <2>2 DEF Filled, GoOn, IndexCall
  <2>4. fg'.at # "negation"
    BY <2>3, TablesHaveAnOrder
  <2> QED BY <2>2, <2>3, <2>4 DEF StaysClean
<1>8. CASE UnitsGraph
  <2>1. fg.at = "units" /\ fg \in IndexCall /\ StaysClean /\ memPoints' = memPoints /\ bg' = bg
    BY <1>1, <1>2, <1>8 DEF UnitsGraph
  <2>2. /\ fg'.at = "episodes" /\ fg'.id = fg.id /\ fg'.c = fg.c /\ fg'.op = fg.op
        /\ fg'.clean = fg.clean
    BY <1>8, <2>1 DEF UnitsGraph, GoOn, IndexCall
  <2> QED BY <2>1, <2>2 DEF StaysClean
<1>9. CASE UnitEmbeddings
  <2>1. /\ fg.at = "vectors" /\ fg \in IndexCall /\ StaysClean /\ memPoints' = memPoints /\ bg' = bg
        /\ units' = units
    BY <1>1, <1>2, <1>9 DEF UnitEmbeddings, indexRows
  <2>2. PICK got, kept \in SUBSET UnitsOf(fg.id) :
          /\ EmbedUnits(got, kept)
          /\ fg' = [fg EXCEPT !.at = "negation", !.clean = (@ /\ kept = UnitsOf(fg.id))]
    BY <1>9 DEF UnitEmbeddings
  <2>3. PICK clean \in BOOLEAN : clean = (fg.clean /\ kept = UnitsOf(fg.id))
    OBVIOUS
  <2>4. fg' = [fg EXCEPT !.at = "negation", !.clean = clean]
    BY <2>2, <2>3
  <2>5. /\ fg'.at = "negation" /\ fg'.id = fg.id /\ fg'.c = fg.c /\ fg'.op = fg.op
        /\ fg'.clean = clean
    BY <2>1, <2>4 DEF IndexCall
  <2>6. clean => fg.clean /\ kept = UnitsOf(fg.id)
    BY <2>3
  <2>7. unitPoints' = unitPoints \cup IdsOf(kept)
    BY <2>2 DEF EmbedUnits
  <2>8. clean => IdsOf(UnitsOf(fg.id))' \subseteq unitPoints'
    BY <2>1, <2>5, <2>6, <2>7 DEF IdsOf, UnitsOf
  <2>9. clean => (fg.op = "repair" => memPoints[fg.id] = fg.c) /\ (bg.id = fg.id => bg.c = fg.c)
    BY <2>1, <2>6 DEF StaysClean
  <2> QED BY <2>1, <2>5, <2>8, <2>9 DEF StaysClean
<1>10. ASSUME NEW m \in MemoryIds, ChildReads(m), fg' = fg PROVE StaysClean'
  <2>1. StaysClean /\ fg.id \in MemoryIds /\ fg.c = content[fg.id]
    BY <1>1, <1>4, <1>10
  <2>2. bg'.id = fg.id => bg'.c = fg.c
    BY <1>3, <1>10, <2>1 DEF ChildReads
  <2>3. memPoints' = memPoints /\ units' = units /\ unitPoints' = unitPoints
    BY <1>10 DEF ChildReads, indexRows
  <2> QED BY <1>10, <2>1, <2>2, <2>3 DEF StaysClean, IdsOf, UnitsOf
<1>11. CASE (ChildEmbedFails \/ ChildSyncFails \/ ChildUnits) /\ fg' = fg
  <2>1. StaysClean /\ fg.id \in MemoryIds /\ bg' = NoChild
    BY <1>1, <1>4, <1>11 DEF ChildEmbedFails, ChildSyncFails, ChildUnits
  <2>2. memPoints' = memPoints /\ units' = units /\ unitPoints \subseteq unitPoints'
    BY <1>11 DEF ChildEmbedFails, ChildSyncFails, ChildUnits, EmbedUnits, indexRows
  <2> QED BY <1>3, <1>11, <2>1, <2>2 DEF StaysClean, IdsOf, UnitsOf
<1>12. CASE ChildSyncs /\ fg' = fg
  <2>1. StaysClean /\ fg.id \in MemoryIds /\ bg \in ChildCall
    BY <1>1, <1>3, <1>4, <1>12 DEF ChildSyncs
  <2>2. bg'.id = bg.id /\ bg'.c = bg.c
    BY <1>12, <2>1 DEF ChildSyncs, ChildCall
  <2>3. memPoints'[fg.id] = IF bg.id = fg.id THEN bg.c ELSE memPoints[fg.id]
    BY <1>1, <1>12, <2>1 DEF ChildSyncs, RowTypes
  <2>4. units' = units /\ unitPoints' = unitPoints
    BY <1>12 DEF ChildSyncs, indexRows
  <2> QED BY <1>12, <2>1, <2>2, <2>3, <2>4 DEF StaysClean, IdsOf, UnitsOf
<1> QED BY <1>1, <1>5, <1>6, <1>7, <1>8, <1>9, <1>10, <1>11, <1>12, CallCases

LEMMA RepairsRestore ==
  ASSUME IndexInv, IndexNext
  PROVE  RepairRestores'
<1> SUFFICES ASSUME fixed' # Nil, fg' = Idle PROVE (Derived(fixed) /\ (bg = NoChild => Indexed(fixed)))'
  BY DEF RepairRestores
<1>1. IndexTypes /\ RowTypes /\ (fg # Idle => CallIsWell /\ Progress /\ StaysClean)
  BY DEF IndexInv, IndexTypes
<1>2. CASE Negation
  <2>1. fg.at = "negation" /\ fg \in IndexCall /\ Progress /\ StaysClean /\ CallIsWell
    BY <1>1, <1>2 DEF Negation, IndexTypes, Idle
  <2>2. fixed' = fg.id /\ fg.op = "repair" /\ fg.clean /\ bg' = bg /\ content' = content
          /\ units' = units /\ unitPoints' = unitPoints /\ memPoints' = memPoints
    BY <1>2 DEF Negation, Finish
  <2>3. fg.id \in MemoryIds /\ content[fg.id] = fg.c
    BY <2>1 DEF IndexCall, CallIsWell
  <2>4. \A t \in Tables : tables'[fg.id][t] = fg.c
    <3>1. \A t \in Tables \ {"negation"} : tables[fg.id][t] = fg.c
      BY <2>1, TablesHaveAnOrder DEF Progress
    <3> QED BY <1>1, <1>2, <2>3, <3>1 DEF Negation, RowTypes, Tables
  <2>5. Rebuilt(fg.id, fg.c)
    BY <2>1, TablesHaveAnOrder DEF Progress
  <2>6. Derived(fixed)'
    BY <2>2, <2>3, <2>4, <2>5 DEF Derived, Rebuilt, UnitsOf
  <2>7. Indexed(fixed)'
    BY <2>1, <2>2, <2>3 DEF Indexed, StaysClean, IdsOf, UnitsOf
  <2> QED BY <2>6, <2>7
<1>3. fg.at # "idle" => fg \in IndexCall
  BY <1>1 DEF IndexTypes, Idle
<1>4. ASSUME EmbedSynced \/ Filling \/ UnitsGraph \/ UnitEmbeddings PROVE fg' # Idle
  <2>1. fg.at # "idle" /\ fg \in IndexCall
    BY <1>3, <1>4 DEF EmbedSynced, Filling, Filled, UnitsGraph, UnitEmbeddings, Tables
  <2>2. fg'.op = fg.op
    BY <1>4, <2>1 DEF EmbedSynced, Filling, Filled, UnitsGraph, UnitEmbeddings, GoOn, IndexCall
  <2> QED BY <2>1, <2>2 DEF IndexCall, Idle
<1>5. EmbedFails \/ SyncFails => fixed' = Nil
  BY DEF EmbedFails, SyncFails, Finish
<1>6. \A m \in MemoryIds : DeleteMemory(m) \/ ChildReads(m) \/ (\E c \in Contents : Write(m, c) \/ UpdateContent(m, c))
        => fixed' = Nil
  BY DEF DeleteMemory, ChildReads, Write, UpdateContent, StartCall
<1>7. Opened \/ Recreate \/ Crash \/ ChildEmbedFails \/ ChildSyncFails \/ ChildSyncs \/ ChildUnits
        => fixed' = Nil
  BY DEF Opened, Recreate, Crash, ChildEmbedFails, ChildSyncFails, ChildSyncs, ChildUnits
<1> QED BY <1>1, <1>2, <1>4, <1>5, <1>6, <1>7, IndexCases

LEMMA PointsDiffer ==
  /\ \A m, u : Mem(m) # UnitOf(u)
  /\ \A m, k : Mem(m) = Mem(k) => m = k
  /\ \A u, v : UnitOf(u) = UnitOf(v) => u.id = v.id
<1>1. ASSUME NEW m, NEW u PROVE Mem(m) # UnitOf(u)
  BY DEF Mem, UnitOf
<1>2. ASSUME NEW m, NEW k, Mem(m) = Mem(k) PROVE m = k
  BY <1>2 DEF Mem
<1>3. ASSUME NEW u, NEW v, UnitOf(u) = UnitOf(v) PROVE u.id = v.id
  BY <1>3 DEF UnitOf
<1> QED BY <1>1, <1>2, <1>3

\* Nothing of the index changes that m is judged by.
LEMMA SettledStays ==
  ASSUME NEW m, content'[m] = content[m], tables'[m] = tables[m], UnitsOf(m)' = UnitsOf(m)
  PROVE  Derived(m) => Derived(m)'
BY DEF Derived

\* The units of m keep their vectors, or their entries in the ledger.
UnitsKeep(m) ==
  \A u \in UnitsOf(m) : u.id \in unitPoints \/ UnitOf(u) \in failing
                         => u.id \in unitPoints' \/ UnitOf(u) \in failing'

LEMMA UnitsVectoredStays ==
  ASSUME NEW m, UnitsKeep(m), UnitsOf(m)' = UnitsOf(m), UnitsVectored(m),
         fg.id = m => fg.at \notin {"episodes", "vectors"}
  PROVE  UnitsVectored(m)'
<1>1. \A u \in UnitsOf(m) : u.id \in unitPoints \/ UnitOf(u) \in failing
  BY DEF UnitsVectored
<1>2. \A u \in UnitsOf(m)' : u.id \in unitPoints' \/ UnitOf(u) \in failing'
  BY <1>1 DEF UnitsKeep
<1> QED BY <1>2 DEF UnitsVectored, UnitOf

LEMMA EmbeddingKeeps ==
  ASSUME NEW m, NEW got, NEW kept, EmbedUnits(got, kept)
  PROVE  /\ UnitsKeep(m) /\ (Mem(m) \in failing => Mem(m) \in failing')
         /\ \A u \in got : u.id \in unitPoints' \/ UnitOf(u) \in failing'
<1>1. \A u \in kept : u.id \in unitPoints'
  BY DEF EmbedUnits, IdsOf
<1>2. ASSUME NEW u, u.id \in unitPoints \/ UnitOf(u) \in failing
      PROVE  u.id \in unitPoints' \/ UnitOf(u) \in failing'
  <2>1. CASE \E v \in kept : UnitOf(u) = UnitOf(v)
    BY <1>1, <2>1, PointsDiffer
  <2>2. CASE ~\E v \in kept : UnitOf(u) = UnitOf(v)
    BY <1>2, <2>2 DEF EmbedUnits
  <2> QED BY <2>1, <2>2
<1>3. Mem(m) \in failing => Mem(m) \in failing'
  BY PointsDiffer DEF EmbedUnits
<1>4. \A u \in got : u.id \in unitPoints' \/ UnitOf(u) \in failing'
  BY <1>1 DEF EmbedUnits
<1> QED BY <1>2, <1>3, <1>4 DEF UnitsKeep

LEMMA DroppingKeeps ==
  ASSUME UnitsWell, NEW m, NEW k, m # k,
         unitPoints' = unitPoints \ IdsOf(UnitsOf(k)),
         \A p \in failing : p \in failing' \/ p = Mem(k) \/ \E u \in UnitsOf(k) : p = UnitOf(u)
  PROVE  UnitsKeep(m) /\ (Mem(m) \in failing => Mem(m) \in failing')
<1>1. ASSUME NEW u \in UnitsOf(m), NEW v \in UnitsOf(k) PROVE u.id # v.id
  BY DEF UnitsWell, UnitsOf
<1>2. Mem(m) \in failing => Mem(m) \in failing'
  BY PointsDiffer
<1>3. ASSUME NEW u \in UnitsOf(m), u.id \in unitPoints PROVE u.id \in unitPoints'
  BY <1>1, <1>3 DEF IdsOf
<1>4. ASSUME NEW u \in UnitsOf(m), UnitOf(u) \in failing PROVE UnitOf(u) \in failing'
  BY <1>1, <1>4, PointsDiffer
<1> QED BY <1>2, <1>3, <1>4 DEF UnitsKeep

LEMMA IndexFacts ==
  ASSUME IndexInv
  PROVE  /\ IndexTypes /\ RowTypes /\ UnitsWell /\ Nil \notin MemoryIds /\ Nil \notin Contents
         /\ fg = Idle \/ (fg \in IndexCall /\ fg # Idle /\ CallIsWell /\ Progress /\ StaysClean)
         /\ bg = NoChild \/ bg \in ChildCall
         /\ Idle.id = Nil /\ Idle.op = "none" /\ Idle.at = "idle"
         /\ NoChild.id = Nil /\ NoChild.at = "idle"
         /\ \A m \in MemoryIds : content[m] # Nil /\ m \notin excused => Settled(m)
         /\ \A m \in MemoryIds : content[m] = Nil => UnitsOf(m) = {}
<1>1. IndexTypes /\ RowTypes /\ UnitsWell /\ (fg # Idle => CallIsWell /\ Progress /\ StaysClean)
        /\ \A m \in MemoryIds : content[m] # Nil /\ m \notin excused => Settled(m)
  BY DEF IndexInv, IndexTypes
<1>2. \A m \in MemoryIds : content[m] = Nil => UnitsOf(m) = {}
  BY <1>1 DEF UnitsWell, UnitsOf
<1>3. /\ fg = Idle \/ fg \in IndexCall
      /\ bg = NoChild \/ bg \in ChildCall
  BY <1>1 DEF IndexTypes
<1>4. /\ Idle.id = Nil /\ Idle.op = "none" /\ Idle.at = "idle"
      /\ NoChild.id = Nil /\ NoChild.at = "idle"
  BY DEF Idle, NoChild
<1> QED BY <1>1, <1>2, <1>3, <1>4, DerivedAssumption

LEMMA SettledByStarts ==
  ASSUME IndexInv, NEW m \in MemoryIds, content'[m] # Nil, m \notin excused',
         \/ \E k \in MemoryIds, c \in Contents : Write(k, c) \/ UpdateContent(k, c)
         \/ \E k \in MemoryIds : DeleteMemory(k)
         \/ Opened \/ Recreate \/ Crash
  PROVE  Settled(m)'
<1>1. ASSUME NEW k \in MemoryIds, NEW c \in Contents, Write(k, c) PROVE Settled(m)'
  <2>1. /\ fg = Idle /\ fg'.op = "write" /\ fg'.at = "aliases" /\ fg'.id = k
        /\ UNCHANGED <<tables, units, memPoints, unitPoints, failing, jobs, bg>>
        /\ \A j \in MemoryIds : content'[j] = IF j = k THEN c ELSE content[j]
    BY <1>1, IndexFacts DEF Write, StartCall, RowTypes
  <2>2. UnitsOf(m)' = UnitsOf(m) /\ UnitsKeep(m) /\ m \notin excused
    BY <1>1, <2>1 DEF UnitsOf, UnitsKeep, Write, Races
  <2>3. CASE m = k
    <3>1. Vectored(m)'
      BY <2>1, <2>3 DEF Vectored
    <3>2. UnitsVectored(m)'
      <4>1. CASE content[m] = Nil
        BY <2>2, <4>1, IndexFacts DEF UnitsVectored
      <4>2. CASE content[m] # Nil
        <5>1. Settled(m)
          BY <2>2, <4>2, IndexFacts
        <5> QED BY <2>1, <2>2, <5>1, UnitsVectoredStays, IndexFacts DEF Settled
      <4> QED BY <4>1, <4>2
    <3>3. bg.id # m
      <4>1. ~Beside(m)
        BY <1>1, <2>3 DEF Write, Races
      <4> QED BY <4>1, IndexFacts DEF Beside, ChildCall
    <3> QED BY <2>1, <2>3, <3>1, <3>2, <3>3 DEF Settled
  <2>4. CASE m # k
    <3>1. content'[m] = content[m] /\ Settled(m) /\ fg.id # m
      BY <2>1, <2>2, <2>4, IndexFacts
    <3>2. Derived(m)'
      BY <2>1, <2>2, <3>1, SettledStays DEF Settled
    <3>3. Vectored(m)'
      BY <2>1, <3>1, IndexFacts DEF Settled, Vectored, Mem
    <3>4. UnitsVectored(m)'
      BY <2>1, <2>2, <3>1, UnitsVectoredStays DEF Settled
    <3> QED BY <2>1, <3>1, <3>2, <3>3, <3>4 DEF Settled
  <2> QED BY <2>3, <2>4
<1>2. ASSUME UNCHANGED <<bg, jobs>>, fg = Idle, fg' = Idle,
             content'[m] = content[m], tables'[m] = tables[m], memPoints'[m] = memPoints[m],
             UnitsOf(m)' = UnitsOf(m), UnitsKeep(m), Mem(m) \in failing => Mem(m) \in failing', m \notin excused
      PROVE  Settled(m)'
  <2>1. Settled(m) /\ fg.id # m /\ fg.op # "write"
    BY <1>2, IndexFacts
  <2>2. Derived(m)'
    BY <1>2, <2>1, SettledStays DEF Settled
  <2>3. Vectored(m)'
    BY <1>2, <2>1 DEF Settled, Vectored, Mem
  <2>4. UnitsVectored(m)'
    BY <1>2, <2>1, UnitsVectoredStays DEF Settled
  <2> QED BY <1>2, <2>1, <2>2, <2>3, <2>4 DEF Settled
<1>3. ASSUME NEW k \in MemoryIds, NEW c \in Contents, UpdateContent(k, c) PROVE Settled(m)'
  <2>1. m # k /\ m \notin excused
    BY <1>3 DEF UpdateContent
  <2>2. content'[m] = content[m]
    BY <1>3, <2>1, IndexFacts DEF UpdateContent, RowTypes
  <2>3. UNCHANGED <<tables, units, memPoints, unitPoints, failing, bg, jobs>> /\ fg = Idle /\ fg' = Idle
    BY <1>3 DEF UpdateContent
  <2>4. UnitsOf(m)' = UnitsOf(m) /\ UnitsKeep(m)
    BY <2>3 DEF UnitsOf, UnitsKeep
  <2> QED BY <1>2, <2>1, <2>2, <2>3, <2>4
<1>4. ASSUME NEW k \in MemoryIds, DeleteMemory(k) PROVE Settled(m)'
  <2>1. m # k /\ m \notin excused
    BY <1>4, IndexFacts DEF DeleteMemory, Races, RowTypes
  <2>2. /\ content'[m] = content[m] /\ tables'[m] = tables[m] /\ memPoints'[m] = memPoints[m]
        /\ UnitsOf(m)' = UnitsOf(m)
    BY <1>4, <2>1, IndexFacts DEF DeleteMemory, RowTypes, UnitsOf
  <2>3. UNCHANGED <<bg, jobs>> /\ fg = Idle /\ fg' = Idle
    BY <1>4 DEF DeleteMemory
  <2>4. UnitsKeep(m) /\ (Mem(m) \in failing => Mem(m) \in failing')
    BY <1>4, <2>1, IndexFacts, DroppingKeeps DEF DeleteMemory
  <2> QED BY <1>2, <2>1, <2>2, <2>3, <2>4
<1>5. CASE Opened
  <2>1. /\ UNCHANGED <<content, tables, units, memPoints, unitPoints, failing, bg, jobs, excused>>
        /\ fg = Idle /\ Begun
    BY <1>5 DEF Opened, indexRows
  <2>2. UnitsOf(m)' = UnitsOf(m) /\ UnitsKeep(m)
    BY <2>1 DEF UnitsOf, UnitsKeep
  <2>3. Settled(m) /\ fg.id # m /\ fg.op # "write"
    BY <2>1, IndexFacts
  <2>4. Derived(m)'
    BY <2>1, <2>2, <2>3, SettledStays DEF Settled
  <2>5. Vectored(m)'
    BY <2>1, <2>3 DEF Settled, Vectored, Mem
  <2>6. UnitsVectored(m)'
    BY <2>1, <2>2, <2>3, UnitsVectoredStays DEF Settled
  <2> QED BY <2>1, <2>3, <2>4, <2>5, <2>6 DEF Settled
<1>6. CASE Recreate
  BY <1>6 DEF Recreate, indexRows
<1>7. CASE Crash
  <2>1. /\ UNCHANGED <<content, tables, units, memPoints, unitPoints, failing>>
        /\ fg' = Idle /\ bg' = NoChild
        /\ m \notin excused /\ m \notin jobs /\ m # fg.id /\ m # bg.id
    BY <1>7, IndexFacts DEF Crash, indexRows
  <2>2. UnitsOf(m)' = UnitsOf(m) /\ UnitsKeep(m)
    BY <2>1 DEF UnitsOf, UnitsKeep
  <2>3. Settled(m)
    BY <2>1, IndexFacts
  <2>4. Derived(m)'
    BY <2>1, <2>2, <2>3, SettledStays DEF Settled
  <2>5. Vectored(m)'
    BY <2>1, <2>3 DEF Settled, Vectored, Mem
  <2>6. UnitsVectored(m)'
    BY <2>1, <2>2, <2>3, UnitsVectoredStays DEF Settled
  <2> QED BY <2>1, <2>4, <2>5, <2>6, IndexFacts DEF Settled
<1> QED BY <1>1, <1>3, <1>4, <1>5, <1>6, <1>7

\* A call that ends, or goes on to its next memory, leaves what is settled alone.
LEMMA SettledByTurning ==
  ASSUME IndexInv, NEW m \in MemoryIds, fg' = Idle \/ Begun, bg' = bg,
         content[m] # Nil, UnitsOf(m)' = UnitsOf(m), UnitsVectored(m)', content' = content,
         Derived(m)', bg.id = m => bg.c = content[m],
         \/ memPoints'[m] = content[m] \/ Mem(m) \in failing' \/ m \in jobs'
         \/ bg.at = "sync" /\ bg.id = m
  PROVE  Settled(m)'
BY DEF Settled, Vectored, Mem

LEMMA SettledByCalls ==
  ASSUME IndexInv, NEW m \in MemoryIds, content'[m] # Nil, m \notin excused',
         EmbedFails \/ SyncFails \/ EmbedSynced \/ Filling \/ UnitsGraph \/ UnitEmbeddings \/ Negation
  PROVE  Settled(m)'
<1>1. fg.at # "idle" => /\ fg # Idle /\ fg \in IndexCall /\ CallIsWell /\ Progress /\ StaysClean
                        /\ fg.id \in MemoryIds /\ fg.c = content[fg.id]
  BY IndexFacts DEF IndexCall, CallIsWell
<1>2. UnitsWell /\ RowTypes
  BY IndexFacts
<1>3. CASE EmbedFails \/ SyncFails
  <2>1. /\ UNCHANGED <<content, tables, units, memPoints, unitPoints, jobs, bg, excused>>
        /\ failing \subseteq failing' /\ fg.at = "embed"
    BY <1>3 DEF EmbedFails, SyncFails, indexRows
  <2>2. UnitsOf(m)' = UnitsOf(m) /\ UnitsKeep(m)
    BY <2>1 DEF UnitsOf, UnitsKeep
  <2>3. Settled(m) /\ fg.op = "repair" /\ fg \in IndexCall /\ CallIsWell
    BY <1>1, <2>1, IndexFacts DEF CallIsWell
  <2>4. Derived(m)'
    BY <2>1, <2>2, <2>3, SettledStays DEF Settled
  <2>5. UnitsVectored(m)'
    BY <2>1, <2>2, <2>3, UnitsVectoredStays DEF Settled
  <2>6. fg' = Idle \/ Begun
    BY <1>3, <2>1, <2>3, FinishesWell DEF EmbedFails, SyncFails
  <2> QED BY <2>1, <2>2, <2>3, <2>4, <2>5, <2>6, SettledByTurning DEF Settled, Vectored
<1>4. CASE EmbedSynced
  <2>1. /\ UNCHANGED <<content, tables, units, jobs, bg, excused>> /\ fg.at = "embed"
        /\ memPoints' = [memPoints EXCEPT ![fg.id] = fg.c]
        /\ unitPoints' = unitPoints \cup IdsOf(UnitsOf(fg.id))
        /\ failing' = failing \ ({Mem(fg.id)} \cup {UnitOf(u) : u \in UnitsOf(fg.id)})
    BY <1>4 DEF EmbedSynced, indexRows
  <2>2. Settled(m) /\ fg.op = "repair" /\ fg \in IndexCall /\ fg.id \in MemoryIds /\ fg.c = content[fg.id]
    BY <1>1, <2>1, IndexFacts DEF CallIsWell
  <2>3. fg'.at = "aliases" /\ fg'.id = fg.id /\ fg'.op = fg.op
    BY <1>4, <2>2 DEF EmbedSynced, GoOn, IndexCall
  <2>4. UnitsOf(m)' = UnitsOf(m)
    BY <2>1 DEF UnitsOf
  <2>5. UnitsKeep(m)
    BY <2>1, PointsDiffer DEF UnitsKeep, IdsOf
  <2>6. fg.id # m => Derived(m)'
    BY <2>1, <2>2, <2>4, SettledStays DEF Settled
  <2>7. UnitsVectored(m)'
    BY <2>1, <2>2, <2>4, <2>5, UnitsVectoredStays DEF Settled
  <2>8. Vectored(m)'
    <3>1. CASE m = fg.id
      BY <1>2, <2>1, <2>2, <3>1 DEF Vectored, RowTypes
    <3>2. CASE m # fg.id
      <4>1. memPoints'[m] = memPoints[m]
        BY <1>2, <2>1, <3>2 DEF RowTypes
      <4>2. Mem(m) \in failing => Mem(m) \in failing'
        BY <2>1, <3>2, PointsDiffer
      <4> QED BY <2>1, <2>2, <3>2, <4>1, <4>2 DEF Settled, Vectored, Mem
    <3> QED BY <3>1, <3>2
  <2> QED BY <2>1, <2>2, <2>3, <2>6, <2>7, <2>8 DEF Settled
<1>5. CASE Filling
  <2>1. PICK t \in Tables : Filled(t)
    BY <1>5 DEF Filling
  <2>2. /\ UNCHANGED <<content, units, memPoints, unitPoints, failing, jobs, bg, excused>> /\ fg.at = t
        /\ fg.at # "idle" /\ fg.at # "embed" /\ fg.at # "vectors"
        /\ tables' = [tables EXCEPT ![fg.id][t] = fg.c]
    BY <2>1 DEF Filled, Tables
  <2>3. Settled(m) /\ fg \in IndexCall
    BY <1>1, <2>2, IndexFacts
  <2>4. PICK at \in CallStages : fg'.at = at /\ fg'.id = fg.id /\ fg'.op = fg.op /\ Order[at] = Order[t] + 1
    BY <2>1, <2>3 DEF Filled, GoOn, IndexCall
  <2>5. UnitsOf(m)' = UnitsOf(m) /\ UnitsKeep(m)
    BY <2>2 DEF UnitsOf, UnitsKeep
  <2>6. fg.id # m => Derived(m)'
    <3>1. fg.id # m => tables'[m] = tables[m]
      BY <1>2, <2>2 DEF RowTypes
    <3> QED BY <2>2, <2>3, <2>5, <3>1, SettledStays DEF Settled
  <2>7. at # "embed" /\ (t = "episodes" => at = "vectors")
    BY <2>4, TablesHaveAnOrder DEF CallStages, Order
  <2>8. Vectored(m)'
    BY <2>2, <2>3, <2>4 DEF Settled, Vectored, Mem
  <2>9. UnitsVectored(m)'
    <3>1. CASE fg.id = m /\ t = "episodes"
      BY <2>4, <2>7, <3>1 DEF UnitsVectored
    <3>2. CASE ~(fg.id = m /\ t = "episodes")
      BY <2>2, <2>3, <2>5, <3>2, UnitsVectoredStays DEF Settled
    <3> QED BY <3>1, <3>2
  <2> QED BY <2>2, <2>3, <2>4, <2>6, <2>7, <2>8, <2>9 DEF Settled
<1>6. CASE UnitsGraph
  <2>1. /\ UNCHANGED <<content, tables, memPoints, jobs, bg>> /\ fg.at = "units"
        /\ unitPoints' = unitPoints \ IdsOf(UnitsOf(fg.id))
        /\ failing' = failing \ {UnitOf(u) : u \in UnitsOf(fg.id)}
        /\ m \notin excused
    BY <1>6 DEF UnitsGraph, DropPoints, Races
  <2>2. Settled(m) /\ fg \in IndexCall /\ fg.id \in MemoryIds
    BY <1>1, <2>1, IndexFacts
  <2>3. fg'.at = "episodes" /\ fg'.id = fg.id /\ fg'.op = fg.op
    BY <1>6, <2>2 DEF UnitsGraph, GoOn, IndexCall
  <2>4. Mem(m) \in failing => Mem(m) \in failing'
    BY <2>1, PointsDiffer
  <2>5. Vectored(m)'
    BY <2>1, <2>2, <2>3, <2>4 DEF Settled, Vectored, Mem
  <2>6. CASE fg.id = m
    BY <2>1, <2>2, <2>3, <2>5, <2>6 DEF Settled, UnitsVectored
  <2>7. CASE fg.id # m
    <3>1. \E parts : units' = (units \ UnitsOf(fg.id)) \cup NewUnits(parts)
      BY <1>1, <1>6, <2>1, IndexFacts, UnitsAreReplaced
    <3>2. UnitsOf(m)' = UnitsOf(m)
      BY <2>7, <3>1 DEF UnitsOf, NewUnits
    <3>3. UnitsKeep(m)
      BY <1>2, <2>1, <2>7, DroppingKeeps
    <3>4. Derived(m)'
      BY <2>1, <2>2, <2>7, <3>2, SettledStays DEF Settled
    <3>5. UnitsVectored(m)'
      BY <2>2, <2>7, <3>2, <3>3, UnitsVectoredStays DEF Settled
    <3> QED BY <2>1, <2>2, <2>5, <3>4, <3>5 DEF Settled
  <2> QED BY <2>6, <2>7
<1>7. CASE UnitEmbeddings
  <2>1. PICK got, kept \in SUBSET UnitsOf(fg.id) :
          /\ EmbedUnits(got, kept)
          /\ fg' = [fg EXCEPT !.at = "negation", !.clean = (@ /\ kept = UnitsOf(fg.id))]
          /\ excused' = IF got = UnitsOf(fg.id) THEN excused ELSE excused \cup {fg.id}
    BY <1>7 DEF UnitEmbeddings
  <2>2. UNCHANGED <<content, tables, units, memPoints, jobs, bg>> /\ fg.at = "vectors"
    BY <1>7 DEF UnitEmbeddings, indexRows
  <2>3. Settled(m) /\ fg \in IndexCall
    BY <1>1, <2>1, <2>2, IndexFacts
  <2>4. fg'.at = "negation" /\ fg'.id = fg.id /\ fg'.op = fg.op
    <3>1. PICK clean : clean = (fg.clean /\ kept = UnitsOf(fg.id))
      OBVIOUS
    <3>2. fg' = [fg EXCEPT !.at = "negation", !.clean = clean]
      BY <2>1, <3>1
    <3> QED BY <2>3, <3>2 DEF IndexCall
  <2>5. /\ UnitsKeep(m) /\ (Mem(m) \in failing => Mem(m) \in failing')
        /\ \A u \in got : u.id \in unitPoints' \/ UnitOf(u) \in failing'
    BY <2>1, EmbeddingKeeps
  <2>6. UnitsOf(m)' = UnitsOf(m)
    BY <2>2 DEF UnitsOf
  <2>7. Vectored(m)'
    BY <2>2, <2>3, <2>4, <2>5 DEF Settled, Vectored, Mem
  <2>8. CASE fg.id = m
    <3>1. got = UnitsOf(m)
      BY <2>1, <2>8
    <3>2. UnitsVectored(m)'
      BY <2>5, <2>6, <3>1 DEF UnitsVectored, UnitOf
    <3> QED BY <2>2, <2>3, <2>4, <2>7, <2>8, <3>2 DEF Settled
  <2>9. CASE fg.id # m
    <3>1. Derived(m)'
      BY <2>2, <2>3, <2>6, <2>9, SettledStays DEF Settled
    <3>2. UnitsVectored(m)'
      BY <2>3, <2>5, <2>6, <2>9, UnitsVectoredStays DEF Settled
    <3> QED BY <2>2, <2>3, <2>7, <3>1, <3>2 DEF Settled
  <2> QED BY <2>8, <2>9
<1>8. CASE Negation
  <2>1. /\ UNCHANGED <<content, units, memPoints, unitPoints, failing, bg>> /\ fg.at = "negation"
        /\ tables' = [tables EXCEPT ![fg.id]["negation"] = fg.c]
        /\ jobs' = IF fg.op = "write" THEN jobs \cup {fg.id} ELSE jobs
        /\ excused' = IF fg.op = "repair" /\ fg.clean THEN excused \ {fg.id} ELSE excused
    BY <1>8 DEF Negation
  <2>2. /\ fg \in IndexCall /\ CallIsWell /\ Progress /\ StaysClean
        /\ fg.id \in MemoryIds /\ fg.c = content[fg.id]
    BY <1>1, <2>1
  <2>3. fg' = Idle \/ Begun
    BY <1>8, <2>1, <2>2, FinishesWell DEF Negation
  <2>4. UnitsOf(m)' = UnitsOf(m) /\ UnitsKeep(m)
    BY <2>1 DEF UnitsOf, UnitsKeep
  <2>5. m \in excused => m = fg.id /\ fg.op = "repair" /\ fg.clean
    BY <2>1
  <2>6. content[m] # Nil /\ (m \notin excused => Settled(m))
    BY <2>1, IndexFacts
  <2>7. Derived(m)'
    <3>1. CASE m = fg.id
      <4>1. \A t \in Tables \ {"negation"} : tables[fg.id][t] = fg.c
        BY <2>1, <2>2, TablesHaveAnOrder DEF Progress
      <4>2. \A t \in Tables : tables'[fg.id][t] = fg.c
        BY <1>2, <2>1, <2>2, <4>1 DEF RowTypes, Tables
      <4>3. Rebuilt(fg.id, fg.c)
        BY <2>1, <2>2, TablesHaveAnOrder DEF Progress
      <4> QED BY <2>1, <2>2, <2>4, <3>1, <4>2, <4>3 DEF Derived, Rebuilt
    <3>2. CASE m # fg.id
      <4>1. tables'[m] = tables[m]
        BY <1>2, <2>1, <3>2 DEF RowTypes
      <4> QED BY <2>1, <2>4, <2>5, <2>6, <3>2, <4>1, SettledStays DEF Settled
    <3> QED BY <3>1, <3>2
  <2>8. UnitsVectored(m)'
    <3>1. CASE m \in excused
      <4>1. IdsOf(UnitsOf(m)) \subseteq unitPoints
        BY <2>1, <2>2, <2>5, <3>1 DEF StaysClean
      <4> QED BY <2>1, <2>4, <4>1 DEF UnitsVectored, IdsOf, UnitOf
    <3>2. CASE m \notin excused
      BY <2>1, <2>4, <2>6, <3>2, UnitsVectoredStays DEF Settled
    <3> QED BY <3>1, <3>2
  <2>9. bg.id = m => bg.c = content[m]
    BY <2>2, <2>5, <2>6 DEF StaysClean, Settled
  <2>10. \/ memPoints'[m] = content[m] \/ Mem(m) \in failing' \/ m \in jobs'
         \/ bg.at = "sync" /\ bg.id = m
    <3>1. CASE m \in excused
      BY <2>1, <2>2, <2>5, <3>1 DEF StaysClean
    <3>2. CASE m \notin excused
      BY <2>1, <2>6, <3>2 DEF Settled, Vectored
    <3> QED BY <3>1, <3>2
  <2> QED BY <2>1, <2>3, <2>4, <2>6, <2>7, <2>8, <2>9, <2>10, SettledByTurning
<1> QED BY <1>3, <1>4, <1>5, <1>6, <1>7, <1>8

LEMMA SettledByChildren ==
  ASSUME IndexInv, NEW m \in MemoryIds, content'[m] # Nil, m \notin excused',
         \/ \E k \in MemoryIds : ChildReads(k)
         \/ ChildEmbedFails \/ ChildSyncFails \/ ChildSyncs \/ ChildUnits
  PROVE  Settled(m)'
<1>1. /\ UNCHANGED <<content, tables, units, fg>> /\ m \notin excused
      /\ UnitsOf(m)' = UnitsOf(m)
  BY DEF ChildReads, ChildEmbedFails, ChildSyncFails, ChildSyncs, ChildUnits, indexRows, UnitsOf
<1>2. Settled(m)
  BY <1>1, IndexFacts
<1>3. fg.id # m \/ fg.at = "embed" => Derived(m)'
  BY <1>1, <1>2, SettledStays DEF Settled
<1>4. ASSUME UnitsKeep(m), Vectored(m)', (bg.id = m => bg.c = content[m])' PROVE Settled(m)'
  <2>1. CASE fg.id = m /\ fg.at \in {"episodes", "vectors"}
    BY <1>1, <1>3, <1>4, <2>1 DEF Settled, UnitsVectored
  <2>2. CASE ~(fg.id = m /\ fg.at \in {"episodes", "vectors"})
    <3>1. UnitsVectored(m)'
      BY <1>1, <1>2, <1>4, <2>2, UnitsVectoredStays DEF Settled
    <3> QED BY <1>1, <1>3, <1>4, <3>1 DEF Settled
  <2> QED BY <2>1, <2>2
<1>5. ASSUME NEW k \in MemoryIds, ChildReads(k) PROVE Settled(m)'
  <2>1. /\ UNCHANGED <<memPoints, unitPoints, failing>> /\ bg = NoChild /\ jobs' = jobs \ {k}
        /\ bg' = IF content[k] = Nil THEN NoChild
                 ELSE [at |-> "sync", id |-> k, c |-> content[k], left |-> {}]
    BY <1>5 DEF ChildReads, indexRows
  <2>2. UnitsKeep(m)
    BY <2>1 DEF UnitsKeep
  <2>3. (bg.id = m => bg.c = content[m])'
    BY <1>1, <2>1, IndexFacts
  <2>4. Vectored(m)'
    BY <1>1, <1>2, <2>1, IndexFacts DEF Settled, Vectored, Mem
  <2> QED BY <1>4, <2>2, <2>3, <2>4
<1>6. CASE ChildEmbedFails
  <2>1. /\ UNCHANGED <<memPoints, unitPoints, failing, jobs>> /\ bg' = NoChild /\ m # bg.id
    BY <1>6 DEF ChildEmbedFails, indexRows
  <2>2. UnitsKeep(m)
    BY <2>1 DEF UnitsKeep
  <2>3. Vectored(m)'
    BY <1>1, <1>2, <2>1 DEF Settled, Vectored, Mem
  <2> QED BY <1>4, <2>1, <2>2, <2>3, IndexFacts
<1>7. CASE ChildSyncFails
  <2>1. /\ UNCHANGED <<memPoints, unitPoints, jobs>> /\ bg' = NoChild
        /\ failing' = failing \cup {Mem(bg.id)}
    BY <1>7 DEF ChildSyncFails, indexRows
  <2>2. UnitsKeep(m)
    BY <2>1 DEF UnitsKeep
  <2>3. Vectored(m)'
    BY <1>1, <1>2, <2>1 DEF Settled, Vectored, Mem
  <2> QED BY <1>4, <2>1, <2>2, <2>3, IndexFacts
<1>8. CASE ChildSyncs
  <2>1. /\ UNCHANGED <<unitPoints, jobs>> /\ bg.at = "sync"
        /\ failing' = failing \ {Mem(bg.id)}
        /\ memPoints' = [memPoints EXCEPT ![bg.id] = bg.c]
    BY <1>8 DEF ChildSyncs
  <2>2. bg \in ChildCall /\ bg.id \in MemoryIds
    BY <2>1, IndexFacts DEF ChildCall
  <2>3. bg'.id = bg.id /\ bg'.c = bg.c
    BY <1>8, <2>2 DEF ChildSyncs, ChildCall
  <2>4. UnitsKeep(m)
    BY <2>1, PointsDiffer DEF UnitsKeep
  <2>5. Vectored(m)'
    <3>1. CASE m = bg.id
      <4>1. memPoints'[m] = bg.c /\ bg.c = content[m]
        BY <1>2, <2>1, <3>1, IndexFacts DEF RowTypes, Settled
      <4> QED BY <1>1, <4>1 DEF Vectored
    <3>2. CASE m # bg.id
      <4>1. memPoints'[m] = memPoints[m] /\ (Mem(m) \in failing => Mem(m) \in failing')
        BY <2>1, <3>2, PointsDiffer, IndexFacts DEF RowTypes
      <4> QED BY <1>1, <1>2, <2>1, <3>2, <4>1 DEF Settled, Vectored, Mem
    <3> QED BY <3>1, <3>2
  <2> QED BY <1>1, <1>2, <1>4, <2>3, <2>4, <2>5 DEF Settled
<1>9. CASE ChildUnits
  <2>1. UNCHANGED <<memPoints, jobs>> /\ bg.at = "units" /\ bg' = NoChild
    BY <1>9 DEF ChildUnits
  <2>2. PICK got, kept \in SUBSET bg.left : EmbedUnits(got, kept)
    BY <1>9 DEF ChildUnits
  <2>3. UnitsKeep(m) /\ (Mem(m) \in failing => Mem(m) \in failing')
    BY <2>2, EmbeddingKeeps
  <2>4. Vectored(m)'
    BY <1>1, <1>2, <2>1, <2>3 DEF Settled, Vectored, Mem
  <2> QED BY <1>4, <2>1, <2>3, <2>4, IndexFacts
<1> QED BY <1>5, <1>6, <1>7, <1>8, <1>9

LEMMA IndexStays ==
  ASSUME IndexInv, IndexNext
  PROVE  IndexInv'
<1>1. IndexTypes
  BY DEF IndexInv
<1>2. ASSUME NEW m \in MemoryIds, content'[m] # Nil, m \notin excused' PROVE Settled(m)'
  BY <1>1, <1>2, IndexCases, SettledByStarts, SettledByCalls, SettledByChildren
<1> QED BY <1>2, TypesHold, UnitsStayWell, LinksStayWell, NothingStrays, CallStaysWell, ProgressIsMade,
           CleanStaysClean, RepairsRestore DEF IndexInv

LEMMA IndexStarts == IndexInit => IndexInv
<1> SUFFICES ASSUME IndexInit PROVE IndexInv
  OBVIOUS
<1> DEFINE n == Cardinality(MemoryIds)
<1>1. n \in Nat /\ MemoryIds = 1 .. n /\ MemoryIds \in SUBSET Int /\ Nil \notin MemoryIds /\ Nil \notin Contents
        /\ Stored \in [MemoryIds -> Contents \cup {Nil}]
  BY MemoryIdsAre, DerivedAssumption
<1>2. PICK there \in SUBSET MemoryIds : there = {m \in MemoryIds : Stored[m] # Nil}
  OBVIOUS
<1> DEFINE parts(m) == [id |-> 2 * m - 1, of |-> m, kind |-> "parts", from |-> {Stored[m]}]
           whole(m) == [id |-> 2 * m, of |-> m, kind |-> "episode", from |-> {Stored[m]}]
<1>3. /\ content = Stored /\ memPoints = Stored /\ nextUnit = 2 * n + 1
      /\ tables = [m \in MemoryIds |-> [t \in Tables |-> Stored[m]]]
      /\ fg = Idle /\ jobs = {} /\ bg = NoChild /\ fixed = Nil /\ excused = {} /\ raced = FALSE
      /\ unitPoints = IdsOf(units) /\ failing = {}
  BY DEF IndexInit, IdsOf
<1>4. \A u : u \in units <=> \E m \in there : u = parts(m) \/ u = whole(m)
  BY <1>2 DEF IndexInit
<1>5. \A e : e \in links <=> \E m, k \in there : m < k /\ e \in Both(2 * m, 2 * k)
  <2>2. links = UNION {Both(2 * p[1], 2 * p[2]) : p \in {q \in there \X there : q[1] < q[2]}}
    BY <1>2 DEF IndexInit
  <2>3. \A e : e \in links <=> \E p \in there \X there : p[1] < p[2] /\ e \in Both(2 * p[1], 2 * p[2])
    BY <2>2
  <2>4. ASSUME NEW e \in links PROVE \E m, k \in there : m < k /\ e \in Both(2 * m, 2 * k)
    <3>1. PICK p \in there \X there : p[1] < p[2] /\ e \in Both(2 * p[1], 2 * p[2])
      BY <2>3
    <3>2. p[1] \in there /\ p[2] \in there
      OBVIOUS
    <3> QED BY <3>1, <3>2
  <2>5. ASSUME NEW e, NEW m \in there, NEW k \in there, m < k, e \in Both(2 * m, 2 * k) PROVE e \in links
    <3>1. PICK p \in there \X there : p = <<m, k>>
      OBVIOUS
    <3> QED BY <2>3, <2>5, <3>1
  <2> QED BY <2>4, <2>5
<1>6. IndexTypes
  <2>1. \A m \in there : /\ 2 * m - 1 \in Nat /\ 2 * m \in Nat /\ m \in MemoryIds
                         /\ {Stored[m]} \in SUBSET (Contents \cup {Nil})
    BY <1>1, <1>2
  <2>2. units \subseteq Units
    BY <1>4, <2>1 DEF Units
  <2>3. tables \in [MemoryIds -> [Tables -> Contents \cup {Nil}]]
    BY <1>1, <1>3
  <2>4. 2 * n + 1 \in Nat
    BY <1>1
  <2> HIDE DEF n
  <2> QED BY <1>1, <1>3, <2>2, <2>3, <2>4 DEF IndexTypes, RowTypes
<1>7. \A m \in there : m \in 1 .. n /\ Stored[m] # Nil
  BY <1>1, <1>2
<1>8. UnitsWell
  <2>1. \A m \in there : /\ parts(m).id = 2 * m - 1 /\ whole(m).id = 2 * m
                         /\ parts(m).of = m /\ whole(m).of = m
    OBVIOUS
  <2>2. ASSUME NEW u \in units PROVE u.id < 2 * n + 1 /\ Stored[u.of] # Nil
    <3>1. PICK m \in there : u = parts(m) \/ u = whole(m)
      BY <1>4
    <3> HIDE DEF parts, whole, n
    <3> QED BY <1>1, <1>7, <2>1, <3>1
  <2>3. ASSUME NEW u \in units, NEW v \in units, u.id = v.id PROVE u = v
    <3>1. PICK a \in there : u = parts(a) \/ u = whole(a)
      BY <1>4
    <3>2. PICK b \in there : v = parts(b) \/ v = whole(b)
      BY <1>4
    <3>3. a \in Int /\ b \in Int
      BY <1>1, <1>7
    <3>4. CASE u = parts(a)
      <4>1. v # whole(b)
        <5> HIDE DEF parts, whole
        <5> QED BY <2>1, <2>3, <3>3, <3>4
      <4>2. a = b
        <5> HIDE DEF parts, whole
        <5> QED BY <2>1, <2>3, <3>2, <3>3, <3>4, <4>1
      <4> QED BY <3>2, <3>4, <4>1, <4>2
    <3>5. CASE u = whole(a)
      <4>1. v # parts(b)
        <5> HIDE DEF parts, whole
        <5> QED BY <2>1, <2>3, <3>3, <3>5
      <4>2. a = b
        <5> HIDE DEF parts, whole
        <5> QED BY <2>1, <2>3, <3>2, <3>3, <3>5, <4>1
      <4> QED BY <3>2, <3>5, <4>1, <4>2
    <3> QED BY <3>1, <3>4, <3>5
  <2> QED BY <1>3, <2>2, <2>3 DEF UnitsWell
<1>9. EpisodesLinked
  <2>1. ASSUME NEW e \in links PROVE {e[1], e[2]} \subseteq IdsOf(units)
    <3>1. PICK a \in there, b \in there : e \in Both(2 * a, 2 * b)
      BY <1>5
    <3>2. whole(a) \in units /\ whole(b) \in units /\ whole(a).id = 2 * a /\ whole(b).id = 2 * b
      BY <1>4
    <3>3. 2 * a \in IdsOf(units) /\ 2 * b \in IdsOf(units)
      BY <3>2 DEF IdsOf
    <3> QED BY <3>1, <3>3 DEF Both
  <2>2. ASSUME NEW u \in units, NEW v \in units, u.kind = "episode", v.kind = "episode", u.of # v.of
        PROVE  <<u.id, v.id, "same">> \in links
    <3>1. PICK a \in there : u = whole(a)
      BY <1>4, <2>2
    <3>2. PICK b \in there : v = whole(b)
      BY <1>4, <2>2
    <3>3. u.id = 2 * a /\ v.id = 2 * b /\ (a < b \/ b < a)
      BY <1>1, <1>7, <2>2, <3>1, <3>2
    <3>4. <<2 * a, 2 * b, "same">> \in Both(2 * a, 2 * b) /\ <<2 * a, 2 * b, "same">> \in Both(2 * b, 2 * a)
      BY DEF Both
    <3> QED BY <1>5, <3>3, <3>4
  <2> QED BY <2>1, <2>2 DEF EpisodesLinked, EpisodesOf
<1>10. NothingStray
  <2>1. NoChild.left = {}
    BY DEF NoChild
  <2> QED BY <1>3, <2>1 DEF NothingStray
<1>11. RepairRestores
  BY <1>3 DEF RepairRestores
<1>12. ASSUME NEW m \in MemoryIds, content[m] # Nil PROVE Settled(m)
  <2>1. fg.id # m /\ bg.id # m
    BY <1>1, <1>3 DEF Idle, NoChild
  <2>2. m \in there /\ content[m] = Stored[m]
    BY <1>2, <1>3, <1>12
  <2>3. \A u : u \in UnitsOf(m) <=> u = parts(m) \/ u = whole(m)
    BY <1>4, <2>2 DEF UnitsOf
  <2>4. Derived(m)
    <3>1. \A t \in Tables : tables[m][t] = content[m]
      BY <1>3, <2>2
    <3>2. \A u \in UnitsOf(m) : u.from = {content[m]} /\ u.kind \in {"parts", "episode"}
      BY <2>2, <2>3
    <3>3. parts(m) \in UnitsOf(m) /\ whole(m) \in UnitsOf(m) /\ parts(m).kind = "parts" /\ whole(m).kind = "episode"
      BY <2>3
    <3> HIDE DEF parts, whole
    <3> QED BY <3>1, <3>2, <3>3 DEF Derived
  <2>5. Vectored(m)
    BY <1>3, <2>2 DEF Vectored
  <2>6. UnitsVectored(m)
    BY <1>3 DEF UnitsVectored, IdsOf, UnitsOf
  <2> QED BY <2>1, <2>4, <2>5, <2>6 DEF Settled
<1> QED BY <1>3, <1>6, <1>8, <1>9, <1>10, <1>11, <1>12 DEF IndexInv

LEMMA IndexStutters ==
  ASSUME IndexInv, UNCHANGED indexVars
  PROVE  IndexInv'
<1>1. /\ UNCHANGED <<content, tables, units, links, nextUnit, memPoints, unitPoints, failing>>
      /\ UNCHANGED <<fg, jobs, bg, fixed, excused, raced>>
  BY DEF indexVars
<1>2. IndexTypes' /\ UnitsWell' /\ EpisodesLinked' /\ NothingStray'
  BY <1>1 DEF IndexInv, IndexTypes, RowTypes, UnitsWell, EpisodesLinked, EpisodesOf, IdsOf, UnitsOf,
              NothingStray
<1>3. (fg # Idle => CallIsWell /\ Progress /\ StaysClean)'
  BY <1>1 DEF IndexInv, CallIsWell, Progress, Rebuilt, StaysClean, IdsOf, UnitsOf
<1>4. (\A m \in MemoryIds : content[m] # Nil /\ m \notin excused => Settled(m))'
  BY <1>1 DEF IndexInv, Settled, Derived, Vectored, UnitsVectored, Mem, UnitOf, UnitsOf
<1>5. RepairRestores'
  BY <1>1 DEF IndexInv, RepairRestores, Derived, Indexed, IdsOf, UnitsOf
<1> QED BY <1>2, <1>3, <1>4, <1>5 DEF IndexInv

LEMMA IndexIsSound == IndexInv => IndexSound
<1> SUFFICES ASSUME IndexInv PROVE IndexSound
  OBVIOUS
<1>1. IndexTypeOK
  BY DEF IndexInv, IndexTypes, RowTypes, UnitsWell, Units, IndexTypeOK
<1>2. IndexAgrees
  <2> SUFFICES ASSUME AtRest, NEW m \in MemoryIds, content[m] # Nil, m \notin excused
               PROVE  /\ Derived(m)
                      /\ memPoints[m] = content[m] \/ Mem(m) \in failing
                      /\ \A u \in UnitsOf(m) : u.id \in unitPoints \/ UnitOf(u) \in failing
    BY DEF IndexAgrees
  <2>1. Settled(m) /\ fg.id # m /\ fg.op # "write" /\ bg.at = "idle" /\ jobs = {}
    BY IndexFacts DEF AtRest
  <2> QED BY <2>1 DEF Settled, Vectored, UnitsVectored
<1>3. NoOrphans
  BY DEF IndexInv, NothingStray, NoOrphans
<1> QED BY <1>1, <1>2, <1>3 DEF IndexInv, IndexSound

\* Whatever is derived from a memory is derived from its text.
THEOREM IndexIsAlwaysSound == IndexSpec => []IndexSound
<1>1. IndexInit => IndexInv
  BY IndexStarts
<1>2. IndexInv /\ [IndexNext]_indexVars => IndexInv'
  BY IndexStays, IndexStutters
<1>3. IndexInv => IndexSound
  BY IndexIsSound
<1> QED BY <1>1, <1>2, <1>3, PTL DEF IndexSpec
=============================================================================
