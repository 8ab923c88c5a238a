-------------------------- MODULE MemoryStoreProofs --------------------------
(***************************************************************************)
(* Proofs about MemoryStore, for any callers, keys, contents and           *)
(* confidences, any similarity of keys, and any number of calls and        *)
(* failures.  However the calls interleave, the tables stay typed and a    *)
(* supersedes link leads to a version put aside.  As long as no two calls  *)
(* overlapped, a key has one current row and none of a near-duplicate key, *)
(* merges lose nothing, a confident fact is versioned, and a key that was  *)
(* superseded has a current row.                                           *)
(***************************************************************************)
EXTENDS MemoryStore, SequenceTheorems, FiniteSetTheorems, TLAPS

(* What a call frame holds: the key is as the caller spelled it until the gate is
   passed, and memory_supersede has none before it has read its row. *)
FrameT ==
  [fn : {"insert", "supersede", "fold"}, tier : Tiers \cup {""}, kind : Kinds \cup {""},
   key : [base : RawKeys \cup Keys \cup {""}, vers : Seq(Nat \ {0})], content : Texts,
   conf : 0 .. 10, sess : Sessions, down : BOOLEAN, failed : BOOLEAN, ex : Ids \cup {NoId},
   exConf : 0 .. 10, version : Nat]

(* A frame that may be written to the table as a row. *)
Ready(f) == f.tier \in Tiers /\ f.kind \in Kinds /\ f.key.base \in Keys

(* A row that is a version, or is gone: it will not be current again. *)
PutAside(i) == i \in Ids /\ i < nextId /\ (rows[i] # NoRow => ~Current(rows[i]))

(* A frame that waits for the call it made. *)
Under(f) ==
  /\ f.fn \in {"insert", "supersede"} => Ready(f)
  /\ f.fn = "supersede" => PutAside(f.ex)

(* The innermost frame at a label. *)
OnTop(f, l) ==
  /\ l \in {"gate", "lookup", "match", "dedupe", "merge", "insert", "maintain"} => f.fn = "insert"
  /\ l = "gate" => f.tier \in Tiers /\ f.kind \in Kinds /\ f.key.base \in RawKeys \cup Keys
  /\ l \in {"lookup", "match", "dedupe", "merge", "insert", "maintain"} => Ready(f)
  /\ l \in {"get", "count", "rename", "link"} =>
       f.fn = "supersede" /\ f.ex \in Ids /\ f.ex < nextId
  /\ l = "merge" => f.ex \in Ids
  /\ l \in {"count", "rename"} => Ready(f)
  /\ l = "rename" => f.version # 0
  /\ l = "link" => PutAside(f.ex)
  /\ l \in {"list", "purge"} => f.fn = "fold"
  /\ l = "list" => Ready(f)

CallerOK(c) ==
  /\ pc[c] = "idle" <=> stack[c] = <<>>
  /\ stack[c] # <<>> => OnTop(Head(stack[c]), pc[c])
  /\ \A j \in 2 .. Len(stack[c]) : Under(stack[c][j])

RowsOK ==
  /\ rows \in [Ids -> Row \cup {NoRow}] /\ nextId \in Nat \ {0}
  /\ \A i \in Ids : rows[i] # NoRow => i < nextId

StoreInv ==
  /\ RowsOK
  /\ pc \in [Callers -> Labels] /\ stack \in [Callers -> Seq(FrameT)]
  /\ \A l \in links : PutAside(l[2])
  /\ \A c \in Callers : CallerOK(c)
-----------------------------------------------------------------------------
(* The stack of a caller as a sequence: a call, a change of the innermost frame, a
   return. *)
LEMMA Pushed ==
  ASSUME NEW S, NEW s \in Seq(S), NEW f \in S
  PROVE  LET t == <<f>> \o s
         IN  /\ t \in Seq(S) /\ t # <<>> /\ Head(t) = f /\ Len(t) = Len(s) + 1
             /\ \A j \in 2 .. Len(t) : t[j] = s[j - 1]
  <1> DEFINE t == <<f>> \o s
  <1>1. <<f>> \in Seq(S) /\ Len(<<f>>) = 1
    OBVIOUS
  <1>2. t \in Seq(S) /\ Len(t) = Len(s) + 1
    BY <1>1, ConcatProperties
  <1>3. \A j \in 1 .. Len(t) : t[j] = IF j <= 1 THEN <<f>>[j] ELSE s[j - 1]
    BY <1>1, <1>2, ConcatProperties
  <1>4. Len(s) \in Nat
    BY LenProperties
  <1>5. t[1] = f
    BY <1>2, <1>3, <1>4
  <1>6. t # <<>> /\ Head(t) = f
    BY <1>2, <1>4, <1>5
  <1> QED BY <1>2, <1>3, <1>4, <1>6

(* A return: the innermost frame and the ones below it. *)
LEMMA Popped ==
  ASSUME NEW S, NEW s \in Seq(S), s # <<>>
  PROVE  /\ Head(s) \in S /\ Head(s) = s[1] /\ Len(s) \in Nat \ {0}
         /\ Tail(s) \in Seq(S) /\ Len(Tail(s)) = Len(s) - 1
         /\ \A j \in 1 .. Len(Tail(s)) : Tail(s)[j] = s[j + 1]
  BY HeadTailProperties, LenProperties, EmptySeq

(* A change of the innermost frame: the ones below it stay. *)
LEMMA Replaced ==
  ASSUME NEW S, NEW s \in Seq(S), s # <<>>, NEW f \in S
  PROVE  LET t == <<f>> \o Tail(s)
         IN  /\ t \in Seq(S) /\ t # <<>> /\ Head(t) = f /\ Len(t) = Len(s)
             /\ \A j \in 2 .. Len(t) : t[j] = s[j]
  <1> DEFINE t == <<f>> \o Tail(s)
  <1>1. Tail(s) \in Seq(S) /\ Len(Tail(s)) = Len(s) - 1 /\ Len(s) \in Nat \ {0}
        /\ \A j \in 1 .. Len(Tail(s)) : Tail(s)[j] = s[j + 1]
    BY Popped
  <1>2. /\ t \in Seq(S) /\ t # <<>> /\ Head(t) = f /\ Len(t) = Len(Tail(s)) + 1
        /\ \A j \in 2 .. Len(t) : t[j] = Tail(s)[j - 1]
    BY <1>1, Pushed
  <1> QED BY <1>1, <1>2
-----------------------------------------------------------------------------
(* A step of the table that makes no row current that was not, and writes no row
   that was deleted. *)
Settled ==
  /\ RowsOK' /\ nextId <= nextId'
  /\ \A i \in Ids : i < nextId /\ rows'[i] # NoRow
       => rows[i] # NoRow /\ (Current(rows'[i]) => Current(rows[i]))

(* Such a step of the table keeps what the frames of every caller hold. *)
LEMMA SettledKeeps ==
  ASSUME StoreInv, Settled
  PROVE  /\ \A i : PutAside(i) => PutAside(i)'
         /\ \A f : Under(f) => Under(f)'
         /\ \A f \in FrameT, l \in Labels : OnTop(f, l) => OnTop(f, l)'
  <1>1. \A i : PutAside(i) => PutAside(i)'
    BY SMT DEF Settled, PutAside, StoreInv, RowsOK, Ids
  <1>2. \A f : Under(f) => Under(f)'
    BY <1>1 DEF Under, Ready
  <1>3. ASSUME NEW f \in FrameT, NEW l \in Labels, OnTop(f, l) PROVE OnTop(f, l)'
    <2>1. f.ex \in Ids /\ f.ex < nextId => f.ex < nextId'
      BY SMT DEF Settled, StoreInv, RowsOK, Ids, StoreAssumption
    <2> QED BY <1>1, <1>3, <2>1 DEF OnTop, Ready
  <1> QED BY <1>1, <1>2, <1>3

(* What a step of one caller has to show for the invariant. *)
LEMMA StepKeeps ==
  ASSUME StoreInv, NEW c \in Callers, Settled, NEW t \in Seq(FrameT), NEW l \in Labels,
         stack' = [stack EXCEPT ![c] = t], pc' = [pc EXCEPT ![c] = l],
         \A m \in links' : m \in links \/ PutAside(m[2]),
         l = "idle" <=> t = <<>>, t # <<>> => OnTop(Head(t), l)',
         \A j \in 2 .. Len(t) : Under(t[j])'
  PROVE  StoreInv'
  <1>1. stack' \in [Callers -> Seq(FrameT)] /\ pc' \in [Callers -> Labels]
    BY DEF StoreInv
  <1>2. \A m \in links' : PutAside(m[2])'
    BY SettledKeeps DEF StoreInv
  <1>3. ASSUME NEW d \in Callers PROVE CallerOK(d)'
    <2>1. CASE d = c
      <3>1. stack'[d] = t /\ pc'[d] = l
        BY <2>1 DEF StoreInv
      <3> QED BY <3>1 DEF CallerOK
    <2>2. CASE d # c
      <3>1. stack'[d] = stack[d] /\ pc'[d] = pc[d] /\ stack[d] \in Seq(FrameT) /\ CallerOK(d)
        BY <2>2 DEF StoreInv
      <3>2. stack[d] # <<>> => OnTop(Head(stack[d]), pc[d])'
        <4> SUFFICES ASSUME stack[d] # <<>> PROVE OnTop(Head(stack[d]), pc[d])'
          OBVIOUS
        <4>1. PICK f \in FrameT : f = Head(stack[d])
          BY <3>1, Popped
        <4>2. PICK k \in Labels : k = pc[d]
          BY DEF StoreInv
        <4>3. OnTop(f, k)'
          BY <3>1, <4>1, <4>2, SettledKeeps DEF CallerOK
        <4> QED BY <3>1, <4>1, <4>2, <4>3
      <3>3. \A j \in 2 .. Len(stack[d]) : Under(stack[d][j])'
        BY <3>1, SettledKeeps DEF CallerOK
      <3> QED BY <3>1, <3>2, <3>3 DEF CallerOK
    <2> QED BY <2>1, <2>2
  <1> QED BY <1>1, <1>2, <1>3 DEF StoreInv, Settled

(* A call of another function: the frame that makes it waits. *)
LEMMA PushKeeps ==
  ASSUME StoreInv, NEW c \in Callers, Settled, NEW f \in FrameT, NEW l \in Labels \ {"idle"},
         Push(c, f, l), \A m \in links' : m \in links \/ PutAside(m[2]), OnTop(f, l),
         NEW g, stack[c] # <<>> => g = Head(stack[c]) /\ Under(g)'
  PROVE  StoreInv'
  <1>1. stack[c] \in Seq(FrameT) /\ CallerOK(c)
    BY DEF StoreInv
  <1>2. PICK t : t = <<f>> \o stack[c]
    OBVIOUS
  <1>3. /\ t \in Seq(FrameT) /\ t # <<>> /\ Head(t) = f /\ Len(t) = Len(stack[c]) + 1
        /\ \A j \in 2 .. Len(t) : t[j] = stack[c][j - 1]
    BY <1>1, <1>2, Pushed
  <1>4. OnTop(f, l)'
    BY SettledKeeps
  <1>5. ASSUME NEW j \in 2 .. Len(t) PROVE Under(t[j])'
    <2>1. Len(stack[c]) \in Nat /\ j - 1 \in 1 .. Len(stack[c]) /\ stack[c] # <<>>
      BY <1>1, <1>3, LenProperties, EmptySeq
    <2>2. CASE j = 2
      <3>1. t[j] = g
        BY <1>1, <1>3, <2>1, <2>2, Popped
      <3> QED BY <2>1, <3>1
    <2>3. CASE j # 2
      <3>1. j - 1 \in 2 .. Len(stack[c])
        BY <2>1, <2>3
      <3>2. Under(stack[c][j - 1])
        BY <1>1, <3>1 DEF CallerOK
      <3>3. PICK h : h = stack[c][j - 1]
        OBVIOUS
      <3>4. t[j] = h
        BY <1>3, <3>3
      <3>5. Under(h)'
        BY <3>2, <3>3, SettledKeeps
      <3> QED BY <3>4, <3>5
    <2> QED BY <2>2, <2>3
  <1>6. stack' = [stack EXCEPT ![c] = t] /\ pc' = [pc EXCEPT ![c] = l]
    BY <1>2 DEF Push, Goto
  <1> HIDE DEF Labels
  <1> QED BY <1>3, <1>4, <1>5, <1>6, StepKeeps

(* The innermost frame changes, or stays as it is. *)
LEMMA ReplaceKeeps ==
  ASSUME StoreInv, NEW c \in Callers, Settled, NEW f \in FrameT, NEW l \in Labels \ {"idle"},
         stack[c] # <<>>, stack' = SetTop(c, f), Goto(c, l),
         \A m \in links' : m \in links \/ PutAside(m[2]), OnTop(f, l)
  PROVE  StoreInv'
  <1>1. stack[c] \in Seq(FrameT) /\ CallerOK(c)
    BY DEF StoreInv
  <1>2. PICK t : t = <<f>> \o Tail(stack[c])
    OBVIOUS
  <1>3. /\ t \in Seq(FrameT) /\ t # <<>> /\ Head(t) = f /\ Len(t) = Len(stack[c])
        /\ \A j \in 2 .. Len(t) : t[j] = stack[c][j]
    BY <1>1, <1>2, Replaced
  <1>4. OnTop(f, l)'
    BY SettledKeeps
  <1>5. ASSUME NEW j \in 2 .. Len(t) PROVE Under(t[j])'
    <2>1. PICK h : h = stack[c][j]
      OBVIOUS
    <2>2. Under(h)'
      BY <1>1, <1>3, <2>1, SettledKeeps DEF CallerOK
    <2> QED BY <1>3, <2>1, <2>2
  <1>6. stack' = [stack EXCEPT ![c] = t] /\ pc' = [pc EXCEPT ![c] = l]
    BY <1>2 DEF SetTop, Goto
  <1> QED BY <1>3, <1>4, <1>5, <1>6, StepKeeps

(* The caller goes on to another statement with its frames as they are. *)
LEMMA StayKeeps ==
  ASSUME StoreInv, NEW c \in Callers, Settled, NEW l \in Labels \ {"idle"},
         stack[c] # <<>>, UNCHANGED stack, Goto(c, l),
         \A m \in links' : m \in links \/ PutAside(m[2]), OnTop(Head(stack[c]), l)
  PROVE  StoreInv'
  <1>1. PICK t \in Seq(FrameT) : t = stack[c]
    BY DEF StoreInv
  <1>2. PICK f \in FrameT : f = Head(t)
    BY <1>1, Popped
  <1>3. OnTop(f, l)'
    BY <1>1, <1>2, SettledKeeps
  <1>4. ASSUME NEW j \in 2 .. Len(t) PROVE Under(t[j])'
    BY <1>1, SettledKeeps DEF StoreInv, CallerOK
  <1>5. stack' = [stack EXCEPT ![c] = t] /\ pc' = [pc EXCEPT ![c] = l]
    BY <1>1 DEF StoreInv, Goto
  <1> QED BY <1>1, <1>2, <1>3, <1>4, <1>5, StepKeeps

(* Returning needs nothing. *)
LEMMA ReturnKeeps ==
  ASSUME StoreInv, NEW c \in Callers, Settled, NEW l, pc[c] = l, l # "idle", NEW code,
         UNCHANGED stack, Return(c, code), \A m \in links' : m \in links \/ PutAside(m[2])
  PROVE  StoreInv'
  <1>1. stack[c] # <<>> /\ "return" \in Labels \ {"idle"} /\ Goto(c, "return")
    BY DEF StoreInv, CallerOK, Return, Labels
  <1>2. OnTop(Head(stack[c]), "return")
    BY DEF OnTop
  <1> QED BY <1>1, <1>2, StayKeeps

(* A step that leaves the table alone. *)
LEMMA Unmoved ==
  ASSUME StoreInv, UNCHANGED <<rows, nextId>>
  PROVE  Settled
  BY SMT DEF StoreInv, RowsOK, Settled

(* The innermost frame of a caller that has one. *)
LEMMA TopType ==
  ASSUME StoreInv, NEW c \in Callers, pc[c] # "idle"
  PROVE  stack[c] # <<>> /\ Top(c) \in FrameT /\ OnTop(Top(c), pc[c]) /\ Top(c) = Head(stack[c])
  BY Popped DEF StoreInv, CallerOK, Top
-----------------------------------------------------------------------------
(* The starting values of a frame's numbers. *)
LEMMA Zero == 0 \in 0 .. 10 /\ 0 \in Nat
  OBVIOUS

(* A frame made by one of the three functions is typed. *)
LEMMA FrameType ==
  ASSUME NEW fn \in {"insert", "supersede", "fold"}, NEW tier \in Tiers \cup {""},
         NEW kind \in Kinds \cup {""}, NEW b \in RawKeys \cup Keys \cup {""},
         NEW vs \in Seq(Nat \ {0}), NEW x \in Texts, NEW v \in 0 .. 10, NEW s \in Sessions,
         NEW i \in Ids \cup {NoId}
  PROVE  /\ Frame(fn, tier, kind, Key(b, vs), x, v, s) \in FrameT
         /\ [Frame(fn, tier, kind, Key(b, vs), x, v, s) EXCEPT !.ex = i] \in FrameT
  <1>1. Key(b, vs) \in [base : RawKeys \cup Keys \cup {""}, vers : Seq(Nat \ {0})]
    BY DEF Key
  <1>2. NoId \in Ids \cup {NoId}
    OBVIOUS
  <1>3. 0 \in 0 .. 10 /\ 0 \in Nat
    BY Zero
  <1> QED BY ZenonT(60), <1>1, <1>2, <1>3 DEF Frame, FrameT

(* What the callers submit is typed. *)
LEMMA Submitted ==
  ASSUME NEW x \in Contents \cup {{}}, NEW v \in Confidences
  PROVE  x \in Texts /\ v \in 0 .. 10 /\ <<>> \in Seq(Nat \ {0})
  <1>1. x \in Texts
    BY StoreAssumption DEF Texts
  <1>2. <<>> \in Seq(Nat \ {0})
    BY EmptySeq
  <1> QED BY <1>1, <1>2, StoreAssumption

(* memory_insert_ex, memory_supersede and memory_fold_session are called. *)
LEMMA CallStep ==
  ASSUME StoreInv, NEW c \in Callers, CallInsert(c) \/ CallSupersede(c) \/ CallFold(c)
  PROVE  StoreInv'
  <1>1. pc[c] = "idle" /\ stack[c] = <<>> /\ UNCHANGED <<rows, nextId, links>>
    BY DEF CallInsert, CallSupersede, CallFold, Start, At, StoreInv, CallerOK
  <1>2. Settled
    BY <1>1, Unmoved
  <1>3. CASE CallInsert(c)
    <2>1. PICK tier \in {"L0", "L1", "L2"}, kind \in {"fact", "scratch"}, k \in RawKeys,
               x \in Contents \cup {{}}, v \in Confidences, s \in Sessions :
            Push(c, Frame("insert", tier, kind, Key(k, <<>>), x, v, s), "gate")
      BY <1>3 DEF CallInsert
    <2> DEFINE f == Frame("insert", tier, kind, Key(k, <<>>), x, v, s)
    <2>2. f \in FrameT
      BY Submitted, FrameType DEF Tiers, Kinds
    <2>3. OnTop(f, "gate")
      BY DEF OnTop, Frame, Key, Tiers, Kinds
    <2>4. "gate" \in Labels \ {"idle"}
      BY DEF Labels
    <2> HIDE DEF f
    <2>5. Push(c, f, "gate")
      BY <2>1 DEF f
    <2> QED BY <1>1, <1>2, <2>2, <2>3, <2>4, <2>5, PushKeeps
  <1>4. CASE CallSupersede(c)
    <2>1. PICK i \in Used, x \in Contents, v \in Confidences, s \in Sessions :
            /\ stack' = [stack EXCEPT ![c] =
                 <<[Frame("supersede", "", "", Key("", <<>>), x, v, s) EXCEPT !.ex = i]>>]
            /\ Goto(c, "get")
      BY <1>4 DEF CallSupersede
    <2> DEFINE f == [Frame("supersede", "", "", Key("", <<>>), x, v, s) EXCEPT !.ex = i]
    <2>2. f \in FrameT
      BY Submitted, FrameType DEF Used
    <2>3. f.fn = "supersede" /\ f.ex = i
      BY DEF Frame
    <2>4. OnTop(f, "get")
      BY <2>3 DEF OnTop, StoreInv, RowsOK, Used
    <2>5. "get" \in Labels \ {"idle"}
      BY DEF Labels
    <2> HIDE DEF f
    <2>6. Push(c, f, "get")
      <3>1. <<f>> \o stack[c] = <<f>>
        BY <1>1, <2>2, ConcatEmptySeq
      <3> QED BY <2>1, <3>1 DEF f, Push
    <2> QED BY <1>1, <1>2, <2>2, <2>4, <2>5, <2>6, PushKeeps
  <1>5. CASE CallFold(c)
    <2>1. PICK s \in Sessions : Push(c, Frame("fold", "L1", "episode", Key(s, <<>>), {}, 8, s), "list")
      BY <1>5 DEF CallFold
    <2> DEFINE f == Frame("fold", "L1", "episode", Key(s, <<>>), {}, 8, s)
    <2>2. f \in FrameT
      <3>1. <<>> \in Seq(Nat \ {0}) /\ {} \in Texts /\ 8 \in 0 .. 10
        BY EmptySeq DEF Texts
      <3> QED BY <3>1, FrameType DEF Tiers, Kinds, Keys
    <2>3. OnTop(f, "list")
      BY DEF OnTop, Frame, Key, Tiers, Kinds, Keys, Ready
    <2>4. "list" \in Labels \ {"idle"}
      BY DEF Labels
    <2> HIDE DEF f
    <2>5. Push(c, f, "list")
      BY <2>1 DEF f
    <2> QED BY <1>1, <1>2, <2>2, <2>3, <2>4, <2>5, PushKeeps
  <1> QED BY <1>3, <1>4, <1>5

(* The frame after the gate is one that may be stored (memory_gate_check). *)
LEMMA GatedType ==
  ASSUME NEW f \in FrameT, OnTop(f, "gate")
  PROVE  /\ Gated(f) \in FrameT /\ Ready(Gated(f)) /\ Gated(f).fn = "insert"
  <1> DEFINE v == Verdict(f)
             tier == IF v = "downgrade" THEN "L0" ELSE f.tier
             kind == IF v = "downgrade" THEN "scratch" ELSE f.kind
             text == IF v = "redact" THEN (f.content \ Private) \cup {Redacted} ELSE f.content
             base == IF f.key.base \in RawKeys THEN Normalize[f.key.base] ELSE f.key.base
  <1>1. tier \in Tiers /\ kind \in Kinds
    BY DEF OnTop, Tiers, Kinds
  <1>2. text \in Texts
    BY DEF FrameT, Texts
  <1>3. base \in Keys
    BY StoreAssumption DEF OnTop, Keys
  <1>4. [f.key EXCEPT !.base = base] \in [base : RawKeys \cup Keys \cup {""}, vers : Seq(Nat \ {0})]
    BY <1>3 DEF FrameT
  <1>5. Gated(f) = [f EXCEPT !.tier = tier, !.kind = kind, !.down = v = "downgrade",
                             !.content = text, !.key = [f.key EXCEPT !.base = base]]
    BY DEF Gated, FrameT
  <1>7. (v = "downgrade") \in BOOLEAN
    OBVIOUS
  <1> HIDE DEF v, tier, kind, text, base
  <1>6. /\ Gated(f).fn = f.fn /\ Gated(f).tier = tier /\ Gated(f).kind = kind
        /\ Gated(f).key.base = base
    <2>1. DOMAIN f = {"fn", "tier", "kind", "key", "content", "conf", "sess", "down", "failed",
                      "ex", "exConf", "version"} /\ DOMAIN f.key = {"base", "vers"}
      BY DEF FrameT
    <2>2. /\ Gated(f).fn = f.fn /\ Gated(f).tier = tier /\ Gated(f).kind = kind
          /\ Gated(f).key = [f.key EXCEPT !.base = base]
      BY <1>5, <2>1, Zenon
    <2>3. [f.key EXCEPT !.base = base].base = base
      BY <2>1
    <2> QED BY <2>2, <2>3
  <1>8. Gated(f) \in FrameT
    BY ZenonT(60), <1>1, <1>2, <1>4, <1>5, <1>7 DEF FrameT
  <1> QED BY <1>1, <1>3, <1>6, <1>8 DEF OnTop, Ready

(* memory_insert_ex up to the row it decides to write: it reads the table only. *)
LEMMA ReadStep ==
  ASSUME StoreInv, NEW c \in Callers, Gate(c) \/ Lookup(c) \/ Match(c) \/ Dedupe(c)
  PROVE  StoreInv'
  <1>1. pc[c] \in {"gate", "lookup", "match", "dedupe"} /\ UNCHANGED <<rows, nextId, links>>
    BY DEF Gate, Lookup, Match, Dedupe, At
  <1>2. Settled
    BY <1>1, Unmoved
  <1>3. PICK f \in FrameT : f = Top(c) /\ stack[c] # <<>> /\ OnTop(f, pc[c]) /\ f = Head(stack[c])
    BY <1>1, TopType
  <1>4. {"lookup", "match", "dedupe", "merge", "insert", "get", "return"} \subseteq Labels \ {"idle"}
    BY DEF Labels
  <1>5. CASE Gate(c)
    <2>1. CASE Return(c, 1) /\ UNCHANGED stack
      BY <1>1, <1>2, <2>1, ReturnKeeps
    <2>2. CASE stack' = SetTop(c, Gated(f))
               /\ Goto(c, IF Versions(Gated(f)) THEN "lookup" ELSE "match")
      <3>1. pc[c] = "gate"
        BY <1>5 DEF Gate, At
      <3>2. PICK g \in FrameT : g = Gated(f) /\ Ready(g) /\ g.fn = "insert"
        BY <1>3, <3>1, GatedType
      <3>3. PICK l \in {"lookup", "match"} : l = IF Versions(g) THEN "lookup" ELSE "match"
        OBVIOUS
      <3>4. OnTop(g, l)
        BY <3>2, <3>3 DEF OnTop
      <3> QED BY <1>1, <1>2, <1>3, <1>4, <2>2, <3>2, <3>3, <3>4, ReplaceKeeps
    <2> QED BY <1>3, <1>5, <2>1, <2>2 DEF Gate
  <1>6. CASE Lookup(c)
    <2>1. Ready(f) /\ f.fn = "insert"
      BY <1>3, <1>6 DEF Lookup, At, OnTop
    <2>2. CASE Goto(c, "match") /\ UNCHANGED stack
      <3>1. OnTop(Head(stack[c]), "match")
        BY <1>3, <2>1 DEF OnTop
      <3> QED BY <1>1, <1>2, <1>3, <1>4, <2>2, <3>1, StayKeeps
    <2>3. ASSUME NEW i \in RowsAt(f.key),
                 Push(c, [Frame("supersede", "", "", f.key, f.content, f.conf, f.sess)
                          EXCEPT !.ex = i], "get")
          PROVE  StoreInv'
      <3> DEFINE g == [Frame("supersede", "", "", f.key, f.content, f.conf, f.sess) EXCEPT !.ex = i]
      <3>1. f.key = Key(f.key.base, f.key.vers)
        BY <1>3 DEF FrameT, Key
      <3>2. g \in FrameT
        <4>1. i \in Ids \cup {NoId}
          BY DEF RowsAt, Used
        <4>2. /\ f.key.base \in RawKeys \cup Keys \cup {""} /\ f.key.vers \in Seq(Nat \ {0})
              /\ f.content \in Texts /\ f.conf \in 0 .. 10 /\ f.sess \in Sessions
          BY DEF FrameT
        <4>3. [Frame("supersede", "", "", Key(f.key.base, f.key.vers), f.content, f.conf, f.sess)
               EXCEPT !.ex = i] \in FrameT
          BY <4>1, <4>2, FrameType
        <4> QED BY <3>1, <4>3
      <3>3. g.fn = "supersede" /\ g.ex = i
        BY DEF Frame
      <3>4. OnTop(g, "get")
        BY <3>3 DEF OnTop, StoreInv, RowsOK, RowsAt, Used
      <3> HIDE DEF g
      <3>5. Push(c, g, "get")
        BY <2>3 DEF g
      <3>6. Under(f)'
        BY <2>1 DEF Under, Ready
      <3> QED BY <1>1, <1>2, <1>3, <1>4, <3>2, <3>4, <3>5, <3>6, PushKeeps
    <2> QED BY <1>3, <1>6, <2>2, <2>3 DEF Lookup
  <1>7. CASE Match(c) \/ Dedupe(c)
    <2>1. Ready(f) /\ f.fn = "insert"
      BY <1>3, <1>7 DEF Match, Dedupe, At, OnTop
    <2>2. ASSUME NEW i \in Used, stack' = SetTop(c, [f EXCEPT !.ex = i, !.exConf = rows[i].conf]),
                 Goto(c, "merge")
          PROVE  StoreInv'
      <3>1. rows[i].conf \in 0 .. 10 /\ i \in Ids
        BY DEF StoreInv, RowsOK, Row, Used
      <3> DEFINE g == [f EXCEPT !.ex = i, !.exConf = rows[i].conf]
      <3>2. g \in FrameT
        BY <1>3, <3>1 DEF FrameT
      <3>3. OnTop(g, "merge")
        BY <1>3, <2>1, <3>1 DEF OnTop, Ready, FrameT
      <3> HIDE DEF g
      <3>4. stack' = SetTop(c, g)
        BY <2>2 DEF g
      <3> QED BY <1>1, <1>2, <1>3, <1>4, <2>2, <3>2, <3>3, <3>4, ReplaceKeeps
    <2>3. ASSUME NEW l \in {"dedupe", "insert"}, Goto(c, l), UNCHANGED stack
          PROVE  StoreInv'
      <3>1. OnTop(Head(stack[c]), l)
        BY <1>3, <2>1 DEF OnTop
      <3> QED BY <1>1, <1>2, <1>3, <1>4, <2>3, <3>1, StayKeeps
    <2> QED BY <1>3, <1>7, <2>2, <2>3 DEF Match, Dedupe, RowsAt
  <1> QED BY <1>5, <1>6, <1>7
-----------------------------------------------------------------------------
(* A stored row is not the mark of an absent one. *)
LEMMA RowIsNotNone == \A r \in Row : r # NoRow
  <1>1. \A r \in Row : r.tier \in Tiers
    BY DEF Row
  <1>2. NoRow.tier \notin Tiers
    BY DEF NoRow, Tiers
  <1> QED BY <1>1, <1>2

(* A step that changes rows in place or removes them. *)
LEMMA Changed ==
  ASSUME StoreInv, UNCHANGED nextId, rows' \in [Ids -> Row \cup {NoRow}],
         \A i \in Ids : rows'[i] # NoRow =>
           rows[i] # NoRow /\ (Current(rows'[i]) => Current(rows[i]))
  PROVE  Settled
  <1>1. RowsOK'
    BY DEF StoreInv, RowsOK
  <1> QED BY <1>1, SMT DEF StoreInv, RowsOK, Settled

(* What a cycle makes of a row. *)
LEMMA OutcomeType ==
  ASSUME NEW r \in Row \cup {NoRow}, NEW a \in Outcomes(r)
  PROVE  /\ a \in Row \cup {NoRow}
         /\ a # NoRow => /\ r # NoRow /\ a.key = r.key /\ a.kind = r.kind
                         /\ a.content = r.content /\ a.conf = r.conf
  <1>1. CASE r = NoRow
    BY <1>1 DEF Outcomes
  <1>2. CASE r \in Row
    <2>1. \A t \in Tiers : LET q == [r EXCEPT !.tier = t]
                          IN  q \in Row /\ q.key = r.key /\ q.kind = r.kind
                              /\ q.content = r.content /\ q.conf = r.conf
      BY <1>2 DEF Row
    <2>2. a \in {NoRow, r} \cup {[r EXCEPT !.tier = t] : t \in Tiers}
      BY DEF Outcomes, Tiers
    <2>3. CASE a = NoRow \/ a = r
      BY <1>2, <2>3, RowIsNotNone
    <2>4. ASSUME NEW t \in Tiers, a = [r EXCEPT !.tier = t]
          PROVE  /\ a \in Row /\ r # NoRow /\ a.key = r.key /\ a.kind = r.kind
                 /\ a.content = r.content /\ a.conf = r.conf
      BY <1>2, <2>1, <2>4, RowIsNotNone
    <2> QED BY <2>2, <2>3, <2>4
  <1> QED BY <1>1, <1>2

(* A maintenance cycle changes tiers and removes rows, and no more. *)
LEMMA CycleKeeps ==
  ASSUME StoreInv, UNCHANGED nextId, Cycle
  PROVE  /\ rows' \in [Ids -> Row \cup {NoRow}]
         /\ \A i \in Ids : rows'[i] # NoRow =>
              /\ rows[i] # NoRow /\ rows'[i].key = rows[i].key /\ rows'[i].kind = rows[i].kind
              /\ rows'[i].content = rows[i].content /\ rows'[i].conf = rows[i].conf
         /\ Settled
  <1>1. PICK after : /\ DOMAIN after = Ids /\ rows' = after
                     /\ after = [i \in Ids |-> after[i]]
                     /\ \A i \in Ids : after[i] \in Outcomes(rows[i])
    BY DEF Cycle
  <1>2. \A i \in Ids : rows[i] \in Row \cup {NoRow}
    BY DEF StoreInv, RowsOK
  <1>3. rows' \in [Ids -> Row \cup {NoRow}]
    BY <1>1, <1>2, OutcomeType
  <1>4. \A i \in Ids : rows'[i] # NoRow =>
              /\ rows[i] # NoRow /\ rows'[i].key = rows[i].key /\ rows'[i].kind = rows[i].kind
              /\ rows'[i].content = rows[i].content /\ rows'[i].conf = rows[i].conf
    BY <1>1, <1>2, OutcomeType
  <1> QED BY <1>3, <1>4, Changed DEF Current

(* memory_insert_ex writes a row, and maintenance may follow. *)
LEMMA WriteStep ==
  ASSUME StoreInv, NEW c \in Callers, Merge(c) \/ InsertRow(c) \/ Maintain(c)
  PROVE  StoreInv'
  <1>1. pc[c] \in {"merge", "insert", "maintain"} /\ UNCHANGED <<stack, links>>
    BY DEF Merge, InsertRow, Maintain, At
  <1>2. PICK f \in FrameT : f = Top(c) /\ stack[c] # <<>> /\ OnTop(f, pc[c]) /\ f = Head(stack[c])
    BY <1>1, TopType
  <1>3. "maintain" \in Labels \ {"idle"} /\ OnTop(f, "maintain")
    BY <1>1, <1>2 DEF Labels, OnTop
  <1>4. ASSUME UNCHANGED <<rows, nextId>>, Goto(c, "maintain") \/ Return(c, 1) \/ Return(c, 0)
        PROVE  StoreInv'
    <2>1. Settled
      BY <1>4, Unmoved
    <2>2. CASE Goto(c, "maintain")
      BY <1>1, <1>2, <1>3, <2>1, <2>2, StayKeeps
    <2> QED BY <1>1, <1>4, <2>1, <2>2, ReturnKeeps
  <1>5. CASE Merge(c)
    <2>1. ASSUME rows[f.ex] # NoRow,
                 rows' = [rows EXCEPT ![f.ex].content = f.content, ![f.ex].conf = MergedConf(f)],
                 Goto(c, "maintain"), UNCHANGED nextId
          PROVE  StoreInv'
      <3>1. f.ex \in Ids /\ rows[f.ex] \in Row
        BY <1>2, <1>5, <2>1 DEF Merge, At, OnTop, StoreInv, RowsOK
      <3>2. f.content \in Texts /\ MergedConf(f) \in 0 .. 10
        BY DEF FrameT, MergedConf
      <3>7. PICK r \in Row, x \in Texts, v \in 0 .. 10 :
              r = rows[f.ex] /\ x = f.content /\ v = MergedConf(f)
        BY <3>1, <3>2
      <3> DEFINE q == [r EXCEPT !.content = x, !.conf = v]
      <3>3. q \in Row /\ q.key = rows[f.ex].key
        <4>1. q \in Row /\ q.key = r.key
          BY DEF Row
        <4> QED BY <3>7, <4>1
      <3>4. rows' = [rows EXCEPT ![f.ex] = q]
        BY <2>1, <3>1, <3>7 DEF StoreInv, RowsOK
      <3> HIDE DEF q
      <3>5. Settled
        BY <2>1, <3>1, <3>3, <3>4, Changed DEF StoreInv, RowsOK, Current
      <3> QED BY <1>1, <1>2, <1>3, <2>1, <3>5, StayKeeps
    <2> QED BY <1>2, <1>4, <1>5, <2>1 DEF Merge
  <1>6. CASE InsertRow(c)
    <2> DEFINE q == [key |-> f.key, tier |-> f.tier, kind |-> f.kind, content |-> f.content,
                     conf |-> f.conf, sess |-> f.sess]
    <2>1. ASSUME rows' = [rows EXCEPT ![nextId] = q], nextId' = nextId + 1, Goto(c, "maintain")
          PROVE  StoreInv'
      <3>1. Ready(f)
        BY <1>2, <1>6 DEF InsertRow, At, OnTop
      <3>2. q \in Row
        BY <3>1 DEF Ready, FrameT, Row
      <3> HIDE DEF q
      <3>3. rows' \in [Ids -> Row \cup {NoRow}] /\ \A i \in Ids \ {nextId} : rows'[i] = rows[i]
        BY <2>1, <3>2 DEF StoreInv, RowsOK
      <3>4. nextId \in Nat \ {0}
        BY DEF StoreInv, RowsOK
      <3>5. RowsOK'
        BY <2>1, <3>3, <3>4, StoreAssumption, SMT DEF StoreInv, RowsOK, Ids
      <3>6. Settled
        BY <2>1, <3>3, <3>4, <3>5, SMT DEF Settled
      <3> QED BY <1>1, <1>2, <1>3, <2>1, <3>6, StayKeeps
    <2> QED BY <1>2, <1>4, <1>6, <2>1 DEF InsertRow
  <1>7. CASE Maintain(c)
    <2>1. CASE Cycle /\ Return(c, 0) /\ UNCHANGED nextId
      BY <1>1, <2>1, CycleKeeps, ReturnKeeps
    <2> QED BY <1>4, <1>7, <2>1 DEF Maintain
  <1> QED BY <1>5, <1>6, <1>7

(* A version's key extends the key it had. *)
LEMMA VersionedType ==
  ASSUME NEW f \in FrameT, f.version # 0
  PROVE  /\ VersionedKey(f.key, f.version).base = f.key.base
         /\ VersionedKey(f.key, f.version).vers \in Seq(Nat \ {0}) \ {<<>>}
         /\ VersionedKey(f.key, f.version) = [base |-> f.key.base, vers |-> VersionedKey(f.key, f.version).vers]
  <1>1. f.key.vers \in Seq(Nat \ {0}) /\ f.version \in Nat \ {0}
    BY DEF FrameT
  <1>2. Append(f.key.vers, f.version) \in Seq(Nat \ {0})
        /\ Len(Append(f.key.vers, f.version)) = Len(f.key.vers) + 1
    BY <1>1, AppendProperties
  <1>3. Len(f.key.vers) \in Nat
    BY <1>1, LenProperties
  <1>4. Append(f.key.vers, f.version) # <<>>
    BY <1>2, <1>3, EmptySeq
  <1> QED BY <1>2, <1>4 DEF VersionedKey, Key

(* The rename puts the row aside, if it is still there (memory_supersede). *)
LEMMA RenameKeeps ==
  ASSUME StoreInv, NEW f \in FrameT, OnTop(f, "rename"), UNCHANGED nextId,
         rows' = IF rows[f.ex] = NoRow THEN rows
                 ELSE [rows EXCEPT ![f.ex].key = VersionedKey(f.key, f.version)]
  PROVE  /\ Settled /\ PutAside(f.ex)' /\ rows' \in [Ids -> Row \cup {NoRow}]
         /\ \A i \in Ids : rows'[i] # NoRow =>
              /\ rows[i] # NoRow /\ rows'[i].kind = rows[i].kind
              /\ rows'[i].content = rows[i].content /\ rows'[i].conf = rows[i].conf
              /\ rows'[i].key = rows[i].key \/ (i = f.ex /\ ~Current(rows'[i]))
         /\ rows[f.ex] # NoRow => rows'[f.ex] # NoRow /\ ~Current(rows'[f.ex])
                                  /\ rows'[f.ex].key.base = f.key.base
         /\ \A i \in Ids \ {f.ex} : rows'[i] = rows[i]
  <1>1. f.ex \in Ids /\ f.ex < nextId /\ f.key.base \in Keys /\ f.version # 0
    BY DEF OnTop, Ready
  <1>2. rows \in [Ids -> Row \cup {NoRow}]
    BY DEF StoreInv, RowsOK
  <1>3. CASE rows[f.ex] = NoRow
    <2>1. Settled
      BY <1>3, Unmoved
    <2> QED BY <1>1, <1>2, <1>3, <2>1 DEF PutAside
  <1>4. CASE rows[f.ex] # NoRow
    <2>1. PICK r \in Row : r = rows[f.ex]
      BY <1>1, <1>2, <1>4
    <2>2. PICK vs \in Seq(Nat \ {0}) \ {<<>>} :
            VersionedKey(f.key, f.version) = [base |-> f.key.base, vers |-> vs]
      BY <1>1, VersionedType
    <2> DEFINE k == [base |-> f.key.base, vers |-> vs]
               q == [r EXCEPT !.key = k]
    <2>3. k \in [base : Keys, vers : Seq(Nat \ {0})] /\ k.vers # <<>> /\ k.base = f.key.base
      BY <1>1
    <2> HIDE DEF k
    <2>4. /\ q \in Row /\ q.key = k /\ q.kind = r.kind /\ q.content = r.content /\ q.conf = r.conf
      BY <2>3 DEF Row
    <2>5. rows' = [rows EXCEPT ![f.ex] = q]
      BY <1>1, <1>2, <1>4, <2>1, <2>2 DEF k
    <2> HIDE DEF q
    <2>6. q # NoRow /\ ~Current(q)
      BY <2>3, <2>4, RowIsNotNone DEF Current
    <2>7. rows' \in [Ids -> Row \cup {NoRow}] /\ rows'[f.ex] = q
          /\ \A i \in Ids \ {f.ex} : rows'[i] = rows[i]
      BY <1>1, <1>2, <2>4, <2>5
    <2>8. \A i \in Ids : rows'[i] # NoRow =>
            /\ rows[i] # NoRow /\ rows'[i].kind = rows[i].kind
            /\ rows'[i].content = rows[i].content /\ rows'[i].conf = rows[i].conf
            /\ rows'[i].key = rows[i].key \/ (i = f.ex /\ ~Current(rows'[i]))
      BY <1>4, <2>1, <2>4, <2>6, <2>7
    <2>9. Settled
      BY <2>7, <2>8, Changed DEF Current
    <2> QED BY <1>1, <2>3, <2>4, <2>6, <2>7, <2>8, <2>9 DEF PutAside
  <1> QED BY <1>3, <1>4

(* memory_supersede and what it waits for. *)
LEMMA SupersedeStep ==
  ASSUME StoreInv, NEW c \in Callers, Supersede(c)
  PROVE  StoreInv'
  <1>1. pc[c] \in {"get", "count", "rename", "link"} /\ UNCHANGED nextId
    BY DEF Supersede, Get, Count, Rename, Link, At
  <1>2. PICK f \in FrameT : f = Top(c) /\ stack[c] # <<>> /\ OnTop(f, pc[c]) /\ f = Head(stack[c])
    BY <1>1, TopType
  <1>3. f.fn = "supersede" /\ f.ex \in Ids /\ f.ex < nextId
    BY <1>1, <1>2 DEF OnTop
  <1>4. {"count", "rename", "gate"} \subseteq Labels \ {"idle"}
    BY DEF Labels
  <1>5. ASSUME UNCHANGED <<rows, stack>>, \A m \in links' : m \in links \/ PutAside(m[2]),
               NEW code, Return(c, code)
        PROVE  StoreInv'
    BY <1>1, <1>5, Unmoved, ReturnKeeps
  <1>6. CASE Get(c)
    <2>1. CASE rows[f.ex] # NoRow /\ Goto(c, "count")
               /\ stack' = SetTop(c, [f EXCEPT !.key = rows[f.ex].key, !.tier = rows[f.ex].tier,
                                               !.kind = rows[f.ex].kind])
      <3>1. PICK r \in Row : r = rows[f.ex]
        BY <1>3, <2>1 DEF StoreInv, RowsOK
      <3>2. r.key \in [base : Keys, vers : Seq(Nat \ {0})] /\ r.tier \in Tiers /\ r.kind \in Kinds
        BY DEF Row
      <3> DEFINE g == [f EXCEPT !.key = r.key, !.tier = r.tier, !.kind = r.kind]
      <3>3. /\ g \in FrameT /\ g.fn = f.fn /\ g.ex = f.ex /\ g.key = r.key /\ g.tier = r.tier
            /\ g.kind = r.kind
        BY <3>2 DEF FrameT
      <3> HIDE DEF g
      <3>4. OnTop(g, "count")
        BY <1>3, <3>2, <3>3 DEF OnTop, Ready
      <3>5. stack' = SetTop(c, g) /\ UNCHANGED <<rows, links>>
        BY <1>6, <2>1, <3>1 DEF Get, g
      <3> QED BY <1>1, <1>2, <1>4, <2>1, <3>3, <3>4, <3>5, Unmoved, ReplaceKeeps
    <2>2. CASE Return(c, 1) /\ UNCHANGED stack
      BY <1>5, <1>6, <2>2 DEF Get
    <2> QED BY <1>2, <1>6, <2>1, <2>2 DEF Get
  <1>7. CASE Count(c)
    <2>1. Cardinality(VersionsOf(f.key)) \in Nat
      <3>1. IsFiniteSet(Ids)
        BY FS_Interval, StoreAssumption DEF Ids
      <3>2. VersionsOf(f.key) \subseteq Ids
        BY DEF VersionsOf, Used
      <3> QED BY <3>1, <3>2, FS_Subset, FS_CardinalityType
    <2>2. PICK n \in Nat \ {0} : n = Cardinality(VersionsOf(f.key)) + 1
      BY <2>1
    <2> DEFINE g == [f EXCEPT !.version = n]
    <2>3. /\ g \in FrameT /\ g.fn = f.fn /\ g.ex = f.ex /\ g.key = f.key /\ g.tier = f.tier
          /\ g.kind = f.kind /\ g.version = n
      BY DEF FrameT
    <2> HIDE DEF g
    <2>4. OnTop(g, "rename")
      BY <1>2, <1>3, <1>7, <2>2, <2>3 DEF OnTop, Ready, Count, At
    <2>5. stack' = SetTop(c, g) /\ UNCHANGED <<rows, links>> /\ Goto(c, "rename")
      BY <1>2, <1>7, <2>2 DEF Count, g
    <2> QED BY <1>1, <1>2, <1>4, <2>3, <2>4, <2>5, Unmoved, ReplaceKeeps
  <1>8. CASE Rename(c)
    <2>1. CASE /\ rows' = IF rows[f.ex] = NoRow THEN rows
                          ELSE [rows EXCEPT ![f.ex].key = VersionedKey(f.key, f.version)]
               /\ Push(c, Frame("insert", f.tier, f.kind, f.key, f.content, f.conf, f.sess), "gate")
      <3>1. OnTop(f, "rename")
        BY <1>2, <1>8 DEF Rename, At
      <3>2. Settled /\ PutAside(f.ex)'
        BY <1>1, <2>1, <3>1, RenameKeeps
      <3> DEFINE g == Frame("insert", f.tier, f.kind, f.key, f.content, f.conf, f.sess)
      <3>3. g \in FrameT
        <4>1. /\ f.key = Key(f.key.base, f.key.vers) /\ f.key.base \in RawKeys \cup Keys \cup {""}
              /\ f.key.vers \in Seq(Nat \ {0}) /\ f.tier \in Tiers \cup {""}
              /\ f.kind \in Kinds \cup {""} /\ f.content \in Texts /\ f.conf \in 0 .. 10
              /\ f.sess \in Sessions /\ NoId \in Ids \cup {NoId}
          BY DEF FrameT, Key
        <4>2. Frame("insert", f.tier, f.kind, Key(f.key.base, f.key.vers), f.content, f.conf,
                    f.sess) \in FrameT
          BY <4>1, FrameType
        <4> QED BY <4>1, <4>2
      <3>4. OnTop(g, "gate")
        BY <3>1 DEF OnTop, Ready, Frame
      <3> HIDE DEF g
      <3>5. Push(c, g, "gate")
        BY <2>1 DEF g
      <3>6. Under(f)'
        BY <1>3, <3>1, <3>2 DEF Under, OnTop, Ready
      <3>7. UNCHANGED links
        BY <1>8 DEF Rename
      <3> QED BY <1>2, <1>4, <3>2, <3>3, <3>4, <3>5, <3>6, <3>7, PushKeeps
    <2>2. CASE Return(c, 1) /\ UNCHANGED <<rows, stack>>
      BY <1>5, <1>8, <2>2 DEF Rename
    <2> QED BY <1>2, <1>8, <2>1, <2>2 DEF Rename
  <1>9. CASE Link(c)
    <2>1. PutAside(f.ex)
      BY <1>2, <1>9 DEF Link, At, OnTop
    <2>2. \A m \in links' : m \in links \/ PutAside(m[2])
      BY <1>2, <1>9, <2>1 DEF Link
    <2> QED BY <1>5, <1>9, <2>2 DEF Link
  <1> QED BY <1>6, <1>7, <1>8, <1>9 DEF Supersede

(* Removing rows, by a purge or a deletion. *)
LEMMA RemovalKeeps ==
  ASSUME StoreInv, UNCHANGED nextId, NEW gone,
         rows' = [i \in Ids |-> IF i \in gone THEN NoRow ELSE rows[i]]
  PROVE  Settled
  <1>1. rows' \in [Ids -> Row \cup {NoRow}]
    BY DEF StoreInv, RowsOK
  <1> QED BY <1>1, Changed DEF Current

(* The fold of a session. *)
LEMMA FoldStep ==
  ASSUME StoreInv, NEW c \in Callers, Fold(c)
  PROVE  StoreInv'
  <1>1. pc[c] \in {"list", "purge"} /\ UNCHANGED <<nextId, links>>
    BY DEF Fold, List, Purge, At
  <1>2. PICK f \in FrameT : f = Top(c) /\ stack[c] # <<>> /\ OnTop(f, pc[c]) /\ f = Head(stack[c])
    BY <1>1, TopType
  <1>3. CASE List(c)
    <2>1. CASE Return(c, 0) /\ UNCHANGED stack
      BY <1>1, <1>3, <2>1, Unmoved, ReturnKeeps DEF List
    <2>2. ASSUME NEW D \in SUBSET SessionL0(f.sess),
                 Push(c, Frame("insert", f.tier, f.kind, f.key,
                               UNION {Text(rows[i]) : i \in D}, f.conf, f.sess), "gate")
          PROVE  StoreInv'
      <3>1. PICK x \in Texts : x = UNION {Text(rows[i]) : i \in D}
        <4>1. ASSUME NEW i \in D PROVE Text(rows[i]) \in Texts
          <5>1. rows[i] \in Row
            BY DEF SessionL0, Used, StoreInv, RowsOK
          <5> QED BY <5>1 DEF Row, Text, Texts
        <4> QED BY <4>1 DEF Texts
      <3>2. Ready(f) /\ f.fn = "fold"
        BY <1>2, <1>3 DEF List, At, OnTop
      <3> DEFINE g == Frame("insert", f.tier, f.kind, f.key, x, f.conf, f.sess)
      <3>3. g \in FrameT
        <4>1. /\ f.key = Key(f.key.base, f.key.vers) /\ f.key.base \in RawKeys \cup Keys \cup {""}
              /\ f.key.vers \in Seq(Nat \ {0}) /\ f.tier \in Tiers \cup {""}
              /\ f.kind \in Kinds \cup {""} /\ f.conf \in 0 .. 10
              /\ f.sess \in Sessions /\ NoId \in Ids \cup {NoId}
          BY DEF FrameT, Key
        <4>2. Frame("insert", f.tier, f.kind, Key(f.key.base, f.key.vers), x, f.conf,
                    f.sess) \in FrameT
          BY <4>1, FrameType
        <4> QED BY <4>1, <4>2
      <3>4. OnTop(g, "gate")
        BY <3>2 DEF OnTop, Ready, Frame
      <3> HIDE DEF g
      <3>5. Push(c, g, "gate")
        BY <2>2, <3>1 DEF g
      <3>6. Under(f)'
        BY <3>2 DEF Under
      <3>7. UNCHANGED rows /\ "gate" \in Labels \ {"idle"}
        BY <1>3 DEF List, Labels
      <3> QED BY <1>1, <1>2, <3>3, <3>4, <3>5, <3>6, <3>7, Unmoved, PushKeeps
    <2> QED BY <1>2, <1>3, <2>1, <2>2 DEF List
  <1>4. CASE Purge(c)
    <2>1. Settled
      <3>1. CASE UNCHANGED rows
        BY <1>1, <3>1, Unmoved
      <3>2. CASE rows' = [i \in Ids |-> IF i \in SessionL0(Top(c).sess) THEN NoRow ELSE rows[i]]
        BY <1>1, <3>2, RemovalKeeps
      <3> QED BY <1>4, <3>1, <3>2 DEF Purge
    <2> QED BY <1>1, <1>4, <2>1, ReturnKeeps DEF Purge
  <1> QED BY <1>3, <1>4 DEF Fold

(* The frame below the innermost one waits for the call it made. *)
LEMMA Waiting ==
  ASSUME StoreInv, NEW c \in Callers, pc[c] # "idle", Len(stack[c]) > 1
  PROVE  /\ Caller(c) \in FrameT /\ Under(Caller(c)) /\ Caller(c) = Head(Tail(stack[c]))
         /\ Tail(stack[c]) \in Seq(FrameT) /\ Tail(stack[c]) # <<>>
  <1>1. PICK s \in Seq(FrameT) : s = stack[c] /\ s # <<>>
    BY DEF StoreInv, CallerOK
  <1>2. PICK u : u = Tail(s)
    OBVIOUS
  <1>3. /\ u \in Seq(FrameT) /\ Len(u) = Len(s) - 1 /\ Len(s) \in Nat
        /\ \A j \in 1 .. Len(u) : u[j] = s[j + 1]
    BY <1>1, <1>2, Popped
  <1>4. Len(s) > 1 /\ Len(<<>>) = 0
    BY <1>1, EmptySeq
  <1>5. Len(u) # 0
    BY <1>3, <1>4
  <1>6. u # <<>>
    BY <1>4, <1>5, Zenon
  <1>7. Head(u) = s[2] /\ Head(u) \in FrameT /\ 2 \in 2 .. Len(s)
    BY <1>3, <1>4, <1>6, Popped
  <1>8. Under(s[2])
    BY <1>1, <1>7 DEF StoreInv, CallerOK
  <1> QED BY <1>1, <1>2, <1>3, <1>6, <1>7, <1>8 DEF Caller

(* Returning to the frame that waits. *)
LEMMA ResumeStep ==
  ASSUME StoreInv, NEW c \in Callers, Resume(c)
  PROVE  StoreInv'
  <1>1. PICK s \in Seq(FrameT) : s = stack[c] /\ s # <<>>
    BY DEF StoreInv, CallerOK, Resume, At
  <1>2. Settled /\ UNCHANGED links
    BY Unmoved DEF Resume
  <1>3. CASE stack' = [stack EXCEPT ![c] = <<>>] /\ Goto(c, "idle")
    <2>1. <<>> \in Seq(FrameT) /\ "idle" \in Labels /\ pc' = [pc EXCEPT ![c] = "idle"]
          /\ Len(<<>>) = 0
      BY <1>3, EmptySeq DEF Labels, Goto
    <2>2. 2 .. 0 = {}
      OBVIOUS
    <2> QED BY <1>2, <1>3, <2>1, <2>2, StepKeeps
  <1>4. ASSUME Len(stack[c]) > 1,
               NEW g \in FrameT, NEW l \in {"link", "match", "purge", "return"}, Goto(c, l),
               \/ stack' = [stack EXCEPT ![c] = Tail(stack[c])] /\ g = Caller(c)
               \/ stack' = [stack EXCEPT ![c] = <<g>> \o Tail(Tail(stack[c]))],
               OnTop(g, l)
        PROVE  StoreInv'
    <2>1. PICK u \in Seq(FrameT) :
            /\ u = Tail(s) /\ u # <<>> /\ Len(u) = Len(s) - 1
            /\ \A j \in 1 .. Len(u) : u[j] = s[j + 1]
      <3>1. /\ Tail(s) \in Seq(FrameT) /\ Len(Tail(s)) = Len(s) - 1 /\ Len(s) \in Nat
            /\ \A j \in 1 .. Len(Tail(s)) : Tail(s)[j] = s[j + 1]
        BY <1>1, Popped
      <3>2. Len(s) > 1 /\ Len(<<>>) = 0
        BY <1>1, <1>4, EmptySeq
      <3>3. PICK u : u = Tail(s)
        OBVIOUS
      <3>4. Len(u) = Len(s) - 1
        BY <3>1, <3>3, Zenon
      <3>5. Len(u) # 0
        <4>1. Len(s) \in Nat /\ Len(s) > 1
          BY <3>1, <3>2, Zenon
        <4> QED BY <3>4, <4>1
      <3>6. u # <<>>
        BY <3>2, <3>5, Zenon
      <3> QED BY <3>1, <3>3, <3>6
    <2>2. PICK t \in Seq(FrameT) :
            /\ stack' = [stack EXCEPT ![c] = t] /\ t # <<>> /\ Head(t) = g /\ Len(t) = Len(u)
            /\ \A j \in 2 .. Len(t) : t[j] = u[j]
      <3>1. CASE stack' = [stack EXCEPT ![c] = u] /\ g = Head(u)
        BY <2>1, <3>1
      <3>2. CASE stack' = [stack EXCEPT ![c] = <<g>> \o Tail(u)]
        BY ZenonT(60), <2>1, <3>2, Replaced
      <3>3. \/ stack' = [stack EXCEPT ![c] = u] /\ g = Head(u)
            \/ stack' = [stack EXCEPT ![c] = <<g>> \o Tail(u)]
        BY <1>1, <1>4, <2>1 DEF Caller
      <3> QED BY <3>1, <3>2, <3>3
    <2>3. ASSUME NEW j \in 2 .. Len(t) PROVE Under(t[j])'
      <3>1. Len(s) \in Nat /\ Len(u) \in Nat
        BY LenProperties
      <3>2. j + 1 \in 2 .. Len(s) /\ j \in 1 .. Len(u)
        BY <2>1, <2>2, <3>1
      <3>3. PICK h : h = s[j + 1]
        OBVIOUS
      <3>4. Under(h)'
        BY <1>1, <1>2, <3>2, <3>3, SettledKeeps DEF StoreInv, CallerOK
      <3> QED BY <2>1, <2>2, <3>2, <3>3, <3>4
    <2>4. l \in Labels /\ l # "idle"
      BY DEF Labels
    <2>5. OnTop(g, l)'
      BY <1>2, <1>4, <2>4, SettledKeeps
    <2> QED BY <1>2, <1>4, <2>2, <2>3, <2>4, <2>5, StepKeeps DEF Goto
  <1>5. ASSUME Len(stack[c]) > 1
        PROVE  /\ Caller(c) \in FrameT /\ Under(Caller(c)) /\ Caller(c) = Head(Tail(stack[c]))
               /\ Tail(stack[c]) # <<>>
    BY <1>5, Waiting DEF Resume, At
  <1>6. ASSUME Len(stack[c]) > 1, Caller(c).fn = "supersede", Goto(c, "link"),
               stack' = [stack EXCEPT ![c] = Tail(stack[c])]
        PROVE  StoreInv'
    <2>1. OnTop(Caller(c), "link")
      BY <1>5, <1>6 DEF OnTop, Under, PutAside
    <2> QED BY <1>4, <1>5, <1>6, <2>1
  <1>7. ASSUME Len(stack[c]) > 1, Caller(c).fn = "insert", Goto(c, "match"),
               stack' = [stack EXCEPT ![c] = <<[Head(Tail(stack[c])) EXCEPT !.failed = TRUE]>>
                                             \o Tail(Tail(stack[c]))]
        PROVE  StoreInv'
    <2>1. PICK h \in FrameT : h = Caller(c) /\ h = Head(Tail(stack[c])) /\ Under(h)
      BY <1>5, <1>7
    <2> DEFINE g == [h EXCEPT !.failed = TRUE]
    <2>2. /\ g \in FrameT /\ g.fn = h.fn /\ g.tier = h.tier /\ g.kind = h.kind /\ g.key = h.key
      BY DEF FrameT
    <2> HIDE DEF g
    <2>3. OnTop(g, "match")
      BY <1>7, <2>1, <2>2 DEF OnTop, Under, Ready
    <2>4. stack' = [stack EXCEPT ![c] = <<g>> \o Tail(Tail(stack[c]))]
      BY <1>7, <2>1 DEF g
    <2> QED BY <1>4, <1>7, <2>2, <2>3, <2>4
  <1>8. ASSUME Len(stack[c]) > 1, Caller(c).fn = "fold", Goto(c, "purge"),
               stack' = [stack EXCEPT ![c] = Tail(stack[c])]
        PROVE  StoreInv'
    <2>1. OnTop(Caller(c), "purge")
      BY <1>8 DEF OnTop
    <2> QED BY <1>4, <1>5, <1>8, <2>1
  <1>9. ASSUME Len(stack[c]) > 1, Goto(c, "return"),
               stack' = [stack EXCEPT ![c] = Tail(stack[c])]
        PROVE  StoreInv'
    <2>1. OnTop(Caller(c), "return")
      BY DEF OnTop
    <2> QED BY <1>4, <1>5, <1>9, <2>1
  <1> QED BY <1>3, <1>6, <1>7, <1>8, <1>9 DEF Resume

(* memory_delete and memory_update_content between the other calls. *)
LEMMA OutsideStep ==
  ASSUME StoreInv, NEW c \in Callers, Delete(c) \/ UpdateContent(c)
  PROVE  Settled /\ StoreInv'
  <1>1. UNCHANGED <<nextId, links, stack, pc>>
    BY DEF Delete, UpdateContent
  <1>2. Settled
    <2>1. CASE Delete(c)
      <3>1. PICK i \in Used : rows' = [rows EXCEPT ![i] = NoRow]
        BY <2>1 DEF Delete
      <3>2. rows' = [j \in Ids |-> IF j \in {i} THEN NoRow ELSE rows[j]]
        BY <3>1 DEF StoreInv, RowsOK
      <3> QED BY <1>1, <3>2, RemovalKeeps
    <2>2. CASE UpdateContent(c)
      <3>1. PICK i \in Used, x \in Contents : rows' = [rows EXCEPT ![i].content = x]
        BY <2>2 DEF UpdateContent
      <3>2. PICK r \in Row : r = rows[i] /\ i \in Ids /\ x \in Texts
        BY StoreAssumption DEF StoreInv, RowsOK, Used, Texts
      <3> DEFINE q == [r EXCEPT !.content = x]
      <3>3. q \in Row /\ q.key = r.key
        BY <3>2 DEF Row
      <3>4. rows' = [rows EXCEPT ![i] = q]
        BY <3>1, <3>2 DEF StoreInv, RowsOK
      <3> HIDE DEF q
      <3> QED BY <1>1, <3>2, <3>3, <3>4, RowIsNotNone, Changed DEF StoreInv, RowsOK, Current
    <2> QED BY <2>1, <2>2
  <1>3. PICK t \in Seq(FrameT) : t = stack[c]
    BY DEF StoreInv
  <1>4. PICK l \in Labels : l = pc[c]
    BY DEF StoreInv
  <1>5. stack' = [stack EXCEPT ![c] = t] /\ pc' = [pc EXCEPT ![c] = l] /\ t = <<>> /\ l = "idle"
    BY <1>1, <1>3, <1>4 DEF StoreInv, CallerOK, Delete, UpdateContent, Start, At
  <1>6. 2 .. Len(t) = {}
    BY <1>5, EmptySeq
  <1> QED BY <1>1, <1>2, <1>5, <1>6, StepKeeps
-----------------------------------------------------------------------------
(* The empty table has the invariant. *)
LEMMA InitStoreInv ==
  ASSUME Init PROVE StoreInv
  <1>1. RowsOK
    BY DEF Init, RowsOK
  <1>2. <<>> \in Seq(FrameT) /\ Len(<<>>) = 0
    BY EmptySeq
  <1> QED BY <1>1, <1>2 DEF Init, StoreInv, CallerOK, Labels

(* Every step of every caller keeps the invariant. *)
LEMMA NextKeepsStoreInv ==
  ASSUME StoreInv, [Next]_vars PROVE StoreInv'
  <1>1. ASSUME UNCHANGED vars PROVE StoreInv'
    BY <1>1 DEF vars, StoreInv, RowsOK, CallerOK, PutAside, OnTop, Under, Ready
  <1>2. ASSUME NEW c \in Callers, Moves(c)
        PROVE  StoreInv'
    <2>1. CASE Call(c)
      BY <2>1, CallStep, OutsideStep DEF Call
    <2>2. CASE Insert(c)
      BY <2>2, ReadStep, WriteStep DEF Insert
    <2> QED BY <1>2, <2>1, <2>2, SupersedeStep, FoldStep, ResumeStep DEF Moves
  <1> QED BY <1>1, <1>2 DEF Next, Finished

(***************************************************************************)
(* However many callers supersede, rename and delete the rows of one       *)
(* another, what a memory_links row of type "supersedes" leads back to is  *)
(* a version put aside or gone, and never a current row (memory_supersede, *)
(* which links long after it renamed).                                     *)
(***************************************************************************)
THEOREM LinksAlwaysPointBack == Spec => []LinksPointBack
  <1>1. Init => StoreInv
    BY InitStoreInv
  <1>2. StoreInv /\ [Next]_vars => StoreInv'
    BY NextKeepsStoreInv
  <1>3. StoreInv => LinksPointBack
    BY DEF StoreInv, PutAside, LinksPointBack
  <1> QED BY <1>1, <1>2, <1>3, PTL DEF Spec
-----------------------------------------------------------------------------
(* What a caller that is alone knows from the lookups it made: they still hold. *)
Knows(c) ==
  LET f == Top(c)
      versioned == Versions(f) /\ ~f.failed /\ f.key.vers = <<>>
  IN  /\ pc[c] \in {"dedupe", "insert"} => RowsAt(f.key) = {}
      /\ pc[c] = "insert" =>
           \A i \in Used : rows[i].kind = f.kind => ~NearKeys(f.key, rows[i].key)
      /\ pc[c] = "match" /\ versioned => \A i \in RowsAt(f.key) : ~Supersedes(f, rows[i])
      /\ pc[c] = "merge" => /\ f.ex \in Used /\ rows[f.ex].conf = f.exConf
                            /\ rows[f.ex].key.vers = f.key.vers
      /\ pc[c] = "merge" /\ versioned /\ rows[f.ex].key = f.key => ~Supersedes(f, rows[f.ex])

OneInv(c) == CurrentUnique /\ NoNearDuplicates /\ Knows(c)

(* A step that leaves what a row says, and its key unless it puts the row aside. *)
Kept ==
  \A i \in Ids : rows'[i] # NoRow =>
    /\ rows[i] # NoRow /\ rows'[i].kind = rows[i].kind
    /\ rows'[i].content = rows[i].content /\ rows'[i].conf = rows[i].conf
    /\ rows'[i].key = rows[i].key \/ ~Current(rows'[i])

(* Only merging, inserting and updating do more than that. *)
LEMMA RowCases ==
  ASSUME StoreInv, NEW c \in Callers,
         Call(c) \/ Insert(c) \/ Supersede(c) \/ Fold(c) \/ Resume(c)
  PROVE  Kept \/ Merge(c) \/ InsertRow(c) \/ UpdateContent(c)
  <1>1. CASE UNCHANGED rows
    BY <1>1 DEF Kept
  <1>2. CASE Maintain(c)
    BY <1>1, <1>2, CycleKeeps DEF Maintain, Kept
  <1>3. CASE Rename(c)
    <2>1. PICK f \in FrameT : f = Top(c) /\ OnTop(f, pc[c])
      BY <1>3, TopType DEF Rename, At
    <2>2. OnTop(f, "rename") /\ UNCHANGED nextId
      BY <1>3, <2>1 DEF Rename, At
    <2>3. CASE rows' = IF rows[f.ex] = NoRow THEN rows
                       ELSE [rows EXCEPT ![f.ex].key = VersionedKey(f.key, f.version)]
      BY <2>2, <2>3, RenameKeeps DEF Kept
    <2> QED BY <1>1, <1>3, <2>1, <2>3 DEF Rename
  <1>4. CASE Purge(c)
    <2>1. CASE rows' = [i \in Ids |-> IF i \in SessionL0(Top(c).sess) THEN NoRow ELSE rows[i]]
      BY <2>1 DEF Kept
    <2> QED BY <1>1, <1>4, <2>1 DEF Purge
  <1>5. CASE Delete(c)
    <2>1. PICK i \in Used : rows' = [rows EXCEPT ![i] = NoRow]
      BY <1>5 DEF Delete
    <2> QED BY <2>1 DEF Kept, StoreInv, RowsOK
  <1>6. Merge(c) \/ InsertRow(c) \/ UpdateContent(c) \/ Maintain(c) \/ Rename(c) \/ Purge(c)
        \/ Delete(c) \/ UNCHANGED rows
    BY DEF Call, Insert, Supersede, Fold, CallInsert, CallSupersede, CallFold, Gate, Lookup, Match,
           Dedupe, Get, Count, Link, List, Resume
  <1> QED BY <1>1, <1>2, <1>3, <1>4, <1>5, <1>6

(* Merging and updating change what one row says, and nothing else of it. *)
LEMMA MergedRows ==
  ASSUME StoreInv, NEW c \in Callers, Merge(c) \/ UpdateContent(c)
  PROVE  \A i \in Ids : rows'[i] # NoRow =>
           rows[i] # NoRow /\ rows'[i].kind = rows[i].kind /\ rows'[i].key = rows[i].key
  <1>1. CASE UNCHANGED rows
    BY <1>1
  <1>2. ASSUME NEW j, NEW x, NEW v, rows' = [rows EXCEPT ![j].content = x, ![j].conf = v] \/
                                    rows' = [rows EXCEPT ![j].content = x],
               j \in Used
        PROVE  \A i \in Ids : rows'[i] # NoRow =>
                 rows[i] # NoRow /\ rows'[i].kind = rows[i].kind /\ rows'[i].key = rows[i].key
    <2>1. PICK r \in Row : r = rows[j]
      BY <1>2 DEF StoreInv, RowsOK, Used
    <2>2. DOMAIN r = {"key", "tier", "kind", "content", "conf", "sess"}
      BY DEF Row
    <2>3. /\ [r EXCEPT !.content = x, !.conf = v].key = r.key
          /\ [r EXCEPT !.content = x, !.conf = v].kind = r.kind
          /\ [r EXCEPT !.content = x].key = r.key /\ [r EXCEPT !.content = x].kind = r.kind
      BY <2>2
    <2>4. rows' = [rows EXCEPT ![j] = [r EXCEPT !.content = x, !.conf = v]]
          \/ rows' = [rows EXCEPT ![j] = [r EXCEPT !.content = x]]
      BY <1>2, <2>1 DEF StoreInv, RowsOK, Used
    <2>5. \A i \in Ids : i # j => rows'[i] = rows[i]
      BY <1>2 DEF StoreInv, RowsOK
    <2>6. rows'[j] \in {[r EXCEPT !.content = x, !.conf = v], [r EXCEPT !.content = x]}
      BY <1>2, <2>4 DEF StoreInv, RowsOK, Used
    <2>7. rows'[j].key = r.key /\ rows'[j].kind = r.kind
      BY <2>3, <2>6
    <2> QED BY <1>2, <2>1, <2>5, <2>7 DEF Used
  <1>3. CASE Merge(c)
    <2>1. PICK f \in FrameT : f = Top(c) /\ OnTop(f, pc[c])
      BY <1>3, TopType DEF Merge, At
    <2>2. f.ex \in Ids
      BY <1>3, <2>1 DEF Merge, At, OnTop
    <2>3. CASE rows[f.ex] # NoRow
               /\ rows' = [rows EXCEPT ![f.ex].content = f.content, ![f.ex].conf = MergedConf(f)]
      BY <1>2, <2>2, <2>3 DEF Used
    <2> QED BY <1>1, <1>3, <2>1, <2>3 DEF Merge
  <1>4. CASE UpdateContent(c)
    BY <1>2, <1>4 DEF UpdateContent
  <1> QED BY <1>3, <1>4

(* Neither makes two current rows of one key, or of near-duplicate keys. *)
LEMMA UniqueKept ==
  ASSUME CurrentUnique, NoNearDuplicates,
         \A i \in Ids : rows'[i] # NoRow =>
           /\ rows[i] # NoRow /\ rows'[i].kind = rows[i].kind
           /\ rows'[i].key = rows[i].key \/ ~Current(rows'[i])
  PROVE  CurrentUnique' /\ NoNearDuplicates'
  <1>1. \A i \in Ids : rows'[i] # NoRow /\ Current(rows'[i]) =>
          rows[i] # NoRow /\ Current(rows[i]) /\ rows'[i].key = rows[i].key
          /\ rows'[i].kind = rows[i].kind
    BY DEF Current
  <1>2. CurrentUnique'
    BY <1>1 DEF CurrentUnique, Used, Current
  <1>3. NoNearDuplicates'
    BY <1>1 DEF NoNearDuplicates, Used
  <1> QED BY <1>2, <1>3

(* Two keys are spellings of one another, or neither is of the other. *)
LEMMA NearIsMutual ==
  ASSUME NEW k, NEW l, NearKeys(k, l)
  PROVE  NearKeys(l, k)
  BY StoreAssumption DEF NearKeys

(* A row is inserted only after no row of its key and none of its kind under a
   near-duplicate key was found. *)
LEMMA UniqueInserted ==
  ASSUME StoreInv, NEW c \in Callers, OneInv(c), InsertRow(c)
  PROVE  CurrentUnique' /\ NoNearDuplicates'
  <1> DEFINE f == Top(c)
             q == [key |-> f.key, tier |-> f.tier, kind |-> f.kind, content |-> f.content,
                   conf |-> f.conf, sess |-> f.sess]
  <1>1. /\ RowsAt(f.key) = {}
        /\ \A i \in Used : rows[i].kind = f.kind => ~NearKeys(f.key, rows[i].key)
    BY DEF InsertRow, At, OneInv, Knows
  <1>2. CASE UNCHANGED rows
    BY <1>2 DEF OneInv, CurrentUnique, NoNearDuplicates, Used
  <1>3. CASE rows' = [rows EXCEPT ![nextId] = q]
    <2>1. q.key = f.key /\ q.kind = f.kind
      OBVIOUS
    <2> HIDE DEF f, q
    <2>2. /\ \A i \in Ids \ {nextId} : rows'[i] = rows[i]
          /\ nextId \in Ids => rows'[nextId] = q
      BY <1>3 DEF StoreInv, RowsOK
    <2>3. Used' \subseteq Used \cup {nextId} /\ \A i \in Used' : i # nextId => rows'[i] = rows[i]
      BY <2>2 DEF Used
    <2>4. \A i \in Used' : i = nextId => rows'[i].key = f.key /\ rows'[i].kind = f.kind
      BY <2>1, <2>2 DEF Used
    <2>5. CurrentUnique'
      <3> SUFFICES ASSUME NEW i \in Used', NEW j \in Used', Current(rows'[i]),
                          rows'[i].key = rows'[j].key
                   PROVE  i = j
        BY DEF CurrentUnique, Current
      <3>1. CASE i # nextId /\ j # nextId
        BY <2>3, <3>1 DEF OneInv, CurrentUnique
      <3>2. CASE i = nextId /\ j # nextId
        BY <1>1, <2>3, <2>4, <3>2 DEF RowsAt
      <3>3. CASE i # nextId /\ j = nextId
        BY <1>1, <2>3, <2>4, <3>3 DEF RowsAt
      <3> QED BY <3>1, <3>2, <3>3
    <2>6. NoNearDuplicates'
      <3> SUFFICES ASSUME NEW i \in Used', NEW j \in Used', Current(rows'[i]), Current(rows'[j]),
                          rows'[i].kind = rows'[j].kind, NearKeys(rows'[i].key, rows'[j].key)
                   PROVE  i = j
        BY DEF NoNearDuplicates, Current
      <3>1. CASE i # nextId /\ j # nextId
        BY <2>3, <3>1 DEF OneInv, NoNearDuplicates
      <3>2. CASE i = nextId /\ j # nextId
        BY <1>1, <2>3, <2>4, <3>2
      <3>3. CASE i # nextId /\ j = nextId
        <4>1. NearKeys(rows'[j].key, rows'[i].key)
          BY NearIsMutual
        <4> QED BY <1>1, <2>3, <2>4, <3>3, <4>1
      <3> QED BY <3>1, <3>2, <3>3
    <2> QED BY <2>5, <2>6
  <1> QED BY <1>2, <1>3 DEF InsertRow
(* The innermost frame after it was changed. *)
LEMMA NewTop ==
  ASSUME StoreInv, NEW c \in Callers, stack[c] # <<>>, NEW f \in FrameT, stack' = SetTop(c, f)
  PROVE  Top(c)' = f
  <1>1. PICK s \in Seq(FrameT) : s = stack[c] /\ s # <<>>
    BY DEF StoreInv
  <1>2. PICK t : t = <<f>> \o Tail(s) /\ Head(t) = f
    BY <1>1, Replaced
  <1>3. stack'[c] = t
    BY <1>1, <1>2 DEF SetTop, StoreInv
  <1> QED BY <1>2, <1>3 DEF Top

(* What the lookups of memory_insert_ex found holds at the next statement. *)
LEMMA ReadKnows ==
  ASSUME StoreInv, NEW c \in Callers, OneInv(c), Gate(c) \/ Lookup(c) \/ Match(c) \/ Dedupe(c)
  PROVE  Knows(c)'
  <1>1. pc[c] \in {"gate", "lookup", "match", "dedupe"} /\ UNCHANGED rows
    BY DEF Gate, Lookup, Match, Dedupe, At
  <1>2. PICK f \in FrameT : f = Top(c) /\ stack[c] # <<>> /\ OnTop(f, pc[c])
    BY <1>1, TopType
  <1>3. \A l : Goto(c, l) => pc'[c] = l
    BY DEF Goto, StoreInv
  <1>4. ASSUME UNCHANGED stack PROVE Top(c)' = f
    BY <1>2, <1>4 DEF Top
  <1>5. ASSUME NEW l \in {"return", "get", "lookup"}, Goto(c, l) PROVE Knows(c)'
    BY <1>3, <1>5 DEF Knows
  <1>6. CASE Gate(c)
    <2>1. CASE Return(c, 1)
      BY <1>5, <2>1 DEF Return
    <2>2. CASE stack' = SetTop(c, Gated(f))
               /\ Goto(c, IF Versions(Gated(f)) THEN "lookup" ELSE "match")
      <3>1. Gated(f) \in FrameT
        BY <1>2, <1>6, GatedType DEF Gate, At
      <3>2. Top(c)' = Gated(f)
        BY <1>2, <2>2, <3>1, NewTop
      <3>3. CASE Versions(Gated(f))
        BY <1>5, <2>2, <3>3
      <3>4. CASE ~Versions(Gated(f))
        BY <1>3, <2>2, <3>2, <3>4 DEF Knows
      <3> QED BY <3>3, <3>4
    <2> QED BY <1>2, <1>6, <2>1, <2>2 DEF Gate
  <1>7. CASE Lookup(c)
    <2>1. ASSUME NEW i \in RowsAt(f.key), ~Supersedes(f, rows[i]), Goto(c, "match"), UNCHANGED stack
          PROVE  Knows(c)'
      <3>1. f.key.vers = <<>> => \A j \in RowsAt(f.key) : j = i
        BY DEF RowsAt, OneInv, CurrentUnique, Current
      <3>2. f.key.vers = <<>> => \A j \in RowsAt(f.key)' : ~Supersedes(f, rows'[j])
        BY <1>1, <2>1, <3>1 DEF RowsAt, Used
      <3> QED BY <1>3, <1>4, <2>1, <3>2 DEF Knows
    <2>2. CASE RowsAt(f.key) = {} /\ Goto(c, "match") /\ UNCHANGED stack
      <3>1. RowsAt(f.key)' = {}
        BY <1>1, <2>2 DEF RowsAt, Used
      <3> QED BY <1>3, <1>4, <2>2, <3>1 DEF Knows
    <2> QED BY <1>2, <1>5, <1>7, <2>1, <2>2 DEF Lookup, Push
  <1>8. ASSUME NEW i \in Used, rows[i].key.vers = f.key.vers, Goto(c, "merge"),
               stack' = SetTop(c, [f EXCEPT !.ex = i, !.exConf = rows[i].conf]),
               rows[i].key = f.key /\ Versions(f) /\ ~f.failed /\ f.key.vers = <<>>
                 => ~Supersedes(f, rows[i])
        PROVE  Knows(c)'
    <2>1. rows[i].conf \in 0 .. 10 /\ i \in Ids
      BY DEF StoreInv, RowsOK, Row, Used
    <2> DEFINE g == [f EXCEPT !.ex = i, !.exConf = rows[i].conf]
    <2>2. /\ g \in FrameT /\ g.ex = i /\ g.exConf = rows[i].conf /\ g.key = f.key
          /\ g.content = f.content /\ g.conf = f.conf /\ g.tier = f.tier /\ g.failed = f.failed
      BY <2>1 DEF FrameT
    <2> HIDE DEF g
    <2>3. Top(c)' = g
      BY <1>2, <1>8, <2>2, NewTop DEF g
    <2>4. (Versions(g) <=> Versions(f)) /\ (Supersedes(g, rows[i]) <=> Supersedes(f, rows[i]))
      BY <2>2 DEF Versions, Supersedes
    <2>5. g.ex \in Used' /\ rows'[g.ex] = rows[i]
      BY <1>1, <2>2 DEF Used
    <2> QED BY <1>3, <1>8, <2>2, <2>3, <2>4, <2>5 DEF Knows
  <1>9. CASE Match(c)
    <2>1. ASSUME NEW i \in RowsAt(f.key), Goto(c, "merge"),
                 stack' = SetTop(c, [f EXCEPT !.ex = i, !.exConf = rows[i].conf])
          PROVE  Knows(c)'
      <3>1. i \in Used /\ rows[i].key = f.key
        BY DEF RowsAt
      <3>2. Versions(f) /\ ~f.failed /\ f.key.vers = <<>> => ~Supersedes(f, rows[i])
        BY <1>2, <1>9 DEF OneInv, Knows, Match, At
      <3> QED BY <1>8, <2>1, <3>1, <3>2
    <2>2. CASE RowsAt(f.key) = {} /\ Goto(c, "dedupe") /\ UNCHANGED stack
      <3>1. RowsAt(f.key)' = {}
        BY <1>1, <2>2 DEF RowsAt, Used
      <3> QED BY <1>3, <1>4, <2>2, <3>1 DEF Knows
    <2> QED BY <1>2, <1>9, <2>1, <2>2 DEF Match
  <1>10. CASE Dedupe(c)
    <2> DEFINE near == {i \in Used : rows[i].kind = f.kind /\ NearKeys(f.key, rows[i].key)}
    <2>1. RowsAt(f.key) = {}
      BY <1>2, <1>10 DEF Dedupe, At, OneInv, Knows
    <2>2. ASSUME NEW i \in near, Goto(c, "merge"),
                 stack' = SetTop(c, [f EXCEPT !.ex = i, !.exConf = rows[i].conf])
          PROVE  Knows(c)'
      <3>1. i \in Used /\ rows[i].key.vers = f.key.vers /\ rows[i].key # f.key
        BY <2>1 DEF NearKeys, RowsAt
      <3> QED BY <1>8, <2>2, <3>1
    <2>3. CASE near = {} /\ Goto(c, "insert") /\ UNCHANGED stack
      <3>1. RowsAt(f.key)' = {}
            /\ \A i \in Used' : rows'[i].kind = f.kind => ~NearKeys(f.key, rows'[i].key)
        BY <1>1, <2>1, <2>3 DEF RowsAt, Used
      <3> QED BY <1>3, <1>4, <2>3, <3>1 DEF Knows
    <2> QED BY <1>2, <1>10, <2>2, <2>3 DEF Dedupe
  <1> QED BY <1>6, <1>7, <1>9, <1>10

(* After any other statement nothing has to be known: memory_insert_ex goes on
   after a failed memory_supersede with that failure noted. *)
LEMMA OtherKnows ==
  ASSUME StoreInv, NEW c \in Callers,
         \/ Call(c) \/ Merge(c) \/ InsertRow(c) \/ Maintain(c)
         \/ Supersede(c) \/ Fold(c) \/ Resume(c)
  PROVE  Knows(c)'
  <1>1. \A l, k : Goto(c, l) => pc'[c] = l
    BY DEF Goto, StoreInv
  <1>2. ASSUME pc'[c] \notin {"dedupe", "insert", "match", "merge"} PROVE Knows(c)'
    BY <1>2 DEF Knows
  <1>3. CASE Call(c)
    BY <1>1, <1>2, <1>3 DEF Call, CallInsert, CallSupersede, CallFold, Delete, UpdateContent,
                            Start, At, Push
  <1>4. CASE Merge(c) \/ InsertRow(c) \/ Maintain(c)
    BY <1>1, <1>2, <1>4 DEF Merge, InsertRow, Maintain, Return
  <1>5. CASE Supersede(c)
    BY <1>1, <1>2, <1>5 DEF Supersede, Get, Count, Rename, Link, Push, Return
  <1>6. CASE Fold(c)
    BY <1>1, <1>2, <1>6 DEF Fold, List, Purge, Push, Return
  <1>7. CASE Resume(c)
    <2>1. ASSUME Len(stack[c]) > 1, Goto(c, "match"),
                 stack' = [stack EXCEPT ![c] = <<[Head(Tail(stack[c])) EXCEPT !.failed = TRUE]>>
                                               \o Tail(Tail(stack[c]))]
          PROVE  Knows(c)'
      <3>1. PICK s \in Seq(FrameT) : s = Tail(stack[c]) /\ s # <<>>
        BY <1>7, <2>1, Waiting DEF Resume, At
      <3>2. PICK h \in FrameT : h = Head(s)
        BY <3>1, Popped
      <3> DEFINE g == [h EXCEPT !.failed = TRUE]
      <3>3. g \in FrameT /\ g.failed = TRUE
        BY DEF FrameT
      <3> HIDE DEF g
      <3>4. PICK t : t = <<g>> \o Tail(s) /\ Head(t) = g
        BY <3>1, <3>3, Replaced
      <3>5. stack'[c] = t
        BY <2>1, <3>1, <3>2, <3>4 DEF StoreInv, g
      <3>6. Top(c)'.failed
        BY <3>3, <3>4, <3>5 DEF Top
      <3> QED BY <1>1, <2>1, <3>6 DEF Knows
    <2> QED BY <1>1, <1>2, <1>7, <2>1 DEF Resume
  <1> QED BY <1>3, <1>4, <1>5, <1>6, <1>7

(* A step of the caller that is alone keeps what it knows, and the rows unique. *)
LEMMA MoveKeepsOneInv ==
  ASSUME StoreInv, NEW me \in Callers, OneInv(me), Moves(me)
  PROVE  OneInv(me)'
  <1>1. Knows(me)'
    BY ReadKnows, OtherKnows DEF Moves, Insert
  <1>2. CASE InsertRow(me)
    BY <1>1, <1>2, UniqueInserted DEF OneInv
  <1>3. CASE Kept
    BY <1>1, <1>3, UniqueKept DEF OneInv, Kept
  <1>4. CASE Merge(me) \/ UpdateContent(me)
    BY <1>1, <1>4, MergedRows, UniqueKept DEF OneInv
  <1> QED BY <1>2, <1>3, <1>4, RowCases DEF Moves

(* The merge of a caller that is alone, and an update of a row, in terms of what they
   do to the confidence of the row and to its content. *)
LEMMA MergeEffect ==
  ASSUME StoreInv, NEW c \in Callers, OneInv(c), Merge(c)
  PROVE  LET f == Top(c) IN
         /\ f \in FrameT /\ stack[c] # <<>> /\ pc[c] = "merge"
         /\ \A i \in Ids : i # f.ex => rows'[i] = rows[i]
         /\ rows'[f.ex] = rows[f.ex] \/ rows'[f.ex].conf >= rows[f.ex].conf
         /\ rows[f.ex] # NoRow /\ rows[f.ex].key.vers = f.key.vers
         /\ f.ex \in Ids
  <1>1. PICK f \in FrameT : f = Top(c) /\ stack[c] # <<>> /\ pc[c] = "merge"
    BY TopType DEF Merge, At
  <1>2. f.ex \in Used /\ rows[f.ex].conf = f.exConf /\ rows[f.ex].key.vers = f.key.vers
    BY <1>1 DEF OneInv, Knows
  <1>3. PICK r \in Row : r = rows[f.ex] /\ f.ex \in Ids /\ r # NoRow
    BY <1>2 DEF StoreInv, RowsOK, Used
  <1>4. ASSUME rows' = [rows EXCEPT ![f.ex].content = f.content, ![f.ex].conf = MergedConf(f)]
        PROVE  /\ \A i \in Ids : i # f.ex => rows'[i] = rows[i]
               /\ rows'[f.ex].conf >= rows[f.ex].conf
    <2>1. rows'[f.ex] = [r EXCEPT !.content = f.content, !.conf = MergedConf(f)]
          /\ \A i \in Ids : i # f.ex => rows'[i] = rows[i]
      BY <1>3, <1>4 DEF StoreInv, RowsOK
    <2>2. DOMAIN r = {"key", "tier", "kind", "content", "conf", "sess"}
      BY DEF Row
    <2>3. rows'[f.ex].conf = MergedConf(f)
      BY <2>1, <2>2
    <2>4. f.conf \in 0 .. 10 /\ f.exConf \in 0 .. 10
      BY DEF FrameT
    <2>5. MergedConf(f) >= f.exConf
      BY <2>4 DEF MergedConf
    <2> QED BY <1>2, <2>1, <2>3, <2>5
  <1>5. UNCHANGED rows \/ rows' = [rows EXCEPT ![f.ex].content = f.content, ![f.ex].conf = MergedConf(f)]
    BY <1>1 DEF Merge
  <1> QED BY <1>1, <1>2, <1>3, <1>4, <1>5

(* The writes of a caller that is alone lose nothing. *)
LEMMA MoveLosesNothing ==
  ASSUME StoreInv, NEW me \in Callers, OneInv(me), Moves(me)
  PROVE  LosesNothing
  <1> SUFFICES ASSUME NEW i \in Used, rows'[i] # NoRow
               PROVE  /\ rows'[i].conf >= rows[i].conf
                      /\ ~Current(rows[i]) => \/ rows'[i].content = rows[i].content
                                              \/ UpdateContent(me) \/ OnVersion(me)
    BY DEF LosesNothing
  <1>1. PICK r \in Row : r = rows[i] /\ i \in Ids /\ r.conf \in Nat
    BY DEF StoreInv, RowsOK, Used, Row
  <1>2. CASE Kept
    BY <1>1, <1>2 DEF Kept
  <1>3. CASE Merge(me)
    <2>1. PICK f : f = Top(me)
      OBVIOUS
    <2>2. CASE i # f.ex
      BY <1>1, <1>3, <2>1, <2>2, MergeEffect
    <2>3. CASE i = f.ex
      <3>1. rows'[i].conf >= rows[i].conf
        BY <1>1, <1>3, <2>1, <2>3, MergeEffect
      <3>2. ~Current(rows[i]) => OnVersion(me)
        BY <1>3, <2>1, <2>3, MergeEffect DEF Current, OnVersion
      <3> QED BY <3>1, <3>2
    <2> QED BY <2>2, <2>3
  <1>4. CASE InsertRow(me)
    <2>1. i # nextId
      BY <1>1 DEF StoreInv, RowsOK, Used
    <2>2. rows'[i] = rows[i]
      BY <1>1, <1>4, <2>1 DEF InsertRow, StoreInv, RowsOK
    <2> QED BY <1>1, <2>2
  <1>5. CASE UpdateContent(me)
    <2>1. PICK j \in Used, x \in Contents : rows' = [rows EXCEPT ![j].content = x]
      BY <1>5 DEF UpdateContent
    <2>2. DOMAIN r = {"key", "tier", "kind", "content", "conf", "sess"}
      BY DEF Row
    <2>3. [r EXCEPT !.content = x].conf = r.conf
      BY <2>2
    <2>4. rows'[i].conf = r.conf
      BY <1>1, <2>1, <2>3 DEF StoreInv, RowsOK
    <2> QED BY <1>1, <1>5, <2>4
  <1> QED BY <1>2, <1>3, <1>4, <1>5, RowCases DEF Moves

(* The others are between calls. *)
Alone(me) == \A c \in Callers \ {me} : pc[c] = "idle"

(* The caller that is alone does not merge a confident fact over another one. *)
LEMMA MoveKeepsHistory ==
  ASSUME StoreInv, NEW me \in Callers, OneInv(me), Alone(me)
  PROVE  HistoryStep
  <1> SUFFICES ASSUME Overwrites(me), Versions(Top(me)), ~Top(me).failed, ~OnVersion(me)
               PROVE  rows[Top(me).ex].key # Top(me).key
    BY DEF HistoryStep, Alone, Overwrites, At
  <1>1. pc[me] = "merge" /\ Supersedes(Top(me), rows[Top(me).ex])
    BY DEF Overwrites, At
  <1>2. Top(me).key.vers = <<>>
    BY <1>1, TopType DEF OnVersion
  <1> QED BY <1>1, <1>2 DEF OneInv, Knows
-----------------------------------------------------------------------------
(* The rows the near-duplicate search of a write finds. *)
Spellings(f) == {i \in Used : rows[i].kind = f.kind /\ NearKeys(f.key, rows[i].key)}

(* A memory_supersede of the current row of b has renamed it, and the write it
   waits for will put a row in its place, or come back with the failure or the
   downgrade noted. *)
Filling(c, b) ==
  /\ Len(stack[c]) > 1 /\ stack[c][2].fn = "supersede" /\ stack[c][2].key.base = b
  /\ pc[c] \in {"gate", "lookup", "match", "dedupe", "insert", "merge", "maintain", "return"}
  /\ pc[c] \in {"gate", "lookup", "match", "dedupe", "insert"} => Top(c).key = Key(b, <<>>)
  /\ pc[c] = "gate" => Spellings(Top(c)) = {}
  /\ pc[c] \in {"lookup", "match", "dedupe", "insert"} => Top(c).down \/ Spellings(Top(c)) = {}
  /\ pc[c] \in {"merge", "maintain"} => Top(c).down
  /\ pc[c] = "return" => Top(c).down \/ rc[c] # 0

(* A key that has a current row, or a reason to have none. *)
Covered(c, b) == b \in dropped \cup aborted \/ RowsAt(Key(b, <<>>)) # {} \/ Filling(c, b)

(* A call that has not written its row, and may: it writes one at most. *)
Writing(c) ==
  \/ pc[c] \in {"gate", "lookup", "match", "dedupe", "merge", "insert", "get", "count", "rename", "list"}
  \/ pc[c] = "return" /\ rc[c] # 0

(* So is the key of every version, and of every write under the key of a version;
   what memory_supersede has read of the row is still so when it renames it. *)
GapInv(c) ==
  /\ \A i \in Used : ~Current(rows[i]) => Covered(c, rows[i].key.base)
  /\ \A j \in 1 .. Len(stack[c]) : stack[c][j].key.vers # <<>> =>
       stack[c][j].key.base \in Keys /\ Covered(c, stack[c][j].key.base)
  /\ rc \in [Callers -> {0, 1}]
  /\ calls \in 0 .. MaxCalls /\ nextId <= calls + 1
  /\ Writing(c) => nextId <= calls
  /\ pc[c] \in {"count", "rename"} =>
       Top(c).ex \in Used /\ rows[Top(c).ex].key = Top(c).key /\ rows[Top(c).ex].kind = Top(c).kind

(* The frame below the innermost one. *)
LEMMA Second ==
  ASSUME NEW S, NEW s \in Seq(S), Len(s) > 1
  PROVE  Head(Tail(s)) = s[2]
  <1>1. s # <<>> /\ Len(s) \in Nat
    BY LenProperties, EmptySeq
  <1>2. PICK t \in Seq(S) : t = Tail(s) /\ Len(t) = Len(s) - 1 /\ \A j \in 1 .. Len(t) : t[j] = s[j + 1]
    BY <1>1, Popped
  <1>3. Len(t) \in Nat /\ Len(t) # 0
    BY <1>1, <1>2
  <1>4. t # <<>>
    BY <1>3, EmptySeq
  <1>5. Head(t) = t[1]
    BY <1>4, Popped
  <1> QED BY <1>2, <1>3, <1>5

(* The stack after the innermost frame was changed. *)
LEMMA NewStack ==
  ASSUME StoreInv, NEW c \in Callers, stack[c] # <<>>, NEW f \in FrameT, stack' = SetTop(c, f)
  PROVE  /\ Top(c)' = f /\ Len(stack'[c]) = Len(stack[c]) /\ stack'[c][1] = f
         /\ \A j \in 2 .. Len(stack[c]) : stack'[c][j] = stack[c][j]
         /\ Len(stack[c]) > 1 => stack'[c][2] = stack[c][2]
  <1>1. PICK s \in Seq(FrameT) : s = stack[c] /\ s # <<>>
    BY DEF StoreInv
  <1>6. PICK t : t = <<f>> \o Tail(s)
    OBVIOUS
  <1>2. /\ t \in Seq(FrameT) /\ Head(t) = f /\ Len(t) = Len(s) /\ t # <<>>
        /\ \A j \in 2 .. Len(t) : t[j] = s[j]
    BY <1>1, <1>6, Replaced
  <1>3. stack'[c] = t
    BY <1>1, <1>6 DEF SetTop, StoreInv
  <1>4. t[1] = f
    BY <1>2, Popped
  <1>5. Len(s) \in Nat
    BY LenProperties
  <1> QED BY <1>1, <1>2, <1>3, <1>4, <1>5 DEF Top

(* The first element of the stack is the innermost frame. *)
LEMMA TopIsFirst ==
  ASSUME StoreInv, NEW c \in Callers, pc[c] # "idle"
  PROVE  Top(c) = stack[c][1] /\ Len(stack[c]) \in Nat \ {0}
  BY TopType, Popped DEF StoreInv

(* The history variables only grow. *)
LEMMA HistoryGrows ==
  ASSUME NEW c \in Callers, Moves(c)
  PROVE  dropped \subseteq dropped' /\ aborted \subseteq aborted'
  <1>1. CASE Resume(c)
    BY <1>1 DEF Resume
  <1>2. CASE Call(c)
    BY <1>2 DEF Call, CallInsert, CallSupersede, CallFold, Delete, UpdateContent
  <1>3. CASE Insert(c)
    BY <1>3 DEF Insert, Gate, Lookup, Match, Dedupe, Merge, InsertRow, Maintain, Cycle
  <1>4. CASE Supersede(c) \/ Fold(c)
    BY <1>4 DEF Supersede, Fold, Get, Count, Rename, Link, List, Purge
  <1> QED BY <1>1, <1>2, <1>3, <1>4 DEF Moves

(* A row keeps its key, or is removed and its key noted, except when it is renamed. *)
LEMMA RowStays ==
  ASSUME StoreInv, NEW c \in Callers, Moves(c), ~Rename(c), NEW i \in Used
  PROVE  \/ i \in Used' /\ rows'[i].key = rows[i].key
         \/ i \notin Used' /\ (Current(rows[i]) => rows[i].key.base \in dropped')
  <1>1. i \in Ids /\ rows[i] # NoRow /\ rows[i] \in Row
    BY DEF Used, StoreInv, RowsOK
  <1>2. CASE UNCHANGED rows
    BY <1>1, <1>2 DEF Used
  <1>3. ASSUME dropped' = dropped \cup Dropped(rows'), rows'[i] # NoRow => rows'[i].key = rows[i].key
        PROVE  \/ i \in Used' /\ rows'[i].key = rows[i].key
               \/ i \notin Used' /\ (Current(rows[i]) => rows[i].key.base \in dropped')
    BY <1>1, <1>3 DEF Used, Dropped
  <1>4. CASE Maintain(c)
    <2>1. CASE Cycle
      <3>1. dropped' = dropped \cup Dropped(rows')
        BY <2>1 DEF Cycle
      <3> QED BY <1>1, <1>3, <1>4, <2>1, <3>1, CycleKeeps DEF Maintain
    <2> QED BY <1>2, <1>4, <2>1 DEF Maintain
  <1>5. CASE Purge(c)
    <2> DEFINE after == [j \in Ids |-> IF j \in SessionL0(Top(c).sess) THEN NoRow ELSE rows[j]]
    <2>1. CASE rows' = after /\ dropped' = dropped \cup Dropped(after)
      <3>1. rows'[i] # NoRow => rows'[i].key = rows[i].key
        BY <1>1, <2>1
      <3>2. dropped' = dropped \cup Dropped(rows')
        BY <2>1
      <3> QED BY <1>3, <3>1, <3>2
    <2> QED BY <1>2, <1>5, <2>1 DEF Purge
  <1>6. CASE Delete(c)
    <2>1. PICK j \in Used : rows' = [rows EXCEPT ![j] = NoRow] /\ dropped' = dropped \cup Dropped(rows')
      BY <1>6 DEF Delete
    <2>2. rows'[i] # NoRow => rows'[i].key = rows[i].key
      BY <1>1, <2>1 DEF StoreInv, RowsOK
    <2> QED BY <1>3, <2>1, <2>2
  <1>7. ASSUME NEW j, NEW x, NEW v, rows' = [rows EXCEPT ![j].content = x, ![j].conf = v] \/
                                    rows' = [rows EXCEPT ![j].content = x], j \in Used
        PROVE  i \in Used' /\ rows'[i].key = rows[i].key
    <2>1. CASE i # j
      <3>1. rows'[i] = rows[i]
        BY <1>1, <1>7, <2>1 DEF StoreInv, RowsOK
      <3> QED BY <1>1, <3>1 DEF Used
    <2>2. CASE i = j
      <3>1. PICK r \in Row : r = rows[i]
        BY <1>1
      <3>2. DOMAIN r = {"key", "tier", "kind", "content", "conf", "sess"}
        BY DEF Row
      <3>3. /\ [r EXCEPT !.content = x, !.conf = v].key = r.key
            /\ [r EXCEPT !.content = x].key = r.key
            /\ "key" \in DOMAIN [r EXCEPT !.content = x, !.conf = v]
            /\ "key" \in DOMAIN [r EXCEPT !.content = x]
        BY <3>2
      <3>4. "key" \notin DOMAIN NoRow
        BY DEF NoRow
      <3>5. rows'[i] \in {[r EXCEPT !.content = x, !.conf = v], [r EXCEPT !.content = x]}
        BY <1>1, <1>7, <2>2, <3>1 DEF StoreInv, RowsOK
      <3>6. rows'[i] # NoRow /\ rows'[i].key = r.key
        BY <3>3, <3>4, <3>5
      <3> QED BY <1>1, <3>1, <3>6 DEF Used
    <2> QED BY <2>1, <2>2
  <1>8. CASE Merge(c)
    <2>1. PICK f \in FrameT : f = Top(c) /\ OnTop(f, pc[c])
      BY <1>8, TopType DEF Merge, At
    <2>2. f.ex \in Ids
      BY <1>8, <2>1 DEF Merge, At, OnTop
    <2>3. CASE rows[f.ex] # NoRow
               /\ rows' = [rows EXCEPT ![f.ex].content = f.content, ![f.ex].conf = MergedConf(f)]
      BY <1>7, <2>2, <2>3 DEF Used
    <2> QED BY <1>2, <1>8, <2>1, <2>3 DEF Merge
  <1>9. CASE UpdateContent(c)
    <2>1. PICK j \in Used, x \in Contents : rows' = [rows EXCEPT ![j].content = x]
      BY <1>9 DEF UpdateContent
    <2> QED BY <1>7, <2>1
  <1>10. CASE InsertRow(c)
    <2>1. i # nextId
      BY <1>1 DEF StoreInv, RowsOK
    <2>2. rows'[i] = rows[i]
      BY <1>1, <1>10, <2>1 DEF InsertRow, StoreInv, RowsOK
    <2> QED BY <1>1, <2>2 DEF Used
  <1>11. Merge(c) \/ InsertRow(c) \/ UpdateContent(c) \/ Maintain(c) \/ Purge(c)
         \/ Delete(c) \/ UNCHANGED rows
    BY DEF Moves, Call, Insert, Supersede, Fold, CallInsert, CallSupersede, CallFold, Gate, Lookup,
           Match, Dedupe, Get, Count, Link, List, Resume
  <1> QED BY <1>2, <1>4, <1>5, <1>6, <1>8, <1>9, <1>10, <1>11

(* What a write under the current key b still has to find: it goes on. *)
LEMMA FillingReads ==
  ASSUME StoreInv, NEW c \in Callers, GapInv(c), NEW b \in Keys, RowsAt(Key(b, <<>>)) = {},
         Filling(c, b), Gate(c) \/ Lookup(c) \/ Match(c) \/ Dedupe(c)
  PROVE  Filling(c, b)'
  <1>1. pc[c] \in {"gate", "lookup", "match", "dedupe"} /\ UNCHANGED rows
    BY DEF Gate, Lookup, Match, Dedupe, At
  <1>2. PICK f \in FrameT : f = Top(c) /\ stack[c] # <<>> /\ OnTop(f, pc[c])
    BY <1>1, TopType
  <1>3. f.key = Key(b, <<>>) /\ ((f.down /\ pc[c] # "gate") \/ Spellings(f) = {})
    BY <1>1, <1>2 DEF Filling
  <1>4. \A l : Goto(c, l) => pc'[c] = l
    BY DEF Goto, StoreInv
  <1>5. \A n : Return(c, n) => pc'[c] = "return" /\ rc'[c] = n
    BY <1>4 DEF Return, StoreInv, GapInv
  <1>6. \A g : Spellings(g)' = Spellings(g)
    BY <1>1 DEF Spellings, Used
  <1>7. ASSUME UNCHANGED stack
        PROVE  Top(c)' = f /\ Len(stack'[c]) > 1 /\ stack'[c][2] = stack[c][2]
    BY <1>2, <1>7 DEF Top, Filling
  <1>8. ASSUME NEW g \in FrameT, stack' = SetTop(c, g)
        PROVE  Top(c)' = g /\ Len(stack'[c]) > 1 /\ stack'[c][2] = stack[c][2]
    BY <1>2, <1>8, NewStack DEF Filling
  <1>9. CASE Gate(c)
    <2>1. CASE Return(c, 1) /\ UNCHANGED stack
      BY <1>5, <1>7, <2>1 DEF Filling
    <2>2. CASE stack' = SetTop(c, Gated(f))
               /\ Goto(c, IF Versions(Gated(f)) THEN "lookup" ELSE "match")
      <3>1. pc[c] = "gate"
        BY <1>9 DEF Gate, At
      <3>2. PICK g : g = Gated(f)
        OBVIOUS
      <3>3. g \in FrameT
        BY <1>2, <3>1, <3>2, GatedType
      <3>4. g.key = f.key
        <4>1. DOMAIN f = {"fn", "tier", "kind", "key", "content", "conf", "sess", "down", "failed",
                          "ex", "exConf", "version"} /\ DOMAIN f.key = {"base", "vers"}
          BY DEF FrameT
        <4>2. f.key.base = b /\ f.key = [base |-> b, vers |-> <<>>]
          BY <1>3 DEF Key
        <4>3. (IF b \in RawKeys THEN Normalize[b] ELSE b) = b
          BY StoreAssumption
        <4>4. g.key = [f.key EXCEPT !.base = b]
          BY <3>2, <4>1, <4>2, <4>3 DEF Gated
        <4> QED BY <4>2, <4>4
      <3>5. g.down \/ g.kind = f.kind
        <4>1. g.down = (Verdict(f) = "downgrade")
              /\ g.kind = IF Verdict(f) = "downgrade" THEN "scratch" ELSE f.kind
          BY <3>2 DEF Gated, FrameT
        <4> QED BY <4>1
      <3>6. g.down \/ Spellings(g)' = {}
        BY <1>3, <1>6, <3>1, <3>4, <3>5 DEF Spellings
      <3>7. pc'[c] \in {"lookup", "match"}
        BY <1>4, <2>2
      <3>8. Top(c)' = g /\ Len(stack'[c]) > 1 /\ stack'[c][2] = stack[c][2]
        BY <1>8, <2>2, <3>2, <3>3
      <3> QED BY <1>3, <3>4, <3>6, <3>7, <3>8 DEF Filling
    <2> QED BY <1>2, <1>9, <2>1, <2>2 DEF Gate
  <1>10. ASSUME NEW l \in {"match", "dedupe", "insert"}, Goto(c, l), UNCHANGED stack,
                pc[c] # "gate"
         PROVE  Filling(c, b)'
    BY <1>3, <1>4, <1>6, <1>7, <1>10 DEF Filling
  <1>11. CASE Lookup(c)
    <2>1. Goto(c, "match") /\ UNCHANGED stack /\ pc[c] # "gate"
      BY <1>2, <1>3, <1>11 DEF Lookup, At
    <2> QED BY <1>10, <2>1
  <1>12. CASE Match(c)
    <2>1. Goto(c, "dedupe") /\ UNCHANGED stack /\ pc[c] # "gate"
      BY <1>2, <1>3, <1>12 DEF Match, At
    <2> QED BY <1>10, <2>1
  <1>13. CASE Dedupe(c)
    <2>1. pc[c] # "gate"
      BY <1>13 DEF Dedupe, At
    <2>2. CASE Goto(c, "insert") /\ UNCHANGED stack
      BY <1>10, <2>1, <2>2
    <2>3. ASSUME NEW i \in Spellings(f), Goto(c, "merge"),
                 stack' = SetTop(c, [f EXCEPT !.ex = i, !.exConf = rows[i].conf])
          PROVE  Filling(c, b)'
      <3>1. rows[i].conf \in 0 .. 10 /\ i \in Ids
        BY DEF StoreInv, RowsOK, Row, Used, Spellings
      <3>2. PICK g : g = [f EXCEPT !.ex = i, !.exConf = rows[i].conf]
        OBVIOUS
      <3>3. g \in FrameT /\ g.down = f.down
        BY <3>1, <3>2 DEF FrameT
      <3>4. Top(c)' = g /\ Len(stack'[c]) > 1 /\ stack'[c][2] = stack[c][2]
        BY <1>8, <2>3, <3>2, <3>3
      <3>5. f.down
        BY <1>3, <2>3
      <3> QED BY <1>4, <2>3, <3>3, <3>4, <3>5 DEF Filling
    <2> QED BY <1>2, <1>13, <2>2, <2>3 DEF Dedupe, Spellings
  <1> QED BY <1>9, <1>11, <1>12, <1>13

(* A row is put in the place of the one that was renamed, or the failure or the
   downgrade is noted. *)
LEMMA FillingEnds ==
  ASSUME StoreInv, NEW c \in Callers, GapInv(c), NEW b \in Keys, RowsAt(Key(b, <<>>)) = {},
         Filling(c, b), Moves(c)
  PROVE  Covered(c, b)'
  <1>1. pc[c] \in {"gate", "lookup", "match", "dedupe", "insert", "merge", "maintain", "return"}
    BY DEF Filling
  <1>2. PICK f \in FrameT : f = Top(c) /\ stack[c] # <<>> /\ OnTop(f, pc[c])
    BY <1>1, TopType
  <1>4. \A l : Goto(c, l) => pc'[c] = l
    BY DEF Goto, StoreInv
  <1>5. \A n : Return(c, n) => pc'[c] = "return" /\ rc'[c] = n
    BY <1>4 DEF Return, StoreInv, GapInv
  <1>7. ASSUME UNCHANGED stack
        PROVE  Top(c)' = f /\ Len(stack'[c]) > 1 /\ stack'[c][2] = stack[c][2]
    BY <1>2, <1>7 DEF Top, Filling
  <1>8. CASE Gate(c) \/ Lookup(c) \/ Match(c) \/ Dedupe(c)
    BY <1>8, FillingReads DEF Covered
  <1>9. CASE Merge(c)
    <2>1. f.down /\ UNCHANGED stack
      BY <1>2, <1>9 DEF Merge, At, Filling
    <2>2. Goto(c, "maintain") \/ Return(c, 1)
      BY <1>9 DEF Merge
    <2> QED BY <1>4, <1>5, <1>7, <2>1, <2>2 DEF Filling, Covered
  <1>10. CASE Maintain(c)
    <2>1. f.down /\ UNCHANGED stack /\ Return(c, 0)
      BY <1>2, <1>10 DEF Maintain, At, Filling
    <2> QED BY <1>5, <1>7, <2>1 DEF Filling, Covered
  <1>11. CASE InsertRow(c)
    <2>1. CASE Return(c, 1) /\ UNCHANGED stack
      BY <1>5, <1>7, <2>1 DEF Filling, Covered
    <2>2. PICK q : q = [key |-> f.key, tier |-> f.tier, kind |-> f.kind, content |-> f.content,
                        conf |-> f.conf, sess |-> f.sess]
      OBVIOUS
    <2>3. CASE rows' = [rows EXCEPT ![nextId] = q] /\ nextId' = nextId + 1
      <3>1. f.key = Key(b, <<>>) /\ Ready(f)
        BY <1>2, <1>11 DEF InsertRow, At, Filling, OnTop
      <3>2. q \in Row /\ q.key = f.key
        BY <2>2, <3>1 DEF Ready, FrameT, Row
      <3>3. q # NoRow
        BY <3>2, RowIsNotNone
      <3>4. nextId \in Ids
        BY <1>11, StoreAssumption DEF InsertRow, At, GapInv, Writing, StoreInv, RowsOK, Ids
      <3>5. nextId \in RowsAt(Key(b, <<>>))'
        BY <2>3, <3>1, <3>2, <3>3, <3>4 DEF RowsAt, Used, StoreInv, RowsOK
      <3> QED BY <3>5 DEF Covered
    <2> QED BY <1>2, <1>11, <2>1, <2>2, <2>3 DEF InsertRow
  <1>12. CASE Resume(c)
    <2>1. stack[c] \in Seq(FrameT) /\ Len(stack[c]) > 1
      BY DEF StoreInv, Filling
    <2>2. Caller(c).fn = "supersede" /\ Caller(c).key.base = b
      BY <2>1, Second DEF Filling, Caller
    <2>3. f.down \/ rc[c] # 0
      BY <1>2, <1>12 DEF Resume, At, Filling
    <2>6. Len(stack[c]) # 1 /\ Caller(c).fn # "insert" /\ Caller(c).fn # "fold"
      <3>1. PICK s \in Seq(FrameT) : s = stack[c]
        BY <2>1
      <3>2. Len(s) \in Nat
        BY LenProperties
      <3>4. Len(s) > 1
        BY <2>1, <3>1, Zenon
      <3>5. \A n \in Nat : n > 1 => n # 1
        OBVIOUS
      <3>3. Len(s) # 1
        BY <3>2, <3>4, <3>5, Zenon
      <3> QED BY <2>2, <3>1, <3>3
    <2>4. CASE rc[c] # 0
      <3>1. aborted' = aborted \cup {Caller(c).key.base}
        BY <1>12, <2>4, <2>6, Zenon DEF Resume
      <3> QED BY <2>2, <3>1 DEF Covered
    <2>5. CASE rc[c] = 0
      <3>1. aborted' = IF Top(c).down THEN aborted \cup {Caller(c).key.base} ELSE aborted
        BY <1>12, <2>5, <2>6, Zenon DEF Resume
      <3>2. Top(c).down
        BY <1>2, <2>3, <2>5
      <3> QED BY <2>2, <3>1, <3>2 DEF Covered
    <2> QED BY <2>4, <2>5
  <1> QED BY <1>1, <1>8, <1>9, <1>10, <1>11, <1>12
      DEF Moves, Call, CallInsert, CallSupersede, CallFold, Delete, UpdateContent, Start, At,
          Insert, Supersede, Get, Count, Rename, Link, Fold, List, Purge

(* The rename puts a row aside and starts the write that takes its place. *)
LEMMA RenameFills ==
  ASSUME StoreInv, NEW me \in Callers, OneInv(me), GapInv(me), Rename(me), NEW b \in Keys,
         RowsAt(Key(b, <<>>)) # {}
  PROVE  Covered(me, b)'
  <1>1. PICK f \in FrameT : f = Top(me) /\ stack[me] # <<>> /\ OnTop(f, "rename")
    BY TopType DEF Rename, At
  <1>2. f.ex \in Used /\ rows[f.ex].key = f.key /\ rows[f.ex].kind = f.kind
    BY <1>1 DEF Rename, At, GapInv
  <1>3. PICK i \in Used : rows[i].key = Key(b, <<>>)
    BY DEF RowsAt
  <1>4. CASE UNCHANGED rows
    BY <1>3, <1>4 DEF Covered, RowsAt, Used
  <1>5. ASSUME rows' = IF rows[f.ex] = NoRow THEN rows
                       ELSE [rows EXCEPT ![f.ex].key = VersionedKey(f.key, f.version)],
               Push(me, Frame("insert", f.tier, f.kind, f.key, f.content, f.conf, f.sess), "gate")
        PROVE  Covered(me, b)'
    <2>1. /\ rows[f.ex] # NoRow => rows'[f.ex] # NoRow /\ ~Current(rows'[f.ex])
                                  /\ rows'[f.ex].key.base = f.key.base
          /\ \A j \in Ids \ {f.ex} : rows'[j] = rows[j]
      BY <1>1, <1>5, RenameKeeps DEF Rename
    <2>2. CASE i # f.ex
      <3>1. i \in RowsAt(Key(b, <<>>))'
        BY <1>3, <2>1, <2>2 DEF RowsAt, Used
      <3> QED BY <3>1 DEF Covered
    <2>3. CASE i = f.ex
      <3>1. PICK g : g = Frame("insert", f.tier, f.kind, f.key, f.content, f.conf, f.sess)
        OBVIOUS
      <3>2. /\ g.key = Key(b, <<>>) /\ g.kind = f.kind /\ f.key.base = b /\ f.key.vers = <<>>
            /\ f.fn = "supersede" /\ g.key = f.key
        BY <1>1, <1>2, <1>3, <2>3, <3>1 DEF Frame, Key, OnTop
      <3>3. PICK s \in Seq(FrameT) : s = stack[me] /\ s # <<>> /\ Head(s) = f
        BY <1>1 DEF StoreInv, Top
      <3>4. PICK t : t = <<g>> \o s
        OBVIOUS
      <3>5. g \in FrameT
        <4>1. /\ f.key = Key(f.key.base, f.key.vers) /\ f.key.base \in RawKeys \cup Keys \cup {""}
              /\ f.key.vers \in Seq(Nat \ {0}) /\ f.tier \in Tiers \cup {""}
              /\ f.kind \in Kinds \cup {""} /\ f.conf \in 0 .. 10 /\ f.content \in Texts
              /\ f.sess \in Sessions /\ NoId \in Ids \cup {NoId}
          BY DEF FrameT, Key
        <4>2. Frame("insert", f.tier, f.kind, Key(f.key.base, f.key.vers), f.content, f.conf,
                    f.sess) \in FrameT
          BY <4>1, FrameType
        <4> QED BY <3>1, <4>1, <4>2
      <3>6. /\ t \in Seq(FrameT) /\ Head(t) = g /\ Len(t) = Len(s) + 1
            /\ \A j \in 2 .. Len(t) : t[j] = s[j - 1]
        BY <3>4, <3>5, Pushed
      <3>7. s[1] = f /\ Len(s) \in Nat \ {0}
        BY <3>3, Popped
      <3>8. Len(t) > 1 /\ t[2] = f
        BY <3>6, <3>7
      <3>9. stack'[me] = t /\ pc'[me] = "gate"
        BY <1>5, <3>1, <3>3, <3>4 DEF Push, Goto, StoreInv
      <3>10. Spellings(g)' = {}
        <4> SUFFICES ASSUME NEW j \in Used', rows'[j].kind = f.kind, NearKeys(g.key, rows'[j].key)
                     PROVE  FALSE
          BY <3>2 DEF Spellings
        <4>1. rows'[j].key.vers = <<>>
          BY <3>2 DEF NearKeys, Key
        <4>2. j # f.ex
          BY <1>2, <2>1, <4>1 DEF Current, Used
        <4>3. j \in Used /\ rows[j] = rows'[j]
          BY <2>1, <4>2 DEF Used
        <4>4. Current(rows[j]) /\ Current(rows[f.ex]) /\ NearKeys(rows[f.ex].key, rows[j].key)
          BY <1>2, <3>2, <4>1, <4>3 DEF Current
        <4>5. rows[f.ex].kind = rows[j].kind
          BY <1>2, <4>3
        <4> QED BY <1>2, <4>2, <4>3, <4>4, <4>5 DEF OneInv, NoNearDuplicates
      <3>11. Filling(me, b)'
        BY <3>2, <3>6, <3>8, <3>9, <3>10 DEF Filling, Top
      <3> QED BY <3>11 DEF Covered
    <2> QED BY <2>2, <2>3
  <1> QED BY <1>1, <1>4, <1>5 DEF Rename

(* A key stays covered. *)
LEMMA CoveredStays ==
  ASSUME StoreInv, NEW me \in Callers, OneInv(me), GapInv(me), Moves(me), NEW b \in Keys,
         Covered(me, b)
  PROVE  Covered(me, b)'
  <1>1. CASE b \in dropped \cup aborted
    BY <1>1, HistoryGrows DEF Covered
  <1>2. CASE RowsAt(Key(b, <<>>)) # {} /\ ~Rename(me)
    <2>1. PICK i \in Used : rows[i].key = Key(b, <<>>)
      BY <1>2 DEF RowsAt
    <2>2. Current(rows[i]) /\ rows[i].key.base = b
      BY <2>1 DEF Current, Key
    <2>3. CASE i \in Used' /\ rows'[i].key = rows[i].key
      <3>1. i \in RowsAt(Key(b, <<>>))'
        BY <2>1, <2>3 DEF RowsAt
      <3> QED BY <3>1 DEF Covered
    <2>4. CASE b \in dropped'
      BY <2>4 DEF Covered
    <2> QED BY <1>2, <2>2, <2>3, <2>4, RowStays
  <1> QED BY <1>1, <1>2, RenameFills, FillingEnds DEF Covered

(* The innermost frame carries a key that is covered, if it is a version's. *)
LEMMA TopCovered ==
  ASSUME StoreInv, NEW c \in Callers, GapInv(c), stack[c] # <<>>, Top(c).key.vers # <<>>
  PROVE  Top(c).key.base \in Keys /\ Covered(c, Top(c).key.base)
  <1>1. PICK s \in Seq(FrameT) : s = stack[c] /\ s # <<>>
    BY DEF StoreInv
  <1>2. Head(s) = s[1] /\ Len(s) \in Nat \ {0}
    BY <1>1, Popped
  <1>3. 1 \in 1 .. Len(s)
    BY <1>2
  <1> QED BY <1>1, <1>2, <1>3 DEF GapInv, Top

(* Every version is of a key that was covered before the step. *)
LEMMA VersionsCovered ==
  ASSUME StoreInv, NEW c \in Callers, GapInv(c), Moves(c), NEW i \in Used', ~Current(rows'[i])
  PROVE  rows'[i].key.base \in Keys /\ Covered(c, rows'[i].key.base)
  <1>1. ASSUME i \in Used, rows'[i].key = rows[i].key
        PROVE  rows'[i].key.base \in Keys /\ Covered(c, rows'[i].key.base)
    <2>1. rows[i] \in Row
      BY <1>1 DEF StoreInv, RowsOK, Used
    <2>2. ~Current(rows[i]) /\ rows[i].key.base \in Keys
      BY <1>1, <2>1 DEF Current, Row
    <2> QED BY <1>1, <2>2 DEF GapInv
  <1>2. CASE Rename(c)
    <2>1. PICK f \in FrameT : f = Top(c) /\ stack[c] # <<>> /\ OnTop(f, "rename")
      BY <1>2, TopType DEF Rename, At
    <2>2. f.ex \in Used /\ rows[f.ex].key = f.key /\ f.key.base \in Keys
      BY <1>2, <2>1 DEF Rename, At, GapInv, OnTop, Ready
    <2>3. CASE UNCHANGED rows
      BY <1>1, <2>3 DEF Used
    <2>4. CASE rows' = IF rows[f.ex] = NoRow THEN rows
                       ELSE [rows EXCEPT ![f.ex].key = VersionedKey(f.key, f.version)]
      <3>1. /\ rows[f.ex] # NoRow => rows'[f.ex].key.base = f.key.base
            /\ \A j \in Ids \ {f.ex} : rows'[j] = rows[j]
        BY <1>2, <2>1, <2>4, RenameKeeps DEF Rename
      <3>2. CASE i # f.ex
        BY <1>1, <3>1, <3>2 DEF Used
      <3>3. CASE i = f.ex
        <4>1. rows'[i].key.base = f.key.base
          BY <2>2, <3>1, <3>3 DEF Used
        <4>2. CASE Current(rows[f.ex])
          <5>1. f.key = Key(f.key.base, <<>>)
            BY <2>2, <4>2 DEF Current, FrameT, Key
          <5>2. f.ex \in RowsAt(Key(f.key.base, <<>>))
            BY <2>2, <5>1 DEF RowsAt
          <5> QED BY <2>2, <4>1, <5>2 DEF Covered
        <4>3. CASE ~Current(rows[f.ex])
          BY <2>2, <4>1, <4>3 DEF GapInv
        <4> QED BY <4>2, <4>3
      <3> QED BY <3>2, <3>3
    <2> QED BY <1>2, <2>1, <2>3, <2>4 DEF Rename
  <1>3. CASE i \in Used /\ ~Rename(c)
    BY <1>1, <1>3, RowStays
  <1>4. CASE i \notin Used
    <2>1. InsertRow(c)
      <3>1. i \in Ids /\ rows'[i] # NoRow /\ rows[i] = NoRow
        BY <1>4 DEF Used
      <3>2. ~Kept /\ ~Merge(c) /\ ~UpdateContent(c)
        BY <3>1, MergedRows DEF Kept
      <3> QED BY <3>2, RowCases DEF Moves
    <2>2. PICK f \in FrameT : f = Top(c) /\ stack[c] # <<>>
      BY <2>1, TopType DEF InsertRow, At
    <2>3. PICK q : q = [key |-> f.key, tier |-> f.tier, kind |-> f.kind, content |-> f.content,
                        conf |-> f.conf, sess |-> f.sess]
      OBVIOUS
    <2>4. CASE UNCHANGED rows
      BY <1>4, <2>4 DEF Used
    <2>5. CASE rows' = [rows EXCEPT ![nextId] = q]
      <3>1. i = nextId
        BY <1>4, <2>5 DEF Used, StoreInv, RowsOK
      <3>2. rows'[i] = q /\ q.key = f.key
        BY <2>3, <2>5, <3>1 DEF Used, StoreInv, RowsOK
      <3> QED BY <2>2, <3>2, TopCovered DEF Current
    <2> QED BY <2>1, <2>2, <2>3, <2>4, <2>5 DEF InsertRow
  <1> QED BY <1>2, <1>3, <1>4

(* A step starts a call, or inserts the one row of its call, or does neither. *)
LEMMA WritesOnce ==
  ASSUME StoreInv, rc \in [Callers -> {0, 1}], NEW c \in Callers, Moves(c)
  PROVE  /\ rc' \in [Callers -> {0, 1}]
         /\ \/ UNCHANGED <<nextId, calls>> /\ (Writing(c)' => Writing(c))
            \/ calls' = calls /\ nextId' = nextId + 1 /\ Writing(c) /\ ~Writing(c)'
            \/ calls < MaxCalls /\ calls' = calls + 1 /\ nextId' = nextId /\ ~Writing(c)
  <1> DEFINE Goal ==
        /\ rc' \in [Callers -> {0, 1}]
        /\ \/ UNCHANGED <<nextId, calls>> /\ (Writing(c)' => Writing(c))
           \/ calls' = calls /\ nextId' = nextId + 1 /\ Writing(c) /\ ~Writing(c)'
           \/ calls < MaxCalls /\ calls' = calls + 1 /\ nextId' = nextId /\ ~Writing(c)
  <1>1. \A l : Goto(c, l) => pc'[c] = l
    BY DEF Goto, StoreInv
  <1>2. \A n \in {0, 1} : Return(c, n) =>
          rc' \in [Callers -> {0, 1}] /\ pc'[c] = "return" /\ rc'[c] = n
    BY <1>1 DEF Return
  <1>3. CASE Call(c)
    <2>1. calls' = calls + 1 /\ calls < MaxCalls /\ UNCHANGED <<nextId, rc>> /\ pc[c] = "idle"
      BY <1>3 DEF Call, CallInsert, CallSupersede, CallFold, Delete, UpdateContent, Start, At
    <2> QED BY <2>1 DEF Writing
  <1>4. CASE InsertRow(c)
    <2>1. Writing(c) /\ UNCHANGED calls
      BY <1>4 DEF InsertRow, At, Writing
    <2>2. CASE nextId' = nextId + 1 /\ Goto(c, "maintain") /\ UNCHANGED rc
      <3>1. ~Writing(c)'
        BY <1>1, <2>2 DEF Writing
      <3> QED BY <2>1, <2>2, <3>1
    <2>3. CASE Return(c, 1) /\ UNCHANGED nextId
      BY <1>2, <2>1, <2>3
    <2> QED BY <1>4, <2>2, <2>3 DEF InsertRow
  <1>5. CASE Gate(c) \/ Lookup(c) \/ Match(c) \/ Dedupe(c) \/ Merge(c)
    <2>1. UNCHANGED <<nextId, calls>> /\ Writing(c)
      BY <1>5 DEF Gate, Lookup, Match, Dedupe, Merge, At, Writing
    <2>2. UNCHANGED rc \/ Return(c, 1)
      BY <1>5 DEF Gate, Lookup, Match, Dedupe, Merge
    <2> QED BY <1>2, <2>1, <2>2
  <1>6. CASE Get(c) \/ Count(c) \/ Rename(c)
    <2>1. UNCHANGED <<nextId, calls>> /\ Writing(c)
      BY <1>6 DEF Get, Count, Rename, At, Writing
    <2>2. UNCHANGED rc \/ Return(c, 1)
      BY <1>6 DEF Get, Count, Rename
    <2> QED BY <1>2, <2>1, <2>2
  <1>7. CASE Link(c) \/ Purge(c) \/ Maintain(c)
    <2>1. UNCHANGED <<nextId, calls>> /\ Return(c, 0)
      BY <1>7 DEF Link, Purge, Maintain
    <2>2. ~Writing(c)' /\ rc' \in [Callers -> {0, 1}]
      BY <1>2, <2>1 DEF Writing
    <2> QED BY <2>1, <2>2
  <1>8. CASE List(c)
    <2>1. UNCHANGED <<nextId, calls>> /\ Writing(c)
      BY <1>8 DEF List, At, Writing
    <2>2. UNCHANGED rc \/ Return(c, 0)
      BY <1>8 DEF List
    <2> QED BY <1>2, <2>1, <2>2
  <1>9. CASE Resume(c)
    <2>1. UNCHANGED <<nextId, calls, rc>> /\ pc[c] = "return"
      BY <1>9 DEF Resume, At
    <2>2. CASE rc[c] # 0
      <3>1. Writing(c)
        BY <2>1, <2>2 DEF Writing
      <3> QED BY <2>1, <3>1
    <2>3. CASE rc[c] = 0
      <3>1. \/ Goto(c, "idle") \/ Goto(c, "link") \/ Goto(c, "purge") \/ Goto(c, "return")
        BY <1>9, <2>3 DEF Resume
      <3>2. ~Writing(c)'
        BY <1>1, <2>1, <2>3, <3>1 DEF Writing
      <3> QED BY <2>1, <3>2
    <2> QED BY <2>2, <2>3
  <1> QED BY <1>3, <1>4, <1>5, <1>6, <1>7, <1>8, <1>9 DEF Moves, Insert, Supersede, Fold

(* So the table has room for the row of a call that is alone. *)
LEMMA RoomStays ==
  ASSUME StoreInv, NEW c \in Callers, GapInv(c), Moves(c)
  PROVE  /\ rc' \in [Callers -> {0, 1}]
         /\ calls' \in 0 .. MaxCalls /\ nextId' <= calls' + 1
         /\ Writing(c)' => nextId' <= calls'
  <1>1. nextId \in Nat /\ calls \in Nat /\ calls <= MaxCalls /\ MaxCalls \in Nat
        /\ nextId <= calls + 1 /\ (Writing(c) => nextId <= calls)
    BY StoreAssumption DEF StoreInv, RowsOK, GapInv
  <1>2. rc \in [Callers -> {0, 1}]
    BY DEF GapInv
  <1>3. PICK w, v \in BOOLEAN : w = Writing(c) /\ v = Writing(c)'
    BY DEF Writing
  <1>4. \/ UNCHANGED <<nextId, calls>> /\ (v => w)
        \/ calls' = calls /\ nextId' = nextId + 1 /\ w /\ ~v
        \/ calls < MaxCalls /\ calls' = calls + 1 /\ nextId' = nextId
    BY <1>2, <1>3, WritesOnce
  <1>5. calls' \in 0 .. MaxCalls /\ nextId' <= calls' + 1 /\ (v => nextId' <= calls')
    BY <1>1, <1>3, <1>4
  <1> QED BY <1>2, <1>3, <1>5, WritesOnce

(* memory_supersede renames its row under the key it read of it. *)
LEMMA RowKnown ==
  ASSUME StoreInv, NEW c \in Callers, GapInv(c), Moves(c), pc'[c] \in {"count", "rename"}
  PROVE  LET f == Top(c)'
         IN  f.ex \in Used' /\ rows'[f.ex].key = f.key /\ rows'[f.ex].kind = f.kind
  <1>1. \A l : Goto(c, l) => pc'[c] = l
    BY DEF Goto, StoreInv
  <1>2. CASE Get(c)
    <2>1. PICK f \in FrameT : f = Top(c) /\ stack[c] # <<>> /\ OnTop(f, "get")
      BY <1>2, TopType DEF Get, At
    <2>2. ~Return(c, 1) /\ UNCHANGED rows
      BY <1>1, <1>2 DEF Return, Get
    <2>3. PICK r : r = rows[f.ex]
      OBVIOUS
    <2>4. r # NoRow /\ stack' = SetTop(c, [f EXCEPT !.key = r.key, !.tier = r.tier, !.kind = r.kind])
      BY <1>2, <2>1, <2>2, <2>3 DEF Get
    <2>5. f.ex \in Ids /\ r \in Row
      BY <2>1, <2>3, <2>4 DEF OnTop, StoreInv, RowsOK
    <2>6. PICK g : g = [f EXCEPT !.key = r.key, !.tier = r.tier, !.kind = r.kind]
      OBVIOUS
    <2>7. g \in FrameT /\ g.ex = f.ex /\ g.key = r.key /\ g.kind = r.kind
      BY <2>5, <2>6 DEF FrameT, Row
    <2>8. Top(c)' = g
      BY <2>1, <2>4, <2>6, <2>7, NewStack
    <2> QED BY <2>2, <2>3, <2>4, <2>5, <2>7, <2>8 DEF Used
  <1>3. CASE Count(c)
    <2>1. PICK f \in FrameT : f = Top(c) /\ stack[c] # <<>>
      BY <1>3, TopType DEF Count, At
    <2>2. f.ex \in Used /\ rows[f.ex].key = f.key /\ rows[f.ex].kind = f.kind
      BY <1>3, <2>1 DEF Count, At, GapInv
    <2>3. PICK n : n = Cardinality(VersionsOf(f.key)) + 1
      OBVIOUS
    <2>4. PICK g : g = [f EXCEPT !.version = n]
      OBVIOUS
    <2>5. n \in Nat
      <3>1. IsFiniteSet(Ids)
        BY FS_Interval, StoreAssumption DEF Ids
      <3>2. VersionsOf(f.key) \subseteq Ids
        BY DEF VersionsOf, Used
      <3>3. Cardinality(VersionsOf(f.key)) \in Nat
        BY <3>1, <3>2, FS_Subset, FS_CardinalityType
      <3> QED BY <2>3, <3>3
    <2>6. g \in FrameT /\ g.ex = f.ex /\ g.key = f.key /\ g.kind = f.kind
      BY <2>4, <2>5 DEF FrameT
    <2>7. stack' = SetTop(c, g) /\ UNCHANGED rows
      BY <1>3, <2>1, <2>3, <2>4 DEF Count
    <2>8. Top(c)' = g
      BY <2>1, <2>6, <2>7, NewStack
    <2> QED BY <2>2, <2>6, <2>7, <2>8 DEF Used
  <1>4. CASE Call(c)
    <2>1. pc'[c] \in {"gate", "get", "list", "idle"}
      BY <1>1, <1>4 DEF Call, CallInsert, CallSupersede, CallFold, Delete, UpdateContent, Start, At, Push
    <2> QED BY <2>1
  <1>5. CASE Insert(c)
    <2>1. pc'[c] \in {"lookup", "match", "dedupe", "insert", "merge", "maintain", "get", "return"}
      BY <1>1, <1>5 DEF Insert, Gate, Lookup, Match, Dedupe, Merge, InsertRow, Maintain, Push, Return
    <2> QED BY <2>1
  <1>6. CASE Rename(c) \/ Link(c) \/ Fold(c) \/ Resume(c)
    <2>1. pc'[c] \in {"gate", "return", "idle", "link", "match", "purge"}
      BY <1>1, <1>6 DEF Rename, Link, Fold, List, Purge, Resume, Push, Return
    <2> QED BY <2>1
  <1> QED BY <1>2, <1>3, <1>4, <1>5, <1>6 DEF Moves, Supersede

(* A key that may be written: if it is a version's, it is covered. *)
Sound(c, k) == k.vers # <<>> => k.base \in Keys /\ Covered(c, k.base)

(* So are the frames of a caller after a call. *)
LEMMA FramesSoundPush ==
  ASSUME StoreInv, NEW c \in Callers, GapInv(c), NEW f \in FrameT, NEW l, Push(c, f, l),
         Sound(c, f.key)
  PROVE  \A j \in 1 .. Len(stack'[c]) : Sound(c, stack'[c][j].key)
  <1>1. PICK s \in Seq(FrameT) : s = stack[c]
    BY DEF StoreInv
  <1>2. PICK t : t = <<f>> \o s
    OBVIOUS
  <1>3. /\ t \in Seq(FrameT) /\ t # <<>> /\ Head(t) = f /\ Len(t) = Len(s) + 1
        /\ \A j \in 2 .. Len(t) : t[j] = s[j - 1]
    BY <1>1, <1>2, Pushed
  <1>4. t[1] = f /\ Len(s) \in Nat
    BY <1>3, Popped, LenProperties
  <1>5. stack'[c] = t
    BY <1>1, <1>2 DEF Push, StoreInv
  <1>6. \A j \in 1 .. Len(s) : Sound(c, s[j].key)
    BY <1>1 DEF GapInv, Sound
  <1>7. ASSUME NEW j \in 1 .. Len(t) PROVE Sound(c, t[j].key)
    <2>1. CASE j = 1
      BY <1>4, <2>1
    <2>2. CASE j # 1
      <3>1. j \in 2 .. Len(t) /\ j - 1 \in 1 .. Len(s)
        BY <1>3, <1>4, <2>2
      <3> QED BY <1>3, <1>6, <3>1
    <2> QED BY <2>1, <2>2
  <1> QED BY <1>5, <1>7

(* So are they after a change of the innermost frame. *)
LEMMA FramesSoundTop ==
  ASSUME StoreInv, NEW c \in Callers, GapInv(c), stack[c] # <<>>, NEW f \in FrameT,
         stack' = SetTop(c, f), Sound(c, f.key)
  PROVE  \A j \in 1 .. Len(stack'[c]) : Sound(c, stack'[c][j].key)
  <1>1. PICK s \in Seq(FrameT) : s = stack[c]
    BY DEF StoreInv
  <1>2. Len(s) \in Nat
    BY LenProperties
  <1>3. \A j \in 1 .. Len(s) : Sound(c, s[j].key)
    BY <1>1 DEF GapInv, Sound
  <1>4. PICK t : t = stack'[c]
    OBVIOUS
  <1>5. Len(t) = Len(s) /\ t[1] = f /\ \A j \in 2 .. Len(s) : t[j] = s[j]
    BY <1>1, <1>4, NewStack
  <1>6. ASSUME NEW j \in 1 .. Len(t) PROVE Sound(c, t[j].key)
    <2>1. CASE j = 1
      BY <1>5, <2>1
    <2>2. CASE j # 1
      <3>1. j \in 2 .. Len(s)
        BY <1>2, <1>5, <2>2
      <3> QED BY <1>3, <1>5, <3>1
    <2> QED BY <2>1, <2>2
  <1> QED BY <1>4, <1>6

(* So are they after a return (Resume). *)
LEMMA FramesSoundPop ==
  ASSUME StoreInv, NEW c \in Callers, GapInv(c), Resume(c)
  PROVE  \A j \in 1 .. Len(stack'[c]) : Sound(c, stack'[c][j].key)
  <1>1. PICK s \in Seq(FrameT) : s = stack[c] /\ s # <<>>
    BY DEF StoreInv, CallerOK, Resume, At
  <1>2. Len(s) \in Nat
    BY LenProperties
  <1>3. \A j \in 1 .. Len(s) : Sound(c, s[j].key)
    BY <1>1 DEF GapInv, Sound
  <1>4. CASE stack' = [stack EXCEPT ![c] = <<>>]
    <2>1. stack'[c] = <<>> /\ Len(<<>>) = 0
      BY <1>4, EmptySeq DEF StoreInv
    <2>2. 1 .. 0 = {}
      OBVIOUS
    <2> QED BY <2>1, <2>2
  <1>5. PICK u : u = Tail(s)
    OBVIOUS
  <1>6. u \in Seq(FrameT) /\ Len(u) = Len(s) - 1 /\ \A j \in 1 .. Len(u) : u[j] = s[j + 1]
    BY <1>1, <1>5, Popped
  <1>7. ASSUME NEW j \in 1 .. Len(u) PROVE Sound(c, u[j].key)
    <2>1. j + 1 \in 1 .. Len(s)
      BY <1>2, <1>6
    <2> QED BY <1>3, <1>6, <2>1
  <1>8. CASE stack' = [stack EXCEPT ![c] = u]
    <2>1. stack'[c] = u
      BY <1>8 DEF StoreInv
    <2> QED BY <1>7, <2>1
  <1>9. CASE Len(stack[c]) > 1
             /\ stack' = [stack EXCEPT ![c] = <<[Head(u) EXCEPT !.failed = TRUE]>> \o Tail(u)]
    <2>1. u # <<>> /\ Head(u) \in FrameT
      BY <1>1, <1>5, <1>9, Waiting DEF Resume, At, Caller
    <2>2. PICK h \in FrameT : h = Head(u) /\ h = u[1]
      BY <1>6, <2>1, Popped
    <2>3. PICK g : g = [h EXCEPT !.failed = TRUE]
      OBVIOUS
    <2>4. g \in FrameT /\ g.key = h.key
      BY <2>3 DEF FrameT
    <2>5. PICK t : t = <<g>> \o Tail(u)
      OBVIOUS
    <2>6. /\ t \in Seq(FrameT) /\ t # <<>> /\ Head(t) = g /\ Len(t) = Len(u)
          /\ \A j \in 2 .. Len(t) : t[j] = u[j]
      BY <1>6, <2>1, <2>4, <2>5, Replaced
    <2>7. t[1] = g /\ Len(u) \in Nat \ {0}
      BY <1>6, <2>1, <2>6, Popped
    <2>8. stack'[c] = t
      BY <1>9, <2>2, <2>3, <2>5 DEF StoreInv
    <2>9. ASSUME NEW j \in 1 .. Len(t) PROVE Sound(c, t[j].key)
      <3>1. CASE j = 1
        <4>1. 1 \in 1 .. Len(u)
          BY <2>7
        <4> QED BY <1>7, <2>2, <2>4, <2>7, <3>1, <4>1
      <3>2. CASE j # 1
        <4>1. j \in 2 .. Len(t) /\ j \in 1 .. Len(u)
          BY <2>6, <2>7, <3>2
        <4> QED BY <1>7, <2>6, <4>1
      <3> QED BY <3>1, <3>2
    <2> QED BY <2>8, <2>9
  <1> QED BY <1>1, <1>4, <1>5, <1>8, <1>9 DEF Resume

(* Every frame that carries a version's key carries one that was covered before
   the step. *)
LEMMA FramesCovered ==
  ASSUME StoreInv, NEW c \in Callers, GapInv(c), Moves(c)
  PROVE  \A j \in 1 .. Len(stack'[c]) : Sound(c, stack'[c][j].key)
  <1> DEFINE Goal == \A j \in 1 .. Len(stack'[c]) : Sound(c, stack'[c][j].key)
  <1>1. CASE UNCHANGED stack
    BY <1>1 DEF GapInv, Sound
  <1>2. CASE CallInsert(c)
    <2>1. PICK tier \in {"L0", "L1", "L2"}, kind \in {"fact", "scratch"}, k \in RawKeys,
               x \in Contents \cup {{}}, v \in Confidences, s \in Sessions :
            Push(c, Frame("insert", tier, kind, Key(k, <<>>), x, v, s), "gate")
      BY <1>2 DEF CallInsert
    <2>2. PICK f : f = Frame("insert", tier, kind, Key(k, <<>>), x, v, s)
      OBVIOUS
    <2>3. f \in FrameT
      BY <2>2, Submitted, FrameType DEF Tiers, Kinds
    <2>4. f.key.vers = <<>>
      BY <2>2 DEF Frame, Key
    <2> QED BY <2>1, <2>2, <2>3, <2>4, FramesSoundPush DEF Sound
  <1>3. CASE CallSupersede(c)
    <2>1. PICK i \in Used, x \in Contents, v \in Confidences, s \in Sessions :
            /\ stack' = [stack EXCEPT ![c] =
                 <<[Frame("supersede", "", "", Key("", <<>>), x, v, s) EXCEPT !.ex = i]>>]
            /\ Goto(c, "get")
      BY <1>3 DEF CallSupersede
    <2>2. PICK f : f = [Frame("supersede", "", "", Key("", <<>>), x, v, s) EXCEPT !.ex = i]
      OBVIOUS
    <2>3. f \in FrameT
      BY <2>2, Submitted, FrameType DEF Used
    <2>4. f.key.vers = <<>>
      BY <2>2 DEF Frame, Key
    <2>5. stack[c] = <<>>
      BY <1>3 DEF CallSupersede, Start, At, StoreInv, CallerOK
    <2>6. Push(c, f, "get")
      <3>1. <<f>> \o stack[c] = <<f>>
        BY <2>3, <2>5, ConcatEmptySeq
      <3> QED BY <2>1, <2>2, <3>1 DEF Push
    <2> QED BY <2>3, <2>4, <2>6, FramesSoundPush DEF Sound
  <1>4. CASE CallFold(c)
    <2>1. PICK s \in Sessions : Push(c, Frame("fold", "L1", "episode", Key(s, <<>>), {}, 8, s), "list")
      BY <1>4 DEF CallFold
    <2>2. PICK f : f = Frame("fold", "L1", "episode", Key(s, <<>>), {}, 8, s)
      OBVIOUS
    <2>3. f \in FrameT
      <3>1. <<>> \in Seq(Nat \ {0}) /\ {} \in Texts /\ 8 \in 0 .. 10
        BY EmptySeq DEF Texts
      <3> QED BY <2>2, <3>1, FrameType DEF Tiers, Kinds, Keys
    <2>4. f.key.vers = <<>>
      BY <2>2 DEF Frame, Key
    <2> QED BY <2>1, <2>2, <2>3, <2>4, FramesSoundPush DEF Sound
  <1>5. CASE Resume(c)
    BY <1>5, FramesSoundPop
  <1>6. ASSUME pc[c] # "idle"
        PROVE  \E f \in FrameT : /\ f = Top(c) /\ stack[c] # <<>> /\ OnTop(f, pc[c])
                                 /\ Sound(c, f.key)
    BY <1>6, TopType, TopCovered DEF Sound
  \* A call made with the key of the innermost frame.
  <1>7. ASSUME NEW f \in FrameT, Sound(c, f.key), NEW fn \in {"insert", "supersede"},
               NEW tier \in Tiers \cup {""}, NEW kind \in Kinds \cup {""}, NEW x \in Texts,
               NEW i \in Ids \cup {NoId}, NEW l, NEW g,
               \/ g = Frame(fn, tier, kind, f.key, x, f.conf, f.sess)
               \/ g = [Frame(fn, tier, kind, f.key, x, f.conf, f.sess) EXCEPT !.ex = i],
               Push(c, g, l)
        PROVE  Goal
    <2>1. /\ f.key = Key(f.key.base, f.key.vers) /\ f.key.base \in RawKeys \cup Keys \cup {""}
          /\ f.key.vers \in Seq(Nat \ {0}) /\ f.conf \in 0 .. 10 /\ f.sess \in Sessions
      BY DEF FrameT, Key
    <2>2. PICK b \in RawKeys \cup Keys \cup {""}, vs \in Seq(Nat \ {0}) : f.key = Key(b, vs)
      BY <2>1
    <2> DEFINE made == Frame(fn, tier, kind, f.key, x, f.conf, f.sess)
    <2>3. /\ made \in FrameT /\ [made EXCEPT !.ex = i] \in FrameT
          /\ made.key = f.key /\ [made EXCEPT !.ex = i].key = f.key
      <3>1. fn \in {"insert", "supersede", "fold"}
        OBVIOUS
      <3>2. PICK v \in 0 .. 10, s \in Sessions : v = f.conf /\ s = f.sess
        BY <2>1
      <3>3. /\ Frame(fn, tier, kind, Key(b, vs), x, v, s) \in FrameT
            /\ [Frame(fn, tier, kind, Key(b, vs), x, v, s) EXCEPT !.ex = i] \in FrameT
        BY ZenonT(60), <3>1, FrameType
      <3>4. made = Frame(fn, tier, kind, Key(b, vs), x, v, s)
        BY <2>2, <3>2
      <3>5. made.key = f.key /\ [made EXCEPT !.ex = i].key = f.key
        BY DEF Frame
      <3> QED BY <3>3, <3>4, <3>5
    <2>4. g = made \/ g = [made EXCEPT !.ex = i]
      BY <1>7
    <2> HIDE DEF made
    <2>5. g \in FrameT /\ g.key = f.key
      BY <2>3, <2>4
    <2> QED BY <1>7, <2>5, FramesSoundPush
  <1>8. CASE Gate(c)
    <2>1. PICK f \in FrameT : f = Top(c) /\ stack[c] # <<>> /\ OnTop(f, "gate") /\ Sound(c, f.key)
      BY <1>6, <1>8 DEF Gate, At
    <2>2. CASE stack' = SetTop(c, Gated(f))
      <3>1. PICK g : g = Gated(f)
        OBVIOUS
      <3>2. g \in FrameT
        BY <2>1, <3>1, GatedType
      <3>3. Sound(c, g.key)
        <4>1. DOMAIN f = {"fn", "tier", "kind", "key", "content", "conf", "sess", "down", "failed",
                          "ex", "exConf", "version"} /\ DOMAIN f.key = {"base", "vers"}
          BY DEF FrameT
        <4>2. PICK b : b = IF f.key.base \in RawKeys THEN Normalize[f.key.base] ELSE f.key.base
          OBVIOUS
        <4>3. g.key = [f.key EXCEPT !.base = b]
          BY <3>1, <4>1, <4>2 DEF Gated
        <4>4. g.key.vers = f.key.vers /\ g.key.base = b
          BY <4>1, <4>3
        <4>5. f.key.base \in Keys => b = f.key.base
          BY <4>2, StoreAssumption
        <4> QED BY <2>1, <4>4, <4>5 DEF Sound
      <3> QED BY <2>1, <2>2, <3>1, <3>2, <3>3, FramesSoundTop
    <2> QED BY <1>1, <1>8, <2>1, <2>2 DEF Gate
  <1>9. CASE Lookup(c)
    <2>1. PICK f \in FrameT : f = Top(c) /\ stack[c] # <<>> /\ Sound(c, f.key)
      BY <1>6, <1>9 DEF Lookup, At
    <2>2. ASSUME NEW i \in RowsAt(f.key),
                 Push(c, [Frame("supersede", "", "", f.key, f.content, f.conf, f.sess)
                          EXCEPT !.ex = i], "get")
          PROVE  Goal
      <3>1. i \in Ids /\ f.content \in Texts
        BY DEF RowsAt, Used, FrameT
      <3>2. PICK g : g = [Frame("supersede", "", "", f.key, f.content, f.conf, f.sess) EXCEPT !.ex = i]
        OBVIOUS
      <3>3. PICK none \in {""} : none = ""
        OBVIOUS
      <3>4. none \in Tiers \cup {""} /\ none \in Kinds \cup {""} /\ "supersede" \in {"insert", "supersede"}
        OBVIOUS
      <3>5. Push(c, g, "get")
        BY <2>2, <3>2
      <3> QED BY <1>7, <2>1, <3>1, <3>2, <3>3, <3>4, <3>5
    <2> QED BY <1>1, <1>9, <2>1, <2>2 DEF Lookup
  <1>10. ASSUME NEW f \in FrameT, f = Top(c), stack[c] # <<>>, Sound(c, f.key), NEW i \in Used,
                stack' = SetTop(c, [f EXCEPT !.ex = i, !.exConf = rows[i].conf])
         PROVE  Goal
    <2>1. rows[i].conf \in 0 .. 10 /\ i \in Ids
      BY DEF StoreInv, RowsOK, Row, Used
    <2>2. PICK g : g = [f EXCEPT !.ex = i, !.exConf = rows[i].conf]
      OBVIOUS
    <2>3. g \in FrameT /\ g.key = f.key
      BY <2>1, <2>2 DEF FrameT
    <2> QED BY <1>10, <2>2, <2>3, FramesSoundTop
  <1>11. CASE Match(c)
    <2>1. PICK f \in FrameT : f = Top(c) /\ stack[c] # <<>> /\ Sound(c, f.key)
      BY <1>6, <1>11 DEF Match, At
    <2>2. \/ UNCHANGED stack
          \/ \E i \in Used : stack' = SetTop(c, [f EXCEPT !.ex = i, !.exConf = rows[i].conf])
      BY <1>11, <2>1 DEF Match, RowsAt
    <2> QED BY <1>1, <1>10, <2>1, <2>2
  <1>12. CASE Dedupe(c)
    <2>1. PICK f \in FrameT : f = Top(c) /\ stack[c] # <<>> /\ Sound(c, f.key)
      BY <1>6, <1>12 DEF Dedupe, At
    <2>2. \/ UNCHANGED stack
          \/ \E i \in Used : stack' = SetTop(c, [f EXCEPT !.ex = i, !.exConf = rows[i].conf])
      BY <1>12, <2>1 DEF Dedupe
    <2> QED BY <1>1, <1>10, <2>1, <2>2
  <1>13. CASE Get(c)
    <2>1. PICK f \in FrameT : f = Top(c) /\ stack[c] # <<>> /\ OnTop(f, "get")
      BY <1>6, <1>13 DEF Get, At
    <2>2. PICK r : r = rows[f.ex]
      OBVIOUS
    <2>3. CASE r # NoRow
               /\ stack' = SetTop(c, [f EXCEPT !.key = r.key, !.tier = r.tier, !.kind = r.kind])
      <3>1. f.ex \in Used /\ r \in Row
        BY <2>1, <2>2, <2>3 DEF OnTop, StoreInv, RowsOK, Used
      <3>2. PICK g : g = [f EXCEPT !.key = r.key, !.tier = r.tier, !.kind = r.kind]
        OBVIOUS
      <3>3. g \in FrameT /\ g.key = r.key /\ r.key.base \in Keys
        BY <3>1, <3>2 DEF FrameT, Row
      <3>4. Sound(c, g.key)
        BY <2>2, <3>1, <3>3 DEF Sound, GapInv, Current
      <3> QED BY <2>1, <2>3, <3>2, <3>3, <3>4, FramesSoundTop
    <2> QED BY <1>1, <1>13, <2>1, <2>2, <2>3 DEF Get
  <1>14. CASE Count(c)
    <2>1. PICK f \in FrameT : f = Top(c) /\ stack[c] # <<>> /\ Sound(c, f.key)
      BY <1>6, <1>14 DEF Count, At
    <2>2. PICK n : n = Cardinality(VersionsOf(f.key)) + 1
      OBVIOUS
    <2>3. n \in Nat
      <3>1. IsFiniteSet(Ids)
        BY FS_Interval, StoreAssumption DEF Ids
      <3>2. VersionsOf(f.key) \subseteq Ids
        BY DEF VersionsOf, Used
      <3>3. Cardinality(VersionsOf(f.key)) \in Nat
        BY <3>1, <3>2, FS_Subset, FS_CardinalityType
      <3> QED BY <2>2, <3>3
    <2>4. PICK g : g = [f EXCEPT !.version = n]
      OBVIOUS
    <2>5. g \in FrameT /\ g.key = f.key
      BY <2>3, <2>4 DEF FrameT
    <2>6. stack' = SetTop(c, g)
      BY <1>14, <2>1, <2>2, <2>4 DEF Count
    <2> QED BY <2>1, <2>5, <2>6, FramesSoundTop
  <1>15. CASE Rename(c)
    <2>1. PICK f \in FrameT : f = Top(c) /\ stack[c] # <<>> /\ Sound(c, f.key)
      BY <1>6, <1>15 DEF Rename, At
    <2>2. CASE Push(c, Frame("insert", f.tier, f.kind, f.key, f.content, f.conf, f.sess), "gate")
      <3>1. f.tier \in Tiers \cup {""} /\ f.kind \in Kinds \cup {""} /\ f.content \in Texts
        BY DEF FrameT
      <3>2. PICK g : g = Frame("insert", f.tier, f.kind, f.key, f.content, f.conf, f.sess)
        OBVIOUS
      <3>3. Push(c, g, "gate") /\ NoId \in Ids \cup {NoId} /\ "insert" \in {"insert", "supersede"}
        BY <2>2, <3>2
      <3> QED BY <1>7, <2>1, <3>1, <3>2, <3>3
    <2> QED BY <1>1, <1>15, <2>1, <2>2 DEF Rename
  <1>16. CASE List(c)
    <2>1. PICK f \in FrameT : f = Top(c) /\ stack[c] # <<>> /\ Sound(c, f.key)
      BY <1>6, <1>16 DEF List, At
    <2>2. ASSUME NEW D \in SUBSET SessionL0(f.sess),
                 Push(c, Frame("insert", f.tier, f.kind, f.key,
                               UNION {Text(rows[i]) : i \in D}, f.conf, f.sess), "gate")
          PROVE  Goal
      <3>1. PICK x \in Texts : x = UNION {Text(rows[i]) : i \in D}
        <4>1. ASSUME NEW i \in D PROVE Text(rows[i]) \in Texts
          <5>1. rows[i] \in Row
            BY DEF SessionL0, Used, StoreInv, RowsOK
          <5> QED BY <5>1 DEF Row, Text, Texts
        <4> QED BY <4>1 DEF Texts
      <3>2. f.tier \in Tiers \cup {""} /\ f.kind \in Kinds \cup {""}
        BY DEF FrameT
      <3>3. PICK g : g = Frame("insert", f.tier, f.kind, f.key, x, f.conf, f.sess)
        OBVIOUS
      <3>4. Push(c, g, "gate") /\ NoId \in Ids \cup {NoId} /\ "insert" \in {"insert", "supersede"}
        BY <2>2, <3>1, <3>3
      <3> QED BY <1>7, <2>1, <3>2, <3>3, <3>4
    <2> QED BY <1>1, <1>16, <2>1, <2>2 DEF List
  <1>17. CASE Merge(c) \/ InsertRow(c) \/ Maintain(c) \/ Link(c) \/ Purge(c) \/ Delete(c) \/ UpdateContent(c)
    <2>1. UNCHANGED stack
      BY <1>17 DEF Merge, InsertRow, Maintain, Link, Purge, Delete, UpdateContent
    <2> QED BY <1>1, <2>1
  <1> QED BY <1>2, <1>3, <1>4, <1>5, <1>8, <1>9, <1>11, <1>12, <1>13, <1>14, <1>15, <1>16, <1>17
      DEF Moves, Call, Insert, Supersede, Fold

(* A step of the caller that is alone keeps the keys covered. *)
LEMMA MoveKeepsGapInv ==
  ASSUME StoreInv, NEW me \in Callers, OneInv(me), GapInv(me), Moves(me)
  PROVE  GapInv(me)'
  <1>1. ASSUME NEW i \in Used', ~Current(rows'[i]) PROVE Covered(me, rows[i].key.base)'
    <2>1. PICK b \in Keys : b = rows'[i].key.base /\ Covered(me, b)
      BY <1>1, VersionsCovered
    <2>2. Covered(me, b)'
      BY <2>1, CoveredStays
    <2> QED BY <2>1, <2>2 DEF Covered, Filling, RowsAt, Key
  <1>2. ASSUME NEW j \in 1 .. Len(stack'[me]), stack'[me][j].key.vers # <<>>
        PROVE  stack'[me][j].key.base \in Keys /\ Covered(me, stack[me][j].key.base)'
    <2>1. PICK b \in Keys : b = stack'[me][j].key.base /\ Covered(me, b)
      BY <1>2, FramesCovered DEF Sound
    <2>2. Covered(me, b)'
      BY <2>1, CoveredStays
    <2> QED BY <2>1, <2>2 DEF Covered, Filling, RowsAt, Key
  <1> QED BY <1>1, <1>2, RoomStays, RowKnown DEF GapInv
-----------------------------------------------------------------------------
(* A step of one caller leaves the others where they are. *)
LEMMA OthersStay ==
  ASSUME NEW c \in Callers, Moves(c), NEW d \in Callers \ {c}
  PROVE  /\ StoreInv => pc'[d] = pc[d] /\ stack'[d] = stack[d]
         /\ rc \in [Callers -> {0, 1}] => rc'[d] = rc[d]
  <1>1. /\ UNCHANGED rc \/ \E n : rc' = [rc EXCEPT ![c] = n]
        /\ UNCHANGED pc \/ \E l : pc' = [pc EXCEPT ![c] = l]
        /\ UNCHANGED stack \/ \E t : stack' = [stack EXCEPT ![c] = t]
    <2>1. CASE Call(c)
      BY <2>1, Zenon DEF Call, CallInsert, CallSupersede, CallFold, Delete, UpdateContent, Push, Goto
    <2>2. CASE Gate(c) \/ Lookup(c) \/ Match(c) \/ Dedupe(c)
      BY <2>2, Zenon DEF Gate, Lookup, Match, Dedupe, Push, Goto, Return, SetTop
    <2>3. CASE Merge(c) \/ InsertRow(c) \/ Maintain(c)
      BY <2>3, Zenon DEF Merge, InsertRow, Maintain, Goto, Return
    <2>4. CASE Supersede(c)
      BY <2>4, Zenon DEF Supersede, Get, Count, Rename, Link, Push, Goto, Return, SetTop
    <2>5. CASE Fold(c)
      BY <2>5, Zenon DEF Fold, List, Purge, Push, Goto, Return
    <2>6. CASE Resume(c)
      BY <2>6, Zenon DEF Resume, Goto
    <2> QED BY <2>1, <2>2, <2>3, <2>4, <2>5, <2>6 DEF Moves, Insert
  <1> QED BY <1>1 DEF StoreInv

(* What the callers and the tables hold, with any number of callers: every call that
   has not written its row has room for it. *)
ColumnsInv ==
  /\ rc \in [Callers -> {0, 1}] /\ calls \in 0 .. MaxCalls
  /\ nextId + Cardinality({c \in Callers : Writing(c)}) <= calls + 1
  /\ out \in [Callers -> Ids \cup {NoId}] /\ links \subseteq Ids \X Ids
  /\ fails \in 0 .. MaxFail /\ dropped \subseteq Keys /\ aborted \subseteq Keys

(* The row a write takes is one of those the calls allow. *)
LEMMA RoomForRow ==
  ASSUME StoreInv, ColumnsInv, NEW c \in Callers, Writing(c)
  PROVE  nextId \in Ids /\ nextId <= calls
  <1> DEFINE W == {d \in Callers : Writing(d)}
  <1>1. IsFiniteSet(W) /\ c \in W
    BY StoreAssumption, FS_Subset
  <1>2. Cardinality(W) \in Nat /\ Cardinality(W) # 0
    BY <1>1, FS_CardinalityType, FS_EmptySet
  <1>3. PICK n \in Nat : n = Cardinality(W)
    BY <1>2
  <1>4. nextId + n <= calls + 1 /\ n # 0 /\ nextId \in Nat \ {0} /\ calls \in 0 .. MaxCalls
    BY <1>2, <1>3 DEF ColumnsInv, StoreInv, RowsOK
  <1> QED BY <1>4, StoreAssumption DEF Ids

(* A call takes the room of one row when it starts and one row at most from it. *)
LEMMA RoomKept ==
  ASSUME StoreInv, ColumnsInv, NEW c \in Callers, Moves(c)
  PROVE  /\ rc' \in [Callers -> {0, 1}] /\ calls' \in 0 .. MaxCalls
         /\ nextId' + Cardinality({d \in Callers : Writing(d)'}) <= calls' + 1
  <1> DEFINE W == {d \in Callers : Writing(d)}
             V == {d \in Callers : Writing(d)'}
  <1>1. IsFiniteSet(W) /\ IsFiniteSet(V)
    BY StoreAssumption, FS_Subset
  <1>2. PICK n \in Nat : n = Cardinality(W)
    BY <1>1, FS_CardinalityType
  <1>3. PICK m \in Nat : m = Cardinality(V)
    BY <1>1, FS_CardinalityType
  <1>4. nextId \in Nat /\ calls \in 0 .. MaxCalls /\ MaxCalls \in Nat /\ nextId + n <= calls + 1
        /\ rc \in [Callers -> {0, 1}]
    BY <1>2, StoreAssumption DEF ColumnsInv, StoreInv, RowsOK
  <1>5. \A d \in Callers \ {c} : d \in V <=> d \in W
    BY <1>4, OthersStay DEF Writing
  <1>6. rc' \in [Callers -> {0, 1}]
    BY <1>4, WritesOnce
  <1>7. CASE UNCHANGED <<nextId, calls>> /\ (Writing(c)' => Writing(c))
    <2>1. V \subseteq W
      BY <1>5, <1>7
    <2>2. m <= n
      BY <1>1, <1>2, <1>3, <2>1, FS_Subset
    <2> QED BY <1>3, <1>4, <1>6, <1>7, <2>2
  <1>8. CASE calls' = calls /\ nextId' = nextId + 1 /\ Writing(c) /\ ~Writing(c)'
    <2>1. V = W \ {c} /\ c \in W
      BY <1>5, <1>8
    <2>2. m = n - 1
      BY <1>1, <1>2, <1>3, <2>1, FS_RemoveElement
    <2> QED BY <1>3, <1>4, <1>6, <1>8, <2>2
  <1>9. CASE calls < MaxCalls /\ calls' = calls + 1 /\ nextId' = nextId /\ ~Writing(c)
    <2>1. PICK U : U = W \cup {c}
      OBVIOUS
    <2>2. V \subseteq U /\ c \notin W
      BY <1>5, <1>9, <2>1
    <2>3. IsFiniteSet(U) /\ Cardinality(U) = n + 1
      BY <1>1, <1>2, <2>1, <2>2, FS_AddElement
    <2>4. m <= n + 1
      BY <1>3, <2>2, <2>3, FS_Subset
    <2> QED BY <1>3, <1>4, <1>6, <1>9, <2>4
  <1> QED BY <1>4, <1>7, <1>8, <1>9, WritesOnce

(* The rest of the columns. *)
LEMMA ColumnsKept ==
  ASSUME StoreInv, ColumnsInv, NEW c \in Callers, Moves(c)
  PROVE  /\ out' \in [Callers -> Ids \cup {NoId}] /\ links' \subseteq Ids \X Ids
         /\ fails' \in 0 .. MaxFail /\ dropped' \subseteq Keys /\ aborted' \subseteq Keys
  <1>1. \A after : Dropped(after) \subseteq Keys
    BY DEF Dropped, Used, StoreInv, RowsOK, Row
  <1>2. fails' \in 0 .. MaxFail
    <2>1. UNCHANGED fails \/ DbFails
      <3>1. CASE Call(c) \/ Fold(c) \/ Resume(c)
        BY <3>1 DEF Call, CallInsert, CallSupersede, CallFold, Delete, UpdateContent, Fold, List,
                    Purge, Resume, DbWorks
      <3>2. CASE Insert(c) \/ Supersede(c)
        BY <3>2 DEF Insert, Gate, Lookup, Match, Dedupe, Merge, InsertRow, Maintain, Supersede,
                    Get, Count, Rename, Link, DbWorks
      <3> QED BY <3>1, <3>2 DEF Moves
    <2> QED BY <2>1, StoreAssumption DEF DbFails, ColumnsInv
  <1>3. dropped' \subseteq Keys
    <2>1. UNCHANGED dropped \/ \E after : dropped' = dropped \cup Dropped(after)
      <3>1. CASE Call(c) \/ Fold(c) \/ Resume(c)
        BY <3>1 DEF Call, CallInsert, CallSupersede, CallFold, Delete, UpdateContent, Fold, List,
                    Purge, Resume
      <3>2. CASE Insert(c) \/ Supersede(c)
        BY <3>2 DEF Insert, Gate, Lookup, Match, Dedupe, Merge, InsertRow, Maintain, Cycle,
                    Supersede, Get, Count, Rename, Link
      <3> QED BY <3>1, <3>2 DEF Moves
    <2> QED BY <1>1, <2>1 DEF ColumnsInv
  <1>4. aborted' \subseteq Keys
    <2>1. CASE Resume(c) /\ Len(stack[c]) > 1 /\ Caller(c).fn = "supersede"
      <3>1. Caller(c).key.base \in Keys
        BY <2>1, Waiting DEF Resume, At, Under, Ready
      <3>2. aborted' \subseteq aborted \cup {Caller(c).key.base}
        BY <2>1 DEF Resume
      <3> QED BY <3>1, <3>2 DEF ColumnsInv
    <2>2. CASE ~(Resume(c) /\ Len(stack[c]) > 1 /\ Caller(c).fn = "supersede")
      <3>1. UNCHANGED aborted
        <4>1. CASE Resume(c)
          BY <2>2, <4>1 DEF Resume
        <4>2. CASE Call(c) \/ Fold(c)
          BY <4>2 DEF Call, CallInsert, CallSupersede, CallFold, Delete, UpdateContent, Fold, List,
                      Purge
        <4>3. CASE Insert(c) \/ Supersede(c)
          BY <4>3 DEF Insert, Gate, Lookup, Match, Dedupe, Merge, InsertRow, Maintain,
                      Supersede, Get, Count, Rename, Link
        <4> QED BY <4>1, <4>2, <4>3 DEF Moves
      <3> QED BY <3>1 DEF ColumnsInv
    <2> QED BY <2>1, <2>2
  <1>5. out' \in [Callers -> Ids \cup {NoId}]
    <2>1. UNCHANGED out \/ \E i \in Ids \cup {NoId} : out' = [out EXCEPT ![c] = i]
      <3>1. CASE Call(c)
        BY <3>1 DEF Call, CallInsert, CallSupersede, CallFold, Delete, UpdateContent
      <3>2. CASE Merge(c)
        <4>1. Top(c).ex \in Ids
          BY <3>2, TopType DEF Merge, At, OnTop
        <4> QED BY <3>2, <4>1 DEF Merge
      <3>3. CASE InsertRow(c)
        <4>1. nextId \in Ids
          BY <3>3, RoomForRow DEF InsertRow, At, Writing
        <4> QED BY <3>3, <4>1 DEF InsertRow
      <3>4. CASE Gate(c) \/ Lookup(c) \/ Match(c) \/ Dedupe(c) \/ Maintain(c) \/ Supersede(c)
                 \/ Fold(c) \/ Resume(c)
        BY <3>4 DEF Gate, Lookup, Match, Dedupe, Maintain, Supersede, Get, Count, Rename, Link,
                    Fold, List, Purge, Resume
      <3> QED BY <3>1, <3>2, <3>3, <3>4 DEF Moves, Insert
    <2> QED BY <2>1 DEF ColumnsInv
  <1>6. links' \subseteq Ids \X Ids
    <2>1. CASE Link(c)
      <3>1. Top(c).ex \in Ids
        BY <2>1, TopType DEF Link, At, OnTop, PutAside
      <3>2. out[c] \in Ids \cup {NoId}
        BY DEF ColumnsInv
      <3> QED BY <2>1, <3>1, <3>2 DEF Link, ColumnsInv
    <2>2. CASE ~Link(c)
      <3>1. UNCHANGED links
        <4>1. CASE Call(c) \/ Fold(c) \/ Resume(c)
          BY <4>1 DEF Call, CallInsert, CallSupersede, CallFold, Delete, UpdateContent, Fold, List,
                      Purge, Resume
        <4>2. CASE Insert(c) \/ Supersede(c)
          BY <2>2, <4>2 DEF Insert, Gate, Lookup, Match, Dedupe, Merge, InsertRow, Maintain,
                      Supersede, Get, Count, Rename
        <4> QED BY <4>1, <4>2 DEF Moves
      <3> QED BY <3>1 DEF ColumnsInv
    <2> QED BY <2>1, <2>2
  <1> QED BY <1>2, <1>3, <1>4, <1>5, <1>6

(* The columns are typed at first, *)
LEMMA InitColumnsInv ==
  ASSUME Init PROVE ColumnsInv
  <1>1. {c \in Callers : Writing(c)} = {}
    BY DEF Init, Writing
  <1>2. nextId + Cardinality({c \in Callers : Writing(c)}) <= calls + 1
    <2>1. PICK n : n = Cardinality({c \in Callers : Writing(c)})
      OBVIOUS
    <2>2. n = 0
      BY <1>1, <2>1, FS_EmptySet, Zenon
    <2>3. nextId + n <= calls + 1
      BY <2>2 DEF Init
    <2> QED BY <2>1, <2>3, Zenon
  <1>3. rc \in [Callers -> {0, 1}] /\ out \in [Callers -> Ids \cup {NoId}]
    BY DEF Init
  <1>4. calls \in 0 .. MaxCalls /\ fails \in 0 .. MaxFail
    BY StoreAssumption DEF Init
  <1> QED BY <1>2, <1>3, <1>4 DEF Init, ColumnsInv

(* and stay so. *)
LEMMA NextKeepsColumnsInv ==
  ASSUME StoreInv, ColumnsInv, [Next]_vars PROVE ColumnsInv'
  <1>1. CASE UNCHANGED vars
    <2>1. {c \in Callers : Writing(c)'} = {c \in Callers : Writing(c)}
      BY <1>1 DEF vars, Writing
    <2> QED BY <1>1, <2>1 DEF vars, ColumnsInv
  <1>2. ASSUME NEW c \in Callers, Moves(c) PROVE ColumnsInv'
    BY <1>2, RoomKept, ColumnsKept DEF ColumnsInv
  <1> QED BY <1>1, <1>2 DEF Next, Finished

(* Between calls any caller has what the last one left: only the table counts. *)
LEMMA TurnPasses ==
  ASSUME StoreInv, NEW me \in Callers, NEW c \in Callers, Quiet, OneInv(me), GapInv(me)
  PROVE  OneInv(c) /\ GapInv(c)
  <1>1. pc[me] = "idle" /\ pc[c] = "idle" /\ stack[c] = <<>>
    BY DEF Quiet, At, StoreInv, CallerOK
  <1>2. Len(stack[c]) = 0 /\ 1 .. 0 = {}
    BY <1>1, EmptySeq
  <1>3. \A b : Covered(me, b) => Covered(c, b)
    BY <1>1 DEF Covered, Filling
  <1>4. ~Writing(c)
    BY <1>1 DEF Writing
  <1> QED BY <1>1, <1>2, <1>3, <1>4 DEF OneInv, Knows, GapInv

(* What holds as long as no two calls have overlapped: there is a caller the others
   have left alone, and it knows what one caller knows. *)
SerialInv ==
  /\ overlapped \in BOOLEAN
  /\ overlapped \/ \E me \in Callers : Alone(me) /\ OneInv(me) /\ GapInv(me)

(* The caller that moves is the one that is alone, or starts when all are idle. *)
LEMMA Mover ==
  ASSUME StoreInv, SerialInv, ~overlapped, ~Overlap, NEW c \in Callers, Moves(c)
  PROVE  Alone(c) /\ OneInv(c) /\ GapInv(c)
  <1>1. PICK me \in Callers : Alone(me) /\ OneInv(me) /\ GapInv(me)
    BY DEF SerialInv
  <1>2. CASE c = me
    BY <1>1, <1>2
  <1>3. CASE c # me
    <2>1. pc[c] = "idle"
      BY <1>1, <1>3 DEF Alone
    <2>2. Call(c)
      BY <2>1 DEF Moves, Insert, Gate, Lookup, Match, Dedupe, Merge, InsertRow, Maintain,
                  Supersede, Get, Count, Rename, Link, Fold, List, Purge, Resume, At
    <2>3. calls' = calls + 1
      BY <2>2 DEF Call, CallInsert, CallSupersede, CallFold, Delete, UpdateContent, Start
    <2>4. calls \in Nat
      BY <1>1 DEF GapInv
    <2>5. Quiet
      BY <2>3, <2>4 DEF Overlap
    <2> QED BY <1>1, <2>5, TurnPasses DEF Alone, Quiet, At
  <1> QED BY <1>2, <1>3

(* It is so at first, *)
LEMMA InitSerialInv ==
  ASSUME Init PROVE SerialInv
  <1>1. PICK me \in Callers : TRUE
    BY StoreAssumption
  <1>2. OneInv(me) /\ Alone(me)
    BY DEF Init, OneInv, Knows, CurrentUnique, NoNearDuplicates, Used, Alone
  <1>3. Len(stack[me]) = 0 /\ pc[me] = "idle" /\ 1 .. 0 = {}
    BY EmptySeq DEF Init
  <1>4. GapInv(me)
    BY <1>3, StoreAssumption DEF Init, GapInv, Writing, Used
  <1> QED BY <1>2, <1>4 DEF SerialInv, Init

(* and every step keeps it. *)
LEMMA NextKeepsSerialInv ==
  ASSUME StoreInv, SerialInv, [Next]_vars
  PROVE  SerialInv'
  <1>1. CASE UNCHANGED vars
    <2>1. UNCHANGED overlapped
      BY <1>1 DEF vars
    <2>2. ASSUME NEW me \in Callers, Alone(me), OneInv(me), GapInv(me)
          PROVE  Alone(me)' /\ OneInv(me)' /\ GapInv(me)'
      <3>1. Alone(me)'
        BY <1>1, <2>2 DEF vars, Alone
      <3>2. CurrentUnique' /\ NoNearDuplicates'
        BY <1>1, <2>2 DEF vars, OneInv, CurrentUnique, NoNearDuplicates, Used
      <3>3. Knows(me)'
        BY <1>1, <2>2 DEF vars, OneInv, Knows, Used, RowsAt, Top
      <3>4. \A b : Covered(me, b) => Covered(me, b)'
        BY <1>1 DEF vars, Covered, Filling, Spellings, Used, RowsAt, Top
      <3>5. GapInv(me)'
        BY <1>1, <2>2, <3>4 DEF vars, GapInv, Writing, Used, Top
      <3> QED BY <3>1, <3>2, <3>3, <3>5 DEF OneInv
    <2> QED BY <2>1, <2>2 DEF SerialInv
  <1>2. ASSUME NEW c \in Callers, Moves(c), overlapped' = (overlapped \/ Overlap)
        PROVE  SerialInv'
    <2>1. CASE overlapped \/ Overlap
      BY <1>2, <2>1 DEF SerialInv
    <2>2. CASE ~overlapped /\ ~Overlap
      <3>1. Alone(c) /\ OneInv(c) /\ GapInv(c)
        BY <1>2, <2>2, Mover
      <3>2. Alone(c)'
        BY <1>2, <3>1, OthersStay DEF Alone
      <3>3. OneInv(c)' /\ GapInv(c)'
        BY <1>2, <3>1, MoveKeepsOneInv, MoveKeepsGapInv
      <3> QED BY <1>2, <2>2, <3>2, <3>3 DEF SerialInv
    <2> QED BY <2>1, <2>2
  <1> QED BY <1>1, <1>2 DEF Next, Finished

(* The invariants together. *)
StoreInductive == StoreInv /\ ColumnsInv /\ SerialInv

LEMMA Inductive ==
  Spec => []StoreInductive
  <1>1. Init => StoreInductive
    BY InitStoreInv, InitColumnsInv, InitSerialInv DEF StoreInductive
  <1>2. StoreInductive /\ [Next]_vars => StoreInductive'
    BY NextKeepsStoreInv, NextKeepsColumnsInv, NextKeepsSerialInv DEF StoreInductive
  <1> QED BY <1>1, <1>2, PTL DEF Spec

(***************************************************************************)
(* With any number of callers the tables hold what the code stores in       *)
(* them; as long as calls do not overlap, a key has one current row and     *)
(* there is none of a near-duplicate key beside it (the lookups and the     *)
(* near-duplicate search of memory_insert_ex).                              *)
(***************************************************************************)
THEOREM OneCurrentRow ==
  Spec => []OneCurrent
  <1>1. StoreInductive => TypeOK
    <2> SUFFICES ASSUME StoreInductive PROVE TypeOK
      OBVIOUS
    <2>1. \A i \in Ids : rows[i] = NoRow \/ rows[i] \in Row
      BY DEF StoreInductive, StoreInv, RowsOK
    <2>2. \A i \in Used : i < nextId
      BY DEF StoreInductive, StoreInv, RowsOK, Used
    <2>3. nextId \in 1 .. MaxCalls + 1
      <3>1. PICK n \in Nat : n = Cardinality({c \in Callers : Writing(c)})
        BY StoreAssumption, FS_Subset, FS_CardinalityType
      <3>2. /\ nextId + n <= calls + 1 /\ calls \in 0 .. MaxCalls /\ MaxCalls \in Nat
            /\ nextId \in Nat \ {0}
        BY <3>1, StoreAssumption DEF StoreInductive, ColumnsInv, StoreInv, RowsOK
      <3> QED BY <3>2
    <2> QED BY <2>1, <2>2, <2>3 DEF StoreInductive, StoreInv, ColumnsInv, SerialInv, TypeOK
  <1>2. StoreInductive => (~overlapped => CurrentUnique /\ NoNearDuplicates)
    BY DEF StoreInductive, SerialInv, OneInv
  <1> QED BY <1>1, <1>2, Inductive, PTL DEF OneCurrent

(***************************************************************************)
(* As long as calls do not overlap, a merge keeps the higher confidence and *)
(* a version put aside keeps its content, unless it is updated or           *)
(* superseded itself (the merge of memory_insert_ex).                       *)
(***************************************************************************)
THEOREM MergesKeep ==
  Spec => MergesLoseNothing
  <1>1. StoreInductive /\ [Next]_vars => [~overlapped => LosesNothing]_vars
    <2> SUFFICES ASSUME StoreInv, SerialInv, ~overlapped, NEW c \in Callers, Moves(c)
                 PROVE  LosesNothing
      BY DEF StoreInductive, Next, Finished
    <2>1. CASE ~Overlap
      BY <2>1, Mover, MoveLosesNothing
    <2>2. CASE Overlap
      <3>1. calls' # calls /\ Call(c)
        BY <2>2 DEF Overlap, Moves, Insert, Gate, Lookup, Match, Dedupe, Merge, InsertRow, Maintain,
                    Supersede, Get, Count, Rename, Link, Fold, List, Purge, Resume
      <3>2. ASSUME NEW i \in Used, rows'[i] # NoRow
            PROVE  rows'[i].conf >= rows[i].conf
                   /\ (rows'[i].content = rows[i].content \/ UpdateContent(c))
        <4>1. PICK r \in Row : r = rows[i] /\ i \in Ids /\ r.conf \in Nat
          BY DEF StoreInv, RowsOK, Used, Row
        <4>2. CASE UpdateContent(c)
          <5>1. PICK j \in Used, x \in Contents : rows' = [rows EXCEPT ![j].content = x]
            BY <4>2 DEF UpdateContent
          <5>2. DOMAIN r = {"key", "tier", "kind", "content", "conf", "sess"}
            BY DEF Row
          <5>3. [r EXCEPT !.content = x].conf = r.conf
            BY <5>2
          <5>4. rows'[i].conf = r.conf
            BY <4>1, <5>1, <5>3 DEF StoreInv, RowsOK
          <5> QED BY <4>1, <4>2, <5>4
        <4>3. CASE ~UpdateContent(c)
          <5>1. rows'[i] = rows[i]
            BY <3>1, <3>2, <4>1, <4>3
            DEF Call, CallInsert, CallSupersede, CallFold, Delete, StoreInv, RowsOK
          <5> QED BY <4>1, <5>1
        <4> QED BY <4>2, <4>3
      <3> QED BY <3>2 DEF LosesNothing
    <2> QED BY <2>1, <2>2
  <1> QED BY <1>1, Inductive, PTL DEF Spec, MergesLoseNothing

(***************************************************************************)
(* As long as calls do not overlap, a confident L2 fact replaces another    *)
(* confident one of its key only through memory_supersede, which keeps the  *)
(* old one as a version (the versioning branch of memory_insert_ex).        *)
(***************************************************************************)
THEOREM HistoryIsKept ==
  Spec => HistoryKept
  <1>1. StoreInductive /\ [Next]_vars => [~overlapped => HistoryStep]_vars
    BY MoveKeepsHistory DEF StoreInductive, SerialInv
  <1> QED BY <1>1, Inductive, PTL DEF Spec, HistoryKept

(***************************************************************************)
(* As long as calls do not overlap, a key with versions has a current row   *)
(* between calls, unless that row was removed or the insert of its          *)
(* memory_supersede was refused, failed or downgraded (memory_supersede,    *)
(* which renames the old row before it inserts the new one).                *)
(***************************************************************************)
THEOREM SupersedeFills ==
  Spec => []SupersedeLeavesCurrent
  <1>1. StoreInductive => SupersedeLeavesCurrent
    <2> SUFFICES ASSUME NEW me \in Callers, GapInv(me), Quiet, NEW i \in Used, ~Current(rows[i]),
                        rows[i].key.base \notin dropped \cup aborted,
                        RowsAt(Key(rows[i].key.base, <<>>)) = {}
                 PROVE  FALSE
      BY DEF StoreInductive, SerialInv, SupersedeLeavesCurrent, Gap
    <2>1. Filling(me, rows[i].key.base)
      BY DEF GapInv, Covered
    <2> QED BY <2>1 DEF Filling, Quiet, At
  <1> QED BY <1>1, Inductive, PTL
=============================================================================
