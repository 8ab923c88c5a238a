--------------------------- MODULE MCMemoryStore ---------------------------
(***************************************************************************)
(* Small instances of MemoryStore.  "k" and "K" spell one key; "k" and     *)
(* "kk" are near-duplicates.  The facts "a" and "b" contradict each other; *)
(* "e" is ephemeral, "p" private, "x" refused.                             *)
(*                                                                         *)
(* In "alone" every call returns before the next one starts; in "race" the *)
(* calls overlap, on one key, two contents and a database that works; they *)
(* are L2 inserts, supersedes, deletes and updates, and no write finds     *)
(* maintenance due.                                                        *)
(***************************************************************************)
EXTENDS MemoryStore

CONSTANT First  \* the caller that makes the first call

MCNormalize == [r \in RawKeys |-> IF r = "K" THEN "k" ELSE r]
MCSimilar == {<<"k", "kk">>, <<"kk", "k">>}
MCClash == {<<"a", "b">>, <<"b", "a">>}
MCContents == {{"a"}, {"b"}, {"e"}, {"x"}}
MCFoldContents == {{"a"}, {"e"}}

VARIABLE instance
allvars == <<instance, vars>>

OnOneKey(f) == f.key.base \in {"", "k"} /\ f.content \in {{"a"}, {"b"}} /\ f.conf > 7
Callable(f) == f.fn = "insert" => f.tier = "L2"

Small ==
  /\ calls = 0 => \A c \in Callers \ {First} : pc'[c] = "idle"
  /\ instance = "alone" => (calls' # calls => \A c \in Callers : pc[c] = "idle")
                           /\ \A c \in Callers \ {First} : pc'[c] = "idle"
  /\ instance = "race" => /\ fails' = 0
                          /\ \A c \in Callers : stack[c] = <<>> /\ stack'[c] # <<>>
                                               => Callable(stack'[c][1])
                          /\ \A c \in Callers : pc[c] = "maintain" /\ pc'[c] = "return"
                                               => rows' = rows
                          /\ \A c \in Callers : \A j \in DOMAIN stack'[c] : OnOneKey(stack'[c][j])
                          /\ \A i \in {j \in Ids : rows'[j] # NoRow} : OnOneKey(rows'[i])

MCInit == instance \in {"alone", "race"} /\ Init
MCNext == Next /\ Small /\ UNCHANGED instance
MCSpec == MCInit /\ [][MCNext]_allvars
=============================================================================
