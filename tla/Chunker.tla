------------------------------- MODULE Chunker -------------------------------
(***************************************************************************)
(* memory_refresh_chunks (memory_core_helpers_b.c): the text of a memory   *)
(* is cut into overlapping windows that end at a sentence if they can.  A  *)
(* character is a letter, a full stop, or the end of a line, which is a    *)
(* break and blank both.  A place is the number of characters before it.   *)
(***************************************************************************)
EXTENDS Integers, Sequences, SequencesExt, FiniteSetsExt

CONSTANTS
  MaxText,     \* bound: the length of a text
  Window,      \* CHUNK_CHARS
  Overlap,     \* OVERLAP_CHARS
  MaxPieces    \* MAX_CHUNKS

VARIABLES
  text, pos,
  pieces,      \* the chunks stored: [from, to]
  over

vars == <<text, pos, pieces, over>>
-----------------------------------------------------------------------------
Letter == "x"
Breaks == {".", "\n"}

Places(p) == p.from + 1 .. p.to
Blank(p) == \A k \in Places(p) : text[k] = "\n"

Init ==
  /\ text \in SeqOf({Letter, ".", "\n"}, MaxText)
  /\ pos = 0 /\ pieces = <<>> /\ over = FALSE

(* The last break of the window, or its end. *)
BreakAt ==
  LET end == IF pos + Window > Len(text) THEN Len(text) ELSE pos + Window
      stops == {k \in pos + 1 .. end : text[k] \in Breaks}
  IN  IF end < Len(text) /\ stops # {} THEN Max(stops) ELSE end

(* Mutant: the overlap is added. *)
NextAhead(at) == at + Overlap

(* "Ensure forward progress": back by the overlap, unless that is a whole window back. *)
NextPos(at) ==
  LET back == IF at > Overlap THEN at - Overlap ELSE 0
  IN  IF back <= (IF at > Window THEN at - Window ELSE 0) THEN at ELSE back

(* A pass of the loop.  A blank window stores nothing. *)
Cut ==
  /\ ~over /\ pos < Len(text) /\ Len(pieces) < MaxPieces
  /\ LET piece == [from |-> pos, to |-> BreakAt]
     IN  /\ pieces' = IF Blank(piece) THEN pieces ELSE Append(pieces, piece)
         /\ IF BreakAt >= Len(text) THEN pos' = Len(text) ELSE pos' = NextPos(BreakAt)
  /\ UNCHANGED <<text, over>>

(* After the loop a text without a chunk is stored whole. *)
Finish ==
  /\ ~over /\ (pos >= Len(text) \/ Len(pieces) = MaxPieces)
  /\ over' = TRUE
  /\ pieces' = IF pieces = <<>> /\ text # <<>> THEN <<[from |-> 0, to |-> Len(text)]>> ELSE pieces
  /\ UNCHANGED <<text, pos>>

Next == Cut \/ Finish

Spec == Init /\ [][Next]_vars

\* The loop of one call, which nothing holds up.
FairSpec == Spec /\ WF_vars(Next)
-----------------------------------------------------------------------------
\* The chunks are windows of the text.
TypeOK ==
  /\ pos \in 0 .. Len(text) /\ Len(pieces) <= MaxPieces
  /\ \A i \in DOMAIN pieces : pieces[i].from < pieces[i].to /\ pieces[i].to <= Len(text)

\* Every letter is in a chunk, but those after the last of MaxPieces chunks.
NothingSkipped ==
  over => \A k \in DOMAIN text :
            text[k] # Letter \/ \E i \in DOMAIN pieces : k \in Places(pieces[i])
                             \/ (Len(pieces) = MaxPieces /\ \A j \in DOMAIN pieces : k > pieces[j].to)

\* A window is stored twice only when its sentence ends within the overlap.
RepeatsAreShort ==
  \A i, j \in DOMAIN pieces : i < j /\ pieces[i] = pieces[j] => pieces[i].to - pieces[i].from <= Overlap

\* "Ensure forward progress": the loop ends.
Ends == <>over
=============================================================================
