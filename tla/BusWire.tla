-------------------------------- MODULE BusWire --------------------------------
(***************************************************************************)
(* The frame header of the bus (server-go/bus/wire.go) and the module      *)
(* envelope inside its payload (module_protocol.go), as operators.  Flags  *)
(* are a set; bytes are left out, the lengths and references that the code *)
(* compares are kept, in the arithmetic of their width.                    *)
(***************************************************************************)
EXTENDS Integers, Sequences, FiniteSets, FiniteSetsExt

CONSTANTS
  HdrLen,      \* bytes of a frame header
  MsgHdrLen,   \* ModuleMessageHeaderLen
  MaxPayload,  \* bytes of the longest payload of one frame
  MaxBody,     \* ModuleMessageMaxBody
  RefWrap      \* values of a payload reference: 2^64 in the code

Placements == {"INLINE", "ARENA"}
Patterns == {"NOTIFICATION", "REQUEST", "REPLY", "CANCEL"}
Known == Placements \cup Patterns \cup {"CONTROL", "MORE"}

ExactlyOne(flags) == Cardinality(flags) = 1

(* The rules of Frame.Validate in its order, each with the reason given for
   a frame that breaks it. *)
Rules(f) ==
  LET placement == f.flags \cap Placements
      pattern == f.flags \cap Patterns
  IN << <<f.version, "ERR_VERSION">>,
        <<f.flags \subseteq Known, "ERR_FLAGS">>,
        <<ExactlyOne(pattern), "ERR_FLAGS">>,
        <<IF f.len > 0 THEN ExactlyOne(placement) ELSE placement = {}, "ERR_FLAGS">>,
        <<IF f.len > 0 THEN f.len <= MaxPayload ELSE f.ref = 0, "ERR_PAYLOAD_LEN">>,
        <<"MORE" \in f.flags => pattern \subseteq {"REQUEST", "REPLY"} /\ placement = {"INLINE"},
          "ERR_FLAGS">>,
        <<"ARENA" \notin f.flags => f.generation = 0, "ERR_FLAGS">>,
        <<("NOTIFICATION" \in f.flags) = (f.corr = 0), "ERR_CORRELATION">> >>

Validate(f) ==
  LET broken == {i \in DOMAIN Rules(f) : ~Rules(f)[i][1]} IN
  IF broken = {} THEN "OK" ELSE Rules(f)[Min(broken)][2]

(* Frame.CheckPlacement: the payload of a valid frame lies inside its slot,
   behind the header, or fits the arena. *)
CheckPlacement(f, slotSize, arenaSize) ==
  LET end == (f.ref + f.len) % RefWrap IN
  IF Validate(f) # "OK" THEN Validate(f)
  ELSE IF f.len = 0 THEN "OK"
  ELSE IF "INLINE" \in f.flags
       THEN IF end < f.ref \/ f.ref < HdrLen \/ end > slotSize THEN "ERR_PAYLOAD_LEN" ELSE "OK"
       ELSE IF f.len > arenaSize THEN "ERR_PAYLOAD_LEN" ELSE "OK"

(* Frame.Encode and Decode: what lies in the slot is the frame if it was fit
   to be sent; a reader of bytes that are no frame learns the reason only. *)
Encode(f, room) == IF room < HdrLen \/ Validate(f) # "OK" THEN 0 ELSE HdrLen

Decode(room, magic, f) ==
  IF room < HdrLen THEN "ERR_SHORT"
  ELSE IF ~magic THEN "ERR_MAGIC"
  ELSE Validate(f)

(***************************************************************************)
(* The frame that Publish, RequestFragment, ReplyFragment and Cancel hand  *)
(* to emit, and the reasons for which they and emit refuse to send it.     *)
(***************************************************************************)
EmittedFlags(call) ==
  {call.pattern} \cup (IF call.more THEN {"MORE"} ELSE {})
                 \cup (IF call.len > 0 THEN {"INLINE"} ELSE {})

EmittedFrame(call) ==
  [flags |-> EmittedFlags(call), version |-> TRUE, corr |-> call.corr,
   ref |-> IF call.len > 0 THEN HdrLen ELSE 0, len |-> call.len, generation |-> 0]

Misused(call) ==
  \/ call.pattern # "NOTIFICATION" /\ call.corr = 0
  \/ call.more /\ call.len = 0

Unfit(call, budget, slotSize) ==
  call.len > 0 /\ (call.len > budget \/ HdrLen + call.len > slotSize)
-----------------------------------------------------------------------------
(* ModuleMessage.valid, Encode and DecodeModuleMessage; room is what is left
   for the body. *)
MessageValid(m) ==
  /\ m.operation \in {"INVOKE", "RESULT"}
  /\ m.operation = "INVOKE" => m.status = "OK"
  /\ m.stage # 0 /\ m.flags = 0 /\ m.body <= MaxBody

DecodeMessage(present, magic, m) ==
  present >= MsgHdrLen /\ magic /\ MessageValid(m) /\ m.body <= present - MsgHdrLen

(* Mutant: a body that fills its last fragment announces another one. *)
FragmentsOneMore(length, budget) ==
  LET chunk == budget - MsgHdrLen
      parts == (length \div chunk) + 1
  IN [i \in 1 .. parts |-> [len |-> IF i < parts THEN chunk ELSE length - (parts - 1) * chunk,
                            more |-> i < parts]]

(* The loop of ModuleCaller.send and of replyModuleResult: a body in parts
   of what the budget leaves behind the message header, at least one part. *)
Fragments(length, budget) ==
  LET chunk == budget - MsgHdrLen
      parts == IF length = 0 THEN 1 ELSE (length + chunk - 1) \div chunk
  IN [i \in 1 .. parts |-> [len |-> IF i < parts THEN chunk ELSE length - (parts - 1) * chunk,
                            more |-> i < parts]]
=============================================================================
