----------------------------- MODULE AisDecoder -----------------------------
(***************************************************************************)
(* An AisMsg under construction: the cursor of its AisBitset               *)
(* (src/src/libais/ais_bitset.cpp), with the assertions the debug build    *)
(* and the repository's own Makefiles keep, and the status of the message. *)
(* One step is one call of the constructor on the bitset.                  *)
(*                                                                         *)
(* fields is history: start and length of every read, in order.            *)
(***************************************************************************)
EXTENDS AisOps

CONSTANTS
  Payloads,  \* the payloads a caller may hand to the constructor
  Calls(_)   \* the calls the constructor makes on a payload

OpKinds == {"read", "text", "message_id", "seek", "skip", "new_bitset",
            "none_remaining", "remaining_below", "id", "assert_false",
            "check_status", "set_status", "return"}

Given == Errors \cup {"AIS_OK"}

(* Only a relative seek may go back. *)
Call == {c \in [op : OpKinds, at : Int, len : Nat, ids : SUBSET Nat, what : STRING] :
           /\ c.op # "skip" => c.at \in Nat
           /\ c.op \in {"set_status", "return"} => c.what \in Given}

IsPayload(p) == p.chars \in Nat /\ p.pad \in 0 .. 5 /\ p.armored \in BOOLEAN
                  /\ p.message_id \in Nat

ASSUME PayloadsAreSized == \A p \in Payloads : IsPayload(p)

ASSUME CallsAreCalls ==
  \A p \in Payloads : Calls(p) \in Seq(Call)

VARIABLES
  payload,     \* the argument of the constructor
  rest,        \* calls still to make
  position,    \* current_position of the bitset
  message_id,
  status,
  aborted,     \* an assertion has failed: the process is gone
  fields       \* history

vars == << payload, rest, position, message_id, status, aborted, fields >>

Init ==
  /\ payload \in Payloads
  /\ rest = Calls(payload)
  /\ position = 0
  /\ message_id = 0
  /\ status = "AIS_UNINITIALIZED"
  /\ aborted = FALSE
  /\ fields = << >>

Ended == rest = << >>

call == Head(rest)

CallTo(kinds) == ~ Ended /\ call.op \in kinds

(* Mutant of InPayload: the bound is that of the whole bitset. *)
InBitset(start, len) == position = start /\ start + len <= MAX_BITS

(* The assertions of ToUnsignedInt, ToInt, ToString and operator[]: the    *)
(* read starts at the cursor and stays in the characters (not in the bits, *)
(* which are up to five fewer).                                            *)
InPayload(start, len) == position = start /\ start + len <= 6 * NumChars(payload)

(* The assertion of a call, whatever else it does. *)
Holds ==
  CASE call.op = "read" -> call.len <= 32 /\ InPayload(call.at, call.len)
    [] call.op = "text" -> call.len % 6 = 0 /\ InPayload(call.at, call.len)
    [] call.op = "message_id" -> InPayload(call.at, call.len)
    [] call.op = "seek" -> call.at < NumBits(payload)
    [] call.op = "skip" -> position + call.at >= 0 /\ position + call.at < NumBits(payload)
    [] call.op = "none_remaining" -> position = NumBits(payload)
    [] call.op = "remaining_below" -> NumBits(payload) - position < call.len
    [] call.op = "assert_false" -> FALSE
    [] call.op = "id" -> message_id \in call.ids
    [] OTHER -> TRUE

Step == rest' = Tail(rest) /\ UNCHANGED << payload, aborted >>

Read ==
  /\ CallTo({"read", "text", "message_id"}) /\ Holds
  /\ position' = call.at + call.len
  /\ fields' = Append(fields, << call.at, call.len >>)
  /\ message_id' = IF call.op = "message_id" THEN payload.message_id ELSE message_id
  /\ Step
  /\ UNCHANGED status

Seek ==
  /\ CallTo({"seek", "skip"}) /\ Holds
  /\ position' = IF call.op = "seek" THEN call.at ELSE position + call.at
  /\ Step
  /\ UNCHANGED << message_id, status, fields >>

(* Ais21 and Ais6_1_40 parse the payload again, the former into a bitset   *)
(* of its own.                                                             *)
NewBitset ==
  /\ CallTo({"new_bitset"})
  /\ position' = 0
  /\ Step
  /\ UNCHANGED << message_id, status, fields >>

AssertionHolds ==
  /\ CallTo({"none_remaining", "remaining_below", "id"}) /\ Holds
  /\ Step
  /\ UNCHANGED << position, message_id, status, fields >>

AssertionFails ==
  /\ CallTo(OpKinds) /\ ~ Holds
  /\ aborted' = TRUE
  /\ rest' = << >>
  /\ UNCHANGED << payload, position, message_id, status, fields >>

StatusOk ==
  /\ CallTo({"check_status"})
  /\ status \in {"AIS_OK", "AIS_UNINITIALIZED"}
  /\ Step
  /\ UNCHANGED << position, message_id, status, fields >>

StatusBad ==
  /\ CallTo({"check_status"})
  /\ status \notin {"AIS_OK", "AIS_UNINITIALIZED"}
  /\ rest' = << >>
  /\ UNCHANGED << payload, position, message_id, status, aborted, fields >>

(* Mutant of GiveStatus: the call after it gives the status. *)
GiveStatusLate ==
  /\ CallTo({"set_status", "return"})
  /\ status' = IF Len(rest) > 1 THEN rest[2].what ELSE call.what
  /\ rest' = IF call.op = "return" THEN << >> ELSE Tail(rest)
  /\ UNCHANGED << payload, position, message_id, aborted, fields >>

GiveStatus ==
  /\ CallTo({"set_status", "return"})
  /\ status' = call.what
  /\ rest' = IF call.op = "return" THEN << >> ELSE Tail(rest)
  /\ UNCHANGED << payload, position, message_id, aborted, fields >>

Next == \/ Read \/ Seek \/ NewBitset \/ AssertionHolds \/ AssertionFails
        \/ StatusOk \/ StatusBad \/ GiveStatus

Spec == Init /\ [][Next]_vars

-----------------------------------------------------------------------------

TypeOK ==
  /\ IsPayload(payload)
  /\ rest \in Seq(Call)
  /\ position \in Nat
  /\ message_id \in Nat
  /\ status \in Given \cup {"AIS_UNINITIALIZED"}
  /\ aborted \in BOOLEAN
  /\ fields \in Seq(Nat \X Nat)

(* Whatever calls a constructor makes, in whatever order, and whatever     *)
(* values it branches on, the cursor and every field it reads stay in the  *)
(* characters of the payload (the assertions of ais_bitset.cpp together,   *)
(* with SeekTo and SeekRelative, which test against another number).       *)
CursorInPayload ==
  /\ position \in 0 .. 6 * NumChars(payload)
  /\ \A i \in DOMAIN fields : fields[i][1] + fields[i][2] <= 6 * NumChars(payload)

=============================================================================
