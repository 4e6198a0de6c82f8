------------------------------- MODULE AisOps -------------------------------
(***************************************************************************)
(* The calls a message constructor makes on its AisBitset, as data: a      *)
(* constructor run on a payload is the sequence of those calls, with the   *)
(* start and length the source writes at each of them.  AisDecoder runs    *)
(* such sequences on the cursor of src/src/libais/ais_bitset.cpp.          *)
(*                                                                         *)
(* A payload is its number of characters, the pad, whether all characters  *)
(* are armoring characters, and the values of those fields that decide     *)
(* what a constructor reads next.                                          *)
(***************************************************************************)
EXTENDS Integers, Sequences

MAX_BITS == 1192
MaxChars == MAX_BITS \div 6
MinMessageBits == 38

Errors == {"AIS_ERR_BAD_BIT_COUNT", "AIS_ERR_BAD_NMEA_CHR",
           "AIS_ERR_BAD_MSG_CONTENT", "AIS_ERR_MSG_TOO_LONG",
           "AIS_ERR_BAD_SUB_MSG", "AIS_ERR_BAD_SUB_SUB_MSG"}

(* ParseNmeaPayload: what num_chars and num_bits are after it. *)
Parses(p) == p.armored /\ p.chars <= MaxChars
NumChars(p) == IF Parses(p) THEN p.chars ELSE 0
NumBits(p) == IF Parses(p) THEN 6 * p.chars - p.pad ELSE 0

(* The constructor of AisMsg reads the header and sets no error. *)
HeaderRead(p) == Parses(p) /\ NumBits(p) >= MinMessageBits

Op(op, at, len) ==
  [op |-> op, at |-> at, len |-> len, ids |-> {}, what |-> ""]

(* ToUnsignedInt, ToInt and operator[]: << start, len >> *)
Reads(fields) ==
  [i \in DOMAIN fields |-> Op("read", fields[i][1], fields[i][2])]

Bit(at) == Reads(<< << at, 1 >> >>)

(* ToString *)
Text(at, len) == << Op("text", at, len) >>

(* ToAisPoint: longitude, then latitude. *)
LongitudeBits(size) == CASE size = 35 -> 18 [] size = 49 -> 25 [] size = 55 -> 28

Point(at, size) ==
  LET lng_bits == LongitudeBits(size) IN
  Reads(<< << at, lng_bits >>, << at + lng_bits, size - lng_bits >> >>)

SeekTo(at) == << Op("seek", at, 0) >>
SeekRelative(d) == << Op("skip", d, 0) >>

(* assert(bits.GetRemaining() == 0) *)
NoneRemaining == << Op("none_remaining", 0, 0) >>

(* The payload parsed again. *)
ParseAgain == << Op("new_bitset", 0, 0) >>

(* assert(bits.GetRemaining() < len) *)
RemainingBelow(len) == << Op("remaining_below", 0, len) >>

(* An assertion on values that the payload alone decides. *)
AssertThat(b) == IF b THEN << >> ELSE << Op("assert_false", 0, 0) >>

(* assert(message_id == id) *)
IdIn(ids) == << [Op("id", 0, 0) EXCEPT !.ids = ids] >>
Id(id) == IdIn({id})

(* if (!CheckStatus()) return; *)
CheckStatus == << Op("check_status", 0, 0) >>

(* status = s; return; *)
Return(s) == << [Op("return", 0, 0) EXCEPT !.what = s] >>
BadBitCount == Return("AIS_ERR_BAD_BIT_COUNT")
Ok == Return("AIS_OK")

SetStatus(s) == << [Op("set_status", 0, 0) EXCEPT !.what = s] >>

(* A constructor that gives up on a bad status and a bad length. *)
Guarded(length_ok, calls) ==
  CheckStatus \o IF length_ok THEN calls ELSE BadBitCount

(* AisMsg::AisMsg: it returns, and the constructor derived from it runs    *)
(* whatever the status.                                                    *)
AisMsg(p) ==
  CASE p.chars > MaxChars -> SetStatus("AIS_ERR_MSG_TOO_LONG")
    [] p.chars <= MaxChars /\ ~ p.armored -> SetStatus("AIS_ERR_BAD_NMEA_CHR")
    [] Parses(p) /\ NumBits(p) < MinMessageBits -> SetStatus("AIS_ERR_BAD_BIT_COUNT")
    [] Parses(p) /\ NumBits(p) >= MinMessageBits ->
         << Op("message_id", 0, 6) >> \o Reads(<< <<6, 2>>, <<8, 30>> >>)

(* What a SOTDMA communication state has after the timeout at "at". *)
Sotdma(p, at) ==
  Reads(<< <<at, 3>> >>) \o
  IF p.slot_timeout = 1
  THEN Reads(<< <<at + 3, 5>>, <<at + 8, 7>>, <<at + 15, 2>> >>)
  ELSE Reads(<< <<at + 3, 14>> >>)

Itdma(at) == Reads(<< <<at, 13>>, <<at + 13, 3>>, <<at + 16, 1>> >>)

=============================================================================
