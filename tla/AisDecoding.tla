---------------------------- MODULE AisDecoding ----------------------------
(***************************************************************************)
(* AisDecoder with the constructors of AisMessages: what becomes of a      *)
(* payload of any length, with any of the values they branch on.           *)
(***************************************************************************)
EXTENDS AisDecoder, AisMessages, AisBinary6, AisBinary8, FiniteSetsExt

(* CreateAisMsg, and for the binary messages also the Python module's      *)
(* dispatchers, and a direct construction of those no dispatcher knows.    *)
ConstructorCalls(p) ==
  CASE p.message_id \notin {6, 8} -> AisMsg(p) \o Constructor(p)
    [] p.message_id = 6 /\ p.caller = "cpp" -> CreateAisMsg6(p)
    [] p.message_id = 6 /\ p.caller = "py" -> ais6_to_pydict(p)
    [] p.message_id = 6 /\ p.caller = "direct" -> Construct6(p, p.dac, p.fi)
    [] p.message_id = 8 /\ p.caller = "cpp" -> CreateAisMsg8(p)
    [] p.message_id = 8 /\ p.caller = "py" -> ais8_to_pydict(p)
    [] p.message_id = 8 /\ p.caller = "direct" -> Construct8(p, p.dac, p.fi)

(* A message with one of the values a caller can find in each field, and   *)
(* the constructors that are called directly, on their own messages.       *)
IsMessage(p) ==
  /\ IsPayload(p)
  /\ p.slot_timeout \in 0 .. 7 /\ p.part_num \in 0 .. 3 /\ p.points \in 1 .. 4
  /\ {p.itdma, p.unit_flag, p.addressed, p.use_app_id, p.type_wx_report} \subseteq BOOLEAN
  /\ p.dac \in Nat /\ p.fi \in Nat
  /\ p.kinds \in Seq(IF p.fi = 22 THEN 0 .. 7 ELSE 0 .. 15) /\ p.kinds # << >>
  /\ p.caller \in {"cpp", "py", "direct"}
  /\ p.caller = "direct"
      => << p.message_id, p.dac, p.fi >> \in {<<6, 0, 0>>, <<8, 366, 22>>, <<8, 366, 56>>}

ASSUME MessagesAreConstructed ==
  \A p \in Payloads :
    p.message_id \in 1 .. 27 => IsMessage(p) /\ Calls(p) = ConstructorCalls(p)

Constructs(p, dac, fi) ==
  << p.dac, p.fi >> = << dac, fi >>
  /\ CASE p.caller = "direct" -> TRUE
       [] p.caller = "cpp" -> Application(p) \in
            IF p.message_id = 6 THEN CppApplications6 ELSE CppApplications8
       [] p.caller = "py" -> Application(p) \in
            IF p.message_id = 6 THEN PyApplications6 ELSE PyApplications8

(* The sub-messages of an accepted message, and their kinds.               *)
NumSub(p, from, size) == (NumBits(p) - from) \div size

Kinds(p, from, size) == {Kind(p, i) : i \in 0 .. NumSub(p, from, size) - 1}

(* A reserved kind ends the area notices of 366 and 367. *)
KindsDecoded(p, from, size) ==
  {Kind(p, i) : i \in {j \in 0 .. NumSub(p, from, size) - 1 :
                         \A h \in 0 .. j : Kind(p, h) \notin ReservedAreas}}

(* Cargo without a layout; tidal windows of any accepted length.           *)
Unguarded6(p) ==
  LET n == NumBits(p) IN
  \/ Constructs(p, 1, 25) /\ n \in 100 .. 576 /\ (n - 100) % 17 = 0
     /\ Kinds(p, 100, 17) \cap ({0} \cup 6 .. 15) # {}
  \/ Constructs(p, 1, 32) /\ n = 350

(* Sub-messages with bits they do not read and do not seek over, and       *)
(* fields that are not where the one before them ended.  366:22 and 366:56 *)
(* are constructed without a look at the header; 200:50 is taken for       *)
(* 200:55.                                                                 *)
Unguarded8(p) ==
  LET n == NumBits(p) IN
  \/ Constructs(p, 1, 0) /\ n >= 74 /\ (n - 68) % 6 # 0
  \/ Constructs(p, 1, 17) /\ n = 56
  \/ Constructs(p, 1, 21) /\ n = 360 /\ p.type_wx_report
  \/ Constructs(p, 1, 22) /\ n \in 198 .. 984
     /\ \E i \in 0 .. NumSub(p, 111, 87) - 2 : Kind(p, i) \in ReservedAreas
  \/ Constructs(p, 1, 27) /\ n \in 117 .. 997 /\ (n - 117) % 55 = 0
  \/ Constructs(p, 200, 21) /\ n = 248
  \/ Constructs(p, 200, 22) /\ n = 232
  \/ Constructs(p, 200, 23) /\ n = 256
  \/ p.caller = "py" /\ Application(p) = << 200, 50 >>
  \/ p.caller = "direct" /\ p.dac = 366 /\ (~ Ais8Read(p) \/ (p.fi = 56 /\ n = 56))
  \/ /\ Constructs(p, 366, 22) /\ Ais8Read(p) /\ n \in 209 .. 1019
     /\ \/ Circle \in KindsDecoded(p, 111, 90)
        \/ p.points < 4 /\ KindsDecoded(p, 111, 90) \cap Poly # {}
        \/ (n - 111) % 90 # 0 /\ Kinds(p, 111, 90) \cap ReservedAreas = {}
  \/ /\ Constructs(p, 367, 22) /\ n \in 216 .. 1016 /\ (n - 120) % 96 < 6
     /\ p.points < 4 /\ KindsDecoded(p, 120, 96) \cap Poly # {}

(* Payloads on which an assertion fails though the length was accepted, or *)
(* before it was looked at.                                                *)
Unguarded(p) ==
  LET id == p.message_id
      n == NumBits(p)
      room == 6 * NumChars(p)
  IN
  \/ HeaderRead(p) /\ id = 15 /\ NumChars(p) \in {15, 27} /\ p.pad # 2
  \/ HeaderRead(p) /\ id = 20 /\ n \in 73 .. 159 \ (100 .. 108 \cup 130 .. 138)
  \/ ~ HeaderRead(p) /\ id = 21
  \/ HeaderRead(p) /\ id = 25 /\ n >= 40
     /\ \/ p.addressed /\ room < 70
        \/ p.addressed /\ p.use_app_id /\ room < 86
        \/ ~ p.addressed /\ p.use_app_id /\ room < 56
  \/ HeaderRead(p) /\ id = 26 /\ n >= 52
     /\ \/ p.addressed /\ room < 70
        \/ ~ p.addressed /\ p.use_app_id /\ room < 56
  \/ id = 6 /\ Unguarded6(p)
  \/ id = 8 /\ Unguarded8(p)

(* The assertions fail on exactly these payloads: everywhere else the      *)
(* length guards at the head of the constructors (ais*.cpp) are enough for *)
(* all the reads, seeks and end-of-message assertions after them, on every *)
(* branch.                                                                 *)
AssertsFailExactly == Ended => (aborted <=> Unguarded(payload))

Bits(field) == field[1] .. field[1] + field[2] - 1

BitsRead == UNION {Bits(fields[i]) : i \in DOMAIN fields}

NumBitsRead == FoldLeft(LAMBDA sum, f : sum + f[2], 0, fields)

(* Polylines of an area notice 1:22 that end before the fourth point. *)
UnusedPoints(p) ==
  UNION {LET start == 111 + 87 * i IN start + 5 + 20 * p.points .. start + 84 :
           i \in {j \in 0 .. (NumBits(p) - 111) \div 87 - 1 : Kind(p, j) \in Poly}}

SpareOf6And8(p) ==
  LET n == NumBits(p)
      application == << p.message_id, p.dac, p.fi >>
  IN
  CASE application = << 6, 1, 12 >> -> 88 .. n - 1
    [] application = << 8, 1, 22 >> ->
         UnusedPoints(p) \cup 111 + 87 * ((n - 111) \div 87) .. n - 1
    [] application = << 8, 1, 26 >> -> 56 + 112 * ((n - 56) \div 112) .. n - 1
    [] application = << 8, 367, 22 >> -> 120 + 96 * ((n - 120) \div 96) .. n - 1
    [] OTHER -> {}

(* Bits of an accepted message that no member of it comes from.            *)
Spare(p) ==
  LET n == NumBits(p) IN
  CASE p.message_id = 15 /\ NumChars(p) = 18 -> 108 .. n - 1
    [] p.message_id = 16 /\ n = 168 -> 144 .. 167
    [] p.message_id = 17 -> 112 .. 116 \cup 120 .. n - 1
    [] p.message_id = 22 /\ p.addressed -> 99 .. 103 \cup 134 .. 138
    [] p.message_id \in {6, 8} -> SpareOf6And8(p)
    [] OTHER -> {}

(* The end of 8:1:11 is salinity, or spare bits with ice. *)
ReadTwice(p) ==
  IF << p.message_id, p.dac, p.fi >> = << 8, 1, 11 >> THEN 346 .. 351 ELSE {}

(* A message accepted with AIS_OK has read every bit of its payload        *)
(* exactly once, but for the spare bits: no field is left out, and none    *)
(* overlaps another, across all the branches, all the kinds of             *)
(* sub-messages and the read-ahead of Ais22.                               *)
(* (Messages 25 and 26 leave their binary data unread; Ais15 of 18         *)
(* characters may read pad.)                                               *)
EveryBitOnce ==
  (Ended /\ status = "AIS_OK" /\ payload.message_id \notin {25, 26}
   /\ ~ (payload.message_id = 15 /\ payload.pad > 0))
  => /\ BitsRead \cup Spare(payload) = 0 .. NumBits(payload) - 1
     /\ NumBitsRead + Cardinality(Spare(payload))
          = NumBits(payload) + Cardinality(ReadTwice(payload))

(* Bits of pad are never read as part of a field, though the assertions    *)
(* allow it ("TODO: Prefer to use num_bits", ais_bitset.cpp), unless the   *)
(* length test misses the pad: Ais15 of 18 characters, and the addresses   *)
(* and application ids of 25 and 26, which no length test covers.          *)
NoPadRead ==
  (payload.message_id \notin {25, 26} /\ ~ Unguarded(payload)
   /\ ~ (payload.message_id = 15 /\ NumChars(payload) = 18))
  => \A i \in DOMAIN fields : fields[i][1] + fields[i][2] <= NumBits(payload)

(* The message 17 without data, the Ais6 and Ais8 that served to dispatch  *)
(* what is not dispatched, and 8:1:19, whose own status hides it.          *)
LeftOpen(p) ==
  \/ p.message_id = 17 /\ NumBits(p) = 80
  \/ p.message_id = 6 /\ Ais6Read(p) /\ ~ Constructs(p, p.dac, p.fi)
  \/ p.message_id = 8 /\ Ais8Read(p)
     /\ (~ Constructs(p, p.dac, p.fi) \/ Constructs(p, 1, 19))

(* Every constructor that ends without an assertion has settled the        *)
(* status (ais.h: "AIS_OK or error code"), except that of a message 17     *)
(* without data, of 8:1:19, and of applications no dispatcher constructs;  *)
(* and the status is AIS_OK only if the header was read.                   *)
Decided ==
  (Ended /\ ~ aborted) =>
    /\ status = "AIS_UNINITIALIZED" <=> LeftOpen(payload)
    /\ status = "AIS_OK" => HeaderRead(payload) /\ message_id = payload.message_id

(* ais6_to_pydict and ais8_to_pydict raise DecodeError for what they       *)
(* constructed with a bad status and for what they did not construct.  The *)
(* status of 367:22 is thrown away.                                        *)
Raised ==
  /\ payload.message_id \in {6, 8} /\ payload.caller = "py"
  /\ Ended /\ ~ aborted
  /\ status # "AIS_OK" \/ Constructs(payload, 367, 22)

(* ais_py.cpp: "If we don't know how to decode it, just return the dac,    *)
(* fi".                                                                    *)
UnknownReturned ==
  (/\ payload.message_id = 8 /\ Ais8Read(payload)
   /\ payload.caller = "py" /\ Application(payload) \notin PyApplications8)
  => ~ Raised

=============================================================================
