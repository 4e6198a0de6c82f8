----------------------------- MODULE PyDecoding -----------------------------
(***************************************************************************)
(* ais.decode (src/src/libais/ais_py.cpp): the constructor runs on the     *)
(* payload, as in AisDecoding, and what it leaves becomes a dictionary or  *)
(* a DecodeError.  A failed assertion leaves neither.                      *)
(*                                                                         *)
(* The properties relate the dictionary to the reads of the constructor,   *)
(* which are in another file: that every member shown was read, that every *)
(* member read is shown, under its own name and in its own place.          *)
(***************************************************************************)
EXTENDS AisDecoding, PyDictMessages, PyDictBinary

VARIABLES
  answer,  \* "none" before the constructor has ended
  dict     \* the entries of the dictionary returned

pyVars == << vars, answer, dict >>

(* The grand dispatcher: only these have a constructor. *)
KnownToDecode(p) == p.message_id \in 1 .. 27

PyCalls(p) == IF KnownToDecode(p) THEN ConstructorCalls(p) ELSE << >>

PyInit ==
  /\ Init
  /\ answer = "none"
  /\ dict = << >>

(* The constructor, and the append functions: 367:22 always returns an     *)
(* error, 6:1:25 does so without cargo.                                    *)
Accepted(p) ==
  /\ status = "AIS_OK"
  /\ ~ Constructs(p, 367, 22)
  /\ ~ (Constructs(p, 1, 25) /\ p.message_id = 6 /\ NumBits(p) < 117)

ToPyDict ==
  /\ Ended /\ ~ aborted /\ answer = "none"
  /\ Accepted(payload)
  /\ answer' = "dict"
  /\ dict' = Header \o CASE payload.message_id = 6 -> Dict6(payload)
                         [] payload.message_id = 8 -> Dict8(payload)
                         [] OTHER -> PlainDict(payload)
  /\ UNCHANGED vars

(* The keys that are already in the dictionary go with it. *)
RaiseDecodeError ==
  /\ Ended /\ ~ aborted /\ answer = "none"
  /\ ~ Accepted(payload)
  /\ answer' = "DecodeError"
  /\ UNCHANGED << vars, dict >>

Construct == Next /\ UNCHANGED << answer, dict >>

PyNext == Construct \/ ToPyDict \/ RaiseDecodeError

PySpec == PyInit /\ [][PyNext]_pyVars

-----------------------------------------------------------------------------

(* The fields that make up the members of an entry. *)
FieldsIn(bits) == UNION {Bits(f) : f \in {f \in Range(fields) : Bits(f) \subseteq bits}}

(* A 26 too short for all it says it has reads the same bits as header,    *)
(* address and communication state: keys cannot be told by their bits.     *)
ReadAgain(p) == p.message_id = 26 /\ NumBits(p) < 106

(* Members the constructor does not read, on some of its branches.         *)
NeverRead(p) ==
  LET n == NumBits(p) IN
  CASE p.message_id = 15 /\ NumChars(p) = 15 -> 88 .. 159
    [] p.message_id = 15 /\ NumChars(p) = 18 -> 108 .. 159
    [] p.message_id = 21 /\ n = 268 -> 268 .. 271
    [] p.message_id = 24 /\ p.part_num = 1 /\ n = 160 -> 40 .. 167
    [] Constructs(p, 1, 3) /\ p.message_id = 6 /\ n = 104 -> 104 .. 167
    [] Constructs(p, 1, 12) /\ p.message_id = 6 -> 88 .. 359
    [] OTHER -> {}

(* What a caller gets was read from the payload.  ais_py.cpp shows members *)
(* without a look at the length of the message and trusts the flags the    *)
(* constructor has set.  All dictionaries but these are free of members    *)
(* it has not read: the stations a 15 does not have, the last flags of a   *)
(* 21 of 268 bits, part B of a 24 of 160 bits, the end of a short 6:1:3,   *)
(* and 6:1:12, whose constructor reads nothing at all.  The constructors   *)
(* named here set their members to 0 first: the caller sees a 0 or an      *)
(* empty text that no payload held.  For a member without an initializer   *)
(* it would be what was in the memory of the object.                       *)
ShowsOnlyRead ==
  (answer = "dict" /\ ~ ReadAgain(payload)) =>
    UNION {bits \ FieldsIn(bits) : bits \in Visible(dict)} = NeverRead(payload)

-----------------------------------------------------------------------------
(* Members that no key shows: spare bits, the data of binary messages, and *)
(* what was forgotten or given up.                                         *)

HiddenPlain(p) ==
  LET n == NumBits(p) IN
  CASE p.message_id \in {7, 13} -> {38, 39}
    [] p.message_id = 9 -> {148}
    [] p.message_id = 12 -> 72 + 6 * ((n - 72) \div 6) .. n - 1
    [] p.message_id = 17 -> 80 .. 111 \cup 117 .. 119
    [] p.message_id = 18 /\ ~ p.unit_flag -> {149, 150}
    [] p.message_id = 20 ->
         CASE n = 72 -> {70, 71}
           [] n \in 100 .. 108 -> 100 .. n - 1
           [] n \in 130 .. 138 -> 130 .. n - 1
           [] OTHER -> {}
    [] p.message_id = 21 /\ n >= 272 -> 272 + 6 * ((n - 272) \div 6) .. n - 1
    [] p.message_id = 22 -> {139}
    [] p.message_id = 24 /\ p.part_num = 0 /\ n = 168 -> 160 .. 167
    [] p.message_id = 24 /\ p.part_num = 1 /\ n = 160 -> 40 .. 159
    [] p.message_id = 25 -> {38, 39}
    [] p.message_id = 26 ->
         {38, 39, n - 20} \cup IF p.itdma THEN {} ELSE n - 17 .. n - 15
    [] OTHER -> {}

Hidden6(p) ==
  CASE p.fi = 4 -> 258 .. 351
    [] p.fi = 5 -> {71} \cup 98 .. 167
    [] p.fi = 20 -> {138} \cup IF p.services_known THEN {} ELSE 139 .. 190
    [] p.fi = 25 ->
         UNION {100 + 17 * i .. 103 + 17 * i : i \in 0 .. (NumBits(p) - 100) \div 17 - 1}
    [] OTHER -> {}

(* Spare bits and, of a polyline, the scale and the last point read.       *)
HiddenArea(p, kind, start) ==
  LET at == start + 3
      last == at + 2 + 20 * (p.points - 1)
  IN
  CASE kind = Circle -> at + 66 .. at + 83
    [] kind = Rect -> at + 79 .. at + 83
    [] kind \in Poly -> {at, at + 1, at + 82, at + 83}
                          \cup IF p.points = 4 THEN {} ELSE last .. last + 19
    [] OTHER -> {}

(* The headers of all reports but those of the first kind, and the         *)
(* currents of all reports but the last that has some.                     *)
HiddenReports(p) ==
  LET reports == 0 .. (NumBits(p) - 56) \div 112 - 1
      at(i) == 56 + 112 * i + 27
      currents(kind) == CASE kind = 4 -> 78 [] kind = 5 -> 66 [] kind = 6 -> 84
      with == {i \in reports : Kind(p, i) \in 4 .. 6}
  IN UNION {at(i) - 27 .. at(i) - 1 : i \in {i \in reports : Kind(p, i) # 0}}
     \cup UNION {at(i) .. at(i) + currents(Kind(p, i)) - 1 :
                   i \in {i \in with : \E j \in with : j > i}}

Hidden8(p) ==
  LET n == NumBits(p)
      application == << p.dac, p.fi >>
  IN
  CASE application = << 1, 11 >> -> 105 .. 120 \cup 144 .. 152 \cup 335 .. 343
    [] application = << 1, 21 >> -> {56}
    [] application = << 1, 22 >> ->
         93 .. 110 \cup UNION {HiddenArea(p, Kind(p, i), 111 + 87 * i) :
                                 i \in 0 .. (n - 111) \div 87 - 1}
    [] application = << 1, 24 >> -> 139 .. 168
    [] application = << 1, 26 >> -> HiddenReports(p)
    [] application = << 1, 29 >> -> 66 + 6 * ((n - 66) \div 6) .. n - 1
    [] application = << 1, 31 >> -> 350 .. 359
    [] application = << 367, 23 >> -> {167}
    [] application = << 367, 25 >> -> {95}
    [] application = << 367, 33 >> ->
         UNION {LET at == 56 + 112 * i + 27 IN
                  CASE Kind(p, i) = 0 -> at .. at + 5 \cup at + 61 .. at + 63
                    [] Kind(p, i) = 10 -> at + 57 .. at + 59
                    [] OTHER -> {} :
                  i \in 0 .. (n - 56) \div 112 - 1}
    [] OTHER -> {}

Hidden(p) == CASE p.message_id = 6 -> Hidden6(p)
               [] p.message_id = 8 -> Hidden8(p)
               [] OTHER -> HiddenPlain(p)

(* Nothing else is lost between the constructor and the caller: every      *)
(* field that was read is part of a member shown, and no list or key set   *)
(* later takes the place of one set before, but for the currents of 1:26   *)
(* and the spare bit of 6:1:5.                                             *)
ShowsAllRead ==
  (answer = "dict" /\ ~ ReadAgain(payload)) =>
    BitsRead \ UNION {FieldsIn(bits) : bits \in Visible(dict)} = Hidden(payload)

(* Keys that show another member than the one they are named after: the    *)
(* wind gust of 8:1:11, the duration of 8:1:22, the second port of 8:1:24, *)
(* the spare2 of 6:1:4 and everything in 6:1:5.                            *)
Misnamed(p) ==
  CASE Constructs(p, 1, 4) /\ p.message_id = 6 -> 258 .. 351
    [] Constructs(p, 1, 5) /\ p.message_id = 6 -> {71} \cup 98 .. 118
    [] Constructs(p, 1, 11) /\ p.message_id = 8 -> 144 .. 152
    [] Constructs(p, 1, 22) /\ p.message_id = 8 -> 93 .. 110
    [] Constructs(p, 1, 24) /\ p.message_id = 8 -> 139 .. 168
    [] OTHER -> {}

(* Every other key has the value its name says.  Keys and members are      *)
(* compared by the bits they stand for, not by their spelling: that two    *)
(* keys of the air draught report of 8:1:26 read "int trend" and "int      *)
(* utc_day_forecast" (ais_py.cpp) does not show here.                      *)
OwnKeys ==
  answer = "dict" =>
    UNION {dict[i].key : i \in {i \in DOMAIN dict : dict[i].key # dict[i].bits}}
      = Misnamed(payload)

(* The bits of the i-th report of 1:26 and 367:33, from 1. *)
ReportBits(i) == 56 + 112 * (i - 1) .. 55 + 112 * i

OutsideReports(p, i) ==
  LET at == 56 + 112 * (i - 1) + 27 IN
  IF p.fi # 26 THEN {}
  ELSE CASE Kind(p, i - 1) = 4 -> at .. at + 77
         [] Kind(p, i - 1) = 5 -> at .. at + 65
         [] Kind(p, i - 1) = 6 -> at .. at + 83
         [] OTHER -> {}

(* Two reports in one message do not mix: what was read of the i-th report *)
(* is in the i-th dict of the list and nowhere else, though all of them    *)
(* use the same names.  Only the currents of 1:26 are put into the dict of *)
(* the message.                                                            *)
OwnReports ==
  (answer = "dict" /\ payload.message_id = 8
   /\ << payload.dac, payload.fi >> \in {<< 1, 26 >>, << 367, 33 >>})
  => \A i \in 1 .. (NumBits(payload) - 56) \div 112 :
       /\ \A e \in Range(dict) :
            (e.in # << >> /\ e.in[1] = << "reports", i >>) => e.bits \subseteq ReportBits(i)
       /\ UNION {e.bits \cap ReportBits(i) :
                   e \in {e \in Range(dict) : e.in = << >> \/ e.in[1] # << "reports", i >>}}
            = OutsideReports(payload, i)

Unfinished(p) ==
  IF Constructs(p, 1, 26) /\ p.message_id = 8
  THEN Kinds(p, 56, 112) \cap {5, 6} # {}
  ELSE FALSE

(* A list given to the caller has a value in each of its slots: PyList_New *)
(* leaves them NULL.  (Currents of 1:26 that are not three, in slots for   *)
(* three, are given to the caller with a NULL in the last.)  And its       *)
(* reference is given up, so that it goes with its dict (not in 367:33).   *)
ListsWhole ==
  answer = "dict" =>
    /\ (\E i \in DOMAIN dict : dict[i].filled # dict[i].size) <=> Unfinished(payload)
    /\ (\E i \in DOMAIN dict : ~ dict[i].released)
         <=> (payload.message_id = 8 /\ Constructs(payload, 367, 33))

=============================================================================
