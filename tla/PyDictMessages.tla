--------------------------- MODULE PyDictMessages ---------------------------
(***************************************************************************)
(* The dictionaries of messages 1 to 5, 7 and 9 to 27, after the header    *)
(* (src/src/libais/ais_py.cpp).  The flags that guard a member (_valid,    *)
(* group_valid, pos_valid) are those the constructor sets where it reads   *)
(* it.                                                                     *)
(***************************************************************************)
EXTENDS PyDict

ais1_2_3_to_pydict(p) == Own(38, 167)

ais4_11_to_pydict(p) == Own(38, 167)

ais5_to_pydict(p) == Own(38, 423)

(* One tuple of dest_mmsi and seq_num for each acknowledgement. *)
ais7_13_to_pydict(p) ==
  FullList("acks", Numbers((NumBits(p) - 40) \div 32, 40, 32, 32))

(* commstate_flag is not shown. *)
ais9_to_pydict(p) == Own(38, 147) \o Own(149, 167)

ais10_to_pydict(p) == Own(38, 71)

ais12_to_pydict(p) == Own(38, 71 + 6 * ((NumBits(p) - 72) \div 6))

(* Mutant of ais14_to_pydict: spare2 is left out, as in message 12. *)
ais14_no_spare(p) == Own(38, 39 + 6 * ((NumBits(p) - 40) \div 6))

ais14_to_pydict(p) == Own(38, NumBits(p) - 1)

(* All members, whatever the length. *)
ais15_to_pydict(p) == Own(38, 159)

(* Mutant of ais16_to_pydict: the second station without a look at -1. *)
ais16_both(p) == Own(38, 91) \o Own(92, 143)

(* spare2 or the second station, whichever is not -1. *)
ais16_to_pydict(p) ==
  Own(38, 91) \o IF NumChars(p) = 16 THEN Own(92, 95) ELSE Own(92, 143)

(* "TODO(schwehr): incomplete" *)
ais17_to_pydict(p) == Own(38, 79)

(* sync_state is not shown, commstate_cs_fill is. *)
ais18_to_pydict(p) ==
  Own(38, 148) \o IF p.unit_flag THEN Own(149, 167) ELSE Own(151, 167)

ais19_to_pydict(p) == Own(38, 311)

ais20_to_pydict(p) ==
  LET n == NumBits(p)
      list_size == CASE n = 72 -> 1
                     [] n \in 100 .. 108 -> 2
                     [] n \in 130 .. 138 -> 3
                     [] OTHER -> 4
  IN Own(38, 39) \o FullList("reservations", Numbers(list_size, 40, 30, 30))

(* The extra characters are part of the name. *)
ais21_to_pydict(p) ==
  Own(38, 271) \o Own(272, 271 + 6 * ((NumBits(p) - 272) \div 6))

(* Not the bit that says which of the two it is. *)
ais22_to_pydict(p) ==
  Own(38, 68)
  \o (IF p.addressed THEN Own(69, 98) \o Own(104, 133) ELSE Own(69, 138))
  \o Own(140, 167)

ais23_to_pydict(p) == Own(38, 159)

(* Part A has the name only.  The members of part B are keys of their own: *)
(* a constructor that takes it for a part A reads other members there.     *)
ais24_to_pydict(p) ==
  Own(38, 39)
  \o IF p.part_num = 0
     THEN Own(40, 159)
     ELSE Own(40, 47) \o Own(48, 89) \o Own(90, 131) \o Own(132, 140)
          \o Own(141, 149) \o Own(150, 155) \o Own(156, 161) \o Own(162, 167)

(* Of 25 and 26: where it goes, and what it is, but not the data. *)
Addressing(p) ==
  (IF p.addressed THEN Own(40, 69) ELSE << >>)
  \o (CASE ~ p.use_app_id -> << >>
        [] p.use_app_id /\ p.addressed -> Own(70, 85)
        [] p.use_app_id /\ ~ p.addressed -> Own(40, 55))

ais25_to_pydict(p) == Addressing(p)

(* sync_state, but neither commstate_flag nor slot_timeout. *)
ais26_to_pydict(p) ==
  LET n == NumBits(p) IN
  Addressing(p) \o Own(n - 19, n - 18)
  \o IF p.itdma THEN Own(n - 17, n - 1) ELSE Own(n - 14, n - 1)

ais27_to_pydict(p) == Own(38, 95)

(* The grand dispatcher of decode(), without messages 6 and 8. *)
PlainDict(p) ==
  LET id == p.message_id IN
  CASE id \in 1 .. 3 -> ais1_2_3_to_pydict(p)
    [] id \in {4, 11} -> ais4_11_to_pydict(p)
    [] id = 5 -> ais5_to_pydict(p)
    [] id \in {7, 13} -> ais7_13_to_pydict(p)
    [] id = 9 -> ais9_to_pydict(p)
    [] id = 10 -> ais10_to_pydict(p)
    [] id = 12 -> ais12_to_pydict(p)
    [] id = 14 -> ais14_to_pydict(p)
    [] id = 15 -> ais15_to_pydict(p)
    [] id = 16 -> ais16_to_pydict(p)
    [] id = 17 -> ais17_to_pydict(p)
    [] id = 18 -> ais18_to_pydict(p)
    [] id = 19 -> ais19_to_pydict(p)
    [] id = 20 -> ais20_to_pydict(p)
    [] id = 21 -> ais21_to_pydict(p)
    [] id = 22 -> ais22_to_pydict(p)
    [] id = 23 -> ais23_to_pydict(p)
    [] id = 24 -> ais24_to_pydict(p)
    [] id = 25 -> ais25_to_pydict(p)
    [] id = 26 -> ais26_to_pydict(p)
    [] id = 27 -> ais27_to_pydict(p)

=============================================================================
