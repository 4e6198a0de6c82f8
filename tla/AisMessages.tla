---------------------------- MODULE AisMessages ----------------------------
(***************************************************************************)
(* The constructors of messages 1 to 5, 7 and 9 to 27, each one the calls  *)
(* it makes for a payload (src/src/libais/ais*.cpp): its length guard, the *)
(* reads in the order of the source, every branch on a value it has read,  *)
(* and the status it ends with.                                            *)
(***************************************************************************)
EXTENDS AisConstructors

(* pad != pad_wanted || num_chars != chars *)
Sized(p, chars, pad) == NumChars(p) = chars /\ p.pad = pad

Ais1_2_3(p) ==
  Guarded(Sized(p, 28, 0),
    IdIn({1, 2, 3}) \o SeekTo(38)
    \o Reads(<< <<38, 4>>, <<42, 8>>, <<50, 10>>, <<60, 1>> >>)
    \o Point(61, 55)
    \o Reads(<< <<116, 12>>, <<128, 9>>, <<137, 6>>, <<143, 2>>, <<145, 3>>,
                <<148, 1>>, <<149, 2>> >>)
    \o (IF p.message_id \in {1, 2} THEN Sotdma(p, 151) ELSE Itdma(151))
    \o NoneRemaining \o Ok)

Ais4_11(p) ==
  Guarded(Sized(p, 28, 0),
    IdIn({4, 11}) \o SeekTo(38)
    \o Reads(<< <<38, 14>>, <<52, 4>>, <<56, 5>>, <<61, 5>>, <<66, 6>>,
                <<72, 6>>, <<78, 1>> >>)
    \o Point(79, 55)
    \o Reads(<< <<134, 4>>, <<138, 1>>, <<139, 9>>, <<148, 1>>, <<149, 2>> >>)
    \o Sotdma(p, 151) \o NoneRemaining \o Ok)

Ais5(p) ==
  Guarded(Sized(p, 71, 2),
    Id(5) \o SeekTo(38)
    \o Reads(<< <<38, 2>>, <<40, 30>> >>) \o Text(70, 42) \o Text(112, 120)
    \o Reads(<< <<232, 8>>, <<240, 9>>, <<249, 9>>, <<258, 6>>, <<264, 6>>,
                <<270, 4>>, <<274, 4>>, <<278, 5>>, <<283, 5>>, <<288, 6>>,
                <<294, 8>> >>)
    \o Text(302, 120) \o Reads(<< <<422, 1>>, <<423, 1>> >>)
    \o NoneRemaining \o Ok)

Ais7_13(p) ==
  LET n == NumBits(p)
      num_acks == (n - 40) \div 32
      ack(i) == Reads(<< <<40 + i * 32, 30>>, <<40 + i * 32 + 30, 2>> >>)
  IN
  Guarded(n \in 72 .. 168 /\ (n - 40) % 32 = 0,
    IdIn({7, 13}) \o SeekTo(38) \o Reads(<< <<38, 2>> >>) \o Each(num_acks, ack)
    \o NoneRemaining \o Ok)

Ais9(p) ==
  Guarded(Sized(p, 28, 0),
    Id(9) \o SeekTo(38)
    \o Reads(<< <<38, 12>>, <<50, 10>>, <<60, 1>> >>) \o Point(61, 55)
    \o Reads(<< <<116, 12>>, <<128, 6>>, <<134, 1>>, <<135, 7>>, <<142, 1>>,
                <<143, 3>>, <<146, 1>>, <<147, 1>>, <<148, 1>>, <<149, 2>> >>)
    \o (IF p.itdma THEN Itdma(151) ELSE Sotdma(p, 151))
    \o NoneRemaining \o Ok)

(* Mutant of Ais10: the pad is not tested, as in Ais15. *)
Ais10AnyPad(p) ==
  Guarded(NumChars(p) = 12,
    Id(10) \o SeekTo(38)
    \o Reads(<< <<38, 2>>, <<40, 30>>, <<70, 2>> >>)
    \o NoneRemaining \o Ok)

Ais10(p) ==
  Guarded(Sized(p, 12, 0),
    Id(10) \o SeekTo(38)
    \o Reads(<< <<38, 2>>, <<40, 30>>, <<70, 2>> >>)
    \o NoneRemaining \o Ok)

Ais12(p) ==
  Guarded(NumBits(p) \in 72 .. 1192,
    Id(12) \o SeekTo(38)
    \o Reads(<< <<38, 2>>, <<40, 30>>, <<70, 1>>, <<71, 1>> >>)
    \o TextAndSpare(p, 72) \o Ok)

Ais14(p) ==
  Guarded(NumBits(p) \in 46 .. 1008,
    Id(14) \o SeekTo(38) \o Reads(<< <<38, 2>> >>) \o TextAndSpare(p, 40) \o Ok)

(* Only the number of characters is tested, not the pad. *)
Ais15(p) ==
  LET one == Reads(<< <<38, 2>>, <<40, 30>>, <<70, 6>>, <<76, 12>> >>)
      two == Reads(<< <<88, 2>>, <<90, 6>>, <<96, 12>> >>)
      other == Reads(<< <<108, 2>>, <<110, 30>>, <<140, 6>>, <<146, 12>>,
                        <<158, 2>> >>)
  IN
  Guarded(NumChars(p) \in {15, 18, 27},
    Id(15) \o SeekTo(38) \o one
    \o CASE NumChars(p) = 15 -> NoneRemaining \o Ok
         [] NumChars(p) = 18 -> two \o Ok
         [] NumChars(p) = 27 -> two \o other \o NoneRemaining \o Ok)

(* Mutant of Ais16: characters are counted where it counts bits. *)
Ais16Chars(p) ==
  Guarded(NumChars(p) \in {16, 24, 28},
    Id(16) \o SeekTo(38)
    \o Reads(<< <<38, 2>>, <<40, 30>>, <<70, 12>>, <<82, 10>> >>)
    \o IF NumChars(p) = 16
       THEN Reads(<< <<92, 4>> >>) \o NoneRemaining \o Ok
       ELSE Reads(<< <<92, 30>>, <<122, 12>>, <<134, 10>> >>) \o Ok)

Ais16(p) ==
  Guarded(NumBits(p) \in {96, 144, 168},
    Id(16) \o SeekTo(38)
    \o Reads(<< <<38, 2>>, <<40, 30>>, <<70, 12>>, <<82, 10>> >>)
    \o IF NumChars(p) = 16
       THEN Reads(<< <<92, 4>> >>) \o NoneRemaining \o Ok
       ELSE Reads(<< <<92, 30>>, <<122, 12>>, <<134, 10>> >>) \o Ok)

(* At 80 bits the constructor returns without a status. *)
Ais17(p) ==
  Guarded(NumBits(p) = 80 \/ NumBits(p) \in 120 .. 816,
    Id(17) \o SeekTo(38)
    \o Reads(<< <<38, 2>> >>) \o Point(40, 35) \o Reads(<< <<75, 5>> >>)
    \o IF NumBits(p) = 80
       THEN << >>
       ELSE Reads(<< <<80, 6>>, <<86, 10>>, <<96, 13>>, <<109, 3>> >>)
            \o SeekRelative(5) \o Reads(<< <<117, 3>> >>) \o Ok)

Ais18(p) ==
  Guarded(Sized(p, 28, 0),
    Id(18) \o SeekTo(38)
    \o Reads(<< <<38, 8>>, <<46, 10>>, <<56, 1>> >>) \o Point(57, 55)
    \o Reads(<< <<112, 12>>, <<124, 9>>, <<133, 6>>, <<139, 2>>, <<141, 1>>,
                <<142, 1>>, <<143, 1>>, <<144, 1>>, <<145, 1>>, <<146, 1>>,
                <<147, 1>>, <<148, 1>> >>)
    \o (IF p.unit_flag
        THEN Reads(<< <<149, 19>> >>)
        ELSE Reads(<< <<149, 2>> >>)
             \o IF p.itdma THEN Itdma(151) ELSE Sotdma(p, 151))
    \o NoneRemaining \o Ok)

Ais19(p) ==
  Guarded(Sized(p, 52, 0),
    Id(19) \o SeekTo(38)
    \o Reads(<< <<38, 8>>, <<46, 10>>, <<56, 1>> >>) \o Point(57, 55)
    \o Reads(<< <<112, 12>>, <<124, 9>>, <<133, 6>>, <<139, 4>> >>)
    \o Text(143, 120)
    \o Reads(<< <<263, 8>>, <<271, 9>>, <<280, 9>>, <<289, 6>>, <<295, 6>>,
                <<301, 4>>, <<305, 1>>, <<306, 1>>, <<307, 1>>, <<308, 4>> >>)
    \o NoneRemaining \o Ok)

(* offset, number of slots, timeout and increment of a reservation *)
Reservation(at) ==
  Reads(<< <<at, 12>>, <<at + 12, 4>>, <<at + 16, 3>>, <<at + 19, 11>> >>)

(* Every length from 72 to 160 bits is let in; four of the ranges between  *)
(* them have a branch.                                                     *)
Ais20(p) ==
  LET n == NumBits(p) IN
  Guarded(n \in 72 .. 160,
    Id(20) \o SeekTo(38) \o Reads(<< <<38, 2>> >>) \o Reservation(40)
    \o IF n = 72
       THEN Reads(<< <<70, 2>> >>) \o NoneRemaining \o Ok
       ELSE Reservation(70)
    \o IF n \in 100 .. 108
       THEN Reads(<< <<100, n - 100>> >>) \o Ok
       ELSE Reservation(100)
    \o IF n \in 130 .. 138
       THEN Reads(<< <<130, n - 130>> >>) \o Ok
       ELSE Reservation(130) \o NoneRemaining \o Ok)

(* The only constructor that asserts the id before it looks at the status. *)
Ais21(p) ==
  LET n == NumBits(p)
      extra_chars == (n - 272) \div 6
      extra_bits == (n - 272) % 6
  IN
  Id(21)
  \o IF n # 268 /\ n \notin 272 .. 360
     THEN BadBitCount
     ELSE ParseAgain \o SeekTo(38)
          \o Reads(<< <<38, 5>> >>) \o Text(43, 120) \o Bit(163)
          \o Point(164, 55)
          \o Reads(<< <<219, 9>>, <<228, 9>>, <<237, 6>>, <<243, 6>>, <<249, 4>>,
                      <<253, 6>>, <<259, 1>>, <<260, 8>> >>)
          \o IF n = 268
             THEN NoneRemaining \o Ok
             ELSE Reads(<< <<268, 1>>, <<269, 1>>, <<270, 1>>, <<271, 1>> >>)
                  \o (IF extra_chars > 0 THEN Text(272, extra_chars * 6) ELSE << >>)
                  \o (IF extra_bits > 0
                      THEN Reads(<< <<272 + extra_chars * 6, extra_bits>> >>)
                      ELSE << >>)
                  \o NoneRemaining \o Ok

(* The addressed flag is read ahead of the fields before it. *)
Ais22(p) ==
  Guarded(Sized(p, 28, 0),
    Id(22) \o SeekTo(38)
    \o Reads(<< <<38, 2>>, <<40, 12>>, <<52, 12>>, <<64, 4>>, <<68, 1>> >>)
    \o SeekTo(139) \o Bit(139) \o SeekTo(69)
    \o (IF p.addressed
        THEN Reads(<< <<69, 30>> >>) \o SeekRelative(5)
             \o Reads(<< <<104, 30>> >>) \o SeekRelative(5)
        ELSE Point(69, 35) \o Point(104, 35))
    \o SeekRelative(1)
    \o Reads(<< <<140, 1>>, <<141, 1>>, <<142, 3>>, <<145, 23>> >>)
    \o NoneRemaining \o Ok)

Ais23(p) ==
  Guarded(Sized(p, 27, 2),
    Id(23) \o SeekTo(38) \o Reads(<< <<38, 2>> >>)
    \o Point(40, 35) \o Point(75, 35)
    \o Reads(<< <<110, 4>>, <<114, 8>>, <<122, 22>>, <<144, 2>>, <<146, 4>>,
                <<150, 4>>, <<154, 6>> >>)
    \o NoneRemaining \o Ok)

(* Part 1 of 160 bits is taken for a part 0. *)
Ais24(p) ==
  LET n == NumBits(p)
      end == NoneRemaining \o Ok
  IN
  Guarded(n \in {160, 168},
    Id(24) \o SeekTo(38) \o Reads(<< <<38, 2>> >>)
    \o CASE p.part_num = 0 /\ n = 168 -> Text(40, 120) \o Reads(<< <<160, 8>> >>) \o end
         [] p.part_num \in {0, 1} /\ n = 160 -> Text(40, 120) \o end
         [] p.part_num = 1 /\ n = 168 ->
              Reads(<< <<40, 8>> >>) \o Text(48, 42) \o Text(90, 42)
              \o Reads(<< <<132, 9>>, <<141, 9>>, <<150, 6>>, <<156, 6>>,
                          <<162, 6>> >>) \o end
         [] p.part_num \in {2, 3} -> Return("AIS_ERR_BAD_MSG_CONTENT"))

Ais25(p) ==
  Guarded(NumBits(p) \in 40 .. 168,
    Id(25) \o SeekTo(38) \o Reads(<< <<38, 1>>, <<39, 1>> >>)
    \o (IF p.addressed THEN Reads(<< <<40, 30>> >>) ELSE << >>)
    \o (CASE ~ p.use_app_id -> << >>
          [] p.use_app_id /\ p.addressed -> Reads(<< <<70, 10>>, <<80, 6>> >>)
          [] p.use_app_id /\ ~ p.addressed -> Reads(<< <<40, 10>>, <<50, 6>> >>))
    \o Ok)

(* The communication state is the last 20 bits, wherever they fall. *)
CommState26(p, at) ==
  SeekTo(at) \o Reads(<< <<at, 1>>, <<at + 1, 2>> >>)
  \o IF p.itdma THEN Itdma(at + 3) ELSE Sotdma(p, at + 3)

Ais26(p) ==
  LET n == NumBits(p)
      rest == CommState26(p, n - 20) \o Ok
  IN
  Guarded(n \in 52 .. 1064,
    Id(26) \o SeekTo(38) \o Reads(<< <<38, 1>>, <<39, 1>> >>)
    \o (IF p.addressed THEN Reads(<< <<40, 30>> >>) ELSE << >>)
    \o CASE ~ p.use_app_id -> rest
         [] p.use_app_id /\ p.addressed /\ n < 86 -> BadBitCount
         [] p.use_app_id /\ p.addressed /\ n >= 86 ->
              Reads(<< <<70, 10>>, <<80, 6>> >>) \o rest
         [] p.use_app_id /\ ~ p.addressed ->
              Reads(<< <<40, 10>>, <<50, 6>> >>) \o rest)

(* Mutant of Ais27: it ends without a status, as Ais17 does. *)
Ais27NoStatus(p) ==
  Guarded(p.pad = 0 /\ NumBits(p) = 96,
    Id(27) \o SeekTo(38)
    \o Reads(<< <<38, 1>>, <<39, 1>>, <<40, 4>> >>) \o Point(44, 35)
    \o Reads(<< <<79, 6>>, <<85, 9>>, <<94, 1>>, <<95, 1>> >>)
    \o NoneRemaining)

Ais27(p) ==
  Guarded(p.pad = 0 /\ NumBits(p) = 96,
    Id(27) \o SeekTo(38)
    \o Reads(<< <<38, 1>>, <<39, 1>>, <<40, 4>> >>) \o Point(44, 35)
    \o Reads(<< <<79, 6>>, <<85, 9>>, <<94, 1>>, <<95, 1>> >>)
    \o NoneRemaining \o Ok)

(* CreateAisMsg: the first character chooses the constructor, and is the   *)
(* message id of every payload of that class.  The binary messages 6 and 8 *)
(* are dispatched further by their application and are not here.           *)
Constructor(p) ==
  LET id == p.message_id IN
  CASE id \in 1 .. 3 -> Ais1_2_3(p)
    [] id \in {4, 11} -> Ais4_11(p)
    [] id = 5 -> Ais5(p)
    [] id \in {7, 13} -> Ais7_13(p)
    [] id = 9 -> Ais9(p)
    [] id = 10 -> Ais10(p)
    [] id = 12 -> Ais12(p)
    [] id = 14 -> Ais14(p)
    [] id = 15 -> Ais15(p)
    [] id = 16 -> Ais16(p)
    [] id = 17 -> Ais17(p)
    [] id = 18 -> Ais18(p)
    [] id = 19 -> Ais19(p)
    [] id = 20 -> Ais20(p)
    [] id = 21 -> Ais21(p)
    [] id = 22 -> Ais22(p)
    [] id = 23 -> Ais23(p)
    [] id = 24 -> Ais24(p)
    [] id = 25 -> Ais25(p)
    [] id = 26 -> Ais26(p)
    [] id = 27 -> Ais27(p)

=============================================================================
