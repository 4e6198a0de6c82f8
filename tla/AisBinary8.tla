---------------------------- MODULE AisBinary8 ----------------------------
(***************************************************************************)
(* The other applications of the binary broadcast message 8                *)
(* (src/src/libais/ais8.cpp, ais8_200.cpp, ais8_366.cpp, ais8_367.cpp),    *)
(* and which of them the C++ and the Python dispatcher construct.          *)
(***************************************************************************)
EXTENDS AisSubMessages

(* The spare bits are read from where the text began. *)
Ais8_1_0(p) ==
  LET n == NumBits(p)
      text_size == 6 * ((n - 68) \div 6)
      spare2_size == n - 68 - text_size
  IN
  Applied(p, 1, 0, n \in 68 .. 1024,
    SeekTo(56) \o Reads(<< <<56, 1>>, <<57, 11>> >>) \o Text(68, text_size)
    \o (IF spare2_size = 0 THEN << >> ELSE Reads(<< <<68, spare2_size>> >>))
    \o NoneRemaining \o Ok)

(* The last 6 bits have two meanings, and are read for both. *)
Ais8_1_11(p) ==
  Applied(p, 1, 11, NumBits(p) = 352,
    SeekTo(56)
    \o Reads(<< <<56, 24>>, <<80, 25>>, <<105, 5>>, <<110, 5>>, <<115, 6>>, <<121, 7>>,
                <<128, 7>>, <<135, 9>>, <<144, 9>>, <<153, 11>>, <<164, 7>>,
                <<171, 10>>, <<181, 9>>, <<190, 2>>, <<192, 8>>, <<200, 9>>,
                <<209, 2>>, <<211, 8>>, <<219, 9>>, <<228, 8>>, <<236, 9>>,
                <<245, 5>>, <<250, 8>>, <<258, 9>>, <<267, 5>>, <<272, 8>>,
                <<280, 6>>, <<286, 9>>, <<295, 8>>, <<303, 6>>, <<309, 9>>,
                <<318, 4>>, <<322, 10>>, <<332, 3>>, <<335, 9>>, <<344, 2>>,
                <<346, 6>> >>)
    \o SeekRelative(-6) \o Reads(<< <<346, 6>> >>)
    \o NoneRemaining \o Ok)

Ais8_1_13(p) ==
  Applied(p, 1, 13, NumBits(p) = 472,
    SeekTo(56) \o Text(56, 120) \o Text(176, 120) \o Text(296, 120)
    \o Reads(<< <<416, 10>>, <<426, 2>>, <<428, 5>>, <<433, 4>>, <<437, 5>>, <<442, 6>>,
                <<448, 5>>, <<453, 4>>, <<457, 5>>, <<462, 6>>, <<468, 4>> >>)
    \o NoneRemaining \o Ok)

Ais8_1_15(p) ==
  Applied(p, 1, 15, NumBits(p) = 72,
    SeekTo(56) \o Reads(<< <<56, 11>>, <<67, 5>> >>) \o NoneRemaining \o Ok)

Ais8_1_16(p) ==
  Applied(p, 1, 16, NumBits(p) = 72,
    SeekTo(56) \o Reads(<< <<56, 13>>, <<69, 3>> >>) \o NoneRemaining \o Ok)

(* No target at all is let in. *)
Ais8_1_17(p) ==
  LET n == NumBits(p)
      target(i) ==
        LET start == 56 + 120 * i IN
        Reads(<< <<start, 2>> >>) \o Text(start + 2, 42)
        \o Reads(<< <<start + 44, 4>>, <<start + 48, 24>>, <<start + 72, 25>>,
                    <<start + 97, 9>>, <<start + 106, 6>>, <<start + 112, 8>> >>)
  IN
  Applied(p, 1, 17, (n - 56) % 120 = 0 /\ (n - 56) \div 120 <= 4,
    SeekTo(56) \o Each((n - 56) \div 120, target) \o NoneRemaining \o Ok)

(* A member "status", the traffic signal's, hides that of AisMsg: what the *)
(* constructor assigns, AIS_OK and AIS_ERR_BAD_BIT_COUNT, goes there.      *)
Ais8_1_19(p) ==
  ApplicationIs(p, 1, 19) \o CheckStatus
  \o IF NumBits(p) \notin {258, 360}
     THEN << >>
     ELSE SeekTo(56) \o Reads(<< <<56, 10>> >>) \o Text(66, 120) \o Point(186, 49)
          \o Reads(<< <<235, 2>>, <<237, 5>>, <<242, 5>>, <<247, 6>>, <<253, 5>> >>)
          \o (IF NumBits(p) = 360
              THEN Reads(<< <<258, 32>>, <<290, 32>>, <<322, 32>>, <<354, 6>> >>)
              ELSE << >>)
          \o NoneRemaining

(* The report of the World Meteorological Organization, read where         *)
(* type_wx_report is set, skips bit 105 without a seek.                    *)
WmoReport ==
  Reads(<< <<57, 16>>, <<73, 15>>, <<88, 4>>, <<92, 6>>, <<98, 5>>, <<102, 3>>, <<106, 7>>,
           <<113, 5>>, <<118, 7>>, <<125, 11>>, <<136, 10>>, <<146, 4>>, <<150, 7>>,
           <<157, 8>>, <<165, 7>>, <<172, 8>>, <<180, 8>>, <<188, 7>>, <<195, 10>>,
           <<205, 7>>, <<212, 9>>, <<221, 6>>, <<227, 9>>, <<236, 5>>, <<241, 5>>,
           <<246, 4>>, <<250, 4>>, <<254, 6>>, <<260, 6>>, <<266, 6>>, <<272, 7>>,
           <<279, 5>>, <<284, 6>>, <<290, 6>>, <<296, 5>>, <<301, 6>>, <<307, 6>>,
           <<313, 5>>, <<318, 6>>, <<324, 7>>, <<331, 3>>, <<334, 3>>, <<337, 5>>,
           <<342, 4>>, <<346, 5>>, <<351, 5>>, <<356, 4>> >>)

Ais8_1_21(p) ==
  Applied(p, 1, 21, NumBits(p) = 360,
    SeekTo(56) \o Bit(56)
    \o (IF p.type_wx_report
        THEN WmoReport
        ELSE Text(57, 120) \o Point(177, 49)
             \o Reads(<< <<226, 5>>, <<231, 5>>, <<236, 6>>, <<242, 4>>, <<246, 8>>,
                         <<254, 7>>, <<261, 7>>, <<268, 9>>, <<277, 9>>, <<286, 4>>,
                         <<290, 11>>, <<301, 10>>, <<311, 6>>, <<317, 8>>, <<325, 9>>,
                         <<334, 8>>, <<342, 9>>, <<351, 6>>, <<357, 3>> >>))
    \o NoneRemaining \o Ok)

Ais8_1_24(p) ==
  LET equipment(i) == Reads(<< <<169 + 2 * i, 2>> >>) IN
  Applied(p, 1, 24, NumBits(p) = 360,
    SeekTo(56) \o Reads(<< <<56, 10>>, <<66, 13>> >>)
    \o Text(79, 30) \o Text(109, 30) \o Text(139, 30) \o Each(26, equipment)
    \o Reads(<< <<221, 4>>, <<225, 18>>, <<243, 12>> >>) \o Text(255, 42)
    \o Reads(<< <<297, 18>>, <<315, 2>>, <<317, 2>>, <<319, 2>>, <<321, 2>>, <<323, 14>>,
                <<337, 13>>, <<350, 10>> >>)
    \o NoneRemaining \o Ok)

(* num_bits - 117 is unsigned: below 117 it makes too many way points.     *)
(* The 5 bits at 112 are not read.                                         *)
Ais8_1_27(p) ==
  LET n == NumBits(p)
      waypoint(i) == Point(117 + 55 * i, 55)
  IN
  Applied(p, 1, 27, n >= 117 /\ (n - 117) % 55 = 0 /\ (n - 117) \div 55 <= 16,
    SeekTo(56)
    \o Reads(<< <<56, 10>>, <<66, 3>>, <<69, 5>>, <<74, 4>>, <<78, 5>>, <<83, 5>>,
                <<88, 6>>, <<94, 18>> >>)
    \o Each((n - 117) \div 55, waypoint)
    \o NoneRemaining \o Ok)

Ais8_1_29(p) ==
  Applied(p, 1, 29, NumBits(p) \in 72 .. 1032,
    SeekTo(56) \o Reads(<< <<56, 10>> >>) \o TextAndSpare(p, 66)
    \o NoneRemaining \o Ok)

Ais8_1_31(p) ==
  Applied(p, 1, 31, NumBits(p) = 360,
    SeekTo(56) \o Point(56, 49)
    \o Reads(<< <<105, 1>>, <<106, 5>>, <<111, 5>>, <<116, 6>>, <<122, 7>>, <<129, 7>>,
                <<136, 9>>, <<145, 9>>, <<154, 11>>, <<165, 7>>, <<172, 10>>,
                <<182, 9>>, <<191, 2>>, <<193, 8>>, <<201, 12>>, <<213, 2>>,
                <<215, 8>>, <<223, 9>>, <<232, 8>>, <<240, 9>>, <<249, 5>>,
                <<254, 8>>, <<262, 9>>, <<271, 5>>, <<276, 8>>, <<284, 6>>,
                <<290, 9>>, <<299, 8>>, <<307, 6>>, <<313, 9>>, <<322, 4>>,
                <<326, 10>>, <<336, 3>>, <<339, 9>>, <<348, 2>>, <<350, 10>> >>)
    \o NoneRemaining \o Ok)

-----------------------------------------------------------------------------

Ais8_200_10(p) ==
  Applied(p, 200, 10, NumBits(p) = 168,
    SeekTo(56) \o Text(56, 48)
    \o Reads(<< <<104, 13>>, <<117, 10>>, <<127, 14>>, <<141, 3>>, <<144, 11>>,
                <<155, 2>>, <<157, 1>>, <<158, 1>>, <<159, 1>>, <<160, 8>> >>)
    \o NoneRemaining \o Ok)

(* In 21 and 22 the minute is read at 223, one after the hour ends. *)
LockTimes ==
  SeekTo(88) \o Text(88, 12) \o Text(100, 18) \o Text(118, 30) \o Text(148, 30)
  \o Text(178, 30) \o Reads(<< <<208, 4>>, <<212, 5>>, <<217, 5>>, <<223, 6>> >>)

Ais8_200_21(p) ==
  Applied(p, 200, 21, NumBits(p) = 248,
    LockTimes \o Reads(<< <<229, 3>>, <<231, 12>>, <<243, 5>> >>)
    \o NoneRemaining \o Ok)

Ais8_200_22(p) ==
  Applied(p, 200, 22, NumBits(p) = 232,
    LockTimes \o Reads(<< <<229, 2>>, <<231, 2>> >>) \o NoneRemaining \o Ok)

Ais8_200_23(p) ==
  Applied(p, 200, 23, NumBits(p) = 256,
    SeekTo(56)
    \o Reads(<< <<56, 8>>, <<65, 4>>, <<69, 5>>, <<73, 8>>, <<82, 4>>, <<86, 5>>,
                <<90, 5>>, <<95, 6>>, <<101, 5>>, <<106, 6>> >>)
    \o Point(112, 55) \o Point(167, 55)
    \o Reads(<< <<222, 4>>, <<226, 9>>, <<235, 9>>, <<244, 2>>, <<246, 4>>, <<250, 6>> >>)
    \o NoneRemaining \o Ok)

Ais8_200_24(p) ==
  LET gauge(i) ==
        LET start == 68 + 25 * i IN
        Reads(<< <<start, 11>>, <<start + 11, 1>>, <<start + 12, 13>> >>)
  IN
  Applied(p, 200, 24, NumBits(p) = 168,
    SeekTo(56) \o Text(56, 12) \o Each(4, gauge) \o NoneRemaining \o Ok)

Ais8_200_40(p) ==
  Applied(p, 200, 40, NumBits(p) = 168,
    SeekTo(56) \o Point(56, 55)
    \o Reads(<< <<111, 4>>, <<115, 9>>, <<124, 3>>, <<127, 30>>, <<157, 11>> >>)
    \o NoneRemaining \o Ok)

Ais8_200_55(p) ==
  Applied(p, 200, 55, NumBits(p) \in {88, 136, 168},
    SeekTo(56) \o Reads(<< <<56, 8>>, <<64, 13>>, <<77, 8>> >>)
    \o (CASE NumBits(p) = 88 -> Reads(<< <<85, 3>> >>)
          [] NumBits(p) = 136 -> Reads(<< <<85, 32>>, <<117, 19>> >>)
          [] NumBits(p) = 168 -> Reads(<< <<85, 32>>, <<117, 32>>, <<149, 19>> >>))
    \o NoneRemaining \o Ok)

(* Whole bytes, then what is left.  Without data the seek is to the end.   *)
Ais8_366_56(p) ==
  LET n == NumBits(p)
      full_bytes == (n - 56) \div 8
      byte(i) == Reads(<< <<56 + 8 * i, 8>> >>)
      left == n - 56 - 8 * full_bytes
  IN
  Applied(p, 366, 56, n \in 56 .. 1192,
    SeekTo(56) \o Each(full_bytes, byte)
    \o (IF left > 0
        THEN RemainingBelow(8) \o Reads(<< <<n - left, left>> >>)
        ELSE << >>)
    \o Ok)

Ais8_367_23(p) ==
  Applied(p, 367, 23, NumBits(p) = 168,
    SeekTo(56) \o Reads(<< <<56, 3>>, <<59, 5>>, <<64, 5>>, <<69, 6>> >>) \o Point(75, 49)
    \o Reads(<< <<124, 9>>, <<133, 11>>, <<144, 7>>, <<151, 7>>, <<158, 9>>, <<167, 1>> >>)
    \o NoneRemaining \o Ok)

Ais8_367_24(p) ==
  Applied(p, 367, 24, NumBits(p) = 128,
    SeekTo(56) \o Reads(<< <<56, 3>>, <<59, 5>>, <<64, 6>> >>) \o Point(70, 49)
    \o Reads(<< <<119, 9>> >>) \o NoneRemaining \o Ok)

Ais8_367_25(p) ==
  Applied(p, 367, 25, NumBits(p) = 96,
    SeekTo(56)
    \o Reads(<< <<56, 3>>, <<59, 5>>, <<64, 6>>, <<70, 9>>, <<79, 7>>, <<86, 9>>,
                <<95, 1>> >>)
    \o NoneRemaining \o Ok)

-----------------------------------------------------------------------------

(* What the constructor of an application does, header included. *)
Construct8(p, dac, fi) ==
  LET application == << dac, fi >> IN
  AisMsg(p) \o Ais8(p)
  \o CASE application = << 1, 0 >> -> Ais8_1_0(p)
       [] application = << 1, 11 >> -> Ais8_1_11(p)
       [] application = << 1, 13 >> -> Ais8_1_13(p)
       [] application = << 1, 15 >> -> Ais8_1_15(p)
       [] application = << 1, 16 >> -> Ais8_1_16(p)
       [] application = << 1, 17 >> -> Ais8_1_17(p)
       [] application = << 1, 19 >> -> Ais8_1_19(p)
       [] application = << 1, 21 >> -> Ais8_1_21(p)
       [] application = << 1, 22 >> -> Ais8_1_22(p)
       [] application = << 1, 24 >> -> Ais8_1_24(p)
       [] application = << 1, 26 >> -> Ais8_1_26(p)
       [] application = << 1, 27 >> -> Ais8_1_27(p)
       [] application = << 1, 29 >> -> Ais8_1_29(p)
       [] application = << 1, 31 >> -> Ais8_1_31(p)
       [] application = << 200, 10 >> -> Ais8_200_10(p)
       [] application = << 200, 21 >> -> Ais8_200_21(p)
       [] application = << 200, 22 >> -> Ais8_200_22(p)
       [] application = << 200, 23 >> -> Ais8_200_23(p)
       [] application = << 200, 24 >> -> Ais8_200_24(p)
       [] application = << 200, 40 >> -> Ais8_200_40(p)
       [] application = << 200, 55 >> -> Ais8_200_55(p)
       [] application = << 366, 22 >> -> Ais8_366_22(p)
       [] application = << 366, 56 >> -> Ais8_366_56(p)
       [] application = << 367, 22 >> -> Ais8_367_22(p)
       [] application = << 367, 23 >> -> Ais8_367_23(p)
       [] application = << 367, 24 >> -> Ais8_367_24(p)
       [] application = << 367, 25 >> -> Ais8_367_25(p)
       [] application = << 367, 33 >> -> Ais8_367_33(p)

Imo8 == {1} \X {0, 11, 13, 15, 16, 17, 19, 21, 22, 24, 26, 27, 29, 31}
Uscg8 == {367} \X {22, 23, 24, 25, 33}

CppApplications8 == Imo8 \cup ({200} \X {10, 21, 22, 23, 24, 40, 55}) \cup Uscg8

(* AIS_FI_8_200_55_RIS_PERSONS_ON_BOARD is 50. *)
PyApplications8 == Imo8 \cup ({200} \X {10, 21, 22, 23, 24, 40, 50}) \cup Uscg8

(* As CreateAisMsg6 and ais6_to_pydict. *)
CreateAisMsg8(p) ==
  IF Application(p) \in CppApplications8
  THEN Construct8(p, p.dac, p.fi)
  ELSE AisMsg(p) \o Ais8(p)

ais8_to_pydict(p) ==
  CASE Application(p) \notin PyApplications8 -> AisMsg(p) \o Ais8(p)
    [] Application(p) = << 200, 50 >> -> Construct8(p, 200, 55)
    [] OTHER -> Construct8(p, p.dac, p.fi)

=============================================================================
