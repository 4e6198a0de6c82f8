---------------------------- MODULE AisBinary6 ----------------------------
(***************************************************************************)
(* The applications of the addressed binary message 6                      *)
(* (src/src/libais/ais6.cpp), and which of them the C++ and the Python     *)
(* dispatcher construct.                                                   *)
(***************************************************************************)
EXTENDS AisConstructors

Ais6_0_0(p) ==
  Applied(p, 0, 0, NumBits(p) = 136,
    SeekTo(88)
    \o Reads(<< <<88, 16>>, <<104, 12>>, <<116, 10>>, <<126, 1>>, <<127, 1>>,
                <<128, 1>>, <<129, 1>>, <<130, 6>> >>)
    \o NoneRemaining \o Ok)

Ais6_1_0(p) ==
  Applied(p, 1, 0, NumBits(p) \in 112 .. 920,
    SeekTo(88) \o Reads(<< <<88, 1>>, <<89, 11>> >>) \o TextAndSpare(p, 100)
    \o NoneRemaining \o Ok)

Ais6_1_1(p) ==
  Applied(p, 1, 1, NumBits(p) = 112,
    SeekTo(88) \o Reads(<< <<88, 10>>, <<98, 11>>, <<109, 3>> >>)
    \o NoneRemaining \o Ok)

Ais6_1_2(p) ==
  Applied(p, 1, 2, NumBits(p) = 104,
    SeekTo(88) \o Reads(<< <<88, 10>>, <<98, 6>> >>) \o NoneRemaining \o Ok)

Ais6_1_3(p) ==
  Applied(p, 1, 3, NumBits(p) \in {104, 168},
    SeekTo(88) \o Reads(<< <<88, 10>> >>)
    \o (IF NumBits(p) = 104
        THEN Reads(<< <<98, 6>> >>)
        ELSE Reads(<< <<98, 32>>, <<130, 32>>, <<162, 6>> >>))
    \o NoneRemaining \o Ok)

Ais6_1_4(p) ==
  LET capability(i) == Reads(<< <<98 + 2 * i, 1>>, <<98 + 2 * i + 1, 1>> >>) IN
  Applied(p, 1, 4, NumBits(p) = 352,
    SeekTo(88) \o Reads(<< <<88, 10>> >>) \o Each(64, capability)
    \o Reads(<< <<226, 32>>, <<258, 32>>, <<290, 32>>, <<322, 30>> >>)
    \o NoneRemaining \o Ok)

Ais6_1_5(p) ==
  Applied(p, 1, 5, NumBits(p) = 168,
    SeekTo(88)
    \o Reads(<< <<88, 10>>, <<98, 6>>, <<104, 11>>, <<115, 1>>, <<116, 3>>,
                <<119, 32>>, <<151, 17>> >>)
    \o NoneRemaining \o Ok)

(* The reads are under #if 0. *)
Ais6_1_12(p) == Applied(p, 1, 12, NumBits(p) = 360, Ok)

Ais6_1_14(p) ==
  LET window(i) ==
        LET start == 97 + 93 * i IN
        Reads(<< <<start, 27>>, <<start + 27, 28>>, <<start + 55, 5>>,
                 <<start + 60, 6>>, <<start + 66, 5>>, <<start + 71, 6>>,
                 <<start + 77, 9>>, <<start + 86, 7>> >>)
  IN
  Applied(p, 1, 14, NumBits(p) = 376,
    SeekTo(88) \o Reads(<< <<88, 4>>, <<92, 5>> >>) \o Each(3, window)
    \o NoneRemaining \o Ok)

(* No seek: the cursor is where Ais6 left it. *)
Ais6_1_18(p) ==
  Applied(p, 1, 18, NumBits(p) = 360,
    Reads(<< <<88, 10>>, <<98, 4>>, <<102, 5>>, <<107, 5>>, <<112, 6>> >>)
    \o Text(118, 120) \o Text(238, 30) \o Point(268, 49)
    \o Reads(<< <<317, 32>>, <<349, 11>> >>)
    \o NoneRemaining \o Ok)

Ais6_1_20(p) ==
  LET service(i) == Reads(<< <<139 + 2 * i, 2>> >>) IN
  Applied(p, 1, 20, NumBits(p) = 360,
    SeekTo(88)
    \o Reads(<< <<88, 10>>, <<98, 9>>, <<107, 8>>, <<115, 3>>, <<118, 4>>,
                <<122, 5>>, <<127, 5>>, <<132, 6>>, <<138, 1>> >>)
    \o Each(26, service) \o Text(191, 120) \o Point(311, 49)
    \o NoneRemaining \o Ok)

(* A code without a layout leaves 13 bits unread, and the cursor behind. *)
Cargo(code, start) ==
  Reads(<< <<start, 4>> >>)
  \o CASE code = 1 -> Reads(<< <<start + 4, 7>>, <<start + 11, 6>> >>)
       [] code = 2 -> Reads(<< <<start + 4, 13>> >>)
       [] code = 3 -> Reads(<< <<start + 4, 3>>, <<start + 7, 7>>, <<start + 14, 3>> >>)
       [] code = 4 -> Reads(<< <<start + 4, 4>>, <<start + 8, 9>> >>)
       [] code = 5 -> Reads(<< <<start + 4, 3>>, <<start + 7, 10>> >>)
       [] OTHER -> << >>

Ais6_1_25(p) ==
  LET n == NumBits(p)
      cargo(i) == Cargo(Kind(p, i), 100 + 17 * i)
  IN
  Applied(p, 1, 25, n \in 100 .. 576 /\ (n - 100) % 17 = 0,
    SeekTo(88) \o Reads(<< <<88, 2>>, <<90, 10>> >>)
    \o Each((n - 100) \div 17, cargo)
    \o NoneRemaining \o Ok)

(* The windows alone are 264 bits, from bit 97. *)
Ais6_1_32(p) ==
  LET window(i) ==
        LET start == 97 + 88 * i IN
        Point(start, 49)
        \o Reads(<< <<start + 49, 5>>, <<start + 54, 6>>, <<start + 60, 5>>,
                    <<start + 65, 6>>, <<start + 71, 9>>, <<start + 80, 8>> >>)
  IN
  Applied(p, 1, 32, NumBits(p) = 350,
    SeekTo(88) \o Reads(<< <<88, 4>>, <<92, 5>> >>) \o Each(3, window)
    \o NoneRemaining \o Ok)

(* The status is not looked at, and the payload is parsed again. *)
Ais6_1_40(p) ==
  ApplicationIs(p, 1, 40)
  \o IF NumBits(p) # 104
     THEN BadBitCount
     ELSE ParseAgain \o SeekTo(88) \o Reads(<< <<88, 13>>, <<101, 3>> >>)
          \o NoneRemaining \o Ok

(* What the constructor of an application does, header included. *)
Construct6(p, dac, fi) ==
  AisMsg(p) \o Ais6(p)
  \o CASE << dac, fi >> = << 0, 0 >> -> Ais6_0_0(p)
       [] << dac, fi >> = << 1, 0 >> -> Ais6_1_0(p)
       [] << dac, fi >> = << 1, 1 >> -> Ais6_1_1(p)
       [] << dac, fi >> = << 1, 2 >> -> Ais6_1_2(p)
       [] << dac, fi >> = << 1, 3 >> -> Ais6_1_3(p)
       [] << dac, fi >> = << 1, 4 >> -> Ais6_1_4(p)
       [] << dac, fi >> = << 1, 5 >> -> Ais6_1_5(p)
       [] << dac, fi >> = << 1, 12 >> -> Ais6_1_12(p)
       [] << dac, fi >> = << 1, 14 >> -> Ais6_1_14(p)
       [] << dac, fi >> = << 1, 18 >> -> Ais6_1_18(p)
       [] << dac, fi >> = << 1, 20 >> -> Ais6_1_20(p)
       [] << dac, fi >> = << 1, 25 >> -> Ais6_1_25(p)
       [] << dac, fi >> = << 1, 32 >> -> Ais6_1_32(p)
       [] << dac, fi >> = << 1, 40 >> -> Ais6_1_40(p)

CppApplications6 ==
  {1} \X {0, 1, 2, 3, 4, 12, 14, 18, 20, 25, 32, 40}

PyApplications6 ==
  {1} \X {0, 1, 2, 3, 4, 5, 12, 14, 18, 20, 25, 32, 40}

(* The dispatchers construct an Ais6 first, for its application, and then, *)
(* for an application they know, the message itself from the same payload. *)
(* The first object makes the calls the second one begins with.  For other *)
(* applications it is the only one: C++ returns no message then.           *)
CreateAisMsg6(p) ==
  IF Application(p) \in CppApplications6
  THEN Construct6(p, p.dac, p.fi)
  ELSE AisMsg(p) \o Ais6(p)

ais6_to_pydict(p) ==
  IF Application(p) \in PyApplications6
  THEN Construct6(p, p.dac, p.fi)
  ELSE AisMsg(p) \o Ais6(p)

=============================================================================
