---------------------------- MODULE PyDictBinary ----------------------------
(***************************************************************************)
(* The dictionaries of the binary messages 6 and 8, after the header       *)
(* (the append functions of src/src/libais/ais_py.cpp).  Those of 8:1:19,  *)
(* 8:200:55, 8:367:22 and 6:1:32 are never given to a caller and are left  *)
(* out, as is the report of 8:1:21 that the constructor cannot read.       *)
(***************************************************************************)
EXTENDS PyDict, AisSubMessages

ais6_1_0_append_pydict(p) == Own(88, NumBits(p) - 1)
ais6_1_1_append_pydict(p) == Own(88, 111)
ais6_1_2_append_pydict(p) == Own(88, 103)

(* All members, whatever the length. *)
ais6_1_3_append_pydict(p) == Own(88, 167)

(* spare2 four times. *)
ais6_1_4_append_pydict(p) ==
  Own(88, 97)
  \o FullList("capabilities", Numbers(64, 98, 1, 2))
  \o FullList("cap_reserved", Numbers(64, 99, 1, 2))
  \o Own(226, 257)
  \o As(258 .. 289, 226 .. 257) \o As(290 .. 321, 226 .. 257) \o As(322 .. 351, 226 .. 257)

(* ack_dac six times; "spare" is also a key of the header. *)
ais6_1_5_append_pydict(p) ==
  LET ack_dac == 88 .. 97 IN
  Own(88, 97) \o As(98 .. 103, ack_dac) \o As(104 .. 114, ack_dac)
  \o As(115 .. 115, ack_dac) \o As(116 .. 118, ack_dac) \o As(71 .. 71, ack_dac)

(* Members of a constructor that reads none. *)
ais6_1_12_append_pydict(p) == Own(88, 359)

ais6_1_14_append_pydict(p) ==
  Own(88, 96) \o FullList("windows", Numbers(3, 97, 93, 93))

ais6_1_18_append_pydict(p) == Own(88, 359)

ais6_1_20_append_pydict(p) ==
  Own(88, 137)
  \o (IF p.services_known THEN FullList("services", Numbers(26, 139, 2, 2)) ELSE << >>)
  \o Own(191, 359)

(* The members the constructor has set _valid for, without code_type. *)
ais6_1_25_append_pydict(p) ==
  LET cargo(i) == IF Kind(p, i) \in 1 .. 5
                  THEN Own(104 + 17 * i, 116 + 17 * i)
                  ELSE << >>
  IN Own(88, 99)
     \o FullList("cargos", [i \in 1 .. (NumBits(p) - 100) \div 17 |-> cargo(i - 1)])

ais6_1_40_append_pydict(p) == Own(88, 103)

Dict6(p) ==
  Own(38, 87)
  \o CASE p.fi = 0 -> ais6_1_0_append_pydict(p)
       [] p.fi = 1 -> ais6_1_1_append_pydict(p)
       [] p.fi = 2 -> ais6_1_2_append_pydict(p)
       [] p.fi = 3 -> ais6_1_3_append_pydict(p)
       [] p.fi = 4 -> ais6_1_4_append_pydict(p)
       [] p.fi = 5 -> ais6_1_5_append_pydict(p)
       [] p.fi = 12 -> ais6_1_12_append_pydict(p)
       [] p.fi = 14 -> ais6_1_14_append_pydict(p)
       [] p.fi = 18 -> ais6_1_18_append_pydict(p)
       [] p.fi = 20 -> ais6_1_20_append_pydict(p)
       [] p.fi = 25 -> ais6_1_25_append_pydict(p)
       [] p.fi = 40 -> ais6_1_40_append_pydict(p)

-----------------------------------------------------------------------------

ais8_1_0_append_pydict(p) == Own(56, NumBits(p) - 1)

(* wind_gust_dir shows wind_gust; no day, hour, minute and salinity. *)
ais8_1_11_append_pydict(p) ==
  Own(56, 104) \o Own(121, 143) \o As(144 .. 152, 128 .. 134)
  \o Own(153, 334) \o Own(344, 351)

ais8_1_13_append_pydict(p) == Own(56, 471)
ais8_1_15_append_pydict(p) == Own(56, 71)
ais8_1_16_append_pydict(p) == Own(56, 71)

ais8_1_17_append_pydict(p) ==
  FullList("targets", Numbers((NumBits(p) - 56) \div 120, 56, 120, 120))

(* Not the bit that says which report it is. *)
ais8_1_21_append_pydict(p) == Own(57, 359)

(* The keys of a sub-area of 8:1:22: the scale factor is in the radius,    *)
(* the dimensions and the distances.  A point without a distance was read, *)
(* and is not one of the points.                                           *)
sub_area_1_22(p, kind, start) ==
  LET at == start + 3
      shape == Own(start, start + 2)
      points == IF p.points = 4 THEN 4 ELSE p.points - 1
  IN
  shape
  \o CASE kind = Circle -> Own(at, at + 65)
       [] kind = Rect -> Own(at, at + 78)
       [] kind = Sector -> Own(at, at + 83)
       [] kind \in Poly ->
            FullList("angles", Numbers(points, at + 2, 10, 20))
            \o FullList("dists_m", Numbers(points, at + 12, 10, 20))
       [] kind = AreaText -> Own(at, at + 83)

(* duration_minutes shows minute. *)
ais8_1_22_append_pydict(p) ==
  Own(56, 92) \o As(93 .. 110, 87 .. 92)
  \o FullList("sub_areas",
       [i \in 1 .. (NumBits(p) - 111) \div 87 |->
          sub_area_1_22(p, Kind(p, i - 1), 111 + 87 * (i - 1))])

(* The first of the next ports, twice. *)
ais8_1_24_append_pydict(p) ==
  Own(56, 108)
  \o FullList("port_list", << Own(109, 138), As(139 .. 168, 109 .. 138) >>)
  \o FullList("solas", Numbers(26, 169, 2, 2))
  \o Own(221, 359)

ais8_1_27_append_pydict(p) ==
  Own(56, 111) \o FullList("waypoints", Numbers((NumBits(p) - 117) \div 55, 117, 55, 55))

ais8_1_29_append_pydict(p) == Own(56, 65 + 6 * ((NumBits(p) - 66) \div 6))

(* Mutant of ais8_1_31_append_pydict: wind_gust_dir as in 8:1:11. *)
ais8_1_31_gust(p) == Own(56, 144) \o As(145 .. 153, 129 .. 135) \o Own(154, 349)

ais8_1_31_append_pydict(p) == Own(56, 349)

ais8_200_24_append_pydict(p) ==
  Own(56, 67) \o FullList("gauge_ids", Numbers(4, 68, 11, 25))
  \o FullList("levels", Numbers(4, 79, 14, 25))

ais8_367_23_append_pydict(p) == Own(56, 166)
ais8_367_24_append_pydict(p) == Own(56, 127)
ais8_367_25_append_pydict(p) == Own(56, 94)

-----------------------------------------------------------------------------

(* What a sensor report of 8:1:26 adds to its own dict.  Only the first    *)
(* kind shows the header of the report.                                    *)
report_1_26(kind, offset) ==
  LET at == offset + 27 IN
  CASE kind = 0 -> Own(offset, offset + 111)
    [] kind = 4 -> Own(at + 78, at + 84)
    [] kind = 5 -> Own(at + 66, at + 84)
    [] kind = 6 -> Own(at + 84, at + 84)
    [] OTHER -> Own(at, at + 84)

(* Mutant of currents_1_26: as many slots as currents. *)
currents_whole(kind, at) ==
  CASE kind = 4 -> ListOf("currents", 3, Numbers(3, at, 26, 26))
    [] kind = 5 -> ListOf("currents", 2, Numbers(2, at, 33, 33))
    [] kind = 6 -> ListOf("currents", 2, Numbers(2, at, 42, 42))
    [] OTHER -> << >>

(* And what it adds to the dict of the whole message. *)
currents_1_26(kind, at) ==
  CASE kind = 4 -> ListOf("currents", 3, Numbers(3, at, 26, 26))
    [] kind = 5 -> ListOf("currents", 3, Numbers(2, at, 33, 33))
    [] kind = 6 -> ListOf("currents", 3, Numbers(2, at, 42, 42))
    [] OTHER -> << >>

ais8_1_26_append_pydict(p) ==
  LET reports == (NumBits(p) - 56) \div 112
      offset(i) == 56 + 112 * (i - 1)
      kind(i) == Kind(p, i - 1)
  IN
  FullList("reports", [i \in 1 .. reports |-> report_1_26(kind(i), offset(i))])
  \o FlattenSeq([i \in 1 .. reports |-> currents_1_26(kind(i), offset(i) + 27)])

(* Mutant of report_367_33: the currents of 8:1:26, a list too long. *)
report_367_33_long(kind, offset) ==
  LET at == offset + 27 IN
  Own(offset, offset + 26)
  \o CASE kind = 5 -> ListOf("currents", 3, Numbers(2, at, 36, 36)) \o Own(at + 72, at + 84)
       [] OTHER -> Own(at, at + 84)

(* A sensor report of 8:367:33: header, members and currents in its own    *)
(* dict.                                                                   *)
report_367_33(kind, offset) ==
  LET at == offset + 27
      header == Own(offset, offset + 26)
  IN
  header
  \o CASE kind = 0 -> Own(at + 6, at + 60) \o Own(at + 64, at + 84)
       [] kind = 4 -> FullList("currents", Numbers(3, at, 26, 26)) \o Own(at + 78, at + 84)
       [] kind = 5 -> FullList("currents", Numbers(2, at, 36, 36)) \o Own(at + 72, at + 84)
       [] kind = 6 -> Own(at, at + 8) \o FullList("currents", Numbers(2, at + 9, 35, 35))
                      \o Own(at + 79, at + 84)
       [] kind = 10 -> Own(at, at + 56) \o Own(at + 60, at + 84)
       [] OTHER -> Own(at, at + 84)

(* Mutant of ais8_367_33_append_pydict: the members of a report are put    *)
(* into the dict of the message.                                           *)
ais8_367_33_outer(p) ==
  LET offset(i) == 56 + 112 * (i - 1)
      reports == 1 .. (NumBits(p) - 56) \div 112
  IN
  Leaked(FullList("reports", [i \in reports |-> Own(offset(i), offset(i) + 26)])
         \o FlattenSeq([i \in reports |-> Own(offset(i) + 27, offset(i) + 111)]))

(* rpt_list and curr_list are never released. *)
ais8_367_33_append_pydict(p) ==
  Leaked(FullList("reports",
    [i \in 1 .. (NumBits(p) - 56) \div 112 |->
       report_367_33(Kind(p, i - 1), 56 + 112 * (i - 1))]))

(* 200:10, 21, 22, 23 and 40 show all of their members. *)
Dict8(p) ==
  LET application == << p.dac, p.fi >> IN
  Own(38, 55)
  \o CASE application = << 1, 0 >> -> ais8_1_0_append_pydict(p)
       [] application = << 1, 11 >> -> ais8_1_11_append_pydict(p)
       [] application = << 1, 13 >> -> ais8_1_13_append_pydict(p)
       [] application = << 1, 15 >> -> ais8_1_15_append_pydict(p)
       [] application = << 1, 16 >> -> ais8_1_16_append_pydict(p)
       [] application = << 1, 17 >> -> ais8_1_17_append_pydict(p)
       [] application = << 1, 21 >> -> ais8_1_21_append_pydict(p)
       [] application = << 1, 22 >> -> ais8_1_22_append_pydict(p)
       [] application = << 1, 24 >> -> ais8_1_24_append_pydict(p)
       [] application = << 1, 26 >> -> ais8_1_26_append_pydict(p)
       [] application = << 1, 27 >> -> ais8_1_27_append_pydict(p)
       [] application = << 1, 29 >> -> ais8_1_29_append_pydict(p)
       [] application = << 1, 31 >> -> ais8_1_31_append_pydict(p)
       [] application = << 200, 24 >> -> ais8_200_24_append_pydict(p)
       [] application \in {200} \X {10, 21, 22, 23, 40} -> Own(56, NumBits(p) - 1)
       [] application = << 367, 23 >> -> ais8_367_23_append_pydict(p)
       [] application = << 367, 24 >> -> ais8_367_24_append_pydict(p)
       [] application = << 367, 25 >> -> ais8_367_25_append_pydict(p)
       [] application = << 367, 33 >> -> ais8_367_33_append_pydict(p)

=============================================================================
