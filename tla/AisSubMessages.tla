-------------------------- MODULE AisSubMessages --------------------------
(***************************************************************************)
(* The applications of message 8 made of sub-messages: the area notices    *)
(* 1:22, 366:22 and 367:22 and the sensor reports 1:26 and 367:33          *)
(* (src/src/libais/ais8_1_22.cpp, ais8_366_22.cpp, ais8_1_26.cpp,          *)
(* ais8_367.cpp).  A factory reads the kind of each sub-message, and a     *)
(* reserved kind has no layout.                                            *)
(***************************************************************************)
EXTENDS AisConstructors

(* The kinds of an area, and of a sensor report. *)
Circle == 0
Rect == 1
Sector == 2
Polyline == 3
Polygon == 4
AreaText == 5
Poly == {Polyline, Polygon}
ReservedAreas == {6, 7}

(* Angle and distance of the points of a polyline, up to and with the      *)
(* first distance that is 0, the p.points-th if there is one.              *)
Points(p, at, dist_bits) ==
  LET point(i) ==
        LET start == at + i * (10 + dist_bits) IN
        Reads(<< <<start, 10>>, <<start + 10, dist_bits>> >>)
  IN Each(p.points, point)

(* Ais8_1_22_Circle, Rect, Sector, Polyline, Polygon and Text.  Only the   *)
(* polylines seek over the points they did not read.                       *)
SubArea_1_22(p, kind, start) ==
  LET at == start + 3
      place == Reads(<< <<at, 2>> >>) \o Point(at + 2, 49) \o Reads(<< <<at + 51, 3>> >>)
  IN
  Reads(<< <<start, 3>> >>)
  \o CASE kind = Circle -> place \o Reads(<< <<at + 54, 12>>, <<at + 66, 18>> >>)
       [] kind = Rect ->
            place \o Reads(<< <<at + 54, 8>>, <<at + 62, 8>>, <<at + 70, 9>>,
                              <<at + 79, 5>> >>)
       [] kind = Sector ->
            place \o Reads(<< <<at + 54, 12>>, <<at + 66, 9>>, <<at + 75, 9>> >>)
       [] kind \in Poly ->
            Reads(<< <<at, 2>> >>) \o Points(p, at + 2, 10)
            \o SeekTo(at + 87 - 5) \o Reads(<< <<at + 87 - 5, 2>> >>)
       [] kind = AreaText -> Text(at, 84)
       [] kind \in ReservedAreas -> SetStatus("AIS_ERR_BAD_SUB_SUB_MSG")

(* Reserved areas do not end it; AIS_OK is given if none was met. *)
Ais8_1_22(p) ==
  LET n == NumBits(p)
      areas == (n - 111) \div 87
      area(i) == SubArea_1_22(p, Kind(p, i), 111 + 87 * i)
  IN
  Applied(p, 1, 22, n \in 198 .. 984,
    SeekTo(56)
    \o Reads(<< <<56, 10>>, <<66, 7>>, <<73, 4>>, <<77, 5>>, <<82, 5>>, <<87, 6>>,
                <<93, 18>> >>)
    \o Each(areas, area)
    \o IF \E i \in 0 .. areas - 1 : Kind(p, i) \in ReservedAreas THEN << >> ELSE Ok)

(* Ais8_366_22_Circle (88 of the 90 bits), Rect, Sector, Polyline, Polygon *)
(* and Text.                                                               *)
SubArea_366_22(p, kind, start) ==
  LET place == Reads(<< <<start + 3, 2>> >>) \o Point(start + 5, 55) IN
  Reads(<< <<start, 3>> >>)
  \o CASE kind = Circle -> place \o Reads(<< <<start + 60, 12>>, <<start + 72, 16>> >>)
       [] kind = Rect ->
            place \o Reads(<< <<start + 60, 8>>, <<start + 68, 8>>, <<start + 76, 9>>,
                              <<start + 85, 5>> >>)
       [] kind = Sector ->
            place \o Reads(<< <<start + 60, 12>>, <<start + 72, 9>>, <<start + 81, 9>> >>)
       [] kind \in Poly ->
            Reads(<< <<start + 3, 2>> >>) \o Points(p, start + 5, 11) \o Bit(start + 89)
       [] kind = AreaText -> Text(start + 3, 84) \o Reads(<< <<start + 87, 3>> >>)
       [] kind \in ReservedAreas -> Return("AIS_ERR_BAD_SUB_SUB_MSG")

Ais8_366_22(p) ==
  LET n == NumBits(p)
      area(i) == SubArea_366_22(p, Kind(p, i), 111 + 90 * i)
  IN
  Applied(p, 366, 22, n \in 209 .. 1019,
    Reads(<< <<56, 10>>, <<66, 7>>, <<73, 4>>, <<77, 5>>, <<82, 5>>, <<87, 6>>,
             <<93, 18>> >>)
    \o Each((n - 111) \div 90, area) \o NoneRemaining \o Ok)

(* Ais8_367_22_Circle, Rect, Sector, Poly and Text. *)
SubArea_367_22(p, kind, start) ==
  LET at == start + 3
      place == Reads(<< <<at, 2>> >>) \o Point(at + 2, 55) \o Reads(<< <<at + 57, 3>> >>)
  IN
  Reads(<< <<start, 3>> >>)
  \o CASE kind = Circle -> place \o Reads(<< <<at + 60, 12>>, <<at + 72, 21>> >>)
       [] kind = Rect ->
            place \o Reads(<< <<at + 60, 8>>, <<at + 68, 8>>, <<at + 76, 9>>,
                              <<at + 85, 8>> >>)
       [] kind = Sector ->
            place \o Reads(<< <<at + 60, 12>>, <<at + 72, 9>>, <<at + 81, 9>>,
                              <<at + 90, 3>> >>)
       [] kind \in Poly ->
            Reads(<< <<at, 2>> >>) \o Points(p, at + 2, 11) \o Reads(<< <<at + 86, 7>> >>)
       [] kind = AreaText -> Text(at, 90) \o Reads(<< <<at + 90, 3>> >>)
       [] kind \in ReservedAreas -> Return("AIS_ERR_BAD_SUB_SUB_MSG")

Ais8_367_22(p) ==
  LET n == NumBits(p)
      area(i) == SubArea_367_22(p, Kind(p, i), 120 + 96 * i)
  IN
  Applied(p, 367, 22, n \in 216 .. 1016 /\ (n - 120) % 96 < 6,
    SeekTo(56)
    \o Reads(<< <<56, 6>>, <<62, 10>>, <<72, 7>>, <<79, 4>>, <<83, 5>>, <<88, 5>>,
                <<93, 6>>, <<99, 18>>, <<117, 3>> >>)
    \o Each((n - 120) \div 96, area) \o RemainingBelow(6) \o Ok)

-----------------------------------------------------------------------------

WindReport(at) ==
  Reads(<< <<at, 7>>, <<at + 7, 7>>, <<at + 14, 9>>, <<at + 23, 9>>, <<at + 32, 3>>,
           <<at + 35, 7>>, <<at + 42, 7>>, <<at + 49, 9>>, <<at + 58, 5>>,
           <<at + 63, 5>>, <<at + 68, 6>>, <<at + 74, 8>>, <<at + 82, 3>> >>)

WaterLevel(at) ==
  Reads(<< <<at, 1>>, <<at + 1, 16>>, <<at + 17, 2>>, <<at + 19, 5>>, <<at + 24, 3>>,
           <<at + 27, 1>>, <<at + 28, 16>>, <<at + 44, 5>>, <<at + 49, 5>>,
           <<at + 54, 6>>, <<at + 60, 8>>, <<at + 68, 17>> >>)

Curr2D(at) ==
  LET current(i) ==
        Reads(<< <<at + 26 * i, 8>>, <<at + 26 * i + 8, 9>>, <<at + 26 * i + 17, 9>> >>)
  IN Each(3, current) \o Reads(<< <<at + 78, 3>>, <<at + 81, 4>> >>)

SeaState(at) ==
  Reads(<< <<at, 8>>, <<at + 8, 6>>, <<at + 14, 9>>, <<at + 23, 4>>, <<at + 27, 3>>,
           <<at + 30, 10>>, <<at + 40, 7>>, <<at + 47, 3>>, <<at + 50, 8>>,
           <<at + 58, 6>>, <<at + 64, 9>>, <<at + 73, 3>>, <<at + 76, 9>> >>)

Salinity(at) ==
  Reads(<< <<at, 10>>, <<at + 10, 10>>, <<at + 20, 16>>, <<at + 36, 9>>,
           <<at + 45, 2>>, <<at + 47, 3>>, <<at + 50, 32>>, <<at + 82, 3>> >>)

Wx(at) ==
  Reads(<< <<at, 11>>, <<at + 11, 3>>, <<at + 14, 2>>, <<at + 16, 8>>, <<at + 24, 10>>,
           <<at + 34, 3>>, <<at + 37, 9>>, <<at + 46, 2>>, <<at + 48, 3>>,
           <<at + 51, 9>>, <<at + 60, 25>> >>)

(* Day to site of a report, read once it is known that it has a layout. *)
ReportHeader(offset) ==
  SeekTo(offset + 4)
  \o Reads(<< <<offset + 4, 5>>, <<offset + 9, 5>>, <<offset + 14, 6>>,
              <<offset + 20, 7>> >>)

(* Ais8_1_26_Location to Ais8_1_26_AirDraught, after the type. *)
Sensor_1_26(kind, at) ==
  LET current_3d(i) ==
        Reads(<< <<at + 33 * i, 8>>, <<at + 33 * i + 8, 8>>, <<at + 33 * i + 16, 8>>,
                 <<at + 33 * i + 24, 9>> >>)
      flow(i) ==
        Reads(<< <<at + 42 * i, 9>>, <<at + 42 * i + 9, 7>>, <<at + 42 * i + 16, 8>>,
                 <<at + 42 * i + 24, 9>>, <<at + 42 * i + 33, 9>> >>)
  IN
  CASE kind = 0 -> Point(at, 55) \o Reads(<< <<at + 55, 11>>, <<at + 66, 4>>,
                                             <<at + 70, 3>>, <<at + 73, 12>> >>)
    [] kind = 1 -> Text(at, 84) \o Reads(<< <<at + 84, 1>> >>)
    [] kind = 2 -> WindReport(at)
    [] kind = 3 -> WaterLevel(at)
    [] kind = 4 -> Curr2D(at)
    [] kind = 5 -> Each(2, current_3d) \o Reads(<< <<at + 66, 3>>, <<at + 69, 16>> >>)
    [] kind = 6 -> Each(2, flow) \o Bit(at + 84)
    [] kind = 7 -> SeaState(at)
    [] kind = 8 -> Salinity(at)
    [] kind = 9 -> Wx(at)
    [] kind = 10 -> Reads(<< <<at, 13>>, <<at + 13, 13>>, <<at + 26, 2>>, <<at + 28, 13>>,
                             <<at + 41, 5>>, <<at + 46, 5>>, <<at + 51, 6>>,
                             <<at + 57, 28>> >>)

(* The factory: type, then the report, then the header between them. *)
SensorReport(offset, known, report, refused) ==
  Reads(<< <<offset, 4>> >>) \o SeekTo(offset + 27)
  \o IF known THEN report \o ReportHeader(offset) ELSE Return(refused)

Report_1_26(kind, offset) ==
  SensorReport(offset, kind \in 0 .. 10, Sensor_1_26(kind, offset + 27),
               "AIS_ERR_BAD_SUB_SUB_MSG")

Ais8_1_26(p) ==
  LET n == NumBits(p)
      report(i) == SeekTo(56 + 112 * i) \o Report_1_26(Kind(p, i), 56 + 112 * i)
  IN
  Applied(p, 1, 26, n \in 168 .. 1098, Each((n - 56) \div 112, report) \o Ok)

(* Ais8_367_33_Location to Ais8_367_33_Wind_V2, after the type. *)
Sensor_367_33(kind, at) ==
  LET current_3d(i) ==
        Reads(<< <<at + 36 * i, 9>>, <<at + 36 * i + 9, 9>>, <<at + 36 * i + 18, 9>>,
                 <<at + 36 * i + 27, 9>> >>)
      flow(i) ==
        Reads(<< <<at + 35 * i + 9, 9>>, <<at + 35 * i + 18, 8>>,
                 <<at + 35 * i + 26, 9>>, <<at + 35 * i + 35, 9>> >>)
  IN
  CASE kind = 0 -> Reads(<< <<at, 6>> >>) \o Point(at + 6, 55)
                   \o Reads(<< <<at + 61, 3>>, <<at + 64, 12>>, <<at + 76, 4>>,
                               <<at + 80, 3>>, <<at + 83, 2>> >>)
    [] kind = 1 -> Text(at, 84) \o Reads(<< <<at + 84, 1>> >>)
    [] kind = 2 -> WindReport(at)
    [] kind = 3 -> WaterLevel(at)
    [] kind = 4 -> Curr2D(at)
    [] kind = 5 -> Each(2, current_3d) \o Reads(<< <<at + 72, 3>>, <<at + 75, 10>> >>)
    [] kind = 6 -> Reads(<< <<at, 9>> >>) \o Each(2, flow)
                   \o Reads(<< <<at + 79, 3>>, <<at + 82, 3>> >>)
    [] kind = 7 -> SeaState(at)
    [] kind = 8 -> Salinity(at)
    [] kind = 9 -> Wx(at)
    [] kind = 10 -> Reads(<< <<at, 13>>, <<at + 13, 13>>, <<at + 26, 2>>, <<at + 28, 13>>,
                             <<at + 41, 5>>, <<at + 46, 5>>, <<at + 51, 6>>,
                             <<at + 57, 3>>, <<at + 60, 25>> >>)
    [] kind = 11 -> Reads(<< <<at, 7>>, <<at + 7, 7>>, <<at + 14, 9>>, <<at + 23, 6>>,
                             <<at + 29, 3>>, <<at + 32, 7>>, <<at + 39, 7>>,
                             <<at + 46, 9>>, <<at + 55, 5>>, <<at + 60, 6>>,
                             <<at + 66, 8>>, <<at + 74, 11>> >>)

Report_367_33(kind, offset) ==
  SensorReport(offset, kind \in 0 .. 11, Sensor_367_33(kind, offset + 27),
               "AIS_ERR_BAD_SUB_MSG")

Ais8_367_33(p) ==
  LET n == NumBits(p)
      report(i) == SeekTo(56 + 112 * i) \o Report_367_33(Kind(p, i), 56 + 112 * i)
  IN
  Applied(p, 367, 33, n \in 168 .. 952 /\ (n - 56) % 112 = 0,
    Each((n - 56) \div 112, report) \o Ok)

=============================================================================
