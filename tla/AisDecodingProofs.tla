-------------------------- MODULE AisDecodingProofs -------------------------
(***************************************************************************)
(* The constructors abort exactly on the payloads that Unguarded names,    *)
(* read no pad and leave a status, whatever the payloads are.              *)
(*                                                                         *)
(* The area notices and environmental reports of message 8 settle the      *)
(* status as the other constructors (AisDecoderProofs) do; so do the       *)
(* dispatchers of 6 and 8, on what they construct and on what they do not. *)
(* Course, the inductive invariant, then says that the calls that are left *)
(* still end as is due, from wherever the constructor has come.            *)
(***************************************************************************)
EXTENDS AisDecoderProofs

-----------------------------------------------------------------------------
(* Area notices: 1:22, 366:22 and 367:22.                                  *)

(* Points of a polyline. *)
LEMMA PointsRun ==
  ASSUME NEW p, IsPayload(p), p.points \in 1 .. 4, NEW at \in Int, NEW bits \in {10, 11},
         at + p.points * (10 + bits) <= Limit(p)
  PROVE  Runs(p, Points(p, at, bits), at, at + p.points * (10 + bits))
<1> DEFINE n == p.points
           size == 10 + bits
           F(i) == LET start == at + i * (10 + bits) IN
                   << <<start, 10>>, <<start + 10, bits>> >>
           pieces == [i \in 1 .. n |-> Reads(F(i - 1))]
<1>1. Points(p, at, bits) = FlattenSeq(pieces)
  BY DEF Points, Each
<1>2. size \in Int /\ n \in Nat /\ Limit(p) \in Int /\ size = 10 + bits
  BY PayloadBits
<1>3. ASSUME NEW i \in 0 .. n - 1
      PROVE  Runs(p, pieces[i + 1], at + i * size, at + i * size + size)
  <2> DEFINE start == at + i * size
             G == << <<start, 10>>, <<start + 10, bits>> >>
  <2>1. i + 1 \in 1 .. n /\ (i + 1) - 1 = i
    BY <1>2
  <2>2. pieces[i + 1] = Reads(G)
    BY <2>1
  <2>3. start \in Int /\ start + size \in Int
    BY <1>2
  <2>4. start + size <= Limit(p)
    <3>1. n \in 1 .. 4 /\ i \in 0 .. n - 1
      OBVIOUS
    <3>2. i * size + size <= n * size
      <4>1. i + 1 <= n
        BY <3>1
      <4> HIDE DEF n
      <4>2. CASE bits = 10
        BY <3>1, <4>1, <4>2
      <4>3. CASE bits = 11
        BY <3>1, <4>1, <4>3
      <4> QED
        BY <4>2, <4>3
    <3>3. at + n * size <= Limit(p)
      OBVIOUS
    <3>4. i * size \in Int /\ n * size \in Int
      BY <1>2
    <3> HIDE DEF n, size
    <3> QED
      BY <1>2, <3>2, <3>3, <3>4 DEF start
  <2> HIDE DEF start, pieces
  <2>5. Tiles(G, start, start + size)
    BY <2>3 DEF Tiles, Within
  <2> HIDE DEF G
  <2>6. Runs(p, Reads(G), start, start + size)
    BY <2>3, <2>4, <2>5, ReadsRun
  <2> QED
    BY <2>2, <2>6 DEF start
<1>4. pieces = [i \in 1 .. n |-> pieces[i]]
  OBVIOUS
<1> HIDE DEF pieces, n, size
<1>5. Runs(p, FlattenSeq(pieces), at, at + n * size)
  BY <1>2, <1>3, <1>4, EvenLoop
<1> QED
  BY <1>1, <1>5 DEF n, size

(* Wherever the cursor is. *)
LEMMA PointsShape ==
  ASSUME NEW p, p.points \in 1 .. 4, NEW at \in Int, NEW bits \in {10, 11}
  PROVE  Points(p, at, bits) \in Seq(Shape)
<1> DEFINE n == p.points
           F(i) == LET start == at + i * (10 + bits) IN
                   << <<start, 10>>, <<start + 10, bits>> >>
           pieces == [i \in 1 .. n |-> Reads(F(i - 1))]
<1>1. Points(p, at, bits) = FlattenSeq(pieces)
  BY DEF Points, Each
<1>2. n \in 1 .. 4
  OBVIOUS
<1>3. ASSUME NEW i \in 0 .. n - 1
      PROVE  /\ pieces[i + 1] = Reads(F(i)) /\ F(i) \in Seq(Int \X Int) /\ Len(F(i)) > 0
             /\ F(i)[1][1] = at + i * (10 + bits)
  <2>1. i + 1 \in 1 .. n /\ (i + 1) - 1 = i
    BY <1>2
  <2> QED
    BY <1>2, <2>1
<1>4. pieces = [i \in 1 .. n |-> pieces[i]]
  OBVIOUS
<1> HIDE DEF pieces, n, F
<1>5. \A i \in 0 .. n - 1 : pieces[i + 1] \in Seq(Shape)
  BY <1>3, Shapes
<1>6. Gives(p, pieces[1], at + 1, "aborted")
  <2>1. 0 \in 0 .. n - 1 /\ 0 + 1 = 1 /\ at + 0 * (10 + bits) = at
    BY <1>2
  <2>2. pieces[1] = Reads(F(0)) /\ F(0) \in Seq(Int \X Int) /\ Len(F(0)) > 0 /\ F(0)[1][1] = at
    BY <1>3, <2>1
  <2>3. at + 1 \in Int /\ Undecided \in Statuses /\ at # at + 1
    BY DEF Statuses
  <2> QED
    BY <2>2, <2>3, Misread DEF Gives
<1> DEFINE from == at + 1
           size == 0
           k == 0
           v == "aborted"
<1>7. n \in Nat /\ from \in Int /\ size \in Int /\ k \in 0 .. n - 1
  BY <1>2
<1>8. Gives(p, pieces[k + 1], from + k * size, v)
  BY <1>6
<1>9. \A i \in 0 .. k - 1 : Runs(p, pieces[i + 1], from + i * size, from + i * size + size)
  OBVIOUS
<1> HIDE DEF from, size, k, v
<1>10. Gives(p, FlattenSeq(pieces), from, v)
  BY <1>4, <1>5, <1>7, <1>8, <1>9, EvenLoopLeft
<1> QED
  BY <1>1, <1>10 DEF Gives, Halts

(* A loop over n sub-messages: all are of other kinds than B, or the k-th  *)
(* is the first of them, which ends the loop or the next one begins at y.  *)
Left(p, n, start, size, seqs, B, k) ==
  /\ Kind(p, k) \in B /\ \A i \in 0 .. k - 1 : Kind(p, i) \notin B
  /\ \A v : Gives(p, seqs[k + 1], start + k * size, v) => Gives(p, FlattenSeq(seqs), start, v)
  /\ \A y \in Int, e \in Statuses :
       Leads(p, seqs[k + 1], start + k * size, Undecided, y, e)
       => /\ k + 1 = n => Leads(p, FlattenSeq(seqs), start, Undecided, y, e)
          /\ \A v : k + 1 < n /\ Halts(p, seqs[k + 2], y, e, v)
               => Halts(p, FlattenSeq(seqs), start, Undecided, v)

(* The loop runs over all its sub-messages, or is left at one of the kinds *)
(* B.                                                                      *)
Looped(p, n, start, size, seqs, B) ==
  \/ /\ \A i \in 0 .. n - 1 : Kind(p, i) \notin B
     /\ Runs(p, FlattenSeq(seqs), start, start + n * size)
  \/ \E k \in 0 .. n - 1 : Left(p, n, start, size, seqs, B, k)

(* A loop over sub-messages of which those of the kinds B leave it. *)
LEMMA KindsLoop ==
  ASSUME NEW p, NEW n \in Nat, NEW start \in Int, NEW size \in Int,
         NEW seqs, seqs = [i \in 1 .. n |-> seqs[i]],
         \A i \in 0 .. n - 1 : seqs[i + 1] \in Seq(Shape),
         NEW B,
         \A i \in 0 .. n - 1 :
           Kind(p, i) \notin B
             => Runs(p, seqs[i + 1], start + i * size, start + i * size + size)
  PROVE  Looped(p, n, start, size, seqs, B)
<1>1. CASE \A i \in 0 .. n - 1 : Kind(p, i) \notin B
  <2>1. \A i \in 0 .. n - 1 : Runs(p, seqs[i + 1], start + i * size, start + i * size + size)
    BY <1>1
  <2>2. Runs(p, FlattenSeq(seqs), start, start + n * size)
    BY <2>1, EvenLoop
  <2> QED
    BY <1>1, <2>2 DEF Looped
<1>2. CASE ~ \A i \in 0 .. n - 1 : Kind(p, i) \notin B
  <2>1. PICK k \in 0 .. n - 1 : Kind(p, k) \in B /\ \A i \in 0 .. k - 1 : Kind(p, i) \notin B
    <3>1. PICK j \in 0 .. n - 1 : Kind(p, j) \in B
      BY <1>2
    <3> DEFINE T == {i \in Int : Kind(p, i) \in B}
    <3>2. j \in T /\ n \in Nat
      BY <3>1
    <3> HIDE DEF T
    <3>3. PICK k \in 0 .. n - 1 : k \in T /\ \A i \in 0 .. k - 1 : i \notin T
      BY <3>1, <3>2, Least
    <3> QED
      BY <3>3 DEF T
  <2>2. \A i \in 0 .. k - 1 : Runs(p, seqs[i + 1], start + i * size, start + i * size + size)
    <3> TAKE i \in 0 .. k - 1
    <3>1. i \in 0 .. n - 1
      OBVIOUS
    <3> QED
      BY <2>1, <3>1
  <2>3. ASSUME NEW v, Gives(p, seqs[k + 1], start + k * size, v)
        PROVE  Gives(p, FlattenSeq(seqs), start, v)
    BY <2>2, <2>3, EvenLoopLeft
  <2>4. ASSUME NEW y \in Int, NEW e \in Statuses,
               Leads(p, seqs[k + 1], start + k * size, Undecided, y, e)
        PROVE  /\ k + 1 = n => Leads(p, FlattenSeq(seqs), start, Undecided, y, e)
               /\ \A v : k + 1 < n /\ Halts(p, seqs[k + 2], y, e, v)
                    => Halts(p, FlattenSeq(seqs), start, Undecided, v)
    BY <2>2, <2>4, OddLoop
  <2>5. Left(p, n, start, size, seqs, B, k)
    BY <2>1, <2>3, <2>4 DEF Left
  <2> QED
    BY <2>5 DEF Looped
<1> QED
  BY <1>1, <1>2

(* One area of 366:22, at the cursor or away from it. *)
LEMMA Area_366_22 ==
  ASSUME NEW p, IsPayload(p), p.points \in 1 .. 4, NEW kind \in 0 .. 7, NEW start \in Int,
         start + 90 <= Limit(p)
  PROVE  /\ kind \in {1, 2, 5} => Runs(p, SubArea_366_22(p, kind, start), start, start + 90)
         /\ kind = 0 => Runs(p, SubArea_366_22(p, kind, start), start, start + 88)
         /\ kind \in {3, 4} /\ p.points = 4
              => Runs(p, SubArea_366_22(p, kind, start), start, start + 90)
         /\ kind \in {3, 4} /\ p.points < 4
              => Gives(p, SubArea_366_22(p, kind, start), start, "aborted")
         /\ kind \in {6, 7} =>
              Gives(p, SubArea_366_22(p, kind, start), start, "AIS_ERR_BAD_SUB_SUB_MSG")
         /\ \A x \in Int, u \in Statuses :
              x # start => Halts(p, SubArea_366_22(p, kind, start), x, u, "aborted")
<1> DEFINE lead == << <<start, 3>> >>
           area == SubArea_366_22(p, kind, start)
           b0 == Reads(<< <<start + 3, 2>> >>) \o Point(start + 5, 55)
                 \o Reads(<< <<start + 60, 12>>, <<start + 72, 16>> >>)
           b1 == Reads(<< <<start + 3, 2>> >>) \o Point(start + 5, 55)
                 \o Reads(<< <<start + 60, 8>>, <<start + 68, 8>>, <<start + 76, 9>>, <<start + 85, 5>> >>)
           b2 == Reads(<< <<start + 3, 2>> >>) \o Point(start + 5, 55)
                 \o Reads(<< <<start + 60, 12>>, <<start + 72, 9>>, <<start + 81, 9>> >>)
           b3 == Reads(<< <<start + 3, 2>> >>) \o Points(p, start + 5, 11)
                 \o Bit(start + 89)
           b5 == Text(start + 3, 84) \o Reads(<< <<start + 87, 3>> >>)
           b6 == Return("AIS_ERR_BAD_SUB_SUB_MSG")
<1>1. area = Reads(lead) \o CASE kind = Circle -> b0
                              [] kind = Rect -> b1
                              [] kind = Sector -> b2
                              [] kind \in Poly -> b3
                              [] kind = AreaText -> b5
                              [] kind \in ReservedAreas -> b6
  BY DEF SubArea_366_22
<1>2. /\ start + 5 + 55 <= Limit(p) /\ start + 3 + 84 <= Limit(p) /\ start + 3 \in Int
      /\ start + 3 <= Limit(p) /\ start + 5 \in Int /\ start + 5 <= Limit(p)
      /\ start + 60 \in Int /\ start + 60 <= Limit(p) /\ start + 87 \in Int
      /\ start + 87 <= Limit(p) /\ start + 88 \in Int /\ start + 88 <= Limit(p)
      /\ start + 90 \in Int /\ start + 90 <= Limit(p) /\ start + 5 + 55 = start + 60
      /\ start + 3 + 84 = start + 87 /\ start + 89 \in Int /\ start + 89 <= Limit(p)
      /\ start + 90 = start + 90
  BY PayloadBits
<1>3. Runs(p, Reads(lead), start, start + 3)
  <2>1. Tiles(lead, start, start + 3)
    BY DEF Tiles, Within
  <2> HIDE DEF lead
  <2> QED
    BY <1>2, <2>1, ReadsRun
<1>4. lead \in Seq(Int \X Int) /\ Len(lead) > 0 /\ lead[1][1] = start
  OBVIOUS
<1> HIDE DEF lead, area, b0, b1, b2, b3, b5, b6
<1>5. /\ kind = 0 => area = Reads(lead) \o b0
      /\ kind = 1 => area = Reads(lead) \o b1
      /\ kind = 2 => area = Reads(lead) \o b2
      /\ kind \in {3, 4} => area = Reads(lead) \o b3
      /\ kind = 5 => area = Reads(lead) \o b5
      /\ kind \in {6, 7} => area = Reads(lead) \o b6
  BY <1>1 DEF Circle, Rect, Sector, Poly, Polyline, Polygon, AreaText, ReservedAreas
<1>6. Runs(p, b0, start + 3, start + 88)
  <2> DEFINE F == << <<start + 3, 2>> >>
             G == << <<start + 60, 12>>, <<start + 72, 16>> >>
  <2>1. Tiles(F, start + 3, start + 5)
    BY <1>2 DEF Tiles, Within
  <2>2. Tiles(G, start + 60, start + 88)
    BY <1>2 DEF Tiles, Within
  <2>3. b0 = Reads(F) \o Point(start + 5, 55) \o Reads(G)
    BY DEF b0
  <2> HIDE DEF F, G
  <2>4. Runs(p, Reads(F), start + 3, start + 5)
    BY <1>2, <2>1, ReadsRun
  <2>5. Runs(p, Reads(F) \o Point(start + 5, 55), start + 3, start + 5 + 55)
    BY <1>2, <2>4, ThenPoint
  <2>6. Runs(p, Reads(F) \o Point(start + 5, 55), start + 3, start + 60)
    BY <1>2, <2>5
  <2>7. Runs(p, Reads(F) \o Point(start + 5, 55) \o Reads(G), start + 3, start + 88)
    BY <1>2, <2>2, <2>6, ThenReads
  <2> QED
    BY <2>3, <2>7
<1>7. Runs(p, b1, start + 3, start + 90)
  <2> DEFINE F == << <<start + 3, 2>> >>
             G == << <<start + 60, 8>>, <<start + 68, 8>>, <<start + 76, 9>>,
                     <<start + 85, 5>> >>
  <2>1. Tiles(F, start + 3, start + 5)
    BY <1>2 DEF Tiles, Within
  <2>2. Tiles(G, start + 60, start + 90)
    BY <1>2 DEF Tiles, Within
  <2>3. b1 = Reads(F) \o Point(start + 5, 55) \o Reads(G)
    BY DEF b1
  <2> HIDE DEF F, G
  <2>4. Runs(p, Reads(F), start + 3, start + 5)
    BY <1>2, <2>1, ReadsRun
  <2>5. Runs(p, Reads(F) \o Point(start + 5, 55), start + 3, start + 5 + 55)
    BY <1>2, <2>4, ThenPoint
  <2>6. Runs(p, Reads(F) \o Point(start + 5, 55), start + 3, start + 60)
    BY <1>2, <2>5
  <2>7. Runs(p, Reads(F) \o Point(start + 5, 55) \o Reads(G), start + 3, start + 90)
    BY <1>2, <2>2, <2>6, ThenReads
  <2> QED
    BY <2>3, <2>7
<1>8. Runs(p, b2, start + 3, start + 90)
  <2> DEFINE F == << <<start + 3, 2>> >>
             G == << <<start + 60, 12>>, <<start + 72, 9>>, <<start + 81, 9>> >>
  <2>1. Tiles(F, start + 3, start + 5)
    BY <1>2 DEF Tiles, Within
  <2>2. Tiles(G, start + 60, start + 90)
    BY <1>2 DEF Tiles, Within
  <2>3. b2 = Reads(F) \o Point(start + 5, 55) \o Reads(G)
    BY DEF b2
  <2> HIDE DEF F, G
  <2>4. Runs(p, Reads(F), start + 3, start + 5)
    BY <1>2, <2>1, ReadsRun
  <2>5. Runs(p, Reads(F) \o Point(start + 5, 55), start + 3, start + 5 + 55)
    BY <1>2, <2>4, ThenPoint
  <2>6. Runs(p, Reads(F) \o Point(start + 5, 55), start + 3, start + 60)
    BY <1>2, <2>5
  <2>7. Runs(p, Reads(F) \o Point(start + 5, 55) \o Reads(G), start + 3, start + 90)
    BY <1>2, <2>2, <2>6, ThenReads
  <2> QED
    BY <2>3, <2>7
<1>9. Runs(p, b5, start + 3, start + 90)
  <2> DEFINE F == << <<start + 87, 3>> >>
  <2>1. Tiles(F, start + 87, start + 90)
    BY <1>2 DEF Tiles, Within
  <2>2. b5 = Text(start + 3, 84) \o Reads(F)
    BY DEF b5
  <2> HIDE DEF F
  <2>3. Runs(p, Text(start + 3, 84), start + 3, start + 3 + 84)
    BY <1>2, TextRuns
  <2>4. Runs(p, Text(start + 3, 84), start + 3, start + 87)
    BY <1>2, <2>3
  <2>5. Runs(p, Text(start + 3, 84) \o Reads(F), start + 3, start + 90)
    BY <1>2, <2>1, <2>4, ThenReads
  <2> QED
    BY <2>2, <2>5
<1>10. /\ b3 \in Seq(Shape)
      /\ (p.points = 4 => Runs(p, b3, start + 3, start + 90))
      /\ (p.points < 4 => Gives(p, b3, start + 3, "aborted"))
  <2> DEFINE F == << <<start + 3, 2>> >>
             G == << <<start + 89, 1>> >>
             here == start + 5
             bits == 11
             there == here + p.points * (10 + bits)
             points == Points(p, here, bits)
  <2>1. b3 = Reads(F) \o points \o Reads(G)
    BY DEF b3, Bit
  <2>2. Tiles(F, start + 3, start + 5) /\ Tiles(G, start + 89, start + 90)
    BY <1>2 DEF Tiles, Within
  <2>3. F \in Seq(Int \X Int) /\ G \in Seq(Int \X Int) /\ Len(G) > 0 /\ G[1][1] = start + 89
    BY <1>2
  <2>4. /\ here \in Int /\ bits \in {10, 11} /\ there <= Limit(p) /\ there \in Int
        /\ (p.points = 4 => there = start + 89)
        /\ (p.points < 4 => there # start + 89)
    <3>1. p.points \in {1, 2, 3, 4} /\ Limit(p) \in Int
      BY PayloadBits
    <3>2. here \in Int /\ start + 89 = here + 84 /\ here + 84 <= Limit(p)
      BY <1>2, <3>1
    <3> HIDE DEF here
    <3>3. there = here + 21 * p.points
      BY <3>1, <3>2
    <3> HIDE DEF there
    <3> QED
      BY <3>1, <3>2, <3>3
  <2> HIDE DEF F, G, bits, there
  <2>5. points \in Seq(Shape) /\ Runs(p, points, here, there)
    BY <2>4, PointsShape, PointsRun DEF there
  <2>6. Runs(p, Reads(F), start + 3, here)
    BY <1>2, <2>2, ReadsRun
  <2> HIDE DEF points, here
  <2>7. Runs(p, Reads(F) \o points, start + 3, there)
    BY <2>5, <2>6, RunsThen
  <2>8. b3 \in Seq(Shape)
    <3>1. Reads(F) \in Seq(Shape) /\ Reads(G) \in Seq(Shape)
      BY <2>3, Shapes
    <3> QED
      BY <2>1, <2>5, <3>1, Shapes
  <2>9. ASSUME p.points = 4 PROVE Runs(p, b3, start + 3, start + 90)
    <3>1. Runs(p, Reads(F) \o points, start + 3, start + 89)
      BY <2>4, <2>7, <2>9
    <3>2. Runs(p, Reads(F) \o points \o Reads(G), start + 3, start + 90)
      BY <1>2, <2>2, <3>1, ThenReads
    <3> QED
      BY <2>1, <3>2
  <2>10. ASSUME p.points < 4 PROVE Gives(p, b3, start + 3, "aborted")
    <3>1. G[1][1] # there
      BY <2>3, <2>4, <2>10
    <3>2. Gives(p, Reads(F) \o points \o Reads(G), start + 3, "aborted")
      BY <2>3, <2>7, <3>1, ThenMisread
    <3> QED
      BY <2>1, <3>2
  <2> QED
    BY <2>8, <2>9, <2>10
<1>11. Gives(p, b6, start + 3, "AIS_ERR_BAD_SUB_SUB_MSG")
  BY <1>2, ReturnGives DEF b6, Given, Errors
<1>12. ASSUME NEW x \in Int, NEW u \in Statuses, x # start PROVE Halts(p, area, x, u, "aborted")
  <2>1. \E t \in Seq(Shape) : area = Reads(lead) \o t
    <3>1. b0 \in Seq(Shape) /\ b1 \in Seq(Shape) /\ b2 \in Seq(Shape) /\ b5 \in Seq(Shape)
      BY <1>6, <1>7, <1>8, <1>9, RunsTyped
    <3>2. b6 \in Seq(Shape)
      BY <1>11 DEF Gives, Halts
    <3> DEFINE S == Seq(Shape)
    <3>3. /\ b0 \in S /\ b1 \in S /\ b2 \in S /\ b3 \in S /\ b5 \in S /\ b6 \in S
      BY <3>1, <3>2, <1>10
    <3>4. \/ kind = 0 \/ kind = 1 \/ kind = 2 \/ kind \in {3, 4} \/ kind = 5 \/ kind \in {6, 7}
      OBVIOUS
    <3> HIDE DEF S
    <3>5. \E t \in S : area = Reads(lead) \o t
      BY <1>5, <3>3, <3>4
    <3> QED
      BY <3>5 DEF S
  <2>2. Halts(p, Reads(lead), x, u, "aborted")
    BY <1>4, <1>12, Misread
  <2> QED
    BY <2>1, <2>2, HaltsThen
<1>13. kind \in {1, 2, 5} => Runs(p, area, start, start + 90)
  <2>1. CASE kind = 1
    BY ZenonT(40), <1>3, <1>5, <1>7, <2>1, RunsThen
  <2>2. CASE kind = 2
    BY ZenonT(40), <1>3, <1>5, <1>8, <2>2, RunsThen
  <2>3. CASE kind = 5
    BY <1>3, <1>5, <1>9, <2>3, RunsThen
  <2> QED
    BY <2>1, <2>2, <2>3
<1>14. kind = 0 => Runs(p, area, start, start + 88)
  BY ZenonT(40), <1>3, <1>5, <1>6, RunsThen
<1>15. kind \in {3, 4} /\ p.points = 4 => Runs(p, area, start, start + 90)
  BY ZenonT(40), <1>3, <1>5, <1>10, RunsThen
<1>16. kind \in {3, 4} /\ p.points < 4 => Gives(p, area, start, "aborted")
  BY <1>3, <1>5, <1>10, GivesAfter
<1>17. kind \in {6, 7} => Gives(p, area, start, "AIS_ERR_BAD_SUB_SUB_MSG")
  BY <1>3, <1>5, <1>11, GivesAfter
<1>18. start + 90 = start + 90
  BY <1>2
<1> QED
  BY <1>12, <1>13, <1>14, <1>15, <1>16, <1>17, <1>18 DEF area

(* One area of 367:22, at the cursor or away from it. *)
LEMMA Area_367_22 ==
  ASSUME NEW p, IsPayload(p), p.points \in 1 .. 4, NEW kind \in 0 .. 7, NEW start \in Int,
         start + 96 <= Limit(p)
  PROVE  /\ kind \in {0, 1, 2, 5} => Runs(p, SubArea_367_22(p, kind, start), start, start + 96)
         /\ kind \in {3, 4} /\ p.points = 4
              => Runs(p, SubArea_367_22(p, kind, start), start, start + 96)
         /\ kind \in {3, 4} /\ p.points < 4
              => Gives(p, SubArea_367_22(p, kind, start), start, "aborted")
         /\ kind \in {6, 7} =>
              Gives(p, SubArea_367_22(p, kind, start), start, "AIS_ERR_BAD_SUB_SUB_MSG")
         /\ \A x \in Int, u \in Statuses :
              x # start => Halts(p, SubArea_367_22(p, kind, start), x, u, "aborted")
<1> DEFINE at == start + 3
           lead == << <<start, 3>> >>
           area == SubArea_367_22(p, kind, start)
           b0 == Reads(<< <<at, 2>> >>) \o Point(at + 2, 55) \o Reads(<< <<at + 57, 3>> >>)
                 \o Reads(<< <<at + 60, 12>>, <<at + 72, 21>> >>)
           b1 == Reads(<< <<at, 2>> >>) \o Point(at + 2, 55) \o Reads(<< <<at + 57, 3>> >>)
                 \o Reads(<< <<at + 60, 8>>, <<at + 68, 8>>, <<at + 76, 9>>, <<at + 85, 8>> >>)
           b2 == Reads(<< <<at, 2>> >>) \o Point(at + 2, 55) \o Reads(<< <<at + 57, 3>> >>)
                 \o Reads(<< <<at + 60, 12>>, <<at + 72, 9>>, <<at + 81, 9>>, <<at + 90, 3>> >>)
           b3 == Reads(<< <<at, 2>> >>) \o Points(p, at + 2, 11)
                 \o Reads(<< <<at + 86, 7>> >>)
           b5 == Text(at, 90) \o Reads(<< <<at + 90, 3>> >>)
           b6 == Return("AIS_ERR_BAD_SUB_SUB_MSG")
<1>1. area = Reads(lead) \o CASE kind = Circle -> b0
                              [] kind = Rect -> b1
                              [] kind = Sector -> b2
                              [] kind \in Poly -> b3
                              [] kind = AreaText -> b5
                              [] kind \in ReservedAreas -> b6
  BY DEF SubArea_367_22
<1>2. /\ at + 2 + 55 <= Limit(p) /\ at + 90 <= Limit(p) /\ at \in Int /\ at <= Limit(p)
      /\ at + 2 \in Int /\ at + 2 <= Limit(p) /\ at + 57 \in Int /\ at + 57 <= Limit(p)
      /\ at + 60 \in Int /\ at + 60 <= Limit(p) /\ at + 90 \in Int /\ at + 93 \in Int
      /\ at + 93 <= Limit(p) /\ at + 2 + 55 = at + 57 /\ at + 90 = at + 90 /\ at + 86 \in Int
      /\ at + 86 <= Limit(p) /\ at + 93 = start + 96 /\ at = start + 3
  BY PayloadBits
<1>3. Runs(p, Reads(lead), start, at)
  <2>1. Tiles(lead, start, at)
    BY DEF Tiles, Within
  <2> HIDE DEF lead, at
  <2> QED
    BY <1>2, <2>1, ReadsRun
<1>4. lead \in Seq(Int \X Int) /\ Len(lead) > 0 /\ lead[1][1] = start
  OBVIOUS
<1> HIDE DEF lead, area, b0, b1, b2, b3, b5, b6, at
<1>5. /\ kind = 0 => area = Reads(lead) \o b0
      /\ kind = 1 => area = Reads(lead) \o b1
      /\ kind = 2 => area = Reads(lead) \o b2
      /\ kind \in {3, 4} => area = Reads(lead) \o b3
      /\ kind = 5 => area = Reads(lead) \o b5
      /\ kind \in {6, 7} => area = Reads(lead) \o b6
  BY SMTT(60), <1>1 DEF Circle, Rect, Sector, Poly, Polyline, Polygon, AreaText, ReservedAreas
<1>6. Runs(p, b0, at, at + 93)
  <2> DEFINE F == << <<at, 2>> >>
             G == << <<at + 57, 3>> >>
             H == << <<at + 60, 12>>, <<at + 72, 21>> >>
  <2>1. Tiles(F, at, at + 2)
    BY <1>2 DEF Tiles, Within
  <2>2. Tiles(G, at + 57, at + 60)
    BY <1>2 DEF Tiles, Within
  <2>3. Tiles(H, at + 60, at + 93)
    BY <1>2 DEF Tiles, Within
  <2>4. b0 = Reads(F) \o Point(at + 2, 55) \o Reads(G) \o Reads(H)
    BY DEF b0
  <2> HIDE DEF F, G, H
  <2>5. Runs(p, Reads(F), at, at + 2)
    BY <1>2, <2>1, ReadsRun
  <2>6. Runs(p, Reads(F) \o Point(at + 2, 55), at, at + 2 + 55)
    BY <1>2, <2>5, ThenPoint
  <2>7. Runs(p, Reads(F) \o Point(at + 2, 55), at, at + 57)
    BY <1>2, <2>6
  <2>8. Runs(p, Reads(F) \o Point(at + 2, 55) \o Reads(G), at, at + 60)
    BY <1>2, <2>2, <2>7, ThenReads
  <2>9. Runs(p, Reads(F) \o Point(at + 2, 55) \o Reads(G) \o Reads(H), at, at + 93)
    BY <1>2, <2>3, <2>8, ThenReads
  <2> QED
    BY <2>4, <2>9
<1>7. Runs(p, b1, at, at + 93)
  <2> DEFINE F == << <<at, 2>> >>
             G == << <<at + 57, 3>> >>
             H == << <<at + 60, 8>>, <<at + 68, 8>>, <<at + 76, 9>>, <<at + 85, 8>> >>
  <2>1. Tiles(F, at, at + 2)
    BY <1>2 DEF Tiles, Within
  <2>2. Tiles(G, at + 57, at + 60)
    BY <1>2 DEF Tiles, Within
  <2>3. Tiles(H, at + 60, at + 93)
    BY <1>2 DEF Tiles, Within
  <2>4. b1 = Reads(F) \o Point(at + 2, 55) \o Reads(G) \o Reads(H)
    BY DEF b1
  <2> HIDE DEF F, G, H
  <2>5. Runs(p, Reads(F), at, at + 2)
    BY <1>2, <2>1, ReadsRun
  <2>6. Runs(p, Reads(F) \o Point(at + 2, 55), at, at + 2 + 55)
    BY <1>2, <2>5, ThenPoint
  <2>7. Runs(p, Reads(F) \o Point(at + 2, 55), at, at + 57)
    BY <1>2, <2>6
  <2>8. Runs(p, Reads(F) \o Point(at + 2, 55) \o Reads(G), at, at + 60)
    BY <1>2, <2>2, <2>7, ThenReads
  <2>9. Runs(p, Reads(F) \o Point(at + 2, 55) \o Reads(G) \o Reads(H), at, at + 93)
    BY <1>2, <2>3, <2>8, ThenReads
  <2> QED
    BY <2>4, <2>9
<1>8. Runs(p, b2, at, at + 93)
  <2> DEFINE F == << <<at, 2>> >>
             G == << <<at + 57, 3>> >>
             H == << <<at + 60, 12>>, <<at + 72, 9>>, <<at + 81, 9>>, <<at + 90, 3>> >>
  <2>1. Tiles(F, at, at + 2)
    BY <1>2 DEF Tiles, Within
  <2>2. Tiles(G, at + 57, at + 60)
    BY <1>2 DEF Tiles, Within
  <2>3. Tiles(H, at + 60, at + 93)
    BY <1>2 DEF Tiles, Within
  <2>4. b2 = Reads(F) \o Point(at + 2, 55) \o Reads(G) \o Reads(H)
    BY DEF b2
  <2> HIDE DEF F, G, H
  <2>5. Runs(p, Reads(F), at, at + 2)
    BY <1>2, <2>1, ReadsRun
  <2>6. Runs(p, Reads(F) \o Point(at + 2, 55), at, at + 2 + 55)
    BY <1>2, <2>5, ThenPoint
  <2>7. Runs(p, Reads(F) \o Point(at + 2, 55), at, at + 57)
    BY <1>2, <2>6
  <2>8. Runs(p, Reads(F) \o Point(at + 2, 55) \o Reads(G), at, at + 60)
    BY <1>2, <2>2, <2>7, ThenReads
  <2>9. Runs(p, Reads(F) \o Point(at + 2, 55) \o Reads(G) \o Reads(H), at, at + 93)
    BY <1>2, <2>3, <2>8, ThenReads
  <2> QED
    BY <2>4, <2>9
<1>9. Runs(p, b5, at, at + 93)
  <2> DEFINE F == << <<at + 90, 3>> >>
  <2>1. Tiles(F, at + 90, at + 93)
    BY <1>2 DEF Tiles, Within
  <2>2. b5 = Text(at, 90) \o Reads(F)
    BY DEF b5
  <2> HIDE DEF F
  <2>3. Runs(p, Text(at, 90), at, at + 90)
    BY <1>2, TextRuns
  <2>4. Runs(p, Text(at, 90), at, at + 90)
    BY <1>2, <2>3
  <2>5. Runs(p, Text(at, 90) \o Reads(F), at, at + 93)
    BY <1>2, <2>1, <2>4, ThenReads
  <2> QED
    BY <2>2, <2>5
<1>10. /\ b3 \in Seq(Shape)
      /\ (p.points = 4 => Runs(p, b3, at, at + 93))
      /\ (p.points < 4 => Gives(p, b3, at, "aborted"))
  <2> DEFINE F == << <<at, 2>> >>
             G == << <<at + 86, 7>> >>
             here == at + 2
             bits == 11
             there == here + p.points * (10 + bits)
             points == Points(p, here, bits)
  <2>1. b3 = Reads(F) \o points \o Reads(G)
    BY DEF b3
  <2>2. Tiles(F, at, at + 2) /\ Tiles(G, at + 86, at + 93)
    BY <1>2 DEF Tiles, Within
  <2>3. F \in Seq(Int \X Int) /\ G \in Seq(Int \X Int) /\ Len(G) > 0 /\ G[1][1] = at + 86
    BY <1>2
  <2>4. /\ here \in Int /\ bits \in {10, 11} /\ there <= Limit(p) /\ there \in Int
        /\ (p.points = 4 => there = at + 86)
        /\ (p.points < 4 => there # at + 86)
    <3>1. p.points \in {1, 2, 3, 4} /\ Limit(p) \in Int
      BY PayloadBits
    <3>2. here \in Int /\ at + 86 = here + 84 /\ here + 84 <= Limit(p)
      BY <1>2, <3>1
    <3> HIDE DEF here
    <3>3. there = here + 21 * p.points
      BY <3>1, <3>2
    <3> HIDE DEF there
    <3> QED
      BY <3>1, <3>2, <3>3
  <2> HIDE DEF F, G, bits, there
  <2>5. points \in Seq(Shape) /\ Runs(p, points, here, there)
    BY <2>4, PointsShape, PointsRun DEF there
  <2>6. Runs(p, Reads(F), at, here)
    BY <1>2, <2>2, ReadsRun
  <2> HIDE DEF points, here
  <2>7. Runs(p, Reads(F) \o points, at, there)
    BY <2>5, <2>6, RunsThen
  <2>8. b3 \in Seq(Shape)
    <3>1. Reads(F) \in Seq(Shape) /\ Reads(G) \in Seq(Shape)
      BY <2>3, Shapes
    <3> QED
      BY <2>1, <2>5, <3>1, Shapes
  <2>9. ASSUME p.points = 4 PROVE Runs(p, b3, at, at + 93)
    <3>1. Runs(p, Reads(F) \o points, at, at + 86)
      BY <2>4, <2>7, <2>9
    <3>2. Runs(p, Reads(F) \o points \o Reads(G), at, at + 93)
      BY <1>2, <2>2, <3>1, ThenReads
    <3> QED
      BY <2>1, <3>2
  <2>10. ASSUME p.points < 4 PROVE Gives(p, b3, at, "aborted")
    <3>1. G[1][1] # there
      BY <2>3, <2>4, <2>10
    <3>2. Gives(p, Reads(F) \o points \o Reads(G), at, "aborted")
      BY <2>3, <2>7, <3>1, ThenMisread
    <3> QED
      BY <2>1, <3>2
  <2> QED
    BY <2>8, <2>9, <2>10
<1>11. Gives(p, b6, at, "AIS_ERR_BAD_SUB_SUB_MSG")
  BY <1>2, ReturnGives DEF b6, Given, Errors
<1>12. ASSUME NEW x \in Int, NEW u \in Statuses, x # start PROVE Halts(p, area, x, u, "aborted")
  <2>1. \E t \in Seq(Shape) : area = Reads(lead) \o t
    <3>1. b0 \in Seq(Shape) /\ b1 \in Seq(Shape) /\ b2 \in Seq(Shape) /\ b5 \in Seq(Shape)
      BY <1>6, <1>7, <1>8, <1>9, RunsTyped
    <3>2. b6 \in Seq(Shape)
      BY <1>11 DEF Gives, Halts
    <3> DEFINE S == Seq(Shape)
    <3>3. /\ b0 \in S /\ b1 \in S /\ b2 \in S /\ b3 \in S /\ b5 \in S /\ b6 \in S
      BY <3>1, <3>2, <1>10
    <3>4. \/ kind = 0 \/ kind = 1 \/ kind = 2 \/ kind \in {3, 4} \/ kind = 5 \/ kind \in {6, 7}
      OBVIOUS
    <3> HIDE DEF S
    <3>5. \E t \in S : area = Reads(lead) \o t
      BY <1>5, <3>3, <3>4
    <3> QED
      BY <3>5 DEF S
  <2>2. Halts(p, Reads(lead), x, u, "aborted")
    BY <1>4, <1>12, Misread
  <2> QED
    BY <2>1, <2>2, HaltsThen
<1>13. kind \in {0, 1, 2, 5} => Runs(p, area, start, at + 93)
  <2>1. CASE kind = 0
    BY ZenonT(40), <1>3, <1>5, <1>6, <2>1, RunsThen
  <2>2. CASE kind = 1
    BY <1>3, <1>5, <1>7, <2>2, RunsThen
  <2>3. CASE kind = 2
    BY <1>3, <1>5, <1>8, <2>3, RunsThen
  <2>4. CASE kind = 5
    BY <1>3, <1>5, <1>9, <2>4, RunsThen
  <2> QED
    BY <2>1, <2>2, <2>3, <2>4
<1>14. kind \in {3, 4} /\ p.points = 4 => Runs(p, area, start, at + 93)
  BY <1>3, <1>5, <1>10, RunsThen
<1>15. kind \in {3, 4} /\ p.points < 4 => Gives(p, area, start, "aborted")
  BY <1>3, <1>5, <1>10, GivesAfter
<1>16. kind \in {6, 7} => Gives(p, area, start, "AIS_ERR_BAD_SUB_SUB_MSG")
  BY <1>3, <1>5, <1>11, GivesAfter
<1>17. at + 93 = start + 96
  BY <1>2
<1> QED
  BY <1>12, <1>13, <1>14, <1>15, <1>16, <1>17 DEF area

(* One area of 1:22, at the cursor or away from it. *)
LEMMA Area_1_22 ==
  ASSUME NEW p, IsPayload(p), p.points \in 1 .. 4, NEW kind \in 0 .. 7, NEW start \in Nat,
         start + 87 <= NumBits(p)
  PROVE  /\ kind \in {0, 1, 2, 5} => Runs(p, SubArea_1_22(p, kind, start), start, start + 87)
         /\ kind \in {3, 4} => Runs(p, SubArea_1_22(p, kind, start), start, start + 87)
         /\ kind \in {6, 7} =>
              Leads(p, SubArea_1_22(p, kind, start), start, Undecided, start + 3,
                    "AIS_ERR_BAD_SUB_SUB_MSG")
         /\ \A x \in Int, u \in Statuses :
              x # start => Halts(p, SubArea_1_22(p, kind, start), x, u, "aborted")
<1> DEFINE at == start + 3
           lead == << <<start, 3>> >>
           area == SubArea_1_22(p, kind, start)
           b0 == Reads(<< <<at, 2>> >>) \o Point(at + 2, 49) \o Reads(<< <<at + 51, 3>> >>)
                 \o Reads(<< <<at + 54, 12>>, <<at + 66, 18>> >>)
           b1 == Reads(<< <<at, 2>> >>) \o Point(at + 2, 49) \o Reads(<< <<at + 51, 3>> >>)
                 \o Reads(<< <<at + 54, 8>>, <<at + 62, 8>>, <<at + 70, 9>>, <<at + 79, 5>> >>)
           b2 == Reads(<< <<at, 2>> >>) \o Point(at + 2, 49) \o Reads(<< <<at + 51, 3>> >>)
                 \o Reads(<< <<at + 54, 12>>, <<at + 66, 9>>, <<at + 75, 9>> >>)
           b3 == Reads(<< <<at, 2>> >>) \o Points(p, at + 2, 10) \o SeekTo(at + 87 - 5)
                 \o Reads(<< <<at + 87 - 5, 2>> >>)
           b5 == Text(at, 84)
           b6 == SetStatus("AIS_ERR_BAD_SUB_SUB_MSG")
<1>1. area = Reads(lead) \o CASE kind = Circle -> b0
                              [] kind = Rect -> b1
                              [] kind = Sector -> b2
                              [] kind \in Poly -> b3
                              [] kind = AreaText -> b5
                              [] kind \in ReservedAreas -> b6
  BY DEF SubArea_1_22
<1>2. /\ at + 2 + 49 <= Limit(p) /\ at + 84 <= Limit(p) /\ at \in Int /\ at <= Limit(p)
      /\ at + 2 \in Int /\ at + 2 <= Limit(p) /\ at + 51 \in Int /\ at + 51 <= Limit(p)
      /\ at + 54 \in Int /\ at + 54 <= Limit(p) /\ at + 84 \in Int /\ at + 2 + 49 = at + 51
      /\ at + 84 = at + 84 /\ at + 82 \in Int /\ at + 82 <= Limit(p) /\ at + 84 = start + 87
      /\ at = start + 3 /\ at + 82 \in Nat /\ at + 82 < NumBits(p) /\ at + 87 - 5 = at + 82
  BY PayloadBits
<1>3. Runs(p, Reads(lead), start, at)
  <2>1. Tiles(lead, start, at)
    BY DEF Tiles, Within
  <2> HIDE DEF lead, at
  <2> QED
    BY <1>2, <2>1, ReadsRun
<1>4. lead \in Seq(Int \X Int) /\ Len(lead) > 0 /\ lead[1][1] = start
  OBVIOUS
<1> HIDE DEF lead, area, b0, b1, b2, b3, b5, b6, at
<1>5. /\ kind = 0 => area = Reads(lead) \o b0
      /\ kind = 1 => area = Reads(lead) \o b1
      /\ kind = 2 => area = Reads(lead) \o b2
      /\ kind \in {3, 4} => area = Reads(lead) \o b3
      /\ kind = 5 => area = Reads(lead) \o b5
      /\ kind \in {6, 7} => area = Reads(lead) \o b6
  BY <1>1 DEF Circle, Rect, Sector, Poly, Polyline, Polygon, AreaText, ReservedAreas
<1>6. Runs(p, b0, at, at + 84)
  <2> DEFINE F == << <<at, 2>> >>
             G == << <<at + 51, 3>> >>
             H == << <<at + 54, 12>>, <<at + 66, 18>> >>
  <2>1. Tiles(F, at, at + 2)
    BY <1>2 DEF Tiles, Within
  <2>2. Tiles(G, at + 51, at + 54)
    BY <1>2 DEF Tiles, Within
  <2>3. Tiles(H, at + 54, at + 84)
    BY <1>2 DEF Tiles, Within
  <2>4. b0 = Reads(F) \o Point(at + 2, 49) \o Reads(G) \o Reads(H)
    BY DEF b0
  <2> HIDE DEF F, G, H
  <2>5. Runs(p, Reads(F), at, at + 2)
    BY <1>2, <2>1, ReadsRun
  <2>6. Runs(p, Reads(F) \o Point(at + 2, 49), at, at + 2 + 49)
    BY <1>2, <2>5, ThenPoint
  <2>7. Runs(p, Reads(F) \o Point(at + 2, 49), at, at + 51)
    BY <1>2, <2>6
  <2>8. Runs(p, Reads(F) \o Point(at + 2, 49) \o Reads(G), at, at + 54)
    BY <1>2, <2>2, <2>7, ThenReads
  <2>9. Runs(p, Reads(F) \o Point(at + 2, 49) \o Reads(G) \o Reads(H), at, at + 84)
    BY <1>2, <2>3, <2>8, ThenReads
  <2> QED
    BY <2>4, <2>9
<1>7. Runs(p, b1, at, at + 84)
  <2> DEFINE F == << <<at, 2>> >>
             G == << <<at + 51, 3>> >>
             H == << <<at + 54, 8>>, <<at + 62, 8>>, <<at + 70, 9>>, <<at + 79, 5>> >>
  <2>1. Tiles(F, at, at + 2)
    BY <1>2 DEF Tiles, Within
  <2>2. Tiles(G, at + 51, at + 54)
    BY <1>2 DEF Tiles, Within
  <2>3. Tiles(H, at + 54, at + 84)
    BY <1>2 DEF Tiles, Within
  <2>4. b1 = Reads(F) \o Point(at + 2, 49) \o Reads(G) \o Reads(H)
    BY DEF b1
  <2> HIDE DEF F, G, H
  <2>5. Runs(p, Reads(F), at, at + 2)
    BY <1>2, <2>1, ReadsRun
  <2>6. Runs(p, Reads(F) \o Point(at + 2, 49), at, at + 2 + 49)
    BY <1>2, <2>5, ThenPoint
  <2>7. Runs(p, Reads(F) \o Point(at + 2, 49), at, at + 51)
    BY <1>2, <2>6
  <2>8. Runs(p, Reads(F) \o Point(at + 2, 49) \o Reads(G), at, at + 54)
    BY <1>2, <2>2, <2>7, ThenReads
  <2>9. Runs(p, Reads(F) \o Point(at + 2, 49) \o Reads(G) \o Reads(H), at, at + 84)
    BY <1>2, <2>3, <2>8, ThenReads
  <2> QED
    BY <2>4, <2>9
<1>8. Runs(p, b2, at, at + 84)
  <2> DEFINE F == << <<at, 2>> >>
             G == << <<at + 51, 3>> >>
             H == << <<at + 54, 12>>, <<at + 66, 9>>, <<at + 75, 9>> >>
  <2>1. Tiles(F, at, at + 2)
    BY <1>2 DEF Tiles, Within
  <2>2. Tiles(G, at + 51, at + 54)
    BY <1>2 DEF Tiles, Within
  <2>3. Tiles(H, at + 54, at + 84)
    BY <1>2 DEF Tiles, Within
  <2>4. b2 = Reads(F) \o Point(at + 2, 49) \o Reads(G) \o Reads(H)
    BY DEF b2
  <2> HIDE DEF F, G, H
  <2>5. Runs(p, Reads(F), at, at + 2)
    BY <1>2, <2>1, ReadsRun
  <2>6. Runs(p, Reads(F) \o Point(at + 2, 49), at, at + 2 + 49)
    BY <1>2, <2>5, ThenPoint
  <2>7. Runs(p, Reads(F) \o Point(at + 2, 49), at, at + 51)
    BY <1>2, <2>6
  <2>8. Runs(p, Reads(F) \o Point(at + 2, 49) \o Reads(G), at, at + 54)
    BY <1>2, <2>2, <2>7, ThenReads
  <2>9. Runs(p, Reads(F) \o Point(at + 2, 49) \o Reads(G) \o Reads(H), at, at + 84)
    BY <1>2, <2>3, <2>8, ThenReads
  <2> QED
    BY <2>4, <2>9
<1>9. Runs(p, b5, at, at + 84)
  <2>1. b5 = Text(at, 84)
    BY DEF b5
  <2>2. Runs(p, Text(at, 84), at, at + 84)
    BY <1>2, TextRuns
  <2>3. Runs(p, Text(at, 84), at, at + 84)
    BY <1>2, <2>2
  <2> QED
    BY <2>1, <2>3
<1>10. /\ b3 \in Seq(Shape)
      /\ (Runs(p, b3, at, at + 84))
  <2> DEFINE F == << <<at, 2>> >>
             G == << <<at + 82, 2>> >>
             here == at + 2
             bits == 10
             there == here + p.points * (10 + bits)
             points == Points(p, here, bits)
  <2>1. b3 = Reads(F) \o points \o SeekTo(at + 82) \o Reads(G)
    BY <1>2 DEF b3
  <2>2. Tiles(F, at, at + 2) /\ Tiles(G, at + 82, at + 84)
    BY <1>2 DEF Tiles, Within
  <2>3. F \in Seq(Int \X Int) /\ G \in Seq(Int \X Int) /\ Len(G) > 0 /\ G[1][1] = at + 82
    BY <1>2
  <2>4. /\ here \in Int /\ bits \in {10, 11} /\ there <= Limit(p) /\ there \in Int
    <3>1. p.points \in {1, 2, 3, 4} /\ Limit(p) \in Int
      BY PayloadBits
    <3>2. here \in Int /\ at + 82 = here + 80 /\ here + 80 <= Limit(p)
      BY <1>2, <3>1
    <3> HIDE DEF here
    <3>3. there = here + 20 * p.points
      BY <3>1, <3>2
    <3> HIDE DEF there
    <3> QED
      BY <3>1, <3>2, <3>3
  <2> HIDE DEF F, G, bits, there
  <2>5. points \in Seq(Shape) /\ Runs(p, points, here, there)
    BY <2>4, PointsShape, PointsRun DEF there
  <2>6. Runs(p, Reads(F), at, here)
    BY <1>2, <2>2, ReadsRun
  <2> HIDE DEF points, here
  <2>7. Runs(p, Reads(F) \o points, at, there)
    BY <2>5, <2>6, RunsThen
  <2>8. Runs(p, Reads(F) \o points \o SeekTo(at + 82), at, at + 82)
    BY <1>2, <2>7, ThenSeek
  <2>9. Runs(p, Reads(F) \o points \o SeekTo(at + 82) \o Reads(G), at, at + 84)
    BY <1>2, <2>2, <2>8, ThenReads
  <2> QED
    BY <2>1, <2>9, RunsTyped
<1>11. Leads(p, b6, at, Undecided, at, "AIS_ERR_BAD_SUB_SUB_MSG")
  BY <1>2, SetStatusLeads DEF b6, Errors
<1>12. ASSUME NEW x \in Int, NEW u \in Statuses, x # start PROVE Halts(p, area, x, u, "aborted")
  <2>1. \E t \in Seq(Shape) : area = Reads(lead) \o t
    <3>1. b0 \in Seq(Shape) /\ b1 \in Seq(Shape) /\ b2 \in Seq(Shape) /\ b5 \in Seq(Shape)
      BY <1>6, <1>7, <1>8, <1>9, RunsTyped
    <3>2. b6 \in Seq(Shape)
      BY <1>11 DEF Leads
    <3> DEFINE S == Seq(Shape)
    <3>3. /\ b0 \in S /\ b1 \in S /\ b2 \in S /\ b3 \in S /\ b5 \in S /\ b6 \in S
      BY <3>1, <3>2, <1>10
    <3>4. \/ kind = 0 \/ kind = 1 \/ kind = 2 \/ kind \in {3, 4} \/ kind = 5 \/ kind \in {6, 7}
      OBVIOUS
    <3> HIDE DEF S
    <3>5. \E t \in S : area = Reads(lead) \o t
      BY <1>5, <3>3, <3>4
    <3> QED
      BY <3>5 DEF S
  <2>2. Halts(p, Reads(lead), x, u, "aborted")
    BY <1>4, <1>12, Misread
  <2> QED
    BY <2>1, <2>2, HaltsThen
<1>13. kind \in {0, 1, 2, 5} => Runs(p, area, start, at + 84)
  <2>1. CASE kind = 0
    BY ZenonT(40), <1>3, <1>5, <1>6, <2>1, RunsThen
  <2>2. CASE kind = 1
    BY <1>3, <1>5, <1>7, <2>2, RunsThen
  <2>3. CASE kind = 2
    BY <1>3, <1>5, <1>8, <2>3, RunsThen
  <2>4. CASE kind = 5
    BY <1>3, <1>5, <1>9, <2>4, RunsThen
  <2> QED
    BY <2>1, <2>2, <2>3, <2>4
<1>14. kind \in {3, 4} => Runs(p, area, start, at + 84)
  BY <1>3, <1>5, <1>10, RunsThen
<1>15. kind \in {6, 7} => Leads(p, area, start, Undecided, at, "AIS_ERR_BAD_SUB_SUB_MSG")
  BY <1>3, <1>5, <1>11, LeadsThenLeads DEF Runs
<1> QED
  <2>1. at = start + 3 /\ at + 84 = start + 87
    BY <1>2
  <2> HIDE DEF at
  <2> QED
    BY <2>1, <1>12, <1>13, <1>14, <1>15 DEF area

(* No sub-message of the kinds B, and none that is decoded. *)
LEMMA NoKind ==
  ASSUME NEW p, NEW start, NEW size, NEW B,
         \A i \in 0 .. NumSub(p, start, size) - 1 : Kind(p, i) \notin B
  PROVE  Kinds(p, start, size) \cap B = {} /\ KindsDecoded(p, start, size) \cap B = {}
<1> DEFINE index == 0 .. NumSub(p, start, size) - 1
<1>1. \A i \in index : Kind(p, i) \notin B
  OBVIOUS
<1>2. Kinds(p, start, size) = {Kind(p, i) : i \in index}
  BY DEF Kinds
<1>3. \A a \in KindsDecoded(p, start, size) : \E i \in index : a = Kind(p, i)
  BY DEF KindsDecoded
<1> HIDE DEF index
<1> QED
  BY <1>1, <1>2, <1>3

(* The first sub-message of the kinds B, reserved or not. *)
LEMMA FirstKind ==
  ASSUME NEW p, NEW start, NEW size, NEW n \in Nat, n = NumSub(p, start, size),
         NEW B, ReservedAreas \subseteq B,
         NEW k \in 0 .. n - 1, Kind(p, k) \in B, \A i \in 0 .. k - 1 : Kind(p, i) \notin B
  PROVE  /\ Kind(p, k) \in ReservedAreas
              => /\ KindsDecoded(p, start, size) \cap B = {}
                 /\ Kinds(p, start, size) \cap ReservedAreas # {}
         /\ Kind(p, k) \notin ReservedAreas => Kind(p, k) \in KindsDecoded(p, start, size)
<1> DEFINE index == {j \in 0 .. n - 1 : \A h \in 0 .. j : Kind(p, h) \notin ReservedAreas}
<1>1. KindsDecoded(p, start, size) = {Kind(p, i) : i \in index}
  BY DEF KindsDecoded
<1>2. Kinds(p, start, size) = {Kind(p, i) : i \in 0 .. n - 1}
  BY DEF Kinds
<1>3. ASSUME Kind(p, k) \in ReservedAreas, NEW j \in index PROVE Kind(p, j) \notin B
  <2>1. j \in 0 .. n - 1 /\ \A h \in 0 .. j : Kind(p, h) \notin ReservedAreas
    OBVIOUS
  <2>2. k \notin 0 .. j
    BY <1>3, <2>1
  <2>3. j \in 0 .. k - 1
    BY <2>1, <2>2
  <2> QED
    BY <2>3
<1>4. ASSUME Kind(p, k) \notin ReservedAreas PROVE k \in index
  <2>1. ASSUME NEW h \in 0 .. k PROVE Kind(p, h) \notin ReservedAreas
    <3>1. CASE h = k
      BY <1>4, <3>1
    <3>2. CASE h # k
      <4>1. h \in 0 .. k - 1
        BY <3>2
      <4> QED
        BY <4>1
    <3> QED
      BY <3>1, <3>2
  <2> QED
    BY <2>1
<1> HIDE DEF index
<1>5. ASSUME Kind(p, k) \in ReservedAreas
      PROVE  /\ KindsDecoded(p, start, size) \cap B = {}
             /\ Kinds(p, start, size) \cap ReservedAreas # {}
  BY <1>1, <1>2, <1>3, <1>5
<1>6. ASSUME Kind(p, k) \notin ReservedAreas PROVE Kind(p, k) \in KindsDecoded(p, start, size)
  BY <1>1, <1>4, <1>6
<1> QED
  BY <1>5, <1>6

(* An area notice has kinds of areas, and of points. *)
LEMMA AreaKinds ==
  ASSUME NEW p, IsMessage(p), p.fi = 22
  PROVE  IsPayload(p) /\ p.points \in 1 .. 4 /\ \A i \in Nat : Kind(p, i) \in 0 .. 7
  BY KindIn DEF IsMessage

(* 8:366:22 aborts exactly on a decoded circle, a short polyline, or odd   *)
(* bits.                                                                   *)
LEMMA Ais8_366_22Settles ==
  ASSUME NEW p, IsMessage(p), p.fi = 22, Application(p) = << 366, 22 >>,
         NumBits(p) \in 56 .. 1008,
         Unguarded(p) <=>
           /\ NumBits(p) \in 209 .. 1019
           /\ \/ Circle \in KindsDecoded(p, 111, 90)
              \/ p.points < 4 /\ KindsDecoded(p, 111, 90) \cap Poly # {}
              \/ (NumBits(p) - 111) % 90 # 0 /\ Kinds(p, 111, 90) \cap ReservedAreas = {}
  PROVE  Settles(p, Ais8_366_22(p), 56)
<1> DEFINE n == NumBits(p)
           count == (n - 111) \div 90
           area(i) == SubArea_366_22(p, Kind(p, i), 111 + 90 * i)
           pieces == [i \in 1 .. count |-> area(i - 1)]
           lead == << <<56, 10>>, <<66, 7>>, <<73, 4>>, <<77, 5>>, <<82, 5>>, <<87, 6>>,
                      <<93, 18>> >>
           calls == Reads(lead) \o FlattenSeq(pieces) \o NoneRemaining \o Ok
           ok == n \in 209 .. 1019
           decoded == KindsDecoded(p, 111, 90)
           kinds == Kinds(p, 111, 90)
           e == "AIS_ERR_BAD_SUB_SUB_MSG"
           B == {0, 6, 7} \cup IF p.points < 4 THEN {3, 4} ELSE {}
<1>1. Ais8_366_22(p) = Applied(p, 366, 22, ok, calls)
  BY DEF Ais8_366_22, Each
<1>2. IsPayload(p) /\ p.points \in 1 .. 4 /\ \A i \in Nat : Kind(p, i) \in 0 .. 7
  BY AreaKinds
<1>3. Tiles(lead, 56, 111)
  BY DEF Tiles, Within
<1>4. Unguarded(p) <=> /\ ok
                       /\ \/ 0 \in decoded
                          \/ p.points < 4 /\ decoded \cap {3, 4} # {}
                          \/ (n - 111) % 90 # 0 /\ kinds \cap {6, 7} = {}
  BY DEF Circle, Poly, Polyline, Polygon, ReservedAreas
<1> HIDE DEF lead, decoded, kinds
<1>5. ASSUME ok PROVE Settles(p, calls, 56)
  <2>1. /\ n \in Int /\ n <= Limit(p) /\ Limit(p) \in Int /\ n >= 209
        /\ count \in Nat /\ n >= 111 + count * 90 /\ 111 <= Limit(p)
        /\ ((n - 111) % 90 = 0 <=> n = 111 + count * 90)
    <3>1. n \in Int /\ n <= Limit(p) /\ Limit(p) \in Int /\ n >= 209
      BY <1>2, <1>5, PayloadBits
    <3> HIDE DEF n
    <3> DEFINE r == (n - 111) % 90
    <3>2. count \in Nat /\ r \in 0 .. 89 /\ n - 111 = 90 * count + r
      BY <3>1
    <3>3. (n - 111) % 90 = r
      OBVIOUS
    <3> HIDE DEF count, r
    <3> QED
      BY <3>1, <3>2, <3>3
  <2>2. Runs(p, Reads(lead), 56, 111)
    BY <1>2, <1>3, <2>1, ReadsRun
  <2>3. ASSUME NEW i \in 0 .. count - 1
        PROVE  /\ pieces[i + 1] = SubArea_366_22(p, Kind(p, i), 111 + i * 90)
               /\ 111 + i * 90 \in Int /\ 111 + i * 90 + 90 <= Limit(p)
               /\ Kind(p, i) \in 0 .. 7
    <3>1. i + 1 \in 1 .. count /\ (i + 1) - 1 = i
      BY <2>1
    <3>2. pieces[i + 1] = SubArea_366_22(p, Kind(p, i), 111 + 90 * i)
      BY <3>1
    <3>3. 111 + i * 90 = 111 + 90 * i
      BY <2>1
    <3> HIDE DEF pieces, count
    <3> QED
      BY <1>2, <2>1, <3>2, <3>3
  <2>4. pieces = [i \in 1 .. count |-> pieces[i]]
    OBVIOUS
  <2>5. NumSub(p, 111, 90) = count
    BY DEF NumSub
  <2>6. \A a \in 0 .. 7 : a \notin B => a \in {1, 2, 5} \/ (a \in {3, 4} /\ p.points = 4)
    BY <1>2
  <2>7. ReservedAreas = {6, 7} /\ ReservedAreas \subseteq B
        /\ B \subseteq {0, 6, 7} \cup {3, 4}
    BY DEF ReservedAreas
  <2>8. p.points < 4 <=> 3 \in B
    OBVIOUS
  <2> HIDE DEF pieces, count, calls, ok
  <2>9. ASSUME NEW i \in 0 .. count - 1
        PROVE  /\ pieces[i + 1] \in Seq(Shape)
               /\ \A x \in Int, u \in Statuses :
                    x # 111 + i * 90 => Halts(p, pieces[i + 1], x, u, "aborted")
    <3> DEFINE start == 111 + i * 90
               x == start + 1
    <3>1. /\ pieces[i + 1] = SubArea_366_22(p, Kind(p, i), start) /\ start \in Int
          /\ start + 90 <= Limit(p) /\ Kind(p, i) \in 0 .. 7
      BY <2>3
    <3>2. x # start /\ x \in Int /\ Undecided \in Statuses
      BY <3>1 DEF Statuses
    <3> HIDE DEF start, x
    <3>3. \A y \in Int, u \in Statuses :
            y # start => Halts(p, pieces[i + 1], y, u, "aborted")
      BY <1>2, <3>1, Area_366_22
    <3>4. Halts(p, pieces[i + 1], x, Undecided, "aborted")
      BY <3>2, <3>3
    <3> QED
      BY ZenonT(40), <3>3, <3>4 DEF Halts, start
  <2>10. ASSUME NEW i \in 0 .. count - 1, Kind(p, i) \notin B
         PROVE  Runs(p, pieces[i + 1], 111 + i * 90, 111 + i * 90 + 90)
    <3> DEFINE start == 111 + i * 90
    <3>1. /\ pieces[i + 1] = SubArea_366_22(p, Kind(p, i), start) /\ start \in Int
          /\ start + 90 <= Limit(p) /\ Kind(p, i) \in 0 .. 7
      BY <2>3
    <3>2. Kind(p, i) \in {1, 2, 5} \/ (Kind(p, i) \in {3, 4} /\ p.points = 4)
      BY <2>6, <2>10, <3>1
    <3> HIDE DEF start
    <3>3. Runs(p, pieces[i + 1], start, start + 90)
      BY <1>2, <3>1, <3>2, Area_366_22
    <3> QED
      BY <3>3 DEF start
  <2> DEFINE from == 111
             size == 90
  <2>11. count \in Nat /\ from \in Int /\ size \in Int /\ NumSub(p, from, size) = count
         /\ decoded = KindsDecoded(p, from, size) /\ kinds = Kinds(p, from, size)
    BY <2>1, <2>5 DEF decoded, kinds
  <2>12. \A i \in 0 .. count - 1 :
           Kind(p, i) \notin B => Runs(p, pieces[i + 1], from + i * size, from + i * size + size)
    BY <2>10
  <2>13. \A i \in 0 .. count - 1 : pieces[i + 1] \in Seq(Shape)
    BY <2>9
  <2> HIDE DEF from, size, B
  <2>14. Looped(p, count, from, size, pieces, B)
    BY ZenonT(40), <2>4, <2>11, <2>12, <2>13, KindsLoop
  <2>15. CASE /\ \A i \in 0 .. count - 1 : Kind(p, i) \notin B
              /\ Runs(p, FlattenSeq(pieces), from, from + count * size)
    <3>1. kinds \cap B = {} /\ decoded \cap B = {}
      BY <2>11, <2>15, NoKind
    <3>2. Unguarded(p) <=> n # 111 + count * 90
      <4>1. kinds \cap {6, 7} = {} /\ 0 \notin decoded
        BY <2>7, <3>1 DEF B
      <4>2. ~ (p.points < 4 /\ decoded \cap {3, 4} # {})
        BY <3>1 DEF B
      <4> QED
        BY <1>4, <1>5, <2>1, <4>1, <4>2
    <3>3. Runs(p, FlattenSeq(pieces), 111, 111 + count * 90)
      BY <2>15 DEF from, size
    <3> DEFINE end == 111 + count * 90
    <3>4. end \in Int /\ (Unguarded(p) <=> end # n)
      BY <2>1, <3>2
    <3>5. Runs(p, FlattenSeq(pieces), 111, end)
      BY <3>3
    <3> HIDE DEF end
    <3>6. Runs(p, Reads(lead) \o FlattenSeq(pieces), 56, end)
      BY <2>2, <3>5, RunsThen
    <3>7. CASE end = n
      <4>1. Gives(p, Reads(lead) \o FlattenSeq(pieces) \o NoneRemaining \o Ok, 56, "AIS_OK")
        BY <3>6, <3>7, ThenEnd
      <4> QED
        BY <3>4, <3>7, <4>1, Endings DEF Settles, calls
    <3>8. CASE end # n
      <4>1. Gives(p, Reads(lead) \o FlattenSeq(pieces) \o NoneRemaining \o Ok, 56, "aborted")
        BY <3>6, <3>8, BadEndGives
      <4> QED
        BY <3>4, <3>8, <4>1 DEF Settles, calls
    <3> QED
      BY <3>7, <3>8
  <2>16. ASSUME NEW v, Gives(p, FlattenSeq(pieces), from, v)
         PROVE  Gives(p, calls, 56, v)
    <3>1. Gives(p, FlattenSeq(pieces), 111, v)
      BY <2>16 DEF from
    <3>2. Gives(p, Reads(lead) \o FlattenSeq(pieces), 56, v)
      BY <2>2, <3>1, GivesAfter
    <3>3. NoneRemaining \in Seq(Shape) /\ Ok \in Seq(Shape)
      BY Shapes, Endings
    <3>4. Gives(p, Reads(lead) \o FlattenSeq(pieces) \o NoneRemaining \o Ok, 56, v)
      BY <3>2, <3>3, GivesThen
    <3> QED
      BY <3>4 DEF calls
  <2>17. ASSUME NEW k \in 0 .. count - 1, Left(p, count, from, size, pieces, B, k)
         PROVE  Settles(p, calls, 56)
    <3> DEFINE start == from + k * size
               K == Kind(p, k)
    <3>0. /\ K \in B /\ \A i \in 0 .. k - 1 : Kind(p, i) \notin B
          /\ \A v : Gives(p, pieces[k + 1], start, v) => Gives(p, FlattenSeq(pieces), from, v)
      BY <2>17 DEF Left
    <3>1. start = 111 + k * 90
      BY DEF from, size
    <3>2. /\ pieces[k + 1] = SubArea_366_22(p, K, start) /\ start \in Int
          /\ start + 90 <= Limit(p) /\ K \in 0 .. 7
      BY <2>3, <3>1
    <3>3. /\ K \in {6, 7} => decoded \cap B = {} /\ kinds \cap {6, 7} # {}
          /\ K \notin {6, 7} => K \in decoded
      BY <2>7, <2>11, <3>0, FirstKind
    <3>4. K \in {6, 7} \/ K = 0 \/ (K \in {3, 4} /\ p.points < 4)
      BY <3>0, <3>2 DEF B
    <3> HIDE DEF start, K
    <3>5. CASE K \in {6, 7}
      <4>1. ~ Unguarded(p)
        <5>1. 0 \notin decoded
          BY <3>3, <3>5 DEF B
        <5>2. ~ (p.points < 4 /\ decoded \cap {3, 4} # {})
          BY <3>3, <3>5 DEF B
        <5> QED
          BY <1>4, <3>3, <3>5, <5>1, <5>2
      <4>2. Gives(p, pieces[k + 1], start, "AIS_ERR_BAD_SUB_SUB_MSG")
        BY <1>2, <3>2, <3>5, Area_366_22
      <4>3. Gives(p, calls, 56, "AIS_ERR_BAD_SUB_SUB_MSG")
        BY <2>16, <3>0, <4>2
      <4>4. "AIS_ERR_BAD_SUB_SUB_MSG" \in Given
        BY DEF Given, Errors
      <4> QED
        BY <4>1, <4>3, <4>4 DEF Settles
    <3>6. CASE K \in {3, 4} /\ p.points < 4
      <4>1. Unguarded(p)
        BY <1>4, <1>5, <3>3, <3>6
      <4>2. Gives(p, pieces[k + 1], start, "aborted")
        BY <1>2, <3>2, <3>6, Area_366_22
      <4>3. Gives(p, calls, 56, "aborted")
        BY <2>16, <3>0, <4>2
      <4> QED
        BY <4>1, <4>3 DEF Settles
    <3>7. CASE K = 0
      <4> DEFINE y == start + 88
                 w == Undecided
      <4>1. Unguarded(p)
        BY <1>4, <1>5, <3>3, <3>7
      <4>2. Leads(p, pieces[k + 1], start, Undecided, y, w)
        BY <1>2, <3>2, <3>7, Area_366_22 DEF Runs
      <4>3. y \in Int /\ w \in Statuses /\ y # n /\ y # 111 + (k + 1) * 90
        <5>1. k + 1 <= count
          BY <2>1
        <5>2. 111 + k * 90 + 90 <= 111 + count * 90
          BY <2>1, <5>1
        <5>3. y # n /\ y # 111 + (k + 1) * 90
          BY <2>1, <3>1, <5>2
        <5> QED
          BY <3>2, <5>3 DEF Statuses
      <4> HIDE DEF y, w
      <4>4. /\ k + 1 = count => Leads(p, FlattenSeq(pieces), from, Undecided, y, w)
            /\ \A v : k + 1 < count /\ Halts(p, pieces[k + 2], y, w, v)
                 => Halts(p, FlattenSeq(pieces), from, Undecided, v)
        BY <2>17, <4>2, <4>3 DEF start, Left
      <4>5. Gives(p, calls, 56, "aborted")
        <5>1. CASE k + 1 = count
          <6>1. Runs(p, FlattenSeq(pieces), 111, y)
            BY <4>4, <5>1 DEF Runs, w, from
          <6>2. Runs(p, Reads(lead) \o FlattenSeq(pieces), 56, y)
            BY <2>2, <6>1, RunsThen
          <6>3. Gives(p, Reads(lead) \o FlattenSeq(pieces) \o NoneRemaining \o Ok, 56, "aborted")
            BY <4>3, <6>2, BadEndGives
          <6> QED
            BY <6>3 DEF calls
        <5>2. CASE k + 1 < count
          <6>1. k + 1 \in 0 .. count - 1 /\ (k + 1) + 1 = k + 2
            BY <2>1, <5>2
          <6>2. Halts(p, pieces[k + 2], y, w, "aborted")
            BY <2>9, <4>3, <6>1
          <6>3. Halts(p, FlattenSeq(pieces), from, Undecided, "aborted")
            BY <4>4, <5>2, <6>2
          <6> QED
            BY <2>16, <6>3 DEF Gives
        <5>3. k + 1 = count \/ k + 1 < count
          BY <2>1
        <5> QED
          BY <5>1, <5>2, <5>3
      <4> QED
        BY <4>1, <4>5 DEF Settles
    <3> QED
      BY <3>4, <3>5, <3>6, <3>7
  <2> QED
    BY <2>14, <2>15, <2>17 DEF Looped
<1>6. ok \in BOOLEAN /\ 56 \in Int /\ (Unguarded(p) => ok)
  BY <1>4
<1> HIDE DEF calls, ok
<1> DEFINE dac == 366
           fi == 22
<1>7. Application(p) = << dac, fi >> /\ Ais8_366_22(p) = Applied(p, dac, fi, ok, calls)
  BY <1>1
<1> HIDE DEF dac, fi
<1>8. Settles(p, Applied(p, dac, fi, ok, calls), 56)
  BY <1>5, <1>6, <1>7, AppliedSettles
<1> QED
  BY <1>7, <1>8

(* assert(bits.GetRemaining() < len) holds. *)
LEMMA RemainingRuns ==
  ASSUME NEW p, NEW x \in Int, NEW len \in Int, NumBits(p) - x < len
  PROVE  Runs(p, RemainingBelow(len), x, x)
<1> DEFINE c == Op("remaining_below", 0, len)
<1>1. c \in Shape /\ c.op = "remaining_below" /\ c.len = len
  BY OpShape DEF OpKinds
<1>2. RemainingBelow(len) = << c >>
  BY DEF RemainingBelow
<1> HIDE DEF c
<1>3. Goes(p, c, x, Undecided, x, Undecided)
  BY <1>1 DEF Goes
<1>4. Undecided \in Statuses
  BY DEF Statuses
<1> QED
  BY <1>1, <1>2, <1>3, <1>4, OneLeads DEF Runs

(* 8:367:22 aborts exactly on a decoded polyline of fewer than four        *)
(* points.                                                                 *)
LEMMA Ais8_367_22Settles ==
  ASSUME NEW p, IsMessage(p), p.fi = 22, Application(p) = << 367, 22 >>,
         NumBits(p) \in 56 .. 1008,
         Unguarded(p) <=>
           /\ NumBits(p) \in 216 .. 1016 /\ (NumBits(p) - 120) % 96 < 6
           /\ p.points < 4 /\ KindsDecoded(p, 120, 96) \cap Poly # {}
  PROVE  Settles(p, Ais8_367_22(p), 56)
<1> DEFINE n == NumBits(p)
           count == (n - 120) \div 96
           area(i) == SubArea_367_22(p, Kind(p, i), 120 + 96 * i)
           pieces == [i \in 1 .. count |-> area(i - 1)]
           lead == << <<56, 6>>, <<62, 10>>, <<72, 7>>, <<79, 4>>, <<83, 5>>, <<88, 5>>,
                      <<93, 6>>, <<99, 18>>, <<117, 3>> >>
           calls == SeekTo(56) \o Reads(lead) \o FlattenSeq(pieces) \o RemainingBelow(6) \o Ok
           ok == n \in 216 .. 1016 /\ (n - 120) % 96 < 6
           decoded == KindsDecoded(p, 120, 96)
           B == {6, 7} \cup IF p.points < 4 THEN {3, 4} ELSE {}
<1>1. Ais8_367_22(p) = Applied(p, 367, 22, ok, calls)
  BY DEF Ais8_367_22, Each
<1>2. IsPayload(p) /\ p.points \in 1 .. 4 /\ \A i \in Nat : Kind(p, i) \in 0 .. 7
  BY AreaKinds
<1>3. Tiles(lead, 56, 120)
  BY DEF Tiles, Within
<1>4. Unguarded(p) <=> ok /\ p.points < 4 /\ decoded \cap {3, 4} # {}
  BY DEF Poly, Polyline, Polygon
<1> HIDE DEF lead, decoded
<1>5. ASSUME ok PROVE Settles(p, calls, 56)
  <2>1. /\ n \in Int /\ n <= Limit(p) /\ Limit(p) \in Int /\ n >= 216 /\ n > 56
        /\ count \in Nat /\ n >= 120 + count * 96 /\ 120 <= Limit(p)
        /\ n - (120 + count * 96) < 6
    <3>1. n \in Int /\ n <= Limit(p) /\ Limit(p) \in Int /\ n >= 216 /\ (n - 120) % 96 < 6
      BY <1>2, <1>5, PayloadBits
    <3> HIDE DEF n
    <3> DEFINE r == (n - 120) % 96
    <3>2. count \in Nat /\ r \in 0 .. 95 /\ n - 120 = 96 * count + r
      BY <3>1
    <3>3. r < 6
      BY <3>1
    <3> HIDE DEF count, r
    <3> QED
      BY <3>1, <3>2, <3>3
  <2>2. Runs(p, SeekTo(56) \o Reads(lead), 56, 120)
    <3>1. Runs(p, SeekTo(56), 56, 56)
      BY <2>1, SeekFirst
    <3> QED
      BY <1>2, <1>3, <2>1, <3>1, ThenReads
  <2>3. ASSUME NEW i \in 0 .. count - 1
        PROVE  /\ pieces[i + 1] = SubArea_367_22(p, Kind(p, i), 120 + i * 96)
               /\ 120 + i * 96 \in Int /\ 120 + i * 96 + 96 <= Limit(p)
               /\ Kind(p, i) \in 0 .. 7
    <3>1. i + 1 \in 1 .. count /\ (i + 1) - 1 = i
      BY <2>1
    <3>2. pieces[i + 1] = SubArea_367_22(p, Kind(p, i), 120 + 96 * i)
      BY <3>1
    <3>3. 120 + i * 96 = 120 + 96 * i
      BY <2>1
    <3> HIDE DEF pieces, count
    <3> QED
      BY <1>2, <2>1, <3>2, <3>3
  <2>4. pieces = [i \in 1 .. count |-> pieces[i]]
    OBVIOUS
  <2>5. NumSub(p, 120, 96) = count
    BY DEF NumSub
  <2>6. \A a \in 0 .. 7 : a \notin B => a \in {0, 1, 2, 5} \/ (a \in {3, 4} /\ p.points = 4)
    BY <1>2
  <2>7. ReservedAreas = {6, 7} /\ ReservedAreas \subseteq B
    BY DEF ReservedAreas
  <2> HIDE DEF pieces, count, calls, ok
  <2>9. ASSUME NEW i \in 0 .. count - 1 PROVE pieces[i + 1] \in Seq(Shape)
    <3> DEFINE start == 120 + i * 96
               x == start + 1
    <3>1. /\ pieces[i + 1] = SubArea_367_22(p, Kind(p, i), start) /\ start \in Int
          /\ start + 96 <= Limit(p) /\ Kind(p, i) \in 0 .. 7
      BY <2>3
    <3>2. x # start /\ x \in Int /\ Undecided \in Statuses
      BY <3>1 DEF Statuses
    <3> HIDE DEF start, x
    <3>3. Halts(p, pieces[i + 1], x, Undecided, "aborted")
      BY <1>2, <3>1, <3>2, Area_367_22
    <3> QED
      BY <3>3 DEF Halts
  <2>10. ASSUME NEW i \in 0 .. count - 1, Kind(p, i) \notin B
         PROVE  Runs(p, pieces[i + 1], 120 + i * 96, 120 + i * 96 + 96)
    <3> DEFINE start == 120 + i * 96
    <3>1. /\ pieces[i + 1] = SubArea_367_22(p, Kind(p, i), start) /\ start \in Int
          /\ start + 96 <= Limit(p) /\ Kind(p, i) \in 0 .. 7
      BY <2>3
    <3>2. Kind(p, i) \in {0, 1, 2, 5} \/ (Kind(p, i) \in {3, 4} /\ p.points = 4)
      BY <2>6, <2>10, <3>1
    <3> HIDE DEF start
    <3>3. Runs(p, pieces[i + 1], start, start + 96)
      BY <1>2, <3>1, <3>2, Area_367_22
    <3> QED
      BY <3>3 DEF start
  <2> DEFINE from == 120
             size == 96
  <2>11. count \in Nat /\ from \in Int /\ size \in Int /\ NumSub(p, from, size) = count
         /\ decoded = KindsDecoded(p, from, size)
    BY <2>1, <2>5 DEF decoded
  <2>12. \A i \in 0 .. count - 1 :
           Kind(p, i) \notin B => Runs(p, pieces[i + 1], from + i * size, from + i * size + size)
    BY <2>10
  <2>13. \A i \in 0 .. count - 1 : pieces[i + 1] \in Seq(Shape)
    BY <2>9
  <2> HIDE DEF from, size, B
  <2>14. Looped(p, count, from, size, pieces, B)
    BY ZenonT(40), <2>4, <2>11, <2>12, <2>13, KindsLoop
  <2>15. CASE /\ \A i \in 0 .. count - 1 : Kind(p, i) \notin B
              /\ Runs(p, FlattenSeq(pieces), from, from + count * size)
    <3>1. decoded \cap B = {}
      BY <2>11, <2>15, NoKind
    <3>2. ~ Unguarded(p)
      BY <1>4, <3>1 DEF B
    <3> DEFINE end == 120 + count * 96
               few == 6
    <3>3. Runs(p, FlattenSeq(pieces), 120, end)
      BY <2>15 DEF from, size
    <3>4. end \in Int /\ few \in Int /\ NumBits(p) - end < few
      BY <2>1
    <3> HIDE DEF end, few
    <3>5. Runs(p, SeekTo(56) \o Reads(lead) \o FlattenSeq(pieces), 56, end)
      BY <2>2, <3>3, RunsThen
    <3>6. Runs(p, RemainingBelow(few), end, end)
      BY <3>4, RemainingRuns
    <3>7. Runs(p, SeekTo(56) \o Reads(lead) \o FlattenSeq(pieces) \o RemainingBelow(few), 56, end)
      BY <3>5, <3>6, RunsThen
    <3>8. Gives(p, SeekTo(56) \o Reads(lead) \o FlattenSeq(pieces) \o RemainingBelow(few)
                   \o Return("AIS_OK"), 56, "AIS_OK")
      BY <3>7, Endings, ThenReturn
    <3> QED
      BY <3>2, <3>8, Endings DEF Settles, calls, Ok, few
  <2>16. ASSUME NEW v, Gives(p, FlattenSeq(pieces), from, v)
         PROVE  Gives(p, calls, 56, v)
    <3>1. Gives(p, FlattenSeq(pieces), 120, v)
      BY <2>16 DEF from
    <3>2. Gives(p, SeekTo(56) \o Reads(lead) \o FlattenSeq(pieces), 56, v)
      BY <2>2, <3>1, GivesAfter
    <3> DEFINE few == 6
               end == n
    <3>3. end \in Int /\ few \in Int /\ NumBits(p) - end < few
      BY <2>1
    <3> HIDE DEF few, end
    <3>4. RemainingBelow(few) \in Seq(Shape)
      BY <3>3, RemainingRuns, RunsTyped
    <3>5. Gives(p, SeekTo(56) \o Reads(lead) \o FlattenSeq(pieces) \o RemainingBelow(few) \o Ok,
                56, v)
      BY <3>2, <3>4, Endings, GivesThen
    <3> QED
      BY <3>5 DEF calls, few
  <2>17. ASSUME NEW k \in 0 .. count - 1, Left(p, count, from, size, pieces, B, k)
         PROVE  Settles(p, calls, 56)
    <3> DEFINE start == from + k * size
               K == Kind(p, k)
    <3>0. /\ K \in B /\ \A i \in 0 .. k - 1 : Kind(p, i) \notin B
          /\ \A v : Gives(p, pieces[k + 1], start, v) => Gives(p, FlattenSeq(pieces), from, v)
      BY <2>17 DEF Left
    <3>1. start = 120 + k * 96
      BY DEF from, size
    <3>2. /\ pieces[k + 1] = SubArea_367_22(p, K, start) /\ start \in Int
          /\ start + 96 <= Limit(p) /\ K \in 0 .. 7
      BY <2>3, <3>1
    <3>3. /\ K \in {6, 7} => decoded \cap B = {}
          /\ K \notin {6, 7} => K \in decoded
      BY <2>7, <2>11, <3>0, FirstKind
    <3>4. K \in {6, 7} \/ (K \in {3, 4} /\ p.points < 4)
      BY <3>0, <3>2 DEF B
    <3> HIDE DEF start, K
    <3>5. CASE K \in {6, 7}
      <4>1. ~ Unguarded(p)
        BY <1>4, <3>3, <3>5 DEF B
      <4>2. Gives(p, pieces[k + 1], start, "AIS_ERR_BAD_SUB_SUB_MSG")
        BY <1>2, <3>2, <3>5, Area_367_22
      <4>3. Gives(p, calls, 56, "AIS_ERR_BAD_SUB_SUB_MSG")
        BY <2>16, <3>0, <4>2
      <4>4. "AIS_ERR_BAD_SUB_SUB_MSG" \in Given
        BY DEF Given, Errors
      <4> QED
        BY <4>1, <4>3, <4>4 DEF Settles
    <3>6. CASE K \in {3, 4} /\ p.points < 4
      <4>1. Unguarded(p)
        BY <1>4, <1>5, <3>3, <3>6
      <4>2. Gives(p, pieces[k + 1], start, "aborted")
        BY <1>2, <3>2, <3>6, Area_367_22
      <4>3. Gives(p, calls, 56, "aborted")
        BY <2>16, <3>0, <4>2
      <4> QED
        BY <4>1, <4>3 DEF Settles
    <3> QED
      BY <3>4, <3>5, <3>6
  <2> QED
    BY <2>14, <2>15, <2>17 DEF Looped
<1>6. ok \in BOOLEAN /\ 56 \in Int /\ (Unguarded(p) => ok)
  BY <1>4
<1> HIDE DEF calls, ok
<1> DEFINE dac == 367
           fi == 22
<1>7. Application(p) = << dac, fi >> /\ Ais8_367_22(p) = Applied(p, dac, fi, ok, calls)
  BY <1>1
<1> HIDE DEF dac, fi
<1>8. Settles(p, Applied(p, dac, fi, ok, calls), 56)
  BY <1>5, <1>6, <1>7, AppliedSettles
<1> QED
  BY <1>7, <1>8

(* An accepted message goes the way of its calls.                          *)
LEMMA AppliedLeads ==
  ASSUME NEW p, NEW dac, NEW fi, NEW calls, Application(p) = << dac, fi >>,
         NEW x \in Int, NEW y, NEW v, Leads(p, calls, x, Undecided, y, v)
  PROVE  Leads(p, Applied(p, dac, fi, TRUE, calls), x, Undecided, y, v)
<1> DEFINE c == Op("check_status", 0, 0)
<1>1. c \in Shape /\ c.op = "check_status"
  BY OpShape DEF OpKinds
<1>2. CheckStatus = << c >>
  BY DEF CheckStatus
<1> HIDE DEF c
<1>3. Undecided \in Statuses /\ ~ Bad(Undecided)
  BY DEF Statuses, Bad
<1>4. Goes(p, c, x, Undecided, x, Undecided)
  BY <1>1, <1>3 DEF Goes
<1>5. Leads(p, CheckStatus, x, Undecided, x, Undecided)
  BY <1>1, <1>2, <1>3, <1>4, OneLeads
<1>6. Leads(p, CheckStatus \o calls, x, Undecided, y, v)
  BY <1>5, LeadsThenLeads
<1>7. Applied(p, dac, fi, TRUE, calls) = << >> \o (CheckStatus \o calls)
  BY DEF Applied, Guarded, ApplicationIs, AssertThat
<1>8. CheckStatus \o calls \in Seq(Shape)
  BY <1>6 DEF Leads
<1> QED
  BY <1>6, <1>7, <1>8, NothingBefore

(* A reserved area that is the last one leaves its error.                  *)
LEMMA Ais8_1_22Settles ==
  ASSUME NEW p, IsMessage(p), p.fi = 22, Application(p) = << 1, 22 >>,
         NumBits(p) \in 56 .. 1008,
         Unguarded(p) <=>
           /\ NumBits(p) \in 198 .. 984
           /\ \E i \in 0 .. NumSub(p, 111, 87) - 2 : Kind(p, i) \in ReservedAreas
  PROVE  \/ Settles(p, Ais8_1_22(p), 56)
         \/ /\ ~ Unguarded(p)
            /\ \E y \in Int, e \in Errors : Leads(p, Ais8_1_22(p), 56, Undecided, y, e)
<1> DEFINE n == NumBits(p)
           count == (n - 111) \div 87
           area(i) == SubArea_1_22(p, Kind(p, i), 111 + 87 * i)
           pieces == [i \in 1 .. count |-> area(i - 1)]
           lead == << <<56, 10>>, <<66, 7>>, <<73, 4>>, <<77, 5>>, <<82, 5>>, <<87, 6>>,
                      <<93, 18>> >>
           met == \E i \in 0 .. count - 1 : Kind(p, i) \in ReservedAreas
           tail == IF met THEN << >> ELSE Ok
           calls == SeekTo(56) \o Reads(lead) \o FlattenSeq(pieces) \o tail
           ok == n \in 198 .. 984
           B == {6, 7}
           open == \E y \in Int, e \in Errors : Leads(p, calls, 56, Undecided, y, e)
<1>1. Ais8_1_22(p) = Applied(p, 1, 22, ok, calls)
  BY DEF Ais8_1_22, Each
<1>2. IsPayload(p) /\ p.points \in 1 .. 4 /\ \A i \in Nat : Kind(p, i) \in 0 .. 7
  BY AreaKinds
<1>3. Tiles(lead, 56, 111)
  BY DEF Tiles, Within
<1>4. Unguarded(p) <=> ok /\ \E i \in 0 .. count - 2 : Kind(p, i) \in B
  BY DEF ReservedAreas, NumSub
<1> HIDE DEF lead
<1>5. ASSUME ok PROVE Settles(p, calls, 56) \/ (~ Unguarded(p) /\ open)
  <2>1. /\ n \in Int /\ n <= Limit(p) /\ Limit(p) \in Int /\ n >= 198 /\ n > 56
        /\ count \in Nat /\ n >= 111 + count * 87 /\ 111 <= Limit(p)
    <3>1. n \in Int /\ n <= Limit(p) /\ Limit(p) \in Int /\ n >= 198
      BY <1>2, <1>5, PayloadBits
    <3> HIDE DEF n
    <3>2. count \in Nat /\ 87 * count <= n - 111
      BY <3>1
    <3> HIDE DEF count
    <3> QED
      BY <3>1, <3>2
  <2>2. Runs(p, SeekTo(56) \o Reads(lead), 56, 111)
    <3>1. Runs(p, SeekTo(56), 56, 56)
      BY <2>1, SeekFirst
    <3> QED
      BY <1>2, <1>3, <2>1, <3>1, ThenReads
  <2>3. ASSUME NEW i \in 0 .. count - 1
        PROVE  /\ pieces[i + 1] = SubArea_1_22(p, Kind(p, i), 111 + i * 87)
               /\ 111 + i * 87 \in Nat /\ 111 + i * 87 + 87 <= NumBits(p)
               /\ Kind(p, i) \in 0 .. 7
    <3>1. i + 1 \in 1 .. count /\ (i + 1) - 1 = i
      BY <2>1
    <3>2. pieces[i + 1] = SubArea_1_22(p, Kind(p, i), 111 + 87 * i)
      BY <3>1
    <3>3. 111 + i * 87 = 111 + 87 * i
      BY <2>1
    <3> HIDE DEF pieces, count
    <3> QED
      BY <1>2, <2>1, <3>2, <3>3
  <2>4. pieces = [i \in 1 .. count |-> pieces[i]]
    OBVIOUS
  <2>5. \A a \in 0 .. 7 : a \notin B => a \in {0, 1, 2, 5} \/ a \in {3, 4}
    OBVIOUS
  <2>6. ReservedAreas = B
    BY DEF ReservedAreas
  <2>7. met <=> \E i \in 0 .. count - 1 : Kind(p, i) \in B
    BY <2>6
  <2> HIDE DEF pieces, count, calls, ok, met, tail
  <2>9. ASSUME NEW i \in 0 .. count - 1
        PROVE  /\ pieces[i + 1] \in Seq(Shape)
               /\ \A x \in Int, u \in Statuses :
                    x # 111 + i * 87 => Halts(p, pieces[i + 1], x, u, "aborted")
    <3> DEFINE start == 111 + i * 87
               x == start + 1
    <3>1. /\ pieces[i + 1] = SubArea_1_22(p, Kind(p, i), start) /\ start \in Nat
          /\ start + 87 <= NumBits(p) /\ Kind(p, i) \in 0 .. 7
      BY <2>3
    <3>2. x # start /\ x \in Int /\ Undecided \in Statuses
      BY <3>1 DEF Statuses
    <3> HIDE DEF start, x
    <3>3. \A y \in Int, u \in Statuses :
            y # start => Halts(p, pieces[i + 1], y, u, "aborted")
      BY <1>2, <3>1, Area_1_22
    <3>4. Halts(p, pieces[i + 1], x, Undecided, "aborted")
      BY <3>2, <3>3
    <3> QED
      BY ZenonT(60), <3>3, <3>4 DEF Halts, start
  <2>10. ASSUME NEW i \in 0 .. count - 1, Kind(p, i) \notin B
         PROVE  Runs(p, pieces[i + 1], 111 + i * 87, 111 + i * 87 + 87)
    <3> DEFINE start == 111 + i * 87
    <3>1. /\ pieces[i + 1] = SubArea_1_22(p, Kind(p, i), start) /\ start \in Nat
          /\ start + 87 <= NumBits(p) /\ Kind(p, i) \in 0 .. 7
      BY <2>3
    <3>2. Kind(p, i) \in {0, 1, 2, 5} \/ Kind(p, i) \in {3, 4}
      BY <2>5, <2>10, <3>1
    <3> HIDE DEF start
    <3>3. Runs(p, pieces[i + 1], start, start + 87)
      BY <1>2, <3>1, <3>2, Area_1_22
    <3> QED
      BY <3>3 DEF start
  <2> DEFINE from == 111
             size == 87
  <2>11. count \in Nat /\ from \in Int /\ size \in Int
    BY <2>1
  <2>12. \A i \in 0 .. count - 1 :
           Kind(p, i) \notin B => Runs(p, pieces[i + 1], from + i * size, from + i * size + size)
    BY <2>10
  <2>13. \A i \in 0 .. count - 1 : pieces[i + 1] \in Seq(Shape)
    BY <2>9
  <2> HIDE DEF from, size, B
  <2>14. Looped(p, count, from, size, pieces, B)
    BY ZenonT(40), <2>4, <2>11, <2>12, <2>13, KindsLoop
  <2>15. ASSUME \A i \in 0 .. count - 1 : Kind(p, i) \notin B,
                Runs(p, FlattenSeq(pieces), from, from + count * size)
         PROVE  Settles(p, calls, 56)
    <3>1. ~ Unguarded(p)
      <4>1. \A i \in 0 .. count - 2 : i \in 0 .. count - 1
        BY <2>1
      <4> QED
        BY <1>4, <2>15, <4>1
    <3>2. tail = Return("AIS_OK")
      BY <2>7, <2>15 DEF tail, Ok
    <3> DEFINE end == 111 + count * 87
    <3>3. Runs(p, FlattenSeq(pieces), 111, end)
      BY <2>15 DEF from, size
    <3> HIDE DEF end
    <3>4. Runs(p, SeekTo(56) \o Reads(lead) \o FlattenSeq(pieces), 56, end)
      BY <2>2, <3>3, RunsThen
    <3>5. Gives(p, SeekTo(56) \o Reads(lead) \o FlattenSeq(pieces) \o Return("AIS_OK"), 56,
                "AIS_OK")
      BY <3>4, Endings, ThenReturn
    <3> QED
      BY <3>1, <3>2, <3>5, Endings DEF Settles, calls
  <2>17. ASSUME NEW k \in 0 .. count - 1, Left(p, count, from, size, pieces, B, k)
         PROVE  Settles(p, calls, 56) \/ (~ Unguarded(p) /\ open)
    <3> DEFINE start == from + k * size
               K == Kind(p, k)
               y == start + 3
               w == "AIS_ERR_BAD_SUB_SUB_MSG"
    <3>0. K \in B /\ \A i \in 0 .. k - 1 : Kind(p, i) \notin B
      BY <2>17 DEF Left
    <3>1. start = 111 + k * 87
      BY DEF from, size
    <3>2. /\ pieces[k + 1] = SubArea_1_22(p, K, start) /\ start \in Nat
          /\ start + 87 <= NumBits(p) /\ K \in 0 .. 7
      BY <2>3, <3>1
    <3>3. y \in Int /\ w \in Statuses /\ w \in Errors /\ y # 111 + (k + 1) * 87
      <4>1. y # 111 + (k + 1) * 87
        BY <2>1, <3>1
      <4> QED
        BY <3>2, <4>1 DEF Statuses, Given, Errors
    <3>4. K \in {6, 7}
      BY <3>0 DEF B
    <3>5. tail = << >>
      BY <2>7, <3>0 DEF tail
    <3> HIDE DEF start, K
    <3>6. Leads(p, pieces[k + 1], start, Undecided, y, w)
      BY <1>2, <3>2, <3>4, Area_1_22
    <3> HIDE DEF y, w
    <3>7. /\ k + 1 = count => Leads(p, FlattenSeq(pieces), from, Undecided, y, w)
          /\ \A v : k + 1 < count /\ Halts(p, pieces[k + 2], y, w, v)
               => Halts(p, FlattenSeq(pieces), from, Undecided, v)
      BY <2>17, <3>3, <3>6 DEF start, Left
    <3>8. CASE k + 1 = count
      <4>1. ~ Unguarded(p)
        <5>1. \A i \in 0 .. count - 2 : i \in 0 .. k - 1
          BY <2>1, <3>8
        <5> QED
          BY <1>4, <3>0, <5>1
      <4>2. Leads(p, FlattenSeq(pieces), 111, Undecided, y, w)
        BY <3>7, <3>8 DEF from
      <4> DEFINE s == SeekTo(56) \o Reads(lead)
                 f == FlattenSeq(pieces)
      <4>3. Leads(p, s \o f, 56, Undecided, y, w)
        BY <2>2, <4>2, LeadsThenLeads DEF Runs
      <4>4. Leads(p, << >>, y, w, y, w)
        <5>1. << >> \in Seq(Shape) /\ Len(<< >>) = 0
          BY Shapes
        <5> QED
          BY <3>3, <5>1, ReachNone DEF Leads
      <4>5. calls = s \o f \o << >>
        BY <3>5 DEF calls
      <4> HIDE DEF s, f
      <4>6. Leads(p, calls, 56, Undecided, y, w)
        BY <4>3, <4>4, <4>5, LeadsThenLeads
      <4> QED
        BY <3>3, <4>1, <4>6
    <3>9. CASE k + 1 < count
      <4>1. Unguarded(p)
        <5>1. k \in 0 .. count - 2
          BY <2>1, <3>9
        <5> QED
          BY <1>4, <1>5, <3>0, <5>1 DEF K
      <4>2. k + 1 \in 0 .. count - 1 /\ (k + 1) + 1 = k + 2
        BY <2>1, <3>9
      <4>3. Halts(p, pieces[k + 2], y, w, "aborted")
        BY <2>9, <3>3, <4>2
      <4>4. Gives(p, FlattenSeq(pieces), 111, "aborted")
        BY <3>7, <3>9, <4>3 DEF Gives, from
      <4>5. Gives(p, SeekTo(56) \o Reads(lead) \o FlattenSeq(pieces), 56, "aborted")
        BY <2>2, <4>4, GivesAfter
      <4>6. tail \in Seq(Shape)
        BY <3>5, Shapes
      <4>7. Gives(p, calls, 56, "aborted")
        BY <4>5, <4>6, GivesThen DEF calls
      <4> QED
        BY <4>1, <4>7 DEF Settles
    <3>10. k + 1 = count \/ k + 1 < count
      BY <2>1
    <3> QED
      BY <3>8, <3>9, <3>10
  <2> QED
    BY <2>14, <2>15, <2>17 DEF Looped
<1>6. ok \in BOOLEAN /\ 56 \in Int /\ (Unguarded(p) => ok)
  BY <1>4
<1> HIDE DEF calls, ok
<1> DEFINE dac == 1
           fi == 22
<1>7. Application(p) = << dac, fi >> /\ Ais8_1_22(p) = Applied(p, dac, fi, ok, calls)
  BY <1>1
<1> HIDE DEF dac, fi
<1>8. CASE ok => Settles(p, calls, 56)
  <2>1. Settles(p, Applied(p, dac, fi, ok, calls), 56)
    BY <1>6, <1>7, <1>8, AppliedSettles
  <2> QED
    BY <1>7, <2>1
<1>9. CASE ok /\ ~ Unguarded(p) /\ open
  <2>1. PICK y \in Int, e \in Errors : Leads(p, calls, 56, Undecided, y, e)
    BY <1>9
  <2>2. Leads(p, Applied(p, dac, fi, TRUE, calls), 56, Undecided, y, e)
    BY ZenonT(40), <1>6, <1>7, <2>1, AppliedLeads
  <2>3. ok = TRUE
    BY <1>6, <1>9
  <2> QED
    BY ZenonT(40), <1>7, <1>9, <2>2, <2>3
<1> QED
  BY <1>5, <1>8, <1>9

-----------------------------------------------------------------------------
(* Environmental reports: 1:26 and 367:33.                                 *)

(* WindReport: 85 bits. *)
LEMMA WindReportRuns ==
  ASSUME NEW p, IsPayload(p), NEW at \in Int, at + 85 <= Limit(p)
  PROVE  Runs(p, WindReport(at), at, at + 85)
<1>0. /\ at \in Int /\ at <= Limit(p) /\ at + 85 \in Int /\ at + 85 <= Limit(p)
  BY PayloadBits
<1> DEFINE F == << <<at, 7>>, <<at + 7, 7>>, <<at + 14, 9>>, <<at + 23, 9>>,
                   <<at + 32, 3>>, <<at + 35, 7>>, <<at + 42, 7>>, <<at + 49, 9>>,
                   <<at + 58, 5>>, <<at + 63, 5>>, <<at + 68, 6>>, <<at + 74, 8>>,
                   <<at + 82, 3>> >>
<1>1. Tiles(F, at, at + 85)
  BY <1>0 DEF Tiles, Within
<1>2. WindReport(at) = Reads(F)
  BY DEF WindReport
<1> HIDE DEF F
<1>3. Runs(p, Reads(F), at, at + 85)
  BY <1>0, <1>1, ReadsRun
<1> QED
  BY <1>2, <1>3

(* WaterLevel: 85 bits. *)
LEMMA WaterLevelRuns ==
  ASSUME NEW p, IsPayload(p), NEW at \in Int, at + 85 <= Limit(p)
  PROVE  Runs(p, WaterLevel(at), at, at + 85)
<1>0. /\ at \in Int /\ at <= Limit(p) /\ at + 85 \in Int /\ at + 85 <= Limit(p)
  BY PayloadBits
<1> DEFINE F == << <<at, 1>>, <<at + 1, 16>>, <<at + 17, 2>>, <<at + 19, 5>>,
                   <<at + 24, 3>>, <<at + 27, 1>>, <<at + 28, 16>>, <<at + 44, 5>>,
                   <<at + 49, 5>>, <<at + 54, 6>>, <<at + 60, 8>>, <<at + 68, 17>> >>
<1>1. Tiles(F, at, at + 85)
  BY <1>0 DEF Tiles, Within
<1>2. WaterLevel(at) = Reads(F)
  BY DEF WaterLevel
<1> HIDE DEF F
<1>3. Runs(p, Reads(F), at, at + 85)
  BY <1>0, <1>1, ReadsRun
<1> QED
  BY <1>2, <1>3

(* SeaState: 85 bits. *)
LEMMA SeaStateRuns ==
  ASSUME NEW p, IsPayload(p), NEW at \in Int, at + 85 <= Limit(p)
  PROVE  Runs(p, SeaState(at), at, at + 85)
<1>0. /\ at \in Int /\ at <= Limit(p) /\ at + 85 \in Int /\ at + 85 <= Limit(p)
  BY PayloadBits
<1> DEFINE F == << <<at, 8>>, <<at + 8, 6>>, <<at + 14, 9>>, <<at + 23, 4>>,
                   <<at + 27, 3>>, <<at + 30, 10>>, <<at + 40, 7>>, <<at + 47, 3>>,
                   <<at + 50, 8>>, <<at + 58, 6>>, <<at + 64, 9>>, <<at + 73, 3>>,
                   <<at + 76, 9>> >>
<1>1. Tiles(F, at, at + 85)
  BY <1>0 DEF Tiles, Within
<1>2. SeaState(at) = Reads(F)
  BY DEF SeaState
<1> HIDE DEF F
<1>3. Runs(p, Reads(F), at, at + 85)
  BY <1>0, <1>1, ReadsRun
<1> QED
  BY <1>2, <1>3

(* Salinity: 85 bits. *)
LEMMA SalinityRuns ==
  ASSUME NEW p, IsPayload(p), NEW at \in Int, at + 85 <= Limit(p)
  PROVE  Runs(p, Salinity(at), at, at + 85)
<1>0. /\ at \in Int /\ at <= Limit(p) /\ at + 85 \in Int /\ at + 85 <= Limit(p)
  BY PayloadBits
<1> DEFINE F == << <<at, 10>>, <<at + 10, 10>>, <<at + 20, 16>>, <<at + 36, 9>>,
                   <<at + 45, 2>>, <<at + 47, 3>>, <<at + 50, 32>>, <<at + 82, 3>> >>
<1>1. Tiles(F, at, at + 85)
  BY <1>0 DEF Tiles, Within
<1>2. Salinity(at) = Reads(F)
  BY DEF Salinity
<1> HIDE DEF F
<1>3. Runs(p, Reads(F), at, at + 85)
  BY <1>0, <1>1, ReadsRun
<1> QED
  BY <1>2, <1>3

(* Wx: 85 bits. *)
LEMMA WxRuns ==
  ASSUME NEW p, IsPayload(p), NEW at \in Int, at + 85 <= Limit(p)
  PROVE  Runs(p, Wx(at), at, at + 85)
<1>0. /\ at \in Int /\ at <= Limit(p) /\ at + 85 \in Int /\ at + 85 <= Limit(p)
  BY PayloadBits
<1> DEFINE F == << <<at, 11>>, <<at + 11, 3>>, <<at + 14, 2>>, <<at + 16, 8>>,
                   <<at + 24, 10>>, <<at + 34, 3>>, <<at + 37, 9>>, <<at + 46, 2>>,
                   <<at + 48, 3>>, <<at + 51, 9>>, <<at + 60, 25>> >>
<1>1. Tiles(F, at, at + 85)
  BY <1>0 DEF Tiles, Within
<1>2. Wx(at) = Reads(F)
  BY DEF Wx
<1> HIDE DEF F
<1>3. Runs(p, Reads(F), at, at + 85)
  BY <1>0, <1>1, ReadsRun
<1> QED
  BY <1>2, <1>3

(* The 3 currents of a report. *)
LEMMA Currents2DRun ==
  ASSUME NEW p, IsPayload(p), NEW at \in Int, at + 78 <= Limit(p)
  PROVE  Runs(p, FlattenSeq([i \in 1 .. 3 |->
                   Reads(<< <<at + 26 * (i - 1), 8>>, <<at + 26 * (i - 1) + 8, 9>>,
                            <<at + 26 * (i - 1) + 17, 9>> >>)]),
              at, at + 78)
<1> DEFINE F(i) == << <<at + 26 * i, 8>>, <<at + 26 * i + 8, 9>>, <<at + 26 * i + 17, 9>> >>
           pieces == [i \in 1 .. 3 |-> Reads(F(i - 1))]
           from == at
           size == 26
           count == 3
<1>1. ASSUME NEW i \in 0 .. count - 1
      PROVE  Runs(p, pieces[i + 1], from + i * size, from + i * size + size)
  <2>1. i + 1 \in 1 .. 3 /\ (i + 1) - 1 = i /\ Limit(p) \in Int
    BY PayloadBits
  <2>2. pieces[i + 1] = Reads(F(i))
    BY <2>1
  <2> DEFINE y == from + i * size
             z == y + size
  <2>3. y \in Int /\ z \in Int /\ z <= Limit(p)
    BY <2>1
  <2>4. Tiles(F(i), y, z)
    BY <2>1 DEF Tiles, Within
  <2> HIDE DEF F, pieces, y, z
  <2>5. Runs(p, Reads(F(i)), y, z)
    BY <2>3, <2>4, ReadsRun
  <2> QED
    BY <2>2, <2>5 DEF y, z
<1>2. pieces = [i \in 1 .. count |-> pieces[i]]
  OBVIOUS
<1>3. from \in Int /\ size \in Int /\ count \in Nat /\ from + count * size = at + 78
  OBVIOUS
<1> HIDE DEF pieces, from, size, count
<1>4. Runs(p, FlattenSeq(pieces), from, from + count * size)
  BY <1>1, <1>2, <1>3, EvenLoop
<1>5. Runs(p, FlattenSeq(pieces), from, at + 78)
  BY <1>3, <1>4
<1> QED
  BY <1>5 DEF pieces, from

(* The 2 currents of a report. *)
LEMMA Currents3D_1_26Run ==
  ASSUME NEW p, IsPayload(p), NEW at \in Int, at + 66 <= Limit(p)
  PROVE  Runs(p, FlattenSeq([i \in 1 .. 2 |->
                   Reads(<< <<at + 33 * (i - 1), 8>>, <<at + 33 * (i - 1) + 8, 8>>,
                            <<at + 33 * (i - 1) + 16, 8>>, <<at + 33 * (i - 1) + 24, 9>> >>)]),
              at, at + 66)
<1> DEFINE F(i) == << <<at + 33 * i, 8>>, <<at + 33 * i + 8, 8>>, <<at + 33 * i + 16, 8>>,
                      <<at + 33 * i + 24, 9>> >>
           pieces == [i \in 1 .. 2 |-> Reads(F(i - 1))]
           from == at
           size == 33
           count == 2
<1>1. ASSUME NEW i \in 0 .. count - 1
      PROVE  Runs(p, pieces[i + 1], from + i * size, from + i * size + size)
  <2>1. i + 1 \in 1 .. 2 /\ (i + 1) - 1 = i /\ Limit(p) \in Int
    BY PayloadBits
  <2>2. pieces[i + 1] = Reads(F(i))
    BY <2>1
  <2> DEFINE y == from + i * size
             z == y + size
  <2>3. y \in Int /\ z \in Int /\ z <= Limit(p)
    BY <2>1
  <2>4. Tiles(F(i), y, z)
    BY <2>1 DEF Tiles, Within
  <2> HIDE DEF F, pieces, y, z
  <2>5. Runs(p, Reads(F(i)), y, z)
    BY <2>3, <2>4, ReadsRun
  <2> QED
    BY <2>2, <2>5 DEF y, z
<1>2. pieces = [i \in 1 .. count |-> pieces[i]]
  OBVIOUS
<1>3. from \in Int /\ size \in Int /\ count \in Nat /\ from + count * size = at + 66
  OBVIOUS
<1> HIDE DEF pieces, from, size, count
<1>4. Runs(p, FlattenSeq(pieces), from, from + count * size)
  BY <1>1, <1>2, <1>3, EvenLoop
<1>5. Runs(p, FlattenSeq(pieces), from, at + 66)
  BY <1>3, <1>4
<1> QED
  BY <1>5 DEF pieces, from

(* The 2 currents of a report. *)
LEMMA Flows_1_26Run ==
  ASSUME NEW p, IsPayload(p), NEW at \in Int, at + 84 <= Limit(p)
  PROVE  Runs(p, FlattenSeq([i \in 1 .. 2 |->
                   Reads(<< <<at + 42 * (i - 1), 9>>, <<at + 42 * (i - 1) + 9, 7>>,
                            <<at + 42 * (i - 1) + 16, 8>>, <<at + 42 * (i - 1) + 24, 9>>,
                            <<at + 42 * (i - 1) + 33, 9>> >>)]),
              at, at + 84)
<1> DEFINE F(i) == << <<at + 42 * i, 9>>, <<at + 42 * i + 9, 7>>, <<at + 42 * i + 16, 8>>,
                      <<at + 42 * i + 24, 9>>, <<at + 42 * i + 33, 9>> >>
           pieces == [i \in 1 .. 2 |-> Reads(F(i - 1))]
           from == at
           size == 42
           count == 2
<1>1. ASSUME NEW i \in 0 .. count - 1
      PROVE  Runs(p, pieces[i + 1], from + i * size, from + i * size + size)
  <2>1. i + 1 \in 1 .. 2 /\ (i + 1) - 1 = i /\ Limit(p) \in Int
    BY PayloadBits
  <2>2. pieces[i + 1] = Reads(F(i))
    BY <2>1
  <2> DEFINE y == from + i * size
             z == y + size
  <2>3. y \in Int /\ z \in Int /\ z <= Limit(p)
    BY <2>1
  <2>4. Tiles(F(i), y, z)
    BY <2>1 DEF Tiles, Within
  <2> HIDE DEF F, pieces, y, z
  <2>5. Runs(p, Reads(F(i)), y, z)
    BY <2>3, <2>4, ReadsRun
  <2> QED
    BY <2>2, <2>5 DEF y, z
<1>2. pieces = [i \in 1 .. count |-> pieces[i]]
  OBVIOUS
<1>3. from \in Int /\ size \in Int /\ count \in Nat /\ from + count * size = at + 84
  OBVIOUS
<1> HIDE DEF pieces, from, size, count
<1>4. Runs(p, FlattenSeq(pieces), from, from + count * size)
  BY <1>1, <1>2, <1>3, EvenLoop
<1>5. Runs(p, FlattenSeq(pieces), from, at + 84)
  BY <1>3, <1>4
<1> QED
  BY <1>5 DEF pieces, from

(* The 2 currents of a report. *)
LEMMA Currents3D_367_33Run ==
  ASSUME NEW p, IsPayload(p), NEW at \in Int, at + 72 <= Limit(p)
  PROVE  Runs(p, FlattenSeq([i \in 1 .. 2 |->
                   Reads(<< <<at + 36 * (i - 1), 9>>, <<at + 36 * (i - 1) + 9, 9>>,
                            <<at + 36 * (i - 1) + 18, 9>>, <<at + 36 * (i - 1) + 27, 9>> >>)]),
              at, at + 72)
<1> DEFINE F(i) == << <<at + 36 * i, 9>>, <<at + 36 * i + 9, 9>>, <<at + 36 * i + 18, 9>>,
                      <<at + 36 * i + 27, 9>> >>
           pieces == [i \in 1 .. 2 |-> Reads(F(i - 1))]
           from == at
           size == 36
           count == 2
<1>1. ASSUME NEW i \in 0 .. count - 1
      PROVE  Runs(p, pieces[i + 1], from + i * size, from + i * size + size)
  <2>1. i + 1 \in 1 .. 2 /\ (i + 1) - 1 = i /\ Limit(p) \in Int
    BY PayloadBits
  <2>2. pieces[i + 1] = Reads(F(i))
    BY <2>1
  <2> DEFINE y == from + i * size
             z == y + size
  <2>3. y \in Int /\ z \in Int /\ z <= Limit(p)
    BY <2>1
  <2>4. Tiles(F(i), y, z)
    BY <2>1 DEF Tiles, Within
  <2> HIDE DEF F, pieces, y, z
  <2>5. Runs(p, Reads(F(i)), y, z)
    BY <2>3, <2>4, ReadsRun
  <2> QED
    BY <2>2, <2>5 DEF y, z
<1>2. pieces = [i \in 1 .. count |-> pieces[i]]
  OBVIOUS
<1>3. from \in Int /\ size \in Int /\ count \in Nat /\ from + count * size = at + 72
  OBVIOUS
<1> HIDE DEF pieces, from, size, count
<1>4. Runs(p, FlattenSeq(pieces), from, from + count * size)
  BY <1>1, <1>2, <1>3, EvenLoop
<1>5. Runs(p, FlattenSeq(pieces), from, at + 72)
  BY <1>3, <1>4
<1> QED
  BY <1>5 DEF pieces, from

(* The 2 currents of a report. *)
LEMMA Flows_367_33Run ==
  ASSUME NEW p, IsPayload(p), NEW at \in Int, at + 79 <= Limit(p)
  PROVE  Runs(p, FlattenSeq([i \in 1 .. 2 |->
                   Reads(<< <<at + 35 * (i - 1) + 9, 9>>, <<at + 35 * (i - 1) + 18, 8>>,
                            <<at + 35 * (i - 1) + 26, 9>>, <<at + 35 * (i - 1) + 35, 9>> >>)]),
              at + 9, at + 79)
<1> DEFINE F(i) == << <<at + 35 * i + 9, 9>>, <<at + 35 * i + 18, 8>>,
                      <<at + 35 * i + 26, 9>>, <<at + 35 * i + 35, 9>> >>
           pieces == [i \in 1 .. 2 |-> Reads(F(i - 1))]
           from == at + 9
           size == 35
           count == 2
<1>1. ASSUME NEW i \in 0 .. count - 1
      PROVE  Runs(p, pieces[i + 1], from + i * size, from + i * size + size)
  <2>1. i + 1 \in 1 .. 2 /\ (i + 1) - 1 = i /\ Limit(p) \in Int
    BY PayloadBits
  <2>2. pieces[i + 1] = Reads(F(i))
    BY <2>1
  <2> DEFINE y == from + i * size
             z == y + size
  <2>3. y \in Int /\ z \in Int /\ z <= Limit(p)
    BY <2>1
  <2>4. Tiles(F(i), y, z)
    BY <2>1 DEF Tiles, Within
  <2> HIDE DEF F, pieces, y, z
  <2>5. Runs(p, Reads(F(i)), y, z)
    BY <2>3, <2>4, ReadsRun
  <2> QED
    BY <2>2, <2>5 DEF y, z
<1>2. pieces = [i \in 1 .. count |-> pieces[i]]
  OBVIOUS
<1>3. from \in Int /\ size \in Int /\ count \in Nat /\ from + count * size = at + 79
  OBVIOUS
<1> HIDE DEF pieces, from, size, count
<1>4. Runs(p, FlattenSeq(pieces), from, from + count * size)
  BY <1>1, <1>2, <1>3, EvenLoop
<1>5. Runs(p, FlattenSeq(pieces), from, at + 79)
  BY <1>3, <1>4
<1> QED
  BY <1>5 DEF pieces, from

(* Curr2D: 85 bits. *)
LEMMA Curr2DRuns ==
  ASSUME NEW p, IsPayload(p), NEW at \in Int, at + 85 <= Limit(p)
  PROVE  Runs(p, Curr2D(at), at, at + 85)
<1> DEFINE loop == FlattenSeq([i \in 1 .. 3
                    |-> Reads(<< <<at + 26 * (i - 1), 8>>, <<at + 26 * (i - 1) + 8, 9>>, <<at + 26 * (i - 1) + 17, 9>> >>)])
<1>0. /\ at \in Int /\ at <= Limit(p) /\ at + 78 \in Int /\ at + 78 <= Limit(p)
      /\ at + 85 \in Int /\ at + 85 <= Limit(p)
  BY PayloadBits
<1>l. Runs(p, loop, at, at + 78)
  BY <1>0, Currents2DRun
<1> DEFINE F == << <<at + 78, 3>>, <<at + 81, 4>> >>
<1>1. Tiles(F, at + 78, at + 85)
  BY <1>0 DEF Tiles, Within
<1>2. Curr2D(at) = loop \o Reads(F)
  BY DEF Curr2D, Each
<1> HIDE DEF F, loop
<1>3. Runs(p, loop \o Reads(F), at, at + 85)
  BY <1>0, <1>1, <1>l, ThenReads
<1> QED
  BY <1>2, <1>3

(* 1:26, kind 0. *)
LEMMA Sensor_1_26_0Runs ==
  ASSUME NEW p, IsPayload(p), NEW at \in Int, at + 85 <= Limit(p)
  PROVE  Runs(p, Sensor_1_26(0, at), at, at + 85)
<1>0. /\ at + 55 <= Limit(p) /\ at \in Int /\ at <= Limit(p) /\ at + 55 \in Int
      /\ at + 85 \in Int /\ at + 85 <= Limit(p) /\ at + 55 = at + 55
  BY PayloadBits
<1> DEFINE F == << <<at + 55, 11>>, <<at + 66, 4>>, <<at + 70, 3>>, <<at + 73, 12>> >>
<1>1. Tiles(F, at + 55, at + 85)
  BY <1>0 DEF Tiles, Within
<1>2. Sensor_1_26(0, at) = Point(at, 55) \o Reads(F)
  BY DEF Sensor_1_26, Each, Bit
<1> HIDE DEF F
<1>3. Runs(p, Point(at, 55), at, at + 55)
  BY <1>0, PointRuns
<1>4. Runs(p, Point(at, 55), at, at + 55)
  BY <1>0, <1>3
<1>5. Runs(p, Point(at, 55) \o Reads(F), at, at + 85)
  BY <1>0, <1>1, <1>4, ThenReads
<1> QED
  BY <1>2, <1>5

(* 1:26, kind 1. *)
LEMMA Sensor_1_26_1Runs ==
  ASSUME NEW p, IsPayload(p), NEW at \in Int, at + 85 <= Limit(p)
  PROVE  Runs(p, Sensor_1_26(1, at), at, at + 85)
<1>0. /\ at + 84 <= Limit(p) /\ at \in Int /\ at <= Limit(p) /\ at + 84 \in Int
      /\ at + 85 \in Int /\ at + 85 <= Limit(p) /\ at + 84 = at + 84
  BY PayloadBits
<1> DEFINE F == << <<at + 84, 1>> >>
<1>1. Tiles(F, at + 84, at + 85)
  BY <1>0 DEF Tiles, Within
<1>2. Sensor_1_26(1, at) = Text(at, 84) \o Reads(F)
  BY DEF Sensor_1_26, Each, Bit
<1> HIDE DEF F
<1>3. Runs(p, Text(at, 84), at, at + 84)
  BY <1>0, TextRuns
<1>4. Runs(p, Text(at, 84), at, at + 84)
  BY <1>0, <1>3
<1>5. Runs(p, Text(at, 84) \o Reads(F), at, at + 85)
  BY <1>0, <1>1, <1>4, ThenReads
<1> QED
  BY <1>2, <1>5

(* 1:26, kind 5. *)
LEMMA Sensor_1_26_5Runs ==
  ASSUME NEW p, IsPayload(p), NEW at \in Int, at + 85 <= Limit(p)
  PROVE  Runs(p, Sensor_1_26(5, at), at, at + 85)
<1> DEFINE loop == FlattenSeq([i \in 1 .. 2
                    |-> Reads(<< <<at + 33 * (i - 1), 8>>, <<at + 33 * (i - 1) + 8, 8>>, <<at + 33 * (i - 1) + 16, 8>>, <<at + 33 * (i - 1) + 24, 9>> >>)])
<1>0. /\ at \in Int /\ at <= Limit(p) /\ at + 66 \in Int /\ at + 66 <= Limit(p)
      /\ at + 85 \in Int /\ at + 85 <= Limit(p)
  BY PayloadBits
<1>l. Runs(p, loop, at, at + 66)
  BY <1>0, Currents3D_1_26Run
<1> DEFINE F == << <<at + 66, 3>>, <<at + 69, 16>> >>
<1>1. Tiles(F, at + 66, at + 85)
  BY <1>0 DEF Tiles, Within
<1>2. Sensor_1_26(5, at) = loop \o Reads(F)
  <2> DEFINE b0 == Point(at, 55) \o Reads(<< <<at + 55, 11>>, <<at + 66, 4>>, <<at + 70,
                      3>>, <<at + 73, 12>> >>)
             b1 == Text(at, 84) \o Reads(<< <<at + 84, 1>> >>)
             b2 == WindReport(at)
             b3 == WaterLevel(at)
             b4 == Curr2D(at)
             b5 == FlattenSeq([i \in 1 .. 2 |-> Reads(<< <<at + 33 * (i - 1), 8>>, <<at + 33
                      * (i - 1) + 8, 8>>, <<at + 33 * (i - 1) + 16, 8>>, <<at + 33 * (i - 1)
                      + 24, 9>> >>)]) \o Reads(<< <<at + 66, 3>>, <<at + 69, 16>> >>)
             b6 == FlattenSeq([i \in 1 .. 2 |-> Reads(<< <<at + 42 * (i - 1), 9>>, <<at + 42
                      * (i - 1) + 9, 7>>, <<at + 42 * (i - 1) + 16, 8>>, <<at + 42 * (i - 1)
                      + 24, 9>>, <<at + 42 * (i - 1) + 33, 9>> >>)]) \o Reads(<< << at + 84,
                      1 >> >>)
             b7 == SeaState(at)
             b8 == Salinity(at)
             b9 == Wx(at)
             b10 == Reads(<< <<at, 13>>, <<at + 13, 13>>, <<at + 26, 2>>, <<at + 28, 13>>,
                      <<at + 41, 5>>, <<at + 46, 5>>, <<at + 51, 6>>, <<at + 57, 28>> >>)
  <2>1. Sensor_1_26(5, at) =
          CASE 5 = 0 -> b0
            [] 5 = 1 -> b1
            [] 5 = 2 -> b2
            [] 5 = 3 -> b3
            [] 5 = 4 -> b4
            [] 5 = 5 -> b5
            [] 5 = 6 -> b6
            [] 5 = 7 -> b7
            [] 5 = 8 -> b8
            [] 5 = 9 -> b9
            [] 5 = 10 -> b10
    BY DEF Sensor_1_26, Each, Bit
  <2>2. b5 = loop \o Reads(F)
    OBVIOUS
  <2> HIDE DEF b0, b1, b2, b3, b4, b5, b6, b7, b8, b9, b10
  <2>3. Sensor_1_26(5, at) = b5
    BY <2>1
  <2> QED
    BY <2>2, <2>3
<1> HIDE DEF F, loop
<1>3. Runs(p, loop \o Reads(F), at, at + 85)
  BY <1>0, <1>1, <1>l, ThenReads
<1> QED
  BY <1>2, <1>3

(* 1:26, kind 6. *)
LEMMA Sensor_1_26_6Runs ==
  ASSUME NEW p, IsPayload(p), NEW at \in Int, at + 85 <= Limit(p)
  PROVE  Runs(p, Sensor_1_26(6, at), at, at + 85)
<1> DEFINE loop == FlattenSeq([i \in 1 .. 2
                    |-> Reads(<< <<at + 42 * (i - 1), 9>>, <<at + 42 * (i - 1) + 9, 7>>, <<at + 42 * (i - 1) + 16, 8>>, <<at + 42 * (i - 1) + 24, 9>>, <<at + 42 * (i - 1) + 33, 9>> >>)])
<1>0. /\ at \in Int /\ at <= Limit(p) /\ at + 84 \in Int /\ at + 84 <= Limit(p)
      /\ at + 85 \in Int /\ at + 85 <= Limit(p)
  BY PayloadBits
<1>l. Runs(p, loop, at, at + 84)
  BY <1>0, Flows_1_26Run
<1> DEFINE F == << <<at + 84, 1>> >>
<1>1. Tiles(F, at + 84, at + 85)
  BY <1>0 DEF Tiles, Within
<1>2. Sensor_1_26(6, at) = loop \o Reads(F)
  <2> DEFINE b0 == Point(at, 55) \o Reads(<< <<at + 55, 11>>, <<at + 66, 4>>, <<at + 70,
                      3>>, <<at + 73, 12>> >>)
             b1 == Text(at, 84) \o Reads(<< <<at + 84, 1>> >>)
             b2 == WindReport(at)
             b3 == WaterLevel(at)
             b4 == Curr2D(at)
             b5 == FlattenSeq([i \in 1 .. 2 |-> Reads(<< <<at + 33 * (i - 1), 8>>, <<at + 33
                      * (i - 1) + 8, 8>>, <<at + 33 * (i - 1) + 16, 8>>, <<at + 33 * (i - 1)
                      + 24, 9>> >>)]) \o Reads(<< <<at + 66, 3>>, <<at + 69, 16>> >>)
             b6 == FlattenSeq([i \in 1 .. 2 |-> Reads(<< <<at + 42 * (i - 1), 9>>, <<at + 42
                      * (i - 1) + 9, 7>>, <<at + 42 * (i - 1) + 16, 8>>, <<at + 42 * (i - 1)
                      + 24, 9>>, <<at + 42 * (i - 1) + 33, 9>> >>)]) \o Reads(<< << at + 84,
                      1 >> >>)
             b7 == SeaState(at)
             b8 == Salinity(at)
             b9 == Wx(at)
             b10 == Reads(<< <<at, 13>>, <<at + 13, 13>>, <<at + 26, 2>>, <<at + 28, 13>>,
                      <<at + 41, 5>>, <<at + 46, 5>>, <<at + 51, 6>>, <<at + 57, 28>> >>)
  <2>1. Sensor_1_26(6, at) =
          CASE 6 = 0 -> b0
            [] 6 = 1 -> b1
            [] 6 = 2 -> b2
            [] 6 = 3 -> b3
            [] 6 = 4 -> b4
            [] 6 = 5 -> b5
            [] 6 = 6 -> b6
            [] 6 = 7 -> b7
            [] 6 = 8 -> b8
            [] 6 = 9 -> b9
            [] 6 = 10 -> b10
    BY DEF Sensor_1_26, Each, Bit
  <2>2. b6 = loop \o Reads(F)
    OBVIOUS
  <2> HIDE DEF b0, b1, b2, b3, b4, b5, b6, b7, b8, b9, b10
  <2>3. Sensor_1_26(6, at) = b6
    BY <2>1
  <2> QED
    BY <2>2, <2>3
<1> HIDE DEF F, loop
<1>3. Runs(p, loop \o Reads(F), at, at + 85)
  BY <1>0, <1>1, <1>l, ThenReads
<1> QED
  BY <1>2, <1>3

(* 1:26, kind 10. *)
LEMMA Sensor_1_26_10Runs ==
  ASSUME NEW p, IsPayload(p), NEW at \in Int, at + 85 <= Limit(p)
  PROVE  Runs(p, Sensor_1_26(10, at), at, at + 85)
<1>0. /\ at \in Int /\ at <= Limit(p) /\ at + 85 \in Int /\ at + 85 <= Limit(p)
  BY PayloadBits
<1> DEFINE F == << <<at, 13>>, <<at + 13, 13>>, <<at + 26, 2>>, <<at + 28, 13>>,
                   <<at + 41, 5>>, <<at + 46, 5>>, <<at + 51, 6>>, <<at + 57, 28>> >>
<1>1. Tiles(F, at, at + 85)
  BY <1>0 DEF Tiles, Within
<1>2. Sensor_1_26(10, at) = Reads(F)
  BY DEF Sensor_1_26, Each, Bit
<1> HIDE DEF F
<1>3. Runs(p, Reads(F), at, at + 85)
  BY <1>0, <1>1, ReadsRun
<1> QED
  BY <1>2, <1>3

(* 367:33, kind 0. *)
LEMMA Sensor_367_33_0Runs ==
  ASSUME NEW p, IsPayload(p), NEW at \in Int, at + 85 <= Limit(p)
  PROVE  Runs(p, Sensor_367_33(0, at), at, at + 85)
<1>0. /\ at + 6 + 55 <= Limit(p) /\ at \in Int /\ at <= Limit(p) /\ at + 6 \in Int
      /\ at + 6 <= Limit(p) /\ at + 61 \in Int /\ at + 61 <= Limit(p) /\ at + 85 \in Int
      /\ at + 85 <= Limit(p) /\ at + 6 + 55 = at + 61
  BY PayloadBits
<1> DEFINE F == << <<at, 6>> >>
           G == << <<at + 61, 3>>, <<at + 64, 12>>, <<at + 76, 4>>, <<at + 80, 3>>,
                   <<at + 83, 2>> >>
<1>1. Tiles(F, at, at + 6)
  BY <1>0 DEF Tiles, Within
<1>2. Tiles(G, at + 61, at + 85)
  BY <1>0 DEF Tiles, Within
<1>3. Sensor_367_33(0, at) = Reads(F) \o Point(at + 6, 55) \o Reads(G)
  BY SMTT(30) DEF Sensor_367_33, Each, Bit
<1> HIDE DEF F, G
<1>4. Runs(p, Reads(F), at, at + 6)
  BY <1>0, <1>1, ReadsRun
<1>5. Runs(p, Reads(F) \o Point(at + 6, 55), at, at + 6 + 55)
  BY <1>0, <1>4, ThenPoint
<1>6. Runs(p, Reads(F) \o Point(at + 6, 55), at, at + 61)
  BY <1>0, <1>5
<1>7. Runs(p, Reads(F) \o Point(at + 6, 55) \o Reads(G), at, at + 85)
  BY <1>0, <1>2, <1>6, ThenReads
<1> QED
  BY <1>3, <1>7

(* 367:33, kind 1. *)
LEMMA Sensor_367_33_1Runs ==
  ASSUME NEW p, IsPayload(p), NEW at \in Int, at + 85 <= Limit(p)
  PROVE  Runs(p, Sensor_367_33(1, at), at, at + 85)
<1>0. /\ at + 84 <= Limit(p) /\ at \in Int /\ at <= Limit(p) /\ at + 84 \in Int
      /\ at + 85 \in Int /\ at + 85 <= Limit(p) /\ at + 84 = at + 84
  BY PayloadBits
<1> DEFINE F == << <<at + 84, 1>> >>
<1>1. Tiles(F, at + 84, at + 85)
  BY <1>0 DEF Tiles, Within
<1>2. Sensor_367_33(1, at) = Text(at, 84) \o Reads(F)
  BY DEF Sensor_367_33, Each, Bit
<1> HIDE DEF F
<1>3. Runs(p, Text(at, 84), at, at + 84)
  BY <1>0, TextRuns
<1>4. Runs(p, Text(at, 84), at, at + 84)
  BY <1>0, <1>3
<1>5. Runs(p, Text(at, 84) \o Reads(F), at, at + 85)
  BY <1>0, <1>1, <1>4, ThenReads
<1> QED
  BY <1>2, <1>5

(* 367:33, kind 5. *)
LEMMA Sensor_367_33_5Runs ==
  ASSUME NEW p, IsPayload(p), NEW at \in Int, at + 85 <= Limit(p)
  PROVE  Runs(p, Sensor_367_33(5, at), at, at + 85)
<1> DEFINE loop == FlattenSeq([i \in 1 .. 2
                    |-> Reads(<< <<at + 36 * (i - 1), 9>>, <<at + 36 * (i - 1) + 9, 9>>, <<at + 36 * (i - 1) + 18, 9>>, <<at + 36 * (i - 1) + 27, 9>> >>)])
<1>0. /\ at \in Int /\ at <= Limit(p) /\ at + 72 \in Int /\ at + 72 <= Limit(p)
      /\ at + 85 \in Int /\ at + 85 <= Limit(p)
  BY PayloadBits
<1>l. Runs(p, loop, at, at + 72)
  BY <1>0, Currents3D_367_33Run
<1> DEFINE F == << <<at + 72, 3>>, <<at + 75, 10>> >>
<1>1. Tiles(F, at + 72, at + 85)
  BY <1>0 DEF Tiles, Within
<1>2. Sensor_367_33(5, at) = loop \o Reads(F)
  <2> DEFINE b0 == Reads(<< <<at, 6>> >>) \o Point(at + 6, 55) \o Reads(<< <<at + 61, 3>>,
                      <<at + 64, 12>>, <<at + 76, 4>>, <<at + 80, 3>>, <<at + 83, 2>> >>)
             b1 == Text(at, 84) \o Reads(<< <<at + 84, 1>> >>)
             b2 == WindReport(at)
             b3 == WaterLevel(at)
             b4 == Curr2D(at)
             b5 == FlattenSeq([i \in 1 .. 2 |-> Reads(<< <<at + 36 * (i - 1), 9>>, <<at + 36
                      * (i - 1) + 9, 9>>, <<at + 36 * (i - 1) + 18, 9>>, <<at + 36 * (i - 1)
                      + 27, 9>> >>)]) \o Reads(<< <<at + 72, 3>>, <<at + 75, 10>> >>)
             b6 == Reads(<< <<at, 9>> >>) \o FlattenSeq([i \in 1 .. 2 |-> Reads(<< <<at + 35
                      * (i - 1) + 9, 9>>, <<at + 35 * (i - 1) + 18, 8>>, <<at + 35 * (i - 1)
                      + 26, 9>>, <<at + 35 * (i - 1) + 35, 9>> >>)]) \o Reads(<< <<at + 79,
                      3>>, <<at + 82, 3>> >>)
             b7 == SeaState(at)
             b8 == Salinity(at)
             b9 == Wx(at)
             b10 == Reads(<< <<at, 13>>, <<at + 13, 13>>, <<at + 26, 2>>, <<at + 28, 13>>,
                      <<at + 41, 5>>, <<at + 46, 5>>, <<at + 51, 6>>, <<at + 57, 3>>, <<at +
                      60, 25>> >>)
             b11 == Reads(<< <<at, 7>>, <<at + 7, 7>>, <<at + 14, 9>>, <<at + 23, 6>>, <<at
                      + 29, 3>>, <<at + 32, 7>>, <<at + 39, 7>>, <<at + 46, 9>>, <<at + 55,
                      5>>, <<at + 60, 6>>, <<at + 66, 8>>, <<at + 74, 11>> >>)
  <2>1. Sensor_367_33(5, at) =
          CASE 5 = 0 -> b0
            [] 5 = 1 -> b1
            [] 5 = 2 -> b2
            [] 5 = 3 -> b3
            [] 5 = 4 -> b4
            [] 5 = 5 -> b5
            [] 5 = 6 -> b6
            [] 5 = 7 -> b7
            [] 5 = 8 -> b8
            [] 5 = 9 -> b9
            [] 5 = 10 -> b10
            [] 5 = 11 -> b11
    BY DEF Sensor_367_33, Each, Bit
  <2>2. b5 = loop \o Reads(F)
    OBVIOUS
  <2> HIDE DEF b0, b1, b2, b3, b4, b5, b6, b7, b8, b9, b10, b11
  <2>3. Sensor_367_33(5, at) = b5
    BY <2>1
  <2> QED
    BY <2>2, <2>3
<1> HIDE DEF F, loop
<1>3. Runs(p, loop \o Reads(F), at, at + 85)
  BY <1>0, <1>1, <1>l, ThenReads
<1> QED
  BY <1>2, <1>3

(* 367:33, kind 6. *)
LEMMA Sensor_367_33_6Runs ==
  ASSUME NEW p, IsPayload(p), NEW at \in Int, at + 85 <= Limit(p)
  PROVE  Runs(p, Sensor_367_33(6, at), at, at + 85)
<1> DEFINE loop == FlattenSeq([i \in 1 .. 2
                    |-> Reads(<< <<at + 35 * (i - 1) + 9, 9>>, <<at + 35 * (i - 1) + 18, 8>>, <<at + 35 * (i - 1) + 26, 9>>, <<at + 35 * (i - 1) + 35, 9>> >>)])
<1>0. /\ at \in Int /\ at <= Limit(p) /\ at + 9 \in Int /\ at + 9 <= Limit(p)
      /\ at + 79 \in Int /\ at + 79 <= Limit(p) /\ at + 85 \in Int /\ at + 85 <= Limit(p)
  BY PayloadBits
<1>l. Runs(p, loop, at + 9, at + 79)
  BY <1>0, Flows_367_33Run
<1> DEFINE F == << <<at, 9>> >>
           G == << <<at + 79, 3>>, <<at + 82, 3>> >>
<1>1. Tiles(F, at, at + 9)
  BY <1>0 DEF Tiles, Within
<1>2. Tiles(G, at + 79, at + 85)
  BY <1>0 DEF Tiles, Within
<1>3. Sensor_367_33(6, at) = Reads(F) \o loop \o Reads(G)
  <2> DEFINE b0 == Reads(<< <<at, 6>> >>) \o Point(at + 6, 55) \o Reads(<< <<at + 61, 3>>,
                      <<at + 64, 12>>, <<at + 76, 4>>, <<at + 80, 3>>, <<at + 83, 2>> >>)
             b1 == Text(at, 84) \o Reads(<< <<at + 84, 1>> >>)
             b2 == WindReport(at)
             b3 == WaterLevel(at)
             b4 == Curr2D(at)
             b5 == FlattenSeq([i \in 1 .. 2 |-> Reads(<< <<at + 36 * (i - 1), 9>>, <<at + 36
                      * (i - 1) + 9, 9>>, <<at + 36 * (i - 1) + 18, 9>>, <<at + 36 * (i - 1)
                      + 27, 9>> >>)]) \o Reads(<< <<at + 72, 3>>, <<at + 75, 10>> >>)
             b6 == Reads(<< <<at, 9>> >>) \o FlattenSeq([i \in 1 .. 2 |-> Reads(<< <<at + 35
                      * (i - 1) + 9, 9>>, <<at + 35 * (i - 1) + 18, 8>>, <<at + 35 * (i - 1)
                      + 26, 9>>, <<at + 35 * (i - 1) + 35, 9>> >>)]) \o Reads(<< <<at + 79,
                      3>>, <<at + 82, 3>> >>)
             b7 == SeaState(at)
             b8 == Salinity(at)
             b9 == Wx(at)
             b10 == Reads(<< <<at, 13>>, <<at + 13, 13>>, <<at + 26, 2>>, <<at + 28, 13>>,
                      <<at + 41, 5>>, <<at + 46, 5>>, <<at + 51, 6>>, <<at + 57, 3>>, <<at +
                      60, 25>> >>)
             b11 == Reads(<< <<at, 7>>, <<at + 7, 7>>, <<at + 14, 9>>, <<at + 23, 6>>, <<at
                      + 29, 3>>, <<at + 32, 7>>, <<at + 39, 7>>, <<at + 46, 9>>, <<at + 55,
                      5>>, <<at + 60, 6>>, <<at + 66, 8>>, <<at + 74, 11>> >>)
  <2>1. Sensor_367_33(6, at) =
          CASE 6 = 0 -> b0
            [] 6 = 1 -> b1
            [] 6 = 2 -> b2
            [] 6 = 3 -> b3
            [] 6 = 4 -> b4
            [] 6 = 5 -> b5
            [] 6 = 6 -> b6
            [] 6 = 7 -> b7
            [] 6 = 8 -> b8
            [] 6 = 9 -> b9
            [] 6 = 10 -> b10
            [] 6 = 11 -> b11
    BY DEF Sensor_367_33, Each, Bit
  <2>2. b6 = Reads(F) \o loop \o Reads(G)
    OBVIOUS
  <2> HIDE DEF b0, b1, b2, b3, b4, b5, b6, b7, b8, b9, b10, b11
  <2>3. Sensor_367_33(6, at) = b6
    BY <2>1
  <2> QED
    BY <2>2, <2>3
<1> HIDE DEF F, G, loop
<1>4. Runs(p, Reads(F), at, at + 9)
  BY <1>0, <1>1, ReadsRun
<1>5. Runs(p, Reads(F) \o loop, at, at + 79)
  BY <1>4, <1>l, RunsThen
<1>6. Runs(p, Reads(F) \o loop \o Reads(G), at, at + 85)
  BY <1>0, <1>2, <1>5, ThenReads
<1> QED
  BY <1>3, <1>6

(* 367:33, kind 10. *)
LEMMA Sensor_367_33_10Runs ==
  ASSUME NEW p, IsPayload(p), NEW at \in Int, at + 85 <= Limit(p)
  PROVE  Runs(p, Sensor_367_33(10, at), at, at + 85)
<1>0. /\ at \in Int /\ at <= Limit(p) /\ at + 85 \in Int /\ at + 85 <= Limit(p)
  BY PayloadBits
<1> DEFINE F == << <<at, 13>>, <<at + 13, 13>>, <<at + 26, 2>>, <<at + 28, 13>>,
                   <<at + 41, 5>>, <<at + 46, 5>>, <<at + 51, 6>>, <<at + 57, 3>>,
                   <<at + 60, 25>> >>
<1>1. Tiles(F, at, at + 85)
  BY <1>0 DEF Tiles, Within
<1>2. Sensor_367_33(10, at) = Reads(F)
  BY DEF Sensor_367_33, Each, Bit
<1> HIDE DEF F
<1>3. Runs(p, Reads(F), at, at + 85)
  BY <1>0, <1>1, ReadsRun
<1> QED
  BY <1>2, <1>3

(* 367:33, kind 11. *)
LEMMA Sensor_367_33_11Runs ==
  ASSUME NEW p, IsPayload(p), NEW at \in Int, at + 85 <= Limit(p)
  PROVE  Runs(p, Sensor_367_33(11, at), at, at + 85)
<1>0. /\ at \in Int /\ at <= Limit(p) /\ at + 85 \in Int /\ at + 85 <= Limit(p)
  BY PayloadBits
<1> DEFINE F == << <<at, 7>>, <<at + 7, 7>>, <<at + 14, 9>>, <<at + 23, 6>>,
                   <<at + 29, 3>>, <<at + 32, 7>>, <<at + 39, 7>>, <<at + 46, 9>>,
                   <<at + 55, 5>>, <<at + 60, 6>>, <<at + 66, 8>>, <<at + 74, 11>> >>
<1>1. Tiles(F, at, at + 85)
  BY <1>0 DEF Tiles, Within
<1>2. Sensor_367_33(11, at) = Reads(F)
  BY DEF Sensor_367_33, Each, Bit
<1> HIDE DEF F
<1>3. Runs(p, Reads(F), at, at + 85)
  BY <1>0, <1>1, ReadsRun
<1> QED
  BY <1>2, <1>3

(* Every report that has a layout has 85 bits of it. *)
LEMMA Sensor_1_26Runs ==
  ASSUME NEW p, IsPayload(p), NEW at \in Int, at + 85 <= Limit(p), NEW kind \in 0 .. 10
  PROVE  Runs(p, Sensor_1_26(kind, at), at, at + 85)
<1>1. CASE kind = 0
  BY <1>1, Sensor_1_26_0Runs
<1>2. CASE kind = 1
  BY <1>2, Sensor_1_26_1Runs
<1>3. CASE kind = 2
  <2>1. Sensor_1_26(2, at) = WindReport(at)
    BY DEF Sensor_1_26
  <2> QED
    BY <1>3, <2>1, WindReportRuns
<1>4. CASE kind = 3
  <2>1. Sensor_1_26(3, at) = WaterLevel(at)
    BY DEF Sensor_1_26
  <2> QED
    BY <1>4, <2>1, WaterLevelRuns
<1>5. CASE kind = 4
  <2>1. Sensor_1_26(4, at) = Curr2D(at)
    BY DEF Sensor_1_26
  <2> QED
    BY <1>5, <2>1, Curr2DRuns
<1>6. CASE kind = 5
  BY <1>6, Sensor_1_26_5Runs
<1>7. CASE kind = 6
  BY <1>7, Sensor_1_26_6Runs
<1>8. CASE kind = 7
  <2>1. Sensor_1_26(7, at) = SeaState(at)
    BY DEF Sensor_1_26
  <2> QED
    BY <1>8, <2>1, SeaStateRuns
<1>9. CASE kind = 8
  <2>1. Sensor_1_26(8, at) = Salinity(at)
    BY DEF Sensor_1_26
  <2> QED
    BY <1>9, <2>1, SalinityRuns
<1>10. CASE kind = 9
  <2>1. Sensor_1_26(9, at) = Wx(at)
    BY DEF Sensor_1_26
  <2> QED
    BY <1>10, <2>1, WxRuns
<1>11. CASE kind = 10
  BY <1>11, Sensor_1_26_10Runs
<1> QED
  BY <1>1, <1>2, <1>3, <1>4, <1>5, <1>6, <1>7, <1>8, <1>9, <1>10, <1>11

(* Every report that has a layout has 85 bits of it. *)
LEMMA Sensor_367_33Runs ==
  ASSUME NEW p, IsPayload(p), NEW at \in Int, at + 85 <= Limit(p), NEW kind \in 0 .. 11
  PROVE  Runs(p, Sensor_367_33(kind, at), at, at + 85)
<1>1. CASE kind = 0
  BY <1>1, Sensor_367_33_0Runs
<1>2. CASE kind = 1
  BY <1>2, Sensor_367_33_1Runs
<1>3. CASE kind = 2
  <2>1. Sensor_367_33(2, at) = WindReport(at)
    BY DEF Sensor_367_33
  <2> QED
    BY <1>3, <2>1, WindReportRuns
<1>4. CASE kind = 3
  <2>1. Sensor_367_33(3, at) = WaterLevel(at)
    BY DEF Sensor_367_33
  <2> QED
    BY <1>4, <2>1, WaterLevelRuns
<1>5. CASE kind = 4
  <2>1. Sensor_367_33(4, at) = Curr2D(at)
    BY DEF Sensor_367_33
  <2> QED
    BY <1>5, <2>1, Curr2DRuns
<1>6. CASE kind = 5
  BY <1>6, Sensor_367_33_5Runs
<1>7. CASE kind = 6
  BY <1>7, Sensor_367_33_6Runs
<1>8. CASE kind = 7
  <2>1. Sensor_367_33(7, at) = SeaState(at)
    BY DEF Sensor_367_33
  <2> QED
    BY <1>8, <2>1, SeaStateRuns
<1>9. CASE kind = 8
  <2>1. Sensor_367_33(8, at) = Salinity(at)
    BY DEF Sensor_367_33
  <2> QED
    BY <1>9, <2>1, SalinityRuns
<1>10. CASE kind = 9
  <2>1. Sensor_367_33(9, at) = Wx(at)
    BY DEF Sensor_367_33
  <2> QED
    BY <1>10, <2>1, WxRuns
<1>11. CASE kind = 10
  BY <1>11, Sensor_367_33_10Runs
<1>12. CASE kind = 11
  BY <1>12, Sensor_367_33_11Runs
<1> QED
  BY <1>1, <1>2, <1>3, <1>4, <1>5, <1>6, <1>7, <1>8, <1>9, <1>10, <1>11, <1>12

(* A report of a sensor, wherever the cursor is: over its data to behind   *)
(* the header, or left at a type without a layout.                         *)
LEMMA ReportRuns ==
  ASSUME NEW p, IsPayload(p), NEW offset \in Nat, offset + 112 <= NumBits(p), NEW x \in Int,
         NEW known \in BOOLEAN, NEW report, NEW refused \in Errors,
         known => Runs(p, report, offset + 27, offset + 112)
  PROVE  /\ known => Runs(p, SeekTo(offset) \o SensorReport(offset, known, report, refused),
                          x, offset + 27)
         /\ ~ known => Gives(p, SeekTo(offset)
                                  \o SensorReport(offset, known, report, refused),
                             x, refused)
<1> DEFINE first == << <<offset, 4>> >>
           dated == << <<offset + 4, 5>>, <<offset + 9, 5>>, <<offset + 14, 6>>,
                        <<offset + 20, 7>> >>
           other == Return(refused)
           end == offset + 112
<1>1. /\ offset \in Int /\ offset < NumBits(p) /\ offset + 4 \in Nat /\ offset + 27 \in Nat
      /\ offset + 4 <= Limit(p) /\ offset + 27 <= Limit(p)
      /\ offset + 4 < NumBits(p) /\ offset + 27 < NumBits(p) /\ offset + 27 \in Int
      /\ end \in Int
  BY PayloadBits
<1>2. Tiles(first, offset, offset + 4) /\ Tiles(dated, offset + 4, offset + 27)
  BY <1>1 DEF Tiles, Within
<1>3. SensorReport(offset, known, report, refused)
        = Reads(first) \o SeekTo(offset + 27)
          \o IF known THEN report \o ReportHeader(offset) ELSE other
  BY DEF SensorReport
<1>4. ReportHeader(offset) = SeekTo(offset + 4) \o Reads(dated)
  BY DEF ReportHeader
<1>5. known => Runs(p, report, offset + 27, end)
  OBVIOUS
<1>6. Gives(p, other, offset + 27, refused)
  BY <1>1, Endings, ReturnGives
<1> HIDE DEF first, dated, other, end
<1>7. Runs(p, SeekTo(offset), x, offset)
  BY <1>1, SeekFirst
<1>8. Runs(p, Reads(first) \o SeekTo(offset + 27), offset, offset + 27)
  <2>1. Runs(p, Reads(first), offset, offset + 4)
    BY <1>1, <1>2, ReadsRun
  <2> QED
    BY <1>1, <2>1, ThenSeek
<1>9. ASSUME known
      PROVE  Runs(p, SeekTo(offset) \o SensorReport(offset, known, report, refused),
                  x, offset + 27)
  <2>1. Runs(p, ReportHeader(offset), end, offset + 27)
    <3>1. Runs(p, SeekTo(offset + 4), end, offset + 4)
      BY <1>1, SeekFirst
    <3>2. Runs(p, SeekTo(offset + 4) \o Reads(dated), end, offset + 27)
      BY <1>1, <1>2, <3>1, ThenReads
    <3> QED
      BY <1>4, <3>2
  <2>2. Runs(p, report \o ReportHeader(offset), offset + 27, offset + 27)
    BY <1>5, <1>9, <2>1, RunsThen
  <2>3. Runs(p, Reads(first) \o SeekTo(offset + 27) \o (report \o ReportHeader(offset)),
             offset, offset + 27)
    BY <1>8, <2>2, RunsThen
  <2>4. Runs(p, SensorReport(offset, known, report, refused), offset, offset + 27)
    BY <1>3, <1>9, <2>3
  <2> QED
    BY <1>7, <2>4, RunsThen
<1>10. ASSUME ~ known
       PROVE  Gives(p, SeekTo(offset) \o SensorReport(offset, known, report, refused),
                    x, refused)
  <2>1. Gives(p, Reads(first) \o SeekTo(offset + 27) \o other, offset, refused)
    BY <1>6, <1>8, GivesAfter
  <2>2. Gives(p, SensorReport(offset, known, report, refused), offset, refused)
    BY <1>3, <1>10, <2>1
  <2> QED
    BY <1>7, <2>2, GivesAfter
<1> QED
  BY <1>9, <1>10

(* A loop over sub-messages that ends at the first of no known kind. *)
LEMMA ReportsGive ==
  ASSUME NEW p, NEW n \in Nat, NEW K, NEW refused \in Errors,
         NEW seqs, seqs = [i \in 1 .. n |-> seqs[i]],
         NEW to \in [0 .. n -> Int],
         \A i \in 0 .. n - 1 :
           /\ Kind(p, i) \in K => Runs(p, seqs[i + 1], to[i], to[i + 1])
           /\ Kind(p, i) \notin K => Gives(p, seqs[i + 1], to[i], refused)
  PROVE  \E v \in Given : Gives(p, FlattenSeq(seqs) \o Ok, to[0], v)
<1>1. \A i \in 0 .. n - 1 : seqs[i + 1] \in Seq(Shape)
  BY RunsTyped DEF Gives, Halts
<1>2. seqs \in Seq(Seq(Shape)) /\ Len(seqs) = n
  BY <1>1, LoopTyped
<1>3. CASE \A i \in 0 .. n - 1 : Kind(p, i) \in K
  <2>1. ASSUME NEW i \in 1 .. n PROVE Runs(p, seqs[i], to[i - 1], to[i])
    <3>1. i - 1 \in 0 .. n - 1 /\ (i - 1) + 1 = i
      OBVIOUS
    <3> QED
      BY <1>3, <3>1
  <2>2. Runs(p, FlattenSeq(seqs), to[0], to[n])
    BY <1>2, <2>1, LoopRuns
  <2>3. Gives(p, FlattenSeq(seqs) \o Return("AIS_OK"), to[0], "AIS_OK")
    BY <2>2, Endings, ThenReturn
  <2> QED
    BY <2>3, Endings DEF Ok
<1>4. CASE ~ \A i \in 0 .. n - 1 : Kind(p, i) \in K
  <2>1. PICK k \in 0 .. n - 1 : Kind(p, k) \notin K /\ \A i \in 0 .. k - 1 : Kind(p, i) \in K
    <3>1. PICK j \in 0 .. n - 1 : Kind(p, j) \notin K
      BY <1>4
    <3> DEFINE T == {i \in Int : Kind(p, i) \notin K}
    <3>2. j \in T /\ n \in Nat
      BY <3>1
    <3> HIDE DEF T
    <3>3. PICK k \in 0 .. n - 1 : k \in T /\ \A i \in 0 .. k - 1 : i \notin T
      BY <3>1, <3>2, Least
    <3> QED
      BY <3>3 DEF T
  <2> DEFINE at == [i \in 0 .. k |-> to[i]]
  <2>2. at \in [0 .. k -> Int] /\ \A i \in 0 .. k : at[i] = to[i]
    OBVIOUS
  <2>3. 0 \in 0 .. k /\ k \in 0 .. k
    OBVIOUS
  <2> HIDE DEF at
  <2>4. ASSUME NEW i \in 1 .. k PROVE Runs(p, seqs[i], at[i - 1], at[i])
    <3>1. i - 1 \in 0 .. n - 1 /\ (i - 1) + 1 = i /\ i - 1 \in 0 .. k - 1
          /\ i - 1 \in 0 .. k /\ i \in 0 .. k
      OBVIOUS
    <3> QED
      BY <2>1, <2>2, <3>1
  <2>5. Gives(p, seqs[k + 1], at[k], refused)
    BY <2>1, <2>2, <2>3
  <2>6. Gives(p, FlattenSeq(seqs), at[0], refused)
    BY <1>2, <2>2, <2>4, <2>5, LoopHalts
  <2>7. Gives(p, FlattenSeq(seqs) \o Ok, to[0], refused)
    BY <2>2, <2>3, <2>6, Endings, GivesThen
  <2> QED
    BY <2>7, Endings
<1> QED
  BY <1>3, <1>4

(* 8:1:26 (ais8_1_26.cpp): reports of any kinds, up to one without a       *)
(* layout.                                                                 *)
LEMMA Ais8_1_26Gives ==
  ASSUME NEW p, IsPayload(p), Application(p) = << 1, 26 >>, NumBits(p) \in 56 .. 1008
  PROVE  \E v \in Given : Gives(p, Ais8_1_26(p), 56, v)
<1> DEFINE n == NumBits(p)
           count == (n - 56) \div 112
           report(i) == SeekTo(56 + 112 * i) \o Report_1_26(Kind(p, i), 56 + 112 * i)
           pieces == [i \in 1 .. count |-> report(i - 1)]
           calls == FlattenSeq(pieces) \o Ok
           ok == n \in 168 .. 1098
           refused == "AIS_ERR_BAD_SUB_SUB_MSG"
           K == 0 .. 10
           to == [i \in 0 .. count |-> IF i = 0 THEN 56 ELSE 56 + 112 * (i - 1) + 27]
<1>1. Ais8_1_26(p) = Applied(p, 1, 26, ok, calls)
  BY DEF Ais8_1_26, Each
<1>2. ASSUME ok PROVE \E v \in Given : Gives(p, calls, 56, v)
  <2>1. n \in Int /\ n >= 56 /\ count \in Nat /\ 56 + 112 * count <= n
    BY <1>2, PayloadBits
  <2>2. ASSUME NEW i \in 0 .. count - 1
        PROVE  /\ Kind(p, i) \in K => Runs(p, pieces[i + 1], to[i], to[i + 1])
               /\ Kind(p, i) \notin K => Gives(p, pieces[i + 1], to[i], refused)
    <3> DEFINE offset == 56 + 112 * i
               x == to[i]
               known == Kind(p, i) \in K
               sensor == Sensor_1_26(Kind(p, i), offset + 27)
    <3>1. i + 1 \in 1 .. count /\ (i + 1) - 1 = i /\ i + 1 <= count /\ i \in Nat
      BY <2>1
    <3>2. 112 * i + 112 <= 112 * count
      BY <2>1, <3>1
    <3>3. offset \in Nat /\ offset + 112 <= n /\ offset + 27 \in Int
          /\ offset + 27 + 85 = offset + 112
      BY <2>1, <3>1, <3>2
    <3>4. pieces[i + 1] = SeekTo(offset) \o SensorReport(offset, known, sensor, refused)
      BY <3>1 DEF Report_1_26
    <3>5. x \in Int /\ to[i + 1] = offset + 27
      <4>1. i + 1 \in 0 .. count /\ i \in 0 .. count /\ i + 1 # 0
        BY <3>1
      <4>2. to[i + 1] = 56 + 112 * ((i + 1) - 1) + 27
        BY <4>1
      <4>3. to[i] = IF i = 0 THEN 56 ELSE 56 + 112 * (i - 1) + 27
        BY <4>1
      <4> HIDE DEF to
      <4> QED
        BY <3>1, <4>2, <4>3
    <3>6. known \in BOOLEAN /\ refused \in Errors
      BY DEF Errors
    <3>7. ASSUME known PROVE Runs(p, sensor, offset + 27, offset + 112)
      <4> DEFINE kind == Kind(p, i)
                 at == offset + 27
      <4>1. kind \in 0 .. 10 /\ at \in Int /\ at + 85 <= Limit(p) /\ at + 85 = offset + 112
        BY <3>3, <3>7, PayloadBits
      <4> HIDE DEF kind, at
      <4>2. Runs(p, Sensor_1_26(kind, at), at, at + 85)
        BY <4>1, Sensor_1_26Runs
      <4> HIDE DEF offset
      <4> QED
        BY <4>1, <4>2 DEF kind, at
    <3> HIDE DEF pieces, offset, x, known, sensor, refused
    <3> DEFINE end == offset + 112
    <3>8. known => Runs(p, sensor, offset + 27, offset + 112)
      BY <3>7
    <3>9. /\ known => Runs(p, SeekTo(offset) \o SensorReport(offset, known, sensor, refused),
                           x, offset + 27)
          /\ ~ known => Gives(p, SeekTo(offset)
                                   \o SensorReport(offset, known, sensor, refused),
                              x, refused)
      BY <3>3, <3>5, <3>6, <3>8, ReportRuns
    <3>10. Kind(p, i) \in K <=> known
      BY DEF known
    <3> HIDE DEF to, K
    <3> QED
      BY <3>4, <3>5, <3>9, <3>10 DEF x
  <2>3. pieces = [i \in 1 .. count |-> pieces[i]]
    OBVIOUS
  <2>4. to \in [0 .. count -> Int] /\ to[0] = 56 /\ refused \in Errors
    BY SMTT(30), <2>1 DEF Errors
  <2> HIDE DEF pieces, count, to, refused, K
  <2>5. \E v \in Given : Gives(p, FlattenSeq(pieces) \o Ok, to[0], v)
    BY ZenonT(40), <2>1, <2>2, <2>3, <2>4, ReportsGive
  <2> QED
    BY <2>4, <2>5
<1>3. ok \in BOOLEAN /\ 56 \in Int
  OBVIOUS
<1> HIDE DEF calls, ok
<1>4. PICK v \in Given : ok => Gives(p, calls, 56, v)
  BY <1>2, Endings
<1> DEFINE dac == 1
           fi == 26
<1>5. Application(p) = << dac, fi >>
  OBVIOUS
<1>6. Ais8_1_26(p) = Applied(p, dac, fi, ok, calls)
  BY <1>1
<1> HIDE DEF dac, fi
<1>7. \E w \in Given : Gives(p, Applied(p, dac, fi, ok, calls), 56, w)
  BY <1>3, <1>4, <1>5, AppliedGives
<1> QED
  BY <1>6, <1>7

(* 8:367:33 (ais8_367.cpp): reports of any kinds, up to one without a      *)
(* layout.                                                                 *)
LEMMA Ais8_367_33Gives ==
  ASSUME NEW p, IsPayload(p), Application(p) = << 367, 33 >>, NumBits(p) \in 56 .. 1008
  PROVE  \E v \in Given : Gives(p, Ais8_367_33(p), 56, v)
<1> DEFINE n == NumBits(p)
           count == (n - 56) \div 112
           report(i) == SeekTo(56 + 112 * i) \o Report_367_33(Kind(p, i), 56 + 112 * i)
           pieces == [i \in 1 .. count |-> report(i - 1)]
           calls == FlattenSeq(pieces) \o Ok
           ok == n \in 168 .. 952 /\ (n - 56) % 112 = 0
           refused == "AIS_ERR_BAD_SUB_MSG"
           K == 0 .. 11
           to == [i \in 0 .. count |-> IF i = 0 THEN 56 ELSE 56 + 112 * (i - 1) + 27]
<1>1. Ais8_367_33(p) = Applied(p, 367, 33, ok, calls)
  BY DEF Ais8_367_33, Each
<1>2. ASSUME ok PROVE \E v \in Given : Gives(p, calls, 56, v)
  <2>1. n \in Int /\ n >= 56 /\ count \in Nat /\ 56 + 112 * count <= n
    BY <1>2, PayloadBits
  <2>2. ASSUME NEW i \in 0 .. count - 1
        PROVE  /\ Kind(p, i) \in K => Runs(p, pieces[i + 1], to[i], to[i + 1])
               /\ Kind(p, i) \notin K => Gives(p, pieces[i + 1], to[i], refused)
    <3> DEFINE offset == 56 + 112 * i
               x == to[i]
               known == Kind(p, i) \in K
               sensor == Sensor_367_33(Kind(p, i), offset + 27)
    <3>1. i + 1 \in 1 .. count /\ (i + 1) - 1 = i /\ i + 1 <= count /\ i \in Nat
      BY <2>1
    <3>2. 112 * i + 112 <= 112 * count
      BY <2>1, <3>1
    <3>3. offset \in Nat /\ offset + 112 <= n /\ offset + 27 \in Int
          /\ offset + 27 + 85 = offset + 112
      BY <2>1, <3>1, <3>2
    <3>4. pieces[i + 1] = SeekTo(offset) \o SensorReport(offset, known, sensor, refused)
      BY <3>1 DEF Report_367_33
    <3>5. x \in Int /\ to[i + 1] = offset + 27
      <4>1. i + 1 \in 0 .. count /\ i \in 0 .. count /\ i + 1 # 0
        BY <3>1
      <4>2. to[i + 1] = 56 + 112 * ((i + 1) - 1) + 27
        BY <4>1
      <4>3. to[i] = IF i = 0 THEN 56 ELSE 56 + 112 * (i - 1) + 27
        BY <4>1
      <4> HIDE DEF to
      <4> QED
        BY <3>1, <4>2, <4>3
    <3>6. known \in BOOLEAN /\ refused \in Errors
      BY DEF Errors
    <3>7. ASSUME known PROVE Runs(p, sensor, offset + 27, offset + 112)
      <4> DEFINE kind == Kind(p, i)
                 at == offset + 27
      <4>1. kind \in 0 .. 11 /\ at \in Int /\ at + 85 <= Limit(p) /\ at + 85 = offset + 112
        BY <3>3, <3>7, PayloadBits
      <4> HIDE DEF kind, at
      <4>2. Runs(p, Sensor_367_33(kind, at), at, at + 85)
        BY <4>1, Sensor_367_33Runs
      <4> HIDE DEF offset
      <4> QED
        BY <4>1, <4>2 DEF kind, at
    <3> HIDE DEF pieces, offset, x, known, sensor, refused
    <3> DEFINE end == offset + 112
    <3>8. known => Runs(p, sensor, offset + 27, offset + 112)
      BY <3>7
    <3>9. /\ known => Runs(p, SeekTo(offset) \o SensorReport(offset, known, sensor, refused),
                           x, offset + 27)
          /\ ~ known => Gives(p, SeekTo(offset)
                                   \o SensorReport(offset, known, sensor, refused),
                              x, refused)
      BY <3>3, <3>5, <3>6, <3>8, ReportRuns
    <3>10. Kind(p, i) \in K <=> known
      BY DEF known
    <3> HIDE DEF to, K
    <3> QED
      BY <3>4, <3>5, <3>9, <3>10 DEF x
  <2>3. pieces = [i \in 1 .. count |-> pieces[i]]
    OBVIOUS
  <2>4. to \in [0 .. count -> Int] /\ to[0] = 56 /\ refused \in Errors
    BY SMTT(30), <2>1 DEF Errors
  <2> HIDE DEF pieces, count, to, refused, K
  <2>5. \E v \in Given : Gives(p, FlattenSeq(pieces) \o Ok, to[0], v)
    BY ZenonT(40), <2>1, <2>2, <2>3, <2>4, ReportsGive
  <2> QED
    BY <2>4, <2>5
<1>3. ok \in BOOLEAN /\ 56 \in Int
  OBVIOUS
<1> HIDE DEF calls, ok
<1>4. PICK v \in Given : ok => Gives(p, calls, 56, v)
  BY <1>2, Endings
<1> DEFINE dac == 367
           fi == 33
<1>5. Application(p) = << dac, fi >>
  OBVIOUS
<1>6. Ais8_367_33(p) = Applied(p, dac, fi, ok, calls)
  BY <1>1
<1> HIDE DEF dac, fi
<1>7. \E w \in Given : Gives(p, Applied(p, dac, fi, ok, calls), 56, w)
  BY <1>3, <1>4, <1>5, AppliedGives
<1> QED
  BY <1>6, <1>7

-----------------------------------------------------------------------------
(* What is due to a payload, and what every message comes to.              *)

(* 8:366:22 is a constructor of an application. *)
LEMMA Ais8_366_22Calls ==
  ASSUME NEW p, IsMessage(p), p.fi = 22
  PROVE  \E ok \in BOOLEAN : \E calls :
           /\ Ais8_366_22(p) = Applied(p, 366, 22, ok, calls)
           /\ ok => calls \in Seq(Shape)
<1> DEFINE n == NumBits(p)
           count == (n - 111) \div 90
           area(i) == SubArea_366_22(p, Kind(p, i), 111 + 90 * i)
           pieces == [i \in 1 .. count |-> area(i - 1)]
           lead == << <<56, 10>>, <<66, 7>>, <<73, 4>>, <<77, 5>>, <<82, 5>>, <<87, 6>>,
                      <<93, 18>> >>
           calls == Reads(lead) \o FlattenSeq(pieces) \o NoneRemaining \o Ok
           ok == n \in 209 .. 1019
<1>1. Ais8_366_22(p) = Applied(p, 366, 22, ok, calls)
  BY DEF Ais8_366_22, Each
<1>2. IsPayload(p) /\ p.points \in 1 .. 4 /\ \A i \in Nat : Kind(p, i) \in 0 .. 7
  BY AreaKinds
<1>3. Reads(lead) \in Seq(Shape)
  <2>1. lead \in Seq(Int \X Int)
    OBVIOUS
  <2> HIDE DEF lead
  <2> QED
    BY <2>1, Shapes
<1>4. ASSUME ok PROVE FlattenSeq(pieces) \in Seq(Shape)
  <2>1. /\ n \in Int /\ n <= Limit(p) /\ Limit(p) \in Int
        /\ count \in Nat /\ count > 0 /\ n >= 111 + count * 90
    <3>1. n \in Int /\ n <= Limit(p) /\ Limit(p) \in Int /\ n >= 209
      BY <1>2, <1>4, PayloadBits
    <3> HIDE DEF n
    <3>2. count \in Nat /\ 90 * count <= n - 111 /\ n - 111 < 90 * count + 90
      BY <3>1
    <3> HIDE DEF count
    <3> QED
      BY <3>1, <3>2
  <2> DEFINE from == 112
             size == 90
  <2>2. ASSUME NEW i \in 0 .. count - 1
        PROVE  /\ pieces[i + 1] \in Seq(Shape)
               /\ Halts(p, pieces[i + 1], from + i * size, Undecided, "aborted")
    <3> DEFINE start == 111 + 90 * i
               x == from + i * size
    <3>1. pieces[i + 1] = SubArea_366_22(p, Kind(p, i), start)
      <4>1. i + 1 \in 1 .. count /\ (i + 1) - 1 = i
        BY <2>1
      <4> QED
        BY <4>1
    <3>2. start \in Int /\ start + 90 <= Limit(p) /\ x \in Int /\ x # start
          /\ Kind(p, i) \in 0 .. 7
      BY <1>2, <2>1
    <3>3. Undecided \in Statuses
      BY DEF Statuses
    <3> HIDE DEF pieces, count, start, x
    <3>4. Halts(p, SubArea_366_22(p, Kind(p, i), start), x, Undecided, "aborted")
      BY <1>2, <3>2, <3>3, Area_366_22
    <3> QED
      BY <3>1, <3>4 DEF Halts, x
  <2>3. pieces = [i \in 1 .. count |-> pieces[i]]
    OBVIOUS
  <2> DEFINE k == 0
             v == "aborted"
  <2>4. /\ from \in Int /\ size \in Int /\ k \in 0 .. count - 1
        /\ Gives(p, pieces[k + 1], from + k * size, v)
        /\ \A i \in 0 .. k - 1 : Runs(p, pieces[i + 1], from + i * size, from + i * size + size)
    <3>1. 0 \in 0 .. count - 1
      BY <2>1
    <3>2. Halts(p, pieces[0 + 1], from + 0 * size, Undecided, "aborted")
      BY <2>2, <3>1
    <3> HIDE DEF pieces, count
    <3> QED
      BY <3>1, <3>2 DEF Gives
  <2>5. \A i \in 0 .. count - 1 : pieces[i + 1] \in Seq(Shape)
    BY <2>2
  <2>6. count \in Nat
    BY <2>1
  <2> HIDE DEF pieces, count, from, size, k, v
  <2>7. Gives(p, FlattenSeq(pieces), from, v)
    BY <2>3, <2>4, <2>5, <2>6, EvenLoopLeft
  <2> QED
    BY <2>7 DEF Gives, Halts
<1>5. ok \in BOOLEAN
  OBVIOUS
<1> HIDE DEF lead, pieces
<1>6. ok => calls \in Seq(Shape)
  BY <1>3, <1>4, Shapes, Endings
<1> HIDE DEF calls, ok
<1> QED
  BY <1>1, <1>5, <1>6

(* The constructors of 366, with another application or none in the header *)
LEMMA NotIts366 ==
  ASSUME NEW p, IsMessage(p), Application(p) = << 0, 0 >>, NEW x \in Int, NEW u \in Statuses
  PROVE  /\ p.fi = 22 => Halts(p, Ais8_366_22(p), x, u, "aborted")
         /\ Halts(p, Ais8_366_56(p), x, u, "aborted")
<1> DEFINE dac == 366
           fi == 56
           v == IF NumBits(p) = 56 THEN "aborted" ELSE "AIS_OK"
<1>0. IsPayload(p)
  BY DEF IsMessage
<1>1. Application(p) # << dac, fi >>
  OBVIOUS
<1>2. PICK ok \in BOOLEAN : \E calls : Ais8_366_56(p) = Applied(p, dac, fi, ok, calls)
                                       /\ (ok => Gives(p, calls, 56, v))
  BY <1>0, Ais8_366_56Calls
<1>3. PICK calls : Ais8_366_56(p) = Applied(p, dac, fi, ok, calls)
                   /\ (ok => Gives(p, calls, 56, v))
  BY <1>2
<1> HIDE DEF dac, fi, v
<1>4. ok => calls \in Seq(Shape)
  BY <1>3 DEF Gives, Halts
<1>5. Halts(p, Ais8_366_56(p), x, u, "aborted")
  BY <1>1, <1>3, <1>4, NotApplied
<1> DEFINE dac2 == 366
           fi2 == 22
<1>6. ASSUME p.fi = 22 PROVE Halts(p, Ais8_366_22(p), x, u, "aborted")
  <2>1. Application(p) # << dac2, fi2 >>
    OBVIOUS
  <2>2. PICK ok2 \in BOOLEAN : \E calls2 : Ais8_366_22(p) = Applied(p, dac2, fi2, ok2, calls2)
                                           /\ (ok2 => calls2 \in Seq(Shape))
    BY <1>6, Ais8_366_22Calls
  <2>3. PICK calls2 : Ais8_366_22(p) = Applied(p, dac2, fi2, ok2, calls2)
                      /\ (ok2 => calls2 \in Seq(Shape))
    BY <2>2
  <2> HIDE DEF dac2, fi2
  <2> QED
    BY <2>1, <2>3, NotApplied
<1> QED
  BY <1>5, <1>6

(* What the invariants say of the end of a constructor. *)
Due(p, v) ==
  IF Unguarded(p) THEN v = "aborted"
  ELSE /\ v \in Statuses
       /\ v = Undecided <=> LeftOpen(p)
       /\ v = "AIS_OK" => HeaderRead(p)

(* The calls s end as they are due to. *)
Outlook(p, s, x, u) == \E v : Ends(p, s, x, u, v) /\ Due(p, v)

(* Errors, AIS_OK and AIS_UNINITIALIZED are three different things. *)
LEMMA StatusesDiffer ==
  /\ \A e \in Errors : e # "AIS_OK" /\ e # Undecided /\ Bad(e)
  /\ \A v \in Given : v # Undecided /\ v \in Statuses
  /\ "AIS_OK" \in Given /\ Errors \subseteq Given
  BY DEF Errors, Given, Undecided, Statuses, Bad

(* Without a header there are fewer than 38 bits, and nothing of Ais6 or   *)
(* Ais8.                                                                   *)
LEMMA NoHeader ==
  ASSUME NEW p, IsPayload(p), ~ HeaderRead(p)
  PROVE  /\ NumBits(p) \in Int /\ NumBits(p) < 38 /\ NumChars(p) \in 0 .. 7
         /\ ~ Ais6Read(p) /\ ~ Ais8Read(p)
  BY SMTT(30) DEF HeaderRead, NumBits, NumChars, Parses, IsPayload, MinMessageBits, Ais6Read, Ais8Read

(* A constructor reads the message_id first, if there is a header. *)
Opens(p, s) == HeaderRead(p) => s \in Seq(Shape) /\ s # << >> /\ s[1].op = "message_id"

(* It ends as it is due to, from the beginning. *)
Begins(p, s) == Outlook(p, s, 0, Undecided) /\ Opens(p, s)

(* What opens a constructor opens it with more calls behind it. *)
LEMMA OpensThen ==
  ASSUME NEW p, NEW s, Opens(p, s), NEW t \in Seq(Shape)
  PROVE  Opens(p, s \o t)
<1> SUFFICES ASSUME HeaderRead(p)
             PROVE  s \o t \in Seq(Shape) /\ s \o t # << >> /\ (s \o t)[1].op = "message_id"
  BY DEF Opens
<1>1. s \in Seq(Shape) /\ s # << >> /\ s[1].op = "message_id"
  BY DEF Opens
<1>2. Len(s) \in Nat /\ Len(s) > 0
  <2> DEFINE S == Shape
  <2>1. s \in Seq(S)
    BY <1>1
  <2> HIDE DEF S
  <2> QED
    BY <1>1, <2>1
<1>3. 1 \in 1 .. Len(s) /\ Len(s) + Len(t) # 0
  BY <1>1, <1>2, Joined
<1>4. s \o t \in Seq(Shape) /\ (s \o t)[1] = s[1] /\ Len(s \o t) # 0
  BY <1>1, <1>3, Joined
<1> QED
  BY <1>1, <1>4

(* AisMsg reads the message_id first, and with it Ais6 and Ais8. *)
LEMMA HeaderOpens ==
  ASSUME NEW p, IsPayload(p)
  PROVE  Opens(p, AisMsg(p)) /\ Opens(p, AisMsg(p) \o Ais6(p)) /\ Opens(p, AisMsg(p) \o Ais8(p))
<1>1. Opens(p, AisMsg(p))
  <2> SUFFICES ASSUME HeaderRead(p) PROVE Opens(p, AisMsg(p))
    BY DEF Opens
  <2> DEFINE c == Op("message_id", 0, 6)
             F == << <<6, 2>>, <<8, 30>> >>
  <2>1. AisMsg(p) = << c >> \o Reads(F)
    BY DEF AisMsg, HeaderRead, Parses
  <2>2. c \in Shape /\ c.op = "message_id"
    BY OpShape DEF OpKinds
  <2>3. F \in Seq(Int \X Int)
    OBVIOUS
  <2> HIDE DEF c, F
  <2>4. Opens(p, << c >>)
    <3> DEFINE S == Shape
    <3>1. c \in S /\ c.op = "message_id"
      BY <2>2
    <3> HIDE DEF S
    <3>2. << c >> \in Seq(S) /\ << c >> # << >> /\ << c >>[1] = c
      BY <3>1
    <3> QED
      BY <3>1, <3>2 DEF Opens, S
  <2>5. Reads(F) \in Seq(Shape)
    BY <2>3, Shapes
  <2> QED
    BY <2>1, <2>4, <2>5, OpensThen
<1> DEFINE e == "AIS_ERR_BAD_BIT_COUNT"
<1>2. SetStatus(e) \in Seq(Shape)
  <2>1. e \in Errors /\ 0 \in Int
    BY DEF Errors
  <2> QED
    BY <2>1, SetStatusLeads DEF Leads
<1>3. << >> \in Seq(Shape) /\ \A ids \in SUBSET Nat : IdIn(ids) \in Seq(Shape)
  <2> DEFINE S == Shape
  <2> HIDE DEF S
  <2>1. << >> \in Seq(S) /\ \A c \in S : << c >> \in Seq(S)
    OBVIOUS
  <2> QED
    BY <2>1, IdShape DEF S
<1>4. Ais6(p) \in Seq(Shape)
  <2> DEFINE F == << <<38, 2>>, <<40, 30>>, <<70, 1>>, <<71, 1>>, <<72, 10>>, <<82, 6>> >>
  <2>1. F \in Seq(Int \X Int) /\ {6} \in SUBSET Nat /\ 38 \in Int
    OBVIOUS
  <2>2. \/ Ais6(p) = IdIn({6}) \o SeekTo(38) \o Reads(F)
        \/ Ais6(p) = SetStatus(e)
        \/ Ais6(p) = << >>
    <3>1. CASE Ais6Read(p)
      BY <3>1 DEF Ais6, Id
    <3>2. CASE HeaderRead(p) /\ ~ Ais6Read(p)
      BY <3>2 DEF Ais6
    <3>3. CASE ~ HeaderRead(p)
      BY <3>3 DEF Ais6, Ais6Read
    <3> QED
      BY <3>1, <3>2, <3>3
  <2> HIDE DEF F, e
  <2>3. IdIn({6}) \o SeekTo(38) \o Reads(F) \in Seq(Shape)
    BY <1>3, <2>1, Shapes
  <2> QED
    BY <1>2, <1>3, <2>2, <2>3
<1>5. Ais8(p) \in Seq(Shape)
  <2> DEFINE F == << <<38, 2>>, <<40, 10>>, <<50, 6>> >>
  <2>1. F \in Seq(Int \X Int) /\ {8} \in SUBSET Nat /\ 38 \in Int
    OBVIOUS
  <2>2. \/ Ais8(p) = IdIn({8}) \o SeekTo(38) \o Reads(F)
        \/ Ais8(p) = SetStatus(e)
        \/ Ais8(p) = << >>
    <3>1. CASE Ais8Read(p)
      BY <3>1 DEF Ais8, Id
    <3>2. CASE HeaderRead(p) /\ ~ Ais8Read(p)
      BY <3>2 DEF Ais8
    <3>3. CASE ~ HeaderRead(p)
      BY <3>3 DEF Ais8, Ais8Read
    <3> QED
      BY <3>1, <3>2, <3>3
  <2> HIDE DEF F, e
  <2>3. IdIn({8}) \o SeekTo(38) \o Reads(F) \in Seq(Shape)
    BY <1>3, <2>1, Shapes
  <2> QED
    BY <1>2, <1>3, <2>2, <2>3
<1> QED
  BY <1>1, <1>4, <1>5, OpensThen

(* if (!CheckStatus()) return; *)
LEMMA Refuses ==
  ASSUME NEW p, NEW x \in Int, NEW e \in Errors, NEW t \in Seq(Shape)
  PROVE  Halts(p, CheckStatus \o t, x, e, e)
<1> DEFINE c == Op("check_status", 0, 0)
<1>1. c \in Shape /\ c.op = "check_status"
  BY OpShape DEF OpKinds
<1>2. CheckStatus = << c >>
  BY DEF CheckStatus
<1>3. Bad(e) /\ e \in Statuses
  BY StatusesDiffer
<1> HIDE DEF c
<1>4. Stops(p, c, x, e, e)
  BY <1>1, <1>3 DEF Stops
<1>5. Halts(p, << c >>, x, e, e)
  BY <1>1, <1>3, <1>4, OneHalts
<1> QED
  BY <1>2, <1>5, HaltsThen

(* Without a header no length is accepted. *)
LEMMA NoLengthAccepted ==
  ASSUME NEW p, IsPayload(p), ~ HeaderRead(p), p.message_id \in 1 .. 27 \ {6, 8, 21}
  PROVE  Constructor(p) = CheckStatus \o BadBitCount
<1> DEFINE t == CheckStatus \o BadBitCount
<1>1. ~ Sized(p, 28, 0)
  BY NoHeader DEF Sized
<1>2. Ais1_2_3(p) = t
  BY <1>1 DEF Ais1_2_3, Guarded
<1>3. Ais4_11(p) = t
  BY <1>1 DEF Ais4_11, Guarded
<1>4. Ais9(p) = t
  BY <1>1 DEF Ais9, Guarded
<1>5. Ais18(p) = t
  BY <1>1 DEF Ais18, Guarded
<1>6. Ais22(p) = t
  BY <1>1 DEF Ais22, Guarded
<1>7. ~ Sized(p, 71, 2)
  BY NoHeader DEF Sized
<1>8. Ais5(p) = t
  BY <1>7 DEF Ais5, Guarded
<1>9. ~ Sized(p, 12, 0)
  BY NoHeader DEF Sized
<1>10. Ais10(p) = t
  BY <1>9 DEF Ais10, Guarded
<1>11. ~ Sized(p, 52, 0)
  BY NoHeader DEF Sized
<1>12. Ais19(p) = t
  BY <1>11 DEF Ais19, Guarded
<1>13. ~ Sized(p, 27, 2)
  BY NoHeader DEF Sized
<1>14. Ais23(p) = t
  BY <1>13 DEF Ais23, Guarded
<1>15. NumChars(p) \notin {15, 18, 27}
  BY NoHeader
<1>16. Ais15(p) = t
  BY <1>15 DEF Ais15, Guarded
<1>17. ~ (NumBits(p) \in 72 .. 168 /\ (NumBits(p) - 40) % 32 = 0)
  BY NoHeader
<1>18. Ais7_13(p) = t
  BY <1>17 DEF Ais7_13, Guarded
<1>19. NumBits(p) \notin 72 .. 1192
  BY NoHeader
<1>20. Ais12(p) = t
  BY ZenonT(40), <1>19 DEF Ais12, Guarded
<1>21. NumBits(p) \notin 46 .. 1008
  BY NoHeader
<1>22. Ais14(p) = t
  BY <1>21 DEF Ais14, Guarded
<1>23. NumBits(p) \notin {96, 144, 168}
  BY NoHeader
<1>24. Ais16(p) = t
  BY <1>23 DEF Ais16, Guarded
<1>25. NumBits(p) \notin {160, 168}
  BY NoHeader
<1>26. Ais24(p) = t
  BY <1>25 DEF Ais24, Guarded
<1>27. ~ (NumBits(p) = 80 \/ NumBits(p) \in 120 .. 816)
  BY NoHeader
<1>28. Ais17(p) = t
  BY <1>27 DEF Ais17, Guarded
<1>29. NumBits(p) \notin 72 .. 160
  BY NoHeader
<1>30. Ais20(p) = t
  BY <1>29 DEF Ais20, Guarded
<1>31. NumBits(p) \notin 40 .. 168
  BY NoHeader
<1>32. Ais25(p) = t
  BY <1>31 DEF Ais25, Guarded
<1>33. NumBits(p) \notin 52 .. 1064
  BY NoHeader
<1>34. Ais26(p) = t
  BY ZenonT(40), <1>33 DEF Ais26, Guarded
<1>35. ~ (p.pad = 0 /\ NumBits(p) = 96)
  BY NoHeader
<1>36. Ais27(p) = t
  BY <1>35 DEF Ais27, Guarded
<1> HIDE DEF t
<1>37. Constructor(p) = t
  BY <1>2, <1>3, <1>4, <1>5, <1>6, <1>8, <1>10, <1>12, <1>14, <1>16, <1>18, <1>20, <1>22,
     <1>24, <1>26, <1>28, <1>30, <1>32, <1>34, <1>36 DEF Constructor
<1> QED
  BY <1>37 DEF t

(* Every constructor but those of 6, 8 and 17 settles the status. *)
LEMMA ConstructorSettles ==
  ASSUME NEW p, IsMessage(p), HeaderRead(p), p.message_id \in 1 .. 27 \ {6, 8, 17}
  PROVE  Settles(p, Constructor(p), 38)
<1>0. IsPayload(p) /\ p.part_num \in 0 .. 3 /\ p.addressed \in BOOLEAN /\ p.use_app_id \in BOOLEAN
  BY DEF IsMessage
<1>1. p.message_id \notin {15, 20, 21, 25, 26} => ~ Unguarded(p)
  BY DEF Unguarded
<1>2. CASE p.message_id \in {1, 2, 3}
  BY <1>0, <1>1, <1>2, Ais1_2_3Gives DEF Constructor, Settles
<1>3. CASE p.message_id \in {4, 11}
  BY <1>0, <1>1, <1>3, Ais4_11Gives DEF Constructor, Settles
<1>5. CASE p.message_id = 5
  BY <1>0, <1>1, <1>5, Ais5Gives DEF Constructor, Settles
<1>7. CASE p.message_id \in {7, 13}
  BY <1>0, <1>1, <1>7, Ais7_13Gives DEF Constructor, Settles
<1>9. CASE p.message_id = 9
  BY <1>0, <1>1, <1>9, Ais9Gives DEF Constructor, Settles
<1>10. CASE p.message_id = 10
  BY <1>0, <1>1, <1>10, Ais10Gives DEF Constructor, Settles
<1>12. CASE p.message_id = 12
  BY <1>0, <1>1, <1>12, Ais12Gives DEF Constructor, Settles
<1>14. CASE p.message_id = 14
  BY <1>0, <1>1, <1>14, Ais14Gives DEF Constructor, Settles
<1>15. CASE p.message_id = 15
  BY <1>0, <1>15, Ais15Settles DEF Constructor
<1>16. CASE p.message_id = 16
  BY <1>0, <1>1, <1>16, Ais16Gives DEF Constructor, Settles
<1>18. CASE p.message_id = 18
  BY <1>0, <1>1, <1>18, Ais18Gives DEF Constructor, Settles
<1>19. CASE p.message_id = 19
  BY <1>0, <1>1, <1>19, Ais19Gives DEF Constructor, Settles
<1>20. CASE p.message_id = 20
  BY <1>0, <1>20, Ais20Settles DEF Constructor
<1>21. CASE p.message_id = 21
  <2>1. ~ Unguarded(p)
    BY <1>21 DEF Unguarded
  <2> QED
    BY <1>0, <1>21, <2>1, Ais21Gives DEF Constructor, Settles
<1>22. CASE p.message_id = 22
  BY <1>0, <1>1, <1>22, Ais22Gives DEF Constructor, Settles
<1>23. CASE p.message_id = 23
  BY <1>0, <1>1, <1>23, Ais23Gives DEF Constructor, Settles
<1>24. CASE p.message_id = 24
  BY <1>0, <1>1, <1>24, Ais24Gives DEF Constructor, Settles
<1>25. CASE p.message_id = 25
  BY <1>0, <1>25, Ais25Settles DEF Constructor
<1>26. CASE p.message_id = 26
  BY <1>0, <1>26, Ais26Settles DEF Constructor
<1>27. CASE p.message_id = 27
  BY <1>0, <1>1, <1>27, Ais27Gives DEF Constructor, Settles
<1> QED
  BY <1>2, <1>3, <1>5, <1>7, <1>9, <1>10, <1>12, <1>14, <1>15, <1>16, <1>18, <1>19,
     <1>20, <1>21, <1>22, <1>23, <1>24, <1>25, <1>26, <1>27

(* A sequence after the header that settles the status. *)
LEMMA SettlesDue ==
  ASSUME NEW p, NEW s, NEW t, NEW x, Runs(p, s, 0, x), Settles(p, t, x), HeaderRead(p),
         ~ LeftOpen(p), Opens(p, s)
  PROVE  Begins(p, s \o t)
<1>1. Settles(p, s \o t, 0)
  BY SettlesAfter
<1>2. PICK v : Gives(p, s \o t, 0, v) /\ IF Unguarded(p) THEN v = "aborted" ELSE v \in Given
  BY <1>1 DEF Settles
<1>3. Due(p, v)
  BY <1>2, StatusesDiffer DEF Due
<1>4. Opens(p, s \o t)
  BY SettlesShape, OpensThen
<1> QED
  BY <1>2, <1>3, <1>4 DEF Begins, Outlook, Ends, Gives

(* One that leaves it open. *)
LEMMA OpenDue ==
  ASSUME NEW p, NEW s, NEW y, Runs(p, s, 0, y), LeftOpen(p), ~ Unguarded(p),
         Opens(p, s)
  PROVE  Begins(p, s)
<1>1. Due(p, Undecided)
  BY DEF Due, Statuses, Undecided
<1>2. Ends(p, s, 0, Undecided, Undecided)
  BY RunsTyped DEF Ends, Runs
<1> QED
  BY <1>1, <1>2 DEF Begins, Outlook

(* One that ends with an error. *)
LEMMA ErrorDue ==
  ASSUME NEW p, NEW s, NEW e \in Errors, Ends(p, s, 0, Undecided, e), ~ LeftOpen(p),
         ~ Unguarded(p), Opens(p, s)
  PROVE  Begins(p, s)
<1>1. Due(p, e)
  BY StatusesDiffer DEF Due
<1> QED
  BY <1>1 DEF Begins, Outlook

(* The messages that are not dispatched by their application. *)
LEMMA MessageDue ==
  ASSUME NEW p, IsMessage(p), p.message_id \in 1 .. 27 \ {6, 8}
  PROVE  Begins(p, AisMsg(p) \o Constructor(p))
<1>1. IsPayload(p)
  BY DEF IsMessage
<1>0. Opens(p, AisMsg(p))
  BY <1>1, HeaderOpens
<1>2. CASE HeaderRead(p)
  <2>1. Runs(p, AisMsg(p), 0, 38)
    BY <1>1, <1>2, HeaderRuns
  <2>2. CASE p.message_id # 17
    <3>1. ~ LeftOpen(p)
      BY <2>2 DEF LeftOpen
    <3>2. Settles(p, Constructor(p), 38)
      BY <1>2, <2>2, ConstructorSettles
    <3> QED
      BY <1>0, <1>2, <2>1, <3>1, <3>2, SettlesDue
  <2>3. CASE p.message_id = 17
    <3>1. ~ Unguarded(p)
      BY <2>3 DEF Unguarded
    <3>2. Constructor(p) = Ais17(p)
      BY <2>3 DEF Constructor
    <3>3. LeftOpen(p) <=> NumBits(p) = 80
      BY <2>3 DEF LeftOpen
    <3>4. CASE NumBits(p) = 80
      <4>1. Runs(p, Ais17(p), 38, 80)
        BY <1>1, <1>2, <2>3, <3>4, Ais17Runs
      <4>2. Runs(p, AisMsg(p) \o Ais17(p), 0, 80)
        BY <2>1, <4>1, RunsThen
      <4>3. Opens(p, AisMsg(p) \o Ais17(p))
        BY <1>0, <4>1, RunsTyped, OpensThen
      <4> QED
        BY <3>1, <3>2, <3>3, <3>4, <4>2, <4>3, OpenDue
    <3>5. CASE NumBits(p) # 80
      <4>1. \E v \in Given : Gives(p, Ais17(p), 38, v)
        BY <1>1, <1>2, <2>3, <3>5, Ais17Runs
      <4>2. Settles(p, Ais17(p), 38)
        BY <3>1, <4>1 DEF Settles
      <4> QED
        BY <1>0, <1>2, <2>1, <3>2, <3>3, <3>5, <4>2, SettlesDue
    <3> QED
      BY <3>4, <3>5
  <2> QED
    BY <2>2, <2>3
<1>3. CASE ~ HeaderRead(p)
  <2>1. PICK e \in Errors : Leads(p, AisMsg(p), 0, Undecided, 0, e)
    BY <1>1, <1>3, HeaderRefused
  <2>2. ~ LeftOpen(p)
    BY <1>1, <1>3, NoHeader DEF LeftOpen
  <2>3. CASE p.message_id # 21
    <3>1. Constructor(p) = CheckStatus \o BadBitCount
      BY <1>1, <1>3, <2>3, NoLengthAccepted
    <3>2. Halts(p, CheckStatus \o BadBitCount, 0, e, e)
      BY Endings, Refuses
    <3>3. Halts(p, AisMsg(p) \o Constructor(p), 0, Undecided, e)
      BY <2>1, <3>1, <3>2, LeadsThenHalts
    <3>4. ~ Unguarded(p)
      BY <1>3, <2>3 DEF Unguarded
    <3> QED
      BY <1>3, <2>2, <3>3, <3>4, ErrorDue DEF Ends, Opens
  <2>4. CASE p.message_id = 21
    <3>1. Constructor(p) = Ais21(p)
      BY <2>4 DEF Constructor
    <3>2. Halts(p, AisMsg(p) \o Ais21(p), 0, Undecided, "aborted")
      BY <1>1, <1>3, Ais21WithoutHeader
    <3>3. Due(p, "aborted")
      BY <1>3, <2>4 DEF Due, Unguarded
    <3> QED
      BY <1>3, <3>1, <3>2, <3>3 DEF Begins, Opens, Outlook, Ends
  <2> QED
    BY <2>3, <2>4
<1> QED
  BY <1>2, <1>3

(* A message 6 without what Ais6 reads. *)
LEMMA Ais6Refused ==
  ASSUME NEW p, IsPayload(p), ~ Ais6Read(p)
  PROVE  \E e \in Errors, y \in Int : Leads(p, AisMsg(p) \o Ais6(p), 0, Undecided, y, e)
<1>1. CASE HeaderRead(p)
  <2> DEFINE e == "AIS_ERR_BAD_BIT_COUNT"
  <2>1. Ais6(p) = SetStatus(e)
    BY <1>1 DEF Ais6
  <2>2. e \in Errors
    BY DEF Errors
  <2> HIDE DEF e
  <2>3. Leads(p, AisMsg(p), 0, Undecided, 38, Undecided)
    BY <1>1, HeaderRuns DEF Runs
  <2>4. Leads(p, Ais6(p), 38, Undecided, 38, e)
    BY <2>1, <2>2, SetStatusLeads
  <2> QED
    BY <2>2, <2>3, <2>4, LeadsThenLeads
<1>2. CASE ~ HeaderRead(p)
  <2>1. PICK e \in Errors : Leads(p, AisMsg(p), 0, Undecided, 0, e)
    BY <1>2, HeaderRefused
  <2>2. e \in Statuses
    BY StatusesDiffer
  <2>3. Ais6(p) = << >>
    BY <1>2 DEF Ais6
  <2>4. << >> \in Seq(Shape) /\ Len(<< >>) = 0
    OBVIOUS
  <2>5. Leads(p, Ais6(p), 0, e, 0, e)
    BY <2>2, <2>3, <2>4, ReachNone DEF Leads
  <2> QED
    BY <2>1, <2>5, LeadsThenLeads
<1> QED
  BY <1>1, <1>2

(* A message 8 without what Ais8 reads. *)
LEMMA Ais8Refused ==
  ASSUME NEW p, IsPayload(p), ~ Ais8Read(p)
  PROVE  \E e \in Errors, y \in Int : Leads(p, AisMsg(p) \o Ais8(p), 0, Undecided, y, e)
<1>1. CASE HeaderRead(p)
  <2> DEFINE e == "AIS_ERR_BAD_BIT_COUNT"
  <2>1. Ais8(p) = SetStatus(e)
    BY <1>1 DEF Ais8
  <2>2. e \in Errors
    BY DEF Errors
  <2> HIDE DEF e
  <2>3. Leads(p, AisMsg(p), 0, Undecided, 38, Undecided)
    BY <1>1, HeaderRuns DEF Runs
  <2>4. Leads(p, Ais8(p), 38, Undecided, 38, e)
    BY <2>1, <2>2, SetStatusLeads
  <2> QED
    BY <2>2, <2>3, <2>4, LeadsThenLeads
<1>2. CASE ~ HeaderRead(p)
  <2>1. PICK e \in Errors : Leads(p, AisMsg(p), 0, Undecided, 0, e)
    BY <1>2, HeaderRefused
  <2>2. e \in Statuses
    BY StatusesDiffer
  <2>3. Ais8(p) = << >>
    BY <1>2 DEF Ais8
  <2>4. << >> \in Seq(Shape) /\ Len(<< >>) = 0
    OBVIOUS
  <2>5. Leads(p, Ais8(p), 0, e, 0, e)
    BY <2>2, <2>3, <2>4, ReachNone DEF Leads
  <2> QED
    BY <2>1, <2>5, LeadsThenLeads
<1> QED
  BY <1>1, <1>2

(* Only its own application is that of a message. *)
LEMMA ConstructsOnly ==
  ASSUME NEW p, NEW dac, NEW fi
  PROVE  /\ Constructs(p, dac, fi) => p.dac = dac /\ p.fi = fi /\ Constructs(p, p.dac, p.fi)
         /\ p.dac = dac /\ p.fi = fi /\ Constructs(p, p.dac, p.fi) => Constructs(p, dac, fi)
  BY DEF Constructs

(* No dispatcher constructs 0:0. *)
LEMMA NoApplication ==
  /\ << 0, 0 >> \notin CppApplications6 /\ << 0, 0 >> \notin PyApplications6
  /\ << 0, 0 >> \notin CppApplications8 /\ << 0, 0 >> \notin PyApplications8
<1>1. << 0, 0 >> \notin CppApplications6 /\ << 0, 0 >> \notin PyApplications6
  BY DEF CppApplications6, PyApplications6
<1>2. << 0, 0 >> \notin Imo8 /\ << 0, 0 >> \notin Uscg8
  BY DEF Imo8, Uscg8
<1>3. << 0, 0 >> \notin CppApplications8 /\ << 0, 0 >> \notin PyApplications8
  BY <1>2 DEF CppApplications8, PyApplications8
<1> QED
  BY <1>1, <1>3

(* A message 6 that Ais6 does not accept. *)
LEMMA Message6Refused ==
  ASSUME NEW p, IsMessage(p), p.message_id = 6, ~ Ais6Read(p)
  PROVE  Begins(p, ConstructorCalls(p))
<1>1. IsPayload(p) /\ p.caller \in {"cpp", "py", "direct"}
      /\ (p.caller = "direct" => p.dac = 0 /\ p.fi = 0)
  BY DEF IsMessage
<1>2. PICK e \in Errors, y \in Int : Leads(p, AisMsg(p) \o Ais6(p), 0, Undecided, y, e)
  BY <1>1, Ais6Refused
<1>3. Application(p) = << 0, 0 >>
  BY DEF Application
<1>4. ~ LeftOpen(p)
  BY DEF LeftOpen
<1>0. Opens(p, AisMsg(p) \o Ais6(p))
  BY <1>1, HeaderOpens
<1>5. ~ Unguarded(p)
  <2>1. ASSUME NEW fi, Constructs(p, 1, fi) PROVE FALSE
    <3>1. p.dac = 1
      BY <2>1, ConstructsOnly
    <3>2. p.caller # "direct"
      BY <1>1, <3>1
    <3> QED
      BY <1>1, <1>3, <2>1, <3>2, NoApplication DEF Constructs
  <2> QED
    BY <2>1 DEF Unguarded, Unguarded6
<1>6. CASE p.caller # "direct"
  <2>1. ConstructorCalls(p) = AisMsg(p) \o Ais6(p)
    BY <1>1, <1>3, <1>6, NoApplication DEF ConstructorCalls, CreateAisMsg6, ais6_to_pydict
  <2> QED
    BY <1>0, <1>2, <1>4, <1>5, <2>1, ErrorDue DEF Ends
<1>7. CASE p.caller = "direct"
  <2>1. ConstructorCalls(p) = AisMsg(p) \o Ais6(p) \o Ais6_0_0(p)
    <3>1. ConstructorCalls(p) = Construct6(p, 0, 0)
      BY <1>1, <1>7 DEF ConstructorCalls
    <3>2. Construct6(p, 0, 0) = AisMsg(p) \o Ais6(p) \o Ais6_0_0(p)
      BY DEF Construct6
    <3> QED
      BY <3>1, <3>2
  <2>2. NumBits(p) # 136
    <3>1. CASE HeaderRead(p)
      BY <3>1 DEF Ais6Read
    <3>2. CASE ~ HeaderRead(p)
      BY <1>1, <3>2, NoHeader
    <3> QED
      BY <3>1, <3>2
  <2>3. Ais6_0_0(p) = << >> \o (CheckStatus \o BadBitCount)
    BY <1>3, <2>2 DEF Ais6_0_0, Applied, ApplicationIs, AssertThat, Guarded
  <2>4. Halts(p, CheckStatus \o BadBitCount, y, e, e)
    BY Endings, Refuses
  <2>5. << >> \o (CheckStatus \o BadBitCount) = CheckStatus \o BadBitCount
    BY <2>4, NothingBefore DEF Halts
  <2>6. Halts(p, AisMsg(p) \o Ais6(p) \o Ais6_0_0(p), 0, Undecided, e)
    BY <1>2, <2>3, <2>4, <2>5, LeadsThenHalts
  <2>7. Opens(p, AisMsg(p) \o Ais6(p) \o Ais6_0_0(p))
    BY <1>0, <2>3, <2>4, <2>5, OpensThen DEF Halts
  <2> QED
    BY <1>4, <1>5, <2>1, <2>6, <2>7, ErrorDue DEF Ends
<1> QED
  BY <1>6, <1>7

(* The application of a message 6 that is constructed. *)
LEMMA Applications6 ==
  ASSUME NEW p, IsMessage(p), p.message_id = 6, Constructs(p, p.dac, p.fi), Ais6Read(p)
  PROVE  /\ ConstructorCalls(p) = Construct6(p, p.dac, p.fi)
         /\ \/ p.dac = 0 /\ p.fi = 0
            \/ p.dac = 1 /\ p.fi \in {0, 1, 2, 3, 4, 5, 12, 14, 18, 20, 25, 32, 40}
<1>1. Application(p) = << p.dac, p.fi >>
  BY DEF Application
<1>2. p.caller \in {"cpp", "py", "direct"} /\ (p.caller = "direct" => p.dac = 0 /\ p.fi = 0)
  BY DEF IsMessage
<1>3. CASE p.caller = "cpp"
  <2>1. << p.dac, p.fi >> \in CppApplications6
    BY <1>1, <1>3 DEF Constructs
  <2>2. p.dac = 1 /\ p.fi \in {0, 1, 2, 3, 4, 12, 14, 18, 20, 25, 32, 40}
    BY <2>1 DEF CppApplications6
  <2> QED
    BY <1>1, <1>3, <2>1, <2>2 DEF ConstructorCalls, CreateAisMsg6
<1>4. CASE p.caller = "py"
  <2>1. << p.dac, p.fi >> \in PyApplications6
    BY <1>1, <1>4 DEF Constructs
  <2>2. p.dac = 1 /\ p.fi \in {0, 1, 2, 3, 4, 5, 12, 14, 18, 20, 25, 32, 40}
    BY <2>1 DEF PyApplications6
  <2> QED
    BY <1>1, <1>4, <2>1, <2>2 DEF ConstructorCalls, ais6_to_pydict
<1>5. CASE p.caller = "direct"
  BY <1>2, <1>5 DEF ConstructorCalls
<1> QED
  BY <1>2, <1>3, <1>4, <1>5

(* The constructor of a message 6 settles the status. *)
LEMMA Message6Settles ==
  ASSUME NEW p, IsMessage(p), p.message_id = 6, Constructs(p, p.dac, p.fi), Ais6Read(p)
  PROVE  \E t : Construct6(p, p.dac, p.fi) = AisMsg(p) \o Ais6(p) \o t /\ Settles(p, t, 88)
<1> DEFINE c25 == /\ NumBits(p) \in 100 .. 576 /\ (NumBits(p) - 100) % 17 = 0
                  /\ Kinds(p, 100, 17) \cap ({0} \cup 6 .. 15) # {}
           c32 == NumBits(p) = 350
           head == AisMsg(p) \o Ais6(p)
<1>1. IsPayload(p)
  BY DEF IsMessage
<1>2. Application(p) = << p.dac, p.fi >>
  BY DEF Application
<1>3. Unguarded(p) <=> \/ Constructs(p, 1, 25) /\ c25
                       \/ Constructs(p, 1, 32) /\ c32
  BY DEF Unguarded, Unguarded6
<1>4. /\ Constructs(p, 1, 25) <=> p.dac = 1 /\ p.fi = 25
      /\ Constructs(p, 1, 32) <=> p.dac = 1 /\ p.fi = 32
  BY ConstructsOnly
<1>5. (Unguarded(p) <=> c25) => (Unguarded(p) <=> /\ NumBits(p) \in 100 .. 576
                                                  /\ (NumBits(p) - 100) % 17 = 0
                                                  /\ Kinds(p, 100, 17)
                                                       \cap ({0} \cup 6 .. 15) # {})
  OBVIOUS
<1>6. (Unguarded(p) <=> c32) => (Unguarded(p) <=> NumBits(p) = 350)
  OBVIOUS
<1> HIDE DEF c25, c32
<1>7. CASE p.dac = 0 /\ p.fi = 0
  <2>1. Construct6(p, 0, 0) = head \o Ais6_0_0(p)
    BY DEF Construct6
  <2>2. ~ Unguarded(p)
    BY <1>3, <1>4, <1>7
  <2>3. \E v \in Given : Gives(p, Ais6_0_0(p), 88, v)
    BY <1>1, <1>2, <1>7, Ais6_0_0Gives
  <2>4. Settles(p, Ais6_0_0(p), 88)
    BY <2>2, <2>3 DEF Settles
  <2> HIDE DEF head
  <2>5. Construct6(p, p.dac, p.fi) = head \o Ais6_0_0(p)
    BY <1>7, <2>1
  <2> QED
    BY <2>4, <2>5 DEF head
<1>8. CASE p.dac = 1 /\ p.fi = 0
  <2>1. Construct6(p, 1, 0) = head \o Ais6_1_0(p)
    BY DEF Construct6
  <2>2. ~ Unguarded(p)
    BY <1>3, <1>4, <1>8
  <2>3. \E v \in Given : Gives(p, Ais6_1_0(p), 88, v)
    BY <1>1, <1>2, <1>8, Ais6_1_0Gives
  <2>4. Settles(p, Ais6_1_0(p), 88)
    BY <2>2, <2>3 DEF Settles
  <2> HIDE DEF head
  <2>5. Construct6(p, p.dac, p.fi) = head \o Ais6_1_0(p)
    BY <1>8, <2>1
  <2> QED
    BY <2>4, <2>5 DEF head
<1>9. CASE p.dac = 1 /\ p.fi = 1
  <2>1. Construct6(p, 1, 1) = head \o Ais6_1_1(p)
    BY DEF Construct6
  <2>2. ~ Unguarded(p)
    BY <1>3, <1>4, <1>9
  <2>3. \E v \in Given : Gives(p, Ais6_1_1(p), 88, v)
    BY <1>1, <1>2, <1>9, Ais6_1_1Gives
  <2>4. Settles(p, Ais6_1_1(p), 88)
    BY <2>2, <2>3 DEF Settles
  <2> HIDE DEF head
  <2>5. Construct6(p, p.dac, p.fi) = head \o Ais6_1_1(p)
    BY <1>9, <2>1
  <2> QED
    BY <2>4, <2>5 DEF head
<1>10. CASE p.dac = 1 /\ p.fi = 2
  <2>1. Construct6(p, 1, 2) = head \o Ais6_1_2(p)
    BY DEF Construct6
  <2>2. ~ Unguarded(p)
    BY <1>3, <1>4, <1>10
  <2>3. \E v \in Given : Gives(p, Ais6_1_2(p), 88, v)
    BY <1>1, <1>2, <1>10, Ais6_1_2Gives
  <2>4. Settles(p, Ais6_1_2(p), 88)
    BY <2>2, <2>3 DEF Settles
  <2> HIDE DEF head
  <2>5. Construct6(p, p.dac, p.fi) = head \o Ais6_1_2(p)
    BY <1>10, <2>1
  <2> QED
    BY <2>4, <2>5 DEF head
<1>11. CASE p.dac = 1 /\ p.fi = 3
  <2>1. Construct6(p, 1, 3) = head \o Ais6_1_3(p)
    BY DEF Construct6
  <2>2. ~ Unguarded(p)
    BY <1>3, <1>4, <1>11
  <2>3. \E v \in Given : Gives(p, Ais6_1_3(p), 88, v)
    BY <1>1, <1>2, <1>11, Ais6_1_3Gives
  <2>4. Settles(p, Ais6_1_3(p), 88)
    BY <2>2, <2>3 DEF Settles
  <2> HIDE DEF head
  <2>5. Construct6(p, p.dac, p.fi) = head \o Ais6_1_3(p)
    BY <1>11, <2>1
  <2> QED
    BY <2>4, <2>5 DEF head
<1>12. CASE p.dac = 1 /\ p.fi = 4
  <2>1. Construct6(p, 1, 4) = head \o Ais6_1_4(p)
    BY DEF Construct6
  <2>2. ~ Unguarded(p)
    BY <1>3, <1>4, <1>12
  <2>3. \E v \in Given : Gives(p, Ais6_1_4(p), 88, v)
    BY <1>1, <1>2, <1>12, Ais6_1_4Gives
  <2>4. Settles(p, Ais6_1_4(p), 88)
    BY <2>2, <2>3 DEF Settles
  <2> HIDE DEF head
  <2>5. Construct6(p, p.dac, p.fi) = head \o Ais6_1_4(p)
    BY <1>12, <2>1
  <2> QED
    BY <2>4, <2>5 DEF head
<1>13. CASE p.dac = 1 /\ p.fi = 5
  <2>1. Construct6(p, 1, 5) = head \o Ais6_1_5(p)
    BY DEF Construct6
  <2>2. ~ Unguarded(p)
    BY <1>3, <1>4, <1>13
  <2>3. \E v \in Given : Gives(p, Ais6_1_5(p), 88, v)
    BY <1>1, <1>2, <1>13, Ais6_1_5Gives
  <2>4. Settles(p, Ais6_1_5(p), 88)
    BY <2>2, <2>3 DEF Settles
  <2> HIDE DEF head
  <2>5. Construct6(p, p.dac, p.fi) = head \o Ais6_1_5(p)
    BY <1>13, <2>1
  <2> QED
    BY <2>4, <2>5 DEF head
<1>14. CASE p.dac = 1 /\ p.fi = 12
  <2>1. Construct6(p, 1, 12) = head \o Ais6_1_12(p)
    BY DEF Construct6
  <2>2. ~ Unguarded(p)
    BY <1>3, <1>4, <1>14
  <2>3. \E v \in Given : Gives(p, Ais6_1_12(p), 88, v)
    BY <1>1, <1>2, <1>14, Ais6_1_12Gives
  <2>4. Settles(p, Ais6_1_12(p), 88)
    BY <2>2, <2>3 DEF Settles
  <2> HIDE DEF head
  <2>5. Construct6(p, p.dac, p.fi) = head \o Ais6_1_12(p)
    BY <1>14, <2>1
  <2> QED
    BY <2>4, <2>5 DEF head
<1>15. CASE p.dac = 1 /\ p.fi = 14
  <2>1. Construct6(p, 1, 14) = head \o Ais6_1_14(p)
    BY DEF Construct6
  <2>2. ~ Unguarded(p)
    BY <1>3, <1>4, <1>15
  <2>3. \E v \in Given : Gives(p, Ais6_1_14(p), 88, v)
    BY <1>1, <1>2, <1>15, Ais6_1_14Gives
  <2>4. Settles(p, Ais6_1_14(p), 88)
    BY <2>2, <2>3 DEF Settles
  <2> HIDE DEF head
  <2>5. Construct6(p, p.dac, p.fi) = head \o Ais6_1_14(p)
    BY <1>15, <2>1
  <2> QED
    BY <2>4, <2>5 DEF head
<1>16. CASE p.dac = 1 /\ p.fi = 18
  <2>1. Construct6(p, 1, 18) = head \o Ais6_1_18(p)
    BY DEF Construct6
  <2>2. ~ Unguarded(p)
    BY <1>3, <1>4, <1>16
  <2>3. \E v \in Given : Gives(p, Ais6_1_18(p), 88, v)
    BY <1>1, <1>2, <1>16, Ais6_1_18Gives
  <2>4. Settles(p, Ais6_1_18(p), 88)
    BY <2>2, <2>3 DEF Settles
  <2> HIDE DEF head
  <2>5. Construct6(p, p.dac, p.fi) = head \o Ais6_1_18(p)
    BY <1>16, <2>1
  <2> QED
    BY <2>4, <2>5 DEF head
<1>17. CASE p.dac = 1 /\ p.fi = 20
  <2>1. Construct6(p, 1, 20) = head \o Ais6_1_20(p)
    BY DEF Construct6
  <2>2. ~ Unguarded(p)
    BY <1>3, <1>4, <1>17
  <2>3. \E v \in Given : Gives(p, Ais6_1_20(p), 88, v)
    BY <1>1, <1>2, <1>17, Ais6_1_20Gives
  <2>4. Settles(p, Ais6_1_20(p), 88)
    BY <2>2, <2>3 DEF Settles
  <2> HIDE DEF head
  <2>5. Construct6(p, p.dac, p.fi) = head \o Ais6_1_20(p)
    BY <1>17, <2>1
  <2> QED
    BY <2>4, <2>5 DEF head
<1>18. CASE p.dac = 1 /\ p.fi = 25
  <2>1. Construct6(p, 1, 25) = head \o Ais6_1_25(p)
    BY DEF Construct6
  <2>2. Unguarded(p) <=> c25
    BY <1>3, <1>4, <1>18
  <2>4. Settles(p, Ais6_1_25(p), 88)
    BY <1>2, <1>5, <1>18, <2>2, Ais6_1_25Settles
  <2> HIDE DEF head
  <2>5. Construct6(p, p.dac, p.fi) = head \o Ais6_1_25(p)
    BY <1>18, <2>1
  <2> QED
    BY <2>4, <2>5 DEF head
<1>19. CASE p.dac = 1 /\ p.fi = 32
  <2>1. Construct6(p, 1, 32) = head \o Ais6_1_32(p)
    BY DEF Construct6
  <2>2. Unguarded(p) <=> c32
    BY <1>3, <1>4, <1>19
  <2>4. Settles(p, Ais6_1_32(p), 88)
    BY <1>2, <1>6, <1>19, <2>2, Ais6_1_32Settles
  <2> HIDE DEF head
  <2>5. Construct6(p, p.dac, p.fi) = head \o Ais6_1_32(p)
    BY <1>19, <2>1
  <2> QED
    BY <2>4, <2>5 DEF head
<1>20. CASE p.dac = 1 /\ p.fi = 40
  <2>1. Construct6(p, 1, 40) = head \o Ais6_1_40(p)
    BY DEF Construct6
  <2>2. ~ Unguarded(p)
    BY <1>3, <1>4, <1>20
  <2>3. \E v \in Given : Gives(p, Ais6_1_40(p), 88, v)
    BY <1>1, <1>2, <1>20, Ais6_1_40Gives
  <2>4. Settles(p, Ais6_1_40(p), 88)
    BY <2>2, <2>3 DEF Settles
  <2> HIDE DEF head
  <2>5. Construct6(p, p.dac, p.fi) = head \o Ais6_1_40(p)
    BY <1>20, <2>1
  <2> QED
    BY <2>4, <2>5 DEF head
<1>21. \/ p.dac = 0 /\ p.fi = 0
       \/ p.dac = 1 /\ p.fi \in {0, 1, 2, 3, 4, 5, 12, 14, 18, 20, 25, 32, 40}
  BY Applications6
<1> QED
  BY <1>7, <1>8, <1>9, <1>10, <1>11, <1>12, <1>13,
     <1>14, <1>15, <1>16, <1>17, <1>18, <1>19, <1>20, <1>21

(* Messages 6. *)
LEMMA Message6Due ==
  ASSUME NEW p, IsMessage(p), p.message_id = 6
  PROVE  Begins(p, ConstructorCalls(p))
<1>1. IsPayload(p) /\ p.caller \in {"cpp", "py", "direct"}
  BY DEF IsMessage
<1>0. Opens(p, AisMsg(p) \o Ais6(p))
  BY <1>1, HeaderOpens
<1>2. CASE ~ Ais6Read(p)
  BY <1>2, Message6Refused
<1>3. CASE Ais6Read(p) /\ ~ Constructs(p, p.dac, p.fi)
  <2>1. LeftOpen(p)
    BY <1>3 DEF LeftOpen
  <2>2. ~ Unguarded(p)
    <3>1. ~ Constructs(p, 1, 25) /\ ~ Constructs(p, 1, 32)
      BY <1>3, ConstructsOnly
    <3> QED
      BY <3>1 DEF Unguarded, Unguarded6
  <2>3. Application(p) = << p.dac, p.fi >>
    BY <1>3 DEF Application
  <2>4. ConstructorCalls(p) = AisMsg(p) \o Ais6(p)
    <3>1. CASE p.caller = "cpp"
      <4>1. Application(p) \notin CppApplications6
        BY <1>3, <2>3, <3>1 DEF Constructs
      <4> QED
        BY <3>1, <4>1 DEF ConstructorCalls, CreateAisMsg6
    <3>2. CASE p.caller = "py"
      <4>1. Application(p) \notin PyApplications6
        BY <1>3, <2>3, <3>2 DEF Constructs
      <4> QED
        BY <3>2, <4>1 DEF ConstructorCalls, ais6_to_pydict
    <3>3. p.caller # "direct"
      BY <1>3 DEF Constructs
    <3> QED
      BY <1>1, <3>1, <3>2, <3>3
  <2>5. Runs(p, AisMsg(p) \o Ais6(p), 0, 88)
    BY <1>1, <1>3, Ais6Runs
  <2> QED
    BY <1>0, <2>1, <2>2, <2>4, <2>5, OpenDue
<1>4. CASE Ais6Read(p) /\ Constructs(p, p.dac, p.fi)
  <2>1. HeaderRead(p)
    BY <1>4 DEF Ais6Read
  <2>2. ~ LeftOpen(p)
    BY <1>4 DEF LeftOpen
  <2>3. ConstructorCalls(p) = Construct6(p, p.dac, p.fi)
    BY <1>4, Applications6
  <2>4. PICK t : Construct6(p, p.dac, p.fi) = AisMsg(p) \o Ais6(p) \o t /\ Settles(p, t, 88)
    BY <1>4, Message6Settles
  <2>5. Runs(p, AisMsg(p) \o Ais6(p), 0, 88)
    BY <1>1, <1>4, Ais6Runs
  <2> QED
    BY <1>0, <2>1, <2>2, <2>3, <2>4, <2>5, SettlesDue
<1> QED
  BY <1>2, <1>3, <1>4

(* The application of a message 8 that is constructed. *)
LEMMA Applications8 ==
  ASSUME NEW p, IsMessage(p), p.message_id = 8, Constructs(p, p.dac, p.fi), Ais8Read(p)
  PROVE  /\ \/ /\ p.caller # "direct" /\ p.dac = 1
               /\ p.fi \in {0, 11, 13, 15, 16, 17, 19, 21, 22, 24, 26, 27, 29, 31}
            \/ p.caller # "direct" /\ p.dac = 200 /\ p.fi \in {10, 21, 22, 23, 24, 40}
            \/ p.caller = "cpp" /\ p.dac = 200 /\ p.fi = 55
            \/ p.caller = "py" /\ p.dac = 200 /\ p.fi = 50
            \/ p.caller # "direct" /\ p.dac = 367 /\ p.fi \in {22, 23, 24, 25, 33}
            \/ p.caller = "direct" /\ p.dac = 366 /\ p.fi \in {22, 56}
         /\ ConstructorCalls(p) = IF p.dac = 200 /\ p.fi = 50 THEN Construct8(p, 200, 55)
                                  ELSE Construct8(p, p.dac, p.fi)
<1>1. Application(p) = << p.dac, p.fi >>
  BY DEF Application
<1>2. p.caller \in {"cpp", "py", "direct"}
      /\ (p.caller = "direct" => p.dac = 366 /\ p.fi \in {22, 56})
  BY DEF IsMessage
<1> DEFINE imo == p.dac = 1 /\ p.fi \in {0, 11, 13, 15, 16, 17, 19, 21, 22, 24, 26, 27, 29, 31}
           inland == p.dac = 200 /\ p.fi \in {10, 21, 22, 23, 24, 40}
           uscg == p.dac = 367 /\ p.fi \in {22, 23, 24, 25, 33}
<1>3. /\ << p.dac, p.fi >> \in Imo8 => imo
      /\ << p.dac, p.fi >> \in Uscg8 => uscg
  BY DEF Imo8, Uscg8
<1>4. CASE p.caller = "cpp"
  <2>1. << p.dac, p.fi >> \in CppApplications8
    BY <1>1, <1>4 DEF Constructs
  <2>2. << p.dac, p.fi >> \in {200} \X {10, 21, 22, 23, 24, 40, 55}
          => inland \/ (p.dac = 200 /\ p.fi = 55)
    OBVIOUS
  <2>3. imo \/ inland \/ uscg \/ (p.dac = 200 /\ p.fi = 55)
    BY <1>3, <2>1, <2>2 DEF CppApplications8
  <2>4. ConstructorCalls(p) = Construct8(p, p.dac, p.fi)
    BY <1>1, <1>4, <2>1 DEF ConstructorCalls, CreateAisMsg8
  <2>5. ~ (p.dac = 200 /\ p.fi = 50)
    BY <2>3
  <2> QED
    BY <1>4, <2>3, <2>4, <2>5
<1>5. CASE p.caller = "py"
  <2>1. << p.dac, p.fi >> \in PyApplications8
    BY <1>1, <1>5 DEF Constructs
  <2>2. << p.dac, p.fi >> \in {200} \X {10, 21, 22, 23, 24, 40, 50}
          => inland \/ (p.dac = 200 /\ p.fi = 50)
    OBVIOUS
  <2>3. imo \/ inland \/ uscg \/ (p.dac = 200 /\ p.fi = 50)
    BY <1>3, <2>1, <2>2 DEF PyApplications8
  <2>4. ConstructorCalls(p) = ais8_to_pydict(p)
    BY <1>5 DEF ConstructorCalls
  <2>5. ais8_to_pydict(p) = IF p.dac = 200 /\ p.fi = 50 THEN Construct8(p, 200, 55)
                            ELSE Construct8(p, p.dac, p.fi)
    <3>1. << p.dac, p.fi >> = << 200, 50 >> <=> p.dac = 200 /\ p.fi = 50
      OBVIOUS
    <3> QED
      BY <1>1, <2>1, <3>1 DEF ais8_to_pydict
  <2> QED
    BY <1>5, <2>3, <2>4, <2>5
<1>6. CASE p.caller = "direct"
  <2>1. ConstructorCalls(p) = Construct8(p, p.dac, p.fi)
    BY <1>6 DEF ConstructorCalls
  <2>2. ~ (p.dac = 200 /\ p.fi = 50) /\ p.dac = 366 /\ p.fi \in {22, 56}
    BY <1>2, <1>6
  <2> QED
    BY <1>6, <2>1, <2>2
<1> QED
  BY <1>2, <1>4, <1>5, <1>6

(* When an assertion fails on a message 8 that is constructed. *)
LEMMA Unguarded8Is ==
  ASSUME NEW p, IsMessage(p), p.message_id = 8, Constructs(p, p.dac, p.fi), Ais8Read(p)
  PROVE  Unguarded(p) <=>
           \/ p.dac = 1 /\ p.fi = 0 /\ NumBits(p) >= 74 /\ (NumBits(p) - 68) % 6 # 0
           \/ p.dac = 1 /\ p.fi = 17 /\ NumBits(p) = 56
           \/ p.dac = 1 /\ p.fi = 21 /\ NumBits(p) = 360 /\ p.type_wx_report
           \/ p.dac = 1 /\ p.fi = 22 /\ /\ NumBits(p) \in 198 .. 984
                                        /\ \E i \in 0 .. NumSub(p, 111, 87) - 2 : Kind(p, i) \in ReservedAreas
           \/ p.dac = 1 /\ p.fi = 27 /\ NumBits(p) \in 117 .. 997 /\ (NumBits(p) - 117) % 55 = 0
           \/ p.dac = 200 /\ p.fi = 21 /\ NumBits(p) = 248
           \/ p.dac = 200 /\ p.fi = 22 /\ NumBits(p) = 232
           \/ p.dac = 200 /\ p.fi = 23 /\ NumBits(p) = 256
           \/ p.dac = 366 /\ p.fi = 22 /\ /\ NumBits(p) \in 209 .. 1019
                                          /\ \/ Circle \in KindsDecoded(p, 111, 90)
                                             \/ p.points < 4 /\ KindsDecoded(p, 111, 90) \cap Poly # {}
                                             \/ (NumBits(p) - 111) % 90 # 0 /\ Kinds(p, 111, 90) \cap ReservedAreas = {}
           \/ p.dac = 366 /\ p.fi = 56 /\ NumBits(p) = 56
           \/ p.dac = 367 /\ p.fi = 22 /\ /\ NumBits(p) \in 216 .. 1016 /\ (NumBits(p) - 120) % 96 < 6
                                          /\ p.points < 4 /\ KindsDecoded(p, 120, 96) \cap Poly # {}
           \/ p.caller = "py" /\ p.dac = 200 /\ p.fi = 50
<1> DEFINE c1_0 == NumBits(p) >= 74 /\ (NumBits(p) - 68) % 6 # 0
           c1_17 == NumBits(p) = 56
           c1_21 == NumBits(p) = 360 /\ p.type_wx_report
           c1_22 == /\ NumBits(p) \in 198 .. 984
                    /\ \E i \in 0 .. NumSub(p, 111, 87) - 2 : Kind(p, i) \in ReservedAreas
           c1_27 == NumBits(p) \in 117 .. 997 /\ (NumBits(p) - 117) % 55 = 0
           c200_21 == NumBits(p) = 248
           c200_22 == NumBits(p) = 232
           c200_23 == NumBits(p) = 256
           c366_22 == /\ NumBits(p) \in 209 .. 1019
                      /\ \/ Circle \in KindsDecoded(p, 111, 90)
                         \/ p.points < 4 /\ KindsDecoded(p, 111, 90) \cap Poly # {}
                         \/ (NumBits(p) - 111) % 90 # 0 /\ Kinds(p, 111, 90) \cap ReservedAreas = {}
           c366_56 == NumBits(p) = 56
           c367_22 == /\ NumBits(p) \in 216 .. 1016 /\ (NumBits(p) - 120) % 96 < 6
                      /\ p.points < 4 /\ KindsDecoded(p, 120, 96) \cap Poly # {}
<1>1. Application(p) = << p.dac, p.fi >>
  BY DEF Application
<1>2. p.dac = 366 => p.caller = "direct"
  BY Applications8
<1>3. Unguarded(p) <=>
        \/ Constructs(p, 1, 0) /\ c1_0
        \/ Constructs(p, 1, 17) /\ c1_17
        \/ Constructs(p, 1, 21) /\ c1_21
        \/ Constructs(p, 1, 22) /\ c1_22
        \/ Constructs(p, 1, 27) /\ c1_27
        \/ Constructs(p, 200, 21) /\ c200_21
        \/ Constructs(p, 200, 22) /\ c200_22
        \/ Constructs(p, 200, 23) /\ c200_23
        \/ p.caller = "py" /\ Application(p) = << 200, 50 >>
        \/ p.caller = "direct" /\ p.dac = 366 /\ p.fi = 56 /\ c366_56
        \/ Constructs(p, 366, 22) /\ c366_22
        \/ Constructs(p, 367, 22) /\ c367_22
  BY DEF Unguarded, Unguarded8
<1> HIDE DEF c1_0, c1_17, c1_21, c1_22, c1_27, c200_21, c200_22, c200_23, c366_22, c366_56, c367_22
<1>4. /\ Constructs(p, 1, 0) <=> p.dac = 1 /\ p.fi = 0
      /\ Constructs(p, 1, 17) <=> p.dac = 1 /\ p.fi = 17
      /\ Constructs(p, 1, 21) <=> p.dac = 1 /\ p.fi = 21
      /\ Constructs(p, 1, 22) <=> p.dac = 1 /\ p.fi = 22
      /\ Constructs(p, 1, 27) <=> p.dac = 1 /\ p.fi = 27
      /\ Constructs(p, 200, 21) <=> p.dac = 200 /\ p.fi = 21
      /\ Constructs(p, 200, 22) <=> p.dac = 200 /\ p.fi = 22
      /\ Constructs(p, 200, 23) <=> p.dac = 200 /\ p.fi = 23
      /\ Constructs(p, 366, 22) <=> p.dac = 366 /\ p.fi = 22
      /\ Constructs(p, 367, 22) <=> p.dac = 367 /\ p.fi = 22
  BY ConstructsOnly
<1>5. Application(p) = << 200, 50 >> <=> p.dac = 200 /\ p.fi = 50
  BY <1>1
<1>6. Unguarded(p) <=>
        \/ p.dac = 1 /\ p.fi = 0 /\ c1_0
        \/ p.dac = 1 /\ p.fi = 17 /\ c1_17
        \/ p.dac = 1 /\ p.fi = 21 /\ c1_21
        \/ p.dac = 1 /\ p.fi = 22 /\ c1_22
        \/ p.dac = 1 /\ p.fi = 27 /\ c1_27
        \/ p.dac = 200 /\ p.fi = 21 /\ c200_21
        \/ p.dac = 200 /\ p.fi = 22 /\ c200_22
        \/ p.dac = 200 /\ p.fi = 23 /\ c200_23
        \/ p.dac = 366 /\ p.fi = 22 /\ c366_22
        \/ p.dac = 366 /\ p.fi = 56 /\ c366_56
        \/ p.dac = 367 /\ p.fi = 22 /\ c367_22
        \/ p.caller = "py" /\ p.dac = 200 /\ p.fi = 50
  BY <1>2, <1>3, <1>4, <1>5
<1> QED
  BY <1>6 DEF c1_0, c1_17, c1_21, c1_22, c1_27, c200_21, c200_22,
              c200_23, c366_22, c366_56, c367_22

(* The constructor of a message 8 settles the status, but for 1:19, whose  *)
(* own status hides it, 1:22 with a reserved area, and 200:50.             *)
LEMMA Message8Settles ==
  ASSUME NEW p, IsMessage(p), p.message_id = 8, Constructs(p, p.dac, p.fi), Ais8Read(p),
         ~ (p.dac = 1 /\ p.fi \in {19, 22}), ~ (p.dac = 200 /\ p.fi = 50)
  PROVE  \E t : Construct8(p, p.dac, p.fi) = AisMsg(p) \o Ais8(p) \o t /\ Settles(p, t, 56)
<1> DEFINE c1_0 == NumBits(p) >= 74 /\ (NumBits(p) - 68) % 6 # 0
           c1_17 == NumBits(p) = 56
           c1_21 == NumBits(p) = 360 /\ p.type_wx_report
           c1_22 == /\ NumBits(p) \in 198 .. 984
                    /\ \E i \in 0 .. NumSub(p, 111, 87) - 2 : Kind(p, i) \in ReservedAreas
           c1_27 == NumBits(p) \in 117 .. 997 /\ (NumBits(p) - 117) % 55 = 0
           c200_21 == NumBits(p) = 248
           c200_22 == NumBits(p) = 232
           c200_23 == NumBits(p) = 256
           c366_22 == /\ NumBits(p) \in 209 .. 1019
                      /\ \/ Circle \in KindsDecoded(p, 111, 90)
                         \/ p.points < 4 /\ KindsDecoded(p, 111, 90) \cap Poly # {}
                         \/ (NumBits(p) - 111) % 90 # 0 /\ Kinds(p, 111, 90) \cap ReservedAreas = {}
           c366_56 == NumBits(p) = 56
           c367_22 == /\ NumBits(p) \in 216 .. 1016 /\ (NumBits(p) - 120) % 96 < 6
                      /\ p.points < 4 /\ KindsDecoded(p, 120, 96) \cap Poly # {}
           head == AisMsg(p) \o Ais8(p)
<1>1. IsPayload(p) /\ NumBits(p) \in 56 .. 1008
  <2>1. IsPayload(p) /\ NumBits(p) - 56 \in 0 .. 952
    BY DEF IsMessage, Ais8Read
  <2>2. NumBits(p) \in Int
    BY <2>1, PayloadBits
  <2> QED
    BY <2>1, <2>2
<1>2. Application(p) = << p.dac, p.fi >>
  BY DEF Application
<1>3. Unguarded(p) <=>
        \/ p.dac = 1 /\ p.fi = 0 /\ c1_0
        \/ p.dac = 1 /\ p.fi = 17 /\ c1_17
        \/ p.dac = 1 /\ p.fi = 21 /\ c1_21
        \/ p.dac = 1 /\ p.fi = 22 /\ c1_22
        \/ p.dac = 1 /\ p.fi = 27 /\ c1_27
        \/ p.dac = 200 /\ p.fi = 21 /\ c200_21
        \/ p.dac = 200 /\ p.fi = 22 /\ c200_22
        \/ p.dac = 200 /\ p.fi = 23 /\ c200_23
        \/ p.dac = 366 /\ p.fi = 22 /\ c366_22
        \/ p.dac = 366 /\ p.fi = 56 /\ c366_56
        \/ p.dac = 367 /\ p.fi = 22 /\ c367_22
        \/ p.caller = "py" /\ p.dac = 200 /\ p.fi = 50
  BY SMTT(30), Unguarded8Is
<1>4. CASE p.dac = 1 /\ p.fi = 0
  <2>1. Construct8(p, 1, 0) = head \o Ais8_1_0(p)
    BY DEF Construct8
  <2>2. Unguarded(p) <=> c1_0
    <3> HIDE DEF c1_0, c1_17, c1_21, c1_22, c1_27, c200_21, c200_22, c200_23, c366_22, c366_56, c367_22
    <3> QED
      BY <1>3, <1>4
  <2>3. Application(p) = << 1, 0 >>
    BY <1>2, <1>4
  <2>4. Settles(p, Ais8_1_0(p), 56)
    BY <1>1, <1>4, <2>2, <2>3, Ais8_1_0Settles
  <2> HIDE DEF head
  <2>5. Construct8(p, p.dac, p.fi) = head \o Ais8_1_0(p)
    BY <1>4, <2>1
  <2> QED
    BY <2>4, <2>5 DEF head
<1>5. CASE p.dac = 1 /\ p.fi = 11
  <2>1. Construct8(p, 1, 11) = head \o Ais8_1_11(p)
    BY DEF Construct8
  <2>2. ~ Unguarded(p)
    <3> HIDE DEF c1_0, c1_17, c1_21, c1_22, c1_27, c200_21, c200_22, c200_23, c366_22, c366_56, c367_22
    <3> QED
      BY <1>3, <1>5
  <2>3. \E v \in Given : Gives(p, Ais8_1_11(p), 56, v)
    BY <1>1, <1>2, <1>5, Ais8_1_11Gives
  <2>4. Settles(p, Ais8_1_11(p), 56)
    BY <2>2, <2>3 DEF Settles
  <2> HIDE DEF head
  <2>5. Construct8(p, p.dac, p.fi) = head \o Ais8_1_11(p)
    BY <1>5, <2>1
  <2> QED
    BY <2>4, <2>5 DEF head
<1>6. CASE p.dac = 1 /\ p.fi = 13
  <2>1. Construct8(p, 1, 13) = head \o Ais8_1_13(p)
    BY DEF Construct8
  <2>2. ~ Unguarded(p)
    <3> HIDE DEF c1_0, c1_17, c1_21, c1_22, c1_27, c200_21, c200_22, c200_23, c366_22, c366_56, c367_22
    <3> QED
      BY <1>3, <1>6
  <2>3. \E v \in Given : Gives(p, Ais8_1_13(p), 56, v)
    BY <1>1, <1>2, <1>6, Ais8_1_13Gives
  <2>4. Settles(p, Ais8_1_13(p), 56)
    BY <2>2, <2>3 DEF Settles
  <2> HIDE DEF head
  <2>5. Construct8(p, p.dac, p.fi) = head \o Ais8_1_13(p)
    BY <1>6, <2>1
  <2> QED
    BY <2>4, <2>5 DEF head
<1>7. CASE p.dac = 1 /\ p.fi = 15
  <2>1. Construct8(p, 1, 15) = head \o Ais8_1_15(p)
    BY DEF Construct8
  <2>2. ~ Unguarded(p)
    <3> HIDE DEF c1_0, c1_17, c1_21, c1_22, c1_27, c200_21, c200_22, c200_23, c366_22, c366_56, c367_22
    <3> QED
      BY <1>3, <1>7
  <2>3. \E v \in Given : Gives(p, Ais8_1_15(p), 56, v)
    BY <1>1, <1>2, <1>7, Ais8_1_15Gives
  <2>4. Settles(p, Ais8_1_15(p), 56)
    BY <2>2, <2>3 DEF Settles
  <2> HIDE DEF head
  <2>5. Construct8(p, p.dac, p.fi) = head \o Ais8_1_15(p)
    BY <1>7, <2>1
  <2> QED
    BY <2>4, <2>5 DEF head
<1>8. CASE p.dac = 1 /\ p.fi = 16
  <2>1. Construct8(p, 1, 16) = head \o Ais8_1_16(p)
    BY DEF Construct8
  <2>2. ~ Unguarded(p)
    <3> HIDE DEF c1_0, c1_17, c1_21, c1_22, c1_27, c200_21, c200_22, c200_23, c366_22, c366_56, c367_22
    <3> QED
      BY <1>3, <1>8
  <2>3. \E v \in Given : Gives(p, Ais8_1_16(p), 56, v)
    BY <1>1, <1>2, <1>8, Ais8_1_16Gives
  <2>4. Settles(p, Ais8_1_16(p), 56)
    BY <2>2, <2>3 DEF Settles
  <2> HIDE DEF head
  <2>5. Construct8(p, p.dac, p.fi) = head \o Ais8_1_16(p)
    BY <1>8, <2>1
  <2> QED
    BY <2>4, <2>5 DEF head
<1>9. CASE p.dac = 1 /\ p.fi = 17
  <2>1. Construct8(p, 1, 17) = head \o Ais8_1_17(p)
    BY DEF Construct8
  <2>2. Unguarded(p) <=> c1_17
    <3> HIDE DEF c1_0, c1_17, c1_21, c1_22, c1_27, c200_21, c200_22, c200_23, c366_22, c366_56, c367_22
    <3> QED
      BY <1>3, <1>9
  <2>3. Application(p) = << 1, 17 >>
    BY <1>2, <1>9
  <2>4. Settles(p, Ais8_1_17(p), 56)
    BY <1>1, <1>9, <2>2, <2>3, Ais8_1_17Settles
  <2> HIDE DEF head
  <2>5. Construct8(p, p.dac, p.fi) = head \o Ais8_1_17(p)
    BY <1>9, <2>1
  <2> QED
    BY <2>4, <2>5 DEF head
<1>10. CASE p.dac = 1 /\ p.fi = 21
  <2>1. Construct8(p, 1, 21) = head \o Ais8_1_21(p)
    BY DEF Construct8
  <2>2. Unguarded(p) <=> c1_21
    <3> HIDE DEF c1_0, c1_17, c1_21, c1_22, c1_27, c200_21, c200_22, c200_23, c366_22, c366_56, c367_22
    <3> QED
      BY <1>3, <1>10
  <2>3. Application(p) = << 1, 21 >>
    BY <1>2, <1>10
  <2>4. Settles(p, Ais8_1_21(p), 56)
    BY <1>1, <1>10, <2>2, <2>3, Ais8_1_21Settles
  <2> HIDE DEF head
  <2>5. Construct8(p, p.dac, p.fi) = head \o Ais8_1_21(p)
    BY <1>10, <2>1
  <2> QED
    BY <2>4, <2>5 DEF head
<1>11. CASE p.dac = 1 /\ p.fi = 24
  <2>1. Construct8(p, 1, 24) = head \o Ais8_1_24(p)
    BY DEF Construct8
  <2>2. ~ Unguarded(p)
    <3> HIDE DEF c1_0, c1_17, c1_21, c1_22, c1_27, c200_21, c200_22, c200_23, c366_22, c366_56, c367_22
    <3> QED
      BY <1>3, <1>11
  <2>3. \E v \in Given : Gives(p, Ais8_1_24(p), 56, v)
    BY <1>1, <1>2, <1>11, Ais8_1_24Gives
  <2>4. Settles(p, Ais8_1_24(p), 56)
    BY <2>2, <2>3 DEF Settles
  <2> HIDE DEF head
  <2>5. Construct8(p, p.dac, p.fi) = head \o Ais8_1_24(p)
    BY <1>11, <2>1
  <2> QED
    BY <2>4, <2>5 DEF head
<1>12. CASE p.dac = 1 /\ p.fi = 26
  <2>1. Construct8(p, 1, 26) = head \o Ais8_1_26(p)
    BY DEF Construct8
  <2>2. ~ Unguarded(p)
    <3> HIDE DEF c1_0, c1_17, c1_21, c1_22, c1_27, c200_21, c200_22, c200_23, c366_22, c366_56, c367_22
    <3> QED
      BY <1>3, <1>12
  <2>3. \E v \in Given : Gives(p, Ais8_1_26(p), 56, v)
    BY <1>1, <1>2, <1>12, Ais8_1_26Gives
  <2>4. Settles(p, Ais8_1_26(p), 56)
    BY <2>2, <2>3 DEF Settles
  <2> HIDE DEF head
  <2>5. Construct8(p, p.dac, p.fi) = head \o Ais8_1_26(p)
    BY <1>12, <2>1
  <2> QED
    BY <2>4, <2>5 DEF head
<1>13. CASE p.dac = 1 /\ p.fi = 27
  <2>1. Construct8(p, 1, 27) = head \o Ais8_1_27(p)
    BY DEF Construct8
  <2>2. Unguarded(p) <=> c1_27
    <3> HIDE DEF c1_0, c1_17, c1_21, c1_22, c1_27, c200_21, c200_22, c200_23, c366_22, c366_56, c367_22
    <3> QED
      BY <1>3, <1>13
  <2>3. Application(p) = << 1, 27 >>
    BY <1>2, <1>13
  <2>4. Settles(p, Ais8_1_27(p), 56)
    BY <1>1, <1>13, <2>2, <2>3, Ais8_1_27Settles
  <2> HIDE DEF head
  <2>5. Construct8(p, p.dac, p.fi) = head \o Ais8_1_27(p)
    BY <1>13, <2>1
  <2> QED
    BY <2>4, <2>5 DEF head
<1>14. CASE p.dac = 1 /\ p.fi = 29
  <2>1. Construct8(p, 1, 29) = head \o Ais8_1_29(p)
    BY DEF Construct8
  <2>2. ~ Unguarded(p)
    <3> HIDE DEF c1_0, c1_17, c1_21, c1_22, c1_27, c200_21, c200_22, c200_23, c366_22, c366_56, c367_22
    <3> QED
      BY <1>3, <1>14
  <2>3. \E v \in Given : Gives(p, Ais8_1_29(p), 56, v)
    BY <1>1, <1>2, <1>14, Ais8_1_29Gives
  <2>4. Settles(p, Ais8_1_29(p), 56)
    BY <2>2, <2>3 DEF Settles
  <2> HIDE DEF head
  <2>5. Construct8(p, p.dac, p.fi) = head \o Ais8_1_29(p)
    BY <1>14, <2>1
  <2> QED
    BY <2>4, <2>5 DEF head
<1>15. CASE p.dac = 1 /\ p.fi = 31
  <2>1. Construct8(p, 1, 31) = head \o Ais8_1_31(p)
    BY DEF Construct8
  <2>2. ~ Unguarded(p)
    <3> HIDE DEF c1_0, c1_17, c1_21, c1_22, c1_27, c200_21, c200_22, c200_23, c366_22, c366_56, c367_22
    <3> QED
      BY <1>3, <1>15
  <2>3. \E v \in Given : Gives(p, Ais8_1_31(p), 56, v)
    BY <1>1, <1>2, <1>15, Ais8_1_31Gives
  <2>4. Settles(p, Ais8_1_31(p), 56)
    BY <2>2, <2>3 DEF Settles
  <2> HIDE DEF head
  <2>5. Construct8(p, p.dac, p.fi) = head \o Ais8_1_31(p)
    BY <1>15, <2>1
  <2> QED
    BY <2>4, <2>5 DEF head
<1>16. CASE p.dac = 200 /\ p.fi = 10
  <2>1. Construct8(p, 200, 10) = head \o Ais8_200_10(p)
    BY DEF Construct8
  <2>2. ~ Unguarded(p)
    <3> HIDE DEF c1_0, c1_17, c1_21, c1_22, c1_27, c200_21, c200_22, c200_23, c366_22, c366_56, c367_22
    <3> QED
      BY <1>3, <1>16
  <2>3. \E v \in Given : Gives(p, Ais8_200_10(p), 56, v)
    BY <1>1, <1>2, <1>16, Ais8_200_10Gives
  <2>4. Settles(p, Ais8_200_10(p), 56)
    BY <2>2, <2>3 DEF Settles
  <2> HIDE DEF head
  <2>5. Construct8(p, p.dac, p.fi) = head \o Ais8_200_10(p)
    BY <1>16, <2>1
  <2> QED
    BY <2>4, <2>5 DEF head
<1>17. CASE p.dac = 200 /\ p.fi = 21
  <2>1. Construct8(p, 200, 21) = head \o Ais8_200_21(p)
    BY DEF Construct8
  <2>2. Unguarded(p) <=> c200_21
    <3> HIDE DEF c1_0, c1_17, c1_21, c1_22, c1_27, c200_21, c200_22, c200_23, c366_22, c366_56, c367_22
    <3> QED
      BY <1>3, <1>17
  <2>3. Application(p) = << 200, 21 >>
    BY <1>2, <1>17
  <2>4. Settles(p, Ais8_200_21(p), 56)
    BY <1>1, <1>17, <2>2, <2>3, Ais8_200_21Settles
  <2> HIDE DEF head
  <2>5. Construct8(p, p.dac, p.fi) = head \o Ais8_200_21(p)
    BY <1>17, <2>1
  <2> QED
    BY <2>4, <2>5 DEF head
<1>18. CASE p.dac = 200 /\ p.fi = 22
  <2>1. Construct8(p, 200, 22) = head \o Ais8_200_22(p)
    BY DEF Construct8
  <2>2. Unguarded(p) <=> c200_22
    <3> HIDE DEF c1_0, c1_17, c1_21, c1_22, c1_27, c200_21, c200_22, c200_23, c366_22, c366_56, c367_22
    <3> QED
      BY <1>3, <1>18
  <2>3. Application(p) = << 200, 22 >>
    BY <1>2, <1>18
  <2>4. Settles(p, Ais8_200_22(p), 56)
    BY <1>1, <1>18, <2>2, <2>3, Ais8_200_22Settles
  <2> HIDE DEF head
  <2>5. Construct8(p, p.dac, p.fi) = head \o Ais8_200_22(p)
    BY <1>18, <2>1
  <2> QED
    BY <2>4, <2>5 DEF head
<1>19. CASE p.dac = 200 /\ p.fi = 23
  <2>1. Construct8(p, 200, 23) = head \o Ais8_200_23(p)
    BY DEF Construct8
  <2>2. Unguarded(p) <=> c200_23
    <3> HIDE DEF c1_0, c1_17, c1_21, c1_22, c1_27, c200_21, c200_22, c200_23, c366_22, c366_56, c367_22
    <3> QED
      BY <1>3, <1>19
  <2>3. Application(p) = << 200, 23 >>
    BY <1>2, <1>19
  <2>4. Settles(p, Ais8_200_23(p), 56)
    BY <1>1, <1>19, <2>2, <2>3, Ais8_200_23Settles
  <2> HIDE DEF head
  <2>5. Construct8(p, p.dac, p.fi) = head \o Ais8_200_23(p)
    BY <1>19, <2>1
  <2> QED
    BY <2>4, <2>5 DEF head
<1>20. CASE p.dac = 200 /\ p.fi = 24
  <2>1. Construct8(p, 200, 24) = head \o Ais8_200_24(p)
    BY DEF Construct8
  <2>2. ~ Unguarded(p)
    <3> HIDE DEF c1_0, c1_17, c1_21, c1_22, c1_27, c200_21, c200_22, c200_23, c366_22, c366_56, c367_22
    <3> QED
      BY <1>3, <1>20
  <2>3. \E v \in Given : Gives(p, Ais8_200_24(p), 56, v)
    BY <1>1, <1>2, <1>20, Ais8_200_24Gives
  <2>4. Settles(p, Ais8_200_24(p), 56)
    BY <2>2, <2>3 DEF Settles
  <2> HIDE DEF head
  <2>5. Construct8(p, p.dac, p.fi) = head \o Ais8_200_24(p)
    BY <1>20, <2>1
  <2> QED
    BY <2>4, <2>5 DEF head
<1>21. CASE p.dac = 200 /\ p.fi = 40
  <2>1. Construct8(p, 200, 40) = head \o Ais8_200_40(p)
    BY DEF Construct8
  <2>2. ~ Unguarded(p)
    <3> HIDE DEF c1_0, c1_17, c1_21, c1_22, c1_27, c200_21, c200_22, c200_23, c366_22, c366_56, c367_22
    <3> QED
      BY <1>3, <1>21
  <2>3. \E v \in Given : Gives(p, Ais8_200_40(p), 56, v)
    BY <1>1, <1>2, <1>21, Ais8_200_40Gives
  <2>4. Settles(p, Ais8_200_40(p), 56)
    BY <2>2, <2>3 DEF Settles
  <2> HIDE DEF head
  <2>5. Construct8(p, p.dac, p.fi) = head \o Ais8_200_40(p)
    BY <1>21, <2>1
  <2> QED
    BY <2>4, <2>5 DEF head
<1>22. CASE p.dac = 200 /\ p.fi = 55
  <2>1. Construct8(p, 200, 55) = head \o Ais8_200_55(p)
    BY DEF Construct8
  <2>2. ~ Unguarded(p)
    <3> HIDE DEF c1_0, c1_17, c1_21, c1_22, c1_27, c200_21, c200_22, c200_23, c366_22, c366_56, c367_22
    <3> QED
      BY <1>3, <1>22
  <2>3. \E v \in Given : Gives(p, Ais8_200_55(p), 56, v)
    BY <1>1, <1>2, <1>22, Ais8_200_55Gives
  <2>4. Settles(p, Ais8_200_55(p), 56)
    BY <2>2, <2>3 DEF Settles
  <2> HIDE DEF head
  <2>5. Construct8(p, p.dac, p.fi) = head \o Ais8_200_55(p)
    BY <1>22, <2>1
  <2> QED
    BY <2>4, <2>5 DEF head
<1>23. CASE p.dac = 366 /\ p.fi = 22
  <2>1. Construct8(p, 366, 22) = head \o Ais8_366_22(p)
    BY DEF Construct8
  <2>2. Unguarded(p) <=> c366_22
    <3> HIDE DEF c1_0, c1_17, c1_21, c1_22, c1_27, c200_21, c200_22, c200_23, c366_22, c366_56, c367_22
    <3> QED
      BY <1>3, <1>23
  <2>3. Application(p) = << 366, 22 >>
    BY <1>2, <1>23
  <2>4. Settles(p, Ais8_366_22(p), 56)
    BY <1>1, <1>23, <2>2, <2>3, Ais8_366_22Settles
  <2> HIDE DEF head
  <2>5. Construct8(p, p.dac, p.fi) = head \o Ais8_366_22(p)
    BY <1>23, <2>1
  <2> QED
    BY <2>4, <2>5 DEF head
<1>24. CASE p.dac = 366 /\ p.fi = 56
  <2>1. Construct8(p, 366, 56) = head \o Ais8_366_56(p)
    BY DEF Construct8
  <2>2. Unguarded(p) <=> c366_56
    <3> HIDE DEF c1_0, c1_17, c1_21, c1_22, c1_27, c200_21, c200_22, c200_23, c366_22, c366_56, c367_22
    <3> QED
      BY <1>3, <1>24
  <2>3. Application(p) = << 366, 56 >>
    BY <1>2, <1>24
  <2>4. Settles(p, Ais8_366_56(p), 56)
    BY <1>1, <1>24, <2>2, <2>3, Ais8_366_56Settles
  <2> HIDE DEF head
  <2>5. Construct8(p, p.dac, p.fi) = head \o Ais8_366_56(p)
    BY <1>24, <2>1
  <2> QED
    BY <2>4, <2>5 DEF head
<1>25. CASE p.dac = 367 /\ p.fi = 22
  <2>1. Construct8(p, 367, 22) = head \o Ais8_367_22(p)
    BY DEF Construct8
  <2>2. Unguarded(p) <=> c367_22
    <3> HIDE DEF c1_0, c1_17, c1_21, c1_22, c1_27, c200_21, c200_22, c200_23, c366_22, c366_56, c367_22
    <3> QED
      BY <1>3, <1>25
  <2>3. Application(p) = << 367, 22 >>
    BY <1>2, <1>25
  <2>4. Settles(p, Ais8_367_22(p), 56)
    BY <1>1, <1>25, <2>2, <2>3, Ais8_367_22Settles
  <2> HIDE DEF head
  <2>5. Construct8(p, p.dac, p.fi) = head \o Ais8_367_22(p)
    BY <1>25, <2>1
  <2> QED
    BY <2>4, <2>5 DEF head
<1>26. CASE p.dac = 367 /\ p.fi = 23
  <2>1. Construct8(p, 367, 23) = head \o Ais8_367_23(p)
    BY DEF Construct8
  <2>2. ~ Unguarded(p)
    <3> HIDE DEF c1_0, c1_17, c1_21, c1_22, c1_27, c200_21, c200_22, c200_23, c366_22, c366_56, c367_22
    <3> QED
      BY <1>3, <1>26
  <2>3. \E v \in Given : Gives(p, Ais8_367_23(p), 56, v)
    BY <1>1, <1>2, <1>26, Ais8_367_23Gives
  <2>4. Settles(p, Ais8_367_23(p), 56)
    BY <2>2, <2>3 DEF Settles
  <2> HIDE DEF head
  <2>5. Construct8(p, p.dac, p.fi) = head \o Ais8_367_23(p)
    BY <1>26, <2>1
  <2> QED
    BY <2>4, <2>5 DEF head
<1>27. CASE p.dac = 367 /\ p.fi = 24
  <2>1. Construct8(p, 367, 24) = head \o Ais8_367_24(p)
    BY DEF Construct8
  <2>2. ~ Unguarded(p)
    <3> HIDE DEF c1_0, c1_17, c1_21, c1_22, c1_27, c200_21, c200_22, c200_23, c366_22, c366_56, c367_22
    <3> QED
      BY <1>3, <1>27
  <2>3. \E v \in Given : Gives(p, Ais8_367_24(p), 56, v)
    BY <1>1, <1>2, <1>27, Ais8_367_24Gives
  <2>4. Settles(p, Ais8_367_24(p), 56)
    BY <2>2, <2>3 DEF Settles
  <2> HIDE DEF head
  <2>5. Construct8(p, p.dac, p.fi) = head \o Ais8_367_24(p)
    BY <1>27, <2>1
  <2> QED
    BY <2>4, <2>5 DEF head
<1>28. CASE p.dac = 367 /\ p.fi = 25
  <2>1. Construct8(p, 367, 25) = head \o Ais8_367_25(p)
    BY DEF Construct8
  <2>2. ~ Unguarded(p)
    <3> HIDE DEF c1_0, c1_17, c1_21, c1_22, c1_27, c200_21, c200_22, c200_23, c366_22, c366_56, c367_22
    <3> QED
      BY <1>3, <1>28
  <2>3. \E v \in Given : Gives(p, Ais8_367_25(p), 56, v)
    BY <1>1, <1>2, <1>28, Ais8_367_25Gives
  <2>4. Settles(p, Ais8_367_25(p), 56)
    BY <2>2, <2>3 DEF Settles
  <2> HIDE DEF head
  <2>5. Construct8(p, p.dac, p.fi) = head \o Ais8_367_25(p)
    BY <1>28, <2>1
  <2> QED
    BY <2>4, <2>5 DEF head
<1>29. CASE p.dac = 367 /\ p.fi = 33
  <2>1. Construct8(p, 367, 33) = head \o Ais8_367_33(p)
    BY DEF Construct8
  <2>2. ~ Unguarded(p)
    <3> HIDE DEF c1_0, c1_17, c1_21, c1_22, c1_27, c200_21, c200_22, c200_23, c366_22, c366_56, c367_22
    <3> QED
      BY <1>3, <1>29
  <2>3. \E v \in Given : Gives(p, Ais8_367_33(p), 56, v)
    BY <1>1, <1>2, <1>29, Ais8_367_33Gives
  <2>4. Settles(p, Ais8_367_33(p), 56)
    BY <2>2, <2>3 DEF Settles
  <2> HIDE DEF head
  <2>5. Construct8(p, p.dac, p.fi) = head \o Ais8_367_33(p)
    BY <1>29, <2>1
  <2> QED
    BY <2>4, <2>5 DEF head
<1>30. \/ p.dac = 1 /\ p.fi \in {0, 11, 13, 15, 16, 17, 21, 24, 26, 27, 29, 31}
       \/ p.dac = 200 /\ p.fi \in {10, 21, 22, 23, 24, 40, 55}
       \/ p.dac = 366 /\ p.fi \in {22, 56}
       \/ p.dac = 367 /\ p.fi \in {22, 23, 24, 25, 33}
  BY Applications8
<1> DEFINE goal == \E t : Construct8(p, p.dac, p.fi) = head \o t /\ Settles(p, t, 56)
<1>31. ASSUME p.dac = 1 PROVE goal
  <2> HIDE DEF goal, c1_0, c1_17, c1_21, c1_22, c1_27, c200_21,
           c200_22, c200_23, c366_22, c366_56, c367_22
  <2>1. p.fi = 0 => goal
    BY <1>4, <1>31 DEF goal
  <2>2. p.fi = 11 => goal
    BY <1>5, <1>31 DEF goal
  <2>3. p.fi = 13 => goal
    BY <1>6, <1>31 DEF goal
  <2>4. p.fi = 15 => goal
    BY <1>7, <1>31 DEF goal
  <2>5. p.fi = 16 => goal
    BY <1>8, <1>31 DEF goal
  <2>6. p.fi = 17 => goal
    BY <1>9, <1>31 DEF goal
  <2>7. p.fi = 21 => goal
    BY <1>10, <1>31 DEF goal
  <2>8. p.fi = 24 => goal
    BY <1>11, <1>31 DEF goal
  <2>9. p.fi = 26 => goal
    BY <1>12, <1>31 DEF goal
  <2>10. p.fi = 27 => goal
    BY <1>13, <1>31 DEF goal
  <2>11. p.fi = 29 => goal
    BY <1>14, <1>31 DEF goal
  <2>12. p.fi = 31 => goal
    BY <1>15, <1>31 DEF goal
  <2>13. p.fi \in {0, 11, 13, 15, 16, 17, 21, 24, 26, 27, 29, 31}
    BY <1>30, <1>31
  <2> QED
    BY <2>1, <2>2, <2>3, <2>4, <2>5, <2>6, <2>7, <2>8, <2>9, <2>10, <2>11, <2>12, <2>13
<1>32. ASSUME p.dac = 200 PROVE goal
  <2> HIDE DEF goal, c1_0, c1_17, c1_21, c1_22, c1_27, c200_21,
           c200_22, c200_23, c366_22, c366_56, c367_22
  <2>1. p.fi = 10 => goal
    BY <1>16, <1>32 DEF goal
  <2>2. p.fi = 21 => goal
    BY <1>17, <1>32 DEF goal
  <2>3. p.fi = 22 => goal
    BY <1>18, <1>32 DEF goal
  <2>4. p.fi = 23 => goal
    BY <1>19, <1>32 DEF goal
  <2>5. p.fi = 24 => goal
    BY <1>20, <1>32 DEF goal
  <2>6. p.fi = 40 => goal
    BY <1>21, <1>32 DEF goal
  <2>7. p.fi = 55 => goal
    BY <1>22, <1>32 DEF goal
  <2>8. p.fi \in {10, 21, 22, 23, 24, 40, 55}
    BY <1>30, <1>32
  <2> QED
    BY <2>1, <2>2, <2>3, <2>4, <2>5, <2>6, <2>7, <2>8
<1>33. ASSUME p.dac = 366 PROVE goal
  <2> HIDE DEF goal, c1_0, c1_17, c1_21, c1_22, c1_27, c200_21,
           c200_22, c200_23, c366_22, c366_56, c367_22
  <2>1. p.fi = 22 => goal
    BY <1>23, <1>33 DEF goal
  <2>2. p.fi = 56 => goal
    BY <1>24, <1>33 DEF goal
  <2>3. p.fi \in {22, 56}
    BY <1>30, <1>33
  <2> QED
    BY <2>1, <2>2, <2>3
<1>34. ASSUME p.dac = 367 PROVE goal
  <2> HIDE DEF goal, c1_0, c1_17, c1_21, c1_22, c1_27, c200_21,
           c200_22, c200_23, c366_22, c366_56, c367_22
  <2>1. p.fi = 22 => goal
    BY <1>25, <1>34 DEF goal
  <2>2. p.fi = 23 => goal
    BY <1>26, <1>34 DEF goal
  <2>3. p.fi = 24 => goal
    BY <1>27, <1>34 DEF goal
  <2>4. p.fi = 25 => goal
    BY <1>28, <1>34 DEF goal
  <2>5. p.fi = 33 => goal
    BY <1>29, <1>34 DEF goal
  <2>6. p.fi \in {22, 23, 24, 25, 33}
    BY <1>30, <1>34
  <2> QED
    BY <2>1, <2>2, <2>3, <2>4, <2>5, <2>6
<1> HIDE DEF goal
<1>35. goal
  BY <1>31, <1>32, <1>33, <1>34, <1>30
<1> QED
  BY <1>35 DEF goal, head

(* A message 8 that Ais8 does not accept. *)
LEMMA Message8Refused ==
  ASSUME NEW p, IsMessage(p), p.message_id = 8, ~ Ais8Read(p)
  PROVE  Begins(p, ConstructorCalls(p))
<1>1. IsPayload(p) /\ p.caller \in {"cpp", "py", "direct"}
      /\ (p.caller = "direct" => p.dac = 366 /\ p.fi \in {22, 56})
  BY DEF IsMessage
<1>2. PICK e \in Errors, y \in Int : Leads(p, AisMsg(p) \o Ais8(p), 0, Undecided, y, e)
  BY <1>1, Ais8Refused
<1>0. Opens(p, AisMsg(p) \o Ais8(p))
  BY <1>1, HeaderOpens
<1>3. Application(p) = << 0, 0 >>
  BY DEF Application
<1>4. ~ LeftOpen(p)
  BY DEF LeftOpen
<1>5. CASE p.caller # "direct"
  <2>1. ConstructorCalls(p) = AisMsg(p) \o Ais8(p)
    <3>1. << 0, 0 >> # << 200, 50 >>
      OBVIOUS
    <3>2. CASE p.caller = "cpp"
      BY <1>3, <3>2, NoApplication DEF ConstructorCalls, CreateAisMsg8
    <3>3. CASE p.caller = "py"
      <4>1. ConstructorCalls(p) = ais8_to_pydict(p)
        BY <3>3 DEF ConstructorCalls
      <4>2. ais8_to_pydict(p) = AisMsg(p) \o Ais8(p)
        BY <1>3, <3>1, NoApplication DEF ais8_to_pydict
      <4> QED
        BY <4>1, <4>2
    <3> QED
      BY <1>1, <1>5, <3>2, <3>3
  <2>2. ~ Unguarded(p)
    <3>1. ASSUME NEW dac, NEW fi PROVE ~ Constructs(p, dac, fi)
      BY <1>1, <1>3, <1>5, NoApplication DEF Constructs
    <3>2. Application(p) # << 200, 50 >>
      BY <1>3
    <3> QED
      BY <1>5, <3>1, <3>2 DEF Unguarded, Unguarded8
  <2> QED
    BY <1>0, <1>2, <1>4, <2>1, <2>2, ErrorDue DEF Ends
<1>6. CASE p.caller = "direct"
  <2>1. Due(p, "aborted")
    <3>1. Unguarded8(p)
      BY <1>1, <1>6 DEF Unguarded8
    <3> QED
      BY <3>1 DEF Due, Unguarded
  <2>2. ConstructorCalls(p) = Construct8(p, p.dac, p.fi)
    BY <1>6 DEF ConstructorCalls
  <2>3. e \in Statuses
    BY StatusesDiffer
  <2>4. CASE p.fi = 22
    <3>1. Construct8(p, 366, 22) = AisMsg(p) \o Ais8(p) \o Ais8_366_22(p)
      BY DEF Construct8
    <3>2. ConstructorCalls(p) = AisMsg(p) \o Ais8(p) \o Ais8_366_22(p)
      BY <1>1, <1>6, <2>2, <2>4, <3>1
    <3>3. Halts(p, Ais8_366_22(p), y, e, "aborted")
      BY <1>3, <2>3, <2>4, NotIts366
    <3>4. Halts(p, AisMsg(p) \o Ais8(p) \o Ais8_366_22(p), 0, Undecided, "aborted")
      BY <1>2, <3>3, LeadsThenHalts
    <3>5. Opens(p, AisMsg(p) \o Ais8(p) \o Ais8_366_22(p))
      BY <1>0, <3>3, OpensThen DEF Halts
    <3> QED
      BY <2>1, <3>2, <3>4, <3>5 DEF Begins, Outlook, Ends
  <2>5. CASE p.fi = 56
    <3>1. Construct8(p, 366, 56) = AisMsg(p) \o Ais8(p) \o Ais8_366_56(p)
      BY DEF Construct8
    <3>2. ConstructorCalls(p) = AisMsg(p) \o Ais8(p) \o Ais8_366_56(p)
      BY <1>1, <1>6, <2>2, <2>5, <3>1
    <3>3. Halts(p, Ais8_366_56(p), y, e, "aborted")
      BY <1>3, <2>3, NotIts366
    <3>4. Halts(p, AisMsg(p) \o Ais8(p) \o Ais8_366_56(p), 0, Undecided, "aborted")
      BY <1>2, <3>3, LeadsThenHalts
    <3>5. Opens(p, AisMsg(p) \o Ais8(p) \o Ais8_366_56(p))
      BY <1>0, <3>3, OpensThen DEF Halts
    <3> QED
      BY <2>1, <3>2, <3>4, <3>5 DEF Begins, Outlook, Ends
  <2> QED
    BY <1>1, <1>6, <2>4, <2>5
<1> QED
  BY <1>5, <1>6

(* An Ais8 that served to look for the application. *)
LEMMA Message8Unknown ==
  ASSUME NEW p, IsMessage(p), p.message_id = 8, Ais8Read(p), ~ Constructs(p, p.dac, p.fi)
  PROVE  Begins(p, ConstructorCalls(p))
<1>1. IsPayload(p) /\ p.caller \in {"cpp", "py", "direct"}
  BY DEF IsMessage
<1>2. LeftOpen(p)
  BY DEF LeftOpen
<1>3. Application(p) = << p.dac, p.fi >> /\ p.caller # "direct"
  BY DEF Application, Constructs
<1>4. << 200, 50 >> \in PyApplications8
  BY DEF PyApplications8
<1>5. p.caller = "py" => Application(p) \notin PyApplications8
  BY <1>3 DEF Constructs
<1>6. p.caller = "cpp" => Application(p) \notin CppApplications8
  BY <1>3 DEF Constructs
<1>7. ~ Unguarded(p)
  <2>1. ASSUME NEW dac, NEW fi PROVE ~ Constructs(p, dac, fi)
    BY ConstructsOnly
  <2>2. ~ (p.caller = "py" /\ Application(p) = << 200, 50 >>)
    BY <1>4, <1>5
  <2> QED
    BY <1>3, <2>1, <2>2 DEF Unguarded, Unguarded8
<1>8. ConstructorCalls(p) = AisMsg(p) \o Ais8(p)
  <2>1. CASE p.caller = "cpp"
    BY <1>6, <2>1 DEF ConstructorCalls, CreateAisMsg8
  <2>2. CASE p.caller = "py"
    <3>1. ConstructorCalls(p) = ais8_to_pydict(p)
      BY <2>2 DEF ConstructorCalls
    <3>2. ais8_to_pydict(p) = AisMsg(p) \o Ais8(p)
      BY <1>4, <1>5, <2>2 DEF ais8_to_pydict
    <3> QED
      BY <3>1, <3>2
  <2> QED
    BY <1>1, <1>3, <2>1, <2>2
<1>9. Runs(p, AisMsg(p) \o Ais8(p), 0, 56)
  BY <1>1, Ais8Runs
<1> QED
  BY <1>1, <1>2, <1>7, <1>8, <1>9, HeaderOpens, OpenDue

(* Messages 8. *)
LEMMA Message8Due ==
  ASSUME NEW p, IsMessage(p), p.message_id = 8
  PROVE  Begins(p, ConstructorCalls(p))
<1>1. IsPayload(p)
  BY DEF IsMessage
<1>2. CASE ~ Ais8Read(p)
  BY <1>2, Message8Refused
<1>3. CASE Ais8Read(p) /\ ~ Constructs(p, p.dac, p.fi)
  BY <1>3, Message8Unknown
<1>4. CASE Ais8Read(p) /\ Constructs(p, p.dac, p.fi)
  <2> DEFINE head == AisMsg(p) \o Ais8(p)
  <2>1. HeaderRead(p) /\ NumBits(p) \in 56 .. 1008
    <3>1. HeaderRead(p) /\ NumBits(p) - 56 \in 0 .. 952
      BY <1>4 DEF Ais8Read
    <3>2. NumBits(p) \in Int
      BY <1>1, PayloadBits
    <3> QED
      BY <3>1, <3>2
  <2>2. Runs(p, head, 0, 56)
    BY <1>1, <1>4, Ais8Runs
  <2>0. Opens(p, head)
    BY <1>1, HeaderOpens
  <2>3. Application(p) = << p.dac, p.fi >>
    BY <1>4 DEF Application
  <2>4. LeftOpen(p) <=> p.dac = 1 /\ p.fi = 19
    BY <1>4, ConstructsOnly DEF LeftOpen
  <2>5. CASE p.dac = 200 /\ p.fi = 50
    <3> DEFINE dac == 200
               fi == 55
    <3>1. ConstructorCalls(p) = Construct8(p, 200, 55)
      BY <1>4, <2>5, Applications8
    <3>2. Construct8(p, 200, 55) = head \o Ais8_200_55(p)
      BY DEF Construct8
    <3>3. Due(p, "aborted")
      <4>1. p.caller = "py"
        BY <1>4, <2>5, Applications8
      <4>2. Unguarded8(p)
        BY <2>3, <2>5, <4>1 DEF Unguarded8
      <4> QED
        BY <4>2 DEF Due, Unguarded
    <3>4. Application(p) # << dac, fi >>
      BY <2>3, <2>5
    <3>5. PICK ok \in BOOLEAN : \E calls :
            Ais8_200_55(p) = Applied(p, dac, fi, ok, calls)
            /\ (ok => Gives(p, calls, 56, "AIS_OK"))
      BY <1>1, Ais8_200_55Calls
    <3>6. PICK calls : Ais8_200_55(p) = Applied(p, dac, fi, ok, calls)
                       /\ (ok => Gives(p, calls, 56, "AIS_OK"))
      BY <3>5
    <3>7. Undecided \in Statuses
      BY DEF Statuses
    <3> HIDE DEF dac, fi, head
    <3>8. Halts(p, Ais8_200_55(p), 56, Undecided, "aborted")
      <4>1. ok => calls \in Seq(Shape)
        BY <3>6 DEF Gives, Halts
      <4> QED
        BY <3>4, <3>6, <3>7, <4>1, NotApplied
    <3>9. Halts(p, head \o Ais8_200_55(p), 0, Undecided, "aborted")
      BY <2>2, <3>8, LeadsThenHalts DEF Runs
    <3>10. Opens(p, head \o Ais8_200_55(p))
      BY <2>0, <3>8, OpensThen DEF Halts
    <3> QED
      BY <3>1, <3>2, <3>3, <3>9, <3>10 DEF Begins, Outlook, Ends
  <2>6. CASE ~ (p.dac = 200 /\ p.fi = 50)
    <3>1. ConstructorCalls(p) = Construct8(p, p.dac, p.fi)
      BY <1>4, <2>6, Applications8
    <3>2. CASE p.dac = 1 /\ p.fi = 19
      <4>1. Construct8(p, 1, 19) = head \o Ais8_1_19(p)
        BY DEF Construct8
      <4>2. ~ Unguarded(p)
        BY <1>4, <3>2, Unguarded8Is
      <4> HIDE DEF head
      <4>3. ConstructorCalls(p) = head \o Ais8_1_19(p)
        BY <3>1, <3>2, <4>1
      <4>4. PICK y \in Int : Runs(p, Ais8_1_19(p), 56, y)
        BY <1>1, <2>3, <3>2, Ais8_1_19Runs
      <4>5. Runs(p, head \o Ais8_1_19(p), 0, y)
        BY <2>2, <4>4, RunsThen
      <4>6. Opens(p, head \o Ais8_1_19(p))
        BY <2>0, <4>4, RunsTyped, OpensThen
      <4> QED
        BY <2>4, <3>2, <4>2, <4>3, <4>5, <4>6, OpenDue
    <3>3. CASE p.dac = 1 /\ p.fi = 22
      <4>1. Construct8(p, 1, 22) = head \o Ais8_1_22(p)
        BY DEF Construct8
      <4> HIDE DEF head
      <4>2. ConstructorCalls(p) = head \o Ais8_1_22(p)
        BY <3>1, <3>3, <4>1
      <4>3. Unguarded(p) <=>
              /\ NumBits(p) \in 198 .. 984
              /\ \E i \in 0 .. NumSub(p, 111, 87) - 2 : Kind(p, i) \in ReservedAreas
        BY <1>4, <3>3, Unguarded8Is
      <4>4. \/ Settles(p, Ais8_1_22(p), 56)
            \/ /\ ~ Unguarded(p)
               /\ \E y \in Int, e \in Errors : Leads(p, Ais8_1_22(p), 56, Undecided, y, e)
        BY <2>1, <2>3, <3>3, <4>3, Ais8_1_22Settles
      <4>5. ~ LeftOpen(p)
        BY <2>4, <3>3
      <4>6. CASE Settles(p, Ais8_1_22(p), 56)
        BY <2>0, <2>1, <2>2, <4>2, <4>5, <4>6, SettlesDue
      <4>7. CASE /\ ~ Unguarded(p)
                 /\ \E y \in Int, e \in Errors : Leads(p, Ais8_1_22(p), 56, Undecided, y, e)
        <5>1. PICK y \in Int, e \in Errors : Leads(p, Ais8_1_22(p), 56, Undecided, y, e)
          BY <4>7
        <5>2. Leads(p, head \o Ais8_1_22(p), 0, Undecided, y, e)
          BY <2>2, <5>1, LeadsThenLeads DEF Runs
        <5>3. Opens(p, head \o Ais8_1_22(p))
          BY <2>0, <5>1, OpensThen DEF Leads
        <5> QED
          BY <4>2, <4>5, <4>7, <5>2, <5>3, ErrorDue DEF Ends
      <4> QED
        BY <4>4, <4>6, <4>7
    <3>4. CASE ~ (p.dac = 1 /\ p.fi \in {19, 22})
      <4>1. ~ LeftOpen(p)
        BY <2>4, <3>4
      <4>2. PICK t : Construct8(p, p.dac, p.fi) = head \o t /\ Settles(p, t, 56)
        BY <1>4, <2>6, <3>4, Message8Settles
      <4> HIDE DEF head
      <4> QED
        BY <2>0, <2>1, <2>2, <3>1, <4>1, <4>2, SettlesDue
    <3> QED
      BY <3>2, <3>3, <3>4
  <2> QED
    BY <2>5, <2>6
<1> QED
  BY <1>2, <1>3, <1>4

(* Every message ends as it is due to. *)
LEMMA MessagesDue ==
  ASSUME NEW p, IsMessage(p), p.message_id \in 1 .. 27
  PROVE  Begins(p, ConstructorCalls(p))
<1>1. CASE p.message_id = 6
  BY <1>1, Message6Due
<1>2. CASE p.message_id = 8
  BY <1>2, Message8Due
<1>3. CASE p.message_id \notin {6, 8}
  <2>1. ConstructorCalls(p) = AisMsg(p) \o Constructor(p)
    BY <1>3 DEF ConstructorCalls
  <2> QED
    BY <1>3, <2>1, MessageDue
<1> QED
  BY <1>1, <1>2, <1>3

-----------------------------------------------------------------------------
(* The constructor keeps to its course.                                    *)

(* An outlook is of calls, from a cursor and a status. *)
LEMMA OutlookShape ==
  ASSUME NEW p, NEW s, NEW x, NEW u, Outlook(p, s, x, u)
  PROVE  s \in Seq(Shape) /\ x \in Int /\ u \in Statuses
<1>1. PICK v : Ends(p, s, x, u, v)
  BY DEF Outlook
<1>2. CASE Halts(p, s, x, u, v)
  <2>1. s \in Seq(Shape)
    BY <1>2 DEF Halts
  <2>2. PICK k \in 0 .. Len(s) - 1, y \in Int, w \in Statuses : Reach(p, s, k, x, u, y, w)
    BY <1>2 DEF Halts
  <2>3. k \in Nat
    BY <2>2
  <2> QED
    BY <2>1, <2>2, <2>3, ReachTyped
<1>3. CASE \E y \in Int : Leads(p, s, x, u, y, v)
  <2>1. s \in Seq(Shape) /\ \E y \in Int : Reach(p, s, Len(s), x, u, y, v)
    BY <1>3 DEF Leads
  <2>2. Len(s) \in Nat
    BY <2>1
  <2> QED
    BY <2>1, <2>2, ReachTyped
<1> QED
  BY <1>1, <1>2, <1>3 DEF Ends

(* The first call and those after it. *)
LEMMA TailOf ==
  ASSUME NEW s \in Seq(Shape), s # << >>
  PROVE  /\ Len(s) \in Nat /\ Len(s) > 0 /\ Head(s) = s[1] /\ s[1] \in Shape
         /\ Tail(s) \in Seq(Shape) /\ Len(Tail(s)) = Len(s) - 1
         /\ \A k \in 1 .. Len(s) - 1 : Tail(s)[k] = s[k + 1]
<1> DEFINE S == Shape
<1> HIDE DEF S
<1>1. s \in Seq(S)
  BY DEF S
<1>2. /\ Len(s) \in Nat /\ Len(s) > 0 /\ Head(s) = s[1] /\ s[1] \in S
      /\ Tail(s) \in Seq(S) /\ Len(Tail(s)) = Len(s) - 1
      /\ \A k \in 1 .. Len(s) - 1 : Tail(s)[k] = s[k + 1]
  BY <1>1
<1> QED
  BY <1>2 DEF S

(* The next call goes on, or is the last one. *)
LEMMA OutlookStep ==
  ASSUME NEW p, NEW s, NEW x, NEW u, Outlook(p, s, x, u), s # << >>
  PROVE  \/ \E z \in Int, w \in Statuses :
              Goes(p, s[1], x, u, z, w) /\ Outlook(p, Tail(s), z, w)
         \/ \E v : Stops(p, s[1], x, u, v) /\ Due(p, v)
<1>1. /\ s \in Seq(Shape) /\ Tail(s) \in Seq(Shape) /\ Len(s) \in Nat /\ Len(s) > 0
      /\ Len(Tail(s)) = Len(s) - 1 /\ \A k \in 1 .. Len(s) - 1 : Tail(s)[k] = s[k + 1]
  BY OutlookShape, TailOf
<1>2. PICK v : Ends(p, s, x, u, v) /\ Due(p, v)
  BY DEF Outlook
<1>3. CASE Halts(p, s, x, u, v)
  <2>1. PICK k \in 0 .. Len(s) - 1, y \in Int, w \in Statuses :
          Reach(p, s, k, x, u, y, w) /\ Stops(p, s[k + 1], y, w, v)
    BY <1>3 DEF Halts
  <2>2. CASE k = 0
    <3>1. y = x /\ w = u
      BY <2>1, <2>2 DEF Reach
    <3> QED
      BY <1>2, <2>1, <2>2, <3>1
  <2>3. CASE k > 0
    <3>1. k \in 1 .. Len(s) /\ k - 1 \in 0 .. Len(Tail(s)) - 1 /\ (k - 1) + 1 = k
          /\ k \in 1 .. Len(s) - 1
      BY <1>1, <2>1, <2>3
    <3>2. PICK z \in Int, q \in Statuses :
            Goes(p, s[1], x, u, z, q) /\ Reach(p, Tail(s), k - 1, z, q, y, w)
      BY <1>1, <2>1, <3>1, ReachTail
    <3>3. Stops(p, Tail(s)[(k - 1) + 1], y, w, v)
      BY <1>1, <2>1, <3>1
    <3>4. Halts(p, Tail(s), z, q, v)
      BY <1>1, <2>1, <3>1, <3>2, <3>3 DEF Halts
    <3> QED
      BY <1>2, <3>2, <3>4 DEF Outlook, Ends
  <2> QED
    BY <2>1, <2>2, <2>3
<1>4. CASE \E y \in Int : Leads(p, s, x, u, y, v)
  <2>1. PICK y \in Int : Reach(p, s, Len(s), x, u, y, v)
    BY <1>4 DEF Leads
  <2>2. Len(s) \in 1 .. Len(s)
    BY <1>1
  <2>3. PICK z \in Int, q \in Statuses :
          Goes(p, s[1], x, u, z, q) /\ Reach(p, Tail(s), Len(s) - 1, z, q, y, v)
    BY <1>1, <2>1, <2>2, ReachTail
  <2>4. Leads(p, Tail(s), z, q, y, v)
    BY <1>1, <2>3 DEF Leads
  <2> QED
    BY <1>2, <2>1, <2>3, <2>4 DEF Outlook, Ends
<1> QED
  BY <1>2, <1>3, <1>4 DEF Ends

(* Without a call left, the status is what is due. *)
LEMMA OutlookNone ==
  ASSUME NEW p, NEW x \in Int, NEW u \in Statuses
  PROVE  Outlook(p, << >>, x, u) <=> Due(p, u)
<1>1. << >> \in Seq(Shape) /\ Len(<< >>) = 0
  OBVIOUS
<1>2. ASSUME Due(p, u) PROVE Outlook(p, << >>, x, u)
  <2>1. Leads(p, << >>, x, u, x, u)
    BY <1>1, ReachNone DEF Leads
  <2> QED
    BY <1>2, <2>1 DEF Outlook, Ends
<1>3. ASSUME Outlook(p, << >>, x, u) PROVE Due(p, u)
  <2>1. PICK v : Ends(p, << >>, x, u, v) /\ Due(p, v)
    BY <1>3 DEF Outlook
  <2>2. ~ Halts(p, << >>, x, u, v)
    BY <1>1 DEF Halts
  <2>3. PICK y \in Int : Leads(p, << >>, x, u, y, v)
    BY <2>1, <2>2 DEF Ends
  <2>4. v = u
    BY <1>1, <2>3 DEF Leads, Reach
  <2> QED
    BY <2>1, <2>4
<1> QED
  BY <1>2, <1>3

(* aborted is due exactly to unguarded payloads. *)
LEMMA StatusDue ==
  ASSUME NEW p, NEW v, Due(p, v)
  PROVE  /\ v = "aborted" <=> Unguarded(p)
         /\ v # "aborted" => v \in Statuses
         /\ v \in Given \cup {""} => v \in Statuses
         /\ v \in Statuses => v # "aborted"
  BY DEF Due, Statuses, Given, Errors, Undecided

(* Where a constructor is on its way to what is due. *)
Course ==
  /\ payload \in Payloads
  /\ aborted \in BOOLEAN
  /\ ~ aborted => /\ \/ message_id = MessageId(payload)
                     \/ rest # << >> /\ rest[1].op = "message_id"
                  /\ Outlook(payload, rest, position, status)
  /\ aborted => Unguarded(payload) /\ rest = << >>
  /\ fields \in Seq(Int \X Int)
  /\ \A i \in DOMAIN fields : fields[i][1] + fields[i][2] <= Limit(payload)

(* A call that goes on leads where Goes says. *)
LEMMA GoesOn ==
  ASSUME Course, Next, ~ aborted, NEW z \in Int, NEW w \in Statuses,
         rest # << >>, Goes(payload, rest[1], position, status, z, w),
         Outlook(payload, Tail(rest), z, w)
  PROVE  Course'
<1> DEFINE c == rest[1]
<1>0. /\ rest \in Seq(Shape) /\ c \in Shape /\ Head(rest) = c /\ call = c
      /\ position \in Int /\ status \in Statuses
  BY OutlookShape, TailOf DEF Course, call
<1>1. IsPayload(payload) /\ NumBits(payload) \in Int /\ Limit(payload) \in Int
      /\ 6 * NumChars(payload) \in Int
      /\ NumBits(payload) <= Limit(payload) /\ Limit(payload) <= 6 * NumChars(payload)
  BY PayloadsAreSized, PayloadBits DEF Course
<1>2. c.at \in Int /\ c.len \in Int /\ c.op \in OpKinds
  BY <1>0 DEF Shape
<1>3. ~ CallTo({"return"})
  BY <1>0 DEF CallTo, Goes
<1> HIDE DEF c
<1>4. CASE Read
  <2>1. c.op \in {"read", "text", "message_id"}
    BY <1>0, <1>4 DEF Read, CallTo
  <2>2. c.at = position /\ z = position + c.len /\ z <= Limit(payload) /\ w = status
        /\ (c.op = "message_id" => HeaderRead(payload))
    BY <2>1 DEF Goes, c
  <2>3. /\ position' = z /\ status' = w /\ rest' = Tail(rest) /\ payload' = payload
        /\ aborted' = aborted /\ fields' = Append(fields, << c.at, c.len >>)
        /\ message_id' = IF c.op = "message_id" THEN payload.message_id ELSE message_id
    BY <1>0, <1>2, <1>4, <2>2 DEF Read, Step
  <2>4. message_id' = MessageId(payload)
    BY <2>2, <2>3 DEF Course, MessageId, c
  <2>5. /\ fields' \in Seq(Int \X Int)
        /\ \A i \in DOMAIN fields' : fields'[i][1] + fields'[i][2] <= Limit(payload)
    <3> DEFINE f == << c.at, c.len >>
    <3>1. f \in Int \X Int /\ f[1] + f[2] <= Limit(payload)
      BY <1>2, <2>2
    <3>2. fields \in Seq(Int \X Int) /\ fields' = Append(fields, f)
          /\ \A i \in DOMAIN fields : fields[i][1] + fields[i][2] <= Limit(payload)
      BY <2>3 DEF Course
    <3> HIDE DEF f
    <3>3. fields' \in Seq(Int \X Int)
      BY <3>1, <3>2
    <3>4. ASSUME NEW i \in DOMAIN fields'
          PROVE  fields'[i][1] + fields'[i][2] <= Limit(payload)
      <4>1. CASE i \in DOMAIN fields
        <5>1. fields'[i] = fields[i]
          BY <3>2, <4>1
        <5> QED
          BY <3>2, <4>1, <5>1
      <4>2. CASE i \notin DOMAIN fields
        <5>1. fields'[i] = f
          BY <3>2, <3>4, <4>2
        <5> QED
          BY <3>1, <5>1
      <4> QED
        BY <4>1, <4>2
    <3> QED
      BY <3>3, <3>4
  <2> QED
    BY <2>3, <2>4, <2>5 DEF Course
<1>5. ASSUME payload' = payload, aborted' = aborted, rest' = Tail(rest), position' = z,
             status' = w, message_id' = message_id, fields' = fields,
             c.op # "message_id"
      PROVE  Course'
  <2>1. message_id' = MessageId(payload)
    BY <1>5 DEF Course, c
  <2> QED
    BY <1>5, <2>1 DEF Course
<1>6. CASE Seek
  <2>1. c.op \in {"seek", "skip"}
    BY <1>0, <1>6 DEF Seek, CallTo
  <2>2. z = (IF c.op = "seek" THEN c.at ELSE position + c.at) /\ w = status
    BY <2>1 DEF Goes, c
  <2> QED
    BY <1>0, <1>5, <1>6, <2>1, <2>2 DEF Seek, Step
<1>7. CASE NewBitset
  <2>1. c.op = "new_bitset"
    BY <1>0, <1>7 DEF NewBitset, CallTo
  <2>2. z = 0 /\ w = status
    BY <2>1 DEF Goes, c
  <2> QED
    BY <1>5, <1>7, <2>1, <2>2 DEF NewBitset, Step
<1>8. CASE AssertionHolds
  <2>1. c.op \in {"none_remaining", "remaining_below", "id"}
    BY <1>0, <1>8 DEF AssertionHolds, CallTo
  <2>2. z = position /\ w = status
    BY <2>1 DEF Goes, c
  <2> QED
    BY <1>5, <1>8, <2>1, <2>2 DEF AssertionHolds, Step
<1>9. CASE AssertionFails
  <2>1. ~ Holds
    BY <1>9 DEF AssertionFails
  <2>2. CASE c.op \in {"read", "text", "message_id"}
    <3>1. c.at = position /\ c.at + c.len <= 6 * NumChars(payload)
          /\ (c.op = "read" => c.len <= 32) /\ (c.op = "text" => c.len % 6 = 0)
      BY <1>0, <1>1, <1>2, <2>2 DEF Goes, c
    <3>2. InPayload(c.at, c.len)
      BY <3>1 DEF InPayload
    <3> QED
      BY <1>0, <2>1, <2>2, <3>1, <3>2 DEF Holds
  <2>3. CASE c.op \in {"seek", "skip"}
    <3>1. (c.op = "seek" => c.at < NumBits(payload))
          /\ (c.op = "skip" => position + c.at \in 0 .. NumBits(payload) - 1)
      BY <2>3 DEF Goes, c
    <3>2. c.op = "skip" => position + c.at >= 0 /\ position + c.at < NumBits(payload)
      BY <1>0, <1>1, <1>2, <3>1
    <3> QED
      BY <1>0, <2>1, <2>3, <3>1, <3>2 DEF Holds
  <2>4. CASE c.op = "none_remaining"
    BY <1>0, <2>1, <2>4 DEF Goes, Holds, c
  <2>5. CASE c.op = "remaining_below"
    BY <1>0, <2>1, <2>5 DEF Goes, Holds, c
  <2>6. CASE c.op = "id"
    <3>1. MessageId(payload) \in c.ids /\ message_id = MessageId(payload)
      BY <2>6 DEF Goes, Course, c
    <3> QED
      BY <1>0, <2>1, <2>6, <3>1 DEF Holds
  <2>7. CASE c.op \in {"new_bitset", "check_status", "set_status"}
    BY <1>0, <2>1, <2>7 DEF Holds
  <2>8. c.op \notin {"return", "assert_false"}
    BY DEF Goes, c
  <2> QED
    BY <1>2, <2>2, <2>3, <2>4, <2>5, <2>6, <2>7, <2>8 DEF OpKinds
<1>10. CASE StatusOk
  <2>1. c.op = "check_status"
    BY <1>0, <1>10 DEF StatusOk, CallTo
  <2>2. z = position /\ w = status
    BY <2>1 DEF Goes, c
  <2> QED
    BY <1>5, <1>10, <2>1, <2>2 DEF StatusOk, Step
<1>11. CASE StatusBad
  <2>1. c.op = "check_status" /\ Bad(status)
    BY <1>0, <1>11 DEF StatusBad, CallTo, Bad, Undecided
  <2> QED
    BY <2>1 DEF Goes, c
<1>12. CASE GiveStatus
  <2>1. c.op = "set_status"
    BY <1>0, <1>3, <1>12 DEF GiveStatus, CallTo
  <2>2. z = position /\ w = c.what
    BY <2>1 DEF Goes, c
  <2> QED
    BY <1>0, <1>5, <1>12, <2>1, <2>2 DEF GiveStatus
<1> QED
  BY <1>4, <1>6, <1>7, <1>8, <1>9, <1>10, <1>11, <1>12 DEF Next

(* The last call leaves what is due. *)
LEMMA StopsThere ==
  ASSUME Course, Next, ~ aborted, NEW v,
         rest # << >>, Stops(payload, rest[1], position, status, v), Due(payload, v)
  PROVE  Course'
<1> DEFINE c == rest[1]
<1>0. /\ rest \in Seq(Shape) /\ c \in Shape /\ Head(rest) = c /\ call = c
      /\ position \in Int /\ status \in Statuses
  BY OutlookShape, TailOf DEF Course, call
<1>1. IsPayload(payload) /\ NumBits(payload) \in Int /\ 6 * NumChars(payload) \in Int
  BY PayloadsAreSized, PayloadBits DEF Course
<1>2. c.at \in Int /\ c.len \in Int /\ c.op \in OpKinds /\ c.what \in Given \cup {""}
  BY <1>0 DEF Shape
<1>9. c.at \in Int /\ c.len \in Int
  BY <1>2
<1>3. c.op \in {"return", "check_status", "read", "text", "seek", "none_remaining", "id",
                "assert_false"}
  BY DEF Stops, c
<1> HIDE DEF c
<1>4. message_id = MessageId(payload)
  BY <1>3 DEF Course, c
<1>5. CASE c.op = "return"
  <2>1. v = c.what
    BY <1>5 DEF Stops, c
  <2>2. v \in Statuses
    BY <1>2, <2>1, StatusDue
  <2>3. GiveStatus
    BY <1>0, <1>5 DEF Next, Read, Seek, NewBitset, AssertionHolds, AssertionFails, StatusOk,
                      StatusBad, CallTo, Holds
  <2>4. /\ status' = v /\ rest' = << >> /\ payload' = payload /\ position' = position
        /\ message_id' = message_id /\ aborted' = aborted /\ fields' = fields
    BY <1>0, <1>5, <2>1, <2>3 DEF GiveStatus
  <2>5. Outlook(payload, << >>, position, v)
    BY <1>0, <2>2, OutlookNone
  <2> QED
    BY <1>4, <2>4, <2>5 DEF Course
<1>6. CASE c.op = "check_status"
  <2>1. v = status /\ Bad(status)
    BY <1>6 DEF Stops, c
  <2>2. StatusBad
    BY <1>0, <1>6, <2>1 DEF Next, Read, Seek, NewBitset, AssertionHolds, AssertionFails, StatusOk,
                      GiveStatus, CallTo, Holds, Bad, Undecided
  <2>4. /\ status' = status /\ rest' = << >> /\ payload' = payload /\ position' = position
        /\ message_id' = message_id /\ aborted' = aborted /\ fields' = fields
    BY <2>2 DEF StatusBad
  <2>5. Outlook(payload, << >>, position, status)
    BY <1>0, <2>1, OutlookNone
  <2> QED
    BY <1>4, <2>4, <2>5 DEF Course
<1>7. CASE c.op \in {"read", "text", "seek", "none_remaining", "id", "assert_false"}
  <2>1. v = "aborted"
    BY <1>7 DEF Stops, c
  <2>2. Unguarded(payload)
    BY <2>1, StatusDue
  <2>3. ~ Holds
    <3>1. CASE c.op \in {"read", "text"}
      <4>1. c.at # position \/ c.at + c.len > 6 * NumChars(payload)
        BY <3>1 DEF Stops, c
      <4>2. ~ InPayload(c.at, c.len)
        BY <1>1, <1>9, <4>1 DEF InPayload
      <4> QED
        BY <1>0, <3>1, <4>2 DEF Holds
    <3>2. CASE c.op = "seek"
      <4>1. c.at >= NumBits(payload)
        BY <3>2 DEF Stops, c
      <4>2. ~ (c.at < NumBits(payload))
        BY <1>1, <1>9, <4>1
      <4> QED
        BY <1>0, <3>2, <4>2 DEF Holds
    <3>3. CASE c.op = "none_remaining"
      BY <1>0, <3>3 DEF Stops, Holds, c
    <3>4. CASE c.op = "id"
      BY <1>0, <1>4, <3>4 DEF Stops, Holds, c
    <3>5. CASE c.op = "assert_false"
      BY <1>0, <3>5 DEF Holds
    <3> QED
      BY <1>7, <3>1, <3>2, <3>3, <3>4, <3>5
  <2>4. AssertionFails
    BY <1>0, <1>7, <2>3 DEF Next, Read, Seek, NewBitset, AssertionHolds, StatusOk, StatusBad,
                            GiveStatus, CallTo
  <2>5. /\ status' = status /\ rest' = << >> /\ payload' = payload
        /\ aborted' = TRUE /\ fields' = fields
    BY <2>4 DEF AssertionFails
  <2> QED
    BY <2>2, <2>5 DEF Course
<1> QED
  BY <1>3, <1>5, <1>6, <1>7

(* Every call keeps to the course. *)
LEMMA NextCourse == Course /\ [Next]_vars => Course'
<1> SUFFICES ASSUME Course, [Next]_vars PROVE Course'
  OBVIOUS
<1>1. CASE UNCHANGED vars
  BY <1>1 DEF vars, Course
<1>2. CASE Next
  <2>1. rest # << >>
    BY <1>2 DEF Next, Read, Seek, NewBitset, AssertionHolds, AssertionFails, StatusOk,
                StatusBad, GiveStatus, CallTo, Ended
  <2>2. ~ aborted /\ Outlook(payload, rest, position, status)
    BY <2>1 DEF Course
  <2>3. CASE \E z \in Int, w \in Statuses :
               Goes(payload, rest[1], position, status, z, w)
               /\ Outlook(payload, Tail(rest), z, w)
    BY <1>2, <2>1, <2>2, <2>3, GoesOn
  <2>4. CASE \E v : Stops(payload, rest[1], position, status, v) /\ Due(payload, v)
    BY <1>2, <2>1, <2>2, <2>4, StopsThere
  <2> QED
    BY <2>1, <2>2, <2>3, <2>4, OutlookStep
<1> QED
  BY <1>1, <1>2

(* What the course says of the invariants. *)
LEMMA CourseMeans == Course => AssertsFailExactly /\ NoPadRead /\ Decided
<1> SUFFICES ASSUME Course PROVE AssertsFailExactly /\ NoPadRead /\ Decided
  OBVIOUS
<1>1. ASSUME Ended, ~ aborted
      PROVE  /\ status \in Statuses /\ Due(payload, status)
             /\ message_id = MessageId(payload)
  <2>1. rest = << >> /\ Outlook(payload, rest, position, status)
    BY <1>1 DEF Course, Ended
  <2>2. position \in Int /\ status \in Statuses
    BY <2>1, OutlookShape
  <2>3. Due(payload, status)
    BY <2>1, <2>2, OutlookNone
  <2> QED
    BY <1>1, <2>1, <2>2, <2>3 DEF Course
<1>2. AssertsFailExactly
  <2>1. aborted => Unguarded(payload)
    BY DEF Course
  <2>2. Ended /\ ~ aborted => ~ Unguarded(payload)
    BY <1>1, StatusDue
  <2> QED
    BY <2>1, <2>2 DEF AssertsFailExactly, Course
<1>3. NoPadRead
  BY DEF NoPadRead, Limit, Course
<1>4. Decided
  <2> SUFFICES ASSUME Ended, ~ aborted
      PROVE /\ status = "AIS_UNINITIALIZED" <=> LeftOpen(payload)
            /\ status = "AIS_OK" => HeaderRead(payload) /\ message_id = payload.message_id
    BY DEF Decided
  <2>1. status \in Statuses /\ Due(payload, status) /\ message_id = MessageId(payload)
    BY <1>1
  <2>2. ~ Unguarded(payload)
    BY <2>1, StatusDue
  <2> QED
    BY <2>1, <2>2 DEF Due, MessageId, Undecided
<1> QED
  BY <1>2, <1>3, <1>4

(* A constructor begins on course. *)
LEMMA InitCourse ==
  ASSUME \A p \in Payloads : p.message_id \in 1 .. 27
  PROVE  Init => Course
<1> SUFFICES ASSUME Init PROVE Course
  OBVIOUS
<1>1. /\ payload \in Payloads /\ rest = Calls(payload) /\ position = 0 /\ message_id = 0
      /\ status = Undecided /\ aborted = FALSE /\ fields = << >>
  BY DEF Init, Undecided
<1>2. Begins(payload, rest)
  BY <1>1, MessagesAreConstructed, MessagesDue
<1>3. Outlook(payload, rest, position, status)
  BY <1>1, <1>2 DEF Begins
<1>4. message_id = MessageId(payload) \/ (rest # << >> /\ rest[1].op = "message_id")
  BY <1>1, <1>2 DEF Begins, Opens, MessageId
<1>5. fields \in Seq(Int \X Int) /\ DOMAIN fields = {}
  BY <1>1
<1> QED
  BY <1>1, <1>3, <1>4, <1>5 DEF Course

(* Whatever the payloads of messages 1 to 27 are, the assertions fail on   *)
(* those that Unguarded names and on no other.                             *)
THEOREM ConstructorsAbortExactly ==
  ASSUME \A p \in Payloads : p.message_id \in 1 .. 27
  PROVE  Spec => []AssertsFailExactly
<1>1. Init => Course
  BY InitCourse
<1>2. Course => AssertsFailExactly
  BY CourseMeans
<1> QED
  BY <1>1, <1>2, NextCourse, PTL DEF Spec

(* No field takes in a bit of pad, but for those NoPadRead excepts.        *)
THEOREM PadStaysUnread ==
  ASSUME \A p \in Payloads : p.message_id \in 1 .. 27
  PROVE  Spec => []NoPadRead
<1>1. Init => Course
  BY InitCourse
<1>2. Course => NoPadRead
  BY CourseMeans
<1> QED
  BY <1>1, <1>2, NextCourse, PTL DEF Spec

(* A constructor that ends has settled its status, but for LeftOpen.       *)
THEOREM ConstructorsDecide ==
  ASSUME \A p \in Payloads : p.message_id \in 1 .. 27
  PROVE  Spec => []Decided
<1>1. Init => Course
  BY InitCourse
<1>2. Course => Decided
  BY CourseMeans
<1> QED
  BY <1>1, <1>2, NextCourse, PTL DEF Spec

=============================================================================
