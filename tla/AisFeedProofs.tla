---------------------------- MODULE AisFeedProofs ----------------------------
(***************************************************************************)
(* Theorems about VdmStream at the end of a feed, for every schedule, any  *)
(* number of stations, losses and repeats.  What the stream itself promises *)
(* comes from VdmStreamProofs, for FeedSpec implies Spec; the invariant of *)
(* the feed says in which order the lines of one station arrive.           *)
(***************************************************************************)
EXTENDS AisFeed, VdmStreamProofs, FiniteSetTheorems

ChunkAt(st, p) == << st, p.message, p.part >>

Before(p, q) ==
  \/ p.message < q.message
  \/ p.message = q.message /\ p.part < q.part

(* Line k of the stream is the one the station sends at that place. *)
IsLine(k, st, p) == heard[k] = Create(LineOf(st, p), k)

NextOK ==
  /\ next \in [Stations -> [message : Nat \ {0}, part : Nat \ {0}]]
  /\ \A st \in Stations : More(st) => next[st] \in Places(st)

(* Lines of a station arrive in the order it sends them in, ... *)
InOrder ==
  /\ \A k \in DOMAIN heard : \E st \in Stations : \E p \in Places(st) :
       IsLine(k, st, p) /\ Before(p, next[st])
  /\ \A a, b \in DOMAIN heard, st \in Stations : \A p, q \in Places(st) :
       a < b /\ IsLine(a, st, p) /\ IsLine(b, st, q) => ~ Before(q, p)

(* ... and one that was sent and did not arrive is among the lost. *)
HeardOrLost ==
  \A st \in Stations : \A p \in Places(st) :
    Before(p, next[st]) => \/ ChunkAt(st, p) \in lost
                           \/ \E k \in DOMAIN heard : IsLine(k, st, p)

FewLost == IsFiniteSet(lost) /\ Cardinality(lost) <= MaxLost

FeedOK == NextOK /\ InOrder /\ HeardOrLost /\ FewLost

-----------------------------------------------------------------------------

LEMMA PlaceFields ==
  ASSUME NEW st \in Stations, NEW p \in Places(st)
  PROVE  /\ p = [message |-> p.message, part |-> p.part]
         /\ p.message \in DOMAIN Schedule[st]
         /\ p.message \in Nat \ {0}
         /\ p.part \in 1 .. Schedule[st][p.message].total
         /\ p.part \in Nat \ {0}
         /\ Schedule[st][p.message].total \in 1 .. kMaxSentences - 1
<1>1. PICK m \in DOMAIN Schedule[st] :
        p \in [message : {m}, part : 1 .. Schedule[st][m].total]
  BY DEF Places
<1>2. /\ p = [message |-> p.message, part |-> p.part]
      /\ p.message = m
      /\ p.part \in 1 .. Schedule[st][m].total
  BY <1>1
<1>3. Schedule[st][m].total \in 1 .. kMaxSentences - 1 /\ m \in Nat \ {0}
  <2>1. Schedule[st] \in Seq(Sendable)
    BY ScheduleOfMessages
  <2>2. Schedule[st][m] \in Sendable /\ m \in Nat \ {0}
    BY <1>1, <2>1
  <2> QED
    BY <2>2 DEF Sendable
<1> QED
  BY <1>1, <1>2, <1>3

LEMMA IsPlace ==
  ASSUME NEW st \in Stations, NEW m \in DOMAIN Schedule[st],
         NEW part \in 1 .. Schedule[st][m].total
  PROVE  [message |-> m, part |-> part] \in Places(st)
<1> [message |-> m, part |-> part]
      \in [message : {m}, part : 1 .. Schedule[st][m].total]
  OBVIOUS
<1> QED
  BY DEF Places

(* What the stream makes of the line of a place. *)
LEMMA LineAtPlace ==
  ASSUME NEW st \in Stations, NEW p \in Places(st), NEW k \in Nat
  PROVE  LET s == Create(LineOf(st, p), k)
             m == Schedule[st][p.message]
         IN  /\ LineOf(st, p) \in Lines
             /\ s # NoSentence
             /\ s.talker = m.talker
             /\ s.total = m.total
             /\ s.number = p.part
             /\ s.seq = IF m.seq = << >> THEN kNoSequenceNumber ELSE m.seq[1]
             /\ s.channel = m.channel
             /\ s.body = << ChunkAt(st, p) >>
<1> DEFINE line == LineOf(st, p)
           m == Schedule[st][p.message]
<1>1. line \in Lines
  BY LinesAreScheduled
<1>2. m \in Sendable
  <2>1. p.message \in DOMAIN Schedule[st]
    BY PlaceFields
  <2>2. Schedule[st] \in Seq(Sendable)
    BY ScheduleOfMessages
  <2> QED
    BY <2>1, <2>2
<1>3. line = [framed |-> TRUE, talker |-> m.talker, total |-> m.total,
              number |-> p.part, seq |-> m.seq, channel |-> m.channel,
              body |-> ChunkAt(st, p), fill |-> 0]
  BY DEF LineOf, ChunkAt
<1>4. p.part \in 1 .. m.total
  BY PlaceFields
<1>5. CharsIn[line.body] \in 1 .. MaxBodyChars
  BY <1>1, ChunksFit
<1> HIDE DEF line, m
<1>6. line.seq = << >> \/ line.seq[1] \in SequenceNumbers
  BY <1>2, <1>3 DEF Sendable
<1>7. ValidNumbers(line)
  BY <1>2, <1>3, <1>4, <1>6 DEF Sendable, ValidNumbers, kMaxSentences
<1>8. ValidLine(line)
  BY <1>3, <1>5, <1>7 DEF ValidLine, MaxFillBits
<1>9. Create(line, k) =
        [talker      |-> m.talker,
         total       |-> m.total,
         number      |-> p.part,
         seq         |-> SequenceNumber(line),
         channel     |-> m.channel,
         body        |-> << ChunkAt(st, p) >>,
         fill_bits   |-> 0,
         line_number |-> k]
  BY <1>3, <1>8 DEF Create
<1>10. DOMAIN Create(line, k) # DOMAIN NoSentence
  <2>1. "talker" \in DOMAIN Create(line, k)
    BY <1>9
  <2>2. "talker" \notin DOMAIN NoSentence
    BY DEF NoSentence
  <2> QED
    BY <2>1, <2>2
<1>11. SequenceNumber(line) = IF m.seq = << >> THEN kNoSequenceNumber ELSE m.seq[1]
  BY <1>3 DEF SequenceNumber
<1>12. LET s == Create(line, k)
       IN  /\ s # NoSentence
           /\ s.talker = m.talker
           /\ s.total = m.total
           /\ s.number = p.part
           /\ s.seq = SequenceNumber(line)
           /\ s.channel = m.channel
           /\ s.body = << ChunkAt(st, p) >>
  BY <1>9, <1>10
<1> QED
  BY <1>1, <1>11, <1>12 DEF line, m

(* A line is told from all others by its payload. *)
LEMMA SameLine ==
  ASSUME NEW k \in Nat, NEW st \in Stations, NEW p \in Places(st),
         NEW su \in Stations, NEW q \in Places(su),
         Create(LineOf(st, p), k) = Create(LineOf(su, q), k)
  PROVE  st = su /\ p = q
<1>1. << ChunkAt(st, p) >> = << ChunkAt(su, q) >>
  BY LineAtPlace
<1>2. ChunkAt(st, p) = ChunkAt(su, q)
  BY <1>1
<1>3. st = su /\ p.message = q.message /\ p.part = q.part
  BY <1>2 DEF ChunkAt
<1> QED
  BY <1>3, PlaceFields

(* What follows a place comes after it, and nothing is in between. *)
LEMMA NothingBetween ==
  ASSUME NEW st \in Stations, NEW p \in Places(st)
  PROVE  LET f == Following(st, p) IN
         /\ f \in [message : Nat \ {0}, part : Nat \ {0}]
         /\ f.message \in DOMAIN Schedule[st] => f \in Places(st)
         /\ Before(p, f)
         /\ \A q \in Places(st) : Before(q, f) <=> q = p \/ Before(q, p)
         /\ \A q \in Places(st) : Before(q, f) => ~ Before(p, q)
<1> DEFINE f == Following(st, p)
           total == Schedule[st][p.message].total
<1>1. /\ p = [message |-> p.message, part |-> p.part]
      /\ p.message \in DOMAIN Schedule[st]
      /\ p.message \in Nat \ {0}
      /\ p.part \in Nat \ {0}
      /\ p.part \in 1 .. total
      /\ total \in Nat
  BY PlaceFields DEF kMaxSentences
<1>2. ASSUME NEW q \in Places(st)
      PROVE  /\ q = [message |-> q.message, part |-> q.part]
             /\ q.message \in Nat \ {0}
             /\ q.part \in Nat \ {0}
             /\ q.message = p.message => q.part <= total
  BY PlaceFields
<1>3. \A m \in DOMAIN Schedule[st] : 1 \in 1 .. Schedule[st][m].total
  <2>1. Schedule[st] \in Seq(Sendable)
    BY ScheduleOfMessages
  <2>2. ASSUME NEW m \in DOMAIN Schedule[st]
        PROVE  1 \in 1 .. Schedule[st][m].total
    <3>1. Schedule[st][m] \in Sendable
      BY <2>1
    <3>2. Schedule[st][m].total \in 1 .. kMaxSentences - 1
      BY <3>1 DEF Sendable
    <3> QED
      BY <3>2 DEF kMaxSentences
  <2> QED
    BY <2>2
<1>4. CASE p.part = total
  <2>1. f = [message |-> p.message + 1, part |-> 1]
    BY <1>4 DEF Following
  <2>2. f.message \in DOMAIN Schedule[st] => f \in Places(st)
    BY <1>3, <2>1, IsPlace
  <2> HIDE DEF f, total
  <2>3. ASSUME NEW q \in Places(st)
        PROVE  /\ Before(q, f) <=> q = p \/ Before(q, p)
               /\ Before(q, f) => ~ Before(p, q)
    BY <1>1, <1>2, <1>4, <2>1 DEF Before
  <2> QED
    BY <1>1, <2>1, <2>2, <2>3 DEF Before, f
<1>5. CASE p.part # total
  <2>1. f = [message |-> p.message, part |-> p.part + 1]
    BY <1>5 DEF Following
  <2>2. f \in Places(st)
    BY <1>1, <1>5, <2>1, IsPlace
  <2> HIDE DEF f, total
  <2>3. ASSUME NEW q \in Places(st)
        PROVE  /\ Before(q, f) <=> q = p \/ Before(q, p)
               /\ Before(q, f) => ~ Before(p, q)
    BY <1>1, <1>2, <1>5, <2>1 DEF Before
  <2> QED
    BY <1>1, <2>1, <2>2, <2>3 DEF Before, f
<1> QED
  BY <1>4, <1>5

(* Every step of the feed is a step of the stream or leaves it alone. *)
LEMMA FeedStep ==
  ASSUME NextOK, FeedNext
  PROVE  [Next]_vars
<1>1. ASSUME NEW st \in Stations, Receive(st) PROVE Next
  <2>1. next[st] \in Places(st)
    BY <1>1 DEF NextOK, Receive
  <2>2. LineOf(st, next[st]) \in Lines
    BY <2>1, LinesAreScheduled
  <2> QED
    BY <1>1, <2>2 DEF Receive, Next
<1>2. ASSUME NEW st \in Stations, Lose(st) PROVE UNCHANGED vars
  BY <1>2 DEF Lose
<1>3. ASSUME NEW st \in Stations, Repeat(st) PROVE Next
  BY <1>3 DEF Repeat, LastHeard, Next
<1>4. CASE Pop
  BY <1>4 DEF Pop, Next
<1> QED
  BY <1>1, <1>2, <1>3, <1>4 DEF FeedNext

(* A station sends on, whether the line is heard or lost. *)
LEMMA AdvanceOn ==
  ASSUME NextOK, NEW st \in Stations, More(st), Advance(st)
  PROVE  /\ NextOK'
         /\ next[st] \in Places(st)
         /\ next'[st] = Following(st, next[st])
         /\ \A su \in Stations : su # st => next'[su] = next[su]
<1>1. /\ next \in [Stations -> [message : Nat \ {0}, part : Nat \ {0}]]
      /\ \A su \in Stations : More(su) => next[su] \in Places(su)
      /\ next[st] \in Places(st)
  BY DEF NextOK
<1>2. /\ next' = [next EXCEPT ![st] = Following(st, next[st])]
      /\ next'[st] = Following(st, next[st])
      /\ \A su \in Stations : su # st => next'[su] = next[su]
  BY <1>1 DEF Advance
<1>3. /\ Following(st, next[st]) \in [message : Nat \ {0}, part : Nat \ {0}]
      /\ Following(st, next[st]).message \in DOMAIN Schedule[st]
           => Following(st, next[st]) \in Places(st)
  BY <1>1, NothingBetween
<1>4. next' \in [Stations -> [message : Nat \ {0}, part : Nat \ {0}]]
  BY <1>1, <1>2, <1>3
<1>5. ASSUME NEW su \in Stations, next'[su].message \in DOMAIN Schedule[su]
      PROVE  next'[su] \in Places(su)
  BY <1>1, <1>2, <1>3, <1>5 DEF More
<1> QED
  BY <1>1, <1>2, <1>4, <1>5 DEF NextOK, More

(* A line of the next place, or of the last one again, keeps the order. *)
LEMMA HearInOrder ==
  ASSUME TypeOK, HeardOK, InOrder, NEW st \in Stations, NEW p \in Places(st),
         AddLine(LineOf(st, p)),
         \A su \in Stations : \A q \in Places(su) :
           Before(q, next[su]) => Before(q, next'[su]),
         Before(p, next'[st]),
         \A q \in Places(st) : Before(q, next[st]) => ~ Before(p, q)
  PROVE  /\ InOrder'
         /\ heard'[Len(heard) + 1] = Create(LineOf(st, p), Len(heard) + 1)
         /\ Len(heard) + 1 \in DOMAIN heard'
         /\ \A k \in DOMAIN heard : k \in DOMAIN heard' /\ heard'[k] = heard[k]
<1>1. LineOf(st, p) \in Lines
  BY LineAtPlace
<1>2. /\ DOMAIN heard' = DOMAIN heard \cup {Len(heard) + 1}
      /\ \A k \in DOMAIN heard : heard'[k] = heard[k]
      /\ heard'[Len(heard) + 1] = Create(LineOf(st, p), line_number + 1)
  BY <1>1, HearLine
<1>3. /\ Len(heard) = line_number
      /\ Len(heard) \in Nat
      /\ DOMAIN heard = 1 .. Len(heard)
  BY DEF HeardOK, TypeOK
<1> DEFINE new == Len(heard) + 1
<1>4. heard'[new] = Create(LineOf(st, p), new)
  BY <1>2, <1>3
<1>5. ASSUME NEW k \in DOMAIN heard'
      PROVE  \E su \in Stations : \E q \in Places(su) :
               heard'[k] = Create(LineOf(su, q), k) /\ Before(q, next'[su])
  <2>1. CASE k \in DOMAIN heard
    <3>1. PICK su \in Stations : \E q \in Places(su) :
            heard[k] = Create(LineOf(su, q), k) /\ Before(q, next[su])
      BY <2>1 DEF InOrder, IsLine
    <3> QED
      BY <1>2, <2>1, <3>1
  <2>2. CASE k = new
    BY <1>4, <2>2
  <2> QED
    BY <1>2, <2>1, <2>2
<1>6. ASSUME NEW a \in DOMAIN heard', NEW b \in DOMAIN heard', NEW su \in Stations,
             NEW q \in Places(su), NEW r \in Places(su),
             a < b, heard'[a] = Create(LineOf(su, q), a),
             heard'[b] = Create(LineOf(su, r), b)
      PROVE  ~ Before(r, q)
  <2>1. a \in DOMAIN heard /\ heard[a] = Create(LineOf(su, q), a)
    BY <1>2, <1>3, <1>6
  <2>2. CASE b \in DOMAIN heard
    BY <1>2, <1>6, <2>1, <2>2 DEF InOrder, IsLine
  <2>3. CASE b = new
    <3>1. st = su /\ p = r
      BY <1>3, <1>4, <1>6, <2>3, LineAtPlace, SameLine
    <3>2. PICK sv \in Stations : \E v \in Places(sv) :
            heard[a] = Create(LineOf(sv, v), a) /\ Before(v, next[sv])
      BY <2>1 DEF InOrder, IsLine
    <3>3. PICK v \in Places(sv) :
            heard[a] = Create(LineOf(sv, v), a) /\ Before(v, next[sv])
      BY <3>2
    <3>4. sv = su /\ v = q
      <4>1. a \in Nat /\ Create(LineOf(sv, v), a) = Create(LineOf(su, q), a)
        BY <1>3, <2>1, <3>3
      <4> QED
        BY <4>1, SameLine
    <3> QED
      BY <3>1, <3>3, <3>4
  <2> QED
    BY <1>2, <2>2, <2>3
<1>7. InOrder'
  <2>1. \A k \in DOMAIN heard' : \E su \in Stations : \E q \in Places(su) :
          heard'[k] = Create(LineOf(su, q), k) /\ Before(q, next'[su])
    BY <1>5
  <2>2. \A a, b \in DOMAIN heard', su \in Stations : \A q, r \in Places(su) :
          a < b /\ heard'[a] = Create(LineOf(su, q), a)
                /\ heard'[b] = Create(LineOf(su, r), b) => ~ Before(r, q)
    BY <1>6
  <2> QED
    BY <2>1, <2>2 DEF InOrder, IsLine, Before
<1> QED
  BY <1>2, <1>4, <1>7


LEMMA FeedStarts ==
  ASSUME FeedInit
  PROVE  FeedOK
<1>1. /\ heard = << >> /\ lost = {}
      /\ next = [st \in Stations |-> [message |-> 1, part |-> 1]]
  BY DEF FeedInit, Init
<1>2. NextOK
  <2>1. next \in [Stations -> [message : Nat \ {0}, part : Nat \ {0}]]
    BY <1>1
  <2>2. ASSUME NEW st \in Stations, More(st)
        PROVE  next[st] \in Places(st)
    <3>1. 1 \in DOMAIN Schedule[st]
      BY <1>1, <2>2 DEF More
    <3>2. Schedule[st] \in Seq(Sendable)
      BY ScheduleOfMessages
    <3>3. Schedule[st][1] \in Sendable
      BY <3>1, <3>2
    <3>4. Schedule[st][1].total \in 1 .. kMaxSentences - 1
      BY <3>3 DEF Sendable
    <3>5. 1 \in 1 .. Schedule[st][1].total
      BY <3>4 DEF kMaxSentences
    <3> QED
      BY <1>1, <3>1, <3>5, IsPlace
  <2> QED
    BY <2>1, <2>2 DEF NextOK
<1>3. InOrder
  BY <1>1 DEF InOrder
<1>4. HeardOrLost
  <2>1. ASSUME NEW st \in Stations, NEW p \in Places(st)
        PROVE  ~ Before(p, next[st])
    <3>1. p.message \in Nat \ {0} /\ p.part \in Nat \ {0}
      BY PlaceFields
    <3> QED
      BY <1>1, <3>1 DEF Before
  <2> QED
    BY <2>1 DEF HeardOrLost
<1>5. FewLost
  BY <1>1, FS_EmptySet, BoundsAreNat DEF FewLost
<1> QED
  BY <1>2, <1>3, <1>4, <1>5 DEF FeedOK

(* The next line of a station arrives. *)
LEMMA ReceiveOK ==
  ASSUME TypeOK, HeardOK, FeedOK, NEW st \in Stations, Receive(st)
  PROVE  FeedOK'
<1> DEFINE p == next[st]
<1>1. /\ NextOK /\ InOrder /\ HeardOrLost /\ FewLost
      /\ More(st) /\ Advance(st) /\ lost' = lost
      /\ AddLine(LineOf(st, p))
  BY DEF FeedOK, Receive
<1>2. /\ NextOK'
      /\ p \in Places(st)
      /\ next'[st] = Following(st, p)
      /\ \A su \in Stations : su # st => next'[su] = next[su]
  BY <1>1, AdvanceOn
<1> HIDE DEF p
<1>3. /\ Before(p, next'[st])
      /\ \A q \in Places(st) : Before(q, next'[st]) <=> q = p \/ Before(q, p)
  BY <1>2, NothingBetween
<1>4. \A su \in Stations : \A q \in Places(su) :
        Before(q, next[su]) => Before(q, next'[su])
  BY <1>2, <1>3 DEF p
<1>5. \A q \in Places(st) : Before(q, next[st]) => ~ Before(p, q)
  <2>1. ASSUME NEW q \in Places(st), Before(q, p)
        PROVE  ~ Before(p, q)
    BY <1>2, <1>3, <2>1, NothingBetween
  <2> QED
    BY <2>1 DEF p
<1>6. /\ InOrder'
      /\ heard'[Len(heard) + 1] = Create(LineOf(st, p), Len(heard) + 1)
      /\ Len(heard) + 1 \in DOMAIN heard'
      /\ \A k \in DOMAIN heard : k \in DOMAIN heard' /\ heard'[k] = heard[k]
  BY <1>1, <1>2, <1>3, <1>4, <1>5, HearInOrder
<1>7. ASSUME NEW su \in Stations, NEW q \in Places(su), Before(q, next'[su]),
             ChunkAt(su, q) \notin lost
      PROVE  \E k \in DOMAIN heard' : heard'[k] = Create(LineOf(su, q), k)
  <2>1. CASE Before(q, next[su])
    <3>1. PICK k \in DOMAIN heard : heard[k] = Create(LineOf(su, q), k)
      BY <1>1, <1>7, <2>1 DEF HeardOrLost, IsLine
    <3> QED
      BY <1>6, <3>1
  <2>2. CASE ~ Before(q, next[su])
    <3>1. su = st /\ q = p
      BY <1>2, <1>3, <1>7, <2>2 DEF p
    <3> QED
      BY <1>6, <3>1
  <2> QED
    BY <2>1, <2>2
<1>8. HeardOrLost'
  BY <1>1, <1>7 DEF HeardOrLost, IsLine, Before, ChunkAt
<1> QED
  BY <1>1, <1>2, <1>6, <1>8 DEF FeedOK, FewLost

(* The next line of a station is lost. *)
LEMMA LoseOK ==
  ASSUME FeedOK, NEW st \in Stations, Lose(st)
  PROVE  FeedOK'
<1> DEFINE p == next[st]
<1>1. /\ NextOK /\ InOrder /\ HeardOrLost /\ FewLost
      /\ More(st) /\ Advance(st) /\ heard' = heard
      /\ Cardinality(lost) < MaxLost
      /\ lost' = lost \cup {ChunkAt(st, p)}
  BY DEF FeedOK, Lose, vars, ChunkAt
<1>2. /\ NextOK'
      /\ p \in Places(st)
      /\ next'[st] = Following(st, p)
      /\ \A su \in Stations : su # st => next'[su] = next[su]
  BY <1>1, AdvanceOn
<1> HIDE DEF p
<1>3. \A q \in Places(st) : Before(q, next'[st]) <=> q = p \/ Before(q, p)
  BY <1>2, NothingBetween
<1>4. ASSUME NEW su \in Stations, NEW q \in Places(su)
      PROVE  Before(q, next'[su]) <=> Before(q, next[su]) \/ (su = st /\ q = p)
  BY <1>2, <1>3 DEF p
<1>5. InOrder'
  <2>1. ASSUME NEW k \in DOMAIN heard
        PROVE  \E su \in Stations : \E q \in Places(su) :
                 heard[k] = Create(LineOf(su, q), k) /\ Before(q, next'[su])
    BY <1>1, <1>4 DEF InOrder, IsLine
  <2> QED
    BY <1>1, <2>1 DEF InOrder, IsLine, Before
<1>6. HeardOrLost'
  <2>1. ASSUME NEW su \in Stations, NEW q \in Places(su), Before(q, next'[su])
        PROVE  \/ ChunkAt(su, q) \in lost'
               \/ \E k \in DOMAIN heard : heard[k] = Create(LineOf(su, q), k)
    BY <1>1, <1>4, <2>1 DEF HeardOrLost, IsLine
  <2> QED
    BY <1>1, <2>1 DEF HeardOrLost, IsLine, Before, ChunkAt
<1>7. FewLost'
  <2>1. IsFiniteSet(lost) /\ Cardinality(lost) \in Nat
    BY <1>1, FS_CardinalityType DEF FewLost
  <2>2. /\ IsFiniteSet(lost')
        /\ Cardinality(lost') <= Cardinality(lost) + 1
    BY <1>1, <2>1, FS_AddElement
  <2>3. Cardinality(lost') \in Nat
    BY <2>2, FS_CardinalityType
  <2> QED
    BY <1>1, <2>1, <2>2, <2>3, BoundsAreNat DEF FewLost
<1> QED
  BY <1>2, <1>5, <1>6, <1>7 DEF FeedOK

(* The line a station sent last arrives again. *)
LEMMA RepeatOK ==
  ASSUME TypeOK, HeardOK, FeedOK, NEW st \in Stations, Repeat(st)
  PROVE  FeedOK'
<1>1. /\ NextOK /\ InOrder /\ HeardOrLost /\ FewLost
      /\ next' = next /\ lost' = lost
  BY DEF FeedOK, Repeat
<1>2. PICK line \in LastHeard(st) : AddLine(line)
  BY DEF Repeat
<1>3. /\ line \in Lines
      /\ line.body[1] = st
      /\ Following(st, [message |-> line.body[2], part |-> line.body[3]]) = next[st]
  BY <1>2 DEF LastHeard
<1>4. PICK su \in Stations : \E q \in Places(su) : line = LineOf(su, q)
  BY <1>3, LinesAreScheduled
<1>5. PICK p \in Places(su) : line = LineOf(su, p)
  BY <1>4
<1>6. line.body = << su, p.message, p.part >>
  BY <1>5 DEF LineOf
<1>7. su = st /\ p = [message |-> line.body[2], part |-> line.body[3]]
  BY <1>3, <1>6, PlaceFields
<1>8. p \in Places(st) /\ line = LineOf(st, p) /\ Following(st, p) = next[st]
  BY <1>3, <1>5, <1>7
<1>9. /\ Before(p, next'[st])
      /\ \A q \in Places(st) : Before(q, next[st]) => ~ Before(p, q)
  BY <1>1, <1>8, NothingBetween
<1>10. AddLine(LineOf(st, p))
  BY <1>2, <1>8
<1>11. \A sv \in Stations : \A q \in Places(sv) :
         Before(q, next[sv]) => Before(q, next'[sv])
  BY <1>1
<1>12. /\ InOrder'
       /\ \A k \in DOMAIN heard : k \in DOMAIN heard' /\ heard'[k] = heard[k]
  BY <1>1, <1>8, <1>9, <1>10, <1>11, HearInOrder
<1>13. HeardOrLost'
  <2>1. ASSUME NEW sv \in Stations, NEW q \in Places(sv), Before(q, next[sv]),
               ChunkAt(sv, q) \notin lost
        PROVE  \E k \in DOMAIN heard' : heard'[k] = Create(LineOf(sv, q), k)
    BY <1>1, <1>12, <2>1 DEF HeardOrLost, IsLine
  <2> QED
    BY <1>1, <2>1 DEF HeardOrLost, IsLine, Before, ChunkAt
<1> QED
  BY <1>1, <1>12, <1>13 DEF FeedOK, NextOK, More, FewLost

LEMMA FeedKeeps ==
  ASSUME TypeOK, HeardOK, FeedOK, [FeedNext]_feedVars
  PROVE  FeedOK'
<1>1. CASE UNCHANGED << heard, next, lost >>
  BY <1>1 DEF FeedOK, NextOK, More, InOrder, HeardOrLost, FewLost, IsLine, Before,
              ChunkAt
<1>2. CASE Pop
  BY <1>1, <1>2 DEF Pop, PopOldestMessage
<1>3. ASSUME NEW st \in Stations, Receive(st) \/ Lose(st) \/ Repeat(st)
      PROVE  FeedOK'
  BY <1>3, ReceiveOK, LoseOK, RepeatOK
<1>4. CASE UNCHANGED feedVars
  BY <1>1, <1>4 DEF feedVars, vars
<1> QED
  BY <1>2, <1>3, <1>4 DEF FeedNext

(* A feed, whatever is lost or repeated, is a run of the stream: what is   *)
(* proved of VdmStream holds at the end of a feed.                         *)
THEOREM FeedIsStream == FeedSpec => Spec /\ []FeedOK
<1>1. FeedInit => Init /\ Inductive /\ FeedOK
  BY FeedStarts, InitInductive DEF FeedInit
<1>2. Inductive /\ FeedOK /\ [FeedNext]_feedVars => Inductive' /\ FeedOK' /\ [Next]_vars
  <2> SUFFICES ASSUME Inductive, FeedOK, [FeedNext]_feedVars
               PROVE  Inductive' /\ FeedOK' /\ [Next]_vars
    OBVIOUS
  <2>1. TypeOK /\ HeardOK /\ NextOK
    BY DEF Inductive, FeedOK
  <2>2. [Next]_vars
    BY <2>1, FeedStep DEF feedVars, vars
  <2>3. Inductive'
    BY <2>2, StepInductive
  <2> QED
    BY <2>1, <2>2, <2>3, FeedKeeps
<1> QED
  BY <1>1, <1>2, PTL DEF FeedSpec, Spec


(* What the stream promises of its output holds at the end of a feed. *)
FeedOutput ==
  /\ TypeOK /\ HeardOK /\ FeedOK
  /\ MessagesAreCoherent /\ FifoOutput /\ NoStaleParts

LEMMA FeedPromises == FeedSpec => []FeedOutput
<1>1. Inductive /\ FeedOK /\ MessagesAreCoherent /\ FifoOutput /\ NoStaleParts
        => FeedOutput
  BY DEF Inductive, FeedOutput
<1> QED
  BY <1>1, FeedIsStream, InductiveInvariant, MessagesCoherent, FirstInFirstOut,
     NothingStale, PTL

-----------------------------------------------------------------------------
(* The messages that come out at the end of a feed. *)

PartAt(m, i, st, p) ==
  /\ IsLine(m.lines[i], st, p)
  /\ m.lines[i] \in DOMAIN heard
  /\ m.body[i] = ChunkAt(st, p)
  /\ p.part = i
  /\ Schedule[st][p.message].total = Len(m.lines)

(* Part i of a message that comes out is a line number i of a station. *)
LEMMA PartHasPlace ==
  ASSUME FeedOutput, NEW m, Coherent(heard, m), NEW i \in 1 .. Len(m.lines)
  PROVE  \E st \in Stations : \E p \in Places(st) : PartAt(m, i, st, p)
<1> DEFINE k == m.lines[i]
<1>1. /\ k \in DOMAIN heard
      /\ heard[k].number = i
      /\ heard[k].total = Len(m.lines)
      /\ m.body[i] = heard[k].body[1]
  BY DEF Coherent, Bodies
<1>2. PICK st \in Stations : \E p \in Places(st) : heard[k] = Create(LineOf(st, p), k)
  BY <1>1 DEF FeedOutput, FeedOK, InOrder, IsLine
<1>3. PICK p \in Places(st) : heard[k] = Create(LineOf(st, p), k)
  BY <1>2
<1>4. k \in Nat
  BY <1>1 DEF FeedOutput, TypeOK
<1> HIDE DEF k
<1>5. /\ Create(LineOf(st, p), k).number = p.part
      /\ Create(LineOf(st, p), k).total = Schedule[st][p.message].total
      /\ Create(LineOf(st, p), k).body = << ChunkAt(st, p) >>
  BY <1>4, LineAtPlace
<1>6. m.body[i] = ChunkAt(st, p)
  BY <1>1, <1>3, <1>5
<1> QED
  BY <1>1, <1>3, <1>5, <1>6 DEF PartAt, IsLine, k

(* Sentences of one sequence number are of one station. *)
LEMMA SameStation ==
  ASSUME NumbersApart, NEW k \in Nat, NEW j \in Nat,
         NEW st \in Stations, NEW p \in Places(st),
         NEW su \in Stations, NEW q \in Places(su),
         Create(LineOf(st, p), k).seq = Create(LineOf(su, q), j).seq,
         Schedule[st][p.message].total > 1, Schedule[su][q.message].total > 1
  PROVE  st = su
<1> DEFINE m == Schedule[st][p.message]
           n == Schedule[su][q.message]
<1>1. /\ p.message \in DOMAIN Schedule[st]
      /\ q.message \in DOMAIN Schedule[su]
  BY PlaceFields
<1>2. m \in Sendable /\ n \in Sendable
  <2>1. Schedule[st] \in Seq(Sendable) /\ Schedule[su] \in Seq(Sendable)
    BY ScheduleOfMessages
  <2> QED
    BY <1>1, <2>1
<1>3. (IF m.seq = << >> THEN kNoSequenceNumber ELSE m.seq[1])
        = IF n.seq = << >> THEN kNoSequenceNumber ELSE n.seq[1]
  <2>1. /\ Create(LineOf(st, p), k).seq
              = IF m.seq = << >> THEN kNoSequenceNumber ELSE m.seq[1]
        /\ Create(LineOf(su, q), j).seq
              = IF n.seq = << >> THEN kNoSequenceNumber ELSE n.seq[1]
    BY LineAtPlace
  <2> QED
    BY <2>1
<1> HIDE DEF m, n
<1>4. /\ m.seq \in {<< >>} \cup {<< i >> : i \in SequenceNumbers}
      /\ n.seq \in {<< >>} \cup {<< i >> : i \in SequenceNumbers}
  BY <1>2 DEF Sendable
<1>5. m.seq = n.seq
  BY <1>3, <1>4 DEF SequenceNumbers, kNumSequenceChannels, kNoSequenceNumber
<1>6. << st, p.message >> \in Scheduled /\ << su, q.message >> \in Scheduled
  BY <1>1 DEF Scheduled
<1>7. << st, p.message >>[1] = << su, q.message >>[1]
  BY <1>5, <1>6 DEF NumbersApart, m, n
<1> QED
  BY <1>7

(* So all parts of a multi-line message are of one station, each at a      *)
(* place after that of the part before.                                    *)
LEMMA MessageOfStation ==
  ASSUME NumbersApart, FeedOutput, NEW m, Coherent(heard, m), Len(m.lines) > 1,
         NEW n, n = Len(m.lines)
  PROVE  \E st \in Stations : \E at \in [1 .. n -> Places(st)] :
           \A i \in 1 .. n : PartAt(m, i, st, at[i])
<1>1. \A i \in 1 .. n : \E st \in Stations : \E p \in Places(st) : PartAt(m, i, st, p)
  BY PartHasPlace
<1>2. 1 \in 1 .. n /\ n \in Nat
  BY DEF Coherent
<1>3. PICK st \in Stations : \E p \in Places(st) : PartAt(m, 1, st, p)
  BY <1>1, <1>2
<1>4. PICK p \in Places(st) : PartAt(m, 1, st, p)
  BY <1>3
<1>5. ASSUME NEW i \in 1 .. n
      PROVE  \E q \in Places(st) : PartAt(m, i, st, q)
  <2>1. PICK su \in Stations : \E q \in Places(su) : PartAt(m, i, su, q)
    BY <1>1
  <2>2. PICK q \in Places(su) : PartAt(m, i, su, q)
    BY <2>1
  <2>3. /\ heard[m.lines[1]] = Create(LineOf(st, p), m.lines[1])
        /\ heard[m.lines[i]] = Create(LineOf(su, q), m.lines[i])
        /\ Schedule[st][p.message].total > 1
        /\ Schedule[su][q.message].total > 1
    BY <1>4, <2>2 DEF PartAt, IsLine
  <2>4. m.lines[1] \in Nat /\ m.lines[i] \in Nat
    BY <1>4, <2>2 DEF PartAt, FeedOutput, TypeOK
  <2>5. heard[m.lines[1]].seq = heard[m.lines[i]].seq
    BY <1>2 DEF Coherent
  <2>6. st = su
    BY <2>3, <2>4, <2>5, SameStation
  <2> QED
    BY <2>2, <2>6
<1> DEFINE at == [i \in 1 .. n |-> CHOOSE q \in Places(st) : PartAt(m, i, st, q)]
<1>6. \A i \in 1 .. n : at[i] \in Places(st) /\ PartAt(m, i, st, at[i])
  BY <1>5
<1>7. at \in [1 .. n -> Places(st)]
  BY <1>6
<1> QED
  BY <1>6, <1>7


(* Of two lines of a station the one at the earlier place was heard first. *)
LEMMA EarlierHeardFirst ==
  ASSUME FeedOutput, NEW st \in Stations, NEW p \in Places(st), NEW q \in Places(st),
         NEW j \in DOMAIN heard, NEW k \in DOMAIN heard,
         IsLine(j, st, p), IsLine(k, st, q), Before(p, q)
  PROVE  j < k
<1>1. j \in Nat /\ k \in Nat
  BY DEF FeedOutput, TypeOK
<1>2. ~ k < j
  BY DEF FeedOutput, FeedOK, InOrder
<1>3. j # k
  <2> SUFFICES ASSUME j = k PROVE FALSE
    OBVIOUS
  <2>1. Create(LineOf(st, p), j) = Create(LineOf(st, q), j)
    BY DEF IsLine
  <2>2. p = q
    BY <1>1, <2>1, SameLine
  <2>3. p.message \in Nat /\ p.part \in Nat
    BY PlaceFields
  <2> QED
    BY <2>2, <2>3 DEF Before
<1> QED
  BY <1>1, <1>2, <1>3

(* The parts of a message are heard in their order, so their places do not *)
(* go back.                                                                *)
LEMMA PlacesGoOn ==
  ASSUME FeedOutput, NEW m, Coherent(heard, m), NEW n, n = Len(m.lines),
         NEW st \in Stations, NEW i \in 1 .. n, NEW j \in 1 .. n, i < j,
         NEW p \in Places(st), NEW q \in Places(st),
         PartAt(m, i, st, p), PartAt(m, j, st, q)
  PROVE  /\ Before(p, q)
         /\ p.message <= q.message
<1>1. /\ m.lines[i] \in DOMAIN heard /\ m.lines[j] \in DOMAIN heard
      /\ IsLine(m.lines[i], st, p) /\ IsLine(m.lines[j], st, q)
      /\ p.part = i /\ q.part = j
  BY DEF PartAt
<1>2. m.lines[i] < m.lines[j]
  BY DEF Coherent
<1>3. ~ Before(q, p)
  BY <1>1, <1>2 DEF FeedOutput, FeedOK, InOrder
<1>4. /\ p.message \in Nat /\ p.part \in Nat
      /\ q.message \in Nat /\ q.part \in Nat
  BY PlaceFields
<1> QED
  BY <1>1, <1>3, <1>4 DEF Before

(* A message has as many chunks as lines, and at least one. *)
LEMMA MessageLength ==
  ASSUME NEW m \in Message, Coherent(heard, m)
  PROVE  /\ Len(m.lines) \in Nat \ {0}
         /\ Len(m.body) = Len(m.lines)
<1>1. m.lines \in Seq(Int) /\ Len(m.lines) >= 1
  BY DEF Message, Coherent
<1>2. m.body = [i \in 1 .. Len(m.lines) |-> heard[m.lines[i]].body[1]]
  BY DEF Coherent, Bodies
<1> QED
  BY <1>1, <1>2

(* A first or final line is not heard between the parts of a message of    *)
(* its number.                                                             *)
LEMMA NotBetween ==
  ASSUME FeedOutput, NEW i \in DOMAIN Output, NEW n, n = Len(Output[i].lines), n > 1,
         NEW k \in DOMAIN heard, heard[k] # NoSentence, heard[k].total > 1,
         heard[k].seq = heard[Output[i].lines[1]].seq,
         heard[k].number \in {1, heard[k].total},
         Output[i].lines[1] < k
  PROVE  ~ k < Output[i].lines[n]
<1> DEFINE m == Output[i]
           first == m.lines[1]
           last == m.lines[n]
<1> SUFFICES ASSUME k < last PROVE FALSE
  OBVIOUS
<1>1. Coherent(heard, m) /\ n >= 1 /\ n \in Nat
  <2>1. m \in Message /\ Coherent(heard, m)
    BY OutputType DEF FeedOutput, MessagesAreCoherent
  <2>2. Len(m.lines) \in Nat \ {0}
    BY <2>1, MessageLength
  <2> QED
    BY <2>1, <2>2
<1>2. first \in DOMAIN heard /\ last \in DOMAIN heard
  BY <1>1 DEF Coherent
<1>3. k \in Nat /\ first \in Nat /\ last \in Nat
  BY <1>2 DEF FeedOutput, TypeOK
<1>4. k \in first + 1 .. last - 1
  BY <1>3
<1> QED
  BY <1>4 DEF FeedOutput, NoStaleParts

(* A multi-line message that comes out comes out once, however its lines   *)
(* are repeated: to come out again it would have to begin before it was    *)
(* finished for the first time (PlacesGoOn), and the final sentence empties *)
(* the buffer (NoStaleParts).  Stations that share a number could have     *)
(* their parts put together, and that twice.                               *)
THEOREM OnceFromFeed ==
  ASSUME NumbersApart
  PROVE  FeedSpec => []MultiLineOnce
<1>1. ASSUME FeedOutput PROVE MultiLineOnce
  <2>1. ASSUME NEW i \in DOMAIN Output, NEW j \in DOMAIN Output, i < j,
               Output[i].body = Output[j].body, Len(Output[i].body) # 1
        PROVE  FALSE
    <3> DEFINE a == Output[i]
               b == Output[j]
               n == Len(a.lines)
    <3>1. Coherent(heard, a) /\ Coherent(heard, b)
      BY <1>1 DEF FeedOutput, MessagesAreCoherent
    <3>2. /\ n \in Nat /\ Len(a.body) = n
          /\ Len(b.lines) = n
          /\ n > 1
      <4>1. a \in Message /\ b \in Message
        BY <1>1, OutputType DEF FeedOutput
      <4>2. /\ Len(a.lines) \in Nat \ {0} /\ Len(a.body) = Len(a.lines)
            /\ Len(b.lines) \in Nat \ {0} /\ Len(b.body) = Len(b.lines)
        BY <3>1, <4>1, MessageLength
      <4>3. a.body = b.body /\ Len(a.body) # 1
        BY <2>1
      <4>4. \A x \in Nat \ {0} : x # 1 => x > 1
        OBVIOUS
      <4>5. Len(b.lines) = Len(a.lines) /\ Len(a.lines) # 1
        <5> HIDE DEF a, b
        <5> QED
          BY <4>2, <4>3
      <4> HIDE DEF a, b
      <4> QED
        BY <4>2, <4>4, <4>5
    <3>3. PICK st \in Stations : \E at \in [1 .. n -> Places(st)] :
            \A k \in 1 .. n : PartAt(a, k, st, at[k])
      BY <1>1, <3>1, <3>2, MessageOfStation
    <3>4. PICK at \in [1 .. n -> Places(st)] :
            \A k \in 1 .. n : PartAt(a, k, st, at[k])
      BY <3>3
    <3>5. PICK su \in Stations : \E bt \in [1 .. n -> Places(su)] :
            \A k \in 1 .. n : PartAt(b, k, su, bt[k])
      BY <1>1, <3>1, <3>2, MessageOfStation
    <3>6. PICK bt \in [1 .. n -> Places(su)] :
            \A k \in 1 .. n : PartAt(b, k, su, bt[k])
      BY <3>5
    <3>7. ASSUME NEW k \in 1 .. n
          PROVE  su = st /\ bt[k] = at[k]
      <4>1. ChunkAt(st, at[k]) = ChunkAt(su, bt[k])
        BY <2>1, <3>4, <3>6 DEF PartAt
      <4> QED
        BY <4>1, PlaceFields DEF ChunkAt
    <3>8. 1 \in 1 .. n /\ n \in 1 .. n
      BY <3>2
    <3>9. /\ PartAt(a, 1, st, at[1]) /\ PartAt(a, n, st, at[n])
          /\ PartAt(b, 1, st, at[1]) /\ PartAt(b, n, st, at[n])
          /\ at[1] \in Places(st) /\ at[n] \in Places(st)
      BY <3>4, <3>6, <3>7, <3>8
    <3>10. Before(at[1], at[n])
      BY <1>1, <3>1, <3>2, <3>8, <3>9, PlacesGoOn
    <3>11. /\ a.lines[n] \in DOMAIN heard /\ IsLine(a.lines[n], st, at[n])
           /\ b.lines[1] \in DOMAIN heard /\ IsLine(b.lines[1], st, at[1])
      BY <3>9 DEF PartAt
    <3>12. b.lines[1] < a.lines[n]
      BY <1>1, <3>9, <3>10, <3>11, EarlierHeardFirst
    <3>13. a.lines[n] < b.lines[n]
      BY <1>1, <2>1, <3>2 DEF FeedOutput, FifoOutput, Last
    <3>14. heard[a.lines[1]].seq = heard[b.lines[1]].seq
      <4>1. a.lines[1] \in Nat /\ b.lines[1] \in Nat
        <5>1. a.lines[1] \in DOMAIN heard /\ b.lines[1] \in DOMAIN heard
          BY <3>9 DEF PartAt
        <5>2. heard \in Seq(Sentence \cup {NoSentence})
          BY <1>1 DEF FeedOutput, TypeOK
        <5> QED
          BY ONLY <5>1, <5>2
      <4>2. /\ heard[a.lines[1]] = Create(LineOf(st, at[1]), a.lines[1])
            /\ heard[b.lines[1]] = Create(LineOf(st, at[1]), b.lines[1])
        BY <3>9 DEF PartAt, IsLine
      <4> QED
        BY <3>9, <4>1, <4>2, LineAtPlace
    <3>15. /\ heard[a.lines[n]] # NoSentence
           /\ heard[a.lines[n]].number = n
           /\ heard[a.lines[n]].total = n
           /\ heard[a.lines[n]].seq = heard[a.lines[1]].seq
      BY <3>1, <3>8 DEF Coherent
    <3> QED
      BY <1>1, <3>2, <3>11, <3>12, <3>13, <3>14, <3>15, NotBetween
  <2>2. DOMAIN Output \subseteq Nat
    BY <1>1, OutputType DEF FeedOutput
  <2> QED
    BY <2>1, <2>2 DEF MultiLineOnce
<1> QED
  BY <1>1, FeedPromises, PTL


(* A line between two others of its station, that would have ended the     *)
(* message they are part of, was not heard, so it was lost.                *)
LEMMA MissedLine ==
  ASSUME FeedOutput, NEW i \in DOMAIN Output, NEW n, n = Len(Output[i].lines), n > 1,
         n \in Nat, NEW st \in Stations, NEW p \in Places(st), NEW q \in Places(st),
         PartAt(Output[i], 1, st, p), PartAt(Output[i], n, st, q),
         NEW e \in Places(st), Before(p, e), Before(e, q),
         e.message \in {p.message, q.message}, e.part \in {1, n}
  PROVE  ChunkAt(st, e) \in lost
<1> DEFINE m == Output[i]
           first == m.lines[1]
           last == m.lines[n]
<1>1. /\ first \in DOMAIN heard /\ IsLine(first, st, p)
      /\ last \in DOMAIN heard /\ IsLine(last, st, q)
      /\ Schedule[st][p.message].total = n
      /\ Schedule[st][q.message].total = n
  BY DEF PartAt
<1>2. Coherent(heard, m)
  BY DEF FeedOutput, MessagesAreCoherent
<1>3. heard[first].seq = heard[last].seq
  <2>1. 1 \in 1 .. Len(m.lines) /\ n = Len(m.lines)
    OBVIOUS
  <2> QED
    BY <1>2, <2>1 DEF Coherent
<1>4. Before(e, next[st])
  <2>1. PICK su \in Stations : \E r \in Places(su) :
          IsLine(last, su, r) /\ Before(r, next[su])
    BY <1>1 DEF FeedOutput, FeedOK, InOrder
  <2>2. PICK r \in Places(su) : IsLine(last, su, r) /\ Before(r, next[su])
    BY <2>1
  <2>3. last \in Nat
    BY <1>1 DEF FeedOutput, TypeOK
  <2>4. su = st /\ r = q
    <3>1. Create(LineOf(su, r), last) = Create(LineOf(st, q), last)
      BY <1>1, <2>2 DEF IsLine
    <3> HIDE DEF last
    <3> QED
      BY <2>3, <3>1, SameLine
  <2>5. Before(q, next[st])
    BY <2>2, <2>4
  <2>6. /\ e.message \in Nat /\ e.part \in Nat
        /\ q.message \in Nat /\ q.part \in Nat
        /\ next[st].message \in Nat /\ next[st].part \in Nat
    BY PlaceFields DEF FeedOutput, FeedOK, NextOK
  <2> QED
    BY <2>5, <2>6 DEF Before
<1>5. ASSUME NEW k \in DOMAIN heard, IsLine(k, st, e) PROVE FALSE
  <2>1. first < k /\ k < last
    BY <1>1, <1>5, EarlierHeardFirst
  <2>2. k \in Nat /\ first \in Nat /\ last \in Nat
    BY <1>1 DEF FeedOutput, TypeOK
  <2>3. /\ heard[k] # NoSentence
        /\ heard[k].total = n
        /\ heard[k].number = e.part
    BY <1>1, <1>5, <2>2, LineAtPlace DEF IsLine
  <2>4. heard[k].seq = heard[first].seq
    <3> HIDE DEF first, last
    <3>1. CASE e.message = p.message
      <4>1. Create(LineOf(st, e), k).seq = Create(LineOf(st, p), first).seq
        BY <2>2, <3>1, LineAtPlace
      <4> QED
        BY <1>1, <1>5, <4>1 DEF IsLine
    <3>2. CASE e.message = q.message
      <4>1. Create(LineOf(st, e), k).seq = Create(LineOf(st, q), last).seq
        BY <2>2, <3>2, LineAtPlace
      <4> QED
        BY <1>1, <1>3, <1>5, <4>1 DEF IsLine
    <3> QED
      BY <3>1, <3>2
  <2> QED
    BY <2>1, <2>3, <2>4, NotBetween
<1> QED
  BY <1>4, <1>5 DEF FeedOutput, FeedOK, HeardOrLost

LEMMA TwoLost ==
  ASSUME FewLost, NEW c \in lost, NEW d \in lost, c # d
  PROVE  ~ MaxLost <= 1
<1>1. IsFiniteSet({c, d}) /\ Cardinality({c, d}) = 2
  <2>1. IsFiniteSet({c}) /\ Cardinality({c}) = 1
    BY FS_Singleton
  <2>2. {c, d} = {c} \cup {d} /\ d \notin {c}
    OBVIOUS
  <2> QED
    BY <2>1, <2>2, FS_AddElement
<1>2. {c, d} \subseteq lost /\ IsFiniteSet(lost) /\ Cardinality(lost) <= MaxLost
  BY DEF FewLost
<1>3. Cardinality({c, d}) <= Cardinality(lost)
  BY <1>2, FS_Subset
<1>4. Cardinality(lost) \in Nat
  BY <1>2, FS_CardinalityType
<1> QED
  BY <1>1, <1>2, <1>3, <1>4, BoundsAreNat

(* Every message that comes out is one message of one station. *)
THEOREM WholeFromFeed ==
  ASSUME NumbersApart, MaxLost <= 1
  PROVE  FeedSpec => []NothingSpliced
<1>1. ASSUME FeedOutput PROVE NothingSpliced
  <2>1. ASSUME NEW i \in DOMAIN Output
        PROVE  \E t \in Scheduled : Output[i].body = ChunksOf(t[1], t[2])
    <3> DEFINE m == Output[i]
               n == Len(m.lines)
    <3>1. Coherent(heard, m) /\ m \in Message
      BY <1>1, OutputType DEF FeedOutput, MessagesAreCoherent
    <3>2. n \in Nat \ {0} /\ Len(m.body) = n
      BY <3>1, MessageLength
    <3>3. m.body = [k \in 1 .. n |-> m.body[k]]
      BY <3>1, <3>2 DEF Message
    <3>4. ASSUME NEW st \in Stations, NEW p \in Places(st),
                 Schedule[st][p.message].total = n,
                 \A k \in 1 .. n : m.body[k] = << st, p.message, k >>
          PROVE  \E t \in Scheduled : m.body = ChunksOf(t[1], t[2])
      <4>1. p.message \in DOMAIN Schedule[st]
        BY PlaceFields
      <4>2. << st, p.message >> \in Scheduled
        BY <4>1 DEF Scheduled
      <4>3. m.body = ChunksOf(st, p.message)
        BY <3>3, <3>4 DEF ChunksOf
      <4> QED
        BY <4>2, <4>3
    <3>5. CASE n = 1
      <4>1. 1 \in 1 .. n
        BY <3>5
      <4>2. PICK st \in Stations : \E p \in Places(st) : PartAt(m, 1, st, p)
        BY <1>1, <3>1, <4>1, PartHasPlace
      <4>3. PICK p \in Places(st) : PartAt(m, 1, st, p)
        BY <4>2
      <4>4. \A k \in 1 .. n : m.body[k] = << st, p.message, k >>
        BY <3>5, <4>3 DEF PartAt, ChunkAt
      <4> QED
        BY <3>4, <4>3, <4>4 DEF PartAt
    <3>6. CASE n > 1
      <4>1. PICK st \in Stations : \E at \in [1 .. n -> Places(st)] :
              \A k \in 1 .. n : PartAt(m, k, st, at[k])
        BY <1>1, <3>1, <3>6, MessageOfStation
      <4>2. PICK at \in [1 .. n -> Places(st)] :
              \A k \in 1 .. n : PartAt(m, k, st, at[k])
        BY <4>1
      <4> DEFINE p == at[1]
                 q == at[n]
      <4>3. /\ 1 \in 1 .. n /\ n \in 1 .. n
            /\ p \in Places(st) /\ q \in Places(st)
            /\ PartAt(m, 1, st, p) /\ PartAt(m, n, st, q)
        BY <3>2, <3>6, <4>2
      <4>4. ASSUME NEW k \in 1 .. n, NEW j \in 1 .. n, k < j
            PROVE  at[k].message <= at[j].message
        <5>1. /\ at[k] \in Places(st) /\ at[j] \in Places(st)
              /\ PartAt(m, k, st, at[k]) /\ PartAt(m, j, st, at[j])
          BY <4>2
        <5> QED
          BY <1>1, <3>1, <4>4, <5>1, PlacesGoOn
      <4>5. /\ p.message \in Nat /\ p.message \in DOMAIN Schedule[st]
            /\ q.message \in Nat /\ q.message \in DOMAIN Schedule[st]
            /\ p.part = 1 /\ q.part = n
            /\ Schedule[st][p.message].total = n
            /\ Schedule[st][q.message].total = n
        BY <4>3, PlaceFields DEF PartAt
      <4>6. CASE p.message = q.message
        <5>1. ASSUME NEW k \in 1 .. n PROVE m.body[k] = << st, p.message, k >>
          <6>1. at[k].message = p.message
            <7>1. at[k].message \in Nat
              BY <4>2, PlaceFields
            <7>2. k = 1 \/ p.message <= at[k].message
              BY <3>2, <4>3, <4>4
            <7>3. k = n \/ at[k].message <= q.message
              BY <3>2, <4>3, <4>4
            <7> QED
              BY <4>5, <4>6, <7>1, <7>2, <7>3
          <6> QED
            BY <4>2, <6>1 DEF PartAt, ChunkAt
        <5> QED
          BY <3>4, <4>3, <4>5, <5>1
      <4>7. CASE p.message < q.message
        <5> DEFINE e == [message |-> p.message, part |-> n]
                   f == [message |-> q.message, part |-> 1]
        <5>1. e \in Places(st) /\ f \in Places(st)
          BY <4>3, <4>5, IsPlace
        <5>2. /\ Before(p, e) /\ Before(e, q)
              /\ Before(p, f) /\ Before(f, q)
          BY <3>2, <3>6, <4>5, <4>7 DEF Before
        <5>3. ChunkAt(st, e) \in lost /\ ChunkAt(st, f) \in lost
          <6> HIDE DEF p, q
          <6>1. /\ e.message \in {p.message, q.message} /\ e.part \in {1, n}
                /\ f.message \in {p.message, q.message} /\ f.part \in {1, n}
            OBVIOUS
          <6> HIDE DEF e, f
          <6> QED
            BY <1>1, <3>2, <3>6, <4>3, <5>1, <5>2, <6>1, MissedLine
        <5>4. ChunkAt(st, e) # ChunkAt(st, f)
          <6>1. n # 1 /\ << st, p.message, n >>[3] = n /\ << st, q.message, 1 >>[3] = 1
            <7> HIDE DEF n, p, q
            <7> QED
              BY <3>2, <3>6
          <6>2. << st, p.message, n >> # << st, q.message, 1 >>
            <7> HIDE DEF n, p, q
            <7> QED
              BY <6>1
          <6> QED
            BY <6>2 DEF ChunkAt
        <5> QED
          BY <1>1, <5>3, <5>4, TwoLost DEF FeedOutput, FeedOK
      <4>8. p.message <= q.message
        BY <3>6, <4>3, <4>4
      <4> QED
        BY <4>5, <4>6, <4>7, <4>8
    <3>7. n = 1 \/ n > 1
      <4> HIDE DEF n
      <4> QED
        BY <3>2
    <3> QED
      BY <3>5, <3>6, <3>7
  <2> QED
    BY <2>1 DEF NothingSpliced
<1> QED
  BY <1>1, FeedPromises, PTL

=============================================================================
