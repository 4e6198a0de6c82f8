------------------------------- MODULE AisFeed -------------------------------
(***************************************************************************)
(* VdmStream at the end of a real feed.  Stations send messages line by    *)
(* line; their lines interleave, some are lost on the way and some arrive  *)
(* twice in a row (two receivers hear the same transmitter).  A station    *)
(* sends the lines of one message after the other, and its messages in the *)
(* order of its schedule.  The stations and the air between are the        *)
(* environment of the library; the stream is the module it extends.        *)
(*                                                                         *)
(* A chunk of payload is the triple of the station, the position of the    *)
(* message in its schedule and the part: the stream cannot see that, the   *)
(* properties can.                                                         *)
(***************************************************************************)
EXTENDS VdmStream, FiniteSetsExt

CONSTANTS
  Stations,
  Schedule,   \* station -> messages it sends: talker, total, seq, channel
  MaxLost,    \* bound on the lines lost
  MaxRepeats  \* bound on the lines that arrive twice

ASSUME BoundsAreNat == MaxLost \in Nat /\ MaxRepeats \in Nat

VARIABLES
  next,     \* station -> message and part it sends next
  lost,     \* chunks lost
  repeats   \* number of lines that arrived twice

feedVars == << vars, next, lost, repeats >>

LineOf(station, place) ==
  LET m == Schedule[station][place.message] IN
  [framed |-> TRUE, talker |-> m.talker, total |-> m.total,
   number |-> place.part, seq |-> m.seq, channel |-> m.channel,
   body |-> << station, place.message, place.part >>, fill |-> 0]

Places(station) ==
  UNION {[message : {m}, part : 1 .. Schedule[station][m].total] :
           m \in DOMAIN Schedule[station]}

(* A message a station may send: counters, number and channel as the       *)
(* stream documents them.                                                  *)
Sendable == [talker  : Talkers,
             total   : 1 .. kMaxSentences - 1,
             seq     : {<< >>} \cup {<< n >> : n \in SequenceNumbers},
             channel : {"A", "B"}]

ASSUME ScheduleOfMessages == Schedule \in [Stations -> Seq(Sendable)]

(* The texts the stream gets are those of the stations, none too long.     *)
ASSUME LinesAreScheduled ==
  Lines = UNION {{LineOf(station, place) : place \in Places(station)} :
                   station \in Stations}
ASSUME ChunksFit == \A line \in Lines : CharsIn[line.body] \in 1 .. MaxBodyChars

Following(station, place) ==
  IF place.part = Schedule[station][place.message].total
  THEN [message |-> place.message + 1, part |-> 1]
  ELSE [message |-> place.message, part |-> place.part + 1]

(* The line a station sent last, if it was heard. *)
LastHeard(station) ==
  {line \in Lines :
     /\ line.body[1] = station
     /\ Following(station, [message |-> line.body[2],
                            part |-> line.body[3]]) = next[station]
     /\ line.body \notin lost}

FeedInit ==
  /\ Init
  /\ next = [station \in Stations |-> [message |-> 1, part |-> 1]]
  /\ lost = {}
  /\ repeats = 0

More(station) == next[station].message \in DOMAIN Schedule[station]

Advance(station) ==
  next' = [next EXCEPT ![station] = Following(station, @)]

Receive(station) ==
  /\ More(station)
  /\ AddLine(LineOf(station, next[station]))
  /\ Advance(station)
  /\ UNCHANGED << lost, repeats >>

Lose(station) ==
  /\ More(station)
  /\ Cardinality(lost) < MaxLost
  /\ lost' = lost \cup {<< station, next[station].message, next[station].part >>}
  /\ Advance(station)
  /\ UNCHANGED << vars, repeats >>

Repeat(station) ==
  /\ repeats < MaxRepeats
  /\ repeats' = repeats + 1
  /\ \E line \in LastHeard(station) : AddLine(line)
  /\ UNCHANGED << next, lost >>

Pop == PopOldestMessage /\ UNCHANGED << next, lost, repeats >>

FeedNext ==
  \/ \E station \in Stations :
       Receive(station) \/ Lose(station) \/ Repeat(station)
  \/ Pop

(* Stations keep sending and the caller keeps collecting; nothing says     *)
(* that lines are lost or repeated.  Of the steps of FeedNext exactly      *)
(* those of Receive satisfy Arrives, which says no more than fairness      *)
(* needs.                                                                  *)
Arrives(station) == More(station) /\ Advance(station) /\ UNCHANGED lost

FeedFairness ==
  /\ \A station \in Stations : WF_next(Arrives(station))
  /\ WF_feedVars(Pop)

FeedSpec == FeedInit /\ [][FeedNext]_feedVars /\ FeedFairness

-----------------------------------------------------------------------------

ChunksOf(station, m) ==
  [part \in 1 .. Schedule[station][m].total |-> << station, m, part >>]

Scheduled == UNION {{station} \X DOMAIN Schedule[station] : station \in Stations}

(* No two stations share a sequence number.                                *)
NumbersApart ==
  \A t, u \in Scheduled :
    LET m == Schedule[t[1]][t[2]]
        n == Schedule[u[1]][u[2]]
    IN m.total > 1 /\ n.total > 1 /\ m.seq = n.seq => t[1] = u[1]

(* Every message that comes out is one that a station sent, from its first *)
(* line to its last: parts of two messages are never put together          *)
(* (vdm.h: "Merging sentences from different messages ... will fail").     *)
(* That much needs NumbersApart and MaxLost <= 1: sentences name no        *)
(* message, and Merge cannot tell that the end of one and the start of the *)
(* next are missing.                                                       *)
NothingSpliced ==
  \A i \in DOMAIN Output :
    \E t \in Scheduled : Output[i].body = ChunksOf(t[1], t[2])

(* However lines are repeated or lost, with NumbersApart a multi-line      *)
(* message comes out once: its buffer is empty when its last line comes    *)
(* again (AddLine, final sentence).                                        *)
MultiLineOnce ==
  \A i, j \in DOMAIN Output :
    i # j /\ Output[i].body = Output[j].body => Len(Output[i].body) = 1

Damaged(t) == \E part \in 1 .. Schedule[t[1]][t[2]].total :
                << t[1], t[2], part >> \in lost

(* With NumbersApart, a message none of whose lines is lost is eventually  *)
(* collected, whatever happens to the lines of other messages, those       *)
(* before it on its own number included.                                   *)
Collected(t) == \E i \in DOMAIN delivered :
                  delivered[i].body = ChunksOf(t[1], t[2])

UndamagedCollected == <>(\A t \in Scheduled : Damaged(t) \/ Collected(t))

=============================================================================
