-------------------------- MODULE NmeaQueueProofs --------------------------
(***************************************************************************)
(* NmeaQueue implements LineAssembly for every set of lines and every      *)
(* number of puts, and so keeps what LineAssembly keeps.                   *)
(*                                                                         *)
(* The three queues are seen as one function NumsAt, from the keys of      *)
(* their groups to the numbers of the lines that wait there.  Three kinds  *)
(* of lemmas lead there: what a put does to one queue (Outcome), what that *)
(* does to NumsAt (Keyed), and that LineAssembly allows it.                *)
(*                                                                         *)
(* The second half is about what the lines say: parts and messages are     *)
(* what the lines of their numbers make them (Content), what is decoded    *)
(* comes from lines of one message, a bare message heard last and whole    *)
(* comes out, and a line that waits goes on waiting.                       *)
(*                                                                         *)
(* The end is about NmeaFile, which puts the lines of a file into the      *)
(* queue: between calls of next() no message is left in it.                *)
(***************************************************************************)
EXTENDS NmeaFile, WellFoundedInduction, TLAPS

Keys == ({"BARE"} \X SequenceNumbers) \cup ({"TAGB"} \X GroupIds)
          \cup ({"USCG"} \X StationIds)

GroupAt(k) == CASE k[1] = "BARE" -> bare_queue.groups[k[2]]
                [] k[1] = "TAGB" -> tagb_queue.groups[k[2]]
                [] k[1] = "USCG" -> uscg_queue.groups[k[2]]

NumsAt == [k \in Keys |-> LineNums(GroupAt(k))]

(* Lines that wait in one group are in order, those of two are different. *)
Apart(nums, K, n) ==
  /\ nums \in [K -> Seq(Nat)]
  /\ \A k \in K : /\ Len(nums[k]) <= n
                  /\ Assembly!Increasing(nums[k])
                  /\ Range(nums[k]) \subseteq 1 .. n
  /\ \A k, l \in K : k # l => Range(nums[k]) \cap Range(nums[l]) = {}

QueueRecord(q) == q \in [groups : {q.groups}, ready : {q.ready}, raised : {q.raised}]

(* A queue at rest: its groups hold parts, nothing is left behind in it    *)
(* and no exception is pending.                                            *)
AtRest(q, ids, part) ==
  /\ QueueRecord(q)
  /\ q.groups \in [ids -> Seq(part)]
  /\ q.ready = << >>
  /\ q.raised = FALSE

(* A sequence, of whatever elements. *)
OwnSeq(s) == s \in Seq(Range(s))

QueuesAtRest ==
  /\ line_num \in Nat
  /\ AtRest(bare_queue, SequenceNumbers, Part)
  /\ AtRest(tagb_queue, GroupIds, GroupPart)
  /\ AtRest(uscg_queue, StationIds, GroupPart)
  /\ OwnSeq(taken)
  /\ OwnSeq(queue)

Inductive == QueuesAtRest /\ Apart(NumsAt, Keys, line_num)

-----------------------------------------------------------------------------
(* What put does to the queue of the line's type, q becoming after: the    *)
(* line is dropped, comes out by itself, starts a group, joins one, or     *)
(* finishes one.                                                           *)

Dropped(q, after) == after.groups = q.groups /\ after.ready = << >>

Alone(q, after, n) ==
  /\ after.groups = q.groups
  /\ \E m : after.ready = << m >> /\ m.line_nums = << n >>
  /\ after.raised = FALSE

Started(q, after, n, ids, part) ==
  /\ \E id \in ids, p \in part : /\ p.line_num = n
                                 /\ after.groups = [q.groups EXCEPT ![id] = << p >>]
  /\ after.ready = << >>

Joined(q, after, n, ids, part) ==
  /\ \E id \in ids, p \in part :
       /\ p.line_num = n
       /\ after.groups = [q.groups EXCEPT ![id] = Append(q.groups[id], p)]
  /\ after.ready = << >>

Finished(q, after, n, ids, part) ==
  /\ \E id \in ids, p \in part :
       /\ p.line_num = n
       /\ after.groups = [q.groups EXCEPT ![id] = << >>]
       /\ \E m : /\ after.ready = << m >>
                 /\ m.line_nums = LineNums(Append(q.groups[id], p))
  /\ after.raised = FALSE

Outcome(q, after, n, ids, part) ==
  /\ QueueRecord(after) /\ after.raised \in BOOLEAN
  /\ \/ Dropped(q, after)
     \/ Alone(q, after, n)
     \/ Started(q, after, n, ids, part)
     \/ Joined(q, after, n, ids, part)
     \/ Finished(q, after, n, ids, part)

Message(nums, decoded) == [line_nums |-> nums, decoded |-> decoded]

LEMMA ReadyUpdated ==
  ASSUME NEW q, QueueRecord(q), NEW x
  PROVE  LET a == [q EXCEPT !.ready = x] IN
         /\ QueueRecord(a) /\ a.groups = q.groups
         /\ a.ready = x /\ a.raised = q.raised
  BY DEF QueueRecord

LEMMA RaisedUpdated ==
  ASSUME NEW q, QueueRecord(q), NEW x
  PROVE  LET a == [q EXCEPT !.raised = x] IN
         /\ QueueRecord(a) /\ a.groups = q.groups
         /\ a.ready = q.ready /\ a.raised = x
  BY DEF QueueRecord

(* Enqueue on a queue that has no message yet. *)
LEMMA EnqueueFirst ==
  ASSUME NEW q, QueueRecord(q), q.ready = << >>, NEW nums, NEW decoded
  PROVE  LET a == Enqueue(q, nums, decoded) IN
         /\ QueueRecord(a) /\ a.groups = q.groups /\ a.raised = q.raised
         /\ a.ready = << Message(nums, decoded) >>
         /\ \E m : a.ready = << m >> /\ m.line_nums = nums
<1> DEFINE m == Message(nums, decoded)
           a == Enqueue(q, nums, decoded)
<1>1. m.line_nums = nums
  BY DEF Message
<1>2. a = [q EXCEPT !.ready = Append(q.ready, m)]
  BY DEF Enqueue, Message
<1> HIDE DEF m, a
<1>3. Append(q.ready, m) = << m >>
  <2>1. << >> \in Seq({m}) /\ m \in {m}
    OBVIOUS
  <2> QED
    BY <2>1
<1>4. a = [q EXCEPT !.ready = << m >>]
  BY <1>2, <1>3
<1>5. /\ QueueRecord(a) /\ a.groups = q.groups
      /\ a.ready = << m >> /\ a.raised = q.raised
  BY <1>4, ReadyUpdated
<1>6. /\ QueueRecord(a) /\ a.groups = q.groups /\ a.raised = q.raised
      /\ a.ready = << m >>
      /\ \E x : a.ready = << x >> /\ x.line_nums = nums
  BY <1>1, <1>5
<1> QED
  BY <1>6 DEF a, m

LEMMA DroppedOutcome ==
  ASSUME NEW q, NEW n, NEW ids, NEW part, AtRest(q, ids, part)
  PROVE  /\ Outcome(q, q, n, ids, part)
         /\ Outcome(q, [q EXCEPT !.raised = TRUE], n, ids, part)
<1> DEFINE after == [q EXCEPT !.raised = TRUE]
<1>0. QueueRecord(q) /\ q.ready = << >> /\ q.raised = FALSE
  BY DEF AtRest
<1>1. /\ QueueRecord(after) /\ after.groups = q.groups /\ after.ready = q.ready
      /\ after.raised \in BOOLEAN
  BY <1>0, RaisedUpdated
<1> HIDE DEF after
<1>2. Outcome(q, after, n, ids, part)
  BY <1>1 DEF Outcome, Dropped, AtRest
<1> QED
  BY <1>2 DEF Outcome, Dropped, AtRest, after

LEMMA AloneOutcome ==
  ASSUME NEW q, NEW n, NEW ids, NEW part, AtRest(q, ids, part), NEW decoded
  PROVE  Outcome(q, Enqueue(q, << n >>, decoded), n, ids, part)
<1> DEFINE after == Enqueue(q, << n >>, decoded)
<1>0. QueueRecord(q) /\ q.ready = << >> /\ q.raised = FALSE
  BY DEF AtRest
<1>1. /\ QueueRecord(after) /\ after.groups = q.groups /\ after.raised = q.raised
      /\ \E m : after.ready = << m >> /\ m.line_nums = << n >>
  BY <1>0, EnqueueFirst
<1> HIDE DEF after
<1>2. Outcome(q, after, n, ids, part)
  BY <1>1 DEF Outcome, Alone, AtRest
<1> QED
  BY <1>2 DEF after

LEMMA StartedOutcome ==
  ASSUME NEW q, NEW ids, NEW part, AtRest(q, ids, part), NEW id \in ids, NEW p \in part
  PROVE  Outcome(q, [q EXCEPT !.groups[id] = << p >>], p.line_num, ids, part)
<1> DEFINE after == [q EXCEPT !.groups[id] = << p >>]
<1>0. QueueRecord(q) /\ q.ready = << >> /\ q.raised = FALSE
  BY DEF AtRest
<1>1. /\ QueueRecord(after) /\ after.groups = [q.groups EXCEPT ![id] = << p >>]
      /\ after.ready = q.ready /\ after.raised = FALSE
  BY <1>0 DEF QueueRecord
<1> HIDE DEF after
<1>2. Started(q, after, p.line_num, ids, part)
  BY <1>0, <1>1 DEF Started
<1>3. Outcome(q, after, p.line_num, ids, part)
  BY <1>1, <1>2 DEF Outcome
<1> QED
  BY <1>3 DEF after

(* With or without an exception when the group is decoded. *)
LEMMA JoinedOutcome ==
  ASSUME NEW q, NEW ids, NEW part, AtRest(q, ids, part), NEW id \in ids, NEW p \in part
  PROVE  /\ Outcome(q, [q EXCEPT !.groups[id] = Append(q.groups[id], p)],
                    p.line_num, ids, part)
         /\ Outcome(q, [q EXCEPT !.groups[id] = Append(q.groups[id], p), !.raised = TRUE],
                    p.line_num, ids, part)
<1> DEFINE after == [q EXCEPT !.groups[id] = Append(q.groups[id], p)]
           failed == [q EXCEPT !.groups[id] = Append(q.groups[id], p), !.raised = TRUE]
<1>0. QueueRecord(q) /\ q.ready = << >> /\ q.raised = FALSE
  BY DEF AtRest
<1>1. /\ QueueRecord(after)
      /\ after.groups = [q.groups EXCEPT ![id] = Append(q.groups[id], p)]
      /\ after.ready = q.ready /\ after.raised = FALSE
  BY <1>0 DEF QueueRecord
<1>2. /\ QueueRecord(failed)
      /\ failed.groups = [q.groups EXCEPT ![id] = Append(q.groups[id], p)]
      /\ failed.ready = q.ready /\ failed.raised = TRUE
  BY <1>0 DEF QueueRecord
<1> HIDE DEF after, failed
<1>3. Joined(q, after, p.line_num, ids, part) /\ Joined(q, failed, p.line_num, ids, part)
  BY <1>0, <1>1, <1>2 DEF Joined
<1>4. Outcome(q, after, p.line_num, ids, part) /\ Outcome(q, failed, p.line_num, ids, part)
  BY <1>1, <1>2, <1>3 DEF Outcome
<1> QED
  BY <1>4 DEF after, failed

LEMMA FinishedOutcome ==
  ASSUME NEW q, NEW ids, NEW part, AtRest(q, ids, part), NEW id \in ids, NEW p \in part,
         NEW decoded
  PROVE  Outcome(q, Enqueue([q EXCEPT !.groups[id] = << >>],
                            LineNums(Append(q.groups[id], p)), decoded),
                 p.line_num, ids, part)
<1> DEFINE emptied == [q EXCEPT !.groups[id] = << >>]
           nums == LineNums(Append(q.groups[id], p))
           after == Enqueue(emptied, nums, decoded)
<1>0. QueueRecord(q) /\ q.ready = << >> /\ q.raised = FALSE
  BY DEF AtRest
<1>1. /\ QueueRecord(emptied) /\ emptied.groups = [q.groups EXCEPT ![id] = << >>]
      /\ emptied.ready = << >> /\ emptied.raised = FALSE
  BY <1>0 DEF QueueRecord
<1> HIDE DEF emptied, nums
<1>2. /\ QueueRecord(after) /\ after.groups = emptied.groups /\ after.raised = FALSE
      /\ \E m : after.ready = << m >> /\ m.line_nums = nums
  BY <1>1, EnqueueFirst
<1> HIDE DEF after
<1>3. Finished(q, after, p.line_num, ids, part)
  BY <1>1, <1>2 DEF Finished, nums
<1>4. Outcome(q, after, p.line_num, ids, part)
  BY <1>2, <1>3 DEF Outcome
<1> QED
  BY <1>4 DEF after, emptied, nums

(* BareQueue.put *)
LEMMA PutBareOutcome ==
  ASSUME NEW q, AtRest(q, SequenceNumbers, Part),
         NEW line \in RawLine, Range(line.seq) \subseteq SequenceNumbers,
         NEW n \in Nat
  PROVE  Outcome(q, PutBare(q, line, n), n, SequenceNumbers, Part)
<1> DEFINE part == [line |-> line, line_num |-> n]
           after == PutBare(q, line, n)
           id == line.seq[1]
           parts == Append(q.groups[id], part)
           Goal == Outcome(q, after, n, SequenceNumbers, Part)
<1>1. part \in Part /\ part.line_num = n
  BY DEF Part
<1>2. part.line = line
  OBVIOUS
<1>3. CASE ~ line.framed
  <2>1. after = [q EXCEPT !.raised = TRUE] \/ after = Enqueue(q, << n >>, << >>)
    BY <1>3 DEF PutBare, PassOther, PassThrough
  <2> QED
    BY <2>1, AloneOutcome, DroppedOutcome
<1>4. CASE line.framed /\ line.total = 1
  <2>1. after = DecodeSingle(q, part)
    BY <1>4 DEF PutBare
  <2>2. after = q \/ after = Enqueue(q, << n >>, << part.line.body >>)
    BY <1>1, <2>1 DEF DecodeSingle
  <2> QED
    BY <2>2, AloneOutcome, DroppedOutcome
<1>5. CASE line.framed /\ line.total # 1
  <2>1. after = PutMultiLine(q, part)
    BY <1>5 DEF PutBare
  <2>2. CASE line.seq = << >>
    <3>1. after = [q EXCEPT !.raised = TRUE]
      BY <1>2, <2>1, <2>2 DEF PutMultiLine
    <3> QED
      BY <3>1, DroppedOutcome
  <2>3. CASE line.seq # << >>
    <3>1. id \in SequenceNumbers
      <4>1. line.seq \in Seq(Int)
        BY DEF RawLine
      <4>2. 1 \in DOMAIN line.seq
        BY <2>3, <4>1
      <4> QED
        BY <4>2 DEF Range
    <3>2. CASE line.number = 1
      <4>1. after = [q EXCEPT !.groups[id] = << part >>]
        BY <1>2, <2>1, <2>3, <3>2 DEF PutMultiLine, StartGroup
      <4> HIDE DEF part, id, after
      <4>2. Outcome(q, [q EXCEPT !.groups[id] = << part >>], part.line_num,
                    SequenceNumbers, Part)
        BY <1>1, <3>1, StartedOutcome
      <4> QED
        BY <1>1, <4>1, <4>2 DEF after
    <3>3. CASE line.number # 1
      <4>1. after = ContinueGroup(q, id, part)
        BY <1>2, <2>1, <2>3, <3>3 DEF PutMultiLine
      <4> HIDE DEF after, part, id
      <4>2. \/ after = q
            \/ after = [q EXCEPT !.groups[id] = Append(q.groups[id], part)]
            \/ after = Enqueue([q EXCEPT !.groups[id] = << >>],
                               LineNums(Append(q.groups[id], part)),
                               PartBodies(Append(q.groups[id], part)))
        BY <4>1 DEF ContinueGroup, FinishGroup
      <4>3. CASE after = q
        BY <4>3, DroppedOutcome DEF after
      <4>4. CASE after = [q EXCEPT !.groups[id] = Append(q.groups[id], part)]
        <5>1. Outcome(q, [q EXCEPT !.groups[id] = Append(q.groups[id], part)],
                      part.line_num, SequenceNumbers, Part)
          BY <1>1, <3>1, JoinedOutcome
        <5> QED
          BY <1>1, <4>4, <5>1 DEF after
      <4>5. CASE after = Enqueue([q EXCEPT !.groups[id] = << >>],
                                 LineNums(Append(q.groups[id], part)),
                                 PartBodies(Append(q.groups[id], part)))
        <5>1. Outcome(q, Enqueue([q EXCEPT !.groups[id] = << >>],
                                 LineNums(Append(q.groups[id], part)),
                                 PartBodies(Append(q.groups[id], part))),
                      part.line_num, SequenceNumbers, Part)
          BY <1>1, <3>1, FinishedOutcome
        <5> QED
          BY <1>1, <4>5, <5>1 DEF after
      <4> QED
        BY <4>2, <4>3, <4>4, <4>5
    <3> QED
      BY <3>2, <3>3
  <2> QED
    BY <2>2, <2>3
<1> QED
  <2>1. line.framed \in BOOLEAN
    BY DEF RawLine
  <2> QED
    BY <1>3, <1>4, <1>5, <2>1

(* TagQueue and UscgQueue, for a line that is part of a group. *)
LEMMA JoinGroupOutcome ==
  ASSUME NEW q, NEW ids, AtRest(q, ids, GroupPart), NEW id \in ids,
         NEW number, NEW total, NEW p \in GroupPart
  PROVE  Outcome(q, JoinGroup(q, id, number, total, p), p.line_num, ids, GroupPart)
<1> DEFINE after == JoinGroup(q, id, number, total, p)
           parts == Append(q.groups[id], p)
<1>1. \/ after = [q EXCEPT !.groups[id] = << p >>]
      \/ after = q
      \/ after = [q EXCEPT !.groups[id] = parts]
      \/ after = FinishLines(q, id, parts)
  BY DEF JoinGroup
<1>2. CASE after = [q EXCEPT !.groups[id] = << p >>]
  BY <1>2, StartedOutcome
<1>3. CASE after = q
  BY <1>3, DroppedOutcome
<1>0. /\ Outcome(q, [q EXCEPT !.groups[id] = parts], p.line_num, ids, GroupPart)
      /\ Outcome(q, [q EXCEPT !.groups[id] = parts, !.raised = TRUE],
                 p.line_num, ids, GroupPart)
  BY JoinedOutcome
<1>4. CASE after = [q EXCEPT !.groups[id] = parts]
  BY <1>0, <1>4
<1>5. CASE after = FinishLines(q, id, parts)
  <2>1. CASE after = [q EXCEPT !.groups[id] = parts, !.raised = TRUE]
    BY <1>0, <2>1
  <2>2. CASE after = Enqueue([q EXCEPT !.groups[id] = << >>],
                             LineNums(parts), DecodeMultiple(parts).decoded)
    BY <2>2, FinishedOutcome
  <2> QED
    BY <1>5, <2>1, <2>2 DEF FinishLines
<1> QED
  BY <1>1, <1>2, <1>3, <1>4, <1>5

(* TagQueue.put *)
LEMMA PutTagOutcome ==
  ASSUME AtRest(tagb_queue, GroupIds, GroupPart), NEW line \in TagLines, NEW n \in Nat
  PROVE  Outcome(tagb_queue, PutTag(tagb_queue, line, n), n, GroupIds, GroupPart)
<1> DEFINE q == tagb_queue
           p == [vdm |-> line.vdm, looks |-> line.looks, line_num |-> n]
           g == line.group[1]
<1>1. line \in TagLine
  BY LinesOfTheirTypes
<1>2. p \in GroupPart /\ p.line_num = n
  BY <1>1, SequenceIdsAreDigits DEF TagLine, GroupPart
<1>3. CASE line.no_checksum
  <2>1. PutTag(q, line, n) = [q EXCEPT !.raised = TRUE]
    BY <1>3 DEF PutTag
  <2> QED
    BY <2>1, DroppedOutcome
<1>4. CASE ~ line.no_checksum /\ (line.parsed => line.group = << >>)
  <2>1. \/ PutTag(q, line, n) = [q EXCEPT !.raised = TRUE]
        \/ PutTag(q, line, n) = Enqueue(q, << n >>, << >>)
        \/ PutTag(q, line, n) = Enqueue(q, << n >>, DecodeTagSingle(line.vdm))
    BY <1>1, <1>4 DEF PutTag, PutTagSingle, PassThrough, TagLine
  <2> QED
    BY <2>1, AloneOutcome, DroppedOutcome
<1>5. CASE ~ line.no_checksum /\ line.parsed /\ line.group # << >>
  <2>1. PutTag(q, line, n) = JoinGroup(q, g.id, g.number, g.total, p)
    BY <1>5 DEF PutTag
  <2>2. g.id \in GroupIds
    BY <1>5 DEF GroupIds
  <2> HIDE DEF p
  <2>3. Outcome(q, JoinGroup(q, g.id, g.number, g.total, p), p.line_num, GroupIds, GroupPart)
    BY <1>2, <2>2, JoinGroupOutcome
  <2> QED
    BY <1>2, <2>1, <2>3
<1> QED
  BY <1>1, <1>3, <1>4, <1>5 DEF TagLine

(* UscgQueue.put *)
LEMMA PutUscgOutcome ==
  ASSUME AtRest(uscg_queue, StationIds, GroupPart), NEW line \in UscgLines, NEW n \in Nat
  PROVE  Outcome(uscg_queue, PutUscg(uscg_queue, line, n), n, StationIds, GroupPart)
<1> DEFINE q == uscg_queue
           vdm == line.vdm
           p == [vdm |-> vdm, looks |-> TRUE, line_num |-> n]
<1>1. line \in UscgLine /\ vdm \in RawLine
  BY LinesOfTheirTypes DEF UscgLine
<1>2. p \in GroupPart /\ p.line_num = n
  BY <1>1, SequenceIdsAreDigits DEF GroupPart
<1>3. CASE ~ vdm.framed
  <2>1. PutUscg(q, line, n) = Enqueue(q, << n >>, << >>)
    BY <1>3 DEF PutUscg, PassThrough
  <2> QED
    BY <2>1, AloneOutcome
<1>4. CASE vdm.framed /\ vdm.total = 1
  <2>1. \/ PutUscg(q, line, n) = q
        \/ PutUscg(q, line, n) = Enqueue(q, << n >>, << vdm.body >>)
    BY <1>4 DEF PutUscg, DecodeSingle
  <2> QED
    BY <2>1, AloneOutcome, DroppedOutcome
<1>5. CASE vdm.framed /\ vdm.total # 1
  <2>1. PutUscg(q, line, n) = JoinGroup(q, StationId(line), vdm.number, vdm.total, p)
    BY <1>5 DEF PutUscg
  <2>2. StationId(line) \in StationIds
    BY DEF StationIds
  <2> HIDE DEF p
  <2>3. Outcome(q, JoinGroup(q, StationId(line), vdm.number, vdm.total, p),
                p.line_num, StationIds, GroupPart)
    BY <1>2, <2>2, JoinGroupOutcome
  <2> QED
    BY <1>2, <2>1, <2>3
<1> QED
  BY <1>1, <1>3, <1>4, <1>5 DEF RawLine

(* What put leaves in the queue, once Pass and Rest are done. *)
LEMMA RestAtRest ==
  ASSUME NEW q, NEW after, NEW n, NEW ids, NEW part,
         AtRest(q, ids, part), Outcome(q, after, n, ids, part)
  PROVE  AtRest(Rest(after), ids, part) /\ Rest(after).groups = after.groups
<1>1. after.groups \in [ids -> Seq(part)]
  <2> DEFINE g == q.groups
  <2>0. g \in [ids -> Seq(part)]
    BY DEF AtRest
  <2>1. \/ after.groups = g
        \/ \E id \in ids, p \in part : \/ after.groups = [g EXCEPT ![id] = << p >>]
                                     \/ after.groups = [g EXCEPT ![id] = Append(g[id], p)]
                                     \/ after.groups = [g EXCEPT ![id] = << >>]
    BY DEF Outcome, Dropped, Alone, Started, Joined, Finished
  <2> HIDE DEF g
  <2>2. ASSUME NEW id \in ids, NEW p \in part
        PROVE  << p >> \in Seq(part) /\ Append(g[id], p) \in Seq(part) /\ << >> \in Seq(part)
    BY <2>0
  <2> QED
    BY <2>0, <2>1, <2>2
<1>2. QueueRecord(after) /\ after.raised \in BOOLEAN
  BY DEF Outcome
<1>3. CASE after.raised
  <2>1. after.ready = << >>
    BY <1>3 DEF Outcome, Dropped, Alone, Started, Joined, Finished
  <2>2. Rest(after) = [after EXCEPT !.raised = FALSE]
    BY <1>3 DEF Rest
  <2>3. /\ QueueRecord(Rest(after)) /\ Rest(after).groups = after.groups
        /\ Rest(after).ready = after.ready /\ Rest(after).raised = FALSE
    BY <1>2, <2>2 DEF QueueRecord
  <2> QED
    BY <1>1, <2>1, <2>3 DEF AtRest
<1>4. CASE ~ after.raised
  <2> DEFINE rest == SubSeq(after.ready, 2, Len(after.ready))
  <2>1. after.ready = << >> \/ \E m : after.ready = << m >>
    BY DEF Outcome, Dropped, Alone, Started, Joined, Finished
  <2>2. rest = << >>
    <3>1. CASE after.ready = << >>
      BY <3>1
    <3>2. ASSUME NEW m, after.ready = << m >> PROVE rest = << >>
      <4>1. << m >> \in Seq({m}) /\ Len(<< m >>) = 1
        OBVIOUS
      <4> QED
        BY <3>2, <4>1
    <3> QED
      BY <2>1, <3>1, <3>2
  <2>3. Rest(after) = [after EXCEPT !.ready = rest]
    BY <1>4 DEF Rest
  <2> HIDE DEF rest
  <2>4. /\ QueueRecord(Rest(after)) /\ Rest(after).groups = after.groups
        /\ Rest(after).ready = rest /\ Rest(after).raised = after.raised
    BY <1>2, <2>3 DEF QueueRecord
  <2> QED
    BY <1>1, <1>2, <1>4, <2>2, <2>4 DEF AtRest
<1> QED
  BY <1>2, <1>3, <1>4

-----------------------------------------------------------------------------
(* The same on all groups together, f becoming g, and on the line numbers  *)
(* of the output, out becoming out2, by a put of line n.                   *)

Keyed(K, f, g, out, out2, n) ==
  \/ g = f /\ out2 \in {out, Append(out, << n >>)}
  \/ \E k \in K : g = [f EXCEPT ![k] = << n >>] /\ out2 = out
  \/ \E k \in K : g = [f EXCEPT ![k] = Append(f[k], n)] /\ out2 = out
  \/ \E k \in K : /\ g = [f EXCEPT ![k] = << >>]
                  /\ out2 = Append(out, Append(f[k], n))

LEMMA LineNumsAppend ==
  ASSUME NEW part, \A p \in part : p.line_num \in Int,
         NEW parts \in Seq(part), NEW p \in part
  PROVE  /\ LineNums(parts) \in Seq(Int)
         /\ LineNums(Append(parts, p)) = Append(LineNums(parts), p.line_num)
         /\ LineNums(<< p >>) = << p.line_num >>
         /\ LineNums(<< >>) = << >>
<1>1. /\ LineNums(parts) \in Seq(Int) /\ Len(LineNums(parts)) = Len(parts)
      /\ \A i \in 1 .. Len(parts) : LineNums(parts)[i] = parts[i].line_num
  BY DEF LineNums
<1> DEFINE more == Append(parts, p)
<1>2. /\ more \in Seq(part) /\ Len(more) = Len(parts) + 1 /\ Len(parts) \in Nat
      /\ \A i \in 1 .. Len(parts) : more[i] = parts[i]
      /\ more[Len(parts) + 1] = p
  OBVIOUS
<1> HIDE DEF more
<1>3. LineNums(more) = Append(LineNums(parts), p.line_num)
  <2>1. /\ LineNums(more) \in Seq(Int) /\ Len(LineNums(more)) = Len(parts) + 1
        /\ \A i \in 1 .. Len(parts) + 1 : LineNums(more)[i] = more[i].line_num
    BY <1>2 DEF LineNums
  <2>2. /\ Append(LineNums(parts), p.line_num) \in Seq(Int)
        /\ Len(Append(LineNums(parts), p.line_num)) = Len(parts) + 1
        /\ \A i \in 1 .. Len(parts) :
             Append(LineNums(parts), p.line_num)[i] = parts[i].line_num
        /\ Append(LineNums(parts), p.line_num)[Len(parts) + 1] = p.line_num
    BY <1>1, <1>2
  <2>3. \A i \in 1 .. Len(parts) + 1 :
          LineNums(more)[i] = Append(LineNums(parts), p.line_num)[i]
    <3> DEFINE f == LineNums(more)
               g == Append(LineNums(parts), p.line_num)
               n == Len(parts)
    <3>1. /\ n \in Nat
          /\ \A i \in 1 .. n + 1 : f[i] = more[i].line_num
          /\ \A i \in 1 .. n : more[i] = parts[i] /\ g[i] = parts[i].line_num
          /\ more[n + 1] = p /\ g[n + 1] = p.line_num
      BY <1>2, <2>1, <2>2
    <3> HIDE DEF f, g, n
    <3> SUFFICES \A i \in 1 .. n + 1 : f[i] = g[i]
      BY DEF f, g, n
    <3>2. \A i \in 1 .. n : i \in 1 .. n + 1
      BY <3>1
    <3>3. n + 1 \in 1 .. n + 1 /\ \A i \in 1 .. n + 1 : i \in 1 .. n \/ i = n + 1
      BY <3>1
    <3> QED
      BY <3>1, <3>2, <3>3
  <2> HIDE DEF more
  <2> QED
    BY <2>1, <2>2, <2>3
<1>4. LineNums(<< p >>) = << p.line_num >> /\ LineNums(<< >>) = << >>
  BY DEF LineNums
<1> QED
  BY <1>1, <1>3, <1>4 DEF more

(* G and H are the groups of all queues before and after, those of type t  *)
(* are in the queue that changes.                                          *)
OthersStay(K, t, ids, G, H, q, after) ==
  /\ \A id \in ids : /\ << t, id >> \in K
                     /\ G[<< t, id >>] = q.groups[id]
                     /\ H[<< t, id >>] = after.groups[id]
  /\ \A k \in K : (\E id \in ids : k = << t, id >>) \/ H[k] = G[k]

PassedOn(after, out, out2) ==
  out2 = IF after.raised \/ after.ready = << >>
         THEN out
         ELSE Append(out, Head(after.ready).line_nums)

LEMMA KeyedOutcome ==
  ASSUME NEW K, NEW t, NEW ids, NEW part, \A p \in part : p.line_num \in Int,
         NEW G, NEW H, NEW q, NEW after, NEW n, NEW out, NEW out2,
         OthersStay(K, t, ids, G, H, q, after),
         AtRest(q, ids, part), Outcome(q, after, n, ids, part),
         PassedOn(after, out, out2)
  PROVE  Keyed(K, [k \in K |-> LineNums(G[k])], [k \in K |-> LineNums(H[k])],
               out, out2, n)
<1> USE DEF OthersStay, PassedOn
<1> DEFINE f == [k \in K |-> LineNums(G[k])]
           g == [k \in K |-> LineNums(H[k])]
<1>1. q.groups \in [ids -> Seq(part)]
  BY DEF AtRest
<1>2. ASSUME NEW m, after.ready = << m >>, after.raised = FALSE
      PROVE  out2 = Append(out, m.line_nums)
  <2>1. << m >> # << >> /\ Head(<< m >>) = m
    OBVIOUS
  <2> QED
    BY <1>2, <2>1
<1>3. after.ready = << >> => out2 = out
  OBVIOUS
<1>4. ASSUME after.groups = q.groups PROVE g = f
  <2>1. \A k \in K : H[k] = G[k]
    BY <1>4
  <2> QED
    BY <2>1
<1>5. ASSUME NEW id \in ids, NEW x, after.groups = [q.groups EXCEPT ![id] = x]
      PROVE  g = [f EXCEPT ![<< t, id >>] = LineNums(x)] /\ << t, id >> \in K
             /\ f[<< t, id >>] = LineNums(q.groups[id])
  <2>1. \A k \in K : H[k] = IF k = << t, id >> THEN x ELSE G[k]
    <3> SUFFICES ASSUME NEW k \in K PROVE H[k] = IF k = << t, id >> THEN x ELSE G[k]
      OBVIOUS
    <3>1. CASE k = << t, id >>
      BY <1>1, <1>5, <3>1
    <3>2. CASE k # << t, id >> /\ \E i \in ids : k = << t, i >>
      <4>1. PICK i \in ids : k = << t, i >>
        BY <3>2
      <4>2. i # id
        BY <3>2, <4>1
      <4> QED
        BY <1>1, <1>5, <3>2, <4>1, <4>2
    <3>3. CASE k # << t, id >> /\ ~ \E i \in ids : k = << t, i >>
      BY <3>3
    <3> QED
      BY <3>1, <3>2, <3>3
  <2> QED
    BY <2>1
<1> HIDE DEF f, g
<1>6. CASE Dropped(q, after)
  BY <1>3, <1>4, <1>6 DEF Dropped, Keyed, f, g
<1>7. CASE Alone(q, after, n)
  BY <1>2, <1>4, <1>7 DEF Alone, Keyed, f, g
<1>8. CASE Started(q, after, n, ids, part)
  <2>1. PICK id \in ids, p \in part :
          p.line_num = n /\ after.groups = [q.groups EXCEPT ![id] = << p >>]
    BY <1>8 DEF Started
  <2>2. LineNums(<< p >>) = << n >>
    BY <1>1, <2>1, LineNumsAppend
  <2>3. g = [f EXCEPT ![<< t, id >>] = << n >>] /\ << t, id >> \in K
    BY <1>5, <2>1, <2>2
  <2>4. out2 = out
    BY <1>3, <1>8 DEF Started
  <2>5. Keyed(K, f, g, out, out2, n)
    BY <2>3, <2>4 DEF Keyed
  <2> QED
    BY <2>5 DEF f, g
<1>9. CASE Joined(q, after, n, ids, part)
  <2>1. PICK id \in ids, p \in part :
          /\ p.line_num = n
          /\ after.groups = [q.groups EXCEPT ![id] = Append(q.groups[id], p)]
    BY <1>9 DEF Joined
  <2>2. LineNums(Append(q.groups[id], p)) = Append(LineNums(q.groups[id]), n)
    <3>1. PICK parts \in Seq(part) : parts = q.groups[id]
      BY <1>1
    <3>2. /\ LineNums(Append(parts, p)) = Append(LineNums(parts), p.line_num)
          /\ LineNums(<< >>) = << >>
      BY LineNumsAppend
    <3> QED
      BY <2>1, <3>1, <3>2
  <2>3. /\ g = [f EXCEPT ![<< t, id >>] = Append(f[<< t, id >>], n)]
        /\ << t, id >> \in K
    <3>1. /\ g = [f EXCEPT ![<< t, id >>] = LineNums(Append(q.groups[id], p))]
          /\ << t, id >> \in K /\ f[<< t, id >>] = LineNums(q.groups[id])
      BY <1>5, <2>1
    <3> QED
      BY <2>2, <3>1
  <2>4. out2 = out
    BY <1>3, <1>9 DEF Joined
  <2>5. Keyed(K, f, g, out, out2, n)
    BY <2>3, <2>4 DEF Keyed
  <2> QED
    BY <2>5 DEF f, g
<1>10. CASE Finished(q, after, n, ids, part)
  <2>1. PICK id \in ids, p \in part :
          /\ p.line_num = n
          /\ after.groups = [q.groups EXCEPT ![id] = << >>]
          /\ \E m : /\ after.ready = << m >>
                    /\ m.line_nums = LineNums(Append(q.groups[id], p))
    BY <1>10 DEF Finished
  <2>2. /\ LineNums(Append(q.groups[id], p)) = Append(LineNums(q.groups[id]), n)
        /\ LineNums(<< >>) = << >>
    <3>1. PICK parts \in Seq(part) : parts = q.groups[id]
      BY <1>1
    <3>2. /\ LineNums(Append(parts, p)) = Append(LineNums(parts), p.line_num)
          /\ LineNums(<< >>) = << >>
      BY LineNumsAppend
    <3> QED
      BY <2>1, <3>1, <3>2
  <2>3. /\ g = [f EXCEPT ![<< t, id >>] = << >>] /\ << t, id >> \in K
        /\ f[<< t, id >>] = LineNums(q.groups[id])
    BY <1>5, <2>1, <2>2
  <2>4. after.raised = FALSE
    BY <1>10 DEF Finished
  <2>5. out2 = Append(out, Append(f[<< t, id >>], n))
    BY <1>2, <2>1, <2>2, <2>3, <2>4
  <2>6. Keyed(K, f, g, out, out2, n)
    BY <2>3, <2>5 DEF Keyed
  <2> QED
    BY <2>6 DEF f, g
<1> QED
  BY <1>6, <1>7, <1>8, <1>9, <1>10 DEF Outcome

-----------------------------------------------------------------------------
(* LineAssembly allows these steps, and they keep the groups apart. *)

Waiting(K, f) == UNION {Range(f[k]) : k \in K}

(* One group changes: it is emptied, or its last line is the new one. *)
OnlyChange(K, f, g, k, n) ==
  /\ k \in K
  /\ g \in [K -> Seq(Nat)]
  /\ \A l \in K : l # k => g[l] = f[l]
  /\ Len(g[k]) <= n + 1
  /\ Assembly!Increasing(g[k])
  /\ Range(g[k]) \subseteq Range(f[k]) \cup {n + 1}

LEMMA OneGroupChanges ==
  ASSUME NEW K, NEW n \in Nat, NEW f, Apart(f, K, n), NEW k, NEW g,
         OnlyChange(K, f, g, k, n)
  PROVE  /\ Apart(g, K, n + 1)
         /\ Waiting(K, g) = (Waiting(K, f) \ Range(f[k])) \cup Range(g[k])
<1> DEFINE nums == g[k]
<1>1. /\ f \in [K -> Seq(Nat)]
      /\ \A l \in K : /\ Len(f[l]) <= n
                      /\ Assembly!Increasing(f[l])
                      /\ Range(f[l]) \subseteq 1 .. n
      /\ \A l, o \in K : l # o => Range(f[l]) \cap Range(f[o]) = {}
  BY DEF Apart
<1>2. /\ g \in [K -> Seq(Nat)] /\ g[k] = nums /\ k \in K
      /\ \A l \in K : l # k => g[l] = f[l]
      /\ Len(nums) <= n + 1 /\ Assembly!Increasing(nums)
      /\ Range(nums) \subseteq Range(f[k]) \cup {n + 1}
  BY DEF OnlyChange
<1>3. ASSUME NEW l \in K
      PROVE  /\ Len(g[l]) <= n + 1
             /\ Assembly!Increasing(g[l])
             /\ Range(g[l]) \subseteq 1 .. n + 1
  <2>1. 1 .. n \subseteq 1 .. n + 1 /\ n + 1 \in 1 .. n + 1
    OBVIOUS
  <2>2. CASE l = k
    BY <1>1, <1>2, <2>1, <2>2
  <2>3. CASE l # k
    <3>1. Len(f[l]) \in Nat
      BY <1>1
    <3> QED
      BY <1>1, <1>2, <2>1, <2>3, <3>1
  <2> QED
    BY <2>2, <2>3
<1>4. ASSUME NEW l \in K, l # k PROVE Range(nums) \cap Range(f[l]) = {}
  <2>1. n + 1 \notin Range(f[l])
    BY <1>1
  <2>2. Range(f[k]) \cap Range(f[l]) = {}
    BY <1>1, <1>2, <1>4
  <2> QED
    BY <1>2, <2>1, <2>2
<1>5. \A l, o \in K : l # o => Range(g[l]) \cap Range(g[o]) = {}
  BY <1>1, <1>2, <1>4
<1>6. Waiting(K, g) = (Waiting(K, f) \ Range(f[k])) \cup Range(nums)
  <2>1. ASSUME NEW x \in Waiting(K, g)
        PROVE  x \in (Waiting(K, f) \ Range(f[k])) \cup Range(nums)
    <3>1. PICK l \in K : x \in Range(g[l])
      BY <2>1 DEF Waiting
    <3>2. CASE l = k
      BY <1>2, <3>1, <3>2
    <3>3. CASE l # k
      <4>1. x \in Range(f[l]) /\ x \notin Range(f[k])
        BY <1>1, <1>2, <3>1, <3>3
      <4> QED
        BY <4>1 DEF Waiting
    <3> QED
      BY <3>2, <3>3
  <2>2. ASSUME NEW x \in (Waiting(K, f) \ Range(f[k])) \cup Range(nums)
        PROVE  x \in Waiting(K, g)
    <3>1. CASE x \in Range(nums)
      BY <1>2, <3>1 DEF Waiting
    <3>2. CASE x \in Waiting(K, f) /\ x \notin Range(f[k])
      <4>1. PICK l \in K : x \in Range(f[l])
        BY <3>2 DEF Waiting
      <4> QED
        BY <1>2, <3>2, <4>1 DEF Waiting
    <3> QED
      BY <2>2, <3>1, <3>2
  <2> QED
    BY <2>1, <2>2
<1> QED
  BY <1>2, <1>3, <1>5, <1>6 DEF Apart

(* What the new line does to a group it joins. *)
LEMMA LineAppended ==
  ASSUME NEW n \in Nat, NEW nums \in Seq(Nat), Len(nums) <= n,
         Assembly!Increasing(nums), Range(nums) \subseteq 1 .. n
  PROVE  LET m == Append(nums, n + 1) IN
         /\ m \in Seq(Nat) /\ Len(m) <= n + 1 /\ Assembly!Increasing(m)
         /\ Range(m) = Range(nums) \cup {n + 1}
<1> DEFINE m == Append(nums, n + 1)
<1>1. /\ m \in Seq(Nat) /\ Len(m) = Len(nums) + 1 /\ Len(nums) \in Nat
      /\ \A i \in 1 .. Len(nums) : m[i] = nums[i]
      /\ m[Len(nums) + 1] = n + 1
  OBVIOUS
<1> HIDE DEF m
<1>2. DOMAIN m = 1 .. Len(nums) + 1 /\ DOMAIN nums = 1 .. Len(nums)
  BY <1>1
<1>3. 1 .. Len(nums) + 1 = (1 .. Len(nums)) \cup {Len(nums) + 1}
  BY <1>1
<1>4. Range(m) = Range(nums) \cup {n + 1}
  BY <1>1, <1>2, <1>3 DEF Range
<1>5. ASSUME NEW i \in DOMAIN m, NEW j \in DOMAIN m, i < j PROVE m[i] < m[j]
  <2>1. i \in 1 .. Len(nums)
    BY <1>1, <1>2, <1>5
  <2>2. m[i] = nums[i] /\ nums[i] \in 1 .. n
    BY <1>1, <1>2, <2>1 DEF Range
  <2>3. CASE j \in 1 .. Len(nums)
    BY <1>1, <1>2, <1>5, <2>1, <2>3 DEF Assembly!Increasing
  <2>4. CASE j = Len(nums) + 1
    BY <1>1, <2>2, <2>4
  <2> QED
    BY <1>2, <1>3, <2>3, <2>4
<1>6. Assembly!Increasing(m)
  BY <1>5 DEF Assembly!Increasing
<1> QED
  BY <1>1, <1>4, <1>6 DEF m

(* A step of LineAssembly, w and out becoming w2 and out2. *)
Assembles(w, w2, out, out2, n) ==
  \/ w2 = w /\ out2 = out
  \/ /\ \E lost \in SUBSET w : w2 = (w \ lost) \cup {n + 1}
     /\ out2 = out
  \/ \E j \in 0 .. n : \E prior \in [1 .. j -> w] :
       /\ Assembly!Increasing(prior)
       /\ out2 = Append(out, Append(prior, n + 1))
       /\ w2 = w \ Range(prior)

LEMMA KeyedAssembles ==
  ASSUME NEW K, NEW n \in Nat, NEW f, Apart(f, K, n), NEW g, NEW out, NEW out2,
         Keyed(K, f, g, out, out2, n + 1)
  PROVE  /\ Apart(g, K, n + 1)
         /\ Assembles(Waiting(K, f), Waiting(K, g), out, out2, n)
<1>1. /\ f \in [K -> Seq(Nat)]
      /\ \A k \in K : /\ Len(f[k]) <= n
                      /\ Assembly!Increasing(f[k])
                      /\ Range(f[k]) \subseteq 1 .. n
                      /\ Range(f[k]) \subseteq Waiting(K, f)
  BY DEF Apart, Waiting
<1>2. /\ << >> \in Seq(Nat) /\ Len(<< >>) = 0 /\ Range(<< >>) = {}
      /\ Assembly!Increasing(<< >>) /\ << >> \in [1 .. 0 -> Waiting(K, f)]
      /\ Append(<< >>, n + 1) = << n + 1 >>
  BY DEF Range, Assembly!Increasing
<1>3. CASE g = f /\ out2 \in {out, Append(out, << n + 1 >>)}
  <2>1. Apart(f, K, n + 1)
    <3>1. \A x \in 1 .. n : x \in 1 .. n + 1
      OBVIOUS
    <3>2. \A k \in K : Len(f[k]) \in Nat
      BY <1>1
    <3>3. \A k \in K : Len(f[k]) <= n + 1 /\ Range(f[k]) \subseteq 1 .. n + 1
      BY <1>1, <3>1, <3>2
    <3> QED
      BY <3>3 DEF Apart
  <2>2. CASE out2 = Append(out, << n + 1 >>)
    <3>1. /\ 0 \in 0 .. n
          /\ out2 = Append(out, Append(<< >>, n + 1))
          /\ Waiting(K, g) = Waiting(K, f) \ Range(<< >>)
      BY <1>2, <1>3, <2>2
    <3> QED
      BY <1>2, <1>3, <2>1, <3>1 DEF Assembles
  <2>3. CASE out2 = out
    BY <1>3, <2>1, <2>3 DEF Assembles
  <2> QED
    BY <1>3, <2>2, <2>3
<1>4. ASSUME NEW k \in K, g = [f EXCEPT ![k] = << n + 1 >>], out2 = out
      PROVE  /\ Apart(g, K, n + 1)
             /\ \E lost \in SUBSET Waiting(K, f) :
                  Waiting(K, g) = (Waiting(K, f) \ lost) \cup {n + 1}
  <2>1. /\ << n + 1 >> \in Seq(Nat) /\ Len(<< n + 1 >>) = 1
        /\ Assembly!Increasing(<< n + 1 >>) /\ Range(<< n + 1 >>) = {n + 1}
    BY DEF Range, Assembly!Increasing
  <2>2. /\ g \in [K -> Seq(Nat)] /\ g[k] = << n + 1 >>
        /\ \A l \in K : l # k => g[l] = f[l]
        /\ Len(g[k]) <= n + 1 /\ Assembly!Increasing(g[k])
        /\ Range(g[k]) = {n + 1}
        /\ Range(g[k]) \subseteq Range(f[k]) \cup {n + 1}
    BY <1>1, <1>4, <2>1
  <2>3. /\ Apart(g, K, n + 1)
        /\ Waiting(K, g) = (Waiting(K, f) \ Range(f[k])) \cup {n + 1}
    <3>1. OnlyChange(K, f, g, k, n)
      BY <2>2 DEF OnlyChange
    <3> QED
      BY <2>2, <3>1, OneGroupChanges
  <2> QED
    BY <1>1, <2>3
<1>5. ASSUME NEW k \in K, g = [f EXCEPT ![k] = Append(f[k], n + 1)], out2 = out
      PROVE  /\ Apart(g, K, n + 1)
             /\ \E lost \in SUBSET Waiting(K, f) :
                  Waiting(K, g) = (Waiting(K, f) \ lost) \cup {n + 1}
  <2> DEFINE m == Append(f[k], n + 1)
  <2>1. /\ m \in Seq(Nat) /\ Len(m) <= n + 1 /\ Assembly!Increasing(m)
        /\ Range(m) = Range(f[k]) \cup {n + 1}
    BY <1>1, LineAppended
  <2>2. /\ g \in [K -> Seq(Nat)] /\ g[k] = m
        /\ \A l \in K : l # k => g[l] = f[l]
    BY <1>1, <1>5, <2>1
  <2> HIDE DEF m
  <2>3. /\ Apart(g, K, n + 1)
        /\ Waiting(K, g) = (Waiting(K, f) \ Range(f[k])) \cup Range(g[k])
    <3>1. OnlyChange(K, f, g, k, n)
      BY <2>1, <2>2 DEF OnlyChange
    <3> QED
      BY <3>1, OneGroupChanges
  <2>4. Waiting(K, g) = (Waiting(K, f) \ {}) \cup {n + 1}
    BY <1>1, <2>1, <2>2, <2>3
  <2> QED
    BY <2>3, <2>4
<1>6. ASSUME NEW k \in K, g = [f EXCEPT ![k] = << >>],
             out2 = Append(out, Append(f[k], n + 1))
      PROVE  /\ Apart(g, K, n + 1)
             /\ \E j \in 0 .. n : \E prior \in [1 .. j -> Waiting(K, f)] :
                  /\ Assembly!Increasing(prior)
                  /\ out2 = Append(out, Append(prior, n + 1))
                  /\ Waiting(K, g) = Waiting(K, f) \ Range(prior)
  <2>1. /\ Apart(g, K, n + 1)
        /\ Waiting(K, g) = (Waiting(K, f) \ Range(f[k])) \cup {}
    <3>1. /\ g \in [K -> Seq(Nat)] /\ g[k] = << >>
          /\ \A l \in K : l # k => g[l] = f[l]
      BY <1>1, <1>2, <1>6
    <3>2. /\ Len(g[k]) <= n + 1 /\ Assembly!Increasing(g[k])
          /\ Range(g[k]) = {}
      BY <1>2, <3>1
    <3>3. /\ Apart(g, K, n + 1)
          /\ Waiting(K, g) = (Waiting(K, f) \ Range(f[k])) \cup Range(g[k])
      <4>1. OnlyChange(K, f, g, k, n)
        BY <3>1, <3>2 DEF OnlyChange
      <4> QED
        BY <4>1, OneGroupChanges
    <3> QED
      BY <3>2, <3>3
  <2>2. f[k] \in Seq(Nat) /\ Len(f[k]) \in 0 .. n
    BY <1>1
  <2>3. f[k] \in [1 .. Len(f[k]) -> Waiting(K, f)]
    BY <1>1, <2>2 DEF Range
  <2> QED
    BY <1>1, <1>6, <2>1, <2>2, <2>3
<1> QED
  <2>1. CASE g = f /\ out2 \in {out, Append(out, << n + 1 >>)}
    BY <1>3, <2>1 DEF Assembles
  <2>2. CASE \E k \in K : g = [f EXCEPT ![k] = << n + 1 >>] /\ out2 = out
    BY <1>4, <2>2 DEF Assembles
  <2>3. CASE \E k \in K : g = [f EXCEPT ![k] = Append(f[k], n + 1)] /\ out2 = out
    BY <1>5, <2>3 DEF Assembles
  <2>4. CASE \E k \in K : /\ g = [f EXCEPT ![k] = << >>]
                        /\ out2 = Append(out, Append(f[k], n + 1))
    BY <1>6, <2>4 DEF Assembles
  <2> QED
    BY <2>1, <2>2, <2>3, <2>4 DEF Keyed

-----------------------------------------------------------------------------
(* A put, on the variables. *)

NumsOf(messages) == [i \in DOMAIN messages |-> messages[i].line_nums]

(* The output is t and then q, and m comes to it. *)
MessageAppended(t, q, m) ==
  /\ NumsOf(t \o Append(q, m)) = Append(NumsOf(t \o q), m.line_nums)
  /\ OwnSeq(Append(q, m))

LEMMA NumsOfAppend ==
  ASSUME NEW t, OwnSeq(t), NEW q, OwnSeq(q), NEW m
  PROVE  MessageAppended(t, q, m)
<1> DEFINE S == Range(t) \cup Range(q) \cup {m}
           o == t \o q
           o2 == t \o Append(q, m)
<1>1. t \in Seq(S) /\ q \in Seq(S) /\ m \in S
  BY DEF OwnSeq
<1> HIDE DEF S
<1>2. /\ o \in Seq(S) /\ Len(o) \in Nat
      /\ o2 \in Seq(S) /\ Len(o2) = Len(o) + 1
      /\ \A i \in 1 .. Len(o) : o2[i] = o[i]
      /\ o2[Len(o) + 1] = m
  BY <1>1
<1> HIDE DEF o, o2
<1>3. NumsOf(o2) = Append(NumsOf(o), m.line_nums)
  <2> DEFINE T == {x.line_nums : x \in S}
  <2>1. ASSUME NEW s \in Seq(S)
        PROVE  /\ NumsOf(s) \in Seq(T) /\ Len(NumsOf(s)) = Len(s)
               /\ \A i \in 1 .. Len(s) : NumsOf(s)[i] = s[i].line_nums
    <3>1. NumsOf(s) = [i \in 1 .. Len(s) |-> s[i].line_nums]
      BY DEF NumsOf
    <3> QED
      BY <3>1
  <2>2. m.line_nums \in T
    BY <1>1
  <2> HIDE DEF T
  <2> DEFINE a == NumsOf(o)
             a2 == NumsOf(o2)
             b == Append(a, m.line_nums)
  <2>3. /\ a \in Seq(T) /\ Len(a) = Len(o)
        /\ \A i \in 1 .. Len(o) : a[i] = o[i].line_nums
    BY <1>2, <2>1
  <2>4. /\ a2 \in Seq(T) /\ Len(a2) = Len(o2)
        /\ \A i \in 1 .. Len(o2) : a2[i] = o2[i].line_nums
    BY <1>2, <2>1
  <2> HIDE DEF a, a2
  <2>5. /\ b \in Seq(T) /\ Len(b) = Len(o) + 1
        /\ \A i \in 1 .. Len(o) : b[i] = a[i]
        /\ b[Len(o) + 1] = m.line_nums
    BY <1>2, <2>2, <2>3
  <2> HIDE DEF b
  <2>6. Len(a2) = Len(b) /\ \A i \in 1 .. Len(o) + 1 : a2[i] = b[i]
    <3>1. ASSUME NEW i \in 1 .. Len(o) PROVE a2[i] = b[i]
      <4>1. i \in 1 .. Len(o2)
        BY <1>2
      <4>2. a2[i] = o2[i].line_nums /\ o2[i] = o[i]
        BY <1>2, <2>4, <4>1
      <4>3. b[i] = a[i] /\ a[i] = o[i].line_nums
        BY <2>3, <2>5
      <4> QED
        BY <4>2, <4>3
    <3>2. a2[Len(o) + 1] = b[Len(o) + 1]
      <4>1. Len(o) + 1 \in 1 .. Len(o2)
        BY <1>2
      <4>2. a2[Len(o) + 1] = o2[Len(o) + 1].line_nums
        BY <2>4, <4>1
      <4> QED
        BY <1>2, <2>5, <4>2
    <3>3. Len(a2) = Len(b)
      BY <1>2, <2>4, <2>5
    <3>4. ASSUME NEW i \in 1 .. Len(o) + 1
          PROVE  i \in 1 .. Len(o) \/ i = Len(o) + 1
      BY <1>2
    <3> QED
      BY <3>1, <3>2, <3>3, <3>4
  <2>7. a2 = b
    BY <1>2, <2>4, <2>5, <2>6
  <2> QED
    BY <2>7 DEF a, a2, b
<1>4. Append(q, m) \in Seq(Range(Append(q, m)))
  <2> DEFINE r == Append(q, m)
  <2>1. r \in Seq(S)
    BY <1>1
  <2> HIDE DEF r
  <2>2. r = [i \in 1 .. Len(r) |-> r[i]] /\ Len(r) \in Nat
    BY <2>1
  <2>3. \A i \in 1 .. Len(r) : r[i] \in Range(r)
    BY <2>1 DEF Range
  <2> DEFINE R == Range(r)
  <2> HIDE DEF R
  <2>4. r \in Seq(R)
    BY <2>2, <2>3 DEF R
  <2> QED
    BY <2>4 DEF r, R
<1> QED
  BY <1>3, <1>4 DEF o, o2, OwnSeq, MessageAppended

Groups == [k \in Keys |-> GroupAt(k)]

OutNums == NumsOf(Output)

LEMMA GroupsByType ==
  /\ \A id \in SequenceNumbers : /\ << "BARE", id >> \in Keys
                                /\ Groups[<< "BARE", id >>] = bare_queue.groups[id]
                                /\ Groups'[<< "BARE", id >>] = bare_queue'.groups[id]
  /\ \A id \in GroupIds : /\ << "TAGB", id >> \in Keys
                          /\ Groups[<< "TAGB", id >>] = tagb_queue.groups[id]
                          /\ Groups'[<< "TAGB", id >>] = tagb_queue'.groups[id]
  /\ \A id \in StationIds : /\ << "USCG", id >> \in Keys
                            /\ Groups[<< "USCG", id >>] = uscg_queue.groups[id]
                            /\ Groups'[<< "USCG", id >>] = uscg_queue'.groups[id]
  BY DEF Groups, GroupAt, Keys

LEMMA KeyOfSomeType ==
  ASSUME NEW k \in Keys
  PROVE  \/ \E id \in SequenceNumbers : k = << "BARE", id >>
         \/ \E id \in GroupIds : k = << "TAGB", id >>
         \/ \E id \in StationIds : k = << "USCG", id >>
  BY DEF Keys

LEMMA PassOutput ==
  ASSUME QueuesAtRest, NEW after, Pass(after), taken' = taken
  PROVE  /\ OwnSeq(taken') /\ OwnSeq(queue')
         /\ PassedOn(after, OutNums, OutNums')
<1>1. OwnSeq(taken) /\ OwnSeq(queue)
  BY DEF QueuesAtRest
<1>2. CASE after.raised \/ after.ready = << >>
  BY <1>1, <1>2 DEF Pass, PassedOn, OutNums, Output, NumsOf
<1>3. CASE ~ (after.raised \/ after.ready = << >>)
  <2> DEFINE m == Head(after.ready)
  <2>1. queue' = Append(queue, m)
    BY <1>3 DEF Pass
  <2> HIDE DEF m
  <2>2. /\ NumsOf(taken \o Append(queue, m)) = Append(NumsOf(taken \o queue), m.line_nums)
        /\ OwnSeq(Append(queue, m))
    <3>1. MessageAppended(taken, queue, m)
      BY <1>1, NumsOfAppend
    <3> QED
      BY <3>1 DEF MessageAppended
  <2>3. OutNums' = Append(OutNums, m.line_nums)
    <3>1. Output = taken \o queue /\ Output' = taken \o Append(queue, m)
      BY <2>1 DEF Output
    <3>2. OutNums = NumsOf(Output) /\ OutNums' = NumsOf(Output')
      BY DEF OutNums, NumsOf
    <3> QED
      BY <2>2, <3>1, <3>2
  <2> QED
    BY <1>1, <1>3, <2>1, <2>2, <2>3 DEF PassedOn, m
<1> QED
  BY <1>2, <1>3

(* All that the proof says of a put. *)
PutKeeps == /\ line_num' = line_num + 1
            /\ QueuesAtRest'
            /\ Keyed(Keys, NumsAt, NumsAt', OutNums, OutNums', line_num + 1)

LEMMA BareLineKeeps ==
  ASSUME QueuesAtRest, NEW line \in BareLines, PutBareLine(line)
  PROVE  PutKeeps
<1> DEFINE after == PutBare(bare_queue, line, line_num + 1)
<1>1. /\ line_num \in Nat /\ line_num' = line_num + 1 /\ taken' = taken
      /\ Pass(after) /\ bare_queue' = Rest(after)
      /\ tagb_queue' = tagb_queue /\ uscg_queue' = uscg_queue
  BY DEF PutBareLine, Count, QueuesAtRest
<1>2. AtRest(bare_queue, SequenceNumbers, Part)
  BY DEF QueuesAtRest
<1>3. Outcome(bare_queue, after, line_num + 1, SequenceNumbers, Part)
  <2>1. line \in RawLine /\ Range(line.seq) \subseteq SequenceNumbers
    <3>1. line \in RawLine /\ line.seq \in SequenceIds
      BY LinesOfTheirTypes, SequenceIdsAreDigits
    <3> QED
      BY <3>1 DEF SequenceIds, Range
  <2>2. line_num + 1 \in Nat
    BY <1>1
  <2> QED
    BY <1>2, <2>1, <2>2, PutBareOutcome
<1> HIDE DEF after
<1>4. AtRest(Rest(after), SequenceNumbers, Part) /\ Rest(after).groups = after.groups
  BY <1>2, <1>3, RestAtRest
<1>5. /\ OwnSeq(taken') /\ OwnSeq(queue')
      /\ PassedOn(after, OutNums, OutNums')
  BY <1>1, PassOutput
<1>6. QueuesAtRest'
  BY <1>1, <1>4, <1>5 DEF QueuesAtRest
<1>7. OthersStay(Keys, "BARE", SequenceNumbers, Groups, Groups', bare_queue, after)
  <2>1. ASSUME NEW k \in Keys
        PROVE  (\E id \in SequenceNumbers : k = << "BARE", id >>) \/ Groups'[k] = Groups[k]
    <3>1. CASE \E id \in GroupIds : k = << "TAGB", id >>
      BY <1>1, <3>1, GroupsByType
    <3>2. CASE \E id \in StationIds : k = << "USCG", id >>
      BY <1>1, <3>2, GroupsByType
    <3> QED
      BY <3>1, <3>2, KeyOfSomeType
  <2> QED
    BY <1>1, <1>4, <2>1, GroupsByType DEF OthersStay
<1>8. Keyed(Keys, [k \in Keys |-> LineNums(Groups[k])], [k \in Keys |-> LineNums(Groups'[k])],
            OutNums, OutNums', line_num + 1)
  <2>1. \A p \in Part : p.line_num \in Int
    BY DEF Part
  <2> QED
    BY <1>2, <1>3, <1>5, <1>7, <2>1, KeyedOutcome
<1>9. /\ NumsAt = [k \in Keys |-> LineNums(Groups[k])]
      /\ NumsAt' = [k \in Keys |-> LineNums(Groups'[k])]
  BY DEF NumsAt, Groups
<1> QED
  BY <1>1, <1>6, <1>8, <1>9 DEF PutKeeps

LEMMA TagLineKeeps ==
  ASSUME QueuesAtRest, NEW line \in TagLines, PutTagLine(line)
  PROVE  PutKeeps
<1> DEFINE after == PutTag(tagb_queue, line, line_num + 1)
<1>1. /\ line_num \in Nat /\ line_num' = line_num + 1 /\ taken' = taken
      /\ Pass(after) /\ tagb_queue' = Rest(after)
      /\ bare_queue' = bare_queue /\ uscg_queue' = uscg_queue
  BY DEF PutTagLine, Count, QueuesAtRest
<1>2. AtRest(tagb_queue, GroupIds, GroupPart)
  BY DEF QueuesAtRest
<1>3. Outcome(tagb_queue, after, line_num + 1, GroupIds, GroupPart)
  <2>1. line_num + 1 \in Nat
    BY <1>1
  <2> QED
    BY <1>2, <2>1, PutTagOutcome
<1> HIDE DEF after
<1>4. AtRest(Rest(after), GroupIds, GroupPart) /\ Rest(after).groups = after.groups
  BY <1>2, <1>3, RestAtRest
<1>5. /\ OwnSeq(taken') /\ OwnSeq(queue')
      /\ PassedOn(after, OutNums, OutNums')
  BY <1>1, PassOutput
<1>6. QueuesAtRest'
  BY <1>1, <1>4, <1>5 DEF QueuesAtRest
<1>7. OthersStay(Keys, "TAGB", GroupIds, Groups, Groups', tagb_queue, after)
  <2>1. ASSUME NEW k \in Keys
        PROVE  (\E id \in GroupIds : k = << "TAGB", id >>) \/ Groups'[k] = Groups[k]
    <3>1. CASE \E id \in SequenceNumbers : k = << "BARE", id >>
      BY <1>1, <3>1, GroupsByType
    <3>2. CASE \E id \in StationIds : k = << "USCG", id >>
      BY <1>1, <3>2, GroupsByType
    <3> QED
      BY <3>1, <3>2, KeyOfSomeType
  <2> QED
    BY <1>1, <1>4, <2>1, GroupsByType DEF OthersStay
<1>8. Keyed(Keys, [k \in Keys |-> LineNums(Groups[k])], [k \in Keys |-> LineNums(Groups'[k])],
            OutNums, OutNums', line_num + 1)
  <2>1. \A p \in GroupPart : p.line_num \in Int
    BY DEF GroupPart
  <2> QED
    BY <1>2, <1>3, <1>5, <1>7, <2>1, KeyedOutcome
<1>9. /\ NumsAt = [k \in Keys |-> LineNums(Groups[k])]
      /\ NumsAt' = [k \in Keys |-> LineNums(Groups'[k])]
  BY DEF NumsAt, Groups
<1> QED
  BY <1>1, <1>6, <1>8, <1>9 DEF PutKeeps

LEMMA UscgLineKeeps ==
  ASSUME QueuesAtRest, NEW line \in UscgLines, PutUscgLine(line)
  PROVE  PutKeeps
<1> DEFINE after == PutUscg(uscg_queue, line, line_num + 1)
<1>1. /\ line_num \in Nat /\ line_num' = line_num + 1 /\ taken' = taken
      /\ Pass(after) /\ uscg_queue' = Rest(after)
      /\ bare_queue' = bare_queue /\ tagb_queue' = tagb_queue
  BY DEF PutUscgLine, Count, QueuesAtRest
<1>2. AtRest(uscg_queue, StationIds, GroupPart)
  BY DEF QueuesAtRest
<1>3. Outcome(uscg_queue, after, line_num + 1, StationIds, GroupPart)
  <2>1. line_num + 1 \in Nat
    BY <1>1
  <2> QED
    BY <1>2, <2>1, PutUscgOutcome
<1> HIDE DEF after
<1>4. AtRest(Rest(after), StationIds, GroupPart) /\ Rest(after).groups = after.groups
  BY <1>2, <1>3, RestAtRest
<1>5. /\ OwnSeq(taken') /\ OwnSeq(queue')
      /\ PassedOn(after, OutNums, OutNums')
  BY <1>1, PassOutput
<1>6. QueuesAtRest'
  BY <1>1, <1>4, <1>5 DEF QueuesAtRest
<1>7. OthersStay(Keys, "USCG", StationIds, Groups, Groups', uscg_queue, after)
  <2>1. ASSUME NEW k \in Keys
        PROVE  (\E id \in StationIds : k = << "USCG", id >>) \/ Groups'[k] = Groups[k]
    <3>1. CASE \E id \in SequenceNumbers : k = << "BARE", id >>
      BY <1>1, <3>1, GroupsByType
    <3>2. CASE \E id \in GroupIds : k = << "TAGB", id >>
      BY <1>1, <3>2, GroupsByType
    <3> QED
      BY <3>1, <3>2, KeyOfSomeType
  <2> QED
    BY <1>1, <1>4, <2>1, GroupsByType DEF OthersStay
<1>8. Keyed(Keys, [k \in Keys |-> LineNums(Groups[k])], [k \in Keys |-> LineNums(Groups'[k])],
            OutNums, OutNums', line_num + 1)
  <2>1. \A p \in GroupPart : p.line_num \in Int
    BY DEF GroupPart
  <2> QED
    BY <1>2, <1>3, <1>5, <1>7, <2>1, KeyedOutcome
<1>9. /\ NumsAt = [k \in Keys |-> LineNums(Groups[k])]
      /\ NumsAt' = [k \in Keys |-> LineNums(Groups'[k])]
  BY DEF NumsAt, Groups
<1> QED
  BY <1>1, <1>6, <1>8, <1>9 DEF PutKeeps

(* A line of no form comes out by itself at once. *)
LEMMA TextLineKeeps ==
  ASSUME QueuesAtRest, NEW line \in TextLines, PutTextLine(line)
  PROVE  PutKeeps
<1> DEFINE m == [line_nums |-> << line_num' >>, decoded |-> << >>]
<1>1. /\ line_num' = line_num + 1 /\ taken' = taken /\ queue' = Append(queue, m)
      /\ bare_queue' = bare_queue /\ tagb_queue' = tagb_queue
      /\ uscg_queue' = uscg_queue
  BY DEF PutTextLine, Count
<1>2. m.line_nums = << line_num + 1 >>
  BY <1>1
<1> HIDE DEF m
<1>3. OwnSeq(taken) /\ OwnSeq(queue) /\ line_num \in Nat
  BY DEF QueuesAtRest
<1>4. /\ NumsOf(taken \o Append(queue, m)) = Append(NumsOf(taken \o queue), m.line_nums)
      /\ OwnSeq(Append(queue, m))
  <2>1. MessageAppended(taken, queue, m)
    BY <1>3, NumsOfAppend
  <2> QED
    BY <2>1 DEF MessageAppended
<1>5. OutNums' = Append(OutNums, << line_num + 1 >>)
  <2>1. Output = taken \o queue /\ Output' = taken \o Append(queue, m)
    BY <1>1 DEF Output
  <2>2. OutNums = NumsOf(Output) /\ OutNums' = NumsOf(Output')
    BY DEF OutNums, NumsOf
  <2> QED
    BY <1>2, <1>4, <2>1, <2>2
<1>6. NumsAt' = NumsAt
  BY <1>1 DEF NumsAt, GroupAt
<1>7. QueuesAtRest'
  BY <1>1, <1>3, <1>4 DEF QueuesAtRest
<1> QED
  BY <1>1, <1>5, <1>6, <1>7 DEF PutKeeps, Keyed

LEMMA PutKeepsAll ==
  ASSUME QueuesAtRest, Put
  PROVE  PutKeeps
  BY TextLineKeeps, BareLineKeeps, TagLineKeeps, UscgLineKeeps DEF Put

-----------------------------------------------------------------------------

LEMMA InProgressIsWaiting == /\ InProgress = Waiting(Keys, NumsAt)
                              /\ InProgress' = Waiting(Keys, NumsAt')
<1>1. ASSUME NEW x
      PROVE  x \in InProgress <=> \E k \in Keys : x \in Range(NumsAt[k])
  <2>1. x \in InProgress <=> \E parts \in Pending : x \in Range(LineNums(parts))
    BY DEF InProgress
  <2>2. Pending = {GroupAt(k) : k \in Keys}
    <3>1. \A k \in Keys : GroupAt(k) \in Pending
      BY KeyOfSomeType DEF Pending, GroupAt
    <3>2. \A parts \in Pending : \E k \in Keys : parts = GroupAt(k)
      <4>0. \A k \in Keys : Groups[k] = GroupAt(k)
        BY DEF Groups
      <4>1. \A id \in SequenceNumbers : \E k \in Keys : bare_queue.groups[id] = GroupAt(k)
        BY <4>0, GroupsByType
      <4>2. \A id \in GroupIds : \E k \in Keys : tagb_queue.groups[id] = GroupAt(k)
        BY <4>0, GroupsByType
      <4>3. \A id \in StationIds : \E k \in Keys : uscg_queue.groups[id] = GroupAt(k)
        BY <4>0, GroupsByType
      <4> QED
        BY <4>1, <4>2, <4>3 DEF Pending
    <3> QED
      BY <3>1, <3>2
  <2>3. \A k \in Keys : NumsAt[k] = LineNums(GroupAt(k))
    BY DEF NumsAt
  <2> QED
    BY <2>1, <2>2, <2>3
<1>2. ASSUME NEW x
      PROVE  x \in Waiting(Keys, NumsAt) <=> \E k \in Keys : x \in Range(NumsAt[k])
  BY DEF Waiting
<1>3. InProgress = Waiting(Keys, NumsAt)
  BY <1>1, <1>2
<1>4. (InProgress = Waiting(Keys, NumsAt))'
  BY <1>3, PTL
<1>5. Keys' = Keys
  BY DEF Keys, GroupIds, StationIds
<1> QED
  BY <1>3, <1>4, <1>5 DEF Waiting

(* A put is a step of LineAssembly. *)
LEMMA PutAssembles ==
  ASSUME Inductive, Put
  PROVE  Inductive' /\ Assembly!Next
<1>1. PutKeeps
  BY PutKeepsAll DEF Inductive
<1>2. line_num \in Nat /\ Apart(NumsAt, Keys, line_num)
  BY DEF Inductive, QueuesAtRest
<1>3. /\ Apart(NumsAt', Keys, line_num + 1)
      /\ Assembles(Waiting(Keys, NumsAt), Waiting(Keys, NumsAt'), OutNums, OutNums', line_num)
  BY <1>1, <1>2, KeyedAssembles DEF PutKeeps
<1>4. Inductive'
  <2>1. Apart(NumsAt, Keys, line_num)' = Apart(NumsAt', Keys, line_num')
    BY DEF Apart, Keys, GroupIds, StationIds
  <2> QED
    BY <1>1, <1>3, <2>1 DEF PutKeeps, Inductive
<1>5. /\ InProgress = Waiting(Keys, NumsAt)
      /\ InProgress' = Waiting(Keys, NumsAt')
  BY InProgressIsWaiting
<1>6. /\ OutNums = [i \in DOMAIN Output |-> Output[i].line_nums]
      /\ OutNums' = [i \in DOMAIN Output |-> Output[i].line_nums]'
  BY DEF OutNums, NumsOf
<1>7. Assembly!Next
  <2>1. line_num' = line_num + 1
    BY <1>1 DEF PutKeeps
  <2>2. Assembles(InProgress, InProgress', OutNums, OutNums', line_num)
    BY <1>3, <1>5
  <2>3. CASE InProgress' = InProgress /\ OutNums' = OutNums
    BY <1>6, <2>1, <2>3 DEF Assembly!Next, Assembly!NoUse
  <2>4. CASE /\ \E lost \in SUBSET InProgress :
                  InProgress' = (InProgress \ lost) \cup {line_num + 1}
             /\ OutNums' = OutNums
    BY <1>6, <2>1, <2>4 DEF Assembly!Next, Assembly!Wait
  <2>5. CASE \E j \in 0 .. line_num : \E prior \in [1 .. j -> InProgress] :
               /\ Assembly!Increasing(prior)
               /\ OutNums' = Append(OutNums, Append(prior, line_num + 1))
               /\ InProgress' = InProgress \ Range(prior)
    <3>1. Assembly!Complete
      BY <1>6, <2>1, <2>5 DEF Assembly!Complete, Assembly!Range, Range
    <3> QED
      BY <3>1 DEF Assembly!Next
  <2> QED
    BY <2>2, <2>3, <2>4, <2>5 DEF Assembles
<1> QED
  BY <1>4, <1>7

(* Taking a message only moves it within the output. *)
LEMMA GetAssembles ==
  ASSUME Inductive, Get
  PROVE  Inductive' /\ UNCHANGED Assembly!vars
<1>1. /\ queue # << >> /\ queue' = Tail(queue) /\ taken' = Append(taken, Head(queue))
      /\ UNCHANGED << line_num, bare_queue, tagb_queue, uscg_queue >>
  BY DEF Get
<1>2. OwnSeq(taken) /\ OwnSeq(queue)
  BY DEF Inductive, QueuesAtRest
<1> DEFINE S == Range(taken) \cup Range(queue)
<1>3. taken \in Seq(S) /\ queue \in Seq(S)
  BY <1>2 DEF OwnSeq
<1> HIDE DEF S
<1>4. taken' \in Seq(S) /\ queue' \in Seq(S) /\ taken' \o queue' = taken \o queue
  BY <1>1, <1>3
<1>5. OwnSeq(taken') /\ OwnSeq(queue')
  <2>1. ASSUME NEW s \in Seq(S) PROVE OwnSeq(s)
    <3>1. s = [i \in 1 .. Len(s) |-> s[i]] /\ Len(s) \in Nat
      OBVIOUS
    <3>2. \A i \in 1 .. Len(s) : s[i] \in Range(s)
      BY DEF Range
    <3> DEFINE R == Range(s)
    <3> HIDE DEF R
    <3>3. s \in Seq(R)
      BY <3>1, <3>2 DEF R
    <3> QED
      BY <3>3 DEF R, OwnSeq
  <2> QED
    BY <1>4, <2>1
<1>6. NumsAt' = NumsAt /\ Keys' = Keys
  BY <1>1 DEF NumsAt, GroupAt, Keys, GroupIds, StationIds
<1>7. Inductive'
  BY <1>1, <1>5, <1>6 DEF Inductive, QueuesAtRest, AtRest, GroupIds, StationIds
<1>8. UNCHANGED Assembly!vars
  <2>1. InProgress' = InProgress
    BY <1>6, InProgressIsWaiting
  <2>2. Output' = Output
    BY <1>4 DEF Output
  <2> QED
    BY <1>1, <2>1, <2>2 DEF Assembly!vars
<1> QED
  BY <1>7, <1>8

LEMMA InitAssembles ==
  ASSUME Init
  PROVE  Inductive /\ Assembly!Init
<1>1. /\ line_num = 0 /\ taken = << >> /\ queue = << >>
      /\ bare_queue = NewBareQueue
      /\ tagb_queue = NewGroupQueue(GroupIds) /\ uscg_queue = NewGroupQueue(StationIds)
  BY DEF Init
<1>2. /\ AtRest(bare_queue, SequenceNumbers, Part)
      /\ AtRest(tagb_queue, GroupIds, GroupPart)
      /\ AtRest(uscg_queue, StationIds, GroupPart)
  BY <1>1 DEF AtRest, QueueRecord, NewBareQueue, NewGroupQueue
<1>3. OwnSeq(taken) /\ OwnSeq(queue)
  BY <1>1 DEF OwnSeq
<1>4. \A k \in Keys : GroupAt(k) = << >>
  <2>1. ASSUME NEW k \in Keys PROVE Groups[k] = << >>
    BY <1>1, KeyOfSomeType, GroupsByType DEF NewBareQueue, NewGroupQueue
  <2> QED
    BY <2>1 DEF Groups
<1>5. /\ LineNums(<< >>) = << >> /\ Range(<< >>) = {}
      /\ Assembly!Increasing(<< >>) /\ Len(<< >>) = 0
  BY DEF LineNums, Range, Assembly!Increasing
<1>6. NumsAt \in [Keys -> Seq(Nat)] /\ \A k \in Keys : NumsAt[k] = << >>
  <2>1. \A k \in Keys : NumsAt[k] = << >>
    BY <1>4, <1>5 DEF NumsAt
  <2>2. NumsAt = [k \in Keys |-> NumsAt[k]] /\ << >> \in Seq(Nat)
    BY DEF NumsAt
  <2> HIDE DEF NumsAt
  <2> QED
    BY <2>1, <2>2
<1>7. Apart(NumsAt, Keys, line_num)
  BY <1>1, <1>5, <1>6 DEF Apart
<1>8. InProgress = {}
  BY <1>5, <1>6, InProgressIsWaiting DEF Waiting
<1>9. [i \in DOMAIN Output |-> Output[i].line_nums] = << >>
  BY <1>1 DEF Output
<1> QED
  BY <1>1, <1>2, <1>3, <1>7, <1>8, <1>9 DEF Inductive, QueuesAtRest, Assembly!Init

LEMMA QueueStutters ==
  ASSUME Inductive, UNCHANGED vars
  PROVE  Inductive' /\ UNCHANGED Assembly!vars
  BY DEF vars, Inductive, QueuesAtRest, NumsAt, GroupAt, Keys, GroupIds,
         StationIds, Assembly!vars, InProgress, Pending, Output

(* Whatever the lines, however many there are and whatever is raised in    *)
(* between, NmeaQueue does no more than assemble lines.                    *)
THEOREM QueueAssemblesLines == Spec => AssemblesLines
<1>1. Init => Inductive /\ Assembly!Init
  BY InitAssembles
<1>2. Inductive /\ [Next]_vars => Inductive' /\ [Assembly!Next]_(Assembly!vars)
  <2> SUFFICES ASSUME Inductive, [Next]_vars
               PROVE  Inductive' /\ [Assembly!Next]_(Assembly!vars)
    OBVIOUS
  <2> QED
    BY PutAssembles, GetAssembles, QueueStutters DEF Next
<1> QED
  BY <1>1, <1>2, PTL DEF Spec, AssemblesLines, Assembly!Spec

-----------------------------------------------------------------------------
(* What LineAssembly keeps, NmeaQueue keeps. *)

Kept ==
  INSTANCE LineAssemblyProofs WITH
    now <- line_num,
    pool <- InProgress,
    out <- [i \in DOMAIN Output |-> Output[i].line_nums]

LEMMA LinesKept == Spec => [](Kept!UsedOnce /\ Kept!InOrder)
<1>1. Assembly!Init => Kept!Init
  BY DEF Assembly!Init, Kept!Init
<1>2. [Assembly!Next]_(Assembly!vars) => [Kept!Next]_(Kept!vars)
  BY DEF Assembly!Next, Assembly!NoUse, Assembly!Wait, Assembly!Complete, Assembly!vars,
         Assembly!Increasing, Assembly!Range,
         Kept!Next, Kept!NoUse, Kept!Wait, Kept!Complete, Kept!vars,
         Kept!Increasing, Kept!Range
<1>3. Kept!Spec => [](Kept!UsedOnce /\ Kept!InOrder)
  BY Kept!AssemblyKeepsLines
<1> QED
  BY <1>1, <1>2, <1>3, QueueAssemblesLines, PTL DEF AssemblesLines, Assembly!Spec, Kept!Spec

LEMMA OutputNums ==
  LET nums == [i \in DOMAIN Output |-> Output[i].line_nums] IN
  DOMAIN nums = DOMAIN Output /\ \A i \in DOMAIN Output : nums[i] = Output[i].line_nums
  OBVIOUS

LEMMA UsedOnceInQueue == Kept!UsedOnce => EachLineOnce
<1> SUFFICES ASSUME Kept!UsedOnce PROVE EachLineOnce
  OBVIOUS
<1>1. \A f : Kept!Range(f) = Range(f)
  BY DEF Kept!Range, Range
<1>2. ASSUME NEW i \in DOMAIN Output, NEW j \in DOMAIN Output, i # j
      PROVE  Range(Output[i].line_nums) \cap Range(Output[j].line_nums) = {}
  BY <1>1, <1>2, OutputNums DEF Kept!UsedOnce
<1>3. ASSUME NEW i \in DOMAIN Output, NEW parts \in Pending
      PROVE  Range(Output[i].line_nums) \cap Range(LineNums(parts)) = {}
  <2>1. Range(Output[i].line_nums) \cap InProgress = {}
    BY <1>1, OutputNums DEF Kept!UsedOnce
  <2>2. Range(LineNums(parts)) \subseteq InProgress
    BY DEF InProgress
  <2> QED
    BY <2>1, <2>2
<1> QED
  BY <1>2, <1>3 DEF EachLineOnce

LEMMA InOrderInQueue == Kept!InOrder => InLineOrder
<1> SUFFICES ASSUME Kept!InOrder PROVE InLineOrder
  OBVIOUS
<1>1. ASSUME NEW i \in DOMAIN Output, NEW j \in DOMAIN Output, i < j
      PROVE  Last(Output[i].line_nums) < Last(Output[j].line_nums)
  BY <1>1, OutputNums DEF Kept!InOrder, Kept!LastOf, Last
<1>2. ASSUME NEW i \in DOMAIN Output
      PROVE  LET nums == Output[i].line_nums IN
             \A a, b \in DOMAIN nums : a < b => nums[a] < nums[b]
  BY OutputNums DEF Kept!InOrder, Kept!Increasing
<1> QED
  BY <1>1, <1>2 DEF InLineOrder

(* A line is in at most one message, across the three queues, and leaves   *)
(* its group when it is (groups.pop after put).                            *)
THEOREM QueueUsesLinesOnce == Spec => []EachLineOnce
  BY LinesKept, UsedOnceInQueue, PTL

(* Messages come out in the order of the lines that completed them, each   *)
(* with its lines in order (line_nums).                                    *)
THEOREM QueueKeepsLineOrder == Spec => []InLineOrder
  BY LinesKept, InOrderInQueue, PTL

-----------------------------------------------------------------------------
(* What BareQueue.put does, of every line in every state of it.            *)

BareState == [groups : [SequenceNumbers -> Seq(Part)],
              ready  : Seq(QueuedMessage),
              raised : BOOLEAN]

(* A line of a group of that sequence number. *)
OfGroup(line, id) == line.framed /\ line.total # 1 /\ line.seq = << id >>

InTurn(group, number) == group # << >> /\ Len(group) = number - 1

Ignored(q, r, line) ==
  /\ r.groups = q.groups /\ r.ready = q.ready
  /\ \A id \in SequenceNumbers :
       OfGroup(line, id) => line.number # 1 /\ ~ InTurn(q.groups[id], line.number)

ByItself(q, r, line, n) ==
  /\ r.groups = q.groups
  /\ \E decoded \in Seq(Chunks) :
       /\ r.ready = Append(q.ready, Message(<< n >>, decoded))
       /\ decoded # << >> => line.framed /\ line.total = 1 /\ decoded = << line.body >>
  /\ \A id \in SequenceNumbers : ~ OfGroup(line, id)

Starts(q, r, line, n) ==
  \E id \in SequenceNumbers :
    /\ OfGroup(line, id) /\ line.number = 1
    /\ r.groups = [q.groups EXCEPT ![id] = << [line |-> line, line_num |-> n] >>]
    /\ r.ready = q.ready

Joins(q, r, line, n) ==
  \E id \in SequenceNumbers :
    LET parts == Append(q.groups[id], [line |-> line, line_num |-> n]) IN
    /\ OfGroup(line, id) /\ line.number # 1 /\ InTurn(q.groups[id], line.number)
    /\ line.number # line.total \/ PartBodies(parts) \in DecodeErrors
    /\ r.groups = [q.groups EXCEPT ![id] = parts]
    /\ r.ready = q.ready

Finishes(q, r, line, n) ==
  \E id \in SequenceNumbers :
    LET parts == Append(q.groups[id], [line |-> line, line_num |-> n]) IN
    /\ OfGroup(line, id) /\ line.number # 1 /\ InTurn(q.groups[id], line.number)
    /\ line.number = line.total /\ PartBodies(parts) \notin DecodeErrors
    /\ r.groups = [q.groups EXCEPT ![id] = << >>]
    /\ r.ready = Append(q.ready, Message(LineNums(parts), PartBodies(parts)))
    /\ r.raised = q.raised

BareMove(q, r, line, n) ==
  \/ Ignored(q, r, line)
  \/ ByItself(q, r, line, n)
  \/ Starts(q, r, line, n)
  \/ Joins(q, r, line, n)
  \/ Finishes(q, r, line, n)

LEMMA AppendTo ==
  ASSUME NEW S, NEW s \in Seq(S), NEW e \in S
  PROVE  /\ Append(s, e) \in Seq(S)
         /\ Len(s) \in Nat /\ Len(Append(s, e)) = Len(s) + 1
         /\ DOMAIN s = 1 .. Len(s)
         /\ DOMAIN Append(s, e) = 1 .. Len(s) + 1
         /\ \A i \in 1 .. Len(s) : Append(s, e)[i] = s[i]
         /\ Append(s, e)[Len(s) + 1] = e
  OBVIOUS

LEMMA EnqueueGives ==
  ASSUME NEW q \in BareState, NEW nums \in Seq(Int), NEW decoded \in Seq(Chunks)
  PROVE  LET r == Enqueue(q, nums, decoded) IN
         /\ r \in BareState /\ r.groups = q.groups /\ r.raised = q.raised
         /\ r.ready = Append(q.ready, Message(nums, decoded))
<1> DEFINE m == Message(nums, decoded)
           ready == Append(q.ready, m)
           r == Enqueue(q, nums, decoded)
<1>1. q.ready \in Seq(QueuedMessage) /\ m \in QueuedMessage
  BY DEF BareState, QueuedMessage, Message
<1>2. r = [q EXCEPT !.ready = ready]
  BY DEF Enqueue, Message
<1> HIDE DEF m
<1>3. ready \in Seq(QueuedMessage)
  BY <1>1, AppendTo
<1> HIDE DEF r, ready
<1>4. r \in BareState /\ r.groups = q.groups /\ r.raised = q.raised /\ r.ready = ready
  BY <1>2, <1>3 DEF BareState
<1> QED
  BY <1>4 DEF r, ready, m

LEMMA PartsGive ==
  ASSUME NEW parts \in Seq(Part)
  PROVE  /\ LineNums(parts) \in Seq(Int) /\ PartBodies(parts) \in Seq(Chunks)
         /\ Len(LineNums(parts)) = Len(parts) /\ Len(PartBodies(parts)) = Len(parts)
         /\ \A i \in 1 .. Len(parts) : /\ LineNums(parts)[i] = parts[i].line_num
                                       /\ PartBodies(parts)[i] = parts[i].line.body
<1>1. \A i \in 1 .. Len(parts) : parts[i] \in Part
  OBVIOUS
<1>2. \A i \in 1 .. Len(parts) : parts[i].line_num \in Int /\ parts[i].line.body \in Chunks
  BY <1>1 DEF Part, RawLine
<1>3. /\ LineNums(parts) = [i \in 1 .. Len(parts) |-> parts[i].line_num]
      /\ PartBodies(parts) = [i \in 1 .. Len(parts) |-> parts[i].line.body]
  BY DEF LineNums, PartBodies
<1> QED
  BY <1>2, <1>3

LEMMA BareMoved ==
  ASSUME NEW q \in BareState, NEW line \in RawLine, line.seq \in SequenceIds,
         NEW n \in Int
  PROVE  PutBare(q, line, n) \in BareState /\ BareMove(q, PutBare(q, line, n), line, n)
<1> DEFINE part == [line |-> line, line_num |-> n]
           r == PutBare(q, line, n)
           Goal == r \in BareState /\ BareMove(q, r, line, n)
<1>1. part \in Part /\ part.line = line /\ part.line_num = n
  BY DEF Part
<1>2. line.framed \in BOOLEAN /\ line.body \in Chunks
  BY DEF RawLine
<1>3. << n >> \in Seq(Int) /\ << line.body >> \in Seq(Chunks) /\ << >> \in Seq(Chunks)
  BY <1>2
<1>4. CASE ~ line.framed
  <2>1. CASE line \in HandlerErrors
    <3>1. r = [q EXCEPT !.raised = TRUE]
      BY <1>4, <2>1 DEF PutBare, PassOther
    <3>2. r \in BareState /\ r.groups = q.groups /\ r.ready = q.ready
      BY <3>1 DEF BareState
    <3> HIDE DEF r
    <3>3. Ignored(q, r, line)
      BY <1>4, <3>2 DEF Ignored, OfGroup
    <3> QED
      BY <3>2, <3>3 DEF BareMove, r
  <2>2. CASE line \notin HandlerErrors
    <3>1. r = Enqueue(q, << n >>, << >>)
      BY <1>4, <2>2 DEF PutBare, PassOther, PassThrough
    <3> HIDE DEF r
    <3>2. /\ r \in BareState /\ r.groups = q.groups
          /\ r.ready = Append(q.ready, Message(<< n >>, << >>))
      BY <1>3, <3>1, EnqueueGives
    <3>3. ByItself(q, r, line, n)
      BY <1>3, <1>4, <3>2 DEF ByItself, OfGroup
    <3> QED
      BY <3>2, <3>3 DEF BareMove, r
  <2> QED
    BY <2>1, <2>2
<1>5. CASE line.framed /\ line.total = 1
  <2>1. r = DecodeSingle(q, part)
    BY <1>5 DEF PutBare
  <2>2. CASE << line.body >> \in DecodeErrors
    <3>1. r = q
      BY <1>1, <2>1, <2>2 DEF DecodeSingle
    <3> HIDE DEF r
    <3>2. Ignored(q, r, line)
      BY <1>5, <3>1 DEF Ignored, OfGroup
    <3> QED
      BY <3>1, <3>2 DEF BareMove, r
  <2>3. CASE << line.body >> \notin DecodeErrors
    <3>1. r = Enqueue(q, << n >>, << line.body >>)
      BY <1>1, <2>1, <2>3 DEF DecodeSingle
    <3> HIDE DEF r
    <3>2. /\ r \in BareState /\ r.groups = q.groups
          /\ r.ready = Append(q.ready, Message(<< n >>, << line.body >>))
      BY <1>3, <3>1, EnqueueGives
    <3>3. ByItself(q, r, line, n)
      BY <1>3, <1>5, <3>2 DEF ByItself, OfGroup
    <3> QED
      BY <3>2, <3>3 DEF BareMove, r
  <2> QED
    BY <2>2, <2>3
<1>6. CASE line.framed /\ line.total # 1
  <2>1. r = PutMultiLine(q, part)
    BY <1>6 DEF PutBare
  <2>2. CASE line.seq = << >>
    <3>1. r = [q EXCEPT !.raised = TRUE]
      BY <1>1, <2>1, <2>2 DEF PutMultiLine
    <3>2. r \in BareState /\ r.groups = q.groups /\ r.ready = q.ready
      BY <3>1 DEF BareState
    <3> HIDE DEF r
    <3>3. \A id : ~ OfGroup(line, id)
      <4>1. \A id : << id >> # << >>
        OBVIOUS
      <4> QED
        BY <2>2, <4>1 DEF OfGroup
    <3>4. Ignored(q, r, line)
      BY <3>2, <3>3 DEF Ignored
    <3> QED
      BY <3>2, <3>4 DEF BareMove, r
  <2>3. ASSUME NEW id \in SequenceNumbers, line.seq = << id >>
        PROVE  Goal
    <3> DEFINE group == q.groups[id]
               parts == Append(group, part)
    <3>1. line.seq # << >> /\ line.seq[1] = id
      BY <2>3
    <3>2. OfGroup(line, id) /\ \A x \in SequenceNumbers : OfGroup(line, x) => x = id
      <4>1. \A x : << x >> = << id >> => x = id
        OBVIOUS
      <4> QED
        BY <1>6, <2>3, <4>1 DEF OfGroup
    <3>3. /\ group \in Seq(Part) /\ parts \in Seq(Part) /\ << part >> \in Seq(Part)
          /\ << >> \in Seq(Part)
      BY <1>1, AppendTo DEF BareState
    <3>4. LineNums(parts) \in Seq(Int) /\ PartBodies(parts) \in Seq(Chunks)
      BY <3>3, PartsGive
    <3>5. CASE line.number = 1
      <4> DEFINE one == << part >>
      <4>1. r = [q EXCEPT !.groups[id] = one]
        BY <1>1, <2>1, <3>1, <3>5 DEF PutMultiLine, StartGroup
      <4>2. one \in Seq(Part)
        BY <3>3
      <4> HIDE DEF r, one
      <4>3. r \in BareState /\ r.groups = [q.groups EXCEPT ![id] = one] /\ r.ready = q.ready
        BY <4>1, <4>2 DEF BareState
      <4>4. Starts(q, r, line, n)
        BY <3>2, <3>5, <4>3 DEF Starts, one
      <4> QED
        BY <4>3, <4>4 DEF BareMove, r
    <3>6. CASE line.number # 1
      <4>1. r = ContinueGroup(q, id, part)
        BY <1>1, <2>1, <3>1, <3>6 DEF PutMultiLine
      <4>2. CASE ~ InTurn(group, line.number)
        <5>1. r = q
          BY <1>1, <4>1, <4>2 DEF ContinueGroup, InTurn
        <5> HIDE DEF r
        <5>2. Ignored(q, r, line)
          BY <3>2, <3>6, <4>2, <5>1 DEF Ignored
        <5> QED
          BY <5>1, <5>2 DEF BareMove, r
      <4>3. CASE /\ InTurn(group, line.number)
                 /\ line.number # line.total \/ PartBodies(parts) \in DecodeErrors
        <5>1. r = [q EXCEPT !.groups[id] = parts]
          <6>1. CASE line.number # line.total
            BY <1>1, <4>1, <4>3, <6>1 DEF ContinueGroup, InTurn
          <6>2. CASE line.number = line.total
            <7>1. r = FinishGroup(q, id, parts)
              BY <1>1, <4>1, <4>3, <6>2 DEF ContinueGroup, InTurn
            <7>2. PartBodies(parts) \in DecodeErrors
              BY <4>3, <6>2
            <7> QED
              BY <7>1, <7>2 DEF FinishGroup
          <6> QED
            BY <6>1, <6>2
        <5>2. /\ r \in BareState /\ r.groups = [q.groups EXCEPT ![id] = parts]
              /\ r.ready = q.ready
          <6> HIDE DEF r, parts
          <6> QED
            BY <3>3, <5>1 DEF BareState
        <5> HIDE DEF r
        <5>3. Joins(q, r, line, n)
          BY <3>2, <3>6, <4>3, <5>2 DEF Joins
        <5> QED
          BY <5>2, <5>3 DEF BareMove, r
      <4>4. CASE /\ InTurn(group, line.number)
                 /\ line.number = line.total /\ PartBodies(parts) \notin DecodeErrors
        <5> DEFINE none == << >>
                   t == [q EXCEPT !.groups[id] = none]
        <5>1. r = Enqueue(t, LineNums(parts), PartBodies(parts))
          <6>1. r = FinishGroup(q, id, parts)
            BY <1>1, <4>1, <4>4 DEF ContinueGroup, InTurn
          <6> QED
            BY <4>4, <6>1 DEF FinishGroup
        <5>2. /\ t \in BareState /\ t.groups = [q.groups EXCEPT ![id] = none]
              /\ t.ready = q.ready /\ t.raised = q.raised
          <6>1. none \in Seq(Part)
            BY <3>3
          <6> HIDE DEF none
          <6> QED
            BY <6>1 DEF BareState
        <5> HIDE DEF r, t
        <5>3. /\ r \in BareState /\ r.groups = t.groups /\ r.raised = t.raised
              /\ r.ready = Append(t.ready, Message(LineNums(parts), PartBodies(parts)))
          BY <3>4, <5>1, <5>2, EnqueueGives, SMTT(30)
        <5>4. Finishes(q, r, line, n)
          BY <3>2, <3>6, <4>4, <5>2, <5>3 DEF Finishes
        <5> QED
          BY <5>3, <5>4 DEF BareMove, r
      <4> QED
        BY <4>2, <4>3, <4>4
    <3> QED
      BY <3>5, <3>6
  <2> QED
    BY <2>2, <2>3 DEF SequenceIds
<1> QED
  BY <1>2, <1>4, <1>5, <1>6

-----------------------------------------------------------------------------
(* The BareQueue that decodes a finished group: after each of the lines it *)
(* holds lines of that group, in their order.                              *)

(* A group of the lines 1, 2, ... of that sequence number. *)
Counted(group, id) ==
  \A i \in 1 .. Len(group) : OfGroup(group[i].line, id) /\ group[i].line.number = i

Rising(ix) == \A i, j \in DOMAIN ix : i < j => ix[i] < ix[j]

(* The lines of the group are among the first k parts. *)
GroupFrom(group, parts, k) ==
  \E ix \in [1 .. Len(group) -> 1 .. k] :
    /\ Rising(ix)
    /\ \A i \in 1 .. Len(group) : group[i].line = parts[ix[i]].vdm

(* The parts ix make one AIS payload. *)
Whole(parts, ix, decoded) ==
  LET n == Len(decoded) IN
  /\ \A i \in 1 .. n : parts[ix[i]].vdm.framed
  /\ n > 1 => \A i \in 1 .. n : /\ parts[ix[i]].vdm.number = i
                               /\ parts[ix[i]].vdm.seq = parts[ix[1]].vdm.seq
  /\ parts[ix[n]].vdm.total = n
  /\ decoded = [i \in 1 .. n |-> parts[ix[i]].vdm.body]

PayloadFrom(decoded, parts, k) ==
  \E ix \in [1 .. Len(decoded) -> 1 .. k] : Rising(ix) /\ Whole(parts, ix, decoded)

DecodesFrom(q, parts, k) ==
  /\ q \in BareState
  /\ \A id \in SequenceNumbers : /\ Counted(q.groups[id], id)
                                /\ GroupFrom(q.groups[id], parts, k)
  /\ \A i \in DOMAIN q.ready :
       q.ready[i].decoded # << >> => PayloadFrom(q.ready[i].decoded, parts, k)

LEMMA FromMore ==
  ASSUME NEW k \in Nat, NEW parts
  PROVE  /\ \A g : GroupFrom(g, parts, k) => GroupFrom(g, parts, k + 1)
         /\ \A d : PayloadFrom(d, parts, k) => PayloadFrom(d, parts, k + 1)
<1>1. ASSUME NEW m PROVE [1 .. m -> 1 .. k] \subseteq [1 .. m -> 1 .. k + 1]
  OBVIOUS
<1> QED
  BY <1>1 DEF GroupFrom, PayloadFrom

LEMMA CountedMore ==
  ASSUME NEW id, NEW group \in Seq(Part), Counted(group, id), NEW p \in Part,
         OfGroup(p.line, id), p.line.number = Len(group) + 1
  PROVE  Counted(Append(group, p), id)
<1> DEFINE all == Append(group, p)
<1>1. /\ Len(group) \in Nat /\ Len(all) = Len(group) + 1
      /\ \A i \in 1 .. Len(group) : all[i] = group[i]
      /\ all[Len(group) + 1] = p
  BY AppendTo
<1> HIDE DEF all
<1>2. \A i \in 1 .. Len(all) : i \in 1 .. Len(group) \/ i = Len(group) + 1
  BY <1>1
<1>3. Counted(all, id)
  BY <1>1, <1>2 DEF Counted
<1> QED
  BY <1>3 DEF all

LEMMA GroupFromMore ==
  ASSUME NEW k \in Nat, NEW parts, NEW group \in Seq(Part), GroupFrom(group, parts, k),
         NEW p \in Part, p.line = parts[k + 1].vdm
  PROVE  GroupFrom(Append(group, p), parts, k + 1)
<1> DEFINE m == Len(group)
           all == Append(group, p)
<1>1. /\ m \in Nat /\ Len(all) = m + 1
      /\ \A i \in 1 .. m : all[i] = group[i]
      /\ all[m + 1] = p
  BY AppendTo
<1>2. PICK ix \in [1 .. m -> 1 .. k] : /\ Rising(ix)
                                      /\ \A i \in 1 .. m : group[i].line = parts[ix[i]].vdm
  BY DEF GroupFrom
<1> HIDE DEF m, all
<1> DEFINE more == [i \in 1 .. m + 1 |-> IF i = m + 1 THEN k + 1 ELSE ix[i]]
<1>3. \A i \in 1 .. m + 1 : i \in 1 .. m \/ i = m + 1
  BY <1>1
<1>4. /\ more \in [1 .. m + 1 -> 1 .. k + 1]
      /\ \A i \in 1 .. m : more[i] = ix[i]
      /\ more[m + 1] = k + 1
  BY <1>1, <1>2, <1>3
<1> HIDE DEF more
<1>5. Rising(more)
  <2> SUFFICES ASSUME NEW i \in 1 .. m + 1, NEW j \in 1 .. m + 1, i < j
               PROVE  more[i] < more[j]
    BY <1>4 DEF Rising
  <2>1. i \in 1 .. m /\ more[i] = ix[i] /\ ix[i] \in 1 .. k
    BY <1>1, <1>2, <1>4
  <2>2. CASE j \in 1 .. m
    BY <1>2, <1>4, <2>1, <2>2 DEF Rising
  <2>3. CASE j = m + 1
    BY <1>4, <2>1, <2>3
  <2> QED
    BY <1>3, <2>2, <2>3
<1>6. \A i \in 1 .. m + 1 : all[i].line = parts[more[i]].vdm
  BY <1>1, <1>2, <1>3, <1>4
<1>7. GroupFrom(all, parts, k + 1)
  <2>1. Len(all) = m + 1 /\ k + 1 \in Nat
    BY <1>1
  <2>2. \E f \in [1 .. m + 1 -> 1 .. k + 1] :
          Rising(f) /\ \A i \in 1 .. m + 1 : all[i].line = parts[f[i]].vdm
    BY <1>4, <1>5, <1>6
  <2> QED
    BY <2>1, <2>2 DEF GroupFrom
<1> QED
  BY <1>7 DEF all

LEMMA GroupIsPayload ==
  ASSUME NEW k \in Nat, NEW parts, NEW id, NEW group \in Seq(Part), group # << >>,
         Counted(group, id), GroupFrom(group, parts, k),
         group[Len(group)].line.total = Len(group)
  PROVE  PayloadFrom(PartBodies(group), parts, k)
<1> DEFINE n == Len(group)
           decoded == PartBodies(group)
<1>1. n \in Nat \ {0} /\ Len(decoded) = n /\ decoded = [i \in 1 .. n |-> group[i].line.body]
  <2>1. Len(decoded) = n
    BY PartsGive
  <2>2. decoded = [i \in 1 .. n |-> group[i].line.body]
    BY DEF PartBodies
  <2> QED
    BY <2>1, <2>2
<1>2. PICK ix \in [1 .. n -> 1 .. k] : /\ Rising(ix)
                                      /\ \A i \in 1 .. n : group[i].line = parts[ix[i]].vdm
  BY DEF GroupFrom
<1>3. \A i \in 1 .. n : OfGroup(group[i].line, id) /\ group[i].line.number = i
  BY DEF Counted
<1>4. group[n].line.total = n /\ n \in 1 .. n /\ 1 \in 1 .. n
  BY <1>1
<1> HIDE DEF n, decoded
<1>5. \A i \in 1 .. n : /\ parts[ix[i]].vdm.framed /\ parts[ix[i]].vdm.number = i
                        /\ parts[ix[i]].vdm.seq = << id >>
                        /\ group[i].line.body = parts[ix[i]].vdm.body
  BY <1>2, <1>3 DEF OfGroup
<1>6. parts[ix[n]].vdm.total = n
  BY <1>2, <1>4
<1>7. decoded = [i \in 1 .. n |-> parts[ix[i]].vdm.body]
  BY <1>1, <1>5
<1>8. Whole(parts, ix, decoded)
  <2>1. \A i \in 1 .. n : /\ parts[ix[i]].vdm.framed /\ parts[ix[i]].vdm.number = i
                         /\ parts[ix[i]].vdm.seq = parts[ix[1]].vdm.seq
    BY <1>4, <1>5
  <2> QED
    BY <1>1, <1>6, <1>7, <2>1 DEF Whole
<1> QED
  BY <1>1, <1>2, <1>8 DEF PayloadFrom, decoded

LEMMA LineIsPayload ==
  ASSUME NEW k \in Nat, NEW parts, parts[k + 1].vdm.framed, parts[k + 1].vdm.total = 1
  PROVE  PayloadFrom(<< parts[k + 1].vdm.body >>, parts, k + 1)
<1> DEFINE ix == [i \in 1 .. 1 |-> k + 1]
           body == parts[k + 1].vdm.body
           decoded == << body >>
<1>1. ix \in [1 .. 1 -> 1 .. k + 1] /\ ix[1] = k + 1 /\ Rising(ix)
  BY DEF Rising
<1>2. Len(decoded) = 1
  OBVIOUS
<1>3. decoded = [i \in 1 .. 1 |-> body]
  OBVIOUS
<1>4. \A i \in 1 .. 1 : i = 1
  OBVIOUS
<1> HIDE DEF ix, decoded
<1>5. decoded = [i \in 1 .. 1 |-> parts[ix[i]].vdm.body]
  BY <1>1, <1>3, <1>4
<1>6. Whole(parts, ix, decoded)
  BY <1>1, <1>2, <1>4, <1>5 DEF Whole
<1>7. PayloadFrom(decoded, parts, k + 1)
  BY <1>1, <1>2, <1>6 DEF PayloadFrom
<1> QED
  BY <1>7 DEF decoded


LEMMA MovedGroups ==
  ASSUME NEW k \in Nat, NEW parts, NEW q, DecodesFrom(q, parts, k),
         NEW line \in RawLine, line = parts[k + 1].vdm,
         NEW r \in BareState, BareMove(q, r, line, 0), NEW id \in SequenceNumbers
  PROVE  Counted(r.groups[id], id) /\ GroupFrom(r.groups[id], parts, k + 1)
<1> DEFINE p == [line |-> line, line_num |-> 0]
           group == q.groups[id]
           none == << >>
<1>1. p \in Part /\ p.line = line /\ line.number \in Int
  BY DEF Part, RawLine
<1>2. /\ q.groups \in [SequenceNumbers -> Seq(Part)] /\ group \in Seq(Part)
      /\ Counted(group, id) /\ GroupFrom(group, parts, k)
  BY DEF DecodesFrom, BareState
<1>3. none \in Seq(Part) /\ Append(none, p) = << p >> /\ Len(none) = 0
  BY <1>1, AppendTo
<1> HIDE DEF p, none
<1>4. Counted(none, id) /\ \A j : GroupFrom(none, parts, j)
  <2>1. Counted(none, id)
    BY <1>3 DEF Counted
  <2>2. ASSUME NEW j PROVE GroupFrom(none, parts, j)
    <3> DEFINE ix == [i \in 1 .. 0 |-> 0]
    <3>1. ix \in [1 .. 0 -> 1 .. j] /\ Rising(ix)
      BY DEF Rising
    <3> HIDE DEF ix
    <3>2. \A i \in 1 .. 0 : none[i].line = parts[ix[i]].vdm
      OBVIOUS
    <3> QED
      BY <1>3, <3>1, <3>2 DEF GroupFrom
  <2> QED
    BY <2>1, <2>2
<1>5. CASE r.groups = q.groups
  BY <1>2, <1>5, FromMore
<1>6. CASE Starts(q, r, line, 0)
  <2>1. PICK x \in SequenceNumbers :
          /\ OfGroup(line, x) /\ line.number = 1
          /\ r.groups = [q.groups EXCEPT ![x] = << p >>]
    BY <1>6 DEF Starts, p
  <2>2. CASE x = id
    <3>1. r.groups[id] = Append(none, p)
      BY <1>2, <1>3, <2>1, <2>2
    <3>2. Counted(Append(none, p), id)
      <4>1. OfGroup(p.line, id) /\ p.line.number = Len(none) + 1
        BY <1>1, <1>3, <2>1, <2>2
      <4> QED
        BY <1>1, <1>3, <1>4, <4>1, CountedMore
    <3>3. GroupFrom(Append(none, p), parts, k + 1)
      BY <1>1, <1>3, <1>4, GroupFromMore
    <3> QED
      BY <3>1, <3>2, <3>3
  <2>3. CASE x # id
    <3>1. r.groups[id] = group
      BY <1>2, <2>1, <2>3
    <3> QED
      BY <1>2, <3>1, FromMore
  <2> QED
    BY <2>2, <2>3
<1>7. CASE Joins(q, r, line, 0)
  <2>1. PICK x \in SequenceNumbers :
          /\ OfGroup(line, x) /\ InTurn(q.groups[x], line.number)
          /\ r.groups = [q.groups EXCEPT ![x] = Append(q.groups[x], p)]
    BY <1>7 DEF Joins, p
  <2>2. CASE x = id
    <3>1. r.groups[id] = Append(group, p)
      BY <1>2, <2>1, <2>2
    <3>2. p.line.number = Len(group) + 1
      BY <1>1, <1>2, <2>1, <2>2 DEF InTurn
    <3>3. Counted(Append(group, p), id)
      BY <1>1, <1>2, <2>1, <2>2, <3>2, CountedMore
    <3>4. GroupFrom(Append(group, p), parts, k + 1)
      BY <1>1, <1>2, GroupFromMore
    <3> QED
      BY <3>1, <3>3, <3>4
  <2>3. CASE x # id
    <3>1. r.groups[id] = group
      BY <1>2, <2>1, <2>3
    <3> QED
      BY <1>2, <3>1, FromMore
  <2> QED
    BY <2>2, <2>3
<1>8. CASE Finishes(q, r, line, 0)
  <2>1. PICK x \in SequenceNumbers : r.groups = [q.groups EXCEPT ![x] = none]
    BY <1>8 DEF Finishes, none
  <2>2. r.groups[id] = none \/ r.groups[id] = group
    BY <1>2, <2>1
  <2> QED
    BY <1>2, <1>3, <1>4, <2>2, FromMore
<1> QED
  BY <1>5, <1>6, <1>7, <1>8 DEF BareMove, Ignored, ByItself

LEMMA MovedReady ==
  ASSUME NEW k \in Nat, NEW parts, NEW q, DecodesFrom(q, parts, k),
         NEW line \in RawLine, line = parts[k + 1].vdm,
         NEW r \in BareState, BareMove(q, r, line, 0),
         NEW i \in DOMAIN r.ready, r.ready[i].decoded # << >>
  PROVE  PayloadFrom(r.ready[i].decoded, parts, k + 1)
<1> DEFINE p == [line |-> line, line_num |-> 0]
<1>1. p \in Part /\ p.line = line /\ line.number \in Int
  BY DEF Part, RawLine
<1>2. q.ready \in Seq(QueuedMessage) /\ q.groups \in [SequenceNumbers -> Seq(Part)]
  BY DEF DecodesFrom, BareState
<1> HIDE DEF p
<1>3. ASSUME i \in DOMAIN q.ready, r.ready[i] = q.ready[i]
      PROVE  PayloadFrom(r.ready[i].decoded, parts, k + 1)
  BY <1>3, FromMore DEF DecodesFrom
<1>4. CASE r.ready = q.ready
  BY <1>3, <1>4
<1>5. ASSUME NEW m \in QueuedMessage, r.ready = Append(q.ready, m)
      PROVE  (i \in DOMAIN q.ready /\ r.ready[i] = q.ready[i]) \/ r.ready[i] = m
  <2>1. /\ DOMAIN r.ready = 1 .. Len(q.ready) + 1 /\ DOMAIN q.ready = 1 .. Len(q.ready)
        /\ \A j \in 1 .. Len(q.ready) : r.ready[j] = q.ready[j]
        /\ r.ready[Len(q.ready) + 1] = m /\ Len(q.ready) \in Nat
    BY <1>2, <1>5, AppendTo
  <2>2. i \in 1 .. Len(q.ready) \/ i = Len(q.ready) + 1
    BY <2>1
  <2> QED
    BY <2>1, <2>2
<1>6. CASE ByItself(q, r, line, 0)
  <2>1. PICK decoded \in Seq(Chunks) :
          /\ r.ready = Append(q.ready, Message(<< 0 >>, decoded))
          /\ decoded # << >> => line.framed /\ line.total = 1 /\ decoded = << line.body >>
    BY <1>6 DEF ByItself
  <2>2. Message(<< 0 >>, decoded) \in QueuedMessage
        /\ Message(<< 0 >>, decoded).decoded = decoded
    <3>1. << 0 >> \in Seq(Int)
      OBVIOUS
    <3> QED
      BY <3>1 DEF Message, QueuedMessage
  <2>3. ASSUME r.ready[i] = Message(<< 0 >>, decoded)
        PROVE  PayloadFrom(r.ready[i].decoded, parts, k + 1)
    <3>1. r.ready[i].decoded = << line.body >> /\ line.framed /\ line.total = 1
      BY <2>1, <2>2, <2>3
    <3> QED
      BY <3>1, LineIsPayload
  <2> QED
    BY <1>3, <1>5, <2>1, <2>2, <2>3
<1>7. CASE Finishes(q, r, line, 0)
  <2>1. PICK id \in SequenceNumbers :
          /\ OfGroup(line, id) /\ InTurn(q.groups[id], line.number)
          /\ line.number = line.total
          /\ r.ready = Append(q.ready, Message(LineNums(Append(q.groups[id], p)),
                                               PartBodies(Append(q.groups[id], p))))
    BY <1>7 DEF Finishes, p
  <2> DEFINE group == q.groups[id]
             all == Append(group, p)
             m == Message(LineNums(all), PartBodies(all))
  <2>2. group \in Seq(Part) /\ Counted(group, id) /\ GroupFrom(group, parts, k)
    BY <1>2 DEF DecodesFrom
  <2>3. /\ all \in Seq(Part) /\ Len(all) = Len(group) + 1 /\ all[Len(group) + 1] = p
        /\ Len(group) \in Nat
    BY <1>1, <2>2, AppendTo
  <2>4. p.line.number = Len(group) + 1 /\ p.line.total = Len(group) + 1
    BY <1>1, <2>1, <2>3 DEF InTurn
  <2>5. Counted(all, id)
    BY <1>1, <2>1, <2>2, <2>4, CountedMore
  <2>6. GroupFrom(all, parts, k + 1)
    BY <1>1, <2>2, GroupFromMore
  <2>7. m \in QueuedMessage /\ m.decoded = PartBodies(all)
    BY <2>3, PartsGive DEF Message, QueuedMessage
  <2>8. all # << >> /\ all[Len(all)].line.total = Len(all)
    BY <2>3, <2>4
  <2> HIDE DEF all, group
  <2>9. PayloadFrom(PartBodies(all), parts, k + 1)
    <3>1. k + 1 \in Nat
      OBVIOUS
    <3> QED
      BY <2>3, <2>5, <2>6, <2>8, <3>1, GroupIsPayload
  <2>10. r.ready = Append(q.ready, m)
    BY <2>1 DEF all, group
  <2> HIDE DEF m
  <2> QED
    BY <1>3, <1>5, <2>7, <2>9, <2>10
<1> QED
  BY <1>4, <1>6, <1>7 DEF BareMove, Ignored, Starts, Joins

LEMMA PayloadPut ==
  ASSUME NEW parts \in Seq(GroupPart), NEW k \in Nat, k + 1 \in DOMAIN parts,
         NEW q, DecodesFrom(q, parts, k)
  PROVE  DecodesFrom(PutPayload(q, parts[k + 1]), parts, k + 1)
<1> DEFINE line == parts[k + 1].vdm
           r == PutBare(q, line, 0)
<1>1. line \in RawLine /\ line.seq \in SequenceIds /\ q \in BareState
  <2>1. parts[k + 1] \in GroupPart
    OBVIOUS
  <2> QED
    BY <2>1 DEF GroupPart, DecodesFrom
<1>2. DecodesFrom(q, parts, k + 1)
  BY FromMore DEF DecodesFrom
<1>3. DecodesFrom(r, parts, k + 1)
  <2>1. 0 \in Int
    OBVIOUS
  <2>2. r \in BareState /\ BareMove(q, r, line, 0)
    BY <1>1, <2>1, BareMoved
  <2> HIDE DEF r, line
  <2>3. \A id \in SequenceNumbers : /\ Counted(r.groups[id], id)
                                    /\ GroupFrom(r.groups[id], parts, k + 1)
    BY <1>1, <2>2, MovedGroups DEF line
  <2>4. \A i \in DOMAIN r.ready :
          r.ready[i].decoded # << >> => PayloadFrom(r.ready[i].decoded, parts, k + 1)
    BY <1>1, <2>2, MovedReady DEF line
  <2> QED
    BY <2>2, <2>3, <2>4 DEF DecodesFrom
<1> QED
  BY <1>2, <1>3 DEF PutPayload

-----------------------------------------------------------------------------
(* DecodeMultiple, line by line. *)

Less == {p \in Nat \X Nat : p[1] < p[2]}

(* Induction over the naturals, of a set. *)
LEMMA NatSet ==
  ASSUME NEW T, T \subseteq Nat, 0 \in T, \A n \in T : n + 1 \in T
  PROVE  T = Nat
<1> SUFFICES ASSUME Nat \ T # {} PROVE FALSE
  OBVIOUS
<1>1. IsWellFoundedOn(Less, Nat)
  <2>1. OpToRel(<, Nat) = Less
    BY DEF OpToRel, Less
  <2> QED
    BY <2>1, NatLessThanWellFounded
<1>2. Nat \ T \subseteq Nat
  OBVIOUS
<1>3. \E x \in Nat \ T : \A y \in Nat \ T : ~ << y, x >> \in Less
  BY <1>1, <1>2, WFMin
<1>4. PICK x \in Nat \ T : \A y \in Nat \ T : ~ << y, x >> \in Less
  BY <1>3
<1>5. x # 0 /\ x - 1 \in Nat /\ x - 1 \notin T
  <2>1. x # 0
    OBVIOUS
  <2>2. x - 1 \in Nat
    BY <2>1
  <2>3. (x - 1) + 1 = x
    BY <2>2
  <2> QED
    BY <2>1, <2>2, <2>3
<1>6. << x - 1, x >> \in Less
  BY <1>5 DEF Less
<1> QED
  BY <1>4, <1>5, <1>6

(* f is what the new BareQueue is after each of the first n parts. *)
AfterEach(f, parts, n) ==
  f = [k \in 0 .. n |-> IF k = 0 THEN NewBareQueue ELSE PutPayload(f[k - 1], parts[k])]

LEMMA DecodeByLines ==
  ASSUME NEW parts
  PROVE  LET q == (CHOOSE f : AfterEach(f, parts, Len(parts)))[Len(parts)]
             only == Len(q.ready) = 1
         IN  DecodeMultiple(parts)
               = [raised  |-> q.raised \/ (only /\ q.ready[1].decoded = << >>),
                  decoded |-> IF only THEN q.ready[1].decoded ELSE << >>]
  BY DEF DecodeMultiple, AfterEach

(* What is after the first k parts does not need the others. *)
LEMMA AfterEachExists ==
  ASSUME NEW parts, NEW n \in Nat
  PROVE  \E f : AfterEach(f, parts, n)
<1> DEFINE T == {k \in Nat : \E f : AfterEach(f, parts, k)}
<1>1. 0 \in T
  <2> DEFINE f == [k \in 0 .. 0 |-> NewBareQueue]
  <2>1. f = [k \in 0 .. 0 |-> IF k = 0 THEN NewBareQueue
                              ELSE PutPayload(f[k - 1], parts[k])]
    OBVIOUS
  <2> HIDE DEF f
  <2> QED
    BY <2>1 DEF AfterEach
<1>2. ASSUME NEW k \in T PROVE k + 1 \in T
  <2>1. PICK f : AfterEach(f, parts, k)
    OBVIOUS
  <2> DEFINE e(j) == IF j = 0 THEN NewBareQueue ELSE PutPayload(f[j - 1], parts[j])
             h == [j \in 0 .. k + 1 |-> e(j)]
  <2>2. f = [j \in 0 .. k |-> e(j)]
    BY <2>1 DEF AfterEach
  <2>3. k \in Nat
    OBVIOUS
  <2> HIDE DEF e
  <2>4. \A j \in 0 .. k : h[j] = f[j]
    BY <2>2, <2>3
  <2>5. \A j \in 0 .. k + 1 : j # 0 => j - 1 \in 0 .. k
    BY <2>3
  <2>6. \A j \in 0 .. k + 1 : j # 0 => h[j - 1] = f[j - 1]
    BY <2>4, <2>5
  <2>7. \A j \in 0 .. k + 1 : e(j) = IF j = 0 THEN NewBareQueue
                                     ELSE PutPayload(h[j - 1], parts[j])
    BY <2>6 DEF e
  <2> HIDE DEF h
  <2>8. h = [j \in 0 .. k + 1 |-> IF j = 0 THEN NewBareQueue
                                  ELSE PutPayload(h[j - 1], parts[j])]
    BY <2>7 DEF h
  <2>9. AfterEach(h, parts, k + 1)
    BY <2>8 DEF AfterEach
  <2> QED
    BY <2>3, <2>9
<1>3. T = Nat
  <2> HIDE DEF T
  <2>1. T \subseteq Nat
    BY DEF T
  <2> QED
    BY <1>1, <1>2, <2>1, NatSet
<1> QED
  BY <1>3

LEMMA AllDecodeFrom ==
  ASSUME NEW parts \in Seq(GroupPart), NEW f, AfterEach(f, parts, Len(parts))
  PROVE  DecodesFrom(f[Len(parts)], parts, Len(parts))
<1> DEFINE n == Len(parts)
           T == {k \in Nat : k <= n => DecodesFrom(f[k], parts, k)}
<1>0. n \in Nat /\ DOMAIN parts = 1 .. n
  OBVIOUS
<1> HIDE DEF n
<1>1. \A k \in 0 .. n : f[k] = IF k = 0 THEN NewBareQueue ELSE PutPayload(f[k - 1], parts[k])
  BY DEF AfterEach, n
<1>2. 0 \in T
  <2>1. f[0] = NewBareQueue
    BY <1>0, <1>1
  <2> DEFINE q == NewBareQueue
  <2>2. /\ q.groups = [id \in SequenceNumbers |-> << >>]
        /\ q.ready = << >> /\ q \in BareState
    <3>1. [id \in SequenceNumbers |-> << >>] \in [SequenceNumbers -> Seq(Part)]
      OBVIOUS
    <3> QED
      BY <3>1 DEF NewBareQueue, BareState
  <2> HIDE DEF q
  <2> DEFINE none == << >>
             ix == [i \in 1 .. 0 |-> 0]
  <2>3. Len(none) = 0 /\ ix \in [1 .. 0 -> 1 .. 0] /\ Rising(ix) /\ DOMAIN none = {}
    BY DEF Rising
  <2> HIDE DEF ix
  <2>4. q.ready = none /\ \A id \in SequenceNumbers : q.groups[id] = none
    BY <2>2
  <2> HIDE DEF none
  <2>5. \A id : Counted(none, id)
    BY <2>3 DEF Counted
  <2>6. GroupFrom(none, parts, 0)
    <3>1. \A i \in 1 .. 0 : none[i].line = parts[ix[i]].vdm
      OBVIOUS
    <3> QED
      BY <2>3, <3>1 DEF GroupFrom
  <2>7. DecodesFrom(q, parts, 0)
    BY <2>2, <2>3, <2>4, <2>5, <2>6 DEF DecodesFrom
  <2> QED
    BY <2>1, <2>7 DEF q
<1>3. ASSUME NEW k \in T PROVE k + 1 \in T
  <2> SUFFICES ASSUME k + 1 <= n PROVE DecodesFrom(f[k + 1], parts, k + 1)
    OBVIOUS
  <2>1. k \in Nat /\ k <= n /\ k + 1 \in 0 .. n /\ k + 1 # 0 /\ k + 1 \in 1 .. n
        /\ (k + 1) - 1 = k
    BY <1>0
  <2>2. f[k + 1] = PutPayload(f[k], parts[k + 1])
    BY <1>1, <2>1
  <2>3. DecodesFrom(f[k], parts, k)
    BY <2>1
  <2> QED
    BY <1>0, <2>1, <2>2, <2>3, PayloadPut
<1>4. T = Nat
  <2> HIDE DEF T
  <2>1. T \subseteq Nat
    BY DEF T
  <2> QED
    BY <1>2, <1>3, <2>1, NatSet
<1> QED
  BY <1>0, <1>4 DEF n

(* What the group of a TAG block or of USCG metadata decodes to. *)
LEMMA DecodesOwnParts ==
  ASSUME NEW parts \in Seq(GroupPart)
  PROVE  LET answer == DecodeMultiple(parts) IN
         /\ answer.raised \in BOOLEAN
         /\ answer.decoded \in Seq(Chunks)
         /\ answer.decoded # << >> => PayloadFrom(answer.decoded, parts, Len(parts))
<1> DEFINE f == CHOOSE g : AfterEach(g, parts, Len(parts))
           q == f[Len(parts)]
           only == Len(q.ready) = 1
           answer == DecodeMultiple(parts)
<1>1. AfterEach(f, parts, Len(parts))
  <2>1. Len(parts) \in Nat
    OBVIOUS
  <2> HIDE DEF f, q, only, answer
  <2>2. \E g : AfterEach(g, parts, Len(parts))
    BY ONLY <2>1, AfterEachExists
  <2> QED
    BY <2>2 DEF f
<1>2. answer = [raised  |-> q.raised \/ (only /\ q.ready[1].decoded = << >>),
                decoded |-> IF only THEN q.ready[1].decoded ELSE << >>]
  BY DecodeByLines
<1> HIDE DEF f
<1>3. DecodesFrom(q, parts, Len(parts))
  BY <1>1, AllDecodeFrom
<1> HIDE DEF q, answer
<1>4. q.ready \in Seq(QueuedMessage) /\ q.raised \in BOOLEAN
  BY <1>3 DEF DecodesFrom, BareState
<1>5. only => 1 \in DOMAIN q.ready /\ q.ready[1].decoded \in Seq(Chunks)
  <2>1. ASSUME NEW s \in Seq(QueuedMessage), Len(s) = 1
        PROVE  1 \in DOMAIN s /\ s[1] \in QueuedMessage
    <3>1. 1 \in 1 .. Len(s) /\ DOMAIN s = 1 .. Len(s)
      BY <2>1
    <3> QED
      BY <3>1
  <2> QED
    BY <1>4, <2>1 DEF QueuedMessage
<1>6. answer.raised \in BOOLEAN /\ answer.decoded \in Seq(Chunks)
  BY <1>2, <1>4, <1>5
<1>7. answer.decoded # << >> => PayloadFrom(answer.decoded, parts, Len(parts))
  BY <1>2, <1>3, <1>5 DEF DecodesFrom
<1> QED
  BY <1>6, <1>7 DEF answer

-----------------------------------------------------------------------------
(* Where messages come from, in terms of the lines g given so far.         *)

VdmIn(g, n) == IF g[n].type = "BARE" THEN g[n].line ELSE g[n].line.vdm

BarePart(g, p) == /\ p.line_num \in DOMAIN g
                  /\ g[p.line_num].type = "BARE" /\ g[p.line_num].line = p.line

GroupedPart(g, p) == /\ p.line_num \in DOMAIN g
                     /\ g[p.line_num].type \in {"TAGB", "USCG"}
                     /\ g[p.line_num].line.vdm = p.vdm

(* As DecodedFromOwnLines has it. *)
OwnLines(g, nums, decoded) ==
  \E ix \in [DOMAIN decoded -> DOMAIN nums] :
    /\ Rising(ix)
    /\ g[nums[1]].type = "BARE" => Len(decoded) = Len(nums)
    /\ LET n == Len(decoded) IN
       /\ \A i \in 1 .. n : VdmIn(g, nums[ix[i]]).framed
       /\ n > 1 => \A i \in 1 .. n :
                     /\ VdmIn(g, nums[ix[i]]).number = i
                     /\ VdmIn(g, nums[ix[i]]).seq = VdmIn(g, nums[ix[1]]).seq
       /\ VdmIn(g, nums[ix[n]]).total = n
       /\ decoded = [i \in 1 .. n |-> VdmIn(g, nums[ix[i]]).body]

SoundMessages(g) ==
  {m \in QueuedMessage :
     /\ m.line_nums # << >>
     /\ \A k \in DOMAIN m.line_nums : m.line_nums[k] \in DOMAIN g
     /\ m.decoded # << >> => OwnLines(g, m.line_nums, m.decoded)}

LEMMA SoundAfter ==
  ASSUME NEW g, NEW g2, \A k \in DOMAIN g : k \in DOMAIN g2 /\ g2[k] = g[k]
  PROVE  /\ SoundMessages(g) \subseteq SoundMessages(g2)
         /\ \A p : BarePart(g, p) => BarePart(g2, p)
         /\ \A p : GroupedPart(g, p) => GroupedPart(g2, p)
<1>1. ASSUME NEW m \in SoundMessages(g) PROVE m \in SoundMessages(g2)
  <2> DEFINE nums == m.line_nums
             decoded == m.decoded
             n == Len(decoded)
  <2>1. /\ m \in QueuedMessage /\ nums # << >>
        /\ \A k \in DOMAIN nums : nums[k] \in DOMAIN g
    BY DEF SoundMessages
  <2>2. nums \in Seq(Int) /\ decoded \in Seq(Chunks)
    BY <2>1 DEF QueuedMessage
  <2>3. ASSUME decoded # << >> PROVE OwnLines(g2, nums, decoded)
    <3>1. OwnLines(g, nums, decoded)
      BY <2>3 DEF SoundMessages
    <3>2. DOMAIN decoded = 1 .. n /\ n \in Nat \ {0} /\ 1 \in DOMAIN nums
      BY <2>1, <2>2, <2>3
    <3> HIDE DEF nums, decoded, n
    <3>3. PICK ix \in [1 .. n -> DOMAIN nums] :
            /\ Rising(ix)
            /\ g[nums[1]].type = "BARE" => n = Len(nums)
            /\ \A i \in 1 .. n : VdmIn(g, nums[ix[i]]).framed
            /\ n > 1 => \A i \in 1 .. n :
                          /\ VdmIn(g, nums[ix[i]]).number = i
                          /\ VdmIn(g, nums[ix[i]]).seq = VdmIn(g, nums[ix[1]]).seq
            /\ VdmIn(g, nums[ix[n]]).total = n
            /\ decoded = [i \in 1 .. n |-> VdmIn(g, nums[ix[i]]).body]
      BY <3>1, <3>2 DEF OwnLines, n
    <3>4. \A i \in 1 .. n : VdmIn(g2, nums[ix[i]]) = VdmIn(g, nums[ix[i]])
      <4>1. \A i \in 1 .. n : nums[ix[i]] \in DOMAIN g
        BY <2>1, <3>3
      <4> QED
        BY <4>1 DEF VdmIn
    <3>5. g2[nums[1]] = g[nums[1]] /\ 1 \in 1 .. n /\ n \in 1 .. n
      BY <2>1, <3>2
    <3>6. decoded = [i \in 1 .. n |-> VdmIn(g2, nums[ix[i]]).body]
      BY <3>3, <3>4
    <3>7. /\ g2[nums[1]].type = "BARE" => n = Len(nums)
          /\ \A i \in 1 .. n : VdmIn(g2, nums[ix[i]]).framed
          /\ n > 1 => \A i \in 1 .. n :
                        /\ VdmIn(g2, nums[ix[i]]).number = i
                        /\ VdmIn(g2, nums[ix[i]]).seq = VdmIn(g2, nums[ix[1]]).seq
          /\ VdmIn(g2, nums[ix[n]]).total = n
      BY <3>3, <3>4, <3>5
    <3> QED
      BY <3>2, <3>3, <3>6, <3>7 DEF OwnLines, n
  <2> QED
    BY <2>1, <2>3 DEF SoundMessages
<1> QED
  BY <1>1 DEF BarePart, GroupedPart

(* A message of one line. *)
LEMMA LineIsSound ==
  ASSUME NEW g, NEW n \in Int, n \in DOMAIN g, NEW decoded \in Seq(Chunks),
         decoded # << >> => /\ VdmIn(g, n).framed /\ VdmIn(g, n).total = 1
                            /\ decoded = << VdmIn(g, n).body >>
  PROVE  Message(<< n >>, decoded) \in SoundMessages(g)
<1> DEFINE m == Message(<< n >>, decoded)
           nums == << n >>
           ix == [i \in 1 .. 1 |-> 1]
<1>1. m \in QueuedMessage /\ m.line_nums = nums /\ m.decoded = decoded
  <2>1. << n >> \in Seq(Int)
    OBVIOUS
  <2> QED
    BY <2>1 DEF Message, QueuedMessage
<1>2. nums # << >> /\ DOMAIN nums = 1 .. 1 /\ nums[1] = n /\ Len(nums) = 1
  OBVIOUS
<1>3. ix \in [1 .. 1 -> 1 .. 1] /\ ix[1] = 1 /\ Rising(ix) /\ \A i \in 1 .. 1 : i = 1
  BY DEF Rising
<1> HIDE DEF m, nums, ix
<1>4. ASSUME decoded # << >> PROVE OwnLines(g, nums, decoded)
  <2> DEFINE body == VdmIn(g, n).body
  <2>1. decoded = << body >> /\ Len(<< body >>) = 1 /\ << body >> = [i \in 1 .. 1 |-> body]
    BY <1>4
  <2>2. Len(decoded) = 1 /\ DOMAIN decoded = 1 .. 1
    BY <2>1
  <2>3. \A i \in 1 .. 1 : nums[ix[i]] = n
    BY <1>2, <1>3
  <2>4. decoded = [i \in 1 .. 1 |-> VdmIn(g, nums[ix[i]]).body]
    BY <2>1, <2>3
  <2>5. /\ \A i \in 1 .. 1 : VdmIn(g, nums[ix[i]]).framed
        /\ VdmIn(g, nums[ix[1]]).total = 1
    BY <1>4, <2>3
  <2> QED
    BY <1>2, <1>3, <2>2, <2>4, <2>5 DEF OwnLines
<1>5. \A k \in DOMAIN nums : nums[k] \in DOMAIN g
  BY <1>2
<1> QED
  BY <1>1, <1>2, <1>4, <1>5 DEF SoundMessages, m

(* A message of all lines of a bare group. *)
LEMMA GroupIsSound ==
  ASSUME NEW g, NEW id, NEW group \in Seq(Part), group # << >>, Counted(group, id),
         \A i \in 1 .. Len(group) : BarePart(g, group[i]),
         group[Len(group)].line.total = Len(group)
  PROVE  Message(LineNums(group), PartBodies(group)) \in SoundMessages(g)
<1> DEFINE n == Len(group)
           nums == LineNums(group)
           decoded == PartBodies(group)
           m == Message(nums, decoded)
           ix == [i \in 1 .. n |-> i]
<1>1. /\ nums \in Seq(Int) /\ Len(nums) = n /\ DOMAIN nums = 1 .. n
      /\ decoded \in Seq(Chunks) /\ Len(decoded) = n /\ DOMAIN decoded = 1 .. n
      /\ \A i \in 1 .. n : nums[i] = group[i].line_num
      /\ decoded = [i \in 1 .. n |-> group[i].line.body]
  <2>1. /\ nums \in Seq(Int) /\ Len(nums) = n
        /\ decoded \in Seq(Chunks) /\ Len(decoded) = n
        /\ \A i \in 1 .. n : nums[i] = group[i].line_num
    BY PartsGive
  <2>2. decoded = [i \in 1 .. n |-> group[i].line.body]
    BY DEF PartBodies
  <2> QED
    BY <2>1, <2>2
<1>2. n \in Nat \ {0} /\ 1 \in 1 .. n /\ n \in 1 .. n
  OBVIOUS
<1>3. m \in QueuedMessage /\ m.line_nums = nums /\ m.decoded = decoded
  BY <1>1 DEF Message, QueuedMessage
<1>4. \A i \in 1 .. n : OfGroup(group[i].line, id) /\ group[i].line.number = i
  BY DEF Counted
<1>5. group[n].line.total = n
  OBVIOUS
<1> HIDE DEF n, nums, decoded, m
<1>6. ix \in [1 .. n -> 1 .. n] /\ Rising(ix) /\ \A i \in 1 .. n : ix[i] = i
  BY <1>2 DEF Rising
<1> HIDE DEF ix
<1>7. \A i \in 1 .. n : nums[i] \in DOMAIN g /\ VdmIn(g, nums[ix[i]]) = group[i].line
  <2>1. \A i \in 1 .. n : BarePart(g, group[i])
    BY DEF n
  <2> SUFFICES ASSUME NEW i \in 1 .. n
               PROVE  nums[i] \in DOMAIN g /\ VdmIn(g, nums[ix[i]]) = group[i].line
    OBVIOUS
  <2>2. nums[i] = group[i].line_num /\ ix[i] = i
    BY <1>1, <1>6
  <2> QED
    BY <2>1, <2>2 DEF BarePart, VdmIn
<1>8. \A i \in 1 .. n : /\ VdmIn(g, nums[ix[i]]).framed
                        /\ VdmIn(g, nums[ix[i]]).number = i
                        /\ VdmIn(g, nums[ix[i]]).seq = << id >>
  BY <1>4, <1>7 DEF OfGroup
<1>9. VdmIn(g, nums[ix[n]]).total = n
  BY <1>2, <1>5, <1>7
<1>10. decoded = [i \in 1 .. n |-> VdmIn(g, nums[ix[i]]).body]
  BY <1>1, <1>7
<1>11. OwnLines(g, nums, decoded)
  <2>1. \A i \in 1 .. n : /\ VdmIn(g, nums[ix[i]]).framed
                          /\ VdmIn(g, nums[ix[i]]).number = i
                          /\ VdmIn(g, nums[ix[i]]).seq = VdmIn(g, nums[ix[1]]).seq
    BY <1>2, <1>8
  <2>2. /\ Len(decoded) = Len(nums) /\ Len(decoded) = n
        /\ ix \in [DOMAIN decoded -> DOMAIN nums] /\ Rising(ix)
    BY <1>1, <1>6
  <2> QED
    BY <1>9, <1>10, <2>1, <2>2 DEF OwnLines
<1>12. nums # << >> /\ \A k \in DOMAIN nums : nums[k] \in DOMAIN g
  BY <1>1, <1>2, <1>7
<1> QED
  BY <1>3, <1>11, <1>12 DEF SoundMessages, m, nums, decoded

(* A message of the lines of a TAG block or USCG group. *)
LEMMA MetadataIsSound ==
  ASSUME NEW g, NEW parts \in Seq(GroupPart), parts # << >>,
         \A i \in 1 .. Len(parts) : GroupedPart(g, parts[i]),
         NEW decoded \in Seq(Chunks),
         decoded # << >> => PayloadFrom(decoded, parts, Len(parts))
  PROVE  Message(LineNums(parts), decoded) \in SoundMessages(g)
<1> DEFINE l == Len(parts)
           n == Len(decoded)
           nums == LineNums(parts)
           m == Message(nums, decoded)
<1>1. /\ nums \in Seq(Int) /\ Len(nums) = l /\ DOMAIN nums = 1 .. l /\ l \in Nat \ {0}
      /\ \A i \in 1 .. l : nums[i] = parts[i].line_num
  <2>1. nums = [i \in 1 .. l |-> parts[i].line_num] /\ l \in Nat \ {0}
    BY DEF LineNums
  <2>2. \A i \in 1 .. l : parts[i].line_num \in Int
    <3>1. \A i \in 1 .. l : parts[i] \in GroupPart
      OBVIOUS
    <3> QED
      BY <3>1 DEF GroupPart
  <2> QED
    BY <2>1, <2>2
<1>2. m \in QueuedMessage /\ m.line_nums = nums /\ m.decoded = decoded
  BY <1>1 DEF Message, QueuedMessage
<1>3. DOMAIN decoded = 1 .. n /\ n \in Nat
  OBVIOUS
<1>4. \A i \in 1 .. l : GroupedPart(g, parts[i])
  OBVIOUS
<1> HIDE DEF nums, m
<1>5. \A i \in 1 .. l : /\ nums[i] \in DOMAIN g
                        /\ g[nums[i]].type # "BARE"
                        /\ VdmIn(g, nums[i]) = parts[i].vdm
  BY <1>1, <1>4 DEF GroupedPart, VdmIn
<1>6. ASSUME decoded # << >> PROVE OwnLines(g, nums, decoded)
  <2>1. PICK ix \in [1 .. n -> 1 .. l] : Rising(ix) /\ Whole(parts, ix, decoded)
    BY <1>6 DEF PayloadFrom
  <2>2. n \in 1 .. n /\ 1 \in 1 .. l /\ 1 \in 1 .. n
    BY <1>1, <1>6
  <2> HIDE DEF l
  <2>3. \A i \in 1 .. n : VdmIn(g, nums[ix[i]]) = parts[ix[i]].vdm
    BY <1>5, <2>1
  <2>4. /\ \A i \in 1 .. n : parts[ix[i]].vdm.framed
        /\ n > 1 => \A i \in 1 .. n : /\ parts[ix[i]].vdm.number = i
                                     /\ parts[ix[i]].vdm.seq = parts[ix[1]].vdm.seq
        /\ parts[ix[n]].vdm.total = n
        /\ decoded = [i \in 1 .. n |-> parts[ix[i]].vdm.body]
    BY <2>1 DEF Whole
  <2> HIDE DEF n
  <2>5. decoded = [i \in 1 .. n |-> VdmIn(g, nums[ix[i]]).body]
    BY <2>3, <2>4
  <2>6. /\ \A i \in 1 .. n : VdmIn(g, nums[ix[i]]).framed
        /\ n > 1 => \A i \in 1 .. n :
                      /\ VdmIn(g, nums[ix[i]]).number = i
                      /\ VdmIn(g, nums[ix[i]]).seq = VdmIn(g, nums[ix[1]]).seq
        /\ VdmIn(g, nums[ix[n]]).total = n
    BY <2>2, <2>3, <2>4
  <2> QED
    BY <1>1, <1>3, <1>5, <2>1, <2>2, <2>5, <2>6 DEF OwnLines, n
<1>7. nums # << >> /\ \A k \in DOMAIN nums : nums[k] \in DOMAIN g
  BY <1>1, <1>5
<1> QED
  BY <1>2, <1>6, <1>7 DEF SoundMessages, m, nums

-----------------------------------------------------------------------------
(* A put keeps what waits and what comes out made of lines given.          *)

BareSourced(g, q) ==
  \A id \in SequenceNumbers :
    /\ Counted(q.groups[id], id)
    /\ \A i \in 1 .. Len(q.groups[id]) : BarePart(g, q.groups[id][i])

Sourced(g, q, ids) ==
  \A id \in ids : \A i \in 1 .. Len(q.groups[id]) : GroupedPart(g, q.groups[id][i])

ReadySound(g, r) ==
  /\ r.raised \in BOOLEAN
  /\ r.ready = << >> \/ \E m \in SoundMessages(g) : r.ready = << m >>

LEMMA AppendToNone ==
  ASSUME NEW s, s = << >>, NEW m
  PROVE  Append(s, m) = << m >>
<1>1. << >> \in Seq({m}) /\ m \in {m}
  OBVIOUS
<1> QED
  BY <1>1

LEMMA RestIsBare ==
  ASSUME NEW q, AtRest(q, SequenceNumbers, Part)
  PROVE  q \in BareState
<1>1. << >> \in Seq(QueuedMessage)
  OBVIOUS
<1> QED
  BY <1>1 DEF AtRest, QueueRecord, BareState

LEMMA BarePutSound ==
  ASSUME NEW g, NEW q, AtRest(q, SequenceNumbers, Part), BareSourced(g, q),
         NEW line \in RawLine, line.seq \in SequenceIds,
         NEW n \in Int, n \in DOMAIN g, g[n].type = "BARE", g[n].line = line
  PROVE  LET r == PutBare(q, line, n) IN BareSourced(g, r) /\ ReadySound(g, r)
<1> DEFINE r == PutBare(q, line, n)
           p == [line |-> line, line_num |-> n]
           none == << >>
           Goal == BareSourced(g, r) /\ ReadySound(g, r)
<1>1. r \in BareState /\ BareMove(q, r, line, n)
  BY RestIsBare, BareMoved
<1> HIDE DEF r
<1>2. /\ q.groups \in [SequenceNumbers -> Seq(Part)] /\ q.ready = << >>
      /\ r.raised \in BOOLEAN
  BY <1>1 DEF AtRest, BareState
<1>3. p \in Part /\ p.line = line /\ p.line_num = n /\ line.number \in Int /\ BarePart(g, p)
  BY DEF Part, RawLine, BarePart
<1>4. none \in Seq(Part) /\ Append(none, p) = << p >> /\ Len(none) = 0
  BY <1>3, AppendTo
<1> HIDE DEF p, none
<1>5. ASSUME NEW id \in SequenceNumbers, NEW group \in Seq(Part), Counted(group, id),
             \A i \in 1 .. Len(group) : BarePart(g, group[i]),
             OfGroup(line, id), line.number = Len(group) + 1
      PROVE  /\ Counted(Append(group, p), id)
             /\ \A i \in 1 .. Len(Append(group, p)) : BarePart(g, Append(group, p)[i])
  <2> DEFINE all == Append(group, p)
  <2>1. Counted(all, id)
    BY <1>3, <1>5, CountedMore
  <2>2. /\ Len(all) = Len(group) + 1 /\ Len(group) \in Nat
        /\ \A i \in 1 .. Len(group) : all[i] = group[i]
        /\ all[Len(group) + 1] = p
    BY <1>3, AppendTo
  <2> HIDE DEF all
  <2>3. \A i \in 1 .. Len(all) : i \in 1 .. Len(group) \/ i = Len(group) + 1
    BY <2>2
  <2>4. \A i \in 1 .. Len(all) : BarePart(g, all[i])
    BY <1>3, <1>5, <2>2, <2>3
  <2> QED
    BY <2>1, <2>4 DEF all
<1>6. \A i \in 1 .. Len(none) : BarePart(g, none[i])
  BY <1>4 DEF Counted
<1>7. ASSUME NEW id \in SequenceNumbers, NEW group \in Seq(Part), Counted(group, id),
             \A i \in 1 .. Len(group) : BarePart(g, group[i]),
             r.groups = [q.groups EXCEPT ![id] = group]
      PROVE  BareSourced(g, r)
  <2>1. r.groups[id] = group /\ \A x \in SequenceNumbers : x # id => r.groups[x] = q.groups[x]
    BY <1>2, <1>7
  <2> QED
    BY <1>7, <2>1 DEF BareSourced
<1>8. ASSUME Ignored(q, r, line) PROVE Goal
  BY <1>2, <1>8 DEF Ignored, BareSourced, ReadySound
<1>9. ASSUME ByItself(q, r, line, n) PROVE Goal
  <2>1. PICK decoded \in Seq(Chunks) :
          /\ r.ready = Append(q.ready, Message(<< n >>, decoded))
          /\ decoded # << >> => line.framed /\ line.total = 1 /\ decoded = << line.body >>
    BY <1>9 DEF ByItself
  <2>2. VdmIn(g, n) = line
    BY DEF VdmIn
  <2>3. Message(<< n >>, decoded) \in SoundMessages(g)
    BY <2>1, <2>2, LineIsSound
  <2>4. r.ready = << Message(<< n >>, decoded) >>
    BY <1>2, <2>1, AppendToNone
  <2> QED
    BY <1>2, <1>9, <2>3, <2>4 DEF ByItself, BareSourced, ReadySound
<1>10. ASSUME Starts(q, r, line, n) PROVE Goal
  <2>1. PICK id \in SequenceNumbers :
          /\ OfGroup(line, id) /\ line.number = 1
          /\ r.groups = [q.groups EXCEPT ![id] = << p >>] /\ r.ready = q.ready
    BY <1>10 DEF Starts, p
  <2>2. /\ Counted(Append(none, p), id) /\ Append(none, p) \in Seq(Part)
        /\ \A i \in 1 .. Len(Append(none, p)) : BarePart(g, Append(none, p)[i])
    <3>1. line.number = Len(none) + 1 /\ Counted(none, id)
      BY <1>4, <2>1 DEF Counted
    <3> QED
      BY <1>3, <1>4, <1>5, <1>6, <2>1, <3>1, AppendTo
  <2> DEFINE one == Append(none, p)
  <2>3. r.groups = [q.groups EXCEPT ![id] = one]
    BY <1>4, <2>1
  <2> HIDE DEF one
  <2>4. BareSourced(g, r)
    BY <1>7, <2>2, <2>3 DEF one
  <2> QED
    BY <1>2, <2>1, <2>4 DEF ReadySound
<1>11. ASSUME NEW id \in SequenceNumbers,
              OfGroup(line, id), InTurn(q.groups[id], line.number)
       PROVE  LET all == Append(q.groups[id], p) IN
              /\ all \in Seq(Part) /\ Counted(all, id) /\ all # << >>
              /\ \A i \in 1 .. Len(all) : BarePart(g, all[i])
              /\ Len(all) = line.number /\ all[Len(all)] = p
  <2> DEFINE group == q.groups[id]
             all == Append(group, p)
  <2>1. /\ group \in Seq(Part) /\ Counted(group, id)
        /\ \A i \in 1 .. Len(group) : BarePart(g, group[i])
    BY <1>2 DEF BareSourced
  <2>2. /\ all \in Seq(Part) /\ Len(all) = Len(group) + 1 /\ Len(group) \in Nat
        /\ all[Len(group) + 1] = p
    BY <1>3, <2>1, AppendTo
  <2>3. line.number = Len(group) + 1
    BY <1>3, <1>11, <2>2 DEF InTurn
  <2> HIDE DEF group
  <2>4. Counted(all, id) /\ \A i \in 1 .. Len(all) : BarePart(g, all[i])
    BY <1>5, <1>11, <2>1, <2>3
  <2> HIDE DEF all
  <2>5. all # << >>
    BY <2>2
  <2> QED
    BY <2>2, <2>3, <2>4, <2>5 DEF all, group
<1>12. ASSUME Joins(q, r, line, n) PROVE Goal
  <2>1. PICK id \in SequenceNumbers :
          /\ OfGroup(line, id) /\ InTurn(q.groups[id], line.number)
          /\ r.groups = [q.groups EXCEPT ![id] = Append(q.groups[id], p)]
          /\ r.ready = q.ready
    BY <1>12 DEF Joins, p
  <2> DEFINE all == Append(q.groups[id], p)
  <2>2. /\ all \in Seq(Part) /\ Counted(all, id)
        /\ \A i \in 1 .. Len(all) : BarePart(g, all[i])
    BY <1>11, <2>1
  <2>3. r.groups = [q.groups EXCEPT ![id] = all]
    BY <2>1
  <2> HIDE DEF all
  <2>4. BareSourced(g, r)
    BY <1>7, <2>2, <2>3
  <2> QED
    BY <1>2, <2>1, <2>4 DEF ReadySound
<1>13. ASSUME Finishes(q, r, line, n) PROVE Goal
  <2>1. PICK id \in SequenceNumbers :
          /\ OfGroup(line, id) /\ InTurn(q.groups[id], line.number)
          /\ line.number = line.total
          /\ r.groups = [q.groups EXCEPT ![id] = none]
          /\ r.ready = Append(q.ready, Message(LineNums(Append(q.groups[id], p)),
                                               PartBodies(Append(q.groups[id], p))))
    BY <1>13 DEF Finishes, p, none
  <2> DEFINE all == Append(q.groups[id], p)
             m == Message(LineNums(all), PartBodies(all))
  <2>2. /\ all \in Seq(Part) /\ Counted(all, id) /\ all # << >>
        /\ \A i \in 1 .. Len(all) : BarePart(g, all[i])
        /\ Len(all) = line.number /\ all[Len(all)] = p
    BY <1>11, <2>1
  <2>3. r.ready = << m >>
    BY <1>2, <2>1, AppendToNone
  <2> HIDE DEF all
  <2>4. m \in SoundMessages(g)
    BY <1>3, <2>1, <2>2, GroupIsSound
  <2>5. BareSourced(g, r)
    <3>1. Counted(none, id) /\ \A i \in 1 .. Len(none) : BarePart(g, none[i])
      BY <1>4 DEF Counted
    <3> QED
      BY <1>4, <1>7, <2>1, <3>1
  <2> HIDE DEF m
  <2> QED
    BY <1>2, <2>3, <2>4, <2>5 DEF ReadySound
<1> QED
  BY <1>1, <1>8, <1>9, <1>10, <1>12, <1>13 DEF BareMove, r


(* A line outside of any group. *)
LEMMA AloneSound ==
  ASSUME NEW g, NEW q, NEW ids, AtRest(q, ids, GroupPart), Sourced(g, q, ids),
         NEW n \in Int, n \in DOMAIN g, NEW decoded \in Seq(Chunks),
         decoded # << >> => /\ VdmIn(g, n).framed /\ VdmIn(g, n).total = 1
                            /\ decoded = << VdmIn(g, n).body >>
  PROVE  LET r == Enqueue(q, << n >>, decoded) IN Sourced(g, r, ids) /\ ReadySound(g, r)
<1> DEFINE r == Enqueue(q, << n >>, decoded)
           m == Message(<< n >>, decoded)
<1>1. QueueRecord(q) /\ q.ready = << >> /\ q.raised = FALSE
  BY DEF AtRest
<1>2. r.groups = q.groups /\ r.raised = FALSE /\ r.ready = << m >>
  BY <1>1, EnqueueFirst
<1>3. m \in SoundMessages(g)
  BY LineIsSound
<1> HIDE DEF r, m
<1>4. Sourced(g, r, ids) /\ ReadySound(g, r)
  BY <1>2, <1>3 DEF Sourced, ReadySound
<1> QED
  BY <1>4 DEF r

(* A line of a group, of a TAG block or of USCG metadata. *)
LEMMA JoinSound ==
  ASSUME NEW g, NEW q, NEW ids, AtRest(q, ids, GroupPart), Sourced(g, q, ids),
         NEW id \in ids, NEW number, NEW total, NEW p \in GroupPart, GroupedPart(g, p)
  PROVE  LET r == JoinGroup(q, id, number, total, p)
         IN  Sourced(g, r, ids) /\ ReadySound(g, r)
<1> DEFINE r == JoinGroup(q, id, number, total, p)
           group == q.groups[id]
           all == Append(group, p)
           one == << p >>
           none == << >>
           Goal == Sourced(g, r, ids) /\ ReadySound(g, r)
<1>1. /\ QueueRecord(q) /\ q.groups \in [ids -> Seq(GroupPart)]
      /\ q.ready = << >> /\ q.raised = FALSE
  BY DEF AtRest
<1>2. group \in Seq(GroupPart) /\ \A i \in 1 .. Len(group) : GroupedPart(g, group[i])
  BY <1>1 DEF Sourced
<1>3. /\ all \in Seq(GroupPart) /\ all # << >>
      /\ \A i \in 1 .. Len(all) : GroupedPart(g, all[i])
  <2>1. /\ all \in Seq(GroupPart) /\ Len(all) = Len(group) + 1 /\ Len(group) \in Nat
        /\ \A i \in 1 .. Len(group) : all[i] = group[i]
        /\ all[Len(group) + 1] = p
    BY <1>2, AppendTo
  <2> HIDE DEF all, group
  <2>2. \A i \in 1 .. Len(all) : i \in 1 .. Len(group) \/ i = Len(group) + 1
    BY <2>1
  <2>3. all # << >>
    BY <2>1
  <2> QED
    BY <1>2, <2>1, <2>2, <2>3
<1>4. /\ one \in Seq(GroupPart) /\ \A i \in 1 .. Len(one) : GroupedPart(g, one[i])
      /\ none \in Seq(GroupPart) /\ \A i \in 1 .. Len(none) : GroupedPart(g, none[i])
  OBVIOUS
<1>5. \/ r = [q EXCEPT !.groups[id] = one]
      \/ r = q
      \/ r = [q EXCEPT !.groups[id] = all]
      \/ r = FinishLines(q, id, all)
  BY DEF JoinGroup
<1>6. \/ r = [q EXCEPT !.groups[id] = all, !.raised = TRUE]
      \/ r = Enqueue([q EXCEPT !.groups[id] = none], LineNums(all), DecodeMultiple(all).decoded)
      \/ r # FinishLines(q, id, all)
  BY DEF FinishLines
<1> HIDE DEF r, all, one, none, group
<1>7. ASSUME NEW parts \in Seq(GroupPart), NEW t,
             \A i \in 1 .. Len(parts) : GroupedPart(g, parts[i]),
             t.groups = [q.groups EXCEPT ![id] = parts]
      PROVE  Sourced(g, t, ids)
  <2>1. t.groups[id] = parts /\ \A x \in ids : x # id => t.groups[x] = q.groups[x]
    BY <1>1, <1>7
  <2> QED
    BY <1>7, <2>1 DEF Sourced
<1>8. ASSUME NEW parts, NEW t, t = [q EXCEPT !.groups[id] = parts]
      PROVE  /\ QueueRecord(t) /\ t.groups = [q.groups EXCEPT ![id] = parts]
             /\ t.ready = << >> /\ t.raised = FALSE
  BY <1>1, <1>8 DEF QueueRecord
<1>9. ASSUME r = q PROVE Goal
  BY <1>1, <1>9 DEF ReadySound
<1>10. ASSUME NEW parts \in {one, all}, r = [q EXCEPT !.groups[id] = parts] PROVE Goal
  <2>1. /\ r.groups = [q.groups EXCEPT ![id] = parts]
        /\ r.ready = << >> /\ r.raised = FALSE
    BY <1>8, <1>10
  <2>2. Sourced(g, r, ids)
    BY <1>3, <1>4, <1>7, <2>1
  <2> QED
    BY <2>1, <2>2 DEF ReadySound
<1>11. ASSUME r = [q EXCEPT !.groups[id] = all, !.raised = TRUE] PROVE Goal
  <2>1. /\ r.groups = [q.groups EXCEPT ![id] = all]
        /\ r.ready = << >> /\ r.raised = TRUE
    BY <1>1, <1>11 DEF QueueRecord
  <2>2. Sourced(g, r, ids)
    BY <1>3, <1>7, <2>1
  <2> QED
    BY <2>1, <2>2 DEF ReadySound
<1>12. ASSUME r = Enqueue([q EXCEPT !.groups[id] = none], LineNums(all),
                          DecodeMultiple(all).decoded)
       PROVE  Goal
  <2> DEFINE t == [q EXCEPT !.groups[id] = none]
             decoded == DecodeMultiple(all).decoded
             m == Message(LineNums(all), decoded)
  <2>1. /\ QueueRecord(t) /\ t.groups = [q.groups EXCEPT ![id] = none]
        /\ t.ready = << >> /\ t.raised = FALSE
    BY <1>8
  <2>2. decoded \in Seq(Chunks) /\ (decoded # << >> => PayloadFrom(decoded, all, Len(all)))
    BY <1>3, DecodesOwnParts
  <2> HIDE DEF t, decoded
  <2>3. r.groups = t.groups /\ r.raised = t.raised /\ r.ready = << m >>
    <3> DEFINE nums == LineNums(all)
               u == Enqueue(t, nums, decoded)
    <3>1. r = u
      BY <1>12 DEF t, decoded
    <3> HIDE DEF nums
    <3>2. /\ u.groups = t.groups /\ u.raised = t.raised
          /\ u.ready = << Message(nums, decoded) >>
      BY <2>1, EnqueueFirst
    <3> HIDE DEF u
    <3> QED
      BY <3>1, <3>2 DEF nums
  <2>4. m \in SoundMessages(g)
    BY <1>3, <2>2, MetadataIsSound
  <2>5. Sourced(g, r, ids)
    BY <1>4, <1>7, <2>1, <2>3
  <2> HIDE DEF m
  <2> QED
    BY <2>1, <2>3, <2>4, <2>5 DEF ReadySound
<1>13. Goal
  BY <1>5, <1>6, <1>9, <1>10, <1>11, <1>12
<1> QED
  BY <1>13 DEF r


(* All that waits and all that came out is made of lines given. *)
Content ==
  /\ Len(given) = line_num /\ OwnSeq(given)
  /\ BareSourced(given, bare_queue)
  /\ Sourced(given, tagb_queue, GroupIds)
  /\ Sourced(given, uscg_queue, StationIds)
  /\ queue \in Seq(SoundMessages(given))
  /\ taken \in Seq(SoundMessages(given))
  /\ raised \in BOOLEAN

LEMMA SourcedAfter ==
  ASSUME NEW g, NEW g2, \A k \in DOMAIN g : k \in DOMAIN g2 /\ g2[k] = g[k]
  PROVE  /\ \A q : BareSourced(g, q) => BareSourced(g2, q)
         /\ \A q, ids : Sourced(g, q, ids) => Sourced(g2, q, ids)
         /\ \A s : s \in Seq(SoundMessages(g)) => s \in Seq(SoundMessages(g2))
<1>1. /\ SoundMessages(g) \subseteq SoundMessages(g2)
      /\ \A p : BarePart(g, p) => BarePart(g2, p)
      /\ \A p : GroupedPart(g, p) => GroupedPart(g2, p)
  BY SoundAfter
<1> QED
  BY <1>1 DEF BareSourced, Sourced

LEMMA OwnSeqAppend ==
  ASSUME NEW s, OwnSeq(s), NEW e
  PROVE  OwnSeq(Append(s, e))
<1> DEFINE S == Range(s) \cup {e}
           r == Append(s, e)
<1>1. s \in Seq(S) /\ e \in S
  BY DEF OwnSeq
<1> HIDE DEF S
<1>2. r \in Seq(S)
  BY <1>1
<1> HIDE DEF r
<1>3. r = [i \in 1 .. Len(r) |-> r[i]] /\ Len(r) \in Nat
  BY <1>2
<1>4. \A i \in 1 .. Len(r) : r[i] \in Range(r)
  BY <1>2 DEF Range
<1> DEFINE R == Range(r)
<1> HIDE DEF R
<1>5. r \in Seq(R)
  BY <1>3, <1>4 DEF R
<1> QED
  BY <1>5 DEF R, r, OwnSeq

LEMMA GivenMore ==
  ASSUME QueuesAtRest, Content, NEW type, NEW line, Count(type, line)
  PROVE  /\ line_num \in Nat /\ line_num' = line_num + 1 /\ taken' = taken
         /\ Len(given') = line_num' /\ OwnSeq(given')
         /\ DOMAIN given' = DOMAIN given \cup {line_num + 1}
         /\ line_num + 1 \notin DOMAIN given
         /\ \A k \in DOMAIN given : given'[k] = given[k]
         /\ given'[line_num + 1] = [type |-> type, line |-> line]
         /\ BareSourced(given', bare_queue)
         /\ Sourced(given', tagb_queue, GroupIds)
         /\ Sourced(given', uscg_queue, StationIds)
         /\ queue \in Seq(SoundMessages(given'))
         /\ taken \in Seq(SoundMessages(given'))
<1> DEFINE e == [type |-> type, line |-> line]
<1>1. /\ given' = Append(given, e) /\ line_num' = line_num + 1 /\ taken' = taken
      /\ line_num \in Nat /\ Len(given) = line_num
  BY DEF Count, QueuesAtRest, Content
<1> HIDE DEF e
<1>2. given \in Seq(Range(given) \cup {e}) /\ e \in Range(given) \cup {e}
  <2>1. given \in Seq(Range(given))
    BY DEF Content, OwnSeq
  <2> QED
    BY <2>1
<1>3. /\ Len(given') = line_num' /\ DOMAIN given = 1 .. line_num
      /\ DOMAIN given' = 1 .. line_num + 1
      /\ \A k \in DOMAIN given : given'[k] = given[k]
      /\ given'[line_num + 1] = e
  BY <1>1, <1>2, AppendTo
<1>4. DOMAIN given' = DOMAIN given \cup {line_num + 1} /\ line_num + 1 \notin DOMAIN given
  BY <1>1, <1>3
<1>5. OwnSeq(given')
  BY <1>1, OwnSeqAppend DEF Content
<1>6. \A k \in DOMAIN given : k \in DOMAIN given' /\ given'[k] = given[k]
  BY <1>3, <1>4
<1>7. /\ BareSourced(given', bare_queue)
      /\ Sourced(given', tagb_queue, GroupIds)
      /\ Sourced(given', uscg_queue, StationIds)
      /\ queue \in Seq(SoundMessages(given'))
      /\ taken \in Seq(SoundMessages(given'))
  BY <1>6, SourcedAfter DEF Content
<1> QED
  BY <1>1, <1>3, <1>4, <1>5, <1>7 DEF e

LEMMA PassSound ==
  ASSUME NEW g, NEW s \in Seq(SoundMessages(g)), queue = s,
         NEW after, ReadySound(g, after), Pass(after)
  PROVE  queue' \in Seq(SoundMessages(g)) /\ raised' \in BOOLEAN
<1>1. raised' \in BOOLEAN
  BY DEF Pass, ReadySound
<1>2. CASE after.raised \/ after.ready = << >>
  BY <1>1, <1>2 DEF Pass
<1>3. ASSUME NEW m \in SoundMessages(g), after.ready = << m >>, ~ after.raised
      PROVE  queue' \in Seq(SoundMessages(g))
  <2>1. Head(after.ready) = m /\ after.ready # << >>
    BY <1>3
  <2>2. queue' = Append(queue, m)
    BY <1>3, <2>1 DEF Pass
  <2> QED
    BY <2>2, AppendTo
<1> QED
  BY <1>1, <1>2, <1>3 DEF ReadySound

(* The same, as the puts need it. *)
LEMMA GivenNow ==
  ASSUME QueuesAtRest, Content, NEW type, NEW line, Count(type, line),
         NEW n, n = line_num + 1
  PROVE  /\ Len(given') = line_num' /\ OwnSeq(given') /\ taken' = taken
         /\ line_num \in Nat /\ line_num' = n /\ n \in DOMAIN given'
         /\ given'[n].type = type /\ given'[n].line = line
         /\ BareSourced(given', bare_queue)
         /\ Sourced(given', tagb_queue, GroupIds)
         /\ Sourced(given', uscg_queue, StationIds)
         /\ queue \in Seq(SoundMessages(given'))
         /\ taken \in Seq(SoundMessages(given'))
<1> DEFINE e == [type |-> type, line |-> line]
<1>1. e.type = type /\ e.line = line
  OBVIOUS
<1> HIDE DEF e
<1>2. /\ Len(given') = line_num' /\ OwnSeq(given') /\ taken' = taken
      /\ line_num \in Nat /\ line_num' = n /\ given'[n] = e
      /\ DOMAIN given' = DOMAIN given \cup {n}
      /\ BareSourced(given', bare_queue)
      /\ Sourced(given', tagb_queue, GroupIds)
      /\ Sourced(given', uscg_queue, StationIds)
      /\ queue \in Seq(SoundMessages(given'))
      /\ taken \in Seq(SoundMessages(given'))
  BY GivenMore DEF e
<1> QED
  BY <1>1, <1>2

LEMMA BareLineContent ==
  ASSUME QueuesAtRest, Content, NEW line \in BareLines, PutBareLine(line)
  PROVE  Content'
<1> DEFINE n == line_num + 1
           after == PutBare(bare_queue, line, n)
<1>1. /\ Count("BARE", line) /\ Pass(after) /\ bare_queue' = Rest(after)
      /\ tagb_queue' = tagb_queue /\ uscg_queue' = uscg_queue
  BY DEF PutBareLine
<1>2. /\ Len(given') = line_num' /\ OwnSeq(given') /\ taken' = taken
      /\ line_num \in Nat /\ n \in DOMAIN given'
      /\ given'[n].type = "BARE" /\ given'[n].line = line
      /\ BareSourced(given', bare_queue)
      /\ Sourced(given', tagb_queue, GroupIds)
      /\ Sourced(given', uscg_queue, StationIds)
      /\ queue \in Seq(SoundMessages(given'))
      /\ taken \in Seq(SoundMessages(given'))
  <2> HIDE DEF after
  <2> QED
    BY <1>1, GivenNow
<1>3. /\ line \in RawLine /\ line.seq \in SequenceIds /\ n \in Int
      /\ Range(line.seq) \subseteq SequenceNumbers /\ n \in Nat
  <2>1. line \in RawLine /\ line.seq \in SequenceIds
    BY LinesOfTheirTypes, SequenceIdsAreDigits
  <2> QED
    BY <1>2, <2>1 DEF SequenceIds, Range
<1>4. AtRest(bare_queue, SequenceNumbers, Part)
  BY DEF QueuesAtRest
<1>5. BareSourced(given', after) /\ ReadySound(given', after)
  BY <1>2, <1>3, <1>4, BarePutSound
<1>6. Rest(after).groups = after.groups
  <2>1. Outcome(bare_queue, after, n, SequenceNumbers, Part)
    BY <1>3, <1>4, PutBareOutcome
  <2> QED
    BY <1>4, <2>1, RestAtRest
<1> HIDE DEF n, after
<1>7. queue' \in Seq(SoundMessages(given')) /\ raised' \in BOOLEAN
  BY <1>1, <1>2, <1>5, PassSound
<1>8. BareSourced(given', bare_queue')
  BY <1>1, <1>5, <1>6 DEF BareSourced
<1> QED
  BY <1>1, <1>2, <1>7, <1>8 DEF Content

LEMMA TagLineContent ==
  ASSUME QueuesAtRest, Content, NEW line \in TagLines, PutTagLine(line)
  PROVE  Content'
<1> DEFINE n == line_num + 1
           q == tagb_queue
           after == PutTag(q, line, n)
           p == [vdm |-> line.vdm, looks |-> line.looks, line_num |-> n]
           Goal == Sourced(given', after, GroupIds) /\ ReadySound(given', after)
<1>1. /\ Count("TAGB", line) /\ Pass(after) /\ tagb_queue' = Rest(after)
      /\ bare_queue' = bare_queue /\ uscg_queue' = uscg_queue
  BY DEF PutTagLine
<1>2. /\ Len(given') = line_num' /\ OwnSeq(given') /\ taken' = taken
      /\ line_num \in Nat /\ n \in DOMAIN given'
      /\ given'[n].type = "TAGB" /\ given'[n].line = line
      /\ BareSourced(given', bare_queue)
      /\ Sourced(given', q, GroupIds)
      /\ Sourced(given', uscg_queue, StationIds)
      /\ queue \in Seq(SoundMessages(given'))
      /\ taken \in Seq(SoundMessages(given'))
  <2> HIDE DEF after
  <2> QED
    BY <1>1, GivenNow
<1>3. n \in Int /\ n \in Nat /\ line \in TagLine /\ AtRest(q, GroupIds, GroupPart)
  BY <1>2, LinesOfTheirTypes DEF QueuesAtRest
<1>4. p \in GroupPart /\ GroupedPart(given', p) /\ VdmIn(given', n) = line.vdm
  <2>1. p \in GroupPart
    BY <1>3, SequenceIdsAreDigits DEF TagLine, GroupPart
  <2> QED
    BY <1>2, <2>1 DEF GroupedPart, VdmIn
<1>5. ASSUME NEW decoded \in Seq(Chunks), after = Enqueue(q, << n >>, decoded),
             decoded # << >> => /\ line.vdm.framed /\ line.vdm.total = 1
                                /\ decoded = << line.vdm.body >>
      PROVE  Goal
  BY <1>2, <1>3, <1>4, <1>5, AloneSound
<1>13. ASSUME after = [q EXCEPT !.raised = TRUE] PROVE Goal
  <2>1. QueueRecord(q) /\ q.ready = << >>
    BY <1>3 DEF AtRest
  <2> HIDE DEF after
  <2>2. after.groups = q.groups /\ after.ready = << >> /\ after.raised \in BOOLEAN
    BY <1>13, <2>1, RaisedUpdated
  <2> QED
    BY <1>2, <2>2 DEF Sourced, ReadySound
<1>6. ASSUME ~ line.no_checksum, ~ line.parsed PROVE Goal
  <2>1. after = Enqueue(q, << n >>, << >>) /\ << >> \in Seq(Chunks)
    BY <1>6 DEF PutTag, PassThrough
  <2> QED
    BY <1>5, <2>1
<1>7. ASSUME ~ line.no_checksum, line.parsed, line.group = << >>,
             line.vdm \notin HandlerErrors
      PROVE  Goal
  <2> DEFINE decoded == DecodeTagSingle(line.vdm)
  <2>1. after = Enqueue(q, << n >>, decoded)
    BY <1>7 DEF PutTag, PutTagSingle
  <2>2. line.vdm.body \in Chunks
    BY <1>4 DEF GroupPart, RawLine
  <2>3. /\ decoded \in Seq(Chunks)
        /\ decoded # << >> => /\ line.vdm.framed /\ line.vdm.total = 1
                              /\ decoded = << line.vdm.body >>
    BY <2>2 DEF DecodeTagSingle
  <2> HIDE DEF decoded
  <2> QED
    BY <1>5, <2>1, <2>3
<1>8. ASSUME ~ line.no_checksum, line.parsed, line.group # << >> PROVE Goal
  <2> DEFINE h == line.group[1]
  <2>1. after = JoinGroup(q, h.id, h.number, h.total, p)
    BY <1>8 DEF PutTag
  <2>2. h.id \in GroupIds
    BY <1>8 DEF GroupIds
  <2> HIDE DEF p, h
  <2> QED
    BY <1>2, <1>3, <1>4, <2>1, <2>2, JoinSound
<1>14. ASSUME \/ line.no_checksum
              \/ /\ line.parsed /\ line.group = << >>
                 /\ line.vdm \in HandlerErrors /\ ~ line.no_checksum
       PROVE  Goal
  <2>1. after = [q EXCEPT !.raised = TRUE]
    BY <1>14 DEF PutTag, PutTagSingle
  <2> QED
    BY <1>13, <2>1
<1>9. Goal
  BY <1>3, <1>6, <1>7, <1>8, <1>14 DEF TagLine
<1>10. Rest(after).groups = after.groups
  <2>1. Outcome(q, after, n, GroupIds, GroupPart)
    BY <1>3, PutTagOutcome
  <2> QED
    BY <1>3, <2>1, RestAtRest
<1> HIDE DEF n, after, p
<1>11. queue' \in Seq(SoundMessages(given')) /\ raised' \in BOOLEAN
  BY <1>1, <1>2, <1>9, PassSound
<1>12. Sourced(given', tagb_queue', GroupIds)
  BY <1>1, <1>9, <1>10 DEF Sourced
<1> QED
  BY <1>1, <1>2, <1>11, <1>12 DEF Content

LEMMA UscgLineContent ==
  ASSUME QueuesAtRest, Content, NEW line \in UscgLines, PutUscgLine(line)
  PROVE  Content'
<1> DEFINE n == line_num + 1
           q == uscg_queue
           vdm == line.vdm
           after == PutUscg(q, line, n)
           p == [vdm |-> vdm, looks |-> TRUE, line_num |-> n]
           Goal == Sourced(given', after, StationIds) /\ ReadySound(given', after)
<1>1. /\ Count("USCG", line) /\ Pass(after) /\ uscg_queue' = Rest(after)
      /\ bare_queue' = bare_queue /\ tagb_queue' = tagb_queue
  BY DEF PutUscgLine
<1>2. /\ Len(given') = line_num' /\ OwnSeq(given') /\ taken' = taken
      /\ line_num \in Nat /\ n \in DOMAIN given'
      /\ given'[n].type = "USCG" /\ given'[n].line = line
      /\ BareSourced(given', bare_queue)
      /\ Sourced(given', tagb_queue, GroupIds)
      /\ Sourced(given', q, StationIds)
      /\ queue \in Seq(SoundMessages(given'))
      /\ taken \in Seq(SoundMessages(given'))
  <2> HIDE DEF after
  <2> QED
    BY <1>1, GivenNow
<1>3. n \in Int /\ n \in Nat /\ vdm \in RawLine /\ AtRest(q, StationIds, GroupPart)
  BY <1>2, LinesOfTheirTypes DEF QueuesAtRest, UscgLine
<1>4. p \in GroupPart /\ GroupedPart(given', p) /\ VdmIn(given', n) = vdm
      /\ vdm.framed \in BOOLEAN /\ vdm.body \in Chunks
  <2>1. p \in GroupPart
    BY <1>3, SequenceIdsAreDigits DEF GroupPart
  <2> QED
    BY <1>2, <1>3, <2>1 DEF GroupedPart, VdmIn, RawLine
<1>5. ASSUME NEW decoded \in Seq(Chunks), after = Enqueue(q, << n >>, decoded),
             decoded # << >> => /\ vdm.framed /\ vdm.total = 1
                                /\ decoded = << vdm.body >>
      PROVE  Goal
  BY <1>2, <1>3, <1>4, <1>5, AloneSound
<1>6. ASSUME ~ vdm.framed PROVE Goal
  <2>1. after = Enqueue(q, << n >>, << >>) /\ << >> \in Seq(Chunks)
    BY <1>6 DEF PutUscg, PassThrough
  <2> QED
    BY <1>5, <2>1
<1>7. ASSUME vdm.framed, vdm.total = 1 PROVE Goal
  <2> DEFINE decoded == << vdm.body >>
  <2>1. after = q \/ after = Enqueue(q, << n >>, decoded)
    BY <1>7 DEF PutUscg, DecodeSingle
  <2>2. decoded \in Seq(Chunks) /\ decoded # << >>
    BY <1>4
  <2>3. ASSUME after = q PROVE Goal
    BY <1>2, <1>3, <2>3 DEF ReadySound, AtRest
  <2>4. ASSUME after = Enqueue(q, << n >>, decoded) PROVE Goal
    BY <1>5, <1>7, <2>2, <2>4
  <2> QED
    BY <2>1, <2>3, <2>4
<1>8. ASSUME vdm.framed, vdm.total # 1 PROVE Goal
  <2>1. after = JoinGroup(q, StationId(line), vdm.number, vdm.total, p)
    BY <1>8 DEF PutUscg
  <2>2. StationId(line) \in StationIds
    BY DEF StationIds
  <2> HIDE DEF p
  <2> QED
    BY <1>2, <1>3, <1>4, <2>1, <2>2, JoinSound
<1>9. Goal
  BY <1>4, <1>6, <1>7, <1>8
<1>10. Rest(after).groups = after.groups
  <2>1. Outcome(q, after, n, StationIds, GroupPart)
    BY <1>3, PutUscgOutcome
  <2> QED
    BY <1>3, <2>1, RestAtRest
<1> HIDE DEF n, after, p
<1>11. queue' \in Seq(SoundMessages(given')) /\ raised' \in BOOLEAN
  BY <1>1, <1>2, <1>9, PassSound
<1>12. Sourced(given', uscg_queue', StationIds)
  BY <1>1, <1>9, <1>10 DEF Sourced
<1> QED
  BY <1>1, <1>2, <1>11, <1>12 DEF Content

LEMMA TextLineContent ==
  ASSUME QueuesAtRest, Content, NEW line \in TextLines, PutTextLine(line)
  PROVE  Content'
<1> DEFINE n == line_num + 1
           m == Message(<< n >>, << >>)
<1>1. /\ Count("TEXT", line) /\ line_num' = n /\ raised' = FALSE
      /\ queue' = Append(queue, m)
      /\ bare_queue' = bare_queue /\ tagb_queue' = tagb_queue /\ uscg_queue' = uscg_queue
  BY DEF PutTextLine, Count, Message
<1> HIDE DEF m
<1>2. /\ Len(given') = line_num' /\ OwnSeq(given') /\ taken' = taken
      /\ line_num \in Nat /\ n \in DOMAIN given'
      /\ BareSourced(given', bare_queue)
      /\ Sourced(given', tagb_queue, GroupIds)
      /\ Sourced(given', uscg_queue, StationIds)
      /\ queue \in Seq(SoundMessages(given'))
      /\ taken \in Seq(SoundMessages(given'))
  BY <1>1, GivenNow
<1>3. m \in SoundMessages(given')
  <2>1. << >> \in Seq(Chunks) /\ n \in Int
    BY <1>2
  <2> HIDE DEF n
  <2> QED
    BY <1>2, <2>1, LineIsSound DEF m
<1>4. queue' \in Seq(SoundMessages(given'))
  BY <1>1, <1>2, <1>3, AppendTo
<1> QED
  BY <1>1, <1>2, <1>4 DEF Content

LEMMA GetContent ==
  ASSUME Content, Get
  PROVE  Content'
<1> DEFINE S == SoundMessages(given)
<1>1. /\ queue # << >> /\ queue' = Tail(queue) /\ taken' = Append(taken, Head(queue))
      /\ UNCHANGED << line_num, bare_queue, tagb_queue, uscg_queue, raised, given >>
  BY DEF Get
<1>2. queue \in Seq(S) /\ taken \in Seq(S)
  BY DEF Content
<1> HIDE DEF S
<1>3. queue' \in Seq(S) /\ taken' \in Seq(S)
  BY <1>1, <1>2
<1> QED
  BY <1>1, <1>3 DEF Content, S, GroupIds, StationIds

LEMMA InitContent ==
  ASSUME Init
  PROVE  Content
<1>1. /\ line_num = 0 /\ given = << >> /\ taken = << >> /\ queue = << >>
      /\ raised = FALSE /\ bare_queue = NewBareQueue
      /\ tagb_queue = NewGroupQueue(GroupIds) /\ uscg_queue = NewGroupQueue(StationIds)
  BY DEF Init
<1>2. Len(given) = line_num /\ OwnSeq(given)
  BY <1>1 DEF OwnSeq
<1>3. BareSourced(given, bare_queue)
  <2>1. \A id \in SequenceNumbers : bare_queue.groups[id] = << >>
    BY <1>1 DEF NewBareQueue
  <2>2. \A id : Counted(<< >>, id) /\ 1 .. Len(<< >>) = {}
    BY DEF Counted
  <2> QED
    BY <2>1, <2>2 DEF BareSourced
<1>4. \A ids : Sourced(given, NewGroupQueue(ids), ids)
  <2>1. \A ids : \A id \in ids : NewGroupQueue(ids).groups[id] = << >>
    BY DEF NewGroupQueue
  <2>2. 1 .. Len(<< >>) = {}
    OBVIOUS
  <2> QED
    BY <2>1, <2>2 DEF Sourced
<1>5. \A S : << >> \in Seq(S)
  OBVIOUS
<1> QED
  BY <1>1, <1>2, <1>3, <1>4, <1>5 DEF Content

LEMMA ContentStays ==
  ASSUME QueuesAtRest, Content, [Next]_vars
  PROVE  Content'
<1>1. ASSUME UNCHANGED vars PROVE Content'
  BY <1>1 DEF vars, Content, GroupIds, StationIds
<1>2. ASSUME Put PROVE Content'
  BY <1>2, TextLineContent, BareLineContent, TagLineContent, UscgLineContent DEF Put
<1> QED
  BY <1>1, <1>2, GetContent DEF Next

LEMMA AlwaysContent == Spec => [](QueuesAtRest /\ Content)
<1>1. Init => Inductive /\ Content
  BY InitAssembles, InitContent
<1>2. Inductive /\ Content /\ [Next]_vars => Inductive' /\ Content'
  <2> SUFFICES ASSUME Inductive, Content, [Next]_vars
               PROVE  Inductive' /\ Content'
    OBVIOUS
  <2>1. Inductive'
    BY PutAssembles, GetAssembles, QueueStutters DEF Next
  <2>2. Content'
    BY ContentStays DEF Inductive
  <2> QED
    BY <2>1, <2>2
<1>3. Inductive /\ Content => QueuesAtRest /\ Content
  BY DEF Inductive
<1> QED
  BY <1>1, <1>2, <1>3, PTL DEF Spec

(* The groups hold parts of their own kind under the keys there are,       *)
(* nothing is left between the queues, no exception stays pending: of any  *)
(* lines, through all that put raises.                                     *)
THEOREM QueueTypes == Spec => []TypeOK
<1>1. QueuesAtRest /\ Content => TypeOK
  <2> SUFFICES ASSUME QueuesAtRest, Content PROVE TypeOK
    OBVIOUS
  <2>1. ASSUME NEW q, NEW ids, NEW part, AtRest(q, ids, part)
        PROVE  QueueType(q, part) /\ DOMAIN q.groups = ids
    <3>1. /\ q.groups \in [ids -> Seq(part)] /\ q.ready = << >> /\ q.raised = FALSE
      BY <2>1 DEF AtRest
    <3>2. << >> \in Seq(QueuedMessage)
      OBVIOUS
    <3> QED
      BY <3>1, <3>2 DEF QueueType
  <2>2. \A s : s \in Seq(SoundMessages(given)) => s \in Seq(QueuedMessage)
    <3>1. SoundMessages(given) \subseteq QueuedMessage
      BY DEF SoundMessages
    <3> QED
      BY <3>1
  <2> QED
    BY <2>1, <2>2 DEF TypeOK, QueuesAtRest, Content
<1> QED
  BY <1>1, AlwaysContent, PTL

LEMMA SoundOutput ==
  ASSUME Content
  PROVE  DecodedFromOwnLines
<1> DEFINE S == SoundMessages(given)
<1>1. Output \in Seq(S)
  <2>1. taken \in Seq(S) /\ queue \in Seq(S)
    BY DEF Content
  <2> HIDE DEF S
  <2> QED
    BY <2>1 DEF Output
<1>2. SUFFICES ASSUME NEW i \in DOMAIN Output, Output[i].decoded # << >>
               PROVE  \E ix \in [DOMAIN Output[i].decoded -> DOMAIN Output[i].line_nums] :
                        /\ \A k, l \in DOMAIN ix : k < l => ix[k] < ix[l]
                        /\ given[Output[i].line_nums[1]].type = "BARE"
                             => Len(Output[i].decoded) = Len(Output[i].line_nums)
                        /\ WholeMessage([k \in DOMAIN ix |-> Output[i].line_nums[ix[k]]],
                                        Output[i].decoded)
  BY DEF DecodedFromOwnLines
<1> DEFINE nums == Output[i].line_nums
           decoded == Output[i].decoded
           n == Len(decoded)
<1>3. Output[i] \in S
  <2> HIDE DEF S
  <2> QED
    BY <1>1
<1>4. /\ OwnLines(given, nums, decoded)
      /\ nums \in Seq(Int) /\ decoded \in Seq(Chunks)
  BY <1>2, <1>3 DEF SoundMessages, QueuedMessage
<1> HIDE DEF nums, decoded
<1>5. PICK ix \in [DOMAIN decoded -> DOMAIN nums] :
        /\ Rising(ix)
        /\ given[nums[1]].type = "BARE" => Len(decoded) = Len(nums)
        /\ \A k \in 1 .. n : VdmIn(given, nums[ix[k]]).framed
        /\ n > 1 => \A k \in 1 .. n :
                      /\ VdmIn(given, nums[ix[k]]).number = k
                      /\ VdmIn(given, nums[ix[k]]).seq = VdmIn(given, nums[ix[1]]).seq
        /\ VdmIn(given, nums[ix[n]]).total = n
        /\ decoded = [k \in 1 .. n |-> VdmIn(given, nums[ix[k]]).body]
  BY <1>4 DEF OwnLines
<1> DEFINE own == [k \in DOMAIN ix |-> nums[ix[k]]]
<1>6. /\ n \in Nat \ {0} /\ DOMAIN decoded = 1 .. n /\ DOMAIN ix = 1 .. n
      /\ 1 \in 1 .. n /\ n \in 1 .. n
  <2>1. decoded # << >>
    BY <1>2 DEF decoded
  <2> QED
    BY <1>4, <2>1
<1>7. Len(own) = n /\ \A k \in 1 .. n : own[k] = nums[ix[k]]
  BY <1>6
<1>8. \A k : VdmOf(k) = VdmIn(given, k)
  BY DEF VdmOf, VdmIn
<1>9. WholeMessage(own, decoded)
  <2> HIDE DEF own, n
  <2> QED
    BY <1>5, <1>6, <1>7, <1>8 DEF WholeMessage
<1>10. \A k, l \in DOMAIN ix : k < l => ix[k] < ix[l]
  BY <1>5 DEF Rising
<1> QED
  BY <1>5, <1>9, <1>10 DEF nums, decoded

(* What is decoded is the payload of lines of that very message, in their  *)
(* order, whatever was put in between (BareQueue.put, DecodeTagMultiple,   *)
(* uscg.DecodeMultiple).                                                   *)
THEOREM DecodedFromOwn == Spec => []DecodedFromOwnLines
<1>1. QueuesAtRest /\ Content => DecodedFromOwnLines
  BY SoundOutput
<1> QED
  BY <1>1, AlwaysContent, PTL

-----------------------------------------------------------------------------
(* A complete group comes out.  g is the history, groups those of the      *)
(* BareQueue, out the messages that have come out.                         *)

UnderOf(g, seq) == {n \in DOMAIN g : g[n].type = "BARE" /\ OfGroup(g[n].line, seq)}

(* The last lines of a sequence number, if they are 1, 2, ... and none is  *)
(* a final one, wait.                                                      *)
LastWait(g, groups) ==
  \A seq \in SequenceNumbers, k \in Nat \ {0} :
    \A ix \in [1 .. k -> UnderOf(g, seq)] :
      (/\ AreLast(ix, UnderOf(g, seq))
       /\ \A i \in 1 .. k : g[ix[i]].line.number = i /\ g[ix[i]].line.total # i)
      => LineNums(groups[seq]) = ix

BodiesOf(g, ix) == [i \in DOMAIN ix |-> g[ix[i]].line.body]

(* BareGroupComesOut, of every n. *)
ComeOut(g, out) ==
  \A seq \in SequenceNumbers, k \in Nat \ {0, 1} :
    \A ix \in [1 .. k -> UnderOf(g, seq)] :
      (/\ AreLast(ix, UnderOf(g, seq))
       /\ \A i \in 1 .. k : g[ix[i]].line.number = i /\ g[ix[i]].line.total = k
       /\ BodiesOf(g, ix) \notin DecodeErrors)
      => Message(ix, BodiesOf(g, ix)) \in out

(* g2 is g with one line more, its n-th. *)
OneMore(g, g2, n) ==
  /\ n \in Nat \ {0} /\ DOMAIN g = 1 .. n - 1 /\ DOMAIN g2 = 1 .. n
  /\ \A k \in DOMAIN g : g2[k] = g[k]

Counts(g2, n, seq) == g2[n].type = "BARE" /\ OfGroup(g2[n].line, seq)

LEMMA UnderMore ==
  ASSUME NEW g, NEW g2, NEW n, OneMore(g, g2, n), NEW seq
  PROVE  /\ UnderOf(g, seq) \in SUBSET Nat /\ n \in Nat
         /\ \A k \in UnderOf(g, seq) : k < n /\ k \in DOMAIN g
         /\ UnderOf(g2, seq) = IF Counts(g2, n, seq) THEN UnderOf(g, seq) \cup {n}
                                                    ELSE UnderOf(g, seq)
<1>1. /\ n \in Nat /\ DOMAIN g = 1 .. n - 1 /\ DOMAIN g2 = 1 .. n
      /\ \A k \in DOMAIN g : g2[k] = g[k]
  BY DEF OneMore
<1>2. \A k \in DOMAIN g : k \in Nat /\ k < n
  BY <1>1
<1>3. \A k : k \in DOMAIN g2 <=> k \in DOMAIN g \/ k = n
  BY <1>1, n \in 1 .. n DEF OneMore
<1>4. \A k : k \in UnderOf(g2, seq) <=>
              k \in UnderOf(g, seq) \/ (k = n /\ Counts(g2, n, seq))
  BY <1>1, <1>2, <1>3 DEF UnderOf, Counts
<1>5. UnderOf(g2, seq) = IF Counts(g2, n, seq) THEN UnderOf(g, seq) \cup {n}
                                              ELSE UnderOf(g, seq)
  BY <1>4
<1> QED
  BY <1>1, <1>2, <1>5 DEF UnderOf

(* A line that is of no group of that number changes nothing there. *)
LEMMA NotCounted ==
  ASSUME NEW g, NEW g2, NEW n, OneMore(g, g2, n), NEW seq, ~ Counts(g2, n, seq)
  PROVE  /\ UnderOf(g2, seq) = UnderOf(g, seq)
         /\ \A k \in UnderOf(g, seq) : g2[k] = g[k]
<1>1. /\ UnderOf(g2, seq) = UnderOf(g, seq)
      /\ \A k \in UnderOf(g, seq) : k \in DOMAIN g
  BY UnderMore
<1> QED
  BY <1>1 DEF OneMore

(* The last ones of a set with one more end with that one. *)
LEMMA LastIsNew ==
  ASSUME NEW S \in SUBSET Nat, NEW new \in Nat, \A k \in S : k < new,
         NEW n \in Nat \ {0}, NEW ix \in [1 .. n -> S \cup {new}],
         AreLast(ix, S \cup {new})
  PROVE  ix[n] = new
<1>1. /\ DOMAIN ix = 1 .. n
      /\ \A i, j \in 1 .. n : i < j => ix[i] < ix[j]
      /\ \A i \in 1 .. n : ix[i] \in S \cup {new}
      /\ \A k \in S \cup {new} : k >= ix[1] <=> \E i \in 1 .. n : k = ix[i]
  BY DEF AreLast, Range
<1>2. \A i \in 1 .. n : ix[i] \in Nat /\ ix[i] <= new
  <2>1. \A k \in S \cup {new} : k \in Nat /\ k <= new
    OBVIOUS
  <2> QED
    BY <1>1, <2>1
<1>3. 1 \in 1 .. n /\ n \in 1 .. n
  OBVIOUS
<1>4. PICK i \in 1 .. n : new = ix[i]
  BY <1>1, <1>2, <1>3
<1>5. ~ i < n
  BY <1>1, <1>2, <1>3, <1>4
<1> QED
  BY <1>4, <1>5

Prior(ix, k) == [i \in 1 .. k - 1 |-> ix[i]]

(* The others are the last ones of the set. *)
LEMMA LastBefore ==
  ASSUME NEW S \in SUBSET Nat, NEW new \in Nat, \A k \in S : k < new,
         NEW n \in Nat \ {0, 1}, NEW ix \in [1 .. n -> S \cup {new}],
         AreLast(ix, S \cup {new}), ix[n] = new
  PROVE  Prior(ix, n) \in [1 .. n - 1 -> S] /\ AreLast(Prior(ix, n), S)
<1> DEFINE prior == Prior(ix, n)
<1> USE DEF Prior
<1>1. /\ DOMAIN ix = 1 .. n
      /\ \A i, j \in 1 .. n : i < j => ix[i] < ix[j]
      /\ \A i \in 1 .. n : ix[i] \in S \cup {new}
      /\ \A k \in S \cup {new} : k >= ix[1] <=> \E i \in 1 .. n : k = ix[i]
  BY DEF AreLast, Range
<1>2. \A i \in 1 .. n : ix[i] \in Nat
  <2>1. \A k \in S \cup {new} : k \in Nat
    OBVIOUS
  <2> QED
    BY <1>1, <2>1
<1>3. /\ 1 .. n - 1 \subseteq 1 .. n /\ 1 \in 1 .. n - 1 /\ n \in 1 .. n
      /\ \A i \in 1 .. n : i \in 1 .. n - 1 \/ i = n
      /\ \A i \in 1 .. n - 1 : i < n
  OBVIOUS
<1>4. \A i \in 1 .. n - 1 : ix[i] \in S
  BY <1>1, <1>2, <1>3
<1>5. DOMAIN prior = 1 .. n - 1 /\ \A i \in 1 .. n - 1 : prior[i] = ix[i]
  OBVIOUS
<1>6. prior \in [1 .. n - 1 -> S]
  BY <1>4
<1> HIDE DEF prior
<1>7. \A i, j \in DOMAIN prior : i < j => prior[i] < prior[j]
  BY <1>1, <1>3, <1>5
<1>8. Range(prior) = {k \in S : k >= prior[1]}
  <2>1. ASSUME NEW k \in S, k >= prior[1]
        PROVE  \E i \in 1 .. n - 1 : k = prior[i]
    <3>1. PICK i \in 1 .. n : k = ix[i]
      BY <1>1, <1>3, <1>5, <2>1
    <3>2. i # n
      BY <3>1
    <3> QED
      BY <1>3, <1>5, <3>1, <3>2
  <2>2. ASSUME NEW i \in 1 .. n - 1
        PROVE  prior[i] \in S /\ prior[i] >= prior[1]
    <3>1. prior[i] = ix[i] /\ prior[1] = ix[1] /\ ix[i] \in Nat /\ ix[1] \in Nat
      BY <1>2, <1>3, <1>5
    <3>2. i = 1 \/ ix[1] < ix[i]
      BY <1>1, <1>3
    <3> QED
      BY <1>4, <3>1, <3>2
  <2>3. \A k : k \in Range(prior) <=> \E i \in 1 .. n - 1 : k = prior[i]
    BY <1>5 DEF Range
  <2>4. ASSUME NEW k \in Range(prior) PROVE k \in S /\ k >= prior[1]
    <3>1. PICK i \in 1 .. n - 1 : k = prior[i]
      BY <2>3
    <3> QED
      BY <2>2, <3>1
  <2>5. ASSUME NEW k \in S, k >= prior[1] PROVE k \in Range(prior)
    BY <2>1, <2>3, <2>5
  <2> QED
    BY <2>4, <2>5
<1> QED
  BY <1>6, <1>7, <1>8 DEF AreLast, prior

(* The last lines of a number up to a line just put: all but that one wait. *)
LEMMA NowLast ==
  ASSUME NEW g, NEW g2, NEW n, OneMore(g, g2, n), NEW groups, LastWait(g, groups),
         NEW seq \in SequenceNumbers, Counts(g2, n, seq),
         NEW k \in Nat \ {0}, NEW ix \in [1 .. k -> UnderOf(g2, seq)],
         AreLast(ix, UnderOf(g2, seq)),
         \A i \in 1 .. k : g2[ix[i]].line.number = i,
         \A i \in 1 .. k : i < k => g2[ix[i]].line.total # i
  PROVE  /\ ix[k] = n /\ g2[n].line.number = k
         /\ k > 1 => LineNums(groups[seq]) = Prior(ix, k)
<1> DEFINE S == UnderOf(g, seq)
           prior == Prior(ix, k)
<1>1. /\ S \in SUBSET Nat /\ n \in Nat /\ UnderOf(g2, seq) = S \cup {n}
      /\ \A x \in S : x < n /\ x \in DOMAIN g
  BY UnderMore
<1>2. \A x \in S : g2[x] = g[x]
  BY <1>1 DEF OneMore
<1>3. ix \in [1 .. k -> S \cup {n}] /\ AreLast(ix, S \cup {n})
  BY <1>1
<1> HIDE DEF S
<1>4. ix[k] = n
  BY <1>1, <1>3, LastIsNew
<1>5. g2[n].line.number = k
  <2>1. k \in 1 .. k
    OBVIOUS
  <2> QED
    BY <1>4, <2>1
<1>6. ASSUME k > 1 PROVE LineNums(groups[seq]) = prior
  <2>1. prior \in [1 .. k - 1 -> S] /\ AreLast(prior, S)
    <3>1. k \in Nat \ {0, 1}
      BY <1>6
    <3>2. S \in SUBSET Nat /\ n \in Nat /\ \A x \in S : x < n
      BY <1>1
    <3> QED
      BY ONLY <1>3, <1>4, <3>1, <3>2, LastBefore
  <2>2. /\ k - 1 \in Nat \ {0}
        /\ \A i \in 1 .. k - 1 : prior[i] = ix[i] /\ i \in 1 .. k /\ i < k
    BY <1>6 DEF Prior
  <2> HIDE DEF prior
  <2>3. \A i \in 1 .. k - 1 : g2[prior[i]] = g[prior[i]]
    BY <1>2, <2>1
  <2>4. \A i \in 1 .. k - 1 : g[prior[i]].line.number = i /\ g[prior[i]].line.total # i
    BY <2>2, <2>3
  <2> QED
    BY <2>1, <2>2, <2>4 DEF LastWait, S
<1> QED
  BY <1>4, <1>5, <1>6

(* A sequence that is the prior ones, and those with one more. *)
LEMMA NumsJoined ==
  ASSUME NEW group \in Seq(Part), NEW p \in Part, NEW k \in Nat \ {0, 1}, NEW ix,
         DOMAIN ix = 1 .. k, ix = [i \in 1 .. k |-> ix[i]],
         LineNums(group) = Prior(ix, k), p.line_num = ix[k]
  PROVE  /\ Len(group) = k - 1 /\ group # << >>
         /\ Append(group, p) \in Seq(Part) /\ Len(Append(group, p)) = k
         /\ LineNums(Append(group, p)) = ix
<1> DEFINE all == Append(group, p)
<1> USE DEF Prior
<1>1. Len(group) = k - 1
  <2>1. LineNums(group) \in Seq(Int) /\ Len(LineNums(group)) = Len(group)
    BY PartsGive
  <2> QED
    BY <2>1
<1>2. group # << >> /\ DOMAIN group = 1 .. k - 1
  BY <1>1
<1>3. /\ all \in Seq(Part) /\ Len(all) = k
      /\ \A i \in 1 .. k - 1 : all[i] = group[i]
      /\ all[k] = p
  BY <1>1, AppendTo
<1> HIDE DEF all
<1>4. /\ LineNums(all) \in Seq(Int) /\ Len(LineNums(all)) = k
      /\ \A i \in 1 .. k : LineNums(all)[i] = all[i].line_num
  BY <1>3, PartsGive
<1>5. \A i \in 1 .. k - 1 : group[i].line_num = ix[i]
  <2>1. \A i \in 1 .. k - 1 : LineNums(group)[i] = group[i].line_num
    BY <1>1, PartsGive
  <2> QED
    BY <2>1
<1>6. \A i \in 1 .. k : LineNums(all)[i] = ix[i]
  <2>1. \A i \in 1 .. k : i \in 1 .. k - 1 \/ i = k
    OBVIOUS
  <2> QED
    BY <1>3, <1>4, <1>5, <2>1
<1>7. LineNums(all) = [i \in 1 .. k |-> LineNums(all)[i]]
  BY <1>4
<1>8. LineNums(all) = ix
  BY <1>6, <1>7
<1> QED
  BY <1>1, <1>2, <1>3, <1>8 DEF all

(* What a line does to the group of a number it is not of. *)
LEMMA OtherGroupsStay ==
  ASSUME NEW q, NEW r, NEW line, NEW n, BareMove(q, r, line, n),
         q.groups \in [SequenceNumbers -> Seq(Part)],
         NEW seq \in SequenceNumbers, ~ OfGroup(line, seq)
  PROVE  r.groups[seq] = q.groups[seq]
<1>1. ASSUME NEW id \in SequenceNumbers, OfGroup(line, id), NEW group,
             r.groups = [q.groups EXCEPT ![id] = group]
      PROVE  r.groups[seq] = q.groups[seq]
  <2>1. id # seq
    BY <1>1
  <2> QED
    BY <1>1, <2>1
<1>2. ASSUME r.groups = q.groups PROVE r.groups[seq] = q.groups[seq]
  BY <1>2
<1>3. ASSUME Starts(q, r, line, n) PROVE r.groups[seq] = q.groups[seq]
  BY <1>1, <1>3 DEF Starts
<1>4. ASSUME Joins(q, r, line, n) PROVE r.groups[seq] = q.groups[seq]
  BY <1>1, <1>4 DEF Joins
<1>5. ASSUME Finishes(q, r, line, n) PROVE r.groups[seq] = q.groups[seq]
  BY <1>1, <1>5 DEF Finishes
<1> QED
  BY <1>2, <1>3, <1>4, <1>5 DEF BareMove, Ignored, ByItself

(* What a line does to the group it is of, when it is its turn. *)
LEMMA OwnGroupMoves ==
  ASSUME NEW q, NEW r, NEW line, NEW n, BareMove(q, r, line, n),
         q.groups \in [SequenceNumbers -> Seq(Part)],
         NEW seq \in SequenceNumbers, OfGroup(line, seq),
         NEW p, p = [line |-> line, line_num |-> n]
  PROVE  LET all == Append(q.groups[seq], p) IN
         /\ line.number = 1 => r.groups[seq] = << p >>
         /\ line.number # 1 /\ InTurn(q.groups[seq], line.number) =>
              \/ /\ line.number # line.total \/ PartBodies(all) \in DecodeErrors
                 /\ r.groups[seq] = all
              \/ /\ line.number = line.total /\ PartBodies(all) \notin DecodeErrors
                 /\ r.ready = Append(q.ready, Message(LineNums(all), PartBodies(all)))
                 /\ r.raised = q.raised
<1> DEFINE all == Append(q.groups[seq], p)
           Start == line.number = 1 => r.groups[seq] = << p >>
           Turn == line.number # 1 /\ InTurn(q.groups[seq], line.number)
           Join == /\ line.number # line.total \/ PartBodies(all) \in DecodeErrors
                   /\ r.groups[seq] = all
           Finish == /\ line.number = line.total /\ PartBodies(all) \notin DecodeErrors
                     /\ r.ready = Append(q.ready, Message(LineNums(all), PartBodies(all)))
                     /\ r.raised = q.raised
           Goal == Start /\ (Turn => Join \/ Finish)
<1>1. \A id \in SequenceNumbers : OfGroup(line, id) => id = seq
  <2>1. \A id : << id >> = << seq >> => id = seq
    OBVIOUS
  <2> QED
    BY <2>1 DEF OfGroup
<1>2. ASSUME Ignored(q, r, line) PROVE Goal
  BY <1>2 DEF Ignored
<1>3. ASSUME ByItself(q, r, line, n) PROVE Goal
  BY <1>3 DEF ByItself
<1>4. ASSUME Starts(q, r, line, n) PROVE Goal
  <2>1. line.number = 1 /\ r.groups = [q.groups EXCEPT ![seq] = << p >>]
    BY <1>1, <1>4 DEF Starts
  <2> QED
    BY <2>1
<1>5. ASSUME Joins(q, r, line, n) PROVE Goal
  <2>1. /\ line.number # 1
        /\ line.number # line.total \/ PartBodies(all) \in DecodeErrors
        /\ r.groups = [q.groups EXCEPT ![seq] = all]
    BY <1>1, <1>5 DEF Joins
  <2> HIDE DEF all
  <2> QED
    BY <2>1
<1>6. ASSUME Finishes(q, r, line, n) PROVE Goal
  <2>1. /\ line.number # 1 /\ line.number = line.total /\ PartBodies(all) \notin DecodeErrors
        /\ r.ready = Append(q.ready, Message(LineNums(all), PartBodies(all)))
        /\ r.raised = q.raised
    BY <1>1, <1>6 DEF Finishes
  <2> HIDE DEF all
  <2> QED
    BY <2>1
<1> QED
  BY <1>2, <1>3, <1>4, <1>5, <1>6 DEF BareMove

LEMMA WaitAfter ==
  ASSUME NEW g, NEW g2, NEW n \in Int, OneMore(g, g2, n),
         NEW line \in RawLine, g2[n].type = "BARE", g2[n].line = line,
         NEW q, NEW r, BareMove(q, r, line, n),
         q.groups \in [SequenceNumbers -> Seq(Part)], LastWait(g, q.groups)
  PROVE  LastWait(g2, r.groups)
<1> SUFFICES ASSUME NEW seq \in SequenceNumbers, NEW k \in Nat \ {0},
                    NEW ix \in [1 .. k -> UnderOf(g2, seq)],
                    AreLast(ix, UnderOf(g2, seq)),
                    \A i \in 1 .. k : /\ g2[ix[i]].line.number = i
                                      /\ g2[ix[i]].line.total # i
             PROVE  LineNums(r.groups[seq]) = ix
  BY DEF LastWait
<1> DEFINE group == q.groups[seq]
           p == [line |-> line, line_num |-> n]
<1>1. group \in Seq(Part) /\ p \in Part /\ p.line_num = n
  BY DEF Part
<1>2. ASSUME ~ OfGroup(line, seq)
      PROVE  LineNums(r.groups[seq]) = ix
  <2>1. /\ UnderOf(g2, seq) = UnderOf(g, seq)
        /\ \A x \in UnderOf(g, seq) : g2[x] = g[x]
    BY <1>2, NotCounted DEF Counts
  <2>2. \A i \in 1 .. k : g[ix[i]].line.number = i /\ g[ix[i]].line.total # i
    BY <2>1
  <2>3. LineNums(group) = ix
    BY <2>1, <2>2 DEF LastWait
  <2> QED
    BY <1>2, <2>3, OtherGroupsStay
<1>3. ASSUME OfGroup(line, seq)
      PROVE  LineNums(r.groups[seq]) = ix
  <2>1. /\ ix[k] = n /\ line.number = k
        /\ k > 1 => LineNums(group) = Prior(ix, k)
    <3> HIDE DEF p
    <3>1. Counts(g2, n, seq) /\ \A i \in 1 .. k : i < k => g2[ix[i]].line.total # i
      BY <1>3 DEF Counts
    <3> QED
      BY <3>1, NowLast, SMTT(30)
  <2>2. line.total # k
    <3>1. k \in 1 .. k
      OBVIOUS
    <3> QED
      BY <2>1, <3>1
  <2>3. DOMAIN ix = 1 .. k /\ ix = [i \in 1 .. k |-> ix[i]]
    OBVIOUS
  <2>4. ASSUME k = 1 PROVE LineNums(r.groups[seq]) = ix
    <3>1. r.groups[seq] = << p >>
      BY <1>3, <2>1, <2>4, OwnGroupMoves
    <3>2. LineNums(<< p >>) = << n >>
      BY <1>1 DEF LineNums
    <3>3. ix = << n >>
      BY <2>1, <2>3, <2>4
    <3> QED
      BY <3>1, <3>2, <3>3
  <2>5. ASSUME k > 1 PROVE LineNums(r.groups[seq]) = ix
    <3>1. /\ Len(group) = k - 1 /\ group # << >> /\ LineNums(Append(group, p)) = ix
      <4> HIDE DEF group, p
      <4>1. k \in Nat \ {0, 1} /\ LineNums(group) = Prior(ix, k)
        BY <2>1, <2>5
      <4> QED
        BY <1>1, <2>1, <2>3, <4>1, NumsJoined
    <3>2. line.number # 1 /\ InTurn(group, line.number) /\ line.number # line.total
      BY <2>1, <2>2, <2>5, <3>1 DEF InTurn
    <3>3. r.groups[seq] = Append(group, p)
      BY <1>3, <3>2, OwnGroupMoves
    <3> QED
      BY <3>1, <3>3
  <2> QED
    BY <2>4, <2>5
<1> QED
  BY <1>2, <1>3

LEMMA ComeAfter ==
  ASSUME NEW g, NEW g2, NEW n \in Int, OneMore(g, g2, n),
         NEW line \in RawLine, g2[n].type = "BARE", g2[n].line = line,
         NEW q, NEW r, BareMove(q, r, line, n), AtRest(q, SequenceNumbers, Part),
         LastWait(g, q.groups), BareSourced(g, q),
         NEW out, ComeOut(g, out), NEW out2, out \subseteq out2,
         \A m : r.ready = << m >> /\ ~ r.raised => m \in out2
  PROVE  ComeOut(g2, out2)
<1> SUFFICES ASSUME NEW seq \in SequenceNumbers, NEW k \in Nat \ {0, 1},
                    NEW ix \in [1 .. k -> UnderOf(g2, seq)],
                    AreLast(ix, UnderOf(g2, seq)),
                    \A i \in 1 .. k : /\ g2[ix[i]].line.number = i
                                      /\ g2[ix[i]].line.total = k,
                    BodiesOf(g2, ix) \notin DecodeErrors
             PROVE  Message(ix, BodiesOf(g2, ix)) \in out2
  BY DEF ComeOut
<1> DEFINE group == q.groups[seq]
           p == [line |-> line, line_num |-> n]
           all == Append(group, p)
<1>1. /\ group \in Seq(Part) /\ p \in Part /\ p.line_num = n /\ p.line = line
      /\ q.groups \in [SequenceNumbers -> Seq(Part)]
      /\ q.ready = << >> /\ q.raised = FALSE
  BY DEF Part, AtRest
<1>2. DOMAIN ix = 1 .. k /\ ix = [i \in 1 .. k |-> ix[i]]
  OBVIOUS
<1>3. ASSUME ~ OfGroup(line, seq)
      PROVE  Message(ix, BodiesOf(g2, ix)) \in out2
  <2>1. /\ UnderOf(g2, seq) = UnderOf(g, seq)
        /\ \A x \in UnderOf(g, seq) : g2[x] = g[x]
    BY <1>3, NotCounted DEF Counts
  <2>2. \A i \in 1 .. k : g2[ix[i]] = g[ix[i]]
    BY <2>1
  <2>3. BodiesOf(g, ix) = BodiesOf(g2, ix)
    BY <1>2, <2>2 DEF BodiesOf
  <2>4. /\ ix \in [1 .. k -> UnderOf(g, seq)] /\ AreLast(ix, UnderOf(g, seq))
        /\ \A i \in 1 .. k : g[ix[i]].line.number = i /\ g[ix[i]].line.total = k
    BY <2>1, <2>2
  <2>5. Message(ix, BodiesOf(g, ix)) \in out
    BY <2>3, <2>4 DEF ComeOut
  <2> QED
    BY <2>3, <2>5
<1>4. ASSUME OfGroup(line, seq)
      PROVE  Message(ix, BodiesOf(g2, ix)) \in out2
  <2>1. \A i \in 1 .. k : i < k => g2[ix[i]].line.total # i
    OBVIOUS
  <2>2. /\ ix[k] = n /\ line.number = k
        /\ LineNums(group) = Prior(ix, k)
    <3> HIDE DEF p
    <3>1. Counts(g2, n, seq) /\ k \in Nat \ {0} /\ k > 1
      BY <1>4 DEF Counts
    <3>2. LastWait(g, q.groups)
      OBVIOUS
    <3> DEFINE groups == q.groups
    <3>3. LastWait(g, groups) /\ group = groups[seq]
      BY <3>2
    <3> HIDE DEF groups, group
    <3> QED
      BY <2>1, <3>1, <3>3, NowLast
  <2>3. line.total = k /\ k \in 1 .. k
    BY <2>2
  <2> HIDE DEF p
  <2>4. /\ Len(group) = k - 1 /\ group # << >>
        /\ all \in Seq(Part) /\ Len(all) = k /\ LineNums(all) = ix
    <3>1. /\ group \in Seq(Part) /\ p \in Part /\ p.line_num = ix[k]
          /\ LineNums(group) = Prior(ix, k)
      BY <1>1, <2>2
    <3> HIDE DEF group
    <3> QED
      BY <1>2, <3>1, NumsJoined, SMTT(30)
  <2>5. \A i \in 1 .. k - 1 : all[i] = group[i] /\ all[k] = p
    <3> HIDE DEF group
    <3> QED
      BY <1>1, <2>4
  <2>6. \A i \in 1 .. k : all[i].line = g2[ix[i]].line
    <3>1. \A i \in 1 .. k : LineNums(all)[i] = all[i].line_num
      <4> HIDE DEF all
      <4> QED
        BY <2>4, PartsGive
    <3>2. ASSUME NEW i \in 1 .. k - 1 PROVE all[i].line = g2[ix[i]].line
      <4>1. i \in 1 .. k /\ i \in 1 .. Len(group)
        BY <2>4
      <4>2. all[i] = group[i] /\ group[i].line_num = ix[i] /\ BarePart(g, group[i])
        <5>1. BarePart(g, group[i])
          BY <4>1 DEF BareSourced
        <5>2. all[i].line_num = ix[i]
          <6> HIDE DEF all
          <6> QED
            BY <2>4, <3>1, <4>1
        <5> QED
          BY <2>5, <5>1, <5>2
      <4>3. ix[i] \in DOMAIN g /\ g[ix[i]].line = group[i].line
        BY <4>2 DEF BarePart
      <4>4. g2[ix[i]] = g[ix[i]]
        BY <4>3 DEF OneMore
      <4> QED
        BY <4>2, <4>3, <4>4
    <3>3. all[k].line = g2[ix[k]].line
      BY <1>1, <2>2, <2>5, k - 1 \in 1 .. k - 1
    <3>4. \A i \in 1 .. k : i \in 1 .. k - 1 \/ i = k
      OBVIOUS
    <3> HIDE DEF all
    <3> QED
      BY <3>2, <3>3, <3>4
  <2> HIDE DEF all
  <2>7. PartBodies(all) = BodiesOf(g2, ix)
    <3>1. DOMAIN all = 1 .. k
      BY <2>4
    <3>2. PartBodies(all) = [i \in 1 .. k |-> all[i].line.body]
      BY <3>1 DEF PartBodies
    <3>3. BodiesOf(g2, ix) = [i \in 1 .. k |-> g2[ix[i]].line.body]
      BY <1>2 DEF BodiesOf
    <3> QED
      BY <2>6, <3>2, <3>3
  <2>8. line.number # 1 /\ InTurn(group, line.number) /\ line.number = line.total
    BY <2>2, <2>3, <2>4 DEF InTurn
  <2>9. PartBodies(all) \notin DecodeErrors
    BY <2>7
  <2>10. /\ r.ready = Append(q.ready, Message(LineNums(all), PartBodies(all)))
         /\ r.raised = q.raised
    BY <1>1, <1>4, <2>8, <2>9, OwnGroupMoves DEF all, p
  <2>11. r.ready = << Message(ix, BodiesOf(g2, ix)) >> /\ ~ r.raised
    BY <1>1, <2>4, <2>7, <2>10, AppendToNone
  <2> QED
    BY <2>11
<1> QED
  BY <1>3, <1>4

(* A line that is no bare NMEA adds to no group of the BareQueue. *)
LEMMA OtherLine ==
  ASSUME NEW g, NEW g2, NEW n, OneMore(g, g2, n), g2[n].type # "BARE",
         NEW groups, LastWait(g, groups),
         NEW out, ComeOut(g, out), NEW out2, out \subseteq out2
  PROVE  LastWait(g2, groups) /\ ComeOut(g2, out2)
<1>1. ASSUME NEW seq
      PROVE  /\ UnderOf(g2, seq) = UnderOf(g, seq)
             /\ \A x \in UnderOf(g, seq) : g2[x] = g[x]
  BY NotCounted DEF Counts
<1>2. LastWait(g2, groups)
  <2> SUFFICES ASSUME NEW seq \in SequenceNumbers, NEW k \in Nat \ {0},
                      NEW ix \in [1 .. k -> UnderOf(g2, seq)],
                      AreLast(ix, UnderOf(g2, seq)),
                      \A i \in 1 .. k : /\ g2[ix[i]].line.number = i
                                        /\ g2[ix[i]].line.total # i
               PROVE  LineNums(groups[seq]) = ix
    BY DEF LastWait
  <2>1. /\ ix \in [1 .. k -> UnderOf(g, seq)] /\ AreLast(ix, UnderOf(g, seq))
        /\ \A i \in 1 .. k : g[ix[i]].line.number = i /\ g[ix[i]].line.total # i
    BY <1>1
  <2> QED
    BY <2>1 DEF LastWait
<1>3. ComeOut(g2, out2)
  <2> SUFFICES ASSUME NEW seq \in SequenceNumbers, NEW k \in Nat \ {0, 1},
                      NEW ix \in [1 .. k -> UnderOf(g2, seq)],
                      AreLast(ix, UnderOf(g2, seq)),
                      \A i \in 1 .. k : /\ g2[ix[i]].line.number = i
                                        /\ g2[ix[i]].line.total = k,
                      BodiesOf(g2, ix) \notin DecodeErrors
               PROVE  Message(ix, BodiesOf(g2, ix)) \in out2
    BY DEF ComeOut
  <2>1. /\ ix \in [1 .. k -> UnderOf(g, seq)] /\ AreLast(ix, UnderOf(g, seq))
        /\ \A i \in 1 .. k : g2[ix[i]] = g[ix[i]]
    BY <1>1
  <2>2. BodiesOf(g, ix) = BodiesOf(g2, ix)
    BY <2>1 DEF BodiesOf
  <2>3. Message(ix, BodiesOf(g, ix)) \in out
    BY <2>1, <2>2 DEF ComeOut
  <2> QED
    BY <2>2, <2>3
<1> QED
  BY <1>2, <1>3

Came == Range(taken) \cup Range(queue)

BareWaits == LastWait(given, bare_queue.groups) /\ ComeOut(given, Came)

LEMMA PassAdds ==
  ASSUME OwnSeq(queue), NEW after, Pass(after), taken' = taken
  PROVE  /\ Came \subseteq Came'
         /\ \A m : after.ready = << m >> /\ ~ after.raised => m \in Came'
<1> DEFINE m == Head(after.ready)
           S == Range(queue) \cup {m}
<1>1. \/ (after.raised \/ after.ready = << >>) /\ queue' = queue
      \/ ~ after.raised /\ queue' = Append(queue, m)
  BY DEF Pass
<1>2. queue \in Seq(S) /\ m \in S
  BY DEF OwnSeq
<1> HIDE DEF S
<1>3. ASSUME queue' = Append(queue, m)
      PROVE  Range(queue') = Range(queue) \cup {m}
  <2> HIDE DEF m
  <2>1. /\ Len(queue) \in Nat
        /\ DOMAIN queue = 1 .. Len(queue) /\ DOMAIN queue' = 1 .. Len(queue) + 1
        /\ \A i \in 1 .. Len(queue) : queue'[i] = queue[i]
        /\ queue'[Len(queue) + 1] = m
    BY <1>2, <1>3, AppendTo
  <2>2. \A i : i \in DOMAIN queue' <=> i \in DOMAIN queue \/ i = Len(queue) + 1
    BY <2>1
  <2> QED
    BY <2>1, <2>2 DEF Range
<1>4. ASSUME NEW x, after.ready = << x >>
      PROVE  m = x /\ after.ready # << >>
  BY <1>4
<1> HIDE DEF m
<1>5. Range(queue) \subseteq Range(queue')
  BY <1>1, <1>3
<1>6. ASSUME NEW x, after.ready = << x >>, ~ after.raised PROVE x \in Range(queue')
  BY <1>1, <1>3, <1>4, <1>6
<1> QED
  BY <1>5, <1>6 DEF Came

LEMMA GivenOneMore ==
  ASSUME QueuesAtRest, Content, NEW type, NEW line, Count(type, line)
  PROVE  /\ OneMore(given, given', line_num + 1) /\ line_num + 1 \in Int
         /\ given'[line_num + 1].type = type /\ given'[line_num + 1].line = line
         /\ taken' = taken /\ OwnSeq(queue)
<1> DEFINE n == line_num + 1
<1>1. /\ line_num \in Nat /\ taken' = taken
      /\ Len(given') = n /\ OwnSeq(given') /\ \A k \in DOMAIN given : given'[k] = given[k]
  BY GivenMore
<1>2. given'[n].type = type /\ given'[n].line = line
  <2> HIDE DEF n
  <2> QED
    BY GivenNow DEF n
<1>3. OwnSeq(given) /\ Len(given) = line_num /\ OwnSeq(queue)
  BY DEF Content, QueuesAtRest
<1>4. DOMAIN given = 1 .. line_num /\ DOMAIN given' = 1 .. n
  BY <1>1, <1>3 DEF OwnSeq
<1> QED
  BY <1>1, <1>2, <1>3, <1>4 DEF OneMore

LEMMA BareLineWaits ==
  ASSUME QueuesAtRest, Content, BareWaits, NEW line \in BareLines, PutBareLine(line)
  PROVE  BareWaits'
<1> DEFINE n == line_num + 1
           after == PutBare(bare_queue, line, n)
<1>1. Count("BARE", line) /\ Pass(after) /\ bare_queue' = Rest(after)
  BY DEF PutBareLine
<1>2. /\ OneMore(given, given', n) /\ n \in Int
      /\ given'[n].type = "BARE" /\ given'[n].line = line
      /\ taken' = taken /\ OwnSeq(queue)
  <2> HIDE DEF after
  <2> QED
    BY <1>1, GivenOneMore
<1>3. /\ line \in RawLine /\ line.seq \in SequenceIds
      /\ Range(line.seq) \subseteq SequenceNumbers
  <2>1. line \in RawLine /\ line.seq \in SequenceIds
    BY LinesOfTheirTypes, SequenceIdsAreDigits
  <2> QED
    BY <2>1 DEF SequenceIds, Range
<1>4. /\ AtRest(bare_queue, SequenceNumbers, Part) /\ line_num \in Nat
      /\ BareSourced(given, bare_queue)
  BY DEF QueuesAtRest, Content
<1>5. BareMove(bare_queue, after, line, n)
  BY <1>2, <1>3, <1>4, RestIsBare, BareMoved
<1>6. Rest(after).groups = after.groups
  <2>1. n \in Nat
    BY <1>4
  <2>2. Outcome(bare_queue, after, n, SequenceNumbers, Part)
    BY <1>3, <1>4, <2>1, PutBareOutcome
  <2> QED
    BY <1>4, <2>2, RestAtRest
<1> HIDE DEF n, after
<1>7. /\ Came \subseteq Came'
      /\ \A m : after.ready = << m >> /\ ~ after.raised => m \in Came'
  BY <1>1, <1>2, PassAdds
<1>8. LastWait(given', after.groups)
  <2>1. bare_queue.groups \in [SequenceNumbers -> Seq(Part)]
    BY <1>4 DEF AtRest
  <2> QED
    BY <1>2, <1>3, <1>5, <2>1, WaitAfter DEF BareWaits
<1>9. ComeOut(given', Came')
  <2> DEFINE out == Came
             out2 == Came'
  <2>1. ComeOut(given, out) /\ LastWait(given, bare_queue.groups) /\ out \subseteq out2
    BY <1>7 DEF BareWaits
  <2>2. \A m : after.ready = << m >> /\ ~ after.raised => m \in out2
    BY <1>7
  <2> HIDE DEF out, out2
  <2>3. ComeOut(given', out2)
    BY <1>2, <1>3, <1>4, <1>5, <2>1, <2>2, ComeAfter
  <2> QED
    BY <2>3 DEF out2
<1>10. LastWait(given', bare_queue'.groups)
  BY <1>1, <1>6, <1>8
<1> QED
  BY <1>9, <1>10 DEF BareWaits, LastWait, ComeOut, AreLast

LEMMA OtherLineWaits ==
  ASSUME QueuesAtRest, Content, BareWaits, NEW type, type # "BARE", NEW line,
         Count(type, line), bare_queue' = bare_queue, Came \subseteq Came'
  PROVE  BareWaits'
<1> DEFINE n == line_num + 1
<1>1. OneMore(given, given', n) /\ given'[n].type # "BARE"
  BY GivenOneMore
<1> DEFINE out == Came
           out2 == Came'
<1>2. ComeOut(given, out) /\ LastWait(given, bare_queue.groups) /\ out \subseteq out2
  BY DEF BareWaits
<1> HIDE DEF n, out, out2
<1>3. LastWait(given', bare_queue.groups) /\ ComeOut(given', out2)
  BY <1>1, <1>2, OtherLine
<1> QED
  BY <1>3 DEF BareWaits, LastWait, ComeOut, AreLast, out2

LEMMA WaitsStay ==
  ASSUME QueuesAtRest, Content, BareWaits, [Next]_vars
  PROVE  BareWaits'
<1>1. OwnSeq(queue) /\ OwnSeq(taken)
  BY DEF QueuesAtRest
<1>2. ASSUME UNCHANGED vars PROVE BareWaits'
  BY <1>2 DEF vars, BareWaits, Came, LastWait, ComeOut, AreLast
<1>3. ASSUME NEW line \in TextLines, PutTextLine(line) PROVE BareWaits'
  <2> DEFINE m == [line_nums |-> << line_num' >>, decoded |-> << >>]
             after == [ready |-> << m >>, raised |-> FALSE]
  <2>1. /\ Count("TEXT", line) /\ bare_queue' = bare_queue /\ taken' = taken
        /\ raised' = FALSE /\ queue' = Append(queue, m)
    BY <1>3 DEF PutTextLine, Count
  <2>2. Pass(after)
    <3> HIDE DEF m
    <3>1. Head(<< m >>) = m /\ << m >> # << >>
      OBVIOUS
    <3> QED
      BY <2>1, <3>1 DEF Pass
  <2> HIDE DEF after, m
  <2>3. Came \subseteq Came'
    BY <1>1, <2>1, <2>2, PassAdds
  <2> QED
    BY <2>1, <2>3, OtherLineWaits
<1>4. ASSUME NEW line \in TagLines, PutTagLine(line) PROVE BareWaits'
  <2> DEFINE after == PutTag(tagb_queue, line, line_num + 1)
  <2>1. Count("TAGB", line) /\ Pass(after) /\ bare_queue' = bare_queue /\ taken' = taken
    BY <1>4 DEF PutTagLine, Count
  <2> HIDE DEF after
  <2>2. Came \subseteq Came'
    BY <1>1, <2>1, PassAdds
  <2> QED
    BY <2>1, <2>2, OtherLineWaits
<1>5. ASSUME NEW line \in UscgLines, PutUscgLine(line) PROVE BareWaits'
  <2> DEFINE after == PutUscg(uscg_queue, line, line_num + 1)
  <2>1. Count("USCG", line) /\ Pass(after) /\ bare_queue' = bare_queue /\ taken' = taken
    BY <1>5 DEF PutUscgLine, Count
  <2> HIDE DEF after
  <2>2. Came \subseteq Came'
    BY <1>1, <2>1, PassAdds
  <2> QED
    BY <2>1, <2>2, OtherLineWaits
<1>6. ASSUME Get PROVE BareWaits'
  <2>1. /\ queue # << >> /\ queue' = Tail(queue) /\ taken' = Append(taken, Head(queue))
        /\ given' = given /\ bare_queue' = bare_queue
    BY <1>6 DEF Get
  <2> DEFINE S == Range(taken) \cup Range(queue)
  <2>2. taken \in Seq(S) /\ queue \in Seq(S)
    BY <1>1 DEF OwnSeq
  <2>3. Came' = Came
    <3> HIDE DEF S
    <3> DEFINE h == Head(queue)
    <3>1. /\ Len(queue) \in Nat \ {0} /\ DOMAIN queue = 1 .. Len(queue)
          /\ DOMAIN queue' = 1 .. Len(queue) - 1
          /\ \A i \in 1 .. Len(queue) - 1 : queue'[i] = queue[i + 1]
          /\ h = queue[1] /\ h \in S
      BY <2>1, <2>2
    <3>2. Range(queue) = {h} \cup Range(queue')
      <4>1. \A i \in DOMAIN queue : i = 1 \/ (i - 1 \in DOMAIN queue' /\ queue'[i - 1] = queue[i])
        BY <3>1
      <4>2. \A i \in DOMAIN queue' : i + 1 \in DOMAIN queue /\ queue[i + 1] = queue'[i]
        BY <3>1
      <4>3. 1 \in DOMAIN queue
        BY <3>1
      <4>4. h = queue[1]
        BY <3>1
      <4> HIDE DEF h
      <4>5. ASSUME NEW x \in Range(queue) PROVE x \in {h} \cup Range(queue')
        <5>1. PICK i \in DOMAIN queue : x = queue[i]
          BY DEF Range
        <5> QED
          BY <4>1, <4>4, <5>1 DEF Range
      <4>6. ASSUME NEW x \in Range(queue') PROVE x \in Range(queue)
        <5>1. PICK i \in DOMAIN queue' : x = queue'[i]
          BY DEF Range
        <5> QED
          BY <4>2, <5>1 DEF Range
      <4> QED
        BY <4>3, <4>4, <4>5, <4>6 DEF Range
    <3>3. Range(taken') = Range(taken) \cup {h}
      <4> HIDE DEF h
      <4>1. taken' = Append(taken, h)
        BY <2>1 DEF h
      <4>2. /\ Len(taken) \in Nat
            /\ DOMAIN taken = 1 .. Len(taken) /\ DOMAIN taken' = 1 .. Len(taken) + 1
            /\ \A i \in 1 .. Len(taken) : taken'[i] = taken[i]
            /\ taken'[Len(taken) + 1] = h
        BY <2>2, <3>1, <4>1, AppendTo
      <4>3. \A i : i \in DOMAIN taken' <=> i \in DOMAIN taken \/ i = Len(taken) + 1
        BY <4>2
      <4> QED
        BY <4>2, <4>3 DEF Range
    <3> QED
      BY <3>2, <3>3 DEF Came
  <2>4. given' = given /\ bare_queue' = bare_queue
    BY <2>1
  <2> HIDE DEF S
  <2> QED
    BY <2>3, <2>4 DEF BareWaits, LastWait, ComeOut, AreLast
<1> QED
  BY <1>2, <1>3, <1>4, <1>5, <1>6, BareLineWaits DEF Next, Put

LEMMA InitWaits ==
  ASSUME Init
  PROVE  BareWaits
<1>1. given = << >>
  BY DEF Init
<1>2. \A seq : UnderOf(given, seq) = {}
  BY <1>1 DEF UnderOf
<1>3. ASSUME NEW k \in Nat \ {0}, NEW ix \in [1 .. k -> {}] PROVE FALSE
  <2>1. 1 \in 1 .. k
    OBVIOUS
  <2> QED
    BY <2>1
<1>4. LastWait(given, bare_queue.groups)
  BY <1>2, <1>3 DEF LastWait
<1>5. ComeOut(given, Came)
  BY <1>2, <1>3 DEF ComeOut
<1> QED
  BY <1>4, <1>5 DEF BareWaits

LEMMA GroupsHaveComeOut ==
  ASSUME QueuesAtRest, BareWaits
  PROVE  BareGroupComesOut
<1> SUFFICES ASSUME NEW seq \in SequenceNumbers, NEW n \in 2 .. line_num,
                    NEW ix \in [1 .. n -> BareUnder(seq)],
                    AreLast(ix, BareUnder(seq)),
                    \A i \in 1 .. n : /\ given[ix[i]].line.number = i
                                      /\ given[ix[i]].line.total = n,
                    BodiesAt(ix) \notin DecodeErrors
             PROVE  \E i \in DOMAIN Output :
                      Output[i] = [line_nums |-> ix, decoded |-> BodiesAt(ix)]
  BY DEF BareGroupComesOut
<1> DEFINE m == Message(ix, BodiesAt(ix))
<1>1. BareUnder(seq) = UnderOf(given, seq) /\ BodiesAt(ix) = BodiesOf(given, ix)
  BY DEF BareUnder, UnderOf, OfGroup, BodiesAt, BodiesOf
<1>2. n \in Nat \ {0, 1}
  BY DEF QueuesAtRest
<1>3. m \in Came
  <2>1. ix \in [1 .. n -> UnderOf(given, seq)] /\ AreLast(ix, UnderOf(given, seq))
    BY <1>1
  <2>2. BodiesOf(given, ix) \notin DecodeErrors
    BY <1>1
  <2>3. Message(ix, BodiesOf(given, ix)) \in Came
    BY <1>2, <2>1, <2>2 DEF BareWaits, ComeOut
  <2> QED
    BY <1>1, <2>3
<1> HIDE DEF m
<1>4. \E i \in DOMAIN Output : Output[i] = m
  <2> DEFINE S == Range(taken) \cup Range(queue)
  <2>1. taken \in Seq(S) /\ queue \in Seq(S)
    BY DEF QueuesAtRest, OwnSeq
  <2> HIDE DEF S
  <2>2. /\ Len(taken) \in Nat /\ Len(queue) \in Nat
        /\ DOMAIN taken = 1 .. Len(taken) /\ DOMAIN queue = 1 .. Len(queue)
        /\ DOMAIN Output = 1 .. Len(taken) + Len(queue)
        /\ \A i \in 1 .. Len(taken) : Output[i] = taken[i]
        /\ \A i \in 1 .. Len(queue) : Output[Len(taken) + i] = queue[i]
    BY <2>1 DEF Output
  <2>3. ASSUME NEW i \in DOMAIN taken, taken[i] = m
        PROVE  \E j \in DOMAIN Output : Output[j] = m
    BY <2>2, <2>3
  <2>4. ASSUME NEW i \in DOMAIN queue, queue[i] = m
        PROVE  \E j \in DOMAIN Output : Output[j] = m
    <3>1. Len(taken) + i \in DOMAIN Output /\ Output[Len(taken) + i] = m
      BY <2>2, <2>4
    <3> QED
      BY <3>1
  <2> QED
    BY <1>3, <2>3, <2>4 DEF Came, Range
<1> QED
  BY <1>4 DEF m, Message

(* When the last lines of a sequence number are 1..n and decode, they have *)
(* come out as one message: however many lines of that number came before, *)
(* undecodable groups included, and whatever other queues did in between   *)
(* (BareQueue.put).                                                        *)
THEOREM BareGroupsComeOut == Spec => []BareGroupComesOut
<1>1. Init => Inductive /\ Content /\ BareWaits
  BY InitAssembles, InitContent, InitWaits
<1>2. Inductive /\ Content /\ BareWaits /\ [Next]_vars
        => Inductive' /\ Content' /\ BareWaits'
  <2> SUFFICES ASSUME Inductive, Content, BareWaits, [Next]_vars
               PROVE  Inductive' /\ Content' /\ BareWaits'
    OBVIOUS
  <2>1. Inductive'
    BY PutAssembles, GetAssembles, QueueStutters DEF Next
  <2>2. Content' /\ BareWaits'
    BY ContentStays, WaitsStay DEF Inductive
  <2> QED
    BY <2>1, <2>2
<1>3. Inductive /\ Content /\ BareWaits => BareGroupComesOut
  BY GroupsHaveComeOut DEF Inductive
<1> QED
  BY <1>1, <1>2, <1>3, PTL DEF Spec

-----------------------------------------------------------------------------
(* What makes a waiting line leave.                                        *)

(* What the groups of a queue do with a line that belongs to those of own. *)
Moves(q, after, ids, own, p, first) ==
  \A id \in ids :
    \/ after.groups[id] = q.groups[id]
    \/ /\ id \in own
       /\ \/ after.groups[id] = Append(q.groups[id], p)
          \/ after.groups[id] = << >>
          \/ first /\ after.groups[id] = << p >>

LEMMA OneMoves ==
  ASSUME NEW q, NEW after, NEW ids, NEW part, q.groups \in [ids -> Seq(part)],
         NEW own, NEW id \in ids, id \in own, NEW p, NEW first \in BOOLEAN
  PROVE  /\ after.groups = [q.groups EXCEPT ![id] = Append(q.groups[id], p)]
              => Moves(q, after, ids, own, p, first)
         /\ after.groups = [q.groups EXCEPT ![id] = << >>]
              => Moves(q, after, ids, own, p, first)
         /\ first /\ after.groups = [q.groups EXCEPT ![id] = << p >>]
              => Moves(q, after, ids, own, p, first)
<1> DEFINE all == Append(q.groups[id], p)
           none == << >>
           one == << p >>
           Goal == Moves(q, after, ids, own, p, first)
<1>1. ASSUME NEW x, after.groups = [q.groups EXCEPT ![id] = x]
      PROVE  after.groups[id] = x /\ \A i \in ids : i # id => after.groups[i] = q.groups[i]
  BY <1>1
<1> DEFINE Others == \A i \in ids : i # id => after.groups[i] = q.groups[i]
<1>2. after.groups[id] = all /\ Others => Goal
  BY DEF Moves
<1>3. after.groups[id] = none /\ Others => Goal
  BY DEF Moves
<1>4. first /\ after.groups[id] = one /\ Others => Goal
  BY DEF Moves
<1> HIDE DEF all, none, one, Goal
<1>5. ASSUME after.groups = [q.groups EXCEPT ![id] = all] PROVE Goal
  <2>1. after.groups[id] = all /\ Others
    BY <1>1, <1>5
  <2> QED
    BY <1>2, <2>1
<1>6. ASSUME after.groups = [q.groups EXCEPT ![id] = none] PROVE Goal
  <2>1. after.groups[id] = none /\ Others
    BY <1>1, <1>6
  <2> QED
    BY <1>3, <2>1
<1>7. ASSUME first, after.groups = [q.groups EXCEPT ![id] = one] PROVE Goal
  <2>1. after.groups[id] = one /\ Others
    BY <1>1, <1>7
  <2> QED
    BY <1>4, <1>7, <2>1
<1> QED
  BY <1>5, <1>6, <1>7 DEF all, none, one, Goal

LEMMA JoinMoves ==
  ASSUME NEW q, NEW ids, AtRest(q, ids, GroupPart), NEW id \in ids,
         NEW own, id \in own, NEW number, NEW total, NEW p,
         NEW first \in BOOLEAN, first <=> number = 1
  PROVE  Moves(q, JoinGroup(q, id, number, total, p), ids, own, p, first)
<1> DEFINE after == JoinGroup(q, id, number, total, p)
           parts == Append(q.groups[id], p)
           none == << >>
           Goal == Moves(q, after, ids, own, p, first)
<1>1. \/ first /\ after = [q EXCEPT !.groups[id] = << p >>]
      \/ after = q
      \/ after = [q EXCEPT !.groups[id] = parts]
      \/ after = [q EXCEPT !.groups[id] = parts, !.raised = TRUE]
      \/ after = Enqueue([q EXCEPT !.groups[id] = none],
                         LineNums(parts), DecodeMultiple(parts).decoded)
  <2>1. \/ number = 1 /\ after = [q EXCEPT !.groups[id] = << p >>]
        \/ after = q
        \/ after = [q EXCEPT !.groups[id] = parts]
        \/ after = FinishLines(q, id, parts)
    BY DEF JoinGroup
  <2> HIDE DEF after, parts
  <2> QED
    BY <2>1 DEF FinishLines
<1>2. QueueRecord(q) /\ q.groups \in [ids -> Seq(GroupPart)]
  BY DEF AtRest
<1>3. /\ after.groups = [q.groups EXCEPT ![id] = parts] => Goal
      /\ after.groups = [q.groups EXCEPT ![id] = none] => Goal
      /\ first /\ after.groups = [q.groups EXCEPT ![id] = << p >>] => Goal
  <2> HIDE DEF after
  <2> QED
    BY <1>2, OneMoves
<1>4. ASSUME NEW x
      PROVE  /\ [q EXCEPT !.groups[id] = x].groups = [q.groups EXCEPT ![id] = x]
             /\ [q EXCEPT !.groups[id] = x, !.raised = TRUE].groups
                  = [q.groups EXCEPT ![id] = x]
             /\ \A nums, decoded :
                  Enqueue([q EXCEPT !.groups[id] = x], nums, decoded).groups
                    = [q.groups EXCEPT ![id] = x]
  BY <1>2 DEF QueueRecord, Enqueue
<1>5. after = q => Goal
  BY DEF Moves
<1> HIDE DEF after, parts, none, Goal
<1>6. ASSUME first, after = [q EXCEPT !.groups[id] = << p >>] PROVE Goal
  BY <1>3, <1>4, <1>6
<1>7. ASSUME after = [q EXCEPT !.groups[id] = parts] PROVE Goal
  BY <1>3, <1>4, <1>7
<1>8. ASSUME after = [q EXCEPT !.groups[id] = parts, !.raised = TRUE] PROVE Goal
  BY <1>3, <1>4, <1>8
<1>9. ASSUME after = Enqueue([q EXCEPT !.groups[id] = none],
                             LineNums(parts), DecodeMultiple(parts).decoded)
      PROVE  Goal
  BY <1>3, <1>4, <1>9
<1>10. Goal
  BY <1>1, <1>5, <1>6, <1>7, <1>8, <1>9
<1> QED
  BY <1>10 DEF Goal, after

LEMMA BareMoves ==
  ASSUME NEW q, NEW r, NEW line, NEW n, BareMove(q, r, line, n),
         q.groups \in [SequenceNumbers -> Seq(Part)],
         NEW p, p = [line |-> line, line_num |-> n],
         NEW own, \A id \in SequenceNumbers : OfGroup(line, id) => id \in own,
         NEW first \in BOOLEAN, first <=> line.number = 1
  PROVE  Moves(q, r, SequenceNumbers, own, p, first)
<1> DEFINE Goal == Moves(q, r, SequenceNumbers, own, p, first)
<1>1. ASSUME NEW id \in SequenceNumbers, OfGroup(line, id)
      PROVE  /\ r.groups = [q.groups EXCEPT ![id] = Append(q.groups[id], p)] => Goal
             /\ r.groups = [q.groups EXCEPT ![id] = << >>] => Goal
             /\ first /\ r.groups = [q.groups EXCEPT ![id] = << p >>] => Goal
  <2>1. id \in own
    BY <1>1
  <2> QED
    BY <2>1, OneMoves
<1>2. r.groups = q.groups => Goal
  BY DEF Moves
<1> HIDE DEF Goal
<1>3. ASSUME Starts(q, r, line, n) PROVE Goal
  <2>1. PICK id \in SequenceNumbers :
          /\ OfGroup(line, id) /\ line.number = 1
          /\ r.groups = [q.groups EXCEPT ![id] = << p >>]
    BY <1>3 DEF Starts
  <2> QED
    BY <1>1, <2>1
<1>4. ASSUME Joins(q, r, line, n) PROVE Goal
  <2>1. PICK id \in SequenceNumbers :
          /\ OfGroup(line, id)
          /\ r.groups = [q.groups EXCEPT ![id] = Append(q.groups[id], p)]
    BY <1>4 DEF Joins
  <2> QED
    BY <1>1, <2>1
<1>5. ASSUME Finishes(q, r, line, n) PROVE Goal
  <2>1. PICK id \in SequenceNumbers :
          OfGroup(line, id) /\ r.groups = [q.groups EXCEPT ![id] = << >>]
    BY <1>5 DEF Finishes
  <2> QED
    BY <1>1, <2>1
<1>6. Goal
  BY <1>2, <1>3, <1>4, <1>5 DEF BareMove, Ignored, ByItself
<1> QED
  BY <1>6 DEF Goal

(* The group of the lines under a key. *)
NameOf(k) == << k[1], IF k[1] = "BARE" THEN << k[2] >> ELSE k[2] >>

(* The same on all groups, f becoming g by a put of e, the n-th line. *)
KeysMove(f, g, e, n) ==
  \A k \in Keys :
    \/ g[k] = f[k]
    \/ /\ NameOf(k) = GroupOf(e)
       /\ \/ g[k] = Append(f[k], n)
          \/ g[k] = << >>
          \/ IsFirst(e) /\ g[k] = << n >>

LEMMA NumsMove ==
  ASSUME NEW q, NEW after, NEW ids, NEW part, \A p \in part : p.line_num \in Int,
         q.groups \in [ids -> Seq(part)], NEW own, NEW p \in part, NEW first \in BOOLEAN,
         Moves(q, after, ids, own, p, first), NEW id \in ids
  PROVE  \/ LineNums(after.groups[id]) = LineNums(q.groups[id])
         \/ /\ id \in own
            /\ \/ LineNums(after.groups[id]) = Append(LineNums(q.groups[id]), p.line_num)
               \/ LineNums(after.groups[id]) = << >>
               \/ first /\ LineNums(after.groups[id]) = << p.line_num >>
<1> DEFINE parts == q.groups[id]
<1>1. parts \in Seq(part)
  OBVIOUS
<1> HIDE DEF parts
<1>2. /\ LineNums(Append(parts, p)) = Append(LineNums(parts), p.line_num)
      /\ LineNums(<< p >>) = << p.line_num >> /\ LineNums(<< >>) = << >>
  BY <1>1, LineNumsAppend
<1>3. \/ after.groups[id] = parts
      \/ /\ id \in own
         /\ \/ after.groups[id] = Append(parts, p)
            \/ after.groups[id] = << >>
            \/ first /\ after.groups[id] = << p >>
  BY DEF Moves, parts
<1>4. LineNums(parts) = LineNums(q.groups[id])
  BY DEF parts
<1> QED
  BY <1>2, <1>3, <1>4

LEMMA NumsByType ==
  /\ \A id \in SequenceNumbers : /\ NumsAt[<< "BARE", id >>] = LineNums(bare_queue.groups[id])
                                /\ NumsAt'[<< "BARE", id >>] = LineNums(bare_queue'.groups[id])
  /\ \A id \in GroupIds : /\ NumsAt[<< "TAGB", id >>] = LineNums(tagb_queue.groups[id])
                          /\ NumsAt'[<< "TAGB", id >>] = LineNums(tagb_queue'.groups[id])
  /\ \A id \in StationIds : /\ NumsAt[<< "USCG", id >>] = LineNums(uscg_queue.groups[id])
                            /\ NumsAt'[<< "USCG", id >>] = LineNums(uscg_queue'.groups[id])
<1>1. \A k \in Keys : /\ NumsAt[k] = LineNums(Groups[k])
                      /\ NumsAt'[k] = LineNums(Groups'[k])
  BY DEF NumsAt, Groups
<1> QED
  BY <1>1, GroupsByType

(* All this of the queue of one type, whose keys are << t, id >>. *)
TypePuts(t, ids, f, g, q, after, e, own, part, p, first) ==
  /\ p \in part /\ \A x \in part : x.line_num \in Int
  /\ q.groups \in [ids -> Seq(part)] /\ first \in BOOLEAN
  /\ Moves(q, after, ids, own, p, first) /\ (first => IsFirst(e))
  /\ \A id \in ids : id \in own => NameOf(<< t, id >>) = GroupOf(e)
  /\ \A id \in ids : /\ f[<< t, id >>] = LineNums(q.groups[id])
                     /\ g[<< t, id >>] = LineNums(after.groups[id])
  /\ \A k \in Keys : (\E id \in ids : k = << t, id >>) \/ g[k] = f[k]

LEMMA TypeMoves ==
  ASSUME NEW t, NEW ids, NEW f, NEW g, NEW q, NEW after, NEW e, NEW own,
         NEW part, NEW p, NEW first,
         TypePuts(t, ids, f, g, q, after, e, own, part, p, first)
  PROVE  KeysMove(f, g, e, p.line_num)
<1> USE DEF TypePuts
<1> SUFFICES ASSUME NEW k \in Keys, g[k] # f[k]
             PROVE  /\ NameOf(k) = GroupOf(e)
                    /\ \/ g[k] = Append(f[k], p.line_num)
                       \/ g[k] = << >>
                       \/ IsFirst(e) /\ g[k] = << p.line_num >>
  BY DEF KeysMove
<1>1. PICK id \in ids : k = << t, id >>
  OBVIOUS
<1> DEFINE old == LineNums(q.groups[id])
           new == LineNums(after.groups[id])
<1>2. f[k] = old /\ g[k] = new
  BY <1>1
<1>3. \/ new = old
      \/ /\ id \in own
         /\ \/ new = Append(old, p.line_num)
            \/ new = << >>
            \/ first /\ new = << p.line_num >>
  BY NumsMove
<1>4. id \in own => NameOf(k) = GroupOf(e)
  BY <1>1
<1> HIDE DEF old, new
<1> QED
  BY <1>2, <1>3, <1>4

LEMMA BareKeysMove ==
  ASSUME QueuesAtRest, Content, NEW line \in BareLines, PutBareLine(line)
  PROVE  KeysMove(NumsAt, NumsAt', given'[line_num + 1], line_num + 1)
<1> DEFINE n == line_num + 1
           e == given'[n]
           after == PutBare(bare_queue, line, n)
           p == [line |-> line, line_num |-> n]
           own == {id \in SequenceNumbers : OfGroup(line, id)}
           first == line.number = 1
           f == NumsAt
           g == NumsAt'
<1>1. /\ Count("BARE", line) /\ bare_queue' = Rest(after)
      /\ tagb_queue' = tagb_queue /\ uscg_queue' = uscg_queue
  BY DEF PutBareLine
<1>2. n \in Int /\ e.type = "BARE" /\ e.line = line
  <2> HIDE DEF after
  <2> QED
    BY <1>1, GivenOneMore
<1>3. /\ line \in RawLine /\ line.seq \in SequenceIds
      /\ Range(line.seq) \subseteq SequenceNumbers
  <2>1. line \in RawLine /\ line.seq \in SequenceIds
    BY LinesOfTheirTypes, SequenceIdsAreDigits
  <2> QED
    BY <2>1 DEF SequenceIds, Range
<1>4. AtRest(bare_queue, SequenceNumbers, Part) /\ n \in Nat
  BY DEF QueuesAtRest
<1>5. BareMove(bare_queue, after, line, n)
  BY <1>2, <1>3, <1>4, RestIsBare, BareMoved
<1>6. bare_queue'.groups = after.groups
  <2>1. Outcome(bare_queue, after, n, SequenceNumbers, Part)
    BY <1>3, <1>4, PutBareOutcome
  <2> QED
    BY <1>1, <1>4, <2>1, RestAtRest
<1>7. p \in Part /\ p.line_num = n /\ \A x \in Part : x.line_num \in Int
  BY <1>2, <1>3 DEF Part
<1>8. /\ bare_queue.groups \in [SequenceNumbers -> Seq(Part)]
      /\ first \in BOOLEAN /\ (first => IsFirst(e))
      /\ \A id \in SequenceNumbers : id \in own => NameOf(<< "BARE", id >>) = GroupOf(e)
  BY <1>2, <1>4 DEF AtRest, IsFirst, NameOf, GroupOf, OfGroup
<1>9. /\ \A id \in SequenceNumbers : /\ f[<< "BARE", id >>] = LineNums(bare_queue.groups[id])
                                    /\ g[<< "BARE", id >>] = LineNums(after.groups[id])
      /\ \A k \in Keys : (\E id \in SequenceNumbers : k = << "BARE", id >>) \/ g[k] = f[k]
  <2>1. ASSUME NEW k \in Keys, ~ \E id \in SequenceNumbers : k = << "BARE", id >>
        PROVE  g[k] = f[k]
    BY <1>1, <2>1, KeyOfSomeType, NumsByType
  <2>2. \A id \in SequenceNumbers : /\ f[<< "BARE", id >>] = LineNums(bare_queue.groups[id])
                                   /\ g[<< "BARE", id >>] = LineNums(bare_queue'.groups[id])
    BY NumsByType
  <2> HIDE DEF f, g, after
  <2> QED
    BY <1>6, <2>1, <2>2
<1> DEFINE q == bare_queue
<1>10. Moves(q, after, SequenceNumbers, own, p, first)
  <2>1. /\ \A id \in SequenceNumbers : OfGroup(line, id) => id \in own
        /\ first \in BOOLEAN /\ (first <=> line.number = 1)
        /\ q.groups \in [SequenceNumbers -> Seq(Part)]
    BY <1>8
  <2> HIDE DEF n, after, own, first, q
  <2> QED
    BY <1>5, <2>1, BareMoves DEF q
<1> HIDE DEF n, e, after, p, own, first, f, g, q
<1>11. TypePuts("BARE", SequenceNumbers, f, g, q, after, e, own, Part, p, first)
  BY <1>7, <1>8, <1>9, <1>10 DEF TypePuts, q
<1>12. KeysMove(f, g, e, n)
  BY <1>7, <1>11, TypeMoves
<1> QED
  BY <1>12 DEF f, g, e, n

LEMMA TagKeysMove ==
  ASSUME QueuesAtRest, Content, NEW line \in TagLines, PutTagLine(line)
  PROVE  KeysMove(NumsAt, NumsAt', given'[line_num + 1], line_num + 1)
<1> DEFINE n == line_num + 1
           e == given'[n]
           q == tagb_queue
           after == PutTag(q, line, n)
           p == [vdm |-> line.vdm, looks |-> line.looks, line_num |-> n]
           h == line.group[1]
           alone == line.no_checksum \/ ~ line.parsed \/ line.group = << >>
           own == IF alone THEN {} ELSE {h.id}
           first == ~ alone /\ h.number = 1
           f == NumsAt
           g == NumsAt'
<1>1. /\ Count("TAGB", line) /\ tagb_queue' = Rest(after)
      /\ bare_queue' = bare_queue /\ uscg_queue' = uscg_queue
  BY DEF PutTagLine
<1>2. n \in Int /\ e.type = "TAGB" /\ e.line = line
  <2> HIDE DEF after
  <2> QED
    BY <1>1, GivenOneMore
<1>3. line \in TagLine /\ AtRest(q, GroupIds, GroupPart) /\ n \in Nat
  BY LinesOfTheirTypes DEF QueuesAtRest
<1>4. after.groups = tagb_queue'.groups
  <2>1. Outcome(q, after, n, GroupIds, GroupPart)
    BY <1>3, PutTagOutcome
  <2> QED
    BY <1>1, <1>3, <2>1, RestAtRest
<1>5. p \in GroupPart /\ p.line_num = n /\ \A x \in GroupPart : x.line_num \in Int
  BY <1>2, <1>3, SequenceIdsAreDigits DEF TagLine, GroupPart
<1>6. q.groups \in [GroupIds -> Seq(GroupPart)] /\ QueueRecord(q)
  BY <1>3 DEF AtRest
<1>7. /\ first \in BOOLEAN /\ (first => IsFirst(e))
      /\ \A id \in GroupIds : id \in own => NameOf(<< "TAGB", id >>) = GroupOf(e)
  BY <1>2, <1>3 DEF IsFirst, NameOf, GroupOf, TagLine
<1>8. Moves(q, after, GroupIds, own, p, first)
  <2>1. ASSUME alone PROVE Moves(q, after, GroupIds, own, p, first)
    <3>1. \/ after = [q EXCEPT !.raised = TRUE]
          \/ \E nums, decoded : after = Enqueue(q, nums, decoded)
      BY <1>3, <2>1 DEF PutTag, PutTagSingle, PassThrough, TagLine
    <3> HIDE DEF after, own, first
    <3>2. after.groups = q.groups
      BY <1>6, <3>1, RaisedUpdated DEF Enqueue, QueueRecord
    <3> QED
      BY <3>2 DEF Moves
  <2>2. ASSUME ~ alone PROVE Moves(q, after, GroupIds, own, p, first)
    <3>0. ~ line.no_checksum /\ line.parsed /\ line.group # << >>
      BY <1>3, <2>2 DEF TagLine
    <3>1. after = JoinGroup(q, h.id, h.number, h.total, p)
      BY <3>0 DEF PutTag
    <3>2. h.id \in GroupIds
      BY <3>0 DEF GroupIds
    <3>3. (first <=> h.number = 1) /\ h.id \in own
      BY <2>2
    <3> HIDE DEF p, h, after, first, own
    <3> QED
      BY <1>3, <1>7, <3>1, <3>2, <3>3, JoinMoves
  <2> QED
    BY <2>1, <2>2
<1>9. /\ \A id \in GroupIds : /\ f[<< "TAGB", id >>] = LineNums(q.groups[id])
                             /\ g[<< "TAGB", id >>] = LineNums(after.groups[id])
      /\ \A k \in Keys : (\E id \in GroupIds : k = << "TAGB", id >>) \/ g[k] = f[k]
  <2>1. ASSUME NEW k \in Keys, ~ \E id \in GroupIds : k = << "TAGB", id >>
        PROVE  g[k] = f[k]
    BY <1>1, <2>1, KeyOfSomeType, NumsByType
  <2>2. \A id \in GroupIds : /\ f[<< "TAGB", id >>] = LineNums(q.groups[id])
                            /\ g[<< "TAGB", id >>] = LineNums(tagb_queue'.groups[id])
    BY NumsByType
  <2> HIDE DEF f, g, after
  <2> QED
    BY <1>4, <2>1, <2>2
<1> HIDE DEF n, e, after, p, own, first, f, g
<1>10. TypePuts("TAGB", GroupIds, f, g, q, after, e, own, GroupPart, p, first)
  BY <1>5, <1>6, <1>7, <1>8, <1>9 DEF TypePuts
<1>11. KeysMove(f, g, e, n)
  BY <1>5, <1>10, TypeMoves
<1> QED
  BY <1>11 DEF f, g, e, n

LEMMA UscgKeysMove ==
  ASSUME QueuesAtRest, Content, NEW line \in UscgLines, PutUscgLine(line)
  PROVE  KeysMove(NumsAt, NumsAt', given'[line_num + 1], line_num + 1)
<1> DEFINE n == line_num + 1
           e == given'[n]
           q == uscg_queue
           vdm == line.vdm
           after == PutUscg(q, line, n)
           p == [vdm |-> vdm, looks |-> TRUE, line_num |-> n]
           id0 == StationId(line)
           own == {id0}
           first == vdm.number = 1
           f == NumsAt
           g == NumsAt'
<1>1. /\ Count("USCG", line) /\ uscg_queue' = Rest(after)
      /\ bare_queue' = bare_queue /\ tagb_queue' = tagb_queue
  BY DEF PutUscgLine
<1>2. n \in Int /\ e.type = "USCG" /\ e.line = line
  <2> HIDE DEF after
  <2> QED
    BY <1>1, GivenOneMore
<1>3. vdm \in RawLine /\ AtRest(q, StationIds, GroupPart) /\ n \in Nat
  BY LinesOfTheirTypes DEF QueuesAtRest, UscgLine
<1>4. after.groups = uscg_queue'.groups
  <2>1. Outcome(q, after, n, StationIds, GroupPart)
    BY <1>3, PutUscgOutcome
  <2> QED
    BY <1>1, <1>3, <2>1, RestAtRest
<1>5. p \in GroupPart /\ p.line_num = n /\ \A x \in GroupPart : x.line_num \in Int
  BY <1>2, <1>3, SequenceIdsAreDigits DEF GroupPart
<1>6. q.groups \in [StationIds -> Seq(GroupPart)] /\ QueueRecord(q)
  BY <1>3 DEF AtRest
<1>7. /\ first \in BOOLEAN /\ (first => IsFirst(e)) /\ id0 \in StationIds /\ id0 \in own
      /\ \A id \in StationIds : id \in own => NameOf(<< "USCG", id >>) = GroupOf(e)
  BY <1>2 DEF IsFirst, NameOf, GroupOf, StationIds
<1>8. Moves(q, after, StationIds, own, p, first)
  <2>1. ASSUME vdm.framed => vdm.total = 1
        PROVE  Moves(q, after, StationIds, own, p, first)
    <3>1. after = q \/ \E nums, decoded : after = Enqueue(q, nums, decoded)
      BY <1>3, <2>1 DEF PutUscg, PassThrough, DecodeSingle, RawLine
    <3> HIDE DEF after, own, first
    <3>2. after.groups = q.groups
      BY <1>6, <3>1 DEF Enqueue, QueueRecord
    <3> QED
      BY <3>2 DEF Moves
  <2>2. ASSUME vdm.framed, vdm.total # 1
        PROVE  Moves(q, after, StationIds, own, p, first)
    <3>1. after = JoinGroup(q, id0, vdm.number, vdm.total, p)
      BY <2>2 DEF PutUscg
    <3>2. first <=> vdm.number = 1
      OBVIOUS
    <3> HIDE DEF p, id0, after, first, own, vdm
    <3> QED
      BY <1>3, <1>7, <3>1, <3>2, JoinMoves
  <2> QED
    BY <1>3, <2>1, <2>2 DEF RawLine
<1>9. /\ \A id \in StationIds : /\ f[<< "USCG", id >>] = LineNums(q.groups[id])
                               /\ g[<< "USCG", id >>] = LineNums(after.groups[id])
      /\ \A k \in Keys : (\E id \in StationIds : k = << "USCG", id >>) \/ g[k] = f[k]
  <2>1. ASSUME NEW k \in Keys, ~ \E id \in StationIds : k = << "USCG", id >>
        PROVE  g[k] = f[k]
    BY <1>1, <2>1, KeyOfSomeType, NumsByType
  <2>2. \A id \in StationIds : /\ f[<< "USCG", id >>] = LineNums(q.groups[id])
                              /\ g[<< "USCG", id >>] = LineNums(uscg_queue'.groups[id])
    BY NumsByType
  <2> HIDE DEF f, g, after
  <2> QED
    BY <1>4, <2>1, <2>2
<1> HIDE DEF n, e, after, p, own, first, f, g
<1>10. TypePuts("USCG", StationIds, f, g, q, after, e, own, GroupPart, p, first)
  BY <1>5, <1>6, <1>7, <1>8, <1>9 DEF TypePuts
<1>11. KeysMove(f, g, e, n)
  BY <1>5, <1>10, TypeMoves
<1> QED
  BY <1>11 DEF f, g, e, n

(* The lines under a key are of its group. *)
OwnNames(g, f) ==
  \A k \in Keys : \A x \in Range(f[k]) : x \in DOMAIN g /\ GroupOf(g[x]) = NameOf(k)

LEMMA RangeOfAppend ==
  ASSUME NEW s \in Seq(Nat), NEW n \in Nat
  PROVE  /\ Range(Append(s, n)) = Range(s) \cup {n}
         /\ Range(<< n >>) = {n} /\ Range(<< >>) = {}
         /\ Append(s, n) # << >> /\ << n >> # << >>
<1>1. /\ Len(s) \in Nat /\ DOMAIN s = 1 .. Len(s)
      /\ DOMAIN Append(s, n) = 1 .. Len(s) + 1
      /\ \A i \in 1 .. Len(s) : Append(s, n)[i] = s[i]
      /\ Append(s, n)[Len(s) + 1] = n
  BY AppendTo
<1>2. \A i : i \in 1 .. Len(s) + 1 <=> i \in 1 .. Len(s) \/ i = Len(s) + 1
  BY <1>1
<1>3. Range(Append(s, n)) = Range(s) \cup {n}
  BY <1>1, <1>2 DEF Range
<1>4. Range(<< n >>) = {n} /\ Range(<< >>) = {} /\ << n >> # << >>
  BY DEF Range
<1>5. Append(s, n) # << >>
  <2>1. DOMAIN Append(s, n) # {}
    BY <1>1
  <2> QED
    BY <2>1
<1> QED
  BY <1>3, <1>4, <1>5

LEMMA NamesAfter ==
  ASSUME NEW g, NEW g2, NEW n \in Nat, OneMore(g, g2, n),
         NEW f \in [Keys -> Seq(Nat)], OwnNames(g, f),
         NEW f2, KeysMove(f, f2, g2[n], n)
  PROVE  OwnNames(g2, f2)
<1>1. \A x \in DOMAIN g : x \in DOMAIN g2 /\ g2[x] = g[x]
  BY DEF OneMore
<1>2. n \in DOMAIN g2
  BY DEF OneMore
<1> SUFFICES ASSUME NEW k \in Keys, NEW x \in Range(f2[k])
             PROVE  x \in DOMAIN g2 /\ GroupOf(g2[x]) = NameOf(k)
  BY DEF OwnNames
<1>3. x \in Range(f[k]) \/ (x = n /\ NameOf(k) = GroupOf(g2[n]))
  <2> DEFINE s == f[k]
             s2 == f2[k]
  <2>1. s \in Seq(Nat) /\ x \in Range(s2)
    OBVIOUS
  <2>2. \/ s2 = s
        \/ /\ NameOf(k) = GroupOf(g2[n])
           /\ s2 = Append(s, n) \/ s2 = << >> \/ s2 = << n >>
    BY DEF KeysMove
  <2> HIDE DEF s, s2
  <2>3. x \in Range(s) \/ (x = n /\ NameOf(k) = GroupOf(g2[n]))
    <3>1. CASE s2 = s
      BY <2>1, <3>1
    <3>2. CASE s2 = << >>
      BY <2>1, <3>2 DEF Range
    <3>3. CASE s2 = Append(s, n) \/ s2 = << n >>
      <4>1. x \in Range(s) \cup {n}
        BY <2>1, <3>3, RangeOfAppend
      <4> QED
        BY <2>2, <3>1, <3>2, <4>1
    <3> QED
      BY <2>2, <3>1, <3>2, <3>3
  <2> QED
    BY <2>3 DEF s
<1> QED
  BY <1>1, <1>2, <1>3 DEF OwnNames

(* Line x leaves the group under k by a put of e, the n-th line. *)
Leaves(x, k, g, e, n, f, f2, out, out2) ==
  /\ n \in Nat /\ f \in [Keys -> Seq(Nat)] /\ OwnNames(g, f)
  /\ KeysMove(f, f2, e, n) /\ Keyed(Keys, f, f2, out, out2, n)
  /\ k \in Keys /\ x \in Range(f[k]) /\ x \notin Range(f2[k])

LEMMA LeavesBy ==
  ASSUME NEW x, NEW k, NEW g, NEW e, NEW n, NEW f, NEW f2, NEW out, NEW out2,
         Leaves(x, k, g, e, n, f, f2, out, out2)
  PROVE  \/ out2 = Append(out, Append(f[k], n))
         \/ IsFirst(e) /\ GroupOf(e) = GroupOf(g[x])
<1> USE DEF Leaves
<1>1. f[k] \in Seq(Nat) /\ f[k] # << >>
  BY DEF Range
<1>2. GroupOf(g[x]) = NameOf(k)
  BY DEF OwnNames
<1>3. \/ NameOf(k) = GroupOf(e) /\ IsFirst(e)
      \/ f2[k] = << >>
  <2>1. f2[k] # f[k] /\ f2[k] # Append(f[k], n)
    BY <1>1, RangeOfAppend
  <2> QED
    BY <2>1 DEF KeysMove
<1>4. ASSUME f2[k] = << >> PROVE out2 = Append(out, Append(f[k], n))
  <2>1. f2 # f
    BY <1>1, <1>4
  <2>2. ASSUME NEW l \in Keys, f2 = [f EXCEPT ![l] = << n >>] PROVE FALSE
    <3>1. f2[k] = << n >> \/ f2[k] = f[k]
      BY <2>2
    <3>2. << n >> # << >>
      OBVIOUS
    <3> QED
      BY <1>1, <1>4, <3>1, <3>2
  <2>3. ASSUME NEW l \in Keys, f2 = [f EXCEPT ![l] = Append(f[l], n)] PROVE FALSE
    <3>1. f2[k] = Append(f[k], n) \/ f2[k] = f[k]
      BY <2>3
    <3>2. Append(f[k], n) # << >>
      BY <1>1, RangeOfAppend
    <3> QED
      BY <1>1, <1>4, <3>1, <3>2
  <2>4. ASSUME NEW l \in Keys, f2 = [f EXCEPT ![l] = << >>] PROVE l = k
    <3>1. l # k => f2[k] = f[k]
      BY <2>4
    <3> QED
      BY <1>1, <1>4, <3>1
  <2> QED
    BY <2>1, <2>2, <2>3, <2>4 DEF Keyed
<1> QED
  BY <1>2, <1>3, <1>4

Names == OwnNames(given, NumsAt)

LEMMA PutMoves ==
  ASSUME QueuesAtRest, Content, Put
  PROVE  /\ OneMore(given, given', line_num + 1) /\ line_num + 1 \in Nat
         /\ KeysMove(NumsAt, NumsAt', given'[line_num + 1], line_num + 1)
         /\ Last(given') = given'[line_num + 1]
<1>1. \E type, line : Count(type, line)
  BY DEF Put, PutTextLine, PutBareLine, PutTagLine, PutUscgLine
<1>2. /\ OneMore(given, given', line_num + 1) /\ line_num + 1 \in Nat
      /\ Len(given') = line_num + 1
  <2>1. PICK type, line : Count(type, line)
    BY <1>1
  <2>2. OneMore(given, given', line_num + 1)
    BY <2>1, GivenOneMore
  <2>3. line_num \in Nat /\ line_num' = line_num + 1 /\ Len(given') = line_num'
    BY <2>1, GivenMore
  <2> QED
    BY <2>2, <2>3
<1>3. Last(given') = given'[line_num + 1]
  BY <1>2 DEF Last
<1>4. ASSUME NEW line \in TextLines, PutTextLine(line)
      PROVE  KeysMove(NumsAt, NumsAt', given'[line_num + 1], line_num + 1)
  <2>1. NumsAt' = NumsAt
    BY <1>4 DEF PutTextLine, NumsAt, GroupAt, Keys, GroupIds, StationIds
  <2> QED
    BY <2>1 DEF KeysMove
<1> QED
  BY <1>2, <1>3, <1>4, BareKeysMove, TagKeysMove, UscgKeysMove DEF Put

LEMMA NumsStay ==
  ASSUME UNCHANGED vars \/ Get
  PROVE  NumsAt' = NumsAt /\ given' = given
  BY DEF vars, Get, NumsAt, GroupAt, Keys, GroupIds, StationIds

LEMMA NamesStay ==
  ASSUME Inductive, Content, Names, [Next]_vars
  PROVE  Names'
<1>1. NumsAt \in [Keys -> Seq(Nat)] /\ QueuesAtRest
  BY DEF Inductive, Apart
<1>2. Keys' = Keys
  BY DEF Keys, GroupIds, StationIds
<1> DEFINE f == NumsAt
           f2 == NumsAt'
<1>3. OwnNames(given', f2)
  <2>1. CASE Put
    <3>1. /\ OneMore(given, given', line_num + 1) /\ line_num + 1 \in Nat
          /\ KeysMove(f, f2, given'[line_num + 1], line_num + 1)
      BY <1>1, <2>1, PutMoves
    <3>2. OwnNames(given, f) /\ f \in [Keys -> Seq(Nat)]
      BY <1>1 DEF Names
    <3> HIDE DEF f, f2
    <3> QED
      BY <3>1, <3>2, NamesAfter
  <2>2. CASE UNCHANGED vars \/ Get
    BY <2>2, NumsStay DEF Names
  <2> QED
    BY <2>1, <2>2 DEF Next
<1> QED
  BY <1>2, <1>3 DEF Names, OwnNames, GroupOf, NameOf

LEMMA InitNames ==
  ASSUME Init
  PROVE  Names
<1>1. ASSUME NEW k \in Keys PROVE NumsAt[k] = << >>
  <2>1. Groups[k] = << >>
    BY KeyOfSomeType, GroupsByType DEF Init, NewBareQueue, NewGroupQueue
  <2> QED
    BY <2>1 DEF NumsAt, Groups, LineNums
<1>2. Range(<< >>) = {}
  BY DEF Range
<1> QED
  BY <1>1, <1>2 DEF Names, OwnNames

LEMMA KeptByStep ==
  ASSUME Inductive, Content, Names, [Next]_vars, NEW x \in InProgress \ InProgress'
  PROVE  \/ \E i \in DOMAIN Output' : x \in Range(Output'[i].line_nums)
         \/ /\ IsFirst(Last(given'))
            /\ GroupOf(Last(given')) = GroupOf(given[x])
<1> DEFINE n == line_num + 1
           f == NumsAt
           f2 == NumsAt'
           e == given'[n]
           out == OutNums
           out2 == OutNums'
<1>1. f \in [Keys -> Seq(Nat)] /\ QueuesAtRest /\ OwnNames(given, f)
  BY DEF Inductive, Apart, Names
<1>2. PICK k \in Keys : x \in Range(f[k]) /\ x \notin Range(f2[k])
  BY InProgressIsWaiting DEF Waiting
<1>3. Put
  BY <1>2, NumsStay DEF Next
<1>4. KeysMove(f, f2, e, n) /\ Last(given') = e /\ n \in Nat
  BY <1>1, <1>3, PutMoves
<1>5. Keyed(Keys, f, f2, out, out2, n)
  <2>1. PutKeeps
    BY <1>1, <1>3, PutKeepsAll
  <2> QED
    BY <2>1 DEF PutKeeps
<1>6. \/ out2 = Append(out, Append(f[k], n))
      \/ IsFirst(e) /\ GroupOf(e) = GroupOf(given[x])
  <2> DEFINE g == given
  <2> HIDE DEF n, f, f2, e, out, out2, g
  <2>1. Leaves(x, k, g, e, n, f, f2, out, out2)
    BY <1>1, <1>2, <1>4, <1>5 DEF Leaves, g
  <2>2. \/ out2 = Append(out, Append(f[k], n))
        \/ IsFirst(e) /\ GroupOf(e) = GroupOf(g[x])
    BY <2>1, LeavesBy
  <2> QED
    BY <2>2 DEF g
<1>7. ASSUME out2 = Append(out, Append(f[k], n))
      PROVE  \E i \in DOMAIN Output' : x \in Range(Output'[i].line_nums)
  <2> DEFINE own == Append(f[k], n)
  <2>1. x \in Range(own)
    <3>1. f[k] \in Seq(Nat)
      BY <1>1
    <3> HIDE DEF f, n
    <3> QED
      BY <1>2, <1>4, <3>1, RangeOfAppend
  <2>2. /\ out2 = [i \in DOMAIN Output' |-> Output'[i].line_nums]
        /\ out = [i \in DOMAIN Output |-> Output[i].line_nums]
    BY DEF OutNums, NumsOf
  <2>3. Len(out) \in Nat /\ out = [i \in 1 .. Len(out) |-> out[i]]
    <3> DEFINE S == Range(taken) \cup Range(queue)
    <3>1. taken \in Seq(S) /\ queue \in Seq(S)
      BY <1>1 DEF QueuesAtRest, OwnSeq
    <3> HIDE DEF S
    <3>2. DOMAIN Output = 1 .. Len(taken) + Len(queue) /\ Len(taken) + Len(queue) \in Nat
      BY <3>1 DEF Output
    <3> HIDE DEF out
    <3> QED
      BY <2>2, <3>2
  <2> HIDE DEF own, out, out2
  <2>4. Len(out) + 1 \in DOMAIN out2 /\ out2[Len(out) + 1] = own
    <3> DEFINE R == {out[i] : i \in 1 .. Len(out)} \cup {own}
    <3>1. out \in Seq(R) /\ own \in R
      BY <2>3
    <3> HIDE DEF R
    <3> QED
      BY <1>7, <3>1 DEF own
  <2> QED
    BY <2>1, <2>2, <2>4
<1> QED
  BY <1>4, <1>6, <1>7

(* What waits is kept until it comes out: of any lines, only a first line  *)
(* of the same group takes the place of what waits there                   *)
(* (self.groups[...] = [...] and groups.pop, in three places).             *)
THEOREM WaitingIsKept == Spec => KeptUntilFinished
<1>1. Init => Inductive /\ Content /\ Names
  BY InitAssembles, InitContent, InitNames
<1>2. Inductive /\ Content /\ Names /\ [Next]_vars => Inductive' /\ Content' /\ Names'
  <2> SUFFICES ASSUME Inductive, Content, Names, [Next]_vars
               PROVE  Inductive' /\ Content' /\ Names'
    OBVIOUS
  <2>1. Inductive'
    BY PutAssembles, GetAssembles, QueueStutters DEF Next
  <2>2. Content' /\ Names'
    BY ContentStays, NamesStay DEF Inductive
  <2> QED
    BY <2>1, <2>2
<1>3. Inductive /\ Content /\ Names /\ [Next]_vars =>
        [\A n \in InProgress \ InProgress' :
           \/ \E i \in DOMAIN Output' : n \in Range(Output'[i].line_nums)
           \/ /\ IsFirst(Last(given'))
              /\ GroupOf(Last(given')) = GroupOf(given[n])]_vars
  BY KeptByStep
<1> QED
  BY <1>1, <1>2, <1>3, PTL DEF Spec, KeptUntilFinished

-----------------------------------------------------------------------------
(* NmeaFile: a call returns the message its last line completes, for every *)
(* file.                                                                   *)

(* At most the message of the line just put is in the queue. *)
QueueDrained ==
  /\ at \in {"caller", "put", "get"}
  /\ queue # << >> => /\ at = "get"
                      /\ \E m : queue = << m >> /\ Last(m.line_nums) = line_num

FileInductive == Inductive /\ QueueDrained

LEMMA PutToQueue ==
  ASSUME Put
  PROVE  /\ taken' = taken
         /\ raised' => queue' = queue
         /\ queue' = queue \/ \E m : queue' = Append(queue, m)
<1>1. CASE \E line \in TextLines : PutTextLine(line)
  BY <1>1 DEF PutTextLine, Count
<1>2. CASE \E line \in BareLines : PutBareLine(line)
  <2>1. PICK line \in BareLines : PutBareLine(line)
    BY <1>2
  <2> DEFINE after == PutBare(bare_queue, line, line_num + 1)
  <2>2. Pass(after) /\ taken' = taken
    BY <2>1 DEF PutBareLine, Count
  <2> HIDE DEF after
  <2> QED
    BY <2>2 DEF Pass
<1>3. CASE \E line \in TagLines : PutTagLine(line)
  <2>1. PICK line \in TagLines : PutTagLine(line)
    BY <1>3
  <2> DEFINE after == PutTag(tagb_queue, line, line_num + 1)
  <2>2. Pass(after) /\ taken' = taken
    BY <2>1 DEF PutTagLine, Count
  <2> HIDE DEF after
  <2> QED
    BY <2>2 DEF Pass
<1>4. CASE \E line \in UscgLines : PutUscgLine(line)
  <2>1. PICK line \in UscgLines : PutUscgLine(line)
    BY <1>4
  <2> DEFINE after == PutUscg(uscg_queue, line, line_num + 1)
  <2>2. Pass(after) /\ taken' = taken
    BY <2>1 DEF PutUscgLine, Count
  <2> HIDE DEF after
  <2> QED
    BY <2>2 DEF Pass
<1> QED
  BY <1>1, <1>2, <1>3, <1>4 DEF Put

LEMMA AppendsEqual ==
  ASSUME NEW S, NEW s \in Seq(S), NEW a \in S, NEW b \in S, Append(s, a) = Append(s, b)
  PROVE  a = b
<1>1. Append(s, a)[Len(s) + 1] = a /\ Append(s, b)[Len(s) + 1] = b
  OBVIOUS
<1> QED
  BY <1>1

(* A message put into an empty queue ends with the line that was put. *)
LEMMA NewMessageEndsHere ==
  ASSUME Inductive, Put, NEW m, queue' = Append(queue, m)
  PROVE  Last(m.line_nums) = line_num + 1
<1>1. OwnSeq(taken) /\ OwnSeq(queue) /\ line_num \in Nat /\ Apart(NumsAt, Keys, line_num)
  BY DEF Inductive, QueuesAtRest
<1>2. Keyed(Keys, NumsAt, NumsAt', OutNums, OutNums', line_num + 1)
  BY PutKeepsAll DEF Inductive, PutKeeps
<1>3. OutNums' = Append(OutNums, m.line_nums)
  <2>1. MessageAppended(taken, queue, m)
    BY <1>1, NumsOfAppend
  <2>2. Output = taken \o queue /\ Output' = taken \o Append(queue, m)
    BY PutToQueue DEF Output
  <2>3. OutNums = NumsOf(Output) /\ OutNums' = NumsOf(Output')
    BY DEF OutNums, NumsOf
  <2> QED
    BY <2>1, <2>2, <2>3 DEF MessageAppended
<1>4. \E T : OutNums \in Seq(T)
  <2> DEFINE T == {Output[i].line_nums : i \in DOMAIN Output}
             S == Range(taken) \cup Range(queue)
  <2>1. taken \in Seq(S) /\ queue \in Seq(S)
    BY <1>1 DEF OwnSeq
  <2> HIDE DEF S
  <2>2. Output \in Seq(S)
    BY <2>1 DEF Output
  <2>3. DOMAIN Output = 1 .. Len(Output) /\ Len(Output) \in Nat
    BY <2>2
  <2>4. OutNums \in Seq(T)
    BY <2>3 DEF OutNums, NumsOf
  <2> QED
    BY <2>4
<1>5. PICK T : OutNums \in Seq(T)
  BY <1>4
<1>6. \E nums \in Seq(Nat) : OutNums' = Append(OutNums, Append(nums, line_num + 1))
  <2>1. OutNums' # OutNums
    <3>1. Len(OutNums) \in Nat
      BY <1>5
    <3> DEFINE U == T \cup {m.line_nums}
    <3>2. OutNums \in Seq(U) /\ m.line_nums \in U
      BY <1>5
    <3> HIDE DEF U
    <3>3. Len(OutNums') = Len(OutNums) + 1
      BY <1>3, <3>2
    <3> QED
      BY <3>1, <3>3
  <2>2. \A k \in Keys : NumsAt[k] \in Seq(Nat)
    BY <1>1 DEF Apart
  <2>3. << >> \in Seq(Nat) /\ Append(<< >>, line_num + 1) = << line_num + 1 >>
    OBVIOUS
  <2>4. CASE OutNums' = Append(OutNums, << line_num + 1 >>)
    BY <2>3, <2>4
  <2>5. CASE \E k \in Keys : OutNums' = Append(OutNums, Append(NumsAt[k], line_num + 1))
    BY <2>2, <2>5
  <2> QED
    BY <1>2, <2>1, <2>4, <2>5 DEF Keyed
<1>7. PICK nums \in Seq(Nat) : OutNums' = Append(OutNums, Append(nums, line_num + 1))
  BY <1>6
<1>8. m.line_nums = Append(nums, line_num + 1)
  <2> DEFINE a == m.line_nums
             b == Append(nums, line_num + 1)
             U == T \cup {a, b}
  <2>1. OutNums \in Seq(U) /\ a \in U /\ b \in U
    BY <1>5
  <2>2. Append(OutNums, a) = Append(OutNums, b)
    BY <1>3, <1>7
  <2> HIDE DEF a, b, U
  <2>3. a = b
    BY <2>1, <2>2, AppendsEqual
  <2> QED
    BY <2>3 DEF a, b
<1>9. Last(Append(nums, line_num + 1)) = line_num + 1
  BY <1>1 DEF Last
<1> QED
  BY <1>8, <1>9

LEMMA PutNextLineKeeps ==
  ASSUME FileInductive, PutNextLine
  PROVE  FileInductive' /\ taken' = taken
<1>1. at = "put" /\ Put /\ queue = << >>
  BY DEF PutNextLine, FileInductive, QueueDrained
<1>2. Inductive' /\ line_num' = line_num + 1
  BY <1>1, PutAssembles, PutKeepsAll DEF FileInductive, Inductive, PutKeeps
<1>3. CASE queue' = queue
  BY <1>1, <1>2, <1>3, PutToQueue DEF PutNextLine, EndCall, FileInductive, QueueDrained
<1>4. CASE \E m : queue' = Append(queue, m)
  <2>1. PICK m : queue' = Append(queue, m)
    BY <1>4
  <2>2. Last(m.line_nums) = line_num'
    BY <1>1, <1>2, <2>1, NewMessageEndsHere DEF FileInductive
  <2>3. queue' = << m >>
    <3>1. << >> \in Seq({m}) /\ m \in {m}
      OBVIOUS
    <3> QED
      BY <1>1, <2>1, <3>1
  <2>4. ~ raised'
    <3>1. << m >> # << >>
      OBVIOUS
    <3> QED
      BY <1>1, <2>3, <3>1, PutToQueue
  <2>5. at' = "get"
    BY <2>4 DEF PutNextLine
  <2>6. QueueDrained'
    BY <2>2, <2>3, <2>5 DEF QueueDrained
  <2> QED
    BY <1>1, <1>2, <2>6, PutToQueue DEF FileInductive
<1> QED
  BY <1>1, <1>3, <1>4, PutToQueue

LEMMA ReturnMessageKeeps ==
  ASSUME FileInductive, ReturnMessage
  PROVE  /\ FileInductive'
         /\ at = "get" /\ Last(Last(taken').line_nums) = line_num
<1>1. /\ Get /\ at = "get" /\ at' = "caller"
      /\ queue # << >> /\ queue' = Tail(queue) /\ taken' = Append(taken, Head(queue))
  BY DEF ReturnMessage, Get, EndCall
<1>2. PICK m : queue = << m >> /\ Last(m.line_nums) = line_num
  BY <1>1 DEF FileInductive, QueueDrained
<1>3. Head(queue) = m /\ queue' = << >>
  <2>1. << m >> \in Seq({m})
    OBVIOUS
  <2> QED
    BY <1>1, <1>2, <2>1
<1>4. Last(taken') = m
  <2> DEFINE S == Range(taken) \cup {m}
  <2>1. taken \in Seq(S) /\ m \in S
    BY DEF FileInductive, Inductive, QueuesAtRest, OwnSeq
  <2> HIDE DEF S
  <2>2. taken' = Append(taken, m)
    BY <1>1, <1>3
  <2>3. Last(Append(taken, m)) = m
    BY <2>1 DEF Last
  <2> QED
    BY <2>2, <2>3
<1>5. Inductive'
  BY <1>1, GetAssembles DEF FileInductive
<1> QED
  BY <1>1, <1>2, <1>3, <1>4, <1>5 DEF FileInductive, QueueDrained

(* All other steps of a call or of its caller leave the queues alone. *)
LEMMA OthersKeep ==
  ASSUME FileInductive,
         CallNext \/ Stop \/ Refuse \/ ReadOn \/ Close \/ Exit \/ UNCHANGED fileVars
  PROVE  FileInductive' /\ taken' = taken
<1>1. UNCHANGED vars
  BY DEF CallNext, Stop, Refuse, ReadOn, Close, Exit, fileVars
<1>2. Inductive'
  BY <1>1, QueueStutters DEF FileInductive
<1>3. queue' = queue /\ line_num' = line_num /\ taken' = taken
  BY <1>1 DEF vars
<1>4. CASE queue = << >>
  BY <1>2, <1>3, <1>4 DEF FileInductive, QueueDrained, CallNext, Stop, Refuse, ReadOn,
                          Close, Exit, EndCall, fileVars
<1>5. CASE queue # << >>
  <2>1. at = "get"
    BY <1>5 DEF FileInductive, QueueDrained
  <2>2. at' = at
    BY <1>5, <2>1 DEF CallNext, Stop, Refuse, ReadOn, Close, Exit, fileVars
  <2> QED
    BY <1>2, <1>3, <2>2 DEF FileInductive, QueueDrained
<1> QED
  BY <1>4, <1>5

(* A message is returned by the call that has read its last line, before   *)
(* any other line is read (NmeaFile.next).                                 *)
THEOREM FileReturnsAtOnce == FileSpec => ReturnedAtOnce
<1> DEFINE AtOnce == Len(taken') > Len(taken) =>
                       /\ at = "get"
                       /\ Last(Last(taken').line_nums) = line_num
<1>1. FileInit => FileInductive
  BY InitAssembles DEF FileInit, FileInductive, QueueDrained, Init
<1>2. FileInductive /\ [FileNext]_fileVars => FileInductive' /\ AtOnce
  <2> SUFFICES ASSUME FileInductive, [FileNext]_fileVars
               PROVE  FileInductive' /\ AtOnce
    OBVIOUS
  <2>1. Len(taken) \in Nat
    BY DEF FileInductive, Inductive, QueuesAtRest, OwnSeq
  <2>2. ASSUME taken' = taken PROVE AtOnce
    BY <2>1, <2>2
  <2>3. CASE PutNextLine
    BY <2>2, <2>3, PutNextLineKeeps
  <2>4. CASE ReturnMessage
    BY <2>4, ReturnMessageKeeps
  <2>5. CASE CallNext \/ Stop \/ Refuse \/ ReadOn \/ Close \/ Exit \/ UNCHANGED fileVars
    BY <2>2, <2>5, OthersKeep
  <2> QED
    BY <2>3, <2>4, <2>5 DEF FileNext, Reading
<1>3. FileInductive /\ [FileNext]_fileVars => [AtOnce]_fileVars
  BY <1>2
<1> QED
  BY <1>1, <1>2, <1>3, PTL DEF FileSpec, ReturnedAtOnce

=============================================================================
