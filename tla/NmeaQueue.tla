------------------------------ MODULE NmeaQueue ------------------------------
(***************************************************************************)
(* ais.nmea_queue.NmeaQueue (src/ais/nmea_queue.py) with the three queues  *)
(* it owns.  put() gives a line to the queue of its type and moves at most *)
(* one message of that queue into its own; get() takes the oldest.  put()  *)
(* may end in an exception, which the caller may survive.                  *)
(*                                                                         *)
(* given and taken are history: the lines put so far and the messages got. *)
(***************************************************************************)
EXTENDS GroupQueues

CONSTANTS
  TextLines,  \* lines of no NMEA form
  BareLines,  \* lines that are one NMEA sentence
  TagLines,   \* lines that start with a TAG block
  UscgLines,  \* lines with USCG metadata after the checksum
  MaxLines    \* bound on the number of puts

ASSUME LinesOfTheirTypes == /\ BareLines \subseteq RawLine
                            /\ TagLines \subseteq TagLine
                            /\ UscgLines \subseteq UscgLine
                            /\ MaxLines \in Nat

(* DecodeLine has no handler for a payload that looks like a VDM sentence. *)
ASSUME NoHandlerOfVdm == \A t \in TagLines : t.looks => t.vdm \notin HandlerErrors

(* VDM_RE: (?P<seq_id>[0-9])? *)
SequenceIds == {<< >>} \cup {<< id >> : id \in SequenceNumbers}

ASSUME SequenceIdsAreDigits ==
  \A l \in BareLines \cup {t.vdm : t \in TagLines \cup UscgLines} :
    l.seq \in SequenceIds

VARIABLES
  line_num,    \* number of the last line
  bare_queue,  \* BareQueue
  tagb_queue,  \* TagQueue: groups by the id of the g field
  uscg_queue,  \* UscgQueue: groups by station and sequence number
  queue,       \* messages of the NmeaQueue itself, the oldest first
  raised,      \* whether the last put ended in an exception
  given,       \* history
  taken        \* history

vars == << line_num, bare_queue, tagb_queue, uscg_queue, queue, raised,
           given, taken >>

GroupIds == {l.group[1].id : l \in {t \in TagLines : t.group # << >>}}

StationIds == {StationId(l) : l \in UscgLines}

Init ==
  /\ line_num = 0
  /\ bare_queue = NewBareQueue
  /\ tagb_queue = NewGroupQueue(GroupIds)
  /\ uscg_queue = NewGroupQueue(StationIds)
  /\ queue = << >>
  /\ raised = FALSE
  /\ given = << >>
  /\ taken = << >>

Count(type, line) ==
  /\ line_num < MaxLines
  /\ line_num' = line_num + 1
  /\ given' = Append(given, [type |-> type, line |-> line])
  /\ UNCHANGED taken

(* Mutant of Pass: the newest message goes first. *)
PassInFront(after) ==
  /\ raised' = after.raised
  /\ queue' = IF after.raised \/ after.ready = << >>
              THEN queue
              ELSE << Head(after.ready) >> \o queue

(* Mutant of Pass: what is not decoded is held to be no message. *)
PassDecoded(after) ==
  /\ raised' = after.raised
  /\ queue' = IF after.raised \/ after.ready = << >>
              THEN queue
              ELSE queue \o SelectSeq(after.ready, LAMBDA m : m.decoded # << >>)

(* GetOrNone on the queue of the line's type, and put of what it gave.     *)
(* after is that queue once its own put is done; an exception goes past.   *)
Pass(after) ==
  /\ raised' = after.raised
  /\ queue' = IF after.raised \/ after.ready = << >>
              THEN queue
              ELSE Append(queue, Head(after.ready))

Rest(after) ==
  IF after.raised
  THEN [after EXCEPT !.raised = FALSE]
  ELSE [after EXCEPT !.ready = SubSeq(@, 2, Len(@))]

PutTextLine(line) ==
  /\ Count("TEXT", line)
  /\ queue' = Append(queue, [line_nums |-> << line_num' >>, decoded |-> << >>])
  /\ raised' = FALSE
  /\ UNCHANGED << bare_queue, tagb_queue, uscg_queue >>

PutBareLine(line) ==
  LET after == PutBare(bare_queue, line, line_num + 1) IN
  /\ Count("BARE", line)
  /\ Pass(after)
  /\ bare_queue' = Rest(after)
  /\ UNCHANGED << tagb_queue, uscg_queue >>

PutTagLine(line) ==
  LET after == PutTag(tagb_queue, line, line_num + 1) IN
  /\ Count("TAGB", line)
  /\ Pass(after)
  /\ tagb_queue' = Rest(after)
  /\ UNCHANGED << bare_queue, uscg_queue >>

PutUscgLine(line) ==
  LET after == PutUscg(uscg_queue, line, line_num + 1) IN
  /\ Count("USCG", line)
  /\ Pass(after)
  /\ uscg_queue' = Rest(after)
  /\ UNCHANGED << bare_queue, tagb_queue >>

Get ==
  /\ queue # << >>
  /\ queue' = Tail(queue)
  /\ taken' = Append(taken, Head(queue))
  /\ UNCHANGED << line_num, bare_queue, tagb_queue, uscg_queue, raised, given >>

Put ==
  \/ \E line \in TextLines : PutTextLine(line)
  \/ \E line \in BareLines : PutBareLine(line)
  \/ \E line \in TagLines : PutTagLine(line)
  \/ \E line \in UscgLines : PutUscgLine(line)

Next == Put \/ Get

Spec == Init /\ [][Next]_vars

-----------------------------------------------------------------------------

QueueType(q, part) ==
  /\ \A id \in DOMAIN q.groups : q.groups[id] \in Seq(part)
  /\ q.ready \in Seq(QueuedMessage)
  /\ q.raised = FALSE

GroupPart == [vdm      : {l \in RawLine : l.seq \in SequenceIds},
              looks    : BOOLEAN,
              line_num : Int]

TypeOK ==
  /\ line_num \in Nat
  /\ QueueType(bare_queue, Part) /\ DOMAIN bare_queue.groups = SequenceNumbers
  /\ QueueType(tagb_queue, GroupPart) /\ DOMAIN tagb_queue.groups = GroupIds
  /\ QueueType(uscg_queue, GroupPart) /\ DOMAIN uscg_queue.groups = StationIds
  /\ queue \in Seq(QueuedMessage)
  /\ raised \in BOOLEAN
  /\ Len(given) = line_num
  /\ taken \in Seq(QueuedMessage)

Output == taken \o queue

Pending == {bare_queue.groups[id] : id \in SequenceNumbers}
             \cup {tagb_queue.groups[id] : id \in GroupIds}
             \cup {uscg_queue.groups[id] : id \in StationIds}

(* The VDM sentence of a line given, framed or not. *)
VdmOf(n) == IF given[n].type = "BARE" THEN given[n].line ELSE given[n].line.vdm

(* A line is in at most one message, and not in a group as well, across    *)
(* all three queues and whatever was raised in between (groups.pop after   *)
(* put, in three places).                                                  *)
EachLineOnce ==
  /\ \A i, j \in DOMAIN Output :
       i # j => Range(Output[i].line_nums) \cap Range(Output[j].line_nums) = {}
  /\ \A i \in DOMAIN Output : \A parts \in Pending :
       Range(Output[i].line_nums) \cap Range(LineNums(parts)) = {}

(* Messages come out in the order of the lines that completed them, though *)
(* three queues feed one, and the lines of a message are in their order.   *)
InLineOrder ==
  /\ \A i, j \in DOMAIN Output :
       i < j => Last(Output[i].line_nums) < Last(Output[j].line_nums)
  /\ \A i \in DOMAIN Output :
       LET nums == Output[i].line_nums IN
       \A a, b \in DOMAIN nums : a < b => nums[a] < nums[b]

(* These lines of a message make one AIS payload: numbers 1..n, one        *)
(* sequence number, n the total of the last.                               *)
WholeMessage(nums, decoded) ==
  LET n == Len(nums) IN
  /\ \A i \in 1 .. n : VdmOf(nums[i]).framed
  /\ n > 1 => \A i \in 1 .. n : /\ VdmOf(nums[i]).number = i
                               /\ VdmOf(nums[i]).seq = VdmOf(nums[1]).seq
  /\ VdmOf(nums[n]).total = n
  /\ decoded = [i \in 1 .. n |-> VdmOf(nums[i]).body]

(* What is decoded is the payload of lines of that very message, in their  *)
(* order: all of them for bare NMEA, some of them for a TAG block or USCG  *)
(* group, whose lines are collected unordered (BareQueue.put,              *)
(* DecodeTagMultiple, uscg.DecodeMultiple).                                *)
DecodedFromOwnLines ==
  \A i \in DOMAIN Output :
    LET nums == Output[i].line_nums
        decoded == Output[i].decoded
    IN
    decoded # << >> =>
      \E at \in [DOMAIN decoded -> DOMAIN nums] :
        /\ \A k, l \in DOMAIN at : k < l => at[k] < at[l]
        /\ given[nums[1]].type = "BARE" => Len(decoded) = Len(nums)
        /\ WholeMessage([k \in DOMAIN at |-> nums[at[k]]], decoded)

(* Lines that are not part of anything larger and on which put does not    *)
(* raise: text, NMEA that is no VDM, TAG blocks without a group.           *)
PassesThrough(n) ==
  LET l == given[n] IN
  \/ l.type = "TEXT"
  \/ l.type = "BARE" /\ ~ l.line.framed /\ l.line \notin HandlerErrors
  \/ /\ l.type = "TAGB" /\ ~ l.line.no_checksum
     /\ l.line.parsed => l.line.group = << >> /\ l.line.vdm \notin HandlerErrors
  \/ l.type = "USCG" /\ ~ l.line.vdm.framed

(* Numbers of the bare multi-line lines of a sequence number. *)
BareUnder(seq) ==
  {n \in DOMAIN given : /\ given[n].type = "BARE"
                        /\ given[n].line.framed /\ given[n].line.total # 1
                        /\ given[n].line.seq = << seq >>}

(* at lists the last ones of a set of lines, from at[1] on, in order. *)
AreLast(at, S) ==
  /\ \A i, j \in DOMAIN at : i < j => at[i] < at[j]
  /\ Range(at) = {n \in S : n >= at[1]}

BodiesAt(at) == [i \in DOMAIN at |-> given[at[i]].line.body]

(* When the last lines of a sequence number are 1..n and decode, they have *)
(* come out as one message: no group left over from an earlier message,    *)
(* undecodable ones included, gets in the way (BareQueue.put).             *)
BareGroupComesOut ==
  \A seq \in SequenceNumbers, n \in 2 .. line_num :
    \A at \in [1 .. n -> BareUnder(seq)] :
      (/\ AreLast(at, BareUnder(seq))
       /\ \A i \in 1 .. n : /\ given[at[i]].line.number = i
                            /\ given[at[i]].line.total = n
       /\ BodiesAt(at) \notin DecodeErrors)
      => \E i \in DOMAIN Output :
           Output[i] = [line_nums |-> at, decoded |-> BodiesAt(at)]

(* Lines that wait for the rest of their group. *)
InProgress == UNION {Range(LineNums(parts)) : parts \in Pending}

(* The queue, type errors and all, does no more than assemble lines: see   *)
(* LineAssembly.  No line is used twice, none comes back, and no message   *)
(* is made later than its last line.                                       *)
Assembly ==
  INSTANCE LineAssembly WITH
    now <- line_num,
    pool <- InProgress,
    out <- [i \in DOMAIN Output |-> Output[i].line_nums]

AssemblesLines == Assembly!Spec

(* The group of a line: none for lines that are not part of one. *)
GroupOf(given_line) ==
  LET l == given_line.line IN
  CASE given_line.type = "BARE" -> << "BARE", l.seq >>
    [] given_line.type = "TAGB" -> << "TAGB", l.group[1].id >>
    [] given_line.type = "USCG" -> << "USCG", StationId(l) >>

IsFirst(given_line) ==
  LET l == given_line.line IN
  CASE given_line.type = "BARE" -> l.number = 1
    [] given_line.type = "TAGB" -> l.group # << >> /\ l.group[1].number = 1
    [] given_line.type = "USCG" -> l.vdm.number = 1
    [] given_line.type = "TEXT" -> FALSE

(* A line that waits stays until it comes out with its message: what costs *)
(* it its place is a first line of the same group and nothing else, no     *)
(* line out of turn, no other group, no exception in put (self.groups[...] *)
(* = [...] and groups.pop, in three places).  What waits at the end of a   *)
(* file is lost (io.py).                                                   *)
KeptUntilFinished ==
  [][\A n \in InProgress \ InProgress' :
       \/ \E i \in DOMAIN Output' : n \in Range(Output'[i].line_nums)
       \/ /\ IsFirst(Last(given'))
          /\ GroupOf(Last(given')) = GroupOf(given[n])]_vars

=============================================================================
