------------------------------ MODULE BareQueue ------------------------------
(***************************************************************************)
(* ais.vdm.BareQueue (src/ais/vdm.py) as operators on its state: the       *)
(* Python queue is used alone, inside NmeaQueue and, freshly made, to      *)
(* decode the lines of one TAG block or USCG group.                        *)
(*                                                                         *)
(* A line is the RawLine of NmeaSentence, "framed" meaning here that       *)
(* vdm.Parse finds a VDM sentence with a correct checksum in it.  VDM_RE   *)
(* also takes a missing channel and any digit for the counters.            *)
(***************************************************************************)
EXTENDS NmeaSentence

CONSTANTS
  DecodeErrors,  \* bodies for which ais.decode raises DecodeError
  HandlerErrors  \* other lines for which nmea_messages.DecodeLine raises

ASSUME DecodeErrorsAreBodies == DecodeErrors \subseteq Seq(Chunks)
ASSUME HandlerErrorsAreOther ==
  \A line \in HandlerErrors : line \in RawLine /\ ~ line.framed

(* One line of a group: what the lists 'matches' and 'line_nums' hold.     *)
Part == [line : RawLine, line_num : Int]

(* A queued dict.  decoded is << >> when the dict has no AIS 'decoded'.    *)
QueuedMessage == [line_nums : Seq(Int), decoded : Seq(Chunks)]

(* groups[id] = << >> stands for id not in self.groups; raised says that   *)
(* the last put ended in an exception.                                     *)
NewBareQueue == [groups |-> [id \in SequenceNumbers |-> << >>],
                 ready  |-> << >>,
                 raised |-> FALSE]

PartBodies(parts) == [i \in DOMAIN parts |-> parts[i].line.body]
LineNums(parts) == [i \in DOMAIN parts |-> parts[i].line_num]

Enqueue(q, line_nums, decoded) ==
  [q EXCEPT !.ready = Append(@, [line_nums |-> line_nums, decoded |-> decoded])]

(* Mutant of PassThrough: the line number is taken for decoded content. *)
PassNumber(q, line_num) == Enqueue(q, << line_num >>, << line_num >>)

(* Passed through without AIS content. *)
PassThrough(q, line_num) == Enqueue(q, << line_num >>, << >>)

(* Not a VDM line.  DecodeLine may know the sentence, and its handler      *)
(* raise: float(None) where the expression for the line lets the time be   *)
(* empty, as in $GPZDA,,,,,,*48.  Only AttributeError is caught.           *)
PassOther(q, line, line_num) ==
  IF line \in HandlerErrors
  THEN [q EXCEPT !.raised = TRUE]
  ELSE PassThrough(q, line_num)

DecodeSingle(q, part) ==
  IF << part.line.body >> \in DecodeErrors
  THEN q
  ELSE Enqueue(q, << part.line_num >>, << part.line.body >>)

(* Mutant of StartGroup: a group that is there is kept. *)
StartIfNone(q, id, part) ==
  IF q.groups[id] = << >> THEN [q EXCEPT !.groups[id] = << part >>] ELSE q

(* A first line takes the place of a group that is still there. *)
StartGroup(q, id, part) == [q EXCEPT !.groups[id] = << part >>]

(* The last line of a group has been appended: a group that does not       *)
(* decode stays where it is.                                               *)
FinishGroup(q, id, parts) ==
  IF PartBodies(parts) \in DecodeErrors
  THEN [q EXCEPT !.groups[id] = parts]
  ELSE Enqueue([q EXCEPT !.groups[id] = << >>], LineNums(parts), PartBodies(parts))

(* Mutant of ContinueGroup: the length test is missing. *)
ContinueUnordered(q, id, part) ==
  LET parts == Append(q.groups[id], part) IN
  CASE q.groups[id] = << >> -> q
    [] q.groups[id] # << >> /\ part.line.number # part.line.total ->
         [q EXCEPT !.groups[id] = parts]
    [] q.groups[id] # << >> /\ part.line.number = part.line.total ->
         FinishGroup(q, id, parts)

(* Mutant of ContinueGroup: a line out of turn ends its group, as in       *)
(* VdmStream.                                                              *)
ContinueOrClear(q, id, part) ==
  LET InTurn == /\ q.groups[id] # << >>
                /\ Len(q.groups[id]) = part.line.number - 1
      parts  == Append(q.groups[id], part)
  IN
  CASE ~ InTurn -> [q EXCEPT !.groups[id] = << >>]
    [] InTurn /\ part.line.number # part.line.total ->
         [q EXCEPT !.groups[id] = parts]
    [] InTurn /\ part.line.number = part.line.total ->
         FinishGroup(q, id, parts)

(* A later line counts only if its group is there and exactly the lines    *)
(* before it are: "Do not have the prior lines", "Out of sequence".        *)
ContinueGroup(q, id, part) ==
  LET InTurn == /\ q.groups[id] # << >>
                /\ Len(q.groups[id]) = part.line.number - 1
      parts  == Append(q.groups[id], part)
  IN
  CASE ~ InTurn -> q
    [] InTurn /\ part.line.number # part.line.total ->
         [q EXCEPT !.groups[id] = parts]
    [] InTurn /\ part.line.number = part.line.total ->
         FinishGroup(q, id, parts)

PutMultiLine(q, part) ==
  IF part.line.seq = << >>
  THEN [q EXCEPT !.raised = TRUE]        \* int(None): TypeError
  ELSE IF part.line.number = 1
       THEN StartGroup(q, part.line.seq[1], part)
       ELSE ContinueGroup(q, part.line.seq[1], part)

(* BareQueue.put(line, line_num) *)
PutBare(q, line, line_num) ==
  LET part == [line |-> line, line_num |-> line_num] IN
  CASE ~ line.framed -> PassOther(q, line, line_num)
    [] line.framed /\ line.total = 1 -> DecodeSingle(q, part)
    [] line.framed /\ line.total # 1 -> PutMultiLine(q, part)

=============================================================================
