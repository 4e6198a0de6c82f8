----------------------------- MODULE GroupQueues -----------------------------
(***************************************************************************)
(* ais.tag_block.TagQueue and ais.uscg.UscgQueue as operators on their     *)
(* state.  Both collect the lines of a group without looking at their      *)
(* order, and decode a finished group with a BareQueue made for it.        *)
(***************************************************************************)
EXTENDS BareQueue

(* What a line with metadata says.  no_checksum: TAG_BLOCK_RE finds a TAG  *)
(* block that is not followed by a checksum; parsed: it finds one with     *)
(* the right checksum.  group is the "g" field of a TAG block, vdm what    *)
(* vdm.Parse makes of the payload, looks whether the payload starts like a *)
(* VDM sentence at all (VdmLines).                                         *)
TagLine == [no_checksum : BOOLEAN,
            parsed : BOOLEAN,
            group  : {<< >>} \cup Seq([number : Nat, total : Nat, id : Nat]),
            vdm    : RawLine,
            looks  : BOOLEAN]

UscgLine == [station : STRING, vdm : RawLine]

NewGroupQueue(ids) == [groups |-> [id \in ids |-> << >>],
                       ready  |-> << >>,
                       raised |-> FALSE]

(* VdmLines over the payloads of a group, and put of each: what does not   *)
(* look like a VDM sentence is left out, nothing follows an exception.     *)
PutPayload(q, part) ==
  IF q.raised \/ ~ part.looks THEN q ELSE PutBare(q, part.vdm, 0)

(* DecodeTagMultiple and uscg.DecodeMultiple: the lines go through a new   *)
(* BareQueue.  A single message without 'decoded' is a KeyError.           *)
DecodeMultiple(parts) ==
  LET after[k \in 0 .. Len(parts)] ==
        IF k = 0 THEN NewBareQueue ELSE PutPayload(after[k - 1], parts[k])
      q == after[Len(parts)]
      only == Len(q.ready) = 1
  IN
  [raised  |-> q.raised \/ (only /\ q.ready[1].decoded = << >>),
   decoded |-> IF only THEN q.ready[1].decoded ELSE << >>]

(* Mutant of FinishLines: groups.pop is missing. *)
FinishLinesKeeps(q, id, parts) ==
  LET result == DecodeMultiple(parts) IN
  IF result.raised
  THEN [q EXCEPT !.groups[id] = parts, !.raised = TRUE]
  ELSE Enqueue([q EXCEPT !.groups[id] = parts], LineNums(parts), result.decoded)

(* A finished group comes out, decoded or not, unless decoding raises:     *)
(* then it stays, with the line that finished it.                          *)
FinishLines(q, id, parts) ==
  LET result == DecodeMultiple(parts) IN
  IF result.raised
  THEN [q EXCEPT !.groups[id] = parts, !.raised = TRUE]
  ELSE Enqueue([q EXCEPT !.groups[id] = << >>], LineNums(parts), result.decoded)

(* A line that is not the first is taken if its group is there, whatever   *)
(* its number.                                                             *)
JoinGroup(q, id, number, total, part) ==
  LET parts == Append(q.groups[id], part) IN
  CASE number = 1 -> [q EXCEPT !.groups[id] = << part >>]
    [] number # 1 /\ q.groups[id] = << >> -> q
    [] number # 1 /\ q.groups[id] # << >> /\ number # total ->
         [q EXCEPT !.groups[id] = parts]
    [] number # 1 /\ q.groups[id] # << >> /\ number = total ->
         FinishLines(q, id, parts)

DecodeTagSingle(vdm) ==
  IF vdm.framed /\ vdm.total = 1 /\ << vdm.body >> \notin DecodeErrors
  THEN << vdm.body >>
  ELSE << >>

(* A line outside a group comes out, decoded or not, unless its handler    *)
(* raises.                                                                 *)
PutTagSingle(q, vdm, line_num) ==
  IF vdm \in HandlerErrors
  THEN [q EXCEPT !.raised = TRUE]
  ELSE Enqueue(q, << line_num >>, DecodeTagSingle(vdm))

(* TagQueue.put.  Parse takes upper() of the checksum: of None, if there   *)
(* is none.                                                                *)
PutTag(q, line, line_num) ==
  LET alone == line.group = << >>
      g == line.group[1]
      part == [vdm |-> line.vdm, looks |-> line.looks, line_num |-> line_num]
  IN
  CASE line.no_checksum -> [q EXCEPT !.raised = TRUE]
    [] ~ line.no_checksum /\ ~ line.parsed -> PassThrough(q, line_num)
    [] ~ line.no_checksum /\ line.parsed /\ alone ->
         PutTagSingle(q, line.vdm, line_num)
    [] ~ line.no_checksum /\ line.parsed /\ ~ alone ->
         JoinGroup(q, g.id, g.number, g.total, part)

(* Key of a USCG group.  match['seq_id'] or '': the sequence number 0 is   *)
(* false in Python and becomes the empty string, as a missing one does.    *)
StationId(line) ==
  << line.station, IF line.vdm.seq = << 0 >> THEN << >> ELSE line.vdm.seq >>

(* UscgQueue.put of a line whose metadata parse, as they do for every line *)
(* NmeaQueue sends there with a VDM sentence in it.                        *)
PutUscg(q, line, line_num) ==
  LET vdm == line.vdm
      part == [vdm |-> vdm, looks |-> TRUE, line_num |-> line_num]
  IN
  CASE ~ vdm.framed -> PassThrough(q, line_num)
    [] vdm.framed /\ vdm.total = 1 ->
         DecodeSingle(q, [line |-> vdm, line_num |-> line_num])
    [] vdm.framed /\ vdm.total # 1 ->
         JoinGroup(q, StationId(line), vdm.number, vdm.total, part)

=============================================================================
