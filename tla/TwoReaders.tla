----------------------------- MODULE TwoReaders -----------------------------
(***************************************************************************)
(* The C++ VdmStream and the Python BareQueue fed the same lines: two      *)
(* implementations of one job, in the same repository, with different      *)
(* syntax, different rules on when waiting lines are thrown away, and      *)
(* different headers compared.                                             *)
(*                                                                         *)
(* Whether VDM_RE and the checksum test of vdm.py take a line is a choice: *)
(* Python takes no lower case checksum and no first field but that of VDM  *)
(* or VDO, C++ no text before the '!', no empty channel, no empty body.    *)
(* The fields of a line both take are the same.                            *)
(*                                                                         *)
(* bare is the BareQueue; its ready messages are left where they are.      *)
(* read is history: every line as vdm.Parse sees it.                       *)
(***************************************************************************)
EXTENDS VdmStream, BareQueue

VARIABLES bare, read

readers == << vars, bare, read >>

(* Fields that VDM_RE matches. *)
VdmSyntax(line) ==
  /\ line.total \in 0 .. 9
  /\ line.number \in 0 .. 9
  /\ line.seq \in {<< >>} \cup {<< id >> : id \in SequenceNumbers}
  /\ line.channel \in {"", "A", "B"}
  /\ line.fill \in 0 .. 9

ReadersInit == Init /\ bare = NewBareQueue /\ read = << >>

(* Both get the line, which Python takes for VDM or not; an exception of   *)
(* put is caught by the caller.                                            *)
BothRead(line, vdm) ==
  LET parsed == [line EXCEPT !.framed = vdm] IN
  /\ vdm => VdmSyntax(line)
  /\ AddLine(line)
  /\ bare' = [PutBare(bare, parsed, line_number + 1) EXCEPT !.raised = FALSE]
  /\ read' = Append(read, parsed)

ReadersNext ==
  \/ \E line \in Lines, vdm \in BOOLEAN : BothRead(line, vdm)
  \/ PopOldestMessage /\ UNCHANGED << bare, read >>

ReadersSpec == ReadersInit /\ [][ReadersNext]_readers

-----------------------------------------------------------------------------

(* Python alone takes line k for a part of a message. *)
PythonOnly(k) ==
  /\ read[k].framed /\ read[k].total # 1
  /\ heard[k] = NoSentence

(* The lines nums, parts of one message, mean the same to both up to line  *)
(* upto: Python takes each of them, and meets no line of its own, while it *)
(* waits for part i + 1, that starts the message anew or passes for that   *)
(* part.                                                                   *)
ReadAlike(nums, upto) ==
  \A i \in DOMAIN nums :
    /\ read[nums[i]].framed
    /\ \A k \in nums[i] + 1 .. (IF i = Len(nums) THEN upto ELSE nums[i + 1] - 1) :
         PythonOnly(k) /\ read[k].seq = read[nums[i]].seq
           => read[k].number \notin {1, i + 1}

(* What VdmStream has buffered under a sequence number, BareQueue has in   *)
(* the group of that number, line for line, exactly if both read these     *)
(* lines alike: that VdmStream empties its buffer more often and compares  *)
(* no headers until the end makes no difference, a line that only one of   *)
(* them takes does.                                                        *)
BufferIsGroup ==
  \A seq \in SequenceNumbers :
    LET nums == LinesOf(incoming_sentences[seq]) IN
    nums # << >> =>
      (LineNums(bare.groups[seq]) = nums <=> ReadAlike(nums, line_number))

(* So every message VdmStream gives out BareQueue decodes from the very    *)
(* same lines, if both read them alike and ais.decode does not refuse the  *)
(* payload.  (Not the other way round: BareQueue compares no headers.)     *)
PythonDecodesToo ==
  \A i \in DOMAIN Output :
    LET m == Output[i] IN
    ReadAlike(m.lines, Last(m.lines)) /\ m.body \notin DecodeErrors =>
      \E j \in DOMAIN bare.ready :
        bare.ready[j] = [line_nums |-> m.lines, decoded |-> m.body]

=============================================================================
