-------------------------- MODULE StreamNormalize --------------------------
(***************************************************************************)
(* ais.stream.normalize and ais.stream.decode (src/ais/stream/__init__.py) *)
(* with ErrorPrinter as the error callback: two generators that share the  *)
(* dictionary of statistics.  normalize takes lines until it has something *)
(* to yield; decode handles that before normalize goes on.                 *)
(*                                                                         *)
(* given is history, and so are reported, the numbers of the lines an      *)
(* error was reported for, and yielded, all that normalize has yielded.    *)
(***************************************************************************)
EXTENDS Integers, Sequences, FiniteSets, SequencesExt

CONSTANTS
  Lines,        \* lines of the file
  Options,      \* keyword arguments a caller may choose
  DecodeErrors, \* payloads that decode() cannot decode
  MaxLines      \* bound on the lines of the file

(* An optional thing is a sequence of length 0 or 1. *)
Optional(S) == {s \in Seq(S) : Len(s) <= 1}

(* What normalize looks at in a line.  fill says that there is a field     *)
(* after the payload, fill_digit that it is one digit before a checksum.   *)
Line == [tags_parse : BOOLEAN, vdm : BOOLEAN, checksum_ok : BOOLEAN,
         six_fields : BOOLEAN, fill : BOOLEAN, fill_digit : BOOLEAN,
         total : Nat, number : Nat, tag_station : Optional(STRING),
         station : Optional(STRING), seq : Nat, channel : STRING, payload : STRING,
         time : Optional(Nat), tag_time : Optional(Nat)]

Option == [window : Nat, max_errors : Optional(Nat), pass_invalid : BOOLEAN,
           allow_unknown : BOOLEAN, ignore_tag_station : BOOLEAN,
           treat_ab_equal : BOOLEAN, allow_missing : BOOLEAN]

ASSUME ArgumentsAreTyped == Lines \subseteq Line /\ Options \subseteq Option
                            /\ MaxLines \in Nat

VARIABLES
  options,   \* the arguments of this call
  buffers,   \* by slot: packets that wait for the last of their message
  stats,     \* lines counted, errors counted
  out,       \* what normalize has yielded and decode not yet handled
  decoded,   \* what decode has yielded: payloads
  running,   \* the generators have not ended
  given,     \* history
  reported,  \* history
  yielded    \* history

vars == << options, buffers, stats, out, decoded, running, given, reported,
           yielded >>

Packet == [line : Line, at : Nat]

Yield == [payload : Seq(STRING), at : Seq(Nat)]

Station(line, o) ==
  IF line.station = << >> /\ o.allow_unknown THEN << "UNKNOWN" >> ELSE line.station

TagStation(line, o) == IF o.ignore_tag_station THEN << >> ELSE line.tag_station

(* bufferSlot *)
Slot(line, o) ==
  << TagStation(line, o), Station(line, o), line.seq >>
  \o IF o.treat_ab_equal THEN << >> ELSE << line.channel >>

Slots == {Slot(line, o) : line \in Lines, o \in Options}

Init ==
  /\ options \in Options
  /\ buffers = [slot \in Slots |-> << >>]
  /\ stats = [line_num |-> 0, error_num_total |-> 0]
  /\ out = << >>
  /\ decoded = << >>
  /\ running = TRUE
  /\ given = << >>
  /\ reported = {}
  /\ yielded = << >>

(* ErrorPrinter: the share of errors in the lines counted is compared with *)
(* the limit; no line counted is a ZeroDivisionError.                      *)
TooMany(errors, lines) ==
  /\ options.max_errors # << >>
  /\ lines = 0 \/ 100 * errors > options.max_errors[1] * lines

(* Mutant of Report: the callback sees the errors before this one. *)
ReportBefore(lines, counted) ==
  /\ stats' = [line_num |-> counted, error_num_total |-> stats.error_num_total + 1]
  /\ running' = ~ TooMany(stats.error_num_total, counted)
  /\ reported' = reported \cup lines

(* report_error, when "counted" lines have been counted. *)
Report(lines, counted) ==
  /\ stats' = [line_num |-> counted, error_num_total |-> stats.error_num_total + 1]
  /\ running' = ~ TooMany(stats'.error_num_total, counted)
  /\ reported' = reported \cup lines

NoError(counted) ==
  /\ stats' = [stats EXCEPT !.line_num = counted]
  /\ UNCHANGED << running, reported >>

YieldOf(parts) ==
  [payload |-> [i \in DOMAIN parts |-> parts[i].line.payload],
   at |-> [i \in DOMAIN parts |-> parts[i].at]]

YieldMessage(parts) ==
  /\ out' = << YieldOf(parts) >>
  /\ yielded' = Append(yielded, YieldOf(parts))

NoYield == UNCHANGED << out, yielded >>

(* Timestamps of a part and of the last line, as they are compared: both   *)
(* from the lines or both from the tag blocks.                             *)
Times(line, last) ==
  CASE line.time # << >> /\ last.time # << >> -> line.time \o last.time
    [] (line.time = << >> \/ last.time = << >>)
       /\ line.tag_time # << >> /\ last.tag_time # << >> ->
         line.tag_time \o last.tag_time
    [] OTHER -> IF options.allow_missing THEN << 0, 0 >> ELSE << >>

(* Mutant of InWindow: a part may be older than the last one by any time. *)
NotAhead(line, last) ==
  LET t == Times(line, last) IN
  t # << >> /\ t[1] - t[2] <= options.window

InWindow(line, last) ==
  LET t == Times(line, last) IN
  t # << >> /\ t[1] - t[2] \in - options.window .. options.window

(* A line that takes part in reassembly: checksum, fields and stations are *)
(* as they must be.                                                        *)
Located(line) ==
  /\ line.tags_parse /\ line.vdm /\ line.six_fields /\ line.total # 1
  /\ line.checksum_ok \/ options.pass_invalid
  /\ Station(line, options) # << >> \/ TagStation(line, options) # << >>

(* With pass_invalid_checksums a bad checksum is an error, and the line    *)
(* goes on: unless the callback raises.                                    *)
ErrorFirst(line) == ~ line.checksum_ok

Counted == stats.line_num + 1
At == Len(given) + 1

(* Nothing wrong with the line itself: with or without the error of its    *)
(* checksum, "counted" being the lines.                                    *)
Accept(line) ==
  IF ErrorFirst(line) THEN Report({At}, Counted) ELSE NoError(Counted)

(* What goes wrong after that of the checksum. *)
Refuse(line, lines) ==
  LET errors == stats.error_num_total + IF ErrorFirst(line) THEN 2 ELSE 1
      first == ErrorFirst(line) /\ TooMany(stats.error_num_total + 1, Counted)
  IN
  /\ stats' = [line_num |-> Counted,
               error_num_total |-> IF first THEN errors - 1 ELSE errors]
  /\ running' = (~ first /\ ~ TooMany(errors, Counted))
  /\ reported' = reported \cup lines \cup {At}

(* The callback has raised on the checksum: nothing more happens. *)
Raised(line) ==
  ErrorFirst(line) /\ line.vdm /\ TooMany(stats.error_num_total + 1, Counted)

BadTagBlock(line) ==
  /\ ~ line.tags_parse
  /\ Report({At}, stats.line_num)      \* line_num is counted after it
  /\ NoYield /\ UNCHANGED buffers

NotVdm(line) ==
  /\ line.tags_parse /\ ~ line.vdm
  /\ NoError(Counted)
  /\ YieldMessage(<< [line |-> line, at |-> At] >>)
  /\ UNCHANGED buffers

BadChecksum(line) ==
  /\ line.tags_parse /\ line.vdm /\ ~ line.checksum_ok
  /\ ~ options.pass_invalid \/ Raised(line)
  /\ Report({At}, Counted)
  /\ NoYield /\ UNCHANGED buffers

(* Lines a file can go on with, once the checksum is dealt with. *)
Read(line) ==
  /\ line.tags_parse /\ line.vdm
  /\ line.checksum_ok \/ options.pass_invalid
  /\ ~ Raised(line)

TooFewFields(line) ==
  /\ Read(line) /\ ~ line.six_fields
  /\ Refuse(line, {At})
  /\ NoYield /\ UNCHANGED buffers

SingleLine(line) ==
  /\ Read(line) /\ line.six_fields /\ line.total = 1
  /\ Accept(line)
  /\ YieldMessage(<< [line |-> line, at |-> At] >>)
  /\ UNCHANGED buffers

NoStation(line) ==
  /\ Read(line) /\ line.six_fields /\ line.total # 1 /\ ~ Located(line)
  /\ Refuse(line, {At})
  /\ NoYield /\ UNCHANGED buffers

Waiting(line) == buffers[Slot(line, options)]

Here(line) == [line |-> line, at |-> At]

(* Mutants of FirstLine: the line is stored in place of the packet;        *)
(* partials are kept.                                                      *)
FirstLineOnly(line) ==
  /\ Read(line) /\ Located(line) /\ line.number = 1
  /\ Accept(line)
  /\ buffers' = [buffers EXCEPT ![Slot(line, options)] = << line >>]
  /\ NoYield

FirstKeeps(line) ==
  /\ Read(line) /\ Located(line) /\ line.number = 1
  /\ Accept(line)
  /\ buffers' = [buffers EXCEPT ![Slot(line, options)] = Append(@, Here(line))]
  /\ NoYield

(* "Overwrite any partials" *)
FirstLine(line) ==
  /\ Read(line) /\ Located(line) /\ line.number = 1
  /\ Accept(line)
  /\ buffers' = [buffers EXCEPT ![Slot(line, options)] = << Here(line) >>]
  /\ NoYield

(* Any line between the first and the last, whatever its number. *)
MiddleLine(line) ==
  /\ Read(line) /\ Located(line) /\ line.number \notin {1, line.total}
  /\ IF Waiting(line) = << >>
     THEN Refuse(line, {At}) /\ UNCHANGED buffers        \* KeyError
     ELSE /\ Accept(line)
          /\ buffers' = [buffers EXCEPT ![Slot(line, options)] = Append(@, Here(line))]
  /\ NoYield

OnlyMessageEnd(line) ==
  /\ Read(line) /\ Located(line)
  /\ line.number # 1 /\ line.number = line.total
  /\ Waiting(line) = << >>
  /\ Refuse(line, {At})
  /\ NoYield /\ UNCHANGED buffers

(* The parts of a message are no longer buffered.  It is yielded if their  *)
(* times agree with that of the last line and that line has a field after  *)
(* its payload (else IndexError).  Where the field is not a digit, no      *)
(* checksum is found in the message put together: an error, and the        *)
(* message is yielded all the same, if the callback does not raise.        *)
Finish(line, parts) ==
  LET whole == line.fill /\ \A i \in DOMAIN parts : InWindow(parts[i].line, line)
      lines == {parts[i].at : i \in DOMAIN parts}
  IN
  \/ whole /\ line.fill_digit /\ Accept(line) /\ YieldMessage(parts)
  \/ /\ whole /\ ~ line.fill_digit /\ Refuse(line, lines)
     /\ IF running' THEN YieldMessage(parts) ELSE NoYield
  \/ ~ whole /\ Refuse(line, lines) /\ NoYield

(* Mutants of LastLine: del buffers[bufferSlot] is missing; a timestamp    *)
(* that is missing or too far off is not reported.                         *)
LastKeeps(line) ==
  LET parts == Append(Waiting(line), Here(line)) IN
  /\ Read(line) /\ Located(line)
  /\ line.number # 1 /\ line.number = line.total
  /\ Waiting(line) # << >>
  /\ buffers' = [buffers EXCEPT ![Slot(line, options)] = parts]
  /\ Finish(line, parts)

LastSilent(line) ==
  LET parts == Append(Waiting(line), Here(line)) IN
  /\ Read(line) /\ Located(line)
  /\ line.number # 1 /\ line.number = line.total
  /\ Waiting(line) # << >>
  /\ buffers' = [buffers EXCEPT ![Slot(line, options)] = << >>]
  /\ Accept(line)
  /\ IF line.fill /\ \A i \in DOMAIN parts : InWindow(parts[i].line, line)
     THEN YieldMessage(parts)
     ELSE NoYield

(* The buffer is gone before anything is compared. *)
LastLine(line) ==
  LET parts == Append(Waiting(line), Here(line)) IN
  /\ Read(line) /\ Located(line)
  /\ line.number # 1 /\ line.number = line.total
  /\ Waiting(line) # << >>
  /\ buffers' = [buffers EXCEPT ![Slot(line, options)] = << >>]
  /\ Finish(line, parts)

(* One turn of the loop of normalize. *)
NextLine(line) ==
  /\ running /\ out = << >>
  /\ Len(given) < MaxLines
  /\ given' = Append(given, line)
  /\ \/ BadTagBlock(line)
     \/ NotVdm(line)
     \/ BadChecksum(line)
     \/ TooFewFields(line)
     \/ SingleLine(line)
     \/ NoStation(line)
     \/ FirstLine(line)
     \/ MiddleLine(line)
     \/ OnlyMessageEnd(line)
     \/ LastLine(line)
  /\ UNCHANGED << options, decoded >>

(* One turn of the loop of decode, over what normalize has yielded. *)
Decode ==
  /\ running /\ out # << >>
  /\ out' = << >>
  /\ IF out[1].payload \in DecodeErrors
     THEN Report(Range(out[1].at), stats.line_num) /\ UNCHANGED decoded
     ELSE /\ decoded' = Append(decoded, out[1].payload)
          /\ NoError(stats.line_num)
  /\ UNCHANGED << options, buffers, given, yielded >>

(* The file has no more lines: what is still buffered is one error. *)
EndOfFile ==
  /\ running /\ out = << >>
  /\ running' = FALSE
  /\ IF \E slot \in Slots : buffers[slot] # << >>
     THEN stats' = [stats EXCEPT !.error_num_total = @ + 1]
     ELSE UNCHANGED stats
  /\ UNCHANGED << options, buffers, out, decoded, given, reported, yielded >>

Next ==
  \/ \E line \in Lines : NextLine(line)
  \/ Decode
  \/ EndOfFile

Spec == Init /\ [][Next]_vars

-----------------------------------------------------------------------------

TypeOK ==
  /\ options \in Options
  /\ buffers \in [Slots -> Seq(Packet)]
  /\ stats \in [line_num : Nat, error_num_total : Nat]
  /\ out \in Seq(Yield) /\ Len(out) <= 1
  /\ decoded \in Seq(Seq(STRING))
  /\ running \in BOOLEAN
  /\ given \in Seq(Line)
  /\ reported \subseteq DOMAIN given
  /\ yielded \in Seq(Yield)

Multi == {i \in DOMAIN yielded : Len(yielded[i].at) > 1}

Buffered == UNION {{buffers[slot][i].at : i \in DOMAIN buffers[slot]} : slot \in Slots}

SlotAt(n) == Slot(given[n], options)

Starts(n) == Located(given[n]) /\ given[n].number = 1

(* A line is yielded at most once and then waits for nothing, though parts *)
(* are shared between the buffer and the message and errors may end a turn *)
(* half way (normalize, del buffers).                                      *)
YieldedOnce ==
  /\ \A i, j \in DOMAIN yielded :
       i # j => Range(yielded[i].at) \cap Range(yielded[j].at) = {}
  /\ \A i \in DOMAIN yielded : Range(yielded[i].at) \cap Buffered = {}

(* No line disappears: it was yielded, waits, was reported, or gave way to *)
(* a newer first line of its slot, the one loss the code does not report   *)
(* ("Overwrite any partials").                                             *)
NoSilentLoss ==
  \A n \in DOMAIN given :
    \/ \E i \in DOMAIN yielded : n \in Range(yielded[i].at)
    \/ n \in Buffered
    \/ n \in reported
    \/ Located(given[n])
       /\ \E k \in n + 1 .. Len(given) : Starts(k) /\ SlotAt(k) = SlotAt(n)

(* at are the lines of one message: from a first line to a last line of    *)
(* one slot, with all lines of that slot in between, none of which is a    *)
(* first or a last line.                                                   *)
OneMessage(at) ==
  LET last == Last(at) IN
  /\ Starts(at[1]) /\ given[last].number = given[last].total
  /\ \A k \in at[1] .. last : Located(given[k]) /\ SlotAt(k) = SlotAt(last) =>
       /\ k \in Range(at)
       /\ k \notin {at[1], last} => given[k].number \notin {1, given[k].total}

(* A message put together is one message: never parts of two that were     *)
(* both begun.                                                             *)
OneMessageEach == \A i \in Multi : OneMessage(yielded[i].at)

(* Numbers of the lines heard for a slot. *)
HeardFor(slot) == {k \in DOMAIN given : Located(given[k]) /\ SlotAt(k) = slot}

(* at lists the last ones of a set of lines, from at[1] on, in order. *)
AreLast(at, S) ==
  /\ \A i, j \in DOMAIN at : i < j => at[i] < at[j]
  /\ Range(at) = {k \in S : k >= at[1]}

(* The lines at are 1..n of n, and their times agree with the last. *)
WholeGroup(at) ==
  LET n == Len(at)
      last == given[at[n]]
  IN
  /\ n > 1 /\ last.fill
  /\ \A i \in 1 .. n : /\ given[at[i]].number = i
                        /\ given[at[i]].total = n
                        /\ InWindow(given[at[i]], last)

(* When the last lines of a slot are 1..n, and their times agree, they are *)
(* yielded as one message, whatever was left in the buffer before.         *)
GroupComesOut ==
  running =>
    \A slot \in Slots : \A n \in 2 .. Len(given) :
      \A at \in [1 .. n -> HeardFor(slot)] :
        AreLast(at, HeardFor(slot)) /\ WholeGroup(at) =>
          \E i \in DOMAIN yielded : yielded[i].at = at

(* The times on these lines differ by at most twice the window. *)
InSpan(at) ==
  \A i, j \in DOMAIN at :
    given[at[i]].time # << >> /\ given[at[j]].time # << >>
      => given[at[i]].time[1] - given[at[j]].time[1] <= 2 * options.window

(* The times on the lines of a message lie within twice the window: each   *)
(* is compared with that of the last line, on both sides, and two of them  *)
(* never with each other ("number of seconds to allow the later parts of a *)
(* multiline message to span").                                            *)
SpanBounded ==
  \A i \in Multi :
    given[Last(yielded[i].at)].time # << >> => InSpan(yielded[i].at)

(* While the generators run, the errors of both together have not gone     *)
(* over the limit, counted in lines that the errors are a share of.        *)
BudgetKept ==
  running /\ stats.error_num_total > 0 =>
    ~ TooMany(stats.error_num_total, stats.line_num)

(* normalize, at the last line of a message: "Now have all the pieces."    *)
AllThePieces ==
  \A i \in Multi : Len(yielded[i].at) = given[Last(yielded[i].at)].total

=============================================================================
