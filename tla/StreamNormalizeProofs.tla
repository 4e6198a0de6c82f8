----------------------- MODULE StreamNormalizeProofs -----------------------
(***************************************************************************)
(* What normalize and decode keep, for all lines, arguments and lengths of *)
(* a file: the error limit of ErrorPrinter, and that lines are neither     *)
(* lost, used twice nor mixed.                                             *)
(***************************************************************************)
EXTENDS StreamNormalize, SequenceTheorems, TLAPS

CountsTyped ==
  /\ options.max_errors \in Seq(Nat)
  /\ stats \in [line_num : Nat, error_num_total : Nat]

BudgetInductive == CountsTyped /\ BudgetKept

LEMMA OptionalIsSeq ==
  ASSUME NEW S, NEW x \in Optional(S)
  PROVE  x \in Seq(S) /\ (x # << >> => Len(x) = 1 /\ x[1] \in S)
<1>1. x \in Seq(S) /\ Len(x) <= 1
  BY DEF Optional
<1>2. ASSUME x # << >> PROVE Len(x) = 1 /\ x[1] \in S
  <2>1. Len(x) \in Nat \ {0}
    BY <1>1, <1>2, EmptySeq
  <2>2. \A n \in Nat \ {0} : n <= 1 => n = 1
    OBVIOUS
  <2>3. Len(x) = 1
    BY <1>1, <2>1, <2>2, Zenon
  <2> QED
    BY <1>1, <2>3
<1> QED
  BY <1>1, <1>2

(* A correct line more does not bring the share of errors over the limit. *)
LEMMA OneLineMore ==
  ASSUME options.max_errors \in Seq(Nat), NEW e \in Nat, NEW n \in Nat,
         ~ TooMany(e, n)
  PROVE  ~ TooMany(e, n + 1)
<1> DEFINE limit == options.max_errors[1]
<1>1. CASE options.max_errors = << >>
  BY <1>1 DEF TooMany
<1>2. CASE options.max_errors # << >>
  <2>1. limit \in Nat
    BY <1>2
  <2>2. n # 0 /\ ~ (100 * e > limit * n)
    BY <1>2 DEF TooMany
  <2> HIDE DEF limit
  <2>3. limit * n \in Nat /\ limit * (n + 1) = limit * n + limit
    BY <2>1
  <2>4. ~ (100 * e > limit * (n + 1)) /\ n + 1 # 0
    BY <2>1, <2>2, <2>3
  <2> QED
    BY <2>4 DEF TooMany, limit
<1> QED
  BY <1>1, <1>2

(* Each way of counting a line keeps the limit: with the options           *)
(* unchanged.                                                              *)
LEMMA ReportKeepsBudget ==
  ASSUME CountsTyped, options' = options, NEW lines, NEW counted \in Nat,
         Report(lines, counted)
  PROVE  BudgetInductive'
<1>1. /\ stats' = [line_num |-> counted, error_num_total |-> stats.error_num_total + 1]
      /\ stats.error_num_total \in Nat /\ options.max_errors \in Seq(Nat)
      /\ running' = ~ TooMany(stats'.error_num_total, counted)
  BY DEF Report, CountsTyped
<1>2. /\ stats' \in [line_num : Nat, error_num_total : Nat]
      /\ stats'.line_num = counted
  BY <1>1
<1>3. running' => ~ TooMany(stats'.error_num_total, counted)
  BY <1>1
<1> QED
  BY <1>1, <1>2, <1>3 DEF BudgetInductive, CountsTyped, BudgetKept, TooMany

LEMMA NoErrorKeepsBudget ==
  ASSUME BudgetInductive, options' = options,
         NEW counted \in {stats.line_num, stats.line_num + 1}, NoError(counted)
  PROVE  BudgetInductive'
<1>1. /\ stats.line_num \in Nat /\ stats.error_num_total \in Nat
      /\ options.max_errors \in Seq(Nat)
      /\ running /\ stats.error_num_total > 0
           => ~ TooMany(stats.error_num_total, stats.line_num)
  BY DEF BudgetInductive, CountsTyped, BudgetKept
<1>2. /\ stats' \in [line_num : Nat, error_num_total : Nat]
      /\ stats'.line_num = counted /\ stats'.error_num_total = stats.error_num_total
      /\ running' = running
  BY DEF NoError, BudgetInductive, CountsTyped
<1>3. running /\ stats.error_num_total > 0 => ~ TooMany(stats.error_num_total, counted)
  BY <1>1, OneLineMore
<1> QED
  BY <1>1, <1>2, <1>3 DEF BudgetInductive, CountsTyped, BudgetKept, TooMany

LEMMA RefuseKeepsBudget ==
  ASSUME CountsTyped, options' = options, NEW line, NEW lines, Refuse(line, lines)
  PROVE  BudgetInductive'
<1> DEFINE errors == stats.error_num_total + IF ErrorFirst(line) THEN 2 ELSE 1
           first == ErrorFirst(line) /\ TooMany(stats.error_num_total + 1, Counted)
<1>1. /\ stats.line_num \in Nat /\ stats.error_num_total \in Nat
      /\ errors \in Nat /\ errors - 1 \in Nat /\ Counted \in Nat
  BY DEF CountsTyped, Counted
<1>2. /\ stats' = [line_num |-> Counted,
                   error_num_total |-> IF first THEN errors - 1 ELSE errors]
      /\ running' = (~ first /\ ~ TooMany(errors, Counted))
  BY DEF Refuse
<1> HIDE DEF errors, first
<1>3. stats' \in [line_num : Nat, error_num_total : Nat]
  BY <1>1, <1>2
<1>4. running' => ~ TooMany(errors, Counted) /\ stats'.error_num_total = errors
  BY <1>2
<1>5. stats'.line_num = Counted
  BY <1>2
<1> QED
  BY <1>3, <1>4, <1>5 DEF BudgetInductive, CountsTyped, BudgetKept, TooMany

LEMMA NextLineKeepsBudget ==
  ASSUME BudgetInductive, NEW line, NextLine(line)
  PROVE  BudgetInductive'
<1>1. options' = options /\ CountsTyped
  BY DEF NextLine, BudgetInductive
<1>2. stats.line_num \in Nat /\ Counted \in Nat
      /\ Counted \in {stats.line_num, stats.line_num + 1}
  BY <1>1 DEF CountsTyped, Counted
<1>3. ASSUME Accept(line) PROVE BudgetInductive'
  BY <1>1, <1>2, <1>3, ReportKeepsBudget, NoErrorKeepsBudget DEF Accept
<1>4. CASE BadTagBlock(line)
  BY <1>1, <1>2, <1>4, ReportKeepsBudget DEF BadTagBlock
<1>5. CASE NotVdm(line)
  BY <1>1, <1>2, <1>5, NoErrorKeepsBudget DEF NotVdm
<1>6. CASE BadChecksum(line)
  BY <1>1, <1>2, <1>6, ReportKeepsBudget DEF BadChecksum
<1>7. CASE TooFewFields(line) \/ NoStation(line) \/ OnlyMessageEnd(line)
  BY <1>1, <1>7, RefuseKeepsBudget DEF TooFewFields, NoStation, OnlyMessageEnd
<1>8. CASE SingleLine(line) \/ FirstLine(line)
  BY <1>3, <1>8 DEF SingleLine, FirstLine
<1>9. CASE MiddleLine(line)
  BY <1>1, <1>3, <1>9, RefuseKeepsBudget DEF MiddleLine
<1>10. CASE LastLine(line)
  BY <1>1, <1>3, <1>10, RefuseKeepsBudget DEF LastLine, Finish
<1> QED
  BY <1>4, <1>5, <1>6, <1>7, <1>8, <1>9, <1>10 DEF NextLine

(* normalize and decode report into one count, and never go on once it is  *)
(* over the limit (report_error, ErrorPrinter).                            *)
THEOREM ErrorLimitKept == Spec => []BudgetKept
<1>1. Init => BudgetInductive
  BY ArgumentsAreTyped, OptionalIsSeq
     DEF Init, BudgetInductive, CountsTyped, BudgetKept, Option
<1>2. BudgetInductive /\ [Next]_vars => BudgetInductive'
  <2> SUFFICES ASSUME BudgetInductive, [Next]_vars PROVE BudgetInductive'
    OBVIOUS
  <2>1. CASE \E line \in Lines : NextLine(line)
    BY <2>1, NextLineKeepsBudget
  <2>2. CASE Decode
    <3>1. options' = options /\ CountsTyped /\ stats.line_num \in Nat
      BY <2>2 DEF Decode, BudgetInductive, CountsTyped
    <3>2. CASE out[1].payload \in DecodeErrors
      BY <2>2, <3>1, <3>2, ReportKeepsBudget DEF Decode
    <3>3. CASE out[1].payload \notin DecodeErrors
      BY <2>2, <3>1, <3>3, NoErrorKeepsBudget DEF Decode
    <3> QED
      BY <3>2, <3>3
  <2>3. CASE EndOfFile
    BY <2>3 DEF EndOfFile, BudgetInductive, CountsTyped, BudgetKept
  <2>4. CASE UNCHANGED vars
    BY <2>4 DEF vars, BudgetInductive, CountsTyped, BudgetKept, TooMany
  <2> QED
    BY <2>1, <2>2, <2>3, <2>4 DEF Next
<1>3. BudgetInductive => BudgetKept
  BY DEF BudgetInductive
<1> QED
  BY <1>1, <1>2, <1>3, PTL DEF Spec

-----------------------------------------------------------------------------
(* The invariant behind the other theorems. *)

Ats(b) == [i \in DOMAIN b |-> b[i].at]

(* A buffer holds lines of its slot, from a first line on, none of them a  *)
(* last one; and while the generators run, all that were heard since.      *)
HoldsLines(slot) ==
  \A i \in DOMAIN buffers[slot] :
    LET p == buffers[slot][i] IN
    /\ p.at \in HeardFor(slot) /\ p.line = given[p.at]
    /\ p.line.number = 1 <=> i = 1
    /\ i # 1 => p.line.number # p.line.total

HoldsAll(slot) ==
  running /\ buffers[slot] # << >> =>
    \A k \in HeardFor(slot) :
      k >= buffers[slot][1].at => \E i \in DOMAIN buffers[slot] : k = buffers[slot][i].at

BufferOK(slot) == HoldsLines(slot) /\ HoldsAll(slot)

BuffersOK == \A slot \in Slots : BufferOK(slot)

YieldsOK ==
  /\ \A i \in DOMAIN yielded :
       yielded[i].at # << >> /\ Range(yielded[i].at) \subseteq DOMAIN given
  /\ out # << >> => Range(out[1].at) \subseteq DOMAIN given

Unfinished(at) ==
  \A i \in DOMAIN at : /\ given[at[i]].number = i
                       /\ i > 1 => given[at[i]].total # i

(* The lines 1..n heard last for a slot are what is buffered. *)
LastAreBuffered ==
  running =>
    \A slot \in Slots : \A n \in Nat \ {0} :
      \A at \in [1 .. n -> HeardFor(slot)] :
        AreLast(at, HeardFor(slot)) /\ Unfinished(at) => Ats(buffers[slot]) = at

(* GroupComesOut, of groups of any length. *)
GroupsComeOut ==
  running =>
    \A slot \in Slots : \A n \in Nat \ {0, 1} :
      \A at \in [1 .. n -> HeardFor(slot)] :
        AreLast(at, HeardFor(slot)) /\ WholeGroup(at) =>
          \E i \in DOMAIN yielded : yielded[i].at = at

Inductive == TypeOK /\ BuffersOK /\ YieldsOK

-----------------------------------------------------------------------------
(* A line more. *)

LEMMA Longer ==
  ASSUME given \in Seq(Line), NEW line \in Line, given' = Append(given, line)
  PROVE  /\ given' \in Seq(Line)
         /\ At \in Nat /\ At \notin DOMAIN given /\ Len(given') = At
         /\ DOMAIN given = 1 .. Len(given) /\ Len(given) \in Nat
         /\ DOMAIN given' = DOMAIN given \cup {At}
         /\ \A k \in DOMAIN given : k \in Nat /\ k < At /\ given'[k] = given[k]
         /\ given'[At] = line
  BY DEF At

LEMMA SameArguments ==
  ASSUME options' = options
  PROVE  /\ \A l : Located(l)' <=> Located(l)
         /\ \A l, m : InWindow(l, m)' <=> InWindow(l, m)
  BY DEF Located, InWindow, Times

(* The window is compared in the same way for lines that are the same. *)
LEMMA SameWindow ==
  ASSUME options' = options
  PROVE  \A k, m : InWindow(given[k], given[m])' <=> InWindow(given'[k], given'[m])
  BY DEF InWindow, Times

LEMMA HeardGrows ==
  ASSUME given \in Seq(Line), NEW line \in Line, given' = Append(given, line),
         options' = options
  PROVE  /\ \A k \in DOMAIN given : /\ SlotAt(k)' = SlotAt(k)
                                    /\ Located(given[k])' <=> Located(given[k])
         /\ \A k : k = At => /\ SlotAt(k)' = Slot(line, options)
                             /\ Located(given[k])' <=> Located(line)
         /\ \A slot : HeardFor(slot)' =
              IF Located(line) /\ Slot(line, options) = slot
              THEN HeardFor(slot) \cup {At} ELSE HeardFor(slot)
<1>1. \A k \in DOMAIN given : SlotAt(k)' = SlotAt(k)
  BY Longer DEF SlotAt
<1>2. \A k \in DOMAIN given : Located(given[k])' <=> Located(given[k])
  BY Longer DEF Located
<1>3. \A k : k = At => SlotAt(k)' = Slot(line, options)
  BY Longer DEF SlotAt
<1>4. \A k : k = At => (Located(given[k])' <=> Located(line))
  BY Longer DEF Located
<1>5. ASSUME NEW slot
      PROVE  HeardFor(slot)' = IF Located(line) /\ Slot(line, options) = slot
                               THEN HeardFor(slot) \cup {At} ELSE HeardFor(slot)
  <2>1. HeardFor(slot)' = {k \in DOMAIN given' : Located(given[k])' /\ SlotAt(k)' = slot}
    BY DEF HeardFor
  <2>2. DOMAIN given' = DOMAIN given \cup {At} /\ At \notin DOMAIN given
    BY Longer
  <2> QED
    BY <1>1, <1>2, <1>3, <1>4, <2>1, <2>2 DEF HeardFor
<1> QED
  BY <1>1, <1>2, <1>3, <1>4, <1>5

-----------------------------------------------------------------------------
(* What a line may do, as far as the invariants are concerned.             *)

(* It is reported and goes no further. *)
Drops(line) ==
  /\ At \in reported' /\ UNCHANGED << buffers, out, yielded >>
  /\ running' /\ Located(line) => line.number # 1 /\ Waiting(line) = << >>

(* It is yielded as it is. *)
Alone(line) ==
  /\ ~ Located(line) /\ YieldMessage(<< Here(line) >>) /\ UNCHANGED buffers

Begins(line) ==
  /\ Located(line) /\ line.number = 1 /\ NoYield
  /\ buffers' = [buffers EXCEPT ![Slot(line, options)] = << Here(line) >>]

Joins(line) ==
  /\ Located(line) /\ line.number \notin {1, line.total} /\ NoYield
  /\ Waiting(line) # << >>
  /\ buffers' = [buffers EXCEPT ![Slot(line, options)] = Append(@, Here(line))]

Parts(line) == Append(Waiting(line), Here(line))

PartsAt(line) == {Parts(line)[i].at : i \in DOMAIN Parts(line)}

(* The parts go together with their last line. *)
Agrees(line) ==
  line.fill /\ \A i \in DOMAIN Parts(line) : InWindow(Parts(line)[i].line, line)

Ends(line) ==
  /\ Located(line) /\ line.number # 1 /\ line.number = line.total
  /\ Waiting(line) # << >>
  /\ buffers' = [buffers EXCEPT ![Slot(line, options)] = << >>]
  /\ \/ Agrees(line) /\ YieldMessage(Parts(line))
     \/ (Agrees(line) => ~ running') /\ NoYield /\ PartsAt(line) \subseteq reported'

(* The counters go on, and nothing that was reported is forgotten. *)
Counts(line) ==
  /\ running' \in BOOLEAN /\ stats' \in [line_num : Nat, error_num_total : Nat]
  /\ reported \subseteq reported'
  /\ running /\ out = << >> /\ given' = Append(given, line)
  /\ options' = options /\ decoded' = decoded

LEMMA Reporting ==
  ASSUME stats \in [line_num : Nat, error_num_total : Nat],
         NEW lines, NEW counted \in Nat, Report(lines, counted)
  PROVE  /\ running' \in BOOLEAN
         /\ stats' \in [line_num : Nat, error_num_total : Nat]
         /\ reported' = reported \cup lines
<1>1. stats.error_num_total + 1 \in Nat
  OBVIOUS
<1> QED
  BY <1>1 DEF Report, TooMany

LEMMA Accepting ==
  ASSUME stats \in [line_num : Nat, error_num_total : Nat],
         running \in BOOLEAN, NEW line, Accept(line)
  PROVE  /\ running' \in BOOLEAN
         /\ stats' \in [line_num : Nat, error_num_total : Nat]
         /\ reported \subseteq reported' /\ reported' \subseteq reported \cup {At}
<1>1. Counted \in Nat
  BY DEF Counted
<1>2. CASE ErrorFirst(line)
  BY <1>1, <1>2, Reporting DEF Accept
<1>3. CASE ~ ErrorFirst(line)
  BY <1>1, <1>3 DEF Accept, NoError
<1> QED
  BY <1>2, <1>3

LEMMA Refusing ==
  ASSUME stats \in [line_num : Nat, error_num_total : Nat],
         NEW line, NEW lines, Refuse(line, lines)
  PROVE  /\ running' \in BOOLEAN
         /\ stats' \in [line_num : Nat, error_num_total : Nat]
         /\ reported' = reported \cup lines \cup {At}
<1> DEFINE errors == stats.error_num_total + IF ErrorFirst(line) THEN 2 ELSE 1
           first == ErrorFirst(line) /\ TooMany(stats.error_num_total + 1, Counted)
<1>1. errors \in Nat /\ errors - 1 \in Nat /\ Counted \in Nat
  BY DEF Counted
<1>2. /\ stats' = [line_num |-> Counted,
                   error_num_total |-> IF first THEN errors - 1 ELSE errors]
      /\ running' = (~ first /\ ~ TooMany(errors, Counted))
      /\ reported' = reported \cup lines \cup {At}
  BY DEF Refuse
<1> HIDE DEF errors, first
<1> QED
  BY <1>1, <1>2

LEMMA EffectOfLine ==
  ASSUME TypeOK, NEW line \in Lines, NextLine(line)
  PROVE  /\ Counts(line)
         /\ \/ Drops(line) \/ Alone(line) \/ Begins(line) \/ Joins(line) \/ Ends(line)
         /\ reported' \subseteq
              reported \cup {At} \cup (IF Ends(line) THEN PartsAt(line) ELSE {})
<1>1. /\ stats \in [line_num : Nat, error_num_total : Nat] /\ running \in BOOLEAN
      /\ stats.line_num \in Nat /\ Counted \in Nat
  BY DEF TypeOK, Counted
<1>2. /\ running /\ out = << >> /\ given' = Append(given, line)
      /\ options' = options /\ decoded' = decoded
  BY DEF NextLine
<1>3. CASE BadTagBlock(line)
  BY <1>1, <1>2, <1>3, Reporting DEF BadTagBlock, Counts, Drops, NoYield, Located
<1>4. CASE NotVdm(line)
  BY <1>1, <1>2, <1>4 DEF NotVdm, NoError, Counts, Alone, Here, Located
<1>5. CASE BadChecksum(line)
  <2>1. Located(line) => Raised(line)
    BY <1>5 DEF BadChecksum, Located
  <2>2. Raised(line) => running' = FALSE
    BY <1>1, <1>5 DEF BadChecksum, Raised, Report
  <2> QED
    BY <1>1, <1>2, <1>5, <2>1, <2>2, Reporting DEF BadChecksum, Counts, Drops, NoYield
<1>6. CASE TooFewFields(line) \/ NoStation(line)
  BY <1>1, <1>2, <1>6, Refusing
     DEF TooFewFields, NoStation, Counts, Drops, NoYield, Located
<1>7. CASE SingleLine(line)
  <2>1. ~ Located(line)
    BY <1>7 DEF SingleLine, Located
  <2> QED
    BY <1>1, <1>2, <1>7, <2>1, Accepting DEF SingleLine, Counts, Alone, Here
<1>8. CASE FirstLine(line)
  BY <1>1, <1>2, <1>8, Accepting DEF FirstLine, Counts, Begins
<1>9. CASE MiddleLine(line)
  <2>1. CASE Waiting(line) = << >>
    BY <1>1, <1>2, <1>9, <2>1, Refusing DEF MiddleLine, Counts, Drops, NoYield
  <2>2. CASE Waiting(line) # << >>
    BY <1>1, <1>2, <1>9, <2>2, Accepting DEF MiddleLine, Counts, Joins
  <2> QED
    BY <2>1, <2>2
<1>10. CASE OnlyMessageEnd(line)
  BY <1>1, <1>2, <1>10, Refusing DEF OnlyMessageEnd, Counts, Drops, NoYield
<1>11. CASE LastLine(line)
  <2>1. /\ Located(line) /\ line.number # 1 /\ line.number = line.total
        /\ Waiting(line) # << >>
        /\ buffers' = [buffers EXCEPT ![Slot(line, options)] = << >>]
        /\ Finish(line, Parts(line))
    BY <1>11 DEF LastLine, Parts
  <2>2. \/ Agrees(line) /\ Accept(line) /\ YieldMessage(Parts(line))
        \/ /\ Agrees(line) /\ Refuse(line, PartsAt(line))
           /\ IF running' THEN YieldMessage(Parts(line)) ELSE NoYield
        \/ ~ Agrees(line) /\ Refuse(line, PartsAt(line)) /\ NoYield
    BY <2>1 DEF Finish, Agrees, PartsAt
  <2>3. CASE Agrees(line) /\ Accept(line) /\ YieldMessage(Parts(line))
    BY <1>1, <1>2, <2>1, <2>3, Accepting DEF Counts, Ends
  <2>4. CASE Refuse(line, PartsAt(line))
    <3>1. Counts(line) /\ reported' = reported \cup PartsAt(line) \cup {At}
      BY <1>1, <1>2, <2>4, Refusing DEF Counts
    <3>2. Ends(line)
      BY <2>1, <2>2, <2>4, <3>1 DEF Ends
    <3> QED
      BY <3>1, <3>2
  <2> QED
    BY <2>2, <2>3, <2>4
<1> QED
  BY <1>3, <1>4, <1>5, <1>6, <1>7, <1>8, <1>9, <1>10, <1>11 DEF NextLine

(* The other steps leave the lines alone. *)
Quiet ==
  /\ UNCHANGED << options, buffers, given, yielded >>
  /\ reported \subseteq reported' /\ (running' => running)
  /\ out' = out \/ out' = << >>

LEMMA OtherSteps ==
  ASSUME Decode \/ EndOfFile \/ UNCHANGED vars
  PROVE  Quiet
  BY DEF Decode, EndOfFile, vars, Quiet, Report, NoError

-----------------------------------------------------------------------------
(* The type invariant. *)

LEMMA LineIsTyped ==
  ASSUME TypeOK, NEW line \in Lines
  PROVE  /\ line \in Line /\ options \in Option /\ Slot(line, options) \in Slots
         /\ Waiting(line) \in Seq(Packet) /\ Here(line) \in Packet
         /\ Parts(line) \in Seq(Packet)
<1>1. line \in Line /\ options \in Options /\ options \in Option
  BY ArgumentsAreTyped DEF TypeOK
<1>2. Slot(line, options) \in Slots
  BY <1>1 DEF Slots
<1>3. Waiting(line) \in Seq(Packet)
  BY <1>2 DEF TypeOK, Waiting
<1>4. At \in Nat
  BY DEF TypeOK, At
<1>5. Here(line) \in Packet
  BY <1>1, <1>4 DEF Here, Packet
<1> QED
  BY <1>1, <1>2, <1>3, <1>5 DEF Parts

LEMMA YieldIsTyped ==
  ASSUME NEW parts \in Seq(Packet)
  PROVE  /\ YieldOf(parts) \in Yield
         /\ DOMAIN YieldOf(parts).at = DOMAIN parts
         /\ Len(YieldOf(parts).at) = Len(parts)
         /\ \A i \in DOMAIN parts : YieldOf(parts).at[i] = parts[i].at
<1> DEFINE n == Len(parts)
           payload == [i \in DOMAIN parts |-> parts[i].line.payload]
           at == [i \in DOMAIN parts |-> parts[i].at]
<1>1. n \in Nat /\ DOMAIN parts = 1 .. n
  OBVIOUS
<1>2. \A i \in 1 .. n : parts[i].at \in Nat /\ parts[i].line.payload \in STRING
  <2>1. \A i \in 1 .. n : parts[i] \in Packet
    BY <1>1
  <2>2. \A p \in Packet : p.at \in Nat /\ p.line \in Line
    BY DEF Packet
  <2>3. \A l \in Line : l.payload \in STRING
    BY DEF Line
  <2> QED
    BY <2>1, <2>2, <2>3
<1>3. payload \in Seq(STRING)
  BY <1>1, <1>2
<1>4. at \in Seq(Nat) /\ Len(at) = n
  BY <1>1, <1>2
<1>5. YieldOf(parts) = [payload |-> payload, at |-> at]
  BY DEF YieldOf
<1> HIDE DEF payload, at
<1>6. YieldOf(parts).at = at
  BY <1>5
<1> QED
  BY <1>1, <1>3, <1>4, <1>5, <1>6 DEF Yield, at

LEMMA YieldKeepsType ==
  ASSUME TypeOK, NEW parts \in Seq(Packet), YieldMessage(parts)
  PROVE  /\ out' \in Seq(Yield) /\ Len(out') <= 1
         /\ yielded' \in Seq(Yield)
<1>1. YieldOf(parts) \in Yield
  BY YieldIsTyped
<1> HIDE DEF YieldOf
<1> QED
  BY <1>1 DEF YieldMessage, TypeOK

(* The lines of a message that ends are lines of the file. *)
LEMMA PartsAreLines ==
  ASSUME TypeOK, BuffersOK, NEW line \in Lines
  PROVE  /\ \A i \in DOMAIN Parts(line) : Parts(line)[i].at \in DOMAIN given \cup {At}
         /\ PartsAt(line) \subseteq DOMAIN given \cup {At}
<1>1. Waiting(line) \in Seq(Packet) /\ Slot(line, options) \in Slots
  BY LineIsTyped
<1>2. \A i \in DOMAIN Waiting(line) : Waiting(line)[i].at \in DOMAIN given
  BY <1>1 DEF BuffersOK, BufferOK, HoldsLines, Waiting, HeardFor
<1>3. \A i \in DOMAIN Parts(line) :
        \/ i \in DOMAIN Waiting(line) /\ Parts(line)[i] = Waiting(line)[i]
        \/ Parts(line)[i] = Here(line)
  BY <1>1 DEF Parts
<1> QED
  BY <1>2, <1>3 DEF PartsAt, Here

(* The buffer of one slot is replaced, if any. *)
LEMMA OneBuffer ==
  ASSUME TypeOK, NEW line \in Lines, NEW b \in Seq(Packet),
         buffers' = [buffers EXCEPT ![Slot(line, options)] = b]
  PROVE  /\ buffers' \in [Slots -> Seq(Packet)]
         /\ buffers'[Slot(line, options)] = b
         /\ \A slot \in Slots : slot # Slot(line, options) => buffers'[slot] = buffers[slot]
<1>1. Slot(line, options) \in Slots
  BY LineIsTyped
<1> HIDE DEF Slot
<1> QED
  BY <1>1 DEF TypeOK

LEMMA NextLineKeepsTypes ==
  ASSUME TypeOK, BuffersOK, NEW line \in Lines, NextLine(line)
  PROVE  TypeOK'
<1>1. /\ Counts(line) /\ line \in Line
      /\ Drops(line) \/ Alone(line) \/ Begins(line) \/ Joins(line) \/ Ends(line)
  BY EffectOfLine, LineIsTyped
<1>2. /\ options' \in Options /\ stats' \in [line_num : Nat, error_num_total : Nat]
      /\ decoded' \in Seq(Seq(STRING)) /\ running' \in BOOLEAN
  BY <1>1 DEF Counts, TypeOK
<1>3. given' \in Seq(Line) /\ DOMAIN given' = DOMAIN given \cup {At}
  BY <1>1, Longer DEF Counts, TypeOK
<1>4. PartsAt(line) \subseteq DOMAIN given \cup {At}
  BY PartsAreLines
<1>5. reported' \subseteq DOMAIN given'
  <2>1. reported' \subseteq
          reported \cup {At} \cup (IF Ends(line) THEN PartsAt(line) ELSE {})
    BY EffectOfLine
  <2> QED
    BY <1>3, <1>4, <2>1 DEF TypeOK
<1>6. buffers' \in [Slots -> Seq(Packet)]
  <2>1. << >> \in Seq(Packet) /\ << Here(line) >> \in Seq(Packet)
        /\ Append(Waiting(line), Here(line)) \in Seq(Packet)
    BY LineIsTyped
  <2>2. CASE Drops(line) \/ Alone(line)
    BY <2>2 DEF Drops, Alone, TypeOK
  <2>3. CASE Begins(line)
    BY <2>1, <2>3, OneBuffer DEF Begins
  <2>4. CASE Joins(line)
    BY <2>1, <2>4, OneBuffer DEF Joins, Waiting
  <2>5. CASE Ends(line)
    BY <2>1, <2>5, OneBuffer DEF Ends
  <2> QED
    BY <1>1, <2>2, <2>3, <2>4, <2>5
<1>7. out' \in Seq(Yield) /\ Len(out') <= 1 /\ yielded' \in Seq(Yield)
  <2>1. << Here(line) >> \in Seq(Packet) /\ Parts(line) \in Seq(Packet)
    BY LineIsTyped
  <2>2. CASE NoYield \/ Drops(line)
    BY <2>2 DEF NoYield, Drops, TypeOK
  <2>3. CASE Alone(line)
    BY <2>1, <2>3, YieldKeepsType DEF Alone
  <2>4. CASE Ends(line)
    BY <2>1, <2>2, <2>4, YieldKeepsType DEF Ends
  <2> QED
    BY <1>1, <2>2, <2>3, <2>4 DEF Begins, Joins
<1> QED
  BY <1>2, <1>3, <1>5, <1>6, <1>7 DEF TypeOK

LEMMA OtherStepsKeepTypes ==
  ASSUME TypeOK, YieldsOK, Decode \/ EndOfFile \/ UNCHANGED vars
  PROVE  TypeOK'
<1>1. CASE Decode
  <2>1. out \in Optional(Yield) /\ out # << >>
    BY <1>1 DEF Decode, TypeOK, Optional
  <2>2. out[1] \in Yield
    BY <2>1, OptionalIsSeq
  <2>3. decoded' \in Seq(Seq(STRING))
    <3>1. out[1].payload \in Seq(STRING)
      BY <2>2 DEF Yield
    <3>2. decoded' = decoded \/ decoded' = Append(decoded, out[1].payload)
      BY <1>1 DEF Decode
    <3>3. decoded \in Seq(Seq(STRING))
      BY DEF TypeOK
    <3> QED
      BY <3>1, <3>2, <3>3, SMTT(30)
  <2>4. out' \in Seq(Yield) /\ Len(out') <= 1
    BY <1>1, EmptySeq DEF Decode
  <2>5. /\ stats \in [line_num : Nat, error_num_total : Nat]
        /\ stats.line_num \in Nat /\ running \in BOOLEAN
        /\ Range(out[1].at) \subseteq DOMAIN given
    BY <1>1 DEF TypeOK, Decode, YieldsOK
  <2>6. /\ stats' \in [line_num : Nat, error_num_total : Nat]
        /\ running' \in BOOLEAN /\ reported' \subseteq DOMAIN given
    <3>1. CASE out[1].payload \in DecodeErrors
      BY <1>1, <2>5, <3>1, Reporting DEF Decode, TypeOK
    <3>2. CASE out[1].payload \notin DecodeErrors
      BY <1>1, <2>5, <3>2 DEF Decode, TypeOK, NoError
    <3> QED
      BY <3>1, <3>2
  <2> QED
    BY <1>1, <2>3, <2>4, <2>6 DEF Decode, TypeOK
<1>2. CASE EndOfFile
  <2>1. stats \in [line_num : Nat, error_num_total : Nat]
    BY DEF TypeOK
  <2>2. stats' \in [line_num : Nat, error_num_total : Nat] /\ running' = FALSE
    <3>1. [stats EXCEPT !.error_num_total = @ + 1] \in [line_num : Nat, error_num_total : Nat]
      BY <2>1
    <3>2. stats' = stats \/ stats' = [stats EXCEPT !.error_num_total = @ + 1]
      BY <1>2 DEF EndOfFile
    <3> QED
      BY <1>2, <2>1, <3>1, <3>2 DEF EndOfFile
  <2> QED
    BY <1>2, <2>2 DEF EndOfFile, TypeOK
<1>3. CASE UNCHANGED vars
  BY <1>3 DEF vars, TypeOK
<1> QED
  BY <1>1, <1>2, <1>3

-----------------------------------------------------------------------------
(* What is buffered and what was yielded.                                  *)

LEMMA NextLineKeepsYields ==
  ASSUME TypeOK, BuffersOK, YieldsOK, NEW line \in Lines, NextLine(line)
  PROVE  YieldsOK'
<1>1. /\ Counts(line) /\ line \in Line
      /\ Drops(line) \/ Alone(line) \/ Begins(line) \/ Joins(line) \/ Ends(line)
  BY EffectOfLine, LineIsTyped
<1>2. DOMAIN given' = DOMAIN given \cup {At}
  BY <1>1, Longer DEF Counts, TypeOK
<1>3. ASSUME NEW parts \in Seq(Packet), parts # << >>, YieldMessage(parts),
             \A i \in DOMAIN parts : parts[i].at \in DOMAIN given'
      PROVE  YieldsOK'
  <2> DEFINE new == YieldOf(parts)
  <2>1. new.at # << >> /\ Range(new.at) \subseteq DOMAIN given'
    <3>1. /\ DOMAIN new.at = DOMAIN parts
          /\ \A i \in DOMAIN parts : new.at[i] = parts[i].at
      BY YieldIsTyped
    <3>2. 1 \in DOMAIN parts
      BY <1>3, EmptySeq
    <3>3. DOMAIN new.at # {} /\ Range(new.at) \subseteq DOMAIN given'
      BY <1>3, <3>1, <3>2 DEF Range
    <3> QED
      BY <3>3
  <2> HIDE DEF new
  <2>2. out' = << new >> /\ yielded' = Append(yielded, new)
    BY <1>3 DEF YieldMessage, new
  <2>3. yielded \in Seq(Yield) /\ new \in Yield
    BY <1>3, YieldIsTyped DEF TypeOK, new
  <2>4. \A i \in DOMAIN yielded' :
          \/ i \in DOMAIN yielded /\ yielded'[i] = yielded[i]
          \/ yielded'[i] = new
    BY <2>2, <2>3
  <2>5. \A i \in DOMAIN yielded' :
          yielded'[i].at # << >> /\ Range(yielded'[i].at) \subseteq DOMAIN given'
    BY <1>2, <2>1, <2>4 DEF YieldsOK
  <2> QED
    BY <2>1, <2>2, <2>5 DEF YieldsOK
<1>4. CASE NoYield \/ Drops(line)
  BY <1>1, <1>2, <1>4 DEF NoYield, Drops, YieldsOK
<1>5. CASE Alone(line)
  <2>1. << Here(line) >> \in Seq(Packet) /\ << Here(line) >> # << >>
    BY LineIsTyped
  <2>2. \A i \in DOMAIN << Here(line) >> : << Here(line) >>[i].at = At
    BY DEF Here
  <2> QED
    BY <1>2, <1>3, <1>5, <2>1, <2>2 DEF Alone
<1>6. CASE Ends(line)
  <2>1. Parts(line) \in Seq(Packet) /\ Parts(line) # << >>
    BY LineIsTyped DEF Parts
  <2>2. \A i \in DOMAIN Parts(line) : Parts(line)[i].at \in DOMAIN given'
    BY <1>1, <1>2, PartsAreLines
  <2> QED
    BY <1>3, <1>4, <1>6, <2>1, <2>2 DEF Ends
<1> QED
  BY <1>1, <1>4, <1>5, <1>6 DEF Begins, Joins

LEMMA QuietKeepsYields ==
  ASSUME YieldsOK, Quiet
  PROVE  YieldsOK'
  BY DEF YieldsOK, Quiet

(* A slot whose buffer the line does not touch. *)
LEMMA OtherBuffers ==
  ASSUME TypeOK, BuffersOK, NEW line \in Lines, Counts(line), NEW slot \in Slots,
         buffers'[slot] = buffers[slot],
         running' /\ Located(line) /\ slot = Slot(line, options) => buffers[slot] = << >>
  PROVE  BufferOK(slot)'
<1>1. /\ options' = options /\ given \in Seq(Line) /\ line \in Line
      /\ given' = Append(given, line) /\ running
  BY LineIsTyped DEF Counts, TypeOK
<1>2. HoldsLines(slot) /\ HoldsAll(slot)
  BY DEF BuffersOK, BufferOK
<1>3. HeardFor(slot) \subseteq HeardFor(slot)' /\ HeardFor(slot) \subseteq DOMAIN given
  BY <1>1, HeardGrows DEF HeardFor
<1>4. \A k \in DOMAIN given : given'[k] = given[k]
  BY <1>1, Longer
<1>5. HoldsLines(slot)'
  BY <1>2, <1>3, <1>4 DEF HoldsLines
<1>6. ASSUME running', buffers[slot] # << >> PROVE HeardFor(slot)' = HeardFor(slot)
  BY <1>1, <1>6, HeardGrows
<1>7. HoldsAll(slot)'
  BY <1>1, <1>2, <1>6 DEF HoldsAll
<1> QED
  BY <1>5, <1>7 DEF BufferOK

LEMMA BeginsKeepsBuffer ==
  ASSUME TypeOK, BuffersOK, NEW line \in Lines, Counts(line), Begins(line),
         NEW slot \in Slots
  PROVE  BufferOK(slot)'
<1>1. /\ options' = options /\ given \in Seq(Line) /\ line \in Line
      /\ given' = Append(given, line) /\ Here(line) \in Packet /\ Located(line)
      /\ << Here(line) >> \in Seq(Packet)
  BY LineIsTyped DEF Counts, TypeOK, Begins
<1>2. CASE slot = Slot(line, options)
  <2>1. buffers'[slot] = << Here(line) >>
    BY <1>1, <1>2, OneBuffer DEF Begins
  <2>2. HeardFor(slot)' = HeardFor(slot) \cup {At} /\ HeardFor(slot) \subseteq DOMAIN given
    <3>1. HeardFor(slot)' = HeardFor(slot) \cup {At}
      BY <1>1, <1>2, HeardGrows
    <3> QED
      BY <3>1 DEF HeardFor
  <2>3. given'[At] = line /\ At \in Nat /\ \A k \in DOMAIN given : k \in Nat /\ k < At
    BY <1>1, Longer
  <2>4. /\ DOMAIN buffers'[slot] = {1}
        /\ buffers'[slot][1].at = At /\ buffers'[slot][1].line = line
    BY <2>1 DEF Here
  <2>5. \A k \in HeardFor(slot)' : k >= At => k = At
    BY <2>2, <2>3
  <2>6. line.number = 1
    BY DEF Begins
  <2>7. HoldsLines(slot)'
    BY <2>2, <2>3, <2>4, <2>6 DEF HoldsLines
  <2>8. HoldsAll(slot)'
    BY <2>4, <2>5 DEF HoldsAll
  <2> QED
    BY <2>7, <2>8 DEF BufferOK
<1>3. CASE slot # Slot(line, options)
  <2>1. buffers'[slot] = buffers[slot]
    BY <1>1, <1>3, OneBuffer DEF Begins
  <2> QED
    BY <1>3, <2>1, OtherBuffers
<1> QED
  BY <1>2, <1>3

LEMMA JoinsKeepsBuffer ==
  ASSUME TypeOK, BuffersOK, NEW line \in Lines, Counts(line), Joins(line),
         NEW slot \in Slots
  PROVE  BufferOK(slot)'
<1>1. /\ options' = options /\ given \in Seq(Line) /\ line \in Line
      /\ given' = Append(given, line) /\ Here(line) \in Packet /\ Located(line)
      /\ Parts(line) \in Seq(Packet) /\ Waiting(line) \in Seq(Packet)
      /\ buffers' = [buffers EXCEPT ![Slot(line, options)] = Parts(line)]
  BY LineIsTyped DEF Counts, TypeOK, Joins, Parts, Waiting
<1>2. CASE slot = Slot(line, options)
  <2>1. buffers'[slot] = Append(buffers[slot], Here(line)) /\ buffers[slot] \in Seq(Packet)
    BY <1>1, <1>2, OneBuffer DEF Parts, Waiting
  <2>2. HeardFor(slot)' = HeardFor(slot) \cup {At} /\ HeardFor(slot) \subseteq DOMAIN given
    <3>1. HeardFor(slot)' = HeardFor(slot) \cup {At}
      BY <1>1, <1>2, HeardGrows
    <3> QED
      BY <3>1 DEF HeardFor
  <2>3. given'[At] = line /\ \A k \in DOMAIN given : given'[k] = given[k]
    BY <1>1, Longer
  <2>4. HoldsLines(slot) /\ HoldsAll(slot) /\ running /\ buffers[slot] # << >>
    BY <1>2 DEF BuffersOK, BufferOK, Counts, Joins, Waiting
  <2> DEFINE n == Len(buffers[slot])
  <2>5. /\ n \in Nat \ {0} /\ DOMAIN buffers[slot] = 1 .. n
        /\ DOMAIN buffers'[slot] = 1 .. n \cup {n + 1}
        /\ \A i \in 1 .. n : buffers'[slot][i] = buffers[slot][i]
        /\ buffers'[slot][n + 1] = Here(line)
    BY <2>1, <2>4, EmptySeq
  <2>6. Here(line).at = At /\ Here(line).line = line
    BY DEF Here
  <2>7. line.number # 1 /\ line.number # line.total
    BY DEF Joins
  <2> HIDE DEF n
  <2>8. HoldsLines(slot)'
    <3>1. \A i \in 1 .. n : LET p == buffers'[slot][i] IN
            /\ p.at \in HeardFor(slot)' /\ p.line = given'[p.at]
            /\ p.line.number = 1 <=> i = 1
            /\ i # 1 => p.line.number # p.line.total
      BY <2>2, <2>3, <2>4, <2>5 DEF HoldsLines
    <3>2. LET p == buffers'[slot][n + 1] IN
            /\ p.at \in HeardFor(slot)' /\ p.line = given'[p.at]
            /\ p.line.number # 1 /\ n + 1 # 1
            /\ p.line.number # p.line.total
      BY <2>2, <2>3, <2>5, <2>6, <2>7
    <3> QED
      BY <2>5, <3>1, <3>2 DEF HoldsLines
  <2>9. HoldsAll(slot)'
    <3>1. buffers'[slot][1] = buffers[slot][1]
      BY <2>5
    <3>2. ASSUME NEW k \in HeardFor(slot)', k >= buffers[slot][1].at
          PROVE  \E i \in DOMAIN buffers'[slot] : k = buffers'[slot][i].at
      BY <2>2, <2>4, <2>5, <2>6, <3>2 DEF HoldsAll
    <3> QED
      BY <3>1, <3>2 DEF HoldsAll
  <2> QED
    BY <2>8, <2>9 DEF BufferOK
<1>3. CASE slot # Slot(line, options)
  <2>1. buffers'[slot] = buffers[slot]
    BY <1>1, <1>3, OneBuffer
  <2> QED
    BY <1>3, <2>1, OtherBuffers
<1> QED
  BY <1>2, <1>3

LEMMA NextLineKeepsBuffers ==
  ASSUME TypeOK, BuffersOK, NEW line \in Lines, NextLine(line)
  PROVE  BuffersOK'
<1> SUFFICES ASSUME NEW slot \in Slots PROVE BufferOK(slot)'
  BY DEF BuffersOK, Slots
<1>1. /\ Counts(line)
      /\ Drops(line) \/ Alone(line) \/ Begins(line) \/ Joins(line) \/ Ends(line)
  BY EffectOfLine
<1>2. CASE Drops(line) \/ Alone(line)
  <2>1. buffers'[slot] = buffers[slot]
    BY <1>2 DEF Drops, Alone
  <2>2. running' /\ Located(line) /\ slot = Slot(line, options) => buffers[slot] = << >>
    BY <1>2 DEF Drops, Alone, Waiting
  <2> QED
    BY <1>1, <2>1, <2>2, OtherBuffers
<1>3. CASE Ends(line)
  <2>1. << >> \in Seq(Packet)
    OBVIOUS
  <2>2. CASE slot = Slot(line, options)
    <3>1. buffers'[slot] = << >>
      BY <1>3, <2>1, <2>2, OneBuffer DEF Ends
    <3> QED
      BY <3>1 DEF BufferOK, HoldsLines, HoldsAll
  <2>3. CASE slot # Slot(line, options)
    <3>1. buffers'[slot] = buffers[slot]
      BY <1>3, <2>1, <2>3, OneBuffer DEF Ends
    <3> QED
      BY <1>1, <2>3, <3>1, OtherBuffers
  <2> QED
    BY <2>2, <2>3
<1> QED
  BY <1>1, <1>2, <1>3, BeginsKeepsBuffer, JoinsKeepsBuffer

LEMMA QuietKeepsBuffers ==
  ASSUME BuffersOK, Quiet
  PROVE  BuffersOK'
<1> SUFFICES ASSUME NEW slot \in Slots PROVE BufferOK(slot)'
  BY DEF BuffersOK, Slots
<1>1. buffers' = buffers /\ given' = given /\ options' = options /\ (running' => running)
  BY DEF Quiet
<1>2. HeardFor(slot)' = HeardFor(slot)
  BY <1>1 DEF HeardFor, SlotAt, Located
<1>3. HoldsLines(slot) /\ HoldsAll(slot)
  BY DEF BuffersOK, BufferOK
<1> QED
  BY <1>1, <1>2, <1>3 DEF BufferOK, HoldsLines, HoldsAll

-----------------------------------------------------------------------------
(* The numbers of the lines that are buffered, slot by slot.               *)

Holds(slot) == {buffers[slot][i].at : i \in DOMAIN buffers[slot]}

LEMMA BufferedIsHeld ==
  /\ Buffered = UNION {Holds(slot) : slot \in Slots}
  /\ Buffered' = UNION {Holds(slot)' : slot \in Slots}
  BY DEF Buffered, Holds, Slots

LEMMA HeldIsHeard ==
  ASSUME BuffersOK, NEW slot \in Slots
  PROVE  Holds(slot) \subseteq HeardFor(slot) /\ HeardFor(slot) \subseteq DOMAIN given
  BY DEF BuffersOK, BufferOK, HoldsLines, Holds, HeardFor

(* No line is heard for two slots. *)
LEMMA HeardForOne ==
  ASSUME NEW slot, NEW other, slot # other
  PROVE  HeardFor(slot) \cap HeardFor(other) = {}
  BY DEF HeardFor

LEMMA AppendedAts ==
  ASSUME NEW b \in Seq(Packet), NEW p \in Packet
  PROVE  {Append(b, p)[i].at : i \in DOMAIN Append(b, p)}
           = {b[i].at : i \in DOMAIN b} \cup {p.at}
<1> DEFINE n == Len(b)
           c == Append(b, p)
<1>1. /\ n \in Nat /\ DOMAIN b = 1 .. n /\ DOMAIN c = 1 .. n \cup {n + 1}
      /\ \A i \in 1 .. n : c[i] = b[i]
      /\ c[n + 1] = p
  OBVIOUS
<1> HIDE DEF n, c
<1>2. {c[i].at : i \in DOMAIN c} = {b[i].at : i \in DOMAIN b} \cup {p.at}
  BY <1>1
<1> QED
  BY <1>2 DEF c

LEMMA HeldAfterLine ==
  ASSUME TypeOK, NEW line \in Lines, NEW slot \in Slots
  PROVE  /\ Drops(line) \/ Alone(line) => Holds(slot)' = Holds(slot)
         /\ Begins(line) => Holds(slot)' =
              IF slot = Slot(line, options) THEN {At} ELSE Holds(slot)
         /\ Joins(line) => Holds(slot)' =
              IF slot = Slot(line, options) THEN Holds(slot) \cup {At} ELSE Holds(slot)
         /\ Ends(line) =>
              /\ Holds(slot)' = IF slot = Slot(line, options) THEN {} ELSE Holds(slot)
              /\ slot = Slot(line, options) => PartsAt(line) = Holds(slot) \cup {At}
<1>1. /\ Here(line) \in Packet /\ Here(line).at = At
      /\ << >> \in Seq(Packet) /\ << Here(line) >> \in Seq(Packet)
      /\ Parts(line) \in Seq(Packet) /\ Waiting(line) \in Seq(Packet)
  BY LineIsTyped DEF Here
<1>2. slot = Slot(line, options) => PartsAt(line) = Holds(slot) \cup {At}
  <2> SUFFICES ASSUME slot = Slot(line, options) PROVE PartsAt(line) = Holds(slot) \cup {At}
    OBVIOUS
  <2>1. Waiting(line) = buffers[slot] /\ Parts(line) = Append(Waiting(line), Here(line))
    BY DEF Waiting, Parts
  <2>2. {Parts(line)[i].at : i \in DOMAIN Parts(line)}
          = {Waiting(line)[i].at : i \in DOMAIN Waiting(line)} \cup {At}
    BY <1>1, <2>1, AppendedAts
  <2> QED
    BY <2>1, <2>2 DEF PartsAt, Holds
<1>3. Drops(line) \/ Alone(line) => Holds(slot)' = Holds(slot)
  BY DEF Drops, Alone, Holds
<1>4. ASSUME Begins(line)
      PROVE  Holds(slot)' = IF slot = Slot(line, options) THEN {At} ELSE Holds(slot)
  <2>1. buffers'[slot] = IF slot = Slot(line, options) THEN << Here(line) >> ELSE buffers[slot]
    BY <1>1, <1>4, OneBuffer DEF Begins
  <2>2. {<< Here(line) >>[i].at : i \in DOMAIN << Here(line) >>} = {At}
    BY <1>1
  <2> QED
    BY <2>1, <2>2 DEF Holds
<1>5. ASSUME Joins(line)
      PROVE  Holds(slot)' =
               IF slot = Slot(line, options) THEN Holds(slot) \cup {At} ELSE Holds(slot)
  <2>1. buffers'[slot] = IF slot = Slot(line, options) THEN Parts(line) ELSE buffers[slot]
    <3>1. buffers' = [buffers EXCEPT ![Slot(line, options)] = Parts(line)]
      BY <1>5 DEF Joins, Parts, Waiting
    <3> QED
      BY <1>1, <3>1, OneBuffer
  <2> QED
    BY <1>2, <2>1 DEF Holds, PartsAt
<1>6. ASSUME Ends(line)
      PROVE  Holds(slot)' = IF slot = Slot(line, options) THEN {} ELSE Holds(slot)
  <2>1. buffers'[slot] = IF slot = Slot(line, options) THEN << >> ELSE buffers[slot]
    BY <1>1, <1>6, OneBuffer DEF Ends
  <2> QED
    BY <2>1 DEF Holds
<1> QED
  BY <1>2, <1>3, <1>4, <1>5, <1>6

(* All slots together. *)
LEMMA BufferedAfterLine ==
  ASSUME TypeOK, BuffersOK, NEW line \in Lines
  PROVE  /\ Drops(line) \/ Alone(line) => Buffered' = Buffered
         /\ Begins(line) => /\ At \in Buffered' /\ Buffered' \subseteq Buffered \cup {At}
                            /\ Buffered \ Buffered' \subseteq HeardFor(Slot(line, options))
         /\ Joins(line) => Buffered' = Buffered \cup {At}
         /\ Ends(line) => /\ PartsAt(line) \subseteq Buffered \cup {At}
                          /\ At \in PartsAt(line)
                          /\ Buffered' = Buffered \ PartsAt(line)
<1>1. PICK s \in Slots : s = Slot(line, options)
  BY LineIsTyped
<1>2. At \notin DOMAIN given
  BY DEF TypeOK, At
<1>3. \A slot \in Slots : Holds(slot) \subseteq HeardFor(slot)
                          /\ HeardFor(slot) \subseteq DOMAIN given
  BY HeldIsHeard
<1>4. \A slot, other \in Slots : slot # other => Holds(slot) \cap Holds(other) = {}
  BY <1>3, HeardForOne
<1>5. ASSUME Drops(line) \/ Alone(line) PROVE Buffered' = Buffered
  BY <1>5, BufferedIsHeld, HeldAfterLine
<1>6. ASSUME Begins(line)
      PROVE  /\ At \in Buffered' /\ Buffered' \subseteq Buffered \cup {At}
             /\ Buffered \ Buffered' \subseteq HeardFor(s)
  <2>1. \A slot \in Slots : Holds(slot)' = IF slot = s THEN {At} ELSE Holds(slot)
    BY <1>1, <1>6, HeldAfterLine
  <2> QED
    BY <1>3, <2>1, BufferedIsHeld
<1>7. ASSUME Joins(line) PROVE Buffered' = Buffered \cup {At}
  <2>1. \A slot \in Slots :
          Holds(slot)' = IF slot = s THEN Holds(slot) \cup {At} ELSE Holds(slot)
    BY <1>1, <1>7, HeldAfterLine
  <2> QED
    BY <2>1, BufferedIsHeld
<1>8. ASSUME Ends(line)
      PROVE  /\ PartsAt(line) \subseteq Buffered \cup {At} /\ At \in PartsAt(line)
             /\ Buffered' = Buffered \ PartsAt(line)
  <2>1. \A slot \in Slots : Holds(slot)' = IF slot = s THEN {} ELSE Holds(slot)
    BY <1>1, <1>8, HeldAfterLine
  <2>2. PartsAt(line) = Holds(s) \cup {At}
    BY <1>1, <1>8, HeldAfterLine
  <2> HIDE DEF Holds
  <2>3. \A slot \in Slots : At \notin Holds(slot)
    BY <1>2, <1>3
  <2> QED
    BY <1>4, <2>1, <2>2, <2>3, BufferedIsHeld
<1>9. HeardFor(Slot(line, options)) = HeardFor(s)
  BY <1>1
<1> QED
  BY <1>5, <1>6, <1>7, <1>8, <1>9, Zenon

-----------------------------------------------------------------------------
(* What was yielded.                                                       *)

(* One message more. *)
LEMMA YieldedGrows ==
  ASSUME TypeOK, NEW parts \in Seq(Packet), YieldMessage(parts)
  PROVE  \E n : /\ n \notin DOMAIN yielded /\ DOMAIN yielded' = DOMAIN yielded \cup {n}
                /\ \A i \in DOMAIN yielded : yielded'[i] = yielded[i]
                /\ yielded'[n] = YieldOf(parts)
<1>1. yielded \in Seq(Yield) /\ YieldOf(parts) \in Yield
      /\ yielded' = Append(yielded, YieldOf(parts))
  BY YieldIsTyped DEF TypeOK, YieldMessage
<1> DEFINE n == Len(yielded) + 1
           new == YieldOf(parts)
<1> HIDE DEF new
<1>2. /\ n \notin DOMAIN yielded /\ DOMAIN yielded' = DOMAIN yielded \cup {n}
      /\ \A i \in DOMAIN yielded : yielded'[i] = yielded[i]
      /\ yielded'[n] = new
  BY <1>1 DEF new
<1> QED
  BY <1>2 DEF new

LEMMA YieldOfRange ==
  ASSUME NEW parts \in Seq(Packet)
  PROVE  Range(YieldOf(parts).at) = {parts[i].at : i \in DOMAIN parts}
  BY YieldIsTyped DEF Range

LEMMA YieldKeepsOnce ==
  ASSUME TypeOK, YieldedOnce, NEW parts \in Seq(Packet), YieldMessage(parts),
         NEW ats, ats = {parts[i].at : i \in DOMAIN parts},
         \A i \in DOMAIN yielded : Range(yielded[i].at) \cap ats = {},
         Buffered' \subseteq Buffered \ ats
  PROVE  YieldedOnce'
<1>1. PICK n : /\ n \notin DOMAIN yielded /\ DOMAIN yielded' = DOMAIN yielded \cup {n}
               /\ \A i \in DOMAIN yielded : yielded'[i] = yielded[i]
               /\ yielded'[n] = YieldOf(parts)
  BY YieldedGrows
<1>2. Range(yielded'[n].at) = ats
  BY <1>1, YieldOfRange
<1>3. \A i \in DOMAIN yielded : Range(yielded'[i].at) = Range(yielded[i].at)
  BY <1>1
<1>4. \A i, j \in DOMAIN yielded' :
        i # j => Range(yielded'[i].at) \cap Range(yielded'[j].at) = {}
  BY <1>1, <1>2, <1>3 DEF YieldedOnce
<1>5. \A i \in DOMAIN yielded' : Range(yielded'[i].at) \cap Buffered' = {}
  BY <1>1, <1>2, <1>3 DEF YieldedOnce
<1> QED
  BY <1>4, <1>5 DEF YieldedOnce

LEMMA NextLineKeepsOnce ==
  ASSUME TypeOK, BuffersOK, YieldsOK, YieldedOnce, NEW line \in Lines, NextLine(line)
  PROVE  YieldedOnce'
<1>1. Drops(line) \/ Alone(line) \/ Begins(line) \/ Joins(line) \/ Ends(line)
  BY EffectOfLine
<1>2. At \notin DOMAIN given /\ Buffered \subseteq DOMAIN given
      /\ \A i \in DOMAIN yielded : Range(yielded[i].at) \subseteq DOMAIN given
  BY BufferedIsHeld, HeldIsHeard DEF TypeOK, At, YieldsOK
<1>3. ASSUME yielded' = yielded, Buffered' \subseteq Buffered \cup {At}
      PROVE  YieldedOnce'
  BY <1>2, <1>3 DEF YieldedOnce
<1>4. CASE Drops(line) \/ Begins(line) \/ Joins(line)
  BY <1>3, <1>4, BufferedAfterLine DEF Drops, Begins, Joins, NoYield
<1>5. CASE Alone(line)
  <2>1. << Here(line) >> \in Seq(Packet) /\ Here(line).at = At
    BY LineIsTyped DEF Here
  <2>2. {At} = {<< Here(line) >>[i].at : i \in DOMAIN << Here(line) >>}
    BY <2>1
  <2>3. Buffered' = Buffered
    BY <1>5, BufferedAfterLine
  <2>4. \A i \in DOMAIN yielded : Range(yielded[i].at) \cap {At} = {}
    BY <1>2
  <2>5. Buffered' \subseteq Buffered \ {At}
    BY <1>2, <2>3
  <2> QED
    BY <1>5, <2>1, <2>2, <2>4, <2>5, YieldKeepsOnce DEF Alone
<1>6. CASE Ends(line)
  <2>1. /\ PartsAt(line) \subseteq Buffered \cup {At}
        /\ Buffered' = Buffered \ PartsAt(line)
    BY <1>6, BufferedAfterLine
  <2>2. \A i \in DOMAIN yielded : Range(yielded[i].at) \cap PartsAt(line) = {}
    BY <1>2, <2>1 DEF YieldedOnce
  <2>3. CASE NoYield
    BY <1>3, <2>1, <2>3 DEF NoYield
  <2>4. CASE YieldMessage(Parts(line))
    BY <2>1, <2>2, <2>4, YieldKeepsOnce, LineIsTyped DEF PartsAt
  <2> QED
    BY <1>6, <2>3, <2>4 DEF Ends
<1> QED
  BY <1>1, <1>4, <1>5, <1>6

LEMMA QuietKeepsOnce ==
  ASSUME YieldedOnce, Quiet
  PROVE  YieldedOnce'
<1>1. Buffered' = Buffered /\ yielded' = yielded
  BY DEF Quiet, Buffered, Slots
<1> QED
  BY <1>1 DEF YieldedOnce

-----------------------------------------------------------------------------
(* No line is lost.                                                        *)

(* What has become of a line. *)
Yielded(k) == \E i \in DOMAIN yielded : k \in Range(yielded[i].at)

GaveWay(k) ==
  Located(given[k])
    /\ \E m \in k + 1 .. Len(given) : Starts(m) /\ SlotAt(m) = SlotAt(k)

LEMMA YieldedStays ==
  ASSUME TypeOK, NEW parts \in Seq(Packet), YieldMessage(parts)
  PROVE  /\ \A k : Yielded(k) => Yielded(k)'
         /\ \A k \in {parts[i].at : i \in DOMAIN parts} : Yielded(k)'
<1>1. PICK n : /\ n \notin DOMAIN yielded /\ DOMAIN yielded' = DOMAIN yielded \cup {n}
               /\ \A i \in DOMAIN yielded : yielded'[i] = yielded[i]
               /\ yielded'[n] = YieldOf(parts)
  BY YieldedGrows
<1>2. Range(yielded'[n].at) = {parts[i].at : i \in DOMAIN parts}
  BY <1>1, YieldOfRange
<1> QED
  BY <1>1, <1>2 DEF Yielded

LEMMA GivingWayStays ==
  ASSUME TypeOK, NEW line \in Lines, Counts(line), NEW k \in DOMAIN given
  PROVE  /\ GaveWay(k) => GaveWay(k)'
         /\ Begins(line) /\ k \in HeardFor(Slot(line, options)) => GaveWay(k)'
<1>1. /\ given \in Seq(Line) /\ line \in Line /\ given' = Append(given, line)
      /\ options' = options
  BY LineIsTyped DEF TypeOK, Counts
<1>2. /\ DOMAIN given = 1 .. Len(given) /\ Len(given) \in Nat /\ Len(given') = At
      /\ At = Len(given) + 1
      /\ \A m \in DOMAIN given : given'[m] = given[m]
      /\ given'[At] = line
  BY <1>1, Longer DEF At
<1>3. \A m \in DOMAIN given : SlotAt(m)' = SlotAt(m) /\ (Located(given[m])' <=> Located(given[m]))
  BY <1>1, HeardGrows
<1>4. \A m \in DOMAIN given : Starts(m) => Starts(m)'
  BY <1>2, <1>3 DEF Starts
<1>5. GaveWay(k) => GaveWay(k)'
  BY <1>2, <1>3, <1>4 DEF GaveWay
<1>6. ASSUME Begins(line), k \in HeardFor(Slot(line, options)) PROVE GaveWay(k)'
  <2>1. Located(line) /\ line.number = 1 /\ Located(given[k])
        /\ SlotAt(k) = Slot(line, options)
    BY <1>6 DEF Begins, HeardFor
  <2>2. \A m : m = At => SlotAt(m)' = Slot(line, options) /\ Located(given[m])'
    BY <1>1, <2>1, HeardGrows
  <2>3. \A m : m = At => Starts(m)'
    BY <1>2, <2>1, <2>2 DEF Starts
  <2>4. At \in k + 1 .. Len(given')
    BY <1>2
  <2> QED
    BY <1>3, <2>1, <2>2, <2>3, <2>4 DEF GaveWay
<1> QED
  BY <1>5, <1>6

LEMMA NextLineKeepsLines ==
  ASSUME TypeOK, BuffersOK, NoSilentLoss, NEW line \in Lines, NextLine(line)
  PROVE  NoSilentLoss'
<1>1. /\ Counts(line)
      /\ Drops(line) \/ Alone(line) \/ Begins(line) \/ Joins(line) \/ Ends(line)
  BY EffectOfLine
<1>2. /\ DOMAIN given' = DOMAIN given \cup {At} /\ reported \subseteq reported'
  BY <1>1, Longer, LineIsTyped DEF Counts, TypeOK
<1>3. /\ << Here(line) >> \in Seq(Packet) /\ Here(line).at = At
      /\ Parts(line) \in Seq(Packet)
      /\ {<< Here(line) >>[i].at : i \in DOMAIN << Here(line) >>} = {At}
  BY LineIsTyped DEF Here
<1>4. \A k : Yielded(k) => Yielded(k)'
  <2>1. CASE yielded' = yielded
    BY <2>1 DEF Yielded
  <2>2. CASE YieldMessage(<< Here(line) >>) \/ YieldMessage(Parts(line))
    BY <1>3, <2>2, YieldedStays
  <2> QED
    BY <1>1, <2>1, <2>2 DEF Drops, Alone, Begins, Joins, Ends, NoYield
<1>5. \A k \in DOMAIN given : GaveWay(k) => GaveWay(k)'
  BY <1>1, GivingWayStays
<1>6. \A k \in Buffered : k \in DOMAIN given =>
        Yielded(k)' \/ k \in Buffered' \/ k \in reported' \/ GaveWay(k)'
  <2>1. CASE Drops(line) \/ Alone(line) \/ Joins(line)
    BY <2>1, BufferedAfterLine
  <2>2. CASE Begins(line)
    BY <1>1, <2>2, BufferedAfterLine, GivingWayStays
  <2>3. CASE Ends(line)
    <3>1. Buffered' = Buffered \ PartsAt(line)
      BY <2>3, BufferedAfterLine
    <3>2. CASE YieldMessage(Parts(line))
      BY <1>3, <3>1, <3>2, YieldedStays DEF PartsAt
    <3>3. CASE PartsAt(line) \subseteq reported'
      BY <3>1, <3>3
    <3> QED
      BY <2>3, <3>2, <3>3 DEF Ends
  <2> QED
    BY <1>1, <2>1, <2>2, <2>3
<1>7. \A k : k = At => Yielded(k)' \/ k \in Buffered' \/ k \in reported'
  <2>1. CASE Drops(line)
    BY <2>1 DEF Drops
  <2>2. CASE Alone(line)
    BY <1>3, <2>2, YieldedStays DEF Alone
  <2>3. CASE Begins(line) \/ Joins(line)
    BY <2>3, BufferedAfterLine
  <2>4. CASE Ends(line)
    <3>1. At \in PartsAt(line)
      BY <2>4, BufferedAfterLine
    <3>2. CASE YieldMessage(Parts(line))
      BY <1>3, <3>1, <3>2, YieldedStays DEF PartsAt
    <3>3. CASE PartsAt(line) \subseteq reported'
      BY <3>1, <3>3
    <3> QED
      BY <2>4, <3>2, <3>3 DEF Ends
  <2> QED
    BY <1>1, <2>1, <2>2, <2>3, <2>4
<1>8. \A k \in DOMAIN given' :
        Yielded(k)' \/ k \in Buffered' \/ k \in reported' \/ GaveWay(k)'
  <2> TAKE k \in DOMAIN given'
  <2>1. CASE k \in DOMAIN given
    <3>1. Yielded(k) \/ k \in Buffered \/ k \in reported \/ GaveWay(k)
      BY <2>1 DEF NoSilentLoss, Yielded, GaveWay
    <3> QED
      BY <1>2, <1>4, <1>5, <1>6, <2>1, <3>1
  <2> QED
    BY <1>2, <1>7, <2>1
<1> QED
  BY <1>8 DEF NoSilentLoss, Yielded, GaveWay

LEMMA QuietKeepsLines ==
  ASSUME NoSilentLoss, Quiet
  PROVE  NoSilentLoss'
<1>1. /\ Buffered' = Buffered /\ yielded' = yielded /\ given' = given
      /\ options' = options /\ reported \subseteq reported'
  BY DEF Quiet, Buffered, Slots
<1>2. \A k : GaveWay(k) => GaveWay(k)'
  BY <1>1 DEF GaveWay, Starts, SlotAt, Located
<1> QED
  BY <1>1, <1>2 DEF NoSilentLoss, GaveWay

-----------------------------------------------------------------------------
(* Each message is one message, and its times lie together.                *)

(* at, without what it says of lines after its last one. *)
LEMMA OneMessageStays ==
  ASSUME TypeOK, NEW line \in Lines, Counts(line), NEW at \in Seq(Nat),
         at # << >>, Range(at) \subseteq DOMAIN given
  PROVE  /\ OneMessage(at) => OneMessage(at)'
         /\ InSpan(at) => InSpan(at)'
         /\ given'[Last(at)] = given[Last(at)]
<1>1. /\ given \in Seq(Line) /\ line \in Line /\ given' = Append(given, line)
      /\ options' = options
  BY LineIsTyped DEF TypeOK, Counts
<1>2. /\ DOMAIN given = 1 .. Len(given) /\ Len(given) \in Nat
      /\ \A k \in DOMAIN given : given'[k] = given[k]
      /\ \A k \in DOMAIN given :
           SlotAt(k)' = SlotAt(k) /\ (Located(given[k])' <=> Located(given[k]))
  BY <1>1, Longer, HeardGrows
<1>3. /\ 1 \in DOMAIN at /\ Len(at) \in DOMAIN at /\ Last(at) = at[Len(at)]
  BY EmptySeq DEF Last
<1>4. \A i \in DOMAIN at : at[i] \in DOMAIN given
  BY DEF Range
<1>5. OneMessage(at) => OneMessage(at)'
  <2> DEFINE l == at[Len(at)]
  <2>1. at[1] \in DOMAIN given /\ l \in DOMAIN given
    BY <1>3, <1>4
  <2>2. \A k \in at[1] .. l : k \in DOMAIN given
    BY <1>2, <2>1
  <2> QED
    BY <1>2, <1>3, <2>1, <2>2, SMTT(30) DEF OneMessage, Starts
<1>6. InSpan(at) => InSpan(at)'
  BY <1>1, <1>2, <1>4 DEF InSpan
<1> QED
  BY <1>2, <1>3, <1>4, <1>5, <1>6

(* Timestamps of two lines that are compared. *)
LEMMA WithinWindow ==
  ASSUME options \in Option, NEW l \in Line, NEW last \in Line,
         InWindow(l, last), l.time # << >>, last.time # << >>
  PROVE  /\ l.time[1] \in Nat /\ last.time[1] \in Nat
         /\ l.time[1] - last.time[1] \in - options.window .. options.window
<1>1. l.time \in Optional(Nat) /\ last.time \in Optional(Nat)
  BY DEF Line
<1>2. /\ l.time \in Seq(Nat) /\ Len(l.time) = 1 /\ l.time[1] \in Nat
      /\ last.time \in Seq(Nat) /\ Len(last.time) = 1 /\ last.time[1] \in Nat
  BY <1>1, OptionalIsSeq
<1>3. Times(l, last) = l.time \o last.time
  BY DEF Times
<1>4. Times(l, last)[1] = l.time[1] /\ Times(l, last)[2] = last.time[1]
  <2> DEFINE x == l.time
             y == last.time
  <2> HIDE DEF x, y
  <2>1. \A i \in 1 .. Len(x) + Len(y) :
          (x \o y)[i] = IF i <= Len(x) THEN x[i] ELSE y[i - Len(x)]
    <3>1. x \in Seq(Nat) /\ y \in Seq(Nat)
      BY <1>2 DEF x, y
    <3> QED
      BY <3>1, ConcatProperties
  <2>2. 1 \in 1 .. 1 + 1 /\ 2 \in 1 .. 1 + 1 /\ 1 <= 1 /\ ~ 2 <= 1 /\ 2 - 1 = 1
    OBVIOUS
  <2>3. Len(x) = 1 /\ Len(y) = 1
    BY <1>2 DEF x, y
  <2>4. (x \o y)[1] = x[1] /\ (x \o y)[2] = y[1]
    BY <2>1, <2>2, <2>3
  <2> QED
    BY <1>3, <2>4 DEF x, y
<1> QED
  BY <1>2, <1>4 DEF InWindow

(* The lines of the message that a last line completes. *)
LEMMA LinesOfParts ==
  ASSUME TypeOK, BuffersOK, NEW line \in Lines, Counts(line), Ends(line),
         NEW s \in Slots, s = Slot(line, options),
         NEW at, at = YieldOf(Parts(line)).at
  PROVE  LET n == Len(at) IN
         /\ n \in Nat /\ n > 1 /\ at \in Seq(Nat) /\ DOMAIN at = 1 .. n
         /\ DOMAIN Parts(line) = 1 .. n /\ at[n] = At
         /\ \A i \in 1 .. n : at[i] = Parts(line)[i].at /\ at[i] \in DOMAIN given'
                              /\ Parts(line)[i].line = given'[at[i]]
         /\ \A i \in 1 .. n - 1 : /\ at[i] \in HeardFor(s)
                                  /\ given[at[i]].number = 1 <=> i = 1
                                  /\ i # 1 => given[at[i]].number # given[at[i]].total
         /\ \A k \in HeardFor(s) : k >= at[1] => \E i \in 1 .. n - 1 : k = at[i]
<1> DEFINE b == buffers[s]
           m == Len(b)
<1>1. /\ given \in Seq(Line) /\ line \in Line /\ given' = Append(given, line)
      /\ options' = options /\ running /\ b \in Seq(Packet) /\ b # << >>
      /\ Parts(line) = Append(b, Here(line)) /\ Here(line) \in Packet
  BY LineIsTyped DEF TypeOK, Counts, Ends, Waiting, Parts
<1>2. HoldsLines(s) /\ HoldsAll(s)
  BY DEF BuffersOK, BufferOK
<1>3. /\ m \in Nat \ {0} /\ DOMAIN b = 1 .. m
      /\ DOMAIN Parts(line) = 1 .. m + 1 /\ Len(Parts(line)) = m + 1
      /\ \A i \in 1 .. m : Parts(line)[i] = b[i]
      /\ Parts(line)[m + 1] = Here(line)
  BY <1>1, EmptySeq
<1> HIDE DEF m
<1>4. /\ at \in Seq(Nat) /\ DOMAIN at = 1 .. m + 1 /\ Len(at) = m + 1
      /\ \A i \in 1 .. m + 1 : at[i] = Parts(line)[i].at
  BY <1>3, YieldIsTyped, LineIsTyped DEF Yield
<1>5. Here(line).at = At /\ Here(line).line = line
  BY DEF Here
<1>6. /\ \A k \in DOMAIN given : given'[k] = given[k] /\ k \in DOMAIN given'
      /\ given'[At] = line /\ At \in DOMAIN given'
  BY <1>1, Longer
<1>7. HeardFor(s) \subseteq DOMAIN given
  BY DEF HeardFor
<1>8. \A i \in 1 .. m : /\ at[i] = b[i].at /\ at[i] \in HeardFor(s)
                        /\ b[i].line = given[at[i]] /\ b[i].line = given'[at[i]]
                        /\ at[i] \in DOMAIN given'
                        /\ given[at[i]].number = 1 <=> i = 1
                        /\ i # 1 => given[at[i]].number # given[at[i]].total
  <2>1. \A i \in 1 .. m :
          /\ b[i].at \in HeardFor(s) /\ b[i].line = given[b[i].at]
          /\ b[i].line.number = 1 <=> i = 1
          /\ i # 1 => b[i].line.number # b[i].line.total
    BY <1>2, <1>3 DEF HoldsLines
  <2>2. \A i \in 1 .. m : at[i] = b[i].at
    BY <1>3, <1>4
  <2>3. \A k \in HeardFor(s) : k \in DOMAIN given' /\ given'[k] = given[k]
    BY <1>6, <1>7
  <2> QED
    BY <2>1, <2>2, <2>3
<1>9. \A k \in HeardFor(s) : k >= at[1] => \E i \in 1 .. m : k = at[i]
  <2>1. at[1] = b[1].at
    BY <1>3, <1>8
  <2>2. \A k \in HeardFor(s) : k >= b[1].at => \E i \in DOMAIN b : k = b[i].at
    BY <1>1, <1>2 DEF HoldsAll
  <2>3. \A i \in 1 .. m : at[i] = b[i].at
    BY <1>8
  <2> QED
    BY <1>3, <2>1, <2>2, <2>3
<1>10. \A i \in 1 .. m + 1 : at[i] = Parts(line)[i].at /\ at[i] \in DOMAIN given'
                             /\ Parts(line)[i].line = given'[at[i]]
  BY <1>3, <1>4, <1>5, <1>6, <1>8, SMTT(30)
<1>11. at[m + 1] = At /\ m + 1 > 1 /\ (m + 1) - 1 = m /\ m + 1 \in Nat
  BY <1>3, <1>4, <1>5
<1> QED
  BY <1>3, <1>4, <1>8, <1>9, <1>10, <1>11

LEMMA NewMessage ==
  ASSUME TypeOK, BuffersOK, NEW line \in Lines, Counts(line), Ends(line),
         \A i \in DOMAIN Parts(line) : InWindow(Parts(line)[i].line, line),
         NEW at, at = YieldOf(Parts(line)).at
  PROVE  OneMessage(at)' /\ (line.time # << >> => InSpan(at)') /\ Last(at) = At
<1>1. PICK s \in Slots : s = Slot(line, options)
  BY LineIsTyped
<1> DEFINE n == Len(at)
<1>2. /\ n \in Nat /\ n > 1 /\ at \in Seq(Nat) /\ DOMAIN at = 1 .. n
      /\ DOMAIN Parts(line) = 1 .. n /\ at[n] = At
      /\ \A i \in 1 .. n : at[i] = Parts(line)[i].at /\ at[i] \in DOMAIN given'
                           /\ Parts(line)[i].line = given'[at[i]]
      /\ \A i \in 1 .. n - 1 : /\ at[i] \in HeardFor(s)
                               /\ given[at[i]].number = 1 <=> i = 1
                               /\ i # 1 => given[at[i]].number # given[at[i]].total
      /\ \A k \in HeardFor(s) : k >= at[1] => \E i \in 1 .. n - 1 : k = at[i]
  BY <1>1, LinesOfParts, SMTT(30)
<1>3. /\ given \in Seq(Line) /\ line \in Line /\ given' = Append(given, line)
      /\ options' = options /\ options \in Option
  BY LineIsTyped DEF TypeOK, Counts
<1>4. /\ \A k \in DOMAIN given : given'[k] = given[k] /\ k < At
      /\ given' \in Seq(Line) /\ given'[At] = line
      /\ DOMAIN given' = DOMAIN given \cup {At}
  BY <1>3, Longer
<1>5. Located(line) /\ line.number = line.total /\ HeardFor(s)' = HeardFor(s) \cup {At}
      /\ HeardFor(s) \subseteq DOMAIN given
  BY <1>1, <1>3, HeardGrows DEF Ends, HeardFor
<1> HIDE DEF n
<1>6. Last(at) = at[n]
  BY <1>2 DEF Last, n
<1>7. \A k \in HeardFor(s)' :
        k >= at[1] => /\ k \in Range(at)
                      /\ k \notin {at[1], At} =>
                           given'[k].number \notin {1, given'[k].total}
  <2> SUFFICES ASSUME NEW k \in HeardFor(s)', k >= at[1]
               PROVE  /\ k \in Range(at)
                      /\ k \notin {at[1], At} =>
                           given'[k].number \notin {1, given'[k].total}
    OBVIOUS
  <2>1. CASE k = At
    <3>1. n \in DOMAIN at
      BY <1>2
    <3> QED
      BY <1>2, <2>1, <3>1 DEF Range
  <2>2. CASE k \in HeardFor(s)
    <3>1. PICK i \in 1 .. n - 1 : k = at[i]
      BY <1>2, <2>2
    <3>2. i \in 1 .. n /\ k \in DOMAIN given /\ given'[k] = given[k]
      BY <1>2, <1>4, <1>5, <2>2
    <3> QED
      BY <1>2, <3>1, <3>2 DEF Range
  <2> QED
    BY <1>5, <2>1, <2>2
<1>8. Starts(at[1])'
  <2>1. at[1] \in HeardFor(s) /\ given[at[1]].number = 1
    BY <1>2
  <2>2. Located(given[at[1]])' /\ given'[at[1]].number = 1
    BY <1>3, <1>4, <1>5, <2>1, HeardGrows DEF HeardFor
  <2> QED
    BY <2>2 DEF Starts
<1>9. \A k : k = At => SlotAt(k)' = s
  BY <1>1, <1>3, HeardGrows
<1>10. SlotAt(Last(at))' = s /\ given'[Last(at)] = line
  BY <1>2, <1>4, <1>6, <1>9
<1>11. \A k \in at[1] .. Last(at) :
         Located(given[k])' /\ SlotAt(k)' = s => k \in HeardFor(s)'
  <2> SUFFICES ASSUME NEW k \in at[1] .. Last(at) PROVE k \in DOMAIN given'
    BY DEF HeardFor
  <2>1. at[1] \in DOMAIN given' /\ Last(at) \in DOMAIN given'
    BY <1>2, <1>6
  <2>2. DOMAIN given' = 1 .. Len(given') /\ Len(given') \in Nat
    BY <1>4
  <2> QED
    BY <2>1, <2>2
<1>12. OneMessage(at)'
  <2>1. \A k \in at[1] .. Last(at) :
          Located(given[k])' /\ SlotAt(k)' = SlotAt(Last(at))' =>
            /\ k \in Range(at)
            /\ k \notin {at[1], Last(at)} =>
                 given'[k].number \notin {1, given'[k].total}
    <3> TAKE k \in at[1] .. Last(at)
    <3>1. k >= at[1]
      BY <1>2, <1>4, <1>6
    <3> QED
      BY <1>2, <1>6, <1>7, <1>10, <1>11, <3>1
  <2> QED
    BY <1>5, <1>8, <1>10, <2>1 DEF OneMessage
<1>13. ASSUME line.time # << >> PROVE InSpan(at)'
  <2>0. \A k \in DOMAIN given' : given'[k] \in Line
    <3>1. given' \in Seq(Line)
      BY <1>4
    <3> QED
      BY ONLY <3>1
  <2>1. \A i \in 1 .. n : given'[at[i]] \in Line /\ InWindow(given'[at[i]], line)
    BY <1>2, <2>0
  <2>2. \A i \in 1 .. n : given'[at[i]].time # << >> =>
          /\ given'[at[i]].time[1] \in Nat /\ line.time[1] \in Nat
          /\ given'[at[i]].time[1] - line.time[1] \in - options.window .. options.window
    BY <1>3, <1>13, <2>1, WithinWindow
  <2>3. options.window \in Nat
    BY <1>3 DEF Option
  <2>4. \A i, j \in 1 .. n :
          given'[at[i]].time # << >> /\ given'[at[j]].time # << >>
            => given'[at[i]].time[1] - given'[at[j]].time[1] <= 2 * options.window
    <3> TAKE i, j \in 1 .. n
    <3> DEFINE ti == given'[at[i]].time[1]
               tj == given'[at[j]].time[1]
               t == line.time[1]
               w == options.window
    <3> HAVE given'[at[i]].time # << >> /\ given'[at[j]].time # << >>
    <3>1. /\ ti \in Nat /\ tj \in Nat /\ t \in Nat /\ w \in Nat
          /\ ti - t \in - w .. w /\ tj - t \in - w .. w
      BY <2>2, <2>3
    <3> HIDE DEF ti, tj, t, w
    <3>2. ti - tj <= 2 * w
      BY <3>1
    <3> QED
      BY <3>2 DEF ti, tj, w
  <2> QED
    BY <1>2, <1>3, <2>4 DEF InSpan
<1> QED
  BY <1>2, <1>6, <1>12, <1>13

(* All that was yielded of several lines is one message, and near in time. *)
MessagesOK == OneMessageEach /\ SpanBounded

MessageOK(at) ==
  Len(at) > 1 => OneMessage(at) /\ (given[Last(at)].time # << >> => InSpan(at))

LEMMA NextLineKeepsMessages ==
  ASSUME TypeOK, BuffersOK, YieldsOK, MessagesOK, NEW line \in Lines, NextLine(line)
  PROVE  MessagesOK'
<1>1. /\ Counts(line)
      /\ Drops(line) \/ Alone(line) \/ Begins(line) \/ Joins(line) \/ Ends(line)
  BY EffectOfLine
<1>2. \A i \in DOMAIN yielded : MessageOK(yielded[i].at)
  BY DEF MessagesOK, OneMessageEach, SpanBounded, Multi, MessageOK
<1>3. ASSUME NEW at, at \in Seq(Nat), at # << >>, Range(at) \subseteq DOMAIN given,
             MessageOK(at)
      PROVE  MessageOK(at)'
  BY <1>1, <1>3, OneMessageStays DEF MessageOK
<1>4. \A i \in DOMAIN yielded : \A at : at = yielded[i].at => MessageOK(at)'
  <2>1. \A i \in DOMAIN yielded : yielded[i].at \in Seq(Nat)
    <3>1. \A i \in DOMAIN yielded : yielded[i] \in Yield
      BY DEF TypeOK
    <3> QED
      BY <3>1 DEF Yield
  <2> QED
    BY <1>2, <1>3, <2>1 DEF YieldsOK
<1>5. ASSUME NEW parts \in Seq(Packet), YieldMessage(parts),
             \A at : at = YieldOf(parts).at => MessageOK(at)'
      PROVE  \A i \in DOMAIN yielded' : \A at : at = yielded'[i].at => MessageOK(at)'
  BY <1>4, <1>5, YieldedGrows
<1>6. \A i \in DOMAIN yielded' : \A at : at = yielded'[i].at => MessageOK(at)'
  <2>1. CASE yielded' = yielded
    BY <1>4, <2>1
  <2>2. CASE Alone(line)
    <3>1. << Here(line) >> \in Seq(Packet) /\ Len(<< Here(line) >>) = 1
      BY LineIsTyped
    <3>2. \A at : at = YieldOf(<< Here(line) >>).at => MessageOK(at)'
      <4> SUFFICES ASSUME NEW at, at = YieldOf(<< Here(line) >>).at
                   PROVE  MessageOK(at)'
        OBVIOUS
      <4>1. Len(at) = 1
        BY <3>1, YieldIsTyped
      <4>2. ~ 1 > 1
        OBVIOUS
      <4> QED
        BY <4>1, <4>2, Zenon DEF MessageOK
    <3> QED
      BY <1>5, <2>2, <3>1, <3>2 DEF Alone
  <2>3. CASE Ends(line) /\ YieldMessage(Parts(line))
    <3>1. Parts(line) \in Seq(Packet) /\ line \in Line
      BY LineIsTyped
    <3>2. CASE Agrees(line)
      <4>1. given'[At] = line
        BY <1>1, <3>1, Longer DEF Counts, TypeOK
      <4>2. \A at : at = YieldOf(Parts(line)).at => MessageOK(at)'
        BY <1>1, <2>3, <3>2, <4>1, NewMessage DEF MessageOK, Agrees
      <4> QED
        BY <1>5, <2>3, <3>1, <4>2
    <3>3. CASE NoYield
      BY <2>1, <3>3 DEF NoYield
    <3> QED
      BY <2>3, <3>2, <3>3 DEF Ends
  <2> QED
    BY <1>1, <2>1, <2>2, <2>3 DEF Drops, Begins, Joins, Ends, NoYield
<1> QED
  BY <1>6 DEF MessagesOK, OneMessageEach, SpanBounded, Multi, MessageOK

LEMMA QuietKeepsMessages ==
  ASSUME MessagesOK, Quiet
  PROVE  MessagesOK'
<1>1. yielded' = yielded /\ given' = given /\ options' = options
  BY DEF Quiet
<1>2. \A at : OneMessage(at)' <=> OneMessage(at)
  BY <1>1 DEF OneMessage, Starts, Located, SlotAt
<1>3. \A at : InSpan(at)' <=> InSpan(at)
  BY <1>1 DEF InSpan
<1> QED
  BY <1>1, <1>2, <1>3 DEF MessagesOK, OneMessageEach, SpanBounded, Multi

-----------------------------------------------------------------------------
(* A whole group comes out.                                                *)

(* The last lines of a slot, when one line more was heard for it: that     *)
(* line, and the last ones of before.                                      *)
LEMMA LastOnes ==
  ASSUME given \in Seq(Line), NEW line \in Line, given' = Append(given, line),
         options' = options, NEW slot, Located(line), slot = Slot(line, options),
         NEW n \in Nat \ {0}, NEW at \in [1 .. n -> HeardFor(slot)'],
         AreLast(at, HeardFor(slot)')
  PROVE  /\ at[n] = At
         /\ n > 1 => /\ [i \in 1 .. n - 1 |-> at[i]] \in [1 .. n - 1 -> HeardFor(slot)]
                     /\ AreLast([i \in 1 .. n - 1 |-> at[i]], HeardFor(slot))
<1>1. HeardFor(slot)' = HeardFor(slot) \cup {At}
  BY HeardGrows
<1>2. /\ HeardFor(slot) \subseteq DOMAIN given /\ At \in Nat
      /\ \A k \in DOMAIN given : k \in Nat /\ k < At
  BY Longer DEF HeardFor
<1>3. /\ DOMAIN at = 1 .. n
      /\ \A i, j \in 1 .. n : i < j => at[i] < at[j]
      /\ \A i \in 1 .. n : at[i] \in HeardFor(slot) \cup {At}
      /\ \A k \in HeardFor(slot) \cup {At} : k >= at[1] <=> \E i \in 1 .. n : k = at[i]
  BY <1>1 DEF AreLast, Range
<1>4. \A i \in 1 .. n : at[i] \in Nat /\ at[i] <= At
  BY <1>2, <1>3
<1>5. at[n] = At
  <2>1. 1 \in 1 .. n /\ n \in 1 .. n
    OBVIOUS
  <2>2. PICK i \in 1 .. n : At = at[i]
    BY <1>2, <1>3, <1>4, <2>1
  <2>3. ~ i < n
    BY <1>2, <1>3, <1>4, <2>1, <2>2
  <2> QED
    BY <2>2, <2>3
<1>6. ASSUME n > 1
      PROVE  /\ [i \in 1 .. n - 1 |-> at[i]] \in [1 .. n - 1 -> HeardFor(slot)]
             /\ AreLast([i \in 1 .. n - 1 |-> at[i]], HeardFor(slot))
  <2> DEFINE prior == [i \in 1 .. n - 1 |-> at[i]]
  <2>1. /\ 1 .. n - 1 \subseteq 1 .. n /\ 1 \in 1 .. n - 1 /\ n \in 1 .. n
        /\ \A i \in 1 .. n : i \in 1 .. n - 1 \/ i = n
        /\ \A i \in 1 .. n - 1 : i < n
    BY <1>6
  <2>2. \A i \in 1 .. n - 1 : at[i] \in HeardFor(slot)
    BY <1>2, <1>3, <1>4, <1>5, <2>1
  <2>3. DOMAIN prior = 1 .. n - 1 /\ \A i \in 1 .. n - 1 : prior[i] = at[i]
    OBVIOUS
  <2>4. prior \in [1 .. n - 1 -> HeardFor(slot)]
    BY <2>2
  <2> HIDE DEF prior
  <2>5. \A i, j \in DOMAIN prior : i < j => prior[i] < prior[j]
    BY <1>3, <2>1, <2>3
  <2>6. Range(prior) = {k \in HeardFor(slot) : k >= prior[1]}
    <3>1. ASSUME NEW k \in HeardFor(slot), k >= prior[1]
          PROVE  \E i \in 1 .. n - 1 : k = prior[i]
      <4>1. PICK i \in 1 .. n : k = at[i]
        BY <1>3, <2>1, <2>3, <3>1
      <4>2. i # n
        BY <1>2, <1>5, <4>1
      <4> QED
        BY <2>1, <2>3, <4>1, <4>2
    <3>2. ASSUME NEW i \in 1 .. n - 1
          PROVE  prior[i] \in HeardFor(slot) /\ prior[i] >= prior[1]
      BY <1>3, <2>1, <2>2, <2>3
    <3> QED
      BY <2>3, <3>1, <3>2 DEF Range
  <2> QED
    BY <2>4, <2>5, <2>6 DEF AreLast, prior
<1> QED
  BY <1>5, <1>6

(* The packets of lines that are buffered, and one more. *)
LEMMA AtsAppended ==
  ASSUME NEW b, b \in Seq(Packet), NEW p, p \in Packet,
         NEW c, c = Append(b, p), NEW n \in Nat, n > 1,
         NEW at, DOMAIN at = 1 .. n, at[n] = p.at,
         DOMAIN b = 1 .. n - 1, \A i \in 1 .. n - 1 : b[i].at = at[i]
  PROVE  /\ \A i \in DOMAIN c : c[i].at = at[i]
         /\ DOMAIN c = 1 .. n /\ b # << >>
         /\ \A i \in 1 .. n - 1 : c[i] = b[i] /\ i \in DOMAIN b
         /\ c[n] = p
<1> DEFINE m == Len(b)
<1>1. /\ m \in Nat /\ DOMAIN b = 1 .. m /\ DOMAIN c = 1 .. m + 1
      /\ \A i \in 1 .. m : c[i] = b[i]
      /\ c[m + 1] = p
  OBVIOUS
<1> HIDE DEF m
<1>2. 1 .. m = 1 .. n - 1 /\ \A i \in 1 .. m : b[i].at = at[i]
  BY <1>1
<1>3. m = n - 1
  <2>1. 1 \in 1 .. n - 1 /\ n - 1 \in 1 .. n - 1
    OBVIOUS
  <2>2. 1 \in 1 .. m /\ n - 1 \in 1 .. m
    BY <1>2, <2>1
  <2>3. m \in 1 .. m
    BY <1>1, <2>2
  <2>4. m \in 1 .. n - 1
    BY <1>2, <2>3
  <2> QED
    BY <1>1, <2>2, <2>4
<1>4. b # << >>
  BY <1>1, <1>3
<1>5. 1 .. n = 1 .. n - 1 \cup {n} /\ m + 1 = n
  BY <1>3
<1> QED
  BY <1>1, <1>2, <1>3, <1>4, <1>5

LEMMA UntouchedBuffer ==
  ASSUME TypeOK, NEW line \in Lines, NEW slot \in Slots,
         Drops(line) \/ Alone(line) \/ Begins(line) \/ Joins(line) \/ Ends(line),
         ~ (Located(line) /\ slot = Slot(line, options))
  PROVE  buffers'[slot] = buffers[slot]
<1>1. << >> \in Seq(Packet) /\ << Here(line) >> \in Seq(Packet)
      /\ Append(Waiting(line), Here(line)) \in Seq(Packet)
  BY LineIsTyped
<1>2. CASE Drops(line) \/ Alone(line)
  BY <1>2 DEF Drops, Alone
<1>3. CASE Begins(line) \/ Joins(line) \/ Ends(line)
  BY <1>1, <1>3, OneBuffer DEF Begins, Joins, Ends, Waiting
<1> QED
  BY <1>2, <1>3

(* The lines 1..n that are heard last, the last of them now.               *)
LEMMA NowLast ==
  ASSUME TypeOK, LastAreBuffered, NEW line \in Lines, Counts(line),
         NEW slot \in Slots, Located(line), slot = Slot(line, options),
         NEW n \in Nat \ {0}, NEW at \in [1 .. n -> HeardFor(slot)'],
         AreLast(at, HeardFor(slot)'),
         \A i \in 1 .. n : given'[at[i]].number = i,
         \A i \in 1 .. n : 1 < i /\ i < n => given'[at[i]].total # i
  PROVE  /\ at[n] = At /\ line.number = n
         /\ n > 1 => /\ DOMAIN buffers[slot] = 1 .. n - 1
                     /\ \A i \in 1 .. n - 1 : /\ buffers[slot][i].at = at[i]
                                              /\ at[i] \in HeardFor(slot)
<1>1. /\ given \in Seq(Line) /\ line \in Line /\ given' = Append(given, line)
      /\ options' = options /\ running
  BY LineIsTyped DEF TypeOK, Counts
<1>2. \A k \in DOMAIN given : given'[k] = given[k]
  BY <1>1, Longer
<1>3. at[n] = At /\ given'[At] = line /\ n \in 1 .. n
  <2>1. at[n] = At
    BY <1>1, LastOnes
  <2>2. given'[At] = line
    BY <1>1, Longer
  <2> QED
    BY <2>1, <2>2
<1>4. ASSUME n > 1
      PROVE  /\ DOMAIN buffers[slot] = 1 .. n - 1
             /\ \A i \in 1 .. n - 1 : /\ buffers[slot][i].at = at[i]
                                      /\ at[i] \in HeardFor(slot)
  <2> DEFINE prior == [i \in 1 .. n - 1 |-> at[i]]
  <2>1. prior \in [1 .. n - 1 -> HeardFor(slot)] /\ AreLast(prior, HeardFor(slot))
    BY <1>1, <1>4, LastOnes
  <2>2. /\ DOMAIN prior = 1 .. n - 1 /\ n - 1 \in Nat \ {0}
        /\ \A i \in 1 .. n - 1 : prior[i] = at[i] /\ i \in 1 .. n /\ i < n
    BY <1>4
  <2>3. \A i \in 1 .. n - 1 : at[i] \in HeardFor(slot)
    BY <2>1, <2>2
  <2> HIDE DEF prior
  <2>4. \A i \in 1 .. n - 1 : given'[prior[i]] = given[prior[i]]
    BY <1>2, <2>2, <2>3 DEF HeardFor
  <2>5. Unfinished(prior)
    BY <2>2, <2>4 DEF Unfinished
  <2>6. Ats(buffers[slot]) = prior
    BY <1>1, <2>1, <2>2, <2>5 DEF LastAreBuffered
  <2>7. /\ DOMAIN buffers[slot] = DOMAIN prior
        /\ \A i \in DOMAIN buffers[slot] : prior[i] = buffers[slot][i].at
    <3>1. /\ DOMAIN Ats(buffers[slot]) = DOMAIN buffers[slot]
          /\ \A i \in DOMAIN buffers[slot] :
               Ats(buffers[slot])[i] = buffers[slot][i].at
      BY DEF Ats
    <3> QED
      BY <2>6, <3>1
  <2> QED
    BY <2>2, <2>3, <2>7
<1> QED
  BY <1>3, <1>4

LEMMA NextLineKeepsLast ==
  ASSUME TypeOK, BuffersOK, LastAreBuffered, NEW line \in Lines, NextLine(line)
  PROVE  LastAreBuffered'
<1>1. /\ Counts(line)
      /\ Drops(line) \/ Alone(line) \/ Begins(line) \/ Joins(line) \/ Ends(line)
  BY EffectOfLine
<1>2. /\ given \in Seq(Line) /\ line \in Line /\ given' = Append(given, line)
      /\ options' = options /\ running /\ Here(line) \in Packet /\ Here(line).at = At
  BY <1>1, LineIsTyped DEF TypeOK, Counts, Here
<1>3. /\ \A k \in DOMAIN given : given'[k] = given[k]
      /\ given'[At] = line
  BY <1>2, Longer
<1> SUFFICES ASSUME running', NEW slot \in Slots, NEW n \in Nat \ {0},
                    NEW at \in [1 .. n -> HeardFor(slot)'],
                    AreLast(at, HeardFor(slot)'), Unfinished(at)'
             PROVE  Ats(buffers'[slot]) = at
  BY DEF LastAreBuffered, AreLast, Ats, Slots
<1>4. CASE ~ (Located(line) /\ slot = Slot(line, options))
  <2>1. HeardFor(slot)' = HeardFor(slot)
    BY <1>2, <1>4, HeardGrows
  <2>2. HeardFor(slot) \subseteq DOMAIN given
    BY DEF HeardFor
  <2>3. Unfinished(at)
    BY <1>3, <2>1, <2>2 DEF Unfinished
  <2>4. Ats(buffers[slot]) = at
    BY <1>2, <2>1, <2>3 DEF LastAreBuffered
  <2>5. buffers'[slot] = buffers[slot]
    BY <1>1, <1>4, UntouchedBuffer
  <2> QED
    BY <2>4, <2>5
<1>5. CASE Located(line) /\ slot = Slot(line, options)
  <2>1. /\ DOMAIN at = 1 .. n /\ \A i \in 1 .. n : given'[at[i]].number = i
        /\ \A i \in 1 .. n : i > 1 => given'[at[i]].total # i
    BY DEF Unfinished
  <2>2. /\ at[n] = At /\ line.number = n
        /\ n > 1 => /\ DOMAIN buffers[slot] = 1 .. n - 1
                    /\ \A i \in 1 .. n - 1 : buffers[slot][i].at = at[i]
    BY <1>1, <1>5, <2>1, NowLast
  <2>3. n > 1 => line.total # n
    BY <1>3, <2>1, <2>2
  <2>4. CASE n = 1
    <3>1. Begins(line)
      BY <1>1, <1>5, <2>2, <2>4 DEF Drops, Alone, Joins, Ends
    <3>2. buffers'[slot] = << Here(line) >>
      <4>1. << Here(line) >> \in Seq(Packet)
        BY <1>2
      <4> QED
        BY <1>5, <3>1, <4>1, OneBuffer DEF Begins
    <3>3. /\ DOMAIN << Here(line) >> = 1 .. 1 /\ DOMAIN at = 1 .. 1
          /\ << Here(line) >>[1].at = at[1]
      BY <1>2, <2>2, <2>4
    <3>4. Ats(<< Here(line) >>) = at
      BY <3>3 DEF Ats
    <3> QED
      BY <3>2, <3>4
  <2>5. CASE n > 1
    <3>1. buffers[slot] \in Seq(Packet) /\ Waiting(line) = buffers[slot]
      BY <1>5, LineIsTyped DEF Waiting
    <3>2. /\ \A i \in DOMAIN Parts(line) : Parts(line)[i].at = at[i]
          /\ DOMAIN Parts(line) = 1 .. n /\ buffers[slot] # << >>
      <4>1. Parts(line) = Append(buffers[slot], Here(line)) /\ n \in Nat
        BY <3>1 DEF Parts
      <4>2. /\ at[n] = Here(line).at /\ DOMAIN buffers[slot] = 1 .. n - 1
            /\ \A i \in 1 .. n - 1 : buffers[slot][i].at = at[i]
        BY <1>2, <2>2, <2>5
      <4> QED
        BY <1>2, <2>1, <2>5, <3>1, <4>1, <4>2, AtsAppended
    <3>3. Joins(line)
      BY <1>1, <1>5, <2>2, <2>3, <2>5, <3>1, <3>2 DEF Drops, Alone, Begins, Ends
    <3>4. buffers'[slot] = Parts(line)
      <4>1. buffers' = [buffers EXCEPT ![Slot(line, options)] = Parts(line)]
        BY <3>3 DEF Joins, Parts, Waiting
      <4> QED
        BY <1>5, <4>1, OneBuffer, LineIsTyped
    <3>5. Ats(Parts(line)) = at
      BY <2>1, <3>2 DEF Ats
    <3> QED
      BY <3>4, <3>5
  <2> QED
    BY <2>4, <2>5
<1> QED
  BY <1>4, <1>5

LEMMA NextLineKeepsGroups ==
  ASSUME TypeOK, BuffersOK, LastAreBuffered, GroupsComeOut,
         NEW line \in Lines, NextLine(line)
  PROVE  GroupsComeOut'
<1>1. /\ Counts(line)
      /\ Drops(line) \/ Alone(line) \/ Begins(line) \/ Joins(line) \/ Ends(line)
  BY EffectOfLine
<1>2. /\ given \in Seq(Line) /\ line \in Line /\ given' = Append(given, line)
      /\ options' = options /\ running /\ Here(line) \in Packet /\ Here(line).at = At
  BY <1>1, LineIsTyped DEF TypeOK, Counts, Here
<1>3. /\ \A k \in DOMAIN given : given'[k] = given[k]
      /\ given'[At] = line
  BY <1>2, Longer
<1>4. \A i \in DOMAIN yielded : i \in DOMAIN yielded' /\ yielded'[i] = yielded[i]
  <2>1. << Here(line) >> \in Seq(Packet) /\ Parts(line) \in Seq(Packet)
    BY <1>2, LineIsTyped
  <2>2. CASE yielded' = yielded
    BY <2>2
  <2>3. CASE YieldMessage(<< Here(line) >>) \/ YieldMessage(Parts(line))
    BY <2>1, <2>3, YieldedGrows
  <2> QED
    BY <1>1, <2>2, <2>3 DEF Drops, Alone, Begins, Joins, Ends, NoYield
<1> SUFFICES ASSUME running', NEW slot \in Slots, NEW n \in Nat \ {0, 1},
                    NEW at \in [1 .. n -> HeardFor(slot)'],
                    AreLast(at, HeardFor(slot)'), WholeGroup(at)'
             PROVE  \E i \in DOMAIN yielded' : yielded'[i].at = at
  BY DEF GroupsComeOut, AreLast, Slots
<1>5. CASE ~ (Located(line) /\ slot = Slot(line, options))
  <2>1. HeardFor(slot)' = HeardFor(slot)
    BY <1>2, <1>5, HeardGrows
  <2>2. HeardFor(slot) \subseteq DOMAIN given
    BY DEF HeardFor
  <2>3. \A i \in 1 .. n : given'[at[i]] = given[at[i]]
    BY <1>3, <2>1, <2>2
  <2>4. WholeGroup(at)
    <3>1. Len(at) = n /\ n \in 1 .. n
      OBVIOUS
    <3> QED
      BY <1>2, <2>3, <3>1, SameWindow DEF WholeGroup
  <2>5. \E i \in DOMAIN yielded : yielded[i].at = at
    BY <1>2, <2>1, <2>4 DEF GroupsComeOut
  <2> QED
    BY <1>4, <2>5
<1>6. CASE Located(line) /\ slot = Slot(line, options)
  <2>1. Len(at) = n /\ DOMAIN at = 1 .. n /\ n > 1 /\ n \in 1 .. n /\ n \in Nat \ {0}
    OBVIOUS
  <2>2. /\ given'[at[n]].fill
        /\ \A i \in 1 .. n : /\ given'[at[i]].number = i /\ given'[at[i]].total = n
                             /\ InWindow(given'[at[i]], given'[at[n]])
    BY <1>2, <2>1, SameWindow DEF WholeGroup
  <2>3. \A i \in 1 .. n : 1 < i /\ i < n => given'[at[i]].total # i
    BY <2>2
  <2>4. /\ at[n] = At /\ line.number = n
        /\ DOMAIN buffers[slot] = 1 .. n - 1
        /\ \A i \in 1 .. n - 1 : /\ buffers[slot][i].at = at[i]
                                 /\ at[i] \in HeardFor(slot)
    BY <1>1, <1>6, <2>1, <2>2, <2>3, NowLast, SMTT(30)
  <2>5. buffers[slot] \in Seq(Packet) /\ Waiting(line) = buffers[slot]
    BY <1>6, LineIsTyped DEF Waiting
  <2>6. /\ \A i \in DOMAIN Parts(line) : Parts(line)[i].at = at[i]
        /\ DOMAIN Parts(line) = 1 .. n /\ buffers[slot] # << >>
        /\ \A i \in 1 .. n - 1 : Parts(line)[i] = buffers[slot][i] /\ i \in DOMAIN buffers[slot]
        /\ Parts(line)[n] = Here(line)
    <3>1. Parts(line) = Append(buffers[slot], Here(line)) /\ n \in Nat
      BY <2>5 DEF Parts
    <3> QED
      BY <1>2, <2>1, <2>4, <2>5, <3>1, AtsAppended
  <2>7. line.total = n
    BY <1>3, <2>1, <2>2, <2>4
  <2>8. Ends(line)
    BY <1>1, <1>6, <2>1, <2>4, <2>5, <2>6, <2>7 DEF Drops, Alone, Begins, Joins
  <2>9. \A i \in 1 .. n : Parts(line)[i].line = given'[at[i]]
    <3>1. ASSUME NEW i \in 1 .. n - 1 PROVE Parts(line)[i].line = given'[at[i]]
      <4>1. buffers[slot][i].line = given[buffers[slot][i].at]
        BY <2>6 DEF BuffersOK, BufferOK, HoldsLines
      <4>2. buffers[slot][i].at = at[i] /\ at[i] \in DOMAIN given
        BY <2>4, <2>6 DEF HeardFor
      <4> QED
        BY <1>3, <2>6, <4>1, <4>2
    <3>2. Parts(line)[n].line = given'[at[n]]
      BY <1>3, <2>4, <2>6 DEF Here
    <3>3. \A i \in 1 .. n : i \in 1 .. n - 1 \/ i = n
      OBVIOUS
    <3> QED
      BY <3>1, <3>2, <3>3
  <2>10. Agrees(line)
    BY <1>3, <2>2, <2>4, <2>6, <2>9 DEF Agrees
  <2>11. YieldMessage(Parts(line)) /\ Parts(line) \in Seq(Packet)
    BY <2>8, <2>10, LineIsTyped DEF Ends
  <2>12. YieldOf(Parts(line)).at = at
    BY <2>1, <2>6 DEF YieldOf
  <2> QED
    BY <2>11, <2>12, YieldedGrows
<1> QED
  BY <1>5, <1>6

LEMMA QuietKeepsLast ==
  ASSUME LastAreBuffered, Quiet
  PROVE  LastAreBuffered'
<1>1. buffers' = buffers /\ given' = given /\ options' = options /\ (running' => running)
  BY DEF Quiet
<1>2. /\ \A slot : HeardFor(slot)' = HeardFor(slot)
      /\ \A at : Unfinished(at)' <=> Unfinished(at)
  BY <1>1 DEF HeardFor, SlotAt, Located, Unfinished
<1> QED
  BY <1>1, <1>2 DEF LastAreBuffered, AreLast, Slots

LEMMA QuietKeepsGroups ==
  ASSUME GroupsComeOut, Quiet
  PROVE  GroupsComeOut'
<1>1. yielded' = yielded /\ given' = given /\ options' = options /\ (running' => running)
  BY DEF Quiet
<1>2. /\ \A slot : HeardFor(slot)' = HeardFor(slot)
      /\ \A at : WholeGroup(at)' <=> WholeGroup(at)
  BY <1>1 DEF HeardFor, SlotAt, Located, WholeGroup, InWindow, Times
<1> QED
  BY <1>1, <1>2 DEF GroupsComeOut, AreLast, Slots

-----------------------------------------------------------------------------
(* The theorems.                                                           *)

LEMMA InitIsTyped == Init => TypeOK
<1> SUFFICES ASSUME Init PROVE TypeOK
  OBVIOUS
<1>1. /\ buffers \in [Slots -> Seq(Packet)] /\ out \in Seq(Yield) /\ Len(out) <= 1
      /\ decoded \in Seq(Seq(STRING)) /\ given \in Seq(Line) /\ yielded \in Seq(Yield)
  BY EmptySeq DEF Init
<1>2. /\ stats \in [line_num : Nat, error_num_total : Nat] /\ running \in BOOLEAN
      /\ options \in Options /\ reported \subseteq DOMAIN given
  BY DEF Init
<1> QED
  BY <1>1, <1>2 DEF TypeOK

LEMMA InductiveKept == Spec => []Inductive
<1>1. Init => Inductive
  <2> SUFFICES ASSUME Init PROVE Inductive
    OBVIOUS
  <2>1. DOMAIN yielded = {} /\ out = << >> /\ \A slot \in Slots : buffers[slot] = << >>
    BY DEF Init
  <2>2. \A slot \in Slots : DOMAIN buffers[slot] = {}
    BY <2>1
  <2> QED
    BY <2>1, <2>2, InitIsTyped
       DEF Inductive, BuffersOK, BufferOK, HoldsLines, HoldsAll, YieldsOK
<1>2. Inductive /\ [Next]_vars => Inductive'
  <2> SUFFICES ASSUME Inductive, [Next]_vars PROVE Inductive'
    OBVIOUS
  <2>1. TypeOK /\ BuffersOK /\ YieldsOK
    BY DEF Inductive
  <2>2. CASE \E line \in Lines : NextLine(line)
    BY <2>1, <2>2, NextLineKeepsTypes, NextLineKeepsBuffers, NextLineKeepsYields
       DEF Inductive
  <2>3. CASE Decode \/ EndOfFile \/ UNCHANGED vars
    BY <2>1, <2>3, OtherSteps, OtherStepsKeepTypes, QuietKeepsBuffers, QuietKeepsYields
       DEF Inductive
  <2> QED
    BY <2>2, <2>3 DEF Next
<1> QED
  BY <1>1, <1>2, PTL DEF Spec

(* The two generators, the buffers they share and their counters keep      *)
(* their types: every number an error is reported for is that of a line.   *)
THEOREM TypesKept == Spec => []TypeOK
<1>1. Inductive => TypeOK
  BY DEF Inductive
<1> QED
  BY <1>1, InductiveKept, PTL

(* A line is yielded once, and is not buffered any more (normalize: the    *)
(* buffer of a slot is deleted, whatever becomes of its message).          *)
THEOREM NothingTwice == Spec => []YieldedOnce
<1>1. Init => YieldedOnce
  BY DEF Init, YieldedOnce
<1>2. Inductive /\ YieldedOnce /\ [Next]_vars => YieldedOnce'
  BY NextLineKeepsOnce, OtherSteps, QuietKeepsOnce DEF Inductive, Next
<1> QED
  BY <1>1, <1>2, InductiveKept, PTL DEF Spec

(* Every line was yielded, waits, was reported, or was overwritten by a    *)
(* newer first line of its slot ("Overwrite any partials").                *)
THEOREM NothingLost == Spec => []NoSilentLoss
<1>1. Init => NoSilentLoss
  BY DEF Init, NoSilentLoss
<1>2. Inductive /\ NoSilentLoss /\ [Next]_vars => NoSilentLoss'
  BY NextLineKeepsLines, OtherSteps, QuietKeepsLines DEF Inductive, Next
<1> QED
  BY <1>1, <1>2, InductiveKept, PTL DEF Spec

LEMMA MessagesKept == Spec => []MessagesOK
<1>1. Init => MessagesOK
  BY DEF Init, MessagesOK, OneMessageEach, SpanBounded, Multi
<1>2. Inductive /\ MessagesOK /\ [Next]_vars => MessagesOK'
  BY NextLineKeepsMessages, OtherSteps, QuietKeepsMessages DEF Inductive, Next
<1> QED
  BY <1>1, <1>2, InductiveKept, PTL DEF Spec

(* What normalize puts together is all that was heard for a slot from one  *)
(* first line to the next last line: never parts of two messages.          *)
THEOREM NothingMixed == Spec => []OneMessageEach
<1>1. MessagesOK => OneMessageEach
  BY DEF MessagesOK
<1> QED
  BY <1>1, MessagesKept, PTL

(* The times on the lines of one message lie within twice the window.      *)
THEOREM SpanKept == Spec => []SpanBounded
<1>1. MessagesOK => SpanBounded
  BY DEF MessagesOK
<1> QED
  BY <1>1, MessagesKept, PTL

(* A whole message, its lines the last of their slot in order and their    *)
(* times within the window, is yielded, whatever was buffered before it.   *)
THEOREM WholeGroupsComeOut == Spec => []GroupComesOut
<1> DEFINE Groups == LastAreBuffered /\ GroupsComeOut
<1>1. Init => Groups
  <2> SUFFICES ASSUME Init PROVE Groups
    OBVIOUS
  <2>1. \A slot : HeardFor(slot) = {}
    BY DEF Init, HeardFor
  <2>2. \A n \in Nat \ {0} : 1 \in 1 .. n
    OBVIOUS
  <2>3. \A n \in Nat \ {0} : [1 .. n -> {}] = {}
    BY <2>2
  <2> QED
    BY <2>1, <2>3 DEF LastAreBuffered, GroupsComeOut
<1>2. Inductive /\ Groups /\ [Next]_vars => Groups'
  BY NextLineKeepsLast, NextLineKeepsGroups, OtherSteps, QuietKeepsLast, QuietKeepsGroups
     DEF Inductive, Next
<1>3. Groups => GroupComesOut
  BY DEF GroupsComeOut, GroupComesOut
<1> QED
  BY <1>1, <1>2, <1>3, InductiveKept, PTL DEF Spec

=============================================================================
