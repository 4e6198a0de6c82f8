---------------------------- MODULE NmeaSentence ----------------------------
(***************************************************************************)
(* One line of NMEA AIS VDM text and the sentence made from it             *)
(* (src/src/libais/vdm.cpp, class NmeaSentence).                           *)
(*                                                                         *)
(* A line is abstracted to what its seven comma separated fields say.  A   *)
(* numeric field holds what std::stoi makes of it; text stoi refuses is    *)
(* -1, which every range test of the code refuses as well.  A field that   *)
(* may be empty is a sequence of at most one value.  The payload field of  *)
(* a line is a chunk, the payload of a message the sequence of the chunks  *)
(* of its lines; only the length of a chunk is ever looked at.             *)
(***************************************************************************)
EXTENDS Integers, Sequences, SequencesExt

CONSTANTS
  Talkers,   \* values of the first field: talker and sentence type together
  Chunks,    \* armored payload text carried by one line
  CharsIn    \* number of characters of each chunk

ASSUME ChunksAreTexts == CharsIn \in [Chunks -> Nat]

kMaxSentences == 10
kNumSequenceChannels == 10
kNoSequenceNumber == 999999
MaxBodyChars == 199
MaxFillBits == 5

(* Text of a line, as far as Create looks at it.  "framed" is the outcome  *)
(* of the tests that keep no value: at least 9 characters, a leading '!',  *)
(* seven fields, a correct checksum and a first field of 6 characters.     *)
RawLine == [framed   : BOOLEAN,
            talker   : Talkers,
            total    : Int,
            number   : Int,
            seq      : Seq(Int),
            channel  : STRING,
            body     : Chunks,
            fill     : Int]

SequenceNumbers == 0 .. kNumSequenceChannels - 1

Sentence == [talker      : Talkers,
             total       : Int,
             number      : Int,
             seq         : Int,
             channel     : STRING,
             body        : Seq(Chunks) \ {<< >>},
             fill_bits   : Int,
             line_number : Int]

(* nullptr of a unique_ptr<NmeaSentence>: a value that is no sentence. *)
NoSentence == [null |-> TRUE]

BodySize(body) == FoldLeft(LAMBDA n, c : n + CharsIn[c], 0, body)

(* GetSentenceSequenceNumbers: ranges of the three counters and the channel. *)
ValidNumbers(line) ==
  /\ line.total \in 0 .. kMaxSentences - 1
  /\ line.number \in 1 .. line.total
  /\ line.seq = << >> \/ line.seq[1] \in SequenceNumbers
  /\ line.channel \in {"A", "B"}

SequenceNumber(line) ==
  IF line.seq = << >> THEN kNoSequenceNumber ELSE line.seq[1]

ValidLine(line) ==
  /\ line.framed
  /\ ValidNumbers(line)
  /\ CharsIn[line.body] \in 1 .. MaxBodyChars
  /\ line.fill \in 0 .. MaxFillBits

Create(line, line_number) ==
  IF ValidLine(line)
  THEN [talker      |-> line.talker,
        total       |-> line.total,
        number      |-> line.number,
        seq         |-> SequenceNumber(line),
        channel     |-> line.channel,
        body        |-> << line.body >>,
        fill_bits   |-> line.fill,
        line_number |-> line_number]
  ELSE NoSentence

(* s.VerifyInSameMessage(t) *)
VerifyInSameMessage(s, t) ==
  /\ s.talker = t.talker
  /\ s.number # t.number
  /\ s.total = t.total
  /\ s.seq = t.seq
  /\ s.channel = t.channel

(* Mutant of CanMerge: the loop over VerifyInSameMessage is missing. *)
CanMergeUnverified(s, prior) ==
  /\ Len(prior) = s.total - 1
  /\ \A i \in DOMAIN prior : prior[i].number = i

(* Whether s->Merge(prior) succeeds, and the sentence it then returns. *)
CanMerge(s, prior) ==
  /\ Len(prior) = s.total - 1
  /\ \A i \in DOMAIN prior : VerifyInSameMessage(s, prior[i])
  /\ \A i \in DOMAIN prior : prior[i].number = i

(* The payloads of sentences of Create, each of one chunk, in a row. *)
Bodies(sentences) == [i \in DOMAIN sentences |-> sentences[i].body[1]]

Merge(s, prior) ==
  IF CanMerge(s, prior)
  THEN [talker      |-> s.talker,
        total       |-> 1,
        number      |-> 1,
        seq         |-> s.seq,
        channel     |-> s.channel,
        body        |-> Bodies(prior) \o s.body,
        fill_bits   |-> s.fill_bits,
        line_number |-> s.line_number]
  ELSE NoSentence

=============================================================================
