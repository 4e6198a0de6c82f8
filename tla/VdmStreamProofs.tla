--------------------------- MODULE VdmStreamProofs ---------------------------
(***************************************************************************)
(* Theorems about VdmStream for every set of lines, chunks and bodies.     *)
(* The inductive invariant Inductive adds to the type invariant and the    *)
(* order of the buffers what the code knows of a sentence because Create   *)
(* let it through (Heard).                                                 *)
(***************************************************************************)
EXTENDS VdmStream, WellFoundedInduction, TLAPS

(* What Create lets through: the ranges AddLine relies on. *)
Created(s) ==
  /\ s \in Sentence
  /\ s.total \in 1 .. kMaxSentences - 1
  /\ s.number \in 1 .. s.total
  /\ s.seq \in SequenceNumbers \cup {kNoSequenceNumber}
  /\ s.fill_bits \in 0 .. MaxFillBits
  /\ s.body = << s.body[1] >>
  /\ CharsIn[s.body[1]] \in Nat \ {0}

HeardOK ==
  /\ Len(heard) = line_number
  /\ \A k \in DOMAIN heard :
       heard[k] = NoSentence \/ (Created(heard[k]) /\ heard[k].line_number = k)

Inductive == TypeOK /\ HeardOK /\ BuffersInOrder

-----------------------------------------------------------------------------

(* A sentence is not nullptr: the two records have different fields. *)
LEMMA SentenceIsNotNull == NoSentence \notin Sentence
<1> SUFFICES ASSUME NoSentence \in Sentence PROVE FALSE
  OBVIOUS
<1>1. DOMAIN NoSentence = {"null"}
  BY DEF NoSentence
<1>2. "talker" \in DOMAIN NoSentence
  BY DEF Sentence
<1> QED
  BY <1>1, <1>2

(* Create returns nullptr or a sentence whose counters are in range and    *)
(* which carries the number of its line.                                   *)
LEMMA CreateResult ==
  ASSUME NEW line \in RawLine, NEW n \in Nat
  PROVE  \/ Create(line, n) = NoSentence
         \/ Created(Create(line, n)) /\ Create(line, n).line_number = n
<1> DEFINE s == Create(line, n)
<1> SUFFICES ASSUME ValidLine(line)
             PROVE  Created(s) /\ s.line_number = n
  BY DEF Create
<1>1. s = [talker      |-> line.talker,
           total       |-> line.total,
           number      |-> line.number,
           seq         |-> SequenceNumber(line),
           channel     |-> line.channel,
           body        |-> << line.body >>,
           fill_bits   |-> line.fill,
           line_number |-> n]
  BY DEF Create
<1>2. /\ line.talker \in Talkers
      /\ line.total \in Int
      /\ line.number \in Int
      /\ line.seq \in Seq(Int)
      /\ line.channel \in STRING
      /\ line.body \in Chunks
      /\ line.fill \in Int
  BY DEF RawLine
<1>3. line.total \in 1 .. 9 /\ line.number \in 1 .. line.total
  BY <1>2 DEF ValidLine, ValidNumbers, kMaxSentences
<1>4. SequenceNumber(line) \in SequenceNumbers \cup {kNoSequenceNumber}
  BY <1>2 DEF ValidLine, ValidNumbers, SequenceNumber
<1>5. << line.body >> \in Seq(Chunks) \ {<< >>}
  BY <1>2
<1>6. SequenceNumber(line) \in Int
  BY <1>4 DEF SequenceNumbers, kNumSequenceChannels, kNoSequenceNumber
<1>7. s \in Sentence
  BY <1>1, <1>2, <1>5, <1>6 DEF Sentence
<1>8. s.body = << s.body[1] >> /\ CharsIn[s.body[1]] \in Nat \ {0}
  BY <1>1 DEF ValidLine, MaxBodyChars
<1> HIDE DEF s
<1> QED
  BY <1>1, <1>2, <1>3, <1>4, <1>7, <1>8 DEF Created, ValidLine, kMaxSentences, MaxFillBits

(* Appending one element leaves the others where they are. *)
LEMMA AppendKeeps ==
  ASSUME NEW S, NEW q \in Seq(S), NEW e \in S
  PROVE  /\ Append(q, e) \in Seq(S)
         /\ Len(Append(q, e)) = Len(q) + 1
         /\ DOMAIN Append(q, e) = DOMAIN q \cup {Len(q) + 1}
         /\ \A i \in DOMAIN q : Append(q, e)[i] = q[i]
         /\ Append(q, e)[Len(q) + 1] = e
  OBVIOUS

(* The empty stream satisfies the invariant: all buffers are empty.         *)
LEMMA InitInductive == Init => Inductive
<1> SUFFICES ASSUME Init PROVE Inductive
  OBVIOUS
<1>1. TypeOK
  <2>1. accepted \in BOOLEAN
    BY Zenon DEF Init
  <2>2. /\ line_number \in Nat
        /\ messages \in Seq(Message)
        /\ heard \in Seq(Sentence \cup {NoSentence})
        /\ delivered \in Seq(Message)
    BY DEF Init
  <2>3. incoming_sentences \in [SequenceNumbers -> Seq(Sentence)]
    <3>1. incoming_sentences = [seq \in SequenceNumbers |-> << >>]
      BY DEF Init
    <3>2. << >> \in Seq(Sentence)
      OBVIOUS
    <3> QED
      BY <3>1, <3>2, Zenon
  <2> QED
    BY <2>1, <2>2, <2>3 DEF TypeOK
<1>2. HeardOK
  BY DEF Init, HeardOK
<1>3. BuffersInOrder
  BY DEF Init, BuffersInOrder, BufferInOrder
<1> QED
  BY <1>1, <1>2, <1>3 DEF Inductive

(* What every call of AddLine does to the line count and the history. *)
LEMMA HearLine ==
  ASSUME TypeOK, HeardOK, NEW line \in Lines, AddLine(line)
  PROVE  LET s == Create(line, line_number + 1) IN
         /\ s = NoSentence \/ (Created(s) /\ s.line_number = Len(heard) + 1)
         /\ heard' = Append(heard, s)
         /\ line_number' \in Nat
         /\ heard' \in Seq(Sentence \cup {NoSentence})
         /\ DOMAIN heard' = DOMAIN heard \cup {Len(heard) + 1}
         /\ \A k \in DOMAIN heard : heard'[k] = heard[k]
         /\ heard'[Len(heard) + 1] = s
         /\ HeardOK'
<1> DEFINE s == Create(line, line_number + 1)
<1>1. line_number \in Nat /\ heard \in Seq(Sentence \cup {NoSentence})
  BY DEF TypeOK
<1>2. Len(heard) = line_number
  BY DEF HeardOK
<1>3. s = NoSentence \/ (Created(s) /\ s.line_number = Len(heard) + 1)
  BY <1>1, <1>2, CreateResult, LinesAreRaw
<1>4. heard' = Append(heard, s) /\ line_number' = line_number + 1
  BY DEF AddLine
<1>5. s \in Sentence \cup {NoSentence}
  BY <1>3 DEF Created
<1> HIDE DEF s
<1>6. /\ heard' \in Seq(Sentence \cup {NoSentence})
      /\ Len(heard') = Len(heard) + 1
      /\ DOMAIN heard' = DOMAIN heard \cup {Len(heard) + 1}
      /\ \A k \in DOMAIN heard : heard'[k] = heard[k]
      /\ heard'[Len(heard) + 1] = s
  BY <1>1, <1>4, <1>5, AppendKeeps
<1>7. HeardOK'
  <2>1. Len(heard') = line_number'
    BY <1>2, <1>4, <1>6
  <2>2. ASSUME NEW k \in DOMAIN heard'
        PROVE  heard'[k] = NoSentence
                 \/ (Created(heard'[k]) /\ heard'[k].line_number = k)
    <3>1. CASE k \in DOMAIN heard
      BY <3>1, <1>6 DEF HeardOK
    <3>2. CASE k = Len(heard) + 1
      BY <3>2, <1>3, <1>6
    <3> QED
      BY <3>1, <3>2, <1>6
  <2>3. DOMAIN heard' = 1 .. Len(heard')
    BY <1>6
  <2> QED
    BY <2>1, <2>2 DEF HeardOK, Created
<1> QED
  BY <1>1, <1>3, <1>4, <1>6, <1>7 DEF s

(* A buffer that a call leaves alone or empties stays in order: the        *)
(* sentences it holds are still the ones heard.                            *)
LEMMA BufferKept ==
  ASSUME TypeOK, BuffersInOrder, NEW seq \in SequenceNumbers,
         \A k \in DOMAIN heard : k \in DOMAIN heard' /\ heard'[k] = heard[k],
         \/ incoming_sentences'[seq] = incoming_sentences[seq]
         \/ incoming_sentences'[seq] = << >>
  PROVE  BufferInOrder(seq)'
<1>1. CASE incoming_sentences'[seq] = << >>
  BY <1>1 DEF BufferInOrder
<1>2. CASE incoming_sentences'[seq] = incoming_sentences[seq]
  BY <1>2 DEF BufferInOrder, BuffersInOrder
<1> QED
  BY <1>1, <1>2

(* A first sentence alone is a buffer in order. *)
LEMMA BufferStarted ==
  ASSUME NEW s, Created(s), s.number = 1, s.total # 1, s.seq \in SequenceNumbers,
         s.line_number \in DOMAIN heard', heard'[s.line_number] = s,
         incoming_sentences'[s.seq] = << s >>
  PROVE  BufferInOrder(s.seq)'
<1>1. s.total \in 1 .. kMaxSentences - 1
  BY DEF Created
<1>2. 1 < s.total /\ s.total < kMaxSentences
  BY <1>1 DEF kMaxSentences
<1>3. DOMAIN << s >> = {1} /\ << s >>[1] = s
  OBVIOUS
<1> QED
  BY <1>2, <1>3 DEF BufferInOrder

(* A middle sentence with the number AddLine waits for extends the order. *)
LEMMA BufferExtended ==
  ASSUME TypeOK, BuffersInOrder, NEW s, Created(s),
         s.number < s.total, s.seq \in SequenceNumbers,
         Len(incoming_sentences[s.seq]) + 1 = s.number,
         \A k \in DOMAIN heard : k \in DOMAIN heard' /\ heard'[k] = heard[k],
         s.line_number = Len(heard) + 1,
         s.line_number \in DOMAIN heard', heard'[s.line_number] = s,
         incoming_sentences'[s.seq] = Append(incoming_sentences[s.seq], s)
  PROVE  BufferInOrder(s.seq)'
<1> DEFINE old == incoming_sentences[s.seq]
           new == incoming_sentences'[s.seq]
<1>1. old \in Seq(Sentence) /\ s \in Sentence
  BY DEF TypeOK, Created
<1>2. /\ DOMAIN new = DOMAIN old \cup {s.number}
      /\ \A i \in DOMAIN old : new[i] = old[i]
      /\ new[s.number] = s
  BY <1>1, AppendKeeps
<1>3. DOMAIN old = 1 .. s.number - 1 /\ s.number \in Nat
  BY <1>1
<1>4. BufferInOrder(s.seq)
  BY DEF BuffersInOrder
<1>5. s.total < kMaxSentences
  BY DEF Created, kMaxSentences
<1>6. ASSUME NEW i \in DOMAIN new
      PROVE  /\ new[i].line_number \in DOMAIN heard'
             /\ new[i] = heard'[new[i].line_number]
             /\ new[i].seq = s.seq
             /\ new[i].number = i
             /\ i < new[i].total
             /\ new[i].total < kMaxSentences
  <2>1. CASE i \in DOMAIN old
    BY <2>1, <1>2, <1>4 DEF BufferInOrder
  <2>2. CASE i = s.number
    BY <2>2, <1>2, <1>5
  <2> QED
    BY <2>1, <2>2, <1>2
<1>7. ASSUME NEW i \in DOMAIN new, NEW j \in DOMAIN new, i < j
      PROVE  new[i].line_number < new[j].line_number
  <2>1. CASE j \in DOMAIN old
    <3>1. i \in DOMAIN old
      BY <2>1, <1>2, <1>3, <1>7
    <3> QED
      BY <3>1, <2>1, <1>2, <1>4, <1>7 DEF BufferInOrder
  <2>2. CASE j = s.number
    <3>1. i \in DOMAIN old
      BY <2>2, <1>2, <1>3, <1>7
    <3>2. old[i].line_number \in DOMAIN heard
      BY <3>1, <1>4 DEF BufferInOrder
    <3>3. heard \in Seq(Sentence \cup {NoSentence})
      BY DEF TypeOK
    <3>4. old[i].line_number \in 1 .. Len(heard) /\ Len(heard) \in Nat
      BY <3>2, <3>3
    <3> QED
      BY <3>1, <3>4, <2>2, <1>2
  <2> QED
    BY <2>1, <2>2, <1>2
<1> QED
  BY <1>6, <1>7 DEF BufferInOrder

(* Concatenating payloads and collecting line numbers give sequences. *)
LEMMA BodiesType ==
  ASSUME NEW prior \in Seq(Sentence)
  PROVE  /\ Bodies(prior) \in Seq(Chunks)
         /\ Len(Bodies(prior)) = Len(prior)
         /\ \A i \in 1 .. Len(prior) : Bodies(prior)[i] = prior[i].body[1]
<1>1. \A i \in 1 .. Len(prior) : prior[i] \in Sentence
  OBVIOUS
<1>2. \A i \in 1 .. Len(prior) : prior[i].body \in Seq(Chunks) \ {<< >>}
  BY <1>1 DEF Sentence
<1>3. \A i \in 1 .. Len(prior) : prior[i].body[1] \in Chunks
  BY <1>2
<1>4. Bodies(prior) = [i \in 1 .. Len(prior) |-> prior[i].body[1]]
  BY DEF Bodies
<1> HIDE DEF Bodies
<1> QED
  BY <1>3, <1>4

(* Line numbers of buffered sentences are integers.                        *)
LEMMA LinesOfType ==
  ASSUME NEW prior \in Seq(Sentence)
  PROVE  /\ LinesOf(prior) \in Seq(Int)
         /\ Len(LinesOf(prior)) = Len(prior)
         /\ \A i \in 1 .. Len(prior) : LinesOf(prior)[i] = prior[i].line_number
<1>1. \A i \in 1 .. Len(prior) : prior[i] \in Sentence
  OBVIOUS
<1>2. \A i \in 1 .. Len(prior) : prior[i].line_number \in Int
  BY <1>1 DEF Sentence
<1>3. LinesOf(prior) = [i \in 1 .. Len(prior) |-> prior[i].line_number]
  BY DEF LinesOf
<1> QED
  BY <1>2, <1>3

(* A merged sentence is a sentence with the payloads in a row. *)
LEMMA MergeType ==
  ASSUME NEW s \in Sentence, NEW prior \in Seq(Sentence)
  PROVE  \/ Merge(s, prior) = NoSentence
         \/ /\ Merge(s, prior) \in Sentence
            /\ Merge(s, prior).body = Bodies(prior) \o s.body
            /\ Merge(s, prior).fill_bits = s.fill_bits
            /\ CanMerge(s, prior)
<1> SUFFICES ASSUME CanMerge(s, prior)
             PROVE  /\ Merge(s, prior) \in Sentence
                    /\ Merge(s, prior).body = Bodies(prior) \o s.body
                    /\ Merge(s, prior).fill_bits = s.fill_bits
  BY DEF Merge
<1>1. Bodies(prior) \in Seq(Chunks)
  BY BodiesType
<1>2. s.body \in Seq(Chunks) \ {<< >>}
  BY DEF Sentence
<1>3. Bodies(prior) \o s.body \in Seq(Chunks) \ {<< >>}
  BY <1>1, <1>2
<1> DEFINE body == Bodies(prior) \o s.body
<1>4. Merge(s, prior) = [talker      |-> s.talker,
                         total       |-> 1,
                         number      |-> 1,
                         seq         |-> s.seq,
                         channel     |-> s.channel,
                         body        |-> body,
                         fill_bits   |-> s.fill_bits,
                         line_number |-> s.line_number]
  BY DEF Merge
<1>5. body \in Seq(Chunks) \ {<< >>}
  BY <1>3
<1> HIDE DEF body
<1>6. /\ Merge(s, prior) \in Sentence
      /\ Merge(s, prior).body = body
      /\ Merge(s, prior).fill_bits = s.fill_bits
  BY <1>4, <1>5 DEF Sentence
<1> QED
  BY <1>6 DEF body

(* Queueing a message at the front keeps the queue one of messages. *)
LEMMA EmitType ==
  ASSUME TypeOK, NEW s \in Sentence \cup {NoSentence}, NEW lines \in Seq(Int),
         Emit(s, lines)
  PROVE  messages' \in Seq(Message) /\ accepted' \in BOOLEAN
<1>1. messages \in Seq(Message)
  BY DEF TypeOK
<1>2. CASE s # NoSentence /\ Decodes(s)
  <2> DEFINE m == [body |-> s.body, fill_bits |-> s.fill_bits, lines |-> lines]
  <2>1. s \in Sentence
    BY <1>2
  <2>2. m \in Message
    BY <2>1 DEF Sentence, Message
  <2>3. messages' = << m >> \o messages
    BY <1>2 DEF Emit
  <2>4. accepted' = TRUE
    BY <1>2 DEF Emit
  <2> HIDE DEF m
  <2>5. messages' \in Seq(Message)
    BY <1>1, <2>2, <2>3
  <2>6. accepted' \in BOOLEAN
    BY <2>4, Zenon
  <2> QED
    BY <2>5, <2>6
<1>3. CASE ~ (s # NoSentence /\ Decodes(s))
  <2>1. messages' = messages /\ accepted' = FALSE
    BY <1>3 DEF Emit
  <2>2. accepted' \in BOOLEAN
    BY <2>1, Zenon
  <2> QED
    BY <1>1, <2>1, <2>2
<1> QED
  BY <1>2, <1>3

(* A created sentence of a multi-line message that AddLine goes on with    *)
(* has a buffer: its number is not kNoSequenceNumber.                      *)
LEMMA SeqInRange ==
  ASSUME NEW s, Created(s), Usable(s), s.total # 1
  PROVE  s.seq \in SequenceNumbers
BY DEF Created, Usable, SequenceNumbers, kNumSequenceChannels, kNoSequenceNumber

(* Every branch of AddLine keeps the types of what it assigns. *)
LEMMA BranchType ==
  ASSUME TypeOK, NEW s \in Sentence \cup {NoSentence},
         \/ IgnoreLine(s)
         \/ Created(s) /\ (\/ SingleLine(s) \/ FirstSentence(s)
                           \/ MiddleSentence(s) \/ FinalSentence(s))
  PROVE  /\ incoming_sentences' \in [SequenceNumbers -> Seq(Sentence)]
         /\ messages' \in Seq(Message)
         /\ accepted' \in BOOLEAN
<1>1. /\ incoming_sentences \in [SequenceNumbers -> Seq(Sentence)]
      /\ messages \in Seq(Message)
  BY DEF TypeOK
<1>3. ASSUME Reject
      PROVE  /\ incoming_sentences' \in [SequenceNumbers -> Seq(Sentence)]
             /\ messages' \in Seq(Message)
             /\ accepted' \in BOOLEAN
  <2>1. accepted' \in BOOLEAN
    BY <1>3, Zenon DEF Reject
  <2> QED
    BY <1>1, <1>3, <2>1 DEF Reject
<1>4. CASE IgnoreLine(s)
  BY <1>3, <1>4 DEF IgnoreLine
<1>5. CASE Created(s) /\ SingleLine(s)
  <2>1. << s.line_number >> \in Seq(Int)
    BY <1>5 DEF Created, Sentence
  <2>2. Emit(s, << s.line_number >>) /\ incoming_sentences' = incoming_sentences
    BY <1>5 DEF SingleLine
  <2> QED
    BY <1>1, <2>1, <2>2, EmitType
<1>6. CASE Created(s) /\ FirstSentence(s)
  <2>1. << s >> \in Seq(Sentence)
    BY <1>6 DEF Created
  <2>2. incoming_sentences' \in [SequenceNumbers -> Seq(Sentence)]
    BY <1>1, <1>6, <2>1 DEF FirstSentence
  <2>3. accepted' \in BOOLEAN
    BY <1>6, Zenon DEF FirstSentence
  <2> QED
    BY <1>1, <1>6, <2>2, <2>3 DEF FirstSentence
<1>7. CASE Created(s) /\ MiddleSentence(s)
  <2>1. CASE Len(incoming_sentences[s.seq]) + 1 # s.number
    BY <1>3, <1>7, <2>1 DEF MiddleSentence
  <2>2. CASE ~ (Len(incoming_sentences[s.seq]) + 1 # s.number)
    <3>1. /\ incoming_sentences' = [incoming_sentences EXCEPT
                ![s.seq] = Append(incoming_sentences[s.seq], s)]
          /\ messages' = messages
      BY <1>7, <2>2 DEF MiddleSentence
    <3>2. accepted' \in BOOLEAN
      BY <1>7, <2>2, Zenon DEF MiddleSentence
    <3>3. ASSUME s.seq \in SequenceNumbers
          PROVE  Append(incoming_sentences[s.seq], s) \in Seq(Sentence)
      BY <1>1, <1>7, <3>3, AppendKeeps DEF Created
    <3> QED
      BY <1>1, <3>1, <3>2, <3>3
  <2> QED
    BY <2>1, <2>2
<1>8. CASE Created(s) /\ FinalSentence(s)
  <2> DEFINE prior == incoming_sentences[s.seq]
  <2>1. incoming_sentences' \in [SequenceNumbers -> Seq(Sentence)]
    <3>1. << >> \in Seq(Sentence)
      OBVIOUS
    <3> QED
      BY <1>1, <1>8, <3>1 DEF FinalSentence
  <2>2. CASE Len(prior) # s.total - 1
    <3>1. accepted' \in BOOLEAN
      BY <1>8, <2>2, Zenon DEF FinalSentence
    <3> QED
      BY <1>1, <1>8, <2>1, <2>2, <3>1 DEF FinalSentence
  <2>3. CASE ~ (Len(prior) # s.total - 1)
    <3>1. s.seq \in SequenceNumbers
      BY <1>8, SeqInRange DEF FinalSentence, Usable
    <3>2. prior \in Seq(Sentence)
      BY <1>1, <3>1
    <3>3. Merge(s, prior) \in Sentence \cup {NoSentence}
      BY <1>8, <3>2, MergeType DEF Created
    <3>4. Append(LinesOf(prior), s.line_number) \in Seq(Int)
      <4>1. LinesOf(prior) \in Seq(Int)
        BY <3>2, LinesOfType
      <4>2. s.line_number \in Int
        BY <1>8 DEF Created, Sentence
      <4> QED
        BY <4>1, <4>2, AppendKeeps
    <3>5. Emit(Merge(s, prior), Append(LinesOf(prior), s.line_number))
      BY <1>8, <2>3 DEF FinalSentence
    <3> QED
      BY <2>1, <3>3, <3>4, <3>5, EmitType
  <2> QED
    BY <2>2, <2>3
<1> QED
  BY <1>4, <1>5, <1>6, <1>7, <1>8

(* Every branch of AddLine keeps every buffer in order: only the buffer of *)
(* the sentence's own number changes, to one sentence, one more, or none.  *)
LEMMA BranchOrder ==
  ASSUME TypeOK, BuffersInOrder, NEW s \in Sentence \cup {NoSentence},
         \/ IgnoreLine(s)
         \/ Created(s) /\ (\/ SingleLine(s) \/ FirstSentence(s)
                           \/ MiddleSentence(s) \/ FinalSentence(s)),
         \A k \in DOMAIN heard : k \in DOMAIN heard' /\ heard'[k] = heard[k],
         s # NoSentence => /\ s.line_number = Len(heard) + 1
                           /\ s.line_number \in DOMAIN heard'
                           /\ heard'[s.line_number] = s
  PROVE  BuffersInOrder'
<1>1. incoming_sentences \in [SequenceNumbers -> Seq(Sentence)]
  BY DEF TypeOK
<1>2. ASSUME UNCHANGED incoming_sentences
      PROVE  BuffersInOrder'
  <2>1. \A seq \in SequenceNumbers : BufferInOrder(seq)'
    BY <1>2, BufferKept
  <2> QED
    BY <2>1 DEF BuffersInOrder
<1>3. ASSUME NEW buffer, s.seq \in SequenceNumbers,
             incoming_sentences' = [incoming_sentences EXCEPT ![s.seq] = buffer],
             BufferInOrder(s.seq)'
      PROVE  BuffersInOrder'
  <2>1. ASSUME NEW seq \in SequenceNumbers, seq # s.seq
        PROVE  BufferInOrder(seq)'
    <3>1. incoming_sentences'[seq] = incoming_sentences[seq]
      BY <1>1, <1>3, <2>1
    <3> QED
      BY <3>1, BufferKept
  <2> QED
    BY <1>3, <2>1 DEF BuffersInOrder
<1>4. CASE IgnoreLine(s)
  BY <1>2, <1>4 DEF IgnoreLine, Reject
<1>5. CASE Created(s) /\ SingleLine(s)
  BY <1>2, <1>5 DEF SingleLine
<1>6. CASE Created(s) /\ FirstSentence(s)
  <2>1. s # NoSentence /\ s.seq \in SequenceNumbers /\ s.total # 1 /\ s.number = 1
    BY <1>6, SeqInRange DEF FirstSentence, Usable
  <2>2. incoming_sentences' = [incoming_sentences EXCEPT ![s.seq] = << s >>]
    BY <1>6 DEF FirstSentence
  <2>3. incoming_sentences'[s.seq] = << s >>
    BY <1>1, <2>1, <2>2
  <2>4. BufferInOrder(s.seq)'
    BY <1>6, <2>1, <2>3, BufferStarted
  <2> QED
    BY <1>3, <2>1, <2>2, <2>4
<1>7. CASE Created(s) /\ MiddleSentence(s)
  <2>1. CASE Len(incoming_sentences[s.seq]) + 1 # s.number
    BY <1>2, <1>7, <2>1 DEF MiddleSentence, Reject
  <2>2. CASE ~ (Len(incoming_sentences[s.seq]) + 1 # s.number)
    <3>1. s # NoSentence /\ s.seq \in SequenceNumbers
      BY <1>7, SeqInRange DEF MiddleSentence, Usable
    <3>2. s.number < s.total
      BY <1>7 DEF MiddleSentence, Created, kMaxSentences
    <3>3. incoming_sentences' = [incoming_sentences EXCEPT
                ![s.seq] = Append(incoming_sentences[s.seq], s)]
      BY <1>7, <2>2 DEF MiddleSentence
    <3>4. incoming_sentences'[s.seq] = Append(incoming_sentences[s.seq], s)
      BY <1>1, <3>1, <3>3
    <3>5. BufferInOrder(s.seq)'
      BY <1>7, <2>2, <3>1, <3>2, <3>4, BufferExtended
    <3> QED
      BY <1>3, <3>1, <3>3, <3>5
  <2> QED
    BY <2>1, <2>2
<1>8. CASE Created(s) /\ FinalSentence(s)
  <2>1. s.seq \in SequenceNumbers
    BY <1>8, SeqInRange DEF FinalSentence, Usable
  <2>2. incoming_sentences' = [incoming_sentences EXCEPT ![s.seq] = << >>]
    BY <1>8 DEF FinalSentence
  <2>3. incoming_sentences'[s.seq] = << >>
    BY <1>1, <2>1, <2>2
  <2>4. BufferInOrder(s.seq)'
    BY <2>1, <2>3, BufferKept
  <2> QED
    BY <1>3, <2>1, <2>2, <2>4
<1> QED
  BY <1>4, <1>5, <1>6, <1>7, <1>8

(* A call of AddLine, whatever its line, keeps types and buffer order.      *)
LEMMA AddLineInductive ==
  ASSUME Inductive, NEW line \in Lines, AddLine(line)
  PROVE  Inductive'
<1> DEFINE s == Create(line, line_number + 1)
<1>1. TypeOK /\ HeardOK /\ BuffersInOrder
  BY DEF Inductive
<1>2. /\ s = NoSentence \/ (Created(s) /\ s.line_number = Len(heard) + 1)
      /\ line_number' \in Nat
      /\ heard' \in Seq(Sentence \cup {NoSentence})
      /\ DOMAIN heard' = DOMAIN heard \cup {Len(heard) + 1}
      /\ \A k \in DOMAIN heard : heard'[k] = heard[k]
      /\ heard'[Len(heard) + 1] = s
      /\ HeardOK'
  BY <1>1, HearLine
<1>3. /\ delivered' = delivered
      /\ \/ IgnoreLine(s)
         \/ SingleLine(s) \/ FirstSentence(s)
         \/ MiddleSentence(s) \/ FinalSentence(s)
  BY DEF AddLine
<1> HIDE DEF s
<1>4. \/ IgnoreLine(s)
      \/ Created(s) /\ (\/ SingleLine(s) \/ FirstSentence(s)
                        \/ MiddleSentence(s) \/ FinalSentence(s))
  BY <1>2, <1>3 DEF SingleLine, FirstSentence, MiddleSentence, FinalSentence, Usable
<1>5. s \in Sentence \cup {NoSentence}
  BY <1>2 DEF Created
<1>6. TypeOK'
  <2>1. /\ incoming_sentences' \in [SequenceNumbers -> Seq(Sentence)]
        /\ messages' \in Seq(Message)
        /\ accepted' \in BOOLEAN
    BY <1>1, <1>4, <1>5, BranchType
  <2> QED
    BY <1>1, <1>2, <1>3, <2>1 DEF TypeOK
<1>7. BuffersInOrder'
  BY <1>1, <1>2, <1>4, <1>5, BranchOrder
<1> QED
  BY <1>2, <1>6, <1>7 DEF Inductive

(* PopOldestMessage moves one message and touches no buffer.               *)
LEMMA PopInductive ==
  ASSUME Inductive, PopOldestMessage
  PROVE  Inductive'
<1>1. messages \in Seq(Message) /\ delivered \in Seq(Message) /\ messages # << >>
  BY DEF Inductive, TypeOK, PopOldestMessage
<1>2. Last(messages) \in Message
  BY <1>1 DEF Last
<1>3. delivered' \in Seq(Message)
  BY <1>1, <1>2, AppendKeeps DEF PopOldestMessage
<1>4. messages' \in Seq(Message)
  <2>1. messages' = SubSeq(messages, 1, Len(messages) - 1)
    BY DEF PopOldestMessage, Front
  <2> QED
    BY <1>1, <2>1
<1>5. TypeOK'
  BY <1>3, <1>4 DEF Inductive, TypeOK, PopOldestMessage
<1> QED
  BY <1>5 DEF Inductive, HeardOK, BuffersInOrder, BufferInOrder, PopOldestMessage

LEMMA StepInductive ==
  ASSUME Inductive, [Next]_vars
  PROVE  Inductive'
<1>1. ASSUME NEW line \in Lines, AddLine(line) PROVE Inductive'
  BY <1>1, AddLineInductive
<1>2. CASE PopOldestMessage
  BY <1>2, PopInductive
<1>3. CASE UNCHANGED vars
  BY <1>3 DEF vars, Inductive, TypeOK, HeardOK, BuffersInOrder, BufferInOrder
<1> QED
  BY <1>1, <1>2, <1>3 DEF Next

(* Whatever the lines, the state of the stream is of its type, every       *)
(* sentence heard passed Create and every buffer is in order.              *)
THEOREM InductiveInvariant == Spec => []Inductive
<1>1. Init => Inductive
  BY InitInductive
<1>2. Inductive /\ [Next]_vars => Inductive'
  BY StepInductive
<1> QED
  BY <1>1, <1>2, PTL DEF Spec

(* The buffer of every sequence number holds the sentences 1, 2, ... of a  *)
(* message, in the order they were heard (AddLine's tests on the number).  *)
THEOREM BuffersAreInOrder == Spec => []BuffersInOrder
<1>1. Inductive => BuffersInOrder
  BY DEF Inductive
<1> QED
  BY <1>1, InductiveInvariant, PTL

(* Types hold in every state a caller can reach. *)
THEOREM TypeCorrect == Spec => []TypeOK
<1>1. Inductive => TypeOK
  BY DEF Inductive
<1> QED
  BY <1>1, InductiveInvariant, PTL

-----------------------------------------------------------------------------
(* What comes out is coherent.                                             *)

OutputCoherent ==
  /\ \A i \in DOMAIN messages : Coherent(heard, messages[i])
  /\ \A i \in DOMAIN delivered : Coherent(heard, delivered[i])

(* A coherent message stays so when more lines are heard. *)
LEMMA CoherentKept ==
  ASSUME NEW m, Coherent(heard, m),
         \A k \in DOMAIN heard : k \in DOMAIN heard' /\ heard'[k] = heard[k]
  PROVE  Coherent(heard', m)
<1>1. \A i \in 1 .. Len(m.lines) : /\ m.lines[i] \in DOMAIN heard'
                                   /\ heard'[m.lines[i]] = heard[m.lines[i]]
  BY DEF Coherent
<1>2. [i \in 1 .. Len(m.lines) |-> heard'[m.lines[i]]]
        = [i \in 1 .. Len(m.lines) |-> heard[m.lines[i]]]
  BY <1>1
<1>3. Len(m.lines) >= 1 => Len(m.lines) \in 1 .. Len(m.lines)
  OBVIOUS
<1> QED
  BY <1>1, <1>2, <1>3 DEF Coherent

(* Payloads and line numbers of a buffer and the sentence after it. *)
LEMMA AppendedParts ==
  ASSUME NEW prior \in Seq(Sentence), NEW s \in Sentence, s.body = << s.body[1] >>
  PROVE  /\ Bodies(Append(prior, s)) = Bodies(prior) \o s.body
         /\ LinesOf(Append(prior, s)) = Append(LinesOf(prior), s.line_number)
<1> DEFINE part == Append(prior, s)
           n == Len(prior)
<1>1. /\ part \in Seq(Sentence)
      /\ n \in Nat
      /\ Len(part) = n + 1
      /\ \A i \in 1 .. n : part[i] = prior[i]
      /\ part[n + 1] = s
  BY AppendKeeps
<1>2. s.body[1] \in Chunks /\ s.line_number \in Int
  BY DEF Sentence
<1> DEFINE c == s.body[1]
           b == Bodies(prior)
           l == LinesOf(prior)
<1>3. /\ b \in Seq(Chunks)
      /\ Len(b) = n
      /\ \A i \in 1 .. n : b[i] = prior[i].body[1]
  BY BodiesType
<1>4. /\ l \in Seq(Int)
      /\ Len(l) = n
      /\ \A i \in 1 .. n : l[i] = prior[i].line_number
  BY LinesOfType
<1>5. /\ Bodies(part) \in Seq(Chunks)
      /\ Len(Bodies(part)) = n + 1
      /\ \A i \in 1 .. n + 1 : Bodies(part)[i] = part[i].body[1]
  BY <1>1, BodiesType
<1>6. /\ LinesOf(part) \in Seq(Int)
      /\ Len(LinesOf(part)) = n + 1
      /\ \A i \in 1 .. n + 1 : LinesOf(part)[i] = part[i].line_number
  BY <1>1, LinesOfType
<1>7. \A i \in 1 .. n + 1 : i \in 1 .. n \/ i = n + 1
  BY <1>1
<1> HIDE DEF part, n, c, b, l
<1>8. /\ b \o << c >> \in Seq(Chunks)
      /\ Len(b \o << c >>) = n + 1
      /\ \A i \in 1 .. n : (b \o << c >>)[i] = b[i]
      /\ (b \o << c >>)[n + 1] = c
  BY <1>1, <1>2, <1>3, SMTT(30) DEF c
<1>9. \A i \in 1 .. n + 1 : Bodies(part)[i] = (b \o << c >>)[i]
  <2> SUFFICES ASSUME NEW i \in 1 .. n + 1
               PROVE  Bodies(part)[i] = (b \o << c >>)[i]
    OBVIOUS
  <2>1. Bodies(part)[i] = part[i].body[1]
    BY <1>5
  <2>2. CASE i \in 1 .. n
    <3>1. part[i] = prior[i] /\ b[i] = prior[i].body[1]
      BY <1>1, <1>3, <2>2
    <3> QED
      BY <1>8, <2>1, <2>2, <3>1
  <2>3. CASE i = n + 1
    <3>1. part[i].body[1] = c
      BY <1>1, <2>3 DEF c
    <3> QED
      BY <1>8, <2>1, <2>3, <3>1
  <2> QED
    BY <1>7, <2>2, <2>3
<1>10. Bodies(part) = b \o << c >>
  BY <1>1, <1>5, <1>8, <1>9
<1>11. /\ Append(l, s.line_number) \in Seq(Int)
       /\ Len(Append(l, s.line_number)) = n + 1
       /\ \A i \in 1 .. n : Append(l, s.line_number)[i] = l[i]
       /\ Append(l, s.line_number)[n + 1] = s.line_number
  BY <1>1, <1>2, <1>4
<1>12. \A i \in 1 .. n + 1 : LinesOf(part)[i] = Append(l, s.line_number)[i]
  BY <1>1, <1>4, <1>6, <1>7, <1>11, SMTT(30)
<1>13. LinesOf(part) = Append(l, s.line_number)
  BY <1>1, <1>6, <1>11, <1>12
<1> QED
  BY <1>10, <1>13 DEF part, b, c, l

(* Heard sentences 1..n of one header, in their order, make a coherent     *)
(* message of their payloads and line numbers.                             *)
LEMMA PartsCoherent ==
  ASSUME NEW part \in Seq(Sentence), NEW n \in Nat, n = Len(part), n >= 1,
         \A i \in 1 .. n : /\ part[i].line_number \in DOMAIN heard'
                           /\ heard'[part[i].line_number] = part[i]
                           /\ part[i].number = i
                           /\ part[i].total = n
                           /\ part[i].talker = part[n].talker
                           /\ part[i].seq = part[n].seq
                           /\ part[i].channel = part[n].channel,
         \A i, j \in 1 .. n : i < j => part[i].line_number < part[j].line_number,
         NEW m, m.lines = LinesOf(part), m.body = Bodies(part),
         m.fill_bits = part[n].fill_bits
  PROVE  Coherent(heard', m)
<1>1. \A i \in 1 .. n : part[i] \in Sentence /\ part[i] # NoSentence
  BY SentenceIsNotNull
<1>2. Len(m.lines) = n /\ \A i \in 1 .. n : m.lines[i] = part[i].line_number
  BY LinesOfType
<1>3. \A i \in 1 .. n : heard'[m.lines[i]] = part[i]
  BY <1>2
<1>4. part = [i \in 1 .. n |-> heard'[m.lines[i]]]
  BY <1>3
<1>5. m.body = Bodies([i \in 1 .. n |-> heard'[m.lines[i]]])
  BY <1>4
<1>6. n \in 1 .. n
  OBVIOUS
<1> QED
  BY <1>1, <1>2, <1>3, <1>5, <1>6 DEF Coherent

(* A single line makes a coherent message of its own. *)
LEMMA SingleCoherent ==
  ASSUME NEW s, Created(s), s.total = 1,
         s.line_number \in DOMAIN heard', heard'[s.line_number] = s,
         NEW m, m.body = s.body, m.fill_bits = s.fill_bits,
         m.lines = << s.line_number >>
  PROVE  Coherent(heard', m)
<1> DEFINE part == << s >>
<1>1. part \in Seq(Sentence) /\ Len(part) = 1 /\ part[1] = s
  BY DEF Created
<1>2. s.number = 1 /\ s.body = << s.body[1] >>
  BY DEF Created
<1>3. Bodies(part) = m.body
  <2>1. Bodies(part) = << s.body[1] >>
    BY DEF Bodies
  <2> QED
    BY <1>2, <2>1
<1>4. LinesOf(part) = m.lines
  BY DEF LinesOf
<1> HIDE DEF part
<1>5. \A i \in 1 .. 1 : i = 1
  OBVIOUS
<1>6. \A i \in 1 .. 1 : /\ part[i].line_number \in DOMAIN heard'
                        /\ heard'[part[i].line_number] = part[i]
                        /\ part[i].number = i
                        /\ part[i].total = 1
                        /\ part[i].talker = part[1].talker
                        /\ part[i].seq = part[1].seq
                        /\ part[i].channel = part[1].channel
  BY <1>1, <1>2, <1>5
<1>7. \A i, j \in 1 .. 1 : i < j => part[i].line_number < part[j].line_number
  BY <1>5
<1>8. 1 \in Nat /\ 1 >= 1 /\ m.fill_bits = part[1].fill_bits
  BY <1>1
<1> QED
  BY <1>1, <1>3, <1>4, <1>6, <1>7, <1>8, PartsCoherent

(* A buffer in order and the final sentence that merges with it make a     *)
(* coherent message.                                                       *)
LEMMA MergedCoherent ==
  ASSUME Inductive, NEW s, Created(s), s.seq \in SequenceNumbers,
         s.number = s.total,
         CanMerge(s, incoming_sentences[s.seq]),
         \A k \in DOMAIN heard : k \in DOMAIN heard' /\ heard'[k] = heard[k],
         s.line_number = Len(heard) + 1,
         s.line_number \in DOMAIN heard', heard'[s.line_number] = s,
         NEW m,
         m.body = Bodies(incoming_sentences[s.seq]) \o s.body,
         m.fill_bits = s.fill_bits,
         m.lines = Append(LinesOf(incoming_sentences[s.seq]), s.line_number)
  PROVE  Coherent(heard', m)
<1> DEFINE prior == incoming_sentences[s.seq]
           part == Append(prior, s)
           n == Len(part)
<1>1. prior \in Seq(Sentence) /\ heard \in Seq(Sentence \cup {NoSentence})
  BY DEF Inductive, TypeOK
<1>2. s \in Sentence /\ s.total \in Nat /\ s.body = << s.body[1] >>
  BY DEF Created, Sentence, kMaxSentences
<1>3. m.body = Bodies(part) /\ m.lines = LinesOf(part)
  BY <1>1, <1>2, AppendedParts
<1>4. /\ part \in Seq(Sentence)
      /\ n \in Nat
      /\ n = Len(prior) + 1
      /\ \A i \in DOMAIN prior : part[i] = prior[i]
      /\ part[n] = s
  BY <1>1, <1>2, AppendKeeps
<1>5. n = s.total
  BY <1>1, <1>2, <1>4 DEF CanMerge
<1>6. \A i \in 1 .. n : i \in DOMAIN prior \/ i = n
  BY <1>1, <1>4
<1>7. ASSUME NEW i \in DOMAIN prior
      PROVE  /\ prior[i].line_number \in DOMAIN heard
             /\ prior[i] = heard[prior[i].line_number]
             /\ prior[i].number = i
             /\ VerifyInSameMessage(s, prior[i])
             /\ prior[i].line_number < s.line_number
  <2>1. prior[i].line_number \in DOMAIN heard /\ prior[i] = heard[prior[i].line_number]
    BY DEF Inductive, BuffersInOrder, BufferInOrder
  <2>2. prior[i].line_number \in 1 .. Len(heard) /\ Len(heard) \in Nat
    BY <1>1, <2>1
  <2> QED
    BY <2>1, <2>2 DEF CanMerge
<1>8. ASSUME NEW i \in DOMAIN prior, NEW j \in DOMAIN prior, i < j
      PROVE  prior[i].line_number < prior[j].line_number
  BY <1>8 DEF Inductive, BuffersInOrder, BufferInOrder
<1>9. n >= 1 /\ DOMAIN prior = 1 .. n - 1
  BY <1>1, <1>4
<1> HIDE DEF prior, part, n
<1>10. ASSUME NEW i \in 1 .. n
       PROVE  /\ part[i].line_number \in DOMAIN heard'
              /\ heard'[part[i].line_number] = part[i]
              /\ part[i].number = i
              /\ part[i].total = n
              /\ part[i].talker = part[n].talker
              /\ part[i].seq = part[n].seq
              /\ part[i].channel = part[n].channel
  <2>1. CASE i \in DOMAIN prior
    BY <1>4, <1>5, <1>7, <2>1 DEF VerifyInSameMessage
  <2>2. CASE i = n
    BY <1>4, <1>5, <2>2
  <2> QED
    BY <1>6, <2>1, <2>2
<1>11. ASSUME NEW i \in 1 .. n, NEW j \in 1 .. n, i < j
       PROVE  part[i].line_number < part[j].line_number
  <2>1. i \in DOMAIN prior
    BY <1>4, <1>9, <1>11
  <2>2. CASE j \in DOMAIN prior
    BY <1>4, <1>8, <1>11, <2>1, <2>2
  <2>3. CASE j = n
    BY <1>4, <1>7, <2>1, <2>3
  <2> QED
    BY <1>6, <2>2, <2>3
<1>12. n = Len(part) /\ m.fill_bits = part[n].fill_bits
  BY <1>4 DEF n
<1> QED
  BY <1>3, <1>4, <1>9, <1>10, <1>11, <1>12, PartsCoherent, SMTT(30)

(* Emit puts at most one message in front, and that one is coherent if the *)
(* message it was asked for is.                                            *)
LEMMA EmitCoherent ==
  ASSUME TypeOK, NEW h, NEW s, NEW lines, Emit(s, lines),
         \A i \in DOMAIN messages : Coherent(h, messages[i]),
         s # NoSentence =>
           Coherent(h, [body |-> s.body, fill_bits |-> s.fill_bits,
                        lines |-> lines])
  PROVE  \A i \in DOMAIN messages' : Coherent(h, messages'[i])
<1>1. CASE s # NoSentence /\ Decodes(s)
  <2> DEFINE m == [body |-> s.body, fill_bits |-> s.fill_bits, lines |-> lines]
  <2>1. messages' = << m >> \o messages
    BY <1>1 DEF Emit
  <2>2. Coherent(h, m)
    BY <1>1
  <2>3. messages \in Seq(Message)
    BY DEF TypeOK
  <2> HIDE DEF m
  <2>4. /\ DOMAIN messages' = 1 .. Len(messages) + 1
        /\ Len(messages) \in Nat
        /\ messages'[1] = m
        /\ \A i \in 2 .. Len(messages) + 1 : messages'[i] = messages[i - 1]
    BY <2>1, <2>3
  <2>5. ASSUME NEW i \in DOMAIN messages'
        PROVE  Coherent(h, messages'[i])
    <3>1. i \in 1 .. Len(messages) + 1
      BY <2>4
    <3>2. CASE i = 1
      BY <2>2, <2>4, <3>2
    <3>3. CASE i \in 2 .. Len(messages) + 1
      <4>1. messages'[i] = messages[i - 1]
        BY <2>4, <3>3
      <4>2. i - 1 \in DOMAIN messages
        BY <2>3, <2>4, <3>3
      <4> QED
        BY <4>1, <4>2
    <3> QED
      BY <2>4, <3>1, <3>2, <3>3
  <2> QED
    BY <2>5
<1>2. CASE ~ (s # NoSentence /\ Decodes(s))
  BY <1>2 DEF Emit
<1> QED
  BY <1>1, <1>2

(* AddLine keeps what came out coherent: it hears one line more and queues *)
(* at most one message, made of a single line or of a buffer in order.     *)
LEMMA AddLineCoherent ==
  ASSUME Inductive, OutputCoherent, NEW line \in Lines, AddLine(line)
  PROVE  OutputCoherent'
<1> DEFINE s == Create(line, line_number + 1)
<1>1. TypeOK /\ HeardOK /\ BuffersInOrder
  BY DEF Inductive
<1>2. /\ s = NoSentence \/ (Created(s) /\ s.line_number = Len(heard) + 1)
      /\ DOMAIN heard' = DOMAIN heard \cup {Len(heard) + 1}
      /\ \A k \in DOMAIN heard : heard'[k] = heard[k]
      /\ heard'[Len(heard) + 1] = s
  BY <1>1, HearLine
<1>3. /\ delivered' = delivered
      /\ \/ IgnoreLine(s)
         \/ SingleLine(s) \/ FirstSentence(s)
         \/ MiddleSentence(s) \/ FinalSentence(s)
  BY DEF AddLine
<1> HIDE DEF s
<1>4. \A k \in DOMAIN heard : k \in DOMAIN heard' /\ heard'[k] = heard[k]
  BY <1>2
<1>5. /\ \A i \in DOMAIN messages : Coherent(heard', messages[i])
      /\ \A i \in DOMAIN delivered : Coherent(heard', delivered[i])
  BY <1>4, CoherentKept DEF OutputCoherent
<1>6. SUFFICES \A i \in DOMAIN messages' : Coherent(heard', messages'[i])
  BY <1>3, <1>5 DEF OutputCoherent
<1>7. ASSUME messages' = messages
      PROVE  \A i \in DOMAIN messages' : Coherent(heard', messages'[i])
  BY <1>5, <1>7
<1>8. CASE IgnoreLine(s)
  BY <1>7, <1>8 DEF IgnoreLine, Reject
<1>9. CASE FirstSentence(s)
  BY <1>7, <1>9 DEF FirstSentence
<1>10. CASE MiddleSentence(s)
  BY <1>7, <1>10 DEF MiddleSentence, Reject
<1>11. ASSUME Usable(s)
       PROVE  Created(s) /\ s.line_number \in DOMAIN heard' /\ heard'[s.line_number] = s
                /\ s.line_number = Len(heard) + 1
  BY <1>2, <1>11 DEF Usable
<1>12. CASE SingleLine(s)
  <2> DEFINE m == [body |-> s.body, fill_bits |-> s.fill_bits,
                   lines |-> << s.line_number >>]
  <2>1. Emit(s, << s.line_number >>) /\ Usable(s) /\ s.total = 1
    BY <1>12 DEF SingleLine
  <2>2. /\ m.body = s.body
        /\ m.fill_bits = s.fill_bits
        /\ m.lines = << s.line_number >>
    OBVIOUS
  <2> HIDE DEF m
  <2>3. Coherent(heard', m)
    BY <1>11, <2>1, <2>2, SingleCoherent
  <2> QED
    BY <1>1, <1>5, <2>1, <2>3, EmitCoherent DEF m
<1>13. CASE FinalSentence(s)
  <2> DEFINE prior == incoming_sentences[s.seq]
  <2>1. Usable(s) /\ s.total # 1 /\ s.number = s.total
    BY <1>13 DEF FinalSentence
  <2>2. CASE Len(prior) # s.total - 1
    BY <1>7, <1>13, <2>2 DEF FinalSentence
  <2>3. CASE ~ (Len(prior) # s.total - 1)
    <3> DEFINE t == Merge(s, prior)
               lines == Append(LinesOf(prior), s.line_number)
               m == [body |-> t.body, fill_bits |-> t.fill_bits, lines |-> lines]
    <3>1. Emit(t, lines)
      BY <1>13, <2>3 DEF FinalSentence
    <3>2. Created(s) /\ s.seq \in SequenceNumbers
      BY <1>11, <2>1, SeqInRange
    <3>3. prior \in Seq(Sentence) /\ s \in Sentence
      BY <1>1, <3>2 DEF TypeOK, Created
    <3>4. ASSUME t # NoSentence
          PROVE  Coherent(heard', m)
      <4>1. /\ t.body = Bodies(prior) \o s.body
            /\ t.fill_bits = s.fill_bits
            /\ CanMerge(s, prior)
        BY <3>3, <3>4, MergeType
      <4>2. /\ m.body = t.body
            /\ m.fill_bits = t.fill_bits
            /\ m.lines = lines
        OBVIOUS
      <4> HIDE DEF m, t
      <4>3. /\ m.body = Bodies(prior) \o s.body
            /\ m.fill_bits = s.fill_bits
            /\ m.lines = Append(LinesOf(prior), s.line_number)
        BY <4>1, <4>2
      <4> QED
        BY <1>4, <1>11, <2>1, <3>2, <4>1, <4>3, MergedCoherent
    <3> HIDE DEF t, lines
    <3> QED
      BY <1>1, <1>5, <3>1, <3>4, EmitCoherent
  <2> QED
    BY <2>2, <2>3
<1> QED
  BY <1>3, <1>8, <1>9, <1>10, <1>12, <1>13

(* PopOldestMessage only moves a message that is coherent already.         *)
LEMMA PopCoherent ==
  ASSUME Inductive, OutputCoherent, PopOldestMessage
  PROVE  OutputCoherent'
<1>1. messages \in Seq(Message) /\ delivered \in Seq(Message) /\ messages # << >>
  BY DEF Inductive, TypeOK, PopOldestMessage
<1>2. /\ heard' = heard
      /\ messages' = SubSeq(messages, 1, Len(messages) - 1)
      /\ delivered' = Append(delivered, messages[Len(messages)])
  BY DEF PopOldestMessage, Front, Last
<1>3. \A i \in DOMAIN messages' : i \in DOMAIN messages /\ messages'[i] = messages[i]
  BY <1>1, <1>2
<1>4. Len(messages) \in DOMAIN messages /\ messages[Len(messages)] \in Message
  BY <1>1
<1>5. \A i \in DOMAIN delivered' :
        \/ i \in DOMAIN delivered /\ delivered'[i] = delivered[i]
        \/ delivered'[i] = messages[Len(messages)]
  BY <1>1, <1>2, <1>4, AppendKeeps
<1> QED
  BY <1>2, <1>3, <1>4, <1>5 DEF OutputCoherent

(* Every message that came out, popped or not, is the concatenation of the *)
(* sentences 1..n of one header in the order they were heard, for every    *)
(* set of lines and any number of calls.                                   *)
THEOREM CoherentOutput == Spec => []OutputCoherent
<1>1. Init => OutputCoherent
  BY DEF Init, OutputCoherent
<1>2. Inductive /\ OutputCoherent /\ [Next]_vars => OutputCoherent'
  <2> SUFFICES ASSUME Inductive, OutputCoherent, [Next]_vars PROVE OutputCoherent'
    OBVIOUS
  <2>1. ASSUME NEW line \in Lines, AddLine(line) PROVE OutputCoherent'
    BY <2>1, AddLineCoherent
  <2>2. CASE PopOldestMessage
    BY <2>2, PopCoherent
  <2>3. CASE UNCHANGED vars
    BY <2>3 DEF vars, OutputCoherent
  <2> QED
    BY <2>1, <2>2, <2>3 DEF Next
<1> QED
  BY <1>1, <1>2, InductiveInvariant, PTL DEF Spec

(* Output lists what was popped and then the queue turned round. *)
LEMMA OutputParts ==
  ASSUME TypeOK
  PROVE  \A i \in DOMAIN Output :
           \/ \E j \in DOMAIN delivered : Output[i] = delivered[j]
           \/ \E j \in DOMAIN messages : Output[i] = messages[j]
<1> DEFINE r == Reverse(messages)
<1>1. messages \in Seq(Message) /\ delivered \in Seq(Message)
  BY DEF TypeOK
<1>2. r = [j \in 1 .. Len(messages) |-> messages[(Len(messages) - j) + 1]]
  BY DEF Reverse
<1>3. /\ r \in Seq(Message)
      /\ Len(r) = Len(messages)
      /\ \A j \in 1 .. Len(messages) :
           /\ (Len(messages) - j) + 1 \in DOMAIN messages
           /\ r[j] = messages[(Len(messages) - j) + 1]
  BY <1>1, <1>2
<1>4. Output = delivered \o r
  BY DEF Output
<1> HIDE DEF r
<1>5. ASSUME NEW i \in DOMAIN Output
      PROVE  \/ \E j \in DOMAIN delivered : Output[i] = delivered[j]
             \/ \E j \in DOMAIN messages : Output[i] = messages[j]
  <2>1. i \in 1 .. Len(delivered) + Len(messages)
    BY <1>1, <1>3, <1>4
  <2>2. CASE i \in 1 .. Len(delivered)
    BY <1>1, <1>3, <1>4, <2>2
  <2>3. CASE i - Len(delivered) \in 1 .. Len(messages)
    <3>1. Output[i] = r[i - Len(delivered)]
      BY <1>1, <1>3, <1>4, <2>1, <2>3
    <3> QED
      BY <1>3, <2>3, <3>1
  <2> QED
    BY <1>1, <2>1, <2>2, <2>3
<1> QED
  BY <1>5

(* The property the runs check follows. *)
THEOREM MessagesCoherent == Spec => []MessagesAreCoherent
<1>1. TypeOK /\ OutputCoherent => MessagesAreCoherent
  BY OutputParts DEF OutputCoherent, MessagesAreCoherent
<1> QED
  BY <1>1, TypeCorrect, CoherentOutput, PTL

-----------------------------------------------------------------------------
(* The queue turned round, and what AddLine adds to it.                    *)

LEMMA ReversePush ==
  ASSUME NEW S, NEW q \in Seq(S), NEW m \in S
  PROVE  Reverse(<< m >> \o q) = Append(Reverse(q), m)
<1> DEFINE p == << m >> \o q
           n == Len(q)
           r == Reverse(p)
           b == Append(Reverse(q), m)
<1>1. /\ p \in Seq(S) /\ Len(p) = n + 1 /\ n \in Nat
      /\ p[1] = m /\ \A i \in 1 .. n : p[i + 1] = q[i]
  OBVIOUS
<1>2. /\ Reverse(q) \in Seq(S) /\ Len(Reverse(q)) = n
      /\ \A i \in 1 .. n : Reverse(q)[i] = q[(n - i) + 1]
  BY DEF Reverse
<1>3. /\ b \in Seq(S) /\ Len(b) = n + 1 /\ b[n + 1] = m
      /\ \A i \in 1 .. n : b[i] = q[(n - i) + 1]
  BY <1>1, <1>2
<1> HIDE DEF p
<1>4. /\ r \in Seq(S) /\ Len(r) = n + 1
      /\ \A i \in 1 .. n + 1 : r[i] = p[(n + 1 - i) + 1]
  BY <1>1 DEF Reverse
<1> HIDE DEF r, b, n
<1>5. ASSUME NEW i \in 1 .. n + 1 PROVE r[i] = b[i]
  <2>1. CASE i = n + 1
    BY <1>1, <1>3, <1>4, <2>1
  <2>2. CASE i \in 1 .. n
    <3>1. (n - i) + 1 \in 1 .. n /\ (n + 1 - i) + 1 = ((n - i) + 1) + 1
      BY <1>1, <2>2
    <3>2. p[((n - i) + 1) + 1] = q[(n - i) + 1]
      BY <1>1, <3>1
    <3>3. r[i] = p[((n - i) + 1) + 1]
      BY <1>4, <3>1
    <3> QED
      BY <1>3, <2>2, <3>2, <3>3
  <2> QED
    BY <1>1, <2>1, <2>2
<1>6. r = b
  BY <1>1, <1>3, <1>4, <1>5
<1> QED
  BY <1>6 DEF r, b, p

LEMMA ReversePop ==
  ASSUME NEW S, NEW q \in Seq(S), q # << >>
  PROVE  Reverse(q) # << >> /\ Reverse(Front(q)) = Tail(Reverse(q))
<1> DEFINE f == Front(q)
           n == Len(q)
           r == Reverse(f)
           b == Tail(Reverse(q))
<1>1. n \in Nat /\ n # 0
  OBVIOUS
<1>2. /\ f \in Seq(S) /\ Len(f) = n - 1
      /\ \A i \in 1 .. n - 1 : f[i] = q[i]
  BY DEF Front
<1>3. /\ Reverse(q) \in Seq(S) /\ Len(Reverse(q)) = n
      /\ \A i \in 1 .. n : Reverse(q)[i] = q[(n - i) + 1]
  BY DEF Reverse
<1>4. /\ b \in Seq(S) /\ Len(b) = n - 1
      /\ \A i \in 1 .. n - 1 : b[i] = Reverse(q)[i + 1]
  BY <1>1, <1>3
<1> HIDE DEF f
<1>5. /\ r \in Seq(S) /\ Len(r) = n - 1
      /\ \A i \in 1 .. n - 1 : r[i] = f[((n - 1) - i) + 1]
  BY <1>1, <1>2 DEF Reverse
<1> HIDE DEF r, b, n
<1>6. ASSUME NEW i \in 1 .. n - 1 PROVE r[i] = b[i]
  <2>1. /\ ((n - 1) - i) + 1 \in 1 .. n - 1 /\ i + 1 \in 1 .. n
        /\ (n - (i + 1)) + 1 = ((n - 1) - i) + 1
    BY <1>1
  <2>2. r[i] = q[((n - 1) - i) + 1]
    BY <1>2, <1>5, <2>1
  <2>3. b[i] = q[(n - (i + 1)) + 1]
    BY <1>3, <1>4, <2>1
  <2> QED
    BY <2>1, <2>2, <2>3
<1>7. r = b
  BY <1>1, <1>4, <1>5, <1>6
<1>8. Reverse(q) # << >>
  BY <1>1, <1>3
<1> QED
  BY <1>7, <1>8 DEF r, b, f

LEMMA OutputType ==
  ASSUME TypeOK
  PROVE  /\ Output \in Seq(Message)
         /\ Reverse(messages) \in Seq(Message)
<1>1. messages \in Seq(Message) /\ delivered \in Seq(Message)
  BY DEF TypeOK
<1>2. Reverse(messages) \in Seq(Message)
  BY <1>1 DEF Reverse
<1> QED
  BY <1>1, <1>2 DEF Output

(* Pushing at the front of the queue adds to the end of what came out, and *)
(* popping changes nothing of it.                                          *)
LEMMA EmitOutput ==
  ASSUME TypeOK, NEW s \in Sentence \cup {NoSentence}, NEW lines \in Seq(Int),
         Emit(s, lines), delivered' = delivered
  PROVE  \/ /\ s # NoSentence /\ Decodes(s) /\ accepted'
            /\ \E m \in Message : Output' = Append(Output, m) /\ m.lines = lines
         \/ ~ (s # NoSentence /\ Decodes(s)) /\ Output' = Output
<1>1. CASE s # NoSentence /\ Decodes(s)
  <2> DEFINE m == [body |-> s.body, fill_bits |-> s.fill_bits, lines |-> lines]
  <2>1. m \in Message /\ m.lines = lines
    BY <1>1 DEF Sentence, Message
  <2>2. messages' = << m >> \o messages /\ accepted'
    BY <1>1 DEF Emit
  <2> HIDE DEF m
  <2>3. Reverse(messages') = Append(Reverse(messages), m)
    BY <2>1, <2>2, ReversePush DEF TypeOK
  <2>4. delivered \o Append(Reverse(messages), m)
          = Append(delivered \o Reverse(messages), m)
    <3> DEFINE r == Reverse(messages)
    <3>1. r \in Seq(Message) /\ delivered \in Seq(Message)
      BY OutputType DEF TypeOK
    <3> HIDE DEF r
    <3> QED
      BY <2>1, <3>1
  <2>5. Output' = Append(Output, m)
    BY <2>3, <2>4 DEF Output
  <2> QED
    BY <1>1, <2>1, <2>2, <2>5
<1>2. CASE ~ (s # NoSentence /\ Decodes(s))
  BY <1>2 DEF Emit, Output
<1> QED
  BY <1>1, <1>2

LEMMA PopOutput ==
  ASSUME TypeOK, PopOldestMessage
  PROVE  Output' = Output
<1> DEFINE r == Reverse(messages)
           last == Last(messages)
<1>1. /\ messages \in Seq(Message) /\ delivered \in Seq(Message)
      /\ messages # << >> /\ messages' = Front(messages)
      /\ delivered' = Append(delivered, last)
  BY DEF PopOldestMessage, TypeOK
<1>2. r \in Seq(Message) /\ r # << >> /\ Reverse(messages') = Tail(r)
  BY <1>1, ReversePop, OutputType
<1>3. last \in Message /\ last = r[1]
  <2>1. Len(messages) \in Nat \ {0}
    BY <1>1
  <2>2. r[1] = messages[(Len(messages) - 1) + 1]
    BY <2>1 DEF Reverse
  <2> QED
    BY <1>1, <2>1, <2>2 DEF Last
<1> HIDE DEF r, last
<1>4. Append(delivered, last) \o Tail(r) = delivered \o r
  <2>1. r = << r[1] >> \o Tail(r)
    BY <1>2
  <2>2. Append(delivered, r[1]) = delivered \o << r[1] >>
    BY <1>1, <1>3
  <2>3. Tail(r) \in Seq(Message) /\ << r[1] >> \in Seq(Message)
    BY <1>2, <1>3
  <2>4. (delivered \o << r[1] >>) \o Tail(r) = delivered \o (<< r[1] >> \o Tail(r))
    BY <1>1, <2>3
  <2> QED
    BY <1>3, <2>1, <2>2, <2>4
<1> QED
  BY <1>1, <1>2, <1>4 DEF Output, r

(* A multi-line sentence of that sequence number. *)
IsPart(s, seq) == s # NoSentence /\ s.total > 1 /\ s.seq = seq

(* What AddLine does to the buffer of one sequence number. *)
LEMMA AddLineBuffer ==
  ASSUME Inductive, NEW line \in Lines, AddLine(line), NEW seq \in SequenceNumbers,
         NEW s, s = Create(line, line_number + 1)
  PROVE  LET old == incoming_sentences[seq]
             new == incoming_sentences'[seq] IN
         \/ ~ IsPart(s, seq) /\ new = old
         \/ IsPart(s, seq) /\ s.number = 1 /\ new = << s >>
         \/ /\ IsPart(s, seq) /\ s.number \notin {1, s.total}
            /\ new = IF Len(old) + 1 = s.number THEN Append(old, s) ELSE old
         \/ IsPart(s, seq) /\ s.number = s.total /\ new = << >>
<1>1. TypeOK /\ HeardOK
  BY DEF Inductive
<1>2. s = NoSentence \/ Created(s)
  BY <1>1, HearLine
<1>3. \/ IgnoreLine(s) \/ SingleLine(s) \/ FirstSentence(s)
      \/ MiddleSentence(s) \/ FinalSentence(s)
  BY DEF AddLine
<1>4. incoming_sentences \in [SequenceNumbers -> Seq(Sentence)]
  BY <1>1 DEF TypeOK
<1>5. ASSUME s # NoSentence
      PROVE  /\ s.total \in 1 .. kMaxSentences - 1 /\ s.number \in 1 .. s.total
             /\ s.seq \in SequenceNumbers \cup {kNoSequenceNumber}
  BY <1>2, <1>5 DEF Created
<1>6. CASE IgnoreLine(s)
  <2>1. ~ Usable(s) /\ incoming_sentences' = incoming_sentences
    BY <1>6 DEF IgnoreLine, Reject
  <2>2. ~ IsPart(s, seq)
    BY <1>5, <2>1 DEF IsPart, Usable, SequenceNumbers, kNumSequenceChannels, kMaxSentences
  <2> QED
    BY <2>1, <2>2
<1>7. CASE SingleLine(s)
  BY <1>7 DEF SingleLine, IsPart
<1>8. ASSUME Usable(s), s.total # 1
      PROVE  s.total > 1 /\ s # NoSentence /\ s.seq \in SequenceNumbers
  BY <1>2, <1>5, <1>8, SeqInRange DEF Usable, kMaxSentences
<1>9. ASSUME NEW buffer, s.seq \in SequenceNumbers,
             incoming_sentences' = [incoming_sentences EXCEPT ![s.seq] = buffer]
      PROVE  /\ seq = s.seq => incoming_sentences'[seq] = buffer
             /\ seq # s.seq => incoming_sentences'[seq] = incoming_sentences[seq]
  BY <1>4, <1>9
<1>10. CASE FirstSentence(s)
  BY <1>8, <1>9, <1>10 DEF FirstSentence, IsPart
<1>11. CASE MiddleSentence(s)
  <2>1. Usable(s) /\ s.total # 1 /\ s.number \notin {1, s.total}
    BY <1>11 DEF MiddleSentence
  <2>2. CASE Len(incoming_sentences[s.seq]) + 1 = s.number
    <3>1. incoming_sentences' = [incoming_sentences EXCEPT
            ![s.seq] = Append(incoming_sentences[s.seq], s)]
      BY <1>11, <2>2 DEF MiddleSentence
    <3>2. s.seq \in SequenceNumbers /\ s # NoSentence /\ s.total > 1
      BY <1>8, <2>1
    <3>3. /\ seq = s.seq =>
               incoming_sentences'[seq] = Append(incoming_sentences[seq], s)
          /\ seq # s.seq => incoming_sentences'[seq] = incoming_sentences[seq]
      BY <1>9, <3>1, <3>2
    <3> QED
      BY <2>1, <2>2, <3>2, <3>3 DEF IsPart
  <2>3. CASE Len(incoming_sentences[s.seq]) + 1 # s.number
    BY <1>8, <1>11, <2>1, <2>3 DEF MiddleSentence, IsPart, Reject
  <2> QED
    BY <2>2, <2>3
<1>12. CASE FinalSentence(s)
  BY <1>8, <1>9, <1>12 DEF FinalSentence, IsPart
<1> QED
  BY <1>3, <1>6, <1>7, <1>10, <1>11, <1>12

(* What AddLine adds to the output: nothing, or a message that ends with   *)
(* the line and begins with what waited for it.                            *)
LEMMA AddLineOutput ==
  ASSUME Inductive, NEW line \in Lines, AddLine(line)
  PROVE  \/ Output' = Output
         \/ \E m \in Message :
              /\ Output' = Append(Output, m)
              /\ \/ m.lines = << Len(heard) + 1 >>
                 \/ \E seq \in SequenceNumbers :
                      /\ incoming_sentences[seq] # << >>
                      /\ m.lines = Append(LinesOf(incoming_sentences[seq]), Len(heard) + 1)
<1> DEFINE s == Create(line, line_number + 1)
<1>1. TypeOK /\ HeardOK
  BY DEF Inductive
<1>2. /\ s = NoSentence \/ (Created(s) /\ s.line_number = Len(heard) + 1)
      /\ delivered' = delivered
      /\ \/ IgnoreLine(s) \/ SingleLine(s) \/ FirstSentence(s)
         \/ MiddleSentence(s) \/ FinalSentence(s)
  BY <1>1, HearLine DEF AddLine
<1> HIDE DEF s
<1>3. ASSUME messages' = messages
      PROVE  Output' = Output
  BY <1>2, <1>3 DEF Output
<1>4. CASE IgnoreLine(s) \/ FirstSentence(s) \/ MiddleSentence(s)
  BY <1>3, <1>4 DEF IgnoreLine, FirstSentence, MiddleSentence, Reject
<1>5. ASSUME Usable(s)
      PROVE  Created(s) /\ s \in Sentence /\ s.line_number = Len(heard) + 1
  BY <1>2, <1>5 DEF Usable, Created
<1>6. CASE SingleLine(s)
  <2>1. Usable(s) /\ Emit(s, << s.line_number >>)
    BY <1>6 DEF SingleLine
  <2>2. << s.line_number >> \in Seq(Int) /\ s \in Sentence
    BY <1>5, <2>1 DEF Sentence
  <2> QED
    BY <1>1, <1>2, <1>5, <2>1, <2>2, EmitOutput
<1>7. CASE FinalSentence(s)
  <2> DEFINE prior == incoming_sentences[s.seq]
             lines == Append(LinesOf(prior), s.line_number)
  <2>1. Usable(s) /\ s.total # 1 /\ Created(s) /\ s.seq \in SequenceNumbers
    BY <1>5, <1>7, SeqInRange DEF FinalSentence
  <2>2. CASE Len(prior) # s.total - 1
    BY <1>3, <1>7, <2>2 DEF FinalSentence
  <2>3. CASE Len(prior) = s.total - 1
    <3>1. Emit(Merge(s, prior), lines)
      BY <1>7, <2>3 DEF FinalSentence
    <3>2. prior \in Seq(Sentence) /\ s \in Sentence
      BY <1>1, <2>1 DEF TypeOK, Created
    <3>3. Merge(s, prior) \in Sentence \cup {NoSentence} /\ lines \in Seq(Int)
      <4>1. Merge(s, prior) \in Sentence \cup {NoSentence}
        BY <3>2, MergeType
      <4>2. LinesOf(prior) \in Seq(Int) /\ s.line_number \in Int
        BY <3>2, LinesOfType DEF Sentence
      <4> QED
        BY <4>1, <4>2, AppendKeeps
    <3>4. prior # << >>
      BY <2>1, <2>3, <3>2 DEF Created, kMaxSentences
    <3>5. s.line_number = Len(heard) + 1
      BY <1>5, <2>1
    <3> HIDE DEF prior
    <3>6. \/ Output' = Output
          \/ \E m \in Message : Output' = Append(Output, m) /\ m.lines = lines
      BY <1>1, <1>2, <3>1, <3>3, EmitOutput
    <3> QED
      BY <2>1, <3>4, <3>5, <3>6 DEF prior
  <2> QED
    BY <2>2, <2>3
<1> QED
  BY <1>2, <1>4, <1>6, <1>7

-----------------------------------------------------------------------------
(* Order of the output, and what a message may not reach across.           *)

(* No first or final sentence of a number was heard since its buffer was   *)
(* begun.                                                                  *)
FreshBuffers ==
  \A seq \in SequenceNumbers :
    LET buffer == incoming_sentences[seq] IN
    buffer # << >> =>
      \A k \in DOMAIN heard :
        k > buffer[1].line_number /\ IsPart(heard[k], seq) =>
          heard[k].number \notin {1, heard[k].total}

(* NoStaleParts, of one message. *)
NotStale(h, m) ==
  \A k \in m.lines[1] + 1 .. m.lines[Len(m.lines)] - 1 :
    IsPart(h[k], h[m.lines[1]].seq) => h[k].number \notin {1, h[k].total}

OutputOrdered ==
  /\ FifoOutput
  /\ \A i \in DOMAIN Output : Coherent(heard, Output[i]) /\ NotStale(heard, Output[i])

(* A coherent message stays one when more is heard, and its lines precede. *)
LEMMA MessageStays ==
  ASSUME heard \in Seq(Sentence \cup {NoSentence}),
         \A k \in DOMAIN heard : k \in DOMAIN heard' /\ heard'[k] = heard[k],
         NEW m, Coherent(heard, m), NotStale(heard, m)
  PROVE  /\ Coherent(heard', m)
         /\ NotStale(heard', m)
         /\ Last(m.lines) \in 1 .. Len(heard)
<1> DEFINE n == Len(m.lines)
<1>1. n >= 1 /\ \A i \in 1 .. n : m.lines[i] \in DOMAIN heard
  BY DEF Coherent
<1>2. Coherent(heard', m)
  BY CoherentKept
<1>3. DOMAIN heard = 1 .. Len(heard) /\ Len(heard) \in Nat
  OBVIOUS
<1>4. m.lines[1] \in 1 .. Len(heard) /\ m.lines[n] \in 1 .. Len(heard)
  <2>1. 1 \in 1 .. n /\ n \in 1 .. n
    BY <1>1
  <2> QED
    BY <1>1, <1>3, <2>1
<1>5. \A k \in m.lines[1] + 1 .. m.lines[n] - 1 : k \in DOMAIN heard
  BY <1>3, <1>4
<1>6. NotStale(heard', m)
  BY <1>3, <1>4, <1>5 DEF NotStale
<1> QED
  BY <1>2, <1>4, <1>6 DEF Last

(* A message begun by what waited, or alone, is not stale. *)
LEMMA NewNotStale ==
  ASSUME Inductive, FreshBuffers, heard' = Append(heard, heard'[Len(heard) + 1]),
         \A k \in DOMAIN heard : k \in DOMAIN heard' /\ heard'[k] = heard[k],
         NEW m,
         \/ m.lines = << Len(heard) + 1 >>
         \/ \E seq \in SequenceNumbers :
              /\ incoming_sentences[seq] # << >>
              /\ m.lines = Append(LinesOf(incoming_sentences[seq]), Len(heard) + 1)
  PROVE  NotStale(heard', m) /\ Last(m.lines) = Len(heard) + 1
<1>1. Len(heard) \in Nat /\ DOMAIN heard = 1 .. Len(heard)
  BY DEF Inductive, TypeOK
<1>2. CASE m.lines = << Len(heard) + 1 >>
  <2>1. Len(m.lines) = 1 /\ m.lines[1] = Len(heard) + 1
    BY <1>2
  <2>2. (Len(heard) + 1) + 1 .. (Len(heard) + 1) - 1 = {}
    BY <1>1
  <2> QED
    BY <2>1, <2>2 DEF NotStale, Last
<1>3. ASSUME NEW seq \in SequenceNumbers, incoming_sentences[seq] # << >>,
             m.lines = Append(LinesOf(incoming_sentences[seq]), Len(heard) + 1)
      PROVE  NotStale(heard', m) /\ Last(m.lines) = Len(heard) + 1
  <2> DEFINE b == incoming_sentences[seq]
  <2>1. b \in Seq(Sentence) /\ BufferInOrder(seq) /\ b # << >>
    BY <1>3 DEF Inductive, TypeOK, BuffersInOrder
  <2>2. 1 \in DOMAIN b /\ 1 \in 1 .. Len(b) /\ Len(b) \in Nat
    BY <2>1
  <2>3. b[1].line_number \in DOMAIN heard /\ b[1] = heard[b[1].line_number] /\ b[1].seq = seq
    BY <2>1, <2>2 DEF BufferInOrder
  <2>4. LinesOf(b) \in Seq(Int) /\ Len(LinesOf(b)) = Len(b) /\ LinesOf(b)[1] = b[1].line_number
    BY <2>1, <2>2, LinesOfType
  <2>5. \A k \in DOMAIN heard :
          k > b[1].line_number /\ IsPart(heard[k], seq) =>
            heard[k].number \notin {1, heard[k].total}
    BY <1>3 DEF FreshBuffers
  <2> HIDE DEF b
  <2>6. /\ m.lines[1] = b[1].line_number
        /\ Len(m.lines) = Len(b) + 1 /\ m.lines[Len(b) + 1] = Len(heard) + 1
    <3>1. m.lines = Append(LinesOf(b), Len(heard) + 1)
      BY <1>3 DEF b
    <3> QED
      BY <1>1, <2>2, <2>4, <3>1
  <2>7. ASSUME NEW k \in m.lines[1] + 1 .. m.lines[Len(m.lines)] - 1,
               IsPart(heard'[k], heard'[m.lines[1]].seq)
        PROVE  heard'[k].number \notin {1, heard'[k].total}
    <3>1. k \in m.lines[1] + 1 .. Len(heard) /\ m.lines[1] \in 1 .. Len(heard)
      BY <1>1, <2>3, <2>6, <2>7
    <3>2. k \in DOMAIN heard /\ k > m.lines[1]
      BY <1>1, <3>1
    <3>3. heard'[k] = heard[k] /\ heard'[m.lines[1]].seq = seq
      BY <2>3, <2>6, <3>2
    <3> QED
      BY <2>5, <2>6, <2>7, <3>2, <3>3
  <2> QED
    BY <2>6, <2>7 DEF NotStale, Last
<1> QED
  BY <1>2, <1>3

LEMMA AddLineFresh ==
  ASSUME Inductive, FreshBuffers, NEW line \in Lines, AddLine(line)
  PROVE  FreshBuffers'
<1> DEFINE s == Create(line, line_number + 1)
<1>1. /\ TypeOK /\ HeardOK
      /\ s = NoSentence \/ s.line_number = Len(heard) + 1
      /\ DOMAIN heard' = DOMAIN heard \cup {Len(heard) + 1}
      /\ \A k \in DOMAIN heard : heard'[k] = heard[k]
      /\ heard'[Len(heard) + 1] = s
  BY HearLine DEF Inductive
<1>2. Len(heard) \in Nat /\ DOMAIN heard = 1 .. Len(heard)
  BY <1>1 DEF TypeOK
<1> SUFFICES ASSUME NEW seq \in SequenceNumbers, incoming_sentences'[seq] # << >>,
                    NEW k \in DOMAIN heard',
                    k > incoming_sentences'[seq][1].line_number,
                    IsPart(heard'[k], seq)
             PROVE  heard'[k].number \notin {1, heard'[k].total}
  BY DEF FreshBuffers, IsPart
<1> DEFINE old == incoming_sentences[seq]
           new == incoming_sentences'[seq]
<1>3. \/ ~ IsPart(s, seq) /\ new = old
      \/ IsPart(s, seq) /\ s.number = 1 /\ new = << s >>
      \/ /\ IsPart(s, seq) /\ s.number \notin {1, s.total}
         /\ new = IF Len(old) + 1 = s.number THEN Append(old, s) ELSE old
      \/ IsPart(s, seq) /\ s.number = s.total /\ new = << >>
  BY AddLineBuffer
<1>4. old \in Seq(Sentence) /\ (s # NoSentence => s \in Sentence)
  <2>1. s # NoSentence => Created(s)
    BY <1>1, HearLine
  <2> QED
    BY <1>1, <2>1 DEF TypeOK, Created
<1>5. /\ new # << >> /\ k > new[1].line_number
  OBVIOUS
<1>6. old # << >> => \A j \in DOMAIN heard :
                       j > old[1].line_number /\ IsPart(heard[j], seq) =>
                         heard[j].number \notin {1, heard[j].total}
  BY DEF FreshBuffers
<1> HIDE DEF s, old, new
<1>7. CASE IsPart(s, seq) /\ s.number = 1 /\ new = << s >>
  <2>1. k > Len(heard) + 1
    BY <1>1, <1>5, <1>7 DEF IsPart
  <2> QED
    BY <1>1, <1>2, <2>1
<1>8. CASE \/ new = old /\ (IsPart(s, seq) => s.number \notin {1, s.total})
           \/ IsPart(s, seq) /\ s.number \notin {1, s.total} /\ new = Append(old, s)
                /\ Len(old) + 1 = s.number
  <2>1. old # << >> /\ new[1] = old[1]
    BY <1>4, <1>5, <1>8 DEF IsPart
  <2>2. CASE k \in DOMAIN heard
    BY <1>1, <1>5, <1>6, <2>1, <2>2
  <2>3. CASE k = Len(heard) + 1
    BY <1>1, <1>8, <2>3
  <2> QED
    BY <1>1, <2>2, <2>3
<1> QED
  BY <1>3, <1>5, <1>7, <1>8

LEMMA AddLineOrdered ==
  ASSUME Inductive, FreshBuffers, OutputOrdered, MessagesAreCoherent',
         NEW line \in Lines, AddLine(line)
  PROVE  OutputOrdered'
<1>1. /\ TypeOK /\ HeardOK
      /\ \A k \in DOMAIN heard : k \in DOMAIN heard' /\ heard'[k] = heard[k]
      /\ heard' = Append(heard, heard'[Len(heard) + 1])
      /\ TypeOK'
  BY HearLine, AddLineInductive DEF Inductive
<1>2. /\ heard \in Seq(Sentence \cup {NoSentence}) /\ Len(heard) \in Nat
      /\ Output \in Seq(Message)
  BY <1>1, OutputType DEF TypeOK
<1>3. \A i \in DOMAIN Output : /\ Coherent(heard', Output[i])
                               /\ NotStale(heard', Output[i])
                               /\ Last(Output[i].lines) \in 1 .. Len(heard)
  BY <1>1, <1>2, MessageStays DEF OutputOrdered
<1>4. \A i \in DOMAIN Output' : Coherent(heard', Output'[i])
  BY DEF MessagesAreCoherent
<1>5. CASE Output' = Output
  BY <1>3, <1>5 DEF OutputOrdered, FifoOutput
<1>6. ASSUME NEW m \in Message, Output' = Append(Output, m),
             NotStale(heard', m), Last(m.lines) = Len(heard) + 1
      PROVE  OutputOrdered'
  <2>1. /\ DOMAIN Output' = DOMAIN Output \cup {Len(Output) + 1}
        /\ \A i \in DOMAIN Output : Output'[i] = Output[i]
        /\ Output'[Len(Output) + 1] = m
        /\ DOMAIN Output = 1 .. Len(Output) /\ Len(Output) \in Nat
    BY <1>2, <1>6, AppendKeeps
  <2>2. \A i \in DOMAIN Output' : NotStale(heard', Output'[i])
    BY <1>3, <1>6, <2>1
  <2>3. ASSUME NEW i \in DOMAIN Output', NEW j \in DOMAIN Output', i < j
        PROVE  Last(Output'[i].lines) < Last(Output'[j].lines)
    <3>1. i \in DOMAIN Output
      BY <2>1, <2>3
    <3>2. CASE j \in DOMAIN Output
      <4>1. Last(Output[i].lines) < Last(Output[j].lines)
        BY <2>3, <3>1, <3>2 DEF OutputOrdered, FifoOutput
      <4> QED
        BY <2>1, <3>1, <3>2, <4>1
    <3>3. CASE j = Len(Output) + 1
      <4>1. Last(Output[i].lines) \in 1 .. Len(heard)
        BY <1>3, <3>1
      <4> QED
        BY <1>2, <1>6, <2>1, <3>1, <3>3, <4>1
    <3> QED
      BY <2>1, <3>2, <3>3
  <2> QED
    BY <1>4, <2>2, <2>3 DEF OutputOrdered, FifoOutput
<1>7. \/ Output' = Output
      \/ \E m \in Message : /\ Output' = Append(Output, m)
                            /\ NotStale(heard', m) /\ Last(m.lines) = Len(heard) + 1
  BY <1>1, AddLineOutput, NewNotStale
<1> QED
  BY <1>5, <1>6, <1>7

(* The order of the output and of its parts is kept by every step.         *)
LEMMA OrderInvariant == Spec => [](FreshBuffers /\ OutputOrdered)
<1>1. Init => FreshBuffers /\ OutputOrdered
  <2> SUFFICES ASSUME Init PROVE FreshBuffers /\ OutputOrdered
    OBVIOUS
  <2>1. Output = << >>
    BY DEF Init, Output, Reverse
  <2> QED
    BY <2>1 DEF Init, FreshBuffers, OutputOrdered, FifoOutput
<1>2. Inductive /\ MessagesAreCoherent' /\ FreshBuffers /\ OutputOrdered /\ [Next]_vars
        => (FreshBuffers /\ OutputOrdered)'
  <2> SUFFICES ASSUME Inductive, MessagesAreCoherent', FreshBuffers, OutputOrdered,
                      [Next]_vars
               PROVE  FreshBuffers' /\ OutputOrdered'
    OBVIOUS
  <2>1. ASSUME NEW line \in Lines, AddLine(line)
        PROVE  FreshBuffers' /\ OutputOrdered'
    BY <2>1, AddLineFresh, AddLineOrdered
  <2>2. CASE PopOldestMessage
    <3>1. heard' = heard /\ incoming_sentences' = incoming_sentences /\ Output' = Output
      BY <2>2, PopOutput DEF PopOldestMessage, Inductive
    <3> QED
      BY <3>1 DEF FreshBuffers, OutputOrdered, FifoOutput
  <2>3. CASE UNCHANGED vars
    BY <2>3 DEF vars, Output, FreshBuffers, OutputOrdered, FifoOutput
  <2> QED
    BY <2>1, <2>2, <2>3 DEF Next
<1> QED
  BY <1>1, <1>2, InductiveInvariant, MessagesCoherent, PTL DEF Spec

(* Messages come out in the order in which their last lines went in, for   *)
(* any lines and any number of calls (vdm.h: "output in FIFO order").      *)
THEOREM FirstInFirstOut == Spec => []FifoOutput
<1>1. OutputOrdered => FifoOutput
  BY DEF OutputOrdered
<1> QED
  BY <1>1, OrderInvariant, PTL

(* No message reaches across a newer first sentence or a final sentence of *)
(* its number: both clear() calls of AddLine.                              *)
THEOREM NothingStale == Spec => []NoStaleParts
<1>1. OutputOrdered => NoStaleParts
  BY DEF OutputOrdered, NoStaleParts, NotStale, IsPart
<1> QED
  BY <1>1, OrderInvariant, PTL

-----------------------------------------------------------------------------
(* The length of a payload. *)

Less == {p \in Nat \X Nat : p[1] < p[2]}

(* Induction over the naturals, of a set. *)
LEMMA NatSet ==
  ASSUME NEW T, T \subseteq Nat, 0 \in T, \A n \in T : n + 1 \in T
  PROVE  T = Nat
<1> SUFFICES ASSUME Nat \ T # {} PROVE FALSE
  OBVIOUS
<1>1. IsWellFoundedOn(Less, Nat)
  <2>1. OpToRel(<, Nat) = Less
    BY DEF OpToRel, Less
  <2> QED
    BY <2>1, NatLessThanWellFounded
<1>2. Nat \ T \subseteq Nat
  OBVIOUS
<1>3. \E x \in Nat \ T : \A y \in Nat \ T : ~ << y, x >> \in Less
  BY <1>1, <1>2, WFMin
<1>4. PICK x \in Nat \ T : \A y \in Nat \ T : ~ << y, x >> \in Less
  BY <1>3
<1>5. x # 0 /\ x - 1 \in Nat /\ x - 1 \notin T
  <2>1. x # 0
    OBVIOUS
  <2>2. x - 1 \in Nat
    BY <2>1
  <2>3. (x - 1) + 1 = x
    BY <2>2
  <2> QED
    BY <2>1, <2>2, <2>3
<1>6. << x - 1, x >> \in Less
  BY <1>5 DEF Less
<1> QED
  BY <1>4, <1>5, <1>6

(* BodySize by its definition: FoldLeft takes the positions of the body    *)
(* from the last one down.                                                 *)
AddsUp(body, g) ==
  g = [s \in SUBSET (DOMAIN body) |->
         IF s = {} THEN 0 ELSE g[s \ {Max(s)}] + CharsIn[body[Max(s)]]]

LEMMA SizeByPositions ==
  ASSUME NEW body
  PROVE  BodySize(body) = (CHOOSE g : AddsUp(body, g))[DOMAIN body]
  BY DEF BodySize, FoldLeft, MapThenFoldSet, AddsUp

(* The largest of some numbers up to k. *)
LEMMA MaxUpTo ==
  ASSUME NEW k \in Nat, NEW s \in SUBSET (1 .. k), s # {}
  PROVE  Max(s) \in s /\ \A y \in s : Max(s) >= y
<1> DEFINE T == {n \in Nat : \A r \in SUBSET (1 .. n) :
                               r # {} => \E x \in r : \A y \in r : x >= y}
<1>1. 0 \in T
  <2>1. 1 .. 0 = {}
    OBVIOUS
  <2> QED
    BY <2>1
<1>2. ASSUME NEW n \in T PROVE n + 1 \in T
  <2> SUFFICES ASSUME NEW r \in SUBSET (1 .. n + 1), r # {}
               PROVE  \E x \in r : \A y \in r : x >= y
    OBVIOUS
  <2>1. CASE n + 1 \in r
    BY <2>1
  <2>2. CASE n + 1 \notin r
    <3>1. r \in SUBSET (1 .. n)
      BY <2>2
    <3> QED
      BY <3>1
  <2> QED
    BY <2>1, <2>2
<1>3. T = Nat
  <2> HIDE DEF T
  <2>1. T \subseteq Nat
    BY DEF T
  <2> QED
    BY <1>1, <1>2, <2>1, NatSet
<1>4. \E x \in s : \A y \in s : x >= y
  BY <1>3
<1> QED
  BY <1>4 DEF Max

(* There is such a function: one for positions up to k extends to k + 1.   *)
LEMMA SumExists ==
  ASSUME NEW n \in Nat, NEW body \in [1 .. n -> Chunks]
  PROVE  \E g : AddsUp(body, g)
<1> DEFINE Sums(g, k) ==
             /\ g \in [SUBSET (1 .. k) -> Nat]
             /\ g[{}] = 0
             /\ \A s \in SUBSET (1 .. k) :
                  s # {} => g[s] = g[s \ {Max(s)}] + CharsIn[body[Max(s)]]
           T == {k \in Nat : k <= n => \E g : Sums(g, k)}
<1> HIDE DEF Sums
<1>1. 0 \in T
  <2> DEFINE g == [s \in SUBSET (1 .. 0) |-> 0]
  <2>1. 1 .. 0 = {}
    OBVIOUS
  <2>2. Sums(g, 0)
    BY <2>1 DEF Sums
  <2> QED
    BY <2>2
<1>2. ASSUME NEW k \in T PROVE k + 1 \in T
  <2> SUFFICES ASSUME k + 1 <= n PROVE \E g : Sums(g, k + 1)
    OBVIOUS
  <2>0. k \in Nat /\ k <= n /\ k + 1 \in 1 .. n
    OBVIOUS
  <2>1. PICK g : Sums(g, k)
    BY <2>0
  <2> DEFINE c == CharsIn[body[k + 1]]
             h == [s \in SUBSET (1 .. k + 1) |->
                     IF k + 1 \in s THEN g[s \ {k + 1}] + c ELSE g[s]]
  <2>2. c \in Nat
    BY <2>0, ChunksAreTexts
  <2> HIDE DEF c
  <2>3. ASSUME NEW s \in SUBSET (1 .. k + 1)
        PROVE  IF k + 1 \in s THEN s \ {k + 1} \in SUBSET (1 .. k)
                              ELSE s \in SUBSET (1 .. k)
    BY <2>0
  <2>4. h \in [SUBSET (1 .. k + 1) -> Nat] /\ h[{}] = 0
    BY <2>1, <2>2, <2>3 DEF Sums
  <2>5. ASSUME NEW s \in SUBSET (1 .. k + 1), s # {}
        PROVE  h[s] = h[s \ {Max(s)}] + CharsIn[body[Max(s)]]
    <3>0. k + 1 \in Nat
      BY <2>0
    <3>1. Max(s) \in s /\ \A y \in s : Max(s) >= y
      BY <2>5, <3>0, MaxUpTo
    <3>2. CASE k + 1 \in s
      <4>1. Max(s) = k + 1
        <5>1. Max(s) \in 1 .. k + 1 /\ Max(s) >= k + 1
          BY <3>1, <3>2
        <5> QED
          BY <2>0, <5>1
      <4>2. h[s \ {k + 1}] = g[s \ {k + 1}] /\ h[s] = g[s \ {k + 1}] + c
        BY <3>2
      <4> QED
        BY <4>1, <4>2 DEF c
    <3>3. CASE k + 1 \notin s
      <4>1. s \in SUBSET (1 .. k) /\ s \ {Max(s)} \in SUBSET (1 .. k + 1)
            /\ k + 1 \notin s \ {Max(s)}
        BY <2>3, <3>3
      <4>2. h[s] = g[s] /\ h[s \ {Max(s)}] = g[s \ {Max(s)}]
        BY <3>3, <4>1
      <4> QED
        BY <2>1, <2>5, <4>1, <4>2 DEF Sums
    <3> QED
      BY <3>2, <3>3
  <2>6. Sums(h, k + 1)
    BY <2>4, <2>5 DEF Sums
  <2> QED
    BY <2>6
<1>3. T = Nat
  <2> HIDE DEF T
  <2>1. T \subseteq Nat
    BY DEF T
  <2> QED
    BY <1>1, <1>2, <2>1, NatSet
<1>4. \E g : Sums(g, n)
  <2> HIDE DEF T
  <2>1. n \in T /\ n <= n
    BY <1>3
  <2> QED
    BY <2>1 DEF T
<1>5. PICK g : Sums(g, n)
  BY <1>4
<1>6. DOMAIN body = 1 .. n
  OBVIOUS
<1>7. g = [s \in SUBSET (1 .. n) |->
             IF s = {} THEN 0 ELSE g[s \ {Max(s)}] + CharsIn[body[Max(s)]]]
  BY <1>5 DEF Sums
<1> QED
  BY <1>6, <1>7 DEF AddsUp

(* A payload of n chunks, none of them empty, has at least n characters.   *)
LEMMA BodySizeAtLeast ==
  ASSUME NEW body \in Seq(Chunks), \A i \in DOMAIN body : CharsIn[body[i]] \in Nat \ {0}
  PROVE  BodySize(body) \in Nat /\ BodySize(body) >= Len(body)
<1> DEFINE n == Len(body)
           g == CHOOSE f : AddsUp(body, f)
           T == {k \in Nat : k <= n => g[1 .. k] \in Nat /\ g[1 .. k] >= k}
<1>1. n \in Nat /\ DOMAIN body = 1 .. n /\ body \in [1 .. n -> Chunks]
  OBVIOUS
<1>2. AddsUp(body, g)
  BY <1>1, SumExists
<1> HIDE DEF g, n
<1>3. ASSUME NEW s \in SUBSET (1 .. n)
      PROVE  g[s] = IF s = {} THEN 0 ELSE g[s \ {Max(s)}] + CharsIn[body[Max(s)]]
  BY <1>1, <1>2 DEF AddsUp
<1>4. 0 \in T
  <2>1. 1 .. 0 = {}
    OBVIOUS
  <2>2. g[{}] = 0
    BY <1>3
  <2> QED
    BY <2>1, <2>2
<1>5. ASSUME NEW k \in T PROVE k + 1 \in T
  <2> SUFFICES ASSUME k + 1 <= n
               PROVE  g[1 .. k + 1] \in Nat /\ g[1 .. k + 1] >= k + 1
    OBVIOUS
  <2> DEFINE s == 1 .. k + 1
  <2>1. s \in SUBSET (1 .. n) /\ s # {} /\ k + 1 \in s /\ k + 1 \in DOMAIN body
    BY <1>1
  <2>2. Max(s) = k + 1
    <3>1. s \in SUBSET (1 .. k + 1) /\ k + 1 \in Nat
      OBVIOUS
    <3>2. Max(s) \in s /\ \A y \in s : Max(s) >= y
      BY <2>1, <3>1, MaxUpTo
    <3> QED
      BY <2>1, <3>2
  <2>3. s \ {k + 1} = 1 .. k
    OBVIOUS
  <2>4. g[s] = g[1 .. k] + CharsIn[body[k + 1]]
    BY <1>3, <2>1, <2>2, <2>3
  <2>5. g[1 .. k] \in Nat /\ g[1 .. k] >= k /\ CharsIn[body[k + 1]] \in Nat \ {0}
    BY <1>1, <2>1
  <2> HIDE DEF s
  <2>6. g[s] \in Nat /\ g[s] >= k + 1
    BY <2>4, <2>5
  <2> QED
    BY <2>6 DEF s
<1>6. T = Nat
  <2> HIDE DEF T
  <2>1. T \subseteq Nat
    BY DEF T
  <2> QED
    BY <1>4, <1>5, <2>1, NatSet
<1>7. g[1 .. n] \in Nat /\ g[1 .. n] >= n
  BY <1>1, <1>6
<1>8. BodySize(body) = g[1 .. n]
  BY <1>1, SizeByPositions DEF g
<1> QED
  BY <1>7, <1>8 DEF n

-----------------------------------------------------------------------------
(* A complete group comes out.                                             *)

(* The last ones of a set with one more end with that one. *)
LEMMA LastIsNew ==
  ASSUME NEW S \in SUBSET Nat, NEW new \in Nat, \A k \in S : k < new,
         NEW n \in Nat \ {0}, NEW at \in [1 .. n -> S \cup {new}],
         AreLast(at, S \cup {new})
  PROVE  at[n] = new
<1>1. /\ DOMAIN at = 1 .. n
      /\ \A i, j \in 1 .. n : i < j => at[i] < at[j]
      /\ \A i \in 1 .. n : at[i] \in S \cup {new}
      /\ \A k \in S \cup {new} : k >= at[1] <=> \E i \in 1 .. n : k = at[i]
  BY DEF AreLast, Range
<1>2. \A i \in 1 .. n : at[i] \in Nat /\ at[i] <= new
  <2>1. \A k \in S \cup {new} : k \in Nat /\ k <= new
    OBVIOUS
  <2> QED
    BY <1>1, <2>1
<1>3. 1 \in 1 .. n /\ n \in 1 .. n
  OBVIOUS
<1>4. PICK i \in 1 .. n : new = at[i]
  BY <1>1, <1>2, <1>3
<1>5. ~ i < n
  BY <1>1, <1>2, <1>3, <1>4
<1> QED
  BY <1>4, <1>5

(* The others are the last ones of the set. *)
LEMMA LastBefore ==
  ASSUME NEW S \in SUBSET Nat, NEW new \in Nat, \A k \in S : k < new,
         NEW n \in Nat \ {0, 1}, NEW at \in [1 .. n -> S \cup {new}],
         AreLast(at, S \cup {new}), at[n] = new
  PROVE  /\ [i \in 1 .. n - 1 |-> at[i]] \in [1 .. n - 1 -> S]
         /\ AreLast([i \in 1 .. n - 1 |-> at[i]], S)
<1> DEFINE prior == [i \in 1 .. n - 1 |-> at[i]]
<1>1. /\ DOMAIN at = 1 .. n
      /\ \A i, j \in 1 .. n : i < j => at[i] < at[j]
      /\ \A i \in 1 .. n : at[i] \in S \cup {new}
      /\ \A k \in S \cup {new} : k >= at[1] <=> \E i \in 1 .. n : k = at[i]
  BY DEF AreLast, Range
<1>2. \A i \in 1 .. n : at[i] \in Nat
  <2>1. \A k \in S \cup {new} : k \in Nat
    OBVIOUS
  <2> QED
    BY <1>1, <2>1
<1>3. /\ 1 .. n - 1 \subseteq 1 .. n /\ 1 \in 1 .. n - 1 /\ n \in 1 .. n
      /\ \A i \in 1 .. n : i \in 1 .. n - 1 \/ i = n
      /\ \A i \in 1 .. n - 1 : i < n
  OBVIOUS
<1>4. \A i \in 1 .. n - 1 : at[i] \in S
  BY <1>1, <1>2, <1>3
<1>5. DOMAIN prior = 1 .. n - 1 /\ \A i \in 1 .. n - 1 : prior[i] = at[i]
  OBVIOUS
<1>6. prior \in [1 .. n - 1 -> S]
  BY <1>4
<1> HIDE DEF prior
<1>7. \A i, j \in DOMAIN prior : i < j => prior[i] < prior[j]
  BY <1>1, <1>3, <1>5
<1>8. Range(prior) = {k \in S : k >= prior[1]}
  <2>1. ASSUME NEW k \in S, k >= prior[1]
        PROVE  \E i \in 1 .. n - 1 : k = prior[i]
    <3>1. PICK i \in 1 .. n : k = at[i]
      BY <1>1, <1>3, <1>5, <2>1
    <3>2. i # n
      BY <3>1
    <3> QED
      BY <1>3, <1>5, <3>1, <3>2
  <2>2. ASSUME NEW i \in 1 .. n - 1
        PROVE  prior[i] \in S /\ prior[i] >= prior[1]
    <3>1. prior[i] = at[i] /\ prior[1] = at[1] /\ at[i] \in Nat /\ at[1] \in Nat
      BY <1>2, <1>3, <1>5
    <3>2. i = 1 \/ at[1] < at[i]
      BY <1>1, <1>3
    <3> QED
      BY <1>4, <3>1, <3>2
  <2>3. \A k : k \in Range(prior) <=> \E i \in 1 .. n - 1 : k = prior[i]
    BY <1>5 DEF Range
  <2>4. ASSUME NEW k \in Range(prior) PROVE k \in S /\ k >= prior[1]
    <3>1. PICK i \in 1 .. n - 1 : k = prior[i]
      BY <2>3
    <3> QED
      BY <2>2, <3>1
  <2>5. ASSUME NEW k \in S, k >= prior[1] PROVE k \in Range(prior)
    BY <2>1, <2>3, <2>5
  <2> QED
    BY <2>4, <2>5
<1> QED
  BY <1>6, <1>7, <1>8 DEF AreLast, prior

(* One line more is heard under a number if it is a part of that number.   *)
LEMMA UnderGrows ==
  ASSUME heard \in Seq(Sentence \cup {NoSentence}), NEW seq, NEW s,
         DOMAIN heard' = DOMAIN heard \cup {Len(heard) + 1},
         \A k \in DOMAIN heard : heard'[k] = heard[k],
         heard'[Len(heard) + 1] = s
  PROVE  /\ Under(seq) \in SUBSET Nat
         /\ Len(heard) + 1 \in Nat
         /\ \A k \in Under(seq) : k < Len(heard) + 1 /\ k \in DOMAIN heard
         /\ Under(seq)' = IF IsPart(s, seq) THEN Under(seq) \cup {Len(heard) + 1}
                                            ELSE Under(seq)
<1>1. Len(heard) \in Nat /\ DOMAIN heard = 1 .. Len(heard)
  OBVIOUS
<1>2. \A k \in DOMAIN heard : k \in Nat /\ k < Len(heard) + 1
  BY <1>1
<1>3. Under(seq)' = IF IsPart(s, seq) THEN Under(seq) \cup {Len(heard) + 1}
                                      ELSE Under(seq)
  <2>1. \A k : k \in Under(seq)' <=> k \in DOMAIN heard' /\ IsPart(heard'[k], seq)
    BY DEF Under, IsPart
  <2>2. \A k : k \in Under(seq) <=> k \in DOMAIN heard /\ IsPart(heard[k], seq)
    BY DEF Under, IsPart
  <2>3. \A k : k \in Under(seq)' <=> k \in Under(seq) \/ (k = Len(heard) + 1 /\ IsPart(s, seq))
    BY <1>1, <1>2, <2>1, <2>2
  <2> QED
    BY <2>3
<1> QED
  BY <1>1, <1>2, <1>3 DEF Under

(* The lines at are 1, 2, ... and none is a final one.                     *)
Unfinished(at) ==
  \A i \in DOMAIN at : heard[at[i]].number = i /\ heard[at[i]].total # i

(* What was heard last under a number, if it can be continued, waits.      *)
LastAreBuffered ==
  \A seq \in SequenceNumbers, n \in Nat \ {0} :
    \A at \in [1 .. n -> Under(seq)] :
      AreLast(at, Under(seq)) /\ Unfinished(at) =>
        LinesOf(incoming_sentences[seq]) = at

(* The last parts of a number up to a line just heard: the buffer holds    *)
(* all but that line.                                                      *)
LEMMA NowLast ==
  ASSUME Inductive, LastAreBuffered, NEW line \in Lines, AddLine(line),
         NEW seq \in SequenceNumbers, NEW s, s = Create(line, line_number + 1),
         IsPart(s, seq), NEW n \in Nat \ {0}, NEW at \in [1 .. n -> Under(seq)'],
         AreLast(at, Under(seq)'),
         \A i \in 1 .. n : heard'[at[i]].number = i,
         \A i \in 1 .. n : i < n => heard'[at[i]].total # i
  PROVE  /\ at[n] = Len(heard) + 1 /\ heard'[at[n]] = s /\ s.number = n
         /\ n > 1 => LinesOf(incoming_sentences[seq]) = [i \in 1 .. n - 1 |-> at[i]]
<1>1. /\ heard \in Seq(Sentence \cup {NoSentence})
      /\ DOMAIN heard' = DOMAIN heard \cup {Len(heard) + 1}
      /\ \A k \in DOMAIN heard : heard'[k] = heard[k]
      /\ heard'[Len(heard) + 1] = s
  BY HearLine DEF Inductive, TypeOK
<1>2. /\ Under(seq) \in SUBSET Nat /\ Len(heard) + 1 \in Nat
      /\ \A k \in Under(seq) : k < Len(heard) + 1 /\ k \in DOMAIN heard
      /\ Under(seq)' = Under(seq) \cup {Len(heard) + 1}
  BY <1>1, UnderGrows
<1>3. /\ at \in [1 .. n -> Under(seq) \cup {Len(heard) + 1}]
      /\ AreLast(at, Under(seq) \cup {Len(heard) + 1})
  BY <1>2
<1>4. /\ at[n] = Len(heard) + 1
      /\ n > 1 => /\ [i \in 1 .. n - 1 |-> at[i]] \in [1 .. n - 1 -> Under(seq)]
                  /\ AreLast([i \in 1 .. n - 1 |-> at[i]], Under(seq))
  <2> DEFINE S == Under(seq)
             new == Len(heard) + 1
  <2>1. /\ S \in SUBSET Nat /\ new \in Nat /\ \A k \in S : k < new
        /\ at \in [1 .. n -> S \cup {new}] /\ AreLast(at, S \cup {new})
    BY <1>2, <1>3
  <2> HIDE DEF S, new
  <2>2. at[n] = new
    BY <2>1, LastIsNew
  <2>3. ASSUME n > 1
        PROVE  /\ [i \in 1 .. n - 1 |-> at[i]] \in [1 .. n - 1 -> S]
               /\ AreLast([i \in 1 .. n - 1 |-> at[i]], S)
    BY <2>1, <2>2, <2>3, LastBefore
  <2> QED
    BY <2>2, <2>3 DEF S, new
<1>5. heard'[at[n]] = s /\ s.number = n
  <2>1. n \in 1 .. n
    OBVIOUS
  <2> QED
    BY <1>1, <1>4, <2>1
<1>6. ASSUME n > 1
      PROVE  LinesOf(incoming_sentences[seq]) = [i \in 1 .. n - 1 |-> at[i]]
  <2> DEFINE prior == [i \in 1 .. n - 1 |-> at[i]]
  <2>1. prior \in [1 .. n - 1 -> Under(seq)] /\ AreLast(prior, Under(seq))
    BY <1>4, <1>6
  <2>2. /\ DOMAIN prior = 1 .. n - 1 /\ n - 1 \in Nat \ {0}
        /\ \A i \in 1 .. n - 1 : prior[i] = at[i] /\ i \in 1 .. n /\ i < n
    BY <1>6
  <2> HIDE DEF prior
  <2>3. \A i \in 1 .. n - 1 : heard'[prior[i]] = heard[prior[i]]
    BY <1>1, <1>2, <2>1
  <2>4. Unfinished(prior)
    BY <2>2, <2>3 DEF Unfinished
  <2>5. LinesOf(incoming_sentences[seq]) = prior
    BY <2>1, <2>2, <2>4 DEF LastAreBuffered
  <2> QED
    BY <2>5 DEF prior
<1> QED
  BY <1>4, <1>5, <1>6

LEMMA AddLineLast ==
  ASSUME Inductive, LastAreBuffered, NEW line \in Lines, AddLine(line)
  PROVE  LastAreBuffered'
<1> DEFINE s == Create(line, line_number + 1)
<1>1. /\ heard \in Seq(Sentence \cup {NoSentence})
      /\ s = NoSentence \/ (Created(s) /\ s.line_number = Len(heard) + 1)
      /\ DOMAIN heard' = DOMAIN heard \cup {Len(heard) + 1}
      /\ \A k \in DOMAIN heard : heard'[k] = heard[k]
      /\ heard'[Len(heard) + 1] = s
  BY HearLine DEF Inductive, TypeOK
<1> SUFFICES ASSUME NEW seq \in SequenceNumbers, NEW n \in Nat \ {0},
                    NEW at \in [1 .. n -> Under(seq)'],
                    AreLast(at, Under(seq)'), Unfinished(at)'
             PROVE  LinesOf(incoming_sentences'[seq]) = at
  BY DEF LastAreBuffered, AreLast, LinesOf
<1> DEFINE old == incoming_sentences[seq]
           new == incoming_sentences'[seq]
<1>2. \/ ~ IsPart(s, seq) /\ new = old
      \/ IsPart(s, seq) /\ s.number = 1 /\ new = << s >>
      \/ /\ IsPart(s, seq) /\ s.number \notin {1, s.total}
         /\ new = IF Len(old) + 1 = s.number THEN Append(old, s) ELSE old
      \/ IsPart(s, seq) /\ s.number = s.total /\ new = << >>
  BY AddLineBuffer
<1>3. old \in Seq(Sentence)
  BY DEF Inductive, TypeOK
<1>4. /\ DOMAIN at = 1 .. n
      /\ \A i \in 1 .. n : heard'[at[i]].number = i /\ heard'[at[i]].total # i
  BY DEF Unfinished
<1>5. CASE ~ IsPart(s, seq)
  <2>1. Under(seq)' = Under(seq) /\ \A k \in Under(seq) : k \in DOMAIN heard
    BY <1>1, <1>5, UnderGrows
  <2>2. \A i \in 1 .. n : heard'[at[i]] = heard[at[i]]
    BY <1>1, <2>1
  <2>3. Unfinished(at)
    BY <1>4, <2>2 DEF Unfinished
  <2>4. LinesOf(incoming_sentences[seq]) = at
    BY <2>1, <2>3 DEF LastAreBuffered
  <2> QED
    BY <1>2, <1>5, <2>4
<1>6. CASE IsPart(s, seq)
  <2>1. /\ at[n] = Len(heard) + 1 /\ heard'[at[n]] = s /\ s.number = n
        /\ n > 1 => LinesOf(old) = [i \in 1 .. n - 1 |-> at[i]]
    BY <1>4, <1>6, NowLast
  <2>2. s.total # n
    <3>1. n \in 1 .. n
      OBVIOUS
    <3> QED
      BY <1>4, <2>1, <3>1
  <2>3. s \in Sentence /\ s.line_number = at[n]
    BY <1>1, <1>6, <2>1 DEF IsPart, Created
  <2> HIDE DEF s, old, new
  <2>4. CASE n = 1
    <3>1. new = << s >>
      BY <1>2, <1>6, <2>1, <2>2, <2>4
    <3>2. LinesOf(<< s >>) = << s.line_number >>
      BY DEF LinesOf
    <3>3. at = << s.line_number >>
      BY <1>4, <2>3, <2>4
    <3> QED
      BY <3>1, <3>2, <3>3 DEF new
  <2>5. CASE n > 1
    <3>1. LinesOf(old) = [i \in 1 .. n - 1 |-> at[i]]
      BY <2>1, <2>5
    <3>2. Len(old) = n - 1 /\ \A i \in 1 .. n - 1 : LinesOf(old)[i] = at[i]
      <4>1. LinesOf(old) \in Seq(Int) /\ Len(LinesOf(old)) = Len(old)
        BY <1>3, LinesOfType
      <4>2. Len(LinesOf(old)) = n - 1
        BY <2>5, <3>1
      <4> QED
        BY <3>1, <4>1, <4>2
    <3>3. new = Append(old, s)
      BY <1>2, <1>6, <2>1, <2>2, <2>5, <3>2
    <3>4. /\ new \in Seq(Sentence) /\ Len(new) = n
          /\ \A i \in 1 .. n - 1 : new[i] = old[i]
          /\ new[n] = s
      BY <1>3, <2>3, <2>5, <3>2, <3>3
    <3>5. DOMAIN LinesOf(new) = 1 .. n /\ \A i \in 1 .. n : LinesOf(new)[i] = new[i].line_number
      BY <3>4 DEF LinesOf
    <3>6. \A i \in 1 .. n - 1 : LinesOf(old)[i] = old[i].line_number
      BY <1>3, <3>2, LinesOfType
    <3>7. \A i \in 1 .. n : LinesOf(new)[i] = at[i]
      BY <2>3, <3>2, <3>4, <3>5, <3>6
    <3>8. LinesOf(new) = at
      <4>1. at = [i \in 1 .. n |-> at[i]] /\ LinesOf(new) = [i \in 1 .. n |-> LinesOf(new)[i]]
        BY <3>5 DEF LinesOf
      <4> QED
        BY <3>7, <4>1
    <3> QED
      BY <3>8 DEF new
  <2> QED
    BY <2>4, <2>5
<1> QED
  BY <1>5, <1>6

(* Sentences heard under one header, all but the last of them buffered,    *)
(* merge and decode.                                                       *)
LEMMA GroupDecodes ==
  ASSUME Inductive, NEW s, Created(s), s.seq \in SequenceNumbers,
         s.number = s.total, s.total > 1,
         NEW part, part = Append(incoming_sentences[s.seq], s),
         Len(incoming_sentences[s.seq]) = s.total - 1,
         \A i \in 1 .. s.total : /\ Created(part[i])
                                 /\ part[i].number = i
                                 /\ part[i].total = s.total
                                 /\ part[i].talker = s.talker
                                 /\ part[i].seq = s.seq
                                 /\ part[i].channel = s.channel,
         Bodies(part) \notin Undecodable
  PROVE  LET t == Merge(s, incoming_sentences[s.seq])
         IN  t \in Sentence /\ t # NoSentence /\ Decodes(t)
<1> DEFINE prior == incoming_sentences[s.seq]
           n == s.total
           t == Merge(s, prior)
<1>1. prior \in Seq(Sentence) /\ s \in Sentence /\ n \in Nat /\ s.body = << s.body[1] >>
  <2>1. prior \in Seq(Sentence)
    <3>1. incoming_sentences \in [SequenceNumbers -> Seq(Sentence)]
      BY DEF Inductive, TypeOK
    <3> QED
      BY ONLY <3>1, s.seq \in SequenceNumbers
  <2>2. s \in Sentence /\ n \in Nat
    <3>1. s \in Sentence /\ n \in 1 .. kMaxSentences - 1
      BY DEF Created
    <3> QED
      BY ONLY <3>1 DEF kMaxSentences
  <2>3. s.body = << s.body[1] >>
    BY DEF Created
  <2> QED
    BY <2>1, <2>2, <2>3
<1>2. /\ part \in Seq(Sentence) /\ Len(part) = n
      /\ DOMAIN prior = 1 .. n - 1
      /\ \A i \in 1 .. n - 1 : part[i] = prior[i] /\ i \in 1 .. n /\ i # n
  BY <1>1
<1>3. CanMerge(s, prior)
  <2>1. \A i \in DOMAIN prior : prior[i].number = i /\ VerifyInSameMessage(s, prior[i])
    BY <1>2 DEF VerifyInSameMessage
  <2> QED
    BY <2>1 DEF CanMerge
<1>4. t \in Sentence /\ t.body = Bodies(part) /\ t.fill_bits = s.fill_bits
  <2>1. \/ t = NoSentence
        \/ /\ t \in Sentence /\ t.body = Bodies(prior) \o s.body
           /\ t.fill_bits = s.fill_bits
    BY <1>1, MergeType
  <2>2. Bodies(part) = Bodies(prior) \o s.body
    BY <1>1, AppendedParts
  <2>3. t = [talker      |-> s.talker,
             total       |-> 1,
             number      |-> 1,
             seq         |-> s.seq,
             channel     |-> s.channel,
             body        |-> Bodies(prior) \o s.body,
             fill_bits   |-> s.fill_bits,
             line_number |-> s.line_number]
    BY <1>3 DEF Merge
  <2>4. DOMAIN NoSentence = {"null"} /\ "talker" \in DOMAIN t
    BY <2>3 DEF NoSentence
  <2> HIDE DEF t
  <2>5. t # NoSentence
    BY <2>4
  <2> QED
    BY <2>1, <2>2, <2>5
<1> HIDE DEF t, prior, n
<1>5. BodySize(t.body) >= 2
  <2>1. /\ Bodies(part) \in Seq(Chunks) /\ Len(Bodies(part)) = n
        /\ \A i \in 1 .. n : Bodies(part)[i] = part[i].body[1]
    BY <1>2, BodiesType
  <2>2. \A i \in 1 .. n : CharsIn[part[i].body[1]] \in Nat \ {0}
    BY DEF Created, n
  <2>3. \A i \in DOMAIN Bodies(part) : CharsIn[Bodies(part)[i]] \in Nat \ {0}
    <3>1. DOMAIN Bodies(part) = 1 .. n
      BY <2>1
    <3> HIDE DEF n
    <3> DEFINE b == Bodies(part)
    <3>2. \A i \in 1 .. n : b[i] = part[i].body[1]
      BY <2>1
    <3> HIDE DEF b
    <3>3. \A i \in 1 .. n : CharsIn[b[i]] \in Nat \ {0}
      BY <2>2, <3>2
    <3> QED
      BY <3>1, <3>3 DEF b
  <2>4. BodySize(Bodies(part)) \in Nat /\ BodySize(Bodies(part)) >= Len(Bodies(part))
    BY <2>1, <2>3, BodySizeAtLeast
  <2>5. Len(Bodies(part)) >= 2
    BY <1>1, <2>1 DEF n
  <2> QED
    BY <1>4, <2>4, <2>5
<1>6. Decodes(t)
  <2>1. s.fill_bits \in 0 .. MaxFillBits
    BY DEF Created
  <2> QED
    BY <1>4, <1>5, <2>1 DEF Decodes
<1>7. t # NoSentence
  BY <1>4, SentenceIsNotNull
<1> QED
  BY <1>4, <1>6, <1>7 DEF t, prior

LEMMA AddLineGroup ==
  ASSUME Inductive, LastAreBuffered, NEW line \in Lines, AddLine(line)
  PROVE  CompleteGroupComesOut'
<1> DEFINE s == Create(line, line_number + 1)
<1>1. /\ heard \in Seq(Sentence \cup {NoSentence}) /\ TypeOK
      /\ s = NoSentence \/ (Created(s) /\ s.line_number = Len(heard) + 1)
      /\ heard' = Append(heard, s)
      /\ heard' \in Seq(Sentence \cup {NoSentence})
      /\ DOMAIN heard' = DOMAIN heard \cup {Len(heard) + 1}
      /\ \A k \in DOMAIN heard : heard'[k] = heard[k]
      /\ heard'[Len(heard) + 1] = s
      /\ HeardOK'
  BY HearLine DEF Inductive, TypeOK
<1>2. Len(heard') = Len(heard) + 1 /\ heard'[Len(heard')] = s
  BY <1>1
<1> SUFFICES ASSUME NEW seq \in SequenceNumbers, NEW n \in Nat \ {0, 1},
                    Len(heard') \in Under(seq)', heard'[Len(heard')].total = n,
                    NEW at \in [1 .. n -> Under(seq)'],
                    AreLast(at, Under(seq)'), OneHeader(at)',
                    PayloadOf(at)' \notin Undecodable
             PROVE  accepted' /\ Output' # << >> /\ Last(Output').lines = at
  <2>1. \A n \in 2 .. kMaxSentences - 1 : n \in Nat \ {0, 1}
    BY DEF kMaxSentences
  <2> QED
    BY <2>1 DEF CompleteGroupComesOut, AreLast, Last
<1> DEFINE old == incoming_sentences[seq]
           part == Append(old, s)
<1>3. /\ Created(s) /\ s.line_number = Len(heard) + 1 /\ s \in Sentence
      /\ s.seq = seq /\ s.total = n /\ IsPart(s, seq)
      /\ n \in Nat \ {0, 1} /\ n < kMaxSentences
  <2>1. s # NoSentence /\ s.total > 1 /\ s.seq = seq /\ s.total = n
    BY <1>2 DEF Under
  <2>2. Created(s) /\ s.line_number = Len(heard) + 1
    BY <1>1, <2>1
  <2>3. s \in Sentence /\ s.total \in 1 .. kMaxSentences - 1 /\ IsPart(s, seq)
    BY <2>1, <2>2 DEF Created, IsPart
  <2> HIDE DEF s
  <2>4. n \in Nat \ {0, 1} /\ n < kMaxSentences
    BY ONLY <2>1, <2>3 DEF kMaxSentences
  <2> QED
    BY <2>1, <2>2, <2>3, <2>4
<1> HIDE DEF s
<1>4. /\ DOMAIN at = 1 .. n /\ Len(at) = n /\ n \in 1 .. n /\ 1 \in 1 .. n
      /\ \A i \in 1 .. n : at[i] \in DOMAIN heard' /\ IsPart(heard'[at[i]], seq)
  BY <1>3 DEF Under, IsPart
<1>5. \A i \in 1 .. n : /\ heard'[at[i]].number = i
                        /\ heard'[at[i]].total = n
                        /\ heard'[at[i]].talker = heard'[at[1]].talker
                        /\ heard'[at[i]].channel = heard'[at[1]].channel
  BY <1>4 DEF OneHeader
<1>6. /\ at[n] = Len(heard) + 1 /\ heard'[at[n]] = s /\ s.number = n
      /\ LinesOf(old) = [i \in 1 .. n - 1 |-> at[i]]
  <2>1. \A i \in 1 .. n : i < n => heard'[at[i]].total # i
    BY <1>3, <1>5
  <2>2. n > 1 /\ n \in Nat \ {0} /\ at \in [1 .. n -> Under(seq)'] /\ AreLast(at, Under(seq)')
    BY <1>3
  <2>3. s = Create(line, line_number + 1) /\ IsPart(s, seq)
    BY <1>3 DEF s
  <2>4. \A i \in 1 .. n : heard'[at[i]].number = i
    BY <1>5
  <2>5. /\ at[n] = Len(heard) + 1 /\ heard'[at[n]] = s /\ s.number = n
        /\ n > 1 => LinesOf(incoming_sentences[seq]) = [i \in 1 .. n - 1 |-> at[i]]
    BY <2>1, <2>2, <2>3, <2>4, NowLast
  <2> QED
    BY <2>2, <2>5
<1>7. \A i \in 1 .. n : Created(heard'[at[i]]) /\ heard'[at[i]].seq = seq
  BY <1>1, <1>4 DEF HeardOK, IsPart
<1>8. old \in Seq(Sentence) /\ BufferInOrder(seq)
  BY <1>3 DEF Inductive, TypeOK, BuffersInOrder
<1>9. FinalSentence(s)
  <2>1. Usable(s)
    BY <1>3 DEF Usable, IsPart, SequenceNumbers, kNumSequenceChannels, kMaxSentences
  <2>2. \/ IgnoreLine(s) \/ SingleLine(s) \/ FirstSentence(s)
        \/ MiddleSentence(s) \/ FinalSentence(s)
    BY DEF AddLine, s
  <2> QED
    BY <1>3, <1>6, <2>1, <2>2 DEF IgnoreLine, SingleLine, FirstSentence, MiddleSentence
<1>10. delivered' = delivered
  BY DEF AddLine
<1> HIDE DEF old
<1>11. /\ Len(old) = n - 1 /\ DOMAIN old = 1 .. n - 1
       /\ \A i \in 1 .. n - 1 : old[i].line_number = at[i]
  <2>1. /\ LinesOf(old) \in Seq(Int) /\ Len(LinesOf(old)) = Len(old)
        /\ \A i \in 1 .. Len(old) : LinesOf(old)[i] = old[i].line_number
    BY <1>8, LinesOfType
  <2>2. Len(LinesOf(old)) = n - 1 /\ \A i \in 1 .. n - 1 : LinesOf(old)[i] = at[i]
    BY <1>3, <1>6
  <2> QED
    <3>1. Len(old) \in Nat /\ DOMAIN old = 1 .. Len(old)
      BY <1>8
    <3>2. Len(old) = n - 1
      BY <2>1, <2>2
    <3>3. \A i \in 1 .. n - 1 : LinesOf(old)[i] = old[i].line_number
      BY <2>1, <3>2
    <3> QED
      BY <2>2, <3>1, <3>2, <3>3
<1>12. \A i \in 1 .. n - 1 : old[i] = heard'[at[i]]
  <2>1. \A i \in DOMAIN old : old[i].line_number \in DOMAIN heard
                              /\ old[i] = heard[old[i].line_number]
    BY <1>8 DEF BufferInOrder, old
  <2> SUFFICES ASSUME NEW i \in 1 .. n - 1 PROVE old[i] = heard'[at[i]]
    OBVIOUS
  <2>2. /\ i \in DOMAIN old /\ old[i].line_number = at[i]
    BY <1>11
  <2>3. at[i] \in DOMAIN heard /\ old[i] = heard[at[i]]
    BY <2>1, <2>2
  <2> QED
    BY <1>1, <2>3
<1>13. part \in Seq(Sentence) /\ Len(part) = n /\ \A i \in 1 .. n : part[i] = heard'[at[i]]
  <2>1. /\ part \in Seq(Sentence) /\ Len(part) = n
        /\ \A i \in 1 .. n - 1 : part[i] = old[i]
        /\ part[n] = s
    BY <1>3, <1>8, <1>11
  <2>2. \A i \in 1 .. n : i \in 1 .. n - 1 \/ i = n
    BY <1>3
  <2> QED
    BY <1>6, <1>12, <2>1, <2>2
<1>14. PayloadOf(at)' = Bodies(part)
  <2>1. PayloadOf(at)' = Bodies([i \in 1 .. n |-> heard'[at[i]]])
    BY <1>4 DEF PayloadOf, Bodies
  <2>2. part = [i \in 1 .. n |-> heard'[at[i]]]
    <3>1. part = [i \in 1 .. n |-> part[i]]
      <4> HIDE DEF part
      <4> QED
        BY <1>13
    <3> HIDE DEF part
    <3> QED
      BY <1>13, <3>1
  <2> QED
    BY <2>1, <2>2
<1> DEFINE t == Merge(s, old)
           lines == Append(LinesOf(old), s.line_number)
<1>15. t \in Sentence /\ t # NoSentence /\ Decodes(t)
  <2>1. \A i \in 1 .. n : /\ Created(part[i])
                          /\ part[i].number = i
                          /\ part[i].total = n
                          /\ part[i].talker = s.talker
                          /\ part[i].seq = seq
                          /\ part[i].channel = s.channel
    BY <1>4, <1>5, <1>6, <1>7, <1>13
  <2>2. part = Append(incoming_sentences[s.seq], s)
    BY <1>3 DEF old
  <2>3. Len(incoming_sentences[s.seq]) = s.total - 1 /\ s.number = s.total /\ s.total > 1
    BY <1>3, <1>6, <1>11 DEF old
  <2>4. Bodies(part) \notin Undecodable
    BY <1>14
  <2> HIDE DEF part
  <2>5. LET u == Merge(s, incoming_sentences[s.seq])
        IN  u \in Sentence /\ u # NoSentence /\ Decodes(u)
    <3>1. Created(s) /\ s.seq \in SequenceNumbers /\ s.total = n /\ s.seq = seq
      BY <1>3, <1>6, <2>3
    <3>2. \A i \in 1 .. s.total : /\ Created(part[i])
                                  /\ part[i].number = i
                                  /\ part[i].total = s.total
                                  /\ part[i].talker = s.talker
                                  /\ part[i].seq = s.seq
                                  /\ part[i].channel = s.channel
      BY <2>1, <3>1
    <3> QED
      BY <2>2, <2>3, <2>4, <3>1, <3>2, GroupDecodes
  <2> QED
    BY <1>3, <2>5 DEF old
<1>16. Emit(t, lines)
  BY <1>3, <1>9, <1>11 DEF FinalSentence, old
<1>17. lines = at /\ lines \in Seq(Int)
  <2>1. LinesOf(old) \in Seq(Int) /\ Len(LinesOf(old)) = n - 1
    BY <1>8, <1>11, LinesOfType
  <2>2. s.line_number \in Int /\ s.line_number = at[n]
    BY <1>1, <1>3, <1>6
  <2>3. /\ lines \in Seq(Int) /\ Len(lines) = n /\ lines[n] = at[n]
        /\ \A i \in 1 .. n - 1 : lines[i] = LinesOf(old)[i]
    BY <1>3, <2>1, <2>2
  <2>4. \A i \in 1 .. n - 1 : LinesOf(old)[i] = at[i]
    BY <1>6
  <2>5. \A i \in 1 .. n : i \in 1 .. n - 1 \/ i = n
    BY <1>3
  <2>6. \A i \in 1 .. n : lines[i] = at[i]
    BY <2>3, <2>4, <2>5
  <2>7. lines = [i \in 1 .. n |-> lines[i]] /\ at = [i \in 1 .. n |-> at[i]]
    BY <1>4, <2>3
  <2> HIDE DEF lines
  <2> QED
    BY <2>3, <2>6, <2>7
<1> HIDE DEF t, lines
<1>18. accepted' /\ \E m \in Message : Output' = Append(Output, m) /\ m.lines = lines
  BY <1>1, <1>10, <1>15, <1>16, <1>17, EmitOutput
<1>19. PICK m \in Message : Output' = Append(Output, m) /\ m.lines = lines
  BY <1>18
<1>20. Output' # << >> /\ Last(Output') = m
  <2>1. Output \in Seq(Message)
    BY <1>1, OutputType
  <2>2. Append(Output, m) # << >> /\ Last(Append(Output, m)) = m
    BY <2>1 DEF Last
  <2> QED
    BY <1>19, <2>2
<1> QED
  BY <1>17, <1>18, <1>19, <1>20

(* Nothing is lost that could be put together: the sentences 1..n of one   *)
(* header, heard last under their number, come out when the last of them   *)
(* is heard, whatever was heard before or under other numbers (AddLine).   *)
THEOREM GroupsComeOut == Spec => []CompleteGroupComesOut
<1>1. Init => LastAreBuffered /\ CompleteGroupComesOut
  <2> SUFFICES ASSUME Init PROVE LastAreBuffered /\ CompleteGroupComesOut
    OBVIOUS
  <2>1. heard = << >>
    BY DEF Init
  <2>2. \A seq : Under(seq) = {}
    BY <2>1 DEF Under
  <2>3. ASSUME NEW n \in Nat \ {0}, NEW at \in [1 .. n -> {}] PROVE FALSE
    <3>1. 1 \in 1 .. n
      OBVIOUS
    <3> QED
      BY <3>1
  <2>4. LastAreBuffered
    BY <2>2, <2>3 DEF LastAreBuffered
  <2> QED
    BY <2>2, <2>4 DEF CompleteGroupComesOut
<1>2. Inductive /\ LastAreBuffered /\ CompleteGroupComesOut /\ [Next]_vars
        => (LastAreBuffered /\ CompleteGroupComesOut)'
  <2> SUFFICES ASSUME Inductive, LastAreBuffered, CompleteGroupComesOut, [Next]_vars
               PROVE  LastAreBuffered' /\ CompleteGroupComesOut'
    OBVIOUS
  <2>1. ASSUME NEW line \in Lines, AddLine(line)
        PROVE  LastAreBuffered' /\ CompleteGroupComesOut'
    BY <2>1, AddLineLast, AddLineGroup
  <2>2. ASSUME heard' = heard, incoming_sentences' = incoming_sentences,
               Output' = Output, accepted' = accepted
        PROVE  LastAreBuffered' /\ CompleteGroupComesOut'
    BY <2>2 DEF LastAreBuffered, CompleteGroupComesOut, Under, Unfinished,
                OneHeader, PayloadOf, LinesOf
  <2>3. CASE PopOldestMessage
    BY <2>2, <2>3, PopOutput DEF PopOldestMessage, Inductive
  <2>4. CASE UNCHANGED vars
    BY <2>2, <2>4 DEF vars, Output
  <2> QED
    BY <2>1, <2>3, <2>4 DEF Next
<1> QED
  BY <1>1, <1>2, InductiveInvariant, PTL DEF Spec

-----------------------------------------------------------------------------
(* VdmStream implements MessageAssembly, for every set of lines.           *)

Pool == UNION {Range(incoming_sentences[seq]) : seq \in SequenceNumbers}

(* What both modules take from NmeaSentence means the same in both. *)

LEMMA SameCreate ==
  ASSUME NEW line, NEW n
  PROVE  Assembly!Create(line, n) = Create(line, n)
  BY DEF Assembly!Create, Create, Assembly!ValidLine, ValidLine,
         Assembly!ValidNumbers, ValidNumbers, Assembly!SequenceNumber, SequenceNumber,
         Assembly!SequenceNumbers, SequenceNumbers, Assembly!NoSentence, NoSentence,
         Assembly!kMaxSentences, kMaxSentences,
         Assembly!kNumSequenceChannels, kNumSequenceChannels,
         Assembly!kNoSequenceNumber, kNoSequenceNumber,
         Assembly!MaxBodyChars, MaxBodyChars, Assembly!MaxFillBits, MaxFillBits

LEMMA SameBodySize ==
  ASSUME NEW body
  PROVE  Assembly!BodySize(body) = BodySize(body)
  BY DEF Assembly!BodySize, BodySize, Assembly!FoldLeft, FoldLeft,
         Assembly!MapThenFoldSet, MapThenFoldSet, Assembly!Max, Max

LEMMA SameMessage ==
  ASSUME NEW prior, NEW s
  PROVE  Assembly!MessageOf(prior, s) =
           [body      |-> Bodies(prior) \o s.body,
            fill_bits |-> s.fill_bits,
            lines     |-> Append(LinesOf(prior), s.line_number)]
  BY DEF Assembly!MessageOf, Assembly!Bodies, Bodies, LinesOf

-----------------------------------------------------------------------------
(* The pool. *)

LEMMA PoolHolds ==
  ASSUME NEW seq \in SequenceNumbers
  PROVE  Range(incoming_sentences[seq]) \subseteq Pool
  BY DEF Pool

(* One buffer changes: what is new in the pool is new in the buffer. *)
LEMMA PoolGrows ==
  ASSUME TypeOK, NEW seq \in SequenceNumbers, NEW s, NEW buffer \in Seq(Sentence),
         incoming_sentences' = [incoming_sentences EXCEPT ![seq] = buffer],
         s \in Range(buffer), Range(buffer) \subseteq Range(incoming_sentences[seq]) \cup {s}
  PROVE  Pool' \in {kept \cup {s} : kept \in SUBSET Pool}
<1>1. /\ incoming_sentences'[seq] = buffer
      /\ \A other \in SequenceNumbers : other # seq =>
           incoming_sentences'[other] = incoming_sentences[other]
  BY DEF TypeOK
<1>2. s \in Pool'
  BY <1>1 DEF Pool
<1>3. Pool' \ {s} \subseteq Pool
  <2> SUFFICES ASSUME NEW x \in Pool', x # s PROVE x \in Pool
    OBVIOUS
  <2>1. PICK other \in SequenceNumbers : x \in Range(incoming_sentences'[other])
    BY DEF Pool
  <2>2. x \in Range(incoming_sentences[other])
    BY <1>1, <2>1
  <2> QED
    BY <2>2 DEF Pool
<1>4. Pool' = (Pool' \ {s}) \cup {s}
  BY <1>2
<1> QED
  BY <1>3, <1>4

(* Buffers of different sequence numbers share no sentence. *)
LEMMA PoolShrinks ==
  ASSUME TypeOK, BuffersInOrder, NEW seq \in SequenceNumbers,
         incoming_sentences' = [incoming_sentences EXCEPT ![seq] = << >>]
  PROVE  Pool' \in SUBSET (Pool \ Range(incoming_sentences[seq]))
<1>1. /\ incoming_sentences'[seq] = << >>
      /\ \A other \in SequenceNumbers : other # seq =>
           incoming_sentences'[other] = incoming_sentences[other]
  BY DEF TypeOK
<1>2. ASSUME NEW other \in SequenceNumbers, NEW x \in Range(incoming_sentences[other])
      PROVE  x.seq = other
  BY DEF BuffersInOrder, BufferInOrder, Range
<1>3. Range(<< >>) = {}
  BY DEF Range
<1> SUFFICES ASSUME NEW x \in Pool'
             PROVE  x \in Pool /\ x \notin Range(incoming_sentences[seq])
  OBVIOUS
<1>4. PICK other \in SequenceNumbers : x \in Range(incoming_sentences'[other])
  BY DEF Pool
<1>5. other # seq /\ x \in Range(incoming_sentences[other])
  BY <1>1, <1>3, <1>4
<1>6. x \notin Range(incoming_sentences[seq])
  BY <1>2, <1>5
<1> QED
  BY <1>5, <1>6 DEF Pool

(* What Merge accepts is everything of a message but its last sentence. *)
LEMMA MergedCompletes ==
  ASSUME TypeOK, BuffersInOrder, NEW s, Created(s), s.seq \in SequenceNumbers,
         CanMerge(s, incoming_sentences[s.seq])
  PROVE  /\ incoming_sentences[s.seq] \in [1 .. s.total - 1 -> Pool]
         /\ Assembly!Completes(incoming_sentences[s.seq], s)
<1> DEFINE prior == incoming_sentences[s.seq]
<1>1. prior \in Seq(Sentence) /\ Len(prior) = s.total - 1
  BY DEF TypeOK, CanMerge
<1>2. \A i \in DOMAIN prior : prior[i] \in Pool
  BY DEF Pool, Range
<1>3. \A i, j \in DOMAIN prior : i < j => prior[i].line_number < prior[j].line_number
  BY DEF BuffersInOrder, BufferInOrder
<1>4. \A i \in DOMAIN prior : prior[i].number = i /\ VerifyInSameMessage(s, prior[i])
  BY DEF CanMerge
<1> HIDE DEF prior
<1>5. prior \in [1 .. s.total - 1 -> Pool]
  BY <1>1, <1>2
<1>6. Assembly!Completes(prior, s)
  BY <1>3, <1>4 DEF Assembly!Completes, Assembly!VerifyInSameMessage, VerifyInSameMessage
<1> QED
  BY <1>5, <1>6 DEF prior

-----------------------------------------------------------------------------
(* Steps. *)

LEMMA IsArrival ==
  ASSUME NEW line \in Lines, Create(line, line_number + 1) # NoSentence
  PROVE  Create(line, line_number + 1) \in Assembly!Arrivals
<1>1. Assembly!Create(line, line_number + 1) = Create(line, line_number + 1)
  BY SameCreate
<1>2. Create(line, line_number + 1) # Assembly!NoSentence
  BY DEF Assembly!NoSentence, NoSentence
<1> QED
  BY <1>1, <1>2 DEF Assembly!Arrivals

LEMMA DropAllowed ==
  ASSUME line_number' = line_number + 1, Pool' \in SUBSET Pool, messages' = messages
  PROVE  Assembly!Next
  BY DEF Assembly!Next, Assembly!Drop, Pool, Reverse

LEMMA WaitAllowed ==
  ASSUME line_number' = line_number + 1, NEW s \in Assembly!Arrivals,
         s.number < s.total, Pool' \in {kept \cup {s} : kept \in SUBSET Pool},
         messages' = messages
  PROVE  Assembly!Next
  BY DEF Assembly!Next, Assembly!Wait, Pool, Reverse

(* A message that Emit queues, made of prior and s, is one that Complete   *)
(* allows; if it queues none the line is dropped.                          *)
LEMMA EmitAllowed ==
  ASSUME TypeOK, line_number' = line_number + 1, NEW s \in Assembly!Arrivals,
         s.number = s.total, NEW prior \in [1 .. s.total - 1 -> Pool],
         Assembly!Completes(prior, s), NEW t, NEW lines, Emit(t, lines),
         t # NoSentence => /\ t.body = Bodies(prior) \o s.body
                           /\ t.fill_bits = s.fill_bits
                           /\ lines = Append(LinesOf(prior), s.line_number),
         Pool' \in SUBSET (Pool \ Range(prior))
  PROVE  Assembly!Next
<1>1. CASE ~ (t # NoSentence /\ Decodes(t))
  <2>1. messages' = messages
    BY <1>1 DEF Emit
  <2> QED
    BY <2>1, DropAllowed
<1>2. CASE t # NoSentence /\ Decodes(t)
  <2> DEFINE m == Assembly!MessageOf(prior, s)
  <2>1. m = [body |-> t.body, fill_bits |-> t.fill_bits, lines |-> lines]
    BY <1>2, SameMessage
  <2>2. messages' = << m >> \o messages
    BY <1>2, <2>1 DEF Emit
  <2>3. m.body = t.body
    BY <2>1
  <2>4. m.body \notin Undecodable /\ Assembly!BodySize(m.body) >= 2
    BY <1>2, <2>3, SameBodySize DEF Decodes
  <2> HIDE DEF m
  <2>5. Reverse(messages') = Append(Reverse(messages), m)
    <3> DEFINE S == Message \cup {m}
    <3>1. messages \in Seq(S) /\ m \in S
      BY DEF TypeOK
    <3> HIDE DEF S
    <3> QED
      BY <2>2, <3>1, ReversePush
  <2>6. Pool' \in SUBSET (Pool \ Assembly!Range(prior))
    BY DEF Assembly!Range, Range
  <2> DEFINE P == Pool
             Q == Reverse(messages)
  <2>7. /\ prior \in [1 .. s.total - 1 -> Pool]
        /\ Assembly!Completes(prior, s)
        /\ Assembly!MessageOf(prior, s).body \notin Undecodable
        /\ Assembly!BodySize(Assembly!MessageOf(prior, s).body) >= 2
        /\ Reverse(messages)' = Append(Reverse(messages), Assembly!MessageOf(prior, s))
        /\ Pool' \in SUBSET (Pool \ Assembly!Range(prior))
    BY <2>4, <2>5, <2>6 DEF m
  <2>8. Assembly!Complete
    BY <2>7 DEF Assembly!Complete, Pool
  <2> QED
    BY <2>8 DEF Assembly!Next
<1> QED
  BY <1>1, <1>2

LEMMA AddLineAllowed ==
  ASSUME Inductive, NEW line \in Lines, AddLine(line)
  PROVE  Assembly!Next
<1> DEFINE s == Create(line, line_number + 1)
           prior == incoming_sentences[s.seq]
<1>1. TypeOK /\ BuffersInOrder /\ HeardOK
  BY DEF Inductive
<1>2. /\ s = NoSentence \/ Created(s)
      /\ line_number' = line_number + 1
      /\ \/ IgnoreLine(s) \/ SingleLine(s) \/ FirstSentence(s)
         \/ MiddleSentence(s) \/ FinalSentence(s)
  BY <1>1, HearLine DEF AddLine
<1>3. s # NoSentence => s \in Assembly!Arrivals
  BY IsArrival
<1> HIDE DEF s
<1>4. ASSUME Usable(s)
      PROVE  /\ s \in Assembly!Arrivals /\ Created(s) /\ s \in Sentence
             /\ s.number \in 1 .. s.total /\ s.total \in Nat
  <2>1. s # NoSentence /\ Created(s)
    BY <1>2, <1>4 DEF Usable
  <2> QED
    BY <1>3, <2>1 DEF Created, kMaxSentences
<1>5. ASSUME incoming_sentences' = incoming_sentences, messages' = messages
      PROVE  Assembly!Next
  <2>1. Pool' \in SUBSET Pool
    BY <1>5 DEF Pool
  <2> QED
    BY <1>2, <1>5, <2>1, DropAllowed
<1>6. CASE IgnoreLine(s)
  BY <1>5, <1>6 DEF IgnoreLine, Reject
<1>7. CASE SingleLine(s)
  <2>1. /\ Usable(s) /\ s.total = 1 /\ Emit(s, << s.line_number >>)
        /\ incoming_sentences' = incoming_sentences
    BY <1>7 DEF SingleLine
  <2>2. s.number = s.total
    BY <1>4, <2>1
  <2>3. /\ << >> \in [1 .. s.total - 1 -> Pool] /\ Range(<< >>) = {}
        /\ Assembly!Completes(<< >>, s)
    BY <2>1 DEF Range, Assembly!Completes
  <2>4. /\ s.body = Bodies(<< >>) \o s.body
        /\ << s.line_number >> = Append(LinesOf(<< >>), s.line_number)
    <3>1. s.body \in Seq(Chunks)
      BY <1>4, <2>1 DEF Sentence
    <3>2. Bodies(<< >>) = << >> /\ LinesOf(<< >>) = << >>
      BY DEF Bodies, LinesOf
    <3>3. Append(<< >>, s.line_number) = << s.line_number >>
      OBVIOUS
    <3> QED
      BY <3>1, <3>2, <3>3
  <2>5. Pool' \in SUBSET (Pool \ Range(<< >>))
    BY <2>1, <2>3 DEF Pool
  <2> QED
    BY <1>1, <1>2, <1>4, <2>1, <2>2, <2>3, <2>4, <2>5, EmitAllowed
<1>8. CASE FirstSentence(s)
  <2>1. /\ Usable(s) /\ s.total # 1 /\ s.number = 1 /\ messages' = messages
        /\ incoming_sentences' = [incoming_sentences EXCEPT ![s.seq] = << s >>]
    BY <1>8 DEF FirstSentence
  <2>2. s.seq \in SequenceNumbers /\ s.number < s.total
    BY <1>4, <2>1, SeqInRange
  <2>3. << s >> \in Seq(Sentence) /\ Range(<< s >>) = {s}
    BY <1>4, <2>1 DEF Range
  <2>4. Pool' \in {kept \cup {s} : kept \in SUBSET Pool}
    BY <1>1, <2>1, <2>2, <2>3, PoolGrows
  <2> QED
    BY <1>2, <1>4, <2>1, <2>2, <2>4, WaitAllowed
<1>9. CASE MiddleSentence(s)
  <2>1. CASE incoming_sentences' = incoming_sentences /\ messages' = messages
    BY <1>5, <2>1
  <2>2. CASE /\ incoming_sentences' = [incoming_sentences EXCEPT ![s.seq] = Append(prior, s)]
             /\ messages' = messages
    <3>1. Usable(s) /\ s.total # 1 /\ s.number # s.total
      BY <1>9 DEF MiddleSentence
    <3>2. s.seq \in SequenceNumbers /\ s.number < s.total
      BY <1>4, <3>1, SeqInRange
    <3>3. prior \in Seq(Sentence) /\ s \in Sentence
      BY <1>1, <1>4, <3>1, <3>2 DEF TypeOK
    <3> DEFINE buffer == Append(prior, s)
    <3>4. buffer \in Seq(Sentence) /\ Range(buffer) = Range(prior) \cup {s}
      <4>1. /\ DOMAIN buffer = DOMAIN prior \cup {Len(prior) + 1}
            /\ \A i \in DOMAIN prior : buffer[i] = prior[i]
            /\ buffer[Len(prior) + 1] = s /\ buffer \in Seq(Sentence)
        BY <3>3, AppendKeeps
      <4> HIDE DEF buffer, prior
      <4> QED
        BY <4>1 DEF Range
    <3> HIDE DEF buffer
    <3>5. Pool' \in {kept \cup {s} : kept \in SUBSET Pool}
      BY <1>1, <2>2, <3>2, <3>4, PoolGrows DEF buffer
    <3> QED
      BY <1>2, <1>4, <2>2, <3>1, <3>2, <3>5, WaitAllowed
  <2> QED
    BY <1>9, <2>1, <2>2 DEF MiddleSentence, Reject
<1>10. CASE FinalSentence(s)
  <2>1. /\ Usable(s) /\ s.total # 1 /\ s.number = s.total
        /\ incoming_sentences' = [incoming_sentences EXCEPT ![s.seq] = << >>]
    BY <1>10 DEF FinalSentence
  <2>2. s.seq \in SequenceNumbers
    BY <1>4, <2>1, SeqInRange
  <2>3. Pool' \in SUBSET (Pool \ Range(prior))
    BY <1>1, <2>1, <2>2, PoolShrinks
  <2>4. CASE messages' = messages
    BY <1>2, <2>3, <2>4, DropAllowed
  <2>5. CASE /\ Merge(s, prior) # NoSentence
             /\ Emit(Merge(s, prior), Append(LinesOf(prior), s.line_number))
    <3>1. prior \in Seq(Sentence) /\ s \in Sentence
      BY <1>1, <1>4, <2>1, <2>2 DEF TypeOK
    <3>2. /\ Merge(s, prior).body = Bodies(prior) \o s.body
          /\ Merge(s, prior).fill_bits = s.fill_bits
          /\ CanMerge(s, prior)
      BY <2>5, <3>1, MergeType
    <3>3. /\ prior \in [1 .. s.total - 1 -> Pool]
          /\ Assembly!Completes(prior, s)
      BY <1>1, <1>4, <2>1, <2>2, <3>2, MergedCompletes
    <3> DEFINE t == Merge(s, prior)
               lines == Append(LinesOf(prior), s.line_number)
    <3>4. /\ Emit(t, lines)
          /\ t.body = Bodies(prior) \o s.body /\ t.fill_bits = s.fill_bits
          /\ lines = Append(LinesOf(prior), s.line_number)
      BY <2>5, <3>2
    <3> HIDE DEF t, lines, prior
    <3> QED
      BY <1>1, <1>2, <1>4, <2>1, <2>3, <3>3, <3>4, EmitAllowed
  <2> QED
    BY <1>10, <2>4, <2>5 DEF FinalSentence, Emit
<1> QED
  BY <1>2, <1>6, <1>7, <1>8, <1>9, <1>10

LEMMA PopAllowed ==
  ASSUME Inductive, PopOldestMessage
  PROVE  Assembly!Next
<1>1. /\ messages \in Seq(Message) /\ messages # << >> /\ messages' = Front(messages)
      /\ line_number' = line_number /\ incoming_sentences' = incoming_sentences
  BY DEF PopOldestMessage, Inductive, TypeOK
<1>2. Reverse(messages) # << >> /\ Reverse(messages') = Tail(Reverse(messages))
  BY <1>1, ReversePop
<1> QED
  BY <1>1, <1>2 DEF Assembly!Next, Assembly!Collect

(* AddLine and PopOldestMessage take only steps of MessageAssembly: a      *)
(* sentence is used once, with partners of its header heard before it, and *)
(* the queue is first in, first out (vdm.h).                               *)
THEOREM StreamImplementsAssembly == Spec => ImplementsAssembly
<1>1. Init => Assembly!Init
  <2> SUFFICES ASSUME Init PROVE Assembly!Init
    OBVIOUS
  <2>1. line_number = 0 /\ messages = << >>
        /\ incoming_sentences = [seq \in SequenceNumbers |-> << >>]
    BY DEF Init
  <2>2. Range(<< >>) = {} /\ Reverse(<< >>) = << >>
    BY DEF Range, Reverse
  <2>3. UNION {Range(incoming_sentences[seq]) : seq \in SequenceNumbers} = {}
    BY <2>1, <2>2
  <2> QED
    BY <2>1, <2>2, <2>3 DEF Assembly!Init
<1>2. Inductive /\ [Next]_vars => [Assembly!Next]_(Assembly!vars)
  <2> SUFFICES ASSUME Inductive, [Next]_vars
               PROVE  [Assembly!Next]_(Assembly!vars)
    OBVIOUS
  <2>1. CASE UNCHANGED vars
    BY <2>1 DEF vars, Assembly!vars
  <2> QED
    BY <2>1, AddLineAllowed, PopAllowed DEF Next
<1> QED
  BY <1>1, <1>2, InductiveInvariant, PTL DEF Spec, ImplementsAssembly, Assembly!Spec

=============================================================================
