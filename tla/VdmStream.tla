------------------------------ MODULE VdmStream ------------------------------
(***************************************************************************)
(* libais::VdmStream (src/src/libais/vdm.h, vdm.cpp): lines go in one at a *)
(* time, sentences of a multi-line message wait in the buffer of their     *)
(* sequence number, complete messages are decoded and queued, and the      *)
(* caller pops them.  The class is documented as not thread safe: a call   *)
(* is one step.                                                            *)
(*                                                                         *)
(* heard and delivered are history: what Create made of every line so far  *)
(* and what the caller has popped.  No action reads them.                  *)
(***************************************************************************)
EXTENDS NmeaSentence

CONSTANTS
  Lines,        \* texts a caller may pass to AddLine
  Undecodable,  \* bodies for which CreateAisMsg returns nullptr
  MaxLines      \* bound on the number of calls of AddLine

ASSUME LinesAreRaw == Lines \subseteq RawLine
ASSUME UndecodableAreBodies == Undecodable \subseteq Seq(Chunks)
ASSUME MaxLinesIsNat == MaxLines \in Nat

VARIABLES
  line_number,         \* count of lines pushed so far
  incoming_sentences,  \* sequence number -> sentences waiting for the rest
  messages,            \* decoded messages, the newest first
  accepted,            \* what the last AddLine returned
  heard,               \* history: the result of Create for every line
  delivered            \* history: messages popped, the oldest first

vars == << line_number, incoming_sentences, messages, accepted, heard, delivered >>

(* A decoded message: the payload it was decoded from, and, as history,    *)
(* the numbers of the lines that payload came from.                        *)
Message == [body : Seq(Chunks), fill_bits : Int, lines : Seq(Int)]

Init ==
  /\ line_number = 0
  /\ incoming_sentences = [seq \in SequenceNumbers |-> << >>]
  /\ messages = << >>
  /\ accepted = FALSE
  /\ heard = << >>
  /\ delivered = << >>

(* CreateAisMsg returns an object; whether that object reports had_error   *)
(* plays no part here: it is queued all the same.                          *)
Decodes(s) ==
  /\ BodySize(s.body) >= 2
  /\ s.fill_bits \in 0 .. MaxFillBits
  /\ s.body \notin Undecodable

(* Mutant of Emit: the test for nullptr is missing. *)
EmitNull(s, lines) ==
  /\ messages' = << IF s # NoSentence /\ Decodes(s)
                    THEN [body |-> s.body, fill_bits |-> s.fill_bits,
                          lines |-> lines]
                    ELSE NoSentence >> \o messages
  /\ accepted' = TRUE

(* The tail of AddLine: decode s, built from those lines, and queue it. *)
Emit(s, lines) ==
  IF s # NoSentence /\ Decodes(s)
  THEN /\ messages' = << [body |-> s.body, fill_bits |-> s.fill_bits,
                          lines |-> lines] >> \o messages
       /\ accepted' = TRUE
  ELSE /\ accepted' = FALSE
       /\ UNCHANGED messages

Reject ==
  /\ accepted' = FALSE
  /\ UNCHANGED << incoming_sentences, messages >>

(* A VDM line, and if a part of a multi-line message then one with a       *)
(* sequence number.  (No sentence of Create has too many parts.)           *)
Usable(s) ==
  /\ s # NoSentence
  /\ s.total <= kMaxSentences
  /\ s.total # 1 => s.seq <= kNumSequenceChannels

IgnoreLine(s) == ~ Usable(s) /\ Reject

SingleLine(s) ==
  /\ Usable(s)
  /\ s.total = 1
  /\ Emit(s, << s.line_number >>)
  /\ UNCHANGED incoming_sentences

(* Mutant of FirstSentence: clear() is missing. *)
FirstAppended(s) ==
  /\ Usable(s)
  /\ s.total # 1
  /\ s.number = 1
  /\ incoming_sentences' = [incoming_sentences EXCEPT ![s.seq] = Append(@, s)]
  /\ accepted' = TRUE
  /\ UNCHANGED messages

(* Mutant of FirstSentence: a started message is not given up. *)
FirstKeepsOld(s) ==
  /\ Usable(s)
  /\ s.total # 1
  /\ s.number = 1
  /\ incoming_sentences' =
       [incoming_sentences EXCEPT ![s.seq] = IF @ = << >> THEN << s >> ELSE @]
  /\ accepted' = TRUE
  /\ UNCHANGED messages

(* A first sentence replaces whatever waited under its sequence number. *)
FirstSentence(s) ==
  /\ Usable(s)
  /\ s.total # 1
  /\ s.number = 1
  /\ incoming_sentences' = [incoming_sentences EXCEPT ![s.seq] = << s >>]
  /\ accepted' = TRUE
  /\ UNCHANGED messages

(* Mutant of MiddleSentence: size() is compared without the + 1. *)
MiddleOffByOne(s) ==
  /\ Usable(s)
  /\ s.total # 1
  /\ s.number # 1 /\ s.number # s.total
  /\ IF Len(incoming_sentences[s.seq]) # s.number
     THEN Reject
     ELSE /\ incoming_sentences' =
               [incoming_sentences EXCEPT ![s.seq] = Append(@, s)]
          /\ accepted' = TRUE
          /\ UNCHANGED messages

(* A middle sentence is taken on its number alone: the header is compared  *)
(* only when the message is merged.                                        *)
MiddleSentence(s) ==
  /\ Usable(s)
  /\ s.total # 1
  /\ s.number # 1 /\ s.number # s.total
  /\ IF Len(incoming_sentences[s.seq]) + 1 # s.number
     THEN Reject
     ELSE /\ incoming_sentences' =
               [incoming_sentences EXCEPT ![s.seq] = Append(@, s)]
          /\ accepted' = TRUE
          /\ UNCHANGED messages

LinesOf(sentences) == [i \in DOMAIN sentences |-> sentences[i].line_number]

(* Mutant of FinalSentence: the clear() after Merge is missing. *)
FinalKeeps(s) ==
  LET prior == incoming_sentences[s.seq] IN
  /\ Usable(s)
  /\ s.total # 1
  /\ s.number # 1 /\ s.number = s.total
  /\ UNCHANGED incoming_sentences
  /\ IF Len(prior) # s.total - 1
     THEN accepted' = FALSE /\ UNCHANGED messages
     ELSE Emit(Merge(s, prior), Append(LinesOf(prior), s.line_number))

(* A final sentence empties the buffer whether the message is complete,    *)
(* lacks a sentence or does not merge.                                     *)
FinalSentence(s) ==
  LET prior == incoming_sentences[s.seq] IN
  /\ Usable(s)
  /\ s.total # 1
  /\ s.number # 1 /\ s.number = s.total
  /\ incoming_sentences' = [incoming_sentences EXCEPT ![s.seq] = << >>]
  /\ IF Len(prior) # s.total - 1
     THEN accepted' = FALSE /\ UNCHANGED messages
     ELSE Emit(Merge(s, prior), Append(LinesOf(prior), s.line_number))

AddLine(line) ==
  LET s == Create(line, line_number + 1) IN
  /\ line_number < MaxLines
  /\ line_number' = line_number + 1
  /\ heard' = Append(heard, s)
  /\ UNCHANGED delivered
  /\ \/ IgnoreLine(s)
     \/ SingleLine(s)
     \/ FirstSentence(s)
     \/ MiddleSentence(s)
     \/ FinalSentence(s)

(* Mutant of PopOldestMessage: the front of the deque is taken. *)
PopNewest ==
  /\ messages # << >>
  /\ delivered' = Append(delivered, Head(messages))
  /\ messages' = Tail(messages)
  /\ UNCHANGED << line_number, incoming_sentences, accepted, heard >>

PopOldestMessage ==
  /\ messages # << >>
  /\ delivered' = Append(delivered, Last(messages))
  /\ messages' = Front(messages)
  /\ UNCHANGED << line_number, incoming_sentences, accepted, heard >>

(* The caller may stop feeding and popping at any time. *)
Next ==
  \/ \E line \in Lines : AddLine(line)
  \/ PopOldestMessage

Spec == Init /\ [][Next]_vars

-----------------------------------------------------------------------------

TypeOK ==
  /\ line_number \in Nat
  /\ incoming_sentences \in [SequenceNumbers -> Seq(Sentence)]
  /\ messages \in Seq(Message)
  /\ accepted \in BOOLEAN
  /\ heard \in Seq(Sentence \cup {NoSentence})
  /\ delivered \in Seq(Message)

(* Everything that came out of the stream so far, the oldest first. *)
Output == delivered \o Reverse(messages)

(* The buffer of a sequence number holds the sentences 1, 2, ... of a      *)
(* multi-line message of that number, none of them the final one, each of  *)
(* them heard, in the order they were heard.  So it is never longer than   *)
(* kMaxSentences - 2 and the i + 1 tests of AddLine and Merge mean what    *)
(* they say.                                                               *)
BufferInOrder(seq) ==
  LET buffer == incoming_sentences[seq] IN
  /\ \A i \in DOMAIN buffer :
       /\ buffer[i].line_number \in DOMAIN heard
       /\ buffer[i] = heard[buffer[i].line_number]
       /\ buffer[i].seq = seq
       /\ buffer[i].number = i
       /\ i < buffer[i].total
       /\ buffer[i].total < kMaxSentences
  /\ \A i, j \in DOMAIN buffer :
       i < j => buffer[i].line_number < buffer[j].line_number

BuffersInOrder == \A seq \in SequenceNumbers : BufferInOrder(seq)

(* What a message that came out is made of: one sentence of a single-line  *)
(* message, or the sentences 1..n of headers that agree, heard in that     *)
(* order; its payload is theirs, its fill bits those of the final one.     *)
Coherent(history, m) ==
  LET n == Len(m.lines)
      part(i) == history[m.lines[i]]
  IN
  /\ n >= 1
  /\ \A i \in 1 .. n : m.lines[i] \in DOMAIN history /\ part(i) # NoSentence
  /\ \A i, j \in 1 .. n : i < j => m.lines[i] < m.lines[j]
  /\ \A i \in 1 .. n : part(i).number = i /\ part(i).total = n
  /\ \A i \in 1 .. n : /\ part(i).talker = part(n).talker
                       /\ part(i).seq = part(n).seq
                       /\ part(i).channel = part(n).channel
  /\ m.body = Bodies([i \in 1 .. n |-> part(i)])
  /\ m.fill_bits = part(n).fill_bits

(* Whatever order, mixture or loss of lines the stream is fed, every       *)
(* message it gives out is the concatenation of the sentences 1..n of one  *)
(* header in the order they were heard (AddLine, Merge).                   *)
MessagesAreCoherent == \A i \in DOMAIN Output : Coherent(heard, Output[i])

(* A multi-line message never reaches across a newer first sentence or a   *)
(* final sentence of its own sequence number: what was buffered before is  *)
(* discarded by then (AddLine, both clear() calls).                        *)
NoStaleParts ==
  \A i \in DOMAIN Output :
    LET m == Output[i]
        n == Len(m.lines)
    IN \A k \in m.lines[1] + 1 .. m.lines[n] - 1 :
         LET s == heard[k] IN
         ~ /\ s # NoSentence
           /\ s.total > 1
           /\ s.seq = heard[m.lines[1]].seq
           /\ s.number \in {1, s.total}

(* Messages come out in the order in which their last lines went in        *)
(* (vdm.h: "output in FIFO order").                                        *)
FifoOutput ==
  \A i, j \in DOMAIN Output :
    i < j => Last(Output[i].lines) < Last(Output[j].lines)

(* Numbers of the lines heard that are multi-line sentences of seq. *)
Under(seq) ==
  {k \in DOMAIN heard :
     heard[k] # NoSentence /\ heard[k].total > 1 /\ heard[k].seq = seq}

(* at lists the last ones of a set of lines, from at[1] on, in order. *)
AreLast(at, S) ==
  /\ \A i, j \in DOMAIN at : i < j => at[i] < at[j]
  /\ Range(at) = {k \in S : k >= at[1]}

(* The lines at are the sentences 1..n of one header. *)
OneHeader(at) ==
  \A i \in DOMAIN at : /\ heard[at[i]].number = i
                       /\ heard[at[i]].total = Len(at)
                       /\ heard[at[i]].talker = heard[at[1]].talker
                       /\ heard[at[i]].channel = heard[at[1]].channel

PayloadOf(at) == Bodies([i \in DOMAIN at |-> heard[at[i]]])

(* Nothing is lost that could be put together: when the last n multi-line  *)
(* sentences of a sequence number are 1..n of one header, the final one    *)
(* has just been heard, and the payload decodes, the call returned true    *)
(* and the message is the newest one in the queue or was popped since,     *)
(* whatever was heard under that number before and under other numbers     *)
(* meanwhile.                                                              *)
CompleteGroupComesOut ==
  \A seq \in SequenceNumbers, n \in 2 .. kMaxSentences - 1 :
    Len(heard) \in Under(seq) /\ heard[Len(heard)].total = n =>
      \A at \in [1 .. n -> Under(seq)] :
        (/\ AreLast(at, Under(seq))
         /\ OneHeader(at)
         /\ PayloadOf(at) \notin Undecodable)
        => /\ accepted
           /\ Output # << >>
           /\ Last(Output).lines = at

(* The stream implements message assembly: see MessageAssembly.  Buffered  *)
(* sentences are its pool, the queue turned round is its queue.            *)
Assembly == INSTANCE MessageAssembly
              WITH now <- line_number,
                   pool <- UNION {Range(incoming_sentences[seq]) :
                                    seq \in SequenceNumbers},
                   queue <- Reverse(messages)

(* AddLine and PopOldestMessage, whatever the lines, take only steps the   *)
(* abstract specification allows: a sentence is used in at most one        *)
(* message, with partners of its header heard before it in their order,    *)
(* and the queue is first in, first out.                                   *)
ImplementsAssembly == Assembly!Spec

=============================================================================
