----------------------------- MODULE MCVdmStream -----------------------------
(***************************************************************************)
(* VdmStream on a small set of lines: the three sentences of a message on  *)
(* sequence number 1, a two-sentence message of another talker on the same *)
(* number, a continuation on the same header as the first but the other    *)
(* channel, a two-sentence message on number 2, single-line messages, and  *)
(* lines that Create or AddLine turn away.                                 *)
(***************************************************************************)
EXTENDS VdmStream

CONSTANTS ai, bs, c1, c2, c3, tiny, odd

MCTalkers == {ai, bs}
MCChunks == {c1, c2, c3, tiny, odd}
MCCharsIn == (c1 :> 60) @@ (c2 :> 60) @@ (c3 :> 20) @@ (tiny :> 1) @@ (odd :> 28)

(* No decoder for the message type of odd. *)
MCUndecodable == {<< odd >>, << odd, c2 >>}

Text(talker, total, number, seq, channel, chunk, fill) ==
  [framed |-> TRUE, talker |-> talker, total |-> total, number |-> number,
   seq |-> seq, channel |-> channel, body |-> chunk, fill |-> fill]

ThreePart == {Text(ai, 3, 1, <<1>>, "A", c1, 0),
              Text(ai, 3, 2, <<1>>, "A", c2, 0),
              Text(ai, 3, 3, <<1>>, "A", c3, 2)}

OtherTalker == {Text(bs, 2, 1, <<1>>, "A", c1, 0),
                Text(bs, 2, 2, <<1>>, "A", c2, 4)}

OtherChannel == {Text(ai, 3, 2, <<1>>, "B", c2, 0)}

OtherSequence == {Text(ai, 2, 1, <<2>>, "B", odd, 0),
                  Text(ai, 2, 2, <<2>>, "B", c2, 0)}

Singles == {Text(bs, 1, 1, << >>, "B", c1, 0),
            Text(ai, 1, 1, <<7>>, "A", tiny, 0)}

Refused == {Text(ai, 2, 1, << >>, "A", c1, 0),
            Text(ai, 10, 2, <<1>>, "A", c1, 0)}

Crowded == ThreePart \cup OtherTalker \cup OtherChannel \cup OtherSequence
             \cup Singles \cup Refused

(* vdm.h on AddLine: "Returns true if the sentence was used or false if    *)
(* the line was ignored", "ignored" being said of a later part that misses *)
(* initial lines.  A final sentence that misses the lines before it, or is *)
(* preceded by those of another message, would leave the buffer alone.     *)
StrayFinalIgnored ==
  [][LET s == Last(heard') IN
     (/\ line_number' # line_number
      /\ s # NoSentence
      /\ s.total > 1 /\ s.number = s.total
      /\ s.seq \in SequenceNumbers
      /\ ~ CanMerge(s, incoming_sentences[s.seq])
      /\ ~ accepted')
     => UNCHANGED incoming_sentences]_vars

=============================================================================
