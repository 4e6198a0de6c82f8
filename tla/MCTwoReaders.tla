---------------------------- MODULE MCTwoReaders ----------------------------
(***************************************************************************)
(* Both readers on the lines of a three-line message, of two-line messages *)
(* of another talker on the same sequence number, of which one decodes in  *)
(* C++ only, and a first and a middle line without a channel, which C++    *)
(* does not take.  Python takes each of them or not.                       *)
(***************************************************************************)
EXTENDS TwoReaders

CONSTANTS ai, bs, c1, c2, c3

MCChunks == {c1, c2, c3}
MCCharsIn == [c \in MCChunks |-> 30]
MCDecodeErrors == {<< c1, c3 >>}

Text(talker, total, number, seq, chunk) ==
  [framed |-> TRUE, talker |-> talker, total |-> total, number |-> number,
   seq |-> seq, channel |-> "A", body |-> chunk, fill |-> 0]

NoChannel(line) == [line EXCEPT !.channel = ""]

MCLines == {Text(ai, 3, 1, <<1>>, c1), Text(ai, 3, 2, <<1>>, c2),
            Text(ai, 3, 3, <<1>>, c3), Text(ai, 2, 1, <<1>>, c1),
            Text(ai, 2, 2, <<1>>, c3), Text(bs, 2, 2, <<1>>, c2),
            NoChannel(Text(ai, 2, 1, <<1>>, c1)),
            NoChannel(Text(ai, 3, 2, <<1>>, c2))}

=============================================================================
