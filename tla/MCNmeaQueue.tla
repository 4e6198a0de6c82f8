----------------------------- MODULE MCNmeaQueue -----------------------------
(***************************************************************************)
(* NmeaQueue on a few lines of every type.  The payload c1, bad does not   *)
(* decode, c1, bad, c2 does.                                               *)
(***************************************************************************)
EXTENDS NmeaQueue, TLC

CONSTANTS c1, c2, bad, text

MCChunks == {c1, c2, bad}
MCCharsIn == [c \in MCChunks |-> 28]
MCDecodeErrors == {<< c1, bad >>, << bad >>}

Vdm(total, number, seq, chunk) ==
  [framed |-> TRUE, talker |-> "AIVDM", total |-> total, number |-> number,
   seq |-> seq, channel |-> "A", body |-> chunk, fill |-> 0]

NotVdm == [Vdm(1, 1, << >>, c1) EXCEPT !.framed = FALSE]

(* $GPZDA,,,,,,*48: no time for the handler to convert. *)
NoTime == [NotVdm EXCEPT !.talker = "GPZDA"]

MCHandlerErrors == {NoTime}

MCBareLines == {Vdm(2, 1, <<1>>, c1), Vdm(2, 2, <<1>>, bad), Vdm(2, 2, <<1>>, c2),
                Vdm(3, 2, <<1>>, c2), Vdm(3, 3, <<1>>, c2),
                Vdm(1, 1, << >>, c1), Vdm(1, 1, << >>, bad),
                Vdm(2, 2, << >>, c2), NotVdm, NoTime}

Tag(group, vdm, looks) ==
  [no_checksum |-> FALSE, parsed |-> TRUE, group |-> group, vdm |-> vdm,
   looks |-> looks]

G(number, total) == << [number |-> number, total |-> total, id |-> 5] >>

MCTagLines == {Tag(G(1, 2), Vdm(2, 1, <<1>>, c1), TRUE),
               Tag(G(2, 2), Vdm(2, 2, <<1>>, c2), TRUE),
               Tag(G(2, 2), Vdm(2, 2, <<1>>, bad), TRUE),
               Tag(G(1, 2), NotVdm, TRUE),
               Tag(G(2, 3), NotVdm, FALSE),
               Tag(<< >>, Vdm(1, 1, << >>, c1), TRUE),
               Tag(<< >>, Vdm(2, 1, <<1>>, c1), TRUE)}

MCUscgLines == {[station |-> "r1", vdm |-> Vdm(2, 1, <<1>>, c1)],
                [station |-> "r1", vdm |-> Vdm(2, 2, <<1>>, c2)],
                [station |-> "r1", vdm |-> Vdm(2, 1, <<0>>, c1)],
                [station |-> "r1", vdm |-> Vdm(2, 2, << >>, c2)],
                [station |-> "r1", vdm |-> NotVdm]}

(* vdm.py: "Invalid AIS messages are dropped."  Then no line of one could  *)
(* be part of a message that is decoded later: only the last line of a     *)
(* message would be a final one.                                           *)
InvalidMessagesDropped ==
  \A i \in DOMAIN Output :
    LET nums == Output[i].line_nums IN
    (given[nums[1]].type = "BARE" /\ Output[i].decoded # << >>) =>
      \A k \in 1 .. Len(nums) - 1 : VdmOf(nums[k]).number # VdmOf(nums[k]).total

=============================================================================
