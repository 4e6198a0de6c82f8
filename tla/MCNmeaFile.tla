----------------------------- MODULE MCNmeaFile -----------------------------
(***************************************************************************)
(* NmeaFile on files of any few lines: of every type, with a group of      *)
(* three, a payload that does not decode and lines on which put raises.    *)
(***************************************************************************)
EXTENDS NmeaFile

CONSTANTS c1, c2, bad, text

MCChunks == {c1, c2, bad}
MCCharsIn == [c \in MCChunks |-> 28]
MCDecodeErrors == {<< c1, bad >>}

Vdm(total, number, seq, chunk) ==
  [framed |-> TRUE, talker |-> "AIVDM", total |-> total, number |-> number,
   seq |-> seq, channel |-> "A", body |-> chunk, fill |-> 0]

NotVdm == [Vdm(1, 1, << >>, c1) EXCEPT !.framed = FALSE]

(* $GPZDA,,,,,,*48: no time for the handler to convert. *)
NoTime == [NotVdm EXCEPT !.talker = "GPZDA"]

MCHandlerErrors == {NoTime}

MCBareLines == {Vdm(3, 1, <<1>>, c1), Vdm(3, 2, <<1>>, c2), Vdm(3, 3, <<1>>, c2),
                Vdm(2, 2, <<1>>, bad), Vdm(2, 1, << >>, c1),
                NotVdm, NoTime}

Tag(group, vdm) ==
  [no_checksum |-> FALSE, parsed |-> TRUE, group |-> group, vdm |-> vdm,
   looks |-> vdm.talker = "AIVDM"]

G(number, total) == << [number |-> number, total |-> total, id |-> 5] >>

MCTagLines == {Tag(G(1, 2), Vdm(2, 1, <<1>>, c1)), Tag(G(2, 2), Vdm(2, 2, <<1>>, c2)),
               Tag(G(2, 2), NotVdm), Tag(<< >>, Vdm(1, 1, << >>, c1)), Tag(<< >>, NoTime),
               [Tag(<< >>, NotVdm) EXCEPT !.no_checksum = TRUE]}

MCUscgLines == {[station |-> "r1", vdm |-> Vdm(2, 1, <<1>>, c1)],
                [station |-> "r1", vdm |-> Vdm(2, 2, <<1>>, c2)]}

=============================================================================
