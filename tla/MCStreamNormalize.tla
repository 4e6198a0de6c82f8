------------------------- MODULE MCStreamNormalize -------------------------
(***************************************************************************)
(* normalize and decode on the lines of a three-line and a two-line        *)
(* message of one slot, with one first line far too old, with and without  *)
(* receivers and tag blocks, and on lines that are wrong in each way the   *)
(* code knows.                                                             *)
(***************************************************************************)
EXTENDS StreamNormalize

Text(total, number, payload, time) ==
  [tags_parse |-> TRUE, vdm |-> TRUE, checksum_ok |-> TRUE,
   six_fields |-> TRUE, fill |-> TRUE, fill_digit |-> TRUE,
   total |-> total, number |-> number,
   tag_station |-> << >>, station |-> << "r1" >>, seq |-> 1,
   channel |-> "A", payload |-> payload, time |-> time, tag_time |-> << >>]

Whole == {Text(2, 1, "a", << 10 >>), Text(2, 2, "b", << 11 >>),
          Text(1, 1, "a", << 10 >>), Text(2, 1, "a", << 5 >>)}

Wrong == {[Text(2, 1, "a", << 10 >>) EXCEPT !.checksum_ok = FALSE],
          [Text(2, 2, "b", << 10 >>) EXCEPT !.checksum_ok = FALSE],
          [Text(1, 1, "a", << 10 >>) EXCEPT !.tags_parse = FALSE],
          [Text(1, 1, "x", << 10 >>) EXCEPT !.vdm = FALSE],
          [Text(2, 1, "a", << >>) EXCEPT !.six_fields = FALSE, !.checksum_ok = FALSE],
          [Text(2, 2, "b", << >>) EXCEPT !.fill = FALSE],
          [Text(2, 2, "b", << 10 >>) EXCEPT !.checksum_ok = FALSE, !.fill_digit = FALSE],
          [Text(2, 1, "a", << 10 >>) EXCEPT !.station = << >>]}

Parts == {Text(3, 1, "a", << 8 >>), Text(3, 2, "b", << 12 >>), Text(3, 3, "c", << 10 >>)}

Tagged == {[Text(2, 1, "a", << >>) EXCEPT !.tag_station = << "s" >>, !.tag_time = << 9 >>],
           [Text(2, 2, "b", << >>) EXCEPT !.tag_station = << "s" >>, !.channel = "B"]}

MCLines == Whole \cup Wrong \cup Parts \cup Tagged

Usual == [window |-> 2, max_errors |-> << >>, pass_invalid |-> FALSE,
          allow_unknown |-> FALSE, ignore_tag_station |-> FALSE,
          treat_ab_equal |-> FALSE, allow_missing |-> FALSE]

MCOptions == {Usual,
              [Usual EXCEPT !.max_errors = << 50 >>, !.pass_invalid = TRUE],
              [Usual EXCEPT !.allow_unknown = TRUE, !.ignore_tag_station = TRUE,
                            !.treat_ab_equal = TRUE, !.allow_missing = TRUE]}

MCDecodeErrors == {<< "x" >>, << "a", "c" >>}

PartsOnly == Parts
UsualOnly == {Usual}

=============================================================================
