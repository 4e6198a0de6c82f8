---------------------------- MODULE MCPyDecoding ----------------------------
(***************************************************************************)
(* Payloads of every message and application ais.decode knows, on every    *)
(* branch, in all the sizes that are accepted and some that are not; and   *)
(* payloads whose first character it does not know.                        *)
(***************************************************************************)
EXTENDS PyDecoding, MCAisDecoding

PyBinary(id, applications) ==
  {Binary("py", id, a[1], a[2]) : a \in applications}

(* One report, or up to three of two kinds. *)
Reports(dac, fi, kinds, known) == SubMessages(Binary("py", 8, dac, fi), kinds, known)

PyComposed ==
  Areas(Binary("py", 8, 1, 22))
  \cup Reports(1, 26, 0 .. 11, 4) \cup Reports(1, 26, 4 .. 6, 5)
  \cup Reports(367, 33, 0 .. 11, 4) \cup Reports(367, 33, 4 .. 6, 5)
  \cup SubMessages(Binary("py", 6, 1, 25), 0 .. 6, 2)
  \cup {[Binary("py", 8, 1, 21) EXCEPT !.type_wx_report = TRUE]}

Unknown == {Plain(id) : id \in {0, 28, 63}}

MCPyPayloads ==
  PayloadsOf(Messages \cup PyComposed \cup Unknown
             \cup PyBinary(6, PyApplications6) \cup PyBinary(8, PyApplications8)
             \cup {[Binary("py", 6, 1, 20) EXCEPT !.services_known = TRUE],
                   Binary("py", 6, 2, 0), Binary("py", 8, 2, 0),
                   [Plain(18) EXCEPT !.armored = FALSE]})

=============================================================================
