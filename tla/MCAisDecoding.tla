--------------------------- MODULE MCAisDecoding ---------------------------
(***************************************************************************)
(* Payloads around every length a constructor tests, with every value it   *)
(* branches on, good and bad characters, and more characters than fit.     *)
(***************************************************************************)
EXTENDS AisDecoding

Lengths == {1, 6} \cup 7 .. 29 \cup {45, 46, 47, 52, 60, 61, 71}
             \cup {136, 137, 168, 169, 177, 178, 198, 199}

(* Both sides of the limits of the binary messages. *)
BinaryLengths == {1} \cup 9 .. 29 \cup 33 .. 36 \cup {38, 39, 42, 43} \cup 47 .. 50
                   \cup {52} \cup 58 .. 64 \cup {70, 78, 79, 80, 90, 91, 96, 110}
                   \cup {159, 160} \cup 66 .. 68 \cup 164 .. 169 \cup {171, 172, 173, 183, 184, 199}

(* A message before its size is chosen. *)
Plain(id) ==
  [message_id |-> id, chars |-> 0, pad |-> 0, armored |-> TRUE,
   slot_timeout |-> 0, itdma |-> FALSE, unit_flag |-> FALSE, part_num |-> 0,
   addressed |-> FALSE, use_app_id |-> FALSE,
   caller |-> "cpp", dac |-> 0, fi |-> 0, kinds |-> << 0 >>,
   points |-> 4, type_wx_report |-> FALSE,
   services_known |-> FALSE]

(* All the values its constructor looks at. *)
Variants(p) ==
  CASE p.message_id \in {1, 2, 4, 11} -> {[p EXCEPT !.slot_timeout = t] : t \in 0 .. 2}
    [] p.message_id = 9 ->
         {[p EXCEPT !.slot_timeout = t, !.itdma = i] : t \in 0 .. 1, i \in BOOLEAN}
    [] p.message_id = 18 ->
         {[p EXCEPT !.slot_timeout = t, !.itdma = i, !.unit_flag = u] :
            t \in 0 .. 1, i \in BOOLEAN, u \in BOOLEAN}
    [] p.message_id = 22 -> {[p EXCEPT !.addressed = a] : a \in BOOLEAN}
    [] p.message_id = 24 -> {[p EXCEPT !.part_num = n] : n \in 0 .. 3}
    [] p.message_id = 25 ->
         {[p EXCEPT !.addressed = a, !.use_app_id = u] : a \in BOOLEAN, u \in BOOLEAN}
    [] p.message_id = 26 ->
         {[p EXCEPT !.addressed = a, !.use_app_id = u, !.itdma = i, !.slot_timeout = t] :
            a \in BOOLEAN, u \in BOOLEAN, i \in BOOLEAN, t \in 0 .. 1}
    [] OTHER -> {p}

Messages == UNION {Variants(Plain(id)) : id \in (1 .. 5) \cup {7} \cup (9 .. 27)}

(* Caller, message and application: all that are dispatched, the others    *)
(* where the callers differ, and an application that nobody knows.         *)
Applications ==
  {<< "cpp", 6, a[1], a[2] >> : a \in CppApplications6}
  \cup {<< "cpp", 8, a[1], a[2] >> : a \in CppApplications8}
  \cup {<< c, id, 2, 0 >> : c \in {"cpp", "py"}, id \in {6, 8}}
  \cup {<< "cpp", 6, 1, 5 >>, << "py", 6, 1, 5 >>, << "direct", 6, 0, 0 >>,
        << "py", 8, 200, 50 >>, << "py", 8, 200, 55 >>, << "py", 8, 367, 22 >>,
        << "cpp", 8, 366, 22 >>, << "direct", 8, 366, 22 >>, << "direct", 8, 366, 56 >>}

Binary(caller, id, dac, fi) ==
  [Plain(id) EXCEPT !.caller = caller, !.dac = dac, !.fi = fi]

BinaryMessages == {Binary(a[1], a[2], a[3], a[4]) : a \in Applications}

(* Sub-messages of one kind, and one of it among others of a known kind.   *)
SubMessages(p, kinds, known) ==
  {[p EXCEPT !.kinds = ks] :
     ks \in UNION {{<< k >>, << k, known >>, << known, k >>, << known, k, known >>} : k \in kinds}}

Areas(p) ==
  UNION {IF Range(q.kinds) \cap Poly = {} THEN {q}
         ELSE {[q EXCEPT !.points = n] : n \in 1 .. 4} :
           q \in SubMessages(p, 0 .. 7, Rect)}

Composed ==
  Areas(Binary("cpp", 8, 1, 22)) \cup Areas(Binary("direct", 8, 366, 22))
  \cup Areas(Binary("cpp", 8, 367, 22))
  \cup SubMessages(Binary("cpp", 8, 1, 26), 0 .. 15, 2)
  \cup SubMessages(Binary("cpp", 8, 367, 33), 0 .. 15, 2)
  \cup SubMessages(Binary("cpp", 6, 1, 25), 0 .. 8, 2)
  \cup {[Binary("cpp", 8, 1, 21) EXCEPT !.type_wx_report = TRUE]}

(* Room for none to three sub-messages. *)
ComposedLengths(p) ==
  CASE << p.dac, p.fi >> = << 1, 21 >> -> {60}
    [] << p.dac, p.fi >> = << 1, 22 >> -> {33, 34, 48, 62}
    [] << p.dac, p.fi >> = << 366, 22 >> -> {34, 35, 49, 64}
    [] << p.dac, p.fi >> = << 367, 22 >> -> {36, 52, 68}
    [] << p.dac, p.fi >> = << 1, 25 >> -> {17, 20, 23, 26}
    [] p.fi \in {26, 33} -> {28, 47, 66}

IsComposed(p) == p.kinds # << 0 >> \/ p.type_wx_report

LengthsOf(p) ==
  CASE ~ p.armored -> {6, 28, 71, 199}
    [] p.armored /\ p.message_id \notin {6, 8} -> Lengths
    [] p.armored /\ p.message_id \in {6, 8} /\ ~ IsComposed(p) -> BinaryLengths
    [] p.armored /\ p.message_id \in {6, 8} /\ IsComposed(p) -> ComposedLengths(p)

(* Every message in every size that is of interest for it. *)
PayloadsOf(messages) ==
  LET sizes == UNION {LengthsOf(p) : p \in messages}
      sized == {<< p, chars, pad >> \in messages \X sizes \X (0 .. 5) : chars \in LengthsOf(p)}
  IN {[s[1] EXCEPT !.chars = s[2], !.pad = s[3]] : s \in sized}

MCPayloads ==
  PayloadsOf(Messages \cup BinaryMessages \cup Composed
             \cup {[p EXCEPT !.armored = FALSE] : p \in Messages \cup BinaryMessages})

MCPayloadsUnknown == PayloadsOf({Binary("py", 8, 2, 0), Binary("py", 8, 1, 15)})

=============================================================================
