-------------------------- MODULE AisDecoderProofs --------------------------
(***************************************************************************)
(* AisDecoder keeps its cursor in the payload for every set of payloads    *)
(* and every constructor, that is for every sequence of calls: nothing is  *)
(* assumed of Calls but that each call is one of those there are.          *)
(*                                                                         *)
(* What the calls of the constructors do, for the proofs of AisDecoding:   *)
(* Leads and Halts say where calls made one after the other take cursor    *)
(* and status; a constructor Settles if it aborts exactly on the payloads  *)
(* that Unguarded names and otherwise decides the status.  Each of the     *)
(* constructors is shown to do so from its calls; the area notices and     *)
(* the environmental reports of message 8 are in AisDecodingProofs.        *)
(***************************************************************************)
EXTENDS AisDecoding, FunctionTheorems, WellFoundedInduction, TLAPS

(* The number of characters is a natural number and the number of bits     *)
(* never above six times it, for good and for refused payloads             *)
(* (ParseNmeaPayload, num_bits = num_chars * 6 - pad).                     *)
LEMMA BitsInChars ==
  ASSUME NEW p, IsPayload(p)
  PROVE  /\ NumChars(p) \in Nat
         /\ NumBits(p) \in Int
         /\ NumBits(p) <= 6 * NumChars(p)
  BY DEF IsPayload, NumChars, NumBits, Parses

(* While the constructor has not ended, the next call is a call, and what  *)
(* is left after it are calls.                                             *)
LEMMA NextCall ==
  ASSUME rest \in Seq(Call), ~ Ended
  PROVE  /\ call \in [op : OpKinds, at : Int, len : Nat, ids : SUBSET Nat, what : STRING]
         /\ call.op # "skip" => call.at \in Nat
         /\ call.op \in {"set_status", "return"} => call.what \in Given
         /\ Tail(rest) \in Seq(Call)
  <1>1. Head(rest) \in Call /\ Tail(rest) \in Seq(Call)
    BY DEF Ended
  <1>2. QED
    BY <1>1 DEF Call, call

(* The types and the bounds together are inductive: a read ends where      *)
(* InPayload lets it, a seek at less than the number of bits.              *)
Inv == TypeOK /\ CursorInPayload

(* Every constructor starts in Inv. *)
LEMMA InitInv == Init => Inv
  <1>. SUFFICES ASSUME Init PROVE Inv
    OBVIOUS
  <1>1. IsPayload(payload) /\ rest \in Seq(Call)
    BY PayloadsAreSized, CallsAreCalls DEF Init
  <1>2. TypeOK
    <2>1. fields \in Seq(Nat \X Nat)
      BY DEF Init
    <2>. QED
      BY <1>1, <2>1 DEF Init, TypeOK
  <1>3. CursorInPayload
    BY <1>1, BitsInChars DEF Init, CursorInPayload
  <1>. QED
    BY <1>2, <1>3 DEF Inv

(* Every call keeps Inv, whichever comes next. *)
LEMMA NextInv == Inv /\ [Next]_vars => Inv'
  <1>. SUFFICES ASSUME Inv, [Next]_vars PROVE Inv'
    OBVIOUS
  <1>. USE DEF Inv
  <1>1. ~ Ended => /\ call.op \in OpKinds /\ call.at \in Int /\ call.len \in Nat
                   /\ call.op # "skip" => call.at \in Nat
                   /\ call.op \in {"set_status", "return"} => call.what \in Given
                   /\ Tail(rest) \in Seq(Call)
    BY NextCall DEF TypeOK
  <1>2. NumChars(payload) \in Nat /\ NumBits(payload) \in Int
        /\ NumBits(payload) <= 6 * NumChars(payload)
    BY BitsInChars DEF TypeOK
  <1>3. CASE Read
    <2>1. ~ Ended /\ call.op \in {"read", "text", "message_id"}
      BY <1>3 DEF Read, CallTo
    <2>2. /\ call.at + call.len \in 0 .. 6 * NumChars(payload)
          /\ << call.at, call.len >> \in Nat \X Nat
      <3>1. InPayload(call.at, call.len)
        BY <1>3, <2>1 DEF Read, Holds
      <3>2. call.at \in Nat /\ call.len \in Nat
        BY <1>1, <2>1
      <3> HIDE DEF Inv
      <3>. QED
        BY <1>2, <3>1, <3>2, SMT DEF InPayload
    <2>3. fields' \in Seq(Nat \X Nat) /\ fields' = Append(fields, << call.at, call.len >>)
      BY <1>3, <2>2 DEF Read, TypeOK
    <2>4. message_id' \in Nat
      BY <1>3 DEF Read, TypeOK, IsPayload
    <2>5. TypeOK'
      BY <1>1, <1>3, <2>1, <2>2, <2>3, <2>4 DEF Read, Step, TypeOK, IsPayload
    <2>6. \A i \in DOMAIN fields' : fields'[i][1] + fields'[i][2] <= 6 * NumChars(payload)
      <3>1. /\ fields \in Seq(Nat \X Nat)
            /\ \A i \in DOMAIN fields : fields[i][1] + fields[i][2] <= 6 * NumChars(payload)
        BY DEF TypeOK, CursorInPayload
      <3>2. SUFFICES ASSUME NEW i \in DOMAIN fields'
                     PROVE  fields'[i][1] + fields'[i][2] <= 6 * NumChars(payload)
        OBVIOUS
      <3>3. fields'[i] = << call.at, call.len >> \/ (i \in DOMAIN fields /\ fields'[i] = fields[i])
        <4>1. i \in 1 .. Len(fields) + 1 /\ DOMAIN fields = 1 .. Len(fields)
          BY <2>2, <2>3, <3>1
        <4>. QED
          BY <2>2, <2>3, <3>1, <4>1
      <3>. QED
        <4>. HIDE DEF Inv
        <4>1. CASE fields'[i] = << call.at, call.len >>
          BY <2>2, <4>1
        <4>2. CASE i \in DOMAIN fields /\ fields'[i] = fields[i]
          BY <3>1, <4>2, Zenon
        <4>. QED
          BY <3>3, <4>1, <4>2
    <2>7. CursorInPayload'
      BY <1>3, <2>2, <2>6 DEF Read, Step, CursorInPayload
    <2>. QED
      BY <2>5, <2>7
  <1>4. CASE Seek
    <2>1. ~ Ended /\ call.op \in {"seek", "skip"}
      BY <1>4 DEF Seek, CallTo
    <2>2. position' \in 0 .. 6 * NumChars(payload)
      BY <1>1, <1>2, <1>4, <2>1 DEF Seek, Holds, TypeOK
    <2>3. TypeOK'
      BY <1>1, <1>4, <2>1, <2>2 DEF Seek, Step, TypeOK, IsPayload
    <2>4. CursorInPayload'
      BY <1>4, <2>2 DEF Seek, Step, CursorInPayload
    <2>. QED
      BY <2>3, <2>4
  <1>5. CASE NewBitset
    BY <1>1, <1>2, <1>5 DEF NewBitset, CallTo, Step, TypeOK, CursorInPayload, IsPayload
  <1>6. CASE AssertionHolds
    BY <1>1, <1>6 DEF AssertionHolds, CallTo, Step, TypeOK, CursorInPayload, IsPayload
  <1>7. CASE AssertionFails
    BY <1>7 DEF AssertionFails, TypeOK, CursorInPayload, IsPayload
  <1>8. CASE StatusOk
    BY <1>1, <1>8 DEF StatusOk, CallTo, Step, TypeOK, CursorInPayload, IsPayload
  <1>9. CASE StatusBad
    BY <1>9 DEF StatusBad, TypeOK, CursorInPayload, IsPayload
  <1>10. CASE GiveStatus
    <2>1. ~ Ended /\ call.op \in {"set_status", "return"}
      BY <1>10 DEF GiveStatus, CallTo
    <2>2. rest' \in Seq(Call) /\ status' \in Given
      BY <1>1, <1>10, <2>1 DEF GiveStatus
    <2>. QED
      BY <1>10, <2>2 DEF GiveStatus, TypeOK, CursorInPayload, IsPayload
  <1>11. CASE UNCHANGED vars
    BY <1>11 DEF vars, TypeOK, CursorInPayload, IsPayload
  <1>. QED
    BY <1>3, <1>4, <1>5, <1>6, <1>7, <1>8, <1>9, <1>10, <1>11 DEF Next

(* Types hold throughout every construction, for all payloads and calls.   *)
THEOREM DecoderTypes == Spec => []TypeOK
  <1>1. Inv => TypeOK
    BY DEF Inv
  <1>. QED
    BY InitInv, NextInv, <1>1, PTL DEF Spec

(* No constructor that could be written reads outside its payload, however *)
(* it is seeked about: the assertions of AisBitset are enough for it.      *)
THEOREM CursorStaysInPayload == Spec => []CursorInPayload
  <1>1. Inv => CursorInPayload
    BY DEF Inv
  <1>. QED
    BY InitInv, NextInv, <1>1, PTL DEF Spec

-----------------------------------------------------------------------------
(* Calls one after the other: where they lead and what they leave.         *)

(* The status an AisMsg begins with. *)
Undecided == "AIS_UNINITIALIZED"

(* CheckStatus() fails. *)
Bad(u) == u \notin {"AIS_OK", Undecided}

(* What message_id is once the header has been looked at. *)
MessageId(p) == IF HeaderRead(p) THEN p.message_id ELSE 0

(* How far the fields of a payload may reach. *)
Limit(p) == IF \/ p.message_id \in {25, 26} \/ Unguarded(p)
               \/ p.message_id = 15 /\ NumChars(p) = 18
            THEN 6 * NumChars(p) ELSE NumBits(p)

(* What the status of a message can be. *)
Statuses == Given \cup {Undecided}

(* A call, whatever its numbers are. *)
Shape == [op : OpKinds, at : Int, len : Int, ids : SUBSET Nat, what : Given \cup {""}]

(* The call c takes cursor and status from x and u to y and v. *)
Goes(p, c, x, u, y, v) ==
  CASE c.op \in {"read", "text", "message_id"} ->
         /\ c.at = x /\ y = x + c.len /\ y <= Limit(p) /\ v = u
         /\ c.op = "read" => c.len <= 32
         /\ c.op = "text" => c.len % 6 = 0
         /\ c.op = "message_id" => HeaderRead(p)
    [] c.op = "seek" -> y = c.at /\ y < NumBits(p) /\ v = u
    [] c.op = "skip" -> y = x + c.at /\ y \in 0 .. NumBits(p) - 1 /\ v = u
    [] c.op = "new_bitset" -> y = 0 /\ v = u
    [] c.op = "none_remaining" -> x = NumBits(p) /\ y = x /\ v = u
    [] c.op = "remaining_below" -> NumBits(p) - x < c.len /\ y = x /\ v = u
    [] c.op = "id" -> MessageId(p) \in c.ids /\ y = x /\ v = u
    [] c.op = "check_status" -> ~ Bad(u) /\ y = x /\ v = u
    [] c.op = "set_status" -> y = x /\ v = c.what
    [] OTHER -> FALSE

(* The call c is the last one, and v what comes of it. *)
Stops(p, c, x, u, v) ==
  CASE c.op = "return" -> v = c.what
    [] c.op = "check_status" -> Bad(u) /\ v = u
    [] c.op \in {"read", "text"} ->
         (c.at # x \/ c.at + c.len > 6 * NumChars(p)) /\ v = "aborted"
    [] c.op = "seek" -> c.at >= NumBits(p) /\ v = "aborted"
    [] c.op = "none_remaining" -> x # NumBits(p) /\ v = "aborted"
    [] c.op = "id" -> MessageId(p) \notin c.ids /\ v = "aborted"
    [] c.op = "assert_false" -> v = "aborted"
    [] OTHER -> FALSE

(* The first k calls of s, one after the other. *)
Reach(p, s, k, x, u, y, v) ==
  \E f \in [0 .. k -> Int], g \in [0 .. k -> Statuses] :
    /\ f[0] = x /\ g[0] = u /\ f[k] = y /\ g[k] = v
    /\ \A i \in 1 .. k : Goes(p, s[i], f[i - 1], g[i - 1], f[i], g[i])

(* All the calls of s. *)
Leads(p, s, x, u, y, v) == s \in Seq(Shape) /\ Reach(p, s, Len(s), x, u, y, v)

(* Some of the calls of s, and a last one. *)
Halts(p, s, x, u, v) ==
  /\ s \in Seq(Shape)
  /\ \E k \in 0 .. Len(s) - 1, y \in Int, w \in Statuses :
       Reach(p, s, k, x, u, y, w) /\ Stops(p, s[k + 1], y, w, v)

(* The calls of s end: by the last call made, or by there being no more. *)
Ends(p, s, x, u, v) ==
  Halts(p, s, x, u, v) \/ \E y \in Int : Leads(p, s, x, u, y, v)

-----------------------------------------------------------------------------

(* The bits and the limit of a payload are at most those of its            *)
(* characters.                                                             *)
LEMMA PayloadBits ==
  ASSUME NEW p, IsPayload(p)
  PROVE  /\ NumChars(p) \in Nat /\ NumBits(p) \in Int /\ NumBits(p) <= 6 * NumChars(p)
         /\ Limit(p) \in Int /\ NumBits(p) <= Limit(p) /\ Limit(p) <= 6 * NumChars(p)
  BY DEF IsPayload, NumChars, NumBits, Parses, Limit

(* Two sequences of calls, one after the other. *)
LEMMA Joined ==
  ASSUME NEW s \in Seq(Shape), NEW t \in Seq(Shape)
  PROVE  /\ s \o t \in Seq(Shape) /\ Len(s \o t) = Len(s) + Len(t)
         /\ Len(s) \in Nat /\ Len(t) \in Nat
         /\ \A i \in 1 .. Len(s) : (s \o t)[i] = s[i]
         /\ \A i \in 1 .. Len(t) : (s \o t)[Len(s) + i] = t[i]
<1> DEFINE S == Shape
<1> HIDE DEF S
<1>1. s \in Seq(S) /\ t \in Seq(S)
  BY DEF S
<1>2. /\ s \o t \in Seq(S) /\ Len(s \o t) = Len(s) + Len(t)
      /\ Len(s) \in Nat /\ Len(t) \in Nat
      /\ \A i \in 1 .. Len(s) : (s \o t)[i] = s[i]
      /\ \A i \in 1 .. Len(t) : (s \o t)[Len(s) + i] = t[i]
  BY <1>1
<1> QED
  BY <1>2 DEF S

(* Reach is between cursors and statuses. *)
LEMMA ReachTyped ==
  ASSUME NEW p, NEW s, NEW k \in Nat, NEW x, NEW u, NEW y, NEW v, Reach(p, s, k, x, u, y, v)
  PROVE  x \in Int /\ u \in Statuses /\ y \in Int /\ v \in Statuses
  BY DEF Reach

(* No call leads nowhere. *)
LEMMA ReachNone ==
  ASSUME NEW p, NEW s, NEW x \in Int, NEW u \in Statuses
  PROVE  Reach(p, s, 0, x, u, x, u)
<1> DEFINE f == [i \in 0 .. 0 |-> x]
           g == [i \in 0 .. 0 |-> u]
<1>0. 0 \in 0 .. 0
  OBVIOUS
<1>1. f \in [0 .. 0 -> Int] /\ g \in [0 .. 0 -> Statuses]
  OBVIOUS
<1>2. f[0] = x /\ g[0] = u
  BY <1>0
<1> HIDE DEF f, g
<1>3. \A i \in 1 .. 0 : Goes(p, s[i], f[i - 1], g[i - 1], f[i], g[i])
  OBVIOUS
<1> QED
  BY <1>1, <1>2, <1>3 DEF Reach

(* Paths may be joined. *)
LEMMA ReachJoin ==
  ASSUME NEW p, NEW s, NEW t, NEW r, NEW j \in Nat, NEW k \in Nat,
         NEW x, NEW u, NEW y, NEW v, NEW z, NEW w,
         Reach(p, s, j, x, u, y, v), Reach(p, t, k, y, v, z, w),
         \A i \in 1 .. j : r[i] = s[i],
         \A i \in 1 .. k : r[j + i] = t[i]
  PROVE  Reach(p, r, j + k, x, u, z, w)
<1>1. PICK f \in [0 .. j -> Int], g \in [0 .. j -> Statuses] :
        /\ f[0] = x /\ g[0] = u /\ f[j] = y /\ g[j] = v
        /\ \A i \in 1 .. j : Goes(p, s[i], f[i - 1], g[i - 1], f[i], g[i])
  BY DEF Reach
<1>2. PICK f2 \in [0 .. k -> Int], g2 \in [0 .. k -> Statuses] :
        /\ f2[0] = y /\ g2[0] = v /\ f2[k] = z /\ g2[k] = w
        /\ \A i \in 1 .. k : Goes(p, t[i], f2[i - 1], g2[i - 1], f2[i], g2[i])
  BY DEF Reach
<1> DEFINE h == [i \in 0 .. j + k |-> IF i <= j THEN f[i] ELSE f2[i - j]]
           h2 == [i \in 0 .. j + k |-> IF i <= j THEN g[i] ELSE g2[i - j]]
<1>3. \A i \in 0 .. j : h[i] = f[i] /\ h2[i] = g[i]
  OBVIOUS
<1>4. ASSUME NEW i \in 0 .. k PROVE h[j + i] = f2[i] /\ h2[j + i] = g2[i]
  <2>1. CASE i = 0
    <3>1. j \in 0 .. j /\ j + i = j
      BY <2>1
    <3> HIDE DEF h, h2
    <3> QED
      BY <1>1, <1>2, <1>3, <2>1, <3>1
  <2>2. CASE i # 0
    <3>1. j + i \in 0 .. j + k /\ ~ (j + i <= j) /\ (j + i) - j = i
      BY <2>2
    <3> QED
      BY <3>1
  <2> QED
    BY <2>1, <2>2
<1>5. h \in [0 .. j + k -> Int] /\ h2 \in [0 .. j + k -> Statuses]
  OBVIOUS
<1> HIDE DEF h, h2
<1>6. ASSUME NEW i \in 1 .. j + k
      PROVE  Goes(p, r[i], h[i - 1], h2[i - 1], h[i], h2[i])
  <2>1. CASE i <= j
    <3>1. i \in 1 .. j /\ i - 1 \in 0 .. j /\ i \in 0 .. j
      BY <2>1
    <3> QED
      BY <1>1, <1>3, <3>1
  <2>2. CASE i > j
    <3> DEFINE e == i - j
    <3>1. e \in 1 .. k /\ e - 1 \in 0 .. k /\ e \in 0 .. k /\ i = j + e /\ i - 1 = j + (e - 1)
      BY <2>2
    <3> HIDE DEF e
    <3>2. Goes(p, t[e], f2[e - 1], g2[e - 1], f2[e], g2[e])
      BY <1>2, <3>1
    <3>3. r[i] = t[e] /\ h[i] = f2[e] /\ h2[i] = g2[e] /\ h[i - 1] = f2[e - 1] /\ h2[i - 1] = g2[e - 1]
      BY <1>4, <3>1
    <3> QED
      BY <3>2, <3>3
  <2> QED
    BY <2>1, <2>2
<1>7. h[0] = x /\ h2[0] = u /\ h[j + k] = z /\ h2[j + k] = w
  <2>1. 0 \in 0 .. j /\ k \in 0 .. k
    OBVIOUS
  <2> QED
    BY <1>1, <1>2, <1>3, <1>4, <2>1
<1> QED
  BY <1>5, <1>6, <1>7 DEF Reach

(* A path of at least one call, from its second call on. *)
LEMMA ReachTail ==
  ASSUME NEW p, NEW s \in Seq(Shape), NEW k \in 1 .. Len(s), NEW x, NEW u, NEW y, NEW v,
         Reach(p, s, k, x, u, y, v)
  PROVE  \E z \in Int, w \in Statuses :
           Goes(p, s[1], x, u, z, w) /\ Reach(p, Tail(s), k - 1, z, w, y, v)
<1>1. PICK f \in [0 .. k -> Int], g \in [0 .. k -> Statuses] :
        /\ f[0] = x /\ g[0] = u /\ f[k] = y /\ g[k] = v
        /\ \A i \in 1 .. k : Goes(p, s[i], f[i - 1], g[i - 1], f[i], g[i])
  BY DEF Reach
<1>0. k \in Nat /\ k >= 1 /\ k <= Len(s) /\ Len(s) \in Nat
  OBVIOUS
<1> DEFINE h == [i \in 0 .. k - 1 |-> f[i + 1]]
           h2 == [i \in 0 .. k - 1 |-> g[i + 1]]
<1>2. /\ h \in [0 .. k - 1 -> Int] /\ h2 \in [0 .. k - 1 -> Statuses]
      /\ \A i \in 0 .. k - 1 : h[i] = f[i + 1] /\ h2[i] = g[i + 1]
  BY <1>0
<1> HIDE DEF h, h2
<1>3. \A i \in 1 .. k - 1 : Tail(s)[i] = s[i + 1]
  BY <1>0
<1>4. ASSUME NEW i \in 1 .. k - 1
      PROVE  Goes(p, Tail(s)[i], h[i - 1], h2[i - 1], h[i], h2[i])
  <2>1. i + 1 \in 1 .. k /\ i - 1 \in 0 .. k - 1 /\ i \in 0 .. k - 1
        /\ (i + 1) - 1 = i /\ (i - 1) + 1 = i
    BY <1>0
  <2>2. Goes(p, s[i + 1], f[i], g[i], f[i + 1], g[i + 1])
    BY <1>1, <2>1
  <2> QED
    BY <1>2, <1>3, <2>1, <2>2
<1>5. h[0] = f[1] /\ h2[0] = g[1] /\ h[k - 1] = y /\ h2[k - 1] = v
      /\ f[1] \in Int /\ g[1] \in Statuses
  <2>1. 0 \in 0 .. k - 1 /\ k - 1 \in 0 .. k - 1 /\ 1 \in 0 .. k /\ 0 + 1 = 1 /\ (k - 1) + 1 = k
    BY <1>0
  <2> QED
    BY <1>1, <1>2, <2>1
<1>6. Goes(p, s[1], x, u, f[1], g[1])
  <2>1. 1 \in 1 .. k /\ 1 - 1 = 0
    BY <1>0
  <2> QED
    BY <1>1, <2>1
<1>7. Reach(p, Tail(s), k - 1, f[1], g[1], y, v)
  BY <1>2, <1>4, <1>5 DEF Reach
<1> QED
  BY <1>5, <1>6, <1>7

(* One call after the other. *)
LEMMA LeadsThenLeads ==
  ASSUME NEW p, NEW s, NEW t, NEW x, NEW u, NEW y, NEW v, NEW z, NEW w,
         Leads(p, s, x, u, y, v), Leads(p, t, y, v, z, w)
  PROVE  Leads(p, s \o t, x, u, z, w)
<1>1. s \in Seq(Shape) /\ t \in Seq(Shape)
  BY DEF Leads
<1> DEFINE r == s \o t
<1>2. /\ r \in Seq(Shape) /\ Len(r) = Len(s) + Len(t)
      /\ Len(s) \in Nat /\ Len(t) \in Nat
      /\ \A i \in 1 .. Len(s) : r[i] = s[i]
      /\ \A i \in 1 .. Len(t) : r[Len(s) + i] = t[i]
  BY <1>1, Joined
<1> HIDE DEF r
<1>3. Reach(p, s, Len(s), x, u, y, v) /\ Reach(p, t, Len(t), y, v, z, w)
  BY DEF Leads
<1>4. Reach(p, r, Len(s) + Len(t), x, u, z, w)
  BY <1>2, <1>3, ReachJoin
<1> QED
  BY <1>2, <1>4 DEF Leads, r

(* Calls that lead to those that end the constructor. *)
LEMMA LeadsThenHalts ==
  ASSUME NEW p, NEW s, NEW t, NEW x, NEW u, NEW y, NEW v, NEW w,
         Leads(p, s, x, u, y, v), Halts(p, t, y, v, w)
  PROVE  Halts(p, s \o t, x, u, w)
<1>1. s \in Seq(Shape) /\ t \in Seq(Shape)
  BY DEF Leads, Halts
<1>2. PICK k \in 0 .. Len(t) - 1, z \in Int, e \in Statuses :
        Reach(p, t, k, y, v, z, e) /\ Stops(p, t[k + 1], z, e, w)
  BY DEF Halts
<1> DEFINE r == s \o t
           n == Len(s)
<1>3. /\ r \in Seq(Shape) /\ Len(r) = n + Len(t)
      /\ n \in Nat /\ Len(t) \in Nat
      /\ \A i \in 1 .. n : r[i] = s[i]
      /\ \A i \in 1 .. Len(t) : r[n + i] = t[i]
  BY <1>1, Joined
<1>4. Reach(p, s, n, x, u, y, v)
  BY DEF Leads
<1> HIDE DEF r, n
<1>5. /\ k \in Nat /\ k + 1 \in 1 .. Len(t) /\ (n + k) + 1 = n + (k + 1)
      /\ n + k \in 0 .. Len(r) - 1
      /\ \A i \in 1 .. k : i \in 1 .. Len(t)
  BY <1>3
<1>6. Reach(p, r, n + k, x, u, z, e)
  <2>1. \A i \in 1 .. k : r[n + i] = t[i]
    BY <1>3, <1>5
  <2>2. n \in Nat /\ k \in Nat /\ Reach(p, t, k, y, v, z, e)
        /\ \A i \in 1 .. n : r[i] = s[i]
    BY <1>2, <1>3, <1>5
  <2> QED
    BY <1>4, <2>1, <2>2, ReachJoin
<1>7. Stops(p, r[(n + k) + 1], z, e, w)
  <2>1. r[n + (k + 1)] = t[k + 1]
    BY <1>3, <1>5
  <2> QED
    BY <1>2, <1>5, <2>1
<1>8. Halts(p, r, x, u, w)
  <2>1. n + k \in 0 .. Len(r) - 1 /\ z \in Int /\ e \in Statuses /\ r \in Seq(Shape)
    BY <1>3, <1>5
  <2> QED
    BY <1>6, <1>7, <2>1 DEF Halts
<1> QED
  BY <1>8 DEF r

(* Calls after the last one are not made. *)
LEMMA HaltsThen ==
  ASSUME NEW p, NEW s, NEW t \in Seq(Shape), NEW x, NEW u, NEW v, Halts(p, s, x, u, v)
  PROVE  Halts(p, s \o t, x, u, v)
<1>1. s \in Seq(Shape)
  BY DEF Halts
<1>2. PICK k \in 0 .. Len(s) - 1, z \in Int, e \in Statuses :
        Reach(p, s, k, x, u, z, e) /\ Stops(p, s[k + 1], z, e, v)
  BY DEF Halts
<1> DEFINE r == s \o t
<1>3. /\ r \in Seq(Shape) /\ Len(r) = Len(s) + Len(t)
      /\ Len(s) \in Nat /\ Len(t) \in Nat
      /\ \A i \in 1 .. Len(s) : r[i] = s[i]
  BY <1>1, Joined
<1> HIDE DEF r
<1>4. k \in Nat /\ k + 1 \in 1 .. Len(s) /\ k \in 0 .. Len(r) - 1
      /\ \A i \in 1 .. k : i \in 1 .. Len(s)
  BY <1>3
<1>5. Reach(p, r, k, x, u, z, e)
  BY <1>2, <1>3, <1>4 DEF Reach
<1>6. Halts(p, r, x, u, v)
  BY <1>2, <1>3, <1>4, <1>5 DEF Halts
<1> QED
  BY <1>6 DEF r

(* Calls in a state that is still undecided. *)
Runs(p, s, x, y) == Leads(p, s, x, Undecided, y, Undecided)

(* The calls of s decide the status: a return, or the end with AIS_OK set. *)
Gives(p, s, x, v) == Halts(p, s, x, Undecided, v)

(* A call that goes on. *)
LEMMA OneLeads ==
  ASSUME NEW p, NEW c \in Shape, NEW x \in Int, NEW u \in Statuses,
         NEW y \in Int, NEW v \in Statuses, Goes(p, c, x, u, y, v)
  PROVE  Leads(p, << c >>, x, u, y, v)
<1> DEFINE f == [i \in 0 .. 1 |-> IF i = 0 THEN x ELSE y]
           g == [i \in 0 .. 1 |-> IF i = 0 THEN u ELSE v]
           s == << c >>
<1>1. f \in [0 .. 1 -> Int] /\ g \in [0 .. 1 -> Statuses]
  OBVIOUS
<1>6. f[0] = x /\ g[0] = u /\ f[1] = y /\ g[1] = v
  OBVIOUS
<1>2. s \in Seq(Shape) /\ Len(s) = 1 /\ s[1] = c
  OBVIOUS
<1> HIDE DEF f, g, s
<1>3. \A i \in 1 .. 1 : Goes(p, s[i], f[i - 1], g[i - 1], f[i], g[i])
  <2>1. \A i \in 1 .. 1 : i = 1 /\ i - 1 = 0
    OBVIOUS
  <2> QED
    BY <1>2, <1>6, <2>1
<1>4. Reach(p, s, 1, x, u, y, v)
  BY <1>1, <1>3, <1>6 DEF Reach
<1>5. Leads(p, s, x, u, y, v)
  BY <1>2, <1>4 DEF Leads
<1> QED
  BY <1>5 DEF s

(* A call that ends the constructor. *)
LEMMA OneHalts ==
  ASSUME NEW p, NEW c \in Shape, NEW x \in Int, NEW u \in Statuses, NEW v,
         Stops(p, c, x, u, v)
  PROVE  Halts(p, << c >>, x, u, v)
<1> DEFINE s == << c >>
<1>1. s \in Seq(Shape) /\ 0 \in 0 .. Len(s) - 1 /\ s[0 + 1] = c
  OBVIOUS
<1> HIDE DEF s
<1>2. Reach(p, s, 0, x, u, x, u)
  BY ReachNone
<1>3. Halts(p, s, x, u, v)
  BY <1>1, <1>2 DEF Halts
<1> QED
  BY <1>3 DEF s

(* Fields one after the other from bit y up to bit z, none of them too     *)
(* long for a read.                                                        *)
Within(z) == {f \in Int \X Int : f[2] \in 0 .. 32 /\ f[1] + f[2] <= z}

(* Fields that follow each other from y to z, each of at most 32 bits. *)
Tiles(F, y, z) ==
  /\ F \in Seq(Within(z)) /\ Len(F) > 0
  /\ F[1][1] = y
  /\ \A i \in 1 .. Len(F) - 1 : F[i + 1][1] = F[i][1] + F[i][2]
  /\ F[Len(F)][1] + F[Len(F)][2] = z

(* Op makes calls. *)
LEMMA OpShape ==
  ASSUME NEW op \in OpKinds, NEW at \in Int, NEW len \in Int
  PROVE  /\ Op(op, at, len) \in Shape
         /\ Op(op, at, len).op = op /\ Op(op, at, len).at = at /\ Op(op, at, len).len = len
<1>1. {} \in SUBSET Nat
  OBVIOUS
<1> QED
  BY <1>1 DEF Op, Shape

(* Reads makes one call of every field. *)
LEMMA ReadsShape ==
  ASSUME NEW F, F \in Seq(Int \X Int)
  PROVE  /\ Reads(F) \in Seq(Shape) /\ Len(Reads(F)) = Len(F) /\ Len(F) \in Nat
         /\ \A i \in 1 .. Len(F) : /\ Reads(F)[i] \in Shape
                                   /\ Reads(F)[i].op = "read"
                                   /\ Reads(F)[i].at = F[i][1]
                                   /\ Reads(F)[i].len = F[i][2]
<1> DEFINE r == Reads(F)
<1>1. Len(F) \in Nat /\ DOMAIN F = 1 .. Len(F)
  OBVIOUS
<1>2. r = [i \in 1 .. Len(F) |-> Op("read", F[i][1], F[i][2])]
  BY <1>1 DEF Reads
<1>3. ASSUME NEW i \in 1 .. Len(F)
      PROVE  r[i] \in Shape /\ r[i].op = "read" /\ r[i].at = F[i][1] /\ r[i].len = F[i][2]
  <2>1. F[i][1] \in Int /\ F[i][2] \in Int
    BY <1>1
  <2>2. r[i] = Op("read", F[i][1], F[i][2])
    BY <1>2
  <2> QED
    <3>1. "read" \in OpKinds
      BY DEF OpKinds
    <3> HIDE DEF r
    <3> QED
      BY <2>1, <2>2, <3>1, OpShape
<1> HIDE DEF r
<1>4. r \in [1 .. Len(F) -> Shape]
  BY <1>2, <1>3
<1>5. r \in Seq(Shape) /\ Len(r) = Len(F)
  <2> DEFINE S == Shape
             n == Len(F)
  <2> HIDE DEF S, n
  <2>1. r \in [1 .. n -> S] /\ n \in Nat
    BY <1>1, <1>4 DEF S, n
  <2>2. r \in Seq(S) /\ Len(r) = n
    BY <2>1
  <2> QED
    BY <2>2 DEF S, n
<1> QED
  BY <1>1, <1>3, <1>5 DEF r

(* Fields that follow each other are read one after the other. *)
LEMMA ReadsRun ==
  ASSUME NEW p, IsPayload(p), NEW F, NEW y \in Int, NEW z \in Int, Tiles(F, y, z),
         z <= Limit(p)
  PROVE  Runs(p, Reads(F), y, z)
<1>1. /\ F \in Seq(Int \X Int) /\ Len(F) \in Nat /\ Len(F) >= 1
      /\ \A i \in 1 .. Len(F) : /\ F[i][1] \in Int /\ F[i][2] \in 0 .. 32
                                /\ F[i][1] + F[i][2] <= z
  BY SMTT(60) DEF Tiles, Within
<1> DEFINE n == Len(F)
           r == Reads(F)
           f == [i \in 0 .. n |-> IF i = 0 THEN y ELSE F[i][1] + F[i][2]]
           g == [i \in 0 .. n |-> Undecided]
<1>2. f \in [0 .. n -> Int]
  BY <1>1
<1>3. g \in [0 .. n -> Statuses]
  <2>1. Undecided \in Statuses
    BY DEF Statuses
  <2> HIDE DEF n
  <2> QED
    BY <2>1
<1>4. /\ f[0] = y /\ f[n] = z /\ g[0] = Undecided /\ g[n] = Undecided
      /\ \A i \in 1 .. n : /\ f[i] = F[i][1] + F[i][2] /\ f[i - 1] = F[i][1]
                           /\ g[i] = Undecided /\ g[i - 1] = Undecided
  <2>1. f[0] = y /\ g[0] = Undecided /\ g[n] = Undecided
    BY <1>1
  <2>2. f[n] = z
    BY <1>1 DEF Tiles
  <2>3. ASSUME NEW i \in 1 .. n
        PROVE  f[i] = F[i][1] + F[i][2] /\ g[i] = Undecided /\ g[i - 1] = Undecided
    BY <1>1
  <2>4. ASSUME NEW i \in 1 .. n PROVE f[i - 1] = F[i][1]
    <3>1. CASE i = 1
      BY <1>1, <3>1 DEF Tiles
    <3>2. CASE i # 1
      <4>1. i - 1 \in 1 .. Len(F) - 1 /\ (i - 1) + 1 = i /\ i - 1 # 0 /\ i - 1 \in 0 .. n
        BY <1>1, <3>2
      <4>2. F[i][1] = F[i - 1][1] + F[i - 1][2]
        BY <4>1 DEF Tiles
      <4> QED
        BY <4>1, <4>2
    <3> QED
      BY <3>1, <3>2
  <2> QED
    BY <2>1, <2>2, <2>3, <2>4
<1>5. /\ r \in Seq(Shape) /\ Len(r) = n
      /\ \A i \in 1 .. n : r[i].op = "read" /\ r[i].at = F[i][1] /\ r[i].len = F[i][2]
  BY <1>1, ReadsShape
<1>6. Limit(p) \in Int
  BY PayloadBits
<1> HIDE DEF f, g, n, r
<1>7. ASSUME NEW i \in 1 .. n
      PROVE  Goes(p, r[i], f[i - 1], g[i - 1], f[i], g[i])
  <2>1. r[i].op = "read" /\ r[i].at = f[i - 1] /\ f[i] = f[i - 1] + r[i].len
        /\ r[i].len <= 32 /\ g[i] = g[i - 1]
    <3>1. F[i][1] \in Int /\ F[i][2] \in 0 .. 32
      BY <1>1 DEF n
    <3>2. f[i] = F[i][1] + F[i][2] /\ f[i - 1] = F[i][1] /\ g[i] = g[i - 1]
      BY <1>4
    <3>3. r[i].op = "read" /\ r[i].at = F[i][1] /\ r[i].len = F[i][2]
      BY <1>5
    <3> QED
      BY <3>1, <3>2, <3>3
  <2>2. f[i] <= Limit(p)
    <3>1. F[i][1] \in Int /\ F[i][2] \in 0 .. 32 /\ F[i][1] + F[i][2] <= z
      BY <1>1 DEF n
    <3>2. f[i] = F[i][1] + F[i][2]
      BY <1>4
    <3> QED
      BY <1>6, <3>1, <3>2
  <2> QED
    BY <2>1, <2>2 DEF Goes
<1>8. Reach(p, r, n, y, Undecided, z, Undecided)
  BY <1>2, <1>3, <1>4, <1>7 DEF Reach
<1> QED
  BY <1>5, <1>8 DEF Runs, Leads, r

(* Runs is of calls, and between cursors. *)
LEMMA RunsTyped ==
  ASSUME NEW p, NEW s, NEW x, NEW y, Runs(p, s, x, y)
  PROVE  s \in Seq(Shape) /\ x \in Int /\ y \in Int
<1>1. s \in Seq(Shape) /\ Reach(p, s, Len(s), x, Undecided, y, Undecided)
  BY DEF Runs, Leads
<1> QED
  BY <1>1, ReachTyped

(* s, then some fields. *)
LEMMA ThenReads ==
  ASSUME NEW p, IsPayload(p), NEW s, NEW x, NEW y, Runs(p, s, x, y),
         NEW F, NEW z \in Int, Tiles(F, y, z), z <= Limit(p)
  PROVE  Runs(p, s \o Reads(F), x, z)
<1>1. Runs(p, Reads(F), y, z)
  BY RunsTyped, ReadsRun
<1> QED
  BY <1>1, LeadsThenLeads DEF Runs

(* One call more. *)
LEMMA ThenOne ==
  ASSUME NEW p, NEW s, NEW x, NEW y, Runs(p, s, x, y),
         NEW c \in Shape, NEW z \in Int, Goes(p, c, y, Undecided, z, Undecided)
  PROVE  Runs(p, s \o << c >>, x, z)
<1>1. y \in Int /\ Undecided \in Statuses
  BY RunsTyped DEF Statuses
<1>2. Leads(p, << c >>, y, Undecided, z, Undecided)
  BY <1>1, OneLeads
<1> QED
  BY <1>2, LeadsThenLeads DEF Runs

(* A text more (ToString). *)
LEMMA ThenText ==
  ASSUME NEW p, IsPayload(p), NEW s, NEW x, NEW y, Runs(p, s, x, y),
         NEW len \in Nat, len % 6 = 0, y + len <= Limit(p)
  PROVE  Runs(p, s \o Text(y, len), x, y + len)
<1> DEFINE c == Op("text", y, len)
<1>1. y \in Int /\ "text" \in OpKinds /\ len \in Int
  BY RunsTyped DEF OpKinds
<1>2. c \in Shape /\ c.op = "text" /\ c.at = y /\ c.len = len
  BY <1>1, OpShape
<1> HIDE DEF c
<1>3. Goes(p, c, y, Undecided, y + len, Undecided)
  BY <1>2 DEF Goes
<1> QED
  BY <1>1, <1>2, <1>3, ThenOne DEF Text, c

(* A position more (ToAisPoint). *)
LEMMA ThenPoint ==
  ASSUME NEW p, IsPayload(p), NEW s, NEW x, NEW y, Runs(p, s, x, y),
         NEW size, size = 35 \/ size = 49 \/ size = 55, y + size <= Limit(p)
  PROVE  Runs(p, s \o Point(y, size), x, y + size)
<1> DEFINE n == LongitudeBits(size)
           F == << << y, n >>, << y + n, size - n >> >>
<1>1. y \in Int /\ size \in Int /\ n \in 0 .. 32 /\ size - n \in 0 .. 32
  BY RunsTyped DEF LongitudeBits
<1> HIDE DEF n
<1>2. Tiles(F, y, y + size)
  BY <1>1 DEF Tiles, Within
<1> HIDE DEF F
<1>3. Runs(p, s \o Reads(F), x, y + size)
  BY <1>1, <1>2, ThenReads
<1> QED
  BY <1>3 DEF Point, F, n

(* An absolute seek more (SeekTo). *)
LEMMA ThenSeek ==
  ASSUME NEW p, NEW s, NEW x, NEW y, Runs(p, s, x, y),
         NEW at \in Nat, at < NumBits(p)
  PROVE  Runs(p, s \o SeekTo(at), x, at)
<1> DEFINE c == Op("seek", at, 0)
<1>1. c \in Shape /\ c.op = "seek" /\ c.at = at
  BY OpShape DEF OpKinds
<1> HIDE DEF c
<1>2. Goes(p, c, y, Undecided, at, Undecided)
  BY <1>1 DEF Goes
<1> QED
  BY <1>1, <1>2, ThenOne DEF SeekTo, c

(* A relative seek more (SeekRelative). *)
LEMMA ThenSkip ==
  ASSUME NEW p, NEW s, NEW x, NEW y, Runs(p, s, x, y),
         NEW d \in Int, y + d \in 0 .. NumBits(p) - 1
  PROVE  Runs(p, s \o SeekRelative(d), x, y + d)
<1> DEFINE c == Op("skip", d, 0)
<1>1. c \in Shape /\ c.op = "skip" /\ c.at = d /\ y \in Int
  BY OpShape, RunsTyped DEF OpKinds
<1> HIDE DEF c
<1>2. Goes(p, c, y, Undecided, y + d, Undecided)
  BY <1>1 DEF Goes
<1> QED
  BY <1>1, <1>2, ThenOne DEF SeekRelative, c

(* A return with a status more. *)
LEMMA ThenReturn ==
  ASSUME NEW p, NEW s, NEW x, NEW y, Runs(p, s, x, y), NEW v \in Given
  PROVE  Gives(p, s \o Return(v), x, v)
<1> DEFINE c == [Op("return", 0, 0) EXCEPT !.what = v]
<1>1. y \in Int /\ Undecided \in Statuses
  BY RunsTyped DEF Statuses
<1>2. c \in Shape /\ c.op = "return" /\ c.what = v
  <2>1. Op("return", 0, 0) \in Shape /\ Op("return", 0, 0).op = "return"
    BY OpShape DEF OpKinds
  <2> QED
    BY <2>1 DEF Shape
<1> HIDE DEF c
<1>3. Stops(p, c, y, Undecided, v)
  BY <1>2 DEF Stops
<1>4. Halts(p, << c >>, y, Undecided, v)
  BY <1>1, <1>2, <1>3, OneHalts
<1> QED
  BY <1>4, LeadsThenHalts DEF Runs, Gives, Return, c

(* assert(bits.GetRemaining() == 0); status = AIS_OK; *)
LEMMA ThenEnd ==
  ASSUME NEW p, NEW s, NEW x, Runs(p, s, x, NumBits(p))
  PROVE  Gives(p, s \o NoneRemaining \o Ok, x, "AIS_OK")
<1> DEFINE c == Op("none_remaining", 0, 0)
           n == NumBits(p)
<1>1. c \in Shape /\ c.op = "none_remaining" /\ n \in Int
  BY OpShape, RunsTyped DEF OpKinds
<1> HIDE DEF c
<1>2. Goes(p, c, n, Undecided, n, Undecided)
  BY <1>1 DEF Goes
<1>3. Runs(p, s \o NoneRemaining, x, n)
  BY <1>1, <1>2, ThenOne DEF NoneRemaining, c
<1>4. "AIS_OK" \in Given
  BY DEF Given
<1> QED
  BY <1>3, <1>4, ThenReturn DEF Ok

(* The header is read: the constructor of a message id starts. *)
LEMMA Start ==
  ASSUME NEW p, IsPayload(p), HeaderRead(p), NEW ids \in SUBSET Nat, p.message_id \in ids,
         NumBits(p) > 38
  PROVE  Runs(p, IdIn(ids) \o SeekTo(38), 38, 38)
<1> DEFINE c == [Op("id", 0, 0) EXCEPT !.ids = ids]
<1>1. c \in Shape /\ c.op = "id" /\ c.ids = ids
  <2>1. Op("id", 0, 0) \in Shape /\ Op("id", 0, 0).op = "id"
    BY OpShape DEF OpKinds
  <2> QED
    BY <2>1 DEF Shape
<1>2. Undecided \in Statuses /\ MessageId(p) \in ids
  BY DEF Statuses, MessageId
<1> HIDE DEF c
<1>3. Goes(p, c, 38, Undecided, 38, Undecided)
  BY <1>1, <1>2 DEF Goes
<1>4. Runs(p, << c >>, 38, 38)
  BY <1>1, <1>2, <1>3, OneLeads DEF Runs
<1>5. Runs(p, << c >> \o SeekTo(38), 38, 38)
  BY <1>4, ThenSeek
<1> QED
  BY <1>5 DEF IdIn, c

(* if (!CheckStatus()) return; in a state that is undecided. *)
LEMMA Passes ==
  ASSUME NEW p, NEW x \in Int, NEW t, NEW v, Gives(p, t, x, v)
  PROVE  Gives(p, CheckStatus \o t, x, v)
<1> DEFINE c == Op("check_status", 0, 0)
<1>1. c \in Shape /\ c.op = "check_status" /\ Undecided \in Statuses /\ ~ Bad(Undecided)
  BY OpShape DEF OpKinds, Statuses, Bad
<1> HIDE DEF c
<1>2. Goes(p, c, x, Undecided, x, Undecided)
  BY <1>1 DEF Goes
<1>3. Leads(p, << c >>, x, Undecided, x, Undecided)
  BY <1>1, <1>2, OneLeads
<1> QED
  BY <1>3, LeadsThenHalts DEF Gives, CheckStatus, c

(* A constructor that gives up on a bad length. *)
LEMMA GuardedGives ==
  ASSUME NEW p, NEW x \in Int, NEW length_ok \in BOOLEAN, NEW calls,
         length_ok => \E v \in Given : Gives(p, calls, x, v)
  PROVE  \E v \in Given : Gives(p, Guarded(length_ok, calls), x, v)
<1>1. CASE length_ok
  BY <1>1, Passes DEF Guarded
<1>2. CASE ~ length_ok
  <2> DEFINE e == "AIS_ERR_BAD_BIT_COUNT"
             c == [Op("return", 0, 0) EXCEPT !.what = e]
  <2>1. e \in Given /\ Undecided \in Statuses
    BY DEF Given, Errors, Statuses
  <2> HIDE DEF e
  <2>2. c \in Shape /\ c.op = "return" /\ c.what = e
    <3>1. Op("return", 0, 0) \in Shape /\ Op("return", 0, 0).op = "return"
      BY OpShape DEF OpKinds
    <3> QED
      BY <2>1, <3>1 DEF Shape
  <2> HIDE DEF c
  <2>3. Gives(p, << c >>, x, e)
    BY <2>1, <2>2, OneHalts DEF Stops, Gives
  <2>4. Gives(p, CheckStatus \o << c >>, x, e)
    BY <2>3, Passes
  <2> QED
    BY <1>2, <2>1, <2>4 DEF Guarded, BadBitCount, Return, c, e
<1> QED
  BY <1>1, <1>2

-----------------------------------------------------------------------------
(* for (size_t i = 0; i < n; i++) *)

(* The order that the naturals are well-founded in. *)
Less == {e \in Nat \X Nat : e[1] < e[2]}

(* Induction over the naturals, of a set. *)
LEMMA NatSet ==
  ASSUME NEW T, T \subseteq Nat, 0 \in T, \A n \in T : n + 1 \in T
  PROVE  T = Nat
<1> SUFFICES ASSUME Nat \ T # {} PROVE FALSE
  OBVIOUS
<1>1. IsWellFoundedOn(Less, Nat)
  <2>1. OpToRel(<, Nat) = Less
    BY DEF OpToRel, Less
  <2> QED
    BY <2>1, NatLessThanWellFounded
<1>2. Nat \ T \subseteq Nat
  OBVIOUS
<1>3. \E x \in Nat \ T : \A y \in Nat \ T : ~ << y, x >> \in Less
  BY <1>1, <1>2, WFMin
<1>4. PICK x \in Nat \ T : \A y \in Nat \ T : ~ << y, x >> \in Less
  BY <1>3
<1>5. x # 0 /\ x - 1 \in Nat /\ x - 1 \notin T
  <2>1. x # 0
    OBVIOUS
  <2>2. x - 1 \in Nat
    BY <2>1
  <2>3. (x - 1) + 1 = x
    BY <2>2
  <2> QED
    BY <2>1, <2>2, <2>3
<1>6. << x - 1, x >> \in Less
  BY <1>5 DEF Less
<1> QED
  BY <1>4, <1>5, <1>6

(* f[i] is the first i of the sequences, one after the other. *)
Flattens(f, seqs, n) ==
  f = [i \in 1 .. n |-> IF i = 1 THEN seqs[i] ELSE f[i - 1] \o seqs[i]]

(* The sequences flattened one after the other are defined for any number. *)
LEMMA FlattensExists ==
  ASSUME NEW seqs, NEW n \in Nat
  PROVE  \E f : Flattens(f, seqs, n)
<1> DEFINE T == {k \in Nat : \E f : Flattens(f, seqs, k)}
<1>1. 0 \in T
  <2> DEFINE f == [i \in 1 .. 0 |-> seqs]
  <2>1. f = [i \in 1 .. 0 |-> IF i = 1 THEN seqs[i] ELSE f[i - 1] \o seqs[i]]
    OBVIOUS
  <2> HIDE DEF f
  <2> QED
    BY <2>1 DEF Flattens
<1>2. ASSUME NEW k \in T PROVE k + 1 \in T
  <2>1. PICK f : Flattens(f, seqs, k)
    OBVIOUS
  <2> DEFINE e(i) == IF i = 1 THEN seqs[i] ELSE f[i - 1] \o seqs[i]
             h == [i \in 1 .. k + 1 |-> e(i)]
  <2>2. f = [i \in 1 .. k |-> e(i)]
    BY <2>1 DEF Flattens
  <2>3. k \in Nat
    OBVIOUS
  <2> HIDE DEF e
  <2>4. \A i \in 1 .. k : h[i] = f[i]
    BY <2>2, <2>3
  <2>5. \A i \in 1 .. k + 1 : i # 1 => i - 1 \in 1 .. k
    BY <2>3
  <2>6. \A i \in 1 .. k + 1 : i # 1 => h[i - 1] = f[i - 1]
    BY <2>4, <2>5
  <2>7. \A i \in 1 .. k + 1 : e(i) = IF i = 1 THEN seqs[i] ELSE h[i - 1] \o seqs[i]
    BY <2>6 DEF e
  <2> HIDE DEF h
  <2>8. h = [i \in 1 .. k + 1 |-> IF i = 1 THEN seqs[i] ELSE h[i - 1] \o seqs[i]]
    BY <2>7 DEF h
  <2>9. Flattens(h, seqs, k + 1)
    BY <2>8 DEF Flattens
  <2> QED
    BY <2>3, <2>9
<1>3. T = Nat
  <2> HIDE DEF T
  <2>1. T \subseteq Nat
    BY DEF T
  <2> QED
    BY <1>1, <1>2, <2>1, NatSet
<1> QED
  BY <1>3

(* FlattenSeq flattens the sequences one after the other. *)
LEMMA FlattenBySteps ==
  ASSUME NEW seqs, NEW n \in Nat, n > 0, Len(seqs) = n
  PROVE  \E f : Flattens(f, seqs, n) /\ FlattenSeq(seqs) = f[n]
<1> DEFINE f == CHOOSE g : Flattens(g, seqs, n)
<1>1. Flattens(f, seqs, n)
  BY FlattensExists
<1>2. FlattenSeq(seqs) = f[n]
  BY DEF FlattenSeq, Flattens
<1> QED
  BY <1>1, <1>2

(* No sequence, flattened. *)
LEMMA FlattenNone ==
  ASSUME NEW seqs, Len(seqs) = 0
  PROVE  FlattenSeq(seqs) = seqs
  BY DEF FlattenSeq

(* Each step of Flattens joins one sequence. *)
LEMMA FlattensAt ==
  ASSUME NEW f, NEW seqs, NEW n \in Nat, n > 0, Flattens(f, seqs, n)
  PROVE  /\ f[1] = seqs[1]
         /\ \A k \in 1 .. n - 1 : f[k + 1] = f[k] \o seqs[k + 1]
<1>1. f[1] = seqs[1]
  <2>1. 1 \in 1 .. n
    OBVIOUS
  <2> QED
    BY <2>1 DEF Flattens
<1>2. ASSUME NEW k \in 1 .. n - 1 PROVE f[k + 1] = f[k] \o seqs[k + 1]
  <2>1. k + 1 \in 1 .. n /\ k + 1 # 1 /\ (k + 1) - 1 = k
    OBVIOUS
  <2> QED
    BY <2>1 DEF Flattens
<1> QED
  BY <1>1, <1>2

(* A loop that is not left: the i-th time round from at[i - 1] to at[i]. *)
LEMMA LoopLeads ==
  ASSUME NEW p, NEW n \in Nat, NEW seqs, seqs \in Seq(Seq(Shape)), Len(seqs) = n,
         NEW at \in [0 .. n -> Int], NEW st \in [0 .. n -> Statuses],
         \A i \in 1 .. n : Leads(p, seqs[i], at[i - 1], st[i - 1], at[i], st[i])
  PROVE  Leads(p, FlattenSeq(seqs), at[0], st[0], at[n], st[n])
<1>1. CASE n = 0
  <2>1. seqs = << >>
    BY <1>1
  <2>2. FlattenSeq(seqs) = << >>
    BY <1>1, <2>1, FlattenNone
  <2>3. << >> \in Seq(Shape) /\ Len(<< >>) = 0 /\ at[0] \in Int /\ st[0] \in Statuses
    OBVIOUS
  <2>4. Leads(p, << >>, at[0], st[0], at[0], st[0])
    BY <2>3, ReachNone DEF Leads
  <2> QED
    BY <1>1, <2>2, <2>4
<1>2. CASE n > 0
  <2>1. PICK f : Flattens(f, seqs, n) /\ FlattenSeq(seqs) = f[n]
    BY <1>2, FlattenBySteps
  <2>2. /\ f[1] = seqs[1]
        /\ \A k \in 1 .. n - 1 : f[k + 1] = f[k] \o seqs[k + 1]
    BY ZenonT(40), <1>2, <2>1, FlattensAt
  <2> DEFINE T == {k \in Nat : k \in 1 .. n => Leads(p, f[k], at[0], st[0], at[k], st[k])}
  <2>3. 0 \in T
    OBVIOUS
  <2>4. ASSUME NEW k \in T PROVE k + 1 \in T
    <3>1. CASE k = 0
      <4>1. 1 \in 1 .. n /\ 1 - 1 = 0
        BY <1>2
      <4>2. Leads(p, f[1], at[0], st[0], at[1], st[1])
        BY <2>2, <4>1
      <4> QED
        BY <3>1, <4>2
    <3>2. CASE k \in 1 .. n - 1
      <4>1. k + 1 \in 1 .. n /\ (k + 1) - 1 = k /\ k \in 1 .. n
        BY <3>2
      <4>2. Leads(p, f[k], at[0], st[0], at[k], st[k]) /\ Leads(p, seqs[k + 1], at[k], st[k], at[k + 1], st[k + 1])
        BY <4>1
      <4>3. Leads(p, f[k] \o seqs[k + 1], at[0], st[0], at[k + 1], st[k + 1])
        BY <4>2, LeadsThenLeads
      <4>4. Leads(p, f[k + 1], at[0], st[0], at[k + 1], st[k + 1])
        BY <2>2, <3>2, <4>3
      <4> QED
        BY <4>4
    <3>3. CASE k \notin 0 .. n - 1
      <4>1. k \in Nat
        OBVIOUS
      <4> QED
        BY <3>3, <4>1
    <3> QED
      BY <3>1, <3>2, <3>3
  <2>5. n \in T
    <3> HIDE DEF T
    <3>1. T \subseteq Nat
      BY DEF T
    <3> QED
      BY <2>3, <2>4, <3>1, NatSet
  <2> QED
    BY <1>2, <2>1, <2>5
<1> QED
  BY <1>1, <1>2

(* A loop that is left, after k times round, in the next one. *)
LEMMA LoopLeft ==
  ASSUME NEW p, NEW n \in Nat, NEW seqs, seqs \in Seq(Seq(Shape)), Len(seqs) = n,
         NEW k \in 0 .. n - 1, NEW at \in [0 .. k -> Int],
         NEW st \in [0 .. k -> Statuses], NEW v,
         \A i \in 1 .. k : Leads(p, seqs[i], at[i - 1], st[i - 1], at[i], st[i]),
         Halts(p, seqs[k + 1], at[k], st[k], v)
  PROVE  Halts(p, FlattenSeq(seqs), at[0], st[0], v)
<1>1. n > 0 /\ k \in Nat /\ k + 1 \in 1 .. n
  OBVIOUS
<1>2. PICK f : Flattens(f, seqs, n) /\ FlattenSeq(seqs) = f[n]
  BY <1>1, FlattenBySteps
<1>3. /\ f[1] = seqs[1]
      /\ \A j \in 1 .. n - 1 : f[j + 1] = f[j] \o seqs[j + 1]
  BY ZenonT(40), <1>1, <1>2, FlattensAt
<1> DEFINE T == {j \in Nat : /\ j \in 1 .. k => Leads(p, f[j], at[0], st[0], at[j], st[j])
                             /\ j \in k + 1 .. n => Halts(p, f[j], at[0], st[0], v)}
<1>4. 0 \in T
  OBVIOUS
<1>5. ASSUME NEW j \in T PROVE j + 1 \in T
  <2>0. j \in Nat
    OBVIOUS
  <2>1. CASE j = 0 /\ k = 0
    <3>1. Halts(p, f[1], at[0], st[0], v)
      BY <1>3, <2>1
    <3> QED
      BY <2>1, <3>1
  <2>2. CASE j = 0 /\ k > 0
    <3>1. 1 \in 1 .. k /\ 1 - 1 = 0
      BY <2>2
    <3>2. Leads(p, f[1], at[0], st[0], at[1], st[1])
      BY <1>3, <3>1
    <3>3. 1 \notin k + 1 .. n
      BY <2>2
    <3>4. 1 \in T
      BY <3>2, <3>3
    <3>5. j + 1 = 1
      BY <2>2
    <3> QED
      BY <3>4, <3>5
  <2>3. CASE j \in 1 .. k - 1
    <3>1. j + 1 \in 1 .. k /\ (j + 1) - 1 = j /\ j \in 1 .. k /\ j \in 1 .. n - 1
      <4> HIDE DEF T
      <4>1. k <= n - 1
        OBVIOUS
      <4> QED
        BY <1>1, <2>0, <2>3, <4>1
    <3>2. Leads(p, f[j], at[0], st[0], at[j], st[j]) /\ Leads(p, seqs[j + 1], at[j], st[j], at[j + 1], st[j + 1])
      BY <3>1
    <3>3. Leads(p, f[j] \o seqs[j + 1], at[0], st[0], at[j + 1], st[j + 1])
      BY <3>2, LeadsThenLeads
    <3>4. Leads(p, f[j + 1], at[0], st[0], at[j + 1], st[j + 1])
      BY <1>3, <3>1, <3>3
    <3> QED
      BY <2>3, <3>4
  <2>4. CASE j = k /\ k > 0
    <3>1. j \in 1 .. k /\ j \in 1 .. n - 1
      BY <1>1, <2>0, <2>4
    <3>2. Leads(p, f[j], at[0], st[0], at[k], st[k]) /\ Halts(p, seqs[j + 1], at[k], st[k], v)
      BY <2>4, <3>1
    <3>3. Halts(p, f[j] \o seqs[j + 1], at[0], st[0], v)
      BY <3>2, LeadsThenHalts
    <3>4. Halts(p, f[j + 1], at[0], st[0], v)
      BY <1>3, <3>1, <3>3
    <3> QED
      BY <2>4, <3>4
  <2>5. CASE j \in k + 1 .. n - 1
    <3>1. j \in k + 1 .. n /\ j \in 1 .. n - 1 /\ j + 1 \in 1 .. n
      BY <1>1, <2>0, <2>5
    <3>2. Halts(p, f[j], at[0], st[0], v)
      BY <3>1
    <3>3. seqs[j + 1] \in Seq(Shape)
      <4> DEFINE S == Seq(Shape)
      <4> HIDE DEF S
      <4>1. seqs \in Seq(S)
        BY DEF S
      <4>2. seqs[j + 1] \in S
        BY <3>1, <4>1
      <4> QED
        BY <4>2 DEF S
    <3>4. Halts(p, f[j] \o seqs[j + 1], at[0], st[0], v)
      BY <3>2, <3>3, HaltsThen
    <3>5. Halts(p, f[j + 1], at[0], st[0], v)
      BY <1>3, <3>1, <3>4
    <3> QED
      BY <2>5, <3>5
  <2>6. CASE j \notin 0 .. n - 1
    BY <2>0, <2>6
  <2> QED
    BY <2>0, <2>1, <2>2, <2>3, <2>4, <2>5, <2>6
<1>6. n \in T
  <2> HIDE DEF T
  <2>1. T \subseteq Nat
    BY DEF T
  <2> QED
    BY <1>4, <1>5, <2>1, NatSet
<1> QED
  BY <1>1, <1>2, <1>6

-----------------------------------------------------------------------------

(* A loop whose passes each begin where the one before them ended. *)
LEMMA LoopRuns ==
  ASSUME NEW p, NEW n \in Nat, NEW seqs, seqs \in Seq(Seq(Shape)), Len(seqs) = n,
         NEW at \in [0 .. n -> Int],
         \A i \in 1 .. n : Runs(p, seqs[i], at[i - 1], at[i])
  PROVE  Runs(p, FlattenSeq(seqs), at[0], at[n])
<1> DEFINE st == [i \in 0 .. n |-> Undecided]
<1>1. st \in [0 .. n -> Statuses] /\ \A i \in 0 .. n : st[i] = Undecided
  BY DEF Statuses
<1>2. 0 \in 0 .. n /\ n \in 0 .. n /\ \A i \in 1 .. n : i \in 0 .. n /\ i - 1 \in 0 .. n
  OBVIOUS
<1> HIDE DEF st
<1>3. \A i \in 1 .. n : Leads(p, seqs[i], at[i - 1], st[i - 1], at[i], st[i])
  BY <1>1, <1>2 DEF Runs
<1>4. Leads(p, FlattenSeq(seqs), at[0], st[0], at[n], st[n])
  BY <1>1, <1>3, LoopLeads
<1> QED
  BY <1>1, <1>2, <1>4 DEF Runs

(* A loop that the pass after the k-th ends. *)
LEMMA LoopHalts ==
  ASSUME NEW p, NEW n \in Nat, NEW seqs, seqs \in Seq(Seq(Shape)), Len(seqs) = n,
         NEW k \in 0 .. n - 1, NEW at \in [0 .. k -> Int], NEW v,
         \A i \in 1 .. k : Runs(p, seqs[i], at[i - 1], at[i]),
         Gives(p, seqs[k + 1], at[k], v)
  PROVE  Gives(p, FlattenSeq(seqs), at[0], v)
<1> DEFINE st == [i \in 0 .. k |-> Undecided]
<1>1. st \in [0 .. k -> Statuses] /\ \A i \in 0 .. k : st[i] = Undecided
  BY DEF Statuses
<1>2. 0 \in 0 .. k /\ k \in 0 .. k /\ \A i \in 1 .. k : i \in 0 .. k /\ i - 1 \in 0 .. k
  OBVIOUS
<1> HIDE DEF st
<1>3. \A i \in 1 .. k : Leads(p, seqs[i], at[i - 1], st[i - 1], at[i], st[i])
  BY <1>1, <1>2 DEF Runs
<1>4. Halts(p, seqs[k + 1], at[k], st[k], v)
  BY <1>1, <1>2 DEF Gives
<1>5. Halts(p, FlattenSeq(seqs), at[0], st[0], v)
  BY <1>1, <1>3, <1>4, LoopLeft
<1> QED
  BY <1>1, <1>2, <1>5 DEF Gives

(* Calls one after the other. *)
LEMMA RunsThen ==
  ASSUME NEW p, NEW s, NEW t, NEW x, NEW y, NEW z, Runs(p, s, x, y), Runs(p, t, y, z)
  PROVE  Runs(p, s \o t, x, z)
  BY LeadsThenLeads DEF Runs

(* Calls, and then those that decide the status. *)
LEMMA GivesAfter ==
  ASSUME NEW p, NEW s, NEW t, NEW x, NEW y, NEW v, Runs(p, s, x, y), Gives(p, t, y, v)
  PROVE  Gives(p, s \o t, x, v)
  BY LeadsThenHalts DEF Runs, Gives

(* Calls that decide the status, and others that are not made. *)
LEMMA GivesThen ==
  ASSUME NEW p, NEW s, NEW t \in Seq(Shape), NEW x, NEW v, Gives(p, s, x, v)
  PROVE  Gives(p, s \o t, x, v)
  BY HaltsThen DEF Gives

(* One call more that decides the status. *)
LEMMA OneGives ==
  ASSUME NEW p, NEW s, NEW x, NEW y, Runs(p, s, x, y),
         NEW c \in Shape, NEW v, Stops(p, c, y, Undecided, v)
  PROVE  Gives(p, s \o << c >>, x, v)
<1>1. y \in Int /\ Undecided \in Statuses
  BY RunsTyped DEF Statuses
<1>2. Gives(p, << c >>, y, v)
  BY <1>1, OneHalts DEF Gives
<1> QED
  BY <1>2, GivesAfter

(* The first field is not where the cursor is. *)
LEMMA ThenMisread ==
  ASSUME NEW p, NEW s, NEW x, NEW y, Runs(p, s, x, y),
         NEW F, F \in Seq(Int \X Int), Len(F) > 0, F[1][1] # y
  PROVE  Gives(p, s \o Reads(F), x, "aborted")
<1> DEFINE r == Reads(F)
<1>1. /\ r \in Seq(Shape) /\ Len(r) = Len(F) /\ 1 \in 1 .. Len(r)
      /\ r[1].op = "read" /\ r[1].at = F[1][1]
  BY ReadsShape
<1>2. y \in Int /\ Undecided \in Statuses
  BY RunsTyped DEF Statuses
<1> HIDE DEF r
<1>3. Stops(p, r[1], y, Undecided, "aborted")
  BY <1>1 DEF Stops
<1>4. Gives(p, r, y, "aborted")
  <2>1. 0 \in 0 .. Len(r) - 1 /\ 0 + 1 = 1
    BY <1>1
  <2>2. Reach(p, r, 0, y, Undecided, y, Undecided)
    BY <1>2, ReachNone
  <2> QED
    BY <1>1, <1>2, <1>3, <2>1, <2>2 DEF Gives, Halts
<1> QED
  BY <1>4, GivesAfter DEF r

(* The fields of a payload whose assertions fail go too far: one of the    *)
(* reads is the first that does.                                           *)
LEMMA ThenOverrun ==
  ASSUME NEW p, IsPayload(p), Unguarded(p), NEW s, NEW x, NEW y, Runs(p, s, x, y),
         NEW F, NEW z \in Int, Tiles(F, y, z), z > 6 * NumChars(p)
  PROVE  Gives(p, s \o Reads(F), x, "aborted")
<1> DEFINE r == Reads(F)
           n == Len(F)
           end(k) == IF k = 0 THEN y ELSE F[k][1] + F[k][2]
<1>1. Limit(p) = 6 * NumChars(p) /\ NumChars(p) \in Nat /\ y \in Int /\ Undecided \in Statuses
  BY PayloadBits, RunsTyped DEF Limit, Statuses
<1>2. /\ F \in Seq(Int \X Int) /\ n \in Nat /\ n >= 1
      /\ \A i \in 1 .. n : F[i][1] \in Int /\ F[i][2] \in 0 .. 32
  BY DEF Tiles, Within
<1>3. /\ r \in Seq(Shape) /\ Len(r) = n
      /\ \A i \in 1 .. n : r[i] \in Shape /\ r[i].op = "read" /\ r[i].at = F[i][1]
                           /\ r[i].len = F[i][2]
  BY <1>2, ReadsShape
<1>4. ASSUME NEW k \in 0 .. n - 1
      PROVE  k + 1 \in 1 .. n /\ end(k) \in Int /\ r[k + 1].at = end(k)
             /\ end(k + 1) = end(k) + r[k + 1].len /\ end(k + 1) \in Int
             /\ r[k + 1].len \in 0 .. 32
  <2>1. k + 1 \in 1 .. n /\ k + 1 # 0
    BY <1>2
  <2>2. F[k + 1][1] = end(k) /\ end(k) \in Int
    <3>1. CASE k = 0
      BY <1>1, <3>1 DEF Tiles
    <3>2. CASE k # 0
      <4>1. k \in 1 .. n - 1 /\ k \in 1 .. n
        BY <1>2, <3>2
      <4>2. F[k + 1][1] = F[k][1] + F[k][2]
        BY <4>1 DEF Tiles
      <4>3. end(k) = F[k][1] + F[k][2] /\ F[k][1] \in Int /\ F[k][2] \in Int
        BY SMTT(30), <1>2, <3>2, <4>1
      <4> QED
        BY <4>2, <4>3
    <3> QED
      BY <3>1, <3>2
  <2>3. end(k + 1) = F[k + 1][1] + F[k + 1][2] /\ F[k + 1][2] \in 0 .. 32
    BY <1>2, <2>1
  <2>4. r[k + 1].at = F[k + 1][1] /\ r[k + 1].len = F[k + 1][2]
    BY <1>3, <2>1
  <2> HIDE DEF end, r, n
  <2> QED
    BY <2>1, <2>2, <2>3, <2>4
<1>5. end(0) = y /\ end(n) = z
  BY <1>2 DEF Tiles
<1> HIDE DEF r, n, end
<1> DEFINE T == {k \in Nat : k \in 0 .. n => \/ Gives(p, r, y, "aborted")
                                             \/ /\ Reach(p, r, k, y, Undecided, end(k), Undecided)
                                                /\ k > 0 => end(k) <= 6 * NumChars(p)}
<1>6. 0 \in T
  BY <1>1, <1>5, ReachNone
<1>7. ASSUME NEW k \in T PROVE k + 1 \in T
  <2>0. k \in Nat
    OBVIOUS
  <2>1. CASE k \in 0 .. n - 1 /\ ~ Gives(p, r, y, "aborted")
    <3>1. k \in 0 .. n
      BY <1>2, <2>0, <2>1
    <3>2. Reach(p, r, k, y, Undecided, end(k), Undecided)
      BY <2>1, <3>1
    <3>3. /\ k + 1 \in 1 .. n /\ end(k) \in Int /\ r[k + 1].at = end(k)
          /\ end(k + 1) = end(k) + r[k + 1].len /\ end(k + 1) \in Int
          /\ r[k + 1].len \in 0 .. 32
      BY <1>4, <2>1
    <3>4. end(k + 1) <= 6 * NumChars(p)
      <4>1. SUFFICES ASSUME ~ (end(k + 1) <= 6 * NumChars(p)) PROVE FALSE
        OBVIOUS
      <4>2. Stops(p, r[k + 1], end(k), Undecided, "aborted")
        <5>1. r[k + 1].at + r[k + 1].len > 6 * NumChars(p)
          BY <1>1, <3>3, <4>1
        <5> QED
          BY <1>3, <3>3, <5>1 DEF Stops
      <4>3. Gives(p, r, y, "aborted")
        BY <1>1, <1>3, <2>1, <3>2, <3>3, <4>2 DEF Gives, Halts
      <4> QED
        BY <2>1, <4>3
    <3>5. Goes(p, r[k + 1], end(k), Undecided, end(k + 1), Undecided)
      <4>1. r[k + 1].op = "read" /\ end(k + 1) <= Limit(p)
        BY <1>1, <1>3, <3>3, <3>4
      <4>2. r[k + 1].len <= 32
        BY <3>3
      <4> QED
        BY <3>3, <4>1, <4>2 DEF Goes
    <3>6. Reach(p, r, k + 1, y, Undecided, end(k + 1), Undecided)
      <4> DEFINE c == r[k + 1]
                 t == << c >>
      <4>1. c \in Shape /\ t \in Seq(Shape) /\ Len(t) = 1
        BY <1>3, <3>3
      <4>2. Leads(p, t, end(k), Undecided, end(k + 1), Undecided)
        BY <1>1, <3>3, <3>5, <4>1, OneLeads
      <4>3. \A i \in 1 .. 1 : r[k + i] = t[i]
        OBVIOUS
      <4> HIDE DEF c, t
      <4>4. Reach(p, t, 1, end(k), Undecided, end(k + 1), Undecided)
        BY <4>1, <4>2 DEF Leads
      <4> QED
        BY <2>0, <3>2, <4>3, <4>4, ReachJoin
    <3> QED
      BY <2>0, <3>4, <3>6
  <2>2. CASE k \notin 0 .. n - 1
    <3>1. k + 1 \notin 0 .. n
      BY <1>2, <2>0, <2>2 DEF n
    <3> QED
      BY <2>0, <3>1
  <2>3. CASE Gives(p, r, y, "aborted")
    BY <2>0, <2>3
  <2> QED
    BY <2>1, <2>2, <2>3
<1>8. n \in T
  <2> HIDE DEF T
  <2>1. T \subseteq Nat
    BY DEF T
  <2>2. n \in Nat
    BY <1>2 DEF n
  <2> QED
    BY <1>6, <1>7, <2>1, <2>2, NatSet
<1>9. Gives(p, r, y, "aborted")
  <2>1. n \in 0 .. n /\ n > 0
    BY <1>2 DEF n
  <2>2. ~ (end(n) <= 6 * NumChars(p))
    BY <1>1, <1>5
  <2> QED
    BY <1>8, <2>1, <2>2
<1> QED
  BY <1>9, GivesAfter DEF r

(* assert(bits.GetRemaining() == 0) fails. *)
LEMMA ThenBadEnd ==
  ASSUME NEW p, NEW s, NEW x, NEW y, Runs(p, s, x, y), y # NumBits(p)
  PROVE  Gives(p, s \o NoneRemaining, x, "aborted")
<1> DEFINE c == Op("none_remaining", 0, 0)
<1>1. c \in Shape /\ c.op = "none_remaining"
  BY OpShape DEF OpKinds
<1> HIDE DEF c
<1>2. Stops(p, c, y, Undecided, "aborted")
  BY <1>1 DEF Stops
<1> QED
  BY <1>1, <1>2, OneGives DEF NoneRemaining, c

(* Where a constructor begins that does not look at the header. *)
LEMMA SeekFirst ==
  ASSUME NEW p, NEW x \in Int, NEW at \in Nat
  PROVE  /\ at < NumBits(p) => Runs(p, SeekTo(at), x, at)
         /\ at >= NumBits(p) => Gives(p, SeekTo(at), x, "aborted")
<1> DEFINE c == Op("seek", at, 0)
<1>1. c \in Shape /\ c.op = "seek" /\ c.at = at /\ Undecided \in Statuses
  BY OpShape DEF OpKinds, Statuses
<1> HIDE DEF c
<1>2. ASSUME at < NumBits(p) PROVE Runs(p, << c >>, x, at)
  <2>1. Goes(p, c, x, Undecided, at, Undecided)
    BY <1>1, <1>2 DEF Goes
  <2> QED
    BY <1>1, <2>1, OneLeads DEF Runs
<1>3. ASSUME at >= NumBits(p) PROVE Gives(p, << c >>, x, "aborted")
  <2>1. Stops(p, c, x, Undecided, "aborted")
    BY <1>1, <1>3 DEF Stops
  <2> QED
    BY <1>1, <2>1, OneHalts DEF Gives
<1> QED
  BY <1>2, <1>3 DEF SeekTo, c

(* The calls that may come after the last one. *)
LEMMA Shapes ==
  /\ NoneRemaining \in Seq(Shape) /\ << >> \in Seq(Shape)
  /\ \A v \in Given : Return(v) \in Seq(Shape)
  /\ \A at \in Int : SeekTo(at) \in Seq(Shape)
  /\ \A at \in Int, len \in Int : Text(at, len) \in Seq(Shape)
  /\ \A F \in Seq(Int \X Int) : Reads(F) \in Seq(Shape)
  /\ \A s \in Seq(Shape), t \in Seq(Shape) : s \o t \in Seq(Shape)
<1>1. NoneRemaining \in Seq(Shape)
  BY OpShape DEF NoneRemaining, OpKinds
<1>2. ASSUME NEW v \in Given PROVE Return(v) \in Seq(Shape)
  <2> DEFINE c == [Op("return", 0, 0) EXCEPT !.what = v]
  <2>1. Op("return", 0, 0) \in Shape
    BY OpShape DEF OpKinds
  <2>2. c \in Shape
    BY <2>1 DEF Shape
  <2> HIDE DEF c
  <2>3. << c >> \in Seq(Shape)
    BY <2>2
  <2> QED
    BY <2>3 DEF Return, c
<1>3. ASSUME NEW at \in Int PROVE SeekTo(at) \in Seq(Shape)
  BY OpShape DEF SeekTo, OpKinds
<1>4. ASSUME NEW at \in Int, NEW len \in Int PROVE Text(at, len) \in Seq(Shape)
  BY OpShape DEF Text, OpKinds
<1>5. ASSUME NEW F \in Seq(Int \X Int) PROVE Reads(F) \in Seq(Shape)
  BY ReadsShape
<1>6. ASSUME NEW s \in Seq(Shape), NEW t \in Seq(Shape) PROVE s \o t \in Seq(Shape)
  BY Joined
<1> QED
  BY <1>1, <1>2, <1>3, <1>4, <1>5, <1>6

-----------------------------------------------------------------------------
(* What several constructors share. *)

(* A text of whole characters and the spare bits behind it (12, 14, 6:1:0, *)
(* 8:1:29).                                                                *)
LEMMA ThenTextAndSpare ==
  ASSUME NEW p, IsPayload(p), NEW s, NEW x, NEW at \in Nat, Runs(p, s, x, at),
         at <= NumBits(p)
  PROVE  Runs(p, s \o TextAndSpare(p, at), x, NumBits(p))
<1> DEFINE n == NumBits(p)
           text_bits == ((n - at) \div 6) * 6
           spare_at == at + text_bits
           F == << << spare_at, n - spare_at >> >>
<1>1. n \in Int /\ n <= Limit(p) /\ Limit(p) \in Int /\ n >= at
  BY PayloadBits
<1> HIDE DEF n
<1>2. text_bits \in Nat /\ text_bits % 6 = 0 /\ n - spare_at \in 0 .. 5 /\ spare_at \in Nat
      /\ spare_at <= n
  BY <1>1
<1> HIDE DEF text_bits
<1>3. at + text_bits <= Limit(p)
  BY <1>1, <1>2
<1>4. Runs(p, s \o Text(at, text_bits), x, spare_at)
  BY <1>2, <1>3, ThenText
<1> DEFINE text == Text(at, text_bits)
           spare == IF n > spare_at THEN Reads(F) ELSE << >>
<1>5. Runs(p, text, at, spare_at)
  <2>1. Runs(p, << >>, at, at)
    BY ReachNone DEF Runs, Leads, Statuses
  <2>2. Runs(p, << >> \o text, at, spare_at)
    BY <1>2, <1>3, <2>1, ThenText
  <2>3. text \in Seq(Shape)
    <3>1. at \in Int /\ text_bits \in Int
      BY <1>2
    <3> QED
      BY <3>1, Shapes
  <2>4. << >> \o text = text
    <3> HIDE DEF text
    <3> DEFINE S == Shape
    <3> HIDE DEF S
    <3>1. text \in Seq(S)
      BY <2>3 DEF S
    <3> QED
      BY <3>1
  <2> QED
    BY <2>2, <2>4
<1>6. Runs(p, text \o spare, at, n)
  <2>1. CASE n > spare_at
    <3>1. Tiles(F, spare_at, n)
      BY <1>1, <1>2 DEF Tiles, Within
    <3>2. n <= Limit(p) /\ n \in Int
      BY <1>1
    <3> HIDE DEF F, text, spare_at
    <3>3. Runs(p, text \o Reads(F), at, n)
      BY <1>5, <3>1, <3>2, ThenReads
    <3> QED
      BY <2>1, <3>3
  <2>2. CASE ~ (n > spare_at)
    <3>1. spare_at = n
      BY <1>1, <1>2, <2>2
    <3>2. text \o << >> = text
      <4> HIDE DEF text
      <4> DEFINE S == Shape
      <4> HIDE DEF S
      <4>1. text \in Seq(S)
        BY <1>5, RunsTyped DEF S
      <4> QED
        BY <4>1
    <3> HIDE DEF text, spare_at, F
    <3>3. Runs(p, text \o << >>, at, n)
      BY <1>5, <3>1, <3>2
    <3> QED
      BY <2>2, <3>3
  <2> QED
    BY <2>1, <2>2
<1>7. TextAndSpare(p, at) = text \o spare
  BY DEF TextAndSpare, n, text_bits
<1> HIDE DEF text, spare
<1>8. Runs(p, s \o (text \o spare), x, n)
  BY <1>6, RunsThen
<1> QED
  BY <1>7, <1>8 DEF n

(* The communication state SOTDMA has 17 bits, with any slot timeout. *)
LEMMA SotdmaRuns ==
  ASSUME NEW p, IsPayload(p), NEW at \in Nat, at + 17 <= Limit(p)
  PROVE  Runs(p, Sotdma(p, at), at, at + 17)
<1> DEFINE a == << <<at, 3>> >>
           b == << <<at + 3, 5>>, <<at + 8, 7>>, <<at + 15, 2>> >>
           c == << <<at + 3, 14>> >>
<1>1. Tiles(a, at, at + 3) /\ Tiles(b, at + 3, at + 17) /\ Tiles(c, at + 3, at + 17)
  BY DEF Tiles, Within
<1>2. Limit(p) \in Int /\ at + 3 <= Limit(p) /\ at + 3 \in Int /\ at + 17 \in Int
  BY PayloadBits
<1> HIDE DEF a, b, c
<1>3. Runs(p, Reads(a), at, at + 3)
  BY <1>1, <1>2, ReadsRun
<1>4. Runs(p, Reads(a) \o Reads(b), at, at + 17) /\ Runs(p, Reads(a) \o Reads(c), at, at + 17)
  BY <1>1, <1>2, <1>3, ThenReads
<1>5. CASE p.slot_timeout = 1
  BY <1>4, <1>5 DEF Sotdma, a, b
<1>6. CASE p.slot_timeout # 1
  BY <1>4, <1>6 DEF Sotdma, a, c
<1> QED
  BY <1>5, <1>6

(* The communication state ITDMA has 17 bits. *)
LEMMA ItdmaRuns ==
  ASSUME NEW p, IsPayload(p), NEW at \in Nat, at + 17 <= Limit(p)
  PROVE  Runs(p, Itdma(at), at, at + 17)
<1>1. Tiles(<< <<at, 13>>, <<at + 13, 3>>, <<at + 16, 1>> >>, at, at + 17)
  BY DEF Tiles, Within
<1> QED
  BY <1>1, ReadsRun DEF Itdma

(* Calls before which there is nothing. *)
LEMMA NothingBefore ==
  ASSUME NEW s \in Seq(Shape)
  PROVE  << >> \o s = s
<1> DEFINE S == Shape
<1> HIDE DEF S
<1>1. s \in Seq(S)
  BY DEF S
<1> QED
  BY <1>1

(* The constructor of an application on a message of that application. *)
LEMMA AppliedIs ==
  ASSUME NEW p, NEW x, NEW dac, NEW fi, NEW calls, NEW length_ok, NEW v,
         Application(p) = << dac, fi >>,
         Gives(p, Guarded(length_ok, calls), x, v)
  PROVE  Gives(p, Applied(p, dac, fi, length_ok, calls), x, v)
<1>1. ApplicationIs(p, dac, fi) = << >>
  BY DEF ApplicationIs, AssertThat
<1>2. Guarded(length_ok, calls) \in Seq(Shape)
  BY DEF Gives, Halts
<1>3. Applied(p, dac, fi, length_ok, calls) = << >> \o Guarded(length_ok, calls)
  BY <1>1 DEF Applied
<1> QED
  BY <1>2, <1>3, NothingBefore

-----------------------------------------------------------------------------
(* The header. *)

(* AisMsg::AisMsg on a payload with a header. *)
LEMMA HeaderRuns ==
  ASSUME NEW p, IsPayload(p), HeaderRead(p)
  PROVE  Runs(p, AisMsg(p), 0, 38)
<1> DEFINE c == Op("message_id", 0, 6)
           F == << <<6, 2>>, <<8, 30>> >>
<1>1. NumBits(p) \in Int /\ NumBits(p) >= 38 /\ NumBits(p) <= Limit(p) /\ Limit(p) \in Int
      /\ Undecided \in Statuses
  BY PayloadBits DEF HeaderRead, MinMessageBits, Statuses
<1>2. c \in Shape /\ c.op = "message_id" /\ c.at = 0 /\ c.len = 6
  BY OpShape DEF OpKinds
<1>3. Tiles(F, 6, 38)
  BY DEF Tiles, Within
<1> HIDE DEF c, F
<1>4. Goes(p, c, 0, Undecided, 6, Undecided)
  BY <1>1, <1>2 DEF Goes
<1>5. Runs(p, << c >>, 0, 6)
  BY <1>1, <1>2, <1>4, OneLeads DEF Runs
<1>6. Runs(p, << c >> \o Reads(F), 0, 38)
  BY <1>1, <1>3, <1>5, ThenReads
<1>7. AisMsg(p) = << c >> \o Reads(F)
  <2>1. p.chars <= MaxChars /\ ~ (p.chars > MaxChars) /\ p.armored
    BY DEF HeaderRead, Parses, IsPayload, MaxChars, MAX_BITS
  <2>2. Parses(p) /\ NumBits(p) >= MinMessageBits /\ ~ (NumBits(p) < MinMessageBits)
    BY <1>1 DEF HeaderRead, MinMessageBits
  <2> QED
    BY <2>1, <2>2 DEF AisMsg, c, F
<1> QED
  BY <1>6, <1>7

(* AisMsg::AisMsg on a payload without one. *)
LEMMA HeaderRefused ==
  ASSUME NEW p, IsPayload(p), ~ HeaderRead(p)
  PROVE  \E e \in Errors : Leads(p, AisMsg(p), 0, Undecided, 0, e)
<1>1. ASSUME NEW e \in Errors
      PROVE  Leads(p, SetStatus(e), 0, Undecided, 0, e)
  <2> DEFINE c == [Op("set_status", 0, 0) EXCEPT !.what = e]
  <2>1. c \in Shape /\ c.op = "set_status" /\ c.what = e
    <3>1. Op("set_status", 0, 0) \in Shape /\ Op("set_status", 0, 0).op = "set_status"
      BY OpShape DEF OpKinds
    <3> QED
      BY <1>1, <3>1 DEF Shape, Given
  <2>2. Undecided \in Statuses /\ e \in Statuses
    BY <1>1 DEF Statuses, Given
  <2> HIDE DEF c
  <2>3. Goes(p, c, 0, Undecided, 0, e)
    BY <2>1 DEF Goes
  <2>4. Leads(p, << c >>, 0, Undecided, 0, e)
    BY <2>1, <2>2, <2>3, OneLeads
  <2> QED
    BY <2>4 DEF SetStatus, c
<1>2. p.chars \in Nat /\ p.armored \in BOOLEAN /\ MaxChars \in Nat /\ NumBits(p) \in Int
  BY PayloadBits DEF IsPayload, MaxChars, MAX_BITS
<1>3. CASE p.chars > MaxChars
  <2>1. AisMsg(p) = SetStatus("AIS_ERR_MSG_TOO_LONG")
    BY <1>2, <1>3 DEF AisMsg, Parses
  <2> QED
    BY <1>1, <2>1 DEF Errors
<1>4. CASE p.chars <= MaxChars /\ ~ p.armored
  <2>1. AisMsg(p) = SetStatus("AIS_ERR_BAD_NMEA_CHR")
    BY <1>2, <1>4 DEF AisMsg, Parses
  <2> QED
    BY <1>1, <2>1 DEF Errors
<1>5. CASE p.chars <= MaxChars /\ p.armored
  <2>1. Parses(p) /\ NumBits(p) < MinMessageBits /\ ~ (NumBits(p) >= MinMessageBits)
    BY <1>2, <1>5 DEF HeaderRead, Parses, MinMessageBits
  <2>2. AisMsg(p) = SetStatus("AIS_ERR_BAD_BIT_COUNT")
    BY <1>2, <1>5, <2>1 DEF AisMsg
  <2> QED
    BY <1>1, <2>2 DEF Errors
<1> QED
  BY <1>2, <1>3, <1>4, <1>5

(* AisMsg and Ais6 leave the cursor at bit 88 of what they accept. *)
LEMMA Ais6Runs ==
  ASSUME NEW p, IsPayload(p), p.message_id = 6, Ais6Read(p)
  PROVE  Runs(p, AisMsg(p) \o Ais6(p), 0, 88)
<1> DEFINE F == << <<38, 2>>, <<40, 30>>, <<70, 1>>, <<71, 1>>, <<72, 10>>, <<82, 6>> >>
<1>1. HeaderRead(p) /\ NumBits(p) \in Int /\ NumBits(p) >= 88
      /\ NumBits(p) <= Limit(p) /\ Limit(p) \in Int
  BY PayloadBits DEF Ais6Read
<1>2. Tiles(F, 38, 88)
  BY DEF Tiles, Within
<1>3. Runs(p, Id(6) \o SeekTo(38), 38, 38)
  BY <1>1, Start DEF Id
<1> HIDE DEF F
<1>4. Runs(p, Id(6) \o SeekTo(38) \o Reads(F), 38, 88)
  BY <1>1, <1>2, <1>3, ThenReads
<1>5. Ais6(p) = Id(6) \o SeekTo(38) \o Reads(F)
  BY <1>1 DEF Ais6, F
<1> QED
  BY <1>1, <1>4, <1>5, HeaderRuns, RunsThen

(* AisMsg and Ais8 leave the cursor at bit 56 of what they accept. *)
LEMMA Ais8Runs ==
  ASSUME NEW p, IsPayload(p), p.message_id = 8, Ais8Read(p)
  PROVE  Runs(p, AisMsg(p) \o Ais8(p), 0, 56)
<1> DEFINE F == << <<38, 2>>, <<40, 10>>, <<50, 6>> >>
<1>1. HeaderRead(p) /\ NumBits(p) \in Int /\ NumBits(p) >= 56
      /\ NumBits(p) <= Limit(p) /\ Limit(p) \in Int
  BY PayloadBits DEF Ais8Read
<1>2. Tiles(F, 38, 56)
  BY DEF Tiles, Within
<1>3. Runs(p, Id(8) \o SeekTo(38), 38, 38)
  BY <1>1, Start DEF Id
<1> HIDE DEF F
<1>4. Runs(p, Id(8) \o SeekTo(38) \o Reads(F), 38, 56)
  BY <1>1, <1>2, <1>3, ThenReads
<1>5. Ais8(p) = Id(8) \o SeekTo(38) \o Reads(F)
  BY <1>1 DEF Ais8, F
<1> QED
  BY <1>1, <1>4, <1>5, HeaderRuns, RunsThen

-----------------------------------------------------------------------------
(* The same calls with nothing before them. *)

(* No calls. *)
LEMMA NoneRuns ==
  ASSUME NEW p, NEW x \in Int
  PROVE  Runs(p, << >>, x, x)
<1>1. << >> \in Seq(Shape) /\ Len(<< >>) = 0 /\ Undecided \in Statuses
  BY DEF Statuses
<1> QED
  BY <1>1, ReachNone DEF Runs, Leads

(* A text of whole characters. *)
LEMMA TextRuns ==
  ASSUME NEW p, IsPayload(p), NEW y \in Int, NEW len \in Nat, len % 6 = 0,
         y + len <= Limit(p)
  PROVE  Runs(p, Text(y, len), y, y + len)
<1> DEFINE s == << >>
<1>1. Runs(p, s, y, y) /\ Text(y, len) \in Seq(Shape)
  <2>1. len \in Int
    OBVIOUS
  <2> QED
    BY <2>1, NoneRuns, Shapes
<1> HIDE DEF s
<1>2. Runs(p, s \o Text(y, len), y, y + len)
  BY <1>1, ThenText
<1> QED
  BY <1>1, <1>2, NothingBefore DEF s

(* A position. *)
LEMMA PointRuns ==
  ASSUME NEW p, IsPayload(p), NEW y \in Int, NEW size, size = 35 \/ size = 49 \/ size = 55,
         y + size <= Limit(p)
  PROVE  Runs(p, Point(y, size), y, y + size)
<1> DEFINE s == << >>
<1>1. Runs(p, s, y, y)
  BY NoneRuns
<1> HIDE DEF s
<1>2. Runs(p, s \o Point(y, size), y, y + size)
  BY <1>1, ThenPoint
<1>3. Point(y, size) \in Seq(Shape)
  <2> DEFINE n == LongitudeBits(size)
             F == << << y, n >>, << y + n, size - n >> >>
  <2>1. n \in Int /\ size - n \in Int /\ y + n \in Int
    BY DEF LongitudeBits
  <2> HIDE DEF n
  <2>2. F \in Seq(Int \X Int)
    BY <2>1
  <2> HIDE DEF F
  <2>3. Reads(F) \in Seq(Shape)
    BY <2>2, Shapes
  <2> QED
    BY <2>3 DEF Point, F, n
<1> QED
  BY <1>2, <1>3, NothingBefore DEF s

(* assert(bits.GetRemaining() == 0); status = AIS_OK; at the last bit. *)
LEMMA EndGives ==
  ASSUME NEW p, IsPayload(p)
  PROVE  Gives(p, NoneRemaining \o Ok, NumBits(p), "AIS_OK")
<1>1. NumBits(p) \in Int /\ NoneRemaining \in Seq(Shape)
  BY PayloadBits, Shapes
<1>2. Runs(p, << >>, NumBits(p), NumBits(p))
  BY <1>1, NoneRuns
<1>3. Gives(p, << >> \o NoneRemaining \o Ok, NumBits(p), "AIS_OK")
  BY <1>2, ThenEnd
<1> QED
  BY <1>1, <1>3, NothingBefore

(* return with a status. *)
LEMMA ReturnGives ==
  ASSUME NEW p, NEW x \in Int, NEW v \in Given
  PROVE  Gives(p, Return(v), x, v)
<1>1. Runs(p, << >>, x, x) /\ Return(v) \in Seq(Shape)
  BY NoneRuns, Shapes
<1>2. Gives(p, << >> \o Return(v), x, v)
  BY <1>1, ThenReturn
<1> QED
  BY <1>1, <1>2, NothingBefore

(* Constructors that come to one end on every good length. *)
LEMMA PlainGives ==
  ASSUME NEW p, NEW x \in Int, NEW length_ok \in BOOLEAN, NEW calls, NEW v \in Given,
         length_ok => Gives(p, calls, x, v)
  PROVE  \E w \in Given : Gives(p, Guarded(length_ok, calls), x, w)
  BY GuardedGives

(* A constructor of an application whose calls decide the status. *)
LEMMA AppliedGives ==
  ASSUME NEW p, NEW x \in Int, NEW dac, NEW fi, Application(p) = << dac, fi >>,
         NEW length_ok \in BOOLEAN, NEW calls, NEW v \in Given,
         length_ok => Gives(p, calls, x, v)
  PROVE  \E w \in Given : Gives(p, Applied(p, dac, fi, length_ok, calls), x, w)
  BY PlainGives, AppliedIs

(* What every constructor comes to, up to the status it gives. *)
Settles(p, s, x) ==
  IF Unguarded(p) THEN Gives(p, s, x, "aborted") ELSE \E v \in Given : Gives(p, s, x, v)

(* A constructor past its length test that aborts. *)
LEMMA GuardedAborts ==
  ASSUME NEW p, NEW x \in Int, NEW calls, Gives(p, calls, x, "aborted")
  PROVE  Gives(p, Guarded(TRUE, calls), x, "aborted")
  BY Passes DEF Guarded

(* A constructor whose calls settle the status, behind a length test. *)
LEMMA GuardedSettles ==
  ASSUME NEW p, NEW x \in Int, NEW length_ok \in BOOLEAN, NEW calls,
         length_ok => Settles(p, calls, x),
         Unguarded(p) => length_ok
  PROVE  Settles(p, Guarded(length_ok, calls), x)
<1>1. CASE Unguarded(p)
  <2>1. length_ok = TRUE
    BY <1>1
  <2>2. Gives(p, calls, x, "aborted")
    BY <1>1 DEF Settles
  <2>3. Gives(p, Guarded(TRUE, calls), x, "aborted")
    BY <2>2, GuardedAborts
  <2> QED
    BY <1>1, <2>1, <2>3 DEF Settles
<1>2. CASE ~ Unguarded(p)
  <2>1. length_ok => \E v \in Given : Gives(p, calls, x, v)
    BY <1>2 DEF Settles
  <2>2. \E v \in Given : Gives(p, Guarded(length_ok, calls), x, v)
    BY <2>1, GuardedGives
  <2> QED
    BY <1>2, <2>2 DEF Settles
<1> QED
  BY <1>1, <1>2

(* A constructor of an application whose calls settle the status. *)
LEMMA AppliedSettles ==
  ASSUME NEW p, NEW x \in Int, NEW dac, NEW fi, Application(p) = << dac, fi >>,
         NEW length_ok \in BOOLEAN, NEW calls,
         length_ok => Settles(p, calls, x),
         Unguarded(p) => length_ok
  PROVE  Settles(p, Applied(p, dac, fi, length_ok, calls), x)
<1>1. Settles(p, Guarded(length_ok, calls), x)
  BY GuardedSettles
<1>2. ASSUME NEW v, Gives(p, Guarded(length_ok, calls), x, v)
      PROVE  Gives(p, Applied(p, dac, fi, length_ok, calls), x, v)
  BY <1>2, AppliedIs
<1> QED
  BY <1>1, <1>2 DEF Settles

(* Calls before those that settle the status. *)
LEMMA SettlesAfter ==
  ASSUME NEW p, NEW s, NEW t, NEW x, NEW y, Runs(p, s, x, y), Settles(p, t, y)
  PROVE  Settles(p, s \o t, x)
  BY GivesAfter DEF Settles

(* The assertion at the end fails where bits are left, or too many were    *)
(* read.                                                                   *)
LEMMA BadEndGives ==
  ASSUME NEW p, NEW s, NEW x, NEW y, Runs(p, s, x, y), y # NumBits(p)
  PROVE  Gives(p, s \o NoneRemaining \o Ok, x, "aborted")
<1>1. "AIS_OK" \in Given
  BY DEF Given
<1>2. Ok \in Seq(Shape)
  BY <1>1, Shapes DEF Ok
<1>3. Gives(p, s \o NoneRemaining, x, "aborted")
  BY ThenBadEnd
<1> QED
  BY <1>2, <1>3, GivesThen

(* What was there before is over: no calls after it count. *)
LEMMA SettlesThen ==
  ASSUME NEW p, NEW s, NEW t \in Seq(Shape), NEW x, Settles(p, s, x)
  PROVE  Settles(p, s \o t, x)
  BY GivesThen DEF Settles

(* A loop over pieces of one size. *)
LEMMA EvenLoop ==
  ASSUME NEW p, NEW n \in Nat, NEW start \in Int, NEW size \in Int,
         NEW seqs, seqs = [i \in 1 .. n |-> seqs[i]],
         \A i \in 0 .. n - 1 : Runs(p, seqs[i + 1], start + i * size, start + i * size + size)
  PROVE  Runs(p, FlattenSeq(seqs), start, start + n * size)
<1> DEFINE at == [i \in 0 .. n |-> start + i * size]
<1>1. at \in [0 .. n -> Int] /\ at[0] = start /\ at[n] = start + n * size
  OBVIOUS
<1>2. ASSUME NEW i \in 1 .. n
      PROVE  Runs(p, seqs[i], at[i - 1], at[i]) /\ seqs[i] \in Seq(Shape)
  <2>1. i - 1 \in 0 .. n - 1 /\ (i - 1) + 1 = i /\ i - 1 \in 0 .. n /\ i \in 0 .. n
    OBVIOUS
  <2>2. Runs(p, seqs[i], start + (i - 1) * size, start + (i - 1) * size + size)
    BY <2>1
  <2>3. at[i - 1] = start + (i - 1) * size /\ at[i] = start + i * size
    BY <2>1
  <2>4. start + (i - 1) * size + size = start + i * size
    BY <2>1
  <2> QED
    BY <2>2, <2>3, <2>4, RunsTyped
<1>3. seqs \in Seq(Seq(Shape)) /\ Len(seqs) = n
  <2> DEFINE S == Seq(Shape)
  <2> HIDE DEF S
  <2>1. \A i \in 1 .. n : seqs[i] \in S
    BY <1>2 DEF S
  <2>2. seqs \in [1 .. n -> S]
    BY <2>1
  <2>3. seqs \in Seq(S) /\ Len(seqs) = n
    BY <2>2
  <2> QED
    BY <2>3 DEF S
<1> HIDE DEF at
<1>4. Runs(p, FlattenSeq(seqs), at[0], at[n])
  BY <1>1, <1>2, <1>3, LoopRuns
<1> QED
  BY <1>1, <1>4

(* The same, when one of the passes decides the status. *)
LEMMA EvenLoopLeft ==
  ASSUME NEW p, NEW n \in Nat, NEW start \in Int, NEW size \in Int,
         NEW seqs, seqs = [i \in 1 .. n |-> seqs[i]],
         \A i \in 0 .. n - 1 : seqs[i + 1] \in Seq(Shape),
         NEW k \in 0 .. n - 1, NEW v,
         \A i \in 0 .. k - 1 : Runs(p, seqs[i + 1], start + i * size, start + i * size + size),
         Gives(p, seqs[k + 1], start + k * size, v)
  PROVE  Gives(p, FlattenSeq(seqs), start, v)
<1> DEFINE at == [i \in 0 .. k |-> start + i * size]
<1>1. at \in [0 .. k -> Int] /\ at[0] = start /\ at[k] = start + k * size
  OBVIOUS
<1>2. ASSUME NEW i \in 1 .. k
      PROVE  Runs(p, seqs[i], at[i - 1], at[i])
  <2>1. i - 1 \in 0 .. k - 1 /\ (i - 1) + 1 = i /\ i - 1 \in 0 .. k /\ i \in 0 .. k
    OBVIOUS
  <2>2. Runs(p, seqs[i], start + (i - 1) * size, start + (i - 1) * size + size)
    BY <2>1
  <2>3. at[i - 1] = start + (i - 1) * size /\ at[i] = start + i * size
    BY <2>1
  <2>4. start + (i - 1) * size + size = start + i * size
    BY <2>1
  <2> QED
    BY <2>2, <2>3, <2>4
<1>3. seqs \in Seq(Seq(Shape)) /\ Len(seqs) = n
  <2> DEFINE S == Seq(Shape)
  <2> HIDE DEF S
  <2>1. ASSUME NEW i \in 1 .. n PROVE seqs[i] \in S
    <3>1. i - 1 \in 0 .. n - 1 /\ (i - 1) + 1 = i
      OBVIOUS
    <3> QED
      BY <3>1 DEF S
  <2>2. seqs \in [1 .. n -> S]
    BY <2>1
  <2>3. seqs \in Seq(S) /\ Len(seqs) = n
    BY <2>2
  <2> QED
    BY <2>3 DEF S
<1> HIDE DEF at
<1>4. Gives(p, FlattenSeq(seqs), at[0], v)
  BY <1>1, <1>2, <1>3, LoopHalts
<1> QED
  BY <1>1, <1>4

(* A branch that makes no call. *)
LEMMA ThenNone ==
  ASSUME NEW p, NEW s, NEW x, NEW y, Runs(p, s, x, y)
  PROVE  Runs(p, s \o << >>, x, y)
<1> DEFINE S == Shape
<1>1. s \in Seq(S)
  BY RunsTyped
<1> HIDE DEF S
<1>2. s \o << >> = s
  BY <1>1
<1> QED
  BY <1>2

(* assert(message_id == ...); with the id in the header. *)
LEMMA IdRuns ==
  ASSUME NEW p, NEW x \in Int, HeaderRead(p), NEW ids \in SUBSET Nat, p.message_id \in ids
  PROVE  Runs(p, IdIn(ids), x, x)
<1> DEFINE c == [Op("id", 0, 0) EXCEPT !.ids = ids]
<1>1. c \in Shape /\ c.op = "id" /\ c.ids = ids
  <2>1. Op("id", 0, 0) \in Shape /\ Op("id", 0, 0).op = "id"
    BY OpShape DEF OpKinds
  <2> QED
    BY <2>1 DEF Shape
<1>2. Undecided \in Statuses /\ MessageId(p) \in ids
  BY DEF Statuses, MessageId
<1> HIDE DEF c
<1>3. Goes(p, c, x, Undecided, x, Undecided)
  BY <1>1, <1>2 DEF Goes
<1>4. Runs(p, << c >>, x, x)
  BY <1>1, <1>2, <1>3, OneLeads DEF Runs
<1> QED
  BY <1>4 DEF IdIn, c

(* A second ParseNmeaPayload starts again at bit 0 (Ais21, Ais6_1_40). *)
LEMMA ThenParseAgain ==
  ASSUME NEW p, NEW s, NEW x, NEW y, Runs(p, s, x, y)
  PROVE  Runs(p, s \o ParseAgain, x, 0)
<1> DEFINE c == Op("new_bitset", 0, 0)
<1>1. c \in Shape /\ c.op = "new_bitset"
  BY OpShape DEF OpKinds
<1> HIDE DEF c
<1>2. Goes(p, c, y, Undecided, 0, Undecided)
  BY <1>1 DEF Goes
<1> QED
  BY <1>1, <1>2, ThenOne DEF ParseAgain, c

(* The slots of one reservation of Ais20 have 30 bits. *)
LEMMA ReservationTiles ==
  ASSUME NEW at \in Nat
  PROVE  \E F \in Seq(Int \X Int) : Reservation(at) = Reads(F) /\ Tiles(F, at, at + 30)
<1> DEFINE F == << <<at, 12>>, <<at + 12, 4>>, <<at + 16, 3>>, <<at + 19, 11>> >>
<1>1. F \in Seq(Int \X Int) /\ Tiles(F, at, at + 30)
  BY DEF Tiles, Within
<1>2. Reservation(at) = Reads(F)
  BY DEF Reservation
<1> QED
  BY <1>1, <1>2

(* Three sequences of calls. *)
LEMMA Regroup ==
  ASSUME NEW a \in Seq(Shape), NEW b \in Seq(Shape), NEW c \in Seq(Shape)
  PROVE  a \o b \o c = a \o (b \o c)
<1> DEFINE S == Shape
<1> HIDE DEF S
<1>1. a \in Seq(S) /\ b \in Seq(S) /\ c \in Seq(S)
  BY DEF S
<1> QED
  BY <1>1

(* Backwards: some fields, before calls that settle. *)
LEMMA ReadsSettle ==
  ASSUME NEW p, IsPayload(p), NEW F, NEW y \in Int, NEW z \in Int, Tiles(F, y, z),
         NEW t \in Seq(Shape),
         z <= Limit(p) => Settles(p, t, z),
         z > Limit(p) => Unguarded(p)
  PROVE  Settles(p, Reads(F) \o t, y)
<1>1. Limit(p) \in Int
  BY PayloadBits
<1>2. CASE z <= Limit(p)
  BY <1>2, ReadsRun, SettlesAfter
<1>3. CASE z > Limit(p)
  <2> DEFINE s == << >>
  <2>1. Unguarded(p) /\ z > 6 * NumChars(p)
    BY <1>3 DEF Limit
  <2>2. Runs(p, s, y, y)
    BY NoneRuns
  <2>3. Reads(F) \in Seq(Shape)
    <3>1. F \in Seq(Int \X Int)
      BY DEF Tiles, Within
    <3> QED
      BY <3>1, ReadsShape
  <2>4. s \o Reads(F) = Reads(F)
    BY <2>3, NothingBefore
  <2> HIDE DEF s
  <2>5. Gives(p, s \o Reads(F), y, "aborted")
    BY <2>1, <2>2, ThenOverrun
  <2>6. Gives(p, Reads(F) \o t, y, "aborted")
    BY <2>4, <2>5, GivesThen
  <2> QED
    BY <2>1, <2>6 DEF Settles
<1> QED
  BY <1>1, <1>2, <1>3

(* One reservation of Ais20, before calls that settle the status. *)
LEMMA ReservationSettles ==
  ASSUME NEW p, IsPayload(p), NEW at \in Nat, NEW t \in Seq(Shape),
         at + 30 <= Limit(p) => Settles(p, t, at + 30),
         at + 30 > Limit(p) => Unguarded(p)
  PROVE  Settles(p, Reservation(at) \o t, at)
<1>1. PICK F \in Seq(Int \X Int) : Reservation(at) = Reads(F) /\ Tiles(F, at, at + 30)
  BY ReservationTiles
<1>2. at + 30 \in Int /\ at \in Int
  OBVIOUS
<1> QED
  BY <1>1, <1>2, ReadsSettle

(* The assertion at the end settles the status if it fails on unguarded    *)
(* payloads.                                                               *)
LEMMA EndSettles ==
  ASSUME NEW p, IsPayload(p), NEW x \in Int, Unguarded(p) <=> x # NumBits(p)
  PROVE  NoneRemaining \o Ok \in Seq(Shape) /\ Settles(p, NoneRemaining \o Ok, x)
<1>0. "AIS_OK" \in Given
  BY DEF Given
<1>1. NoneRemaining \o Ok \in Seq(Shape)
  BY <1>0, Shapes DEF Ok
<1> DEFINE e == NoneRemaining \o Ok
<1>2. CASE x = NumBits(p)
  <2>1. Gives(p, e, x, "AIS_OK") /\ ~ Unguarded(p)
    BY <1>2, EndGives
  <2> HIDE DEF e
  <2>2. Settles(p, e, x)
    BY <1>0, <2>1 DEF Settles
  <2> QED
    BY <1>1, <2>2 DEF e
<1>3. CASE x # NumBits(p)
  <2> DEFINE s == << >>
  <2>1. Runs(p, s, x, x)
    BY NoneRuns
  <2>2. s \o NoneRemaining = NoneRemaining
    BY Shapes, NothingBefore
  <2> HIDE DEF s
  <2>3. Gives(p, s \o NoneRemaining \o Ok, x, "aborted")
    BY <1>3, <2>1, BadEndGives
  <2>4. Gives(p, e, x, "aborted") /\ Unguarded(p)
    BY <1>3, <2>2, <2>3
  <2> HIDE DEF e
  <2>5. Settles(p, e, x)
    BY <2>4 DEF Settles
  <2> QED
    BY <1>1, <2>5 DEF e
<1> QED
  BY <1>1, <1>2, <1>3

(* A return settles the status of a guarded payload. *)
LEMMA ReturnSettles ==
  ASSUME NEW p, NEW x \in Int, ~ Unguarded(p), NEW v \in Given
  PROVE  Settles(p, Return(v), x)
  BY ReturnGives DEF Settles

(* The sizes of a payload whose header was read. *)
LEMMA Room ==
  ASSUME NEW p, IsPayload(p), HeaderRead(p)
  PROVE  /\ NumChars(p) \in Nat /\ NumBits(p) \in Int /\ Limit(p) \in Int /\ p.pad \in 0 .. 5
         /\ NumBits(p) = 6 * NumChars(p) - p.pad /\ NumBits(p) >= 38
         /\ NumBits(p) <= Limit(p) /\ Limit(p) <= 6 * NumChars(p)
         /\ Unguarded(p) => Limit(p) = 6 * NumChars(p)
<1>1. /\ NumChars(p) \in Nat /\ NumBits(p) \in Int /\ p.pad \in 0 .. 5
      /\ NumBits(p) = 6 * NumChars(p) - p.pad /\ NumBits(p) >= 38
  BY DEF IsPayload, HeaderRead, NumBits, NumChars, MinMessageBits
<1>2. Limit(p) \in Int /\ NumBits(p) <= Limit(p) /\ Limit(p) <= 6 * NumChars(p)
  BY PayloadBits
<1>3. Unguarded(p) => Limit(p) = 6 * NumChars(p)
  BY DEF Limit
<1> QED
  BY <1>1, <1>2, <1>3

(* The endings of constructors are calls. *)
LEMMA Endings ==
  /\ Ok \in Seq(Shape) /\ BadBitCount \in Seq(Shape) /\ NoneRemaining \o Ok \in Seq(Shape)
  /\ "AIS_OK" \in Given /\ \A e \in Errors : e \in Given /\ Return(e) \in Seq(Shape)
<1>1. "AIS_OK" \in Given /\ "AIS_ERR_BAD_BIT_COUNT" \in Given /\ Errors \subseteq Given
  BY DEF Given, Errors
<1> QED
  BY <1>1, Shapes DEF Ok, BadBitCount

(* The assertion of the id is a call. *)
LEMMA IdShape ==
  ASSUME NEW ids \in SUBSET Nat
  PROVE  \E c \in Shape : c.op = "id" /\ c.ids = ids /\ IdIn(ids) = << c >>
<1> DEFINE c == [Op("id", 0, 0) EXCEPT !.ids = ids]
<1>1. c \in Shape /\ c.op = "id" /\ c.ids = ids
  <2>1. Op("id", 0, 0) \in Shape /\ Op("id", 0, 0).op = "id"
    BY OpShape DEF OpKinds
  <2> QED
    BY <2>1 DEF Shape
<1>2. IdIn(ids) = << c >>
  BY DEF IdIn
<1> HIDE DEF c
<1> QED
  BY <1>1, <1>2

(* The second parse is a call. *)
LEMMA ParseAgainShape == ParseAgain \in Seq(Shape)
<1>1. Op("new_bitset", 0, 0) \in Shape
  BY OpShape DEF OpKinds
<1> QED
  BY <1>1 DEF ParseAgain

(* A constructor of another message aborts at the assertion of its id. *)
LEMMA NotIts ==
  ASSUME NEW p, NEW x \in Int, NEW u \in Statuses, NEW ids \in SUBSET Nat,
         MessageId(p) \notin ids
  PROVE  Halts(p, IdIn(ids), x, u, "aborted")
<1>1. PICK c \in Shape : c.op = "id" /\ c.ids = ids /\ IdIn(ids) = << c >>
  BY IdShape
<1>2. Stops(p, c, x, u, "aborted")
  BY <1>1 DEF Stops
<1> QED
  BY <1>1, <1>2, OneHalts

(* What settles the status are calls. *)
LEMMA SettlesShape ==
  ASSUME NEW p, NEW s, NEW x, Settles(p, s, x)
  PROVE  s \in Seq(Shape)
  BY DEF Settles, Gives, Halts

(* The passes of a loop are sequences of calls. *)
LEMMA LoopTyped ==
  ASSUME NEW n \in Nat, NEW seqs, seqs = [i \in 1 .. n |-> seqs[i]],
         \A i \in 0 .. n - 1 : seqs[i + 1] \in Seq(Shape)
  PROVE  seqs \in Seq(Seq(Shape)) /\ Len(seqs) = n
<1> DEFINE S == Seq(Shape)
<1> HIDE DEF S
<1>1. ASSUME NEW i \in 1 .. n PROVE seqs[i] \in S
  <2>1. i - 1 \in 0 .. n - 1 /\ (i - 1) + 1 = i
    OBVIOUS
  <2> QED
    BY <2>1 DEF S
<1>2. seqs \in [1 .. n -> S]
  BY <1>1
<1>3. seqs \in Seq(S) /\ Len(seqs) = n
  BY <1>2
<1> QED
  BY <1>3 DEF S

(* A loop over pieces of one size, of which one ends elsewhere.            *)
LEMMA OddLoop ==
  ASSUME NEW p, NEW n \in Nat, NEW start \in Int, NEW size \in Int,
         NEW seqs, seqs = [i \in 1 .. n |-> seqs[i]],
         \A i \in 0 .. n - 1 : seqs[i + 1] \in Seq(Shape),
         NEW k \in 0 .. n - 1,
         \A i \in 0 .. k - 1 : Runs(p, seqs[i + 1], start + i * size, start + i * size + size),
         NEW y \in Int, NEW e \in Statuses,
         Leads(p, seqs[k + 1], start + k * size, Undecided, y, e)
  PROVE  /\ k + 1 = n => Leads(p, FlattenSeq(seqs), start, Undecided, y, e)
         /\ \A v : k + 1 < n /\ Halts(p, seqs[k + 2], y, e, v)
              => Halts(p, FlattenSeq(seqs), start, Undecided, v)
<1> DEFINE at == [i \in 0 .. k + 1 |-> IF i = k + 1 THEN y ELSE start + i * size]
           st == [i \in 0 .. k + 1 |-> IF i = k + 1 THEN e ELSE Undecided]
<1>0. k \in Nat /\ k + 1 \in Nat /\ k + 1 <= n
  OBVIOUS
<1>1. /\ at \in [0 .. k + 1 -> Int] /\ at[0] = start /\ at[k + 1] = y
      /\ \A i \in 0 .. k : at[i] = start + i * size
  BY <1>0
<1>2. /\ st \in [0 .. k + 1 -> Statuses] /\ st[k + 1] = e
      /\ \A i \in 0 .. k : st[i] = Undecided
  BY <1>0 DEF Statuses
<1>3. st[0] = Undecided /\ 0 \in 0 .. k /\ k \in 0 .. k
  BY <1>0, <1>2
<1> HIDE DEF at, st
<1>4. ASSUME NEW i \in 1 .. k + 1
      PROVE  Leads(p, seqs[i], at[i - 1], st[i - 1], at[i], st[i])
  <2>1. CASE i = k + 1
    <3>1. i - 1 = k
      BY <1>0, <2>1
    <3> QED
      BY <1>1, <1>2, <1>3, <2>1, <3>1
  <2>2. CASE i # k + 1
    <3>1. i - 1 \in 0 .. k - 1 /\ (i - 1) + 1 = i /\ i - 1 \in 0 .. k /\ i \in 0 .. k
      BY <1>0, <2>2
    <3>2. Runs(p, seqs[i], start + (i - 1) * size, start + (i - 1) * size + size)
      BY <3>1
    <3>3. start + (i - 1) * size + size = start + i * size
      BY SMTT(30), <3>1
    <3> QED
      BY <1>1, <1>2, <3>1, <3>2, <3>3 DEF Runs
  <2> QED
    BY <2>1, <2>2
<1>5. seqs \in Seq(Seq(Shape)) /\ Len(seqs) = n
  BY LoopTyped
<1>6. ASSUME k + 1 = n PROVE Leads(p, FlattenSeq(seqs), start, Undecided, y, e)
  <2>1. Leads(p, FlattenSeq(seqs), at[0], st[0], at[n], st[n])
    BY <1>1, <1>2, <1>4, <1>5, <1>6, LoopLeads
  <2> QED
    BY <1>1, <1>2, <1>3, <1>6, <2>1
<1>7. ASSUME NEW v, k + 1 < n, Halts(p, seqs[k + 2], y, e, v)
      PROVE  Halts(p, FlattenSeq(seqs), start, Undecided, v)
  <2>1. k + 1 \in 0 .. n - 1 /\ (k + 1) + 1 = k + 2
    BY <1>0, <1>7
  <2>2. Halts(p, seqs[(k + 1) + 1], at[k + 1], st[k + 1], v)
    BY <1>1, <1>2, <1>7, <2>1
  <2>3. Halts(p, FlattenSeq(seqs), at[0], st[0], v)
    BY <1>1, <1>2, <1>4, <1>5, <2>1, <2>2, LoopLeft
  <2> QED
    BY <1>1, <1>3, <2>3
<1> QED
  BY <1>6, <1>7

(* The first field is not where the cursor is, in any status.              *)
LEMMA Misread ==
  ASSUME NEW p, NEW x \in Int, NEW u \in Statuses, NEW F, F \in Seq(Int \X Int), Len(F) > 0,
         F[1][1] # x
  PROVE  Halts(p, Reads(F), x, u, "aborted")
<1>1. /\ Reads(F) \in Seq(Shape) /\ Len(Reads(F)) = Len(F) /\ Len(F) \in Nat
      /\ \A i \in 1 .. Len(F) : /\ Reads(F)[i].op = "read"
                                /\ Reads(F)[i].at = F[i][1]
  BY ReadsShape
<1>2. 0 \in 0 .. Len(Reads(F)) - 1 /\ 0 + 1 = 1 /\ 1 \in 1 .. Len(F)
  BY <1>1
<1>3. Stops(p, Reads(F)[1], x, u, "aborted")
  BY <1>1, <1>2 DEF Stops
<1>4. Reach(p, Reads(F), 0, x, u, x, u)
  BY ReachNone
<1> QED
  BY <1>1, <1>2, <1>3, <1>4 DEF Halts

(* The first of some of n sub-messages. *)
LEMMA Least ==
  ASSUME NEW n \in Nat, NEW T, NEW j \in 0 .. n - 1, j \in T
  PROVE  \E k \in 0 .. n - 1 : k \in T /\ \A i \in 0 .. k - 1 : i \notin T
<1> DEFINE X == T \cap (0 .. n - 1)
<1>1. IsWellFoundedOn(Less, Nat)
  <2>1. OpToRel(<, Nat) = Less
    BY DEF OpToRel, Less
  <2> QED
    BY <2>1, NatLessThanWellFounded
<1>2. X \subseteq Nat /\ X # {}
  OBVIOUS
<1> HIDE DEF X
<1>3. \E x \in X : \A y \in X : ~ << y, x >> \in Less
  BY <1>1, <1>2, WFMin
<1>4. PICK k \in X : \A y \in X : ~ << y, k >> \in Less
  BY <1>3
<1>5. k \in 0 .. n - 1 /\ k \in T
  BY <1>4 DEF X
<1>6. ASSUME NEW i \in 0 .. k - 1 PROVE i \notin T
  <2>1. i \in 0 .. n - 1 /\ << i, k >> \in Less
    BY <1>5, <1>6 DEF Less
  <2> QED
    BY <1>4, <2>1 DEF X
<1> QED
  BY <1>5, <1>6

(* The kinds of sub-messages, where those of the payload are among K. *)
LEMMA KindIn ==
  ASSUME NEW p, NEW K, p.kinds \in Seq(K), p.kinds # << >>, NEW i \in Nat
  PROVE  Kind(p, i) \in K
  BY DEF Kind

(* status = e; without a return. *)
LEMMA SetStatusLeads ==
  ASSUME NEW p, NEW x \in Int, NEW e \in Errors
  PROVE  Leads(p, SetStatus(e), x, Undecided, x, e)
<1> DEFINE c == [Op("set_status", 0, 0) EXCEPT !.what = e]
<1>1. c \in Shape /\ c.op = "set_status" /\ c.what = e
  <2>1. Op("set_status", 0, 0) \in Shape /\ Op("set_status", 0, 0).op = "set_status"
    BY OpShape DEF OpKinds
  <2>2. e \in Given \cup {""}
    BY DEF Given
  <2> QED
    BY <2>1, <2>2 DEF Shape, Op
<1>2. SetStatus(e) = << c >>
  BY DEF SetStatus
<1> HIDE DEF c
<1>3. Undecided \in Statuses /\ e \in Statuses
  BY DEF Statuses, Given
<1>4. Goes(p, c, x, Undecided, x, e)
  BY <1>1 DEF Goes
<1> QED
  BY <1>1, <1>2, <1>3, <1>4, OneLeads

-----------------------------------------------------------------------------
(* Messages of one layout.                                                 *)

(* Ais4_11 settles the status, on every branch it takes. *)
LEMMA Ais4_11Gives ==
  ASSUME NEW p, IsPayload(p), HeaderRead(p), p.message_id \in {4, 11}
  PROVE  \E v \in Given : Gives(p, Ais4_11(p), 38, v)
<1> DEFINE a == << <<38, 14>>, <<52, 4>>, <<56, 5>>, <<61, 5>>, <<66, 6>>,
                   <<72, 6>>, <<78, 1>> >>
           b == << <<134, 4>>, <<138, 1>>, <<139, 9>>, <<148, 1>>, <<149, 2>> >>
           calls == IdIn({4, 11}) \o SeekTo(38) \o Reads(a) \o Point(79, 55) \o Reads(b)
                    \o Sotdma(p, 151) \o NoneRemaining \o Ok
           ok == Sized(p, 28, 0)
<1>1. Tiles(a, 38, 79) /\ Tiles(b, 134, 151)
  BY DEF Tiles, Within
<1> HIDE DEF a, b
<1>2. ASSUME ok PROVE Gives(p, calls, 38, "AIS_OK")
  <2>1. NumBits(p) = 168 /\ 168 <= Limit(p) /\ Limit(p) \in Int
    BY <1>2, PayloadBits DEF Sized, NumBits, NumChars
  <2>2. Runs(p, IdIn({4, 11}) \o SeekTo(38), 38, 38)
    BY <2>1, Start
  <2> QED
    BY <1>1, <2>1, <2>2, ThenReads, ThenPoint, SotdmaRuns, RunsThen, ThenEnd
<1>3. Ais4_11(p) = Guarded(ok, calls)
  BY DEF Ais4_11, a, b
<1>4. ok \in BOOLEAN /\ 38 \in Int /\ "AIS_OK" \in Given
  BY DEF Given, Sized
<1> HIDE DEF calls, ok
<1>5. \E v \in Given : Gives(p, Guarded(ok, calls), 38, v)
  BY <1>2, <1>4, PlainGives, Zenon
<1> QED
  BY <1>3, <1>5

(* Ais5 settles the status, on every branch it takes. *)
LEMMA Ais5Gives ==
  ASSUME NEW p, IsPayload(p), HeaderRead(p), p.message_id = 5
  PROVE  \E v \in Given : Gives(p, Ais5(p), 38, v)
<1> DEFINE a == << <<38, 2>>, <<40, 30>> >>
           b == << <<232, 8>>, <<240, 9>>, <<249, 9>>, <<258, 6>>, <<264, 6>>,
                   <<270, 4>>, <<274, 4>>, <<278, 5>>, <<283, 5>>, <<288, 6>>,
                   <<294, 8>> >>
           c == << <<422, 1>>, <<423, 1>> >>
           calls == Id(5) \o SeekTo(38) \o Reads(a) \o Text(70, 42) \o Text(112, 120)
                    \o Reads(b) \o Text(302, 120) \o Reads(c) \o NoneRemaining
                    \o Ok
           ok == Sized(p, 71, 2)
<1>1. Tiles(a, 38, 70) /\ Tiles(b, 232, 302) /\ Tiles(c, 422, 424)
  BY DEF Tiles, Within
<1> HIDE DEF a, b, c
<1>2. ASSUME ok PROVE Gives(p, calls, 38, "AIS_OK")
  <2>1. NumBits(p) = 424 /\ 424 <= Limit(p) /\ Limit(p) \in Int
    BY <1>2, PayloadBits DEF Sized, NumBits, NumChars
  <2>2. Runs(p, Id(5) \o SeekTo(38), 38, 38)
    BY <2>1, Start DEF Id
  <2> QED
    BY <1>1, <2>1, <2>2, ThenReads, ThenText, ThenEnd
<1>3. Ais5(p) = Guarded(ok, calls)
  BY DEF Ais5, a, b, c
<1>4. ok \in BOOLEAN /\ 38 \in Int /\ "AIS_OK" \in Given
  BY DEF Given, Sized
<1> HIDE DEF calls, ok
<1>5. \E v \in Given : Gives(p, Guarded(ok, calls), 38, v)
  BY <1>2, <1>4, PlainGives, Zenon
<1> QED
  BY <1>3, <1>5

(* Ais9 settles the status, on every branch it takes. *)
LEMMA Ais9Gives ==
  ASSUME NEW p, IsPayload(p), HeaderRead(p), p.message_id = 9
  PROVE  \E v \in Given : Gives(p, Ais9(p), 38, v)
<1> DEFINE a == << <<38, 12>>, <<50, 10>>, <<60, 1>> >>
           b == << <<116, 12>>, <<128, 6>>, <<134, 1>>, <<135, 7>>, <<142, 1>>,
                   <<143, 3>>, <<146, 1>>, <<147, 1>>, <<148, 1>>, <<149, 2>> >>
           tail == IF p.itdma THEN Itdma(151) ELSE Sotdma(p, 151)
           calls == Id(9) \o SeekTo(38) \o Reads(a) \o Point(61, 55) \o Reads(b) \o tail
                    \o NoneRemaining \o Ok
           ok == Sized(p, 28, 0)
<1>1. Tiles(a, 38, 61) /\ Tiles(b, 116, 151)
  BY DEF Tiles, Within
<1> HIDE DEF a, b
<1>2. ASSUME ok PROVE Gives(p, calls, 38, "AIS_OK")
  <2>1. NumBits(p) = 168 /\ 168 <= Limit(p) /\ Limit(p) \in Int
    BY <1>2, PayloadBits DEF Sized, NumBits, NumChars
  <2>2. Runs(p, Id(9) \o SeekTo(38), 38, 38)
    BY <2>1, Start DEF Id
  <2>3. Runs(p, tail, 151, 168)
    <3>1. CASE p.itdma
      BY <1>1, <2>1, <3>1, ItdmaRuns DEF tail
    <3>2. CASE ~ (p.itdma)
      BY <1>1, <2>1, <3>2, SotdmaRuns DEF tail
    <3> QED
      BY <3>1, <3>2
  <2> HIDE DEF tail
  <2> QED
    BY <1>1, <2>1, <2>2, <2>3, ThenReads, ThenPoint, RunsThen, ThenEnd
<1>3. Ais9(p) = Guarded(ok, calls)
  BY DEF Ais9, a, b, tail
<1>4. ok \in BOOLEAN /\ 38 \in Int /\ "AIS_OK" \in Given
  BY DEF Given, Sized
<1> HIDE DEF calls, ok, tail
<1>5. \E v \in Given : Gives(p, Guarded(ok, calls), 38, v)
  BY <1>2, <1>4, PlainGives, Zenon
<1> QED
  BY <1>3, <1>5

(* Ais10 settles the status, on every branch it takes. *)
LEMMA Ais10Gives ==
  ASSUME NEW p, IsPayload(p), HeaderRead(p), p.message_id = 10
  PROVE  \E v \in Given : Gives(p, Ais10(p), 38, v)
<1> DEFINE a == << <<38, 2>>, <<40, 30>>, <<70, 2>> >>
           calls == Id(10) \o SeekTo(38) \o Reads(a) \o NoneRemaining \o Ok
           ok == Sized(p, 12, 0)
<1>1. Tiles(a, 38, 72)
  BY DEF Tiles, Within
<1> HIDE DEF a
<1>2. ASSUME ok PROVE Gives(p, calls, 38, "AIS_OK")
  <2>1. NumBits(p) = 72 /\ 72 <= Limit(p) /\ Limit(p) \in Int
    BY <1>2, PayloadBits DEF Sized, NumBits, NumChars
  <2>2. Runs(p, Id(10) \o SeekTo(38), 38, 38)
    BY <2>1, Start DEF Id
  <2> QED
    BY <1>1, <2>1, <2>2, ThenReads, ThenEnd
<1>3. Ais10(p) = Guarded(ok, calls)
  BY DEF Ais10, a
<1>4. ok \in BOOLEAN /\ 38 \in Int /\ "AIS_OK" \in Given
  BY DEF Given, Sized
<1> HIDE DEF calls, ok
<1>5. \E v \in Given : Gives(p, Guarded(ok, calls), 38, v)
  BY <1>2, <1>4, PlainGives, Zenon
<1> QED
  BY <1>3, <1>5

(* 1:2:3 settles the status behind its length test. *)
LEMMA Ais1_2_3Gives ==
  ASSUME NEW p, IsPayload(p), HeaderRead(p), p.message_id \in {1, 2, 3}
  PROVE  \E v \in Given : Gives(p, Ais1_2_3(p), 38, v)
<1> DEFINE a == << <<38, 4>>, <<42, 8>>, <<50, 10>>, <<60, 1>> >>
           b == << <<116, 12>>, <<128, 9>>, <<137, 6>>, <<143, 2>>, <<145, 3>>,
                   <<148, 1>>, <<149, 2>> >>
           tail == IF p.message_id \in {1, 2} THEN Sotdma(p, 151) ELSE Itdma(151)
           calls == IdIn({1, 2, 3}) \o SeekTo(38) \o Reads(a) \o Point(61, 55) \o Reads(b)
                    \o tail \o NoneRemaining \o Ok
           ok == Sized(p, 28, 0)
<1>1. Tiles(a, 38, 61) /\ Tiles(b, 116, 151)
  BY DEF Tiles, Within
<1> HIDE DEF a, b
<1>2. ASSUME ok PROVE Gives(p, calls, 38, "AIS_OK")
  <2>1. NumBits(p) = 168 /\ 168 <= Limit(p) /\ Limit(p) \in Int
    BY <1>2, PayloadBits DEF Sized, NumBits, NumChars
  <2>2. Runs(p, IdIn({1, 2, 3}) \o SeekTo(38), 38, 38)
    BY <2>1, Start
  <2>3. Runs(p, tail, 151, 168)
    <3>1. CASE p.message_id \in {1, 2}
      BY <1>1, <2>1, <3>1, SotdmaRuns DEF tail
    <3>2. CASE ~ (p.message_id \in {1, 2})
      BY <1>1, <2>1, <3>2, ItdmaRuns DEF tail
    <3> QED
      BY <3>1, <3>2
  <2> HIDE DEF tail
  <2> QED
    BY <1>1, <2>1, <2>2, <2>3, ThenReads, ThenPoint, RunsThen, ThenEnd
<1>3. Ais1_2_3(p) = Guarded(ok, calls)
  BY DEF Ais1_2_3, a, b, tail
<1>4. ok \in BOOLEAN /\ 38 \in Int /\ "AIS_OK" \in Given
  BY DEF Given, Sized
<1> HIDE DEF calls, ok, tail
<1>5. \E v \in Given : Gives(p, Guarded(ok, calls), 38, v)
  BY <1>2, <1>4, PlainGives, Zenon
<1> QED
  BY <1>3, <1>5

(* Ais12 settles the status, on every branch it takes. *)
LEMMA Ais12Gives ==
  ASSUME NEW p, IsPayload(p), HeaderRead(p), p.message_id = 12
  PROVE  \E v \in Given : Gives(p, Ais12(p), 38, v)
<1> DEFINE a == << <<38, 2>>, <<40, 30>>, <<70, 1>>, <<71, 1>> >>
           calls == Id(12) \o SeekTo(38) \o Reads(a) \o TextAndSpare(p, 72) \o Ok
           ok == NumBits(p) \in 72 .. 1192
<1>1. Tiles(a, 38, 72)
  BY DEF Tiles, Within
<1> HIDE DEF a
<1>2. ASSUME ok PROVE Gives(p, calls, 38, "AIS_OK")
  <2>1. NumBits(p) \in Int /\ NumBits(p) >= 72 /\ NumBits(p) <= Limit(p) /\ Limit(p) \in Int
    BY <1>2, PayloadBits
  <2>2. Runs(p, Id(12) \o SeekTo(38), 38, 38)
    BY <2>1, Start DEF Id
  <2>3. "AIS_OK" \in Given
    BY DEF Given
  <2> QED
    BY <1>1, <2>1, <2>2, <2>3, ThenReads, ThenTextAndSpare, ThenReturn DEF Ok
<1>3. Ais12(p) = Guarded(ok, calls)
  BY DEF Ais12, a
<1>4. ok \in BOOLEAN /\ 38 \in Int /\ "AIS_OK" \in Given
  BY DEF Given
<1> HIDE DEF calls, ok
<1>5. \E v \in Given : Gives(p, Guarded(ok, calls), 38, v)
  BY <1>2, <1>4, PlainGives, Zenon
<1> QED
  BY <1>3, <1>5

(* Ais14 settles the status, on every branch it takes. *)
LEMMA Ais14Gives ==
  ASSUME NEW p, IsPayload(p), HeaderRead(p), p.message_id = 14
  PROVE  \E v \in Given : Gives(p, Ais14(p), 38, v)
<1> DEFINE a == << <<38, 2>> >>
           calls == Id(14) \o SeekTo(38) \o Reads(a) \o TextAndSpare(p, 40) \o Ok
           ok == NumBits(p) \in 46 .. 1008
<1>1. Tiles(a, 38, 40)
  BY DEF Tiles, Within
<1> HIDE DEF a
<1>2. ASSUME ok PROVE Gives(p, calls, 38, "AIS_OK")
  <2>1. NumBits(p) \in Int /\ NumBits(p) >= 46 /\ NumBits(p) <= Limit(p) /\ Limit(p) \in Int
    BY <1>2, PayloadBits
  <2>2. Runs(p, Id(14) \o SeekTo(38), 38, 38)
    BY <2>1, Start DEF Id
  <2>3. "AIS_OK" \in Given
    BY DEF Given
  <2> QED
    BY <1>1, <2>1, <2>2, <2>3, ThenReads, ThenTextAndSpare, ThenReturn DEF Ok
<1>3. Ais14(p) = Guarded(ok, calls)
  BY DEF Ais14, a
<1>4. ok \in BOOLEAN /\ 38 \in Int /\ "AIS_OK" \in Given
  BY DEF Given
<1> HIDE DEF calls, ok
<1>5. \E v \in Given : Gives(p, Guarded(ok, calls), 38, v)
  BY <1>2, <1>4, PlainGives, Zenon
<1> QED
  BY <1>3, <1>5

(* Ais19 settles the status, on every branch it takes. *)
LEMMA Ais19Gives ==
  ASSUME NEW p, IsPayload(p), HeaderRead(p), p.message_id = 19
  PROVE  \E v \in Given : Gives(p, Ais19(p), 38, v)
<1> DEFINE a == << <<38, 8>>, <<46, 10>>, <<56, 1>> >>
           b == << <<112, 12>>, <<124, 9>>, <<133, 6>>, <<139, 4>> >>
           c == << <<263, 8>>, <<271, 9>>, <<280, 9>>, <<289, 6>>, <<295, 6>>,
                   <<301, 4>>, <<305, 1>>, <<306, 1>>, <<307, 1>>, <<308, 4>> >>
           calls == Id(19) \o SeekTo(38) \o Reads(a) \o Point(57, 55) \o Reads(b)
                    \o Text(143, 120) \o Reads(c) \o NoneRemaining \o Ok
           ok == Sized(p, 52, 0)
<1>1. Tiles(a, 38, 57) /\ Tiles(b, 112, 143) /\ Tiles(c, 263, 312)
  BY DEF Tiles, Within
<1> HIDE DEF a, b, c
<1>2. ASSUME ok PROVE Gives(p, calls, 38, "AIS_OK")
  <2>1. NumBits(p) = 312 /\ 312 <= Limit(p) /\ Limit(p) \in Int
    BY <1>2, PayloadBits DEF Sized, NumBits, NumChars
  <2>2. Runs(p, Id(19) \o SeekTo(38), 38, 38)
    BY <2>1, Start DEF Id
  <2> QED
    BY <1>1, <2>1, <2>2, ThenReads, ThenPoint, ThenText, ThenEnd
<1>3. Ais19(p) = Guarded(ok, calls)
  BY DEF Ais19, a, b, c
<1>4. ok \in BOOLEAN /\ 38 \in Int /\ "AIS_OK" \in Given
  BY DEF Given, Sized
<1> HIDE DEF calls, ok
<1>5. \E v \in Given : Gives(p, Guarded(ok, calls), 38, v)
  BY <1>2, <1>4, PlainGives, Zenon
<1> QED
  BY <1>3, <1>5

(* Ais23 settles the status, on every branch it takes. *)
LEMMA Ais23Gives ==
  ASSUME NEW p, IsPayload(p), HeaderRead(p), p.message_id = 23
  PROVE  \E v \in Given : Gives(p, Ais23(p), 38, v)
<1> DEFINE a == << <<38, 2>> >>
           b == << <<110, 4>>, <<114, 8>>, <<122, 22>>, <<144, 2>>, <<146, 4>>,
                   <<150, 4>>, <<154, 6>> >>
           calls == Id(23) \o SeekTo(38) \o Reads(a) \o Point(40, 35) \o Point(75, 35)
                    \o Reads(b) \o NoneRemaining \o Ok
           ok == Sized(p, 27, 2)
<1>1. Tiles(a, 38, 40) /\ Tiles(b, 110, 160)
  BY DEF Tiles, Within
<1> HIDE DEF a, b
<1>2. ASSUME ok PROVE Gives(p, calls, 38, "AIS_OK")
  <2>1. NumBits(p) = 160 /\ 160 <= Limit(p) /\ Limit(p) \in Int
    BY <1>2, PayloadBits DEF Sized, NumBits, NumChars
  <2>2. Runs(p, Id(23) \o SeekTo(38), 38, 38)
    BY <2>1, Start DEF Id
  <2> QED
    BY <1>1, <2>1, <2>2, ThenReads, ThenPoint, ThenEnd
<1>3. Ais23(p) = Guarded(ok, calls)
  BY DEF Ais23, a, b
<1>4. ok \in BOOLEAN /\ 38 \in Int /\ "AIS_OK" \in Given
  BY DEF Given, Sized
<1> HIDE DEF calls, ok
<1>5. \E v \in Given : Gives(p, Guarded(ok, calls), 38, v)
  BY <1>2, <1>4, PlainGives, Zenon
<1> QED
  BY <1>3, <1>5

(* Ais27 settles the status, on every branch it takes. *)
LEMMA Ais27Gives ==
  ASSUME NEW p, IsPayload(p), HeaderRead(p), p.message_id = 27
  PROVE  \E v \in Given : Gives(p, Ais27(p), 38, v)
<1> DEFINE a == << <<38, 1>>, <<39, 1>>, <<40, 4>> >>
           b == << <<79, 6>>, <<85, 9>>, <<94, 1>>, <<95, 1>> >>
           calls == Id(27) \o SeekTo(38) \o Reads(a) \o Point(44, 35) \o Reads(b)
                    \o NoneRemaining \o Ok
           ok == p.pad = 0 /\ NumBits(p) = 96
<1>1. Tiles(a, 38, 44) /\ Tiles(b, 79, 96)
  BY DEF Tiles, Within
<1> HIDE DEF a, b
<1>2. ASSUME ok PROVE Gives(p, calls, 38, "AIS_OK")
  <2>1. NumBits(p) = 96 /\ 96 <= Limit(p) /\ Limit(p) \in Int
    BY <1>2, PayloadBits
  <2>2. Runs(p, Id(27) \o SeekTo(38), 38, 38)
    BY <2>1, Start DEF Id
  <2> QED
    BY <1>1, <2>1, <2>2, ThenReads, ThenPoint, ThenEnd
<1>3. Ais27(p) = Guarded(ok, calls)
  BY DEF Ais27, a, b
<1>4. ok \in BOOLEAN /\ 38 \in Int /\ "AIS_OK" \in Given
  BY DEF Given
<1> HIDE DEF calls, ok
<1>5. \E v \in Given : Gives(p, Guarded(ok, calls), 38, v)
  BY <1>2, <1>4, PlainGives, Zenon
<1> QED
  BY <1>3, <1>5

(* Ais15 (ais15.cpp): any of its lengths, each of the reads it makes for   *)
(* them.                                                                   *)
LEMMA Ais15Settles ==
  ASSUME NEW p, IsPayload(p), HeaderRead(p), p.message_id = 15
  PROVE  Settles(p, Ais15(p), 38)
<1> DEFINE a == << <<38, 2>>, <<40, 30>>, <<70, 6>>, <<76, 12>> >>
           b == << <<88, 2>>, <<90, 6>>, <<96, 12>> >>
           c == << <<108, 2>>, <<110, 30>>, <<140, 6>>, <<146, 12>>, <<158, 2>> >>
           chars == NumChars(p)
           tail == CASE chars = 15 -> NoneRemaining \o Ok
                     [] chars = 18 -> Reads(b) \o Ok
                     [] chars = 27 -> Reads(b) \o Reads(c) \o NoneRemaining \o Ok
           calls == Id(15) \o SeekTo(38) \o Reads(a) \o tail
           ok == chars \in {15, 18, 27}
<1>1. Tiles(a, 38, 88) /\ Tiles(b, 88, 108) /\ Tiles(c, 108, 160)
  BY DEF Tiles, Within
<1>2. /\ chars \in Nat /\ Limit(p) \in Int /\ NumBits(p) \in Int /\ "AIS_OK" \in Given
      /\ NumBits(p) = 6 * chars - p.pad /\ p.pad \in 0 .. 5 /\ NumBits(p) <= Limit(p)
  BY PayloadBits DEF HeaderRead, NumBits, NumChars, IsPayload, Given
<1>3. Unguarded(p) <=> (chars \in {15, 27} /\ p.pad # 2)
  BY DEF Unguarded
<1>4. chars = 18 \/ Unguarded(p) => Limit(p) = 6 * chars
  BY DEF Limit
<1>5. Ais15(p) = Guarded(ok, calls)
  BY DEF Ais15
<1> HIDE DEF a, b, c, chars
<1>6. ASSUME ok PROVE Runs(p, Id(15) \o SeekTo(38) \o Reads(a), 38, 88)
  <2>1. NumBits(p) > 38 /\ 88 <= Limit(p)
    BY <1>2, <1>3, <1>4, <1>6
  <2>2. Runs(p, Id(15) \o SeekTo(38), 38, 38)
    BY <2>1, Start DEF Id
  <2> QED
    BY <1>1, <1>2, <2>1, <2>2, ThenReads
<1>7. ASSUME chars = 15 PROVE Settles(p, tail, 88)
  <2>1. tail = NoneRemaining \o Ok
    BY <1>7
  <2> HIDE DEF tail
  <2>2. CASE p.pad = 2
    <3>1. NumBits(p) = 88
      BY <1>2, <1>7, <2>2
    <3>2. Gives(p, tail, 88, "AIS_OK")
      BY <2>1, <3>1, EndGives
    <3> QED
      BY <1>2, <1>3, <2>2, <3>2 DEF Settles
  <2>3. CASE p.pad # 2
    <3> DEFINE s == << >>
    <3>1. Runs(p, s, 88, 88) /\ NumBits(p) # 88
      BY <1>2, <1>7, <2>3, NoneRuns
    <3>2. s \o NoneRemaining = NoneRemaining
      BY Shapes, NothingBefore
    <3> HIDE DEF s
    <3>3. Gives(p, s \o NoneRemaining \o Ok, 88, "aborted")
      BY <3>1, BadEndGives
    <3> QED
      BY <1>3, <1>7, <2>1, <2>3, <3>2, <3>3 DEF Settles
  <2> QED
    BY <2>2, <2>3
<1>8. ASSUME chars = 18 PROVE Settles(p, tail, 88)
  <2>1. tail = Reads(b) \o Ok
    BY <1>8
  <2> HIDE DEF tail
  <2>2. Limit(p) = 108
    BY <1>4, <1>8
  <2>3. Runs(p, Reads(b), 88, 108)
    BY <1>1, <2>2, ReadsRun
  <2>4. Gives(p, tail, 88, "AIS_OK")
    BY <1>2, <2>1, <2>3, ThenReturn DEF Ok
  <2> QED
    BY <1>2, <1>3, <1>8, <2>4 DEF Settles
<1>9. ASSUME chars = 27 PROVE Settles(p, tail, 88)
  <2>1. tail = Reads(b) \o Reads(c) \o NoneRemaining \o Ok
    BY <1>9
  <2> HIDE DEF tail
  <2>2. 160 <= Limit(p)
    BY <1>2, <1>3, <1>4, <1>9
  <2>3. Runs(p, Reads(b) \o Reads(c), 88, 160)
    BY <1>1, <1>2, <2>2, ReadsRun, ThenReads
  <2>4. CASE p.pad = 2
    <3>1. NumBits(p) = 160
      BY <1>2, <1>9, <2>4
    <3>2. Gives(p, tail, 88, "AIS_OK")
      BY <2>1, <2>3, <3>1, ThenEnd
    <3> QED
      BY <1>2, <1>3, <2>4, <3>2 DEF Settles
  <2>5. CASE p.pad # 2
    <3>1. NumBits(p) # 160
      BY <1>2, <1>9, <2>5
    <3>2. Gives(p, tail, 88, "aborted")
      BY <2>1, <2>3, <3>1, BadEndGives
    <3> QED
      BY <1>3, <1>9, <2>5, <3>2 DEF Settles
  <2> QED
    BY <2>4, <2>5
<1>10. ok => Settles(p, calls, 38)
  <2>1. ok => Settles(p, tail, 88)
    BY <1>7, <1>8, <1>9
  <2> HIDE DEF tail, ok
  <2> QED
    BY <1>6, <2>1, SettlesAfter
<1>11. ok \in BOOLEAN /\ (Unguarded(p) => ok) /\ 38 \in Int
  BY <1>3
<1> HIDE DEF ok, calls
<1>12. Settles(p, Guarded(ok, calls), 38)
  BY <1>10, <1>11, GuardedSettles, Zenon
<1> QED
  BY <1>5, <1>12

(* Ais16 settles the status, on every branch it takes. *)
LEMMA Ais16Gives ==
  ASSUME NEW p, IsPayload(p), HeaderRead(p), p.message_id = 16
  PROVE  \E v \in Given : Gives(p, Ais16(p), 38, v)
<1> DEFINE a == << <<38, 2>>, <<40, 30>>, <<70, 12>>, <<82, 10>> >>
           b == << <<92, 4>> >>
           c == << <<92, 30>>, <<122, 12>>, <<134, 10>> >>
           tail == IF NumChars(p) = 16 THEN Reads(b) \o NoneRemaining \o Ok
                   ELSE Reads(c) \o Ok
           calls == Id(16) \o SeekTo(38) \o Reads(a) \o tail
           ok == NumBits(p) \in {96, 144, 168}
<1>1. Tiles(a, 38, 92) /\ Tiles(b, 92, 96) /\ Tiles(c, 92, 144)
  BY DEF Tiles, Within
<1>2. Ais16(p) = Guarded(ok, calls)
  BY DEF Ais16
<1> HIDE DEF a, b, c
<1>3. ASSUME ok PROVE Gives(p, calls, 38, "AIS_OK")
  <2>1. /\ NumBits(p) \in {96, 144, 168} /\ NumBits(p) <= Limit(p) /\ Limit(p) \in Int
        /\ NumChars(p) = 16 <=> NumBits(p) = 96
    BY <1>3, PayloadBits DEF HeaderRead, NumBits, NumChars, IsPayload
  <2>2. Runs(p, Id(16) \o SeekTo(38), 38, 38)
    BY <2>1, Start DEF Id
  <2>3. Gives(p, tail, 92, "AIS_OK")
    <3>1. CASE NumChars(p) = 16
      <4>1. tail = Reads(b) \o NoneRemaining \o Ok
        BY <3>1
      <4>2. Gives(p, Reads(b) \o NoneRemaining \o Ok, 92, "AIS_OK")
        BY <1>1, <2>1, <3>1, ReadsRun, ThenEnd
      <4> QED
        BY <4>1, <4>2
    <3>2. CASE NumChars(p) # 16
      <4>1. tail = Reads(c) \o Ok /\ "AIS_OK" \in Given
        BY <3>2 DEF Given
      <4>2. Runs(p, Reads(c), 92, 144)
        BY <1>1, <2>1, <3>2, ReadsRun
      <4>3. Gives(p, Reads(c) \o Ok, 92, "AIS_OK")
        BY <4>1, <4>2, ThenReturn DEF Ok
      <4> QED
        BY <4>1, <4>3
    <3> QED
      BY <3>1, <3>2
  <2> HIDE DEF tail
  <2> QED
    BY <1>1, <2>1, <2>2, <2>3, ThenReads, GivesAfter
<1>4. ok \in BOOLEAN /\ 38 \in Int /\ "AIS_OK" \in Given
  BY DEF Given
<1> HIDE DEF calls, ok
<1>5. \E v \in Given : Gives(p, Guarded(ok, calls), 38, v)
  BY <1>3, <1>4, PlainGives, Zenon
<1> QED
  BY <1>2, <1>5

(* At 80 bits it ends without a status. *)
LEMMA Ais17Runs ==
  ASSUME NEW p, IsPayload(p), HeaderRead(p), p.message_id = 17
  PROVE  IF NumBits(p) = 80 THEN Runs(p, Ais17(p), 38, 80)
         ELSE \E v \in Given : Gives(p, Ais17(p), 38, v)
<1> DEFINE a == << <<38, 2>> >>
           b == << <<75, 5>> >>
           c == << <<80, 6>>, <<86, 10>>, <<96, 13>>, <<109, 3>> >>
           d == << <<117, 3>> >>
           head == Id(17) \o SeekTo(38) \o Reads(a) \o Point(40, 35) \o Reads(b)
           tail == IF NumBits(p) = 80 THEN << >>
                   ELSE Reads(c) \o SeekRelative(5) \o Reads(d) \o Ok
           ok == NumBits(p) = 80 \/ NumBits(p) \in 120 .. 816
<1>1. Tiles(a, 38, 40) /\ Tiles(b, 75, 80) /\ Tiles(c, 80, 112) /\ Tiles(d, 117, 120)
  BY DEF Tiles, Within
<1>2. Ais17(p) = Guarded(ok, head \o tail)
  BY DEF Ais17
<1>3. NumBits(p) \in Int /\ NumBits(p) <= Limit(p) /\ Limit(p) \in Int /\ "AIS_OK" \in Given
      /\ Undecided \in Statuses
  BY PayloadBits DEF Given, Statuses
<1> HIDE DEF a, b, c, d
<1>4. ASSUME ok PROVE Runs(p, head, 38, 80)
  <2>1. NumBits(p) > 38 /\ 80 <= Limit(p)
    BY <1>3, <1>4
  <2>2. Runs(p, Id(17) \o SeekTo(38), 38, 38)
    BY <2>1, Start DEF Id
  <2> QED
    BY <1>1, <1>3, <2>1, <2>2, ThenReads, ThenPoint
<1> HIDE DEF head
<1>5. CASE NumBits(p) = 80
  <2> DEFINE c0 == Op("check_status", 0, 0)
  <2>1. Runs(p, head, 38, 80) /\ head \o tail = head /\ Guarded(ok, head) = CheckStatus \o head
    <3>1. Runs(p, head, 38, 80) /\ tail = << >> /\ ok
      BY <1>4, <1>5
    <3>2. head \in Seq(Shape)
      BY <3>1, RunsTyped
    <3>3. head \o << >> = head
      <4> DEFINE S == Shape
      <4> HIDE DEF S
      <4>1. head \in Seq(S)
        BY <3>2 DEF S
      <4> QED
        BY <4>1
    <3> QED
      BY <3>1, <3>3 DEF Guarded
  <2>2. c0 \in Shape /\ c0.op = "check_status" /\ ~ Bad(Undecided)
    BY OpShape DEF OpKinds, Bad
  <2> HIDE DEF c0
  <2>3. Goes(p, c0, 38, Undecided, 38, Undecided)
    BY <2>2 DEF Goes
  <2>4. Runs(p, << c0 >>, 38, 38)
    BY <1>3, <2>2, <2>3, OneLeads DEF Runs
  <2>5. Runs(p, CheckStatus \o head, 38, 80)
    BY ZenonT(60), <2>1, <2>4, RunsThen DEF CheckStatus, c0
  <2> QED
    BY <1>2, <1>5, <2>1, <2>5
<1>6. CASE NumBits(p) # 80
  <2>1. tail = Reads(c) \o SeekRelative(5) \o Reads(d) \o Ok
    BY <1>6
  <2> HIDE DEF tail
  <2>2. ASSUME ok PROVE Gives(p, head \o tail, 38, "AIS_OK")
    <3>1. NumBits(p) >= 120 /\ 112 + 5 = 117 /\ 5 \in Int /\ 117 \in 0 .. NumBits(p) - 1
      BY <1>3, <1>6, <2>2
    <3>2. Runs(p, Reads(c), 80, 112)
      BY <1>1, <1>3, <3>1, ReadsRun
    <3>3. Runs(p, Reads(c) \o SeekRelative(5), 80, 117)
      BY <3>1, <3>2, ThenSkip
    <3>4. Runs(p, Reads(c) \o SeekRelative(5) \o Reads(d), 80, 120)
      BY <1>1, <1>3, <3>1, <3>3, ThenReads
    <3>5. Gives(p, tail, 80, "AIS_OK")
      BY <1>3, <2>1, <3>4, ThenReturn DEF Ok
    <3> QED
      BY <1>4, <2>2, <3>5, GivesAfter
  <2>3. ok \in BOOLEAN /\ 38 \in Int
    OBVIOUS
  <2> HIDE DEF ok
  <2>4. \E v \in Given : Gives(p, Guarded(ok, head \o tail), 38, v)
    BY <1>3, <2>2, <2>3, PlainGives, Zenon
  <2> QED
    BY <1>2, <1>6, <2>4
<1> QED
  BY <1>5, <1>6
(* Ais18 settles the status, on every branch it takes. *)
LEMMA Ais18Gives ==
  ASSUME NEW p, IsPayload(p), HeaderRead(p), p.message_id = 18
  PROVE  \E v \in Given : Gives(p, Ais18(p), 38, v)
<1> DEFINE a == << <<38, 8>>, <<46, 10>>, <<56, 1>> >>
           b == << <<112, 12>>, <<124, 9>>, <<133, 6>>, <<139, 2>>, <<141, 1>>,
                   <<142, 1>>, <<143, 1>>, <<144, 1>>, <<145, 1>>, <<146, 1>>,
                   <<147, 1>>, <<148, 1>> >>
           c == << <<149, 19>> >>
           d == << <<149, 2>> >>
           state == IF p.itdma THEN Itdma(151) ELSE Sotdma(p, 151)
           tail == IF p.unit_flag THEN Reads(c) ELSE Reads(d) \o state
           calls == Id(18) \o SeekTo(38) \o Reads(a) \o Point(57, 55) \o Reads(b) \o tail
                    \o NoneRemaining \o Ok
           ok == Sized(p, 28, 0)
<1>1. Tiles(a, 38, 57) /\ Tiles(b, 112, 149) /\ Tiles(c, 149, 168) /\ Tiles(d, 149, 151)
  BY DEF Tiles, Within
<1>2. Ais18(p) = Guarded(ok, calls)
  BY DEF Ais18
<1> HIDE DEF a, b, c, d
<1>3. ASSUME ok PROVE Gives(p, calls, 38, "AIS_OK")
  <2>1. NumBits(p) = 168 /\ 168 <= Limit(p) /\ Limit(p) \in Int
    BY <1>3, PayloadBits DEF Sized, NumBits, NumChars
  <2>2. Runs(p, Id(18) \o SeekTo(38), 38, 38)
    BY <2>1, Start DEF Id
  <2>3. Runs(p, Id(18) \o SeekTo(38) \o Reads(a) \o Point(57, 55) \o Reads(b), 38, 149)
    BY <1>1, <2>1, <2>2, ThenReads, ThenPoint
  <2>4. Runs(p, state, 151, 168)
    BY <2>1, ItdmaRuns, SotdmaRuns
  <2> HIDE DEF state
  <2>5. Runs(p, tail, 149, 168)
    <3>1. CASE p.unit_flag
      BY <1>1, <2>1, <3>1, ReadsRun
    <3>2. CASE ~ p.unit_flag
      <4>1. Runs(p, Reads(d), 149, 151)
        BY <1>1, <2>1, ReadsRun
      <4> QED
        BY <2>4, <3>2, <4>1, RunsThen
    <3> QED
      BY <3>1, <3>2
  <2> HIDE DEF tail
  <2> QED
    BY <2>1, <2>3, <2>5, RunsThen, ThenEnd
<1>4. ok \in BOOLEAN /\ 38 \in Int /\ "AIS_OK" \in Given
  BY DEF Given, Sized
<1> HIDE DEF calls, ok
<1>5. \E v \in Given : Gives(p, Guarded(ok, calls), 38, v)
  BY <1>3, <1>4, PlainGives, Zenon
<1> QED
  BY <1>2, <1>5

(* Ais22 settles the status, on every branch it takes. *)
LEMMA Ais22Gives ==
  ASSUME NEW p, IsPayload(p), HeaderRead(p), p.message_id = 22
  PROVE  \E v \in Given : Gives(p, Ais22(p), 38, v)
<1> DEFINE a == << <<38, 2>>, <<40, 12>>, <<52, 12>>, <<64, 4>>, <<68, 1>> >>
           b == << <<139, 1>> >>
           c == << <<69, 30>> >>
           d == << <<104, 30>> >>
           e == << <<140, 1>>, <<141, 1>>, <<142, 3>>, <<145, 23>> >>
           head == Id(22) \o SeekTo(38) \o Reads(a) \o SeekTo(139) \o Reads(b) \o SeekTo(69)
           tail == IF p.addressed
                   THEN Reads(c) \o SeekRelative(5) \o Reads(d) \o SeekRelative(5)
                   ELSE Point(69, 35) \o Point(104, 35)
           calls == head \o tail \o SeekRelative(1) \o Reads(e) \o NoneRemaining \o Ok
           ok == Sized(p, 28, 0)
<1>1. Tiles(a, 38, 69) /\ Tiles(b, 139, 140) /\ Tiles(c, 69, 99) /\ Tiles(d, 104, 134)
      /\ Tiles(e, 140, 168)
  BY DEF Tiles, Within
<1>2. Ais22(p) = Guarded(ok, calls)
  BY DEF Ais22, Bit
<1> HIDE DEF a, b, c, d, e
<1>3. ASSUME ok PROVE Gives(p, calls, 38, "AIS_OK")
  <2>1. NumBits(p) = 168 /\ 168 <= Limit(p) /\ Limit(p) \in Int
    BY <1>3, PayloadBits DEF Sized, NumBits, NumChars
  <2>2. Runs(p, Id(22) \o SeekTo(38), 38, 38)
    BY <2>1, Start DEF Id
  <2>3. Runs(p, head, 38, 69)
    BY <1>1, <2>1, <2>2, ThenReads, ThenSeek
  <2>4. Runs(p, tail, 69, 139)
    <3>1. CASE p.addressed
      <4>1. Runs(p, Reads(c) \o SeekRelative(5), 69, 104)
        <5>1. Runs(p, Reads(c), 69, 99) /\ 5 \in Int /\ 99 + 5 = 104 /\ 104 \in 0 .. NumBits(p) - 1
          BY <1>1, <2>1, ReadsRun
        <5> QED
          BY <5>1, ThenSkip
      <4>2. Runs(p, Reads(c) \o SeekRelative(5) \o Reads(d), 69, 134)
        BY <1>1, <2>1, <4>1, ThenReads
      <4>3. 5 \in Int /\ 134 + 5 = 139 /\ 139 \in 0 .. NumBits(p) - 1
        BY <2>1
      <4>4. Runs(p, Reads(c) \o SeekRelative(5) \o Reads(d) \o SeekRelative(5), 69, 139)
        BY <4>2, <4>3, ThenSkip
      <4> QED
        BY <3>1, <4>4
    <3>2. CASE ~ p.addressed
      <4>1. Runs(p, Point(69, 35), 69, 104)
        BY <2>1, PointRuns
      <4>2. Runs(p, Point(69, 35) \o Point(104, 35), 69, 139)
        BY <2>1, <4>1, ThenPoint
      <4> QED
        BY <3>2, <4>2
    <3> QED
      BY <3>1, <3>2
  <2> HIDE DEF head, tail
  <2>5. Runs(p, head \o tail, 38, 139)
    BY <2>3, <2>4, RunsThen
  <2>6. 1 \in Int /\ 139 + 1 = 140 /\ 140 \in 0 .. NumBits(p) - 1
    BY <2>1
  <2>7. Runs(p, head \o tail \o SeekRelative(1), 38, 140)
    BY <2>5, <2>6, ThenSkip
  <2> QED
    BY <1>1, <2>1, <2>7, ThenReads, ThenEnd
<1>4. ok \in BOOLEAN /\ 38 \in Int /\ "AIS_OK" \in Given
  BY DEF Given, Sized
<1> HIDE DEF calls, ok
<1>5. \E v \in Given : Gives(p, Guarded(ok, calls), 38, v)
  BY <1>3, <1>4, PlainGives, Zenon
<1> QED
  BY <1>2, <1>5

(* Ais24 settles the status, on every branch it takes. *)
LEMMA Ais24Gives ==
  ASSUME NEW p, IsPayload(p), HeaderRead(p), p.message_id = 24, p.part_num \in 0 .. 3
  PROVE  \E v \in Given : Gives(p, Ais24(p), 38, v)
<1> DEFINE n == NumBits(p)
           a == << <<38, 2>> >>
           b == << <<160, 8>> >>
           c == << <<40, 8>> >>
           d == << <<132, 9>>, <<141, 9>>, <<150, 6>>, <<156, 6>>, <<162, 6>> >>
           end == NoneRemaining \o Ok
           tail == CASE p.part_num = 0 /\ n = 168 -> Text(40, 120) \o Reads(b) \o end
                     [] p.part_num \in {0, 1} /\ n = 160 -> Text(40, 120) \o end
                     [] p.part_num = 1 /\ n = 168 ->
                          Reads(c) \o Text(48, 42) \o Text(90, 42) \o Reads(d) \o end
                     [] p.part_num \in {2, 3} -> Return("AIS_ERR_BAD_MSG_CONTENT")
           calls == Id(24) \o SeekTo(38) \o Reads(a) \o tail
           ok == n \in {160, 168}
<1>1. Tiles(a, 38, 40) /\ Tiles(b, 160, 168) /\ Tiles(c, 40, 48) /\ Tiles(d, 132, 168)
  BY DEF Tiles, Within
<1>2. Ais24(p) = Guarded(ok, calls)
  BY DEF Ais24
<1>3. /\ NumBits(p) = n /\ n <= Limit(p) /\ Limit(p) \in Int
      /\ {"AIS_OK", "AIS_ERR_BAD_MSG_CONTENT"} \subseteq Given
  BY PayloadBits DEF Given, Errors
<1> HIDE DEF a, b, c, d, n
<1>4. ASSUME NEW s, Runs(p, s, 40, n) PROVE Gives(p, s \o end, 40, "AIS_OK")
  <2>1. Gives(p, NoneRemaining \o Ok, n, "AIS_OK")
    BY <1>3, EndGives
  <2> QED
    BY <1>4, <2>1, GivesAfter
<1> HIDE DEF end
<1>5. ASSUME ok PROVE \E v \in Given : Gives(p, tail, 40, v)
  <2>1. CASE p.part_num = 0 /\ n = 168
    <3>1. tail = Text(40, 120) \o Reads(b) \o end
      BY <2>1
    <3>2. Runs(p, Text(40, 120) \o Reads(b), 40, n)
      BY <1>1, <1>3, <2>1, TextRuns, ThenReads
    <3> HIDE DEF tail
    <3> QED
      BY <1>3, <1>4, <3>1, <3>2
  <2>2. CASE p.part_num \in {0, 1} /\ n = 160
    <3>1. tail = Text(40, 120) \o end
      BY <2>2
    <3>2. Runs(p, Text(40, 120), 40, n)
      BY <1>3, <2>2, TextRuns
    <3> HIDE DEF tail
    <3> QED
      BY <1>3, <1>4, <3>1, <3>2
  <2>3. CASE p.part_num = 1 /\ n = 168
    <3>1. tail = Reads(c) \o Text(48, 42) \o Text(90, 42) \o Reads(d) \o end
      BY <2>3
    <3>2. Runs(p, Reads(c), 40, 48)
      BY <1>1, <1>3, <2>3, ReadsRun
    <3>3. Runs(p, Reads(c) \o Text(48, 42) \o Text(90, 42) \o Reads(d), 40, n)
      BY <1>1, <1>3, <2>3, <3>2, ThenReads, ThenText
    <3> HIDE DEF tail
    <3> QED
      BY <1>3, <1>4, <3>1, <3>3
  <2>4. CASE p.part_num \in {2, 3}
    <3>1. tail = Return("AIS_ERR_BAD_MSG_CONTENT")
      BY <2>4
    <3> HIDE DEF tail
    <3> QED
      BY <1>3, <3>1, ReturnGives
  <2> QED
    BY <1>5, <2>1, <2>2, <2>3, <2>4
<1>6. ASSUME ok PROVE \E v \in Given : Gives(p, calls, 38, v)
  <2>1. PICK v \in Given : Gives(p, tail, 40, v)
    BY <1>5, <1>6
  <2> HIDE DEF tail
  <2>2. NumBits(p) > 38 /\ 40 <= Limit(p)
    BY <1>3, <1>6
  <2>3. Runs(p, Id(24) \o SeekTo(38), 38, 38)
    BY <2>2, Start DEF Id
  <2>4. Gives(p, calls, 38, v)
    BY <1>1, <1>3, <2>1, <2>2, <2>3, ThenReads, GivesAfter
  <2> QED
    BY <2>4
<1>7. ok \in BOOLEAN /\ 38 \in Int
  OBVIOUS
<1> HIDE DEF calls, ok
<1>8. \E v \in Given : Gives(p, Guarded(ok, calls), 38, v)
  BY <1>6, <1>7, GuardedGives, Zenon
<1> QED
  BY <1>2, <1>8

(* Ais7_13 (ais7_13.cpp): one to four acknowledgements. *)
LEMMA Ais7_13Gives ==
  ASSUME NEW p, IsPayload(p), HeaderRead(p), p.message_id \in {7, 13}
  PROVE  \E v \in Given : Gives(p, Ais7_13(p), 38, v)
<1> DEFINE n == NumBits(p)
           num_acks == (n - 40) \div 32
           F(i) == << <<40 + i * 32, 30>>, <<40 + i * 32 + 30, 2>> >>
           acks == [i \in 1 .. num_acks |-> Reads(F(i - 1))]
           a == << <<38, 2>> >>
           calls == IdIn({7, 13}) \o SeekTo(38) \o Reads(a) \o FlattenSeq(acks)
                    \o NoneRemaining \o Ok
           ok == n \in 72 .. 168 /\ (n - 40) % 32 = 0
<1>1. Tiles(a, 38, 40)
  BY DEF Tiles, Within
<1>2. Ais7_13(p) = Guarded(ok, calls)
  BY DEF Ais7_13, Each
<1>3. n = NumBits(p) /\ n \in Int /\ n <= Limit(p) /\ Limit(p) \in Int
  BY PayloadBits
<1> HIDE DEF a, n
<1>4. ASSUME ok PROVE Runs(p, FlattenSeq(acks), 40, n)
  <2>1. num_acks \in Nat /\ n = 40 + num_acks * 32
    BY <1>3, <1>4
  <2> HIDE DEF num_acks
  <2>2. ASSUME NEW i \in 0 .. num_acks - 1
        PROVE  Runs(p, acks[i + 1], 40 + i * 32, 40 + i * 32 + 32)
    <3>1. i + 1 \in 1 .. num_acks /\ (i + 1) - 1 = i /\ i \in Nat
          /\ 40 + i * 32 + 32 <= Limit(p)
      BY <1>3, <2>1
    <3>2. Tiles(F(i), 40 + i * 32, 40 + i * 32 + 32)
      BY <3>1 DEF Tiles, Within
    <3>3. acks[i + 1] = Reads(F(i))
      BY <3>1
    <3> HIDE DEF F
    <3> QED
      BY <3>1, <3>2, <3>3, ReadsRun
  <2>3. acks = [i \in 1 .. num_acks |-> acks[i]]
    OBVIOUS
  <2> HIDE DEF acks
  <2>4. 40 \in Int /\ 32 \in Int
    OBVIOUS
  <2>5. Runs(p, FlattenSeq(acks), 40, 40 + num_acks * 32)
    BY <2>1, <2>2, <2>3, <2>4, EvenLoop, Zenon
  <2> QED
    BY <2>1, <2>5
<1> HIDE DEF acks
<1>5. ASSUME ok PROVE Gives(p, calls, 38, "AIS_OK")
  <2>1. n > 38 /\ 40 <= Limit(p)
    BY <1>3, <1>5
  <2>2. Runs(p, IdIn({7, 13}) \o SeekTo(38), 38, 38)
    BY <1>3, <2>1, Start
  <2>3. Runs(p, IdIn({7, 13}) \o SeekTo(38) \o Reads(a), 38, 40)
    BY <1>1, <1>3, <2>1, <2>2, ThenReads
  <2> QED
    BY <1>3, <1>4, <1>5, <2>3, RunsThen, ThenEnd
<1>6. ok \in BOOLEAN /\ 38 \in Int /\ "AIS_OK" \in Given
  BY DEF Given
<1> HIDE DEF calls, ok
<1>7. \E v \in Given : Gives(p, Guarded(ok, calls), 38, v)
  BY <1>5, <1>6, PlainGives, Zenon
<1> QED
  BY <1>2, <1>7

(* Ais20 (ais20.cpp): one to four reservations, with a spare behind them. *)
LEMMA Ais20Settles ==
  ASSUME NEW p, IsPayload(p), HeaderRead(p), p.message_id = 20
  PROVE  Settles(p, Ais20(p), 38)
<1> DEFINE n == NumBits(p)
           a == << <<38, 2>> >>
           b == << <<70, 2>> >>
           c == << <<100, n - 100>> >>
           d == << <<130, n - 130>> >>
           end == NoneRemaining \o Ok
           third == IF n \in 130 .. 138 THEN Reads(d) \o Ok
                    ELSE Reservation(130) \o NoneRemaining \o Ok
           second == IF n \in 100 .. 108 THEN Reads(c) \o Ok ELSE Reservation(100) \o third
           first == IF n = 72 THEN Reads(b) \o NoneRemaining \o Ok
                    ELSE Reservation(70) \o second
           calls == Id(20) \o SeekTo(38) \o Reads(a) \o Reservation(40) \o first
           ok == n \in 72 .. 160
<1>1. Tiles(a, 38, 40) /\ Tiles(b, 70, 72)
  BY DEF Tiles, Within
<1>2. Ais20(p) = Guarded(ok, calls)
  BY DEF Ais20
<1>3. n = NumBits(p) /\ n \in Int /\ Limit(p) \in Int /\ n <= Limit(p) /\ Limit(p) <= n + 5
  BY Room
<1>4. /\ Unguarded(p) <=> n \in 73 .. 159 \ (100 .. 108 \cup 130 .. 138)
      /\ ~ Unguarded(p) => Limit(p) = n
  BY DEF Unguarded, Limit
<1>5. /\ n \in 100 .. 108 => Tiles(c, 100, n)
      /\ n \in 130 .. 138 => Tiles(d, 130, n)
  <2>1. /\ n \in 100 .. 108 => << 100, n - 100 >> \in Within(n)
        /\ n \in 130 .. 138 => << 130, n - 130 >> \in Within(n)
    <3> HIDE DEF n
    <3>1. \A i \in {100, 130} : n \in i .. i + 8 => i \in Int /\ n - i \in 0 .. 32 /\ i + (n - i) <= n
      BY <1>3
    <3> QED
      BY <1>3, <3>1 DEF Within
  <2> HIDE DEF n
  <2> QED
    BY <1>3, <2>1 DEF Tiles
<1>6. /\ \A x \in Int : (Unguarded(p) <=> x # n) => end \in Seq(Shape) /\ Settles(p, end, x)
      /\ end \in Seq(Shape)
  <2>1. end \in Seq(Shape)
    BY Endings, Shapes
  <2> QED
    BY <2>1, EndSettles
<1>7. ASSUME NEW at \in Nat
      PROVE  Reservation(at) \in Seq(Shape) /\ Reservation(at) \o NoneRemaining \o Ok = Reservation(at) \o end
  <2>1. Reservation(at) \in Seq(Shape)
    BY ReservationTiles, Shapes
  <2> QED
    BY ZenonT(40), Endings, <2>1, Shapes, Regroup
<1>8. /\ Reads(c) \o Ok \in Seq(Shape) /\ Reads(d) \o Ok \in Seq(Shape)
  <2>1. << 100, n - 100 >> \in Int \X Int /\ << 130, n - 130 >> \in Int \X Int
    BY <1>3
  <2>2. c \in Seq(Int \X Int) /\ d \in Seq(Int \X Int)
    BY <2>1
  <2> QED
    BY Endings, <1>3, <2>2, Shapes
<1> HIDE DEF a, b, c, d, n, end
<1>9. third \in Seq(Shape) /\ (ok /\ Limit(p) >= 130 /\ n > 108 => Settles(p, third, 130))
  <2>1. CASE n \in 130 .. 138
    <3>1. third = Reads(d) \o Ok /\ ~ Unguarded(p) /\ n <= Limit(p)
      BY <1>3, <1>4, <2>1
    <3> HIDE DEF third
    <3>2. Settles(p, Ok, n)
      BY Endings, <1>3, <3>1, ReturnSettles DEF Ok
    <3>3. Tiles(d, 130, n) /\ n \in Int /\ 130 \in Int /\ ~ (n > Limit(p))
      BY <1>3, <1>5, <2>1, <3>1
    <3>4. Settles(p, third, 130)
      BY <3>1, <3>2, <3>3, Endings, ReadsSettle
    <3> QED
      BY <1>8, <3>1, <3>4
  <2>2. CASE n \notin 130 .. 138
    <3>1. third = Reservation(130) \o end
      BY ZenonT(40), <1>7, <2>2
    <3> HIDE DEF third
    <3>2. third \in Seq(Shape)
      BY <1>6, <1>7, <3>1, Shapes
    <3>3. ASSUME ok, Limit(p) >= 130, n > 108 PROVE Settles(p, third, 130)
      <4>1. /\ 130 + 30 = 160
            /\ 160 <= Limit(p) => (Unguarded(p) <=> 160 # n)
            /\ 160 > Limit(p) => Unguarded(p)
        <5> DEFINE limit == Limit(p)
                   bad == Unguarded(p)
        <5>1. /\ n \in Int /\ limit \in Int /\ n <= limit /\ limit <= n + 5 /\ n \in 72 .. 160
              /\ limit >= 130 /\ n > 108 /\ n \notin 130 .. 138
              /\ bad <=> n \in 73 .. 159 \ (100 .. 108 \cup 130 .. 138)
          BY <1>3, <1>4, <2>2, <3>3
        <5> HIDE DEF limit, bad
        <5>2. /\ 160 <= limit => (bad <=> 160 # n)
              /\ 160 > limit => bad
          BY <5>1
        <5> QED
          BY <5>2 DEF limit, bad
      <4>2. 160 <= Limit(p) => Settles(p, end, 160)
        BY <1>6, <4>1
      <4> HIDE DEF ok
      <4>3. 130 \in Nat /\ end \in Seq(Shape)
        BY <1>6
      <4> QED
        BY <3>1, <4>1, <4>2, <4>3, ReservationSettles
    <3> QED
      BY <3>2, <3>3
  <2> QED
    BY <2>1, <2>2
<1> HIDE DEF third
<1>10. second \in Seq(Shape) /\ (ok /\ n # 72 /\ Limit(p) >= 100 => Settles(p, second, 100))
  <2>1. CASE n \in 100 .. 108
    <3>1. second = Reads(c) \o Ok /\ ~ Unguarded(p) /\ n <= Limit(p)
      BY <1>3, <1>4, <2>1
    <3> HIDE DEF second
    <3>2. Settles(p, Ok, n)
      BY Endings, <1>3, <3>1, ReturnSettles DEF Ok
    <3>3. Tiles(c, 100, n) /\ n \in Int /\ 100 \in Int /\ ~ (n > Limit(p))
      BY <1>3, <1>5, <2>1, <3>1
    <3>4. Settles(p, second, 100)
      BY <3>1, <3>2, <3>3, Endings, ReadsSettle
    <3> QED
      BY <1>8, <3>1, <3>4
  <2>2. CASE n \notin 100 .. 108
    <3>1. second = Reservation(100) \o third
      BY <2>2
    <3> HIDE DEF second
    <3>2. second \in Seq(Shape)
      BY <1>7, <1>9, <3>1, Shapes
    <3>3. ASSUME ok, n # 72, Limit(p) >= 100 PROVE Settles(p, second, 100)
      <4>1. /\ 100 + 30 = 130
            /\ 130 <= Limit(p) => n > 108
            /\ 130 > Limit(p) => Unguarded(p)
        <5> DEFINE limit == Limit(p)
                   bad == Unguarded(p)
        <5>1. /\ n \in Int /\ limit \in Int /\ n <= limit /\ limit <= n + 5 /\ n \in 72 .. 160
              /\ limit >= 100 /\ n \notin 100 .. 108
              /\ bad <=> n \in 73 .. 159 \ (100 .. 108 \cup 130 .. 138)
              /\ ~ bad => limit = n
          BY <1>3, <1>4, <2>2, <3>3
        <5> HIDE DEF limit, bad
        <5>2. /\ 130 <= limit => n > 108
              /\ 130 > limit => bad
          BY <5>1
        <5> QED
          BY <5>2 DEF limit, bad
      <4>2. 130 <= Limit(p) => Settles(p, third, 130)
        BY <1>3, <1>9, <3>3, <4>1
      <4> HIDE DEF ok
      <4> QED
        BY <1>9, <3>1, <4>1, <4>2, ReservationSettles
    <3> QED
      BY <3>2, <3>3
  <2> QED
    BY <2>1, <2>2
<1> HIDE DEF second
<1>11. ASSUME ok PROVE Settles(p, first, 70)
  <2>1. CASE n = 72
    <3>1. first = Reads(b) \o NoneRemaining \o Ok
      BY <2>1
    <3>2. Runs(p, Reads(b), 70, NumBits(p))
      BY <1>1, <1>3, <2>1, ReadsRun
    <3> HIDE DEF first
    <3>3. Gives(p, first, 70, "AIS_OK")
      BY <3>1, <3>2, ThenEnd
    <3>4. ~ Unguarded(p) /\ "AIS_OK" \in Given
      BY <1>3, <1>4, <2>1, Endings
    <3> QED
      BY <3>3, <3>4 DEF Settles
  <2>2. CASE n # 72
    <3>1. first = Reservation(70) \o second
      BY <2>2
    <3>2. 70 + 30 = 100 /\ (100 > Limit(p) => Unguarded(p))
      BY <1>3, <1>4, <1>11, <2>2
    <3>3. 100 <= Limit(p) => Settles(p, second, 100)
      BY <1>3, <1>10, <1>11, <2>2
    <3> HIDE DEF first, ok
    <3> QED
      BY <1>10, <3>1, <3>2, <3>3, ReservationSettles
  <2> QED
    BY <2>1, <2>2
<1> HIDE DEF first
<1>12. ok => Settles(p, calls, 38)
  <2> SUFFICES ASSUME ok PROVE Settles(p, calls, 38)
    OBVIOUS
  <2>1. n \in 72 .. 160
    OBVIOUS
  <2>9. NumBits(p) > 38 /\ 40 <= Limit(p) /\ 70 <= Limit(p)
    BY <1>3, <2>1
  <2>2. Runs(p, Id(20) \o SeekTo(38), 38, 38)
    BY <1>3, <2>9, Start DEF Id
  <2>3. Runs(p, Id(20) \o SeekTo(38) \o Reads(a), 38, 40)
    BY <1>1, <1>3, <2>9, <2>2, ThenReads
  <2>4. PICK F \in Seq(Int \X Int) : Reservation(40) = Reads(F) /\ Tiles(F, 40, 40 + 30)
    BY ReservationTiles
  <2>5. Runs(p, Id(20) \o SeekTo(38) \o Reads(a) \o Reservation(40), 38, 70)
    BY <2>9, <2>3, <2>4, ThenReads
  <2> QED
    BY <1>11, <2>5, SettlesAfter
<1>13. ok \in BOOLEAN /\ (Unguarded(p) => ok) /\ 38 \in Int
  BY <1>4
<1> HIDE DEF ok, calls
<1>14. Settles(p, Guarded(ok, calls), 38)
  BY <1>12, <1>13, GuardedSettles, Zenon
<1> QED
  BY <1>2, <1>14

(* Ais21 begins with the assertion of its id, whatever else it does. *)
LEMMA Ais21Shape ==
  ASSUME NEW p, IsPayload(p)
  PROVE  \E t \in Seq(Shape) : Ais21(p) = Id(21) \o t
<1> DEFINE n == NumBits(p)
           chars == (n - 272) \div 6
           left == (n - 272) % 6
           a == << <<38, 5>> >>
           b == << <<219, 9>>, <<228, 9>>, <<237, 6>>, <<243, 6>>, <<249, 4>>,
                   <<253, 6>>, <<259, 1>>, <<260, 8>> >>
           c == << <<268, 1>>, <<269, 1>>, <<270, 1>>, <<271, 1>> >>
           d == << <<272 + chars * 6, left>> >>
           e == << <<163, 1>> >>
           f == << <<164, LongitudeBits(55)>>,
                   <<164 + LongitudeBits(55), 55 - LongitudeBits(55)>> >>
           end == NoneRemaining \o Ok
           text == IF chars > 0 THEN Text(272, chars * 6) ELSE << >>
           spare == IF left > 0 THEN Reads(d) ELSE << >>
           tail == IF n = 268 THEN NoneRemaining \o Ok
                   ELSE Reads(c) \o text \o spare \o NoneRemaining \o Ok
           body == ParseAgain \o SeekTo(38) \o Reads(a) \o Text(43, 120) \o Reads(e)
                   \o Reads(f) \o Reads(b) \o tail
<1>1. Ais21(p) = Id(21) \o IF n # 268 /\ n \notin 272 .. 360 THEN BadBitCount ELSE body
  BY DEF Ais21, Bit, Point
<1>2. n \in Int
  BY PayloadBits
<1>3. chars \in Int /\ left \in Int
  BY <1>2
<1>4. /\ a \in Seq(Int \X Int) /\ b \in Seq(Int \X Int) /\ c \in Seq(Int \X Int)
      /\ e \in Seq(Int \X Int) /\ f \in Seq(Int \X Int)
  BY DEF LongitudeBits
<1>5. d \in Seq(Int \X Int)
  <2> HIDE DEF chars, left
  <2>1. <<272 + chars * 6, left>> \in Int \X Int
    BY <1>3
  <2> QED
    BY <2>1
<1> HIDE DEF a, b, c, d, e, f
<1>6. text \in Seq(Shape) /\ spare \in Seq(Shape)
  <2>1. 272 \in Int /\ chars * 6 \in Int
    BY <1>3
  <2> HIDE DEF chars, left
  <2>2. Text(272, chars * 6) \in Seq(Shape)
    BY <2>1, Shapes
  <2> QED
    BY <1>5, <2>2, Shapes
<1> HIDE DEF text, spare
<1>7. ParseAgain \in Seq(Shape) /\ Text(43, 120) \in Seq(Shape) /\ SeekTo(38) \in Seq(Shape)
  <2>1. 43 \in Int /\ 120 \in Int /\ 38 \in Int
    OBVIOUS
  <2>2. Text(43, 120) \in Seq(Shape)
    BY <2>1, Shapes, SMT
  <2>3. SeekTo(38) \in Seq(Shape)
    BY <2>1, Shapes, SMT
  <2> QED
    BY <2>2, <2>3, ParseAgainShape
<1>8. tail \in Seq(Shape)
  <2>1. Reads(c) \o text \o spare \o NoneRemaining \o Ok \in Seq(Shape)
    BY <1>4, <1>6, Shapes, Endings
  <2> QED
    BY <2>1, Endings
<1> HIDE DEF tail
<1>9. body \in Seq(Shape)
  BY <1>4, <1>7, <1>8, Shapes
<1> HIDE DEF body
<1> QED
  BY <1>1, <1>9, Endings

(* Ais21 (ais21.cpp): its name is read again from a bitset of its own. *)
LEMMA Ais21Gives ==
  ASSUME NEW p, IsPayload(p), HeaderRead(p), p.message_id = 21
  PROVE  \E v \in Given : Gives(p, Ais21(p), 38, v)
<1> DEFINE n == NumBits(p)
           chars == (n - 272) \div 6
           left == (n - 272) % 6
           a == << <<38, 5>> >>
           b == << <<219, 9>>, <<228, 9>>, <<237, 6>>, <<243, 6>>, <<249, 4>>,
                   <<253, 6>>, <<259, 1>>, <<260, 8>> >>
           c == << <<268, 1>>, <<269, 1>>, <<270, 1>>, <<271, 1>> >>
           d == << <<272 + chars * 6, left>> >>
           e == << <<163, 1>> >>
           text == IF chars > 0 THEN Text(272, chars * 6) ELSE << >>
           spare == IF left > 0 THEN Reads(d) ELSE << >>
           head == ParseAgain \o SeekTo(38) \o Reads(a) \o Text(43, 120) \o Reads(e)
                   \o Point(164, 55) \o Reads(b)
           tail == IF n = 268 THEN NoneRemaining \o Ok
                   ELSE Reads(c) \o text \o spare \o NoneRemaining \o Ok
           body == head \o tail
           bad == n # 268 /\ n \notin 272 .. 360
<1>1. /\ Tiles(a, 38, 43) /\ Tiles(b, 219, 268) /\ Tiles(c, 268, 272) /\ Tiles(e, 163, 164)
  BY DEF Tiles, Within
<1>2. Ais21(p) = Id(21) \o IF bad THEN BadBitCount ELSE body
  BY DEF Ais21, Bit
<1>3. n = NumBits(p) /\ n \in Int /\ Limit(p) \in Int /\ n <= Limit(p)
  BY PayloadBits
<1> HIDE DEF a, b, c, e, n
<1>4. Runs(p, Id(21), 38, 38)
  BY IdRuns DEF Id
<1>5. ASSUME ~ bad PROVE Runs(p, head, 38, 268)
  <2>1. NumBits(p) > 38 /\ 268 <= Limit(p) /\ 38 \in Nat /\ 38 \in Int
    BY <1>3, <1>5
  <2> DEFINE s == << >>
  <2>2. Runs(p, s, 38, 38)
    BY <2>1, NoneRuns
  <2>3. s \o ParseAgain = ParseAgain
    BY ParseAgainShape, NothingBefore
  <2> HIDE DEF s
  <2>4. Runs(p, ParseAgain, 38, 0)
    BY <2>2, <2>3, ThenParseAgain
  <2>5. Runs(p, ParseAgain \o SeekTo(38), 38, 38)
    BY <2>1, <2>4, ThenSeek
  <2>6. Runs(p, ParseAgain \o SeekTo(38) \o Reads(a), 38, 43)
    BY <1>1, <1>3, <2>1, <2>5, ThenReads
  <2>7. Runs(p, ParseAgain \o SeekTo(38) \o Reads(a) \o Text(43, 120) \o Reads(e), 38, 164)
    BY <1>1, <1>3, <2>1, <2>6, ThenText, ThenReads
  <2>8. Runs(p, ParseAgain \o SeekTo(38) \o Reads(a) \o Text(43, 120) \o Reads(e)
                \o Point(164, 55), 38, 219)
    BY <1>3, <2>1, <2>7, ThenPoint
  <2> QED
    BY <1>1, <1>3, <2>1, <2>8, ThenReads
<1> HIDE DEF head
<1>6. ASSUME ~ bad PROVE Gives(p, tail, 268, "AIS_OK")
  <2>1. CASE n = 268
    <3>1. tail = NoneRemaining \o Ok
      BY <2>1
    <3>2. 268 = NumBits(p)
      BY <1>3, <2>1
    <3> HIDE DEF tail
    <3> QED
      BY <3>1, <3>2, EndGives
  <2>2. CASE n # 268
    <3>1. tail = Reads(c) \o text \o spare \o NoneRemaining \o Ok
      BY <2>2
    <3>2. n \in 272 .. 360
      BY <1>6, <2>2
    <3>3. chars \in Nat /\ left \in 0 .. 5 /\ n = 272 + chars * 6 + left
          /\ chars * 6 \in Nat /\ (chars * 6) % 6 = 0
      BY <1>3, <3>2
    <3> HIDE DEF tail, chars, left
    <3>4. Runs(p, Reads(c), 268, 272)
      BY <1>1, <1>3, <3>2, ReadsRun
    <3>5. Runs(p, Reads(c) \o text, 268, 272 + chars * 6)
      <4>1. CASE chars > 0
        <5>1. text = Text(272, chars * 6) /\ 272 + chars * 6 <= Limit(p)
          BY <1>3, <3>3, <4>1
        <5> QED
          BY <3>3, <3>4, <5>1, ThenText
      <4>2. CASE ~ (chars > 0)
        <5>1. text = << >>
          BY <4>2
        <5>2. 272 + chars * 6 = 272
          BY <3>3, <4>2
        <5>3. Runs(p, Reads(c) \o << >>, 268, 272)
          BY <3>4, ThenNone
        <5> QED
          BY <5>1, <5>2, <5>3
      <4> QED
        BY <4>1, <4>2
    <3>6. Runs(p, Reads(c) \o text \o spare, 268, n)
      <4> DEFINE at == 272 + chars * 6
      <4>1. CASE left > 0
        <5>1. spare = Reads(d)
          BY <4>1
        <5>2. Tiles(d, at, n)
          <6>1. << at, left >> \in Within(n) /\ at + left = n
            BY <1>3, <3>3 DEF Within
          <6> HIDE DEF at
          <6>2. d = << << at, left >> >>
            BY DEF at
          <6> HIDE DEF d
          <6> QED
            BY <6>1, <6>2 DEF Tiles
        <5> HIDE DEF d
        <5> QED
          BY <1>3, <3>5, <5>1, <5>2, ThenReads
      <4>2. CASE ~ (left > 0)
        <5>1. spare = << >>
          BY <4>2
        <5>2. 272 + chars * 6 = n
          BY <3>3, <4>2
        <5>3. Runs(p, Reads(c) \o text \o << >>, 268, 272 + chars * 6)
          BY <3>5, ThenNone
        <5> QED
          BY ZenonT(40), <5>1, <5>2, <5>3
      <4> QED
        BY <4>1, <4>2
    <3> HIDE DEF text, spare
    <3>7. Gives(p, Reads(c) \o text \o spare \o NoneRemaining \o Ok, 268, "AIS_OK")
      BY <1>3, <3>6, ThenEnd
    <3> QED
      BY <3>1, <3>7
  <2> QED
    BY <2>1, <2>2
<1> HIDE DEF tail
<1>7. CASE bad
  <2>1. Gives(p, BadBitCount, 38, "AIS_ERR_BAD_BIT_COUNT") /\ "AIS_ERR_BAD_BIT_COUNT" \in Given
    BY ReturnGives DEF BadBitCount, Given, Errors
  <2>2. Ais21(p) = Id(21) \o BadBitCount
    BY <1>2, <1>7
  <2> QED
    BY <1>4, <2>1, <2>2, GivesAfter
<1>8. CASE ~ bad
  <2>1. Gives(p, body, 38, "AIS_OK")
    BY <1>5, <1>6, <1>8, GivesAfter
  <2>2. Ais21(p) = Id(21) \o body /\ "AIS_OK" \in Given
    BY <1>2, <1>8, Endings
  <2> QED
    BY <1>4, <2>1, <2>2, GivesAfter
<1> QED
  BY <1>7, <1>8

(* Ais21 does not look at the status: without a header the id is not 21. *)
LEMMA Ais21WithoutHeader ==
  ASSUME NEW p, IsPayload(p), ~ HeaderRead(p)
  PROVE  Halts(p, AisMsg(p) \o Ais21(p), 0, Undecided, "aborted")
<1>1. PICK e \in Errors : Leads(p, AisMsg(p), 0, Undecided, 0, e)
  BY HeaderRefused
<1>2. MessageId(p) \notin {21} /\ e \in Statuses
  BY DEF MessageId, Statuses, Given
<1>3. Halts(p, Id(21), 0, e, "aborted")
  BY <1>2, NotIts DEF Id
<1>4. PICK t \in Seq(Shape) : Ais21(p) = Id(21) \o t
  BY Ais21Shape
<1>5. Halts(p, Ais21(p), 0, e, "aborted")
  BY <1>3, <1>4, HaltsThen
<1> QED
  BY <1>1, <1>5, LeadsThenHalts

(* Ais25 (ais25.cpp): no length test covers its address and application    *)
(* id.                                                                     *)
LEMMA Ais25Settles ==
  ASSUME NEW p, IsPayload(p), HeaderRead(p), p.message_id = 25, p.addressed \in BOOLEAN,
         p.use_app_id \in BOOLEAN
  PROVE  Settles(p, Ais25(p), 38)
<1> DEFINE n == NumBits(p)
           h == << <<38, 1>>, <<39, 1>> >>
           a == << <<40, 30>> >>
           b == << <<70, 10>>, <<80, 6>> >>
           c == << <<40, 10>>, <<50, 6>> >>
           first == IF p.addressed THEN Reads(a) ELSE << >>
           second == CASE ~ p.use_app_id -> << >>
                       [] p.use_app_id /\ p.addressed -> Reads(b)
                       [] p.use_app_id /\ ~ p.addressed -> Reads(c)
           head == Id(25) \o SeekTo(38) \o Reads(h)
           calls == head \o first \o second \o Ok
           ok == n \in 40 .. 168
<1>1. Tiles(h, 38, 40) /\ Tiles(a, 40, 70) /\ Tiles(b, 70, 86) /\ Tiles(c, 40, 56)
      /\ h \in Seq(Int \X Int) /\ a \in Seq(Int \X Int) /\ b \in Seq(Int \X Int)
      /\ c \in Seq(Int \X Int)
  BY DEF Tiles, Within
<1>2. Ais25(p) = Guarded(ok, calls)
  BY DEF Ais25
<1>3. n = NumBits(p) /\ n \in Int /\ Limit(p) \in Int /\ n <= Limit(p) /\ Limit(p) <= n + 5
      /\ Limit(p) = 6 * NumChars(p)
  BY Room DEF Limit
<1>4. Unguarded(p) <=> /\ n >= 40
                       /\ \/ p.addressed /\ Limit(p) < 70
                          \/ p.addressed /\ p.use_app_id /\ Limit(p) < 86
                          \/ ~ p.addressed /\ p.use_app_id /\ Limit(p) < 56
  BY <1>3 DEF Unguarded
<1> HIDE DEF h, a, b, c, n
<1>5. /\ Reads(a) \in Seq(Shape) /\ Reads(b) \in Seq(Shape) /\ Reads(c) \in Seq(Shape)
      /\ << >> \in Seq(Shape)
  BY <1>1, Shapes
<1>6. first \in Seq(Shape) /\ second \in Seq(Shape)
  BY <1>5
<1>7. second \o Ok \in Seq(Shape) /\ first \o (second \o Ok) \in Seq(Shape)
  BY <1>6, Shapes, Endings
<1>8. ASSUME NEW x \in Int, ~ Unguarded(p) PROVE Settles(p, Ok, x)
  BY <1>8, Endings, ReturnSettles DEF Ok
<1>9. << >> \o Ok = Ok
  BY Endings, NothingBefore
<1>10. ASSUME ok PROVE Settles(p, first \o (second \o Ok), 40)
  <2>1. CASE p.addressed
    <3>1. first = Reads(a)
      BY <2>1
    <3>2. 70 > Limit(p) => Unguarded(p)
      BY <1>3, <1>4, <1>10, <2>1
    <3>3. ASSUME 70 <= Limit(p) PROVE Settles(p, second \o Ok, 70)
      <4>1. CASE p.use_app_id
        <5>1. second = Reads(b)
          BY <2>1, <4>1
        <5>2. /\ 86 > Limit(p) => Unguarded(p)
              /\ 86 <= Limit(p) => ~ Unguarded(p)
          BY <1>3, <1>4, <1>10, <2>1, <4>1, <3>3
        <5>3. 86 <= Limit(p) => Settles(p, Ok, 86)
          BY <1>8, <5>2
        <5> HIDE DEF second
        <5> QED
          BY <1>1, <5>1, <5>2, <5>3, Endings, ReadsSettle
      <4>2. CASE ~ p.use_app_id
        <5>1. second = << >>
          BY <2>1, <4>2
        <5>2. ~ Unguarded(p)
          BY <1>3, <1>4, <2>1, <3>3, <4>2
        <5> HIDE DEF second
        <5> QED
          BY <1>8, <1>9, <5>1, <5>2
      <4> QED
        BY <4>1, <4>2
    <3> DEFINE t == second \o Ok
    <3>4. t \in Seq(Shape) /\ (70 <= Limit(p) => Settles(p, t, 70))
      BY <1>7, <3>3
    <3> HIDE DEF first, second, t
    <3>5. Settles(p, Reads(a) \o t, 40)
      BY <1>1, <3>2, <3>4, ReadsSettle
    <3> QED
      BY <3>1, <3>5 DEF t
  <2>2. CASE ~ p.addressed
    <3>1. first = << >>
      BY <2>2
    <3>2. first \o (second \o Ok) = second \o Ok
      <4> HIDE DEF first, second
      <4> QED
        BY <1>7, <3>1, NothingBefore
    <3> HIDE DEF first
    <3>3. CASE p.use_app_id
      <4>1. second = Reads(c)
        BY <2>2, <3>3
      <4>2. /\ 56 > Limit(p) => Unguarded(p)
            /\ 56 <= Limit(p) => ~ Unguarded(p)
        BY <1>3, <1>4, <1>10, <2>2, <3>3
      <4>3. 56 <= Limit(p) => Settles(p, Ok, 56)
        BY <1>8, <4>2
      <4> HIDE DEF second
      <4> QED
        BY <1>1, <3>2, <4>1, <4>2, <4>3, Endings, ReadsSettle
    <3>4. CASE ~ p.use_app_id
      <4>1. second = << >> /\ ~ Unguarded(p)
        BY <1>4, <2>2, <3>4
      <4> HIDE DEF second
      <4> QED
        BY <1>8, <1>9, <3>2, <4>1
    <3> QED
      BY <3>3, <3>4
  <2> QED
    BY <2>1, <2>2
<1> HIDE DEF first, second
<1>11. ASSUME ok PROVE Settles(p, calls, 38)
  <2>1. n \in 40 .. 168
    BY <1>11
  <2>2. NumBits(p) > 38 /\ 40 <= Limit(p) /\ 38 \in Int /\ 40 \in Int
    BY <1>3, <2>1
  <2>3. Runs(p, Id(25) \o SeekTo(38), 38, 38)
    BY <2>2, Start DEF Id
  <2>4. Runs(p, head, 38, 40)
    BY <1>1, <2>2, <2>3, ThenReads
  <2> HIDE DEF head
  <2>5. Settles(p, head \o (first \o (second \o Ok)), 38)
    BY <1>10, <1>11, <2>4, SettlesAfter
  <2>6. head \in Seq(Shape)
    BY <2>4, RunsTyped
  <2>7. head \o first \o second \o Ok = head \o (first \o (second \o Ok))
    <3>1. Ok \in Seq(Shape)
      BY Endings
    <3>2. first \in Seq(Shape) /\ second \in Seq(Shape) /\ head \in Seq(Shape)
      BY <1>6, <2>6
    <3>3. head \o first \in Seq(Shape)
      BY <3>2, Shapes
    <3>4. (head \o first) \o second \o Ok = (head \o first) \o (second \o Ok)
      BY <3>1, <3>2, <3>3, Regroup
    <3>5. head \o first \o (second \o Ok) = head \o (first \o (second \o Ok))
      BY <1>7, <3>2, Regroup
    <3> QED
      BY <3>4, <3>5
  <2> QED
    BY <2>5, <2>7
<1>12. ok \in BOOLEAN /\ (Unguarded(p) => ok)
  BY <1>3, <1>4
<1> HIDE DEF ok, calls
<1>13. 38 \in Int
  OBVIOUS
<1>14. Settles(p, Guarded(ok, calls), 38)
  BY <1>11, <1>12, <1>13, GuardedSettles, Zenon
<1> QED
  BY <1>2, <1>14

(* The communication state at the end of an Ais26, wherever its data       *)
(* ended.                                                                  *)
LEMMA CommState26Gives ==
  ASSUME NEW p, IsPayload(p), HeaderRead(p), NumBits(p) >= 52, NEW x \in Int
  PROVE  Gives(p, CommState26(p, NumBits(p) - 20) \o Ok, x, "AIS_OK")
<1> DEFINE n == NumBits(p)
           at == n - 20
           f == << <<at, 1>>, <<at + 1, 2>> >>
           end == at + 3
           tail == IF p.itdma THEN Itdma(end) ELSE Sotdma(p, end)
<1>1. n \in Int /\ n >= 52 /\ n <= Limit(p) /\ Limit(p) \in Int
  BY Room
<1>2. at \in Nat /\ at < NumBits(p) /\ end \in Nat /\ end + 17 = n /\ end <= Limit(p)
      /\ end + 17 <= Limit(p) /\ at \in Int /\ end = at + 3 /\ NumBits(p) = n
  BY <1>1
<1> HIDE DEF n, at, end
<1>3. CommState26(p, at) = SeekTo(at) \o Reads(f) \o tail
  BY DEF CommState26, end
<1>4. Tiles(f, at, end)
  <2>1. << at, 1 >> \in Within(end) /\ << at + 1, 2 >> \in Within(end)
    BY <1>2 DEF Within
  <2> QED
    BY <1>2, <2>1 DEF Tiles
<1> HIDE DEF f
<1>5. Runs(p, tail, end, n)
  <2>1. Runs(p, Itdma(end), end, end + 17) /\ Runs(p, Sotdma(p, end), end, end + 17)
    BY <1>2, ItdmaRuns, SotdmaRuns
  <2> QED
    BY <1>2, <2>1
<1> HIDE DEF tail
<1>6. Runs(p, SeekTo(at), x, at)
  BY <1>2, SeekFirst
<1>7. Runs(p, SeekTo(at) \o Reads(f), x, end)
  <2>1. end \in Int
    BY <1>2
  <2> QED
    BY <1>2, <1>4, <1>6, <2>1, ThenReads
<1>8. Runs(p, SeekTo(at) \o Reads(f) \o tail, x, n)
  BY <1>5, <1>7, RunsThen
<1>9. Gives(p, CommState26(p, at) \o Ok, x, "AIS_OK")
  BY <1>3, <1>8, Endings, ThenReturn DEF Ok
<1> QED
  BY <1>9 DEF at, n

(* Ais26 (ais26.cpp): no length test covers its address and application    *)
(* id.                                                                     *)
LEMMA Ais26Settles ==
  ASSUME NEW p, IsPayload(p), HeaderRead(p), p.message_id = 26, p.addressed \in BOOLEAN,
         p.use_app_id \in BOOLEAN
  PROVE  Settles(p, Ais26(p), 38)
<1> DEFINE n == NumBits(p)
           h == << <<38, 1>>, <<39, 1>> >>
           a == << <<40, 30>> >>
           b == << <<70, 10>>, <<80, 6>> >>
           c == << <<40, 10>>, <<50, 6>> >>
           state == CommState26(p, n - 20) \o Ok
           first == IF p.addressed THEN Reads(a) ELSE << >>
           second == CASE ~ p.use_app_id -> state
                       [] p.use_app_id /\ p.addressed /\ n < 86 -> BadBitCount
                       [] p.use_app_id /\ p.addressed /\ n >= 86 -> Reads(b) \o state
                       [] p.use_app_id /\ ~ p.addressed -> Reads(c) \o state
           head == Id(26) \o SeekTo(38) \o Reads(h)
           calls == head \o first \o second
           ok == n \in 52 .. 1064
<1>1. Tiles(h, 38, 40) /\ Tiles(a, 40, 70) /\ Tiles(b, 70, 86) /\ Tiles(c, 40, 56)
      /\ h \in Seq(Int \X Int) /\ a \in Seq(Int \X Int) /\ b \in Seq(Int \X Int)
      /\ c \in Seq(Int \X Int)
  BY DEF Tiles, Within
<1>2. Ais26(p) = Guarded(ok, calls)
  <2>1. Reads(b) \o state = Reads(b) \o state
    OBVIOUS
  <2> QED
    BY DEF Ais26
<1>3. n = NumBits(p) /\ n \in Int /\ Limit(p) \in Int /\ n <= Limit(p) /\ Limit(p) <= n + 5
      /\ Limit(p) = 6 * NumChars(p)
  BY Room DEF Limit
<1>4. Unguarded(p) <=> /\ n >= 52
                       /\ \/ p.addressed /\ Limit(p) < 70
                          \/ ~ p.addressed /\ p.use_app_id /\ Limit(p) < 56
  BY <1>3 DEF Unguarded
<1>5. n >= 52 => \A x \in Int : Gives(p, state, x, "AIS_OK")
  BY CommState26Gives
<1> HIDE DEF h, a, b, c, n, state
<1>6. /\ Reads(a) \in Seq(Shape) /\ Reads(b) \in Seq(Shape) /\ Reads(c) \in Seq(Shape)
      /\ << >> \in Seq(Shape)
  BY <1>1, Shapes
<1>7. first \in Seq(Shape)
  BY <1>6
<1>8. ASSUME ok PROVE state \in Seq(Shape) /\ second \in Seq(Shape)
  <2>1. n >= 52 /\ 0 \in Int
    BY <1>3, <1>8
  <2>2. state \in Seq(Shape)
    BY <1>5, <2>1 DEF Gives, Halts
  <2>3. Reads(b) \o state \in Seq(Shape) /\ Reads(c) \o state \in Seq(Shape)
    BY <1>6, <2>2, Shapes
  <2>4. n < 86 \/ n >= 86
    BY <1>3
  <2> QED
    BY <2>2, <2>3, <2>4, Endings
<1>9. ASSUME ok, NEW x \in Int, ~ Unguarded(p) PROVE Settles(p, state, x)
  <2>1. n >= 52
    BY <1>3, <1>9
  <2>2. Gives(p, state, x, "AIS_OK")
    BY <1>5, <2>1
  <2> QED
    BY <1>9, <2>2, Endings DEF Settles
<1>10. ASSUME ok PROVE Settles(p, first \o second, 40)
  <2>1. CASE p.addressed
    <3>1. first = Reads(a)
      BY <2>1
    <3>2. 70 > Limit(p) => Unguarded(p)
      BY <1>3, <1>4, <1>10, <2>1
    <3>3. ASSUME 70 <= Limit(p) PROVE Settles(p, second, 70)
      <4>1. ~ Unguarded(p)
        BY <1>3, <1>4, <2>1, <3>3
      <4>2. CASE ~ p.use_app_id
        <5>1. second = state
          BY <2>1, <4>2
        <5>2. Settles(p, state, 70)
          BY <1>9, <1>10, <4>1
        <5> QED
          BY <5>1, <5>2
      <4>3. CASE p.use_app_id /\ n < 86
        <5>1. second = BadBitCount
          <6>1. ~ (n >= 86)
            BY <1>3, <4>3
          <6> QED
            BY <2>1, <4>3, <6>1
        <5>2. Settles(p, BadBitCount, 70)
          BY <4>1, ReturnSettles DEF BadBitCount, Given, Errors
        <5> QED
          BY <5>1, <5>2
      <4>4. CASE p.use_app_id /\ n >= 86
        <5>1. ~ (n < 86)
          BY <1>3, <4>4
        <5>2. second = Reads(b) \o state
          BY <2>1, <4>4, <5>1
        <5>3. state \in Seq(Shape) /\ Settles(p, state, 86) /\ 86 <= Limit(p)
          BY <1>3, <1>8, <1>9, <1>10, <4>1, <4>4
        <5> HIDE DEF second
        <5>4. Settles(p, Reads(b) \o state, 70)
          BY <1>1, <1>3, <5>3, ReadsSettle
        <5> QED
          BY <5>2, <5>4
      <4> QED
        BY <1>3, <4>2, <4>3, <4>4
    <3>4. second \in Seq(Shape)
      BY ZenonT(40), <1>8, <1>10
    <3> HIDE DEF first, second
    <3>5. Settles(p, Reads(a) \o second, 40)
      BY <1>1, <3>2, <3>3, <3>4, ReadsSettle
    <3> QED
      BY <3>1, <3>5
  <2>2. CASE ~ p.addressed
    <3>1. first = << >>
      BY <2>2
    <3>2. second \in Seq(Shape)
      BY ZenonT(40), <1>8, <1>10
    <3>3. first \o second = second
      <4> HIDE DEF first, second
      <4> QED
        BY <3>1, <3>2, NothingBefore
    <3> HIDE DEF first
    <3>4. CASE p.use_app_id
      <4>1. second = Reads(c) \o state
        BY <2>2, <3>4
      <4>2. /\ 56 > Limit(p) => Unguarded(p)
            /\ 56 <= Limit(p) => ~ Unguarded(p)
        BY <1>3, <1>4, <1>10, <2>2, <3>4
      <4>3. 56 <= Limit(p) => Settles(p, state, 56)
        BY <1>9, <1>10, <4>2
      <4>4. state \in Seq(Shape)
        BY ZenonT(40), <1>8, <1>10
      <4> HIDE DEF second
      <4>5. Settles(p, Reads(c) \o state, 40)
        BY <1>1, <4>2, <4>3, <4>4, ReadsSettle
      <4> QED
        BY <3>3, <4>1, <4>5
    <3>5. CASE ~ p.use_app_id
      <4>1. second = state
        BY <2>2, <3>5
      <4>2. ~ Unguarded(p)
        BY <1>4, <2>2, <3>5
      <4>3. Settles(p, state, 40)
        BY <1>9, <1>10, <4>2
      <4> HIDE DEF second
      <4> QED
        BY <3>3, <4>1, <4>3
    <3> QED
      BY <3>4, <3>5
  <2> QED
    BY <2>1, <2>2
<1>11. ASSUME ok PROVE Settles(p, calls, 38)
  <2>1. n \in 52 .. 1064
    BY <1>11
  <2>2. NumBits(p) > 38 /\ 40 <= Limit(p) /\ 38 \in Int /\ 40 \in Int
    BY <1>3, <2>1
  <2>3. Runs(p, Id(26) \o SeekTo(38), 38, 38)
    BY <2>2, Start DEF Id
  <2>4. Runs(p, head, 38, 40)
    BY <1>1, <2>2, <2>3, ThenReads
  <2>5. second \in Seq(Shape)
    BY ZenonT(40), <1>8, <1>11
  <2> HIDE DEF head, first, second
  <2>6. Settles(p, head \o (first \o second), 38)
    BY <1>10, <1>11, <2>4, SettlesAfter DEF first, second
  <2>7. head \in Seq(Shape) /\ first \in Seq(Shape)
    BY <1>7, <2>4, RunsTyped DEF first
  <2>8. head \o first \o second = head \o (first \o second)
    BY <2>5, <2>7, Regroup
  <2> QED
    BY <2>6, <2>8
<1>12. ok \in BOOLEAN /\ (Unguarded(p) => ok)
  BY <1>3, <1>4
<1> HIDE DEF ok, calls
<1>13. 38 \in Int
  OBVIOUS
<1>14. Settles(p, Guarded(ok, calls), 38)
  BY <1>11, <1>12, <1>13, GuardedSettles, Zenon
<1> QED
  BY <1>2, <1>14

-----------------------------------------------------------------------------
(* Messages 6, by their application.                                       *)

(* 6:0:0 settles the status behind its length test. *)
LEMMA Ais6_0_0Gives ==
  ASSUME NEW p, IsPayload(p), Application(p) = << 0, 0 >>
  PROVE  \E v \in Given : Gives(p, Ais6_0_0(p), 88, v)
<1> DEFINE a == << <<88, 16>>, <<104, 12>>, <<116, 10>>, <<126, 1>>,
                   <<127, 1>>, <<128, 1>>, <<129, 1>>, <<130, 6>> >>
           calls == SeekTo(88) \o Reads(a) \o NoneRemaining \o Ok
           ok == NumBits(p) = 136
<1>1. Tiles(a, 88, 136)
  BY DEF Tiles, Within
<1> HIDE DEF a
<1>2. ASSUME ok PROVE Gives(p, calls, 88, "AIS_OK")
  <2>1. NumBits(p) = 136 /\ 136 <= Limit(p) /\ Limit(p) \in Int
    BY <1>2, PayloadBits
  <2>2. Runs(p, SeekTo(88), 88, 88)
    BY <2>1, SeekFirst
  <2> QED
    BY <1>1, <2>1, <2>2, ThenReads, ThenEnd
<1>3. Ais6_0_0(p) = Applied(p, 0, 0, ok, calls)
  BY DEF Ais6_0_0, a
<1>4. ok \in BOOLEAN /\ 88 \in Int /\ "AIS_OK" \in Given
  BY DEF Given
<1> HIDE DEF calls, ok
<1>5. \E v \in Given : Gives(p, Applied(p, 0, 0, ok, calls), 88, v)
  BY <1>2, <1>4, AppliedGives, Zenon
<1> QED
  BY <1>3, <1>5

(* 6:1:0 settles the status behind its length test. *)
LEMMA Ais6_1_0Gives ==
  ASSUME NEW p, IsPayload(p), Application(p) = << 1, 0 >>
  PROVE  \E v \in Given : Gives(p, Ais6_1_0(p), 88, v)
<1> DEFINE a == << <<88, 1>>, <<89, 11>> >>
           calls == SeekTo(88) \o Reads(a) \o TextAndSpare(p, 100) \o NoneRemaining \o Ok
           ok == NumBits(p) \in 112 .. 920
<1>1. Tiles(a, 88, 100)
  BY DEF Tiles, Within
<1> HIDE DEF a
<1>2. ASSUME ok PROVE Gives(p, calls, 88, "AIS_OK")
  <2>1. NumBits(p) \in Int /\ NumBits(p) >= 112 /\ NumBits(p) <= Limit(p) /\ Limit(p) \in Int
    BY <1>2, PayloadBits
  <2>2. Runs(p, SeekTo(88), 88, 88)
    BY <2>1, SeekFirst
  <2> QED
    BY <1>1, <2>1, <2>2, ThenReads, ThenTextAndSpare, ThenEnd
<1>3. Ais6_1_0(p) = Applied(p, 1, 0, ok, calls)
  BY DEF Ais6_1_0, a
<1>4. ok \in BOOLEAN /\ 88 \in Int /\ "AIS_OK" \in Given
  BY DEF Given
<1> HIDE DEF calls, ok
<1>5. \E v \in Given : Gives(p, Applied(p, 1, 0, ok, calls), 88, v)
  BY <1>2, <1>4, AppliedGives, Zenon
<1> QED
  BY <1>3, <1>5

(* 6:1:1 settles the status behind its length test. *)
LEMMA Ais6_1_1Gives ==
  ASSUME NEW p, IsPayload(p), Application(p) = << 1, 1 >>
  PROVE  \E v \in Given : Gives(p, Ais6_1_1(p), 88, v)
<1> DEFINE a == << <<88, 10>>, <<98, 11>>, <<109, 3>> >>
           calls == SeekTo(88) \o Reads(a) \o NoneRemaining \o Ok
           ok == NumBits(p) = 112
<1>1. Tiles(a, 88, 112)
  BY DEF Tiles, Within
<1> HIDE DEF a
<1>2. ASSUME ok PROVE Gives(p, calls, 88, "AIS_OK")
  <2>1. NumBits(p) = 112 /\ 112 <= Limit(p) /\ Limit(p) \in Int
    BY <1>2, PayloadBits
  <2>2. Runs(p, SeekTo(88), 88, 88)
    BY <2>1, SeekFirst
  <2> QED
    BY <1>1, <2>1, <2>2, ThenReads, ThenEnd
<1>3. Ais6_1_1(p) = Applied(p, 1, 1, ok, calls)
  BY DEF Ais6_1_1, a
<1>4. ok \in BOOLEAN /\ 88 \in Int /\ "AIS_OK" \in Given
  BY DEF Given
<1> HIDE DEF calls, ok
<1>5. \E v \in Given : Gives(p, Applied(p, 1, 1, ok, calls), 88, v)
  BY <1>2, <1>4, AppliedGives, Zenon
<1> QED
  BY <1>3, <1>5

(* 6:1:2 settles the status behind its length test. *)
LEMMA Ais6_1_2Gives ==
  ASSUME NEW p, IsPayload(p), Application(p) = << 1, 2 >>
  PROVE  \E v \in Given : Gives(p, Ais6_1_2(p), 88, v)
<1> DEFINE a == << <<88, 10>>, <<98, 6>> >>
           calls == SeekTo(88) \o Reads(a) \o NoneRemaining \o Ok
           ok == NumBits(p) = 104
<1>1. Tiles(a, 88, 104)
  BY DEF Tiles, Within
<1> HIDE DEF a
<1>2. ASSUME ok PROVE Gives(p, calls, 88, "AIS_OK")
  <2>1. NumBits(p) = 104 /\ 104 <= Limit(p) /\ Limit(p) \in Int
    BY <1>2, PayloadBits
  <2>2. Runs(p, SeekTo(88), 88, 88)
    BY <2>1, SeekFirst
  <2> QED
    BY <1>1, <2>1, <2>2, ThenReads, ThenEnd
<1>3. Ais6_1_2(p) = Applied(p, 1, 2, ok, calls)
  BY DEF Ais6_1_2, a
<1>4. ok \in BOOLEAN /\ 88 \in Int /\ "AIS_OK" \in Given
  BY DEF Given
<1> HIDE DEF calls, ok
<1>5. \E v \in Given : Gives(p, Applied(p, 1, 2, ok, calls), 88, v)
  BY <1>2, <1>4, AppliedGives, Zenon
<1> QED
  BY <1>3, <1>5

(* 6:1:5 settles the status behind its length test. *)
LEMMA Ais6_1_5Gives ==
  ASSUME NEW p, IsPayload(p), Application(p) = << 1, 5 >>
  PROVE  \E v \in Given : Gives(p, Ais6_1_5(p), 88, v)
<1> DEFINE a == << <<88, 10>>, <<98, 6>>, <<104, 11>>, <<115, 1>>, <<116, 3>>,
                   <<119, 32>>, <<151, 17>> >>
           calls == SeekTo(88) \o Reads(a) \o NoneRemaining \o Ok
           ok == NumBits(p) = 168
<1>1. Tiles(a, 88, 168)
  BY DEF Tiles, Within
<1> HIDE DEF a
<1>2. ASSUME ok PROVE Gives(p, calls, 88, "AIS_OK")
  <2>1. NumBits(p) = 168 /\ 168 <= Limit(p) /\ Limit(p) \in Int
    BY <1>2, PayloadBits
  <2>2. Runs(p, SeekTo(88), 88, 88)
    BY <2>1, SeekFirst
  <2> QED
    BY <1>1, <2>1, <2>2, ThenReads, ThenEnd
<1>3. Ais6_1_5(p) = Applied(p, 1, 5, ok, calls)
  BY DEF Ais6_1_5, a
<1>4. ok \in BOOLEAN /\ 88 \in Int /\ "AIS_OK" \in Given
  BY DEF Given
<1> HIDE DEF calls, ok
<1>5. \E v \in Given : Gives(p, Applied(p, 1, 5, ok, calls), 88, v)
  BY <1>2, <1>4, AppliedGives, Zenon
<1> QED
  BY <1>3, <1>5

(* 6:1:18 settles the status behind its length test. *)
LEMMA Ais6_1_18Gives ==
  ASSUME NEW p, IsPayload(p), Application(p) = << 1, 18 >>
  PROVE  \E v \in Given : Gives(p, Ais6_1_18(p), 88, v)
<1> DEFINE a == << <<88, 10>>, <<98, 4>>, <<102, 5>>, <<107, 5>>, <<112, 6>> >>
           b == << <<317, 32>>, <<349, 11>> >>
           calls == Reads(a) \o Text(118, 120) \o Text(238, 30) \o Point(268, 49) \o Reads(b)
                    \o NoneRemaining \o Ok
           ok == NumBits(p) = 360
<1>1. Tiles(a, 88, 118) /\ Tiles(b, 317, 360)
  BY DEF Tiles, Within
<1> HIDE DEF a, b
<1>2. ASSUME ok PROVE Gives(p, calls, 88, "AIS_OK")
  <2>1. NumBits(p) = 360 /\ 360 <= Limit(p) /\ Limit(p) \in Int
    BY <1>2, PayloadBits
  <2> QED
    BY <1>1, <2>1, ReadsRun, ThenText, ThenPoint, ThenReads, ThenEnd
<1>3. Ais6_1_18(p) = Applied(p, 1, 18, ok, calls)
  BY DEF Ais6_1_18, a, b
<1>4. ok \in BOOLEAN /\ 88 \in Int /\ "AIS_OK" \in Given
  BY DEF Given
<1> HIDE DEF calls, ok
<1>5. \E v \in Given : Gives(p, Applied(p, 1, 18, ok, calls), 88, v)
  BY <1>2, <1>4, AppliedGives, Zenon
<1> QED
  BY <1>3, <1>5

(* 6:1:3 settles the status behind its length test. *)
LEMMA Ais6_1_3Gives ==
  ASSUME NEW p, IsPayload(p), Application(p) = << 1, 3 >>
  PROVE  \E v \in Given : Gives(p, Ais6_1_3(p), 88, v)
<1> DEFINE a == << <<88, 10>> >>
           b == << <<98, 6>> >>
           c == << <<98, 32>>, <<130, 32>>, <<162, 6>> >>
           ack == IF NumBits(p) = 104 THEN Reads(b) ELSE Reads(c)
           calls == SeekTo(88) \o Reads(a) \o ack \o NoneRemaining \o Ok
           ok == NumBits(p) \in {104, 168}
<1>1. Tiles(a, 88, 98) /\ Tiles(b, 98, 104) /\ Tiles(c, 98, 168)
  BY DEF Tiles, Within
<1>2. Ais6_1_3(p) = Applied(p, 1, 3, ok, calls)
  BY DEF Ais6_1_3
<1> HIDE DEF a, b, c
<1>3. ASSUME ok PROVE Gives(p, calls, 88, "AIS_OK")
  <2>1. NumBits(p) \in Int /\ NumBits(p) <= Limit(p) /\ Limit(p) \in Int
    BY PayloadBits
  <2>2. Runs(p, ack, 98, NumBits(p))
    <3>1. CASE NumBits(p) = 104
      BY <1>1, <2>1, <3>1, ReadsRun
    <3>2. CASE NumBits(p) = 168
      BY <1>1, <2>1, <3>2, ReadsRun
    <3> QED
      BY <1>3, <3>1, <3>2
  <2>3. 88 < NumBits(p) /\ 98 <= Limit(p)
    BY <1>3, <2>1
  <2> HIDE DEF ack
  <2>4. Runs(p, SeekTo(88), 88, 88)
    BY <2>3, SeekFirst
  <2>5. Runs(p, SeekTo(88) \o Reads(a), 88, 98)
    BY <1>1, <2>3, <2>4, ThenReads
  <2> QED
    BY <2>2, <2>5, RunsThen, ThenEnd
<1>4. ok \in BOOLEAN /\ 88 \in Int /\ "AIS_OK" \in Given
  BY DEF Given
<1> HIDE DEF calls, ok
<1>5. \E v \in Given : Gives(p, Applied(p, 1, 3, ok, calls), 88, v)
  BY <1>3, <1>4, AppliedGives, Zenon
<1> QED
  BY <1>2, <1>5

(* 6:1:4 settles the status behind its length test. *)
LEMMA Ais6_1_4Gives ==
  ASSUME NEW p, IsPayload(p), Application(p) = << 1, 4 >>
  PROVE  \E v \in Given : Gives(p, Ais6_1_4(p), 88, v)
<1> DEFINE a == << <<88, 10>> >>
           b == << <<226, 32>>, <<258, 32>>, <<290, 32>>, <<322, 30>> >>
           F(i) == << <<98 + 2 * i, 1>>, <<98 + 2 * i + 1, 1>> >>
           pieces == [i \in 1 .. 64 |-> Reads(F(i - 1))]
           calls == SeekTo(88) \o Reads(a) \o FlattenSeq(pieces) \o Reads(b)
                    \o NoneRemaining \o Ok
           ok == NumBits(p) = 352
<1>1. Tiles(a, 88, 98) /\ Tiles(b, 226, 352)
  BY DEF Tiles, Within
<1>2. Ais6_1_4(p) = Applied(p, 1, 4, ok, calls)
  BY DEF Ais6_1_4, Each
<1> HIDE DEF a, b
<1>3. ASSUME ok PROVE Gives(p, calls, 88, "AIS_OK")
  <2>1. NumBits(p) = 352 /\ 352 <= Limit(p) /\ Limit(p) \in Int
    BY <1>3, PayloadBits
  <2>2. ASSUME NEW i \in 0 .. 64 - 1
        PROVE  Runs(p, pieces[i + 1], 98 + i * 2, 98 + i * 2 + 2)
    <3>1. i + 1 \in 1 .. 64 /\ (i + 1) - 1 = i /\ 98 + i * 2 + 2 <= Limit(p)
          /\ 98 + i * 2 \in Int /\ 98 + i * 2 + 2 \in Int
      BY <2>1
    <3>2. Tiles(F(i), 98 + i * 2, 98 + i * 2 + 2)
      BY <3>1 DEF Tiles, Within
    <3>3. pieces[i + 1] = Reads(F(i))
      BY <3>1
    <3> HIDE DEF F
    <3> QED
      BY <3>1, <3>2, <3>3, ReadsRun
  <2>3. pieces = [i \in 1 .. 64 |-> pieces[i]]
    OBVIOUS
  <2> HIDE DEF pieces
  <2>4. 98 \in Int /\ 2 \in Int /\ 64 \in Nat /\ 98 + 64 * 2 = 226
    OBVIOUS
  <2>5. Runs(p, FlattenSeq(pieces), 98, 98 + 64 * 2)
    <3> DEFINE count == 64
               from == 98
               size == 2
    <3>1. /\ count \in Nat /\ from \in Int /\ size \in Int
          /\ pieces = [i \in 1 .. count |-> pieces[i]]
          /\ \A i \in 0 .. count - 1 :
               Runs(p, pieces[i + 1], from + i * size, from + i * size + size)
      BY <2>2, <2>3, <2>4
    <3> HIDE DEF count, from, size
    <3>2. Runs(p, FlattenSeq(pieces), from, from + count * size)
      BY <3>1, EvenLoop, Zenon
    <3> QED
      BY <3>2 DEF count, from, size
  <2>6. Runs(p, FlattenSeq(pieces), 98, 226)
    BY <2>4, <2>5
  <2>7. Runs(p, SeekTo(88), 88, 88)
    BY <2>1, SeekFirst
  <2>8. Runs(p, SeekTo(88) \o Reads(a), 88, 98)
    BY <1>1, <2>1, <2>7, ThenReads
  <2>9. Runs(p, SeekTo(88) \o Reads(a) \o FlattenSeq(pieces), 88, 226)
    BY <2>6, <2>8, RunsThen
  <2> QED
    BY <1>1, <2>1, <2>9, ThenReads, ThenEnd
<1>4. ok \in BOOLEAN /\ 88 \in Int /\ "AIS_OK" \in Given
  BY DEF Given
<1> HIDE DEF calls, ok
<1>5. \E v \in Given : Gives(p, Applied(p, 1, 4, ok, calls), 88, v)
  BY <1>3, <1>4, AppliedGives, Zenon
<1> QED
  BY <1>2, <1>5

(* 6:1:12 settles the status behind its length test. *)
LEMMA Ais6_1_12Gives ==
  ASSUME NEW p, IsPayload(p), Application(p) = << 1, 12 >>
  PROVE  \E v \in Given : Gives(p, Ais6_1_12(p), 88, v)
<1> DEFINE ok == NumBits(p) = 360
<1>1. ok \in BOOLEAN /\ 88 \in Int /\ "AIS_OK" \in Given
  BY DEF Given
<1>2. Ais6_1_12(p) = Applied(p, 1, 12, ok, Ok)
  BY DEF Ais6_1_12
<1>3. Gives(p, Ok, 88, "AIS_OK")
  BY <1>1, ReturnGives DEF Ok
<1> HIDE DEF ok
<1>4. \E v \in Given : Gives(p, Applied(p, 1, 12, ok, Ok), 88, v)
  BY <1>1, <1>3, AppliedGives, Zenon
<1> QED
  BY <1>2, <1>4

(* 6:1:14 settles the status behind its length test. *)
LEMMA Ais6_1_14Gives ==
  ASSUME NEW p, IsPayload(p), Application(p) = << 1, 14 >>
  PROVE  \E v \in Given : Gives(p, Ais6_1_14(p), 88, v)
<1> DEFINE a == << <<88, 4>>, <<92, 5>> >>
           F(start) == << <<start, 27>>, <<start + 27, 28>>, <<start + 55, 5>>,
                          <<start + 60, 6>>, <<start + 66, 5>>, <<start + 71, 6>>,
                          <<start + 77, 9>>, <<start + 86, 7>> >>
           pieces == [i \in 1 .. 3 |-> Reads(F(97 + 93 * (i - 1)))]
           calls == SeekTo(88) \o Reads(a) \o FlattenSeq(pieces) \o NoneRemaining \o Ok
           ok == NumBits(p) = 376
<1>1. Tiles(a, 88, 97)
  BY DEF Tiles, Within
<1>2. Ais6_1_14(p) = Applied(p, 1, 14, ok, calls)
  BY DEF Ais6_1_14, Each
<1> HIDE DEF a
<1>3. ASSUME ok PROVE Gives(p, calls, 88, "AIS_OK")
  <2>1. NumBits(p) = 376 /\ 376 <= Limit(p) /\ Limit(p) \in Int
    BY <1>3, PayloadBits
  <2>2. ASSUME NEW start \in Int PROVE Tiles(F(start), start, start + 93)
    BY DEF Tiles, Within
  <2> HIDE DEF F
  <2>3. ASSUME NEW i \in 0 .. 3 - 1
        PROVE  Runs(p, pieces[i + 1], 97 + i * 93, 97 + i * 93 + 93)
    <3> DEFINE start == 97 + i * 93
    <3>1. /\ i + 1 \in 1 .. 3 /\ (i + 1) - 1 = i /\ start + 93 <= Limit(p)
          /\ start \in Int /\ start + 93 \in Int /\ 97 + 93 * i = start
      BY <2>1
    <3>2. pieces[i + 1] = Reads(F(start))
      BY <3>1
    <3> HIDE DEF start
    <3>3. Runs(p, pieces[i + 1], start, start + 93)
      BY <2>2, <3>1, <3>2, ReadsRun
    <3> QED
      BY <3>3 DEF start
  <2>4. pieces = [i \in 1 .. 3 |-> pieces[i]]
    OBVIOUS
  <2> HIDE DEF pieces
  <2>5. 97 \in Int /\ 93 \in Int /\ 3 \in Nat /\ 97 + 3 * 93 = 376
    OBVIOUS
  <2>6. Runs(p, FlattenSeq(pieces), 97, 97 + 3 * 93)
    <3> DEFINE count == 3
               from == 97
               size == 93
    <3>1. /\ count \in Nat /\ from \in Int /\ size \in Int
          /\ pieces = [i \in 1 .. count |-> pieces[i]]
          /\ \A i \in 0 .. count - 1 :
               Runs(p, pieces[i + 1], from + i * size, from + i * size + size)
      BY <2>3, <2>4, <2>5
    <3> HIDE DEF count, from, size
    <3>2. Runs(p, FlattenSeq(pieces), from, from + count * size)
      BY <3>1, EvenLoop, Zenon
    <3> QED
      BY <3>2 DEF count, from, size
  <2>7. Runs(p, FlattenSeq(pieces), 97, NumBits(p))
    BY <2>1, <2>5, <2>6
  <2>8. Runs(p, SeekTo(88), 88, 88)
    BY <2>1, SeekFirst
  <2>9. Runs(p, SeekTo(88) \o Reads(a), 88, 97)
    BY <1>1, <2>1, <2>8, ThenReads
  <2> QED
    BY <2>7, <2>9, RunsThen, ThenEnd
<1>4. ok \in BOOLEAN /\ 88 \in Int /\ "AIS_OK" \in Given
  BY DEF Given
<1> HIDE DEF calls, ok
<1>5. \E v \in Given : Gives(p, Applied(p, 1, 14, ok, calls), 88, v)
  BY <1>3, <1>4, AppliedGives, Zenon
<1> QED
  BY <1>2, <1>5

(* 6:1:20 settles the status behind its length test. *)
LEMMA Ais6_1_20Gives ==
  ASSUME NEW p, IsPayload(p), Application(p) = << 1, 20 >>
  PROVE  \E v \in Given : Gives(p, Ais6_1_20(p), 88, v)
<1> DEFINE a == << <<88, 10>>, <<98, 9>>, <<107, 8>>, <<115, 3>>, <<118, 4>>,
                   <<122, 5>>, <<127, 5>>, <<132, 6>>, <<138, 1>> >>
           F(i) == << <<139 + 2 * i, 2>> >>
           pieces == [i \in 1 .. 26 |-> Reads(F(i - 1))]
           calls == SeekTo(88) \o Reads(a) \o FlattenSeq(pieces) \o Text(191, 120)
                    \o Point(311, 49) \o NoneRemaining \o Ok
           ok == NumBits(p) = 360
<1>1. Tiles(a, 88, 139)
  BY DEF Tiles, Within
<1>2. Ais6_1_20(p) = Applied(p, 1, 20, ok, calls)
  BY DEF Ais6_1_20, Each
<1> HIDE DEF a
<1>3. ASSUME ok PROVE Gives(p, calls, 88, "AIS_OK")
  <2>1. NumBits(p) = 360 /\ 360 <= Limit(p) /\ Limit(p) \in Int
    BY <1>3, PayloadBits
  <2>2. ASSUME NEW i \in 0 .. 26 - 1
        PROVE  Runs(p, pieces[i + 1], 139 + i * 2, 139 + i * 2 + 2)
    <3>1. i + 1 \in 1 .. 26 /\ (i + 1) - 1 = i /\ 139 + i * 2 + 2 <= Limit(p)
          /\ 139 + i * 2 \in Int /\ 139 + i * 2 + 2 \in Int
      BY <2>1
    <3>2. Tiles(F(i), 139 + i * 2, 139 + i * 2 + 2)
      BY <3>1 DEF Tiles, Within
    <3>3. pieces[i + 1] = Reads(F(i))
      BY <3>1
    <3> HIDE DEF F
    <3> QED
      BY <3>1, <3>2, <3>3, ReadsRun
  <2>3. pieces = [i \in 1 .. 26 |-> pieces[i]]
    OBVIOUS
  <2> HIDE DEF pieces
  <2>4. 139 \in Int /\ 2 \in Int /\ 26 \in Nat /\ 139 + 26 * 2 = 191
    OBVIOUS
  <2>5. Runs(p, FlattenSeq(pieces), 139, 139 + 26 * 2)
    <3> DEFINE count == 26
               from == 139
               size == 2
    <3>1. /\ count \in Nat /\ from \in Int /\ size \in Int
          /\ pieces = [i \in 1 .. count |-> pieces[i]]
          /\ \A i \in 0 .. count - 1 :
               Runs(p, pieces[i + 1], from + i * size, from + i * size + size)
      BY <2>2, <2>3, <2>4
    <3> HIDE DEF count, from, size
    <3>2. Runs(p, FlattenSeq(pieces), from, from + count * size)
      BY <3>1, EvenLoop, Zenon
    <3> QED
      BY <3>2 DEF count, from, size
  <2>6. Runs(p, FlattenSeq(pieces), 139, 191)
    BY <2>4, <2>5
  <2>7. Runs(p, SeekTo(88), 88, 88)
    BY <2>1, SeekFirst
  <2>8. Runs(p, SeekTo(88) \o Reads(a), 88, 139)
    BY <1>1, <2>1, <2>7, ThenReads
  <2>9. Runs(p, SeekTo(88) \o Reads(a) \o FlattenSeq(pieces), 88, 191)
    BY <2>6, <2>8, RunsThen
  <2>10. Runs(p, SeekTo(88) \o Reads(a) \o FlattenSeq(pieces) \o Text(191, 120), 88, 311)
    BY <2>1, <2>9, ThenText
  <2> QED
    BY <2>1, <2>10, ThenPoint, ThenEnd
<1>4. ok \in BOOLEAN /\ 88 \in Int /\ "AIS_OK" \in Given
  BY DEF Given
<1> HIDE DEF calls, ok
<1>5. \E v \in Given : Gives(p, Applied(p, 1, 20, ok, calls), 88, v)
  BY <1>3, <1>4, AppliedGives, Zenon
<1> QED
  BY <1>2, <1>5

(* 6:1:40 settles the status behind its length test. *)
LEMMA Ais6_1_40Gives ==
  ASSUME NEW p, IsPayload(p), Application(p) = << 1, 40 >>
  PROVE  \E v \in Given : Gives(p, Ais6_1_40(p), 88, v)
<1> DEFINE a == << <<88, 13>>, <<101, 3>> >>
           body == IF NumBits(p) # 104 THEN BadBitCount
                   ELSE ParseAgain \o SeekTo(88) \o Reads(a) \o NoneRemaining \o Ok
           s == << >>
<1>1. Tiles(a, 88, 104)
  BY DEF Tiles, Within
<1>2. Ais6_1_40(p) = s \o body
  BY DEF Ais6_1_40, ApplicationIs, AssertThat
<1> HIDE DEF a, s
<1>3. \E v \in Given : Gives(p, body, 88, v)
  <2>1. CASE NumBits(p) # 104
    <3>1. body = Return("AIS_ERR_BAD_BIT_COUNT") /\ "AIS_ERR_BAD_BIT_COUNT" \in Given
      BY <2>1 DEF BadBitCount, Given, Errors
    <3> HIDE DEF body
    <3> QED
      BY <3>1, ReturnGives
  <2>2. CASE NumBits(p) = 104
    <3>1. NumBits(p) = 104 /\ 104 <= Limit(p) /\ Limit(p) \in Int
      BY <2>2, PayloadBits
    <3>2. body = ParseAgain \o SeekTo(88) \o Reads(a) \o NoneRemaining \o Ok
      BY <2>2
    <3> HIDE DEF body
    <3>3. Runs(p, s, 88, 88) /\ s \o ParseAgain = ParseAgain
      BY NoneRuns, NothingBefore, ParseAgainShape DEF s
    <3>4. Runs(p, ParseAgain, 88, 0)
      BY <3>3, ThenParseAgain
    <3>5. Runs(p, ParseAgain \o SeekTo(88), 88, 88)
      BY <3>1, <3>4, ThenSeek
    <3>6. Gives(p, ParseAgain \o SeekTo(88) \o Reads(a) \o NoneRemaining \o Ok, 88, "AIS_OK")
      BY <1>1, <3>1, <3>5, ThenReads, ThenEnd
    <3> QED
      BY <3>2, <3>6, Endings
  <2> QED
    BY <2>1, <2>2
<1> HIDE DEF body
<1>4. PICK v \in Given : Gives(p, body, 88, v)
  BY <1>3
<1>5. s \o body = body
  BY <1>4, NothingBefore DEF s, Gives, Halts
<1> QED
  BY <1>2, <1>4, <1>5

(* The piece of one cargo that has a layout. *)
LEMMA CargoRuns ==
  ASSUME NEW p, IsPayload(p), NEW code \in 1 .. 5, NEW start \in Int, start + 17 <= Limit(p)
  PROVE  Runs(p, Cargo(code, start), start, start + 17)
<1> DEFINE a == << <<start, 4>> >>
           b == << <<start + 4, 7>>, <<start + 11, 6>> >>
           c == << <<start + 4, 13>> >>
           d == << <<start + 4, 3>>, <<start + 7, 7>>, <<start + 14, 3>> >>
           e == << <<start + 4, 4>>, <<start + 8, 9>> >>
           f == << <<start + 4, 3>>, <<start + 7, 10>> >>
           tail == CASE code = 1 -> Reads(b)
                     [] code = 2 -> Reads(c)
                     [] code = 3 -> Reads(d)
                     [] code = 4 -> Reads(e)
                     [] code = 5 -> Reads(f)
                     [] OTHER -> << >>
<1>0. start + 4 \in Int /\ start + 17 \in Int /\ Limit(p) \in Int /\ start + 4 <= Limit(p)
  BY PayloadBits
<1>1. Tiles(a, start, start + 4)
  BY DEF Tiles, Within
<1>2. Tiles(b, start + 4, start + 17) /\ Tiles(c, start + 4, start + 17)
  BY DEF Tiles, Within
<1>3. Tiles(d, start + 4, start + 17)
  BY DEF Tiles, Within
<1>4. Tiles(e, start + 4, start + 17) /\ Tiles(f, start + 4, start + 17)
  BY DEF Tiles, Within
<1>5. Cargo(code, start) = Reads(a) \o tail
  BY DEF Cargo
<1> HIDE DEF a, b, c, d, e, f
<1>6. \E F : tail = Reads(F) /\ Tiles(F, start + 4, start + 17)
  <2>1. CASE code = 1
    BY <1>2, <2>1
  <2>2. CASE code = 2
    BY <1>2, <2>2
  <2>3. CASE code = 3
    BY <1>3, <2>3
  <2>4. CASE code = 4
    BY <1>4, <2>4
  <2>5. CASE code = 5
    BY <1>4, <2>5
  <2> QED
    BY <2>1, <2>2, <2>3, <2>4, <2>5
<1> HIDE DEF tail
<1>7. Runs(p, Reads(a), start, start + 4)
  BY <1>0, <1>1, ReadsRun
<1> QED
  BY <1>0, <1>5, <1>6, <1>7, ThenReads

(* A cargo without a layout is left at its code. *)
LEMMA CargoWithout ==
  ASSUME NEW p, IsPayload(p), NEW code \in 0 .. 15, code \notin 1 .. 5, NEW start \in Int,
         start + 17 <= Limit(p)
  PROVE  Runs(p, Cargo(code, start), start, start + 4)
<1> DEFINE a == << <<start, 4>> >>
<1>0. start + 4 \in Int /\ Limit(p) \in Int /\ start + 4 <= Limit(p)
  BY PayloadBits
<1>1. Tiles(a, start, start + 4)
  BY DEF Tiles, Within
<1>2. Cargo(code, start) = Reads(a) \o << >>
  <2>1. code # 1 /\ code # 2 /\ code # 3 /\ code # 4 /\ code # 5
    OBVIOUS
  <2> QED
    BY <2>1 DEF Cargo
<1> HIDE DEF a
<1>3. Runs(p, Reads(a), start, start + 4)
  BY <1>0, <1>1, ReadsRun
<1> QED
  BY <1>2, <1>3, ThenNone

(* A cargo read where the cursor is not. *)
LEMMA CargoMisread ==
  ASSUME NEW p, IsPayload(p), NEW code, NEW start \in Int, NEW x \in Int, x # start
  PROVE  Halts(p, Cargo(code, start), x, Undecided, "aborted")
<1> DEFINE a == << <<start, 4>> >>
           b == << <<start + 4, 7>>, <<start + 11, 6>> >>
           c == << <<start + 4, 13>> >>
           d == << <<start + 4, 3>>, <<start + 7, 7>>, <<start + 14, 3>> >>
           e == << <<start + 4, 4>>, <<start + 8, 9>> >>
           f == << <<start + 4, 3>>, <<start + 7, 10>> >>
           tail == CASE code = 1 -> Reads(b)
                     [] code = 2 -> Reads(c)
                     [] code = 3 -> Reads(d)
                     [] code = 4 -> Reads(e)
                     [] code = 5 -> Reads(f)
                     [] OTHER -> << >>
<1>1. a \in Seq(Int \X Int) /\ Len(a) > 0 /\ a[1][1] = start
  OBVIOUS
<1>2. b \in Seq(Int \X Int) /\ c \in Seq(Int \X Int) /\ d \in Seq(Int \X Int)
      /\ e \in Seq(Int \X Int) /\ f \in Seq(Int \X Int)
  OBVIOUS
<1>3. Cargo(code, start) = Reads(a) \o tail
  BY DEF Cargo
<1> HIDE DEF a, b, c, d, e, f
<1>4. /\ Reads(b) \in Seq(Shape) /\ Reads(c) \in Seq(Shape) /\ Reads(d) \in Seq(Shape)
      /\ Reads(e) \in Seq(Shape) /\ Reads(f) \in Seq(Shape) /\ << >> \in Seq(Shape)
  BY <1>2, Shapes
<1>5. tail \in Seq(Shape)
  <2>1. CASE code \in {1, 2, 3, 4, 5}
    BY <1>4, <2>1
  <2>2. CASE code \notin {1, 2, 3, 4, 5}
    BY <1>4, <2>2
  <2> QED
    BY <2>1, <2>2
<1> HIDE DEF tail
<1>6. Undecided \in Statuses
  BY DEF Statuses
<1>7. Halts(p, Reads(a), x, Undecided, "aborted")
  BY <1>1, <1>6, Misread
<1> QED
  BY <1>3, <1>5, <1>7, HaltsThen

(* 6:1:25 aborts exactly on cargo without a layout. *)
LEMMA Ais6_1_25Settles ==
  ASSUME NEW p, IsMessage(p), Application(p) = << 1, 25 >>, p.fi = 25,
         Unguarded(p) <=> /\ NumBits(p) \in 100 .. 576 /\ (NumBits(p) - 100) % 17 = 0
                          /\ Kinds(p, 100, 17) \cap ({0} \cup 6 .. 15) # {}
  PROVE  Settles(p, Ais6_1_25(p), 88)
<1> DEFINE a == << <<88, 2>>, <<90, 10>> >>
           n == NumBits(p)
           count == NumSub(p, 100, 17)
           pieces == [i \in 1 .. count |-> Cargo(Kind(p, i - 1), 100 + 17 * (i - 1))]
           calls == SeekTo(88) \o Reads(a) \o FlattenSeq(pieces) \o NoneRemaining \o Ok
           ok == n \in 100 .. 576 /\ (n - 100) % 17 = 0
<1>1. Tiles(a, 88, 100)
  BY DEF Tiles, Within
<1>2. Ais6_1_25(p) = Applied(p, 1, 25, ok, calls)
  BY DEF Ais6_1_25, Each, NumSub
<1>3. IsPayload(p)
  BY DEF IsMessage
<1>9. ASSUME NEW i \in Nat PROVE Kind(p, i) \in 0 .. 15
  <2>1. p.kinds \in Seq(0 .. 15) /\ p.kinds # << >>
    BY DEF IsMessage
  <2> QED
    BY <2>1, KindIn
<1> HIDE DEF a
<1>4. ASSUME ok PROVE Settles(p, calls, 88)
  <2>1. /\ n \in Int /\ n >= 100 /\ n <= Limit(p) /\ Limit(p) \in Int
        /\ count \in Nat /\ 100 + count * 17 = n
    <3>1. n \in Int /\ n >= 100 /\ n <= Limit(p) /\ Limit(p) \in Int /\ (n - 100) % 17 = 0
      BY <1>3, <1>4, PayloadBits
    <3>2. count = (n - 100) \div 17
      BY DEF NumSub
    <3> HIDE DEF n, count
    <3>3. count \in Nat /\ 100 + count * 17 = n
      BY <3>1, <3>2
    <3> QED
      BY <3>1, <3>3
  <2>2. Runs(p, SeekTo(88) \o Reads(a), 88, 100)
    <3>1. Runs(p, SeekTo(88), 88, 88)
      BY <2>1, SeekFirst
    <3> QED
      BY <1>1, <1>3, <2>1, <3>1, ThenReads
  <2>3. ASSUME NEW i \in 0 .. count - 1
        PROVE  /\ Kind(p, i) \in 0 .. 15 /\ 100 + i * 17 \in Int
               /\ 100 + i * 17 + 17 <= Limit(p)
               /\ pieces[i + 1] = Cargo(Kind(p, i), 100 + i * 17)
    <3>1. i + 1 \in 1 .. count /\ (i + 1) - 1 = i /\ 100 + 17 * i = 100 + i * 17
          /\ 100 + i * 17 + 17 <= Limit(p)
      BY <2>1
    <3>2. Kind(p, i) \in 0 .. 15
      BY <1>9
    <3> QED
      BY <3>1, <3>2
  <2>4. pieces = [i \in 1 .. count |-> pieces[i]]
    OBVIOUS
  <2>5. ASSUME NEW i \in 0 .. count - 1 PROVE pieces[i + 1] \in Seq(Shape)
    <3>1. Halts(p, pieces[i + 1], 100 + i * 17 + 1, Undecided, "aborted")
      <4>1. 100 + i * 17 \in Int /\ 100 + i * 17 + 1 \in Int /\ 100 + i * 17 + 1 # 100 + i * 17
        BY <2>1
      <4>2. Halts(p, Cargo(Kind(p, i), 100 + i * 17), 100 + i * 17 + 1, Undecided, "aborted")
        BY <1>3, <4>1, CargoMisread
      <4> HIDE DEF pieces, count
      <4> QED
        BY <2>3, <4>2
    <3> QED
      BY <3>1 DEF Halts
  <2>6. Unguarded(p) <=> \E i \in 0 .. count - 1 : Kind(p, i) \notin 1 .. 5
    <3>1. Unguarded(p) <=> Kinds(p, 100, 17) \cap ({0} \cup 6 .. 15) # {}
      BY <1>4
    <3>2. Kinds(p, 100, 17) = {Kind(p, i) : i \in 0 .. count - 1}
      BY DEF Kinds
    <3> DEFINE bad == {0} \cup 6 .. 15
               few == 1 .. 5
               all == 0 .. 15
               index == 0 .. count - 1
    <3>3. \A k \in all : k \notin few <=> k \in bad
      OBVIOUS
    <3>4. \A i \in index : Kind(p, i) \in all
      BY <2>3
    <3>5. (Unguarded(p) <=> Kinds(p, 100, 17) \cap bad # {})
          /\ Kinds(p, 100, 17) = {Kind(p, i) : i \in index}
      BY <3>1, <3>2
    <3> HIDE DEF count, bad, few, all, index
    <3>6. Unguarded(p) <=> \E i \in index : Kind(p, i) \notin few
      BY <3>3, <3>4, <3>5
    <3> QED
      BY <3>6 DEF index, few
  <2> DEFINE from == 100
             size == 17
  <2> HIDE DEF pieces, count
  <2>7. ASSUME ~ Unguarded(p) PROVE Settles(p, calls, 88)
    <3>1. ASSUME NEW i \in 0 .. count - 1
          PROVE  Runs(p, pieces[i + 1], from + i * size, from + i * size + size)
      BY <1>3, <2>3, <2>6, <2>7, CargoRuns
    <3>2. count \in Nat /\ from \in Int /\ size \in Int
      BY <2>1
    <3> HIDE DEF from, size
    <3>3. Runs(p, FlattenSeq(pieces), from, from + count * size)
      BY <2>4, <3>1, <3>2, EvenLoop
    <3>4. Runs(p, FlattenSeq(pieces), 100, n)
      BY <2>1, <3>3 DEF from, size
    <3>5. Gives(p, calls, 88, "AIS_OK")
      BY <2>2, <3>4, RunsThen, ThenEnd
    <3> QED
      BY <2>7, <3>5, Endings DEF Settles
  <2>8. ASSUME Unguarded(p) PROVE Settles(p, calls, 88)
    <3>1. PICK k \in 0 .. count - 1 : Kind(p, k) \notin 1 .. 5
                                      /\ \A i \in 0 .. k - 1 : Kind(p, i) \in 1 .. 5
      <4>1. PICK j \in 0 .. count - 1 : Kind(p, j) \notin 1 .. 5
        BY <2>6, <2>8
      <4> DEFINE T == {i \in Int : Kind(p, i) \notin 1 .. 5}
      <4>2. j \in T /\ count \in Nat
        BY <2>1, <4>1
      <4> HIDE DEF T
      <4>3. PICK k \in 0 .. count - 1 : k \in T /\ \A i \in 0 .. k - 1 : i \notin T
        BY <4>1, <4>2, Least
      <4> QED
        BY <4>3 DEF T
    <3> DEFINE y == 100 + k * 17 + 4
               e == Undecided
    <3>2. ASSUME NEW i \in 0 .. k - 1
          PROVE  Runs(p, pieces[i + 1], from + i * size, from + i * size + size)
      <4>1. i \in 0 .. count - 1
        BY <2>1, <3>1
      <4> QED
        BY <1>3, <2>3, <3>1, <4>1, CargoRuns
    <3>3. Runs(p, pieces[k + 1], from + k * size, y)
      BY <1>3, <2>3, <3>1, CargoWithout
    <3>4. y \in Int /\ e \in Statuses /\ count \in Nat /\ from \in Int /\ size \in Int
      BY <2>1 DEF Statuses
    <3>5. y # n /\ y # 100 + (k + 1) * 17
      BY <2>1
    <3>6. k + 1 < count => k + 1 \in 0 .. count - 1 /\ (k + 1) + 1 = k + 2
                           /\ 100 + (k + 1) * 17 \in Int
      BY <2>1
    <3>7. k + 1 < count => Halts(p, pieces[k + 2], y, e, "aborted")
      <4> SUFFICES ASSUME k + 1 < count PROVE Halts(p, pieces[k + 2], y, e, "aborted")
        OBVIOUS
      <4>1. pieces[k + 2] = Cargo(Kind(p, k + 1), 100 + (k + 1) * 17)
        BY <2>3, <3>6
      <4> HIDE DEF y
      <4> QED
        BY <1>3, <3>4, <3>5, <3>6, <4>1, CargoMisread
    <3>8. Leads(p, pieces[k + 1], from + k * size, Undecided, y, e)
      BY <3>3 DEF Runs
    <3> HIDE DEF from, size, y, e
    <3>9. /\ k + 1 = count => Leads(p, FlattenSeq(pieces), from, Undecided, y, e)
          /\ \A v : k + 1 < count /\ Halts(p, pieces[k + 2], y, e, v)
              => Halts(p, FlattenSeq(pieces), from, Undecided, v)
      BY <2>4, <2>5, <3>2, <3>4, <3>8, OddLoop
    <3>10. CASE k + 1 = count
      <4>1. Runs(p, FlattenSeq(pieces), 100, y)
        BY <3>9, <3>10 DEF Runs, e, from
      <4>2. Gives(p, calls, 88, "aborted")
        BY ZenonT(40), <2>2, <3>5, <4>1, RunsThen, BadEndGives
      <4> QED
        BY <2>8, <4>2 DEF Settles
    <3>11. CASE k + 1 < count
      <4>1. Gives(p, FlattenSeq(pieces), 100, "aborted")
        BY <3>7, <3>9, <3>11 DEF Gives, from
      <4>2. Gives(p, SeekTo(88) \o Reads(a) \o FlattenSeq(pieces), 88, "aborted")
        BY <2>2, <4>1, GivesAfter
      <4>3. NoneRemaining \in Seq(Shape) /\ Ok \in Seq(Shape)
        BY Shapes, Endings
      <4>4. Gives(p, calls, 88, "aborted")
        BY <4>2, <4>3, GivesThen
      <4> QED
        BY <2>8, <4>4 DEF Settles
    <3>12. k + 1 = count \/ k + 1 < count
      BY <2>1
    <3> QED
      BY <3>10, <3>11, <3>12
  <2> QED
    BY <2>7, <2>8
<1>5. ok \in BOOLEAN /\ 88 \in Int /\ (Unguarded(p) => ok)
  OBVIOUS
<1> HIDE DEF calls, ok
<1> QED
  BY <1>2, <1>4, <1>5, AppliedSettles

(* 6:1:32 aborts on the one length it accepts. *)
LEMMA Ais6_1_32Settles ==
  ASSUME NEW p, IsMessage(p), Application(p) = << 1, 32 >>,
         Unguarded(p) <=> NumBits(p) = 350
  PROVE  Settles(p, Ais6_1_32(p), 88)
<1> DEFINE a == << <<88, 4>>, <<92, 5>> >>
           F(i) == LET start == 97 + 88 * i IN
                   << <<start + 49, 5>>, <<start + 54, 6>>, <<start + 60, 5>>,
                      <<start + 65, 6>>, <<start + 71, 9>>, <<start + 80, 8>> >>
           pieces == [i \in 1 .. 3 |-> Point(97 + 88 * (i - 1), 49) \o Reads(F(i - 1))]
           calls == SeekTo(88) \o Reads(a) \o FlattenSeq(pieces) \o NoneRemaining \o Ok
           ok == NumBits(p) = 350
<1>0. IsPayload(p)
  BY DEF IsMessage
<1>1. Tiles(a, 88, 97)
  BY DEF Tiles, Within
<1>2. Ais6_1_32(p) = Applied(p, 1, 32, ok, calls)
  BY DEF Ais6_1_32, Each
<1>3. ASSUME NEW i \in 0 .. 2
      PROVE  /\ Tiles(F(i), 97 + i * 88 + 49, 97 + i * 88 + 88)
             /\ pieces[i + 1] = Point(97 + i * 88, 49) \o Reads(F(i))
  <2>1. i + 1 \in 1 .. 3 /\ (i + 1) - 1 = i /\ 97 + 88 * i = 97 + i * 88 /\ 97 + i * 88 \in Int
    OBVIOUS
  <2>2. Tiles(F(i), 97 + i * 88 + 49, 97 + i * 88 + 88)
    <3> DEFINE start == 97 + i * 88
               G == << <<start + 49, 5>>, <<start + 54, 6>>, <<start + 60, 5>>,
                       <<start + 65, 6>>, <<start + 71, 9>>, <<start + 80, 8>> >>
    <3>1. F(i) = G
      BY <2>1
    <3>2. start \in Int
      BY <2>1
    <3> HIDE DEF start
    <3>3. Tiles(G, start + 49, start + 88)
      BY <3>2 DEF Tiles, Within
    <3> QED
      BY <3>1, <3>3 DEF start
  <2> HIDE DEF F
  <2> QED
    BY <2>1, <2>2
<1> HIDE DEF a
<1>4. ASSUME ok PROVE Gives(p, calls, 88, "aborted")
  <2>1. NumBits(p) = 350 /\ 350 <= Limit(p) /\ Limit(p) \in Int /\ Unguarded(p)
        /\ NumChars(p) \in Nat /\ 6 * NumChars(p) <= 355
    <3>1. NumBits(p) = 350 /\ Unguarded(p)
      BY <1>4
    <3>2. 6 * NumChars(p) <= 355
      BY <1>0, <3>1 DEF NumBits, NumChars, IsPayload
    <3> QED
      BY <1>0, <3>1, <3>2, PayloadBits
  <2>2. Runs(p, SeekTo(88) \o Reads(a), 88, 97)
    <3>1. Runs(p, SeekTo(88), 88, 88)
      BY <2>1, SeekFirst
    <3> QED
      BY <1>0, <1>1, <2>1, <3>1, ThenReads
  <2>3. pieces = [i \in 1 .. 3 |-> pieces[i]]
    OBVIOUS
  <2>16. ASSUME NEW i \in 0 .. 2 PROVE pieces[i + 1] = Point(97 + i * 88, 49) \o Reads(F(i))
    <3>1. i + 1 \in 1 .. 3 /\ (i + 1) - 1 = i /\ 97 + 88 * i = 97 + i * 88
      OBVIOUS
    <3> HIDE DEF F
    <3> QED
      BY <3>1
  <2> HIDE DEF pieces, F
  <2>4. ASSUME NEW i \in 0 .. 2
        PROVE  Runs(p, Point(97 + i * 88, 49), 97 + i * 88, 97 + i * 88 + 49)
    <3>1. 97 + i * 88 \in Int /\ 97 + i * 88 + 49 <= Limit(p)
      BY <2>1
    <3> QED
      BY <1>0, <3>1, PointRuns
  <2>5. ASSUME NEW i \in 0 .. 1
        PROVE  Runs(p, pieces[i + 1], 97 + i * 88, 97 + i * 88 + 88)
    <3> DEFINE x == 97 + i * 88
               y == x + 49
               z == x + 88
    <3>1. z <= Limit(p) /\ z \in Int
      BY <2>1
    <3>2. i \in 0 .. 2
      OBVIOUS
    <3>3. Tiles(F(i), y, z) /\ pieces[i + 1] = Point(x, 49) \o Reads(F(i))
      <4>1. Tiles(F(i), y, z)
        BY <1>3, <3>2
      <4>2. pieces[i + 1] = Point(x, 49) \o Reads(F(i))
        <5>1. \A j \in 0 .. 2 : pieces[j + 1] = Point(97 + j * 88, 49) \o Reads(F(j))
          BY <2>16
        <5> DEFINE index == 0 .. 2
                   at(j) == 97 + j * 88
        <5>2. i \in index /\ \A j \in index : pieces[j + 1] = Point(at(j), 49) \o Reads(F(j))
          BY <5>1, <3>2
        <5> HIDE DEF index, at
        <5>3. pieces[i + 1] = Point(at(i), 49) \o Reads(F(i))
          BY <5>2
        <5> USE DEF at
        <5> QED
          BY <5>3
      <4> QED
        BY <4>1, <4>2
    <3>4. Runs(p, Point(x, 49), x, y)
      BY <2>4, <3>2
    <3> HIDE DEF x, y, z
    <3>5. Runs(p, pieces[i + 1], x, z)
      BY <1>0, <3>1, <3>3, <3>4, ThenReads
    <3> QED
      BY <3>5 DEF x, z
  <2>6. Gives(p, pieces[2 + 1], 97 + 2 * 88, "aborted")
    <3> DEFINE x == 97 + 2 * 88
               y == x + 49
               z == x + 88
    <3>1. 2 \in 0 .. 2 /\ z > 6 * NumChars(p) /\ z \in Int
      BY <2>1
    <3>2. /\ Tiles(F(2), y, z) /\ pieces[2 + 1] = Point(x, 49) \o Reads(F(2))
          /\ Runs(p, Point(x, 49), x, y)
      BY SMTT(30), <1>3, <2>4, <3>1
    <3>3. Unguarded(p)
      BY <2>1
    <3> HIDE DEF x, y, z
    <3>4. Gives(p, pieces[2 + 1], x, "aborted")
      BY <1>0, <3>1, <3>2, <3>3, ThenOverrun
    <3> QED
      BY <3>4 DEF x
  <2>7. ASSUME NEW i \in 0 .. 2 PROVE pieces[i + 1] \in Seq(Shape)
    <3>1. CASE i \in 0 .. 1
      BY <2>5, <3>1, RunsTyped
    <3>2. CASE i = 2
      BY <2>6, <3>2 DEF Gives, Halts
    <3> QED
      BY <3>1, <3>2
  <2> DEFINE count == 3
             from == 97
             size == 88
             k == 2
  <2>8. /\ count \in Nat /\ from \in Int /\ size \in Int /\ k \in 0 .. count - 1
        /\ pieces = [i \in 1 .. count |-> pieces[i]]
    BY <2>3
  <2>9. \A i \in 0 .. count - 1 : pieces[i + 1] \in Seq(Shape)
    BY <2>7
  <2>10. \A i \in 0 .. k - 1 : Runs(p, pieces[i + 1], from + i * size, from + i * size + size)
    BY <2>5
  <2>11. Gives(p, pieces[k + 1], from + k * size, "aborted")
    BY <2>6
  <2> HIDE DEF count, from, size, k
  <2>12. Gives(p, FlattenSeq(pieces), from, "aborted")
    BY <2>8, <2>9, <2>10, <2>11, EvenLoopLeft
  <2>13. Gives(p, FlattenSeq(pieces), 97, "aborted")
    BY <2>12 DEF from
  <2>14. Gives(p, SeekTo(88) \o Reads(a) \o FlattenSeq(pieces), 88, "aborted")
    BY <2>2, <2>13, GivesAfter
  <2>15. NoneRemaining \in Seq(Shape) /\ Ok \in Seq(Shape)
    BY Shapes, Endings
  <2> QED
    BY <2>14, <2>15, GivesThen
<1>5. ok => Settles(p, calls, 88)
  BY <1>4 DEF Settles
<1>6. ok \in BOOLEAN /\ 88 \in Int /\ (Unguarded(p) => ok)
  OBVIOUS
<1> HIDE DEF calls, ok
<1> QED
  BY <1>2, <1>5, <1>6, AppliedSettles

-----------------------------------------------------------------------------
(* Messages 8 without lists of areas or reports.                           *)

(* 8:1:11 settles the status behind its length test. *)
LEMMA Ais8_1_11Gives ==
  ASSUME NEW p, IsPayload(p), Application(p) = << 1, 11 >>
  PROVE  \E v \in Given : Gives(p, Ais8_1_11(p), 56, v)
<1> DEFINE a == << <<56, 24>>, <<80, 25>>, <<105, 5>>, <<110, 5>>, <<115, 6>>,
                   <<121, 7>>, <<128, 7>>, <<135, 9>>, <<144, 9>>, <<153, 11>>,
                   <<164, 7>>, <<171, 10>>, <<181, 9>>, <<190, 2>>, <<192, 8>>,
                   <<200, 9>>, <<209, 2>>, <<211, 8>>, <<219, 9>>, <<228, 8>>,
                   <<236, 9>>, <<245, 5>>, <<250, 8>>, <<258, 9>>, <<267, 5>>,
                   <<272, 8>>, <<280, 6>>, <<286, 9>>, <<295, 8>>, <<303, 6>>,
                   <<309, 9>>, <<318, 4>>, <<322, 10>>, <<332, 3>>, <<335, 9>>,
                   <<344, 2>>, <<346, 6>> >>
           b == << <<346, 6>> >>
           calls == SeekTo(56) \o Reads(a) \o SeekRelative(-6) \o Reads(b) \o NoneRemaining
                    \o Ok
           ok == NumBits(p) = 352
<1>1. Tiles(a, 56, 352) /\ Tiles(b, 346, 352)
  BY DEF Tiles, Within
<1> HIDE DEF a, b
<1>2. ASSUME ok PROVE Gives(p, calls, 56, "AIS_OK")
  <2>1. NumBits(p) = 352 /\ 352 <= Limit(p) /\ Limit(p) \in Int
    BY <1>2, PayloadBits
  <2>2. Runs(p, SeekTo(56), 56, 56)
    BY <2>1, SeekFirst
  <2> QED
    BY <1>1, <2>1, <2>2, ThenReads, ThenSkip, ThenEnd
<1>3. Ais8_1_11(p) = Applied(p, 1, 11, ok, calls)
  BY DEF Ais8_1_11, a, b
<1>4. ok \in BOOLEAN /\ 56 \in Int /\ "AIS_OK" \in Given
  BY DEF Given
<1> HIDE DEF calls, ok
<1>5. \E v \in Given : Gives(p, Applied(p, 1, 11, ok, calls), 56, v)
  BY <1>2, <1>4, AppliedGives, Zenon
<1> QED
  BY <1>3, <1>5

(* 8:1:13 settles the status behind its length test. *)
LEMMA Ais8_1_13Gives ==
  ASSUME NEW p, IsPayload(p), Application(p) = << 1, 13 >>
  PROVE  \E v \in Given : Gives(p, Ais8_1_13(p), 56, v)
<1> DEFINE a == << <<416, 10>>, <<426, 2>>, <<428, 5>>, <<433, 4>>, <<437, 5>>,
                   <<442, 6>>, <<448, 5>>, <<453, 4>>, <<457, 5>>, <<462, 6>>,
                   <<468, 4>> >>
           calls == SeekTo(56) \o Text(56, 120) \o Text(176, 120) \o Text(296, 120)
                    \o Reads(a) \o NoneRemaining \o Ok
           ok == NumBits(p) = 472
<1>1. Tiles(a, 416, 472)
  BY DEF Tiles, Within
<1> HIDE DEF a
<1>2. ASSUME ok PROVE Gives(p, calls, 56, "AIS_OK")
  <2>1. NumBits(p) = 472 /\ 472 <= Limit(p) /\ Limit(p) \in Int
    BY <1>2, PayloadBits
  <2>2. Runs(p, SeekTo(56), 56, 56)
    BY <2>1, SeekFirst
  <2> QED
    BY <1>1, <2>1, <2>2, ThenText, ThenReads, ThenEnd
<1>3. Ais8_1_13(p) = Applied(p, 1, 13, ok, calls)
  BY DEF Ais8_1_13, a
<1>4. ok \in BOOLEAN /\ 56 \in Int /\ "AIS_OK" \in Given
  BY DEF Given
<1> HIDE DEF calls, ok
<1>5. \E v \in Given : Gives(p, Applied(p, 1, 13, ok, calls), 56, v)
  BY <1>2, <1>4, AppliedGives, Zenon
<1> QED
  BY <1>3, <1>5

(* 8:1:15 settles the status behind its length test. *)
LEMMA Ais8_1_15Gives ==
  ASSUME NEW p, IsPayload(p), Application(p) = << 1, 15 >>
  PROVE  \E v \in Given : Gives(p, Ais8_1_15(p), 56, v)
<1> DEFINE a == << <<56, 11>>, <<67, 5>> >>
           calls == SeekTo(56) \o Reads(a) \o NoneRemaining \o Ok
           ok == NumBits(p) = 72
<1>1. Tiles(a, 56, 72)
  BY DEF Tiles, Within
<1> HIDE DEF a
<1>2. ASSUME ok PROVE Gives(p, calls, 56, "AIS_OK")
  <2>1. NumBits(p) = 72 /\ 72 <= Limit(p) /\ Limit(p) \in Int
    BY <1>2, PayloadBits
  <2>2. Runs(p, SeekTo(56), 56, 56)
    BY <2>1, SeekFirst
  <2> QED
    BY <1>1, <2>1, <2>2, ThenReads, ThenEnd
<1>3. Ais8_1_15(p) = Applied(p, 1, 15, ok, calls)
  BY DEF Ais8_1_15, a
<1>4. ok \in BOOLEAN /\ 56 \in Int /\ "AIS_OK" \in Given
  BY DEF Given
<1> HIDE DEF calls, ok
<1>5. \E v \in Given : Gives(p, Applied(p, 1, 15, ok, calls), 56, v)
  BY <1>2, <1>4, AppliedGives, Zenon
<1> QED
  BY <1>3, <1>5

(* 8:1:16 settles the status behind its length test. *)
LEMMA Ais8_1_16Gives ==
  ASSUME NEW p, IsPayload(p), Application(p) = << 1, 16 >>
  PROVE  \E v \in Given : Gives(p, Ais8_1_16(p), 56, v)
<1> DEFINE a == << <<56, 13>>, <<69, 3>> >>
           calls == SeekTo(56) \o Reads(a) \o NoneRemaining \o Ok
           ok == NumBits(p) = 72
<1>1. Tiles(a, 56, 72)
  BY DEF Tiles, Within
<1> HIDE DEF a
<1>2. ASSUME ok PROVE Gives(p, calls, 56, "AIS_OK")
  <2>1. NumBits(p) = 72 /\ 72 <= Limit(p) /\ Limit(p) \in Int
    BY <1>2, PayloadBits
  <2>2. Runs(p, SeekTo(56), 56, 56)
    BY <2>1, SeekFirst
  <2> QED
    BY <1>1, <2>1, <2>2, ThenReads, ThenEnd
<1>3. Ais8_1_16(p) = Applied(p, 1, 16, ok, calls)
  BY DEF Ais8_1_16, a
<1>4. ok \in BOOLEAN /\ 56 \in Int /\ "AIS_OK" \in Given
  BY DEF Given
<1> HIDE DEF calls, ok
<1>5. \E v \in Given : Gives(p, Applied(p, 1, 16, ok, calls), 56, v)
  BY <1>2, <1>4, AppliedGives, Zenon
<1> QED
  BY <1>3, <1>5

(* 8:1:29 settles the status behind its length test. *)
LEMMA Ais8_1_29Gives ==
  ASSUME NEW p, IsPayload(p), Application(p) = << 1, 29 >>
  PROVE  \E v \in Given : Gives(p, Ais8_1_29(p), 56, v)
<1> DEFINE a == << <<56, 10>> >>
           calls == SeekTo(56) \o Reads(a) \o TextAndSpare(p, 66) \o NoneRemaining \o Ok
           ok == NumBits(p) \in 72 .. 1032
<1>1. Tiles(a, 56, 66)
  BY DEF Tiles, Within
<1> HIDE DEF a
<1>2. ASSUME ok PROVE Gives(p, calls, 56, "AIS_OK")
  <2>1. NumBits(p) \in Int /\ NumBits(p) >= 72 /\ NumBits(p) <= Limit(p) /\ Limit(p) \in Int
    BY <1>2, PayloadBits
  <2>2. Runs(p, SeekTo(56), 56, 56)
    BY <2>1, SeekFirst
  <2> QED
    BY <1>1, <2>1, <2>2, ThenReads, ThenTextAndSpare, ThenEnd
<1>3. Ais8_1_29(p) = Applied(p, 1, 29, ok, calls)
  BY DEF Ais8_1_29, a
<1>4. ok \in BOOLEAN /\ 56 \in Int /\ "AIS_OK" \in Given
  BY DEF Given
<1> HIDE DEF calls, ok
<1>5. \E v \in Given : Gives(p, Applied(p, 1, 29, ok, calls), 56, v)
  BY <1>2, <1>4, AppliedGives, Zenon
<1> QED
  BY <1>3, <1>5

(* 8:1:31 settles the status behind its length test. *)
LEMMA Ais8_1_31Gives ==
  ASSUME NEW p, IsPayload(p), Application(p) = << 1, 31 >>
  PROVE  \E v \in Given : Gives(p, Ais8_1_31(p), 56, v)
<1> DEFINE a == << <<105, 1>>, <<106, 5>>, <<111, 5>>, <<116, 6>>, <<122, 7>>,
                   <<129, 7>>, <<136, 9>>, <<145, 9>>, <<154, 11>>, <<165, 7>>,
                   <<172, 10>>, <<182, 9>>, <<191, 2>>, <<193, 8>>,
                   <<201, 12>>, <<213, 2>>, <<215, 8>>, <<223, 9>>, <<232, 8>>,
                   <<240, 9>>, <<249, 5>>, <<254, 8>>, <<262, 9>>, <<271, 5>>,
                   <<276, 8>>, <<284, 6>>, <<290, 9>>, <<299, 8>>, <<307, 6>>,
                   <<313, 9>>, <<322, 4>>, <<326, 10>>, <<336, 3>>, <<339, 9>>,
                   <<348, 2>>, <<350, 10>> >>
           calls == SeekTo(56) \o Point(56, 49) \o Reads(a) \o NoneRemaining \o Ok
           ok == NumBits(p) = 360
<1>1. Tiles(a, 105, 360)
  BY DEF Tiles, Within
<1> HIDE DEF a
<1>2. ASSUME ok PROVE Gives(p, calls, 56, "AIS_OK")
  <2>1. NumBits(p) = 360 /\ 360 <= Limit(p) /\ Limit(p) \in Int
    BY <1>2, PayloadBits
  <2>2. Runs(p, SeekTo(56), 56, 56)
    BY <2>1, SeekFirst
  <2> QED
    BY <1>1, <2>1, <2>2, ThenPoint, ThenReads, ThenEnd
<1>3. Ais8_1_31(p) = Applied(p, 1, 31, ok, calls)
  BY DEF Ais8_1_31, a
<1>4. ok \in BOOLEAN /\ 56 \in Int /\ "AIS_OK" \in Given
  BY DEF Given
<1> HIDE DEF calls, ok
<1>5. \E v \in Given : Gives(p, Applied(p, 1, 31, ok, calls), 56, v)
  BY <1>2, <1>4, AppliedGives, Zenon
<1> QED
  BY <1>3, <1>5

(* 8:200:10 settles the status behind its length test. *)
LEMMA Ais8_200_10Gives ==
  ASSUME NEW p, IsPayload(p), Application(p) = << 200, 10 >>
  PROVE  \E v \in Given : Gives(p, Ais8_200_10(p), 56, v)
<1> DEFINE a == << <<104, 13>>, <<117, 10>>, <<127, 14>>, <<141, 3>>,
                   <<144, 11>>, <<155, 2>>, <<157, 1>>, <<158, 1>>, <<159, 1>>,
                   <<160, 8>> >>
           calls == SeekTo(56) \o Text(56, 48) \o Reads(a) \o NoneRemaining \o Ok
           ok == NumBits(p) = 168
           dac == 200
           fi == 10
<1>1. Tiles(a, 104, 168)
  BY DEF Tiles, Within
<1> HIDE DEF a
<1>2. ASSUME ok PROVE Gives(p, calls, 56, "AIS_OK")
  <2>1. NumBits(p) = 168 /\ 168 <= Limit(p) /\ Limit(p) \in Int
    BY <1>2, PayloadBits
  <2>2. Runs(p, SeekTo(56), 56, 56)
    BY <2>1, SeekFirst
  <2> QED
    BY <1>1, <2>1, <2>2, ThenText, ThenReads, ThenEnd
<1>3. Ais8_200_10(p) = Applied(p, dac, fi, ok, calls)
  BY DEF Ais8_200_10, a
<1>4. ok \in BOOLEAN /\ 56 \in Int /\ "AIS_OK" \in Given /\ Application(p) = << dac, fi >>
  BY DEF Given
<1> HIDE DEF calls, ok, dac, fi
<1>5. \E v \in Given : Gives(p, Applied(p, dac, fi, ok, calls), 56, v)
  BY <1>2, <1>4, AppliedGives, Zenon
<1> QED
  BY <1>3, <1>5

(* 8:200:40 settles the status behind its length test. *)
LEMMA Ais8_200_40Gives ==
  ASSUME NEW p, IsPayload(p), Application(p) = << 200, 40 >>
  PROVE  \E v \in Given : Gives(p, Ais8_200_40(p), 56, v)
<1> DEFINE a == << <<111, 4>>, <<115, 9>>, <<124, 3>>, <<127, 30>>, <<157, 11>> >>
           calls == SeekTo(56) \o Point(56, 55) \o Reads(a) \o NoneRemaining \o Ok
           ok == NumBits(p) = 168
           dac == 200
           fi == 40
<1>1. Tiles(a, 111, 168)
  BY DEF Tiles, Within
<1> HIDE DEF a
<1>2. ASSUME ok PROVE Gives(p, calls, 56, "AIS_OK")
  <2>1. NumBits(p) = 168 /\ 168 <= Limit(p) /\ Limit(p) \in Int
    BY <1>2, PayloadBits
  <2>2. Runs(p, SeekTo(56), 56, 56)
    BY <2>1, SeekFirst
  <2> QED
    BY <1>1, <2>1, <2>2, ThenPoint, ThenReads, ThenEnd
<1>3. Ais8_200_40(p) = Applied(p, dac, fi, ok, calls)
  BY DEF Ais8_200_40, a
<1>4. ok \in BOOLEAN /\ 56 \in Int /\ "AIS_OK" \in Given /\ Application(p) = << dac, fi >>
  BY DEF Given
<1> HIDE DEF calls, ok, dac, fi
<1>5. \E v \in Given : Gives(p, Applied(p, dac, fi, ok, calls), 56, v)
  BY <1>2, <1>4, AppliedGives, Zenon
<1> QED
  BY <1>3, <1>5

(* 8:367:23 settles the status behind its length test. *)
LEMMA Ais8_367_23Gives ==
  ASSUME NEW p, IsPayload(p), Application(p) = << 367, 23 >>
  PROVE  \E v \in Given : Gives(p, Ais8_367_23(p), 56, v)
<1> DEFINE a == << <<56, 3>>, <<59, 5>>, <<64, 5>>, <<69, 6>> >>
           b == << <<124, 9>>, <<133, 11>>, <<144, 7>>, <<151, 7>>, <<158, 9>>,
                   <<167, 1>> >>
           calls == SeekTo(56) \o Reads(a) \o Point(75, 49) \o Reads(b) \o NoneRemaining
                    \o Ok
           ok == NumBits(p) = 168
           dac == 367
           fi == 23
<1>1. Tiles(a, 56, 75) /\ Tiles(b, 124, 168)
  BY DEF Tiles, Within
<1> HIDE DEF a, b
<1>2. ASSUME ok PROVE Gives(p, calls, 56, "AIS_OK")
  <2>1. NumBits(p) = 168 /\ 168 <= Limit(p) /\ Limit(p) \in Int
    BY <1>2, PayloadBits
  <2>2. Runs(p, SeekTo(56), 56, 56)
    BY <2>1, SeekFirst
  <2> QED
    BY <1>1, <2>1, <2>2, ThenReads, ThenPoint, ThenEnd
<1>3. Ais8_367_23(p) = Applied(p, dac, fi, ok, calls)
  BY DEF Ais8_367_23, a, b
<1>4. ok \in BOOLEAN /\ 56 \in Int /\ "AIS_OK" \in Given /\ Application(p) = << dac, fi >>
  BY DEF Given
<1> HIDE DEF calls, ok, dac, fi
<1>5. \E v \in Given : Gives(p, Applied(p, dac, fi, ok, calls), 56, v)
  BY <1>2, <1>4, AppliedGives, Zenon
<1> QED
  BY <1>3, <1>5

(* 8:367:24 settles the status behind its length test. *)
LEMMA Ais8_367_24Gives ==
  ASSUME NEW p, IsPayload(p), Application(p) = << 367, 24 >>
  PROVE  \E v \in Given : Gives(p, Ais8_367_24(p), 56, v)
<1> DEFINE a == << <<56, 3>>, <<59, 5>>, <<64, 6>> >>
           b == << <<119, 9>> >>
           calls == SeekTo(56) \o Reads(a) \o Point(70, 49) \o Reads(b) \o NoneRemaining
                    \o Ok
           ok == NumBits(p) = 128
           dac == 367
           fi == 24
<1>1. Tiles(a, 56, 70) /\ Tiles(b, 119, 128)
  BY DEF Tiles, Within
<1> HIDE DEF a, b
<1>2. ASSUME ok PROVE Gives(p, calls, 56, "AIS_OK")
  <2>1. NumBits(p) = 128 /\ 128 <= Limit(p) /\ Limit(p) \in Int
    BY <1>2, PayloadBits
  <2>2. Runs(p, SeekTo(56), 56, 56)
    BY <2>1, SeekFirst
  <2> QED
    BY <1>1, <2>1, <2>2, ThenReads, ThenPoint, ThenEnd
<1>3. Ais8_367_24(p) = Applied(p, dac, fi, ok, calls)
  BY DEF Ais8_367_24, a, b
<1>4. ok \in BOOLEAN /\ 56 \in Int /\ "AIS_OK" \in Given /\ Application(p) = << dac, fi >>
  BY DEF Given
<1> HIDE DEF calls, ok, dac, fi
<1>5. \E v \in Given : Gives(p, Applied(p, dac, fi, ok, calls), 56, v)
  BY <1>2, <1>4, AppliedGives, Zenon
<1> QED
  BY <1>3, <1>5

(* 8:367:25 settles the status behind its length test. *)
LEMMA Ais8_367_25Gives ==
  ASSUME NEW p, IsPayload(p), Application(p) = << 367, 25 >>
  PROVE  \E v \in Given : Gives(p, Ais8_367_25(p), 56, v)
<1> DEFINE a == << <<56, 3>>, <<59, 5>>, <<64, 6>>, <<70, 9>>, <<79, 7>>,
                   <<86, 9>>, <<95, 1>> >>
           calls == SeekTo(56) \o Reads(a) \o NoneRemaining \o Ok
           ok == NumBits(p) = 96
           dac == 367
           fi == 25
<1>1. Tiles(a, 56, 96)
  BY DEF Tiles, Within
<1> HIDE DEF a
<1>2. ASSUME ok PROVE Gives(p, calls, 56, "AIS_OK")
  <2>1. NumBits(p) = 96 /\ 96 <= Limit(p) /\ Limit(p) \in Int
    BY <1>2, PayloadBits
  <2>2. Runs(p, SeekTo(56), 56, 56)
    BY <2>1, SeekFirst
  <2> QED
    BY <1>1, <2>1, <2>2, ThenReads, ThenEnd
<1>3. Ais8_367_25(p) = Applied(p, dac, fi, ok, calls)
  BY DEF Ais8_367_25, a
<1>4. ok \in BOOLEAN /\ 56 \in Int /\ "AIS_OK" \in Given /\ Application(p) = << dac, fi >>
  BY DEF Given
<1> HIDE DEF calls, ok, dac, fi
<1>5. \E v \in Given : Gives(p, Applied(p, dac, fi, ok, calls), 56, v)
  BY <1>2, <1>4, AppliedGives, Zenon
<1> QED
  BY <1>3, <1>5

(* Fields that follow each other up to one that is not where the one       *)
(* before it ended.                                                        *)
LEMMA ReadsBroken ==
  ASSUME NEW p, IsPayload(p), NEW s, NEW x, NEW y, Runs(p, s, x, y),
         NEW F, F \in Seq(Int \X Int), NEW G, NEW z \in Int, Tiles(G, y, z), z <= Limit(p),
         Len(F) > Len(G), \A i \in 1 .. Len(G) : F[i] = G[i], F[Len(G) + 1][1] # z
  PROVE  Gives(p, s \o Reads(F), x, "aborted")
<1> DEFINE n == Len(G)
           P == Int \X Int
<1>0. G \in Seq(P)
  <2>1. Within(z) \subseteq P /\ G \in Seq(Within(z))
    BY DEF Tiles, Within
  <2> HIDE DEF P
  <2> QED
    BY <2>1
<1>1. /\ Reads(F) \in Seq(Shape) /\ Len(Reads(F)) = Len(F) /\ Len(F) \in Nat
      /\ \A i \in 1 .. Len(F) : /\ Reads(F)[i] \in Shape /\ Reads(F)[i].op = "read"
                                /\ Reads(F)[i].at = F[i][1] /\ Reads(F)[i].len = F[i][2]
  BY ReadsShape
<1>2. /\ Len(Reads(G)) = n /\ n \in Nat
      /\ \A i \in 1 .. n : /\ Reads(G)[i] \in Shape /\ Reads(G)[i].op = "read"
                           /\ Reads(G)[i].at = G[i][1] /\ Reads(G)[i].len = G[i][2]
  BY <1>0, ReadsShape
<1>3. y \in Int
  BY RunsTyped
<1>4. Reach(p, Reads(G), n, y, Undecided, z, Undecided)
  BY <1>2, <1>3, ReadsRun DEF Runs, Leads
<1>5. n + 1 \in 1 .. Len(F) /\ n \in 0 .. Len(Reads(F)) - 1 /\ \A i \in 1 .. n : i \in 1 .. Len(F)
  BY <1>1, <1>2
<1> HIDE DEF n
<1>6. \A i \in 1 .. n : \A a, u, b, v :
        Goes(p, Reads(G)[i], a, u, b, v) => Goes(p, Reads(F)[i], a, u, b, v)
  <2> SUFFICES ASSUME NEW i \in 1 .. n, NEW a, NEW u, NEW b, NEW v,
                      Goes(p, Reads(G)[i], a, u, b, v)
               PROVE  Goes(p, Reads(F)[i], a, u, b, v)
    OBVIOUS
  <2>1. F[i] = G[i]
    BY DEF n
  <2>2. /\ Reads(F)[i].op = Reads(G)[i].op /\ Reads(F)[i].at = Reads(G)[i].at
        /\ Reads(F)[i].len = Reads(G)[i].len /\ Reads(G)[i].op = "read"
    BY ZenonT(60), <1>1, <1>2, <1>5, <2>1
  <2> QED
    BY <2>2 DEF Goes
<1>7. Reach(p, Reads(F), n, y, Undecided, z, Undecided)
  BY <1>4, <1>6 DEF Reach
<1>8. Stops(p, Reads(F)[n + 1], z, Undecided, "aborted")
  <2>1. F[n + 1][1] # z
    BY DEF n
  <2> QED
    BY <1>1, <1>5, <2>1 DEF Stops
<1>9. Undecided \in Statuses
  BY DEF Statuses
<1>10. Gives(p, Reads(F), y, "aborted")
  BY <1>1, <1>5, <1>7, <1>8, <1>9 DEF Gives, Halts
<1> QED
  BY <1>10, GivesAfter

(* A constructor that aborts whenever it accepts a length. *)
LEMMA AlwaysAborts ==
  ASSUME NEW p, NEW x \in Int, NEW dac, NEW fi, Application(p) = << dac, fi >>,
         NEW length_ok \in BOOLEAN, NEW calls,
         length_ok => Gives(p, calls, x, "aborted"), Unguarded(p) <=> length_ok
  PROVE  Settles(p, Applied(p, dac, fi, length_ok, calls), x)
<1>1. length_ok => Settles(p, calls, x)
  BY DEF Settles
<1> QED
  BY <1>1, AppliedSettles

(* 8:1:0 aborts when its text does not fill the payload. *)
LEMMA Ais8_1_0Settles ==
  ASSUME NEW p, IsPayload(p), Application(p) = << 1, 0 >>, NumBits(p) \in 56 .. 1008,
         Unguarded(p) <=> NumBits(p) >= 74 /\ (NumBits(p) - 68) % 6 # 0
  PROVE  Settles(p, Ais8_1_0(p), 56)
<1> DEFINE a == << <<56, 1>>, <<57, 11>> >>
           n == NumBits(p)
           text_size == 6 * ((n - 68) \div 6)
           spare2_size == n - 68 - text_size
           b == << <<68, spare2_size>> >>
           tail == IF spare2_size = 0 THEN << >> ELSE Reads(b)
           calls == SeekTo(56) \o Reads(a) \o Text(68, text_size) \o tail \o NoneRemaining \o Ok
           ok == n \in 68 .. 1024
<1>1. Tiles(a, 56, 68)
  BY DEF Tiles, Within
<1>2. Ais8_1_0(p) = Applied(p, 1, 0, ok, calls)
  BY DEF Ais8_1_0
<1> HIDE DEF a
<1>3. ASSUME ok PROVE Settles(p, calls, 56)
  <2>1. /\ n \in Int /\ n >= 68 /\ n <= Limit(p) /\ Limit(p) \in Int
        /\ text_size \in Nat /\ text_size % 6 = 0 /\ 68 + text_size <= n
        /\ spare2_size \in 0 .. 5 /\ 68 + text_size + spare2_size = n
        /\ (n - 68) % 6 = spare2_size
        /\ n < 74 => text_size = 0
        /\ n >= 74 => text_size > 0
    <3> DEFINE q == (n - 68) \div 6
               r == (n - 68) % 6
    <3>1. n \in Int /\ n >= 68 /\ n <= Limit(p) /\ Limit(p) \in Int
      BY <1>3, PayloadBits
    <3>2. q \in Nat /\ r \in 0 .. 5 /\ n - 68 = 6 * q + r
      BY <3>1
    <3>3. text_size = 6 * q /\ spare2_size = n - 68 - 6 * q
      OBVIOUS
    <3> HIDE DEF q, text_size, spare2_size
    <3>4. text_size \in Nat /\ text_size % 6 = 0
      BY <3>2, <3>3
    <3>5. spare2_size = r
      BY <3>1, <3>2, <3>3
    <3> HIDE DEF r
    <3>6. 68 + text_size <= n /\ spare2_size \in 0 .. 5 /\ 68 + text_size + spare2_size = n
      BY <3>1, <3>2, <3>3, <3>5
    <3>7. (n < 74 => text_size = 0) /\ (n >= 74 => text_size > 0)
      BY <3>1, <3>2, <3>3
    <3> QED
      BY <3>1, <3>4, <3>5, <3>6, <3>7 DEF r
  <2> HIDE DEF text_size, spare2_size
  <2>2. Runs(p, SeekTo(56) \o Reads(a) \o Text(68, text_size), 56, 68 + text_size)
    <3>1. Runs(p, SeekTo(56), 56, 56)
      BY <2>1, SeekFirst
    <3>2. Runs(p, SeekTo(56) \o Reads(a), 56, 68)
      BY <1>1, <2>1, <3>1, ThenReads
    <3>3. 68 + text_size <= Limit(p)
      BY <2>1
    <3> QED
      BY <2>1, <3>2, <3>3, ThenText
  <2>3. CASE spare2_size = 0
    <3>1. tail = << >>
      BY <2>3
    <3>2. ~ Unguarded(p) /\ 68 + text_size = n
      BY <2>1, <2>3
    <3> HIDE DEF tail
    <3>3. Gives(p, calls, 56, "AIS_OK")
      BY <2>2, <3>1, <3>2, ThenNone, ThenEnd
    <3> QED
      BY <3>2, <3>3, Endings DEF Settles
  <2>4. CASE spare2_size # 0 /\ n < 74
    <3>1. tail = Reads(b)
      BY <2>4
    <3>2. ~ Unguarded(p) /\ text_size = 0 /\ 68 + text_size = 68
      BY <2>1, <2>4
    <3>3. 68 + spare2_size = n /\ spare2_size \in 0 .. 32
      BY <2>1, <2>4
    <3>4. Tiles(b, 68, n)
      BY <3>3 DEF Tiles, Within
    <3> HIDE DEF tail, b
    <3>5. Gives(p, calls, 56, "AIS_OK")
      BY <2>1, <2>2, <3>1, <3>2, <3>4, ThenReads, ThenEnd
    <3> QED
      BY <3>2, <3>5, Endings DEF Settles
  <2>5. CASE spare2_size # 0 /\ n >= 74
    <3>1. tail = Reads(b)
      BY <2>5
    <3>2. Unguarded(p) /\ 68 # 68 + text_size
      BY <2>1, <2>5
    <3>3. b \in Seq(Int \X Int) /\ Len(b) > 0 /\ b[1][1] = 68
      BY <2>1
    <3> HIDE DEF tail, b
    <3>4. Gives(p, SeekTo(56) \o Reads(a) \o Text(68, text_size) \o tail, 56, "aborted")
      BY <2>2, <3>1, <3>2, <3>3, ThenMisread
    <3>5. Gives(p, calls, 56, "aborted")
      BY <3>4, Shapes, Endings, GivesThen
    <3> QED
      BY <3>2, <3>5 DEF Settles
  <2> QED
    BY <2>1, <2>3, <2>4, <2>5
<1>4. ok \in BOOLEAN /\ 56 \in Int /\ (Unguarded(p) => ok)
  OBVIOUS
<1> HIDE DEF calls, ok
<1> QED
  BY <1>2, <1>3, <1>4, AppliedSettles

(* Its own member status hides that of AisMsg. *)
LEMMA Ais8_1_19Runs ==
  ASSUME NEW p, IsPayload(p), Application(p) = << 1, 19 >>
  PROVE  \E y \in Int : Runs(p, Ais8_1_19(p), 56, y)
<1> DEFINE a == << <<56, 10>> >>
           b == << <<235, 2>>, <<237, 5>>, <<242, 5>>, <<247, 6>>, <<253, 5>> >>
           c == << <<258, 32>>, <<290, 32>>, <<322, 32>>, <<354, 6>> >>
           n == NumBits(p)
           green == IF n = 360 THEN Reads(c) ELSE << >>
           body == IF n \notin {258, 360} THEN << >>
                   ELSE SeekTo(56) \o Reads(a) \o Text(66, 120) \o Point(186, 49)
                        \o Reads(b) \o green \o NoneRemaining
<1>1. Tiles(a, 56, 66) /\ Tiles(b, 235, 258) /\ Tiles(c, 258, 360)
  BY DEF Tiles, Within
<1>2. Ais8_1_19(p) = ApplicationIs(p, 1, 19) \o CheckStatus \o body
  BY DEF Ais8_1_19
<1> HIDE DEF a, b, c
<1>3. ASSUME n \in {258, 360}
      PROVE  Runs(p, SeekTo(56) \o Reads(a) \o Text(66, 120) \o Point(186, 49)
                     \o Reads(b) \o green \o NoneRemaining, 56, n)
  <2>1. n \in Int /\ n <= Limit(p) /\ Limit(p) \in Int /\ n > 56
    BY <1>3, PayloadBits
  <2>2. 66 <= Limit(p) /\ 66 + 120 <= Limit(p) /\ 186 + 49 <= Limit(p) /\ 258 <= Limit(p)
    BY <1>3, <2>1
  <2>3. Runs(p, SeekTo(56), 56, 56)
    BY <2>1, SeekFirst
  <2>4. Runs(p, SeekTo(56) \o Reads(a), 56, 66)
    BY <1>1, <2>2, <2>3, ThenReads
  <2>5. Runs(p, SeekTo(56) \o Reads(a) \o Text(66, 120), 56, 186)
    BY <2>2, <2>4, ThenText
  <2>6. Runs(p, SeekTo(56) \o Reads(a) \o Text(66, 120) \o Point(186, 49), 56, 235)
    BY <2>2, <2>5, ThenPoint
  <2> DEFINE s == SeekTo(56) \o Reads(a) \o Text(66, 120) \o Point(186, 49) \o Reads(b)
  <2>7. Runs(p, s, 56, 258)
    BY <1>1, <2>2, <2>6, ThenReads
  <2> HIDE DEF s
  <2>8. Runs(p, s \o green, 56, n)
    <3>1. CASE n = 360
      <4>1. 360 <= Limit(p) /\ green = Reads(c)
        BY <2>1, <3>1
      <4> QED
        BY <1>1, <2>7, <3>1, <4>1, ThenReads
    <3>2. CASE n = 258
      <4>1. green = << >>
        BY <3>2
      <4> QED
        BY <2>7, <3>2, <4>1, ThenNone
    <3> QED
      BY <1>3, <3>1, <3>2
  <2> HIDE DEF green
  <2>9. Runs(p, s \o green \o NoneRemaining, 56, n)
    <3> DEFINE e == Op("none_remaining", 0, 0)
    <3>1. e \in Shape /\ e.op = "none_remaining"
      BY OpShape DEF OpKinds
    <3>2. Goes(p, e, n, Undecided, n, Undecided)
      BY <3>1 DEF Goes
    <3>3. NoneRemaining = << e >>
      BY DEF NoneRemaining
    <3> HIDE DEF e
    <3> QED
      BY <2>1, <2>8, <3>1, <3>2, <3>3, ThenOne
  <2> QED
    BY <2>9 DEF s
<1>4. PICK y \in Int : Runs(p, body, 56, y)
  <2>1. CASE n \in {258, 360}
    <3>1. n \in Int
      BY PayloadBits
    <3>2. body = SeekTo(56) \o Reads(a) \o Text(66, 120) \o Point(186, 49)
                 \o Reads(b) \o green \o NoneRemaining
      BY <2>1
    <3> HIDE DEF body, green
    <3> QED
      BY <1>3, <2>1, <3>1, <3>2
  <2>2. CASE n \notin {258, 360}
    <3>1. body = << >> /\ 56 \in Int
      BY <2>2
    <3> HIDE DEF body
    <3>2. Runs(p, body, 56, 56)
      BY <3>1, NoneRuns
    <3> QED
      BY <3>1, <3>2
  <2> QED
    BY <2>1, <2>2
<1> HIDE DEF body
<1>5. Runs(p, CheckStatus, 56, 56)
  <2> DEFINE c0 == Op("check_status", 0, 0)
  <2>1. c0 \in Shape /\ c0.op = "check_status" /\ Undecided \in Statuses /\ ~ Bad(Undecided)
    BY OpShape DEF OpKinds, Statuses, Bad
  <2>2. CheckStatus = << c0 >>
    BY DEF CheckStatus
  <2> HIDE DEF c0
  <2>3. Goes(p, c0, 56, Undecided, 56, Undecided)
    BY <2>1 DEF Goes
  <2> QED
    BY <2>1, <2>2, <2>3, OneLeads DEF Runs
<1>6. Runs(p, CheckStatus \o body, 56, y)
  BY <1>4, <1>5, RunsThen
<1>7. ApplicationIs(p, 1, 19) = << >>
  BY DEF ApplicationIs, AssertThat
<1>8. << >> \in Seq(Shape) /\ CheckStatus \in Seq(Shape) /\ body \in Seq(Shape)
  BY <1>4, <1>5, RunsTyped, Shapes
<1>9. << >> \o CheckStatus \o body = CheckStatus \o body
  BY <1>8, NothingBefore
<1> QED
  BY <1>2, <1>4, <1>6, <1>7, <1>9

(* 8:1:21 aborts exactly on the report of the other type. *)
LEMMA Ais8_1_21Settles ==
  ASSUME NEW p, IsMessage(p), Application(p) = << 1, 21 >>,
         Unguarded(p) <=> NumBits(p) = 360 /\ p.type_wx_report
  PROVE  Settles(p, Ais8_1_21(p), 56)
<1> DEFINE a == << <<56, 1>> >>
           b == << <<57, 16>>, <<73, 15>>, <<88, 4>>, <<92, 6>>, <<98, 5>> >>
           w == << <<57, 16>>, <<73, 15>>, <<88, 4>>, <<92, 6>>, <<98, 5>>, <<102, 3>>,
                   <<106, 7>>, <<113, 5>>, <<118, 7>>, <<125, 11>>, <<136, 10>>, <<146, 4>>,
                   <<150, 7>>, <<157, 8>>, <<165, 7>>, <<172, 8>>, <<180, 8>>, <<188, 7>>,
                   <<195, 10>>, <<205, 7>>, <<212, 9>>, <<221, 6>>, <<227, 9>>, <<236, 5>>,
                   <<241, 5>>, <<246, 4>>, <<250, 4>>, <<254, 6>>, <<260, 6>>, <<266, 6>>,
                   <<272, 7>>, <<279, 5>>, <<284, 6>>, <<290, 6>>, <<296, 5>>, <<301, 6>>,
                   <<307, 6>>, <<313, 5>>, <<318, 6>>, <<324, 7>>, <<331, 3>>, <<334, 3>>,
                   <<337, 5>>, <<342, 4>>, <<346, 5>>, <<351, 5>>, <<356, 4>> >>
           c == << <<226, 5>>, <<231, 5>>, <<236, 6>>, <<242, 4>>, <<246, 8>>,
                   <<254, 7>>, <<261, 7>>, <<268, 9>>, <<277, 9>>, <<286, 4>>,
                   <<290, 11>>, <<301, 10>>, <<311, 6>>, <<317, 8>>, <<325, 9>>,
                   <<334, 8>>, <<342, 9>>, <<351, 6>>, <<357, 3>> >>
           report == IF p.type_wx_report THEN Reads(w)
                     ELSE Text(57, 120) \o Point(177, 49) \o Reads(c)
           calls == SeekTo(56) \o Reads(a) \o report \o NoneRemaining \o Ok
           ok == NumBits(p) = 360
<1>0. IsPayload(p) /\ p.type_wx_report \in BOOLEAN
  BY DEF IsMessage
<1>1. Tiles(a, 56, 57) /\ Tiles(b, 57, 103)
  BY DEF Tiles, Within
<1>2. Tiles(c, 226, 360)
  BY DEF Tiles, Within
<1>3. Ais8_1_21(p) = Applied(p, 1, 21, ok, calls)
  BY DEF Ais8_1_21, WmoReport, Bit
<1>4. w \in Seq(Int \X Int) /\ Len(w) = 47 /\ Len(b) = 5
  OBVIOUS
<1>5. w[1] = b[1] /\ w[2] = b[2] /\ w[3] = b[3] /\ w[4] = b[4] /\ w[5] = b[5]
  OBVIOUS
<1>6. w[Len(b) + 1][1] # 103
  OBVIOUS
<1> HIDE DEF a, b, c, w
<1>7. \A i \in 1 .. Len(b) : w[i] = b[i]
  <2>1. \A i \in 1 .. Len(b) : i = 1 \/ i = 2 \/ i = 3 \/ i = 4 \/ i = 5
    BY <1>4
  <2> QED
    BY <1>5, <2>1
<1>8. ASSUME ok PROVE Settles(p, calls, 56)
  <2>1. NumBits(p) = 360 /\ 360 <= Limit(p) /\ Limit(p) \in Int
    BY <1>0, <1>8, PayloadBits
  <2>2. 57 <= Limit(p) /\ 103 <= Limit(p) /\ 57 + 120 <= Limit(p) /\ 177 + 49 <= Limit(p)
    BY <2>1
  <2>3. Runs(p, SeekTo(56), 56, 56)
    BY <2>1, SeekFirst
  <2> DEFINE s == SeekTo(56) \o Reads(a)
  <2>4. Runs(p, s, 56, 57)
    BY <1>0, <1>1, <2>2, <2>3, ThenReads
  <2>5. CASE p.type_wx_report
    <3>1. report = Reads(w) /\ Unguarded(p)
      BY <2>1, <2>5
    <3> HIDE DEF report, s
    <3>2. Gives(p, s \o Reads(w), 56, "aborted")
      <4> DEFINE y == 57
                 z == 103
      <4>1. Len(w) > Len(b) /\ z \in Int
        BY <1>4
      <4>2. Runs(p, s, 56, y) /\ Tiles(b, y, z)
        BY <1>1, <2>4
      <4>3. z <= Limit(p)
        BY <2>2
      <4>4. w \in Seq(Int \X Int)
        BY <1>4
      <4>5. w[Len(b) + 1][1] # z
        BY <1>6
      <4> HIDE DEF y, z
      <4> QED
        BY <1>0, <1>7, <4>1, <4>2, <4>3, <4>4, <4>5, ReadsBroken, Zenon
    <3>3. Gives(p, s \o report \o NoneRemaining \o Ok, 56, "aborted")
      BY <3>1, <3>2, Shapes, Endings, GivesThen
    <3> QED
      BY <3>1, <3>3 DEF Settles, s
  <2>6. CASE ~ p.type_wx_report
    <3>1. report = Text(57, 120) \o Point(177, 49) \o Reads(c) /\ ~ Unguarded(p)
      BY <2>1, <2>6
    <3> HIDE DEF report, s
    <3>2. Runs(p, Text(57, 120), 57, 177)
      BY <1>0, <2>2, TextRuns
    <3>3. Runs(p, Text(57, 120) \o Point(177, 49), 57, 226)
      BY <1>0, <2>2, <3>2, ThenPoint
    <3>4. Runs(p, report, 57, 360)
      BY <1>0, <1>2, <2>1, <3>1, <3>3, ThenReads
    <3>5. Gives(p, s \o report \o NoneRemaining \o Ok, 56, "AIS_OK")
      BY <2>1, <2>4, <3>4, RunsThen, ThenEnd
    <3> QED
      BY <3>1, <3>5, Endings DEF Settles, s
  <2> QED
    BY <1>0, <2>5, <2>6
<1>9. ok \in BOOLEAN /\ 56 \in Int /\ (Unguarded(p) => ok)
  OBVIOUS
<1> HIDE DEF calls, ok
<1> QED
  BY <1>3, <1>8, <1>9, AppliedSettles

(* SeekTo ... the hour, in 21 and 22. *)
LEMMA LockTimesAbort ==
  ASSUME NEW p, IsPayload(p), 222 <= Limit(p), NumBits(p) > 88
  PROVE  Gives(p, LockTimes, 56, "aborted")
<1> DEFINE F == << <<208, 4>>, <<212, 5>>, <<217, 5>>, <<223, 6>> >>
           G == << <<208, 4>>, <<212, 5>>, <<217, 5>> >>
           y == 208
           z == 222
           s == SeekTo(88) \o Text(88, 12) \o Text(100, 18) \o Text(118, 30) \o Text(148, 30)
                \o Text(178, 30)
<1>1. F \in Seq(Int \X Int) /\ Len(F) > Len(G) /\ F[Len(G) + 1][1] # z /\ z \in Int
  OBVIOUS
<1>2. \A i \in 1 .. Len(G) : F[i] = G[i]
  <2>1. Len(G) = 3 /\ F[1] = G[1] /\ F[2] = G[2] /\ F[3] = G[3]
    OBVIOUS
  <2>2. \A i \in 1 .. 3 : i = 1 \/ i = 2 \/ i = 3
    OBVIOUS
  <2> HIDE DEF F, G
  <2> QED
    BY <2>1, <2>2
<1>3. Tiles(G, y, z)
  BY DEF Tiles, Within
<1>4. LockTimes = s \o Reads(F)
  BY DEF LockTimes
<1>5. Runs(p, s, 56, y)
  <2>1. Runs(p, SeekTo(88), 56, 88)
    BY SeekFirst
  <2>2. 88 + 12 <= Limit(p) /\ 100 + 18 <= Limit(p) /\ 118 + 30 <= Limit(p)
        /\ 148 + 30 <= Limit(p) /\ 178 + 30 <= Limit(p)
    BY PayloadBits
  <2>3. Runs(p, SeekTo(88) \o Text(88, 12), 56, 100)
    BY <2>1, <2>2, ThenText
  <2>4. Runs(p, SeekTo(88) \o Text(88, 12) \o Text(100, 18), 56, 118)
    BY <2>2, <2>3, ThenText
  <2>5. Runs(p, SeekTo(88) \o Text(88, 12) \o Text(100, 18) \o Text(118, 30), 56, 148)
    BY <2>2, <2>4, ThenText
  <2>6. Runs(p, SeekTo(88) \o Text(88, 12) \o Text(100, 18) \o Text(118, 30) \o Text(148, 30),
             56, 178)
    BY <2>2, <2>5, ThenText
  <2> QED
    BY <2>2, <2>6, ThenText
<1>6. z <= Limit(p)
  OBVIOUS
<1> HIDE DEF F, G, y, z, s
<1>7. Gives(p, s \o Reads(F), 56, "aborted")
  BY <1>1, <1>2, <1>3, <1>5, <1>6, ReadsBroken, Zenon
<1> QED
  BY <1>4, <1>7

(* 8:200:21 aborts on the one length it accepts. *)
LEMMA Ais8_200_21Settles ==
  ASSUME NEW p, IsPayload(p), Application(p) = << 200, 21 >>,
         Unguarded(p) <=> NumBits(p) = 248
  PROVE  Settles(p, Ais8_200_21(p), 56)
<1> DEFINE a == << <<229, 3>>, <<231, 12>>, <<243, 5>> >>
           calls == LockTimes \o Reads(a) \o NoneRemaining \o Ok
           ok == NumBits(p) = 248
<1>1. Ais8_200_21(p) = Applied(p, 200, 21, ok, calls)
  BY DEF Ais8_200_21
<1>2. a \in Seq(Int \X Int)
  OBVIOUS
<1> HIDE DEF a
<1>3. ASSUME ok PROVE Gives(p, calls, 56, "aborted")
  <2>1. 222 <= Limit(p) /\ NumBits(p) > 88
    BY <1>3, PayloadBits
  <2>2. Gives(p, LockTimes, 56, "aborted")
    BY <2>1, LockTimesAbort
  <2>3. Reads(a) \in Seq(Shape) /\ NoneRemaining \in Seq(Shape) /\ Ok \in Seq(Shape)
    BY <1>2, Shapes, Endings
  <2> QED
    BY <2>2, <2>3, GivesThen
<1>4. ok \in BOOLEAN /\ 56 \in Int /\ (Unguarded(p) <=> ok)
  OBVIOUS
<1> HIDE DEF calls, ok
<1> QED
  BY <1>1, <1>3, <1>4, AlwaysAborts

(* 8:200:22 aborts on the one length it accepts. *)
LEMMA Ais8_200_22Settles ==
  ASSUME NEW p, IsPayload(p), Application(p) = << 200, 22 >>,
         Unguarded(p) <=> NumBits(p) = 232
  PROVE  Settles(p, Ais8_200_22(p), 56)
<1> DEFINE a == << <<229, 2>>, <<231, 2>> >>
           calls == LockTimes \o Reads(a) \o NoneRemaining \o Ok
           ok == NumBits(p) = 232
<1>1. Ais8_200_22(p) = Applied(p, 200, 22, ok, calls)
  BY DEF Ais8_200_22
<1>2. a \in Seq(Int \X Int)
  OBVIOUS
<1> HIDE DEF a
<1>3. ASSUME ok PROVE Gives(p, calls, 56, "aborted")
  <2>1. 222 <= Limit(p) /\ NumBits(p) > 88
    BY <1>3, PayloadBits
  <2>2. Gives(p, LockTimes, 56, "aborted")
    BY <2>1, LockTimesAbort
  <2>3. Reads(a) \in Seq(Shape) /\ NoneRemaining \in Seq(Shape) /\ Ok \in Seq(Shape)
    BY <1>2, Shapes, Endings
  <2> QED
    BY <2>2, <2>3, GivesThen
<1>4. ok \in BOOLEAN /\ 56 \in Int /\ (Unguarded(p) <=> ok)
  OBVIOUS
<1> HIDE DEF calls, ok
<1> QED
  BY <1>1, <1>3, <1>4, AlwaysAborts

(* A position is calls. *)
LEMMA PointShape ==
  ASSUME NEW at \in Int, NEW size \in {35, 49, 55}
  PROVE  Point(at, size) \in Seq(Shape)
<1> DEFINE n == LongitudeBits(size)
           F == << <<at, n>>, <<at + n, size - n>> >>
<1>1. CASE size \in {35, 49, 55}
  <2>1. n \in Int
    BY <1>1 DEF LongitudeBits
  <2> HIDE DEF n
  <2>2. F \in Seq(Int \X Int)
    BY <2>1
  <2> HIDE DEF F
  <2>3. Reads(F) \in Seq(Shape)
    BY <2>2, Shapes
  <2> QED
    BY <2>3 DEF Point, F, n
<1> QED
  BY <1>1

(* A position of 55 bits is calls, wherever it is. *)
LEMMA PointsOf55 == \A at \in Int : Point(at, 55) \in Seq(Shape)
<1>1. 55 \in {35, 49, 55}
  OBVIOUS
<1> QED
  BY <1>1, PointShape

(* 8:200:23 aborts on the one length it accepts. *)
LEMMA Ais8_200_23Settles ==
  ASSUME NEW p, IsPayload(p), Application(p) = << 200, 23 >>,
         Unguarded(p) <=> NumBits(p) = 256
  PROVE  Settles(p, Ais8_200_23(p), 56)
<1> DEFINE F == << <<56, 8>>, <<65, 4>>, <<69, 5>>, <<73, 8>>, <<82, 4>>, <<86, 5>>,
                   <<90, 5>>, <<95, 6>>, <<101, 5>>, <<106, 6>> >>
           G == << <<56, 8>> >>
           b == << <<222, 4>>, <<226, 9>>, <<235, 9>>, <<244, 2>>, <<246, 4>>, <<250, 6>> >>
           calls == SeekTo(56) \o Reads(F) \o Point(112, 55) \o Point(167, 55) \o Reads(b)
                    \o NoneRemaining \o Ok
           ok == NumBits(p) = 256
<1>1. Ais8_200_23(p) = Applied(p, 200, 23, ok, calls)
  BY DEF Ais8_200_23
<1>2. F \in Seq(Int \X Int) /\ b \in Seq(Int \X Int)
  OBVIOUS
<1>3. Len(F) > Len(G) /\ F[Len(G) + 1][1] # 64
  OBVIOUS
<1>4. \A i \in 1 .. Len(G) : F[i] = G[i]
  OBVIOUS
<1>5. Tiles(G, 56, 64)
  BY DEF Tiles, Within
<1>6. Point(112, 55) \in Seq(Shape) /\ Point(167, 55) \in Seq(Shape)
  <2> DEFINE S == Seq(Shape)
  <2>1. \A at \in Int : Point(at, 55) \in S
    BY PointsOf55
  <2> HIDE DEF S
  <2>2. Point(112, 55) \in S /\ Point(167, 55) \in S
    BY <2>1
  <2> QED
    BY <2>2 DEF S
<1> HIDE DEF F, G, b
<1>7. ASSUME ok PROVE Gives(p, calls, 56, "aborted")
  <2>1. 64 <= Limit(p) /\ NumBits(p) > 56 /\ 64 \in Int
    BY <1>7, PayloadBits
  <2>2. Runs(p, SeekTo(56), 56, 56)
    BY <2>1, SeekFirst
  <2>3. Gives(p, SeekTo(56) \o Reads(F), 56, "aborted")
    BY <1>2, <1>3, <1>4, <1>5, <2>1, <2>2, ReadsBroken
  <2>4. Reads(b) \in Seq(Shape) /\ NoneRemaining \in Seq(Shape) /\ Ok \in Seq(Shape)
    BY <1>2, Shapes, Endings
  <2> QED
    BY <1>6, <2>3, <2>4, GivesThen
<1>8. ok \in BOOLEAN /\ 56 \in Int /\ (Unguarded(p) <=> ok)
  OBVIOUS
<1> HIDE DEF calls, ok
<1> QED
  BY <1>1, <1>7, <1>8, AlwaysAborts

(* The calls of 200:55, on any message. *)
LEMMA Ais8_200_55Calls ==
  ASSUME NEW p, IsPayload(p)
  PROVE  \E ok \in BOOLEAN : \E calls :
           Ais8_200_55(p) = Applied(p, 200, 55, ok, calls)
           /\ (ok => Gives(p, calls, 56, "AIS_OK"))
<1> DEFINE a == << <<56, 8>>, <<64, 13>>, <<77, 8>> >>
           b == << <<85, 3>> >>
           c == << <<85, 32>>, <<117, 19>> >>
           d == << <<85, 32>>, <<117, 32>>, <<149, 19>> >>
           n == NumBits(p)
           tail == CASE n = 88 -> Reads(b)
                     [] n = 136 -> Reads(c)
                     [] n = 168 -> Reads(d)
           calls == SeekTo(56) \o Reads(a) \o tail \o NoneRemaining \o Ok
           ok == n \in {88, 136, 168}
<1>1. Tiles(a, 56, 85) /\ Tiles(b, 85, 88) /\ Tiles(c, 85, 136) /\ Tiles(d, 85, 168)
  BY DEF Tiles, Within
<1>2. Ais8_200_55(p) = Applied(p, 200, 55, ok, calls)
  BY DEF Ais8_200_55
<1> HIDE DEF a, b, c, d
<1>3. ASSUME ok PROVE Gives(p, calls, 56, "AIS_OK")
  <2>1. n \in Int /\ n <= Limit(p) /\ Limit(p) \in Int /\ n > 56 /\ 85 <= Limit(p)
    BY <1>3, PayloadBits
  <2>2. Runs(p, SeekTo(56), 56, 56)
    BY <2>1, SeekFirst
  <2>3. Runs(p, SeekTo(56) \o Reads(a), 56, 85)
    BY <1>1, <2>1, <2>2, ThenReads
  <2>4. \E F : tail = Reads(F) /\ Tiles(F, 85, n)
    <3>1. CASE n = 88
      BY <1>1, <3>1
    <3>2. CASE n = 136
      BY <1>1, <3>2
    <3>3. CASE n = 168
      BY <1>1, <3>3
    <3> QED
      BY <1>3, <3>1, <3>2, <3>3
  <2> HIDE DEF tail
  <2> QED
    BY <2>1, <2>3, <2>4, ThenReads, ThenEnd
<1>4. ok \in BOOLEAN
  OBVIOUS
<1> HIDE DEF calls, ok
<1> QED
  BY <1>2, <1>3, <1>4

(* 8:200:55 settles the status behind its length test. *)
LEMMA Ais8_200_55Gives ==
  ASSUME NEW p, IsPayload(p), Application(p) = << 200, 55 >>
  PROVE  \E v \in Given : Gives(p, Ais8_200_55(p), 56, v)
<1>1. PICK ok \in BOOLEAN : \E c :
        Ais8_200_55(p) = Applied(p, 200, 55, ok, c)
        /\ (ok => Gives(p, c, 56, "AIS_OK"))
  BY Ais8_200_55Calls
<1>4. PICK calls :
        Ais8_200_55(p) = Applied(p, 200, 55, ok, calls)
        /\ (ok => Gives(p, calls, 56, "AIS_OK"))
  BY <1>1
<1>2. 56 \in Int /\ "AIS_OK" \in Given
  BY Endings
<1> DEFINE dac == 200
           fi == 55
<1>5. Application(p) = << dac, fi >> /\ Ais8_200_55(p) = Applied(p, dac, fi, ok, calls)
  BY <1>4
<1> HIDE DEF dac, fi
<1>6. ok => Gives(p, calls, 56, "AIS_OK")
  BY <1>4
<1>3. \E v \in Given : Gives(p, Applied(p, dac, fi, ok, calls), 56, v)
  BY <1>2, <1>5, <1>6, AppliedGives
<1> QED
  BY <1>3, <1>5

(* A message constructed as one of another application. *)
LEMMA NotApplied ==
  ASSUME NEW p, NEW x \in Int, NEW u \in Statuses, NEW dac, NEW fi,
         Application(p) # << dac, fi >>,
         NEW length_ok \in BOOLEAN, NEW calls, length_ok => calls \in Seq(Shape)
  PROVE  Halts(p, Applied(p, dac, fi, length_ok, calls), x, u, "aborted")
<1> DEFINE c == Op("assert_false", 0, 0)
           body == IF length_ok THEN calls ELSE BadBitCount
           t == CheckStatus \o body
<1>1. c \in Shape /\ c.op = "assert_false"
  BY OpShape DEF OpKinds
<1>2. ApplicationIs(p, dac, fi) = << c >>
  BY DEF ApplicationIs, AssertThat
<1>3. Applied(p, dac, fi, length_ok, calls) = << c >> \o t
  BY <1>2 DEF Applied, Guarded
<1>4. t \in Seq(Shape)
  <2>1. body \in Seq(Shape)
    BY Endings
  <2>2. CheckStatus \in Seq(Shape)
    <3> DEFINE c0 == Op("check_status", 0, 0)
    <3>1. c0 \in Shape
      BY OpShape DEF OpKinds
    <3>2. CheckStatus = << c0 >>
      BY DEF CheckStatus
    <3> HIDE DEF c0
    <3> QED
      BY <3>1, <3>2
  <2> HIDE DEF body
  <2> QED
    BY <2>1, <2>2, Shapes
<1> HIDE DEF c, t
<1>5. Stops(p, c, x, u, "aborted")
  BY <1>1 DEF Stops
<1>6. Halts(p, << c >>, x, u, "aborted")
  BY <1>1, <1>5, OneHalts
<1> QED
  BY <1>3, <1>4, <1>6, HaltsThen

(* 8:1:24 settles the status behind its length test. *)
LEMMA Ais8_1_24Gives ==
  ASSUME NEW p, IsPayload(p), Application(p) = << 1, 24 >>
  PROVE  \E v \in Given : Gives(p, Ais8_1_24(p), 56, v)
<1> DEFINE a == << <<56, 10>>, <<66, 13>> >>
           b == << <<221, 4>>, <<225, 18>>, <<243, 12>> >>
           d == << <<297, 18>>, <<315, 2>>, <<317, 2>>, <<319, 2>>, <<321, 2>>, <<323, 14>>,
                   <<337, 13>>, <<350, 10>> >>
           F(i) == << <<169 + 2 * i, 2>> >>
           pieces == [i \in 1 .. 26 |-> Reads(F(i - 1))]
           calls == SeekTo(56) \o Reads(a) \o Text(79, 30) \o Text(109, 30) \o Text(139, 30)
                    \o FlattenSeq(pieces) \o Reads(b) \o Text(255, 42) \o Reads(d)
                    \o NoneRemaining \o Ok
           ok == NumBits(p) = 360
<1>1. Tiles(a, 56, 79) /\ Tiles(b, 221, 255) /\ Tiles(d, 297, 360)
  BY DEF Tiles, Within
<1>2. Ais8_1_24(p) = Applied(p, 1, 24, ok, calls)
  BY DEF Ais8_1_24, Each
<1> HIDE DEF a, b, d
<1>3. ASSUME ok PROVE Gives(p, calls, 56, "AIS_OK")
  <2>1. NumBits(p) = 360 /\ 360 <= Limit(p) /\ Limit(p) \in Int
    BY <1>3, PayloadBits
  <2>2. ASSUME NEW i \in 0 .. 26 - 1
        PROVE  Runs(p, pieces[i + 1], 169 + i * 2, 169 + i * 2 + 2)
    <3>1. i + 1 \in 1 .. 26 /\ (i + 1) - 1 = i /\ 169 + i * 2 + 2 <= Limit(p)
          /\ 169 + i * 2 \in Int /\ 169 + i * 2 + 2 \in Int
      BY <2>1
    <3>2. Tiles(F(i), 169 + i * 2, 169 + i * 2 + 2)
      BY <3>1 DEF Tiles, Within
    <3>3. pieces[i + 1] = Reads(F(i))
      BY <3>1
    <3> HIDE DEF F
    <3> QED
      BY <3>1, <3>2, <3>3, ReadsRun
  <2>3. pieces = [i \in 1 .. 26 |-> pieces[i]]
    OBVIOUS
  <2> HIDE DEF pieces
  <2>4. Runs(p, FlattenSeq(pieces), 169, 221)
    <3> DEFINE count == 26
               from == 169
               size == 2
    <3>1. /\ count \in Nat /\ from \in Int /\ size \in Int
          /\ pieces = [i \in 1 .. count |-> pieces[i]]
          /\ \A i \in 0 .. count - 1 :
               Runs(p, pieces[i + 1], from + i * size, from + i * size + size)
      BY <2>2, <2>3
    <3>2. from + count * size = 221
      OBVIOUS
    <3> HIDE DEF count, from, size
    <3>3. Runs(p, FlattenSeq(pieces), from, from + count * size)
      BY <3>1, EvenLoop, Zenon
    <3>4. Runs(p, FlattenSeq(pieces), from, 221)
      BY <3>2, <3>3
    <3> QED
      BY <3>4 DEF from
  <2>5. 56 <= Limit(p) /\ 79 <= Limit(p) /\ 79 + 30 <= Limit(p) /\ 109 + 30 <= Limit(p)
        /\ 139 + 30 <= Limit(p) /\ 255 <= Limit(p) /\ 255 + 42 <= Limit(p)
    BY <2>1
  <2>6. Runs(p, SeekTo(56), 56, 56)
    BY <2>1, SeekFirst
  <2>7. Runs(p, SeekTo(56) \o Reads(a), 56, 79)
    BY <1>1, <2>5, <2>6, ThenReads
  <2>8. Runs(p, SeekTo(56) \o Reads(a) \o Text(79, 30) \o Text(109, 30) \o Text(139, 30),
             56, 169)
    BY <2>5, <2>7, ThenText
  <2> DEFINE s == SeekTo(56) \o Reads(a) \o Text(79, 30) \o Text(109, 30) \o Text(139, 30)
                  \o FlattenSeq(pieces)
  <2>9. Runs(p, s, 56, 221)
    BY <2>4, <2>8, RunsThen
  <2> HIDE DEF s
  <2>10. Runs(p, s \o Reads(b), 56, 255)
    BY <1>1, <2>5, <2>9, ThenReads
  <2>11. Runs(p, s \o Reads(b) \o Text(255, 42), 56, 297)
    BY <2>5, <2>10, ThenText
  <2>12. Gives(p, s \o Reads(b) \o Text(255, 42) \o Reads(d) \o NoneRemaining \o Ok, 56, "AIS_OK")
    BY <1>1, <2>1, <2>11, ThenReads, ThenEnd
  <2> QED
    BY <2>12 DEF s
<1>4. ok \in BOOLEAN /\ 56 \in Int /\ "AIS_OK" \in Given
  BY DEF Given
<1> HIDE DEF calls, ok
<1>5. \E v \in Given : Gives(p, Applied(p, 1, 24, ok, calls), 56, v)
  BY <1>3, <1>4, AppliedGives, Zenon
<1> QED
  BY <1>2, <1>5

(* 8:200:24 (ais8_200.cpp): its four gauges. *)
LEMMA Ais8_200_24Gives ==
  ASSUME NEW p, IsPayload(p), Application(p) = << 200, 24 >>
  PROVE  \E v \in Given : Gives(p, Ais8_200_24(p), 56, v)
<1> DEFINE F(i) == LET start == 68 + 25 * i IN
                   << <<start, 11>>, <<start + 11, 1>>, <<start + 12, 13>> >>
           pieces == [i \in 1 .. 4 |-> Reads(F(i - 1))]
           calls == SeekTo(56) \o Text(56, 12) \o FlattenSeq(pieces) \o NoneRemaining \o Ok
           ok == NumBits(p) = 168
<1>2. Ais8_200_24(p) = Applied(p, 200, 24, ok, calls)
  BY DEF Ais8_200_24, Each
<1>3. ASSUME ok PROVE Gives(p, calls, 56, "AIS_OK")
  <2>1. NumBits(p) = 168 /\ 168 <= Limit(p) /\ Limit(p) \in Int
    BY <1>3, PayloadBits
  <2>2. ASSUME NEW i \in 0 .. 4 - 1
        PROVE  Runs(p, pieces[i + 1], 68 + i * 25, 68 + i * 25 + 25)
    <3>1. i + 1 \in 1 .. 4 /\ (i + 1) - 1 = i /\ 68 + i * 25 + 25 <= Limit(p)
          /\ 68 + i * 25 \in Int /\ 68 + i * 25 + 25 \in Int
      BY <2>1
    <3>2. Tiles(F(i), 68 + i * 25, 68 + i * 25 + 25)
      BY <3>1 DEF Tiles, Within
    <3>3. pieces[i + 1] = Reads(F(i))
      BY <3>1
    <3> HIDE DEF F
    <3> QED
      BY <3>1, <3>2, <3>3, ReadsRun
  <2>3. pieces = [i \in 1 .. 4 |-> pieces[i]]
    OBVIOUS
  <2> HIDE DEF pieces
  <2>4. Runs(p, FlattenSeq(pieces), 68, 168)
    <3> DEFINE count == 4
               from == 68
               size == 25
    <3>1. /\ count \in Nat /\ from \in Int /\ size \in Int
          /\ pieces = [i \in 1 .. count |-> pieces[i]]
          /\ \A i \in 0 .. count - 1 :
               Runs(p, pieces[i + 1], from + i * size, from + i * size + size)
      BY <2>2, <2>3
    <3>2. from + count * size = 168
      OBVIOUS
    <3> HIDE DEF count, from, size
    <3>3. Runs(p, FlattenSeq(pieces), from, from + count * size)
      BY <3>1, EvenLoop, Zenon
    <3>4. Runs(p, FlattenSeq(pieces), from, 168)
      BY <3>2, <3>3
    <3> QED
      BY <3>4 DEF from
  <2>5. Runs(p, SeekTo(56), 56, 56)
    BY <2>1, SeekFirst
  <2>6. Runs(p, SeekTo(56) \o Text(56, 12), 56, 68)
    <3>1. 56 + 12 <= Limit(p)
      BY <2>1
    <3> QED
      BY <2>5, <3>1, ThenText
  <2> QED
    BY <2>1, <2>4, <2>6, RunsThen, ThenEnd
<1>4. ok \in BOOLEAN /\ 56 \in Int /\ "AIS_OK" \in Given
  BY DEF Given
<1> HIDE DEF calls, ok
<1> DEFINE dac == 200
           fi == 24
<1>6. Application(p) = << dac, fi >> /\ Ais8_200_24(p) = Applied(p, dac, fi, ok, calls)
  BY <1>2
<1> HIDE DEF dac, fi
<1>5. \E v \in Given : Gives(p, Applied(p, dac, fi, ok, calls), 56, v)
  BY <1>3, <1>4, <1>6, AppliedGives
<1> QED
  BY <1>5, <1>6

(* One target of a VTS report 1:17. *)
LEMMA TargetRuns ==
  ASSUME NEW p, IsPayload(p), NEW start \in Int, start + 120 <= Limit(p)
  PROVE  Runs(p, Reads(<< <<start, 2>> >>) \o Text(start + 2, 42)
                 \o Reads(<< <<start + 44, 4>>, <<start + 48, 24>>, <<start + 72, 25>>,
                             <<start + 97, 9>>, <<start + 106, 6>>, <<start + 112, 8>> >>),
                 start, start + 120)
<1> DEFINE F == << <<start, 2>> >>
           G == << <<start + 44, 4>>, <<start + 48, 24>>, <<start + 72, 25>>,
                   <<start + 97, 9>>, <<start + 106, 6>>, <<start + 112, 8>> >>
           end == start + 120
<1>1. Tiles(F, start, start + 2)
  BY DEF Tiles, Within
<1>2. Tiles(G, start + 44, end)
  BY DEF Tiles, Within
<1>3. end <= Limit(p) /\ end \in Int /\ start + 2 <= Limit(p) /\ start + 2 + 42 = start + 44
      /\ start + 2 + 42 <= Limit(p) /\ 42 \in Nat /\ 42 % 6 = 0 /\ start + 2 \in Int
      /\ start + 44 \in Int
  BY PayloadBits
<1> HIDE DEF F, G, end
<1>4. Runs(p, Reads(F), start, start + 2)
  BY <1>1, <1>3, ReadsRun
<1>5. Runs(p, Reads(F) \o Text(start + 2, 42), start, start + 2 + 42)
  BY <1>3, <1>4, ThenText
<1>6. Runs(p, Reads(F) \o Text(start + 2, 42), start, start + 44)
  BY <1>3, <1>5
<1>7. Runs(p, Reads(F) \o Text(start + 2, 42) \o Reads(G), start, end)
  BY <1>2, <1>3, <1>6, ThenReads
<1> QED
  BY <1>7 DEF F, G, end

(* 8:1:17 aborts when it has no target. *)
LEMMA Ais8_1_17Settles ==
  ASSUME NEW p, IsPayload(p), Application(p) = << 1, 17 >>, NumBits(p) \in 56 .. 1008,
         Unguarded(p) <=> NumBits(p) = 56
  PROVE  Settles(p, Ais8_1_17(p), 56)
<1> DEFINE n == NumBits(p)
           count == (n - 56) \div 120
           target(i) ==
             LET start == 56 + 120 * i IN
             Reads(<< <<start, 2>> >>) \o Text(start + 2, 42)
             \o Reads(<< <<start + 44, 4>>, <<start + 48, 24>>, <<start + 72, 25>>,
                         <<start + 97, 9>>, <<start + 106, 6>>, <<start + 112, 8>> >>)
           pieces == [i \in 1 .. count |-> target(i - 1)]
           calls == SeekTo(56) \o FlattenSeq(pieces) \o NoneRemaining \o Ok
           ok == (n - 56) % 120 = 0 /\ (n - 56) \div 120 <= 4
<1>1. Ais8_1_17(p) = Applied(p, 1, 17, ok, calls)
  BY DEF Ais8_1_17, Each
<1>2. ASSUME ok PROVE Settles(p, calls, 56)
  <2>1. /\ n \in Int /\ n <= Limit(p) /\ Limit(p) \in Int /\ n >= 56
        /\ count \in Nat /\ n = 56 + count * 120
    BY SMTT(60), <1>2, PayloadBits
  <2>2. ASSUME NEW i \in 0 .. count - 1
        PROVE  Runs(p, pieces[i + 1], 56 + i * 120, 56 + i * 120 + 120)
    <3> DEFINE start == 56 + 120 * i
    <3>1. i + 1 \in 1 .. count /\ (i + 1) - 1 = i
      BY <2>1
    <3>2. i + 1 <= count
      BY <2>1
    <3>3. i * 120 + 120 <= count * 120
      BY <2>1, <3>2
    <3>4. start + 120 <= Limit(p) /\ start \in Int /\ start = 56 + i * 120
      BY <2>1, <3>3
    <3>5. pieces[i + 1] = target(i)
      BY ZenonT(60), <3>1
    <3>6. Runs(p, target(i), start, start + 120)
      BY <3>4, TargetRuns
    <3> HIDE DEF pieces, target, start
    <3> QED
      BY <3>4, <3>5, <3>6
  <2>3. pieces = [i \in 1 .. count |-> pieces[i]]
    BY ZenonT(40)
  <2> HIDE DEF pieces, count
  <2>4. Runs(p, FlattenSeq(pieces), 56, n)
    <3> DEFINE from == 56
               size == 120
    <3>1. count \in Nat /\ from \in Int /\ size \in Int
      BY <2>1
    <3>4. \A i \in 0 .. count - 1 :
            Runs(p, pieces[i + 1], from + i * size, from + i * size + size)
      BY <2>2
    <3>2. from + count * size = n
      BY <2>1
    <3> HIDE DEF from, size
    <3>3. Runs(p, FlattenSeq(pieces), from, from + count * size)
      BY ZenonT(40), <2>3, <3>1, <3>4, EvenLoop
    <3>5. Runs(p, FlattenSeq(pieces), from, n)
      BY <3>2, <3>3
    <3> QED
      BY <3>5 DEF from
  <2>5. CASE n = 56
    <3>1. Gives(p, SeekTo(56), 56, "aborted")
      BY <2>5, SeekFirst
    <3>2. FlattenSeq(pieces) \in Seq(Shape)
      BY <2>4, RunsTyped
    <3>3. Gives(p, SeekTo(56) \o FlattenSeq(pieces) \o NoneRemaining \o Ok, 56, "aborted")
      BY <3>1, <3>2, Endings, Shapes, GivesThen
    <3> QED
      BY <3>3, <2>5 DEF Settles
  <2>6. CASE n # 56
    <3>1. Runs(p, SeekTo(56), 56, 56)
      BY <2>1, <2>6, SeekFirst
    <3>2. Runs(p, SeekTo(56) \o FlattenSeq(pieces), 56, n)
      BY <2>4, <3>1, RunsThen
    <3>3. Gives(p, SeekTo(56) \o FlattenSeq(pieces) \o NoneRemaining \o Ok, 56, "AIS_OK")
      BY <3>2, ThenEnd
    <3> QED
      BY <3>3, <2>6, Endings DEF Settles
  <2> QED
    BY <2>5, <2>6
<1>3. ok \in BOOLEAN /\ 56 \in Int /\ (Unguarded(p) => ok)
  OBVIOUS
<1> HIDE DEF calls, ok
<1>4. Settles(p, Applied(p, 1, 17, ok, calls), 56)
  <2> DEFINE dac == 1
             fi == 17
  <2>1. Application(p) = << dac, fi >>
    OBVIOUS
  <2> HIDE DEF dac, fi
  <2>2. Settles(p, Applied(p, dac, fi, ok, calls), 56)
    BY <1>2, <1>3, <2>1, AppliedSettles
  <2> QED
    BY <2>2 DEF dac, fi
<1> QED
  BY <1>1, <1>4

(* 8:366:56 is a constructor of an application. *)
LEMMA Ais8_366_56Calls ==
  ASSUME NEW p, IsPayload(p)
  PROVE  \E ok \in BOOLEAN : \E calls :
           /\ Ais8_366_56(p) = Applied(p, 366, 56, ok, calls)
           /\ ok <=> NumBits(p) \in 56 .. 1192
           /\ ok => Gives(p, calls, 56, IF NumBits(p) = 56 THEN "aborted" ELSE "AIS_OK")
<1> DEFINE n == NumBits(p)
           count == (n - 56) \div 8
           F(i) == << <<56 + 8 * i, 8>> >>
           pieces == [i \in 1 .. count |-> Reads(F(i - 1))]
           left == n - 56 - 8 * count
           G == << <<n - left, left>> >>
           tail == IF left > 0 THEN RemainingBelow(8) \o Reads(G) ELSE << >>
           calls == SeekTo(56) \o FlattenSeq(pieces) \o tail \o Ok
           ok == n \in 56 .. 1192
<1>1. Ais8_366_56(p) = Applied(p, 366, 56, ok, calls)
  BY DEF Ais8_366_56, Each
<1>2. ASSUME ok PROVE Gives(p, calls, 56, IF n = 56 THEN "aborted" ELSE "AIS_OK")
  <2>1. /\ n \in Int /\ n <= Limit(p) /\ Limit(p) \in Int /\ n >= 56
        /\ count \in Nat /\ left \in 0 .. 7 /\ n = 56 + count * 8 + left
    <3>1. n \in Int /\ n <= Limit(p) /\ Limit(p) \in Int /\ n >= 56
      BY <1>2, PayloadBits
    <3> HIDE DEF n
    <3>2. count \in Nat /\ 8 * count <= n - 56 /\ n - 56 < 8 * count + 8
      BY <3>1
    <3> HIDE DEF count
    <3> QED
      BY <3>1, <3>2
  <2>2. ASSUME NEW i \in 0 .. count - 1
        PROVE  Runs(p, pieces[i + 1], 56 + i * 8, 56 + i * 8 + 8)
    <3>1. i + 1 \in 1 .. count /\ (i + 1) - 1 = i
      BY <2>1
    <3>2. 56 + i * 8 + 8 <= Limit(p) /\ 56 + i * 8 \in Int /\ 56 + i * 8 + 8 \in Int
          /\ 56 + 8 * i = 56 + i * 8
      BY <2>1
    <3>3. Tiles(F(i), 56 + i * 8, 56 + i * 8 + 8)
      BY <3>2 DEF Tiles, Within
    <3>4. pieces[i + 1] = Reads(F(i))
      BY <3>1
    <3> HIDE DEF F, pieces, count
    <3> QED
      BY <3>2, <3>3, <3>4, ReadsRun
  <2>3. pieces = [i \in 1 .. count |-> pieces[i]]
    OBVIOUS
  <2> HIDE DEF pieces, left, count
  <2>4. Runs(p, FlattenSeq(pieces), 56, n - left)
    <3> DEFINE from == 56
               size == 8
    <3>1. count \in Nat /\ from \in Int /\ size \in Int
      BY <2>1
    <3>4. \A i \in 0 .. count - 1 :
            Runs(p, pieces[i + 1], from + i * size, from + i * size + size)
      BY <2>2
    <3>2. from + count * size = n - left
      BY <2>1
    <3> HIDE DEF from, size
    <3>3. Runs(p, FlattenSeq(pieces), from, from + count * size)
      BY <2>3, <3>1, <3>4, EvenLoop
    <3>5. Runs(p, FlattenSeq(pieces), from, n - left)
      BY <3>2, <3>3
    <3> QED
      BY <3>5 DEF from
  <2>5. Runs(p, tail, n - left, n)
    <3>1. CASE left = 0
      <4>1. tail = << >> /\ n - left = n
        BY <2>1, <3>1
      <4> HIDE DEF tail
      <4> QED
        BY <2>1, <4>1, NoneRuns
    <3>2. CASE left > 0
      <4> DEFINE c == Op("remaining_below", 0, 8)
                 x == n - left
      <4>1. tail = << c >> \o Reads(G)
        BY <3>2 DEF RemainingBelow
      <4>2. Tiles(G, x, n)
        BY <2>1, <3>2 DEF Tiles, Within
      <4>3. c \in Shape /\ c.op = "remaining_below" /\ c.len = 8
        BY OpShape DEF OpKinds
      <4>4. x \in Int /\ n - x < 8
        BY <2>1
      <4> HIDE DEF tail, G, c, x
      <4>5. Goes(p, c, x, Undecided, x, Undecided)
        BY <4>3, <4>4 DEF Goes
      <4>6. Undecided \in Statuses
        BY DEF Statuses
      <4>7. Runs(p, << c >>, x, x)
        BY <4>3, <4>4, <4>5, <4>6, OneLeads DEF Runs
      <4>8. Runs(p, << c >> \o Reads(G), x, n)
        BY <2>1, <4>2, <4>7, ThenReads
      <4>9. Runs(p, tail, x, n)
        BY <4>1, <4>8
      <4> QED
        BY <4>9 DEF x
    <3> QED
      BY <2>1, <3>1, <3>2
  <2> HIDE DEF tail
  <2>6. CASE n = 56
    <3>1. Gives(p, SeekTo(56), 56, "aborted")
      BY <2>6, SeekFirst
    <3>2. FlattenSeq(pieces) \in Seq(Shape) /\ tail \in Seq(Shape)
      BY <2>4, <2>5, RunsTyped
    <3>3. Gives(p, SeekTo(56) \o FlattenSeq(pieces) \o tail \o Ok, 56, "aborted")
      BY <3>1, <3>2, Endings, Shapes, GivesThen
    <3> QED
      BY <3>3, <2>6
  <2>7. CASE n # 56
    <3>1. Runs(p, SeekTo(56), 56, 56)
      BY <2>1, <2>7, SeekFirst
    <3>2. Runs(p, SeekTo(56) \o FlattenSeq(pieces), 56, n - left)
      BY <2>4, <3>1, RunsThen
    <3>3. Runs(p, SeekTo(56) \o FlattenSeq(pieces) \o tail, 56, n)
      BY <2>5, <3>2, RunsThen
    <3>4. Gives(p, SeekTo(56) \o FlattenSeq(pieces) \o tail \o Return("AIS_OK"), 56, "AIS_OK")
      BY <3>3, Endings, ThenReturn
    <3> QED
      BY <3>4, <2>7 DEF Ok
  <2> QED
    BY <2>6, <2>7
<1>3. ok \in BOOLEAN /\ (ok <=> NumBits(p) \in 56 .. 1192)
  OBVIOUS
<1> HIDE DEF calls, ok
<1> QED
  BY <1>1, <1>2, <1>3

(* 8:366:56 aborts when it has no data. *)
LEMMA Ais8_366_56Settles ==
  ASSUME NEW p, IsPayload(p), Application(p) = << 366, 56 >>, NumBits(p) \in 56 .. 1008,
         Unguarded(p) <=> NumBits(p) = 56
  PROVE  Settles(p, Ais8_366_56(p), 56)
<1> DEFINE n == NumBits(p)
<1>0. PICK ok \in BOOLEAN : \E calls :
        /\ Ais8_366_56(p) = Applied(p, 366, 56, ok, calls)
        /\ ok <=> n \in 56 .. 1192
        /\ ok => Gives(p, calls, 56, IF n = 56 THEN "aborted" ELSE "AIS_OK")
  BY Ais8_366_56Calls
<1>1. PICK calls :
        /\ Ais8_366_56(p) = Applied(p, 366, 56, ok, calls)
        /\ ok <=> n \in 56 .. 1192
        /\ ok => Gives(p, calls, 56, IF n = 56 THEN "aborted" ELSE "AIS_OK")
  BY <1>0
<1>2. n \in 56 .. 1192
  OBVIOUS
<1>3. Settles(p, calls, 56)
  BY <1>1, <1>2, Endings DEF Settles
<1> DEFINE dac == 366
           fi == 56
<1>4. Application(p) = << dac, fi >> /\ Ais8_366_56(p) = Applied(p, dac, fi, ok, calls)
  BY <1>1
<1>5. 56 \in Int /\ (Unguarded(p) => ok)
  BY <1>1, <1>2
<1> HIDE DEF dac, fi
<1>6. Settles(p, Applied(p, dac, fi, ok, calls), 56)
  BY <1>1, <1>3, <1>4, <1>5, AppliedSettles
<1> QED
  BY <1>4, <1>6

(* 8:1:27 aborts on every number of waypoints that fits. *)
LEMMA Ais8_1_27Settles ==
  ASSUME NEW p, IsPayload(p), Application(p) = << 1, 27 >>, NumBits(p) \in 56 .. 1008,
         Unguarded(p) <=> NumBits(p) \in 117 .. 997 /\ (NumBits(p) - 117) % 55 = 0
  PROVE  Settles(p, Ais8_1_27(p), 56)
<1> DEFINE n == NumBits(p)
           count == (n - 117) \div 55
           F == << <<56, 10>>, <<66, 3>>, <<69, 5>>, <<74, 4>>, <<78, 5>>, <<83, 5>>,
                   <<88, 6>>, <<94, 18>> >>
           pieces == [i \in 1 .. count |-> Point(117 + 55 * (i - 1), 55)]
           calls == SeekTo(56) \o Reads(F) \o FlattenSeq(pieces) \o NoneRemaining \o Ok
           ok == n >= 117 /\ (n - 117) % 55 = 0 /\ (n - 117) \div 55 <= 16
<1>1. Ais8_1_27(p) = Applied(p, 1, 27, ok, calls)
  BY DEF Ais8_1_27, Each
<1>2. Tiles(F, 56, 112)
  BY DEF Tiles, Within
<1> HIDE DEF F
<1>3. ASSUME ok PROVE Gives(p, calls, 56, "aborted")
  <2>1. /\ n \in Int /\ n <= Limit(p) /\ Limit(p) \in Int /\ n >= 117 /\ count \in Nat
        /\ 112 <= Limit(p) /\ n > 56 /\ n # 112
    BY <1>3, PayloadBits
  <2>2. Runs(p, SeekTo(56), 56, 56)
    BY <2>1, SeekFirst
  <2>3. Runs(p, SeekTo(56) \o Reads(F), 56, 112)
    BY <1>2, <2>1, <2>2, ThenReads
  <2>4. \A i \in 0 .. count - 1 : pieces[i + 1] = Point(117 + 55 * i, 55)
    BY <2>1
  <2>5. pieces = [i \in 1 .. count |-> pieces[i]]
    OBVIOUS
  <2> HIDE DEF pieces, calls
  <2>6. \A i \in 0 .. count - 1 : pieces[i + 1] \in Seq(Shape)
    <3> TAKE i \in 0 .. count - 1
    <3>1. pieces[i + 1] = Point(117 + 55 * i, 55) /\ 117 + 55 * i \in Int
      BY <2>1, <2>4
    <3> QED
      BY <3>1, PointsOf55
  <2> HIDE DEF count
  <2>7. CASE count = 0
    <3>1. FlattenSeq(pieces) = << >>
      <4>1. pieces = << >>
        BY <2>5, <2>7
      <4> QED
        BY <4>1, FlattenNone
    <3>2. Runs(p, SeekTo(56) \o Reads(F) \o << >>, 56, 112)
      BY <2>3, ThenNone
    <3>3. Gives(p, SeekTo(56) \o Reads(F) \o << >> \o NoneRemaining \o Ok, 56, "aborted")
      BY <2>1, <3>2, BadEndGives
    <3> QED
      BY <3>1, <3>3 DEF calls
  <2>8. CASE count > 0
    <3>1. Gives(p, pieces[1], 112, "aborted")
      <4> DEFINE G == << <<117, LongitudeBits(55)>>,
                         <<117 + LongitudeBits(55), 55 - LongitudeBits(55)>> >>
      <4>1. 0 \in 0 .. count - 1 /\ 0 + 1 = 1 /\ 117 + 55 * 0 = 117
        BY <2>1, <2>8
      <4>2. pieces[1] = Point(117, 55)
        BY <2>4, <4>1
      <4>3. Point(117, 55) = Reads(G)
        BY DEF Point
      <4>4. LongitudeBits(55) = 28
        BY DEF LongitudeBits
      <4>5. G \in Seq(Int \X Int) /\ Len(G) > 0 /\ G[1][1] # 112
        BY <4>4
      <4> HIDE DEF G
      <4>6. Undecided \in Statuses /\ 112 \in Int
        BY DEF Statuses
      <4>7. Halts(p, Reads(G), 112, Undecided, "aborted")
        BY <4>5, <4>6, Misread
      <4> QED
        BY <4>2, <4>3, <4>7 DEF Gives
    <3>2. Gives(p, FlattenSeq(pieces), 112, "aborted")
      <4> DEFINE from == 112
                 size == 0
                 k == 0
                 v == "aborted"
      <4>1. /\ count \in Nat /\ from \in Int /\ size \in Int
            /\ pieces = [i \in 1 .. count |-> pieces[i]]
            /\ k \in 0 .. count - 1
        BY <2>1, <2>5, <2>8
      <4>2. \A i \in 0 .. k - 1 :
              Runs(p, pieces[i + 1], from + i * size, from + i * size + size)
        OBVIOUS
      <4>3. Gives(p, pieces[k + 1], from + k * size, v)
        BY <3>1
      <4> HIDE DEF from, size, k, v
      <4>4. Gives(p, FlattenSeq(pieces), from, v)
        BY ZenonT(40), <2>6, <4>1, <4>2, <4>3, EvenLoopLeft
      <4> QED
        BY <4>4 DEF from, v
    <3>3. Gives(p, SeekTo(56) \o Reads(F) \o FlattenSeq(pieces), 56, "aborted")
      BY <2>3, <3>2, GivesAfter
    <3>4. Gives(p, SeekTo(56) \o Reads(F) \o FlattenSeq(pieces) \o NoneRemaining \o Ok, 56,
                "aborted")
      BY <3>3, Endings, Shapes, GivesThen
    <3> QED
      BY <3>4 DEF calls
  <2> QED
    BY <2>1, <2>7, <2>8
<1>4. ok \in BOOLEAN /\ 56 \in Int /\ (Unguarded(p) <=> ok)
  BY PayloadBits
<1> HIDE DEF calls, ok
<1> QED
  BY <1>1, <1>3, <1>4, AlwaysAborts

=============================================================================
