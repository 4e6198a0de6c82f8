-------------------------- MODULE TwoReadersProofs --------------------------
(***************************************************************************)
(* What TwoReaders says of the two implementations, for every set of       *)
(* lines, whichever of them Python takes for VDM.                          *)
(*                                                                         *)
(* The invariant adds to the two properties that the parts in the groups   *)
(* of BareQueue are lines that were read, and that a sentence C++ heard in *)
(* a line has the counters and the payload that Python reads in it.  The   *)
(* numbers of the lines are what the two are compared by.                  *)
(***************************************************************************)
EXTENDS TwoReaders, VdmStreamProofs

BareState == [groups : [SequenceNumbers -> Seq(Part)],
              ready  : Seq(QueuedMessage),
              raised : BOOLEAN]

(* The last line a BareQueue got is a part of that group. *)
IsPartLine(line, seq) ==
  line.framed /\ line.total # 1 /\ line.seq = << seq >>

InTurn(group, number) == group # << >> /\ Len(group) = number - 1

Decoded(nums, bodies) == [line_nums |-> nums, decoded |-> bodies]

Has(ms, m) == \E j \in DOMAIN ms : ms[j] = m

-----------------------------------------------------------------------------
(* BareQueue.put, of one line. *)

LEMMA Enqueued ==
  ASSUME NEW q \in BareState, NEW nums \in Seq(Int), NEW decoded \in Seq(Chunks)
  PROVE  LET r == Enqueue(q, nums, decoded) IN
         /\ r \in BareState
         /\ r.groups = q.groups
         /\ \A i \in DOMAIN q.ready : i \in DOMAIN r.ready /\ r.ready[i] = q.ready[i]
         /\ Has(r.ready, Decoded(nums, decoded))
<1> DEFINE m == [line_nums |-> nums, decoded |-> decoded]
           r == Enqueue(q, nums, decoded)
<1>1. q.ready \in Seq(QueuedMessage) /\ m \in QueuedMessage
  BY DEF BareState, QueuedMessage
<1>2. r = [q EXCEPT !.ready = Append(q.ready, m)]
  BY DEF Enqueue
<1> HIDE DEF m
<1>3. /\ Append(q.ready, m) \in Seq(QueuedMessage)
      /\ DOMAIN Append(q.ready, m) = DOMAIN q.ready \cup {Len(q.ready) + 1}
      /\ \A i \in DOMAIN q.ready : Append(q.ready, m)[i] = q.ready[i]
      /\ Append(q.ready, m)[Len(q.ready) + 1] = m
  BY <1>1, AppendKeeps
<1> HIDE DEF r
<1>4. r \in BareState /\ r.groups = q.groups /\ r.ready = Append(q.ready, m)
  BY <1>2, <1>3 DEF BareState
<1>5. Has(r.ready, m)
  BY <1>3, <1>4 DEF Has
<1> QED
  BY <1>3, <1>4, <1>5 DEF m, r, Decoded

LEMMA GroupSet ==
  ASSUME NEW q \in BareState, NEW id \in SequenceNumbers, NEW parts \in Seq(Part),
         NEW r, r = [q EXCEPT !.groups[id] = parts]
  PROVE  /\ r \in BareState
         /\ r.groups[id] = parts
         /\ \A seq \in SequenceNumbers : seq # id => r.groups[seq] = q.groups[seq]
         /\ r.ready = q.ready
  BY DEF BareState

LEMMA PartsType ==
  ASSUME NEW parts \in Seq(Part)
  PROVE  LineNums(parts) \in Seq(Int) /\ PartBodies(parts) \in Seq(Chunks)
<1>1. \A i \in 1 .. Len(parts) : parts[i] \in Part
  OBVIOUS
<1>2. \A i \in 1 .. Len(parts) : parts[i].line_num \in Int /\ parts[i].line.body \in Chunks
  BY <1>1 DEF Part, RawLine
<1>3. /\ LineNums(parts) = [i \in 1 .. Len(parts) |-> parts[i].line_num]
      /\ PartBodies(parts) = [i \in 1 .. Len(parts) |-> parts[i].line.body]
  BY DEF LineNums, PartBodies
<1> QED
  BY <1>2, <1>3

(* What put does to the groups and adds to the ready messages. *)
Step(q, r, line, n) ==
  LET part == [line |-> line, line_num |-> n] IN
  /\ r \in BareState
  /\ \A i \in DOMAIN q.ready : i \in DOMAIN r.ready /\ r.ready[i] = q.ready[i]
  /\ line.framed /\ line.total = 1 /\ << line.body >> \notin DecodeErrors
       => Has(r.ready, Decoded(<< n >>, << line.body >>))
  /\ \A seq \in SequenceNumbers :
       LET group == q.groups[seq] IN
       /\ ~ IsPartLine(line, seq) => r.groups[seq] = group
       /\ IsPartLine(line, seq) /\ line.number = 1 => r.groups[seq] = << part >>
       /\ IsPartLine(line, seq) /\ line.number # 1
            => IF InTurn(group, line.number)
               THEN \/ r.groups[seq] = Append(group, part)
                    \/ line.number = line.total /\ r.groups[seq] = << >>
               ELSE r.groups[seq] = group
       /\ (/\ IsPartLine(line, seq) /\ line.number # 1 /\ line.number = line.total
           /\ InTurn(group, line.number)
           /\ PartBodies(Append(group, part)) \notin DecodeErrors)
            => Has(r.ready, Decoded(LineNums(Append(group, part)),
                                    PartBodies(Append(group, part))))

LEMMA PutBareStep ==
  ASSUME NEW q \in BareState, NEW line \in RawLine, NEW n \in Nat,
         line.framed => VdmSyntax(line)
  PROVE  Step(q, PutBare(q, line, n), line, n)
<1> DEFINE part == [line |-> line, line_num |-> n]
           r == PutBare(q, line, n)
<1>1. part \in Part /\ part.line = line /\ part.line_num = n
  BY DEF Part
<1>2. /\ line.framed \in BOOLEAN /\ line.body \in Chunks
      /\ line.framed => line.seq \in {<< >>} \cup {<< id >> : id \in SequenceNumbers}
  BY DEF RawLine, VdmSyntax
<1>3. << n >> \in Seq(Int) /\ << line.body >> \in Seq(Chunks) /\ << >> \in Seq(Chunks)
  BY <1>2
<1>4. ASSUME r = q \/ r = [q EXCEPT !.raised = TRUE]
      PROVE  /\ r \in BareState /\ r.groups = q.groups /\ r.ready = q.ready
  BY <1>4 DEF BareState
<1>5. CASE ~ line.framed
  <2>1. r = [q EXCEPT !.raised = TRUE] \/ r = Enqueue(q, << n >>, << >>)
    BY <1>5 DEF PutBare, PassOther, PassThrough
  <2> HIDE DEF r
  <2>2. /\ r \in BareState /\ r.groups = q.groups
        /\ \A i \in DOMAIN q.ready : i \in DOMAIN r.ready /\ r.ready[i] = q.ready[i]
    <3>1. CASE r = [q EXCEPT !.raised = TRUE]
      BY <3>1 DEF BareState
    <3>2. CASE r = Enqueue(q, << n >>, << >>)
      BY <1>3, <3>2, Enqueued
    <3> QED
      BY <2>1, <3>1, <3>2
  <2>3. Step(q, r, line, n)
    BY <1>5, <2>2 DEF Step, IsPartLine
  <2> QED
    BY <2>3 DEF r
<1>6. CASE line.framed /\ line.total = 1
  <2>1. r = DecodeSingle(q, part)
    BY <1>6 DEF PutBare
  <2>2. CASE << line.body >> \in DecodeErrors
    <3>1. r = q
      BY <1>1, <2>1, <2>2 DEF DecodeSingle
    <3> HIDE DEF r
    <3>2. Step(q, r, line, n)
      BY <1>6, <2>2, <3>1 DEF Step, IsPartLine
    <3> QED
      BY <3>2 DEF r
  <2>3. CASE << line.body >> \notin DecodeErrors
    <3>1. r = Enqueue(q, << n >>, << line.body >>)
      BY <1>1, <2>1, <2>3 DEF DecodeSingle
    <3> HIDE DEF r
    <3>2. /\ r \in BareState /\ r.groups = q.groups
          /\ \A i \in DOMAIN q.ready : i \in DOMAIN r.ready /\ r.ready[i] = q.ready[i]
          /\ Has(r.ready, Decoded(<< n >>, << line.body >>))
      BY <1>3, <3>1, Enqueued
    <3>3. Step(q, r, line, n)
      BY <1>6, <3>2 DEF Step, IsPartLine
    <3> QED
      BY <3>3 DEF r
  <2> QED
    BY <2>2, <2>3
<1>7. CASE line.framed /\ line.total # 1
  <2>1. r = PutMultiLine(q, part)
    BY <1>7 DEF PutBare
  <2>2. CASE line.seq = << >>
    <3>1. r = [q EXCEPT !.raised = TRUE]
      BY <1>1, <2>1, <2>2 DEF PutMultiLine
    <3>2. r \in BareState /\ r.groups = q.groups /\ r.ready = q.ready
      BY <1>4, <3>1
    <3> HIDE DEF r
    <3>3. Step(q, r, line, n)
      <4>1. \A seq : << seq >> # << >>
        OBVIOUS
      <4>2. \A seq : ~ IsPartLine(line, seq)
        BY <2>2, <4>1 DEF IsPartLine
      <4> QED
        BY <1>7, <3>2, <4>2 DEF Step
    <3> QED
      BY <3>3 DEF r
  <2>3. CASE line.seq # << >>
    <3> DEFINE id == line.seq[1]
               group == q.groups[id]
               parts == Append(group, part)
    <3>1. id \in SequenceNumbers /\ \A seq \in SequenceNumbers :
                                      IsPartLine(line, seq) <=> seq = id
      <4>1. PICK x \in SequenceNumbers : line.seq = << x >>
        BY <1>2, <1>7, <2>3
      <4>2. id = x
        BY <4>1
      <4>3. \A seq : << seq >> = << x >> <=> seq = x
        OBVIOUS
      <4> QED
        BY <1>7, <4>1, <4>2, <4>3 DEF IsPartLine
    <3>2. group \in Seq(Part) /\ parts \in Seq(Part) /\ << part >> \in Seq(Part)
          /\ << >> \in Seq(Part)
      BY <1>1, <3>1, AppendKeeps DEF BareState
    <3>3. LineNums(parts) \in Seq(Int) /\ PartBodies(parts) \in Seq(Chunks)
      BY <3>2, PartsType
    <3>4. CASE line.number = 1
      <4>1. r = [q EXCEPT !.groups[id] = << part >>]
        BY <1>1, <2>1, <2>3, <3>4 DEF PutMultiLine, StartGroup
      <4>2. /\ r \in BareState /\ r.groups[id] = << part >> /\ r.ready = q.ready
            /\ \A seq \in SequenceNumbers : seq # id => r.groups[seq] = q.groups[seq]
        <5> DEFINE one == << part >>
        <5>1. r = [q EXCEPT !.groups[id] = one]
          BY <4>1
        <5>2. one \in Seq(Part) /\ id \in SequenceNumbers
          BY <3>1, <3>2
        <5> HIDE DEF one, r, id, part, parts, group
        <5>3. /\ r \in BareState /\ r.groups[id] = one /\ r.ready = q.ready
              /\ \A seq \in SequenceNumbers : seq # id => r.groups[seq] = q.groups[seq]
          BY <5>2, <5>1 DEF BareState
        <5> QED
          BY <5>3 DEF one
      <4> HIDE DEF r, id
      <4>3. Step(q, r, line, n)
        BY <1>7, <3>1, <3>4, <4>2 DEF Step
      <4> QED
        BY <4>3 DEF r
    <3>5. CASE line.number # 1
      <4>1. r = ContinueGroup(q, id, part)
        BY <1>1, <2>1, <2>3, <3>5 DEF PutMultiLine
      <4>2. CASE ~ InTurn(group, line.number)
        <5>1. r = q
          BY <1>1, <4>1, <4>2 DEF ContinueGroup, InTurn
        <5> HIDE DEF r, id
        <5>2. Step(q, r, line, n)
          BY <1>7, <3>1, <3>5, <4>2, <5>1 DEF Step
        <5> QED
          BY <5>2 DEF r
      <4>3. CASE InTurn(group, line.number) /\ line.number # line.total
        <5>1. r = [q EXCEPT !.groups[id] = parts]
          BY <1>1, <4>1, <4>3 DEF ContinueGroup, InTurn
        <5>2. /\ r \in BareState /\ r.groups[id] = parts /\ r.ready = q.ready
              /\ \A seq \in SequenceNumbers : seq # id => r.groups[seq] = q.groups[seq]
          <6> HIDE DEF parts, r, id
          <6> QED
            BY <3>1, <3>2, <5>1, GroupSet
        <5> HIDE DEF r, id
        <5>3. Step(q, r, line, n)
          BY <1>7, <3>1, <3>5, <4>3, <5>2 DEF Step
        <5> QED
          BY <5>3 DEF r
      <4>4. CASE InTurn(group, line.number) /\ line.number = line.total
        <5>1. r = FinishGroup(q, id, parts)
          BY <1>1, <4>1, <4>4 DEF ContinueGroup, InTurn
        <5>2. CASE PartBodies(parts) \in DecodeErrors
          <6>1. r = [q EXCEPT !.groups[id] = parts]
            BY <5>1, <5>2 DEF FinishGroup
          <6>2. /\ r \in BareState /\ r.ready = q.ready /\ r.groups[id] = parts
                /\ \A seq \in SequenceNumbers : seq # id => r.groups[seq] = q.groups[seq]
            <7> HIDE DEF parts, r, id
            <7> QED
              BY <3>1, <3>2, <6>1, GroupSet
          <6> HIDE DEF r, id
          <6>3. Step(q, r, line, n)
            BY <1>7, <3>1, <3>5, <4>4, <5>2, <6>2 DEF Step
          <6> QED
            BY <6>3 DEF r
        <5>3. CASE PartBodies(parts) \notin DecodeErrors
          <6> DEFINE t == [q EXCEPT !.groups[id] = << >>]
          <6>1. r = Enqueue(t, LineNums(parts), PartBodies(parts))
            BY <5>1, <5>3 DEF FinishGroup
          <6>2. /\ t \in BareState /\ t.ready = q.ready /\ t.groups[id] = << >>
                /\ \A seq \in SequenceNumbers : seq # id => t.groups[seq] = q.groups[seq]
            <7> DEFINE none == << >>
            <7>1. none \in Seq(Part) /\ t = [q EXCEPT !.groups[id] = none]
              BY <3>2
            <7>3. id \in SequenceNumbers
              BY <3>1
            <7> HIDE DEF none, t, id
            <7>2. /\ t \in BareState /\ t.ready = q.ready /\ t.groups[id] = none
                  /\ \A seq \in SequenceNumbers : seq # id => t.groups[seq] = q.groups[seq]
              BY <7>1, <7>3 DEF BareState
            <7> QED
              BY <7>2 DEF none
          <6> HIDE DEF r, t
          <6>3. /\ r \in BareState /\ r.groups = t.groups
                /\ \A i \in DOMAIN t.ready : i \in DOMAIN r.ready /\ r.ready[i] = t.ready[i]
                /\ Has(r.ready, Decoded(LineNums(parts), PartBodies(parts)))
            BY <3>3, <6>1, <6>2, Enqueued
          <6> HIDE DEF id
          <6>4. Step(q, r, line, n)
            BY <1>7, <3>1, <3>5, <4>4, <6>2, <6>3 DEF Step
          <6> QED
            BY <6>4 DEF r
        <5> QED
          BY <5>2, <5>3
      <4> QED
        BY <4>2, <4>3, <4>4
    <3> QED
      BY <3>4, <3>5
  <2> QED
    BY <2>2, <2>3
<1> QED
  BY <1>2, <1>5, <1>6, <1>7

-----------------------------------------------------------------------------
(* Numbers of lines up to n, and what a new one does to what is said of them. *)

LEMMA NumsDiffer ==
  ASSUME NEW n \in Nat, NEW a \in Seq(1 .. n), NEW b \in Seq(1 .. n)
  PROVE  /\ a # Append(b, n + 1) /\ Append(a, n + 1) # b
         /\ Append(a, n + 1) = Append(b, n + 1) <=> a = b
         /\ << n + 1 >> # a /\ << >> # Append(a, n + 1)
<1>1. /\ Len(Append(a, n + 1)) = Len(a) + 1 /\ Append(a, n + 1)[Len(a) + 1] = n + 1
      /\ \A i \in 1 .. Len(a) : Append(a, n + 1)[i] = a[i]
  OBVIOUS
<1>2. /\ Len(Append(b, n + 1)) = Len(b) + 1 /\ Append(b, n + 1)[Len(b) + 1] = n + 1
      /\ \A i \in 1 .. Len(b) : Append(b, n + 1)[i] = b[i]
  OBVIOUS
<1>3. /\ \A i \in 1 .. Len(a) : a[i] \in 1 .. n
      /\ \A i \in 1 .. Len(b) : b[i] \in 1 .. n
      /\ Len(a) \in Nat /\ Len(b) \in Nat
  OBVIOUS
<1>4. a # Append(b, n + 1)
  <2>1. ASSUME a = Append(b, n + 1) PROVE FALSE
    <3>1. Len(a) = Len(b) + 1 /\ a[Len(b) + 1] = n + 1
      BY <1>2, <2>1
    <3> QED
      BY <1>3, <3>1
  <2> QED
    BY <2>1
<1>5. Append(a, n + 1) # b
  <2>1. ASSUME b = Append(a, n + 1) PROVE FALSE
    <3>1. Len(b) = Len(a) + 1 /\ b[Len(a) + 1] = n + 1
      BY <1>1, <2>1
    <3> QED
      BY <1>3, <3>1
  <2> QED
    BY <2>1
<1>6. Append(a, n + 1) = Append(b, n + 1) => a = b
  <2> SUFFICES ASSUME Append(a, n + 1) = Append(b, n + 1) PROVE a = b
    OBVIOUS
  <2>1. Len(a) = Len(b)
    BY <1>1, <1>2, <1>3
  <2>2. \A i \in 1 .. Len(a) : a[i] = b[i]
    BY <1>1, <1>2, <2>1
  <2>3. a = [i \in 1 .. Len(a) |-> a[i]] /\ b = [i \in 1 .. Len(b) |-> b[i]]
    OBVIOUS
  <2> QED
    BY <2>1, <2>2, <2>3
<1>7. << n + 1 >> # a
  <2>1. ASSUME << n + 1 >> = a PROVE FALSE
    <3>1. Len(a) = 1 /\ a[1] = n + 1
      BY <2>1
    <3> QED
      BY <1>3, <3>1
  <2> QED
    BY <2>1
<1>8. << >> # Append(a, n + 1)
  <2>1. Len(<< >>) = 0
    OBVIOUS
  <2> QED
    BY <1>1, <1>3, <2>1
<1> QED
  BY <1>4, <1>5, <1>6, <1>7, <1>8

(* ReadAlike, of given histories. *)
Alone(h, r, k) == r[k].framed /\ r[k].total # 1 /\ h[k] = NoSentence

Alike(h, r, nums, upto) ==
  \A i \in DOMAIN nums :
    /\ r[nums[i]].framed
    /\ \A k \in nums[i] + 1 .. (IF i = Len(nums) THEN upto ELSE nums[i + 1] - 1) :
         Alone(h, r, k) /\ r[k].seq = r[nums[i]].seq => r[k].number \notin {1, i + 1}

(* What was heard and read before line n + 1 stays. *)
Grown(h, r, h2, r2, n) == \A k \in 1 .. n : h2[k] = h[k] /\ r2[k] = r[k]

LEMMA AlikeStays ==
  ASSUME NEW n \in Nat, NEW h, NEW r, NEW h2, NEW r2, Grown(h, r, h2, r2, n),
         NEW nums \in Seq(1 .. n), NEW upto \in Int, upto <= n
  PROVE  Alike(h2, r2, nums, upto) <=> Alike(h, r, nums, upto)
<1> DEFINE To(i) == IF i = Len(nums) THEN upto ELSE nums[i + 1] - 1
<1>1. ASSUME NEW i \in DOMAIN nums
      PROVE  /\ r2[nums[i]] = r[nums[i]]
             /\ \A k \in nums[i] + 1 .. To(i) : h2[k] = h[k] /\ r2[k] = r[k]
  <2>1. nums[i] \in 1 .. n /\ (i # Len(nums) => nums[i + 1] \in 1 .. n)
    OBVIOUS
  <2>2. To(i) \in Int /\ To(i) <= n
    BY <2>1
  <2>3. \A k \in nums[i] + 1 .. To(i) : k \in 1 .. n
    BY <2>1, <2>2
  <2> QED
    BY <2>1, <2>3 DEF Grown
<1>2. /\ Alike(h, r, nums, upto) <=>
           \A i \in DOMAIN nums : /\ r[nums[i]].framed
                                 /\ \A k \in nums[i] + 1 .. To(i) :
                                      Alone(h, r, k) /\ r[k].seq = r[nums[i]].seq
                                        => r[k].number \notin {1, i + 1}
      /\ Alike(h2, r2, nums, upto) <=>
           \A i \in DOMAIN nums : /\ r2[nums[i]].framed
                                 /\ \A k \in nums[i] + 1 .. To(i) :
                                      Alone(h2, r2, k) /\ r2[k].seq = r2[nums[i]].seq
                                        => r2[k].number \notin {1, i + 1}
  BY DEF Alike
<1> HIDE DEF To
<1>3. \A i \in DOMAIN nums : \A k \in nums[i] + 1 .. To(i) :
        Alone(h2, r2, k) <=> Alone(h, r, k)
  BY <1>1 DEF Alone
<1> QED
  BY <1>1, <1>2, <1>3

(* The next line, if it is no part of them. *)
LEMMA AlikeGoesOn ==
  ASSUME NEW n \in Nat, NEW h, NEW r, NEW h2, NEW r2, Grown(h, r, h2, r2, n),
         NEW nums \in Seq(1 .. n), nums # << >>
  PROVE  Alike(h2, r2, nums, n + 1) <=>
           /\ Alike(h, r, nums, n)
           /\ Alone(h2, r2, n + 1) /\ r2[n + 1].seq = r[nums[Len(nums)]].seq
                => r2[n + 1].number \notin {1, Len(nums) + 1}
<1> DEFINE last == Len(nums)
           Free(i, k) == Alone(h2, r2, k) /\ r2[k].seq = r2[nums[i]].seq
                           => r2[k].number \notin {1, i + 1}
<1>1. last \in DOMAIN nums /\ nums[last] \in 1 .. n /\ r2[nums[last]] = r[nums[last]]
  BY DEF Grown
<1>2. Alike(h2, r2, nums, n) <=> Alike(h, r, nums, n)
  BY AlikeStays
<1>3. nums[last] + 1 .. n + 1 = (nums[last] + 1 .. n) \cup {n + 1}
  BY <1>1
<1>4. Alike(h2, r2, nums, n + 1) <=> Alike(h2, r2, nums, n) /\ Free(last, n + 1)
  <2>1. \A upto : Alike(h2, r2, nums, upto) <=>
                   \A i \in DOMAIN nums :
                     /\ r2[nums[i]].framed
                     /\ i # last => \A k \in nums[i] + 1 .. nums[i + 1] - 1 : Free(i, k)
                     /\ i = last => \A k \in nums[last] + 1 .. upto : Free(last, k)
    BY DEF Alike
  <2>2. (\A k \in nums[last] + 1 .. n + 1 : Free(last, k)) <=>
          (\A k \in nums[last] + 1 .. n : Free(last, k)) /\ Free(last, n + 1)
    BY <1>3
  <2> HIDE DEF Free, last
  <2> QED
    BY <1>1, <2>1, <2>2
<1> QED
  BY <1>1, <1>2, <1>4

(* The next line, as the next part. *)
LEMMA AlikeAppended ==
  ASSUME NEW n \in Nat, NEW h, NEW r, NEW h2, NEW r2, Grown(h, r, h2, r2, n),
         NEW nums \in Seq(1 .. n)
  PROVE  Alike(h2, r2, Append(nums, n + 1), n + 1) <=>
           Alike(h, r, nums, n) /\ r2[n + 1].framed
<1> DEFINE all == Append(nums, n + 1)
           last == Len(nums) + 1
           Free(i, k) == Alone(h2, r2, k) /\ r2[k].seq = r2[all[i]].seq
                           => r2[k].number \notin {1, i + 1}
           To(i) == IF i = Len(nums) THEN n ELSE nums[i + 1] - 1
<1>1. /\ DOMAIN nums = 1 .. Len(nums) /\ DOMAIN all = (1 .. Len(nums)) \cup {last}
      /\ all[last] = n + 1 /\ Len(all) = last /\ Len(nums) \in Nat
      /\ \A i \in 1 .. Len(nums) : all[i] = nums[i]
  OBVIOUS
<1>2. Alike(h2, r2, nums, n) <=> Alike(h, r, nums, n)
  BY AlikeStays
<1>3. \A i \in 1 .. Len(nums) : all[i + 1] - 1 = To(i) /\ i # last
  <2> TAKE i \in 1 .. Len(nums)
  <2>1. i = Len(nums) => all[i + 1] = n + 1
    BY <1>1
  <2>2. i # Len(nums) => all[i + 1] = nums[i + 1]
    <3>1. i # Len(nums) => i + 1 \in 1 .. Len(nums)
      OBVIOUS
    <3> HIDE DEF all
    <3> QED
      BY <1>1, <3>1
  <2>3. n + 1 - 1 = n /\ i # last
    BY <1>1
  <2> QED
    BY <2>1, <2>2, <2>3
<1>4. Alike(h2, r2, nums, n) <=>
        \A i \in 1 .. Len(nums) : /\ r2[all[i]].framed
                                  /\ \A k \in all[i] + 1 .. To(i) : Free(i, k)
  BY <1>1 DEF Alike
<1>5. Alike(h2, r2, all, n + 1) <=>
        \A i \in DOMAIN all :
          /\ r2[all[i]].framed
          /\ \A k \in all[i] + 1 .. (IF i = last THEN n + 1 ELSE all[i + 1] - 1) : Free(i, k)
  <2>1. Len(all) = last
    BY <1>1
  <2> HIDE DEF all, last
  <2> QED
    BY <2>1 DEF Alike
<1>6. (n + 1) + 1 .. n + 1 = {}
  OBVIOUS
<1> HIDE DEF Free, To, all, last
<1>7. Alike(h2, r2, all, n + 1) <=>
        /\ \A i \in 1 .. Len(nums) : /\ r2[all[i]].framed
                                     /\ \A k \in all[i] + 1 .. To(i) : Free(i, k)
        /\ r2[n + 1].framed
  <2>1. ASSUME NEW i \in 1 .. Len(nums)
        PROVE  (IF i = last THEN n + 1 ELSE all[i + 1] - 1) = To(i) /\ i \in DOMAIN all
    BY <1>1, <1>3
  <2>2. /\ last \in DOMAIN all /\ all[last] = n + 1
        /\ \A k \in all[last] + 1 .. n + 1 : FALSE
    BY <1>1, <1>6
  <2>3. \A i \in DOMAIN all : i \in 1 .. Len(nums) \/ i = last
    BY <1>1
  <2> QED
    BY <1>5, <2>1, <2>2, <2>3
<1>8. Alike(h2, r2, all, n + 1) <=> Alike(h2, r2, nums, n) /\ r2[n + 1].framed
  BY <1>4, <1>7
<1> QED
  BY <1>2, <1>8 DEF all

(* It alone, as the first part. *)
LEMMA AlikeStarted ==
  ASSUME NEW n \in Nat, NEW h, NEW r, NEW h2, NEW r2, Grown(h, r, h2, r2, n)
  PROVE  Alike(h2, r2, << n + 1 >>, n + 1) <=> r2[n + 1].framed
<1> DEFINE none == << >>
<1>1. none \in Seq(1 .. n) /\ Append(none, n + 1) = << n + 1 >> /\ DOMAIN none = {}
  OBVIOUS
<1> HIDE DEF none
<1>2. Alike(h, r, none, n)
  BY <1>1 DEF Alike
<1>3. Alike(h2, r2, Append(none, n + 1), n + 1) <=> Alike(h, r, none, n) /\ r2[n + 1].framed
  BY <1>1, AlikeAppended
<1> QED
  BY <1>1, <1>2, <1>3

-----------------------------------------------------------------------------

\* A sequence whose elements are in a set is a sequence over that set.
LEMMA SeqOver ==
  ASSUME NEW T, NEW S, NEW s \in Seq(T), \A i \in 1 .. Len(s) : s[i] \in S
  PROVE  s \in Seq(S)
<1>1. Len(s) \in Nat /\ s = [i \in 1 .. Len(s) |-> s[i]]
  OBVIOUS
<1>2. s \in [1 .. Len(s) -> S]
  BY <1>1
<1> QED
  BY <1>1, <1>2

(* Both readers get the line. *)

(* A sentence C++ made and what Python sees in the same line. *)
AsRead(s, line) ==
  /\ s.number = line.number /\ s.total = line.total /\ s.total # 0
  /\ s.body = << line.body >>
  /\ line.framed => \A seq \in SequenceNumbers : s.seq = seq <=> line.seq = << seq >>

(* Parts of a group are lines that were read. *)
GroupRead(group) ==
  \A i \in DOMAIN group : /\ group[i].line_num \in DOMAIN read
                          /\ group[i].line = read[group[i].line_num]

ReadersOK ==
  /\ bare \in BareState
  /\ DOMAIN read = DOMAIN heard
  /\ read \in Seq(RawLine)
  /\ \A k \in DOMAIN heard : heard[k] = NoSentence \/ AsRead(heard[k], read[k])
  /\ \A seq \in SequenceNumbers : GroupRead(bare.groups[seq])
  /\ BufferIsGroup
  /\ PythonDecodesToo

(* What they make of it. *)
LEMMA SentenceOfLine ==
  ASSUME NEW line \in Lines, NEW vdm \in BOOLEAN, vdm => VdmSyntax(line),
         NEW n \in Nat, NEW s, s = Create(line, n),
         NEW parsed, parsed = [line EXCEPT !.framed = vdm]
  PROVE  /\ parsed \in RawLine /\ parsed.framed = vdm
         /\ parsed.framed => VdmSyntax(parsed)
         /\ s = NoSentence \/ AsRead(s, parsed)
<1>1. line \in RawLine
  BY LinesAreRaw
<1>2. /\ parsed \in RawLine /\ parsed.framed = vdm
      /\ parsed.total = line.total /\ parsed.number = line.number
      /\ parsed.seq = line.seq /\ parsed.body = line.body
      /\ parsed.channel = line.channel /\ parsed.fill = line.fill
  BY <1>1 DEF RawLine
<1>3. parsed.framed => VdmSyntax(parsed)
  BY <1>2 DEF VdmSyntax
<1>4. ASSUME s # NoSentence PROVE AsRead(s, parsed)
  <2>1. ValidLine(line)
    BY <1>4 DEF Create
  <2>2. s = [talker      |-> line.talker,
             total       |-> line.total,
             number      |-> line.number,
             seq         |-> SequenceNumber(line),
             channel     |-> line.channel,
             body        |-> << line.body >>,
             fill_bits   |-> line.fill,
             line_number |-> n]
    BY <2>1 DEF Create
  <2>3. /\ s.number = line.number /\ s.total = line.total
        /\ s.body = << line.body >> /\ s.seq = SequenceNumber(line)
    BY <2>2
  <2>4. s.total # 0
    <3>1. line.number \in 1 .. line.total /\ line.total \in Int
      BY <1>1, <2>1 DEF ValidLine, ValidNumbers, RawLine
    <3> QED
      BY <2>3, <3>1
  <2>5. ASSUME parsed.framed, NEW seq \in SequenceNumbers
        PROVE  s.seq = seq <=> parsed.seq = << seq >>
    <3>1. line.seq \in {<< >>} \cup {<< id >> : id \in SequenceNumbers}
      BY <1>2, <1>3, <2>5 DEF VdmSyntax
    <3>2. CASE line.seq = << >>
      <4>1. s.seq = kNoSequenceNumber /\ seq # kNoSequenceNumber
        BY <2>3, <3>2 DEF SequenceNumber, SequenceNumbers, kNumSequenceChannels,
                          kNoSequenceNumber
      <4>2. << seq >> # << >>
        OBVIOUS
      <4> QED
        BY <1>2, <3>2, <4>1, <4>2
    <3>3. ASSUME NEW id \in SequenceNumbers, line.seq = << id >>
          PROVE  s.seq = seq <=> parsed.seq = << seq >>
      <4>1. << id >> # << >> /\ << id >>[1] = id /\ (<< id >> = << seq >> <=> id = seq)
        OBVIOUS
      <4>2. s.seq = id
        BY <2>3, <3>3, <4>1 DEF SequenceNumber
      <4> QED
        BY <1>2, <3>3, <4>1, <4>2
    <3> QED
      BY <3>1, <3>2, <3>3
  <2> QED
    BY <1>2, <2>3, <2>4, <2>5 DEF AsRead
<1> QED
  BY <1>2, <1>3, <1>4

LEMMA LineRead ==
  ASSUME Inductive, ReadersOK, NEW line \in Lines, NEW vdm \in BOOLEAN,
         BothRead(line, vdm),
         NEW n, n = Len(heard),
         NEW s, s = Create(line, n + 1),
         NEW parsed, parsed = [line EXCEPT !.framed = vdm],
         NEW r, r = PutBare(bare, parsed, n + 1)
  PROVE  /\ AddLine(line) /\ n \in Nat /\ n = line_number /\ line_number' = n + 1
         /\ DOMAIN heard = 1 .. n /\ DOMAIN read = 1 .. n
         /\ DOMAIN heard' = 1 .. n + 1 /\ DOMAIN read' = 1 .. n + 1
         /\ Grown(heard, read, heard', read', n)
         /\ heard'[n + 1] = s /\ read'[n + 1] = parsed
         /\ read' \in Seq(RawLine)
         /\ parsed \in RawLine
         /\ s = NoSentence \/ (AsRead(s, parsed) /\ s.line_number = n + 1 /\ s \in Sentence)
         /\ Step(bare, r, parsed, n + 1)
         /\ bare' \in BareState /\ bare'.groups = r.groups /\ bare'.ready = r.ready
<1>1. /\ AddLine(line) /\ n \in Nat /\ n = line_number /\ TypeOK /\ HeardOK
  BY DEF BothRead, Inductive, TypeOK, HeardOK
<1>2. /\ line_number' = n + 1
      /\ bare' = [r EXCEPT !.raised = FALSE] /\ read' = Append(read, parsed)
      /\ vdm => VdmSyntax(line)
  BY <1>1 DEF BothRead, AddLine
<1>3. /\ s = NoSentence \/ (Created(s) /\ s.line_number = n + 1)
      /\ DOMAIN heard' = DOMAIN heard \cup {n + 1}
      /\ \A k \in DOMAIN heard : heard'[k] = heard[k]
      /\ heard'[n + 1] = s
  BY <1>1, HearLine
<1>4. /\ parsed \in RawLine
      /\ parsed.framed => VdmSyntax(parsed)
      /\ s = NoSentence \/ AsRead(s, parsed)
  BY <1>1, <1>2, SentenceOfLine
<1>5. read \in Seq(RawLine) /\ DOMAIN read = DOMAIN heard /\ heard \in Seq(Sentence \cup {NoSentence})
  BY <1>1 DEF ReadersOK, TypeOK
<1>6. DOMAIN heard = 1 .. n /\ DOMAIN read = 1 .. n /\ Len(read) = n
  <2>1. DOMAIN heard = 1 .. n
    BY <1>5
  <2>2. DOMAIN read = 1 .. Len(read) /\ Len(read) \in Nat
    BY <1>5
  <2>3. Len(read) = n
    BY <1>1, <1>5, <2>1, <2>2
  <2> QED
    BY <2>1, <2>2, <2>3
<1>7. /\ read' \in Seq(RawLine)
      /\ DOMAIN read' = DOMAIN read \cup {n + 1}
      /\ \A k \in DOMAIN read : read'[k] = read[k]
      /\ read'[n + 1] = parsed
  BY <1>2, <1>4, <1>5, <1>6, AppendKeeps
<1>8. (1 .. n) \cup {n + 1} = 1 .. n + 1
  BY <1>1
<1>9. Grown(heard, read, heard', read', n)
  BY <1>3, <1>6, <1>7 DEF Grown
<1>10. Step(bare, r, parsed, n + 1)
  <2>1. bare \in BareState /\ n + 1 \in Nat
    BY <1>1 DEF ReadersOK
  <2> QED
    BY <1>4, <2>1, PutBareStep
<1>11. bare' \in BareState /\ bare'.groups = r.groups /\ bare'.ready = r.ready
  BY <1>2, <1>10 DEF Step, BareState
<1>12. s = NoSentence \/ s \in Sentence
  BY <1>3 DEF Created
<1> QED
  BY <1>1, <1>2, <1>3, <1>4, <1>6, <1>7, <1>8, <1>9, <1>10, <1>11, <1>12

LEMMA AlikeIsRead ==
  ASSUME NEW nums, NEW upto
  PROVE  ReadAlike(nums, upto) <=> Alike(heard, read, nums, upto)
  BY DEF ReadAlike, PythonOnly, Alike, Alone

(* Numbers of the lines in a buffer and in a group. *)
LEMMA BufferNums ==
  ASSUME Inductive, NEW seq \in SequenceNumbers
  PROVE  LET buffer == incoming_sentences[seq] IN
         /\ LinesOf(buffer) \in Seq(DOMAIN heard)
         /\ Len(LinesOf(buffer)) = Len(buffer)
         /\ LinesOf(buffer) = << >> <=> buffer = << >>
         /\ \A i \in DOMAIN LinesOf(buffer) :
              heard[LinesOf(buffer)[i]] = buffer[i] /\ buffer[i].seq = seq
<1> DEFINE buffer == incoming_sentences[seq]
           nums == LinesOf(buffer)
<1>1. buffer \in Seq(Sentence)
  BY DEF Inductive, TypeOK
<1>2. \A i \in DOMAIN buffer : /\ buffer[i].line_number \in DOMAIN heard
                               /\ buffer[i] = heard[buffer[i].line_number]
                               /\ buffer[i].seq = seq
  BY DEF Inductive, BuffersInOrder, BufferInOrder
<1> HIDE DEF buffer
<1>3. /\ Len(nums) = Len(buffer) /\ nums \in Seq(Int) /\ DOMAIN buffer = 1 .. Len(buffer)
      /\ \A i \in 1 .. Len(buffer) : nums[i] = buffer[i].line_number
  BY <1>1, LinesOfType
<1> HIDE DEF nums
<1>4. DOMAIN nums = 1 .. Len(buffer)
  BY <1>3
<1>5. \A i \in DOMAIN nums : nums[i] \in DOMAIN heard
  BY <1>2, <1>3, <1>4
<1>6. nums \in Seq(DOMAIN heard)
  BY <1>3, <1>5
<1>7. nums = << >> <=> buffer = << >>
  BY <1>1, <1>3
<1>8. \A i \in DOMAIN nums : heard[nums[i]] = buffer[i] /\ buffer[i].seq = seq
  BY <1>2, <1>3, <1>4
<1> QED
  BY <1>3, <1>6, <1>7, <1>8 DEF buffer, nums

LEMMA GroupNums ==
  ASSUME NEW parts \in Seq(Part), NEW S, NEW p \in Part,
         \A i \in DOMAIN parts : parts[i].line_num \in S
  PROVE  /\ LineNums(parts) \in Seq(S)
         /\ Len(LineNums(parts)) = Len(parts)
         /\ \A i \in DOMAIN parts : LineNums(parts)[i] = parts[i].line_num
         /\ LineNums(Append(parts, p)) = Append(LineNums(parts), p.line_num)
         /\ LineNums(<< p >>) = << p.line_num >>
         /\ LineNums(<< >>) = << >>
<1> DEFINE all == Append(parts, p)
<1>1. /\ DOMAIN parts = 1 .. Len(parts) /\ Len(parts) \in Nat
      /\ DOMAIN all = 1 .. Len(parts) + 1
      /\ \A i \in 1 .. Len(parts) : all[i] = parts[i]
      /\ all[Len(parts) + 1] = p
  OBVIOUS
<1> HIDE DEF all
<1>2. LineNums(parts) = [i \in 1 .. Len(parts) |-> parts[i].line_num]
  BY <1>1 DEF LineNums
<1>3. LineNums(all) = [i \in 1 .. Len(parts) + 1 |-> all[i].line_num]
  BY <1>1 DEF LineNums
<1>4. /\ LineNums(parts) \in Seq(S) /\ Len(LineNums(parts)) = Len(parts)
      /\ \A i \in DOMAIN parts : LineNums(parts)[i] = parts[i].line_num
  BY <1>1, <1>2
<1>5. LineNums(all) = Append(LineNums(parts), p.line_num)
  <2> DEFINE nums == LineNums(parts)
             more == Append(nums, p.line_num)
  <2>1. nums \in Seq(S) /\ Len(nums) = Len(parts)
        /\ \A i \in 1 .. Len(parts) : nums[i] = parts[i].line_num
    BY <1>1, <1>4
  <2> HIDE DEF nums
  <2>2. /\ more = [i \in 1 .. Len(parts) + 1 |-> more[i]]
        /\ \A i \in 1 .. Len(parts) : more[i] = nums[i]
        /\ more[Len(parts) + 1] = p.line_num
    BY <1>1, <2>1
  <2>3. \A i \in 1 .. Len(parts) + 1 : i \in 1 .. Len(parts) \/ i = Len(parts) + 1
    BY <1>1
  <2> HIDE DEF more
  <2>4. \A i \in 1 .. Len(parts) + 1 : more[i] = all[i].line_num
    BY <1>1, <2>1, <2>2, <2>3
  <2> QED
    BY <1>3, <2>2, <2>4 DEF more, nums
<1>6. LineNums(<< p >>) = << p.line_num >> /\ LineNums(<< >>) = << >>
  BY DEF LineNums
<1> QED
  BY <1>4, <1>5, <1>6 DEF all

(* Where the group of a sequence number goes, in numbers of lines. *)
GroupGoes(old, new, parsed, seq, n) ==
  /\ ~ IsPartLine(parsed, seq) => new = old
  /\ IsPartLine(parsed, seq) /\ parsed.number = 1 => new = << n + 1 >>
  /\ IsPartLine(parsed, seq) /\ parsed.number # 1 =>
       IF old # << >> /\ Len(old) + 1 = parsed.number
       THEN \/ new = Append(old, n + 1)
            \/ parsed.number = parsed.total /\ new = << >>
       ELSE new = old

LEMMA GroupMoves ==
  ASSUME NEW n \in Nat, NEW q \in BareState, NEW r, NEW parsed \in RawLine,
         Step(q, r, parsed, n + 1), NEW seq \in SequenceNumbers,
         \A i \in DOMAIN q.groups[seq] : q.groups[seq][i].line_num \in 1 .. n
  PROVE  /\ LineNums(q.groups[seq]) \in Seq(1 .. n)
         /\ GroupGoes(LineNums(q.groups[seq]), LineNums(r.groups[seq]), parsed, seq, n)
<1> DEFINE group == q.groups[seq]
           after == r.groups[seq]
           part == [line |-> parsed, line_num |-> n + 1]
           old == LineNums(group)
           new == LineNums(after)
<1>1. group \in Seq(Part) /\ part \in Part /\ part.line_num = n + 1
  <2>1. group \in Seq(Part)
    BY DEF BareState
  <2>2. part \in Part /\ part.line_num = n + 1
    BY DEF Part
  <2> QED
    BY <2>1, <2>2
<1>2. /\ ~ IsPartLine(parsed, seq) => after = group
      /\ IsPartLine(parsed, seq) /\ parsed.number = 1 => after = << part >>
      /\ IsPartLine(parsed, seq) /\ parsed.number # 1 =>
           IF InTurn(group, parsed.number)
           THEN \/ after = Append(group, part)
                \/ parsed.number = parsed.total /\ after = << >>
           ELSE after = group
  BY DEF Step
<1> HIDE DEF after, part, group
<1>3. /\ old \in Seq(1 .. n) /\ Len(old) = Len(group)
      /\ LineNums(Append(group, part)) = Append(old, n + 1)
      /\ LineNums(<< part >>) = << n + 1 >>
      /\ LineNums(<< >>) = << >>
  BY <1>1, GroupNums DEF group
<1>4. InTurn(group, parsed.number) <=> old # << >> /\ Len(old) + 1 = parsed.number
  <2>1. group # << >> <=> old # << >>
    BY <1>1, <1>3
  <2>2. Len(group) \in Nat /\ parsed.number \in Int
    BY <1>1 DEF RawLine
  <2> HIDE DEF old
  <2> QED
    BY <1>3, <2>1, <2>2 DEF InTurn
<1> HIDE DEF old
<1>5. GroupGoes(old, new, parsed, seq, n)
  BY <1>2, <1>3, <1>4 DEF old, GroupGoes
<1> QED
  BY <1>3, <1>5 DEF old, new, group, after

(* Where the buffer goes, in numbers of lines. *)
LEMMA BufferMoves ==
  ASSUME Inductive, NEW line \in Lines, AddLine(line), NEW seq \in SequenceNumbers,
         NEW n, n = Len(heard), NEW s, s = Create(line, n + 1)
  PROVE  LET old == LinesOf(incoming_sentences[seq])
             new == LinesOf(incoming_sentences'[seq]) IN
         \/ ~ IsPart(s, seq) /\ new = old
         \/ IsPart(s, seq) /\ s.number = 1 /\ new = << n + 1 >>
         \/ /\ IsPart(s, seq) /\ s.number \notin {1, s.total}
            /\ new = IF Len(old) + 1 = s.number THEN Append(old, n + 1) ELSE old
         \/ IsPart(s, seq) /\ s.number = s.total /\ new = << >>
<1> DEFINE buffer == incoming_sentences[seq]
           after == incoming_sentences'[seq]
           old == LinesOf(buffer)
           new == LinesOf(after)
<1>1. TypeOK /\ HeardOK /\ n = line_number /\ buffer \in Seq(Sentence)
  BY DEF Inductive, TypeOK, HeardOK
<1>2. \/ ~ IsPart(s, seq) /\ after = buffer
      \/ IsPart(s, seq) /\ s.number = 1 /\ after = << s >>
      \/ /\ IsPart(s, seq) /\ s.number \notin {1, s.total}
         /\ after = IF Len(buffer) + 1 = s.number THEN Append(buffer, s) ELSE buffer
      \/ IsPart(s, seq) /\ s.number = s.total /\ after = << >>
  BY <1>1, AddLineBuffer
<1>3. IsPart(s, seq) => s \in Sentence /\ s.line_number = n + 1
  <2>1. s = NoSentence \/ (Created(s) /\ s.line_number = n + 1)
    BY <1>1, HearLine
  <2> QED
    BY <2>1 DEF IsPart, Created
<1> HIDE DEF buffer, after
<1>4. Len(old) = Len(buffer)
  BY <1>1, LinesOfType
<1>5. IsPart(s, seq) => LinesOf(Append(buffer, s)) = Append(old, n + 1)
  <2> SUFFICES ASSUME IsPart(s, seq) PROVE LinesOf(Append(buffer, s)) = Append(old, n + 1)
    OBVIOUS
  <2> DEFINE all == Append(buffer, s)
             more == Append(old, n + 1)
  <2>1. /\ Len(buffer) \in Nat /\ all \in Seq(Sentence)
        /\ DOMAIN all = 1 .. Len(buffer) + 1
        /\ \A i \in 1 .. Len(buffer) : all[i] = buffer[i]
        /\ all[Len(buffer) + 1] = s
    BY <1>1, <1>3
  <2> HIDE DEF all
  <2>2. LinesOf(all) = [i \in 1 .. Len(buffer) + 1 |-> all[i].line_number]
    BY <2>1 DEF LinesOf
  <2>3. /\ old \in Seq(Int)
        /\ \A i \in 1 .. Len(buffer) : old[i] = buffer[i].line_number
    BY <1>1, LinesOfType
  <2> HIDE DEF old
  <2>4. /\ more = [i \in 1 .. Len(buffer) + 1 |-> more[i]]
        /\ \A i \in 1 .. Len(buffer) : more[i] = old[i]
        /\ more[Len(buffer) + 1] = n + 1
    BY <1>4, <2>1, <2>3
  <2>5. \A i \in 1 .. Len(buffer) + 1 : i \in 1 .. Len(buffer) \/ i = Len(buffer) + 1
    BY <2>1
  <2> HIDE DEF more
  <2>6. \A i \in 1 .. Len(buffer) + 1 : more[i] = all[i].line_number
    BY <1>3, <2>1, <2>3, <2>4, <2>5
  <2> QED
    BY <2>2, <2>4, <2>6 DEF more, all, old
<1>6. LinesOf(<< s >>) = << s.line_number >> /\ LinesOf(<< >>) = << >>
  BY DEF LinesOf
<1> HIDE DEF old
<1>7. \/ ~ IsPart(s, seq) /\ new = old
      \/ IsPart(s, seq) /\ s.number = 1 /\ new = << n + 1 >>
      \/ /\ IsPart(s, seq) /\ s.number \notin {1, s.total}
         /\ new = IF Len(old) + 1 = s.number THEN Append(old, n + 1) ELSE old
      \/ IsPart(s, seq) /\ s.number = s.total /\ new = << >>
  <2>1. after = buffer => new = old
    BY DEF old
  <2>2. IsPart(s, seq) /\ after = << s >> => new = << n + 1 >>
    BY <1>3, <1>6
  <2>3. after = << >> => new = << >>
    BY <1>6
  <2>4. IsPart(s, seq) /\ after = Append(buffer, s) => new = Append(old, n + 1)
    BY <1>5
  <2> HIDE DEF new
  <2> QED
    BY <1>2, <1>4, <2>1, <2>2, <2>3, <2>4
<1> QED
  BY <1>7 DEF old, new, buffer, after

LEMMA BufferIsGroupKept ==
  ASSUME Inductive, ReadersOK, NEW line \in Lines, NEW vdm \in BOOLEAN,
         BothRead(line, vdm)
  PROVE  BufferIsGroup'
<1>1. PICK n : n = Len(heard)
  OBVIOUS
<1>2. PICK s : s = Create(line, n + 1)
  OBVIOUS
<1>3. PICK parsed : parsed = [line EXCEPT !.framed = vdm]
  OBVIOUS
<1>4. PICK r : r = PutBare(bare, parsed, n + 1)
  OBVIOUS
<1>5. /\ AddLine(line) /\ n \in Nat /\ n = line_number /\ line_number' = n + 1
      /\ DOMAIN heard = 1 .. n /\ DOMAIN read = 1 .. n
      /\ Grown(heard, read, heard', read', n)
      /\ heard'[n + 1] = s /\ read'[n + 1] = parsed
      /\ parsed \in RawLine
      /\ s = NoSentence \/ (AsRead(s, parsed) /\ s \in Sentence)
      /\ Step(bare, r, parsed, n + 1)
      /\ bare'.groups = r.groups
  BY <1>1, <1>2, <1>3, <1>4, LineRead
<1> SUFFICES ASSUME NEW seq \in SequenceNumbers,
                    LinesOf(incoming_sentences[seq])' # << >>
             PROVE  LineNums(bare.groups[seq])' = LinesOf(incoming_sentences[seq])' <=>
                      ReadAlike(LinesOf(incoming_sentences[seq]), line_number)'
  BY DEF BufferIsGroup
<1> DEFINE nums == LinesOf(incoming_sentences[seq])
           nums2 == LinesOf(incoming_sentences'[seq])
           group == LineNums(bare.groups[seq])
           group2 == LineNums(bare'.groups[seq])
           J(ns) == Alike(heard, read, ns, n)
           J2(ns) == Alike(heard', read', ns, n + 1)
           P == IsPartLine(parsed, seq)
           C == IsPart(s, seq)
           InGroup == group # << >> /\ Len(group) + 1 = parsed.number
<1>6. ReadAlike(LinesOf(incoming_sentences[seq]), line_number)' <=> J2(nums2)
  <2>1. (ReadAlike(nums, line_number))' <=> Alike(heard', read', nums', line_number')
    BY DEF ReadAlike, PythonOnly, Alike, Alone
  <2> QED
    BY <1>5, <2>1
<1>7. nums # << >> => (group = nums <=> J(nums))
  BY <1>5, AlikeIsRead DEF ReadersOK, BufferIsGroup
<1>8. /\ nums \in Seq(1 .. n)
      /\ nums # << >> => heard[nums[Len(nums)]].seq = seq /\ nums[Len(nums)] \in 1 .. n
                         /\ heard[nums[Len(nums)]] # NoSentence
  <2>1. /\ nums \in Seq(1 .. n)
        /\ \A i \in DOMAIN nums : heard[nums[i]].seq = seq /\ heard[nums[i]] \in Sentence
    <3>1. incoming_sentences[seq] \in Seq(Sentence)
      BY DEF Inductive, TypeOK
    <3>2. \A i \in DOMAIN incoming_sentences[seq] : incoming_sentences[seq][i] \in Sentence
      BY <3>1
    <3>3. DOMAIN nums = DOMAIN incoming_sentences[seq]
      BY DEF LinesOf
    <3> HIDE DEF nums
    <3>4. /\ nums \in Seq(1 .. n)
          /\ \A i \in DOMAIN nums : /\ heard[nums[i]] = incoming_sentences[seq][i]
                                    /\ incoming_sentences[seq][i].seq = seq
      BY <1>5, BufferNums DEF nums
    <3> QED
      BY <3>2, <3>3, <3>4
  <2> HIDE DEF nums
  <2>2. nums # << >> => Len(nums) \in DOMAIN nums /\ nums[Len(nums)] \in 1 .. n
    <3>1. nums \in Seq(1 .. n) /\ n \in Nat
      BY <1>5, <2>1
    <3> QED
      BY <3>1
  <2> QED
    BY <2>1, <2>2, SentenceIsNotNull
<1>9. /\ group \in Seq(1 .. n)
      /\ ~ P => group2 = group
      /\ P /\ parsed.number = 1 => group2 = << n + 1 >>
      /\ P /\ parsed.number # 1 => IF InGroup
                                   THEN \/ group2 = Append(group, n + 1)
                                        \/ parsed.number = parsed.total /\ group2 = << >>
                                   ELSE group2 = group
  <2>1. bare \in BareState /\ GroupRead(bare.groups[seq])
    BY DEF ReadersOK
  <2>2. \A i \in DOMAIN bare.groups[seq] : bare.groups[seq][i].line_num \in 1 .. n
    BY <1>5, <2>1 DEF GroupRead
  <2>3. /\ LineNums(bare.groups[seq]) \in Seq(1 .. n)
        /\ GroupGoes(LineNums(bare.groups[seq]), LineNums(r.groups[seq]), parsed, seq, n)
    <3>1. n \in Nat /\ parsed \in RawLine /\ Step(bare, r, parsed, n + 1)
      BY <1>5
    <3> QED
      BY <2>1, <2>2, <3>1, GroupMoves
  <2>4. group2 = LineNums(r.groups[seq])
    BY <1>5
  <2> QED
    BY <2>3, <2>4 DEF GroupGoes
<1>10. \/ ~ C /\ nums2 = nums
       \/ C /\ s.number = 1 /\ nums2 = << n + 1 >>
       \/ /\ C /\ s.number \notin {1, s.total}
          /\ nums2 = IF Len(nums) + 1 = s.number THEN Append(nums, n + 1) ELSE nums
       \/ C /\ s.number = s.total /\ nums2 = << >>
  BY <1>1, <1>2, <1>5, BufferMoves
<1>11. /\ C => /\ s # NoSentence /\ s.number = parsed.number /\ s.total = parsed.total
               /\ (P <=> parsed.framed)
       /\ P /\ ~ C => s = NoSentence
       /\ P => parsed.framed /\ parsed.total # 1 /\ parsed.seq = << seq >>
  <2>1. s # NoSentence => /\ s.number = parsed.number /\ s.total = parsed.total
                          /\ s.total \in Nat \ {0}
                          /\ parsed.framed => (s.seq = seq <=> parsed.seq = << seq >>)
    <3>1. s # NoSentence => s = NoSentence \/ Created(s)
      <4>1. TypeOK /\ HeardOK
        BY DEF Inductive
      <4> QED
        BY <1>2, <1>5, <4>1, HearLine
    <3> QED
      BY <1>5, <3>1 DEF AsRead, Created, kMaxSentences
  <2>2. parsed.framed \in BOOLEAN
    BY <1>5 DEF RawLine
  <2> QED
    BY <2>1, <2>2 DEF IsPart, IsPartLine
<1>12. /\ J2(<< n + 1 >>) <=> parsed.framed
       /\ J2(Append(nums, n + 1)) <=> J(nums) /\ parsed.framed
  BY <1>5, <1>8, AlikeStarted, AlikeAppended
<1> DEFINE Disturbs == P /\ ~ C /\ parsed.number \in {1, Len(nums) + 1}
<1>13. nums # << >> => (J2(nums) <=> J(nums) /\ ~ Disturbs)
  <2> SUFFICES ASSUME nums # << >> PROVE J2(nums) <=> J(nums) /\ ~ Disturbs
    OBVIOUS
  <2>1. J2(nums) <=> /\ J(nums)
                     /\ Alone(heard', read', n + 1)
                        /\ parsed.seq = read[nums[Len(nums)]].seq
                          => parsed.number \notin {1, Len(nums) + 1}
    BY <1>5, <1>8, AlikeGoesOn
  <2>2. Alone(heard', read', n + 1) <=> parsed.framed /\ parsed.total # 1 /\ s = NoSentence
    BY <1>5 DEF Alone
  <2>3. J(nums) => read[nums[Len(nums)]].seq = << seq >>
    <3> SUFFICES ASSUME J(nums) PROVE read[nums[Len(nums)]].seq = << seq >>
      OBVIOUS
    <3> DEFINE last == nums[Len(nums)]
    <3>1. last \in 1 .. n /\ heard[last] # NoSentence /\ heard[last].seq = seq
      BY <1>8
    <3>2. Len(nums) \in DOMAIN nums
      <4> HIDE DEF nums
      <4> QED
        BY <1>8
    <3>3. read[last].framed
      BY <3>2 DEF Alike
    <3>4. AsRead(heard[last], read[last])
      BY <1>5, <3>1 DEF ReadersOK
    <3> QED
      BY <3>1, <3>3, <3>4 DEF AsRead
  <2>4. parsed.framed /\ parsed.total # 1 /\ s = NoSentence /\ parsed.seq = << seq >>
          <=> P /\ ~ C
    BY <1>11 DEF IsPartLine, IsPart
  <2> HIDE DEF J, J2, nums, P, C
  <2> QED
    BY <2>1, <2>2, <2>3, <2>4
<1>14. ASSUME NEW a \in Seq(1 .. n), NEW b \in Seq(1 .. n)
       PROVE  /\ a # Append(b, n + 1) /\ Append(a, n + 1) # b
              /\ Append(a, n + 1) = Append(b, n + 1) <=> a = b
              /\ << n + 1 >> # a /\ << >> # Append(a, n + 1)
  <2>1. n \in Nat
    BY <1>5
  <2> QED
    BY <1>14, <2>1, NumsDiffer
<1>15. /\ parsed.number \in Int /\ Len(nums) \in Nat /\ Len(group) \in Nat
       /\ << >> \in Seq(1 .. n)
  BY <1>5, <1>8, <1>9 DEF RawLine
<1> HIDE DEF nums, nums2, group, group2, J, J2, P, C
<1>16. CASE ~ C /\ nums2 = nums
  <2>1. nums # << >>
    BY <1>16 DEF nums2
  <2>2. group2 = nums <=> group = nums /\ ~ Disturbs
    <3>1. CASE ~ P
      BY <1>9, <3>1
    <3>2. CASE P /\ parsed.number = 1
      BY <1>8, <1>9, <1>14, <1>16, <3>2
    <3>3. CASE P /\ parsed.number # 1
      <4>1. group = nums => (InGroup <=> Disturbs)
        BY <1>15, <1>16, <2>1, <3>3
      <4>2. InGroup => group2 # nums
        BY <1>8, <1>9, <1>14, <2>1, <3>3
      <4>3. ~ InGroup => group2 = group
        BY <1>9, <3>3
      <4> HIDE DEF InGroup, Disturbs
      <4> QED
        BY <4>1, <4>2, <4>3
    <3> QED
      BY <3>1, <3>2, <3>3
  <2>3. group = nums <=> J(nums)
    BY <1>7, <2>1
  <2>4. J2(nums) <=> J(nums) /\ ~ Disturbs
    BY <1>13, <2>1
  <2> HIDE DEF Disturbs
  <2> QED
    BY <1>6, <1>16, <2>2, <2>3, <2>4 DEF nums2, group2
<1>17. CASE C /\ s.number = 1 /\ nums2 = << n + 1 >>
  <2>1. group2 = << n + 1 >> <=> P
    BY <1>9, <1>11, <1>14, <1>17
  <2> QED
    BY <1>6, <1>11, <1>12, <1>17, <2>1 DEF nums2, group2
<1>18. CASE /\ C /\ s.number \notin {1, s.total}
            /\ Len(nums) + 1 = s.number /\ nums2 = Append(nums, n + 1)
  <2>1. nums # << >>
    <3>1. nums = << >> => Len(nums) = 0
      OBVIOUS
    <3> QED
      BY <1>11, <1>18, <3>1
  <2>2. group2 = Append(nums, n + 1) <=> group = nums /\ P
    <3>1. CASE ~ P
      BY <1>8, <1>9, <1>14, <3>1
    <3>2. CASE P
      <4>1. group = nums => InGroup
        BY <1>11, <1>18, <2>1
      <4>2. InGroup => group2 = Append(group, n + 1)
        BY <1>9, <1>11, <1>18, <3>2
      <4>3. ~ InGroup => group2 = group
        BY <1>9, <1>11, <1>18, <3>2
      <4> HIDE DEF InGroup
      <4> QED
        BY <1>8, <1>9, <1>14, <3>2, <4>1, <4>2, <4>3
    <3> QED
      BY <3>1, <3>2
  <2>3. group = nums <=> J(nums)
    BY <1>7, <2>1
  <2> QED
    BY <1>6, <1>11, <1>12, <1>18, <2>2, <2>3 DEF nums2, group2
<1>19. CASE /\ C /\ s.number \notin {1, s.total}
            /\ Len(nums) + 1 # s.number /\ nums2 = nums
  <2>1. nums # << >>
    BY <1>19 DEF nums2
  <2>2. group2 = nums <=> group = nums
    <3>1. CASE ~ P
      BY <1>9, <3>1
    <3>2. CASE P
      <4>1. group = nums => ~ InGroup
        BY <1>11, <1>19
      <4>2. InGroup => group2 = Append(group, n + 1)
        BY <1>9, <1>11, <1>19, <3>2
      <4>3. ~ InGroup => group2 = group
        BY <1>9, <1>11, <1>19, <3>2
      <4> HIDE DEF InGroup
      <4> QED
        BY <1>8, <1>9, <1>14, <4>1, <4>2, <4>3
    <3> QED
      BY <3>1, <3>2
  <2>3. group = nums <=> J(nums)
    BY <1>7, <2>1
  <2>4. J2(nums) <=> J(nums)
    BY <1>13, <1>19, <2>1
  <2> QED
    BY <1>6, <1>19, <2>2, <2>3, <2>4 DEF nums2, group2
<1>20. CASE nums2 = << >>
  BY <1>20 DEF nums2
<1> QED
  BY <1>10, <1>16, <1>17, <1>18, <1>19, <1>20

LEMMA GroupsStayRead ==
  ASSUME Inductive, ReadersOK, NEW line \in Lines, NEW vdm \in BOOLEAN,
         BothRead(line, vdm), NEW seq \in SequenceNumbers
  PROVE  GroupRead(bare.groups[seq])'
<1>1. PICK n : n = Len(heard)
  OBVIOUS
<1>2. PICK parsed : parsed = [line EXCEPT !.framed = vdm]
  OBVIOUS
<1>3. PICK r : r = PutBare(bare, parsed, n + 1)
  OBVIOUS
<1>4. /\ n \in Nat /\ DOMAIN read = 1 .. n /\ DOMAIN read' = 1 .. n + 1
      /\ \A k \in 1 .. n : read'[k] = read[k]
      /\ read'[n + 1] = parsed /\ parsed \in RawLine
      /\ Step(bare, r, parsed, n + 1)
      /\ bare'.groups = r.groups
  BY <1>1, <1>2, <1>3, LineRead DEF Grown
<1> DEFINE group == bare.groups[seq]
           part == [line |-> parsed, line_num |-> n + 1]
           Read(g) == \A i \in DOMAIN g : /\ g[i].line_num \in 1 .. n + 1
                                          /\ g[i].line = read'[g[i].line_num]
<1>5. group \in Seq(Part) /\ GroupRead(group)
  BY DEF ReadersOK, BareState
<1>6. part \in Part /\ part.line_num = n + 1 /\ part.line = parsed
  BY <1>4 DEF Part
<1>7. bare'.groups[seq] \in {group, << part >>, Append(group, part), << >>}
  BY <1>4 DEF Step
<1> HIDE DEF part, group
<1>8. Read(group)
  BY <1>4, <1>5 DEF GroupRead
<1>9. Read(<< part >>) /\ Read(<< >>)
  <2>1. \A i \in DOMAIN << part >> : << part >>[i] = part
    OBVIOUS
  <2>2. n + 1 \in 1 .. n + 1 /\ DOMAIN << >> = {}
    BY <1>4
  <2> QED
    BY <1>4, <1>6, <2>1, <2>2
<1>10. Read(Append(group, part))
  <2>1. /\ DOMAIN Append(group, part) = DOMAIN group \cup {Len(group) + 1}
        /\ \A i \in DOMAIN group : Append(group, part)[i] = group[i]
        /\ Append(group, part)[Len(group) + 1] = part
    BY <1>5, <1>6, AppendKeeps
  <2>2. n + 1 \in 1 .. n + 1
    BY <1>4
  <2> QED
    BY <1>4, <1>6, <1>8, <2>1, <2>2
<1>11. Read(bare'.groups[seq])
  <2> HIDE DEF Read
  <2> QED
    BY <1>7, <1>8, <1>9, <1>10
<1> QED
  BY <1>4, <1>11 DEF GroupRead

(* A message of lines both read alike comes out of BareQueue as well. *)
LEMMA BothFinish ==
  ASSUME Inductive, ReadersOK, MessagesAreCoherent', NEW line \in Lines,
         NEW vdm \in BOOLEAN, BothRead(line, vdm),
         NEW m \in Message, Output' = Append(Output, m),
         Alike(heard', read', m.lines, Last(m.lines)),
         m.body \notin DecodeErrors
  PROVE  Has(bare'.ready, Decoded(m.lines, m.body))
<1>1. PICK n : n = Len(heard)
  OBVIOUS
<1>2. PICK s : s = Create(line, n + 1)
  OBVIOUS
<1>3. PICK parsed : parsed = [line EXCEPT !.framed = vdm]
  OBVIOUS
<1>4. PICK r : r = PutBare(bare, parsed, n + 1)
  OBVIOUS
<1>5. /\ AddLine(line) /\ n \in Nat /\ n = line_number
      /\ DOMAIN heard = 1 .. n /\ DOMAIN read = 1 .. n
      /\ DOMAIN heard' = 1 .. n + 1
      /\ Grown(heard, read, heard', read', n)
      /\ heard'[n + 1] = s /\ read'[n + 1] = parsed
      /\ parsed \in RawLine
      /\ s = NoSentence \/ AsRead(s, parsed)
      /\ Step(bare, r, parsed, n + 1)
      /\ bare'.ready = r.ready
  BY <1>1, <1>2, <1>3, <1>4, LineRead
<1> DEFINE lines == m.lines
           last == Len(lines)
           part == [line |-> parsed, line_num |-> n + 1]
<1>6. part \in Part /\ part.line = parsed /\ part.line_num = n + 1
  BY <1>5 DEF Part
<1>7. lines \in Seq(Int) /\ m.body \in Seq(Chunks)
  BY DEF Message
<1>8. Coherent(heard', m)
  <2>1. TypeOK
    BY DEF Inductive
  <2>2. Output \in Seq(Message)
    BY <2>1, OutputType
  <2>3. Output'[Len(Output) + 1] = m /\ Len(Output) + 1 \in DOMAIN Output'
    BY <2>2, AppendKeeps
  <2> QED
    BY <2>3 DEF MessagesAreCoherent
<1>9. \/ lines = << n + 1 >>
      \/ \E seq \in SequenceNumbers :
           /\ incoming_sentences[seq] # << >>
           /\ lines = Append(LinesOf(incoming_sentences[seq]), n + 1)
  <2>1. TypeOK
    BY DEF Inductive
  <2>2. Output \in Seq(Message)
    BY <2>1, OutputType
  <2>3. Output' # Output
    <3>1. Len(Append(Output, m)) = Len(Output) + 1 /\ Len(Output) \in Nat
      BY <2>2
    <3> QED
      BY <3>1
  <2>4. PICK x \in Message :
          /\ Output' = Append(Output, x)
          /\ \/ x.lines = << n + 1 >>
             \/ \E seq \in SequenceNumbers :
                  /\ incoming_sentences[seq] # << >>
                  /\ x.lines = Append(LinesOf(incoming_sentences[seq]), n + 1)
    BY <1>1, <1>5, <2>3, AddLineOutput
  <2>5. Append(Output, x)[Len(Output) + 1] = x /\ Append(Output, m)[Len(Output) + 1] = m
    BY <2>2
  <2>6. x = m
    BY <2>4, <2>5
  <2> QED
    BY <2>4, <2>6
<1>10. /\ last >= 1 /\ last \in Nat /\ Len(m.body) = last
       /\ \A i \in 1 .. last : /\ lines[i] \in 1 .. n + 1
                               /\ heard'[lines[i]] # NoSentence
                               /\ heard'[lines[i]].number = i
                               /\ heard'[lines[i]].total = last
                               /\ heard'[lines[i]].seq = heard'[lines[last]].seq
                               /\ m.body[i] = heard'[lines[i]].body[1]
  <2>1. last \in Nat
    BY <1>7
  <2>2. m.body = [i \in 1 .. last |-> heard'[lines[i]].body[1]]
    BY <1>8 DEF Coherent, Bodies
  <2>3. Len(m.body) = last
    BY <2>1, <2>2
  <2>4. /\ last >= 1
        /\ \A i \in 1 .. last : /\ lines[i] \in 1 .. n + 1
                                /\ heard'[lines[i]] # NoSentence
                                /\ heard'[lines[i]].number = i
                                /\ heard'[lines[i]].total = last
                                /\ heard'[lines[i]].seq = heard'[lines[last]].seq
    BY <1>5, <1>8 DEF Coherent
  <2> QED
    BY <2>1, <2>2, <2>3, <2>4
<1> HIDE DEF part
<1>11. \A i \in 1 .. last : m.body[i] = read'[lines[i]].body
  <2> SUFFICES ASSUME NEW i \in 1 .. last PROVE m.body[i] = read'[lines[i]].body
    OBVIOUS
  <2>1. AsRead(heard'[lines[i]], read'[lines[i]])
    <3>1. CASE lines[i] = n + 1
      BY <1>5, <1>10, <3>1
    <3>2. CASE lines[i] \in 1 .. n
      BY <1>5, <1>10, <3>2 DEF Grown, ReadersOK
    <3> QED
      BY <1>5, <1>10, <3>1, <3>2
  <2> QED
    BY <1>10, <2>1 DEF AsRead
<1>12. CASE lines = << n + 1 >>
  <2>1. last = 1 /\ lines[1] = n + 1 /\ 1 \in 1 .. last /\ Last(lines) = n + 1
    BY <1>12 DEF Last
  <2>2. s # NoSentence /\ s.total = 1 /\ m.body[1] = parsed.body
    BY <1>5, <1>10, <1>11, <2>1
  <2>3. parsed.framed
    BY <1>5, <1>12, <2>1, AlikeStarted
  <2>4. m.body = << parsed.body >>
    <3>1. Len(m.body) = 1 /\ m.body \in Seq(Chunks)
      BY <1>7, <1>10, <2>1
    <3> QED
      BY <2>2, <3>1
  <2>5. parsed.total = 1
    BY <1>5, <2>2 DEF AsRead
  <2>6. Has(r.ready, Decoded(<< n + 1 >>, << parsed.body >>))
    BY <1>5, <2>3, <2>4, <2>5 DEF Step
  <2> QED
    BY <1>5, <1>12, <2>4, <2>6
<1>13. ASSUME NEW seq \in SequenceNumbers, incoming_sentences[seq] # << >>,
              lines = Append(LinesOf(incoming_sentences[seq]), n + 1)
       PROVE  Has(bare'.ready, Decoded(lines, m.body))
  <2> DEFINE nums == LinesOf(incoming_sentences[seq])
             group == bare.groups[seq]
             all == Append(group, part)
  <2>1. /\ nums \in Seq(1 .. n) /\ nums # << >>
        /\ \A i \in DOMAIN nums : heard[nums[i]].seq = seq
    <3>1. /\ nums \in Seq(DOMAIN heard)
          /\ nums = << >> <=> incoming_sentences[seq] = << >>
          /\ \A i \in DOMAIN nums : /\ heard[nums[i]] = incoming_sentences[seq][i]
                                    /\ incoming_sentences[seq][i].seq = seq
      BY BufferNums
    <3> HIDE DEF nums
    <3>2. nums \in Seq(1 .. n)
      BY <1>5, <3>1
    <3> QED
      BY <1>13, <3>1, <3>2
  <2>2. /\ last = Len(nums) + 1 /\ Len(nums) \in Nat \ {0}
        /\ lines[last] = n + 1 /\ lines[1] = nums[1] /\ nums[1] \in 1 .. n
        /\ Last(lines) = n + 1
    <3> HIDE DEF nums
    <3>1. lines = Append(nums, n + 1)
      BY <1>13 DEF nums
    <3>2. Len(nums) \in Nat \ {0} /\ nums[1] \in 1 .. n
      BY <1>5, <2>1
    <3>3. /\ Len(Append(nums, n + 1)) = Len(nums) + 1
          /\ Append(nums, n + 1)[Len(nums) + 1] = n + 1
          /\ Append(nums, n + 1)[1] = nums[1]
      BY <2>1, <3>2
    <3> QED
      BY <3>1, <3>2, <3>3 DEF Last
  <2>3. Alike(heard, read, nums, n) /\ parsed.framed
    BY <1>5, <1>13, <2>1, <2>2, AlikeAppended
  <2>4. LineNums(group) = nums
    BY <1>5, <2>1, <2>3, AlikeIsRead DEF ReadersOK, BufferIsGroup
  <2>5. group \in Seq(Part) /\ GroupRead(group)
    BY DEF ReadersOK, BareState
  <2> HIDE DEF group
  <2>6. s # NoSentence /\ s.number = last /\ s.total = last /\ s.seq = seq
    <3>1. 1 \in 1 .. last /\ last \in 1 .. last
      BY <1>10
    <3>2. heard'[lines[1]] = heard[nums[1]]
      BY <1>5, <2>2 DEF Grown
    <3>3. 1 \in DOMAIN nums
      <4> HIDE DEF nums
      <4> QED
        BY <2>1, <2>2
    <3>4. s.seq = seq
      <4>1. heard'[lines[1]].seq = heard'[n + 1].seq
        BY <1>10, <2>2, <3>1
      <4>2. heard[nums[1]].seq = seq
        BY <2>1, <3>3
      <4>3. heard'[n + 1] = s
        BY <1>5
      <4> QED
        BY <3>2, <4>1, <4>2, <4>3
    <3> QED
      BY <1>5, <1>10, <2>2, <3>1, <3>4
  <2>7. IsPartLine(parsed, seq) /\ parsed.number = last /\ parsed.total = last
    BY <1>5, <2>2, <2>3, <2>6 DEF AsRead, IsPartLine
  <2>8. /\ Len(group) = Len(nums)
        /\ LineNums(all) = Append(nums, n + 1)
    <3>1. \A i \in DOMAIN group : group[i].line_num \in DOMAIN read
      BY <2>5 DEF GroupRead
    <3> QED
      BY <1>6, <2>4, <2>5, <3>1, GroupNums
  <2> HIDE DEF nums
  <2>9. InTurn(group, parsed.number) /\ parsed.number # 1
    BY <2>2, <2>5, <2>7, <2>8 DEF InTurn
  <2>10. /\ all \in Seq(Part) /\ Len(all) = last /\ DOMAIN all = 1 .. last
         /\ \A i \in 1 .. Len(nums) : all[i] = group[i]
         /\ all[last] = part
    BY <1>6, <2>2, <2>5, <2>8
  <2> HIDE DEF all
  <2>11. PartBodies(all) = m.body
    <3>1. ASSUME NEW i \in 1 .. last PROVE all[i].line.body = m.body[i]
      <4>1. CASE i = last
        BY <1>5, <1>6, <1>11, <2>2, <2>10, <4>1
      <4>2. CASE i \in 1 .. Len(nums)
        <5>1. i \in DOMAIN group
          BY <2>5, <2>8, <4>2
        <5>2. /\ group[i].line_num \in 1 .. n
              /\ group[i].line = read[group[i].line_num]
          BY <1>5, <2>5, <5>1 DEF GroupRead
        <5>3. lines[i] = group[i].line_num
          <6>1. LineNums(group)[i] = group[i].line_num
            BY <5>1 DEF LineNums
          <6>2. Append(nums, n + 1)[i] = nums[i]
            BY <2>1, <4>2
          <6> QED
            BY <1>13, <2>4, <6>1, <6>2 DEF nums
        <5>4. all[i].line = read[group[i].line_num]
          BY <2>10, <4>2, <5>2
        <5>5. read'[lines[i]] = read[group[i].line_num]
          <6>1. Grown(heard, read, heard', read', n)
            BY <1>5
          <6> QED
            BY <5>2, <5>3, <6>1 DEF Grown
        <5>6. m.body[i] = read'[lines[i]].body
          BY <1>11
        <5> QED
          BY <5>4, <5>5, <5>6
      <4> QED
        BY <2>2, <4>1, <4>2
    <3>2. m.body = [i \in 1 .. last |-> m.body[i]]
      <4>1. m.body \in Seq(Chunks) /\ Len(m.body) = last
        BY <1>7, <1>10
      <4>2. m.body = [i \in 1 .. Len(m.body) |-> m.body[i]]
        BY <4>1
      <4> QED
        BY <4>1, <4>2
    <3> QED
      BY <2>10, <3>1, <3>2 DEF PartBodies
  <2>12. Has(r.ready, Decoded(LineNums(all), PartBodies(all)))
    BY <1>5, <2>7, <2>9, <2>11 DEF Step, all, group, part
  <2> QED
    BY <1>5, <1>13, <2>8, <2>11, <2>12 DEF nums
<1> QED
  BY <1>9, <1>12, <1>13

LEMMA LineKeepsReaders ==
  ASSUME Inductive, ReadersOK, MessagesAreCoherent, MessagesAreCoherent',
         NEW line \in Lines, NEW vdm \in BOOLEAN, BothRead(line, vdm)
  PROVE  ReadersOK'
<1>1. PICK n : n = Len(heard)
  OBVIOUS
<1>2. PICK s : s = Create(line, n + 1)
  OBVIOUS
<1>3. PICK parsed : parsed = [line EXCEPT !.framed = vdm]
  OBVIOUS
<1>4. PICK r : r = PutBare(bare, parsed, n + 1)
  OBVIOUS
<1>5. /\ AddLine(line) /\ n \in Nat
      /\ DOMAIN heard = 1 .. n /\ DOMAIN read = 1 .. n
      /\ DOMAIN heard' = 1 .. n + 1 /\ DOMAIN read' = 1 .. n + 1
      /\ Grown(heard, read, heard', read', n)
      /\ heard'[n + 1] = s /\ read'[n + 1] = parsed
      /\ read' \in Seq(RawLine)
      /\ s = NoSentence \/ AsRead(s, parsed)
      /\ Step(bare, r, parsed, n + 1)
      /\ bare' \in BareState /\ bare'.ready = r.ready
  BY <1>1, <1>2, <1>3, <1>4, LineRead
<1>6. \A k \in DOMAIN heard' : heard'[k] = NoSentence \/ AsRead(heard'[k], read'[k])
  <2> SUFFICES ASSUME NEW k \in 1 .. n + 1
               PROVE  heard'[k] = NoSentence \/ AsRead(heard'[k], read'[k])
    BY <1>5
  <2>1. CASE k = n + 1
    BY <1>5, <2>1
  <2>2. CASE k \in 1 .. n
    BY <1>5, <2>2 DEF Grown, ReadersOK
  <2> QED
    BY <1>5, <2>1, <2>2
<1>7. \A seq \in SequenceNumbers : GroupRead(bare.groups[seq])'
  BY GroupsStayRead
<1>8. BufferIsGroup'
  BY BufferIsGroupKept
<1>9. PythonDecodesToo'
  <2>1. Output \in Seq(Message)
    BY OutputType DEF Inductive
  <2>2. \A j \in DOMAIN bare.ready : j \in DOMAIN bare'.ready /\ bare'.ready[j] = bare.ready[j]
    BY <1>5 DEF Step
  <2> DEFINE Goal(m) ==
               Alike(heard', read', m.lines, Last(m.lines)) /\ m.body \notin DecodeErrors
                 => Has(bare'.ready, Decoded(m.lines, m.body))
  <2>3. ASSUME NEW i \in DOMAIN Output PROVE Goal(Output[i])
    <3> DEFINE m == Output[i]
    <3>1. m \in Message /\ Coherent(heard, m)
      BY <2>1 DEF MessagesAreCoherent
    <3>2. m.lines \in Seq(Int) /\ Len(m.lines) >= 1
          /\ \A x \in 1 .. Len(m.lines) : m.lines[x] \in 1 .. n
      BY <1>5, <3>1 DEF Message, Coherent
    <3> HIDE DEF m
    <3>3. m.lines \in Seq(1 .. n) /\ Last(m.lines) \in 1 .. n
      <4>1. Len(m.lines) \in 1 .. Len(m.lines)
        BY <3>2
      <4>2. Last(m.lines) \in 1 .. n
        BY <3>2, <4>1 DEF Last
      <4>3. m.lines \in Seq(1 .. n)
        BY <3>2, SeqOver
      <4> QED
        BY <4>2, <4>3
    <3>4. Last(m.lines) \in Int /\ Last(m.lines) <= n
      BY <1>5, <3>3
    <3>5. Alike(heard', read', m.lines, Last(m.lines)) <=> ReadAlike(m.lines, Last(m.lines))
      BY <1>5, <3>3, <3>4, AlikeStays, AlikeIsRead
    <3>6. ReadAlike(m.lines, Last(m.lines)) /\ m.body \notin DecodeErrors
            => Has(bare.ready, Decoded(m.lines, m.body))
      BY DEF ReadersOK, PythonDecodesToo, Has, Decoded, m
    <3> QED
      BY <2>2, <3>5, <3>6 DEF Has, m
  <2>4. ASSUME NEW m \in Message, Output' = Append(Output, m) PROVE Goal(m)
    BY <2>4, BothFinish
  <2>5. \A i \in DOMAIN Output' : Goal(Output'[i])
    <3>1. CASE Output' = Output
      BY <2>3, <3>1
    <3>2. ASSUME NEW m \in Message, Output' = Append(Output, m)
          PROVE  \A i \in DOMAIN Output' : Goal(Output'[i])
      <4>1. /\ DOMAIN Output' = DOMAIN Output \cup {Len(Output) + 1}
            /\ \A i \in DOMAIN Output : Output'[i] = Output[i]
            /\ Output'[Len(Output) + 1] = m
        BY <2>1, <3>2, AppendKeeps
      <4>2. Goal(m)
        BY <2>4, <3>2
      <4> HIDE DEF Goal
      <4> QED
        BY <2>3, <4>1, <4>2
    <3> HIDE DEF Goal
    <3> QED
      BY <1>5, <3>1, <3>2, AddLineOutput
  <2> QED
    BY <2>5 DEF PythonDecodesToo, ReadAlike, PythonOnly, Alike, Alone, Has, Decoded
<1> QED
  BY <1>5, <1>6, <1>7, <1>8, <1>9 DEF ReadersOK

LEMMA ReadersStart ==
  ASSUME ReadersInit
  PROVE  ReadersOK
<1>1. /\ incoming_sentences = [seq \in SequenceNumbers |-> << >>]
      /\ messages = << >> /\ delivered = << >> /\ heard = << >> /\ read = << >>
      /\ bare = [groups |-> [id \in SequenceNumbers |-> << >>],
                 ready  |-> << >>,
                 raised |-> FALSE]
  BY DEF ReadersInit, Init, NewBareQueue
<1>2. bare \in BareState
  <2>1. [id \in SequenceNumbers |-> << >>] \in [SequenceNumbers -> Seq(Part)]
    OBVIOUS
  <2> QED
    BY <1>1, <2>1 DEF BareState
<1>3. /\ DOMAIN heard = {} /\ DOMAIN read = DOMAIN heard /\ read \in Seq(RawLine)
      /\ \A seq \in SequenceNumbers : GroupRead(bare.groups[seq])
  BY <1>1 DEF GroupRead
<1>4. BufferIsGroup
  BY <1>1 DEF BufferIsGroup, LinesOf
<1>5. DOMAIN Output = {}
  <2>1. Output = << >>
    BY <1>1 DEF Output, Reverse
  <2> QED
    BY <2>1
<1> QED
  BY <1>2, <1>3, <1>4, <1>5 DEF ReadersOK, PythonDecodesToo

(* The VdmStream of the two runs as it does alone.                         *)
LEMMA ReaderStep ==
  ASSUME [ReadersNext]_readers
  PROVE  [Next]_vars
  BY DEF ReadersNext, BothRead, readers, Next, vars

LEMMA ReadersAreStream == ReadersSpec => Spec
<1>1. ReadersInit => Init
  BY DEF ReadersInit
<1>2. [ReadersNext]_readers => [Next]_vars
  BY ReaderStep
<1> QED
  BY <1>1, <1>2, PTL DEF ReadersSpec, Spec

LEMMA ReadersKept == ReadersSpec => []ReadersOK
<1>1. ReadersInit => ReadersOK
  BY ReadersStart
<1>2. Inductive /\ MessagesAreCoherent /\ MessagesAreCoherent' /\ ReadersOK
        /\ [ReadersNext]_readers => ReadersOK'
  <2> SUFFICES ASSUME Inductive, MessagesAreCoherent, MessagesAreCoherent', ReadersOK,
                      [ReadersNext]_readers
               PROVE  ReadersOK'
    OBVIOUS
  <2>1. ASSUME NEW line \in Lines, NEW vdm \in BOOLEAN, BothRead(line, vdm)
        PROVE  ReadersOK'
    BY <2>1, LineKeepsReaders
  <2>2. ASSUME UNCHANGED << bare, read, heard, incoming_sentences, line_number >>,
               Output' = Output
        PROVE  ReadersOK'
    BY <2>2 DEF ReadersOK, GroupRead, BufferIsGroup, PythonDecodesToo, ReadAlike, PythonOnly
  <2>3. CASE PopOldestMessage /\ UNCHANGED << bare, read >>
    <3>1. Output' = Output
      BY <2>3, PopOutput DEF Inductive
    <3> QED
      BY <2>2, <2>3, <3>1 DEF PopOldestMessage
  <2>4. CASE UNCHANGED readers
    <3>1. Output' = Output
      BY <2>4 DEF readers, vars, Output
    <3> QED
      BY <2>2, <2>4, <3>1 DEF readers, vars
  <2> QED
    BY <2>1, <2>3, <2>4 DEF ReadersNext
<1> QED
  BY <1>1, <1>2, ReadersAreStream, InductiveInvariant, MessagesCoherent, PTL
     DEF ReadersSpec

(* Whatever VdmStream has buffered, BareQueue has in the group of that     *)
(* number, line for line, exactly if no line that only one of the two      *)
(* takes has come between (AddLine in vdm.cpp, put in vdm.py).             *)
THEOREM BufferedInBoth == ReadersSpec => []BufferIsGroup
<1>1. ReadersOK => BufferIsGroup
  BY DEF ReadersOK
<1> QED
  BY <1>1, ReadersKept, PTL

(* Every message VdmStream gives out, of lines both read alike, BareQueue  *)
(* decodes from the very same lines, unless ais.decode refuses its         *)
(* payload.                                                                *)
THEOREM DecodedInBoth == ReadersSpec => []PythonDecodesToo
<1>1. ReadersOK => PythonDecodesToo
  BY DEF ReadersOK
<1> QED
  BY <1>1, ReadersKept, PTL

=============================================================================
