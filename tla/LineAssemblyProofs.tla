------------------------- MODULE LineAssemblyProofs -------------------------
(***************************************************************************)
(* What LineAssembly keeps, for any number of lines.                       *)
(***************************************************************************)
EXTENDS LineAssembly, TLAPS

(* Only lines that have been are waiting or in a message. *)
Known ==
  /\ now \in Nat
  /\ pool \in SUBSET (1 .. now)
  /\ out \in Seq(Seq(Nat))
  /\ \A i \in DOMAIN out : out[i] # << >> /\ Range(out[i]) \subseteq 1 .. now

Inductive == Known /\ UsedOnce /\ InOrder

-----------------------------------------------------------------------------

(* The message a step completes: the lines that waited and the new one.    *)
LEMMA CompletedMessage ==
  ASSUME NEW n \in Nat, NEW S \in SUBSET (1 .. n), NEW k \in Nat,
         NEW prior \in [1 .. k -> S], Increasing(prior)
  PROVE  LET m == Append(prior, n + 1) IN
         /\ m \in Seq(Nat) /\ m # << >>
         /\ Range(m) = Range(prior) \cup {n + 1}
         /\ Range(prior) \subseteq S
         /\ Increasing(m)
         /\ LastOf(m) = n + 1
<1> DEFINE m == Append(prior, n + 1)
<1>1. /\ prior \in Seq(Nat) /\ Len(prior) = k
  <2>1. prior \in [1 .. k -> Nat]
    <3>1. \A x \in S : x \in Nat
      OBVIOUS
    <3> QED
      BY <3>1
  <2> QED
    BY <2>1
<1>2. /\ m \in Seq(Nat) /\ Len(m) = k + 1 /\ DOMAIN m = 1 .. k + 1
      /\ \A i \in 1 .. k : m[i] = prior[i] /\ prior[i] \in S
      /\ m[k + 1] = n + 1
  BY <1>1
<1> HIDE DEF m
<1>3. m # << >>
  BY <1>2
<1>4. Range(m) = Range(prior) \cup {n + 1}
  <2>1. DOMAIN prior = 1 .. k
    OBVIOUS
  <2>2. 1 .. k + 1 = (1 .. k) \cup {k + 1}
    OBVIOUS
  <2>3. Range(m) = {m[i] : i \in 1 .. k} \cup {m[k + 1]}
    BY <1>2, <2>2, Zenon DEF Range
  <2>4. {m[i] : i \in 1 .. k} = {prior[i] : i \in 1 .. k}
    BY <1>2, Zenon
  <2>5. Range(prior) = {prior[i] : i \in 1 .. k}
    BY <2>1, Zenon DEF Range
  <2> QED
    BY <1>2, <2>3, <2>4, <2>5, Zenon
<1>5. Range(prior) \subseteq S
  BY DEF Range
<1>6. Increasing(m)
  <2> SUFFICES ASSUME NEW i \in 1 .. k + 1, NEW j \in 1 .. k + 1, i < j
               PROVE  m[i] < m[j]
    BY <1>2 DEF Increasing
  <2>1. i \in 1 .. k
    OBVIOUS
  <2>2. CASE j \in 1 .. k
    BY <1>2, <2>1, <2>2 DEF Increasing
  <2>3. CASE j = k + 1
    <3>1. m[i] \in 1 .. n
      BY <1>2, <2>1
    <3> QED
      BY <1>2, <2>3, <3>1
  <2> QED
    BY <2>2, <2>3
<1>7. LastOf(m) = n + 1
  BY <1>2 DEF LastOf
<1> QED
  BY <1>2, <1>3, <1>4, <1>5, <1>6, <1>7 DEF m

LEMMA NoUseKeeps == Inductive /\ NoUse => Inductive'
  BY DEF Inductive, Known, UsedOnce, InOrder, NoUse

LEMMA WaitKeeps == Inductive /\ Wait => Inductive'
<1> SUFFICES ASSUME Inductive, Wait PROVE Inductive'
  OBVIOUS
<1>1. PICK lost \in SUBSET pool : pool' = (pool \ lost) \cup {now + 1}
  BY DEF Wait
<1>2. now' = now + 1 /\ out' = out /\ now \in Nat
  BY DEF Wait, Inductive, Known
<1>3. Known'
  BY <1>1, <1>2 DEF Inductive, Known
<1>4. \A i \in DOMAIN out : now + 1 \notin Range(out[i])
  BY <1>2 DEF Inductive, Known
<1>5. UsedOnce'
  BY <1>1, <1>2, <1>4 DEF Inductive, UsedOnce
<1>6. InOrder'
  BY <1>2 DEF Inductive, InOrder
<1> QED
  BY <1>3, <1>5, <1>6 DEF Inductive

LEMMA CompleteKeeps == Inductive /\ Complete => Inductive'
<1> SUFFICES ASSUME Inductive, Complete PROVE Inductive'
  OBVIOUS
<1>1. PICK k \in 0 .. now : \E prior \in [1 .. k -> pool] :
        /\ Increasing(prior)
        /\ out' = Append(out, Append(prior, now + 1))
        /\ pool' = pool \ Range(prior)
  BY DEF Complete
<1>2. PICK prior \in [1 .. k -> pool] :
        /\ Increasing(prior)
        /\ out' = Append(out, Append(prior, now + 1))
        /\ pool' = pool \ Range(prior)
  BY <1>1
<1> DEFINE m == Append(prior, now + 1)
<1>3. /\ now \in Nat /\ now' = now + 1 /\ pool \in SUBSET (1 .. now)
      /\ out \in Seq(Seq(Nat))
      /\ \A i \in DOMAIN out : out[i] # << >> /\ Range(out[i]) \subseteq 1 .. now
  BY DEF Complete, Inductive, Known
<1>4. /\ m \in Seq(Nat) /\ m # << >>
      /\ Range(m) = Range(prior) \cup {now + 1}
      /\ Range(prior) \subseteq pool
      /\ Increasing(m)
      /\ LastOf(m) = now + 1
  <2>1. k \in Nat
    BY <1>3
  <2> HIDE DEF m
  <2> QED
    BY <1>2, <1>3, <2>1, CompletedMessage DEF m
<1> HIDE DEF m
<1>5. out' = Append(out, m) /\ pool' = pool \ Range(prior)
  BY <1>2 DEF m
<1>6. /\ out' \in Seq(Seq(Nat))
      /\ DOMAIN out = 1 .. Len(out) /\ DOMAIN out' = 1 .. Len(out) + 1
      /\ Len(out) \in Nat
      /\ \A i \in DOMAIN out : out'[i] = out[i]
      /\ out'[Len(out) + 1] = m
  <2>1. out \in Seq(Seq(Nat)) /\ m \in Seq(Nat)
    BY <1>3, <1>4
  <2> QED
    BY <1>5, <2>1
<1>7. ASSUME NEW i \in DOMAIN out'
      PROVE  (i \in DOMAIN out /\ out'[i] = out[i]) \/ (i = Len(out) + 1 /\ out'[i] = m)
  BY <1>6
<1>8. Known'
  <2>1. Range(m) \subseteq 1 .. now + 1
    <3>1. /\ 1 .. now \subseteq 1 .. now + 1
          /\ now + 1 \in 1 .. now + 1
      BY <1>3
    <3>2. pool \subseteq 1 .. now
      BY <1>3
    <3> QED
      BY <1>4, <3>1, <3>2, Zenon
  <2>2. pool' \in SUBSET (1 .. now')
    <3>1. \A x \in 1 .. now : x \in 1 .. now + 1
      BY <1>3
    <3>2. pool' \subseteq pool /\ now' = now + 1
      BY <1>3, <1>5
    <3> QED
      BY <1>3, <3>1, <3>2
  <2>3. ASSUME NEW i \in DOMAIN out'
        PROVE  out'[i] # << >> /\ Range(out'[i]) \subseteq 1 .. now'
    BY <1>3, <1>4, <1>7, <2>1
  <2> QED
    BY <1>3, <1>6, <2>2, <2>3 DEF Known
<1>9. UsedOnce'
  <2>1. ASSUME NEW i \in DOMAIN out PROVE Range(out[i]) \cap Range(m) = {}
    <3>1. now + 1 \notin Range(out[i])
      BY <1>3
    <3>2. Range(out[i]) \cap pool = {}
      BY DEF Inductive, UsedOnce
    <3> QED
      BY <1>4, <3>1, <3>2
  <2>2. ASSUME NEW i \in DOMAIN out', NEW j \in DOMAIN out', i # j
        PROVE  Range(out'[i]) \cap Range(out'[j]) = {}
    <3>1. CASE i \in DOMAIN out /\ j \in DOMAIN out
      BY <1>6, <2>2, <3>1 DEF Inductive, UsedOnce
    <3>2. CASE i \in DOMAIN out /\ out'[i] = out[i] /\ out'[j] = m
      BY <2>1, <3>2
    <3>3. CASE j \in DOMAIN out /\ out'[j] = out[j] /\ out'[i] = m
      BY <2>1, <3>3
    <3> QED
      BY <1>7, <2>2, <3>1, <3>2, <3>3
  <2>3. ASSUME NEW i \in DOMAIN out' PROVE Range(out'[i]) \cap pool' = {}
    <3>1. CASE out'[i] = out[i] /\ i \in DOMAIN out
      BY <1>5, <3>1 DEF Inductive, UsedOnce
    <3>2. CASE out'[i] = m
      BY <1>3, <1>4, <1>5, <3>2
    <3> QED
      BY <1>7, <2>3, <3>1, <3>2
  <2> QED
    BY <2>2, <2>3 DEF UsedOnce
<1>10. InOrder'
  <2>1. ASSUME NEW i \in DOMAIN out PROVE LastOf(out[i]) \in 1 .. now
    <3>1. out[i] \in Seq(Nat) /\ out[i] # << >>
      BY <1>3
    <3>2. Len(out[i]) \in DOMAIN out[i]
      BY <3>1
    <3> QED
      BY <1>3, <3>2 DEF LastOf, Range
  <2>2. ASSUME NEW i \in DOMAIN out', NEW j \in DOMAIN out', i < j
        PROVE  LastOf(out'[i]) < LastOf(out'[j])
    <3>1. i \in DOMAIN out /\ out'[i] = out[i]
      BY <1>6, <2>2
    <3>2. CASE j \in DOMAIN out
      BY <1>6, <2>2, <3>1, <3>2 DEF Inductive, InOrder
    <3>3. CASE j = Len(out) + 1
      BY <1>3, <1>4, <1>6, <2>1, <3>1, <3>3
    <3> QED
      BY <1>7, <3>2, <3>3
  <2>3. ASSUME NEW i \in DOMAIN out' PROVE Increasing(out'[i])
    BY <1>4, <1>7, <2>3 DEF Inductive, InOrder
  <2> QED
    BY <2>2, <2>3 DEF InOrder
<1> QED
  BY <1>8, <1>9, <1>10 DEF Inductive

(* No line is used twice, and messages and lines keep their order, however *)
(* many lines there are.                                                   *)
THEOREM AssemblyKeepsLines == Spec => [](UsedOnce /\ InOrder)
<1>1. Init => Inductive
  BY DEF Init, Inductive, Known, UsedOnce, InOrder
<1>2. Inductive /\ [Next]_vars => Inductive'
  <2> SUFFICES ASSUME Inductive, [Next]_vars PROVE Inductive'
    OBVIOUS
  <2>1. CASE UNCHANGED vars
    BY <2>1 DEF vars, Inductive, Known, UsedOnce, InOrder
  <2> QED
    BY <2>1, NoUseKeeps, WaitKeeps, CompleteKeeps DEF Next
<1>3. Inductive => UsedOnce /\ InOrder
  BY DEF Inductive
<1> QED
  BY <1>1, <1>2, <1>3, PTL DEF Spec

=============================================================================
