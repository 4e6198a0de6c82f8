-------------------------- MODULE AisConstructors --------------------------
(***************************************************************************)
(* What the constructors of several messages share.                        *)
(***************************************************************************)
EXTENDS AisOps, SequencesExt

(* for (size_t i = 0; i < n; i++) *)
Each(n, Calls(_)) == FlattenSeq([i \in 1 .. n |-> Calls(i - 1)])

(* Mutant of TextAndSpare: bits after the last character are left. *)
TextOnly(p, at) == Text(at, ((NumBits(p) - at) \div 6) * 6)

(* Text up to the last whole character, spare bits after it. *)
TextAndSpare(p, at) ==
  LET text_bits == ((NumBits(p) - at) \div 6) * 6
      spare_at == at + text_bits
  IN
  Text(at, text_bits)
  \o IF NumBits(p) > spare_at
     THEN Reads(<< <<spare_at, NumBits(p) - spare_at>> >>)
     ELSE << >>

(* The header of the binary messages, ahead of the constructor of the      *)
(* application.  Without it dac and fi stay 0.                             *)
Ais6Read(p) == HeaderRead(p) /\ NumBits(p) >= 88 /\ NumBits(p) - 46 \in 0 .. 952
Ais8Read(p) == HeaderRead(p) /\ NumBits(p) - 56 \in 0 .. 952

(* Like AisMsg they return into the constructor derived from them.         *)
Ais6(p) ==
  CASE Ais6Read(p) ->
         Id(6) \o SeekTo(38)
         \o Reads(<< <<38, 2>>, <<40, 30>>, <<70, 1>>, <<71, 1>>, <<72, 10>>,
                     <<82, 6>> >>)
    [] HeaderRead(p) /\ ~ Ais6Read(p) -> SetStatus("AIS_ERR_BAD_BIT_COUNT")
    [] ~ HeaderRead(p) -> << >>

Ais8(p) ==
  CASE Ais8Read(p) ->
         Id(8) \o SeekTo(38) \o Reads(<< <<38, 2>>, <<40, 10>>, <<50, 6>> >>)
    [] HeaderRead(p) /\ ~ Ais8Read(p) -> SetStatus("AIS_ERR_BAD_BIT_COUNT")
    [] ~ HeaderRead(p) -> << >>

(* The application a header gives, and what a constructor asserts of it. *)
Application(p) ==
  IF (p.message_id = 6 /\ Ais6Read(p)) \/ (p.message_id = 8 /\ Ais8Read(p))
  THEN << p.dac, p.fi >>
  ELSE << 0, 0 >>

ApplicationIs(p, dac, fi) == AssertThat(Application(p) = << dac, fi >>)

(* A constructor of an application. *)
Applied(p, dac, fi, length_ok, calls) ==
  ApplicationIs(p, dac, fi) \o Guarded(length_ok, calls)

(* The kind of the i-th sub-message, from 0.  All those after the kinds of *)
(* the payload are of the last of them.                                    *)
Kind(p, i) == p.kinds[IF i < Len(p.kinds) THEN i + 1 ELSE Len(p.kinds)]

=============================================================================
