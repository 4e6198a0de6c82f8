---------------------------- MODULE LineAssembly ----------------------------
(***************************************************************************)
(* What NmeaQueue (src/ais/nmea_queue.py) promises whoever puts lines into *)
(* it, whatever the types of the lines and however they are grouped: a     *)
(* line waits, is of no use, or completes a message with some that wait;   *)
(* messages come out in the order they were completed.                     *)
(*                                                                         *)
(* A line is its number, a message the numbers of its lines.               *)
(***************************************************************************)
EXTENDS Integers, Sequences, Functions

VARIABLES
  now,   \* number of lines so far
  pool,  \* lines that wait
  out    \* messages, in the order they were completed

vars == << now, pool, out >>

Init ==
  /\ now = 0
  /\ pool = {}
  /\ out = << >>

Increasing(lines) == \A i, j \in DOMAIN lines : i < j => lines[i] < lines[j]

NoUse ==
  /\ now' = now + 1
  /\ UNCHANGED << pool, out >>

(* Only a line that waits itself may cost some of what was waiting. *)
Wait ==
  /\ now' = now + 1
  /\ \E lost \in SUBSET pool : pool' = (pool \ lost) \cup {now + 1}
  /\ UNCHANGED out

Complete ==
  /\ now' = now + 1
  /\ \E k \in 0 .. now : \E prior \in [1 .. k -> pool] :
       /\ Increasing(prior)
       /\ out' = Append(out, Append(prior, now + 1))
       /\ pool' = pool \ Range(prior)

Next == NoUse \/ Wait \/ Complete

Spec == Init /\ [][Next]_vars

-----------------------------------------------------------------------------

(* A line is in at most one message, and no longer waits when it is. *)
UsedOnce ==
  /\ \A i, j \in DOMAIN out : i # j => Range(out[i]) \cap Range(out[j]) = {}
  /\ \A i \in DOMAIN out : Range(out[i]) \cap pool = {}

LastOf(lines) == lines[Len(lines)]

(* Messages are in the order of their last lines, and the lines of each in *)
(* theirs.                                                                 *)
InOrder ==
  /\ \A i, j \in DOMAIN out : i < j => LastOf(out[i]) < LastOf(out[j])
  /\ \A i \in DOMAIN out : Increasing(out[i])

=============================================================================
