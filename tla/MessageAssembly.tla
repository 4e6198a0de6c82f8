--------------------------- MODULE MessageAssembly ---------------------------
(***************************************************************************)
(* What assembling multi-line messages promises, without saying how the    *)
(* sentences are kept (src/src/libais/vdm.h: "Sentences are assembled into *)
(* messages and output in FIFO order").  There is one pool of sentences,   *)
(* no sequence-number buffers; any of them may be dropped at any line; a   *)
(* message takes its sentences out of the pool.                            *)
(***************************************************************************)
EXTENDS NmeaSentence

CONSTANTS
  Lines,        \* texts that may arrive
  Undecodable   \* bodies that do not decode

VARIABLES
  now,    \* number of lines that have arrived
  pool,   \* sentences that wait for the rest of their message
  queue   \* messages to be collected, the oldest first

vars == << now, pool, queue >>

Init ==
  /\ now = 0
  /\ pool = {}
  /\ queue = << >>

(* The sentence the next line turns out to be, if it is one. *)
Arrivals == {Create(line, now + 1) : line \in Lines} \ {NoSentence}

(* prior, in that order, is everything of s's message but s. *)
Completes(prior, s) ==
  /\ \A i \in DOMAIN prior : /\ prior[i].number = i
                             /\ VerifyInSameMessage(s, prior[i])
  /\ \A i, j \in DOMAIN prior :
       i < j => prior[i].line_number < prior[j].line_number

MessageOf(prior, s) ==
  [body |-> Bodies(prior) \o s.body,
   fill_bits |-> s.fill_bits,
   lines |-> Append([i \in DOMAIN prior |-> prior[i].line_number],
                    s.line_number)]

(* A line is of no use, and may cost some of what was waiting. *)
Drop ==
  /\ now' = now + 1
  /\ pool' \in SUBSET pool
  /\ UNCHANGED queue

(* A sentence that does not end a message waits. *)
Wait ==
  /\ now' = now + 1
  /\ \E s \in Arrivals :
       /\ s.number < s.total
       /\ pool' \in {kept \cup {s} : kept \in SUBSET pool}
  /\ UNCHANGED queue

(* A sentence ends a message: its partners leave the pool with it. *)
Complete ==
  /\ now' = now + 1
  /\ \E s \in Arrivals :
       /\ s.number = s.total
       /\ \E prior \in [1 .. s.total - 1 -> pool] :
            /\ Completes(prior, s)
            /\ MessageOf(prior, s).body \notin Undecodable
            /\ BodySize(MessageOf(prior, s).body) >= 2
            /\ queue' = Append(queue, MessageOf(prior, s))
            /\ pool' \in SUBSET (pool \ Range(prior))

Collect ==
  /\ queue # << >>
  /\ queue' = Tail(queue)
  /\ UNCHANGED << now, pool >>

Next == Drop \/ Wait \/ Complete \/ Collect

Spec == Init /\ [][Next]_vars

=============================================================================
