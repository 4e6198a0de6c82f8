------------------------------ MODULE MCAisFeed ------------------------------
(***************************************************************************)
(* Two stations.  The first sends two two-line messages on the same        *)
(* sequence number and channel; the second a three-line message on another *)
(* number and a single line.                                               *)
(***************************************************************************)
EXTENDS AisFeed

CONSTANTS x, y

Two == [talker |-> "AIVDM", total |-> 2, seq |-> <<1>>, channel |-> "A"]
Three == [talker |-> "BSVDM", total |-> 3, seq |-> <<2>>, channel |-> "A"]
One == [talker |-> "BSVDM", total |-> 1, seq |-> << >>, channel |-> "B"]

MCTalkers == {"AIVDM", "BSVDM"}
MCStations == {x, y}
MCSchedule == (x :> << Two, Two >>) @@ (y :> << Three, One >>)

MCChunks == {<< x, m, p >> : m \in {1, 2}, p \in {1, 2}}
              \cup {<< y, 1, p >> : p \in 1 .. 3} \cup {<< y, 2, 1 >>}
MCCharsIn == [c \in MCChunks |-> 56]
MCLines == {LineOf(c[1], [message |-> c[2], part |-> c[3]]) : c \in MCChunks}

=============================================================================
