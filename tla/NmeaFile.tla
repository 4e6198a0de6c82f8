------------------------------ MODULE NmeaFile ------------------------------
(***************************************************************************)
(* ais.io.NmeaFile (src/ais/io.py): a file-like object with an NmeaQueue.  *)
(* A call of next() puts line after line into the queue until a message    *)
(* comes out of it.  It may end in an exception of put, after which the    *)
(* caller may call again; at the end of the file in StopIteration.         *)
(*                                                                         *)
(* The file is external: it has some lines and then ends, for good.        *)
(***************************************************************************)
EXTENDS NmeaQueue

VARIABLES
  at,      \* where next() is: "caller", "put", "get"
  file,    \* "open", "ended", "closed"
  has_queue,  \* self._queue is not None: until __exit__
  result   \* of the last call: "message", "StopIteration", "exception"

fileVars == << vars, at, file, has_queue, result >>

FileInit ==
  /\ Init
  /\ at = "caller"
  /\ file = "open"
  /\ has_queue = TRUE
  /\ result = "none"

CallNext ==
  /\ at = "caller"
  /\ at' = "put"
  /\ result' = "none"
  /\ UNCHANGED << vars, file, has_queue >>

EndCall(how) == at' = "caller" /\ result' = how

(* self._queue.put(next(self._fobj)) *)
PutNextLine ==
  /\ at = "put" /\ has_queue /\ file = "open"
  /\ Put
  /\ IF raised' THEN EndCall("exception") ELSE at' = "get" /\ UNCHANGED result
  /\ UNCHANGED << file, has_queue >>

(* Mutant of Stop: the end of the file is taken for an empty line. *)
StopLater ==
  /\ at = "put" /\ has_queue /\ file \in {"open", "ended"}
  /\ file' = "ended"
  /\ at' = "get"
  /\ UNCHANGED << vars, has_queue, result >>

(* StopIteration of the file: what still waits in the queue is not looked  *)
(* at.                                                                     *)
Stop ==
  /\ at = "put" /\ has_queue /\ file \in {"open", "ended"}
  /\ file' = "ended"
  /\ EndCall("StopIteration")
  /\ UNCHANGED << vars, has_queue >>

(* No attribute put of None; a read of a closed file. *)
Refuse ==
  /\ at = "put"
  /\ ~ has_queue \/ file = "closed"
  /\ EndCall("exception")
  /\ UNCHANGED << vars, file, has_queue >>

ReturnMessage ==
  /\ at = "get"
  /\ Get
  /\ EndCall("message")
  /\ UNCHANGED << file, has_queue >>

(* Mutant of ReadOn: the next line is put whether there is a message. *)
ReadAhead ==
  /\ at = "get"
  /\ at' = "put"
  /\ UNCHANGED << vars, file, has_queue, result >>

(* while not msg *)
ReadOn ==
  /\ at = "get" /\ queue = << >>
  /\ at' = "put"
  /\ UNCHANGED << vars, file, has_queue, result >>

(* close() *)
Close ==
  /\ at = "caller"
  /\ file' = "closed"
  /\ UNCHANGED << vars, at, has_queue, result >>

(* __exit__ *)
Exit ==
  /\ at = "caller"
  /\ has_queue' = FALSE
  /\ file' = "closed"
  /\ UNCHANGED << vars, at, result >>

Reading == PutNextLine \/ Stop \/ Refuse \/ ReturnMessage \/ ReadOn

FileNext == CallNext \/ Reading \/ Close \/ Exit

(* A call, once made, runs to its end in the thread of its caller. *)
FileSpec == FileInit /\ [][FileNext]_fileVars /\ WF_fileVars(Reading)

-----------------------------------------------------------------------------

(* A message is returned by the call that has read its last line, before   *)
(* any other line is read: a reader of a live stream is never behind, and  *)
(* the end of the file loses no message that was complete.                 *)
ReturnedAtOnce ==
  [][Len(taken') > Len(taken) =>
       /\ at = "get"
       /\ Last(Last(taken').line_nums) = line_num]_fileVars

(* Every call of next() on a file that ends comes back, with a message, an *)
(* exception or StopIteration.                                             *)
CallsEnd == at # "caller" ~> at = "caller"

(* A line that is part of nothing larger, and was put, is given to the     *)
(* caller, whatever waits in the queues, whatever was raised before and    *)
(* whatever the caller does next (vdm.py: "passes non AIS VDM messages     *)
(* through").  Not so the lines on which put itself raises: sentences with *)
(* empty fields their handler cannot convert, and TAG blocks without a     *)
(* checksum.  These are lost, though their text could be passed on.        *)
PassedThrough ==
  \A n \in 1 .. MaxLines :
    (n \in DOMAIN given /\ PassesThrough(n))
      ~> \E i \in DOMAIN taken : taken[i].line_nums = << n >>

=============================================================================
