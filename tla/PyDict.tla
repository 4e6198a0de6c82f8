------------------------------- MODULE PyDict -------------------------------
(***************************************************************************)
(* The dictionary ais.decode makes of a message, as data: the sequence of  *)
(* DictSafeSetItem and PyList_SetItem calls of src/src/libais/ais_py.cpp.  *)
(*                                                                         *)
(* A member of a message is known by the bits the constructor reads it     *)
(* from, and a key by the member it is named after: an entry says that the *)
(* keys of the members in "key" show the members in "bits".  Members next  *)
(* to each other that are shown under their own names share an entry; how  *)
(* a value is written (int, float, None where it is out of its range) is   *)
(* left out.                                                               *)
(***************************************************************************)
EXTENDS AisConstructors

Entry ==
  [in |-> << >>,          \* path: << list, slot >>, outermost first
   list |-> "",           \* the name of a list, "" for a plain value
   key |-> {}, bits |-> {},
   size |-> 0,            \* PyList_New(size)
   filled |-> 0,          \* slots that were set, from the first
   released |-> TRUE]     \* Py_DECREF once the dict holds the list

(* DictSafeSetItem with another member than the key says. *)
As(key, bits) == << [Entry EXCEPT !.key = key, !.bits = bits] >>

(* The members read from bits a to b, each under its own name. *)
Own(a, b) == As(a .. b, a .. b)

Inside(list, slot, entries) ==
  [i \in DOMAIN entries |->
     [entries[i] EXCEPT !.in = << << list, slot >> >> \o entries[i].in]]

(* A list with a dict, a tuple or a number in each of the first slots. *)
ListOf(name, size, items) ==
  << [Entry EXCEPT !.list = name, !.size = size, !.filled = Len(items)] >>
  \o FlattenSeq([i \in DOMAIN items |-> Inside(name, i, items[i])])

(* A list that has a value in every slot. *)
FullList(name, items) == ListOf(name, Len(items), items)

(* n numbers of len bits each, from "at" on, every "step" bits. *)
Numbers(n, at, len, step) ==
  [i \in 1 .. n |-> Own(at + step * (i - 1), at + step * (i - 1) + len - 1)]

(* The references of the lists stay with the message's dict for good. *)
Leaked(entries) ==
  [i \in DOMAIN entries |->
     [entries[i] EXCEPT !.released = entries[i].list = ""]]

(* ais_msg_to_pydict *)
Header == Own(0, 37)

-----------------------------------------------------------------------------
(* The dict as it is in the end. *)

(* A later list of the same name takes the place of an earlier one, with   *)
(* all that is in it.                                                      *)
ReplacedBy(earlier, later) ==
  LET depth == Len(later.in) IN
  /\ later.list # ""
  /\ Len(earlier.in) > depth
  /\ SubSeq(earlier.in, 1, depth) = later.in
  /\ earlier.in[depth + 1][1] = later.list

(* Keys of an entry that are set again by later ones. *)
SetAgain(entries, i) ==
  UNION {entries[j].key : j \in {j \in i + 1 .. Len(entries) : entries[j].in = entries[i].in}}

(* The members that are in the dict, entry by entry. *)
Visible(entries) ==
  LET kept == {i \in DOMAIN entries :
                 \A j \in i + 1 .. Len(entries) : ~ ReplacedBy(entries[i], entries[j])}
      members(i) == IF entries[i].key = entries[i].bits
                    THEN entries[i].key \ SetAgain(entries, i)
                    ELSE entries[i].bits
  IN {members(i) : i \in kept}

=============================================================================
