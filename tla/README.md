# libais in TLA+

Models, model-checking runs and machine-checked proofs of the state-keeping
parts of [libais](https://github.com/schwehr/libais): the readers that put
multi-line AIS messages together, in C++ and in Python, and the decoder that
walks over the bits of a message. `PROJECT.json` lists, for every definition,
the source lines it models; for every run, what it checks; the defects that
would break each property (the operators marked *Mutant of* in the modules);
the hazards the properties are for; and the theorems.

Paths below are those of the repository: `src/libais/vdm.cpp` is the C++
library, `ais/vdm.py` the Python package.

## The system

AIS receivers emit text lines. A line is an NMEA sentence, `!AIVDM,2,1,3,A,...`,
with or without metadata around it; an AIS message is one sentence or up to nine
of them that share a sequence number. Reading AIS is therefore (1) telling lines
apart, (2) putting the sentences of a message together although those of other
messages come in between, are lost or come twice, and (3) decoding the payload,
six bits a character, into the fields of one of 27 message types and, for Python,
into a dictionary. The repository does (2) five times over.

| component | source | state | operations |
|---|---|---|---|
| VdmStream | `src/libais/vdm.cpp`, `vdm.h` | a buffer of sentences per sequence number, a queue of messages, a line counter | `AddLine`, `PopOldestMessage`; `NmeaSentence::Create`, `Merge` |
| BareQueue | `ais/vdm.py` | a dictionary of unfinished groups by sequence number, a queue | `put`, `get` |
| TagQueue | `ais/tag_block.py` | groups by TAG block group id, a queue | `put`, `get` |
| UscgQueue | `ais/uscg.py` | groups by station and sequence number, a queue | `put`, `get` |
| NmeaQueue | `ais/nmea_queue.py` | the three queues above, a queue of its own, a line counter | `put`, `GetOrNone` |
| NmeaFile | `ais/io.py` | a file and an NmeaQueue | iteration |
| normalize, decode | `ais/stream/__init__.py` | buffers by station, sequence number and channel; statistics | two generators, an error callback |
| AisBitset, AisMsg | `src/libais/ais_bitset.cpp`, `ais.cpp`, `ais.h` | a bit vector, a cursor, a status | `ParseNmeaPayload`, `ToUnsignedInt`, `ToInt`, `ToString`, `ToAisPoint`, `operator[]`, `SeekTo`, `SeekRelative`, `GetRemaining` |
| messages 1-5, 7, 9-27 | `src/libais/ais*.cpp`, `decode_body.cpp` | the fields of a message | one constructor each, `CreateAisMsg` |
| messages 6 and 8 | `src/libais/ais6.cpp`, `ais8*.cpp` | the fields, lists of sub-messages | about 50 constructors |
| Python binding | `src/libais/ais_py.cpp` | none | `decode`: dispatch, constructor, error, dictionary |
| other sentences, tables | `ais/nmea_messages.py`, `lut.py`, `nmea.py`, `util.py` | none | parsing and conversion |
| programs | `bin/aisdecode`, `ais/stats.py`, `ais_decode_normed.cpp` | counters | loops over files |

How they interact. `VdmStream::AddLine` calls `CreateAisMsg`, which constructs an
`AisMsg`, which drives an `AisBitset`. In Python, `NmeaFile` puts lines into
`NmeaQueue`, which hands each to the queue of its type and takes out at most one
message; `TagQueue` and `UscgQueue` make a fresh `BareQueue` for every finished
group; all of them call `ais.decode`, which is the C++ constructor again and turns
a bad status into `DecodeError`. `decode` drives `normalize`, and both write
the same statistics and call the same error callback.

Nothing in the repository runs concurrently. What makes it hard:

* interleaving and reuse: ten sequence numbers for all ships in range, reused
  without end, so that lines of several messages meet in one buffer;
* loss, repetition and reordering of lines, which every reader meets with a
  different rule for throwing buffered lines away;
* failure half way: an undecodable payload, an exception, an error callback that
  raises, after some of the state has changed;
* lengths: guards at the head of a constructor have to cover all reads, on every
  branch, with padding.

What makes each part correct: a message is made of the sentences 1..n of one
message, in order, each used once; nothing that could be put together is lost;
messages come out in order; an exception or an undecodable message leaves nothing
behind that gets into a later message; no error goes uncounted; a constructor
reads every bit of its payload once, none outside it, and settles its status; a
dictionary shows what was read, all of it, under its own name.
The list of hazards in `PROJECT.json` gives the line where each of these can go
wrong.

## The modules

| module | models |
|---|---|
| `NmeaSentence` | a line, `NmeaSentence::Create` with its range checks, `VerifyInSameMessage`, `Merge` |
| `VdmStream` | the class: `AddLine` (ignored, single, first, middle and final sentence) and `PopOldestMessage` |
| `MessageAssembly` | the abstract specification: a pool of waiting sentences and a queue |
| `AisFeed` | `VdmStream` with the stations that send and the air that loses and repeats lines |
| `BareQueue` | `BareQueue.put` as operators on the state of a queue |
| `GroupQueues` | `TagQueue.put`, `UscgQueue.put` and the decoding of a finished group |
| `NmeaQueue` | `NmeaQueue` with its three queues, put and get |
| `LineAssembly` | the abstract specification of the Python queues: lines that wait, messages made of them |
| `NmeaFile` | the file object: `next`, `close`, `with` on top of `NmeaQueue` |
| `TwoReaders` | `VdmStream` and `BareQueue` fed the same lines, each with its own syntax |
| `StreamNormalize` | `normalize` and `decode` with `ErrorPrinter` |
| `AisOps` | the calls a constructor makes on its bitset, as data |
| `AisDecoder` | the bitset and the message under construction: one step is one call |
| `AisConstructors` | what constructors share: loops, text to the end, the headers of messages 6 and 8 |
| `AisMessages` | every constructor of messages 1-5, 7 and 9-27 as its sequence of calls |
| `AisBinary6` | the applications of message 6, `CreateAisMsg6`, `ais6_to_pydict` |
| `AisSubMessages` | those of message 8 made of areas or sensor reports, with the factories |
| `AisBinary8` | its other applications, `CreateAisMsg8`, `ais8_to_pydict` |
| `AisDecoding` | decoder and constructors together, and what is said of them |
| `PyDict` | a dictionary as the sequence of calls that fill it |
| `PyDictMessages` | `ais1_to_pydict` to `ais27_to_pydict`, but for messages 6 and 8 |
| `PyDictBinary` | the append functions of the applications of messages 6 and 8 |
| `PyDecoding` | `ais.decode`: constructor, then dictionary or `DecodeError` |
| `MC*` | instances for TLC |
| `*Proofs` | theorems: `VdmStreamProofs`, `AisFeedProofs`, `TwoReadersProofs`, `LineAssemblyProofs`, `NmeaQueueProofs`, `StreamNormalizeProofs`, `AisDecoderProofs`, `AisDecodingProofs` |

**Lines and payloads.** A line is a record of what its reader finds in it. A piece of
payload is a model value with a length (`CharsIn`); joining bodies is
concatenation of sequences of such pieces, so that the model can say of every
message which lines it is made of. Whether a payload decodes is given by a set
(`Undecodable`, `DecodeErrors`). Regular expressions and checksums are one bit.

**VdmStream.** `line_number`, `incoming_sentences` and `messages` are the members of the
class, `accepted` the result of the last `AddLine`. `heard` and `delivered` are
history. `AddLine` is one action with one disjunct for each way through it.
`MessageAssembly` promises less: a line makes sentences wait, or completes a
message with sentences that wait and match it, or is dropped; sentences that wait
may be thrown away at any time. `ImplementsAssembly` is the refinement, with the
union of the buffers for the pool and the reversed deque for the queue.

**NmeaQueue.** The state of each Python queue is a record with `groups`, `ready` and
`raised`; `Put...` operators return the record after a call. A call that ends in an
exception (`int(None)` for a missing sequence number, a `KeyError` in
`DecodeTagMultiple`, a TAG block without a checksum, a sentence other than VDM whose handler
converts an empty field) leaves the record as the code leaves the object, sets `raised`,
and `NmeaQueue` goes on with the next line, as a caller that catches it does.

What all three queues promise together is `LineAssembly`: a line is of no use, or waits
(and may cost others that waited), or completes a message with lines that waited, which
then wait no longer. `AssemblesLines` is the refinement: the pool is every line
number in a group of any queue, the output what was taken and what is still in
the queue.

**NmeaFile.** A call of `next()` is several steps: `CallNext`, then `PutNextLine` and
`ReturnMessage` or `ReadOn` in turn, until there is a message, an exception
(`PutNextLine` of a line that raises, `Refuse` when the object was closed) or
StopIteration (`Stop`). `Close` and `Exit` come between calls. The file is external: it may
end before any line, and has then ended for good. `result` is how the last call
ended; `at` stands for the place in the loop.

**StreamNormalize.** `buffers`, `stats` and `options` are those of the function. `running`
says that the generators have not ended; the error callback may raise
(`TooManyErrorsError`, or `ZeroDivisionError` while no line is counted), which ends
both. A message whose last line has no digit before its checksum gets no valid checksum: that is
reported, and the message is yielded all the same (`Finish`). `out` is what `normalize` has
yielded and `decode` has not handled: generators alternate, so the next line waits for it.

**AisDecoder.** The debug assertions are part of the model: `Makefile-custom` builds the
Python extension with `-UNDEBUG` and the CMake build keeps them by default. An
assertion that fails ends the construction (`aborted`). `position`, `message_id` and
`status` are members; `rest` are the calls still to make; `fields` is the history of
reads. The branches of a constructor depend on values it has read: these are
fields of the payload record (`slot_timeout`, `addressed`, ...), chosen freely, so that all
branches are taken with all lengths. With assertions off the same calls go
on; that build is not modelled.

**Messages 6 and 8.** A header constructor reads DAC and FI, and that of the application
asserts that they are its own. `caller` says who constructs: the C++
dispatcher, the Python one (they differ in three applications), or a caller of
the constructor itself, for the applications neither knows (6:0:0, 8:366:22, 8:366:56). Sub-messages
are loops: `kinds` are the kinds of the areas, reports or cargoes in order (the last of them goes
on to the end), `points` the number of points before a polyline breaks off.
Reads come in the order of the source, so that out of order decoding (the header of a
sensor report after its body) and its seeks are in the model.

**Python binding.** `ais_py.cpp` is 3,600 lines of calls that put one member under one
key. In the model a member is the bits its constructor reads it from, and a key is the
member it is named after, so that `Own(a, b)` stands for all the members that are read
from these bits and shown under their own names, and `As` for the others. A list is an
entry with the size it was made with and the slots that were filled; `in` is the path of
lists an entry is in. `Visible` drops what a later call replaces. The dictionary is
written down from `ais_py.cpp` alone and the reads from the constructors alone, so
that the properties compare two files that nothing else in the repository compares.

## Runs and what they show

| run | bounds | result |
|---|---|---|
| `vdm_stream` | 5 lines out of 12 that crowd one sequence number | types, order of the buffers, coherence of messages, no stale parts, FIFO, complete groups come out, refinement of `MessageAssembly` |
| `ais_feed` | two stations, 1 line lost, 1 repeated, pops at any time | nothing is spliced, nothing comes twice; every undamaged message is collected (liveness) |
| `two_readers` | 5 lines out of 8, each taken for VDM by Python or not, two of them refused by C++ | what `VdmStream` buffers `BareQueue` holds, line for line, exactly if both read these lines alike; what the one gives out of lines read alike the other decodes |
| `nmea_queue` | 4 lines out of 23 of all four types | each line once, in order, decoded from lines of one message, bare groups come out |
| `nmea_file` | 4 lines out of 16 of all four types, calls after exceptions, the end of the file and close | a message is returned by the call that read its last line; a started group is kept until it is finished or disturbed; every call ends and every line that stands for itself reaches the caller (liveness); refinement of `LineAssembly` |
| `stream_normalize` | 4 lines out of 17, three sets of arguments | no silent loss, each line once, one message each, groups come out, times span at most twice the window, error limit kept |
| `ais_decoding` | all constructors, about 40 lengths of messages and 70 of applications, all pads, all branches, up to three sub-messages of all kinds | which payloads fail an assertion, exactly; every bit read once; no padding read; the status settled |
| `py_decoding` | every message and application `ais.decode` knows, as above, with up to three sub-messages of two kinds | the dictionary shows only what was read, all that was read, under its own name, in its own report; lists are whole |
| `vdm_ignored` | as `vdm_stream` | **violated**: a refused final sentence clears the buffer |
| `nmea_invalid` | 3 lines | **violated**: an undecodable group is not dropped |
| `normalize_pieces` | 3 lines | **violated**: a message without its middle line |
| `unknown_application` | an application Python does not know | **violated**: it raises instead of returning DAC and FI |

One loss is the bound of `ais_feed` for a reason: sentences name no message, so when
the last line of one message and the first of the next on its sequence number and
channel are both lost, `Merge` joins head and tail (`NothingSpliced` fails with
`MaxLost = 2`), and no reader of these sentences can do better. Messages
15, 20, 21, 25 and 26 can end in a failed assertion, and so can thirteen
applications of messages 6 and 8. `Unguarded` lists their cases, and `AssertsFailExactly`
says that there are no others. For five of the applications no accepted length
escapes: 6:1:32, 8:1:27 (the number of way points is neither read nor skipped), 8:200:21 to
23 (fields with gaps and overlaps). An 8:1:0 with spare bits reads them from the wrong
place; 8:200:50 is constructed as 8:200:55. A message 17 without correction data
is left without a status, as 8:1:19 is; `Decided` names both. Of the dictionaries
`ShowsOnlyRead`, `ShowsAllRead`, `OwnKeys`, `OwnReports` and `ListsWhole` say, in the
operators they compare with, where each falls short, and that it does so nowhere
else: members shown though a short message does not set them (15, 21, 24, 6:1:3, 6:1:12),
members no key shows, keys of one member with the value of another (8:1:11, 8:1:22,
8:1:24, 6:1:4, 6:1:5), the currents of a sensor report put into the dictionary of the
message (8:1:26), a list with an empty slot, a list never released (8:367:33).

The runs marked violated check a statement of the repository itself; each
counterexample is described, with the line that states the contrary, under
"findings" in `PROJECT.json`.

Why the bounds are enough. A hazard of reassembly needs the lines of one message of
three sentences and one or two of another in the way: five lines reach all
of these, and longer histories repeat them, because buffers of different sequence
numbers do not touch each other and a first sentence resets its buffer. The two
sequence numbers of the model stand for ten; one of them is crowded, the other shows
independence. Sentences with too many parts or without a sequence number are among
the lines. In `nmea_queue` four lines are a group of two for each queue and two
lines in between, or a group left behind by a failure and one that follows it;
`nmea_file` has the lines for these and for a group of three. In
`ais_decoding` the lengths are every one from 7 to 29 characters, where the short
messages have their limits, and both sides of each limit above; with all six pads,
every bit length at these limits occurs. One sub-message shows its own layout, the second
whether the first ended where it should, the third whether a loop goes on after a
reserved kind. Pops and gets are possible at any time in all runs.
`py_decoding` has all those payloads of the messages and applications that have a conversion;
each of these gets as far as a dictionary but 8:1:27 and 8:200:21 to 23, whose
constructors end in a failed assertion whatever the length.

Deadlock is checked in `nmea_file`, where a call can always be made. Elsewhere it is not: every
bounded run ends, and the real callers may stop at any time.

Fairness is assumed in two places. In `AisFeed`, stations go on transmitting what they have to
send (weak fairness of the arrival of a line that is not lost), and the caller
goes on popping. Both are loops without another exit in the programs that use the
library. Loss and repetition are not fair. In `NmeaFile`, weak fairness of `Reading`: a
call, once made, runs in the thread of its caller until it returns. That the caller
calls again is not assumed: a message is returned by the call that reads its
last line. Nowhere else is there liveness to state: put, AddLine and constructors return.

## Proofs

The theorems are checked by TLAPS for all values of the constants: any lines, lengths, groups,
stations, payloads, and any number of steps. They rest on the named assumptions of the modules.
Nearly all are about types: lines are records of the right fields, lengths are natural numbers,
the sequence number of a line is a digit or missing (`SequenceIdsAreDigits`, the regular expression
of `vdm.py`), no line has a handler in `nmea_messages` that also looks like a VDM sentence
(`NoHandlerOfVdm`). `TwoReaders` assumes nothing of its own: Python may take any line for VDM or
not, as long as its fields are ones that `VDM_RE` can match. `AisFeed`
assumes of the environment that a schedule consists of messages that can be sent, that the
texts are those of the schedule, and that none is too long for `Create`. `AisDecoding` assumes
(`MessagesAreConstructed`) that the calls on a message are those of its constructor, and that the
values read from it are what their bits can hold; of the lengths, of the number and kinds of
sub-messages, of DAC and FI nothing is assumed. Its theorems are about payloads of messages 1 to
27: for others there is no constructor.

| module | theorems | property |
|---|---|---|
| `VdmStreamProofs` | `TypeCorrect`, `BuffersAreInOrder`, `MessagesCoherent`, `FirstInFirstOut`, `NothingStale`, `GroupsComeOut`, `StreamImplementsAssembly` | every property of run `vdm_stream` |
| `AisFeedProofs` | `OnceFromFeed`, `WholeFromFeed` | both invariants of run `ais_feed` |
| `TwoReadersProofs` | `BufferedInBoth`, `DecodedInBoth` | every property of run `two_readers` |
| `NmeaQueueProofs` | `QueueTypes`, `QueueAssemblesLines`, `QueueUsesLinesOnce`, `QueueKeepsLineOrder`, `DecodedFromOwn`, `BareGroupsComeOut`, `WaitingIsKept`, `FileReturnsAtOnce` | every property of run `nmea_queue`; the refinement, the action property and `ReturnedAtOnce` of `nmea_file` |
| `StreamNormalizeProofs` | `TypesKept`, `NothingTwice`, `NothingLost`, `NothingMixed`, `SpanKept`, `WholeGroupsComeOut`, `ErrorLimitKept` | every property of run `stream_normalize` |
| `AisDecoderProofs` | `DecoderTypes`, `CursorStaysInPayload` | `TypeOK`, `CursorInPayload` |
| `AisDecodingProofs` | `ConstructorsAbortExactly`, `PadStaysUnread`, `ConstructorsDecide` | `AssertsFailExactly`, `NoPadRead`, `Decided`: with the two above, all of run `ais_decoding` but `EveryBitOnce` |

*VdmStream.* `BuffersInOrder` is not inductive alone: that a middle sentence has a number
below its total, and a total below `kMaxSentences`, is known only because `Create` let it
through. `Inductive` adds `HeardOK`: what was heard is nullptr or a sentence with its
counters in range that carries the number of its line. `MessagesAreCoherent` follows
in a second induction on top of it: what is appended to the output is coherent with the
history as it is then (`EmitCoherent`, `MergedCoherent`), and coherence is not lost when
the history grows (`CoherentKept`).

`FifoOutput` and `NoStaleParts` share a third invariant. `OutputOrdered` says of every message
that its last line is later than that of the one before, and that no sentence that starts
or ends a message of its number was heard between its lines. To keep it when a final
sentence comes, the same must be known of what is buffered: `FreshBuffers`, since the first
sentence in a buffer no first or final sentence of its number was heard. Both `clear()`
calls are what keeps that.

`CompleteGroupComesOut` goes the other way, from the history to the buffer. Its invariant
`LastAreBuffered` is the property for a message that is not finished: if the last sentences of a
number are 1..k of one header, and there are more to come, they are what the buffer holds.
A middle sentence extends such a group by one, a final one finds it complete and not
larger than `Merge` accepts (`BodySizeAtLeast`, by induction on the number of sentences).

`StreamImplementsAssembly` is the refinement of `MessageAssembly`, from the first
invariant. Each disjunct of `AddLine` is a step of the abstract specification: `PoolGrows`
and `PoolShrinks` say what a change of one buffer does to the union of all,
`MergedCompletes` that `Merge` succeeds only on sentences that match, `ReversePush` and
`ReversePop` that the two ends of the deque are those of the queue.

*AisFeed.* `FeedIsStream` says that a feed is a run of the stream, so that the theorems about it hold
there, and that `FeedOK` holds: every line heard is one of a station, those of a station are heard in the
order of its schedule (the same line perhaps again), and what was sent and not heard is
among the lost. A message that came out twice would have to
start before it had ended for the first time (`OnceFromFeed`). One that is spliced would have to
miss its own end and the start of the next, which makes two lines lost (`WholeFromFeed`).
The hypotheses are those the properties name: `NumbersApart`, and for the second `MaxLost <= 1`.

*TwoReaders.* The readers run on the same history, and the invariants of `VdmStream` hold in it.
The two do not take the same lines. `VDM_RE` takes a line without a channel, with an empty body, with
a number above the total or with fill bits above 5, and it searches for the sentence in the line;
`Create` wants the first field to start with `!` and its number conversions and `ValidateChecksum` are
more tolerant than the expression (lower case checksums, other talkers and formatters). A first
line that only Python takes replaces the group while the buffer stays, and from then on the two hold, and
decode, different lines: 1/2 on channel A, 1/2 without a channel, 2/2 on A become lines 1 and 3 in C++,
2 and 3 in Python. `ReadAlike` says when that has not happened. Of the lines that are parts of one
message, Python took each, and while it waited for the next part no line that it alone takes, on
that sequence number, was a first line or had the number it waited for. `BufferIsGroup` says that then, *and only
then*, the buffer and the group are of the same lines; that `VdmStream` empties its buffers more often
and compares headers, but only in the end, makes no other difference.
The invariant, `ReadersOK`, adds to the properties that a group holds parts that were read (`GroupRead`)
and that a sentence C++ has heard has the counters and the body Python reads in that line (`AsRead`).
The readers are compared by the numbers of the lines: the lemmas `AlikeGoesOn`, `AlikeAppended`
and `AlikeStarted` say what one more line does to `ReadAlike`, and `GroupMoves` and `BufferMoves`
what it does to the group and to the buffer, so that each side of the *exactly* is kept.

*The Python queues.* `QueueAssemblesLines` says that `NmeaQueue`, with three different queues
below it, implements `LineAssembly`, exceptions and undecodable groups included. The
inductive invariant has two parts. `QueuesAtRest`: between puts each queue is a record
whose groups hold parts, and nothing is ready or raised in it; without it a `get`
could return the message of an earlier line. `Apart`: seen as one function from the
keys of all groups to the numbers of the lines in them, those of a group
increase and those of two groups are different. The argument has three layers: a
put leaves a queue as it was, with a line more in one group, or with a group less and a
message more (`Outcome`, one lemma for each kind of put); what that means for the function
(`Keyed`); that `LineAssembly` allows it (`KeyedAssembles`). `AssemblyKeepsLines` is the
invariant of the abstract specification, one page long, and `QueueUsesLinesOnce` and
`QueueKeepsLineOrder` are `EachLineOnce` and `InLineOrder` of the detailed one, by way of
the refinement.

The other three need what the parts *say*, not only which lines they are of. `Content` adds it: a part
in a group is what the line of its number says, a group in the `BareQueue` starts with
number 1 and goes on in order (`Counted`), and every message is sound (`SoundMessages`). A message of a
TAG block or USCG group was decoded by a `BareQueue` made for the group, lines in any order
and some left out; `DecodesFrom`, an induction over the lines of the group, says that what
came out of it came from lines at increasing places, which are the parts of one message.
`BareGroupComesOut` needs, like `CompleteGroupComesOut`, an invariant about
messages that are not finished (`LastWait`), and `BareMove`, the exact effect of a put of
a bare line on its group and on what is ready. `KeptUntilFinished` needs that a part waits under
the key of its own line (`OwnNames`); then a step that takes a line out of its group is one of a line with
the same key, and `KeysMove` says of each kind of put that it keeps the group, extends it,
makes a message of it, or starts it anew with a first line.

*NmeaFile.* `FileReturnsAtOnce` is `ReturnedAtOnce`. Its invariant adds `QueueDrained`: between calls the
queue is empty, and within one it holds at most the message of the line just put, which
`NewMessageEndsHere` takes from the refinement's lemmas.

*StreamNormalize.* `ErrorLimitKept` is `BudgetKept`: the two generators, which count in the same
statistics, never go on above the limit. A counted error is compared at once; that
the comparison still holds after a correct line is `OneLineMore`, and the
multiplication in it is why the types of the counters are part of the invariant.
For the others the invariant is that a buffer holds the lines of its slot heard since a
first line, all of them while the generators run, and none of them a last line (`BuffersOK`). What
a line can do comes down to five cases (`Drops`, `Alone`, `Begins`, `Joins`, `Ends`), whatever way it takes through the
code. In the last the buffer is emptied whether or not something is yielded: where
nothing is, the lines are reported, which is `NothingLost`; where they are yielded, they
are all of the slot since its first line, which is `NothingMixed`, and each of their times was
compared with the last, on both sides, which makes twice the window (`SpanKept`).
`WholeGroupsComeOut` has, like the readers above, an invariant about messages that are
not finished.

*AisDecoder.* `CursorStaysInPayload` says `[]CursorInPayload` for any payloads and any
calls: `Calls` is an operator of which nothing is assumed but that it gives sequences
of calls. So it covers every constructor, loop and order of reads, those of other
versions of the library too. It is inductive together
with the types: a read must start at the cursor and end within the characters, a seek
must end below the number of bits, which is not above them (`BitsInChars`).

*The constructors.* `AssertsFailExactly`, `NoPadRead` and `Decided` are invariants of a machine that makes the
calls of one of some eighty constructors, one a step. What has to be known along the way is how
the calls that are left will end. `Course`, the inductive invariant, says just that: the rest of
the calls, from this cursor and this status, either goes on to the end or is stopped by one of its
calls (a return, a bad status, a failing assertion), in both cases with what is `Due` to the payload,
and no field on the way reaches beyond `Limit`. That it is kept is the smaller part (`OutlookStep`,
`GoesOn`, `StopsThere`: the first call of the rest does what `Goes` or `Stops` says of it). That it holds at
the start (`InitCourse`) says of every constructor what it comes to, and this is where the code is:

* `Leads`, `Halts`, and `Runs`, `Gives` and `Settles` made of them, say what calls come to one after the
  other; a dozen lemmas put them together (`ThenReads`, `ThenSeek`, `GuardedSettles`, ...). Fields that
  follow each other (`Tiles`) are one lemma, loops another: `EvenLoop` for passes of one size,
  `OddLoop` and `KindsLoop` for those where a pass can end the loop or leave the cursor elsewhere.
  `FlattenSeq`, which makes a loop one sequence, is taken apart by `FlattenBySteps`.
* Every constructor has a lemma, named after it: `Ais5Gives`, `Ais6_1_25Settles`. *Gives* means
  that it always decides the status, *Settles* that it also aborts, exactly on the payloads in
  question. Each walks along the constructor, with a case for every branch.
* `Message6Due`, `Message8Due` and `MessageDue` are the dispatchers and the header: what has no header, too
  few bits for `Ais6` or `Ais8`, or an application nobody constructs. `MessagesDue` is all of them.

So what `ais_decoding` checks for about forty lengths and three sub-messages holds for every length,
every pad and any list of kinds.

Induction over the lines of a group, or the length of a sequence, is done on the set of the numbers for
which the claim holds, with well-foundedness of the order of the natural numbers: the
induction theorems of the library take an operator as a parameter, which the
installed provers cannot instantiate.

Only model-checked, and why:

* liveness (`UndamagedCollected`, `CallsEnd`, `PassedThrough`): under fairness it is out of the prover's reach;
* `EveryBitOnce` and the five of `py_decoding`: what is said there of a constructor or a dictionary is a
  set of bits, computed from all of its calls, with exceptions of its own for some forty of them. `Course` does
  not carry it, as it looks ahead and not back. The runs cover every length where
  a branch changes, and up to three sub-messages.

## Not modelled

* How the Python binding writes a value, and the conversions of 8:1:19, 8:200:55,
  8:367:22 and 6:1:32 and of the weather report of 8:1:21: no call of `decode` returns what they
  make.
* Polylines of different lengths in one message.
* `ais.open`, which chooses a file, and an `NmeaQueue` shared by several files, as `ais/stats.py:39`
  has it: to `NmeaQueue` these are one long file.
* The values of fields, scaling, character tables, output operators: data that no
  state depends on, but for the branches named above.
* `UscgQueue.unknown_queue`: reached only by a line without USCG metadata, which
  `NmeaQueue` does not send there. As written it would raise (`Queue.Queue.get()`
  without an instance).
* The programs, statistics and lookup tables, which print what the parts above return.
* Fill bits from 6 to 9: `VDM_RE` takes them, and `ais.decode` ends the process in `assert(pad < 6)`.
  The queues go on there as if it had decoded the payload or raised `DecodeError`: more behaviours than
  the program has, so that what is never true of the model is never true of the program.
* Which lines a handler of `nmea_messages` raises on: any set of lines that are not VDM (`HandlerErrors`).
* Expiry: no reader forgets an unfinished group; there is nothing to model. This hazard has
  no property, and one other of the list: the splice after two losses, above, which no reader can avoid.

## Plan

Written in this order, the most important first: `NmeaSentence` and `VdmStream` with
`MessageAssembly`; `AisFeed`; the proofs about `VdmStream`; the Python queues and
`TwoReaders`; `AisDecoder` with its proofs and the constructors of messages 1-5, 7 and
9-27; `StreamNormalize`; messages 6 and 8 with their sub-messages and dispatch; the
Python binding; `NmeaFile`; `LineAssembly` and the proofs that rest on it; the proofs of
the refinement of `MessageAssembly` and of the error limit; the theorems about the constructors.

What would come next: `EveryBitOnce` for payloads of any length, by lemmas that say of each constructor
which bits it has read, beside those that say how it ends.
