# eau2: specifications

TLA+ specifications of eau2 (C++, `src/src`), the TLC configurations that check
them on small instances, and TLAPS proofs. A path below is relative to
`src/src/`, so `store/kvstore.h:58` is line 58 of `src/src/store/kvstore.h`.

    tlc -config MCLinus.cfg MCLinus.tla        # check one configuration
    tlapm KVStoreProofs.tla                    # check the proofs of a module

## The system

eau2 spreads data frames over the nodes of a cluster. Each node is a process
with one part of a key-value store; a key says which node it is homed at. Frames
are columns, columns are cut into segments, and each segment is a value in the
store of some node. Applications (the tests' word count, the Linus program) run
one thread per node and meet through the store only.

| Component | State | Operations | Made correct by |
| --- | --- | --- | --- |
| Local store (`store/kvstore.h`, `util/lock.h`, `store/value.h`) | the map `items_`, a mutex and a condition variable, `Value` objects with one owner | `get`, `waitAndGet`, `put` | calls take effect atomically; no lost wake-up; no object is used after its deletion, deleted twice or leaked |
| Network interface (`network/network_ifc.h`, `application/application.h`) | addresses, `connections_`, two flags, one thread | registration at the controller; lazily opened connections; remote `put`/`get`/`waitAndGet`; teardown by KILL, stop and join | each node gets the whole directory; replies meet their requests; teardown ends |
| Connection (`network/connection.h`) | a socket, the lock `l_`, the queue `replies`, one thread | `send_message`, `recv_message`, handlers for PUT, GET, WAITANDGET, REPLY, KILL | messages stay whole and in order; both sides make progress |
| Sockets (`network/network.h`) | a file descriptor | bind and listen, accept, connect, send and receive some bytes | (the substrate of the above) |
| Messages, keys (`network/message.h`, `store/key.h`) | immutable | construct, serialize | what is read is what was written |
| Frames and columns (`dataframe/*.h`, `util/array.h`, `store/kdstore.h`) | a column: size, segment keys, the array being filled or cached | `push_back`, `finalize`, `get`, `local_indices`; a frame: put, get, waitAndGet, map, local_map | every reader gets back what was pushed; nodes share out the rows; a descriptor is visible only after its segments |
| Sorer (`sorer/parser.h`, `sorer/columnset.h`) | a file position, a buffer, the line being read; guessed types, columns | read lines; count columns, guess types, append fields | lines survive buffer boundaries and repeated passes; the schema fits the data; rows stay rows |
| Linus (`linus.cpp`) | sets of users and projects, tagged or not | per degree: read the new users, local_map over commits, merge at the controller, twice | all nodes finish, with the union of what they found |
| Serializer (`util/serial.h`) | a growing buffer | add, get | reads give back what was added |
| Utilities (`util/string.h`, `object.h`, `helper.h`) | none shared | strings, printing | - |

How they interact. An application calls its `KVStore`. For a key homed here the
call goes to the map; for another, to `NetworkIfc`, which opens a connection if
`connections_` has none, sends a message and, for a read, spins until the
Connection's own thread has queued the Reply. That thread also serves the peer:
it calls the *local* store, and so it blocks when a WAITANDGET's key is not there
yet. One NetworkIfc thread accepts connections and, at the end, stops and joins
all of them.

What is hard, and where (`PROJECT.json`, "hazards", has the full list by line):
four kinds of threads share a store, a map of connections, sockets and queues
with locks around only some of them; PUTs are asynchronous while keys refer to
each other across nodes; a thread that must deliver replies can itself be asleep
in `waitAndGet`; sends block with a lock held; nodes join and leave one by one;
segments, buffers and lines have boundaries.

## The modules

| Module | Models | Interacts with |
| --- | --- | --- |
| `AtomicStore` | what a store promises: calls take effect at one instant | abstraction of `KVStore` |
| `KVStore` | `store/kvstore.h` on local keys, at the grain of the mutex | refines `AtomicStore` |
| `KVStoreProofs` | theorems about `KVStore` | |
| `Channel` | what a connection promises: a FIFO of whole messages each way | abstraction of `Transport` |
| `Transport` | one connection below messages: chunks, bounded buffers, `l_` | refines `Channel` |
| `Registration` | `NetworkIfc` from launch to the end of registration | ends where `Cluster` starts |
| `Cluster` | nodes, connections and teardown after registration | uses each store as `AtomicStore`, each stream as `Channel` |
| `Linus` | what `linus.cpp` asks of the store, and where its frames live | composed with `Cluster` (EXTENDS) |
| `Degrees` | what the Linus program is to compute, on one node | abstraction of `LinusSets` |
| `LinusSets` | the sets, visitors and merges of `linus.cpp` on any commits | refines `Degrees`; its frames are put and awaited as `Linus` does it |
| `LinusSetsProofs` | theorems about `LinusSets` | |
| `Serializer` | the growing buffer of `util/serial.h` | |
| `Serial` | each class's bytes, written, sent inside a message and read | composed with `Serializer` (EXTENDS) |
| `BytesProofs` | theorems about `Sorer`, `Serializer` and `Serial` | |
| `Column` | one column: segments, cache, partition over nodes | its keys and order of puts are those `Linus` uses |
| `ColumnProofs`, `FrameProofs`, `RegistrationProofs`, `ClusterProofs`, `TransportProofs` | theorems about `Column`, `Frame`, `Registration`, `Cluster`, `Transport` | |
| `Frame` | a frame of several columns, its Rows and visitors, on all nodes | takes a column as `Column` shows it to be |
| `Sorer` | the file reader and parser | ends where a data frame is built from columns |
| `MC*` | instances: scripts, objects, files; `MCLinus` assumes `Causal` | |

The levels fit together by what each ends with. `KVStore` implements
`AtomicStore`, so `Cluster` has a set of keys per node, one step per store call.
`Transport` implements `Channel`, so `Cluster` has a queue of messages per
stream. `Registration`'s `HandsOver` says a node whose application goes on has
the connections `Cluster!Init` gives it. `Linus` is `Cluster` with the scripts of
the Linus program; its assumption `PutOnce` (each key is put by one operation of
one node, TLC evaluates it) puts all its keys into `KVStore`'s `Once`, of which
reads never return garbage, and `Column`'s `SegmentsPutOnce` is why it is so.

### KVStore

One action per step between lock operations: call, `lock()`, the body of the
critical section, `notify_all()`, `unlock()`, and the clone of the found object
*after* the unlock. `l_.wait()` is one step that gives the mutex up and falls
asleep; a notified or spuriously woken thread locks again and tests again.
Values are objects by identity, so that deletions show; cloning a deleted object
may return `Garbage`. `get` may be called of any key; of an absent one its
assertion fails (`GetAborts`), with the mutex held, and the process ends. `Once`
are the keys that callers put once; the others they put again at will, while any
thread reads them. `AtomicStore` promises accordingly: a read returns what it
found, except that it may return garbage of a key outside `Once` whose value was
replaced before the read returned.

### Cluster and Linus

An end `<<stream, node>>` is a Connection object with its thread. Two nodes can
open streams to each other at once, and each insertion into `connections_`
overwrites what is there; both are modelled (`Connect`, `Enlist`, `Accept`,
`EnlistAccepted`), so later messages between a pair can take either stream. A
WAITANDGET blocks its Connection thread (`HandleWait`, `WaitOver`). `StopNet`,
`LeaveLoop`, `StopConnection`, `JoinConnection` and `Exit` are the teardown;
a loop that tested its flag just before it was cleared makes one round more
(`"last"`). With `Barrier` an application's node is torn down only when every
application has ended, as the tests do by joining their threads; without, as
`linus.cpp` does it.

`Cluster` starts with every client registered. That is no restriction on
interleavings: a node that is late to leave registration is a node whose threads
have not taken a step yet.

`Linus` has no state of its own: it builds each node's sequence of store
operations from operators named after the program's functions. What the sets
contain, and so which rows are tagged, is `LinusSets`'; here their frames have a
fixed number of segments.

`Causal` is what a read may count on, said of the scripts alone: before a node gets a
key, it has put the key itself, at home or where the controller is on either side, or
it has been told of one that the controller keeps and that was put after the key, by
the same node, where the controller is on either side of both puts. Linus is so as
long as its sets have one segment, which node 0 keeps as it does all descriptors, and
TLC evaluates it for `MCLinus.cfg`. With two clients and no controller between them it fails, and so does `GetFindsKey`:
`MCCluster_ownwrites.cfg`, and `MCLinus_unified.cfg` for sets of three segments.

### LinusSets and Degrees

The other half of `linus.cpp`. `rows[n]` are the commits of the segments homed at
`n`, which `local_map` visits; `Init` lets them be any. `fresh[n]` is the set in
hand: `ptagger.newProjects`, later `utagger.newUsers`, which `merge` changes in
place. A frame is put or awaited in one step (`Linus` has what is between);
`Gather` adds one client's frame at a time, as the loop of `merge` at node 0
does. `Set::test` is true out of bounds and `Set::set` does nothing there, as in
the code; `WellFormed` says that commits mention no such ids.

`Degrees` computes the same without nodes and deltas: the projects of the
collaborators, the authors of these projects, once per degree. `LinusSets`
implements it with the merged frames of node 0 for its sets; a stage of the code
is two steps of `Degrees`, at node 0's `PublishMerged`.

### Serializer and Serial

`Serializer` is the buffer: `Add` puts the bytes of one call behind those that
are there, after `expand_` when they do not fit. `Factor` is the loop of
`expand_`, which stops at the first factor whose product is *more* than needed.

`Serial` has, for every class that is serialized, the calls its `serialize` makes
and, separately, what its constructor takes. A byte knows of which value it is
which byte, so a read at another place, of another width or of another type than
was written yields `Garbage`. Arrays and frame descriptors can go straight into a
Value or (`Send`) be the value of a PUT or Reply that is serialized in turn,
received and unpacked, which is their way between nodes. Sender, target and id
of a message are 0, as everywhere in the program.

### Frame

One column is a list of segments in the store and one array (`cache`), as
`Column` has it. What `Frame` adds is what holds columns together: the Row that
`fromVisitor` hands to a Writer for every row, whose fields stay set from one
row to the next; `add_to_columns` and `fill_row`, one column per step; the
strings, objects of the process that a field or an array owns, with every `new`,
`clone` and `delete`; `map` and `local_map` at every node, on the frame that was
written or received. A value is the row and column where the Writer set it.
Types other than strings are handled alike. The rows that a node has left are a
set (`todo`), taken in increasing order, as both loops take them. New strings get
any free addresses, and memory does not run out: `FrameAssumption` asks for one
address more than there are places a string can be at, so that a clone can be made
while the string it replaces is still there.

### Transport

`send_message` and `recv_message` hold `l_` while they push or take chunks, one
step per partial `send` or `recv`; a full buffer blocks. `Frames` maps the chunks
in hand and on the way to the messages of `Channel`: a message counts from its
first chunk (`Heads`, in the order `Rank` gives them), and refinement fails as soon
as another thread's chunk gets in between.

### Registration

Each process is launched, binds, and (a client) connects to the controller when
the backlog has room, sends REGISTER, and waits for the DIRECTORY. The controller
serves clients one by one, broadcasts and starts the Connection threads.
`Contact` stands for the applications of nodes already registered, which send
requests to nodes that may still be waiting for the directory. A failed assert
is the state `"aborted"`. The controller's `start()` returns once it listens and
clients are launched after that, as in the tests and in the documented order of
starting the Linus processes.

### Column

Value `i` is the `i`-th pushed. A segment's name is cut at the 14 characters
`snprintf` leaves it, which is what `Base` and `Limit` say: 10 and 1000 in the
code. A writer reads with the capacity it wrote with, a reader with
`DEFAULT_SEGMENT_CAPACITY`, whose value is a constant. The four column classes
have the same code but for the type; the lines mapped are `IntColumn`'s.

### Sorer

The actions of the reader are the ways through one round of `readLine`'s loop;
those of the parser the ends of its loops, and `ScanLine` is what is done with a
line in each pass. A byte is a character of those the code tells apart (digits 0,
1 and 5, signs, the dot, a letter, quote, space, brackets, newline); the value of
a field is the text it was read *from*, so that `toInt` stopping early shows.
Exponents (`atof`) and overflow of `int` are left out.

A line is scanned as the code does, byte by byte (`Scanned` is `in_field` and
`in_string` behind each byte); its fields are then what lies between the brackets.
What the reader is to hand out is said without it: `Ends` are the places of a part
of the file that end a line, `Whole` those of lines that are not cut by the part's
beginning, `LinesOf` what lies before each. `Readable` names the parts that are read
right: the whole file, a part that ends with the file and has a newline to skip to,
and a part that fits in one buffer.

## What the runs check

All of these pass; each property has a mutant of the code (in the module, marked
as such) that TLC finds to violate it.

| Run | Instance | Checks | Distinct states |
| --- | --- | --- | --- |
| `kvstore` | 3 threads, 4 calls, a key put once and one put at will | `TypeOK`, `MutualExclusion`, `NoMissedNotify`, `OneOwner`, `NoUseAfterFree`, `Linearizable`, `WaitersReturn` | 490 000 |
| `linus` | 3 nodes, 2 degrees, input frames of 2 segments, sets of 1 | `TypeOK`, `GetFindsKey`, `AppsFinish` | 27 000 |
| `linus_sets` | 2 nodes, 3 users, 2 projects, 3 degrees, any commits on either node | `TypeOK`, `Agreement`, `OnlyDeltas`, `ComputesDegrees`, `Finishes` | 310 000 |
| `serial` | 464 objects: messages of each kind, arrays up to 3 items, frames up to 3 columns | `InBounds`, `TightGrowth`, `KeepsBytes`, `RoundTrip` | 14 000 |
| `frame` | 2 nodes, a column of strings and one of numbers, up to 5 rows in segments of 2 | `OneOwner`, `RowsOnce`, `LocalReads` | 300 000 |
| `mesh` | 3 nodes, two clients wait for each other's keys | `ReplyMatchesRequest`, `CleanShutdown` | takes longest, about 90 s |
| `transport` | 2 threads a side, messages of 1 to 3 chunks, buffers of 2 | `TypeOK`, `Fifo`, `AllDelivered` | 2 300 |
| `registration` | 4 nodes, backlog of 1 | `TypeOK`, `NoAssertFails`, `HandsOver`, `EveryoneRegisters` | 6 700 |
| `column` | up to 8 values, segments of 2, 3 nodes | `TypeOK`, `RoundTrip`, `LocalPartition`, `SegmentsPutOnce` | 310 |
| `sorer` | all files of 2 lines of up to 2 fields, or 3 short lines; 4-byte buffer; parts of files | `TypeOK`, `HandsOutLines`, `SchemaIsJoin`, `RowsAreLines` | 360 000 |

Why the bounds are enough to be of interest. *kvstore*: two waiters and a putter
need three threads; two keys let a notification be for another key, and a put of
one key fall between the unlock and the clone of either; four calls
allow a put, an overwriting put and two reads around them, and one spurious
wake-up. *linus*: a second degree reads what the first put; three nodes are the
least with a home that is neither reader nor writer. *mesh*: the least in which
both clients open a stream to the other. *transport*: messages larger than the
buffer, of both threads of a side at once. *registration*: three clients, so one
is connected, one in the backlog and one has to wait. *column*: empty, partial,
exactly full and several segments; more segments than nodes. *sorer*: lines
shorter than, equal to and longer than the buffer, newlines at each of its
places, more lines than are guessed from (2 for 500). *linus_sets*: Linus and
two others, so a collaborator can be reached through a project and a second one
through another; after three degrees nothing is new any more, and empty sets are
merged. All 4096 distributions of commits are tried. Three nodes with two users
and two degrees (860 000 states, run by hand) pass as well; the theorems need no
bound. *serial*: items that fill the first buffer of 8 exactly, that overrun it
by one, and that a doubled one does not hold; empty arrays and strings.
*frame*: partial and full segments, three segments on two nodes so that one node
has two, a field left from the row before.

### What the code does otherwise than it says

These two runs are expected to find a violation; `PROJECT.json` has the findings
with the lines they contradict.

- `kvstore_torn` (`ReturnsACopy`): a `get` or `waitAndGet` clones after it has
  released the mutex (`kvstore.h:57-58`), and a `put` of the same key in between has
  deleted the object, so what is returned need not be a copy of any value
  ("Returns a copy of the value.", line 48). `NoUseAfterFree` says that this is the
  only way to it, and `Linearizable` that nothing else goes wrong with such keys.
- `linus_deltas` (`AppsFinish`): sets of two segments on two nodes. The client
  has sent its set and waits for the merged one, so the controller's Connection
  thread sleeps in `waitAndGet` for it. The controller's application, to make the
  merged set, gets the second segment from the client; the Reply comes on that
  connection, and its thread does not read it. All wait for ever.

The number of listed runs is kept small. These configurations, also here, are to
be run by hand and each shows one more violation:

| Configuration | Module | Shows |
| --- | --- | --- |
| `MCLinus_unified.cfg` | `Linus` | sets of three segments on three nodes: a frame's descriptor is visible at node 0 while the PUT of a segment is still on its way to a third node, and a reader's GET there fails its assertion (`GetFindsKey`, `kvstore.h:55`) |
| `MCTransport_crossing.cfg` | `MCTransport` | two PUTs larger than the socket buffers cross, and both senders hold the lock that their receivers need (`AllDelivered`, `connection.h:76`) |
| `MCLinusSets_unknown.cfg` | `LinusSets` | a commit by an author who is not among the users tags its project in the first stage, because `Set::test` is true out of bounds (`OnlyCollaborators`, `linus.cpp:53` against the comment at 118) |
| `MCSerial_empty.cfg` | `MCSerial` | an empty string in a segment, or an empty Value sent to another node, aborts in `add_buffer` (`EmptyValuesSent`, `serial.h:139`; `value.h:46` allows empty Values) |
| `MCFrame_empty.cfg` | `MCFrame` | `local_map` of a frame without rows asks for row 0 and aborts (`MapsEmptyFrames`, `column.h:150`, `dataframe.h:124`) |
| `MCLinus_exit.cfg` | `Linus` | without a barrier the controller is torn down while a client's last `waitAndGet` is unanswered (`AppsFinish`, `application.h:33`) |
| `MCCluster_ownwrites.cfg` | `MCCluster` | a client's PUT and GET of one key take different streams, because `connections_` was overwritten between them; the GET comes first (`GetFindsKey`) |
| `MCCluster_pair.cfg` | `MCCluster` | two streams between one pair of nodes (`OneConnectionPerPair`, `network_ifc.h:238`) |
| `MCColumn_names.cfg` | `MCColumn` | with 1001 segments, number 1000 is named as number 100, and a read of it gets the wrong array (`RoundTrip`) |
| `MCColumn_capacity.cfg` | `MCColumn` | a reader of a column whose writer chose another capacity gets wrong values (`RoundTrip`) |
| `MCColumn_empty.cfg` | `MCColumn` | `local_indices` of an empty column lists a whole segment (`LocalIndicesAreRows`) |
| `MCSorer_texts.cfg` | `MCSorer` | a word with a digit in it is taken for a number (`KeepsTexts`, `parser.h:451` against the comment at 447) |
| `MCSorer_parts.cfg` | `MCSorer` | parts of a file: an empty line, a cut line, or lines beyond the part's end are handed out (`HandsOutLines`); nothing in the repository reads a part |

### Fairness

Safety properties use none. Liveness assumes weak fairness of:

- `KVStore`: each thread's steps inside a call, not its making calls, until a failed
  assertion ends the process. A thread
  asleep is only sure to go on once notified. Calls are bounded, so no thread
  finds the mutex taken infinitely often.
- `Transport`: both threads of both sides. Messages are finitely many, so a
  side's threads contend for `l_` finitely often.
- `Registration`: each NetworkIfc thread, launching included. Applications need
  not contact anyone.
- `LinusSets`: each node's application thread; awaiting a frame that is there is
  a step that can be taken. It is what `AppsFinish` shows of `Linus`, whose
  exceptions (`linus_deltas`) are exceptions here as well.
- `Cluster`: the application, the NetworkIfc thread and each Connection thread of
  each node. Each is a thread of the operating system; when it spins on a queue
  or a flag it re-reads memory (the Makefile builds without optimisation).

`CHECK_DEADLOCK FALSE` is set where behaviours end: the bound on calls is
reached, all messages are delivered, all nodes are registered, a final column of
no values is not read, an object has been read or a frame dropped. `linus`,
`linus_sets`, `mesh` and `sorer` check for deadlock; their end
is an explicit step (`Stopped`, `Done`, `Stop`).

## What is proved

`KVStoreProofs` proves, for every set of threads, keys and values and any number
of calls and spurious wake-ups, from `KVStoreAssumption` (distinct model values)
alone:

| Theorem | Statement | Inductive invariant |
| --- | --- | --- |
| `TypeCorrect` | `Spec => []TypeOK` | `TypeOK` |
| `MutexCorrect` | `Spec => []MutualExclusion` | `MutexInv`: a thread is in a critical section exactly when it holds the mutex. Mutual exclusion itself does not say who holds it, so is not inductive |
| `NotifyCorrect` | `Spec => []NoMissedNotify` | `NoMissedNotify`, which is inductive: falling asleep and having seen no value are one step, and a put goes from storing to notifying |
| `OwnerCorrect` | `Spec => []OneOwner` | with `OpInv` (which operation a thread can be in at each place, and that a put keeps no pointer) |
| `CloneSafe` | `Spec => []NoUseAfterFree` | with `OneOwner` (the object of a key is not deleted) and `OnceInv`: a put under way of a key in `Once` is the only one and finds no value there, so what a reader of that key found is still its value |
| `LinearizableCorrect` | `Spec => Linearizable` | each step is one of `AtomicStore` or leaves it unchanged (`AtomicStep`): a call takes effect in its body; by `CloneSafe` a deleted object is cloned only where `AtomicStore` allows garbage |

They hold for any set `Once`, the empty one included: with all keys put at will only
reads of a key that is overwritten under them are affected, which the run
`kvstore_torn` shows to happen.

`LinusSetsProofs` proves, for every number of nodes and degrees, all sets of users
and projects and all commits, from `LinusSetsAssumption`:

| Theorem | Statement |
| --- | --- |
| `TypeCorrect` | `Spec => []TypeOK` |
| `AgreementCorrect` | `Spec => []Agreement` |
| `DeltasCorrect` | `Spec => []OnlyDeltas` |
| `DegreesCorrect` | `WellFormed => (Spec => ComputesDegrees)` |

Their inductive invariant, `Inv`, says what the properties leave open. `ControlInv`:
where nodes can be: a node is done exactly after the last stage, node 0 awaits
nothing but in `merge`, and the labels between stages go with the stage. `PublishedInv`: exactly which frames are in the
store, given where their nodes are; so a frame is written once and, once awaited,
final. `OrderInv`: a node goes on only with what node 0 has announced, so nodes are
at most one merge apart. `FrameInv`: what
a frame holds, the new ids of its node's commits relative to what was announced
before, and the union for node 0's; `SetsInv`: a node's `uSet` and `pSet` are what
was announced plus what it found since; `FreshInv`: what it has in hand. The
refinement then needs only that the union over nodes of locally new projects,
after one of `ProjectsOf`, is what is new in it globally, and that everything a
stage finds again was announced before. `WellFormed` is needed:
`MCLinusSets_unknown.cfg` has a project tagged that `Degrees` would not tag.

`BytesProofs` proves about `Serializer`, for every first capacity and every sequence
of additions of any bytes but none, from `SerializerAssumption`: `BoundsCorrect` (`[]InBounds`),
`GrowthCorrect` (`[]TightGrowth`) and `BytesCorrect` (`KeepsBytes`). Neither of the
first two is inductive without the other facts of `BufferIInv`: that a factor fits
(`FactorFits`) needs a capacity that is not zero, hence `capacity >= Initial`. The
specification there, `BufferSpec`, is any use of Serializers; `SerialUsesBuffer`
proves that `Serial` is one.

About `Serial` it proves `RoundTripCorrect` (`[]RoundTrip`), for all messages, arrays
and frame descriptors, of any length and with any bytes in a Value. Assumed are
`GarbageApart` (`Garbage` is no number and no bytes), that keys and columns have
names, and that a frame has as many columns as types. The inductive invariant is
`SerialInv`: the calls made so far and those left are those of the object
(`Progress`), the buffer holds the bytes of the calls made and no others, and what a
PUT or REPLY carries are all the bytes of the array or frame it is to be unpacked to.
So at the end the buffer holds the bytes of all calls, and what remains is one lemma
per class, each from those of its parts: whatever bytes come after them, its
constructor takes from its bytes the object and leaves the rest. That the rest is
arbitrary is what makes them compose. Lists (`Many`, `ReadTimes`) are by
induction over the items read. `add_buffer` refuses an empty string, so for the abort
it is enough that an object without one (`Sendable`) has no empty call.

It proves about `Sorer`, for files, buffers and samples of any length, from
`SorerAssumption` (files are of the bytes the code tells apart, parts lie within
them):

| Theorem | Hypothesis | Statement | Inductive invariant |
| --- | --- | --- | --- |
| `HandsOutLinesCorrect` | `Readable` | `HandsOutLines` | `ReaderInv`, `HandedInv` |
| `TypeCorrect` | | `Spec => []TypeOK` | `ReaderInv`, `ParsedInv` |
| `RowsCorrect` | | `Spec => []RowsAreLines` | and `RowInv` |
| `SchemaCorrect` | `Readable` | `Spec => []SchemaIsJoin` | and `HandedInv`, `GuessInv` |

`BufferInv` says that the buffer is a stretch of the file and `At` where in the file
the reader is; `LineInv`, that the line it keeps is what it has passed since `Here`,
the last newline before that, or that there is none to keep. `HandedInv` follows:
what was handed out are the lines that end up to `At`, which is why a line that
ends with the buffer, is longer than it or follows an empty rest is neither lost,
cut nor repeated. The exception, a rest without a newline handed out at the end of
the file, has its own disjunct. `Readable` is needed: `MCSorer_parts.cfg` shows a
part without it. `GuessInv` rests on one lemma, `GuessJoin`: one more guess is the
type of one more text, for any set of texts seen. In `RowInv` column `c` has the values of
the lines with at least `c` fields (`HavingIn`); lengths are equal only if these
sets are, hence `RowsCorrect`.

`ColumnProofs` proves about `Column`, for every capacity, number of nodes and
number and choice of values, from `ColumnAssumption` and the hypotheses named:

| Theorem | Hypothesis | Statement |
| --- | --- | --- |
| `OnceCorrect` | `NamesApart` | `Spec => []SegmentsPutOnce` |
| `PartitionCorrect` | `NamesApart` | `Spec => []LocalPartition` |
| `RoundTripCorrect` | `NamesApart`, `SameCapacity` | `Spec => []RoundTrip` |
| `TypeCorrect` | `NamesApart`, `SameCapacity` | `Spec => []TypeOK` |

`NamesApart` says that no column gets more than `Limit` segments, past which
`snprintf` cuts their names; `SameCapacity`, that a reader's capacity is the
writer's. Both are needed: `MCColumn_names.cfg` and `MCColumn_capacity.cfg` are
the counterexamples. The invariant relates three places a value can be:
`ShapeInv`, how many segments were put and how long the unfinished one is, given
the size; `StoreInv`, that segment `i` in the store is the `i`-th stretch of the
values pushed, under its own key; `CacheInv`, that the cached array is the segment
its key names. `RoundTrip` alone says nothing of values that no read has asked for.

`RegistrationProofs` proves for every number of nodes and every backlog, from
`RegistrationAssumption` alone: `TypeCorrect` (`[]TypeOK`), `NoAssertFailsCorrect`
(`[]NoAssertFails`) and `HandsOverCorrect` (`[]HandsOver`). Its invariant has
`PlaceInv`, what a node has done given where it is; `QueueInv`, that a connected
client waits in the backlog, is being registered or is registered, in one of these
places and once; `ControllerInv` and `ClientInv`, what the two sides know at each
point; and `WireInv`, the heart of `NoAssertFails`: what is on each stream until its
reader has read the first message. A DIRECTORY is always first on its stream,
although registered applications send requests before other clients have theirs.

`ClusterProofs` proves for every number of nodes and all scripts, so for those of
`Linus`, from `ClusterAssumption` alone: `TypeCorrect` (`[]TypeOK`) and
`ReplyMatchesCorrect` (`[]ReplyMatchesRequest`). The invariant is `RequestInv`: of
what an application awaits on an end there is at most one thing under way, the
request on the wire, the key in the hands of the serving thread, the Reply on the
wire back, or the Reply in the queue, and it is about the key that is awaited; on an
end where nothing is awaited there is nothing. The property itself speaks of the last
place only. The lemmas `PassRequest` to `PassTakenBack` are the ways of a request
through these places, whatever else is sent, lost or taken on the two wires. Streams
that are opened twice and entries of `connections_` that are overwritten make no
difference to it, because a Reply is sent on the stream of its request.

It also proves `GetFindsKeyCorrect`: `Spec => []GetFindsKey` for all scripts that are
`Causal`. `GetFindsKey` says nothing of the messages under way, so it is not inductive.
`CInv` is: `StarInv`, that a node other than the controller has one stream to the
controller, the registered one, so that what it sends there stays in order; `NodeInv`
(`Placed`, `Told`), that what a node put is at home or behind it on the controller's
streams, and that what it was told of is there for it; `StoreInv` (`Settled`), that a
key in the controller's store has what was put before it in place; `WireInv` and
`HeldInv` (`Ahead`), the same of a message on a wire or in the hands of a serving
thread: what it announces is ahead of it or has arrived. Each action has lemmas about
what it adds to the wires and stores, and `Grows` says that whatever has arrived
stays.

`TransportProofs` proves for messages of any number and size and buffers of any
capacity, from `TransportAssumption` (no empty message; a request has an answer):
`TypeCorrect` (`[]TypeOK`); `WholeCorrect`, that a message in hand is one message of
the peer's with every chunk once and in order; and `ReplyAwaitedCorrect`, that a Reply
is queued only while a request of its side is unanswered. What is in hand followed by
what is in the buffer is one sequence, `Stream`, which `recv_bytes` does not change
(`ConcatMove`). `StreamInv` says of it that each chunk goes on with the message of the
one before or follows a whole one, and that it ends where the peer's threads are: with
the k-th chunk of the message that one of them is sending, or with a whole message.
`PlaceInv` gives the lock, so that only one of them can be in the middle of a message;
`RequestInv` is that of the cluster, for chunks.

`FifoCorrect`, `Spec => Fifo`, is that `Transport` implements `Channel`: with the
invariants above each step is a `Send` or a `Recv` of `Channel` or leaves the frames as
they are. A send's first chunk is a new frame, its other chunks are none; a receive's
steps move chunks from the buffer to the hand, which leaves `Stream` and so the frames,
and its last takes the only frame in hand. The lemmas on `Rank` and `Heads` (the heads
of a sequence followed by a chunk, and of a tail) are by induction, which is done over
sets of naturals: a set that is not empty has a least member (`WFMin`).

`FrameProofs` proves for every number of nodes, columns of any types, segments of any
capacity, frames of any number of rows and any addresses, from `FrameAssumption`:
`OneOwnerCorrect` (`[]OneOwner`), `RowsOnceCorrect` (`[]RowsOnce`) and
`LocalReadsCorrect` (`[]LocalReads`). None of the three is inductive, and one
invariant, `IInv`, gives them all. `Owns`: the strings at the places of a node's Row
and arrays are those in its heap, each at one place. A step empties some places and
fills others with fresh strings; `Moved` says that this is all `Owns` asks for, and the
lemmas from `FieldSet` to `Dropped` that each `new`, `clone` and `delete` of the code
is such a move, and what the fields and arrays it does not touch go on to stand for.
While the frame is written, `SegmentInv` has segment `s` hold the `s`-th stretch of its
column, `ColumnInv` has the array hold what is not in a segment, by how many columns
the current row has reached (`Count`), and `WriterInv` says that a Row has every field
of the row being added, set then or before. Once it is published, `FrameInv` says that
all columns have all rows (`Complete`), so that row `r` is value `r % Capacity` of
segment `r \div Capacity` in each (`InSegment`). `ReaderInv` says that an array stands
for the segment its number names, and that a Row in the hands of a Reader has the
fields of one row in the columns that are done, though those columns are filled one by
one; `VisitInv`, which rows a node visited and which it has left. That rows are
visited once over all nodes follows because a row is local to one node (`OneNode`):
`local_indices` depends on the first column's segments alone, and every column's
segments are homed alike. The abort of `fill_row` is confined to a `local_map` of a
frame without rows (`RowLeft`), which does happen (`MCFrame_empty.cfg`).

Left to TLC: `AllDelivered` and all other liveness (TLAPS does not reason about
`ENABLED`); what `ToInt`, `Prefix` and `Scanned` compute of a text, which the theorems
about `Sorer` take as it is; and `Causal` of the scripts of `Linus`: TLC evaluates it
on the instance. Every invariant the runs check is proved.

## What is not modelled, and why

- The contents of messages in `Cluster` and `Transport`, which carry records;
  `Serial` shows that bytes make no difference.
- `clone` of a column, which nothing calls, and `equals`, `hash` and printing of
  all classes.
- `fromArray` and `fromScalar`: the pushes and the end of a single column, which
  `Column` has.
- Numbers: the value of an `int` or `double` field is abstract everywhere but in
  `Sorer`.
- Data races as such: `connections_` is an `unordered_map` changed by two threads
  without a lock, `replies` a `std::queue` used by two. A torn map or queue is
  undefined; the models take each operation on them as one step and show what
  goes wrong even so.
- A Writer that leaves a string of the first row unset: `push_back` then clones a null
  pointer (`column.h:496`), although the comment at 461 calls null a valid value. In
  `Frame` a Writer sets every field in the first row.
- Socket errors other than a peer that has gone. Code that meets one asserts;
  bytes sent to a process that has exited are lost in the model.
- A Connection overwritten in `connections_` is never joined. In `Cluster` its
  thread ends with its process, which is so for Linus; the tests run several
  nodes in one process, where it outlives its store.
- Random column identifiers are taken to be unique.
- Strings, printing and the base class `Object`: sequential and stateless. The
  word count of the README is test code.

## Plan

1. (done) The local store with its proofs; registration; the cluster and Linus on
   it; the connection; the column; the sorer.
2. (done) The tagging algorithm against `Degrees`, with proofs; the serializer
   and all that is serialized; frames of several columns with their rows.
   Left: teardown with an orphaned connection, several nodes in one process.
3. (done) Prove about the store, the tagging algorithm, the serializer, columns,
   registration, the cluster and the transport, down to the FIFO that the transport
   implements and the reads that find their keys, frames, the sorer and the round
   trip of what is serialized. Left: `Causal` for every number of nodes of Linus.
