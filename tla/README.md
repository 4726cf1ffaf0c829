# A TLA+ model of zigbee-mqtt

The repository is a gateway between zigbee coordinators, which speak binary
frames over TCP, and an MQTT side, which speaks JSON.  It is two programs:

* **serid** (C, `serid/src`): accepts the coordinators' connections, turns their
  frames into JSON for the uplink, and turns the JSON commands that come back
  into frames for the coordinator they name.
* **mqtt_client** (Python): a TCP hub that sends what each client says to every
  other client, and a subscriber to an MQTT broker that logs what it hears.

## Inventory

| component | state | operations | interacts with |
|---|---|---|---|
| event loop, `main.c` | descriptors, epoll set, the batch being handled, (default build) a POSIX message queue in the kernel | epoll_wait; accept; recv/decode/register/send up; close; command in/route/send; mq_receive; UDP read | the kernel's sockets and queue; the codec and the table by calls; hub and coordinators by TCP |
| coordinator table, `coor.c`, `list.h` | linked list of (coordinator id, descriptor) | coor_add, coor_find, coor_findfd, coor_del, coorfd_fini | called by the loop only; coor_del and coorfd_fini by nobody |
| codec, `serijson.c` | none between calls | seri_msgproc (frames to one JSON document), json_msgproc (document to one frame) | called by the loop; uses cJSON |
| hub, `infra/tcp.py` | list of client threads, a counter | accept and start a thread; receive, broadcast, drop a failed client | serid and any other client by TCP; its threads by the shared list |
| subscriber, `infra/mqtt.py` | a message counter | receive and log 99 messages, unsubscribe, disconnect | an MQTT broker |
| cJSON, parser and printer | the text and the position in it; the buffer printed into | parse, print into a buffer that grows, is guessed or is given; minify | called by the codec; malloc |
| cJSON, tree functions | items linked by next, prev and child; keys and values, owned or not | create, add, refer, detach, insert, replace, duplicate, delete, look up | called by the codec; malloc |
| configuration, logging, device classes, test scripts, `mqtt.c`, cJSON_Utils | none over time | - | - |

serid has two builds.  `MQTT_EXTERNAL` connects to the hub; the Makefile does not
define it, and that default build sends the documents to the message queue
`/zigbee-mqtt`, which only serid itself reads.

What is hard in this code:

* the epoll set is edge-triggered for the sockets and level-triggered for the
  queue; every handler takes one thing per event, so what is left over depends
  on the order of arrivals;
* a descriptor number is a name that the kernel reuses, and the table keeps it
  after the connection it named has gone;
* one thread does everything with blocking calls, among them one that waits for
  itself;
* TCP has no message boundaries and the codec assumes them;
* byte orders are exchanged, and numbers become decimal and hexadecimal text and
  numbers again, several times on the way of a command;
* values that are never initialised reach the table;
* crashes leave the queue behind;
* the hub's threads share a list without a lock, and any exception outside the
  one `try` ends a thread;
* both programs send on blocking sockets, serid in the thread that also reads;
* cJSON counts what a string will need in one loop and writes it in another,
  reserves what it prints from estimates, and has to free what it has built when
  anything fails;
* items of cJSON share children and values, and two flags say who owns what.

What makes each component correct: the loop loses no wakeup, never waits for
itself, serves and closes every client; a command goes to the connection of the
coordinator it names; the table is a map; the codec maps every whole frame of a
chunk to a device, and a device back to the same bytes; the hub's list holds the
live clients, every client receives the others' data once and in order, and one
client's failure is not another's; serids and hub do not wait for each other; a
text is read within its bounds and as what it says, what is printed fits and is
read back; every item and string of a tree is freed once, and a call changes
the list it is given.

## Modules

| module | what it is |
|---|---|
| `CoorMap` | what the coordinator table promises: a map from ids to descriptors |
| `CoorTable` | the linked list of `coor.c` on `list.h`, node by node; `ImplementsCoorMap` is the refinement |
| `CoorTableProofs` | theorems about `CoorTable`, the refinement among them |
| `Chunks` | what the event loop needs of the codec: which coordinator ids a chunk of frames may yield |
| `Serid` | the event loop, on top of `CoorMap` and `Chunks` |
| `SeridProofs` | theorems about `Serid` |
| `SeriCodec` | `serijson.c` on bytes; instantiates `Chunks` and shows that its ids are among those |
| `SeriCodecProofs` | theorems about `SeriCodec` |
| `TcpHub` | the hub: the accepting thread and a thread per client |
| `TcpHubProofs` | theorems about `TcpHub`: its list and threads, who is left out, the order of what arrives; and the one about `Gateway` |
| `Gateway` | serids on the hub: extends `TcpHub` with the thread of each serid, its way to the hub and its coordinator |
| `JsonBytes` | bytes, literals and values, shared by the next three |
| `JsonParse` | cJSON's parser, byte by byte |
| `JsonPrint` | cJSON's printer and its growing buffer |
| `JsonText` | the two together: reading, printing, minifying and reading back, against a rendering of values |
| `JsonProofs` | theorems about `JsonParse` and `JsonPrint` |
| `JsonList` | cJSON's items as memory cells, and the functions that link and free them |
| `JsonTree` | a client of cJSON's tree functions, on top of `JsonList` |
| `JsonForest` | what that client may rely on: items in sequences, without pointers; `ImplementsForest` is the refinement |
| `JsonTreeProofs` | theorems about `JsonList` and `JsonTree` |
| `JsonForestProofs` | the refinement: `JsonTree` implements `JsonForest` |
| `Recursion` | lemmas: induction and recursion over intervals and finite sets, `FlattenSeq` |
| `MCCoorTable`, `MCSerid`, `MCSeriCodec`, `MCTcpHub`, `MCJsonText`, `MCJsonTree` | symmetry sets, and the frames, documents and texts for TLC |

Lines that begin with "Mutant" define a wrong variant of the definition after
them, the way a slip in the code would change it.  They are used by no
specification; each property of a passing run has one that breaks it.

### CoorTable

`pfirst` and `node` are the list head and the bytes of the heap cells; a freed
cell keeps its bytes.  `live` is what malloc handed out.  `Visited` is the walk
of `SL_FOREACH_SAFE`, so a lookup is what the pointers say and not what the list
is meant to be.  `coor_add` rebinds, inserts at the head, or silently does
nothing when malloc fails; `coor_del` unlinks and frees; `coorfd_fini` frees
everything and then the first node again, which ends the process.

### Serid

A step is one `epoll_wait` or the handling of one event.  The state is what the
kernel and the process hold:

| variable | code |
|---|---|
| `phase` | where the thread is: in the loop, in a blocked `mq_send`, in the `while (2)` of UDP, gone |
| `sock` | the descriptor of each connection, or not opened, queued, closed; descriptors are numbered as the kernel does, lowest free first |
| `peer`, `hub` | what the kernel has seen of the other side: up, FIN, RST, RST already reported |
| `rx`, `hubrx`, `udpq`, `accq` | receive buffers and the accept queue |
| `edge` | edge-triggered descriptors whose wakeup has not been reported |
| `events` | the part of the batch not yet handled; the order within a batch is not fixed |
| `coors` | the table |
| `mqlen` | messages in the queue, which outlives the process |
| `got`, `cmds`, `registrar` | histories: ids read from a connection, commands sent on it, the connection an id was last announced on |

A frame is its coordinator id, `Skip` (not for us, or from a coordinator) or
`Short` (cut short); a document is the coordinator id of its command or `Short`.
`ZigbeeRecv` is the whole handler: recv, decode, `coor_add`, and the document
sent up, with the send's failure modes.  When no frame of a chunk was ours the
id given to `coor_add` is uninitialised in the code, and any id in the model.  A
peer or hub that has reset turns the first send into an error and the next one
into SIGPIPE, as Linux does.

What the model of the loop abstracts: a frame split over two recvs is `Short`
followed by what its rest parses as; a send to a connection never blocks (that is
`Gateway`'s subject); start-up failures (bind, mq_open) that print and exit; the
UDP reply.

### SeriCodec

`stream` is what coordinators have sent, as frames; `Wire` is a frame's bytes,
`Sent` those of the first frames and `FrameEnd` where the last of them ends.
`Recv` takes any number of the bytes that follow, so frames are joined and cut
at every place.  `Seri2json` is one turn of the loop of `seri_msgproc` with
`remain`, `id` and `old_id` as its locals; the document is `dev`.  The same
document is then what `json_msgproc` works on, in the serid at the other side of
the hub: `JsonMsgproc`.  Numbers are what the code makes of them: `Swapped`
exchanges the bytes of a ushort (`High` and `Low` are its bytes), `Decimal` is
`"%05d"` digit by digit, `Printed` writes the characters of `"%02x"`, and `atoi`
and `hextodec` read digits of one base or the other (`Number`).

The device type of a frame is turned into its name by `seri_dev_modestr`; the code
indexes that table without a bound (serijson.c:127), and `FrameAssumption` keeps
the types in it.

Left out: the readings (temperature, humidity, switch state, discovered type) that
are copied out of some TLVs for display; the JSON syntax, which is `JsonText`'s;
values and documents too long for the code's buffers (`FrameAssumption`); and
what the rest of a cut frame is taken for at the next recv, so `Recv` begins at
the start of a frame.  Of a command with several devices only the first is
encoded (`Encoded`): the code overwrites the list of devices with the TLVs of
the first one (serijson.c:312).

### TcpHub

The state is the list, the locals of each thread with its place in the code
(`accpc`, `pc`), and what the kernel holds for each client.  Under CPython's
interpreter lock a list operation is atomic and a statement is not, so the steps
are the single operations: `Accept` (accept, construct, append), `ComputeIndex`
and then `Start` or `Announce` (`len(connections) - 1`, and the subscript it is
used for), `NextClient` (one advance of the `for` over the list, whose iterator
is an index), `RemoveSelf`.  `Sendall` hands over what the receiver's buffers
take and goes on when there is room.

The error of a reset connection is reported once, to whichever thread calls
first: its own recv (`RecvFails`), which removes the client, or another's
sendall (`SendallFails`), which ends that other thread and leaves the reset
client on the list, with its own thread reading nothing for ever
(`RecvNothing`); that is also what a client's plain close leads to, although
the comment at tcp.py:27-28 has it removed.

`out`, `due` and `shifts` are histories: what each client was handed, whom a
broadcast has still to reach, and the removals behind its iterator.

Left out: an accept that fails, and `main.py`'s start-up, which starts the
accepting thread.  A client connects once; a returning one is a new client to
the code, with a new id.

### Gateway

Every client of `TcpHub` is a serid of the external build.  `thread` is where its
only thread is: in the loop, in `send` to the hub (main.c:304), in `send` to a
coordinator (main.c:244), or gone.  The way from a serid to its thread in the hub
holds `UpMax` documents (`rx`), the way back `OutMax` pieces (`unread`), the way
to its coordinator `CoorMax` frames (`coorq`); at the limit the sender waits.  A
serid that waits reads nothing, which is what `TcpHub` leaves to chance.
`Deaf` are the serids whose coordinator never reads.

Three things hold a broadcast up, and the run has a state with each of them:
serids and their threads in the hub that wait for each other in a circle
(`Circle`), a serid that waits for a hub thread that has ended by the reset of
another client (`Unheard`), and a serid that waits for its coordinator
(`Unread`).  `BroadcastEnds` says that nothing else does, `CircleNeedsTalkers`
how many talkers a circle takes and how much each must have sent.

Everyone is connected and accepted at the start; accepting, and closes without a
reset, are `TcpHub`'s.

### JsonParse, JsonPrint, JsonText

`JsonParse` has an action for each piece of a parse function between two calls of
another one, and the C stack as `stack`, a frame per list that is being built.
Offsets are the code's.  `buffer_skip_whitespace` steps back from the end as the
code does; `parse_string` is its three parts, the loop that counts (`ScanString`),
the allocation (`AllocateOutput`) and the loop that writes (`CopyPlain`,
`CopyEscape`).  `owned` counts allocations, and a frame's `count` what
`cJSON_Delete` of its list would free, so a failure path frees what the code
frees there (`CopyFails`, `Unwind`).  Each allocation may fail.

`JsonPrint` keeps in `todo` what is left to print: values, and writes that say
what they reserve with `ensure`, what they write and how far they advance.
`Fits`, `Grow`, `CannotGrow` and `NoRoom` are the ways through `ensure`; a raw item
without text and an item without a type make `print_value` give up
(`Unprintable`);
`update_offset` is the distance to the next zero byte in what was written.  The
callers are `print`, `cJSON_PrintBuffered` and `cJSON_PrintPreallocated`, with
and without a reallocate.  `Values` is any set of values that contains what its
members contain; `PrintSpec` is the printer called with one of `Documents`, as
`ParseSpec` is the parser called with any text.  `StaysInside` has two parts:
what is written lies inside the buffer, and `update_offset`, which looks for a
zero byte without a bound, finds one in what was written.

`JsonText` parses any text of `Texts`, or prints a value of `Documents` and parses
what was printed, minified or not.  `Render`, `Nesting` and `Allocations` say
directly what should come of it.

Abstracted: a number is the digits it is written with (what `strtod` and
`printf` make of a double is theirs; which bytes of a text `strtod` takes is
modelled); a NULL string is printed as the empty one it stands for; raw items are
printed but not read back, so `RoundTrip` says of them that they are printed and
`FirstDocument` nothing; `cJSON_Minify` is modelled for texts whose strings and
comments end, and reads behind the others.

### JsonList, JsonTree, JsonForest

`JsonList` is the memory: an item's kind, `next`, `prev`, `child`, name and value,
the flags `cJSON_IsReference` and `cJSON_StringIsConst`, and the number of
allocated keys and values.  A function of the code that links, unlinks or frees
is an operator from a memory to a memory; the recursion of `cJSON_Delete` and the
walks along `next` are least closed sets (`Doomed`, `Chain`), which the provers
can handle.  The recursion of `cJSON_Duplicate` keeps its stack: `CopyNext` is one
turn with a frame for each copy that waits for its children.

`JsonTree` is a client that calls everything in any order, with allocations that
fail at any place, as cJSON's README allows: it adds what it owns and what is in
no tree yet, and nothing into itself; it changes containers, not references to
them.  `roots` are the items it holds.  `lost` and `unnamed` are histories of the
two failures that the functions do not report: an item that was given to a call
that put it nowhere, and a replacement whose key became NULL, after which a
lookup by case may crash (`Crash`).  A duplicate is taken of what can still be
read (`Readable`): a reference is not followed to what has been freed.  What
a copy holds is `CopyIsIdentical`'s: it copies every readable item of every state
into fresh memory, beyond the run's cells, so that a copy is never too large for it.  Constant keys are
shared by a copy and its original, as cJSON has it.

`JsonForest` has no pointers: items hold sequences of items, and a step puts one
into, takes one out of, or replaces one in, the sequence it is given, loses it, or
makes a tree.  `ImplementsForest` is the refinement.

Abstracted: numbers in items, `cJSON_SetNumberHelper` and the hooks;
`cJSON_Compare` and `cJSON_Is...`, which change nothing; calls with NULL or
negative arguments, which return at once.

## Runs

| run | question | bounds |
|---|---|---|
| coortable | is the list a list of the live nodes, and does it behave as the map? | 4 ids, 2 descriptors, 3 cells: head, middle, end and a full heap |
| routes | can a wakeup be lost, and how can a route be wrong? | 2 connections, 2 ids, external build, one event per batch, resets, crashes, a backlog of 2 |
| queue | can a read block, and must the default build hang? | 2 connections for 1 descriptor, a backlog of 1, foreign frames (after which any of 2 ids may be bound), UDP, room for 2 messages of which 0 or 1 was left by an earlier run, crashes and restarts |
| liveness | is a client that goes on sending, and the hub, read from again and again? | external build, 2 connections, buffers of 2 and a recv of 1, so that a recv may leave something |
| codec | what is left of a frame after text and back, wherever a chunk ends? | up to 3 frames of 5 kinds: no TLVs, the most a command can carry, one byte more, another address, a coordinator's; chunks of every length |
| hub | what does the list hold, what arrives, what ends a thread? | 3 clients, one of them sends twice, buffers of one piece, FIN, RST and undecodable data at any point |
| gateway | what can serids, hub and coordinators wait for? | 2 serids that send up to four times each, every buffer of one, crashes, one coordinator deaf |
| jsontext | is anything read or written outside, leaked, or read back as something else? | 14 documents with every kind of item, printed in both formats into 8 sizes of buffer; all cuts of them and pairs of them, all sequences of 4 tokens, all strings of 3 pieces of escape sequences; nesting of 2, every allocation failing |
| jsontree | is everything freed once, and does a call do what it promises? | 3 items (objects, texts, and arrays that are created with a member), 2 names that differ in case, one reference, one silent failure, arrays of 2 |

Two connections are the least with which one can take the other's descriptor,
and with which one can be left behind in the accept queue; with one descriptor
for the two, a batch can close the first and accept the second under the same
number, and an accept can fail.  One event per batch is fewer than can be ready
at once; where batches are as large as the code's, all that is ready is in one.  The queue's room of two stands for the
kernel's ten: what happens at the limit does not depend on it.  Three frames
give a first, a middle and a last one in a chunk; the addresses and values of
the frames have bytes that differ from each other the other way round.  In the
hub, with a sender and two receivers one can be removed while the other is being
sent to, and a buffer of one piece makes each sendall of two go in parts.  Four
documents of a serid are the least with which a circle closes: one being sent on,
one in the hub thread's way, one on its way and one in the thread.  The default
buffer of the printer is 4 bytes and `INT_MAX` 60, so that the smallest document
grows it and the largest does not fit; the nesting limit of 2 is met by documents
and exceeded by one.  Three items make a list of two in a container, or three
levels; a list with a middle takes four, which only the theorems cover.  The
theorems below hold for every value of the constants.

Runs that refute what the repository says (each is a finding):

| run | the text | what happens |
|---|---|---|
| misroute | main.c:239, a command is dispatched to the descriptor of its coordinator | after close and reuse it goes to a stranger |
| mqsend | main.c:296-298, the document is sent to the server | the send never returns once the queue is full |
| fdleak | main.c:312-317, a client's close is noticed | not when its FIN came with its data |

Routes that an uninitialised id changed are in the queue run's states, but with
one descriptor there is no wrong one to name; that even they go stale only by a
close is the theorem `StaleRoutesComeFromClose`.

Three properties come with a condition that the code makes necessary.  A
handler calls recv once per edge, for `MAX_BUFFER_SIZE` bytes (main.c:229, 288),
and the sockets are edge-triggered: what a fuller buffer holds beyond that lies
there until more arrives, for ever if nothing does.  `MaxLeft` is how much that
can be, and `NoUnreadWithoutWakeup`, `FramesRead` and `CommandsRead` speak of
what is more than it; where a recv empties every buffer (`RecvMax` at least
`RxMax`) they say that everything is read.  In the liveness run a recv takes half
of a full buffer; in the routes run it takes all of it.  And what `CommandsRead`
says to be read need not be obeyed: of the documents one recv returns the first
is encoded.

The mqsend run shows that the default build can wait for itself for ever;
`BusyQueueHangs` shows that it has to, under clients that go on sending: the
queue's messages are larger than the buffer, so `mq_receive` fails and takes
nothing, and each document makes the queue fuller, across crashes and restarts,
unless an empty datagram stops the thread before that.

What the models also show and no run is spent on: the last frames of a buffer
that held more than one recv takes wait for the coordinator's next word
(`ZigbeeRecv`, main.c:288); a chunk of foreign frames
rebinds an arbitrary id (`CoorIds`, serijson.c:385); an empty datagram followed
by silence holds serid's thread in the UDP loop (`UdpRecvfrom`, main.c:202); of
two clients that connect within one edge the second waits for a third
(`Accept`, main.c:186); one dead receiver ends the sender's thread in the hub
(`SendallFails`); a client left out of a broadcast because another was removed
from the list (`MissedOnlyByRemoval` bounds how many); a client that leaves at the
wrong moment makes a subscript of the accepting thread fail and ends it
(`IndexError`, tcp.py:65; `AcceptorDiesOnlyByRemoval` says when); two serids that
talk at once can bring serids and hub to a halt (`Circle`, main.c:304 and
tcp.py:47); `cJSON_ReplaceItemInObject` with a name that is not there, or without
memory for it, loses the replacement (cJSON.c:2227-2230).

### Fairness

`Serid!FairSpec` assumes weak fairness of `LoopStep` as a whole: the thread is
scheduled and a blocking call that can return does.  Nothing is assumed of
peers, hub, operator, or of the order of events in a batch.  `Gateway!FairGateway` assumes
weak fairness of each thread of the hub, which the interpreter's switching between
threads gives, of each serid's thread, and of the coordinators that are not deaf;
that a serid reads what the hub sends is not assumed but follows when it is not
blocked, and nobody has to send.  `SeriCodec!FairSpec` only has
`seri_msgproc` run on once it is called.

## Proofs

`SeridProofs` proves, for any number of connections, ids and descriptors, any
sizes and either build, from the named assumptions of `Serid` and `Chunks`:

* `LoopInvariant`: `LoopInv` is inductive.  `TypeOK` alone is not: that
  `mq_receive` never meets an empty queue (and so that the length stays a
  natural number) needs `EventsReadable`, which needs that the accept queue
  holds only unaccepted connections, each once (`QueueSound`), and that a batch
  is empty or free of UDP where the phase says so (`BatchSound`).
  `TypeCorrect` and `BatchNeverBlocks` follow.
* `ListenerNotWedged` and `NoFrameForgotten` from `WakeupKept`: a readable
  descriptor keeps its wakeup through every step but its own handler, and that one
  leaves at most `MaxLeft` behind (`LeftBound`).
* `StaleRoutesComeFromClose`, `RoutesAreAnnounced`, `MisroutingNeedsReuse` from
  `RouteInv`, with `FdsDistinct` (a descriptor has one owner) as the lemma that
  ties a descriptor in the table to a connection.

`CoorTableProofs` proves, for any number of ids, descriptors and cells:

* `TableTypeCorrect` and `ListIsSound`, from `TableInv`: as long as nobody has
  called `coorfd_fini`, some sequence of distinct live cells with distinct ids
  `Holds`, which says that the list head is its first cell, each cell's next the one
  behind it, and the last one's is NULL.  The walk of `SL_FOREACH_SAFE` yields
  that sequence, a node at the head of it goes in front of it, and the loop of
  `sl_del` takes one cell out of it wherever it is.
* `ListImplementsMap`, the refinement `ImplementsCoorMap`, action by action: what
  a lookup finds on the list is what the map holds, so `coor_add` and `coor_del`
  are steps of the map or change none of its answers.

`TcpHubProofs` proves, for any number of clients and any amount of data, every
safety property the hub's run checks, from the named assumptions of `TcpHub`:

* `HubInvariant`: `HubInv` is inductive.  `ListSound` needs that the clients
  waiting for accept are queued ones, each once (`QueueSound`), and that the ids
  on the list are below the counter whenever the next one is given out
  (`IdsBelow`); that a loop is never sending to its own client
  (`TargetSound`) comes from the ids' being different.  `HubTypeCorrect` and
  `ListIsSound` follow.
* `AcceptorNeedsRemoval` from `AcceptorSound`: until some client has removed
  itself, the last element of the list is the client the accepting thread has
  just appended, so its subscripts are in range and the thread it starts has not
  been started.
  `DeathsHaveCause` from the causes themselves, none of which goes away.
* `LeftOutOnlyByRemoval` from `MissedSound`, an account kept while a loop runs:
  the clients still due that the iterator has passed (`Passed`) are never more
  than the removals behind it.
* `OrderKept` from `StreamSound`: what a client has sent is received, taken up by
  the loop, being sent, handed on, and stays in this order (`Pipeline`,
  `Handed`); whoever the iterator has still to come to has nothing of the
  current data, and whoever is being sent to nothing of the rest
  (`NothingTwice`).  A removal can move a client from ahead of the iterator to
  behind it but never back, which is why a client may be left out and none is
  served twice.

Of `Gateway` it proves `HaltNeedsTalkers` for any number of serids, talkers and
sizes, from `TalkInv`: only talkers send, no hub thread sends to its own
client (so that nobody waits for itself), and what fills the way to the hub was sent, with
the document that the waiting hub thread holds on top.

`SeriCodecProofs` proves, for any frames in any order, cut anywhere:

* `CodecTypeCorrect`, `WholeFramesAreDecoded` and `IdIsAsLoopExpects` from
  `CodecInv`, whose heart is `ChunkRead`: the chunk begins where a frame ends,
  `decode` stands where a frame ends or the chunk does, and the devices it has
  `Listed` are those `Picked` from the frames between the two.  That it stands
  there needs that a frame is as long as its bytes say (`FrameEnd`,
  `TlvsRead`), through the exchanged byte orders of its length fields (`Orders`).
* `CommandsReturn`: a device's numbers survive being printed and read, decimal
  (`DecimalRead`) and hexadecimal (`HexRead`), and its values the way through pairs
  of digits, so that what `seri_msgproc` makes of a document is what was received.

`JsonProofs` proves of the parser, for every text without a zero byte, every
nesting limit and number buffer, and whichever allocations fail:

* `Reading`: `ReadsInside`, from an invariant that ties the offset to the end of
  the content at each place of the parser.  It needs that the content ends with
  its only zero byte: that is why the parser may look, without asking, at a byte
  behind one it has seen to be no zero, and why white space leads back to it.
* `Copying`: `StringFits`.  What is left to write never needs more room than is
  left: every byte the second loop passes costs at most one byte of room, a
  sequence of six or twelve at most three or four, and each backslash the first
  loop skipped is paid by the sequence that begins with it or lies within one.
  The two loops need not agree on which bytes are escaped.
* `ParsingFrees`: `ParserFrees`, the part of `NothingLeaked` that says that a
  failure frees everything and a success owns what the root item holds.
  `Accounts` is a running sum over the lists on the stack: what they hold, with
  the output of the string being copied, is all that is owned.

and of the printer, for any values, both formats, any buffer and any `INT_MAX`:

* `Printing`: `StaysInside`, from `PrintInv`.  Each write of `todo` has reserved what it
  writes but for one byte, for which `ensure` adds one; the depth that an object
  indents by is never below what the brackets still open need (`Passage`, along all
  of `todo`); and whatever stands before an `update_offset` `Ends` with a zero
  byte that nothing between overwrites.  That a string's reserve suffices is
  `StringWrite`: the loop that counts and the loop that writes agree, byte by byte.
* `PrintingFrees`: `PrinterFrees`, the part of `NothingLeaked` about the buffer.

`JsonTreeProofs` proves about the functions of `JsonList`, for any number of items,
what `TreesSound` says of links (`Linked`): appending, detaching, inserting in
front of any member, replacing any member and deleting what is in no list each
lead from a well linked memory to a well linked one (`AppendLinked`,
`DetachLinked`, `InsertLinked`, `ReplaceLinked`, `DeleteLinked`, `NewLinked`), and
every list has an end (`ListEnds`), so the walks of the code stop.  On top of them
it proves, for any number of items, any names and whichever allocations fail, that
every call of `JsonTree`'s client keeps the memory `Sound`:

* `Linked` is not enough for a client: a list could hang from itself, or from
  nothing.  `Tied` adds that the items in no list are the client's and the lost
  ones, and that every item there is can be reached from one of them (`Reached`:
  a set with the roots in it that is closed under the pointers has everything in it).  No
  item is then in a list of its own (`NotItsOwn`), an item is in one list
  (`ChainsApart`) at one place (`SoundPlaces`, with `WalkFacts`: the walk of
  `cJSON_ArrayForEach` meets every member once and ends), and what
  `cJSON_Delete` frees is what hangs from the root alone (`DoomedWhole`).
  `TreesAreSound` follows from `TreeInvariant`.
* `StringsAreOwned` from `Counted`, through deletion, renaming and every failed
  allocation; `NamesAreKept` from `Named`: a root gets its name before it goes
  into an object, but where the two failures of the code are.
* An array that is filled and a tree that is copied are sound at every turn
  (`Filling`, `Duplicating`): the copies on the stack are roots of their own until they are
  linked, what was there is untouched, and the children still to come are
  members of lists that can be read.  `Left` counts the turns, so that the stack is
  empty in the end (`CopyEnds`).

`JsonForestProofs` proves on top of that `TreesImplementForest`: `ImplementsForest`,
the refinement of `JsonForest`, call by call.  What the
forest sees of a memory is `Shows`: the children as sequences, the names, the
roots and the lost.  A list has one sequence (`ListsOnce`), so that following `child` and
`next` after a call settles what it did: it appended, inserted in front of the
member at k or took that one out (`LinkingChildren`, `InsertChildren`,
`DetachChildren`), and no other sequence is touched.  To replace a member is to
insert in front of it and to take it out (`ReplaceIs`).  What the forest says hangs
from an item is what `cJSON_Delete` frees (`SubtreeIs`), also before a member is taken
out, since its owner does not hang from it (`OwnerApart`).  What a function that
allocates leaves behind is one new tree or nothing (`MovesGrow`, `MovesNowhere`),
because all that is new hangs from the new root (`GrewIs`).  Every call is one
of the `Moves...`, and `NextMoves` puts them together.

`Recursion` is what these proofs share.  The library's induction theorems take
the property to prove as an operator, which no installed prover instantiates; here it
is the set of those that have it (`IntervalSet`), derived from the least element
of a set of naturals.  From it come recursive functions over intervals and over
the naturals, and what `FlattenSeq` yields.

Only model-checked: the liveness properties (fairness and ENABLED are out of the
prover's reach); of `JsonText` the round trip, `PreallocatedRoom`,
`FirstDocument` and the conjunct of `NothingLeaked` that counts the allocations of the value
read (`Render`, `Nesting` and `Allocations` are RECURSIVE operators over values); and of
cJSON's trees `CopyIsIdentical`, which compares images of any depth.

## Plan

1. Done: `CoorMap`, `CoorTable`, `Serid`, `SeriCodec`, `TcpHub`, `Gateway`, the
   models of cJSON, and the theorems above.
2. What follows a cut frame, and the second document of a chunk, in the codec.
3. Proofs: what the printer writes is `Render`, once that is a recursive function;
   that a copy shows what its original does.
4. A client that closes without a reset, and one that returns, in `Gateway`.

## Not modelled

* The subscriber of `infra/mqtt.py`: it counts to 99 and disconnects, and shares
  nothing with the rest.
* Configuration, logging, the device classes, `mqtt.c` and the test scripts: no
  behaviour over time.
* cJSON_Utils (pointers and patches): vendored and not linked into serid; and
  cJSON's own tests and fuzzers.
* `cJSON_Compare`, the `cJSON_Is...` functions and `cJSON_GetArraySize`, which only
  read; the arithmetic of doubles.
* Memory in the codec: that serid frees neither what it prints nor what it parses
  for a command (serijson.c:262, 416) is listed as a hazard.
