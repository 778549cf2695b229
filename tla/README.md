# f1985gfw in TLA+

Models, model-checking instances and machine-checked proofs of f1985gfw, a small
C++ game server framework: a network worker on one boost::asio event loop, a game
server on top of it, a client program, a Lua host, and an older multi-threaded
network layer (`0old/`) the programs no longer build on. Paths below are relative
to the repository root; `net_worker.hpp` is `source/net_worker.hpp`.

## The system

| Part | State | Operations | Called by |
|---|---|---|---|
| `net_worker` (`source/net_worker.hpp`) | a fixed pool of slots ("pointers"), each with status, socket, WebSocket stream, receive buffer; the outward links ("bullets") with their timers; the acceptor | `init`, `push_bullet`, `open`, `shoot`, `close`, `send`; the completion handlers of accept, connect, timer and read; `parse_data` | main programs, the io_context |
| wire format (`net_worker.hpp:107-208`, `source/common.hpp`, `source/data_packet.hpp`) | receive buffer, growing send buffer | `msg_send_guard`, `send`, `parse_data`, `resize` | handlers |
| `wan_server` (`server/wan_server.cpp`) | `m_sessions`: slot to uid | handlers of connect, disconnect, `C2S_Enter`, `C2S_Hello` | `net_worker` |
| `player_mgr` (`server/player_mgr.cpp`) | players and whether each is online | `enter`, `leave` | `wan_server` |
| `engine` (`server/engine.cpp`) | Lua state, tick timer, console commands | `init`, `on_tick`, command handlers | `main` |
| `console_reader` (`source/console_reader.hpp`) | a queue between the reading thread and the tick | `start`, `empty`, `pop`, the thread | `engine`, client |
| old `net_mgr`, `net_queue` (`0old/server/net_mgr`) | 1000 connections used in turn, each with a queue of messages; a queue of the sessions that have some; socket and worker threads | accept chains, read handlers, `push_msg`, `_close`, `_work_handler` | `0old/server/main.cpp` |
| old `net_http` | HTTP workers, each with a socket and a deadline timer | accept, read, write, `check_deadline` | ditto |
| old `fields_alloc` | a static pool with an offset and a count of blocks | allocate, deallocate | `net_http` |
| old server program (`0old/server/main.cpp`) | the accounts | register, login, echo | `net_http`, `net_mgr` |

**How they interact.** `main` builds the worker, registers handlers with
`on_connect`, `on_msg` and `on_disconnect`, calls `open` or `push_bullet` and
`shoot`, and runs the io_context in one thread. Each completion handler calls the
application's handlers synchronously. The slot is the shared state: the worker
recycles it, the server keys its sessions by it.

**What is hard.** No two handlers run at once, but what one leaves is what the
next finds: `close()` is called from reads, from the middle of `parse_data` and
from failed connects, and none of its callers stops there; slots, buffers, sockets
and streams outlive connections; each slot must always have exactly one pending
operation; peers leave at any time and reads cut packets anywhere; and the one thread
that runs all handlers, the tick and Lua is held by whichever of them blocks. The old layer
adds threads: those that post and those that handle agree on one flag, and all of
them may close a connection that is about to be used again. `PROJECT.json` lists these as hazards, each at its line.

**What makes each part correct.**
* worker: one continuation per slot; one accept chain, never ended nor forked; no
  slot, socket or link lost; a connection's stream is its own; no bytes mixed
  between connections whose peers behave, which the code gives only as long as no read
  ends within a header; lost links retried, lost peers noticed, while the loop runs.
* wire format: what is handled is what was sent, in order, for every cut, which the
  code gives as long as `memcpy` moves overlapping bytes well; a read always has room.
* server: a session exactly while connected; presence follows sessions.
* old layer: a session is served by one worker at a time, its messages in order and
  all of them; a connection never mixes two clients, which the code gives with four
  exceptions (see NetMgr below); a deadline ends the request it
  was set for and no other, and every request ends; what was granted stays true.

## Modules

| Module | Models | Relation |
|---|---|---|
| `NetWorker` | the worker: slots, accept chain, links, packet loop | |
| `PlayerMgr` | presence | |
| `WanServer` | the server, its handlers inside the worker's steps | extends both; each action is a worker's action with a handler in it |
| `DataPacket` | the buffer a frame is built in | operators |
| `Framing` | the bytes of one outward link | extends `DataPacket` |
| `FramingWorker` | the mapping from bytes to packets | `Framing` implements `NetWorker` but for a `memcpy` that does harm |
| `ConsoleReader` | the reading thread, the command queue, `pop_front` | |
| `Engine` | console commands and the Lua stack | extends `ConsoleReader` |
| `SessionQueue` | what the old layer's queues promise | abstract |
| `LinkedQueue` | head, tail and next of both queues | operators |
| `NetQueue` | the queues, lock by lock | extends `LinkedQueue`; implements `SessionQueue` |
| `NetMgr` | the old layer's connections | extends `SessionQueue` |
| `StaticPool` | the fields' memory | operators |
| `NetHttp` | the HTTP workers and their deadlines | extends `StaticPool` |
| `AccountServer` | register and login on those workers | extends `NetHttp` |
| `MC...` | instances for TLC | |
| `..._proofs` | theorems | |

**NetWorker.** One action per completion handler, the handler whole; the packet
loop of `parse_data` is a step per packet, for each calls out to the application,
and `current` keeps other handlers out meanwhile. `AcceptOk`, `AcceptFailed` and
`AcceptAborts` are the accept handler, with the next `start_accept` part of each;
`ConnectOk`, `ConnectFailed`, `HandleReconnect` the link; `ReadFailed`,
`ReadData`, `ReadShort` the read handler; `ParseHandled`, `ParseRefused`,
`ParseDone` the loop; `PeerGone` the peer, `SendAborts` a write that throws or never
returns.
Pending operations are counts (`acceptOps`, `connectOps`, `waitOps`, `readOps`),
so that a second one would show. `pop_pointer` takes any free slot: it walks an
unordered map. Things the model keeps because the code has them:
* `m_recv_size` is never reset, so a buffer passes from one connection to the next.
* A refused packet stays at the front of the buffer and closes every later
  connection of that slot at its first read (`JamIsForever`).
* A WebSocket `start` moves `m_socket` away; `close` then finds no open socket and
  leaves the stream, until the next `start` overwrites it. Its connection and the
  read on it are gone from the slot, which is why `StreamIsCurrent` is asked.
* An accept that fails keeps its slot `WAITING` for ever (`lost`).
* What ends the process or stops the loop is a `fault`: an empty pool,
  `remote_endpoint` or the handshake throwing, a write throwing in a destructor, and
  a handshake or a write that blocks because the client says nothing or does not read
  ("stall": a blocking write to any connected slot may be one). Nothing in the
  code recovers from these, so properties say what holds until then, and the liveness
  properties except them.
* A read of fewer than 4 bytes closes the slot and leaves the bytes in its buffer, though
  TCP may cut the stream there whatever the client does. `short` notes it: `NoMixing` says
  that for well-behaved clients this is the only way in which packets are mixed.
* `ReadShort` is the handler whole: `parse_data` does not return after this `close`, but
  with fewer than 4 bytes its loop ends in its first turn, and `read_start` does nothing on
  a slot that is closed.

**WanServer.** `Connected`, `Disconnected` and `Handled` are worker steps joined
with what the server's handler does; `Replying` is a handler that does not come back from
the write of its reply; `WorkerOnly` is the rest. That every step is a worker's is how the
module is written, not something it shows. The history
variables `abandoned` and `shared` name the two situations the code does not
guard: a session that enters again with another uid (the first stays online), and
two sessions with one uid (the first to close takes the player offline;
`EEC_OtherDeviceLogin` of `proto/enum_define.proto`, an account in use on another
device, is never sent).
`PresenceLedger` says presence is right in every other situation. Undefined
behaviour is `broken`: a null session, shown unreachable, and `member(0)` of an
empty message, which is reachable.

**Framing.** A byte has `Base` values and a word `Base * Base`; nothing else of
the format is abstracted. `send` takes the size as `uint16_t`, so `Cut` shortens a
longer body. `Written` builds the frame as the code does, in a `data_packet`
(`DataPacket`, operators on one packet), whose `realloc` may refuse memory. `send`
does not look: the header then goes out without the body, and what follows is misread.
`memcpy` moves what is left in the buffer to its front although the two regions overlap
whenever more is left than was handled, as when a longer packet, or much of one, arrives with
a short one: undefined, whatever a library makes of it. `Copies` has the result of every order
of copying the bytes one by one, overwritten ones included, which is what a `memcpy` that
copies does; nothing is said of one that does anything else. `clean` says that neither
has happened on the connection and that its buffer was empty when it began;
`DeliveredInOrder` and `CaughtUp` are about clean connections, the other properties about
all. `by`, `life`, `clean`, `short`, `sent` and `got` are history.
`PacketsStandForBytes` maps each buffer to whole packets and a stump and shows
every step on bytes to be a step of `NetWorker`: the reads, refusals, short reads
and reads without room that `NetWorker` offers are those of the bytes. Only the step in
which `memcpy` did harm (`Garbled`) is none, and what follows it is one again: `NetWorker`
speaks of a build whose `memcpy` moves the bytes in order.

**ConsoleReader.** The reading thread and the event loop interleave at the lock;
`Peek` is the look at the queue without it, which during a push may see the queue
before or after. `WordsOf` is the loop of `parse`, held by `OncePerLine` against
`Stretches`, a definition without a loop. A line of more than 1023 characters, or
the end of the input, sets an error bit of `std::cin` nobody clears: from then on
`getline` returns at once with nothing, every 200 ms, and an empty command is
queued. The model does so; nothing in the repository promises otherwise. The tick runs in
the thread of the io_context, which any of the handlers there, a command or a script may
hold for ever or end: `LoopStops`, after which only the reading thread goes on.

**Engine.** One action per console command, run whole in its tick. The Lua stack is
a sequence of kinds of values. `testlua1` removes index 1 where it means the table it
pushed, which is the same only while the stack is empty; `StackLedger` and
`CallsCheck` say what holds nonetheless. What `std::stoi`, an unprotected
`lua_call` or a write throw ends the process (`died`). What scripts define is left
open, since `refresh` is there to load edited ones; that `main.lua` returns no
value is used.

**SessionQueue, LinkedQueue, NetQueue.** `push_msg` takes the lock of a session's
messages, links the message and, if the session is not `processing`, sets the flag
and takes the lock of the queue of sessions as well (`EnqueueLock`, `Link`,
`PassLock`, `LineUp`). A worker takes a session (`TakeLock`, `Take`), then messages
(`DequeueLock`, `Unlink`, `Free`); the flag is cleared under the same lock that finds
no message. Every stretch between taking and giving back a lock is a step. Pointers
are modelled as pointers: `next` of freed messages stays what it was, an address may
be used again, and `ListsHold` ties them to the sequences `mail` and `lineup`, which
are history. `SessionsServed` maps `mail`, `hand` and the workers' sessions to
`SessionQueue`, the mailbox `NetMgr` is built on. A worker comes back from handling a
message (`Free`) when the application or the client lets it: the write is a blocking one
(`net_mgr.cpp:121`), and `on_message` may end the process (`Crash`).

**NetMgr.** A connection is a slot again, here shared by threads. `AcceptPost`,
`Accepted`, `AcceptFailed`, `Connected`, `FirstRead` are a chain of accepts; `Read...`,
`Parsed...`, `NextRead` the strand of a connection's reads; `Serve` to `NoMessages` the
workers. `_close` is three steps wherever it is called (`is_open()` in the step before,
`...Close`, `...Tell`), so two threads may both pass the check. A connection is free
again once a worker finds no message after the disconnect: that is safe because the
handler that closes posts the disconnect last and reads no more. Where this fails, the
model says so with history variables, and the properties hold of everything else:
* `broken`: a worker's write failed on a socket that was still open, or a header
  announced too much, or a message bore the identifier of a connect or a disconnect.
  The worker's close leaves a read pending whose failure comes
  later; after the header the handler closes and reads on; and `_parse_msg` passes on
  whatever identifier is on the wire, which the workers then take for the event, so that a
  client's own "disconnect" frees its connection with the socket open and a read pending.
  The connection may be given to the next client before all this has ended (`overtaken`),
  and what comes late reaches that one. `SlotLedger` says that nothing else frees a
  connection whose socket is open.
* `mixed`: a client left within a message; `m_recv_size` is never reset.
* an accept that fails, or finds its socket still open, ends its chain, and its
  connection stays in use for ever (`Lost`); the accept chains are never started again.
`fault` is a chain that finds no unused connection, when `_add_pconnection` returns null and
`_accept_post` dereferences it, or a message without members, of which `on_message` reads the
first (`0old/server/main.cpp:32`), which may end the process.

**NetHttp, StaticPool, AccountServer.** A worker always has one operation on its
socket and one wait for its timer; both are kept as counts and sequences so that a
second would show. An operation has a result before its handler runs, so a request may
be complete while the deadline closes its socket: then it is processed, and its answer
goes nowhere (a registration is kept, and its client has not heard of it). Moving the
deadline ends the wait early; `check_deadline` ignores why it was called and looks at
the time. Time is what is left until the deadline, so it needs no bound. The pool gives
blocks of one size; a request with more fields than it holds throws out of `run`
(`died`), and so does a body that is neither JSON nor UTF-8, when the parser's message,
which quotes it, is put into the answer. `AccountServer` adds the two POST handlers and what clients were told.

## What TLC checks

| Run | Instance | Shows |
|---|---|---|
| `net_worker_tcp` | 3 slots, refused packets, short reads, abrupt peers | `OneContinuation`, `AcceptChain`, `PoolLedger`, `ReleasedSlot`, `JamIsForever` |
| `net_worker_ws` | the same over WebSockets | `StreamIsCurrent` |
| `net_worker_clean` | peers leave between packets and send nothing refused; reads cut anywhere | `NoMixing` |
| `net_worker_link` | one link, one spare slot, 3 connections | `ConnectsFreshSocket`, `RetriesForever`, `GoneIsNoticed` |
| `wan_login` | 3 slots, uids 1 and 2, enter and leave in any order | `SessionMatchesSlot`, `NoNullSession`, `PresenceLedger`, `OfflineByClose` |
| `wan_gone` | 2 slots, uid 0, empty, unknown messages, short reads | `LeaverGoesOffline` |
| `console` | 10 lines, one longer than `getline` stores, 3 of them typed | `QueueExclusive`, `OncePerLine`, `EveryLineRuns` |
| `engine` | 9 commands, 3 of them typed, scripts of any kind | `EngineTypeOK`, `StackLedger`, `CallsCheck` |
| `framing` | one link, 2 connections, 2 messages each, 1-bit bytes, a buffer of 11 | `RoomToRead`, `DeliveredInOrder`, `CaughtUp`, `PacketsStandForBytes` (refinement) |
| `net_queue` | 2 sessions, 2 socket threads, 2 workers, 4 messages at 3 addresses | `QueuesTrue`, `SessionsServed` (refinement), `EveryMessageTaken` |
| `net_mgr` | 2 connections, 1 chain, 2 socket threads, 1 worker, 2 clients, 1 message of any identifier | `SlotLedger`, `OneReader`, `AllOfThisClient`, `HeardInOrder` |
| `accounts` | 2 HTTP workers, 1 nickname, 2 passwords, a pool of 3 | `WorkerLedger`, `PoolOfOneRequest`, `AnswersHold`, `RequestEnds` |

**Bounds.** `MaxLives` bounds the connections of a slot: two let one connection
leave something to the next, and the link has three so that a jammed buffer is met
twice. `MaxBatch` is the packets of one read: one is enough where the loop's second
turn adds nothing, two elsewhere. Three slots allow a connected, an accepting and a
free or lost one at once, and the pool to run empty. Two uids make both exceptions
of presence happen. In `framing` a word holds 0..3 and the buffer exactly the largest
packet (7 bytes) and the smallest (4), so that a read may bring two, the loop turns again
for what is left, that may be longer than what was handled, and a harmed buffer is parsed
on. The four messages are an empty body, the longest a header
can announce, one longer than its size field can say, and one no handler takes. A packet
begins with 4 bytes: a header fits, a body makes it grow, to twice its size or, for the
longest, to more; each growth is granted or refused.
`MaxEntered` is three lines: two in the queue while a third is parsed or run, and
two failed calls before a third. In `net_queue` four posts let two threads and a
worker's reply meet at one session while the other one is queued, and three addresses
make one be used again. In `net_mgr` two clients are enough for the second to get the
connection of the first, which the accept chain does at once if that one is free by
then, and two socket threads let the chain, a strand and the worker run at once; each
of `overtaken`, `mixed`, `Lost`, a forged event and two disconnects for one client does
occur. The code starts one chain for each socket thread; the run has one, for with a second
it takes longer than a run should, and several chains are left to the proofs, which hold for
any number. In
`accounts` a deadline only passes or does not, so one tick will do; one request and its
answer fit the pool, and one with two fields, or three, does not. Slots are
symmetric in the runs without liveness. The proofs remove these bounds from the
properties the next section names.

**Deadlock** is checked in every run. `Rest` and `Stopped` stutter only where the
process has ended or `io_context::run` would return (no listener and no link), so a
worker that forgot what to do next would deadlock. In `NetMgr`, `Rest` also stands for
a worker that finds nothing to do and sleeps; `Dead` is the end of the old server. In `framing` a connect can always
fail and be tried again.

**Fairness.** The io_context runs ready handlers in the order they became ready,
so a handler that stays ready is run. Where the parse loop of another slot makes a
handler momentarily not runnable the assumption is strong fairness, of that one
handler (`ConnectOk \/ ConnectFailed`, `HandleReconnect`, the read of a peer that
has gone); the packet loop needs only weak. A connect always completes, with an
error at the latest. The console's thread and the tick are both scheduled; for
the mutex, which the other may hold whenever one is looked at, the assumption is
strong fairness. None of it is assumed once the loop has stopped: no action of the worker
is enabled after a `fault`, none of the tick after `LoopStops`, and neither of these, which
a client can bring about at almost any time, is fair or ruled out. In `NetQueue` every
thread gets on with what it does itself, and gets a mutex that is free again and again;
coming back from a message (`Free`) is not fair, so `EveryMessageTaken` excepts a worker
that stays with its client for ever, and the end of the process. Its posts are bounded: a
session that is posted to without end may keep its worker. In `AccountServer` time passes
and the one thread runs what is ready; a handler stays ready until it runs, so weak fairness
will do, and no handler there blocks. Nothing is assumed of peers and clients: that they
send, read, connect or leave is never fair, and where the code waits for them without a
bound the properties say so.

## What is proved

For every number of slots, links, packets, uids and messages, from the named
`ASSUME`s of the modules:

* `NetWorker_proofs`: types, `OneContinuation`, `AcceptChain`, `PoolLedger`,
  `ReleasedSlot`, `ConnectsFreshSocket`, `StreamIsCurrent` (WebSocket servers),
  `JamIsForever`, `NoMixing` (clean peers; for every cut of the reads, up to the slots that
  were closed over a read within a header). The inductive invariant `IInv` joins
  the types, `OneContinuation`, `AcceptChain` and `PoolLedger`, none of which is
  inductive alone, with three facts about the way there: nothing is connected before
  `shoot`, a lost slot stays waiting, and only a listening worker has accepts.
  Streams, jams and mixing are invariants on top of it.
* `WanServer_proofs`: every step is a worker step or a stutter by the way it is written,
  so the worker's invariant `IInv` holds of the server; with it, types, sessions and presence
  form the invariant `WInv` behind `WanTypeOK`, `SessionMatchesSlot`, `NoNullSession`,
  `PresenceLedger` and `OfflineByClose`.
* `Framing_proofs`: the buffer bound (in `TypeOK`), `RoomToRead`,
  `DeliveredInOrder`, `CaughtUp`. Its invariant `InStream` is that buffer and wire
  together are the frames of the messages not yet handled, given by the offset at
  which each begins. A read moves bytes and no offset; handling a packet
  subtracts its size from all of them; `PutCorrect` and `WrittenFacts` say what a frame
  is, for any memory; `NextMessage` shows that the header at the
  front is that of the next message. `NoOverlapNoHarm` shows that `Copies` leaves exactly
  the rest when no more is left than was handled; of longer rests the theorems say what
  holds for every order of copying that did no harm, and nothing after one that did. `RoomToRead` rests on the assumption that the
  buffer has room for one packet of the largest size a header can announce; the
  programs pass 1 MiB, and without the assumption a larger packet would end in a
  read of no bytes.
  `PacketsStandForBytes`, the refinement: `Split` cuts a buffer into packets and a stump.
  `SplitJoined` says that cutting a buffer, and then its stump with the bytes of a read
  behind it, gives the packets and the stump of the whole, and `SplitRead` that all
  the read completes, but for a packet begun earlier, is of the connection it came over:
  what `Marked` and `LeftOver` say in `NetWorker`. `SplitExists` first shows that
  the recursive function `Split` uses exists, and `SplitSame` that it cuts the rest
  of a buffer as it would cut it alone; each takes the least counterexample, for induction
  over data is beyond the prover. A step that handles a packet is one of `NetWorker`
  whenever `memcpy` left the rest, whether or not it had done harm before. `SilentStep` adds that a peer that has left
  has nothing on the wire, so no read is of its bytes.
* `AccountServer_proofs`: `WorkerLedger`, `PoolOfOneRequest` and `AnswersHold`, for
  any workers, deadline, pool, nicknames and passwords. `HttpInv` (types and
  `WorkerLedger`) is inductive, since a worker whose only operation is done has
  nothing else to abort. `PoolInv` adds that a response is there exactly while it is
  written and that an empty pool starts from its front again. `AccountInv` needs only
  types: a grant that is being written keeps its nickname taken, so nobody else can be
  granted it.

* `NetQueue_proofs`: `QueuesTrue` and the refinement `SessionsServed`, for any
  sessions, threads, addresses and posts. The invariant `IInv` adds to the pointers
  (`ListsHold`) who holds which lock and which message (`ThreadsOK`, `LocksOK`); that a
  node is of one message only, although addresses are used again (`NodesOK`: without it
  linking one message would move the pointers of another queue); and that a session is
  passed on, queued or served, exactly while `processing` (`PlacesOK`, `WaitingOK`).
  Then each step under a lock is the step of the mailbox it is meant to be: `Link` is
  `Post`, `Take` is `Serve`, `Unlink` is `Receive` or `Leave`, and all others are stutters.
* `NetMgr_proofs`: `SlotLedger`, `OneReader`, `AllOfThisClient`, `HeardInOrder`. The
  invariant `MgrInv` is, of each connection, four parts. `SlotOK`: a chain that holds it is
  alone with it, and while it is open it has one reader. `CleanOK`: where no write,
  header or identifier broke it, its disconnect is posted once, by its reader, which has ended
  by then; so nothing is on its way to it once its worker finds no message, and it is never
  taken too early. `OrderOK`: what is due on it stands in the order connect, data,
  disconnect. `ClientOK`: it all belongs to the client it has now. Of all connections
  together it has who does what, and that a chain has ended for every connection
  that is lost (`LostOK`), which counts two sets that grow by one in the same steps, for
  nobody reads or handles anything on a lost one any more (`QuietOK`).
  A step acts on one connection and leaves what the parts say of others as it is
  (`Kept`), so each action has one lemma, about one connection.
* `ConsoleReader_proofs`: `QueueExclusive` and `OncePerLine`. The commands held by the
  thread, in the queue, in the tick's hand and run are those of the lines, in order
  (`ConsoleInv`). `ParseCorrect` shows that `parse` finds the words of every line, of
  any length. As induction over data is beyond the prover, it takes the smallest number
  of characters left for which the loop would go wrong, by the well-foundedness of
  the naturals, and refutes it.
* `Engine_proofs`: `EngineTypeOK`, `StackLedger`, `CallsCheck`, whose conjunction is
  inductive: a command depends on the stack only by its size and by there being only
  errors and tables on it. `EngineUsesConsole` carries the console's theorems over.

They assume of the constants what the named `ASSUME`s say: in `NetMgr` that there are
finitely many connections and chains, and that `Null` is neither a connection nor a
message; in `Framing` the buffer's size, and that a new packet has room for a header; elsewhere types.

**Model-checked only.** The liveness properties (`RetriesForever`,
`GoneIsNoticed`, `LeaverGoesOffline`, `EveryLineRuns`, `EveryMessageTaken`,
`RequestEnds`), which are beyond the prover. Every invariant, every action property and
every refinement a run checks is proved.

## Not modelled

Field encoding (protobuf), TLS, logging, `scene_mgr` (its `update` is empty), the
Lua scripts and `example.hpp` hold no state the rest depends on. Destruction of the
worker while operations are pending does not occur: programs end by leaving
`run`, and the old server's threads never end. Of the old layer's receive buffer only
whose bytes stand first is kept: `_parse_msg` (`net_mgr.cpp:191-212`) never moves the
rest up, so that a second packet of one read is the first once more, which no text of
the repository rules out. Races inside one call on a socket are not modelled; calls
are steps. `mime_type` and `send_file` of `net_http.hpp` are called by nobody; the old
client program has no state. A `malloc` or
`realloc` that fails while a message is serialised ends the process and is the peer's
leaving. `net_worker` is modelled with one thread, as both programs run it.

## Plan

No part of the inventory with state of its own is left. Were it taken further: the
theorems of `NetWorker` stated of `Framing` through `PacketsStandForBytesCorrect`.
