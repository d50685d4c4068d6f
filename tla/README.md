# A TLA+ development of nev

nev is a C++ network library in the style of muduo, on top of libev and
chromium's base. This directory models its core (the event loop and its functor
queue, the timers, the buffer, a TCP connection) and what is built on it: the
server with its acceptor and its pool of loops, the client with its connector, and
the HTTP server with its parser. TLC checks the models on small instances; TLAPS
proves their safety properties for instances of every size, with the exceptions
named in section 5.

Paths below are those of `PROJECT.json`, where `src/` is the root of the
repository: nev's own code is in `src/src/nev` and `src/include/nev`, libev in
`src/deps/libev`.

## 1. Inventory

| component | state | operations | talks to |
|---|---|---|---|
| `EventLoop` | `looping_`, `quit_`, `calling_pending_functors_`, `pending_functors_` under a lock, the async and check watchers, `timers_`, the channels' watchers | `loop`, `quit`, `runInLoop`, `queueInLoop`, `runAt/After/Every`, `cancel`, `updateChannel`, `removeChannel` | any thread, through the queue and `ev_async_send`; libev's callbacks |
| `Timer`, `TimerId` | the ev_timer watcher, `repeat_`, `sequence_` | start, callback, destruction | owned by the loop's `timers_`, named by sequence |
| libev | heap of timers, pending watchers, `loop_done`, `activecnt`, the wakeup pipe | `ev_run`, `ev_break`, `ev_async_send`, `timers_reify` | calls nev's callbacks by priority: the check watcher, which runs the functors, comes last |
| `Buffer` | a vector, `readerIndex_`, `writerIndex_` | append, prepend, retrieve, unwrite, make room, shrink, `readFd` | `TcpConnection`'s two buffers; user code |
| `Channel` | `events_`, `revents_`, the io watcher, the tie to its owner | enable and disable events, `handleEvent`, `remove` | `EventLoop`; calls its owner's handlers, read before write |
| `TcpConnection` | `state_` (kConnecting, kConnected, kDisconnecting, kDisconnected), `channel_`, both buffers, callbacks | `connectEstablished`, `send`, `shutdown`, `forceClose`, `forceCloseWithDelay`, the handlers, `connectDestroyed` | its own loop; the `TcpServer` through `close_cb_`; user callbacks |
| `TcpServer` | `connections_`, `next_conn_id_`, the acceptor, the pool | `setThreadNum`, `start`, `newConnection`, `removeConnection`, destructor | its own loop and the connections' loops |
| `Acceptor` | the listening socket and channel | `listen`, `handleRead` | `TcpServer` |
| `EventLoopThread`, `EventLoopThreadPool` | the thread, its loop and the event that announces it; `loops_`, `next_` | `startLoop`, `ThreadMain`, `start`, `getNextLoop` | `TcpServer` |
| `Connector`, `TcpClient` | `state_`, `connect_`, the channel; `connection_` | `connect`, `stop`, `disconnect`, the attempt and its end, destructor | `EventLoop`, `TcpConnection` |
| `HttpContext`, `HttpServer`, `HttpRequest`, `HttpResponse` | the parser and its offset, the request; the response and whether it closes | `onConnection`, `onMessage`, `onRequest`, `parseRequest`, `reset` | `TcpConnection`, `Buffer`, the parser's callbacks |
| `http11_parser` | the machine's state, its marks and counters | `http_parser_init`, `http_parser_execute` | `HttpContext` |
| sockets, addresses, initialisation | none | thin layer over system calls | everything |

What is hard here: everything a thread other than the loop's does goes through a
queue and a coalesced wakeup, and must neither be lost nor reordered; the loop's
own callbacks queue, cancel, close and destroy things that the same iteration still
has to deal with; objects are kept alive by `shared_ptr`s held by functors, maps
and threads, and in places by nothing (raw `this`); a socket takes any part of
what it is given. There is no persistence, so nothing about recovery.

What makes the parts correct:

- event loop: each functor once and in order; no sleep over queued work; `quit`
  ends the loop, and not before work queued earlier;
- timers: never a deleted Timer in libev or in a callback; one-shot timers once;
  a cancelled timer stops;
- buffer: indices in order; content is a queue of bytes; memory reused;
- connection: bytes in order and all of them; write events watched exactly while
  needed; FIN after the data; up, messages, down in that order, once; destroyed
  only when disconnected, removed from the server once;
- server: loops used only when they are ready, and evenly; a connection held by
  something until `connectDestroyed`, its functors in turn on the right loops;
- client: no socket leaked or owned twice, whatever stops an attempt; a connection
  may outlive its client;
- HTTP: requests handled as they were sent, however they arrive; answers whose end
  the client can tell.

The hazards, each at its line, are in `PROJECT.json`.

## 2. Plan

| order | modules | state |
|---|---|---|
| 1 | `EventLoop`, abstract `FunctorQueue`, `EventLoopProofs` | done |
| 2 | `Timers`, `TimersProofs` | done |
| 3 | `TcpConnection` (with its `Channel` and its part of `TcpServer`), `TcpConnectionProofs` | done |
| 4 | `Buffer`, abstract `ByteQueue`, `BufferProofs` | done |
| 5 | `TcpServer`: several connections on several loops, `Acceptor`, `EventLoopThread(Pool)`; `TcpServerProofs` | done |
| 6 | `TcpClient`, with `Connector`; `TcpClientProofs` | done |
| 7 | `HttpParser`, `HttpServer`; `HttpParserProofs`, `HttpServerProofs` | done |
| 8 | libev's `evpipe_write` handshake, shown to implement the one-step `ev_async_send` used in `EventLoop` | open |

`Timers` and `TcpConnection` use the functor queue by what `FunctorQueue` and
`NoLostWakeup` say of it: batches in order, each functor once, a queued functor
ends the poll. `TcpServer` and `TcpClient` go one step further and keep only a
queue of functors per loop, and of a connection only its state and its references;
`HttpServer` keeps of a connection its state and its input buffer.

## 3. The modules and the code

### EventLoop

The loop thread is a position in one iteration of `ev_run`: `poll`, `dispatch`
(callbacks of higher priority than the check watcher), `batch` and `functor`
(`doPendingFunctors`, between functors and inside one), `drop` (the local vector is
destroyed; destructors of bound arguments are user code), and `idle` outside
`loop()`. Every other thread is outside, or inside `queueInLoop`/`quit` between the
push and the wakeup. `ev_async_send` sets `sent`; as in libev, further ones change
nothing until `pipecb` has seen it, which marks the async watcher pending, whose
callback `handleWakeup` looks at `quit_`. A functor is the number of its
`push_back`, so order is number order; `origin` records where it was queued from.
User code is nondeterministic: a functor, a callback or a destructor may queue
functors and quit.

`ran`, `done`, `origin`, `quitMark` and `cause` are history.

### Timers

`timers_`, libev's heap (`active`), its pending list (`pendings`) and the Timer
being called (`running`) name the same Timer objects; `freed` has the deleted ones.
`runAt`, `runAfter` and `runEvery` on another thread are two steps, as in the code:
the Timer is handed to the loop, then its `sequence()` is read. `cancel` is always a
functor. `pollReturns` is `time_update` and `timers_reify`: expired timers are
stopped or rescheduled and their callbacks become pending, so that one callback may
cancel another that is already due. `clock` is the wall clock and `mn_now` libev's
cached time.

### Buffer

A record of the vector and the two indices. Each member function is an operator
from Buffers to Buffers, because `shrink` applies them to a second one, and an
action. The DCHECKed preconditions guard the actions; that the other DCHECKs hold is
proved. Both variants of `readFd` are actions; at this commit only the Windows one
links (`sockets::Readv` is declared nowhere). A byte is an element of a set. The
integer members are appends, prepends and retrieves of their bytes.

### TcpConnection

The connection's loop thread is again a position, this time also inside
`Channel::handleEventWithGuard` (which events are still to be handled) and inside
`message_cb_`. A write takes any number of the bytes, or none, or fails. User code
may call `send`, `shutdown`, `forceClose` and `forceCloseWithDelay` at every point
where it gets control; other threads call the ones in `ThreadOps`, with the check of
`state_` and the queueing as separate steps (in `setDisconnecting` the write of `state_`
and the `queueInLoop` behind it are one: what comes between them in the code can only
queue another functor ahead of `forceCloseInLoop`). `Alive` computes whether a `shared_ptr`
is left: in `connections_`, in a functor, in a thread, in the running handler.
`removeConnection` is done in place when server and connection share a loop and
takes a hop to the server's loop and one back otherwise (`sameLoop` is chosen
initially). `erase` is the same on both ways, and `missed` remembers one that did not
find the connection. `missed`, `ups`, `downs` and `told`, the last of
`write_complete_cb_` and `high_water_mark_cb_` that was called, are history.

### TcpServer

Loop 0 is the server's, loop i that of the i-th `EventLoopThread`. `start` goes
through the threads one by one: `startLoop` waits for the event (`waits`), the
thread makes its loop, calls the user's callback, publishes the loop and signals.
`handleRead` accepts one client, which may have gone, and `newConnection` gives it
to `getNextLoop`'s loop. A close goes to the base loop and back as functors, and
`~TcpServer` queues `connectDestroyed` wherever the connections are, in any order:
the map is sorted by the connections' names as strings, which is not the order of
their numbers (#10 comes before #2). `ups`, `downs`
and `gone` are history. Close callbacks are bound to the raw `TcpServer`; once it is
gone using it is undefined, and the model gives that no step. What `connectDestroyed`
leaves undone for a connection in kDisconnecting is in `UpAndDownOnce` as the code's
exception.

### TcpClient

An attempt makes a socket, which `connect()` on it refuses or which waits in the
Connector's channel until `handleWrite` closes it or gives it to a `TcpConnection`;
`connect()` from another thread sets `connect_` and queues `startInLoop` as two
steps. The model leaves one thing to the code's callers, in `MayConnect`: no `connect()`
while or after an attempt got as far as the channel; the run `client_reconnect` lifts it.

Everything else may happen at any time. `~TcpClient` also runs in the middle of an
attempt and with a connection nobody else refers to, and the user drops references as
he likes. Where the code does not stand that, the process ends, and `failed` names the
DCHECK or the use of a deleted object: "~Channel" (the Connector goes with its channel
still watched, or the socket's channel is reset while watched), "~TcpConnection" (an open
connection loses its last reference), "freed Connector" (`startInLoop`, `resetChannel` or
a thread in `connect()` comes to a Connector that is gone, through the raw `this` that
connector.cc:31 and 89 bind). `early` is history: `GivenUpEarly` holds in the state
before `~TcpClient` and `DroppedEarly` before the drop of a reference when the code
cannot stand it, so that `DchecksHold` can say that no other path leads there.

### HttpParser and HttpServer

The parser works on units: runs of bytes that its machine takes in one way from
every state (a word, a path, a version, a line end). `MethodRows`, `UriRows` and
`HeaderRows` are its tables over them, with the actions of each transition in order;
spelled out in bytes, all strings of up to a few units take the generated tables
through the same actions. A cut inside a unit is therefore not seen, a cut between
any two is.
`http_parser_execute` has the opening assertion (the offset), the marks, the calls of
HttpContext's callbacks, and the assertions at its end. `parseRequest` passes
`nparsed_` as the offset and retrieves what was read, as in the code.

In `HttpServer` a client sends some requests (`sent`), well-formed or not, with or
without a body; each read takes any number of the units not yet read. The client's
side of the properties (`meant`, `wantsClose`) is computed from what was sent and not
from what was parsed. `http_cb_` is the default callback or one of the user's.

## 4. The runs

| run | checks | result |
|---|---|---|
| `eventloop` | `TypeOK`, `ExactlyOnceInOrder`, `NoLostWakeup`, `QuitDrains`, `IsFunctorQueue`, `FunctorsRun`, `QuitStops` | hold |
| `timers` | `TypeOK`, `TimersOwned`, `CancelSticks`, `OneShotOnce`, `TimerFires` | hold |
| `timers_thread_safe` | `RunIsThreadSafe` | violated |
| `buffer` | `TypeOK`, `IsByteQueue`, `GrowsOnlyWhenFull`, `HeaderRoomKept` | hold |
| `connection_loop` | `StreamInOrder`, `WritingIffWaiting`, `ShutdownAfterData`, `CallbacksInOrder`, `RemovedOnce`, `ShutdownCompletes`, `ClosedIsDestroyed`, no deadlock | hold |
| `connection_races` | `FlowControl`, `DestroyedDisconnected`, with a thread that sends and force-closes and a dying server | hold |
| `connection_send_thread_safe` | `SendIsThreadSafe` | violated |
| `server` | `LoopsReady`, `Balanced`, `HeldUntilDestroyed`, `FunctorsInTurn`, `UpAndDownOnce`, `AcceptedComesUp` | hold |
| `client` | `DchecksHold`, `SocketsOwned`, `AttemptsEnd`, `ClosedIsReleased` | hold |
| `client_reconnect` | `StartsDisconnected` | violated |
| `http` | `HandledAsSent`, `PipelineKept`, `AnswersDelimited`, `ClosesAsAsked`, `ParserAssertsHold` | hold |
| `http_split` | `OffsetInBuffer` | violated |

### What the violations show

- `RunIsThreadSafe`: on another thread `runAfter` reads the Timer's sequence after
  giving it to the loop, which may have called and deleted it.
- `SendIsThreadSafe`: `send` on another thread binds the raw `this`; the connection
  may be gone when the functor runs.
- `StartsDisconnected`: the Connector never returns to kDisconnected, so `connect()`
  after an attempt that failed in `handleWrite`, was stopped, or whose connection was
  closed fails the DCHECK in `startInLoop`.
- `OffsetInBuffer`: when a request arrives in two reads, the parser is given the
  offset of the first read although those bytes were retrieved; it asserts, or skips
  bytes of the second piece. The properties of the run `http` about the content of
  requests therefore speak of connections on which no read has ended inside a
  request (`starved`).

Other disagreements were met on the way and have no run of their own:

- `event_loop.h` says `queueInLoop` queues and wakes the thread. Two functors queued on
  the loop's own thread get no wakeup, and wait until something else ends the poll: one
  queued outside `loop()` (origin "idle"), and one queued by a destructor when
  `doPendingFunctors` drops its vector (origin "drop"), because
  `calling_pending_functors_` is cleared already. `NoLostWakeup` and `FunctorsRun` except
  both.
- `ShutdownAfterData` fails with `ThreadOps = {"send"}`: `shutdown` on the loop looks
  at the output buffer and not at sends that wait as functors.
- `~TcpServer` leaves a connection in kDisconnecting open while dropping its channel and
  last reference, which fails the DCHECKs of the destructors. `DestroyedDisconnected`
  states this as its one exception.
- `RemovedOnce` and `CallbacksInOrder` fail with `ThreadOps = {"forceClose"}`:
  `forceClose` on another thread checks `state_` and then writes kDisconnecting over a
  kDisconnected written in between, so that the connection is closed, reported down and
  erased again.
- `~TcpClient` has a branch for a client whose connection is not up yet, which stops the
  Connector; but the Connector is destroyed right after that, its channel still watched
  (a DCHECK of `~Channel` fails), and neither `~Connector` nor `~Channel` closes the
  socket. What was queued for it finds it deleted.
- `~TcpClient` with a connection nobody else refers to destroys it while it is open (the
  DCHECK of `~TcpConnection`).
- `tcp_server.h` calls `start()` thread safe, but the pool's `start` asserts that it is
  on the base loop's thread.
- `onMessage` handles one request per read: pipelined requests wait for more data to
  come. A body stays in the buffer and is parsed as the next request.
- `demos/test3.cc` says that a loop on which nothing was registered returns at once,
  while the loop's own two watchers keep `activecnt` positive; and `runAfter` counts
  from libev's cached time, so a callback may come earlier than `after` from the call.

### Bounds

- `eventloop`: two threads (a third adds no new kind of interleaving between push,
  wakeup and loop), three functors (one run, one in the batch, one queued), two calls
  of `loop()` (so that what a first one leaves behind is seen).
- `timers`: one thread, two timers (each may cancel itself and the other), two
  waiting functors, three ticks; delays and periods of none and one tick (a period of
  none is a one-shot timer, as in the constructor) and a `runAt` moment before or
  after the present.
- `buffer`: two-valued bytes, two prependable and two initial bytes, pieces of up to
  three, a vector of up to eight and a stack buffer of two: every branch of
  `makeSpace` and `readFd` is taken with content on either side of `kCheapPrepend`.
- `connection_loop`: five bytes in messages of up to two, three waiting functors;
  `connection_races`: three bytes, a high-water mark of two, one thread, which starts
  its last `forceClose` before the first close is done (`MaxCloses`; each overwritten
  kDisconnected allows one more). A byte is its number, so order and loss are visible
  with few of them.
- `server`: up to two I/O threads, so that there is no, one and a next loop, and four
  clients, two for each: the round robin wraps and two connections of one loop and of
  different loops close in every order.
- `client`: two threads and three attempts; attempts after the first happen when the
  earlier ones ended in `connect()` itself. `~TcpClient`, `stop()` and the drop of
  references come at every point of the attempt.
- `http`: two requests out of five (both versions, a Connection field that keeps and
  one that closes, a query, a malformed one, one with a body), in up to three reads:
  cut inside the first, between them and inside the second.

### Fairness

- Event loop: weak fairness of the loop thread's own steps and of a thread that is
  between its push and its wakeup, as any scheduler that runs ready threads gives.
  Nothing about I/O or timeouts: libev's poll would time out after a minute and hide
  a lost wakeup.
- Timers: the loop thread runs, the clock advances, polls end.
- Connection: the loop thread and the server's loop run; threads that hold a
  reference let it go; a peer that keeps reading makes the socket writable and takes
  bytes again and again (strong fairness, because a close may intervene).
- Server: started threads run, every loop gets on with its functors. Nothing about
  clients, accepts, closes or the destructor.
- Client: a thread in `connect()` gets out of it, the loop runs its functors, and the
  kernel lets every attempt succeed or fail.

## 5. What is proved

`EventLoopProofs`, for any set of threads and any number of functors and calls of
`loop()`:

- `TypeCorrect`, `RunsExactlyOnceInOrder`, `NeverLosesWakeup`, `QuitRunsQueued`, the
  first four properties of the run, as invariants;
- `ImplementsFunctorQueue`: the loop implements `FunctorQueue`, whose state is how
  many functors were queued and how many were run.

The invariant is `IInv`, the conjunction of `TypeOK`, `ExactlyOnceInOrder` and three
strengthenings: `PlaceInv` (what `functors`, `ran` and `calling_pending_functors_`
are at each position, without which the swap could overwrite a batch), `WakeInv`
(where a wakeup can be when a functor waits: requested by a thread, sent, seen by
`pipecb`, or not needed because `doPendingFunctors` is still ahead; `NoLostWakeup`
alone says nothing about the steps before the loop sleeps) and `QuitInv` (what
`quitMark` counted is done, in the batch, or queued before a batch that is still
ahead). `Inductive` shows that every step keeps it, one action at a time.

`BufferProofs`, for any set of bytes and any sizes:

- `IndicesInOrder`, which is inductive by itself;
- `ImplementsByteQueue`: the content is a queue of bytes, with one lemma per member
  function that says what it does to the content; `EnsureIs` and `MoveIsToTheFront`
  are the DCHECKs of `ensureWritableBytes` and `makeSpace`;
- `ReusesReadBytes` and `KeepsHeaderRoom`, action properties from the same lemmas.

`TimersProofs`, for any set of threads and any delays: `TypesHold`, `TimersStayOwned`,
`OneShotsFireOnce`, `CancelledTimersStop`, and the action property `GoneForGood` (a
Timer that was erased or cancelled before its start never comes back). `TimersOwned`
says nothing of the functors, and would be broken by a start run twice or after its
own cancellation; so `IInv` adds `QueueInv` (the start of a Timer is queued once, ahead
of everything else about it, and the Timer is not yet stored, freed or called),
`OneShotInv` (a one-shot timer is out of libev's heap before it is called), `PlaceInv`
(when there can be a callback, pending watchers and a batch) and `CancelInv` (where a
cancellation is, by the number of polls since it was asked for: this is what makes
"the next iteration" a bound).

`TcpConnectionProofs`, for any set of threads, any sizes of messages and any mark:

- `StreamKept` and `FlowControlled` without further hypotheses, with threads that send
  and force-close and a server that may die;
- `CallbacksKeepOrder`, `WatchesWhatWaits`, `ErasedOnce` and `DestroyedWhenClosed` if no
  other thread calls `forceClose`, with a server that may die too;
- `ShutdownLast` if no other thread calls `send`.

The hypotheses are values of the constant `ThreadOps`. That about `send` cannot be
dropped, nor that about `forceClose` from the first three: without them the code breaks
the properties (section 4). For `DestroyedWhenClosed` TLC finds nothing wrong without it
(`connection_races`), but the layers of the proof need it. The proof goes up
in layers, each needing fewer races than the next: `OpenedInv`, which always holds
(`connectEstablished` is the first functor and is run once; before it nothing is read,
and up to the first close write events are asked for exactly while bytes wait);
`PhaseInv` (what `state_` says about callbacks made and events left to handle, in
particular that after `handleClose` nothing is left to read in the same
`handleEventWithGuard`); `ListInv` (while the server lives, its map and its functors, by
`state_`, and that no erase has missed); `ServerInv` (what a server that dies
leaves open is still to be established, if it was not, and to be destroyed after that:
`WaitsOn`, `OnlyRuns`) and `ShutInv` (after the FIN the connection is no longer
kConnected, so `send` is refused). `FlowControl` needs none of them: what a queue tells
the user last depends only on what is put behind it (`TellingConcat`) and on the run of
its head (`HearsOn`), and every step that changes `output_buffer_` across a bound queues
its functor behind all others (`Announces`).

`TcpServerProofs`, for any number of I/O threads and clients: `LoopsStayReady`,
`LoopsStayBalanced`, `ConnectionsHeld`, `FunctorsStayInTurn` and `ReportedOnce`. The
invariant has a part for the pool (`PoolInv`: threads are started one at a time, the
signal comes after the loop is published, the Acceptor listens when all loops are
there; `NextInv`: `next_` is inside the loops) and one for the connections (`QueueInv`:
functors are on their own loop, and of two for one connection the first establishes and
the second destroys; `ConnInv`: for each state, what waits, who refers to the connection
and what was reported). `FunctorsInTurn` by itself is not inductive, because it does not
say that a functor is there when it is needed. For `Balanced`, `SpreadInv` relates the
number of connections each loop was given to `next_`.

`TcpClientProofs`, for any number of threads and attempts: `DchecksNeverFail` and
`SocketsStayOwned`, if `Reconnects` is FALSE, that is if `connect()` is not called once
an attempt came as far as its channel; otherwise the code fails its own DCHECK, as the
run `client_reconnect` shows. Besides that condition the two theorems say no more than
their properties. `DchecksHold` has the DCHECKs of the destructors fail, and a deleted
Connector used, after `~TcpClient` ran in the middle of an attempt or an open connection
lost its last reference, and never otherwise. `SocketsOwned` speaks of the time before
that: of the attempt whose client goes in its middle it says nothing, and its socket
leaks. The invariant has two cases. `Ended`: the process has ended, after something was
given up too early, and at a place that goes with it. `Going`: one start is under way at
a time and before the Connector has left kDisconnected (`StartInv`), the channel is there
from `connecting()` to the functor that resets it (`ChannelInv`), once the client is gone
no socket is waited for, and nothing comes to its Connector unless it went too early
(`GoneInv`), and for each socket there is whose close callback its connection has and who
refers to it (`ConnInv`).

`HttpServerProofs`, for any requests, pieces and decisions of the callback:

- `AnswersStayDelimited`: every path of `onMessage` and `onRequest` that answers without
  a length also shuts the connection down, after which nothing is sent;
- `ParserStaysConsistent`: the assertions that end `http_parser_execute` hold. Between
  reads the parser's marks lie in the first `nparsed_` units and its `nread` is no more
  than that (`ContextOK`), which `parseRequest`, `reset` and a new context keep, and
  which puts them inside every buffer that passes the assertion at the start; the buffer
  holds at least one unit then, which `mark < len` needs. That opening assertion is
  another matter: `failed` may become "offset past end of buffer" (`http_split`);
- `RequestsHandledAsSent`, `PipelineStaysKept` and `ClosesWhenAsked`: as long as no read
  has ended inside a request (what happens then is `http_split`), `http_cb_` sees the well-formed
  requests in order and as their sender meant them, the buffer holds exactly what was
  sent behind them, and a callback that leaves the closing alone closes as they ask.

The argument for the last three is in four parts:

1. `Lookups` works out which row of the table each class of units finds in each state a
   well-formed request goes through, and `Moves` and `Ends` what one turn with such a row
   leaves (`HttpParserProofs`).
2. A request on the wire has its method, path, query, version and fields at known places
   (`WireOfPlain`, `LinesAre`). `Gets` states where the machine is, with which marks, and
   how much of the `HttpRequest` is filled in, after so many units; `PathRead`,
   `UriRead`, `VersionRead`, `LineRead` and `LinesRead` carry it through the request, the
   last one by induction over the header lines, where `HeadsMore` says what `addHeader`
   does to a name that was there before. Hence `ExecutePlain`: a fresh parser given the
   whole request stops just behind it with what was meant, and given less is still in the
   middle of it. `ExecuteSome` and `ExecuteError` say what malformed requests leave.
3. `First(k)` is the part of the stream with the first k requests; the next one lies
   right behind it (`NextInStream`), so that a context that is fresh finds its start at
   the start of the buffer (`NextArrives`).
4. `KeptInv` is the inductive invariant. None of the three is inductive alone: that a
   request is handled as sent needs a fresh context *and* a buffer that starts behind
   the requests handled (`Kept`), or else a parser that is in its error state, from which
   nothing is handled any more, and this has to be known also of a connection that was
   closed or is not yet up. `ReadDoes` splits `onMessage` into its four outcomes and
   `ReadKept` goes through them.

For `ParserStaysConsistent`, `HttpParserProofs` has what one run of the machine keeps,
for every buffer and every parser with its marks in place: one action (`PerformKeeps`), the actions of a
row (`PerformAllKeeps`), one turn (`ResumeKeeps`), all of them (`ExecuteKeeps`). The
last ones are inductions over the number of turns; `Least` and `Induction` state
induction for a set of numbers, from the well-foundedness of < in the library, because
the provers cannot use its form for a predicate. For the same reason `performAll` and
`resumeAll` are recursive functions. `MatchOK` says which rows a look-up may give.

Assumed of the constants: bounds, sizes and times are natural numbers, `runAt`'s shortest delay and the
high-water mark are positive, the vector's new elements are bytes, the flags are
Boolean, the classes of units of a request are disjoint and `ThreadOps` are of the
modelled calls (the `...Assumption`s of the modules, which the runs evaluate). Every
inductive invariant was first checked by TLC on instances like those of the runs.

Only model-checked:

- every liveness property (`FunctorsRun`, `QuitStops`, `TimerFires`,
  `ShutdownCompletes`, `ClosedIsDestroyed`, `AcceptedComesUp`, `AttemptsEnd`,
  `ClosedIsReleased`), since fairness and ENABLED are outside the prover's reach.

## 6. What is not modelled

- The demos and examples are users of the library.
- Sockets, addresses and the start-up of the platform are calls of system functions;
  of them only the results of `Write`, `Accept` and `Connect`, `SO_ERROR` and the
  closing of sockets matter here. An error for which the code ends the process
  (`LOG(FATAL)`) is not a step.
- The flag handshake in libev's `evpipe_write` is one step (see the plan), its
  backends are "the poll returns with any ready events".
- Of a connection: TCP options; the write-complete and high-water-mark callbacks are
  taken as set (the code also runs with either absent); the user's callback does
  nothing when the connection comes up; `shutdown` and `forceCloseWithDelay` are called
  on the loop's thread only, where `send` and `forceClose` are also called from others;
  the overload `send(Buffer*)` is not told apart from `send`.
- Of the threads: the end of an I/O loop, after which an `EventLoopThread` deletes
  itself although the pool owns it too; nothing in nev quits an I/O loop.
- Of the client: `disconnect()` from other threads, which has `shutdown`'s unguarded
  check of `state_`; the destruction of the client inside its own connection's
  callbacks, or on another thread than its loop's; what goes on after a DCHECK has
  failed, in builds that leave them out.
- Of the parser: what happens inside a unit (the spelling of versions, escapes and
  authorities in a URI, the limit on a method's length, the place of an error inside a
  run) and the JSON and XML messages of flash sockets, which begin with bytes outside
  the alphabet. The time of receipt and the text of answers: in particular a body that
  the callback sets is also sent in answer to HEAD, where a client expects none;
  `AnswersDelimited` looks at lengths and closes and does not see it.
- Buffer's searches (`findCRLF`, `findEOL`) and peeks change nothing.
