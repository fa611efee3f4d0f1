# SC redirection: a TLA+ model of the websocket server and its TCP tunnel

The program (`src/websocket-server-demo/server`) redirects a TCP connection,
such as that of a smart card or USB redirector, over websockets. One side runs
as the *Linux server*: it accepts a TCP client, broadcasts what the client
sends as base64 text to its websocket clients and writes what comes back to the
client. The other side is a *Windows* build of the same code, which does the
same with the connection to a remote host. This directory holds TLA+ models of
that code, the TLC configurations that check them, and proofs for TLAPS.

File names below are relative to `src/websocket-server-demo/server/` unless
they start with `src/`.

## 1. Inventory

### Parts of the system

| Part | Source | State | Operations |
|---|---|---|---|
| Queue between the threads | `TMultiThreadSingleQueue.h` | a linked list with a dummy node (`pHeadNode`, `pTailNode`), the counter `m_Size` | `Push`, `Pop`, `GetSize`, constructor, destructor |
| Tunnel thread | `tcptunnel.cpp/.h` | `rc` (the three sockets and addresses), `settings`, `options`, two global queues, `pServer` | `tcptunnel_loop`, `build_server`, `wait_for_clients`, `handle_client`, `handle_tunnel`, `build_tunnel`, `use_tunnel`, `rcv_callback`, `send_callback` |
| Connections and broadcasts | `WebsocketServer.cpp/.h` | `openConnections` with `connectionListMutex`, the handler tables, the two callbacks | `onOpen`, `onClose`, `onMessage`, `sendMessage`, `broadcastMessage`, `numConnections`, `run` |
| Main program | `server.cpp` | the main event loop's queue of posted handlers | the handlers for connect, disconnect and "message"; the four threads |
| Message parsing | `WebsocketServer.cpp` (`messageParse`, `split`) | none | splits a text at ':' and dispatches on the command |
| base64 | `base64.cpp/.h` | none | `base64_encode`, `base64_decode` |
| Log output | `utils.cpp/.h` | none | `hexDump` |
| Options | `tcptunnel.cpp` | `settings`, `options` | `set_option` (called by `server.cpp`), `set_options` |
| Stand-alone tunnel and fork mode | `tcptunnel.cpp` | descriptors of each process | `main`, the fork in `handle_client`, `use_tunnel` without a server |
| websocketpp, asio, jsoncpp | `external/` (vendored) | session states, send queues, event loops | what the server calls of them |
| Browser client | `src/websocket-server-demo/client/client.html` | — | a test page |

The repository has no tests. Its documents (`src/README.md`,
`src/websocket-server-demo/README.md`) explain how to build the demo and set up
the network; statements about behaviour are comments in the code.

### Threads, and how the parts interact

`server.cpp` runs four threads in one process:

- the **networking thread** (`server.run()`): all handlers of websocketpp;
  `messageParse`, and through the callbacks `base64_decode` and `Push`;
- the **main thread**: the handlers that the others post to `mainEventLoop`;
- the **input thread**: `broadcastMessage("userInput", ...)` for each line;
- the **tunnel thread**: `tcptunnel_loop`, which accepts, selects, receives,
  calls `base64_encode` and `broadcastMessage`, and calls `GetSize`, `Pop` and
  `send` for what the networking thread has queued.

They share the list of connections (under a mutex), the send queues of the
connections (under websocketpp's own mutex), the queue of decoded payloads (no
lock at all), the two callback pointers (no lock) and the process: `exit(1)`,
SIGPIPE or an exception that nobody catches in any thread ends all of it.

### What is hard, and what makes each part correct

- **Queue.** Every lock of the original two-lock algorithm is commented out.
  Correct means: nothing is used after it is deleted, values come out once and
  in order, and the counter, which is all the caller looks at, still says
  something. The first two hold; the last only in part (findings, below). And
  `exit(1)` on the tunnel thread runs the queue's destructor while the
  networking thread may be in `Push`.
- **Tunnel thread.** Sockets are closed on some paths and not on others, rc
  keeps the descriptors of the session before, peers hang up in two ways at any
  moment, and every call can fail. Correct means: no call gets a descriptor
  that is closed or of another session, a session ends with its peer, what the
  client sent is all broadcast before, what was queued is all sent once, and
  the process survives a client that goes away (it does not always, see below).
- **Options.** Each option is a call of its own that also sets defaults. Correct
  means: what is given last counts, whatever is given in between (not so for the size
  of the buffer, see below).
- **Fork mode.** Descriptors are copied by `fork()`; a connection ends for its
  peer only when no process holds one. Correct means: nobody inherits what it
  does not serve, and a hang-up releases both connections in all processes.
- **Connections.** Three threads walk or change the list while connections
  close. Correct means: the list is exact, a broadcast neither skips nor
  repeats, replies are in order, and nobody waits for the mutex for ever.
- **base64.** The decoder tests its position once in four characters. Correct
  means: it inverts the encoder and reads nothing behind the end of any text,
  and line breaks that are inserted or erased while positions move go where they
  belong and vanish without a trace.
- **Message parsing.** The same text is tried as a command and then as JSON.
  Correct means: a payload reaches a callback whole and only from a BIN_DATA
  message, and JSON is never taken for a command.
- **Log output.** Characters are printed one line late from a buffer that is
  reused. Correct means: each line shows its own bytes.
- **The whole process.** The tunnel thread is in a broadcast while the others
  run, and each part's model takes for granted what another part does. Correct
  means: each byte received is in the frames of every client that is connected,
  in order, and what is proved of a part holds when it runs among the others.

`PROJECT.json` lists each hazard at the line where it bites, with the
properties that are about it.

## 2. Modules

```
Fifo                    what the queue promises
  ^ refined by
MultiThreadSingleQueue  Push, GetSize and Pop, one memory access per step
  ^ extended by (the same variables, driven by the program)
  |-- QueueShutdown     exit(1) and the destructor beside a Push
TcpTunnel               the tunnel thread, messageParse's callbacks, the TCP peers
  ^ extended by
Program                 the whole process  -- INSTANCE -->  WebsocketServer

WebsocketServer         connections, handlers, main event loop, broadcasts
Base64                  the codec's loops
MessageParse            split and messageParse on one text      \
Base64Lines             the line breaks of PEM and MIME          | operators, called by
HexDump                 the log's lines                          | SequentialCalls
TunnelOptions           set_option and set_options              /
StandaloneTunnel        the stand-alone main, with and without --fork

Filter                  keeping some elements of a sequence, used by the server and the line breaks

SequenceLemmas          induction, loops as sequences of states, division, Keep
MultiThreadSingleQueueProofs  -- extended by -->  QueueShutdownProofs, TcpTunnelProofs
TcpTunnelProofs               -- extended by -->  ProgramProofs  -- INSTANCE -->  WebsocketServerProofs
SequentialProofs        Base64 and SequentialCalls
StandaloneTunnelProofs
MC<module>              the instance of <module> for TLC
MCSequential            Base64 and SequentialCalls, in one instance
```

### MultiThreadSingleQueue

The state is that of the class (`pHeadNode`, `pTailNode`, `m_Size`, and of the
nodes `pNextNode` and `pValuePointer`) and the locals of the two calls in
progress. A node is named by its allocation number, so that a pointer to a
deleted node remains recognisable (`freed`); the code never compares pointers,
so it could not tell.

`Push` is `PushAllocate`, `PushLink`, `PushSwing`, `IncrementLoad`,
`IncrementStore`; `Pop` is `PopRead`, then `PopEmpty` or `PopValue`, `PopSwing`,
`DecrementLoad`, `DecrementStore`, `PopDelete`. The caller's test of the size is
`GetSizePositive`. `m_Size++` and `m_Size--` are two steps each: the counter is
`volatile`, which makes neither atomic.

One thread pushes and one pops, as in this program. The unsynchronised accesses
are data races in C++; the outcomes modelled are those of an x86-64 build:
aligned words are read and written whole, and stores become visible in program
order. On a processor with weaker ordering, or with a compiler that reorders
the plain stores of `Push`, the theorems below say nothing.

`Fifo` is the abstract specification: a sequence, `Push` appends to it, `Pop`
takes the head and hands it over. The refinement mapping takes as items the
values of the nodes between head and the last *linked* node: a push takes
effect when the link is stored, a pop when the head moves.

### QueueShutdown

When `build_server` fails, `exit(1)` destroys the two global queues while the
networking thread still runs: its callbacks were set before. The module adds the
destructor to the queue: `CallsPop` and `RunsPop` are its `while (Pop(...))`,
`DeletesHead` its last `delete`, `ProcessEnds` the end of all threads some time
later; `Pushes` goes on until then. A `Push` that was about to link its node when the
head was deleted stores through a dangling `pTailNode`: this is undefined, and the model
stops there (`PushDangles`, `shutdown = "undefined"`). The properties say that nothing
dangles before, and the refinement speaks of the queue up to that store.

### TcpTunnel

`tcptunnel_loop` and all it calls, together with the module of the queue, whose
actions the program's two threads run (`QueueBinData`, `RunPush` on the
networking thread, `SizePositive`, `RunPop` on the tunnel thread).

| Code | Actions |
|---|---|
| `tcptunnel_loop`: set the callbacks, `build_server` | `SetRcvCallback`, `SetSendCallback`, `BuildServer`, `BuildServerFails` |
| `wait_for_clients`, `handle_client`, end of the loop | `Accept`, `AcceptFails` (Linux), `AcceptFailsUnseen` (Windows), `AcceptRefused`, `NextRound` |
| `build_tunnel` | `BuildTunnel`, `BuildTunnelFails` |
| `use_tunnel`: `select` | `SelectReturns`, `SelectFails` (Linux), `SelectFailsUnseen` (Windows) |
| `use_tunnel`: `recv`, `broadcastMessage`, the closing of both sockets | `RecvSkipped`, `Relay`, `RelayThrows`, `RecvEnds` |
| `use_tunnel`: `GetSize`, `Pop`, `send` | `SizeNotPositive`, `SizePositive`, `RunPop`, `Send`, `SendKills` |
| `messageParse` for BIN_DATA, `rcv_callback`, `send_callback` | `DropBinData`, `CallNull`, `DecodeThrows`, `QueueBinData`, `RunPush` |
| the TCP peers | `PeerSends`, `PeerHangsUp`, `ResetFollows`, `IgnoredPeerActs` |

Of its two connections a side serves one: the client on Linux, the remote host
on Windows. The other is watched by `select()` and never read
(`ignoredReadable`). The two sides differ in order, too: Windows empties the
queue before it receives.

In the Windows build a `SOCKET` is unsigned (`tcptunnel.h:97-99`), so `accept`'s failure
is never less than 0: the program connects to the remote host and enters `use_tunnel`
without a client (`AcceptFailsUnseen`), where every `select()` fails, again unseen. With
`--client-address` the address of an earlier client may happen to be refused, and then
the round ends as on Linux (`AcceptFails`).

What is assumed of TCP, which is outside of the program: bytes arrive in order; a peer
hangs up with a FIN (`closed`) or a RST (`reset`). A RST may follow the FIN at any time
(`ResetFollows`, `dead`): it answers what was sent after the peer had closed, or was on
the way when it did, or the peer closed with something unread. A Linux `send` to a `dead`
connection raises SIGPIPE, which the program neither handles nor masks; to one that was
reset without a FIN the first `send` reports the error, which is ignored, and the next
one raises the signal. When `recv` returns the end or an error although there are bytes
unread is the stack's: Linux hands them out first, Windows discards them with a reset.

### Program

The process that `server.cpp` starts: `TcpTunnel` extended by an instance `S` of
`WebsocketServer` whose broadcasters are the input and the tunnel thread. Where
one model is open the other closes it. A `recv` that returned bytes (`Relay`)
puts the tunnel thread into `broadcastMessage` (`relaying`), whose lock, sends
and return are `RelayBegins`, `RelaySends`, `RelayEnds`; the thread does nothing
else until it is back, and the exception of `endpoint.send` ends the process.
BIN_DATA messages come from an open connection while the networking thread is in
no handler, and no handler runs while it is in `Push`. `frames` is a history
variable: what had been received when each frame was broadcast.

### WebsocketServer

The constructor's and `server.cpp`'s registrations are posted to the networking
thread's loop before it runs (`eventLoop`); `run` listens, which can throw
(`Listens`, `ListenThrows`), and then the loop registers them (`Registers`)
before any connection is served. `handlers` is what `onOpen`, `onClose` and
`onMessage` find registered (`Invoke`).

The connections of websocketpp (`state`, `outbox` = `m_send_queue`, and what the
client has `received`), the list, the mutex, the main event loop's queue, and
the broadcasts in progress. `onOpen` and `onClose` are one step each, enabled
when the mutex is free: what they do after they release it, posting to the
main loop, is not visible to another thread before the next step. A broadcast
is `BroadcastBegins` (lock), one `BroadcastSends` per connection, and
`BroadcastEnds` (unlock), so connections change state between two sends.
`numConnections` appears as the guard on the mutex in `TakeTask`. `Keep`, of
`Filter`, is the filtering of the list in `onClose`, a recursive function so that it
can be proved about; the properties use it, too, to pick a thread's broadcasts or the
main thread's replies out of what a client was given.

`Send` is `endpoint.send`, which throws unless the session is open. websocketpp tests the
state and appends to the send queue under two locks, one after the other; the model does
both in one step. A connection that leaves the open state between the two has a frame in
a queue that nobody writes any more, as if it had left right after the step. No caller
catches the exception, so the process ends (`bad_send`). `onMessageThrows` and `EchoThrows` are
the JSON accessors that throw for a value of the wrong type (`bad_message`).

From the vendored websocketpp only what the server depends on is modelled: the
session states, that the close handler runs after the socket is shut down and
some time after sends have begun to fail, and that one thread runs all handlers.

### Base64

One step per iteration of the encoder's loop and three per iteration of the
decoder's, one for each byte it may append, so that each read of a character is
at a state where its position can be compared with the length. Characters are
codes, shifts and masks are arithmetic. `pos_of_char` throws for a character in
neither alphabet, and the string's terminating NUL is such a character: that is
what stops the decoder.

### MessageParse, Base64Lines, HexDump, TunnelOptions, SequentialCalls

Functions that keep nothing between two calls are operators, with the code's
positions, which count from 0 and move when a text changes. A loop is a recursive
function of the number of its rounds: the body is one operator (`Cut`, `InsertBreak`,
`EraseBreak`, `AddByte`, `ReadOption`) that leaves a finished loop alone, and there
are as many rounds as the text has characters. That no loop needs more is part of what
is checked and proved, since the result would lack something. `SequentialCalls` calls each of them on all arguments of a set and states
what its result must be, in terms that have no positions and no loop.

- `MessageParse`: `split`, the stripping of a trailing `"}`, and the dispatch, whose
  outcomes are what `TcpTunnel` and `WebsocketServer` take for granted of a message.
- `Base64Lines`: `insert_linebreaks`, and the removal of line breaks in `decode`.
- `HexDump`: the lines and the buffer of characters, which each line reuses and
  which starts with whatever was on the stack.
- `TunnelOptions`: `set_option`, which `server.cpp` calls, and `set_options`, the loop
  over the command line. The size of the buffer is an `int` stored in an `unsigned
  int`.

### StandaloneTunnel

`StandaloneTunnel` has the program that `TCP_TUNNEL_STANDALONE` builds. Its state
is the descriptors each process holds (`fds`); `Fork` copies them. Its `use_tunnel`
reads both sockets, which the side of a server never does, and sends nothing:
the calls of `send` are commented out in the source, and what is left sends only
to a `pServer`, which this program does not have.

## 3. Runs

| Run | Checks | Distinct states |
|---|---|---|
| `queue` | `QueueInv`, `NoUseAfterFree`, `SizeNeverNegative`, `ImplementsFifo` (the refinement), `OnlyOverlapsHide`: if no increment overlaps a decrement, a queue at rest that holds values says so | 22 thousand |
| `queue_count` | *violation*: `QueuedIsCounted` | small |
| `queue_shutdown` | `SafeUntilHeadIsDeleted`, `NothingLeaks`, `ExitEnds` | 94 thousand |
| `tunnel` | the Linux side by itself: `TunnelInv`, `NullCallOnlyAtStart`, `NoStaleDescriptor`, `LeaksOnlyAfterFailure`, `WrittenOnceInOrder`, `FewLateSends`, `DropsPrecedePushes` | 584 thousand |
| `server` | `ListIsExact`, `BroadcastsWithoutGap` | 2.6 million |
| `server_replies` | `ServerInv` (all that the proof's induction needs), `HelloBeforeEchoes`, `HelloArrives`, `ClosedIsForgotten` | 214 thousand |
| `server_reaches_all` | *violation*: `BroadcastReachesAll` | small |
| `program` | the Linux process: `HangUpEndsSession`, `IgnoredSocketDrainsQueue`, `ByteReachesClients` | 507 thousand |
| `program_windows` | the Windows process, with early and JSON messages: `AllHandedOn`, `NoStaleDescriptor` | 6.8 million |
| `fork` | `NothingInherited`, `HangUpReleases` | 12 thousand |
| `sequential` | base64: `CodecInv`, `RoundTrip`, `ReadsInBounds`, `LinesAreFull`, `BreaksVanish`; messages: `PartsAreTheText`, `PayloadIsExact`; `LinesShowPayload` of the hex dump; `LastArgumentWins` of the options | 291 thousand |
| `options_buffer` | *violation*: `BufferSizeIsKept` | small |

### Bounds, and why they are enough

- **Queue** (`MaxPush` = 4, two values). At most two
  nodes matter at a time to the two threads, the old dummy and its successor;
  four pushes let the list go empty, refill and be non-empty while the threads
  overlap in each place, and let the counter lose an update in both directions
  before further calls. Two values suffice to see an exchange or a repetition.
- **Tunnel** (`MaxSessions` = 2, `MaxBytes` = 2, `BufferSize` = 2, `MaxPush` = 2,
  `MaxDropped` = 1). Two sessions show what one leaves to the next; two bytes
  let `recv` take all or a part and a peer hang up between; two values meet the
  lost updates. The proofs below cover every value of these constants.
- **Server** (two connections, two broadcasting threads). One connection joins
  or leaves while another is in the middle of a broadcast. `server` has two
  broadcasts per thread, which a gap or a repetition needs, and no client
  messages, which do not touch the list; connections and threads are used by
  name only, so it uses both as symmetry sets. `server_replies` has one
  broadcaster, enough for the main thread to find the mutex taken, and a client
  message to be echoed; liveness takes no symmetry. A posted handler is bounded
  by the number of connections and messages.
- **base64.** All byte strings of up to 4 bytes from {0, 27, 64, 144, 255}, so
  that all three lengths modulo 3 occur and each bit of a byte is set and
  unset; all texts of up to 5 characters from a letter, `_`, `=`, `.` and a line
  break, so that all lengths modulo 4 occur with characters in and outside both
  alphabets and both trailing characters. The proofs cover all strings.
- **Program** (one connection, one session, one queued value; on the Linux side
  one byte and a line of input, on the Windows side two bytes, a JSON message and
  an early BIN_DATA message). The properties of `tunnel` run on the Linux side, which
  has more of them; the proofs cover both sides.
  One connection suffices: `AllHandedOn` is about each connection by itself, and
  what several do to each other is in the server's runs. Two bytes make two
  frames, or one of two bytes, with the connection joining before, between or
  after them.
- **Queue at exit** (`MaxPush` = 4): the destructor pops several nodes while a push
  is at each of its steps, and another one begins.
- **Fork** (two clients): the second child would inherit the first one's client,
  or what its failure has left behind.
- **Options** (three calls; an `unsigned int` of 14 bits, so that 4096 fits and a
  larger or negative number wraps): an option before, between and after others.
- **Texts.** All messages of up to five characters that can form the command, a
  colon, and the end of a quoted JSON object. All texts of up to six characters
  with line breaks anywhere, and encoded ones of up to twelve, with lines of
  several lengths. All payloads of up to seven bytes for lines of three, so that
  a line is full, short, or follows a longer one.

Deadlock is not checked: the models stop when a bound is reached, when the
process has ended, or, in `TcpTunnel`, when `select()` waits for peers that do
nothing. That nobody waits for ever where the code should go on is what the
liveness properties say.

### Fairness

- `FairSpec` of the queue: each thread finishes the call it is in. Neither has to begin
  another: the tunnel thread may wait in `accept` or in `select()`, which have no time
  limit, for ever. (What is checked under it, `OnlyOverlapsHide`, is a safety property.)
- `FairProgramSpec`: weak fairness, thread by thread, of the tunnel thread (whatever
  it is in), the push in progress, the main thread, the input thread's broadcast
  and the networking thread. The operating system schedules them all; nothing
  makes a peer act, a client connect, a message arrive, the keyboard type or a
  call fail. A `select()` that finds nothing blocks, and its action is not enabled
  then. The broadcasts are bounded, as below. `HangUpEndsSession` and
  `IgnoredSocketDrainsQueue`, which are about the tunnel thread alone, are stated
  here, and both presuppose that a peer has acted: a tunnel thread that waits for the mutex of a broadcast is part of what
  could break them.
- `FairShutdownSpec`: once `exit` was called, its thread keeps running.
- `FairSpec` of the stand-alone tunnel: every process runs, and a round of
  `use_tunnel` looks at both sockets, so neither of them can hide the other. That
  is one action per socket there; the code tests them one after the other.
- `FairSpec` of the server: each thread keeps running; websocketpp writes what
  is queued, and ends a connection that has failed. Clients, the input and the
  tunnel need not act. The mutex is free again and again and a thread that waits
  for it gets it (weak fairness is enough because `MaxBroadcasts` bounds the
  broadcasts; without the bound it would take a mutex that does not starve a
  waiter, which `std::mutex` does not promise).

### Findings

- **The counter can be wrong for good** (`queue_count`). The header says that
  push and pop "may run in parallel without disrupting the state of the queue"
  (`TMultiThreadSingleQueue.h:39-40`). An increment whose load comes before and
  whose store comes after a decrement overwrites it or is overwritten: a queue
  with a value in it can report 0, and the caller, which pops only if
  `GetSize() > 0` (`tcptunnel.cpp:550`), does not take it out before a later
  push. `OnlyOverlapsHide` says that nothing but such an overlap hides a value.
  Comments at lines 101 and 184 of the header know that the size is not
  accurate; the caller relies on it.
- **A broadcast may leave out connected clients** (`server_reaches_all`). The
  header says "Sends a message to all connected clients"
  (`WebsocketServer.h:116`). For a listed connection that is closing, `send`
  throws, which ends the loop and, since nothing catches, the process.

- **The size of the buffer is forgotten** (`options_buffer`). `set_option` sets
  `options.buffer_size` to 4096 each time it is called (`tcptunnel.cpp:239`), so a
  size that was set is put back by the next option, while `settings.buffer_size`
  still says that one was given. The help text says "--buffer-size=BYTES  buffer
  size" (`tcptunnel.cpp:655`); `set_options` sets the default once.

At the end of its input the input thread broadcasts without a pause, because
`server.cpp:64` does not test the result of `getline`; that this never keeps the
others from the mutex is more than `std::mutex` promises, and more than the
bounded model shows.

A message between the two `set_*_callback` calls makes the Linux side call a null
pointer (`CallNull`, `WebsocketServer.cpp:242`); `NullCallOnlyAtStart` says, and
the proofs show, that this cannot happen later than at the start.

Other behaviour of the code that the models contain and no property forbids:

- A payload that is no base64 ends the process (`DecodeThrows`).
- A failed `build_tunnel` leaves its descriptors open (`BuildTunnelFails`), once for each
  time it fails; `LeaksOnlyAfterFailure` says that no other path does.
- A Windows `select()` failure goes unseen (`SelectFailsUnseen`), and so does that of
  `accept()` (`AcceptFailsUnseen`): the session goes on without a client.
- A value queued while `select()` waits stays there until a peer acts, and a value left
  over from one session is sent to the next client.
- A client that closes while a payload is on its way to it ends the program by SIGPIPE
  with the next one (`SendKills`), even if it left nothing unread. `FewLateSends` bounds
  how often `send()` is called after a hang-up; it cannot exclude the signal.

### Mutants

Each property of a passing run has a defective variant of a modelled operation
(the operators named `<operation>_<defect>`, placed before the operation), such
as a pointer swung before the link is stored, a socket that is not closed or a
lock that is not taken, under which TLC finds the property violated.

## 4. Proofs

`tlapm` checks every proof to its leaves. The theorems hold for every value of
the constants; the assumptions are those of the modules: `MaxPush` is a natural
number (`MaxPushAssumption`), `Side` is one of two, the options are Booleans,
the buffer is not empty and the bounds are numbers (`TunnelAssumption`,
`BoundsAssumption`, `ProgramAssumption`), no broadcasting thread has the name of
one of the words that stand for other frames (`NamesAssumption`), the inputs
are sequences of bytes (`StringsAssumption`), and those named below for the functions on
texts and fork mode. TLC evaluates them in the
runs.

**Queue** (`MultiThreadSingleQueueProofs`). `NoUseAfterFree` is not inductive:
that the tail is not deleted while `Push` is about to dereference it follows
from the shape of the chain. `QueueInv` has three parts. `ListInv` says that the list
is the chain of nodes in allocation order, cut at the head and the last link
(`ListShape`), that `Pop`'s locals point where the chain says (`PopLocals`), and that
what was popped is the prefix of what was pushed (`PoppedInOrder`); it does not mention
the counter, so the shutdown, which ignores the counter, can use it.
`FreedBehindHead` says exactly which nodes are deleted, `CountInv` that the copies of
the counter in the two threads' registers are such that no store makes it negative.
One lemma for each action; then `QueueInvariant`, `MemorySafety`, `CounterSign`, and
`Refinement`: `Spec => F!Spec`, where `PushLink` maps to Fifo's `Push`, `PopSwing`
to its `Pop`, and every other step to a stutter. `CountsWhenApart` is about the
finding of `queue_count`: in a behaviour in which no increment overlaps a
decrement, the counter is exact (`CountIsExact`) and `QueuedIsCounted` holds
(`OnlyOverlapsHide`), so nothing but the overlap can hide a value.

**Shutdown** (`QueueShutdownProofs`). While `exit(1)` destroys the queue, `ListInv`
still holds, but `CountInv` does not: the destructor pops what `Push` has not counted
yet. `ShutdownInv` adds that the nodes behind the head are the deleted ones until the
head itself is, and that a queue found empty stays so unless a `Push` goes on.
From it follow `DestructorSafety` and `DestructorDeletesAll`; the lemmas of the queue's
own refinement give `ShutdownRefinement`: the queue still is a queue, until the process
ends or a `Push` stores through the deleted head, where the model stops.

**Tunnel** (`TcpTunnelProofs`). Each step of the program is a step of the queue's
specification or leaves the queue alone, which is how the module is built; the lemma
`QueueContract` (`TunnelSpec => Spec`) carries the queue's theorems over
(`ProgramMemorySafety`). `TunnelInv` adds to the queue's invariant that `Pop`
runs only in its round of `use_tunnel` (`PopInRound`, needed for
`WrittenOnceInOrder`), that each `send` after a hang-up is followed by a `recv` that takes
a byte or ends the session (`HangUpInv`, needed for `FewLateSends`), and that nothing is
queued before the callback is set (`CallbackInv`, needed for
`DropsPrecedePushes`). `StartInv` is a second inductive invariant, for
`NullCallOnlyAtStart` (`NullCallConfined`): until `send_callback` is set no client is
accepted and, on Linux, nothing queued. From `TunnelInv` follow `DescriptorsAreFresh`, `LeakFreedom`,
`ExactlyOnceWriting`, `LateSendsBounded` and `StartupDrops`, for
both sides, any number of sessions, bytes and values, and any buffer size.

**Server** (`SequenceLemmas`, `WebsocketServerProofs`). `Keep` is recursive, and
the library's induction rules cannot be applied to it; `SequenceLemmas` takes a
least counterexample instead (the order of the natural numbers is well-founded),
and shows what `Keep` does with an appended element, and that it neither adds
nor repeats. The invariant `ServerInv` grows from the list outwards:

- `ListIsExact` needs to know that the networking thread's handler finds the
  session in the state it was started for (`InHandler`).
- `BroadcastsWithoutGap` needs that a connection has been given nothing before it
  is listed (`FreshUntilListed`), and which broadcast was the newest of each thread when
  it was (the history variable `since`): it is given exactly those that follow. What a client was given is what it received
  and what waits for it, one after the other; writing a frame moves it without
  changing the whole. While a thread broadcasts, a connection's place in the list
  tells whether the newest broadcast has reached it, and the mutex keeps the
  places from changing.
- `HelloBeforeEchoes` needs to follow the hello from the handler that posts it
  (`RegisteredFirst`: it is registered by then) through the queue and the main
  thread to the client: it is in exactly one of them, and nothing else for the
  connection is ahead of it (`HelloOnItsWay`).

`ServerInvariant`, `ListInvariant`, `BroadcastsInvariant` and `HelloInvariant`
hold for any number of connections, broadcasting threads, broadcasts and
messages.

**Program** (`ProgramProofs`). Each step of the process is a step of `TcpTunnel` or
leaves its variables alone, and the same for `WebsocketServer`: the modules are composed
that way. Two lemmas say so (`TunnelImplemented`, `ServerImplemented`) and carry the
theorems about the parts over to the whole process (`TunnelInvInProgram`,
`BroadcastsInProgram`). `HandedOn` needs both of them, and `RelayInv`: the tunnel's newest
broadcast is its newest frame, except while it waits for the lock. So what the server
promises of broadcasts is what a client sees of the TCP connection: exactly the frames
since it was listed.

**base64** (`SequentialProofs`). `CodecInv` is the loop invariant: after k iterations
the encoder has written the quanta of the first 3k bytes, and at each position
the decoder has the bytes before it. The arithmetic of one quantum, that four
characters determine three bytes, is a set of lemmas about integers, separate
from the induction over the steps. `RoundTripHolds` and `DecoderStaysInBounds`
follow, for strings of every length.

**Functions on texts** (`SequenceLemmas`, `SequentialProofs`). `CallInvariant` says that
a call returns what its function makes of its arguments; what is left is to show what
each loop computes, for every argument. The recursion is inside a definition, where no
induction rule reaches it. `LoopExists` (`SequenceLemmas`) supplies the sequence of a
loop's states, from which the definition gets its value (`SplitRounds`,
`InsertRounds`, `EraseRounds`, `DumpRounds`), and `SetInduction`, induction over a set
of numbers, shows that the loop's invariant holds in each of them. The invariants:

- `SplitInv`: the parts found so far, joined by colons, are the text up to the
  position. The search that follows starts behind the last colon, so no part has one
  (`PartsHold`; and `PayloadHolds`, which also needs the converse, `SplitOnce`: a text
  with one colon has just its two parts).
- `InsertInv`: up to the break written last every line is full, and the rest has no
  break and is not empty, which is why none is written at the very end (`LinesHold`).
- `EraseInv`: no break lies before the position, and filtering what is left gives what
  filtering the text gives, so a break that follows another one is not stepped over
  (`BreaksHold`).
- `DumpInv`: the bytes that are not printed yet stand in the line, and as characters in
  the buffer with the end of the string right behind them (`Filled`), which hides what
  an earlier line left there (`BytesShown`).
- The options: what the calls so far have set is what was given last, but for the size
  of the buffer, which `set_option` keeps only if it is set last (`LastArgumentHolds`).

The run `sequential` checks the same properties in an instance whose behaviours run
either the codec (`Spec`) or one call (`CallSpec`). The assumption on the arguments
(`CallsAssumption`) is that they are texts, bytes, line lengths from 1 on, and options
of the program's table, that BIN_DATA has no colon, and that an encoded text has no
line break.

**Fork mode** (`StandaloneTunnelProofs`). `NothingInherited` speaks of two labels; that
it holds there depends on what each process closes before. `ForkInv` says what the
parent and each child hold at each of their labels, whichever calls have failed, for
any number of sessions (`SessionsAssumption`). From it also follows `ReleasedAtExit`,
the safety half of `HangUpReleases`: an ended child leaves no descriptor of its session
in any process, but for the one the parent is just about to close.

**Only model-checked**: the liveness properties (`ExitEnds`, `HelloArrives`, `ClosedIsForgotten`, `HangUpEndsSession`, `IgnoredSocketDrainsQueue`,
`ByteReachesClients`, `HangUpReleases`), because the prover does not handle `ENABLED` and
fairness. Every safety property of a passing run is a theorem.

## 5. Not modelled

- `send()` that blocks because a peer does not read, and short counts of it.
- Fork mode inside the server's process: `server.cpp` never sets `settings.fork`.
- `WSAStartup`, whose failure ends the process as that of `build_server` does.
- JSON beyond whether parsing and the accessors throw. `messageHandlers` grows by
  an empty entry for each unknown type a client sends
  (`WebsocketServer.cpp:160`); nothing reads its size.
- The log lines that the input thread posts to the main loop, time stamps, and
  what else is only printed.
- The end of the input, after which the input thread broadcasts empty lines for
  ever; the bounded runs have only so many lines.
- asio and jsoncpp, except as queues of handlers and outcomes of parsing, and the
  browser page, a test client: only the frames it sends and receives.
- Whatever turns the `{"__MESSAGE__":"BIN_DATA|..."}` that one side broadcasts
  into the `BIN_DATA:...` that `messageParse` of the other accepts: it is not in
  the repository. For the same reason there is no model of two sides connected
  with each other.

## 6. Plan

Done, the most important behaviour first: the queue and its refinement, the
tunnel thread on it, the server's connections, base64, the composition of the
whole process, the end of the queue, the options, fork mode, and the functions
on texts; the proofs of the queue and its shutdown, the tunnel, the server, the
composition, the codec, the functions on texts and fork mode. To come are proofs:

1. The safety halves of the other liveness properties, as `ReleasedAtExit` is one: that
   no state is left in which a hang-up cannot be seen any more, or a hello that was
   posted is in no queue.
2. In `Program`, what is proved of the server alone about hellos and the list, as
   `BroadcastsInProgram` does it for the broadcasts.
