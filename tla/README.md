# A TLA+ model of spigeon

spigeon is a C++ framework for asynchronous network servers. This directory
models the parts of it whose correctness depends on interleavings, on how the
network cuts data up, or on long sequences of calls. TLC checks the models on
small instances; TLAPS proves the central invariants for every instance.

## The system

    GenericServer ── GenericDispatcher ──┬── GenericWorker 0
      stop()          accepts, deals out ├── GenericWorker 1
                                         └── ...
                          │  per worker: LockFreeQueue<void*> + notification pipe
                          ▼
            NetworkManager, Connection (TCP, UDP), Socket, EventLoop (libev)

* **GenericServer** (`server.cpp`) owns the dispatcher, reads the options and
  the configuration file; `stop()` may be called from any thread.
* **GenericDispatcher** (`dispatcher.cpp`) is one thread. It accepts
  connections, deals them out to the workers round robin, and on QUIT stops and
  joins the workers one after the other.
* **GenericWorker** (`worker.cpp`) is a thread with an event loop: it takes new
  connections over, reads requests, writes replies, closes idle connections.
* **LockFreeQueue** (`util/queue.h`) passes accepted sockets from the dispatcher
  (producer) to a worker (consumer). A pipe wakes the worker up.
* **NetworkManager, Connection, Socket, EventLoop** wrap the system calls and
  libev.
* **SimpleWorker** (`examples/demo/simple-tcp-server`) is the protocol handler
  that shows how the framework is used: a header of fixed length with a magic
  number and the length of the body, then the body; it echoes the request.
* **gsdm** (`gsdm/`) is a second server model, on Unix sockets and commands.
* **util** has an asynchronous log, per-thread statistics, locks, key locks,
  dynamic strings (sds), number conversion, files, configuration, allocation,
  hashing and formatting. **client** has an HTTP client.

`PROJECT.json` lists every part with its status.

## Modules

| module | models | proofs |
|---|---|---|
| `FifoQueue` | what the queue promises: an atomic FIFO queue | |
| `LockFreeQueue` | `util/queue.h`, one shared access per step | `LockFreeQueueProofs` |
| `Dispatch` | dispatcher, workers' notification handling, stop | `DispatchProofs` |
| `TcpFraming` | `tcp_read_io`, `TCPConnection`, `SimpleWorker` | `TcpConnectionProofs` |
| `ReplyWriter` | `add_reply`, `tcp_write_io`, event mask, destructor | `TcpConnectionProofs` |
| `TcpConnection` | both halves in one event loop, with the demo's echo | `TcpConnectionProofs` |
| `UdpConnection` | `udp_read_io`, `udp_write_io`, idle timer, `UDPConnection` | `UdpStartupProofs` |
| `UdpAccept` | `UDPSocket::accept` and the kernel's choice of a socket | `UdpStartupProofs` |
| `SocketTable` | `NetworkManager::_sockets` and `_conns` under reuse of descriptors | `DispatchProofs` |
| `EventLoop` | `event.cpp` over libev: watchers, timers, collected callbacks | `ProxyWorkerProofs` |
| `ProxyWorker` | a worker's callbacks on an `EventLoop`, with the HTTP proxy demo and the HTTP client | `ProxyWorkerProofs` |
| `Config` | the options, `load_conf_file`, the setters | `UdpStartupProofs` |
| `Startup` | `initialize`, `spawn_worker`, `run`, `stop`, destructor, on top of `Config` | `UdpStartupProofs` |
| `Gsdm` | `gsdm/new_worker.cpp`: queues and announcements between workers | `LockFreeQueueProofs` |
| `AsyncLog` | `util/log.cpp`: appending threads, the log thread, `log_close` | `AsyncLogProofs` |
| `LogLine` | `util/log.cpp`: how a line is fitted into its buffer | |
| `Stat` | `util/stat.cpp`: per-thread counters and queries over all threads | `CountProofs` |
| `Sds` | `util/sds.cpp`: one string and its memory | `UtilProofs` |
| `SdsText` | `util/sds.cpp`: formatted output, splitting, quoting | |
| `Numbers` | `util/utils.cpp`: numbers, times and sizes in text | |
| `UrlFormat` | `util/url_snprintf.cpp`: formatted output with percent-encoding | |
| `Paths` | `util/file.cpp`: `dirname`, `basename`, `create_dir` with racing processes | |
| `KeyLock` | `util/key_lock.h`: keys that share mutexes | `UtilProofs` |
| `Zmalloc` | `util/zmalloc.cpp`: blocks and the counter `used_memory` | `CountProofs` |
| `Counters` | `Stat` or `Zmalloc`, one per behaviour | `CountProofs` |
| `Util` | one utility library with state per behaviour, `Counters` among them | `UtilProofs` |
| `Bytes` | characters as bytes, for the text modules | |

`MC*` modules instantiate these for TLC. `MCUtil` adds the pure functions to `Util`
and has the reference definitions for them.

### LockFreeQueue

`first`, `divider` and `last` are the three pointers, `value`, `next` and `live`
the heap. `produce()` is split into allocating the node (`ProduceNew`), linking
it, moving `last`, and freeing nodes up to `divider` one at a time
(`ProduceScan`, `ProduceReclaim`); `consume()` into the emptiness check, the
read and the move of `divider`; the destructor frees one node per step. Every
step makes one access to shared memory, so every interleaving of the two threads
is explored. A freed address may be returned by the next `new`. The memory model
is sequential consistency; the delayed stores of x86 are not represented.

`ImplementsFifo` is the refinement of `FifoQueue` by this module. It justifies
that `Dispatch` treats the queue as an atomic sequence.

### Dispatch

A connection is its descriptor. The kernel reuses descriptors, so `open` is the
set it has handed out and `AcceptNewConn` may return any other. `dpc` and `wpc`
are the program counters of the dispatcher and of each worker; a step ends where
another thread could see the difference: between pushing a socket and writing
the notification (`DispatchPush`, `DispatchNotify`), between clearing
`_conns[fd]` and `close(fd)` (`RemoveConn`, `CloseFd`), between sending QUIT and
joining (`JoinNotify`, `JoinThread`). Pipes are bounded FIFOs of whole messages:
both ends are non-blocking, and a write of `sizeof(int)` bytes to a pipe is
atomic, so it succeeds or fails as a whole. `pthread_join` is taken not to fail.

### TcpFraming

Bytes are counted, not represented. The client's stream is a sequence of
messages with their offsets; `_io_buffer` holds the stream from offset `base` on,
`iblen` bytes of it. A read returns any number of bytes from 1 to
`_bytes_expected`, which covers every segmentation TCP may choose; EAGAIN, end
of file, errors and the idle timer are actions of their own. After the header of an
empty body the next `read()` asks for nothing, returns 0 and is taken for the end of
the stream. `ProcessIoBuffer`
is `SimpleWorker::process_io_buffer` with `reset`, `expect_next` and
`shrink_processed`.

`Timeout` is possible only when nothing is left to read: bytes on their way are
taken to arrive within `connection_timeout`.

`Connection::read` and `Connection::write` have no `return` statement. The
repository builds without optimisation, where the callers receive what
`Socket::read` and `Socket::write` returned; the models use that value.

### ReplyWriter

Each reply has an offset in the stream to the peer; `wire` counts the bytes
written. `tcp_write_io` is a loop of `write()` calls: `WriteFinish`,
`WritePartial`, `WriteZero` and `WriteError` are the outcomes of one call, and
`WriteDone` is its end. The kernel's send buffer has room for `SendBuffer` bytes
and the peer empties it at times of its choosing. `frees` counts how often each
reply's memory was freed, by the loop or by the destructor.

### TcpConnection

Composes `TcpFraming` and an instance of `ReplyWriter`: `ReadEffect` is what a
step of the reading half does to the writing half (an answer for a request, the
destructor for a close), a failed write closes the reading half, and the thread
reads only when it is not inside `tcp_write_io`. `StreamIntact` is the promise to
the client; `HalvesImplemented` says that the composition implements the
specifications of both halves, so what is checked or proved of one of them alone
holds in the connection.

### UdpConnection

One connected UDP socket, with the demo's handler, which answers whatever it is
called with. `Poll` is libev calling `conn_io_cb` with the events that are due;
`ReadIo` is the whole of `udp_read_io`, which calls the handler also after a
failed read; `WriteReply`, `WriteFails` and `WriteDone` are the turns and the end
of the loop in `udp_write_io`. An answer to a client that has left may come back
as an error of the next read or write, and for a time every write may fail
(`Network`). The idle timer is abstracted to "no
interaction between two firings".

### UdpAccept

The dispatcher receives a datagram from the listening socket (`RecvFrom`), drops
it, binds a new socket to the same address (`CreateBind`) and connects it to the
sender (`Connect`). Between the two a datagram of any client may reach the new
socket (`early`). Whether `recvfrom()` or `connect()` failed is not looked at;
`ConnectBlind` is what follows. A datagram is a client and a number.

### SocketTable

`MakeRoom` and `WrapSocket` are `wrap_socket` in the dispatcher's thread;
`LoadStart` and `LoadElement` are the two loads of `sockets[fd]` in `write_io`. A
worker that has loaded the start of storage which was moved since reads anything.
The callback goes on to `write_io` after `read_io` has closed the descriptor, as
in the code. Descriptor 0, for which `wrap_socket` makes no room, is left out: it is
open in a server that was started the usual way.

### EventLoop and ProxyWorker

A loop is a record of watchers, timers and the callbacks that one turn of libev
has collected; the functions of `event.cpp` map a loop to a loop. Stopping a
watcher drops its collected callback, as in libev.

`ProxyWorker` runs a worker's callbacks on such a loop: new connections and QUIT
from the pipe, requests, replies and timeouts, and the callbacks of the HTTP
client (an answer, a timeout, an error). `conn_io_cb` reads and writes in
separate steps, so a connection may be closed in between (`WriteNobody`).
The HTTP proxy demo is written for an earlier version of the framework
(`store_framework.h`, namespace `store`) and does not compile with this one; the model
takes its callbacks as they are and runs them on this version's worker.
Connections and `backend_req_t` are addresses that the allocator uses again;
`flag[b]` is the cell through which the removal of a connection tells the
backend's callback that nobody waits. Requests and replies are whole.

### Config and Startup

A configuration file is what the vendored parser makes of it: a list of nodes
with a key and a value. `ParseConf` handles one node; what was set before an
error stays set. Values are texts that `SdsSplitArgs` and `Atoi` take apart.

`Startup` is the main thread from `initialize()` to the destructor, with the
options that `Config` has left and a failure at every call that can fail. A worker
whose `initialize()` failed is `"deaf"`: its loop has no watcher and returns at
once, and a QUIT for it is written to a descriptor that was never set (`Reached`).
The owner may delete the server whenever `initialize()` or `run()` has returned;
a thread that goes on with a deleted worker may bring the process down or end
(`UseDeleted`). Accesses that bring the process down lead to `"crash"`. A pipe may
refuse a QUIT and `join_thread()` may fail (`JoinNotify`, `JoinFails`).

### Gsdm

A channel is a receiver, a sender and a command type. `SendCmd` ends after
`produce()`, `NotifyUnix` is the blocking `sendto()`, `RecvUnixNotify` takes one
announcement and consumes one command. The queues are atomic FIFO queues, which
`LockFreeQueue` implements. Set-up is finished before the threads start.

### AsyncLog

`log_printf` takes the mutex, appends and releases it in separate steps. The log
thread looks at the list without the mutex, writes the first record to the file
of its level, takes the mutex to pop it, frees it, and flushes before it sleeps.
Files may be moved away and are then reopened. The text of a record is not
represented here; `LogLine` has the lengths of the pieces of a line, the position
in the buffer, the room left and the place of the terminator.

### Stat

Each thread has a map, entered in a vector at its first use (`InitThreadData`,
`PushThreadData`). A query visits the maps one per step, without the vector's
mutex; a push that exceeds the capacity moves the storage, and a query under way
is then `QueryAstray`.

### Sds

`len` and `free` are the header, `alloc` the bytes behind it, `buf` their
contents. `text` is what the string should be, defined on sequences. Each
operation includes the `sdsMakeRoomFor` it calls.

### SdsText, Numbers, UrlFormat

Functions from byte sequences to byte sequences, written like the loops they
model. `MCUtil` compares them with what they are meant to compute: what is quoted
is read back, tokens put together are the text, `string2ll` accepts exactly the
numerals of its range, an output that is cut is a prefix of the whole one.
`Numbers` takes the widths of `long long` and `long` as constants, so that every
number of the type is an input.

### Paths, KeyLock, Zmalloc

In `Paths` three processes create directories on shared file system state;
`stat()`, `access()` and `mkdir()` are steps. `dirname()` cuts a `std::string` by
writing a terminator into it, and the model keeps what is behind the terminator.
In `KeyLock` a key's mutex is chosen by its hash. In `Zmalloc` an update of
`used_memory` is one step when `zmalloc_thread_safe` is set and a read and a write
when it is not; `overlap` records that an update fell between the two of another.

## Runs

| run | checks | bounds, and why they suffice |
|---|---|---|
| `lock_free_queue` | memory safety, refinement of the FIFO queue | 4 addresses for 4 items of 2 values: every address is freed and reused while the other thread is inside the list |
| `dispatch` | ownership of descriptors, announcement, nothing left behind, queues drain, `stop()` completes | 2 workers, 3 descriptors for 7 connections, so that descriptors change workers; pipes of capacity 2, so that messages queue up and both kinds get lost |
| `dispatch_full_pipe` | violated: `stop()` completes | pipes of capacity 1 |
| `tcp_connection` | message boundaries, buffer bound, echo without gaps and freed once, progress of both halves, both specifications | headers of 2 bytes, bodies of 0, 1 and 3, 3 messages: frames shorter and longer than the header, and pipelining; answers of 3 and 5 bytes for a send buffer of 3 |
| `tcp_framing_stall` | violated: a complete request is handled | bodies of 1 and 3, 2 messages |
| `async_log` | order, freeing, flushing, closing, records are written | 2 threads, 2 records, a level for each file, one rotation |
| `udp_connection` | sockets have their own clients' datagrams, answers are freed when taken, idle connections are closed, datagrams are accepted | datagrams of 1 and 3 bytes for reads of 2, 3 datagrams, send buffer of 2: truncation, damaged datagrams, a client that leaves at any time; accepting: 2 clients with 2 datagrams each, so that one comes at every point of `accept()` |
| `gsdm` | order and announcements, only cycles hold commands up | 2 workers (also sending to themselves), 5 commands for sockets of 2, so that senders block |
| `socket_table` | entries, writes to the own connection, replies are served | descriptors 4 and 9, so that the table moves under the workers; 4 connections, so that descriptors are reused |
| `startup` | options, what an initialised server has, deletion, `run()` ends | up to 3 workers on 2 processors; files of up to 2 nodes out of 16, which repeat, correct and spoil each other; every call may fail |
| `http_proxy` | watchers and callbacks match, backend requests match, answers reach who asked, requests end | 1 connection address for 3 clients and 2 addresses of backend requests for 2 requests: a connection is replaced at its address while the backend works for the old one, and two requests are in flight |
| `util` | queries of statistics, strings, directories, key locks, the allocator's counter, text and numbers, buffers | see below |

`util` is one run for the utility libraries; each behaviour exercises one:

* statistics: 4 threads (the vector moves three times and once uses spare capacity
  while a query walks it), 2 updates, one of a negative value, 1 query;
* strings: up to 5 bytes over 3 including 0, arguments up to 3, preallocation limit
  3, so that both ways to grow occur;
* directories: 3 processes on 6 paths, absolute, relative, ending with a slash, with
  a doubled slash, and through a file; `dirname` and `basename` on all paths of up
  to 6 characters;
* key locks: 3 threads, 3 keys of which two share one of 4 mutexes;
* allocation: 2 threads, 2 blocks of sizes 0, 5 and 16, 7-bit `size_t`, followed
  until two updates of the counter overlap;
* text: arguments over every kind of quoting, lines of up to 5 characters, texts of
  up to 8 with three separators, formatted output across four buffer
  sizes;
* numbers: all texts of up to 4 of 8 characters and all numbers of an 8-bit
  `long long`, units of times and sizes;
* URL encoding: 15 formats with buffers of 0 to 10 bytes;
* log lines: pieces that fit, fill and exceed a buffer of 40, items around one of 6.

Deadlock checking is off in all runs because the systems may stop: the queue is
destroyed, the server is stopped, connections are closed, the bounded clients have
nothing more to send, and a pure function has no next step.

`TypeOK` documents the types of a module's variables. It is proved for the modules
that have proofs and is not among the properties of the runs.

### What the violations show

* **`dispatch_full_pipe`**: `join_workers` ignores that `notify(QUIT)` can fail.
  With a full pipe the worker is never told to quit and is joined forever.
  `StopReturnsUnlessFull` is what does hold.
* **`tcp_framing_stall`**: `tcp_read_io` reads up to `_bytes_expected` bytes on
  top of those already buffered, then takes at most one step of the receive
  state machine. The bytes of the next step can then be in the buffer with
  nothing left to read. A request that is complete waits until the client sends
  more, or until the idle timer closes the connection. `CatchesUp` is what does
  hold: the rest that waits is shorter than the longest frame.

### Limits that the models show

Some properties hold only with an exception, which they name; other behaviour was
met while modelling and is represented as it is in the code.

* `DeletedNotRunning` has two exceptions. When a worker cannot be bound to its
  processor, which with `bind_cpu` must happen if there are more workers than
  processors (the defaults are 8 workers and `bind_cpu`), `spawn_worker` deletes it
  under its running thread. And the destructor deletes the listed workers also when
  their threads were not joined, after an `initialize()` that failed half-way, without
  a `run()`, or after a `join_thread()` that failed, which `stop()` ignores.
* `RunEnds`: `join_workers` waits for ever for a worker whose full pipe refused its
  QUIT; that can happen to any worker (see `dispatch_full_pipe`).
* `CmdProcessed`: gsdm workers whose commands send to each other can block each
  other for good.
* `IdleClosed` is about clients that stay, and its exception is a `write()` that keeps
  failing: `udp_write_io` then goes round for ever and no timer runs. After a client
  has left, an answer provokes an error, the error a read, and `udp_read_io` answers
  the failed read and counts it as an interaction.
* The part of `OwnClient` about answers is about open connections: `~UDPConnection`
  does not free the answers still queued, which `~TCPConnection` does.
* `udp_read_io` reads to the start of the buffer and then adds to its length
  (`Overwrite`), so a second datagram overwrites the first.
* A reply of size 0 makes `write()` return 0, which `tcp_write_io` takes for a
  socket that would block (`WriteZero`); the demo's replies are never empty.
* Queries of statistics iterate over the vector without the mutex declared for it;
  `QueryWindow` is about queries during which it did not move (`QueryAstray`
  otherwise). Reading a statistic enters it with value 0, which a maximum of
  negative values then returns.
* `OwnClient`: a datagram that arrives between `bind()` and `connect()` of a new UDP
  socket belongs to any client. The result of `recvfrom()` is compared as an
  unsigned number, so its error goes unnoticed, and that of `connect()` is not
  looked at.
* `AnswersOwnClient`: a connection of the proxy demo remembers one backend request.
  With two in flight the first is not told when the connection is removed.
* Options that bring the process down (`Parse`, `CreateServer`, `DispatchToNobody`):
  a key no command has whose quotes are not closed, no address, an unknown server
  type, a UDP server that cannot be bound (a log call formats a missing text), and no
  workers when a client comes. The result of `listen()` is not looked at.
* `PathsCreated`: `create_dir` fails for a path with a doubled slash behind a name,
  because the directory in front of it is made twice.
* `TextExact` leaves out hours: the multiplier in `timetoll` exceeds `int`
  (`WrappedHour`). The comment on `memtoll` (utils.cpp:49) says that "1Gi" is
  1073741824; the code knows no such unit, sets the error flag and returns 1.
* `BuffersKept`: `url_vsnprintf` puts its terminator behind `size` bytes, and pads a
  number on both sides when it should be on the left only; `log_printf` may touch
  the one byte behind its buffer while a line is made.
* `MemoryCounted` ends where two updates of `used_memory` overlap: nobody calls
  `zmalloc_enable_thread_safeness()`.

## Fairness

* `Dispatch`: weak fairness of the dispatcher thread and of each worker thread;
  libev reports a descriptor again as long as it is readable. Nobody has to
  connect, hang up or call `stop()`.
* `TcpFraming`: what was written arrives, a readable socket is read, and the
  repeating timer of an idle connection fires. A read of an unreadable socket
  (EAGAIN) is possible and never required.
* `TcpConnection`: what was written arrives, the loop serves a socket that stays
  readable or writable, and the client goes on reading. Reading is strongly fair,
  because the loop comes back between writes and then serves READ first. The idle
  timer is not relied on.
* `UdpConnection`: the worker's thread runs, its repeating timer fires, the kernel
  sends what it has buffered. `UdpAccept`: the dispatcher's thread accepts.
* `ProxyWorker`: the thread runs the callbacks it has collected; again and again a
  turn of the loop finds a request's timer expired, or a client that goes on reading
  ready to be written to (strong fairness: turns for other events come between).
  Neither an answer of the backend nor the idle timer is relied on.
* `SocketTable`: worker threads run; strong fairness of a WRITE callback, because
  libev handles every pending event of an iteration before it polls again.
* `Startup`: the main thread and the workers' threads run. No call has to fail, and
  nobody has to call `stop()` or delete the server.
* `Gsdm`: threads run, and a blocked `sendto()` goes ahead if there is room again
  and again (strong fairness: the kernel wakes the waiting senders).
* `AsyncLog`: the log thread and threads inside `log_printf` run, and the mutex is
  not withheld forever from a thread that waits for it.

## Proofs

Every safety property of the passing runs but three is proved for every value of the
constants. The theorems rest on the named assumption of the module they are about
(`QueueConstants`, `DispatchConstants`, `FramingConstants` with
`ConnectionConstants`, `LogConstants`, `ProxyConstants`, `StartupConstants` with
`ConfConstants`, `CounterConstants` with `StatConstants`, `UtilConstants`), which TLC
evaluates on the run's instance. `Gsdm`, `SocketTable`, `ReplyWriter` and
`MCUdpConnection` are reached through an instance with variables of its own; their
theorems have the assumption as a hypothesis (`GsdmConstants`,
`SocketTableConstants`, `ReplyConstants`, `AcceptConstants`). TLC evaluates the same
assumptions in the runs of those modules, and `TcpConnectionProofs` discharges
`ReplyConstants` for the instance in a connection.

The assumptions say that constants have their types, that names for "nothing" are
none of the things, and that sets of threads, descriptors and blocks are finite. Two
say more. `CounterConstants`: all blocks together, rounded up and with their
prefixes, are smaller than the address space, as blocks in memory are.
`StatConstants`: the values stay above `INT64_MIN` after all decrements of a run, so
that the maximum over no thread is below every value.

**`LockFreeQueueProofs`** proves `NoUseAfterFree`, `Fifo`, `NothingLeaks`,
`TypeOK` and the refinement. The history variable `order` lists the nodes in the
order in which they were linked; the invariant places `first`, `divider` and
`last` at positions in it (`Positions`), says that consecutive nodes are linked
(`Linked`), that exactly the nodes from `first` on, and a node under
construction, are allocated (`Heap`), what each program counter implies
(`Control`), and that the sequence of values is the sequence sent
(`SameOrder`). None of the properties is inductive without the positions: that
the consumer's node is allocated follows from `first <= divider`, which only the
producer's view of a `divider` that never moves back preserves.

Its last part proves `InOrder` of `Gsdm`, which `CommandInv` makes inductive: a
channel has one sender at a time, because main sends only before the threads run and
a worker only on its own channels (`Turns`), and what is in a worker's socket is a
channel of that worker (`Known`). The announcements in the receiver's socket, and the
one that a blocked sender still owes (`Owed`), are balanced against the queue channel
by channel (`Balance`), so that a step disturbs one balance only.

**`DispatchProofs`** proves `TypeOK`, `FdOwnedOnce` and `RoundRobin`. `Hands`
says when `sock` and `closing[w]` name a descriptor, and `Ownership` restates
`FdOwnedOnce` worker by worker, so that a step of one worker disturbs only its
own conjunct. `RoundRobin` follows from `Turns`: workers below `_next_worker`
have had exactly one connection more than the others. `MqAnnounced` is a balance,
worker by worker (`Balance`), which every step keeps; the lemmas on `News` say how
the number of NEW_CONNECTION messages in a pipe changes when one is written or read.
For `NothingLeftBehind` the balance is not enough: `QuitOrder` says that QUIT is the
last message of a pipe, that a worker which has read it finds its pipe empty, and
that the dispatcher hands out nothing after it.

Its last part proves `TypeOK`, `EntryIsOwn` and `WritesOwnConn` of `SocketTable`. The
invariant says of every socket, in `_conns` or on its way to a worker, that its
descriptor is open and its entry in the table its own (`Placed`), that descriptors
and sockets have one owner and correspond (`OneOwner`, `OneSocket`), and what is
known while a socket is wrapped, between `remove_conn` and `close`, and inside a
callback (`Wrapping`, `Closing`, `Callback`). `Closing` is the core: a descriptor
that is being closed is still open, so `accept` cannot return it, and it is in no
worker's `_conns`.

**`TcpConnectionProofs`** proves `TypeOK`, `FrameSync`, `BufferBound` and
`RejectedForCause` of `TcpFraming`. `Layout` says that the client's messages lie one
behind the other, `Phase` what each receive state says about the counters.
`BufferBound` is inductive because each event reads at most `_bytes_expected` bytes
and, once so many are there, processes exactly that many. For `ReplyWriter`, `Chain`
says that the list holds the replies added last, numbered consecutively and placed
one behind the other up to the end of the stream; so the first reply's end is the
second one's beginning, and the replies freed are exactly those in front of the list.
`Life` says that only an open connection has replies. The composition follows:
`StepHalves` shows that every step of the connection is a step, or none, of each
half, given that the thread is inside `tcp_write_io` only while the connection is
open (`Threading`); this is `HalvesImplemented`. The invariants of the halves
therefore hold in the connection. On top of them `Echo` is inductive: the place of
the next answer is the place of the next request, because both move by header and
body. `StreamIntact` follows.

**`AsyncLogProofs`** proves `LogOrder`, `FreedAfterWrite` and `CloseKeepsMarked`.
`Locked` says who holds the mutex. The list is always the end of the history of what
was appended (`Suffix`); the record in the log thread's hand is the first one that
was not yet popped (`InHand`), which holds although the thread looks at the list
without the mutex, because the others only append. Records are numbered when they
are created, so no thread's record is on the list before it is pushed (`Ids`), and
those freed are the ones popped, but for the one about to be freed (`Freed`).
`Buffered` and `Rounds` are about the streams' buffers and about the last time
`g_log_running` was read. `LogOrder` relates a file to the popped prefix of the
history; a record's rank among those of its file is counted with the library's facts
on finite sets.

**`ProxyWorkerProofs`** proves `WatchersMatch`, `RequestsMatch` and
`AnswersOwnClient`. The first part is about `event.cpp`: each operation maps a
well-formed loop (`Good`: active watchers exist, and collected callbacks are about
watchers that are still there) to one, and changes one watcher or timer. `IInv` says
that exactly the open connections and the backend requests in flight are watched
(`ConnsWatched`, `BrsWatched`), that what `priv_data` points to points back
(`PrivMatches`), what the cells `flag[b]` say (`Marked`), and, without pipelining, that
a marked request belongs to the client that has the connection now (`Owned`). A
callback that closes its own connection is the hard case: between reading and writing
all but the part about the callback being made holds (`Core`).

**`UdpStartupProofs`** proves `ConfLoaded`, `InitializedWhole` and
`DeletedNotRunning`, for any meaning of the texts in a file. `Applied` says that an
option has the value of the last of the nodes handled so far, so `ConfLoaded` is
kept node by node. For the life of a server, `Listed` says that all workers made so
far are listed in the order of their numbers, but for the one being spawned, `Made`
that nothing is deleted before a call has failed, and `Deleted` how a deleted worker
came to be one and that the threads of joined workers have ended. `InitializedWhole`
needs `Listed` and `Made` together: that there is no thread without a listed worker
follows from counting `_cpu_id` against the list. Its last part proves `OwnClient` of the two UDP modules
(`UdpInv`): every datagram in a connected socket is of its client or came early
(`Own`), the socket being made is the last one (`Making`), and `Blind` is about a
`connect()` that failed.

**`UtilProofs`** proves `StringSafe` of `Sds` for strings of any length and
`KeysLocked` of `KeyLock` for any hash and any number of mutexes. `StringInv` is the
property with the types of the memory; each operation is a lemma about the sequence
it writes. That a loop stops at the first byte it looks for is taken from the
well-ordering of the naturals. `LockHeld` says that a locked mutex was locked for a
key its thread holds, that a thread holds one key per mutex, and that a thread which
waits holds none. `Refinement_Counters` carries what `CountProofs` proves of
`Counters` over to `Util`.

**`CountProofs`** proves `QueryWindow` and `MemoryCounted` of `Counters`, and so of
`Util`. Both are about sums over a finite set of threads or blocks. The lemmas on sums
(one value changes, values are ordered, a set is split) cannot be proved by induction
over sets here; they go by the smallest subset for which a sum would be wrong
(`LeastSubset`). For a query the invariant is about what was visited and what is still
to come: the sum so far is at most what the visited maps hold now, and with what the
other maps hold at least the truth of the beginning (`SumWindow`), and the maximum
likewise (`MaxWindow`); at the end of the vector every map with a value is visited. For the allocator `MemoryCounted` is `Balanced`, which says that the
counter and the pending updates add up as integers. That the arithmetic modulo the
width of `size_t` is the integers' needs `MemCounts`: the counter can be split into
shares, one per block, each of which the block's size and the updates still due for it
determine (`Ledger`), so no subtraction goes below zero and no sum beyond the address
space.

`RoundRobin`, `NothingLeaks`, `RejectedForCause` and `Fifo` are proved and are not
properties of a run.

Only model-checked:

* liveness, which is outside the prover's reach: `StopReturnsUnlessFull`,
  `QueueDrains`, `CatchesUp`, `ReplyDelivered`, `LogWritten`, `IdleClosed`,
  `DatagramAccepted`, `CmdProcessed`, `ReplyServed`, `RunEnds`, `RequestEnds`;
* `TextExact` and `BuffersKept`: what recursive functions compute for every text or
  buffer needs induction over data;
* `PathsCreated`: which directories `create_dir` meets is a recursive function of the
  path.

## What remains

* `LockFreeQueue` with the store buffers of x86, refining the same `FifoQueue`. The
  proof would need positions for what each thread has stored and the other has not
  seen.
* gsdm's failures in `initialize`, and the look-up in the receiver's map, which the
  sender makes without a lock.

## Not modelled

* Hashing and CRC (`util/`): fixed arithmetic without state; a model would repeat
  the code line by line and have nothing to compare it with.
* The mcpack reader and writer (`util/pack.cpp`): each function passes one call on to a
  vendored library.
* `Status`, `Slice`, `util/string.cpp`: value types whose operations copy or compare.
* `profiler.h` and `list.h`: included by no other file.
* The shells of gsdm's server, and the demo programs around their workers, which only
  set options.
* Functions that pass a system call on (`socket.cpp`, addresses, most of `file.cpp`):
  their results are inputs of the other modules.
* Floating-point conversions of `url_vsnprintf`, the resident set size in
  `zmalloc.cpp`, other allocators.
* Vendored code (`deps/`), libev and the HTTP library among it: represented by what
  the code relies on.
* The TLS option, of which only the initial event mask has an effect.
