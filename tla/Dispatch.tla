------------------------------- MODULE Dispatch -------------------------------
(***************************************************************************)
(* The dispatcher thread, the worker threads and the hand-over of accepted *)
(* connections between them: src/src/server/dispatcher.cpp, the            *)
(* notification and life-cycle half of worker.cpp, and server.cpp.         *)
(*                                                                         *)
(* A connection is known by its descriptor.  Descriptors come back: once a *)
(* worker has closed one the kernel may return it from the next accept().  *)
(* The queue between dispatcher and worker is the atomic FIFO queue that   *)
(* LockFreeQueue implements.  The notification pipe is a bounded FIFO of   *)
(* whole messages (both ends are non-blocking and sizeof(int) <= PIPE_BUF, *)
(* so a write happens entirely or fails with EAGAIN).                      *)
(***************************************************************************)
EXTENDS Naturals, Sequences, FiniteSets

CONSTANTS
    WorkerNum,      \* options.worker_num
    Fds,            \* descriptors the kernel hands out for connections
    NoFd,           \* no descriptor
    PipeCap,        \* messages a notification pipe holds
    MaxAccepts      \* bound: how many connections arrive

ASSUME DispatchConstants ==
    /\ WorkerNum \in Nat \ {0}
    /\ Fds \subseteq Nat /\ NoFd \notin Fds
    /\ PipeCap \in Nat \ {0}
    /\ MaxAccepts \in Nat

Workers == 0 .. WorkerNum - 1       \* indices into _workers

VARIABLES
    dpc,            \* what the dispatcher thread is doing
    sock,           \* the accepted socket it is dispatching
    target,         \* the worker it is dispatching to
    nextWorker,     \* _next_worker
    joining,        \* the worker join_workers() has come to
    stopCalled,     \* QUIT is in the dispatcher's pipe
    mq,             \* each worker's _mq
    pipe,           \* each worker's notification pipe
    wpc,            \* what each worker thread is doing
    conns,          \* the descriptors with an entry in each worker's _conns
    closing,        \* the descriptor each worker is about to close
    open,           \* descriptors of connections that the kernel holds open
    accepts,        \* history: how many connections were accepted
    assigned,       \* history: how many of them each worker was given
    lost            \* history: notifications each worker's pipe refused

dispatcher == <<dpc, sock, target, nextWorker, joining>>
worker == <<wpc, conns, closing>>
history == <<accepts, assigned, lost>>
vars == <<dispatcher, stopCalled, mq, pipe, worker, open, history>>

\* The server is initialized: pipe and listening socket exist and every
\* worker thread runs its event loop.
Init ==
    /\ dpc = "loop" /\ sock = NoFd /\ target = 0
    /\ nextWorker = 0 /\ joining = 0
    /\ stopCalled = FALSE
    /\ mq = [w \in Workers |-> <<>>]
    /\ pipe = [w \in Workers |-> <<>>]
    /\ wpc = [w \in Workers |-> "loop"]
    /\ conns = [w \in Workers |-> {}]
    /\ closing = [w \in Workers |-> NoFd]
    /\ open = {}
    /\ accepts = 0
    /\ assigned = [w \in Workers |-> 0]
    /\ lost = [w \in Workers |-> 0]

\* GenericWorker::notify: the write succeeds if the pipe has room.
HasRoom(w) == Len(pipe[w]) < PipeCap

------------------------------------------------------------------------------
(* The dispatcher thread.                                                  *)

\* accept_new_conn up to dispatch_new_conn: generic_accept and wrap_socket.
\* An accept() that fails changes nothing.
AcceptNewConn(fd) ==
    /\ dpc = "loop"
    /\ accepts < MaxAccepts
    /\ fd \notin open
    /\ open' = open \cup {fd}
    /\ sock' = fd
    /\ accepts' = accepts + 1
    /\ dpc' = "push"
    /\ UNCHANGED <<target, nextWorker, joining, stopCalled, mq, pipe, worker,
                   assigned, lost>>

NextIndex(i) == (i + 1) % WorkerNum

\* dispatch_new_conn: choose the worker and mq_push.
DispatchPush ==
    /\ dpc = "push"
    /\ target' = nextWorker
    /\ nextWorker' = NextIndex(nextWorker)
    /\ mq' = [mq EXCEPT ![nextWorker] = Append(@, sock)]
    /\ assigned' = [assigned EXCEPT ![nextWorker] = @ + 1]
    /\ sock' = NoFd
    /\ dpc' = "notify"
    /\ UNCHANGED <<joining, stopCalled, pipe, worker, open, accepts, lost>>

\* Mutant: the worker is not told.
DispatchNotifyNobody ==
    /\ dpc = "notify"
    /\ dpc' = "loop"
    /\ UNCHANGED <<sock, target, nextWorker, joining, stopCalled, mq, pipe,
                   worker, open, history>>

\* dispatch_new_conn: notify(NEW_CONNECTION).  When the pipe is full the
\* error is logged and the socket stays in the queue.
DispatchNotify ==
    /\ dpc = "notify"
    /\ IF HasRoom(target)
       THEN /\ pipe' = [pipe EXCEPT ![target] = Append(@, "NEW_CONNECTION")]
            /\ UNCHANGED lost
       ELSE /\ lost' = [lost EXCEPT ![target] = @ + 1]
            /\ UNCHANGED pipe
    /\ dpc' = "loop"
    /\ UNCHANGED <<sock, target, nextWorker, joining, stopCalled, mq, worker,
                   open, accepts, assigned>>

\* recv_notify, process_internal_notify(QUIT) and stop() up to join_workers:
\* both watchers are deleted, so nothing is accepted any more.
RecvQuit ==
    /\ dpc = "loop"
    /\ stopCalled
    /\ dpc' = "quit"
    /\ joining' = 0
    /\ UNCHANGED <<sock, target, nextWorker, stopCalled, mq, pipe, worker,
                   open, history>>

\* Mutant: QUIT overtakes the notifications that are still in the pipe.
JoinNotifyUrgent ==
    /\ dpc = "quit"
    /\ pipe' = IF HasRoom(joining)
               THEN [pipe EXCEPT ![joining] = <<"QUIT">> \o @]
               ELSE pipe
    /\ dpc' = "join"
    /\ UNCHANGED <<sock, target, nextWorker, joining, stopCalled, mq, worker,
                   open, history>>

\* Mutant: the thread is joined without being told to quit.
JoinWithoutNotify ==
    /\ dpc = "quit"
    /\ dpc' = "join"
    /\ UNCHANGED <<sock, target, nextWorker, joining, stopCalled, mq, pipe,
                   worker, open, history>>

\* join_workers: notify(QUIT), whose result is ignored.
JoinNotify ==
    /\ dpc = "quit"
    /\ pipe' = IF HasRoom(joining)
               THEN [pipe EXCEPT ![joining] = Append(@, "QUIT")]
               ELSE pipe
    /\ dpc' = "join"
    /\ UNCHANGED <<sock, target, nextWorker, joining, stopCalled, mq, worker,
                   open, history>>

\* join_workers: join_thread returns when the thread has exited.
JoinThread ==
    /\ dpc = "join"
    /\ wpc[joining] = "exited"
    /\ IF joining + 1 < WorkerNum
       THEN dpc' = "quit" /\ joining' = joining + 1
       ELSE dpc' = "stopped" /\ UNCHANGED joining
    /\ UNCHANGED <<sock, target, nextWorker, stopCalled, mq, pipe, worker,
                   open, history>>

DispatcherStep ==
    \/ DispatchPush
    \/ DispatchNotify
    \/ RecvQuit
    \/ JoinNotify
    \/ JoinThread

\* GenericServer::stop, from any thread.
ServerStop ==
    /\ ~stopCalled
    /\ stopCalled' = TRUE
    /\ UNCHANGED <<dispatcher, mq, pipe, worker, open, history>>

------------------------------------------------------------------------------
(* A worker thread.                                                        *)

\* Mutant: one readable event empties the pipe.
RecvNotifyAll(w) ==
    /\ wpc[w] = "loop"
    /\ pipe[w] # <<>>
    /\ pipe' = [pipe EXCEPT ![w] = <<>>]
    /\ wpc' = [wpc EXCEPT ![w] = IF Head(pipe[w]) = "QUIT" THEN "stopping" ELSE "pop"]
    /\ UNCHANGED <<dispatcher, stopCalled, mq, conns, closing, open, history>>

\* recv_notify: one message per readable event.  QUIT enters stop(), which
\* deletes the pipe watcher first.
RecvNotify(w) ==
    /\ wpc[w] = "loop"
    /\ pipe[w] # <<>>
    /\ pipe' = [pipe EXCEPT ![w] = Tail(@)]
    /\ wpc' = [wpc EXCEPT ![w] = IF Head(pipe[w]) = "QUIT" THEN "stopping" ELSE "pop"]
    /\ UNCHANGED <<dispatcher, stopCalled, mq, conns, closing, open, history>>

\* process_internal_notify(NEW_CONNECTION): mq_pop and create_connection.
NewConnection(w) ==
    /\ wpc[w] = "pop"
    /\ IF mq[w] # <<>>
       THEN /\ mq' = [mq EXCEPT ![w] = Tail(@)]
            /\ conns' = [conns EXCEPT ![w] = @ \cup {Head(mq[w])}]
       ELSE UNCHANGED <<mq, conns>>
    /\ wpc' = [wpc EXCEPT ![w] = "loop"]
    /\ UNCHANGED <<dispatcher, stopCalled, pipe, closing, open, history>>

\* Mutant: the descriptor is closed while the connection is still in _conns.
RemoveConnLate(w, fd, after) ==
    /\ open' = open \ {fd}
    /\ closing' = [closing EXCEPT ![w] = fd]
    /\ wpc' = [wpc EXCEPT ![w] = after]
    /\ UNCHANGED <<dispatcher, stopCalled, mq, pipe, conns, history>>

\* close_conn, first half: remove_conn clears _conns[fd] and deletes the
\* connection and its socket object.
RemoveConn(w, fd, after) ==
    /\ conns' = [conns EXCEPT ![w] = @ \ {fd}]
    /\ closing' = [closing EXCEPT ![w] = fd]
    /\ wpc' = [wpc EXCEPT ![w] = after]
    /\ UNCHANGED <<dispatcher, stopCalled, mq, pipe, open, history>>

\* The connection ends: peer closed, read or write error, time-out, or
\* process_io_buffer did not return WORKER_OK.
ConnEnds(w, fd) ==
    /\ wpc[w] = "loop"
    /\ fd \in conns[w]
    /\ RemoveConn(w, fd, "close")

\* stop(): the connections are closed in the order of their descriptors.
StopRemove(w, fd) ==
    /\ wpc[w] = "stopping"
    /\ fd \in conns[w]
    /\ \A g \in conns[w] : fd <= g
    /\ RemoveConn(w, fd, "stopclose")

\* close_conn, second half: close(fd).
CloseFd(w) ==
    /\ wpc[w] \in {"close", "stopclose"}
    /\ open' = open \ {closing[w]}
    /\ closing' = [closing EXCEPT ![w] = NoFd]
    /\ wpc' = [wpc EXCEPT ![w] = IF @ = "close" THEN "loop" ELSE "stopping"]
    /\ UNCHANGED <<dispatcher, stopCalled, mq, pipe, conns, history>>

\* stop() is done, ev_run returns, run() ends the thread.
ExitThread(w) ==
    /\ wpc[w] = "stopping"
    /\ conns[w] = {}
    /\ wpc' = [wpc EXCEPT ![w] = "exited"]
    /\ UNCHANGED <<dispatcher, stopCalled, mq, pipe, conns, closing, open,
                   history>>

\* What the thread does by itself; when connections end is up to the peers.
WorkerStep(w) ==
    \/ RecvNotify(w)
    \/ NewConnection(w)
    \/ \E fd \in Fds : StopRemove(w, fd)
    \/ CloseFd(w)
    \/ ExitThread(w)

Next ==
    \/ \E fd \in Fds : AcceptNewConn(fd)
    \/ DispatcherStep
    \/ ServerStop
    \/ \E w \in Workers : WorkerStep(w)
    \/ \E w \in Workers, fd \in Fds : ConnEnds(w, fd)

Spec == Init /\ [][Next]_vars

\* Every thread is scheduled, and libev serves a descriptor that stays ready.
\* Nobody has to connect, to hang up or to call stop().
FairSpec ==
    /\ Spec
    /\ WF_vars(DispatcherStep)
    /\ \A w \in Workers : WF_vars(WorkerStep(w))

------------------------------------------------------------------------------
TypeOK ==
    /\ dpc \in {"loop", "push", "notify", "quit", "join", "stopped"}
    /\ sock \in Fds \cup {NoFd}
    /\ target \in Workers /\ nextWorker \in Workers /\ joining \in Workers
    /\ stopCalled \in BOOLEAN
    /\ mq \in [Workers -> Seq(Fds)]
    /\ pipe \in [Workers -> Seq({"NEW_CONNECTION", "QUIT"})]
    /\ wpc \in [Workers -> {"loop", "pop", "close", "stopping", "stopclose", "exited"}]
    /\ conns \in [Workers -> SUBSET Fds]
    /\ closing \in [Workers -> Fds \cup {NoFd}]
    /\ open \subseteq Fds
    /\ accepts \in Nat
    /\ assigned \in [Workers -> Nat]
    /\ lost \in [Workers -> Nat]

\* The descriptors worker w is responsible for: waiting in its queue, in its
\* table, or about to be closed by it.
Queued(w) == {mq[w][i] : i \in 1 .. Len(mq[w])}
Closing(w) == {closing[w]} \ {NoFd}
Held(w) == Queued(w) \cup conns[w] \cup Closing(w)

(* A descriptor is open exactly as long as one thread is responsible for   *)
(* it, and never two: although descriptors are reused, no worker ever      *)
(* closes, or does I/O on, a connection that is another one's by now, and  *)
(* no accepted connection is dropped unclosed.  close_conn's order (clear  *)
(* _conns[fd], then close(fd)) is what makes this true.                    *)
FdOwnedOnce ==
    /\ open = ({sock} \ {NoFd}) \cup UNION {Held(w) : w \in Workers}
    /\ \A w \in Workers :
          /\ sock \notin Held(w)
          /\ \A i, j \in 1 .. Len(mq[w]) : mq[w][i] = mq[w][j] => i = j
          /\ Queued(w) \cap conns[w] = {}
          /\ closing[w] \notin Queued(w) \cup conns[w]
          /\ \A v \in Workers \ {w} : Held(v) \cap Held(w) = {}

\* NEW_CONNECTION messages in w's pipe.
Announced(w) ==
    Cardinality({i \in 1 .. Len(pipe[w]) : pipe[w][i] = "NEW_CONNECTION"})

(* Every socket in a worker's queue has its own notification under way,    *)
(* unless the pipe was full when it was sent; so process_internal_notify   *)
(* never finds the queue empty, and without a full pipe no connection      *)
(* waits for a notification that is not coming.                            *)
MqAnnounced ==
    \A w \in Workers :
        Len(mq[w]) = Announced(w) + lost[w]
                     + (IF wpc[w] = "pop" THEN 1 ELSE 0)
                     + (IF dpc = "notify" /\ target = w THEN 1 ELSE 0)

(* Round robin: at any moment two workers were given numbers of            *)
(* connections that differ by at most one, lower indices first.            *)
RoundRobin ==
    \A v, w \in Workers :
        v <= w => assigned[w] <= assigned[v] /\ assigned[v] <= assigned[w] + 1

(* Notifications are served in order, so a worker that quits has taken     *)
(* over every connection it was told of, and has closed them all: what is  *)
(* still open after the join was in a queue whose notification got lost.   *)
NothingLeftBehind ==
    \A w \in Workers :
        wpc[w] = "exited" => /\ conns[w] = {} /\ closing[w] = NoFd
                             /\ Len(mq[w]) = lost[w]

(* After stop() the dispatcher joins every worker and run() returns        *)
(* (simple_server.cpp: "will block until someone call server->stop()").    *)
StopReturns == stopCalled ~> dpc = "stopped"

(* The same, unless a worker's pipe is full when it is sent QUIT.          *)
StopReturnsUnlessFull ==
    \/ StopReturns
    \/ <>(dpc = "quit" /\ ~HasRoom(joining))

(* A connection that waits in a worker's queue is eventually taken out,    *)
(* unless the worker's pipe has refused a notification.                    *)
QueueDrains == \A w \in Workers : mq[w] # <<>> ~> mq[w] = <<>> \/ lost[w] > 0
==============================================================================
