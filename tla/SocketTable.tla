------------------------------ MODULE SocketTable ------------------------------
(***************************************************************************)
(* NetworkManager::_sockets, indexed by descriptor, which the dispatcher's *)
(* thread writes (wrap_socket) and the workers' threads read (write_io)    *)
(* without a lock; and the workers' own tables _conns.                     *)
(*                                                                         *)
(* wrap_socket() may move the vector to other storage.  A worker loads the *)
(* start of the storage and then the element; when the vector has moved in *)
(* between it reads freed memory, which may hold anything.  The kernel may *)
(* give a descriptor out again as soon as it is closed.  A Socket and the  *)
(* Connection that owns it are named by the number of the accept(); the    *)
(* way of a socket to its worker is the subject of Dispatch.               *)
(***************************************************************************)
EXTENDS Integers, FiniteSets

CONSTANTS
    Workers,
    Fds,            \* descriptors the kernel gives to connections
    ListenFd,       \* the listening socket
    MaxAccepts      \* bound: connections accepted

ASSUME SocketTableConstants ==
    /\ Fds \subseteq Nat \ {0} /\ IsFiniteSet(Fds)
    /\ ListenFd \in Nat \ ({0} \cup Fds)
    /\ MaxAccepts \in Nat

Null    == 0
Listen  == -1                   \* the listening Socket
Sockets == 1 .. MaxAccepts

VARIABLES
    size,       \* _sockets.size()
    moves,      \* how often the storage has moved
    entry,      \* _sockets, by descriptor
    wrapping,   \* the descriptor accept() returned and wrap_socket() handles
    roomy,      \* wrap_socket() has made sure that the table is large enough
    accepted,   \* connections accepted so far
    handed,     \* sockets on their way to a worker: worker, descriptor, socket
    open,       \* descriptors in use
    live,       \* Socket objects not deleted yet
    conns,      \* per worker: _conns, by descriptor
    replies,    \* connections with a reply to write
    cb,         \* per worker: the callback it is in: where, descriptor, connection
    start       \* per worker: the storage it has loaded

table == <<size, moves, entry, wrapping, roomy, accepted, handed>>
vars  == <<table, open, live, conns, replies, cb, start>>

Idle == [at |-> "loop", fd |-> 0, conn |-> Null]

Grown(fd, n) == IF fd >= n THEN fd * 2 ELSE n

Init ==
    /\ size = Grown(ListenFd, 0)
    /\ moves = 0
    /\ entry = [f \in Fds \cup {ListenFd} |-> IF f = ListenFd THEN Listen ELSE Null]
    /\ wrapping = Null
    /\ roomy = FALSE
    /\ accepted = 0
    /\ handed = {}
    /\ open = {ListenFd}
    /\ live = {Listen}
    /\ conns = [w \in Workers |-> [f \in Fds |-> Null]]
    /\ replies = {}
    /\ cb = [w \in Workers |-> Idle]
    /\ start = [w \in Workers |-> 0]

-----------------------------------------------------------------------------
(* The dispatcher.                                                         *)

GenericAccept(fd) ==
    /\ wrapping = Null /\ accepted < MaxAccepts /\ fd \notin open
    /\ wrapping' = fd
    /\ accepted' = accepted + 1
    /\ open' = open \cup {fd}
    /\ live' = live \cup {accepted + 1}
    /\ UNCHANGED <<size, moves, entry, roomy, handed, conns, replies, cb, start>>

\* wrap_socket() makes room if it has to: the vector moves to new storage.
MakeRoom ==
    /\ wrapping # Null /\ ~roomy
    /\ size' = Grown(wrapping, size)
    /\ moves' = IF wrapping >= size THEN moves + 1 ELSE moves
    /\ roomy' = TRUE
    /\ UNCHANGED <<entry, wrapping, accepted, handed, open, live, conns, replies, cb,
                   start>>

\* The rest of wrap_socket(); the socket is handed to worker w.
WrapSocket(w) ==
    /\ wrapping # Null /\ roomy
    /\ entry' = [entry EXCEPT ![wrapping] = accepted]
    /\ handed' = handed \cup {[worker |-> w, fd |-> wrapping, sock |-> accepted]}
    /\ wrapping' = Null
    /\ roomy' = FALSE
    /\ UNCHANGED <<size, moves, accepted, open, live, conns, replies, cb, start>>

-----------------------------------------------------------------------------
(* The workers: conn_io_cb.                                                *)

At(w, place) == cb' = [cb EXCEPT ![w].at = place]
Return(w)    == cb' = [cb EXCEPT ![w] = Idle]

CreateConnection(w) ==
    /\ cb[w] = Idle
    /\ \E h \in handed :
          /\ h.worker = w
          /\ handed' = handed \ {h}
          /\ conns' = [conns EXCEPT ![w][h.fd] = h.sock]
    /\ UNCHANGED <<size, moves, entry, wrapping, roomy, accepted, open, live, replies, cb,
                   start>>

\* The event loop reports fd readable and writable, or (if a reply waits) only
\* writable.
ConnIoCb(w, fd, place) ==
    /\ cb[w] = Idle /\ conns[w][fd] # Null
    /\ place = "write" => conns[w][fd] \in replies
    /\ cb' = [cb EXCEPT ![w] = [at |-> place, fd |-> fd, conn |-> conns[w][fd]]]
    /\ UNCHANGED <<table, open, live, conns, replies, start>>

\* read_io() handles a request and queues the reply.
ReadIo(w) ==
    /\ cb[w].at = "read"
    /\ replies' = replies \cup {cb[w].conn}
    /\ At(w, "write")
    /\ UNCHANGED <<table, open, live, conns, start>>

\* Mutant: the descriptor is closed while the connection is in _conns.
RemoveConnClosed(w) ==
    /\ cb[w].at = "read"
    /\ open' = open \ {cb[w].fd}
    /\ At(w, "close")
    /\ UNCHANGED <<table, live, conns, replies, start>>

\* read_io() closes the connection: remove_conn() ...
RemoveConn(w) ==
    /\ cb[w].at = "read"
    /\ conns' = [conns EXCEPT ![w][cb[w].fd] = Null]
    /\ live' = live \ {cb[w].conn}
    /\ replies' = replies \ {cb[w].conn}
    /\ At(w, "close")
    /\ UNCHANGED <<table, open, start>>

\* ... and close(); conn_io_cb goes on to write_io() with the same descriptor.
CloseFd(w) ==
    /\ cb[w].at = "close"
    /\ open' = open \ {cb[w].fd}
    /\ At(w, "write")
    /\ UNCHANGED <<table, live, conns, replies, start>>

\* write_io(): sockets[fd] begins with the address of the storage.
LoadStart(w) ==
    /\ cb[w].at = "write"
    /\ start' = [start EXCEPT ![w] = moves]
    /\ At(w, "element")
    /\ UNCHANGED <<table, open, live, conns, replies>>

\* The element; if the vector has moved, freed memory.  If it is null, write_io()
\* returns.
LoadElement(w) ==
    /\ cb[w].at = "element"
    /\ \E s \in IF start[w] = moves THEN {entry[cb[w].fd]} ELSE {Null, Listen} :
           IF s = Null THEN Return(w) ELSE At(w, "conn")
    /\ UNCHANGED <<table, open, live, conns, replies, start>>

\* Mutant: nothing is written.
WriteIoKeeping(w) ==
    /\ cb[w].at = "conn"
    /\ Return(w)
    /\ UNCHANGED <<table, open, live, conns, replies, start>>

\* Mutant: the connection read_io() had found is used again.
WriteIoUnchecked(w) ==
    /\ cb[w].at = "conn"
    /\ replies' = replies \ {cb[w].conn}
    /\ At(w, "use")
    /\ UNCHANGED <<table, open, live, conns, start>>

\* The rest of write_io(): the connection, if there is one, is written to.
WriteIo(w) ==
    /\ cb[w].at = "conn"
    /\ IF conns[w][cb[w].fd] = Null
       THEN Return(w) /\ UNCHANGED replies
       ELSE At(w, "use") /\ replies' = replies \ {conns[w][cb[w].fd]}
    /\ UNCHANGED <<table, open, live, conns, start>>

WriteIoDone(w) ==
    /\ cb[w].at = "use"
    /\ Return(w)
    /\ UNCHANGED <<table, open, live, conns, replies, start>>

-----------------------------------------------------------------------------
Worker(w) ==
    \/ ReadIo(w) \/ RemoveConn(w) \/ CloseFd(w) \/ LoadStart(w) \/ LoadElement(w)
    \/ WriteIo(w) \/ WriteIoDone(w)

Next ==
    \/ \E fd \in Fds : GenericAccept(fd)
    \/ MakeRoom
    \/ \E w \in Workers :
          \/ WrapSocket(w) \/ CreateConnection(w) \/ Worker(w)
          \/ \E fd \in Fds, place \in {"read", "write"} : ConnIoCb(w, fd, place)

Spec == Init /\ [][Next]_vars

\* Worker threads run, and libev reports a writable descriptor for as long as
\* the watcher waits for WRITE.
FairSpec ==
    /\ Spec
    /\ \A w \in Workers :
          /\ WF_vars(Worker(w))
          /\ \A fd \in Fds : SF_vars(ConnIoCb(w, fd, "write"))

-----------------------------------------------------------------------------
(* Properties.                                                             *)

\* Every variable has its type.
TypeOK ==
    /\ size \in Nat /\ moves \in Nat /\ accepted \in 0 .. MaxAccepts /\ roomy \in BOOLEAN
    /\ entry \in [Fds \cup {ListenFd} -> Sockets \cup {Null, Listen}]
    /\ handed \subseteq [worker : Workers, fd : Fds, sock : Sockets]
    /\ wrapping \in Fds \cup {Null} /\ open \subseteq Fds \cup {ListenFd}
    /\ live \subseteq Sockets \cup {Listen}
    /\ conns \in [Workers -> [Fds -> Sockets \cup {Null}]]
    /\ replies \subseteq Sockets
    /\ cb \in [Workers -> [at : {"loop", "read", "close", "write", "element", "conn", "use"},
                           fd : Fds \cup {0}, conn : Sockets \cup {Null}]]
    /\ start \in [Workers -> Nat]

\* The entry of a connection's descriptor is inside the table and is the
\* connection's own socket, which has not been deleted, and the descriptor is
\* open: no other worker has it (network_manager.cpp:105).
EntryIsOwn ==
    \A w \in Workers, f \in Fds :
        conns[w][f] # Null =>
            /\ f < size /\ entry[f] = conns[w][f]
            /\ conns[w][f] \in live
            /\ f \in open
            /\ \A v \in Workers \ {w} : conns[v][f] = Null

\* write_io(), which looks the descriptor up again after read_io() may have closed
\* it and another thread may have been given it, writes only to the connection
\* the callback is for, and only if that still exists.
WritesOwnConn ==
    \A w \in Workers :
        cb[w].at = "use" => conns[w][cb[w].fd] = cb[w].conn /\ cb[w].conn \in live

\* A reply is written or its connection is closed, although a write_io() that
\* meets a moving table may return without having written.
ReplyServed == \A c \in Sockets : c \in replies ~> c \notin replies
=============================================================================
