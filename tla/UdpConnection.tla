----------------------------- MODULE UdpConnection -----------------------------
(***************************************************************************)
(* A UDP connection of a GenericWorker: udp_read_io, udp_write_io, the     *)
(* idle timer and UDPConnection, with the process_io_buffer of the         *)
(* simple-udp-server demo, which answers whatever it is called with.       *)
(*                                                                         *)
(* The socket is connected to one client.  The kernel reports an answer    *)
(* that could not be delivered (the client has left) as an error of the    *)
(* next read() or write().  For a time it may refuse every write().  A     *)
(* byte is represented by the number of the datagram it came in.           *)
(***************************************************************************)
EXTENDS Integers, Sequences

CONSTANTS
    Sizes,          \* sizes of the client's datagrams
    ReadSize,       \* the 1024 bytes udp_read_io() reads at most
    SendBuffer,     \* answers the kernel buffers
    MayLeave,       \* may the client go away?
    MaxDatagrams,   \* bound: datagrams of the client
    MaxQueue        \* bound: answers queued

Junk == 0           \* a byte nobody wrote

ASSUME UdpConstants ==
    /\ Sizes \subseteq Nat \ {0} /\ ReadSize \in Nat \ {0}
    /\ SendBuffer \in Nat \ {0} /\ MayLeave \in BOOLEAN
    /\ MaxDatagrams \in Nat /\ MaxQueue \in Nat \ {0}

VARIABLES
    open,       \* the connection exists
    pc,         \* "loop", or inside conn_io_cb: "cb", in udp_write_io: "write"
    revents,    \* the events conn_io_cb was called with and has not handled
    events,     \* the events the watcher waits for
    fresh,      \* was there an interaction since the timer fired last?
    sent,       \* datagrams the client has sent
    gone,       \* the client has left
    inq,        \* datagrams in the socket: number and size
    error,      \* the socket has an error to report
    failing,    \* write() fails at present (no route, no memory)
    buf,        \* _io_buffer
    got,        \* history: all bytes read from the socket
    queued,     \* Len of _reply_list
    owned,      \* answers that are allocated and not freed
    room        \* answers the kernel can still buffer

client == <<sent, gone>>
vars   == <<open, pc, revents, events, fresh, client, inq, error, failing, buf, got,
            queued, owned, room>>

Init ==
    /\ open = TRUE /\ pc = "loop" /\ revents = {} /\ events = {"READ"}
    /\ fresh = TRUE /\ sent = 0 /\ gone = FALSE /\ inq = <<>> /\ error = FALSE
    /\ failing = FALSE
    /\ buf = <<>> /\ got = <<>> /\ queued = 0 /\ owned = 0 /\ room = SendBuffer

-----------------------------------------------------------------------------
(* The client, the network and the kernel.                                 *)

ClientSend(n) ==
    /\ open /\ ~gone /\ sent < MaxDatagrams
    /\ sent' = sent + 1
    /\ inq' = Append(inq, [id |-> sent + 1, size |-> n])
    /\ UNCHANGED <<open, pc, revents, events, fresh, gone, error, failing, buf, got,
                   queued, owned, room>>

ClientLeaves ==
    /\ MayLeave /\ ~gone
    /\ gone' = TRUE
    /\ UNCHANGED <<open, pc, revents, events, fresh, sent, inq, error, failing, buf, got,
                   queued, owned, room>>

\* The socket was reported readable, but the datagram turns out to be damaged.
Damaged ==
    /\ pc = "cb" /\ inq # <<>>
    /\ inq' = Tail(inq)
    /\ UNCHANGED <<open, pc, revents, events, fresh, client, error, failing, buf, got,
                   queued, owned, room>>

\* An answer leaves the buffer; if nobody is there to take it, an error comes
\* back, unless it is lost.
Transmit ==
    /\ room < SendBuffer
    /\ room' = room + 1
    /\ \/ UNCHANGED error
       \/ gone /\ error' = TRUE
    /\ UNCHANGED <<open, pc, revents, events, fresh, client, inq, failing, buf, got,
                   queued, owned>>

\* The kernel begins or ceases to refuse what is written.
Network ==
    /\ open
    /\ failing' = ~failing
    /\ UNCHANGED <<open, pc, revents, events, fresh, client, inq, error, buf, got,
                   queued, owned, room>>

Ready == (IF inq # <<>> \/ error THEN {"READ"} ELSE {})
           \cup (IF room > 0 \/ error THEN {"WRITE"} ELSE {})

-----------------------------------------------------------------------------
(* The worker.                                                             *)

\* The event loop calls conn_io_cb with the events that are due.
Poll ==
    /\ open /\ pc = "loop" /\ Ready \cap events # {}
    /\ revents' = Ready \cap events
    /\ pc' = "cb"
    /\ UNCHANGED <<open, events, fresh, client, inq, error, failing, buf, got, queued,
                   owned, room>>

\* add_reply(), as process_io_buffer calls it.
AddReply ==
    /\ queued' = queued + 1
    /\ owned' = owned + 1
    /\ events' = events \cup {"WRITE"}

Least(a, b) == IF a < b THEN a ELSE b

\* read() at the start of the buffer, then sdsIncrLen() by what was read.
Overwrite(d) ==
    LET r == Least(d.size, ReadSize)
    IN  /\ buf' = [i \in 1 .. Len(buf) + r |->
                     IF i <= r THEN d.id ELSE IF i <= Len(buf) THEN buf[i] ELSE Junk]
        /\ got' = got \o [i \in 1 .. r |-> d.id]

\* udp_read_io(): process_io_buffer() is called whatever read() returned.
ReadIo ==
    /\ pc = "cb" /\ "READ" \in revents /\ queued < MaxQueue
    /\ IF error
       THEN error' = FALSE /\ UNCHANGED <<inq, buf, got>>
       ELSE /\ UNCHANGED error
            /\ IF inq = <<>>
               THEN UNCHANGED <<inq, buf, got>>
               ELSE inq' = Tail(inq) /\ Overwrite(Head(inq))
    /\ AddReply
    /\ fresh' = TRUE
    /\ revents' = revents \ {"READ"}
    /\ UNCHANGED <<open, pc, client, failing, room>>

WriteIo ==
    /\ pc = "cb" /\ "READ" \notin revents /\ "WRITE" \in revents
    /\ pc' = "write"
    /\ revents' = {}
    /\ UNCHANGED <<open, events, fresh, client, inq, error, failing, buf, got, queued,
                   owned, room>>

CbReturns ==
    /\ pc = "cb" /\ revents = {}
    /\ pc' = "loop"
    /\ UNCHANGED <<open, revents, events, fresh, client, inq, error, failing, buf, got,
                   queued, owned, room>>

\* One turn of the loop of udp_write_io() whose write() takes the answer.
WriteReply ==
    /\ pc = "write" /\ queued > 0 /\ ~error /\ ~failing /\ room > 0
    /\ queued' = queued - 1
    /\ owned' = owned - 1
    /\ room' = room - 1
    /\ UNCHANGED <<open, pc, revents, events, fresh, client, inq, error, failing, buf, got>>

\* One turn whose write() fails with the pending error: it is tried again at
\* once.  A turn that fails because the buffer is full, or for as long as the
\* kernel refuses every write(), changes nothing: the loop goes round.
WriteFails ==
    /\ pc = "write" /\ queued > 0 /\ error
    /\ error' = FALSE
    /\ UNCHANGED <<open, pc, revents, events, fresh, client, inq, failing, buf, got,
                   queued, owned, room>>

\* Mutant: the watcher stays armed.
WriteDoneArmed ==
    /\ pc = "write" /\ queued = 0
    /\ fresh' = TRUE
    /\ pc' = "loop"
    /\ UNCHANGED <<open, revents, events, client, inq, error, failing, buf, got, queued,
                   owned, room>>

WriteDone ==
    /\ pc = "write" /\ queued = 0
    /\ fresh' = TRUE
    /\ events' = events \ {"WRITE"}
    /\ pc' = "loop"
    /\ UNCHANGED <<open, revents, client, inq, error, failing, buf, got, queued, owned, room>>

\* close_conn(): ~UDPConnection() does not free the answers in _reply_list.
CloseConn ==
    /\ open' = FALSE
    /\ queued' = 0
    /\ events' = {}
    /\ inq' = <<>>
    /\ UNCHANGED <<pc, revents, fresh, client, error, failing, buf, got, owned, room>>

\* process_timeout(): the timer repeats; connection_timeout has passed when
\* there was no interaction between two times it fires.
Timer ==
    /\ open /\ pc = "loop"
    /\ IF fresh
       THEN /\ fresh' = FALSE
            /\ UNCHANGED <<open, pc, revents, events, client, inq, error, failing, buf,
                           got, queued, owned, room>>
       ELSE CloseConn

\* The worker is told to quit and closes its connections.
WorkerStop == open /\ pc = "loop" /\ CloseConn

-----------------------------------------------------------------------------
ConnIoCb == Poll \/ ReadIo \/ WriteIo \/ CbReturns \/ WriteReply \/ WriteFails
              \/ WriteDone

Next ==
    \/ \E n \in Sizes : ClientSend(n)
    \/ ClientLeaves \/ Damaged \/ Transmit \/ Network
    \/ ConnIoCb \/ Timer \/ WorkerStop

Spec == Init /\ [][Next]_vars

-----------------------------------------------------------------------------
(* Properties.                                                             *)

\* Every variable has its type.
TypeOK ==
    /\ open \in BOOLEAN /\ pc \in {"loop", "cb", "write"}
    /\ revents \subseteq {"READ", "WRITE"} /\ events \subseteq {"READ", "WRITE"}
    /\ fresh \in BOOLEAN /\ sent \in 0 .. MaxDatagrams /\ gone \in BOOLEAN
    /\ inq \in Seq([id : 1 .. MaxDatagrams, size : Sizes]) /\ error \in BOOLEAN
    /\ failing \in BOOLEAN
    /\ buf \in Seq(0 .. MaxDatagrams) /\ got \in Seq(1 .. MaxDatagrams)
    /\ queued \in 0 .. MaxQueue /\ owned \in 0 .. MaxQueue
    /\ room \in 0 .. SendBuffer

\* While the connection exists, exactly the queued answers are allocated: an
\* answer is freed when the kernel has taken it, and not before.
OwnedIsQueued == open => owned = queued

\* A connection whose client stays and sends nothing more is closed by the idle
\* timer, unless udp_write_io() goes round with a write() that keeps failing
\* (worker.cpp:303).  (Of a client that has left this cannot be said: each answer
\* may come back as an error, and udp_read_io answers the failed read and counts it
\* as an interaction.)
IdleClosed ==
    sent = MaxDatagrams /\ ~gone ~> ~open \/ gone \/ (failing /\ pc = "write" /\ queued > 0)
=============================================================================
