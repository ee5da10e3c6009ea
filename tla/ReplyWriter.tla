----------------------------- MODULE ReplyWriter ------------------------------
(***************************************************************************)
(* How replies leave a TCP connection: add_reply, tcp_write_io and the     *)
(* watcher's event mask (worker.cpp, event.cpp), and what closing the      *)
(* connection does to the replies that were not written                    *)
(* (TCPConnection::~TCPConnection).                                        *)
(*                                                                         *)
(* Bytes are counted: reply k is meant to occupy the bytes from its offset *)
(* at on of the stream to the peer.  The kernel's send buffer has room for *)
(* a number of bytes; write() takes at most that many.                     *)
(***************************************************************************)
EXTENDS Naturals, Sequences

CONSTANTS
    ReplySizes,     \* the sizes of replies
    SendBuffer,     \* bytes the kernel buffers for the peer
    SslOpen,        \* options.ssl_open
    MaxReplies      \* bound: how many replies are added

\* What is assumed of them (TcpConnection assumes it for its instance).
ReplyConstants ==
    /\ ReplySizes \subseteq Nat
    /\ SendBuffer \in Nat \ {0}
    /\ SslOpen \in BOOLEAN
    /\ MaxReplies \in Nat

Events == {"READ", "WRITE"}

VARIABLES
    pc,             \* "loop": in the event loop, "write": in tcp_write_io
    open,           \* the connection is in _conns
    events,         \* the watcher's event mask
    replies,        \* _reply_list
    listSize,       \* _reply_list_size
    written,        \* _bytes_written
    room,           \* free bytes in the kernel's send buffer
    wire,           \* how many bytes were written in all
    total,          \* history: the sum of the sizes of all replies
    added,          \* history: the number of replies added
    frees           \* history: how often each reply's memory was freed

vars == <<pc, open, events, replies, listSize, written, room, wire, total,
          added, frees>>

\* A reply: its number, its place in the stream to the peer, its size.
Reply == [id : Nat \ {0}, at : Nat, size : ReplySizes]

\* create_connection.
Init ==
    /\ pc = "loop" /\ open = TRUE
    /\ events = IF SslOpen THEN Events ELSE {"READ"}
    /\ replies = <<>> /\ listSize = 0
    /\ written = 0
    /\ room = SendBuffer
    /\ wire = 0
    /\ total = 0 /\ added = 0
    /\ frees = [k \in 1 .. MaxReplies |-> 0]

\* EventLoop::start_io_event and stop_io_event on an active watcher.
StartIoEvent(mask) == events' = events \cup mask

StopIoEvent(mask) == events' = events \ mask

\* add_reply, called while a request is processed.
AddReply(size) ==
    /\ pc = "loop" /\ open
    /\ added < MaxReplies
    /\ added' = added + 1
    /\ total' = total + size
    /\ replies' = Append(replies, [id |-> added + 1, at |-> total, size |-> size])
    /\ listSize' = listSize + 1
    /\ StartIoEvent({"WRITE"})
    /\ UNCHANGED <<pc, open, written, room, wire, frees>>

\* conn_io_cb and write_io: the socket is writable.
WriteIo ==
    /\ pc = "loop" /\ open
    /\ "WRITE" \in events
    /\ room > 0
    /\ pc' = "write"
    /\ UNCHANGED <<open, events, replies, listSize, written, room, wire, total,
                   added, frees>>

\* The bytes that write() is asked to take.
Wanted == Head(replies).size - written

\* Mutant: _bytes_written is kept for the next reply.
WriteFinishKeep ==
    /\ pc = "write" /\ replies # <<>>
    /\ Wanted > 0 /\ Wanted <= room
    /\ wire' = wire + Wanted
    /\ room' = room - Wanted
    /\ frees' = [frees EXCEPT ![Head(replies).id] = @ + 1]
    /\ replies' = Tail(replies)
    /\ listSize' = listSize - 1
    /\ UNCHANGED <<pc, open, events, written, total, added>>

\* tcp_write_io: write() took the rest of the first reply.
WriteFinish ==
    /\ pc = "write" /\ replies # <<>>
    /\ Wanted > 0 /\ Wanted <= room
    /\ wire' = wire + Wanted
    /\ room' = room - Wanted
    /\ replies' = Tail(replies)
    /\ listSize' = listSize - 1
    /\ written' = 0
    /\ frees' = [frees EXCEPT ![Head(replies).id] = @ + 1]
    /\ UNCHANGED <<pc, open, events, total, added>>

\* tcp_write_io: write() took w bytes and left some.
WritePartial(w) ==
    /\ pc = "write" /\ replies # <<>>
    /\ w < Wanted /\ w <= room
    /\ wire' = wire + w
    /\ room' = room - w
    /\ written' = written + w
    /\ UNCHANGED <<pc, open, events, replies, listSize, total, added, frees>>

\* Mutant: a socket that would block counts as done.
WriteZeroDisables ==
    /\ pc = "write" /\ replies # <<>>
    /\ Wanted = 0 \/ room = 0
    /\ pc' = "loop"
    /\ StopIoEvent({"WRITE"})
    /\ UNCHANGED <<open, replies, listSize, written, room, wire, total, added,
                   frees>>

\* tcp_write_io: write() returned 0, because it would block or because it
\* was asked to write nothing.
WriteZero ==
    /\ pc = "write" /\ replies # <<>>
    /\ Wanted = 0 \/ room = 0
    /\ pc' = "loop"
    /\ UNCHANGED <<open, events, replies, listSize, written, room, wire, total,
                   added, frees>>

\* tcp_write_io: no more replies to write.
WriteDone ==
    /\ pc = "write" /\ replies = <<>>
    /\ StopIoEvent({"WRITE"})
    /\ pc' = "loop"
    /\ UNCHANGED <<open, replies, listSize, written, room, wire, total, added,
                   frees>>

\* The replies in the list, by number.
Pending == {replies[i].id : i \in 1 .. Len(replies)}

\* close_conn: the watcher is deleted, and the destructor frees what is left
\* in the list.
CloseConn ==
    /\ open' = FALSE
    /\ pc' = "loop"
    /\ events' = {}
    /\ frees' = [k \in 1 .. MaxReplies |->
                    IF k \in Pending THEN frees[k] + 1 ELSE frees[k]]
    /\ replies' = <<>>
    /\ UNCHANGED <<listSize, written, room, wire, total, added>>

\* tcp_write_io: write() failed.
WriteError ==
    /\ pc = "write" /\ replies # <<>>
    /\ CloseConn

\* The reading side, the timer or stop() closes the connection.
OtherClose ==
    /\ pc = "loop" /\ open
    /\ CloseConn

\* The peer takes bytes out of the kernel's buffers.
PeerReads ==
    /\ room < SendBuffer
    /\ room' = SendBuffer
    /\ UNCHANGED <<pc, open, events, replies, listSize, written, wire, total,
                   added, frees>>

WriterStep ==
    \/ WriteIo
    \/ WriteFinish
    \/ \E w \in 1 .. SendBuffer : WritePartial(w)
    \/ WriteZero
    \/ WriteDone

Next ==
    \/ \E size \in ReplySizes : AddReply(size)
    \/ WriterStep
    \/ WriteError
    \/ OtherClose
    \/ PeerReads

Spec == Init /\ [][Next]_vars

------------------------------------------------------------------------------
TypeOK ==
    /\ pc \in {"loop", "write"} /\ open \in BOOLEAN
    /\ events \subseteq Events
    /\ replies \in Seq(Reply) /\ listSize \in Nat
    /\ written \in Nat
    /\ room \in 0 .. SendBuffer
    /\ wire \in Nat
    /\ total \in Nat /\ added \in 0 .. MaxReplies
    /\ frees \in [1 .. MaxReplies -> Nat]

(* The peer receives the replies whole, in order and without a gap, also   *)
(* across partial writes and blocked sockets: the next byte that will be   *)
(* written, _bytes_written into the first reply, is the one that follows   *)
(* the last byte written.                                                  *)
StreamIntact ==
    open => IF replies = <<>> THEN wire = total /\ written = 0
            ELSE Head(replies).at + written = wire

(* The worker frees every reply it was given exactly once                  *)
(* (simple_worker.cpp: the caller must not use it, the worker frees it):   *)
(* when it has left the list, or when the connection is closed.            *)
FreedOnce ==
    \A k \in 1 .. MaxReplies :
        frees[k] = IF k <= added /\ k \notin Pending THEN 1 ELSE 0

(* Every reply is written completely, if the peer goes on reading and the  *)
(* connection stays open.                                                  *)
ReplyDelivered ==
    \A k \in 1 .. MaxReplies :
        k \in Pending ~> k \notin Pending

==============================================================================
