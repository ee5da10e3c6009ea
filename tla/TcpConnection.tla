----------------------------- MODULE TcpConnection -----------------------------
(***************************************************************************)
(* One TCP connection of the echo demo, both directions: requests are cut  *)
(* out of the client's stream as in TcpFraming, process_request answers    *)
(* each with an echo of header and body, and the answers leave as in       *)
(* ReplyWriter.                                                            *)
(*                                                                         *)
(* The two halves run in one thread (conn_io_cb reads first and writes     *)
(* afterwards), share the life of the connection and meet in add_reply.    *)
(***************************************************************************)
EXTENDS TcpFraming

CONSTANTS
    SendBuffer,     \* bytes the kernel buffers for the client
    SslOpen         \* options.ssl_open

VARIABLES
    pc,             \* the thread: in the event loop or in tcp_write_io
    events,         \* the watcher's event mask
    replies,        \* _reply_list
    listSize,       \* _reply_list_size
    written,        \* _bytes_written
    room,           \* free bytes in the kernel's send buffer
    wire,           \* how many bytes were written in all
    echoed,         \* history: the sum of the sizes of all answers
    added,          \* history: the number of answers
    frees           \* history: how often each answer was freed

writer == <<pc, events, replies, listSize, written, room, wire, echoed, added,
            frees>>
connVars == <<vars, writer>>

\* header.size() + body.size(), as process_request allocates it.
EchoSize(msg) == HeadLen + msg.body

W == INSTANCE ReplyWriter WITH
        open <- link = "open", total <- echoed, MaxReplies <- MaxMsgs,
        ReplySizes <- {HeadLen + body : body \in BodyLens}

ASSUME ConnectionConstants == W!ReplyConstants

ConnInit == Init /\ W!Init

------------------------------------------------------------------------------
\* Mutant: a close by the reading half leaves the watcher and the answers.
ReadEffectKeep ==
    IF handled' = handled THEN UNCHANGED writer
    ELSE W!AddReply(EchoSize(handled'[Len(handled')]))

\* What a step of the reading half does to the writing half: closing frees the
\* answers, a request is answered with its echo.
ReadEffect ==
    IF link' # "open" THEN W!CloseConn
    ELSE IF handled' = handled THEN UNCHANGED writer
    ELSE W!AddReply(EchoSize(handled'[Len(handled')]))

\* conn_io_cb with READ, the timer, and the end of the worker: the thread is in
\* its event loop.
ReadHalf ==
    \/ \E r \in 1 .. Largest : ReadSome(r)
    \/ ReadNothing
    \/ ReadZero
    \/ ReadError
    \/ Timeout
    \/ WorkerStop

Reads == pc = "loop" /\ ReadHalf /\ ReadEffect

\* conn_io_cb with WRITE.
Writes == UNCHANGED vars /\ W!WriterStep

WriteFails == Close("error") /\ W!WriteError

Client ==
    /\ \/ \E body \in BodyLens, magic \in BOOLEAN : ClientSend(body, magic)
       \/ ClientClose
    /\ UNCHANGED writer

PeerReads == UNCHANGED vars /\ W!PeerReads

ConnNext == Client \/ Reads \/ Writes \/ WriteFails \/ PeerReads

ConnSpec == ConnInit /\ [][ConnNext]_connVars

\* TCP delivers, the worker's loop serves a socket that stays readable or
\* writable, and the client goes on reading.  Reading is strongly fair: the loop
\* comes back between writes, and then serves READ first.  The idle timer is not
\* relied on: it would close any connection in the end.
ConnFairSpec ==
    /\ ConnSpec
    /\ SF_connVars(pc = "loop" /\ (\E r \in 1 .. Largest : ReadSome(r)) /\ ReadEffect)
    /\ SF_connVars(pc = "loop" /\ ReadZero /\ ReadEffect)
    /\ WF_connVars(Writes)
    /\ WF_connVars(PeerReads)

------------------------------------------------------------------------------

\* The client gets its own bytes back.  The answers are the echo of the requests
\* handled, one each and in order, each at the place in the stream to the client
\* that its request had in the stream from the client; they leave whole and
\* without a gap (ReplyWriter!StreamIntact), and each is freed exactly once,
\* whoever closes the connection (ReplyWriter!FreedOnce).
StreamIntact ==
    /\ W!StreamIntact /\ W!FreedOnce
    /\ added = Len(handled)
    /\ echoed = base
    /\ \A i \in 1 .. Len(replies) :
          LET msg == handled[replies[i].id]
          IN  replies[i].at = msg.at /\ replies[i].size = EchoSize(msg)

\* An answer is written completely or freed by a close, however requests and
\* answers interleave, if the client goes on reading.
ReplyDelivered == W!ReplyDelivered

\* Each half behaves, inside the connection, as it does by itself: nothing the
\* other half does to the shared connection is a step its own module lacks.
HalvesImplemented == Spec /\ W!Spec
==============================================================================
