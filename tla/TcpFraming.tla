------------------------------ MODULE TcpFraming ------------------------------
(***************************************************************************)
(* How requests are cut out of a TCP stream: tcp_read_io in worker.cpp,    *)
(* the receive half of TCPConnection, and the two-phase protocol that the  *)
(* demo's SimpleWorker runs on them (a fixed header with a magic number    *)
(* and the length of the body, then the body).                             *)
(*                                                                         *)
(* Bytes are counted, not represented: the client's stream is a sequence   *)
(* of messages with their offsets, and the contents of _io_buffer are the  *)
(* stream from offset base on.                                             *)
(***************************************************************************)
EXTENDS Naturals, Sequences

CONSTANTS
    HeadLen,        \* sizeof(nshead_t)
    BodyLens,       \* the body lengths a client uses
    Largest,        \* the longest header or body
    MaxMsgs         \* bound: how many messages the client sends

ASSUME FramingConstants ==
    /\ HeadLen \in Nat /\ HeadLen >= 2
    /\ Largest \in Nat /\ HeadLen <= Largest
    /\ BodyLens \subseteq 0 .. Largest
    /\ MaxMsgs \in Nat

VARIABLES
    msgs,           \* the messages the client has written to the connection
    total,          \* their length in bytes
    eof,            \* the client has shut its side down
    base,           \* offset in the stream of the first byte of _io_buffer
    iblen,          \* sdslen(_io_buffer)
    processed,      \* _bytes_processed
    expected,       \* _bytes_expected
    state,          \* _receive_state
    link,           \* "open", or why the connection was closed
    handled         \* history: the requests passed to process_request

client == <<msgs, total, eof>>
conn == <<base, iblen, processed, expected, state, link, handled>>
vars == <<client, conn>>

\* A message at an offset; magic says whether its header is well formed.
Message == [at : Nat, body : BodyLens, magic : BOOLEAN]

\* The TCPConnection constructor.
Init ==
    /\ msgs = <<>> /\ total = 0 /\ eof = FALSE
    /\ base = 0 /\ iblen = 0
    /\ processed = 0 /\ expected = 1
    /\ state = "IDLE"
    /\ link = "open"
    /\ handled = <<>>

\* Bytes that were read from the socket.
Received == base + iblen

------------------------------------------------------------------------------
(* The client.                                                             *)

ClientSend(body, magic) ==
    /\ ~eof
    /\ Len(msgs) < MaxMsgs
    /\ msgs' = Append(msgs, [at |-> total, body |-> body, magic |-> magic])
    /\ total' = total + HeadLen + body
    /\ UNCHANGED <<eof, conn>>

ClientClose ==
    /\ ~eof
    /\ eof' = TRUE
    /\ UNCHANGED <<msgs, total, conn>>

------------------------------------------------------------------------------
(* The worker.                                                             *)

\* Mutant: the byte that woke the connection up is dropped.
ResetConsuming(len, nextState, nextExpected) ==
    /\ processed' = expected
    /\ state' = nextState
    /\ expected' = nextExpected
    /\ iblen' = len
    /\ UNCHANGED base

\* TCPConnection::reset, with len bytes in the buffer.
Reset(len, nextState, nextExpected) ==
    /\ processed' = 0
    /\ state' = nextState
    /\ expected' = nextExpected
    /\ iblen' = len
    /\ UNCHANGED base

\* TCPConnection::expect_next.
ExpectNext(len, nextState, nextExpected) ==
    /\ processed' = processed + expected
    /\ state' = nextState
    /\ expected' = nextExpected
    /\ iblen' = len
    /\ UNCHANGED base

\* sdsrange(_io_buffer, start, -1): how many bytes are left.
SdsRange(len, start) == IF start >= len THEN 0 ELSE len - start

\* TCPConnection::shrink_processed.
ShrinkProcessed(len, nextState, nextExpected) ==
    /\ iblen' = SdsRange(len, processed + expected)
    /\ base' = base + (len - SdsRange(len, processed + expected))
    /\ processed' = 0
    /\ state' = nextState
    /\ expected' = nextExpected

\* The header that *(nshead_t*)_io_buffer shows: the message that starts at
\* base, if one does; elsewhere in the stream no magic number is found.
HeaderAt(k) == k \in 1 .. Len(msgs) /\ msgs[k].at = base

\* close_conn.
Close(why) ==
    /\ link' = why
    /\ UNCHANGED <<client, base, iblen, processed, expected, state, handled>>

\* SimpleWorker::process_io_buffer with len bytes in the buffer.
ProcessIoBuffer(len) ==
    \/ /\ state = "IDLE"
       /\ Reset(len, "HEAD", HeadLen)
       /\ UNCHANGED <<client, link, handled>>
    \/ /\ state = "HEAD"
       /\ \E k \in 1 .. Len(msgs) :
             /\ HeaderAt(k) /\ msgs[k].magic
             /\ ExpectNext(len, "BODY", msgs[k].body)
       /\ UNCHANGED <<client, link, handled>>
    \/ /\ state = "HEAD"
       /\ ~\E k \in 1 .. Len(msgs) : HeaderAt(k) /\ msgs[k].magic
       /\ Close("rejected")
    \/ /\ state = "BODY"
       /\ \E k \in 1 .. Len(msgs) :
             /\ HeaderAt(k)
             /\ handled' = Append(handled, msgs[k])
       /\ ShrinkProcessed(len, "HEAD", HeadLen)
       /\ UNCHANGED <<client, link>>

\* Mutant: a frame counts as complete only if nothing follows it.
AfterReadExact(len) ==
    IF len - processed = expected
    THEN ProcessIoBuffer(len)
    ELSE /\ iblen' = len
         /\ UNCHANGED <<client, base, processed, expected, state, link, handled>>

\* tcp_read_io once read() has returned: at most one call of
\* process_io_buffer.
AfterRead(len) ==
    IF len - processed >= expected
    THEN ProcessIoBuffer(len)
    ELSE /\ iblen' = len
         /\ UNCHANGED <<client, base, processed, expected, state, link, handled>>

\* Mutant: the read takes whatever there is.
ReadSomeGreedy(r) ==
    /\ link = "open"
    /\ Received + r <= total
    /\ AfterRead(iblen + r)

\* tcp_read_io, read() returned r bytes: at most _bytes_expected, whatever
\* is in the buffer already, and as few as TCP chose to deliver.
ReadSome(r) ==
    /\ link = "open"
    /\ r <= expected
    /\ Received + r <= total
    /\ AfterRead(iblen + r)

\* tcp_read_io for an event that was none: read() fails with EAGAIN, r = 0, and
\* the buffer is examined all the same.  A read() that asks for nothing returns 0.
ReadNothing ==
    /\ link = "open"
    /\ IF expected = 0 THEN Close("peer_closed") ELSE AfterRead(iblen)

\* tcp_read_io, read() returned 0: end of the stream, or nothing was asked for.
ReadZero ==
    /\ link = "open"
    /\ \/ eof /\ Received = total
       \/ expected = 0 /\ Received < total
    /\ Close("peer_closed")

\* tcp_read_io, read() failed.
ReadError ==
    /\ link = "open"
    /\ Close("error")

\* process_timeout: for connection_timeout nothing was read.  What is on its
\* way is taken to arrive earlier than that.
Timeout ==
    /\ link = "open"
    /\ Received = total /\ ~eof
    /\ Close("timed_out")

\* The worker is told to quit: close_all_conns.
WorkerStop ==
    /\ link = "open"
    /\ Close("stopped")

Next ==
    \/ \E body \in BodyLens, magic \in BOOLEAN : ClientSend(body, magic)
    \/ ClientClose
    \/ \E r \in 1 .. Largest : ReadSome(r)
    \/ ReadNothing
    \/ ReadZero
    \/ ReadError
    \/ Timeout
    \/ WorkerStop

Spec == Init /\ [][Next]_vars

\* TCP delivers what was written, libev reports a readable socket until it
\* was read, and the connection's timer repeats.
FairSpec ==
    /\ Spec
    /\ WF_vars(\E r \in 1 .. Largest : ReadSome(r))
    /\ WF_vars(ReadZero)
    /\ WF_vars(Timeout)

------------------------------------------------------------------------------
TypeOK ==
    /\ msgs \in Seq(Message) /\ total \in Nat /\ eof \in BOOLEAN
    /\ base \in Nat /\ iblen \in Nat
    /\ processed \in Nat /\ expected \in 0 .. Largest
    /\ state \in {"IDLE", "HEAD", "BODY"}
    /\ link \in {"open", "peer_closed", "error", "timed_out", "rejected",
                "stopped"}
    /\ handled \in Seq(Message)

\* The message that the connection is receiving.
Current == Len(handled) + 1

\* Where message k starts, or would start.
Start(k) == IF k <= Len(msgs) THEN msgs[k].at ELSE total

(* The worker and the client agree where frames begin, however TCP cuts    *)
(* the stream: the requests handled are the messages sent, in order and    *)
(* none twice; the buffer begins with the next one; and in STATE_BODY the  *)
(* length waited for is the one in that message's header.                  *)
FrameSync ==
    /\ Len(handled) <= Len(msgs)
    /\ \A k \in 1 .. Len(handled) : handled[k] = msgs[k]
    /\ base = Start(Current)
    /\ Received <= total
    /\ state = "BODY" => /\ Current <= Len(msgs)
                         /\ expected = msgs[Current].body
                         /\ processed = HeadLen

(* The subtraction sdslen - _bytes_processed, on unsigned numbers, never   *)
(* wraps, and the bytes that wait unprocessed are fewer than the longest   *)
(* frame: reading no more than _bytes_expected per event bounds the buffer *)
(* although max_io_buffer_size is never looked at.                         *)
BufferBound == processed <= iblen /\ iblen - processed < Largest

(* A connection is refused only for a message whose own header is wrong.   *)
RejectedForCause ==
    link = "rejected" => Current <= Len(msgs) /\ ~msgs[Current].magic

\* The connection was closed for a reason other than being idle.
Ended == link \in {"peer_closed", "error", "rejected", "stopped"}

(* The worker catches up with the client: whatever was sent is processed,  *)
(* up to less than the longest frame, or the connection ended.             *)
CatchesUp ==
    \A n \in 1 .. MaxMsgs * (HeadLen + Largest) :
        total >= n /\ link = "open" ~> Ended \/ base + processed + Largest > n

\* Message k was read from the socket completely.
Complete(k) == k <= Len(msgs) /\ Received >= msgs[k].at + HeadLen + msgs[k].body

(* A request that is complete in the buffer gets handled, unless the       *)
(* connection ended (tcp_connection.h: "simple state machine, handle TCP   *)
(* stream "nian bao"", that is, messages that stick together).             *)
CompleteIsHandled ==
    \A k \in 1 .. MaxMsgs : Complete(k) ~> Len(handled) >= k \/ Ended
==============================================================================
