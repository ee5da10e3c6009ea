------------------------------ MODULE ProxyWorker ------------------------------
(***************************************************************************)
(* One worker thread on its event loop: GenericWorker's callbacks          *)
(* (worker.cpp) with the handlers of the HTTP proxy demo                   *)
(* (proxy_worker.cpp), which answers a request when the backend has        *)
(* answered, and the HTTP client (http_client.cpp, evhttpclient.cpp).      *)
(*                                                                         *)
(* Connections and backend requests are addresses, which the allocator     *)
(* uses again.  A Connection's watcher and timer have the name of the      *)
(* connection; the HTTP client's watcher and timer for a request have the  *)
(* name of its backend_req_t, which is the data of its callback.           *)
(* Requests arrive whole and replies are written whole (TcpFraming and     *)
(* ReplyWriter have the bytes).                                            *)
(***************************************************************************)
EXTENDS Naturals, Sequences, FiniteSets

CONSTANTS
    Conns,          \* addresses of Connection objects
    Brs,            \* addresses of backend_req_t objects
    Pipe,           \* name of the notification pipe's watcher
    NULL,
    MaxClients,     \* bound: connections dispatched in all
    MaxRequests     \* bound: requests sent in all

ASSUME ProxyConstants ==
    /\ Conns \cap Brs = {}
    /\ {Pipe, NULL} \cap (Conns \cup Brs) = {}
    /\ NULL \notin BOOLEAN
    /\ MaxClients \in Nat /\ MaxRequests \in Nat

VARIABLES
    el,             \* the worker's EventLoop
    current,        \* the I/O callback that is being made, or NULL
    client,         \* the client whose Connection is at an address; 0: none
    priv,           \* conn->priv_data
    replies,        \* conn->_reply_list, as numbers of requests
    br,             \* the backend_req_t objects: connection and request
    flag,           \* br_flag_map; NULL: no entry
    dispatched,     \* how many connections the dispatcher has passed on
    taken,          \* how many of them the worker has taken over
    quit,           \* QUIT is in the pipe
    unread,         \* for each client: requests sent and not read, oldest first
    gone,           \* clients that have closed their end
    sent,           \* for each request: the client that sent it
    ended,          \* requests answered, or given up without an answer
    stray,          \* history: requests answered to a freed Connection
    pipelined       \* history: a connection had two requests in flight

objects == <<client, priv, replies, br, flag, stray, pipelined>>
outside == <<dispatched, taken, quit, unread, gone, sent>>
vars == <<el, current, objects, outside, ended>>

Clients == 1 .. MaxClients
Requests == 1 .. MaxRequests

LOOP == INSTANCE EventLoop WITH
            IoWatchers <- Conns \cup Brs \cup {Pipe},
            Timers <- Conns \cup Brs,
            Repeating <- Conns

NoBr == [conn |-> NULL, req |-> 0]
Live(b) == flag[b] # NULL
Open(c) == client[c] # 0
HasInFlight(c) == \E b \in Brs : Live(b) /\ br[b].conn = c

\* GenericWorker::initialize().  The cron timer, whose callback does nothing, is
\* left out.
Initialized ==
    LOOP!StartIoEvent(LOOP!CreateIoEvent(LOOP!NewLoop, Pipe), Pipe, {"READ"})

Init ==
    /\ el = Initialized
    /\ current = NULL
    /\ client = [c \in Conns |-> 0]
    /\ priv = [c \in Conns |-> NULL]
    /\ replies = [c \in Conns |-> <<>>]
    /\ br = [b \in Brs |-> NoBr]
    /\ flag = [b \in Brs |-> NULL]
    /\ dispatched = 0 /\ taken = 0 /\ quit = FALSE
    /\ unread = [k \in Clients |-> <<>>]
    /\ gone = {}
    /\ sent = <<>>
    /\ ended = {}
    /\ stray = {}
    /\ pipelined = FALSE

-----------------------------------------------------------------------------
(* The dispatcher and the clients.                                         *)

Dispatch ==
    /\ dispatched < MaxClients /\ ~quit
    /\ dispatched - taken < Cardinality({c \in Conns : ~Open(c)})
    /\ dispatched' = dispatched + 1
    /\ UNCHANGED <<el, current, objects, taken, quit, unread, gone, sent, ended>>

Quit ==
    /\ ~quit
    /\ quit' = TRUE
    /\ UNCHANGED <<el, current, objects, dispatched, taken, unread, gone, sent,
                   ended>>

Send(k) ==
    /\ k <= taken /\ k \notin gone
    /\ Len(sent) < MaxRequests
    /\ sent' = Append(sent, k)
    /\ unread' = [unread EXCEPT ![k] = Append(@, Len(sent) + 1)]
    /\ UNCHANGED <<el, current, objects, dispatched, taken, quit, gone, ended>>

Leave(k) ==
    /\ k <= taken /\ k \notin gone
    /\ gone' = gone \cup {k}
    /\ UNCHANGED <<el, current, objects, dispatched, taken, quit, unread, sent,
                   ended>>

-----------------------------------------------------------------------------
(* What the handlers are made of.                                          *)

\* add_reply(): the list and the WRITE event.  A Connection that was deleted is
\* written to all the same.
AddReply(l, c, r) ==
    IF Open(c)
    THEN /\ el' = LOOP!StartIoEvent(l, c, {"WRITE"})
         /\ replies' = [replies EXCEPT ![c] = Append(@, r)]
         /\ stray' = stray
    ELSE /\ el' = l
         /\ stray' = stray \cup {r}
         /\ UNCHANGED replies

\* Mutant: backend_req_free() without the reset of conn->priv_data.
BackendReqFreeDangling(b) ==
    /\ priv' = priv
    /\ br' = [br EXCEPT ![b] = NoBr]
    /\ flag' = [flag EXCEPT ![b] = NULL]

\* backend_req_free(), with br and the map entry gone.
BackendReqFree(b) ==
    /\ priv' = IF br[b].conn = NULL THEN priv
               ELSE [priv EXCEPT ![br[b].conn] = NULL]
    /\ br' = [br EXCEPT ![b] = NoBr]
    /\ flag' = [flag EXCEPT ![b] = NULL]

\* Mutant: before_remove_conn() without br_flag_map.
BeforeRemoveConnUnmarked(c) ==
    /\ priv' = [priv EXCEPT ![c] = NULL]
    /\ UNCHANGED <<br, flag>>

\* before_remove_conn().
BeforeRemoveConn(c) ==
    IF priv[c] = NULL THEN UNCHANGED <<priv, br, flag>>
    ELSE /\ flag' = [flag EXCEPT ![priv[c]] = FALSE]
         /\ br' = [br EXCEPT ![priv[c]].conn = NULL]
         /\ priv' = [priv EXCEPT ![c] = NULL]

\* Mutant: remove_conn() leaves the timer to run out.
RemoveConnKeepingTimer(l, c) ==
    /\ BeforeRemoveConn(c)
    /\ el' = LOOP!DeleteIoEvent(l, c)
    /\ client' = [client EXCEPT ![c] = 0]
    /\ replies' = [replies EXCEPT ![c] = <<>>]
    /\ UNCHANGED <<stray, pipelined>>

\* remove_conn(): the watchers are deleted, then the Connection.
RemoveConn(l, c) ==
    /\ BeforeRemoveConn(c)
    /\ el' = LOOP!DeleteTimer(LOOP!DeleteIoEvent(l, c), c)
    /\ client' = [client EXCEPT ![c] = 0]
    /\ replies' = [replies EXCEPT ![c] = <<>>]
    /\ UNCHANGED <<stray, pipelined>>

-----------------------------------------------------------------------------
(* The event loop.                                                         *)

\* One turn of ev_run().  A connection may be writable or not, and any timer may
\* have expired; a backend connection has an answer, an error, or nothing yet.
Readable(w) ==
    \/ w = Pipe /\ (taken < dispatched \/ quit)
    \/ w \in Conns /\ Open(w)
       /\ (unread[client[w]] # <<>> \/ client[w] \in gone)

Poll(writable, answering, expired) ==
    LET ready == [w \in Conns \cup Brs \cup {Pipe} |->
                    {e \in {"READ"} : Readable(w) \/ w \in answering}
                    \cup {e \in {"WRITE"} : w \in writable}]
    IN  /\ current = NULL
        /\ el.pending = {} /\ ~LOOP!LoopEnds(el)
        /\ el' = LOOP!PollLoop(el, ready, expired)
        /\ UNCHANGED <<current, objects, outside, ended>>

\* The loop makes the next callback, in any order.
Due(kind, w, p) ==
    /\ current = NULL
    /\ p \in el.pending /\ p.kind = kind /\ p.watcher = w

\* recv_notify() -> create_connection().
RecvNewConnection(c) ==
    \E p \in el.pending :
        /\ Due("io", Pipe, p)
        /\ taken < dispatched
        /\ ~Open(c)
        /\ taken' = taken + 1
        /\ client' = [client EXCEPT ![c] = taken + 1]
        /\ priv' = [priv EXCEPT ![c] = NULL]
        /\ el' = LET l == LOOP!TakePending(el, p)
                     m == LOOP!CreateTimer(LOOP!CreateIoEvent(l, c), c)
                 IN  LOOP!StartTimer(LOOP!StartIoEvent(m, c, {"READ"}), c, 1)
        /\ UNCHANGED <<current, replies, br, flag, stray, pipelined, dispatched,
                       quit, unread, gone, sent, ended>>

\* recv_notify() -> stop(): all connections are closed in this callback.
RecvQuit ==
    \E p \in el.pending :
        /\ Due("io", Pipe, p)
        /\ taken = dispatched /\ quit
        /\ el' = [LOOP!StopLoop(el) EXCEPT
                    !.io = [w \in DOMAIN @ |-> IF w \in Brs THEN @[w] ELSE LOOP!NoIo],
                    !.timer = [t \in DOMAIN @ |->
                                 IF t \in Brs THEN @[t] ELSE LOOP!NoTimer],
                    !.pending = {q \in @ : q.watcher \in Brs}]
        /\ client' = [c \in Conns |-> 0]
        /\ replies' = [c \in Conns |-> <<>>]
        /\ flag' = [b \in Brs |-> IF \E c \in Conns : priv[c] = b THEN FALSE
                                  ELSE flag[b]]
        /\ br' = [b \in Brs |-> IF \E c \in Conns : priv[c] = b
                                THEN [br[b] EXCEPT !.conn = NULL] ELSE br[b]]
        /\ priv' = [c \in Conns |-> NULL]
        /\ UNCHANGED <<current, stray, pipelined, outside, ended>>

\* timeout_cb() -> process_timeout(): the connection has been idle for longer
\* than connection_timeout, or not.
TimeoutCallback(c) ==
    \E p \in el.pending :
        /\ Due("timer", c, p)
        /\ \/ RemoveConn(LOOP!TakePending(el, p), c)
           \/ el' = LOOP!TakePending(el, p) /\ UNCHANGED objects
        /\ UNCHANGED <<current, outside, ended>>

\* conn_io_cb(): read_io(), then write_io().
ConnCallback(c) ==
    \E p \in el.pending :
        /\ Due("io", c, p)
        /\ current' = p
        /\ el' = LOOP!TakePending(el, p)
        /\ UNCHANGED <<objects, outside, ended>>

-----------------------------------------------------------------------------
(* conn_io_cb() for the connection c.                                      *)

InCallback(c, event) ==
    current # NULL /\ current.watcher = c /\ event \in current.revents

Did(event) ==
    current' = IF current.revents = {event} THEN NULL
               ELSE [current EXCEPT !.revents = @ \ {event}]

\* Mutant: HttpClient::get() when no timeout was set for the client.
HttpGetUntimed(l, b) ==
    LOOP!StartIoEvent(LOOP!CreateTimer(LOOP!CreateIoEvent(l, b), b), b, {"READ"})

\* HttpClient::get() -> EvHttpClient::makeGet(): a connection to the backend and
\* a timer, as set_timeout() asked for.
HttpGet(l, b) ==
    LET m == LOOP!CreateTimer(LOOP!CreateIoEvent(l, b), b)
    IN  LOOP!StartTimer(LOOP!StartIoEvent(m, b, {"READ"}), b, 1)

\* read_io(): a complete request; backend_req_new(), and HttpClient::get() has a
\* connection to the backend.
ReadRequest(c, b) ==
    /\ InCallback(c, "READ")
    /\ unread[client[c]] # <<>>
    /\ ~Live(b)
    /\ br' = [br EXCEPT ![b] = [conn |-> c, req |-> Head(unread[client[c]])]]
    /\ el' = HttpGet(el, b)
    /\ flag' = [flag EXCEPT ![b] = TRUE]
    /\ priv' = [priv EXCEPT ![c] = b]
    /\ pipelined' = (pipelined \/ HasInFlight(c))
    /\ unread' = [unread EXCEPT ![client[c]] = Tail(@)]
    /\ Did("READ")
    /\ UNCHANGED <<client, replies, stray, dispatched, taken, quit, gone, sent,
                   ended>>

\* read_io(): get() fails; the answer is "post error" and br is freed at once.
ReadRequestFails(c) ==
    /\ InCallback(c, "READ")
    /\ unread[client[c]] # <<>>
    /\ AddReply(el, c, Head(unread[client[c]]))
    /\ priv' = [priv EXCEPT ![c] = NULL]
    /\ pipelined' = (pipelined \/ HasInFlight(c))
    /\ unread' = [unread EXCEPT ![client[c]] = Tail(@)]
    /\ Did("READ")
    /\ UNCHANGED <<client, br, flag, dispatched, taken, quit, gone,
                   sent, ended>>

\* read_io(): the peer has closed, or read() or the handler failed.
ReadCloses(c) ==
    /\ InCallback(c, "READ")
    /\ RemoveConn(el, c)
    /\ Did("READ")
    /\ UNCHANGED <<outside, ended>>

\* write_io(): some replies are written; with the last one WRITE is disabled.
WriteIo(c) ==
    /\ InCallback(c, "WRITE") /\ "READ" \notin current.revents
    /\ Open(c)
    /\ \E n \in {i \in 0 .. Len(replies[c]) : i > 0 \/ replies[c] = <<>>} :
          /\ ended' = ended \cup {replies[c][i] : i \in 1 .. n}
          /\ replies' = [replies EXCEPT ![c] = SubSeq(@, n + 1, Len(@))]
          /\ el' = IF n = Len(replies[c]) THEN LOOP!StopIoEvent(el, c, {"WRITE"})
                   ELSE el
    /\ Did("WRITE")
    /\ UNCHANGED <<client, priv, br, flag, stray, pipelined, outside>>

\* write_io(): write() fails.
WriteCloses(c) ==
    /\ InCallback(c, "WRITE") /\ "READ" \notin current.revents
    /\ Open(c) /\ replies[c] # <<>>
    /\ RemoveConn(el, c)
    /\ Did("WRITE")
    /\ UNCHANGED <<outside, ended>>

\* write_io() for a descriptor that read_io() has closed.
WriteNobody(c) ==
    /\ InCallback(c, "WRITE") /\ "READ" \notin current.revents
    /\ ~Open(c)
    /\ Did("WRITE")
    /\ UNCHANGED <<el, objects, outside, ended>>

-----------------------------------------------------------------------------
(* The HTTP client's callbacks.                                            *)

\* The HTTP client stops its watcher and its timer for the request (which drops
\* the one of them that is also pending).
BackendForgets(l, b) ==
    LOOP!DeleteTimer(LOOP!DeleteIoEvent(l, b), b)

\* http_client_callback() with an answer: the client of the request gets one.
CallbackReplies(l, b) ==
    /\ IF flag[b] = TRUE THEN AddReply(l, br[b].conn, br[b].req)
       ELSE el' = l /\ UNCHANGED <<replies, stray>>
    /\ BackendReqFree(b)
    /\ UNCHANGED <<client, pipelined>>

\* HttpConn::messageCompleteCb(), for any status code.
BackendAnswers(b) ==
    \E p \in el.pending :
        /\ Due("io", b, p)
        /\ CallbackReplies(BackendForgets(LOOP!TakePending(el, p), b), b)
        /\ UNCHANGED <<current, outside, ended>>

\* EvHttpClient::timeoutCb().
BackendTimesOut(b) ==
    \E p \in el.pending :
        /\ Due("timer", b, p)
        /\ CallbackReplies(BackendForgets(LOOP!TakePending(el, p), b), b)
        /\ UNCHANGED <<current, outside, ended>>

\* EvHttpClient::finalizeError(): resp is NULL and the client gets no answer.
BackendFails(b) ==
    \E p \in el.pending :
        /\ Due("io", b, p)
        /\ el' = BackendForgets(LOOP!TakePending(el, p), b)
        /\ BackendReqFree(b)
        /\ ended' = ended \cup {br[b].req}
        /\ UNCHANGED <<current, client, replies, stray, pipelined, outside>>

-----------------------------------------------------------------------------

SomePoll ==
    \E writable \in SUBSET {c \in Conns : "WRITE" \in el.io[c].events},
       answering \in SUBSET {b \in Brs : el.io[b].active},
       expired \in SUBSET {t \in Conns \cup Brs : el.timer[t].active} :
        Poll(writable, answering, expired)

Callback ==
    \/ \E c \in Conns : \/ RecvNewConnection(c) \/ TimeoutCallback(c)
                        \/ ConnCallback(c)
    \/ RecvQuit

InsideCallback ==
    \E c \in Conns :    \/ \E b \in Brs : ReadRequest(c, b)
                        \/ ReadRequestFails(c) \/ ReadCloses(c)
                        \/ WriteIo(c) \/ WriteCloses(c) \/ WriteNobody(c)

BackendCallback ==
    \E b \in Brs : BackendAnswers(b) \/ BackendTimesOut(b) \/ BackendFails(b)

Environment == Dispatch \/ Quit \/ \E k \in Clients : Send(k) \/ Leave(k)

Next ==
    \/ SomePoll \/ Callback \/ InsideCallback \/ BackendCallback \/ Environment

Spec == Init /\ [][Next]_vars

-----------------------------------------------------------------------------

\* The thread runs; a request's timer expires; a client goes on reading.
PollFor(w) ==
    /\ IF w \in Brs THEN el.timer[w].active ELSE "WRITE" \in el.io[w].events
    /\ \E answering \in SUBSET {b \in Brs : el.io[b].active} :
          Poll({w} \cap Conns, answering, {w} \cap Brs)

FairSpec ==
    /\ Spec
    /\ WF_vars(Callback \/ InsideCallback \/ BackendCallback)
    /\ \A w \in Conns \cup Brs : SF_vars(PollFor(w))

Watched(c) == {"READ"} \cup {e \in {"WRITE"} : replies[c] # <<>>}

\* An open connection is watched for READ and, exactly while replies wait, for
\* WRITE, and its timer runs; nothing of a closed one is left in the loop; and
\* every callback that was collected is about a watcher that still exists,
\* whatever the callbacks made before it have closed.
WatchersMatch ==
    /\ \A c \in Conns :
          IF Open(c)
          THEN /\ el.io[c] = [alive |-> TRUE, active |-> TRUE, events |-> Watched(c)]
               /\ el.timer[c].active
          ELSE el.io[c] = LOOP!NoIo /\ el.timer[c] = LOOP!NoTimer
    /\ \A p \in el.pending :
          IF p.kind = "io" THEN el.io[p.watcher].active
          ELSE el.timer[p.watcher].alive

\* A backend_req_t exists exactly as long as the HTTP client may still call back
\* with it, and priv_data of a connection is never a freed one.
RequestsMatch ==
    /\ \A b \in Brs : Live(b) = el.timer[b].alive /\ Live(b) = el.io[b].alive
    /\ \A c \in Conns :
          priv[c] # NULL => flag[priv[c]] = TRUE /\ br[priv[c]].conn = c

\* An answer goes to the client that asked, and never to a connection that was
\* removed while the backend was working, unless a connection has had two
\* requests in flight: priv_data has room for one.
AnswersOwnClient ==
    ~pipelined =>
        /\ stray = {}
        /\ \A c \in Conns : \A i \in 1 .. Len(replies[c]) :
              sent[replies[c][i]] = client[c]

Asker(c, r) == r <= Len(sent) /\ client[c] = sent[r]

\* A request the backend was asked for ends: an answer is written, the backend's
\* connection fails, or the client's connection is closed.
RequestEnds ==
    \A r \in Requests :
        (\E b \in Brs : br[b].req = r)
            ~> r \in ended \/ \A c \in Conns : ~Asker(c, r)

=============================================================================
