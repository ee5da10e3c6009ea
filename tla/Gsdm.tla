---------------------------------- MODULE Gsdm ----------------------------------
(***************************************************************************)
(* The command-unix model (gsdm): every worker has one queue per sending   *)
(* worker and command type, and a Unix datagram socket that announces each *)
(* command.  send_cmd() runs in the sender's thread, on the receiver's     *)
(* object; sendto() blocks while the socket is full.                       *)
(*                                                                         *)
(* The main thread sets the queues up, may send commands on behalf of      *)
(* workers that do not run yet, and then starts the threads.  What a       *)
(* command does is up to the application: here it may send further ones.   *)
(* A queue is an atomic FIFO queue, which LockFreeQueue implements.        *)
(***************************************************************************)
EXTENDS Integers, Sequences, FiniteSets

CONSTANTS
    Workers, Types,
    Main,           \* the main thread
    SockCap,        \* datagrams a socket takes
    MaxCmds         \* bound: commands sent

ASSUME GsdmConstants ==
    /\ Main \notin Workers
    /\ SockCap \in Nat \ {0} /\ MaxCmds \in Nat

Threads  == Workers \cup {Main}
Channels == Workers \X Workers \X Types     \* receiver, sender, type
Dst(c)   == c[1]
Src(c)   == c[2]

VARIABLES
    channels,   \* the queues set up, _worker_queue of all workers
    queue,      \* contents of each queue
    sock,       \* announcements in each worker's socket: the channels
    pc,         \* per thread: "idle" (event loop), "run" (in process()), "notify"
    via,        \* the channel a thread is sending on
    started,    \* the threads were created
    sent,       \* history: commands sent on each channel
    handled,    \* history: commands processed, by channel
    count       \* commands sent so far

vars == <<channels, queue, sock, pc, via, started, sent, handled, count>>

Init ==
    /\ channels = {}
    /\ queue = [c \in Channels |-> <<>>]
    /\ sock = [w \in Workers |-> <<>>]
    /\ pc = [t \in Threads |-> IF t = Main THEN "run" ELSE "idle"]
    /\ via \in [Threads -> {<<>>}]
    /\ started = FALSE
    /\ sent = [c \in Channels |-> <<>>]
    /\ handled = [c \in Channels |-> <<>>]
    /\ count = 0

-----------------------------------------------------------------------------
\* The main thread calls setup_queue().
SetupQueue(c) ==
    /\ ~started /\ pc[Main] = "run"
    /\ channels' = channels \cup {c}
    /\ UNCHANGED <<queue, sock, pc, via, started, sent, handled, count>>

\* create_thread() for every worker.
Start ==
    /\ ~started /\ pc[Main] = "run"
    /\ started' = TRUE
    /\ pc' = [pc EXCEPT ![Main] = "idle"]
    /\ UNCHANGED <<channels, queue, sock, via, sent, handled, count>>

\* The threads that may send on a channel: its sender, or main before it runs.
Sends(t, c) == pc[t] = "run" /\ (t = Src(c) \/ t = Main)

\* Mutant: the receiver is not told.
SendCmdUnannounced(t, c) ==
    /\ Sends(t, c) /\ c \in channels /\ count < MaxCmds
    /\ count' = count + 1
    /\ queue' = [queue EXCEPT ![c] = Append(@, count + 1)]
    /\ sent' = [sent EXCEPT ![c] = Append(@, count + 1)]
    /\ UNCHANGED <<channels, sock, pc, via, started, handled>>

\* send_cmd(), as far as produce().
SendCmd(t, c) ==
    /\ Sends(t, c) /\ c \in channels /\ count < MaxCmds
    /\ count' = count + 1
    /\ queue' = [queue EXCEPT ![c] = Append(@, count + 1)]
    /\ sent' = [sent EXCEPT ![c] = Append(@, count + 1)]
    /\ pc' = [pc EXCEPT ![t] = "notify"]
    /\ via' = [via EXCEPT ![t] = c]
    /\ UNCHANGED <<channels, sock, started, handled>>

\* send_cmd() for a queue that was not set up returns without a word.  (The look-up
\* enters an empty map for the sender, which nothing else can tell from none.)
SendCmdUnknown(t, c) ==
    /\ Sends(t, c) /\ c \notin channels
    /\ UNCHANGED vars

Full(w) == Len(sock[w]) >= SockCap

\* Mutant: a non-blocking sendto() whose failure is ignored.
NotifyUnixDropping(t) ==
    /\ pc[t] = "notify"
    /\ sock' = IF Full(Dst(via[t])) THEN sock
               ELSE [sock EXCEPT ![Dst(via[t])] = Append(@, via[t])]
    /\ pc' = [pc EXCEPT ![t] = "run"]
    /\ via' = [via EXCEPT ![t] = <<>>]
    /\ UNCHANGED <<channels, queue, started, sent, handled, count>>

\* notify_unix(): sendto() waits for room.
NotifyUnix(t) ==
    /\ pc[t] = "notify" /\ ~Full(Dst(via[t]))
    /\ sock' = [sock EXCEPT ![Dst(via[t])] = Append(@, via[t])]
    /\ pc' = [pc EXCEPT ![t] = "run"]
    /\ via' = [via EXCEPT ![t] = <<>>]
    /\ UNCHANGED <<channels, queue, started, sent, handled, count>>

\* recv_unix_notify() and process_unix_notify(): takes one announcement and
\* consumes one command, which starts to run.
RecvUnixNotify(w) ==
    /\ started /\ pc[w] = "idle" /\ sock[w] # <<>>
    /\ LET c == Head(sock[w])
       IN  /\ sock' = [sock EXCEPT ![w] = Tail(@)]
           /\ IF c \in channels /\ queue[c] # <<>>
              THEN /\ handled' = [handled EXCEPT ![c] = Append(@, Head(queue[c]))]
                   /\ queue' = [queue EXCEPT ![c] = Tail(@)]
                   /\ pc' = [pc EXCEPT ![w] = "run"]
              ELSE UNCHANGED <<queue, pc, handled>>
    /\ UNCHANGED <<channels, via, started, sent, count>>

\* The command's process() returns to the event loop.
ProcessReturns(w) ==
    /\ pc[w] = "run"
    /\ pc' = [pc EXCEPT ![w] = "idle"]
    /\ UNCHANGED <<channels, queue, sock, via, started, sent, handled, count>>

-----------------------------------------------------------------------------
Next ==
    \/ \E c \in Channels : SetupQueue(c)
    \/ Start
    \/ \E t \in Threads, c \in Channels : SendCmd(t, c) \/ SendCmdUnknown(t, c)
    \/ \E t \in Threads : NotifyUnix(t)
    \/ \E w \in Workers : RecvUnixNotify(w) \/ ProcessReturns(w)

Spec == Init /\ [][Next]_vars

\* Running threads go on: a command's process() returns, a readable socket is
\* read, and sendto() goes ahead when there is room again and again.  Nobody has
\* to send, and main has to start the threads.
FairSpec ==
    /\ Spec
    /\ WF_vars(Start)
    /\ \A t \in Threads : SF_vars(NotifyUnix(t))
    /\ \A w \in Workers : WF_vars(RecvUnixNotify(w)) /\ WF_vars(ProcessReturns(w))

-----------------------------------------------------------------------------
(* Properties.                                                             *)

\* Every variable has its type, and no socket holds more than it can.
TypeOK ==
    /\ channels \subseteq Channels
    /\ queue \in [Channels -> Seq(1 .. MaxCmds)]
    /\ sock \in [Workers -> Seq(Channels)]
    /\ \A w \in Workers : Len(sock[w]) <= SockCap
    /\ pc \in [Threads -> {"idle", "run", "notify"}]
    /\ via \in [Threads -> Channels \cup {<<>>}]
    /\ started \in BOOLEAN /\ count \in 0 .. MaxCmds
    /\ sent \in [Channels -> Seq(1 .. MaxCmds)]
    /\ handled \in [Channels -> Seq(1 .. MaxCmds)]

Places(q, c)     == {i \in 1 .. Len(q) : q[i] = c}
Announcements(c) == Places(sock[Dst(c)], c)
Announcing(c)    == {t \in Threads : pc[t] = "notify" /\ via[t] = c}

\* Commands of one sender and type are processed once each and in the order in
\* which they were sent; those that are not processed yet are in the queue.  There
\* are as many announcements as commands in the queue, not counting the one
\* command whose sender is between produce() and sendto(): no command is left
\* behind in its queue, and consume() never finds the queue empty.
InOrder ==
    \A c \in Channels :
        /\ sent[c] = handled[c] \o queue[c]
        /\ \E n \in {0, 1} :
              /\ (n = 1) = (Announcing(c) # {})
              /\ Len(queue[c]) = Cardinality(Announcements(c)) + n

Blocked(t) == pc[t] = "notify" /\ Full(Dst(via[t]))

\* Threads that wait for each other: each is blocked on the socket of one of
\* them, or is a worker main has not started yet and main is one of them.
Cycle(S) ==
    /\ S # {}
    /\ \A t \in S : \/ Blocked(t) /\ Dst(via[t]) \in S
                    \/ t # Main /\ ~started /\ Main \in S

\* Every command is processed, unless threads wait for each other in a cycle.
CmdProcessed ==
    \A c \in Channels :
        queue[c] # <<>> ~> queue[c] = <<>> \/ \E S \in SUBSET Threads : Cycle(S)
=============================================================================
