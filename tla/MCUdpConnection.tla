---------------------------- MODULE MCUdpConnection ----------------------------
(* Instances of UdpConnection and UdpAccept for TLC: a behaviour is one of *)
(* either.                                                                 *)
EXTENDS UdpConnection

CONSTANTS Clients, Anyone, Closed, MaxSends

ASSUME AcceptConstants ==
    Anyone # Closed /\ {Anyone, Closed} \cap Clients = {} /\ MaxSends \in Nat

VARIABLES part, at, sa, listenq, socks, sends, answered, spoilt, blind

ACCEPT == INSTANCE UdpAccept WITH sent <- sends

accept == <<at, sa, listenq, socks, sends, answered, spoilt, blind>>
all    == <<part, vars, accept>>

MCInit == part \in {"connection", "accept"} /\ Init /\ ACCEPT!Init

MCNext ==
    /\ \/ part = "connection" /\ Next /\ UNCHANGED accept
       \/ part = "accept" /\ ACCEPT!Next /\ UNCHANGED vars
    /\ UNCHANGED part

\* The worker's thread runs, its timer fires, the kernel sends what it has
\* buffered, and the dispatcher's thread accepts.  Nobody has to send, to leave or
\* to stop the worker.
MCSpec ==
    /\ MCInit /\ [][MCNext]_all
    /\ WF_all(part = "connection" /\ ConnIoCb /\ UNCHANGED <<part, accept>>)
    /\ WF_all(part = "connection" /\ Timer /\ UNCHANGED <<part, accept>>)
    /\ WF_all(part = "connection" /\ Transmit /\ UNCHANGED <<part, accept>>)
    /\ WF_all(part = "accept" /\ ACCEPT!AcceptNewConn /\ UNCHANGED <<part, vars>>)

\* What a UDP socket has is its own.  Its datagrams are its own client's, but for
\* those that came between bind() and connect(), and other unconnected sockets come
\* only from calls that failed (udp_socket.cpp:42-49; module UdpAccept).  And while
\* its connection exists exactly the queued answers are allocated: one is freed
\* when the kernel has taken it, and not before (worker.cpp:305).
OwnClient == ACCEPT!OwnClient /\ OwnedIsQueued

\* DatagramAccepted of module UdpAccept: a datagram in the listening socket leads
\* to a connected socket, unless it is damaged or a call fails (udp_socket.cpp:37).
DatagramAccepted == ACCEPT!DatagramAccepted
=============================================================================
