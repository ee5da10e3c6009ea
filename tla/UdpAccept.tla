-------------------------------- MODULE UdpAccept --------------------------------
(***************************************************************************)
(* How a UDP server comes by its connections: UDPSocket::accept() receives *)
(* a datagram from the listening socket, drops it, and makes a socket with *)
(* the same local address that is connected to the sender.  The worker of  *)
(* the new socket reads and closes it.                                     *)
(*                                                                         *)
(* The kernel gives a datagram to a socket connected to its sender, or     *)
(* else to one that is bound to the address and not connected: which of    *)
(* them is not said.                                                       *)
(***************************************************************************)
EXTENDS Integers, Sequences

CONSTANTS
    Clients,
    Anyone,            \* the peer of a socket that is not connected
    Closed,         \* the peer of a socket that has been closed
    MaxSends        \* bound: datagrams of a client

VARIABLES
    at,         \* where the dispatcher is in accept_new_conn()
    sa,         \* the datagram whose sender accept() has in sa; <<>> for none
    listenq,    \* datagrams in the listening socket: client and number
    socks,      \* the sockets accept() has made: peer and datagrams
    sent,       \* per client: how many datagrams it has sent
    answered,   \* history: datagrams accept() has connected a socket for
    spoilt,     \* history: datagrams that were damaged or a call failed for
    blind       \* history: sockets that were left unconnected

vars == <<at, sa, listenq, socks, sent, answered, spoilt, blind>>

Datagrams == Clients \X (1 .. MaxSends)
From(d) == d[1]

Init ==
    /\ at = "loop" /\ sa = <<>> /\ listenq = <<>> /\ socks = <<>>
    /\ sent = [c \in Clients |-> 0]
    /\ answered = {} /\ spoilt = {} /\ blind = {}

-----------------------------------------------------------------------------
(* The clients and the kernel.                                             *)

Peers(peer) == {s \in DOMAIN socks : socks[s].peer = peer}

\* A datagram remembers whether its socket was connected when it came.
Deliver(s, d) ==
    socks' = [socks EXCEPT ![s].queue =
                 Append(@, [dgram |-> d, early |-> socks[s].peer = Anyone])]

Send(c) ==
    /\ sent[c] < MaxSends
    /\ sent' = [sent EXCEPT ![c] = @ + 1]
    /\ LET d == <<c, sent[c] + 1>>
       IN  IF Peers(c) # {}
           THEN /\ \E s \in Peers(c) : Deliver(s, d)
                /\ UNCHANGED listenq
           ELSE \/ /\ listenq' = Append(listenq, d)
                   /\ UNCHANGED socks
                \/ /\ \E s \in Peers(Anyone) : Deliver(s, d)
                   /\ UNCHANGED listenq
    /\ UNCHANGED <<at, sa, answered, spoilt, blind>>

\* The listening socket was reported readable, but the datagram is damaged.
Damage ==
    /\ at = "accept" /\ listenq # <<>>
    /\ spoilt' = spoilt \cup {Head(listenq)}
    /\ listenq' = Tail(listenq)
    /\ UNCHANGED <<at, sa, socks, sent, answered, blind>>

-----------------------------------------------------------------------------
(* accept_new_conn() in the dispatcher's thread.                           *)

Poll ==
    /\ at = "loop" /\ listenq # <<>>
    /\ at' = "accept"
    /\ UNCHANGED <<sa, listenq, socks, sent, answered, spoilt, blind>>

\* recvfrom(); the test for an error is on an unsigned number and never true.
RecvFrom ==
    /\ at = "accept"
    /\ sa' = IF listenq = <<>> THEN <<>> ELSE Head(listenq)
    /\ listenq' = IF listenq = <<>> THEN <<>> ELSE Tail(listenq)
    /\ at' = "bind"
    /\ UNCHANGED <<socks, sent, answered, spoilt, blind>>

\* create_bind2() fails: there is no new connection.
BindFails ==
    /\ at = "bind"
    /\ spoilt' = IF sa = <<>> THEN spoilt ELSE spoilt \cup {sa}
    /\ at' = "loop" /\ sa' = <<>>
    /\ UNCHANGED <<listenq, socks, sent, answered, blind>>

\* Mutant: the socket is handed on as it is.
CreateBindOnly ==
    /\ at = "bind"
    /\ socks' = Append(socks, [peer |-> Anyone, queue |-> <<>>])
    /\ answered' = IF sa = <<>> THEN answered ELSE answered \cup {sa}
    /\ at' = "loop" /\ sa' = <<>>
    /\ UNCHANGED <<listenq, sent, spoilt, blind>>

\* create_bind2()
CreateBind ==
    /\ at = "bind"
    /\ socks' = Append(socks, [peer |-> Anyone, queue |-> <<>>])
    /\ at' = "connect"
    /\ UNCHANGED <<sa, listenq, sent, answered, spoilt, blind>>

New == Len(socks)

\* Mutant: the address is left as it was, not the sender's.
ConnectNobody ==
    /\ at = "connect"
    /\ blind' = blind \cup {New}
    /\ at' = "loop" /\ sa' = <<>>
    /\ UNCHANGED <<listenq, socks, sent, answered, spoilt>>

\* connect() to the sender; the socket goes to a worker.
Connect ==
    /\ at = "connect" /\ sa # <<>>
    /\ socks' = [socks EXCEPT ![New].peer = From(sa)]
    /\ answered' = answered \cup {sa}
    /\ at' = "loop" /\ sa' = <<>>
    /\ UNCHANGED <<listenq, sent, spoilt, blind>>

\* connect() fails, which nobody looks at, or does nothing, because there is no
\* sender and the family of the address is AF_UNSPEC.
ConnectBlind ==
    /\ at = "connect"
    /\ blind' = blind \cup {New}
    /\ spoilt' = IF sa = <<>> THEN spoilt ELSE spoilt \cup {sa}
    /\ at' = "loop" /\ sa' = <<>>
    /\ UNCHANGED <<listenq, socks, sent, answered>>

-----------------------------------------------------------------------------
(* The worker that has got socket s.                                       *)

Handed(s) == socks[s].peer # Closed /\ ~(at = "connect" /\ s = New)

Read(s) ==
    /\ Handed(s) /\ socks[s].queue # <<>>
    /\ socks' = [socks EXCEPT ![s].queue = Tail(@)]
    /\ UNCHANGED <<at, sa, listenq, sent, answered, spoilt, blind>>

\* The idle timer closes the connection.
Close(s) ==
    /\ Handed(s)
    /\ socks' = [socks EXCEPT ![s] = [peer |-> Closed, queue |-> <<>>]]
    /\ UNCHANGED <<at, sa, listenq, sent, answered, spoilt, blind>>

-----------------------------------------------------------------------------
AcceptNewConn == Poll \/ RecvFrom \/ BindFails \/ CreateBind \/ Connect \/ ConnectBlind

Next ==
    \/ \E c \in Clients : Send(c)
    \/ Damage \/ AcceptNewConn
    \/ \E s \in DOMAIN socks : Read(s) \/ Close(s)

-----------------------------------------------------------------------------
(* Properties.                                                             *)

\* A worker of a connected socket reads datagrams of its own client only, but for
\* those that came between bind() and connect() (udp_socket.cpp:47-49); and apart
\* from the socket that is being made, one that takes other clients' datagrams
\* away from the listening socket is there only after recvfrom() or connect() has
\* failed, whose results are not used (udp_socket.cpp:42, 49).
OwnClient ==
    \A s \in DOMAIN socks :
        /\ \A i \in DOMAIN socks[s].queue :
              \E d \in {socks[s].queue[i]} : From(d.dgram) = socks[s].peer \/ d.early
        /\ socks[s].peer = Anyone => s \in blind \/ (at = "connect" /\ s = New)

\* Every datagram in the listening socket (udp_socket.cpp:37) leads to a socket
\* connected to its client, unless the datagram is damaged or a call for it fails,
\* whatever comes in between.
DatagramAccepted ==
    \A d \in Datagrams :
        (\E i \in DOMAIN listenq : listenq[i] = d) ~> d \in answered \cup spoilt
=============================================================================
