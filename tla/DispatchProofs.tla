---------------------------- MODULE DispatchProofs ----------------------------
(***************************************************************************)
(* Ownership of descriptors, round-robin distribution, and notifications:  *)
(* every queued connection is announced, and a worker that quits leaves    *)
(* nothing behind but what its pipe has refused.  For any number of        *)
(* workers, descriptors and connections and any capacity of the pipes.     *)
(*                                                                         *)
(* The last part is about SocketTable, with its own variables: the table   *)
(* that the dispatcher and the same workers share without a lock.          *)
(***************************************************************************)
EXTENDS Dispatch, FiniteSetTheorems, TLAPS

CONSTANT ListenFd
VARIABLES size, moves, entry, wrapping, roomy, accepted, handed, openFds, live,
          connsOf, replies, cb, start

T == INSTANCE SocketTable WITH open <- openFds, conns <- connsOf

USE DispatchConstants DEF Workers

(* sock and closing[w] name a descriptor exactly while their thread is     *)
(* between taking it and passing it on.                                    *)
Hands ==
    /\ sock # NoFd <=> dpc = "push"
    /\ \A w \in Workers : closing[w] # NoFd <=> wpc[w] \in {"close", "stopclose"}

\* The successor of an index, without the remainder.
LEMMA NextIndexCases ==
    ASSUME NEW i \in Workers
    PROVE  NextIndex(i) = IF i + 1 = WorkerNum THEN 0 ELSE i + 1
  BY DEF NextIndex

\* _next_worker stays an index.
LEMMA NextIndexType == \A i \in Workers : NextIndex(i) \in Workers
  BY NextIndexCases

------------------------------------------------------------------------------
(* Sequences.                                                              *)

\* A sequence is a function on the numbers up to its length.
LEMMA LenFacts ==
    ASSUME NEW S, NEW q \in Seq(S)
    PROVE  /\ Len(q) \in Nat /\ q \in [1 .. Len(q) -> S] /\ DOMAIN q = 1 .. Len(q)
           /\ \A i \in 1 .. Len(q) : q[i] \in S
  OBVIOUS

\* The sequence without elements.
LEMMA EmptyFacts ==
    ASSUME NEW S
    PROVE  /\ <<>> \in Seq(S) /\ Len(<<>>) = 0
           /\ \A q \in Seq(S) : q # <<>> => Len(q) \in Nat \ {0}
  OBVIOUS

\* push at the end.
LEMMA AppendFacts ==
    ASSUME NEW S, NEW q \in Seq(S), NEW x \in S
    PROVE  /\ Append(q, x) \in Seq(S) /\ Append(q, x) # <<>>
           /\ Len(Append(q, x)) = Len(q) + 1
           /\ \A i \in 1 .. Len(q) : Append(q, x)[i] = q[i]
           /\ Append(q, x)[Len(q) + 1] = x
  OBVIOUS

\* pop at the front.
LEMMA TailFacts ==
    ASSUME NEW S, NEW q \in Seq(S), q # <<>>
    PROVE  /\ Head(q) \in S /\ Tail(q) \in Seq(S)
           /\ Len(Tail(q)) = Len(q) - 1
           /\ \A i \in 1 .. Len(Tail(q)) : Tail(q)[i] = q[i + 1]
  OBVIOUS

------------------------------------------------------------------------------
(* Sequences without repetition, as sets.                                  *)

Elems(q) == {q[i] : i \in 1 .. Len(q)}
Distinct(q) == \A i, j \in 1 .. Len(q) : q[i] = q[j] => i = j

\* push to a queue without repetitions.
LEMMA AppendElems ==
    ASSUME NEW q \in Seq(Fds), NEW x \in Fds, Distinct(q), x \notin Elems(q)
    PROVE  /\ Append(q, x) \in Seq(Fds)
           /\ Elems(Append(q, x)) = Elems(q) \cup {x}
           /\ Distinct(Append(q, x))
<1> DEFINE a == Append(q, x)
<1>1. /\ a \in Seq(Fds) /\ Len(a) = Len(q) + 1 /\ Len(q) \in Nat
      /\ \A i \in 1 .. Len(q) : a[i] = q[i]
      /\ a[Len(q) + 1] = x
  BY AppendFacts, LenFacts
<1> HIDE DEF a
<1>2. 1 .. Len(a) = (1 .. Len(q)) \cup {Len(q) + 1}
  BY <1>1
<1>3. Elems(a) = Elems(q) \cup {x}
  BY <1>1, <1>2 DEF Elems
<1>4. Distinct(a)
  BY <1>1, <1>2 DEF Distinct, Elems
<1> QED
  BY <1>1, <1>3, <1>4 DEF a

\* pop from a queue without repetitions.
LEMMA TailElems ==
    ASSUME NEW q \in Seq(Fds), q # <<>>, Distinct(q)
    PROVE  /\ Tail(q) \in Seq(Fds)
           /\ Head(q) \in Fds /\ Head(q) \in Elems(q)
           /\ Elems(Tail(q)) = Elems(q) \ {Head(q)}
           /\ Distinct(Tail(q))
<1> DEFINE t == Tail(q)
<1>1. /\ t \in Seq(Fds) /\ Len(t) = Len(q) - 1 /\ Len(q) \in Nat \ {0}
      /\ \A i \in 1 .. Len(t) : t[i] = q[i + 1]
      /\ Head(q) = q[1] /\ Head(q) \in Fds
  BY TailFacts, LenFacts, EmptyFacts
<1> HIDE DEF t
<1>2. Head(q) \in Elems(q)
  BY <1>1 DEF Elems
<1>3. Elems(t) \subseteq Elems(q) \ {Head(q)}
  <2> SUFFICES ASSUME NEW i \in 1 .. Len(t) PROVE t[i] \in Elems(q) \ {Head(q)}
    BY DEF Elems
  <2>1. i + 1 \in 1 .. Len(q) /\ i + 1 # 1 /\ t[i] = q[i + 1] /\ 1 \in 1 .. Len(q)
    BY <1>1
  <2> QED
    BY <1>1, <2>1 DEF Elems, Distinct
<1>4. Elems(q) \ {Head(q)} \subseteq Elems(t)
  <2> SUFFICES ASSUME NEW i \in 1 .. Len(q), q[i] # q[1] PROVE q[i] \in Elems(t)
    BY <1>1 DEF Elems
  <2>1. i - 1 \in 1 .. Len(t) /\ (i - 1) + 1 = i
    BY <1>1
  <2>2. t[i - 1] = q[i]
    BY <1>1, <2>1
  <2> QED
    BY <2>1, <2>2 DEF Elems
<1>5. Distinct(t)
  <2> SUFFICES ASSUME NEW i \in 1 .. Len(t), NEW j \in 1 .. Len(t), t[i] = t[j]
               PROVE  i = j
    BY DEF Distinct
  <2>1. i + 1 \in 1 .. Len(q) /\ j + 1 \in 1 .. Len(q)
    BY <1>1
  <2>2. i + 1 = j + 1
    BY <1>1, <2>1 DEF Distinct
  <2> QED
    BY <2>2
<1> QED
  BY <1>1, <1>2, <1>3, <1>4, <1>5 DEF t

------------------------------------------------------------------------------
(* Ownership, worker by worker: the same as FdOwnedOnce, in a form in which *)
(* a step of one worker leaves the others' conjuncts as they are.          *)

Pending == {sock} \ {NoFd}

Alone(w) ==
    /\ Pending \cap Held(w) = {}
    /\ Distinct(mq[w])
    /\ Queued(w) \cap conns[w] = {}
    /\ Closing(w) \cap (Queued(w) \cup conns[w]) = {}

Ownership ==
    /\ \A fd \in Fds : fd \in open <=> \/ fd \in Pending
                                       \/ \E w \in Workers : fd \in Held(w)
    /\ \A w \in Workers : Alone(w)
    /\ \A v, w \in Workers : v # w => Held(v) \cap Held(w) = {}

\* What a worker has are descriptors.
LEMMA HeldType ==
    ASSUME TypeOK, NEW w \in Workers
    PROVE  /\ Queued(w) = Elems(mq[w]) /\ Queued(w) \subseteq Fds
           /\ Held(w) \subseteq Fds /\ NoFd \notin Held(w)
           /\ Pending \subseteq Fds
<1>1. mq[w] \in Seq(Fds)
  BY DEF TypeOK
<1>2. Queued(w) = Elems(mq[w]) /\ Queued(w) \subseteq Fds
  BY <1>1, LenFacts DEF Queued, Elems
<1>3. conns[w] \subseteq Fds /\ Closing(w) \subseteq Fds /\ Pending \subseteq Fds
  BY Zenon DEF TypeOK, Closing, Pending
<1> QED
  BY <1>2, <1>3 DEF Held

\* The property, worker by worker.
LEMMA OwnershipIsFdOwnedOnce ==
    TypeOK => (Ownership <=> FdOwnedOnce)
<1> SUFFICES ASSUME TypeOK PROVE Ownership <=> FdOwnedOnce
  OBVIOUS
<1>1. open \subseteq Fds /\ \A w \in Workers : Held(w) \subseteq Fds /\ NoFd \notin Held(w)
                                            /\ Pending \subseteq Fds
  BY HeldType, Zenon DEF TypeOK
<1>a. Pending \subseteq Fds
  BY DEF TypeOK, Pending
<1>2. (\A fd \in Fds : fd \in open <=> \/ fd \in Pending
                                       \/ \E w \in Workers : fd \in Held(w))
      <=> open = Pending \cup UNION {Held(w) : w \in Workers}
  BY <1>1, <1>a, Zenon
<1>3. ASSUME NEW w \in Workers
      PROVE  Alone(w) <=>
               /\ sock \notin Held(w)
               /\ \A i, j \in 1 .. Len(mq[w]) : mq[w][i] = mq[w][j] => i = j
               /\ Queued(w) \cap conns[w] = {}
               /\ closing[w] \notin Queued(w) \cup conns[w]
  <2>1. Pending \cap Held(w) = {} <=> sock \notin Held(w)
    BY <1>1 DEF Pending
  <2>2. Closing(w) \cap (Queued(w) \cup conns[w]) = {}
        <=> closing[w] \notin Queued(w) \cup conns[w]
    BY <1>1 DEF Closing, Held
  <2> QED
    BY <2>1, <2>2 DEF Alone, Distinct
<1>4. (\A v, w \in Workers : v # w => Held(v) \cap Held(w) = {})
      <=> (\A w \in Workers : \A v \in Workers \ {w} : Held(v) \cap Held(w) = {})
  BY Zenon
<1> QED
  BY <1>2, <1>3, <1>4 DEF Ownership, FdOwnedOnce, Pending

------------------------------------------------------------------------------
IInv == TypeOK /\ Hands /\ Ownership

\* The invariant holds initially.
LEMMA InitIInv == Init => IInv
<1> SUFFICES ASSUME Init PROVE IInv
  OBVIOUS
<1>1. TypeOK
  <2>1. 0 \in Workers
    OBVIOUS
  <2>2. /\ mq \in [Workers -> Seq(Fds)]
        /\ pipe \in [Workers -> Seq({"NEW_CONNECTION", "QUIT"})]
    BY DEF Init
  <2>3. /\ conns \in [Workers -> SUBSET Fds] /\ closing \in [Workers -> Fds \cup {NoFd}]
        /\ wpc \in [Workers -> {"loop", "pop", "close", "stopping", "stopclose", "exited"}]
        /\ assigned \in [Workers -> Nat] /\ lost \in [Workers -> Nat]
    BY DEF Init
  <2> QED
    BY <2>1, <2>2, <2>3 DEF Init, TypeOK
<1>2. Hands
  BY DEF Init, Hands
<1>3. ASSUME NEW w \in Workers
      PROVE  Queued(w) = {} /\ conns[w] = {} /\ Closing(w) = {} /\ Held(w) = {}
             /\ Distinct(mq[w])
  BY DEF Init, Queued, Closing, Held, Distinct
<1>4. Pending = {} /\ open = {}
  BY DEF Init, Pending
<1> QED
  BY <1>1, <1>2, <1>3, <1>4 DEF IInv, Ownership, Alone

\* Steps that move no descriptor.
LEMMA OwnershipFrame ==
    ASSUME Ownership, UNCHANGED <<sock, mq, conns, closing, open>>
    PROVE  Ownership'
<1>1. \A w \in Workers : /\ Queued(w)' = Queued(w) /\ Closing(w)' = Closing(w)
                         /\ Held(w)' = Held(w) /\ Distinct(mq[w])' = Distinct(mq[w])
  BY DEF Queued, Closing, Held, Distinct
<1>2. Pending' = Pending
  BY DEF Pending
<1>3. ASSUME NEW w \in Workers PROVE Alone(w)'
  BY <1>1, <1>2 DEF Ownership, Alone
<1> QED
  BY <1>1, <1>2, <1>3 DEF Ownership

\* Steps of worker w that keep what it holds.
LEMMA OwnershipLocal ==
    ASSUME Ownership, NEW w \in Workers,
           UNCHANGED <<sock, open>>,
           \A v \in Workers \ {w} : /\ mq'[v] = mq[v] /\ conns'[v] = conns[v]
                                    /\ closing'[v] = closing[v],
           Held(w)' = Held(w),
           Distinct(mq[w])',
           (Queued(w) \cap conns[w] = {})',
           (Closing(w) \cap (Queued(w) \cup conns[w]) = {})'
    PROVE  Ownership'
<1>1. ASSUME NEW v \in Workers \ {w}
      PROVE  /\ Queued(v)' = Queued(v) /\ Closing(v)' = Closing(v)
             /\ Held(v)' = Held(v) /\ Distinct(mq[v])' = Distinct(mq[v])
             /\ conns'[v] = conns[v]
  <2>1. mq'[v] = mq[v] /\ conns'[v] = conns[v] /\ closing'[v] = closing[v]
    OBVIOUS
  <2>2. Queued(v)' = Queued(v) /\ Closing(v)' = Closing(v)
    BY <2>1 DEF Queued, Closing
  <2>3. Distinct(mq[v])' = Distinct(mq[v])
    BY <2>1 DEF Distinct
  <2> QED
    BY <2>1, <2>2, <2>3 DEF Held
<1>2. \A v \in Workers : Held(v)' = Held(v)
  BY <1>1
<1>3. Pending' = Pending
  BY DEF Pending
<1>4. ASSUME NEW v \in Workers PROVE Alone(v)'
  <2>1. CASE v = w
    BY <2>1, <1>2, <1>3 DEF Ownership, Alone
  <2>2. CASE v # w
    BY <2>2, <1>1, <1>3 DEF Ownership, Alone
  <2> QED
    BY <2>1, <2>2
<1> QED
  BY <1>2, <1>3, <1>4 DEF Ownership

\* The kernel returns a descriptor that nobody has.
LEMMA StepAccept ==
    ASSUME IInv, NEW fd \in Fds, AcceptNewConn(fd)
    PROVE  IInv'
<1>1. TypeOK'
  BY DEF IInv, TypeOK, AcceptNewConn, worker
<1>2. Hands'
  BY DEF IInv, TypeOK, Hands, AcceptNewConn, worker
<1>3. \A w \in Workers : /\ Queued(w)' = Queued(w) /\ Closing(w)' = Closing(w)
                         /\ Held(w)' = Held(w) /\ Distinct(mq[w])' = Distinct(mq[w])
  BY DEF AcceptNewConn, worker, Queued, Closing, Held, Distinct
<1>4. Pending = {} /\ Pending' = {fd} /\ fd \notin open /\ open' = open \cup {fd}
      /\ conns' = conns
  BY DEF IInv, Hands, Pending, AcceptNewConn, worker
<1>5. \A w \in Workers : fd \notin Held(w)
  BY <1>4 DEF IInv, Ownership
<1>6. ASSUME NEW w \in Workers PROVE Alone(w)'
  BY <1>3, <1>4, <1>5 DEF IInv, Ownership, Alone
<1>7. Ownership'
  BY <1>3, <1>4, <1>6 DEF IInv, Ownership
<1> QED
  BY <1>1, <1>2, <1>7 DEF IInv

\* A socket goes from the dispatcher to the queue of a worker.
LEMMA StepPush ==
    ASSUME IInv, DispatchPush
    PROVE  IInv'
<1>1. PICK n \in Workers, x \in Fds : n = nextWorker /\ x = sock
  BY DEF IInv, TypeOK, Hands, DispatchPush
<1>2. /\ sock' = NoFd /\ dpc' = "notify" /\ target' = n
      /\ nextWorker' = NextIndex(n)
      /\ UNCHANGED <<joining, stopCalled, pipe, wpc, conns, closing, open, accepts, lost>>
  BY <1>1 DEF DispatchPush, worker
<1>3. mq[n] \in Seq(Fds) /\ Pending = {x} /\ Pending' = {}
  BY <1>1, <1>2, Zenon DEF IInv, TypeOK, Pending
<1>4. Distinct(mq[n]) /\ x \notin Held(n) /\ Queued(n) = Elems(mq[n])
  BY <1>3, HeldType DEF IInv, Ownership, Alone
<1>5. x \notin Elems(mq[n])
  BY <1>4 DEF Held
<1>6. /\ Append(mq[n], x) \in Seq(Fds)
      /\ Elems(Append(mq[n], x)) = Elems(mq[n]) \cup {x}
      /\ Distinct(Append(mq[n], x))
  BY <1>3, <1>4, <1>5, AppendElems
<1>7. /\ mq' \in [Workers -> Seq(Fds)]
      /\ mq'[n] = Append(mq[n], x)
      /\ \A v \in Workers \ {n} : mq'[v] = mq[v]
  <2>1. mq \in [Workers -> Seq(Fds)] /\ mq' = [mq EXCEPT ![n] = Append(mq[n], x)]
    BY <1>1 DEF IInv, TypeOK, DispatchPush
  <2> QED
    BY <2>1, <1>6
<1>8. TypeOK'
  <2>1. assigned' \in [Workers -> Nat]
    <3>1. assigned \in [Workers -> Nat] /\ assigned[n] + 1 \in Nat
      BY SMTT(30) DEF IInv, TypeOK
    <3>2. assigned' = [assigned EXCEPT ![n] = assigned[n] + 1]
      BY <1>1 DEF DispatchPush
    <3> QED
      BY <3>1, <3>2
  <2> QED
    BY <2>1, <1>2, <1>7, NextIndexType, Zenon DEF IInv, TypeOK
<1>9. Hands'
  BY <1>2 DEF IInv, Hands
<1>10. /\ Queued(n)' = Queued(n) \cup {x} /\ Distinct(mq[n])'
       /\ Held(n)' = Held(n) \cup {x} /\ Closing(n)' = Closing(n)
  <2>1. Queued(n)' = Elems(mq'[n]) /\ Distinct(mq[n])' = Distinct(mq'[n])
        /\ Closing(n)' = Closing(n)
    BY <1>2 DEF Queued, Elems, Closing, Distinct
  <2>2. Queued(n)' = Queued(n) \cup {x} /\ Distinct(mq[n])'
    BY <2>1, <1>4, <1>6, <1>7
  <2> QED
    BY <2>1, <2>2, <1>2 DEF Held
<1>11. ASSUME NEW v \in Workers \ {n}
       PROVE  /\ Queued(v)' = Queued(v) /\ Closing(v)' = Closing(v)
              /\ Held(v)' = Held(v) /\ Distinct(mq[v])' = Distinct(mq[v])
  BY <1>2, <1>7, Zenon DEF Queued, Closing, Held, Distinct
<1>12. ASSUME NEW v \in Workers PROVE Alone(v)'
  <2>1. CASE v = n
    BY <2>1, <1>2, <1>3, <1>4, <1>10 DEF IInv, Ownership, Alone, Held
  <2>2. CASE v # n
    BY <2>2, <1>2, <1>3, <1>11 DEF IInv, Ownership, Alone
  <2> QED
    BY <2>1, <2>2
<1>13. \A v \in Workers : x \notin Held(v)
  BY <1>3 DEF IInv, Ownership, Alone
<1>14. \A v \in Workers : Held(v)' = IF v = n THEN Held(v) \cup {x} ELSE Held(v)
  BY <1>10, <1>11
<1>15. \A v, w \in Workers : v # w => Held(v)' \cap Held(w)' = {}
  BY <1>13, <1>14 DEF IInv, Ownership
<1>16. \A fd \in Fds : fd \in open' <=> \E w \in Workers : fd \in Held(w)'
  BY <1>2, <1>3, <1>14 DEF IInv, Ownership
<1>17. Ownership'
  BY <1>3, <1>12, <1>15, <1>16 DEF Ownership
<1> QED
  BY <1>8, <1>9, <1>17 DEF IInv

\* A socket goes from the queue to _conns.
LEMMA StepNewConnection ==
    ASSUME IInv, NEW w \in Workers, NewConnection(w)
    PROVE  IInv'
<1>1. /\ wpc[w] = "pop" /\ wpc' = [wpc EXCEPT ![w] = "loop"]
      /\ UNCHANGED <<dpc, sock, target, nextWorker, joining, stopCalled, pipe,
                     closing, open, accepts, assigned, lost>>
  BY DEF NewConnection, dispatcher, history
<1>2. Hands'
  BY <1>1, Zenon DEF IInv, TypeOK, Hands
<1>3. CASE mq[w] = <<>>
  <2>1. mq' = mq /\ conns' = conns
    BY <1>3 DEF NewConnection
  <2>2. TypeOK'
    BY <1>1, <2>1, Zenon DEF IInv, TypeOK
  <2> QED
    BY <1>1, <1>2, <2>1, <2>2, OwnershipFrame DEF IInv
<1>4. CASE mq[w] # <<>>
  <2>1. mq[w] \in Seq(Fds) /\ Distinct(mq[w]) /\ Queued(w) = Elems(mq[w])
    BY HeldType, Zenon DEF IInv, TypeOK, Ownership, Alone
  <2>2. PICK x \in Fds, t \in Seq(Fds) :
           /\ x = Head(mq[w]) /\ t = Tail(mq[w])
           /\ x \in Elems(mq[w]) /\ Elems(t) = Elems(mq[w]) \ {x} /\ Distinct(t)
    BY <1>4, <2>1, TailElems, Zenon
  <2>3. /\ mq' = [mq EXCEPT ![w] = t]
        /\ conns' = [conns EXCEPT ![w] = conns[w] \cup {x}]
    BY <1>4, <2>2 DEF NewConnection
  <2>4. TypeOK'
    BY <1>1, <2>3, Zenon DEF IInv, TypeOK
  <2>5. /\ mq'[w] = t /\ conns'[w] = conns[w] \cup {x}
        /\ \A v \in Workers \ {w} : mq'[v] = mq[v] /\ conns'[v] = conns[v]
    BY <2>3 DEF IInv, TypeOK
  <2>6. Queued(w)' = Queued(w) \ {x} /\ x \in Queued(w) /\ Distinct(mq[w])'
        /\ Closing(w)' = Closing(w)
    <3>1. Queued(w)' = Elems(mq'[w]) /\ Distinct(mq[w])' = Distinct(mq'[w])
          /\ Closing(w)' = Closing(w)
      BY <1>1, Zenon DEF Queued, Elems, Closing, Distinct
    <3> QED
      BY <3>1, <2>1, <2>2, <2>5
  <2>7. Held(w)' = Held(w)
    BY <2>5, <2>6 DEF Held
  <2>8. /\ (Queued(w) \cap conns[w] = {})'
        /\ (Closing(w) \cap (Queued(w) \cup conns[w]) = {})'
    BY <2>5, <2>6 DEF IInv, Ownership, Alone
  <2>9. Ownership'
    BY <1>1, <2>5, <2>6, <2>7, <2>8, OwnershipLocal, Zenon DEF IInv
  <2> QED
    BY <1>2, <2>4, <2>9 DEF IInv
<1> QED
  BY <1>3, <1>4

\* A descriptor leaves _conns and is still open.
LEMMA StepRemoveConn ==
    ASSUME IInv, NEW w \in Workers, NEW fd \in conns[w],
           wpc[w] \in {"loop", "stopping"},
           NEW after \in {"close", "stopclose"}, RemoveConn(w, fd, after)
    PROVE  IInv'
<1>1. /\ UNCHANGED <<dpc, sock, target, nextWorker, joining, stopCalled, mq, pipe,
                     open, accepts, assigned, lost>>
      /\ conns' = [conns EXCEPT ![w] = conns[w] \ {fd}]
      /\ closing' = [closing EXCEPT ![w] = fd]
      /\ wpc' = [wpc EXCEPT ![w] = after]
      /\ fd \in Fds /\ fd # NoFd /\ closing[w] = NoFd
  BY Zenon DEF RemoveConn, dispatcher, history, IInv, TypeOK, Hands
<1>2. TypeOK'
  BY <1>1, Zenon DEF IInv, TypeOK
<1>3. Hands'
  BY <1>1, Zenon DEF IInv, TypeOK, Hands
<1>4. /\ conns'[w] = conns[w] \ {fd} /\ closing'[w] = fd
      /\ \A v \in Workers \ {w} : mq'[v] = mq[v] /\ conns'[v] = conns[v]
                                  /\ closing'[v] = closing[v]
  BY <1>1 DEF IInv, TypeOK
<1>5. /\ Queued(w)' = Queued(w) /\ Distinct(mq[w])' = Distinct(mq[w])
      /\ Closing(w)' = {fd} /\ Closing(w) = {}
  BY <1>1, <1>4, Zenon DEF Queued, Distinct, Closing
<1>6. Held(w)' = Held(w)
  BY <1>4, <1>5 DEF Held
<1>7. /\ Distinct(mq[w])'
      /\ (Queued(w) \cap conns[w] = {})'
      /\ (Closing(w) \cap (Queued(w) \cup conns[w]) = {})'
  BY <1>4, <1>5 DEF IInv, Ownership, Alone
<1>8. Ownership'
  BY <1>1, <1>4, <1>6, <1>7, OwnershipLocal DEF IInv
<1> QED
  BY <1>2, <1>3, <1>8 DEF IInv

\* close(): the descriptor is nobody's.
LEMMA StepCloseFd ==
    ASSUME IInv, NEW w \in Workers, CloseFd(w)
    PROVE  IInv'
<1>1. PICK x \in Fds : x = closing[w]
  BY Zenon DEF IInv, TypeOK, Hands, CloseFd
<1>2. /\ UNCHANGED <<dpc, sock, target, nextWorker, joining, stopCalled, mq, pipe,
                     conns, accepts, assigned, lost>>
      /\ open' = open \ {x}
      /\ closing' = [closing EXCEPT ![w] = NoFd]
      /\ wpc' = [wpc EXCEPT ![w] = IF wpc[w] = "close" THEN "loop" ELSE "stopping"]
  BY <1>1 DEF CloseFd, dispatcher, history
<1>3. TypeOK'
  BY <1>2, SMTT(30) DEF IInv, TypeOK
<1>4. Hands'
  BY <1>2, Zenon DEF IInv, TypeOK, Hands
<1>5. closing'[w] = NoFd /\ \A v \in Workers \ {w} : closing'[v] = closing[v]
  BY <1>2 DEF IInv, TypeOK
<1>6. \A v \in Workers : Queued(v)' = Queued(v) /\ Distinct(mq[v])' = Distinct(mq[v])
  BY <1>2, Zenon DEF Queued, Distinct
<1>7. /\ Closing(w) = {x} /\ Closing(w)' = {}
      /\ \A v \in Workers \ {w} : Closing(v)' = Closing(v)
  BY <1>1, <1>5 DEF Closing
<1>8. x \in Held(w) /\ x \notin Queued(w) \cup conns[w]
  BY <1>7 DEF IInv, Ownership, Alone, Held
<1>9. \A v \in Workers : Held(v)' = IF v = w THEN Held(v) \ {x} ELSE Held(v)
  BY <1>2, <1>6, <1>7, <1>8 DEF Held
<1>10. Pending' = Pending /\ x \notin Pending
  BY <1>2, <1>8 DEF Pending, IInv, Ownership, Alone
<1>11. ASSUME NEW v \in Workers PROVE Alone(v)'
  BY <1>2, <1>6, <1>7, <1>9, <1>10, Zenon DEF IInv, Ownership, Alone
<1>12. \A v \in Workers \ {w} : x \notin Held(v)
  BY <1>8 DEF IInv, Ownership
<1>13. \A v, u \in Workers : v # u => Held(v)' \cap Held(u)' = {}
  BY <1>9 DEF IInv, Ownership
<1>14. \A fd \in Fds : fd \in open' <=> \/ fd \in Pending'
                                        \/ \E v \in Workers : fd \in Held(v)'
  BY <1>2, <1>9, <1>10, <1>12 DEF IInv, Ownership
<1>15. Ownership'
  BY <1>11, <1>13, <1>14 DEF Ownership
<1> QED
  BY <1>3, <1>4, <1>15 DEF IInv

\* Steps that only send, receive or wait.
LEMMA StepDispatchNotify ==
    ASSUME IInv, DispatchNotify
    PROVE  IInv'
<1>1. UNCHANGED <<sock, target, nextWorker, joining, stopCalled, mq, wpc, conns,
                  closing, open, accepts, assigned>>
      /\ dpc = "notify" /\ dpc' = "loop"
  BY DEF DispatchNotify, worker
<1>2. pipe' \in [Workers -> Seq({"NEW_CONNECTION", "QUIT"})] /\ lost' \in [Workers -> Nat]
  <2>0. /\ target \in Workers
        /\ pipe \in [Workers -> Seq({"NEW_CONNECTION", "QUIT"})]
        /\ lost \in [Workers -> Nat] /\ lost[target] + 1 \in Nat
    BY SMTT(30) DEF IInv, TypeOK
  <2>1. CASE HasRoom(target)
    <3>1. Append(pipe[target], "NEW_CONNECTION") \in Seq({"NEW_CONNECTION", "QUIT"})
      BY <2>0, AppendFacts
    <3>2. pipe' = [pipe EXCEPT ![target] = Append(pipe[target], "NEW_CONNECTION")]
          /\ lost' = lost
      BY <2>1 DEF DispatchNotify
    <3> QED
      BY <2>0, <3>1, <3>2, Zenon
  <2>2. CASE ~HasRoom(target)
    <3>1. pipe' = pipe /\ lost' = [lost EXCEPT ![target] = lost[target] + 1]
      BY <2>2 DEF DispatchNotify
    <3> QED
      BY <2>0, <3>1
  <2> QED
    BY <2>1, <2>2
<1>3. TypeOK'
  BY <1>1, <1>2, SMTT(30) DEF IInv, TypeOK
<1>4. Hands'
  BY <1>1 DEF IInv, Hands
<1> QED
  BY <1>1, <1>3, <1>4, OwnershipFrame DEF IInv

\* QUIT is sent, or lost.
LEMMA StepJoinNotify ==
    ASSUME IInv, JoinNotify
    PROVE  IInv'
<1>1. UNCHANGED <<sock, target, nextWorker, joining, stopCalled, mq, wpc, conns,
                  closing, open, accepts, assigned, lost>>
      /\ dpc = "quit" /\ dpc' = "join"
  BY DEF JoinNotify, worker, history
<1>2. pipe' \in [Workers -> Seq({"NEW_CONNECTION", "QUIT"})]
  BY AppendFacts DEF IInv, TypeOK, JoinNotify
<1>3. TypeOK'
  BY <1>1, <1>2, Zenon DEF IInv, TypeOK
<1>4. Hands'
  BY <1>1 DEF IInv, Hands
<1> QED
  BY <1>1, <1>3, <1>4, OwnershipFrame DEF IInv

\* Steps that move no descriptor.
LEMMA StepDispatcherControl ==
    ASSUME IInv, RecvQuit \/ JoinThread \/ ServerStop
    PROVE  IInv'
<1>1. UNCHANGED <<sock, target, nextWorker, mq, pipe, wpc, conns, closing, open,
                  accepts, assigned, lost>>
  BY DEF RecvQuit, JoinThread, ServerStop, dispatcher, worker, history
<1>2. /\ dpc' \in {"loop", "push", "notify", "quit", "join", "stopped"}
      /\ joining' \in Workers /\ stopCalled' \in BOOLEAN
      /\ dpc' = "push" <=> dpc = "push"
  <2>1. CASE RecvQuit
    BY <2>1 DEF IInv, TypeOK, RecvQuit
  <2>2. CASE JoinThread
    <3>1. joining \in Workers /\ stopCalled \in BOOLEAN /\ dpc = "join"
      BY <2>2, Zenon DEF IInv, TypeOK, JoinThread
    <3>2. CASE joining + 1 < WorkerNum
      BY <2>2, <3>1, <3>2 DEF JoinThread
    <3>3. CASE ~(joining + 1 < WorkerNum)
      BY <2>2, <3>1, <3>3, Zenon DEF JoinThread
    <3> QED
      BY <3>2, <3>3
  <2>3. CASE ServerStop
    <3>1. UNCHANGED <<dpc, joining>> /\ stopCalled' = TRUE
      BY <2>3 DEF ServerStop, dispatcher
    <3> QED
      BY <3>1 DEF IInv, TypeOK
  <2> QED
    BY <2>1, <2>2, <2>3
<1>3. TypeOK'
  BY <1>1, <1>2, Zenon DEF IInv, TypeOK
<1>4. Hands'
  BY <1>1, <1>2 DEF IInv, Hands
<1> QED
  BY <1>1, <1>3, <1>4, OwnershipFrame DEF IInv

\* A worker takes a message from its pipe.
LEMMA StepRecvNotify ==
    ASSUME IInv, NEW w \in Workers, RecvNotify(w)
    PROVE  IInv'
<1>1. UNCHANGED <<dpc, sock, target, nextWorker, joining, stopCalled, mq, conns,
                  closing, open, accepts, assigned, lost>>
      /\ wpc[w] = "loop"
  BY DEF RecvNotify, dispatcher, history
<1>2. pipe' \in [Workers -> Seq({"NEW_CONNECTION", "QUIT"})]
  <2>1. pipe[w] \in Seq({"NEW_CONNECTION", "QUIT"}) /\ pipe[w] # <<>>
    BY DEF IInv, TypeOK, RecvNotify
  <2>2. Tail(pipe[w]) \in Seq({"NEW_CONNECTION", "QUIT"})
    BY <2>1, TailFacts
  <2>3. pipe' = [pipe EXCEPT ![w] = Tail(pipe[w])]
    BY DEF RecvNotify
  <2> QED
    BY <2>2, <2>3 DEF IInv, TypeOK
<1>3. PICK pc \in {"stopping", "pop"} : wpc' = [wpc EXCEPT ![w] = pc]
  BY Zenon DEF RecvNotify
<1>4. TypeOK'
  BY <1>1, <1>2, <1>3, Zenon DEF IInv, TypeOK
<1>5. Hands'
  BY <1>1, <1>3, Zenon DEF IInv, TypeOK, Hands
<1> QED
  BY <1>1, <1>4, <1>5, OwnershipFrame DEF IInv

\* A thread ends with nothing in its hands.
LEMMA StepExitThread ==
    ASSUME IInv, NEW w \in Workers, ExitThread(w)
    PROVE  IInv'
<1>1. UNCHANGED <<dpc, sock, target, nextWorker, joining, stopCalled, mq, pipe, conns,
                  closing, open, accepts, assigned, lost>>
      /\ wpc[w] = "stopping" /\ wpc' = [wpc EXCEPT ![w] = "exited"]
  BY DEF ExitThread, dispatcher, history
<1>2. TypeOK'
  BY <1>1, Zenon DEF IInv, TypeOK
<1>3. Hands'
  BY <1>1, Zenon DEF IInv, TypeOK, Hands
<1> QED
  BY <1>1, <1>2, <1>3, OwnershipFrame DEF IInv

\* Every step keeps the invariant.
LEMMA NextIInv == IInv /\ [Next]_vars => IInv'
<1> SUFFICES ASSUME IInv, [Next]_vars PROVE IInv'
  OBVIOUS
<1>1. ASSUME NEW fd \in Fds, AcceptNewConn(fd) PROVE IInv'
  BY <1>1, StepAccept
<1>2. CASE DispatcherStep
  BY <1>2, StepPush, StepDispatchNotify, StepJoinNotify, StepDispatcherControl
     DEF DispatcherStep
<1>3. CASE ServerStop
  BY <1>3, StepDispatcherControl
<1>4. ASSUME NEW w \in Workers, NEW fd \in Fds, ConnEnds(w, fd) PROVE IInv'
  BY <1>4, StepRemoveConn DEF ConnEnds
<1>5. ASSUME NEW w \in Workers, WorkerStep(w) PROVE IInv'
  <2>1. ASSUME NEW fd \in Fds, StopRemove(w, fd) PROVE IInv'
    BY <2>1, StepRemoveConn DEF StopRemove
  <2> QED
    BY <1>5, <2>1, StepRecvNotify, StepNewConnection, StepCloseFd, StepExitThread
       DEF WorkerStep
<1>6. CASE UNCHANGED vars
  <2>1. UNCHANGED <<dpc, sock, target, nextWorker, joining, stopCalled, mq, pipe, wpc,
                    conns, closing, open, accepts, assigned, lost>>
    BY <1>6 DEF vars, dispatcher, worker, history
  <2>2. TypeOK' /\ Hands'
    BY <2>1, Zenon DEF IInv, TypeOK, Hands
  <2> QED
    BY <2>1, <2>2, OwnershipFrame DEF IInv
<1> QED
  BY <1>1, <1>2, <1>3, <1>4, <1>5, <1>6 DEF Next

\* The inductive invariant holds in every reachable state.
THEOREM Invariance == Spec => []IInv
  BY InitIInv, NextIInv, PTL DEF Spec

(* Every variable of dispatcher and workers keeps its type; in particular  *)
(* _next_worker always indexes a worker.                                   *)
THEOREM Safety_TypeOK == Spec => []TypeOK
<1>1. IInv => TypeOK
  BY DEF IInv
<1> QED
  BY <1>1, Invariance, PTL

(* A descriptor is open exactly while one thread is responsible for it,    *)
(* for every number of workers and every reuse of descriptors.             *)
THEOREM Safety_FdOwnedOnce == Spec => []FdOwnedOnce
<1>1. IInv => FdOwnedOnce
  BY OwnershipIsFdOwnedOnce DEF IInv
<1> QED
  BY <1>1, Invariance, PTL

------------------------------------------------------------------------------
(* Round robin.  The workers before _next_worker have had one connection   *)
(* more than the others.                                                   *)

Turns ==
    \A v, w \in Workers :
        /\ (v < nextWorker <=> w < nextWorker) => assigned[v] = assigned[w]
        /\ v < nextWorker /\ nextWorker <= w => assigned[v] = assigned[w] + 1

\* Every step keeps the turns of the workers.
LEMMA NextTurns == TypeOK /\ Turns /\ [Next]_vars => Turns'
<1> SUFFICES ASSUME TypeOK, Turns, [Next]_vars PROVE Turns'
  OBVIOUS
<1>1. CASE DispatchPush
  <2>1. PICK n \in Workers : n = nextWorker
    BY DEF TypeOK
  <2>2. nextWorker' = IF n + 1 = WorkerNum THEN 0 ELSE n + 1
    BY <1>1, <2>1, NextIndexCases DEF DispatchPush
  <2>3. \A v \in Workers : assigned[v] \in Nat
                          /\ assigned'[v] = IF v = n THEN assigned[v] + 1 ELSE assigned[v]
    BY <1>1, <2>1, SMTT(30) DEF DispatchPush, TypeOK
  <2> SUFFICES ASSUME NEW v \in Workers, NEW w \in Workers
               PROVE  /\ (v < nextWorker' <=> w < nextWorker') => assigned'[v] = assigned'[w]
                      /\ v < nextWorker' /\ nextWorker' <= w
                            => assigned'[v] = assigned'[w] + 1
    BY DEF Turns
  <2>4. /\ (v < n <=> w < n) => assigned[v] = assigned[w]
        /\ v < n /\ n <= w => assigned[v] = assigned[w] + 1
        /\ w < n /\ n <= v => assigned[w] = assigned[v] + 1
    BY <2>1 DEF Turns
  <2>5. CASE n + 1 = WorkerNum
    BY <2>2, <2>3, <2>4, <2>5
  <2>6. CASE n + 1 # WorkerNum
    BY <2>2, <2>3, <2>4, <2>6
  <2> QED
    BY <2>5, <2>6
<1>2. CASE ~DispatchPush
  <2>1. UNCHANGED <<nextWorker, assigned>>
    BY <1>2, Zenon DEF Next, DispatcherStep, AcceptNewConn, DispatchNotify, RecvQuit,
                JoinNotify, JoinThread, ServerStop, WorkerStep, RecvNotify,
                NewConnection, StopRemove, ConnEnds, RemoveConn, CloseFd,
                ExitThread, vars, dispatcher, history
  <2> QED
    BY <2>1 DEF Turns
<1> QED
  BY <1>1, <1>2

(* Two workers never differ by more than one in the number of connections  *)
(* they were given, and the lower index is never behind.                   *)
THEOREM Safety_RoundRobin == Spec => []RoundRobin
<1>1. Init => Turns
  BY DEF Init, Turns
<1>2. Turns /\ TypeOK => RoundRobin
  <2> SUFFICES ASSUME Turns, TypeOK, NEW v \in Workers, NEW w \in Workers, v <= w
               PROVE  assigned[w] <= assigned[v] /\ assigned[v] <= assigned[w] + 1
    BY DEF RoundRobin
  <2>1. assigned[v] \in Nat /\ assigned[w] \in Nat /\ nextWorker \in Nat
    BY DEF TypeOK
  <2> QED
    BY <2>1 DEF Turns
<1> QED
  BY <1>1, <1>2, NextTurns, Safety_TypeOK, PTL DEF Spec

------------------------------------------------------------------------------
(* The notifications.                                                      *)

HIDE DispatchConstants DEF Workers

Messages == {"NEW_CONNECTION", "QUIT"}

------------------------------------------------------------------------------
(* How many NEW_CONNECTION messages a sequence has.                        *)

Places(q) == {i \in 1 .. Len(q) : q[i] = "NEW_CONNECTION"}
News(q) == Cardinality(Places(q))

\* The places are finitely many; an empty pipe has none.
LEMMA NewsType ==
    ASSUME NEW q \in Seq(Messages)
    PROVE  IsFiniteSet(Places(q)) /\ News(q) \in Nat /\ (q = <<>> => News(q) = 0)
<1>1. Len(q) \in Nat /\ IsFiniteSet(1 .. Len(q))
  BY LenFacts, FS_Interval
<1>2. IsFiniteSet(Places(q))
  BY <1>1, FS_Subset DEF Places
<1>3. q = <<>> => Places(q) = {}
  BY DEF Places
<1> QED BY <1>2, <1>3, FS_CardinalityType, FS_EmptySet DEF News

\* A message at the end (notify() writes it) counts if it is NEW_CONNECTION.
LEMMA NewsAppend ==
    ASSUME NEW q \in Seq(Messages), NEW m \in Messages
    PROVE  News(Append(q, m)) = IF m = "NEW_CONNECTION" THEN News(q) + 1 ELSE News(q)
<1> DEFINE a == Append(q, m)
<1>1. /\ Len(a) = Len(q) + 1 /\ Len(q) \in Nat
      /\ \A i \in 1 .. Len(q) : a[i] = q[i]
      /\ a[Len(q) + 1] = m
  BY AppendFacts, LenFacts
<1> HIDE DEF a
<1>2. 1 .. Len(a) = (1 .. Len(q)) \cup {Len(q) + 1} /\ Len(q) + 1 \notin 1 .. Len(q)
  BY <1>1
<1>3. CASE m = "NEW_CONNECTION"
  <2>1. Places(a) = Places(q) \cup {Len(q) + 1} /\ Len(q) + 1 \notin Places(q)
    BY <1>1, <1>2, <1>3 DEF Places
  <2> QED BY <1>3, <2>1, NewsType, FS_AddElement DEF News, a
<1>4. CASE m # "NEW_CONNECTION"
  <2>1. Places(a) = Places(q)
    BY <1>1, <1>2, <1>4 DEF Places
  <2> QED BY <1>4, <2>1 DEF News, a
<1> QED BY <1>3, <1>4

\* A message taken from the front (recv_notify reads it).
LEMMA NewsTail ==
    ASSUME NEW q \in Seq(Messages), q # <<>>
    PROVE  News(q) = IF Head(q) = "NEW_CONNECTION" THEN News(Tail(q)) + 1
                     ELSE News(Tail(q))
<1> DEFINE t == Tail(q)
<1>1. /\ t \in Seq(Messages) /\ Len(t) = Len(q) - 1 /\ Len(q) \in Nat \ {0}
      /\ \A i \in 1 .. Len(t) : t[i] = q[i + 1]
      /\ Head(q) = q[1]
  BY TailFacts, LenFacts, EmptyFacts
<1> HIDE DEF t
<1> DEFINE rest == Places(q) \ {1}
           shift == [i \in Places(t) |-> i + 1]
<1>2. shift \in Bijection(Places(t), rest)
  <2>1. \A i \in Places(t) : i \in Nat /\ i + 1 \in rest
    BY <1>1 DEF Places
  <2>2. shift \in [Places(t) -> rest]
    BY <2>1
  <2>3. \A i, j \in Places(t) : shift[i] = shift[j] => i = j
    BY <2>1
  <2>4. ASSUME NEW k \in rest PROVE \E i \in Places(t) : shift[i] = k
    <3>1. k - 1 \in 1 .. Len(t) /\ (k - 1) + 1 = k /\ q[k] = "NEW_CONNECTION"
      BY <1>1 DEF Places
    <3>2. k - 1 \in Places(t)
      BY <1>1, <3>1 DEF Places
    <3> QED BY <3>1, <3>2
  <2> HIDE DEF shift, rest
  <2> QED BY <2>2, <2>3, <2>4 DEF Bijection, Injection, Surjection, IsInjective
<1>3. IsFiniteSet(Places(t)) /\ IsFiniteSet(Places(q)) /\ News(t) \in Nat /\ News(q) \in Nat
  BY <1>1, NewsType
<1>4. Cardinality(rest) = News(t)
  <2> HIDE DEF shift, rest
  <2>1. ExistsBijection(Places(t), rest)
    BY <1>2 DEF ExistsBijection
  <2> QED BY <1>3, <2>1, FS_Bijection DEF News
<1>5. Cardinality(rest) = IF 1 \in Places(q) THEN News(q) - 1 ELSE News(q)
  BY <1>3, FS_RemoveElement, Zenon DEF News
<1>6. 1 \in Places(q) <=> Head(q) = "NEW_CONNECTION"
  BY <1>1 DEF Places
<1> QED BY <1>3, <1>4, <1>5, <1>6 DEF t

------------------------------------------------------------------------------
(* MqAnnounced is inductive as it stands: a worker that pops has been told *)
(* of a connection, so its queue is not empty.                             *)

Popping(w) == IF wpc[w] = "pop" THEN 1 ELSE 0
Notifying(w) == IF dpc = "notify" /\ target = w THEN 1 ELSE 0

Balance(w) == Len(mq[w]) = News(pipe[w]) + lost[w] + Popping(w) + Notifying(w)

\* MqAnnounced, worker by worker.
LEMMA BalanceIsMqAnnounced == MqAnnounced <=> \A w \in Workers : Balance(w)
  BY DEF MqAnnounced, Balance, Announced, News, Places, Popping, Notifying

\* What is counted are numbers.
LEMMA BalanceType ==
    ASSUME TypeOK, NEW w \in Workers
    PROVE  /\ pipe[w] \in Seq(Messages) /\ mq[w] \in Seq(Fds)
           /\ Len(mq[w]) \in Nat /\ News(pipe[w]) \in Nat /\ lost[w] \in Nat
           /\ Popping(w) \in {0, 1} /\ Notifying(w) \in {0, 1}
<1>1. pipe[w] \in Seq(Messages) /\ mq[w] \in Seq(Fds) /\ lost[w] \in Nat
  BY DEF TypeOK, Messages
<1> QED BY <1>1, NewsType, LenFacts, Zenon DEF Popping, Notifying

\* A step that touches neither a queue nor a pipe, and leaves every thread as far
\* from its next message as it was.
LEMMA BalanceFrame ==
    ASSUME NEW w \in Workers, Balance(w),
           mq'[w] = mq[w], pipe'[w] = pipe[w], lost'[w] = lost[w],
           Popping(w)' = Popping(w), Notifying(w)' = Notifying(w)
    PROVE  Balance(w)'
  BY Zenon DEF Balance, News, Places

\* dispatch_new_conn: mq_push, and the notification is still to be sent.
LEMMA PushBalance ==
    ASSUME TypeOK, DispatchPush, NEW w \in Workers, Balance(w) PROVE Balance(w)'
<1>1. /\ dpc = "push" /\ dpc' = "notify" /\ target' = nextWorker /\ nextWorker \in Workers
      /\ UNCHANGED <<pipe, lost, wpc>>
  BY Zenon DEF DispatchPush, worker, TypeOK
<1>2. Notifying(w) = 0 /\ Popping(w)' = Popping(w)
  BY <1>1 DEF Notifying, Popping
<1>3. News(pipe[w])' = News(pipe[w])
  BY <1>1 DEF News, Places
<1>4. sock \in Fds \cup {NoFd} /\ mq \in [Workers -> Seq(Fds)]
  BY DEF TypeOK
<1>5. CASE w = nextWorker
  <2>1. mq'[w] = Append(mq[w], sock)
    BY <1>4, <1>5 DEF DispatchPush
  <2>2. mq[w] \in Seq(Fds \cup {NoFd})
    BY <1>4
  <2>3. Len(mq'[w]) = Len(mq[w]) + 1
    BY <1>4, <2>1, <2>2, AppendFacts
  <2>4. Notifying(w)' = 1
    BY <1>1, <1>5 DEF Notifying
  <2> QED BY <1>1, <1>2, <1>3, <2>3, <2>4, BalanceType DEF Balance
<1>6. CASE w # nextWorker
  <2>1. mq'[w] = mq[w] /\ Notifying(w)' = 0
    BY <1>1, <1>4, <1>6 DEF DispatchPush, Notifying
  <2> QED BY <1>1, <1>2, <2>1, BalanceFrame, Zenon
<1> QED BY <1>5, <1>6

\* dispatch_new_conn: notify(NEW_CONNECTION) succeeds, or is counted as lost.
LEMMA NotifyBalance ==
    ASSUME TypeOK, DispatchNotify, NEW w \in Workers, Balance(w) PROVE Balance(w)'
<1>1. /\ dpc = "notify" /\ dpc' = "loop" /\ UNCHANGED <<mq, wpc, target>>
      /\ target \in Workers /\ Notifying(w)' = 0 /\ Popping(w)' = Popping(w)
  BY DEF DispatchNotify, worker, TypeOK, Notifying, Popping
<1>2. pipe \in [Workers -> Seq(Messages)] /\ lost \in [Workers -> Nat]
  BY Zenon DEF TypeOK, Messages
<1>3. CASE w # target
  <2>1. pipe'[w] = pipe[w] /\ lost'[w] = lost[w]
    BY <1>1, <1>2, <1>3 DEF DispatchNotify
  <2>2. Notifying(w) = 0
    BY <1>3 DEF Notifying
  <2> QED BY <1>1, <2>1, <2>2, BalanceFrame, Zenon
<1>4. CASE w = target
  <2>1. Notifying(w) = 1
    BY <1>1, <1>4 DEF Notifying
  <2>2. CASE HasRoom(target)
    <3>1. pipe'[w] = Append(pipe[w], "NEW_CONNECTION") /\ lost'[w] = lost[w]
      BY <1>2, <1>4, <2>2 DEF DispatchNotify
    <3>2. News(pipe'[w]) = News(pipe[w]) + 1
      BY <1>2, <3>1, NewsAppend, Zenon DEF Messages
    <3>3. Balance(w)' <=> Len(mq[w]) = News(pipe'[w]) + lost[w] + Popping(w) + 0
      BY <1>1, <3>1, Zenon DEF Balance, News, Places
    <3>4. /\ Len(mq[w]) = News(pipe[w]) + lost[w] + Popping(w) + 1
          /\ News(pipe[w]) \in Nat /\ lost[w] \in Nat /\ Popping(w) \in Nat
      BY <2>1, BalanceType DEF Balance
    <3>5. Len(mq[w]) = News(pipe'[w]) + lost[w] + Popping(w) + 0
      BY <3>2, <3>4
    <3> QED BY <3>3, <3>5
  <2>3. CASE ~HasRoom(target)
    <3>1. pipe'[w] = pipe[w] /\ lost'[w] = lost[w] + 1
      BY <1>2, <1>4, <2>3 DEF DispatchNotify
    <3>2. Balance(w)' <=> Len(mq[w]) = News(pipe[w]) + (lost[w] + 1) + Popping(w) + 0
      BY <1>1, <3>1, Zenon DEF Balance, News, Places
    <3> QED BY <2>1, <3>2, BalanceType DEF Balance
  <2> QED BY <2>2, <2>3
<1> QED BY <1>3, <1>4

\* join_workers: QUIT announces nothing.
LEMMA JoinBalance ==
    ASSUME TypeOK, JoinNotify, NEW w \in Workers, Balance(w) PROVE Balance(w)'
<1>1. /\ dpc = "quit" /\ dpc' = "join" /\ UNCHANGED <<mq, wpc, target, lost>>
      /\ Notifying(w)' = Notifying(w) /\ Popping(w)' = Popping(w)
  BY DEF JoinNotify, worker, history, Notifying, Popping
<1>2. pipe \in [Workers -> Seq(Messages)]
  BY Zenon DEF TypeOK, Messages
<1>3. pipe'[w] = pipe[w] \/ pipe'[w] = Append(pipe[w], "QUIT")
  BY <1>2 DEF JoinNotify
<1>4. News(pipe'[w]) = News(pipe[w])
  BY <1>2, <1>3, NewsAppend, Zenon DEF Messages
<1>5. Balance(w)' <=> Len(mq[w]) = News(pipe'[w]) + lost[w] + Popping(w) + Notifying(w)
  BY <1>1, Zenon DEF Balance, News, Places
<1> QED BY <1>4, <1>5, Zenon DEF Balance

\* recv_notify: a message is taken, and after NEW_CONNECTION the worker pops.
LEMMA RecvBalance ==
    ASSUME TypeOK, NEW v \in Workers, RecvNotify(v), NEW w \in Workers, Balance(w)
    PROVE  Balance(w)'
<1>1. /\ UNCHANGED <<mq, dpc, target, lost>> /\ Notifying(w)' = Notifying(w)
      /\ wpc[v] = "loop" /\ pipe[v] # <<>> /\ pipe[v] \in Seq(Messages)
  BY DEF RecvNotify, dispatcher, history, Notifying, TypeOK, Messages
<1>2. CASE w # v
  <2>1. pipe'[w] = pipe[w] /\ wpc'[w] = wpc[w]
    BY <1>2 DEF RecvNotify, TypeOK
  <2> QED BY <1>1, <2>1, BalanceFrame, Zenon DEF Popping
<1>3. CASE w = v
  <2>1. /\ pipe'[w] = Tail(pipe[w])
        /\ wpc'[w] = IF Head(pipe[w]) = "QUIT" THEN "stopping" ELSE "pop"
    BY <1>3 DEF RecvNotify, TypeOK
  <2>2. Head(pipe[w]) \in Messages /\ Tail(pipe[w]) \in Seq(Messages)
    BY <1>1, <1>3, TailFacts
  <2>3. /\ Popping(w) = 0
        /\ Popping(w)' = IF Head(pipe[w]) = "NEW_CONNECTION" THEN 1 ELSE 0
    BY <1>1, <1>3, <2>1, <2>2, Zenon DEF Popping, Messages
  <2>4. News(pipe[w]) = IF Head(pipe[w]) = "NEW_CONNECTION"
                        THEN News(Tail(pipe[w])) + 1 ELSE News(Tail(pipe[w]))
    BY <1>1, <1>3, NewsTail, Zenon
  <2>5. News(Tail(pipe[w])) \in Nat
    BY <2>2, NewsType, Zenon
  <2>6. Balance(w)' <=>
            Len(mq[w]) = News(Tail(pipe[w])) + lost[w] + Popping(w)' + Notifying(w)
    BY <1>1, <2>1, Zenon DEF Balance, News, Places
  <2> QED BY <2>3, <2>4, <2>5, <2>6, BalanceType DEF Balance
<1> QED BY <1>2, <1>3

\* process_internal_notify: mq_pop finds the connection that was announced.
LEMMA PopBalance ==
    ASSUME TypeOK, NEW v \in Workers, NewConnection(v), NEW w \in Workers, Balance(w)
    PROVE  Balance(w)'
<1>1. /\ UNCHANGED <<pipe, dpc, target, lost>> /\ Notifying(w)' = Notifying(w)
      /\ wpc[v] = "pop" /\ wpc' = [wpc EXCEPT ![v] = "loop"]
  BY DEF NewConnection, dispatcher, history, Notifying
<1>2. CASE w # v
  <2>1. mq'[w] = mq[w] /\ wpc'[w] = wpc[w]
    BY <1>1, <1>2, Zenon DEF NewConnection, TypeOK
  <2> QED BY <1>1, <2>1, BalanceFrame, Zenon DEF Popping
<1>3. CASE w = v
  <2>1. Popping(w) = 1 /\ Popping(w)' = 0
    BY <1>1, <1>3 DEF Popping, TypeOK
  <2>2. Len(mq[w]) >= 1 /\ mq[w] \in Seq(Fds)
    BY <2>1, BalanceType DEF Balance
  <2>3. mq[w] # <<>>
    BY <2>2
  <2>4. mq'[w] = Tail(mq[w])
    BY <1>3, <2>3 DEF NewConnection, TypeOK
  <2>5. Len(mq'[w]) = Len(mq[w]) - 1
    BY <2>2, <2>3, <2>4, TailFacts
  <2>6. Balance(w)' <=> Len(mq'[w]) = News(pipe[w]) + lost[w] + 0 + Notifying(w)
    BY <1>1, <2>1 DEF Balance, News, Places
  <2> QED BY <2>1, <2>5, <2>6, BalanceType DEF Balance
<1> QED BY <1>2, <1>3

\* All the other steps keep the balance.
LEMMA NextBalance == TypeOK /\ MqAnnounced /\ [Next]_vars => MqAnnounced'
<1> SUFFICES ASSUME TypeOK, [Next]_vars, NEW w \in Workers, Balance(w)
             PROVE  Balance(w)'
  BY BalanceIsMqAnnounced, Zenon DEF MqAnnounced, Balance, Announced, News, Places,
                              Popping, Notifying
<1>1. ASSUME UNCHANGED <<mq, pipe, lost>>, Popping(w)' = Popping(w),
             Notifying(w)' = Notifying(w)
      PROVE  Balance(w)'
  BY <1>1, BalanceFrame, Zenon
<1>2. ASSUME NEW fd \in Fds, AcceptNewConn(fd) PROVE Balance(w)'
  BY <1>1, <1>2, Zenon DEF AcceptNewConn, worker, Popping, Notifying
<1>3. CASE RecvQuit \/ JoinThread \/ ServerStop
  <2>1. UNCHANGED <<mq, pipe, lost, wpc, target>> /\ (dpc' = "notify" <=> dpc = "notify")
    BY <1>3, Zenon DEF RecvQuit, JoinThread, ServerStop, dispatcher, worker, history
  <2> QED BY <1>1, <2>1 DEF Popping, Notifying
<1>4. ASSUME NEW v \in Workers, NEW fd \in Fds, ConnEnds(v, fd) \/ StopRemove(v, fd)
      PROVE  Balance(w)'
  <2>1. /\ UNCHANGED <<mq, pipe, lost, dpc, target>>
        /\ wpc'[w] = "pop" <=> wpc[w] = "pop"
    BY <1>4, Zenon DEF ConnEnds, StopRemove, RemoveConn, dispatcher, history, TypeOK
  <2> QED BY <1>1, <2>1, Zenon DEF Popping, Notifying
<1>5. ASSUME NEW v \in Workers, CloseFd(v) \/ ExitThread(v) PROVE Balance(w)'
  <2>1. /\ UNCHANGED <<mq, pipe, lost, dpc, target>>
        /\ wpc'[w] = "pop" <=> wpc[w] = "pop"
    BY <1>5, Zenon DEF CloseFd, ExitThread, dispatcher, history, TypeOK
  <2> QED BY <1>1, <2>1 DEF Popping, Notifying
<1>6. CASE UNCHANGED vars
  BY <1>1, <1>6 DEF vars, dispatcher, worker, history, Popping, Notifying
<1>7. CASE DispatcherStep
  BY <1>3, <1>7, PushBalance, NotifyBalance, JoinBalance DEF DispatcherStep
<1>8. ASSUME NEW v \in Workers, WorkerStep(v) PROVE Balance(w)'
  BY <1>4, <1>5, <1>8, RecvBalance, PopBalance DEF WorkerStep
<1> QED BY <1>2, <1>3, <1>4, <1>6, <1>7, <1>8 DEF Next

(* Every connection in a worker's queue (dispatcher.cpp:240) is announced  *)
(* by a message of its own, unless the pipe has refused it.                *)
THEOREM Safety_MqAnnounced == Spec => []MqAnnounced
<1>1. Init => MqAnnounced
  <2> SUFFICES ASSUME Init, NEW w \in Workers PROVE Balance(w)
    BY BalanceIsMqAnnounced
  <2>1. /\ mq[w] = <<>> /\ pipe[w] = <<>> /\ lost[w] = 0
        /\ Popping(w) = 0 /\ Notifying(w) = 0
    BY DEF Init, Popping, Notifying
  <2>2. <<>> \in Seq(Messages) /\ Len(<<>>) = 0
    OBVIOUS
  <2>3. News(<<>>) = 0
    BY <2>2, NewsType, Zenon
  <2> QED BY <2>1, <2>2, <2>3 DEF Balance
<1> QED BY <1>1, NextBalance, Safety_TypeOK, PTL DEF Spec

------------------------------------------------------------------------------
(* QUIT is the last message a worker is sent: when it has read it, the     *)
(* pipe is empty and stays so, and the dispatcher dispatches no more.      *)

\* join_workers has written QUIT to w's pipe, or tried to.
Told(w) ==
    \/ dpc = "stopped"
    \/ dpc = "quit" /\ w < joining
    \/ dpc = "join" /\ w <= joining

Quitting(w) == wpc[w] \in {"stopping", "stopclose", "exited"}

QuitLast(w) ==
    /\ \A i \in 1 .. Len(pipe[w]) : pipe[w][i] = "QUIT" => i = Len(pipe[w]) /\ Told(w)
    /\ Quitting(w) => pipe[w] = <<>> /\ Told(w)
    /\ wpc[w] = "exited" => conns[w] = {}

QuitOrder == \A w \in Workers : QuitLast(w)

\* A step that writes to no pipe and lets no worker quit or get connections.
LEMMA QuitFrame ==
    ASSUME NEW w \in Workers, QuitLast(w), pipe'[w] = pipe[w],
           Told(w) => Told(w)', Quitting(w)' => Quitting(w),
           wpc'[w] = "exited" => wpc[w] = "exited" /\ conns'[w] = conns[w]
    PROVE  QuitLast(w)'
  BY Zenon DEF QuitLast

\* notify(): a worker that was told to quit gets no further message.
LEMMA QuitAppend ==
    ASSUME TypeOK, NEW w \in Workers, QuitLast(w), ~Told(w), NEW m \in Messages,
           pipe'[w] = Append(pipe[w], m), wpc' = wpc,
           m = "QUIT" => Told(w)'
    PROVE  QuitLast(w)'
<1>1. pipe[w] \in Seq(Messages)
  BY BalanceType, Zenon
<1>2. /\ Len(pipe'[w]) = Len(pipe[w]) + 1 /\ Len(pipe[w]) \in Nat
      /\ \A i \in 1 .. Len(pipe[w]) : pipe'[w][i] = pipe[w][i]
      /\ pipe'[w][Len(pipe[w]) + 1] = m
  <2>1. Len(pipe[w]) \in Nat
    BY <1>1, LenFacts, Zenon
  <2>2. /\ Len(Append(pipe[w], m)) = Len(pipe[w]) + 1
        /\ \A i \in 1 .. Len(pipe[w]) : Append(pipe[w], m)[i] = pipe[w][i]
        /\ Append(pipe[w], m)[Len(pipe[w]) + 1] = m
    BY <1>1, AppendFacts
  <2> QED BY <2>1, <2>2, Zenon
<1>3. ~Quitting(w) /\ \A i \in 1 .. Len(pipe[w]) : pipe[w][i] # "QUIT"
  BY Zenon DEF QuitLast
<1>4. ~Quitting(w)' /\ wpc'[w] # "exited"
  BY <1>3 DEF Quitting
<1>5. ASSUME NEW i \in 1 .. Len(pipe'[w]), pipe'[w][i] = "QUIT"
      PROVE  i = Len(pipe'[w]) /\ Told(w)'
  <2>1. i \notin 1 .. Len(pipe[w])
    BY <1>2, <1>3, <1>5, Zenon
  <2>2. i = Len(pipe[w]) + 1
    BY <1>2, <2>1
  <2> QED BY <1>2, <1>5, <2>2
<1> QED BY <1>4, <1>5, Zenon DEF QuitLast

\* recv_notify: QUIT is the only message left when it is read.
LEMMA QuitRecv ==
    ASSUME TypeOK, NEW w \in Workers, QuitLast(w), RecvNotify(w) PROVE QuitLast(w)'
<1>1. /\ UNCHANGED <<dpc, joining, conns>> /\ (Told(w) <=> Told(w)')
      /\ pipe'[w] = Tail(pipe[w])
      /\ wpc'[w] = IF Head(pipe[w]) = "QUIT" THEN "stopping" ELSE "pop"
      /\ pipe[w] \in Seq(Messages) /\ pipe[w] # <<>>
  BY Zenon DEF RecvNotify, dispatcher, TypeOK, Told, Messages
<1>2. /\ pipe'[w] \in Seq(Messages) /\ Len(pipe'[w]) = Len(pipe[w]) - 1
      /\ Len(pipe[w]) \in Nat \ {0} /\ Head(pipe[w]) = pipe[w][1]
      /\ \A i \in 1 .. Len(pipe'[w]) : pipe'[w][i] = pipe[w][i + 1]
  BY <1>1, TailFacts, LenFacts, EmptyFacts
<1>3. ASSUME NEW i \in 1 .. Len(pipe'[w]), pipe'[w][i] = "QUIT"
      PROVE  i = Len(pipe'[w]) /\ Told(w)'
  <2>1. i + 1 \in 1 .. Len(pipe[w]) /\ pipe[w][i + 1] = "QUIT"
    BY <1>2, <1>3
  <2>2. i + 1 = Len(pipe[w]) /\ Told(w)
    BY <2>1, Zenon DEF QuitLast
  <2> QED BY <1>1, <1>2, <2>2
<1>4. ASSUME Quitting(w)' PROVE pipe'[w] = <<>> /\ Told(w)'
  <2>1. pipe[w][1] = "QUIT" /\ 1 \in 1 .. Len(pipe[w])
    BY <1>1, <1>2, <1>4 DEF Quitting
  <2>2. 1 = Len(pipe[w]) /\ Told(w)
    BY <2>1, Zenon DEF QuitLast
  <2>3. Len(pipe'[w]) = 0
    BY <1>2, <2>2
  <2> QED BY <1>1, <1>2, <2>2, <2>3, EmptyFacts, Zenon
<1>5. wpc'[w] # "exited"
  BY <1>1, Zenon
<1> QED BY <1>3, <1>4, <1>5, Zenon DEF QuitLast

\* The steps of the dispatcher: it goes on to the next worker only forwards.
LEMMA QuitDispatcher ==
    ASSUME TypeOK, DispatcherStep, NEW w \in Workers, QuitLast(w) PROVE QuitLast(w)'
<1>1. UNCHANGED <<wpc, conns>>
  BY Zenon DEF DispatcherStep, DispatchPush, DispatchNotify, RecvQuit, JoinNotify,
         JoinThread, worker
<1>2. Quitting(w)' <=> Quitting(w)
  BY <1>1 DEF Quitting
<1>3. ASSUME pipe'[w] = pipe[w], Told(w) => Told(w)' PROVE QuitLast(w)'
  BY <1>1, <1>2, <1>3, QuitFrame, Zenon
<1>4. pipe \in [Workers -> Seq(Messages)] /\ joining \in Workers /\ target \in Workers
  BY DEF TypeOK, Messages
<1>a. w \in Int /\ joining \in Int
  BY <1>4, DispatchConstants DEF Workers
<1>5. CASE DispatchPush
  BY <1>3, <1>5 DEF DispatchPush, Told
<1>6. CASE DispatchNotify
  <2>1. ~Told(w)
    BY <1>6 DEF DispatchNotify, Told
  <2>2. pipe'[w] = pipe[w] \/ pipe'[w] = Append(pipe[w], "NEW_CONNECTION")
    BY <1>4, <1>6 DEF DispatchNotify
  <2> QED BY <1>1, <1>3, <2>1, <2>2, QuitAppend, Zenon DEF Messages
<1>7. CASE RecvQuit
  BY <1>3, <1>7 DEF RecvQuit, Told
<1>8. CASE JoinNotify
  <2>1. dpc = "quit" /\ dpc' = "join" /\ joining' = joining
    BY <1>8 DEF JoinNotify
  <2>2. CASE w = joining
    <3>1. ~Told(w) /\ Told(w)'
      BY <1>a, <2>1, <2>2 DEF Told
    <3>2. pipe'[w] = pipe[w] \/ pipe'[w] = Append(pipe[w], "QUIT")
      BY <1>4, <1>8 DEF JoinNotify
    <3> QED BY <1>1, <1>3, <3>1, <3>2, QuitAppend, Zenon DEF Messages
  <2>3. CASE w # joining
    <3>1. pipe'[w] = pipe[w]
      BY <1>4, <1>8, <2>3 DEF JoinNotify
    <3>2. Told(w) => Told(w)'
      BY <1>a, <2>1, <2>3 DEF Told
    <3> QED BY <1>3, <3>1, <3>2, Zenon
  <2> QED BY <2>2, <2>3
<1>9. CASE JoinThread
  <2>1. /\ dpc = "join" /\ pipe' = pipe
        /\ (dpc' = "quit" /\ joining' = joining + 1) \/ dpc' = "stopped"
    BY <1>9 DEF JoinThread
  <2>2. Told(w) => Told(w)'
    BY <1>a, <2>1 DEF Told
  <2> QED BY <1>3, <2>1, <2>2
<1> QED BY <1>5, <1>6, <1>7, <1>8, <1>9 DEF DispatcherStep

\* The steps of a worker.
LEMMA QuitWorker ==
    ASSUME TypeOK, NEW v \in Workers, NEW w \in Workers, QuitLast(w),
           \/ WorkerStep(v) \/ \E fd \in Fds : ConnEnds(v, fd)
    PROVE  QuitLast(w)'
<1>1. UNCHANGED <<dpc, joining>> /\ (Told(w) => Told(w)')
  BY Zenon DEF WorkerStep, RecvNotify, NewConnection, StopRemove, ConnEnds, RemoveConn,
         CloseFd, ExitThread, dispatcher, Told
<1>2. CASE v # w
  <2>1. pipe'[w] = pipe[w] /\ wpc'[w] = wpc[w] /\ conns'[w] = conns[w]
    BY <1>2, Zenon DEF TypeOK, WorkerStep, RecvNotify, NewConnection, StopRemove, ConnEnds,
                RemoveConn, CloseFd, ExitThread
  <2> QED BY <1>1, <2>1, QuitFrame, Zenon DEF Quitting
<1>3. CASE v = w
  <2>1. CASE RecvNotify(w)
    BY <2>1, QuitRecv
  <2>2. CASE NewConnection(w)
    <3>1. pipe'[w] = pipe[w] /\ wpc'[w] = "loop"
      BY <2>2, Zenon DEF NewConnection, TypeOK
    <3> QED BY <1>1, <3>1, QuitFrame, Zenon DEF Quitting
  <2>3. CASE \E fd \in Fds : ConnEnds(w, fd) \/ StopRemove(w, fd)
    <3>1. /\ pipe'[w] = pipe[w]
          /\ \/ wpc[w] = "loop" /\ wpc'[w] = "close"
             \/ wpc[w] = "stopping" /\ wpc'[w] = "stopclose"
      BY <2>3, Zenon DEF ConnEnds, StopRemove, RemoveConn, TypeOK
    <3> QED BY <1>1, <3>1, QuitFrame, Zenon DEF Quitting
  <2>4. CASE CloseFd(w)
    <3>1. /\ pipe'[w] = pipe[w]
          /\ \/ wpc[w] = "close" /\ wpc'[w] = "loop"
             \/ wpc[w] = "stopclose" /\ wpc'[w] = "stopping"
      BY <2>4, Zenon DEF CloseFd, TypeOK
    <3> QED BY <1>1, <3>1, QuitFrame, Zenon DEF Quitting
  <2>5. CASE ExitThread(w)
    <3>1. /\ pipe'[w] = pipe[w] /\ conns'[w] = {} /\ wpc[w] = "stopping"
      BY <2>5, Zenon DEF ExitThread, TypeOK
    <3>2. Quitting(w)
      BY <3>1, Zenon DEF Quitting
    <3> QED BY <1>1, <3>1, <3>2, Zenon DEF QuitLast
  <2> QED BY <1>3, <2>1, <2>2, <2>3, <2>4, <2>5 DEF WorkerStep
<1> QED BY <1>2, <1>3

\* No step sends a worker anything after QUIT (dispatcher.cpp:226).
LEMMA NextQuitOrder == TypeOK /\ QuitOrder /\ [Next]_vars => QuitOrder'
<1> SUFFICES ASSUME TypeOK, [Next]_vars, NEW w \in Workers, QuitLast(w)
             PROVE  QuitLast(w)'
  BY DEF QuitOrder
<1>1. ASSUME UNCHANGED <<pipe, wpc, conns>>, Told(w) => Told(w)' PROVE QuitLast(w)'
  BY <1>1, QuitFrame DEF Quitting
<1>2. ASSUME NEW fd \in Fds, AcceptNewConn(fd) PROVE QuitLast(w)'
  BY <1>1, <1>2 DEF AcceptNewConn, worker, Told
<1>3. CASE ServerStop
  BY <1>1, <1>3 DEF ServerStop, worker, dispatcher, Told
<1>4. CASE UNCHANGED vars
  BY <1>1, <1>4 DEF vars, worker, dispatcher, Told
<1> QED BY <1>2, <1>3, <1>4, QuitDispatcher, QuitWorker DEF Next

(* Whoever quits (worker.cpp:416) has closed every connection it was told  *)
(* of; what is left in its queue are the ones its pipe refused.            *)
THEOREM Safety_NothingLeftBehind == Spec => []NothingLeftBehind
<1>1. Init => QuitOrder
  BY DEF Init, QuitOrder, QuitLast, Quitting
<1>2. IInv /\ MqAnnounced /\ QuitOrder => NothingLeftBehind
  <2> SUFFICES ASSUME IInv, MqAnnounced, QuitOrder, NEW w \in Workers,
                      wpc[w] = "exited"
               PROVE  conns[w] = {} /\ closing[w] = NoFd /\ Len(mq[w]) = lost[w]
    BY Zenon DEF NothingLeftBehind
  <2>1. pipe[w] = <<>> /\ Told(w) /\ conns[w] = {}
    BY DEF QuitOrder, QuitLast, Quitting
  <2>2. closing[w] = NoFd
    BY DEF IInv, Hands
  <2>3. Popping(w) = 0 /\ Notifying(w) = 0
    BY <2>1 DEF Popping, Notifying, Told
  <2>4. TypeOK /\ Balance(w)
    BY BalanceIsMqAnnounced DEF IInv
  <2>5. News(pipe[w]) = 0 /\ lost[w] \in Nat
    BY <2>1, <2>4, BalanceType, NewsType, Zenon
  <2> QED BY <2>1, <2>2, <2>3, <2>4, <2>5 DEF Balance
<1> QED
  BY <1>1, <1>2, NextQuitOrder, Safety_TypeOK, Invariance, Safety_MqAnnounced, PTL
     DEF Spec

------------------------------------------------------------------------------
(* EntryIsOwn and WritesOwnConn of SocketTable.  A descriptor that is open *)
(* is in one of four hands: the dispatcher wraps it, its socket is on the  *)
(* way to a worker, a worker has the connection in _conns, or a worker is  *)
(* about to close it.  The invariant says what holds in each of them, and  *)
(* that no descriptor and no socket is in two.                             *)

USE DEF T!SocketTableConstants, T!Null, T!Listen, T!Sockets

\* What the dispatcher has made sure of when it gives socket s for f away.
Entered(f, s) ==
    /\ f < size /\ entry[f] = s
    /\ s \in live /\ f \in openFds
    /\ wrapping # f
    /\ s <= accepted /\ (wrapping # T!Null => s # accepted)

\* Sockets in _conns and on the way.
Placed ==
    /\ \A w \in Workers, f \in Fds : connsOf[w][f] # T!Null => Entered(f, connsOf[w][f])
    /\ \A h \in handed : Entered(h.fd, h.sock)

\* A descriptor has one owner.
SoleOwner(c, on) ==
    /\ \A w, v \in Workers, f \in Fds : c[w][f] # T!Null /\ c[v][f] # T!Null => w = v
    /\ \A w \in Workers, f \in Fds, h \in on : c[w][f] # T!Null => h.fd # f
    /\ \A h, k \in on : h.fd = k.fd => h = k
OneOwner == SoleOwner(connsOf, handed)

\* A socket has one descriptor.
SoleSocket(c, on) ==
    /\ \A w, v \in Workers, f, g \in Fds : c[w][f] # T!Null /\ c[w][f] = c[v][g] => f = g
    /\ \A w \in Workers, f \in Fds, h \in on : c[w][f] # h.sock
    /\ \A h, k \in on : h.sock = k.sock => h = k
OneSocket == SoleSocket(connsOf, handed)

\* The socket that is being wrapped.
Wrapping ==
    /\ ListenFd < size
    /\ wrapping # T!Null => wrapping \in openFds /\ accepted \in live /\ accepted > 0
    /\ roomy => wrapping # T!Null /\ wrapping < size

\* A descriptor between remove_conn() and close().
TableClosing ==
    \A w \in Workers :
        cb[w].at = "close" =>
            /\ cb[w].fd \in openFds /\ cb[w].fd # wrapping
            /\ \A v \in Workers : connsOf[v][cb[w].fd] = T!Null
            /\ \A h \in handed : h.fd # cb[w].fd
            /\ \A v \in Workers : cb[v].at = "close" /\ cb[v].fd = cb[w].fd => v = w

\* What a worker knows inside of a callback.
Callback ==
    \A w \in Workers :
        cb[w].at # "loop" =>
            /\ cb[w].fd \in Fds /\ cb[w].conn # T!Null
            /\ connsOf[w][cb[w].fd] \in {cb[w].conn, T!Null}
            /\ cb[w].at \in {"read", "use"} => connsOf[w][cb[w].fd] # T!Null
            /\ cb[w].at = "close" => connsOf[w][cb[w].fd] = T!Null

TableInv == T!TypeOK /\ Placed /\ OneOwner /\ OneSocket /\ Wrapping /\ TableClosing /\ Callback

-----------------------------------------------------------------------------
\* The empty table satisfies the invariant (create_server has entered the
\* listening socket).
LEMMA TableInit == ASSUME T!SocketTableConstants PROVE T!Init => TableInv
<1> SUFFICES ASSUME T!Init PROVE TableInv
  OBVIOUS
<1>1. T!TypeOK
  <2>1. size \in Nat /\ entry \in [Fds \cup {ListenFd} -> T!Sockets \cup {T!Null, T!Listen}]
    BY DEF T!Init, T!Grown
  <2>2. T!Idle \in [at : {"loop", "read", "close", "write", "element", "conn", "use"},
                  fd : Fds \cup {0}, conn : T!Sockets \cup {T!Null}]
    BY Zenon DEF T!Idle
  <2>7. roomy \in BOOLEAN
    BY Zenon DEF T!Init
  <2>8. start \in [Workers -> Nat]
    BY DEF T!Init
  <2>3. /\ moves \in Nat /\ accepted \in 0 .. MaxAccepts
        /\ wrapping \in Fds \cup {T!Null} /\ openFds \subseteq Fds \cup {ListenFd}
        /\ live \subseteq T!Sockets \cup {T!Listen} /\ replies \subseteq T!Sockets
    BY DEF T!Init
  <2>4. handed \subseteq [worker : Workers, fd : Fds, sock : T!Sockets]
    BY Zenon DEF T!Init
  <2>5. connsOf \in [Workers -> [Fds -> T!Sockets \cup {T!Null}]]
    BY DEF T!Init
  <2>6. cb \in [Workers -> [at : {"loop", "read", "close", "write", "element", "conn", "use"},
                            fd : Fds \cup {0}, conn : T!Sockets \cup {T!Null}]]
    BY <2>2, Zenon DEF T!Init
  <2> QED BY <2>1, <2>3, <2>4, <2>5, <2>6, <2>7, <2>8, Zenon DEF T!TypeOK
<1>2. Placed /\ OneOwner /\ OneSocket
  BY Zenon DEF T!Init, Placed, OneOwner, SoleOwner, OneSocket, SoleSocket
<1>3. Wrapping
  BY DEF T!Init, Wrapping, T!Grown
<1>4. TableClosing /\ Callback
  BY Zenon DEF T!Init, TableClosing, Callback, T!Idle
<1> QED BY <1>1, <1>2, <1>3, <1>4 DEF TableInv

\* What one connection in _conns excludes.
LEMMA OwnerFacts ==
    ASSUME TableInv, NEW w \in Workers, NEW f \in Fds, connsOf[w][f] # T!Null
    PROVE  /\ \A v \in Workers : connsOf[v][f] # T!Null => v = w
           /\ \A v \in Workers, g \in Fds : connsOf[v][g] = connsOf[w][f] => g = f
           /\ \A h \in handed : h.fd # f /\ h.sock # connsOf[w][f]
<1>1. OneOwner /\ OneSocket
  BY Zenon DEF TableInv
<1> QED BY <1>1 DEF OneOwner, SoleOwner, OneSocket, SoleSocket

\* accept() returns a descriptor that nobody has.
LEMMA GenericAcceptInv ==
    ASSUME T!SocketTableConstants, TableInv, NEW fd \in Fds, T!GenericAccept(fd) PROVE TableInv'
<1>1. T!TypeOK'
  BY DEF TableInv, T!TypeOK, T!GenericAccept
<1>2. Placed'
  BY DEF TableInv, T!TypeOK, Placed, Entered, T!GenericAccept
<1>3. OneOwner'
  BY Zenon DEF TableInv, OneOwner, T!GenericAccept
<1>7. OneSocket'
  BY Zenon DEF TableInv, OneSocket, T!GenericAccept
<1>4. Wrapping'
  BY DEF TableInv, T!TypeOK, Wrapping, T!GenericAccept
<1>5. TableClosing'
  BY Zenon DEF TableInv, TableClosing, T!GenericAccept
<1>6. Callback'
  BY Zenon DEF TableInv, Callback, T!GenericAccept
<1> QED BY <1>1, <1>2, <1>3, <1>4, <1>5, <1>6, <1>7 DEF TableInv

\* The table only grows.
LEMMA MakeRoomInv ==
    ASSUME T!SocketTableConstants, TableInv, T!MakeRoom PROVE TableInv'
<1>1. T!TypeOK'
  BY DEF TableInv, T!TypeOK, T!MakeRoom, T!Grown
<1>2. size' \in Nat /\ size' >= size /\ wrapping < size'
  BY DEF TableInv, T!TypeOK, T!MakeRoom, T!Grown
<1>3. Placed'
  <2>1. ASSUME NEW f \in Fds, NEW s, Entered(f, s) PROVE Entered(f, s)'
    BY <1>2, <2>1 DEF TableInv, T!TypeOK, Entered, T!MakeRoom
  <2> QED BY <2>1, Zenon DEF TableInv, T!TypeOK, Placed, T!MakeRoom
<1>4. OneOwner' /\ OneSocket'
  BY Zenon DEF TableInv, OneOwner, OneSocket, T!MakeRoom
<1>6. TableClosing' /\ Callback'
  BY Zenon DEF TableInv, TableClosing, Callback, T!MakeRoom
<1>5. Wrapping'
  BY <1>2 DEF TableInv, T!TypeOK, Wrapping, T!MakeRoom
<1> QED BY <1>1, <1>3, <1>4, <1>5, <1>6 DEF TableInv

\* wrap_socket() enters the new socket and hands it to a worker.
LEMMA WrapSocketInv ==
    ASSUME T!SocketTableConstants, TableInv, NEW w \in Workers, T!WrapSocket(w) PROVE TableInv'
<1>1. T!TypeOK'
  <2>1. accepted \in T!Sockets /\ wrapping \in Fds
    BY DEF TableInv, T!TypeOK, Wrapping, T!WrapSocket
  <2>2. handed' \subseteq [worker : Workers, fd : Fds, sock : T!Sockets]
    BY <2>1 DEF TableInv, T!TypeOK, T!WrapSocket
  <2>3. entry' \in [Fds \cup {ListenFd} -> T!Sockets \cup {T!Null, T!Listen}]
    BY <2>1, Zenon DEF TableInv, T!TypeOK, T!WrapSocket
  <2> QED BY <2>2, <2>3, Zenon DEF TableInv, T!TypeOK, T!WrapSocket
<1> DEFINE n == [worker |-> w, fd |-> wrapping, sock |-> accepted]
<1>a. /\ wrapping \in Fds /\ entry'[wrapping] = accepted
      /\ \A f \in Fds : f # wrapping => entry'[f] = entry[f]
  BY DEF TableInv, T!TypeOK, T!WrapSocket
<1>b. /\ handed' = handed \cup {n} /\ n.fd = wrapping /\ n.sock = accepted
      /\ wrapping' = T!Null /\ UNCHANGED <<size, accepted, openFds, live, connsOf>>
      /\ wrapping # T!Null /\ wrapping < size /\ wrapping \in openFds /\ accepted \in live
  BY DEF TableInv, Wrapping, T!WrapSocket
<1>c. /\ Placed /\ OneOwner /\ T!Null \notin Fds /\ accepted \in Int
      /\ \A h \in handed : h.fd \in Fds
  BY DEF TableInv, T!TypeOK
<1> HIDE DEF n
<1>2. Placed'
  <2>1. ASSUME NEW f \in Fds, NEW s, Entered(f, s) PROVE Entered(f, s)'
    BY <1>a, <1>b, <1>c, <2>1, Zenon DEF Entered
  <2>2. ASSUME NEW f \in Fds, NEW s, f = wrapping, s = accepted PROVE Entered(f, s)'
    <3>1. accepted <= accepted
      BY <1>c
    <3>2. /\ f < size' /\ entry'[f] = s /\ s \in live' /\ f \in openFds'
          /\ wrapping' # f /\ accepted' = accepted /\ wrapping' = T!Null
      BY <1>a, <1>b, <1>c, <2>2, Zenon
    <3> QED BY <2>2, <3>1, <3>2, Zenon DEF Entered
  <2>3. ASSUME NEW h \in handed' PROVE Entered(h.fd, h.sock)'
    <3>1. CASE h \in handed
      BY <1>c, <2>1, <3>1, Zenon DEF Placed
    <3>2. CASE h = n
      BY <1>a, <1>b, <2>2, <3>2, Zenon
    <3> QED BY <1>b, <3>1, <3>2, Zenon
  <2>4. ASSUME NEW v \in Workers, NEW f \in Fds, connsOf'[v][f] # T!Null
        PROVE  Entered(f, connsOf[v][f])'
    <3>1. connsOf' = connsOf
      BY <1>b, Zenon
    <3>2. Entered(f, connsOf[v][f])
      BY <1>c, <2>4, <3>1, Zenon DEF Placed
    <3> QED BY <2>1, <3>1, <3>2, Zenon
  <2> QED BY <2>3, <2>4, Zenon DEF Placed
<1>3. OneOwner'
  <2>1. /\ \A v \in Workers : connsOf[v][wrapping] = T!Null
        /\ \A h \in handed : h.fd # wrapping
    BY <1>a, <1>c, Zenon DEF Placed, Entered
  <2> QED BY <1>b, <1>c, <2>1, Zenon DEF OneOwner, SoleOwner
<1>4. OneSocket'
  BY DEF TableInv, T!TypeOK, Placed, Entered, OneSocket, SoleSocket, Wrapping, T!WrapSocket
<1>5. Wrapping'
  BY Zenon DEF TableInv, Wrapping, T!WrapSocket
<1>6. TableClosing'
  <2>1. /\ wrapping' = T!Null /\ UNCHANGED <<openFds, connsOf, cb>>
        /\ \A h \in handed' : h \in handed \/ h.fd = wrapping
    BY DEF T!WrapSocket
  <2>2. TableClosing /\ T!Null \notin Fds /\ \A v \in Workers : cb[v].at = "close" => cb[v].fd \in Fds
    BY Zenon DEF TableInv, Callback
  <2> QED BY <2>1, <2>2, Zenon DEF TableClosing
<1>7. Callback'
  <2>1. Callback /\ UNCHANGED <<connsOf, cb>>
    BY Zenon DEF TableInv, T!WrapSocket
  <2> QED BY <2>1, Zenon DEF Callback
<1> QED BY <1>1, <1>2, <1>3, <1>4, <1>5, <1>6, <1>7, Zenon DEF TableInv

\* create_connection() takes over what was on its way.
LEMMA CreateConnectionInv ==
    ASSUME T!SocketTableConstants, TableInv, NEW w \in Workers, T!CreateConnection(w) PROVE TableInv'
<1>1. PICK h \in handed :
          /\ h.worker = w
          /\ handed' = handed \ {h}
          /\ connsOf' = [connsOf EXCEPT ![w][h.fd] = h.sock]
  BY Zenon DEF T!CreateConnection
<1>2. h.fd \in Fds /\ h.sock \in T!Sockets /\ h.sock # T!Null
  BY DEF TableInv, T!TypeOK
<1>3. T!TypeOK'
  BY <1>1, <1>2, Zenon DEF TableInv, T!TypeOK, T!CreateConnection
<1>4. \A v \in Workers, f \in Fds :
          connsOf'[v][f] = IF v = w /\ f = h.fd THEN h.sock ELSE connsOf[v][f]
  BY <1>1, <1>2, Zenon DEF TableInv, T!TypeOK
<1>5. Placed'
  BY <1>1, <1>2, <1>4 DEF TableInv, Placed, Entered, T!CreateConnection
<1>6. OneOwner'
  BY <1>1, <1>2, <1>4 DEF TableInv, OneOwner, SoleOwner, T!CreateConnection
<1>7. OneSocket'
  BY <1>1, <1>2, <1>4 DEF TableInv, OneSocket, SoleSocket, T!CreateConnection
<1>8. Wrapping'
  BY Zenon DEF TableInv, Wrapping, T!CreateConnection
<1>9. TableClosing'
  <2>1. TableClosing /\ Callback /\ UNCHANGED <<openFds, wrapping, cb>>
    BY Zenon DEF TableInv, T!CreateConnection
  <2>2. \A u \in Workers : cb[u].at = "close" => cb[u].fd \in Fds /\ h.fd # cb[u].fd
    BY <2>1, Zenon DEF TableClosing, Callback
  <2>3. ASSUME NEW u \in Workers, NEW v \in Workers, cb[u].at = "close"
        PROVE  connsOf'[v][cb[u].fd] = T!Null
    <3>1. cb[u].fd \in Fds /\ h.fd # cb[u].fd /\ connsOf[v][cb[u].fd] = T!Null
      BY <2>1, <2>2, <2>3, Zenon DEF TableClosing
    <3> QED BY <1>4, <3>1, Zenon
  <2>4. \A k \in handed' : k \in handed
    BY <1>1, Zenon
  <2> QED BY <2>1, <2>3, <2>4, Zenon DEF TableClosing
<1>10. Callback'
  <2>1. Callback /\ cb' = cb /\ cb[w].at = "loop"
    BY DEF TableInv, T!CreateConnection, T!Idle
  <2>2. ASSUME NEW v \in Workers, cb[v].at # "loop"
        PROVE  connsOf'[v][cb[v].fd] = connsOf[v][cb[v].fd]
    <3>1. cb[v].fd \in Fds
      BY <2>1, <2>2, Zenon DEF Callback
    <3>2. v # w
      BY <2>1, <2>2, Zenon
    <3> QED BY <1>4, <3>1, <3>2, Zenon
  <2> QED BY <2>1, <2>2, Zenon DEF Callback
<1> QED BY <1>3, <1>5, <1>6, <1>7, <1>8, <1>9, <1>10 DEF TableInv

\* The parts of the invariant that a worker's step leaves alone if it changes
\* neither the tables nor the sockets.
LEMMA TablesUnchanged ==
    ASSUME T!SocketTableConstants, TableInv, UNCHANGED <<T!table, openFds, live, connsOf>>
    PROVE  Placed' /\ OneOwner' /\ OneSocket' /\ Wrapping'
<1>1. Placed'
  BY Zenon DEF TableInv, Placed, Entered, T!table
<1>2. OneOwner'
  BY Zenon DEF TableInv, OneOwner, T!table
<1>3. OneSocket'
  BY Zenon DEF TableInv, OneSocket, T!table
<1>4. Wrapping'
  BY Zenon DEF TableInv, Wrapping, T!table
<1> QED BY <1>1, <1>2, <1>3, <1>4

\* A step of worker w that changes only its place in the callback and its start,
\* and which replies wait, keeps the invariant if the new place allows it.
LEMMA CallbackStepInv ==
    ASSUME T!SocketTableConstants, TableInv, NEW w \in Workers, NEW c,
           UNCHANGED <<T!table, openFds, live, connsOf>>,
           cb' = [cb EXCEPT ![w] = c],
           c \in [at : {"loop", "read", "close", "write", "element", "conn", "use"},
                  fd : Fds \cup {0}, conn : T!Sockets \cup {T!Null}],
           c.at # "close",
           c.at # "loop" => /\ c.fd \in Fds /\ c.conn # T!Null
                            /\ connsOf[w][c.fd] \in {c.conn, T!Null}
                            /\ c.at \in {"read", "use"} => connsOf[w][c.fd] # T!Null,
           replies' \subseteq T!Sockets, start' \in [Workers -> Nat]
    PROVE  TableInv'
<1>1. T!TypeOK'
  BY Zenon DEF TableInv, T!TypeOK, T!table
<1>2. \A v \in Workers : cb'[v] = IF v = w THEN c ELSE cb[v]
  BY Zenon DEF TableInv, T!TypeOK
<1>3. TableClosing'
  <2>1. TableClosing /\ UNCHANGED <<openFds, wrapping, handed, connsOf>>
    BY Zenon DEF TableInv, T!table
  <2>2. ASSUME NEW v \in Workers, cb'[v].at = "close" PROVE cb'[v] = cb[v]
    BY <1>2, <2>2, Zenon
  <2>3. ASSUME NEW v \in Workers, cb'[v].at = "close"
        PROVE  /\ cb'[v].fd \in openFds /\ cb'[v].fd # wrapping
               /\ \A u \in Workers : connsOf[u][cb'[v].fd] = T!Null
               /\ \A h \in handed : h.fd # cb'[v].fd
    <3>1. cb'[v] = cb[v] /\ cb[v].at = "close"
      BY <2>2, <2>3, Zenon
    <3> QED BY <2>1, <3>1, Zenon DEF TableClosing
  <2>4. ASSUME NEW u \in Workers, NEW v \in Workers, cb'[u].at = "close", cb'[v].at = "close",
               cb'[u].fd = cb'[v].fd
        PROVE  u = v
    <3>1. /\ cb[u].at = "close" /\ cb[v].at = "close" /\ cb[u].fd = cb[v].fd
      BY <2>2, <2>4, Zenon
    <3> QED BY <2>1, <3>1, Zenon DEF TableClosing
  <2> QED BY <2>1, <2>3, <2>4 DEF TableClosing
<1>4. Callback'
  <2>1. Callback /\ connsOf' = connsOf
    BY Zenon DEF TableInv
  <2>2. ASSUME NEW v \in Workers, v # w, cb'[v].at # "loop"
        PROVE  cb'[v] = cb[v] /\ cb[v].at # "loop"
    BY <1>2, <2>2, Zenon
  <2>3. cb'[w] = c
    BY <1>2, Zenon
  <2> QED BY <2>1, <2>2, <2>3, ZenonT(60) DEF Callback
<1> QED BY <1>1, <1>3, <1>4, TablesUnchanged, Zenon DEF TableInv

\* The event loop calls back with a connection that is there.
LEMMA ConnIoCbInv ==
    ASSUME T!SocketTableConstants, TableInv, NEW w \in Workers, NEW fd \in Fds,
           NEW place \in {"read", "write"},
           T!ConnIoCb(w, fd, place)
    PROVE  TableInv'
<1> DEFINE c == [at |-> place, fd |-> fd, conn |-> connsOf[w][fd]]
<1>1. c \in [at : {"loop", "read", "close", "write", "element", "conn", "use"},
             fd : Fds \cup {0}, conn : T!Sockets \cup {T!Null}]
  BY DEF TableInv, T!TypeOK
<1>2. connsOf[w][fd] # T!Null
  BY Zenon DEF T!ConnIoCb
<1>3. cb' = [cb EXCEPT ![w] = c] /\ UNCHANGED <<T!table, openFds, live, connsOf, replies, start>>
  BY Zenon DEF T!ConnIoCb
<1>4. replies' \subseteq T!Sockets /\ start' \in [Workers -> Nat]
  BY <1>3, Zenon DEF TableInv, T!TypeOK
<1>5. c.at = place /\ c.fd = fd /\ c.conn = connsOf[w][fd]
  BY Zenon
<1> HIDE DEF c
<1> QED BY <1>1, <1>2, <1>3, <1>4, <1>5, CallbackStepInv, Zenon

\* The steps of the callback but for the two that close the connection.
LEMMA InCallbackInv ==
    ASSUME T!SocketTableConstants, TableInv, NEW w \in Workers,
           T!ReadIo(w) \/ T!LoadStart(w) \/ T!LoadElement(w) \/ T!WriteIo(w) \/ T!WriteIoDone(w)
    PROVE  TableInv'
<1> DEFINE AllPlaces == {"loop", "read", "close", "write", "element", "conn", "use"}
           To(place) == [cb[w] EXCEPT !.at = place]
<1>1. /\ UNCHANGED <<T!table, openFds, live, connsOf>>
      /\ replies' \subseteq T!Sockets /\ start' \in [Workers -> Nat]
  <2>1. cb[w].at # "loop" => cb[w].conn \in T!Sockets
    BY Zenon DEF TableInv, T!TypeOK, Callback
  <2>2. CASE T!ReadIo(w)
    BY <2>1, <2>2, Zenon DEF TableInv, T!TypeOK, T!ReadIo
  <2>3. CASE T!LoadStart(w)
    BY <2>3, Zenon DEF TableInv, T!TypeOK, T!LoadStart, T!table
  <2>4. CASE T!LoadElement(w) \/ T!WriteIoDone(w)
    BY <2>4, Zenon DEF TableInv, T!TypeOK, T!LoadElement, T!WriteIoDone
  <2>5. CASE T!WriteIo(w)
    BY <2>5, Zenon DEF TableInv, T!TypeOK, T!WriteIo
  <2> QED BY <2>2, <2>3, <2>4, <2>5, Zenon
<1>2. ASSUME NEW place \in AllPlaces
      PROVE  /\ To(place) \in [at : AllPlaces, fd : Fds \cup {0}, conn : T!Sockets \cup {T!Null}]
             /\ To(place).at = place /\ To(place).fd = cb[w].fd
             /\ To(place).conn = cb[w].conn
             /\ [cb EXCEPT ![w].at = place] = [cb EXCEPT ![w] = To(place)]
  BY <1>2, Zenon DEF TableInv, T!TypeOK
<1>3. T!Idle \in [at : AllPlaces, fd : Fds \cup {0}, conn : T!Sockets \cup {T!Null}] /\ T!Idle.at = "loop"
  BY Zenon DEF T!Idle
<1>4. cb[w].at # "loop" => /\ cb[w].fd \in Fds /\ cb[w].conn # T!Null
                           /\ connsOf[w][cb[w].fd] \in {cb[w].conn, T!Null}
  BY Zenon DEF TableInv, Callback
<1>5. CASE cb' = [cb EXCEPT ![w] = T!Idle]
  BY <1>1, <1>3, <1>5, CallbackStepInv, Zenon
<1>6. CASE \E place \in {"write", "element", "conn"} : T!At(w, place) /\ cb[w].at # "loop"
  <2>1. PICK place \in {"write", "element", "conn"} : T!At(w, place) /\ cb[w].at # "loop"
    BY <1>6, Zenon
  <2>2. cb' = [cb EXCEPT ![w] = To(place)]
    BY <1>2, <2>1 DEF T!At
  <2> HIDE DEF To
  <2> QED BY <1>1, <1>2, <1>4, <2>1, <2>2, CallbackStepInv, Zenon
<1>7. CASE T!At(w, "use") /\ cb[w].at = "conn" /\ connsOf[w][cb[w].fd] # T!Null
  <2>1. cb' = [cb EXCEPT ![w] = To("use")]
    BY <1>2, <1>7 DEF T!At
  <2> HIDE DEF To
  <2> QED BY <1>1, <1>2, <1>4, <1>7, <2>1, CallbackStepInv, ZenonT(60)
<1> QED
  BY <1>5, <1>6, <1>7, Zenon DEF T!ReadIo, T!LoadStart, T!LoadElement, T!WriteIo, T!WriteIoDone, T!Return

\* remove_conn() forgets the connection while its descriptor is still open.
LEMMA RemoveConnInv ==
    ASSUME T!SocketTableConstants, TableInv, NEW w \in Workers, T!RemoveConn(w) PROVE TableInv'
<1> DEFINE fd == cb[w].fd
<1>1. /\ fd \in Fds /\ cb[w].conn # T!Null
      /\ connsOf[w][fd] = cb[w].conn /\ Entered(fd, cb[w].conn)
  BY Zenon DEF TableInv, Callback, Placed, T!RemoveConn
<1>12. /\ \A v \in Workers : connsOf[v][fd] # T!Null => v = w
       /\ \A v \in Workers, g \in Fds : connsOf[v][g] = connsOf[w][fd] => g = fd
       /\ \A h \in handed : h.fd # fd /\ h.sock # connsOf[w][fd]
  <2>1. fd \in Fds /\ connsOf[w][fd] # T!Null
    BY <1>1, Zenon
  <2> HIDE DEF fd
  <2> QED BY <2>1, OwnerFacts, Zenon
<1>2. \A v \in Workers, f \in Fds :
          connsOf'[v][f] = IF v = w /\ f = fd THEN T!Null ELSE connsOf[v][f]
  BY <1>1, Zenon DEF TableInv, T!TypeOK, T!RemoveConn
<1>3. \A v \in Workers : cb'[v] = IF v = w THEN [cb[w] EXCEPT !.at = "close"] ELSE cb[v]
  BY DEF TableInv, T!TypeOK, T!RemoveConn, T!At
<1>4. cb'[w].at = "close" /\ cb'[w].fd = fd /\ cb'[w].conn = cb[w].conn
  BY <1>3 DEF TableInv, T!TypeOK
<1>5. T!TypeOK'
  <2>1. connsOf' \in [Workers -> [Fds -> T!Sockets \cup {T!Null}]]
    BY <1>1, Zenon DEF TableInv, T!TypeOK, T!RemoveConn
  <2>2. cb' \in [Workers ->
                   [at : {"loop", "read", "close", "write", "element", "conn", "use"},
                    fd : Fds \cup {0}, conn : T!Sockets \cup {T!Null}]]
    BY DEF TableInv, T!TypeOK, T!RemoveConn, T!At
  <2> QED BY <2>1, <2>2, Zenon DEF TableInv, T!TypeOK, T!RemoveConn, T!table
<1>6. Placed'
  <2>1. ASSUME NEW f \in Fds, NEW s, Entered(f, s), s # cb[w].conn PROVE Entered(f, s)'
    BY <2>1, Zenon DEF Entered, T!RemoveConn, T!table
  <2>2. ASSUME NEW v \in Workers, NEW f \in Fds, connsOf'[v][f] # T!Null
        PROVE  Entered(f, connsOf[v][f])' /\ connsOf'[v][f] = connsOf[v][f]
    <3>1. connsOf'[v][f] = connsOf[v][f] /\ ~(v = w /\ f = fd)
      BY <1>2, <2>2, Zenon
    <3>2. connsOf[v][f] # cb[w].conn
      <4>1. connsOf[v][f] # T!Null /\ connsOf[w][fd] # T!Null
        BY <1>1, <2>2, <3>1, Zenon
      <4>2. connsOf[v][f] = connsOf[w][fd] => f = fd
        BY <1>12, <4>1, Zenon
      <4>3. f = fd => v = w
        BY <1>12, <4>1, Zenon
      <4> QED BY <1>1, <3>1, <4>2, <4>3, Zenon
    <3>3. Entered(f, connsOf[v][f])
      BY <2>2, <3>1, Zenon DEF TableInv, Placed
    <3> QED BY <2>1, <3>1, <3>2, <3>3, Zenon DEF Entered
  <2>3. ASSUME NEW h \in handed PROVE Entered(h.fd, h.sock)'
    <3>1. h.sock # cb[w].conn /\ h.fd \in Fds
      <4>1. connsOf[w][fd] # h.sock
        BY <1>12, Zenon
      <4> QED BY <1>1, <4>1, Zenon DEF TableInv, T!TypeOK
    <3> QED BY <2>1, <3>1, Zenon DEF TableInv, Placed
  <2>4. handed' = handed
    BY Zenon DEF T!RemoveConn, T!table
  <2> QED BY <2>2, <2>3, <2>4, Zenon DEF Placed
<1>7. OneOwner'
  <2>1. OneOwner /\ handed' = handed
    BY Zenon DEF TableInv, T!RemoveConn, T!table
  <2>2. \A v \in Workers, f \in Fds : connsOf'[v][f] # T!Null => connsOf'[v][f] = connsOf[v][f]
    BY <1>2, Zenon
  <2>3. SoleOwner(connsOf, handed)
    BY <2>1, Zenon DEF OneOwner
  <2>4. ASSUME NEW u \in Workers, NEW v \in Workers, NEW f \in Fds,
               connsOf'[u][f] # T!Null, connsOf'[v][f] # T!Null
        PROVE  u = v
    <3>1. connsOf[u][f] # T!Null /\ connsOf[v][f] # T!Null
      BY <2>2, <2>4, Zenon
    <3> QED BY <2>3, <3>1, Zenon DEF SoleOwner
  <2>5. ASSUME NEW v \in Workers, NEW f \in Fds, NEW h \in handed, connsOf'[v][f] # T!Null
        PROVE  h.fd # f
    <3>1. connsOf[v][f] # T!Null
      BY <2>2, <2>5, Zenon
    <3> QED BY <2>3, <3>1, Zenon DEF SoleOwner
  <2>6. \A h, k \in handed : h.fd = k.fd => h = k
    BY <2>3, Zenon DEF SoleOwner
  <2>7. SoleOwner(connsOf', handed)
    BY <2>4, <2>5, <2>6, ZenonT(60) DEF SoleOwner
  <2> QED BY <2>1, <2>7, Zenon DEF OneOwner
<1>8. OneSocket'
  <2>1. \A h \in handed : h.sock # T!Null
    BY DEF TableInv, T!TypeOK
  <2>2. OneSocket /\ handed' = handed
    BY Zenon DEF TableInv, T!RemoveConn, T!table
  <2>3. SoleSocket(connsOf, handed)
    BY <2>2, Zenon DEF OneSocket
  <2>4. \A v \in Workers, f \in Fds : connsOf'[v][f] # T!Null => connsOf'[v][f] = connsOf[v][f]
    BY <1>2, Zenon
  <2>5. \A u, v \in Workers, f, g \in Fds :
            connsOf'[u][f] # T!Null /\ connsOf'[u][f] = connsOf'[v][g] => f = g
    <3> TAKE u, v \in Workers, f, g \in Fds
    <3> HAVE connsOf'[u][f] # T!Null /\ connsOf'[u][f] = connsOf'[v][g]
    <3>1. connsOf[u][f] # T!Null /\ connsOf[u][f] = connsOf[v][g]
      BY <2>4, Zenon
    <3>2. \A t \in Workers, e \in Fds : connsOf[t][e] = connsOf[u][f] => e = f
      BY <3>1, OwnerFacts, Zenon
    <3> QED BY <3>1, <3>2, Zenon
  <2>6. \A v \in Workers, f \in Fds, h \in handed : connsOf'[v][f] # h.sock
    <3> TAKE v \in Workers, f \in Fds, h \in handed
    <3>1. h.sock # T!Null /\ connsOf[v][f] # h.sock
      BY <2>1, <2>3, Zenon DEF SoleSocket
    <3> QED BY <2>4, <3>1, Zenon
  <2>7. \A h, k \in handed : h.sock = k.sock => h = k
    BY <2>3, Zenon DEF SoleSocket
  <2>8. SoleSocket(connsOf', handed)
    BY <2>5, <2>6, <2>7, ZenonT(60) DEF SoleSocket
  <2> QED BY <2>2, <2>8, Zenon DEF OneSocket
<1>9. Wrapping'
  <2>1. wrapping # T!Null => cb[w].conn # accepted
    BY <1>1, Zenon DEF Entered
  <2> QED BY <2>1, Zenon DEF TableInv, Wrapping, T!RemoveConn, T!table
<1>10. TableClosing'
  <2>1. /\ fd \in openFds /\ fd # wrapping
        /\ \A v \in Workers : connsOf'[v][fd] = T!Null
        /\ \A h \in handed : h.fd # fd
    <3>1. \A v \in Workers : v # w => connsOf[v][fd] = T!Null
      BY <1>12, Zenon
    <3>2. \A h \in handed : h.fd # fd
      BY <1>12, Zenon
    <3> QED BY <1>1, <1>2, <3>1, <3>2, Zenon DEF Entered
  <2>2. ASSUME NEW v \in Workers, cb[v].at = "close" PROVE cb[v].fd # fd /\ cb[v].fd \in Fds
    <3>1. cb[v].fd \in Fds /\ connsOf[w][cb[v].fd] = T!Null
      BY <2>2, Zenon DEF TableInv, TableClosing, Callback
    <3> QED BY <1>1, <3>1, Zenon
  <2>3. TableClosing /\ UNCHANGED <<openFds, wrapping, handed>>
    BY Zenon DEF TableInv, T!RemoveConn, T!table
  <2> QED BY <1>2, <1>3, <1>4, <2>1, <2>2, <2>3 DEF TableClosing
<1>11. Callback'
  BY <1>1, <1>2, <1>3, <1>4 DEF TableInv, Callback
<1> QED BY <1>5, <1>6, <1>7, <1>8, <1>9, <1>10, <1>11, Zenon DEF TableInv

\* close() gives back a descriptor that is in no table.
LEMMA CloseFdInv ==
    ASSUME T!SocketTableConstants, TableInv, NEW w \in Workers, T!CloseFd(w) PROVE TableInv'
<1> DEFINE fd == cb[w].fd
<1>1. /\ fd \in Fds /\ fd # wrapping /\ cb[w].conn # T!Null
      /\ \A v \in Workers : connsOf[v][fd] = T!Null
      /\ \A h \in handed : h.fd # fd
      /\ \A v \in Workers : cb[v].at = "close" /\ cb[v].fd = fd => v = w
  BY Zenon DEF TableInv, TableClosing, Callback, T!CloseFd
<1>2. \A v \in Workers : cb'[v] = IF v = w THEN [cb[w] EXCEPT !.at = "write"] ELSE cb[v]
  BY DEF TableInv, T!TypeOK, T!CloseFd, T!At
<1>3. cb'[w].at = "write" /\ cb'[w].fd = fd /\ cb'[w].conn = cb[w].conn
  BY <1>2 DEF TableInv, T!TypeOK
<1>4. T!TypeOK'
  <2>1. cb' \in [Workers ->
                   [at : {"loop", "read", "close", "write", "element", "conn", "use"},
                    fd : Fds \cup {0}, conn : T!Sockets \cup {T!Null}]]
    BY Zenon DEF TableInv, T!TypeOK, T!CloseFd, T!At
  <2> QED BY <2>1, Zenon DEF TableInv, T!TypeOK, T!CloseFd, T!table
<1>5. Placed'
  <2>1. ASSUME NEW f \in Fds, NEW s, Entered(f, s), f # fd PROVE Entered(f, s)'
    BY <2>1, Zenon DEF Entered, T!CloseFd, T!table
  <2>2. \A h \in handed : h.fd \in Fds /\ h.fd # fd
    BY <1>1, Zenon DEF TableInv, T!TypeOK
  <2>3. connsOf' = connsOf /\ handed' = handed
    BY Zenon DEF T!CloseFd, T!table
  <2> QED BY <1>1, <2>1, <2>2, <2>3, Zenon DEF TableInv, Placed
<1>6. OneOwner'
  BY Zenon DEF TableInv, OneOwner, T!CloseFd, T!table
<1>7. OneSocket'
  BY Zenon DEF TableInv, OneSocket, T!CloseFd, T!table
<1>8. Wrapping'
  BY <1>1, Zenon DEF TableInv, Wrapping, T!CloseFd, T!table
<1>9. TableClosing'
  BY <1>1, <1>2, <1>3 DEF TableInv, TableClosing, T!CloseFd, T!table
<1>10. Callback'
  BY <1>1, <1>2, <1>3 DEF TableInv, Callback, T!CloseFd
<1> QED BY <1>4, <1>5, <1>6, <1>7, <1>8, <1>9, <1>10, Zenon DEF TableInv

-----------------------------------------------------------------------------
\* Every step keeps the invariant.
LEMMA TableNext == ASSUME T!SocketTableConstants PROVE TableInv /\ [T!Next]_T!vars => TableInv'
<1> SUFFICES ASSUME TableInv, [T!Next]_T!vars PROVE TableInv'
  OBVIOUS
<1>1. CASE \E fd \in Fds : T!GenericAccept(fd)
  BY <1>1, GenericAcceptInv, Zenon
<1>2. CASE T!MakeRoom
  BY <1>2, MakeRoomInv
<1>3. CASE \E w \in Workers : T!WrapSocket(w)
  BY <1>3, WrapSocketInv, Zenon
<1>4. CASE \E w \in Workers : T!CreateConnection(w)
  BY <1>4, CreateConnectionInv, Zenon
<1>5. CASE \E w \in Workers : T!Worker(w)
  BY <1>5, InCallbackInv, RemoveConnInv, CloseFdInv, Zenon DEF T!Worker
<1>6. CASE \E w \in Workers, fd \in Fds, place \in {"read", "write"} : T!ConnIoCb(w, fd, place)
  BY <1>6, ConnIoCbInv, Zenon
<1>7. CASE UNCHANGED T!vars
  <2>1. T!TypeOK'
    BY <1>7, Zenon DEF TableInv, T!TypeOK, T!vars, T!table
  <2>2. TableClosing' /\ Callback'
    <3>1. TableClosing /\ UNCHANGED <<openFds, wrapping, handed, connsOf, cb>>
      BY <1>7, Zenon DEF TableInv, T!vars, T!table
    <3>2. TableClosing'
      BY <3>1, Zenon DEF TableClosing
    <3> QED BY <3>1, <3>2, Zenon DEF TableInv, Callback
  <2>3. Placed' /\ OneOwner' /\ OneSocket' /\ Wrapping'
    BY <1>7, TablesUnchanged, Zenon DEF T!vars
  <2> QED BY <2>1, <2>2, <2>3 DEF TableInv
<1> QED BY <1>1, <1>2, <1>3, <1>4, <1>5, <1>6, <1>7, Zenon DEF T!Next

\* The invariant holds in every state of NetworkManager and the workers.
THEOREM TableInvariance == ASSUME T!SocketTableConstants PROVE T!Spec => []TableInv
  BY TableInit, TableNext, PTL DEF T!Spec

\* TypeOK of SocketTable.
THEOREM TableTypes == ASSUME T!SocketTableConstants PROVE T!Spec => []T!TypeOK
<1>1. TableInv => T!TypeOK
  BY DEF TableInv
<1> QED BY <1>1, TableInvariance, PTL

\* The entry of a connection's descriptor (network_manager.cpp:105) is inside the
\* table and the connection's own.
THEOREM Safety_EntryIsOwn == ASSUME T!SocketTableConstants PROVE T!Spec => []T!EntryIsOwn
<1>1. TableInv => T!EntryIsOwn
  BY ZenonT(60) DEF TableInv, Placed, Entered, OneOwner, SoleOwner, T!EntryIsOwn
<1> QED BY <1>1, TableInvariance, PTL

\* write_io() (worker.cpp:241) writes only to the connection the callback is for,
\* although the descriptor may have been closed and given away in between.
THEOREM Safety_WritesOwnConn == ASSUME T!SocketTableConstants PROVE T!Spec => []T!WritesOwnConn
<1>1. TableInv => T!WritesOwnConn
  BY Zenon DEF TableInv, Placed, Entered, Callback, T!WritesOwnConn
<1> QED BY <1>1, TableInvariance, PTL
==============================================================================
