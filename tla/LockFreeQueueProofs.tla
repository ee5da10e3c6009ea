------------------------- MODULE LockFreeQueueProofs -------------------------
(***************************************************************************)
(* LockFreeQueue is memory safe, leaks nothing and is first-in first-out,  *)
(* for every set of addresses and values and any number of calls.          *)
(*                                                                         *)
(* The last part is about Gsdm, with its own variables, whose channels are *)
(* such queues: commands between workers are processed once and in order,  *)
(* and each is announced once, for any workers, types and capacities.      *)
(***************************************************************************)
EXTENDS LockFreeQueue, FiniteSetTheorems, TLAPS

CONSTANTS Workers, Types, Main, SockCap, MaxCmds
VARIABLES channels, queue, sock, pc, via, started, sentOn, handled, count

G == INSTANCE Gsdm WITH sent <- sentOn

\* The part of the history that is still in memory.
InList == freed + 1 .. Len(order)

Destroying == ppc \in {"destroy", "destroyed"}

\* fresh is a node only the producer knows.
Private == ppc \in {"link", "publish"}

(* The list, seen through the history of its nodes: first, divider and     *)
(* last stand at the positions that the number of deleted, consumed and    *)
(* published elements give.                                                *)
Positions ==
    /\ Len(order) = Len(sent) + 1
    /\ Len(got) <= Len(sent)
    /\ freed <= Len(order)
    /\ ~Destroying => freed <= Len(got)
    /\ first = IF freed < Len(order) THEN order[freed + 1] ELSE NULL
    /\ divider = order[Len(got) + 1]
    /\ last = order[Len(order)]

\* The nodes from first on are pairwise distinct, linked in order, and hold
\* what was published.
Linked ==
    /\ \A i, j \in InList : order[i] = order[j] => i = j
    /\ \A i \in InList : i < Len(order) => next[order[i]] = order[i + 1]
    /\ \A i \in InList : i < Len(order) => value[order[i + 1]] = sent[i]
    /\ next[last] = IF ppc = "publish" THEN fresh ELSE NULL

\* Exactly the nodes of the list are allocated, and the private one.
Heap ==
    /\ \A i \in InList : order[i] \in live
    /\ \A a \in live : (\E i \in InList : order[i] = a) \/ (Private /\ a = fresh)
    /\ Private =>
          /\ fresh \in live /\ value[fresh] = arg /\ arg \in Values
          /\ next[fresh] = NULL
          /\ \A i \in InList : order[i] # fresh

\* What each thread knows where it is.
Control ==
    /\ ppc = "reclaim" => freed < Len(got)
    /\ cpc \in {"read", "advance"} => Len(got) < Len(sent)
    /\ cpc = "advance" => result = sent[Len(got) + 1]
    /\ cpc = "stopped" <=> Destroying
    /\ ppc = "destroyed" => freed = Len(order)

SameOrder == \A i \in 1 .. Len(got) : got[i] = sent[i]

IInv == TypeOK /\ Positions /\ Linked /\ Heap /\ Control /\ SameOrder

\* What the operators on sequences do.
LEMMA LenFacts ==
    ASSUME NEW S, NEW q \in Seq(S)
    PROVE  /\ Len(q) \in Nat /\ q \in [1 .. Len(q) -> S] /\ DOMAIN q = 1 .. Len(q)
           /\ Len(q) = 0 <=> q = <<>>
           /\ \A i \in 1 .. Len(q) : q[i] \in S
  OBVIOUS
LEMMA EmptyFacts ==
    ASSUME NEW S
    PROVE  <<>> \in Seq(S) /\ Len(<<>>) = 0 /\ \A q \in Seq(S) : q = <<>> <=> Len(q) = 0
  OBVIOUS
LEMMA AppendFacts ==
    ASSUME NEW S, NEW q \in Seq(S), NEW x \in S
    PROVE  /\ Append(q, x) \in Seq(S) /\ Append(q, x) # <<>>
           /\ Len(Append(q, x)) = Len(q) + 1
           /\ \A i \in 1 .. Len(q) : Append(q, x)[i] = q[i]
           /\ Append(q, x)[Len(q) + 1] = x
  OBVIOUS
LEMMA TailFacts ==
    ASSUME NEW S, NEW q \in Seq(S), q # <<>>
    PROVE  /\ Head(q) \in S /\ Tail(q) \in Seq(S)
           /\ Len(q) \in Nat \ {0} /\ Len(Tail(q)) = Len(q) - 1
           /\ Head(q) = q[1]
           /\ \A i \in 1 .. Len(Tail(q)) : Tail(q)[i] = q[i + 1]
  OBVIOUS
LEMMA ConcatFacts ==
    ASSUME NEW S, NEW q \in Seq(S), NEW r \in Seq(S)
    PROVE  /\ q \o r \in Seq(S) /\ Len(q \o r) = Len(q) + Len(r)
           /\ \A i \in 1 .. Len(q) + Len(r) :
                 (q \o r)[i] = IF i <= Len(q) THEN q[i] ELSE r[i - Len(q)]
  OBVIOUS
LEMMA ConcatEmpty == ASSUME NEW S, NEW q \in Seq(S) PROVE q \o <<>> = q /\ <<>> \o q = q
  OBVIOUS
LEMMA SameSeq ==
    ASSUME NEW S, NEW q \in Seq(S), NEW r \in Seq(S),
           Len(q) = Len(r), \A i \in 1 .. Len(q) : q[i] = r[i]
    PROVE  q = r
  OBVIOUS

USE QueueConstants

\* The invariant holds initially.
LEMMA InitIInv == Init => IInv
<1> SUFFICES ASSUME Init PROVE IInv
  OBVIOUS
<1> USE DEF Init
<1>1. TypeOK
  BY DEF TypeOK
<1>2. Positions /\ Linked
  BY DEF Positions, Linked, InList, Destroying
<1>3. Heap
  BY DEF Heap, InList, Private
<1>4. Control /\ SameOrder
  BY DEF Control, SameOrder, Destroying
<1> QED
  BY <1>1, <1>2, <1>3, <1>4 DEF IInv

\* new Node: an address that is not in the list.
LEMMA NewStep ==
    ASSUME IInv, NEW t \in Values, NEW a \in Addr, ProduceNew(t, a)
    PROVE  IInv'
<1> USE DEF IInv, ProduceNew, pointers, consumer, history
<1>1. TypeOK'
  BY DEF TypeOK
<1>2. \A i \in InList : order[i] \in Addr /\ order[i] # a
  BY DEF TypeOK, InList, Heap
<1>3. Positions' /\ Linked'
  BY <1>2 DEF TypeOK, Positions, Linked, InList, Destroying
<1>4. Heap'
  BY <1>2 DEF TypeOK, Heap, InList, Private
<1>5. Control' /\ SameOrder'
  BY DEF Control, SameOrder, Destroying
<1> QED
  BY <1>1, <1>3, <1>4, <1>5

\* The new node is linked behind the last one.
LEMMA LinkStep == ASSUME IInv, ProduceLink PROVE IInv'
<1> USE DEF IInv, ProduceLink, pointers, consumer, history
<1>1. TypeOK'
  BY DEF TypeOK
<1>2. last \in Addr /\ fresh \in Addr /\ fresh # last /\ ~Destroying
  BY DEF TypeOK, Heap, Positions, Linked, InList, Private, Destroying
<1>3. Positions' /\ Linked'
  BY <1>2 DEF TypeOK, Positions, Linked, InList, Destroying
<1>4. Heap'
  BY <1>2 DEF TypeOK, Heap, InList, Private
<1>5. Control' /\ SameOrder'
  BY DEF Control, SameOrder, Destroying
<1> QED
  BY <1>1, <1>3, <1>4, <1>5

\* last moves on: the list is longer by one.
LEMMA PublishStep == ASSUME IInv, ProducePublish PROVE IInv'
<1> USE DEF IInv
<1>1. next[last] = fresh /\ fresh \in Addr /\ arg \in Values /\ Private
  BY DEF ProducePublish, TypeOK, Linked, Heap, Private
<1>2. /\ ppc' = "scan" /\ last' = fresh
      /\ UNCHANGED <<first, divider, value, next, live, arg, fresh, got, freed>>
      /\ UNCHANGED <<cpc, result, ret>>
  BY <1>1 DEF ProducePublish, consumer
<1>3. /\ order' \in Seq(Addr)
      /\ Len(order') = Len(order) + 1 /\ order'[Len(order) + 1] = fresh
      /\ \A i \in 1 .. Len(order) : order'[i] = order[i]
  BY <1>1 DEF ProducePublish, TypeOK
<1>4. /\ sent' \in Seq(Values)
      /\ Len(sent') = Len(sent) + 1 /\ sent'[Len(sent) + 1] = arg
      /\ \A i \in 1 .. Len(sent) : sent'[i] = sent[i]
  BY <1>1 DEF ProducePublish, TypeOK
<1>5. TypeOK'
  BY <1>1, <1>2, <1>3, <1>4 DEF TypeOK
<1>6. /\ freed \in Nat /\ Len(order) \in Nat /\ Len(got) \in Nat
      /\ freed <= Len(got) /\ Len(got) < Len(order)
  BY <1>1 DEF TypeOK, Positions, Destroying, Private
<1>7. Positions'
  BY <1>1, <1>2, <1>3, <1>4, <1>6 DEF Positions, Destroying, Private
<1>8. InList' = InList \cup {Len(order) + 1}
  BY <1>2, <1>3, <1>6 DEF InList
<1>9. \A i \in InList : order'[i] = order[i] /\ order[i] # fresh
  BY <1>1, <1>3, <1>6 DEF InList, Heap
<1>10. Linked'
  <2>1. \A i, j \in InList' : order'[i] = order'[j] => i = j
    BY <1>3, <1>8, <1>9 DEF Linked
  <2>2. ASSUME NEW i \in InList', i < Len(order')
        PROVE  next'[order'[i]] = order'[i + 1] /\ value'[order'[i + 1]] = sent'[i]
    <3>1. CASE i < Len(order)
      <4>1. /\ i \in InList /\ i \in 1 .. Len(order) /\ i + 1 \in 1 .. Len(order)
            /\ i \in 1 .. Len(sent)
        BY <1>2, <1>3, <1>6, <2>2, <3>1 DEF Positions, InList
      <4>2. order'[i] = order[i] /\ order'[i + 1] = order[i + 1] /\ sent'[i] = sent[i]
        BY <1>3, <1>4, <4>1
      <4> QED
        BY <1>2, <3>1, <4>1, <4>2 DEF Linked
    <3>2. CASE i = Len(order)
      <4>1. order'[i] = last /\ order'[i + 1] = fresh /\ sent'[i] = arg
        BY <1>3, <1>4, <1>6, <3>2 DEF Positions
      <4> QED
        BY <1>1, <1>2, <4>1 DEF Heap
    <3> QED
      BY <1>3, <1>6, <2>2, <3>1, <3>2 DEF InList
  <2>3. next'[last'] = NULL
    BY <1>1, <1>2 DEF Heap
  <2> QED
    BY <1>2, <2>1, <2>2, <2>3 DEF Linked
<1>11. Heap'
  BY <1>1, <1>2, <1>3, <1>8, <1>9 DEF Heap, Private
<1>12. Control' /\ SameOrder'
  BY <1>1, <1>2, <1>3, <1>4, <1>6 DEF TypeOK, Positions, Control, SameOrder, Destroying, Private
<1> QED
  BY <1>5, <1>7, <1>10, <1>11, <1>12

\* The producer compares first with divider.
LEMMA ScanStep == ASSUME IInv, ProduceScan PROVE IInv'
<1> USE DEF IInv, ProduceScan, pointers, consumer, history
<1>1. TypeOK'
  BY DEF TypeOK
<1>2. Positions' /\ Linked' /\ Heap'
  BY DEF Positions, Linked, Heap, InList, Destroying, Private
<1>3. Control' /\ SameOrder'
  BY DEF TypeOK, Positions, Linked, Control, SameOrder, Destroying
<1> QED
  BY <1>1, <1>2, <1>3

\* What deleting the first node does to the list, for produce() and for the
\* destructor alike.
LEMMA DropStep ==
    ASSUME IInv, DropFirst, first # NULL,
           ppc' \in {"scan", "destroy"}, ppc' = "destroy" <=> ppc = "destroy",
           ppc \in {"reclaim", "destroy"},
           UNCHANGED <<divider, last, value, next, arg, fresh, consumer,
                       order, sent, got>>
    PROVE  IInv'
<1> USE DEF IInv, DropFirst, consumer
<1>1. freed < Len(order) /\ first = order[freed + 1] /\ freed + 1 \in InList
  BY DEF TypeOK, Positions, Linked, InList
<1>2. InList' = InList \ {freed + 1}
  BY <1>1 DEF TypeOK, InList
<1>3. \A i \in InList' : i \in InList /\ order[i] # first
  BY <1>1, <1>2 DEF Positions, Linked
<1>4. TypeOK'
  BY <1>1 DEF TypeOK
<1>5. Positions'
  <2>1. next[first] = IF freed + 1 < Len(order) THEN order[freed + 2] ELSE NULL
    BY <1>1 DEF TypeOK, Positions, Linked
  <2> QED
    BY <1>1, <2>1 DEF TypeOK, Positions, Control, Destroying
<1>6. Linked'
  BY <1>3 DEF Linked
<1>7. Heap'
  BY <1>1, <1>2, <1>3 DEF TypeOK, Heap, Private
<1>8. Control' /\ SameOrder'
  BY DEF Control, SameOrder, Destroying
<1> QED
  BY <1>4, <1>5, <1>6, <1>7, <1>8

\* A node in front of divider is freed.
LEMMA ReclaimStep == ASSUME IInv, ProduceReclaim PROVE IInv'
<1>1. first # NULL
  BY DEF IInv, TypeOK, Positions, Linked, Control, Destroying, ProduceReclaim
<1> QED
  BY <1>1, DropStep DEF ProduceReclaim

\* The consumer compares divider with last.
LEMMA CheckStep == ASSUME IInv, ConsumeCheck PROVE IInv'
<1> USE DEF IInv, ConsumeCheck, pointers, producer, history
<1>1. TypeOK'
  BY DEF TypeOK
<1>2. Positions' /\ Linked' /\ Heap'
  BY Zenon DEF Positions, Linked, Heap, InList, Destroying, Private
<1>3. Control' /\ SameOrder'
  BY DEF TypeOK, Positions, Linked, Control, SameOrder, Destroying
<1> QED
  BY <1>1, <1>2, <1>3

\* Inside consume() the node after the dummy one is in the list and holds
\* the oldest element.
LEMMA NextElement ==
    ASSUME IInv, cpc \in {"read", "advance"}
    PROVE  /\ divider \in live /\ next[divider] = order[Len(got) + 2]
           /\ next[divider] \in live
           /\ value[next[divider]] = sent[Len(got) + 1]
<1> USE DEF IInv
<1>1. Len(got) < Len(sent) /\ ~Destroying
  BY DEF Control
<1>2. Len(got) + 1 \in InList /\ Len(got) + 2 \in InList /\ Len(got) + 1 < Len(order)
  BY <1>1 DEF TypeOK, Positions, InList
<1>3. divider = order[Len(got) + 1] /\ Len(got) \in Nat
  BY DEF TypeOK, Positions
<1>4. /\ next[order[Len(got) + 1]] = order[(Len(got) + 1) + 1]
      /\ value[order[(Len(got) + 1) + 1]] = sent[Len(got) + 1]
  BY <1>2 DEF Linked
<1>5. (Len(got) + 1) + 1 = Len(got) + 2
  BY <1>3
<1> QED
  BY <1>2, <1>3, <1>4, <1>5 DEF Heap

\* The consumer reads the node behind divider, which is in the list.
LEMMA ReadStep == ASSUME IInv, ConsumeRead PROVE IInv'
<1> USE DEF IInv, ConsumeRead, pointers, producer, history
<1>1. next[divider] \in Addr /\ result' = sent[Len(got) + 1]
  BY NextElement DEF TypeOK
<1>2. TypeOK'
  BY <1>1, Zenon DEF TypeOK
<1>3. Positions' /\ Linked' /\ Heap'
  BY DEF Positions, Linked, Heap, InList, Destroying, Private
<1>4. Control' /\ SameOrder'
  BY <1>1 DEF Control, SameOrder, Destroying
<1> QED
  BY <1>2, <1>3, <1>4

\* divider moves on.
LEMMA AdvanceStep == ASSUME IInv, ConsumeAdvance PROVE IInv'
<1> USE DEF IInv
<1>1. /\ Len(got) < Len(sent) /\ result = sent[Len(got) + 1]
      /\ divider' = order[Len(got) + 2] /\ divider' \in Addr
  BY NextElement DEF ConsumeAdvance, TypeOK, Control
<1>2. /\ cpc' = "idle"
      /\ UNCHANGED <<first, last, value, next, live, ppc, arg, fresh, result,
                     order, sent, freed>>
  BY DEF ConsumeAdvance, producer
<1>3. /\ Len(got) \in Nat /\ Len(got') = Len(got) + 1
      /\ got'[Len(got) + 1] = result
      /\ \A i \in 1 .. Len(got) : got'[i] = got[i]
  BY DEF ConsumeAdvance, TypeOK
<1>4. TypeOK'
  BY <1>1, <1>2 DEF ConsumeAdvance, TypeOK
<1>5. Positions'
  <2>1. divider' = order'[Len(got') + 1]
    BY <1>1, <1>2, <1>3
  <2>2. Len(got') <= Len(sent') /\ (~Destroying' => freed' <= Len(got'))
    BY <1>1, <1>2, <1>3 DEF TypeOK, Positions, Destroying
  <2> QED
    BY <1>2, <2>1, <2>2 DEF Positions
<1>6. Linked' /\ Heap'
  BY <1>2 DEF Linked, Heap, InList, Private
<1>7. Control' /\ SameOrder'
  <2>1. freed < Len(got) => freed < Len(got')
    BY <1>3 DEF TypeOK
  <2> QED
    BY <1>1, <1>2, <1>3, <2>1 DEF TypeOK, ConsumeAdvance, Control, SameOrder, Destroying
<1> QED
  BY <1>4, <1>5, <1>6, <1>7

\* The destructor begins.
LEMMA DestroyBeginStep == ASSUME IInv, DestroyBegin PROVE IInv'
<1> USE DEF IInv, DestroyBegin, pointers, history
<1>1. TypeOK'
  BY DEF TypeOK
<1>2. Positions' /\ Linked' /\ Heap'
  BY DEF Positions, Linked, Heap, InList, Destroying, Private
<1>3. Control' /\ SameOrder'
  BY DEF Control, SameOrder, Destroying
<1> QED
  BY <1>1, <1>2, <1>3

\* The destructor frees a node.
LEMMA DestroyNodeStep == ASSUME IInv, DestroyStep PROVE IInv'
<1>1. CASE first # NULL
  BY <1>1, DropStep DEF DestroyStep
<1>2. CASE first = NULL
  <2> USE <1>2 DEF IInv, DestroyStep, consumer
  <2>1. freed = Len(order)
    BY DEF TypeOK, Positions, Linked
  <2>2. TypeOK'
    BY DEF TypeOK
  <2>3. Positions' /\ Linked' /\ Heap'
    BY Zenon DEF Positions, Linked, Heap, InList, Destroying, Private
  <2>4. Control' /\ SameOrder'
    BY <2>1 DEF Control, SameOrder, Destroying
  <2> QED
    BY <2>2, <2>3, <2>4
<1> QED
  BY <1>1, <1>2

\* Every step keeps the invariant.
LEMMA StepIInv == IInv /\ [Next]_vars => IInv'
<1> SUFFICES ASSUME IInv, [Next]_vars PROVE IInv'
  OBVIOUS
<1>1. CASE Producer
  BY <1>1, NewStep, LinkStep, PublishStep, ScanStep, ReclaimStep DEF Producer
<1>2. CASE Consumer
  BY <1>2, CheckStep, ReadStep, AdvanceStep DEF Consumer
<1>3. CASE DestroyBegin \/ DestroyStep
  BY <1>3, DestroyBeginStep, DestroyNodeStep
<1>4. CASE UNCHANGED vars
  BY <1>4, SMTT(30) DEF vars, pointers, producer, consumer, history, IInv, TypeOK, Positions, Linked,
              Heap, Control, SameOrder, InList, Destroying, Private
<1> QED
  BY <1>1, <1>2, <1>3, <1>4 DEF Next

\* The inductive invariant holds always.
THEOREM Invariance == Spec => []IInv
<1> QED
  BY InitIInv, StepIInv, PTL DEF Spec

(* Memory safety of queue.h: neither thread, nor the destructor, follows a *)
(* pointer to a deleted node, however the two threads interleave.          *)
THEOREM Safety_NoUseAfterFree == Spec => []NoUseAfterFree
<1>1. IInv => NoUseAfterFree
  <2> SUFFICES ASSUME IInv PROVE NoUseAfterFree
    OBVIOUS
  <2>1. cpc \in {"read", "advance"} => divider \in live /\ next[divider] \in live
    BY NextElement
  <2>2. ppc \in {"link", "publish"} => last \in live /\ fresh \in live
    BY DEF IInv, TypeOK, Positions, Linked, Heap, InList, Private, Destroying
  <2>3. first # NULL => first \in live
    BY DEF IInv, TypeOK, Positions, Linked, Heap, InList
  <2>4. ppc = "reclaim" => first # NULL
    BY DEF IInv, TypeOK, Positions, Linked, Control, Destroying
  <2> QED
    BY <2>1, <2>2, <2>3, <2>4 DEF NoUseAfterFree
<1> QED
  BY <1>1, Invariance, PTL

(* What consume() returns is what produce() was given, in the same order.  *)
THEOREM Safety_Fifo == Spec => []Fifo
<1>1. IInv => Fifo
  <2> SUFFICES ASSUME IInv PROVE Fifo
    OBVIOUS
  <2> DEFINE S == Values \cup {Default}
             pre == SubSeq(sent, 1, Len(got))
  <2>1. /\ got \in Seq(S) /\ Len(got) \in Nat /\ Len(got) <= Len(sent)
        /\ \A i \in 1 .. Len(got) : sent[i] \in S
    BY DEF IInv, TypeOK, Positions, Linked
  <2>2. /\ pre \in Seq(S) /\ Len(pre) = Len(got)
        /\ \A i \in 1 .. Len(got) : pre[i] = sent[i]
    BY <2>1
  <2>3. got = pre
    BY <2>1, <2>2, SameSeq DEF IInv, SameOrder
  <2> QED
    BY <2>1, <2>3 DEF Fifo
<1> QED
  BY <1>1, Invariance, PTL

(* The destructor deletes every node that was ever allocated, each once.   *)
THEOREM Safety_NothingLeaks == Spec => []NothingLeaks
<1>1. IInv => NothingLeaks
  BY DEF IInv, TypeOK, Positions, Linked, Heap, Control, InList, Private, NothingLeaks
<1> QED
  BY <1>1, Invariance, PTL

(* The type invariant.                                                     *)
THEOREM Safety_TypeOK == Spec => []TypeOK
<1>1. IInv => TypeOK
  BY DEF IInv
<1> QED
  BY <1>1, Invariance, PTL

------------------------------------------------------------------------------
(* The linked list implements the atomic queue.                            *)

\* The abstract content is what was published and not yet consumed.
ContentIsSent ==
    /\ Elements \in Seq(Values)
    /\ Len(Elements) = Len(sent) - Len(got)
    /\ \A i \in 1 .. Len(sent) - Len(got) : Elements[i] = sent[Len(got) + i]

\* ... as long as the queue is in use.
LEMMA ElementsAreSent == IInv /\ ~Destroying => ContentIsSent
<1> SUFFICES ASSUME IInv, ~Destroying PROVE ContentIsSent
  OBVIOUS
<1> USE DEF IInv
<1> DEFINE n == Len(order) - Len(got) - 1
           e(i) == value[order[Len(got) + 1 + i]]
<1>1. n \in Nat /\ n = Len(sent) - Len(got) /\ Len(got) \in Nat /\ Len(sent) \in Nat
  BY DEF TypeOK, Positions
<1>2. ASSUME NEW i \in 1 .. n
      PROVE  e(i) = sent[Len(got) + i] /\ e(i) \in Values
  <2>1. /\ Len(got) + i \in InList /\ Len(got) + i < Len(order)
        /\ Len(got) + i \in 1 .. Len(sent)
        /\ (Len(got) + i) + 1 = Len(got) + 1 + i
    BY <1>1 DEF TypeOK, Positions, InList
  <2>2. value[order[(Len(got) + i) + 1]] = sent[Len(got) + i]
    BY <2>1, Zenon DEF Linked
  <2>3. sent[Len(got) + i] \in Values
    BY <2>1 DEF TypeOK
  <2> QED
    BY <2>1, <2>2, <2>3, Zenon
<1>3. Elements = [i \in 1 .. n |-> e(i)]
  BY Zenon DEF Elements
<1> HIDE DEF n, e
<1>4. Elements \in Seq(Values)
  BY <1>1, <1>2, <1>3
<1>5. Len(Elements) = n
  BY <1>1, <1>3
<1> QED
  BY <1>1, <1>2, <1>3, <1>4, <1>5 DEF ContentIsSent

\* The abstract queue depends on nothing else.
LEMMA SameElements ==
    ASSUME UNCHANGED <<value, order, got>>
    PROVE  Elements' = Elements
  BY DEF Elements

\* A new node is not in the abstract queue.
LEMMA NewRefines ==
    ASSUME IInv, NEW t \in Values, NEW a \in Addr, ProduceNew(t, a)
    PROVE  UNCHANGED <<Elements, ret>>
<1>1. ASSUME NEW i \in 1 .. Len(order) - Len(got) - 1
      PROVE  value'[order[Len(got) + 1 + i]] = value[order[Len(got) + 1 + i]]
  <2>1. Len(got) + 1 + i \in InList
    BY DEF IInv, TypeOK, Positions, InList, Destroying, ProduceNew
  <2>2. order[Len(got) + 1 + i] \in live
    BY <2>1 DEF IInv, Heap
  <2> QED
    BY <2>2 DEF ProduceNew, IInv, TypeOK
<1>2. UNCHANGED <<order, got, ret>>
  BY DEF ProduceNew, history, consumer
<1> QED
  BY <1>1, <1>2, Zenon DEF Elements

\* Moving last is the abstract produce.
LEMMA PublishRefines ==
    ASSUME IInv, ProducePublish
    PROVE  Queue!Produce(arg) /\ arg \in Values
<1>1. IInv' /\ arg \in Values /\ ~Destroying /\ ~Destroying'
  BY PublishStep, Zenon DEF IInv, Heap, Private, Destroying, ProducePublish
<1>2. /\ got' = got /\ ret' = ret
      /\ Len(sent') = Len(sent) + 1 /\ sent'[Len(sent) + 1] = arg
      /\ \A i \in 1 .. Len(sent) : sent'[i] = sent[i]
      /\ Len(sent) \in Nat /\ Len(got) \in Nat /\ Len(got) <= Len(sent)
  BY DEF IInv, TypeOK, Positions, ProducePublish, consumer
<1>3. ContentIsSent
  BY <1>1, ElementsAreSent
<1>4. ContentIsSent'
  <2>1. (IInv /\ ~Destroying => ContentIsSent)'
    BY ElementsAreSent, PTL
  <2> QED
    BY <1>1, <2>1
<1>5. Elements' = Append(Elements, arg)
  <2> DEFINE A == Append(Elements, arg)
  <2>1. /\ A \in Seq(Values) /\ Len(A) = Len(Elements) + 1
        /\ \A i \in 1 .. Len(Elements) : A[i] = Elements[i]
        /\ A[Len(Elements) + 1] = arg
    BY <1>1, <1>3, AppendFacts DEF ContentIsSent
  <2> HIDE DEF A
  <2>2. /\ Elements' \in Seq(Values) /\ Len(Elements') = Len(Elements) + 1
        /\ Len(Elements) = Len(sent) - Len(got)
    BY <1>2, <1>3, <1>4 DEF ContentIsSent
  <2>3. ASSUME NEW i \in 1 .. Len(Elements)
        PROVE  A[i] = Elements'[i]
    <3>1. /\ i \in 1 .. Len(sent) - Len(got) /\ i \in 1 .. Len(sent') - Len(got')
          /\ Len(got) + i \in 1 .. Len(sent) /\ Len(got') + i = Len(got) + i
      BY <1>2, <2>2
    <3> QED
      BY <1>2, <1>3, <1>4, <2>1, <3>1, Zenon DEF ContentIsSent
  <2>4. Elements'[Len(Elements) + 1] = arg
    <3>1. /\ Len(Elements) + 1 \in 1 .. Len(sent') - Len(got')
          /\ Len(got') + (Len(Elements) + 1) = Len(sent) + 1
      BY <1>2, <2>2
    <3> QED
      BY <1>2, <1>4, <3>1 DEF ContentIsSent
  <2>5. \A i \in 1 .. Len(A) : A[i] = Elements'[i]
    BY <1>2, <2>1, <2>2, <2>3, <2>4
  <2> QED
    BY <2>1, <2>2, <2>5, SameSeq, Zenon DEF A
<1> QED
  BY <1>1, <1>2, <1>5 DEF Queue!Produce

\* Finding divider = last is the abstract consume of an empty queue.
LEMMA CheckRefines ==
    ASSUME IInv, ConsumeCheck
    PROVE  UNCHANGED <<Elements, ret>> \/ Queue!ConsumeNothing
<1>1. UNCHANGED Elements
  BY SameElements DEF ConsumeCheck, history
<1>2. CASE divider # last
  BY <1>1, <1>2 DEF ConsumeCheck
<1>3. CASE divider = last
  <2>1. ~Destroying /\ ret' = EMPTY
    BY <1>3 DEF ConsumeCheck, IInv, Control
  <2>2. /\ Len(got) + 1 \in InList /\ Len(order) \in InList
        /\ order[Len(got) + 1] = order[Len(order)]
    BY <1>3, <2>1 DEF IInv, TypeOK, Positions, InList
  <2>3. Len(got) = Len(sent)
    BY <2>2, SMTT(30) DEF IInv, TypeOK, Positions, Linked
  <2>4. Elements = <<>>
    BY <2>1, <2>3, ElementsAreSent DEF IInv, TypeOK, ContentIsSent
  <2> QED
    BY <1>1, <2>1, <2>4 DEF Queue!ConsumeNothing
<1> QED
  BY <1>2, <1>3

\* Moving divider is the abstract consume.
LEMMA AdvanceRefines == ASSUME IInv, ConsumeAdvance PROVE Queue!Consume
<1>1. IInv' /\ ~Destroying /\ ~Destroying'
  BY AdvanceStep, Zenon DEF IInv, Control, Destroying, ConsumeAdvance, producer
<1>2. /\ sent' = sent /\ ret' = result /\ Len(got') = Len(got) + 1
      /\ Len(sent) \in Nat /\ Len(got) \in Nat
      /\ Len(got) < Len(sent) /\ result = sent[Len(got) + 1]
  BY DEF IInv, TypeOK, Control, ConsumeAdvance
<1>3. ContentIsSent
  BY <1>1, ElementsAreSent
<1>4. ContentIsSent'
  <2>1. (IInv /\ ~Destroying => ContentIsSent)'
    BY ElementsAreSent, PTL
  <2> QED
    BY <1>1, <2>1
<1>5. Elements # <<>> /\ Head(Elements) = result
  BY <1>2, <1>3 DEF ContentIsSent
<1>6. Elements' = Tail(Elements)
  <2>1. /\ Tail(Elements) \in Seq(Values) /\ Elements' \in Seq(Values)
        /\ Len(Tail(Elements)) = Len(Elements) - 1
        /\ \A i \in 1 .. Len(Tail(Elements)) : Tail(Elements)[i] = Elements[i + 1]
    BY <1>3, <1>4, <1>5, TailFacts DEF ContentIsSent
  <2>2. Len(Elements') = Len(Tail(Elements))
    BY <1>2, <1>3, <1>4, <2>1 DEF ContentIsSent
  <2>3. ASSUME NEW i \in 1 .. Len(Elements')
        PROVE  Elements'[i] = Tail(Elements)[i]
    <3>1. /\ i \in 1 .. Len(sent') - Len(got') /\ i + 1 \in 1 .. Len(sent) - Len(got)
          /\ Len(got') + i = Len(got) + (i + 1)
      BY <1>2, <1>4 DEF ContentIsSent
    <3>2. Elements'[i] = sent'[Len(got') + i]
      BY <1>4, <3>1 DEF ContentIsSent
    <3>3. Elements[i + 1] = sent[Len(got) + (i + 1)]
      BY <1>3, <3>1, Zenon DEF ContentIsSent
    <3>4. Tail(Elements)[i] = Elements[i + 1]
      BY <2>1, <2>2
    <3> QED
      BY <1>2, <3>1, <3>2, <3>3, <3>4, Zenon
  <2> QED
    BY <2>1, <2>2, <2>3, SameSeq
<1> QED
  BY <1>2, <1>5, <1>6 DEF Queue!Consume

\* Every step is a step of the abstract queue, or none.
LEMMA StepRefines ==
    IInv /\ [Next]_vars => [Queue!Next]_<<Elements, ret>>
<1> SUFFICES ASSUME IInv, [Next]_vars PROVE [Queue!Next]_<<Elements, ret>>
  OBVIOUS
<1>1. ASSUME NEW t \in Values, NEW a \in Addr, ProduceNew(t, a)
      PROVE  [Queue!Next]_<<Elements, ret>>
  BY <1>1, NewRefines
<1>2. CASE ProducePublish
  BY <1>2, PublishRefines DEF Queue!Next
<1>3. CASE ConsumeCheck
  BY <1>3, CheckRefines DEF Queue!Next
<1>4. CASE ConsumeAdvance
  BY <1>4, AdvanceRefines DEF Queue!Next
<1>5. CASE ProduceLink \/ ProduceScan \/ ProduceReclaim \/ ConsumeRead
           \/ DestroyBegin \/ DestroyStep \/ UNCHANGED vars
  <2>1. UNCHANGED <<value, order, got, ret>>
    BY <1>5, Zenon DEF ProduceLink, ProduceScan, ProduceReclaim, ConsumeRead,
                DestroyBegin, DestroyStep, vars, consumer, history
  <2> QED
    BY <2>1, SameElements
<1> QED
  BY <1>1, <1>2, <1>3, <1>4, <1>5 DEF Next, Producer, Consumer

(* Every behaviour of the linked list is a behaviour of the atomic FIFO    *)
(* queue that the dispatcher and the workers rely on.                      *)
THEOREM Refinement == Spec => ImplementsFifo
<1>1. Init => Queue!Init
  BY DEF Init, Queue!Init, Elements
<1> QED
  BY <1>1, StepRefines, Invariance, PTL
     DEF Spec, ImplementsFifo, Queue!Spec, Queue!vars

------------------------------------------------------------------------------
(* InOrder of Gsdm: a queue holds as many commands as its announcements,   *)
(* counting the one that a blocked sender is about to make.                *)

USE DEF G!GsdmConstants, G!Threads

Commands == 1 .. MaxCmds

------------------------------------------------------------------------------
(* How often a value is in a sequence.                                     *)

Count(q, c) == Cardinality(G!Places(q, c))

\* How often a channel is in a socket.
LEMMA CountType ==
    ASSUME NEW S, NEW q \in Seq(S), NEW c
    PROVE  /\ IsFiniteSet(G!Places(q, c)) /\ Count(q, c) \in Nat
           /\ q = <<>> => Count(q, c) = 0
<1>1. Len(q) \in Nat /\ IsFiniteSet(1 .. Len(q))
  BY LenFacts, FS_Interval
<1>2. IsFiniteSet(G!Places(q, c))
  BY <1>1, FS_Subset DEF G!Places
<1>3. q = <<>> => G!Places(q, c) = {}
  BY DEF G!Places
<1> QED BY <1>2, <1>3, FS_CardinalityType, FS_EmptySet DEF Count

\* One announcement more.
LEMMA CountAppend ==
    ASSUME NEW S, NEW q \in Seq(S), NEW m \in S, NEW c
    PROVE  Count(Append(q, m), c) = IF m = c THEN Count(q, c) + 1 ELSE Count(q, c)
<1> DEFINE a == Append(q, m)
<1>1. /\ Len(a) = Len(q) + 1 /\ Len(q) \in Nat
      /\ \A i \in 1 .. Len(q) : a[i] = q[i]
      /\ a[Len(q) + 1] = m
  BY AppendFacts, LenFacts
<1> HIDE DEF a
<1>2. 1 .. Len(a) = (1 .. Len(q)) \cup {Len(q) + 1} /\ Len(q) + 1 \notin 1 .. Len(q)
  BY <1>1
<1>3. CASE m = c
  <2>1. G!Places(a, c) = G!Places(q, c) \cup {Len(q) + 1} /\ Len(q) + 1 \notin G!Places(q, c)
    BY <1>1, <1>2, <1>3 DEF G!Places
  <2> QED BY <1>3, <2>1, CountType, FS_AddElement, Zenon DEF Count, a
<1>4. CASE m # c
  <2>1. G!Places(a, c) = G!Places(q, c)
    BY <1>1, <1>2, <1>4, Zenon DEF G!Places
  <2> QED BY <1>4, <2>1 DEF Count, a
<1> QED BY <1>3, <1>4

\* One announcement less.
LEMMA CountTail ==
    ASSUME NEW S, NEW q \in Seq(S), q # <<>>, NEW c
    PROVE  Count(q, c) = IF Head(q) = c THEN Count(Tail(q), c) + 1 ELSE Count(Tail(q), c)
<1> DEFINE t == Tail(q)
<1>1. /\ t \in Seq(S) /\ Len(t) = Len(q) - 1 /\ Len(q) \in Nat \ {0}
      /\ \A i \in 1 .. Len(t) : t[i] = q[i + 1]
      /\ Head(q) = q[1]
  BY TailFacts, LenFacts, EmptyFacts
<1> HIDE DEF t
<1> DEFINE rest == G!Places(q, c) \ {1}
           shift == [i \in G!Places(t, c) |-> i + 1]
<1>2. shift \in Bijection(G!Places(t, c), rest)
  <2>1. \A i \in G!Places(t, c) : i \in Nat /\ i + 1 \in rest
    BY <1>1 DEF G!Places
  <2>2. shift \in [G!Places(t, c) -> rest]
    BY <2>1
  <2>3. \A i, j \in G!Places(t, c) : shift[i] = shift[j] => i = j
    BY <2>1
  <2>4. ASSUME NEW k \in rest PROVE \E i \in G!Places(t, c) : shift[i] = k
    <3>1. k - 1 \in 1 .. Len(t) /\ (k - 1) + 1 = k /\ q[k] = c
      BY <1>1 DEF G!Places
    <3>2. k - 1 \in G!Places(t, c)
      BY <1>1, <3>1 DEF G!Places
    <3> QED BY <3>1, <3>2
  <2> HIDE DEF shift, rest
  <2> QED BY <2>2, <2>3, <2>4 DEF Bijection, Injection, Surjection, IsInjective
<1>3. /\ IsFiniteSet(G!Places(t, c)) /\ IsFiniteSet(G!Places(q, c))
      /\ Count(t, c) \in Nat /\ Count(q, c) \in Nat
  BY <1>1, CountType
<1>4. Cardinality(rest) = Count(t, c)
  <2> HIDE DEF shift, rest
  <2>1. ExistsBijection(G!Places(t, c), rest)
    BY <1>2 DEF ExistsBijection
  <2> QED BY <1>3, <2>1, FS_Bijection DEF Count
<1>5. Cardinality(rest) = IF 1 \in G!Places(q, c) THEN Count(q, c) - 1 ELSE Count(q, c)
  BY <1>3, FS_RemoveElement, Zenon DEF Count
<1>6. 1 \in G!Places(q, c) <=> Head(q) = c
  BY <1>1 DEF G!Places
<1> QED BY <1>3, <1>4, <1>5, <1>6 DEF t

\* A command taken from the queue and recorded as handled keeps the history.
LEMMA MoveHead ==
    ASSUME NEW h \in Seq(Commands), NEW q \in Seq(Commands), q # <<>>
    PROVE  Append(h, Head(q)) \o Tail(q) = h \o q
  BY TailFacts, AppendFacts, ConcatFacts, LenFacts, SameSeq

\* A command at the end of the queue and of the history.
LEMMA AppendBoth ==
    ASSUME NEW h \in Seq(Commands), NEW q \in Seq(Commands), NEW m \in Commands
    PROVE  Append(h \o q, m) = h \o Append(q, m)
<1> DEFINE x == Append(h \o q, m)
           y == h \o Append(q, m)
<1>1. x \in Seq(Commands) /\ y \in Seq(Commands) /\ Len(x) = Len(y) /\ Len(x) \in Nat
  BY AppendFacts, ConcatFacts, LenFacts
<1>2. \A i \in 1 .. Len(x) : x[i] = y[i]
  OBVIOUS
<1> HIDE DEF x, y
<1>3. x = y
  BY <1>1, <1>2, SameSeq
<1> QED BY <1>3 DEF x, y

------------------------------------------------------------------------------
(* Before the threads run only main sends, and on behalf of anybody; when  *)
(* they do, main is done and a worker sends on its own channels: a channel *)
(* has one sender at a time.                                               *)
Turns ==
    /\ started => pc[Main] = "idle"
    /\ ~started => \A w \in Workers : pc[w] = "idle"
    /\ \A t \in G!Threads : pc[t] = "notify" =>
          via[t] \in channels /\ (t = G!Src(via[t]) \/ t = Main)

\* What is in a socket is a channel of that worker that was set up.
Known ==
    \A w \in Workers : \A i \in 1 .. Len(sock[w]) :
        sock[w][i] \in channels /\ G!Dst(sock[w][i]) = w

CommandInv == G!TypeOK /\ Turns /\ Known /\ G!InOrder

\* One command more than announcements, while its sender is about to announce it.
Owed(c) == IF \E t \in G!Threads : pc[t] = "notify" /\ via[t] = c THEN 1 ELSE 0

Balance(c) ==
    sentOn[c] = handled[c] \o queue[c] /\ Len(queue[c]) = Count(sock[G!Dst(c)], c) + Owed(c)

\* Cardinality as Gsdm knows it is Cardinality.
LEMMA SameCardinality ==
    ASSUME NEW S PROVE G!Cardinality(S) = Cardinality(S)
  BY DEF G!Cardinality, Cardinality

\* The property, channel by channel.
LEMMA InOrderIsBalance ==
    ASSUME G!GsdmConstants
    PROVE  G!InOrder <=> \A c \in G!Channels : Balance(c)
<1>1. ASSUME NEW c \in G!Channels
      PROVE  (\E n \in {0, 1} : /\ (n = 1) = (G!Announcing(c) # {})
                                /\ Len(queue[c]) = Cardinality(G!Announcements(c)) + n)
             <=> Len(queue[c]) = Count(sock[G!Dst(c)], c) + Owed(c)
  <2>1. G!Announcing(c) # {} <=> \E t \in G!Threads : pc[t] = "notify" /\ via[t] = c
    BY DEF G!Announcing
  <2>2. Cardinality(G!Announcements(c)) = Count(sock[G!Dst(c)], c)
    BY DEF G!Announcements, Count
  <2> QED BY <2>1, <2>2 DEF Owed
<1>2. ASSUME NEW c \in G!Channels
      PROVE  Balance(c)
             <=> /\ sentOn[c] = handled[c] \o queue[c]
                 /\ \E n \in {0, 1} : /\ (n = 1) = (G!Announcing(c) # {})
                                      /\ Len(queue[c]) = Cardinality(G!Announcements(c)) + n
  BY <1>1, Zenon DEF Balance
<1> QED BY <1>2, SameCardinality, Zenon DEF G!InOrder

\* The same of the next state.
LEMMA BalanceNext ==
    ASSUME G!GsdmConstants, \A c \in G!Channels : Balance(c)'
    PROVE  G!InOrder'
<1>1. ASSUME NEW c \in G!Channels
      PROVE  \E n \in {0, 1} : /\ (n = 1) = (G!Announcing(c)' # {})
                               /\ Len(queue'[c]) = Cardinality(G!Announcements(c)') + n
  <2>1. G!Announcing(c)' # {} <=> \E t \in G!Threads : pc'[t] = "notify" /\ via'[t] = c
    BY DEF G!Announcing
  <2>2. Len(queue'[c]) = Cardinality(G!Announcements(c)') + Owed(c)'
    BY Zenon DEF G!Announcements, Balance, Count
  <2> QED BY <2>1, <2>2 DEF Owed
<1>2. ASSUME NEW c \in G!Channels
      PROVE  sentOn'[c] = handled'[c] \o queue'[c]
  BY Zenon DEF Balance
<1> QED BY <1>1, <1>2, SameCardinality, Zenon DEF G!InOrder

------------------------------------------------------------------------------

\* The two ends of a channel.
LEMMA ChannelFacts ==
    ASSUME G!GsdmConstants, NEW c \in G!Channels
    PROVE  G!Dst(c) \in Workers /\ G!Src(c) \in Workers
  BY DEF G!Channels, G!Dst, G!Src

\* The types of what a channel has.
LEMMA BalanceType ==
    ASSUME G!GsdmConstants, G!TypeOK, NEW c \in G!Channels
    PROVE  /\ sentOn[c] \in Seq(Commands) /\ handled[c] \in Seq(Commands)
           /\ queue[c] \in Seq(Commands) /\ Len(queue[c]) \in Nat
           /\ sock[G!Dst(c)] \in Seq(G!Channels)
           /\ Count(sock[G!Dst(c)], c) \in Nat /\ Owed(c) \in {0, 1}
<1>1. /\ sentOn[c] \in Seq(Commands) /\ handled[c] \in Seq(Commands)
      /\ queue[c] \in Seq(Commands) /\ sock[G!Dst(c)] \in Seq(G!Channels)
  BY ChannelFacts DEF G!TypeOK, Commands
<1> QED BY <1>1, CountType, LenFacts, Zenon DEF Owed

\* A thread that may send on a channel is the only one that sends on it.
LEMMA OneSender ==
    ASSUME G!GsdmConstants, G!TypeOK, Turns, NEW c \in G!Channels, NEW t \in G!Threads,
           pc[t] \in {"run", "notify"}, t = G!Src(c) \/ t = Main,
           NEW u \in G!Threads, pc[u] = "notify", via[u] = c
    PROVE  u = t
<1>1. u = G!Src(c) \/ u = Main
  BY Zenon DEF Turns
<1>2. pc[Main] # "idle" => \A w \in Workers : pc[w] = "idle"
  BY Zenon DEF Turns, G!TypeOK
<1>3. G!Src(c) \in Workers /\ pc[t] # "idle" /\ pc[u] # "idle"
  BY ChannelFacts, Zenon
<1> QED BY <1>1, <1>2, <1>3, Zenon

\* produce(): the sender now owes an announcement.
LEMMA StepSendCmd ==
    ASSUME G!GsdmConstants, CommandInv, NEW t \in G!Threads, NEW c \in G!Channels, G!SendCmd(t, c)
    PROVE  CommandInv'
<1>0. G!TypeOK /\ Turns /\ Known /\ \A d \in G!Channels : Balance(d)
  BY InOrderIsBalance DEF CommandInv
<1>1. /\ pc[t] = "run" /\ (t = G!Src(c) \/ t = Main) /\ c \in channels
      /\ count + 1 \in Commands /\ count + 1 \in 0 .. MaxCmds
  BY <1>0 DEF G!SendCmd, G!Sends, G!TypeOK, Commands
<1>2. G!TypeOK'
  <2>1. Append(queue[c], count + 1) \in Seq(Commands) /\ Append(sentOn[c], count + 1) \in Seq(Commands)
    BY <1>0, <1>1, BalanceType, AppendFacts, Zenon
  <2>2. queue' \in [G!Channels -> Seq(Commands)] /\ sentOn' \in [G!Channels -> Seq(Commands)]
    BY <1>0, <2>1, Zenon DEF G!SendCmd, G!TypeOK, Commands
  <2> QED BY <1>0, <1>1, <2>2, Zenon DEF G!SendCmd, G!TypeOK, Commands
<1>3. Turns'
  <2>1. started => t # Main
    BY <1>0, <1>1, Zenon DEF Turns
  <2>2. ~started => t = Main
    BY <1>0, <1>1, Zenon DEF Turns
  <2>3. /\ pc' = [pc EXCEPT ![t] = "notify"] /\ via' = [via EXCEPT ![t] = c]
        /\ pc \in [G!Threads -> {"idle", "run", "notify"}]
        /\ via \in [G!Threads -> G!Channels \cup {<<>>}]
        /\ started' = started /\ channels' = channels
    BY <1>0, Zenon DEF G!SendCmd, G!TypeOK
  <2> QED BY <1>0, <1>1, <2>1, <2>2, <2>3, Zenon DEF Turns
<1>4. Known'
  BY <1>0, Zenon DEF G!SendCmd, Known
<1>5. ASSUME NEW d \in G!Channels PROVE Balance(d)'
  <2>1. /\ sentOn[d] \in Seq(Commands) /\ handled[d] \in Seq(Commands)
        /\ queue[d] \in Seq(Commands) /\ Len(queue[d]) \in Nat
        /\ Count(sock[G!Dst(d)], d) \in Nat
        /\ Balance(d)
    BY <1>0, BalanceType, Zenon
  <2>2. UNCHANGED <<sock, handled>> /\ Count(sock[G!Dst(d)], d)' = Count(sock[G!Dst(d)], d)
    BY Zenon DEF G!SendCmd, Count, G!Places
  <2>3. /\ pc' = [pc EXCEPT ![t] = "notify"] /\ via' = [via EXCEPT ![t] = c]
        /\ pc \in [G!Threads -> {"idle", "run", "notify"}]
        /\ via \in [G!Threads -> G!Channels \cup {<<>>}]
    BY <1>0, Zenon DEF G!SendCmd, G!TypeOK
  <2>4. CASE d = c
    <3>1. Owed(d) = 0
      BY <1>0, <1>1, <2>4, OneSender, Zenon DEF Owed
    <3>2. Owed(d)' = 1
      BY <2>3, <2>4, Zenon DEF Owed
    <3>3. queue'[d] = Append(queue[d], count + 1) /\ sentOn'[d] = Append(sentOn[d], count + 1)
      BY <1>0, <2>4, Zenon DEF G!SendCmd, G!TypeOK
    <3>4. Len(queue'[d]) = Len(queue[d]) + 1
      <4>1. Len(Append(queue[d], count + 1)) = Len(queue[d]) + 1
        BY <1>1, <2>1, AppendFacts
      <4> QED BY <3>3, <4>1, Zenon
    <3>5. sentOn'[d] = handled'[d] \o queue'[d]
      <4>1. Append(handled[d] \o queue[d], count + 1) = handled[d] \o Append(queue[d], count + 1)
        BY <1>1, <2>1, AppendBoth, Zenon
      <4>2. sentOn[d] = handled[d] \o queue[d]
        BY <2>1, Zenon DEF Balance
      <4> QED BY <2>2, <3>3, <4>1, <4>2, Zenon
    <3>6. Len(queue[d]) = Count(sock[G!Dst(d)], d) + 0
      BY <2>1, <3>1, Zenon DEF Balance
    <3>7. Len(queue'[d]) = Count(sock[G!Dst(d)], d)' + Owed(d)'
      BY <2>1, <2>2, <3>2, <3>4, <3>6
    <3> QED BY <3>5, <3>7, Zenon DEF Balance
  <2>5. CASE d # c
    <3>1. Owed(d)' = Owed(d)
      BY <1>1, <2>3, <2>5, Zenon DEF Owed
    <3>2. queue'[d] = queue[d] /\ sentOn'[d] = sentOn[d]
      BY <1>0, <2>5, Zenon DEF G!SendCmd, G!TypeOK
    <3> QED BY <2>1, <2>2, <3>1, <3>2, Zenon DEF Balance
  <2> QED BY <2>4, <2>5
<1>6. G!InOrder'
  BY <1>5, BalanceNext
<1> QED BY <1>2, <1>3, <1>4, <1>6 DEF CommandInv

\* The announcement is sent.
LEMMA StepNotifyUnix ==
    ASSUME G!GsdmConstants, CommandInv, NEW t \in G!Threads, G!NotifyUnix(t)
    PROVE  CommandInv'
<1> DEFINE c == via[t]
           w == G!Dst(c)
<1>0. G!TypeOK /\ Turns /\ Known /\ \A d \in G!Channels : Balance(d)
  BY InOrderIsBalance DEF CommandInv
<1>1. /\ pc[t] = "notify" /\ c \in channels /\ (t = G!Src(c) \/ t = Main)
      /\ c \in G!Channels /\ w \in Workers
  BY <1>0, ChannelFacts, Zenon DEF G!NotifyUnix, Turns, G!TypeOK
<1>2. /\ sock' = [sock EXCEPT ![w] = Append(@, c)] /\ Len(sock[w]) < SockCap
      /\ pc' = [pc EXCEPT ![t] = "run"] /\ via' = [via EXCEPT ![t] = <<>>]
      /\ UNCHANGED <<channels, queue, started, sentOn, handled, count>>
      /\ sock \in [Workers -> Seq(G!Channels)] /\ Len(sock[w]) \in Nat
      /\ pc \in [G!Threads -> {"idle", "run", "notify"}]
      /\ via \in [G!Threads -> G!Channels \cup {<<>>}]
  BY <1>0, <1>1, LenFacts DEF G!NotifyUnix, G!Full, G!TypeOK
<1> HIDE DEF c, w
<1>3. /\ Append(sock[w], c) \in Seq(G!Channels)
      /\ Len(Append(sock[w], c)) = Len(sock[w]) + 1
      /\ \A i \in 1 .. Len(sock[w]) : Append(sock[w], c)[i] = sock[w][i]
      /\ Append(sock[w], c)[Len(sock[w]) + 1] = c
      /\ sock'[w] = Append(sock[w], c)
      /\ \A v \in Workers \ {w} : sock'[v] = sock[v]
  <2> DEFINE q == sock[w]
  <2>1. q \in Seq(G!Channels) /\ c \in G!Channels
    BY <1>1, <1>2, Zenon
  <2>2. /\ Append(q, c) \in Seq(G!Channels)
        /\ Len(Append(q, c)) = Len(q) + 1
        /\ \A i \in 1 .. Len(q) : Append(q, c)[i] = q[i]
        /\ Append(q, c)[Len(q) + 1] = c
    <3> HIDE DEF q
    <3> QED BY <2>1
  <2>3. /\ sock'[w] = Append(sock[w], c)
        /\ \A v \in Workers \ {w} : sock'[v] = sock[v]
    BY <1>1, <1>2, Zenon
  <2> QED BY <2>2, <2>3, Zenon
<1>4. G!TypeOK'
  <2>1. sock' \in [Workers -> Seq(G!Channels)]
    BY <1>2, <1>3, Zenon
  <2>2. \A v \in Workers : Len(sock'[v]) <= SockCap
    <3>1. \A v \in Workers \ {w} : Len(sock'[v]) <= SockCap
      BY <1>0, <1>3, Zenon DEF G!TypeOK
    <3>2. Len(sock'[w]) = Len(sock[w]) + 1 /\ Len(sock[w]) \in Nat /\ Len(sock[w]) < SockCap
      BY <1>2, <1>3, Zenon
    <3>3. Len(sock'[w]) <= SockCap
      BY <3>2 DEF G!GsdmConstants
    <3> QED BY <3>1, <3>3, Zenon
  <2> QED BY <1>0, <1>2, <2>1, <2>2, Zenon DEF G!TypeOK
<1>5. Turns'
  <2>1. (started => t # Main) /\ (~started => t = Main)
    BY <1>0, <1>1, Zenon DEF Turns
  <2> QED BY <1>0, <1>1, <1>2, <2>1, Zenon DEF Turns
<1>6. Known'
  <2> SUFFICES ASSUME NEW v \in Workers, NEW i \in 1 .. Len(sock'[v])
               PROVE  sock'[v][i] \in channels /\ G!Dst(sock'[v][i]) = v
    BY <1>2, Zenon DEF Known
  <2>1. CASE v # w
    BY <1>0, <1>3, <2>1, Zenon DEF Known
  <2>2. CASE v = w /\ i \in 1 .. Len(sock[w])
    BY <1>0, <1>1, <1>3, <2>2, Zenon DEF Known
  <2>3. CASE v = w /\ i = Len(sock[w]) + 1
    BY <1>1, <1>3, <2>3, Zenon DEF w
  <2>4. v = w => i \in 1 .. Len(sock[w]) \/ i = Len(sock[w]) + 1
    <3>1. v = w => i \in 1 .. Len(sock[w]) + 1
      BY <1>3, Zenon
    <3>2. Len(sock[w]) \in Nat
      BY <1>2
    <3> QED BY <3>1, <3>2
  <2> QED BY <2>1, <2>2, <2>3, <2>4, Zenon
<1>7. ASSUME NEW d \in G!Channels PROVE Balance(d)'
  <2>1. /\ Len(queue[d]) \in Nat /\ Count(sock[G!Dst(d)], d) \in Nat /\ Balance(d)
        /\ G!Dst(d) \in Workers
    BY <1>0, BalanceType, ChannelFacts, Zenon
  <2>2. sentOn'[d] = handled'[d] \o queue'[d] /\ queue'[d] = queue[d]
    BY <1>2, <2>1, Zenon DEF Balance
  <2>3. CASE d = c
    <3>1. Owed(d) = 1
      BY <1>1, <2>3, Zenon DEF Owed, c
    <3>2. \A u \in G!Threads : ~(pc'[u] = "notify" /\ via'[u] = d)
      BY <1>0, <1>1, <1>2, <2>3, OneSender
    <3>3. Owed(d)' = 0
      BY <3>2, Zenon DEF Owed
    <3>4. Count(sock'[w], d) = Count(sock[w], d) + 1
      BY <1>1, <1>2, <1>3, <2>3, CountAppend
    <3>5. Count(sock[G!Dst(d)], d)' = Count(sock'[w], d) /\ w = G!Dst(d)
      BY <2>3, Zenon DEF w, Count, G!Places
    <3>6. Len(queue[d]) = Count(sock[w], d) + 1
      BY <2>1, <3>1, <3>5, Zenon DEF Balance
    <3>7. Len(queue'[d]) = Count(sock[G!Dst(d)], d)' + Owed(d)'
      <4>1. Len(queue[d]) \in Nat /\ Len(queue[d]) = Count(sock[G!Dst(d)], d)'
        BY <2>1, <3>4, <3>5, <3>6, Zenon
      <4>2. Len(queue[d]) = Len(queue[d]) + 0
        BY <4>1
      <4> QED BY <2>2, <3>3, <4>1, <4>2, Zenon
    <3> QED BY <2>2, <3>7, Zenon DEF Balance
  <2>4. CASE d # c
    <3>1. Owed(d)' = Owed(d)
      BY <1>1, <1>2, <2>4, Zenon DEF Owed, c
    <3>2. Count(sock'[w], d) = Count(sock[w], d)
      BY <1>1, <1>2, <1>3, <2>4, CountAppend
    <3>3. Count(sock'[G!Dst(d)], d) = Count(sock[G!Dst(d)], d)
      BY <1>3, <2>1, <3>2, Zenon
    <3>4. Count(sock[G!Dst(d)], d)' = Count(sock'[G!Dst(d)], d)
      BY Zenon DEF Count, G!Places
    <3> QED BY <2>1, <2>2, <3>1, <3>3, <3>4, Zenon DEF Balance
  <2> QED BY <2>3, <2>4
<1>8. G!InOrder'
  BY <1>7, BalanceNext
<1> QED BY <1>4, <1>5, <1>6, <1>8 DEF CommandInv

\* An announcement is taken, and with it the command in front.
LEMMA StepRecvUnixNotify ==
    ASSUME G!GsdmConstants, CommandInv, NEW w \in Workers, G!RecvUnixNotify(w)
    PROVE  CommandInv'
<1> DEFINE c == Head(sock[w])
<1>0. G!TypeOK /\ Turns /\ Known /\ \A d \in G!Channels : Balance(d)
  BY InOrderIsBalance DEF CommandInv
<1>1. /\ sock[w] \in Seq(G!Channels) /\ sock[w] # <<>> /\ pc[w] = "idle" /\ started
      /\ sock \in [Workers -> Seq(G!Channels)]
      /\ pc \in [G!Threads -> {"idle", "run", "notify"}]
  BY <1>0, Zenon DEF G!RecvUnixNotify, G!TypeOK
<1>2. /\ c = sock[w][1] /\ 1 \in 1 .. Len(sock[w]) /\ Len(sock[w]) \in Nat
      /\ Tail(sock[w]) \in Seq(G!Channels) /\ Len(Tail(sock[w])) = Len(sock[w]) - 1
      /\ \A i \in 1 .. Len(Tail(sock[w])) : Tail(sock[w])[i] = sock[w][i + 1]
  BY <1>1, TailFacts, LenFacts, EmptyFacts
<1>3. c \in channels /\ G!Dst(c) = w /\ c \in G!Channels
  <2>1. channels \subseteq G!Channels
    BY <1>0, Zenon DEF G!TypeOK
  <2>2. c \in channels /\ G!Dst(c) = w
    BY <1>0, <1>2, Zenon DEF Known
  <2> QED BY <2>1, <2>2, Zenon
<1>4. /\ queue[c] \in Seq(Commands) /\ handled[c] \in Seq(Commands)
      /\ Len(queue[c]) \in Nat /\ Count(sock[w], c) \in Nat /\ Owed(c) \in {0, 1}
      /\ Balance(c)
  BY <1>0, <1>3, BalanceType, Zenon
<1>5. Count(sock[w], c) = Count(Tail(sock[w]), c) + 1 /\ Count(Tail(sock[w]), c) \in Nat
  BY <1>1, <1>2, CountTail, CountType, Zenon
<1>6. Len(queue[c]) > 0
  <2>1. Len(queue[c]) = Count(sock[w], c) + Owed(c)
    BY <1>3, <1>4, Zenon DEF Balance
  <2> HIDE DEF c
  <2> QED BY <1>4, <1>5, <2>1
<1>7. queue[c] # <<>>
  BY <1>4, <1>6, EmptyFacts
<1>8. /\ sock' = [sock EXCEPT ![w] = Tail(@)]
      /\ handled' = [handled EXCEPT ![c] = Append(@, Head(queue[c]))]
      /\ queue' = [queue EXCEPT ![c] = Tail(@)]
      /\ pc' = [pc EXCEPT ![w] = "run"]
      /\ UNCHANGED <<channels, via, started, sentOn, count>>
  BY <1>3, <1>7, Zenon DEF G!RecvUnixNotify
<1> HIDE DEF c
<1>9. /\ Tail(queue[c]) \in Seq(Commands) /\ Len(Tail(queue[c])) = Len(queue[c]) - 1
      /\ Append(handled[c], Head(queue[c])) \in Seq(Commands)
      /\ Append(handled[c], Head(queue[c])) \o Tail(queue[c]) = handled[c] \o queue[c]
  BY <1>4, <1>7, TailFacts, AppendFacts, MoveHead, Zenon
<1>10. sock'[w] = Tail(sock[w]) /\ \A v \in Workers \ {w} : sock'[v] = sock[v]
  BY <1>1, <1>8
<1>11. G!TypeOK'
  <2>1. sock' \in [Workers -> Seq(G!Channels)] /\ \A v \in Workers : Len(sock'[v]) <= SockCap
    <3>1. sock' \in [Workers -> Seq(G!Channels)]
      BY <1>1, <1>2, <1>8, Zenon
    <3>2. \A v \in Workers : Len(sock[v]) <= SockCap
      BY <1>0, Zenon DEF G!TypeOK
    <3>3. Len(Tail(sock[w])) <= SockCap
      BY <1>2, <3>2
    <3> QED BY <1>10, <3>1, <3>2, <3>3, Zenon
  <2>2. queue' \in [G!Channels -> Seq(Commands)] /\ handled' \in [G!Channels -> Seq(Commands)]
    BY <1>0, <1>3, <1>8, <1>9, Zenon DEF G!TypeOK, Commands
  <2> QED BY <1>0, <1>8, <2>1, <2>2, Zenon DEF G!TypeOK, Commands
<1>12. Turns'
  BY <1>0, <1>1, <1>8, Zenon DEF Turns
<1>13. Known'
  <2> SUFFICES ASSUME NEW v \in Workers, NEW i \in 1 .. Len(sock'[v])
               PROVE  sock'[v][i] \in channels /\ G!Dst(sock'[v][i]) = v
    BY <1>8, Zenon DEF Known
  <2>1. CASE v # w
    BY <1>0, <1>10, <2>1, Zenon DEF Known
  <2>2. CASE v = w
    <3>0. sock'[v] = Tail(sock[w]) /\ i \in 1 .. Len(Tail(sock[w]))
      BY <1>10, <2>2, Zenon
    <3>1. sock'[v][i] = sock[w][i + 1] /\ i + 1 \in 1 .. Len(sock[w])
      BY <1>2, <3>0
    <3> QED BY <1>0, <2>2, <3>1, Zenon DEF Known
  <2> QED BY <2>1, <2>2, Zenon
<1>14. ASSUME NEW d \in G!Channels PROVE Balance(d)'
  <2>1. /\ Len(queue[d]) \in Nat /\ Count(sock[G!Dst(d)], d) \in Nat /\ Balance(d)
        /\ G!Dst(d) \in Workers /\ Owed(d) \in {0, 1}
    BY <1>0, BalanceType, ChannelFacts, Zenon
  <2>2. Owed(d)' = Owed(d)
    BY <1>1, <1>8 DEF Owed
  <2>3. Count(sock[G!Dst(d)], d)' = Count(sock'[G!Dst(d)], d)
    BY Zenon DEF Count, G!Places
  <2>4. CASE d = c
    <3>1. queue'[d] = Tail(queue[c]) /\ handled'[d] = Append(handled[c], Head(queue[c]))
      BY <1>0, <1>8, <2>4, Zenon DEF G!TypeOK
    <3>2. Count(sock'[w], d) + 1 = Count(sock[w], d) /\ Count(sock'[w], d) \in Nat
      BY <1>5, <1>10, <2>4, Zenon DEF c
    <3>3. sentOn'[d] = handled'[d] \o queue'[d]
      BY <1>4, <1>8, <1>9, <2>4, <3>1, Zenon DEF Balance
    <3>4. Len(queue'[d]) = Len(queue[d]) - 1
      BY <1>9, <2>4, <3>1, Zenon
    <3>5. Len(queue[d]) = Count(sock[w], d) + Owed(d) /\ G!Dst(d) = w
      BY <1>3, <2>1, <2>4, Zenon DEF Balance
    <3>6. Len(queue'[d]) = Count(sock'[w], d) + Owed(d)
      BY <2>1, <3>2, <3>4, <3>5
    <3> QED BY <2>2, <2>3, <3>3, <3>5, <3>6, Zenon DEF Balance
  <2>5. CASE d # c
    <3>1. queue'[d] = queue[d] /\ handled'[d] = handled[d] /\ sentOn'[d] = sentOn[d]
      BY <1>0, <1>8, <2>5, Zenon DEF G!TypeOK
    <3>2. Count(sock'[w], d) = Count(sock[w], d)
      BY <1>1, <1>10, <2>5, CountTail, Zenon DEF c
    <3>3. Count(sock'[G!Dst(d)], d) = Count(sock[G!Dst(d)], d)
      BY <1>10, <2>1, <3>2, Zenon
    <3> QED BY <2>1, <2>2, <2>3, <3>1, <3>3, Zenon DEF Balance
  <2> QED BY <2>4, <2>5
<1>15. G!InOrder'
  BY <1>14, BalanceNext
<1> QED BY <1>11, <1>12, <1>13, <1>15 DEF CommandInv

\* Starting the threads, returning from process() and setting up a queue move no
\* command.
LEMMA StepOthers ==
    ASSUME G!GsdmConstants, CommandInv,
           \/ \E c \in G!Channels : G!SetupQueue(c)
           \/ G!Start
           \/ \E t \in G!Threads, c \in G!Channels : G!SendCmdUnknown(t, c)
           \/ \E w \in Workers : G!ProcessReturns(w)
           \/ UNCHANGED G!vars
    PROVE  CommandInv'
<1>0. /\ G!TypeOK /\ Turns /\ Known /\ \A d \in G!Channels : Balance(d)
      /\ pc \in [G!Threads -> {"idle", "run", "notify"}]
  BY InOrderIsBalance, Zenon DEF CommandInv, G!TypeOK
<1>1. /\ UNCHANGED <<queue, sock, via, sentOn, handled, count>>
      /\ channels \subseteq channels' /\ channels' \subseteq G!Channels
  BY <1>0, Zenon DEF G!SetupQueue, G!Start, G!SendCmdUnknown, G!ProcessReturns, G!vars, G!TypeOK
<1>2. /\ pc' \in [G!Threads -> {"idle", "run", "notify"}]
      /\ \A t \in G!Threads : pc'[t] = "notify" <=> pc[t] = "notify"
      /\ started' \in BOOLEAN
  BY <1>0, Zenon DEF G!SetupQueue, G!Start, G!SendCmdUnknown, G!ProcessReturns, G!vars, G!TypeOK
<1>3. G!TypeOK'
  BY <1>0, <1>1, <1>2, Zenon DEF G!TypeOK
<1>4. Turns'
  <2>1. CASE UNCHANGED <<pc, started>>
    BY <1>0, <1>1, <2>1, Zenon DEF Turns
  <2>2. CASE G!Start
    BY <1>0, <1>1, <1>2, <2>2, Zenon DEF G!Start, Turns
  <2>3. ASSUME NEW w \in Workers, G!ProcessReturns(w) PROVE Turns'
    BY <1>0, <1>1, <1>2, <2>3, Zenon DEF G!ProcessReturns, Turns
  <2> QED BY <2>1, <2>2, <2>3, Zenon DEF G!SetupQueue, G!SendCmdUnknown, G!vars
<1>5. Known'
  BY <1>0, <1>1, Zenon DEF Known
<1>6. ASSUME NEW d \in G!Channels PROVE Balance(d)'
  <2>1. Owed(d)' = Owed(d)
    BY <1>1, <1>2, Zenon DEF Owed
  <2>2. Count(sock[G!Dst(d)], d)' = Count(sock[G!Dst(d)], d)
    BY <1>1, Zenon DEF Count, G!Places
  <2> QED BY <1>0, <1>1, <2>1, <2>2, Zenon DEF Balance
<1> QED BY <1>3, <1>4, <1>5, <1>6, BalanceNext, Zenon DEF CommandInv

\* The invariant of Gsdm holds initially.
LEMMA CommandInit == ASSUME G!GsdmConstants PROVE G!Init => CommandInv
<1> SUFFICES ASSUME G!Init PROVE CommandInv
  OBVIOUS
<1>1. G!TypeOK /\ Turns /\ Known
  <2>1. \A w \in Workers : sock[w] = <<>> /\ Len(sock[w]) = 0
    BY EmptyFacts DEF G!Init
  <2>2. /\ sock \in [Workers -> Seq(G!Channels)]
        /\ queue \in [G!Channels -> Seq(1 .. MaxCmds)]
        /\ sentOn \in [G!Channels -> Seq(1 .. MaxCmds)]
        /\ handled \in [G!Channels -> Seq(1 .. MaxCmds)]
    BY EmptyFacts DEF G!Init
  <2>3. pc \in [G!Threads -> {"idle", "run", "notify"}] /\ via \in [G!Threads -> G!Channels \cup {<<>>}]
    BY DEF G!Init
  <2>4. Turns
    BY Zenon DEF G!Init, Turns
  <2>5. Known
    BY <2>1 DEF Known
  <2>6. channels = {} /\ started = FALSE /\ count = 0
    BY DEF G!Init
  <2>7. G!TypeOK
    <3>1. channels \subseteq G!Channels
      BY <2>6
    <3>2. started \in BOOLEAN
      BY <2>6, Zenon
    <3>3. count \in 0 .. MaxCmds
      BY <2>6
    <3>4. \A w \in Workers : Len(sock[w]) <= SockCap
      BY <2>1
    <3> QED BY <2>2, <2>3, <3>1, <3>2, <3>3, <3>4, Zenon DEF G!TypeOK
  <2> QED BY <2>4, <2>5, <2>7
<1>2. ASSUME NEW c \in G!Channels PROVE Balance(c)
  <2>1. /\ sock[G!Dst(c)] = <<>> /\ queue[c] = <<>> /\ sentOn[c] = <<>> /\ handled[c] = <<>>
        /\ sock[G!Dst(c)] \in Seq(G!Channels) /\ queue[c] \in Seq(Commands)
    BY ChannelFacts DEF G!Init
  <2>2. Count(sock[G!Dst(c)], c) = 0 /\ Owed(c) = 0
    BY <2>1, CountType, Zenon DEF G!Init, Owed
  <2> QED BY <2>1, <2>2, ConcatEmpty, EmptyFacts DEF Balance
<1> QED BY <1>1, <1>2, InOrderIsBalance DEF CommandInv

\* Every step keeps the invariant of Gsdm.
LEMMA CommandNext ==
    ASSUME G!GsdmConstants
    PROVE  CommandInv /\ [G!Next]_G!vars => CommandInv'
<1> SUFFICES ASSUME CommandInv, [G!Next]_G!vars PROVE CommandInv'
  OBVIOUS
<1>1. ASSUME NEW t \in G!Threads, NEW c \in G!Channels, G!SendCmd(t, c) PROVE CommandInv'
  BY <1>1, StepSendCmd
<1>2. ASSUME NEW t \in G!Threads, G!NotifyUnix(t) PROVE CommandInv'
  BY <1>2, StepNotifyUnix
<1>3. ASSUME NEW w \in Workers, G!RecvUnixNotify(w) PROVE CommandInv'
  BY <1>3, StepRecvUnixNotify
<1> QED BY <1>1, <1>2, <1>3, StepOthers, Zenon DEF G!Next

\* Commands of one sender and type are processed once each and in the order in
\* which send_cmd() was called, and no command is left in its queue without an
\* announcement (gsdm's process_unix_notify consumes one command per datagram).
THEOREM Safety_InOrder == ASSUME G!GsdmConstants PROVE G!Spec => []G!InOrder
<1>1. CommandInv => G!InOrder
  BY DEF CommandInv
<1> QED BY CommandInit, CommandNext, <1>1, PTL DEF G!Spec
==============================================================================
