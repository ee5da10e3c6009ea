---------------------------- MODULE LockFreeQueue ----------------------------
(***************************************************************************)
(* The single-producer single-consumer queue of src/src/util/queue.h, the  *)
(* channel between the dispatcher thread and a worker thread               *)
(* (GenericWorker::_mq) and between two gsdm workers.                      *)
(*                                                                         *)
(* The queue is a linked list with a dummy node.  One step of the model    *)
(* makes at most one access to a location that the other thread may touch: *)
(* `divider' is written by the consumer and read by the producer, `last'   *)
(* the other way round, and a node is reached through both.  The header    *)
(* states that pointer accesses are atomic on the platform it is built for *)
(* (queue.h:16); stores of one thread become visible in program order      *)
(* there.  An address that was freed may be handed out by the next `new'.  *)
(***************************************************************************)
EXTENDS Naturals, Sequences

CONSTANTS
    Addr,       \* addresses the allocator can hand out for nodes
    Values,     \* what the template parameter T ranges over
    Default,    \* T(), the value of the dummy node
    NULL,
    EMPTY,      \* consume() returned false
    MaxItems    \* bound: how often produce() is called

ASSUME QueueConstants ==
    /\ Addr # {}
    /\ NULL \notin Addr
    /\ EMPTY \notin Values
    /\ MaxItems \in Nat

VARIABLES
    first, divider, last,   \* the three pointers of the class
    value, next,            \* the fields of the node at each address
    live,                   \* addresses allocated and not yet deleted
    ppc, arg, fresh,        \* producer: where it is, its argument, new Node
    cpc, result,            \* consumer: where it is, *result
    ret,                    \* what the last consume() handed back
    order,                  \* history: the nodes in the order of the list
    sent, got,              \* history: values published, values consumed
    freed                   \* history: how many nodes were deleted

pointers == <<first, divider, last>>
producer == <<ppc, arg, fresh>>
consumer == <<cpc, result, ret>>
history == <<order, sent, got, freed>>
vars == <<pointers, value, next, live, producer, consumer, history>>

\* LockFreeQueue(): one dummy node that all three pointers designate.
Init ==
    \E a \in Addr :
        /\ first = a /\ divider = a /\ last = a
        /\ value = [b \in Addr |-> Default]
        /\ next = [b \in Addr |-> NULL]
        /\ live = {a}
        /\ ppc = "idle" /\ arg = Default /\ fresh = NULL
        /\ cpc = "idle" /\ result = Default /\ ret = EMPTY
        /\ order = <<a>> /\ sent = <<>> /\ got = <<>> /\ freed = 0

------------------------------------------------------------------------------
(* The producer: produce(t), one action per shared access.                 *)

\* new Node(t): the constructor fills a node nobody else knows yet.
ProduceNew(t, a) ==
    /\ ppc = "idle"
    /\ Len(sent) < MaxItems
    /\ a \notin live
    /\ live' = live \cup {a}
    /\ value' = [value EXCEPT ![a] = t]
    /\ next' = [next EXCEPT ![a] = NULL]
    /\ arg' = t /\ fresh' = a
    /\ ppc' = "link"
    /\ UNCHANGED <<pointers, consumer, history>>

\* last->next = ...
ProduceLink ==
    /\ ppc = "link"
    /\ next' = [next EXCEPT ![last] = fresh]
    /\ ppc' = "publish"
    /\ UNCHANGED <<pointers, value, live, arg, fresh, consumer, history>>

\* last = last->next: from here on consume() can see the element.
ProducePublish ==
    /\ ppc = "publish"
    /\ last' = next[last]
    /\ order' = Append(order, next[last])
    /\ sent' = Append(sent, arg)
    /\ ppc' = "scan"
    /\ UNCHANGED <<first, divider, value, next, live, arg, fresh, consumer,
                   got, freed>>

\* Mutant: everything up to the last node is taken for consumed.
ProduceScanToLast ==
    /\ ppc = "scan"
    /\ ppc' = IF first # last THEN "reclaim" ELSE "idle"
    /\ UNCHANGED <<pointers, value, next, live, arg, fresh, consumer, history>>

\* while (first != divider)
ProduceScan ==
    /\ ppc = "scan"
    /\ ppc' = IF first # divider THEN "reclaim" ELSE "idle"
    /\ UNCHANGED <<pointers, value, next, live, arg, fresh, consumer, history>>

\* delete a node and step over it (temp, first = first->next, delete temp).
DropFirst ==
    /\ first' = next[first]
    /\ live' = live \ {first}
    /\ freed' = freed + 1

ProduceReclaim ==
    /\ ppc = "reclaim"
    /\ DropFirst
    /\ ppc' = "scan"
    /\ UNCHANGED <<divider, last, value, next, arg, fresh, consumer,
                   order, sent, got>>

Producer ==
    \/ \E t \in Values, a \in Addr : ProduceNew(t, a)
    \/ ProduceLink
    \/ ProducePublish
    \/ ProduceScan
    \/ ProduceReclaim

------------------------------------------------------------------------------
(* The consumer: consume(&result).                                         *)

\* Mutant: a queue of one element counts as empty.
ConsumeCheckOffByOne ==
    /\ cpc = "idle"
    /\ IF divider # last /\ next[divider] # last
       THEN cpc' = "read" /\ UNCHANGED ret
       ELSE ret' = EMPTY /\ UNCHANGED cpc
    /\ UNCHANGED <<pointers, value, next, live, producer, result, history>>

\* if (divider != last) ... return false
ConsumeCheck ==
    /\ cpc = "idle"
    /\ IF divider # last
       THEN cpc' = "read" /\ UNCHANGED ret
       ELSE ret' = EMPTY /\ UNCHANGED cpc
    /\ UNCHANGED <<pointers, value, next, live, producer, result, history>>

\* *result = divider->next->value
ConsumeRead ==
    /\ cpc = "read"
    /\ result' = value[next[divider]]
    /\ cpc' = "advance"
    /\ UNCHANGED <<pointers, value, next, live, producer, ret, history>>

\* divider = divider->next; return true
ConsumeAdvance ==
    /\ cpc = "advance"
    /\ divider' = next[divider]
    /\ ret' = result
    /\ got' = Append(got, result)
    /\ cpc' = "idle"
    /\ UNCHANGED <<first, last, value, next, live, producer, result,
                   order, sent, freed>>

Consumer == ConsumeCheck \/ ConsumeRead \/ ConsumeAdvance

------------------------------------------------------------------------------
(* ~LockFreeQueue(): the owner has stopped both threads.                   *)

DestroyBegin ==
    /\ ppc = "idle" /\ cpc = "idle"
    /\ ppc' = "destroy" /\ cpc' = "stopped"
    /\ UNCHANGED <<pointers, value, next, live, arg, fresh, result, ret,
                   history>>

\* while (first != NULL)
DestroyStep ==
    /\ ppc = "destroy"
    /\ IF first # NULL
       THEN DropFirst /\ UNCHANGED ppc
       ELSE ppc' = "destroyed" /\ UNCHANGED <<first, live, freed>>
    /\ UNCHANGED <<divider, last, value, next, arg, fresh, consumer,
                   order, sent, got>>

Next == Producer \/ Consumer \/ DestroyBegin \/ DestroyStep

Spec == Init /\ [][Next]_vars

------------------------------------------------------------------------------
TypeOK ==
    /\ first \in Addr \cup {NULL}
    /\ divider \in Addr /\ last \in Addr
    /\ value \in [Addr -> Values \cup {Default}]
    /\ next \in [Addr -> Addr \cup {NULL}]
    /\ live \subseteq Addr
    /\ ppc \in {"idle", "link", "publish", "scan", "reclaim",
                "destroy", "destroyed"}
    /\ arg \in Values \cup {Default} /\ fresh \in Addr \cup {NULL}
    /\ cpc \in {"idle", "read", "advance", "stopped"}
    /\ result \in Values \cup {Default}
    /\ ret \in Values \cup {Default, EMPTY}
    /\ order \in Seq(Addr)
    /\ sent \in Seq(Values) /\ got \in Seq(Values \cup {Default})
    /\ freed \in Nat

(* No thread follows a pointer to a node that was deleted: the consumer's  *)
(* divider->next->value and divider = divider->next, the producer's        *)
(* last->next, first->next and delete, the destructor's walk.              *)
NoUseAfterFree ==
    /\ cpc \in {"read", "advance"} => divider \in live /\ next[divider] \in live
    /\ ppc \in {"link", "publish"} => last \in live /\ fresh \in live
    /\ ppc = "reclaim" => first \in live
    /\ ppc = "destroy" /\ first # NULL => first \in live

(* What consume() returned, in order, is what produce() was given, in      *)
(* order: nothing is lost, duplicated, reordered or made up.               *)
Fifo == Len(got) <= Len(sent) /\ got = SubSeq(sent, 1, Len(got))

(* When the destructor is done every node ever allocated was deleted       *)
(* exactly once.                                                           *)
NothingLeaks == ppc = "destroyed" => live = {} /\ freed = Len(sent) + 1

\* The list from the dummy node on, as the abstract queue sees it.
Elements == [i \in 1 .. Len(order) - Len(got) - 1 |->
                value[order[Len(got) + 1 + i]]]

Queue == INSTANCE FifoQueue WITH q <- Elements

(* Every behaviour of the linked list is one of the atomic FIFO queue:     *)
(* produce() takes effect when last moves, consume() when divider moves,   *)
(* and consume() returning false when it compares the two.                 *)
ImplementsFifo == Queue!Spec
==============================================================================
