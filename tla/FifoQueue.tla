------------------------------ MODULE FifoQueue ------------------------------
(***************************************************************************)
(* What LockFreeQueue (src/src/util/queue.h) promises its two users: a     *)
(* first-in first-out queue whose two operations take effect at one        *)
(* instant.  consume() hands back the oldest element, or reports that      *)
(* there is none and is then telling the truth.                            *)
(***************************************************************************)
EXTENDS Sequences

CONSTANTS
    Values,     \* what the template parameter T ranges over
    EMPTY       \* consume() returned false

VARIABLES
    q,          \* elements produced and not yet consumed, oldest first
    ret         \* what the last call of consume() handed back

vars == <<q, ret>>

Init ==
    /\ q = <<>>
    /\ ret = EMPTY

Produce(v) ==
    /\ q' = Append(q, v)
    /\ UNCHANGED ret

Consume ==
    /\ q # <<>>
    /\ q' = Tail(q)
    /\ ret' = Head(q)

ConsumeNothing ==
    /\ q = <<>>
    /\ ret' = EMPTY
    /\ UNCHANGED q

Next ==
    \/ \E v \in Values : Produce(v)
    \/ Consume
    \/ ConsumeNothing

Spec == Init /\ [][Next]_vars
==============================================================================
