--------------------------------- MODULE KeyLock ---------------------------------
(***************************************************************************)
(* KeyLock and KeyLockHolder (util/key_lock.h): 2^bucket_power mutexes, a  *)
(* key is locked with the one its hash selects.  A thread calls lock() or  *)
(* makes a KeyLockHolder when it holds no key, as the users of the class   *)
(* do, and may call try_lock() at any time.                                *)
(***************************************************************************)
EXTENDS Integers

CONSTANTS
    Threads, Keys,
    Hash,           \* the hash of each key
    BucketPower,    \* bucket_power
    None            \* no thread

VARIABLES
    owner,      \* the thread that has locked a mutex of _bucket_list, or None
    held,       \* the keys that a thread has locked and not unlocked
    waiting     \* the key a thread is in lock() for: a set of one, or empty

vars == <<owner, held, waiting>>

BucketNum == 2 ^ BucketPower

\* hash(key) & _bucket_mask
Bucket(key) == Hash[key] % BucketNum

Init ==
    /\ owner = [b \in 0 .. BucketNum - 1 |-> None]
    /\ held = [t \in Threads |-> {}]
    /\ waiting = [t \in Threads |-> {}]

Running(t) == waiting[t] = {}

Acquire(t, key) ==
    /\ owner' = [owner EXCEPT ![Bucket(key)] = t]
    /\ held' = [held EXCEPT ![t] = @ \cup {key}]

\* lock() is called; pthread_mutex_lock() returns when the mutex is free.
Lock(t, key) ==
    /\ Running(t) /\ held[t] = {}
    /\ waiting' = [waiting EXCEPT ![t] = {key}]
    /\ UNCHANGED <<owner, held>>

Locked(t, key) ==
    /\ key \in waiting[t]
    /\ owner[Bucket(key)] = None
    /\ Acquire(t, key)
    /\ waiting' = [waiting EXCEPT ![t] = {}]

\* Mutant: try_lock() succeeds when pthread_mutex_trylock() returned EBUSY.
TryLockAlways(t, key) ==
    /\ Running(t)
    /\ IF owner[Bucket(key)] = None THEN Acquire(t, key)
       ELSE held' = [held EXCEPT ![t] = @ \cup {key}] /\ UNCHANGED owner
    /\ UNCHANGED waiting

TryLock(t, key) ==
    /\ Running(t)
    /\ IF owner[Bucket(key)] = None THEN Acquire(t, key) ELSE UNCHANGED <<owner, held>>
    /\ UNCHANGED waiting

\* unlock(), or the end of a KeyLockHolder's life.
Unlock(t, key) ==
    /\ Running(t) /\ key \in held[t]
    /\ owner' = [owner EXCEPT ![Bucket(key)] = None]
    /\ held' = [held EXCEPT ![t] = @ \ {key}]
    /\ UNCHANGED waiting

Next ==
    \E t \in Threads, key \in Keys :
        Lock(t, key) \/ Locked(t, key) \/ TryLock(t, key) \/ Unlock(t, key)

Spec == Init /\ [][Next]_vars

\* A key is locked by one thread at a time, although keys share mutexes; the mutex
\* of a key belongs to the thread that holds the key, and only a thread that is
\* running is ever waited for, so that nobody waits for ever (key_lock.h:36).
KeysExclusive ==
    /\ \A t \in Threads, key \in Keys : key \in held[t] => owner[Bucket(key)] = t
    /\ \A t \in Threads : \A k, l \in held[t] : Bucket(k) = Bucket(l) => k = l
    /\ \A t \in Threads, key \in Keys : key \in waiting[t] =>
          owner[Bucket(key)] = None
          \/ \E u \in Threads : u # t /\ Running(u) /\ owner[Bucket(key)] = u
=============================================================================
