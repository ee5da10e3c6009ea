------------------------------- MODULE UtilProofs -------------------------------
(***************************************************************************)
(* The invariants of the utility libraries that keep state, for every      *)
(* value of the constants: Sds and KeyLock here, Stat and Zmalloc in       *)
(* CountProofs.  The libraries share nothing, so each has an inductive     *)
(* invariant of its own.                                                   *)
(***************************************************************************)
EXTENDS Util, WellFoundedInduction, TLAPS

-----------------------------------------------------------------------------
(* KeyLock: any number of threads, keys and mutexes and any hash.          *)

\* The assumption on the constants, as the proofs use it.
LEMMA LockConstants ==
    /\ BucketPower \in Nat /\ KEYS!BucketNum \in Nat \ {0}
    /\ Hash \in [LockKeys -> Nat]
    /\ None \notin Procs
  BY UtilConstants DEF KEYS!BucketNum

LockType ==
    /\ owner \in [0 .. KEYS!BucketNum - 1 -> Procs \cup {None}]
    /\ held \in [Procs -> SUBSET LockKeys]
    /\ waiting \in [Procs -> SUBSET LockKeys]

\* A locked mutex was locked for a key its thread holds, and a thread that waits
\* holds none: nobody waits for a thread that waits.
LockHeld ==
    /\ \A t \in Procs, lkey \in LockKeys : lkey \in held[t] => owner[KEYS!Bucket(lkey)] = t
    /\ \A b \in 0 .. KEYS!BucketNum - 1 :
          owner[b] # None => \E lkey \in held[owner[b]] : KEYS!Bucket(lkey) = b
    /\ \A t \in Procs : \A k, l \in held[t] : KEYS!Bucket(k) = KEYS!Bucket(l) => k = l
    /\ \A t \in Procs : waiting[t] # {} => held[t] = {}

LockInv == LockType /\ LockHeld

\* hash(key) & _bucket_mask is an index of _bucket_list (key_lock.h:52).
LEMMA BucketInRange ==
    ASSUME NEW lkey \in LockKeys PROVE KEYS!Bucket(lkey) \in 0 .. KEYS!BucketNum - 1
<1>1. Hash[lkey] \in Nat /\ KEYS!BucketNum \in Nat \ {0}
  BY LockConstants
<1>2. Hash[lkey] % KEYS!BucketNum \in 0 .. KEYS!BucketNum - 1
  BY <1>1
<1> QED BY <1>2 DEF KEYS!Bucket

\* At first nothing is locked.
LEMMA LockInitInv == ASSUME KEYS!Init PROVE LockInv
  BY LockConstants DEF KEYS!Init, LockInv, LockType, LockHeld

\* A free mutex that is locked for a key (pthread_mutex_lock, _trylock).
LEMMA AcquireInv ==
    ASSUME LockInv, NEW t \in Procs, NEW lkey \in LockKeys,
           owner[KEYS!Bucket(lkey)] = None, KEYS!Acquire(t, lkey),
           waiting' \in [Procs -> SUBSET LockKeys],
           \A u \in Procs : waiting'[u] = IF u = t THEN {} ELSE waiting[u]
    PROVE  LockInv'
<1>1. KEYS!Bucket(lkey) \in 0 .. KEYS!BucketNum - 1 /\ None # t
  BY BucketInRange, LockConstants
<1>2. LockType'
  BY <1>1, Zenon DEF LockInv, LockType, KEYS!Acquire
<1>3. /\ \A b \in 0 .. KEYS!BucketNum - 1 : owner'[b] = IF b = KEYS!Bucket(lkey) THEN t ELSE owner[b]
      /\ \A u \in Procs : held'[u] = IF u = t THEN held[u] \cup {lkey} ELSE held[u]
  BY <1>1 DEF LockInv, LockType, KEYS!Acquire
<1>4. \A u \in Procs : \A k \in held[u] :
          k \in LockKeys /\ KEYS!Bucket(k) \in 0 .. KEYS!BucketNum - 1 /\ KEYS!Bucket(k) # KEYS!Bucket(lkey)
  BY BucketInRange, LockConstants DEF LockInv, LockType, LockHeld
<1>5. LockHeld'
  <2>1. ASSUME NEW u \in Procs, NEW k \in LockKeys, k \in held'[u]
        PROVE  owner'[KEYS!Bucket(k)] = u
    <3>1. CASE k \in held[u]
      <4>1. owner[KEYS!Bucket(k)] = u
        BY <3>1 DEF LockInv, LockHeld
      <4> QED BY <1>3, <1>4, <3>1, <4>1
    <3>2. CASE k \notin held[u]
      <4>1. u = t /\ k = lkey
        BY <1>3, <2>1, <3>2, Zenon
      <4> QED BY <1>1, <1>3, <4>1
    <3> QED BY <3>1, <3>2
  <2>2. ASSUME NEW b \in 0 .. KEYS!BucketNum - 1, owner'[b] # None
        PROVE  \E k \in held'[owner'[b]] : KEYS!Bucket(k) = b
    <3>1. CASE b = KEYS!Bucket(lkey)
      BY <1>3, <3>1, Zenon
    <3>2. CASE b # KEYS!Bucket(lkey)
      <4>1. owner'[b] = owner[b] /\ owner[b] \in Procs
        BY <1>3, <2>2, <3>2 DEF LockInv, LockType
      <4>2. PICK k \in held[owner[b]] : KEYS!Bucket(k) = b
        BY <2>2, <4>1 DEF LockInv, LockHeld
      <4>3. k \in held'[owner'[b]]
        BY <1>3, <4>1, <4>2, Zenon
      <4> QED BY <4>2, <4>3
    <3> QED BY <3>1, <3>2
  <2>3. ASSUME NEW u \in Procs, NEW k \in held'[u], NEW l \in held'[u],
               KEYS!Bucket(k) = KEYS!Bucket(l)
        PROVE  k = l
    <3>1. \A x \in held'[u] : x \in held[u] \/ x = lkey
      BY <1>3, Zenon
    <3>2. k \in held[u] /\ l \in held[u] => k = l
      BY <2>3 DEF LockInv, LockHeld
    <3>3. k \in held[u] /\ l = lkey => FALSE
      BY <1>4, <2>3
    <3>4. l \in held[u] /\ k = lkey => FALSE
      BY <1>4, <2>3
    <3> QED BY <3>1, <3>2, <3>3, <3>4
  <2>4. \A u \in Procs : waiting'[u] # {} => held'[u] = {}
    BY <1>3, Zenon DEF LockInv, LockHeld
  <2> QED BY <2>1, <2>2, <2>3, <2>4 DEF LockHeld, KEYS!Bucket, KEYS!BucketNum
<1> QED BY <1>2, <1>5 DEF LockInv

\* unlock() frees the mutex of a key that is held.
LEMMA UnlockInv ==
    ASSUME LockInv, NEW t \in Procs, NEW lkey \in LockKeys, KEYS!Unlock(t, lkey)
    PROVE  LockInv'
<1>1. /\ KEYS!Bucket(lkey) \in 0 .. KEYS!BucketNum - 1
      /\ lkey \in held[t] /\ owner[KEYS!Bucket(lkey)] = t /\ waiting' = waiting
  BY BucketInRange DEF LockInv, LockHeld, KEYS!Unlock
<1>2. LockType'
  BY <1>1 DEF LockInv, LockType, KEYS!Unlock
<1>3. /\ \A b \in 0 .. KEYS!BucketNum - 1 : owner'[b] = IF b = KEYS!Bucket(lkey) THEN None ELSE owner[b]
      /\ \A u \in Procs : held'[u] = IF u = t THEN held[u] \ {lkey} ELSE held[u]
  BY <1>1, Zenon DEF LockInv, LockType, KEYS!Unlock
<1>4. LockHeld'
  <2>1. ASSUME NEW u \in Procs, NEW k \in LockKeys, k \in held'[u]
        PROVE  owner'[KEYS!Bucket(k)] = u
    <3>1. k \in held[u] /\ ~(u = t /\ k = lkey) /\ KEYS!Bucket(k) \in 0 .. KEYS!BucketNum - 1
      BY <1>3, <2>1, BucketInRange, Zenon
    <3>2. owner[KEYS!Bucket(k)] = u
      BY <3>1 DEF LockInv, LockHeld
    <3>3. KEYS!Bucket(k) # KEYS!Bucket(lkey)
      <4>1. KEYS!Bucket(k) = KEYS!Bucket(lkey) => u = t
        BY <1>1, <3>2
      <4>2. KEYS!Bucket(k) = KEYS!Bucket(lkey) /\ u = t => k = lkey
        BY <1>1, <3>1 DEF LockInv, LockHeld
      <4> QED BY <3>1, <4>1, <4>2
    <3> QED BY <1>3, <3>1, <3>2, <3>3
  <2>2. ASSUME NEW b \in 0 .. KEYS!BucketNum - 1, owner'[b] # None
        PROVE  \E k \in held'[owner'[b]] : KEYS!Bucket(k) = b
    <3>1. b # KEYS!Bucket(lkey) /\ owner'[b] = owner[b] /\ owner[b] \in Procs
      BY <1>3, <2>2 DEF LockInv, LockType
    <3>2. PICK k \in held[owner[b]] : KEYS!Bucket(k) = b
      BY <2>2, <3>1 DEF LockInv, LockHeld
    <3>3. k \in held'[owner'[b]]
      BY <1>3, <3>1, <3>2, Zenon
    <3> QED BY <3>2, <3>3
  <2>3. ASSUME NEW u \in Procs, NEW k \in held'[u], NEW l \in held'[u],
               KEYS!Bucket(k) = KEYS!Bucket(l)
        PROVE  k = l
    <3>1. k \in held[u] /\ l \in held[u]
      BY <1>3, Zenon
    <3> QED BY <2>3, <3>1 DEF LockInv, LockHeld
  <2>4. \A u \in Procs : waiting'[u] # {} => held'[u] = {}
    BY <1>1, <1>3, Zenon DEF LockInv, LockHeld
  <2> QED BY <2>1, <2>2, <2>3, <2>4 DEF LockHeld, KEYS!Bucket, KEYS!BucketNum
<1> QED BY <1>2, <1>4 DEF LockInv

\* Every step of KeyLock and KeyLockHolder keeps the invariant.
LEMMA LockNextInv ==
    ASSUME LockInv, KEYS!Next \/ UNCHANGED locks PROVE LockInv'
<1>1. ASSUME NEW t \in Procs, NEW lkey \in LockKeys, KEYS!Lock(t, lkey) PROVE LockInv'
  <2>1. LockType'
    BY <1>1 DEF LockInv, LockType, KEYS!Lock
  <2>2. LockHeld'
    BY <1>1 DEF LockInv, LockType, LockHeld, KEYS!Lock, KEYS!Bucket, KEYS!BucketNum
  <2> QED BY <2>1, <2>2 DEF LockInv
<1>2. ASSUME NEW t \in Procs, NEW lkey \in LockKeys, KEYS!Locked(t, lkey) PROVE LockInv'
  <2>1. waiting' \in [Procs -> SUBSET LockKeys]
    BY <1>2 DEF LockInv, LockType, KEYS!Locked
  <2>2. \A u \in Procs : waiting'[u] = IF u = t THEN {} ELSE waiting[u]
    BY <1>2 DEF LockInv, LockType, KEYS!Locked
  <2>3. owner[KEYS!Bucket(lkey)] = None /\ KEYS!Acquire(t, lkey)
    BY <1>2 DEF KEYS!Locked
  <2> QED BY <2>1, <2>2, <2>3, AcquireInv
<1>3. ASSUME UNCHANGED locks PROVE LockInv'
  BY <1>3 DEF LockInv, LockType, LockHeld, locks, KEYS!Bucket, KEYS!BucketNum
<1>4. ASSUME NEW t \in Procs, NEW lkey \in LockKeys, KEYS!TryLock(t, lkey) PROVE LockInv'
  <2>1. /\ waiting' = waiting /\ waiting[t] = {}
        /\ \/ owner[KEYS!Bucket(lkey)] = None /\ KEYS!Acquire(t, lkey)
           \/ UNCHANGED <<owner, held>>
    BY <1>4 DEF KEYS!TryLock, KEYS!Running
  <2>2. CASE owner[KEYS!Bucket(lkey)] = None /\ KEYS!Acquire(t, lkey)
    BY <2>1, <2>2, AcquireInv DEF LockInv, LockType
  <2>3. CASE UNCHANGED <<owner, held>>
    BY <1>3, <2>1, <2>3 DEF locks
  <2> QED BY <2>1, <2>2, <2>3
<1> QED BY <1>1, <1>2, <1>3, <1>4, UnlockInv DEF KEYS!Next

\* The invariant implies KeysExclusive: the holder of a mutex that is waited for
\* does not wait itself.
LEMMA LockedFromInv == LockInv => KEYS!KeysExclusive
<1> SUFFICES ASSUME LockInv,
                    NEW t \in Procs, NEW lkey \in LockKeys, lkey \in waiting[t],
                    owner[KEYS!Bucket(lkey)] # None
             PROVE  \E u \in Procs : u # t /\ KEYS!Running(u) /\ owner[KEYS!Bucket(lkey)] = u
  BY DEF LockInv, LockHeld, KEYS!KeysExclusive
<1>1. KEYS!Bucket(lkey) \in 0 .. KEYS!BucketNum - 1
  BY BucketInRange
<1>2. PICK u \in Procs : owner[KEYS!Bucket(lkey)] = u
  BY <1>1 DEF LockInv, LockType
<1>3. held[u] # {}
  BY <1>1, <1>2 DEF LockInv, LockHeld
<1>4. waiting[u] = {}
  BY <1>3 DEF LockInv, LockHeld
<1> QED BY <1>2, <1>4 DEF KEYS!Running

-----------------------------------------------------------------------------
(* The least and the greatest number of a set.                             *)

\* A set of natural numbers has a least one.
LEMMA LeastNumber ==
    ASSUME NEW S \in SUBSET Nat, S # {} PROVE \E m \in S : \A n \in S : m <= n
<1> DEFINE R == OpToRel(<, Nat)
<1>1. IsWellFoundedOn(R, Nat)
  BY NatLessThanWellFounded, Zenon
<1> HIDE DEF R
<1>2. PICK x \in S : \A y \in S : ~(<<y, x>> \in R)
  BY <1>1, WFMin, Zenon
<1>3. \A y \in S : y < x => <<y, x>> \in R
  BY DEF R, OpToRel
<1>4. \A y \in S : y \in Nat
  OBVIOUS
<1>5. \A y \in S : ~(y < x)
  BY <1>2, <1>3, Zenon
<1>6. \A y \in S : x <= y
  BY <1>4, <1>5
<1> QED BY <1>6

\* And a greatest one when it is bounded.
LEMMA GreatestNumber ==
    ASSUME NEW b \in Nat, NEW S \in SUBSET (0 .. b), S # {}
    PROVE  \E m \in S : \A n \in S : n <= m
<1> DEFINE T == {b - n : n \in S}
<1>1. T \in SUBSET Nat /\ T # {}
  <2>1. \A n \in S : n \in 0 .. b /\ b - n \in Nat
    OBVIOUS
  <2> QED BY <2>1, Zenon
<1>2. PICK t \in T : \A u \in T : t <= u
  <2> HIDE DEF T
  <2> QED BY <1>1, LeastNumber
<1>3. PICK m \in S : t = b - m
  OBVIOUS
<1>4. \A n \in S : b - m <= b - n
  BY <1>2, <1>3
<1> QED BY <1>4

-----------------------------------------------------------------------------
(* Sds: any bytes, any lengths.                                            *)

Byte == Bytes \cup {Nul}
Memory == Byte \cup {Junk}

StringType ==
    /\ len \in Nat /\ free \in Nat /\ alloc \in Nat
    /\ buf \in [0 .. alloc - 1 -> Memory]
    /\ text \in Seq(Byte)

\* The memory is what the header says and the string is the text.
StringInv == StringType /\ SDS!StringOk

\* The invariant of Sds holds initially.
LEMMA StringInitInv == ASSUME SDS!Init PROVE StringInv
  BY DEF SDS!Init, StringInv, StringType, SDS!StringOk, Memory, Byte

\* A string of n bytes in memory of c + 1 bytes that has the text t.
LEMMA StringMade ==
    ASSUME NEW c \in Nat, NEW n \in Nat, n <= c, NEW t \in Seq(Byte), Len(t) = n,
           len' = n, free' = c - n, alloc' = c + 1, buf' \in [0 .. c -> Memory],
           text' = t, safe', \A k \in 0 .. n - 1 : buf'[k] = t[k + 1], buf'[n] = Nul
    PROVE  StringInv'
  BY DEF StringInv, StringType, SDS!StringOk

\* sdsMakeRoomFor(): the memory has room for n more bytes and keeps the string.
LEMMA RoomFacts ==
    ASSUME StringInv, NEW n \in Nat
    PROVE  /\ SDS!Capacity(n) \in Nat /\ len + n <= SDS!Capacity(n)
           /\ SDS!RoomSize(n) = SDS!Capacity(n) + 1
           /\ SDS!Room(n) \in [0 .. SDS!Capacity(n) -> Memory]
           /\ \A k \in 0 .. len : SDS!Room(n)[k] = buf[k]
<1>1. /\ len \in Nat /\ free \in Nat /\ alloc = len + free + 1
      /\ buf \in [0 .. alloc - 1 -> Memory]
  BY DEF StringInv, StringType, SDS!StringOk
<1>2. CASE free >= n
  BY <1>1, <1>2 DEF SDS!Capacity, SDS!Room, SDS!RoomSize
<1>3. CASE ~(free >= n)
  <2>1. SDS!Capacity(n) \in Nat /\ len + n <= SDS!Capacity(n)
    BY <1>1, <1>3, UtilConstants DEF SDS!Capacity, SDS!NewLen
  <2>2. /\ SDS!RoomSize(n) = SDS!Capacity(n) + 1
        /\ SDS!Room(n) = SDS!Realloc(buf, SDS!Capacity(n) + 1)
    BY <1>3 DEF SDS!Room, SDS!RoomSize
  <2>3. \A m \in Nat : /\ SDS!Realloc(buf, m + 1) \in [0 .. m -> Memory]
                       /\ \A k \in 0 .. m : k < alloc => SDS!Realloc(buf, m + 1)[k] = buf[k]
    BY <1>1 DEF SDS!Realloc, Memory
  <2>4. \A k \in 0 .. len : k < alloc /\ k \in 0 .. SDS!Capacity(n)
    BY <1>1, <2>1
  <2> QED BY <2>1, <2>2, <2>3, <2>4, Zenon
<1> QED BY <1>2, <1>3

\* memcpy() of a text behind i bytes, and the terminator.
LEMMA PutFacts ==
    ASSUME NEW c \in Nat, NEW m \in [0 .. c -> Memory], NEW i \in Nat, NEW t \in Seq(Byte),
           NEW e \in Nat, e <= c, i + Len(t) = e
    PROVE  SDS!SetNul(SDS!Put(m, i, t), e) =
               [k \in 0 .. c |-> IF k = e THEN Nul ELSE IF k < i \/ k > e THEN m[k] ELSE t[k - i + 1]]
<1> DEFINE p == SDS!Put(m, i, t)
           f == [k \in 0 .. c |-> IF k = e THEN Nul ELSE IF k < i \/ k > e THEN m[k] ELSE t[k - i + 1]]
<1>1. Len(t) \in Nat /\ DOMAIN m = 0 .. c
  OBVIOUS
<1>2. p = [k \in 0 .. c |-> IF k >= i /\ k < i + Len(t) THEN t[k - i + 1] ELSE m[k]]
  BY <1>1 DEF SDS!Put
<1> HIDE DEF p
<1>3. SDS!SetNul(p, e) = [k \in 0 .. c |-> IF k = e THEN Nul ELSE p[k]]
  BY <1>2, Zenon DEF SDS!SetNul
<1>4. \A k \in 0 .. c : k # e => p[k] = f[k]
  BY <1>1, <1>2
<1>5. SDS!SetNul(p, e) = f
  BY <1>3, <1>4
<1> QED BY <1>5 DEF p

\* An argument is a text.
LEMMA ArgFacts ==
    ASSUME NEW t \in SDS!Args PROVE t \in Seq(Byte) /\ Len(t) \in Nat /\ Len(t) <= MaxArg
<1>1. PICK n \in 0 .. MaxArg : t \in [1 .. n -> Byte]
  BY DEF SDS!Args, Byte
<1>2. n \in Nat /\ n <= MaxArg
  BY UtilConstants
<1> QED BY <1>1, <1>2

\* Two texts one behind the other.
LEMMA JoinedTexts ==
    ASSUME NEW s \in Seq(Byte), NEW u \in Seq(Byte)
    PROVE  s \o u \in Seq(Byte) /\ Len(s \o u) = Len(s) + Len(u)
OBVIOUS

\* A text is put behind the string, with room for n bytes: sdscatlen(), and a
\* read() with sdsIncrLen().
Appends(n, t) ==
    /\ buf' = SDS!SetNul(SDS!Put(SDS!Room(n), len, t), len + Len(t))
    /\ alloc' = SDS!RoomSize(n) /\ len' = len + Len(t)
    /\ free' = SDS!Capacity(n) - len - Len(t) /\ text' = text \o t
    /\ safe' = (safe /\ len + Len(t) < SDS!RoomSize(n))

\* Every operation that appends, with the memory it makes room in.
LEMMA AppendStep ==
    ASSUME StringInv, NEW n \in Nat, NEW t \in Seq(Byte), Len(t) <= n, Appends(n, t)
    PROVE  StringInv'
<1> DEFINE c == SDS!Capacity(n)
           r == SDS!Room(n)
           e == Len(text) + Len(t)
<1>1. /\ len = Len(text) /\ Len(text) \in Nat /\ Len(t) \in Nat /\ text \in Seq(Byte)
      /\ \A k \in 0 .. Len(text) - 1 : buf[k] = text[k + 1]
  BY DEF StringInv, StringType, SDS!StringOk
<1>2. /\ c \in Nat /\ Len(text) + n <= c /\ SDS!RoomSize(n) = c + 1
      /\ r \in [0 .. c -> Memory] /\ \A k \in 0 .. Len(text) : r[k] = buf[k]
  BY <1>1, RoomFacts, Zenon
<1>3. e \in Nat /\ Len(text) + Len(t) <= c
  <2> HIDE DEF c
  <2> QED BY <1>1, <1>2
<1>4. /\ buf' = SDS!SetNul(SDS!Put(r, Len(text), t), e) /\ alloc' = c + 1 /\ len' = e
      /\ free' = c - Len(text) - Len(t) /\ text' = text \o t
      /\ safe' = (safe /\ e < c + 1)
  BY <1>1, <1>2 DEF Appends
<1> HIDE DEF c, r
<1>5. safe'
  <2>1. safe /\ e < c + 1
    BY <1>2, <1>3 DEF StringInv, SDS!StringOk
  <2> QED BY <1>4, <2>1, Zenon
<1>6. free' = c - e
  BY <1>1, <1>2, <1>4
<1>7. \A k \in 0 .. Len(text) - 1 : r[k] = text[k + 1]
  <2> SUFFICES ASSUME NEW k \in 0 .. Len(text) - 1 PROVE r[k] = text[k + 1]
    OBVIOUS
  <2>1. k \in 0 .. Len(text)
    BY <1>1
  <2> QED BY <1>1, <1>2, <2>1, Zenon
<1>8. buf' = [k \in 0 .. c |-> IF k = e THEN Nul ELSE IF k < Len(text) \/ k > e THEN r[k]
                               ELSE t[k - Len(text) + 1]]
  <2> DEFINE l == Len(text)
  <2>1. l \in Nat /\ e <= c /\ l + Len(t) = e /\ buf' = SDS!SetNul(SDS!Put(r, l, t), e)
    BY <1>1, <1>3, <1>4
  <2> HIDE DEF e, l
  <2>2. SDS!SetNul(SDS!Put(r, l, t), e) =
            [k \in 0 .. c |-> IF k = e THEN Nul ELSE IF k < l \/ k > e THEN r[k] ELSE t[k - l + 1]]
    BY <1>2, <1>3, <2>1, PutFacts
  <2> QED BY <2>1, <2>2 DEF l
<1>9. /\ buf' \in [0 .. c -> Memory] /\ buf'[e] = Nul
      /\ \A k \in 0 .. e - 1 : buf'[k] = (text \o t)[k + 1]
  <2>1. \A k \in Len(text) .. e - 1 : t[k - Len(text) + 1] \in Byte
    BY <1>1
  <2>2. buf' \in [0 .. c -> Memory] /\ buf'[e] = Nul
    <3> SUFFICES ASSUME NEW k \in 0 .. c PROVE buf'[k] \in Memory
      BY <1>3, <1>8
    <3> QED BY <1>1, <1>2, <1>3, <1>8, <2>1 DEF Memory, Byte
  <2>3. ASSUME NEW k \in 0 .. e - 1 PROVE buf'[k] = (text \o t)[k + 1]
    <3>1. k \in 0 .. c /\ k # e
      BY <1>1, <1>2, <1>3
    <3>2. CASE k < Len(text)
      <4>1. buf'[k] = r[k] /\ r[k] = text[k + 1]
        BY <1>7, <1>8, <3>1, <3>2
      <4>2. (text \o t)[k + 1] = text[k + 1]
        BY <1>1, <3>2
      <4> QED BY <4>1, <4>2
    <3>3. CASE ~(k < Len(text))
      <4>1. buf'[k] = t[k - Len(text) + 1]
        BY <1>8, <3>1, <3>3
      <4>2. (text \o t)[k + 1] = t[k + 1 - Len(text)] /\ k + 1 - Len(text) = k - Len(text) + 1
        BY <1>1, <3>3
      <4> QED BY <4>1, <4>2
    <3> QED BY <3>2, <3>3
  <2> QED BY <2>2, <2>3
<1>10. text \o t \in Seq(Byte) /\ Len(text \o t) = e
  BY <1>1
<1>11. len' = e /\ alloc' = c + 1 /\ text' = text \o t /\ e <= c
  BY <1>3, <1>4
<1> DEFINE x == text \o t
<1>12. /\ x \in Seq(Byte) /\ Len(x) = e /\ text' = x /\ e \in Nat
       /\ \A k \in 0 .. e - 1 : buf'[k] = x[k + 1]
  BY <1>3, <1>9, <1>10, <1>11
<1> HIDE DEF e, x
<1> QED BY <1>2, <1>5, <1>6, <1>9, <1>11, <1>12, StringMade

\* sdscpylen(): the text takes the place of the string.
LEMMA CopyStep ==
    ASSUME StringInv, NEW t \in Seq(Byte), SDS!SdsCpyLen(t) PROVE StringInv'
<1> DEFINE n   == Len(t)
           add == IF len + free < n THEN n - len ELSE 0
           c   == SDS!Capacity(add)
<1>1. /\ buf' = SDS!SetNul(SDS!Put(SDS!Room(add), 0, t), n)
      /\ alloc' = SDS!RoomSize(add) /\ len' = n /\ free' = SDS!Capacity(add) - n
      /\ text' = t /\ safe' = (safe /\ n < SDS!RoomSize(add))
  BY DEF SDS!SdsCpyLen
<1>2. len \in Nat /\ free \in Nat /\ n \in Nat /\ safe
  BY DEF StringInv, StringType, SDS!StringOk
<1>3. add \in Nat
  BY <1>2
<1>4. /\ c \in Nat /\ len + add <= c /\ SDS!RoomSize(add) = c + 1
      /\ SDS!Room(add) \in [0 .. c -> Memory]
  <2> HIDE DEF add
  <2> QED BY <1>3, RoomFacts, Zenon
<1>5. n <= c
  <2>1. CASE len + free < n
    BY <1>2, <1>4, <2>1
  <2>2. CASE ~(len + free < n)
    BY <1>2, <2>2 DEF SDS!Capacity
  <2> QED BY <2>1, <2>2
<1> HIDE DEF c, add
<1>7. buf' = [k \in 0 .. c |-> IF k = n THEN Nul ELSE IF k < 0 \/ k > n THEN SDS!Room(add)[k]
                               ELSE t[k - 0 + 1]]
  <2> DEFINE r == SDS!Room(add)
  <2>1. r \in [0 .. c -> Memory] /\ 0 + Len(t) = n /\ buf' = SDS!SetNul(SDS!Put(r, 0, t), n)
    BY <1>1, <1>2, <1>4
  <2> HIDE DEF r, n
  <2>2. SDS!SetNul(SDS!Put(r, 0, t), n) =
            [k \in 0 .. c |-> IF k = n THEN Nul ELSE IF k < 0 \/ k > n THEN r[k] ELSE t[k - 0 + 1]]
    BY <1>2, <1>4, <1>5, <2>1, PutFacts
  <2> QED BY <2>1, <2>2 DEF r
<1>8. /\ buf' \in [0 .. c -> Memory] /\ buf'[n] = Nul
      /\ \A k \in 0 .. n - 1 : buf'[k] = t[k + 1]
  BY <1>2, <1>4, <1>5, <1>7 DEF Memory, Byte
<1>9. free' = c - n /\ alloc' = c + 1 /\ safe'
  <2>1. free' = c - n /\ alloc' = c + 1
    BY <1>1, <1>4 DEF c
  <2>2. n < SDS!RoomSize(add)
    BY <1>2, <1>4, <1>5
  <2>3. safe'
    BY <1>1, <1>2, <2>2, Zenon
  <2> QED BY <2>1, <2>3
<1> QED BY <1>1, <1>2, <1>4, <1>5, <1>8, <1>9, StringMade, Zenon

\* sdsgrowzero(): bytes 0 behind the string.
LEMMA GrowStep ==
    ASSUME StringInv, NEW n \in Nat, SDS!SdsGrowZero(n) PROVE StringInv'
<1> DEFINE c == SDS!Capacity(n - len)
           r == SDS!Room(n - len)
           z == [k \in 1 .. n - len |-> Nul]
<1>1. /\ n > len /\ len' = n /\ free' = SDS!Capacity(n - len) - n
      /\ buf' = [k \in DOMAIN r |-> IF k >= len /\ k <= n THEN Nul ELSE r[k]]
      /\ alloc' = SDS!RoomSize(n - len) /\ text' = text \o z
      /\ safe' = (safe /\ n < SDS!RoomSize(n - len))
  BY DEF SDS!SdsGrowZero
<1>2. /\ len \in Nat /\ text \in Seq(Byte) /\ len = Len(text) /\ safe
      /\ \A k \in 0 .. len - 1 : buf[k] = text[k + 1]
  BY DEF StringInv, StringType, SDS!StringOk
<1>3. n - len \in Nat
  BY <1>1, <1>2
<1>4. /\ c \in Nat /\ len + (n - len) <= c /\ SDS!RoomSize(n - len) = c + 1
      /\ r \in [0 .. c -> Memory] /\ \A k \in 0 .. len : r[k] = buf[k]
  BY <1>3, RoomFacts, Zenon
<1>5. z \in Seq(Byte) /\ Len(z) = n - len /\ \A k \in 1 .. n - len : z[k] = Nul
  BY <1>3 DEF Byte
<1>6. free' = c - n /\ alloc' = c + 1
  BY <1>1, <1>4
<1> HIDE DEF c, r, z
<1>7. n <= c /\ safe'
  <2>1. n <= c
    BY <1>2, <1>4
  <2>2. n < SDS!RoomSize(n - len)
    BY <1>4, <2>1
  <2>3. safe'
    BY <1>1, <1>2, <2>2, Zenon
  <2> QED BY <2>1, <2>3
<1>8. /\ buf' \in [0 .. c -> Memory] /\ buf'[n] = Nul
      /\ \A k \in 0 .. n - 1 : buf'[k] = IF k < len THEN r[k] ELSE Nul
  BY <1>1, <1>2, <1>4, <1>7 DEF Memory, Byte
<1>9. /\ text \o z \in Seq(Byte) /\ Len(text \o z) = n
      /\ \A k \in 0 .. n - 1 : (text \o z)[k + 1] = IF k < len THEN text[k + 1] ELSE Nul
  <2>1. Len(text \o z) = n /\ text \o z \in Seq(Byte)
    <3>1. /\ text \in Seq(Byte) /\ z \in Seq(Byte)
          /\ Len(text) = len /\ Len(z) = n - len /\ len \in Nat /\ n \in Nat
      BY <1>2, <1>5, Zenon
    <3>2. text \o z \in Seq(Byte) /\ Len(text \o z) = Len(text) + Len(z)
      BY <3>1, JoinedTexts, Zenon
    <3> QED BY <3>1, <3>2
  <2> SUFFICES ASSUME NEW k \in 0 .. n - 1
               PROVE  (text \o z)[k + 1] = IF k < len THEN text[k + 1] ELSE Nul
    BY <2>1
  <2>2. CASE k < len
    BY <1>2, <1>3, <1>5, <2>2
  <2>3. CASE ~(k < len)
    <3>1. (text \o z)[k + 1] = z[k + 1 - len] /\ k + 1 - len \in 1 .. n - len
      BY <1>2, <1>3, <1>5, <2>3
    <3> QED BY <1>5, <2>3, <3>1
  <2> QED BY <2>2, <2>3, Zenon
<1>10. \A k \in 0 .. n - 1 : buf'[k] = (text \o z)[k + 1]
  <2> SUFFICES ASSUME NEW k \in 0 .. n - 1 PROVE buf'[k] = (text \o z)[k + 1]
    BY Zenon
  <2>1. CASE k < len
    <3>1. k \in 0 .. len - 1 /\ k \in 0 .. len
      BY <1>2, <2>1
    <3>2. buf'[k] = r[k] /\ r[k] = buf[k] /\ buf[k] = text[k + 1]
      BY <1>2, <1>4, <1>8, <2>1, <3>1
    <3> QED BY <1>9, <2>1, <3>2
  <2>2. CASE ~(k < len)
    BY <1>8, <1>9, <2>2
  <2> QED BY <2>1, <2>2, Zenon
<1> QED BY <1>1, <1>4, <1>6, <1>7, <1>8, <1>9, <1>10, StringMade, Zenon

\* The memory grows or shrinks and the string stays.
LEMMA RoomStep ==
    ASSUME StringInv, NEW n \in Nat, SDS!SdsMakeRoomFor(n) PROVE StringInv'
<1> DEFINE c == SDS!Capacity(n)
           r == SDS!Room(n)
<1>1. /\ len \in Nat /\ text \in Seq(Byte) /\ len = Len(text) /\ safe /\ buf[len] = Nul
      /\ \A k \in 0 .. len - 1 : buf[k] = text[k + 1]
  BY DEF StringInv, StringType, SDS!StringOk
<1>2. /\ c \in Nat /\ len + n <= c /\ SDS!RoomSize(n) = c + 1
      /\ r \in [0 .. c -> Memory] /\ \A k \in 0 .. len : r[k] = buf[k]
  BY RoomFacts, Zenon
<1>3. /\ buf' = r /\ alloc' = c + 1 /\ free' = c - len /\ len' = len /\ text' = text
      /\ safe' = safe
  BY <1>2 DEF SDS!SdsMakeRoomFor
<1> HIDE DEF c, r
<1>4. len <= c
  BY <1>1, <1>2
<1>5. \A k \in 0 .. len - 1 : k \in 0 .. len /\ len \in 0 .. len
  BY <1>1
<1>6. /\ buf' \in [0 .. c -> Memory] /\ buf'[len] = Nul
      /\ \A k \in 0 .. len - 1 : buf'[k] = text[k + 1]
  BY <1>1, <1>2, <1>3
<1>7. safe'
  BY <1>1, <1>3
<1> QED BY <1>1, <1>2, <1>3, <1>4, <1>6, <1>7, StringMade, Zenon

\* sdsRemoveFreeSpace().
LEMMA ShrinkStep ==
    ASSUME StringInv, SDS!SdsRemoveFreeSpace PROVE StringInv'
<1>1. /\ len \in Nat /\ free \in Nat /\ alloc = len + free + 1
      /\ buf \in [0 .. alloc - 1 -> Memory]
      /\ text \in Seq(Byte) /\ len = Len(text) /\ safe /\ buf[len] = Nul
      /\ \A k \in 0 .. len - 1 : buf[k] = text[k + 1]
  BY DEF StringInv, StringType, SDS!StringOk
<1>2. /\ buf' = [k \in 0 .. len |-> IF k \in DOMAIN buf THEN buf[k] ELSE Junk]
      /\ alloc' = len + 1 /\ free' = len - len /\ len' = len /\ text' = text /\ safe' = safe
  BY <1>1 DEF SDS!SdsRemoveFreeSpace, SDS!Realloc
<1>3. \A k \in 0 .. len : k \in DOMAIN buf
  BY <1>1
<1>4. /\ buf' \in [0 .. len -> Memory] /\ buf'[len] = Nul
      /\ \A k \in 0 .. len - 1 : buf'[k] = text[k + 1]
  BY <1>1, <1>2, <1>3
<1>5. safe'
  BY <1>1, <1>2
<1> DEFINE c == len
           x == text
<1>6. /\ c \in Nat /\ c <= c /\ x \in Seq(Byte) /\ Len(x) = c /\ len' = c /\ free' = c - c
      /\ alloc' = c + 1 /\ buf' \in [0 .. c -> Memory] /\ text' = x
      /\ \A k \in 0 .. c - 1 : buf'[k] = x[k + 1]
      /\ buf'[c] = Nul
  BY <1>1, <1>2, <1>4
<1> HIDE DEF c, x
<1> QED BY <1>5, <1>6, StringMade

\* The string becomes n bytes of itself, from index i on: memmove(), the
\* terminator and the header.
LEMMA CutStep ==
    ASSUME StringInv, NEW i \in Int, NEW n \in Nat, n <= len,
           n > 0 => i >= 0 /\ i + n <= len,
           NEW x \in Seq(Byte), Len(x) = n, \A k \in 0 .. n - 1 : x[k + 1] = text[i + k + 1],
           SDS!Cut(i, n), text' = x
    PROVE  StringInv'
<1> DEFINE c == len + free
           m == IF n = 0 THEN buf ELSE SDS!Move(buf, i, n)
<1>1. /\ len \in Nat /\ free \in Nat /\ alloc = c + 1 /\ c \in Nat /\ len <= c
      /\ buf \in [0 .. c -> Memory]
      /\ text \in Seq(Byte) /\ len = Len(text) /\ safe
      /\ \A k \in 0 .. len - 1 : buf[k] = text[k + 1]
  BY DEF StringInv, StringType, SDS!StringOk
<1>2. free' = c - n
  BY <1>1 DEF SDS!Cut
<1>3. buf' = SDS!SetNul(m, n) /\ len' = n /\ alloc' = c + 1 /\ safe' = safe
  BY <1>1 DEF SDS!Cut
<1> HIDE DEF c
<1>4. m \in [0 .. c -> Memory] /\ \A k \in 0 .. n - 1 : m[k] = x[k + 1]
  <2>1. CASE n = 0
    BY <1>1, <2>1
  <2>2. CASE n # 0
    <3>1. n > 0 /\ i >= 0 /\ i + n <= len
      BY <2>2
    <3>2. m = [k \in 0 .. c |-> IF k < n THEN buf[k + i] ELSE buf[k]]
      BY <1>1, <2>2 DEF SDS!Move
    <3>3. \A k \in 0 .. n - 1 : k + i \in 0 .. len - 1 /\ k + i \in 0 .. c /\ k \in 0 .. c
      BY <1>1, <3>1
    <3> HIDE DEF m
    <3>4. \A k \in 0 .. n - 1 : m[k] = text[i + k + 1]
      <4> SUFFICES ASSUME NEW k \in 0 .. n - 1 PROVE m[k] = text[i + k + 1]
        OBVIOUS
      <4>1. m[k] = buf[k + i]
        BY <3>2, <3>3
      <4>2. buf[k + i] = text[k + i + 1]
        <5> DEFINE j == k + i
        <5>1. j \in 0 .. len - 1
          BY <3>3, Zenon
        <5> HIDE DEF j
        <5>2. buf[j] = text[j + 1]
          BY <1>1, <5>1
        <5> QED BY <5>2 DEF j
      <4>3. k + i + 1 = i + k + 1
        OBVIOUS
      <4> QED BY <4>1, <4>2, <4>3
    <3>5. \A k \in 0 .. c : k < n => k \in 0 .. n - 1
      BY <1>1
    <3>6. m \in [0 .. c -> Memory]
      BY <1>1, <3>2, <3>3, <3>5
    <3> QED BY <3>4, <3>6, Zenon
  <2> QED BY <2>1, <2>2
<1> HIDE DEF m
<1>5. n <= c
  BY <1>1
<1>6. buf' = [k \in 0 .. c |-> IF k = n THEN Nul ELSE m[k]]
  BY <1>3, <1>4, Zenon DEF SDS!SetNul
<1>7. /\ buf' \in [0 .. c -> Memory] /\ buf'[n] = Nul
      /\ \A k \in 0 .. n - 1 : buf'[k] = x[k + 1]
  BY <1>1, <1>4, <1>5, <1>6 DEF Memory, Byte
<1>8. safe'
  BY <1>1, <1>3
<1> QED BY <1>1, <1>2, <1>3, <1>5, <1>7, <1>8, StringMade

\* The bytes a SubSeq has.
LEMMA PartFacts ==
    ASSUME NEW x \in Seq(Byte), NEW a \in Nat, a >= 1, NEW b \in Nat, b <= Len(x), a <= b + 1
    PROVE  /\ SubSeq(x, a, b) \in Seq(Byte) /\ Len(SubSeq(x, a, b)) = b - a + 1
           /\ \A k \in 0 .. b - a : SubSeq(x, a, b)[k + 1] = x[a - 1 + k + 1]
<1>1. Len(x) \in Nat
  OBVIOUS
<1>2. SubSeq(x, a, b) \in Seq(Byte) /\ Len(SubSeq(x, a, b)) = b - a + 1
  BY <1>1
<1>3. ASSUME NEW k \in 0 .. b - a PROVE SubSeq(x, a, b)[k + 1] = x[a - 1 + k + 1]
  BY <1>1, <1>2
<1> QED BY <1>2, <1>3

\* Cutting at the end.
LEMMA RightTrimStep ==
    ASSUME StringInv, NEW n \in Nat, SDS!SdsRightTrim(n) PROVE StringInv'
<1> DEFINE x == SubSeq(text, 1, len - n)
           l == len - n
<1>1. len \in Nat /\ free \in Nat /\ text \in Seq(Byte) /\ len = Len(text)
  BY DEF StringInv, StringType, SDS!StringOk
<1>2. /\ n <= len /\ len' = l /\ free' = free + n /\ buf' = SDS!SetNul(buf, l)
      /\ text' = x /\ alloc' = alloc /\ safe' = safe
  BY <1>1 DEF SDS!SdsRightTrim
<1>3. l \in Nat /\ l <= len /\ free + n = free + (len - l)
  BY <1>1, <1>2
<1>4. /\ x \in Seq(Byte) /\ Len(x) = l
      /\ \A k \in 0 .. l - 1 : x[k + 1] = text[0 + k + 1]
  BY <1>1, <1>3
<1>5. SDS!Cut(0, l)
  <2>1. IF l = 0 THEN TRUE ELSE SDS!Move(buf, 0, l) = buf
    <3>1. buf = [k \in DOMAIN buf |-> buf[k]] /\ DOMAIN buf = 0 .. alloc - 1 /\ alloc \in Nat
      BY DEF StringInv, StringType
    <3>2. \A k \in DOMAIN buf : k + 0 = k
      BY <3>1
    <3>3. SDS!Move(buf, 0, l) = [k \in DOMAIN buf |-> buf[k]]
      BY <3>2 DEF SDS!Move
    <3> QED BY <3>1, <3>3
  <2> HIDE DEF l
  <2> QED BY <1>2, <1>3, <2>1 DEF SDS!Cut
<1> HIDE DEF l, x
<1> QED BY <1>1, <1>2, <1>3, <1>4, <1>5, CutStep

\* sdsclear().
LEMMA ClearStep ==
    ASSUME StringInv, SDS!SdsClear PROVE StringInv'
<1>1. len \in Nat /\ free \in Nat
  BY DEF StringInv, StringType
<1>2. SDS!Cut(0, 0) /\ text' = <<>>
  BY <1>1 DEF SDS!SdsClear, SDS!Cut
<1> DEFINE x == <<>>
           n == 0
<1>3. /\ x \in Seq(Byte) /\ Len(x) = n /\ text' = x /\ n \in Nat /\ n \in Int /\ n <= len /\ ~(n > 0)
      /\ \A k \in 0 .. n - 1 : x[k + 1] = text[n + k + 1]
  BY <1>1, <1>2
<1>4. SDS!Cut(n, n)
  BY <1>2
<1> HIDE DEF x, n
<1> QED BY <1>3, <1>4, CutStep

\* sdsrange(): the indices lie in the string or the result is empty.
LEMMA RangeStep ==
    ASSUME StringInv, NEW start \in Int, NEW end \in Int, SDS!SdsRange(start, end)
    PROVE  StringInv'
<1> DEFINE s == SDS!Index(start)
           e == SDS!Index(end)
           n == SDS!RangeLen(start, end)
           x == SDS!RangeText(start, end)
<1>1. len \in Nat /\ text \in Seq(Byte) /\ len = Len(text) /\ len > 0
  BY DEF StringInv, StringType, SDS!StringOk, SDS!SdsRange
<1>2. s \in Nat /\ e \in Nat
  BY <1>1 DEF SDS!Index
<1>3. SDS!Cut(s, n) /\ text' = x
  BY DEF SDS!SdsRange
<1> DEFINE l == SDS!Least(e, len - 1)
<1>4. /\ n = IF s > e \/ s >= len THEN 0 ELSE l - s + 1
      /\ x = SubSeq(text, s + 1, l + 1)
  BY DEF SDS!RangeLen, SDS!RangeText
<1>5. l \in Nat /\ l <= e /\ l <= len - 1 /\ (l = e \/ l = len - 1)
  BY <1>1, <1>2 DEF SDS!Least
<1> HIDE DEF s, e, n, x, l
<1>6. CASE s > e \/ s >= len
  <2>1. n = 0 /\ s + 1 > l + 1 /\ s + 1 \in Nat /\ l + 1 \in Nat
    BY <1>1, <1>2, <1>4, <1>5, <1>6
  <2>2. x = <<>>
    BY <1>1, <1>4, <2>1
  <2>3. x \in Seq(Byte) /\ Len(x) = n /\ \A k \in 0 .. n - 1 : x[k + 1] = text[s + k + 1]
    BY <2>1, <2>2
  <2>4. n \in Nat /\ n <= len /\ ~(n > 0) /\ s \in Int
    BY <1>1, <1>2, <2>1
  <2> QED BY <1>3, <2>3, <2>4, CutStep
<1>7. CASE ~(s > e \/ s >= len)
  <2>1. n = l - s + 1 /\ n \in Nat /\ s + n <= len /\ n <= len /\ s >= 0 /\ s \in Int
    BY <1>1, <1>2, <1>4, <1>5, <1>7
  <2> DEFINE a == s + 1
             b == l + 1
  <2>2. a \in Nat /\ a >= 1 /\ b \in Nat /\ b <= Len(text) /\ a <= b + 1
    BY <1>1, <1>2, <1>5, <1>7
  <2>3. a - 1 = s /\ b - a + 1 = n /\ b - a = n - 1 /\ x = SubSeq(text, a, b)
    BY <1>2, <1>4, <1>5, <2>1
  <2> HIDE DEF a, b
  <2>4. /\ SubSeq(text, a, b) \in Seq(Byte) /\ Len(SubSeq(text, a, b)) = b - a + 1
        /\ \A k \in 0 .. b - a : SubSeq(text, a, b)[k + 1] = text[a - 1 + k + 1]
    BY <1>1, <2>2, PartFacts
  <2>5. x \in Seq(Byte) /\ Len(x) = n /\ \A k \in 0 .. n - 1 : x[k + 1] = text[s + k + 1]
    BY <2>3, <2>4
  <2> QED BY <1>3, <2>1, <2>5, CutStep, Zenon
<1> QED BY <1>6, <1>7

\* strlen() stops at the first byte 0, which is also where the text is cut.
LEMMA UpdateLenStep ==
    ASSUME StringInv, SDS!SdsUpdateLen PROVE StringInv'
<1> DEFINE c == len + free
           Ends(i) == i \in SDS!BeforeNul /\ buf[i] = Nul
           n == CHOOSE i \in SDS!BeforeNul : buf[i] = Nul
           Before(m) == /\ \A k \in 1 .. m : text[k] # Nul
                        /\ m = Len(text) \/ text[m + 1] = Nul
           m == CHOOSE i \in 0 .. Len(text) : Before(i)
<1>1. /\ len \in Nat /\ free \in Nat /\ alloc = c + 1 /\ c \in Nat /\ len <= c
      /\ buf \in [0 .. c -> Memory] /\ buf[len] = Nul
      /\ text \in Seq(Byte) /\ len = Len(text) /\ safe
      /\ \A k \in 0 .. len - 1 : buf[k] = text[k + 1]
  BY DEF StringInv, StringType, SDS!StringOk
<1>2. /\ free' = free + (len - n) /\ len' = n /\ buf' = buf /\ alloc' = alloc /\ safe' = safe
      /\ text' = SubSeq(text, 1, m)
  BY DEF SDS!SdsUpdateLen, SDS!SelectPrefix
<1>3. \E i : Ends(i)
  <2> DEFINE S == {i \in 0 .. len : buf[i] = Nul}
  <2>1. S \in SUBSET Nat /\ S # {}
    BY <1>1
  <2> HIDE DEF S
  <2>2. PICK j \in S : \A i \in S : j <= i
    BY <2>1, LeastNumber
  <2>3. j \in 0 .. len /\ buf[j] = Nul
    BY DEF S
  <2>4. \A k \in 0 .. j - 1 : buf[k] # Nul
    <3> SUFFICES ASSUME NEW k \in 0 .. j - 1, buf[k] = Nul PROVE FALSE
      OBVIOUS
    <3>1. k \in S
      BY <1>1, <2>3 DEF S
    <3>2. j <= k
      BY <2>2, <3>1
    <3> QED BY <1>1, <2>3, <3>2
  <2> QED BY <2>3, <2>4 DEF SDS!BeforeNul
<1>4. n \in 0 .. len /\ (\A k \in 0 .. n - 1 : buf[k] # Nul) /\ buf[n] = Nul
  <2>1. Ends(n)
    BY <1>3
  <2> HIDE DEF n
  <2> QED BY <2>1 DEF SDS!BeforeNul
<1> HIDE DEF n, c
<1>5. Before(n)
  <2>1. ASSUME NEW k \in 1 .. n PROVE text[k] # Nul
    <3> DEFINE j == k - 1
    <3>1. j \in 0 .. n - 1 /\ j \in 0 .. len - 1 /\ j + 1 = k
      BY <1>1, <1>4
    <3> HIDE DEF j
    <3>2. buf[j] # Nul /\ buf[j] = text[j + 1]
      BY <1>1, <1>4, <3>1
    <3> QED BY <3>1, <3>2
  <2>2. n = Len(text) \/ text[n + 1] = Nul
    BY <1>1, <1>4
  <2> QED BY <2>1, <2>2
<1>6. m \in 0 .. Len(text) /\ Before(m)
  <2> HIDE DEF Before
  <2> QED BY <1>1, <1>4, <1>5
<1> HIDE DEF m
<1>7. m = n
  <2>1. m \in Nat /\ n \in Nat /\ n <= len
    BY <1>1, <1>4, <1>6
  <2>2. ~(m < n)
    <3> SUFFICES ASSUME m < n PROVE FALSE
      OBVIOUS
    <3>1. m + 1 \in 1 .. n /\ m # Len(text)
      BY <1>1, <2>1
    <3> QED BY <1>5, <1>6, <3>1
  <2>3. ~(n < m)
    <3> SUFFICES ASSUME n < m PROVE FALSE
      OBVIOUS
    <3>1. n + 1 \in 1 .. m /\ n # Len(text)
      BY <1>1, <1>6, <2>1
    <3> QED BY <1>5, <1>6, <3>1
  <2> QED BY <2>1, <2>2, <2>3
<1> DEFINE x == SubSeq(text, 1, n)
<1>8. /\ x \in Seq(Byte) /\ Len(x) = n
      /\ \A k \in 0 .. n - 1 : x[k + 1] = text[k + 1]
  BY <1>1, <1>4
<1>9. n \in Nat /\ n <= c /\ free + (len - n) = c - n /\ text' = x
  BY <1>1, <1>2, <1>4, <1>7 DEF c
<1> HIDE DEF x
<1>10. \A k \in 0 .. n - 1 : buf[k] = x[k + 1]
  <2> SUFFICES ASSUME NEW k \in 0 .. n - 1 PROVE buf[k] = x[k + 1]
    OBVIOUS
  <2>1. k \in 0 .. len - 1
    BY <1>1, <1>4
  <2> QED BY <1>1, <1>8, <2>1, Zenon
<1>11. /\ len' = n /\ free' = c - n /\ alloc' = c + 1 /\ buf' \in [0 .. c -> Memory]
       /\ buf'[n] = Nul /\ \A k \in 0 .. n - 1 : buf'[k] = x[k + 1]
  BY <1>1, <1>2, <1>4, <1>9, <1>10
<1>12. safe'
  BY <1>1, <1>2
<1> QED BY <1>1, <1>8, <1>9, <1>11, <1>12, StringMade

\* sdstrim(): the two loops stop at the first and at the last byte that is kept.
LEMMA TrimStep ==
    ASSUME StringInv, NEW cset, SDS!SdsTrim(cset) PROVE StringInv'
<1> DEFINE T == SDS!Trimmed(cset)
           K == SDS!Kept(cset)
           FirstAt(i) == (\A k \in 0 .. i - 1 : k \in T) /\ i \notin T
           LastAt(i) == (\A k \in i + 1 .. len - 1 : k \in T) /\ (i > 0 => i \notin T)
           Span == IF len = 0 THEN {-1} ELSE 0 .. len - 1
           sp == CHOOSE i \in 0 .. len : FirstAt(i)
           ep == CHOOSE i \in Span : LastAt(i)
           n  == IF sp > ep THEN 0 ELSE ep - sp + 1
<1>1. /\ len \in Nat /\ text \in Seq(Byte) /\ len = Len(text)
      /\ \A k \in 0 .. len - 1 : buf[k] = text[k + 1]
  BY DEF StringInv, StringType, SDS!StringOk
<1>2. SDS!Cut(sp, n) /\ text' = SDS!TrimmedText(cset)
  BY DEF SDS!SdsTrim, SDS!TrimStart, SDS!TrimEnd
<1>3. /\ K \in SUBSET (1 .. len) /\ T \in SUBSET (0 .. len - 1)
      /\ \A k \in 0 .. len - 1 : k \in T <=> k + 1 \notin K
  <2>1. K \in SUBSET (1 .. len) /\ T \in SUBSET (0 .. len - 1)
    BY <1>1 DEF SDS!Kept, SDS!Trimmed
  <2>2. ASSUME NEW k \in 0 .. len - 1 PROVE k \in T <=> k + 1 \notin K
    <3>1. k + 1 \in 1 .. Len(text) /\ buf[k] = text[k + 1]
      BY <1>1
    <3> QED BY <3>1 DEF SDS!Kept, SDS!Trimmed
  <2> QED BY <2>1, <2>2
<1>4. SDS!TrimmedText(cset) = IF K = {} THEN <<>>
                              ELSE SubSeq(text, CHOOSE i \in K : \A k \in K : i <= k,
                                                CHOOSE i \in K : \A k \in K : i >= k)
  BY DEF SDS!TrimmedText
<1> HIDE DEF T, K
<1>5. CASE K = {}
  <2>1. FirstAt(len)
    BY <1>1, <1>3, <1>5
  <2>2. sp \in 0 .. len /\ FirstAt(sp)
    <3> HIDE DEF FirstAt
    <3>1. len \in 0 .. len
      BY <1>1
    <3> QED BY <2>1, <3>1
  <2> HIDE DEF sp
  <2>3. sp = len
    <3>1. sp < len => sp \in 0 .. len - 1
      BY <1>1, <2>2
    <3>2. sp < len => sp \in T
      BY <1>3, <1>5, <3>1
    <3> QED BY <1>1, <2>2, <3>2
  <2>4. \E i \in Span : LastAt(i)
    <3>1. CASE len = 0
      <4>1. -1 \in Span /\ LastAt(-1)
        BY <3>1
      <4> QED BY <4>1
    <3>2. CASE len # 0
      <4>1. 0 \in Span /\ \A k \in 0 + 1 .. len - 1 : k \in 0 .. len - 1
        BY <1>1, <3>2
      <4>2. LastAt(0)
        BY <1>3, <1>5, <4>1
      <4> QED BY <4>1, <4>2
    <3> QED BY <3>1, <3>2
  <2>5. ep \in Span
    <3> HIDE DEF LastAt, Span
    <3> QED BY <2>4
  <2> HIDE DEF ep
  <2>6. ep \in Int /\ sp > ep
    BY <1>1, <2>3, <2>5
  <2>7. SDS!Cut(sp, 0)
    BY <1>2, <2>6
  <2> DEFINE x == <<>>
             z == 0
  <2>8. /\ x \in Seq(Byte) /\ Len(x) = z /\ text' = x /\ z \in Nat /\ z <= len /\ ~(z > 0)
        /\ \A k \in 0 .. z - 1 : x[k + 1] = text[sp + k + 1]
    BY <1>1, <1>2, <1>4, <1>5
  <2>9. SDS!Cut(sp, z) /\ sp \in Int
    BY <1>1, <2>3, <2>7
  <2> HIDE DEF x, z
  <2> QED BY <2>8, <2>9, CutStep
<1>6. CASE K # {}
  <2>1. PICK a \in K : \A k \in K : a <= k
    <3>1. K \in SUBSET Nat
      BY <1>1, <1>3
    <3> QED BY <1>6, <3>1, LeastNumber
  <2>2. PICK b \in K : \A k \in K : k <= b
    <3>1. K \in SUBSET (0 .. len)
      BY <1>1, <1>3
    <3> QED BY <1>1, <1>6, <3>1, GreatestNumber, Zenon
  <2>3. a \in 1 .. len /\ b \in 1 .. len /\ a <= b
    BY <1>3, <2>1, <2>2
  <2>4. \A k \in 0 .. len - 1 : k < a - 1 \/ k > b - 1 => k \in T
    <3> SUFFICES ASSUME NEW k \in 0 .. len - 1, k < a - 1 \/ k > b - 1, k \notin T PROVE FALSE
      OBVIOUS
    <3>1. k + 1 \in K
      BY <1>3
    <3>2. a <= k + 1 /\ k + 1 <= b
      BY <2>1, <2>2, <3>1
    <3> QED BY <1>1, <2>3, <3>2
  <2>5. a - 1 \in 0 .. len - 1 /\ a - 1 \notin T /\ b - 1 \in 0 .. len - 1 /\ b - 1 \notin T
    <3> DEFINE i == a - 1
               j == b - 1
    <3>1. i \in 0 .. len - 1 /\ i + 1 = a /\ j \in 0 .. len - 1 /\ j + 1 = b
      BY <1>1, <2>3
    <3> HIDE DEF i, j
    <3>2. i \notin T /\ j \notin T
      BY <1>3, <2>1, <2>2, <3>1
    <3> QED BY <3>1, <3>2 DEF i, j
  <2>6. sp = a - 1
    <3>1. a - 1 \in 0 .. len /\ FirstAt(a - 1)
      BY <1>1, <2>3, <2>4, <2>5
    <3>2. sp \in 0 .. len /\ FirstAt(sp)
      <4> HIDE DEF FirstAt
      <4> QED BY <3>1
    <3> HIDE DEF sp
    <3>3. ~(sp < a - 1)
      BY <1>1, <2>3, <2>4, <3>2
    <3>4. ~(a - 1 < sp)
      BY <1>1, <2>3, <2>5, <3>2
    <3> QED BY <1>1, <2>3, <3>2, <3>3, <3>4
  <2>7. ep = b - 1
    <3>1. Span = 0 .. len - 1
      BY <2>3
    <3>2. LastAt(b - 1)
      BY <1>1, <2>3, <2>4, <2>5
    <3>3. ep \in 0 .. len - 1 /\ LastAt(ep)
      <4> HIDE DEF LastAt, Span
      <4> QED BY <2>5, <3>1, <3>2
    <3> HIDE DEF ep
    <3>4. ~(ep < b - 1)
      BY <1>1, <2>3, <2>5, <3>3
    <3>5. ~(b - 1 < ep)
      BY <1>1, <2>3, <2>4, <3>3
    <3> QED BY <1>1, <2>3, <3>3, <3>4, <3>5
  <2> DEFINE l == b - a + 1
             s == a - 1
             x == SubSeq(text, a, b)
  <2>8. SDS!Cut(s, l)
    <3> HIDE DEF sp, ep
    <3>1. ~(sp > ep) /\ ep - sp + 1 = b - a + 1
      BY <1>1, <2>3, <2>6, <2>7
    <3> QED BY <1>2, <2>6, <3>1
  <2>9. text' = x
    <3>1. (CHOOSE i \in K : \A k \in K : i <= k) = a
      <4> DEFINE y == CHOOSE i \in K : \A k \in K : i <= k
      <4>1. y \in K /\ \A k \in K : y <= k
        BY <2>1
      <4> HIDE DEF y
      <4>2. y <= a /\ a <= y /\ y \in 1 .. len
        BY <1>3, <2>1, <4>1
      <4>3. y = a
        BY <1>1, <2>3, <4>2
      <4> QED BY <4>3 DEF y
    <3>2. (CHOOSE i \in K : \A k \in K : i >= k) = b
      <4> DEFINE y == CHOOSE i \in K : \A k \in K : i >= k
      <4>1. \A k \in K : b >= k
        BY <1>1, <1>3, <2>2, <2>3
      <4>2. y \in K /\ \A k \in K : y >= k
        BY <2>2, <4>1
      <4> HIDE DEF y
      <4>3. y <= b /\ y >= b /\ y \in 1 .. len
        BY <1>3, <2>2, <4>2
      <4>4. y = b
        BY <1>1, <2>3, <4>3
      <4> QED BY <4>4 DEF y
    <3> QED BY <1>2, <1>4, <1>6, <3>1, <3>2, Zenon
  <2>10. /\ x \in Seq(Byte) /\ Len(x) = b - a + 1
         /\ \A k \in 0 .. b - a : x[k + 1] = text[a - 1 + k + 1]
    <3>1. a \in Nat /\ a >= 1 /\ b \in Nat /\ b <= Len(text) /\ a <= b + 1
      BY <1>1, <2>3
    <3> QED BY <1>1, <3>1, PartFacts
  <2>11. l \in Nat /\ s \in Int /\ s >= 0 /\ s + l <= len /\ l <= len /\ l - 1 = b - a
    BY <1>1, <2>3
  <2>12. x \in Seq(Byte) /\ Len(x) = l /\ \A k \in 0 .. l - 1 : x[k + 1] = text[s + k + 1]
    BY <2>10, <2>11
  <2> HIDE DEF l, s, x
  <2> QED BY <2>8, <2>9, <2>11, <2>12, CutStep
<1> QED BY <1>5, <1>6

\* Every operation of Sds keeps the invariant.
LEMMA StringNextInv ==
    ASSUME StringInv, SDS!Next \/ UNCHANGED string PROVE StringInv'
<1>1. CASE UNCHANGED string
  BY <1>1 DEF string, StringInv, StringType, SDS!StringOk
<1>2. ASSUME NEW n \in 1 .. MaxArg, SDS!SdsMakeRoomFor(n) PROVE StringInv'
  <2>1. n \in Nat
    BY UtilConstants
  <2> QED BY <1>2, <2>1, RoomStep
<1>3. CASE SDS!SdsRemoveFreeSpace
  BY <1>3, ShrinkStep
<1>4. ASSUME NEW t \in SDS!Args, SDS!SdsCatLen(t) \/ SDS!ReadBehindEnd(t) \/ SDS!SdsCpyLen(t)
      PROVE  StringInv'
  <2>1. t \in Seq(Byte) /\ Len(t) \in Nat /\ Len(t) <= MaxArg /\ MaxArg \in Nat
    BY ArgFacts, UtilConstants
  <2>2. CASE SDS!SdsCatLen(t)
    <3> DEFINE n == Len(t)
    <3>1. n \in Nat /\ Len(t) <= n /\ Appends(n, t)
      BY <2>1, <2>2 DEF SDS!SdsCatLen, Appends
    <3> HIDE DEF n
    <3> QED BY <2>1, <3>1, AppendStep
  <2>3. CASE SDS!ReadBehindEnd(t)
    <3>1. Appends(MaxArg, t)
      BY <2>3 DEF SDS!ReadBehindEnd, Appends
    <3> QED BY <2>1, <3>1, AppendStep
  <2>4. CASE SDS!SdsCpyLen(t)
    BY <2>1, <2>4, CopyStep
  <2> QED BY <1>4, <2>2, <2>3, <2>4
<1>5. ASSUME NEW n \in 0 .. MaxLen, SDS!SdsRightTrim(n) \/ SDS!SdsGrowZero(n) PROVE StringInv'
  <2>1. n \in Nat
    BY UtilConstants
  <2> QED BY <1>5, <2>1, RightTrimStep, GrowStep
<1>6. CASE SDS!SdsClear
  BY <1>6, ClearStep
<1>7. CASE SDS!SdsUpdateLen
  BY <1>7, UpdateLenStep
<1>8. ASSUME NEW cset \in SUBSET Bytes, SDS!SdsTrim(cset) PROVE StringInv'
  BY <1>8, TrimStep
<1>9. ASSUME NEW start \in -MaxLen - 1 .. MaxLen + 1, NEW end \in -MaxLen - 1 .. MaxLen + 1,
             SDS!SdsRange(start, end)
      PROVE  StringInv'
  <2>1. start \in Int /\ end \in Int
    BY UtilConstants
  <2> QED BY <1>9, <2>1, RangeStep
<1>10. CASE SDS!Next
  BY <1>2, <1>3, <1>4, <1>5, <1>6, <1>7, <1>8, <1>9, <1>10 DEF SDS!Next
<1> QED BY <1>1, <1>10

-----------------------------------------------------------------------------
(* The libraries together.                                                 *)

IInv == StringInv /\ LockInv

\* A step is one of one library: the others' state stays.
LEMMA LibraryStep ==
    ASSUME [UtilNext]_utilVars
    PROVE  /\ SDS!Next \/ UNCHANGED string
           /\ KEYS!Next \/ UNCHANGED locks
           /\ lib' = lib
  BY DEF UtilNext, utilVars, string, locks, countVars, CountNext

\* Stat and Zmalloc behave here as in Counters: what CountProofs proves of CountSpec,
\* QueryWindow and MemoryCounted, holds of the libraries together.
LEMMA Refinement_Counters == UtilSpec => CountSpec
<1>1. UtilInit => CountInit
  BY Zenon DEF UtilInit
<1>2. [UtilNext]_utilVars => [CountNext]_countVars
  BY Zenon DEF UtilNext, utilVars
<1> QED BY <1>1, <1>2, PTL DEF UtilSpec, CountSpec

\* The strings and the locks are as they should be in every state.
THEOREM Invariance == UtilSpec => []IInv
<1>1. UtilInit => IInv
  BY StringInitInv, LockInitInv DEF UtilInit, IInv
<1>2. IInv /\ [UtilNext]_utilVars => IInv'
  <2> SUFFICES ASSUME IInv, [UtilNext]_utilVars PROVE IInv'
    OBVIOUS
  <2>1. SDS!Next \/ UNCHANGED string
    BY LibraryStep
  <2>2. KEYS!Next \/ UNCHANGED locks
    BY LibraryStep
  <2>3. StringInv'
    BY <2>1, StringNextInv DEF IInv
  <2>4. LockInv'
    BY <2>2, LockNextInv DEF IInv
  <2> QED BY <2>3, <2>4 DEF IInv
<1> QED BY <1>1, <1>2, PTL DEF UtilSpec

\* sds.cpp: for strings and arguments of any bytes and any length and any sequence
\* of calls, the header accounts for the memory, nothing is written outside it, the
\* terminator is there and the bytes are those of the text.
THEOREM Safety_StringSafe == UtilSpec => []StringSafe
<1>1. IInv => StringSafe
  BY DEF IInv, StringInv, StringSafe
<1> QED BY <1>1, Invariance, PTL

\* key_lock.h:36: keys that share a mutex are held by one thread at a time, and no
\* thread waits for one that waits, for any threads, keys, hash and mutexes.
THEOREM Safety_KeysLocked == UtilSpec => []KeysLocked
<1>1. IInv => KeysLocked
  BY LockedFromInv DEF IInv, KeysLocked
<1> QED BY <1>1, Invariance, PTL
=============================================================================
