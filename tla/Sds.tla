----------------------------------- MODULE Sds -----------------------------------
(***************************************************************************)
(* Dynamic strings (util/sds.cpp): one sds and the operations that change  *)
(* it, with the memory behind the header byte by byte.  The header has     *)
(* `len' and `free'; `alloc' is the number of bytes zmalloc() or           *)
(* zrealloc() gave for the contents.  `text' is what the string should be, *)
(* by definitions on sequences.                                            *)
(*                                                                         *)
(* An index is 0-based, as in C; `text' is a sequence, from 1.  Memory     *)
(* nobody has written holds Junk.  Allocation does not fail.               *)
(***************************************************************************)
EXTENDS Integers, Sequences

CONSTANTS
    Bytes,          \* bytes other than 0
    Nul,            \* the byte 0
    Junk,           \* uninitialized memory
    MaxPrealloc,    \* SDS_MAX_PREALLOC
    MaxArg,         \* bound: length of arguments
    MaxLen          \* bound: length of the string

Args == UNION {[1 .. n -> Bytes \cup {Nul}] : n \in 0 .. MaxArg}

VARIABLES
    len, free, buf, alloc,
    text,       \* history: the contents by definition
    safe        \* history: no access was outside the allocated memory

header == <<len, free>>
vars   == <<header, buf, alloc, text, safe>>

-----------------------------------------------------------------------------
(* Memory.                                                                 *)

\* memcpy of t to index i.
Put(m, i, t) == [k \in DOMAIN m |-> IF k >= i /\ k < i + Len(t) THEN t[k - i + 1] ELSE m[k]]

\* memmove of n bytes from index i to index 0.
Move(m, i, n) == [k \in DOMAIN m |-> IF k < n THEN m[k + i] ELSE m[k]]

SetNul(m, i) == [m EXCEPT ![i] = Nul]

\* zrealloc to n bytes.
Realloc(m, n) == [k \in 0 .. n - 1 |-> IF k \in DOMAIN m THEN m[k] ELSE Junk]

Least(a, b) == IF a < b THEN a ELSE b

-----------------------------------------------------------------------------
\* sdsempty()
Init ==
    /\ len = 0 /\ free = 0 /\ alloc = 1
    /\ buf = [k \in {0} |-> Nul]
    /\ text = <<>> /\ safe = TRUE

\* The length sdsMakeRoomFor() allocates for, unless there is room already.
NewLen(n) == IF n < MaxPrealloc THEN n * 2 ELSE n + MaxPrealloc
Capacity(addlen) ==
    IF free >= addlen THEN len + free ELSE NewLen(len + addlen)

\* The memory after sdsMakeRoomFor(addlen).
Room(addlen) ==
    IF free >= addlen THEN buf ELSE Realloc(buf, Capacity(addlen) + 1)

RoomSize(addlen) == IF free >= addlen THEN alloc ELSE Capacity(addlen) + 1

SdsMakeRoomFor(n) ==
    /\ n <= MaxArg /\ len + n <= MaxLen
    /\ buf' = Room(n)
    /\ alloc' = RoomSize(n)
    /\ free' = Capacity(n) - len
    /\ UNCHANGED <<len, text, safe>>

SdsRemoveFreeSpace ==
    /\ alloc' = len + 1
    /\ buf' = Realloc(buf, len + 1)
    /\ free' = 0
    /\ UNCHANGED <<len, text, safe>>

\* Mutant: the terminator is not written.
SdsCatLenUnterminated(t) ==
    /\ len + Len(t) <= MaxLen
    /\ buf' = Put(Room(Len(t)), len, t)
    /\ alloc' = RoomSize(Len(t))
    /\ len' = len + Len(t)
    /\ free' = Capacity(Len(t)) - len - Len(t)
    /\ text' = text \o t
    /\ safe' = (safe /\ len + Len(t) < RoomSize(Len(t)))

SdsCatLen(t) ==
    /\ len + Len(t) <= MaxLen
    /\ buf' = SetNul(Put(Room(Len(t)), len, t), len + Len(t))
    /\ alloc' = RoomSize(Len(t))
    /\ len' = len + Len(t)
    /\ free' = Capacity(Len(t)) - len - Len(t)
    /\ text' = text \o t
    /\ safe' = (safe /\ len + Len(t) < RoomSize(Len(t)))

\* The use sdsIncrLen() is made for: make room for a read() of up to MaxArg
\* bytes, which puts t behind the end of the string, and add its length.
ReadBehindEnd(t) ==
    /\ len + MaxArg <= MaxLen
    /\ buf' = SetNul(Put(Room(MaxArg), len, t), len + Len(t))
    /\ alloc' = RoomSize(MaxArg)
    /\ len' = len + Len(t)
    /\ free' = Capacity(MaxArg) - len - Len(t)
    /\ text' = text \o t
    /\ safe' = (safe /\ len + Len(t) < RoomSize(MaxArg))

\* sdsIncrLen() with a negative increment.
SdsRightTrim(n) ==
    /\ n <= len
    /\ len' = len - n
    /\ free' = free + n
    /\ buf' = SetNul(buf, len - n)
    /\ text' = SubSeq(text, 1, Len(text) - n)
    /\ UNCHANGED <<alloc, safe>>

\* sdscpylen(): room is made only if the whole memory is too small.
SdsCpyLen(t) ==
    LET n    == Len(t)
        more == len + free < n
        add  == IF more THEN n - len ELSE 0
    IN  /\ n <= MaxLen
        /\ buf' = SetNul(Put(Room(add), 0, t), n)
        /\ alloc' = RoomSize(add)
        /\ len' = n
        /\ free' = Capacity(add) - n
        /\ text' = t
        /\ safe' = (safe /\ n < RoomSize(add))

SdsGrowZero(n) ==
    /\ n > len /\ n <= MaxLen /\ n - len <= MaxArg
    /\ LET r == Room(n - len)
       IN  buf' = [k \in DOMAIN r |-> IF k >= len /\ k <= n THEN Nul ELSE r[k]]
    /\ alloc' = RoomSize(n - len)
    /\ len' = n
    /\ free' = Capacity(n - len) - n
    /\ text' = text \o [k \in 1 .. n - len |-> Nul]
    /\ safe' = (safe /\ n < RoomSize(n - len))

SdsClear ==
    /\ len' = 0
    /\ free' = free + len
    /\ buf' = SetNul(buf, 0)
    /\ text' = <<>>
    /\ UNCHANGED <<alloc, safe>>

\* Cuts the string to n bytes from index i on: the end of sdstrim() and sdsrange().
Cut(i, n) ==
    /\ buf' = SetNul(IF n = 0 THEN buf ELSE Move(buf, i, n), n)
    /\ free' = free + (len - n)
    /\ len' = n
    /\ UNCHANGED <<alloc, safe>>

\* The indices where the loops of sdstrim() over `start' and `end' stop.  strchr()
\* also finds the terminator of cset, so that bytes 0 are trimmed, too.
Trimmed(cset) == {k \in 0 .. len - 1 : buf[k] \in cset \cup {Nul}}
TrimStart(cset) ==
    CHOOSE i \in 0 .. len : /\ \A k \in 0 .. i - 1 : k \in Trimmed(cset)
                            /\ i \notin Trimmed(cset)
TrimEnd(cset) ==
    CHOOSE i \in (IF len = 0 THEN {-1} ELSE 0 .. len - 1) :
        /\ \A k \in i + 1 .. len - 1 : k \in Trimmed(cset)
        /\ i > 0 => i \notin Trimmed(cset)

Kept(cset) == {k \in 1 .. Len(text) : text[k] \notin cset \cup {Nul}}
TrimmedText(cset) ==
    IF Kept(cset) = {} THEN <<>>
    ELSE SubSeq(text, CHOOSE i \in Kept(cset) : \A k \in Kept(cset) : i <= k,
                      CHOOSE i \in Kept(cset) : \A k \in Kept(cset) : i >= k)

SdsTrim(cset) ==
    /\ LET sp == TrimStart(cset)
           ep == TrimEnd(cset)
       IN  Cut(sp, IF sp > ep THEN 0 ELSE ep - sp + 1)
    /\ text' = TrimmedText(cset)

\* The bytes of t in front of its first byte 0.
SelectPrefix(t) ==
    LET n == CHOOSE n \in 0 .. Len(t) : /\ \A k \in 1 .. n : t[k] # Nul
                                        /\ n = Len(t) \/ t[n + 1] = Nul
    IN  SubSeq(t, 1, n)

\* strlen() finds the first byte 0, at the terminator at the latest.
BeforeNul == {i \in 0 .. len : \A k \in 0 .. i - 1 : buf[k] # Nul}

SdsUpdateLen ==
    /\ LET n == CHOOSE i \in BeforeNul : buf[i] = Nul
       IN  free' = free + (len - n) /\ len' = n
    /\ text' = SelectPrefix(text)
    /\ UNCHANGED <<buf, alloc, safe>>

\* An index of sdsrange() that is negative counts from the end.
Index(i) == IF i >= 0 THEN i ELSE IF len + i < 0 THEN 0 ELSE len + i

\* The new length sdsrange() computes.
RangeLen(start, end) ==
    LET s == Index(start)
        e == Index(end)
    IN  IF s > e \/ s >= len THEN 0 ELSE Least(e, len - 1) - s + 1

RangeText(start, end) ==
    LET last == Least(Index(end), len - 1)
    IN  SubSeq(text, Index(start) + 1, last + 1)

SdsRange(start, end) ==
    /\ len > 0
    /\ Cut(Index(start), RangeLen(start, end))
    /\ text' = RangeText(start, end)

-----------------------------------------------------------------------------
Next ==
    \/ \E n \in 1 .. MaxArg : SdsMakeRoomFor(n)
    \/ SdsRemoveFreeSpace
    \/ \E t \in Args : SdsCatLen(t) \/ ReadBehindEnd(t) \/ SdsCpyLen(t)
    \/ \E n \in 0 .. MaxLen : SdsRightTrim(n) \/ SdsGrowZero(n)
    \/ SdsClear \/ SdsUpdateLen
    \/ \E cset \in SUBSET Bytes : SdsTrim(cset)
    \/ \E start, end \in -MaxLen - 1 .. MaxLen + 1 : SdsRange(start, end)

Spec == Init /\ [][Next]_vars

-----------------------------------------------------------------------------
(* Properties.                                                             *)

\* Every variable has its type.
TypeOK ==
    /\ len \in Nat /\ free \in Nat /\ alloc \in Nat
    /\ buf \in [0 .. alloc - 1 -> Bytes \cup {Nul, Junk}]
    /\ text \in Seq(Bytes \cup {Nul}) /\ safe \in BOOLEAN

\* The header accounts for the memory exactly (`len' bytes, `free' bytes and one
\* for the terminator) and no operation has written outside it; the string is
\* terminated and its bytes are what the operations should have made: no byte of
\* freed, moved or stale memory ever becomes part of it.
StringOk ==
    /\ len + free + 1 = alloc /\ safe
    /\ len = Len(text)
    /\ \A k \in 0 .. len - 1 : buf[k] = text[k + 1]
    /\ buf[len] = Nul
=============================================================================
