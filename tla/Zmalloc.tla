--------------------------------- MODULE Zmalloc ---------------------------------
(***************************************************************************)
(* The allocator with a count (util/zmalloc.cpp) as it is built with the C *)
(* library's malloc(): every block has its size in front of it, and the    *)
(* process has one counter used_memory.  Until somebody calls              *)
(* zmalloc_enable_thread_safeness(), which the framework never does, the   *)
(* threads update the counter without synchronisation.                     *)
(***************************************************************************)
EXTENDS Integers, Sequences, Functions

CONSTANTS
    Threads,
    Blocks,         \* the addresses malloc() can return
    Sizes,          \* the sizes the program asks for
    WordBits,       \* the width of size_t
    None            \* no block, nothing read

VARIABLES
    size,               \* the size stored in front of each block, None if free
    used_memory,
    zmalloc_thread_safe,
    call,               \* the block of a thread's call, the updates to make, zfree()?
    reg,                \* what an unsynchronised += has read and not yet written
    overlap,            \* an update fell between the read and the write of another
    aborted             \* zmalloc_default_oom() was called

vars == <<size, used_memory, zmalloc_thread_safe, call, reg, overlap, aborted>>

PREFIX_SIZE == 8    \* sizeof(size_t), and sizeof(long)

\* The next multiple of sizeof(long).
Round(n) == IF n % 8 = 0 THEN n ELSE n + 8 - (n % 8)

\* zmalloc_size()
ZmallocSize(b) == Round(size[b]) + PREFIX_SIZE

Call(b, updates, frees) == [block |-> b, updates |-> updates, frees |-> frees]
Returned == Call(None, <<>>, FALSE)

Init ==
    /\ size = [b \in Blocks |-> None]
    /\ used_memory = 0 /\ zmalloc_thread_safe = FALSE
    /\ call = [t \in Threads |-> Returned]
    /\ reg = [t \in Threads |-> None]
    /\ overlap = FALSE /\ aborted = FALSE

Idle(t) == ~aborted /\ call[t] = Returned

\* A block the program may use: allocated, and no call on it is under way.
Usable(b) == size[b] # None /\ \A u \in Threads : call[u].block # b

\* zmalloc(), zcalloc() and zstrdup(), and zrealloc() of NULL
Zmalloc(t, b, n) ==
    /\ Idle(t) /\ size[b] = None
    /\ size' = [size EXCEPT ![b] = n]
    /\ call' = [call EXCEPT ![t] = Call(b, <<Round(n + PREFIX_SIZE)>>, FALSE)]
    /\ UNCHANGED <<used_memory, zmalloc_thread_safe, reg, overlap, aborted>>

\* Mutant: zrealloc() counts the prefix of the new block as zmalloc() does.
ZreallocPrefix(t, b, n) ==
    /\ Idle(t) /\ Usable(b)
    /\ size' = [size EXCEPT ![b] = n]
    /\ call' = [call EXCEPT ![t] =
           Call(b, <<-Round(size[b]), Round(n + PREFIX_SIZE)>>, FALSE)]
    /\ UNCHANGED <<used_memory, zmalloc_thread_safe, reg, overlap, aborted>>

Zrealloc(t, b, n) ==
    /\ Idle(t) /\ Usable(b)
    /\ size' = [size EXCEPT ![b] = n]
    /\ call' = [call EXCEPT ![t] = Call(b, <<-Round(size[b]), Round(n)>>, FALSE)]
    /\ UNCHANGED <<used_memory, zmalloc_thread_safe, reg, overlap, aborted>>

\* The memory is given back after the update, when zfree() returns.
Zfree(t, b) ==
    /\ Idle(t) /\ Usable(b)
    /\ call' = [call EXCEPT ![t] = Call(b, <<-Round(size[b] + PREFIX_SIZE)>>, TRUE)]
    /\ UNCHANGED <<size, used_memory, zmalloc_thread_safe, reg, overlap, aborted>>

\* malloc(), calloc() or realloc() failed.
OutOfMemory(t) ==
    /\ Idle(t) /\ aborted' = TRUE
    /\ UNCHANGED <<size, used_memory, zmalloc_thread_safe, call, reg, overlap>>

EnableThreadSafeness(t) ==
    /\ Idle(t) /\ zmalloc_thread_safe' = TRUE
    /\ UNCHANGED <<size, used_memory, call, reg, overlap, aborted>>

\* used_memory takes a value; the call returns after its last update.
Write(t, value) ==
    /\ used_memory' = value % 2 ^ WordBits
    /\ overlap' = (overlap \/ \E u \in Threads \ {t} : reg[u] # None)
    /\ reg' = [reg EXCEPT ![t] = None]
    /\ \E rest \in {Tail(call[t].updates)} :
          call' = [call EXCEPT ![t] =
                       IF rest = <<>> THEN Returned ELSE [@ EXCEPT !.updates = rest]]
    /\ size' = IF call[t].frees THEN [size EXCEPT ![call[t].block] = None] ELSE size
    /\ UNCHANGED <<zmalloc_thread_safe, aborted>>

\* update_zmalloc_stat_alloc and update_zmalloc_stat_free: an atomic addition, or
\* a read and a write.
UpdateAtomic(t) ==
    /\ ~aborted /\ ~Idle(t) /\ reg[t] = None /\ zmalloc_thread_safe
    /\ Write(t, used_memory + Head(call[t].updates))

UpdateRead(t) ==
    /\ ~aborted /\ ~Idle(t) /\ reg[t] = None /\ ~zmalloc_thread_safe
    /\ reg' = [reg EXCEPT ![t] = used_memory]
    /\ UNCHANGED <<size, used_memory, zmalloc_thread_safe, call, overlap, aborted>>

UpdateWrite(t) ==
    /\ ~aborted /\ reg[t] # None
    /\ Write(t, reg[t] + Head(call[t].updates))

Next ==
    \E t \in Threads :
        \/ \E b \in Blocks : Zfree(t, b)
        \/ \E b \in Blocks, n \in Sizes : Zmalloc(t, b, n) \/ Zrealloc(t, b, n)
        \/ OutOfMemory(t) \/ EnableThreadSafeness(t)
        \/ UpdateAtomic(t) \/ UpdateRead(t) \/ UpdateWrite(t)

Pending(t) == SumFunction(call[t].updates)

Freeing(b) == \E t \in Threads : call[t].block = b /\ call[t].frees

\* Until an update falls between the read and the write of another one, which
\* zmalloc_enable_thread_safeness() is there to exclude, used_memory is the sum of
\* the zmalloc_size() of the blocks (zmalloc.cpp:182), but for the updates that
\* calls have yet to make: nothing drifts through any sequence of allocations and
\* resizings by any thread, and the counter does not wrap below zero.
MemoryAccounted ==
    ~overlap =>
        used_memory + SumFunction([t \in Threads |-> Pending(t)])
            = SumFunction([b \in {c \in Blocks : size[c] # None /\ ~Freeing(c)} |->
                              ZmallocSize(b)])
=============================================================================
