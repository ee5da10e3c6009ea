--------------------------------- MODULE Counters ---------------------------------
(***************************************************************************)
(* The utility libraries that count: Stat and Zmalloc.  They share         *)
(* nothing, so a behaviour exercises the one that `lib' names.             *)
(***************************************************************************)
EXTENDS Stat

CONSTANTS
    Libs,                                   \* what may be exercised
    Allocators, Blocks, Sizes, WordBits     \* Zmalloc

VARIABLES
    lib,
    size, used_memory, zmalloc_thread_safe, call, reg, overlap, aborted  \* Zmalloc

memory    == <<size, used_memory, zmalloc_thread_safe, call, reg, overlap, aborted>>
countVars == <<vars, memory, lib>>

MEM == INSTANCE Zmalloc WITH Threads <- Allocators

ASSUME CounterConstants ==
    /\ IsFiniteSet(Allocators) /\ IsFiniteSet(Blocks) /\ None \notin Blocks
    /\ Sizes \subseteq Nat /\ None \notin Nat
    /\ WordBits \in Nat /\ 2 ^ WordBits \in Nat \ {0}
    /\ \A f \in [Blocks -> Sizes] :        \* the blocks lie side by side in memory
          SumFunction([b \in Blocks |-> MEM!Round(f[b]) + MEM!PREFIX_SIZE]) < 2 ^ WordBits

CountInit == lib \in Libs /\ Init /\ MEM!Init

\* A counter that was spoilt by overlapping updates is not followed further.
CountNext ==
    /\ \/ lib = "stat"   /\ Next /\ UNCHANGED memory
       \/ lib = "memory" /\ ~overlap /\ MEM!Next /\ UNCHANGED vars
    /\ UNCHANGED lib

CountSpec == CountInit /\ [][CountNext]_countVars

-----------------------------------------------------------------------------
(* Properties.                                                             *)

\* ResultWindow of module Stat (stat.cpp): what a query returns lies between the
\* truth when it was called and the truth when it returns.
QueryWindow == lib = "stat" => ResultWindow

\* used_memory (zmalloc.cpp:108) is the sum of the sizes of the blocks until two
\* updates of it overlap (MemoryAccounted of module Zmalloc).
MemoryCounted == lib = "memory" => MEM!MemoryAccounted
=============================================================================
