----------------------------------- MODULE Util -----------------------------------
(***************************************************************************)
(* The utility libraries that keep state: Stat and Zmalloc (Counters),     *)
(* Sds, Paths and KeyLock.  They share nothing, so a behaviour exercises   *)
(* one of them, which `lib' names, and leaves the others alone; any other  *)
(* name in Libs is a library without state.                                *)
(***************************************************************************)
EXTENDS Counters

CONSTANTS
    Bytes, Nul, Junk, MaxPrealloc, MaxArg, MaxLen,      \* Sds
    Procs, Paths, Files,                                \* Paths, and KeyLock
    LockKeys, Hash, BucketPower                         \* KeyLock

VARIABLES
    len, free, buf, alloc, text, safe,          \* Sds
    dirs, given, depth, at, returned,           \* Paths
    owner, held, waiting                        \* KeyLock

string == <<len, free, buf, alloc, text, safe>>
files  == <<dirs, given, depth, at, returned>>
locks  == <<owner, held, waiting>>

SDS   == INSTANCE Sds
DIR   == INSTANCE Paths WITH pc <- at, result <- returned
KEYS  == INSTANCE KeyLock WITH Threads <- Procs, Keys <- LockKeys

ASSUME UtilConstants ==
    /\ Nul \notin Bytes /\ Junk \notin Bytes \cup {Nul}
    /\ MaxPrealloc \in Nat \ {0} /\ MaxArg \in Nat /\ MaxLen \in Nat
    /\ None \notin Procs /\ Hash \in [LockKeys -> Nat]
    /\ BucketPower \in Nat /\ 2 ^ BucketPower \in Nat \ {0}

PathsIdle ==
    /\ dirs = {<<>>}
    /\ given = <<>> /\ depth = <<>> /\ at = <<>> /\ returned = <<>>

UtilInit ==
    /\ CountInit /\ SDS!Init /\ KEYS!Init
    /\ IF lib = "path" THEN DIR!Init ELSE PathsIdle

UtilNext ==
    \/ CountNext /\ UNCHANGED <<string, files, locks>>
    \/ /\ \/ lib = "string" /\ SDS!Next  /\ UNCHANGED <<files, locks>>
          \/ lib = "path"   /\ DIR!Next  /\ UNCHANGED <<string, locks>>
          \/ lib = "lock"   /\ KEYS!Next /\ UNCHANGED <<string, files>>
       /\ UNCHANGED countVars

utilVars == <<countVars, string, files, locks>>

UtilSpec == UtilInit /\ [][UtilNext]_utilVars

-----------------------------------------------------------------------------
(* Properties.                                                             *)

\* Every function of sds.cpp leaves the string well formed and with the contents
\* its name promises, inside the memory it has (StringOk of module Sds).
StringSafe == lib = "string" => SDS!StringOk

\* Keys that share a mutex (key_lock.h:36) are held by one thread at a time, and
\* nobody waits for a thread that waits (module KeyLock).
KeysLocked == lib = "lock" => KEYS!KeysExclusive
=============================================================================
