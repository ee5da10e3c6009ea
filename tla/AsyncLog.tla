------------------------------- MODULE AsyncLog -------------------------------
(***************************************************************************)
(* The asynchronous log of util/log.cpp.  Any thread may log: it formats a *)
(* record and appends it to g_log_list under g_log_list_mutex.  One log    *)
(* thread takes the records off the list and writes each to one of three   *)
(* files.  It asks whether the list is empty, and reads its front, WITHOUT *)
(* the mutex; only pop_front() is protected.                               *)
(*                                                                         *)
(* std::list::push_back() makes a node reachable from the front by one     *)
(* store, made after the node has been filled in, so the append is one     *)
(* step.  The log thread is the only one that removes nodes.               *)
(***************************************************************************)
EXTENDS Integers, Sequences, FiniteSets

CONSTANTS
    Threads,        \* the threads that log
    LogThread,      \* the thread that runs log_thread_loop
    None,           \* nobody
    Levels,         \* the levels that are logged: a subset of AllLevels
    LogLevel,       \* the argument log_level of log_init
    MaxLogs,        \* bound: records created
    MaxRotations    \* bound: log files moved away

AllLevels == {1, 2, 4, 8, 16, 32}
WARNING == 2
DEBUG   == 16
MONITOR == 32

Record == [id : 1 .. MaxLogs, level : Levels]

ASSUME LogConstants ==
    /\ IsFiniteSet(Threads)
    /\ LogThread \notin Threads /\ None \notin Threads \cup {LogThread} \cup Record
    /\ Levels \subseteq AllLevels /\ LogLevel \in AllLevels
    /\ MaxLogs \in Nat /\ MaxRotations \in Nat

VARIABLES
    level,      \* g_log_level
    init,       \* what log_init returned: "no" (not called), "ok" or "failed"
    pc,         \* where each thread is in log_printf
    rec,        \* the record each thread is logging
    created,    \* how many records were created
    mutex,      \* who holds g_log_list_mutex
    list,       \* g_log_list
    pushed,     \* history: every record ever appended to the list, in order
    running,    \* g_log_running
    logpc,      \* where the log thread is; "off" before it is created
    cur,        \* p_log in log_thread_loop
    dirty,      \* files whose write_log... flag is set in this round
    stream,     \* what each FILE still buffers
    disk,       \* what has reached each file, over all its rotated generations
    missing,    \* files whose path no longer exists
    rotations,  \* how often a file was moved away
    frees,      \* how often the memory of each record was freed
    closer,     \* log_close: "no", "joining" or "done"
    mark        \* history: Len(pushed) when the log thread last read running as true

producers == <<pc, rec, created>>
logger    == <<logpc, cur, dirty>>
files     == <<stream, disk, missing, rotations>>
vars      == <<level, init, producers, mutex, list, pushed, running, logger,
               files, frees, closer, mark>>

Files == {"log", "wf", "monitor"}

Init ==
    /\ level = 0 /\ init = "no"
    /\ pc = [t \in Threads |-> "idle"] /\ rec = [t \in Threads |-> None]
    /\ created = 0
    /\ mutex = None /\ list = <<>> /\ pushed = <<>>
    /\ running = TRUE /\ logpc = "off" /\ cur = None /\ dirty = {}
    /\ stream = [f \in Files |-> <<>>] /\ disk = [f \in Files |-> <<>>]
    /\ missing = {} /\ rotations = 0
    /\ frees = [r \in 1 .. MaxLogs |-> 0]
    /\ closer = "no" /\ mark = 0

-----------------------------------------------------------------------------
(* Starting and stopping.                                                  *)

\* log_init() fails before it stores the level (a bad argument), or after it
\* (the directory, a file, the key or the thread cannot be created).
LogInit ==
    /\ init = "no"
    /\ \/ init' = "failed" /\ UNCHANGED <<level, logpc>>
       \/ init' = "failed" /\ level' = LogLevel /\ UNCHANGED logpc
       \/ init' = "ok"     /\ level' = LogLevel /\ logpc' = "check"
    /\ UNCHANGED <<producers, mutex, list, pushed, running, cur, dirty, files,
                   frees, closer, mark>>

\* log_close() up to pthread_join(): only a log that was started is closed.
LogClose ==
    /\ init = "ok" /\ closer = "no"
    /\ running' = FALSE
    /\ closer' = "joining"
    /\ UNCHANGED <<level, init, producers, mutex, list, pushed, logger, files,
                   frees, mark>>

LogCloseJoined ==
    /\ closer = "joining" /\ logpc = "exit"
    /\ closer' = "done"
    /\ UNCHANGED <<level, init, producers, mutex, list, pushed, running,
                   logger, files, frees, mark>>

-----------------------------------------------------------------------------
(* A thread that logs.                                                     *)

\* The test of the macro log_base: a call at a disabled level does nothing.
Enabled(lv) == level >= lv \/ lv = MONITOR

\* log_printf() up to the lock: allocate the record and format it.
LogPrintf(t, lv) ==
    /\ pc[t] = "idle" /\ created < MaxLogs
    /\ Enabled(lv)
    /\ created' = created + 1
    /\ rec' = [rec EXCEPT ![t] = [id |-> created + 1, level |-> lv]]
    /\ pc' = [pc EXCEPT ![t] = "lock"]
    /\ UNCHANGED <<level, init, mutex, list, pushed, running, logger, files,
                   frees, closer, mark>>

LogLock(t) ==
    /\ pc[t] = "lock" /\ mutex = None
    /\ mutex' = t
    /\ pc' = [pc EXCEPT ![t] = "push"]
    /\ UNCHANGED <<level, init, rec, created, list, pushed, running, logger,
                   files, frees, closer, mark>>

LogPush(t) ==
    /\ pc[t] = "push"
    /\ list' = Append(list, rec[t])
    /\ pushed' = Append(pushed, rec[t])
    /\ pc' = [pc EXCEPT ![t] = "unlock"]
    /\ UNCHANGED <<level, init, rec, created, mutex, running, logger, files,
                   frees, closer, mark>>

\* Mutant: the mutex is not released.
LogUnlockForgotten(t) ==
    /\ pc[t] = "unlock"
    /\ rec' = [rec EXCEPT ![t] = None]
    /\ pc' = [pc EXCEPT ![t] = "idle"]
    /\ UNCHANGED <<level, init, created, mutex, list, pushed, running, logger,
                   files, frees, closer, mark>>

\* Mutant: the thread that logged frees the record.
LogUnlockFreeing(t) ==
    /\ pc[t] = "unlock"
    /\ mutex' = None
    /\ frees' = [frees EXCEPT ![rec[t].id] = @ + 1]
    /\ rec' = [rec EXCEPT ![t] = None]
    /\ pc' = [pc EXCEPT ![t] = "idle"]
    /\ UNCHANGED <<level, init, created, list, pushed, running, logger, files,
                   closer, mark>>

LogUnlock(t) ==
    /\ pc[t] = "unlock"
    /\ mutex' = None
    /\ rec' = [rec EXCEPT ![t] = None]
    /\ pc' = [pc EXCEPT ![t] = "idle"]
    /\ UNCHANGED <<level, init, created, list, pushed, running, logger, files,
                   frees, closer, mark>>

-----------------------------------------------------------------------------
(* The log thread.                                                         *)

\* while (g_log_running): the flag is read once per round.
CheckRunning ==
    /\ logpc = "check"
    /\ logpc' = IF running THEN "reopen" ELSE "exit"
    /\ mark' = IF running THEN Len(pushed) ELSE mark
    /\ UNCHANGED <<level, init, producers, mutex, list, pushed, running, cur,
                   dirty, files, frees, closer>>

\* fclose() and fflush() write out what the streams of fs buffer.
WriteOut(fs) ==
    /\ disk' = [f \in Files |-> IF f \in fs THEN disk[f] \o stream[f] ELSE disk[f]]
    /\ stream' = [f \in Files |-> IF f \in fs THEN <<>> ELSE stream[f]]

\* "check if file is moved or deleted": a missing file is opened anew, and the
\* old stream closed, unless fopen() fails.
Reopen ==
    /\ logpc = "reopen"
    /\ \E fs \in SUBSET missing : WriteOut(fs) /\ missing' = missing \ fs
    /\ logpc' = "drain"
    /\ UNCHANGED <<level, init, producers, mutex, list, pushed, running, cur,
                   dirty, rotations, frees, closer, mark>>

\* Mutant: the last round is cut short when the log is closed.
DrainWhileRunning ==
    /\ logpc = "drain"
    /\ IF list = <<>> \/ ~running
       THEN logpc' = "flush" /\ cur' = None
       ELSE logpc' = "fwrite" /\ cur' = Head(list)
    /\ UNCHANGED <<level, init, producers, mutex, list, pushed, running, dirty,
                   files, frees, closer, mark>>

\* while (!g_log_list.empty()) p_log = *g_log_list.begin(): no lock is taken.
Drain ==
    /\ logpc = "drain"
    /\ IF list = <<>>
       THEN logpc' = "flush" /\ cur' = None
       ELSE logpc' = "fwrite" /\ cur' = Head(list)
    /\ UNCHANGED <<level, init, producers, mutex, list, pushed, running, dirty,
                   files, frees, closer, mark>>

\* Mutant: warnings go to the ordinary log.
RouteStrict(lv) ==
    IF lv < WARNING THEN "wf" ELSE IF lv <= DEBUG THEN "log" ELSE "monitor"

\* The file a record of level lv belongs to.
Route(lv) ==
    IF lv <= WARNING THEN "wf" ELSE IF lv <= DEBUG THEN "log" ELSE "monitor"

\* fwrite() may find its buffer full and write all of it out.
Fwrite ==
    /\ logpc = "fwrite"
    /\ LET f == Route(cur.level)
           s == Append(stream[f], cur)
       IN  /\ dirty' = dirty \cup {f}
           /\ \/ /\ stream' = [stream EXCEPT ![f] = s]
                 /\ UNCHANGED disk
              \/ /\ stream' = [stream EXCEPT ![f] = <<>>]
                 /\ disk' = [disk EXCEPT ![f] = @ \o s]
    /\ logpc' = "poplock"
    /\ UNCHANGED <<level, init, producers, mutex, list, pushed, running, cur,
                   missing, rotations, frees, closer, mark>>

PopLock ==
    /\ logpc = "poplock" /\ mutex = None
    /\ mutex' = LogThread
    /\ logpc' = "pop"
    /\ UNCHANGED <<level, init, producers, list, pushed, running, cur, dirty,
                   files, frees, closer, mark>>

\* pop_front() and the unlock after it.
PopFront ==
    /\ logpc = "pop"
    /\ list' = Tail(list)
    /\ mutex' = None
    /\ logpc' = "free"
    /\ UNCHANGED <<level, init, producers, pushed, running, cur, dirty, files,
                   frees, closer, mark>>

Free ==
    /\ logpc = "free"
    /\ frees' = [frees EXCEPT ![cur.id] = @ + 1]
    /\ logpc' = "drain"
    /\ UNCHANGED <<level, init, producers, mutex, list, pushed, running, cur,
                   dirty, files, closer, mark>>

\* fflush() of every file written in this round.
Flush ==
    /\ logpc = "flush"
    /\ WriteOut(dirty)
    /\ dirty' = {}
    /\ logpc' = "check"
    /\ UNCHANGED <<level, init, producers, mutex, list, pushed, running, cur,
                   missing, rotations, frees, closer, mark>>

-----------------------------------------------------------------------------
\* An administrator moves a log file away.
Rotate(f) ==
    /\ f \notin missing /\ rotations < MaxRotations
    /\ missing' = missing \cup {f}
    /\ rotations' = rotations + 1
    /\ UNCHANGED <<level, init, producers, mutex, list, pushed, running,
                   logger, stream, disk, frees, closer, mark>>

LogCall(t) == LogLock(t) \/ LogPush(t) \/ LogUnlock(t)

LogThreadLoop ==
    \/ CheckRunning \/ Reopen \/ Drain \/ Fwrite \/ PopLock \/ PopFront
    \/ Free \/ Flush

Next ==
    \/ LogInit \/ LogClose \/ LogCloseJoined
    \/ \E t \in Threads : (\E lv \in Levels : LogPrintf(t, lv)) \/ LogCall(t)
    \/ LogThreadLoop
    \/ \E f \in Files : Rotate(f)

Spec == Init /\ [][Next]_vars

\* Every thread inside log_printf() is scheduled, and so are the log thread and
\* the thread in log_close().  Nobody has to log, to rotate or to close.
Fairness ==
    /\ \A t \in Threads : SF_vars(LogLock(t)) /\ WF_vars(LogCall(t))
    /\ SF_vars(PopLock) /\ WF_vars(LogThreadLoop)
    /\ WF_vars(LogCloseJoined)

FairSpec == Spec /\ Fairness

-----------------------------------------------------------------------------
(* Properties.                                                             *)

\* Every variable has its type; the record in hand is one while it is used.
TypeOK ==
    /\ level \in {0, LogLevel} /\ init \in {"no", "ok", "failed"}
    /\ pc \in [Threads -> {"idle", "lock", "push", "unlock"}]
    /\ rec \in [Threads -> Record \cup {None}]
    /\ \A t \in Threads : rec[t] = None <=> pc[t] = "idle"
    /\ created \in 0 .. MaxLogs
    /\ mutex \in Threads \cup {LogThread, None}
    /\ list \in Seq(Record) /\ pushed \in Seq(Record)
    /\ running \in BOOLEAN
    /\ logpc \in {"off", "check", "reopen", "drain", "fwrite", "poplock", "pop",
                  "free", "flush", "exit"}
    /\ cur \in Record \cup {None}
    /\ logpc \in {"fwrite", "poplock", "pop", "free"} => cur # None
    /\ dirty \subseteq Files /\ missing \subseteq Files
    /\ stream \in [Files -> Seq(Record)] /\ disk \in [Files -> Seq(Record)]
    /\ rotations \in 0 .. MaxRotations
    /\ frees \in [1 .. MaxLogs -> Nat]
    /\ closer \in {"no", "joining", "done"} /\ mark \in Nat

\* How many records the log thread has written.
Written == Len(pushed) - Len(list)
             + IF logpc \in {"poplock", "pop"} THEN 1 ELSE 0

\* The file each level belongs to: FATAL and WARNING, the others.
Home == [lv \in AllLevels |-> CASE lv \in {1, 2} -> "wf"
                                 [] lv \in {4, 8, 16} -> "log"
                                 [] lv = 32 -> "monitor"]

\* What was written to a file, and which of the first i records belong there.
Contents(f)     == disk[f] \o stream[f]
Belong(s, f, i) == {j \in 1 .. i : Home[s[j].level] = f}
Rank(s, f, i)   == Cardinality(Belong(s, f, i))

\* Each file receives exactly the records of its levels, each once, in the order
\* in which the threads appended them to g_log_list; rotation loses nothing.
LogOrder ==
    \A f \in Files :
        /\ Len(Contents(f)) = Rank(pushed, f, Written)
        /\ \A i \in Belong(pushed, f, Written) :
              Contents(f)[Rank(pushed, f, i)] = pushed[i]

\* A record is freed once, after it was written and taken off the list, and
\* nobody uses it afterwards: neither the list nor a thread still holds it.
FreedAfterWrite ==
    \A r \in 1 .. MaxLogs :
        /\ frees[r] <= 1
        /\ frees[r] = 1 =>
             /\ \E f \in Files : \E i \in DOMAIN Contents(f) : Contents(f)[i].id = r
             /\ \A i \in DOMAIN list : list[i].id # r
             /\ \A t \in Threads : rec[t] # None => rec[t].id # r
                                                    \/ pc[t] = "unlock"

\* log_close() may lose records, but none that was on the list when the log
\* thread began its last round: a record survives if it was logged before the
\* last time g_log_running was read as true.  And when the log thread goes to
\* sleep or ends, what was taken off the list is in its file, not in a buffer.
CloseKeepsMarked ==
    /\ logpc = "exit" => Len(list) <= Len(pushed) - mark
    /\ logpc \in {"check", "reopen", "exit"} => \A f \in Files : stream[f] = <<>>

\* While the log runs, every record that was appended reaches its file.
LogWritten ==
    \A n \in 1 .. MaxLogs :
        Len(pushed) >= n /\ init = "ok"
            ~> closer # "no" \/ \E f \in Files : \E i \in DOMAIN disk[f] :
                                    /\ n <= Len(pushed)
                                    /\ disk[f][i] = pushed[n]

=============================================================================
