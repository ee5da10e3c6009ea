---------------------------- MODULE AsyncLogProofs ----------------------------
(***************************************************************************)
(* The asynchronous log: every file gets its records once and in order, a  *)
(* record is freed once and after its last use, and closing the log keeps  *)
(* what was logged before the last round.  For any number of threads and   *)
(* records, any levels and any number of rotations.                        *)
(***************************************************************************)
EXTENDS AsyncLog, SequenceTheorems, FiniteSetTheorems, TLAPS

USE LogConstants DEF AllLevels, Files

\* The mutex is held by the thread that is between its lock and its unlock.
Locked ==
    /\ \A t \in Threads : pc[t] \in {"push", "unlock"} <=> mutex = t
    /\ logpc = "pop" <=> mutex = LogThread

\* How many records were taken off the list.
Popped == Len(pushed) - Len(list)

\* The list is the end of the history of what was appended.
Suffix ==
    /\ Len(list) <= Len(pushed)
    /\ \A i \in 1 .. Len(list) : list[i] = pushed[Popped + i]

\* The log thread works on the front of the list, and frees what it has popped.
InHand ==
    /\ logpc \in {"fwrite", "poplock", "pop"} => list # <<>> /\ cur = list[1]
    /\ logpc = "free" => Popped >= 1 /\ cur = pushed[Popped]

Unpushed(t) == pc[t] \in {"lock", "push"}

\* A record has a number of its own.
Ids ==
    /\ \A i \in 1 .. Len(pushed) : pushed[i].id <= created
    /\ \A i, j \in 1 .. Len(pushed) : pushed[i].id = pushed[j].id => i = j
    /\ \A t \in Threads : Unpushed(t) =>
          /\ rec[t].id <= created
          /\ \A i \in 1 .. Len(pushed) : pushed[i].id # rec[t].id
          /\ \A u \in Threads : Unpushed(u) /\ rec[u].id = rec[t].id => u = t

\* The records freed are those popped, but for the one about to be freed.
FreedSoFar == IF logpc = "free" THEN Popped - 1 ELSE Popped

Freed ==
    \A r \in 1 .. MaxLogs :
        /\ frees[r] \in {0, 1}
        /\ frees[r] = 1 <=> \E i \in 1 .. FreedSoFar : pushed[i].id = r

\* What a stream buffers is written out at the end of the round.
Buffered ==
    /\ \A f \in Files : stream[f] # <<>> => f \in dirty
    /\ logpc \in {"off", "check", "reopen", "exit"} => dirty = {}

\* A round ends with an empty list.
Rounds ==
    /\ mark <= Len(pushed)
    /\ logpc \in {"off", "flush", "check", "exit"} => Popped >= mark

\* The log thread exists when log_init() has succeeded.
Started == init = "ok" <=> logpc # "off"

IInv ==
    /\ TypeOK /\ Locked /\ Suffix /\ InHand /\ Ids /\ Freed /\ Buffered /\ Rounds
    /\ Started /\ LogOrder

------------------------------------------------------------------------------
(* How many of the first i records belong to a file.                       *)

\* Ranks are numbers, and none of no records belongs to a file.
LEMMA RankType ==
    ASSUME NEW s, NEW f, NEW i \in Nat
    PROVE  /\ IsFiniteSet(Belong(s, f, i)) /\ Rank(s, f, i) \in Nat
           /\ Rank(s, f, 0) = 0
<1>1. IsFiniteSet(Belong(s, f, i))
  BY FS_Interval, FS_Subset DEF Belong
<1>2. Belong(s, f, 0) = {}
  BY DEF Belong
<1> QED BY <1>1, <1>2, FS_CardinalityType, FS_EmptySet, Zenon DEF Rank

\* One record more.
LEMMA RankStep ==
    ASSUME NEW s, NEW f, NEW i \in Nat
    PROVE  Rank(s, f, i + 1) = IF Home[s[i + 1].level] = f THEN Rank(s, f, i) + 1
                               ELSE Rank(s, f, i)
<1>1. 1 .. i + 1 = (1 .. i) \cup {i + 1} /\ i + 1 \notin 1 .. i
  OBVIOUS
<1>2. CASE Home[s[i + 1].level] = f
  <2>1. Belong(s, f, i + 1) = Belong(s, f, i) \cup {i + 1} /\ i + 1 \notin Belong(s, f, i)
    BY <1>1, <1>2 DEF Belong
  <2> QED BY <1>2, <2>1, RankType, FS_AddElement DEF Rank
<1>3. CASE Home[s[i + 1].level] # f
  <2>1. Belong(s, f, i + 1) = Belong(s, f, i)
    BY <1>1, <1>3 DEF Belong
  <2> QED BY <1>3, <2>1 DEF Rank
<1> QED BY <1>2, <1>3

\* The place of a record is inside its file.
LEMMA RankBounds ==
    ASSUME NEW s, NEW f, NEW n \in Nat, NEW i \in Belong(s, f, n)
    PROVE  Rank(s, f, i) \in 1 .. Rank(s, f, n)
<1>1. i \in 1 .. n /\ i \in Nat /\ i \in Belong(s, f, i) /\ Belong(s, f, i) \subseteq Belong(s, f, n)
  BY DEF Belong
<1>2. /\ IsFiniteSet(Belong(s, f, i)) /\ IsFiniteSet(Belong(s, f, n))
      /\ Rank(s, f, i) \in Nat /\ Rank(s, f, n) \in Nat
  BY <1>1, RankType
<1>3. Rank(s, f, i) <= Rank(s, f, n)
  BY <1>1, <1>2, FS_Subset DEF Rank
<1>4. Rank(s, f, i) # 0
  BY <1>1, <1>2, FS_EmptySet DEF Rank
<1> QED BY <1>2, <1>3, <1>4

------------------------------------------------------------------------------
(* Types.                                                                  *)

\* What a record holds.
LEMMA RecordFields == \A r \in Record : r.id \in 1 .. MaxLogs /\ r.level \in Levels
  BY DEF Record

\* Route sends each level home.
LEMMA RouteHome == \A lv \in Levels : Route(lv) = Home[lv] /\ Route(lv) \in Files
  BY DEF Route, Home, WARNING, DEBUG

\* What the list and its history hold.
LEMMA ListTypes ==
    ASSUME TypeOK
    PROVE  /\ Len(list) \in Nat /\ Len(pushed) \in Nat /\ Popped \in Int
           /\ \A i \in 1 .. Len(list) : list[i] \in Record
           /\ \A i \in 1 .. Len(pushed) : pushed[i] \in Record
  BY LenProperties, ElementOfSeq DEF TypeOK, Popped

\* As many records have been written as Written says, and no more than pushed.
LEMMA WrittenFacts ==
    ASSUME TypeOK, Suffix, InHand
    PROVE  /\ Written \in Nat /\ Written <= Len(pushed) /\ Popped \in Nat
           /\ Popped <= Written
           /\ list # <<>> => Len(list) > 0
<1>1. list # <<>> => Len(list) > 0
  BY EmptySeq DEF TypeOK
<1> QED BY <1>1, ListTypes DEF Written, Suffix, InHand, Popped

------------------------------------------------------------------------------
(* LogOrder is kept by a step that writes nothing.                         *)
LEMMA OrderKept ==
    ASSUME TypeOK, Suffix, InHand, LogOrder,
           Written' = Written, \A f \in Files : Contents(f)' = Contents(f),
           \A j \in 1 .. Written : pushed'[j] = pushed[j]
    PROVE  LogOrder'
<1>1. Written \in Nat
  BY WrittenFacts
<1>2. ASSUME NEW f \in Files
      PROVE  /\ Len(Contents(f)') = Rank(pushed', f, Written')
             /\ \A i \in Belong(pushed', f, Written') :
                   Contents(f)'[Rank(pushed', f, i)] = pushed'[i]
  <2>1. /\ Belong(pushed', f, Written) = Belong(pushed, f, Written)
        /\ Rank(pushed', f, Written) = Rank(pushed, f, Written)
        /\ \A i \in 1 .. Written : Rank(pushed', f, i) = Rank(pushed, f, i)
    <3> DEFINE s == pushed'
               n == Written
    <3>1. n \in Nat /\ \A j \in 1 .. n : s[j] = pushed[j]
      BY <1>1
    <3> HIDE DEF s, n
    <3>2. \A i \in 0 .. n : Belong(s, f, i) = Belong(pushed, f, i)
      BY <3>1 DEF Belong
    <3>3. /\ Belong(s, f, n) = Belong(pushed, f, n) /\ Rank(s, f, n) = Rank(pushed, f, n)
          /\ \A i \in 1 .. n : Rank(s, f, i) = Rank(pushed, f, i)
      BY <3>1, <3>2 DEF Rank
    <3> QED BY <3>3 DEF s, n
  <2>2. \A i \in Belong(pushed, f, Written) : i \in 1 .. Written
    BY DEF Belong
  <2>3. /\ Len(Contents(f)) = Rank(pushed, f, Written)
        /\ \A i \in Belong(pushed, f, Written) :
              Contents(f)[Rank(pushed, f, i)] = pushed[i]
    BY DEF LogOrder
  <2>4. Contents(f)' = Contents(f)
    OBVIOUS
  <2> QED BY <2>1, <2>2, <2>3, <2>4
<1>3. \A f \in Files : Belong(pushed, f, Written)' = Belong(pushed', f, Written')
  BY DEF Belong
<1>4. \A f \in Files, i \in Nat : Rank(pushed, f, i)' = Rank(pushed', f, i)
  BY DEF Rank, Belong
<1>5. \A f \in Files : Rank(pushed, f, Written)' = Rank(pushed', f, Written')
  BY DEF Rank, Belong
<1>6. \A f \in Files : \A i \in Belong(pushed', f, Written') : i \in Nat
  BY <1>1 DEF Belong
<1> QED BY <1>2, <1>3, <1>4, <1>5, <1>6 DEF LogOrder

------------------------------------------------------------------------------
(* log_init(), log_close() and rotation.                                   *)

\* log_init(), log_close() and a rotation move no record.
LEMMA StepControl ==
    ASSUME IInv,
           LogInit \/ LogClose \/ LogCloseJoined \/ (\E f \in Files : Rotate(f))
             \/ UNCHANGED vars
    PROVE  IInv'
<1>0. /\ TypeOK /\ Locked /\ Suffix /\ InHand /\ Ids /\ Freed /\ Buffered /\ Rounds
      /\ Started /\ LogOrder
  BY DEF IInv
<1>1. /\ UNCHANGED <<pc, rec, created, mutex, list, pushed, cur, dirty, stream, disk,
                      frees, mark>>
      /\ logpc' = logpc \/ (logpc = "off" /\ logpc' = "check")
      /\ init' = "ok" <=> logpc' # "off"
  BY <1>0 DEF LogInit, LogClose, LogCloseJoined, Rotate, vars, producers, logger, files,
              Started, TypeOK
<1>2. TypeOK'
  <2>1. CASE LogInit
    <3>1. /\ level' \in {0, LogLevel} /\ init' \in {"no", "ok", "failed"}
          /\ missing' = missing /\ rotations' = rotations
          /\ running' = running /\ closer' = closer /\ logpc' \in {logpc, "check"}
      BY <1>0, <2>1 DEF LogInit, files, TypeOK
    <3> QED BY <1>0, <1>1, <3>1 DEF TypeOK
  <2>2. CASE LogClose \/ LogCloseJoined \/ UNCHANGED vars
    <3>1. /\ level' = level /\ init' = init /\ missing' = missing /\ rotations' = rotations
          /\ logpc' = logpc /\ running' \in BOOLEAN /\ closer' \in {"no", "joining", "done"}
      BY <1>0, <2>2, Zenon DEF LogClose, LogCloseJoined, vars, logger, files, TypeOK
    <3> QED BY <1>0, <1>1, <3>1, Zenon DEF TypeOK
  <2>3. ASSUME NEW f \in Files, Rotate(f) PROVE TypeOK'
    BY <1>0, <1>1, <2>3 DEF Rotate, TypeOK, producers, logger
  <2> QED BY <2>1, <2>2, <2>3
<1>3. Popped' = Popped /\ FreedSoFar' = FreedSoFar /\ Written' = Written
  BY <1>1 DEF Popped, FreedSoFar, Written
<1>4. Locked' /\ Suffix' /\ InHand' /\ Buffered' /\ Rounds' /\ Started'
  BY <1>0, <1>1, <1>3 DEF Locked, Suffix, InHand, Buffered, Rounds, Started
<1>5. Ids'
  BY <1>0, <1>1 DEF Ids, Unpushed
<1>6. Freed'
  BY <1>0, <1>1, <1>3 DEF Freed
<1>7. LogOrder'
  BY <1>0, <1>1, <1>3, OrderKept DEF Contents
<1> QED BY <1>2, <1>4, <1>5, <1>6, <1>7 DEF IInv

------------------------------------------------------------------------------
(* log_printf().                                                           *)

\* A thread makes a record, with a number nobody has had.
LEMMA StepLogPrintf ==
    ASSUME IInv, NEW t \in Threads, NEW lv \in Levels, LogPrintf(t, lv)
    PROVE  IInv'
<1>0. /\ TypeOK /\ Locked /\ Suffix /\ InHand /\ Ids /\ Freed /\ Buffered /\ Rounds
      /\ Started /\ LogOrder
  BY DEF IInv
<1>1. /\ UNCHANGED <<level, init, mutex, list, pushed, running, logpc, cur, dirty, stream,
                      disk, missing, rotations, frees, closer, mark>>
      /\ pc[t] = "idle" /\ created < MaxLogs /\ created' = created + 1
      /\ pc' = [pc EXCEPT ![t] = "lock"]
      /\ rec' = [rec EXCEPT ![t] = [id |-> created + 1, level |-> lv]]
      /\ created \in 0 .. MaxLogs
      /\ pc \in [Threads -> {"idle", "lock", "push", "unlock"}]
      /\ rec \in [Threads -> Record \cup {None}]
  BY <1>0 DEF LogPrintf, logger, files, TypeOK
<1>2. [id |-> created + 1, level |-> lv] \in Record
  BY <1>1 DEF Record
<1>3. /\ rec'[t] \in Record /\ rec'[t].id = created + 1 /\ pc'[t] = "lock"
      /\ \A u \in Threads \ {t} : rec'[u] = rec[u] /\ pc'[u] = pc[u]
  BY <1>1, <1>2
<1>4. TypeOK'
  <2>1. rec' \in [Threads -> Record \cup {None}]
    BY <1>1, <1>2
  <2>2. \A u \in Threads : rec[u] = None <=> pc[u] = "idle"
    BY <1>0 DEF TypeOK
  <2>3. \A u \in Threads : rec'[u] = None <=> pc'[u] = "idle"
    BY <1>3, <2>2
  <2>4. created' \in 0 .. MaxLogs
    BY <1>1, LogConstants
  <2>5. pc' \in [Threads -> {"idle", "lock", "push", "unlock"}]
    BY <1>1
  <2>6. UNCHANGED <<level, init, mutex, list, pushed, running, logpc, cur, dirty, stream,
                    disk, missing, rotations, frees, closer, mark>>
    BY <1>1, Zenon
  <2> QED BY <1>0, <2>1, <2>3, <2>4, <2>5, <2>6 DEF TypeOK
<1>5. Popped' = Popped /\ FreedSoFar' = FreedSoFar /\ Written' = Written
  BY <1>1 DEF Popped, FreedSoFar, Written
<1>6. Locked' /\ Suffix' /\ InHand' /\ Buffered' /\ Rounds' /\ Started'
  BY <1>0, <1>1, <1>5 DEF Locked, Suffix, InHand, Buffered, Rounds, Started
<1>7. Ids'
  <2>1. \A i \in 1 .. Len(pushed) : pushed[i].id \in Nat /\ pushed[i].id <= created
    BY <1>0, ListTypes, RecordFields DEF Ids
  <2>2. \A u \in Threads : Unpushed(u) => rec[u].id \in Nat /\ rec[u].id <= created
    BY <1>0, <1>1, RecordFields DEF Ids, Unpushed, TypeOK
  <2>3. \A u \in Threads : Unpushed(u)' <=> u = t \/ Unpushed(u)
    BY <1>1, <1>3 DEF Unpushed
  <2> QED BY <1>0, <1>1, <1>3, <2>1, <2>2, <2>3 DEF Ids
<1>8. Freed'
  BY <1>0, <1>1, <1>5 DEF Freed
<1>9. LogOrder'
  BY <1>0, <1>1, <1>5, OrderKept DEF Contents
<1> QED BY <1>4, <1>6, <1>7, <1>8, <1>9 DEF IInv

\* Taking the mutex and giving it back.
LEMMA StepMutex ==
    ASSUME IInv, NEW t \in Threads, LogLock(t) \/ LogUnlock(t)
    PROVE  IInv'
<1>0. /\ TypeOK /\ Locked /\ Suffix /\ InHand /\ Ids /\ Freed /\ Buffered /\ Rounds
      /\ Started /\ LogOrder
  BY DEF IInv
<1>1. /\ UNCHANGED <<level, init, created, list, pushed, running, logpc, cur, dirty, stream,
                      disk, missing, rotations, frees, closer, mark>>
      /\ pc \in [Threads -> {"idle", "lock", "push", "unlock"}]
      /\ rec \in [Threads -> Record \cup {None}]
      /\ \A u \in Threads : rec[u] = None <=> pc[u] = "idle"
  BY <1>0 DEF LogLock, LogUnlock, logger, files, TypeOK
<1>2. \/ /\ pc[t] = "lock" /\ mutex = None /\ mutex' = t
         /\ pc' = [pc EXCEPT ![t] = "push"] /\ rec' = rec
      \/ /\ pc[t] = "unlock" /\ mutex' = None /\ pc' = [pc EXCEPT ![t] = "idle"]
         /\ rec' = [rec EXCEPT ![t] = None]
  BY DEF LogLock, LogUnlock
<1>3. /\ pc' \in [Threads -> {"idle", "lock", "push", "unlock"}]
      /\ rec' \in [Threads -> Record \cup {None}]
      /\ \A u \in Threads : rec'[u] = None <=> pc'[u] = "idle"
      /\ mutex' \in Threads \cup {LogThread, None}
  BY <1>1, <1>2
<1>4. TypeOK'
  BY <1>0, <1>1, <1>3 DEF TypeOK
<1>5. Popped' = Popped /\ FreedSoFar' = FreedSoFar /\ Written' = Written
  BY <1>1 DEF Popped, FreedSoFar, Written
<1>6. Suffix' /\ InHand' /\ Buffered' /\ Rounds' /\ Started'
  BY <1>0, <1>1, <1>5 DEF Suffix, InHand, Buffered, Rounds, Started
<1>7. Locked'
  BY <1>0, <1>1, <1>2 DEF Locked
<1>8. Ids'
  <2>1. \A u \in Threads : Unpushed(u)' => Unpushed(u) /\ rec'[u] = rec[u]
    BY <1>1, <1>2 DEF Unpushed
  <2> QED BY <1>0, <1>1, <2>1 DEF Ids
<1>9. Freed'
  BY <1>0, <1>1, <1>5 DEF Freed
<1>10. LogOrder'
  BY <1>0, <1>1, <1>5, OrderKept DEF Contents
<1> QED BY <1>4, <1>6, <1>7, <1>8, <1>9, <1>10 DEF IInv

\* A record is appended to the list while the log thread works on the front of it.
LEMMA StepLogPush ==
    ASSUME IInv, NEW t \in Threads, LogPush(t)
    PROVE  IInv'
<1>0. /\ TypeOK /\ Locked /\ Suffix /\ InHand /\ Ids /\ Freed /\ Buffered /\ Rounds
      /\ Started /\ LogOrder
  BY DEF IInv
<1>1. /\ UNCHANGED <<level, init, created, rec, mutex, running, logpc, cur, dirty, stream,
                      disk, missing, rotations, frees, closer, mark>>
      /\ pc[t] = "push" /\ pc' = [pc EXCEPT ![t] = "unlock"]
      /\ list' = Append(list, rec[t]) /\ pushed' = Append(pushed, rec[t])
      /\ pc \in [Threads -> {"idle", "lock", "push", "unlock"}]
      /\ rec \in [Threads -> Record \cup {None}]
      /\ list \in Seq(Record) /\ pushed \in Seq(Record)
  BY <1>0 DEF LogPush, logger, files, TypeOK
<1>2. rec[t] \in Record
  BY <1>0, <1>1 DEF TypeOK
<1>3. /\ list' \in Seq(Record) /\ Len(list') = Len(list) + 1 /\ Len(list) \in Nat
      /\ \A i \in 1 .. Len(list) : list'[i] = list[i]
      /\ list'[Len(list) + 1] = rec[t]
  BY <1>1, <1>2, AppendProperties, LenProperties
<1>4. /\ pushed' \in Seq(Record) /\ Len(pushed') = Len(pushed) + 1 /\ Len(pushed) \in Nat
      /\ \A i \in 1 .. Len(pushed) : pushed'[i] = pushed[i]
      /\ pushed'[Len(pushed) + 1] = rec[t]
  BY <1>1, <1>2, AppendProperties, LenProperties
<1>5. TypeOK'
  <2>1. pc' \in [Threads -> {"idle", "lock", "push", "unlock"}]
    BY <1>1
  <2>2. \A u \in Threads : rec'[u] = None <=> pc'[u] = "idle"
    BY <1>0, <1>1 DEF TypeOK
  <2> QED BY <1>0, <1>1, <1>3, <1>4, <2>1, <2>2 DEF TypeOK
<1>6. /\ Popped' = Popped /\ FreedSoFar' = FreedSoFar /\ Written' = Written
      /\ Popped \in Nat /\ Popped + Len(list) = Len(pushed)
      /\ Written \in Nat /\ Written <= Len(pushed)
      /\ list # <<>> => Len(list) > 0
  <2>1. Len(pushed') - Len(list') = Len(pushed) - Len(list) /\ logpc' = logpc
    BY <1>1, <1>3, <1>4
  <2>2. Popped' = Popped
    BY <2>1 DEF Popped
  <2>3. FreedSoFar' = FreedSoFar
    BY <2>1, <2>2 DEF FreedSoFar
  <2>4. Written' = Written
    BY <2>1 DEF Written
  <2>5. Popped + Len(list) = Len(pushed)
    BY <1>3, <1>4 DEF Popped
  <2> QED BY <1>0, <2>2, <2>3, <2>4, <2>5, WrittenFacts
<1>7. Locked' /\ Buffered' /\ Started'
  BY <1>0, <1>1 DEF Locked, Buffered, Started
<1>8. Suffix'
  <2>1. \A i \in 1 .. Len(list') : i \in 1 .. Len(list) \/ i = Len(list) + 1
    BY <1>3
  <2>2. ASSUME NEW i \in 1 .. Len(list) PROVE list'[i] = pushed'[Popped + i]
    <3>1. Popped + i \in 1 .. Len(pushed)
      BY <1>3, <1>4, <1>6
    <3>2. list[i] = pushed[Popped + i]
      BY <1>0, Zenon DEF Suffix
    <3> QED BY <1>3, <1>4, <3>1, <3>2, Zenon
  <2>3. list'[Len(list) + 1] = pushed'[Popped + (Len(list) + 1)]
    BY <1>3, <1>4, <1>6
  <2>4. \A i \in 1 .. Len(list') : list'[i] = pushed'[Popped + i]
    BY <2>1, <2>2, <2>3
  <2>5. Len(list') <= Len(pushed')
    BY <1>0, <1>3, <1>4 DEF Suffix
  <2> QED BY <1>6, <2>4, <2>5 DEF Suffix
<1>9. InHand'
  <2>1. list # <<>> => list' # <<>> /\ list'[1] = list[1]
    <3>1. list # <<>> => 1 \in 1 .. Len(list)
      BY <1>3, <1>6
    <3>2. list' # <<>>
      BY <1>3
    <3> QED BY <1>3, <3>1, <3>2, Zenon
  <2>2. Popped >= 1 => pushed'[Popped] = pushed[Popped]
    BY <1>3, <1>4, <1>6
  <2> QED BY <1>0, <1>1, <1>6, <2>1, <2>2 DEF InHand
<1>10. Rounds'
  <2>1. mark \in Nat
    BY <1>0 DEF TypeOK
  <2> QED BY <1>0, <1>1, <1>4, <1>6, <2>1 DEF Rounds
<1>11. Ids'
  <2>1. Unpushed(t) /\ ~Unpushed(t)' /\ \A u \in Threads \ {t} : Unpushed(u)' <=> Unpushed(u)
    BY <1>1 DEF Unpushed
  <2>2. \A i \in 1 .. Len(pushed') : i \in 1 .. Len(pushed) \/ i = Len(pushed) + 1
    BY <1>4
  <2>3. \A i \in 1 .. Len(pushed') : pushed'[i].id <= created'
    BY <1>0, <1>1, <1>4, <2>1, <2>2 DEF Ids
  <2>4. ASSUME NEW i \in 1 .. Len(pushed'), NEW j \in 1 .. Len(pushed'),
               pushed'[i].id = pushed'[j].id
        PROVE  i = j
    <3>1. /\ \A k \in 1 .. Len(pushed) : pushed[k].id # rec[t].id
          /\ \A k, m \in 1 .. Len(pushed) : pushed[k].id = pushed[m].id => k = m
      BY <1>0, <2>1, Zenon DEF Ids
    <3>2. /\ \A k \in 1 .. Len(pushed) : pushed'[k].id = pushed[k].id
          /\ pushed'[Len(pushed) + 1].id = rec[t].id
      BY <1>4, Zenon
    <3>3. CASE i \in 1 .. Len(pushed) /\ j \in 1 .. Len(pushed)
      BY <2>4, <3>1, <3>2, <3>3, Zenon
    <3>4. CASE i = Len(pushed) + 1 /\ j \in 1 .. Len(pushed)
      BY <2>4, <3>1, <3>2, <3>4, Zenon
    <3>5. CASE i \in 1 .. Len(pushed) /\ j = Len(pushed) + 1
      BY <2>4, <3>1, <3>2, <3>5, Zenon
    <3> QED BY <2>2, <3>3, <3>4, <3>5, Zenon
  <2>5. ASSUME NEW u \in Threads, Unpushed(u)'
        PROVE  /\ rec[u].id <= created
               /\ \A i \in 1 .. Len(pushed') : pushed'[i].id # rec[u].id
               /\ \A v \in Threads : Unpushed(v)' /\ rec[v].id = rec[u].id => v = u
    BY <1>0, <1>4, <2>1, <2>2, <2>5 DEF Ids
  <2> QED BY <1>1, <2>3, <2>4, <2>5, Zenon DEF Ids
<1>12. Freed'
  <2>1. \A i \in 1 .. FreedSoFar : pushed'[i] = pushed[i]
    BY <1>4, <1>6 DEF FreedSoFar
  <2>2. FreedSoFar' = FreedSoFar /\ frees' = frees
    BY <1>1, <1>6
  <2> QED BY <1>0, <2>1, <2>2 DEF Freed
<1>13. LogOrder'
  <2>1. \A j \in 1 .. Written : pushed'[j] = pushed[j]
    BY <1>4, <1>6
  <2> QED BY <1>0, <1>1, <1>6, <2>1, OrderKept DEF Contents
<1> QED BY <1>5, <1>7, <1>8, <1>9, <1>10, <1>11, <1>12, <1>13 DEF IInv

------------------------------------------------------------------------------
(* The log thread.                                                         *)

\* The flag is read, the front of the list is read, or the mutex is taken.
LEMMA StepLook ==
    ASSUME IInv, CheckRunning \/ Drain \/ PopLock
    PROVE  IInv'
<1>0. /\ TypeOK /\ Locked /\ Suffix /\ InHand /\ Ids /\ Freed /\ Buffered /\ Rounds
      /\ Started /\ LogOrder
  BY DEF IInv
<1>1. /\ UNCHANGED <<level, init, pc, rec, created, list, pushed, running, dirty, stream, disk,
                      missing, rotations, frees, closer>>
      /\ list \in Seq(Record) /\ Len(pushed) \in Nat /\ Len(list) \in Nat /\ mark \in Nat
      /\ list # <<>> => Len(list) > 0
  BY <1>0, WrittenFacts, ListTypes DEF CheckRunning, Drain, PopLock, producers, files, TypeOK
<1>2. Popped' = Popped /\ Popped \in Nat /\ Popped = Len(pushed) - Len(list)
  BY <1>0, <1>1, WrittenFacts DEF Popped
<1>3. \/ /\ logpc = "check" /\ logpc' \in {"reopen", "exit"} /\ UNCHANGED <<mutex, cur>>
         /\ mark' \in {mark, Len(pushed)}
         /\ logpc' = "exit" => mark' = mark
      \/ /\ logpc = "drain" /\ UNCHANGED <<mutex, mark>>
         /\ \/ list = <<>> /\ logpc' = "flush" /\ cur' = None
            \/ list # <<>> /\ logpc' = "fwrite" /\ cur' = list[1] /\ cur' \in Record
      \/ /\ logpc = "poplock" /\ mutex = None /\ mutex' = LogThread /\ logpc' = "pop"
         /\ UNCHANGED <<cur, mark>>
  BY <1>1, HeadTailProperties DEF CheckRunning, Drain, PopLock
<1>4. TypeOK'
  <2>1. /\ mutex' \in Threads \cup {LogThread, None} /\ mark' \in Nat
        /\ cur' \in Record \cup {None}
    BY <1>0, <1>1, <1>3 DEF TypeOK
  <2>2. logpc' \in {"reopen", "exit", "flush", "fwrite", "pop"}
    BY <1>3
  <2>3. logpc' \in {"fwrite", "poplock", "pop", "free"} => cur' # None
    BY <1>0, <1>3 DEF TypeOK
  <2> QED BY <1>0, <1>1, <2>1, <2>2, <2>3 DEF TypeOK
<1>5. FreedSoFar' = FreedSoFar /\ Written' = Written
  BY <1>1, <1>2, <1>3 DEF FreedSoFar, Written
<1>6. Locked' /\ Suffix' /\ Buffered' /\ Started'
  BY <1>0, <1>1, <1>2, <1>3 DEF Locked, Suffix, Buffered, Started
<1>7. InHand'
  BY <1>0, <1>1, <1>2, <1>3 DEF InHand
<1>8. Rounds'
  <2>1. list = <<>> => Len(list) = 0
    BY EmptySeq
  <2> QED BY <1>0, <1>1, <1>2, <1>3, <2>1 DEF Rounds
<1>9. Ids'
  BY <1>0, <1>1 DEF Ids, Unpushed
<1>10. Freed'
  BY <1>0, <1>1, <1>5 DEF Freed
<1>11. LogOrder'
  BY <1>0, <1>1, <1>5, OrderKept DEF Contents
<1> QED BY <1>4, <1>6, <1>7, <1>8, <1>9, <1>10, <1>11 DEF IInv

\* Writing out a buffer moves records from the stream to the disk.
LEMMA WriteOutFacts ==
    ASSUME TypeOK, NEW fs, WriteOut(fs)
    PROVE  /\ stream' \in [Files -> Seq(Record)] /\ disk' \in [Files -> Seq(Record)]
           /\ \A f \in Files : Contents(f)' = Contents(f)
           /\ \A f \in Files : stream'[f] = IF f \in fs THEN <<>> ELSE stream[f]
<1> HIDE DEF Files
<1>1. \A f \in Files : disk[f] \in Seq(Record) /\ stream[f] \in Seq(Record)
  BY DEF TypeOK
<1>2. \A f \in Files : disk[f] \o stream[f] \in Seq(Record)
  BY <1>1, ConcatProperties
<1>3. \A f \in Files : (disk[f] \o stream[f]) \o <<>> = disk[f] \o stream[f]
  BY <1>2, ConcatEmptySeq
<1>4. <<>> \in Seq(Record)
  BY EmptySeq
<1>5. /\ \A f \in Files : disk'[f] = IF f \in fs THEN disk[f] \o stream[f] ELSE disk[f]
      /\ \A f \in Files : stream'[f] = IF f \in fs THEN <<>> ELSE stream[f]
  BY DEF WriteOut
<1>6. disk' \in [Files -> Seq(Record)]
  BY <1>1, <1>2 DEF WriteOut
<1>7. stream' \in [Files -> Seq(Record)]
  BY <1>1, <1>4 DEF WriteOut
<1>8. ASSUME NEW f \in Files PROVE Contents(f)' = Contents(f)
  <2>1. CASE f \in fs
    BY <1>3, <1>5, <2>1, Zenon DEF Contents
  <2>2. CASE f \notin fs
    BY <1>5, <2>2, Zenon DEF Contents
  <2> QED BY <2>1, <2>2
<1> QED BY <1>5, <1>6, <1>7, <1>8

\* Reopening and flushing write out what the streams have buffered.
LEMMA StepWriteOut ==
    ASSUME IInv, Reopen \/ Flush
    PROVE  IInv'
<1>0. /\ TypeOK /\ Locked /\ Suffix /\ InHand /\ Ids /\ Freed /\ Buffered /\ Rounds
      /\ Started /\ LogOrder
  BY DEF IInv
<1>1. /\ UNCHANGED <<level, init, pc, rec, created, mutex, list, pushed, running, cur,
                      rotations, frees, closer, mark>>
      /\ missing' \subseteq Files
      /\ \E fs : WriteOut(fs) /\ (Flush => fs = dirty)
      /\ \/ logpc = "reopen" /\ logpc' = "drain" /\ dirty' = dirty
         \/ logpc = "flush" /\ logpc' = "check" /\ dirty' = {} /\ Flush
  BY <1>0, Zenon DEF Reopen, Flush, producers, TypeOK
<1>2. PICK fs : WriteOut(fs) /\ (Flush => fs = dirty)
  BY <1>1
<1>3. /\ stream' \in [Files -> Seq(Record)] /\ disk' \in [Files -> Seq(Record)]
      /\ \A f \in Files : Contents(f)' = Contents(f)
      /\ \A f \in Files : stream'[f] = IF f \in fs THEN <<>> ELSE stream[f]
  BY <1>0, <1>2, WriteOutFacts
<1>4. TypeOK'
  BY <1>0, <1>1, <1>3, Zenon DEF TypeOK
<1>5. Popped' = Popped /\ FreedSoFar' = FreedSoFar /\ Written' = Written
  BY <1>1 DEF Popped, FreedSoFar, Written
<1>6. Locked' /\ Suffix' /\ InHand' /\ Rounds' /\ Started'
  BY <1>0, <1>1, <1>5 DEF Locked, Suffix, InHand, Rounds, Started
<1>7. Buffered'
  BY <1>0, <1>1, <1>2, <1>3 DEF Buffered
<1>8. Ids'
  BY <1>0, <1>1 DEF Ids, Unpushed
<1>9. Freed'
  BY <1>0, <1>1, <1>5 DEF Freed
<1>10. LogOrder'
  BY <1>0, <1>1, <1>3, <1>5, OrderKept
<1> QED BY <1>4, <1>6, <1>7, <1>8, <1>9, <1>10 DEF IInv

\* A record behind what is buffered is behind what was written, too.
LEMMA AppendBuffered ==
    ASSUME NEW d \in Seq(Record), NEW b \in Seq(Record), NEW r \in Record
    PROVE  d \o Append(b, r) = Append(d \o b, r)
<1> DEFINE x == d \o Append(b, r)
           y == Append(d \o b, r)
<1>1. x \in Seq(Record) /\ y \in Seq(Record) /\ Len(x) = Len(y) /\ Len(x) \in Nat
  BY AppendProperties, ConcatProperties, LenProperties
<1>2. \A i \in 1 .. Len(x) : x[i] = y[i]
  BY AppendProperties, ConcatProperties, LenProperties
<1> HIDE DEF x, y
<1>3. x = y
  BY <1>1, <1>2, SeqEqual
<1> QED BY <1>3 DEF x, y

\* The record in hand goes to the end of its file.
LEMMA FwriteContents ==
    ASSUME TypeOK, cur \in Record, Fwrite
    PROVE  /\ stream' \in [Files -> Seq(Record)] /\ disk' \in [Files -> Seq(Record)]
           /\ Home[cur.level] \in Files
           /\ \A g \in Files : g = Home[cur.level] => Contents(g)' = Append(Contents(g), cur)
           /\ \A g \in Files \ {Home[cur.level]} :
                 Contents(g)' = Contents(g) /\ stream'[g] = stream[g]
           /\ dirty' = dirty \cup {Home[cur.level]}
<1> DEFINE f == Home[cur.level]
           s == Append(stream[f], cur)
<1>1. f = Route(cur.level) /\ f \in Files
  BY RecordFields, RouteHome, Zenon
<1>2. /\ dirty' = dirty \cup {f}
      /\ \/ stream' = [stream EXCEPT ![f] = s] /\ disk' = disk
         \/ stream' = [stream EXCEPT ![f] = <<>>] /\ disk' = [disk EXCEPT ![f] = @ \o s]
  BY <1>1, Zenon DEF Fwrite
<1>3. /\ stream \in [Files -> Seq(Record)] /\ disk \in [Files -> Seq(Record)]
      /\ stream[f] \in Seq(Record) /\ disk[f] \in Seq(Record)
  BY <1>1 DEF TypeOK
<1> HIDE DEF f, Files
<1>4. /\ s \in Seq(Record) /\ disk[f] \o s \in Seq(Record) /\ <<>> \in Seq(Record)
      /\ disk[f] \o s = Append(disk[f] \o stream[f], cur)
      /\ (disk[f] \o s) \o <<>> = disk[f] \o s
  <2>1. s \in Seq(Record) /\ disk[f] \o stream[f] \in Seq(Record) /\ <<>> \in Seq(Record)
    BY <1>3, AppendProperties, ConcatProperties, EmptySeq
  <2>2. disk[f] \o s \in Seq(Record)
    BY <1>3, <2>1, ConcatProperties
  <2>3. (disk[f] \o s) \o <<>> = disk[f] \o s
    BY <2>2, ConcatEmptySeq
  <2>7. disk[f] \o s = Append(disk[f] \o stream[f], cur)
    BY <1>3, AppendBuffered
  <2> QED BY <2>1, <2>2, <2>3, <2>7
<1> HIDE DEF s
<1>5. /\ stream' \in [Files -> Seq(Record)] /\ disk' \in [Files -> Seq(Record)]
      /\ \A g \in Files \ {f} : disk'[g] = disk[g] /\ stream'[g] = stream[g]
      /\ disk'[f] \o stream'[f] = disk[f] \o s
  <2>1. CASE stream' = [stream EXCEPT ![f] = s] /\ disk' = disk
    BY <1>1, <1>3, <1>4, <2>1
  <2>2. CASE stream' = [stream EXCEPT ![f] = <<>>] /\ disk' = [disk EXCEPT ![f] = @ \o s]
    <3>1. disk' = [disk EXCEPT ![f] = disk[f] \o s]
      BY <1>1, <1>3, <2>2
    <3>2. stream'[f] = <<>> /\ disk'[f] = disk[f] \o s
      BY <1>1, <1>3, <2>2, <3>1
    <3> QED BY <1>1, <1>3, <1>4, <2>2, <3>1, <3>2
  <2> QED BY <1>2, <2>1, <2>2, Zenon
<1>6. \A g \in Files : g = f => Contents(g)' = Append(Contents(g), cur)
  BY <1>4, <1>5, Zenon DEF Contents
<1>7. \A g \in Files \ {f} : Contents(g)' = Contents(g)
  BY <1>5, Zenon DEF Contents
<1> QED BY <1>1, <1>2, <1>5, <1>6, <1>7 DEF f

\* Writing the front of the list: its rank is the next place of its file.
LEMMA StepFwrite ==
    ASSUME IInv, Fwrite
    PROVE  IInv'
<1>0. /\ TypeOK /\ Locked /\ Suffix /\ InHand /\ Ids /\ Freed /\ Buffered /\ Rounds
      /\ Started /\ LogOrder
  BY DEF IInv
<1>1. /\ UNCHANGED <<level, init, pc, rec, created, mutex, list, pushed, running, cur,
                      missing, rotations, frees, closer, mark>>
      /\ logpc = "fwrite" /\ logpc' = "poplock"
  BY DEF Fwrite, producers
<1>2. /\ cur \in Record /\ cur = list[1] /\ Len(list) > 0 /\ Len(list) \in Nat
      /\ Len(pushed) \in Nat
  BY <1>0, <1>1, WrittenFacts, ListTypes DEF InHand, TypeOK
<1> DEFINE h == Home[cur.level]
           n == Written
<1>3. /\ stream' \in [Files -> Seq(Record)] /\ disk' \in [Files -> Seq(Record)]
      /\ h \in Files
      /\ \A g \in Files : g = h => Contents(g)' = Append(Contents(g), cur)
      /\ \A g \in Files \ {h} : Contents(g)' = Contents(g) /\ stream'[g] = stream[g]
      /\ dirty' = dirty \cup {h}
  BY <1>0, <1>2, FwriteContents, Zenon
<1>4. /\ Written' = n + 1 /\ n \in Nat /\ n = Popped /\ Popped' = Popped
      /\ FreedSoFar' = FreedSoFar /\ cur = pushed[n + 1]
  <2>1. n = Len(pushed) - Len(list) /\ Written' = (Len(pushed) - Len(list)) + 1
    BY <1>1 DEF Written
  <2>2. Popped = Len(pushed) - Len(list) /\ Popped' = Popped
    BY <1>1 DEF Popped
  <2>3. FreedSoFar' = FreedSoFar
    BY <1>1, <2>2 DEF FreedSoFar
  <2>4. cur = pushed[Popped + 1]
    BY <1>0, <1>2 DEF Suffix
  <2> QED BY <1>0, <2>1, <2>2, <2>3, <2>4, WrittenFacts
<1>5. TypeOK'
  BY <1>0, <1>1, <1>3, Zenon DEF TypeOK
<1>6. Locked' /\ Suffix' /\ InHand' /\ Rounds' /\ Started'
  BY <1>0, <1>1, <1>4 DEF Locked, Suffix, InHand, Rounds, Started
<1>7. Buffered'
  BY <1>0, <1>1, <1>3, Zenon DEF Buffered
<1>8. Ids'
  BY <1>0, <1>1 DEF Ids, Unpushed
<1>9. Freed'
  BY <1>0, <1>1, <1>4 DEF Freed
<1> HIDE DEF n, h
<1>10. ASSUME NEW f \in Files
       PROVE  /\ Len(Contents(f)') = Rank(pushed, f, n + 1)
              /\ \A i \in Belong(pushed, f, n + 1) :
                    Contents(f)'[Rank(pushed, f, i)] = pushed[i]
  <2>1. /\ Len(Contents(f)) = Rank(pushed, f, n)
        /\ \A i \in Belong(pushed, f, n) :
              Contents(f)[Rank(pushed, f, i)] = pushed[i]
    BY <1>0 DEF LogOrder, n
  <2>2. /\ \A i \in Belong(pushed, f, n) : Rank(pushed, f, i) \in 1 .. Rank(pushed, f, n)
        /\ Rank(pushed, f, n) \in Nat
    BY <1>4, RankBounds, RankType
  <2>3. CASE f = h
    <3>1. Contents(f) \in Seq(Record)
      BY <1>0, ConcatProperties DEF Contents, TypeOK
    <3>2. Rank(pushed, f, n + 1) = Rank(pushed, f, n) + 1
      BY <1>4, <2>3, RankStep DEF h
    <3>3. /\ Len(Contents(f)') = Rank(pushed, f, n) + 1
          /\ \A k \in 1 .. Rank(pushed, f, n) : Contents(f)'[k] = Contents(f)[k]
          /\ Contents(f)'[Rank(pushed, f, n) + 1] = cur
      <4>1. Contents(f)' = Append(Contents(f), cur)
        BY <1>3, <2>3
      <4> DEFINE c == Contents(f)
      <4>2. /\ Len(Append(c, cur)) = Len(c) + 1
            /\ \A k \in 1 .. Len(c) : Append(c, cur)[k] = c[k]
            /\ Append(c, cur)[Len(c) + 1] = cur
        BY <1>2, <3>1, AppendProperties
      <4> QED BY <2>1, <4>1, <4>2
    <3>4. \A i \in Belong(pushed, f, n + 1) : i \in Belong(pushed, f, n) \/ i = n + 1
      BY <1>4 DEF Belong
    <3> QED BY <1>4, <2>1, <2>2, <3>2, <3>3, <3>4
  <2>4. CASE f # h
    <3>1. Contents(f)' = Contents(f)
      BY <1>3, <2>4
    <3>2. Belong(pushed, f, n + 1) = Belong(pushed, f, n)
      BY <1>4, <2>4 DEF Belong, h
    <3> QED BY <2>1, <3>1, <3>2 DEF Rank
  <2> QED BY <2>3, <2>4
<1>11. LogOrder'
  <2>1. pushed' = pushed /\ Written' = n + 1
    BY <1>1, <1>4
  <2>2. \A f, i : Rank(pushed, f, i)' = Rank(pushed, f, i)
    BY <2>1 DEF Rank, Belong
  <2>3. \A f : /\ Belong(pushed, f, Written)' = Belong(pushed, f, n + 1)
               /\ Rank(pushed, f, Written)' = Rank(pushed, f, n + 1)
    BY <2>1 DEF Rank, Belong
  <2> QED BY <1>10, <2>1, <2>2, <2>3 DEF LogOrder
<1> QED BY <1>5, <1>6, <1>7, <1>8, <1>9, <1>11 DEF IInv

\* Popping moves the front of the list to the freed part of the history.
LEMMA StepPopFront ==
    ASSUME IInv, PopFront
    PROVE  IInv'
<1>0. /\ TypeOK /\ Locked /\ Suffix /\ InHand /\ Ids /\ Freed /\ Buffered /\ Rounds
      /\ Started /\ LogOrder
  BY DEF IInv
<1>1. /\ UNCHANGED <<level, init, pc, rec, created, pushed, running, cur, dirty, stream, disk,
                      missing, rotations, frees, closer, mark>>
      /\ logpc = "pop" /\ logpc' = "free" /\ list' = Tail(list) /\ mutex' = None
  BY DEF PopFront, producers, files
<1>2. /\ list \in Seq(Record) /\ list # <<>> /\ cur = list[1] /\ Len(list) > 0
      /\ Len(list) \in Nat /\ Len(pushed) \in Nat /\ mark \in Nat
  BY <1>0, <1>1, WrittenFacts, ListTypes DEF InHand, TypeOK
<1>3. /\ list' \in Seq(Record) /\ Len(list') = Len(list) - 1
      /\ \A i \in 1 .. Len(list') : list'[i] = list[i + 1]
  BY <1>1, <1>2, HeadTailProperties
<1>4. /\ Popped' = Popped + 1 /\ Popped \in Nat /\ Popped = Len(pushed) - Len(list)
      /\ FreedSoFar' = FreedSoFar /\ Written' = Written
  <2>1. Popped \in Nat
    BY <1>0, WrittenFacts
  <2>2. Popped = Len(pushed) - Len(list) /\ Popped' = Len(pushed) - (Len(list) - 1)
    BY <1>1, <1>3 DEF Popped
  <2>3. FreedSoFar = Popped /\ FreedSoFar' = Popped' - 1
    BY <1>1 DEF FreedSoFar
  <2>4. /\ Written = (Len(pushed) - Len(list)) + 1
        /\ Written' = (Len(pushed) - (Len(list) - 1)) + 0
    BY <1>1, <1>3 DEF Written
  <2> QED BY <1>2, <2>1, <2>2, <2>3, <2>4
<1>5. TypeOK'
  BY <1>0, <1>1, <1>3 DEF TypeOK
<1>6. Locked' /\ Buffered' /\ Started'
  BY <1>0, <1>1 DEF Locked, Buffered, Started
<1>7. Suffix'
  <2>1. \A i \in 1 .. Len(list') : list'[i] = pushed[Popped + (i + 1)]
    BY <1>0, <1>2, <1>3 DEF Suffix
  <2>2. \A i \in 1 .. Len(list') : list'[i] = pushed[(Popped + 1) + i]
    BY <1>2, <1>3, <1>4, <2>1
  <2>3. Len(list') <= Len(pushed)
    BY <1>0, <1>2, <1>3 DEF Suffix
  <2> QED BY <1>1, <1>4, <2>2, <2>3, Zenon DEF Suffix
<1>8. InHand'
  <2>1. cur = pushed[Popped + 1]
    BY <1>0, <1>2 DEF Suffix
  <2> QED BY <1>1, <1>4, <2>1 DEF InHand
<1>9. Rounds'
  BY <1>0, <1>1 DEF Rounds
<1>10. Ids'
  BY <1>0, <1>1 DEF Ids, Unpushed
<1>11. Freed'
  BY <1>0, <1>1, <1>4, Zenon DEF Freed
<1>12. LogOrder'
  BY <1>0, <1>1, <1>4, OrderKept DEF Contents
<1> QED BY <1>5, <1>6, <1>7, <1>8, <1>9, <1>10, <1>11, <1>12 DEF IInv

\* The record that is freed is the last one popped, and has not been freed before.
LEMMA StepFree ==
    ASSUME IInv, Free
    PROVE  IInv'
<1>0. /\ TypeOK /\ Locked /\ Suffix /\ InHand /\ Ids /\ Freed /\ Buffered /\ Rounds
      /\ Started /\ LogOrder
  BY DEF IInv
<1>1. /\ UNCHANGED <<level, init, pc, rec, created, mutex, list, pushed, running, cur, dirty,
                      stream, disk, missing, rotations, closer, mark>>
      /\ logpc = "free" /\ logpc' = "drain"
      /\ frees' = [frees EXCEPT ![cur.id] = @ + 1]
      /\ frees \in [1 .. MaxLogs -> Nat]
  BY <1>0 DEF Free, producers, files, TypeOK
<1>2. /\ Popped \in Nat /\ Popped >= 1 /\ cur = pushed[Popped] /\ Popped <= Len(pushed)
      /\ Len(pushed) \in Nat /\ Len(list) \in Nat /\ cur.id \in 1 .. MaxLogs
  <2>1. Popped \in Nat /\ Popped >= 1 /\ cur = pushed[Popped]
    BY <1>0, <1>1, WrittenFacts DEF InHand
  <2>2. Len(pushed) \in Nat /\ Len(list) \in Nat /\ Popped <= Len(pushed)
    BY <1>0, ListTypes DEF Popped
  <2>3. cur \in Record
    BY <1>0, <1>1 DEF TypeOK
  <2> QED BY <2>1, <2>2, <2>3, RecordFields
<1>3. Popped' = Popped /\ FreedSoFar = Popped - 1 /\ FreedSoFar' = Popped /\ Written' = Written
  <2>1. Popped' = Popped
    BY <1>1 DEF Popped
  <2> QED BY <1>1, <2>1 DEF FreedSoFar, Written
<1>4. frees' \in [1 .. MaxLogs -> Nat]
  BY <1>1, <1>2
<1>5. TypeOK'
  BY <1>0, <1>1, <1>4 DEF TypeOK
<1>6. Locked' /\ Suffix' /\ InHand' /\ Buffered' /\ Rounds' /\ Started'
  BY <1>0, <1>1, <1>3 DEF Locked, Suffix, InHand, Buffered, Rounds, Started
<1>7. Ids'
  BY <1>0, <1>1, Zenon DEF Ids, Unpushed
<1>8. Freed'
  <2>1. \A r \in 1 .. MaxLogs : /\ frees[r] \in {0, 1}
                                /\ frees[r] = 1 <=> \E i \in 1 .. Popped - 1 : pushed[i].id = r
    BY <1>0, <1>3 DEF Freed
  <2>2. \A i \in 1 .. Popped - 1 : pushed[i].id # cur.id
    BY <1>0, <1>2 DEF Ids
  <2>3. frees[cur.id] = 0
    BY <1>2, <2>1, <2>2
  <2>4. /\ frees'[cur.id] = 1
        /\ \A r \in 1 .. MaxLogs : r # cur.id => frees'[r] = frees[r]
    BY <1>1, <1>2, <2>3
  <2>5. 1 .. Popped = (1 .. Popped - 1) \cup {Popped}
    BY <1>2
  <2>6. ASSUME NEW r \in 1 .. MaxLogs
        PROVE  /\ frees'[r] \in {0, 1}
               /\ frees'[r] = 1 <=> \E i \in 1 .. Popped : pushed[i].id = r
    <3>1. CASE r = cur.id
      BY <1>2, <2>4, <2>5, <3>1
    <3>2. CASE r # cur.id
      BY <1>2, <2>1, <2>4, <2>5, <3>2
    <3> QED BY <3>1, <3>2
  <2> QED BY <1>1, <1>3, <2>6 DEF Freed
<1>9. LogOrder'
  BY <1>0, <1>1, <1>3, OrderKept DEF Contents
<1> QED BY <1>5, <1>6, <1>7, <1>8, <1>9 DEF IInv

------------------------------------------------------------------------------

\* The invariant holds initially.
LEMMA InitIInv == Init => IInv
<1> SUFFICES ASSUME Init PROVE IInv
  OBVIOUS
<1>1. TypeOK
  BY EmptySeq DEF Init, TypeOK
<1>2. Len(list) = 0 /\ Len(pushed) = 0 /\ Popped = 0 /\ FreedSoFar = 0 /\ Written = 0
  BY EmptySeq DEF Init, Popped, FreedSoFar, Written
<1>3. Locked /\ Suffix /\ InHand /\ Buffered /\ Rounds /\ Started
  BY <1>2 DEF Init, Locked, Suffix, InHand, Buffered, Rounds, Started
<1>4. Ids
  BY <1>2 DEF Init, Ids, Unpushed
<1>5. Freed
  BY <1>2 DEF Init, Freed
<1>6. LogOrder
  <2>1. ASSUME NEW f \in Files
        PROVE  Len(Contents(f)) = 0 /\ Rank(pushed, f, 0) = 0 /\ Belong(pushed, f, 0) = {}
    <3>1. Contents(f) = <<>>
      BY EmptySeq, ConcatEmptySeq DEF Init, Contents
    <3>2. Belong(pushed, f, 0) = {}
      BY DEF Belong
    <3> QED BY <3>1, <3>2, EmptySeq, RankType
  <2> QED BY <1>2, <2>1 DEF LogOrder
<1> QED BY <1>1, <1>3, <1>4, <1>5, <1>6 DEF IInv

\* Every step keeps the invariant.
LEMMA NextIInv == IInv /\ [Next]_vars => IInv'
<1> SUFFICES ASSUME IInv, [Next]_vars PROVE IInv'
  OBVIOUS
<1>1. ASSUME NEW t \in Threads, NEW lv \in Levels, LogPrintf(t, lv) PROVE IInv'
  BY <1>1, StepLogPrintf
<1>2. ASSUME NEW t \in Threads, LogCall(t) PROVE IInv'
  BY <1>2, StepMutex, StepLogPush DEF LogCall
<1>3. CASE LogThreadLoop
  BY <1>3, StepLook, StepWriteOut, StepFwrite, StepPopFront, StepFree DEF LogThreadLoop
<1> QED BY <1>1, <1>2, <1>3, StepControl DEF Next

\* The invariant holds always.
LEMMA Invariance == Spec => []IInv
  BY InitIInv, NextIInv, PTL DEF Spec

------------------------------------------------------------------------------

\* Each of the three files receives exactly the records of its levels, each once
\* and in the order of g_log_list, through every rotation (log_thread_loop).
THEOREM Safety_LogOrder == Spec => []LogOrder
<1>1. IInv => LogOrder
  BY DEF IInv
<1> QED BY Invariance, <1>1, PTL

\* A record that was popped is in the file of its level.
LEMMA PoppedIsWritten ==
    ASSUME IInv, NEW i \in 1 .. Popped
    PROVE  \E f \in Files : \E k \in DOMAIN Contents(f) : Contents(f)[k] = pushed[i]
<1>0. /\ TypeOK /\ LogOrder /\ Written \in Nat /\ Popped \in Nat /\ Popped <= Written
      /\ Written <= Len(pushed) /\ Len(pushed) \in Nat
  BY WrittenFacts, ListTypes DEF IInv
<1> DEFINE f == Home[pushed[i].level]
<1>1. i \in 1 .. Written /\ pushed[i] \in Record
  BY <1>0, ListTypes
<1>2. f \in Files
  BY <1>1, RecordFields, RouteHome, Zenon
<1>3. i \in Belong(pushed, f, Written)
  BY <1>1 DEF Belong
<1> HIDE DEF f
<1>4. /\ Rank(pushed, f, i) \in 1 .. Rank(pushed, f, Written)
      /\ Len(Contents(f)) = Rank(pushed, f, Written)
      /\ Contents(f)[Rank(pushed, f, i)] = pushed[i]
  BY <1>0, <1>2, <1>3, RankBounds DEF LogOrder
<1>5. DOMAIN Contents(f) = 1 .. Len(Contents(f))
  <2>1. disk[f] \in Seq(Record) /\ stream[f] \in Seq(Record)
    BY <1>0, <1>2 DEF TypeOK
  <2>2. Contents(f) \in Seq(Record)
    BY <2>1, ConcatProperties DEF Contents
  <2> QED BY <2>2, LenProperties
<1> QED BY <1>2, <1>4, <1>5

\* A record is freed once, after it was written and popped, and neither the list
\* nor a thread that still reads it holds it then (log.cpp, log_thread_loop).
THEOREM Safety_FreedAfterWrite == Spec => []FreedAfterWrite
<1>1. IInv => FreedAfterWrite
  <2> SUFFICES ASSUME IInv, NEW r \in 1 .. MaxLogs
               PROVE  /\ frees[r] <= 1
                      /\ frees[r] = 1 =>
                           /\ \E f \in Files : \E i \in DOMAIN Contents(f) :
                                 Contents(f)[i].id = r
                           /\ \A i \in DOMAIN list : list[i].id # r
                           /\ \A t \in Threads : rec[t] # None => rec[t].id # r
                                                                  \/ pc[t] = "unlock"
    BY DEF FreedAfterWrite
  <2>0. TypeOK /\ Suffix /\ Ids /\ Freed /\ Popped \in Nat
    BY WrittenFacts DEF IInv
  <2>1. frees[r] \in {0, 1} /\ (frees[r] = 1 <=> \E i \in 1 .. FreedSoFar : pushed[i].id = r)
    BY <2>0 DEF Freed
  <2>2. SUFFICES ASSUME NEW i \in 1 .. FreedSoFar, pushed[i].id = r
                 PROVE  /\ \E f \in Files : \E k \in DOMAIN Contents(f) :
                              Contents(f)[k].id = r
                        /\ \A k \in DOMAIN list : list[k].id # r
                        /\ \A t \in Threads : rec[t] # None => rec[t].id # r
                                                               \/ pc[t] = "unlock"
    BY <2>1
  <2>3. i \in 1 .. Popped
    BY <2>0 DEF FreedSoFar
  <2>4. Len(list) \in Nat /\ Len(pushed) \in Nat /\ Popped = Len(pushed) - Len(list)
        /\ DOMAIN list = 1 .. Len(list)
    BY <2>0, ListTypes, LenProperties DEF Popped, TypeOK
  <2>5. ASSUME NEW k \in DOMAIN list PROVE list[k].id # r
    <3>1. /\ i \in 1 .. Len(pushed) /\ Popped + k \in 1 .. Len(pushed)
          /\ Popped + k # i
      BY <2>0, <2>3, <2>4
    <3>2. list[k] = pushed[Popped + k]
      BY <2>0, <2>4, Zenon DEF Suffix
    <3> QED BY <2>0, <2>2, <3>1, <3>2, Zenon DEF Ids
  <2>6. \A t \in Threads : rec[t] # None => rec[t].id # r \/ pc[t] = "unlock"
    <3>1. \A t \in Threads : rec[t] # None => Unpushed(t) \/ pc[t] = "unlock"
      BY <2>0 DEF TypeOK, Unpushed
    <3>2. i \in 1 .. Len(pushed)
      BY <2>3, <2>4
    <3> QED BY <2>0, <2>2, <3>1, <3>2 DEF Ids
  <2> QED BY <2>2, <2>3, <2>5, <2>6, PoppedIsWritten
<1> QED BY Invariance, <1>1, PTL

\* What was on the list when the last round began is in its file when the log
\* thread ends, and no buffer is left unwritten between rounds (log_close).
THEOREM Safety_CloseKeepsMarked == Spec => []CloseKeepsMarked
<1>1. IInv => CloseKeepsMarked
  <2> SUFFICES ASSUME IInv PROVE CloseKeepsMarked
    OBVIOUS
  <2>1. /\ Rounds /\ Buffered /\ Len(list) \in Nat /\ Len(pushed) \in Nat /\ mark \in Nat
        /\ Popped = Len(pushed) - Len(list)
    BY ListTypes DEF IInv, TypeOK, Popped
  <2>2. logpc = "exit" => Len(list) <= Len(pushed) - mark
    BY <2>1 DEF Rounds
  <2> QED BY <2>1, <2>2 DEF CloseKeepsMarked, Buffered
<1> QED BY Invariance, <1>1, PTL
=============================================================================
