---------------------------------- MODULE Paths ----------------------------------
(***************************************************************************)
(* FileUtil (util/file.cpp): taking paths apart, and creating a directory  *)
(* with the ones above it, which several processes may do at a time.       *)
(*                                                                         *)
(* A path is a sequence of characters.  dirname() cuts a std::string by    *)
(* writing '\0' into it: the system calls take it as a C string, but       *)
(* dirname() of the result goes over all of it.                            *)
(***************************************************************************)
EXTENDS Integers, Sequences

CONSTANTS
    Procs,          \* the processes that create directories
    Paths,          \* the paths they may be given
    Files           \* what is not a directory, as lists of names

Slash == "/"
Dot == "."
Terminator == "NUL"

\* The names of a C string's path; "." is the directory itself.
Names(path) ==
    LET n == CHOOSE n \in 0 .. Len(path) :
                 /\ n = Len(path) \/ path[n + 1] = Terminator
                 /\ \A i \in 1 .. n : path[i] # Terminator
        ends(i) == i = n \/ path[i + 1] = Slash
        from(i) == CHOOSE k \in 1 .. i : /\ k = 1 \/ path[k - 1] = Slash
                                         /\ \A j \in k .. i : path[j] # Slash
        name(i) == SubSeq(path, from(i), i)
        lasts[i \in 0 .. n] ==
            IF i = 0 THEN <<>>
            ELSE IF path[i] = Slash \/ ~ends(i) \/ name(i) = <<Dot>> THEN lasts[i - 1]
            ELSE Append(lasts[i - 1], name(i))
    IN  lasts[n]

\* The index of the last character up to i for which there is a slash (or none),
\* 0-based; -1 if there is no such character.
LastSlash(path, i) ==
    CHOOSE k \in -1 .. i : /\ k = -1 \/ path[k + 1] = Slash
                           /\ \A j \in k + 1 .. i : path[j + 1] # Slash
LastLetter(path, i) ==
    CHOOSE k \in -1 .. i : /\ k = -1 \/ path[k + 1] # Slash
                           /\ \A j \in k + 1 .. i : path[j + 1] = Slash

\* parent[i] = '\0'; the byte behind the string is one already.
Cut(path, i) == IF i < Len(path) THEN [path EXCEPT ![i + 1] = Terminator] ELSE path

\* dirname(path, false).
Dirname(path) ==
    LET last  == LastLetter(path, Len(path) - 1)
        slash == LastSlash(path, last)
        above == IF slash = -1 THEN <<Dot, Slash>> ELSE Cut(path, slash + 1)
        from  == IF slash = -1 THEN 1 ELSE slash
        end   == LastLetter(above, from)
    IN  IF last = -1 THEN <<Slash>>
        ELSE Cut(above, (IF end = -1 THEN 0 ELSE end) + 1)

Basename(path) ==
    LET last  == LastLetter(path, Len(path) - 1)
        slash == LastSlash(path, last)
    IN  IF last = -1 THEN <<Slash>> ELSE SubSeq(path, slash + 2, last + 1)

\* dirname() (file.cpp:58) and basename() (file.cpp:93) take a path apart: the
\* directory and the name in it are the names of the path again.
PathParts(path) ==
    Names(path) = IF Basename(path) = <<Slash>> THEN Names(Dirname(path))
                  ELSE Append(Names(Dirname(path)), Basename(path))

-----------------------------------------------------------------------------
(* create_dir(path), and create_parent_dir() that it calls: each looks for *)
(* its target, which is `path' or dirname(path), and makes it when the one *)
(* above has been made.                                                    *)

VARIABLES
    dirs,       \* the directories there are, as lists of names
    given,      \* the targets of each process: its path, then dirname() of it ...
    depth,      \* how many calls it is in
    pc,         \* "stat", "access", "mkdir" or "done"
    result      \* what create_dir() has returned

vars == <<dirs, given, depth, pc, result>>

\* The targets of create_dir(path) and of the calls inside it, with their names.
Targets(path) ==
    LET up[i \in 0 .. Len(path)] == IF i = 0 THEN path ELSE Dirname(up[i - 1])
    IN  [i \in 1 .. Len(path) + 1 |-> [path |-> up[i - 1], names |-> Names(up[i - 1])]]

Init ==
    /\ dirs = {<<>>}
    /\ given \in [Procs -> {Targets(path) : path \in Paths}]
    /\ depth = [p \in Procs |-> 1]
    /\ pc = [p \in Procs |-> "stat"]
    /\ result = [p \in Procs |-> 0]

Target(p) == given[p][depth[p]].names
Path(p) == given[p][1]
Exists(names) == names \in dirs \cup Files
Above(names) == SubSeq(names, 1, Len(names) - 1)

\* The innermost call returns 0, and the one around it goes on; -1 is passed on.
Returns(p, ret) ==
    IF ret = 0 /\ depth[p] > 1
    THEN /\ depth' = [depth EXCEPT ![p] = @ - 1]
         /\ pc' = [pc EXCEPT ![p] = "mkdir"]
         /\ UNCHANGED result
    ELSE /\ pc' = [pc EXCEPT ![p] = "done"]
         /\ result' = [result EXCEPT ![p] = ret]
         /\ UNCHANGED depth

\* Mutant: stat() without S_ISDIR().
StatAny(p) ==
    /\ pc[p] = "stat"
    /\ IF Exists(Target(p)) THEN Returns(p, 0)
       ELSE pc' = [pc EXCEPT ![p] = "access"] /\ UNCHANGED <<depth, result>>
    /\ UNCHANGED <<dirs, given>>

\* stat() and access() of a directory that is there; permissions suffice.
Stat(p) ==
    /\ pc[p] = "stat"
    /\ IF Target(p) \in dirs THEN Returns(p, 0)
       ELSE pc' = [pc EXCEPT ![p] = "access"] /\ UNCHANGED <<depth, result>>
    /\ UNCHANGED <<dirs, given>>

Access(p) ==
    /\ pc[p] = "access"
    /\ IF Exists(Target(p)) THEN Returns(p, -1)
       ELSE /\ depth' = [depth EXCEPT ![p] = @ + 1]
            /\ pc' = [pc EXCEPT ![p] = "stat"]
            /\ UNCHANGED result
    /\ UNCHANGED <<dirs, given>>

Mkdir(p) ==
    /\ pc[p] = "mkdir"
    /\ IF Exists(Target(p)) \/ Above(Target(p)) \notin dirs
       THEN Returns(p, -1) /\ dirs' = dirs
       ELSE Returns(p, 0) /\ dirs' = dirs \cup {Target(p)}
    /\ UNCHANGED given

Next == \E p \in Procs : Stat(p) \/ Access(p) \/ Mkdir(p)

-----------------------------------------------------------------------------
Done(p) == pc[p] = "done"

\* Something that is not a directory is on the way to the path of p.
Obstructed(p) ==
    \E n \in 0 .. Len(Path(p).names) : SubSeq(Path(p).names, 1, n) \in Files

\* Two slashes in a row behind a name: the names in front of them are the target
\* of two calls, and the second mkdir() fails.
Doubled(p) ==
    LET path == Path(p).path
    IN  \E i \in 2 .. Len(path) - 1 : path[i] = Slash /\ path[i + 1] = Slash

\* create_dir() (file.cpp:137) returns 0 only for a directory that exists with all
\* that are above it.  Of several callers one may lose a race for mkdir() and
\* fail, but then another one that needs the same directory goes on: unless a
\* path is obstructed or has a doubled slash, one of them succeeds.  The recursion
\* over dirname() never goes above a directory that exists, so it ends.
DirsCreated ==
    /\ \A p \in Procs : Done(p) /\ result[p] = 0 =>
          \A n \in 0 .. Len(Path(p).names) : SubSeq(Path(p).names, 1, n) \in dirs
    /\ (\A p \in Procs : Done(p) /\ ~Obstructed(p) /\ ~Doubled(p))
          => \E p \in Procs : result[p] = 0
    /\ \A p \in Procs : depth[p] > 1 => given[p][depth[p] - 1].names # <<>>
=============================================================================
