-------------------------------- MODULE Startup --------------------------------
(***************************************************************************)
(* The life of a server around the traffic that Dispatch models: the main  *)
(* thread takes its options from Config, initialises the dispatcher, which *)
(* spawns the workers one after the other, runs the event loop until       *)
(* stop(), and deletes the server, which it may do after any call.         *)
(* Every call that can fail may fail.                                      *)
(*                                                                         *)
(* libev's loop returns when no watcher is registered, so a worker whose   *)
(* initialize() could not create its pipe, which spawn_worker() does not   *)
(* check, has a thread that ends at once.                                  *)
(***************************************************************************)
EXTENDS Config

CONSTANTS
    MaxWorkers,     \* bound: workers of a server
    Cpus            \* number of processors

ASSUME StartupConstants ==
    /\ MaxWorkers \in Nat /\ Cpus \in Nat
    /\ DefaultWorkerNum \in 0 .. MaxWorkers /\ MaxNodes \in Nat

Ids == 0 .. MaxWorkers - 1      \* a worker is named by its _cpu_id

VARIABLES
    at,         \* where the main thread is
    cpu_id,     \* _cpu_id: how many workers spawn_worker() has made
    workers,    \* _workers
    object,     \* per worker: "none", "listening", "deaf" (no pipe), "deleted"
    thread,     \* per worker: "none", "running", "ended"
    joined,     \* how many workers join_workers() has joined
    told,       \* workers that have QUIT in their pipe, or had
    quit,       \* QUIT is in the dispatcher's pipe
    unbound     \* the worker bind_cpu() failed for

vars == <<conf, at, cpu_id, workers, object, thread, joined, told, quit, unbound>>

WorkerNum  == options.worker_num
BindCpu    == options.bind_cpu = 1
ServerType == options.server_type % 2 ^ 8       \* create_server() takes a uint8_t

Init ==
    /\ ConfInit
    /\ at = "new"
    /\ cpu_id = 0 /\ workers = <<>>
    /\ object = [i \in Ids |-> "none"]
    /\ thread = [i \in Ids |-> "none"]
    /\ joined = 0 /\ told = {} /\ quit = FALSE /\ unbound = {}

Goto(place) == at' = place

\* The worker spawn_worker() is at work on, once it has its number.
Current == cpu_id - 1

-----------------------------------------------------------------------------
(* initialize()                                                            *)

\* create_pipe()
CreatePipe ==
    /\ at = "new" /\ Configured
    /\ \E ok \in BOOLEAN : Goto(IF ok THEN "create" ELSE "failed")
    /\ UNCHANGED <<conf, cpu_id, workers, object, thread, joined, told, quit, unbound>>

\* create_server(): an ip that is NULL is no std::string, and for a type that is
\* neither TCP nor UDP there is no Socket.  When bind() fails the type, which is 0
\* or 1, is logged with "%s".  The result of listen() is not looked at.
CreateServer ==
    /\ at = "create"
    /\ IF options.ip = Null \/ ServerType \notin {G_SERVER_TCP, G_SERVER_UDP}
       THEN Goto("crash")
       ELSE \/ Goto("spawn")
            \/ Goto(IF ServerType = G_SERVER_TCP THEN "failed" ELSE "crash")
    /\ UNCHANGED <<conf, cpu_id, workers, object, thread, joined, told, quit, unbound>>

\* spawn_worker() up to create_thread(): the result of the worker's initialize()
\* is not looked at.
NewWorker ==
    /\ at = "spawn" /\ Len(workers) < WorkerNum /\ cpu_id < MaxWorkers
    /\ \E o \in {"listening", "deaf"} : object' = [object EXCEPT ![cpu_id] = o]
    /\ cpu_id' = cpu_id + 1
    /\ Goto("thread")
    /\ UNCHANGED <<conf, workers, thread, joined, told, quit, unbound>>

\* Without a worker_factory_func the first spawn_worker() fails.
NoFactory ==
    /\ at = "spawn" /\ cpu_id = 0 /\ WorkerNum > 0
    /\ Goto("failed")
    /\ UNCHANGED <<conf, cpu_id, workers, object, thread, joined, told, quit, unbound>>

\* create_thread(); when it fails the worker is neither listed nor deleted.
CreateThread ==
    /\ at = "thread"
    /\ \E ok \in BOOLEAN :
          /\ thread' = [thread EXCEPT ![Current] = IF ok THEN "running" ELSE @]
          /\ Goto(IF ok THEN "bind" ELSE "failed")
    /\ UNCHANGED <<conf, cpu_id, workers, object, joined, told, quit, unbound>>

\* What bind_cpu() may return: it fails for a processor that does not exist, and
\* may fail for one that the process is not allowed to use.
Binding ==
    CASE ~BindCpu                   -> {TRUE}
      [] BindCpu /\ Current < Cpus  -> BOOLEAN
      [] BindCpu /\ Current >= Cpus -> {FALSE}

\* Mutant: spawn_worker() goes on behind the delete.
BindCpuAndPushDeleted ==
    /\ at = "bind"
    /\ \E bound \in Binding :
          /\ object' = [object EXCEPT ![Current] = IF bound THEN @ ELSE "deleted"]
          /\ unbound' = IF bound THEN unbound ELSE {Current}
    /\ workers' = Append(workers, Current)
    /\ Goto("spawn")
    /\ UNCHANGED <<conf, cpu_id, thread, joined, told, quit>>

\* The rest of spawn_worker(): a worker that cannot be bound is deleted, while its
\* thread runs, and is not listed.
BindCpuAndPush ==
    /\ at = "bind"
    /\ \E bound \in Binding :
       IF ~bound
       THEN /\ object' = [object EXCEPT ![Current] = "deleted"]
            /\ unbound' = {Current}
            /\ Goto("failed")
            /\ UNCHANGED workers
       ELSE /\ workers' = Append(workers, Current)
            /\ Goto("spawn")
            /\ UNCHANGED <<object, unbound>>
    /\ UNCHANGED <<conf, cpu_id, thread, joined, told, quit>>

InitializeReturns ==
    /\ at = "spawn" /\ Len(workers) >= WorkerNum
    /\ Goto("ready")
    /\ UNCHANGED <<conf, cpu_id, workers, object, thread, joined, told, quit, unbound>>

-----------------------------------------------------------------------------
(* run(), stop() and the end                                               *)

\* stop(), by any thread, once the server is initialised and before it is deleted.
\* When the dispatcher's pipe is full nothing happens and nobody is told so.
ServerStop ==
    /\ at \in {"ready", "run", "join"}
    /\ quit' = TRUE
    /\ UNCHANGED <<conf, at, cpu_id, workers, object, thread, joined, told, unbound>>

Run ==
    /\ at = "ready"
    /\ Goto("run")
    /\ UNCHANGED <<conf, cpu_id, workers, object, thread, joined, told, quit, unbound>>

\* A client connects to a server that has no worker to hand it to: the round
\* robin reads _workers[0], which is not there, and divides by zero.
DispatchToNobody ==
    /\ at = "run" /\ workers = <<>>
    /\ Goto("crash")
    /\ UNCHANGED <<conf, cpu_id, workers, object, thread, joined, told, quit, unbound>>

\* The event loop finds QUIT in the pipe and calls stop().
DispatcherStop ==
    /\ at = "run" /\ quit
    /\ Goto("join")
    /\ UNCHANGED <<conf, cpu_id, workers, object, thread, joined, told, quit, unbound>>

\* Whom a QUIT for worker i may reach.  The _notify_send_fd of a worker without a
\* pipe was never set, and may be that of another worker.
Reached(i) ==
    IF object[i] = "deaf" THEN {j \in Ids : object[j] = "listening"} ELSE {i}

\* join_workers(): the next worker is notified, and a pipe that is full refuses
\* the message, which is not looked at ...
JoinNotify ==
    /\ at = "join" /\ joined < Len(workers)
    /\ \/ UNCHANGED told
       \/ \E i \in Reached(workers[joined + 1]) : told' = told \cup {i}
    /\ Goto("joining")
    /\ UNCHANGED <<conf, cpu_id, workers, object, thread, joined, quit, unbound>>

\* Mutant: the thread is not waited for.
JoinThreadDetached ==
    /\ at = "joining"
    /\ joined' = joined + 1
    /\ Goto("join")
    /\ UNCHANGED <<conf, cpu_id, workers, object, thread, told, quit, unbound>>

\* ... and joined.
JoinThread ==
    /\ at = "joining" /\ thread[workers[joined + 1]] = "ended"
    /\ joined' = joined + 1
    /\ Goto("join")
    /\ UNCHANGED <<conf, cpu_id, workers, object, thread, told, quit, unbound>>

\* When join_thread() fails, join_workers() gives up and stop() goes on.
JoinFails ==
    /\ at = "joining"
    /\ Goto("stopped")
    /\ UNCHANGED <<conf, cpu_id, workers, object, thread, joined, told, quit, unbound>>

RunReturns ==
    /\ at = "join" /\ joined = Len(workers)
    /\ Goto("stopped")
    /\ UNCHANGED <<conf, cpu_id, workers, object, thread, joined, told, quit, unbound>>

\* The owner deletes the server after a call has returned, of initialize(), with
\* or without an error, or of run(): ~GenericDispatcher() deletes the workers in
\* _workers, whether their threads run or not.
DeleteServer ==
    /\ at \in {"failed", "ready", "stopped"}
    /\ object' = [i \in Ids |-> IF \E k \in 1 .. Len(workers) : workers[k] = i
                                THEN "deleted" ELSE object[i]]
    /\ Goto("deleted")
    /\ UNCHANGED <<conf, cpu_id, workers, thread, joined, told, quit, unbound>>

\* Mutant: a loop without watchers does not return.
WorkerEndsDeafWaits(i) ==
    /\ at # "crash" /\ thread[i] = "running" /\ i \in told /\ object[i] = "listening"
    /\ thread' = [thread EXCEPT ![i] = "ended"]
    /\ UNCHANGED <<conf, at, cpu_id, workers, object, joined, told, quit, unbound>>

\* A worker's loop returns: it was told to quit, or it has nothing to wait for.
WorkerEnds(i) ==
    /\ at # "crash" /\ thread[i] = "running"
    /\ object[i] = "deaf" \/ (object[i] = "listening" /\ i \in told)
    /\ thread' = [thread EXCEPT ![i] = "ended"]
    /\ UNCHANGED <<conf, at, cpu_id, workers, object, joined, told, quit, unbound>>

\* The thread of a worker that was deleted goes on with the freed memory: the
\* process may come down, or the destroyed loop return.
UseDeleted(i) ==
    /\ at # "crash" /\ thread[i] = "running" /\ object[i] = "deleted"
    /\ \/ Goto("crash") /\ UNCHANGED thread
       \/ thread' = [thread EXCEPT ![i] = "ended"] /\ UNCHANGED at
    /\ UNCHANGED <<conf, cpu_id, workers, object, joined, told, quit, unbound>>

-----------------------------------------------------------------------------
MainThread ==
    \/ CreatePipe \/ CreateServer \/ NoFactory \/ NewWorker \/ CreateThread
    \/ BindCpuAndPush \/ InitializeReturns \/ Run \/ DispatcherStop \/ JoinNotify \/ JoinThread
    \/ RunReturns

Configure ==
    /\ at = "new"
    /\ ConfNext
    /\ UNCHANGED <<at, cpu_id, workers, object, thread, joined, told, quit, unbound>>

Next ==
    \/ Configure \/ MainThread \/ DispatchToNobody \/ JoinFails \/ ServerStop \/ DeleteServer
    \/ \E i \in Ids : WorkerEnds(i) \/ UseDeleted(i)

Spec == Init /\ [][Next]_vars

\* The main thread and the workers' threads run; nobody has to call stop() or to
\* delete the server, and join_thread() does not have to fail.
FairSpec ==
    Spec /\ WF_vars(MainThread) /\ \A i \in Ids : WF_vars(WorkerEnds(i))

-----------------------------------------------------------------------------
(* Properties.                                                             *)

\* Every variable has its type.
TypeOK ==
    /\ at \in {"new", "create", "spawn", "thread", "bind", "failed", "ready", "run", "join",
               "joining", "stopped", "deleted", "crash"}
    /\ cpu_id \in 0 .. MaxWorkers /\ workers \in Seq(Ids)
    /\ object \in [Ids -> {"none", "listening", "deaf", "deleted"}]
    /\ thread \in [Ids -> {"none", "running", "ended"}]
    /\ joined \in 0 .. MaxWorkers /\ told \subseteq Ids /\ quit \in BOOLEAN
    /\ unbound \subseteq Ids

\* No thread that join_workers() has joined, and none of a server that has not been
\* deleted, runs on a deleted worker (dispatcher.cpp:95, 214, 227).  There are two
\* that may: that of the worker that could not be bound to its processor, which
\* spawn_worker() deletes under its thread, and those that were not joined when
\* the server was deleted, because initialize() had failed, run() was never
\* called or join_thread() had failed.
DeletedNotRunning ==
    \A i \in Ids : object[i] = "deleted" /\ thread[i] = "running" =>
        \/ i \in unbound
        \/ /\ at \in {"deleted", "crash"}
           /\ \E k \in joined + 1 .. Len(workers) : workers[k] = i

\* What a server has once initialize() returned SERVER_OK (dispatcher.cpp:107, 192),
\* and until it is deleted: exactly the workers worker_num asks for, in the order
\* of their numbers, every one with its thread and none of them deleted; when they
\* are bound there is a processor for each; and there is no thread that is not the
\* thread of a listed worker, so none that join_workers() would miss.
InitializedWhole ==
    at \in {"ready", "run", "join", "joining", "stopped"} =>
        /\ Len(workers) >= WorkerNum
        /\ \A k \in 1 .. Len(workers) :
              workers[k] = k - 1 /\ k - 1 < WorkerNum /\ (BindCpu => k - 1 < Cpus)
        /\ \A i \in Ids : IF i < Len(workers)
                          THEN thread[i] # "none" /\ object[i] \in {"listening", "deaf"}
                          ELSE thread[i] = "none"

\* Once initialised, a server whose stop() put QUIT into the pipe comes to the end
\* of run(), also when workers could not create their pipes, unless join_workers()
\* waits for a worker whose full pipe refused its QUIT (dispatcher.cpp:226), a
\* client came when there was no worker, or the server was deleted too early.
RunEnds ==
    quit ~> \/ at \in {"stopped", "deleted"}
            \/ /\ at = "joining"
               /\ object[workers[joined + 1]] = "listening"
               /\ workers[joined + 1] \notin told
            \/ at = "crash" /\ (workers = <<>> \/ \E i \in Ids : object[i] = "deleted")
=============================================================================
