--------------------------- MODULE UdpStartupProofs ---------------------------
(***************************************************************************)
(* ConfLoaded, InitializedWhole and DeletedNotRunning for every file, every*)
(* set of options a program may pass, and every number of workers and      *)
(* processors.  What the texts of a file mean (Numbers, SdsText) is not    *)
(* looked into: the proofs hold for any such functions.                    *)
(*                                                                         *)
(* The last part is about MCUdpConnection, with its own variables: what a  *)
(* UDP socket has is its own (UdpAccept and UdpConnection).                *)
(***************************************************************************)
EXTENDS Startup, TLAPS

CONSTANTS Sizes, ReadSize, SendBuffer, MayLeave, MaxDatagrams, MaxQueue,
          Clients, Anyone, Closed, MaxSends
VARIABLES open, pc, revents, events, fresh, sent, gone, inq, error, failing, buf, got,
          queued, owned, room, part, acceptAt, sa, listenq, socks, sends, answered,
          spoilt, blind

U == INSTANCE MCUdpConnection WITH at <- acceptAt

-----------------------------------------------------------------------------
(* The options.                                                            *)

\* Every option has the value of the last node for it, or the one it had before:
\* the first half of ConfLoaded.
Applied ==
    \A k \in DOMAIN Handler :
        \E ns \in {{i \in 1 .. parsed : file[i].key = k}} :
            IF ns = {} THEN options[k] = base[k]
            ELSE \E n \in ns :
                   /\ \A i \in ns : i <= n
                   /\ Parse(file[n]) = [does |-> "set", value |-> options[k]]

ConfInv ==
    /\ stage \in {"start", "conf", "load", "loaded", "error", "crash"}
    /\ options = [k \in DOMAIN Handler |-> options[k]]
    /\ file \in Seq(Nodes) /\ parsed \in Nat /\ parsed <= Len(file)
    /\ stage \in {"start", "conf"} => parsed = 0 /\ options = base
    /\ stage \in {"load", "loaded"} => Len(file) > 0
    /\ stage = "loaded" => parsed = Len(file)
    /\ \A i \in 1 .. parsed : Parse(file[i]).does \in {"set", "skip"}
    /\ Applied
    /\ stage = "crash" =>
          /\ file[parsed + 1].key \notin DOMAIN Handler
          /\ ~SdsSplitArgs(file[parsed + 1].value).ok

\* What parse_conf() returns: a value is set for the key of a command that has an
\* argument (config_file.cpp:17).
LEMMA ParseFacts ==
    ASSUME NEW node
    PROVE  /\ Parse(node).does \in {"error", "set", "skip", "crash"}
           /\ Parse(node).does = "set" =>
                 /\ node.key \in DOMAIN Handler
                 /\ Parse(node) = [does |-> "set", value |-> Parse(node).value]
           /\ Parse(node).does = "skip" => node.key \notin DOMAIN Handler
           /\ Parse(node).does = "crash" =>
                 node.key \notin DOMAIN Handler /\ ~SdsSplitArgs(node.value).ok
<1> DEFINE args == SdsSplitArgs(node.value)
           r    == Slot(Handler[node.key], CString(args.argv[1]))
<1>1. CASE node.key = Null \/ node.value = Null
  BY <1>1 DEF Parse
<1>2. CASE ~(node.key = Null \/ node.value = Null) /\ node.key \in DOMAIN Handler
  <2>1. Parse(node) = Handle(node.key, args)
    BY <1>2 DEF Parse
  <2>2. \/ Handle(node.key, args) = [does |-> "error"]
        \/ Handle(node.key, args) = [does |-> "set", value |-> Stored(node.key, r.value)]
    BY Zenon DEF Handle
  <2> HIDE DEF args, r
  <2> QED BY <2>1, <2>2, <1>2
<1>3. CASE ~(node.key = Null \/ node.value = Null) /\ node.key \notin DOMAIN Handler
  <2>1. Parse(node) = [does |-> IF args.ok THEN "skip" ELSE "crash"]
    BY <1>3 DEF Parse
  <2> HIDE DEF args
  <2>2. args.ok => Parse(node) = [does |-> "skip"]
    BY <2>1
  <2>3. ~args.ok => Parse(node) = [does |-> "crash"]
    BY <2>1
  <2> QED BY <2>2, <2>3, <1>3 DEF args
<1> QED BY <1>1, <1>2, <1>3

\* A command that set its option had an argument, for a flag yes or no.
LEMMA SetFacts ==
    ASSUME NEW node, node.key \in DOMAIN Handler, Parse(node).does = "set"
    PROVE  /\ SdsSplitArgs(node.value).argv # <<>>
           /\ Handler[node.key] = "flag" =>
                 Word(CString(SdsSplitArgs(node.value).argv[1])) \in {YES, NO}
<1> DEFINE args == SdsSplitArgs(node.value)
           text == CString(args.argv[1])
           r    == Slot(Handler[node.key], text)
<1>1. ~(node.key = Null \/ node.value = Null)
  BY DEF Parse
<1>2. Parse(node) = Handle(node.key, args)
  BY <1>1 DEF Parse
<1>3. ~(~args.ok \/ Len(args.argv) < 1)
  <2>1. (~args.ok \/ Len(args.argv) < 1) => Handle(node.key, args) = [does |-> "error"]
    BY Zenon DEF Handle
  <2> HIDE DEF args
  <2> QED BY <1>2, <2>1
<1>4. args.argv # <<>>
  <2> HIDE DEF args
  <2>1. Len(<<>>) = 0
    OBVIOUS
  <2>2. args.argv = <<>> => Len(args.argv) = 0
    BY <2>1
  <2> QED BY <1>3, <2>2
<1>5. r.ok
  <2>1. ~r.ok => Handle(node.key, args) = [does |-> "error"]
    BY <1>3, Zenon DEF Handle
  <2> HIDE DEF args, r
  <2> QED BY <1>2, <2>1
<1>6. ASSUME Handler[node.key] = "flag" PROVE Word(text) \in {YES, NO}
  <2> HIDE DEF text, args
  <2>1. r = Flag(text)
    BY <1>6 DEF Slot
  <2>2. ASSUME Word(text) \notin {YES, NO} PROVE FALSE
    <3>1. Flag(text) = Failed
      BY <2>2 DEF Flag
    <3>2. ~Failed.ok
      BY DEF Failed
    <3> HIDE DEF r
    <3> QED BY <1>5, <2>1, <3>1, <3>2
  <2> QED BY <2>2
<1> QED BY <1>4, <1>6
\* A struct that is assigned to is a struct.
LEMMA Assigned ==
    ASSUME NEW o, o = [k \in DOMAIN Handler |-> o[k]], NEW key \in DOMAIN Handler, NEW v,
           NEW p, p = [o EXCEPT ![key] = v]
    PROVE  /\ p = [k \in DOMAIN Handler |-> p[k]]
           /\ p[key] = v
           /\ \A k \in DOMAIN Handler : k # key => p[k] = o[k]
  OBVIOUS

\* At first no node has been parsed.
LEMMA ConfInitInv == ConfInit => ConfInv
<1> SUFFICES ASSUME ConfInit PROVE ConfInv
  OBVIOUS
<1>1. PICK n \in 0 .. MaxNodes : file \in [1 .. n -> Nodes]
  BY DEF ConfInit
<1>2. file \in Seq(Nodes) /\ Len(file) \in Nat
  BY <1>1
<1>3. Defaults = [k \in DOMAIN Handler |-> Defaults[k]]
  BY DEF Defaults, Handler
<1>4. 1 .. parsed = {}
  BY DEF ConfInit
<1>5. Applied
  BY <1>4 DEF Applied, ConfInit
<1> QED BY <1>2, <1>3, <1>4, <1>5 DEF ConfInit, ConfInv

\* init_conf() (server.cpp:91)
LEMMA InitConfStep == ASSUME ConfInv, InitConf PROVE ConfInv'
<1>1. options' = [k \in DOMAIN Handler |-> options'[k]]
  <2>1. CASE options' = Defaults
    BY <2>1 DEF Defaults, Handler
  <2>2. CASE \E o \in Given :
                options' = IF o.ip = Null THEN [o EXCEPT !.ip = AnyAddress] ELSE o
    <3>1. PICK o \in Given :
              options' = IF o.ip = Null THEN [o EXCEPT !.ip = AnyAddress] ELSE o
      BY <2>2
    <3>2. o = [k \in DOMAIN Handler |-> o[k]] /\ "ip" \in DOMAIN Handler
      BY ConfConstants DEF Handler
    <3>3. CASE o.ip = Null
      <4>1. options' = [o EXCEPT !["ip"] = AnyAddress]
        BY <3>1, <3>3
      <4> QED BY <4>1, <3>2, Assigned
    <3>4. CASE o.ip # Null
      BY <3>1, <3>2, <3>4
    <3> QED BY <3>3, <3>4
  <2> QED BY <2>1, <2>2 DEF InitConf
<1>2. parsed' = 0 /\ 1 .. parsed' = {} /\ options' = base' /\ file' = file /\ stage' = "conf"
  BY DEF ConfInv, InitConf
<1>3. Applied'
  BY <1>2 DEF Applied
<1> QED BY <1>1, <1>2, <1>3 DEF ConfInv

\* load_conf_file() begins with a file that has a node (config_file.cpp:53).
LEMMA LoadConfStep == ASSUME ConfInv, LoadConf PROVE ConfInv'
<1>1. UNCHANGED <<options, base, file, parsed>> /\ stage' \in {"error", "load"}
  BY DEF LoadConf
<1>2. stage' = "load" => Len(file) > 0
  <2>1. file \in Seq(Nodes) /\ Len(file) \in Nat
    BY DEF ConfInv
  <2>2. stage' = "load" => file # <<>>
    BY DEF LoadConf
  <2> QED BY <2>1, <2>2
<1>3. Applied' /\ \A i \in 1 .. parsed' : Parse(file[i])'.does \in {"set", "skip"}
  BY <1>1 DEF Applied, ConfInv
<1> QED BY <1>1, <1>2, <1>3 DEF ConfInv

\* One node (config_file.cpp:68): the last one for its option when it sets one.
LEMMA ParseConfStep == ASSUME ConfInv, ParseConf PROVE ConfInv'
<1> DEFINE node == file[parsed + 1]
           r    == Parse(node)
<1>1. /\ stage = "load" /\ parsed < Len(file) /\ file' = file /\ base' = base
      /\ options' = IF r.does = "set" THEN [options EXCEPT ![node.key] = r.value]
                    ELSE options
      /\ IF r.does \in {"set", "skip"} THEN parsed' = parsed + 1 /\ stage' = stage
         ELSE stage' = r.does /\ parsed' = parsed
  BY DEF ParseConf
<1>2. /\ r.does \in {"error", "set", "skip", "crash"}
      /\ r.does = "set" => /\ node.key \in DOMAIN Handler
                           /\ r = [does |-> "set", value |-> r.value]
      /\ r.does = "skip" => node.key \notin DOMAIN Handler
      /\ r.does = "crash" =>
            node.key \notin DOMAIN Handler /\ ~SdsSplitArgs(node.value).ok
  BY ParseFacts
<1>3. /\ file \in Seq(Nodes) /\ parsed \in Nat /\ Len(file) \in Nat /\ parsed <= Len(file)
      /\ options = [k \in DOMAIN Handler |-> options[k]]
      /\ \A i \in 1 .. parsed : Parse(file[i]).does \in {"set", "skip"}
      /\ Applied
  BY DEF ConfInv
<1> HIDE DEF r
<1>4. CASE r.does \in {"error", "crash"}
  <2>1. UNCHANGED <<options, base, file, parsed>> /\ stage' = r.does
    BY <1>1, <1>4
  <2>2. Applied' /\ \A i \in 1 .. parsed' : Parse(file[i])'.does \in {"set", "skip"}
    BY <2>1, <1>3 DEF Applied
  <2>3. stage' = "crash" => /\ file[parsed + 1].key \notin DOMAIN Handler
                            /\ ~SdsSplitArgs(file[parsed + 1].value).ok
    BY <2>1, <1>2
  <2> QED BY <1>1, <1>3, <1>4, <2>1, <2>2, <2>3 DEF ConfInv
<1>5. CASE r.does \in {"set", "skip"}
  <2>1. parsed' = parsed + 1 /\ stage' = "load"
    BY <1>1, <1>5
  <2>2. \A i \in 1 .. parsed' : Parse(file[i]).does \in {"set", "skip"}
    <3> SUFFICES ASSUME NEW i \in 1 .. parsed + 1 PROVE Parse(file[i]).does \in {"set", "skip"}
      BY <2>1
    <3>1. CASE i = parsed + 1
      BY <3>1, <1>5 DEF r
    <3>2. CASE i # parsed + 1
      BY <3>2, <1>3
    <3> QED BY <3>1, <3>2
  <2>3. /\ options' = [k \in DOMAIN Handler |-> options'[k]]
        /\ r.does = "set" => /\ options'[node.key] = r.value
                             /\ \A k \in DOMAIN Handler : k # node.key => options'[k] = options[k]
        /\ r.does = "skip" => options' = options
    <3>1. CASE r.does = "set"
      <4>1. options' = [options EXCEPT ![node.key] = r.value]
        BY <1>1, <3>1
      <4> HIDE DEF node
      <4> QED BY <4>1, <1>2, <1>3, <3>1, Assigned, Zenon
    <3>2. CASE r.does = "skip"
      BY <1>1, <1>3, <3>2
    <3> QED BY <1>5, <3>1, <3>2
  <2>4. Applied'
    <3> SUFFICES ASSUME NEW k \in DOMAIN Handler
                 PROVE  \E ns \in {{i \in 1 .. parsed + 1 : file[i].key = k}} :
                            IF ns = {} THEN options'[k] = base[k]
                            ELSE \E n \in ns :
                                   /\ \A i \in ns : i <= n
                                   /\ Parse(file[n]) = [does |-> "set", value |-> options'[k]]
      BY <1>1, <2>1 DEF Applied
    <3> DEFINE old == {i \in 1 .. parsed : file[i].key = k}
               new == {i \in 1 .. parsed + 1 : file[i].key = k}
    <3>1. IF old = {} THEN options[k] = base[k]
          ELSE \E n \in old : /\ \A i \in old : i <= n
                              /\ Parse(file[n]) = [does |-> "set", value |-> options[k]]
      BY <1>3 DEF Applied
    <3>2. CASE r.does = "set" /\ node.key = k
      <4>1. parsed + 1 \in new /\ \A i \in new : i <= parsed + 1
        BY <3>2, <1>3
      <4>2. Parse(file[parsed + 1]) = [does |-> "set", value |-> options'[k]]
        BY <1>2, <2>3, <3>2 DEF r
      <4> HIDE DEF new
      <4> QED BY <4>1, <4>2 DEF new
    <3>3. CASE ~(r.does = "set" /\ node.key = k)
      <4>1. node.key # k /\ options'[k] = options[k]
        BY <1>2, <1>5, <2>3, <3>3
      <4>2. new = old
        BY <4>1, <1>3
      <4> HIDE DEF new, old
      <4> QED BY <4>1, <4>2, <3>1 DEF new
    <3> QED BY <3>2, <3>3
  <2> QED BY <1>1, <1>3, <2>1, <2>2, <2>3, <2>4 DEF ConfInv
<1> QED BY <1>2, <1>4, <1>5

\* The end of the file (config_file.cpp:75).
LEMMA LoadReturnsStep == ASSUME ConfInv, LoadReturns PROVE ConfInv'
<1>1. Applied' /\ \A i \in 1 .. parsed' : Parse(file[i])'.does \in {"set", "skip"}
  BY DEF Applied, ConfInv, LoadReturns
<1> QED BY <1>1 DEF ConfInv, LoadReturns

\* What the main thread does with the options.
LEMMA ConfStep ==
    ASSUME ConfInv, ConfNext \/ UNCHANGED conf PROVE ConfInv'
<1>1. CASE UNCHANGED conf
  <2>1. Applied' /\ \A i \in 1 .. parsed' : Parse(file[i])'.does \in {"set", "skip"}
    BY <1>1 DEF Applied, ConfInv, conf
  <2> QED BY <1>1, <2>1 DEF ConfInv, conf
<1> QED BY <1>1, InitConfStep, LoadConfStep, ParseConfStep, LoadReturnsStep DEF ConfNext

\* The invariant implies ConfLoaded.
LEMMA LoadedFromInv == ConfInv => ConfLoaded
<1> SUFFICES ASSUME ConfInv PROVE ConfLoaded
  OBVIOUS
<1>1. ASSUME NEW i \in 1 .. parsed, file[i].key \in DOMAIN Handler
      PROVE  \E argv \in {SdsSplitArgs(file[i].value).argv} :
                 /\ argv # <<>>
                 /\ Handler[file[i].key] = "flag" => Word(CString(argv[1])) \in {YES, NO}
  <2>1. Parse(file[i]).does = "set"
    BY <1>1, ParseFacts DEF ConfInv
  <2> QED BY <1>1, <2>1, SetFacts
<1>2. stage = "loaded" => parsed = Len(file) /\ parsed > 0
  BY DEF ConfInv
<1>3. Applied
  BY DEF ConfInv
<1> QED BY <1>1, <1>2, <1>3 DEF ConfLoaded, Applied

-----------------------------------------------------------------------------
(* The main thread and the workers.                                        *)

\* The places before the server is initialised, and those after.
Starting == {"new", "create", "spawn", "thread", "bind"}
Serving  == {"ready", "run", "join", "joining", "stopped"}

LifeType ==
    /\ at \in Starting \cup Serving \cup {"failed", "deleted", "crash"}
    /\ cpu_id \in Nat /\ cpu_id <= MaxWorkers
    /\ workers \in Seq(Ids)
    /\ thread \in [Ids -> {"none", "running", "ended"}]
    /\ object \in [Ids -> {"none", "listening", "deaf", "deleted"}]
    /\ joined \in Nat /\ joined <= Len(workers)

\* The workers are listed in the order of their numbers; but for the one being
\* spawned all that were made are listed, as long as nothing has failed.
Listed ==
    /\ \A k \in 1 .. Len(workers) :
          workers[k] = k - 1 /\ k - 1 < WorkerNum /\ (BindCpu => k - 1 < Cpus)
    /\ Len(workers) <= cpu_id
    /\ at \in {"new", "create"} => workers = <<>>
    /\ at \in {"new", "create", "spawn"} \cup Serving => cpu_id = Len(workers)
    /\ at \in {"thread", "bind"} => cpu_id = Len(workers) + 1 /\ Len(workers) < WorkerNum
    /\ at \in Serving => Len(workers) >= WorkerNum

\* Those that were made are not deleted as long as nothing has failed, and those
\* that are listed have a thread.
Made ==
    /\ \A i \in Ids : i >= cpu_id => object[i] = "none" /\ thread[i] = "none"
    /\ \A i \in Ids : i < cpu_id => object[i] # "none"
    /\ \A i \in Ids : i < Len(workers) => thread[i] # "none"
    /\ at = "bind" => thread[Current] # "none"
    /\ at \in Starting \cup Serving => \A i \in Ids : object[i] # "deleted"

\* A deleted worker could not be bound, or was deleted with the server; and the
\* threads of joined workers have ended.
Deleted ==
    /\ \A i \in Ids : object[i] = "deleted" =>
          \/ i \in unbound
          \/ /\ at \in {"deleted", "crash"}
             /\ \E k \in 1 .. Len(workers) : workers[k] = i
    /\ \A k \in 1 .. joined : thread[workers[k]] = "ended"
    /\ joined > 0 => at \in {"join", "joining", "stopped", "deleted", "crash"}
    /\ at = "joining" => joined < Len(workers)

LifeInv == LifeType /\ Listed /\ Made /\ Deleted

IInv == ConfInv /\ LifeInv

\* At first there are no workers.
LEMMA InitInv == Init => IInv
<1> SUFFICES ASSUME Init PROVE IInv
  OBVIOUS
<1> USE DEF Init
<1>1. ConfInv
  BY ConfInitInv
<1>2. LifeType
  BY StartupConstants DEF LifeType, Starting
<1>3. Listed
  BY DEF Listed, Serving
<1>4. Made /\ Deleted
  BY DEF Made, Deleted, Ids
<1> QED BY <1>1, <1>2, <1>3, <1>4 DEF IInv, LifeInv

\* A step that moves the main thread and changes nothing else but the QUITs.
LEMMA MoveStep ==
    ASSUME LifeInv, UNCHANGED <<conf, cpu_id, workers, object, thread, joined, unbound>>,
           \/ at' = at
           \/ at = "new" /\ at' \in {"create", "failed"}
           \/ at = "create" /\ at' \in {"spawn", "failed", "crash"}
           \/ at = "spawn" /\ at' = "failed"
           \/ at = "spawn" /\ Len(workers) >= WorkerNum /\ at' = "ready"
           \/ at = "ready" /\ at' = "run"
           \/ at = "run" /\ at' \in {"crash", "join"}
           \/ at = "join" /\ joined < Len(workers) /\ at' = "joining"
           \/ at \in {"join", "joining"} /\ at' = "stopped"
           \/ at' = "crash"
    PROVE  LifeInv'
<1> USE DEF LifeInv, conf
<1>1. LifeType'
  BY DEF LifeType, Starting, Serving
<1>2. Listed'
  BY DEF Listed, Serving, WorkerNum, BindCpu
<1>3. Made'
  BY DEF Made, Starting, Serving, Current
<1>4. Deleted'
  BY DEF Deleted, Made, Starting, Serving
<1> QED BY <1>1, <1>2, <1>3, <1>4

\* spawn_worker() makes a worker (dispatcher.cpp:198).
LEMMA NewWorkerStep == ASSUME LifeInv, NewWorker PROVE LifeInv'
<1> USE DEF LifeInv, Goto, conf
<1>1. PICK o \in {"listening", "deaf"} : object' = [object EXCEPT ![cpu_id] = o]
  BY Zenon DEF NewWorker
<1>2. /\ at = "spawn" /\ at' = "thread" /\ Len(workers) < WorkerNum
      /\ cpu_id < MaxWorkers /\ cpu_id' = cpu_id + 1
      /\ UNCHANGED <<options, workers, thread, joined, unbound>>
  BY DEF NewWorker
<1>3. cpu_id \in Ids /\ cpu_id = Len(workers) /\ joined = 0
  BY <1>2, StartupConstants DEF LifeType, Listed, Deleted, Ids
<1>4. /\ object' \in [Ids -> {"none", "listening", "deaf", "deleted"}]
      /\ object'[cpu_id] = o
      /\ \A i \in Ids : i # cpu_id => object'[i] = object[i]
  BY <1>1, <1>3 DEF LifeType
<1>5. LifeType'
  BY <1>2, <1>4, StartupConstants DEF LifeType, Starting
<1>6. Listed'
  BY <1>2, <1>3, <1>5 DEF Listed, LifeType, Serving, WorkerNum, BindCpu
<1>7. Made'
  BY <1>2, <1>3, <1>4, <1>5 DEF Made, LifeType, Starting, Ids
<1>8. Deleted'
  BY <1>2, <1>3, <1>4 DEF Deleted, LifeType
<1> QED BY <1>5, <1>6, <1>7, <1>8

\* The worker spawn_worker() is at work on is the last one that was made.
LEMMA CurrentIsId ==
    ASSUME LifeInv, at \in {"thread", "bind"}
    PROVE  Current \in Ids /\ Current = Len(workers) /\ cpu_id = Current + 1 /\ joined = 0
BY StartupConstants DEF LifeInv, LifeType, Listed, Deleted, Ids, Current

\* create_thread() (dispatcher.cpp:206).
LEMMA CreateThreadStep == ASSUME LifeInv, CreateThread PROVE LifeInv'
<1> USE DEF LifeInv, Goto, conf
<1>1. PICK ok \in BOOLEAN :
          /\ thread' = [thread EXCEPT ![Current] = IF ok THEN "running" ELSE @]
          /\ at' = IF ok THEN "bind" ELSE "failed"
  BY Zenon DEF CreateThread
<1>2. at = "thread" /\ UNCHANGED <<options, cpu_id, workers, object, joined, unbound>>
  BY DEF CreateThread
<1>3. Current \in Ids /\ Current = Len(workers) /\ cpu_id = Current + 1 /\ joined = 0
  BY <1>2, CurrentIsId
<1>4. /\ thread' \in [Ids -> {"none", "running", "ended"}]
      /\ \A i \in Ids : i # Current => thread'[i] = thread[i]
      /\ \/ at' = "failed"
         \/ at' = "bind" /\ thread'[Current] = "running"
  BY <1>1, <1>3 DEF LifeType
<1>5. LifeType'
  BY <1>2, <1>4 DEF LifeType, Starting
<1>6. Listed'
  BY <1>2, <1>4 DEF Listed, Serving, WorkerNum, BindCpu
<1>7. Current' = Current
  BY <1>2 DEF Current
<1>8. Made'
  BY <1>2, <1>3, <1>4, <1>7 DEF Made, LifeType, Starting, Serving, Ids
<1>9. Deleted'
  BY <1>2, <1>3, <1>4 DEF Deleted, Made, Starting
<1> QED BY <1>5, <1>6, <1>8, <1>9

\* bind_cpu() succeeds only for a processor that exists (worker.cpp:27).
LEMMA BindingFacts ==
    ASSUME Current \in Int, NEW bound \in Binding
    PROVE  bound \in BOOLEAN /\ (bound /\ BindCpu => Current < Cpus)
<1>1. CASE ~BindCpu
  <2>1. Binding = {TRUE}
    BY <1>1, Zenon DEF Binding
  <2> QED BY <1>1, <2>1
<1>2. CASE BindCpu /\ Current < Cpus
  <2>1. ~(Current >= Cpus)
    BY <1>2, StartupConstants
  <2>2. Binding = BOOLEAN
    BY <1>2, <2>1, Zenon DEF Binding
  <2> QED BY <1>2, <2>2
<1>3. CASE BindCpu /\ ~(Current < Cpus)
  <2>1. Current >= Cpus
    BY <1>3, StartupConstants
  <2>2. Binding = {FALSE}
    BY <1>3, <2>1, Zenon DEF Binding
  <2> QED BY <2>2
<1> QED BY <1>1, <1>2, <1>3

\* The end of spawn_worker() (dispatcher.cpp:214).
LEMMA BindStep == ASSUME LifeInv, BindCpuAndPush PROVE LifeInv'
<1> USE DEF LifeInv, Goto, conf
<1>1. PICK bound \in Binding :
          IF ~bound
          THEN /\ object' = [object EXCEPT ![Current] = "deleted"]
               /\ unbound' = {Current} /\ at' = "failed" /\ workers' = workers
          ELSE /\ workers' = Append(workers, Current) /\ at' = "spawn"
               /\ object' = object /\ unbound' = unbound
  BY DEF BindCpuAndPush
<1>2. at = "bind" /\ UNCHANGED <<options, cpu_id, thread, joined>>
  BY DEF BindCpuAndPush
<1>3. Current \in Ids /\ Current = Len(workers) /\ cpu_id = Current + 1 /\ joined = 0
  BY <1>2, CurrentIsId
<1>4. \A i \in Ids : object[i] # "deleted"
  BY <1>2 DEF Made, Starting
<1>0. bound \in BOOLEAN /\ (bound /\ BindCpu => Current < Cpus)
  <2>1. Current \in Int
    BY <1>3, StartupConstants DEF Ids
  <2> QED BY <2>1, BindingFacts
<1>5. CASE ~bound
  <2>1. /\ object' \in [Ids -> {"none", "listening", "deaf", "deleted"}]
        /\ object'[Current] = "deleted"
        /\ \A i \in Ids : i # Current => object'[i] = object[i]
    BY <1>1, <1>3, <1>5 DEF LifeType
  <2>2. at' = "failed" /\ workers' = workers /\ unbound' = {Current}
    BY <1>1, <1>5
  <2>3. LifeType'
    BY <1>2, <2>1, <2>2 DEF LifeType
  <2>4. Listed'
    BY <1>2, <2>2 DEF Listed, Serving, WorkerNum, BindCpu
  <2>5. Made'
    BY <1>2, <1>3, <2>1, <2>2 DEF Made, LifeType, Starting, Serving, Ids
  <2>6. Deleted'
    BY <1>2, <1>3, <1>4, <2>1, <2>2 DEF Deleted
  <2> QED BY <2>3, <2>4, <2>5, <2>6
<1>6. CASE bound
  <2>1. workers' = Append(workers, Current) /\ at' = "spawn" /\ UNCHANGED <<object, unbound>>
    BY <1>1, <1>6
  <2>2. /\ workers' \in Seq(Ids) /\ Len(workers') = Len(workers) + 1
        /\ workers'[Len(workers) + 1] = Current
        /\ \A k \in 1 .. Len(workers) : workers'[k] = workers[k]
    BY <1>3, <2>1 DEF LifeType
  <2>3. BindCpu => Current < Cpus
    BY <1>6, <1>0
  <2>4. LifeType'
    BY <1>2, <1>3, <2>1, <2>2 DEF LifeType, Starting
  <2>5. Listed'
    <3>1. Current < WorkerNum
      BY <1>2, <1>3 DEF Listed
    <3>2. ASSUME NEW k \in 1 .. Len(workers')
          PROVE  workers'[k] = k - 1 /\ k - 1 < WorkerNum /\ (BindCpu => k - 1 < Cpus)
      BY <1>3, <2>2, <2>3, <3>1 DEF Listed, LifeType
    <3>3. WorkerNum' = WorkerNum /\ BindCpu' = BindCpu
      BY <1>2 DEF WorkerNum, BindCpu
    <3> QED BY <1>2, <1>3, <2>1, <2>2, <3>2, <3>3 DEF Listed, Serving, LifeType
  <2>6. Made'
    BY <1>2, <1>3, <1>4, <2>1, <2>2 DEF Made, LifeType, Starting, Ids
  <2>7. Deleted'
    BY <1>2, <1>3, <1>4, <2>1 DEF Deleted
  <2> QED BY <2>4, <2>5, <2>6, <2>7
<1> QED BY <1>0, <1>5, <1>6

\* join_workers() has waited for a thread (dispatcher.cpp:227).
LEMMA JoinThreadStep == ASSUME LifeInv, JoinThread PROVE LifeInv'
<1> USE DEF LifeInv, Goto, conf
<1>1. /\ at = "joining" /\ at' = "join" /\ thread[workers[joined + 1]] = "ended"
      /\ joined' = joined + 1
      /\ UNCHANGED <<options, cpu_id, workers, object, thread, unbound>>
  BY DEF JoinThread
<1>2. LifeType'
  BY <1>1 DEF LifeType, Deleted, Serving
<1>3. Listed'
  BY <1>1 DEF Listed, Serving, WorkerNum, BindCpu
<1>4. Made'
  BY <1>1 DEF Made, Starting, Serving
<1>5. \A k \in 1 .. joined' : k \in 1 .. joined \/ k = joined + 1
  BY <1>1 DEF LifeType
<1>6. Deleted'
  BY <1>1, <1>5 DEF Deleted, Made, Serving
<1> QED BY <1>2, <1>3, <1>4, <1>6

\* ~GenericDispatcher() deletes the listed workers (dispatcher.cpp:95).
LEMMA DeleteServerStep == ASSUME LifeInv, DeleteServer PROVE LifeInv'
<1> USE DEF LifeInv, Goto, conf
<1>1. /\ at \in {"failed", "ready", "stopped"} /\ at' = "deleted"
      /\ object' = [i \in Ids |-> IF \E k \in 1 .. Len(workers) : workers[k] = i
                                  THEN "deleted" ELSE object[i]]
      /\ UNCHANGED <<options, cpu_id, workers, thread, joined, unbound>>
  BY DEF DeleteServer
<1>2. LifeType'
  BY <1>1 DEF LifeType
<1>3. Listed'
  BY <1>1 DEF Listed, Serving, WorkerNum, BindCpu
<1>4. \A k \in 1 .. Len(workers) : workers[k] < cpu_id
  BY DEF Listed, LifeType
<1>5. Made'
  BY <1>1, <1>4 DEF Made, LifeType, Starting, Serving, Ids
<1>6. Deleted'
  BY <1>1 DEF Deleted, LifeType
<1> QED BY <1>2, <1>3, <1>5, <1>6

\* A thread ends, of a worker that is deleted or not.
LEMMA EndStep ==
    ASSUME LifeInv, NEW i \in Ids, thread[i] = "running",
           thread' = [thread EXCEPT ![i] = "ended"],
           UNCHANGED <<conf, at, cpu_id, workers, object, joined, unbound>>
    PROVE  LifeInv'
<1> USE DEF LifeInv, conf
<1>1. /\ thread' \in [Ids -> {"none", "running", "ended"}] /\ thread'[i] = "ended"
      /\ \A j \in Ids : j # i => thread'[j] = thread[j]
  BY DEF LifeType
<1>2. LifeType'
  BY <1>1 DEF LifeType
<1>3. Listed'
  BY DEF Listed, WorkerNum, BindCpu
<1>4. \A j \in Ids : thread'[j] = "none" <=> thread[j] = "none"
  BY <1>1
<1>5. Made'
  <2>1. Current' = Current /\ (at = "bind" => Current \in Ids)
    BY CurrentIsId DEF Current
  <2> QED BY <1>4, <2>1 DEF Made
<1>6. \A k \in 1 .. joined : workers[k] \in Ids
  BY DEF LifeType
<1>7. Deleted'
  BY <1>1, <1>6 DEF Deleted
<1> QED BY <1>2, <1>3, <1>5, <1>7

\* A step of the main thread, of a worker or of one that calls stop().
LEMMA LifeStep ==
    ASSUME LifeInv,
           \/ MainThread \/ DispatchToNobody \/ JoinFails \/ ServerStop \/ DeleteServer
           \/ \E i \in Ids : WorkerEnds(i) \/ UseDeleted(i)
    PROVE  LifeInv' /\ UNCHANGED conf
<1>1. CASE \/ CreatePipe \/ CreateServer \/ NoFactory \/ InitializeReturns
           \/ Run \/ DispatchToNobody \/ DispatcherStop \/ ServerStop
           \/ JoinNotify \/ JoinFails \/ RunReturns
  BY <1>1, MoveStep
  DEF CreatePipe, CreateServer, NoFactory, InitializeReturns, Run, DispatchToNobody,
      DispatcherStop, ServerStop, JoinNotify, JoinFails, RunReturns, Goto
<1>2. CASE NewWorker \/ CreateThread \/ BindCpuAndPush
  BY <1>2, NewWorkerStep, CreateThreadStep, BindStep
  DEF NewWorker, CreateThread, BindCpuAndPush
<1>3. CASE JoinThread \/ DeleteServer
  BY <1>3, JoinThreadStep, DeleteServerStep, Zenon DEF JoinThread, DeleteServer
<1>4. ASSUME NEW i \in Ids, WorkerEnds(i) \/ UseDeleted(i)
      PROVE  LifeInv' /\ UNCHANGED conf
  BY <1>4, EndStep, MoveStep, Zenon DEF WorkerEnds, UseDeleted, Goto
<1> QED BY <1>1, <1>2, <1>3, <1>4 DEF MainThread

\* Options are set only before initialize().
LEMMA ConfigureStep ==
    ASSUME LifeInv, Configure \/ UNCHANGED vars PROVE LifeInv' /\ (ConfNext \/ UNCHANGED conf)
<1>1. CASE Configure
  <2>1. /\ at = "new" /\ workers = <<>> /\ ConfNext
        /\ UNCHANGED <<at, cpu_id, workers, object, thread, joined, told, quit, unbound>>
    BY <1>1 DEF Configure, LifeInv, Listed
  <2>2. LifeType' /\ Made' /\ Deleted'
    BY <2>1 DEF LifeInv, LifeType, Made, Deleted, Current
  <2>3. Listed'
    BY <2>1 DEF LifeInv, Listed, Serving
  <2> QED BY <2>1, <2>2, <2>3 DEF LifeInv
<1>2. CASE UNCHANGED vars
  BY <1>2, MoveStep DEF vars, conf
<1> QED BY <1>1, <1>2

\* Every step keeps the invariant.
LEMMA NextInv == ASSUME IInv, [Next]_vars PROVE IInv'
<1>1. CASE Configure \/ UNCHANGED vars
  BY <1>1, ConfigureStep, ConfStep DEF IInv
<1>2. CASE \/ MainThread \/ DispatchToNobody \/ JoinFails \/ ServerStop \/ DeleteServer
           \/ \E i \in Ids : WorkerEnds(i) \/ UseDeleted(i)
  BY <1>2, LifeStep, ConfStep DEF IInv
<1> QED BY <1>1, <1>2 DEF Next

\* IInv holds in every state.
THEOREM Invariance == Spec => []IInv
  BY InitInv, NextInv, PTL DEF Spec

\* No thread that join_workers() has joined, and none of a server that has not been
\* deleted, runs on a deleted worker, but for the one that spawn_worker() deletes
\* because it could not be bound (dispatcher.cpp:95, 214, 227).
THEOREM Safety_DeletedNotRunning == Spec => []DeletedNotRunning
<1>1. ASSUME IInv, NEW i \in Ids, object[i] = "deleted", thread[i] = "running", i \notin unbound
      PROVE  /\ at \in {"deleted", "crash"}
             /\ \E k \in joined + 1 .. Len(workers) : workers[k] = i
  <2>1. at \in {"deleted", "crash"} /\ \E k \in 1 .. Len(workers) : workers[k] = i
    BY <1>1 DEF IInv, LifeInv, Deleted
  <2>2. PICK k \in 1 .. Len(workers) : workers[k] = i
    BY <2>1
  <2>3. k \notin 1 .. joined
    BY <1>1, <2>2 DEF IInv, LifeInv, Deleted
  <2>4. k \in joined + 1 .. Len(workers)
    BY <1>1, <2>3 DEF IInv, LifeInv, LifeType
  <2> QED BY <2>1, <2>2, <2>4
<1>2. IInv => DeletedNotRunning
  BY <1>1 DEF DeletedNotRunning
<1> QED BY <1>2, Invariance, PTL

\* An initialised server has exactly the workers worker_num asks for, each alive and
\* with its thread, bound to a processor that exists if bind_cpu says so, and no
\* other thread (dispatcher.cpp:107, 192), for every number of workers.
THEOREM Safety_InitializedWhole == Spec => []InitializedWhole
<1>1. ASSUME IInv, at \in Serving, NEW i \in Ids
      PROVE  IF i < Len(workers)
             THEN thread[i] # "none" /\ object[i] \in {"listening", "deaf"}
             ELSE thread[i] = "none"
  <2>1. cpu_id = Len(workers) /\ Len(workers) \in Nat /\ i \in Int
    BY <1>1, StartupConstants DEF IInv, LifeInv, LifeType, Listed, Ids
  <2> QED BY <1>1, <2>1 DEF IInv, LifeInv, LifeType, Made
<1>2. IInv /\ at \in Serving =>
          /\ Len(workers) >= WorkerNum
          /\ \A k \in 1 .. Len(workers) :
                workers[k] = k - 1 /\ k - 1 < WorkerNum /\ (BindCpu => k - 1 < Cpus)
  BY DEF IInv, LifeInv, Listed
<1>3. IInv => InitializedWhole
  BY <1>1, <1>2 DEF InitializedWhole, Serving
<1> QED BY <1>3, Invariance, PTL

\* A server runs with what its file says (config_file.cpp:53, server.cpp:105),
\* whatever the functions of the handlers make of the texts.
THEOREM Safety_ConfLoaded == Spec => []ConfLoaded
<1>1. IInv => ConfLoaded
  BY LoadedFromInv DEF IInv
<1> QED BY <1>1, Invariance, PTL

-----------------------------------------------------------------------------
(* UDP: the dispatcher's accept and a connection of a worker.              *)

USE DEF U!AcceptConstants

Dgrams == Clients \X Nat
Item == [dgram : Dgrams, early : BOOLEAN]
Sock == [peer : Clients \cup {Anyone, Closed}, queue : Seq(Item)]

AcceptType ==
    /\ listenq \in Seq(Dgrams) /\ sa \in Dgrams \cup {<<>>}
    /\ socks \in Seq(Sock) /\ sends \in [Clients -> Nat]

\* A socket's datagrams are its client's, or came before it was connected.
Own(x) ==
    \A i \in DOMAIN x.queue :
        \/ x.queue[i].early
        \/ x.peer # Anyone /\ x.queue[i].dgram[1] = x.peer

\* The socket being made is the last one and is not connected.
Making == acceptAt = "connect" => Len(socks) > 0 /\ socks[Len(socks)].peer = Anyone

\* Any other that is not connected is one that connect() failed for.
Blind ==
    \A s \in DOMAIN socks :
        socks[s].peer = Anyone => s \in blind \/ (acceptAt = "connect" /\ s = Len(socks))

UdpInv ==
    /\ AcceptType /\ Making /\ Blind /\ U!OwnedIsQueued
    /\ \A s \in DOMAIN socks : Own(socks[s])

\* The invariant implies the property.
LEMMA UdpImplied == ASSUME U!AcceptConstants PROVE UdpInv => U!OwnClient
BY DEF UdpInv, AcceptType, Own, Blind, U!OwnClient, U!ACCEPT!OwnClient, U!ACCEPT!From, U!ACCEPT!New

\* The invariant of UDP holds initially.
LEMMA UdpInit == ASSUME U!AcceptConstants PROVE U!MCInit => UdpInv
BY DEF U!MCInit, U!Init, U!ACCEPT!Init, UdpInv, AcceptType, Making, Blind, U!OwnedIsQueued

\* The allocated answers are the queued ones, whatever the worker does.
LEMMA OwnedNext == U!OwnedIsQueued /\ [U!Next]_U!vars => U!OwnedIsQueued'
<1> SUFFICES ASSUME U!OwnedIsQueued, [U!Next]_U!vars PROVE U!OwnedIsQueued'
  OBVIOUS
<1> USE DEF U!OwnedIsQueued
<1>1. CASE UNCHANGED <<open, queued, owned>>
  BY <1>1
<1>2. CASE U!ReadIo
  BY <1>2 DEF U!ReadIo, U!AddReply
<1>3. CASE U!WriteReply
  BY <1>3 DEF U!WriteReply
<1>4. CASE U!CloseConn
  BY <1>4 DEF U!CloseConn
<1>5. CASE UNCHANGED U!vars
  BY <1>1, <1>5 DEF U!vars
<1>6. CASE \/ (\E n \in Sizes : U!ClientSend(n)) \/ U!ClientLeaves
           \/ U!Damaged \/ U!Transmit \/ U!Network
  BY <1>1, <1>6, Zenon DEF U!ClientSend, U!ClientLeaves, U!Damaged, U!Transmit,
      U!Network
<1>7. CASE U!ConnIoCb
  BY <1>1, <1>2, <1>3, <1>7, Zenon
  DEF U!ConnIoCb, U!Poll, U!WriteIo, U!CbReturns, U!WriteFails, U!WriteDone
<1>8. CASE U!Timer \/ U!WorkerStop
  BY <1>1, <1>4, <1>8, Zenon DEF U!Timer, U!WorkerStop
<1> QED
  BY <1>5, <1>6, <1>7, <1>8 DEF U!Next

\* A socket with another queue.
LEMMA Queued ==
    ASSUME NEW x \in Sock, NEW q \in Seq(Item), NEW r, r = [x EXCEPT !.queue = q]
    PROVE  r = [peer |-> x.peer, queue |-> q]
BY DEF Sock

\* A socket that was connected.
LEMMA Connected ==
    ASSUME NEW x \in Sock, NEW c \in Clients, NEW r, r = [x EXCEPT !.peer = c]
    PROVE  r = [peer |-> c, queue |-> x.queue]
BY DEF Sock

\* A socket that reads, or gets a datagram that it may have, keeps its own.
LEMMA TailOwn ==
    ASSUME NEW x \in Sock, Own(x), x.queue # <<>>,
           NEW y, y = [peer |-> x.peer, queue |-> Tail(x.queue)]
    PROVE  y \in Sock /\ Own(y) /\ y.peer = x.peer
<1>1. x.peer \in Clients \cup {Anyone, Closed} /\ x.queue \in Seq(Item)
  BY DEF Sock
<1>2. /\ Tail(x.queue) \in Seq(Item)
      /\ \A i \in DOMAIN Tail(x.queue) :
            i + 1 \in DOMAIN x.queue /\ Tail(x.queue)[i] = x.queue[i + 1]
  BY <1>1
<1>3. y.peer = x.peer /\ y.queue = Tail(x.queue)
  OBVIOUS
<1>4. Own(y)
  BY <1>2, <1>3, Zenon DEF Own
<1> QED BY <1>1, <1>2, <1>4 DEF Sock

\* A datagram that is the client's, or early, joins the queue.
LEMMA AppendOwn ==
    ASSUME NEW x \in Sock, Own(x), NEW item \in Item,
           item.early \/ (x.peer # Anyone /\ item.dgram[1] = x.peer),
           NEW y, y = [peer |-> x.peer, queue |-> Append(x.queue, item)]
    PROVE  y \in Sock /\ Own(y) /\ y.peer = x.peer
<1>1. x.peer \in Clients \cup {Anyone, Closed} /\ x.queue \in Seq(Item)
  BY DEF Sock
<1>2. /\ Append(x.queue, item) \in Seq(Item)
      /\ \A i \in DOMAIN Append(x.queue, item) :
            \/ i \in DOMAIN x.queue /\ Append(x.queue, item)[i] = x.queue[i]
            \/ Append(x.queue, item)[i] = item
  BY <1>1
<1>3. y.peer = x.peer /\ y.queue = Append(x.queue, item)
  OBVIOUS
<1>4. Own(y)
  BY <1>2, <1>3, Zenon DEF Own
<1> QED BY <1>1, <1>2, <1>4 DEF Sock

\* Delivering a datagram of its own client, or to a socket that is not connected.
LEMMA DeliverFacts ==
    ASSUME U!AcceptConstants, UdpInv, NEW s \in DOMAIN socks, NEW d \in Dgrams,
           socks[s].peer = Anyone \/ socks[s].peer = d[1], U!ACCEPT!Deliver(s, d)
    PROVE  /\ socks' \in Seq(Sock) /\ Len(socks') = Len(socks)
           /\ \A t \in DOMAIN socks' : Own(socks'[t]) /\ socks'[t].peer = socks[t].peer
<1> DEFINE early == socks[s].peer = Anyone
           item == [dgram |-> d, early |-> early]
           q == socks[s].queue
           new == [peer |-> socks[s].peer, queue |-> Append(q, item)]
<1> USE DEF UdpInv
<1>1. item \in Item
  BY DEF Item
<1>2. socks \in Seq(Sock) /\ socks[s] \in Sock /\ q \in Seq(Item)
  <2>1. socks \in Seq(Sock)
    BY DEF AcceptType
  <2>2. socks[s] \in Sock
    BY <2>1
  <2> QED
    BY <2>1, <2>2 DEF Sock
<1>3. Append(q, item) \in Seq(Item) /\ new \in Sock
  <2> HIDE DEF UdpInv, item, q
  <2>1. Append(q, item) \in Seq(Item)
    BY <1>1, <1>2
  <2>2. socks[s].peer \in Clients \cup {Anyone, Closed}
    BY <1>2 DEF Sock
  <2> QED BY <2>1, <2>2 DEF Sock
<1>4. \A r : r = [socks[s] EXCEPT !.queue = Append(q, item)] => r = new
  BY <1>2, <1>3, Queued, Zenon
<1>5. socks' = [socks EXCEPT ![s] = new]
  BY <1>4, Zenon DEF U!ACCEPT!Deliver
<1>6. /\ socks' \in Seq(Sock) /\ Len(socks') = Len(socks)
      /\ \A t \in DOMAIN socks' : socks'[t] = IF t = s THEN new ELSE socks[t]
  BY <1>3, <1>5 DEF AcceptType
<1>7. Own(new) /\ new.peer = socks[s].peer
  <2>1. item.early \/ (socks[s].peer # Anyone /\ item.dgram[1] = socks[s].peer)
    BY Zenon
  <2> QED BY <1>1, <1>2, <2>1, AppendOwn, Zenon
<1>9. DOMAIN socks' = DOMAIN socks
  <2> HIDE DEF UdpInv, new, item, q
  <2>1. socks \in Seq(Sock) /\ socks' \in Seq(Sock) /\ Len(socks') = Len(socks)
    BY <1>2, <1>6, Zenon
  <2> QED BY <2>1
<1> HIDE DEF new
<1> QED
  BY <1>6, <1>7, <1>9

\* The kernel puts a datagram where it belongs.
LEMMA StepSend ==
    ASSUME U!AcceptConstants, UdpInv, NEW c \in Clients, U!ACCEPT!Send(c), UNCHANGED U!vars
    PROVE  UdpInv'
<1> DEFINE d == <<c, sends[c] + 1>>
<1> USE DEF UdpInv
<1>1. d \in Dgrams /\ d[1] = c /\ sends' \in [Clients -> Nat]
  BY DEF U!ACCEPT!Send, AcceptType, Dgrams
<1>2. UNCHANGED <<acceptAt, sa, blind>>
  BY DEF U!ACCEPT!Send
<1>3. \/ UNCHANGED socks /\ listenq' = Append(listenq, d)
      \/ /\ UNCHANGED listenq
         /\ \E s \in DOMAIN socks :
               /\ socks[s].peer = Anyone \/ socks[s].peer = c
               /\ U!ACCEPT!Deliver(s, d)
  BY DEF U!ACCEPT!Send, U!ACCEPT!Peers
<1> HIDE DEF d
<1>4. U!OwnedIsQueued'
  BY DEF U!OwnedIsQueued, U!vars
<1>5. CASE UNCHANGED socks /\ listenq' = Append(listenq, d)
  <2>1. listenq' \in Seq(Dgrams)
    BY <1>1, <1>5 DEF AcceptType
  <2> QED
    BY <1>1, <1>2, <1>4, <1>5, <2>1 DEF AcceptType, Making, Blind, Own
<1>6. CASE /\ UNCHANGED listenq
           /\ \E s \in DOMAIN socks :
                 /\ socks[s].peer = Anyone \/ socks[s].peer = c
                 /\ U!ACCEPT!Deliver(s, d)
  <2> PICK s \in DOMAIN socks : /\ socks[s].peer = Anyone \/ socks[s].peer = c
                                /\ U!ACCEPT!Deliver(s, d)
    BY <1>6
  <2>1. /\ socks' \in Seq(Sock) /\ Len(socks') = Len(socks)
        /\ \A t \in DOMAIN socks' : Own(socks'[t]) /\ socks'[t].peer = socks[t].peer
    BY <1>1, DeliverFacts
  <2>2. DOMAIN socks' = DOMAIN socks /\ DOMAIN socks = 1 .. Len(socks) /\ Len(socks) \in Nat
    BY <2>1 DEF AcceptType
  <2>3. AcceptType'
    BY <1>1, <1>2, <1>6, <2>1 DEF AcceptType
  <2>4. Making' /\ Blind'
    BY <1>2, <2>1, <2>2 DEF Making, Blind
  <2> QED
    BY <1>4, <2>1, <2>3, <2>4 DEF Own
<1> QED
  BY <1>3, <1>5, <1>6

\* The steps that leave the sockets and what is said of them alone.
LEMMA StepNoSocket ==
    ASSUME U!AcceptConstants, UdpInv, UNCHANGED U!vars,
           \/ U!ACCEPT!Damage \/ U!ACCEPT!Poll \/ U!ACCEPT!RecvFrom \/ U!ACCEPT!BindFails
           \/ UNCHANGED U!accept
    PROVE  UdpInv'
<1> USE DEF UdpInv
<1>1. /\ UNCHANGED <<socks, sends, blind>>
      /\ acceptAt' = "connect" <=> acceptAt = "connect"
  BY DEF U!ACCEPT!Damage, U!ACCEPT!Poll, U!ACCEPT!RecvFrom, U!ACCEPT!BindFails, U!accept
<1>2. listenq' \in Seq(Dgrams)
  <2>1. listenq \in Seq(Dgrams)
    BY DEF AcceptType
  <2>2. listenq # <<>> => Tail(listenq) \in Seq(Dgrams)
    BY <2>1
  <2>3. CASE UNCHANGED listenq
    BY <2>1, <2>3
  <2>4. CASE U!ACCEPT!Damage
    BY <2>2, <2>4 DEF U!ACCEPT!Damage
  <2>5. CASE U!ACCEPT!RecvFrom
    <3>1. listenq' = <<>> \/ (listenq # <<>> /\ listenq' = Tail(listenq))
      BY <2>5 DEF U!ACCEPT!RecvFrom
    <3>2. <<>> \in Seq(Dgrams)
      OBVIOUS
    <3> QED
      BY <2>2, <3>1, <3>2, Zenon
  <2> QED
    BY <2>3, <2>4, <2>5 DEF U!ACCEPT!Poll, U!ACCEPT!BindFails, U!accept
<1>3. sa' \in Dgrams \cup {<<>>}
  BY DEF AcceptType, U!ACCEPT!Damage, U!ACCEPT!Poll, U!ACCEPT!RecvFrom, U!ACCEPT!BindFails,
         U!accept
<1>4. AcceptType'
  BY <1>1, <1>2, <1>3 DEF AcceptType
<1>5. Making' /\ Blind' /\ U!OwnedIsQueued'
  BY <1>1 DEF Making, Blind, U!OwnedIsQueued, U!vars
<1> QED
  BY <1>1, <1>4, <1>5 DEF Own

\* bind(): a socket for anyone.
LEMMA StepCreateBind ==
    ASSUME U!AcceptConstants, UdpInv, U!ACCEPT!CreateBind, UNCHANGED U!vars
    PROVE  UdpInv'
<1> DEFINE new == [peer |-> Anyone, queue |-> <<>>]
<1> USE DEF UdpInv
<1>1. /\ acceptAt = "bind" /\ acceptAt' = "connect" /\ socks' = Append(socks, new)
      /\ UNCHANGED <<sa, listenq, sends, blind>>
  BY DEF U!ACCEPT!CreateBind
<1>2. new \in Sock /\ Own(new) /\ new.peer = Anyone
  BY DEF Sock, Own
<1> HIDE DEF new
<1>3. socks \in Seq(Sock) /\ Len(socks) \in Nat
  BY DEF AcceptType
<1>4. /\ socks' \in Seq(Sock) /\ Len(socks') = Len(socks) + 1
      /\ socks'[Len(socks) + 1] = new
      /\ \A s \in 1 .. Len(socks) : socks'[s] = socks[s]
  BY <1>1, <1>2, <1>3
<1>5. DOMAIN socks = 1 .. Len(socks) /\ DOMAIN socks' = 1 .. (Len(socks) + 1)
  BY <1>3, <1>4
<1>6. AcceptType'
  BY <1>1, <1>4 DEF AcceptType
<1>7. Making' /\ Blind' /\ U!OwnedIsQueued'
  <2>1. Making'
    BY <1>1, <1>2, <1>3, <1>4 DEF Making
  <2>2. Blind'
    <3> SUFFICES ASSUME NEW s \in DOMAIN socks', socks'[s].peer = Anyone, s # Len(socks')
                 PROVE  s \in blind'
      BY <1>1 DEF Blind
    <3>1. s \in DOMAIN socks /\ socks'[s] = socks[s]
      BY <1>3, <1>4, <1>5
    <3> QED BY <1>1, <3>1, Zenon DEF Blind
  <2>3. U!OwnedIsQueued'
    BY DEF U!OwnedIsQueued, U!vars
  <2> QED BY <2>1, <2>2, <2>3
<1>8. \A s \in DOMAIN socks' : Own(socks'[s])
  BY <1>2, <1>3, <1>4, <1>5
<1> QED
  BY <1>6, <1>7, <1>8, Zenon DEF Own

\* connect() that failed, or after a failed recvfrom().
LEMMA StepConnectBlind ==
    ASSUME U!AcceptConstants, UdpInv, U!ACCEPT!ConnectBlind, UNCHANGED U!vars
    PROVE  UdpInv'
<1> USE DEF UdpInv
<1>1. /\ acceptAt = "connect" /\ acceptAt' = "loop" /\ sa' = <<>>
      /\ blind' = blind \cup {Len(socks)}
      /\ UNCHANGED <<listenq, socks, sends>>
  BY DEF U!ACCEPT!ConnectBlind, U!ACCEPT!New
<1>2. AcceptType' /\ Making' /\ Blind' /\ U!OwnedIsQueued'
  BY <1>1 DEF AcceptType, Making, Blind, U!OwnedIsQueued, U!vars
<1> QED
  BY <1>1, <1>2 DEF Own

\* connect(): what was early stays early.
LEMMA StepConnect ==
    ASSUME U!AcceptConstants, UdpInv, U!ACCEPT!Connect, UNCHANGED U!vars
    PROVE  UdpInv'
<1> USE DEF UdpInv
<1> DEFINE n == Len(socks)
           new == [peer |-> sa[1], queue |-> socks[n].queue]
<1>1. /\ acceptAt = "connect" /\ sa # <<>> /\ acceptAt' = "loop" /\ sa' = <<>>
      /\ socks' = [socks EXCEPT ![n] = [socks[n] EXCEPT !.peer = sa[1]]]
      /\ UNCHANGED <<listenq, sends, blind>>
  BY DEF U!ACCEPT!Connect, U!ACCEPT!New, U!ACCEPT!From
<1>2. /\ socks \in Seq(Sock) /\ n \in Nat \ {0} /\ DOMAIN socks = 1 .. n
      /\ n \in DOMAIN socks /\ socks[n] \in Sock /\ socks[n].peer = Anyone
  BY <1>1 DEF AcceptType, Making
<1>3. sa \in Dgrams /\ sa[1] \in Clients /\ sa[1] # Anyone
  BY <1>1 DEF AcceptType, Dgrams
<1>4. \A r : r = [socks[n] EXCEPT !.peer = sa[1]] => r = new
  BY <1>2, <1>3, Connected
<1>5. new \in Sock /\ new.peer = sa[1] /\ new.queue = socks[n].queue
  BY <1>2, <1>3 DEF Sock
<1>6. \A i \in DOMAIN socks[n].queue : socks[n].queue[i].early
  BY <1>2 DEF Own
<1>7. Own(new)
  BY <1>5, <1>6 DEF Own
<1> HIDE DEF new, n
<1>8. /\ socks' \in Seq(Sock) /\ DOMAIN socks' = DOMAIN socks
      /\ \A s \in DOMAIN socks : socks'[s] = IF s = n THEN new ELSE socks[s]
  <2>1. socks' = [socks EXCEPT ![n] = new]
    BY <1>1, <1>4, Zenon DEF n
  <2> QED
    BY <1>2, <1>5, <2>1
<1>9. AcceptType'
  BY <1>1, <1>8 DEF AcceptType
<1>10. Making' /\ U!OwnedIsQueued'
  BY <1>1 DEF Making, U!OwnedIsQueued, U!vars
<1>11. Blind'
  <2> SUFFICES ASSUME NEW s \in DOMAIN socks', socks'[s].peer = Anyone
               PROVE  s \in blind
    BY <1>1 DEF Blind
  <2>1. s # n /\ s \in DOMAIN socks /\ socks[s].peer = Anyone
    BY <1>3, <1>5, <1>8
  <2> QED
    BY <2>1 DEF Blind, n
<1>12. \A s \in DOMAIN socks' : Own(socks'[s])
  BY <1>7, <1>8
<1> QED
  BY <1>9, <1>10, <1>11, <1>12 DEF Own

\* A worker reads from a socket, or closes it.
LEMMA StepWorker ==
    ASSUME U!AcceptConstants, UdpInv, NEW s \in DOMAIN socks, U!ACCEPT!Read(s) \/ U!ACCEPT!Close(s),
           UNCHANGED U!vars
    PROVE  UdpInv'
<1> USE DEF UdpInv
<1>1. /\ ~(acceptAt = "connect" /\ s = Len(socks))
      /\ UNCHANGED <<acceptAt, sa, listenq, sends, blind>>
  BY DEF U!ACCEPT!Read, U!ACCEPT!Close, U!ACCEPT!Handed, U!ACCEPT!New
<1>2. /\ socks \in Seq(Sock) /\ socks[s] \in Sock /\ DOMAIN socks = 1 .. Len(socks)
      /\ Len(socks) \in Nat
  BY DEF AcceptType
<1>3. \E x \in Sock : /\ socks' = [socks EXCEPT ![s] = x] /\ Own(x)
                      /\ x.peer = Anyone => socks[s].peer = Anyone
  <2>1. CASE U!ACCEPT!Close(s)
    <3> DEFINE x == [peer |-> Closed, queue |-> <<>>]
    <3>1. x \in Sock /\ Own(x) /\ x.peer # Anyone
      BY DEF Sock, Own
    <3>2. socks' = [socks EXCEPT ![s] = x]
      BY <2>1 DEF U!ACCEPT!Close
    <3> QED
      BY <3>1, <3>2, Zenon
  <2>2. CASE U!ACCEPT!Read(s)
    <3> DEFINE q == socks[s].queue
               x == [peer |-> socks[s].peer, queue |-> Tail(q)]
    <3>1. q \in Seq(Item) /\ q # <<>>
      BY <1>2, <2>2 DEF Sock, U!ACCEPT!Read
    <3>2. Tail(q) \in Seq(Item)
      BY <3>1
    <3>3. \A r : r = [socks[s] EXCEPT !.queue = Tail(q)] => r = x
      BY <1>2, <3>2, Queued, Zenon
    <3>4. socks' = [socks EXCEPT ![s] = [socks[s] EXCEPT !.queue = Tail(q)]]
      BY <2>2 DEF U!ACCEPT!Read
    <3>5. x \in Sock /\ Own(x) /\ x.peer = socks[s].peer
      BY <1>2, <3>1, TailOwn, Zenon
    <3> HIDE DEF x
    <3> QED
      BY <3>3, <3>4, <3>5, Zenon
  <2> QED
    BY <2>1, <2>2
<1> PICK x \in Sock : /\ socks' = [socks EXCEPT ![s] = x] /\ Own(x)
                      /\ x.peer = Anyone => socks[s].peer = Anyone
  BY <1>3, Zenon
<1>4. /\ socks' \in Seq(Sock) /\ DOMAIN socks' = DOMAIN socks
      /\ Len(socks') = Len(socks)
      /\ \A t \in DOMAIN socks : socks'[t] = IF t = s THEN x ELSE socks[t]
  BY <1>2
<1>5. AcceptType'
  BY <1>1, <1>4 DEF AcceptType
<1>6. Making' /\ U!OwnedIsQueued'
  BY <1>1, <1>2, <1>4 DEF Making, U!OwnedIsQueued, U!vars
<1>7. Blind'
  BY <1>1, <1>4 DEF Blind
<1>8. \A t \in DOMAIN socks' : Own(socks'[t])
  BY <1>4
<1> QED
  BY <1>5, <1>6, <1>7, <1>8 DEF Own

\* Every step keeps the invariant of UDP.
LEMMA UdpNext == ASSUME U!AcceptConstants PROVE UdpInv /\ [U!MCNext]_U!all => UdpInv'
<1> SUFFICES ASSUME UdpInv, [U!MCNext]_U!all PROVE UdpInv'
  OBVIOUS
<1>1. CASE UNCHANGED U!vars /\ U!ACCEPT!Next
  BY <1>1, StepSend, StepNoSocket, StepCreateBind, StepConnect, StepConnectBlind,
     StepWorker
  DEF U!ACCEPT!Next, U!ACCEPT!AcceptNewConn
<1>2. CASE UNCHANGED U!accept /\ [U!Next]_U!vars
  <2>1. U!OwnedIsQueued'
    BY <1>2, OwnedNext DEF UdpInv
  <2> QED
    BY <1>2, <2>1 DEF UdpInv, AcceptType, Making, Blind, Own, U!accept
<1> QED
  BY <1>1, <1>2 DEF U!MCNext, U!all

\* Whatever clients send and wherever connect() fails, the datagrams in a
\* connected socket are its client's but for the early ones, an unconnected
\* socket comes from a failed call, and the connection owns exactly the answers it
\* has queued.
THEOREM Safety_OwnClient == ASSUME U!AcceptConstants PROVE U!MCSpec => []U!OwnClient
BY UdpInit, UdpNext, UdpImplied, PTL DEF U!MCSpec

=============================================================================
