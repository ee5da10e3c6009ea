--------------------------------- MODULE Config ---------------------------------
(***************************************************************************)
(* The options of a GenericServer (server/server.cpp) and the file they    *)
(* are loaded from (util/config_file.cpp).  The file is what the external  *)
(* parser makes of it: a list of nodes with a key and a value, each of     *)
(* which may be NULL.  A key stands for its spellings in upper and lower   *)
(* case.                                                                   *)
(***************************************************************************)
EXTENDS Numbers, SdsText, FiniteSets

CONSTANTS
    Nodes,              \* the nodes a file may have
    MaxNodes,           \* bound: nodes of a file
    Given,              \* options a program may pass to init_conf()
    DefaultWorkerNum,   \* worker_num of GenericServerOptions()
    Null                \* a pointer that is NULL

VARIABLES
    stage,      \* "start", "conf", "load", "loaded", "error" or "crash"
    options,    \* _options
    base,       \* history: _options before the file was loaded
    file,       \* the nodes of the file
    parsed      \* how many of them parse_conf() has returned CONFIG_OK for

conf == <<stage, options, base, file, parsed>>

-----------------------------------------------------------------------------
(* server_cmd_table and the functions that set a slot.                     *)

Handler == [ip |-> "str", port |-> "num", worker_num |-> "num", bind_cpu |-> "flag",
            server_type |-> "num", connection_timeout |-> "usec", tick |-> "usec",
            max_io_buffer_size |-> "mem", max_reply_list_size |-> "num"]

G_SERVER_TCP == 0
G_SERVER_UDP == 1

Defaults == [ip |-> Null, port |-> 0, worker_num |-> DefaultWorkerNum, bind_cpu |-> 1,
             server_type |-> G_SERVER_TCP, connection_timeout |-> 60 * 1000 * 1000,
             tick |-> 1000, max_io_buffer_size |-> 10 * 1024 * 1024,
             max_reply_list_size |-> 1024]

YES == <<121, 101, 115>>
NO  == <<110, 111>>
AnyAddress == <<48, 46, 48, 46, 48, 46, 48>>

\* atoi() of a short text: blanks, a sign or not, and the digits in front of
\* anything else.
Atoi(s) ==
    LET blanks == CHOOSE n \in 0 .. Len(s) :
                      ~IsSpace(At(s, n + 1)) /\ \A i \in 1 .. n : IsSpace(s[i])
        sign == At(s, blanks + 1)
        from == IF sign \in {MINUS, PLUS} THEN blanks + 2 ELSE blanks + 1
        n == CHOOSE n \in from - 1 .. Len(s) :
                 ~IsDigit(At(s, n + 1)) /\ \A i \in from .. n : IsDigit(s[i])
        v == Strtoll(SubSeq(s, from, n))
    IN  IF sign = MINUS THEN -v ELSE v

\* What strcasecmp() compares.
Word(text) == [i \in DOMAIN text |-> Lower(text[i])]

\* Mutant: conf_set_flag_slot() takes anything but "yes" for "no".
FlagLoose(text) == Parsed(IF Word(text) = YES THEN 1 ELSE 0)

\* conf_set_flag_slot()
Flag(text) ==
    CASE Word(text) = YES -> Parsed(1)
      [] Word(text) = NO  -> Parsed(0)
      [] Word(text) \notin {YES, NO} -> Failed

\* The value of a slot from the first argument; a unit that is not known is not
\* an error here.
Slot(handler, text) ==
    CASE handler = "flag" -> Flag(text)
      [] handler = "usec" -> Parsed(Timetoll(text).value)
      [] handler = "mem"  -> Parsed(Memtoll(text).value)
      [] handler = "num"  -> Parsed(Atoi(text))
      [] handler = "str"  -> Parsed(text)

\* What the field of the option keeps: port has 16 bits.
Stored(key, value) == IF key = "port" THEN value % 2 ^ 16 ELSE value

\* The handler of a command; after a syntax error argc is -1.
Handle(key, args) ==
    IF ~args.ok \/ Len(args.argv) < 1 THEN [does |-> "error"]
    ELSE LET r == Slot(Handler[key], CString(args.argv[1]))
         IN  IF r.ok THEN [does |-> "set", value |-> Stored(key, r.value)]
             ELSE [does |-> "error"]

\* parse_conf().  The arguments of a key that no command has are freed, and after
\* a syntax error the loop that does so starts at -1.
Parse(node) ==
    IF node.key = Null \/ node.value = Null THEN [does |-> "error"]
    ELSE LET args == SdsSplitArgs(node.value)
         IN  IF node.key \in DOMAIN Handler THEN Handle(node.key, args)
             ELSE [does |-> IF args.ok THEN "skip" ELSE "crash"]

\* GenericServerOptions is a struct: it has all of the options.
ASSUME ConfConstants ==
    \A o \in Given : o = [k \in DOMAIN Handler |-> o[k]]

-----------------------------------------------------------------------------
ConfInit ==
    /\ stage = "start"
    /\ options = Defaults /\ base = Defaults
    /\ file \in UNION {[1 .. n -> Nodes] : n \in 0 .. MaxNodes}
    /\ parsed = 0

\* init_conf() and init_conf(o).
InitConf ==
    /\ stage = "start"
    /\ \/ options' = Defaults
       \/ \E o \in Given :
             options' = IF o.ip = Null THEN [o EXCEPT !.ip = AnyAddress] ELSE o
    /\ base' = options'
    /\ stage' = "conf"
    /\ UNCHANGED <<file, parsed>>

\* load_conf(): a file that cannot be read, or has no node, is an error.
LoadConf ==
    /\ stage = "conf"
    /\ stage' \in {"error"} \cup (IF file = <<>> THEN {} ELSE {"load"})
    /\ UNCHANGED <<options, base, file, parsed>>

\* One node of load_conf_file(): what was set before an error stays set.
ParseConf ==
    /\ stage = "load" /\ parsed < Len(file)
    /\ \E r \in {Parse(file[parsed + 1])} :
          /\ options' = IF r.does = "set"
                        THEN [options EXCEPT ![file[parsed + 1].key] = r.value]
                        ELSE options
          /\ IF r.does \in {"set", "skip"}
             THEN parsed' = parsed + 1 /\ UNCHANGED stage
             ELSE stage' = r.does /\ UNCHANGED parsed
    /\ UNCHANGED <<base, file>>

LoadReturns ==
    /\ stage = "load" /\ parsed = Len(file)
    /\ stage' = "loaded"
    /\ UNCHANGED <<options, base, file, parsed>>

ConfNext == InitConf \/ LoadConf \/ ParseConf \/ LoadReturns

\* The program has its options, from a file or not, and goes on.
Configured == stage \in {"conf", "loaded"}

-----------------------------------------------------------------------------
\* A server runs with what its file says (config_file.cpp:53, server.cpp:105): every
\* option has the value of the last node for it, or the one it had before, and
\* every node for an option had an argument, which for a flag was yes or no.  After
\* an error the nodes in front of the bad one, and only they, have been applied.
ConfLoaded ==
    /\ \A k \in DOMAIN Handler :
          \E ns \in {{i \in 1 .. parsed : file[i].key = k}} :
              IF ns = {} THEN options[k] = base[k]
              ELSE \E n \in ns :
                     /\ \A i \in ns : i <= n
                     /\ Parse(file[n]) = [does |-> "set", value |-> options[k]]
    /\ stage = "loaded" =>
          /\ parsed = Len(file) /\ parsed > 0
          /\ \A i \in 1 .. parsed :
                file[i].key \in DOMAIN Handler =>
                    \E argv \in {SdsSplitArgs(file[i].value).argv} :
                        /\ argv # <<>>
                        /\ Handler[file[i].key] = "flag" =>
                              Word(CString(argv[1])) \in {YES, NO}
=============================================================================
