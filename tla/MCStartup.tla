------------------------------- MODULE MCStartup -------------------------------
(* Instances of Startup for TLC.                                           *)
EXTENDS Startup

Node(key, value) == [key |-> key, value |-> value]

\* worker_num 0 and " +3", server_type 1 and 9, bind_cpu "No", bind_cpu yes and a word
\* behind it, bind_cpu yess, ip "1" in quotes, port 65537x, tick 1ms, tick without
\* an argument and with open quotes, max_io_buffer_size 2kb, a key no command has
\* with and without open quotes, and a node without a value.
MCNodes ==
    {Node("worker_num", <<48>>), Node("worker_num", <<34, 32, 43, 51, 34>>),
     Node("server_type", <<49>>), Node("server_type", <<57>>),
     Node("bind_cpu", <<34, 78, 111, 34>>), Node("bind_cpu", <<121, 101, 115, 32, 120>>),
     Node("bind_cpu", <<121, 101, 115, 115>>), Node("ip", <<34, 49, 34>>),
     Node("port", <<54, 53, 53, 51, 55, 120>>), Node("tick", <<49, 109, 115>>),
     Node("tick", <<>>), Node("tick", <<34, 49>>),
     Node("max_io_buffer_size", <<50, 107, 98>>),
     Node("other", <<49>>), Node("other", <<34, 49>>), Node("ip", Null)}

\* The options of the demos.
MCGiven == {[Defaults EXCEPT !.port = 8888, !.worker_num = 2]}
=============================================================================
