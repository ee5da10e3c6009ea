------------------------------ MODULE MCAsyncLog ------------------------------
(* AsyncLog for TLC: two threads that log, records for every file.         *)
EXTENDS AsyncLog

CONSTANTS t1, t2

MCThreads == {t1, t2}
=============================================================================
