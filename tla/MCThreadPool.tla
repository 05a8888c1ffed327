---------------------------- MODULE MCThreadPool ----------------------------
(* ThreadPool with none, one or two threads.  A queue of one place fills   *)
(* and drains within three tasks.                                          *)
EXTENDS ThreadPool
=============================================================================
