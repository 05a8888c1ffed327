------------------------- MODULE MCEventLoopThread --------------------------
(* EventLoopThread with an owner and one more thread that uses the loop.   *)
EXTENDS EventLoopThread
=============================================================================
