--------------------------- MODULE MCTcpConnection --------------------------
(* TcpConnection with one other thread.                                    *)
EXTENDS TcpConnection
=============================================================================
