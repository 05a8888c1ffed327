---------------------------- MODULE MCTcpClient -----------------------------
(* TcpClient with attempts enough to stop, connect and reconnect in a row. *)
EXTENDS TcpClient
=============================================================================
