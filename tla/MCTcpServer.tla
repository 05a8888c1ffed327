---------------------------- MODULE MCTcpServer -----------------------------
(* TcpServer with a few io threads, connections and descriptors.           *)
EXTENDS TcpServer
=============================================================================
