------------------------------- MODULE MCRpc --------------------------------
(* Rpc with two callers, and with requests that succeed, that the server   *)
(* answers with an error, that are too long and that do not parse.         *)
EXTENDS Rpc
=============================================================================
