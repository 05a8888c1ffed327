----------------------------- MODULE MCLogAsync -----------------------------
(* Instances of LogAsync for TLC. *)
EXTENDS LogAsync, TLC
=============================================================================
