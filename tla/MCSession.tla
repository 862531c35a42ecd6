----------------------------- MODULE MCSession -----------------------------
(* Small instances of module Session for TLC. *)
EXTENDS Session
=============================================================================
