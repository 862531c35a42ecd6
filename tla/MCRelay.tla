------------------------------- MODULE MCRelay -------------------------------
(* Instances of RelayServer for TLC. *)
EXTENDS RelayServer, TLC

HandlerSymmetry == Permutations(Handlers)
=============================================================================
