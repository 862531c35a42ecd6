------------------------------ MODULE MCPairing ------------------------------
(* Small instances of the pairing of a sender and its receivers. *)
EXTENDS Pairing, TLC
CONSTANTS d1, d2
Symmetric == Permutations(Devices)
=============================================================================
