------------------------------- MODULE MCLink -------------------------------
(* The link on one session: few candidates, one NAT rebinding, few faults. *)
EXTENDS Link
=============================================================================
