----------------------------- MODULE MCSignaling -----------------------------
(* Instances of Signaling for TLC. *)
EXTENDS Signaling, TLC

CONSTANTS h1, h2, k1, k2

\* Two hosts with IPv4 addresses of their own.
OneKeyEach == h1 :> k1 @@ h2 :> k2
V4Only == h1 :> NoSite @@ h2 :> NoSite
=============================================================================
