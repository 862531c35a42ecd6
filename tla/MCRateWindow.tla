---------------------------- MODULE MCRateWindow ----------------------------
(* An IPv4 host and three hosts of one IPv6 site, two of them in one /64. *)
EXTENDS RateWindow, TLC

CONSTANTS v4, a1, a2, a3, k4, ka, kb, site

FourHosts == v4 :> k4 @@ a1 :> ka @@ a2 :> ka @@ a3 :> kb
OneSite == v4 :> NoSite @@ a1 :> site @@ a2 :> site @@ a3 :> site
=============================================================================
