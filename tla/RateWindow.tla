----------------------------- MODULE RateWindow -----------------------------
(***************************************************************************)
(* The rate limiter on its own, with the history of the requests it let    *)
(* through, so that what it promises can be stated over any window of      *)
(* time, and not only over the stamps it happens to keep.                  *)
(***************************************************************************)
EXTENDS RateLimit

VARIABLE admitted   \* per bucket, the times of the requests let through

wvars == <<rateVars, admitted>>

\* A request of h: create, join and wait all start with allowNewSession.
Request(h) ==
    /\ ChargeRate(h)
    /\ admitted' = [b \in BucketKeys |->
                      IF b \in {RateKey[h], Site[h]} /\ allowNewSession(h)
                      THEN Append(admitted[b], now) ELSE admitted[b]]
    /\ UNCHANGED now

Sweep == SweepBuckets /\ UNCHANGED <<now, admitted>>

Advance ==
    /\ now < MaxTime
    /\ now' = now + 1
    /\ UNCHANGED <<ipBucket, admitted>>

WInit == RateInit /\ admitted = [b \in BucketKeys |-> EmptyBucket]
WNext == (\E h \in Hosts : Request(h)) \/ Sweep \/ Advance
WSpec == WInit /\ [][WNext]_wvars

-----------------------------------------------------------------------------
\* What bucket b let through in the Minute that ends at t.
InWindow(b, t) ==
    Cardinality({i \in DOMAIN admitted[b] :
                    t - Minute < admitted[b][i] /\ admitted[b][i] <= t})

\* In any minute, however requests, sweeps and refusals fall, a source address
\* gets at most MaxNewSessionsPerMin requests through (rateBucket.allow prunes
\* as it counts, and so does the janitor), and the /64s of one IPv6 site
\* together at most v6SiteFactor times as many.
WithinWindow ==
    MaxNewSessionsPerMin > 0 => \A t \in Times :
        /\ \A k \in RateKeys : InWindow(k, t) <= MaxNewSessionsPerMin
        /\ \A b \in Sites : InWindow(b, t) <= MaxNewSessionsPerMin * v6SiteFactor
=============================================================================
