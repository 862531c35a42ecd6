------------------------------ MODULE RateLimit ------------------------------
(***************************************************************************)
(* The sliding-window rate limiter of internal/server: every create, join  *)
(* and wait request is stamped in the bucket of its source (an IPv4        *)
(* address, an IPv6 /64) and, for IPv6, in the bucket of its /48 site,     *)
(* whose budget is v6SiteFactor times larger.                              *)
(*                                                                         *)
(* A bucket is its slice of stamps.  The clock is read under the server's  *)
(* lock, so the slice is always in the order of time, and the stamps that  *)
(* have aged out are the first ones of it.                                 *)
(***************************************************************************)
EXTENDS Integers, Sequences, FiniteSets

CONSTANTS
    Hosts,                 \* the client addresses (clientIP)
    RateKeys,              \* what a host is limited by: a v4 /32 or a v6 /64
    Sites,                 \* the v6 /48 prefixes
    NoSite,                \* the site of an IPv4 host
    RateKey,               \* rateLimitKey: Hosts -> RateKeys
    Site,                  \* v6SiteKey: Hosts -> Sites \cup {NoSite}
    MaxNewSessionsPerMin,  \* 0 = unlimited
    v6SiteFactor,
    Minute,                \* the window, in ticks
    MaxTime                \* bound on the clock

ASSUME RateAssumption ==
    /\ RateKey \in [Hosts -> RateKeys]
    /\ Site \in [Hosts -> Sites \cup {NoSite}]
    /\ NoSite \notin RateKeys \cup Sites
    /\ RateKeys \cap Sites = {}
    /\ MaxNewSessionsPerMin \in Nat
    /\ v6SiteFactor \in Nat \ {0}
    /\ Minute \in Nat \ {0}
    /\ MaxTime \in Nat

VARIABLES
    now,       \* the clock time.Now reads
    ipBucket   \* the stamps of every bucket; an absent bucket is an empty one

rateVars == <<now, ipBucket>>

Times == 0..MaxTime
Bucket == Seq(Times)
EmptyBucket == <<>>
BucketKeys == RateKeys \cup Sites

RateTypeOK ==
    /\ now \in Times
    /\ ipBucket \in [BucketKeys -> Bucket]

RateInit ==
    /\ now = 0
    /\ ipBucket = [b \in BucketKeys |-> EmptyBucket]

-----------------------------------------------------------------------------
\* How many stamps have aged out of the window that ends now.
Old(b) == Cardinality({i \in DOMAIN b : b[i] <= now - Minute})

\* The stamps that are still inside it.
Recent(b) == SubSeq(b, Old(b) + 1, Len(b))

\* (b *rateBucket) allow: the verdict, and the bucket it leaves behind. A
\* refused request prunes the bucket and leaves no stamp.
allowInclusive(b, limit) == Len(Recent(b)) <= limit   \* mutant: one too many
allow(b, limit) == Len(Recent(b)) < limit
Stamped(b, limit) == IF allow(b, limit) THEN Append(Recent(b), now) ELSE Recent(b)

HostAllows(h) == allow(ipBucket[RateKey[h]], MaxNewSessionsPerMin)
SiteAllowsAll(h) == TRUE   \* mutant: the site's budget is not looked at
SiteAllows(h) ==
    Site[h] # NoSite => allow(ipBucket[Site[h]], MaxNewSessionsPerMin * v6SiteFactor)

\* allowNewSession's verdict.
allowNewSession(h) == MaxNewSessionsPerMin > 0 => HostAllows(h) /\ SiteAllows(h)

\* What allowNewSession does to the buckets: the host's bucket is stamped
\* first, and its site's only when the host's bucket let the request through.
ChargeRate(h) ==
    ipBucket' =
        IF MaxNewSessionsPerMin = 0 THEN ipBucket
        ELSE [b \in BucketKeys |->
                CASE b = RateKey[h] -> Stamped(ipBucket[b], MaxNewSessionsPerMin)
                  [] b = Site[h] /\ HostAllows(h) ->
                        Stamped(ipBucket[b], MaxNewSessionsPerMin * v6SiteFactor)
                  [] OTHER -> ipBucket[b]]

\* The janitor's part of evict: stamps that have aged out are dropped, and a
\* bucket without stamps with them.
SweepBuckets == ipBucket' = [b \in BucketKeys |-> Recent(ipBucket[b])]

=============================================================================
