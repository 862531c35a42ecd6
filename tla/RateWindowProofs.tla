-------------------------- MODULE RateWindowProofs --------------------------
(***************************************************************************)
(* WithinWindow, for any hosts, sites and limits, and any number of        *)
(* requests.  The limiter keeps only the stamps of the last minute and     *)
(* decides by their number alone, so the invariant says what those stamps  *)
(* tell about the history of admissions: counted from the newest, the      *)
(* k-th admission of the last minute has a k-th stamp that is no older     *)
(* (Covers), and an admission and the one L later are a minute apart       *)
(* (Spaced), L being the bucket's budget.                                  *)
(***************************************************************************)
EXTENDS RateWindow, NaturalsInduction, WellFoundedInduction, FiniteSetTheorems,
        TLAPS

\* The budget of a bucket: a site's is v6SiteFactor times a source's.
Budget(b) == IF b \in RateKeys THEN MaxNewSessionsPerMin
             ELSE MaxNewSessionsPerMin * v6SiteFactor

\* Times in the order they were taken, none of them later than t.
Ordered(q, t) ==
    /\ q \in Seq(Times)
    /\ \A i, j \in 1..Len(q) : i <= j => q[i] <= q[j]
    /\ \A i \in 1..Len(q) : q[i] <= t

\* What the kept stamps say of the admissions of the minute that ends at t.
Covers(kept, adm, t) ==
    \A k \in 1..Len(adm) : adm[Len(adm) + 1 - k] > t - Minute =>
        /\ k <= Len(kept)
        /\ kept[Len(kept) + 1 - k] >= adm[Len(adm) + 1 - k]

\* An admission and the one that is limit later are a minute apart.
Spaced(adm, limit) ==
    \A i \in 1..Len(adm) : i + limit <= Len(adm) => adm[i + limit] >= adm[i] + Minute

\* A bucket's stamps and its history agree, at time t.
Sound(kept, adm, t, limit) ==
    /\ Ordered(kept, t)
    /\ Ordered(adm, t)
    /\ Covers(kept, adm, t)
    /\ Spaced(adm, limit)

\* The inductive invariant.
WInv ==
    /\ now \in Times
    /\ DOMAIN ipBucket = BucketKeys
    /\ DOMAIN admitted = BucketKeys
    /\ \A b \in BucketKeys : /\ ipBucket[b] \in Seq(Times)
                             /\ admitted[b] \in Seq(Times)
    /\ MaxNewSessionsPerMin > 0 =>
         \A b \in BucketKeys : Sound(ipBucket[b], admitted[b], now, Budget(b))

-----------------------------------------------------------------------------
\* A set of naturals has a least element.
LEMMA LeastElement ==
  ASSUME NEW S \in SUBSET Nat, S # {}
  PROVE  \E m \in S : \A y \in S : m <= y
<1>1. PICK m \in S : \A y \in S : <<y, m>> \notin OpToRel(<, Nat)
  BY WFMin, NatLessThanWellFounded, Zenon
<1>2. \A y \in S : ~(y < m)
  BY <1>1, Zenon DEF OpToRel
<1> QED BY <1>2

\* The elements of an initial segment of a sequence are counted by its length:
\* a set of positions that holds all those before one it holds is an interval.
LEMMA InitialSegment ==
  ASSUME NEW n \in Nat, NEW S \in SUBSET (1..n),
         \A i, j \in 1..n : i <= j /\ j \in S => i \in S
  PROVE  /\ Cardinality(S) \in 0..n
         /\ S = 1..Cardinality(S)
<1> DEFINE T == {i \in Nat : i >= 1 /\ i \notin S}
<1>1. n + 1 \in T
  OBVIOUS
<1>2. PICK m \in T : \A y \in T : m <= y
  <2> HIDE DEF T
  <2>1. T \in SUBSET Nat /\ T # {}
    BY <1>1 DEF T
  <2> QED BY <2>1, LeastElement
<1>3. m \in Nat /\ m >= 1 /\ m <= n + 1 /\ m \notin S
  BY <1>1, <1>2
<1>4. \A i \in 1..(m - 1) : i \in S
  BY <1>2, <1>3
<1>5. \A i \in S : i < m
  BY <1>3
<1>6. S = 1..(m - 1)
  <2> HIDE DEF T
  <2>1. \A i \in S : i \in 1..(m - 1)
    BY <1>3, <1>5
  <2>2. \A i \in 1..(m - 1) : i \in S
    BY <1>4
  <2> QED BY <2>1, <2>2
<1>7. Cardinality(S) = m - 1
  BY <1>3, <1>6, FS_Interval
<1> QED BY <1>3, <1>6, <1>7

\* Old(b) is where the stamps of the current window begin.
LEMMA OldFacts ==
  ASSUME now \in Times, NEW b, Ordered(b, now)
  PROVE  /\ Old(b) \in 0..Len(b)
         /\ \A i \in 1..Len(b) : b[i] <= now - Minute <=> i <= Old(b)
<1> DEFINE S == {i \in DOMAIN b : b[i] <= now - Minute}
<1>1. b \in Seq(Times) /\ Len(b) \in Nat /\ DOMAIN b = 1..Len(b)
  BY DEF Ordered
<1>2. now \in Int /\ Minute \in Int /\ \A i \in 1..Len(b) : b[i] \in Int
  BY <1>1, RateAssumption DEF Times
<1>3. \A i, j \in 1..Len(b) : i <= j /\ j \in S => i \in S
  BY <1>1, <1>2 DEF Ordered
<1>4. /\ Cardinality(S) \in 0..Len(b)
      /\ S = 1..Cardinality(S)
  <2> HIDE DEF S
  <2>1. S \in SUBSET (1..Len(b))
    BY <1>1 DEF S
  <2> QED BY <1>1, <1>3, <2>1, InitialSegment
<1>5. Old(b) = Cardinality(S)
  BY DEF Old
<1>6. \A i \in 1..Len(b) : b[i] <= now - Minute <=> i \in S
  BY <1>1
<1> HIDE DEF S
<1> QED BY <1>1, <1>4, <1>5, <1>6

\* What rateBucket.allow keeps: the end of the slice, in order and recent.
LEMMA RecentFacts ==
  ASSUME now \in Times, NEW b, Ordered(b, now)
  PROVE  /\ Recent(b) \in Seq(Times)
         /\ Len(Recent(b)) = Len(b) - Old(b)
         /\ \A i \in 1..Len(Recent(b)) : Recent(b)[i] = b[Old(b) + i]
         /\ Ordered(Recent(b), now)
<1>1. b \in Seq(Times) /\ Len(b) \in Nat /\ Old(b) \in 0..Len(b)
  BY OldFacts DEF Ordered
<1>2. /\ Recent(b) \in Seq(Times)
      /\ Len(Recent(b)) = Len(b) - Old(b)
      /\ \A i \in 1..Len(Recent(b)) : Recent(b)[i] = b[Old(b) + i]
  BY <1>1 DEF Recent
<1>3. Ordered(Recent(b), now)
  <2> DEFINE R == Recent(b)
             o == Old(b)
  <2>1. \A i \in 1..Len(R) : i + o \in 1..Len(b) /\ R[i] = b[o + i] /\ o + i \in 1..Len(b)
    BY <1>1, <1>2
  <2>2. R \in Seq(Times) /\ Len(R) \in Nat /\ o \in Nat
    BY <1>1, <1>2
  <2> HIDE DEF R, o
  <2>3. \A i \in 1..Len(R) : R[i] <= now
    BY <2>1 DEF Ordered
  <2>4. \A i, j \in 1..Len(R) : i <= j => R[i] <= R[j]
    BY <2>1, <2>2 DEF Ordered
  <2>5. Ordered(R, now)
    BY <2>2, <2>3, <2>4 DEF Ordered
  <2> QED BY <2>5 DEF R
<1> QED BY <1>2, <1>3

\* Pruning forgets nothing that still counts.
LEMMA RecentCovers ==
  ASSUME now \in Times, NEW b, NEW adm, Ordered(b, now), Ordered(adm, now),
         Covers(b, adm, now)
  PROVE  Covers(Recent(b), adm, now)
<1> DEFINE R == Recent(b)
<1>1. /\ b \in Seq(Times) /\ Len(b) \in Nat /\ Old(b) \in 0..Len(b)
      /\ adm \in Seq(Times) /\ Len(adm) \in Nat
  BY OldFacts DEF Ordered
<1>2. now \in Int /\ Minute \in Int /\ (\A i \in 1..Len(b) : b[i] \in Int)
      /\ \A i \in 1..Len(adm) : adm[i] \in Int
  BY <1>1, RateAssumption DEF Times
<1>3. Len(R) = Len(b) - Old(b) /\ \A i \in 1..Len(R) : R[i] = b[Old(b) + i]
  BY RecentFacts
<1> HIDE DEF R
<1>4. ASSUME NEW k \in 1..Len(adm), adm[Len(adm) + 1 - k] > now - Minute
      PROVE  k <= Len(R) /\ R[Len(R) + 1 - k] >= adm[Len(adm) + 1 - k]
  <2>1. k <= Len(b) /\ b[Len(b) + 1 - k] >= adm[Len(adm) + 1 - k]
    BY <1>4 DEF Covers
  <2>2. Len(b) + 1 - k \in 1..Len(b) /\ Len(adm) + 1 - k \in 1..Len(adm)
    BY <1>1, <2>1
  <2>3. ~(b[Len(b) + 1 - k] <= now - Minute)
    <3>1. \A x, y, z \in Int : y > z /\ x >= y => ~(x <= z)
      OBVIOUS
    <3>2. b[Len(b) + 1 - k] \in Int /\ adm[Len(adm) + 1 - k] \in Int /\ now - Minute \in Int
      BY <1>2, <2>2
    <3> QED BY <1>4, <2>1, <3>1, <3>2
  <2>4. ~(Len(b) + 1 - k <= Old(b))
    BY <2>2, <2>3, OldFacts
  <2>5. k <= Len(R) /\ Len(R) + 1 - k \in 1..Len(R)
        /\ Old(b) + (Len(R) + 1 - k) = Len(b) + 1 - k
    BY <1>1, <1>3, <2>1, <2>4
  <2> QED BY <1>3, <2>1, <2>5
<1> QED BY <1>4 DEF Covers, R

\* A stamp at the end of a slice, or an admission at the end of a history.
LEMMA AppendOrdered ==
  ASSUME NEW t \in Times, NEW q, Ordered(q, t)
  PROVE  /\ Ordered(Append(q, t), t)
         /\ Len(Append(q, t)) = Len(q) + 1
         /\ Append(q, t)[Len(q) + 1] = t
         /\ \A i \in 1..Len(q) : Append(q, t)[i] = q[i]
<1>1. q \in Seq(Times) /\ Len(q) \in Nat /\ t \in Int
      /\ \A i \in 1..Len(q) : q[i] \in Int
  BY RateAssumption DEF Ordered, Times
<1>2. /\ Append(q, t) \in Seq(Times)
      /\ Len(Append(q, t)) = Len(q) + 1
      /\ Append(q, t)[Len(q) + 1] = t
      /\ \A i \in 1..Len(q) : Append(q, t)[i] = q[i]
  BY <1>1
<1>3. \A i \in 1..(Len(q) + 1) : Append(q, t)[i] <= t
  BY <1>1, <1>2 DEF Ordered
<1>4. \A i, j \in 1..(Len(q) + 1) : i <= j => Append(q, t)[i] <= Append(q, t)[j]
  BY <1>1, <1>2, <1>3 DEF Ordered
<1> QED BY <1>2, <1>3, <1>4 DEF Ordered

\* A stamp that admits nothing: the host's bucket lets a request through that
\* its site's bucket then refuses (allowNewSession stamps the host first).
LEMMA StampCovers ==
  ASSUME NEW t \in Times, NEW kept, NEW adm, Ordered(kept, t), Ordered(adm, t),
         Covers(kept, adm, t)
  PROVE  Covers(Append(kept, t), adm, t)
<1> DEFINE K == Append(kept, t)
<1>1. /\ Len(kept) \in Nat /\ Len(adm) \in Nat /\ t \in Int
      /\ (\A i \in 1..Len(kept) : kept[i] \in Int)
      /\ \A i \in 1..Len(adm) : adm[i] \in Int
  BY RateAssumption DEF Ordered, Times
<1>2. /\ Len(K) = Len(kept) + 1 /\ K[Len(kept) + 1] = t
      /\ \A i \in 1..Len(kept) : K[i] = kept[i]
  BY AppendOrdered
<1> HIDE DEF K
<1>3. ASSUME NEW k \in 1..Len(adm), adm[Len(adm) + 1 - k] > t - Minute
      PROVE  k <= Len(K) /\ K[Len(K) + 1 - k] >= adm[Len(adm) + 1 - k]
  <2>1. k <= Len(kept) /\ kept[Len(kept) + 1 - k] >= adm[Len(adm) + 1 - k]
    BY <1>3 DEF Covers
  <2>2. Len(adm) + 1 - k \in 1..Len(adm) /\ Len(kept) + 1 - k \in 1..Len(kept)
    BY <1>1, <2>1
  <2>3. CASE k = 1
    BY <1>1, <1>2, <2>1, <2>2, <2>3 DEF Ordered
  <2>4. CASE k # 1
    <3>1. Len(kept) + 2 - k \in 1..Len(kept)
      BY <1>1, <2>1, <2>4
    <3>2. kept[Len(kept) + 2 - k] >= kept[Len(kept) + 1 - k]
      BY <1>1, <2>2, <3>1 DEF Ordered
    <3>3. K[Len(K) + 1 - k] = kept[Len(kept) + 2 - k]
      BY <1>1, <1>2, <3>1
    <3> QED BY <1>1, <1>2, <2>1, <2>2, <3>1, <3>2, <3>3
  <2> QED BY <2>3, <2>4
<1> QED BY <1>3 DEF Covers, K

\* A stamp that admits: the two grow together, and the budget was not spent, so
\* the admission limit places back has aged out.
LEMMA AdmitSound ==
  ASSUME NEW t \in Times, NEW kept, NEW adm, NEW limit \in Nat \ {0},
         Sound(kept, adm, t, limit), Len(kept) < limit
  PROVE  Sound(Append(kept, t), Append(adm, t), t, limit)
<1> DEFINE K == Append(kept, t)
           A == Append(adm, t)
<1>0. Ordered(kept, t) /\ Ordered(adm, t) /\ Covers(kept, adm, t) /\ Spaced(adm, limit)
  BY DEF Sound
<1>1. /\ Len(kept) \in Nat /\ Len(adm) \in Nat /\ t \in Int /\ Minute \in Int
      /\ (\A i \in 1..Len(kept) : kept[i] \in Int)
      /\ \A i \in 1..Len(adm) : adm[i] \in Int
  BY <1>0, RateAssumption DEF Ordered, Times
<1>2. /\ Len(K) = Len(kept) + 1 /\ K[Len(kept) + 1] = t
      /\ (\A i \in 1..Len(kept) : K[i] = kept[i])
      /\ Ordered(K, t)
  BY <1>0, AppendOrdered
<1>3. /\ Len(A) = Len(adm) + 1 /\ A[Len(adm) + 1] = t
      /\ (\A i \in 1..Len(adm) : A[i] = adm[i])
      /\ Ordered(A, t)
  BY <1>0, AppendOrdered
<1> HIDE DEF K, A
<1>4. ASSUME NEW k \in 1..Len(A), A[Len(A) + 1 - k] > t - Minute
      PROVE  k <= Len(K) /\ K[Len(K) + 1 - k] >= A[Len(A) + 1 - k]
  <2>1. CASE k = 1
    BY <1>1, <1>2, <1>3, <2>1
  <2>2. CASE k # 1
    <3> DEFINE j == k - 1
    <3>1. j \in 1..Len(adm) /\ Len(adm) + 1 - j \in 1..Len(adm)
          /\ Len(A) + 1 - k = Len(adm) + 1 - j
      BY <1>1, <1>3, <2>2
    <3>2. A[Len(A) + 1 - k] = adm[Len(adm) + 1 - j]
      BY <1>3, <3>1
    <3>3. j <= Len(kept) /\ kept[Len(kept) + 1 - j] >= adm[Len(adm) + 1 - j]
      BY <1>0, <1>4, <3>1, <3>2 DEF Covers
    <3>4. k <= Len(K) /\ Len(kept) + 1 - j \in 1..Len(kept)
          /\ Len(K) + 1 - k = Len(kept) + 1 - j
      BY <1>1, <1>2, <2>2, <3>3
    <3> QED BY <1>2, <3>2, <3>3, <3>4
  <2> QED BY <2>1, <2>2
<1>5. ASSUME NEW i \in 1..Len(A), i + limit <= Len(A)
      PROVE  A[i + limit] >= A[i] + Minute
  <2>0. i \in 1..Len(adm) /\ A[i] = adm[i]
    BY <1>1, <1>3, <1>5
  <2>1. CASE i + limit <= Len(adm)
    BY <1>0, <1>1, <1>3, <2>0, <2>1 DEF Spaced
  <2>2. CASE i + limit = Len(adm) + 1
    <3>1. limit \in 1..Len(adm) /\ Len(adm) + 1 - limit = i
      BY <1>1, <2>0, <2>2
    <3>2. ~(adm[Len(adm) + 1 - limit] > t - Minute)
      BY <1>0, <1>1, <3>1 DEF Covers
    <3>3. adm[i] \in Int /\ ~(adm[i] > t - Minute)
      BY <1>1, <2>0, <3>1, <3>2
    <3>4. t >= adm[i] + Minute
      BY <1>1, <3>3
    <3> QED BY <1>3, <2>0, <2>2, <3>4
  <2> QED BY <1>1, <1>3, <1>5, <2>1, <2>2
<1> QED BY <1>2, <1>3, <1>4, <1>5 DEF Sound, Covers, Spaced, K, A

\* What allow leaves, whatever it answered, agrees with the history that the
\* answer leads to.
LEMMA StampedSound ==
  ASSUME now \in Times, NEW kept, NEW adm, NEW limit \in Nat \ {0},
         Sound(kept, adm, now, limit)
  PROVE  /\ Sound(Recent(kept), adm, now, limit)
         /\ Sound(Stamped(kept, limit), adm, now, limit)
         /\ allow(kept, limit) => Sound(Stamped(kept, limit), Append(adm, now), now, limit)
<1>1. Sound(Recent(kept), adm, now, limit)
  BY RecentFacts, RecentCovers DEF Sound
<1>2. ASSUME allow(kept, limit)
      PROVE  /\ Stamped(kept, limit) = Append(Recent(kept), now)
             /\ Sound(Stamped(kept, limit), adm, now, limit)
             /\ Sound(Stamped(kept, limit), Append(adm, now), now, limit)
  <2>1. Stamped(kept, limit) = Append(Recent(kept), now)
    BY <1>2 DEF Stamped
  <2>2. Sound(Append(Recent(kept), now), adm, now, limit)
    BY <1>1, AppendOrdered, StampCovers DEF Sound
  <2>3. Len(Recent(kept)) < limit
    BY <1>2 DEF allow
  <2>4. Sound(Append(Recent(kept), now), Append(adm, now), now, limit)
    BY <1>1, <2>3, AdmitSound
  <2> QED BY <2>1, <2>2, <2>4
<1>3. ~allow(kept, limit) => Stamped(kept, limit) = Recent(kept)
  BY DEF Stamped
<1> QED BY <1>1, <1>2, <1>3

\* A spaced history puts at most limit admissions in any minute.
LEMMA WindowBound ==
  ASSUME NEW t \in Times, NEW u \in Times, NEW adm, NEW limit \in Nat \ {0},
         Ordered(adm, u), Spaced(adm, limit)
  PROVE  Cardinality({i \in DOMAIN adm : t - Minute < adm[i] /\ adm[i] <= t}) <= limit
<1> DEFINE W == {i \in DOMAIN adm : t - Minute < adm[i] /\ adm[i] <= t}
<1>1. /\ DOMAIN adm = 1..Len(adm) /\ Len(adm) \in Nat /\ t \in Int /\ Minute \in Int
      /\ \A i \in 1..Len(adm) : adm[i] \in Int
  BY RateAssumption DEF Ordered, Times
<1>2. CASE W = {}
  BY <1>2, FS_EmptySet
<1>3. CASE W # {}
  <2>1. PICK m \in W : \A y \in W : m <= y
    <3>1. W \in SUBSET Nat
      BY <1>1
    <3> HIDE DEF W
    <3> QED BY <1>3, <3>1, LeastElement
  <2>2. \A i \in W : i >= m
    BY <2>1
  <2>3. \A i \in W : i < m + limit
    <3> SUFFICES ASSUME NEW i \in W, i >= m + limit PROVE FALSE
      BY <1>1, <2>1
    <3>1. m \in 1..Len(adm) /\ i \in 1..Len(adm) /\ m + limit \in 1..Len(adm)
      BY <1>1
    <3>2. adm[m + limit] >= adm[m] + Minute
      BY <3>1, <1>1 DEF Spaced
    <3>3. adm[i] >= adm[m + limit]
      BY <3>1, <1>1 DEF Ordered
    <3> QED BY <1>1, <3>1, <3>2, <3>3
  <2>4. W \subseteq m..(m + limit - 1)
    BY <1>1, <2>2, <2>3
  <2>5. m \in Int /\ m + limit - 1 \in Int /\ m <= m + limit - 1
    BY <1>1
  <2>6. IsFiniteSet(m..(m + limit - 1)) /\ Cardinality(m..(m + limit - 1)) = limit
    BY <2>5, FS_Interval
  <2> HIDE DEF W
  <2>7. Cardinality(W) <= Cardinality(m..(m + limit - 1))
    BY <2>4, <2>6, FS_Subset
  <2> QED BY <2>6, <2>7 DEF W
<1> QED BY <1>2, <1>3

-----------------------------------------------------------------------------
\* A budget is positive when there is one at all.
LEMMA BudgetType ==
  ASSUME MaxNewSessionsPerMin > 0, NEW b \in BucketKeys
  PROVE  Budget(b) \in Nat \ {0}
<1>1. /\ MaxNewSessionsPerMin \in Nat \ {0} /\ v6SiteFactor \in Nat \ {0}
  BY RateAssumption
<1>2. MaxNewSessionsPerMin * v6SiteFactor \in Nat \ {0}
  BY <1>1
<1> QED BY <1>1, <1>2 DEF Budget

\* The empty buckets and histories agree.
LEMMA InitInv == WInit => WInv
<1> SUFFICES ASSUME WInit PROVE WInv
  OBVIOUS
<1>1. now \in Times /\ now = 0
  BY RateAssumption DEF WInit, RateInit, Times
<1>2. /\ DOMAIN ipBucket = BucketKeys /\ DOMAIN admitted = BucketKeys
      /\ \A b \in BucketKeys : ipBucket[b] = <<>> /\ admitted[b] = <<>>
  BY DEF WInit, RateInit, EmptyBucket
<1>3. <<>> \in Seq(Times) /\ Len(<<>>) = 0
  OBVIOUS
<1>4. \A limit \in Nat : Sound(<<>>, <<>>, now, limit)
  BY <1>3 DEF Sound, Ordered, Covers, Spaced
<1> QED BY <1>1, <1>2, <1>3, <1>4, BudgetType DEF WInv

\* A request: each bucket is stamped by its own verdict, and the request is
\* admitted only when both let it through.
LEMMA RequestInv ==
  ASSUME WInv, NEW h \in Hosts, Request(h)
  PROVE  WInv'
<1>0. /\ now \in Times /\ now' = now /\ DOMAIN ipBucket = BucketKeys /\ DOMAIN admitted = BucketKeys
      /\ \A b \in BucketKeys : ipBucket[b] \in Seq(Times) /\ admitted[b] \in Seq(Times)
  BY DEF WInv, Request
<1>1. RateKey[h] \in RateKeys /\ Site[h] \in Sites \cup {NoSite} /\ Site[h] \notin RateKeys
  BY RateAssumption
<1>2. /\ DOMAIN admitted' = BucketKeys
      /\ \A b \in BucketKeys : admitted'[b] =
            IF b \in {RateKey[h], Site[h]} /\ allowNewSession(h)
            THEN Append(admitted[b], now) ELSE admitted[b]
  BY DEF Request
<1>3. \A b \in BucketKeys : admitted'[b] \in Seq(Times)
  BY <1>0, <1>2
<1>4. CASE MaxNewSessionsPerMin = 0
  <2>1. ipBucket' = ipBucket
    BY <1>4 DEF Request, ChargeRate
  <2> QED BY <1>0, <1>2, <1>3, <1>4, <2>1 DEF WInv
<1>5. CASE MaxNewSessionsPerMin # 0
  <2>0. MaxNewSessionsPerMin > 0
    BY <1>5, RateAssumption
  <2>1. /\ DOMAIN ipBucket' = BucketKeys
        /\ \A b \in BucketKeys : ipBucket'[b] =
              CASE b = RateKey[h] -> Stamped(ipBucket[b], MaxNewSessionsPerMin)
                [] b = Site[h] /\ HostAllows(h) ->
                      Stamped(ipBucket[b], MaxNewSessionsPerMin * v6SiteFactor)
                [] OTHER -> ipBucket[b]
    BY <1>5 DEF Request, ChargeRate
  <2>2. ASSUME NEW b \in BucketKeys
        PROVE  Sound(ipBucket'[b], admitted'[b], now, Budget(b))
    <3>0. Sound(ipBucket[b], admitted[b], now, Budget(b)) /\ Budget(b) \in Nat \ {0}
      BY <2>0, BudgetType DEF WInv
    <3>1. /\ Sound(Stamped(ipBucket[b], Budget(b)), admitted[b], now, Budget(b))
          /\ allow(ipBucket[b], Budget(b)) =>
               Sound(Stamped(ipBucket[b], Budget(b)), Append(admitted[b], now), now, Budget(b))
      BY <1>0, <3>0, StampedSound
    <3>2. CASE b = RateKey[h]
      <4>1. b # Site[h] /\ Budget(b) = MaxNewSessionsPerMin
        BY <1>1, <3>2 DEF Budget
      <4>2. ipBucket'[b] = Stamped(ipBucket[b], Budget(b))
        BY <2>1, <3>2, <4>1
      <4>3. allowNewSession(h) => allow(ipBucket[b], Budget(b))
        BY <2>0, <3>2, <4>1 DEF allowNewSession, HostAllows
      <4> QED BY <1>2, <3>1, <4>2, <4>3
    <3>3. CASE b # RateKey[h] /\ b = Site[h] /\ HostAllows(h)
      <4>1. Budget(b) = MaxNewSessionsPerMin * v6SiteFactor
        BY <1>1, <3>3 DEF Budget
      <4>2. ipBucket'[b] = Stamped(ipBucket[b], Budget(b))
        BY <2>1, <3>3, <4>1
      <4>3. b \in Sites /\ b # NoSite
        BY <1>1, <3>3, RateAssumption DEF BucketKeys
      <4>4. allowNewSession(h) => allow(ipBucket[b], Budget(b))
        BY <2>0, <3>3, <4>1, <4>3 DEF allowNewSession, SiteAllows
      <4> QED BY <1>2, <3>1, <4>2, <4>4
    <3>4. CASE b # RateKey[h] /\ ~(b = Site[h] /\ HostAllows(h))
      <4>1. ipBucket'[b] = ipBucket[b]
        BY <2>1, <3>4
      <4>2. ~(b \in {RateKey[h], Site[h]} /\ allowNewSession(h))
        BY <2>0, <3>4 DEF allowNewSession
      <4>3. admitted'[b] = admitted[b]
        BY <1>2, <4>2
      <4> QED BY <3>0, <4>1, <4>3
    <3> QED BY <3>2, <3>3, <3>4
  <2>3. \A b \in BucketKeys : ipBucket'[b] \in Seq(Times)
    BY <2>2 DEF Sound, Ordered
  <2> QED BY <1>0, <1>2, <1>3, <2>1, <2>2, <2>3 DEF WInv
<1> QED BY <1>4, <1>5

\* The janitor prunes every bucket.
LEMMA SweepInv ==
  ASSUME WInv, Sweep
  PROVE  WInv'
<1>0. /\ now \in Times /\ now' = now /\ DOMAIN admitted = BucketKeys
      /\ admitted' = admitted
      /\ \A b \in BucketKeys : ipBucket[b] \in Seq(Times) /\ admitted[b] \in Seq(Times)
  BY DEF WInv, Sweep
<1>1. /\ DOMAIN ipBucket' = BucketKeys
      /\ \A b \in BucketKeys : ipBucket'[b] = Recent(ipBucket[b])
  BY DEF Sweep, SweepBuckets
<1>2. \A b \in BucketKeys : Recent(ipBucket[b]) \in Seq(Times)
  <2> SUFFICES ASSUME NEW b \in BucketKeys PROVE Recent(ipBucket[b]) \in Seq(Times)
    OBVIOUS
  <2> DEFINE S == {i \in DOMAIN ipBucket[b] : ipBucket[b][i] <= now - Minute}
  <2>1. Len(ipBucket[b]) \in Nat /\ DOMAIN ipBucket[b] = 1..Len(ipBucket[b])
    BY <1>0
  <2>2. IsFiniteSet(1..Len(ipBucket[b])) /\ S \subseteq 1..Len(ipBucket[b])
    BY <2>1, FS_Interval
  <2>3. Cardinality(S) \in Nat
    <3> HIDE DEF S
    <3> QED BY <2>2, FS_Subset, FS_CardinalityType
  <2>4. Old(ipBucket[b]) \in Nat
    BY <2>3 DEF Old
  <2> QED BY <1>0, <2>1, <2>4 DEF Recent
<1>3. ASSUME MaxNewSessionsPerMin > 0, NEW b \in BucketKeys
      PROVE  Sound(Recent(ipBucket[b]), admitted[b], now, Budget(b))
  <2>1. Sound(ipBucket[b], admitted[b], now, Budget(b)) /\ Budget(b) \in Nat \ {0}
    BY <1>3, BudgetType DEF WInv
  <2> QED BY <1>0, <2>1, StampedSound
<1> QED BY <1>0, <1>1, <1>2, <1>3 DEF WInv

\* As time passes, fewer admissions are of the last minute.
LEMMA AdvanceInv ==
  ASSUME WInv, Advance
  PROVE  WInv'
<1>0. /\ now \in Times /\ now' = now + 1 /\ now' \in Times
      /\ ipBucket' = ipBucket /\ admitted' = admitted
  BY RateAssumption DEF WInv, Advance, Times
<1>1. ASSUME NEW kept, NEW adm, NEW limit, Sound(kept, adm, now, limit)
      PROVE  Sound(kept, adm, now + 1, limit)
  <2>1. /\ Ordered(kept, now) /\ Ordered(adm, now) /\ Covers(kept, adm, now)
        /\ Spaced(adm, limit)
    BY <1>1 DEF Sound
  <2>2. /\ now \in Int /\ Minute \in Int /\ Len(adm) \in Nat
        /\ (\A i \in 1..Len(adm) : adm[i] \in Int)
        /\ \A i \in 1..Len(kept) : kept[i] \in Int
    BY <1>0, <2>1, RateAssumption DEF Ordered, Times
  <2>3. Ordered(kept, now + 1) /\ Ordered(adm, now + 1)
    BY <2>1, <2>2 DEF Ordered
  <2>4. \A k \in 1..Len(adm) : Len(adm) + 1 - k \in 1..Len(adm)
    BY <2>2
  <2>5. \A k \in 1..Len(adm) : adm[Len(adm) + 1 - k] > (now + 1) - Minute
                                => adm[Len(adm) + 1 - k] > now - Minute
    BY <2>2, <2>4
  <2>6. Covers(kept, adm, now + 1)
    BY <2>1, <2>5 DEF Covers
  <2> QED BY <2>1, <2>3, <2>6 DEF Sound
<1>2. MaxNewSessionsPerMin > 0 =>
        \A b \in BucketKeys : Sound(ipBucket[b], admitted[b], now + 1, Budget(b))
  BY <1>1 DEF WInv
<1> QED BY <1>0, <1>2 DEF WInv

\* The invariant is inductive.
LEMMA NextInv ==
  ASSUME WInv, [WNext]_wvars
  PROVE  WInv'
<1>1. ASSUME UNCHANGED wvars PROVE WInv'
  BY <1>1 DEF wvars, rateVars, WInv
<1> QED BY <1>1, RequestInv, SweepInv, AdvanceInv DEF WNext

\* The kept stamps and the history of admissions always agree.
THEOREM WindowInvariance == WSpec => []WInv
<1>1. WInv /\ [WNext]_wvars => WInv'
  BY NextInv
<1> QED BY InitInv, <1>1, PTL DEF WSpec

\* The agreement bounds what any minute saw.
LEMMA InvWithin ==
  ASSUME WInv
  PROVE  WithinWindow
<1> SUFFICES ASSUME MaxNewSessionsPerMin > 0, NEW t \in Times
             PROVE  /\ \A k \in RateKeys : InWindow(k, t) <= MaxNewSessionsPerMin
                    /\ \A b \in Sites : InWindow(b, t) <= MaxNewSessionsPerMin * v6SiteFactor
  BY DEF WithinWindow
<1>1. ASSUME NEW b \in BucketKeys PROVE InWindow(b, t) <= Budget(b)
  <2>1. /\ Ordered(admitted[b], now) /\ Spaced(admitted[b], Budget(b)) /\ now \in Times
        /\ Budget(b) \in Nat \ {0}
    BY BudgetType DEF WInv, Sound
  <2>2. Cardinality({i \in DOMAIN admitted[b] : t - Minute < admitted[b][i] /\ admitted[b][i] <= t})
           <= Budget(b)
    BY <2>1, WindowBound
  <2> QED BY <2>2 DEF InWindow
<1>2. (\A k \in RateKeys : Budget(k) = MaxNewSessionsPerMin)
      /\ \A b \in Sites : Budget(b) = MaxNewSessionsPerMin * v6SiteFactor
  BY RateAssumption DEF Budget
<1> QED BY <1>1, <1>2 DEF BucketKeys

\* In any minute, a source address gets at most MaxNewSessionsPerMin requests
\* through and an IPv6 site at most v6SiteFactor times as many, for any number
\* of hosts and sites, any limits and any length of the window
\* (rateBucket.allow, allowNewSession and the janitor's pruning).
THEOREM WindowCorrect == WSpec => []WithinWindow
<1>1. WInv => WithinWindow
  BY InvWithin
<1> QED BY WindowInvariance, <1>1, PTL
=============================================================================
