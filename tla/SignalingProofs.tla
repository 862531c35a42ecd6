--------------------------- MODULE SignalingProofs ---------------------------
(***************************************************************************)
(* The invariants of the session table, for any number of hosts, slots,    *)
(* sessions and polls and any limits.  IInv is inductive; each action has  *)
(* a lemma of its own, and the counting of ipCounts is kept apart in the   *)
(* lemmas on Charged.                                                      *)
(***************************************************************************)
EXTENDS Signaling, FiniteSetTheorems, TLAPS

\* Stamping or pruning a bucket leaves a bucket (rateBucket.allow).
LEMMA BucketType ==
  ASSUME RateTypeOK, NEW b \in Bucket, NEW limit
  PROVE  Recent(b) \in Bucket /\ Stamped(b, limit) \in Bucket
<1> DEFINE S == {i \in DOMAIN b : b[i] <= now - Minute}
<1>1. b \in Seq(Times) /\ Len(b) \in Nat /\ DOMAIN b = 1..Len(b) /\ now \in Times
  BY DEF RateTypeOK, Bucket
<1>2. IsFiniteSet(1..Len(b)) /\ S \subseteq 1..Len(b)
  BY <1>1, FS_Interval
<1>3. Old(b) \in Nat
  <2> HIDE DEF S
  <2>1. Cardinality(S) \in Nat
    BY <1>2, FS_Subset, FS_CardinalityType
  <2> QED BY <2>1 DEF Old, S
<1>4. Recent(b) \in Seq(Times)
  BY <1>1, <1>3 DEF Recent
<1>5. Append(Recent(b), now) \in Seq(Times)
  BY <1>1, <1>4
<1> QED BY <1>4, <1>5 DEF Stamped, Bucket

\* Whatever allowNewSession decides, the buckets keep their type.
LEMMA ChargeRateType ==
  ASSUME RateTypeOK, NEW h \in Hosts, ChargeRate(h), UNCHANGED now
  PROVE  RateTypeOK'
<1>1. \A b \in BucketKeys : ipBucket[b] \in Bucket
  BY DEF RateTypeOK
<1>2. \A b \in BucketKeys : \A limit : Stamped(ipBucket[b], limit) \in Bucket
  BY <1>1, BucketType
<1>3. ipBucket' \in [BucketKeys -> Bucket]
  <2>1. CASE MaxNewSessionsPerMin = 0
    BY <2>1 DEF RateTypeOK, ChargeRate
  <2>2. CASE MaxNewSessionsPerMin # 0
    <3> DEFINE f(b) == CASE b = RateKey[h] -> Stamped(ipBucket[b], MaxNewSessionsPerMin)
                         [] b = Site[h] /\ HostAllows(h) ->
                               Stamped(ipBucket[b], MaxNewSessionsPerMin * v6SiteFactor)
                         [] OTHER -> ipBucket[b]
    <3>1. ipBucket' = [b \in BucketKeys |-> f(b)]
      BY <2>2 DEF ChargeRate
    <3>2. \A b \in BucketKeys : f(b) \in Bucket
      <4> TAKE b \in BucketKeys
      <4>0. Site[h] # RateKey[h]
        BY RateAssumption
      <4>1. CASE b = RateKey[h]
        BY <4>0, <4>1, <1>2
      <4>2. CASE b # RateKey[h] /\ b = Site[h] /\ HostAllows(h)
        BY <4>2, <1>2
      <4>3. CASE b # RateKey[h] /\ ~(b = Site[h] /\ HostAllows(h))
        BY <4>3, <1>1
      <4> QED BY <4>1, <4>2, <4>3
    <3> HIDE DEF f
    <3> QED BY <3>1, <3>2
  <2> QED BY <2>1, <2>2
<1> QED BY <1>3 DEF RateTypeOK

\* The janitor's pruning keeps the buckets' type.
LEMMA SweepType ==
  ASSUME RateTypeOK, SweepBuckets, UNCHANGED now
  PROVE  RateTypeOK'
<1>1. \A b \in BucketKeys : Recent(ipBucket[b]) \in Bucket
  BY BucketType DEF RateTypeOK
<1> QED BY <1>1 DEF SweepBuckets, RateTypeOK

-----------------------------------------------------------------------------
\* The sides charged to a key can be counted when the sessions can.
LEMMA ChargedType ==
  ASSUME NEW S, IsFiniteSet(S), NEW k
  PROVE  /\ IsFiniteSet(SendersOf(k, S)) /\ IsFiniteSet(ReceiversOf(k, S))
         /\ Cardinality(SendersOf(k, S)) \in Nat /\ Cardinality(ReceiversOf(k, S)) \in Nat
         /\ Charged(k, S) \in Nat
<1>1. SendersOf(k, S) \subseteq S /\ ReceiversOf(k, S) \subseteq S
  BY DEF SendersOf, ReceiversOf
<1>2. IsFiniteSet(SendersOf(k, S)) /\ IsFiniteSet(ReceiversOf(k, S))
  BY <1>1, FS_Subset
<1>3. Cardinality(SendersOf(k, S)) \in Nat /\ Cardinality(ReceiversOf(k, S)) \in Nat
  BY <1>2, FS_CardinalityType
<1> QED BY <1>2, <1>3 DEF Charged

\* Dropping the sessions D takes exactly their own sides off the count.
LEMMA ChargedDrop ==
  ASSUME NEW S, IsFiniteSet(S), NEW D \in SUBSET S, NEW k
  PROVE  Charged(k, S \ D) = Charged(k, S) - Charged(k, D)
<1>1. IsFiniteSet(D)
  BY FS_Subset
<1>2. SendersOf(k, S \ D) = SendersOf(k, S) \ SendersOf(k, D)
  BY DEF SendersOf
<1>3. ReceiversOf(k, S \ D) = ReceiversOf(k, S) \ ReceiversOf(k, D)
  BY DEF ReceiversOf
<1>4. /\ SendersOf(k, S) \cap SendersOf(k, D) = SendersOf(k, D)
      /\ ReceiversOf(k, S) \cap ReceiversOf(k, D) = ReceiversOf(k, D)
  BY DEF SendersOf, ReceiversOf
<1>a. IsFiniteSet(SendersOf(k, S)) /\ IsFiniteSet(ReceiversOf(k, S))
  BY ChargedType
<1>b. /\ Cardinality(SendersOf(k, S)) \in Nat /\ Cardinality(ReceiversOf(k, S)) \in Nat
      /\ Cardinality(SendersOf(k, D)) \in Nat /\ Cardinality(ReceiversOf(k, D)) \in Nat
  BY <1>1, ChargedType
<1>c. ASSUME NEW A, NEW B, IsFiniteSet(A), A \cap B = B
      PROVE  Cardinality(A \ B) = Cardinality(A) - Cardinality(B)
  BY <1>c, FS_Difference
<1>5. Cardinality(SendersOf(k, S \ D)) = Cardinality(SendersOf(k, S)) - Cardinality(SendersOf(k, D))
  BY <1>2, <1>4, <1>a, <1>c
<1>6. Cardinality(ReceiversOf(k, S \ D)) = Cardinality(ReceiversOf(k, S)) - Cardinality(ReceiversOf(k, D))
  BY <1>3, <1>4, <1>a, <1>c
<1> QED BY <1>5, <1>6, <1>b DEF Charged

\* A side charged to h's key while i becomes its sender: the counts still match.
LEMMA CountSender ==
  ASSUME IsFiniteSet(byID), CountsMatch, ipCounts \in [RateKeys -> Nat],
         NEW h \in Hosts, NEW i, ChargeIP(h),
         \A k \in RateKeys : /\ i \notin SendersOf(k, byID)
                             /\ SendersOf(k, byID)' = IF k = RateKey[h] THEN SendersOf(k, byID) \cup {i}
                                                                        ELSE SendersOf(k, byID)
                             /\ ReceiversOf(k, byID)' = ReceiversOf(k, byID)
  PROVE  CountsMatch'
<1> SUFFICES ASSUME NEW k \in RateKeys
             PROVE  ipCounts'[k] = Charged(k, byID)'
  BY DEF CountsMatch
<1>1. Cardinality(SendersOf(k, byID))' = IF k = RateKey[h] THEN Cardinality(SendersOf(k, byID)) + 1
                                                          ELSE Cardinality(SendersOf(k, byID))
  BY ChargedType, FS_AddElement
<1>2. ipCounts'[k] = IF k = RateKey[h] THEN ipCounts[k] + 1 ELSE ipCounts[k]
  BY RateAssumption DEF ChargeIP
<1> QED BY <1>1, <1>2, ChargedType DEF Charged, CountsMatch

\* The same for its receiver.
LEMMA CountReceiver ==
  ASSUME IsFiniteSet(byID), CountsMatch, ipCounts \in [RateKeys -> Nat],
         NEW h \in Hosts, NEW i, ChargeIP(h),
         \A k \in RateKeys : /\ i \notin ReceiversOf(k, byID)
                             /\ ReceiversOf(k, byID)' = IF k = RateKey[h] THEN ReceiversOf(k, byID) \cup {i}
                                                                          ELSE ReceiversOf(k, byID)
                             /\ SendersOf(k, byID)' = SendersOf(k, byID)
  PROVE  CountsMatch'
<1> SUFFICES ASSUME NEW k \in RateKeys
             PROVE  ipCounts'[k] = Charged(k, byID)'
  BY DEF CountsMatch
<1>1. Cardinality(ReceiversOf(k, byID))' = IF k = RateKey[h] THEN Cardinality(ReceiversOf(k, byID)) + 1
                                                            ELSE Cardinality(ReceiversOf(k, byID))
  BY ChargedType, FS_AddElement
<1>2. ipCounts'[k] = IF k = RateKey[h] THEN ipCounts[k] + 1 ELSE ipCounts[k]
  BY RateAssumption DEF ChargeIP
<1> QED BY <1>1, <1>2, ChargedType DEF Charged, CountsMatch

\* A step that charges and releases nobody.
LEMMA CountSame ==
  ASSUME CountsMatch, UNCHANGED ipCounts,
         \A k \in RateKeys : /\ SendersOf(k, byID)' = SendersOf(k, byID)
                             /\ ReceiversOf(k, byID)' = ReceiversOf(k, byID)
  PROVE  CountsMatch'
  BY DEF CountsMatch, Charged

\* Removing the sessions D and releasing their sides: the clamp at zero in
\* releaseIP never acts, because the sides of D are among those counted.
LEMMA CountDrop ==
  ASSUME IsFiniteSet(byID), CountsMatch, ipCounts \in [RateKeys -> Nat],
         NEW D \in SUBSET byID, releaseIP(D), byID' = byID \ D,
         \A k \in RateKeys : /\ SendersOf(k, byID)' = SendersOf(k, byID \ D)
                             /\ ReceiversOf(k, byID)' = ReceiversOf(k, byID \ D)
  PROVE  CountsMatch'
<1> SUFFICES ASSUME NEW k \in RateKeys
             PROVE  ipCounts'[k] = Charged(k, byID)'
  BY DEF CountsMatch
<1>1. IsFiniteSet(D) /\ IsFiniteSet(byID \ D)
  BY FS_Subset
<1>2. Charged(k, byID)' = Charged(k, byID \ D)
  BY DEF Charged
<1>3. Charged(k, byID \ D) = Charged(k, byID) - Charged(k, D)
  BY ChargedDrop
<1>4. Charged(k, D) \in Nat /\ Charged(k, byID \ D) \in Nat /\ Charged(k, byID) \in Nat
  BY <1>1, ChargedType
<1>5. ipCounts'[k] = IF ipCounts[k] > Charged(k, D) THEN ipCounts[k] - Charged(k, D) ELSE 0
  BY DEF releaseIP
<1>6. ipCounts[k] = Charged(k, byID)
  BY DEF CountsMatch
<1> QED BY <1>2, <1>3, <1>4, <1>5, <1>6

\* releaseIP leaves counts behind.
LEMMA ReleaseType ==
  ASSUME NEW D, IsFiniteSet(D), releaseIP(D), ipCounts \in [RateKeys -> Nat]
  PROVE  ipCounts' \in [RateKeys -> Nat]
<1>1. \A k \in RateKeys : Charged(k, D) \in Nat
  BY ChargedType
<1> QED BY <1>1 DEF releaseIP

\* With no session live there is nothing to count.
LEMMA CountNone ==
  ASSUME \A k \in RateKeys : SendersOf(k, byID) = {} /\ ReceiversOf(k, byID) = {},
         \A k \in RateKeys : ipCounts[k] = 0
  PROVE  CountsMatch
<1>1. \A k \in RateKeys : Cardinality(SendersOf(k, byID)) = 0 /\ Cardinality(ReceiversOf(k, byID)) = 0
  BY FS_EmptySet
<1> QED BY <1>1 DEF CountsMatch, Charged

-----------------------------------------------------------------------------
\* The initial state satisfies the inductive invariant.
LEMMA InitInv == Init => IInv
<1> SUFFICES ASSUME Init PROVE IInv
  OBVIOUS
<1>1. TypeOK
  <2>1. RateTypeOK
    BY RateAssumption DEF Init, RateInit, RateTypeOK, Bucket, EmptyBucket, Times
  <2>2. sess \in [Ids -> Session]
    BY RateAssumption DEF Init, Session, NoSession, Times
  <2>3. poll \in [Polls -> Poll]
    BY RateAssumption DEF Init, Poll, IdlePoll, Times
  <2> QED BY <2>1, <2>2, <2>3 DEF Init, TypeOK
<1>2. CountsMatch
  <2>1. \A k \in RateKeys : SendersOf(k, byID) = {} /\ ReceiversOf(k, byID) = {}
    BY DEF Init, SendersOf, ReceiversOf
  <2> QED BY <2>1, CountNone DEF Init
<1>3. IsFiniteSet(byID) /\ IsFiniteSet(saved)
  BY FS_EmptySet DEF Init
<1> QED
  BY <1>1, <1>2, <1>3, RateAssumption, SignalingAssumption
  DEF IInv, Init, TableConsistent, CloseOnce, OwnPeer, ConsumedStaysClosed, SessionShape, DownShape,
      PollShape, NoSession, IdlePoll, isConsumed, RateInit, Waiting, Paired, Times

\* createSession: a fresh session enters both maps and charges its sender.
LEMMA CreateInv ==
  ASSUME IInv, NEW h \in Hosts, NEW s \in Slots, createSession(h, s)
  PROVE  IInv'
<1>1. RateTypeOK'
  BY ChargeRateType DEF createSession, IInv, TypeOK
<1>2. CASE createStatus(h, s) = 200
  <2>1. PICK i \in Ids :
          /\ sess[i].state = "new"
          /\ sess' = [sess EXCEPT ![i] =
                        [slot |-> s, sender |-> h, receiver |-> NoHost, state |-> "waiting",
                         created |-> now, lastSeen |-> now, pairedAt |-> 0, closed |-> FALSE]]
          /\ bySlot' = [bySlot EXCEPT ![s] = i]
          /\ byID' = byID \cup {i}
    BY <1>2 DEF createSession
  <2>2. /\ ChargeIP(h)
        /\ UNCHANGED <<now, up, consumed, poll, saved>>
        /\ up
    BY <1>2 DEF createSession
  <2>3. bySlot[s] = NoId /\ ~isConsumed(s)
    BY <1>2 DEF createStatus
  <2>4. i \notin byID /\ i \notin saved
    BY <2>1 DEF IInv, SessionShape, DownShape, Waiting
  <2>5. TypeOK'
    <3>1. sess' \in [Ids -> Session]
      BY <2>1, RateAssumption DEF IInv, TypeOK, RateTypeOK, Session, Times
    <3>2. ipCounts' \in [RateKeys -> Nat]
      BY <2>2, RateAssumption DEF ChargeIP, IInv, TypeOK
    <3> QED BY <1>1, <2>1, <2>2, <3>1, <3>2 DEF IInv, TypeOK
  <2>6. TableConsistent'
    BY <2>1, <2>2, <2>3, <2>4, SignalingAssumption DEF IInv, TypeOK, TableConsistent
  <2>7. CountsMatch'
    <3>1. \A k \in RateKeys :
             /\ i \notin SendersOf(k, byID)
             /\ SendersOf(k, byID)' = IF k = RateKey[h] THEN SendersOf(k, byID) \cup {i}
                                                        ELSE SendersOf(k, byID)
             /\ ReceiversOf(k, byID)' = ReceiversOf(k, byID)
      BY <2>1, <2>4, SignalingAssumption DEF SendersOf, ReceiversOf, IInv, TypeOK
    <3> QED BY <2>2, <3>1, CountSender DEF IInv, TypeOK
  <2>8. CloseOnce' /\ ConsumedStaysClosed' /\ SessionShape'
    BY <2>1, <2>2, <2>3, SignalingAssumption
    DEF IInv, TypeOK, CloseOnce, ConsumedStaysClosed, SessionShape, Waiting, Paired, isConsumed
  <2>9. OwnPeer' /\ PollShape' /\ DownShape'
    BY <2>1, <2>2, <2>4
    DEF IInv, TypeOK, OwnPeer, PollShape, DownShape, Paired, Waiting
  <2>10. IsFiniteSet(byID)' /\ IsFiniteSet(saved)'
    BY <2>1, <2>2, FS_AddElement DEF IInv
  <2> QED BY <2>5, <2>6, <2>7, <2>8, <2>9, <2>10 DEF IInv
<1>3. CASE createStatus(h, s) # 200
  <2>1. UNCHANGED <<now, up, table, poll, saved>>
    BY <1>3 DEF createSession, table
  <2> QED
    BY <1>1, <2>1 DEF IInv, TypeOK, table, TableConsistent, CountsMatch, Charged, SendersOf, ReceiversOf,
       CloseOnce, OwnPeer, ConsumedStaysClosed, SessionShape, DownShape, PollShape, Waiting, Paired, isConsumed
<1> QED BY <1>2, <1>3

\* joinSession: the waiting session under the slot gets its one receiver.
LEMMA JoinInv ==
  ASSUME IInv, NEW h \in Hosts, NEW s \in Slots, joinSession(h, s)
  PROVE  IInv'
<1>1. RateTypeOK'
  BY ChargeRateType DEF joinSession, IInv, TypeOK
<1>2. CASE joinStatus(h, s) = 200
  <2> DEFINE i == bySlot[s]
  <2>1. bySlot[s] # NoId /\ Waiting(i)
    BY <1>2 DEF joinStatus
  <2>2. i \in Ids /\ i \in byID /\ sess[i].slot = s /\ i \notin saved
    BY <2>1 DEF IInv, TypeOK, TableConsistent, joinSession, DownShape
  <2>3. /\ sess' = [sess EXCEPT ![i] = Joined(i, h)]
        /\ ChargeIP(h)
        /\ UNCHANGED <<now, up, bySlot, byID, consumed, poll, saved>>
        /\ up
    BY <1>2 DEF joinSession
  <2> HIDE DEF i
  <2>a. sess[i] \in Session /\ now \in Times
    BY <2>2 DEF IInv, TypeOK, RateTypeOK
  <2>b. /\ Joined(i, h) \in Session
        /\ Joined(i, h).slot = sess[i].slot
        /\ Joined(i, h).sender = sess[i].sender
        /\ Joined(i, h).receiver = h
        /\ Joined(i, h).state = "paired"
        /\ Joined(i, h).lastSeen = sess[i].lastSeen
    BY <2>a DEF Session, Joined
  <2>4. TypeOK'
    <3>1. sess' \in [Ids -> Session]
      BY <2>2, <2>3, <2>b DEF IInv, TypeOK
    <3>2. ipCounts' \in [RateKeys -> Nat]
      BY <2>3, RateAssumption DEF ChargeIP, IInv, TypeOK
    <3> QED BY <1>1, <2>3, <3>1, <3>2 DEF IInv, TypeOK
  <2>5. TableConsistent'
    BY <2>2, <2>3, <2>b DEF IInv, TypeOK, TableConsistent
  <2>6. CountsMatch'
    <3>1. sess[i].receiver = NoHost
      BY <2>1, <2>2 DEF IInv, SessionShape, Waiting, Paired
    <3>2. \A k \in RateKeys :
             /\ i \notin ReceiversOf(k, byID)
             /\ ReceiversOf(k, byID)' = IF k = RateKey[h] THEN ReceiversOf(k, byID) \cup {i}
                                                          ELSE ReceiversOf(k, byID)
             /\ SendersOf(k, byID)' = SendersOf(k, byID)
      BY <2>2, <2>3, <2>b, <3>1, SignalingAssumption DEF SendersOf, ReceiversOf, IInv, TypeOK
    <3> QED BY <2>3, <3>2, CountReceiver DEF IInv, TypeOK
  <2>7. CloseOnce' /\ ConsumedStaysClosed' /\ SessionShape'
    BY <2>1, <2>2, <2>3, <2>b, SignalingAssumption
    DEF IInv, TypeOK, CloseOnce, ConsumedStaysClosed, SessionShape, Waiting, Paired, isConsumed
  <2>8. OwnPeer' /\ PollShape' /\ DownShape'
    BY <2>1, <2>2, <2>3, <2>b
    DEF IInv, TypeOK, OwnPeer, PollShape, DownShape, Paired, Waiting
  <2> QED BY <2>3, <2>4, <2>5, <2>6, <2>7, <2>8 DEF IInv
<1>3. CASE joinStatus(h, s) # 200
  <2>1. UNCHANGED <<now, up, table, poll, saved>>
    BY <1>3 DEF joinSession, table
  <2> QED
    BY <1>1, <2>1 DEF IInv, TypeOK, table, TableConsistent, CountsMatch, Charged, SendersOf, ReceiversOf,
       CloseOnce, OwnPeer, ConsumedStaysClosed, SessionShape, DownShape, PollShape, Waiting, Paired, isConsumed
<1> QED BY <1>2, <1>3

\* An answered handler keeps the shape of a handler.
LEMMA AnswerInv ==
  ASSUME IInv, NEW p \in Polls, NEW i \in Ids, NEW code \in {200, 204, 404, 429},
         NEW peer \in Hosts \cup {NoHost}, Answer(p, i, code, peer),
         code = 200 => Paired(i) /\ peer = sess[i].receiver /\ peer # NoHost,
         UNCHANGED <<rateVars, up, table, saved>>
  PROVE  IInv'
<1>1. poll' \in [Polls -> Poll]
  BY RateAssumption DEF Answer, Answered, IInv, TypeOK, Poll, Times
<1>2. TypeOK'
  BY <1>1 DEF IInv, TypeOK, RateTypeOK, rateVars, table
<1>3. OwnPeer'
  BY DEF Answer, Answered, IInv, TypeOK, OwnPeer, Paired, table
<1>4. PollShape'
  BY DEF Answer, Answered, IInv, TypeOK, PollShape, table, rateVars
<1>5. DownShape'
  BY DEF Answer, Answered, IInv, TypeOK, DownShape, Waiting, table, rateVars
<1> QED
  BY <1>2, <1>3, <1>4, <1>5
  DEF IInv, table, rateVars, TableConsistent, CountsMatch, Charged, SendersOf, ReceiversOf,
      CloseOnce, ConsumedStaysClosed, SessionShape, Waiting, Paired, isConsumed

\* A handler woken by the channel re-reads the slot: if its session is still
\* there, CloseOnce and TableConsistent make it a joined one.
LEMMA WokenInv ==
  ASSUME IInv, NEW p \in Polls, waitWoken(p)
  PROVE  IInv'
<1> DEFINE i == poll[p].id
<1>1. i \in Ids /\ sess[i].state # "new"
  BY DEF waitWoken, IInv, PollShape
<1>2. CASE bySlot[sess[i].slot] = i
  <2>1. i \in byID
    BY <1>1, <1>2, SignalingAssumption DEF IInv, TypeOK, Session, SessionShape, TableConsistent
  <2>2. Paired(i)
    BY <1>1, <2>1 DEF waitWoken, SameSession, IInv, TypeOK, Session, CloseOnce, Waiting, Paired
  <2>3. sess[i].receiver \in Hosts \cup {NoHost} /\ sess[i].receiver # NoHost
    BY <1>1, <2>2 DEF IInv, TypeOK, Session, SessionShape
  <2>4. Answer(p, i, 200, sess[i].receiver) /\ UNCHANGED <<rateVars, up, table, saved>>
    BY <1>2 DEF waitWoken, SameSession
  <2> QED BY <1>1, <2>2, <2>3, <2>4, AnswerInv
<1>3. CASE bySlot[sess[i].slot] # i
  <2>1. Answer(p, i, 404, NoHost) /\ UNCHANGED <<rateVars, up, table, saved>>
    BY <1>3 DEF waitWoken, SameSession
  <2> QED BY <1>1, <2>1, AnswerInv
<1> QED BY <1>2, <1>3

\* A poll that times out or is hung up on is answered 204; the table stays.
LEMMA TimeoutInv ==
  ASSUME IInv, NEW p \in Polls, waitDone(p)
  PROVE  IInv'
<1>1. poll[p].id \in Ids
  BY DEF waitDone, IInv, PollShape
<1> QED BY <1>1, AnswerInv DEF waitDone

\* waitSession refreshes LastSeen, charges a restored sender, and parks or answers.
LEMMA WaitInv ==
  ASSUME IInv, NEW p \in Polls, NEW h \in Hosts, NEW i \in Ids, waitSession(p, h, i)
  PROVE  IInv'
<1>1. RateTypeOK'
  BY ChargeRateType DEF waitSession, IInv, TypeOK
<1>2. /\ up /\ ~poll[p].parked /\ sess[i].state # "new"
      /\ UNCHANGED <<now, up, bySlot, byID, consumed, saved>>
  BY DEF waitSession
<1>3. CASE ~allowNewSession(h) \/ ~OwnsSlot(i)
  <2>1. \E code \in {404, 429} : Answer(p, i, code, NoHost)
    BY <1>3 DEF waitSession
  <2>2. UNCHANGED <<sess, ipCounts>>
    BY <1>3 DEF waitSession
  <2>3. poll' \in [Polls -> Poll]
    BY <2>1, RateAssumption DEF Answer, Answered, IInv, TypeOK, Poll, Times
  <2>4. TypeOK'
    BY <1>1, <1>2, <2>2, <2>3 DEF IInv, TypeOK
  <2>5. OwnPeer' /\ PollShape' /\ DownShape'
    BY <1>2, <2>1, <2>2 DEF Answer, Answered, IInv, TypeOK, OwnPeer, PollShape, DownShape, Paired, Waiting
  <2> QED
    BY <1>2, <2>2, <2>4, <2>5
    DEF IInv, TableConsistent, CountsMatch, Charged, SendersOf, ReceiversOf,
        CloseOnce, ConsumedStaysClosed, SessionShape, Waiting, Paired, isConsumed
<1>4. CASE allowNewSession(h) /\ OwnsSlot(i)
  <2>1. i \in byID /\ i \notin saved
    BY <1>2, <1>4, SignalingAssumption
    DEF OwnsSlot, IInv, TypeOK, Session, SessionShape, TableConsistent, DownShape
  <2>2. \/ /\ sess[i].sender = NoHost
           /\ sess' = [sess EXCEPT ![i].lastSeen = now, ![i].sender = h]
           /\ ChargeIP(h)
        \/ /\ sess[i].sender # NoHost
           /\ sess' = [sess EXCEPT ![i].lastSeen = now]
           /\ UNCHANGED ipCounts
    BY <1>4 DEF waitSession
  <2>3. \/ Paired(i) /\ Answer(p, i, 200, sess[i].receiver)
        \/ poll' = [poll EXCEPT ![p] = [parked |-> TRUE, id |-> i, since |-> now,
                                        status |-> 0, peer |-> NoHost]]
    BY <1>4 DEF waitSession
  <2>4. now \in Times /\ sess[i] \in Session /\ poll \in [Polls -> Poll]
    BY DEF IInv, TypeOK, RateTypeOK
  <2>5. /\ sess' \in [Ids -> Session]
        /\ \A j \in Ids : j # i => sess'[j] = sess[j]
        /\ \A f \in {"slot", "receiver", "state", "closed"} : sess'[i][f] = sess[i][f]
        /\ sess'[i].lastSeen = now
        /\ sess'[i].sender = IF sess[i].sender = NoHost THEN h ELSE sess[i].sender
    <3>1. CASE sess[i].sender = NoHost
      <4> DEFINE r == [sess[i] EXCEPT !.lastSeen = now, !.sender = h]
      <4>1. r \in Session
        BY <2>4 DEF Session
      <4>2. sess' = [sess EXCEPT ![i] = r]
        BY <2>2, <3>1
      <4> QED BY <2>4, <3>1, <4>1, <4>2 DEF IInv, TypeOK, Session
    <3>2. CASE sess[i].sender # NoHost
      <4> DEFINE r == [sess[i] EXCEPT !.lastSeen = now]
      <4>1. r \in Session
        BY <2>4 DEF Session
      <4>2. sess' = [sess EXCEPT ![i] = r]
        BY <2>2, <3>2
      <4> QED BY <2>4, <3>2, <4>1, <4>2 DEF IInv, TypeOK, Session
    <3> QED BY <3>1, <3>2
  <2>6. \A j \in Ids : /\ sess'[j].slot = sess[j].slot
                       /\ sess'[j].receiver = sess[j].receiver
                       /\ sess'[j].state = sess[j].state
                       /\ sess'[j].closed = sess[j].closed
                       /\ sess'[j].lastSeen = sess[j].lastSeen \/ sess'[j].lastSeen = now
    BY <2>5
  <2>7. TypeOK'
    <3>1. ipCounts' \in [RateKeys -> Nat]
      BY <2>2, RateAssumption DEF ChargeIP, IInv, TypeOK
    <3>2. poll' \in [Polls -> Poll]
      <4>1. sess[i].receiver \in Hosts \cup {NoHost}
        BY <2>4 DEF Session
      <4>2. 0 \in Times
        BY RateAssumption DEF Times
      <4>3. /\ [parked |-> TRUE, id |-> i, since |-> now, status |-> 0, peer |-> NoHost] \in Poll
            /\ [parked |-> FALSE, id |-> i, since |-> 0, status |-> 200, peer |-> sess[i].receiver] \in Poll
        BY <2>4, <4>1, <4>2 DEF Poll
      <4> QED BY <2>3, <2>4, <4>3 DEF Answer, Answered
    <3> QED BY <1>1, <1>2, <2>5, <3>1, <3>2 DEF IInv, TypeOK
  <2>8. CountsMatch'
    <3>1. \A k \in RateKeys : ReceiversOf(k, byID)' = ReceiversOf(k, byID)
      BY <1>2, <2>6 DEF ReceiversOf, IInv, TypeOK
    <3>2. CASE sess[i].sender = NoHost
      <4>1. \A k \in RateKeys :
               /\ i \notin SendersOf(k, byID)
               /\ SendersOf(k, byID)' = IF k = RateKey[h] THEN SendersOf(k, byID) \cup {i}
                                                          ELSE SendersOf(k, byID)
        BY <1>2, <2>1, <2>5, <3>2, SignalingAssumption DEF SendersOf, IInv, TypeOK
      <4> QED BY <2>2, <3>1, <3>2, <4>1, CountSender DEF IInv, TypeOK
    <3>3. CASE sess[i].sender # NoHost
      <4>1. \A k \in RateKeys : SendersOf(k, byID)' = SendersOf(k, byID)
        BY <1>2, <2>5, <3>3 DEF SendersOf, IInv, TypeOK
      <4> QED BY <2>2, <3>1, <3>3, <4>1, CountSame DEF IInv
    <3> QED BY <3>2, <3>3
  <2>9. TableConsistent' /\ CloseOnce' /\ ConsumedStaysClosed' /\ SessionShape'
    BY <1>2, <2>6
    DEF IInv, TypeOK, TableConsistent, CloseOnce, ConsumedStaysClosed, SessionShape, Waiting, Paired, isConsumed
  <2>10. DownShape'
    BY <1>2, <2>1, <2>6 DEF IInv, TypeOK, DownShape, Waiting
  <2>11. OwnPeer'
    BY <2>3, <2>6 DEF Answer, Answered, IInv, TypeOK, OwnPeer, PollShape, SessionShape, Paired
  <2>12. PollShape'
    <3> SUFFICES ASSUME NEW q \in Polls
                 PROVE  /\ poll'[q].status = 200 => poll'[q].id \in Ids
                        /\ poll'[q].parked =>
                              /\ poll'[q].status = 0
                              /\ poll'[q].id \in Ids
                              /\ sess'[poll'[q].id].state # "new"
                              /\ poll'[q].since <= sess'[poll'[q].id].lastSeen
                              /\ poll'[q].since <= now /\ now <= poll'[q].since + LongPollTimeout
      BY <1>2 DEF PollShape
    <3>1. CASE q # p
      <4>1. poll'[q] = poll[q]
        BY <2>3, <2>4, <3>1 DEF Answer, Answered
      <4> QED BY <2>4, <2>5, <2>6, <4>1 DEF IInv, PollShape
    <3>2. CASE q = p
      <4>1. now <= now + LongPollTimeout /\ now <= now
        BY <2>4, RateAssumption, SignalingAssumption DEF Times
      <4> QED BY <1>2, <2>3, <2>4, <2>5, <3>2, <4>1 DEF Answer, Answered
    <3> QED BY <3>1, <3>2
  <2> QED
    BY <1>2, <2>7, <2>8, <2>9, <2>10, <2>11, <2>12 DEF IInv
<1> QED BY <1>3, <1>4

\* deleteSession takes one session out of both maps and may leave a tombstone.
LEMMA DeleteInv ==
  ASSUME IInv, NEW i \in Ids, NEW used \in BOOLEAN, deleteSession(i, used)
  PROVE  IInv'
<1>1. /\ up /\ i \in byID /\ Drop({i}) /\ releaseIP({i})
      /\ consumed' = [consumed EXCEPT ![sess[i].slot] = IF used THEN now + consumedTTL ELSE @]
      /\ UNCHANGED <<rateVars, up, sess, poll, saved>>
  BY DEF deleteSession
<1>2. sess[i].slot \in Slots /\ bySlot[sess[i].slot] = i
  BY <1>1 DEF IInv, TableConsistent
<1>3. byID' = byID \ {i} /\ bySlot' = [bySlot EXCEPT ![sess[i].slot] = NoId]
  BY <1>1 DEF Drop, IInv, TypeOK
<1>4. TypeOK'
  <2>1. IsFiniteSet({i})
    BY FS_Singleton
  <2>2. ipCounts' \in [RateKeys -> Nat]
    BY <1>1, <2>1, ReleaseType DEF IInv, TypeOK
  <2>3. consumed' \in [Slots -> Nat]
    BY <1>1, <1>2, RateAssumption, SignalingAssumption DEF IInv, TypeOK, RateTypeOK, Times
  <2> QED BY <1>1, <1>3, <2>2, <2>3 DEF IInv, TypeOK, RateTypeOK, rateVars
<1>5. TableConsistent'
  BY <1>1, <1>2, <1>3, SignalingAssumption DEF IInv, TypeOK, TableConsistent
<1>6. CountsMatch'
  <2>1. \A k \in RateKeys : /\ SendersOf(k, byID)' = SendersOf(k, byID \ {i})
                            /\ ReceiversOf(k, byID)' = ReceiversOf(k, byID \ {i})
    BY <1>1, <1>3 DEF SendersOf, ReceiversOf
  <2> QED BY <1>1, <1>3, <2>1, CountDrop DEF IInv, TypeOK
<1>7. ConsumedStaysClosed'
  BY <1>1, <1>2, <1>3 DEF IInv, TypeOK, ConsumedStaysClosed, isConsumed, rateVars
<1>8. CloseOnce' /\ SessionShape' /\ OwnPeer' /\ PollShape' /\ DownShape'
  BY <1>1, <1>3
  DEF IInv, TypeOK, CloseOnce, SessionShape, OwnPeer, PollShape, DownShape, Waiting, Paired, rateVars
<1>9. IsFiniteSet(byID)' /\ IsFiniteSet(saved)'
  BY <1>1, <1>3, FS_RemoveElement DEF IInv
<1> QED BY <1>4, <1>5, <1>6, <1>7, <1>8, <1>9 DEF IInv

\* evict removes all that is due in one critical section and closes the
\* channels of the waiting ones.
LEMMA EvictInv ==
  ASSUME IInv, evict
  PROVE  IInv'
<1> DEFINE D == Evictable
<1>1. /\ up /\ Drop(D) /\ releaseIP(D) /\ SweepBuckets
      /\ sess' = [i \in Ids |-> IF i \in D /\ Waiting(i)
                                THEN [sess[i] EXCEPT !.closed = TRUE] ELSE sess[i]]
      /\ consumed' = [s \in Slots |-> IF now > consumed[s] THEN 0 ELSE consumed[s]]
      /\ UNCHANGED <<now, up, poll, saved>>
  BY DEF evict
<1>2. D \subseteq byID
  BY DEF Evictable
<1> HIDE DEF D
<1>3. sess' \in [Ids -> Session]
  <2>1. \A i \in Ids : sess[i] \in Session
    BY DEF IInv, TypeOK
  <2>2. \A i \in Ids : [sess[i] EXCEPT !.closed = TRUE] \in Session
    BY <2>1 DEF Session
  <2> QED BY <1>1, <2>1, <2>2
<1>4. \A i \in Ids : /\ sess'[i].slot = sess[i].slot
                     /\ sess'[i].sender = sess[i].sender
                     /\ sess'[i].receiver = sess[i].receiver
                     /\ sess'[i].state = sess[i].state
                     /\ sess'[i].lastSeen = sess[i].lastSeen
                     /\ i \notin D => sess'[i].closed = sess[i].closed
  BY <1>1 DEF IInv, TypeOK, Session
<1>5. byID' = byID \ D /\ (\A s \in Slots : bySlot'[s] = IF \E i \in D : sess[i].slot = s THEN NoId ELSE bySlot[s])
  BY <1>1 DEF Drop
<1>6. TypeOK'
  <2>1. IsFiniteSet(D)
    BY <1>2, FS_Subset DEF IInv
  <2>3. ipCounts' \in [RateKeys -> Nat]
    BY <1>1, <2>1, ReleaseType DEF IInv, TypeOK
  <2>4. bySlot' \in [Slots -> Ids \cup {NoId}]
    BY <1>1 DEF Drop, IInv, TypeOK
  <2>5. RateTypeOK'
    BY <1>1, SweepType DEF IInv, TypeOK
  <2>6. consumed' \in [Slots -> Nat]
    BY <1>1 DEF IInv, TypeOK
  <2> QED BY <1>1, <1>3, <1>5, <2>3, <2>4, <2>5, <2>6 DEF IInv, TypeOK
<1>7. TableConsistent'
  BY <1>2, <1>4, <1>5, SignalingAssumption DEF IInv, TypeOK, TableConsistent
<1>8. CountsMatch'
  <2>1. \A k \in RateKeys : /\ SendersOf(k, byID)' = SendersOf(k, byID \ D)
                            /\ ReceiversOf(k, byID)' = ReceiversOf(k, byID \ D)
    BY <1>4, <1>5 DEF SendersOf, ReceiversOf, IInv, TypeOK
  <2> QED BY <1>1, <1>2, <1>5, <2>1, CountDrop DEF IInv, TypeOK
<1>9. CloseOnce' /\ SessionShape'
  BY <1>4, <1>5 DEF IInv, TypeOK, CloseOnce, SessionShape, Waiting, Paired
<1>10. ConsumedStaysClosed'
  BY <1>1, <1>5, RateAssumption DEF IInv, TypeOK, RateTypeOK, ConsumedStaysClosed, isConsumed, Times
<1>11. OwnPeer' /\ PollShape'
  BY <1>1, <1>4 DEF IInv, TypeOK, OwnPeer, PollShape, Paired
<1>12. DownShape'
  BY <1>1, <1>4, <1>5 DEF IInv, DownShape
<1>13. IsFiniteSet(byID)' /\ IsFiniteSet(saved)'
  BY <1>1, <1>5, FS_Subset DEF IInv
<1> QED BY <1>6, <1>7, <1>8, <1>9, <1>10, <1>11, <1>12, <1>13 DEF IInv

\* Both ways down leave empty maps and no parked handler.
LEMMA DownInv ==
  ASSUME IInv, Forget, up' = FALSE, UNCHANGED <<now, sess>>, saved' \in SUBSET byID \/ saved' = saved,
         \A i \in saved' : Waiting(i) /\ ~sess[i].closed,
         \A i, j \in saved' : sess[i].slot = sess[j].slot => i = j,
         poll' \in [Polls -> Poll],
         \A p \in Polls : ~poll'[p].parked /\ (poll'[p].status = 200 => poll'[p] = poll[p])
  PROVE  IInv'
<1>1. RateTypeOK'
  BY DEF Forget, IInv, TypeOK, RateTypeOK, Bucket, EmptyBucket
<1>2. saved' \subseteq Ids /\ IsFiniteSet(saved')
  BY FS_Subset DEF IInv, TypeOK
<1>3. TypeOK'
  BY <1>1, <1>2 DEF Forget, IInv, TypeOK
<1>4. CountsMatch'
  <2>1. \A k \in RateKeys : SendersOf(k, byID)' = {} /\ ReceiversOf(k, byID)' = {}
    BY DEF Forget, SendersOf, ReceiversOf
  <2>2. \A k \in RateKeys : ipCounts'[k] = 0
    BY DEF Forget
  <2>3. \A k \in RateKeys : Cardinality(SendersOf(k, byID))' = 0 /\ Cardinality(ReceiversOf(k, byID))' = 0
    BY <2>1, FS_EmptySet
  <2> QED BY <2>2, <2>3 DEF CountsMatch, Charged
<1>5. OwnPeer' /\ PollShape'
  BY DEF IInv, OwnPeer, PollShape, Paired
<1>6. DownShape'
  BY DEF IInv, DownShape, Forget, Waiting
<1>7. IsFiniteSet(byID)'
  BY FS_EmptySet DEF Forget
<1>8. TableConsistent' /\ CloseOnce' /\ ConsumedStaysClosed' /\ SessionShape'
  BY DEF IInv, Forget, TableConsistent, CloseOnce, ConsumedStaysClosed, SessionShape, Waiting, Paired
<1> QED BY <1>2, <1>3, <1>4, <1>5, <1>6, <1>7, <1>8 DEF IInv

\* Graceful shutdown empties the table and keeps the unjoined sessions.
LEMMA ShutdownInv ==
  ASSUME IInv, Shutdown
  PROVE  IInv'
<1>1. poll' \in [Polls -> Poll]
  <2>1. 0 \in Times
    BY RateAssumption DEF Times
  <2>2. \A p \in Polls : Answered(poll[p].id, 204, NoHost) \in Poll
    <3> TAKE p \in Polls
    <3>1. poll[p] \in Poll
      BY DEF IInv, TypeOK
    <3> QED BY <2>1, <3>1 DEF Poll, Answered
  <2> QED BY <2>2 DEF Shutdown, IInv, TypeOK
<1>2. \A p \in Polls : ~poll'[p].parked /\ (poll'[p].status = 200 => poll'[p] = poll[p])
  <2> TAKE p \in Polls
  <2>1. poll[p] \in Poll
    BY DEF IInv, TypeOK
  <2>2. poll'[p] = IF poll[p].parked THEN Answered(poll[p].id, 204, NoHost) ELSE poll[p]
    BY DEF Shutdown
  <2> QED BY <2>1, <2>2 DEF Poll, Answered
<1>3. saved' \in SUBSET byID /\ (\A i \in saved' : Waiting(i) /\ ~sess[i].closed)
  BY DEF Shutdown, IInv, CloseOnce
<1>4. \A i, j \in saved' : sess[i].slot = sess[j].slot => i = j
  BY <1>3 DEF IInv, TableConsistent
<1> QED BY <1>1, <1>2, <1>3, <1>4, DownInv DEF Shutdown

\* A crash empties the table and saves nothing.
LEMMA CrashInv ==
  ASSUME IInv, Crash
  PROVE  IInv'
<1>1. poll' \in [Polls -> Poll] /\ \A p \in Polls : ~poll'[p].parked /\ (poll'[p].status = 200 => poll'[p] = poll[p])
  <2>1. IdlePoll \in Poll
    BY RateAssumption DEF IdlePoll, Poll, Times
  <2> QED BY <2>1 DEF Crash, Silence, IInv, TypeOK, IdlePoll
<1>2. saved' = saved /\ (\A i \in saved' : Waiting(i) /\ ~sess[i].closed)
                    /\ (\A i, j \in saved' : sess[i].slot = sess[j].slot => i = j)
  BY DEF Crash, IInv, DownShape
<1> QED BY <1>1, <1>2, DownInv DEF Crash

\* LoadState: one session per slot comes back, without addresses, so nothing
\* is charged until its sender's next poll.
LEMMA LoadInv ==
  ASSUME IInv, LoadState
  PROVE  IInv'
<1> DEFINE R == Restored
<1>1. /\ ~up /\ up' = TRUE /\ saved' = {} /\ byID' = R
      /\ UNCHANGED <<now, ipBucket, ipCounts, consumed, poll>>
  BY DEF LoadState, rateVars
<1>a. bySlot' = [s \in Slots |-> IF \E i \in R : sess[i].slot = s
                                 THEN CHOOSE i \in R : sess[i].slot = s ELSE NoId]
  BY DEF LoadState
<1>b. sess' = [i \in Ids |-> IF i \in R
                             THEN [sess[i] EXCEPT !.sender = NoHost, !.lastSeen = now] ELSE sess[i]]
  BY DEF LoadState
<1>2. R \subseteq saved /\ R \subseteq Ids /\ IsFiniteSet(R)
  BY FS_Subset DEF Restored, IInv, TypeOK
<1> HIDE DEF R
<1>3. sess' \in [Ids -> Session]
  <2>1. \A i \in Ids : sess[i] \in Session
    BY DEF IInv, TypeOK
  <2>2. \A i \in Ids : [sess[i] EXCEPT !.sender = NoHost, !.lastSeen = now] \in Session
    BY <2>1 DEF Session, IInv, TypeOK, RateTypeOK
  <2> QED BY <1>b, <2>1, <2>2
<1>4. \A i \in Ids : /\ sess'[i].slot = sess[i].slot
                     /\ sess'[i].receiver = sess[i].receiver
                     /\ sess'[i].state = sess[i].state
                     /\ sess'[i].closed = sess[i].closed
                     /\ i \in R => sess'[i].sender = NoHost
  BY <1>b DEF IInv, TypeOK, Session
<1>5. \A i \in R : Waiting(i) /\ ~sess[i].closed /\ sess[i].slot \in Slots /\ sess[i].receiver = NoHost
  BY <1>2 DEF IInv, TypeOK, Session, DownShape, SessionShape, Waiting, Paired
<1>6. \A s \in Slots : bySlot'[s] # NoId => bySlot'[s] \in R /\ sess[bySlot'[s]].slot = s
  BY <1>a
<1>7. \A i \in R : bySlot'[sess[i].slot] = i
  <2> TAKE i \in R
  <2>1. bySlot'[sess[i].slot] = CHOOSE j \in R : sess[j].slot = sess[i].slot
    BY <1>a, <1>5
  <2>2. \A j \in R : sess[j].slot = sess[i].slot => j = i
    BY <1>2 DEF IInv, DownShape
  <2> QED BY <2>1, <2>2
<1>8. TypeOK'
  <2>1. bySlot' \in [Slots -> Ids \cup {NoId}]
    BY <1>a, <1>2
  <2> QED BY <1>1, <1>2, <1>3, <2>1 DEF IInv, TypeOK, RateTypeOK
<1>9. TableConsistent'
  <2>1. \A s \in Slots : bySlot'[s] # NoId => bySlot'[s] \in byID' /\ sess'[bySlot'[s]].slot = s
    BY <1>1, <1>2, <1>4, <1>6
  <2>2. \A i \in byID' : sess'[i].slot \in Slots /\ bySlot'[sess'[i].slot] = i
    BY <1>1, <1>2, <1>4, <1>5, <1>7
  <2> QED BY <2>1, <2>2 DEF TableConsistent
<1>10. CountsMatch'
  <2>1. \A k \in RateKeys : SendersOf(k, byID)' = {} /\ ReceiversOf(k, byID)' = {}
    BY <1>1, <1>2, <1>4, <1>5, SignalingAssumption DEF SendersOf, ReceiversOf
  <2>2. \A k \in RateKeys : Charged(k, byID)' = 0
    BY <2>1, FS_EmptySet DEF Charged
  <2> QED BY <1>1, <2>2 DEF IInv, CountsMatch, DownShape
<1>11. CloseOnce' /\ SessionShape' /\ OwnPeer'
  <2>1. CloseOnce'
    BY <1>1, <1>2, <1>4, <1>5 DEF CloseOnce
  <2>2. SessionShape'
    BY <1>1, <1>4, <1>5 DEF IInv, SessionShape, Waiting, Paired
  <2>3. OwnPeer'
    BY <1>1, <1>4 DEF IInv, OwnPeer, PollShape, Paired
  <2> QED BY <2>1, <2>2, <2>3
<1>12. ConsumedStaysClosed'
  <2>1. now \in Nat /\ now' = now
    BY <1>1, RateAssumption DEF IInv, TypeOK, RateTypeOK, Times
  <2>2. \A s \in Slots : consumed'[s] = 0
    BY <1>1 DEF IInv, DownShape
  <2> QED BY <2>1, <2>2 DEF ConsumedStaysClosed, isConsumed
<1>13. PollShape' /\ DownShape'
  BY <1>1 DEF IInv, DownShape, PollShape
<1>14. IsFiniteSet(byID)' /\ IsFiniteSet(saved)'
  BY <1>1, <1>2, FS_EmptySet
<1> QED BY <1>8, <1>9, <1>10, <1>11, <1>12, <1>13, <1>14 DEF IInv

\* Time may pass a TTL, but not the timer of a parked poll.
LEMMA TickInv ==
  ASSUME IInv, Tick
  PROVE  IInv'
<1>1. /\ now \in Times /\ now < MaxTime /\ now' = now + 1
      /\ UNCHANGED <<ipBucket, up, table, poll, saved>>
      /\ \A p \in Polls : poll[p].parked => now < poll[p].since + LongPollTimeout
  BY DEF Tick, IInv, TypeOK, RateTypeOK
<1>2. now' \in Times
  BY <1>1, RateAssumption DEF Times
<1>3. TypeOK'
  BY <1>1, <1>2 DEF IInv, TypeOK, RateTypeOK, table
<1>4. PollShape'
  <2> SUFFICES ASSUME NEW p \in Polls, poll[p].parked
               PROVE  poll[p].since <= now' /\ now' <= poll[p].since + LongPollTimeout
    BY <1>1 DEF IInv, PollShape, table
  <2>1. poll[p].since \in Times /\ poll[p].since <= now
    BY DEF IInv, TypeOK, Poll, PollShape
  <2> QED BY <1>1, <2>1, RateAssumption, SignalingAssumption DEF Times
<1>5. ConsumedStaysClosed'
  BY <1>1, RateAssumption DEF IInv, TypeOK, ConsumedStaysClosed, isConsumed, table, Times
<1> QED
  BY <1>1, <1>3, <1>4, <1>5
  DEF IInv, table, TableConsistent, CountsMatch, Charged, SendersOf, ReceiversOf,
      CloseOnce, OwnPeer, SessionShape, DownShape, Waiting, Paired

-----------------------------------------------------------------------------
\* Every step of the server preserves the inductive invariant.
LEMMA NextInv == IInv /\ [Next]_vars => IInv'
<1> SUFFICES ASSUME IInv, [Next]_vars PROVE IInv'
  OBVIOUS
<1>1. ASSUME NEW h \in Hosts, NEW s \in Slots, createSession(h, s) PROVE IInv'
  BY <1>1, CreateInv
<1>2. ASSUME NEW h \in Hosts, NEW s \in Slots, joinSession(h, s) PROVE IInv'
  BY <1>2, JoinInv
<1>3. ASSUME NEW p \in Polls, NEW h \in Hosts, NEW i \in Ids, waitSession(p, h, i) PROVE IInv'
  BY <1>3, WaitInv
<1>4. ASSUME NEW p \in Polls, WaitReturns(p) PROVE IInv'
  BY <1>4, WokenInv, TimeoutInv DEF WaitReturns
<1>5. ASSUME NEW i \in Ids, NEW used \in BOOLEAN, deleteSession(i, used) PROVE IInv'
  BY <1>5, DeleteInv
<1>6. CASE evict
  BY <1>6, EvictInv
<1>7. CASE Shutdown
  BY <1>7, ShutdownInv
<1>8. CASE Crash
  BY <1>8, CrashInv
<1>9. CASE LoadState
  BY <1>9, LoadInv
<1>10. CASE Tick
  BY <1>10, TickInv
<1>11. CASE UNCHANGED vars
  BY <1>11
  DEF vars, IInv, table, rateVars, TypeOK, RateTypeOK, TableConsistent, CountsMatch, Charged, SendersOf,
      ReceiversOf, CloseOnce, OwnPeer, ConsumedStaysClosed, SessionShape, DownShape, PollShape, Waiting,
      Paired, isConsumed
<1> QED
  BY <1>1, <1>2, <1>3, <1>4, <1>5, <1>6, <1>7, <1>8, <1>9, <1>10, <1>11 DEF Next

\* IInv holds of every reachable state of the pairing server.
THEOREM Invariance == Spec => []IInv
<1>1. Init => IInv
  BY InitInv
<1>2. IInv /\ [Next]_vars => IInv'
  BY NextInv
<1> QED BY <1>1, <1>2, PTL DEF Spec

\* The variables of the session table keep their types.
THEOREM TypeCorrect == Spec => []TypeOK
<1>1. IInv => TypeOK
  BY DEF IInv
<1> QED BY <1>1, Invariance, PTL

\* bySlot and byID describe the same sessions in every reachable state.
THEOREM TableCorrect == Spec => []TableConsistent
<1>1. IInv => TableConsistent
  BY DEF IInv
<1> QED BY <1>1, Invariance, PTL

\* ipCounts is exactly the number of live sides, so the concurrency cap can
\* neither leak slots nor be talked below zero.
THEOREM CountsCorrect == Spec => []CountsMatch
<1>1. IInv => CountsMatch
  BY DEF IInv
<1> QED BY <1>1, Invariance, PTL

\* No channel is closed twice.
THEOREM CloseCorrect == Spec => []CloseOnce
<1>1. IInv => CloseOnce
  BY DEF IInv
<1> QED BY <1>1, Invariance, PTL

\* A woken sender never learns the peer of somebody else's session.
THEOREM PeerCorrect == Spec => []OwnPeer
<1>1. IInv => OwnPeer
  BY DEF IInv
<1> QED BY <1>1, Invariance, PTL

\* A used code stays refused for as long as its tombstone lasts.
THEOREM TombstoneCorrect == Spec => []ConsumedStaysClosed
<1>1. IInv => ConsumedStaysClosed
  BY DEF IInv
<1> QED BY <1>1, Invariance, PTL

\* A sender in a long-poll is never taken for a dead one.
THEOREM HeartbeatCorrect == Spec => []PolledNotAbandoned
<1>1. IInv => PolledNotAbandoned
  <2> SUFFICES ASSUME IInv, NEW p \in Polls, poll[p].parked
               PROVE  ~(now - sess[poll[p].id].lastSeen > AbandonedTTL)
    BY DEF PolledNotAbandoned, Abandoned
  <2>1. /\ poll[p].id \in Ids
        /\ poll[p].since <= sess[poll[p].id].lastSeen
        /\ now <= poll[p].since + LongPollTimeout
    BY DEF IInv, PollShape
  <2>2. poll[p].since \in Nat /\ now \in Nat /\ sess[poll[p].id].lastSeen \in Nat
    BY <2>1, RateAssumption DEF IInv, TypeOK, RateTypeOK, Poll, Session, Times
  <2> QED BY <2>1, <2>2, SignalingAssumption
<1> QED BY <1>1, Invariance, PTL

\* No step changes the receiver of a session that has one.
THEOREM ClaimedCorrect == Spec => ClaimedOnce
<1> DEFINE A == \A i \in Ids : Paired(i) => Paired(i)' /\ sess'[i].receiver = sess[i].receiver
<1>1. IInv /\ [Next]_vars => [A]_vars
  <2> SUFFICES ASSUME IInv, Next PROVE A
    OBVIOUS
  <2> USE DEF Paired
  <2>0. sess \in [Ids -> Session]
    BY DEF IInv, TypeOK
  <2>1. ASSUME NEW h \in Hosts, NEW s \in Slots, createSession(h, s) PROVE A
    BY <2>0, <2>1 DEF createSession
  <2>2. ASSUME NEW h \in Hosts, NEW s \in Slots, joinSession(h, s) PROVE A
    BY <2>0, <2>2 DEF joinSession, joinStatus, Waiting, Joined
  <2>3. ASSUME NEW p \in Polls, NEW h \in Hosts, NEW i \in Ids, waitSession(p, h, i) PROVE A
    <3>1. \/ UNCHANGED sess
          \/ sess' = [sess EXCEPT ![i].lastSeen = now, ![i].sender = h]
          \/ sess' = [sess EXCEPT ![i].lastSeen = now]
      BY <2>3 DEF waitSession
    <3> QED BY <2>0, <3>1 DEF Session
  <2>4. ASSUME NEW p \in Polls, WaitReturns(p) PROVE A
    BY <2>4 DEF WaitReturns, waitWoken, waitDone, table
  <2>5. ASSUME NEW i \in Ids, NEW used \in BOOLEAN, deleteSession(i, used) PROVE A
    BY <2>5 DEF deleteSession
  <2>6. CASE evict
    BY <2>0, <2>6 DEF evict, Session
  <2>7. CASE Shutdown \/ Crash
    BY <2>7 DEF Shutdown, Crash
  <2>8. CASE LoadState
    BY <2>0, <2>8 DEF LoadState, Session
  <2>9. CASE Tick
    BY <2>9 DEF Tick, table
  <2> QED BY <2>1, <2>2, <2>3, <2>4, <2>5, <2>6, <2>7, <2>8, <2>9 DEF Next
<1> QED BY <1>1, Invariance, PTL DEF Spec, ClaimedOnce

\* Releasing sides adds none.
LEMMA ReleaseLowers ==
  ASSUME IInv, NEW D \in SUBSET byID, releaseIP(D)
  PROVE  \A k \in RateKeys : ipCounts'[k] <= ipCounts[k]
<1>1. \A k \in RateKeys : Charged(k, D) \in Nat
  BY FS_Subset, ChargedType DEF IInv
<1> QED BY <1>1 DEF releaseIP, IInv, TypeOK

\* A handler that looked at the cap leaves a count within it: the look and the
\* charge are under one mutex (createSession, joinSession).
LEMMA ChargeBelowCap ==
  ASSUME IInv, NEW h \in Hosts, ~AtCap(h), ChargeIP(h), NEW k \in RateKeys, MaxSessionsPerIP > 0
  PROVE  ipCounts'[k] <= ipCounts[k] \/ ipCounts'[k] <= MaxSessionsPerIP
  BY RateAssumption, SignalingAssumption DEF AtCap, ChargeIP, IInv, TypeOK

\* A rate key's count grows past the cap only where a restored sender's first
\* /wait charges its address (waitSession, after LoadState).
THEOREM CapCorrect == Spec => CapPassedOnlyByRestore
<1> DEFINE A == \A k \in RateKeys :
                   MaxSessionsPerIP > 0 /\ ipCounts'[k] > ipCounts[k] /\ ipCounts'[k] > MaxSessionsPerIP
                   => \E i \in byID : sess[i].sender = NoHost /\ sess'[i].sender # NoHost
           Lower == \A k \in RateKeys : ~(ipCounts'[k] > ipCounts[k])
<1>1. IInv /\ [Next]_vars => [A]_vars
  <2> SUFFICES ASSUME IInv, Next PROVE A
    OBVIOUS
  <2>0. /\ ipCounts \in [RateKeys -> Nat] /\ ipCounts' \in [RateKeys -> Nat]
        /\ MaxSessionsPerIP \in Nat /\ sess \in [Ids -> Session]
    BY NextInv, SignalingAssumption DEF IInv, TypeOK
  <2>a. Lower => A
    OBVIOUS
  <2>b. UNCHANGED ipCounts => Lower
    BY <2>0
  <2>1. ASSUME NEW h \in Hosts, ~AtCap(h), ChargeIP(h) PROVE A
    BY <2>0, <2>1, ChargeBelowCap
  <2>2. ASSUME NEW h \in Hosts, NEW s \in Slots, createSession(h, s) PROVE A
    BY <2>a, <2>b, <2>1, <2>2 DEF createSession, createStatus
  <2>3. ASSUME NEW h \in Hosts, NEW s \in Slots, joinSession(h, s) PROVE A
    BY <2>a, <2>b, <2>1, <2>3 DEF joinSession, joinStatus
  <2>4. ASSUME NEW p \in Polls, NEW h \in Hosts, NEW i \in Ids, waitSession(p, h, i) PROVE A
    <3>1. \/ UNCHANGED ipCounts
          \/ /\ sess[i].state # "new" /\ OwnsSlot(i) /\ sess[i].sender = NoHost
             /\ sess' = [sess EXCEPT ![i].lastSeen = now, ![i].sender = h]
      BY <2>4 DEF waitSession
    <3>2. CASE UNCHANGED ipCounts
      BY <2>a, <2>b, <3>2
    <3>3. CASE /\ sess[i].state # "new" /\ OwnsSlot(i) /\ sess[i].sender = NoHost
               /\ sess' = [sess EXCEPT ![i].lastSeen = now, ![i].sender = h]
      <4>1. sess[i].slot \in Slots
        BY <2>0, <3>3 DEF IInv, SessionShape, Session
      <4>2. i \in byID
        BY <3>3, <4>1, SignalingAssumption DEF OwnsSlot, IInv, TableConsistent
      <4>3. sess'[i].sender = h /\ h # NoHost
        BY <2>0, <3>3, SignalingAssumption DEF Session
      <4> QED BY <3>3, <4>2, <4>3
    <3> QED BY <3>1, <3>2, <3>3
  <2>5. ASSUME NEW p \in Polls, WaitReturns(p) PROVE A
    BY <2>a, <2>b, <2>5 DEF WaitReturns, waitWoken, waitDone, table
  <2>6. ASSUME NEW D \in SUBSET byID, releaseIP(D) PROVE A
    BY <2>0, <2>6, ReleaseLowers
  <2>7. ASSUME NEW i \in Ids, NEW used \in BOOLEAN, deleteSession(i, used) PROVE A
    <3>1. {i} \in SUBSET byID /\ releaseIP({i})
      BY <2>7 DEF deleteSession
    <3> QED BY <2>6, <3>1
  <2>8. CASE evict
    <3>1. Evictable \in SUBSET byID /\ releaseIP(Evictable)
      BY <2>8 DEF evict, Evictable
    <3> QED BY <2>6, <3>1
  <2>9. CASE Shutdown \/ Crash
    <3>1. \A k \in RateKeys : ipCounts'[k] = 0
      BY <2>9 DEF Shutdown, Crash, Forget
    <3> QED BY <2>0, <3>1
  <2>10. CASE LoadState \/ Tick
    BY <2>a, <2>b, <2>10 DEF LoadState, Tick, table
  <2> QED BY <2>2, <2>3, <2>4, <2>5, <2>7, <2>8, <2>9, <2>10 DEF Next
<1> QED BY <1>1, Invariance, PTL DEF Spec, CapPassedOnlyByRestore
=============================================================================
