------------------------------ MODULE Signaling ------------------------------
(***************************************************************************)
(* The pairing server's session table (internal/server): a sender creates  *)
(* a session under the slot derived from its code, a receiver joins it,    *)
(* the sender learns of it through a /wait long-poll, either of them       *)
(* deletes it, and a janitor evicts what nobody came back for.  The        *)
(* process may stop gracefully (its pending sessions are saved and         *)
(* reloaded) or crash.                                                     *)
(*                                                                         *)
(* Every handler runs under the server's one mutex and is one action; a    *)
(* /wait handler lets go of the mutex while it is parked, so it is two.    *)
(* bySlot and byID point to the same *session: sess is that heap, indexed  *)
(* by session ID, and an entry outlives its removal from the maps the way  *)
(* a pointer held by a parked handler does.  A role token is random and    *)
(* known only to its owner: a request names the session its token is of.   *)
(***************************************************************************)
EXTENDS RateLimit, FiniteSets

CONSTANTS
    Slots,             \* the argon2id-stretched codes
    Ids,               \* bound: the session IDs; each is used by one createSession
    Polls,             \* bound: the /wait handlers that can be running at once
    NoHost, NoId, NoSlot,
    MaxSessionsPerIP,  \* 0 = unlimited
    UnpairedTTL, AbandonedTTL, PairedTTL, consumedTTL, LongPollTimeout

ASSUME SignalingAssumption ==
    /\ NoHost \notin Hosts
    /\ NoId \notin Ids
    /\ NoSlot \notin Slots
    /\ MaxSessionsPerIP \in Nat
    /\ {UnpairedTTL, AbandonedTTL, PairedTTL, consumedTTL, LongPollTimeout} \subseteq Nat
    \* Config.Default: 25s against 5m
    /\ LongPollTimeout <= AbandonedTTL

VARIABLES
    up,        \* the process is running
    sess,      \* the sessions ever created
    bySlot,    \* slot -> the live session under it
    byID,      \* the live sessions
    ipCounts,  \* live session sides per rate key
    consumed,  \* slot -> expiry of the used-code tombstone, 0 when absent
    poll,      \* the /wait handlers
    saved      \* the sessions in FSEND_STATE_FILE

table == <<sess, bySlot, byID, ipCounts, consumed>>
vars == <<rateVars, up, table, poll, saved>>

Session == [slot : Slots \cup {NoSlot}, sender : Hosts \cup {NoHost}, receiver : Hosts \cup {NoHost},
            state : {"new", "waiting", "paired"},
            created : Times, lastSeen : Times, pairedAt : Times,
            closed : BOOLEAN]   \* the waiters channel has been closed

NoSession == [slot |-> NoSlot, sender |-> NoHost, receiver |-> NoHost, state |-> "new",
              created |-> 0, lastSeen |-> 0, pairedAt |-> 0, closed |-> FALSE]

\* A handler is idle until it parks; what it answered last is kept.
Poll == [parked : BOOLEAN, id : Ids \cup {NoId}, since : Times,
         status : {0, 200, 204, 404, 429}, peer : Hosts \cup {NoHost}]
IdlePoll == [parked |-> FALSE, id |-> NoId, since |-> 0, status |-> 0, peer |-> NoHost]

TypeOK ==
    /\ RateTypeOK
    /\ up \in BOOLEAN
    /\ sess \in [Ids -> Session]
    /\ bySlot \in [Slots -> Ids \cup {NoId}]
    /\ byID \subseteq Ids
    /\ ipCounts \in [RateKeys -> Nat]
    /\ consumed \in [Slots -> Nat]
    /\ poll \in [Polls -> Poll]
    /\ saved \subseteq Ids

-----------------------------------------------------------------------------
Waiting(i) == sess[i].state = "waiting"
Paired(i) == sess[i].state = "paired"

isConsumed(s) == now < consumed[s]

AtCapLate(h) ==   \* mutant: the cap admits one side too many
    MaxSessionsPerIP > 0 /\ ipCounts[RateKey[h]] > MaxSessionsPerIP
AtCap(h) == MaxSessionsPerIP > 0 /\ ipCounts[RateKey[h]] >= MaxSessionsPerIP

\* The session sides among S that are charged to rate key k.
SendersOf(k, S) == {i \in S : sess[i].sender \in Hosts /\ RateKey[sess[i].sender] = k}
ReceiversOf(k, S) == {i \in S : sess[i].receiver \in Hosts /\ RateKey[sess[i].receiver] = k}
Charged(k, S) == Cardinality(SendersOf(k, S)) + Cardinality(ReceiversOf(k, S))

ChargeIP(h) == ipCounts' = [ipCounts EXCEPT ![RateKey[h]] = @ + 1]

\* Mutants: only the sender's side is released; the sender is released twice
\* and the count does not stop at zero.
releaseSender(S) ==
    ipCounts' = [k \in RateKeys |-> ipCounts[k] - Cardinality(SendersOf(k, S))]
releaseTwice(S) ==
    ipCounts' = [k \in RateKeys |-> ipCounts[k] - Charged(k, S) - Cardinality(SendersOf(k, S))]

\* releaseIP of both sides of every session in S: a count that reaches zero
\* (or would pass it) is deleted from the map.
releaseIP(S) ==
    ipCounts' = [k \in RateKeys |->
                    IF ipCounts[k] > Charged(k, S) THEN ipCounts[k] - Charged(k, S) ELSE 0]

DropByID(S) ==   \* mutant: the slot's entry is forgotten
    /\ byID' = byID \ S
    /\ UNCHANGED bySlot

\* delete(s.byID, id); delete(s.bySlot, sess.Slot)
Drop(S) ==
    /\ byID' = byID \ S
    /\ bySlot' = [s \in Slots |-> IF \E i \in S : sess[i].slot = s THEN NoId ELSE bySlot[s]]

-----------------------------------------------------------------------------
createStatusReused(h, s) ==   \* mutant: a used code can be created again
    IF ~allowNewSession(h) \/ AtCap(h) THEN 429
    ELSE IF bySlot[s] # NoId THEN 409
    ELSE 200

\* POST /v1/session: the early returns in order, 200 when there is none.
createStatus(h, s) ==
    IF ~allowNewSession(h) \/ AtCap(h) THEN 429
    ELSE IF bySlot[s] # NoId \/ isConsumed(s) THEN 409
    ELSE 200

createSession(h, s) ==
    /\ up
    /\ ChargeRate(h)
    /\ \/ /\ createStatus(h, s) = 200
          /\ \E i \in Ids :
                /\ sess[i].state = "new"
                /\ sess' = [sess EXCEPT ![i] =
                              [slot |-> s, sender |-> h, receiver |-> NoHost, state |-> "waiting",
                               created |-> now, lastSeen |-> now, pairedAt |-> 0, closed |-> FALSE]]
                /\ bySlot' = [bySlot EXCEPT ![s] = i]
                /\ byID' = byID \cup {i}
          /\ ChargeIP(h)
       \/ /\ createStatus(h, s) # 200
          /\ UNCHANGED <<sess, bySlot, byID, ipCounts>>
    /\ UNCHANGED <<now, up, consumed, poll, saved>>

joinStatusTwice(h, s) ==   \* mutant: a joined session can be joined again
    IF ~allowNewSession(h) THEN 429
    ELSE IF isConsumed(s) THEN 409
    ELSE IF bySlot[s] = NoId THEN 404
    ELSE IF AtCap(h) THEN 429
    ELSE 200

\* POST /v1/session/{slot}/join
joinStatus(h, s) ==
    IF ~allowNewSession(h) THEN 429
    ELSE IF isConsumed(s) THEN 409
    ELSE IF bySlot[s] = NoId THEN 404
    ELSE IF ~Waiting(bySlot[s]) THEN 409
    ELSE IF AtCap(h) THEN 429
    ELSE 200

JoinedOpen(i, h) ==   \* mutant: the channel is closed, the state is not moved on
    [sess[i] EXCEPT !.pairedAt = now, !.closed = TRUE]

Joined(i, h) ==
    [sess[i] EXCEPT !.receiver = h, !.state = "paired", !.pairedAt = now, !.closed = TRUE]

joinSession(h, s) ==
    /\ up
    /\ ChargeRate(h)
    /\ \/ /\ joinStatus(h, s) = 200
          /\ sess' = [sess EXCEPT ![bySlot[s]] = Joined(bySlot[s], h)]
          /\ ChargeIP(h)
       \/ /\ joinStatus(h, s) # 200
          /\ UNCHANGED <<sess, ipCounts>>
    /\ UNCHANGED <<now, up, bySlot, byID, consumed, poll, saved>>

-----------------------------------------------------------------------------
Answered(i, code, peer) ==
    [parked |-> FALSE, id |-> i, since |-> 0, status |-> code, peer |-> peer]

Answer(p, i, code, peer) == poll' = [poll EXCEPT ![p] = Answered(i, code, peer)]

\* The sender token of i is the sender's token of the session under the slot.
OwnsSlot(i) == bySlot[sess[i].slot] = i

\* POST /v1/session/{slot}/wait by the holder of session i's sender token, up
\* to the point where the handler parks. The poll is the sender's heartbeat; a
\* session restored from the snapshot learns its sender's address here.
waitSession(p, h, i) ==
    /\ up
    /\ ~poll[p].parked
    /\ sess[i].state # "new"
    /\ now + LongPollTimeout <= MaxTime   \* bound: its timer can still fire
    /\ ChargeRate(h)
    /\ \/ /\ ~allowNewSession(h)
          /\ Answer(p, i, 429, NoHost)
          /\ UNCHANGED <<sess, ipCounts>>
       \/ /\ allowNewSession(h) /\ ~OwnsSlot(i)
          /\ Answer(p, i, 404, NoHost)
          /\ UNCHANGED <<sess, ipCounts>>
       \/ /\ allowNewSession(h) /\ OwnsSlot(i)
          /\ \/ /\ sess[i].sender = NoHost
                /\ sess' = [sess EXCEPT ![i].lastSeen = now, ![i].sender = h]
                /\ ChargeIP(h)
             \/ /\ sess[i].sender # NoHost
                /\ sess' = [sess EXCEPT ![i].lastSeen = now]
                /\ UNCHANGED ipCounts
          /\ \/ Paired(i) /\ Answer(p, i, 200, sess[i].receiver)
             \/ /\ ~Paired(i)
                /\ poll' = [poll EXCEPT ![p] = [parked |-> TRUE, id |-> i, since |-> now,
                                                status |-> 0, peer |-> NoHost]]
    /\ UNCHANGED <<now, up, bySlot, byID, consumed, saved>>

\* What is under the slot is still the session the handler parked on.
AnySession(i) == bySlot[sess[i].slot] # NoId   \* mutant: whatever is there will do
SameSession(i) == bySlot[sess[i].slot] = i

\* The parked handler's case <-waiters: it takes the mutex again and answers
\* with what is under the slot, provided it is still its own session.
waitWoken(p) ==
    LET i == poll[p].id
    IN  /\ up
        /\ poll[p].parked
        /\ sess[i].closed
        /\ \/ SameSession(i) /\ Answer(p, i, 200, sess[bySlot[sess[i].slot]].receiver)
           \/ ~SameSession(i) /\ Answer(p, i, 404, NoHost)
        /\ UNCHANGED <<rateVars, up, table, saved>>

\* case <-ctx.Done(): the client hung up, or the long-poll timer fired.
waitDone(p) ==
    /\ up
    /\ poll[p].parked
    /\ Answer(p, poll[p].id, 204, NoHost)
    /\ UNCHANGED <<rateVars, up, table, saved>>

waitTimeoutLive(p) ==   \* mutant: the timer is only looked at while the session lives
    /\ waitDone(p)
    /\ now >= poll[p].since + LongPollTimeout
    /\ SameSession(poll[p].id)

waitTimeout(p) ==
    /\ now >= poll[p].since + LongPollTimeout
    /\ waitDone(p)

-----------------------------------------------------------------------------
\* DELETE /v1/session/{id}[?consumed] with either role token. It does not
\* close the waiters channel: a parked poll runs into its timeout.
deleteSession(i, used) ==
    /\ up
    /\ i \in byID
    /\ Drop({i})
    /\ releaseIP({i})
    /\ consumed' = [consumed EXCEPT ![sess[i].slot] = IF used THEN now + consumedTTL ELSE @]
    /\ UNCHANGED <<rateVars, up, sess, poll, saved>>

Expired(i) == now - sess[i].created > UnpairedTTL
AbandonedByAge(i) ==   \* mutant: age counts, not the heartbeat
    now - sess[i].created > AbandonedTTL
Abandoned(i) == now - sess[i].lastSeen > AbandonedTTL
PairedOut(i) == now - sess[i].pairedAt > PairedTTL

Evictable == {i \in byID : \/ Waiting(i) /\ (Expired(i) \/ Abandoned(i))
                           \/ Paired(i) /\ PairedOut(i)}

\* The janitor. A waiting session's channel is closed, which wakes its poll.
evict ==
    /\ up
    /\ Drop(Evictable)
    /\ releaseIP(Evictable)
    /\ sess' = [i \in Ids |-> IF i \in Evictable /\ Waiting(i)
                              THEN [sess[i] EXCEPT !.closed = TRUE] ELSE sess[i]]
    /\ consumed' = [s \in Slots |-> IF now > consumed[s] THEN 0 ELSE consumed[s]]
    /\ SweepBuckets
    /\ UNCHANGED <<now, up, poll, saved>>

-----------------------------------------------------------------------------
\* Every handler of the process is gone with it.
Silence == poll' = [p \in Polls |-> IF poll[p].parked THEN IdlePoll ELSE poll[p]]

\* A process starts from empty maps.
Forget ==
    /\ bySlot' = [s \in Slots |-> NoId]
    /\ byID' = {}
    /\ ipCounts' = [k \in RateKeys |-> 0]
    /\ consumed' = [s \in Slots |-> 0]
    /\ ipBucket' = [b \in BucketKeys |-> EmptyBucket]

\* Graceful shutdown: ReleaseWaiters answers every parked poll with 204, the
\* HTTP server stops, and SaveState writes the sessions nobody has joined.
Shutdown ==
    /\ up
    /\ up' = FALSE
    /\ saved' = {i \in byID : Waiting(i)}
    /\ poll' = [p \in Polls |->
                  IF poll[p].parked THEN Answered(poll[p].id, 204, NoHost) ELSE poll[p]]
    /\ Forget
    /\ UNCHANGED <<now, sess>>

\* The process dies, or runs without a state file.
Crash ==
    /\ up
    /\ up' = FALSE
    /\ Silence
    /\ Forget
    /\ UNCHANGED <<now, sess, saved>>

\* LoadState in the next process: the file is read once and deleted; expired
\* sessions are dropped; the snapshot holds no addresses.
Restored == {i \in saved : ~Expired(i)}
LoadState ==
    /\ ~up
    /\ up' = TRUE
    /\ saved' = {}
    /\ byID' = Restored
    /\ bySlot' = [s \in Slots |-> IF \E i \in Restored : sess[i].slot = s
                                  THEN CHOOSE i \in Restored : sess[i].slot = s ELSE NoId]
    /\ sess' = [i \in Ids |-> IF i \in Restored
                              THEN [sess[i] EXCEPT !.sender = NoHost, !.lastSeen = now] ELSE sess[i]]
    /\ UNCHANGED <<rateVars, ipCounts, consumed, poll>>

\* Time passes, but never past the timer of a parked poll.
Tick ==
    /\ now < MaxTime
    /\ \A p \in Polls : poll[p].parked => now < poll[p].since + LongPollTimeout
    /\ now' = now + 1
    /\ UNCHANGED <<ipBucket, up, table, poll, saved>>

-----------------------------------------------------------------------------
Init ==
    /\ RateInit
    /\ up = TRUE
    /\ sess = [i \in Ids |-> NoSession]
    /\ bySlot = [s \in Slots |-> NoId]
    /\ byID = {}
    /\ ipCounts = [k \in RateKeys |-> 0]
    /\ consumed = [s \in Slots |-> 0]
    /\ poll = [p \in Polls |-> IdlePoll]
    /\ saved = {}

WaitReturns(p) == waitWoken(p) \/ waitDone(p)

Next ==
    \/ \E h \in Hosts, s \in Slots : createSession(h, s)
    \/ \E h \in Hosts, s \in Slots : joinSession(h, s)
    \/ \E p \in Polls, h \in Hosts, i \in Ids : waitSession(p, h, i)
    \/ \E p \in Polls : WaitReturns(p)
    \/ \E i \in Ids, used \in BOOLEAN : deleteSession(i, used)
    \/ evict
    \/ Shutdown
    \/ Crash
    \/ LoadState
    \/ Tick

Spec == Init /\ [][Next]_vars

\* The runtime schedules a handler whose select has a case ready, and time
\* passes. That a client hangs up is not assumed.
FairSpec ==
    /\ Spec
    /\ WF_vars(Tick)
    /\ \A p \in Polls : WF_vars(waitWoken(p)) /\ WF_vars(waitTimeout(p))
-----------------------------------------------------------------------------
\* bySlot and byID always describe the same set of sessions, whatever order
\* handlers, the janitor and a restart remove and add entries in: each delete
\* in the code names both maps by hand.
TableConsistent ==
    /\ \A s \in Slots : bySlot[s] # NoId => bySlot[s] \in byID /\ sess[bySlot[s]].slot = s
    /\ \A i \in byID : sess[i].slot \in Slots /\ bySlot[sess[i].slot] = i

\* ipCounts of a rate key is the number of live session sides charged to it:
\* no path releases a side twice, forgets to, or releases a restored sender
\* that was never charged (createSession, joinSession, waitSession against
\* deleteSession and evict).
CountsMatch == \A k \in RateKeys : ipCounts[k] = Charged(k, byID)

\* The channel of a session that can still be joined or evicted as waiting is
\* open, so close(sess.waiters) in joinSession and evict never panics.
CloseOnce == \A i \in byID : Waiting(i) => ~sess[i].closed

\* A /wait that answers 200 hands its sender the receiver of the sender's own
\* session, even when the slot was reused by another session while it was
\* parked (waitSession's comparison of the session ID).
OwnPeer ==
    \A p \in Polls : poll[p].status = 200 =>
        /\ Paired(poll[p].id)
        /\ poll[p].peer = sess[poll[p].id].receiver
        /\ poll[p].peer # NoHost

\* While a used code's tombstone lasts there is no session under its slot, so
\* a late receiver can only be told 409 (deleteSession, createSession).
ConsumedStaysClosed == \A s \in Slots : isConsumed(s) => bySlot[s] = NoId

\* The janitor never takes a session for abandoned while its sender sits in a
\* long-poll: each /wait refreshes LastSeen and returns before AbandonedTTL.
PolledNotAbandoned ==
    \A p \in Polls : poll[p].parked /\ Waiting(poll[p].id) => ~Abandoned(poll[p].id)

-----------------------------------------------------------------------------
\* The parts that make the invariants above inductive.

\* What a session's fields say about each other, in the maps or not.
SessionShape ==
    \A i \in Ids :
        /\ sess[i].state = "new" <=> sess[i].slot = NoSlot
        /\ Paired(i) <=> sess[i].receiver # NoHost
        /\ i \in byID => sess[i].state # "new"

\* A stopped process has no table and no handlers, and the snapshot exists
\* only between two processes: sessions nobody joined, one per slot.
DownShape ==
    /\ ~up => /\ byID = {}
              /\ \A s \in Slots : bySlot[s] = NoId /\ consumed[s] = 0
              /\ \A k \in RateKeys : ipCounts[k] = 0
              /\ \A p \in Polls : ~poll[p].parked
    /\ up => saved = {}
    /\ \A i \in saved : Waiting(i) /\ ~sess[i].closed
    /\ \A i, j \in saved : sess[i].slot = sess[j].slot => i = j

\* A parked handler is younger than its timer and holds a session it has
\* marked as seen.
PollShape ==
    \A p \in Polls :
        /\ poll[p].status = 200 => poll[p].id \in Ids
        /\ poll[p].parked =>
              /\ poll[p].status = 0
              /\ poll[p].id \in Ids
              /\ sess[poll[p].id].state # "new"
              /\ poll[p].since <= sess[poll[p].id].lastSeen
              /\ poll[p].since <= now /\ now <= poll[p].since + LongPollTimeout

IInv ==
    /\ TypeOK
    /\ TableConsistent
    /\ CountsMatch
    /\ CloseOnce
    /\ OwnPeer
    /\ ConsumedStaysClosed
    /\ SessionShape
    /\ DownShape
    /\ PollShape
    /\ IsFiniteSet(byID)
    /\ IsFiniteSet(saved)

-----------------------------------------------------------------------------
\* A code is claimed by one receiver: once joined, a session never changes its
\* receiver (joinSession's State check).
ClaimedOnce ==
    [][\A i \in Ids : Paired(i) => Paired(i)' /\ sess'[i].receiver = sess[i].receiver]_vars

\* The concurrency cap is passed only by a restored sender's first /wait: no
\* create or join, in any interleaving, adds a side to a full rate key.
CapPassedOnlyByRestore ==
    [][\A k \in RateKeys :
          MaxSessionsPerIP > 0 /\ ipCounts'[k] > ipCounts[k] /\ ipCounts'[k] > MaxSessionsPerIP
          => \E i \in byID : sess[i].sender = NoHost /\ sess'[i].sender # NoHost]_vars

\* Every parked long-poll is answered, also the one whose session was deleted
\* without closing its channel (waitSession's select).
PollAnswered == \A p \in Polls : poll[p].parked ~> ~poll[p].parked
=============================================================================
